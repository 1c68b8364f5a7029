---------------------------- MODULE EventIndexer ----------------------------
(***************************************************************************)
(* The event indexer (apps/backend/src/indexer/indexer.ts): processes that *)
(* poll the transactions of a circle, record each emitted event once in    *)
(* the events table, apply it to the derived tables and enqueue its        *)
(* notifications.  Several run at once: the API server starts one without  *)
(* a notification queue (index.ts), `pnpm indexer' one with it (run.ts).   *)
(*                                                                         *)
(* A process is one sequence of awaits.  Each await is a step of its own,  *)
(* between two of which other processes run, the process may crash, and    *)
(* the circle emits more.  supabase-js never throws: a statement that      *)
(* fails returns an error, which the code logs or ignores.                 *)
(*                                                                         *)
(* The chain is external: KyeContract as seen through its events, members  *)
(* being their order numbers, so that member k wins round k.  Transaction  *)
(* n has logical time n.  Events without a side effect and a notification  *)
(* (ContributionReceived, FeeDistributed) are left out.                    *)
(***************************************************************************)
EXTENDS Integers, Sequences, FiniteSets, Bags

CONSTANTS
    Indexer,            \* processes
    Notifier,           \* those started with a notification queue
    memberCount,
    Defaulters,         \* sets of members that may miss the payment of a round
    policyCancels,      \* is the circle's defaultPolicy Cancel?
    FETCH_LIMIT,        \* `limit' of getTransactions (50)
    MaxTx,              \* bound on the length of the chain
    MaxFaults           \* bound on failing statements and crashes

Member == 1..memberCount

ASSUME IndexerAssumption ==
    /\ IsFiniteSet(Indexer) /\ Notifier \subseteq Indexer
    /\ memberCount \in Nat \ {0}
    /\ FETCH_LIMIT \in Nat \ {0}
    /\ Defaulters \subseteq SUBSET Member
    /\ policyCancels \in BOOLEAN
    /\ MaxTx \in Nat /\ MaxFaults \in Nat

(* NOTIFICATION_MATRIX: whom an event type is announced to, and where.      *)
NOTIFICATION_MATRIX == [
    MemberJoined    |-> {<<"organizer", "group">>, <<"members", "group">>},
    KyeActivated    |-> {<<"all", "group">>, <<"all", "dm">>},
    RoundExecuted   |-> {<<"all", "group">>},
    PayoutSent      |-> {<<"winner", "dm">>},
    DefaultDetected |-> {<<"defaulter", "dm">>, <<"organizer", "dm">>},
    KyeCompleted    |-> {<<"all", "group">>, <<"all", "dm">>},
    KyeCancelled    |-> {<<"all", "group">>}]

EventType == DOMAIN NOTIFICATION_MATRIX

(* An event and the member it is about (0: none); round is its roundNum.    *)
Event == [type: EventType, member: 0..memberCount, round: 0..memberCount]

VARIABLES
    chain,              \* transactions of the circle, each its sequence of events
    rows,               \* events table: unique (tx_hash, event_type, lt)
    kyeStatus,          \* kyes.status
    memberStatus,       \* kye_members.status, "none" without a row
    rounds,             \* rounds with a row; all of them are executed
    defaulted_members,  \* rounds.defaulted_members
    credited,           \* payouts credited to test_usdc_vault_balance
    savedLt,            \* indexer_state.last_processed_lt
    jobs,               \* bag of jobs added to notification_queue
    stage,              \* indexer -> "down", "sleep", "insert", "work" or "save"
    tracked,            \* indexer -> is the circle in its registry?
    lastProcessedLt,    \* indexer -> its cursor in memory
    at,                 \* indexer -> <<lt, n>>, the event processEvent is on
    upto,               \* indexer -> last lt of the batch fetched
    todo,               \* indexer -> statements of applySideEffects to come
    readValue,          \* indexer -> what its last select returned
    faults,             \* failing statements and crashes so far
    lost,               \* history: <<lt, n>> given up without a row
    overlapped          \* history: two processes were up at once

derived == <<kyeStatus, memberStatus, rounds, defaulted_members, credited>>
process == <<stage, tracked, lastProcessedLt, at, upto, todo, readValue>>
vars == <<chain, rows, derived, savedLt, jobs, process, faults,
          lost, overlapped>>

-----------------------------------------------------------------------------
(* The circle *)

Emit(type, m, r) == [type |-> type, member |-> m, round |-> r]

Emitted(type) ==
    {p \in UNION {{<<n, j>> : j \in DOMAIN chain[n]} : n \in DOMAIN chain} :
        chain[p[1]][p[2]].type = type}
EventAt(p) == chain[p[1]][p[2]]
Joined == {EventAt(p).member : p \in Emitted("MemberJoined")}
currentRound == Cardinality(Emitted("RoundExecuted")) + 1
ChainStatus ==
    IF Emitted("KyeCancelled") # {} THEN "cancelled"
    ELSE IF Emitted("KyeCompleted") # {} THEN "completed"
    ELSE IF Emitted("KyeActivated") # {} THEN "active"
    ELSE "created"

JoinKye(m) ==
    /\ ChainStatus = "created" /\ m \notin Joined
    /\ chain' = Append(chain,
        <<Emit("MemberJoined", m, 0)>>
          \o (IF Joined \cup {m} = Member THEN <<Emit("KyeActivated", 0, 0)>> ELSE <<>>))
    /\ UNCHANGED <<rows, derived, savedLt, jobs, process, faults, lost, overlapped>>

(* Defaults are emitted in the order of the members, before anything else.  *)
Defaults(D, r) ==
    LET nth[k \in 1..Cardinality(D)] ==
            CHOOSE m \in D : Cardinality({d \in D : d <= m}) = k
    IN  [k \in 1..Cardinality(D) |-> Emit("DefaultDetected", nth[k], r)]

ExecuteRound(D) ==
    LET r == currentRound
        cancels == policyCancels /\ D # {}
        paysOut == <<Emit("PayoutSent", r, 0), Emit("RoundExecuted", r, r)>>
                    \o (IF r = memberCount THEN <<Emit("KyeCompleted", 0, 0)>> ELSE <<>>)
    IN  /\ ChainStatus = "active"
        /\ D # Member \/ policyCancels
        /\ chain' = Append(chain,
              Defaults(D, r) \o (IF cancels THEN <<Emit("KyeCancelled", 0, 0)>> ELSE paysOut))
        /\ UNCHANGED <<rows, derived, savedLt, jobs, process, faults, lost, overlapped>>

EmergencyCancel ==
    /\ ChainStatus \in {"created", "active"}
    /\ chain' = Append(chain, <<Emit("KyeCancelled", 0, 0)>>)
    /\ UNCHANGED <<rows, derived, savedLt, jobs, process, faults, lost, overlapped>>

Chain ==
    /\ Len(chain) < MaxTx
    /\ \/ \E m \in Member : JoinKye(m)
       \/ \E D \in Defaulters : ExecuteRound(D)
       \/ EmergencyCancel

-----------------------------------------------------------------------------
Init ==
    /\ chain = <<>>
    /\ rows = {}
    /\ kyeStatus = "created"            \* POST /kyes inserts the circle
    /\ memberStatus = [m \in Member |-> "none"]
    /\ rounds = {}
    /\ defaulted_members = [r \in Member |-> {}]
    /\ credited = [m \in Member |-> 0]
    /\ savedLt = 0
    /\ jobs = EmptyBag
    /\ stage = [x \in Indexer |-> "down"]
    /\ tracked = [x \in Indexer |-> FALSE]
    /\ lastProcessedLt = [x \in Indexer |-> 0]
    /\ at = [x \in Indexer |-> <<0, 0>>]
    /\ upto = [x \in Indexer |-> 0]
    /\ todo = [x \in Indexer |-> <<>>]
    /\ readValue = [x \in Indexer |-> <<>>]
    /\ faults = 0
    /\ lost = {}
    /\ overlapped = FALSE

Fault == faults < MaxFaults /\ faults' = faults + 1

(* start: the registry and the cursors are loaded; when the select of       *)
(* indexer_state fails, every cursor starts at zero.                        *)
Start(x) ==
    /\ stage[x] = "down"
    /\ stage' = [stage EXCEPT ![x] = "sleep"]
    /\ tracked' = [tracked EXCEPT ![x] = kyeStatus # "cancelled"]
    /\ \/ /\ lastProcessedLt' = [lastProcessedLt EXCEPT ![x] = savedLt]
          /\ UNCHANGED faults
       \/ /\ savedLt # 0 /\ Fault
          /\ lastProcessedLt' = [lastProcessedLt EXCEPT ![x] = 0]
    /\ overlapped' = (overlapped \/ \E y \in Indexer : stage[y] # "down")
    /\ UNCHANGED <<chain, rows, derived, savedLt, jobs, at, upto, todo,
                   readValue, lost>>

(* The process dies; what it kept in memory is gone.                        *)
Crash(x) ==
    /\ stage[x] # "down"
    /\ Fault
    /\ stage' = [stage EXCEPT ![x] = "down"]
    /\ tracked' = [tracked EXCEPT ![x] = FALSE]
    /\ lastProcessedLt' = [lastProcessedLt EXCEPT ![x] = 0]
    /\ at' = [at EXCEPT ![x] = <<0, 0>>]
    /\ upto' = [upto EXCEPT ![x] = 0]
    /\ todo' = [todo EXCEPT ![x] = <<>>]
    /\ readValue' = [readValue EXCEPT ![x] = <<>>]
    /\ UNCHANGED <<chain, rows, derived, savedLt, jobs, lost, overlapped>>

(* The faulty variants F... of a definition, each before the one it varies, *)
(* are what the properties below are tested against; nothing uses them.     *)
FFetchFrom(x) == Len(chain) - FETCH_LIMIT + 1            \* cursor not considered
(* The first transaction of the batch: newer than the cursor, and among the *)
(* FETCH_LIMIT latest ones.                                                 *)
FetchFrom(x) ==
    IF lastProcessedLt[x] + FETCH_LIMIT >= Len(chain) THEN lastProcessedLt[x] + 1
    ELSE Len(chain) - FETCH_LIMIT + 1

(* tick: the registry is refreshed from circles that are not cancelled (and *)
(* never forgets one); getTransactionsForAddress returns the batch, sorted  *)
(* by lt.  A fetch that throws changes nothing and is tried again.          *)
Fetch(x) ==
    /\ stage[x] = "sleep"
    /\ tracked[x] \/ kyeStatus # "cancelled"
    /\ FetchFrom(x) <= Len(chain)
    /\ tracked' = [tracked EXCEPT ![x] = TRUE]
    /\ stage' = [stage EXCEPT ![x] = "insert"]
    /\ at' = [at EXCEPT ![x] = <<FetchFrom(x), 1>>]
    /\ upto' = [upto EXCEPT ![x] = Len(chain)]
    /\ lost' = lost \cup
         {p \in UNION {Emitted(t) : t \in EventType} :
              p[1] \in (lastProcessedLt[x] + 1)..(FetchFrom(x) - 1)}
    /\ UNCHANGED <<chain, rows, derived, savedLt, jobs, lastProcessedLt, todo,
                   readValue, faults, overlapped>>

Current(x) == EventAt(at[x])

FAdvance(x) ==                                  \* the cursor jumps to the newest lt
    LET lt == at[x][1]
        n == at[x][2]
    IN  /\ lastProcessedLt' = [lastProcessedLt EXCEPT ![x] = Len(chain)]
        /\ IF n < Len(chain[lt])
           THEN /\ at' = [at EXCEPT ![x] = <<lt, n + 1>>]
                /\ stage' = [stage EXCEPT ![x] = "insert"]
                /\ UNCHANGED upto
           ELSE IF lt < upto[x]
           THEN /\ at' = [at EXCEPT ![x] = <<lt + 1, 1>>]
                /\ stage' = [stage EXCEPT ![x] = "insert"]
                /\ UNCHANGED upto
           ELSE /\ at' = [at EXCEPT ![x] = <<0, 0>>]
                /\ upto' = [upto EXCEPT ![x] = 0]
                /\ stage' = [stage EXCEPT ![x] = "save"]

(* The loop of tick: the cursor moves with every event, to its lt; the loop *)
(* goes on to the next event, or ends.                                      *)
Advance(x) ==
    LET lt == at[x][1]
        n == at[x][2]
    IN  /\ lastProcessedLt' = [lastProcessedLt EXCEPT ![x] = lt]
        /\ IF n < Len(chain[lt])
           THEN /\ at' = [at EXCEPT ![x] = <<lt, n + 1>>]
                /\ stage' = [stage EXCEPT ![x] = "insert"]
                /\ UNCHANGED upto
           ELSE IF lt < upto[x]
           THEN /\ at' = [at EXCEPT ![x] = <<lt + 1, 1>>]
                /\ stage' = [stage EXCEPT ![x] = "insert"]
                /\ UNCHANGED upto
           ELSE /\ at' = [at EXCEPT ![x] = <<0, 0>>]
                /\ upto' = [upto EXCEPT ![x] = 0]
                /\ stage' = [stage EXCEPT ![x] = "save"]

(* The columns of the unique constraint; tx_hash goes with lt.              *)
Key(p) == <<p[1], EventAt(p).type>>
Recorded(p) == \E q \in rows : Key(q) = Key(p)

(* The statements of applySideEffects, in their order.                      *)
SideEffects == [
    MemberJoined    |-> <<"insert_member">>,
    KyeActivated    |-> <<"update_status">>,
    RoundExecuted   |-> <<"upsert_round", "set_paid">>,
    PayoutSent      |-> <<"select_balance", "update_balance">>,
    DefaultDetected |-> <<"set_defaulted", "select_round", "update_round">>,
    KyeCompleted    |-> <<"update_status">>,
    KyeCancelled    |-> <<"update_status">>]

(* insertEvent: a row that is not there yet is inserted and returned.       *)
InsertEvent(x) ==
    /\ stage[x] = "insert"
    /\ ~Recorded(at[x])
    /\ rows' = rows \cup {at[x]}
    /\ stage' = [stage EXCEPT ![x] = "work"]
    /\ todo' = [todo EXCEPT ![x] = SideEffects[Current(x).type]]
    /\ UNCHANGED <<chain, derived, savedLt, jobs, tracked, lastProcessedLt, at,
                   upto, readValue, faults, lost, overlapped>>

FSkipDuplicate(x) ==                                \* the row is returned all the same
    /\ stage[x] = "insert"
    /\ Recorded(at[x])
    /\ stage' = [stage EXCEPT ![x] = "work"]
    /\ todo' = [todo EXCEPT ![x] = SideEffects[Current(x).type]]
    /\ UNCHANGED <<chain, rows, derived, savedLt, jobs, tracked, lastProcessedLt,
                   at, upto, readValue, faults, lost, overlapped>>

(* ignoreDuplicates: nothing is returned, the event is skipped.             *)
SkipDuplicate(x) ==
    /\ stage[x] = "insert"
    /\ Recorded(at[x])
    /\ Advance(x)
    /\ UNCHANGED <<chain, rows, derived, savedLt, jobs, tracked, todo, readValue,
                   faults, lost, overlapped>>

(* An insert that fails looks like a duplicate.                             *)
InsertFails(x) ==
    /\ stage[x] = "insert"
    /\ ~Recorded(at[x])
    /\ Fault
    /\ lost' = lost \cup {at[x]}
    /\ Advance(x)
    /\ UNCHANGED <<chain, rows, derived, savedLt, jobs, tracked, todo, readValue, overlapped>>

-----------------------------------------------------------------------------
(* applySideEffects, a statement at a time *)

StatusOf == [KyeActivated |-> "active", KyeCompleted |-> "completed",
             KyeCancelled |-> "cancelled"]

Statement(x, name) ==
    /\ stage[x] = "work" /\ todo[x] # <<>> /\ Head(todo[x]) = name
    /\ todo' = [todo EXCEPT ![x] = Tail(@)]
    /\ UNCHANGED <<chain, rows, savedLt, jobs, stage, tracked, lastProcessedLt,
                   at, upto, faults, lost, overlapped>>

InsertMember(x) ==
    /\ Statement(x, "insert_member")
    /\ memberStatus' = [memberStatus EXCEPT ![Current(x).member] =
                          IF @ = "none" THEN "active" ELSE @]
    /\ UNCHANGED <<kyeStatus, rounds, defaulted_members, credited, readValue>>

UpdateStatus(x) ==
    /\ Statement(x, "update_status")
    /\ kyeStatus' = StatusOf[Current(x).type]
    /\ UNCHANGED <<memberStatus, rounds, defaulted_members, credited, readValue>>

UpsertRound(x) ==
    /\ Statement(x, "upsert_round")
    /\ rounds' = rounds \cup {Current(x).round}
    /\ UNCHANGED <<kyeStatus, memberStatus, defaulted_members, credited, readValue>>

SetMember(x, name, status) ==
    /\ Statement(x, name)
    /\ memberStatus' = [memberStatus EXCEPT ![Current(x).member] =
                          IF @ = "none" THEN @ ELSE status]
    /\ UNCHANGED <<kyeStatus, rounds, defaulted_members, credited, readValue>>

SelectRound(x) ==
    /\ Statement(x, "select_round")
    /\ readValue' = [readValue EXCEPT ![x] =
            IF Current(x).round \in rounds
            THEN <<defaulted_members[Current(x).round]>> ELSE <<>>]
    /\ UNCHANGED derived

UpdateRound(x) ==
    /\ Statement(x, "update_round")
    /\ defaulted_members' =
            IF readValue[x] = <<>> THEN defaulted_members
            ELSE [defaulted_members EXCEPT ![Current(x).round] =
                    readValue[x][1] \cup {Current(x).member}]
    /\ readValue' = [readValue EXCEPT ![x] = <<>>]
    /\ UNCHANGED <<kyeStatus, memberStatus, rounds, credited>>

SelectBalance(x) ==
    /\ Statement(x, "select_balance")
    /\ readValue' = [readValue EXCEPT ![x] = <<credited[Current(x).member]>>]
    /\ UNCHANGED derived

UpdateBalance(x) ==
    /\ Statement(x, "update_balance")
    /\ credited' = [credited EXCEPT ![Current(x).member] = readValue[x][1] + 1]
    /\ readValue' = [readValue EXCEPT ![x] = <<>>]
    /\ UNCHANGED <<kyeStatus, memberStatus, rounds, defaulted_members>>

(* A write that fails is passed over; a lookup (of the circle, the user, or *)
(* what is to be updated) that fails or finds nothing ends the side effects.*)
StatementFails(x) ==
    /\ stage[x] = "work" /\ todo[x] # <<>>
    /\ Fault
    /\ \/ /\ Head(todo[x]) \notin {"select_balance", "select_round"}
          /\ todo' = [todo EXCEPT ![x] = Tail(@)]
       \/ todo' = [todo EXCEPT ![x] = <<>>]
    /\ readValue' = [readValue EXCEPT ![x] = <<>>]
    /\ UNCHANGED <<chain, rows, derived, savedLt, jobs, stage, tracked,
                   lastProcessedLt, at, upto, lost, overlapped>>

-----------------------------------------------------------------------------
(* enqueueNotifications: one job per entry of the matrix; an entry whose    *)
(* add fails is passed over.                                                *)
EnqueueNotifications(x) ==
    /\ stage[x] = "work" /\ todo[x] = <<>>
    /\ \E S \in SUBSET NOTIFICATION_MATRIX[Current(x).type] :
        /\ IF S = NOTIFICATION_MATRIX[Current(x).type] THEN UNCHANGED faults ELSE Fault
        /\ jobs' = IF x \in Notifier
                   THEN jobs (+) SetToBag({<<at[x], to>> : to \in S}) ELSE jobs
    /\ Advance(x)
    /\ UNCHANGED <<chain, rows, derived, savedLt, tracked, todo, readValue, lost, overlapped>>

(* saveCursor: a failing upsert is logged, the cursor in memory stands.     *)
SaveCursor(x) ==
    /\ stage[x] = "save"
    /\ stage' = [stage EXCEPT ![x] = "sleep"]
    /\ \/ savedLt' = lastProcessedLt[x] /\ UNCHANGED faults
       \/ savedLt' = savedLt /\ Fault
    /\ UNCHANGED <<chain, rows, derived, jobs, tracked, lastProcessedLt, at, upto,
                   todo, readValue, lost, overlapped>>

Work(x) ==
    \/ InsertEvent(x) \/ SkipDuplicate(x)
    \/ InsertMember(x) \/ UpdateStatus(x)
    \/ UpsertRound(x) \/ SetMember(x, "set_paid", "paid")
    \/ SetMember(x, "set_defaulted", "defaulted") \/ SelectRound(x) \/ UpdateRound(x)
    \/ SelectBalance(x) \/ UpdateBalance(x)
    \/ EnqueueNotifications(x)

Next ==
    \/ Chain
    \/ \E x \in Indexer :
        \/ Start(x) \/ Crash(x) \/ Fetch(x) \/ Work(x) \/ SaveCursor(x)
        \/ InsertFails(x) \/ StatementFails(x)

Spec == Init /\ [][Next]_vars

(* scheduleNext runs the next tick whether the last one succeeded or threw, *)
(* an await returns, and a process that died is started again.              *)
FairSpec ==
    /\ Spec
    /\ \A x \in Indexer :
         WF_vars(Start(x) \/ Fetch(x) \/ Work(x) \/ SaveCursor(x))

-----------------------------------------------------------------------------
(* Properties *)

Positions == UNION {{<<n, j>> : j \in DOMAIN chain[n]} : n \in DOMAIN chain}
Place == {<<0, 0>>} \cup Positions
StatementName == UNION {{SideEffects[t][k] : k \in DOMAIN SideEffects[t]} : t \in EventType}
JobTo == UNION {NOTIFICATION_MATRIX[t] : t \in EventType}

(* Every variable keeps to its range; cursors and batches lie within the    *)
(* chain.                                                                   *)
TypeOK ==
    /\ \A p \in Positions : EventAt(p) \in Event
    /\ rows \subseteq Positions /\ lost \subseteq Positions
    /\ kyeStatus \in {"created", "active", "completed", "cancelled"}
    /\ memberStatus \in [Member -> {"none", "active", "paid", "defaulted"}]
    /\ rounds \subseteq Member
    /\ defaulted_members \in [Member -> SUBSET Member]
    /\ credited \in [Member -> Nat]
    /\ savedLt \in 0..Len(chain)
    /\ DOMAIN jobs \subseteq Positions \X JobTo
    /\ \A j \in DOMAIN jobs : jobs[j] \in Nat \ {0}
    /\ stage \in [Indexer -> {"down", "sleep", "insert", "work", "save"}]
    /\ tracked \in [Indexer -> BOOLEAN]
    /\ lastProcessedLt \in [Indexer -> 0..Len(chain)]
    /\ at \in [Indexer -> Place]
    /\ \A x \in Indexer : at[x] # <<0, 0>> <=> stage[x] \in {"insert", "work"}
    /\ upto \in [Indexer -> 0..Len(chain)]
    /\ \A x \in Indexer : \A k \in DOMAIN todo[x] : todo[x][k] \in StatementName
    /\ faults \in 0..MaxFaults
    /\ overlapped \in BOOLEAN

(* SECURITY_CHECKLIST.md:59: a duplicate poll never sends a notification    *)
(* twice, whichever processes poll, crash and start over from an old cursor.*)
NotifiedOnce == \A j \in DOMAIN jobs : jobs[j] = 1

(* SECURITY_CHECKLIST.md:59: nor does it credit a payout twice.             *)
CreditedOnce ==
    \A m \in Member :
        credited[m] <= Cardinality({p \in rows : EventAt(p).type = "PayoutSent"
                                                   /\ EventAt(p).member = m})

(* The last lt that the cursor in memory claims to be done with: within a   *)
(* batch it stands on the lt of an event, whose transaction may have more.  *)
Passed(x) ==
    IF stage[x] \in {"insert", "work"} THEN lastProcessedLt[x] - 1 ELSE lastProcessedLt[x]

(* A saved cursor never covers, and one in memory never passes, an event    *)
(* that is not in the events table, but for those whose insert failed or    *)
(* that a page left out: a crash between any two steps loses no event,      *)
(* though the cursor in memory moves event by event and a transaction has   *)
(* several, and neither do two processes that save their cursors in turn.   *)
CursorCovers ==
    \A p \in Positions :
        (p[1] <= savedLt \/ \E x \in Indexer : p[1] <= Passed(x))
            => Recorded(p) \/ p \in lost

Rank == [created |-> 0, active |-> 1, completed |-> 2, cancelled |-> 2]

(* kyes.status goes through the circle's states in their order and stays at *)
(* its end, as long as processes do not overlap and no insert failed: a     *)
(* process that starts over after a crash, at an old cursor, does not set   *)
(* it back.  (An event whose insert failed and that such a process inserts  *)
(* after all is applied late.)                                              *)
StatusFollowsChain ==
    [][ (~overlapped' /\ lost' = {} /\ kyeStatus' # kyeStatus) => Rank[kyeStatus'] > Rank[kyeStatus] ]_vars

CaughtUp(x) == stage[x] = "sleep" /\ lastProcessedLt[x] = Len(chain)
Undisturbed == faults = 0 /\ ~overlapped /\ lost = {}

(* A process that caught up, with nothing going wrong on the way, left the  *)
(* derived tables as the circle is: its status, its members, its executed   *)
(* rounds, each winner credited, everything announced that was recorded.    *)
CaughtUpMatchesChain ==
    \A x \in Indexer :
        (CaughtUp(x) /\ Undisturbed) =>
            /\ kyeStatus = ChainStatus
            /\ {m \in Member : memberStatus[m] # "none"} = Joined
            /\ rounds = {EventAt(p).round : p \in Emitted("RoundExecuted")}
            /\ \A m \in Member : credited[m] = IF m \in rounds THEN 1 ELSE 0
            /\ x \in Notifier =>
                 DOMAIN jobs = UNION {{p} \X NOTIFICATION_MATRIX[EventAt(p).type] : p \in rows}

(* The indexer catches up: once the circle has ended (or sits still) every  *)
(* event it emitted is recorded or was given up, however processes crash    *)
(* and statements fail, within the bound.                                   *)
EventuallyRecorded ==
    <>[](\A p \in Positions : Recorded(p) \/ p \in lost)

(* GSD-FULL.md:309, USER_GUIDE_ORGANIZER.md:78: the defaulter gets a direct *)
(* message for its DefaultDetected event.  Two members who default in one   *)
(* round do so in one transaction, whose events share tx_hash, type and lt. *)
DefaultersNotified ==
    \A x \in Notifier :
        (CaughtUp(x) /\ Undisturbed) =>
            \A p \in Emitted("DefaultDetected") : <<p, <<"defaulter", "dm">>>> \in DOMAIN jobs

(* GSD-FULL.md:308: the winner gets a direct message for its payout.  The   *)
(* process that records the event enqueues it; the API server's has no      *)
(* queue to enqueue it to.                                                  *)
WinnersNotified ==
    (faults = 0 /\ lost = {} /\ \A x \in Indexer : CaughtUp(x)) =>
        \A p \in Emitted("PayoutSent") : <<p, <<"winner", "dm">>>> \in DOMAIN jobs
=============================================================================
