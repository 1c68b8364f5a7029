------------------------- MODULE EventIndexerProofs -------------------------
(***************************************************************************)
(* For any number of indexer processes, however they overlap, crash and    *)
(* fail, no notification is enqueued twice, no cursor passes an event that *)
(* is not recorded, and no payout is credited twice.  The argument for the *)
(* first and the last: a process works on an event only after its own      *)
(* insert made the row, so that a row has at most one worker ever; jobs    *)
(* exist, and a payout is settled, only when its worker is done with it.   *)
(* Then what holds when processes do not overlap: events are recorded in   *)
(* the order of the chain, so that the status of the circle only goes on,  *)
(* and, without failures, the derived tables are what the chain says.      *)
(***************************************************************************)
EXTENDS EventIndexer, FiniteSetTheorems, TLAPS

Working(x) == stage[x] = "work"

(* What the argument needs to know about the shapes of the variables.       *)
ShapeInv ==
    /\ stage \in [Indexer -> {"down", "sleep", "insert", "work", "save"}]
    /\ at = [x \in Indexer |-> at[x]]

(* A row under work has been inserted, is under work once, and has no jobs  *)
(* yet; jobs belong to rows.                                                *)
OneWorker ==
    /\ \A x \in Indexer : Working(x) =>
         at[x] \in rows /\ \A to : <<at[x], to>> \notin DOMAIN jobs
    /\ \A x, y \in Indexer : Working(x) /\ Working(y) /\ at[x] = at[y] => x = y
    /\ \A p, to : <<p, to>> \in DOMAIN jobs => p \in rows

IInv == ShapeInv /\ OneWorker /\ NotifiedOnce

(* Adding a set of jobs that were not there keeps every count at one.       *)
LEMMA AddFresh ==
    ASSUME NEW J, NEW S, \A j \in DOMAIN J : J[j] = 1,
           \A j \in S : j \notin DOMAIN J
    PROVE  /\ DOMAIN (J (+) SetToBag(S)) = DOMAIN J \cup S
           /\ \A j \in DOMAIN J \cup S : (J (+) SetToBag(S))[j] = 1
<1> DEFINE new == SetToBag(S)
<1>1. DOMAIN new = S /\ \A j \in S : new[j] = 1
  BY DEF SetToBag
<1> HIDE DEF new
<1>2. J (+) new = [j \in DOMAIN J \cup S |->
                     (IF j \in DOMAIN J THEN J[j] ELSE 0) + (IF j \in S THEN new[j] ELSE 0)]
  BY <1>1 DEF (+)
<1>3. QED
  BY <1>1, <1>2 DEF new

(* The loop of tick: the process leaves its event, the others stay.         *)
LEMMA AdvanceMoves ==
    ASSUME ShapeInv, NEW x \in Indexer, Advance(x)
    PROVE  /\ ShapeInv'
           /\ ~Working(x)'
           /\ \A y \in Indexer \ {x} : stage'[y] = stage[y] /\ at'[y] = at[y]
<1>1. /\ \E p : at' = [at EXCEPT ![x] = p]
      /\ \E s \in {"insert", "save"} : stage' = [stage EXCEPT ![x] = s]
  BY DEF Advance
<1>2. PICK p : at' = [at EXCEPT ![x] = p]
  BY <1>1
<1>3. PICK s \in {"insert", "save"} : stage' = [stage EXCEPT ![x] = s]
  BY <1>1
<1>4. QED
  BY <1>2, <1>3 DEF ShapeInv, Working

(* A step that neither enqueues nor inserts, and after which a process      *)
(* works only on what it worked on before, keeps the invariant.             *)
LEMMA QuietStep ==
    ASSUME IInv, ShapeInv', rows' = rows, jobs' = jobs,
           \A y \in Indexer : Working(y)' => Working(y) /\ at'[y] = at[y]
    PROVE  IInv'
BY DEF IInv, OneWorker, NotifiedOnce, Working

LEMMA InitStep == Init => IInv
BY DEF Init, IInv, ShapeInv, OneWorker, NotifiedOnce, Working, EmptyBag, SetToBag

LEMMA InsertStep ==
    ASSUME IInv, NEW x \in Indexer, InsertEvent(x)
    PROVE  IInv'
<1>1. /\ rows' = rows \cup {at[x]} /\ at[x] \notin rows
      /\ jobs' = jobs /\ at' = at
      /\ stage' = [stage EXCEPT ![x] = "work"]
  BY DEF InsertEvent, Recorded
<1>2. ShapeInv'
  BY <1>1 DEF IInv, ShapeInv
<1>3. \A y \in Indexer : Working(y)' => y = x \/ Working(y)
  BY <1>1 DEF IInv, ShapeInv, Working
<1>4. \A y \in Indexer : Working(y) => at[y] # at[x]
  BY <1>1 DEF IInv, OneWorker
<1>5. \A to : <<at[x], to>> \notin DOMAIN jobs
  BY <1>1 DEF IInv, OneWorker
<1>6. OneWorker'
  BY <1>1, <1>3, <1>4, <1>5 DEF IInv, OneWorker, Working
<1>7. QED
  BY <1>1, <1>2, <1>6 DEF IInv, NotifiedOnce

LEMMA EnqueueStep ==
    ASSUME IInv, NEW x \in Indexer, EnqueueNotifications(x)
    PROVE  IInv'
<1>1. /\ Working(x) /\ Advance(x) /\ rows' = rows
      /\ \E S : jobs' = IF x \in Notifier
                        THEN jobs (+) SetToBag({<<at[x], to>> : to \in S}) ELSE jobs
  BY DEF EnqueueNotifications, Working
<1>2. /\ ShapeInv' /\ ~Working(x)'
      /\ \A y \in Indexer \ {x} : stage'[y] = stage[y] /\ at'[y] = at[y]
  BY <1>1, AdvanceMoves DEF IInv
<1>3. \A y \in Indexer : Working(y)' => y # x /\ Working(y) /\ at'[y] = at[y]
  BY <1>2 DEF Working
<1>4. CASE jobs' = jobs
  BY <1>1, <1>2, <1>3, <1>4, QuietStep
<1>5. CASE x \in Notifier
  <2>1. PICK S : jobs' = jobs (+) SetToBag({<<at[x], to>> : to \in S})
    BY <1>1, <1>5
  <2> DEFINE Added == {<<at[x], to>> : to \in S}
  <2>2. \A j \in Added : j \notin DOMAIN jobs
    BY <1>1 DEF IInv, OneWorker
  <2>3. \A j \in DOMAIN jobs : jobs[j] = 1
    BY DEF IInv, NotifiedOnce
  <2>4. DOMAIN jobs' = DOMAIN jobs \cup Added /\ \A j \in DOMAIN jobs' : jobs'[j] = 1
    <3> HIDE DEF Added
    <3>1. jobs' = jobs (+) SetToBag(Added)
      BY <2>1 DEF Added
    <3> QED
      BY <2>2, <2>3, <3>1, AddFresh
  <2>5. \A p, to : <<p, to>> \in DOMAIN jobs' => <<p, to>> \in DOMAIN jobs \/ p = at[x]
    BY <2>4
  <2>6. \A y \in Indexer : Working(y) /\ y # x => at[y] # at[x]
    BY <1>1 DEF IInv, OneWorker
  <2>7. at[x] \in rows
    BY <1>1 DEF IInv, OneWorker
  <2>8. OneWorker'
    BY <1>1, <1>3, <2>5, <2>6, <2>7 DEF IInv, OneWorker
  <2> QED
    BY <1>2, <2>4, <2>8 DEF IInv, NotifiedOnce
<1>6. QED
  BY <1>1, <1>4, <1>5

LEMMA InvariantStep == IInv /\ [Next]_vars => IInv'
<1> SUFFICES ASSUME IInv, [Next]_vars
             PROVE  IInv'
  OBVIOUS
<1>1. CASE Chain
  <2>1. UNCHANGED <<rows, jobs, stage, at>>
    BY <1>1 DEF Chain, JoinKye, ExecuteRound, EmergencyCancel, process
  <2> QED
    BY <2>1 DEF IInv, ShapeInv, OneWorker, NotifiedOnce, Working
<1>2. ASSUME NEW x \in Indexer, Start(x)
      PROVE  IInv'
  <2>1. /\ rows' = rows /\ jobs' = jobs /\ at' = at
        /\ stage' = [stage EXCEPT ![x] = "sleep"]
    BY <1>2 DEF Start
  <2> QED
    BY <2>1, QuietStep DEF IInv, ShapeInv, Working
<1>3. ASSUME NEW x \in Indexer, Crash(x)
      PROVE  IInv'
  <2>1. /\ rows' = rows /\ jobs' = jobs /\ at' = [at EXCEPT ![x] = <<0, 0>>]
        /\ stage' = [stage EXCEPT ![x] = "down"]
    BY <1>3 DEF Crash
  <2> QED
    BY <2>1, QuietStep DEF IInv, ShapeInv, Working
<1>4. ASSUME NEW x \in Indexer, Fetch(x)
      PROVE  IInv'
  <2>1. /\ rows' = rows /\ jobs' = jobs
        /\ at' = [at EXCEPT ![x] = <<FetchFrom(x), 1>>]
        /\ stage' = [stage EXCEPT ![x] = "insert"]
    BY <1>4 DEF Fetch
  <2> QED
    BY <2>1, QuietStep DEF IInv, ShapeInv, Working
<1>5. ASSUME NEW x \in Indexer, Work(x)
      PROVE  IInv'
  <2>1. CASE InsertEvent(x)
    BY <2>1, InsertStep
  <2>2. CASE EnqueueNotifications(x)
    BY <2>2, EnqueueStep
  <2>3. CASE SkipDuplicate(x)
    <3>1. rows' = rows /\ jobs' = jobs /\ Advance(x)
      BY <2>3 DEF SkipDuplicate
    <3>2. /\ ShapeInv' /\ ~Working(x)'
          /\ \A y \in Indexer \ {x} : stage'[y] = stage[y] /\ at'[y] = at[y]
      BY <3>1, AdvanceMoves DEF IInv
    <3> QED
      BY <3>1, <3>2, QuietStep DEF Working
  <2>4. CASE \E name : Statement(x, name)
    <3>1. UNCHANGED <<rows, jobs, stage, at>>
      BY <2>4 DEF Statement
    <3> QED
      BY <3>1 DEF IInv, ShapeInv, OneWorker, NotifiedOnce, Working
  <2> QED
    BY <1>5, <2>1, <2>2, <2>3, <2>4 DEF Work, InsertMember, UpdateStatus, UpsertRound,
       SetMember, SelectRound, UpdateRound, SelectBalance, UpdateBalance
<1>6. ASSUME NEW x \in Indexer, SaveCursor(x)
      PROVE  IInv'
  <2>1. /\ rows' = rows /\ jobs' = jobs /\ at' = at
        /\ stage' = [stage EXCEPT ![x] = "sleep"]
    BY <1>6 DEF SaveCursor
  <2> QED
    BY <2>1, QuietStep DEF IInv, ShapeInv, Working
<1>7. ASSUME NEW x \in Indexer, InsertFails(x)
      PROVE  IInv'
  <2>1. rows' = rows /\ jobs' = jobs /\ Advance(x)
    BY <1>7 DEF InsertFails
  <2>2. /\ ShapeInv' /\ ~Working(x)'
        /\ \A y \in Indexer \ {x} : stage'[y] = stage[y] /\ at'[y] = at[y]
    BY <2>1, AdvanceMoves DEF IInv
  <2> QED
    BY <2>1, <2>2, QuietStep DEF Working
<1>8. ASSUME NEW x \in Indexer, StatementFails(x)
      PROVE  IInv'
  <2>1. UNCHANGED <<rows, jobs, stage, at>>
    BY <1>8 DEF StatementFails
  <2> QED
    BY <2>1 DEF IInv, ShapeInv, OneWorker, NotifiedOnce, Working
<1>9. CASE UNCHANGED vars
  BY <1>9 DEF vars, process, IInv, ShapeInv, OneWorker, NotifiedOnce, Working
<1>10. QED
  BY <1>1, <1>2, <1>3, <1>4, <1>5, <1>6, <1>7, <1>8, <1>9 DEF Next

(* SECURITY_CHECKLIST.md:59, for any number of processes: no event is ever  *)
(* announced twice to one audience on one channel.                          *)
THEOREM NotifiedOnceTheorem == Spec => []NotifiedOnce
<1>1. IInv => NotifiedOnce
  BY DEF IInv
<1> QED
  BY InitStep, InvariantStep, <1>1, PTL DEF Spec

-----------------------------------------------------------------------------
(* Cursors.  A process has handled every event before the one it is at; a   *)
(* cursor stands at the end of what its process has handled.                *)

Done(p) == Recorded(p) \/ p \in lost
Before(p, q) == p[1] < q[1] \/ (p[1] = q[1] /\ p[2] < q[2])
InBatch(x) == stage[x] \in {"insert", "work"}

(* A transaction emits at least one event, each of a known type.            *)
TxOK(t) ==
    /\ Len(t) \in Nat \ {0} /\ DOMAIN t = 1..Len(t)
    /\ \A j \in DOMAIN t : t[j].type \in EventType

ChainInv ==
    /\ chain \in Seq({chain[n] : n \in DOMAIN chain})
    /\ \A n \in DOMAIN chain : TxOK(chain[n])

(* Cursors and batches lie within the chain.                                *)
BoundInv ==
    /\ savedLt \in 0..Len(chain)
    /\ lastProcessedLt \in [Indexer -> 0..Len(chain)]
    /\ upto \in [Indexer -> 0..Len(chain)]
    /\ \A x \in Indexer : InBatch(x) => at[x] \in Positions /\ at[x][1] <= upto[x]
    /\ rows \subseteq Positions

ProgressInv ==
    \A x \in Indexer :
        /\ InBatch(x) => \A p \in Positions : Before(p, at[x]) => Done(p)
        /\ Working(x) => at[x] \in rows

CInv == ShapeInv /\ ChainInv /\ BoundInv /\ ProgressInv /\ CursorCovers

LEMMA ChainLength ==
    ASSUME ChainInv
    PROVE  /\ Len(chain) \in Nat /\ DOMAIN chain = 1..Len(chain)
           /\ \A n \in 1..Len(chain) : TxOK(chain[n])
BY DEF ChainInv

LEMMA PositionFacts ==
    ASSUME ChainInv
    PROVE  /\ \A p \in Positions :
                /\ p = <<p[1], p[2]>> /\ p[1] \in 1..Len(chain)
                /\ p[2] \in 1..Len(chain[p[1]])
           /\ \A n \in 1..Len(chain) : \A j \in 1..Len(chain[n]) : <<n, j>> \in Positions
BY ChainLength DEF Positions, TxOK

LEMMA InitCursors == Init => CInv
<1> SUFFICES ASSUME Init
             PROVE  CInv
  OBVIOUS
<1>1. chain = <<>> /\ rows = {}
  BY DEF Init
<1>2. ChainInv
  BY <1>1 DEF ChainInv
<1>3. Positions = {}
  BY <1>1 DEF Positions
<1>4. ShapeInv /\ ProgressInv /\ CursorCovers
  BY <1>3 DEF Init, ShapeInv, ProgressInv, CursorCovers, InBatch, Working
<1>5. BoundInv
  BY <1>1 DEF Init, BoundInv, InBatch
<1> QED
  BY <1>2, <1>4, <1>5 DEF CInv

(* The chain only grows, by a transaction that emits something.             *)
LEMMA AppendTx ==
    ASSUME ChainInv, NEW t, TxOK(t), chain' = Append(chain, t)
    PROVE  /\ ChainInv'
           /\ Len(chain') = Len(chain) + 1
           /\ \A n \in 1..Len(chain) : chain'[n] = chain[n]
<1> DEFINE X == {chain[n] : n \in DOMAIN chain} \cup {t}
<1>1. chain \in Seq(X)
  BY DEF ChainInv
<1>2. /\ chain' \in Seq(X) /\ Len(chain') = Len(chain) + 1
      /\ \A n \in 1..Len(chain) : chain'[n] = chain[n]
      /\ chain'[Len(chain) + 1] = t
  <2> HIDE DEF X
  <2>1. t \in X
    BY DEF X
  <2> QED
    BY <1>1, <2>1
<1>3. DOMAIN chain' = 1..(Len(chain) + 1) /\ Len(chain) \in Nat
  <2> HIDE DEF X
  <2> QED
    BY <1>1, <1>2
<1>4. chain' \in Seq({chain'[n] : n \in DOMAIN chain'})
  BY <1>2, <1>3
<1>5. \A n \in DOMAIN chain' : TxOK(chain'[n])
  BY <1>2, <1>3, ChainLength
<1> QED
  BY <1>2, <1>4, <1>5 DEF ChainInv

LEMMA TxSequence ==
    ASSUME NEW S, NEW t \in Seq(S), t # <<>>, \A e \in S : e.type \in EventType
    PROVE  TxOK(t)
BY DEF TxOK

LEMMA ChainStep ==
    ASSUME IndexerAssumption, ChainInv, Chain
    PROVE  \E t : TxOK(t) /\ chain' = Append(chain, t)
<1>1. ASSUME NEW m \in Member, JoinKye(m)
      PROVE  \E t : TxOK(t) /\ chain' = Append(chain, t)
  <2> DEFINE S == {Emit("MemberJoined", m, 0), Emit("KyeActivated", 0, 0)}
             t == <<Emit("MemberJoined", m, 0)>> \o
                    (IF Joined \cup {m} = Member THEN <<Emit("KyeActivated", 0, 0)>> ELSE <<>>)
  <2>1. \A e \in S : e.type \in EventType
    BY DEF Emit, EventType, NOTIFICATION_MATRIX
  <2>2. t \in Seq(S) /\ t # <<>>
    <3>1. <<Emit("MemberJoined", m, 0)>> \in Seq(S) /\ <<Emit("KyeActivated", 0, 0)>> \in Seq(S)
      OBVIOUS
    <3>2. Emit("MemberJoined", m, 0) \in S /\ Emit("KyeActivated", 0, 0) \in S
      OBVIOUS
    <3> HIDE DEF S
    <3>3. CASE Joined \cup {m} = Member
      BY <3>1, <3>2, <3>3
    <3>4. CASE Joined \cup {m} # Member
      BY <3>1, <3>4
    <3> QED
      BY <3>3, <3>4
  <2>3. TxOK(t)
    <3> HIDE DEF S, t
    <3> QED
      BY <2>1, <2>2, TxSequence
  <2>4. chain' = Append(chain, t)
    BY <1>1 DEF JoinKye
  <2> QED
    BY <2>3, <2>4
<1>2. ASSUME NEW D \in Defaulters, ExecuteRound(D)
      PROVE  \E t : TxOK(t) /\ chain' = Append(chain, t)
  <2> DEFINE r == currentRound
             Defaulted == {Defaults(D, r)[k] : k \in 1..Cardinality(D)}
             S == Defaulted \cup {Emit("PayoutSent", r, 0), Emit("RoundExecuted", r, r),
                     Emit("KyeCompleted", 0, 0), Emit("KyeCancelled", 0, 0)}
             paysOut == <<Emit("PayoutSent", r, 0), Emit("RoundExecuted", r, r)>>
                    \o (IF r = memberCount THEN <<Emit("KyeCompleted", 0, 0)>> ELSE <<>>)
             ends == IF policyCancels /\ D # {} THEN <<Emit("KyeCancelled", 0, 0)>> ELSE paysOut
             t == Defaults(D, r) \o ends
  <2>1. Cardinality(D) \in Nat
    <3>1. IsFiniteSet(Member)
      BY FS_Interval DEF IndexerAssumption, Member
    <3>2. IsFiniteSet(D)
      BY <3>1, FS_Subset DEF IndexerAssumption
    <3> QED
      BY <3>2, FS_CardinalityType
  <2>2. /\ Defaults(D, r) \in Seq(Defaulted)
        /\ \A e \in Defaulted : e.type = "DefaultDetected"
    <3> DEFINE f == [k \in 1..Cardinality(D) |->
                       CHOOSE m \in D : Cardinality({d \in D : d <= m}) = k]
    <3>2. Defaults(D, r)
            = [k \in 1..Cardinality(D) |-> Emit("DefaultDetected", f[k], r)]
      BY DEF Defaults
    <3> HIDE DEF f
    <3>3. \A k \in 1..Cardinality(D) : Defaults(D, r)[k].type = "DefaultDetected"
      BY <3>2 DEF Emit
    <3>4. Defaults(D, r) \in [1..Cardinality(D) -> Defaulted]
      BY <3>2
    <3>5. Defaults(D, r) \in Seq(Defaulted)
      <4> HIDE DEF Defaulted
      <4> QED
        BY <2>1, <3>4
    <3> QED
      BY <3>3, <3>5
  <2>3. \A e \in S : e.type \in EventType
    <3> HIDE DEF Defaulted
    <3> QED
      BY <2>2 DEF Emit, EventType, NOTIFICATION_MATRIX
  <2>4. ends \in Seq(S) /\ ends # <<>>
    <3>1. /\ <<Emit("PayoutSent", r, 0), Emit("RoundExecuted", r, r)>> \in Seq(S)
          /\ <<Emit("KyeCompleted", 0, 0)>> \in Seq(S)
          /\ <<Emit("KyeCancelled", 0, 0)>> \in Seq(S)
      <4> HIDE DEF Defaulted
      <4> QED
        OBVIOUS
    <3> HIDE DEF S
    <3>2. /\ Emit("PayoutSent", r, 0) \in S /\ Emit("RoundExecuted", r, r) \in S
          /\ Emit("KyeCompleted", 0, 0) \in S
      BY DEF S
    <3>3. paysOut \in Seq(S) /\ paysOut # <<>>
      <4>1. CASE r = memberCount
        BY <3>1, <3>2, <4>1
      <4>2. CASE r # memberCount
        BY <3>1, <4>2
      <4> QED
        BY <4>1, <4>2
    <3> HIDE DEF paysOut
    <3> QED
      BY <3>1, <3>3
  <2>5. Defaults(D, r) \in Seq(S)
    <3> HIDE DEF Defaulted
    <3>1. Seq(Defaulted) \subseteq Seq(S)
      OBVIOUS
    <3> QED
      BY <2>2, <3>1
  <2>6. t \in Seq(S) /\ t # <<>>
    <3> HIDE DEF S, ends
    <3> QED
      BY <2>4, <2>5
  <2>7. TxOK(t)
    <3> HIDE DEF S, t
    <3> QED
      BY <2>3, <2>6, TxSequence
  <2>8. chain' = Append(chain, t)
    BY <1>2 DEF ExecuteRound
  <2> QED
    BY <2>7, <2>8
<1>3. ASSUME EmergencyCancel
      PROVE  \E t : TxOK(t) /\ chain' = Append(chain, t)
  <2> DEFINE S == {Emit("KyeCancelled", 0, 0)}
             t == <<Emit("KyeCancelled", 0, 0)>>
  <2>1. TxOK(t)
    <3>1. \A e \in S : e.type \in EventType
      BY DEF Emit, EventType, NOTIFICATION_MATRIX
    <3>2. t \in Seq(S) /\ t # <<>>
      OBVIOUS
    <3> HIDE DEF S, t
    <3> QED
      BY <3>1, <3>2, TxSequence
  <2> QED
    BY <1>3, <2>1 DEF EmergencyCancel
<1> QED
  BY <1>1, <1>2, <1>3 DEF Chain

(* What a step that leaves the chain alone has to keep: nothing recorded    *)
(* or given up comes back, new rows lie in the chain, and every cursor and  *)
(* every place in a batch has nothing undone before it.                     *)
LEMMA SameChainStep ==
    ASSUME CInv, ShapeInv', chain' = chain, rows \subseteq rows', lost \subseteq lost',
           BoundInv', ProgressInv',
           \A p \in Positions :
              (p[1] <= savedLt' \/ \E x \in Indexer : p[1] <= Passed(x)')
                 => Done(p)'
    PROVE  CInv'
BY DEF CInv, ChainInv, TxOK, CursorCovers, Done, Positions

LEMMA DoneStays ==
    ASSUME chain' = chain, rows \subseteq rows', lost \subseteq lost', NEW p, Done(p)
    PROVE  Done(p)'
BY DEF Done, Recorded, Key, EventAt

(* The cases of Advance.                                                    *)
LEMMA AdvanceCursor ==
    ASSUME CInv, NEW x \in Indexer, InBatch(x), Advance(x), chain' = chain,
           rows' = rows, lost \subseteq lost', savedLt' = savedLt,
           NEW here, here = at[x], Done(here)'
    PROVE  CInv'
<1> USE DEF InBatch
<1> DEFINE lt == at[x][1]
           n == at[x][2]
<1>1. /\ ShapeInv' /\ ~Working(x)'
      /\ \A y \in Indexer \ {x} : stage'[y] = stage[y] /\ at'[y] = at[y]
  BY AdvanceMoves DEF CInv
<1>2. /\ at[x] = <<lt, n>> /\ at[x] \in Positions
      /\ lt \in 1..Len(chain) /\ n \in 1..Len(chain[lt]) /\ lt <= upto[x]
      /\ upto[x] \in 0..Len(chain) /\ Len(chain) \in Nat /\ Len(chain[lt]) \in Nat \ {0}
  BY PositionFacts, ChainLength DEF CInv, BoundInv, TxOK
<1>3. Positions' = Positions
  BY DEF Positions
<1>4. \A p \in Positions : Before(p, at[x]) \/ p = at[x] => Done(p)'
  BY DoneStays DEF CInv, ProgressInv
<1>5. \A p \in Positions : Done(p) => Done(p)'
  BY DoneStays
<1>6. \A y \in Indexer \ {x} :
        /\ InBatch(y)' => at'[y] \in Positions /\ at'[y][1] <= upto[y]
        /\ InBatch(y)' => \A p \in Positions : Before(p, at'[y]) => Done(p)'
        /\ Working(y)' => at'[y] \in rows'
  BY <1>1, <1>5 DEF CInv, BoundInv, ProgressInv, Working
<1>7. rows' \subseteq Positions /\ savedLt' \in 0..Len(chain)
  BY DEF CInv, BoundInv
<1>8. \A p \in Positions :
        (p[1] <= savedLt' \/ \E y \in Indexer : p[1] <= Passed(y)) => Done(p)'
  BY <1>5 DEF CInv, CursorCovers, Done
<1>9. \A p \in Positions : p[1] = lt => p = <<lt, p[2]>> /\ p[2] \in 1..Len(chain[lt])
  BY PositionFacts DEF CInv
<1>10. \A p \in Positions : p[1] \in Int /\ p[2] \in Int
  BY PositionFacts, ChainLength DEF CInv, TxOK
<1>c. /\ lastProcessedLt' = [lastProcessedLt EXCEPT ![x] = lt]
      /\ lastProcessedLt' \in [Indexer -> 0..Len(chain)]
      /\ lastProcessedLt'[x] = lt
      /\ \A y \in Indexer \ {x} : Passed(y)' = Passed(y)
  <2>1. lastProcessedLt' = [lastProcessedLt EXCEPT ![x] = lt]
    BY DEF Advance
  <2> QED
    BY <1>1, <1>2, <2>1 DEF CInv, BoundInv, Passed
<1>11. ASSUME NEW q, at' = [at EXCEPT ![x] = q],
              stage' = [stage EXCEPT ![x] = "insert"], upto' = upto,
              q \in Positions, q[1] <= upto[x],
              \A p \in Positions : Before(p, q) => Before(p, at[x]) \/ p = at[x]
       PROVE  CInv'
  <2>1. at'[x] = q /\ stage'[x] = "insert"
    BY <1>11 DEF CInv, ShapeInv
  <2>2. BoundInv'
    BY <1>3, <1>6, <1>7, <1>c, <1>11, <2>1 DEF CInv, BoundInv
  <2>3. ProgressInv'
    BY <1>3, <1>4, <1>6, <1>11, <2>1 DEF ProgressInv, Working
  <2>4. \A p \in Positions : p[1] <= Passed(x)' => Done(p)'
    <3>1. Passed(x)' = lt - 1
      BY <1>c, <2>1 DEF Passed
    <3> QED
      BY <1>2, <1>4, <1>10, <3>1 DEF Before
  <2>5. \A p \in Positions :
          (p[1] <= savedLt' \/ \E y \in Indexer : p[1] <= Passed(y)') => Done(p)'
    BY <1>8, <1>c, <2>4
  <2> QED
    BY <1>1, <2>2, <2>3, <2>5, SameChainStep
<1>12. CASE n < Len(chain[lt])
  <2> DEFINE q == <<lt, n + 1>>
  <2>1. q \in Positions /\ q[1] <= upto[x]
    BY <1>2, <1>12, PositionFacts DEF CInv
  <2>2. \A p \in Positions : Before(p, q) => Before(p, at[x]) \/ p = at[x]
    BY <1>2, <1>9, <1>10 DEF Before
  <2> QED
    BY <1>11, <1>12, <2>1, <2>2 DEF Advance
<1>13. CASE ~(n < Len(chain[lt])) /\ lt < upto[x]
  <2> DEFINE q == <<lt + 1, 1>>
  <2>1. lt + 1 \in 1..Len(chain)
    BY <1>2, <1>13
  <2>2. q \in Positions /\ q[1] <= upto[x]
    BY <1>2, <1>13, <2>1, PositionFacts, ChainLength DEF CInv, TxOK
  <2>3. \A p \in Positions : p[2] >= 1
    BY PositionFacts, ChainLength DEF CInv, TxOK
  <2>4. \A p \in Positions : Before(p, q) => Before(p, at[x]) \/ p = at[x]
    BY <1>2, <1>9, <1>10, <1>13, <2>3 DEF Before
  <2> QED
    BY <1>11, <1>13, <2>2, <2>4 DEF Advance
<1>14. CASE ~(n < Len(chain[lt])) /\ ~(lt < upto[x])
  <2>1. /\ at' = [at EXCEPT ![x] = <<0, 0>>]
        /\ upto' = [upto EXCEPT ![x] = 0]
        /\ stage' = [stage EXCEPT ![x] = "save"]
    BY <1>14 DEF Advance
  <2>2. stage'[x] = "save" /\ Passed(x)' = lt
    BY <1>c, <2>1 DEF CInv, ShapeInv, Passed
  <2>3. \A p \in Positions : p[1] <= lt => Before(p, at[x]) \/ p = at[x]
    BY <1>2, <1>9, <1>10, <1>14 DEF Before
  <2>4. /\ upto' \in [Indexer -> 0..Len(chain)]
        /\ \A y \in Indexer \ {x} : upto'[y] = upto[y]
    BY <1>2, <2>1 DEF CInv, BoundInv
  <2>5. BoundInv'
    BY <1>3, <1>6, <1>7, <1>c, <2>2, <2>4 DEF BoundInv
  <2>6. ProgressInv'
    BY <1>1, <1>3, <1>6, <2>2 DEF ProgressInv, Working
  <2>7. \A p \in Positions :
          (p[1] <= savedLt' \/ \E y \in Indexer : p[1] <= Passed(y)') => Done(p)'
    BY <1>4, <1>8, <1>c, <2>2, <2>3
  <2> QED
    BY <1>1, <2>5, <2>6, <2>7, SameChainStep
<1> QED
  BY <1>12, <1>13, <1>14

(* A step that leaves the chain, the rows, what is lost, and every process  *)
(* that is in a batch where they are: cursors may only go back.             *)
LEMMA IdleStep ==
    ASSUME CInv, chain' = chain, rows' = rows, lost' = lost, ShapeInv',
           savedLt' \in 0..Len(chain),
           lastProcessedLt' \in [Indexer -> 0..Len(chain)],
           upto' \in [Indexer -> 0..Len(chain)],
           \A y \in Indexer : InBatch(y)' =>
              stage'[y] = stage[y] /\ at'[y] = at[y] /\ upto'[y] = upto[y],
           \A k \in 1..Len(chain) :
              (k <= savedLt' \/ \E y \in Indexer : k <= Passed(y)') =>
                 (k <= savedLt \/ \E y \in Indexer : k <= Passed(y))
    PROVE  CInv'
<1>1. Positions' = Positions
  BY DEF Positions
<1>2. \A p : Done(p) => Done(p)'
  BY DoneStays
<1>3. BoundInv'
  BY <1>1 DEF CInv, BoundInv, InBatch
<1>4. ProgressInv'
  BY <1>1, <1>2 DEF CInv, ProgressInv, InBatch, Working
<1>5. \A p \in Positions :
        (p[1] <= savedLt' \/ \E y \in Indexer : p[1] <= Passed(y)') => Done(p)'
  BY <1>2, PositionFacts DEF CInv, CursorCovers, Done
<1> QED
  BY <1>3, <1>4, <1>5, SameChainStep

LEMMA ChainCursors ==
    ASSUME IndexerAssumption, CInv, Chain
    PROVE  CInv'
<1>1. PICK t : TxOK(t) /\ chain' = Append(chain, t)
  BY ChainStep DEF CInv
<1>2. /\ rows' = rows /\ lost' = lost /\ savedLt' = savedLt /\ stage' = stage /\ at' = at
      /\ lastProcessedLt' = lastProcessedLt /\ upto' = upto
  BY DEF Chain, JoinKye, ExecuteRound, EmergencyCancel, process
<1>3. /\ ChainInv' /\ Len(chain') = Len(chain) + 1
      /\ \A k \in 1..Len(chain) : chain'[k] = chain[k]
  BY <1>1, AppendTx DEF CInv
<1>4. Len(chain) \in Nat
  BY ChainLength DEF CInv
<1>5. /\ \A p \in Positions' :
            /\ p = <<p[1], p[2]>> /\ p[1] \in 1..Len(chain')
            /\ p[2] \in 1..Len(chain'[p[1]])
      /\ \A k \in 1..Len(chain') : \A j \in 1..Len(chain'[k]) : <<k, j>> \in Positions'
  <2>1. Len(chain') \in Nat /\ DOMAIN chain' = 1..Len(chain')
    BY <1>3 DEF ChainInv
  <2>2. \A k \in 1..Len(chain') : DOMAIN chain'[k] = 1..Len(chain'[k])
    BY <1>3, <2>1 DEF ChainInv, TxOK
  <2> QED
    BY <2>1, <2>2 DEF Positions
<1>6. Positions \subseteq Positions'
  BY <1>3, <1>4, <1>5, PositionFacts DEF CInv
<1>7. \A p \in Positions' : p[1] <= Len(chain) => p \in Positions
  BY <1>3, <1>4, <1>5, PositionFacts DEF CInv
<1>8. \A p \in Positions : Key(p)' = Key(p)
  BY <1>3, PositionFacts DEF CInv, Key, EventAt
<1>9. \A p \in Positions : Done(p) => Done(p)'
  BY <1>2, <1>8 DEF Done, Recorded, CInv, BoundInv
<1>10. BoundInv'
  BY <1>2, <1>3, <1>4, <1>6 DEF CInv, BoundInv, InBatch
<1>11. \A x \in Indexer : InBatch(x) => at[x] \in Positions /\ at[x][1] \in 1..Len(chain)
  BY PositionFacts DEF CInv, BoundInv
<1>12. \A x \in Indexer : InBatch(x) => \A p \in Positions' : Before(p, at[x]) => p \in Positions
  BY <1>4, <1>5, <1>7, <1>11 DEF Before
<1>13. ProgressInv'
  BY <1>2, <1>9, <1>12 DEF CInv, ProgressInv, InBatch, Working
<1>c. \A x \in Indexer : Passed(x)' = Passed(x) /\ Passed(x) \in Int /\ Passed(x) <= Len(chain)
  BY <1>2, <1>4 DEF CInv, BoundInv, Passed
<1>14. \A p \in Positions' :
         (p[1] <= savedLt \/ \E x \in Indexer : p[1] <= Passed(x)) => p \in Positions
  <2>1. savedLt \in 0..Len(chain) /\ \A p \in Positions' : p[1] \in 1..(Len(chain) + 1)
    BY <1>3, <1>5 DEF CInv, BoundInv
  <2> QED
    BY <1>4, <1>7, <1>c, <2>1
<1>15. CursorCovers'
  <2>1. \A p \in Positions' :
          (p[1] <= savedLt' \/ \E x \in Indexer : p[1] <= Passed(x)') => Done(p)'
    BY <1>2, <1>9, <1>c, <1>14 DEF CInv, CursorCovers, Done
  <2> QED
    BY <2>1 DEF CursorCovers, Done
<1>16. ShapeInv'
  BY <1>2 DEF CInv, ShapeInv
<1> QED
  BY <1>3, <1>10, <1>13, <1>15, <1>16 DEF CInv

LEMMA FetchCursors ==
    ASSUME IndexerAssumption, CInv, NEW x \in Indexer, Fetch(x)
    PROVE  CInv'
<1> DEFINE from == FetchFrom(x)
<1>1. /\ chain' = chain /\ rows' = rows /\ savedLt' = savedLt
      /\ lastProcessedLt' = lastProcessedLt
      /\ from <= Len(chain)
      /\ stage' = [stage EXCEPT ![x] = "insert"]
      /\ at' = [at EXCEPT ![x] = <<from, 1>>]
      /\ upto' = [upto EXCEPT ![x] = Len(chain)]
      /\ lost' = lost \cup {p \in UNION {Emitted(t) : t \in EventType} :
                              p[1] \in (lastProcessedLt[x] + 1)..(from - 1)}
  BY DEF Fetch
<1>2. /\ Len(chain) \in Nat /\ lastProcessedLt[x] \in 0..Len(chain)
      /\ Passed(x) = lastProcessedLt[x]
  BY ChainLength DEF CInv, BoundInv, Fetch, Passed
<1>3. from \in 1..Len(chain)
  BY <1>1, <1>2 DEF FetchFrom, IndexerAssumption
<1>4. Positions' = Positions
  BY <1>1 DEF Positions
<1>5. \A p : Done(p) => Done(p)'
  BY <1>1, DoneStays
<1>6. \A p \in Positions : p \in UNION {Emitted(t) : t \in EventType}
  <2>1. \A p \in Positions : EventAt(p).type \in EventType
    BY PositionFacts, ChainLength DEF CInv, TxOK, EventAt
  <2>2. \A p \in Positions : p \in Emitted(EventAt(p).type)
    BY DEF Emitted, Positions, EventAt
  <2> QED
    BY <2>1, <2>2
<1>7. \A p \in Positions : p[1] < from => Done(p)'
  <2> SUFFICES ASSUME NEW p \in Positions, p[1] < from
               PROVE  Done(p)'
    OBVIOUS
  <2>1. p[1] \in 1..Len(chain)
    BY PositionFacts DEF CInv
  <2>2. CASE p[1] <= Passed(x)
    BY <1>5, <2>2 DEF CInv, CursorCovers, Done
  <2>3. CASE ~(p[1] <= Passed(x))
    <3>1. p[1] \in (lastProcessedLt[x] + 1)..(from - 1)
      BY <1>2, <1>3, <2>1, <2>3
    <3>2. p \in lost'
      BY <1>1, <1>6, <3>1
    <3> QED
      BY <3>2 DEF Done
  <2> QED
    BY <2>2, <2>3
<1>8. /\ stage'[x] = "insert" /\ at'[x] = <<from, 1>> /\ upto'[x] = Len(chain)
      /\ \A y \in Indexer \ {x} : stage'[y] = stage[y] /\ at'[y] = at[y] /\ upto'[y] = upto[y]
      /\ ShapeInv' /\ upto' \in [Indexer -> 0..Len(chain)]
  <2>1. upto \in [Indexer -> 0..Len(chain)] /\ Len(chain) \in 0..Len(chain) /\ ShapeInv
    BY <1>2 DEF CInv, BoundInv
  <2>2. /\ stage'[x] = "insert"
        /\ \A y \in Indexer \ {x} : stage'[y] = stage[y] /\ at'[y] = at[y]
        /\ at'[x] = <<from, 1>> /\ ShapeInv'
    <3> HIDE DEF from
    <3> QED
      BY <1>1, <2>1 DEF ShapeInv
  <2>3. /\ upto'[x] = Len(chain) /\ upto' \in [Indexer -> 0..Len(chain)]
        /\ \A y \in Indexer \ {x} : upto'[y] = upto[y]
    BY <1>1, <2>1
  <2> QED
    BY <2>2, <2>3
<1>9. <<from, 1>> \in Positions
  BY <1>3, PositionFacts, ChainLength DEF CInv, TxOK
<1>10. BoundInv'
  <2> HIDE DEF from
  <2>1. \A y \in Indexer : InBatch(y)' => at'[y] \in Positions /\ at'[y][1] <= upto'[y]
    <3>1. at'[x] \in Positions /\ at'[x][1] <= upto'[x]
      <4>1. at'[x] = <<from, 1>> /\ upto'[x] = Len(chain)
        BY <1>8
      <4>2. at'[x][1] = from
        BY <4>1
      <4> QED
        BY <1>2, <1>3, <1>9, <4>1, <4>2
    <3>2. ASSUME NEW y \in Indexer \ {x}, InBatch(y)'
          PROVE  at'[y] \in Positions /\ at'[y][1] <= upto'[y]
      BY <1>8, <3>2 DEF CInv, BoundInv, InBatch
    <3> QED
      BY <3>1, <3>2
  <2> QED
    BY <1>1, <1>4, <1>8, <2>1 DEF CInv, BoundInv
<1>11. \A p \in Positions : Before(p, <<from, 1>>) => p[1] < from
  BY PositionFacts, ChainLength DEF CInv, Before, TxOK
<1>12. ProgressInv'
  BY <1>1, <1>4, <1>5, <1>7, <1>8, <1>11 DEF CInv, ProgressInv, InBatch, Working
<1>c. \A y \in Indexer : Passed(y)' <= Passed(y) /\ Passed(y)' \in Int /\ Passed(y) \in Int
  <2> HIDE DEF from
  <2>1. lastProcessedLt \in [Indexer -> 0..Len(chain)]
    BY DEF CInv, BoundInv
  <2>2. /\ Passed(x)' <= Passed(x) /\ Passed(x)' \in Int /\ Passed(x) \in Int
    BY <1>1, <1>2, <1>8 DEF Passed
  <2>3. ASSUME NEW y \in Indexer \ {x}
        PROVE  Passed(y)' = Passed(y) /\ Passed(y) \in Int
    BY <1>1, <1>2, <1>8, <2>1 DEF Passed
  <2> QED
    BY <2>2, <2>3
<1>13. \A p \in Positions :
         (p[1] <= savedLt' \/ \E y \in Indexer : p[1] <= Passed(y)') => Done(p)'
  <2>1. \A p \in Positions : p[1] \in Int
    BY PositionFacts DEF CInv
  <2>2. \A p \in Positions : \A y \in Indexer : p[1] <= Passed(y)' => p[1] <= Passed(y)
    BY <1>c, <2>1
  <2> QED
    BY <1>1, <1>5, <2>2 DEF CInv, CursorCovers, Done
<1> QED
  BY <1>1, <1>8, <1>10, <1>12, <1>13, SameChainStep

LEMMA InsertCursors ==
    ASSUME CInv, NEW x \in Indexer, InsertEvent(x)
    PROVE  CInv'
<1>1. /\ chain' = chain /\ rows' = rows \cup {at[x]} /\ savedLt' = savedLt /\ lost' = lost
      /\ lastProcessedLt' = lastProcessedLt /\ upto' = upto /\ at' = at
      /\ InBatch(x) /\ stage' = [stage EXCEPT ![x] = "work"]
  BY DEF InsertEvent, InBatch
<1>2. ShapeInv' /\ stage'[x] = "work" /\ \A y \in Indexer \ {x} : stage'[y] = stage[y]
  BY <1>1 DEF CInv, ShapeInv
<1>3. Positions' = Positions
  BY <1>1 DEF Positions
<1>4. \A p : Done(p) => Done(p)'
  BY <1>1, DoneStays
<1>5. BoundInv'
  BY <1>1, <1>2, <1>3 DEF CInv, BoundInv, InBatch
<1>6. ProgressInv'
  BY <1>1, <1>2, <1>3, <1>4 DEF CInv, ProgressInv, InBatch, Working
<1>c. \A y \in Indexer : Passed(y)' = Passed(y)
  BY <1>1, <1>2 DEF InBatch, Passed
<1>7. \A p \in Positions :
        (p[1] <= savedLt' \/ \E y \in Indexer : p[1] <= Passed(y)') => Done(p)'
  BY <1>1, <1>4, <1>c DEF CInv, CursorCovers, Done
<1> QED
  BY <1>1, <1>2, <1>5, <1>6, <1>7, SameChainStep

LEMMA CursorStep == IndexerAssumption /\ CInv /\ [Next]_vars => CInv'
<1> SUFFICES ASSUME IndexerAssumption, CInv, [Next]_vars
             PROVE  CInv'
  OBVIOUS
<1>1. CASE Chain
  BY <1>1, ChainCursors
<1>b. /\ Len(chain) \in Nat /\ savedLt \in 0..Len(chain)
      /\ lastProcessedLt \in [Indexer -> 0..Len(chain)]
      /\ upto \in [Indexer -> 0..Len(chain)] /\ ShapeInv
  BY ChainLength DEF CInv, BoundInv
<1>2. ASSUME NEW x \in Indexer, Start(x)
      PROVE  CInv'
  <2>1. /\ chain' = chain /\ rows' = rows /\ lost' = lost /\ savedLt' = savedLt
        /\ upto' = upto /\ at' = at /\ stage' = [stage EXCEPT ![x] = "sleep"]
        /\ \E c \in {0, savedLt} : lastProcessedLt' = [lastProcessedLt EXCEPT ![x] = c]
    BY <1>2 DEF Start
  <2>2. PICK c \in {0, savedLt} : lastProcessedLt' = [lastProcessedLt EXCEPT ![x] = c]
    BY <2>1
  <2>3. /\ lastProcessedLt' \in [Indexer -> 0..Len(chain)]
        /\ \A y \in Indexer : lastProcessedLt'[y] \in {0, savedLt, lastProcessedLt[y]}
    BY <1>b, <2>2
  <2>4. ShapeInv' /\ \A y \in Indexer : InBatch(y)' => stage'[y] = stage[y]
    BY <1>b, <2>1 DEF ShapeInv, InBatch
  <2>5. \A k \in 1..Len(chain) :
          (k <= savedLt' \/ \E y \in Indexer : k <= Passed(y)') =>
             (k <= savedLt \/ \E y \in Indexer : k <= Passed(y))
    <3>1. stage'[x] = "sleep" /\ \A y \in Indexer \ {x} : stage'[y] = stage[y]
      BY <1>b, <2>1 DEF ShapeInv
    <3>2. Passed(x)' \in {0, savedLt}
      BY <1>b, <2>2, <3>1 DEF Passed
    <3>3. \A y \in Indexer \ {x} : Passed(y)' = Passed(y)
      BY <1>b, <2>2, <3>1 DEF Passed
    <3> QED
      BY <1>b, <2>1, <3>2, <3>3
  <2> QED
    BY <1>b, <2>1, <2>3, <2>4, <2>5, IdleStep
<1>3. ASSUME NEW x \in Indexer, Crash(x)
      PROVE  CInv'
  <2>1. /\ chain' = chain /\ rows' = rows /\ lost' = lost /\ savedLt' = savedLt
        /\ upto' = [upto EXCEPT ![x] = 0] /\ at' = [at EXCEPT ![x] = <<0, 0>>]
        /\ stage' = [stage EXCEPT ![x] = "down"]
        /\ lastProcessedLt' = [lastProcessedLt EXCEPT ![x] = 0]
    BY <1>3 DEF Crash
  <2>2. /\ lastProcessedLt' \in [Indexer -> 0..Len(chain)]
        /\ upto' \in [Indexer -> 0..Len(chain)]
        /\ \A y \in Indexer : lastProcessedLt'[y] \in {0, lastProcessedLt[y]}
    BY <1>b, <2>1
  <2>3. /\ ShapeInv'
        /\ \A y \in Indexer : InBatch(y)' =>
             stage'[y] = stage[y] /\ at'[y] = at[y] /\ upto'[y] = upto[y]
    BY <1>b, <2>1 DEF ShapeInv, InBatch
  <2>4. \A k \in 1..Len(chain) :
          (k <= savedLt' \/ \E y \in Indexer : k <= Passed(y)') =>
             (k <= savedLt \/ \E y \in Indexer : k <= Passed(y))
    <3>1. stage'[x] = "down" /\ \A y \in Indexer \ {x} : stage'[y] = stage[y]
      BY <1>b, <2>1 DEF ShapeInv
    <3>2. Passed(x)' = 0
      BY <1>b, <2>1, <3>1 DEF Passed
    <3>3. \A y \in Indexer \ {x} : Passed(y)' = Passed(y)
      BY <1>b, <2>1, <3>1 DEF Passed
    <3> QED
      BY <1>b, <2>1, <3>2, <3>3
  <2> QED
    BY <1>b, <2>1, <2>2, <2>3, <2>4, IdleStep
<1>4. ASSUME NEW x \in Indexer, Fetch(x)
      PROVE  CInv'
  BY <1>4, FetchCursors
<1>5. ASSUME NEW x \in Indexer, Work(x)
      PROVE  CInv'
  <2>1. CASE InsertEvent(x)
    BY <2>1, InsertCursors
  <2>2. CASE EnqueueNotifications(x)
    <3>1. /\ Working(x) /\ Advance(x) /\ chain' = chain /\ rows' = rows /\ lost' = lost
          /\ savedLt' = savedLt
      BY <2>2 DEF EnqueueNotifications, Working
    <3>2. PICK here : here = at[x]
      OBVIOUS
    <3>3. here \in rows
      BY <3>1, <3>2 DEF CInv, ProgressInv
    <3>4. Done(here)
      BY <3>3 DEF Done, Recorded
    <3>5. Done(here)'
      BY <3>1, <3>4, DoneStays
    <3> QED
      BY <3>1, <3>2, <3>5, AdvanceCursor DEF InBatch, Working
  <2>3. CASE SkipDuplicate(x)
    <3>1. /\ InBatch(x) /\ Recorded(at[x]) /\ Advance(x) /\ chain' = chain /\ rows' = rows
          /\ lost' = lost /\ savedLt' = savedLt
      BY <2>3 DEF SkipDuplicate, InBatch
    <3>2. PICK here : here = at[x]
      OBVIOUS
    <3>3. Done(here)
      BY <3>1, <3>2 DEF Done
    <3>4. Done(here)'
      BY <3>1, <3>3, DoneStays
    <3> QED
      BY <3>1, <3>2, <3>4, AdvanceCursor
  <2>4. CASE \E name : Statement(x, name)
    <3>1. UNCHANGED <<chain, rows, lost, savedLt, lastProcessedLt, upto, stage, at>>
      BY <2>4 DEF Statement
    <3>2. ShapeInv'
      BY <1>b, <3>1 DEF ShapeInv
    <3>3. \A y \in Indexer : Passed(y)' = Passed(y)
      BY <3>1 DEF Passed
    <3> QED
      BY <1>b, <3>1, <3>2, <3>3, IdleStep
  <2> QED
    BY <1>5, <2>1, <2>2, <2>3, <2>4 DEF Work, InsertMember, UpdateStatus, UpsertRound,
       SetMember, SelectRound, UpdateRound, SelectBalance, UpdateBalance
<1>6. ASSUME NEW x \in Indexer, SaveCursor(x)
      PROVE  CInv'
  <2>1. /\ chain' = chain /\ rows' = rows /\ lost' = lost /\ lastProcessedLt' = lastProcessedLt
        /\ upto' = upto /\ at' = at /\ stage' = [stage EXCEPT ![x] = "sleep"]
        /\ savedLt' \in {savedLt, lastProcessedLt[x]}
    BY <1>6 DEF SaveCursor
  <2>2. ShapeInv' /\ \A y \in Indexer : InBatch(y)' => stage'[y] = stage[y]
    BY <1>b, <2>1 DEF ShapeInv, InBatch
  <2>3. savedLt' \in 0..Len(chain)
    BY <1>b, <2>1
  <2>4. Passed(x) = lastProcessedLt[x] /\ \A y \in Indexer : Passed(y)' = Passed(y)
    BY <1>6, <1>b, <2>1 DEF SaveCursor, ShapeInv, Passed
  <2> QED
    BY <1>b, <2>1, <2>2, <2>3, <2>4, IdleStep
<1>7. ASSUME NEW x \in Indexer, InsertFails(x)
      PROVE  CInv'
  <2>1. /\ InBatch(x) /\ Advance(x) /\ chain' = chain /\ rows' = rows
        /\ lost' = lost \cup {at[x]} /\ savedLt' = savedLt
    BY <1>7 DEF InsertFails, InBatch
  <2>2. PICK here : here = at[x]
    OBVIOUS
  <2>3. Done(here)'
    BY <2>1, <2>2 DEF Done
  <2> QED
    BY <2>1, <2>2, <2>3, AdvanceCursor
<1>8. ASSUME NEW x \in Indexer, StatementFails(x)
      PROVE  CInv'
  <2>1. UNCHANGED <<chain, rows, lost, savedLt, lastProcessedLt, upto, stage, at>>
    BY <1>8 DEF StatementFails
  <2>2. ShapeInv'
    BY <1>b, <2>1 DEF ShapeInv
  <2>3. \A y \in Indexer : Passed(y)' = Passed(y)
    BY <2>1 DEF Passed
  <2> QED
    BY <1>b, <2>1, <2>2, <2>3, IdleStep
<1>9. CASE UNCHANGED vars
  <2>1. UNCHANGED <<chain, rows, lost, savedLt, lastProcessedLt, upto, stage, at>>
    BY <1>9 DEF vars, process
  <2>2. ShapeInv'
    BY <1>b, <2>1 DEF ShapeInv
  <2>3. \A y \in Indexer : Passed(y)' = Passed(y)
    BY <2>1 DEF Passed
  <2> QED
    BY <1>b, <2>1, <2>2, <2>3, IdleStep
<1>10. QED
  BY <1>1, <1>2, <1>3, <1>4, <1>5, <1>6, <1>7, <1>8, <1>9 DEF Next

(* No cursor passes an event that was neither recorded nor given up, for    *)
(* any number of processes that save their cursors over each other's, any   *)
(* crashes and any failures.                                                *)
THEOREM CursorTheorem == Spec => []CursorCovers
<1>1. CInv => CursorCovers
  BY DEF CInv
<1> QED
  BY InitCursors, CursorStep, IndexerAssumption, <1>1, PTL DEF Spec

-----------------------------------------------------------------------------
(* Credits.  A payout is settled once its row's worker owes it nothing any  *)
(* more; the balance of a member, and whatever a process read of it, counts *)
(* no more than the settled payouts.                                        *)

Owed(p) == \E x \in Indexer : Working(x) /\ at[x] = p /\ todo[x] # <<>>
PayoutOf(p, m) == EventAt(p).type = "PayoutSent" /\ EventAt(p).member = m
Settled(m) == {p \in rows : PayoutOf(p, m) /\ ~Owed(p)}

PayoutTodo == {<<"select_balance", "update_balance">>, <<"update_balance">>, <<>>}
OtherTodo ==
    {<<"upsert_round", "set_paid">>, <<"set_paid">>,
     <<"set_defaulted", "select_round", "update_round">>,
     <<"select_round", "update_round">>, <<"update_round">>,
     <<"insert_member">>, <<"update_status">>, <<>>}

(* The shapes, and what is left to do for the event at work.                *)
TodoInv ==
    /\ IsFiniteSet(rows)
    /\ credited \in [Member -> Nat]
    /\ todo = [x \in Indexer |-> todo[x]] /\ readValue = [x \in Indexer |-> readValue[x]]
    /\ \A x \in Indexer : Working(x) =>
         todo[x] \in IF EventAt(at[x]).type = "PayoutSent" THEN PayoutTodo ELSE OtherTodo

(* What the process x has read and not written yet is bounded by n.         *)
ReadUpTo(x, n) == \E v \in Nat : readValue[x] = <<v>> /\ v <= n
ReadInv ==
    \A x \in Indexer, m \in Member :
        Working(x) /\ PayoutOf(at[x], m) /\ todo[x] = <<"update_balance">>
            => ReadUpTo(x, Cardinality(Settled(m)))

CreditInv ==
    /\ TodoInv /\ ReadInv
    /\ \A m \in Member : credited[m] <= Cardinality(Settled(m))

(* A step that keeps the rows and their events, and after which nothing is  *)
(* owed that was not owed before: what was settled stays so.                *)
SettledKept ==
    /\ rows \subseteq rows' /\ IsFiniteSet(rows')
    /\ \A p \in rows : EventAt(p)' = EventAt(p)
    /\ \A y \in Indexer : Working(y)' /\ todo'[y] # <<>> /\ at'[y] \in rows
         => Working(y) /\ at'[y] = at[y] /\ todo[y] # <<>>

LEMMA SettledCount ==
    ASSUME TodoInv, NEW m
    PROVE  IsFiniteSet(Settled(m)) /\ Cardinality(Settled(m)) \in Nat
<1>1. Settled(m) \subseteq rows
  BY DEF Settled
<1> QED
  BY <1>1, FS_Subset, FS_CardinalityType DEF TodoInv

LEMMA SettledGrows ==
    ASSUME TodoInv, SettledKept, NEW m
    PROVE  /\ Settled(m) \subseteq Settled(m)'
           /\ IsFiniteSet(Settled(m)')
           /\ Cardinality(Settled(m)') \in Nat
           /\ Cardinality(Settled(m)) <= Cardinality(Settled(m)')
           /\ \A v \in Nat : v <= Cardinality(Settled(m)) => v <= Cardinality(Settled(m)')
<1>1. \A p \in rows : PayoutOf(p, m)' = PayoutOf(p, m)
  BY DEF SettledKept, PayoutOf
<1>2. \A p \in rows : Owed(p)' => Owed(p)
  BY DEF SettledKept, Owed
<1>3. Settled(m) \subseteq Settled(m)' /\ Settled(m)' \subseteq rows'
  BY <1>1, <1>2 DEF Settled, SettledKept
<1>4. IsFiniteSet(Settled(m)')
  BY <1>3, FS_Subset DEF SettledKept
<1> DEFINE before == Cardinality(Settled(m))
           after == Cardinality(Settled(m)')
<1>5. before \in Nat /\ after \in Nat /\ before <= after
  BY <1>3, <1>4, FS_Subset, FS_CardinalityType
<1>6. \A v \in Nat : v <= before => v <= after
  <2> HIDE DEF before, after
  <2> QED
    BY <1>5
<1> QED
  BY <1>3, <1>4, <1>5, <1>6

(* A step that leaves the balances alone, and each payout at work either as *)
(* it is or without anything left to write.                                 *)
LEMMA CreditKept ==
    ASSUME CreditInv, IInv, SettledKept, TodoInv', credited' = credited,
           \A y \in Indexer, m \in Member :
              Working(y)' /\ PayoutOf(at[y], m)' /\ todo'[y] = <<"update_balance">> =>
                 /\ Working(y) /\ at'[y] = at[y] /\ todo'[y] = todo[y]
                 /\ readValue'[y] = readValue[y]
    PROVE  CreditInv'
<1>1. \A m \in Member : \A v \in Nat :
        v <= Cardinality(Settled(m)) => v <= Cardinality(Settled(m)')
  BY SettledGrows DEF CreditInv
<1>2. ASSUME NEW y \in Indexer, NEW m \in Member,
             Working(y)', PayoutOf(at[y], m)', todo'[y] = <<"update_balance">>
      PROVE  ReadUpTo(y, Cardinality(Settled(m)))'
  <2>1. /\ Working(y) /\ at'[y] = at[y] /\ todo[y] = <<"update_balance">>
        /\ readValue'[y] = readValue[y]
    BY <1>2
  <2>2. at[y] \in rows
    BY <2>1 DEF IInv, OneWorker
  <2>3. PayoutOf(at[y], m)
    BY <1>2, <2>1, <2>2 DEF PayoutOf, SettledKept, EventAt
  <2>4. PICK v \in Nat : readValue[y] = <<v>> /\ v <= Cardinality(Settled(m))
    BY <2>1, <2>3 DEF CreditInv, ReadInv, ReadUpTo
  <2>5. v <= Cardinality(Settled(m)')
    BY <1>1, <2>4
  <2> QED
    BY <2>1, <2>4, <2>5 DEF ReadUpTo
<1>3. ReadInv'
  BY <1>2 DEF ReadInv
<1>4. \A m \in Member : credited'[m] <= Cardinality(Settled(m)')
  <2> SUFFICES ASSUME NEW m \in Member
               PROVE  credited'[m] <= Cardinality(Settled(m)')
    OBVIOUS
  <2>1. credited'[m] \in Nat /\ credited'[m] <= Cardinality(Settled(m))
    BY DEF CreditInv, TodoInv
  <2> QED
    BY <1>1, <2>1
<1> QED
  BY <1>3, <1>4 DEF CreditInv

LEMMA OtherTail ==
    ASSUME NEW t \in OtherTodo
    PROVE  /\ t # <<"update_balance">>
           /\ t # <<>> => /\ Tail(t) \in OtherTodo
                          /\ Head(t) \notin {"select_balance", "update_balance"}
<1>1. CASE t = <<"upsert_round", "set_paid">>
  <2>1. Tail(t) = <<"set_paid">> /\ Head(t) = "upsert_round"
    BY <1>1
  <2> QED
    BY <1>1, <2>1 DEF OtherTodo
<1>2. CASE t = <<"set_defaulted", "select_round", "update_round">>
  <2>1. Tail(t) = <<"select_round", "update_round">> /\ Head(t) = "set_defaulted"
    BY <1>2
  <2> QED
    BY <1>2, <2>1 DEF OtherTodo
<1>3. CASE t = <<"select_round", "update_round">>
  <2>1. Tail(t) = <<"update_round">> /\ Head(t) = "select_round"
    BY <1>3
  <2> QED
    BY <1>3, <2>1 DEF OtherTodo
<1>4. ASSUME NEW s \in {"set_paid", "update_round", "insert_member", "update_status"}, t = <<s>>
      PROVE  /\ t # <<"update_balance">>
             /\ Tail(t) \in OtherTodo /\ Head(t) \notin {"select_balance", "update_balance"}
  <2>1. Tail(t) = <<>> /\ Head(t) = s
    BY <1>4
  <2>2. Head(<<"update_balance">>) = "update_balance"
    OBVIOUS
  <2> QED
    BY <1>4, <2>1, <2>2 DEF OtherTodo
<1>5. <<>> # <<"update_balance">>
  OBVIOUS
<1> QED
  BY <1>1, <1>2, <1>3, <1>4, <1>5 DEF OtherTodo

LEMMA PayoutTail ==
    ASSUME NEW t \in PayoutTodo, t # <<>>
    PROVE  \/ /\ t = <<"select_balance", "update_balance">> /\ Head(t) = "select_balance"
              /\ Tail(t) = <<"update_balance">>
           \/ /\ t = <<"update_balance">> /\ Head(t) = "update_balance" /\ Tail(t) = <<>>
<1>1. CASE t = <<"select_balance", "update_balance">>
  BY <1>1
<1>2. CASE t = <<"update_balance">>
  BY <1>2
<1> QED
  BY <1>1, <1>2 DEF PayoutTodo

(* Steps that neither insert nor credit: a process that still works has the *)
(* same to do, or nothing, or one statement less for another event than a   *)
(* payout.                                                                  *)
LEMMA OtherStep ==
    ASSUME CreditInv, IInv, chain' = chain, rows' = rows, credited' = credited,
           todo' = [y \in Indexer |-> todo'[y]], readValue' = [y \in Indexer |-> readValue'[y]],
           \A y \in Indexer : Working(y)' =>
              /\ Working(y) /\ at'[y] = at[y]
              /\ \/ todo'[y] = todo[y] /\ readValue'[y] = readValue[y]
                 \/ todo'[y] = <<>>
                 \/ /\ EventAt(at[y]).type # "PayoutSent"
                    /\ todo[y] # <<>> /\ todo'[y] = Tail(todo[y])
    PROVE  CreditInv'
<1>1. SettledKept
  BY DEF SettledKept, CreditInv, TodoInv, EventAt
<1>2. ASSUME NEW y \in Indexer, Working(y)'
      PROVE  todo'[y] \in IF EventAt(at[y])'.type = "PayoutSent" THEN PayoutTodo ELSE OtherTodo
  <2>1. /\ EventAt(at[y])' = EventAt(at[y])
        /\ todo[y] \in IF EventAt(at[y]).type = "PayoutSent" THEN PayoutTodo ELSE OtherTodo
    BY <1>2 DEF CreditInv, TodoInv, EventAt
  <2>2. <<>> \in PayoutTodo /\ <<>> \in OtherTodo
    BY DEF PayoutTodo, OtherTodo
  <2> QED
    BY <1>2, <2>1, <2>2, OtherTail
<1>3. TodoInv'
  BY <1>2 DEF CreditInv, TodoInv
<1>4. ASSUME NEW y \in Indexer, NEW m \in Member,
             Working(y)', PayoutOf(at[y], m)', todo'[y] = <<"update_balance">>
      PROVE  /\ Working(y) /\ at'[y] = at[y] /\ todo'[y] = todo[y]
             /\ readValue'[y] = readValue[y]
  <2>1. EventAt(at[y]).type = "PayoutSent" /\ Working(y) /\ at'[y] = at[y]
    BY <1>4 DEF PayoutOf, EventAt
  <2>2. todo'[y] # <<>>
    BY <1>4
  <2> QED
    BY <1>4, <2>1, <2>2
<1> QED
  BY <1>1, <1>3, <1>4, CreditKept

LEMMA ChainCredits ==
    ASSUME IndexerAssumption, CInv, IInv, CreditInv, Chain
    PROVE  CreditInv'
<1>1. PICK t : TxOK(t) /\ chain' = Append(chain, t)
  BY ChainStep DEF CInv
<1>2. UNCHANGED <<rows, credited, stage, at, todo, readValue>>
  BY DEF Chain, JoinKye, ExecuteRound, EmergencyCancel, process, derived
<1>3. \A p \in rows : EventAt(p)' = EventAt(p)
  BY <1>1, AppendTx, PositionFacts DEF CInv, BoundInv, EventAt
<1>4. SettledKept
  BY <1>2, <1>3 DEF SettledKept, CreditInv, TodoInv, Working
<1>5. \A y \in Indexer : Working(y) => at[y] \in rows
  BY DEF IInv, OneWorker
<1>6. \A y \in Indexer : Working(y) => EventAt(at[y])' = EventAt(at[y])
  BY <1>2, <1>3, <1>5 DEF EventAt
<1>7. TodoInv'
  BY <1>2, <1>6 DEF CreditInv, TodoInv, Working
<1> QED
  BY <1>2, <1>4, <1>7, CreditKept DEF Working

LEMMA InsertCredits ==
    ASSUME CInv, IInv, CreditInv, NEW x \in Indexer, InsertEvent(x)
    PROVE  CreditInv'
<1>1. /\ chain' = chain /\ credited' = credited /\ readValue' = readValue /\ at' = at
      /\ at[x] \notin rows /\ rows' = rows \cup {at[x]}
      /\ stage' = [stage EXCEPT ![x] = "work"]
      /\ todo' = [todo EXCEPT ![x] = SideEffects[EventAt(at[x]).type]]
  BY DEF InsertEvent, Recorded, derived, Current
<1>2. /\ todo'[x] = SideEffects[EventAt(at[x]).type]
      /\ \A y \in Indexer \ {x} : stage'[y] = stage[y] /\ todo'[y] = todo[y]
      /\ todo' = [y \in Indexer |-> todo'[y]]
  BY <1>1 DEF CreditInv, TodoInv, IInv, ShapeInv
<1>3. IsFiniteSet(rows')
  BY <1>1, FS_AddElement DEF CreditInv, TodoInv
<1>4. SettledKept
  BY <1>1, <1>2, <1>3 DEF SettledKept, EventAt, Working
<1>5. EventAt(at[x]).type \in EventType
  <2>1. InBatch(x)
    BY DEF InsertEvent, InBatch
  <2> QED
    BY <2>1, PositionFacts, ChainLength DEF CInv, BoundInv, TxOK, EventAt
<1>6. todo'[x] \in IF EventAt(at[x]).type = "PayoutSent" THEN PayoutTodo ELSE OtherTodo
  BY <1>2, <1>5 DEF SideEffects, EventType, NOTIFICATION_MATRIX, PayoutTodo, OtherTodo
<1>7. TodoInv'
  BY <1>1, <1>2, <1>3, <1>6 DEF CreditInv, TodoInv, EventAt, Working
<1>8. todo'[x] # <<"update_balance">>
  BY <1>2, <1>5 DEF SideEffects, EventType, NOTIFICATION_MATRIX
<1> QED
  BY <1>1, <1>2, <1>4, <1>7, <1>8, CreditKept DEF Working

LEMMA SelectCredits ==
    ASSUME IInv, CreditInv, NEW x \in Indexer, SelectBalance(x)
    PROVE  CreditInv'
<1>1. /\ Working(x) /\ todo[x] # <<>> /\ Head(todo[x]) = "select_balance"
      /\ todo' = [todo EXCEPT ![x] = Tail(@)]
      /\ readValue' = [readValue EXCEPT ![x] = <<credited[EventAt(at[x]).member]>>]
      /\ UNCHANGED <<chain, rows, stage, at, credited>>
  BY DEF SelectBalance, Statement, Working, derived, Current
<1>2. /\ EventAt(at[x]).type = "PayoutSent"
      /\ todo[x] = <<"select_balance", "update_balance">> /\ Tail(todo[x]) = <<"update_balance">>
  BY <1>1, OtherTail, PayoutTail DEF CreditInv, TodoInv
<1>3. /\ todo'[x] = <<"update_balance">> /\ todo' = [y \in Indexer |-> todo'[y]]
      /\ readValue'[x] = <<credited[EventAt(at[x]).member]>>
      /\ readValue' = [y \in Indexer |-> readValue'[y]]
      /\ \A y \in Indexer \ {x} : todo'[y] = todo[y] /\ readValue'[y] = readValue[y]
  BY <1>1, <1>2 DEF CreditInv, TodoInv
<1>4. SettledKept
  <2>1. \A y \in Indexer : todo'[y] # <<>> => todo[y] # <<>>
    BY <1>1, <1>3
  <2> QED
    BY <1>1, <2>1 DEF SettledKept, CreditInv, TodoInv, EventAt, Working
<1>5. TodoInv'
  <2>1. todo'[x] \in PayoutTodo
    BY <1>3 DEF PayoutTodo
  <2> QED
    BY <1>1, <1>2, <1>3, <2>1 DEF CreditInv, TodoInv, EventAt, Working
<1>6. \A m \in Member : Settled(m)' = Settled(m)
  <2>1. \A p : Owed(p)' = Owed(p)
    <3>1. \A y \in Indexer : todo'[y] # <<>> <=> todo[y] # <<>>
      <4>1. todo'[x] # <<>>
        BY <1>3
      <4> QED
        BY <1>1, <1>3, <4>1
    <3> QED
      BY <1>1, <3>1 DEF Owed, Working
  <2> QED
    BY <1>1, <2>1 DEF Settled, PayoutOf, EventAt
<1>7. ASSUME NEW y \in Indexer, NEW m \in Member,
             Working(y)', PayoutOf(at[y], m)', todo'[y] = <<"update_balance">>
      PROVE  ReadUpTo(y, Cardinality(Settled(m)))'
  <2>1. Working(y) /\ PayoutOf(at[y], m)
    BY <1>1, <1>7 DEF Working, PayoutOf, EventAt
  <2>2. CASE y = x
    <3>1. readValue'[y] = <<credited[m]>>
      BY <1>3, <2>1, <2>2 DEF PayoutOf
    <3> QED
      BY <1>6, <3>1 DEF CreditInv, TodoInv, ReadUpTo
  <2>3. CASE y # x
    BY <1>3, <1>6, <1>7, <2>1, <2>3 DEF CreditInv, ReadInv, ReadUpTo
  <2> QED
    BY <2>2, <2>3
<1>8. ReadInv'
  BY <1>7 DEF ReadInv
<1> QED
  BY <1>1, <1>5, <1>6, <1>8 DEF CreditInv

(* The payout at work becomes settled, and what was read counted it not.    *)
LEMMA UpdateCredits ==
    ASSUME IInv, CreditInv, NEW x \in Indexer, UpdateBalance(x)
    PROVE  CreditInv'
<1>a. PICK here : here = at[x]
  OBVIOUS
<1>b. PICK w : w = EventAt(here).member
  OBVIOUS
<1>1. /\ Working(x) /\ todo[x] # <<>> /\ Head(todo[x]) = "update_balance"
      /\ todo' = [todo EXCEPT ![x] = Tail(@)]
      /\ readValue' = [readValue EXCEPT ![x] = <<>>]
      /\ credited' = [credited EXCEPT ![w] = readValue[x][1] + 1]
      /\ UNCHANGED <<chain, rows, stage, at>>
  BY <1>a, <1>b DEF UpdateBalance, Statement, Working, Current
<1>2. /\ EventAt(here).type = "PayoutSent"
      /\ todo[x] = <<"update_balance">> /\ Tail(todo[x]) = <<>>
  BY <1>a, <1>1, OtherTail, PayoutTail DEF CreditInv, TodoInv
<1>3. /\ todo'[x] = <<>> /\ todo' = [y \in Indexer |-> todo'[y]]
      /\ readValue' = [y \in Indexer |-> readValue'[y]]
      /\ \A y \in Indexer \ {x} : todo'[y] = todo[y] /\ readValue'[y] = readValue[y]
  BY <1>1, <1>2 DEF CreditInv, TodoInv
<1>4. SettledKept
  BY <1>1, <1>3 DEF SettledKept, CreditInv, TodoInv, EventAt, Working
<1>5. /\ here \in rows /\ PayoutOf(here, w) /\ Owed(here) /\ ~Owed(here)'
  <2>1. \A y \in Indexer : Working(y) /\ at[y] = here => y = x
    BY <1>a, <1>1 DEF IInv, OneWorker
  <2> QED
    BY <1>a, <1>b, <1>1, <1>2, <1>3, <2>1 DEF IInv, OneWorker, PayoutOf, Owed, Working
<1>6. \A m \in Member : \A v \in Nat :
        v <= Cardinality(Settled(m)) => v <= Cardinality(Settled(m)')
  BY <1>4, SettledGrows DEF CreditInv
<1>7. \A v \in Nat : v <= Cardinality(Settled(w)) => v + 1 <= Cardinality(Settled(w)')
  <2> DEFINE S == Settled(w)
             T == Settled(w)'
  <2>1. here \notin S /\ here \in T /\ S \subseteq T /\ IsFiniteSet(S) /\ IsFiniteSet(T)
    <3>1. here \notin S
      BY <1>5 DEF Settled
    <3>2. PayoutOf(here, w)'
      BY <1>1, <1>5 DEF PayoutOf, EventAt
    <3>3. here \in T
      BY <1>1, <1>5, <3>2 DEF Settled, PayoutOf, EventAt
    <3>4. S \subseteq T /\ IsFiniteSet(T)
      BY <1>4, SettledGrows DEF CreditInv
    <3>5. IsFiniteSet(S)
      BY SettledCount DEF CreditInv
    <3> QED
      BY <3>1, <3>3, <3>4, <3>5
  <2> HIDE DEF S, T
  <2>2. Cardinality(S \cup {here}) = Cardinality(S) + 1 /\ Cardinality(S) \in Nat
    BY <2>1, FS_AddElement, FS_CardinalityType
  <2>3. Cardinality(S \cup {here}) <= Cardinality(T) /\ Cardinality(T) \in Nat
    <3>1. S \cup {here} \subseteq T
      BY <2>1
    <3> QED
      BY <2>1, <3>1, FS_Subset, FS_CardinalityType
  <2>4. \A v \in Nat : v <= Cardinality(S) => v + 1 <= Cardinality(T)
    BY <2>2, <2>3
  <2> QED
    BY <2>4 DEF S, T
<1>8. w \in Member => \E v \in Nat : readValue[x] = <<v>> /\ v <= Cardinality(Settled(w))
  BY <1>a, <1>1, <1>2, <1>5 DEF CreditInv, ReadInv, ReadUpTo
<1>9. /\ credited' \in [Member -> Nat]
      /\ \A m \in Member : credited'[m] <= Cardinality(Settled(m)')
  <2>1. CASE w \notin Member
    <3>1. credited' = credited
      BY <1>1, <2>1 DEF CreditInv, TodoInv
    <3> QED
      BY <1>6, <3>1 DEF CreditInv, TodoInv
  <2>2. CASE w \in Member
    <3>1. PICK v \in Nat : readValue[x] = <<v>> /\ v <= Cardinality(Settled(w))
      BY <1>8, <2>2
    <3>2. credited' = [credited EXCEPT ![w] = v + 1]
      BY <1>1, <3>1
    <3>3. v + 1 <= Cardinality(Settled(w)')
      BY <1>7, <3>1
    <3>4. credited' \in [Member -> Nat] /\ credited'[w] = v + 1
      BY <2>2, <3>2 DEF CreditInv, TodoInv
    <3>5. \A m \in Member \ {w} : credited'[m] = credited[m]
      BY <3>2 DEF CreditInv, TodoInv
    <3>6. \A m \in Member : credited[m] \in Nat /\ credited[m] <= Cardinality(Settled(m))
      BY DEF CreditInv, TodoInv
    <3> QED
      BY <1>6, <3>3, <3>4, <3>5, <3>6
  <2> QED
    BY <2>1, <2>2
<1>10. TodoInv'
  <2>1. todo'[x] \in PayoutTodo
    BY <1>3 DEF PayoutTodo
  <2> QED
    BY <1>a, <1>1, <1>2, <1>3, <1>9, <2>1 DEF CreditInv, TodoInv, EventAt, Working
<1>11. ASSUME NEW y \in Indexer, NEW m \in Member,
              Working(y)', PayoutOf(at[y], m)', todo'[y] = <<"update_balance">>
       PROVE  ReadUpTo(y, Cardinality(Settled(m)))'
  <2>1. Working(y) /\ PayoutOf(at[y], m)
    BY <1>1, <1>11 DEF Working, PayoutOf, EventAt
  <2>2. y # x
    BY <1>3, <1>11
  <2>3. PICK v \in Nat : readValue[y] = <<v>> /\ v <= Cardinality(Settled(m))
    BY <1>3, <1>11, <2>1, <2>2 DEF CreditInv, ReadInv, ReadUpTo
  <2>4. v <= Cardinality(Settled(m)')
    BY <1>6, <2>3
  <2> QED
    BY <1>3, <2>3, <2>4, <2>2 DEF ReadUpTo
<1>12. ReadInv'
  BY <1>11 DEF ReadInv
<1> QED
  BY <1>9, <1>10, <1>12 DEF CreditInv

LEMMA InitCredits == Init => CreditInv
<1> SUFFICES ASSUME Init
             PROVE  CreditInv
  OBVIOUS
<1>1. rows = {} /\ credited = [m \in Member |-> 0] /\ \A x \in Indexer : ~Working(x)
  BY DEF Init, Working
<1>2. TodoInv
  BY <1>1, FS_EmptySet DEF Init, TodoInv
<1>3. \A m : Cardinality(Settled(m)) = 0
  BY <1>1, FS_EmptySet DEF Settled
<1> QED
  BY <1>1, <1>2, <1>3 DEF CreditInv, ReadInv

(* Any other statement is not about a payout: the shapes say whose turn it  *)
(* is.                                                                      *)
LEMMA StatementCredits ==
    ASSUME IInv, CreditInv, NEW x \in Indexer, NEW name, Statement(x, name),
           name \notin {"select_balance", "update_balance"}, credited' = credited,
           \/ readValue' = readValue
           \/ \E v : readValue' = [readValue EXCEPT ![x] = v]
    PROVE  CreditInv'
<1>1. /\ Working(x) /\ todo[x] # <<>> /\ Head(todo[x]) = name
      /\ todo' = [todo EXCEPT ![x] = Tail(@)]
      /\ UNCHANGED <<chain, rows, stage, at>>
  BY DEF Statement, Working
<1>2. EventAt(at[x]).type # "PayoutSent"
  BY <1>1, PayoutTail DEF CreditInv, TodoInv
<1>3. /\ todo' = [y \in Indexer |-> todo'[y]] /\ readValue' = [y \in Indexer |-> readValue'[y]]
      /\ todo'[x] = Tail(todo[x])
      /\ \A y \in Indexer \ {x} : todo'[y] = todo[y] /\ readValue'[y] = readValue[y]
  BY <1>1 DEF CreditInv, TodoInv
<1>4. \A y \in Indexer : Working(y)' =>
        /\ Working(y) /\ at'[y] = at[y]
        /\ \/ todo'[y] = todo[y] /\ readValue'[y] = readValue[y]
           \/ /\ EventAt(at[y]).type # "PayoutSent"
              /\ todo[y] # <<>> /\ todo'[y] = Tail(todo[y])
  BY <1>1, <1>2, <1>3 DEF Working
<1> QED
  BY <1>1, <1>3, <1>4, OtherStep

(* A process that goes on to another event, ends its batch, starts or dies. *)
LEMMA LeavesEvent ==
    ASSUME IInv, CreditInv, ShapeInv', NEW x \in Indexer,
           UNCHANGED <<chain, rows, credited>>, ~Working(x)',
           \A y \in Indexer \ {x} : stage'[y] = stage[y] /\ at'[y] = at[y],
           \/ todo' = todo /\ readValue' = readValue
           \/ todo' = [todo EXCEPT ![x] = <<>>] /\ readValue' = [readValue EXCEPT ![x] = <<>>]
    PROVE  CreditInv'
<1>1. /\ todo' = [y \in Indexer |-> todo'[y]] /\ readValue' = [y \in Indexer |-> readValue'[y]]
      /\ \A y \in Indexer \ {x} : todo'[y] = todo[y] /\ readValue'[y] = readValue[y]
  BY DEF CreditInv, TodoInv
<1>2. \A y \in Indexer : Working(y)' =>
        /\ Working(y) /\ at'[y] = at[y] /\ todo'[y] = todo[y] /\ readValue'[y] = readValue[y]
  BY <1>1 DEF Working
<1> QED
  BY <1>1, <1>2, OtherStep

LEMMA FailureCredits ==
    ASSUME IInv, CreditInv, NEW x \in Indexer, StatementFails(x)
    PROVE  CreditInv'
<1>1. /\ Working(x) /\ todo[x] # <<>>
      /\ \/ Head(todo[x]) # "select_balance" /\ todo' = [todo EXCEPT ![x] = Tail(@)]
         \/ todo' = [todo EXCEPT ![x] = <<>>]
      /\ readValue' = [readValue EXCEPT ![x] = <<>>]
      /\ UNCHANGED <<chain, rows, stage, at, credited>>
  BY DEF StatementFails, Working, derived
<1>2. /\ todo' = [y \in Indexer |-> todo'[y]] /\ readValue' = [y \in Indexer |-> readValue'[y]]
      /\ \/ Head(todo[x]) # "select_balance" /\ todo'[x] = Tail(todo[x])
         \/ todo'[x] = <<>>
      /\ \A y \in Indexer \ {x} : todo'[y] = todo[y] /\ readValue'[y] = readValue[y]
  BY <1>1 DEF CreditInv, TodoInv
<1>3. EventAt(at[x]).type = "PayoutSent" => todo'[x] = <<>>
  BY <1>1, <1>2, PayoutTail DEF CreditInv, TodoInv
<1>4. \A y \in Indexer : Working(y)' =>
        /\ Working(y) /\ at'[y] = at[y]
        /\ \/ todo'[y] = todo[y] /\ readValue'[y] = readValue[y]
           \/ todo'[y] = <<>>
           \/ /\ EventAt(at[y]).type # "PayoutSent"
              /\ todo[y] # <<>> /\ todo'[y] = Tail(todo[y])
  BY <1>1, <1>2, <1>3 DEF Working
<1> QED
  BY <1>1, <1>2, <1>4, OtherStep

LEMMA WorkCredits ==
    ASSUME CInv, IInv, CreditInv, NEW x \in Indexer, Work(x)
    PROVE  CreditInv'
<1>1. CASE InsertEvent(x)
  BY <1>1, InsertCredits
<1>2. CASE SelectBalance(x)
  BY <1>2, SelectCredits
<1>3. CASE UpdateBalance(x)
  BY <1>3, UpdateCredits
<1>4. CASE SkipDuplicate(x) \/ EnqueueNotifications(x)
  <2>1. Advance(x) /\ UNCHANGED <<chain, rows, credited, todo, readValue>>
    BY <1>4 DEF SkipDuplicate, EnqueueNotifications, derived
  <2>2. /\ ShapeInv' /\ ~Working(x)'
        /\ \A y \in Indexer \ {x} : stage'[y] = stage[y] /\ at'[y] = at[y]
    BY <2>1, AdvanceMoves DEF IInv
  <2> QED
    BY <2>1, <2>2, LeavesEvent
<1>5. CASE InsertMember(x) \/ UpdateStatus(x)
  BY <1>5, StatementCredits DEF InsertMember, UpdateStatus
<1>6. CASE UpsertRound(x)
  BY <1>6, StatementCredits DEF UpsertRound
<1>7. CASE SetMember(x, "set_paid", "paid") \/ SetMember(x, "set_defaulted", "defaulted")
  BY <1>7, StatementCredits DEF SetMember
<1>8. CASE SelectRound(x)
  BY <1>8, StatementCredits DEF SelectRound, derived
<1>9. CASE UpdateRound(x)
  BY <1>9, StatementCredits DEF UpdateRound
<1> QED
  BY <1>1, <1>2, <1>3, <1>4, <1>5, <1>6, <1>7, <1>8, <1>9 DEF Work

LEMMA CreditStep ==
    IndexerAssumption /\ CInv /\ IInv /\ CreditInv /\ [Next]_vars => CreditInv'
<1> SUFFICES ASSUME IndexerAssumption, CInv, IInv, CreditInv, [Next]_vars
             PROVE  CreditInv'
  OBVIOUS
<1>1. CASE Chain
  BY <1>1, ChainCredits
<1>2. ASSUME NEW x \in Indexer,
             NEW s \in {"down", "sleep", "insert"}, stage' = [stage EXCEPT ![x] = s],
             at' = at \/ \E p : at' = [at EXCEPT ![x] = p],
             UNCHANGED <<chain, rows, credited>>,
             \/ todo' = todo /\ readValue' = readValue
             \/ todo' = [todo EXCEPT ![x] = <<>>] /\ readValue' = [readValue EXCEPT ![x] = <<>>]
      PROVE  CreditInv'
  <2>1. /\ ShapeInv' /\ ~Working(x)'
        /\ \A y \in Indexer \ {x} : stage'[y] = stage[y] /\ at'[y] = at[y]
    BY <1>2 DEF IInv, ShapeInv, Working
  <2> QED
    BY <1>2, <2>1, LeavesEvent
<1>3. ASSUME NEW x \in Indexer, Start(x) \/ Crash(x) \/ Fetch(x) \/ SaveCursor(x)
      PROVE  CreditInv'
  BY <1>2, <1>3 DEF Start, Crash, Fetch, SaveCursor, derived
<1>4. ASSUME NEW x \in Indexer, InsertFails(x)
      PROVE  CreditInv'
  <2>1. Advance(x) /\ UNCHANGED <<chain, rows, credited, todo, readValue>>
    BY <1>4 DEF InsertFails, derived
  <2>2. /\ ShapeInv' /\ ~Working(x)'
        /\ \A y \in Indexer \ {x} : stage'[y] = stage[y] /\ at'[y] = at[y]
    BY <2>1, AdvanceMoves DEF IInv
  <2> QED
    BY <2>1, <2>2, LeavesEvent
<1>5. CASE UNCHANGED vars
  <2>1. UNCHANGED <<chain, rows, credited, todo, readValue, stage, at>>
    BY <1>5 DEF vars, process, derived
  <2> QED
    BY <2>1, OtherStep DEF CreditInv, TodoInv, Working
<1> QED
  BY <1>1, <1>3, <1>4, <1>5, WorkCredits, FailureCredits DEF Next

(* SECURITY_CHECKLIST.md:59, for any number of processes, members and       *)
(* rounds, crashes between the two statements of a credit, and processes    *)
(* that credit one member at once: a member is credited at most once for    *)
(* each payout on record (indexer.ts:335-356).                              *)
THEOREM CreditedOnceTheorem == Spec => []CreditedOnce
<1>1. CreditInv => CreditedOnce
  <2> SUFFICES ASSUME CreditInv, NEW m \in Member
               PROVE  credited[m] <= Cardinality({p \in rows : PayoutOf(p, m)})
    BY DEF CreditedOnce, PayoutOf
  <2> DEFINE payouts == {p \in rows : PayoutOf(p, m)}
             settled == Settled(m)
  <2>1. settled \subseteq payouts /\ payouts \subseteq rows
    BY DEF Settled
  <2>2. IsFiniteSet(payouts) /\ credited[m] \in Nat /\ credited[m] <= Cardinality(settled)
    BY <2>1, FS_Subset DEF CreditInv, TodoInv
  <2> HIDE DEF payouts, settled
  <2>3. Cardinality(settled) \in Nat /\ Cardinality(payouts) \in Nat
        /\ Cardinality(settled) <= Cardinality(payouts)
    BY <2>1, <2>2, FS_Subset, FS_CardinalityType
  <2>4. credited[m] <= Cardinality(payouts)
    BY <2>2, <2>3
  <2> QED
    BY <2>4 DEF payouts
<1> QED
  BY InitStep, InvariantStep, InitCursors, CursorStep, InitCredits, CreditStep,
     IndexerAssumption, <1>1, PTL DEF Spec

-----------------------------------------------------------------------------
(***************************************************************************)
(* What the circle emits, and in which order.                              *)
(***************************************************************************)

StatusEvent(e) == e.type \in {"KyeActivated", "KyeCompleted", "KyeCancelled"}
StatusRank(e) == Rank[StatusOf[e.type]]

(* The fields that the side effects of an event use.                        *)
EventOK(e) ==
    /\ e \in Event
    /\ e.type \in {"MemberJoined", "PayoutSent", "DefaultDetected"} => e.member \in Member
    /\ e.type \in {"RoundExecuted", "DefaultDetected"} => e.round \in Member

(* A transaction emits an event of a type once, defaults apart; the status  *)
(* events come in the order of the circle's states.                         *)
OrderOfEvents ==
    /\ \A p \in Positions : EventOK(EventAt(p))
    /\ \A p, q \in Positions :
         Key(p) = Key(q) /\ EventAt(p).type # "DefaultDetected" => p = q
    /\ \A p, q \in Positions :
         StatusEvent(EventAt(p)) /\ StatusEvent(EventAt(q)) /\ Before(p, q)
           => StatusRank(EventAt(p)) < StatusRank(EventAt(q))

(* Rounds are executed once each, with one payout, to the member of the     *)
(* round's number; after the last the circle is completed.                  *)
RoundsInOrder ==
    /\ IsFiniteSet(Emitted("RoundExecuted"))
    /\ Cardinality(Emitted("RoundExecuted")) \in 0..memberCount
    /\ Cardinality(Emitted("RoundExecuted")) = memberCount => Emitted("KyeCompleted") # {}
    /\ \A p \in Emitted("RoundExecuted") : EventAt(p).round < currentRound
    /\ \A p \in Emitted("PayoutSent") : EventAt(p).member < currentRound
    /\ \A p, q \in Emitted("PayoutSent") : EventAt(p).member = EventAt(q).member => p = q
    /\ {EventAt(p).round : p \in Emitted("RoundExecuted")}
         = {EventAt(p).member : p \in Emitted("PayoutSent")}

EmittedInv == OrderOfEvents /\ RoundsInOrder

(* What is left to do for an event of each type.                            *)
Remaining == [
    MemberJoined    |-> {<<"insert_member">>, <<>>},
    KyeActivated    |-> {<<"update_status">>, <<>>},
    RoundExecuted   |-> {<<"upsert_round", "set_paid">>, <<"set_paid">>, <<>>},
    PayoutSent      |-> PayoutTodo,
    DefaultDetected |-> {<<"set_defaulted", "select_round", "update_round">>,
                         <<"select_round", "update_round">>, <<"update_round">>, <<>>},
    KyeCompleted    |-> {<<"update_status">>, <<>>},
    KyeCancelled    |-> {<<"update_status">>, <<>>}]

RemainingInv ==
    \A x \in Indexer :
        todo[x] \in IF Working(x) THEN Remaining[EventAt(at[x]).type] ELSE {<<>>}

-----------------------------------------------------------------------------
Up(x) == stage[x] # "down"
OneUp == ~overlapped => \A x, y \in Indexer : Up(x) /\ Up(y) => x = y

(* One process at a time and nothing given up: events are recorded in the   *)
(* order of the chain, however often it dies and starts over.               *)
Orderly == ~overlapped /\ lost = {}
OrderInv ==
    /\ OneUp
    /\ Orderly =>
        /\ \A q \in rows, p \in Positions : Before(p, q) => Recorded(p)
        /\ \A x \in Indexer : Working(x) => \A q \in rows : q = at[x] \/ Before(q, at[x])
        /\ kyeStatus = "created" \/ \E q \in rows :
             StatusEvent(EventAt(q)) /\ ~Owed(q) /\ kyeStatus = StatusOf[EventAt(q).type]

(* The derived tables and the jobs, statement by statement.                 *)
RoundOwed(p) ==
    \E x \in Indexer :
        Working(x) /\ at[x] = p /\ todo[x] = <<"upsert_round", "set_paid">>
Handled(x) == {q \in rows : ~(Working(x) /\ at[x] = q)}
Announced(S) == UNION {{p} \X NOTIFICATION_MATRIX[EventAt(p).type] : p \in S}

NothingYet == (\A x \in Indexer : ~Up(x)) => rows = {} /\ DOMAIN jobs = {}
StatusMatches ==
    \A q \in rows : StatusEvent(EventAt(q)) /\ ~Owed(q)
        => Rank[kyeStatus] >= StatusRank(EventAt(q))
MembersMatch ==
    \A m \in Member : memberStatus[m] # "none" <=>
        \E q \in rows : EventAt(q).type = "MemberJoined" /\ EventAt(q).member = m /\ ~Owed(q)
RoundsMatch ==
    \A r \in Member : r \in rounds <=>
        \E q \in rows : EventAt(q).type = "RoundExecuted" /\ EventAt(q).round = r
                          /\ ~RoundOwed(q)
CreditsMatch ==
    /\ \A m \in Member : credited[m] = IF Settled(m) # {} THEN 1 ELSE 0
    /\ \A x \in Indexer : Working(x) /\ todo[x] = <<"update_balance">>
         => readValue[x] = <<credited[EventAt(at[x]).member]>>
JobsMatch == \A x \in Notifier : Up(x) => DOMAIN jobs = Announced(Handled(x))

Matches ==
    NothingYet /\ StatusMatches /\ MembersMatch /\ RoundsMatch /\ CreditsMatch /\ JobsMatch
MatchInv == Undisturbed => Matches

(* The ranges of the variables that no invariant above speaks of.           *)
RoundRead(x) ==
    Working(x) /\ todo[x] = <<"update_round">> =>
        readValue[x] = <<>> \/ \E S \in SUBSET Member : readValue[x] = <<S>>
DerivedInv ==
    /\ kyeStatus \in {"created", "active", "completed", "cancelled"}
    /\ memberStatus \in [Member -> {"none", "active", "paid", "defaulted"}]
    /\ rounds \subseteq Member
    /\ defaulted_members \in [Member -> SUBSET Member]
    /\ \A x \in Indexer : RoundRead(x)
RangeInv ==
    /\ lost \subseteq Positions
    /\ DOMAIN jobs \subseteq Positions \X JobTo
    /\ tracked \in [Indexer -> BOOLEAN]
    /\ \A x \in Indexer : ~InBatch(x) => at[x] = <<0, 0>>
    /\ overlapped \in BOOLEAN

LEMMA EmittedAre ==
    ASSUME NEW type
    PROVE  Emitted(type) = {p \in Positions : EventAt(p).type = type}
BY DEF Emitted, Positions, EventAt

LEMMA StatusRanks ==
    ASSUME NEW e
    PROVE  /\ e.type = "KyeActivated" => StatusRank(e) = 1
           /\ e.type = "KyeCompleted" => StatusRank(e) = 2
           /\ e.type = "KyeCancelled" => StatusRank(e) = 2
BY DEF StatusRank, StatusOf, Rank

(* What the circle can still do says what it has not emitted.               *)
LEMMA ChainStatusSays ==
    /\ ChainStatus = "created" => \A p \in Positions : ~StatusEvent(EventAt(p))
    /\ ChainStatus = "active" => \A p \in Positions :
         StatusEvent(EventAt(p)) => EventAt(p).type = "KyeActivated"
BY EmittedAre DEF ChainStatus, StatusEvent

(* Every position of Defaults is the event of a member that defaulted: the  *)
(* k-th smallest one exists.                                                *)
LEMMA DefaultsAre ==
    ASSUME IndexerAssumption, NEW D \in SUBSET Member, NEW r
    PROVE  /\ Cardinality(D) \in Nat
           /\ Defaults(D, r) \in Seq({Emit("DefaultDetected", m, r) : m \in D})
           /\ Len(Defaults(D, r)) = Cardinality(D)
           /\ \A k \in 1..Cardinality(D) :
                \E m \in D : Defaults(D, r)[k] = Emit("DefaultDetected", m, r)
<1>1. IsFiniteSet(D) /\ D \subseteq Int
  <2>1. IsFiniteSet(Member) /\ Member \subseteq Int
    BY FS_Interval DEF IndexerAssumption, Member
  <2> QED
    BY <2>1, FS_Subset
<1>2. PICK n \in Nat : n = Cardinality(D)
  BY <1>1, FS_CardinalityType
<1> DEFINE upTo(m) == {d \in D : d <= m}
           f == [m \in D |-> Cardinality(upTo(m))]
<1>3. \A m \in D : f[m] \in 1..n
  <2> SUFFICES ASSUME NEW m \in D
               PROVE  Cardinality(upTo(m)) \in 1..n
    OBVIOUS
  <2>1. upTo(m) \subseteq D /\ m \in upTo(m)
    BY <1>1
  <2> HIDE DEF upTo
  <2>2. /\ IsFiniteSet(upTo(m)) /\ Cardinality(upTo(m)) \in Nat
        /\ Cardinality(upTo(m)) <= n /\ Cardinality(upTo(m)) # 0
    BY <1>1, <1>2, <2>1, FS_Subset, FS_CardinalityType, FS_EmptySet
  <2> QED
    BY <2>2
<1>4. \A m, q \in D : m < q => f[m] # f[q]
  <2> SUFFICES ASSUME NEW m \in D, NEW q \in D, m < q, f[m] = f[q]
               PROVE  FALSE
    OBVIOUS
  <2> m \in Int /\ q \in Int
    BY <1>1
  <2>3. \A d \in D : d \in Int /\ (d <= m => d <= q)
    BY <1>1
  <2>4. q <= q /\ ~(q <= m)
    OBVIOUS
  <2>1. /\ upTo(q) \subseteq D /\ upTo(m) \subseteq upTo(q)
        /\ q \in upTo(q) /\ q \notin upTo(m)
    BY <2>3, <2>4
  <2>2. Cardinality(upTo(m)) = Cardinality(upTo(q))
    OBVIOUS
  <2> HIDE DEF upTo
  <2> QED
    BY <1>1, <2>1, <2>2, FS_Subset
<1>5. f \in Injection(D, 1..n)
  <2>1. f \in [D -> 1..n]
    BY <1>3
  <2>2. \A m, q \in D : m # q => m < q \/ q < m
    BY <1>1
  <2>3. \A m, q \in D : f[m] = f[q] => m = q
    <3> HIDE DEF f
    <3> QED
      BY <1>4, <2>2
  <2> HIDE DEF f
  <2> QED
    BY <2>1, <2>3 DEF Injection, IsInjective
<1>6. f \in Surjection(D, 1..n)
  <2>1. IsFiniteSet(1..n) /\ Cardinality(1..n) = n
    BY <1>2, FS_Interval
  <2> HIDE DEF f
  <2> QED
    BY <1>2, <1>5, <2>1, FS_Injection
<1>7. \A k \in 1..n : \E m \in D : Cardinality({d \in D : d <= m}) = k
  <2>1. \A k \in 1..n : \E m \in D : f[m] = k
    <3> HIDE DEF f
    <3> QED
      BY <1>6 DEF Surjection
  <2> QED
    BY <2>1
<1> DEFINE nth == [k \in 1..n |-> CHOOSE m \in D : Cardinality({d \in D : d <= m}) = k]
           E == {Emit("DefaultDetected", m, r) : m \in D}
<1>8. \A k \in 1..n : nth[k] \in D
  BY <1>7
<1>9. Defaults(D, r) = [k \in 1..n |-> Emit("DefaultDetected", nth[k], r)]
  BY <1>2 DEF Defaults
<1>10. \A k \in 1..n : \E m \in D : Defaults(D, r)[k] = Emit("DefaultDetected", m, r)
  <2> HIDE DEF nth
  <2> QED
    BY <1>8, <1>9
<1>11. Defaults(D, r) \in [1..n -> E]
  <2> HIDE DEF nth
  <2> QED
    BY <1>8, <1>9
<1>12. Defaults(D, r) \in Seq(E) /\ Len(Defaults(D, r)) = n
  <2> HIDE DEF E
  <2> QED
    BY <1>2, <1>11
<1> QED
  BY <1>2, <1>10, <1>12

(* What a step of the circle adds to the chain.                             *)
NewTx(t) ==
    /\ TxOK(t) /\ chain' = Append(chain, t)
    /\ \A j \in 1..Len(t) : EventOK(t[j])
    /\ \A i, j \in 1..Len(t) :
         t[i].type = t[j].type /\ t[i].type # "DefaultDetected" => i = j
    /\ \A i, j \in 1..Len(t) : StatusEvent(t[i]) /\ StatusEvent(t[j]) => i = j
    /\ \A j \in 1..Len(t), p \in Positions :
         StatusEvent(t[j]) /\ StatusEvent(EventAt(p))
           => StatusRank(EventAt(p)) < StatusRank(t[j])
    /\ \A j \in 1..Len(t) :
         /\ t[j].type = "PayoutSent" => t[j].member = currentRound
         /\ t[j].type = "RoundExecuted" => t[j].round = currentRound
    /\ (\E j \in 1..Len(t) : t[j].type = "RoundExecuted")
         <=> (\E j \in 1..Len(t) : t[j].type = "PayoutSent")
    /\ (\E j \in 1..Len(t) : t[j].type = "RoundExecuted") =>
         /\ currentRound \in Member
         /\ currentRound = memberCount => \E j \in 1..Len(t) : t[j].type = "KyeCompleted"

LEMMA ConcatIs ==
    ASSUME NEW X, NEW s \in Seq(X), NEW u \in Seq(X)
    PROVE  /\ s \o u \in Seq(X) /\ Len(s \o u) = Len(s) + Len(u)
           /\ \A k \in 1..Len(s) : (s \o u)[k] = s[k]
           /\ \A k \in 1..Len(u) : (s \o u)[Len(s) + k] = u[k]
OBVIOUS

LEMMA JoinTx ==
    ASSUME IndexerAssumption, ChainInv, NEW m \in Member, JoinKye(m)
    PROVE  \E t : NewTx(t)
<1> DEFINE e == Emit("MemberJoined", m, 0)
           a == Emit("KyeActivated", 0, 0)
           t == <<e>> \o (IF Joined \cup {m} = Member THEN <<a>> ELSE <<>>)
<1>1. chain' = Append(chain, t)
  BY DEF JoinKye
<1>2. /\ e.type = "MemberJoined" /\ a.type = "KyeActivated"
      /\ EventOK(e) /\ EventOK(a)
  BY DEF Emit, EventOK, Event, EventType, NOTIFICATION_MATRIX, IndexerAssumption, Member
<1>3. \A p \in Positions : ~StatusEvent(EventAt(p))
  BY ChainStatusSays DEF JoinKye
<1> HIDE DEF e, a
<1>4. /\ Len(t) \in {1, 2} /\ DOMAIN t = 1..Len(t)
      /\ t[1] = e /\ (Len(t) = 2 => t[2] = a)
  <2>1. CASE Joined \cup {m} = Member
    <3>1. Len(<<e>>) = 1 /\ Len(<<a>>) = 1 /\ <<e>>[1] = e /\ <<a>>[1] = a
      OBVIOUS
    <3> DEFINE X == {e, a}
    <3>2. <<e>> \in Seq(X) /\ <<a>> \in Seq(X)
      OBVIOUS
    <3>3. t = <<e>> \o <<a>>
      BY <2>1
    <3> HIDE DEF X, t
    <3>4. /\ Len(t) = 2 /\ t \in Seq(X)
          /\ t[1] = <<e>>[1] /\ t[1 + 1] = <<a>>[1]
      BY <3>1, <3>2, <3>3, ConcatIs
    <3> QED
      BY <3>1, <3>4
  <2>2. CASE Joined \cup {m} # Member
    <3>1. t = <<e>>
      BY <2>2
    <3> QED
      BY <3>1
  <2> QED
    BY <2>1, <2>2
<1> HIDE DEF t
<1>5. \A j \in 1..Len(t) : (j = 1 /\ t[j] = e) \/ (j = 2 /\ t[j] = a)
  BY <1>4
<1>6. TxOK(t)
  BY <1>2, <1>4, <1>5 DEF TxOK, EventType, NOTIFICATION_MATRIX
<1>7. NewTx(t)
  BY <1>1, <1>2, <1>3, <1>5, <1>6 DEF NewTx, StatusEvent
<1> QED
  BY <1>7

LEMMA CancelTx ==
    ASSUME IndexerAssumption, ChainInv, EmergencyCancel
    PROVE  \E t : NewTx(t)
<1> DEFINE e == Emit("KyeCancelled", 0, 0)
           t == <<e>>
<1>1. chain' = Append(chain, t)
  BY DEF EmergencyCancel
<1>2. e.type = "KyeCancelled" /\ EventOK(e)
  BY DEF Emit, EventOK, Event, EventType, NOTIFICATION_MATRIX, IndexerAssumption, Member
<1>3. \A p \in Positions : StatusEvent(EventAt(p)) => StatusRank(EventAt(p)) = 1
  BY ChainStatusSays, StatusRanks DEF EmergencyCancel
<1>4. StatusRank(e) = 2
  BY <1>2, StatusRanks
<1> HIDE DEF e
<1>5. Len(t) = 1 /\ DOMAIN t = 1..1 /\ t[1] = e
  OBVIOUS
<1> HIDE DEF t
<1>6. \A j \in 1..Len(t) : j = 1 /\ t[j] = e
  BY <1>5
<1>7. TxOK(t)
  BY <1>2, <1>5 DEF TxOK, EventType, NOTIFICATION_MATRIX
<1>8. NewTx(t)
  BY <1>1, <1>2, <1>3, <1>4, <1>6, <1>7 DEF NewTx, StatusEvent
<1> QED
  BY <1>8

LEMMA RoundRange ==
    ASSUME IndexerAssumption, EmittedInv, ChainStatus = "active"
    PROVE  currentRound \in Member
<1>1. Emitted("KyeCompleted") = {}
  BY DEF ChainStatus
<1>2. PICK n : n = Cardinality(Emitted("RoundExecuted"))
  OBVIOUS
<1>3. n \in 0..memberCount /\ n # memberCount
  BY <1>1, <1>2 DEF EmittedInv, RoundsInOrder
<1>4. currentRound = n + 1
  BY <1>2 DEF currentRound
<1> QED
  BY <1>3, <1>4 DEF Member, IndexerAssumption

LEMMA RoundTx ==
    ASSUME IndexerAssumption, ChainInv, EmittedInv, NEW D \in Defaulters, ExecuteRound(D)
    PROVE  \E t : NewTx(t)
<1> DEFINE r == currentRound
           u == IF policyCancels /\ D # {} THEN <<Emit("KyeCancelled", 0, 0)>>
                ELSE <<Emit("PayoutSent", r, 0), Emit("RoundExecuted", r, r)>>
                       \o (IF r = memberCount THEN <<Emit("KyeCompleted", 0, 0)>> ELSE <<>>)
           w == Defaults(D, r)
           t == w \o u
<1>1. chain' = Append(chain, t) /\ ChainStatus = "active"
  BY DEF ExecuteRound
<1>2. r \in Member
  BY <1>1, RoundRange
<1>3. \A p \in Positions : StatusEvent(EventAt(p)) => StatusRank(EventAt(p)) = 1
  BY <1>1, ChainStatusSays, StatusRanks
<1> HIDE DEF r
<1>5. D \in SUBSET Member
  BY DEF IndexerAssumption
<1>6. PICK d \in Nat : d = Cardinality(D)
  BY <1>5, DefaultsAre
<1> DEFINE E == {Emit("DefaultDetected", m, r) : m \in D}
<1>7. /\ w \in Seq(E) /\ Len(w) = d
      /\ \A k \in 1..d : \E m \in D : w[k] = Emit("DefaultDetected", m, r)
  BY <1>5, <1>6, DefaultsAre
<1>8. \A k \in 1..d : EventOK(w[k]) /\ w[k].type = "DefaultDetected"
  BY <1>2, <1>5, <1>7
     DEF Emit, EventOK, Event, EventType, NOTIFICATION_MATRIX, IndexerAssumption, Member
<1> DEFINE c == Emit("KyeCancelled", 0, 0)
           f == Emit("KyeCompleted", 0, 0)
           p1 == Emit("PayoutSent", r, 0)
           p2 == Emit("RoundExecuted", r, r)
<1>9. /\ c.type = "KyeCancelled" /\ EventOK(c) /\ f.type = "KyeCompleted" /\ EventOK(f)
      /\ p1.type = "PayoutSent" /\ p1.member = r /\ EventOK(p1)
      /\ p2.type = "RoundExecuted" /\ p2.round = r /\ EventOK(p2)
  BY <1>2 DEF Emit, EventOK, Event, EventType, NOTIFICATION_MATRIX, IndexerAssumption, Member
<1>10. u = IF policyCancels /\ D # {} THEN <<c>>
           ELSE <<p1, p2>> \o (IF r = memberCount THEN <<f>> ELSE <<>>)
  OBVIOUS
<1> DEFINE X == {c, f, p1, p2}
<1>12. /\ u \in Seq(X)
       /\ \/ /\ Len(u) = 1 /\ u[1] = c
          \/ /\ Len(u) = 2 /\ u[1] = p1 /\ u[2] = p2 /\ r # memberCount
          \/ /\ Len(u) = 3 /\ u[1] = p1 /\ u[2] = p2 /\ u[3] = f
  <2> HIDE DEF u, w, c, f, p1, p2
  <2>1. /\ <<c>> \in Seq(X) /\ <<p1, p2>> \in Seq(X) /\ <<f>> \in Seq(X) /\ <<>> \in Seq(X)
    OBVIOUS
  <2>2. /\ Len(<<c>>) = 1 /\ <<c>>[1] = c /\ Len(<<f>>) = 1 /\ <<f>>[1] = f
        /\ Len(<<p1, p2>>) = 2 /\ <<p1, p2>>[1] = p1 /\ <<p1, p2>>[2] = p2
        /\ Len(<<>>) = 0
    OBVIOUS
  <2> HIDE DEF X
  <2>3. CASE policyCancels /\ D # {}
    BY <1>10, <2>1, <2>2, <2>3
  <2>4. CASE ~(policyCancels /\ D # {}) /\ r = memberCount
    <3>1. u = <<p1, p2>> \o <<f>>
      BY <1>10, <2>4
    <3>2. /\ u \in Seq(X) /\ Len(u) = 3
          /\ u[1] = <<p1, p2>>[1] /\ u[2] = <<p1, p2>>[2] /\ u[2 + 1] = <<f>>[1]
      BY <2>1, <2>2, <3>1, ConcatIs
    <3> QED
      BY <2>2, <3>2
  <2>5. CASE ~(policyCancels /\ D # {}) /\ r # memberCount
    <3>1. u = <<p1, p2>> \o <<>>
      BY <1>10, <2>5
    <3>2. /\ u \in Seq(X) /\ Len(u) = 2
          /\ u[1] = <<p1, p2>>[1] /\ u[2] = <<p1, p2>>[2]
      BY <2>1, <2>2, <3>1, ConcatIs
    <3> QED
      BY <2>2, <2>5, <3>2
  <2> QED
    BY <2>3, <2>4, <2>5
<1> HIDE DEF u, w, c, f, p1, p2
<1>11. \/ /\ Len(u) = 1 /\ u[1] = c
       \/ /\ Len(u) = 2 /\ u[1] = p1 /\ u[2] = p2 /\ r # memberCount
       \/ /\ Len(u) = 3 /\ u[1] = p1 /\ u[2] = p2 /\ u[3] = f
  BY <1>12
<1>13. /\ Len(t) = d + Len(u) /\ DOMAIN t = 1..Len(t)
       /\ \A k \in 1..d : t[k] = w[k]
       /\ \A k \in 1..Len(u) : t[d + k] = u[k]
  <2> DEFINE Y == E \cup X
  <2>1. w \in Seq(Y) /\ u \in Seq(Y)
    <3> HIDE DEF E, X
    <3> QED
      BY <1>7, <1>12
  <2> HIDE DEF Y
  <2> QED
    BY <1>7, <2>1
<1> HIDE DEF t, E, X
<1>14. \A j \in 1..Len(t) :
         \/ /\ j \in 1..d /\ EventOK(t[j]) /\ t[j].type = "DefaultDetected"
         \/ /\ j = d + 1 /\ Len(t) = d + 1 /\ t[j] = c
         \/ /\ j = d + 1 /\ Len(t) > d + 1 /\ t[j] = p1
         \/ /\ j = d + 2 /\ t[j] = p2
         \/ /\ j = d + 3 /\ t[j] = f
  <2> SUFFICES ASSUME NEW j \in 1..Len(t), j \notin 1..d
               PROVE  \/ /\ j = d + 1 /\ Len(t) = d + 1 /\ t[j] = c
                      \/ /\ j = d + 1 /\ Len(t) > d + 1 /\ t[j] = p1
                      \/ /\ j = d + 2 /\ t[j] = p2
                      \/ /\ j = d + 3 /\ t[j] = f
    BY <1>8, <1>13
  <2>1. PICK k \in 1..Len(u) : j = d + k
    <3>1. Len(u) \in Nat /\ j \in Int /\ j >= 1 /\ j <= d + Len(u) /\ ~(j <= d)
      BY <1>11, <1>13
    <3>2. j - d \in 1..Len(u) /\ j = d + (j - d)
      BY <3>1
    <3> QED
      BY <3>2
  <2>2. t[j] = u[k]
    BY <1>13, <2>1
  <2> QED
    BY <1>11, <1>13, <2>1, <2>2
<1>15. TxOK(t)
  <2>1. Len(t) \in Nat \ {0}
    BY <1>11, <1>13
  <2> QED
    BY <1>9, <1>13, <1>14, <2>1 DEF TxOK, EventType, NOTIFICATION_MATRIX
<1>16. StatusRank(c) = 2 /\ StatusRank(f) = 2
  BY <1>9, StatusRanks
<1>17. \A j \in 1..Len(t) : EventOK(t[j])
  BY <1>9, <1>14
<1>18. \A i, j \in 1..Len(t) :
         t[i].type = t[j].type /\ t[i].type # "DefaultDetected" => i = j
  BY <1>9, <1>14
<1>19. /\ \A j \in 1..Len(t) : StatusEvent(t[j]) =>
             \/ j = d + 1 /\ Len(t) = d + 1 /\ t[j] = c
             \/ j = d + 3 /\ t[j] = f
       /\ \A i, j \in 1..Len(t) : StatusEvent(t[i]) /\ StatusEvent(t[j]) => i = j
  BY <1>9, <1>14 DEF StatusEvent
<1>20. \A j \in 1..Len(t), p \in Positions :
         StatusEvent(t[j]) /\ StatusEvent(EventAt(p))
           => StatusRank(EventAt(p)) < StatusRank(t[j])
  BY <1>3, <1>16, <1>19
<1>21. \A j \in 1..Len(t) :
         /\ t[j].type = "PayoutSent" => t[j].member = r /\ Len(t) > d + 1
         /\ t[j].type = "RoundExecuted" => t[j].round = r /\ j = d + 2
  BY <1>9, <1>14
<1>22. Len(t) > d + 1 =>
         /\ d + 1 \in 1..Len(t) /\ t[d + 1].type = "PayoutSent"
         /\ d + 2 \in 1..Len(t) /\ t[d + 2].type = "RoundExecuted"
         /\ r = memberCount => d + 3 \in 1..Len(t) /\ t[d + 3].type = "KyeCompleted"
  BY <1>9, <1>11, <1>13
<1>23. \A j \in 1..Len(t) : t[j].type = "RoundExecuted" => Len(t) > d + 1
  BY <1>21
<1>24. /\ (\E j \in 1..Len(t) : t[j].type = "RoundExecuted")
            <=> (\E j \in 1..Len(t) : t[j].type = "PayoutSent")
       /\ (\E j \in 1..Len(t) : t[j].type = "RoundExecuted") =>
            /\ r \in Member
            /\ r = memberCount => \E j \in 1..Len(t) : t[j].type = "KyeCompleted"
  BY <1>2, <1>21, <1>22, <1>23
<1>25. r = currentRound
  BY DEF r
<1>26. NewTx(t)
  BY <1>1, <1>15, <1>17, <1>18, <1>19, <1>20, <1>21, <1>24, <1>25 DEF NewTx, t
<1> QED
  BY <1>26

LEMMA ChainTx ==
    ASSUME IndexerAssumption, ChainInv, EmittedInv, Chain
    PROVE  \E t : NewTx(t)
BY JoinTx, RoundTx, CancelTx DEF Chain

(* Old positions keep their event, the new ones hold the transaction.       *)
LEMMA Appended ==
    ASSUME ChainInv, NEW t, NewTx(t)
    PROVE  \E L \in Nat :
             /\ Positions' = Positions \cup {<<L + 1, j>> : j \in 1..Len(t)}
             /\ \A p \in Positions : EventAt(p)' = EventAt(p)
                                     /\ p[1] \in Nat /\ p[2] \in Nat /\ p[1] < L + 1
             /\ \A j \in 1..Len(t) : EventAt(<<L + 1, j>>)' = t[j]
<1>1. TxOK(t) /\ chain' = Append(chain, t)
  BY DEF NewTx
<1>2. PICK L \in Nat : L = Len(chain)
  BY ChainLength
<1>3. /\ ChainInv' /\ Len(chain') = L + 1
      /\ \A n \in 1..L : chain'[n] = chain[n]
  BY <1>1, <1>2, AppendTx
<1>4. chain'[L + 1] = t
  BY <1>1, <1>2 DEF ChainInv
<1>5. DOMAIN chain = 1..L /\ DOMAIN chain' = 1..(L + 1)
  BY <1>2, <1>3 DEF ChainInv
<1>6. \A n \in 1..L : DOMAIN chain'[n] = DOMAIN chain[n]
  BY <1>3
<1>7. DOMAIN chain'[L + 1] = 1..Len(t)
  BY <1>1, <1>4 DEF TxOK
<1>8. Positions' = Positions \cup {<<L + 1, j>> : j \in 1..Len(t)}
  <2>1. \A n \in 1..(L + 1) : n \in 1..L \/ n = L + 1
    OBVIOUS
  <2> QED
    BY <1>5, <1>6, <1>7, <2>1 DEF Positions
<1>9. \A p \in Positions : p[1] \in 1..L /\ p[2] \in Nat /\ EventAt(p)' = EventAt(p)
  <2> SUFFICES ASSUME NEW p \in Positions
               PROVE  p[1] \in 1..L /\ p[2] \in Nat /\ EventAt(p)' = EventAt(p)
    OBVIOUS
  <2>1. p[1] \in 1..L /\ p[2] \in 1..Len(chain[p[1]])
    BY <1>2, PositionFacts
  <2>2. Len(chain[p[1]]) \in Nat
    BY <1>2, <2>1, ChainLength DEF TxOK
  <2> QED
    BY <1>3, <2>1, <2>2 DEF EventAt
<1>10. \A j \in 1..Len(t) : EventAt(<<L + 1, j>>)' = t[j]
  BY <1>4 DEF EventAt
<1>11. \A p \in Positions : EventAt(p)' = EventAt(p)
                            /\ p[1] \in Nat /\ p[2] \in Nat /\ p[1] < L + 1
  BY <1>9
<1> QED
  BY <1>8, <1>10, <1>11

LEMMA OrderKept ==
    ASSUME ChainInv, OrderOfEvents, NEW t, NewTx(t)
    PROVE  OrderOfEvents'
<1>1. PICK L \in Nat :
         /\ Positions' = Positions \cup {<<L + 1, j>> : j \in 1..Len(t)}
         /\ \A p \in Positions : EventAt(p)' = EventAt(p)
                                 /\ p[1] \in Nat /\ p[2] \in Nat /\ p[1] < L + 1
         /\ \A j \in 1..Len(t) : EventAt(<<L + 1, j>>)' = t[j]
  BY Appended
<1> DEFINE New == {<<L + 1, j>> : j \in 1..Len(t)}
<1>2. /\ Positions' = Positions \cup New
      /\ \A p \in Positions : EventAt(p)' = EventAt(p)
                              /\ p[1] \in Nat /\ p[2] \in Nat /\ p[1] < L + 1
      /\ \A j \in 1..Len(t) : EventAt(<<L + 1, j>>)' = t[j]
  BY <1>1
<1>3. \A p \in New : \E j \in 1..Len(t) : p = <<L + 1, j>> /\ p[1] = L + 1 /\ p[2] = j
                        /\ EventAt(p)' = t[j]
  BY <1>2
<1> HIDE DEF New
<1>4. \A p \in Positions' : EventOK(EventAt(p))'
  <2>1. \A p \in Positions : EventOK(EventAt(p)')
    BY <1>2 DEF OrderOfEvents
  <2>2. \A p \in New : EventOK(EventAt(p)')
    BY <1>3 DEF NewTx
  <2>3. \A p \in Positions' : EventOK(EventAt(p)')
    BY <1>2, <2>1, <2>2
  <2> QED
    BY <2>3 DEF EventOK, Event
<1>5. ASSUME NEW p \in Positions', NEW q \in Positions',
             Key(p)' = Key(q)', EventAt(p)'.type # "DefaultDetected"
      PROVE  p = q
  <2>1. p[1] = q[1] /\ EventAt(p)'.type = EventAt(q)'.type
    BY <1>5 DEF Key
  <2>2. CASE p \in Positions /\ q \in Positions
    <3>1. Key(p) = Key(q) /\ EventAt(p).type # "DefaultDetected"
      BY <1>2, <1>5, <2>1, <2>2 DEF Key
    <3> QED
      BY <2>2, <3>1 DEF OrderOfEvents
  <2>3. CASE p \in New /\ q \in New
    <3>1. PICK i \in 1..Len(t) : p = <<L + 1, i>> /\ EventAt(p)' = t[i]
      BY <1>3, <2>3
    <3>2. PICK j \in 1..Len(t) : q = <<L + 1, j>> /\ EventAt(q)' = t[j]
      BY <1>3, <2>3
    <3>3. i = j
      BY <1>5, <2>1, <3>1, <3>2 DEF NewTx
    <3> QED
      BY <3>1, <3>2, <3>3
  <2>4. ASSUME NEW a \in Positions, NEW b \in New PROVE a[1] # b[1]
    BY <1>2, <1>3, <2>4
  <2> QED
    BY <1>2, <2>1, <2>2, <2>3, <2>4
<1>6. ASSUME NEW p \in Positions', NEW q \in Positions',
             StatusEvent(EventAt(p)'), StatusEvent(EventAt(q)'), Before(p, q)
      PROVE  StatusRank(EventAt(p)') < StatusRank(EventAt(q)')
  <2>1. CASE p \in Positions /\ q \in Positions
    <3>1. EventAt(p)' = EventAt(p) /\ EventAt(q)' = EventAt(q)
      BY <1>2, <2>1
    <3>2. StatusRank(EventAt(p)) < StatusRank(EventAt(q))
      BY <1>6, <2>1, <3>1 DEF OrderOfEvents
    <3> QED
      BY <3>1, <3>2
  <2>2. CASE p \in Positions /\ q \in New
    <3>1. PICK j \in 1..Len(t) : EventAt(q)' = t[j]
      BY <1>3, <2>2
    <3>2. EventAt(p)' = EventAt(p)
      BY <1>2, <2>2
    <3>3. StatusRank(EventAt(p)) < StatusRank(t[j])
      BY <1>6, <2>2, <3>1, <3>2 DEF NewTx
    <3> QED
      BY <3>1, <3>2, <3>3
  <2>3. CASE p \in New
    <3>1. PICK i \in 1..Len(t) : p = <<L + 1, i>> /\ p[1] = L + 1 /\ p[2] = i /\ EventAt(p)' = t[i]
      BY <1>3, <2>3
    <3>2. CASE q \in Positions
      <4>1. q[1] \in Nat /\ q[1] < L + 1
        BY <1>2, <3>2
      <4> QED
        BY <1>6, <3>1, <4>1 DEF Before
    <3>3. CASE q \in New
      <4>1. PICK j \in 1..Len(t) : q = <<L + 1, j>> /\ q[1] = L + 1 /\ q[2] = j /\ EventAt(q)' = t[j]
        BY <1>3, <3>3
      <4>2. i = j
        BY <1>6, <3>1, <4>1 DEF NewTx
      <4> QED
        BY <1>6, <3>1, <4>1, <4>2 DEF Before
    <3> QED
      BY <1>2, <3>2, <3>3
  <2> QED
    BY <1>2, <2>1, <2>2, <2>3
<1>7. \A p, q \in Positions' :
        StatusEvent(EventAt(p))' /\ StatusEvent(EventAt(q))' /\ Before(p, q)'
          => StatusRank(EventAt(p))' < StatusRank(EventAt(q))'
  BY <1>6 DEF StatusEvent, StatusRank, Before
<1> QED
  BY <1>4, <1>5, <1>7 DEF OrderOfEvents

LEMMA RoundsKept ==
    ASSUME IndexerAssumption, ChainInv, EmittedInv, NEW t, NewTx(t)
    PROVE  RoundsInOrder'
<1>1. PICK L \in Nat :
         /\ Positions' = Positions \cup {<<L + 1, j>> : j \in 1..Len(t)}
         /\ \A p \in Positions : EventAt(p)' = EventAt(p)
                                 /\ p[1] \in Nat /\ p[2] \in Nat /\ p[1] < L + 1
         /\ \A j \in 1..Len(t) : EventAt(<<L + 1, j>>)' = t[j]
  BY Appended
<1> DEFINE R == Emitted("RoundExecuted")
           P == Emitted("PayoutSent")
           C == Emitted("KyeCompleted")
           Of(type) == {<<L + 1, j>> : j \in {i \in 1..Len(t) : t[i].type = type}}
<1>2. /\ Positions' = Positions \cup {<<L + 1, j>> : j \in 1..Len(t)}
      /\ \A p \in Positions : EventAt(p)' = EventAt(p)
                              /\ p[1] \in Nat /\ p[2] \in Nat /\ p[1] < L + 1
      /\ \A j \in 1..Len(t) : EventAt(<<L + 1, j>>)' = t[j]
  BY <1>1
<1>3. ASSUME NEW type
      PROVE  /\ Emitted(type)' = Emitted(type) \cup Of(type)
             /\ \A p \in Emitted(type) : EventAt(p)' = EventAt(p) /\ p \in Positions
                                         /\ p \notin Of(type)
  <2>1. Emitted(type) = {p \in Positions : EventAt(p).type = type}
    BY EmittedAre
  <2>2. Emitted(type)' = {p \in Positions' : EventAt(p)'.type = type}
    BY DEF Emitted, Positions, EventAt
  <2>3. \A p \in Of(type) : p[1] = L + 1
    OBVIOUS
  <2>4. \A p \in Positions' : EventAt(p)'.type = type <=> p \in Emitted(type) \/ p \in Of(type)
    <3>1. \A p \in Positions : EventAt(p)'.type = type <=> p \in Emitted(type)
      BY <1>2, <2>1
    <3>2. \A p \in Positions : p \notin Of(type)
      BY <1>2, <2>3
    <3>3. \A j \in 1..Len(t) : EventAt(<<L + 1, j>>)'.type = type <=> <<L + 1, j>> \in Of(type)
      BY <1>2
    <3>4. \A j \in 1..Len(t) : <<L + 1, j>> \notin Emitted(type)
      <4>1. \A j : <<L + 1, j>>[1] = L + 1
        OBVIOUS
      <4> QED
        BY <1>2, <2>1, <4>1
    <3> QED
      BY <1>2, <3>1, <3>2, <3>3, <3>4
  <2>5. Of(type) \subseteq Positions'
    BY <1>2
  <2>6. Emitted(type) \subseteq Positions'
    BY <1>2, <2>1
  <2>7. \A p \in Positions : p \notin Of(type)
    BY <1>2, <2>3
  <2> QED
    BY <1>2, <2>1, <2>2, <2>4, <2>5, <2>6, <2>7
<1>4. /\ R' = R \cup Of("RoundExecuted") /\ P' = P \cup Of("PayoutSent")
      /\ C \subseteq C' /\ C' = C \cup Of("KyeCompleted")
      /\ \A p \in R : EventAt(p)' = EventAt(p) /\ p \notin Of("RoundExecuted")
      /\ \A p \in P : EventAt(p)' = EventAt(p) /\ p \notin Of("PayoutSent")
  BY <1>3
<1>5. PICK n : n = Cardinality(R)
  OBVIOUS
<1>6. /\ IsFiniteSet(R) /\ n \in 0..memberCount /\ currentRound = n + 1
      /\ n = memberCount => C # {}
      /\ \A p \in R : EventAt(p).round < n + 1
      /\ \A p \in P : EventAt(p).member < n + 1
      /\ \A p, q \in P : EventAt(p).member = EventAt(q).member => p = q
      /\ {EventAt(p).round : p \in R} = {EventAt(p).member : p \in P}
  BY <1>5 DEF EmittedInv, RoundsInOrder, currentRound
<1>7. CASE ~\E j \in 1..Len(t) : t[j].type = "RoundExecuted"
  <2>1. Of("RoundExecuted") = {} /\ Of("PayoutSent") = {}
    BY <1>7 DEF NewTx
  <2>2. R' = R /\ P' = P
    BY <1>4, <2>1
  <2>3. currentRound' = n + 1 /\ Cardinality(R)' = n
    BY <1>5, <2>2 DEF currentRound
  <2>4. {EventAt(p)'.round : p \in R} = {EventAt(p).round : p \in R}
        /\ {EventAt(p)'.member : p \in P} = {EventAt(p).member : p \in P}
    BY <1>4
  <2>5. /\ \A p \in R : EventAt(p)'.round < n + 1
        /\ \A p \in P : EventAt(p)'.member < n + 1
        /\ \A p, q \in P : EventAt(p)'.member = EventAt(q)'.member => p = q
        /\ n = memberCount => C' # {}
    BY <1>4, <1>6
  <2> HIDE DEF R, P, C
  <2> QED
    BY <1>4, <1>6, <2>2, <2>3, <2>4, <2>5 DEF RoundsInOrder, R, P, C
<1>8. CASE \E j \in 1..Len(t) : t[j].type = "RoundExecuted"
  <2>1. PICK j \in 1..Len(t) : t[j].type = "RoundExecuted" /\ t[j].round = n + 1
    BY <1>6, <1>8 DEF NewTx
  <2>2. PICK k \in 1..Len(t) : t[k].type = "PayoutSent" /\ t[k].member = n + 1
    BY <1>6, <1>8 DEF NewTx
  <2> DEFINE pr == <<L + 1, j>>
             pp == <<L + 1, k>>
  <2>3. Of("RoundExecuted") = {pr} /\ Of("PayoutSent") = {pp}
    BY <2>1, <2>2 DEF NewTx
  <2>4. R' = R \cup {pr} /\ pr \notin R /\ P' = P \cup {pp} /\ pp \notin P
    BY <1>4, <2>3
  <2>5. EventAt(pr)' = t[j] /\ EventAt(pp)' = t[k]
    BY <1>2
  <2> HIDE DEF pr, pp, Of
  <2>6. Cardinality(R') = n + 1 /\ IsFiniteSet(R')
    BY <1>5, <1>6, <2>4, FS_AddElement
  <2>7. currentRound' = n + 2
    BY <1>6, <2>6 DEF currentRound
  <2>8. n + 1 \in Member /\ (n + 1 = memberCount => \E i \in 1..Len(t) : t[i].type = "KyeCompleted")
    BY <1>6, <1>8 DEF NewTx
  <2>9. n + 1 = memberCount => C' # {}
    <3>1. (\E i \in 1..Len(t) : t[i].type = "KyeCompleted") => Of("KyeCompleted") # {}
      BY DEF Of
    <3> QED
      BY <1>4, <2>8, <3>1
  <2>10. n \in Nat /\ n + 1 \in 0..memberCount /\ n + 1 # n + 2 /\ n + 1 < n + 2
    BY <1>6, <2>8 DEF Member, IndexerAssumption
  <2>11. /\ \A p \in P : EventAt(p)' = EventAt(p) /\ EventAt(p).member # n + 1
         /\ \A p \in R : EventAt(p)' = EventAt(p)
    BY <1>4, <1>6, <2>10
  <2>12. \A p \in R' : EventAt(p)'.round < n + 2
    <3>1. \A p \in R : EventAt(p).round \in Int
      BY EmittedAre DEF EmittedInv, OrderOfEvents, EventOK, Event
    <3>2. \A p \in R : EventAt(p).round < n + 2
      BY <1>6, <2>10, <3>1
    <3> QED
      BY <2>1, <2>4, <2>5, <2>10, <2>11, <3>2
  <2>13. \A p \in P' : EventAt(p)'.member < n + 2
    <3>1. \A p \in P : EventAt(p).member \in Int
      BY EmittedAre DEF EmittedInv, OrderOfEvents, EventOK, Event
    <3>2. \A p \in P : EventAt(p).member < n + 2
      BY <1>6, <2>10, <3>1
    <3> QED
      BY <2>2, <2>4, <2>5, <2>10, <2>11, <3>2
  <2>14. \A p, q \in P' : EventAt(p)'.member = EventAt(q)'.member => p = q
    BY <1>6, <2>2, <2>4, <2>5, <2>11
  <2>15. {EventAt(p)'.round : p \in R'} = {EventAt(p)'.member : p \in P'}
    <3>1. {EventAt(p)'.round : p \in R'} = {EventAt(p).round : p \in R} \cup {n + 1}
      BY <2>1, <2>4, <2>5, <2>11
    <3>2. {EventAt(p)'.member : p \in P'} = {EventAt(p).member : p \in P} \cup {n + 1}
      BY <2>2, <2>4, <2>5, <2>11
    <3> QED
      BY <1>6, <3>1, <3>2
  <2> HIDE DEF R, P, C
  <2> QED
    BY <2>6, <2>7, <2>9, <2>10, <2>12, <2>13, <2>14, <2>15 DEF RoundsInOrder, R, P, C
<1> QED
  BY <1>7, <1>8

LEMMA EmittedStep ==
    IndexerAssumption /\ ChainInv /\ EmittedInv /\ [Next]_vars => EmittedInv'
<1> SUFFICES ASSUME IndexerAssumption, ChainInv, EmittedInv, [Next]_vars
             PROVE  EmittedInv'
  OBVIOUS
<1>1. CASE Chain
  BY <1>1, ChainTx, OrderKept, RoundsKept DEF EmittedInv
<1>2. CASE chain' = chain
  <2>1. Positions' = Positions /\ \A p : EventAt(p)' = EventAt(p)
    BY <1>2 DEF Positions, EventAt
  <2>2. OrderOfEvents'
    BY <2>1 DEF EmittedInv, OrderOfEvents, EventOK, Event, Key, StatusEvent, StatusRank, Before
  <2>3. \A type : Emitted(type)' = Emitted(type)
    BY <1>2 DEF Emitted
  <2>4. RoundsInOrder'
    BY <2>1, <2>3 DEF EmittedInv, RoundsInOrder, currentRound
  <2> QED
    BY <2>2, <2>4 DEF EmittedInv
<1>3. Chain \/ chain' = chain
  BY DEF Next, vars, Start, Crash, Fetch, Work, SaveCursor, InsertFails, StatementFails,
         InsertEvent, SkipDuplicate, InsertMember, UpdateStatus, UpsertRound, SetMember,
         SelectRound, UpdateRound, SelectBalance, UpdateBalance, EnqueueNotifications, Statement
<1> QED
  BY <1>1, <1>2, <1>3

LEMMA InitEmitted == Init => EmittedInv
<1> SUFFICES ASSUME Init
             PROVE  EmittedInv
  OBVIOUS
<1>1. Positions = {}
  BY DEF Init, Positions
<1>2. \A type : Emitted(type) = {}
  BY <1>1, EmittedAre
<1>3. RoundsInOrder
  <2>1. memberCount \in Nat \ {0}
    BY IndexerAssumption DEF IndexerAssumption
  <2>2. IsFiniteSet({}) /\ Cardinality({}) = 0
    BY FS_EmptySet
  <2> QED
    BY <1>2, <2>1, <2>2 DEF RoundsInOrder
<1> QED
  BY <1>1, <1>3 DEF EmittedInv, OrderOfEvents

-----------------------------------------------------------------------------
(* What is left to do for an event says which statement comes next.         *)
LEMMA RemainingHead ==
    ASSUME NEW type \in EventType, NEW s \in Remaining[type], s # <<>>
    PROVE  /\ Tail(s) \in Remaining[type]
           /\ Head(s) = "insert_member" => type = "MemberJoined" /\ Tail(s) = <<>>
           /\ Head(s) = "update_status" =>
                type \in {"KyeActivated", "KyeCompleted", "KyeCancelled"} /\ Tail(s) = <<>>
           /\ Head(s) = "upsert_round" =>
                /\ type = "RoundExecuted" /\ s = <<"upsert_round", "set_paid">>
                /\ Tail(s) = <<"set_paid">>
           /\ Head(s) = "set_paid" => type = "RoundExecuted" /\ Tail(s) = <<>>
           /\ Head(s) = "select_balance" =>
                type = "PayoutSent" /\ Tail(s) = <<"update_balance">>
           /\ Head(s) = "update_balance" =>
                type = "PayoutSent" /\ s = <<"update_balance">> /\ Tail(s) = <<>>
           /\ Head(s) = "set_defaulted" =>
                type = "DefaultDetected" /\ Tail(s) = <<"select_round", "update_round">>
           /\ Head(s) = "select_round" =>
                type = "DefaultDetected" /\ Tail(s) = <<"update_round">>
           /\ Head(s) = "update_round" =>
                type = "DefaultDetected" /\ s = <<"update_round">> /\ Tail(s) = <<>>
<1>1. /\ Head(<<"insert_member">>) = "insert_member" /\ Tail(<<"insert_member">>) = <<>>
      /\ Head(<<"update_status">>) = "update_status" /\ Tail(<<"update_status">>) = <<>>
      /\ Head(<<"set_paid">>) = "set_paid" /\ Tail(<<"set_paid">>) = <<>>
  OBVIOUS
<1>2. /\ Head(<<"update_balance">>) = "update_balance" /\ Tail(<<"update_balance">>) = <<>>
      /\ Head(<<"update_round">>) = "update_round" /\ Tail(<<"update_round">>) = <<>>
  OBVIOUS
<1>3. /\ Head(<<"upsert_round", "set_paid">>) = "upsert_round"
      /\ Tail(<<"upsert_round", "set_paid">>) = <<"set_paid">>
  OBVIOUS
<1>4. /\ Head(<<"select_balance", "update_balance">>) = "select_balance"
      /\ Tail(<<"select_balance", "update_balance">>) = <<"update_balance">>
  OBVIOUS
<1>5. /\ Head(<<"select_round", "update_round">>) = "select_round"
      /\ Tail(<<"select_round", "update_round">>) = <<"update_round">>
  OBVIOUS
<1>6. /\ Head(<<"set_defaulted", "select_round", "update_round">>) = "set_defaulted"
      /\ Tail(<<"set_defaulted", "select_round", "update_round">>)
           = <<"select_round", "update_round">>
  OBVIOUS
<1>7. CASE type = "MemberJoined"
  <2>1. s = <<"insert_member">>
    BY <1>7 DEF Remaining
  <2> QED
    BY <1>1, <1>7, <2>1 DEF Remaining
<1>8. CASE type \in {"KyeActivated", "KyeCompleted", "KyeCancelled"}
  <2>1. s = <<"update_status">>
    BY <1>8 DEF Remaining
  <2>2. <<>> \in Remaining[type]
    BY <1>8 DEF Remaining
  <2> QED
    BY <1>1, <1>8, <2>1, <2>2
<1>9. CASE type = "RoundExecuted"
  <2>1. s \in {<<"upsert_round", "set_paid">>, <<"set_paid">>}
    BY <1>9 DEF Remaining
  <2>2. <<>> \in Remaining[type] /\ <<"set_paid">> \in Remaining[type]
    BY <1>9 DEF Remaining
  <2> QED
    BY <1>1, <1>3, <1>9, <2>1, <2>2
<1>10. CASE type = "PayoutSent"
  <2>1. s \in {<<"select_balance", "update_balance">>, <<"update_balance">>}
    BY <1>10 DEF Remaining, PayoutTodo
  <2>2. <<>> \in Remaining[type] /\ <<"update_balance">> \in Remaining[type]
    BY <1>10 DEF Remaining, PayoutTodo
  <2> QED
    BY <1>2, <1>4, <1>10, <2>1, <2>2
<1>11. CASE type = "DefaultDetected"
  <2>1. s \in {<<"set_defaulted", "select_round", "update_round">>,
               <<"select_round", "update_round">>, <<"update_round">>}
    BY <1>11 DEF Remaining
  <2>2. /\ <<>> \in Remaining[type] /\ <<"update_round">> \in Remaining[type]
        /\ <<"select_round", "update_round">> \in Remaining[type]
    BY <1>11 DEF Remaining
  <2> QED
    BY <1>2, <1>5, <1>6, <1>11, <2>1, <2>2
<1> QED
  BY <1>7, <1>8, <1>9, <1>10, <1>11 DEF EventType, NOTIFICATION_MATRIX

(* The inductive invariants so far, which the rest builds on.               *)
BaseInv == IInv /\ CInv /\ CreditInv /\ EmittedInv

LEMMA WorkersEvent ==
    ASSUME BaseInv, NEW x \in Indexer, Working(x)
    PROVE  /\ at[x] \in rows /\ at[x] \in Positions /\ rows \subseteq Positions
           /\ EventOK(EventAt(at[x])) /\ EventAt(at[x]).type \in EventType
           /\ \A y \in Indexer : Working(y) /\ at[y] = at[x] => y = x
BY DEF BaseInv, IInv, OneWorker, CInv, BoundInv, EmittedInv, OrderOfEvents, EventOK, Event

(* A process executes a statement for its event.                            *)
StatementOf(x) ==
    /\ Working(x) /\ todo[x] # <<>>
    /\ UNCHANGED <<chain, rows, jobs, stage, at, lost, overlapped, tracked>>
    /\ todo' = [y \in Indexer |-> todo'[y]] /\ readValue' = [y \in Indexer |-> readValue'[y]]
    /\ \A y \in Indexer \ {x} : todo'[y] = todo[y] /\ readValue'[y] = readValue[y]
    /\ todo[x] \in Remaining[EventAt(at[x]).type]
    /\ todo'[x] \in Remaining[EventAt(at[x]).type]

(* A process leaves an event, or goes about what is between the events.     *)
Leaves(x) ==
    /\ UNCHANGED <<chain, rows, derived>>
    /\ lost \subseteq lost'
    /\ ~Working(x)' /\ todo'[x] = <<>>
    /\ todo' = [y \in Indexer |-> todo'[y]] /\ readValue' = [y \in Indexer |-> readValue'[y]]
    /\ \A y \in Indexer \ {x} : /\ stage'[y] = stage[y] /\ at'[y] = at[y]
                                /\ todo'[y] = todo[y] /\ readValue'[y] = readValue[y]
    /\ faults' = 0 => todo[x] = <<>> /\ faults = 0
    /\ Up(x) \/ (overlapped' <=> (overlapped \/ \E y \in Indexer : Up(y)))
    /\ Up(x) => overlapped' = overlapped

LEMMA StatementIs ==
    ASSUME BaseInv, RemainingInv, NEW x \in Indexer, NEW name, Statement(x, name),
           readValue' = readValue \/ \E v : readValue' = [readValue EXCEPT ![x] = v]
    PROVE  /\ StatementOf(x) /\ faults' = faults
           /\ Head(todo[x]) = name /\ todo'[x] = Tail(todo[x])
<1>1. /\ Working(x) /\ todo[x] # <<>> /\ Head(todo[x]) = name
      /\ todo' = [todo EXCEPT ![x] = Tail(@)]
      /\ UNCHANGED <<chain, rows, jobs, stage, at, faults, lost, overlapped, tracked>>
  BY DEF Statement, Working
<1>2. todo = [y \in Indexer |-> todo[y]] /\ readValue = [y \in Indexer |-> readValue[y]]
  BY DEF BaseInv, CreditInv, TodoInv
<1>3. /\ todo' = [y \in Indexer |-> todo'[y]] /\ readValue' = [y \in Indexer |-> readValue'[y]]
      /\ todo'[x] = Tail(todo[x])
      /\ \A y \in Indexer \ {x} : todo'[y] = todo[y] /\ readValue'[y] = readValue[y]
  BY <1>1, <1>2
<1>4. todo[x] \in Remaining[EventAt(at[x]).type]
  BY <1>1 DEF RemainingInv
<1>5. Tail(todo[x]) \in Remaining[EventAt(at[x]).type]
  BY <1>1, <1>4, WorkersEvent, RemainingHead
<1> QED
  BY <1>1, <1>3, <1>4, <1>5 DEF StatementOf

LEMMA FailureIs ==
    ASSUME BaseInv, RemainingInv, NEW x \in Indexer, StatementFails(x)
    PROVE  /\ StatementOf(x) /\ derived' = derived /\ Fault
           /\ todo'[x] = <<>> \/ Head(todo[x]) \notin {"select_balance", "select_round"}
           /\ readValue'[x] = <<>>
<1>1. /\ Working(x) /\ todo[x] # <<>>
      /\ \/ /\ Head(todo[x]) \notin {"select_balance", "select_round"}
            /\ todo' = [todo EXCEPT ![x] = Tail(@)]
         \/ todo' = [todo EXCEPT ![x] = <<>>]
      /\ readValue' = [readValue EXCEPT ![x] = <<>>]
      /\ UNCHANGED <<chain, rows, jobs, stage, at, lost, overlapped, tracked>>
      /\ derived' = derived /\ Fault
  BY DEF StatementFails, Working
<1>2. todo = [y \in Indexer |-> todo[y]] /\ readValue = [y \in Indexer |-> readValue[y]]
  BY DEF BaseInv, CreditInv, TodoInv
<1>3. /\ todo' = [y \in Indexer |-> todo'[y]] /\ readValue' = [y \in Indexer |-> readValue'[y]]
      /\ \/ /\ Head(todo[x]) \notin {"select_balance", "select_round"}
            /\ todo'[x] = Tail(todo[x])
         \/ todo'[x] = <<>>
      /\ readValue'[x] = <<>>
      /\ \A y \in Indexer \ {x} : todo'[y] = todo[y] /\ readValue'[y] = readValue[y]
  BY <1>1, <1>2
<1>4. todo[x] \in Remaining[EventAt(at[x]).type]
  BY <1>1 DEF RemainingInv
<1>5. EventAt(at[x]).type \in EventType
  BY <1>1, WorkersEvent
<1>6. Tail(todo[x]) \in Remaining[EventAt(at[x]).type]
  BY <1>1, <1>4, <1>5, RemainingHead
<1>7. \A type \in EventType : <<>> \in Remaining[type]
  BY DEF EventType, NOTIFICATION_MATRIX, Remaining, PayoutTodo
<1> QED
  BY <1>1, <1>3, <1>4, <1>5, <1>6, <1>7 DEF StatementOf

LEMMA IdleTodo ==
    ASSUME RemainingInv, NEW x \in Indexer, ~Working(x)
    PROVE  todo[x] = <<>>
BY DEF RemainingInv

LEMMA LeavesIs ==
    ASSUME BaseInv, RemainingInv, faults \in Nat, NEW x \in Indexer,
           \/ Start(x) \/ Crash(x) \/ Fetch(x) \/ SaveCursor(x)
           \/ SkipDuplicate(x) \/ InsertFails(x) \/ EnqueueNotifications(x)
    PROVE  Leaves(x)
<1>1. /\ todo = [y \in Indexer |-> todo[y]] /\ readValue = [y \in Indexer |-> readValue[y]]
      /\ stage \in [Indexer -> {"down", "sleep", "insert", "work", "save"}]
      /\ at = [y \in Indexer |-> at[y]]
  BY DEF BaseInv, CreditInv, TodoInv, IInv, ShapeInv
<1>2. Fault => faults' # 0
  BY DEF Fault
<1>3. CASE Start(x)
  <2>1. /\ stage' = [stage EXCEPT ![x] = "sleep"] /\ ~Working(x) /\ ~Up(x)
        /\ UNCHANGED <<chain, rows, derived, at, todo, readValue, lost>>
        /\ faults' = faults \/ Fault
        /\ overlapped' = (overlapped \/ \E y \in Indexer : stage[y] # "down")
    BY <1>3 DEF Start, Working, Up
  <2>2. todo[x] = <<>>
    BY <2>1, IdleTodo
  <2>3. overlapped' <=> (overlapped \/ \E y \in Indexer : Up(y))
    <3> HIDE <1>1, <1>2, <1>3
    <3> QED
      BY <2>1, Zenon DEF Up
  <2>4. ~Working(x)' /\ \A y \in Indexer \ {x} : stage'[y] = stage[y]
    BY <1>1, <2>1 DEF Working
  <2>5. faults' = 0 => faults = 0
    BY <1>2, <2>1
  <2> QED
    BY <1>1, <2>1, <2>2, <2>3, <2>4, <2>5 DEF Leaves
<1>4. CASE Crash(x)
  <2>1. /\ stage' = [stage EXCEPT ![x] = "down"] /\ Up(x) /\ Fault
        /\ at' = [at EXCEPT ![x] = <<0, 0>>]
        /\ todo' = [todo EXCEPT ![x] = <<>>] /\ readValue' = [readValue EXCEPT ![x] = <<>>]
        /\ UNCHANGED <<chain, rows, derived, lost, overlapped>>
    BY <1>4 DEF Crash, Up
  <2>2. /\ ~Working(x)' /\ todo'[x] = <<>>
        /\ todo' = [y \in Indexer |-> todo'[y]] /\ readValue' = [y \in Indexer |-> readValue'[y]]
        /\ \A y \in Indexer \ {x} : /\ stage'[y] = stage[y] /\ at'[y] = at[y]
                                    /\ todo'[y] = todo[y] /\ readValue'[y] = readValue[y]
    BY <1>1, <2>1 DEF Working
  <2> QED
    BY <1>2, <2>1, <2>2 DEF Leaves
<1>5. CASE Fetch(x)
  <2>1. /\ stage' = [stage EXCEPT ![x] = "insert"] /\ Up(x) /\ ~Working(x)
        /\ \E p : at' = [at EXCEPT ![x] = p]
        /\ lost \subseteq lost'
        /\ UNCHANGED <<chain, rows, derived, todo, readValue, faults, overlapped>>
    BY <1>5 DEF Fetch, Up, Working
  <2>2. /\ ~Working(x)'
        /\ \A y \in Indexer \ {x} : stage'[y] = stage[y] /\ at'[y] = at[y]
    BY <1>1, <2>1 DEF Working
  <2> QED
    BY <1>1, <2>1, <2>2, IdleTodo DEF Leaves
<1>6. CASE SaveCursor(x)
  <2>1. /\ stage' = [stage EXCEPT ![x] = "sleep"] /\ Up(x) /\ ~Working(x)
        /\ faults' = faults \/ Fault
        /\ UNCHANGED <<chain, rows, derived, at, todo, readValue, lost, overlapped>>
    BY <1>6 DEF SaveCursor, Up, Working
  <2>2. /\ ~Working(x)' /\ \A y \in Indexer \ {x} : stage'[y] = stage[y]
    BY <1>1, <2>1 DEF Working
  <2>3. faults' = 0 => faults = 0
    BY <1>2, <2>1
  <2> QED
    BY <1>1, <2>1, <2>2, <2>3, IdleTodo DEF Leaves
<1>7. CASE SkipDuplicate(x) \/ InsertFails(x) \/ EnqueueNotifications(x)
  <2>1. /\ Advance(x) /\ Up(x) /\ todo[x] = <<>>
        /\ faults' = faults \/ Fault
        /\ lost \subseteq lost'
        /\ UNCHANGED <<chain, rows, derived, todo, readValue, overlapped>>
    <3>1. CASE SkipDuplicate(x)
      BY <3>1, IdleTodo DEF SkipDuplicate, Up, Working
    <3>2. CASE InsertFails(x)
      BY <3>2, IdleTodo DEF InsertFails, Up, Working
    <3>3. CASE EnqueueNotifications(x)
      BY <3>3 DEF EnqueueNotifications, Up, Working
    <3> QED
      BY <1>7, <3>1, <3>2, <3>3
  <2>2. ~Working(x)' /\ \A y \in Indexer \ {x} : stage'[y] = stage[y] /\ at'[y] = at[y]
    BY <2>1, AdvanceMoves DEF BaseInv, IInv
  <2>3. faults' = 0 => faults = 0
    BY <1>2, <2>1
  <2> QED
    BY <1>1, <2>1, <2>2, <2>3 DEF Leaves
<1> QED
  BY <1>3, <1>4, <1>5, <1>6, <1>7

-----------------------------------------------------------------------------
(* Todo lists *)

LEMMA StatementRemaining ==
    ASSUME RemainingInv, NEW x \in Indexer, StatementOf(x)
    PROVE  RemainingInv'
<1> SUFFICES ASSUME NEW y \in Indexer
             PROVE  todo'[y] \in IF Working(y)' THEN Remaining[EventAt(at[y])'.type] ELSE {<<>>}
  BY DEF RemainingInv
<1>1. (Working(y)' <=> Working(y)) /\ EventAt(at[y])' = EventAt(at[y]) /\ Working(x)
  BY DEF StatementOf, Working, EventAt
<1>2. CASE y = x
  BY <1>1, <1>2 DEF StatementOf
<1>3. CASE y # x
  <2>1. todo'[y] = todo[y]
    BY <1>3 DEF StatementOf
  <2> QED
    BY <1>1, <2>1 DEF RemainingInv
<1> QED
  BY <1>2, <1>3

LEMMA LeavesRemaining ==
    ASSUME RemainingInv, NEW x \in Indexer, Leaves(x)
    PROVE  RemainingInv'
<1> SUFFICES ASSUME NEW y \in Indexer
             PROVE  todo'[y] \in IF Working(y)' THEN Remaining[EventAt(at[y])'.type] ELSE {<<>>}
  BY DEF RemainingInv
<1>1. CASE y = x
  BY <1>1 DEF Leaves
<1>2. CASE y # x
  <2>1. /\ todo'[y] = todo[y] /\ (Working(y)' <=> Working(y))
        /\ EventAt(at[y])' = EventAt(at[y])
    BY <1>2 DEF Leaves, Working, EventAt
  <2> QED
    BY <2>1 DEF RemainingInv
<1> QED
  BY <1>1, <1>2

(* A process records its event and takes its statements up.                 *)
LEMMA InsertIs ==
    ASSUME BaseInv, RemainingInv, NEW x \in Indexer, InsertEvent(x)
    PROVE  /\ ~Recorded(at[x]) /\ at[x] \in Positions /\ at[x] \notin rows
           /\ rows' = rows \cup {at[x]}
           /\ Up(x) /\ ~Working(x) /\ Working(x)'
           /\ todo'[x] = SideEffects[EventAt(at[x]).type] /\ todo'[x] # <<>>
           /\ todo'[x] \in Remaining[EventAt(at[x]).type]
           /\ todo' = [y \in Indexer |-> todo'[y]]
           /\ \A y \in Indexer \ {x} : stage'[y] = stage[y] /\ todo'[y] = todo[y]
           /\ UNCHANGED <<chain, derived, jobs, at, readValue, faults, lost, overlapped, tracked>>
<1>1. /\ stage[x] = "insert" /\ ~Recorded(at[x])
      /\ rows' = rows \cup {at[x]}
      /\ stage' = [stage EXCEPT ![x] = "work"]
      /\ todo' = [todo EXCEPT ![x] = SideEffects[EventAt(at[x]).type]]
      /\ UNCHANGED <<chain, derived, jobs, at, readValue, faults, lost, overlapped, tracked>>
  BY DEF InsertEvent, Current
<1>2. /\ todo = [y \in Indexer |-> todo[y]]
      /\ stage \in [Indexer -> {"down", "sleep", "insert", "work", "save"}]
  BY DEF BaseInv, CreditInv, TodoInv, IInv, ShapeInv
<1>3. at[x] \in Positions
  BY <1>1 DEF BaseInv, CInv, BoundInv, InBatch
<1>4. at[x] \notin rows
  BY <1>1 DEF Recorded
<1>5. EventAt(at[x]).type \in EventType
  BY <1>3 DEF BaseInv, EmittedInv, OrderOfEvents, EventOK, Event
<1>6. \A type \in EventType : SideEffects[type] \in Remaining[type] /\ SideEffects[type] # <<>>
  <2>1. \A a, b, c : <<a>> # <<>> /\ <<a, b>> # <<>> /\ <<a, b, c>> # <<>>
    OBVIOUS
  <2> QED
    BY <2>1 DEF EventType, NOTIFICATION_MATRIX, SideEffects, Remaining, PayoutTodo
<1>7. /\ todo'[x] = SideEffects[EventAt(at[x]).type] /\ stage'[x] = "work"
      /\ todo' = [y \in Indexer |-> todo'[y]]
      /\ \A y \in Indexer \ {x} : stage'[y] = stage[y] /\ todo'[y] = todo[y]
  BY <1>1, <1>2
<1> QED
  BY <1>1, <1>3, <1>4, <1>5, <1>6, <1>7 DEF Up, Working

LEMMA InsertRemaining ==
    ASSUME BaseInv, RemainingInv, NEW x \in Indexer, InsertEvent(x)
    PROVE  RemainingInv'
<1>1. /\ Working(x)' /\ todo'[x] \in Remaining[EventAt(at[x]).type]
      /\ \A y \in Indexer \ {x} : stage'[y] = stage[y] /\ todo'[y] = todo[y]
      /\ chain' = chain /\ at' = at
  BY InsertIs
<1> SUFFICES ASSUME NEW y \in Indexer
             PROVE  todo'[y] \in IF Working(y)' THEN Remaining[EventAt(at[y])'.type] ELSE {<<>>}
  BY DEF RemainingInv
<1>2. EventAt(at[y])' = EventAt(at[y])
  BY <1>1 DEF EventAt
<1>3. y # x => (Working(y)' <=> Working(y)) /\ todo'[y] = todo[y]
  BY <1>1 DEF Working
<1> QED
  BY <1>1, <1>2, <1>3 DEF RemainingInv

(* The chain grows under the processes' feet.                               *)
LEMMA ChainIs ==
    ASSUME IndexerAssumption, BaseInv, Chain
    PROVE  /\ UNCHANGED <<rows, derived, savedLt, jobs, process, faults, lost, overlapped>>
           /\ Positions \subseteq Positions' /\ rows \subseteq Positions
           /\ \A p \in Positions : EventAt(p)' = EventAt(p)
           /\ \A p \in Positions' : p \in Positions \/ \A q \in Positions : ~Before(p, q)
<1>1. UNCHANGED <<rows, derived, savedLt, jobs, process, faults, lost, overlapped>>
  BY DEF Chain, JoinKye, ExecuteRound, EmergencyCancel
<1>2. PICK t : NewTx(t)
  BY ChainTx DEF BaseInv, CInv
<1>3. PICK L \in Nat :
         /\ Positions' = Positions \cup {<<L + 1, j>> : j \in 1..Len(t)}
         /\ \A p \in Positions : EventAt(p)' = EventAt(p)
                                 /\ p[1] \in Nat /\ p[2] \in Nat /\ p[1] < L + 1
  BY <1>2, Appended DEF BaseInv, CInv
<1>4. \A j \in 1..Len(t), q \in Positions : ~Before(<<L + 1, j>>, q)
  BY <1>3 DEF Before
<1> QED
  BY <1>1, <1>3, <1>4 DEF BaseInv, CInv, BoundInv

LEMMA ChainRemaining ==
    ASSUME IndexerAssumption, BaseInv, RemainingInv, Chain
    PROVE  RemainingInv'
<1>1. /\ stage' = stage /\ todo' = todo /\ at' = at
      /\ \A p \in Positions : EventAt(p)' = EventAt(p)
  BY ChainIs DEF process
<1> SUFFICES ASSUME NEW y \in Indexer
             PROVE  todo'[y] \in IF Working(y)' THEN Remaining[EventAt(at[y])'.type] ELSE {<<>>}
  BY DEF RemainingInv
<1>2. Working(y)' <=> Working(y)
  BY <1>1 DEF Working
<1>3. Working(y) => EventAt(at[y])' = EventAt(at[y])
  <2> SUFFICES ASSUME Working(y)
               PROVE  EventAt(at[y])' = EventAt(at[y])
    OBVIOUS
  <2>1. PICK p \in Positions : p = at[y]
    BY WorkersEvent
  <2>2. EventAt(p)' = EventAt(p) /\ at'[y] = p
    BY <1>1, <2>1
  <2> QED
    BY <2>1, <2>2 DEF EventAt
<1> QED
  BY <1>1, <1>2, <1>3 DEF RemainingInv

LEMMA PlacesAre ==
    ASSUME ChainInv, NEW p \in Positions
    PROVE  p = <<p[1], p[2]>> /\ p[1] \in Int /\ p[2] \in Int
<1>1. p = <<p[1], p[2]>> /\ p[1] \in 1..Len(chain) /\ p[2] \in 1..Len(chain[p[1]])
  BY PositionFacts
<1> QED
  BY <1>1

-----------------------------------------------------------------------------
(* The order of the rows, and the status they have set. *)

(* A step that records nothing and owes nothing new.                        *)
QuietRows ==
    /\ rows' = rows /\ Positions \subseteq Positions'
    /\ \A p \in Positions : EventAt(p)' = EventAt(p)
    /\ \A p \in Positions' : p \in Positions \/ \A q \in rows : ~Before(p, q)
    /\ \A y \in Indexer : Working(y)' =>
         Working(y) /\ at'[y] = at[y] /\ (todo'[y] # <<>> => todo[y] # <<>>)
    /\ Orderly' => Orderly

LEMMA StatementQuiet ==
    ASSUME BaseInv, NEW x \in Indexer, StatementOf(x)
    PROVE  QuietRows /\ (OneUp => OneUp')
<1>1. UNCHANGED <<chain, rows, stage, at, lost, overlapped>> /\ todo[x] # <<>>
      /\ \A y \in Indexer \ {x} : todo'[y] = todo[y]
  BY DEF StatementOf
<1>2. Positions' = Positions /\ \A p : EventAt(p)' = EventAt(p)
  BY <1>1 DEF Positions, EventAt
<1> QED
  BY <1>1, <1>2 DEF QuietRows, Orderly, Working, OneUp, Up

LEMMA LeavesQuiet ==
    ASSUME BaseInv, NEW x \in Indexer, Leaves(x)
    PROVE  QuietRows /\ (OneUp => OneUp')
<1>1. /\ UNCHANGED <<chain, rows>> /\ ~Working(x)' /\ lost \subseteq lost'
      /\ \A y \in Indexer \ {x} : /\ stage'[y] = stage[y] /\ at'[y] = at[y]
                                  /\ todo'[y] = todo[y]
  BY DEF Leaves
<1>2. Positions' = Positions /\ \A p : EventAt(p)' = EventAt(p)
  BY <1>1 DEF Positions, EventAt
<1>3. \A y \in Indexer : Working(y)' =>
        Working(y) /\ at'[y] = at[y] /\ (todo'[y] # <<>> => todo[y] # <<>>)
  BY <1>1 DEF Working
<1>4. \A y \in Indexer \ {x} : Up(y)' <=> Up(y)
  BY <1>1 DEF Up
<1>5. CASE Up(x)
  <2>1. overlapped' = overlapped
    BY <1>5 DEF Leaves
  <2>2. OneUp => OneUp'
    BY <1>4, <1>5, <2>1 DEF OneUp
  <2>3. Orderly' => Orderly
    BY <1>1, <2>1 DEF Orderly
  <2> QED
    BY <1>1, <1>2, <1>3, <2>2, <2>3 DEF QuietRows
<1>6. CASE ~Up(x)
  <2>1. overlapped' <=> (overlapped \/ \E y \in Indexer : Up(y))
    BY <1>6 DEF Leaves
  <2>2. OneUp => OneUp'
    BY <1>4, <2>1 DEF OneUp
  <2>3. Orderly' => Orderly
    BY <1>1, <2>1 DEF Orderly
  <2> QED
    BY <1>1, <1>2, <1>3, <2>2, <2>3 DEF QuietRows
<1> QED
  BY <1>5, <1>6

LEMMA ChainQuiet ==
    ASSUME IndexerAssumption, BaseInv, Chain
    PROVE  QuietRows /\ (OneUp => OneUp')
<1>1. /\ UNCHANGED <<rows, process, lost, overlapped>>
      /\ Positions \subseteq Positions' /\ rows \subseteq Positions
      /\ \A p \in Positions : EventAt(p)' = EventAt(p)
      /\ \A p \in Positions' : p \in Positions \/ \A q \in Positions : ~Before(p, q)
  BY ChainIs
<1>2. \A p \in Positions' : p \in Positions \/ \A q \in rows : ~Before(p, q)
  BY <1>1
<1>3. UNCHANGED <<stage, at, todo>>
  BY <1>1 DEF process
<1> QED
  BY <1>1, <1>2, <1>3 DEF QuietRows, Orderly, Working, OneUp, Up

(* What held of the rows holds of them, but for the status.                 *)
LEMMA OrderStays ==
    ASSUME BaseInv, OrderInv, QuietRows, Orderly'
    PROVE  /\ \A q \in rows', p \in Positions' : Before(p, q) => Recorded(p)'
           /\ \A x \in Indexer : Working(x)' => \A q \in rows' : q = at'[x] \/ Before(q, at'[x])
           /\ \A q \in rows : ~Owed(q) => ~Owed(q)' /\ EventAt(q)' = EventAt(q)
<1>1. Orderly /\ rows' = rows /\ rows \subseteq Positions
  BY DEF QuietRows, BaseInv, CInv, BoundInv
<1>2. ASSUME NEW q \in rows', NEW p \in Positions', Before(p, q)
      PROVE  Recorded(p)'
  <2>1. p \in Positions /\ q \in rows
    BY <1>1, <1>2 DEF QuietRows
  <2>2. PICK o \in rows : Key(o) = Key(p)
    BY <1>1, <1>2, <2>1 DEF OrderInv, Recorded
  <2>3. Key(o)' = Key(p)'
    BY <1>1, <2>1, <2>2 DEF QuietRows, Key
  <2> QED
    BY <1>1, <2>3 DEF Recorded
<1>3. ASSUME NEW x \in Indexer, Working(x)', NEW q \in rows'
      PROVE  q = at'[x] \/ Before(q, at'[x])
  <2>1. Working(x) /\ at'[x] = at[x] /\ q \in rows
    BY <1>1, <1>3 DEF QuietRows
  <2> QED
    BY <1>1, <2>1 DEF OrderInv
<1>4. ASSUME NEW q \in rows, Owed(q)'
      PROVE  Owed(q)
  BY <1>4 DEF QuietRows, Owed
<1>5. \A q \in rows : EventAt(q)' = EventAt(q)
  BY <1>1 DEF QuietRows
<1> QED
  BY <1>2, <1>3, <1>4, <1>5

LEMMA QuietOrder ==
    ASSUME BaseInv, OrderInv, QuietRows, OneUp', kyeStatus' = kyeStatus
    PROVE  OrderInv'
<1> SUFFICES ASSUME Orderly'
             PROVE  /\ \A q \in rows', p \in Positions' : Before(p, q) => Recorded(p)'
                    /\ \A x \in Indexer : Working(x)' =>
                         \A q \in rows' : q = at'[x] \/ Before(q, at'[x])
                    /\ kyeStatus = "created" \/ \E q \in rows' :
                         StatusEvent(EventAt(q))' /\ ~Owed(q)' /\ kyeStatus = StatusOf[EventAt(q)'.type]
  BY DEF OrderInv, Before
<1>1. kyeStatus = "created" \/ \E q \in rows' :
         StatusEvent(EventAt(q))' /\ ~Owed(q)' /\ kyeStatus = StatusOf[EventAt(q)'.type]
  <2> SUFFICES ASSUME kyeStatus # "created"
               PROVE  \E q \in rows' : /\ StatusEvent(EventAt(q))' /\ ~Owed(q)'
                                       /\ kyeStatus = StatusOf[EventAt(q)'.type]
    OBVIOUS
  <2>1. PICK q \in rows : /\ StatusEvent(EventAt(q)) /\ ~Owed(q)
                          /\ kyeStatus = StatusOf[EventAt(q).type]
    BY DEF OrderInv, QuietRows
  <2>2. ~Owed(q)' /\ EventAt(q)' = EventAt(q) /\ rows' = rows
    BY <2>1, OrderStays DEF QuietRows
  <2>3. StatusEvent(EventAt(q))'
    BY <2>1, <2>2 DEF StatusEvent
  <2> QED
    BY <2>1, <2>2, <2>3
<1> QED
  BY <1>1, OrderStays

(* The status is set by an event that is owed nothing after that.           *)
LEMMA StatusOrder ==
    ASSUME BaseInv, RemainingInv, OrderInv, NEW x \in Indexer, UpdateStatus(x)
    PROVE  OrderInv'
<1>1. Statement(x, "update_status") /\ readValue' = readValue
      /\ kyeStatus' = StatusOf[EventAt(at[x]).type]
  BY DEF UpdateStatus, Current
<1>2. /\ StatementOf(x) /\ Head(todo[x]) = "update_status" /\ todo'[x] = Tail(todo[x])
      /\ todo[x] # <<>> /\ todo[x] \in Remaining[EventAt(at[x]).type]
  BY <1>1, StatementIs DEF StatementOf
<1>3. PICK here : here = at[x]
  OBVIOUS
<1>4. /\ here \in rows /\ EventAt(here).type \in EventType
      /\ \A y \in Indexer : Working(y) /\ at[y] = here => y = x
  BY <1>2, <1>3, WorkersEvent DEF StatementOf
<1>5. StatusEvent(EventAt(here)) /\ todo'[x] = <<>>
  BY <1>2, <1>3, <1>4, RemainingHead DEF StatusEvent
<1>6. QuietRows /\ OneUp'
  BY <1>2, StatementQuiet DEF OrderInv
<1>7. UNCHANGED <<chain, rows, stage, at>>
  BY <1>2 DEF StatementOf
<1>8. ~Owed(here)'
  BY <1>4, <1>5, <1>7 DEF Owed, Working
<1>9. StatusEvent(EventAt(here))' /\ kyeStatus' = StatusOf[EventAt(here)'.type] /\ here \in rows'
  BY <1>1, <1>3, <1>4, <1>5, <1>7 DEF EventAt, StatusEvent
<1> SUFFICES ASSUME Orderly'
             PROVE  /\ \A q \in rows', p \in Positions' : Before(p, q) => Recorded(p)'
                    /\ \A y \in Indexer : Working(y)' =>
                         \A q \in rows' : q = at'[y] \/ Before(q, at'[y])
                    /\ \E q \in rows' :
                         StatusEvent(EventAt(q))' /\ ~Owed(q)' /\ kyeStatus' = StatusOf[EventAt(q)'.type]
  BY <1>6 DEF OrderInv, Before
<1> QED
  BY <1>6, <1>8, <1>9, OrderStays

(* In order, only an event after every row is recorded.                     *)
LEMMA InsertOrder ==
    ASSUME BaseInv, RemainingInv, OrderInv, NEW x \in Indexer, InsertEvent(x)
    PROVE  OrderInv'
<1>1. PICK here : here = at[x]
  OBVIOUS
<1>2. /\ ~Recorded(here) /\ here \in Positions /\ here \notin rows
      /\ rows' = rows \cup {here}
      /\ Up(x) /\ ~Working(x) /\ stage[x] = "insert"
      /\ \A y \in Indexer \ {x} : stage'[y] = stage[y] /\ todo'[y] = todo[y]
      /\ UNCHANGED <<chain, derived, jobs, at, readValue, faults, lost, overlapped>>
  BY <1>1, InsertIs DEF InsertEvent
<1>3. /\ Positions' = Positions /\ \A p : EventAt(p)' = EventAt(p)
      /\ kyeStatus' = kyeStatus /\ at' = at
  BY <1>2 DEF Positions, EventAt, derived
<1>4. \A y \in Indexer : Up(y)' => Up(y)
  BY <1>2 DEF Up
<1>5. OneUp'
  BY <1>2, <1>4 DEF OrderInv, OneUp
<1> SUFFICES ASSUME Orderly'
             PROVE  /\ \A q \in rows', p \in Positions' : Before(p, q) => Recorded(p)'
                    /\ \A y \in Indexer : Working(y)' =>
                         \A q \in rows' : q = at'[y] \/ Before(q, at'[y])
                    /\ kyeStatus = "created" \/ \E q \in rows' :
                         StatusEvent(EventAt(q))' /\ ~Owed(q)' /\ kyeStatus = StatusOf[EventAt(q)'.type]
  BY <1>3, <1>5 DEF OrderInv, Before
<1>6. Orderly /\ lost = {} /\ ~overlapped
  BY <1>2 DEF Orderly
<1>7. \A p \in Positions : Before(p, here) => Recorded(p)
  BY <1>1, <1>2, <1>6 DEF BaseInv, CInv, ProgressInv, InBatch, Done
<1>8. \A p : Recorded(p) => Recorded(p)'
  BY <1>2, <1>3 DEF Recorded, Key
<1>9. ASSUME NEW q \in rows', NEW p \in Positions', Before(p, q)
      PROVE  Recorded(p)'
  BY <1>2, <1>3, <1>6, <1>7, <1>8, <1>9 DEF OrderInv
<1>10. \A q \in rows : Before(q, here)
  <2> SUFFICES ASSUME NEW q \in rows, ~Before(q, here)
               PROVE  FALSE
    OBVIOUS
  <2>1. q \in Positions /\ q # here
    BY <1>2 DEF BaseInv, CInv, BoundInv
  <2>2. /\ q = <<q[1], q[2]>> /\ here = <<here[1], here[2]>>
        /\ q[1] \in Int /\ q[2] \in Int /\ here[1] \in Int /\ here[2] \in Int
    BY <1>2, <2>1, PlacesAre DEF BaseInv, CInv
  <2>3. q[1] # here[1] \/ q[2] # here[2]
    BY <2>1, <2>2
  <2>4. Before(here, q)
    BY <2>2, <2>3 DEF Before
  <2> QED
    BY <1>2, <1>6, <2>4 DEF OrderInv
<1>11. ASSUME NEW y \in Indexer, Working(y)', NEW q \in rows'
       PROVE  q = at'[y] \/ Before(q, at'[y])
  <2>1. y = x
    BY <1>2, <1>6, <1>11 DEF OrderInv, OneUp, Up, Working
  <2> QED
    BY <1>1, <1>2, <1>3, <1>10, <2>1
<1>12. ASSUME kyeStatus # "created"
       PROVE  \E q \in rows' :
                StatusEvent(EventAt(q))' /\ ~Owed(q)' /\ kyeStatus = StatusOf[EventAt(q)'.type]
  <2>1. PICK q \in rows : /\ StatusEvent(EventAt(q)) /\ ~Owed(q)
                          /\ kyeStatus = StatusOf[EventAt(q).type]
    BY <1>6, <1>12 DEF OrderInv
  <2>2. ~Owed(q)'
    <3>1. q # here
      BY <1>2, <2>1
    <3> QED
      BY <1>1, <1>2, <1>3, <2>1, <3>1 DEF Owed, Working
  <2>3. StatusEvent(EventAt(q))' /\ EventAt(q)' = EventAt(q) /\ q \in rows'
    BY <1>2, <1>3, <2>1 DEF StatusEvent
  <2> QED
    BY <2>1, <2>2, <2>3
<1> QED
  BY <1>9, <1>11, <1>12

LEMMA WorkIs ==
    ASSUME BaseInv, RemainingInv, faults \in Nat, NEW x \in Indexer, Work(x)
    PROVE  InsertEvent(x) \/ Leaves(x) \/ StatementOf(x)
<1>1. CASE SkipDuplicate(x) \/ EnqueueNotifications(x)
  BY <1>1, LeavesIs
<1>2. ASSUME NEW name, Statement(x, name),
             readValue' = readValue \/ \E v : readValue' = [readValue EXCEPT ![x] = v]
      PROVE  StatementOf(x)
  BY <1>2, StatementIs
<1>3. CASE InsertMember(x) \/ UpdateStatus(x)
  BY <1>2, <1>3 DEF InsertMember, UpdateStatus
<1>4. CASE UpsertRound(x) \/ SetMember(x, "set_paid", "paid")
             \/ SetMember(x, "set_defaulted", "defaulted")
  BY <1>2, <1>4 DEF UpsertRound, SetMember
<1>5. CASE SelectRound(x) \/ UpdateRound(x)
  BY <1>2, <1>5 DEF SelectRound, UpdateRound
<1>6. CASE SelectBalance(x) \/ UpdateBalance(x)
  BY <1>2, <1>6 DEF SelectBalance, UpdateBalance
<1> QED
  BY <1>1, <1>3, <1>4, <1>5, <1>6 DEF Work

(* The steps of the specification, by what they are to a process.           *)
LEMMA StepIs ==
    ASSUME BaseInv, RemainingInv, faults \in Nat, [Next]_vars
    PROVE  \/ Chain \/ UNCHANGED vars
           \/ \E x \in Indexer : \/ Leaves(x) \/ InsertEvent(x) \/ StatementOf(x)
BY LeavesIs, WorkIs, FailureIs DEF Next

LEMMA RemainingStep ==
    IndexerAssumption /\ BaseInv /\ RemainingInv /\ faults \in Nat /\ [Next]_vars
      => RemainingInv'
<1> SUFFICES ASSUME IndexerAssumption, BaseInv, RemainingInv, faults \in Nat, [Next]_vars
             PROVE  RemainingInv'
  OBVIOUS
<1>1. CASE UNCHANGED vars
  BY <1>1 DEF vars, process, RemainingInv, Working, EventAt
<1> QED
  BY <1>1, StepIs, ChainRemaining, LeavesRemaining, InsertRemaining, StatementRemaining

(* Only one statement changes the status of the circle.                     *)
LEMMA StatusWriter ==
    ASSUME BaseInv, RemainingInv, faults \in Nat, NEW x \in Indexer,
           Start(x) \/ Crash(x) \/ Fetch(x) \/ Work(x) \/ SaveCursor(x)
             \/ InsertFails(x) \/ StatementFails(x),
           ~UpdateStatus(x)
    PROVE  kyeStatus' = kyeStatus
BY DEF Start, Crash, Fetch, Work, SaveCursor, InsertFails, StatementFails, InsertEvent,
       SkipDuplicate, InsertMember, UpsertRound, SetMember, SelectRound, UpdateRound,
       SelectBalance, UpdateBalance, EnqueueNotifications, derived

LEMMA OrderStep ==
    IndexerAssumption /\ BaseInv /\ RemainingInv /\ faults \in Nat /\ OrderInv /\ [Next]_vars
      => OrderInv'
<1> SUFFICES ASSUME IndexerAssumption, BaseInv, RemainingInv, faults \in Nat, OrderInv,
                    [Next]_vars
             PROVE  OrderInv'
  OBVIOUS
<1>1. CASE Chain
  <2>1. kyeStatus' = kyeStatus
    BY <1>1, ChainIs DEF derived
  <2> QED
    BY <1>1, <2>1, ChainQuiet, QuietOrder DEF OrderInv
<1>2. CASE UNCHANGED vars
  BY <1>2 DEF vars, process, derived, OrderInv, OneUp, Up, Orderly, Positions, Recorded, Key,
              EventAt, Working, Owed, Before, StatusEvent
<1>3. ASSUME NEW x \in Indexer,
             Start(x) \/ Crash(x) \/ Fetch(x) \/ Work(x) \/ SaveCursor(x)
               \/ InsertFails(x) \/ StatementFails(x)
      PROVE  OrderInv'
  <2>1. CASE UpdateStatus(x)
    BY <2>1, StatusOrder
  <2>2. CASE InsertEvent(x)
    BY <2>2, InsertOrder
  <2>3. CASE ~UpdateStatus(x) /\ ~InsertEvent(x)
    <3>1. kyeStatus' = kyeStatus
      BY <1>3, <2>3, StatusWriter
    <3>2. Leaves(x) \/ StatementOf(x)
      BY <1>3, <2>3, LeavesIs, WorkIs, FailureIs
    <3> QED
      BY <3>1, <3>2, LeavesQuiet, StatementQuiet, QuietOrder DEF OrderInv
  <2> QED
    BY <2>1, <2>2, <2>3
<1> QED
  BY <1>1, <1>2, <1>3 DEF Next

LEMMA InitOrder == Init => RemainingInv /\ OrderInv
<1> SUFFICES ASSUME Init
             PROVE  RemainingInv /\ OrderInv
  OBVIOUS
<1>1. /\ kyeStatus = "created" /\ rows = {}
      /\ \A x \in Indexer : stage[x] = "down" /\ todo[x] = <<>>
  BY DEF Init
<1> QED
  BY <1>1 DEF RemainingInv, OrderInv, OneUp, Up, Working

(* The status that an orderly process sets is later than the one it finds.  *)
LEMMA StatusRises ==
    ASSUME BaseInv, RemainingInv, faults \in Nat, OrderInv, [Next]_vars,
           ~overlapped', lost' = {}, kyeStatus' # kyeStatus
    PROVE  Rank[kyeStatus'] > Rank[kyeStatus]
<1>1. PICK x \in Indexer : UpdateStatus(x)
  <2>1. ~Chain /\ ~(UNCHANGED vars)
    BY DEF Chain, JoinKye, ExecuteRound, EmergencyCancel, derived, vars
  <2> QED
    BY <2>1, StatusWriter DEF Next
<1>2. Statement(x, "update_status") /\ readValue' = readValue
      /\ kyeStatus' = StatusOf[EventAt(at[x]).type]
  BY <1>1 DEF UpdateStatus, Current
<1>3. /\ StatementOf(x) /\ Head(todo[x]) = "update_status"
      /\ todo[x] # <<>> /\ todo[x] \in Remaining[EventAt(at[x]).type] /\ Working(x)
  BY <1>2, StatementIs DEF StatementOf
<1>4. /\ at[x] \in rows /\ at[x] \in Positions /\ rows \subseteq Positions
      /\ EventAt(at[x]).type \in EventType
  BY <1>3, WorkersEvent
<1>5. StatusEvent(EventAt(at[x]))
  BY <1>3, <1>4, RemainingHead DEF StatusEvent
<1>6. Orderly
  BY <1>3 DEF StatementOf, Orderly
<1>7. StatusRank(EventAt(at[x])) \in {1, 2} /\ Rank[kyeStatus'] = StatusRank(EventAt(at[x]))
  BY <1>2, <1>5, StatusRanks DEF StatusEvent, StatusRank
<1>8. CASE kyeStatus = "created"
  BY <1>7, <1>8 DEF Rank
<1>9. CASE kyeStatus # "created"
  <2>1. PICK q \in rows : /\ StatusEvent(EventAt(q)) /\ ~Owed(q)
                          /\ kyeStatus = StatusOf[EventAt(q).type]
    BY <1>6, <1>9 DEF OrderInv
  <2>2. q # at[x]
    BY <1>3, <2>1 DEF Owed
  <2>3. Before(q, at[x])
    BY <1>3, <1>6, <2>2 DEF OrderInv
  <2>4. StatusRank(EventAt(q)) < StatusRank(EventAt(at[x]))
    BY <1>4, <1>5, <2>1, <2>3 DEF BaseInv, EmittedInv, OrderOfEvents
  <2>5. StatusRank(EventAt(q)) \in {1, 2} /\ Rank[kyeStatus] = StatusRank(EventAt(q))
    BY <2>1, StatusRanks DEF StatusEvent, StatusRank
  <2> QED
    BY <1>7, <2>4, <2>5
<1> QED
  BY <1>8, <1>9

LEMMA FaultsStep == IndexerAssumption /\ faults \in 0..MaxFaults /\ [Next]_vars
                      => faults' \in 0..MaxFaults
<1> SUFFICES ASSUME IndexerAssumption, faults \in 0..MaxFaults, [Next]_vars
             PROVE  faults' \in 0..MaxFaults
  OBVIOUS
<1>1. faults' = faults \/ Fault
  BY DEF Next, Chain, JoinKye, ExecuteRound, EmergencyCancel, vars, Start, Crash, Fetch, Work,
         SaveCursor, InsertFails, StatementFails, InsertEvent, SkipDuplicate, InsertMember,
         UpdateStatus, UpsertRound, SetMember, SelectRound, UpdateRound, SelectBalance,
         UpdateBalance, EnqueueNotifications, Statement
<1> QED
  BY <1>1 DEF Fault, IndexerAssumption

(* The invariants hold together.                                            *)
Settles == BaseInv /\ RemainingInv /\ OrderInv /\ faults \in 0..MaxFaults

LEMMA InitSettles == Init => Settles
<1>1. IndexerAssumption /\ Init => faults \in 0..MaxFaults
  BY DEF Init, IndexerAssumption
<1> QED
  BY <1>1, IndexerAssumption, InitStep, InitCursors, InitCredits, InitEmitted, InitOrder
     DEF Settles, BaseInv

LEMMA SettlesStep == Settles /\ [Next]_vars => Settles'
<1> SUFFICES ASSUME Settles, [Next]_vars
             PROVE  Settles'
  OBVIOUS
<1>1. faults \in Nat
  BY DEF Settles
<1>2. IInv /\ CInv /\ CreditInv /\ EmittedInv /\ ChainInv
  BY DEF Settles, BaseInv, CInv
<1>3. IInv' /\ CInv' /\ CreditInv' /\ EmittedInv'
  BY <1>2, IndexerAssumption, InvariantStep, CursorStep, CreditStep, EmittedStep
<1>4. RemainingInv' /\ OrderInv' /\ faults' \in 0..MaxFaults
  BY <1>1, IndexerAssumption, RemainingStep, OrderStep, FaultsStep DEF Settles
<1> QED
  BY <1>3, <1>4 DEF Settles, BaseInv

(* For any number of processes that die and start over at old cursors, any  *)
(* number of members and rounds: unless two processes overlap or an insert  *)
(* failed, kyes.status only goes on (indexer.ts:282, 371, 376).             *)
THEOREM StatusTheorem == Spec => StatusFollowsChain
<1>1. Settles /\ [Next]_vars =>
        [(~overlapped' /\ lost' = {} /\ kyeStatus' # kyeStatus)
            => Rank[kyeStatus'] > Rank[kyeStatus]]_vars
  <2> SUFFICES ASSUME Settles, [Next]_vars, ~overlapped', lost' = {}, kyeStatus' # kyeStatus
               PROVE  Rank[kyeStatus'] > Rank[kyeStatus]
    OBVIOUS
  <2>1. faults \in Nat
    BY DEF Settles
  <2> QED
    BY <2>1, StatusRises DEF Settles
<1> QED
  BY InitSettles, SettlesStep, <1>1, PTL DEF Spec, StatusFollowsChain

-----------------------------------------------------------------------------
(* The ranges of the derived tables *)

(* What a process is about to execute, and for which event.                 *)
LEMMA AboutTo ==
    ASSUME BaseInv, RemainingInv, NEW x \in Indexer, NEW name, Statement(x, name),
           readValue' = readValue \/ \E v : readValue' = [readValue EXCEPT ![x] = v]
    PROVE  /\ StatementOf(x) /\ faults' = faults /\ Working(x)
           /\ name = "insert_member" => EventAt(at[x]).type = "MemberJoined" /\ todo'[x] = <<>>
           /\ name = "update_status" => StatusEvent(EventAt(at[x])) /\ todo'[x] = <<>>
           /\ name = "upsert_round" =>
                /\ EventAt(at[x]).type = "RoundExecuted"
                /\ todo[x] = <<"upsert_round", "set_paid">> /\ todo'[x] = <<"set_paid">>
           /\ name = "set_paid" => EventAt(at[x]).type = "RoundExecuted" /\ todo'[x] = <<>>
           /\ name = "select_balance" =>
                EventAt(at[x]).type = "PayoutSent" /\ todo'[x] = <<"update_balance">>
           /\ name = "update_balance" =>
                /\ EventAt(at[x]).type = "PayoutSent"
                /\ todo[x] = <<"update_balance">> /\ todo'[x] = <<>>
           /\ name = "set_defaulted" =>
                /\ EventAt(at[x]).type = "DefaultDetected"
                /\ todo'[x] = <<"select_round", "update_round">>
           /\ name = "select_round" =>
                EventAt(at[x]).type = "DefaultDetected" /\ todo'[x] = <<"update_round">>
           /\ name = "update_round" =>
                /\ EventAt(at[x]).type = "DefaultDetected"
                /\ todo[x] = <<"update_round">> /\ todo'[x] = <<>>
<1>1. StatementOf(x) /\ faults' = faults /\ Head(todo[x]) = name /\ todo'[x] = Tail(todo[x])
  BY StatementIs
<1>2. Working(x) /\ todo[x] # <<>> /\ todo[x] \in Remaining[EventAt(at[x]).type]
  BY <1>1 DEF StatementOf
<1>3. EventAt(at[x]).type \in EventType
  BY <1>2, WorkersEvent
<1>4. PICK type \in EventType : type = EventAt(at[x]).type
  BY <1>3
<1>5. PICK s \in Remaining[type] : s = todo[x] /\ s # <<>>
  BY <1>2, <1>4
<1>6. Head(s) = name /\ Tail(s) = todo'[x]
  BY <1>1, <1>5
<1>7. name = "update_status" => StatusEvent(EventAt(at[x])) /\ todo'[x] = <<>>
  BY <1>4, <1>5, <1>6, RemainingHead DEF StatusEvent
<1>8. /\ name = "insert_member" => type = "MemberJoined" /\ todo'[x] = <<>>
      /\ name = "upsert_round" =>
           /\ type = "RoundExecuted" /\ s = <<"upsert_round", "set_paid">>
           /\ todo'[x] = <<"set_paid">>
      /\ name = "set_paid" => type = "RoundExecuted" /\ todo'[x] = <<>>
  BY <1>5, <1>6, RemainingHead
<1>9. /\ name = "select_balance" => type = "PayoutSent" /\ todo'[x] = <<"update_balance">>
      /\ name = "update_balance" =>
           type = "PayoutSent" /\ s = <<"update_balance">> /\ todo'[x] = <<>>
  BY <1>5, <1>6, RemainingHead
<1>10. /\ name = "set_defaulted" =>
            type = "DefaultDetected" /\ todo'[x] = <<"select_round", "update_round">>
       /\ name = "select_round" => type = "DefaultDetected" /\ todo'[x] = <<"update_round">>
       /\ name = "update_round" =>
            type = "DefaultDetected" /\ s = <<"update_round">> /\ todo'[x] = <<>>
  BY <1>5, <1>6, RemainingHead
<1> QED
  BY <1>1, <1>2, <1>4, <1>5, <1>7, <1>8, <1>9, <1>10

LEMMA ReadsKept ==
    ASSUME DerivedInv, NEW x \in Indexer, StatementOf(x) \/ Leaves(x),
           RoundRead(x)'
    PROVE  \A y \in Indexer : RoundRead(y)'
<1> SUFFICES ASSUME NEW y \in Indexer, y # x
             PROVE  RoundRead(y)'
  OBVIOUS
<1>1. stage'[y] = stage[y] /\ todo'[y] = todo[y] /\ readValue'[y] = readValue[y]
  BY DEF StatementOf, Leaves
<1>2. RoundRead(y)
  BY DEF DerivedInv
<1> QED
  BY <1>1, <1>2 DEF RoundRead, Working

LEMMA StatementDerived ==
    ASSUME BaseInv, RemainingInv, DerivedInv, NEW x \in Indexer, Work(x),
           ~InsertEvent(x), ~SkipDuplicate(x), ~EnqueueNotifications(x)
    PROVE  DerivedInv'
<1>a. PICK e : e = EventAt(at[x])
  OBVIOUS
<1>b. <<>> # <<"update_round">> /\ <<"set_paid">> # <<"update_round">>
      /\ <<"update_balance">> # <<"update_round">>
      /\ <<"select_round", "update_round">> # <<"update_round">>
  OBVIOUS
<1>c. Working(x) => EventOK(e)
  BY <1>a, WorkersEvent
<1>1. CASE InsertMember(x)
  <2>1. /\ memberStatus' = [memberStatus EXCEPT ![e.member] = IF @ = "none" THEN "active" ELSE @]
        /\ UNCHANGED <<kyeStatus, rounds, defaulted_members, readValue>>
        /\ Statement(x, "insert_member")
    BY <1>1, <1>a DEF InsertMember, Current
  <2>2. StatementOf(x) /\ todo'[x] = <<>>
    BY <2>1, AboutTo
  <2>3. memberStatus' \in [Member -> {"none", "active", "paid", "defaulted"}]
    BY <2>1 DEF DerivedInv
  <2>4. RoundRead(x)'
    BY <1>b, <2>2 DEF RoundRead
  <2> QED
    BY <2>1, <2>2, <2>3, <2>4, ReadsKept DEF DerivedInv
<1>2. CASE UpdateStatus(x)
  <2>1. /\ kyeStatus' = StatusOf[e.type]
        /\ UNCHANGED <<memberStatus, rounds, defaulted_members, readValue>>
        /\ Statement(x, "update_status")
    BY <1>2, <1>a DEF UpdateStatus, Current
  <2>2. StatementOf(x) /\ todo'[x] = <<>> /\ StatusEvent(e)
    BY <1>a, <2>1, AboutTo
  <2>3. kyeStatus' \in {"created", "active", "completed", "cancelled"}
    BY <2>1, <2>2 DEF StatusEvent, StatusOf
  <2>4. RoundRead(x)'
    BY <1>b, <2>2 DEF RoundRead
  <2> QED
    BY <2>1, <2>2, <2>3, <2>4, ReadsKept DEF DerivedInv
<1>3. CASE UpsertRound(x)
  <2>1. /\ rounds' = rounds \cup {e.round}
        /\ UNCHANGED <<kyeStatus, memberStatus, defaulted_members, readValue>>
        /\ Statement(x, "upsert_round")
    BY <1>3, <1>a DEF UpsertRound, Current
  <2>2. StatementOf(x) /\ todo'[x] = <<"set_paid">> /\ e.type = "RoundExecuted" /\ Working(x)
    BY <1>a, <2>1, AboutTo
  <2>3. rounds' \subseteq Member
    BY <1>c, <2>1, <2>2 DEF EventOK, DerivedInv
  <2>4. RoundRead(x)'
    BY <1>b, <2>2 DEF RoundRead
  <2> QED
    BY <2>1, <2>2, <2>3, <2>4, ReadsKept DEF DerivedInv
<1>4. ASSUME NEW name, NEW status \in {"paid", "defaulted"}, SetMember(x, name, status),
             name \in {"set_paid", "set_defaulted"}
      PROVE  DerivedInv'
  <2>1. /\ memberStatus' = [memberStatus EXCEPT ![e.member] = IF @ = "none" THEN @ ELSE status]
        /\ UNCHANGED <<kyeStatus, rounds, defaulted_members, readValue>>
        /\ Statement(x, name)
    BY <1>4, <1>a DEF SetMember, Current
  <2>2. StatementOf(x) /\ todo'[x] # <<"update_round">>
    BY <1>4, <1>b, <2>1, AboutTo
  <2>3. memberStatus' \in [Member -> {"none", "active", "paid", "defaulted"}]
    BY <2>1 DEF DerivedInv
  <2>4. RoundRead(x)'
    BY <2>2 DEF RoundRead
  <2> QED
    BY <2>1, <2>2, <2>3, <2>4, ReadsKept DEF DerivedInv
<1>5. CASE SelectRound(x)
  <2>1. /\ readValue' = [readValue EXCEPT ![x] =
              IF e.round \in rounds THEN <<defaulted_members[e.round]>> ELSE <<>>]
        /\ UNCHANGED <<kyeStatus, memberStatus, rounds, defaulted_members>>
        /\ Statement(x, "select_round")
    BY <1>5, <1>a DEF SelectRound, Current, derived
  <2>2. StatementOf(x) /\ e.type = "DefaultDetected" /\ Working(x)
    BY <1>a, <2>1, AboutTo
  <2>3. e.round \in Member
    BY <1>c, <2>2 DEF EventOK
  <2>4. readValue = [y \in Indexer |-> readValue[y]]
    BY DEF BaseInv, CreditInv, TodoInv
  <2>5. readValue'[x] = <<>> \/ \E S \in SUBSET Member : readValue'[x] = <<S>>
    BY <2>1, <2>3, <2>4 DEF DerivedInv
  <2>6. RoundRead(x)'
    BY <2>5 DEF RoundRead
  <2> QED
    BY <2>1, <2>2, <2>6, ReadsKept DEF DerivedInv
<1>6. CASE UpdateRound(x)
  <2>1. /\ defaulted_members' =
              IF readValue[x] = <<>> THEN defaulted_members
              ELSE [defaulted_members EXCEPT ![e.round] = readValue[x][1] \cup {e.member}]
        /\ readValue' = [readValue EXCEPT ![x] = <<>>]
        /\ UNCHANGED <<kyeStatus, memberStatus, rounds>>
        /\ Statement(x, "update_round")
    BY <1>6, <1>a DEF UpdateRound, Current
  <2>2. /\ StatementOf(x) /\ e.type = "DefaultDetected" /\ Working(x)
        /\ todo[x] = <<"update_round">> /\ todo'[x] = <<>>
    BY <1>a, <2>1, AboutTo
  <2>3. e.member \in Member
    BY <1>c, <2>2 DEF EventOK
  <2>4. readValue[x] = <<>> \/ \E S \in SUBSET Member : readValue[x] = <<S>>
    BY <2>2 DEF DerivedInv, RoundRead
  <2>5. defaulted_members' \in [Member -> SUBSET Member]
    <3>1. CASE readValue[x] = <<>>
      BY <2>1, <3>1 DEF DerivedInv
    <3>2. CASE readValue[x] # <<>>
      <4>1. PICK S \in SUBSET Member : readValue[x] = <<S>>
        BY <2>4, <3>2
      <4>2. defaulted_members' = [defaulted_members EXCEPT ![e.round] = S \cup {e.member}]
        BY <2>1, <3>2, <4>1
      <4>3. S \cup {e.member} \in SUBSET Member
        BY <2>3
      <4> QED
        BY <4>2, <4>3 DEF DerivedInv
    <3> QED
      BY <3>1, <3>2
  <2>6. RoundRead(x)'
    BY <1>b, <2>2 DEF RoundRead
  <2> QED
    BY <2>1, <2>2, <2>5, <2>6, ReadsKept DEF DerivedInv
<1>7. CASE SelectBalance(x)
  <2>1. /\ \E v : readValue' = [readValue EXCEPT ![x] = v]
        /\ UNCHANGED <<kyeStatus, memberStatus, rounds, defaulted_members>>
        /\ Statement(x, "select_balance")
    BY <1>7 DEF SelectBalance, derived
  <2>2. StatementOf(x) /\ todo'[x] = <<"update_balance">>
    BY <2>1, AboutTo
  <2>3. RoundRead(x)'
    BY <1>b, <2>2 DEF RoundRead
  <2> QED
    BY <2>1, <2>2, <2>3, ReadsKept DEF DerivedInv
<1>8. CASE UpdateBalance(x)
  <2>1. /\ readValue' = [readValue EXCEPT ![x] = <<>>]
        /\ UNCHANGED <<kyeStatus, memberStatus, rounds, defaulted_members>>
        /\ Statement(x, "update_balance")
    BY <1>8 DEF UpdateBalance
  <2>2. StatementOf(x) /\ todo'[x] = <<>>
    BY <2>1, AboutTo
  <2>3. RoundRead(x)'
    BY <1>b, <2>2 DEF RoundRead
  <2> QED
    BY <2>1, <2>2, <2>3, ReadsKept DEF DerivedInv
<1> QED
  BY <1>1, <1>2, <1>3, <1>4, <1>5, <1>6, <1>7, <1>8 DEF Work

LEMMA DerivedStep ==
    IndexerAssumption /\ BaseInv /\ RemainingInv /\ faults \in Nat /\ DerivedInv /\ [Next]_vars
      => DerivedInv'
<1> SUFFICES ASSUME IndexerAssumption, BaseInv, RemainingInv, faults \in Nat, DerivedInv,
                    [Next]_vars
             PROVE  DerivedInv'
  OBVIOUS
<1>a. <<>> # <<"update_round">>
  OBVIOUS
<1>1. CASE UNCHANGED vars \/ Chain
  <2>1. UNCHANGED <<kyeStatus, memberStatus, rounds, defaulted_members, stage, todo, readValue>>
    BY <1>1, ChainIs DEF vars, process, derived
  <2> QED
    BY <2>1 DEF DerivedInv, RoundRead, Working
<1>2. ASSUME NEW x \in Indexer, Leaves(x)
      PROVE  DerivedInv'
  <2>1. UNCHANGED <<kyeStatus, memberStatus, rounds, defaulted_members>> /\ todo'[x] = <<>>
    BY <1>2 DEF Leaves, derived
  <2>2. RoundRead(x)'
    BY <1>a, <2>1 DEF RoundRead
  <2> QED
    BY <1>2, <2>1, <2>2, ReadsKept DEF DerivedInv
<1>3. ASSUME NEW x \in Indexer, InsertEvent(x)
      PROVE  DerivedInv'
  <2>1. /\ UNCHANGED <<kyeStatus, memberStatus, rounds, defaulted_members, readValue>>
        /\ todo'[x] = SideEffects[EventAt(at[x]).type] /\ at[x] \in Positions
        /\ \A y \in Indexer \ {x} : stage'[y] = stage[y] /\ todo'[y] = todo[y]
    BY <1>3, InsertIs DEF derived
  <2>2. EventAt(at[x]).type \in EventType
    BY <2>1 DEF BaseInv, EmittedInv, OrderOfEvents, EventOK, Event
  <2>3. \A type \in EventType : SideEffects[type] # <<"update_round">>
    BY DEF EventType, NOTIFICATION_MATRIX, SideEffects
  <2>4. \A y \in Indexer : RoundRead(y)'
    BY <2>1, <2>2, <2>3 DEF RoundRead, DerivedInv, Working
  <2> QED
    BY <2>1, <2>4 DEF DerivedInv
<1>4. ASSUME NEW x \in Indexer, StatementFails(x)
      PROVE  DerivedInv'
  <2>1. /\ UNCHANGED <<kyeStatus, memberStatus, rounds, defaulted_members>>
        /\ StatementOf(x) /\ readValue'[x] = <<>>
    BY <1>4, FailureIs DEF derived
  <2>2. RoundRead(x)'
    BY <2>1 DEF RoundRead
  <2> QED
    BY <2>1, <2>2, ReadsKept DEF DerivedInv
<1>5. ASSUME NEW x \in Indexer, Work(x), ~InsertEvent(x)
      PROVE  DerivedInv'
  BY <1>2, <1>5, LeavesIs, StatementDerived
<1> QED
  BY <1>1, <1>2, <1>3, <1>4, <1>5, LeavesIs DEF Next

(* Enqueueing adds the jobs of the event to the bag; with a queue and no    *)
(* failure, all of them.                                                    *)
LEMMA EnqueuedJobs ==
    ASSUME BaseInv, NEW x \in Indexer, EnqueueNotifications(x)
    PROVE  \/ jobs' = jobs /\ x \notin Notifier
           \/ \E S \in SUBSET NOTIFICATION_MATRIX[EventAt(at[x]).type] :
                /\ DOMAIN jobs' = DOMAIN jobs \cup ({at[x]} \X S)
                /\ S = NOTIFICATION_MATRIX[EventAt(at[x]).type] \/ Fault
<1>1. CASE x \notin Notifier
  BY <1>1 DEF EnqueueNotifications
<1>2. CASE x \in Notifier
  <2>1. PICK S \in SUBSET NOTIFICATION_MATRIX[EventAt(at[x]).type] :
          /\ S = NOTIFICATION_MATRIX[EventAt(at[x]).type] \/ Fault
          /\ jobs' = jobs (+) SetToBag({<<at[x], to>> : to \in S})
    BY <1>2 DEF EnqueueNotifications, Current
  <2> DEFINE Added == {<<at[x], to>> : to \in S}
  <2>2. \A j \in Added : j \notin DOMAIN jobs
    BY DEF EnqueueNotifications, Working, BaseInv, IInv, OneWorker
  <2>3. \A j \in DOMAIN jobs : jobs[j] = 1
    BY DEF BaseInv, IInv, NotifiedOnce
  <2>4. Added = {at[x]} \X S
    OBVIOUS
  <2>5. jobs' = jobs (+) SetToBag(Added)
    BY <2>1
  <2> HIDE DEF Added
  <2>6. DOMAIN jobs' = DOMAIN jobs \cup Added
    BY <2>2, <2>3, <2>5, AddFresh
  <2> QED
    BY <2>1, <2>4, <2>6
<1> QED
  BY <1>1, <1>2

LEMMA AdvanceRange ==
    ASSUME ShapeInv, NEW x \in Indexer, Advance(x), \A y \in Indexer : ~InBatch(y) => at[y] = <<0, 0>>
    PROVE  \A y \in Indexer : ~InBatch(y)' => at'[y] = <<0, 0>>
<1>1. InBatch(x)' \/ at'[x] = <<0, 0>>
  BY DEF Advance, ShapeInv, InBatch
<1>2. \A y \in Indexer \ {x} : stage'[y] = stage[y] /\ at'[y] = at[y]
  BY AdvanceMoves
<1> QED
  BY <1>1, <1>2 DEF InBatch

LEMMA RangeStep ==
    IndexerAssumption /\ BaseInv /\ RemainingInv /\ RangeInv /\ [Next]_vars => RangeInv'
<1> SUFFICES ASSUME IndexerAssumption, BaseInv, RemainingInv, RangeInv, [Next]_vars
             PROVE  RangeInv'
  OBVIOUS
<1>a. /\ stage \in [Indexer -> {"down", "sleep", "insert", "work", "save"}]
      /\ at = [y \in Indexer |-> at[y]] /\ tracked \in [Indexer -> BOOLEAN]
      /\ ShapeInv
  BY DEF BaseInv, IInv, ShapeInv, RangeInv
<1>b. ASSUME chain' = chain
      PROVE  Positions' = Positions
  BY <1>b DEF Positions
<1>1. CASE Chain
  <2>1. UNCHANGED <<lost, jobs, tracked, stage, at, overlapped>> /\ Positions \subseteq Positions'
    BY <1>1, ChainIs DEF process
  <2>2. JobTo' = JobTo
    BY DEF JobTo
  <2>3. DOMAIN jobs' \subseteq Positions' \X JobTo
    BY <2>1 DEF RangeInv
  <2> QED
    BY <2>1, <2>2, <2>3 DEF RangeInv, InBatch
<1>2. CASE UNCHANGED vars
  BY <1>2 DEF vars, process, RangeInv, InBatch, Positions, JobTo
<1>3. ASSUME NEW x \in Indexer, StatementOf(x)
      PROVE  RangeInv'
  BY <1>3 DEF StatementOf, RangeInv, InBatch, Positions, JobTo
<1>4. ASSUME NEW x \in Indexer, InsertEvent(x)
      PROVE  RangeInv'
  <2>1. /\ UNCHANGED <<chain, lost, jobs, tracked, at, overlapped>>
        /\ stage' = [stage EXCEPT ![x] = "work"]
    BY <1>4 DEF InsertEvent
  <2>2. \A y \in Indexer : ~InBatch(y)' => ~InBatch(y)
    BY <1>a, <2>1 DEF InBatch
  <2> QED
    BY <2>1, <2>2 DEF RangeInv, Positions, JobTo
<1>5. ASSUME NEW x \in Indexer, Start(x)
      PROVE  RangeInv'
  <2>1. /\ UNCHANGED <<chain, lost, jobs, at>>
        /\ stage' = [stage EXCEPT ![x] = "sleep"] /\ stage[x] = "down"
        /\ tracked' = [tracked EXCEPT ![x] = kyeStatus # "cancelled"]
        /\ overlapped' = (overlapped \/ \E y \in Indexer : stage[y] # "down")
    BY <1>5 DEF Start
  <2>2. \A y \in Indexer : ~InBatch(y)' => ~InBatch(y)
    BY <1>a, <2>1 DEF InBatch
  <2>3. tracked' \in [Indexer -> BOOLEAN]
    BY <1>a, <2>1, Zenon
  <2>4. overlapped' \in BOOLEAN
    BY <2>1, Zenon
  <2> QED
    BY <2>1, <2>2, <2>3, <2>4 DEF RangeInv, Positions, JobTo
<1>6. ASSUME NEW x \in Indexer, Crash(x)
      PROVE  RangeInv'
  <2>1. /\ UNCHANGED <<chain, lost, jobs, overlapped>>
        /\ stage' = [stage EXCEPT ![x] = "down"]
        /\ tracked' = [tracked EXCEPT ![x] = FALSE] /\ at' = [at EXCEPT ![x] = <<0, 0>>]
    BY <1>6 DEF Crash
  <2>2. \A y \in Indexer : ~InBatch(y)' => at'[y] = <<0, 0>>
    BY <1>a, <2>1 DEF InBatch, RangeInv
  <2>3. tracked' \in [Indexer -> BOOLEAN]
    BY <1>a, <2>1
  <2> QED
    BY <2>1, <2>2, <2>3 DEF RangeInv, Positions, JobTo
<1>7. ASSUME NEW x \in Indexer, Fetch(x)
      PROVE  RangeInv'
  <2>1. /\ UNCHANGED <<chain, jobs, overlapped>>
        /\ stage' = [stage EXCEPT ![x] = "insert"]
        /\ tracked' = [tracked EXCEPT ![x] = TRUE]
        /\ \E p : at' = [at EXCEPT ![x] = p]
        /\ lost' \subseteq lost \cup UNION {Emitted(t) : t \in EventType}
    BY <1>7 DEF Fetch
  <2>2. \A y \in Indexer : ~InBatch(y)' => at'[y] = <<0, 0>>
    BY <1>a, <2>1 DEF InBatch, RangeInv
  <2>3. tracked' \in [Indexer -> BOOLEAN]
    BY <1>a, <2>1
  <2>4. lost' \subseteq Positions'
    <3>1. \A t : Emitted(t) \subseteq Positions
      BY EmittedAre
    <3> QED
      BY <1>b, <2>1, <3>1 DEF RangeInv
  <2> QED
    BY <1>b, <2>1, <2>2, <2>3, <2>4 DEF RangeInv, JobTo
<1>8. ASSUME NEW x \in Indexer, SaveCursor(x)
      PROVE  RangeInv'
  <2>1. /\ UNCHANGED <<chain, lost, jobs, tracked, at, overlapped>>
        /\ stage' = [stage EXCEPT ![x] = "sleep"] /\ stage[x] = "save"
    BY <1>8 DEF SaveCursor
  <2>2. \A y \in Indexer : ~InBatch(y)' => ~InBatch(y)
    BY <1>a, <2>1 DEF InBatch
  <2> QED
    BY <2>1, <2>2 DEF RangeInv, Positions, JobTo
<1>9. ASSUME NEW x \in Indexer, SkipDuplicate(x) \/ InsertFails(x)
      PROVE  RangeInv'
  <2>1. /\ UNCHANGED <<chain, jobs, tracked, overlapped>> /\ InBatch(x) /\ Advance(x)
        /\ lost' \subseteq lost \cup {at[x]}
    BY <1>9 DEF SkipDuplicate, InsertFails, InBatch
  <2>2. at[x] \in Positions
    BY <2>1 DEF BaseInv, CInv, BoundInv
  <2>3. \A y \in Indexer : ~InBatch(y)' => at'[y] = <<0, 0>>
    BY <1>a, <2>1, AdvanceRange DEF RangeInv
  <2> QED
    BY <1>b, <2>1, <2>2, <2>3 DEF RangeInv, JobTo
<1>10. ASSUME NEW x \in Indexer, EnqueueNotifications(x)
       PROVE  RangeInv'
  <2>1. UNCHANGED <<chain, lost, tracked, overlapped>> /\ InBatch(x) /\ Advance(x) /\ Working(x)
    BY <1>10 DEF EnqueueNotifications, InBatch, Working
  <2>2. at[x] \in Positions /\ EventAt(at[x]).type \in EventType
    BY <2>1, WorkersEvent
  <2>3. \A y \in Indexer : ~InBatch(y)' => at'[y] = <<0, 0>>
    BY <1>a, <2>1, AdvanceRange DEF RangeInv
  <2>4. NOTIFICATION_MATRIX[EventAt(at[x]).type] \subseteq JobTo
    BY <2>2 DEF JobTo
  <2>5. DOMAIN jobs' \subseteq Positions \X JobTo
    <3>1. DOMAIN jobs \subseteq Positions \X JobTo
      BY DEF RangeInv
    <3>2. CASE jobs' = jobs
      BY <3>1, <3>2
    <3>3. ASSUME NEW S \in SUBSET NOTIFICATION_MATRIX[EventAt(at[x]).type],
                 DOMAIN jobs' = DOMAIN jobs \cup ({at[x]} \X S)
          PROVE  DOMAIN jobs' \subseteq Positions \X JobTo
      <4>1. S \subseteq JobTo
        BY <2>4
      <4> QED
        BY <2>2, <3>1, <3>3, <4>1
    <3> QED
      BY <1>10, <3>2, <3>3, EnqueuedJobs
  <2> QED
    BY <1>b, <2>1, <2>3, <2>5 DEF RangeInv, JobTo
<1>11. ASSUME NEW x \in Indexer, Work(x)
       PROVE  RangeInv'
  <2>1. ASSUME NEW name, Statement(x, name)
        PROVE  RangeInv'
    <3>1. UNCHANGED <<chain, lost, jobs, tracked, stage, at, overlapped>>
      BY <2>1 DEF Statement
    <3> QED
      BY <3>1 DEF RangeInv, InBatch, Positions, JobTo
  <2>2. CASE \E name : Statement(x, name)
    BY <2>1, <2>2
  <2> QED
    BY <1>4, <1>9, <1>10, <1>11, <2>2 DEF Work, InsertMember, UpdateStatus, UpsertRound,
       SetMember, SelectRound, UpdateRound, SelectBalance, UpdateBalance
<1>12. ASSUME NEW x \in Indexer, StatementFails(x)
       PROVE  RangeInv'
  BY <1>3, <1>12, FailureIs
<1> QED
  BY <1>1, <1>2, <1>5, <1>6, <1>7, <1>8, <1>9, <1>11, <1>12 DEF Next

LEMMA InitRange == Init => DerivedInv /\ RangeInv
<1> SUFFICES ASSUME Init
             PROVE  DerivedInv /\ RangeInv
  OBVIOUS
<1>1. DerivedInv
  BY DEF Init, DerivedInv, RoundRead, Working
<1>2. DOMAIN jobs = {}
  BY DEF Init, EmptyBag, SetToBag
<1>3. RangeInv
  BY <1>2 DEF Init, RangeInv
<1> QED
  BY <1>1, <1>3

(* The ranges follow: every statement to come is one of applySideEffects.   *)
LEMMA RangesAre ==
    ASSUME Settles, DerivedInv, RangeInv
    PROVE  TypeOK
<1>a. IndexerAssumption /\ BaseInv /\ ChainInv /\ BoundInv /\ ShapeInv /\ NotifiedOnce
  BY IndexerAssumption DEF Settles, BaseInv, CInv, IInv
<1>1. \A p \in Positions : EventAt(p) \in Event
  BY DEF Settles, BaseInv, EmittedInv, OrderOfEvents, EventOK
<1>2. \A x \in Indexer : InBatch(x) => at[x] \in Positions
  BY <1>a DEF BoundInv
<1>3. <<0, 0>> \notin Positions
  BY <1>a, PositionFacts
<1>4. at \in [Indexer -> Place]
  BY <1>a, <1>2 DEF ShapeInv, RangeInv, Place
<1>5. \A x \in Indexer : at[x] # <<0, 0>> <=> stage[x] \in {"insert", "work"}
  BY <1>2, <1>3 DEF RangeInv, InBatch
<1>6. \A j \in DOMAIN jobs : jobs[j] \in Nat \ {0}
  BY <1>a DEF NotifiedOnce
<1>7. \A x \in Indexer : \A k \in DOMAIN todo[x] : todo[x][k] \in StatementName
  <2>1. \A name \in {"insert_member", "update_status", "upsert_round", "set_paid",
                     "select_balance", "update_balance", "set_defaulted", "select_round",
                     "update_round"} : name \in StatementName
    <3>1. /\ "insert_member" = SideEffects["MemberJoined"][1] /\ 1 \in DOMAIN SideEffects["MemberJoined"]
          /\ "update_status" = SideEffects["KyeActivated"][1] /\ 1 \in DOMAIN SideEffects["KyeActivated"]
          /\ "upsert_round" = SideEffects["RoundExecuted"][1] /\ 1 \in DOMAIN SideEffects["RoundExecuted"]
          /\ "set_paid" = SideEffects["RoundExecuted"][2] /\ 2 \in DOMAIN SideEffects["RoundExecuted"]
          /\ "select_balance" = SideEffects["PayoutSent"][1] /\ 1 \in DOMAIN SideEffects["PayoutSent"]
          /\ "update_balance" = SideEffects["PayoutSent"][2] /\ 2 \in DOMAIN SideEffects["PayoutSent"]
      BY DEF SideEffects
    <3>2. /\ "set_defaulted" = SideEffects["DefaultDetected"][1] /\ 1 \in DOMAIN SideEffects["DefaultDetected"]
          /\ "select_round" = SideEffects["DefaultDetected"][2] /\ 2 \in DOMAIN SideEffects["DefaultDetected"]
          /\ "update_round" = SideEffects["DefaultDetected"][3] /\ 3 \in DOMAIN SideEffects["DefaultDetected"]
      BY DEF SideEffects
    <3>3. {"MemberJoined", "KyeActivated", "RoundExecuted", "PayoutSent", "DefaultDetected"}
            \subseteq EventType
      BY DEF EventType, NOTIFICATION_MATRIX
    <3>4. \A t \in EventType : \A k \in DOMAIN SideEffects[t] : SideEffects[t][k] \in StatementName
      BY DEF StatementName
    <3> QED
      BY <3>1, <3>2, <3>3, <3>4
  <2> SUFFICES ASSUME NEW x \in Indexer
               PROVE  \A k \in DOMAIN todo[x] : todo[x][k] \in StatementName
    OBVIOUS
  <2>2. todo[x] \in PayoutTodo \cup OtherTodo
    <3>1. CASE Working(x)
      BY <1>a, <3>1 DEF BaseInv, CreditInv, TodoInv
    <3>2. CASE ~Working(x)
      BY <3>2, IdleTodo DEF Settles, PayoutTodo
    <3> QED
      BY <3>1, <3>2
  <2>3. CASE todo[x] \in PayoutTodo
    BY <2>1, <2>3 DEF PayoutTodo
  <2>4. CASE todo[x] \in OtherTodo
    BY <2>1, <2>4 DEF OtherTodo
  <2> QED
    BY <2>2, <2>3, <2>4
<1>8. /\ rows \subseteq Positions /\ lost \subseteq Positions
      /\ savedLt \in 0..Len(chain)
      /\ lastProcessedLt \in [Indexer -> 0..Len(chain)] /\ upto \in [Indexer -> 0..Len(chain)]
      /\ stage \in [Indexer -> {"down", "sleep", "insert", "work", "save"}]
      /\ credited \in [Member -> Nat]
      /\ faults \in 0..MaxFaults
  BY <1>a DEF BoundInv, ShapeInv, RangeInv, Settles, BaseInv, CreditInv, TodoInv
<1> QED
  BY <1>1, <1>4, <1>5, <1>6, <1>7, <1>8 DEF TypeOK, DerivedInv, RangeInv

(* Every variable keeps to its range, for any number of processes, members, *)
(* transactions and failures.                                               *)
THEOREM IndexerTypes == Spec => []TypeOK
<1>1. Settles /\ DerivedInv /\ RangeInv /\ [Next]_vars => DerivedInv' /\ RangeInv'
  <2>1. Settles => faults \in Nat /\ BaseInv /\ RemainingInv
    BY DEF Settles
  <2> QED
    BY <2>1, IndexerAssumption, DerivedStep, RangeStep
<1> QED
  BY InitSettles, SettlesStep, InitRange, <1>1, RangesAre, PTL DEF Spec

-----------------------------------------------------------------------------
(* The derived tables match what was recorded, when nothing went wrong. *)

(* Between its statements a process owes what it owed, but for its event.   *)
StatementFrame(x, here) ==
    /\ at[x] = here /\ here \in rows /\ rows' = rows
    /\ \A p : EventAt(p)' = EventAt(p)
    /\ \A p : p # here => (Owed(p)' <=> Owed(p)) /\ (RoundOwed(p)' <=> RoundOwed(p))
    /\ Owed(here) /\ (Owed(here)' <=> todo'[x] # <<>>)
    /\ RoundOwed(here) <=> todo[x] = <<"upsert_round", "set_paid">>
    /\ RoundOwed(here)' <=> todo'[x] = <<"upsert_round", "set_paid">>
    /\ \A y \in Indexer : Working(y)' <=> Working(y)
    /\ at' = at
    /\ \A y \in Indexer \ {x} : todo'[y] = todo[y] /\ readValue'[y] = readValue[y]

LEMMA FrameIs ==
    ASSUME BaseInv, NEW x \in Indexer, StatementOf(x)
    PROVE  StatementFrame(x, at[x])
<1>1. PICK here : here = at[x]
  OBVIOUS
<1>2. /\ Working(x) /\ todo[x] # <<>> /\ UNCHANGED <<chain, rows, stage, at>>
      /\ \A y \in Indexer \ {x} : todo'[y] = todo[y] /\ readValue'[y] = readValue[y]
  BY DEF StatementOf
<1>3. here \in rows /\ \A y \in Indexer : Working(y) /\ at[y] = here => y = x
  BY <1>1, <1>2, WorkersEvent
<1>4. \A y \in Indexer : Working(y)' <=> Working(y)
  BY <1>2 DEF Working
<1>5. \A p : p # here => (Owed(p)' <=> Owed(p)) /\ (RoundOwed(p)' <=> RoundOwed(p))
  BY <1>1, <1>2, <1>4 DEF Owed, RoundOwed
<1>6. /\ Owed(here) /\ (Owed(here)' <=> todo'[x] # <<>>)
      /\ RoundOwed(here) <=> todo[x] = <<"upsert_round", "set_paid">>
      /\ RoundOwed(here)' <=> todo'[x] = <<"upsert_round", "set_paid">>
  BY <1>1, <1>2, <1>3, <1>4 DEF Owed, RoundOwed
<1>7. \A p : EventAt(p)' = EventAt(p)
  BY <1>2 DEF EventAt
<1> QED
  BY <1>1, <1>2, <1>3, <1>4, <1>5, <1>6, <1>7 DEF StatementFrame

(* A statement for another type of event leaves a table as it matched.      *)
LEMMA StatusKept ==
    ASSUME StatusMatches, NEW x \in Indexer, NEW here, StatementFrame(x, here),
           kyeStatus' = kyeStatus, ~StatusEvent(EventAt(here))
    PROVE  StatusMatches'
<1>1. ASSUME NEW q \in rows', StatusEvent(EventAt(q)'), ~Owed(q)'
      PROVE  Rank[kyeStatus'] >= StatusRank(EventAt(q)')
  <2>1. q \in rows /\ EventAt(q)' = EventAt(q) /\ StatusEvent(EventAt(q)) /\ ~Owed(q)
    BY <1>1 DEF StatementFrame
  <2> QED
    BY <2>1 DEF StatusMatches
<1> QED
  BY <1>1 DEF StatusMatches, StatusEvent, StatusRank

LEMMA MembersKept ==
    ASSUME MembersMatch, NEW x \in Indexer, NEW here, StatementFrame(x, here),
           \A m \in Member : memberStatus'[m] = "none" <=> memberStatus[m] = "none",
           EventAt(here).type # "MemberJoined"
    PROVE  MembersMatch'
<1>1. ASSUME NEW m \in Member
      PROVE  (\E q \in rows' : EventAt(q)'.type = "MemberJoined" /\ EventAt(q)'.member = m /\ ~Owed(q)')
               <=> (\E q \in rows : EventAt(q).type = "MemberJoined" /\ EventAt(q).member = m /\ ~Owed(q))
  BY DEF StatementFrame
<1> QED
  BY <1>1 DEF MembersMatch

LEMMA RoundsKeptHere ==
    ASSUME RoundsMatch, NEW x \in Indexer, NEW here, StatementFrame(x, here),
           rounds' = rounds, RoundOwed(here)' <=> RoundOwed(here)
    PROVE  RoundsMatch'
<1>1. ASSUME NEW r \in Member
      PROVE  (\E q \in rows' : EventAt(q)'.type = "RoundExecuted" /\ EventAt(q)'.round = r /\ ~RoundOwed(q)')
               <=> (\E q \in rows : EventAt(q).type = "RoundExecuted" /\ EventAt(q).round = r /\ ~RoundOwed(q))
  BY DEF StatementFrame
<1> QED
  BY <1>1 DEF RoundsMatch

LEMMA CreditsKept ==
    ASSUME CreditsMatch, NEW x \in Indexer, NEW here, StatementFrame(x, here),
           credited' = credited, EventAt(here).type # "PayoutSent",
           todo'[x] # <<"update_balance">>
    PROVE  CreditsMatch'
<1>1. \A m \in Member : Settled(m)' = Settled(m)
  BY DEF StatementFrame, Settled, PayoutOf
<1>2. ASSUME NEW y \in Indexer, Working(y)', todo'[y] = <<"update_balance">>
      PROVE  readValue'[y] = <<credited'[EventAt(at[y])'.member]>>
  <2>1. y # x /\ Working(y) /\ todo[y] = <<"update_balance">> /\ readValue'[y] = readValue[y]
    BY <1>2 DEF StatementFrame
  <2>2. EventAt(at[y])' = EventAt(at[y])
    <3>1. PICK p : p = at[y]
      OBVIOUS
    <3>2. at'[y] = p /\ EventAt(p)' = EventAt(p)
      BY <3>1 DEF StatementFrame
    <3> QED
      BY <3>1, <3>2 DEF EventAt
  <2> QED
    BY <2>1, <2>2 DEF CreditsMatch
<1> QED
  BY <1>1, <1>2 DEF CreditsMatch

LEMMA JobsKept ==
    ASSUME BaseInv, NothingYet, JobsMatch, NEW x \in Indexer, StatementOf(x)
    PROVE  NothingYet' /\ JobsMatch'
<1>1. /\ UNCHANGED <<chain, rows, jobs, stage, at>> /\ Working(x)
  BY DEF StatementOf
<1>2. NothingYet'
  BY <1>1 DEF NothingYet, Up, Working
<1>3. \A y \in Notifier : Announced(Handled(y))' = Announced(Handled(y))
  BY <1>1 DEF Announced, Handled, Working, EventAt
<1> QED
  BY <1>1, <1>2, <1>3 DEF JobsMatch, Up

(* One statement of an undisturbed process.                                 *)
LEMMA StatementMatch ==
    ASSUME BaseInv, RemainingInv, OrderInv, DerivedInv, Orderly, Matches,
           NEW x \in Indexer, Work(x),
           ~InsertEvent(x), ~SkipDuplicate(x), ~EnqueueNotifications(x)
    PROVE  Matches'
<1>a. PICK here : here = at[x]
  OBVIOUS
<1>b. PICK e : e = EventAt(here)
  OBVIOUS
<1>c. /\ <<>> # <<"update_balance">> /\ <<"set_paid">> # <<"update_balance">>
      /\ <<"select_round", "update_round">> # <<"update_balance">>
      /\ <<"update_round">> # <<"update_balance">>
  OBVIOUS
<1>d. /\ <<>> # <<"upsert_round", "set_paid">> /\ <<"set_paid">> # <<"upsert_round", "set_paid">>
      /\ <<"select_round", "update_round">> # <<"upsert_round", "set_paid">>
      /\ <<"update_round">> # <<"upsert_round", "set_paid">>
      /\ <<"update_balance">> # <<"upsert_round", "set_paid">>
  OBVIOUS
<1>e. NothingYet /\ StatusMatches /\ MembersMatch /\ RoundsMatch /\ CreditsMatch /\ JobsMatch
  BY DEF Matches
<1>f. Working(x) => EventOK(e) /\ here \in Positions /\ here \in rows /\ rows \subseteq Positions
  BY <1>a, <1>b, WorkersEvent
<1>g. ASSUME StatementOf(x), StatusMatches', MembersMatch', RoundsMatch', CreditsMatch'
      PROVE  Matches'
  BY <1>e, <1>g, JobsKept DEF Matches
<1>h. ASSUME StatementOf(x)
      PROVE  StatementFrame(x, here)
  BY <1>a, <1>h, FrameIs
<1>i. e.type # "RoundExecuted" => ~RoundOwed(here) \/ ~StatementOf(x)
  <2> SUFFICES ASSUME e.type # "RoundExecuted", StatementOf(x), RoundOwed(here)
               PROVE  FALSE
    OBVIOUS
  <2>1. todo[x] = <<"upsert_round", "set_paid">> /\ todo[x] \in Remaining[e.type]
        /\ e.type \in EventType /\ Head(todo[x]) = "upsert_round" /\ todo[x] # <<>>
    BY <1>a, <1>b, <1>h, WorkersEvent DEF StatementFrame, StatementOf
  <2> QED
    BY <2>1, RemainingHead
<1>1. CASE InsertMember(x)
  <2>1. /\ memberStatus' = [memberStatus EXCEPT ![e.member] = IF @ = "none" THEN "active" ELSE @]
        /\ UNCHANGED <<kyeStatus, rounds, credited, readValue>>
        /\ Statement(x, "insert_member")
    BY <1>1, <1>a, <1>b DEF InsertMember, Current
  <2>2. StatementOf(x) /\ todo'[x] = <<>> /\ e.type = "MemberJoined" /\ Working(x)
    BY <1>a, <1>b, <2>1, AboutTo
  <2>3. StatementFrame(x, here)
    BY <1>h, <2>2
  <2>4. e.member \in Member
    BY <1>f, <2>2 DEF EventOK
  <2>5. /\ memberStatus'[e.member] # "none"
        /\ \A m \in Member : m # e.member => memberStatus'[m] = memberStatus[m]
    BY <2>1, <2>4 DEF DerivedInv
  <2>6. ASSUME NEW m \in Member
        PROVE  memberStatus'[m] # "none" <=>
          \E q \in rows' : EventAt(q)'.type = "MemberJoined" /\ EventAt(q)'.member = m /\ ~Owed(q)'
    <3>1. CASE m = e.member
      BY <1>b, <2>2, <2>3, <2>5, <3>1 DEF StatementFrame
    <3>2. CASE m # e.member
      <4>1. (\E q \in rows' : EventAt(q)'.type = "MemberJoined" /\ EventAt(q)'.member = m /\ ~Owed(q)')
              <=> (\E q \in rows : EventAt(q).type = "MemberJoined" /\ EventAt(q).member = m /\ ~Owed(q))
        BY <1>b, <2>3, <3>2 DEF StatementFrame
      <4> QED
        BY <1>e, <2>5, <3>2, <4>1 DEF MembersMatch
    <3> QED
      BY <3>1, <3>2
  <2>7. MembersMatch'
    BY <2>6 DEF MembersMatch
  <2>8. ~StatusEvent(EventAt(here)) /\ EventAt(here).type # "PayoutSent"
        /\ todo'[x] # <<"update_balance">> /\ ~RoundOwed(here) /\ ~RoundOwed(here)'
    BY <1>b, <1>c, <1>d, <1>i, <2>2, <2>3 DEF StatusEvent, StatementFrame
  <2> QED
    BY <1>e, <1>g, <2>1, <2>2, <2>3, <2>7, <2>8, StatusKept, RoundsKeptHere, CreditsKept
<1>2. CASE UpdateStatus(x)
  <2>1. /\ kyeStatus' = StatusOf[e.type]
        /\ UNCHANGED <<memberStatus, rounds, credited, readValue>>
        /\ Statement(x, "update_status")
    BY <1>2, <1>a, <1>b DEF UpdateStatus, Current
  <2>2. StatementOf(x) /\ todo'[x] = <<>> /\ StatusEvent(e) /\ Working(x)
    BY <1>a, <1>b, <2>1, AboutTo
  <2>3. StatementFrame(x, here)
    BY <1>h, <2>2
  <2>4. ASSUME NEW q \in rows', StatusEvent(EventAt(q)'), ~Owed(q)'
        PROVE  Rank[kyeStatus'] >= StatusRank(EventAt(q)')
    <3>1. q \in rows /\ EventAt(q)' = EventAt(q) /\ StatusEvent(EventAt(q))
      BY <2>3, <2>4 DEF StatementFrame
    <3>2. Rank[kyeStatus'] = StatusRank(e) /\ StatusRank(e) \in {1, 2}
          /\ StatusRank(EventAt(q)) \in {1, 2}
      BY <2>1, <2>2, <3>1, StatusRanks DEF StatusEvent, StatusRank
    <3>3. q = here \/ Before(q, here)
      BY <1>a, <2>2, <3>1 DEF OrderInv
    <3>4. q # here => StatusRank(EventAt(q)) < StatusRank(e)
      BY <1>b, <1>f, <2>2, <3>1, <3>3 DEF BaseInv, EmittedInv, OrderOfEvents
    <3>5. q = here => StatusRank(EventAt(q)) = StatusRank(e)
      BY <1>b
    <3> QED
      BY <3>1, <3>2, <3>4, <3>5
  <2>5. StatusMatches'
    BY <2>4 DEF StatusMatches, StatusEvent, StatusRank
  <2>6. EventAt(here).type \notin {"MemberJoined", "PayoutSent", "RoundExecuted"}
        /\ todo'[x] # <<"update_balance">> /\ ~RoundOwed(here) /\ ~RoundOwed(here)'
    BY <1>b, <1>c, <1>d, <1>i, <2>2, <2>3 DEF StatusEvent, StatementFrame
  <2> QED
    BY <1>e, <1>g, <2>1, <2>2, <2>3, <2>5, <2>6, MembersKept, RoundsKeptHere, CreditsKept
<1>3. CASE UpsertRound(x)
  <2>1. /\ rounds' = rounds \cup {e.round}
        /\ UNCHANGED <<kyeStatus, memberStatus, credited, readValue>>
        /\ Statement(x, "upsert_round")
    BY <1>3, <1>a, <1>b DEF UpsertRound, Current
  <2>2. /\ StatementOf(x) /\ e.type = "RoundExecuted" /\ Working(x)
        /\ todo[x] = <<"upsert_round", "set_paid">> /\ todo'[x] = <<"set_paid">>
    BY <1>a, <1>b, <2>1, AboutTo
  <2>3. StatementFrame(x, here)
    BY <1>h, <2>2
  <2>4. ~RoundOwed(here)'
    BY <1>d, <2>2, <2>3 DEF StatementFrame
  <2>5. ASSUME NEW r \in Member
        PROVE  r \in rounds' <=>
          \E q \in rows' : EventAt(q)'.type = "RoundExecuted" /\ EventAt(q)'.round = r /\ ~RoundOwed(q)'
    <3>1. CASE r = e.round
      BY <1>b, <2>1, <2>2, <2>3, <2>4, <3>1 DEF StatementFrame
    <3>2. CASE r # e.round
      <4>1. (\E q \in rows' : EventAt(q)'.type = "RoundExecuted" /\ EventAt(q)'.round = r /\ ~RoundOwed(q)')
              <=> (\E q \in rows : EventAt(q).type = "RoundExecuted" /\ EventAt(q).round = r /\ ~RoundOwed(q))
        BY <1>b, <2>3, <3>2 DEF StatementFrame
      <4> QED
        BY <1>e, <2>1, <3>2, <4>1 DEF RoundsMatch
    <3> QED
      BY <3>1, <3>2
  <2>6. RoundsMatch'
    BY <2>5 DEF RoundsMatch
  <2>7. ~StatusEvent(EventAt(here)) /\ EventAt(here).type \notin {"PayoutSent", "MemberJoined"}
        /\ todo'[x] # <<"update_balance">>
    BY <1>b, <1>c, <2>2 DEF StatusEvent
  <2> QED
    BY <1>e, <1>g, <2>1, <2>2, <2>3, <2>6, <2>7, StatusKept, MembersKept, CreditsKept
<1>4. ASSUME NEW name, NEW status \in {"paid", "defaulted"}, SetMember(x, name, status),
             name \in {"set_paid", "set_defaulted"}
      PROVE  Matches'
  <2>1. /\ memberStatus' = [memberStatus EXCEPT ![e.member] = IF @ = "none" THEN @ ELSE status]
        /\ UNCHANGED <<kyeStatus, rounds, credited, readValue>>
        /\ Statement(x, name)
    BY <1>4, <1>a, <1>b DEF SetMember, Current
  <2>2. /\ StatementOf(x) /\ Working(x) /\ e.type \in {"RoundExecuted", "DefaultDetected"}
        /\ todo'[x] \in {<<>>, <<"select_round", "update_round">>}
    BY <1>4, <1>a, <1>b, <2>1, AboutTo
  <2>3. StatementFrame(x, here)
    BY <1>h, <2>2
  <2>4. \A m \in Member : memberStatus'[m] = "none" <=> memberStatus[m] = "none"
    BY <2>1 DEF DerivedInv
  <2>5. todo[x] # <<"upsert_round", "set_paid">>
    <3>1. Head(todo[x]) = name
      BY <2>1 DEF Statement
    <3> QED
      BY <1>4, <3>1
  <2>6. ~StatusEvent(EventAt(here)) /\ EventAt(here).type \notin {"PayoutSent", "MemberJoined"}
        /\ todo'[x] # <<"update_balance">> /\ ~RoundOwed(here) /\ ~RoundOwed(here)'
    BY <1>b, <1>c, <1>d, <2>2, <2>3, <2>5 DEF StatusEvent, StatementFrame
  <2> QED
    BY <1>e, <1>g, <2>1, <2>2, <2>3, <2>4, <2>6, StatusKept, MembersKept, RoundsKeptHere, CreditsKept
<1>5. CASE SelectRound(x) \/ UpdateRound(x)
  <2>1. /\ UNCHANGED <<kyeStatus, memberStatus, rounds, credited>>
        /\ \E v : readValue' = [readValue EXCEPT ![x] = v]
        /\ Statement(x, "select_round") \/ Statement(x, "update_round")
    BY <1>5 DEF SelectRound, UpdateRound, derived
  <2>2. /\ StatementOf(x) /\ Working(x) /\ e.type = "DefaultDetected"
        /\ todo'[x] \in {<<>>, <<"update_round">>}
    BY <1>a, <1>b, <2>1, AboutTo
  <2>3. StatementFrame(x, here)
    BY <1>h, <2>2
  <2>4. ~StatusEvent(EventAt(here)) /\ EventAt(here).type \notin {"PayoutSent", "MemberJoined"}
        /\ todo'[x] # <<"update_balance">> /\ ~RoundOwed(here) /\ ~RoundOwed(here)'
    BY <1>b, <1>c, <1>d, <1>i, <2>2, <2>3 DEF StatusEvent, StatementFrame
  <2> QED
    BY <1>e, <1>g, <2>1, <2>2, <2>3, <2>4, StatusKept, MembersKept, RoundsKeptHere, CreditsKept
<1>6. CASE SelectBalance(x)
  <2>1. /\ UNCHANGED <<kyeStatus, memberStatus, rounds, credited>>
        /\ readValue' = [readValue EXCEPT ![x] = <<credited[e.member]>>]
        /\ Statement(x, "select_balance")
    BY <1>6, <1>a, <1>b DEF SelectBalance, derived, Current
  <2>2. /\ StatementOf(x) /\ Working(x) /\ e.type = "PayoutSent"
        /\ todo'[x] = <<"update_balance">>
    BY <1>a, <1>b, <2>1, AboutTo
  <2>3. StatementFrame(x, here)
    BY <1>h, <2>2
  <2>4. ~StatusEvent(EventAt(here)) /\ EventAt(here).type # "MemberJoined"
        /\ ~RoundOwed(here) /\ ~RoundOwed(here)'
    BY <1>b, <1>c, <1>d, <1>i, <2>2, <2>3 DEF StatusEvent, StatementFrame
  <2>5. Owed(here)'
    BY <2>2, <2>3 DEF StatementFrame
  <2>6. \A m \in Member : Settled(m)' = Settled(m)
    BY <2>3, <2>5 DEF StatementFrame, Settled, PayoutOf
  <2>7. readValue'[x] = <<credited[e.member]>>
    BY <2>1 DEF BaseInv, CreditInv, TodoInv
  <2>8. ASSUME NEW y \in Indexer, Working(y)', todo'[y] = <<"update_balance">>
        PROVE  readValue'[y] = <<credited'[EventAt(at[y])'.member]>>
    <3>1. PICK p : p = at[y]
      OBVIOUS
    <3>2. EventAt(at[y])' = EventAt(p)
      BY <2>3, <3>1 DEF StatementFrame, EventAt
    <3>3. CASE y = x
      BY <1>a, <1>b, <2>1, <2>7, <3>1, <3>2, <3>3
    <3>4. CASE y # x
      <4>1. Working(y) /\ todo[y] = <<"update_balance">> /\ readValue'[y] = readValue[y]
        BY <2>3, <2>8, <3>4 DEF StatementFrame
      <4> QED
        BY <1>e, <2>1, <3>1, <3>2, <4>1 DEF CreditsMatch
    <3> QED
      BY <3>3, <3>4
  <2>9. CreditsMatch'
    BY <1>e, <2>1, <2>6, <2>8 DEF CreditsMatch
  <2> QED
    BY <1>e, <1>g, <2>1, <2>2, <2>3, <2>4, <2>9, StatusKept, MembersKept, RoundsKeptHere
<1>7. CASE UpdateBalance(x)
  <2>1. /\ UNCHANGED <<kyeStatus, memberStatus, rounds>>
        /\ credited' = [credited EXCEPT ![e.member] = readValue[x][1] + 1]
        /\ readValue' = [readValue EXCEPT ![x] = <<>>]
        /\ Statement(x, "update_balance")
    BY <1>7, <1>a, <1>b DEF UpdateBalance, Current
  <2>2. /\ StatementOf(x) /\ Working(x) /\ e.type = "PayoutSent"
        /\ todo[x] = <<"update_balance">> /\ todo'[x] = <<>>
    BY <1>a, <1>b, <2>1, AboutTo
  <2>3. StatementFrame(x, here)
    BY <1>h, <2>2
  <2>4. ~StatusEvent(EventAt(here)) /\ EventAt(here).type # "MemberJoined"
        /\ ~RoundOwed(here) /\ ~RoundOwed(here)'
    BY <1>b, <1>c, <1>d, <1>i, <2>2, <2>3 DEF StatusEvent, StatementFrame
  <2>5. ~Owed(here)' /\ Owed(here)
    BY <2>2, <2>3 DEF StatementFrame
  <2>6. e.member \in Member
    BY <1>f, <2>2 DEF EventOK
  <2>7. Settled(e.member) = {}
    <3> SUFFICES ASSUME NEW q \in rows, PayoutOf(q, e.member), ~Owed(q)
                 PROVE  FALSE
      BY DEF Settled
    <3>1. q \in Emitted("PayoutSent") /\ here \in Emitted("PayoutSent")
      BY <1>b, <1>f, <2>2, EmittedAre DEF PayoutOf
    <3>2. q = here
      BY <1>b, <3>1 DEF PayoutOf, BaseInv, EmittedInv, RoundsInOrder
    <3> QED
      BY <2>5, <3>2
  <2>8. credited[e.member] = 0
    BY <1>e, <2>6, <2>7 DEF CreditsMatch
  <2>9. readValue[x] = <<0>>
    <3>1. readValue[x] = <<credited[EventAt(at[x]).member]>>
      BY <1>e, <2>2 DEF CreditsMatch
    <3> QED
      BY <1>a, <1>b, <2>8, <3>1
  <2>10. /\ credited'[e.member] = 1
         /\ \A m \in Member : m # e.member => credited'[m] = credited[m]
    BY <2>1, <2>6, <2>9 DEF BaseInv, CreditInv, TodoInv
  <2>11. here \in Settled(e.member)'
    BY <1>b, <2>2, <2>3, <2>5 DEF StatementFrame, Settled, PayoutOf
  <2>12. \A m \in Member : m # e.member => Settled(m)' = Settled(m)
    BY <1>b, <2>3 DEF StatementFrame, Settled, PayoutOf
  <2>13. ASSUME NEW m \in Member
         PROVE  credited'[m] = IF Settled(m)' # {} THEN 1 ELSE 0
    BY <1>e, <2>10, <2>11, <2>12 DEF CreditsMatch
  <2>14. ASSUME NEW y \in Indexer, Working(y)', todo'[y] = <<"update_balance">>
         PROVE  readValue'[y] = <<credited'[EventAt(at[y])'.member]>>
    <3>1. y = x
      BY <2>2, <2>3, <2>14 DEF OrderInv, Orderly, OneUp, Up, Working, StatementFrame
    <3> QED
      BY <1>c, <2>2, <2>14, <3>1
  <2>15. CreditsMatch'
    BY <2>13, <2>14 DEF CreditsMatch
  <2> QED
    BY <1>e, <1>g, <2>1, <2>2, <2>3, <2>4, <2>15, StatusKept, MembersKept, RoundsKeptHere
<1> QED
  BY <1>1, <1>2, <1>3, <1>4, <1>5, <1>6, <1>7 DEF Work

(* A step that writes no derived table, and may record an event: it owes    *)
(* everything for that one, and what it owed for the others.                *)
TablesRest ==
    /\ UNCHANGED derived /\ rows \subseteq rows'
    /\ \A q \in rows : /\ EventAt(q)' = EventAt(q) /\ (Owed(q)' <=> Owed(q))
                       /\ RoundOwed(q)' <=> RoundOwed(q)
    /\ \A q \in rows' \ rows : Owed(q)' /\ (EventAt(q)'.type = "RoundExecuted" => RoundOwed(q)')
    /\ \A y \in Indexer : Working(y)' /\ todo'[y] = <<"update_balance">> =>
         /\ Working(y) /\ at'[y] = at[y] /\ at[y] \in rows
         /\ todo[y] = <<"update_balance">> /\ readValue'[y] = readValue[y]

LEMMA TablesStay ==
    ASSUME StatusMatches, MembersMatch, RoundsMatch, CreditsMatch, TablesRest
    PROVE  StatusMatches' /\ MembersMatch' /\ RoundsMatch' /\ CreditsMatch'
<1>a. UNCHANGED <<kyeStatus, memberStatus, rounds, credited>>
  BY DEF TablesRest, derived
<1>1. ASSUME NEW q \in rows', StatusEvent(EventAt(q)'), ~Owed(q)'
      PROVE  Rank[kyeStatus'] >= StatusRank(EventAt(q)')
  <2>1. q \in rows /\ EventAt(q)' = EventAt(q) /\ StatusEvent(EventAt(q)) /\ ~Owed(q)
    BY <1>1 DEF TablesRest
  <2> QED
    BY <1>a, <2>1 DEF StatusMatches
<1>2. StatusMatches'
  BY <1>1 DEF StatusMatches, StatusEvent, StatusRank
<1>3. ASSUME NEW m \in Member
      PROVE  (\E q \in rows' : EventAt(q)'.type = "MemberJoined" /\ EventAt(q)'.member = m /\ ~Owed(q)')
               <=> (\E q \in rows : EventAt(q).type = "MemberJoined" /\ EventAt(q).member = m /\ ~Owed(q))
  BY DEF TablesRest
<1>4. MembersMatch'
  BY <1>a, <1>3 DEF MembersMatch
<1>5. ASSUME NEW r \in Member
      PROVE  (\E q \in rows' : EventAt(q)'.type = "RoundExecuted" /\ EventAt(q)'.round = r /\ ~RoundOwed(q)')
               <=> (\E q \in rows : EventAt(q).type = "RoundExecuted" /\ EventAt(q).round = r /\ ~RoundOwed(q))
  BY DEF TablesRest
<1>6. RoundsMatch'
  BY <1>a, <1>5 DEF RoundsMatch
<1>7. ASSUME NEW m \in Member
      PROVE  Settled(m)' = Settled(m)
  <2>1. \A q : q \in Settled(m)' => q \in rows /\ q \in Settled(m)
    BY DEF TablesRest, Settled, PayoutOf
  <2>2. \A q : q \in Settled(m) => q \in Settled(m)'
    BY DEF TablesRest, Settled, PayoutOf
  <2> QED
    BY <2>1, <2>2
<1>8. ASSUME NEW y \in Indexer, Working(y)', todo'[y] = <<"update_balance">>
      PROVE  readValue'[y] = <<credited'[EventAt(at[y])'.member]>>
  <2>1. PICK p : p = at[y]
    OBVIOUS
  <2>2. /\ Working(y) /\ at'[y] = p /\ p \in rows /\ todo[y] = <<"update_balance">>
        /\ readValue'[y] = readValue[y] /\ EventAt(p)' = EventAt(p)
    BY <1>8, <2>1 DEF TablesRest
  <2>3. EventAt(at[y])' = EventAt(at[y])
    BY <2>1, <2>2 DEF EventAt
  <2> QED
    BY <1>a, <2>2, <2>3 DEF CreditsMatch
<1>9. CreditsMatch'
  BY <1>a, <1>7, <1>8 DEF CreditsMatch
<1> QED
  BY <1>2, <1>4, <1>6, <1>9

LEMMA ChainRest ==
    ASSUME IndexerAssumption, BaseInv, Chain
    PROVE  TablesRest
<1>1. /\ UNCHANGED <<rows, derived, process>> /\ rows \subseteq Positions
      /\ \A p \in Positions : EventAt(p)' = EventAt(p)
  BY ChainIs
<1>2. UNCHANGED <<stage, at, todo, readValue>>
  BY <1>1 DEF process
<1>3. \A y \in Indexer : Working(y) => at[y] \in rows
  BY DEF BaseInv, IInv, OneWorker
<1> QED
  BY <1>1, <1>2, <1>3 DEF TablesRest, Owed, RoundOwed, Working

LEMMA LeavesRest ==
    ASSUME BaseInv, NEW x \in Indexer, Leaves(x), faults' = 0
    PROVE  TablesRest
<1>1. /\ UNCHANGED <<chain, rows, derived>> /\ ~Working(x)' /\ todo[x] = <<>> /\ todo'[x] = <<>>
      /\ \A y \in Indexer \ {x} : /\ stage'[y] = stage[y] /\ at'[y] = at[y]
                                  /\ todo'[y] = todo[y] /\ readValue'[y] = readValue[y]
  BY DEF Leaves
<1>2. \A y \in Indexer \ {x} : Working(y)' <=> Working(y)
  BY <1>1 DEF Working
<1>3. \A y \in Indexer : Working(y) => at[y] \in rows
  BY DEF BaseInv, IInv, OneWorker
<1>4. <<>> # <<"upsert_round", "set_paid">>
  OBVIOUS
<1>5. \A q : (Owed(q)' <=> Owed(q)) /\ (RoundOwed(q)' <=> RoundOwed(q))
  BY <1>1, <1>2, <1>4 DEF Owed, RoundOwed
<1>6. \A q : EventAt(q)' = EventAt(q)
  BY <1>1 DEF EventAt
<1>7. \A y \in Indexer : Working(y)' /\ todo'[y] = <<"update_balance">> =>
         /\ Working(y) /\ at'[y] = at[y] /\ at[y] \in rows
         /\ todo[y] = <<"update_balance">> /\ readValue'[y] = readValue[y]
  BY <1>1, <1>2, <1>3
<1> QED
  BY <1>1, <1>5, <1>6, <1>7 DEF TablesRest

LEMMA InsertRest ==
    ASSUME BaseInv, RemainingInv, NEW x \in Indexer, InsertEvent(x)
    PROVE  TablesRest
<1>1. PICK here : here = at[x]
  OBVIOUS
<1>2. PICK e : e = EventAt(here)
  OBVIOUS
<1>3. /\ here \in Positions /\ here \notin rows /\ rows' = rows \cup {here}
      /\ ~Working(x) /\ Working(x)' /\ todo'[x] # <<>> /\ todo'[x] = SideEffects[e.type]
      /\ \A y \in Indexer \ {x} : stage'[y] = stage[y] /\ todo'[y] = todo[y]
      /\ UNCHANGED <<chain, derived, at, readValue>>
  BY <1>1, <1>2, InsertIs
<1>4. e.type \in EventType
  BY <1>2, <1>3 DEF BaseInv, EmittedInv, OrderOfEvents, EventOK, Event
<1>5. /\ \A type \in EventType : SideEffects[type] # <<"update_balance">>
      /\ SideEffects["RoundExecuted"] = <<"upsert_round", "set_paid">>
  BY DEF EventType, NOTIFICATION_MATRIX, SideEffects
<1>6. \A q : EventAt(q)' = EventAt(q)
  BY <1>3 DEF EventAt
<1>7. \A y \in Indexer \ {x} : Working(y)' <=> Working(y)
  BY <1>3 DEF Working
<1>8. Owed(here)' /\ (e.type = "RoundExecuted" => RoundOwed(here)')
  BY <1>1, <1>3, <1>5 DEF Owed, RoundOwed
<1>9. \A q \in rows : (Owed(q)' <=> Owed(q)) /\ (RoundOwed(q)' <=> RoundOwed(q))
  BY <1>1, <1>3, <1>7 DEF Owed, RoundOwed
<1>10. \A y \in Indexer : Working(y) => at[y] \in rows
  BY DEF BaseInv, IInv, OneWorker
<1>11. \A y \in Indexer : Working(y)' /\ todo'[y] = <<"update_balance">> =>
         /\ Working(y) /\ at'[y] = at[y] /\ at[y] \in rows
         /\ todo[y] = <<"update_balance">> /\ readValue'[y] = readValue[y]
  <2>1. todo'[x] # <<"update_balance">>
    BY <1>3, <1>4, <1>5
  <2> QED
    BY <1>3, <1>7, <1>10, <2>1
<1> QED
  BY <1>2, <1>3, <1>6, <1>8, <1>9, <1>11 DEF TablesRest

-----------------------------------------------------------------------------
(* The jobs of what the only process has handled.  It stays up.             *)
LEMMA LeavesJobs ==
    ASSUME BaseInv, RemainingInv, OneUp', IndexerAssumption, faults \in Nat, Undisturbed',
           Undisturbed, Matches, NEW x \in Indexer,
           \/ Start(x) \/ Crash(x) \/ Fetch(x) \/ SaveCursor(x)
           \/ SkipDuplicate(x) \/ InsertFails(x) \/ EnqueueNotifications(x)
    PROVE  NothingYet' /\ JobsMatch'
<1>a. /\ ~Fault /\ lost' = {} /\ ~overlapped' /\ Leaves(x)
  BY LeavesIs DEF Fault, Undisturbed
<1>b. /\ UNCHANGED <<chain, rows>> /\ ~Working(x)'
  BY <1>a DEF Leaves
<1>c. /\ stage \in [Indexer -> {"down", "sleep", "insert", "work", "save"}]
      /\ ShapeInv
  BY DEF BaseInv, IInv, ShapeInv
<1>d. \A q : EventAt(q)' = EventAt(q)
  BY <1>b DEF EventAt
<1>e. Handled(x)' = rows
  BY <1>b DEF Handled
<1>f. ASSUME Up(x)', x \in Notifier => DOMAIN jobs' = Announced(rows)
      PROVE  NothingYet' /\ JobsMatch'
  <2>1. NothingYet'
    BY <1>f DEF NothingYet
  <2>2. ASSUME NEW y \in Notifier, Up(y)'
        PROVE  DOMAIN jobs' = Announced(Handled(y))'
    <3>1. y \in Indexer /\ y = x
      BY <1>a, <1>f, <2>2 DEF OneUp, IndexerAssumption
    <3>2. Announced(Handled(x))' = Announced(rows)
      BY <1>d, <1>e DEF Announced
    <3> QED
      BY <1>f, <2>2, <3>1, <3>2
  <2> QED
    BY <2>1, <2>2 DEF JobsMatch
<1>1. CASE Start(x)
  <2>1. /\ stage' = [stage EXCEPT ![x] = "sleep"] /\ jobs' = jobs
        /\ overlapped' = (overlapped \/ \E y \in Indexer : stage[y] # "down")
    BY <1>1 DEF Start
  <2>2. \A y \in Indexer : ~Up(y)
    BY <1>a, <2>1 DEF Up
  <2>3. rows = {} /\ DOMAIN jobs = {}
    BY <2>2 DEF Matches, NothingYet
  <2>4. Announced(rows) = {}
    BY <2>3 DEF Announced
  <2>5. Up(x)'
    BY <1>c, <2>1 DEF Up
  <2> QED
    BY <1>f, <2>1, <2>3, <2>4, <2>5
<1>2. CASE Crash(x)
  BY <1>2, <1>a DEF Crash
<1>3. ASSUME Fetch(x) \/ SaveCursor(x) \/ SkipDuplicate(x)
      PROVE  NothingYet' /\ JobsMatch'
  <2>1. jobs' = jobs /\ Up(x) /\ ~Working(x)
    BY <1>3 DEF Fetch, SaveCursor, SkipDuplicate, Up, Working
  <2>2. Up(x)'
    <3>1. CASE Fetch(x) \/ SaveCursor(x)
      BY <1>c, <3>1 DEF Fetch, SaveCursor, Up
    <3>2. CASE SkipDuplicate(x)
      BY <1>c, <3>2 DEF SkipDuplicate, Advance, Up
    <3> QED
      BY <1>3, <3>1, <3>2
  <2>3. x \in Notifier => DOMAIN jobs = Announced(rows)
    <3>1. Handled(x) = rows
      BY <2>1 DEF Handled
    <3> QED
      BY <2>1, <3>1 DEF Matches, JobsMatch
  <2> QED
    BY <1>f, <2>1, <2>2, <2>3
<1>4. CASE InsertFails(x)
  BY <1>4, <1>a DEF InsertFails
<1>5. CASE EnqueueNotifications(x)
  <2>1. Up(x) /\ Working(x) /\ at[x] \in rows
    BY <1>5 DEF EnqueueNotifications, Up, Working, BaseInv, IInv, OneWorker
  <2>2. Up(x)'
    BY <1>c, <1>5 DEF EnqueueNotifications, Advance, Up
  <2>3. ASSUME x \in Notifier
        PROVE  DOMAIN jobs' = Announced(rows)
    <3>1. DOMAIN jobs' = DOMAIN jobs \cup ({at[x]} \X NOTIFICATION_MATRIX[EventAt(at[x]).type])
      BY <1>5, <1>a, <2>3, EnqueuedJobs
    <3>2. Handled(x) = rows \ {at[x]}
      BY <2>1 DEF Handled
    <3>3. DOMAIN jobs = Announced(rows \ {at[x]})
      BY <2>1, <2>3, <3>2 DEF Matches, JobsMatch
    <3>4. Announced(rows) = Announced(rows \ {at[x]})
            \cup ({at[x]} \X NOTIFICATION_MATRIX[EventAt(at[x]).type])
      BY <2>1 DEF Announced
    <3> QED
      BY <3>1, <3>3, <3>4
  <2> QED
    BY <1>f, <2>2, <2>3
<1> QED
  BY <1>1, <1>2, <1>3, <1>4, <1>5

LEMMA InsertJobs ==
    ASSUME BaseInv, RemainingInv, OneUp, IndexerAssumption, Undisturbed, Matches,
           NEW x \in Indexer, InsertEvent(x)
    PROVE  NothingYet' /\ JobsMatch'
<1>1. PICK here : here = at[x]
  OBVIOUS
<1>2. /\ here \notin rows /\ rows' = rows \cup {here}
      /\ Up(x) /\ ~Working(x) /\ Working(x)'
      /\ \A y \in Indexer \ {x} : stage'[y] = stage[y]
      /\ UNCHANGED <<chain, jobs, at>>
  BY <1>1, InsertIs
<1>3. Up(x)'
  BY <1>2 DEF Working, Up
<1>4. ASSUME NEW y \in Notifier, Up(y)'
      PROVE  DOMAIN jobs' = Announced(Handled(y))'
  <2>1. y = x
    <3>1. y \in Indexer
      BY DEF IndexerAssumption
    <3>2. Up(y)
      BY <1>2, <1>4, <3>1 DEF Up
    <3> QED
      BY <1>2, <3>1, <3>2 DEF OneUp, Undisturbed
  <2>2. Handled(x)' = rows
    BY <1>1, <1>2 DEF Handled
  <2>3. Handled(x) = rows
    BY <1>2 DEF Handled
  <2>5. Announced(Handled(x))' = Announced(rows)
    BY <1>2, <2>2 DEF Announced, EventAt
  <2> QED
    BY <1>2, <1>4, <2>1, <2>3, <2>5 DEF Matches, JobsMatch
<1>5. NothingYet'
  BY <1>3 DEF NothingYet
<1> QED
  BY <1>4, <1>5 DEF JobsMatch

LEMMA MatchStep ==
    Settles /\ Settles' /\ DerivedInv /\ MatchInv /\ [Next]_vars => MatchInv'
<1> SUFFICES ASSUME Settles, OneUp', DerivedInv, MatchInv, [Next]_vars, Undisturbed'
             PROVE  Matches'
  BY DEF MatchInv, Settles, OrderInv
<1>a. /\ IndexerAssumption /\ BaseInv /\ RemainingInv /\ OrderInv /\ faults \in Nat
  BY IndexerAssumption DEF Settles
<1>1. CASE UNCHANGED vars
  <2>1. UNCHANGED <<chain, rows, jobs, stage, at, todo, readValue, faults, lost, overlapped>>
        /\ UNCHANGED derived
    BY <1>1 DEF vars, process
  <2>2. Matches
    BY <2>1 DEF MatchInv, Undisturbed
  <2>3. TablesRest
    <3>1. \A y \in Indexer : Working(y) => at[y] \in rows
      BY <1>a DEF BaseInv, IInv, OneWorker
    <3> QED
      BY <2>1, <3>1 DEF TablesRest, Owed, RoundOwed, Working, EventAt
  <2>4. StatusMatches' /\ MembersMatch' /\ RoundsMatch' /\ CreditsMatch'
    BY <2>2, <2>3, TablesStay DEF Matches
  <2>5. NothingYet'
    BY <2>1, <2>2 DEF Matches, NothingYet, Up
  <2>6. \A y \in Notifier : Announced(Handled(y))' = Announced(Handled(y))
    BY <2>1 DEF Announced, Handled, Working, EventAt
  <2>7. JobsMatch'
    BY <2>1, <2>2, <2>6 DEF Matches, JobsMatch, Up
  <2> QED
    BY <2>4, <2>5, <2>7 DEF Matches
<1>2. CASE Chain
  <2>1. UNCHANGED <<rows, jobs, process, faults, lost, overlapped>> /\ rows \subseteq Positions
        /\ \A p \in Positions : EventAt(p)' = EventAt(p)
    BY <1>a, <1>2, ChainIs
  <2>2. Matches
    BY <2>1 DEF MatchInv, Undisturbed
  <2>3. StatusMatches' /\ MembersMatch' /\ RoundsMatch' /\ CreditsMatch'
    BY <1>a, <1>2, <2>2, ChainRest, TablesStay DEF Matches
  <2>4. UNCHANGED <<stage, at>>
    BY <2>1 DEF process
  <2>5. NothingYet'
    BY <2>1, <2>2, <2>4 DEF Matches, NothingYet, Up
  <2>6. \A y \in Notifier : Announced(Handled(y))' = Announced(Handled(y))
    <3> SUFFICES ASSUME NEW y \in Notifier
                 PROVE  Announced(Handled(y))' = Announced(Handled(y))
      OBVIOUS
    <3>1. Handled(y)' = Handled(y) /\ Handled(y) \subseteq Positions
      BY <2>1, <2>4 DEF Handled, Working
    <3>2. \A p \in Handled(y) : EventAt(p)' = EventAt(p)
      BY <2>1, <3>1
    <3> QED
      BY <3>1, <3>2 DEF Announced
  <2>7. JobsMatch'
    BY <2>1, <2>2, <2>4, <2>6 DEF Matches, JobsMatch, Up
  <2> QED
    BY <2>3, <2>5, <2>7 DEF Matches
<1>3. ASSUME NEW x \in Indexer,
             \/ Start(x) \/ Crash(x) \/ Fetch(x) \/ SaveCursor(x)
             \/ SkipDuplicate(x) \/ InsertFails(x) \/ EnqueueNotifications(x)
      PROVE  Matches'
  <2>1. Leaves(x)
    BY <1>3, <1>a, LeavesIs
  <2>2. Undisturbed
    <3>1. Orderly' => Orderly
      BY <1>a, <2>1, LeavesQuiet DEF QuietRows
    <3>2. faults = 0
      BY <2>1 DEF Leaves, Undisturbed
    <3> QED
      BY <3>1, <3>2 DEF Undisturbed, Orderly
  <2>3. StatusMatches' /\ MembersMatch' /\ RoundsMatch' /\ CreditsMatch'
    BY <1>a, <2>1, <2>2, LeavesRest, TablesStay DEF Undisturbed, MatchInv, Matches
  <2>4. NothingYet' /\ JobsMatch'
    BY <1>a, <1>3, <2>2, LeavesJobs DEF MatchInv
  <2> QED
    BY <2>3, <2>4 DEF Matches
<1>4. ASSUME NEW x \in Indexer, InsertEvent(x)
      PROVE  Matches'
  <2>1. Undisturbed /\ Matches
    <3>1. UNCHANGED <<faults, lost, overlapped>>
      BY <1>4 DEF InsertEvent
    <3> QED
      BY <3>1 DEF Undisturbed, MatchInv
  <2>2. StatusMatches' /\ MembersMatch' /\ RoundsMatch' /\ CreditsMatch'
    BY <1>a, <1>4, <2>1, InsertRest, TablesStay DEF Matches
  <2>3. NothingYet' /\ JobsMatch'
    BY <1>a, <1>4, <2>1, InsertJobs DEF OrderInv
  <2> QED
    BY <2>2, <2>3 DEF Matches
<1>5. ASSUME NEW x \in Indexer, Work(x),
             ~InsertEvent(x), ~SkipDuplicate(x), ~EnqueueNotifications(x)
      PROVE  Matches'
  <2>1. UNCHANGED <<faults, lost, overlapped>>
    BY <1>5 DEF Work, InsertMember, UpdateStatus, UpsertRound, SetMember, SelectRound,
       UpdateRound, SelectBalance, UpdateBalance, Statement
  <2>2. Orderly /\ Matches
    BY <2>1 DEF Undisturbed, MatchInv, Orderly
  <2> QED
    BY <1>a, <1>5, <2>2, StatementMatch
<1>6. ASSUME NEW x \in Indexer, StatementFails(x)
      PROVE  Matches'
  BY <1>a, <1>6 DEF StatementFails, Fault, Undisturbed
<1>7. ASSUME NEW x \in Indexer, Work(x)
      PROVE  Matches'
  BY <1>3, <1>4, <1>5, <1>7
<1> QED
  BY <1>1, <1>2, <1>3, <1>4, <1>6, <1>7 DEF Next

LEMMA InitMatch == Init => MatchInv
<1> SUFFICES ASSUME Init
             PROVE  Matches
  BY DEF MatchInv
<1>1. /\ rows = {} /\ rounds = {} /\ \A x \in Indexer : stage[x] = "down"
      /\ memberStatus = [m \in Member |-> "none"] /\ credited = [m \in Member |-> 0]
  BY DEF Init
<1>2. DOMAIN jobs = {}
  BY DEF Init, EmptyBag, SetToBag
<1>3. StatusMatches /\ MembersMatch /\ RoundsMatch
  BY <1>1 DEF StatusMatches, MembersMatch, RoundsMatch
<1>4. CreditsMatch
  <2>1. \A m : Settled(m) = {}
    BY <1>1 DEF Settled
  <2> QED
    BY <1>1, <2>1 DEF CreditsMatch, Working
<1>5. NothingYet /\ JobsMatch
  <2>1. Notifier \subseteq Indexer
    BY IndexerAssumption DEF IndexerAssumption
  <2> QED
    BY <1>1, <1>2, <2>1 DEF NothingYet, JobsMatch, Up
<1> QED
  BY <1>3, <1>4, <1>5 DEF Matches

-----------------------------------------------------------------------------
(* What the cursor passed was recorded, so that the tables match the chain. *)
LEMMA CaughtUpRows ==
    ASSUME Settles, Undisturbed, NEW x \in Indexer, CaughtUp(x)
    PROVE  /\ \A p : ~Owed(p) /\ ~RoundOwed(p)
           /\ Handled(x) = rows /\ rows \subseteq Positions
           /\ \A type : type # "DefaultDetected" =>
                \A p : p \in Emitted(type) <=> p \in rows /\ EventAt(p).type = type
<1>1. \A y \in Indexer : ~Working(y)
  <2>1. \A y \in Indexer : Up(y) => y = x
    BY DEF Settles, OrderInv, OneUp, Undisturbed, CaughtUp, Up
  <2> QED
    BY <2>1 DEF CaughtUp, Working, Up
<1>2. (\A p : ~Owed(p) /\ ~RoundOwed(p)) /\ Handled(x) = rows
  BY <1>1 DEF Owed, RoundOwed, Handled
<1>a. ChainInv /\ CursorCovers /\ rows \subseteq Positions /\ OrderOfEvents
  BY DEF Settles, BaseInv, CInv, BoundInv, EmittedInv
<1>3. \A p \in Positions : Recorded(p)
  <2> SUFFICES ASSUME NEW p \in Positions
               PROVE  Recorded(p)
    OBVIOUS
  <2>1. p[1] <= Passed(x)
    <3>1. p[1] \in 1..Len(chain)
      BY <1>a, PositionFacts
    <3>2. lastProcessedLt[x] = Len(chain) /\ Len(chain) \in Nat
      BY <1>a, ChainLength DEF CaughtUp
    <3>3. Passed(x) = lastProcessedLt[x]
      BY DEF CaughtUp, Passed
    <3> QED
      BY <3>1, <3>2, <3>3
  <2> QED
    BY <1>a, <2>1 DEF CursorCovers, Undisturbed
<1>4. ASSUME NEW p \in Positions, EventAt(p).type # "DefaultDetected"
      PROVE  p \in rows
  <2>1. PICK q \in rows : Key(q) = Key(p)
    BY <1>3 DEF Recorded
  <2>2. p = q
    BY <1>4, <1>a, <2>1 DEF OrderOfEvents
  <2> QED
    BY <2>1, <2>2
<1> QED
  BY <1>2, <1>4, <1>a, EmittedAre

(* The status is that of the last of the circle's status events.            *)
LEMMA CaughtUpStatus ==
    ASSUME Settles, DerivedInv, Undisturbed, Matches, NEW x \in Indexer, CaughtUp(x)
    PROVE  kyeStatus = ChainStatus
<1>a. /\ \A p : ~Owed(p)
      /\ rows \subseteq Positions
      /\ \A p : p \in Emitted("KyeActivated") <=> p \in rows /\ EventAt(p).type = "KyeActivated"
      /\ \A p : p \in Emitted("KyeCompleted") <=> p \in rows /\ EventAt(p).type = "KyeCompleted"
      /\ \A p : p \in Emitted("KyeCancelled") <=> p \in rows /\ EventAt(p).type = "KyeCancelled"
  BY CaughtUpRows
<1>b. /\ kyeStatus = "created" \/ \E q \in rows :
           StatusEvent(EventAt(q)) /\ kyeStatus = StatusOf[EventAt(q).type]
      /\ \A q \in rows : StatusEvent(EventAt(q)) => Rank[kyeStatus] >= StatusRank(EventAt(q))
      /\ kyeStatus \in {"created", "active", "completed", "cancelled"}
  BY <1>a DEF Settles, OrderInv, Orderly, Undisturbed, Matches, StatusMatches, DerivedInv
<1>c. /\ Rank["created"] = 0 /\ Rank["active"] = 1 /\ Rank["completed"] = 2 /\ Rank["cancelled"] = 2
      /\ StatusOf["KyeActivated"] = "active" /\ StatusOf["KyeCompleted"] = "completed"
      /\ StatusOf["KyeCancelled"] = "cancelled"
  BY DEF Rank, StatusOf
<1>1. /\ kyeStatus = "active" => Emitted("KyeActivated") # {}
      /\ kyeStatus = "completed" => Emitted("KyeCompleted") # {}
      /\ kyeStatus = "cancelled" => Emitted("KyeCancelled") # {}
  BY <1>a, <1>b, <1>c DEF StatusEvent
<1>2. /\ Emitted("KyeActivated") # {} => Rank[kyeStatus] >= 1
      /\ Emitted("KyeCompleted") # {} => Rank[kyeStatus] >= 2
      /\ Emitted("KyeCancelled") # {} => Rank[kyeStatus] >= 2
  BY <1>a, <1>b, StatusRanks DEF StatusEvent
<1>3. ~(Emitted("KyeCancelled") # {} /\ Emitted("KyeCompleted") # {})
  <2> SUFFICES ASSUME NEW p \in Emitted("KyeCancelled"), NEW q \in Emitted("KyeCompleted")
               PROVE  FALSE
    OBVIOUS
  <2>1. /\ p \in Positions /\ q \in Positions /\ StatusEvent(EventAt(p)) /\ StatusEvent(EventAt(q))
        /\ StatusRank(EventAt(p)) = 2 /\ StatusRank(EventAt(q)) = 2 /\ p # q
    BY <1>a, StatusRanks DEF StatusEvent
  <2>2. Before(p, q) \/ Before(q, p)
    <3>1. /\ p = <<p[1], p[2]>> /\ q = <<q[1], q[2]>>
          /\ p[1] \in Int /\ p[2] \in Int /\ q[1] \in Int /\ q[2] \in Int
      BY <2>1, PlacesAre DEF Settles, BaseInv, CInv
    <3>2. p[1] # q[1] \/ p[2] # q[2]
      BY <2>1, <3>1
    <3> QED
      BY <3>1, <3>2 DEF Before
  <2> QED
    BY <2>1, <2>2 DEF Settles, BaseInv, EmittedInv, OrderOfEvents
<1> QED
  BY <1>1, <1>2, <1>3, <1>b, <1>c DEF ChainStatus

LEMMA CaughtUpTables ==
    ASSUME Settles, DerivedInv, Undisturbed, Matches, NEW x \in Indexer, CaughtUp(x)
    PROVE  /\ {m \in Member : memberStatus[m] # "none"} = Joined
           /\ rounds = {EventAt(p).round : p \in Emitted("RoundExecuted")}
           /\ \A m \in Member : credited[m] = IF m \in rounds THEN 1 ELSE 0
           /\ x \in Notifier =>
                DOMAIN jobs = UNION {{p} \X NOTIFICATION_MATRIX[EventAt(p).type] : p \in rows}
<1>a. /\ \A p : ~Owed(p) /\ ~RoundOwed(p)
      /\ Handled(x) = rows
      /\ rows \subseteq Positions
      /\ \A p : p \in Emitted("MemberJoined") <=> p \in rows /\ EventAt(p).type = "MemberJoined"
      /\ \A p : p \in Emitted("RoundExecuted") <=> p \in rows /\ EventAt(p).type = "RoundExecuted"
      /\ \A p : p \in Emitted("PayoutSent") <=> p \in rows /\ EventAt(p).type = "PayoutSent"
  BY CaughtUpRows
<1>b. \A p \in rows : EventOK(EventAt(p))
  BY <1>a DEF Settles, BaseInv, EmittedInv, OrderOfEvents
<1>1. {m \in Member : memberStatus[m] # "none"} = Joined
  <2>1. \A m \in Joined : m \in Member
    BY <1>a, <1>b DEF Joined, EventOK
  <2>2. \A m \in Member : memberStatus[m] # "none" <=> m \in Joined
    BY <1>a DEF Matches, MembersMatch, Joined
  <2> QED
    BY <2>1, <2>2
<1>2. rounds = {EventAt(p).round : p \in Emitted("RoundExecuted")}
  <2>1. \A r \in {EventAt(p).round : p \in Emitted("RoundExecuted")} : r \in Member
    BY <1>a, <1>b DEF EventOK
  <2>2. \A r \in Member :
          r \in rounds <=> r \in {EventAt(p).round : p \in Emitted("RoundExecuted")}
    BY <1>a DEF Matches, RoundsMatch
  <2> QED
    BY <2>1, <2>2 DEF DerivedInv
<1>3. ASSUME NEW m \in Member
      PROVE  credited[m] = IF m \in rounds THEN 1 ELSE 0
  <2>1. Settled(m) # {} <=> m \in {EventAt(p).member : p \in Emitted("PayoutSent")}
    BY <1>a DEF Settled, PayoutOf
  <2>2. {EventAt(p).round : p \in Emitted("RoundExecuted")}
          = {EventAt(p).member : p \in Emitted("PayoutSent")}
    BY DEF Settles, BaseInv, EmittedInv, RoundsInOrder
  <2> QED
    BY <1>2, <2>1, <2>2 DEF Matches, CreditsMatch
<1>4. x \in Notifier =>
        DOMAIN jobs = UNION {{p} \X NOTIFICATION_MATRIX[EventAt(p).type] : p \in rows}
  BY <1>a DEF Matches, JobsMatch, CaughtUp, Up, Announced
<1> QED
  BY <1>1, <1>2, <1>3, <1>4

(* For any number of members and rounds, any batch limit and any moment the *)
(* circle emits at: a process that has caught up, alone and with no failure *)
(* on the way, has left kyes, kye_members, rounds, the balances and the     *)
(* notification queue exactly as the chain says (indexer.ts:176-392).       *)
THEOREM CaughtUpTheorem == Spec => []CaughtUpMatchesChain
<1>1. Settles /\ DerivedInv /\ RangeInv /\ [Next]_vars => DerivedInv' /\ RangeInv'
  <2>1. Settles => faults \in Nat /\ BaseInv /\ RemainingInv
    BY DEF Settles
  <2> QED
    BY <2>1, IndexerAssumption, DerivedStep, RangeStep
<1>2. Settles /\ DerivedInv /\ MatchInv => CaughtUpMatchesChain
  <2> SUFFICES ASSUME Settles, DerivedInv, Undisturbed, Matches, NEW x \in Indexer, CaughtUp(x)
               PROVE  /\ kyeStatus = ChainStatus
                      /\ {m \in Member : memberStatus[m] # "none"} = Joined
                      /\ rounds = {EventAt(p).round : p \in Emitted("RoundExecuted")}
                      /\ \A m \in Member : credited[m] = IF m \in rounds THEN 1 ELSE 0
                      /\ x \in Notifier =>
                           DOMAIN jobs = UNION {{p} \X NOTIFICATION_MATRIX[EventAt(p).type] : p \in rows}
    BY DEF CaughtUpMatchesChain, MatchInv
  <2> QED
    BY CaughtUpStatus, CaughtUpTables
<1> QED
  BY InitSettles, SettlesStep, InitRange, <1>1, InitMatch, MatchStep, <1>2, PTL DEF Spec
=============================================================================
