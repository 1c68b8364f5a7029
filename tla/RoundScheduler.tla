--------------------------- MODULE RoundScheduler ---------------------------
(***************************************************************************)
(* The scheduler service (apps/backend/src/scheduler): the tick that puts  *)
(* due rounds on scheduler_queue, the worker that sends ExecuteRound for   *)
(* them, and what they act on: the rows of `rounds', the backend wallet,   *)
(* the circle on chain and the indexer that records its events.            *)
(*                                                                         *)
(* A job has the jobId execute_round:<rounds.id>.  BullMQ ignores an add() *)
(* under a jobId it still knows.  It keeps the last 100 jobs of each       *)
(* outcome, of all the circles: what finished before those is forgotten,   *)
(* and a row that is still due gets a job anew, with attempts of its own.  *)
(*                                                                         *)
(* The rows of the rounds to come are given, as the scheduler's tests give *)
(* them: the repository has no code that inserts one (the indexer's upsert *)
(* writes executed rounds only).  A round r is due at ScheduledAt(r); the  *)
(* circle is active at time 0.                                             *)
(***************************************************************************)
EXTENDS NotificationQueue

CONSTANTS
    memberCount, roundIntervalSec,  \* KyeParams
    Attempts,                       \* attempts: 3
    NoSeqno,
    StartTime,                      \* when the services may come up
    Horizon, MaxFaults, MaxForgotten    \* bounds on time, faults, jobs forgotten per row

ASSUME SchedulerAssumption ==
    /\ Round \subseteq 1..memberCount
    /\ memberCount \in Nat \ {0}
    /\ roundIntervalSec \in Nat \ {0}
    /\ Attempts \in Nat \ {0}
    /\ StartTime \subseteq Nat
    /\ Horizon \in Nat /\ MaxFaults \in Nat /\ MaxForgotten \in Nat
    /\ NoSeqno \notin Nat

VARIABLES
    now,
    executedRows,       \* rows of `rounds' with executed_at set
    kyeActive,          \* kyes.status = 'active'
    job,                \* row -> [state, attemptsMade, stalled]
    terminal,           \* rows whose 'failed' handler is running
    broadcasts,         \* row -> ExecuteRound messages that reached the network
    walletSeqno, readSeqno, mempool,
    chainActive, currentRound,          \* the circle on chain
    indexed,            \* RoundExecuted events the indexer has recorded
    byHand,             \* somebody else executed a round
    untold,             \* rows whose final failure the organizer is not told of
    forgotten,          \* row -> its jobs that finished and were forgotten
    erased,             \* rows whose executed_at the 'failed' handler cleared
    faults

Wallet == INSTANCE BackendWallet WITH Process <- {"scheduler"}

walletVars == <<walletSeqno, readSeqno, mempool>>
chain == <<chainActive, currentRound>>
rows == <<executedRows, kyeActive>>
history == <<byHand, untold, forgotten, erased>>
schedVars == <<now, rows, job, terminal, broadcasts, walletSeqno, readSeqno,
               mempool, chain, indexed, history, faults>>

(* "active" until sendTransfer returned, "sent" until BullMQ knows.         *)
JobState == {"none", "waiting", "active", "sent", "delayed", "completed", "failed"}
Running == {"active", "sent"}
ScheduledAt(r) == r * roundIntervalSec

NoJobYet == [state |-> "none", attemptsMade |-> 0, stalled |-> 0]

SchedInit ==
    /\ now \in StartTime
    /\ executedRows = {}
    /\ kyeActive = TRUE
    /\ job = [r \in Round |-> NoJobYet]
    /\ terminal = {}
    /\ broadcasts = [r \in Round |-> 0]
    /\ Wallet!WalletInit
    /\ chainActive = TRUE /\ currentRound = 1
    /\ indexed = 0
    /\ byHand = FALSE /\ untold = {}
    /\ forgotten = [r \in Round |-> 0] /\ erased = {}
    /\ faults = 0

Fault == faults < MaxFaults /\ faults' = faults + 1

-----------------------------------------------------------------------------
(* RoundScheduler.tick.  The variants F... of a definition, each before the *)
(* one it varies, serve to test the properties; nothing uses them.          *)

FDue(r) ==                                  \* no full interval to catch up
    /\ ScheduledAt(r) <= now
    /\ r \notin executedRows
    /\ kyeActive
Due(r) ==
    /\ ScheduledAt(r) <= now
    /\ r \notin executedRows
    /\ kyeActive
    /\ now >= ScheduledAt(r) + roundIntervalSec

FEnqueued(r) == Due(r) /\ job[r].state \in {"none", "failed"}   \* failed jobs added anew
(* A due row whose jobId is known already is not added again.               *)
Enqueued(r) == Due(r) /\ job[r].state = "none"
tick ==
    /\ \E r \in Round : Enqueued(r)
    /\ job' = [r \in Round |-> IF Enqueued(r) THEN [job[r] EXCEPT !.state = "waiting"]
                                              ELSE job[r]]
    /\ UNCHANGED <<now, rows, terminal, broadcasts, walletVars, chain,
                   indexed, history, faults, queue, jobIds>>

-----------------------------------------------------------------------------
(* A hundred other jobs have finished since: BullMQ removes the job.  Its   *)
(* 'failed' handler, if there was one, has long returned.                   *)
forgetJob(r) ==
    /\ job[r].state \in {"completed", "failed"} /\ r \notin terminal
    /\ forgotten[r] < MaxForgotten
    /\ forgotten' = [forgotten EXCEPT ![r] = @ + 1]
    /\ job' = [job EXCEPT ![r] = NoJobYet]
    /\ UNCHANGED <<now, rows, terminal, broadcasts, walletVars, chain, indexed,
                   byHand, untold, erased, faults, queue, jobIds>>

-----------------------------------------------------------------------------
(* The execute_round worker, concurrency 1.                                 *)

takeJob(r) ==
    /\ job[r].state = "waiting"
    /\ \A q \in Round : job[q].state \notin Running
    /\ job' = [job EXCEPT ![r].state = "active"]
    /\ UNCHANGED <<now, rows, terminal, broadcasts, walletVars, chain,
                   indexed, history, faults, queue, jobIds>>

getSeqno(r) ==
    /\ job[r].state = "active"
    /\ Wallet!GetSeqno("scheduler")
    /\ UNCHANGED <<now, rows, job, terminal, broadcasts, chain, indexed,
                   history, faults, queue, jobIds>>

(* The message names no round: ExecuteRound of whatever round is current.   *)
Send(r, reached) ==
    /\ job[r].state = "active"
    /\ Wallet!SendTransfer("scheduler", [round |-> r, nr |-> broadcasts[r]], reached)
    /\ broadcasts' = [broadcasts EXCEPT ![r] = @ + (IF reached THEN 1 ELSE 0)]

executeRound(r) ==
    /\ Send(r, TRUE)
    /\ job' = [job EXCEPT ![r].state = "sent"]
    /\ UNCHANGED <<now, rows, terminal, chain, indexed, history, faults, queue, jobIds>>

jobCompletes(r) ==
    /\ job[r].state = "sent"
    /\ job' = [job EXCEPT ![r].state = "completed"]
    /\ UNCHANGED <<now, rows, terminal, broadcasts, walletVars, chain,
                   indexed, history, faults, queue, jobIds>>

FattemptFails(r, reached) ==                \* every failure resets the row
    LET last == job[r].attemptsMade + 1 >= Attempts IN
    /\ Fault
    /\ Send(r, reached)
    /\ job' = [job EXCEPT ![r] = [state |-> IF last THEN "failed" ELSE "delayed",
                                  attemptsMade |-> @.attemptsMade + 1,
                                  stalled |-> @.stalled]]
    /\ terminal' = IF last THEN terminal \cup {r} ELSE terminal
    /\ executedRows' = executedRows \ {r}
    /\ UNCHANGED <<now, kyeActive, chain, indexed, history, queue, jobIds>>
(* The call throws, before or after the message reached the network: the    *)
(* next attempt is delayed, or the job has failed for good.                 *)
attemptFails(r, reached) ==
    LET last == job[r].attemptsMade + 1 >= Attempts IN
    /\ Fault
    /\ Send(r, reached)
    /\ job' = [job EXCEPT ![r] = [state |-> IF last THEN "failed" ELSE "delayed",
                                  attemptsMade |-> @.attemptsMade + 1,
                                  stalled |-> @.stalled]]
    /\ terminal' = IF last THEN terminal \cup {r} ELSE terminal
    /\ UNCHANGED <<now, rows, chain, indexed, history, queue, jobIds>>

FbackoffElapsed(r) ==                       \* the last attempt is never made
    /\ job[r].state = "delayed" /\ job[r].attemptsMade + 1 < Attempts
    /\ job' = [job EXCEPT ![r].state = "waiting"]
    /\ UNCHANGED <<now, rows, terminal, broadcasts, walletVars, chain,
                   indexed, history, faults, queue, jobIds>>
backoffElapsed(r) ==
    /\ job[r].state = "delayed"
    /\ job' = [job EXCEPT ![r].state = "waiting"]
    /\ UNCHANGED <<now, rows, terminal, broadcasts, walletVars, chain,
                   indexed, history, faults, queue, jobIds>>

FhandleTerminalFailure(r, found) ==         \* no notification queue was passed
    /\ r \in terminal /\ found
    /\ terminal' = terminal \ {r}
    /\ executedRows' = executedRows \ {r}
    /\ erased' = erased \cup ({r} \cap executedRows)
    /\ UNCHANGED <<now, kyeActive, job, broadcasts, walletVars, chain, indexed,
                   byHand, untold, forgotten, faults, queue, jobIds>>
(* The 'failed' handler: the row is reset, whatever the indexer wrote to    *)
(* it, and the organizer is told, if the lookup finds them.                 *)
handleTerminalFailure(r, found) ==
    /\ r \in terminal
    /\ terminal' = terminal \ {r}
    /\ executedRows' = executedRows \ {r}
    /\ erased' = erased \cup ({r} \cap executedRows)
    /\ IF found THEN Add(FailureNotice(r)) /\ UNCHANGED <<faults, untold>>
                ELSE Fault /\ untold' = untold \cup {r} /\ UNCHANGED <<queue, jobIds>>
    /\ UNCHANGED <<now, kyeActive, job, broadcasts, walletVars, chain,
                   indexed, byHand, forgotten>>

(* The scheduler service dies.  BullMQ finds its active job stalled and     *)
(* hands it out again, once (maxStalledCount); the second time it fails the *)
(* job with fewer attempts made, which the 'failed' handler takes for a     *)
(* failure that is not the last one.                                        *)
FStalled(j) ==                              \* handed out however often it stalls
    IF j.state \notin Running THEN j
    ELSE [j EXCEPT !.state = "waiting", !.stalled = @ + 1]
Stalled(j) ==
    IF j.state \notin Running THEN j
    ELSE IF j.stalled = 0 THEN [j EXCEPT !.state = "waiting", !.stalled = 1]
    ELSE [j EXCEPT !.state = "failed"]
crashScheduler ==
    /\ Fault
    /\ (\E r \in Round : job[r].state \in Running) \/ terminal # {}
    /\ job' = [r \in Round |-> Stalled(job[r])]
    /\ terminal' = {}
    /\ untold' = untold \cup terminal
    /\ Wallet!WalletCrash("scheduler")
    /\ UNCHANGED <<now, rows, broadcasts, chain, indexed, byHand, forgotten, erased,
                   queue, jobIds>>

-----------------------------------------------------------------------------
(* The chain, the other processes and time.                                 *)

(* KyeContract's receiver: no round before its time.  Whether the members   *)
(* paid enough for the round to be executed, or it cancels the circle, is   *)
(* left open.                                                               *)
Executable == chainActive /\ now >= ScheduledAt(currentRound)
ChainExecutesRound ==
    /\ Executable
    /\ \/ /\ currentRound' = currentRound + 1
          /\ chainActive' = (currentRound + 1 <= memberCount)
       \/ chainActive' = FALSE /\ UNCHANGED currentRound

include(e) ==
    /\ Wallet!Included(e)
    /\ ChainExecutesRound \/ UNCHANGED chain
    /\ UNCHANGED <<now, rows, job, terminal, broadcasts, indexed, history, faults,
                   queue, jobIds>>

(* A member or the organizer sends ExecuteRound.                            *)
executeByHand ==
    /\ ChainExecutesRound
    /\ byHand' = TRUE
    /\ UNCHANGED <<now, rows, job, terminal, broadcasts, walletVars,
                   indexed, untold, forgotten, erased, faults, queue, jobIds>>

(* The API server's process signs with the same wallet key.                 *)
otherProcessSends ==
    /\ Fault
    /\ readSeqno["scheduler"] # NoSeqno \/ \E e \in mempool : e.seqno = walletSeqno
    /\ walletSeqno' = walletSeqno + 1
    /\ mempool' = {e \in mempool : e.seqno > walletSeqno}
    /\ UNCHANGED <<now, rows, job, terminal, broadcasts, readSeqno, chain,
                   indexed, history, queue, jobIds>>

(* The indexer records the next RoundExecuted, then the end of the circle.  *)
index ==
    /\ IF indexed < currentRound - 1
       THEN /\ indexed' = indexed + 1
            /\ executedRows' = executedRows \cup {indexed + 1}
            /\ UNCHANGED kyeActive
       ELSE /\ kyeActive /\ ~chainActive
            /\ kyeActive' = FALSE
            /\ UNCHANGED <<indexed, executedRows>>
    /\ UNCHANGED <<now, job, terminal, broadcasts, walletVars, chain,
                   history, faults, queue, jobIds>>

(* Time stops at Horizon, and where a later start takes over.               *)
passTime ==
    /\ now < Horizon /\ now + 1 \notin StartTime
    /\ now' = now + 1
    /\ UNCHANGED <<rows, job, terminal, broadcasts, walletVars, chain,
                   indexed, history, faults, queue, jobIds>>

SchedService ==
    \/ tick
    \/ \E r \in Round :
        \/ takeJob(r) \/ getSeqno(r) \/ executeRound(r) \/ jobCompletes(r)
        \/ backoffElapsed(r) \/ forgetJob(r)
        \/ \E ok \in BOOLEAN : attemptFails(r, ok) \/ handleTerminalFailure(r, ok)
    \/ crashScheduler

SchedEnvironment ==
    \/ \E e \in mempool : include(e)
    \/ executeByHand \/ otherProcessSends \/ index

SchedNext == SchedService \/ SchedEnvironment \/ passTime

vars == <<schedVars, queue, jobIds>>
Spec == SchedInit /\ QueueInit /\ [][SchedNext]_vars

-----------------------------------------------------------------------------
(* Properties *)

TypeOK ==
    /\ now \in Nat
    /\ executedRows \subseteq 1..memberCount
    /\ kyeActive \in BOOLEAN
    /\ job \in [Round -> [state : JobState, attemptsMade : 0..Attempts, stalled : 0..1]]
    /\ terminal \subseteq Round
    /\ broadcasts \in [Round -> Nat]
    /\ walletSeqno \in Nat
    /\ readSeqno \in [{"scheduler"} -> Nat \cup {NoSeqno}]
    /\ mempool \subseteq [seqno : Nat, msg : [round : Round, nr : Nat]]
    /\ chainActive \in BOOLEAN /\ currentRound \in Nat
    /\ indexed \in Nat
    /\ byHand \in BOOLEAN /\ untold \subseteq Round
    /\ forgotten \in [Round -> Nat] /\ erased \subseteq Round
    /\ faults \in Nat
    /\ queue \in [Notice -> Nat]
    /\ jobIds \subseteq Notice

(* What the wallet can spend on a row: a job makes at most `attempts' sends *)
(* and one more when it stalled and was handed out again, however often the *)
(* tick sees the row, whatever fails and wherever the service dies.  A job  *)
(* that BullMQ has forgotten made its sends too, and only forgetting one    *)
(* allows the row another: jobId, attempts and concurrency bound the sends  *)
(* of a job, nothing bounds the jobs of a row that stays due.               *)
Budget == Attempts + 1
SendsBounded ==
    \A r \in Round :
        broadcasts[r] <= Budget * forgotten[r]
            + (IF job[r].state = "none" THEN 0 ELSE Attempts + job[r].stalled)

(* Members keep a full interval to catch up before the service acts on a    *)
(* round (scheduler.ts:54-60), as long as nobody executed a round by hand   *)
(* and no row made more than one send: ExecuteRound carries no round        *)
(* number, so that a second send acts on the next round.                    *)
CatchUpKept ==
    [][ (walletSeqno' # walletSeqno /\ chain' # chain) =>
            \/ now >= ScheduledAt(currentRound) + roundIntervalSec
            \/ byHand \/ \E r \in Round : broadcasts[r] > 1 ]_vars

(* Once the indexer has caught up, a row says executed exactly when the     *)
(* chain executed the round, unless the handler of a job that failed for    *)
(* good cleared what the indexer had recorded: then it does not, for good.  *)
RowsMatchChain ==
    indexed = currentRound - 1 =>
        \A r \in Round :
            /\ r \in executedRows => r < currentRound
            /\ (r < currentRound /\ r \notin erased) => r \in executedRows
=============================================================================
