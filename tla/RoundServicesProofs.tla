------------------------ MODULE RoundServicesProofs ------------------------
(***************************************************************************)
(* Theorems about the background services, for any rows, users, scans,     *)
(* attempts, faults and start times.                                       *)
(*                                                                         *)
(* What bounds the sends of a row is how BullMQ counts: an attempt that    *)
(* failed, a job that stalled, the run that got through and a job that was *)
(* forgotten stand for what they may have sent.  What makes a message      *)
(* unique is where its copies can come from: a jobId for a reminder, the   *)
(* one time that a job fails for good for the notice of its failure, and a *)
(* crash after the work was done and before BullMQ knew.                   *)
(***************************************************************************)
EXTENDS RoundServices, FiniteSetTheorems, TLAPS

ServicesSpec == Init /\ [][Next]_allVars

(* The chain's rounds, and the indexer behind them.                         *)
ChainInv ==
    /\ currentRound \in 1..(memberCount + 1)
    /\ chainActive => currentRound <= memberCount
    /\ indexed < currentRound

(* A job and the sends of its row: a job that runs or waits has an attempt  *)
(* left, and each send has its attempt, its stall or the last run.          *)
LastRun(j) ==
    IF j.state \in {"sent", "completed", "failed"} /\ j.attemptsMade < Attempts THEN 1 ELSE 0
Accounts(j, sends, before) ==
    /\ j.state # "failed" => j.attemptsMade < Attempts
    /\ sends <= before + j.attemptsMade + j.stalled + LastRun(j)
    /\ j.state = "none" => sends <= before
Before(r) == Budget * forgotten[r]
JobsInv == \A r \in Round : Accounts(job[r], broadcasts[r], Before(r))

(* The rows: what the indexer wrote stays, but for what a handler cleared.  *)
RowsInv ==
    /\ executedRows \subseteq 1..indexed
    /\ \A r \in Round : r <= indexed => r \in executedRows \cup erased
    /\ \A r \in terminal : job[r].state = "failed"

(* What a scan holds, and the notification worker.                          *)
ScanType == [type : ReminderType \cup {NoType}, todo : SUBSET Round,
             round : Round \cup {NoRound}, left : SUBSET Member]
Results == {"none", "ok", "rate_limited", "requeued", "failed"}
WorkType == [notice : Notice \cup {NoJob}, stalled : BOOLEAN, result : Results]
NotifShape ==
    /\ sentReminders \subseteq ReminderType \X Round
    /\ scan \in [Scan -> ScanType]
    /\ \A s \in Scan :
        /\ scan[s].todo # {} => scan[s].type \in ReminderType
        /\ scan[s].round # NoRound => scan[s].type \in ReminderType
        /\ scan[s].left # {} => scan[s].round # NoRound
    /\ work \in WorkType
    /\ work # Notif!NoWork => work.notice \in Notice
    /\ delivered \in [Notice -> Nat]
    /\ again \in [Notice -> Nat] /\ repeats \in [Notice -> Nat]

(* The copies a job may have by itself: one for a jobId that is taken; for  *)
(* the notice of a failure, one for every job of the row that may have had  *)
(* its handler run.                                                         *)
Handled(r) ==
    forgotten[r] + (IF job[r].state = "failed" /\ r \notin terminal THEN 1 ELSE 0)
Allowed(n) ==
    IF n \in Reminders THEN (IF n \in jobIds THEN 1 ELSE 0) ELSE Handled(n.round)
CopiesInv == \A n \in Notice : Copies(n) <= Allowed(n) + repeats[n]

(* A scan that has passed a member has put the reminder on the queue.       *)
QueuedInv ==
    /\ RecordedMeansQueued
    /\ \A s \in Scan :
        scan[s].round # NoRound =>
            \/ <<scan[s].type, scan[s].round>> \in misread
            \/ \A u \in Member \ scan[s].left :
                    Reminder(scan[s].type, scan[s].round, u) \in jobIds

(* Sends that are over and messages that are still to be included.  As long *)
(* as every row made at most one send and nobody else executed a round, the *)
(* rounds that were executed are no more than the rows whose message is no  *)
(* longer pending.                                                          *)
Sent == {r \in Round : broadcasts[r] > 0}
Pending == {e.msg.round : e \in mempool}
Quiet == ~byHand /\ \A r \in Round : broadcasts[r] <= 1
Floats ==
    /\ Pending \subseteq Sent
    /\ Quiet => /\ currentRound - 1 <= Cardinality(Sent \ Pending)
                /\ \A e, f \in mempool : e.msg.round = f.msg.round => e = f

(* A job is there since its row was due, and so are its sends.              *)
DueInv ==
    \A r \in Round :
        job[r].state # "none" \/ broadcasts[r] > 0 => now >= ScheduledAt(r) + roundIntervalSec

ServicesInv ==
    /\ TypeOK /\ ChainInv /\ JobsInv /\ RowsInv /\ NotifShape /\ CopiesInv /\ QueuedInv
    /\ Floats /\ DueInv

JobType == [state : JobState, attemptsMade : 0..Attempts, stalled : 0..1]

-----------------------------------------------------------------------------
(* The scheduler service and what it acts on *)

USE SchedulerAssumption, QueueAssumption DEF walletVars, chain, rows, history

LEMMA BeforeNat ==
    ASSUME TypeOK, NEW r \in Round
    PROVE  Before(r) \in Nat
<1>1. forgotten[r] \in Nat /\ Budget \in Nat
    BY DEF TypeOK, Budget
<1> QED BY <1>1 DEF Before

(* The sends that are over stay what they are while no job is forgotten.    *)
LEMMA BeforeSame ==
    ASSUME UNCHANGED forgotten, NEW r \in Round
    PROVE  Before(r)' = Before(r)
BY DEF Before

(* One row's job moves, and the rest stays.                                 *)
LEMMA JobMoves ==
    ASSUME TypeOK, JobsInv, UNCHANGED forgotten, NEW r \in Round, NEW j \in JobType, NEW b \in Nat,
           Accounts(j, b, Before(r)),
           job' = [job EXCEPT ![r] = j], broadcasts' = [broadcasts EXCEPT ![r] = b]
    PROVE  /\ job' \in [Round -> JobType] /\ broadcasts' \in [Round -> Nat]
           /\ JobsInv'
BY BeforeSame DEF TypeOK, JobsInv, JobType

(* A step that makes no send.                                               *)
LEMMA StateMoves ==
    ASSUME TypeOK, JobsInv, UNCHANGED forgotten, NEW r \in Round, NEW to \in JobState,
           Accounts([job[r] EXCEPT !.state = to], broadcasts[r], Before(r)),
           job' = [job EXCEPT ![r].state = to], broadcasts' = broadcasts
    PROVE  job' \in [Round -> JobType] /\ JobsInv'
<1> DEFINE j == [job[r] EXCEPT !.state = to]
<1>1. job[r] \in JobType /\ j \in JobType /\ broadcasts[r] \in Nat
    BY DEF TypeOK, JobType
<1>2. job' = [job EXCEPT ![r] = j] /\ broadcasts' = [broadcasts EXCEPT ![r] = broadcasts[r]]
    BY DEF TypeOK
<1> QED BY <1>1, <1>2, JobMoves

LEMMA tickKeeps ==
    ASSUME TypeOK, JobsInv, tick
    PROVE  job' \in [Round -> JobType] /\ JobsInv'
<1> SUFFICES ASSUME NEW r \in Round
             PROVE  job'[r] \in JobType /\ Accounts(job'[r], broadcasts[r], Before(r))
    BY BeforeSame DEF tick, JobsInv, TypeOK, JobType
<1>1. job[r] \in JobType /\ broadcasts[r] \in Nat /\ Accounts(job[r], broadcasts[r], Before(r))
      /\ Before(r) \in Nat
    BY BeforeNat DEF TypeOK, JobsInv, JobType
<1>2. job'[r] = job[r] \/ (job[r].state = "none" /\ job'[r] = [job[r] EXCEPT !.state = "waiting"])
    BY DEF tick, Enqueued
<1> QED BY <1>1, <1>2 DEF Accounts, LastRun, JobType, JobState

LEMMA crashKeeps ==
    ASSUME TypeOK, JobsInv, crashScheduler
    PROVE  job' \in [Round -> JobType] /\ JobsInv'
<1> SUFFICES ASSUME NEW r \in Round
             PROVE  job'[r] \in JobType /\ Accounts(job'[r], broadcasts[r], Before(r))
    BY BeforeSame DEF crashScheduler, JobsInv, TypeOK, JobType
<1>1. job[r] \in JobType /\ broadcasts[r] \in Nat /\ Accounts(job[r], broadcasts[r], Before(r))
      /\ Before(r) \in Nat
    BY BeforeNat DEF TypeOK, JobsInv, JobType
<1>2. job'[r] = Stalled(job[r])
    BY DEF crashScheduler
<1>3. CASE job[r].state \notin Running
    BY <1>1, <1>2, <1>3 DEF Stalled
<1>4. CASE job[r].state \in Running /\ job[r].stalled = 0
    <2>1. job'[r] = [job[r] EXCEPT !.state = "waiting", !.stalled = 1]
        BY <1>2, <1>4 DEF Stalled
    <2>2. job[r].stalled = 0 /\ job[r].state \in Running /\ job[r].attemptsMade \in 0..Attempts
        BY <1>1, <1>4 DEF JobType
    <2>3. broadcasts[r] <= Before(r) + job[r].attemptsMade + 1
        BY <1>1, <2>2 DEF Accounts, LastRun, Running
    <2>4. job'[r].stalled = 1 /\ job'[r].state = "waiting"
          /\ job'[r].attemptsMade = job[r].attemptsMade
        BY <1>1, <2>1 DEF JobType
    <2>6. job'[r] \in JobType
        <3>1. job[r] \in [state : JobState, attemptsMade : 0..Attempts, stalled : 0..1]
              /\ "waiting" \in JobState /\ 1 \in 0..1
            BY <1>1 DEF JobType, JobState
        <3> QED BY <2>1, <3>1 DEF JobType
    <2>5. job[r].attemptsMade < Attempts
        BY <1>1, <2>2 DEF Accounts, Running
    <2> QED BY <1>1, <2>2, <2>3, <2>4, <2>5, <2>6 DEF Accounts, LastRun
<1>5. CASE job[r].state \in Running /\ job[r].stalled # 0
    <2>1. job'[r] = [job[r] EXCEPT !.state = "failed"]
        BY <1>2, <1>5 DEF Stalled
    <2> QED BY <1>1, <1>5, <2>1 DEF Accounts, LastRun, JobType, JobState, Running
<1> QED BY <1>3, <1>4, <1>5

(* A send adds one message at most, and the attempt accounts for it.        *)
LEMMA sendKeeps ==
    ASSUME TypeOK, JobsInv, NEW r \in Round, executeRound(r)
    PROVE  /\ job' \in [Round -> JobType] /\ broadcasts' \in [Round -> Nat]
           /\ JobsInv'
<1> DEFINE j == [job[r] EXCEPT !.state = "sent"]
           b == broadcasts[r] + 1
<1>1. job[r] \in JobType /\ broadcasts[r] \in Nat /\ Accounts(job[r], broadcasts[r], Before(r))
      /\ Before(r) \in Nat
      /\ job[r].state = "active"
    BY BeforeNat DEF TypeOK, JobsInv, JobType, executeRound, Send
<1>2. j \in JobType /\ b \in Nat /\ Accounts(j, b, Before(r))
    BY <1>1 DEF Accounts, LastRun, JobType, JobState
<1>3. job' = [job EXCEPT ![r] = j] /\ broadcasts' = [broadcasts EXCEPT ![r] = b]
      /\ UNCHANGED forgotten
    BY DEF TypeOK, executeRound, Send
<1> QED BY <1>2, <1>3, JobMoves

LEMMA attemptKeeps ==
    ASSUME TypeOK, JobsInv, NEW r \in Round, NEW reached \in BOOLEAN, attemptFails(r, reached)
    PROVE  /\ job' \in [Round -> JobType] /\ broadcasts' \in [Round -> Nat]
           /\ JobsInv'
<1> DEFINE last == job[r].attemptsMade + 1 >= Attempts
           j == [state |-> IF last THEN "failed" ELSE "delayed",
                 attemptsMade |-> job[r].attemptsMade + 1, stalled |-> job[r].stalled]
           b == broadcasts[r] + (IF reached THEN 1 ELSE 0)
<1>1. job[r] \in JobType /\ broadcasts[r] \in Nat /\ Accounts(job[r], broadcasts[r], Before(r))
      /\ Before(r) \in Nat
      /\ job[r].state = "active"
    BY BeforeNat DEF TypeOK, JobsInv, JobType, attemptFails, Send
<1>2. j \in JobType /\ b \in Nat /\ Accounts(j, b, Before(r))
    BY <1>1 DEF Accounts, LastRun, JobType, JobState
<1>3. job' = [job EXCEPT ![r] = j] /\ broadcasts' = [broadcasts EXCEPT ![r] = b]
      /\ UNCHANGED forgotten
    BY DEF TypeOK, attemptFails, Send
<1> QED BY <1>2, <1>3, JobMoves

(* A job that is picked up, put back or done.                               *)
LEMMA moveKeeps ==
    ASSUME TypeOK, JobsInv, NEW r \in Round,
           takeJob(r) \/ jobCompletes(r) \/ backoffElapsed(r)
    PROVE  job' \in [Round -> JobType] /\ JobsInv' /\ broadcasts' = broadcasts
<1>1. job[r] \in JobType /\ broadcasts[r] \in Nat /\ Accounts(job[r], broadcasts[r], Before(r))
      /\ Before(r) \in Nat
    BY BeforeNat DEF TypeOK, JobsInv, JobType
<1>2. PICK to \in {"active", "completed", "waiting"} :
        /\ job' = [job EXCEPT ![r].state = to]
        /\ job[r].state = CASE to = "active" -> "waiting" [] to = "completed" -> "sent"
                            [] OTHER -> "delayed"
    BY DEF takeJob, jobCompletes, backoffElapsed
<1>3. UNCHANGED <<broadcasts, forgotten>>
    BY DEF takeJob, jobCompletes, backoffElapsed
<1>4. Accounts([job[r] EXCEPT !.state = to], broadcasts[r], Before(r))
    BY <1>1, <1>2 DEF Accounts, LastRun, JobType, JobState
<1> QED BY <1>2, <1>3, <1>4, StateMoves DEF JobState

(* A job that is forgotten leaves its sends to the account.                 *)
LEMMA forgetKeeps ==
    ASSUME TypeOK, JobsInv, NEW r \in Round, forgetJob(r)
    PROVE  job' \in [Round -> JobType] /\ JobsInv' /\ broadcasts' = broadcasts
<1>1. job[r] \in JobType /\ broadcasts[r] \in Nat /\ Accounts(job[r], broadcasts[r], Before(r))
      /\ Before(r) \in Nat /\ forgotten[r] \in Nat
    BY BeforeNat DEF TypeOK, JobsInv, JobType
<1>2. /\ job' = [job EXCEPT ![r] = NoJobYet] /\ broadcasts' = broadcasts
      /\ forgotten' = [forgotten EXCEPT ![r] = @ + 1]
    BY DEF forgetJob
<1>3. NoJobYet \in JobType /\ NoJobYet.state = "none" /\ NoJobYet.attemptsMade = 0
    BY DEF NoJobYet, JobType, JobState
<1>4. Before(r)' = Before(r) + Attempts + 1
    <2>1. forgotten'[r] = forgotten[r] + 1 /\ Budget \in Nat /\ Budget = Attempts + 1
        BY <1>2 DEF TypeOK, Budget
    <2>2. Budget * (forgotten[r] + 1) = Budget * forgotten[r] + Budget
        BY <1>1, <2>1
    <2>3. Before(r)' = Before(r) + Budget
        BY <2>1, <2>2 DEF Before, Budget
    <2> QED BY <1>1, <2>1, <2>3
<1>5. broadcasts[r] <= Before(r) + Attempts + 1
    BY <1>1 DEF Accounts, LastRun, JobType
<1>6. Accounts(NoJobYet, broadcasts[r], Before(r)')
    BY <1>1, <1>3, <1>4, <1>5 DEF Accounts, LastRun, NoJobYet
<1>7. \A q \in Round \ {r} : job'[q] = job[q] /\ Before(q)' = Before(q)
    BY <1>2 DEF TypeOK, Before, Budget
<1>8. job'[r] = NoJobYet /\ job' \in [Round -> JobType]
    BY <1>2, <1>3 DEF TypeOK, JobType
<1> QED BY <1>2, <1>6, <1>7, <1>8 DEF JobsInv

(* The other steps leave the jobs and the sends alone.                      *)
LEMMA SchedJobs ==
    ASSUME TypeOK, JobsInv, SchedNext
    PROVE  /\ job' \in [Round -> JobType] /\ broadcasts' \in [Round -> Nat]
           /\ JobsInv'
<1>1. CASE \E r \in Round : executeRound(r) \/ \E ok \in BOOLEAN : attemptFails(r, ok)
    BY <1>1, sendKeeps, attemptKeeps
<1>2. CASE \E r \in Round : takeJob(r) \/ jobCompletes(r) \/ backoffElapsed(r) \/ forgetJob(r)
    BY <1>2, moveKeeps, forgetKeeps DEF TypeOK
<1>3. CASE tick
    BY <1>3, tickKeeps DEF tick, TypeOK
<1>4. CASE crashScheduler
    BY <1>4, crashKeeps DEF crashScheduler, TypeOK
<1>5. CASE UNCHANGED <<job, broadcasts, forgotten>>
    BY <1>5, BeforeSame DEF TypeOK, JobsInv, JobType
<1>6. ASSUME NEW r \in Round, getSeqno(r) \/ \E ok \in BOOLEAN : handleTerminalFailure(r, ok)
      PROVE  UNCHANGED <<job, broadcasts, forgotten>>
    BY <1>6 DEF getSeqno, handleTerminalFailure
<1>7. SchedEnvironment \/ passTime => UNCHANGED <<job, broadcasts, forgotten>>
    BY DEF SchedEnvironment, passTime, include, executeByHand, otherProcessSends, index
<1> QED BY <1>1, <1>2, <1>3, <1>4, <1>5, <1>6, <1>7 DEF SchedNext, SchedService

-----------------------------------------------------------------------------
(* The chain, the rows and the remaining types *)

LEMMA ChainSteps ==
    ASSUME TypeOK, ChainInv, SchedNext
    PROVE  /\ ChainInv'
           /\ chainActive' \in BOOLEAN /\ currentRound' \in Nat /\ indexed' \in Nat
           /\ currentRound' \in {currentRound, currentRound + 1}
<1>1. ASSUME ChainExecutesRound, UNCHANGED indexed
      PROVE  /\ ChainInv'
             /\ chainActive' \in BOOLEAN /\ currentRound' \in Nat /\ indexed' \in Nat
             /\ currentRound' \in {currentRound, currentRound + 1}
    <2>1. /\ currentRound \in Nat /\ indexed \in Nat /\ indexed < currentRound
          /\ chainActive /\ 1 <= currentRound /\ currentRound <= memberCount
        BY <1>1 DEF ChainExecutesRound, Executable, ChainInv, TypeOK
    <2>2. CASE chainActive' = FALSE /\ UNCHANGED currentRound
        BY <1>1, <2>1, <2>2 DEF ChainInv
    <2>3. CASE currentRound' = currentRound + 1 /\ chainActive' = (currentRound + 1 <= memberCount)
        <3>1. chainActive' \in BOOLEAN /\ (chainActive' => currentRound + 1 <= memberCount)
            <4>1. (currentRound + 1 <= memberCount) \in BOOLEAN
                OBVIOUS
            <4>2. chainActive' = (currentRound + 1 <= memberCount)
                BY <2>3
            <4> QED BY <4>1, <4>2, Zenon
        <3>2. currentRound' = currentRound + 1
            BY <2>3
        <3> QED BY <1>1, <2>1, <3>1, <3>2 DEF ChainInv
    <2> QED BY <1>1, <2>2, <2>3 DEF ChainExecutesRound
<1>2. ASSUME UNCHANGED <<chain, indexed>>
      PROVE  /\ ChainInv'
             /\ chainActive' \in BOOLEAN /\ currentRound' \in Nat /\ indexed' \in Nat
             /\ currentRound' \in {currentRound, currentRound + 1}
    BY <1>2 DEF ChainInv, TypeOK
<1>3. CASE index
    BY <1>3 DEF index, ChainInv, TypeOK
<1>4. CASE executeByHand
    BY <1>1, <1>4 DEF executeByHand
<1>5. ASSUME NEW e \in mempool, include(e)
      PROVE  (ChainExecutesRound /\ UNCHANGED indexed) \/ UNCHANGED <<chain, indexed>>
    BY <1>5 DEF include
<1>6. SchedService \/ otherProcessSends \/ passTime => UNCHANGED <<chain, indexed>>
    BY DEF SchedService, tick, takeJob, getSeqno, executeRound, jobCompletes, backoffElapsed, forgetJob,
           attemptFails, handleTerminalFailure, crashScheduler, otherProcessSends, passTime
<1> QED BY <1>1, <1>2, <1>3, <1>4, <1>5, <1>6 DEF SchedNext, SchedEnvironment

(* What is left of the type invariant is changed by one action at a time.   *)
LEMMA WalletSteps ==
    ASSUME TypeOK, SchedNext, ServicesAssumption
    PROVE  /\ walletSeqno' \in Nat
           /\ readSeqno' \in [{"scheduler"} -> Nat \cup {NoSeqno}]
           /\ mempool' \subseteq [seqno : Nat, msg : [round : Round, nr : Nat]]
<1>1. ASSUME NEW r \in Round, NEW reached \in BOOLEAN, Send(r, reached)
      PROVE  /\ walletSeqno' \in Nat
             /\ readSeqno' \in [{"scheduler"} -> Nat \cup {NoSeqno}]
             /\ mempool' \subseteq [seqno : Nat, msg : [round : Round, nr : Nat]]
    BY <1>1 DEF Send, Wallet!SendTransfer, TypeOK
<1>2. CASE \E r \in Round : executeRound(r) \/ \E ok \in BOOLEAN : attemptFails(r, ok)
    BY <1>1, <1>2 DEF executeRound, attemptFails
<1>3. CASE \E r \in Round : getSeqno(r)
    BY <1>3 DEF getSeqno, Wallet!GetSeqno, TypeOK
<1>4. CASE crashScheduler
    BY <1>4 DEF crashScheduler, Wallet!WalletCrash, TypeOK
<1>5. CASE \E e \in mempool : include(e)
    BY <1>5 DEF include, Wallet!Included, TypeOK
<1>6. CASE otherProcessSends
    BY <1>6 DEF otherProcessSends, TypeOK
<1>7. CASE UNCHANGED walletVars
    BY <1>7 DEF TypeOK
<1>8. ASSUME \/ tick \/ executeByHand \/ index \/ passTime
             \/ \E r \in Round : \/ takeJob(r) \/ jobCompletes(r) \/ backoffElapsed(r) \/ forgetJob(r)
                                 \/ \E ok \in BOOLEAN : handleTerminalFailure(r, ok)
      PROVE  UNCHANGED walletVars
    BY <1>8 DEF tick, executeByHand, index, passTime, takeJob, jobCompletes, backoffElapsed, forgetJob,
                handleTerminalFailure
<1> QED BY <1>2, <1>3, <1>4, <1>5, <1>6, <1>7, <1>8 DEF SchedNext, SchedService, SchedEnvironment

RestOK ==
    /\ now \in Nat /\ executedRows \subseteq 1..memberCount
    /\ kyeActive \in BOOLEAN /\ terminal \subseteq Round
    /\ byHand \in BOOLEAN /\ untold \subseteq Round /\ faults \in Nat
    /\ forgotten \in [Round -> Nat] /\ erased \subseteq Round
    /\ queue \in [Notice -> Nat] /\ jobIds \subseteq Notice
restVars == <<now, executedRows, kyeActive, terminal, byHand, untold, forgotten,
              erased, faults, queue, jobIds>>
LEMMA RestSteps ==
    ASSUME TypeOK, ChainInv, SchedNext
    PROVE  RestOK'
<1>1. RestOK
    BY DEF TypeOK, RestOK
<1>2. CASE index
    <2>1. indexed \in Nat /\ currentRound \in Nat /\ currentRound <= memberCount + 1
        BY DEF TypeOK, ChainInv
    <2>2. \/ executedRows' = executedRows
          \/ indexed < currentRound - 1 /\ executedRows' = executedRows \cup {indexed + 1}
        BY <1>2, <2>1 DEF index
    <2>3. executedRows' \subseteq 1..memberCount
        <3>1. indexed < currentRound - 1 => indexed + 1 \in 1..memberCount
            BY <2>1
        <3> QED BY <1>1, <2>2, <3>1 DEF RestOK
    <2>4. kyeActive' \in BOOLEAN
        BY <1>1, <1>2 DEF RestOK, index
    <2> QED BY <1>1, <1>2, <2>3, <2>4 DEF RestOK, index
<1>3. ASSUME NEW r \in Round, NEW found \in BOOLEAN, handleTerminalFailure(r, found)
      PROVE  RestOK'
    <2>1. FailureNotice(r) \in Notice
        BY DEF Notice
    <2>2. queue' \in [Notice -> Nat] /\ jobIds' \subseteq Notice
        BY <1>1, <1>3, <2>1 DEF handleTerminalFailure, Add, RestOK
    <2>4. erased' \subseteq Round
        BY <1>1, <1>3 DEF handleTerminalFailure, RestOK
    <2>3. untold' \subseteq Round /\ faults' \in Nat
        <3>1. CASE found
            BY <1>1, <1>3, <3>1 DEF handleTerminalFailure, RestOK
        <3>2. CASE ~found
            <4>1. untold' = untold \cup {r} /\ faults' = faults + 1
                BY <1>3, <3>2 DEF handleTerminalFailure, Fault
            <4> QED BY <1>1, <4>1 DEF RestOK
        <3> QED BY <3>1, <3>2
    <2> QED BY <1>1, <1>3, <2>2, <2>3, <2>4 DEF handleTerminalFailure, RestOK
<1>4. ASSUME NEW r \in Round, NEW ok \in BOOLEAN, attemptFails(r, ok)
      PROVE  RestOK'
    <2>1. terminal' = terminal \/ terminal' = terminal \cup {r}
        BY <1>4 DEF attemptFails
    <2>2. faults' \in Nat
        BY <1>1, <1>4 DEF attemptFails, Fault, RestOK
    <2> QED BY <1>1, <1>4, <2>1, <2>2 DEF attemptFails, RestOK
<1>5. CASE crashScheduler
    BY <1>1, <1>5 DEF crashScheduler, Fault, RestOK
<1>6. CASE executeByHand
    BY <1>1, <1>6 DEF executeByHand, RestOK
<1>7. CASE otherProcessSends
    BY <1>1, <1>7 DEF otherProcessSends, Fault, RestOK
<1>8. CASE passTime
    BY <1>1, <1>8 DEF passTime, RestOK
<1>11. ASSUME NEW r \in Round, forgetJob(r)
       PROVE  RestOK'
    <2>1. forgotten' \in [Round -> Nat]
        BY <1>1, <1>11 DEF forgetJob, RestOK
    <2> QED BY <1>1, <1>11, <2>1 DEF forgetJob, RestOK
<1>9. CASE UNCHANGED restVars
    BY <1>1, <1>9 DEF RestOK, restVars
<1>10. ASSUME \/ tick
              \/ \E r \in Round : takeJob(r) \/ getSeqno(r) \/ executeRound(r)
                                  \/ jobCompletes(r) \/ backoffElapsed(r)
              \/ \E e \in mempool : include(e)
       PROVE  UNCHANGED restVars
    BY <1>10 DEF tick, takeJob, getSeqno, executeRound, jobCompletes, backoffElapsed, include,
                 restVars
<1> QED BY <1>2, <1>3, <1>4, <1>5, <1>6, <1>7, <1>8, <1>9, <1>10, <1>11
        DEF SchedNext, SchedService, SchedEnvironment

LEMMA SchedTypes ==
    ASSUME TypeOK, ChainInv, JobsInv, SchedNext, ServicesAssumption
    PROVE  TypeOK' /\ ChainInv' /\ JobsInv'
BY SchedJobs, ChainSteps, WalletSteps, RestSteps DEF TypeOK, RestOK, JobType

(* A job that failed for good stays so until it is forgotten.               *)
LEMMA FailedStays ==
    ASSUME TypeOK, SchedNext
    PROVE  \A r \in Round : job[r].state = "failed" => job'[r] = job[r] \/ forgetJob(r)
<1>1. ASSUME NEW r \in Round, NEW q \in Round, job[r].state = "failed",
             \/ takeJob(q) \/ executeRound(q) \/ jobCompletes(q) \/ backoffElapsed(q)
             \/ \E ok \in BOOLEAN : attemptFails(q, ok)
      PROVE  job'[r] = job[r]
    <2>1. job[q].state # "failed"
        BY <1>1 DEF takeJob, executeRound, jobCompletes, backoffElapsed, attemptFails, Send
    <2>2. job \in [Round -> JobType]
        BY DEF TypeOK, JobType
    <2> QED BY <1>1, <2>1, <2>2
        DEF takeJob, executeRound, jobCompletes, backoffElapsed, attemptFails
<1>2. CASE tick
    BY <1>2 DEF tick, Enqueued
<1>3. CASE crashScheduler
    BY <1>3 DEF crashScheduler, Stalled, Running
<1>4. ASSUME \/ SchedEnvironment \/ passTime
             \/ \E q \in Round : getSeqno(q) \/ \E ok \in BOOLEAN : handleTerminalFailure(q, ok)
      PROVE  job' = job
    BY <1>4 DEF SchedEnvironment, passTime, include, executeByHand, otherProcessSends, index,
                getSeqno, handleTerminalFailure
<1>5. ASSUME NEW r \in Round, NEW q \in Round, forgetJob(q)
      PROVE  job'[r] = job[r] \/ forgetJob(r)
    BY <1>5 DEF forgetJob, TypeOK
<1> QED BY <1>1, <1>2, <1>3, <1>4, <1>5 DEF SchedNext, SchedService

(* A row is set by the indexer and reset for a job that failed for good.    *)
LEMMA SchedRows ==
    ASSUME TypeOK, ChainInv, JobsInv, RowsInv, SchedNext
    PROVE  RowsInv'
<1>1. \A r \in terminal : job'[r].state = "failed"
    BY FailedStays DEF RowsInv, TypeOK, forgetJob
<1>2. CASE index
    <2>1. indexed \in Nat /\ executedRows \subseteq 1..indexed
        BY DEF RowsInv, TypeOK
    <2>2. UNCHANGED <<job, terminal, erased>>
        BY <1>2 DEF index
    <2>3. CASE UNCHANGED <<indexed, executedRows>>
        BY <2>2, <2>3 DEF RowsInv
    <2>4. CASE indexed' = indexed + 1 /\ executedRows' = executedRows \cup {indexed + 1}
        <3>1. executedRows' \subseteq 1..indexed'
            BY <2>1, <2>4
        <3>2. \A r \in Round : r <= indexed' => r <= indexed \/ r = indexed + 1
            BY <2>1, <2>4
        <3> QED BY <2>2, <2>4, <3>1, <3>2 DEF RowsInv
    <2> QED BY <1>2, <2>3, <2>4 DEF index
<1>3. ASSUME NEW r \in Round, NEW found \in BOOLEAN, handleTerminalFailure(r, found)
      PROVE  RowsInv'
    <2>1. /\ terminal' = terminal \ {r} /\ executedRows' = executedRows \ {r}
          /\ erased' = erased \cup ({r} \cap executedRows) /\ UNCHANGED <<job, indexed>>
        BY <1>3 DEF handleTerminalFailure
    <2>2. executedRows' \cup erased' = executedRows \cup erased
        BY <2>1
    <2> QED BY <2>1, <2>2 DEF RowsInv
<1>4. ASSUME NEW r \in Round, NEW ok \in BOOLEAN, attemptFails(r, ok)
      PROVE  RowsInv'
    <2>1. \A q \in terminal' : q \in terminal \/ job'[q].state = "failed"
        BY <1>4 DEF attemptFails, TypeOK
    <2> QED BY <1>1, <1>4, <2>1 DEF attemptFails, RowsInv, TypeOK
<1>5. CASE crashScheduler
    BY <1>1, <1>5 DEF crashScheduler, RowsInv
<1>6. CASE UNCHANGED <<executedRows, indexed, terminal, erased>>
    BY <1>1, <1>6 DEF RowsInv, TypeOK
<1>7. ASSUME \/ tick \/ executeByHand \/ otherProcessSends \/ passTime
             \/ \E r \in Round : takeJob(r) \/ getSeqno(r) \/ executeRound(r)
                                 \/ jobCompletes(r) \/ backoffElapsed(r) \/ forgetJob(r)
             \/ \E e \in mempool : include(e)
      PROVE  UNCHANGED <<executedRows, indexed, terminal, erased>>
    BY <1>7 DEF tick, executeByHand, otherProcessSends, passTime, takeJob, getSeqno, executeRound,
                jobCompletes, backoffElapsed, forgetJob, include
<1> QED BY <1>2, <1>3, <1>4, <1>5, <1>6, <1>7 DEF SchedNext, SchedService, SchedEnvironment

-----------------------------------------------------------------------------
(* The notification service *)

(* The scanner and the worker see the same jobs as the scheduler.           *)
LEMMA SameNotices ==
    /\ Notif!Notice = Notice
    /\ \A t, r, u : Notif!Reminder(t, r, u) = Reminder(t, r, u)
    /\ \A t \in ReminderType, r \in Round, u \in User : Reminder(t, r, u) \in Reminders
    /\ Reminders \subseteq Notice
    /\ \A r \in Round : FailureNotice(r) \in Notice /\ FailureNotice(r) \notin Reminders
    /\ \A q, r \in Round : FailureNotice(q) = FailureNotice(r) => q = r
<1>1. Notif!Notice = Notice /\ \A t, r, u : Notif!Reminder(t, r, u) = Reminder(t, r, u)
    BY DEF Notif!Notice, Notice, Notif!Reminders, Reminders, Notif!FailureNotice, FailureNotice,
           Notif!Reminder, Reminder
<1>2. \A t \in ReminderType, r \in Round, u \in User : Reminder(t, r, u) \in Reminders
    BY DEF Reminder, Reminders
<1>3. \A r \in Round : FailureNotice(r) \notin Reminders
    BY DEF FailureNotice, Reminders
<1>4. \A q, r \in Round : FailureNotice(q) = FailureNotice(r) => q = r
    BY DEF FailureNotice
<1> QED BY <1>1, <1>2, <1>3, <1>4 DEF Notice

(* One scan moves.                                                          *)
ScanOk(c) ==
    /\ c \in ScanType
    /\ c.todo # {} => c.type \in ReminderType
    /\ c.round # NoRound => c.type \in ReminderType
    /\ c.left # {} => c.round # NoRound
ScanMoves(s, c) == ScanOk(c) /\ scan' = [scan EXCEPT ![s] = c]

LEMMA ScanHas ==
    ASSUME NotifShape, NEW s \in Scan
    PROVE  ScanOk(scan[s])
BY DEF NotifShape, ScanOk

LEMMA ScanMovesKeeps ==
    ASSUME NotifShape, NEW s \in Scan, NEW c, ScanMoves(s, c),
           UNCHANGED <<work, delivered, again, repeats>>, sentReminders' \subseteq ReminderType \X Round
    PROVE  NotifShape'
<1>1. scan \in [Scan -> ScanType] /\ c \in ScanType
    BY DEF NotifShape, ScanMoves, ScanOk
<1>2. scan' \in [Scan -> ScanType] /\ \A z \in Scan : scan'[z] = IF z = s THEN c ELSE scan[z]
    BY <1>1 DEF ScanMoves
<1>3. \A z \in Scan : ScanOk(scan'[z])
    BY <1>2, ScanHas DEF ScanMoves
<1> QED BY <1>2, <1>3 DEF NotifShape, ScanOk

LEMMA IdleOk == ServicesAssumption => ScanOk(Notif!Idle)
BY DEF ScanOk, ScanType, Notif!Idle

(* What a step of the scanner does to its scan.                             *)
LEMMA ScannerMoves ==
    ASSUME NotifShape, ServicesAssumption, NEW s \in Scan,
           \/ \E t \in ReminderType : Notif!scanWindow(s, t)
           \/ \E r \in Round, ok \in BOOLEAN : Notif!checkRound(s, r, ok)
           \/ \E u \in Member : Notif!enqueueReminder(s, u)
           \/ Notif!recordReminder(s) \/ Notif!scanEnds(s) \/ Notif!scanThrows(s)
    PROVE  /\ \E c : ScanMoves(s, c)
           /\ sentReminders' \subseteq ReminderType \X Round
           /\ UNCHANGED <<work, delivered, lost, again, repeats>>
<1> DEFINE c == scan[s]
<1>1. ScanOk(c) /\ c \in ScanType /\ sentReminders \subseteq ReminderType \X Round
      /\ scan \in [Scan -> ScanType]
    BY ScanHas DEF ScanOk, NotifShape
<1>2. ASSUME NEW t \in ReminderType, Notif!scanWindow(s, t)
      PROVE  /\ \E d : ScanMoves(s, d)
             /\ UNCHANGED <<sentReminders, work, delivered, lost, again, repeats>>
    <2>1. PICK found \in SUBSET Round :
            scan' = [scan EXCEPT ![s] = [Notif!Idle EXCEPT !.type = t, !.todo = found]]
        BY <1>2 DEF Notif!scanWindow
    <2>2. ScanOk([Notif!Idle EXCEPT !.type = t, !.todo = found])
        BY DEF ScanOk, ScanType, Notif!Idle
    <2> QED BY <1>2, <2>1, <2>2 DEF ScanMoves, Notif!scanWindow
<1>3. ASSUME NEW r \in Round, NEW ok \in BOOLEAN, Notif!checkRound(s, r, ok)
      PROVE  /\ \E d : ScanMoves(s, d)
             /\ UNCHANGED <<sentReminders, work, delivered, lost, again, repeats>>
    <2>1. c.type \in ReminderType /\ c.left = {}
        BY <1>1, <1>3 DEF Notif!checkRound, ScanOk
    <2>2. CASE scan' = [scan EXCEPT ![s].todo = @ \ {r}]
        <3>1. ScanOk([c EXCEPT !.todo = @ \ {r}])
            BY <1>1, <2>1 DEF ScanOk, ScanType
        <3> QED BY <1>1, <1>3, <2>2, <3>1 DEF ScanMoves, Notif!checkRound
    <2>3. CASE scan' = [scan EXCEPT ![s].round = r, ![s].left = IF ok THEN Member ELSE {}]
        <3> DEFINE d == [c EXCEPT !.round = r, !.left = IF ok THEN Member ELSE {}]
        <3>1. (IF ok THEN Member ELSE {}) \in SUBSET Member
            OBVIOUS
        <3>2. ScanOk(d)
            BY <1>1, <2>1, <3>1 DEF ScanOk, ScanType, ServicesAssumption, Notif!NotificationAssumption
        <3>3. scan' = [scan EXCEPT ![s] = d]
            BY <1>1, <2>3
        <3> QED BY <1>3, <3>2, <3>3 DEF ScanMoves, Notif!checkRound
    <2> QED BY <1>3, <2>2, <2>3 DEF Notif!checkRound
<1>4. ASSUME NEW u \in Member, Notif!enqueueReminder(s, u)
      PROVE  /\ \E d : ScanMoves(s, d)
             /\ UNCHANGED <<sentReminders, work, delivered, lost, again, repeats>>
    <2>1. ScanOk([c EXCEPT !.left = @ \ {u}])
        BY <1>1, <1>4 DEF ScanOk, ScanType, Notif!enqueueReminder
    <2> QED BY <1>1, <1>4, <2>1 DEF ScanMoves, Notif!enqueueReminder
<1>5. ASSUME Notif!recordReminder(s)
      PROVE  /\ \E d : ScanMoves(s, d)
             /\ sentReminders' = sentReminders \cup {<<c.type, c.round>>}
             /\ c.type \in ReminderType /\ c.round \in Round
             /\ UNCHANGED <<work, delivered, lost, again, repeats>>
    <2> DEFINE d == [c EXCEPT !.todo = @ \ {c.round}, !.round = NoRound]
    <2>1. ScanOk(d) /\ c.type \in ReminderType /\ c.round \in Round
        BY <1>1, <1>5 DEF ScanOk, ScanType, Notif!recordReminder
    <2>2. scan' = [scan EXCEPT ![s] = d]
        BY <1>1, <1>5 DEF Notif!recordReminder
    <2> QED BY <1>5, <2>1, <2>2 DEF ScanMoves, Notif!recordReminder
<1>6. ASSUME Notif!scanEnds(s) \/ Notif!scanThrows(s)
      PROVE  /\ \E d : ScanMoves(s, d)
             /\ UNCHANGED <<sentReminders, work, delivered, lost, again, repeats>>
    BY <1>6, IdleOk DEF ScanMoves, Notif!scanEnds, Notif!scanThrows
<1> QED BY <1>1, <1>2, <1>3, <1>4, <1>5, <1>6

(* The worker and a crash of the service.                                   *)
LEMMA IdlesCrash ==
    ASSUME NotifShape, ServicesAssumption, scan' = [s \in Scan |-> Notif!Idle]
    PROVE  scan' \in [Scan -> ScanType] /\ \A s \in Scan : ScanOk(scan'[s])
BY IdleOk DEF ScanOk

LEMMA NoWorkOk == Notif!NoWork \in WorkType
BY DEF WorkType, Results, Notif!NoWork

LEMMA takeShape ==
    ASSUME NotifShape, NEW n \in Notice, NEW read \in {"ok", "no_user", "no_setting"},
           NEW stalled \in BOOLEAN, Notif!takeNotice(n, read, stalled)
    PROVE  NotifShape'
<1>1. work' = work \/ work' = [notice |-> n, stalled |-> stalled, result |-> "none"]
    BY DEF Notif!takeNotice
<1>2. work' \in WorkType /\ (work' # Notif!NoWork => work'.notice \in Notice)
    BY <1>1 DEF NotifShape, WorkType, Results
<1>3. UNCHANGED <<sentReminders, scan, delivered, repeats>>
    BY DEF Notif!takeNotice
<1>4. again' \in [Notice -> Nat]
    <2>1. CASE stalled
        <3>1. again[n] > 0 /\ again' = [again EXCEPT ![n] = @ - 1]
            BY <2>1 DEF Notif!takeNotice
        <3>2. again \in [Notice -> Nat]
            BY DEF NotifShape
        <3> QED BY <3>1, <3>2
    <2>2. CASE ~stalled
        BY <2>2 DEF Notif!takeNotice, NotifShape
    <2> QED BY <2>1, <2>2
<1> QED BY <1>2, <1>3, <1>4 DEF NotifShape, Notif!NoWork

LEMMA sendShape ==
    ASSUME NotifShape, NEW result \in {"ok", "rate_limited", "failed"}, Notif!sendMessage(result)
    PROVE  NotifShape' /\ work.notice \in Notice /\ work' = [work EXCEPT !.result = result]
<1>1. work.notice \in Notice /\ work \in WorkType
    BY DEF Notif!sendMessage, NotifShape
<1>2. work' = [work EXCEPT !.result = result] /\ UNCHANGED <<sentReminders, scan, again, repeats>>
    BY DEF Notif!sendMessage
<1>3. work' \in WorkType /\ work'.notice \in Notice
    BY <1>1, <1>2 DEF WorkType, Results
<1>4. delivered' \in [Notice -> Nat]
    BY <1>1 DEF Notif!sendMessage, NotifShape
<1> QED BY <1>1, <1>2, <1>3, <1>4 DEF NotifShape, Notif!NoWork

LEMMA requeueShape ==
    ASSUME NotifShape, Notif!requeue
    PROVE  NotifShape' /\ work.notice \in Notice /\ work' = [work EXCEPT !.result = "requeued"]
<1>1. work.notice \in Notice /\ work \in WorkType
    BY DEF Notif!requeue, Notif!NoWork, NotifShape
<1>2. work' = [work EXCEPT !.result = "requeued"]
      /\ UNCHANGED <<sentReminders, scan, delivered, again, repeats>>
    BY DEF Notif!requeue
<1>3. work' \in WorkType /\ work'.notice \in Notice
    BY <1>1, <1>2 DEF WorkType, Results
<1> QED BY <1>1, <1>2, <1>3 DEF NotifShape, Notif!NoWork

LEMMA endShape ==
    ASSUME NotifShape, ServicesAssumption, Notif!jobEnds \/ Notif!crashNotifications
    PROVE  NotifShape' /\ work.notice \in Notice /\ work' = Notif!NoWork
<1>1. work.notice \in Notice /\ work' = Notif!NoWork /\ UNCHANGED <<sentReminders, delivered>>
    BY DEF Notif!jobEnds, Notif!crashNotifications, Notif!NoWork, NotifShape
<1>2. \/ scan' = scan
      \/ scan' = [s \in Scan |-> Notif!Idle]
    BY DEF Notif!jobEnds, Notif!crashNotifications
<1>3. scan' \in [Scan -> ScanType] /\ \A s \in Scan : ScanOk(scan'[s])
    BY <1>2, IdlesCrash, ScanHas DEF NotifShape
<1>4. again' \in [Notice -> Nat] /\ repeats' \in [Notice -> Nat]
    <2>1. \/ again' = again
          \/ again' = [again EXCEPT ![work.notice] = @ + 1]
        BY DEF Notif!jobEnds, Notif!crashNotifications
    <2>2. \/ repeats' = repeats
          \/ repeats' = [repeats EXCEPT ![work.notice] = @ + 1]
        BY DEF Notif!jobEnds, Notif!crashNotifications
    <2> QED BY <1>1, <2>1, <2>2 DEF NotifShape
<1> QED BY <1>1, <1>3, <1>4, NoWorkOk DEF NotifShape, ScanOk, Notif!NoWork

LEMMA NotifShapeKept ==
    ASSUME NotifShape, ServicesAssumption, Notif!NotifNext
    PROVE  NotifShape'
<1>1. CASE Notif!Scanner
    BY <1>1, ScannerMoves, ScanMovesKeeps DEF Notif!Scanner
<1>2. CASE Notif!Worker
    BY <1>2, takeShape, sendShape, requeueShape, endShape, SameNotices DEF Notif!Worker
<1>3. CASE Notif!crashNotifications
    BY <1>3, endShape
<1>4. ASSUME NEW u \in User, NEW key \in Notif!SettingKey, Notif!patchSetting(u, key)
      PROVE  UNCHANGED <<sentReminders, scan, work, delivered, again, repeats>>
    BY <1>4 DEF Notif!patchSetting
<1> QED BY <1>1, <1>2, <1>3, <1>4 DEF Notif!NotifNext, NotifShape, Notif!NoWork

(* What the notification service does to the state it shares.               *)
LEMMA SharedKept ==
    ASSUME TypeOK, NotifShape, ServicesAssumption, Notif!NotifNext
    PROVE  /\ queue' \in [Notice -> Nat] /\ jobIds' \subseteq Notice /\ faults' \in Nat
           /\ jobIds \subseteq jobIds'
           /\ UNCHANGED <<now, executedRows, kyeActive>>
<1>1. queue \in [Notice -> Nat] /\ jobIds \subseteq Notice /\ faults \in Nat
    BY DEF TypeOK
<1>2. faults' = faults \/ faults' = faults + 1
    <2>1. CASE Notif!Scanner
        <3>1. ASSUME NEW c, NEW t, Notif!scanWindow(c, t)
              PROVE  faults' = faults
            BY <3>1 DEF Notif!scanWindow
        <3>2. ASSUME NEW c, NEW r, NEW ok, Notif!checkRound(c, r, ok)
              PROVE  faults' = faults \/ faults' = faults + 1
            BY <3>2 DEF Notif!checkRound, Notif!Fault
        <3>3. ASSUME NEW c, NEW u, Notif!enqueueReminder(c, u)
              PROVE  faults' = faults
            BY <3>3 DEF Notif!enqueueReminder
        <3>4. ASSUME NEW c, Notif!recordReminder(c) \/ Notif!scanEnds(c) \/ Notif!scanThrows(c)
              PROVE  faults' = faults \/ faults' = faults + 1
            BY <3>4 DEF Notif!recordReminder, Notif!scanEnds, Notif!scanThrows, Notif!Fault
        <3> QED BY <2>1, <3>1, <3>2, <3>3, <3>4 DEF Notif!Scanner
    <2>2. ASSUME NEW n, NEW read, NEW stalled, Notif!takeNotice(n, read, stalled)
          PROVE  faults' = faults \/ faults' = faults + 1
        BY <2>2 DEF Notif!takeNotice, Notif!Fault
    <2>3. ASSUME NEW result, Notif!sendMessage(result)
          PROVE  faults' = faults \/ faults' = faults + 1
        BY <2>3 DEF Notif!sendMessage, Notif!Fault
    <2>4. Notif!requeue \/ Notif!jobEnds => faults' = faults
        BY DEF Notif!requeue, Notif!jobEnds
    <2>5. Notif!crashNotifications => faults' = faults + 1
        BY DEF Notif!crashNotifications, Notif!Fault
    <2>6. ASSUME NEW u, NEW key, Notif!patchSetting(u, key)
          PROVE  faults' = faults
        BY <2>6 DEF Notif!patchSetting
    <2> QED BY <2>1, <2>2, <2>3, <2>4, <2>5, <2>6 DEF Notif!NotifNext, Notif!Worker
<1>3. UNCHANGED <<now, executedRows, kyeActive>>
    BY DEF Notif!NotifNext, Notif!Scanner, Notif!Worker, Notif!scanWindow, Notif!checkRound,
           Notif!enqueueReminder, Notif!recordReminder, Notif!scanEnds, Notif!scanThrows,
           Notif!takeNotice, Notif!sendMessage, Notif!requeue, Notif!jobEnds, Notif!crashNotifications,
           Notif!patchSetting, Notif!readOnly
<1>5. ASSUME NEW s \in Scan, NEW u \in Member, Notif!enqueueReminder(s, u)
      PROVE  /\ queue' \in [Notice -> Nat] /\ jobIds' \subseteq Notice
             /\ jobIds \subseteq jobIds'
    <2>1. Notif!Reminder(scan[s].type, scan[s].round, u) \in Notice
        <3>1. ScanOk(scan[s]) /\ u \in scan[s].left /\ u \in User
            BY <1>5, ScanHas DEF Notif!enqueueReminder, ServicesAssumption,
                                 Notif!NotificationAssumption
        <3>2. scan[s].type \in ReminderType /\ scan[s].round \in Round
            BY <3>1 DEF ScanOk, ScanType
        <3> QED BY <3>1, <3>2, SameNotices
    <2> DEFINE n == Notif!Reminder(scan[s].type, scan[s].round, u)
    <2>2. Notif!AddOnce(n)
        BY <1>5 DEF Notif!enqueueReminder
    <2> HIDE DEF n
    <2> QED BY <1>1, <2>1, <2>2 DEF Notif!AddOnce, n
<1>6. ASSUME NEW n \in Notice, NEW read, NEW stalled, Notif!takeNotice(n, read, stalled)
      PROVE  queue' \in [Notice -> Nat] /\ jobIds' = jobIds
    BY <1>1, <1>6 DEF Notif!takeNotice
<1>7. ASSUME Notif!requeue \/ Notif!jobEnds \/ Notif!crashNotifications
      PROVE  queue' \in [Notice -> Nat] /\ jobIds' = jobIds
    <2>1. CASE Notif!requeue
        BY <1>1, <2>1, requeueShape DEF Notif!requeue, Notif!Add
    <2>2. CASE Notif!jobEnds \/ Notif!crashNotifications
        BY <1>1, <2>2 DEF Notif!jobEnds, Notif!crashNotifications
    <2> QED BY <1>7, <2>1, <2>2
<1>8. ASSUME \/ \E s \in Scan :
                \/ \E t \in ReminderType : Notif!scanWindow(s, t)
                \/ \E r \in Round, ok \in BOOLEAN : Notif!checkRound(s, r, ok)
                \/ Notif!recordReminder(s) \/ Notif!scanEnds(s) \/ Notif!scanThrows(s)
             \/ \E result \in {"ok", "rate_limited", "failed"} : Notif!sendMessage(result)
             \/ \E u \in User, key \in Notif!SettingKey : Notif!patchSetting(u, key)
      PROVE  UNCHANGED <<queue, jobIds>>
    BY <1>8 DEF Notif!scanWindow, Notif!checkRound, Notif!recordReminder, Notif!scanEnds,
                Notif!scanThrows, Notif!sendMessage, Notif!patchSetting
<1>9. queue' \in [Notice -> Nat] /\ jobIds' \subseteq Notice /\ jobIds \subseteq jobIds'
    BY <1>1, <1>5, <1>6, <1>7, <1>8, SameNotices DEF Notif!NotifNext, Notif!Scanner, Notif!Worker
<1> QED BY <1>1, <1>2, <1>3, <1>9

-----------------------------------------------------------------------------
(* Copies of a job *)

Room(n) == Allowed(n) + repeats[n]
LEMMA CopiesNat ==
    ASSUME TypeOK, NotifShape, NEW n \in Notice
    PROVE  Copies(n) \in Nat /\ Allowed(n) \in Nat /\ Room(n) \in Nat /\ repeats[n] \in Nat
<1>1. queue[n] \in Nat /\ again[n] \in Nat /\ delivered[n] \in Nat /\ repeats[n] \in Nat
    BY DEF TypeOK, NotifShape
<1>2. \A r \in Round : Handled(r) \in Nat /\ forgotten[r] \in Nat
    BY DEF Handled, TypeOK
<1>3. Allowed(n) \in Nat
    <2>1. n \notin Reminders => n.round \in Round
        BY DEF Notice, FailureNotice
    <2> QED BY <1>2, <2>1 DEF Allowed
<1> QED BY <1>1, <1>3 DEF Copies, Room

LEMMA CopiesNatNext ==
    ASSUME TypeOK', NotifShape'
    PROVE  \A n \in Notice : Copies(n)' \in Nat /\ Room(n)' \in Nat
<1> SUFFICES ASSUME NEW n \in Notice
             PROVE  Copies(n)' \in Nat /\ Room(n)' \in Nat
    OBVIOUS
<1>1. queue'[n] \in Nat /\ again'[n] \in Nat /\ delivered'[n] \in Nat /\ repeats'[n] \in Nat
    BY DEF TypeOK, NotifShape
<1>2. \A r \in Round : Handled(r)' \in Nat
    BY DEF Handled, TypeOK
<1>3. Allowed(n)' \in Nat
    <2>1. n \notin Reminders => n.round \in Round
        BY DEF Notice, FailureNotice
    <2> QED BY <1>2, <2>1 DEF Allowed
<1> QED BY <1>1, <1>3 DEF Copies, Room

(* A step that adds copies makes room for them.                             *)
CopyStep(n) == Copies(n)' + Room(n) <= Copies(n) + Room(n)'
LEMMA CopiesKept ==
    ASSUME TypeOK, NotifShape, CopiesInv, TypeOK', NotifShape',
           \A n \in Notice : Copies(n)' \in Nat /\ Room(n)' \in Nat,
           \A n \in Notice : CopyStep(n)
    PROVE  CopiesInv'
<1> SUFFICES ASSUME NEW n \in Notice
             PROVE  Copies(n)' <= Room(n)'
    BY DEF CopiesInv, Room
<1>1. Copies(n) \in Nat /\ Room(n) \in Nat /\ Copies(n) <= Room(n)
    BY CopiesNat DEF CopiesInv, Room
<1>2. Copies(n)' \in Nat /\ Room(n)' \in Nat /\ Copies(n)' + Room(n) <= Copies(n) + Room(n)'
    BY DEF CopyStep
<1> HIDE DEF Copies, Room
<1> QED BY <1>1, <1>2

(* The room for the notice of a failure never shrinks: a job that failed    *)
(* for good and is forgotten is counted with the forgotten ones.            *)
LEMMA HandledGrows ==
    ASSUME TypeOK, RowsInv, SchedNext, NEW r \in Round
    PROVE  Handled(r) <= Handled(r)' /\ Handled(r)' \in Nat
<1>1. /\ forgotten \in [Round -> Nat] /\ forgotten[r] \in Nat
      /\ Handled(r) \in {forgotten[r], forgotten[r] + 1}
    BY DEF TypeOK, Handled
<1>2. CASE forgetJob(r)
    <2>1. forgotten'[r] = forgotten[r] + 1 /\ job'[r] = NoJobYet
        BY <1>1, <1>2 DEF forgetJob, TypeOK
    <2>2. Handled(r)' = forgotten[r] + 1
        BY <1>1, <2>1 DEF Handled, NoJobYet
    <2> QED BY <1>1, <2>2
<1>3. CASE ~forgetJob(r)
    <2>1. \/ UNCHANGED forgotten
          \/ \E q \in Round : forgetJob(q)
        BY DEF SchedNext, SchedService, SchedEnvironment, tick, takeJob, getSeqno, executeRound,
               jobCompletes, backoffElapsed, attemptFails, handleTerminalFailure, crashScheduler,
               include, executeByHand, otherProcessSends, index, passTime
    <2>2. forgotten'[r] = forgotten[r]
        BY <1>1, <1>3, <2>1 DEF forgetJob
    <2>3. ASSUME job[r].state = "failed", r \notin terminal
          PROVE  job'[r].state = "failed" /\ r \notin terminal'
        <3>1. job'[r] = job[r]
            BY <1>3, <2>3, FailedStays
        <3>2. \A q \in Round, ok \in BOOLEAN : attemptFails(q, ok) =>
                    terminal' \subseteq terminal \cup {q} /\ job[q].state = "active"
            BY DEF attemptFails, Send
        <3>3. \/ terminal' \subseteq terminal
              \/ \E q \in Round, ok \in BOOLEAN : attemptFails(q, ok)
            BY DEF SchedNext, SchedService, SchedEnvironment, tick, takeJob, getSeqno,
                   executeRound, jobCompletes, backoffElapsed, forgetJob, handleTerminalFailure,
                   crashScheduler, include, executeByHand, otherProcessSends, index, passTime
        <3> QED BY <2>3, <3>1, <3>2, <3>3
    <2> QED BY <1>1, <2>2, <2>3 DEF Handled
<1> QED BY <1>2, <1>3

LEMMA NoticeCases ==
    ASSUME NEW n \in Notice
    PROVE  n \in Reminders \/ (n \notin Reminders /\ n.round \in Round
                                /\ n = FailureNotice(n.round))
BY DEF Notice, FailureNotice

LEMMA SchedRoom ==
    ASSUME TypeOK, NotifShape, RowsInv, SchedNext, UNCHANGED repeats, NEW n \in Notice
    PROVE  Room(n) <= Room(n)' /\ Room(n)' \in Nat
<1>1. jobIds \subseteq jobIds'
    BY DEF SchedNext, SchedService, SchedEnvironment, tick, takeJob, getSeqno, executeRound,
           jobCompletes, backoffElapsed, forgetJob, attemptFails, handleTerminalFailure, Add,
           crashScheduler, include, executeByHand, otherProcessSends, index, passTime
<1>2. repeats[n] \in Nat /\ Allowed(n) \in Nat
    BY CopiesNat
<1>3. Allowed(n) <= Allowed(n)' /\ Allowed(n)' \in Nat
    <2>1. CASE n \in Reminders
        BY <1>1, <2>1 DEF Allowed
    <2>2. CASE n \notin Reminders /\ n.round \in Round
        BY <2>2, HandledGrows DEF Allowed
    <2> QED BY <2>1, <2>2, NoticeCases
<1> QED BY <1>2, <1>3 DEF Room

(* The scheduler's only job for the queue is the notice of a failure whose  *)
(* handler has not run.                                                     *)
LEMMA SchedCopies ==
    ASSUME TypeOK, NotifShape, RowsInv, SchedNext, UNCHANGED notifVars,
           NEW n \in Notice
    PROVE  CopyStep(n)
<1>1. UNCHANGED <<work, delivered, again, repeats>>
    BY DEF notifVars
<1>2. Copies(n) \in Nat /\ Room(n) \in Nat
    BY CopiesNat
<1>6. Room(n) <= Room(n)' /\ Room(n)' \in Nat
    BY <1>1, SchedRoom
<1>3. CASE queue'[n] = queue[n]
    <2>1. Copies(n)' = Copies(n)
        BY <1>1, <1>3 DEF Copies
    <2> HIDE DEF Copies, Room
    <2> QED BY <1>2, <1>6, <2>1 DEF CopyStep
<1>4. ASSUME NEW r \in Round, NEW found \in BOOLEAN, handleTerminalFailure(r, found),
             queue'[n] # queue[n]
      PROVE  CopyStep(n)
    <2>1. r \in terminal /\ Add(FailureNotice(r)) /\ terminal' = terminal \ {r}
          /\ UNCHANGED <<job, forgotten>>
        BY <1>4 DEF handleTerminalFailure
    <2>2. FailureNotice(r) \in Notice /\ FailureNotice(r) \notin Reminders
        BY SameNotices
    <2>3. queue' = [queue EXCEPT ![FailureNotice(r)] = @ + 1] /\ queue \in [Notice -> Nat]
        BY <2>1 DEF Add, TypeOK
    <2>4. n = FailureNotice(r) /\ queue'[n] = queue[n] + 1 /\ n.round = r
        BY <1>4, <2>2, <2>3 DEF FailureNotice
    <2>5. job[r].state = "failed"
        BY <2>1 DEF RowsInv
    <2>6. Allowed(n)' = Allowed(n) + 1
        <3>1. forgotten[r] \in Nat
            BY DEF TypeOK
        <3>2. Handled(r) = forgotten[r] /\ Handled(r)' = forgotten[r] + 1
            BY <2>1, <2>5, <3>1 DEF Handled
        <3>3. Allowed(n) = Handled(r) /\ Allowed(n)' = Handled(r)'
            BY <2>2, <2>4 DEF Allowed
        <3> QED BY <3>2, <3>3
    <2>7. Room(n)' = Room(n) + 1
        BY <1>1, <2>6, CopiesNat DEF Room
    <2>8. Copies(n)' = Copies(n) + 1
        BY <1>1, <2>4 DEF Copies, NotifShape, TypeOK
    <2> HIDE DEF Copies, Room
    <2> QED BY <1>2, <2>7, <2>8 DEF CopyStep
<1>5. \/ queue' = queue
      \/ \E r \in Round, found \in BOOLEAN : handleTerminalFailure(r, found)
    BY DEF SchedNext, SchedService, SchedEnvironment, tick, takeJob, getSeqno, executeRound,
           jobCompletes, backoffElapsed, forgetJob, attemptFails, crashScheduler,
           include, executeByHand, otherProcessSends, index, passTime
<1> QED BY <1>3, <1>4, <1>5

(* A step of the notification service adds jobIds and no job of a round.    *)
LEMMA NotifRoom ==
    ASSUME TypeOK, NotifShape, jobIds \subseteq jobIds', UNCHANGED <<job, terminal, forgotten>>,
           NEW n \in Notice
    PROVE  /\ Allowed(n) \in Nat /\ Allowed(n)' \in Nat /\ Allowed(n) <= Allowed(n)'
           /\ n \in Reminders /\ n \notin jobIds /\ n \in jobIds' =>
                Allowed(n) = 0 /\ Allowed(n)' = 1
<1>1. Allowed(n) \in Nat
    BY CopiesNat
<1>2. \A r \in Round : Handled(r)' = Handled(r)
    BY DEF Handled
<1>3. CASE n \in Reminders
    BY <1>3 DEF Allowed
<1>4. CASE n \notin Reminders /\ n.round \in Round
    <2>1. Handled(n.round)' = Handled(n.round)
        BY <1>2, <1>4
    <2>2. Allowed(n) = Handled(n.round) /\ Allowed(n)' = Handled(n.round)'
        BY <1>4 DEF Allowed
    <2> HIDE DEF Allowed, Handled
    <2> QED BY <1>1, <1>4, <2>1, <2>2
<1> QED BY <1>1, <1>3, <1>4, NoticeCases

(* The copies before and after, and the crashes that repeat a job, are all  *)
(* that a step of the service must account for.                             *)
LEMMA StepFits ==
    ASSUME TypeOK, NotifShape, jobIds \subseteq jobIds', UNCHANGED <<job, terminal, forgotten>>,
           NEW n \in Notice, NEW d \in Nat,
           repeats'[n] = repeats[n] + d, Copies(n)' \in Nat, Copies(n)' <= Copies(n) + d
    PROVE  CopyStep(n)
<1>1. Copies(n) \in Nat /\ repeats[n] \in Nat
    BY CopiesNat
<1>2. Allowed(n) \in Nat /\ Allowed(n)' \in Nat /\ Allowed(n) <= Allowed(n)'
    BY NotifRoom
<1>3. Room(n) = Allowed(n) + repeats[n] /\ Room(n)' = Allowed(n)' + (repeats[n] + d)
    BY DEF Room
<1> HIDE DEF Copies, Room, Allowed
<1> QED BY <1>1, <1>2, <1>3 DEF CopyStep

LEMMA enqueueCopies ==
    ASSUME TypeOK, NotifShape, ServicesAssumption, UNCHANGED <<job, terminal, forgotten>>,
           NEW s \in Scan, NEW u \in Member, Notif!enqueueReminder(s, u), NEW n \in Notice
    PROVE  CopyStep(n)
<1>0. PICK m : m = Notif!Reminder(scan[s].type, scan[s].round, u)
    OBVIOUS
<1>1. m \in Reminders /\ m \in Notice
    <2>1. ScanOk(scan[s]) /\ u \in scan[s].left /\ u \in User
        BY ScanHas DEF Notif!enqueueReminder, ServicesAssumption, Notif!NotificationAssumption
    <2>2. scan[s].type \in ReminderType /\ scan[s].round \in Round
        BY <2>1 DEF ScanOk, ScanType
    <2> QED BY <1>0, <2>1, <2>2, SameNotices
<1>2. Notif!AddOnce(m) /\ UNCHANGED <<work, delivered, again, repeats>>
    BY <1>0 DEF Notif!enqueueReminder
<1>3. Copies(n) \in Nat /\ repeats[n] \in Nat /\ jobIds \subseteq jobIds'
    BY <1>2, CopiesNat DEF Notif!AddOnce
<1>4. CASE n = m /\ m \notin jobIds
    <2>1. queue'[n] = queue[n] + 1 /\ jobIds' = jobIds \cup {n}
        BY <1>1, <1>2, <1>4 DEF Notif!AddOnce, TypeOK
    <2>2. Copies(n)' = Copies(n) + 1
        BY <1>1, <1>2, <2>1 DEF Copies, TypeOK, NotifShape
    <2>3. Allowed(n) = 0 /\ Allowed(n)' = 1
        BY <1>1, <1>3, <1>4, <2>1, NotifRoom
    <2>4. Room(n) = repeats[n] /\ Room(n)' = repeats[n] + 1
        BY <1>2, <1>3, <2>3 DEF Room
    <2> HIDE DEF Copies, Room
    <2> QED BY <1>3, <2>2, <2>4 DEF CopyStep
<1>5. CASE ~(n = m /\ m \notin jobIds)
    <2>1. queue'[n] = queue[n]
        BY <1>1, <1>2, <1>5 DEF Notif!AddOnce, TypeOK
    <2>2. Copies(n)' = Copies(n) + 0 /\ repeats'[n] = repeats[n] + 0
        BY <1>2, <1>3, <2>1 DEF Copies
    <2> HIDE DEF Copies
    <2> QED BY <1>3, <2>2, StepFits
<1> QED BY <1>4, <1>5

InHand(n) == IF work.notice = n /\ work.result \notin {"ok", "requeued"} THEN 1 ELSE 0

LEMMA takeCopies ==
    ASSUME TypeOK, NotifShape, ServicesAssumption, UNCHANGED <<job, terminal, forgotten>>,
           NEW m \in Notice, NEW read, NEW stalled, Notif!takeNotice(m, read, stalled),
           NEW n \in Notice
    PROVE  CopyStep(n)
<1>1. /\ work = Notif!NoWork
      /\ work' = work \/ work' = [notice |-> m, stalled |-> stalled, result |-> "none"]
      /\ UNCHANGED <<delivered, repeats, jobIds>>
    BY DEF Notif!takeNotice
<1>2. \/ again[m] > 0 /\ again' = [again EXCEPT ![m] = @ - 1] /\ UNCHANGED queue
      \/ queue[m] > 0 /\ queue' = [queue EXCEPT ![m] = @ - 1] /\ UNCHANGED again
    BY DEF Notif!takeNotice
<1>3. /\ queue \in [Notice -> Nat] /\ delivered[n] \in Nat /\ again \in [Notice -> Nat]
      /\ repeats[n] \in Nat /\ queue[n] \in Nat /\ again[n] \in Nat
    BY DEF TypeOK, NotifShape
<1>4. work.notice # n
    <2>1. NoJob \notin Notice
        BY SameNotices DEF ServicesAssumption, Notif!NotificationAssumption
    <2> QED BY <1>1, <2>1 DEF Notif!NoWork
<1>5. InHand(n) = 0 /\ InHand(n)' \in {0, 1} /\ (n # m => InHand(n)' = 0)
    BY <1>1, <1>4 DEF InHand
<1>6. /\ queue'[n] \in Nat /\ again'[n] \in Nat
      /\ queue'[n] + again'[n] + InHand(n)' <= queue[n] + again[n]
    <2>1. CASE n = m
        BY <1>2, <1>3, <1>5, <2>1
    <2>2. CASE n # m
        <3>1. queue'[n] = queue[n] /\ again'[n] = again[n]
            BY <1>2, <1>3, <2>2
        <3> QED BY <1>3, <1>5, <2>2, <3>1
    <2> QED BY <2>1, <2>2
<1>7. Copies(n)' \in Nat /\ Copies(n)' <= Copies(n) + 0 /\ repeats'[n] = repeats[n] + 0
    BY <1>1, <1>3, <1>5, <1>6 DEF Copies, InHand
<1> HIDE DEF Copies
<1> QED BY <1>1, <1>7, StepFits

LEMMA sendCopies ==
    ASSUME TypeOK, NotifShape, UNCHANGED <<job, terminal, forgotten>>,
           NEW result \in {"ok", "rate_limited", "failed"},
           Notif!sendMessage(result), NEW n \in Notice
    PROVE  CopyStep(n)
<1>1. /\ work.notice \in Notice /\ work.result = "none" /\ UNCHANGED <<queue, again, repeats, jobIds>>
      /\ work'.notice = work.notice /\ work'.result = result
    BY sendShape DEF Notif!sendMessage, NotifShape, WorkType
<1>2. delivered' = IF result = "ok" THEN [delivered EXCEPT ![work.notice] = @ + 1] ELSE delivered
    BY DEF Notif!sendMessage
<1>3. queue[n] \in Nat /\ again[n] \in Nat /\ delivered[n] \in Nat /\ delivered \in [Notice -> Nat]
      /\ repeats[n] \in Nat
    BY DEF TypeOK, NotifShape
<1>4. delivered'[n] = IF result = "ok" /\ work.notice = n THEN delivered[n] + 1 ELSE delivered[n]
    BY <1>1, <1>2, <1>3
<1>5. Copies(n)' \in Nat /\ Copies(n)' <= Copies(n) + 0 /\ repeats'[n] = repeats[n] + 0
    BY <1>1, <1>3, <1>4 DEF Copies
<1> HIDE DEF Copies
<1> QED BY <1>1, <1>5, StepFits

LEMMA requeueCopies ==
    ASSUME TypeOK, NotifShape, UNCHANGED <<job, terminal, forgotten>>,
           Notif!requeue, NEW n \in Notice
    PROVE  CopyStep(n)
<1>1. /\ work.notice \in Notice /\ work.result = "rate_limited"
      /\ UNCHANGED <<delivered, again, repeats, jobIds>>
      /\ work'.notice = work.notice /\ work'.result = "requeued"
    BY requeueShape DEF Notif!requeue, Notif!Add, NotifShape, WorkType
<1>2. queue' = [queue EXCEPT ![work.notice] = @ + 1] /\ queue \in [Notice -> Nat]
    BY DEF Notif!requeue, Notif!Add, TypeOK
<1>3. queue[n] \in Nat /\ again[n] \in Nat /\ delivered[n] \in Nat /\ repeats[n] \in Nat
    BY DEF TypeOK, NotifShape
<1>4. queue'[n] = IF work.notice = n THEN queue[n] + 1 ELSE queue[n]
    BY <1>1, <1>2
<1>5. Copies(n)' \in Nat /\ Copies(n)' <= Copies(n) + 0 /\ repeats'[n] = repeats[n] + 0
    BY <1>1, <1>3, <1>4 DEF Copies
<1> HIDE DEF Copies
<1> QED BY <1>1, <1>5, StepFits

LEMMA NobodysWork ==
    ASSUME ServicesAssumption, NEW n \in Notice
    PROVE  Notif!NoWork.notice # n
BY SameNotices DEF ServicesAssumption, Notif!NotificationAssumption, Notif!NoWork

LEMMA endCopies ==
    ASSUME TypeOK, NotifShape, ServicesAssumption, UNCHANGED <<job, terminal, forgotten>>,
           Notif!jobEnds, NEW n \in Notice
    PROVE  CopyStep(n)
<1>1. /\ work' = Notif!NoWork /\ UNCHANGED <<queue, delivered, again, repeats, jobIds>>
      /\ work'.notice # n
    BY NobodysWork DEF Notif!jobEnds
<1>2. queue[n] \in Nat /\ again[n] \in Nat /\ delivered[n] \in Nat /\ repeats[n] \in Nat
    BY DEF TypeOK, NotifShape
<1>3. Copies(n)' \in Nat /\ Copies(n)' <= Copies(n) + 0 /\ repeats'[n] = repeats[n] + 0
    BY <1>1, <1>2 DEF Copies
<1> HIDE DEF Copies
<1> QED BY <1>1, <1>3, StepFits

(* A crash hands out again what was in hand; a copy whose work was done is  *)
(* one too many.                                                            *)
LEMMA crashCopies ==
    ASSUME TypeOK, NotifShape, ServicesAssumption, UNCHANGED <<job, terminal, forgotten>>,
           Notif!crashNotifications, NEW n \in Notice
    PROVE  CopyStep(n)
<1>1. /\ work' = Notif!NoWork /\ UNCHANGED <<queue, delivered, jobIds>>
      /\ work'.notice # n /\ work.notice \in Notice
    BY NobodysWork, endShape DEF Notif!crashNotifications
<1>2. queue[n] \in Nat /\ again[n] \in Nat /\ delivered[n] \in Nat /\ repeats[n] \in Nat
      /\ again \in [Notice -> Nat] /\ repeats \in [Notice -> Nat]
    BY DEF TypeOK, NotifShape
<1>3. CASE UNCHANGED <<again, repeats>> \/ work.notice # n
    <2>1. again'[n] = again[n] /\ repeats'[n] = repeats[n]
        BY <1>2, <1>3 DEF Notif!crashNotifications
    <2>2. Copies(n)' \in Nat /\ Copies(n)' <= Copies(n) + 0 /\ repeats'[n] = repeats[n] + 0
        BY <1>1, <1>2, <2>1 DEF Copies
    <2> HIDE DEF Copies
    <2> QED BY <1>1, <2>2, StepFits
<1>4. CASE /\ work.notice = n /\ work.result \in {"ok", "requeued"}
           /\ again' = [again EXCEPT ![work.notice] = @ + 1]
           /\ repeats' = [repeats EXCEPT ![work.notice] = @ + 1]
    <2>1. again'[n] = again[n] + 1 /\ repeats'[n] = repeats[n] + 1
        BY <1>2, <1>4
    <2>2. Copies(n)' \in Nat /\ Copies(n)' <= Copies(n) + 1
        BY <1>1, <1>2, <1>4, <2>1 DEF Copies
    <2> HIDE DEF Copies
    <2> QED BY <1>1, <2>1, <2>2, StepFits
<1>5. CASE /\ work.notice = n /\ work.result \notin {"ok", "requeued"}
           /\ again' = [again EXCEPT ![work.notice] = @ + 1] /\ UNCHANGED repeats
    <2>1. again'[n] = again[n] + 1 /\ repeats'[n] = repeats[n] + 0
        BY <1>2, <1>5
    <2>2. Copies(n)' \in Nat /\ Copies(n)' <= Copies(n) + 0
        BY <1>1, <1>2, <1>5, <2>1 DEF Copies
    <2> HIDE DEF Copies
    <2> QED BY <1>1, <2>1, <2>2, StepFits
<1> QED BY <1>3, <1>4, <1>5 DEF Notif!crashNotifications

LEMMA NotifCopies ==
    ASSUME TypeOK, NotifShape, ServicesAssumption, UNCHANGED <<job, terminal, forgotten>>,
           jobIds \subseteq jobIds', Notif!NotifNext, NEW n \in Notice
    PROVE  CopyStep(n)
<1>1. CASE UNCHANGED <<queue, work, delivered, again, repeats>>
    <2>1. Copies(n) \in Nat /\ repeats[n] \in Nat
        BY CopiesNat
    <2>2. Copies(n)' = Copies(n) + 0 /\ repeats'[n] = repeats[n] + 0
        BY <1>1, <2>1 DEF Copies
    <2> HIDE DEF Copies
    <2> QED BY <2>1, <2>2, StepFits
<1>2. ASSUME \/ \E s \in Scan :
                \/ \E t \in ReminderType : Notif!scanWindow(s, t)
                \/ \E r \in Round, ok \in BOOLEAN : Notif!checkRound(s, r, ok)
                \/ Notif!recordReminder(s) \/ Notif!scanEnds(s) \/ Notif!scanThrows(s)
             \/ \E u \in User, key \in Notif!SettingKey : Notif!patchSetting(u, key)
      PROVE  UNCHANGED <<queue, work, delivered, again, repeats>>
    BY <1>2 DEF Notif!scanWindow, Notif!checkRound, Notif!recordReminder, Notif!scanEnds,
                Notif!scanThrows, Notif!patchSetting
<1> QED BY <1>1, <1>2, enqueueCopies, takeCopies, sendCopies, requeueCopies, endCopies,
           crashCopies, SameNotices
        DEF Notif!NotifNext, Notif!Scanner, Notif!Worker

-----------------------------------------------------------------------------
(* Reminders on record *)

(* Nothing but the scanner writes what it keeps, and jobIds only grow.      *)
LEMMA QueuedStays ==
    ASSUME QueuedInv, jobIds \subseteq jobIds', misread \subseteq misread',
           UNCHANGED <<sentReminders, scan>>
    PROVE  QueuedInv'
BY DEF QueuedInv, RecordedMeansQueued

(* A scan that moves, to a record of which the invariant holds.             *)
ScanQueued(c) ==
    c.round # NoRound =>
        \/ <<c.type, c.round>> \in misread
        \/ \A u \in Member \ c.left : Reminder(c.type, c.round, u) \in jobIds
LEMMA ScanQueuedKept ==
    ASSUME QueuedInv, NotifShape, jobIds \subseteq jobIds', misread \subseteq misread',
           UNCHANGED sentReminders, NEW s \in Scan, NEW c,
           scan' = [scan EXCEPT ![s] = c],
           c.round # NoRound =>
                \/ <<c.type, c.round>> \in misread'
                \/ \A u \in Member \ c.left : Reminder(c.type, c.round, u) \in jobIds'
    PROVE  QueuedInv'
<1>1. RecordedMeansQueued'
    BY DEF QueuedInv, RecordedMeansQueued
<1>2. \A z \in Scan : scan'[z] = IF z = s THEN c ELSE scan[z]
    BY DEF NotifShape
<1>3. \A z \in Scan \ {s} : ScanQueued(scan[z])
    BY DEF QueuedInv, ScanQueued
<1> QED BY <1>1, <1>2, <1>3 DEF QueuedInv, ScanQueued

LEMMA ScannerQueued ==
    ASSUME QueuedInv, NotifShape, ServicesAssumption, jobIds \subseteq jobIds',
           NEW s \in Scan,
           \/ \E t \in ReminderType : Notif!scanWindow(s, t)
           \/ \E r \in Round, ok \in BOOLEAN : Notif!checkRound(s, r, ok)
           \/ \E u \in Member : Notif!enqueueReminder(s, u)
           \/ Notif!recordReminder(s) \/ Notif!scanEnds(s) \/ Notif!scanThrows(s)
    PROVE  QueuedInv'
<1>1. PICK c : c = scan[s]
    OBVIOUS
<1>2. c \in ScanType /\ scan \in [Scan -> ScanType]
    BY <1>1 DEF NotifShape
<1>3. ASSUME NEW t \in ReminderType, Notif!scanWindow(s, t)
      PROVE  QueuedInv'
    <2>1. PICK found :
            scan' = [scan EXCEPT ![s] = [Notif!Idle EXCEPT !.type = t, !.todo = found]]
        BY <1>3 DEF Notif!scanWindow
    <2>2. [Notif!Idle EXCEPT !.type = t, !.todo = found].round = NoRound
        BY DEF Notif!Idle
    <2>3. UNCHANGED <<sentReminders, misread>>
        BY <1>3 DEF Notif!scanWindow
    <2> QED BY <2>1, <2>2, <2>3, ScanQueuedKept
<1>4. ASSUME NEW r \in Round, NEW ok \in BOOLEAN, Notif!checkRound(s, r, ok)
      PROVE  QueuedInv'
    <2>1. scan[s].round = NoRound /\ UNCHANGED <<sentReminders, jobIds>> /\ misread \subseteq misread'
        BY <1>4 DEF Notif!checkRound
    <2>2. CASE scan' = [scan EXCEPT ![s].todo = @ \ {r}]
        <3>1. scan' = [scan EXCEPT ![s] = [c EXCEPT !.todo = @ \ {r}]]
            BY <1>1, <1>2, <2>2
        <3>2. [c EXCEPT !.todo = @ \ {r}].round = NoRound
            BY <1>1, <1>2, <2>1 DEF ScanType
        <3> QED BY <2>1, <3>1, <3>2, ScanQueuedKept
    <2>3. CASE /\ scan' = [scan EXCEPT ![s].round = r, ![s].left = IF ok THEN Member ELSE {}]
               /\ ~ok => misread' = misread \cup {<<scan[s].type, r>>}
        <3>0. PICK m : m = IF ok THEN Member ELSE {}
            OBVIOUS
        <3>1. PICK d : d = [c EXCEPT !.round = r, !.left = m]
            OBVIOUS
        <3>2. scan' = [scan EXCEPT ![s] = d]
            BY <1>1, <1>2, <2>3, <3>0, <3>1
        <3>3. d.round = r /\ d.type = c.type /\ d.left = m
            BY <1>2, <3>1 DEF ScanType
        <3>4. \/ <<d.type, d.round>> \in misread'
              \/ \A u \in Member \ d.left : Reminder(d.type, d.round, u) \in jobIds'
            BY <1>1, <2>3, <3>0, <3>3
        <3> QED BY <2>1, <3>2, <3>4, ScanQueuedKept
    <2> QED BY <1>4, <2>2, <2>3 DEF Notif!checkRound
<1>5. ASSUME NEW u \in Member, Notif!enqueueReminder(s, u)
      PROVE  QueuedInv'
    <2>1. PICK d : d = [c EXCEPT !.left = @ \ {u}]
        OBVIOUS
    <2>2. scan' = [scan EXCEPT ![s] = d] /\ UNCHANGED <<sentReminders, misread>>
        BY <1>1, <1>2, <1>5, <2>1 DEF Notif!enqueueReminder
    <2>3. d.round = c.round /\ d.type = c.type /\ d.left = c.left \ {u}
        BY <1>2, <2>1 DEF ScanType
    <2>4. Reminder(c.type, c.round, u) \in jobIds'
        BY <1>1, <1>5, SameNotices DEF Notif!enqueueReminder, Notif!AddOnce
    <2>5. ScanQueued(c)
        BY <1>1 DEF QueuedInv, ScanQueued
    <2>6. d.round # NoRound =>
                \/ <<d.type, d.round>> \in misread'
                \/ \A v \in Member \ d.left : Reminder(d.type, d.round, v) \in jobIds'
        BY <2>2, <2>3, <2>4, <2>5 DEF ScanQueued
    <2> QED BY <2>2, <2>6, ScanQueuedKept
<1>6. ASSUME Notif!recordReminder(s)
      PROVE  QueuedInv'
    <2>1. c.round # NoRound /\ c.left = {} /\ UNCHANGED <<jobIds, misread>>
          /\ sentReminders' = sentReminders \cup {<<c.type, c.round>>}
        BY <1>1, <1>6 DEF Notif!recordReminder
    <2>2. PICK d : d = [c EXCEPT !.todo = @ \ {c.round}, !.round = NoRound]
        OBVIOUS
    <2>3. scan' = [scan EXCEPT ![s] = d] /\ d.round = NoRound
        BY <1>1, <1>2, <1>6, <2>2 DEF Notif!recordReminder, ScanType
    <2>4. ScanQueued(c)
        BY <1>1 DEF QueuedInv, ScanQueued
    <2>5. RecordedMeansQueued'
        BY <2>1, <2>4 DEF QueuedInv, RecordedMeansQueued, ScanQueued
    <2>6. \A z \in Scan : ScanQueued(scan'[z])
        BY <1>2, <2>3 DEF QueuedInv, ScanQueued
    <2> QED BY <2>1, <2>5, <2>6 DEF QueuedInv, ScanQueued
<1>7. ASSUME Notif!scanEnds(s) \/ Notif!scanThrows(s)
      PROVE  QueuedInv'
    <2>1. scan' = [scan EXCEPT ![s] = Notif!Idle] /\ UNCHANGED <<sentReminders, misread>>
          /\ Notif!Idle.round = NoRound
        BY <1>7 DEF Notif!scanEnds, Notif!scanThrows, Notif!Idle
    <2> QED BY <2>1, ScanQueuedKept
<1> QED BY <1>3, <1>4, <1>5, <1>6, <1>7

LEMMA NotifQueued ==
    ASSUME QueuedInv, NotifShape, ServicesAssumption, jobIds \subseteq jobIds', Notif!NotifNext
    PROVE  QueuedInv'
<1>1. CASE Notif!Scanner
    BY <1>1, ScannerQueued DEF Notif!Scanner
<1>2. CASE Notif!Worker \/ \E u \in User, key \in Notif!SettingKey : Notif!patchSetting(u, key)
    <2>1. UNCHANGED <<sentReminders, scan, misread>>
        BY <1>2 DEF Notif!Worker, Notif!takeNotice, Notif!sendMessage, Notif!requeue,
                    Notif!jobEnds,
                    Notif!patchSetting
    <2> QED BY <2>1, QueuedStays
<1>3. CASE Notif!crashNotifications
    <2>1. UNCHANGED <<sentReminders, misread, jobIds>>
          /\ scan' = [s \in Scan |-> Notif!Idle]
        BY <1>3 DEF Notif!crashNotifications
    <2>2. \A s \in Scan : scan'[s].round = NoRound
        BY <2>1 DEF Notif!Idle
    <2> QED BY <2>1, <2>2 DEF QueuedInv, RecordedMeansQueued
<1> QED BY <1>1, <1>2, <1>3 DEF Notif!NotifNext

-----------------------------------------------------------------------------
(* Messages in flight and the rounds they execute *)

(* Rows can be counted, and so many of them reach so high a round.          *)
LEMMA RowCounts ==
    ASSUME NEW S, S \subseteq Round
    PROVE  /\ IsFiniteSet(S) /\ Cardinality(S) \in Nat
           /\ \A T : T \subseteq S => Cardinality(T) <= Cardinality(S)
           /\ \A T, x : T \subseteq S /\ x \in S \ T => Cardinality(T) + 1 <= Cardinality(S)
<1>1. IsFiniteSet(1..memberCount)
    BY FS_Interval
<1>2. IsFiniteSet(S)
    BY <1>1, FS_Subset
<1>3. Cardinality(S) \in Nat
    BY <1>2, FS_CardinalityType
<1>4. ASSUME NEW T, T \subseteq S
      PROVE  Cardinality(T) <= Cardinality(S)
    BY <1>2, <1>4, FS_Subset
<1>5. ASSUME NEW T, NEW x, T \subseteq S, x \in S \ T
      PROVE  Cardinality(T) + 1 <= Cardinality(S)
    <2>1. IsFiniteSet(T)
        BY <1>2, <1>5, FS_Subset
    <2>2. Cardinality(T \cup {x}) = Cardinality(T) + 1
        BY <1>5, <2>1, FS_AddElement
    <2>3. Cardinality(T \cup {x}) <= Cardinality(S)
        BY <1>4, <1>5
    <2> QED BY <2>2, <2>3
<1> QED BY <1>2, <1>3, <1>4, <1>5

LEMMA RowsReach ==
    ASSUME NEW S, S \subseteq Round, NEW k \in Nat, k >= 1, k <= Cardinality(S)
    PROVE  \E q \in S : k <= q
<1> SUFFICES ASSUME \A q \in S : q < k PROVE FALSE
    <2>1. \A q \in S : q \in Nat
        OBVIOUS
    <2> QED BY <2>1
<1>1. S \subseteq 1..(k - 1)
    OBVIOUS
<1>2. k - 1 \in Int /\ 1 \in Int
    OBVIOUS
<1>3. IsFiniteSet(1..(k - 1)) /\ Cardinality(1..(k - 1)) = IF 1 > k - 1 THEN 0 ELSE k - 1 - 1 + 1
    BY <1>2, FS_Interval
<1>4. Cardinality(S) <= Cardinality(1..(k - 1))
    BY <1>1, <1>3, FS_Subset
<1>5. Cardinality(S) \in Nat
    BY RowCounts
<1> QED BY <1>3, <1>4, <1>5

(* A step that sends nothing and executes nothing keeps the count: fewer    *)
(* messages are pending.                                                    *)
LEMMA QuietSteps ==
    ASSUME TypeOK, Floats, mempool' \subseteq mempool, UNCHANGED broadcasts,
           Quiet' => Quiet /\ UNCHANGED currentRound
    PROVE  Floats'
<1>1. Pending' \subseteq Pending /\ Sent' = Sent
    BY DEF Pending, Sent
<1>2. PICK A, B : A = Sent \ Pending /\ B = (Sent \ Pending)'
    OBVIOUS
<1>3. A \subseteq B /\ B \subseteq Round
    BY <1>1, <1>2 DEF Sent
<1>4. Cardinality(A) <= Cardinality(B) /\ Cardinality(A) \in Nat /\ Cardinality(B) \in Nat
    BY <1>3, RowCounts
<1>5. Quiet' => currentRound' - 1 <= Cardinality(B)
    <2>1. Quiet => currentRound - 1 <= Cardinality(A)
        BY <1>2 DEF Floats
    <2>2. currentRound \in Nat
        BY DEF TypeOK
    <2> QED BY <1>4, <2>1, <2>2
<1> QED BY <1>1, <1>2, <1>5 DEF Floats

(* A message joins the pending ones, and its row the rows that sent.        *)
LEMMA SendFloats ==
    ASSUME TypeOK, Floats, NEW r \in Round, NEW reached \in BOOLEAN, Send(r, reached),
           UNCHANGED <<currentRound, byHand>>
    PROVE  Floats'
<1>1. CASE ~reached
    <2>1. broadcasts' = broadcasts
        BY <1>1 DEF Send, TypeOK
    <2>2. mempool' = mempool
        BY <1>1 DEF Send, Wallet!SendTransfer
    <2> QED BY <2>1, <2>2, QuietSteps DEF Quiet
<1>2. CASE reached
    <2>1. PICK e : e = [seqno |-> readSeqno["scheduler"],
                        msg |-> [round |-> r, nr |-> broadcasts[r]]]
        OBVIOUS
    <2>2. mempool' = mempool \cup {e} /\ e.msg.round = r
        BY <1>2, <2>1 DEF Send, Wallet!SendTransfer
    <2>3. broadcasts' = [broadcasts EXCEPT ![r] = @ + 1] /\ broadcasts \in [Round -> Nat]
        BY <1>2 DEF Send, TypeOK
    <2>4. Sent' = Sent \cup {r}
        BY <2>3 DEF Sent
    <2>5. Pending' = Pending \cup {r}
        BY <2>2 DEF Pending
    <2>6. Quiet' => Quiet /\ r \notin Sent
        BY <2>3 DEF Quiet, Sent
    <2>7. ASSUME Quiet'
          PROVE  /\ (Sent \ Pending)' = Sent \ Pending
                 /\ \A f \in mempool : f.msg.round # r
        <3>1. r \notin Sent /\ r \notin Pending
            BY <2>6, <2>7 DEF Floats
        <3> QED BY <2>4, <2>5, <3>1 DEF Pending
    <2>8. Quiet' => /\ (currentRound - 1 <= Cardinality(Sent \ Pending))'
                    /\ \A f, g \in mempool' : f.msg.round = g.msg.round => f = g
        BY <2>2, <2>6, <2>7 DEF Floats
    <2> QED BY <2>4, <2>5, <2>8 DEF Floats
<1> QED BY <1>1, <1>2

(* A message that is included is pending no more, and no other of its row   *)
(* is: its row is one more for the round that it may execute.               *)
LEMMA includeFloats ==
    ASSUME TypeOK, ChainInv, Floats, NEW e \in mempool, include(e)
    PROVE  Floats'
<1>1. mempool' \subseteq mempool /\ e \notin mempool' /\ UNCHANGED <<broadcasts, byHand>>
    BY DEF include, Wallet!Included, TypeOK
<1>2. currentRound' \in {currentRound, currentRound + 1}
    BY DEF include, ChainExecutesRound
<1>3. CASE currentRound' = currentRound
    BY <1>1, <1>3, QuietSteps DEF Quiet
<1>4. CASE currentRound' = currentRound + 1
    <2>1. Pending' \subseteq Pending /\ Sent' = Sent /\ (Quiet' <=> Quiet)
        BY <1>1 DEF Pending, Sent, Quiet
    <2>2. PICK A, B, x : A = Sent \ Pending /\ B = (Sent \ Pending)' /\ x = e.msg.round
        OBVIOUS
    <2>3. ASSUME Quiet'
          PROVE  currentRound' - 1 <= Cardinality(B)
        <3>1. x \in Pending /\ x \notin Pending'
            BY <1>1, <2>1, <2>2, <2>3 DEF Pending, Floats
        <3>2. A \subseteq B /\ x \in B \ A /\ B \subseteq Round
            BY <2>1, <2>2, <3>1 DEF Sent, Floats
        <3>3. Cardinality(A) + 1 <= Cardinality(B) /\ Cardinality(A) \in Nat
              /\ Cardinality(B) \in Nat
            BY <3>2, RowCounts
        <3>4. currentRound - 1 <= Cardinality(A) /\ currentRound \in Nat
            BY <2>1, <2>2, <2>3 DEF Floats, TypeOK
        <3> QED BY <1>4, <3>3, <3>4
    <2>4. Quiet' => \A f, g \in mempool' : f.msg.round = g.msg.round => f = g
        BY <1>1, <2>1 DEF Floats
    <2> QED BY <2>1, <2>2, <2>3, <2>4 DEF Floats
<1> QED BY <1>2, <1>3, <1>4

LEMMA SchedFloats ==
    ASSUME TypeOK, ChainInv, Floats, SchedNext
    PROVE  Floats'
<1>1. ASSUME NEW r \in Round, executeRound(r)
      PROVE  Floats'
    BY <1>1, SendFloats DEF executeRound
<1>2. ASSUME NEW r \in Round, NEW ok \in BOOLEAN, attemptFails(r, ok)
      PROVE  Floats'
    BY <1>2, SendFloats DEF attemptFails
<1>3. ASSUME \/ tick \/ crashScheduler \/ otherProcessSends \/ index \/ passTime
             \/ \E r \in Round :
                    \/ takeJob(r) \/ getSeqno(r) \/ jobCompletes(r) \/ backoffElapsed(r) \/ forgetJob(r)
                    \/ \E ok \in BOOLEAN : handleTerminalFailure(r, ok)
      PROVE  mempool' \subseteq mempool /\ UNCHANGED <<broadcasts, currentRound, byHand>>
    BY <1>3 DEF tick, crashScheduler, Wallet!WalletCrash, otherProcessSends, index, passTime,
        takeJob, getSeqno, Wallet!GetSeqno, jobCompletes, backoffElapsed, forgetJob, handleTerminalFailure
<1>4. CASE executeByHand
    BY <1>4, QuietSteps DEF executeByHand, Quiet
<1>5. CASE mempool' \subseteq mempool /\ UNCHANGED <<broadcasts, currentRound, byHand>>
    BY <1>5, QuietSteps DEF Quiet
<1> QED BY <1>1, <1>2, <1>3, <1>4, <1>5, includeFloats
        DEF SchedNext, SchedService, SchedEnvironment

LEMMA SchedDue ==
    ASSUME TypeOK, DueInv, SchedNext
    PROVE  DueInv'
<1>1. now \in Nat /\ now' \in Nat /\ now <= now'
    <2>1. now' = now \/ now' = now + 1
        BY DEF SchedNext, SchedService, SchedEnvironment, tick, takeJob, getSeqno,
               executeRound, jobCompletes, backoffElapsed, forgetJob, attemptFails, handleTerminalFailure,
               crashScheduler, include, executeByHand, otherProcessSends, index, passTime
    <2> QED BY <2>1 DEF TypeOK
<1>5. ASSUME NEW r \in Round
      PROVE  broadcasts'[r] > 0 => broadcasts[r] > 0 \/ job[r].state # "none"
    <2>1. ASSUME NEW q \in Round, NEW reached \in BOOLEAN, Send(q, reached)
          PROVE  broadcasts'[r] > 0 => broadcasts[r] > 0 \/ job[r].state # "none"
        BY <2>1 DEF Send, TypeOK
    <2>2. \/ broadcasts' = broadcasts
          \/ \E q \in Round, reached \in BOOLEAN : Send(q, reached)
        BY DEF SchedNext, SchedService, SchedEnvironment, tick, takeJob, getSeqno,
               executeRound, jobCompletes, backoffElapsed, forgetJob, attemptFails,
               handleTerminalFailure, crashScheduler, include, executeByHand,
               otherProcessSends, index, passTime
    <2> QED BY <2>1, <2>2
<1>2. ASSUME NEW r \in Round
      PROVE  job'[r].state # "none" => job[r].state # "none" \/ Due(r)
    <2>1. ASSUME NEW q \in Round, \/ takeJob(q) \/ executeRound(q) \/ jobCompletes(q)
                                  \/ backoffElapsed(q) \/ forgetJob(q)
                                  \/ \E ok \in BOOLEAN : attemptFails(q, ok)
          PROVE  job'[r].state # "none" => job[r].state # "none"
        <3>1. job[q].state # "none" /\ job \in [Round -> JobType]
            BY <2>1 DEF takeJob, executeRound, jobCompletes, backoffElapsed, forgetJob, attemptFails, Send,
                        TypeOK, JobType
        <3>2. q # r => job'[r] = job[r]
            BY <2>1, <3>1 DEF takeJob, executeRound, jobCompletes, backoffElapsed, forgetJob, attemptFails
        <3> QED BY <3>1, <3>2
    <2>2. CASE tick
        BY <2>2 DEF tick, Enqueued
    <2>3. CASE crashScheduler
        BY <2>3 DEF crashScheduler, Stalled, Running
    <2>4. ASSUME \/ SchedEnvironment \/ passTime
                 \/ \E q \in Round : getSeqno(q) \/ \E ok \in BOOLEAN : handleTerminalFailure(q, ok)
          PROVE  job' = job
        BY <2>4 DEF SchedEnvironment, passTime, include, executeByHand, otherProcessSends, index,
                    getSeqno, handleTerminalFailure
    <2> QED BY <2>1, <2>2, <2>3, <2>4 DEF SchedNext, SchedService
<1>3. ASSUME NEW r \in Round
      PROVE  ScheduledAt(r) \in Nat
    BY DEF ScheduledAt
<1> SUFFICES ASSUME NEW r \in Round, job'[r].state # "none" \/ broadcasts'[r] > 0
             PROVE  now' >= ScheduledAt(r) + roundIntervalSec
    BY DEF DueInv, ScheduledAt
<1>4. now >= ScheduledAt(r) + roundIntervalSec
    BY <1>2, <1>5 DEF DueInv, Due
<1> QED BY <1>1, <1>3, <1>4

(* A message of the service that changes the circle finds its round due for *)
(* a full interval: there are more rows that sent than rounds before it, so *)
(* that one of them is this round's or a later one's.                       *)
LEMMA includeKeepsCatchUp ==
    ASSUME TypeOK, ChainInv, JobsInv, Floats, DueInv, NEW e \in mempool, include(e), Quiet
    PROVE  now >= ScheduledAt(currentRound) + roundIntervalSec
<1>1. PICK A, B, x : A = Sent \ Pending /\ B = Sent /\ x = e.msg.round
    OBVIOUS
<1>2. A \subseteq B /\ x \in B \ A /\ B \subseteq Round
    BY <1>1 DEF Sent, Pending, Floats
<1>3. Cardinality(A) + 1 <= Cardinality(B) /\ Cardinality(A) \in Nat /\ Cardinality(B) \in Nat
    BY <1>2, RowCounts
<1>4. currentRound - 1 <= Cardinality(A) /\ currentRound \in Nat /\ currentRound >= 1
    BY <1>1 DEF Floats, ChainInv, TypeOK
<1>5. PICK q \in B : currentRound <= q
    <2>1. currentRound <= Cardinality(B)
        BY <1>3, <1>4
    <2> QED BY <1>2, <1>4, <2>1, RowsReach
<1>6. q \in Round /\ q \in Nat /\ broadcasts[q] > 0
    BY <1>1, <1>2, <1>5 DEF Sent
<1>8. now >= ScheduledAt(q) + roundIntervalSec /\ now \in Nat
    BY <1>6 DEF DueInv, TypeOK
<1>9. /\ ScheduledAt(currentRound) \in Nat /\ ScheduledAt(q) \in Nat
      /\ ScheduledAt(currentRound) <= ScheduledAt(q)
    <2>1. PICK d \in Nat : q = currentRound + d
        <3>1. q - currentRound \in Nat /\ q = currentRound + (q - currentRound)
            BY <1>4, <1>5, <1>6
        <3> QED BY <3>1
    <2>2. q * roundIntervalSec = currentRound * roundIntervalSec + d * roundIntervalSec
        BY <1>4, <2>1
    <2>3. /\ currentRound * roundIntervalSec \in Nat /\ d * roundIntervalSec \in Nat
          /\ q * roundIntervalSec \in Nat
        BY <1>4, <1>6, <2>1
    <2> QED BY <2>2, <2>3 DEF ScheduledAt
<1> QED BY <1>8, <1>9

-----------------------------------------------------------------------------
(* The theorems *)

LEMMA ServicesInitially == ServicesAssumption => (Init => ServicesInv)
<1> SUFFICES ASSUME ServicesAssumption, Init PROVE ServicesInv
    OBVIOUS
<1>1. TypeOK
    <2>1. job \in [Round -> JobType] /\ broadcasts \in [Round -> Nat]
        BY DEF Init, SchedInit, JobType, JobState, NoJobYet
    <2>2. walletSeqno \in Nat /\ mempool = {} /\ readSeqno \in [{"scheduler"} -> Nat \cup {NoSeqno}]
        BY DEF Init, SchedInit, Wallet!WalletInit
    <2>3. queue \in [Notice -> Nat] /\ jobIds = {}
        BY DEF Init, QueueInit
    <2> QED BY <2>1, <2>2, <2>3 DEF Init, SchedInit, TypeOK, JobType
<1>2. ChainInv /\ JobsInv /\ RowsInv /\ DueInv
    <2>1. \A r \in Round : job[r] = NoJobYet /\ broadcasts[r] = 0 /\ Before(r) \in Nat
        BY <1>1, BeforeNat DEF Init, SchedInit
    <2>2. JobsInv /\ DueInv
        BY <2>1 DEF JobsInv, Accounts, LastRun, DueInv, NoJobYet
    <2> QED BY <2>2 DEF Init, SchedInit, ChainInv, RowsInv
<1>3. NotifShape
    <2>1. scan \in [Scan -> ScanType] /\ \A s \in Scan : ScanOk(scan[s])
        BY IdleOk DEF Init, Notif!NotifInit, ScanOk
    <2>2. work = Notif!NoWork /\ work \in WorkType /\ sentReminders = {}
        BY NoWorkOk DEF Init, Notif!NotifInit
    <2>3. /\ delivered \in [Notice -> Nat]
          /\ again \in [Notice -> Nat] /\ repeats \in [Notice -> Nat]
        BY SameNotices DEF Init, Notif!NotifInit
    <2> QED BY <2>1, <2>2, <2>3 DEF NotifShape, ScanOk
<1>4. CopiesInv
    <2>1. ASSUME NEW n \in Notice
          PROVE  Copies(n) = 0 /\ Room(n) \in Nat
        <3>1. work.notice = NoJob /\ NoJob \notin Notice
            BY SameNotices DEF Init, Notif!NotifInit, Notif!NoWork, ServicesAssumption,
                               Notif!NotificationAssumption
        <3>2. queue[n] = 0 /\ delivered[n] = 0 /\ again[n] = 0
            BY SameNotices DEF Init, QueueInit, Notif!NotifInit
        <3> QED BY <1>1, <1>3, <3>1, <3>2, CopiesNat DEF Copies
    <2> QED BY <2>1 DEF CopiesInv, Room
<1>5. QueuedInv
    BY DEF Init, Notif!NotifInit, Notif!Idle, QueuedInv, RecordedMeansQueued
<1>6. Floats
    <2>1. Sent = {} /\ Pending = {} /\ mempool = {} /\ currentRound = 1
        BY DEF Init, SchedInit, Wallet!WalletInit, Sent, Pending
    <2>2. Cardinality(Sent \ Pending) = 0
        BY <2>1, FS_EmptySet
    <2> QED BY <2>1, <2>2 DEF Floats
<1> QED BY <1>1, <1>2, <1>3, <1>4, <1>5, <1>6 DEF ServicesInv

LEMMA SchedStep ==
    ASSUME ServicesAssumption, ServicesInv, SchedNext, UNCHANGED notifVars
    PROVE  ServicesInv'
<1>1. TypeOK' /\ ChainInv' /\ JobsInv'
    BY SchedTypes DEF ServicesInv
<1>2. RowsInv' /\ Floats' /\ DueInv'
    BY SchedRows, SchedFloats, SchedDue DEF ServicesInv
<1>3. NotifShape'
    BY DEF ServicesInv, NotifShape, notifVars, Notif!NoWork
<1>4. \A n \in Notice : CopyStep(n)
    BY SchedCopies DEF ServicesInv
<1>5. CopiesInv'
    <2>2. \A n \in Notice : Copies(n)' \in Nat /\ Room(n)' \in Nat
        BY <1>1, <1>3, CopiesNatNext
    <2> QED BY <1>1, <1>3, <1>4, <2>2, CopiesKept DEF ServicesInv
<1>6. jobIds \subseteq jobIds'
    BY DEF SchedNext, SchedService, SchedEnvironment, tick, takeJob, getSeqno, executeRound,
           jobCompletes, backoffElapsed, forgetJob, attemptFails, handleTerminalFailure, Add, crashScheduler,
           include, executeByHand, otherProcessSends, index, passTime
<1>7. QueuedInv'
    BY <1>6, QueuedStays DEF ServicesInv, notifVars
<1> QED BY <1>1, <1>2, <1>3, <1>5, <1>7 DEF ServicesInv

LEMMA NotifStep ==
    ASSUME ServicesAssumption, ServicesInv, Notif!NotifNext, UNCHANGED schedOnly
    PROVE  ServicesInv'
<1>1. /\ queue' \in [Notice -> Nat] /\ jobIds' \subseteq Notice /\ faults' \in Nat
      /\ jobIds \subseteq jobIds'
      /\ UNCHANGED <<now, executedRows, kyeActive>>
    BY SharedKept DEF ServicesInv
<1>2. UNCHANGED <<job, terminal, broadcasts, walletSeqno, readSeqno, mempool, chainActive,
                  currentRound, indexed, byHand, untold, forgotten, erased>>
    BY DEF schedOnly
<1>3. TypeOK'
    BY <1>1, <1>2 DEF ServicesInv, TypeOK
<1>4. ChainInv' /\ JobsInv' /\ RowsInv' /\ DueInv'
    BY <1>1, <1>2 DEF ServicesInv, ChainInv, JobsInv, Accounts, LastRun, Before, RowsInv, DueInv
<1>5. Floats'
    BY <1>1, <1>2 DEF ServicesInv, Floats, Sent, Pending, Quiet
<1>6. NotifShape'
    BY NotifShapeKept DEF ServicesInv
<1>7. \A n \in Notice : CopyStep(n)
    BY <1>1, <1>2, NotifCopies DEF ServicesInv
<1>8. CopiesInv'
    BY <1>3, <1>6, <1>7, CopiesNatNext, CopiesKept DEF ServicesInv
<1>9. QueuedInv'
    BY <1>1, NotifQueued DEF ServicesInv
<1> QED BY <1>3, <1>4, <1>5, <1>6, <1>8, <1>9 DEF ServicesInv

LEMMA ServicesAlways == FairSpec => []ServicesInv
<1>1. Init => ServicesInv
    BY ServicesAssumption, ServicesInitially
<1>2. ServicesInv /\ [Next]_allVars => ServicesInv'
    <2> SUFFICES ASSUME ServicesInv, [Next]_allVars PROVE ServicesInv'
        OBVIOUS
    <2>1. CASE Next
        BY <2>1, ServicesAssumption, SchedStep, NotifStep DEF Next
    <2>2. CASE UNCHANGED allVars
        <3>1. UNCHANGED <<now, executedRows, kyeActive, job, terminal, broadcasts, walletSeqno,
                          readSeqno, mempool, chainActive, currentRound, indexed, byHand, untold,
                          forgotten, erased, faults, queue, jobIds, sentReminders, scan, work,
                          delivered, lost, again, repeats, misread>>
            BY <2>2 DEF allVars, vars, schedVars, notifVars
        <3>2. TypeOK' /\ ChainInv' /\ JobsInv' /\ RowsInv' /\ DueInv'
            BY <3>1 DEF ServicesInv, TypeOK, ChainInv, JobsInv, Accounts, LastRun, Before, RowsInv,
                        DueInv
        <3>3. NotifShape' /\ QueuedInv'
            BY <3>1 DEF ServicesInv, NotifShape, QueuedInv, RecordedMeansQueued, Notif!NoWork
        <3>4. CopiesInv' /\ Floats'
            BY <3>1 DEF ServicesInv, CopiesInv, Copies, Allowed, Handled, Floats, Sent, Pending,
                        Quiet
        <3> QED BY <3>2, <3>3, <3>4 DEF ServicesInv
    <2> QED BY <2>1, <2>2
<1> QED BY <1>1, <1>2, PTL DEF FairSpec

(* The rows, the jobs, the wallet and the queue keep their types: no job    *)
(* exceeds its attempts or stalls twice and goes on, no row is written for  *)
(* a round the circle does not have (scheduler.ts, worker.ts).              *)
THEOREM ServicesTypes == FairSpec => []TypeOK
<1>1. ServicesInv => TypeOK
    BY DEF ServicesInv
<1> QED BY <1>1, ServicesAlways, PTL

(* What the wallet spends on a row is bounded by the jobs it had: by their  *)
(* attempts, and one more for a job that stalled.  Only forgetting a job    *)
(* allows the row another (scheduler.ts:95-110, executeRoundWorker.ts).     *)
THEOREM SendsTheorem == FairSpec => []SendsBounded
<1>1. ServicesInv => SendsBounded
    <2> SUFFICES ASSUME ServicesInv, NEW r \in Round
                 PROVE  broadcasts[r] <= Before(r)
                            + (IF job[r].state = "none" THEN 0 ELSE Attempts + job[r].stalled)
        BY DEF SendsBounded, Before
    <2>1. job[r] \in JobType /\ broadcasts[r] \in Nat /\ Accounts(job[r], broadcasts[r], Before(r))
          /\ Before(r) \in Nat
        BY BeforeNat DEF ServicesInv, TypeOK, JobsInv, JobType
    <2> QED BY <2>1 DEF Accounts, LastRun, JobType
<1> QED BY <1>1, ServicesAlways, PTL

(* Nobody is told the same thing twice, but for the jobs of a round that    *)
(* BullMQ has forgotten and for a crash after the work was done and before  *)
(* the job was (scheduled-reminders.ts:107-110, worker.ts:214-230).         *)
THEOREM ToldOnceTheorem == FairSpec => []ToldOnce
<1>1. ServicesInv => ToldOnce
    <2> SUFFICES ASSUME ServicesInv, NEW n \in Notice
                 PROVE  Copies(n) <= 1 + Failures(n) + repeats[n]
        BY DEF ToldOnce
    <2>1. Copies(n) \in Nat /\ repeats[n] \in Nat /\ Copies(n) <= Allowed(n) + repeats[n]
        BY CopiesNat DEF ServicesInv, CopiesInv
    <2>2. Allowed(n) \in Nat /\ Failures(n) \in Nat /\ Allowed(n) <= 1 + Failures(n)
        <3>1. CASE n \in Reminders
            BY <3>1 DEF Allowed, Failures
        <3>2. CASE n \notin Reminders /\ n.round \in Round
            <4>1. forgotten[n.round] \in Nat
                BY <3>2 DEF ServicesInv, TypeOK
            <4>2. Allowed(n) = Handled(n.round) /\ Failures(n) = forgotten[n.round]
                BY <3>2 DEF Allowed, Failures
            <4> QED BY <4>1, <4>2 DEF Handled
        <3> QED BY <3>1, <3>2, NoticeCases
    <2> HIDE DEF Copies
    <2> QED BY <2>1, <2>2
<1> QED BY <1>1, ServicesAlways, PTL

(* A reminder on record was queued for every member, unless the members     *)
(* could not be read.                                                       *)
THEOREM ReminderTheorem == FairSpec => []RecordedMeansQueued
<1>1. ServicesInv => RecordedMeansQueued
    BY DEF ServicesInv, QueuedInv
<1> QED BY <1>1, ServicesAlways, PTL

(* The rows agree with the chain once the indexer has caught up, but for    *)
(* those that the handler of a failed job cleared (executeRoundWorker.ts    *)
(* :64-73).                                                                 *)
THEOREM RowsTheorem == FairSpec => []RowsMatchChain
<1>1. ServicesInv => RowsMatchChain
    <2> SUFFICES ASSUME ServicesInv, indexed = currentRound - 1, NEW r \in Round
                 PROVE  /\ r \in executedRows => r < currentRound
                        /\ (r < currentRound /\ r \notin erased) => r \in executedRows
        BY DEF RowsMatchChain
    <2>1. r \in Nat /\ currentRound \in Nat /\ indexed \in Nat
        BY DEF ServicesInv, TypeOK
    <2> QED BY <2>1 DEF ServicesInv, RowsInv
<1> QED BY <1>1, ServicesAlways, PTL

(* Members keep a full interval to catch up before the service's messages   *)
(* act on a round, unless somebody executed one by hand or a row made more  *)
(* than one send.                                                           *)
THEOREM CatchUpTheorem == FairSpec => CatchUpKept
<1>1. ASSUME ServicesInv, [Next]_allVars, walletSeqno' # walletSeqno, chain' # chain
      PROVE  \/ now >= ScheduledAt(currentRound) + roundIntervalSec
             \/ byHand \/ \E r \in Round : broadcasts[r] > 1
    <2>1. Next
        BY <1>1 DEF allVars, vars, schedVars
    <2>2. SchedNext
        BY <1>1, <2>1 DEF Next, schedOnly
    <2>3. \E e \in mempool : include(e)
        BY <1>1, <2>2 DEF SchedNext, SchedService, SchedEnvironment, tick, takeJob, getSeqno,
            Wallet!GetSeqno, executeRound, Send, Wallet!SendTransfer, jobCompletes,
            backoffElapsed, forgetJob, attemptFails, handleTerminalFailure, crashScheduler,
            Wallet!WalletCrash, executeByHand, otherProcessSends, index, passTime
    <2>4. byHand \/ (\E r \in Round : broadcasts[r] > 1) \/ Quiet
        BY <1>1 DEF Quiet, ServicesInv, TypeOK
    <2> QED BY <1>1, <2>3, <2>4, includeKeepsCatchUp DEF ServicesInv
<1>2. ASSUME ServicesInv, [Next]_allVars
      PROVE  [ (walletSeqno' # walletSeqno /\ chain' # chain) =>
                    \/ now >= ScheduledAt(currentRound) + roundIntervalSec
                    \/ byHand \/ \E r \in Round : broadcasts[r] > 1 ]_vars
    BY <1>1, <1>2
<1> QED BY <1>2, ServicesAlways, PTL DEF FairSpec, CatchUpKept
=============================================================================
