---------------------------- MODULE RoundServices ----------------------------
(***************************************************************************)
(* The background services side by side: the scheduler service reports a   *)
(* round that failed for good on notification_queue, and the notification  *)
(* service reads the rows of `rounds' that the scheduler and the indexer   *)
(* write.  A step of one leaves the other's own state alone.               *)
(***************************************************************************)
EXTENDS RoundScheduler

CONSTANTS Member, Scan, FromSec, ToSec, NoType, NoRound, NoJob, MaxPatches

VARIABLES
    sentReminders, scan, work, delivered, lost, again, repeats, misread, setting, patches

Notif == INSTANCE Notifications

ASSUME ServicesAssumption == Wallet!WalletAssumption /\ Notif!NotificationAssumption

notifVars == <<sentReminders, scan, work, delivered, lost, again, repeats, misread,
               setting, patches>>
schedOnly == <<job, terminal, broadcasts, walletVars, chain, indexed, history>>
allVars == <<vars, notifVars>>

Init == SchedInit /\ QueueInit /\ Notif!NotifInit

Next ==
    \/ SchedNext /\ UNCHANGED notifVars
    \/ Notif!NotifNext /\ UNCHANGED schedOnly

(* The tick repeats every minute, BullMQ hands out what waits, and calls    *)
(* return: what the services themselves do happens in the end.  Nothing is  *)
(* assumed of members, of the chain or of the indexer.                      *)
SchedulerSteps ==
    \/ tick
    \/ \E r \in Round :
        \/ takeJob(r) \/ getSeqno(r) \/ executeRound(r) \/ jobCompletes(r)
        \/ backoffElapsed(r) \/ handleTerminalFailure(r, TRUE)
FairSpec ==
    /\ Init /\ [][Next]_allVars
    /\ WF_allVars(SchedulerSteps /\ UNCHANGED notifVars)
    /\ WF_allVars(Notif!Worker /\ UNCHANGED schedOnly)

-----------------------------------------------------------------------------
(* Properties *)

(* Copies of a job that are still to be sent or were.                       *)
Copies(n) ==
    queue[n] + again[n] + delivered[n]
        + (IF work.notice = n /\ work.result \notin {"ok", "requeued"} THEN 1 ELSE 0)

(* Nobody is told the same thing twice: overlapping scans, a scan that      *)
(* throws half way and rate limits send a reminder at most once, and once   *)
(* more only for each time the worker died after the message was accepted,  *)
(* or the job added again, and before BullMQ knew.  The notice of a failed  *)
(* round is as unique as the job that failed: one more for every job of the *)
(* row that BullMQ has forgotten.                                           *)
Failures(n) == IF n \in Reminders THEN 0 ELSE forgotten[n.round]
ToldOnce ==
    \A n \in Notice : Copies(n) <= 1 + Failures(n) + repeats[n]

(* A reminder that is recorded as sent was put on the queue for every       *)
(* member, unless the members could not be read: then nobody is reminded,   *)
(* and the record keeps every later scan from trying (scheduled-reminders   *)
(* .ts:90-123).                                                             *)
RecordedMeansQueued ==
    \A t \in ReminderType, r \in Round :
        <<t, r>> \in sentReminders \ misread =>
            \A u \in Member : Reminder(t, r, u) \in jobIds

(* A due round of an active circle is settled: the tick puts it on the      *)
(* queue, and its job completes or fails for good.                          *)
DueRoundSettles ==
    \A r \in Round : Due(r) ~> (~Due(r) \/ job[r].state \in {"completed", "failed"})

(* A round that failed for good reaches the organizer, unless the message   *)
(* is refused or switched off, the organizer is not found, or the service   *)
(* dies before its handler ran.                                             *)
FailureReported ==
    \A r \in Round :
        (r \in terminal) ~>
            \/ delivered[FailureNotice(r)] > 0 \/ FailureNotice(r) \in lost
            \/ r \in untold
=============================================================================
