------------------------- MODULE NotificationQueue -------------------------
(***************************************************************************)
(* notification_queue, the BullMQ queue that the reminder scanner and the  *)
(* execute_round worker fill and the notification worker empties.  A job   *)
(* is known by what it says and to whom; the queue counts the copies of    *)
(* it that wait (a delayed copy waits too).  BullMQ keeps a finished job   *)
(* under its jobId, so that an add() under an id it has seen is ignored.   *)
(***************************************************************************)
EXTENDS Integers, FiniteSets

CONSTANTS
    Round,              \* the round numbers of the circle, a row of rounds each
    User, organizer,    \* users rows; kyes.organizer_id
    ReminderType        \* round_reminder_24h, round_reminder_1h

ASSUME QueueAssumption ==
    /\ Round \subseteq Nat
    /\ organizer \in User
    /\ "execute_round_failed" \notin ReminderType

VARIABLES
    queue,              \* job -> copies waiting
    jobIds              \* jobs that were added under a jobId of their own

Reminder(t, r, u) == [event |-> t, round |-> r, user |-> u]
Reminders == [event : ReminderType, round : Round, user : User]
FailureNotice(r) == [event |-> "execute_round_failed", round |-> r, user |-> organizer]
Notice == Reminders \cup {FailureNotice(r) : r \in Round}

(* add() without a jobId: always a new job.                                 *)
Add(n) ==
    /\ queue' = [queue EXCEPT ![n] = @ + 1]
    /\ UNCHANGED jobIds

(* add() with the jobId type:round:user.                                    *)
FAddOnce(n) ==                                              \* the jobId is left out
    /\ queue' = [queue EXCEPT ![n] = @ + 1]
    /\ jobIds' = jobIds \cup {n}
AddOnce(n) ==
    /\ queue' = IF n \in jobIds THEN queue ELSE [queue EXCEPT ![n] = @ + 1]
    /\ jobIds' = jobIds \cup {n}

QueueInit ==
    /\ queue = [n \in Notice |-> 0]
    /\ jobIds = {}
=============================================================================
