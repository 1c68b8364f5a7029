---------------------------- MODULE Notifications ----------------------------
(***************************************************************************)
(* The notification service (apps/backend/src/notifications): the scanner  *)
(* that puts round reminders on notification_queue every five minutes, and *)
(* the worker that sends what is on the queue through the Bot API.         *)
(* setInterval does not wait for the previous scan, so that scans overlap. *)
(*                                                                         *)
(* Both producers that name a recipient send it to one private chat, so a  *)
(* job has one target.  Jobs of the indexer name no recipient: the worker  *)
(* skips them at once, and they are left out.  The rows of `rounds' and    *)
(* the status of the circle are written by others.                         *)
(***************************************************************************)
EXTENDS NotificationQueue

CONSTANTS
    Member,                     \* users with a row in kye_members
    Scan,                       \* scans that may run at the same time
    FromSec, ToSec,             \* the window of a reminder type
    ScheduledAt(_),             \* rounds.scheduled_at
    NoType, NoRound, NoJob,
    MaxFaults, MaxPatches       \* bounds on faults and on settings changes

NotificationAssumption ==
    /\ Member \subseteq User
    /\ FromSec \in [ReminderType -> Nat] /\ ToSec \in [ReminderType -> Nat]
    /\ MaxFaults \in Nat /\ MaxPatches \in Nat
    /\ NoType \notin ReminderType /\ NoRound \notin Round /\ NoJob \notin Notice

VARIABLES
    now, executedRows, kyeActive,       \* read only
    sentReminders,      \* rows of sent_reminders: <<type, round>>
    scan,               \* scan -> [type, todo, round, left]
    work,               \* the job in the worker: [notice, stalled, result]
    delivered,          \* job -> messages the Bot API accepted
    lost,               \* jobs that ended without a message
    again,              \* job -> copies handed out once that wait after a crash
    repeats,            \* job -> crashes with a copy that had done its work
    misread,            \* reminders recorded although the members were not read
    setting,            \* user -> keys of notification_settings that are on
    patches, faults

notifVars == <<sentReminders, scan, work, delivered, lost, again, repeats, misread,
               setting, patches>>
readOnly == <<now, executedRows, kyeActive>>

(* settingKeyFor: the failure of a round is an event of type                *)
(* default_detected_organizer, whose switch is default_other_member.        *)
settingKeyFor(event) ==
    IF event = "execute_round_failed" THEN "default_other_member" ELSE event
SettingKey == {settingKeyFor(n.event) : n \in Notice}
settingDefault(key) == key # "round_reminder_1h"

Idle == [type |-> NoType, todo |-> {}, round |-> NoRound, left |-> {}]
NoWork == [notice |-> NoJob, stalled |-> FALSE, result |-> "none"]

NotifInit ==
    /\ sentReminders = {}
    /\ scan = [s \in Scan |-> Idle]
    /\ work = NoWork
    /\ delivered = [n \in Notice |-> 0]
    /\ lost = {}
    /\ again = [n \in Notice |-> 0]
    /\ repeats = [n \in Notice |-> 0]
    /\ misread = {}
    /\ setting = [u \in User |-> {key \in SettingKey : settingDefault(key)}]
    /\ patches = 0

Fault == faults < MaxFaults /\ faults' = faults + 1

-----------------------------------------------------------------------------
(* ReminderScanner: scanWindow for one type and then the other.             *)

InWindow(t, r) == ScheduledAt(r) \in (now + FromSec[t])..(now + ToSec[t])

scanWindow(s, t) ==
    LET found == {r \in Round : InWindow(t, r) /\ r \notin executedRows /\ kyeActive} IN
    /\ scan[s] = Idle
    /\ found # {}
    /\ scan' = [scan EXCEPT ![s] = [Idle EXCEPT !.type = t, !.todo = found]]
    /\ UNCHANGED <<readOnly, sentReminders, work, delivered, lost, again, repeats,
                   misread, setting, patches, faults, queue, jobIds>>

(* The select on sent_reminders, then the one on kye_members; when that one *)
(* fails, its data is null, which stands for no members.                    *)
checkRound(s, r, readOk) ==
    /\ r \in scan[s].todo /\ scan[s].round = NoRound
    /\ IF <<scan[s].type, r>> \in sentReminders
       THEN /\ readOk
            /\ scan' = [scan EXCEPT ![s].todo = @ \ {r}]
            /\ UNCHANGED <<misread, faults>>
       ELSE /\ scan' = [scan EXCEPT ![s].round = r,
                                    ![s].left = IF readOk THEN Member ELSE {}]
            /\ IF readOk THEN UNCHANGED <<misread, faults>>
               ELSE Fault /\ misread' = misread \cup {<<scan[s].type, r>>}
    /\ UNCHANGED <<readOnly, sentReminders, work, delivered, lost, again, repeats,
                   setting, patches, queue, jobIds>>

enqueueReminder(s, u) ==
    /\ u \in scan[s].left
    /\ AddOnce(Reminder(scan[s].type, scan[s].round, u))
    /\ scan' = [scan EXCEPT ![s].left = @ \ {u}]
    /\ UNCHANGED <<readOnly, sentReminders, work, delivered, lost, again, repeats,
                   misread, setting, patches, faults>>

FrecordReminder(s) ==                       \* recorded before the jobs are added
    /\ scan[s].round # NoRound
    /\ sentReminders' = sentReminders \cup {<<scan[s].type, scan[s].round>>}
    /\ scan' = scan
    /\ UNCHANGED <<readOnly, work, delivered, lost, again, repeats, misread, setting,
                   patches, faults, queue, jobIds>>
(* The insert of a row that another scan inserted first fails, unnoticed.   *)
recordReminder(s) ==
    /\ scan[s].round # NoRound /\ scan[s].left = {}
    /\ sentReminders' = sentReminders \cup {<<scan[s].type, scan[s].round>>}
    /\ scan' = [scan EXCEPT ![s].todo = @ \ {scan[s].round}, ![s].round = NoRound]
    /\ UNCHANGED <<readOnly, work, delivered, lost, again, repeats, misread, setting,
                   patches, faults, queue, jobIds>>

scanEnds(s) ==
    /\ scan[s].type # NoType /\ scan[s].todo = {}
    /\ scan' = [scan EXCEPT ![s] = Idle]
    /\ UNCHANGED <<readOnly, sentReminders, work, delivered, lost, again, repeats,
                   misread, setting, patches, faults, queue, jobIds>>

(* queue.add throws: the scan ends where it is.                             *)
scanThrows(s) ==
    /\ Fault
    /\ scan[s].left # {}
    /\ scan' = [scan EXCEPT ![s] = Idle]
    /\ UNCHANGED <<readOnly, sentReminders, work, delivered, lost, again, repeats,
                   misread, setting, patches, queue, jobIds>>

-----------------------------------------------------------------------------
(* NotificationDispatcher.process and the worker around it, concurrency 1.  *)

(* The user is looked up and the setting read; a job for a user who turned  *)
(* it off, or who is not found, completes without a message.  A setting     *)
(* that cannot be read has its default.                                     *)
Enabled(n, read) ==
    CASE read = "ok" -> settingKeyFor(n.event) \in setting[n.user]
      [] read = "no_setting" -> settingDefault(settingKeyFor(n.event))
      [] read = "no_user" -> FALSE
takeNotice(n, read, stalled) ==
    /\ work = NoWork
    /\ IF stalled
       THEN again[n] > 0 /\ again' = [again EXCEPT ![n] = @ - 1] /\ UNCHANGED queue
       ELSE queue[n] > 0 /\ queue' = [queue EXCEPT ![n] = @ - 1] /\ UNCHANGED again
    /\ IF read = "ok" THEN UNCHANGED faults ELSE Fault
    /\ IF Enabled(n, read)
       THEN /\ work' = [notice |-> n, stalled |-> stalled, result |-> "none"]
            /\ UNCHANGED lost
       ELSE lost' = lost \cup {n} /\ UNCHANGED work
    /\ UNCHANGED <<readOnly, sentReminders, scan, delivered, repeats, misread,
                   setting, patches, jobIds>>

(* The Bot API accepts the message, asks to retry later, or refuses it.     *)
sendMessage(result) ==
    /\ work # NoWork /\ work.result = "none"
    /\ work' = [work EXCEPT !.result = result]
    /\ IF result = "ok"
       THEN delivered' = [delivered EXCEPT ![work.notice] = @ + 1] /\ UNCHANGED faults
       ELSE Fault /\ UNCHANGED delivered
    /\ UNCHANGED <<readOnly, sentReminders, scan, lost, again, repeats, misread,
                   setting, patches, queue, jobIds>>

(* A rate-limited job is added again, without a jobId: a new job.           *)
requeue ==
    /\ work.result = "rate_limited"
    /\ Add(work.notice)
    /\ work' = [work EXCEPT !.result = "requeued"]
    /\ UNCHANGED <<readOnly, sentReminders, scan, delivered, lost, again, repeats,
                   misread, setting, patches, faults>>

(* A job that was refused, or could not be added again, throws and, with    *)
(* one attempt by default, is not tried again.                              *)
jobEnds ==
    /\ work.result \in {"ok", "requeued", "failed"}
    /\ lost' = IF work.result = "failed" THEN lost \cup {work.notice} ELSE lost
    /\ work' = NoWork
    /\ UNCHANGED <<readOnly, sentReminders, scan, delivered, again, repeats, misread,
                   setting, patches, faults, queue, jobIds>>

(* The service dies.  BullMQ finds the job it worked on stalled and hands   *)
(* it out again, the second time it fails it; it does not know whether the  *)
(* message was accepted, or the job added again, before the service died.   *)
crashNotifications ==
    /\ Fault
    /\ work # NoWork
    /\ IF work.stalled
       THEN lost' = lost \cup {work.notice} /\ UNCHANGED <<again, repeats>>
       ELSE /\ again' = [again EXCEPT ![work.notice] = @ + 1]
            /\ repeats' = IF work.result \in {"ok", "requeued"}
                          THEN [repeats EXCEPT ![work.notice] = @ + 1] ELSE repeats
            /\ UNCHANGED lost
    /\ work' = NoWork
    /\ scan' = [s \in Scan |-> Idle]
    /\ UNCHANGED <<readOnly, sentReminders, delivered, misread, setting, patches,
                   queue, jobIds>>

(* PATCH /me/notification-settings, at any time.  Nothing but the worker    *)
(* reads a setting, when it takes a job: a change is taken to happen while  *)
(* a job that depends on it waits, which is as late as it may come.         *)
patchSetting(u, key) ==
    /\ patches < MaxPatches
    /\ \E n \in Notice : /\ n.user = u /\ settingKeyFor(n.event) = key
                         /\ queue[n] > 0 \/ again[n] > 0
    /\ patches' = patches + 1
    /\ setting' = [setting EXCEPT ![u] = (@ \ {key}) \cup ({key} \ @)]
    /\ UNCHANGED <<readOnly, sentReminders, scan, work, delivered, lost, again, repeats,
                   misread, faults, queue, jobIds>>

Scanner ==
    \E s \in Scan :
        \/ \E t \in ReminderType : scanWindow(s, t)
        \/ \E r \in Round, ok \in BOOLEAN : checkRound(s, r, ok)
        \/ \E u \in Member : enqueueReminder(s, u)
        \/ recordReminder(s) \/ scanEnds(s) \/ scanThrows(s)

Worker ==
    \/ \E n \in Notice, read \in {"ok", "no_user", "no_setting"}, stalled \in BOOLEAN :
            takeNotice(n, read, stalled)
    \/ \E result \in {"ok", "rate_limited", "failed"} : sendMessage(result)
    \/ requeue \/ jobEnds

NotifNext ==
    \/ Scanner
    \/ Worker
    \/ crashNotifications
    \/ \E u \in User, key \in SettingKey : patchSetting(u, key)
=============================================================================
