----------------------------- MODULE TelegramBot -----------------------------
(***************************************************************************)
(* The bot's handlers that write the database: /start with an invite link  *)
(* (recordReferrerIfNew), /lang, /linkkye, /unlinkkye and the bot's own    *)
(* removal from a chat.  In webhook mode every update has a handler of its *)
(* own and they overlap; the mini app inserts users rows meanwhile.  Each  *)
(* statement is a step, and a select that fails reads like one that found  *)
(* nothing.  Commands that only read and reply are left out, and so is the *)
(* language a row holds.                                                   *)
(***************************************************************************)
EXTENDS Faults, FiniteSets

CONSTANTS
    Person, Nobody, Absent,     \* Telegram users; an empty referred_by; no users row
    Kye, Organizer,             \* circles, and who organizes them
    Chat, NoChat,
    Handler,                    \* handlers that may run at once
    MaxUpdates                  \* bound on updates and on changes of chats

BotAssumption ==
    /\ Organizer \in [Kye -> Person]
    /\ {Nobody, Absent} \cap Person = {} /\ Nobody # Absent
    /\ NoChat \notin Chat
    /\ MaxUpdates \in Nat

VARIABLES
    handler,        \* what each handler is about to do, and for which update
    received,       \* updates and changes of chats so far
    referred_by,    \* users rows: person -> who invited him
    kye_groups,     \* kye_id -> chat_id
    inChat,         \* the chats the bot is in
    raced,          \* persons two handlers found without a referrer at once
    stale           \* chats linked after the bot had left, or whose rows
                    \* the bot failed to delete

botVars == <<handler, received, referred_by, kye_groups, inChat, raced, stale>>

Idle == [at |-> "idle"]
BotInit ==
    /\ handler = [h \in Handler |-> Idle]
    /\ received = 0
    (* Who organizes a circle has a row.                                    *)
    /\ referred_by = [p \in Person |-> IF p \in {Organizer[k] : k \in Kye} THEN Nobody ELSE Absent]
    /\ kye_groups = [k \in Kye |-> NoChat]
    /\ inChat = Chat
    /\ raced = {} /\ stale = {}

UsersUnchanged == UNCHANGED <<referred_by, raced>>
GroupsUnchanged == UNCHANGED <<kye_groups, inChat, stale>>
Receives(h, update) ==
    /\ handler[h] = Idle /\ received < MaxUpdates
    /\ received' = received + 1
    /\ handler' = [handler EXCEPT ![h] = update]
Goes(h, to) ==
    handler' = [handler EXCEPT ![h] = IF to = "idle" THEN Idle ELSE [@ EXCEPT !.at = to]]

-----------------------------------------------------------------------------
(* Users *)

(* An invitation to a circle that GET /kyes/:id finds.                      *)
startCommand(h, from, k) ==
    /\ from # Organizer[k]
    /\ Receives(h, [at |-> "referrer", from |-> from, referrer |-> Organizer[k]])
    /\ UNCHANGED faults /\ UsersUnchanged /\ GroupsUnchanged
findsReferrer(h, ok) ==
    /\ handler[h].at = "referrer"
    /\ FaultUnless(ok)
    /\ Goes(h, IF ok /\ referred_by[handler[h].referrer] # Absent THEN "existing" ELSE "idle")
    /\ UNCHANGED received /\ UsersUnchanged /\ GroupsUnchanged
FAfterExisting(found) == IF found = Absent THEN "insert" ELSE "update"
AfterExisting(found) ==
    CASE found = Absent -> "insert"
      [] found = Nobody -> "update"
      [] found \in Person -> "idle"
findsExisting(h, ok) ==
    LET from == handler[h].from
        found == IF ok THEN referred_by[from] ELSE Absent IN
    /\ handler[h].at = "existing"
    /\ FaultUnless(ok)
    /\ Goes(h, AfterExisting(found))
    /\ raced' = IF \E other \in Handler \ {h} : /\ handler[other].at = "update"
                                               /\ handler[other].from = from
                THEN raced \cup {from} ELSE raced
    /\ UNCHANGED <<received, referred_by>> /\ GroupsUnchanged
updatesReferrer(h, ok) ==
    /\ handler[h].at = "update"
    /\ FaultUnless(ok) /\ Goes(h, "idle")
    /\ referred_by' = IF ok THEN [referred_by EXCEPT ![handler[h].from] = handler[h].referrer]
                            ELSE referred_by
    /\ UNCHANGED <<received, raced>> /\ GroupsUnchanged
(* A row that appeared in the meantime makes the insert fail.               *)
insertsReferred(h, ok) ==
    LET from == handler[h].from IN
    /\ handler[h].at = "insert"
    /\ FaultUnless(ok) /\ Goes(h, "idle")
    /\ referred_by' = IF ok /\ referred_by[from] = Absent
                      THEN [referred_by EXCEPT ![from] = handler[h].referrer] ELSE referred_by
    /\ UNCHANGED <<received, raced>> /\ GroupsUnchanged

WithRow(p) == IF referred_by[p] = Absent THEN [referred_by EXCEPT ![p] = Nobody] ELSE referred_by
(* The first request of the mini app, and /lang, leave a row.               *)
resolveOrCreateUser(p) ==
    /\ referred_by[p] = Absent /\ referred_by' = WithRow(p)
    /\ UNCHANGED <<handler, received, raced, faults>> /\ GroupsUnchanged
langCallback(h, from) ==
    /\ Receives(h, [at |-> "language", from |-> from])
    /\ UNCHANGED faults /\ UsersUnchanged /\ GroupsUnchanged
upsertUserLanguage(h, ok) ==
    /\ handler[h].at = "language"
    /\ FaultUnless(ok) /\ Goes(h, "idle")
    /\ referred_by' = IF ok THEN WithRow(handler[h].from) ELSE referred_by
    /\ UNCHANGED <<received, raced>> /\ GroupsUnchanged

-----------------------------------------------------------------------------
(* Groups *)

linkKyeCommand(h, from, k, c) ==
    /\ c \in inChat
    /\ Receives(h, [at |-> "kye", from |-> from, kye |-> k, chat |-> c])
    /\ UNCHANGED faults /\ UsersUnchanged /\ GroupsUnchanged
(* Two selects of what never changes: the circle's organizer, the caller.   *)
authorizesLink(h, ok) ==
    /\ handler[h].at = "kye"
    /\ FaultUnless(ok)
    /\ Goes(h, IF ok /\ handler[h].from = Organizer[handler[h].kye] THEN "link" ELSE "idle")
    /\ UNCHANGED received /\ UsersUnchanged /\ GroupsUnchanged
upsertsGroup(h, ok) ==
    LET chat == handler[h].chat IN
    /\ handler[h].at = "link"
    /\ FaultUnless(ok) /\ Goes(h, "idle")
    /\ IF ok
       THEN /\ kye_groups' = [kye_groups EXCEPT ![handler[h].kye] = chat]
            /\ stale' = IF chat \in inChat THEN stale ELSE stale \cup {chat}
       ELSE UNCHANGED <<kye_groups, stale>>
    /\ UNCHANGED <<received, inChat>> /\ UsersUnchanged

LinkedTo(c) == {k \in Kye : kye_groups[k] = c}
(* A chat with two circles has no single row, and the command finds none.   *)
unlinkKyeCommand(h, from, c, ok) ==
    /\ c \in inChat
    /\ FaultUnless(ok)
    /\ IF ok /\ Cardinality(LinkedTo(c)) = 1 /\ \E k \in LinkedTo(c) : from = Organizer[k]
       THEN Receives(h, [at |-> "unlink", kye |-> CHOOSE k \in LinkedTo(c) : TRUE])
       ELSE Receives(h, Idle)
    /\ UsersUnchanged /\ GroupsUnchanged
deletesGroup(h, ok) ==
    /\ handler[h].at = "unlink"
    /\ FaultUnless(ok) /\ Goes(h, "idle")
    /\ kye_groups' = IF ok THEN [kye_groups EXCEPT ![handler[h].kye] = NoChat] ELSE kye_groups
    /\ UNCHANGED <<received, inChat, stale>> /\ UsersUnchanged

(* my_chat_member: the bot was kicked or left, and its handler hears of it. *)
leavesChat(h, c) ==
    /\ c \in inChat /\ inChat' = inChat \ {c}
    /\ Receives(h, [at |-> "left", chat |-> c])
    /\ UNCHANGED <<kye_groups, stale, faults>> /\ UsersUnchanged
FWithoutChat(c) == IF \E k \in Kye : kye_groups[k] = c
                   THEN [kye_groups EXCEPT ![CHOOSE k \in Kye : kye_groups[k] = c] = NoChat]
                   ELSE kye_groups
WithoutChat(c) == [k \in Kye |-> IF kye_groups[k] = c THEN NoChat ELSE kye_groups[k]]
myChatMember(h, ok) ==
    LET chat == handler[h].chat IN
    /\ handler[h].at = "left"
    /\ FaultUnless(ok) /\ Goes(h, "idle")
    /\ kye_groups' = IF ok THEN WithoutChat(chat) ELSE kye_groups
    /\ stale' = IF ok THEN stale ELSE stale \cup {chat}
    /\ UNCHANGED <<received, inChat>> /\ UsersUnchanged
newChatMembers(c) ==                    \* added again: a card, and nothing kept
    /\ c \in Chat \ inChat /\ received < MaxUpdates
    /\ inChat' = inChat \cup {c} /\ received' = received + 1
    /\ UNCHANGED <<handler, kye_groups, stale, faults>> /\ UsersUnchanged

BotNext ==
    \/ \E p \in Person : resolveOrCreateUser(p)
    \/ \E c \in Chat : newChatMembers(c)
    \/ \E h \in Handler, from \in Person :
        \/ langCallback(h, from)
        \/ \E k \in Kye : startCommand(h, from, k)
        \/ \E k \in Kye, c \in Chat : linkKyeCommand(h, from, k, c)
        \/ \E c \in Chat, ok \in BOOLEAN : unlinkKyeCommand(h, from, c, ok)
    \/ \E h \in Handler, c \in Chat : leavesChat(h, c)
    \/ \E h \in Handler, ok \in BOOLEAN :
        \/ findsReferrer(h, ok) \/ findsExisting(h, ok)
        \/ updatesReferrer(h, ok) \/ insertsReferred(h, ok) \/ upsertUserLanguage(h, ok)
        \/ authorizesLink(h, ok) \/ upsertsGroup(h, ok)
        \/ deletesGroup(h, ok) \/ myChatMember(h, ok)

-----------------------------------------------------------------------------

BotTypeOK ==
    /\ \A h \in Handler : handler[h].at \in {"idle", "referrer", "existing", "update", "insert",
                                             "language", "kye", "link", "unlink", "left"}
    /\ received \in 0..MaxUpdates
    /\ referred_by \in [Person -> Person \cup {Nobody, Absent}]
    /\ kye_groups \in [Kye -> Chat \cup {NoChat}]
    /\ inChat \subseteq Chat /\ stale \subseteq Chat /\ raced \subseteq Person

(* The first invitation counts, whatever links follow, whenever the row     *)
(* appears and whatever fails - unless two handlers had both found the row  *)
(* without a referrer (recordReferrerIfNew, supabaseClient.ts:80-89).       *)
ReferrerKept ==
    [][\A p \in Person : referred_by[p] \in Person /\ p \notin raced
                            => referred_by'[p] = referred_by[p]]_botVars

(* Notifications are not sent to a chat the bot is not in, once its removal *)
(* was handled - unless a link that was under way came after it, or the     *)
(* rows could not be deleted (myChatMember.ts:25).                          *)
NoGroupLeftBehind ==
    \A k \in Kye : kye_groups[k] \in Chat \ inChat =>
        \/ \E h \in Handler : handler[h].at = "left" /\ handler[h].chat = kye_groups[k]
        \/ kye_groups[k] \in stale
=============================================================================
