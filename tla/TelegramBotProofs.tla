-------------------------- MODULE TelegramBotProofs --------------------------
(***************************************************************************)
(* Proofs about the bot's handlers, for any number of persons, circles,    *)
(* chats and handlers at once, and any failures.                           *)
(***************************************************************************)
EXTENDS TelegramBot, TLAPS

BotSpec == BotInit /\ [][BotNext]_botVars

(* A handler of an update about users holds the person it is about.         *)
Shape ==
    [at : {"idle"}]
    \cup [at : {"referrer", "existing", "update", "insert"}, from : Person, referrer : Person]
    \cup [at : {"language"}, from : Person]
    \cup [at : {"kye", "link"}, from : Person, kye : Kye, chat : Chat]
    \cup [at : {"unlink"}, kye : Kye]
    \cup [at : {"left"}, chat : Chat]

HandlersInv ==
    /\ handler \in [Handler -> Shape]
    /\ referred_by \in [Person -> Person \cup {Nobody, Absent}]
    /\ kye_groups \in [Kye -> Chat \cup {NoChat}]

UpdatesRow(h, p) == handler[h].at = "update" /\ handler[h].from = p

(* Without a race there is one handler about to write a referrer, and the   *)
(* row it found is still there without one.                                 *)
WriterInv ==
    \A p \in Person \ raced :
        /\ \A h \in Handler : UpdatesRow(h, p) => referred_by[p] = Nobody
        /\ \A g, h \in Handler : UpdatesRow(g, p) /\ UpdatesRow(h, p) => g = h

BotInv == HandlersInv /\ WriterInv /\ NoGroupLeftBehind

-----------------------------------------------------------------------------

LEMMA BotInitially == ASSUME BotAssumption PROVE BotInit => BotInv
<1>. SUFFICES ASSUME BotInit PROVE BotInv
  OBVIOUS
<1>1. HandlersInv
  BY DEF BotInit, HandlersInv, Shape, Idle
<1>2. WriterInv
  BY DEF BotInit, WriterInv, UpdatesRow, Idle
<1>3. NoGroupLeftBehind
  BY DEF BotInit, NoGroupLeftBehind, BotAssumption
<1>4. QED
  BY <1>1, <1>2, <1>3 DEF BotInv

(* One handler at a time moves, and it keeps what it knows of its update.   *)
Moves(h, record) == record \in Shape /\ handler' = [handler EXCEPT ![h] = record]

(* A received update, like a finished one, is not about to write.           *)
LEMMA ReceivedMoves ==
    ASSUME HandlersInv, NEW h \in Handler, NEW update \in Shape, Receives(h, update)
    PROVE  Moves(h, update) /\ handler[h] = Idle
BY DEF Receives, Moves

LEMMA FinishedMoves ==
    ASSUME HandlersInv, NEW h \in Handler, Goes(h, "idle")
    PROVE  Moves(h, Idle)
BY DEF Goes, Moves, Shape, Idle

(* The handler of an invitation goes on with the same person.               *)
LEMMA InvitationMoves ==
    ASSUME HandlersInv, NEW h \in Handler,
           handler[h].at \in {"referrer", "existing"},
           NEW to \in {"existing", "update", "insert"}, Goes(h, to)
    PROVE  /\ handler[h].from \in Person /\ handler[h].referrer \in Person
           /\ Moves(h, [at |-> to, from |-> handler[h].from, referrer |-> handler[h].referrer])
<1>1. handler[h] \in Shape
  BY DEF HandlersInv
<1>2. handler[h] \in [at : {"referrer", "existing", "update", "insert"},
                      from : Person, referrer : Person]
  BY <1>1 DEF Shape
<1>3. handler' = [handler EXCEPT ![h] = [handler[h] EXCEPT !.at = to]]
  BY DEF Goes, HandlersInv
<1>4. [handler[h] EXCEPT !.at = to]
        = [at |-> to, from |-> handler[h].from, referrer |-> handler[h].referrer]
  BY <1>2
<1>5. QED
  BY <1>2, <1>3, <1>4 DEF Moves, Shape
-----------------------------------------------------------------------------

(* A step after which the mover is not about to write, and which changes no *)
(* row that somebody else is about to write, starts no race.                *)
LEMMA NoNewWriter ==
    ASSUME HandlersInv, WriterInv, NEW h \in Handler, NEW record, Moves(h, record),
           record.at # "update", raced' = raced,
           \A p \in Person \ raced, g \in Handler \ {h} :
                UpdatesRow(g, p) => referred_by'[p] = referred_by[p]
    PROVE  WriterInv'
<1>1. \A g \in Handler, p \in Person : UpdatesRow(g, p)' => g # h /\ UpdatesRow(g, p)
  BY DEF HandlersInv, Moves, UpdatesRow
<1>2. QED
  BY <1>1 DEF WriterInv

(* Handlers of users' updates, which are not about chats.                   *)
LEMMA ChatsUntouched ==
    ASSUME HandlersInv, NoGroupLeftBehind, NEW h \in Handler, NEW record, Moves(h, record),
           handler[h].at # "left", UNCHANGED <<kye_groups, inChat, stale>>
    PROVE  NoGroupLeftBehind'
BY DEF HandlersInv, Moves, NoGroupLeftBehind

(* A handler of a user's update: what it writes, if anything, keeps rows in *)
(* their type, and leaves alone what others are about to write.             *)
UserStep(h, record) ==
    /\ Moves(h, record) /\ record.at # "update" /\ handler[h].at # "left"
    /\ referred_by' \in [Person -> Person \cup {Nobody, Absent}]
    /\ raced' = raced
    /\ \A p \in Person \ raced, g \in Handler \ {h} :
            UpdatesRow(g, p) => referred_by'[p] = referred_by[p]
    /\ UNCHANGED <<kye_groups, inChat, stale>>
LEMMA UserStepKeeps ==
    ASSUME BotInv, NEW h \in Handler, NEW record, UserStep(h, record)
    PROVE  BotInv'
<1>1. HandlersInv'
  BY DEF UserStep, BotInv, HandlersInv, Moves
<1>2. WriterInv'
  BY NoNewWriter DEF UserStep, BotInv
<1>3. NoGroupLeftBehind'
  BY ChatsUntouched DEF UserStep, BotInv
<1>4. QED
  BY <1>1, <1>2, <1>3 DEF BotInv

LEMMA startKeeps ==
    ASSUME BotAssumption, BotInv, NEW h \in Handler, NEW from \in Person, NEW k \in Kye,
           startCommand(h, from, k)
    PROVE  BotInv'
<1>. DEFINE update == [at |-> "referrer", from |-> from, referrer |-> Organizer[k]]
<1>1. update \in Shape
  BY DEF Shape, BotAssumption
<1>2. UserStep(h, update)
  BY <1>1, ReceivedMoves
  DEF startCommand, UserStep, BotInv, HandlersInv, UsersUnchanged, GroupsUnchanged, Idle
<1>3. QED
  BY <1>2, UserStepKeeps

LEMMA findsReferrerKeeps ==
    ASSUME BotInv, NEW h \in Handler, NEW ok \in BOOLEAN, findsReferrer(h, ok)
    PROVE  BotInv'
<1>1. CASE Goes(h, "idle")
  <2>1. UserStep(h, Idle)
    BY <1>1, FinishedMoves
    DEF findsReferrer, UserStep, BotInv, HandlersInv, UsersUnchanged, GroupsUnchanged, Idle
  <2>2. QED
    BY <2>1, UserStepKeeps
<1>2. CASE Goes(h, "existing")
  <2>. DEFINE next == [at |-> "existing", from |-> handler[h].from,
                       referrer |-> handler[h].referrer]
  <2>1. UserStep(h, next)
    BY <1>2, InvitationMoves
    DEF findsReferrer, UserStep, BotInv, HandlersInv, UsersUnchanged, GroupsUnchanged
  <2>2. QED
    BY <2>1, UserStepKeeps
<1>3. QED
  BY <1>1, <1>2 DEF findsReferrer

(* The step that may make a handler one of two writers of a row.            *)
LEMMA findsExistingKeeps ==
    ASSUME BotAssumption, BotInv, NEW h \in Handler, NEW ok \in BOOLEAN, findsExisting(h, ok)
    PROVE  BotInv'
<1>. DEFINE from == handler[h].from
            found == IF ok THEN referred_by[from] ELSE Absent
<1>1. from \in Person /\ Goes(h, AfterExisting(found))
  <2>1. handler[h] \in Shape /\ handler[h].at = "existing"
    BY DEF findsExisting, BotInv, HandlersInv
  <2>2. from \in Person
    BY <2>1 DEF Shape
  <2>3. QED
    BY <2>2 DEF findsExisting
<1>2. found \in Person \cup {Nobody, Absent}
  BY <1>1 DEF BotInv, HandlersInv
<1>3. UNCHANGED <<referred_by, kye_groups, inChat, stale>> /\ raced \subseteq raced'
  BY DEF findsExisting, GroupsUnchanged
<1>4. CASE AfterExisting(found) = "update"
  <2>. DEFINE next == [at |-> "update", from |-> from, referrer |-> handler[h].referrer]
  <2>1. Moves(h, next)
    BY <1>1, <1>4, InvitationMoves DEF findsExisting, BotInv
  <2>2. HandlersInv'
    BY <1>3, <2>1 DEF BotInv, HandlersInv, Moves
  <2>3. found = Nobody /\ referred_by[from] = Nobody
    BY <1>2, <1>4 DEF AfterExisting, BotAssumption
  <2>4. WriterInv'
    <3>1. \A g \in Handler, p \in Person :
            UpdatesRow(g, p)' => (g = h /\ p = from) \/ (g # h /\ UpdatesRow(g, p))
      BY <2>1 DEF Moves, UpdatesRow, BotInv, HandlersInv
    <3>2. from \notin raced' => \A g \in Handler \ {h} : ~UpdatesRow(g, from)
      BY DEF findsExisting, UpdatesRow
    <3>3. QED
      BY <1>3, <2>3, <3>1, <3>2 DEF BotInv, WriterInv
  <2>5. NoGroupLeftBehind'
    BY <1>3, <2>1, ChatsUntouched DEF BotInv, findsExisting
  <2>6. QED
    BY <2>2, <2>4, <2>5 DEF BotInv
<1>5. CASE AfterExisting(found) # "update"
  <2>1. \E next : Moves(h, next) /\ next.at # "update"
    <3>1. CASE AfterExisting(found) = "idle"
      BY <1>1, <3>1, FinishedMoves DEF BotInv, Idle
    <3>2. CASE AfterExisting(found) = "insert"
      <4>1. Moves(h, [at |-> "insert", from |-> from, referrer |-> handler[h].referrer])
        BY <1>1, <3>2, InvitationMoves DEF findsExisting, BotInv
      <4>2. QED
        BY <4>1
    <3>3. QED
      BY <1>2, <1>5, <3>1, <3>2 DEF AfterExisting, BotAssumption
  <2>2. PICK next : Moves(h, next) /\ next.at # "update"
    BY <2>1
  <2>3. HandlersInv'
    BY <1>3, <2>2 DEF BotInv, HandlersInv, Moves
  <2>4. \A g \in Handler, p \in Person : UpdatesRow(g, p)' => UpdatesRow(g, p)
    BY <2>2 DEF Moves, UpdatesRow, BotInv, HandlersInv
  <2>5. WriterInv'
    BY <1>3, <2>4 DEF BotInv, WriterInv
  <2>6. NoGroupLeftBehind'
    BY <1>3, <2>2, ChatsUntouched DEF BotInv, findsExisting
  <2>7. QED
    BY <2>3, <2>5, <2>6 DEF BotInv
<1>6. QED
  BY <1>4, <1>5

LEMMA updatesReferrerKeeps ==
    ASSUME BotAssumption, BotInv, NEW h \in Handler, NEW ok \in BOOLEAN, updatesReferrer(h, ok)
    PROVE  BotInv'
<1>1. handler[h] \in Shape /\ handler[h].at = "update"
  BY DEF updatesReferrer, BotInv, HandlersInv
<1>2. handler[h].from \in Person /\ handler[h].referrer \in Person
  BY <1>1 DEF Shape
<1>3. \A p \in Person \ raced, g \in Handler \ {h} :
        UpdatesRow(g, p) => p # handler[h].from
  BY <1>1 DEF BotInv, WriterInv, UpdatesRow
<1>4. UserStep(h, Idle)
  BY <1>1, <1>2, <1>3, FinishedMoves
  DEF updatesReferrer, UserStep, BotInv, HandlersInv, GroupsUnchanged, Idle
<1>5. QED
  BY <1>4, UserStepKeeps

LEMMA insertsReferredKeeps ==
    ASSUME BotAssumption, BotInv, NEW h \in Handler, NEW ok \in BOOLEAN, insertsReferred(h, ok)
    PROVE  BotInv'
<1>1. handler[h] \in Shape /\ handler[h].at = "insert"
  BY DEF insertsReferred, BotInv, HandlersInv
<1>2. handler[h].from \in Person /\ handler[h].referrer \in Person
  BY <1>1 DEF Shape
<1>3. \A p \in Person \ raced, g \in Handler \ {h} :
        UpdatesRow(g, p) => referred_by[p] # Absent
  BY DEF BotInv, WriterInv, BotAssumption
<1>4. UserStep(h, Idle)
  BY <1>1, <1>2, <1>3, FinishedMoves
  DEF insertsReferred, UserStep, BotInv, HandlersInv, GroupsUnchanged, Idle
<1>5. QED
  BY <1>4, UserStepKeeps

LEMMA languageKeeps ==
    ASSUME BotAssumption, BotInv, NEW h \in Handler,
           \/ \E from \in Person : langCallback(h, from)
           \/ \E ok \in BOOLEAN : upsertUserLanguage(h, ok)
    PROVE  BotInv'
<1>1. ASSUME NEW from \in Person, langCallback(h, from) PROVE BotInv'
  <2>. DEFINE update == [at |-> "language", from |-> from]
  <2>1. update \in Shape
    BY DEF Shape
  <2>2. UserStep(h, update)
    BY <1>1, <2>1, ReceivedMoves
    DEF langCallback, UserStep, BotInv, HandlersInv, UsersUnchanged, GroupsUnchanged, Idle
  <2>3. QED
    BY <2>2, UserStepKeeps
<1>2. ASSUME NEW ok \in BOOLEAN, upsertUserLanguage(h, ok) PROVE BotInv'
  <2>1. \A p \in Person \ raced, g \in Handler \ {h} :
          UpdatesRow(g, p) => referred_by[p] # Absent
    BY DEF BotInv, WriterInv, BotAssumption
  <2>2. UserStep(h, Idle)
    BY <1>2, <2>1, FinishedMoves
    DEF upsertUserLanguage, WithRow, UserStep, BotInv, HandlersInv, GroupsUnchanged, Idle
  <2>3. QED
    BY <2>2, UserStepKeeps
<1>3. QED
  BY <1>1, <1>2

LEMMA resolveOrCreateUserKeeps ==
    ASSUME BotAssumption, BotInv, NEW p \in Person, resolveOrCreateUser(p)
    PROVE  BotInv'
<1>1. HandlersInv'
  BY DEF resolveOrCreateUser, GroupsUnchanged, WithRow, BotInv, HandlersInv
<1>2. WriterInv'
  BY DEF resolveOrCreateUser, WithRow, BotInv, HandlersInv, WriterInv, UpdatesRow, BotAssumption
<1>3. NoGroupLeftBehind'
  BY DEF resolveOrCreateUser, GroupsUnchanged, BotInv, NoGroupLeftBehind
<1>4. QED
  BY <1>1, <1>2, <1>3 DEF BotInv

-----------------------------------------------------------------------------

(* A handler of an update about chats leaves the users alone.               *)
LEMMA ChatStepKeeps ==
    ASSUME BotInv, NEW h \in Handler, NEW record, Moves(h, record), record.at # "update",
           UsersUnchanged, kye_groups' \in [Kye -> Chat \cup {NoChat}]
    PROVE  HandlersInv' /\ WriterInv'
<1>1. HandlersInv'
  BY DEF BotInv, HandlersInv, Moves, UsersUnchanged
<1>2. WriterInv'
  BY NoNewWriter DEF BotInv, UsersUnchanged
<1>3. QED
  BY <1>1, <1>2

(* Nothing about the chats changes until the statement that writes.         *)
LEMMA linkReadsKeep ==
    ASSUME BotInv, NEW h \in Handler,
           \/ \E from \in Person, k \in Kye, c \in Chat : linkKyeCommand(h, from, k, c)
           \/ \E ok \in BOOLEAN : authorizesLink(h, ok)
           \/ \E from \in Person, c \in Chat, ok \in BOOLEAN : unlinkKyeCommand(h, from, c, ok)
    PROVE  BotInv'
<1>. DEFINE Moved == \E record : Moves(h, record) /\ record.at # "update" /\ handler[h].at # "left"
<1>1. Moved
  <2>1. ASSUME NEW from \in Person, NEW k \in Kye, NEW c \in Chat, linkKyeCommand(h, from, k, c)
        PROVE  Moved
    <3>. DEFINE update == [at |-> "kye", from |-> from, kye |-> k, chat |-> c]
    <3>1. update \in Shape
      BY DEF Shape
    <3>2. Moves(h, update) /\ handler[h] = Idle
      BY <2>1, <3>1, ReceivedMoves DEF linkKyeCommand, BotInv
    <3>3. QED
      BY <3>2 DEF Idle
  <2>2. ASSUME NEW ok \in BOOLEAN, authorizesLink(h, ok), Goes(h, "idle") PROVE Moved
    BY <2>2, FinishedMoves DEF authorizesLink, BotInv, Idle
  <2>3. ASSUME NEW ok \in BOOLEAN, authorizesLink(h, ok), Goes(h, "link") PROVE Moved
    <3>. DEFINE next == [at |-> "link", from |-> handler[h].from, kye |-> handler[h].kye,
                         chat |-> handler[h].chat]
    <3>1. handler[h] \in Shape /\ handler[h].at = "kye"
      BY <2>3 DEF authorizesLink, BotInv, HandlersInv
    <3>2. handler[h] \in [at : {"kye", "link"}, from : Person, kye : Kye, chat : Chat]
      BY <3>1 DEF Shape
    <3>3. [handler[h] EXCEPT !.at = "link"] = next /\ next \in Shape
      BY <3>2 DEF Shape
    <3>4. Moves(h, next)
      BY <2>3, <3>3 DEF Goes, Moves, BotInv, HandlersInv
    <3>5. QED
      BY <3>1, <3>4
  <2>4. ASSUME NEW from \in Person, NEW c \in Chat, NEW ok \in BOOLEAN,
               unlinkKyeCommand(h, from, c, ok)
        PROVE  Moved
    <3>1. PICK update \in Shape : Receives(h, update) /\ update.at # "update"
      <4>1. CASE Receives(h, Idle)
        BY <4>1 DEF Idle, Shape
      <4>2. CASE /\ Receives(h, [at |-> "unlink", kye |-> CHOOSE l \in LinkedTo(c) : TRUE])
                 /\ \E l \in LinkedTo(c) : from = Organizer[l]
        <5>1. (CHOOSE l \in LinkedTo(c) : TRUE) \in Kye
          BY <4>2 DEF LinkedTo
        <5>. DEFINE update == [at |-> "unlink", kye |-> CHOOSE l \in LinkedTo(c) : TRUE]
        <5>2. update \in Shape /\ update.at # "update"
          BY <5>1 DEF Shape
        <5>3. QED
          BY <4>2, <5>2
      <4>3. QED
        BY <2>4, <4>1, <4>2 DEF unlinkKyeCommand
    <3>2. QED
      BY <3>1, ReceivedMoves DEF BotInv, Idle
  <2>5. QED
    BY <2>1, <2>2, <2>3, <2>4 DEF authorizesLink
<1>2. UsersUnchanged /\ UNCHANGED <<kye_groups, inChat, stale>>
  BY DEF linkKyeCommand, authorizesLink, unlinkKyeCommand, GroupsUnchanged
<1>3. HandlersInv' /\ WriterInv'
  BY <1>1, <1>2, ChatStepKeeps DEF BotInv, HandlersInv
<1>4. NoGroupLeftBehind'
  BY <1>1, <1>2, ChatsUntouched DEF BotInv
<1>5. QED
  BY <1>3, <1>4 DEF BotInv

LEMMA upsertsGroupKeeps ==
    ASSUME BotAssumption, BotInv, NEW h \in Handler, NEW ok \in BOOLEAN, upsertsGroup(h, ok)
    PROVE  BotInv'
<1>1. handler[h] \in Shape /\ handler[h].at = "link"
  BY DEF upsertsGroup, BotInv, HandlersInv
<1>2. handler[h].chat \in Chat /\ handler[h].kye \in Kye
  BY <1>1 DEF Shape
<1>3. Moves(h, Idle)
  BY FinishedMoves DEF upsertsGroup, BotInv
<1>4. HandlersInv' /\ WriterInv'
  <2>1. kye_groups' \in [Kye -> Chat \cup {NoChat}] /\ UsersUnchanged
    BY <1>2 DEF upsertsGroup, BotInv, HandlersInv
  <2>2. QED
    BY <1>3, <2>1, ChatStepKeeps DEF Idle
<1>5. NoGroupLeftBehind'
  <2>1. \A g \in Handler : handler[g].at = "left" => handler'[g] = handler[g]
    BY <1>1, <1>3 DEF Moves, BotInv, HandlersInv
  <2>2. inChat' = inChat /\ stale \subseteq stale'
    BY DEF upsertsGroup
  <2>3. \A k \in Kye : kye_groups'[k] \in Chat \ inChat =>
            kye_groups'[k] = kye_groups[k] \/ kye_groups'[k] \in stale'
    BY DEF upsertsGroup, BotInv, HandlersInv
  <2>4. QED
    BY <2>1, <2>2, <2>3 DEF BotInv, NoGroupLeftBehind
<1>6. QED
  BY <1>4, <1>5 DEF BotInv

LEMMA deletesGroupKeeps ==
    ASSUME BotAssumption, BotInv, NEW h \in Handler, NEW ok \in BOOLEAN, deletesGroup(h, ok)
    PROVE  BotInv'
<1>1. handler[h] \in Shape /\ handler[h].at = "unlink"
  BY DEF deletesGroup, BotInv, HandlersInv
<1>2. Moves(h, Idle)
  BY FinishedMoves DEF deletesGroup, BotInv
<1>3. \A k \in Kye : kye_groups'[k] \in {kye_groups[k], NoChat}
  BY DEF deletesGroup, BotInv, HandlersInv
<1>4. HandlersInv' /\ WriterInv'
  <2>1. kye_groups' \in [Kye -> Chat \cup {NoChat}] /\ UsersUnchanged
    BY DEF deletesGroup, BotInv, HandlersInv
  <2>2. QED
    BY <1>2, <2>1, ChatStepKeeps DEF Idle
<1>5. NoGroupLeftBehind'
  <2>1. \A g \in Handler : handler[g].at = "left" => handler'[g] = handler[g]
    BY <1>1, <1>2 DEF Moves, BotInv, HandlersInv
  <2>2. QED
    BY <1>3, <2>1 DEF deletesGroup, BotInv, NoGroupLeftBehind, BotAssumption
<1>6. QED
  BY <1>4, <1>5 DEF BotInv

LEMMA leavesChatKeeps ==
    ASSUME BotAssumption, BotInv, NEW h \in Handler, NEW c \in Chat, leavesChat(h, c)
    PROVE  BotInv'
<1>. DEFINE update == [at |-> "left", chat |-> c]
<1>1. update \in Shape
  BY DEF Shape
<1>2. Moves(h, update) /\ handler[h] = Idle
  BY <1>1, ReceivedMoves DEF leavesChat, BotInv
<1>3. HandlersInv' /\ WriterInv'
  BY <1>2, ChatStepKeeps DEF leavesChat, BotInv, HandlersInv
<1>4. NoGroupLeftBehind'
  <2>1. handler'[h].at = "left" /\ handler'[h].chat = c
    BY <1>2 DEF Moves, BotInv, HandlersInv
  <2>2. \A g \in Handler : handler[g].at = "left" => handler'[g] = handler[g]
    BY <1>2 DEF Moves, Idle, BotInv, HandlersInv
  <2>3. UNCHANGED <<kye_groups, stale>> /\ inChat' = inChat \ {c}
    BY DEF leavesChat
  <2>4. QED
    BY <2>1, <2>2, <2>3 DEF BotInv, NoGroupLeftBehind
<1>5. QED
  BY <1>3, <1>4 DEF BotInv

LEMMA myChatMemberKeeps ==
    ASSUME BotAssumption, BotInv, NEW h \in Handler, NEW ok \in BOOLEAN, myChatMember(h, ok)
    PROVE  BotInv'
<1>. DEFINE chat == handler[h].chat
<1>1. Moves(h, Idle)
  BY FinishedMoves DEF myChatMember, BotInv
<1>2. HandlersInv' /\ WriterInv'
  <2>1. kye_groups' \in [Kye -> Chat \cup {NoChat}] /\ UsersUnchanged
    BY DEF myChatMember, WithoutChat, BotInv, HandlersInv
  <2>2. QED
    BY <1>1, <2>1, ChatStepKeeps DEF Idle
<1>3. NoGroupLeftBehind'
  <2>1. \A g \in Handler \ {h} : handler'[g] = handler[g]
    BY <1>1 DEF Moves, BotInv, HandlersInv
  <2>2. \A k \in Kye : kye_groups'[k] \in Chat =>
            kye_groups'[k] = kye_groups[k] /\ (kye_groups[k] # chat \/ chat \in stale')
    BY DEF myChatMember, WithoutChat, BotInv, HandlersInv, BotAssumption
  <2>3. inChat' = inChat /\ stale \subseteq stale'
    BY DEF myChatMember
  <2>4. QED
    BY <2>1, <2>2, <2>3 DEF BotInv, NoGroupLeftBehind
<1>4. QED
  BY <1>2, <1>3 DEF BotInv

LEMMA newChatMembersKeeps ==
    ASSUME BotInv, NEW c \in Chat, newChatMembers(c)
    PROVE  BotInv'
<1>1. HandlersInv'
  BY DEF newChatMembers, UsersUnchanged, BotInv, HandlersInv
<1>2. WriterInv'
  BY DEF newChatMembers, UsersUnchanged, BotInv, WriterInv, UpdatesRow
<1>3. NoGroupLeftBehind'
  BY DEF newChatMembers, BotInv, NoGroupLeftBehind
<1>4. QED
  BY <1>1, <1>2, <1>3 DEF BotInv

-----------------------------------------------------------------------------

LEMMA BotStep ==
    ASSUME BotAssumption, BotInv, [BotNext]_botVars
    PROVE  BotInv'
<1>1. CASE UNCHANGED botVars
  BY <1>1
  DEF botVars, BotInv, HandlersInv, WriterInv, UpdatesRow, NoGroupLeftBehind
<1>2. ASSUME NEW p \in Person, resolveOrCreateUser(p) PROVE BotInv'
  BY <1>2, resolveOrCreateUserKeeps
<1>3. ASSUME NEW c \in Chat, newChatMembers(c) PROVE BotInv'
  BY <1>3, newChatMembersKeeps
<1>4. ASSUME NEW h \in Handler, NEW from \in Person, NEW k \in Kye, startCommand(h, from, k)
      PROVE  BotInv'
  BY <1>4, startKeeps
<1>5. ASSUME NEW h \in Handler, NEW c \in Chat, leavesChat(h, c) PROVE BotInv'
  BY <1>5, leavesChatKeeps
<1>6. ASSUME NEW h \in Handler,
             \/ \E from \in Person : langCallback(h, from)
             \/ \E ok \in BOOLEAN : upsertUserLanguage(h, ok)
      PROVE  BotInv'
  BY <1>6, languageKeeps
<1>7. ASSUME NEW h \in Handler,
             \/ \E from \in Person, k \in Kye, c \in Chat : linkKyeCommand(h, from, k, c)
             \/ \E ok \in BOOLEAN : authorizesLink(h, ok)
             \/ \E from \in Person, c \in Chat, ok \in BOOLEAN : unlinkKyeCommand(h, from, c, ok)
      PROVE  BotInv'
  BY <1>7, linkReadsKeep
<1>8. ASSUME NEW h \in Handler, NEW ok \in BOOLEAN,
             \/ findsReferrer(h, ok) \/ findsExisting(h, ok) \/ updatesReferrer(h, ok)
             \/ insertsReferred(h, ok)
      PROVE  BotInv'
  BY <1>8, findsReferrerKeeps, findsExistingKeeps, updatesReferrerKeeps, insertsReferredKeeps
<1>9. ASSUME NEW h \in Handler, NEW ok \in BOOLEAN,
             \/ upsertsGroup(h, ok) \/ deletesGroup(h, ok) \/ myChatMember(h, ok)
      PROVE  BotInv'
  BY <1>9, upsertsGroupKeeps, deletesGroupKeeps, myChatMemberKeeps
<1>10. QED
  BY <1>1, <1>2, <1>3, <1>4, <1>5, <1>6, <1>7, <1>8, <1>9 DEF BotNext

LEMMA BotInvariant == ASSUME BotAssumption PROVE BotSpec => []BotInv
BY BotInitially, BotStep, PTL DEF BotSpec

(* Whatever handlers overlap and whatever fails: a chat the bot has left    *)
(* keeps no circle, its own removal handled, but for the exceptions that    *)
(* NoGroupLeftBehind names (myChatMember.ts:25, linkkye.ts:47).             *)
THEOREM GroupTheorem == ASSUME BotAssumption PROVE BotSpec => []NoGroupLeftBehind
BY BotInvariant, PTL DEF BotInv

(* A step that changes a referrer that was set is one of two writers.       *)
LEMMA ReferrerStep ==
    ASSUME BotAssumption, BotInv, BotNext
    PROVE  \A p \in Person : referred_by[p] \in Person /\ p \notin raced
                                => referred_by'[p] = referred_by[p]
<1>. SUFFICES ASSUME NEW p \in Person, referred_by[p] \in Person, p \notin raced
              PROVE  referred_by'[p] = referred_by[p]
  OBVIOUS
<1>1. referred_by[p] # Absent /\ referred_by[p] # Nobody
  BY DEF BotAssumption
<1>2. ASSUME NEW h \in Handler, NEW ok \in BOOLEAN, updatesReferrer(h, ok)
      PROVE  referred_by'[p] = referred_by[p]
  <2>1. handler[h].from # p
    BY <1>1, <1>2 DEF updatesReferrer, UpdatesRow, BotInv, WriterInv
  <2>2. QED
    BY <1>2, <2>1 DEF updatesReferrer, BotInv, HandlersInv
<1>3. ASSUME NEW h \in Handler, NEW ok \in BOOLEAN, insertsReferred(h, ok)
      PROVE  referred_by'[p] = referred_by[p]
  BY <1>1, <1>3 DEF insertsReferred, BotInv, HandlersInv
<1>4. ASSUME NEW q \in Person, resolveOrCreateUser(q)
      PROVE  referred_by'[p] = referred_by[p]
  BY <1>1, <1>4 DEF resolveOrCreateUser, WithRow, BotInv, HandlersInv
<1>5. ASSUME NEW h \in Handler, NEW ok \in BOOLEAN, upsertUserLanguage(h, ok)
      PROVE  referred_by'[p] = referred_by[p]
  BY <1>1, <1>5 DEF upsertUserLanguage, WithRow, BotInv, HandlersInv
<1>6. QED
  BY <1>2, <1>3, <1>4, <1>5
  DEF BotNext, newChatMembers, langCallback, startCommand, linkKyeCommand, unlinkKyeCommand,
      leavesChat, findsReferrer, findsExisting, authorizesLink, upsertsGroup, deletesGroup,
      myChatMember, UsersUnchanged

(* However many links a user opens, and whoever creates his row: the first  *)
(* referrer stays, unless two handlers had both found none                  *)
(* (supabaseClient.ts:80-89).                                               *)
THEOREM ReferrerTheorem == ASSUME BotAssumption PROVE BotSpec => ReferrerKept
<1>1. BotInv /\ [BotNext]_botVars
        => [\A p \in Person : referred_by[p] \in Person /\ p \notin raced
                                => referred_by'[p] = referred_by[p]]_botVars
  BY ReferrerStep DEF botVars
<1>2. QED
  BY <1>1, BotInvariant, PTL DEF BotSpec, ReferrerKept
=============================================================================
