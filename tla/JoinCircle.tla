----------------------------- MODULE JoinCircle -----------------------------
(***************************************************************************)
(* Joining a circle: the join page (app/join/[address]/page.tsx) of each   *)
(* user, POST /kyes/:id/join with its sixty-second lock on a slot          *)
(* (pending_joins), and the JoinKye message that the relayed intent makes  *)
(* the user's vault send.  The lock is read and written in two statements  *)
(* and nothing checks it afterwards: only the contract decides who gets    *)
(* the slot.  kye_members and the circle's status in the database follow   *)
(* the chain whenever the indexer comes around.                            *)
(***************************************************************************)
EXTENDS Faults, RelayedCall, FiniteSets

CONSTANTS
    User,           \* Call is a set of pairs <<user, number>>
    NoUser,
    Slot,           \* the circle has a slot for every member
    NoSlot,
    Wanted,         \* user -> the slots he may ask for
    Starts,         \* where the users may start: members of [User -> Setup]
    Attempts        \* posts of one request: one and the retries

(* How far a user has come: outside Telegram, without a wallet, connected,  *)
(* with a vault the backend never registered, or ready to join.             *)
Setup == {"browser", "none", "wallet", "vault", "registered"}

JoinAssumption ==
    /\ Call \subseteq User \X (Nat \ {0})
    /\ NoUser \notin User
    /\ IsFiniteSet(Slot)
    /\ NoSlot \notin Slot /\ Wanted \in [User -> SUBSET Slot]
    /\ Starts # {} /\ Starts \subseteq [User -> Setup]

Try == 1..Attempts
UserOf(c) == c[1]

VARIABLES
    setup,          \* user -> one of Setup
    joinPage,       \* user -> where the page is, the taken slots it shows
    joining,        \* call -> its slot, and how often it was posted
    joinPosts,      \* call -> attempt -> where the request is
    pending_joins,  \* slot -> user, and whether expires_at is still ahead
    kye_members,    \* slots that have a row
    kyeStatus,      \* status in the kyes row
    contract,       \* on chain: status, members (slot -> user)
    refused,        \* calls whose JoinKye the contract refused
    grant,          \* call -> its lock: at (none, live, lapsed), and whether
                    \* the slot was free on chain when it was given
    unprotected     \* slots whose lock was raced, was not read or written,
                    \* or which somebody took without a live lock

joinVars == <<setup, joinPage, joining, joinPosts, pending_joins, kye_members, kyeStatus,
              contract, refused, grant, unprotected>>

NoGrant == [at |-> "none", free |-> FALSE]
JoinInit ==
    /\ CallInit
    /\ setup \in Starts
    /\ joinPage = [u \in User |-> [at |-> "off", taken |-> {}]]
    /\ joining = [c \in Call |-> [slot |-> NoSlot, tries |-> 0]]
    /\ joinPosts = [c \in Call |-> [k \in Try |-> "none"]]
    /\ pending_joins = [s \in Slot |-> [user |-> NoUser, live |-> FALSE]]
    /\ kye_members = {} /\ kyeStatus = "created"
    /\ contract = [status |-> "created", members |-> [s \in Slot |-> NoUser]]
    /\ refused = {}
    /\ grant = [c \in Call |-> NoGrant]
    /\ unprotected = {}

ChainUnchanged == UNCHANGED <<contract, refused>>
DatabaseUnchanged == UNCHANGED <<pending_joins, kye_members, kyeStatus, grant, unprotected>>

-----------------------------------------------------------------------------
(* The page *)

At(u, at) == joinPage' = [joinPage EXCEPT ![u].at = at]
Stays(u, from, to) ==
    /\ joinPage[u].at = from /\ At(u, to)
    /\ UNCHANGED <<callVars, joining, joinPosts>>
    /\ DatabaseUnchanged /\ ChainUnchanged

(* A bound: who has no call left does not come back to the page.            *)
Visits(u) == \E c \in Call : UserOf(c) = u /\ joining[c].slot = NoSlot
load(u, ok) ==
    /\ Visits(u)
    /\ joinPage[u].at \in {"off", "open"}
    /\ FaultUnless(ok)
    /\ joinPage' = [joinPage EXCEPT ![u] = IF ok THEN [at |-> "open", taken |-> kye_members]
                                                 ELSE [at |-> "off", taken |-> {}]]
    /\ UNCHANGED <<callVars, setup, joining, joinPosts>>
    /\ DatabaseUnchanged /\ ChainUnchanged

canJoin(u, s) == s \notin joinPage[u].taken
(* The first prerequisite that is missing decides which dialog opens.       *)
StepModal(u) == CASE setup[u] = "browser" -> "telegram"
                  [] setup[u] = "none" -> "wallet"
                  [] setup[u] = "wallet" -> "vault"
                  [] setup[u] \in {"vault", "registered"} -> "confirm"
onJoinClick(u) ==
    /\ Visits(u) /\ \E s \in Slot : canJoin(u, s)
    /\ Stays(u, "open", StepModal(u)) /\ UNCHANGED setup /\ NoFault
cancelModal(u) ==
    /\ joinPage[u].at \in {"telegram", "wallet", "vault", "confirm"}
    /\ Stays(u, joinPage[u].at, "open") /\ UNCHANGED setup /\ NoFault
onConnectWallet(u, connected) ==
    /\ Stays(u, "wallet", "open") /\ NoFault
    /\ setup' = IF connected THEN [setup EXCEPT ![u] = "wallet"] ELSE setup
(* The faucet, unless it was claimed, the transaction, the registration:    *)
(* rejected, failed on the way, or done.  A registration that is refused    *)
(* leaves a vault the page takes for ready.                                 *)
onActivateVault(u, result) ==
    /\ CASE result = "rejected" -> Stays(u, "vault", "open") /\ UNCHANGED setup /\ NoFault
         [] result = "unregistered" -> /\ Stays(u, "vault", "open") /\ Fault
                                       /\ setup' = [setup EXCEPT ![u] = "vault"]
         [] result = "ready" -> /\ Stays(u, "vault", "confirm") /\ NoFault
                                /\ setup' = [setup EXCEPT ![u] = "registered"]
runJoin(c, s) ==
    LET u == UserOf(c) IN
    /\ joinPage[u].at = "confirm" /\ s \in Wanted[u] /\ canJoin(u, s)
    /\ joining[c].slot = NoSlot
    /\ \A b \in Call : UserOf(b) = u /\ b[2] < c[2] => joining[b].slot # NoSlot
    /\ joining' = [joining EXCEPT ![c].slot = s]
    /\ At(u, "post")
    /\ UNCHANGED <<callVars, setup, joinPosts, faults>> /\ DatabaseUnchanged /\ ChainUnchanged

(* The call the user's page is at: the last one that was started.           *)
IsCurrent(c) == /\ joining[c].slot # NoSlot
                /\ \A b \in Call : UserOf(b) = UserOf(c) /\ b[2] > c[2] => joining[b].slot = NoSlot
joinKye(c) ==                               \* api.joinKye posts the request
    /\ IsCurrent(c) /\ joinPage[UserOf(c)].at = "post"
    /\ joining' = [joining EXCEPT ![c].tries = @ + 1]
    /\ joinPosts' = [joinPosts EXCEPT ![c][joining[c].tries + 1] = "arrived"]
    /\ At(UserOf(c), "wait")
    /\ UNCHANGED <<callVars, setup, faults>> /\ DatabaseUnchanged /\ ChainUnchanged
Retry(c) == At(UserOf(c), IF joining[c].tries < Attempts THEN "post" ELSE "open")
postReturns(c) ==
    LET status == joinPosts[c][joining[c].tries] IN
    /\ IsCurrent(c) /\ joinPage[UserOf(c)].at = "wait"
    /\ \/ status = "200" /\ signAndRelay(c) /\ At(UserOf(c), "relay")
       \/ status = "refused" /\ At(UserOf(c), "open") /\ UNCHANGED callVars
       \/ status = "500" /\ Retry(c) /\ UNCHANGED callVars
    /\ UNCHANGED <<setup, joining, joinPosts, faults>> /\ DatabaseUnchanged /\ ChainUnchanged
connectionLost(c) ==
    /\ IsCurrent(c) /\ joinPage[UserOf(c)].at = "wait"
    /\ Fault /\ Retry(c)
    /\ UNCHANGED <<callVars, setup, joining, joinPosts>> /\ DatabaseUnchanged /\ ChainUnchanged
relayReturns(c, result) ==                  \* on to the circle's page, or back
    /\ IsCurrent(c) /\ joinPage[UserOf(c)].at = "relay"
    /\ Answer(c, result)
    /\ At(UserOf(c), IF result = "ok" THEN "off" ELSE "open")
    /\ UNCHANGED <<setup, joining, joinPosts, faults>> /\ DatabaseUnchanged /\ ChainUnchanged

-----------------------------------------------------------------------------
(* POST /kyes/:id/join.  A select that fails reads like one that found      *)
(* nothing, and nobody looks whether the upsert went well.                  *)

Answers(c, k, status) == joinPosts' = [joinPosts EXCEPT ![c][k] = status]
PageUnchanged == UNCHANGED <<callVars, setup, joinPage, joining>>
readsCircle(c, k, failed) ==                \* the select that fails, if one does
    /\ joinPosts[c][k] = "arrived"
    /\ FaultUnless(failed = "none")
    /\ Answers(c, k, CASE failed = "user" -> "500"
                       [] failed = "kye" -> "refused"
                       [] failed \in {"none", "kye_members"} ->
                            IF \/ setup[UserOf(c)] # "registered"
                               \/ kyeStatus # "created"
                               \/ failed = "none" /\ joining[c].slot \in kye_members
                            THEN "refused" ELSE "open")
    /\ PageUnchanged /\ DatabaseUnchanged /\ ChainUnchanged
Racing(c) ==                                \* others between the two statements
    \E b \in Call, j \in Try : /\ UserOf(b) # UserOf(c) /\ joining[b].slot = joining[c].slot
                               /\ joinPosts[b][j] = "unlocked"
FLockedByOther(s, u) == FALSE               \* expired or not, the lock is never read
LockedByOther(s, u) == pending_joins[s].user \notin {NoUser, u} /\ pending_joins[s].live
readsLock(c, k, ok) ==
    LET s == joining[c].slot
        unlocked == ~(ok /\ LockedByOther(s, UserOf(c))) IN
    /\ joinPosts[c][k] = "open"
    /\ FaultUnless(ok)
    /\ Answers(c, k, IF unlocked THEN "unlocked" ELSE "refused")
    /\ unprotected' = IF ~ok \/ (unlocked /\ Racing(c)) THEN unprotected \cup {s}
                                                         ELSE unprotected
    /\ UNCHANGED <<pending_joins, kye_members, kyeStatus, grant>>
    /\ PageUnchanged /\ ChainUnchanged
upsertsLock(c, k, ok) ==
    LET s == joining[c].slot IN
    /\ joinPosts[c][k] = "unlocked"
    /\ FaultUnless(ok)
    /\ Answers(c, k, "200")
    /\ grant' = [grant EXCEPT ![c] = [at |-> "live", free |-> contract.members[s] = NoUser]]
    /\ IF ok
       THEN /\ pending_joins' = [pending_joins EXCEPT ![s] = [user |-> UserOf(c), live |-> TRUE]]
            /\ UNCHANGED unprotected
       ELSE unprotected' = unprotected \cup {s} /\ UNCHANGED pending_joins
    /\ UNCHANGED <<kye_members, kyeStatus>>
    /\ PageUnchanged /\ ChainUnchanged

(* Sixty seconds after the last upsert of the slot's row.                   *)
lockExpires(s) ==
    /\ \E c \in Call : joining[c].slot = s /\ grant[c].at = "live"
    /\ pending_joins' = [pending_joins EXCEPT ![s].live = FALSE]
    /\ grant' = [c \in Call |-> IF joining[c].slot = s /\ grant[c].at = "live"
                                THEN [grant[c] EXCEPT !.at = "lapsed"] ELSE grant[c]]
    /\ UNCHANGED <<joinPosts, kye_members, kyeStatus, unprotected, faults>>
    /\ PageUnchanged /\ ChainUnchanged
index ==
    LET joined == {s \in Slot : contract.members[s] # NoUser} IN
    /\ <<kye_members, kyeStatus>> # <<joined, contract.status>>
    /\ kye_members' = joined /\ kyeStatus' = contract.status
    /\ UNCHANGED <<joinPosts, pending_joins, grant, unprotected, faults>>
    /\ PageUnchanged /\ ChainUnchanged

-----------------------------------------------------------------------------
(* The chain *)

(* The vault executes the intent and the circle gets JoinKye.               *)
JoinKye(c) ==
    LET s == joining[c].slot
        u == UserOf(c)
        members == [contract.members EXCEPT ![s] = u]
        accepted == /\ contract.status = "created"
                    /\ contract.members[s] = NoUser
                    /\ \A t \in Slot : contract.members[t] # u IN
    /\ Execute(c)
    /\ IF accepted
       THEN /\ contract' = [status |-> IF \A t \in Slot : members[t] # NoUser
                                       THEN "active" ELSE "created", members |-> members]
            /\ unprotected' = IF grant[c].at = "live" THEN unprotected ELSE unprotected \cup {s}
            /\ UNCHANGED refused
       ELSE refused' = refused \cup {c} /\ UNCHANGED <<contract, unprotected>>
    /\ UNCHANGED <<setup, joinPage, joining, joinPosts, pending_joins, kye_members, kyeStatus,
                   grant, faults>>
EmergencyCancel ==
    /\ contract.status \in {"created", "active"}
    /\ contract' = [contract EXCEPT !.status = "cancelled"]
    /\ UNCHANGED <<joinPosts, refused, faults>> /\ PageUnchanged /\ DatabaseUnchanged

JoinNext ==
    \/ index \/ EmergencyCancel
    \/ \E u \in User :
        \/ onJoinClick(u) \/ cancelModal(u)
        \/ \E ok \in BOOLEAN : load(u, ok) \/ onConnectWallet(u, ok)
        \/ \E result \in {"rejected", "unregistered", "ready"} : onActivateVault(u, result)
    \/ \E s \in Slot : lockExpires(s)
    \/ \E c \in Call :
        \/ joinKye(c) \/ postReturns(c) \/ connectionLost(c) \/ JoinKye(c)
        \/ \E s \in Slot : runJoin(c, s)
        \/ \E result \in {"ok", "failed"} : relayReturns(c, result)
        \/ \E k \in Try, ok \in BOOLEAN :
            readsLock(c, k, ok) \/ upsertsLock(c, k, ok)
        \/ \E k \in Try, failed \in {"none", "user", "kye", "kye_members"} :
            readsCircle(c, k, failed)

-----------------------------------------------------------------------------

JoinTypeOK ==
    /\ setup \in [User -> Setup]
    /\ joinPage \in [User -> [at : {"off", "open", "telegram", "wallet", "vault", "confirm",
                                    "post", "wait", "relay"}, taken : SUBSET Slot]]
    /\ joining \in [Call -> [slot : Slot \cup {NoSlot}, tries : 0..Attempts]]
    /\ joinPosts \in [Call -> [Try -> {"none", "arrived", "open", "unlocked",
                                       "200", "refused", "500"}]]
    /\ pending_joins \in [Slot -> [user : User \cup {NoUser}, live : BOOLEAN]]
    /\ kye_members \subseteq Slot
    /\ kyeStatus \in {"created", "active", "cancelled"}
    /\ contract \in [status : {"created", "active", "cancelled"},
                     members : [Slot -> User \cup {NoUser}]]
    /\ refused \subseteq Call
    /\ grant \in [Call -> [at : {"none", "live", "lapsed"}, free : BOOLEAN]]
    /\ unprotected \subseteq Slot

(* What the lock is for: a user who was given a slot that was free, and     *)
(* whose lock has not lapsed, loses it to nobody - unless two requests met  *)
(* between the select and the upsert, a query failed, or somebody took the  *)
(* slot with a message that outlived its own lock (kyes.ts:372-397).        *)
LockHolderGetsSlot ==
    \A c \in refused :
        LET s == joining[c].slot IN
        grant[c] = [at |-> "live", free |-> TRUE] =>
            \/ contract.members[s] \in {NoUser, UserOf(c)}
            \/ s \in unprotected

(* The circle that the joins fill.  Nobody pays or wins while the app is at *)
(* the join page, and a circle that is called off then owes nothing.        *)
Seats == INSTANCE SavingsCircle WITH
    Account <- User, memberCount <- Cardinality(Slot), contribution <- 1,
    phase <- IF contract.status = "created" THEN "open"
             ELSE IF contract.status = "active" THEN "running" ELSE "cancelled",
    seated <- {contract.members[s] : s \in Slot} \ {NoUser},
    free <- Cardinality({s \in Slot : contract.members[s] = NoUser}),
    payers <- {}, won <- {}, paid <- [u \in User |-> 0], owed <- [u \in User |-> 0]

(* The contract of this module is the circle that KyeContract implements:   *)
(* one seat for each member, and the last one starts it (JoinKye).          *)
SeatsOfOneCircle == Seats!CircleSpec
=============================================================================
