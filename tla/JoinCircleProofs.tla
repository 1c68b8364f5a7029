-------------------------- MODULE JoinCircleProofs --------------------------
(***************************************************************************)
(* Proof that a lock on a slot does what it is for, in every behaviour of  *)
(* the app and for any number of users, slots and requests: between the    *)
(* requests that met no race and no failed query at most one user holds a  *)
(* slot's lock, the row names him, and nobody else is about to write it.   *)
(***************************************************************************)
EXTENDS MiniApp, FiniteSetTheorems, TLAPS

PostAt == {"none", "arrived", "open", "unlocked", "200", "refused", "500"}
Grant == [at : {"none", "live", "lapsed"}, free : BOOLEAN]
JoinedCircle == [status : {"created", "active", "cancelled"},
                 members : [Slot -> User \cup {NoUser}]]

JoinTypes ==
    /\ joinAsked \subseteq JoinCall
    /\ joining \in [JoinCall -> [slot : Slot \cup {NoSlot}, tries : Nat]]
    /\ joinPosts \in [JoinCall -> [Join!Try -> PostAt]]
    /\ pending_joins \in [Slot -> [user : User \cup {NoUser}, live : BOOLEAN]]
    /\ contract \in JoinedCircle
    /\ grant \in [JoinCall -> Grant]
    /\ unprotected \subseteq Slot

(* A call without a slot has posted nothing, was given no lock and relayed  *)
(* nothing.                                                                 *)
NotStarted ==
    \A c \in JoinCall : joining[c].slot = NoSlot =>
        /\ c \notin joinAsked /\ grant[c] = Join!NoGrant
        /\ \A k \in Join!Try : joinPosts[c][k] = "none"

Holds(c, s) == joining[c].slot = s /\ grant[c].at = "live"
AboutToLock(c, s) == joining[c].slot = s /\ \E k \in Join!Try : joinPosts[c][k] = "unlocked"

(* The row of a slot names whoever holds its lock.                          *)
RowNamesHolder ==
    \A s \in Slot \ unprotected, c \in JoinCall :
        Holds(c, s) => pending_joins[s] = [user |-> Join!UserOf(c), live |-> TRUE]
(* Who has found a slot unlocked is the only user to have done so, and      *)
(* nobody else holds its lock.                                              *)
OneLocker ==
    \A s \in Slot \ unprotected, b, c \in JoinCall :
        AboutToLock(c, s) /\ Join!UserOf(b) # Join!UserOf(c) => ~Holds(b, s) /\ ~AboutToLock(b, s)
(* A slot that was free when its lock was given stays free for its holder.  *)
KeptForHolder ==
    \A s \in Slot \ unprotected, c \in JoinCall :
        Holds(c, s) /\ grant[c].free => contract.members[s] \in {NoUser, Join!UserOf(c)}

LockInv == RowNamesHolder /\ OneLocker /\ KeptForHolder
JoinInv == JoinTypes /\ NotStarted /\ LockInv

-----------------------------------------------------------------------------

USE DEF PostAt, Grant, JoinedCircle

LEMMA JoinInitially == ASSUME Join!JoinAssumption, Join!JoinInit PROVE JoinInv
<1>1. JoinTypes
  BY DEF Join!JoinInit, Join!CallInit, JoinTypes, Join!NoGrant
<1>2. NotStarted
  BY DEF Join!JoinInit, Join!CallInit, NotStarted, Join!NoGrant
<1>3. LockInv
  BY DEF Join!JoinInit, LockInv, RowNamesHolder, OneLocker, KeptForHolder, Holds, AboutToLock,
         Join!NoGrant
<1>4. QED
  BY <1>1, <1>2, <1>3 DEF JoinInv

(* What the invariant gives for the property.                               *)
LEMMA JoinInvImplies ==
    ASSUME JoinInv, refused \subseteq {c \in JoinCall : joining[c].slot # NoSlot}
    PROVE  LockHolderGetsSlot
<1>. SUFFICES ASSUME NEW c \in refused,
                     grant[c] = [at |-> "live", free |-> TRUE],
                     joining[c].slot \notin unprotected
              PROVE  contract.members[joining[c].slot] \in {NoUser, Join!UserOf(c)}
  BY DEF LockHolderGetsSlot, Join!LockHolderGetsSlot
<1>1. joining[c].slot \in Slot \ unprotected
  BY DEF JoinInv, JoinTypes
<1>2. QED
  BY <1>1 DEF JoinInv, LockInv, KeptForHolder, Holds

-----------------------------------------------------------------------------

(* Steps that touch no lock: they start no request on a slot and let none   *)
(* pass the select, and leave the row, the locks and the members alone.     *)
LeavesLocks ==
    /\ \A c \in JoinCall : joining'[c].slot = joining[c].slot
    /\ \A c \in JoinCall, k \in Join!Try : joinPosts'[c][k] = "unlocked" =>
          joinPosts[c][k] = "unlocked"
    /\ contract'.members = contract.members
    /\ UNCHANGED <<pending_joins, grant, unprotected>>

LEMMA LeavesLocksKeeps == ASSUME LockInv, LeavesLocks PROVE LockInv'
<1>1. \A c \in JoinCall, s \in Slot : Holds(c, s)' <=> Holds(c, s)
  BY DEF LeavesLocks, Holds
<1>2. \A c \in JoinCall, s \in Slot : AboutToLock(c, s)' => AboutToLock(c, s)
  BY DEF LeavesLocks, AboutToLock
<1>3. RowNamesHolder'
  BY <1>1 DEF LeavesLocks, LockInv, RowNamesHolder
<1>4. OneLocker'
  BY <1>1, <1>2 DEF LeavesLocks, LockInv, OneLocker
<1>5. KeptForHolder'
  BY <1>1 DEF LeavesLocks, LockInv, KeptForHolder
<1>6. QED
  BY <1>3, <1>4, <1>5 DEF LockInv

(* The page's own steps, the indexer and the organizer.                     *)
LEMMA QuietKeeps ==
    ASSUME JoinInv, UNCHANGED <<joining, joinPosts, pending_joins, grant, unprotected>>,
           joinAsked' = joinAsked, contract'.members = contract.members,
           contract' \in JoinedCircle
    PROVE  JoinInv'
<1>1. JoinTypes'
  BY DEF JoinInv, JoinTypes
<1>2. NotStarted'
  BY DEF JoinInv, NotStarted
<1>3. LockInv'
  BY LeavesLocksKeeps DEF JoinInv, LeavesLocks
<1>4. QED
  BY <1>1, <1>2, <1>3 DEF JoinInv

LEMMA PageKeeps ==
    ASSUME JoinInv, UNCHANGED <<joinAsked, joining, joinPosts>>, Join!DatabaseUnchanged,
          Join!ChainUnchanged
    PROVE  JoinInv'
BY QuietKeeps DEF Join!DatabaseUnchanged, Join!ChainUnchanged, JoinInv, JoinTypes

LEMMA DialogsKeep ==
    ASSUME JoinInv, NEW u \in User,
           \/ Join!onJoinClick(u) \/ Join!cancelModal(u)
           \/ \E ok \in BOOLEAN : Join!load(u, ok) \/ Join!onConnectWallet(u, ok)
           \/ \E result \in {"rejected", "unregistered", "ready"} : Join!onActivateVault(u, result)
    PROVE  JoinInv'
<1>1. \/ \E from, to : Join!Stays(u, from, to)
      \/ \E ok \in BOOLEAN : Join!load(u, ok)
  BY DEF Join!onJoinClick, Join!cancelModal, Join!onConnectWallet, Join!onActivateVault
<1>2. UNCHANGED <<joinAsked, joining, joinPosts>> /\ Join!DatabaseUnchanged /\ Join!ChainUnchanged
  BY <1>1 DEF Join!Stays, Join!load, Join!callVars
<1>3. QED
  BY <1>2, PageKeeps

LEMMA WaitingKeeps ==
    ASSUME JoinInv, NEW c \in JoinCall,
           Join!connectionLost(c) \/ \E result \in {"ok", "failed"} : Join!relayReturns(c, result)
    PROVE  JoinInv'
BY PageKeeps DEF Join!connectionLost, Join!relayReturns, Join!callVars, Join!Answer

(* A call's record keeps its shape when it is posted and when it starts.    *)
LEMMA JoiningTyped ==
    ASSUME JoinTypes, NEW c \in JoinCall
    PROVE  /\ [joining EXCEPT ![c].tries = @ + 1]
                \in [JoinCall -> [slot : Slot \cup {NoSlot}, tries : Nat]]
           /\ \A b \in JoinCall :
                [joining EXCEPT ![c].tries = @ + 1][b].slot = joining[b].slot
           /\ \A s \in Slot :
                /\ [joining EXCEPT ![c].slot = s]
                        \in [JoinCall -> [slot : Slot \cup {NoSlot}, tries : Nat]]
                /\ [joining EXCEPT ![c].slot = s][c].slot = s
                /\ \A b \in JoinCall \ {c} : [joining EXCEPT ![c].slot = s][b] = joining[b]
<1>. DEFINE R == [slot : Slot \cup {NoSlot}, tries : Nat]
<1>1. joining \in [JoinCall -> R] /\ joining[c] \in R
  BY DEF JoinTypes
<1>2. [joining[c] EXCEPT !.tries = @ + 1] \in R
  BY <1>1
<1>3. [joining[c] EXCEPT !.tries = @ + 1].slot = joining[c].slot
  BY <1>1
<1>4. \A s \in Slot : [joining[c] EXCEPT !.slot = s] \in R
                      /\ [joining[c] EXCEPT !.slot = s].slot = s
  BY <1>1
<1>. HIDE DEF R
<1>5. [joining EXCEPT ![c].tries = @ + 1] \in [JoinCall -> R]
  BY <1>1, <1>2
<1>6. \A b \in JoinCall : [joining EXCEPT ![c].tries = @ + 1][b].slot = joining[b].slot
  BY <1>1, <1>3
<1>7. \A s \in Slot : /\ [joining EXCEPT ![c].slot = s] \in [JoinCall -> R]
                      /\ [joining EXCEPT ![c].slot = s][c].slot = s
                      /\ \A b \in JoinCall \ {c} : [joining EXCEPT ![c].slot = s][b] = joining[b]
  BY <1>1, <1>4
<1>8. QED
  BY <1>5, <1>6, <1>7 DEF R

LEMMA joinKyeKeeps == ASSUME JoinInv, NEW c \in JoinCall, Join!joinKye(c) PROVE JoinInv'
<1>. USE DEF JoinInv, Join!joinKye, Join!DatabaseUnchanged, Join!ChainUnchanged, Join!callVars
<1>1. joining[c].slot # NoSlot
  BY DEF Join!IsCurrent
<1>2. JoinTypes'
  <2>1. joining' \in [JoinCall -> [slot : Slot \cup {NoSlot}, tries : Nat]]
    BY JoiningTyped
  <2>2. joinPosts' \in [JoinCall -> [Join!Try -> PostAt]]
    BY DEF JoinTypes
  <2>3. QED
    BY <2>1, <2>2 DEF JoinTypes
<1>3. NotStarted'
  BY <1>1 DEF NotStarted, JoinTypes
<1>4. LockInv'
  BY LeavesLocksKeeps DEF LeavesLocks, JoinTypes
<1>5. QED
  BY <1>2, <1>3, <1>4

LEMMA postReturnsKeeps == ASSUME JoinInv, NEW c \in JoinCall, Join!postReturns(c) PROVE JoinInv'
<1>. USE DEF JoinInv, Join!postReturns, Join!DatabaseUnchanged, Join!ChainUnchanged,
             Join!callVars, Join!signAndRelay
<1>1. joining[c].slot # NoSlot /\ joinAsked' \subseteq joinAsked \cup {c}
  BY DEF Join!IsCurrent
<1>2. JoinTypes'
  BY <1>1 DEF JoinTypes
<1>3. NotStarted'
  BY <1>1 DEF NotStarted
<1>4. LockInv'
  BY LeavesLocksKeeps DEF LeavesLocks
<1>5. QED
  BY <1>2, <1>3, <1>4

LEMMA runJoinKeeps ==
    ASSUME Join!JoinAssumption, JoinInv, NEW c \in JoinCall, NEW s \in Slot, Join!runJoin(c, s)
    PROVE  JoinInv'
<1>. USE DEF JoinInv, Join!runJoin, Join!DatabaseUnchanged, Join!ChainUnchanged, Join!callVars
<1>1. joining[c].slot = NoSlot /\ NoSlot \notin Slot
  BY DEF Join!JoinAssumption
<1>2. JoinTypes'
  <2>1. joining' \in [JoinCall -> [slot : Slot \cup {NoSlot}, tries : Nat]]
    BY JoiningTyped
  <2>2. QED
    BY <2>1 DEF JoinTypes
<1>3. NotStarted'
  BY <1>1 DEF NotStarted, JoinTypes
<1>4. \A b \in JoinCall, t \in Slot : Holds(b, t)' => Holds(b, t)
  BY <1>1 DEF Holds, NotStarted, Join!NoGrant, JoinTypes
<1>5. \A b \in JoinCall, t \in Slot : AboutToLock(b, t)' => AboutToLock(b, t)
  BY <1>1 DEF AboutToLock, NotStarted, JoinTypes
<1>6. RowNamesHolder' /\ KeptForHolder'
  BY <1>4 DEF LockInv, RowNamesHolder, KeptForHolder
<1>7. OneLocker'
  BY <1>4, <1>5 DEF LockInv, OneLocker
<1>8. QED
  BY <1>2, <1>3, <1>6, <1>7 DEF LockInv
-----------------------------------------------------------------------------

(* A step of a request leaves the other requests where they are.            *)
LEMMA AnswersOnly ==
    ASSUME JoinTypes, NEW c \in JoinCall, NEW k \in Join!Try, NEW status \in PostAt,
           joinPosts[c][k] # "none", Join!Answers(c, k, status), Join!PageUnchanged, NotStarted
    PROVE  /\ joinPosts' \in [JoinCall -> [Join!Try -> PostAt]]
           /\ \A b \in JoinCall, j \in Join!Try :
                joinPosts'[b][j] = IF b = c /\ j = k THEN status ELSE joinPosts[b][j]
           /\ joining[c].slot \in Slot
           /\ UNCHANGED <<joinAsked, joining>>
           /\ \A b \in JoinCall : joining[b].slot = NoSlot =>
                \A j \in Join!Try : joinPosts'[b][j] = "none"
<1>1. joinPosts' \in [JoinCall -> [Join!Try -> PostAt]] /\ UNCHANGED <<joinAsked, joining>>
  BY DEF JoinTypes, Join!Answers, Join!PageUnchanged, Join!callVars
<1>2. \A b \in JoinCall, j \in Join!Try :
        joinPosts'[b][j] = IF b = c /\ j = k THEN status ELSE joinPosts[b][j]
  BY DEF JoinTypes, Join!Answers
<1>3. joining[c].slot \in Slot
  BY DEF NotStarted, JoinTypes
<1>4. \A b \in JoinCall : joining[b].slot = NoSlot => \A j \in Join!Try : joinPosts'[b][j] = "none"
  BY <1>2 DEF NotStarted
<1>5. QED
  BY <1>1, <1>2, <1>3, <1>4

LEMMA readsCircleKeeps ==
    ASSUME JoinInv, NEW c \in JoinCall, NEW k \in Join!Try,
           NEW failed \in {"none", "user", "kye", "kye_members"}, Join!readsCircle(c, k, failed)
    PROVE  JoinInv'
<1>. USE DEF JoinInv, Join!DatabaseUnchanged, Join!ChainUnchanged
<1>1. PICK status \in {"500", "refused", "open"} : Join!Answers(c, k, status)
  BY DEF Join!readsCircle
<1>2. /\ Join!PageUnchanged /\ joinPosts[c][k] # "none"
      /\ UNCHANGED <<pending_joins, grant, unprotected, contract>>
  BY DEF Join!readsCircle
<1>3. /\ joinPosts' \in [JoinCall -> [Join!Try -> PostAt]]
      /\ \A b \in JoinCall, j \in Join!Try :
            joinPosts'[b][j] = IF b = c /\ j = k THEN status ELSE joinPosts[b][j]
      /\ UNCHANGED <<joinAsked, joining>>
      /\ \A b \in JoinCall : joining[b].slot = NoSlot =>
            \A j \in Join!Try : joinPosts'[b][j] = "none"
  BY <1>1, <1>2, AnswersOnly
<1>4. JoinTypes' /\ NotStarted'
  BY <1>2, <1>3 DEF JoinTypes, NotStarted
<1>5. LockInv'
  BY <1>2, <1>3, LeavesLocksKeeps DEF LeavesLocks
<1>6. QED
  BY <1>4, <1>5

(* The select: a request that passes it without a race finds the slot       *)
(* without a holder, and without another user about to lock it.             *)
LEMMA readsLockKeeps ==
    ASSUME Join!JoinAssumption, JoinInv, NEW c \in JoinCall, NEW k \in Join!Try, NEW ok \in BOOLEAN,
           Join!readsLock(c, k, ok)
    PROVE  JoinInv'
<1>. DEFINE s == joining[c].slot
            unlocked == ~(ok /\ Join!LockedByOther(s, Join!UserOf(c)))
            status == IF unlocked THEN "unlocked" ELSE "refused"
<1>1. /\ Join!Answers(c, k, status) /\ Join!PageUnchanged /\ joinPosts[c][k] = "open"
      /\ UNCHANGED <<pending_joins, grant, contract>>
      /\ unprotected' = IF ~ok \/ (unlocked /\ Join!Racing(c)) THEN unprotected \cup {s}
                                                           ELSE unprotected
  BY DEF Join!readsLock, Join!ChainUnchanged
<1>2. /\ joinPosts' \in [JoinCall -> [Join!Try -> PostAt]]
      /\ \A b \in JoinCall, j \in Join!Try :
            joinPosts'[b][j] = IF b = c /\ j = k THEN status ELSE joinPosts[b][j]
      /\ s \in Slot /\ UNCHANGED <<joinAsked, joining>>
      /\ \A b \in JoinCall : joining[b].slot = NoSlot =>
            \A j \in Join!Try : joinPosts'[b][j] = "none"
  <2>1. status \in PostAt /\ joinPosts[c][k] # "none"
    BY <1>1
  <2>. HIDE DEF status
  <2>2. QED
    BY <1>1, <2>1, AnswersOnly DEF JoinInv
<1>3. JoinTypes' /\ NotStarted'
  <2>1. unprotected' \subseteq Slot
    BY <1>1, <1>2 DEF JoinInv, JoinTypes
  <2>2. QED
    BY <1>1, <1>2, <2>1 DEF JoinInv, JoinTypes, NotStarted
<1>4. \A b \in JoinCall, t \in Slot : Holds(b, t)' <=> Holds(b, t)
  BY <1>1, <1>2 DEF Holds
<1>5. unprotected \subseteq unprotected'
  BY <1>1
<1>6. RowNamesHolder' /\ KeptForHolder'
  BY <1>1, <1>4, <1>5 DEF JoinInv, LockInv, RowNamesHolder, KeptForHolder
<1>7. OneLocker'
  <2>1. \A b \in JoinCall, t \in Slot : AboutToLock(b, t)' =>
            AboutToLock(b, t) \/ (b = c /\ t = s /\ unlocked)
    BY <1>2 DEF AboutToLock
  <2>2. ASSUME unlocked, s \notin unprotected', NEW b \in JoinCall, Join!UserOf(b) # Join!UserOf(c)
        PROVE  ~Holds(b, s) /\ ~AboutToLock(b, s)
    <3>1. ok /\ ~Join!Racing(c) /\ s \in Slot \ unprotected
      BY <1>1, <1>2, <2>2
    <3>2. ~AboutToLock(b, s)
      BY <3>1, <2>2 DEF Join!Racing, AboutToLock
    <3>3. Join!UserOf(b) # NoUser
      BY DEF Join!JoinAssumption, Join!UserOf
    <3>4. ~Join!LockedByOther(s, Join!UserOf(c))
      BY <2>2, <3>1
    <3>5. pending_joins[s] # [user |-> Join!UserOf(b), live |-> TRUE]
      BY <2>2, <3>3, <3>4 DEF Join!LockedByOther
    <3>6. ~Holds(b, s)
      BY <3>1, <3>5 DEF JoinInv, LockInv, RowNamesHolder
    <3>7. QED
      BY <3>2, <3>6
  <2>. HIDE DEF s, unlocked
  <2>3. QED
    BY <1>4, <1>5, <2>1, <2>2 DEF JoinInv, LockInv, OneLocker
<1>8. QED
  BY <1>3, <1>6, <1>7 DEF JoinInv, LockInv
-----------------------------------------------------------------------------

(* The upsert: the lock passes to the only user who was about to take it.   *)
LEMMA upsertsLockKeeps ==
    ASSUME Join!JoinAssumption, JoinInv, NEW c \in JoinCall, NEW k \in Join!Try, NEW ok \in BOOLEAN,
           Join!upsertsLock(c, k, ok)
    PROVE  JoinInv'
<1>. DEFINE s == joining[c].slot
            given == [at |-> "live", free |-> contract.members[s] = NoUser]
            held == [user |-> Join!UserOf(c), live |-> TRUE]
<1>1. /\ Join!Answers(c, k, "200") /\ Join!PageUnchanged /\ joinPosts[c][k] = "unlocked"
      /\ grant' = [grant EXCEPT ![c] = given] /\ contract' = contract
      /\ IF ok THEN /\ pending_joins' = [pending_joins EXCEPT ![s] = held]
                    /\ unprotected' = unprotected
               ELSE unprotected' = unprotected \cup {s} /\ pending_joins' = pending_joins
  BY DEF Join!upsertsLock, Join!ChainUnchanged
<1>2. /\ joinPosts' \in [JoinCall -> [Join!Try -> PostAt]]
      /\ \A b \in JoinCall, j \in Join!Try :
            joinPosts'[b][j] = IF b = c /\ j = k THEN "200" ELSE joinPosts[b][j]
      /\ s \in Slot /\ UNCHANGED <<joinAsked, joining>>
      /\ \A b \in JoinCall : joining[b].slot = NoSlot =>
            \A j \in Join!Try : joinPosts'[b][j] = "none"
  BY <1>1, AnswersOnly DEF JoinInv
<1>3. JoinTypes'
  <2>1. Join!UserOf(c) \in User
    BY DEF Join!JoinAssumption, Join!UserOf
  <2>2. pending_joins' \in [Slot -> [user : User \cup {NoUser}, live : BOOLEAN]]
    <3>1. held \in [user : User \cup {NoUser}, live : BOOLEAN]
      BY <2>1
    <3>2. pending_joins' \in {pending_joins, [pending_joins EXCEPT ![s] = held]}
      BY <1>1
    <3>. HIDE DEF held
    <3>3. QED
      BY <3>1, <3>2 DEF JoinInv, JoinTypes
  <2>3. grant' \in [JoinCall -> Grant]
    BY <1>1 DEF JoinInv, JoinTypes
  <2>4. unprotected' \subseteq Slot
    BY <1>1, <1>2 DEF JoinInv, JoinTypes
  <2>5. QED
    BY <1>1, <1>2, <2>2, <2>3, <2>4 DEF JoinInv, JoinTypes
<1>4. NotStarted'
  <2>1. joining[c].slot # NoSlot
    BY <1>2 DEF Join!JoinAssumption
  <2>2. QED
    BY <1>1, <1>2, <2>1 DEF JoinInv, JoinTypes, NotStarted
<1>5. \A b \in JoinCall, t \in Slot : Holds(b, t)' => Holds(b, t) \/ (b = c /\ t = s)
  BY <1>1, <1>2 DEF Holds, JoinInv, JoinTypes
<1>6. \A b \in JoinCall, t \in Slot : AboutToLock(b, t)' => AboutToLock(b, t)
  BY <1>2 DEF AboutToLock
<1>7. unprotected \subseteq unprotected' /\ (~ok => s \in unprotected')
  BY <1>1
<1>8. AboutToLock(c, s)
  BY <1>1 DEF AboutToLock
<1>9. ASSUME s \notin unprotected', NEW b \in JoinCall, Join!UserOf(b) # Join!UserOf(c)
      PROVE  ~Holds(b, s) /\ ~AboutToLock(b, s)
  BY <1>2, <1>7, <1>8, <1>9 DEF JoinInv, LockInv, OneLocker
<1>10. RowNamesHolder'
  <2>. SUFFICES ASSUME NEW t \in Slot \ unprotected', NEW b \in JoinCall, Holds(b, t)'
                PROVE  pending_joins'[t] = [user |-> Join!UserOf(b), live |-> TRUE]
    BY DEF RowNamesHolder, Join!UserOf
  <2>1. CASE t = s
    <3>1. pending_joins'[s] = held
      BY <1>1, <1>2, <1>7, <2>1 DEF JoinInv, JoinTypes
    <3>2. Join!UserOf(b) = Join!UserOf(c)
      BY <1>5, <1>9, <2>1
    <3>3. QED
      BY <3>1, <3>2, <2>1
  <2>2. CASE t # s
    <3>1. Holds(b, t) /\ t \notin unprotected
      BY <1>5, <1>7, <2>2
    <3>2. pending_joins'[t] = pending_joins[t]
      BY <1>1, <2>2 DEF JoinInv, JoinTypes
    <3>3. QED
      BY <3>1, <3>2 DEF JoinInv, LockInv, RowNamesHolder
  <2>3. QED
    BY <2>1, <2>2
<1>11. OneLocker'
  <2>. SUFFICES ASSUME NEW t \in Slot \ unprotected', NEW a \in JoinCall, NEW b \in JoinCall,
                       AboutToLock(a, t)', Join!UserOf(b) # Join!UserOf(a)
                PROVE  ~Holds(b, t)' /\ ~AboutToLock(b, t)'
    BY DEF OneLocker, Join!UserOf
  <2>1. AboutToLock(a, t) /\ t \notin unprotected
    BY <1>6, <1>7
  <2>2. ~Holds(b, t) /\ ~AboutToLock(b, t)
    BY <2>1 DEF JoinInv, LockInv, OneLocker
  <2>3. ~(b = c /\ t = s)
    BY <1>8, <2>2
  <2>4. QED
    BY <1>5, <1>6, <2>2, <2>3
<1>12. KeptForHolder'
  <2>. SUFFICES ASSUME NEW t \in Slot \ unprotected', NEW b \in JoinCall,
                       Holds(b, t)', grant'[b].free
                PROVE  contract.members[t] \in {NoUser, Join!UserOf(b)}
    BY <1>1 DEF KeptForHolder, Join!UserOf
  <2>1. CASE b = c
    BY <1>1, <1>2, <2>1 DEF JoinInv, JoinTypes, Holds
  <2>2. CASE b # c
    <3>1. Holds(b, t) /\ grant[b].free /\ t \notin unprotected
      BY <1>1, <1>5, <1>7, <2>2 DEF JoinInv, JoinTypes
    <3>2. QED
      BY <3>1 DEF JoinInv, LockInv, KeptForHolder
  <2>3. QED
    BY <2>1, <2>2
<1>13. QED
  BY <1>3, <1>4, <1>10, <1>11, <1>12 DEF JoinInv, LockInv
-----------------------------------------------------------------------------

LEMMA lockExpiresKeeps == ASSUME JoinInv, NEW s \in Slot, Join!lockExpires(s) PROVE JoinInv'
<1>1. /\ UNCHANGED <<joinAsked, joining, joinPosts, contract, unprotected>>
      /\ pending_joins' = [pending_joins EXCEPT ![s].live = FALSE]
      /\ grant' = [c \in JoinCall |-> IF joining[c].slot = s /\ grant[c].at = "live"
                                  THEN [grant[c] EXCEPT !.at = "lapsed"] ELSE grant[c]]
  BY DEF Join!lockExpires, Join!PageUnchanged, Join!ChainUnchanged, Join!callVars
<1>2. JoinTypes'
  BY <1>1 DEF JoinInv, JoinTypes
<1>3. NotStarted'
  <2>1. \A c \in JoinCall : grant[c] = Join!NoGrant => grant'[c] = grant[c]
    BY <1>1 DEF Join!NoGrant
  <2>2. QED
    BY <1>1, <2>1 DEF JoinInv, NotStarted
<1>4. \A c \in JoinCall, t \in Slot : Holds(c, t)' => Holds(c, t) /\ t # s /\ grant'[c] = grant[c]
  BY <1>1 DEF JoinInv, JoinTypes, Holds
<1>5. \A c \in JoinCall, t \in Slot : AboutToLock(c, t)' <=> AboutToLock(c, t)
  BY <1>1 DEF AboutToLock
<1>6. \A t \in Slot \ {s} : pending_joins'[t] = pending_joins[t]
  BY <1>1 DEF JoinInv, JoinTypes
<1>7. RowNamesHolder' /\ KeptForHolder'
  BY <1>1, <1>4, <1>6 DEF JoinInv, LockInv, RowNamesHolder, KeptForHolder
<1>8. OneLocker'
  BY <1>1, <1>4, <1>5 DEF JoinInv, LockInv, OneLocker
<1>9. QED
  BY <1>2, <1>3, <1>7, <1>8 DEF JoinInv, LockInv

(* The message: if it takes a slot that nobody raced for, its sender holds  *)
(* the lock, and so does nobody else.                                       *)
LEMMA JoinKyeKeeps ==
    ASSUME Join!JoinAssumption, JoinInv, NEW c \in JoinCall, Join!JoinKye(c)
    PROVE  JoinInv' /\ refused' \subseteq refused \cup {c} /\ joining[c].slot # NoSlot
<1>. DEFINE s == joining[c].slot
<1>1. /\ UNCHANGED <<joinAsked, joining, joinPosts, pending_joins, grant>>
      /\ c \in joinAsked /\ refused' \subseteq refused \cup {c}
  BY DEF Join!JoinKye, Join!Execute
<1>2. s \in Slot
  BY <1>1 DEF JoinInv, JoinTypes, NotStarted
<1>3. CASE UNCHANGED <<contract, unprotected>>
  BY <1>1, <1>2, <1>3, QuietKeeps DEF JoinInv, JoinTypes, Join!JoinAssumption
<1>4. CASE /\ contract'.members = [contract.members EXCEPT ![s] = Join!UserOf(c)]
           /\ contract'.status \in {"created", "active", "cancelled"}
           /\ contract' = [status |-> contract'.status, members |-> contract'.members]
           /\ unprotected' = IF grant[c].at = "live" THEN unprotected ELSE unprotected \cup {s}
  <2>1. Join!UserOf(c) \in User
    BY DEF Join!JoinAssumption, Join!UserOf
  <2>2. contract.members \in [Slot -> User \cup {NoUser}]
    BY DEF JoinInv, JoinTypes
  <2>3. contract' \in JoinedCircle
    BY <1>4, <2>1, <2>2
  <2>4. JoinTypes'
    BY <1>1, <1>2, <1>4, <2>3 DEF JoinInv, JoinTypes
  <2>5. NotStarted'
    BY <1>1 DEF JoinInv, NotStarted
  <2>6. /\ \A b \in JoinCall, t \in Slot : Holds(b, t)' <=> Holds(b, t)
        /\ \A b \in JoinCall, t \in Slot : AboutToLock(b, t)' <=> AboutToLock(b, t)
        /\ unprotected \subseteq unprotected'
    BY <1>1, <1>4 DEF Holds, AboutToLock
  <2>7. RowNamesHolder' /\ OneLocker'
    BY <1>1, <2>6 DEF JoinInv, LockInv, RowNamesHolder, OneLocker
  <2>8. KeptForHolder'
    <3>. SUFFICES ASSUME NEW t \in Slot \ unprotected', NEW b \in JoinCall,
                         Holds(b, t), grant[b].free
                  PROVE  contract'.members[t] \in {NoUser, Join!UserOf(b)}
      BY <1>1, <2>6 DEF KeptForHolder, Join!UserOf
    <3>1. contract.members[t] \in {NoUser, Join!UserOf(b)}
      BY <2>6 DEF JoinInv, LockInv, KeptForHolder
    <3>2. CASE t # s
      BY <1>4, <2>2, <3>1, <3>2
    <3>3. CASE t = s
      <4>1. Holds(c, s) /\ s \in Slot \ unprotected
        BY <1>2, <1>4, <3>3 DEF Holds
      <4>2. Join!UserOf(b) = Join!UserOf(c)
        <5>1. [user |-> Join!UserOf(b), live |-> TRUE] = [user |-> Join!UserOf(c), live |-> TRUE]
          BY <3>3, <4>1 DEF JoinInv, LockInv, RowNamesHolder
        <5>2. QED
          BY <5>1
      <4>3. QED
        BY <1>2, <1>4, <2>2, <3>3, <4>2
    <3>4. QED
      BY <3>2, <3>3
  <2>9. QED
    BY <1>1, <1>2, <2>4, <2>5, <2>7, <2>8 DEF JoinInv, LockInv, Join!JoinAssumption
<1>5. <1>3!1 \/ <1>4!1
  BY DEF Join!JoinKye, JoinInv, JoinTypes
<1>6. QED
  BY <1>1, <1>2, <1>3, <1>4, <1>5 DEF Join!JoinAssumption
-----------------------------------------------------------------------------

(* Only a call with a slot is refused.                                      *)
RefusedStarted == refused \subseteq {c \in JoinCall : joining[c].slot # NoSlot}

LEMMA JoinStep ==
    ASSUME Join!JoinAssumption, JoinInv, RefusedStarted, Join!JoinNext
    PROVE  JoinInv' /\ RefusedStarted'
<1>1. ASSUME refused' = refused,
             \A c \in JoinCall : joining[c].slot # NoSlot => joining'[c].slot # NoSlot
      PROVE  RefusedStarted'
  BY <1>1 DEF RefusedStarted
<1>2. CASE Join!index \/ Join!EmergencyCancel
  <2>1. /\ UNCHANGED <<joinAsked, joining, joinPosts, pending_joins, grant, unprotected, refused>>
        /\ contract'.members = contract.members
    BY <1>2 DEF Join!index, Join!EmergencyCancel, Join!PageUnchanged, Join!DatabaseUnchanged,
                Join!ChainUnchanged, Join!callVars, JoinInv, JoinTypes
  <2>2. contract' \in JoinedCircle
    BY <1>2 DEF Join!index, Join!EmergencyCancel, Join!ChainUnchanged, JoinInv, JoinTypes
  <2>3. QED
    BY <1>1, <2>1, <2>2, QuietKeeps
<1>3. ASSUME NEW u \in User,
             \/ Join!onJoinClick(u) \/ Join!cancelModal(u)
             \/ \E ok \in BOOLEAN : Join!load(u, ok) \/ Join!onConnectWallet(u, ok)
             \/ \E result \in {"rejected", "unregistered", "ready"} : Join!onActivateVault(u, result)
      PROVE  JoinInv' /\ RefusedStarted'
  <2>1. JoinInv'
    BY <1>3, DialogsKeep
  <2>2. UNCHANGED <<refused, joining>>
    BY <1>3 DEF Join!onJoinClick, Join!cancelModal, Join!load, Join!onConnectWallet,
                Join!onActivateVault, Join!Stays, Join!ChainUnchanged
  <2>3. QED
    BY <1>1, <2>1, <2>2
<1>4. ASSUME NEW s \in Slot, Join!lockExpires(s) PROVE JoinInv' /\ RefusedStarted'
  BY <1>1, <1>4, lockExpiresKeeps DEF Join!lockExpires, Join!PageUnchanged, Join!ChainUnchanged
<1>5. ASSUME NEW c \in JoinCall, Join!joinKye(c) \/ Join!postReturns(c) \/ Join!connectionLost(c)
      PROVE  JoinInv' /\ RefusedStarted'
  <2>1. JoinInv'
    BY <1>5, joinKyeKeeps, postReturnsKeeps, WaitingKeeps
  <2>2. refused' = refused /\ \A b \in JoinCall : joining'[b].slot = joining[b].slot
    <3>1. CASE Join!joinKye(c)
      BY <3>1, JoiningTyped DEF Join!joinKye, Join!ChainUnchanged, JoinInv
    <3>2. CASE Join!postReturns(c) \/ Join!connectionLost(c)
      BY <3>2 DEF Join!postReturns, Join!connectionLost, Join!ChainUnchanged
    <3>3. QED
      BY <1>5, <3>1, <3>2
  <2>3. QED
    BY <1>1, <2>1, <2>2
<1>6. ASSUME NEW c \in JoinCall, Join!JoinKye(c) PROVE JoinInv' /\ RefusedStarted'
  BY <1>6, JoinKyeKeeps DEF RefusedStarted, Join!JoinKye
<1>7. ASSUME NEW c \in JoinCall, NEW s \in Slot, Join!runJoin(c, s)
      PROVE  JoinInv' /\ RefusedStarted'
  <2>1. refused' = refused /\ joining' = [joining EXCEPT ![c].slot = s] /\ s # NoSlot
    BY <1>7 DEF Join!runJoin, Join!ChainUnchanged, Join!JoinAssumption
  <2>2. \A b \in JoinCall : joining[b].slot # NoSlot => joining'[b].slot # NoSlot
    BY <2>1, JoiningTyped DEF JoinInv
  <2>3. QED
    BY <1>1, <1>7, <2>1, <2>2, runJoinKeeps
<1>8. ASSUME NEW c \in JoinCall, NEW result \in {"ok", "failed"}, Join!relayReturns(c, result)
      PROVE  JoinInv' /\ RefusedStarted'
  BY <1>1, <1>8, WaitingKeeps DEF Join!relayReturns, Join!ChainUnchanged
<1>9. ASSUME NEW c \in JoinCall, NEW k \in Join!Try, NEW ok \in BOOLEAN,
              Join!readsLock(c, k, ok) \/ Join!upsertsLock(c, k, ok)
       PROVE  JoinInv' /\ RefusedStarted'
  BY <1>1, <1>9, readsLockKeeps, upsertsLockKeeps
  DEF Join!readsLock, Join!upsertsLock, Join!PageUnchanged, Join!ChainUnchanged
<1>10. ASSUME NEW c \in JoinCall, NEW k \in Join!Try,
              NEW failed \in {"none", "user", "kye", "kye_members"}, Join!readsCircle(c, k, failed)
       PROVE  JoinInv' /\ RefusedStarted'
  BY <1>1, <1>10, readsCircleKeeps DEF Join!readsCircle, Join!PageUnchanged, Join!ChainUnchanged
<1>11. QED
  BY <1>2, <1>3, <1>4, <1>5, <1>6, <1>7, <1>8, <1>9, <1>10 DEF Join!JoinNext

-----------------------------------------------------------------------------
(* The types *)

(* Joining: a request is posted at most Attempts times.                     *)
Places == {"off", "open", "telegram", "wallet", "vault", "confirm", "post", "wait", "relay"}
VisitsTyped ==
    /\ setup \in [User -> Join!Setup]
    /\ joinPage \in [User -> [at : Places, taken : SUBSET Slot]]
    /\ kye_members \subseteq Slot
    /\ kyeStatus \in {"created", "active", "cancelled"}
    /\ refused \subseteq JoinCall
(* A user's calls are started in their order, each before its first post.   *)
TriesInv ==
    /\ \A b, c \in JoinCall :
        Join!UserOf(b) = Join!UserOf(c) /\ b[2] < c[2] /\ joining[c].slot # NoSlot
            => joining[b].slot # NoSlot
    /\ \A c \in JoinCall :
        /\ joining[c].tries <= Attempts
        /\ joining[c].slot = NoSlot => joining[c].tries = 0
        /\ Join!IsCurrent(c) /\ joinPage[Join!UserOf(c)].at = "post" => joining[c].tries < Attempts

LEMMA JoinTyped == ASSUME JoinInv, VisitsTyped, TriesInv PROVE Join!JoinTypeOK
<1>1. joining \in [JoinCall -> [slot : Slot \cup {NoSlot}, tries : 0..Attempts]]
  <2>1. ASSUME NEW c \in JoinCall
        PROVE  joining[c] \in [slot : Slot \cup {NoSlot}, tries : 0..Attempts]
    <3>1. joining[c] \in [slot : Slot \cup {NoSlot}, tries : Nat]
      BY DEF JoinInv, JoinTypes
    <3>2. PICK n \in Nat : n = joining[c].tries
      BY <3>1
    <3>3. n \in 0..Attempts
      BY <3>2, LedgerAssumption DEF TriesInv
    <3>4. QED
      BY <3>1, <3>2, <3>3
  <2>2. joining = [c \in JoinCall |-> joining[c]]
    BY DEF JoinInv, JoinTypes
  <2>3. QED
    BY <2>1, <2>2
<1>2. QED
  BY <1>1 DEF JoinInv, JoinTypes, VisitsTyped, Places, Join!JoinTypeOK

LEMMA OneCurrent ==
    ASSUME Join!JoinAssumption, NEW b \in JoinCall, NEW c \in JoinCall,
           Join!UserOf(b) = Join!UserOf(c), Join!IsCurrent(b), Join!IsCurrent(c)
    PROVE  b = c
<1>1. /\ b = <<b[1], b[2]>> /\ c = <<c[1], c[2]>> /\ b[2] \in Nat /\ c[2] \in Nat
  BY DEF Join!JoinAssumption
<1>2. b[1] = c[1]
  BY DEF Join!UserOf
<1>3. ~(b[2] > c[2]) /\ ~(c[2] > b[2])
  BY DEF Join!IsCurrent
<1>4. b[2] = c[2]
  BY <1>1, <1>3
<1>5. QED
  BY <1>1, <1>2, <1>4

(* Steps that start and post nothing, after which no user is about to post  *)
(* who was not.                                                             *)
LEMMA TriesKept ==
    ASSUME TriesInv, UNCHANGED joining,
           \A u \in User : joinPage'[u].at = "post" => joinPage[u].at = "post",
           Join!JoinAssumption
    PROVE  TriesInv'
<1>1. \A c \in JoinCall : Join!UserOf(c) \in User
  BY DEF Join!JoinAssumption, Join!UserOf
<1>2. \A c \in JoinCall : Join!IsCurrent(c)' <=> Join!IsCurrent(c)
  BY DEF Join!IsCurrent
<1>3. QED
  BY <1>1, <1>2 DEF TriesInv

LEMMA Moved ==
    ASSUME VisitsTyped, NEW u \in User, NEW at \in Places, Join!At(u, at)
    PROVE  /\ joinPage' \in [User -> [at : Places, taken : SUBSET Slot]]
           /\ joinPage'[u].at = at
           /\ \A v \in User \ {u} : joinPage'[v] = joinPage[v]
<1>. DEFINE P == [at : Places, taken : SUBSET Slot]
            new == [joinPage[u] EXCEPT !.at = at]
<1>1. joinPage \in [User -> P] /\ joinPage[u] \in P
  BY DEF VisitsTyped
<1>2. new \in P /\ new.at = at
  BY <1>1
<1>3. joinPage' = [joinPage EXCEPT ![u] = new]
  BY DEF Join!At
<1>. HIDE DEF P, new
<1>4. QED
  BY <1>1, <1>2, <1>3 DEF P

(* Where Retry leads, when the request at hand was lost or failed.          *)
LEMMA RetryTyped ==
    ASSUME Join!JoinAssumption, VisitsTyped, TriesInv, NEW c \in JoinCall, Join!IsCurrent(c),
           Join!Retry(c), UNCHANGED joining
    PROVE  /\ joinPage' \in [User -> [at : Places, taken : SUBSET Slot]]
           /\ TriesInv'
<1>. DEFINE u == Join!UserOf(c)
            to == IF joining[c].tries < Attempts THEN "post" ELSE "open"
<1>1. u \in User /\ to \in Places /\ Join!At(u, to)
  BY DEF Join!JoinAssumption, Join!UserOf, Join!Retry, Places
<1>2. /\ joinPage' \in [User -> [at : Places, taken : SUBSET Slot]]
      /\ joinPage'[u].at = to
      /\ \A v \in User \ {u} : joinPage'[v] = joinPage[v]
  <2>. HIDE DEF u, to
  <2>1. QED
    BY <1>1, Moved
<1>3. \A b \in JoinCall : Join!IsCurrent(b)' <=> Join!IsCurrent(b)
  BY DEF Join!IsCurrent
<1>4. \A b \in JoinCall : Join!IsCurrent(b) /\ Join!UserOf(b) = u => b = c
  BY OneCurrent
<1>5. \A b \in JoinCall : Join!UserOf(b) \in User
  BY DEF Join!JoinAssumption, Join!UserOf
<1>6. ASSUME NEW b \in JoinCall, Join!IsCurrent(b)', joinPage'[Join!UserOf(b)].at = "post"
      PROVE  joining[b].tries < Attempts
  <2>1. CASE Join!UserOf(b) = u
    BY <1>2, <1>3, <1>4, <1>6, <2>1
  <2>2. CASE Join!UserOf(b) # u
    BY <1>2, <1>3, <1>5, <1>6, <2>2 DEF TriesInv
  <2>3. QED
    BY <2>1, <2>2
<1>7. TriesInv'
  BY <1>6 DEF TriesInv
<1>8. QED
  BY <1>2, <1>7

LEMMA ElsewhereTyped ==
    ASSUME Join!JoinAssumption, VisitsTyped, TriesInv,
           UNCHANGED <<setup, joinPage, joining, kye_members, kyeStatus, refused>>
    PROVE  VisitsTyped' /\ TriesInv'
<1>1. TriesInv'
  BY TriesKept
<1>2. QED
  BY <1>1 DEF VisitsTyped

(* The page turns to another place, but not to post.                        *)
LEMMA TurnedTyped ==
    ASSUME Join!JoinAssumption, VisitsTyped, TriesInv, NEW u \in User, NEW at \in Places \ {"post"},
           Join!At(u, at), UNCHANGED joining
    PROVE  /\ joinPage' \in [User -> [at : Places, taken : SUBSET Slot]]
           /\ TriesInv'
<1>1. /\ joinPage' \in [User -> [at : Places, taken : SUBSET Slot]]
      /\ joinPage'[u].at = at
      /\ \A v \in User \ {u} : joinPage'[v] = joinPage[v]
  BY Moved
<1>2. TriesInv'
  BY <1>1, TriesKept
<1>3. QED
  BY <1>1, <1>2

LEMMA loadTyped ==
    ASSUME Join!JoinAssumption, VisitsTyped, TriesInv, NEW u \in User, NEW ok \in BOOLEAN,
           Join!load(u, ok)
    PROVE  VisitsTyped' /\ TriesInv'
<1>. DEFINE new == IF ok THEN [at |-> "open", taken |-> kye_members] ELSE [at |-> "off", taken |-> {}]
            P == [at : Places, taken : SUBSET Slot]
<1>1. new \in P /\ new.at # "post"
  BY DEF VisitsTyped, Places
<1>2. joinPage' = [joinPage EXCEPT ![u] = new] /\ joinPage \in [User -> P]
  BY DEF Join!load, VisitsTyped
<1>3. UNCHANGED <<setup, joining, kye_members, kyeStatus, refused>>
  BY DEF Join!load, Join!DatabaseUnchanged, Join!ChainUnchanged
<1>. HIDE DEF new, P
<1>4. joinPage' \in [User -> P]
  BY <1>1, <1>2
<1>5. \A v \in User : joinPage'[v].at = "post" => joinPage[v].at = "post"
  BY <1>1, <1>2 DEF P
<1>6. TriesInv'
  BY <1>3, <1>5, TriesKept
<1>7. QED
  BY <1>3, <1>4, <1>6 DEF VisitsTyped, P

LEMMA DialogsTyped ==
    ASSUME Join!JoinAssumption, VisitsTyped, TriesInv, NEW u \in User,
           \/ Join!onJoinClick(u) \/ Join!cancelModal(u)
           \/ \E ok \in BOOLEAN : Join!onConnectWallet(u, ok)
           \/ \E result \in {"rejected", "unregistered", "ready"} : Join!onActivateVault(u, result)
    PROVE  VisitsTyped' /\ TriesInv'
<1>1. setup[u] \in Join!Setup
  BY DEF VisitsTyped
<1>2. PICK from, to \in Places \ {"post"} : Join!Stays(u, from, to)
  <2>1. CASE Join!onJoinClick(u)
    <3>1. Join!StepModal(u) \in Places \ {"post"}
      BY <1>1 DEF Join!StepModal, Join!Setup, Places
    <3>2. QED
      BY <2>1, <3>1 DEF Join!onJoinClick, Places
  <2>2. CASE Join!cancelModal(u)
    BY <2>2 DEF Join!cancelModal, Places
  <2>3. CASE \E ok \in BOOLEAN : Join!onConnectWallet(u, ok)
    BY <2>3 DEF Join!onConnectWallet, Places
  <2>4. CASE \E result \in {"rejected", "unregistered", "ready"} : Join!onActivateVault(u, result)
    BY <2>4 DEF Join!onActivateVault, Places
  <2>5. QED
    BY <2>1, <2>2, <2>3, <2>4
<1>3. setup' = setup \/ \E new \in Join!Setup : setup' = [setup EXCEPT ![u] = new]
  BY DEF Join!onJoinClick, Join!cancelModal, Join!onConnectWallet, Join!onActivateVault, Join!Setup
<1>4. /\ Join!At(u, to)
      /\ UNCHANGED <<joining, kye_members, kyeStatus, refused>>
  BY <1>2 DEF Join!Stays, Join!DatabaseUnchanged, Join!ChainUnchanged
<1>5. joinPage' \in [User -> [at : Places, taken : SUBSET Slot]] /\ TriesInv'
  BY <1>4, TurnedTyped
<1>6. setup' \in [User -> Join!Setup]
  BY <1>3 DEF VisitsTyped
<1>7. QED
  BY <1>4, <1>5, <1>6 DEF VisitsTyped

LEMMA WaitsTyped ==
    ASSUME Join!JoinAssumption, VisitsTyped, TriesInv, NEW c \in JoinCall,
           \/ Join!postReturns(c) \/ Join!connectionLost(c)
           \/ \E result \in {"ok", "failed"} : Join!relayReturns(c, result)
    PROVE  VisitsTyped' /\ TriesInv'
<1>1. Join!UserOf(c) \in User
  BY DEF Join!JoinAssumption, Join!UserOf
<1>2. UNCHANGED <<setup, joining, kye_members, kyeStatus, refused>> /\ Join!IsCurrent(c)
  BY DEF Join!postReturns, Join!connectionLost, Join!relayReturns, Join!DatabaseUnchanged,
         Join!ChainUnchanged
<1>3. Join!Retry(c) \/ \E at \in Places \ {"post"} : Join!At(Join!UserOf(c), at)
  BY DEF Join!postReturns, Join!connectionLost, Join!relayReturns, Places
<1>4. joinPage' \in [User -> [at : Places, taken : SUBSET Slot]] /\ TriesInv'
  BY <1>1, <1>2, <1>3, RetryTyped, TurnedTyped
<1>5. QED
  BY <1>2, <1>4 DEF VisitsTyped

LEMMA joinKyeTyped ==
    ASSUME Join!JoinAssumption, JoinTypes, VisitsTyped, TriesInv, NEW c \in JoinCall, Join!joinKye(c)
    PROVE  VisitsTyped' /\ TriesInv'
<1>. DEFINE u == Join!UserOf(c)
<1>1. \A b \in JoinCall : Join!UserOf(b) \in User
  BY DEF Join!JoinAssumption, Join!UserOf
<1>2. /\ UNCHANGED <<setup, kye_members, kyeStatus, refused>>
      /\ joining' = [joining EXCEPT ![c].tries = @ + 1]
      /\ Join!IsCurrent(c) /\ joinPage[u].at = "post" /\ Join!At(u, "wait")
  BY DEF Join!joinKye, Join!DatabaseUnchanged, Join!ChainUnchanged
<1>3. \A b \in JoinCall : joining'[b].slot = joining[b].slot
  BY <1>2, JoiningTyped
<1>4. /\ joining[c].tries \in Nat /\ joining'[c].tries = joining[c].tries + 1
      /\ \A b \in JoinCall \ {c} : joining'[b] = joining[b]
  BY <1>2 DEF JoinTypes
<1>5. /\ joinPage' \in [User -> [at : Places, taken : SUBSET Slot]]
      /\ joinPage'[u].at = "wait"
      /\ \A v \in User \ {u} : joinPage'[v] = joinPage[v]
  BY <1>1, <1>2, Moved DEF Places
<1>6. joining[c].tries < Attempts /\ joining[c].slot # NoSlot
  BY <1>2 DEF TriesInv, Join!IsCurrent
<1>7. \A b \in JoinCall : Join!IsCurrent(b)' <=> Join!IsCurrent(b)
  BY <1>3 DEF Join!IsCurrent
<1>8. joining'[c].tries <= Attempts
  BY <1>4, <1>6, LedgerAssumption
<1>9. ASSUME NEW b \in JoinCall
      PROVE  /\ joining'[b].tries <= Attempts
             /\ joining'[b].slot = NoSlot => joining'[b].tries = 0
             /\ Join!IsCurrent(b)' /\ joinPage'[Join!UserOf(b)].at = "post"
                    => joining'[b].tries < Attempts
  <2>1. CASE b = c
    BY <1>3, <1>5, <1>6, <1>8, <2>1
  <2>2. CASE b # c
    BY <1>1, <1>4, <1>5, <1>7, <2>2 DEF TriesInv
  <2>3. QED
    BY <2>1, <2>2
<1>10. TriesInv'
  BY <1>3, <1>9 DEF TriesInv
<1>11. QED
  BY <1>2, <1>5, <1>10 DEF VisitsTyped

LEMMA runJoinTyped ==
    ASSUME Join!JoinAssumption, JoinTypes, VisitsTyped, TriesInv, NEW c \in JoinCall, NEW s \in Slot,
           Join!runJoin(c, s)
    PROVE  VisitsTyped' /\ TriesInv'
<1>. DEFINE u == Join!UserOf(c)
<1>1. \A b \in JoinCall : /\ Join!UserOf(b) \in User
                          /\ b = <<b[1], b[2]>> /\ b[2] \in Nat
  BY DEF Join!JoinAssumption, Join!UserOf
<1>2. /\ UNCHANGED <<setup, kye_members, kyeStatus, refused>>
      /\ joining' = [joining EXCEPT ![c].slot = s]
      /\ joining[c].slot = NoSlot /\ Join!At(u, "post")
      /\ \A b \in JoinCall : Join!UserOf(b) = u /\ b[2] < c[2] => joining[b].slot # NoSlot
  BY DEF Join!runJoin, Join!DatabaseUnchanged, Join!ChainUnchanged
<1>3. /\ joining'[c].slot = s /\ s # NoSlot
      /\ \A b \in JoinCall \ {c} : joining'[b] = joining[b]
  BY <1>2, JoiningTyped DEF Join!JoinAssumption
<1>4. joining'[c].tries = 0
  <2>1. joining'[c].tries = joining[c].tries
    BY <1>2 DEF JoinTypes
  <2>2. QED
    BY <1>2, <2>1 DEF TriesInv
<1>5. /\ joinPage' \in [User -> [at : Places, taken : SUBSET Slot]]
      /\ \A v \in User \ {u} : joinPage'[v] = joinPage[v]
  BY <1>1, <1>2, Moved DEF Places
<1>6. \A b, d \in JoinCall :
        Join!UserOf(b) = Join!UserOf(d) /\ b[2] < d[2] /\ joining'[d].slot # NoSlot
            => joining'[b].slot # NoSlot
  BY <1>2, <1>3 DEF TriesInv
<1>7. ASSUME NEW b \in JoinCall, Join!IsCurrent(b)', Join!UserOf(b) = u PROVE b = c
  <2>1. ~(c[2] > b[2]) /\ (b # c => joining[b].slot # NoSlot)
    BY <1>3, <1>7 DEF Join!IsCurrent
  <2>2. b # c => ~(c[2] < b[2])
    BY <1>2, <1>7, <2>1 DEF TriesInv
  <2>3. b[1] = c[1]
    BY <1>7 DEF Join!UserOf
  <2>4. QED
    BY <1>1, <2>1, <2>2, <2>3
<1>8. 0 < Attempts
  BY LedgerAssumption
<1>9. ASSUME NEW b \in JoinCall
      PROVE  /\ joining'[b].tries <= Attempts
             /\ joining'[b].slot = NoSlot => joining'[b].tries = 0
             /\ Join!IsCurrent(b)' /\ joinPage'[Join!UserOf(b)].at = "post"
                    => joining'[b].tries < Attempts
  <2>1. CASE b = c
    BY <1>3, <1>4, <1>8, <2>1, LedgerAssumption
  <2>2. CASE b # c /\ Join!UserOf(b) = u
    BY <1>3, <1>7, <2>2 DEF TriesInv
  <2>3. CASE b # c /\ Join!UserOf(b) # u
    <3>1. Join!IsCurrent(b)' => Join!IsCurrent(b)
      BY <1>3, <2>3 DEF Join!IsCurrent
    <3>2. QED
      BY <1>1, <1>3, <1>5, <2>3, <3>1 DEF TriesInv
  <2>4. QED
    BY <2>1, <2>2, <2>3
<1>10. TriesInv'
  BY <1>6, <1>9 DEF TriesInv
<1>11. QED
  BY <1>2, <1>5, <1>10 DEF VisitsTyped

LEMMA JoinPagesStep ==
    ASSUME Join!JoinAssumption, JoinTypes, VisitsTyped, TriesInv, Join!JoinNext
    PROVE  VisitsTyped' /\ TriesInv'
<1>1. CASE Join!index
  <2>1. UNCHANGED <<setup, joinPage, joining, refused>>
    BY <1>1 DEF Join!index, Join!PageUnchanged, Join!ChainUnchanged
  <2>2. kye_members' \subseteq Slot /\ kyeStatus' \in {"created", "active", "cancelled"}
    BY <1>1 DEF Join!index, JoinTypes, JoinedCircle
  <2>3. TriesInv'
    BY <2>1, TriesKept
  <2>4. QED
    BY <2>1, <2>2, <2>3 DEF VisitsTyped
<1>2. ASSUME NEW c \in JoinCall, Join!JoinKye(c) PROVE VisitsTyped' /\ TriesInv'
  <2>1. /\ UNCHANGED <<setup, joinPage, joining, kye_members, kyeStatus>>
        /\ refused' \subseteq refused \cup {c}
    BY <1>2 DEF Join!JoinKye
  <2>2. TriesInv'
    BY <2>1, TriesKept
  <2>3. QED
    BY <2>1, <2>2 DEF VisitsTyped
<1>3. CASE \/ Join!EmergencyCancel \/ \E s \in Slot : Join!lockExpires(s)
           \/ \E c \in JoinCall, k \in Join!Try, ok \in BOOLEAN :
                Join!readsLock(c, k, ok) \/ Join!upsertsLock(c, k, ok)
           \/ \E c \in JoinCall, k \in Join!Try, failed \in {"none", "user", "kye", "kye_members"} :
                Join!readsCircle(c, k, failed)
  <2>1. UNCHANGED <<setup, joinPage, joining, kye_members, kyeStatus, refused>>
    BY <1>3 DEF Join!EmergencyCancel, Join!lockExpires, Join!readsLock, Join!upsertsLock,
                Join!readsCircle, Join!PageUnchanged, Join!DatabaseUnchanged, Join!ChainUnchanged
  <2>2. QED
    BY <2>1, ElsewhereTyped
<1>4. QED
  BY <1>1, <1>2, <1>3, loadTyped, DialogsTyped, WaitsTyped, joinKyeTyped, runJoinTyped
  DEF Join!JoinNext

JoiningInv == JoinInv /\ RefusedStarted /\ VisitsTyped /\ TriesInv
LEMMA JoiningInvariant == Spec => []JoiningInv
<1>1. Join!JoinAssumption
  BY VisitsAssumption
<1>2. Init => VisitsTyped /\ TriesInv
  <2>1. ASSUME Init PROVE VisitsTyped /\ TriesInv
    <3>1. \A c \in JoinCall : joining[c].slot = NoSlot /\ joining[c].tries = 0
      BY <2>1 DEF Init, Join!JoinInit
    <3>2. TriesInv
      BY <3>1, LedgerAssumption DEF TriesInv, Join!IsCurrent
    <3>3. VisitsTyped
      BY <1>1, <2>1 DEF Init, Join!JoinInit, Join!JoinAssumption, VisitsTyped, Places
    <3>4. QED
      BY <3>2, <3>3
  <2>2. QED
    BY <2>1
<1>3. Init => JoiningInv
  BY <1>1, <1>2, JoinInitially DEF Init, Join!JoinInit, RefusedStarted, JoiningInv
<1>4. ASSUME JoiningInv, [Next]_vars PROVE JoiningInv'
  <2>1. CASE Join!JoinNext
    BY <1>1, <1>4, <2>1, JoinStep, JoinPagesStep DEF JoiningInv, JoinInv
  <2>2. CASE UNCHANGED joinVars
    <3>1. JoinInv' /\ RefusedStarted'
      BY <1>4, <2>2, QuietKeeps DEF joinVars, JoinInv, JoinTypes, RefusedStarted, JoiningInv
    <3>2. VisitsTyped' /\ TriesInv'
      BY <1>1, <1>4, <2>2, ElsewhereTyped DEF joinVars, JoiningInv
    <3>3. QED
      BY <3>1, <3>2 DEF JoiningInv
  <2>3. QED
    BY <1>4, <2>1, <2>2
    DEF Next, Activates, UsesWallet, UsesCircle, CreatesCircle, JoinsCircle, TalksToBot, vars
<1>5. QED
  BY <1>3, <1>4, PTL DEF Spec

(* A user who was given a free slot and whose lock has not lapsed loses it  *)
(* to nobody, unless another request met his between the select and the     *)
(* upsert, a query failed, or somebody joined without a live lock: with any *)
(* number of users, slots, calls and posts (kyes.ts:372-397).               *)
THEOREM LockTheorem == Spec => []LockHolderGetsSlot
<1>1. JoiningInv => LockHolderGetsSlot
  BY JoinInvImplies DEF JoiningInv, RefusedStarted
<1>2. QED
  BY <1>1, JoiningInvariant, PTL

-----------------------------------------------------------------------------
(* The circle of the join page is the abstract one.                         *)

(* The finite sets of the instance are those of the library.                *)
LEMMA JoinSizes ==
    ASSUME NEW S
    PROVE  /\ Join!IsFiniteSet(S) <=> IsFiniteSet(S)
           /\ Join!Cardinality(S) = Cardinality(S)
<1>1. Join!IsFiniteSet(S) <=> IsFiniteSet(S)
  BY DEF Join!IsFiniteSet, IsFiniteSet
<1>2. Join!Cardinality(S) = Cardinality(S)
  BY DEF Join!Cardinality, Cardinality
<1>3. QED
  BY <1>1, <1>2

LEMMA SeatsStart ==
    ASSUME Join!JoinAssumption, Join!JoinInit
    PROVE  Join!Seats!CircleInit
<1>1. contract = [status |-> "created", members |-> [s \in Slot |-> NoUser]]
  BY DEF Join!JoinInit
<1>2. {contract.members[s] : s \in Slot} \ {NoUser} = {}
  BY <1>1
<1>3. {s \in Slot : contract.members[s] = NoUser} = Slot
  BY <1>1
<1>4. QED
  BY <1>1, <1>2, <1>3 DEF Join!Seats!CircleInit

LEMMA SeatTaken ==
    ASSUME Join!JoinAssumption, JoinTypes, NotStarted, NEW c \in JoinCall, Join!JoinKye(c)
    PROVE  Join!Seats!CircleNext \/ contract' = contract
<1>. DEFINE s == joining[c].slot
            u == Join!UserOf(c)
            m == [contract.members EXCEPT ![s] = u]
<1>1. s \in Slot /\ u \in User /\ u # NoUser
  BY DEF Join!JoinKye, Join!Execute, NotStarted, JoinTypes, Join!JoinAssumption, Join!UserOf
<1>2. SUFFICES ASSUME contract' # contract
               PROVE  Join!Seats!Join(u)
  BY <1>1 DEF Join!Seats!CircleNext
<1>3. /\ contract.status = "created" /\ contract.members[s] = NoUser
      /\ \A t \in Slot : contract.members[t] # u
      /\ contract' = [status |-> IF \A t \in Slot : m[t] # NoUser THEN "active" ELSE "created",
                      members |-> m]
  BY <1>2 DEF Join!JoinKye
<1>4. contract.members \in [Slot -> User \cup {NoUser}]
  BY DEF JoinTypes, JoinedCircle
<1>5. \A t \in Slot : m[t] = IF t = s THEN u ELSE contract.members[t]
  BY <1>4
<1>6. /\ u \notin {contract.members[t] : t \in Slot} \ {NoUser}
      /\ {contract'.members[t] : t \in Slot} \ {NoUser}
            = ({contract.members[t] : t \in Slot} \ {NoUser}) \cup {u}
  BY <1>1, <1>3, <1>5
<1>. DEFINE F == {t \in Slot : contract.members[t] = NoUser}
<1>7. /\ {t \in Slot : contract'.members[t] = NoUser} = F \ {s}
      /\ s \in F
  BY <1>1, <1>3, <1>5
<1>8. IsFiniteSet(F)
  <2>1. IsFiniteSet(Slot)
    BY JoinSizes DEF Join!JoinAssumption
  <2>2. QED  BY <2>1, FS_Subset
<1>9. Cardinality(F \ {s}) = Cardinality(F) - 1 /\ Cardinality(F) \in Nat
  <2>. HIDE DEF F, s
  <2>1. QED  BY <1>7, <1>8, FS_RemoveElement, FS_CardinalityType
<1>10. (\A t \in Slot : m[t] # NoUser) <=> Cardinality(F \ {s}) = 0
  <2>1. (\A t \in Slot : m[t] # NoUser) <=> F \ {s} = {}
    BY <1>1, <1>5
  <2>2. F \ {s} = {} <=> Cardinality(F \ {s}) = 0
    <3>1. IsFiniteSet(F \ {s})
      BY <1>8, FS_Subset
    <3>2. QED  BY <3>1, FS_EmptySet
  <2>3. QED  BY <2>1, <2>2
<1>11. /\ contract.status = "created"
       /\ contract'.status = IF Cardinality(F \ {s}) = 0 THEN "active" ELSE "created"
  <2>1. contract'.status = IF \A t \in Slot : m[t] # NoUser THEN "active" ELSE "created"
    BY <1>3
  <2>2. QED  BY <1>3, <1>10, <2>1
<1>12. /\ Join!Cardinality({t \in Slot : contract'.members[t] = NoUser}) = Cardinality(F \ {s})
       /\ Join!Cardinality(F) = Cardinality(F)
  BY <1>7, JoinSizes
<1>13. QED
  BY <1>6, <1>9, <1>11, <1>12 DEF Join!Seats!Join

(* Of what happens at the join page only these two reach the contract.      *)
LEMMA SeatsStep ==
    ASSUME Join!JoinAssumption, JoinTypes, NotStarted, Join!JoinNext
    PROVE  Join!Seats!CircleNext \/ contract' = contract
<1>1. CASE Join!EmergencyCancel
  <2>1. /\ contract.status \in {"created", "active"} /\ contract'.status = "cancelled"
        /\ contract'.members = contract.members
    BY <1>1 DEF Join!EmergencyCancel, JoinTypes, JoinedCircle
  <2>2. Join!Seats!CallOff
    BY <2>1 DEF Join!Seats!CallOff
  <2>3. QED  BY <2>2 DEF Join!Seats!CircleNext
<1>2. CASE \E c \in JoinCall : Join!JoinKye(c)
  BY <1>2, SeatTaken
<1>3. QED
  BY <1>1, <1>2
  DEF Join!JoinNext, Join!index, Join!onJoinClick, Join!cancelModal, Join!load,
      Join!onConnectWallet, Join!onActivateVault, Join!lockExpires, Join!joinKye,
      Join!postReturns, Join!connectionLost, Join!runJoin, Join!relayReturns,
      Join!readsLock, Join!upsertsLock, Join!readsCircle, Join!Stays,
      Join!PageUnchanged, Join!ChainUnchanged

(* The contract that the join page, the reservation and the relayed message *)
(* act on is the circle that KyeContract implements (CircleTheorem).        *)
THEOREM SeatsTheorem == Spec => SeatsOfOneCircle
<1>1. Init => Join!Seats!CircleInit
  BY SeatsStart, VisitsAssumption DEF Init
<1>2. ASSUME JoiningInv, [Next]_vars
      PROVE  Join!Seats!CircleNext \/ contract' = contract
  <2>1. CASE Join!JoinNext
    BY <1>2, <2>1, SeatsStep, VisitsAssumption DEF JoiningInv, JoinInv
  <2>2. CASE UNCHANGED joinVars
    BY <2>2 DEF joinVars
  <2>3. QED
    BY <1>2, <2>1, <2>2
    DEF Next, Activates, UsesWallet, UsesCircle, CreatesCircle, JoinsCircle, TalksToBot, vars
<1>3. contract' = contract => UNCHANGED Join!Seats!circleVars
  BY DEF Join!Seats!circleVars
<1>4. JoiningInv /\ [Next]_vars => [Join!Seats!CircleNext]_(Join!Seats!circleVars)
  BY <1>2, <1>3
<1>5. QED
  BY <1>1, <1>4, JoiningInvariant, PTL
  DEF Spec, SeatsOfOneCircle, Join!SeatsOfOneCircle, Join!Seats!CircleSpec
=============================================================================
