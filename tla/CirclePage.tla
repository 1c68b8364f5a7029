----------------------------- MODULE CirclePage -----------------------------
(***************************************************************************)
(* The detail page of a circle (app/kye/[address]/page.tsx) of a member    *)
(* who also organizes the circle, GET /kyes/:id behind it, the list of     *)
(* circles that are being deleted, and what the relayed messages do to the *)
(* vault and the circle.                                                   *)
(*                                                                         *)
(* The page is loaded when it opens and again when the language changes:   *)
(* nothing else refreshes it.  Its round is the first of `rounds' that is  *)
(* not executed, and 1 where there is none; no part of the repository      *)
(* writes such a row, so rowRound is given.  The vault's balance is read   *)
(* when the page opens.                                                    *)
(***************************************************************************)
EXTENDS Faults, RelayedCall, Integers, FiniteSets

CONSTANTS
    memberCount,
    VaultBalance,   \* what the vault can pay at first, in contributions
    PendingRow      \* what rowRound may be

Round == 1..memberCount
NoRow == 0

CircleAssumption ==
    /\ memberCount \in Nat \ {0} /\ VaultBalance \in Nat
    /\ PendingRow \subseteq {NoRow} \cup Round
    /\ IsFiniteSet(Call)

VARIABLES
    circle,         \* on chain: status, currentRound, paid (rounds of this member)
    balance,        \* of the vault, in contributions
    toCircle,       \* relayed messages that left the vault
    bounced,        \* contributions on their way back
    row,            \* the kyes row's status as the indexer last set it
    rowRound,       \* the round of the first pending `rounds' row
    contribCache,   \* round -> none, or the answer readPaidSlots keeps
    kye,            \* the page: loaded, status, currentRound, paid, pastGrace
    submitted,      \* the page waits for its contribution (contributing, submittedAt)
    vaultState,     \* vault.state.balance as the page read it
    submittedVaultBalance,  \* what vaultState was when the contribution was sent; while
                    \* there was none, the page's vaultState
    outcome,        \* the banner: none, success or failed
    pending,        \* what the organizer's buttons wait for: execute, cancel
    what,           \* call -> contribute, execute or cancel, and its round
    mine,           \* calls of the page that is open
    deletingSet     \* the circle is in localStorage's list of deletions

circleVars == <<circle, balance, toCircle, bounced, row, rowRound, contribCache, kye,
                submitted, vaultState, submittedVaultBalance, outcome, pending, what, mine,
                deletingSet>>

NotLoaded == [loaded |-> FALSE, status |-> "created", currentRound |-> 1, paid |-> FALSE,
              pastGrace |-> FALSE]

CircleInit ==
    /\ CallInit
    /\ circle \in [status : {"created", "active"}, currentRound : {1}, paid : {{}}]
    /\ balance = VaultBalance
    /\ toCircle = {} /\ bounced = {}
    /\ row = circle.status
    /\ rowRound \in PendingRow
    /\ contribCache = [r \in Round |-> "none"]
    /\ kye = NotLoaded
    /\ vaultState = VaultBalance /\ submittedVaultBalance = VaultBalance
    /\ submitted = FALSE /\ outcome = "none" /\ pending = {} /\ mine = {}
    /\ what = [c \in Call |-> [message |-> "none", round |-> 1]]
    /\ deletingSet = FALSE

PageUnchanged == UNCHANGED <<kye, submitted, vaultState, submittedVaultBalance, outcome,
                             pending, mine, deletingSet>>
ServerUnchanged == UNCHANGED <<row, rowRound, contribCache>>
ChainUnchanged == UNCHANGED <<circle, balance, toCircle, bounced>>

-----------------------------------------------------------------------------
(* GET /kyes/:id *)

(* hasContributed of the round the page is told, kept for five seconds; a   *)
(* lookup that fails says "not paid", and is kept as well.                  *)
readPaidSlots(r, ok) ==
    IF contribCache[r] = "none" THEN (IF ok /\ r \in circle.paid THEN "paid" ELSE "pending")
                                ELSE contribCache[r]

load(ok, late) ==
    LET r == IF rowRound = NoRow THEN 1 ELSE rowRound
        slot == IF row = "active" THEN readPaidSlots(r, ok) ELSE "pending" IN
    /\ ~ok => row = "active" /\ contribCache[r] = "none"       \* there is a lookup
    /\ late => rowRound # NoRow
    /\ contribCache' = IF row = "active" THEN [contribCache EXCEPT ![r] = slot]
                                         ELSE contribCache
    \* nextRoundAt is null without a row: the grace is over (late: by the clock)
    /\ kye' = [loaded |-> TRUE, status |-> row, currentRound |-> r, paid |-> slot = "paid",
               pastGrace |-> rowRound = NoRow \/ late]
    /\ FaultUnless(ok)

openPage(ok, late) ==
    /\ ~kye.loaded
    /\ load(ok, late)
    /\ vaultState' = balance /\ submittedVaultBalance' = balance
    /\ UNCHANGED <<callVars, row, rowRound, submitted, outcome, pending, what, mine,
                   deletingSet>>
    /\ ChainUnchanged
closes == kye' = NotLoaded /\ submitted' = FALSE /\ outcome' = "none"
            /\ pending' = {} /\ mine' = {}
closePage ==
    /\ kye.loaded
    /\ closes
    /\ UNCHANGED <<callVars, vaultState, submittedVaultBalance, what, deletingSet, faults>>
    /\ ServerUnchanged /\ ChainUnchanged
changeLanguage(ok, late) ==
    /\ kye.loaded
    /\ load(ok, late)
    /\ UNCHANGED <<callVars, row, rowRound, submitted, vaultState, submittedVaultBalance, outcome,
                   pending, what, mine, deletingSet>>
    /\ ChainUnchanged
cacheExpires(r) ==
    /\ contribCache[r] # "none"
    /\ contribCache' = [contribCache EXCEPT ![r] = "none"]
    /\ UNCHANGED <<callVars, row, rowRound, what, faults>>
    /\ PageUnchanged /\ ChainUnchanged

-----------------------------------------------------------------------------
(* The buttons *)

Relay(c, message) ==
    /\ kye.loaded
    /\ c = 1 \/ c - 1 \in asked                     \* calls in their order
    /\ signAndRelay(c)
    /\ what' = [what EXCEPT ![c] = [message |-> message, round |-> kye.currentRound]]
    /\ mine' = mine \cup {c}
    /\ UNCHANGED <<kye, vaultState, deletingSet, faults>> /\ ServerUnchanged /\ ChainUnchanged

PayOffered == kye.status = "active" /\ ~kye.paid /\ ~submitted
contribute(c) ==
    /\ PayOffered /\ vaultState >= 1
    /\ Relay(c, "contribute")
    /\ submitted' = TRUE /\ submittedVaultBalance' = vaultState
    /\ outcome' = "none"
    /\ UNCHANGED pending
contributeTooPoor ==
    /\ kye.loaded /\ PayOffered /\ vaultState < 1
    /\ outcome' = "failed"
    /\ UNCHANGED <<callVars, kye, submitted, vaultState, submittedVaultBalance, pending, what,
                   mine, deletingSet, faults>>
    /\ ServerUnchanged /\ ChainUnchanged

(* The indexer's word, or ninety seconds without it: then the lock is       *)
(* released in any case.  The banner goes by whether the balance fell since *)
(* the contribution was sent, as far as the page knows: nothing refreshes   *)
(* vaultState while the page is open.                                       *)
Release(banner) ==
    /\ kye.loaded /\ submitted
    /\ submitted' = FALSE
    /\ outcome' = banner
    /\ UNCHANGED <<callVars, kye, vaultState, submittedVaultBalance, pending, mine, what,
                   deletingSet, faults>>
    /\ ServerUnchanged /\ ChainUnchanged
paidWatcher == kye.paid /\ Release("success")
Fwatchdog ==                                \* it did not rise
    Release(IF vaultState <= submittedVaultBalance THEN "success" ELSE "failed")
watchdog == Release(IF vaultState < submittedVaultBalance THEN "success" ELSE "failed")

(* The organizer's panel: a circle that has not started can be deleted, an  *)
(* active one once the grace is over and somebody has not paid.             *)
canDelete == kye.status = "created"
canExecute == kye.status = "active" /\ kye.pastGrace
canCancel == canExecute                     \* another member may be the defaulter
executeRound(c) ==
    /\ canExecute /\ "execute" \notin pending
    /\ Relay(c, "execute")
    /\ pending' = pending \cup {"execute"}
    /\ UNCHANGED <<submitted, submittedVaultBalance, outcome>>
deleteCircle(c) ==
    /\ canDelete \/ canCancel
    /\ "cancel" \notin pending
    /\ Relay(c, "cancel")
    /\ pending' = pending \cup {"cancel"}
    /\ UNCHANGED <<submitted, submittedVaultBalance, outcome>>

(* signAndRelay returns, to the page that called if it is still open: a     *)
(* refused contribution releases the lock, also that of a later one.  An    *)
(* accepted deletion is marked, and leaves whatever page is open.           *)
contributeReturns(c, result) ==
    /\ IF c \in mine /\ result = "failed"
       THEN submitted' = FALSE /\ outcome' = "failed"
       ELSE UNCHANGED <<submitted, outcome>>
    /\ mine' = mine \ {c}
    /\ UNCHANGED <<kye, pending, deletingSet>>
executeReturns(c) ==
    /\ pending' = IF c \in mine THEN pending \ {"execute"} ELSE pending
    /\ mine' = mine \ {c}
    /\ UNCHANGED <<kye, submitted, outcome, deletingSet>>
deleteReturns(c, result) ==
    IF result = "ok" THEN deletingSet' = TRUE /\ closes
    ELSE /\ pending' = IF c \in mine THEN pending \ {"cancel"} ELSE pending
         /\ mine' = mine \ {c}
         /\ UNCHANGED <<kye, submitted, outcome, deletingSet>>
relayReturns(c, result) ==
    /\ Answer(c, result)
    /\ CASE what[c].message = "contribute" -> contributeReturns(c, result)
         [] what[c].message = "execute" -> executeReturns(c)
         [] what[c].message = "cancel" -> deleteReturns(c, result)
    /\ UNCHANGED <<vaultState, submittedVaultBalance, what, faults>>
    /\ ServerUnchanged /\ ChainUnchanged

(* The mark of a deletion goes after five minutes.                          *)
deletionExpires ==
    /\ deletingSet /\ deletingSet' = FALSE
    /\ UNCHANGED <<callVars, kye, submitted, vaultState, submittedVaultBalance, outcome, pending,
                   mine, what, faults>>
    /\ ServerUnchanged /\ ChainUnchanged

-----------------------------------------------------------------------------
(* The chain *)

vaultExecutes(c) ==
    /\ what[c].message = "contribute" => balance >= 1
    /\ Execute(c)
    /\ toCircle' = toCircle \cup {c}
    /\ balance' = IF what[c].message = "contribute" THEN balance - 1 ELSE balance
    /\ UNCHANGED <<circle, bounced, what, faults>> /\ PageUnchanged /\ ServerUnchanged

FAcceptable(c) ==                           \* a second contribution is not refused
    circle.status = "active" /\ what[c].round = circle.currentRound
Acceptable(c) ==
    /\ circle.status = "active"
    /\ what[c].round = circle.currentRound
    /\ what[c].round \notin circle.paid
FNextRound == IF circle.currentRound > memberCount       \* one round too many
              THEN [circle EXCEPT !.status = "completed"]
              ELSE [circle EXCEPT !.currentRound = @ + 1]
NextRound == IF circle.currentRound = memberCount
             THEN [circle EXCEPT !.status = "completed"]
             ELSE [circle EXCEPT !.currentRound = @ + 1]
circleReceives(c, due) ==
    /\ c \in toCircle
    /\ due => what[c].message = "execute" /\ circle.status = "active"
    /\ toCircle' = toCircle \ {c}
    /\ \/ /\ what[c].message = "contribute"
          /\ IF Acceptable(c)
             THEN circle' = [circle EXCEPT !.paid = @ \cup {what[c].round}] /\ UNCHANGED bounced
             ELSE bounced' = bounced \cup {c} /\ UNCHANGED circle
       \/ /\ what[c].message = "execute"
          /\ circle' = IF due THEN NextRound ELSE circle
          /\ UNCHANGED bounced
       \/ /\ what[c].message = "cancel"
          /\ circle' = IF circle.status \in {"created", "active"}
                       THEN [circle EXCEPT !.status = "cancelled"] ELSE circle
          /\ UNCHANGED bounced
    /\ UNCHANGED <<callVars, balance, what, faults>> /\ PageUnchanged /\ ServerUnchanged
bounceReturns(c) ==
    /\ c \in bounced
    /\ bounced' = bounced \ {c}
    /\ balance' = balance + 1
    /\ UNCHANGED <<callVars, circle, toCircle, what, faults>>
    /\ PageUnchanged /\ ServerUnchanged
(* The last member joins; anybody executes a round that is due.             *)
othersStart ==
    /\ circle.status = "created"
    /\ circle' = [circle EXCEPT !.status = "active"]
    /\ UNCHANGED <<callVars, balance, toCircle, bounced, what, faults>>
    /\ PageUnchanged /\ ServerUnchanged
othersExecuteRound ==
    /\ circle.status = "active"
    /\ circle' = NextRound
    /\ UNCHANGED <<callVars, balance, toCircle, bounced, what, faults>>
    /\ PageUnchanged /\ ServerUnchanged
index ==
    /\ row # circle.status /\ row' = circle.status
    /\ UNCHANGED <<callVars, rowRound, contribCache, what, faults>>
    /\ PageUnchanged /\ ChainUnchanged

CircleNext ==
    \/ closePage \/ contributeTooPoor \/ paidWatcher \/ watchdog
    \/ deletionExpires \/ othersStart \/ othersExecuteRound \/ index
    \/ \E ok, late \in BOOLEAN : openPage(ok, late) \/ changeLanguage(ok, late)
    \/ \E r \in Round : cacheExpires(r)
    \/ \E c \in Call :
        \/ contribute(c) \/ executeRound(c) \/ vaultExecutes(c) \/ bounceReturns(c)
        \/ deleteCircle(c) \/ \E due \in BOOLEAN : circleReceives(c, due)
        \/ \E result \in {"ok", "failed"} : relayReturns(c, result)

-----------------------------------------------------------------------------

CircleTypeOK ==
    /\ circle \in [status : {"created", "active", "completed", "cancelled"}, currentRound : Round,
                   paid : SUBSET Round]
    /\ balance \in 0..VaultBalance
    /\ toCircle \subseteq Call /\ bounced \subseteq Call
    /\ row \in {"created", "active", "completed", "cancelled"}
    /\ rowRound \in PendingRow
    /\ contribCache \in [Round -> {"none", "paid", "pending"}]
    /\ kye.currentRound \in Round
    /\ vaultState \in 0..VaultBalance /\ submittedVaultBalance \in 0..VaultBalance
    /\ outcome \in {"none", "success", "failed"}
    /\ pending \subseteq {"execute", "cancel"} /\ mine \subseteq Call

(* However often the button is pressed, released too early, pressed on a    *)
(* stale page or for a round that is over, the vault pays one contribution  *)
(* for every round the circle has recorded, and every other one comes back  *)
(* (page.tsx:74-81, KyeContract.tact:190-199).                              *)
ContributionCharged ==
    VaultBalance = balance + Cardinality(circle.paid) + Cardinality(bounced)
                    + Cardinality({c \in toCircle : what[c].message = "contribute"})

(* The page says that a contribution has settled only when the circle has   *)
(* recorded one for the round the page shows, also when answers are lost,   *)
(* cached or late (page.tsx:91-100, kyes.ts:17-54).                         *)
SuccessIsSettled ==
    kye.loaded /\ outcome = "success" => kye.currentRound \in circle.paid
=============================================================================
