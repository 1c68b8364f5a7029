---------------------------- MODULE CircleCreation ----------------------------
(***************************************************************************)
(* Creating a circle: the create page (app/create/page.tsx), POST /kyes,   *)
(* and KyeFactory, which deploys the circle.  A circle's address is a      *)
(* function of its organizer's vault, its parameters and its salt.  The    *)
(* backend computes it from the vault on record and writes the circle's    *)
(* row; the factory computes it from the vault that sends the message.     *)
(***************************************************************************)
EXTENDS Faults, RelayedCall, Integers, FiniteSets

CONSTANTS
    own, other,     \* the vault of the connected wallet, and one of another wallet
    NoVault,
    Params,         \* what users enter in the form, see Entered
    Salt,           \* salts the page may draw, zero among them
    Attempts,       \* posts of one request
    MaxNextSalt     \* bound on the factory's counter

(* What the form lets through: the slider, the choice of weeks (0 is the    *)
(* test interval) and of a policy keep to their ranges; the two rates, in   *)
(* basis points, may be typed past their sliders, and the button is off     *)
(* without a contribution.                                                  *)
roundIntervalSec(weeks) == IF weeks = 0 THEN 60 ELSE weeks * 7 * 24 * 3600
Entered == [N : 2..30, contribution : Nat \ {0}, feeBps : Int, alphaBps : Int,
            interval : {roundIntervalSec(weeks) : weeks \in 0..4}, defaultPolicy : 0..2]

CreateAssumption ==
    /\ Call \subseteq Nat \ {0}   \* submissions, in their order
    /\ Params # {} /\ Params \subseteq Entered /\ Salt \subseteq Nat
    /\ Attempts \in Nat \ {0}

MIN_ROUND_INTERVAL_SEC == 60
MAX_ROUND_INTERVAL_SEC == 90 * 86400
ALLOWED_INTERVALS == {60} \cup {w * 7 * 86400 : w \in 1..4}

Try == 1..Attempts
Address == {own, other} \X Params \X Nat

VARIABLES
    vaultHook,      \* vaultAddress is derived, ready
    vault_address,  \* of the users row
    submit,         \* the submission: where it is, its attempt, its vault
    draft,          \* call -> params, salt, and the predicted address
    createPosts,    \* attempt -> where the request is, the vault it read
    kyes,           \* addresses that have a row
    nextSalt,       \* of the factory
    circles,        \* circles on chain
    created         \* call -> the circle the factory deployed for it

createVars == <<vaultHook, vault_address, submit, draft, createPosts, kyes, nextSalt,
                circles, created>>

NoAddress == <<>>
NoPosts == [k \in Try |-> [at |-> "none", vault |-> NoVault]]

CreateInit ==
    /\ CallInit
    /\ vaultHook \in [derived : BOOLEAN, ready : BOOLEAN]
    /\ vaultHook.ready => vaultHook.derived
    /\ vault_address \in {NoVault, own, other}
    /\ submit = [at |-> "form", tries |-> 0, call |-> 0, vault |-> NoVault]
    /\ draft = [c \in Call |-> [params |-> CHOOSE p \in Params : TRUE, salt |-> 0,
                                predicted |-> NoAddress]]
    /\ createPosts = NoPosts
    /\ kyes = {} /\ circles = {}
    /\ nextSalt = 1
    /\ created = [c \in Call |-> NoAddress]

-----------------------------------------------------------------------------
(* The page *)

ChainUnchanged == UNCHANGED <<nextSalt, circles, created>>
submits(c, p, salt) ==
    /\ submit.at = "form"
    /\ c = submit.call + 1
    /\ draft' = [draft EXCEPT ![c].params = p, ![c].salt = salt]
    /\ submit' = [at |-> IF vaultHook.ready THEN "post" ELSE "activate", tries |-> 0, call |-> c,
                  vault |-> IF vaultHook.derived THEN own ELSE NoVault]
    /\ createPosts' = NoPosts
    /\ UNCHANGED <<callVars, vaultHook, vault_address, kyes, faults>> /\ ChainUnchanged

Fails == submit' = [submit EXCEPT !.at = "form"]
(* activate(): rejected by the wallet or refused by the backend, or the     *)
(* vault is registered; the page goes on with the address it had before.    *)
activates(ok) ==
    /\ submit.at = "activate"
    /\ IF ok THEN /\ vaultHook' = [derived |-> TRUE, ready |-> TRUE]
                  /\ vault_address' = own
             ELSE UNCHANGED <<vaultHook, vault_address>>
    /\ IF ok /\ submit.vault # NoVault THEN submit' = [submit EXCEPT !.at = "post"] ELSE Fails
    /\ UNCHANGED <<callVars, draft, createPosts, kyes, faults>> /\ ChainUnchanged

createKye ==                                \* api.createKye posts the request
    /\ submit.at = "post"
    /\ submit' = [submit EXCEPT !.at = "wait", !.tries = @ + 1]
    /\ createPosts' = [createPosts EXCEPT ![submit.tries + 1].at = "arrived"]
    /\ UNCHANGED <<callVars, vaultHook, vault_address, draft, kyes, faults>> /\ ChainUnchanged
postReturns ==
    LET status == createPosts[submit.tries].at IN
    /\ submit.at = "wait"
    /\ \/ /\ status = "200"
          /\ signAndRelay(submit.call)
          /\ submit' = [submit EXCEPT !.at = "relay"]
       \/ /\ \/ status = "400" \/ (status = "500" /\ submit.tries = Attempts)
          /\ Fails
          /\ UNCHANGED callVars
       \/ /\ status = "500" /\ submit.tries < Attempts
          /\ submit' = [submit EXCEPT !.at = "post"]
          /\ UNCHANGED callVars
    /\ UNCHANGED <<vaultHook, vault_address, draft, createPosts, kyes, faults>> /\ ChainUnchanged
connectionLost ==
    /\ submit.at = "wait"
    /\ Fault
    /\ IF submit.tries < Attempts THEN submit' = [submit EXCEPT !.at = "post"] ELSE Fails
    /\ UNCHANGED <<callVars, vaultHook, vault_address, draft, createPosts, kyes>> /\ ChainUnchanged
relayReturns(result) ==
    /\ submit.at = "relay"
    /\ Answer(submit.call, result)
    /\ submit' = [submit EXCEPT !.at = IF result = "ok" THEN "invite" ELSE "form"]
    /\ UNCHANGED <<vaultHook, vault_address, draft, createPosts, kyes, faults>> /\ ChainUnchanged
comesBack ==                                \* the page is opened again
    /\ submit.at = "invite"
    /\ Fails
    /\ UNCHANGED <<callVars, vaultHook, vault_address, draft, createPosts, kyes, faults>>
    /\ ChainUnchanged
registersOther ==                           \* the user's other wallet, elsewhere
    /\ vault_address # other
    /\ vault_address' = other
    /\ UNCHANGED <<callVars, vaultHook, submit, draft, createPosts, kyes, faults>> /\ ChainUnchanged

-----------------------------------------------------------------------------
(* POST /kyes *)

BpsFrom(least) == least..10000              \* basis points of the whole
FCreateKyeBody(p) ==                        \* the interval menu only
    p.interval \in ALLOWED_INTERVALS
CreateKyeBody(p) ==
    /\ p.N \in 2..30 /\ p.contribution > 0
    /\ p.interval \in ALLOWED_INTERVALS
    /\ p.feeBps \in BpsFrom(200)
    /\ p.alphaBps \in BpsFrom(0)
    /\ p.defaultPolicy \in 0..2

Answers(k, status) ==
    createPosts' = [createPosts EXCEPT ![k] = [at |-> status, vault |-> NoVault]]
readsUser(k, ok) ==
    /\ createPosts[k].at = "arrived"
    /\ FaultUnless(ok)
    /\ CASE ~CreateKyeBody(draft[submit.call].params) -> Answers(k, "400")
         [] CreateKyeBody(draft[submit.call].params) /\ ~ok -> Answers(k, "500")
         [] CreateKyeBody(draft[submit.call].params) /\ ok ->
                IF vault_address = NoVault THEN Answers(k, "400")
                ELSE createPosts' = [createPosts EXCEPT ![k] = [at |-> "read",
                                                                vault |-> vault_address]]
    /\ UNCHANGED <<callVars, vaultHook, vault_address, submit, draft, kyes>> /\ ChainUnchanged
predictAddress(vault, c) == <<vault, draft[c].params, draft[c].salt>>
upsertsRow(k, ok) ==
    LET predicted == predictAddress(createPosts[k].vault, submit.call) IN
    /\ createPosts[k].at = "read"
    /\ FaultUnless(ok)
    /\ IF ok THEN /\ kyes' = kyes \cup {predicted}
                  /\ draft' = [draft EXCEPT ![submit.call].predicted = predicted]
             ELSE UNCHANGED <<kyes, draft>>
    /\ Answers(k, IF ok THEN "200" ELSE "500")
    /\ UNCHANGED <<callVars, vaultHook, vault_address, submit>> /\ ChainUnchanged

-----------------------------------------------------------------------------
(* KyeFactory: the sender must be the declared organizer, here always the   *)
(* page's vault.                                                            *)

FactoryAccepts(p) ==
    /\ p.feeBps >= 200 /\ p.feeBps <= 10000
    /\ p.alphaBps <= 10000
    /\ p.N >= 2 /\ p.N <= 30
    /\ p.contribution > 0 /\ p.defaultPolicy <= 2
    /\ p.interval >= MIN_ROUND_INTERVAL_SEC /\ p.interval <= MAX_ROUND_INTERVAL_SEC

FeffectiveSalt(salt) == nextSalt            \* the caller's salt is ignored
effectiveSalt(salt) == IF salt = 0 THEN nextSalt ELSE salt
CreateKye(c) ==
    LET address == <<own, draft[c].params, effectiveSalt(draft[c].salt)>> IN
    /\ Execute(c)
    /\ IF FactoryAccepts(draft[c].params)
       THEN /\ nextSalt' = nextSalt + 1
            /\ circles' = circles \cup {address}
            /\ created' = [created EXCEPT ![c] = address]
       ELSE UNCHANGED <<nextSalt, circles, created>>
    /\ UNCHANGED <<vaultHook, vault_address, submit, draft, createPosts, kyes, faults>>
othersCreate ==
    /\ nextSalt < MaxNextSalt /\ nextSalt' = nextSalt + 1
    /\ UNCHANGED <<callVars, vaultHook, vault_address, submit, draft, createPosts, kyes,
                   circles, created, faults>>

CreateNext ==
    \/ createKye \/ postReturns \/ connectionLost \/ comesBack
    \/ registersOther \/ othersCreate
    \/ \E c \in Call :
        \/ CreateKye(c)
        \/ \E p \in Params, salt \in Salt : submits(c, p, salt)
    \/ \E ok \in BOOLEAN :
        \/ activates(ok)
        \/ \E k \in Try : readsUser(k, ok) \/ upsertsRow(k, ok)
    \/ \E result \in {"ok", "failed"} : relayReturns(result)

-----------------------------------------------------------------------------

CreateTypeOK ==
    /\ vaultHook \in [derived : BOOLEAN, ready : BOOLEAN]
    /\ vault_address \in {NoVault, own, other}
    /\ submit.at \in {"form", "activate", "post", "wait", "relay", "invite"}
    /\ createPosts \in [Try -> [at : {"none", "arrived", "read", "200", "400", "500"},
                                vault : {NoVault, own, other}]]
    /\ kyes \subseteq Address /\ circles \subseteq Address
    /\ nextSalt \in Nat

(* A circle whose message reached the factory is on chain, at the address   *)
(* under which its row was written and shared: what the API lets through    *)
(* the factory accepts, and both derive one address - unless the salt is    *)
(* drawn as zero (the factory then uses its counter, so that two such       *)
(* circles differ), or the backend has another wallet's vault on record     *)
(* (kyes.ts:284-306, KyeFactory.tact:43-69, create/page.tsx:106-132).       *)
CircleOnRecord ==
    \A c \in Call : executions[c] > 0 =>
        /\ created[c] \in circles
        /\ draft[c].predicted \in kyes
        /\ draft[c].salt # 0 /\ draft[c].predicted[1] = own => created[c] = draft[c].predicted
        /\ \A d \in Call \ {c} :
            executions[d] > 0 /\ draft[c].salt = 0 /\ draft[d].salt = 0 => created[c] # created[d]
=============================================================================
