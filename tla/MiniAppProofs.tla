---------------------------- MODULE MiniAppProofs ----------------------------
(***************************************************************************)
(* What VaultLedgerProofs and TelegramBotProofs show of one component      *)
(* holds of the app: the other visits leave its variables as they are.     *)
(***************************************************************************)
EXTENDS MiniApp, VaultLedgerProofs, TelegramBotProofs, JoinCircleProofs, FiniteSetTheorems

LEMMA VisitsLeaveLedger == [Next]_vars => [LedgerNext]_ledgerVars
<1>1. ASSUME UsesWallet PROVE LedgerNext
  BY <1>1 DEF UsesWallet
<1>2. ASSUME Activates \/ UsesCircle \/ CreatesCircle \/ JoinsCircle \/ TalksToBot
             \/ UNCHANGED vars
      PROVE  UNCHANGED ledgerVars
  BY <1>2 DEF Activates, UsesCircle, CreatesCircle, JoinsCircle, TalksToBot, vars
<1>3. QED
  BY <1>1, <1>2 DEF Next

(* Whatever a user does in the app, and whatever the network and the        *)
(* backend do to his requests: a vault executes what he signed at most once *)
(* (vault.ts:114-144, relay.ts:150-175, RoostaVault.tact:83).               *)
THEOREM PaysOnceTheorem == Spec => PaysAtMostOnce
<1>1. Init => LedgerInit
  BY DEF Init
<1>2. Spec => LedgerSpec
  BY <1>1, VisitsLeaveLedger, PTL DEF Spec, LedgerSpec
<1>3. QED
  BY <1>2, LedgerImplementsCall

(* A visit to the wallet keeps the ledger's invariant; the others find the  *)
(* ledger in an initial state, and leave it there.                          *)
VisitedLedger == (visit = "wallet" => ExactInv) /\ (visit # "wallet" => LedgerInit)
LEMMA VisitedLedgerStep == VisitedLedger /\ [Next]_vars => VisitedLedger'
<1> SUFFICES ASSUME VisitedLedger, [Next]_vars PROVE VisitedLedger'
  OBVIOUS
<1>1. CASE UsesWallet
  BY <1>1, ExactStep DEF UsesWallet, VisitedLedger
<1>2. CASE Activates \/ UsesCircle \/ CreatesCircle \/ JoinsCircle \/ TalksToBot
  <2>1. visit' = visit /\ visit # "wallet" /\ UNCHANGED ledgerVars
    BY <1>2 DEF Activates, UsesCircle, CreatesCircle, JoinsCircle, TalksToBot
  <2>2. LedgerInit /\ UNCHANGED ledgerVars => LedgerInit'
    BY DEF LedgerInit, ledgerVars
  <2>3. QED  BY <2>1, <2>2 DEF VisitedLedger
<1>3. CASE UNCHANGED vars
  <2>1. UNCHANGED <<visit, ledgerVars, faults>>
    BY <1>3 DEF vars
  <2>2. LedgerInit /\ UNCHANGED ledgerVars => LedgerInit'
    BY DEF LedgerInit, ledgerVars
  <2>3. QED  BY <2>1, <2>2, ExactStep DEF VisitedLedger
<1>4. QED
  BY <1>1, <1>2, <1>3 DEF Next

LEMMA LedgerInvariant == Spec => []VisitedLedger
<1>1. Init => VisitedLedger
  BY ExactInitially DEF Init, VisitedLedger
<1>2. QED
  BY <1>1, VisitedLedgerStep, PTL DEF Spec

(* For any number of operations and any amounts: where nothing failed and   *)
(* none overlapped, the backend shows no more than the vault holds, and     *)
(* less only by payments that circles sent back, by what deposits did not   *)
(* report and by gas that was left (relay.ts:178-209, me.ts:300,            *)
(* indexer.ts:334-353, wallet/page.tsx:50-56,85).                           *)
THEOREM LedgerTheorem == Spec => []LedgerExact
<1>1. VisitedLedger => LedgerExact
  <2>1. LedgerInit => LedgerExact
    <3>1. ASSUME LedgerInit
          PROVE  /\ vault.balance - Activation - ledger.vault = 0
                 /\ Cardinality(returned) = 0 /\ stray = 0
      <4>1. /\ vault.balance = ledger.vault + Activation /\ ledger.vault \in Nat
            /\ returned = {} /\ stray = 0
        BY <3>1, TypesInitially DEF LedgerInit, TypesInv, LedgerTypeOK
      <4>2. QED  BY <4>1, FS_EmptySet DEF Activation
    <3>2. QED  BY <3>1 DEF LedgerExact
  <2>2. QED  BY <2>1, ExactInvImplies DEF VisitedLedger
<1>2. QED
  BY <1>1, LedgerInvariant, PTL

LEMMA VisitsLeaveBot == [Next]_vars => [BotNext]_botVars
<1>1. ASSUME TalksToBot PROVE BotNext
  BY <1>1 DEF TalksToBot
<1>2. ASSUME Activates \/ UsesWallet \/ UsesCircle \/ CreatesCircle \/ JoinsCircle
             \/ UNCHANGED vars
      PROVE  UNCHANGED botVars
  BY <1>2 DEF Activates, UsesWallet, UsesCircle, CreatesCircle, JoinsCircle, vars
<1>3. QED
  BY <1>1, <1>2 DEF Next

(* The bot's promises, for any number of handlers at once: the first        *)
(* referrer stays (supabaseClient.ts:80-89), and no circle stays linked to  *)
(* a chat the bot has left (myChatMember.ts:25).                            *)
THEOREM BotTheorem == Spec => ReferrerKept /\ []NoGroupLeftBehind
<1>1. BotAssumption
  BY VisitsAssumption
<1>2. Init => BotInit
  BY DEF Init
<1>3. Spec => BotSpec
  BY <1>2, VisitsLeaveBot, PTL DEF Spec, BotSpec
<1>4. QED
  BY <1>1, <1>3, GroupTheorem, ReferrerTheorem

-----------------------------------------------------------------------------
(* Creating a circle.  The page signs what the row was computed from, and   *)
(* the factory's counter has passed every salt it has used.                 *)

Slots == {"none", "arrived", "read", "200", "400", "500"}
Pages == {"form", "activate", "post", "wait", "relay", "invite"}
Vaults == {NoVault, own, other}
Drafts == [params : Params, salt : Nat, predicted : Create!Address \cup {Create!NoAddress}]
CreateTypes ==
    /\ submit \in [at : Pages, tries : Nat, call : CreateCall \cup {0}, vault : Vaults]
    /\ vault_address \in Vaults
    /\ draft \in [CreateCall -> Drafts]
    /\ createPosts \in [Create!Try -> [at : Slots, vault : Vaults]]
    /\ createAsked \subseteq CreateCall
    /\ createExecutions \in [CreateCall -> Nat]
    /\ created \in [CreateCall -> Create!Address \cup {Create!NoAddress}]
    /\ nextSalt \in Nat

(* The API let the draft pass and wrote a row for what it derived from it.  *)
RowWritten(c) ==
    /\ c \in CreateCall
    /\ Create!CreateKyeBody(draft[c].params)
    /\ draft[c].predicted \in kyes
    /\ \E v \in {own, other} : draft[c].predicted = <<v, draft[c].params, draft[c].salt>>
SubmittedOK ==
    /\ submit.at # "form" => submit.call \in CreateCall
    /\ submit.at \in {"activate", "post"} => submit.tries < Attempts
    /\ submit.at = "wait" => submit.tries \in Create!Try
PostsOK ==
    \A k \in Create!Try :
        /\ createPosts[k].at # "none" => submit.call \in CreateCall
        /\ createPosts[k].at = "read" =>
            /\ createPosts[k].vault \in {own, other}
            /\ Create!CreateKyeBody(draft[submit.call].params)
        /\ createPosts[k].at = "200" => RowWritten(submit.call)
AskedOK == \A c \in createAsked : c <= submit.call /\ RowWritten(c)
CreatedOK ==
    \A c \in CreateCall : createExecutions[c] > 0 =>
        /\ c \in createAsked /\ created[c] \in circles /\ created[c] \in Create!Address
        /\ draft[c].salt # 0 => created[c] = <<own, draft[c].params, draft[c].salt>>
        /\ draft[c].salt = 0 => created[c][3] < nextSalt
        /\ \A d \in CreateCall \ {c} :
            createExecutions[d] > 0 /\ draft[c].salt = 0 /\ draft[d].salt = 0
                => created[c] # created[d]
CreateInv == CreateTypes /\ SubmittedOK /\ PostsOK /\ AskedOK /\ CreatedOK

LEMMA CreateInitially == ASSUME Create!CreateAssumption, Create!CreateInit PROVE CreateInv
<1>1. CreateTypes
  BY DEF Create!CreateAssumption, Create!CreateInit, Create!CallInit, CreateTypes, Slots, Pages,
         Vaults, Drafts, Create!NoAddress, Create!NoPosts
<1>2. QED
  BY <1>1 DEF Create!CreateInit, Create!CallInit, CreateInv, SubmittedOK, PostsOK, AskedOK,
              CreatedOK, Create!NoPosts

LEMMA CreateInvImplies == ASSUME CreateInv PROVE CircleOnRecord
BY DEF CreateInv, CreatedOK, AskedOK, RowWritten, CircleOnRecord, Create!CircleOnRecord

-----------------------------------------------------------------------------

(* Steps of the page that submit and sign nothing, and the chain's others.  *)
LEMMA PageStepKeeps ==
    ASSUME CreateInv, CreateTypes', SubmittedOK', submit'.call = submit.call,
           \A k \in Create!Try :
              \/ createPosts'[k] = createPosts[k]
              \/ createPosts'[k].at \in {"arrived", "400", "500"} /\ submit.call \in CreateCall,
           nextSalt <= nextSalt',
           UNCHANGED <<draft, kyes, circles, created, createExecutions, createAsked>>
    PROVE  CreateInv'
<1>1. PostsOK'
  BY DEF CreateInv, PostsOK, RowWritten
<1>2. AskedOK'
  BY DEF CreateInv, AskedOK, RowWritten
<1>3. CreatedOK'
  <2>. SUFFICES ASSUME NEW c \in CreateCall, createExecutions[c] > 0, draft[c].salt = 0
                PROVE  created[c][3] < nextSalt'
    BY DEF CreateInv, CreatedOK
  <2>1. created[c] \in Create!Address
    BY DEF CreateInv, CreatedOK
  <2>2. QED
    BY <2>1 DEF CreateInv, CreatedOK, CreateTypes, Create!Address
<1>4. QED
  BY <1>1, <1>2, <1>3 DEF CreateInv

(* What the factory takes includes what the API lets pass.                  *)
LEMMA FactoryAcceptsBody ==
    ASSUME NEW p, Create!CreateKyeBody(p) PROVE Create!FactoryAccepts(p)
<1>. DEFINE n == p.N
            fee == p.feeBps
            alpha == p.alphaBps
            gap == p.interval
            policy == p.defaultPolicy
<1>1. n \in 2..30
  <2>1. p.N \in 2..30
    BY DEF Create!CreateKyeBody
  <2>2. QED
    BY <2>1
<1>2. fee \in 200..10000
  <2>1. fee \in Create!BpsFrom(200)
    BY DEF Create!CreateKyeBody
  <2>. HIDE DEF fee
  <2>2. QED
    BY <2>1 DEF Create!BpsFrom
<1>3. alpha \in 0..10000
  <2>1. alpha \in Create!BpsFrom(0)
    BY DEF Create!CreateKyeBody
  <2>. HIDE DEF alpha
  <2>2. QED
    BY <2>1 DEF Create!BpsFrom
<1>4. gap \in Create!ALLOWED_INTERVALS
  <2>1. p.interval \in Create!ALLOWED_INTERVALS
    BY DEF Create!CreateKyeBody
  <2>2. QED
    BY <2>1
<1>5. policy \in 0..2 /\ p.contribution > 0
  <2>1. p.defaultPolicy \in 0..2 /\ p.contribution > 0
    BY DEF Create!CreateKyeBody
  <2>2. QED
    BY <2>1
<1>. SUFFICES
        /\ fee >= 200 /\ fee <= 10000 /\ alpha <= 10000 /\ n >= 2 /\ n <= 30 /\ policy <= 2
        /\ gap >= Create!MIN_ROUND_INTERVAL_SEC /\ gap <= Create!MAX_ROUND_INTERVAL_SEC
  BY <1>5 DEF Create!FactoryAccepts
<1>. HIDE DEF n, fee, alpha, gap, policy
<1>6. fee >= 200 /\ fee <= 10000 /\ alpha <= 10000 /\ n >= 2 /\ n <= 30 /\ policy <= 2
  BY <1>1, <1>2, <1>3, <1>5
<1>7. gap = 60 \/ \E w \in {1, 2, 3, 4} : gap = w * 7 * 86400
  BY <1>4 DEF Create!ALLOWED_INTERVALS
<1>8. gap \in {60, 604800, 1209600, 1814400, 2419200}
  BY <1>7, SMT
<1>9. gap >= Create!MIN_ROUND_INTERVAL_SEC /\ gap <= Create!MAX_ROUND_INTERVAL_SEC
  BY <1>8, SMT DEF Create!MIN_ROUND_INTERVAL_SEC, Create!MAX_ROUND_INTERVAL_SEC
<1>10. QED
  BY <1>6, <1>9

(* The page goes from one place to another within its submission.           *)
Turns(at) == submit' = [submit EXCEPT !.at = at]
LEMMA PostTyped ==
    ASSUME CreateTypes
    PROVE  [submit EXCEPT !.at = "wait", !.tries = submit.tries + 1]
                \in [at : Pages, tries : Nat, call : CreateCall \cup {0}, vault : Vaults]
<1>1. submit \in [at : Pages, tries : Nat, call : CreateCall \cup {0}, vault : Vaults]
  BY DEF CreateTypes
<1>2. "wait" \in Pages /\ submit.tries + 1 \in Nat
  BY <1>1 DEF Pages
<1>. HIDE DEF Pages, Vaults
<1>3. QED
  BY <1>1, <1>2
LEMMA TurnsTyped ==
    ASSUME CreateTypes, NEW at \in Pages, Turns(at)
    PROVE  /\ submit' \in [at : Pages, tries : Nat, call : CreateCall \cup {0}, vault : Vaults]
           /\ submit'.at = at /\ submit'.call = submit.call /\ submit'.tries = submit.tries
<1>1. submit \in [at : Pages, tries : Nat, call : CreateCall \cup {0}, vault : Vaults]
  BY DEF CreateTypes
<1>. HIDE DEF Pages, Vaults
<1>2. QED
  BY <1>1 DEF Turns

(* ... and touches nothing but the vault.                                   *)
LEMMA TurnKeeps ==
    ASSUME CreateInv, NEW at \in Pages, Turns(at), vault_address' \in Vaults,
           submit.at = "form" => at = "form",
           at \in {"activate", "wait"} => at = submit.at,
           at = "post" => submit.at = "activate" \/ submit.tries < Attempts,
           UNCHANGED <<createAsked, createExecutions, draft, createPosts, kyes, nextSalt, circles,
                       created>>
    PROVE  CreateInv'
<1>1. CreateTypes'
  BY TurnsTyped DEF CreateInv, CreateTypes
<1>2. SubmittedOK'
  BY TurnsTyped DEF CreateInv, SubmittedOK
<1>3. submit'.call = submit.call
  BY TurnsTyped DEF CreateInv
<1>4. nextSalt <= nextSalt'
  BY DEF CreateInv, CreateTypes
<1>5. QED
  BY <1>1, <1>2, <1>3, <1>4, PageStepKeeps

LEMMA PageKeepsCreate ==
    ASSUME Create!CreateAssumption, CreateInv,
           \/ Create!createKye \/ Create!connectionLost \/ Create!comesBack
           \/ Create!registersOther \/ Create!othersCreate
           \/ \E ok \in BOOLEAN : Create!activates(ok)
           \/ \E result \in {"ok", "failed"} : Create!relayReturns(result)
    PROVE  CreateInv'
<1>. USE DEF CreateInv, CreateTypes, Slots, Pages, Vaults, SubmittedOK, Create!ChainUnchanged,
             Create!callVars, Create!Fails
<1>1. ASSUME Create!createKye PROVE CreateInv'
  <2>1. submit.tries + 1 \in Create!Try
    BY <1>1 DEF Create!createKye, Create!Try, Create!CreateAssumption
  <2>2. SubmittedOK'
    BY <1>1, <2>1 DEF Create!createKye
  <2>3. createPosts' \in [Create!Try -> [at : Slots, vault : Vaults]]
    BY <1>1 DEF Create!createKye
  <2>4. \A k \in Create!Try : \/ createPosts'[k] = createPosts[k]
                               \/ createPosts'[k].at = "arrived"
    BY <1>1 DEF Create!createKye
  <2>5. CreateTypes'
    <3>1. submit' = [submit EXCEPT !.at = "wait", !.tries = submit.tries + 1]
      BY <1>1 DEF Create!createKye
    <3>2. submit' \in [at : Pages, tries : Nat, call : CreateCall \cup {0}, vault : Vaults]
      BY <3>1, PostTyped
    <3>3. QED
      BY <1>1, <2>3, <3>2 DEF Create!createKye
  <2>6. QED
    BY <1>1, <2>2, <2>4, <2>5, PageStepKeeps DEF Create!createKye
<1>2. ASSUME Create!connectionLost PROVE CreateInv'
  <2>1. PICK at \in {"post", "form"} : Turns(at) /\ (at = "post" => submit.tries < Attempts)
    BY <1>2 DEF Create!connectionLost, Turns
  <2>2. QED
    BY <1>2, <2>1, TurnKeeps DEF Create!connectionLost
<1>3. ASSUME Create!comesBack PROVE CreateInv'
  BY <1>3, TurnKeeps DEF Create!comesBack, Turns
<1>4. ASSUME Create!registersOther PROVE CreateInv'
  BY <1>4, PageStepKeeps DEF Create!registersOther
<1>5. ASSUME Create!othersCreate PROVE CreateInv'
  BY <1>5, PageStepKeeps DEF Create!othersCreate
<1>6. ASSUME NEW ok \in BOOLEAN, Create!activates(ok) PROVE CreateInv'
  <2>1. PICK at \in {"post", "form"} : Turns(at)
    BY <1>6 DEF Create!activates, Turns
  <2>2. QED
    BY <1>6, <2>1, TurnKeeps DEF Create!activates
<1>7. ASSUME NEW result \in {"ok", "failed"}, Create!relayReturns(result) PROVE CreateInv'
  <2>1. PICK at \in {"invite", "form"} : Turns(at)
    BY <1>7 DEF Create!relayReturns, Turns
  <2>2. QED
    BY <1>7, <2>1, TurnKeeps DEF Create!relayReturns, Create!Answer
<1>8. QED
  BY <1>1, <1>2, <1>3, <1>4, <1>5, <1>6, <1>7

LEMMA postReturnsKeepsCreate ==
    ASSUME Create!CreateAssumption, CreateInv, Create!postReturns
    PROVE  CreateInv'
<1>. DEFINE status == createPosts[submit.tries].at
<1>1. /\ UNCHANGED <<draft, createPosts, kyes, nextSalt, circles, created, vault_address,
                     createExecutions>>
      /\ submit'.call = submit.call /\ submit.at = "wait" /\ submit.call \in CreateCall
      /\ createAsked' = createAsked \/ (status = "200" /\ createAsked' = createAsked \cup {submit.call})
  BY DEF Create!postReturns, Create!ChainUnchanged, Create!callVars, Create!signAndRelay,
         Create!Fails, CreateInv, SubmittedOK, CreateTypes
<1>2. CreateTypes' /\ SubmittedOK'
  BY <1>1 DEF Create!postReturns, Create!Fails, CreateInv, CreateTypes, SubmittedOK, Pages
<1>3. PostsOK' /\ CreatedOK'
  BY <1>1 DEF CreateInv, PostsOK, CreatedOK, RowWritten
<1>4. AskedOK'
  <2>1. status = "200" => RowWritten(submit.call)
    <3>. SUFFICES ASSUME status = "200" PROVE RowWritten(submit.call)
      OBVIOUS
    <3>1. submit.tries \in Create!Try
      BY <1>1 DEF CreateInv, SubmittedOK
    <3>2. QED
      BY <3>1 DEF CreateInv, PostsOK
  <2>2. \A c \in CreateCall : c <= c
    BY DEF Create!CreateAssumption
  <2>3. QED
    BY <1>1, <2>1, <2>2 DEF CreateInv, AskedOK, RowWritten
<1>5. QED
  BY <1>2, <1>3, <1>4 DEF CreateInv

-----------------------------------------------------------------------------

(* A new submission: the call that follows has not been signed.             *)
LEMMA submitsKeepsCreate ==
    ASSUME Create!CreateAssumption, CreateInv,
           NEW c \in CreateCall, NEW p \in Params, NEW salt \in Salt, Create!submits(c, p, salt)
    PROVE  CreateInv'
<1>1. /\ UNCHANGED <<createAsked, createExecutions, kyes, nextSalt, circles, created,
                     vault_address>>
      /\ c = submit.call + 1 /\ submit'.call = c /\ submit'.tries = 0
      /\ submit' = [at |-> submit'.at, tries |-> 0, call |-> c, vault |-> submit'.vault]
      /\ submit'.at \in {"post", "activate"} /\ submit'.vault \in Vaults
      /\ createPosts' = Create!NoPosts
      /\ draft' = [draft EXCEPT ![c].params = p, ![c].salt = salt]
  BY DEF Create!submits, Create!ChainUnchanged, Create!callVars, Vaults
<1>2. /\ draft' \in [CreateCall -> Drafts]
      /\ \A d \in CreateCall \ {c} : draft'[d] = draft[d]
  <2>1. draft[c] \in Drafts /\ salt \in Nat
    BY DEF CreateInv, CreateTypes, Create!CreateAssumption
  <2>2. [draft[c] EXCEPT !.params = p, !.salt = salt] \in Drafts
    BY <2>1 DEF Drafts
  <2>3. draft' = [draft EXCEPT ![c] = [draft[c] EXCEPT !.params = p, !.salt = salt]]
    BY <1>1 DEF CreateInv, CreateTypes
  <2>4. QED
    BY <2>2, <2>3 DEF CreateInv, CreateTypes
<1>3. CreateTypes'
  BY <1>1, <1>2 DEF CreateInv, CreateTypes, Create!NoPosts, Slots, Vaults, Pages
<1>4. SubmittedOK' /\ PostsOK'
  BY <1>1 DEF SubmittedOK, PostsOK, Create!NoPosts, Create!CreateAssumption
<1>5. \A d \in createAsked : d # c /\ d <= c
  BY <1>1 DEF CreateInv, CreateTypes, AskedOK, Create!CreateAssumption
<1>6. AskedOK'
  BY <1>1, <1>2, <1>5 DEF CreateInv, CreateTypes, AskedOK, RowWritten
<1>7. CreatedOK'
  BY <1>1, <1>2, <1>5 DEF CreateInv, CreatedOK
<1>8. QED
  BY <1>3, <1>4, <1>6, <1>7 DEF CreateInv

-----------------------------------------------------------------------------

(* One post moves, and reads a vault or leaves.                             *)
LEMMA readsUserKeepsCreate ==
    ASSUME CreateInv, NEW k \in Create!Try, NEW ok \in BOOLEAN, Create!readsUser(k, ok)
    PROVE  CreateInv'
<1>1. /\ UNCHANGED <<createAsked, createExecutions, kyes, nextSalt, circles, created, draft,
                     submit, vault_address>>
      /\ createPosts[k].at = "arrived"
  BY DEF Create!readsUser, Create!ChainUnchanged, Create!callVars
<1>2. PICK moved \in [at : Slots, vault : Vaults] :
        /\ createPosts' = [createPosts EXCEPT ![k] = moved]
        /\ moved.at \in {"400", "500", "read"}
        /\ moved.at = "read" => /\ moved.vault \in {own, other}
                                /\ Create!CreateKyeBody(draft[submit.call].params)
  <2>. DEFINE turnedDown(status) == [at |-> status, vault |-> NoVault]
              found == [at |-> "read", vault |-> vault_address]
              body == Create!CreateKyeBody(draft[submit.call].params)
  <2>1. PICK moved \in {turnedDown("400"), turnedDown("500"), found} :
            /\ createPosts' = [createPosts EXCEPT ![k] = moved]
            /\ moved = found => body /\ vault_address # NoVault
    <3>1. CASE ~body
      BY <3>1 DEF Create!readsUser, Create!Answers
    <3>2. CASE body /\ ~ok
      BY <3>2 DEF Create!readsUser, Create!Answers
    <3>3. CASE body /\ ok
      BY <3>3 DEF Create!readsUser, Create!Answers
    <3>4. QED
      BY <3>1, <3>2, <3>3
  <2>2. vault_address \in Vaults
    BY DEF CreateInv, CreateTypes
  <2>3. moved \in [at : Slots, vault : Vaults] /\ moved.at \in {"400", "500", "read"}
    BY <2>1, <2>2 DEF Slots, Vaults
  <2>4. moved.at = "read" => moved = found
    BY <2>1
  <2>5. moved.at = "read" => moved.vault \in {own, other} /\ body
    BY <2>1, <2>2, <2>4 DEF Vaults
  <2>6. QED
    BY <2>1, <2>3, <2>5
<1>3. CreateTypes' /\ SubmittedOK'
  BY <1>1, <1>2 DEF CreateInv, CreateTypes, SubmittedOK
<1>4. PostsOK'
  BY <1>1, <1>2 DEF CreateInv, CreateTypes, PostsOK, RowWritten
<1>5. AskedOK' /\ CreatedOK'
  BY <1>1 DEF CreateInv, AskedOK, CreatedOK, RowWritten
<1>6. QED
  BY <1>3, <1>4, <1>5 DEF CreateInv

LEMMA upsertsRowKeepsCreate ==
    ASSUME Create!CreateAssumption, CreateInv, NEW k \in Create!Try, NEW ok \in BOOLEAN,
           Create!upsertsRow(k, ok)
    PROVE  CreateInv'
<1>. DEFINE c == submit.call
            predicted == <<createPosts[k].vault, draft[c].params, draft[c].salt>>
            answer == [at |-> IF ok THEN "200" ELSE "500", vault |-> NoVault]
<1>1. /\ UNCHANGED <<createAsked, createExecutions, nextSalt, circles, created, submit,
                     vault_address>>
      /\ createPosts[k].at = "read" /\ createPosts' = [createPosts EXCEPT ![k] = answer]
      /\ IF ok THEN kyes' = kyes \cup {predicted} /\ draft' = [draft EXCEPT ![c].predicted = predicted]
               ELSE UNCHANGED <<kyes, draft>>
  BY DEF Create!upsertsRow, Create!Answers, Create!predictAddress, Create!ChainUnchanged,
         Create!callVars
<1>2. c \in CreateCall /\ createPosts[k].vault \in {own, other}
      /\ Create!CreateKyeBody(draft[c].params)
  BY <1>1 DEF CreateInv, PostsOK
<1>3. predicted \in Create!Address
  BY <1>2 DEF CreateInv, CreateTypes, Drafts, Create!Address
<1>4. /\ draft' \in [CreateCall -> Drafts]
      /\ \A d \in CreateCall : /\ draft'[d].params = draft[d].params
                               /\ draft'[d].salt = draft[d].salt
                               /\ d # c \/ ~ok => draft'[d] = draft[d]
      /\ ok => draft'[c].predicted = predicted
  <2>1. draft[c] \in Drafts
    BY <1>2 DEF CreateInv, CreateTypes
  <2>. DEFINE new == [draft[c] EXCEPT !.predicted = predicted]
  <2>2. new \in Drafts /\ new.params = draft[c].params /\ new.salt = draft[c].salt
        /\ new.predicted = predicted
    BY <1>3, <2>1 DEF Drafts
  <2>3. ok => draft' = [draft EXCEPT ![c] = new]
    BY <1>1, <1>2 DEF CreateInv, CreateTypes
  <2>. HIDE DEF new, predicted
  <2>4. QED
    BY <1>1, <1>2, <2>2, <2>3 DEF CreateInv, CreateTypes
<1>5. CreateTypes' /\ SubmittedOK'
  <2>1. createPosts' \in [Create!Try -> [at : Slots, vault : Vaults]]
    BY <1>1 DEF CreateInv, CreateTypes, Slots, Vaults
  <2>2. QED
    BY <1>1, <1>4, <2>1 DEF CreateInv, CreateTypes, SubmittedOK
<1>6. ok => RowWritten(c)'
  BY <1>1, <1>2, <1>4 DEF RowWritten
<1>7. \A d \in CreateCall : RowWritten(d) => RowWritten(d)'
  <2>1. \A d \in CreateCall : d # c \/ ~ok => (RowWritten(d) => RowWritten(d)')
    BY <1>1, <1>4 DEF RowWritten
  <2>2. QED
    BY <1>1, <1>6, <2>1
<1>8. PostsOK'
  <2>. SUFFICES ASSUME NEW j \in Create!Try
                PROVE  /\ createPosts'[j].at = "read" =>
                            /\ createPosts'[j].vault \in {own, other}
                            /\ Create!CreateKyeBody(draft'[c].params)
                       /\ createPosts'[j].at = "200" => RowWritten(c)'
    BY <1>1, <1>2 DEF PostsOK
  <2>1. CASE j = k
    BY <1>1, <1>6, <2>1 DEF CreateInv, CreateTypes
  <2>2. CASE j # k
    <3>1. createPosts'[j] = createPosts[j]
      BY <1>1, <2>2 DEF CreateInv, CreateTypes
    <3>2. QED
      BY <1>1, <1>2, <1>4, <1>7, <3>1 DEF CreateInv, PostsOK
  <2>3. QED
    BY <2>1, <2>2
<1>9. AskedOK'
  BY <1>1, <1>7 DEF CreateInv, CreateTypes, AskedOK
<1>10. CreatedOK'
  BY <1>1, <1>4 DEF CreateInv, CreatedOK
<1>11. QED
  BY <1>5, <1>8, <1>9, <1>10 DEF CreateInv

-----------------------------------------------------------------------------

(* The factory takes what was signed, at the salt the page drew or at its   *)
(* counter, which no circle has used.                                       *)
LEMMA CreateKyeKeepsCreate ==
    ASSUME CreateInv, NEW c \in CreateCall, Create!CreateKye(c)
    PROVE  CreateInv'
<1>. DEFINE address == <<own, draft[c].params, IF draft[c].salt = 0 THEN nextSalt ELSE draft[c].salt>>
<1>1. /\ UNCHANGED <<createAsked, draft, submit, createPosts, kyes, vault_address>>
      /\ c \in createAsked /\ createExecutions[c] = 0
      /\ createExecutions' = [createExecutions EXCEPT ![c] = 1]
  BY DEF Create!CreateKye, Create!Execute
<1>2. Create!FactoryAccepts(draft[c].params)
  BY <1>1, FactoryAcceptsBody DEF CreateInv, AskedOK, RowWritten
<1>3. /\ nextSalt' = nextSalt + 1 /\ circles' = circles \cup {address}
      /\ created' = [created EXCEPT ![c] = address]
  BY <1>2 DEF Create!CreateKye, Create!effectiveSalt
<1>4. address \in Create!Address
  BY DEF CreateInv, CreateTypes, Drafts, Create!Address
<1>5. CreateTypes' /\ SubmittedOK'
  <2>. HIDE DEF address
  <2>1. QED
    BY <1>1, <1>3, <1>4 DEF CreateInv, CreateTypes, SubmittedOK
<1>6. PostsOK' /\ AskedOK'
  BY <1>1 DEF CreateInv, PostsOK, AskedOK, RowWritten
<1>7. /\ created'[c] = address /\ createExecutions'[c] = 1
      /\ \A d \in CreateCall \ {c} : /\ created'[d] = created[d]
                                     /\ createExecutions'[d] = createExecutions[d]
  BY <1>1, <1>3 DEF CreateInv, CreateTypes
<1>8. ASSUME NEW d \in CreateCall \ {c}, createExecutions[d] > 0, draft[d].salt = 0
      PROVE  created[d][3] < nextSalt /\ created[d][3] \in Nat
  BY <1>8 DEF CreateInv, CreatedOK, Create!Address
<1>9. draft[c].salt = 0 => address[3] = nextSalt
  OBVIOUS
<1>10. draft[c].salt # 0 => address = <<own, draft[c].params, draft[c].salt>>
  OBVIOUS
<1>11. nextSalt \in Nat
  BY DEF CreateInv, CreateTypes
<1>. HIDE DEF address
<1>12. ASSUME NEW d \in CreateCall \ {c}, createExecutions[d] > 0,
              draft[c].salt = 0, draft[d].salt = 0
       PROVE  created[d] # address
  BY <1>8, <1>9, <1>11, <1>12
<1>13. CreatedOK'
  <2>. SUFFICES ASSUME NEW d \in CreateCall, createExecutions'[d] > 0
                PROVE  /\ d \in createAsked /\ created'[d] \in circles'
                       /\ created'[d] \in Create!Address
                       /\ draft[d].salt # 0 =>
                            created'[d] = <<own, draft[d].params, draft[d].salt>>
                       /\ draft[d].salt = 0 => created'[d][3] < nextSalt'
                       /\ \A e \in CreateCall \ {d} :
                            createExecutions'[e] > 0 /\ draft[d].salt = 0 /\ draft[e].salt = 0
                                => created'[d] # created'[e]
    BY <1>1 DEF CreatedOK
  <2>1. CASE d = c
    <3>1. draft[d].salt = 0 => created'[d][3] < nextSalt'
      BY <1>3, <1>7, <1>9, <1>11, <2>1
    <3>2. \A e \in CreateCall \ {d} :
            createExecutions'[e] > 0 /\ draft[d].salt = 0 /\ draft[e].salt = 0
                => created'[d] # created'[e]
      BY <1>7, <1>12, <2>1
    <3>3. QED
      BY <1>1, <1>3, <1>4, <1>7, <1>10, <2>1, <3>1, <3>2
  <2>2. CASE d # c
    <3>1. createExecutions[d] > 0 /\ created'[d] = created[d]
      BY <1>7, <2>2
    <3>2. draft[d].salt = 0 => created'[d][3] < nextSalt'
      BY <1>3, <1>8, <1>11, <2>2, <3>1
    <3>3. \A e \in CreateCall \ {d} :
            createExecutions'[e] > 0 /\ draft[d].salt = 0 /\ draft[e].salt = 0
                => created'[d] # created'[e]
      BY <1>7, <1>12, <2>2, <3>1 DEF CreateInv, CreatedOK
    <3>4. QED
      BY <1>3, <3>1, <3>2, <3>3 DEF CreateInv, CreatedOK
  <2>3. QED
    BY <2>1, <2>2
<1>14. QED
  BY <1>5, <1>6, <1>13 DEF CreateInv

LEMMA CreateStep ==
    ASSUME Create!CreateAssumption, CreateInv, [Next]_vars PROVE CreateInv'
<1>1. CASE UNCHANGED createVars
  BY <1>1, PageStepKeeps
  DEF createVars, CreateInv, CreateTypes, SubmittedOK
<1>2. CASE Create!CreateNext
  <2>1. ASSUME NEW c \in CreateCall,
               Create!CreateKye(c) \/ \E p \in Params, salt \in Salt : Create!submits(c, p, salt)
        PROVE  CreateInv'
    BY <2>1, CreateKyeKeepsCreate, submitsKeepsCreate
  <2>2. ASSUME NEW ok \in BOOLEAN, NEW k \in Create!Try,
               Create!readsUser(k, ok) \/ Create!upsertsRow(k, ok)
        PROVE  CreateInv'
    BY <2>2, readsUserKeepsCreate, upsertsRowKeepsCreate
  <2>3. QED
    BY <1>2, <2>1, <2>2, PageKeepsCreate, postReturnsKeepsCreate DEF Create!CreateNext
<1>3. QED
  BY <1>1, <1>2
  DEF Next, Activates, UsesWallet, UsesCircle, CreatesCircle, JoinsCircle, TalksToBot, vars

(* What CreateInv leaves open: the rows and the circles have addresses.     *)
RecordsTyped ==
    /\ vaultHook \in [derived : BOOLEAN, ready : BOOLEAN]
    /\ kyes \subseteq Create!Address /\ circles \subseteq Create!Address
LEMMA CreateTyped == ASSUME CreateInv, RecordsTyped PROVE Create!CreateTypeOK
<1>1. submit.at \in Pages
  BY DEF CreateInv, CreateTypes
<1>2. QED
  BY <1>1 DEF CreateInv, CreateTypes, RecordsTyped, Create!CreateTypeOK, Pages, Slots, Vaults
LEMMA RecordsStep == ASSUME CreateInv, RecordsTyped, [Next]_vars PROVE RecordsTyped'
<1>1. ASSUME NEW c \in CreateCall, Create!CreateKye(c) PROVE RecordsTyped'
  <2>1. <<own, draft[c].params, Create!effectiveSalt(draft[c].salt)>> \in Create!Address
    BY DEF CreateInv, CreateTypes, Drafts, Create!Address, Create!effectiveSalt
  <2>2. /\ UNCHANGED <<vaultHook, kyes>>
        /\ circles' \subseteq
            circles \cup {<<own, draft[c].params, Create!effectiveSalt(draft[c].salt)>>}
    BY <1>1 DEF Create!CreateKye
  <2>3. QED
    BY <2>1, <2>2 DEF RecordsTyped
<1>2. ASSUME NEW k \in Create!Try, NEW ok \in BOOLEAN, Create!upsertsRow(k, ok)
      PROVE  RecordsTyped'
  <2>. DEFINE c == submit.call
  <2>1. createPosts[k].at = "read"
    BY <1>2 DEF Create!upsertsRow
  <2>2. c \in CreateCall /\ createPosts[k].vault \in {own, other}
    BY <2>1 DEF CreateInv, PostsOK
  <2>3. Create!predictAddress(createPosts[k].vault, c) \in Create!Address
    BY <2>2 DEF CreateInv, CreateTypes, Drafts, Create!Address, Create!predictAddress
  <2>4. /\ UNCHANGED <<vaultHook, circles>>
        /\ kyes' \subseteq kyes \cup {Create!predictAddress(createPosts[k].vault, c)}
    BY <1>2 DEF Create!upsertsRow, Create!ChainUnchanged
  <2>5. QED
    BY <2>3, <2>4 DEF RecordsTyped
<1>3. ASSUME NEW ok \in BOOLEAN, Create!activates(ok) PROVE RecordsTyped'
  <2>1. vaultHook' = vaultHook \/ vaultHook' = [derived |-> TRUE, ready |-> TRUE]
    BY <1>3, Zenon DEF Create!activates
  <2>2. UNCHANGED <<kyes, circles>>
    BY <1>3 DEF Create!activates, Create!ChainUnchanged
  <2>3. vaultHook' \in [derived : BOOLEAN, ready : BOOLEAN]
    <3>1. [derived |-> TRUE, ready |-> TRUE] \in [derived : BOOLEAN, ready : BOOLEAN]
      OBVIOUS
    <3>2. QED
      BY <2>1, <3>1, Zenon DEF RecordsTyped
  <2>4. QED
    BY <2>2, <2>3 DEF RecordsTyped
<1>4. ASSUME UNCHANGED <<vaultHook, kyes, circles>> PROVE RecordsTyped'
  BY <1>4 DEF RecordsTyped
<1>5. CASE Create!CreateNext
  <2>1. \/ UNCHANGED <<vaultHook, kyes, circles>>
        \/ \E c \in CreateCall : Create!CreateKye(c)
        \/ \E ok \in BOOLEAN :
            Create!activates(ok) \/ \E k \in Create!Try : Create!upsertsRow(k, ok)
    BY <1>5 DEF Create!CreateNext, Create!createKye, Create!postReturns, Create!connectionLost,
       Create!comesBack, Create!registersOther, Create!othersCreate, Create!submits,
       Create!readsUser, Create!relayReturns, Create!ChainUnchanged
  <2>2. QED
    BY <1>1, <1>2, <1>3, <1>4, <2>1
<1>6. CASE UNCHANGED createVars
  BY <1>4, <1>6 DEF createVars
<1>7. QED
  BY <1>5, <1>6
  DEF Next, Activates, UsesWallet, UsesCircle, CreatesCircle, JoinsCircle, TalksToBot, vars

LEMMA CreateInvariant == Spec => [](CreateInv /\ RecordsTyped)
<1>1. Create!CreateAssumption
  BY VisitsAssumption
<1>2. Init => CreateInv /\ RecordsTyped
  BY <1>1, CreateInitially DEF Init, Create!CreateInit, RecordsTyped
<1>3. CreateInv /\ RecordsTyped /\ [Next]_vars => (CreateInv /\ RecordsTyped)'
  BY <1>1, CreateStep, RecordsStep
<1>4. QED
  BY <1>2, <1>3, PTL DEF Spec

(* Every circle on chain is the one whose row the API wrote, unless its     *)
(* salt is zero or the row names another vault: for any number of           *)
(* submissions, posts and failures (kyes.ts:284-306, KyeFactory.tact:43-69).*)
THEOREM CreationTheorem == Spec => []CircleOnRecord
<1>1. CreateInv => CircleOnRecord
  BY CreateInvImplies
<1>2. QED
  BY <1>1, CreateInvariant, PTL

-----------------------------------------------------------------------------
(* A circle's page.  What the page and the cache take for paid is paid, and *)
(* the balance the page goes by never moves while it is open.               *)

Circles == [status : {"created", "active", "completed", "cancelled"},
            currentRound : Circle!Round, paid : SUBSET Circle!Round]
PageTypes ==
    /\ circle \in Circles /\ balance \in Nat
    /\ contribCache \in [Circle!Round -> {"none", "paid", "pending"}]
    /\ rowRound \in PendingRow
PageRound == IF rowRound = Circle!NoRow THEN 1 ELSE rowRound
SettledInv ==
    /\ PageTypes
    /\ \A r \in Circle!Round : contribCache[r] = "paid" => r \in circle.paid
    /\ kye.loaded => /\ kye.currentRound = PageRound
                     /\ kye.paid => PageRound \in circle.paid
    /\ vaultState = submittedVaultBalance /\ vaultState \in Nat
    /\ outcome = "success" => kye.loaded /\ PageRound \in circle.paid

(* A call that was signed has its message, and its contribution is on the   *)
(* way to the circle or back only after it was executed.                    *)
CallsInv ==
    /\ what = [c \in PageCall |-> what[c]]
    /\ pageAsked \subseteq PageCall
    /\ pageExecutions \in [PageCall -> Nat]
    /\ \A c \in pageAsked : what[c].message \in {"contribute", "execute", "cancel"}
    /\ toCircle \cup bounced \subseteq pageAsked
    /\ \A c \in toCircle \cup bounced : pageExecutions[c] # 0
    /\ toCircle \cap bounced = {}

LEMMA CallsInitially == ASSUME Circle!CircleInit PROVE CallsInv
BY DEF Circle!CircleInit, Circle!CallInit, CallsInv

LEMMA CallsStep == ASSUME CallsInv, [Next]_vars PROVE CallsInv'
<1>1. ASSUME UNCHANGED <<pageAsked, pageExecutions, what, toCircle, bounced>> PROVE CallsInv'
  BY <1>1 DEF CallsInv
<1>2. ASSUME NEW c \in PageCall, NEW message \in {"contribute", "execute", "cancel"},
             Circle!Relay(c, message)
      PROVE  CallsInv'
  <2>1. /\ c \notin pageAsked /\ pageAsked' = pageAsked \cup {c}
        /\ UNCHANGED <<pageExecutions, toCircle, bounced>>
        /\ what' = [what EXCEPT ![c] = [message |-> message, round |-> kye.currentRound]]
    BY <1>2 DEF Circle!Relay, Circle!signAndRelay, Circle!ChainUnchanged
  <2>2. /\ what' = [d \in PageCall |-> what'[d]] /\ what'[c].message = message
        /\ \A d \in PageCall \ {c} : what'[d] = what[d]
    BY <2>1 DEF CallsInv
  <2>3. QED
    BY <2>1, <2>2 DEF CallsInv
<1>3. ASSUME NEW c \in PageCall, Circle!vaultExecutes(c) PROVE CallsInv'
  BY <1>3 DEF Circle!vaultExecutes, Circle!Execute, CallsInv
<1>4. ASSUME NEW c \in PageCall,
             Circle!bounceReturns(c) \/ \E due \in BOOLEAN : Circle!circleReceives(c, due)
      PROVE  CallsInv'
  BY <1>4 DEF Circle!bounceReturns, Circle!circleReceives, Circle!callVars, CallsInv
<1>5. CASE Circle!CircleNext
  <2>1. \/ UNCHANGED <<pageAsked, pageExecutions, what, toCircle, bounced>>
        \/ \E c \in PageCall :
            \/ \E message \in {"contribute", "execute", "cancel"} : Circle!Relay(c, message)
            \/ Circle!vaultExecutes(c) \/ Circle!bounceReturns(c)
            \/ \E due \in BOOLEAN : Circle!circleReceives(c, due)
    BY <1>5
    DEF Circle!CircleNext, Circle!closePage, Circle!contributeTooPoor, Circle!paidWatcher,
        Circle!watchdog, Circle!Release, Circle!deletionExpires, Circle!othersStart,
        Circle!othersExecuteRound, Circle!index, Circle!openPage, Circle!changeLanguage,
        Circle!cacheExpires, Circle!contribute, Circle!executeRound, Circle!deleteCircle,
        Circle!relayReturns, Circle!Answer, Circle!ChainUnchanged, Circle!callVars
  <2>2. QED
    BY <1>1, <1>2, <1>3, <1>4, <2>1
<1>6. CASE UNCHANGED pageVars
  BY <1>1, <1>6 DEF pageVars
<1>7. QED
  BY <1>5, <1>6
  DEF Next, Activates, UsesWallet, UsesCircle, CreatesCircle, JoinsCircle, TalksToBot, vars

LEMMA SettledInitially == ASSUME Circle!CircleAssumption, Circle!CircleInit PROVE SettledInv
BY DEF Circle!CircleAssumption, Circle!CircleInit, Circle!NotLoaded, Circle!Round, Circles,
       PageTypes, SettledInv

LEMMA SettledInvImplies == ASSUME SettledInv PROVE SuccessIsSettled
BY DEF SettledInv, SuccessIsSettled, Circle!SuccessIsSettled

(* A round that is paid stays paid, whatever the chain does.                *)
LEMMA ChainKeepsSettled ==
    ASSUME SettledInv, circle' \in Circles, circle.paid \subseteq circle'.paid, balance' \in Nat,
           UNCHANGED <<contribCache, rowRound, kye, vaultState, submittedVaultBalance, outcome>>
    PROVE  SettledInv'
BY DEF SettledInv, PageTypes, PageRound

LEMMA PageKeepsSettled ==
    ASSUME SettledInv, UNCHANGED <<circle, balance, contribCache, rowRound, vaultState>>,
           \/ kye' = kye
           \/ kye' = Circle!NotLoaded /\ outcome' = "none",
           \/ outcome' \in {outcome, "none", "failed"}
           \/ kye.loaded /\ kye.paid,
           submittedVaultBalance' \in {submittedVaultBalance, vaultState}
    PROVE  SettledInv'
BY DEF SettledInv, PageTypes, PageRound, Circle!NotLoaded

LEMMA NextRoundTyped ==
    ASSUME Circle!CircleAssumption, circle \in Circles
    PROVE  Circle!NextRound \in Circles /\ Circle!NextRound.paid = circle.paid
<1>1. CASE circle.currentRound = memberCount
  BY <1>1 DEF Circles, Circle!NextRound
<1>2. CASE circle.currentRound # memberCount
  <2>1. circle.currentRound + 1 \in Circle!Round
    BY <1>2 DEF Circles, Circle!Round, Circle!CircleAssumption
  <2>2. Circle!NextRound = [circle EXCEPT !.currentRound = circle.currentRound + 1]
    BY <1>2 DEF Circle!NextRound
  <2>. HIDE DEF Circle!Round
  <2>3. QED
    BY <2>1, <2>2 DEF Circles
<1>3. QED
  BY <1>1, <1>2

(* What a message does to the circle.                                       *)
LEMMA circleReceivesGrows ==
    ASSUME Circle!CircleAssumption, circle \in Circles, NEW c \in PageCall, NEW due \in BOOLEAN,
           Circle!circleReceives(c, due)
    PROVE  circle' \in Circles /\ circle.paid \subseteq circle'.paid
<1>1. CASE what[c].message = "contribute"
  <2>1. CASE Circle!Acceptable(c)
    <3>1. circle' = [circle EXCEPT !.paid = circle.paid \cup {what[c].round}]
      BY <1>1, <2>1 DEF Circle!circleReceives
    <3>2. what[c].round \in Circle!Round
      BY <2>1 DEF Circle!Acceptable, Circles
    <3>3. QED
      BY <3>1, <3>2 DEF Circles
  <2>2. CASE ~Circle!Acceptable(c)
    BY <1>1, <2>2 DEF Circle!circleReceives
  <2>3. QED
    BY <2>1, <2>2
<1>2. CASE what[c].message = "execute"
  BY <1>2, NextRoundTyped DEF Circle!circleReceives
<1>3. CASE what[c].message = "cancel"
  BY <1>3 DEF Circle!circleReceives, Circles
<1>4. QED
  BY <1>1, <1>2, <1>3 DEF Circle!circleReceives

LEMMA loadsKeepSettled ==
    ASSUME Circle!CircleAssumption, SettledInv, NEW ok \in BOOLEAN, NEW late \in BOOLEAN,
           Circle!openPage(ok, late) \/ Circle!changeLanguage(ok, late)
    PROVE  SettledInv'
<1>. DEFINE slot == IF row = "active" THEN Circle!readPaidSlots(PageRound, ok) ELSE "pending"
<1>0. Circle!load(ok, late) /\ UNCHANGED <<circle, balance, rowRound, row, outcome>>
  BY DEF Circle!openPage, Circle!changeLanguage, Circle!ChainUnchanged
<1>1. /\ UNCHANGED <<circle, balance, rowRound>> /\ PageRound' = PageRound
      /\ contribCache' = IF row = "active" THEN [contribCache EXCEPT ![PageRound] = slot]
                                           ELSE contribCache
      /\ kye'.loaded /\ kye'.currentRound = PageRound /\ (kye'.paid => slot = "paid")
      /\ vaultState' = submittedVaultBalance' /\ vaultState' \in {vaultState, balance}
      /\ outcome' = outcome
  <2>1. /\ contribCache' = IF row = "active" THEN [contribCache EXCEPT ![PageRound] = slot]
                                             ELSE contribCache
        /\ kye' = [loaded |-> TRUE, status |-> row, currentRound |-> PageRound,
                   paid |-> slot = "paid", pastGrace |-> rowRound = Circle!NoRow \/ late]
    BY <1>0 DEF Circle!load, PageRound
  <2>2. kye'.loaded /\ kye'.currentRound = PageRound /\ (kye'.paid => slot = "paid")
    BY <2>1
  <2>3. vaultState' = submittedVaultBalance' /\ vaultState' \in {vaultState, balance}
    BY DEF Circle!openPage, Circle!changeLanguage, SettledInv
  <2>4. QED
    BY <1>0, <2>1, <2>2, <2>3 DEF PageRound
<1>2. PageRound \in Circle!Round
  BY DEF PageRound, SettledInv, PageTypes, Circle!CircleAssumption, Circle!Round
<1>3. slot \in {"paid", "pending"} /\ (slot = "paid" => PageRound \in circle.paid)
  BY <1>2 DEF Circle!readPaidSlots, SettledInv, PageTypes
<1>. HIDE DEF slot
<1>4. PageTypes'
  BY <1>1, <1>3 DEF SettledInv, PageTypes
<1>5. \A r \in Circle!Round : contribCache'[r] = "paid" => r \in circle'.paid
  BY <1>1, <1>2, <1>3 DEF SettledInv, PageTypes
<1>6. kye'.loaded /\ kye'.currentRound = PageRound /\ (kye'.paid => PageRound \in circle.paid)
  BY <1>1, <1>3
<1>7. vaultState' = submittedVaultBalance' /\ vaultState' \in Nat
  BY <1>1 DEF SettledInv, PageTypes
<1>8. QED
  BY <1>1, <1>4, <1>5, <1>6, <1>7 DEF SettledInv

(* The buttons, and what their requests come back to.                       *)
LEMMA buttonsKeepSettled ==
    ASSUME SettledInv, CallsInv, NEW c \in PageCall,
           \/ Circle!contribute(c) \/ Circle!executeRound(c) \/ Circle!deleteCircle(c)
           \/ \E result \in {"ok", "failed"} : Circle!relayReturns(c, result)
    PROVE  SettledInv'
<1>. USE DEF Circle!ServerUnchanged, Circle!ChainUnchanged
<1>1. ASSUME Circle!contribute(c) PROVE SettledInv'
  BY <1>1, PageKeepsSettled DEF Circle!contribute, Circle!Relay
<1>2. ASSUME Circle!executeRound(c) PROVE SettledInv'
  BY <1>2, PageKeepsSettled DEF Circle!executeRound, Circle!Relay
<1>3. ASSUME Circle!deleteCircle(c) PROVE SettledInv'
  BY <1>3, PageKeepsSettled DEF Circle!deleteCircle, Circle!Relay
<1>4. ASSUME NEW result \in {"ok", "failed"}, Circle!relayReturns(c, result) PROVE SettledInv'
  <2>1. UNCHANGED <<circle, balance, contribCache, rowRound, vaultState, submittedVaultBalance>>
    BY <1>4 DEF Circle!relayReturns
  <2>2. \/ Circle!contributeReturns(c, result) \/ Circle!executeReturns(c)
        \/ Circle!deleteReturns(c, result)
    BY <1>4 DEF Circle!relayReturns, Circle!Answer, CallsInv
  <2>3. \/ kye' = kye /\ outcome' \in {outcome, "failed"}
        \/ kye' = Circle!NotLoaded /\ outcome' = "none"
    BY <2>2 DEF Circle!contributeReturns, Circle!executeReturns, Circle!deleteReturns, Circle!closes
  <2>4. QED
    BY <2>1, <2>3, PageKeepsSettled
<1>5. QED
  BY <1>1, <1>2, <1>3, <1>4

LEMMA bannersKeepSettled ==
    ASSUME SettledInv,
           \/ Circle!closePage \/ Circle!contributeTooPoor \/ Circle!paidWatcher
           \/ Circle!watchdog \/ Circle!deletionExpires
    PROVE  SettledInv'
<1>. USE PageKeepsSettled DEF Circle!ServerUnchanged, Circle!ChainUnchanged
<1>1. ASSUME Circle!closePage PROVE SettledInv'
  BY <1>1 DEF Circle!closePage, Circle!closes
<1>2. ASSUME Circle!contributeTooPoor PROVE SettledInv'
  BY <1>2 DEF Circle!contributeTooPoor
<1>3. ASSUME Circle!paidWatcher PROVE SettledInv'
  BY <1>3 DEF Circle!paidWatcher, Circle!Release
<1>4. ASSUME Circle!watchdog PROVE SettledInv'
  <2>1. ~(vaultState < submittedVaultBalance)
    BY DEF SettledInv
  <2>2. QED
    BY <1>4, <2>1 DEF Circle!watchdog, Circle!Release
<1>5. ASSUME Circle!deletionExpires PROVE SettledInv'
  BY <1>5 DEF Circle!deletionExpires
<1>6. QED
  BY <1>1, <1>2, <1>3, <1>4, <1>5

LEMMA cacheKeepsSettled ==
    ASSUME SettledInv, NEW r \in Circle!Round, Circle!cacheExpires(r) PROVE SettledInv'
BY DEF Circle!cacheExpires, Circle!PageUnchanged, Circle!ChainUnchanged, SettledInv, PageTypes,
       PageRound

LEMMA chainKeepsSettled ==
    ASSUME Circle!CircleAssumption, SettledInv,
           \/ Circle!othersStart \/ Circle!othersExecuteRound \/ Circle!index
           \/ \E c \in PageCall :
                \/ Circle!vaultExecutes(c) \/ Circle!bounceReturns(c)
                \/ \E due \in BOOLEAN : Circle!circleReceives(c, due)
    PROVE  SettledInv'
<1>. USE DEF Circle!PageUnchanged, Circle!ServerUnchanged, Circle!ChainUnchanged
<1>1. circle \in Circles /\ balance \in Nat
  BY DEF SettledInv, PageTypes
<1>2. UNCHANGED <<contribCache, rowRound, kye, vaultState, submittedVaultBalance, outcome>>
  BY DEF Circle!othersStart, Circle!othersExecuteRound, Circle!index, Circle!vaultExecutes,
         Circle!bounceReturns, Circle!circleReceives
<1>3. balance' \in Nat
  BY <1>1 DEF Circle!othersStart, Circle!othersExecuteRound, Circle!index, Circle!vaultExecutes,
              Circle!bounceReturns, Circle!circleReceives
<1>4. circle' \in Circles /\ circle.paid \subseteq circle'.paid
  <2>1. CASE Circle!othersStart
    BY <1>1, <2>1 DEF Circle!othersStart, Circles
  <2>2. CASE Circle!othersExecuteRound
    BY <1>1, <2>2, NextRoundTyped DEF Circle!othersExecuteRound
  <2>3. CASE circle' = circle
    BY <1>1, <2>3
  <2>4. ASSUME NEW c \in PageCall, NEW due \in BOOLEAN, Circle!circleReceives(c, due)
        PROVE  circle' \in Circles /\ circle.paid \subseteq circle'.paid
    BY <1>1, <2>4, circleReceivesGrows
  <2>5. QED
    BY <2>1, <2>2, <2>3, <2>4 DEF Circle!index, Circle!vaultExecutes, Circle!bounceReturns
<1>5. QED
  BY <1>2, <1>3, <1>4, ChainKeepsSettled

LEMMA SettledStep ==
    ASSUME Circle!CircleAssumption, CallsInv, SettledInv, [Next]_vars PROVE SettledInv'
<1>1. CASE UNCHANGED pageVars
  BY <1>1, PageKeepsSettled DEF pageVars
<1>2. CASE Circle!CircleNext
  BY <1>2, loadsKeepSettled, buttonsKeepSettled, bannersKeepSettled, cacheKeepsSettled,
     chainKeepsSettled
  DEF Circle!CircleNext
<1>3. QED
  BY <1>1, <1>2
  DEF Next, Activates, UsesWallet, UsesCircle, CreatesCircle, JoinsCircle, TalksToBot, vars

(* Whatever is lost, cached or late: the page calls a contribution settled  *)
(* only when the circle has recorded one for the round it shows             *)
(* (page.tsx:91-100, kyes.ts:17-54).                                        *)
THEOREM SettledTheorem == Spec => []SuccessIsSettled
<1>1. Circle!CircleAssumption
  BY VisitsAssumption
<1>2. Init => CallsInv /\ SettledInv
  BY <1>1, CallsInitially, SettledInitially DEF Init
<1>3. CallsInv /\ SettledInv /\ [Next]_vars => CallsInv' /\ SettledInv'
  BY <1>1, CallsStep, SettledStep
<1>4. SettledInv => SuccessIsSettled
  BY SettledInvImplies
<1>5. QED
  BY <1>2, <1>3, <1>4, PTL DEF Spec

-----------------------------------------------------------------------------

(* Contributions that left the vault and have not reached the circle.       *)
InFlight == {c \in toCircle : what[c].message = "contribute"}
ChargedInv ==
    /\ circle \in Circles /\ balance \in Nat
    /\ VaultBalance = balance + Cardinality(circle.paid) + Cardinality(bounced)
                       + Cardinality(InFlight)

(* The finite sets of the instance are those of the library.                *)
LEMMA SameFiniteSets ==
    ASSUME NEW S
    PROVE  /\ Circle!IsFiniteSet(S) <=> IsFiniteSet(S)
           /\ Circle!Cardinality(S) = Cardinality(S)
<1>1. Circle!IsFiniteSet(S) <=> IsFiniteSet(S)
  BY DEF Circle!IsFiniteSet, IsFiniteSet
<1>2. Circle!Cardinality(S) = Cardinality(S)
  BY DEF Circle!Cardinality, Cardinality
<1>3. QED
  BY <1>1, <1>2

LEMMA PageSetsFinite ==
    ASSUME Circle!CircleAssumption, CallsInv, ChargedInv
    PROVE  /\ IsFiniteSet(circle.paid) /\ Cardinality(circle.paid) \in Nat
           /\ IsFiniteSet(bounced) /\ Cardinality(bounced) \in Nat
           /\ IsFiniteSet(InFlight) /\ Cardinality(InFlight) \in Nat
<1>1. IsFiniteSet(1..memberCount)
  BY FS_Interval DEF Circle!CircleAssumption
<1>2. circle.paid \subseteq 1..memberCount
  BY DEF ChargedInv, Circles, Circle!Round
<1>3. bounced \subseteq PageCall /\ InFlight \subseteq PageCall /\ IsFiniteSet(PageCall)
  BY SameFiniteSets DEF CallsInv, InFlight, Circle!CircleAssumption
<1>4. IsFiniteSet(circle.paid) /\ IsFiniteSet(bounced) /\ IsFiniteSet(InFlight)
  BY <1>1, <1>2, <1>3, FS_Subset
<1>5. QED
  BY <1>4, FS_CardinalityType

LEMMA ChargedInitially == ASSUME Circle!CircleAssumption, Circle!CircleInit PROVE ChargedInv
<1>1. circle.paid = {} /\ bounced = {} /\ InFlight = {} /\ balance = VaultBalance
  BY DEF Circle!CircleInit, InFlight
<1>2. Cardinality({}) = 0
  BY FS_EmptySet
<1>3. circle \in Circles
  BY DEF Circle!CircleInit, Circle!CircleAssumption, Circles, Circle!Round
<1>4. QED
  BY <1>1, <1>2, <1>3 DEF ChargedInv, Circle!CircleAssumption

(* The vault pays: one more is on its way.                                  *)
LEMMA vaultExecutesKeepsCharged ==
    ASSUME Circle!CircleAssumption, CallsInv, ChargedInv, NEW c \in PageCall,
           Circle!vaultExecutes(c)
    PROVE  ChargedInv'
<1>1. /\ UNCHANGED <<circle, bounced, what>> /\ toCircle' = toCircle \cup {c}
      /\ c \notin toCircle
  BY DEF Circle!vaultExecutes, Circle!Execute, CallsInv
<1>2. CASE what[c].message = "contribute"
  <2>1. InFlight' = InFlight \cup {c} /\ c \notin InFlight
    BY <1>1, <1>2 DEF InFlight
  <2>2. Cardinality(InFlight') = Cardinality(InFlight) + 1
    BY <2>1, PageSetsFinite, FS_AddElement
  <2>3. balance' = balance - 1 /\ balance >= 1
    BY <1>2 DEF Circle!vaultExecutes
  <2>4. QED
    BY <1>1, <2>2, <2>3, PageSetsFinite DEF ChargedInv
<1>3. CASE what[c].message # "contribute"
  <2>1. InFlight' = InFlight /\ balance' = balance
    BY <1>1, <1>3 DEF InFlight, Circle!vaultExecutes
  <2>2. QED
    BY <1>1, <2>1 DEF ChargedInv
<1>4. QED
  BY <1>2, <1>3

(* The circle records it, or sends it back.                                 *)
LEMMA circleReceivesKeepsCharged ==
    ASSUME Circle!CircleAssumption, CallsInv, ChargedInv, NEW c \in PageCall,
           NEW due \in BOOLEAN, Circle!circleReceives(c, due)
    PROVE  ChargedInv'
<1>1. /\ UNCHANGED <<balance, what>> /\ toCircle' = toCircle \ {c} /\ c \in toCircle
      /\ c \notin bounced
  BY DEF Circle!circleReceives, CallsInv
<1>2. circle \in Circles /\ circle' \in Circles
  BY circleReceivesGrows DEF ChargedInv
<1>3. CASE what[c].message = "contribute"
  <2>1. InFlight' = InFlight \ {c} /\ c \in InFlight
    BY <1>1, <1>3 DEF InFlight
  <2>2. Cardinality(InFlight') = Cardinality(InFlight) - 1
    BY <2>1, PageSetsFinite, FS_RemoveElement
  <2>3. CASE Circle!Acceptable(c)
    <3>1. circle' = [circle EXCEPT !.paid = circle.paid \cup {what[c].round}]
          /\ bounced' = bounced
      BY <1>3, <2>3 DEF Circle!circleReceives
    <3>2. circle'.paid = circle.paid \cup {what[c].round} /\ what[c].round \notin circle.paid
      BY <1>2, <2>3, <3>1 DEF Circles, Circle!Acceptable
    <3>3. Cardinality(circle'.paid) = Cardinality(circle.paid) + 1
      BY <3>2, PageSetsFinite, FS_AddElement
    <3>4. QED
      BY <1>1, <1>2, <2>2, <3>1, <3>3, PageSetsFinite DEF ChargedInv
  <2>4. CASE ~Circle!Acceptable(c)
    <3>1. bounced' = bounced \cup {c} /\ circle' = circle
      BY <1>3, <2>4 DEF Circle!circleReceives
    <3>2. Cardinality(bounced') = Cardinality(bounced) + 1
      BY <1>1, <3>1, PageSetsFinite, FS_AddElement
    <3>3. QED
      BY <1>1, <2>2, <3>1, <3>2, PageSetsFinite DEF ChargedInv
  <2>5. QED
    BY <2>3, <2>4
<1>4. CASE what[c].message # "contribute"
  <2>1. InFlight' = InFlight /\ bounced' = bounced
    BY <1>1, <1>4 DEF InFlight, Circle!circleReceives
  <2>2. circle'.paid = circle.paid
    BY <1>2, <1>4, NextRoundTyped DEF Circle!circleReceives, Circles
  <2>3. QED
    BY <1>1, <1>2, <2>1, <2>2 DEF ChargedInv
<1>5. QED
  BY <1>3, <1>4

LEMMA bounceReturnsKeepsCharged ==
    ASSUME Circle!CircleAssumption, CallsInv, ChargedInv, NEW c \in PageCall,
           Circle!bounceReturns(c)
    PROVE  ChargedInv'
<1>1. /\ UNCHANGED <<circle, toCircle, what>> /\ balance' = balance + 1
      /\ c \in bounced /\ bounced' = bounced \ {c}
  BY DEF Circle!bounceReturns
<1>2. Cardinality(bounced') = Cardinality(bounced) - 1
  BY <1>1, PageSetsFinite, FS_RemoveElement
<1>3. InFlight' = InFlight
  BY <1>1 DEF InFlight
<1>4. QED
  BY <1>1, <1>2, <1>3, PageSetsFinite DEF ChargedInv

(* Everything else leaves the vault's balance and what was paid alone.      *)
LEMMA ChargedElsewhere ==
    ASSUME ChargedInv, CallsInv, UNCHANGED <<balance, bounced, toCircle>>,
           circle' \in Circles, circle'.paid = circle.paid,
           \A c \in pageAsked : what'[c] = what[c]
    PROVE  ChargedInv'
<1>1. InFlight' = InFlight
  BY DEF InFlight, CallsInv
<1>2. QED
  BY <1>1 DEF ChargedInv

LEMMA ChargedStep ==
    ASSUME Circle!CircleAssumption, CallsInv, ChargedInv, [Next]_vars PROVE ChargedInv'
<1>. USE DEF Circle!ChainUnchanged, Circle!PageUnchanged, Circle!ServerUnchanged
<1>1. ASSUME UNCHANGED <<balance, bounced, toCircle, circle, what>> PROVE ChargedInv'
  BY <1>1, ChargedElsewhere DEF ChargedInv
<1>2. ASSUME NEW c \in PageCall, NEW message, Circle!Relay(c, message) PROVE ChargedInv'
  <2>1. /\ c \notin pageAsked /\ UNCHANGED <<balance, bounced, toCircle, circle>>
        /\ what' = [what EXCEPT ![c] = [message |-> message, round |-> kye.currentRound]]
    BY <1>2 DEF Circle!Relay, Circle!signAndRelay
  <2>2. \A d \in pageAsked : what'[d] = what[d]
    BY <2>1 DEF CallsInv
  <2>3. QED
    BY <2>1, <2>2, ChargedElsewhere DEF ChargedInv
<1>3. ASSUME Circle!othersStart \/ Circle!othersExecuteRound PROVE ChargedInv'
  <2>1. circle' \in Circles /\ circle'.paid = circle.paid
    BY <1>3, NextRoundTyped
    DEF Circle!othersStart, Circle!othersExecuteRound, ChargedInv, Circles
  <2>2. UNCHANGED <<balance, bounced, toCircle, what>>
    BY <1>3 DEF Circle!othersStart, Circle!othersExecuteRound
  <2>3. QED
    BY <2>1, <2>2, ChargedElsewhere
<1>4. CASE Circle!CircleNext
  <2>1. \/ UNCHANGED <<balance, bounced, toCircle, circle, what>>
        \/ Circle!othersStart \/ Circle!othersExecuteRound
        \/ \E c \in PageCall :
            \/ \E message \in {"contribute", "execute", "cancel"} : Circle!Relay(c, message)
            \/ Circle!vaultExecutes(c) \/ Circle!bounceReturns(c)
            \/ \E due \in BOOLEAN : Circle!circleReceives(c, due)
    BY <1>4
    DEF Circle!CircleNext, Circle!closePage, Circle!contributeTooPoor, Circle!paidWatcher,
        Circle!watchdog, Circle!Release, Circle!deletionExpires, Circle!index, Circle!openPage,
        Circle!changeLanguage, Circle!cacheExpires, Circle!contribute, Circle!executeRound,
        Circle!deleteCircle, Circle!relayReturns
  <2>2. QED
    BY <1>1, <1>2, <1>3, <2>1, vaultExecutesKeepsCharged, circleReceivesKeepsCharged,
       bounceReturnsKeepsCharged
<1>5. CASE UNCHANGED pageVars
  BY <1>1, <1>5 DEF pageVars
<1>6. QED
  BY <1>4, <1>5
  DEF Next, Activates, UsesWallet, UsesCircle, CreatesCircle, JoinsCircle, TalksToBot, vars

(* However often a member presses the button, on whatever page: his vault   *)
(* has paid one contribution for every round the circle recorded, and the   *)
(* others are on their way (page.tsx:74-81, KyeContract.tact:190-199).      *)
THEOREM ChargedTheorem == Spec => []ContributionCharged
<1>1. Circle!CircleAssumption
  BY VisitsAssumption
<1>2. Init => CallsInv /\ ChargedInv
  BY <1>1, CallsInitially, ChargedInitially DEF Init
<1>3. CallsInv /\ ChargedInv /\ [Next]_vars => CallsInv' /\ ChargedInv'
  BY <1>1, CallsStep, ChargedStep
<1>4. ChargedInv => ContributionCharged
  BY SameFiniteSets DEF ChargedInv, InFlight, ContributionCharged, Circle!ContributionCharged
<1>5. QED
  BY <1>2, <1>3, <1>4, PTL DEF Spec

(* A circle's page, beside CallsInv, SettledInv and ChargedInv.             *)
BannersTyped ==
    /\ row \in {"created", "active", "completed", "cancelled"}
    /\ kye.currentRound \in Circle!Round
    /\ vaultState \in 0..VaultBalance /\ submittedVaultBalance \in 0..VaultBalance
    /\ outcome \in {"none", "success", "failed"}
    /\ pending \subseteq {"execute", "cancel"} /\ mine \subseteq PageCall
LEMMA BalanceBounded ==
    ASSUME Circle!CircleAssumption, CallsInv, ChargedInv PROVE balance \in 0..VaultBalance
<1>1. PICK m \in Nat : m = Cardinality(circle.paid)
  BY PageSetsFinite
<1>2. PICK n \in Nat : n = Cardinality(bounced)
  BY PageSetsFinite
<1>3. PICK k \in Nat : k = Cardinality(InFlight)
  BY PageSetsFinite
<1>4. VaultBalance = balance + m + n + k /\ balance \in Nat
  BY <1>1, <1>2, <1>3 DEF ChargedInv
<1>5. QED
  BY <1>4 DEF Circle!CircleAssumption
LEMMA CircleTyped ==
    ASSUME Circle!CircleAssumption, CallsInv, SettledInv, ChargedInv, BannersTyped
    PROVE  Circle!CircleTypeOK
<1>1. balance \in 0..VaultBalance
  BY BalanceBounded
<1>2. toCircle \subseteq PageCall /\ bounced \subseteq PageCall
  BY DEF CallsInv
<1>3. QED
  BY <1>1, <1>2 DEF SettledInv, PageTypes, Circles, BannersTyped, Circle!CircleTypeOK
LEMMA BannersStep ==
    ASSUME Circle!CircleAssumption, CallsInv, SettledInv, ChargedInv, BannersTyped, [Next]_vars
    PROVE  BannersTyped'
<1>. DEFINE shown == <<kye, vaultState, submittedVaultBalance, outcome, pending, mine>>
<1>1. ASSUME UNCHANGED row, UNCHANGED shown PROVE BannersTyped'
  BY <1>1 DEF BannersTyped
<1>2. ASSUME Circle!index PROVE BannersTyped'
  BY <1>2 DEF Circle!index, Circle!PageUnchanged, BannersTyped, SettledInv, PageTypes, Circles
<1>3. (IF rowRound = Circle!NoRow THEN 1 ELSE rowRound) \in Circle!Round
  BY DEF SettledInv, PageTypes, Circle!CircleAssumption, Circle!Round, Circle!NoRow
<1>4. ASSUME NEW ok \in BOOLEAN, NEW late \in BOOLEAN, Circle!load(ok, late)
      PROVE  kye'.currentRound \in Circle!Round
  BY <1>3, <1>4 DEF Circle!load
<1>5. ASSUME NEW ok \in BOOLEAN, NEW late \in BOOLEAN,
             Circle!openPage(ok, late) \/ Circle!changeLanguage(ok, late)
      PROVE  BannersTyped'
  <2>1. kye'.currentRound \in Circle!Round
    BY <1>4, <1>5 DEF Circle!openPage, Circle!changeLanguage
  <2>2. balance \in 0..VaultBalance
    BY BalanceBounded
  <2>3. /\ vaultState' \in {vaultState, balance}
        /\ submittedVaultBalance' \in {submittedVaultBalance, balance}
        /\ UNCHANGED <<row, outcome, pending, mine>>
    BY <1>5 DEF Circle!openPage, Circle!changeLanguage
  <2>4. QED
    BY <2>1, <2>2, <2>3 DEF BannersTyped
<1>6. ASSUME Circle!closes, UNCHANGED <<row, vaultState, submittedVaultBalance>>
      PROVE  BannersTyped'
  BY <1>6 DEF Circle!closes, Circle!NotLoaded, BannersTyped, Circle!CircleAssumption, Circle!Round
<1>7. ASSUME NEW banner \in {"success", "failed"}, Circle!Release(banner) PROVE BannersTyped'
  BY <1>7 DEF Circle!Release, Circle!ServerUnchanged, BannersTyped
<1>8. ASSUME Circle!contributeTooPoor PROVE BannersTyped'
  BY <1>8 DEF Circle!contributeTooPoor, Circle!ServerUnchanged, BannersTyped
<1>9. ASSUME NEW c \in PageCall,
             Circle!contribute(c) \/ Circle!executeRound(c) \/ Circle!deleteCircle(c)
      PROVE  BannersTyped'
  <2>1. /\ UNCHANGED <<row, kye, vaultState>> /\ mine' = mine \cup {c}
        /\ outcome' \in {outcome, "none"}
        /\ submittedVaultBalance' \in {submittedVaultBalance, vaultState}
        /\ pending' \subseteq pending \cup {"execute", "cancel"}
    BY <1>9 DEF Circle!contribute, Circle!executeRound, Circle!deleteCircle, Circle!Relay,
                Circle!ServerUnchanged
  <2>2. QED
    BY <2>1 DEF BannersTyped
<1>10. ASSUME NEW c \in PageCall, NEW result \in {"ok", "failed"}, Circle!relayReturns(c, result)
       PROVE  BannersTyped'
  <2>1. UNCHANGED <<row, vaultState, submittedVaultBalance>>
    BY <1>10 DEF Circle!relayReturns, Circle!ServerUnchanged
  <2>2. what[c].message \in {"contribute", "execute", "cancel"}
    BY <1>10 DEF Circle!relayReturns, Circle!Answer, CallsInv
  <2>3. CASE Circle!contributeReturns(c, result)
    BY <2>1, <2>3 DEF Circle!contributeReturns, BannersTyped
  <2>4. CASE Circle!executeReturns(c)
    BY <2>1, <2>4 DEF Circle!executeReturns, BannersTyped
  <2>5. CASE Circle!deleteReturns(c, result)
    <3>1. CASE result = "ok"
      BY <1>6, <2>1, <2>5, <3>1 DEF Circle!deleteReturns
    <3>2. CASE result # "ok"
      BY <2>1, <2>5, <3>2 DEF Circle!deleteReturns, BannersTyped
    <3>3. QED
      BY <3>1, <3>2
  <2>6. QED
    BY <1>10, <2>2, <2>3, <2>4, <2>5 DEF Circle!relayReturns
<1>11. CASE Circle!CircleNext
  <2>1. \/ UNCHANGED row /\ UNCHANGED shown
        \/ Circle!closePage \/ Circle!contributeTooPoor \/ Circle!paidWatcher \/ Circle!watchdog
        \/ Circle!index
        \/ \E ok, late \in BOOLEAN : Circle!openPage(ok, late) \/ Circle!changeLanguage(ok, late)
        \/ \E c \in PageCall :
            \/ Circle!contribute(c) \/ Circle!executeRound(c) \/ Circle!deleteCircle(c)
            \/ \E result \in {"ok", "failed"} : Circle!relayReturns(c, result)
    BY <1>11
    DEF Circle!CircleNext, Circle!deletionExpires, Circle!othersStart, Circle!othersExecuteRound,
        Circle!cacheExpires, Circle!vaultExecutes, Circle!bounceReturns, Circle!circleReceives,
        Circle!PageUnchanged, Circle!ServerUnchanged
  <2>2. CASE Circle!closePage
    BY <1>6, <2>2 DEF Circle!closePage, Circle!ServerUnchanged
  <2>3. CASE Circle!paidWatcher \/ Circle!watchdog
    BY <1>7, <2>3 DEF Circle!paidWatcher, Circle!watchdog
  <2>4. QED
    BY <1>1, <1>2, <1>5, <1>8, <1>9, <1>10, <2>1, <2>2, <2>3
<1>12. CASE UNCHANGED pageVars
  BY <1>1, <1>12 DEF pageVars
<1>13. QED
  BY <1>11, <1>12
  DEF Next, Activates, UsesWallet, UsesCircle, CreatesCircle, JoinsCircle, TalksToBot, vars

CirclePageInv == CallsInv /\ SettledInv /\ ChargedInv /\ BannersTyped
LEMMA CirclePageInvariant == Spec => []CirclePageInv
<1>1. Circle!CircleAssumption
  BY VisitsAssumption
<1>2. Init => BannersTyped
  BY <1>1 DEF Init, Circle!CircleInit, Circle!NotLoaded, Circle!CircleAssumption, Circle!Round,
              BannersTyped
<1>3. Init => CirclePageInv
  BY <1>1, <1>2, CallsInitially, SettledInitially, ChargedInitially DEF Init, CirclePageInv
<1>4. CirclePageInv /\ [Next]_vars => CirclePageInv'
  BY <1>1, CallsStep, SettledStep, ChargedStep, BannersStep DEF CirclePageInv
<1>5. QED
  BY <1>3, <1>4, PTL DEF Spec

-----------------------------------------------------------------------------
(* Activation.  Until a CloudStorage call fails or loses its caller, or two *)
(* devices are without a key at once, there is one key: a device that finds *)
(* none makes the first, and whoever looks later finds it in the cloud, or  *)
(* on the device that still saves it.                                       *)

LookupAt == {"idle", "cloudGet", "localGet", "cloudSet", "done"}
Keyless == {"localGet", "cloudSet"}
Calls == Device \X {"derive", "activate"}
Made == 1..generated
MadeOrNone == 0..generated
ActTypes ==
    /\ generated \in 0..MaxKeys
    /\ cloud \in MadeOrNone
    /\ local \in [Device -> MadeOrNone]
    /\ backfill \in [Device -> MadeOrNone]
    /\ lookup \in [Calls -> [at : LookupAt, seed : MadeOrNone]]
    /\ disturbed \in BOOLEAN
    /\ hook \in [Device -> [vaultAddress : MadeOrNone, ready : BOOLEAN,
                            at : {"idle", "key", "register", "poll"}]]
    /\ synced \in [Device -> {"off", "saving", "idle"}]
    /\ users \in [wallet : BOOLEAN, vault_address : MadeOrNone]
    /\ approved \subseteq Made /\ deployed \subseteq Made
    /\ notRegistered \in BOOLEAN
    /\ activations \in 0..MaxActivations
LookupsInv ==
    /\ \A c \in Calls : lookup[c].at \in {"cloudSet", "done"} => lookup[c].seed # 0
    /\ \A c \in Calls : lookup[c].at = "cloudSet" => local[c[1]] # 0
    /\ \A d \in Device : hook[d].at = "register" => lookup[<<d, "activate">>].at = "done"
OneKeyInv ==
    ~disturbed =>
        /\ generated \in {0, 1}
        /\ generated = 1 => cloud = 1 \/ \E c \in Calls : lookup[c].at = "cloudSet"
        /\ \A b, c \in Calls :
              lookup[b].at \in Keyless /\ lookup[c].at \in Keyless => b[1] = c[1]
        /\ \A c \in Calls : lookup[c].at = "localGet" /\ generated = 1 => local[c[1]] # 0
(* What is on its way to the chain, or there, was reported to the backend.  *)
ReportedInv ==
    /\ approved \cup deployed # {} =>
        \/ users.vault_address # 0 \/ notRegistered
        \/ \E d \in Device : hook[d].at = "register"
    /\ \A d \in Device : hook[d].ready => deployed # {}
ActInv == ActTypes /\ LookupsInv /\ OneKeyInv /\ ReportedInv

LEMMA ActInitially ==
    ASSUME Onboarding!ActAssumption, Onboarding!KeysInit, Onboarding!ActInit PROVE ActInv
<1>1. ActTypes
  <2>1. generated = 0 /\ 0 \in MadeOrNone /\ generated \in 0..MaxKeys
        /\ activations \in 0..MaxActivations
    BY DEF Onboarding!ActAssumption, Onboarding!KeysInit, Onboarding!ActInit, MadeOrNone
  <2>2. /\ cloud \in MadeOrNone /\ local \in [Device -> MadeOrNone]
        /\ backfill \in [Device -> MadeOrNone] /\ disturbed \in BOOLEAN
        /\ lookup \in [Calls -> [at : LookupAt, seed : MadeOrNone]]
    BY <2>1 DEF Onboarding!KeysInit, Calls, LookupAt, Onboarding!Lookup, Onboarding!NoKey
  <2>3. /\ hook \in [Device -> [vaultAddress : MadeOrNone, ready : BOOLEAN,
                                at : {"idle", "key", "register", "poll"}]]
        /\ synced \in [Device -> {"off", "saving", "idle"}]
        /\ users \in [wallet : BOOLEAN, vault_address : MadeOrNone]
        /\ approved \subseteq Made /\ deployed \subseteq Made /\ notRegistered \in BOOLEAN
    BY <2>1 DEF Onboarding!ActInit, Onboarding!Closed, Onboarding!NoKey
  <2>4. QED  BY <2>1, <2>2, <2>3 DEF ActTypes
<1>2. LookupsInv /\ OneKeyInv /\ ReportedInv
  BY DEF Onboarding!KeysInit, Onboarding!ActInit, LookupsInv, OneKeyInv, ReportedInv, Calls,
         Keyless, Onboarding!Lookup, Onboarding!Closed, Onboarding!NoKey
<1>3. QED
  BY <1>1, <1>2 DEF ActInv

LEMMA OneCall ==
    ASSUME ActInv, NEW c \in Calls
    PROVE  /\ c[1] \in Device /\ lookup[c].seed \in MadeOrNone
           /\ lookup[c].at \in LookupAt
BY DEF ActInv, ActTypes, Calls

(* The cloud's answer to the lookup of a key.                               *)
LEMMA cloudGetKeepsAct ==
    ASSUME ActInv, NEW c \in Calls, NEW ok \in BOOLEAN, Onboarding!cloudGet(c, ok),
           UNCHANGED Onboarding!actVars
    PROVE  ActInv'
<1> DEFINE found == IF ok THEN cloud ELSE 0
           at == IF found = 0 THEN "localGet" ELSE "done"
<1>1. /\ c[1] \in Device /\ lookup[c].at = "cloudGet"
      /\ lookup' = [lookup EXCEPT ![c] = [at |-> at, seed |-> found]]
      /\ UNCHANGED <<cloud, local, backfill, generated>>
      /\ UNCHANGED <<hook, synced, users, approved, deployed, notRegistered, activations>>
  BY OneCall DEF Onboarding!cloudGet, Onboarding!actVars, Onboarding!To, Onboarding!NoKey
<1>2. disturbed' = \/ disturbed \/ ~ok
                   \/ /\ found = 0
                      /\ \E b \in Calls : b[1] # c[1] /\ lookup[b].at \in Keyless
  BY Zenon DEF Onboarding!cloudGet, Onboarding!NoKey, Onboarding!Lookup, Calls,
               Onboarding!DeviceOf, Onboarding!Keyless, Keyless
<1>3. /\ generated \in Nat /\ cloud \in MadeOrNone /\ found \in MadeOrNone
      /\ lookup \in [Calls -> [at : LookupAt, seed : MadeOrNone]]
  BY DEF ActInv, ActTypes, MadeOrNone
<1>4. /\ lookup'[c] = [at |-> at, seed |-> found]
      /\ \A b \in Calls \ {c} : lookup'[b] = lookup[b]
      /\ at \in LookupAt
  BY <1>1, <1>3 DEF LookupAt
<1>5. ActTypes'
  <2>1. disturbed' \in BOOLEAN
    BY <1>2, Zenon
  <2>2. lookup' \in [Calls -> [at : LookupAt, seed : MadeOrNone]]
    BY <1>1, <1>3, <1>4
  <2>3. QED  BY <1>1, <2>1, <2>2 DEF ActInv, ActTypes, MadeOrNone, Made
<1>6. LookupsInv'
  <2>1. ASSUME NEW b \in Calls
        PROVE  /\ lookup'[b].at \in {"cloudSet", "done"} => lookup'[b].seed # 0
               /\ lookup'[b].at = "cloudSet" => local'[b[1]] # 0
    BY <1>1, <1>4, <2>1 DEF ActInv, LookupsInv
  <2>2. ASSUME NEW d \in Device, hook'[d].at = "register"
        PROVE  lookup'[<<d, "activate">>].at = "done"
    <3>1. lookup[<<d, "activate">>].at = "done"
      BY <1>1, <2>2 DEF ActInv, LookupsInv
    <3>2. <<d, "activate">> \in Calls \ {c}
      BY <1>1, <3>1 DEF Calls
    <3>3. QED  BY <1>4, <3>1, <3>2
  <2>3. QED  BY <2>1, <2>2 DEF LookupsInv
<1>7. OneKeyInv'
  <2> SUFFICES ASSUME ~disturbed' PROVE OneKeyInv'
    BY DEF OneKeyInv
  <2>1. /\ ~disturbed /\ ok
        /\ found = 0 => \A b \in Calls : lookup[b].at \in Keyless => b[1] = c[1]
    BY <1>2, Zenon
  <2>2. /\ generated \in {0, 1}
        /\ generated = 1 => cloud = 1 \/ \E b \in Calls : lookup[b].at = "cloudSet"
        /\ \A a, b \in Calls : lookup[a].at \in Keyless /\ lookup[b].at \in Keyless => a[1] = b[1]
        /\ \A b \in Calls : lookup[b].at = "localGet" /\ generated = 1 => local[b[1]] # 0
    BY <2>1, Zenon DEF ActInv, OneKeyInv
  <2>3. generated' = 1 => cloud' = 1 \/ \E b \in Calls : lookup'[b].at = "cloudSet"
    <3>1. \A b \in Calls : lookup[b].at = "cloudSet" => lookup'[b].at = "cloudSet"
      BY <1>1, <1>4
    <3>2. QED  BY <1>1, <2>2, <3>1
  <2>4. ASSUME NEW a \in Calls, NEW b \in Calls, lookup'[a].at \in Keyless, lookup'[b].at \in Keyless
        PROVE  a[1] = b[1]
    <3>1. CASE found = 0
      <4>1. \A e \in Calls : lookup'[e].at \in Keyless => e[1] = c[1]
        BY <1>4, <2>1, <3>1
      <4>2. QED  BY <2>4, <4>1
    <3>2. CASE found # 0
      <4>1. \A e \in Calls : lookup'[e].at \in Keyless => lookup[e].at \in Keyless
        BY <1>4, <3>2 DEF Keyless
      <4>2. QED  BY <2>2, <2>4, <4>1
    <3>3. QED  BY <3>1, <3>2
  <2>5. ASSUME NEW b \in Calls, lookup'[b].at = "localGet", generated' = 1 PROVE local'[b[1]] # 0
    <3>1. CASE b # c
      BY <1>1, <1>4, <2>2, <2>5, <3>1
    <3>2. CASE b = c
      <4>1. found = 0 /\ cloud = 0 /\ generated = 1
        BY <1>1, <1>4, <2>1, <2>5, <3>2
      <4>2. PICK e \in Calls : lookup[e].at = "cloudSet"
        BY <2>2, <4>1
      <4>3. e[1] = c[1] /\ local[e[1]] # 0
        BY <2>1, <4>1, <4>2 DEF Keyless, ActInv, LookupsInv
      <4>4. QED  BY <1>1, <3>2, <4>3
    <3>3. QED  BY <3>1, <3>2
  <2>6. QED  BY <1>1, <2>2, <2>3, <2>4, <2>5 DEF OneKeyInv
<1>8. ReportedInv'
  BY <1>1 DEF ActInv, ReportedInv
<1>9. QED  BY <1>5, <1>6, <1>7, <1>8 DEF ActInv

(* The key of the device, or a new one.                                     *)
LEMMA loadSeedKeepsAct ==
    ASSUME ActInv, NEW c \in Calls, Onboarding!loadSeed(c), UNCHANGED Onboarding!actVars
    PROVE  ActInv'
<1> DEFINE d == c[1]
<1>1. /\ d \in Device /\ lookup[c].at = "localGet" /\ UNCHANGED <<cloud, disturbed>>
      /\ UNCHANGED <<hook, synced, users, approved, deployed, notRegistered, activations>>
  BY OneCall DEF Onboarding!loadSeed, Onboarding!actVars
<1>2. /\ generated \in Nat /\ generated \in 0..MaxKeys /\ MaxKeys \in Nat
      /\ cloud \in MadeOrNone /\ local \in [Device -> MadeOrNone] /\ local[d] \in MadeOrNone
      /\ backfill \in [Device -> MadeOrNone] /\ disturbed \in BOOLEAN
      /\ lookup \in [Calls -> [at : LookupAt, seed : MadeOrNone]]
  BY <1>1, VisitsAssumption DEF ActInv, ActTypes, Onboarding!ActAssumption
<1>3. ~disturbed =>
        /\ generated \in {0, 1}
        /\ generated = 1 => cloud = 1 \/ \E b \in Calls : lookup[b].at = "cloudSet"
        /\ \A a, b \in Calls : lookup[a].at \in Keyless /\ lookup[b].at \in Keyless => a[1] = b[1]
        /\ \A b \in Calls : lookup[b].at = "localGet" /\ generated = 1 => local[b[1]] # 0
  BY Zenon DEF ActInv, OneKeyInv
<1>4. CASE local[d] = 0
  <2>1. /\ generated < MaxKeys /\ generated' = generated + 1
        /\ local' = [local EXCEPT ![d] = generated + 1] /\ UNCHANGED backfill
        /\ lookup' = [lookup EXCEPT ![c] = [at |-> "cloudSet", seed |-> generated + 1]]
    BY <1>4 DEF Onboarding!loadSeed, Onboarding!Generate, Onboarding!To, Onboarding!NoKey,
                Onboarding!DeviceOf
  <2>2. MadeOrNone \subseteq MadeOrNone' /\ Made \subseteq Made' /\ generated + 1 \in MadeOrNone'
    BY <1>2, <2>1 DEF MadeOrNone, Made
  <2>3. /\ generated' \in 0..MaxKeys /\ local' \in [Device -> MadeOrNone']
        /\ lookup' \in [Calls -> [at : LookupAt, seed : MadeOrNone']]
    BY <1>1, <1>2, <2>1, <2>2 DEF LookupAt
  <2>4. ActTypes'
    BY <1>1, <2>1, <2>2, <2>3 DEF ActInv, ActTypes
  <2>5. /\ lookup'[c].at = "cloudSet" /\ lookup'[c].seed # 0 /\ local'[d] = generated + 1
        /\ \A b \in Calls \ {c} : lookup'[b] = lookup[b]
        /\ \A e \in Device \ {d} : local'[e] = local[e]
    BY <1>1, <1>2, <2>1
  <2>6. LookupsInv'
    <3>1. ASSUME NEW b \in Calls
          PROVE  /\ lookup'[b].at \in {"cloudSet", "done"} => lookup'[b].seed # 0
                 /\ lookup'[b].at = "cloudSet" => local'[b[1]] # 0
      <4>1. b[1] \in Device
        BY DEF Calls
      <4>2. QED  BY <1>2, <2>5, <3>1, <4>1 DEF ActInv, LookupsInv
    <3>2. \A e \in Device : hook'[e].at = "register" => lookup'[<<e, "activate">>].at = "done"
      BY <1>1, <2>5 DEF ActInv, LookupsInv, Calls
    <3>3. QED  BY <3>1, <3>2 DEF LookupsInv
  <2>7. OneKeyInv'
    <3> SUFFICES ASSUME ~disturbed' PROVE OneKeyInv'
      BY DEF OneKeyInv
    <3>1. generated = 0 /\ generated' = 1
      BY <1>1, <1>3, <1>4, <2>1
    <3>2. \A b \in Calls : lookup'[b].at \in Keyless => lookup[b].at \in Keyless
      BY <1>1, <2>5 DEF Keyless
    <3>3. \A a, b \in Calls : lookup'[a].at \in Keyless /\ lookup'[b].at \in Keyless => a[1] = b[1]
      BY <1>1, <1>3, <3>2
    <3>4. ASSUME NEW b \in Calls, lookup'[b].at = "localGet" PROVE local'[b[1]] # 0
      <4>1. b[1] = d
        BY <2>5, <3>3, <3>4 DEF Keyless
      <4>2. QED  BY <2>5, <3>1, <4>1
    <3>5. QED  BY <2>5, <3>1, <3>3, <3>4 DEF OneKeyInv
  <2>8. ReportedInv'
    BY <1>1 DEF ActInv, ReportedInv
  <2>9. QED  BY <2>4, <2>6, <2>7, <2>8 DEF ActInv
<1>5. CASE local[d] # 0
  <2>1. /\ lookup' = [lookup EXCEPT ![c] = [at |-> "done", seed |-> local[d]]]
        /\ backfill' = [backfill EXCEPT ![d] = local[d]]
        /\ UNCHANGED <<local, generated>>
    BY <1>5 DEF Onboarding!loadSeed, Onboarding!To, Onboarding!NoKey, Onboarding!DeviceOf,
                Onboarding!Generate
  <2>2. /\ lookup'[c].at = "done" /\ lookup'[c].seed = local[d]
        /\ \A b \in Calls \ {c} : lookup'[b] = lookup[b]
    BY <1>2, <2>1
  <2>3. /\ backfill' \in [Device -> MadeOrNone]
        /\ lookup' \in [Calls -> [at : LookupAt, seed : MadeOrNone]]
    BY <1>1, <1>2, <2>1 DEF LookupAt
  <2>4. ActTypes'
    BY <1>1, <2>1, <2>3 DEF ActInv, ActTypes, MadeOrNone, Made
  <2>5. LookupsInv'
    BY <1>1, <1>5, <2>1, <2>2 DEF ActInv, LookupsInv, Calls
  <2>6. OneKeyInv'
    <3>1. /\ \A b \in Calls : lookup[b].at = "cloudSet" => lookup'[b].at = "cloudSet"
          /\ \A b \in Calls : lookup'[b].at \in Keyless => lookup[b].at = lookup'[b].at
      BY <1>1, <2>2 DEF Keyless
    <3>2. QED  BY <1>1, <1>3, <2>1, <3>1 DEF OneKeyInv, Keyless
  <2>7. ReportedInv'
    BY <1>1 DEF ActInv, ReportedInv
  <2>8. QED  BY <2>4, <2>5, <2>6, <2>7 DEF ActInv
<1>6. QED  BY <1>4, <1>5

LEMMA SeedSavedKeepsAct ==
    ASSUME ActInv, NEW ok \in BOOLEAN,
           \/ \E c \in Calls : Onboarding!persistSeed(c, ok)
           \/ \E d \in Device : Onboarding!backfillLands(d, ok),
           UNCHANGED Onboarding!actVars
    PROVE  ActInv'
<1>1. /\ UNCHANGED <<local, generated>>
      /\ UNCHANGED <<hook, synced, users, approved, deployed, notRegistered, activations>>
  BY DEF Onboarding!persistSeed, Onboarding!backfillLands, Onboarding!actVars
<1>2. disturbed' = (disturbed \/ ~ok)
  BY Zenon DEF Onboarding!persistSeed, Onboarding!backfillLands
<1>3. /\ generated \in Nat /\ cloud \in MadeOrNone /\ backfill \in [Device -> MadeOrNone]
      /\ lookup \in [Calls -> [at : LookupAt, seed : MadeOrNone]]
  BY DEF ActInv, ActTypes
<1>4. PICK key \in MadeOrNone : key # 0 /\ cloud' = IF ok THEN key ELSE cloud
  BY <1>3 DEF ActInv, LookupsInv, Onboarding!persistSeed, Onboarding!backfillLands,
              Onboarding!NoKey
<1>5. \A b \in Calls : \/ lookup'[b] = lookup[b]
                        \/ /\ lookup[b].at = "cloudSet" /\ lookup'[b].at = "done"
                           /\ lookup'[b].seed = lookup[b].seed
  BY <1>3 DEF Onboarding!persistSeed, Onboarding!backfillLands, Onboarding!To
<1>6. /\ lookup' \in [Calls -> [at : LookupAt, seed : MadeOrNone]]
      /\ backfill' \in [Device -> MadeOrNone] /\ cloud' \in MadeOrNone
  <2>1. lookup' \in [Calls -> [at : LookupAt, seed : MadeOrNone]]
    BY <1>3 DEF LookupAt, Onboarding!persistSeed, Onboarding!backfillLands, Onboarding!To
  <2>2. backfill' \in [Device -> MadeOrNone]
    <3>1. 0 \in MadeOrNone
      BY <1>3 DEF MadeOrNone
    <3>2. QED
      BY <1>3, <3>1 DEF Onboarding!persistSeed, Onboarding!backfillLands, Onboarding!NoKey
  <2>3. QED  BY <1>3, <1>4, <2>1, <2>2
<1>7. ActTypes'
  <2>1. disturbed' \in BOOLEAN
    BY <1>2
  <2>2. QED  BY <1>1, <1>6, <2>1 DEF ActInv, ActTypes, MadeOrNone, Made
<1>8. LookupsInv'
  BY <1>1, <1>5 DEF ActInv, LookupsInv, Calls
<1>9. OneKeyInv'
  <2> SUFFICES ASSUME ~disturbed' PROVE OneKeyInv'
    BY DEF OneKeyInv
  <2>1. ~disturbed /\ ok
    BY <1>2, Zenon
  <2>2. /\ generated \in {0, 1}
        /\ \A a, b \in Calls : lookup[a].at \in Keyless /\ lookup[b].at \in Keyless => a[1] = b[1]
        /\ \A b \in Calls : lookup[b].at = "localGet" /\ generated = 1 => local[b[1]] # 0
    BY <2>1, Zenon DEF ActInv, OneKeyInv
  <2>3. \A b \in Calls : /\ lookup'[b].at \in Keyless => lookup[b].at \in Keyless
                         /\ lookup'[b].at = "localGet" => lookup[b].at = "localGet"
    BY <1>5 DEF Keyless
  <2>4. generated' = 1 => cloud' = 1
    BY <1>1, <1>4, <2>1 DEF MadeOrNone
  <2>5. ASSUME NEW a \in Calls, NEW b \in Calls,
               lookup'[a].at \in Keyless, lookup'[b].at \in Keyless
        PROVE  a[1] = b[1]
    <3>1. lookup[a].at \in Keyless /\ lookup[b].at \in Keyless
      BY <2>3, <2>5, Zenon
    <3>2. QED  BY <2>2, <3>1, Zenon
  <2>6. ASSUME NEW b \in Calls, lookup'[b].at = "localGet", generated' = 1 PROVE local'[b[1]] # 0
    <3>1. lookup[b].at = "localGet"
      BY <2>3, <2>6, Zenon
    <3>2. QED  BY <1>1, <2>2, <2>6, <3>1
  <2>7. QED  BY <1>1, <2>2, <2>4, <2>5, <2>6, Zenon DEF OneKeyInv
<1>10. ReportedInv'
  BY <1>1 DEF ActInv, ReportedInv
<1>11. QED  BY <1>7, <1>8, <1>9, <1>10 DEF ActInv

(* A lookup that begins, or whose key was taken, changes no key.            *)
LEMMA LookupMoves ==
    ASSUME ActInv, UNCHANGED <<cloud, local, backfill, generated, disturbed>>,
           NEW c \in Calls, lookup[c].at \in {"idle", "done"}, NEW at \in {"idle", "cloudGet"},
           lookup' = [lookup EXCEPT ![c] = [at |-> at, seed |-> 0]]
    PROVE  /\ lookup' \in [Calls -> [at : LookupAt, seed : MadeOrNone]]
           /\ \A b \in Calls : lookup'[b].at \in {"cloudSet", "done"} => lookup'[b].seed # 0
           /\ \A b \in Calls : lookup'[b].at = "cloudSet" => local'[b[1]] # 0
           /\ \A b \in Calls \ {c} : lookup'[b] = lookup[b]
           /\ OneKeyInv'
<1>1. /\ lookup \in [Calls -> [at : LookupAt, seed : MadeOrNone]]
      /\ generated \in Nat
  BY DEF ActInv, ActTypes
<1>2. /\ lookup'[c].at = at /\ \A b \in Calls \ {c} : lookup'[b] = lookup[b]
      /\ 0 \in MadeOrNone
  BY <1>1 DEF MadeOrNone
<1>3. lookup' \in [Calls -> [at : LookupAt, seed : MadeOrNone]]
  BY <1>1, <1>2 DEF LookupAt
<1>4. \A b \in Calls : lookup[b].at = "cloudSet" => lookup'[b].at = "cloudSet"
  BY <1>2
<1>5. OneKeyInv'
  <2>1. \A b \in Calls : /\ lookup'[b].at \in Keyless => lookup[b].at \in Keyless
                         /\ lookup'[b].at = "localGet" => lookup[b].at = "localGet"
    BY <1>2 DEF Keyless
  <2> SUFFICES ASSUME ~disturbed' PROVE OneKeyInv'
    BY DEF OneKeyInv
  <2>2. /\ generated \in {0, 1}
        /\ generated = 1 => cloud = 1 \/ \E b \in Calls : lookup[b].at = "cloudSet"
        /\ \A a, b \in Calls : lookup[a].at \in Keyless /\ lookup[b].at \in Keyless => a[1] = b[1]
        /\ \A b \in Calls : lookup[b].at = "localGet" /\ generated = 1 => local[b[1]] # 0
    BY Zenon DEF ActInv, OneKeyInv
  <2>3. generated' = 1 => cloud' = 1 \/ \E b \in Calls : lookup'[b].at = "cloudSet"
    BY <1>4, <2>2, Zenon
  <2>4. ASSUME NEW a \in Calls, NEW b \in Calls,
               lookup'[a].at \in Keyless, lookup'[b].at \in Keyless
        PROVE  a[1] = b[1]
    <3>1. lookup[a].at \in Keyless /\ lookup[b].at \in Keyless
      BY <2>1, <2>4, Zenon
    <3>2. QED  BY <2>2, <3>1, Zenon
  <2>5. \A b \in Calls : lookup'[b].at = "localGet" /\ generated' = 1 => local'[b[1]] # 0
    BY <2>1, <2>2
  <2>6. QED  BY <2>2, <2>3, <2>4, <2>5, Zenon DEF OneKeyInv
<1>6. QED
  BY <1>2, <1>3, <1>5 DEF ActInv, LookupsInv

(* useVault, WalletSync and the routes they call, on one device.            *)
HookRow == [vaultAddress : MadeOrNone, ready : BOOLEAN, at : {"idle", "key", "register", "poll"}]
LEMMA LookupStartsKeepsAct ==
    ASSUME ActInv, NEW d \in Device, Onboarding!connectWallet(d) \/ Onboarding!activate(d)
    PROVE  ActInv'
<1>1. PICK c \in Calls :
        /\ c = <<d, "derive">> \/ c = <<d, "activate">>
        /\ lookup[c].at = "idle" /\ lookup' = [lookup EXCEPT ![c] = [at |-> "cloudGet", seed |-> 0]]
        /\ UNCHANGED <<cloud, local, backfill, generated, disturbed>>
  BY DEF Onboarding!connectWallet, Onboarding!activate, Onboarding!getOrCreateSessionKey,
         Onboarding!To, Onboarding!NoKey, Calls
<1>2. /\ lookup' \in [Calls -> [at : LookupAt, seed : MadeOrNone]]
      /\ \A b \in Calls : lookup'[b].at \in {"cloudSet", "done"} => lookup'[b].seed # 0
      /\ \A b \in Calls : lookup'[b].at = "cloudSet" => local'[b[1]] # 0
      /\ \A b \in Calls \ {c} : lookup'[b] = lookup[b]
      /\ OneKeyInv'
  BY <1>1, LookupMoves
<1>3. hook \in [Device -> HookRow] /\ synced \in [Device -> {"off", "saving", "idle"}]
      /\ activations \in 0..MaxActivations /\ MaxActivations \in Nat
  BY VisitsAssumption DEF ActInv, ActTypes, HookRow, Onboarding!ActAssumption
<1>4. /\ UNCHANGED <<users, approved, deployed, notRegistered>>
      /\ synced' \in [Device -> {"off", "saving", "idle"}]
      /\ activations' \in 0..MaxActivations
      /\ hook' = hook \/ (hook[d].at = "idle" /\ hook' = [hook EXCEPT ![d].at = "key"])
  BY <1>3 DEF Onboarding!connectWallet, Onboarding!activate
<1>5. /\ hook' \in [Device -> HookRow]
      /\ \A e \in Device : /\ hook'[e].at = "register" <=> hook[e].at = "register"
                          /\ hook'[e].ready = hook[e].ready
  BY <1>3, <1>4 DEF HookRow
<1>6. ActTypes'
  BY <1>1, <1>2, <1>4, <1>5 DEF ActInv, ActTypes, MadeOrNone, Made, HookRow
<1>7. LookupsInv'
  <2>1. ASSUME NEW e \in Device, hook'[e].at = "register"
        PROVE  lookup'[<<e, "activate">>].at = "done"
    <3>1. lookup[<<e, "activate">>].at = "done"
      BY <1>5, <2>1 DEF ActInv, LookupsInv
    <3>2. <<e, "activate">> \in Calls \ {c}
      BY <1>1, <3>1 DEF Calls
    <3>3. QED  BY <1>2, <3>1, <3>2
  <2>2. QED  BY <1>2, <2>1 DEF LookupsInv
<1>8. ReportedInv'
  BY <1>4, <1>5 DEF ActInv, ReportedInv
<1>9. QED  BY <1>2, <1>6, <1>7, <1>8 DEF ActInv

LEMMA LookupEndsKeepsAct ==
    ASSUME ActInv, NEW d \in Device, NEW c \in Calls, c = <<d, "derive">> \/ c = <<d, "activate">>,
           lookup[c].at = "done", Onboarding!Returned(c),
           NEW entry \in HookRow, hook' = [hook EXCEPT ![d] = entry], entry.ready = hook[d].ready,
           c = <<d, "activate">> \/ entry.at = hook[d].at,
           entry.at # "register" \/ c = <<d, "derive">>,
           users' \in [wallet : BOOLEAN, vault_address : MadeOrNone],
           users.vault_address # 0 => users'.vault_address # 0,
           notRegistered' \in BOOLEAN, notRegistered => notRegistered',
           hook[d].at = "register" /\ c = <<d, "activate">>
              => users'.vault_address # 0 \/ notRegistered',
           approved' \subseteq Made, approved' = approved \/ notRegistered',
           UNCHANGED <<synced, deployed, activations>>
    PROVE  ActInv'
<1>1. /\ lookup' = [lookup EXCEPT ![c] = [at |-> "idle", seed |-> 0]]
      /\ UNCHANGED <<cloud, local, backfill, generated, disturbed>>
  BY DEF Onboarding!Returned, Onboarding!To, Onboarding!NoKey
<1>2. /\ lookup' \in [Calls -> [at : LookupAt, seed : MadeOrNone]]
      /\ \A b \in Calls : lookup'[b].at \in {"cloudSet", "done"} => lookup'[b].seed # 0
      /\ \A b \in Calls : lookup'[b].at = "cloudSet" => local'[b[1]] # 0
      /\ \A b \in Calls \ {c} : lookup'[b] = lookup[b]
      /\ OneKeyInv'
  BY <1>1, LookupMoves
<1>3. hook \in [Device -> HookRow]
  BY DEF ActInv, ActTypes, HookRow
<1>4. /\ hook' \in [Device -> HookRow] /\ hook'[d] = entry
      /\ \A e \in Device \ {d} : hook'[e] = hook[e]
  BY <1>3
<1>5. ActTypes'
  BY <1>1, <1>2, <1>4 DEF ActInv, ActTypes, MadeOrNone, Made, HookRow
<1>6. LookupsInv'
  <2>1. ASSUME NEW e \in Device, hook'[e].at = "register"
        PROVE  lookup'[<<e, "activate">>].at = "done"
    <3>1. hook[e].at = "register" /\ c # <<e, "activate">>
      <4>1. CASE e = d
        BY <1>4, <2>1, <4>1
      <4>2. CASE e # d
        BY <1>4, <2>1, <4>2
      <4>3. QED  BY <4>1, <4>2
    <3>2. lookup[<<e, "activate">>].at = "done"
      BY <3>1 DEF ActInv, LookupsInv
    <3>3. <<e, "activate">> \in Calls \ {c}
      BY <3>1 DEF Calls
    <3>4. QED  BY <1>2, <3>2, <3>3
  <2>2. QED  BY <1>2, <2>1 DEF LookupsInv
<1>7. ReportedInv'
  <2>1. \A e \in Device : hook'[e].ready = hook[e].ready
    BY <1>3, <1>4
  <2>2. ASSUME NEW e \in Device, hook[e].at = "register"
        PROVE  hook'[e].at = "register" \/ users'.vault_address # 0 \/ notRegistered'
    BY <1>4, <2>2
  <2>3. QED  BY <2>1, <2>2 DEF ActInv, ReportedInv
<1>8. QED  BY <1>2, <1>5, <1>6, <1>7 DEF ActInv

(* A step of the hook or of WalletSync that leaves all lookups alone.       *)
LEMMA HookMoves ==
    ASSUME ActInv, UNCHANGED Onboarding!keyVars, UNCHANGED <<deployed, notRegistered, activations>>,
           hook' \in [Device -> HookRow], synced' \in [Device -> {"off", "saving", "idle"}],
           users' \in [wallet : BOOLEAN, vault_address : MadeOrNone],
           users'.vault_address = users.vault_address,
           approved' \subseteq Made,
           \A d \in Device :
              /\ hook[d].at = "register" => hook'[d].at = "register"
              /\ hook'[d].at = "register" => lookup[<<d, "activate">>].at = "done"
              /\ hook'[d].ready => hook[d].ready \/ deployed # {},
           approved' = approved \/ \E d \in Device : hook'[d].at = "register"
    PROVE  ActInv'
<1>1. UNCHANGED <<cloud, local, backfill, lookup, generated, disturbed>>
  BY DEF Onboarding!keyVars
<1>2. ActTypes'
  BY <1>1 DEF ActInv, ActTypes, MadeOrNone, Made, HookRow
<1>3. LookupsInv' /\ OneKeyInv'
  BY <1>1 DEF ActInv, LookupsInv, OneKeyInv
<1>4. ReportedInv'
  BY DEF ActInv, ReportedInv
<1>5. QED  BY <1>2, <1>3, <1>4 DEF ActInv

LEMMA DeviceKeepsAct ==
    ASSUME ActInv, NEW d \in Device, NEW ok \in BOOLEAN,
           \/ Onboarding!deriveVault(d) \/ Onboarding!sendTransaction(d, ok)
           \/ Onboarding!saveWallet(d, ok) \/ Onboarding!refresh(d, ok)
           \/ \E reached \in BOOLEAN : Onboarding!registerVault(d, ok, reached)
           \/ Onboarding!pollEnds(d, ok)
    PROVE  ActInv'
<1> DEFINE c == <<d, "activate">>
<1>1. /\ hook \in [Device -> HookRow] /\ hook[d] \in HookRow
      /\ synced \in [Device -> {"off", "saving", "idle"}]
      /\ users \in [wallet : BOOLEAN, vault_address : MadeOrNone]
      /\ notRegistered \in BOOLEAN /\ users.vault_address \in MadeOrNone
      /\ approved \subseteq Made /\ deployed \subseteq Made
  BY DEF ActInv, ActTypes, HookRow
<1>2. \A b \in Calls : lookup[b].at = "done" => lookup[b].seed \in Made
  <2>1. \A b \in Calls : lookup[b].at = "done" => lookup[b].seed \in MadeOrNone /\ lookup[b].seed # 0
    BY OneCall DEF ActInv, LookupsInv
  <2>2. QED  BY <2>1 DEF Made, MadeOrNone, ActInv, ActTypes
<1>3. <<d, "derive">> \in Calls /\ c \in Calls /\ Made \subseteq MadeOrNone
  BY DEF Calls, Made, MadeOrNone
<1>4. CASE Onboarding!deriveVault(d)
  <2>1. PICK entry : entry = [hook[d] EXCEPT !.vaultAddress = lookup[<<d, "derive">>].seed]
    OBVIOUS
  <2>2. /\ lookup[<<d, "derive">>].at = "done" /\ Onboarding!Returned(<<d, "derive">>)
        /\ hook' = [hook EXCEPT ![d] = entry]
        /\ UNCHANGED <<synced, users, approved, deployed, notRegistered, activations>>
    BY <1>1, <1>4, <2>1 DEF Onboarding!deriveVault
  <2>3. entry \in HookRow /\ entry.ready = hook[d].ready /\ entry.at = hook[d].at
    BY <1>1, <1>2, <1>3, <2>1, <2>2 DEF HookRow
  <2>4. QED  BY <1>1, <1>3, <2>2, <2>3, LookupEndsKeepsAct
<1>5. CASE Onboarding!sendTransaction(d, ok)
  <2>1. hook[d].at = "key" /\ lookup[c].at = "done"
    BY <1>5 DEF Onboarding!sendTransaction
  <2>2. /\ approved' \in {approved, approved \cup {lookup[c].seed}}
        /\ UNCHANGED <<synced, users, deployed, activations>>
    BY <1>5, Zenon DEF Onboarding!sendTransaction
  <2>3. approved' \subseteq Made
    BY <1>1, <1>2, <1>3, <2>1, <2>2
  <2>4. CASE /\ ok => approved' = approved
             /\ hook' = [hook EXCEPT ![d].at = "idle"]
             /\ notRegistered' = (notRegistered \/ ~ok)
             /\ Onboarding!Returned(c)
    <3>1. PICK entry : entry = [hook[d] EXCEPT !.at = "idle"]
      OBVIOUS
    <3>2. hook' = [hook EXCEPT ![d] = entry]
      BY <1>1, <2>4, <3>1
    <3>3. entry \in HookRow /\ entry.ready = hook[d].ready /\ entry.at = "idle"
      BY <1>1, <3>1 DEF HookRow
    <3>4. /\ notRegistered' \in BOOLEAN /\ (notRegistered => notRegistered')
          /\ approved' = approved \/ notRegistered'
      BY <2>4, Zenon
    <3>5. QED  BY <1>1, <1>3, <2>1, <2>2, <2>3, <2>4, <3>2, <3>3, <3>4, LookupEndsKeepsAct
  <2>5. CASE /\ hook' = [hook EXCEPT ![d].at = "register"]
             /\ UNCHANGED <<Onboarding!keyVars, notRegistered>>
    <3>1. hook'[d] = [hook[d] EXCEPT !.at = "register"] /\ \A e \in Device \ {d} : hook'[e] = hook[e]
      BY <1>1, <2>5
    <3>2. hook'[d].at = "register" /\ hook'[d].ready = hook[d].ready /\ hook' \in [Device -> HookRow]
      BY <1>1, <2>5, <3>1 DEF HookRow
    <3>3. \A e \in Device :
            /\ hook[e].at = "register" => hook'[e].at = "register"
            /\ hook'[e].at = "register" => lookup[<<e, "activate">>].at = "done"
            /\ hook'[e].ready => hook[e].ready
      BY <2>1, <3>1, <3>2 DEF ActInv, LookupsInv
    <3>4. QED  BY <1>1, <2>2, <2>3, <2>5, <3>2, <3>3, HookMoves
  <2>6. QED  BY <1>5, <2>4, <2>5, Zenon DEF Onboarding!sendTransaction
<1>6. CASE Onboarding!saveWallet(d, ok)
  <2>1. /\ users' = [users EXCEPT !.wallet = users.wallet \/ ok]
        /\ synced' = [synced EXCEPT ![d] = "idle"]
        /\ UNCHANGED <<hook, approved, deployed, notRegistered, activations, Onboarding!keyVars>>
    BY <1>6, Zenon DEF Onboarding!saveWallet
  <2>2. /\ users' \in [wallet : BOOLEAN, vault_address : MadeOrNone]
        /\ users'.vault_address = users.vault_address
        /\ synced' \in [Device -> {"off", "saving", "idle"}]
    BY <1>1, <2>1
  <2>3. \A e \in Device : hook'[e].at = "register" => lookup[<<e, "activate">>].at = "done"
    BY <2>1 DEF ActInv, LookupsInv
  <2>4. QED  BY <1>1, <2>1, <2>2, <2>3, HookMoves
<1>7. CASE Onboarding!refresh(d, ok) \/ Onboarding!pollEnds(d, ok)
  <2>1. PICK at \in {"idle", hook[d].at} :
          /\ Onboarding!readVaultState(d, ok, at)
          /\ hook[d].at = "register" => at = "register"
          /\ at = "register" => hook[d].at = "register"
    BY <1>7 DEF Onboarding!refresh, Onboarding!pollEnds
  <2>2. /\ hook' = [hook EXCEPT ![d].ready = (ok /\ hook[d].vaultAddress \in deployed),
                               ![d].at = at]
        /\ UNCHANGED <<synced, users, approved, deployed, notRegistered, activations>>
        /\ UNCHANGED Onboarding!keyVars
    BY <2>1, Zenon DEF Onboarding!readVaultState
  <2>3. PICK r \in BOOLEAN : r = (ok /\ hook[d].vaultAddress \in deployed)
    OBVIOUS
  <2>4. hook' = [hook EXCEPT ![d].ready = r, ![d].at = at]
    BY <2>2, <2>3, Zenon
  <2>5. /\ hook'[d].at = at /\ hook'[d].ready = r /\ hook'[d] \in HookRow
        /\ \A e \in Device \ {d} : hook'[e] = hook[e]
        /\ hook' \in [Device -> HookRow]
    BY <1>1, <2>4 DEF HookRow
  <2>6. r => deployed # {}
    BY <2>3, Zenon
  <2>7. \A e \in Device :
          /\ hook[e].at = "register" => hook'[e].at = "register"
          /\ hook'[e].at = "register" => lookup[<<e, "activate">>].at = "done"
          /\ hook'[e].ready => hook[e].ready \/ deployed # {}
    BY <2>1, <2>5, <2>6 DEF ActInv, LookupsInv
  <2>8. QED  BY <1>1, <2>2, <2>5, <2>7, HookMoves
<1>8. CASE \E reached \in BOOLEAN : Onboarding!registerVault(d, ok, reached)
  <2> PICK reached \in BOOLEAN : Onboarding!registerVault(d, ok, reached)
    BY <1>8
  <2>1. /\ hook[d].at = "register" /\ lookup[c].at = "done" /\ Onboarding!Returned(c)
        /\ UNCHANGED <<synced, approved, deployed, activations>>
    BY DEF Onboarding!registerVault, ActInv, LookupsInv
  <2>2. PICK registered \in BOOLEAN : registered = (reached /\ users.wallet)
    OBVIOUS
  <2>3. /\ users' = IF registered THEN [users EXCEPT !.vault_address = lookup[c].seed] ELSE users
        /\ hook' = IF ok /\ registered
                   THEN [hook EXCEPT ![d].vaultAddress = lookup[c].seed, ![d].at = "poll"]
                   ELSE [hook EXCEPT ![d].at = "idle"]
        /\ notRegistered' = (notRegistered \/ ~registered)
    BY <2>2, Zenon DEF Onboarding!registerVault
  <2>4. PICK entry : entry = IF ok /\ registered
                         THEN [hook[d] EXCEPT !.vaultAddress = lookup[c].seed, !.at = "poll"]
                         ELSE [hook[d] EXCEPT !.at = "idle"]
    OBVIOUS
  <2>5. hook' = [hook EXCEPT ![d] = entry]
    BY <1>1, <2>3, <2>4
  <2>6. entry \in HookRow /\ entry.ready = hook[d].ready /\ entry.at # "register"
    BY <1>1, <1>2, <1>3, <2>1, <2>4 DEF HookRow
  <2>7. lookup[c].seed \in MadeOrNone /\ lookup[c].seed # 0
    BY <1>2, <1>3, <2>1 DEF Made
  <2>8. /\ users' \in [wallet : BOOLEAN, vault_address : MadeOrNone]
        /\ users.vault_address # 0 => users'.vault_address # 0
        /\ registered => users'.vault_address # 0
    BY <1>1, <2>3, <2>7
  <2>9. /\ notRegistered' \in BOOLEAN /\ (notRegistered => notRegistered')
        /\ ~registered => notRegistered'
    BY <1>1, <2>3, Zenon
  <2>10. QED  BY <1>1, <1>3, <2>1, <2>5, <2>6, <2>8, <2>9, LookupEndsKeepsAct
<1>9. QED  BY <1>4, <1>5, <1>6, <1>7, <1>8

(* A closed page forgets its lookups; what it may have left behind is       *)
(* remembered in notRegistered and in disturbed.                            *)
LEMMA closeMiniAppKeepsAct ==
    ASSUME ActInv, NEW d \in Device, Onboarding!closeMiniApp(d) PROVE ActInv'
<1> DEFINE asked == hook[d].at = "key" /\ lookup[<<d, "activate">>].at = "done"
           none == [at |-> "idle", seed |-> 0]
<1>1. /\ generated \in Nat /\ hook \in [Device -> HookRow]
      /\ lookup \in [Calls -> [at : LookupAt, seed : MadeOrNone]]
      /\ backfill \in [Device -> MadeOrNone] /\ local[d] \in MadeOrNone
      /\ synced \in [Device -> {"off", "saving", "idle"}]
      /\ approved \subseteq Made /\ <<d, "activate">> \in Calls
  BY DEF ActInv, ActTypes, HookRow, Calls
<1>2. /\ synced' = [synced EXCEPT ![d] = "off"]
      /\ hook' = [hook EXCEPT ![d] = [vaultAddress |-> 0, ready |-> FALSE, at |-> "idle"]]
      /\ \/ UNCHANGED approved
         \/ asked /\ approved' = approved \cup {lookup[<<d, "activate">>].seed}
      /\ notRegistered' = (notRegistered \/ asked \/ hook[d].at = "register")
      /\ UNCHANGED <<users, deployed, activations>>
  BY Zenon DEF Onboarding!closeMiniApp, Onboarding!Closed, Onboarding!NoKey
<1>3. PICK saving : saving = {c \in Calls : c[1] = d /\ lookup[c].at = "cloudSet"}
  OBVIOUS
<1>4. /\ lookup' = [c \in Calls |-> IF c[1] = d THEN none ELSE lookup[c]]
      /\ backfill' = IF saving = {} THEN backfill ELSE [backfill EXCEPT ![d] = local[d]]
      /\ disturbed' = (disturbed \/ saving # {})
      /\ UNCHANGED <<cloud, local, generated>>
  BY <1>3, Zenon DEF Onboarding!closeMiniApp, Onboarding!LookupsStop, Onboarding!Lookup, Calls,
                     Onboarding!DeviceOf, Onboarding!NoKey
<1>5. \A c \in Calls : lookup'[c] = IF c[1] = d THEN none ELSE lookup[c]
  BY <1>4
<1>6. /\ hook'[d] = [vaultAddress |-> 0, ready |-> FALSE, at |-> "idle"]
      /\ \A e \in Device \ {d} : hook'[e] = hook[e]
  BY <1>1, <1>2
<1>7. ActTypes'
  <2>1. 0 \in MadeOrNone
    BY <1>1 DEF MadeOrNone
  <2>2. lookup' \in [Calls -> [at : LookupAt, seed : MadeOrNone]]
    BY <1>1, <1>4, <2>1 DEF LookupAt
  <2>3. backfill' \in [Device -> MadeOrNone] /\ hook' \in [Device -> HookRow]
    BY <1>1, <1>2, <1>4, <2>1 DEF HookRow
  <2>4. approved' \subseteq Made
    <3>1. asked => lookup[<<d, "activate">>].seed \in Made
      BY <1>1 DEF ActInv, LookupsInv, MadeOrNone, Made
    <3>2. QED  BY <1>1, <1>2, <3>1
  <2>5. disturbed' \in BOOLEAN /\ notRegistered' \in BOOLEAN
    BY <1>2, <1>4, Zenon
  <2>6. synced' \in [Device -> {"off", "saving", "idle"}]
    BY <1>1, <1>2
  <2>7. QED
    BY <1>2, <1>4, <2>2, <2>3, <2>4, <2>5, <2>6 DEF ActInv, ActTypes, MadeOrNone, Made, HookRow
<1>8. LookupsInv'
  <2>1. ASSUME NEW c \in Calls
        PROVE  /\ lookup'[c].at \in {"cloudSet", "done"} => lookup'[c].seed # 0
               /\ lookup'[c].at = "cloudSet" => local'[c[1]] # 0
    BY <1>4, <1>5, <2>1 DEF ActInv, LookupsInv
  <2>2. ASSUME NEW e \in Device, hook'[e].at = "register"
        PROVE  lookup'[<<e, "activate">>].at = "done"
    <3>1. e # d /\ lookup[<<e, "activate">>].at = "done"
      BY <1>6, <2>2 DEF ActInv, LookupsInv
    <3>2. <<e, "activate">> \in Calls
      BY DEF Calls
    <3>3. QED  BY <1>5, <3>1, <3>2
  <2>3. QED  BY <2>1, <2>2 DEF LookupsInv
<1>9. OneKeyInv'
  <2> SUFFICES ASSUME ~disturbed' PROVE OneKeyInv'
    BY DEF OneKeyInv
  <2>1. ~disturbed /\ \A c \in Calls : lookup[c].at = "cloudSet" => c[1] # d
    BY <1>3, <1>4
  <2>2. /\ generated \in {0, 1}
        /\ generated = 1 => cloud = 1 \/ \E c \in Calls : lookup[c].at = "cloudSet"
        /\ \A b, c \in Calls : lookup[b].at \in Keyless /\ lookup[c].at \in Keyless => b[1] = c[1]
        /\ \A c \in Calls : lookup[c].at = "localGet" /\ generated = 1 => local[c[1]] # 0
    BY <2>1, Zenon DEF ActInv, OneKeyInv
  <2>3. \A c \in Calls : /\ lookup[c].at = "cloudSet" => lookup'[c].at = "cloudSet"
                         /\ lookup'[c].at \in Keyless => lookup'[c].at = lookup[c].at
    BY <1>5, <2>1 DEF Keyless
  <2>4. generated' = 1 => cloud' = 1 \/ \E c \in Calls : lookup'[c].at = "cloudSet"
    <3>1. cloud' = cloud /\ generated' = generated
      BY <1>4
    <3>2. (\E c \in Calls : lookup[c].at = "cloudSet")
             => \E c \in Calls : lookup'[c].at = "cloudSet"
      BY <2>3, Zenon
    <3>3. QED  BY <2>2, <3>1, <3>2
  <2>5. ASSUME NEW b \in Calls, NEW c \in Calls,
               lookup'[b].at \in Keyless, lookup'[c].at \in Keyless
        PROVE  b[1] = c[1]
    <3>1. lookup[b].at \in Keyless /\ lookup[c].at \in Keyless
      BY <2>3, <2>5
    <3>2. QED  BY <2>2, <3>1, Zenon
  <2>6. \A c \in Calls : lookup'[c].at = "localGet" /\ generated' = 1 => local'[c[1]] # 0
    BY <1>4, <2>2, <2>3 DEF Keyless
  <2>7. QED  BY <1>4, <2>2, <2>4, <2>5, <2>6 DEF OneKeyInv
<1>10. ReportedInv'
  <2>1. ASSUME approved' \cup deployed' # {}
        PROVE  \/ users'.vault_address # 0 \/ notRegistered'
               \/ \E e \in Device : hook'[e].at = "register"
    <3>1. CASE asked \/ notRegistered \/ hook[d].at = "register"
      BY <1>2, <3>1, Zenon
    <3>2. CASE ~asked /\ ~notRegistered /\ hook[d].at # "register"
      <4>1. users.vault_address # 0 \/ \E e \in Device : hook[e].at = "register"
        BY <1>2, <2>1, <3>2 DEF ActInv, ReportedInv
      <4>2. QED  BY <1>2, <1>6, <3>2, <4>1
    <3>3. QED  BY <3>1, <3>2
  <2>2. \A e \in Device : hook'[e].ready => deployed' # {}
    BY <1>2, <1>6 DEF ActInv, ReportedInv
  <2>3. QED  BY <2>1, <2>2 DEF ReportedInv
<1>11. QED  BY <1>7, <1>8, <1>9, <1>10 DEF ActInv

LEMMA ActStep == ASSUME ActInv, Onboarding!ActNext PROVE ActInv'
<1>1. CASE Onboarding!KeysNext /\ UNCHANGED Onboarding!actVars
  <2>1. Onboarding!Lookup = Calls
    BY DEF Onboarding!Lookup, Calls
  <2>2. QED
    BY <1>1, <2>1, cloudGetKeepsAct, loadSeedKeepsAct, SeedSavedKeepsAct DEF Onboarding!KeysNext
<1>2. ASSUME NEW d \in Device, Onboarding!connectWallet(d) \/ Onboarding!activate(d) PROVE ActInv'
  BY <1>2, LookupStartsKeepsAct
<1>3. ASSUME NEW d \in Device, NEW ok \in BOOLEAN,
             \/ Onboarding!deriveVault(d) \/ Onboarding!sendTransaction(d, ok)
             \/ Onboarding!saveWallet(d, ok) \/ Onboarding!refresh(d, ok)
             \/ \E reached \in BOOLEAN : Onboarding!registerVault(d, ok, reached)
             \/ Onboarding!pollEnds(d, ok)
      PROVE  ActInv'
  BY <1>3, DeviceKeepsAct
<1>4. ASSUME NEW v \in approved, Onboarding!deployLands(v) PROVE ActInv'
  <2>1. /\ approved' = approved \ {v} /\ deployed' = deployed \cup {v} /\ v \in approved
        /\ UNCHANGED <<hook, synced, users, notRegistered, activations>>
        /\ UNCHANGED <<cloud, local, backfill, lookup, generated, disturbed>>
    BY <1>4 DEF Onboarding!deployLands, Onboarding!hookVars, Onboarding!keyVars
  <2>2. ActTypes'
    BY <2>1 DEF ActInv, ActTypes, MadeOrNone, Made
  <2>3. LookupsInv' /\ OneKeyInv'
    BY <2>1 DEF ActInv, LookupsInv, OneKeyInv
  <2>4. ReportedInv'
    BY <2>1 DEF ActInv, ReportedInv
  <2>5. QED  BY <2>2, <2>3, <2>4 DEF ActInv
<1>5. ASSUME NEW d \in Device, Onboarding!closeMiniApp(d) PROVE ActInv'
  BY <1>5, closeMiniAppKeepsAct
<1>6. QED
  BY <1>1, <1>2, <1>3, <1>4, <1>5 DEF Onboarding!ActNext

LEMMA ActInvImplies == ASSUME ActInv PROVE AgreedVault
<1>1. SUFFICES ASSUME ~disturbed, NEW d \in Device, hook[d].vaultAddress # 0
               PROVE  /\ \A e \in Device : hook[e].vaultAddress \in {0, hook[d].vaultAddress}
                      /\ hook[d].ready =>
                            \/ users.vault_address = hook[d].vaultAddress
                            \/ notRegistered \/ \E e \in Device : hook[e].at = "register"
  BY Zenon DEF AgreedVault, Onboarding!AgreedVault, Onboarding!NoKey
<1>2. generated \in {0, 1}
  BY <1>1 DEF ActInv, OneKeyInv
<1>3. /\ \A e \in Device : hook[e].vaultAddress \in {0, 1}
      /\ users.vault_address \in {0, 1}
  <2>1. \A v \in MadeOrNone : v \in {0, 1}
    BY <1>2 DEF MadeOrNone
  <2>2. QED  BY <2>1 DEF ActInv, ActTypes
<1>4. hook[d].vaultAddress = 1
  BY <1>1, <1>3
<1>5. ASSUME hook[d].ready
      PROVE  \/ users.vault_address # 0
             \/ notRegistered \/ \E e \in Device : hook[e].at = "register"
  BY <1>5 DEF ActInv, ReportedInv
<1>6. QED  BY <1>3, <1>4, <1>5

(* Activation: ActTypes with the keys made so far for all keys.             *)
LEMMA ActTyped == ASSUME Onboarding!ActAssumption, ActTypes PROVE Onboarding!ActTypeOK
<1>1. /\ MadeOrNone \subseteq Onboarding!Key \cup {Onboarding!NoKey}
      /\ Made \subseteq Onboarding!Key /\ Calls = Onboarding!Lookup
  BY DEF ActTypes, Onboarding!ActAssumption, MadeOrNone, Made, Calls, Onboarding!Key,
         Onboarding!NoKey, Onboarding!Lookup
<1>. DEFINE V == Onboarding!Key \cup {Onboarding!NoKey}
<1>2. cloud \in V /\ local \in [Device -> V] /\ backfill \in [Device -> V]
  BY <1>1 DEF ActTypes
<1>3. lookup \in [Calls -> [at : LookupAt, seed : V]]
  BY <1>1 DEF ActTypes
<1>4. hook \in [Device -> [vaultAddress : V, ready : BOOLEAN,
                           at : {"idle", "key", "register", "poll"}]]
  BY <1>1 DEF ActTypes
<1>5. users \in [wallet : BOOLEAN, vault_address : V]
  BY <1>1 DEF ActTypes
<1>6. QED
  BY <1>1, <1>2, <1>3, <1>4, <1>5
  DEF ActTypes, LookupAt, Onboarding!ActTypeOK, Onboarding!KeysTypeOK, Onboarding!Vaults

LEMMA ActInvariant == Spec => []ActInv
<1>1. Init => ActInv
  BY ActInitially, VisitsAssumption DEF Init
<1>2. ActInv /\ [Next]_vars => ActInv'
  <2> SUFFICES ASSUME ActInv, [Next]_vars PROVE ActInv'
    OBVIOUS
  <2>1. CASE Activates
    BY <2>1, ActStep DEF Activates
  <2>2. CASE UsesWallet \/ UsesCircle \/ CreatesCircle \/ JoinsCircle \/ TalksToBot \/ UNCHANGED vars
    <3>1. UNCHANGED activationVars
      BY <2>2 DEF UsesWallet, UsesCircle, CreatesCircle, JoinsCircle, TalksToBot, vars
    <3>2. QED
      BY <3>1 DEF activationVars, ActInv, ActTypes, LookupsInv, OneKeyInv, ReportedInv, Made,
                  MadeOrNone
  <2>3. QED  BY <2>1, <2>2 DEF Next
<1>3. QED
  BY <1>1, <1>2, PTL DEF Spec

(* For any number of devices and activations, whatever fails and whenever   *)
(* pages are closed and opened again: the devices of a user derive one      *)
(* vault, and the one a page shows as ready is the one the backend          *)
(* registered, unless its registration is under way or was lost.  It holds  *)
(* until a CloudStorage call fails or is cut off, or two devices at once    *)
(* have found no key (sessionKey.ts:49-79, useVault.ts:104-110).            *)
THEOREM VaultTheorem == Spec => []AgreedVault
<1>1. ActInv => AgreedVault
  BY ActInvImplies
<1>2. QED
  BY <1>1, ActInvariant, PTL

-----------------------------------------------------------------------------
(* The types of all visits.  Every failure is counted, whoever meets it.    *)

Counted == UNCHANGED faults \/ Fault

LEMMA ActCounts == ASSUME Onboarding!ActNext PROVE Counted
<1>. USE DEF Onboarding!FaultUnless, Onboarding!NoFault, Onboarding!Fault, Fault, Counted
<1>1. CASE Onboarding!KeysNext
  BY <1>1 DEF Onboarding!KeysNext, Onboarding!cloudGet, Onboarding!loadSeed,
              Onboarding!persistSeed, Onboarding!backfillLands
<1>2. ASSUME NEW d \in Device,
             \/ Onboarding!connectWallet(d) \/ Onboarding!deriveVault(d)
             \/ Onboarding!activate(d) \/ Onboarding!closeMiniApp(d)
      PROVE  Counted
  BY <1>2 DEF Onboarding!connectWallet, Onboarding!deriveVault, Onboarding!activate,
              Onboarding!closeMiniApp
<1>3. ASSUME NEW d \in Device, NEW ok \in BOOLEAN,
             \/ Onboarding!saveWallet(d, ok) \/ Onboarding!refresh(d, ok)
             \/ Onboarding!sendTransaction(d, ok) \/ Onboarding!pollEnds(d, ok)
             \/ \E reached \in BOOLEAN : Onboarding!registerVault(d, ok, reached)
      PROVE  Counted
  BY <1>3 DEF Onboarding!saveWallet, Onboarding!refresh, Onboarding!readVaultState,
              Onboarding!sendTransaction, Onboarding!registerVault, Onboarding!pollEnds
<1>4. ASSUME NEW v \in approved, Onboarding!deployLands(v) PROVE Counted
  BY <1>4 DEF Onboarding!deployLands
<1>5. QED
  BY <1>1, <1>2, <1>3, <1>4 DEF Onboarding!ActNext
LEMMA CircleCounts == ASSUME Circle!CircleNext PROVE Counted
BY DEF Circle!CircleNext, Circle!closePage, Circle!contributeTooPoor, Circle!paidWatcher,
       Circle!watchdog, Circle!Release, Circle!deletionExpires, Circle!othersStart,
       Circle!othersExecuteRound, Circle!index, Circle!openPage, Circle!changeLanguage,
       Circle!load, Circle!FaultUnless, Circle!NoFault, Circle!Fault,
       Circle!cacheExpires, Circle!contribute, Circle!executeRound, Circle!vaultExecutes,
       Circle!bounceReturns, Circle!deleteCircle, Circle!circleReceives, Circle!relayReturns,
       Circle!Relay, Fault, Counted
LEMMA CreateCounts == ASSUME Create!CreateNext PROVE Counted
BY DEF Create!CreateNext, Create!createKye, Create!postReturns, Create!connectionLost,
       Create!comesBack, Create!registersOther, Create!othersCreate, Create!CreateKye,
       Create!submits, Create!activates, Create!readsUser, Create!upsertsRow,
       Create!relayReturns, Create!FaultUnless, Create!NoFault, Create!Fault, Fault, Counted
LEMMA JoinCounts == ASSUME Join!JoinNext PROVE Counted
<1>. USE DEF Join!FaultUnless, Join!NoFault, Join!Fault, Fault, Counted
<1>1. ASSUME NEW u \in User, NEW result \in {"rejected", "unregistered", "ready"},
             Join!onActivateVault(u, result)
      PROVE  Counted
  BY <1>1 DEF Join!onActivateVault
<1>2. ASSUME NEW u \in User,
             \/ Join!onJoinClick(u) \/ Join!cancelModal(u)
             \/ \E ok \in BOOLEAN : Join!load(u, ok) \/ Join!onConnectWallet(u, ok)
      PROVE  Counted
  BY <1>2 DEF Join!onJoinClick, Join!cancelModal, Join!load, Join!onConnectWallet
<1>3. ASSUME NEW c \in JoinCall,
             \/ Join!joinKye(c) \/ Join!postReturns(c) \/ Join!connectionLost(c) \/ Join!JoinKye(c)
             \/ \E s \in Slot : Join!runJoin(c, s)
             \/ \E result \in {"ok", "failed"} : Join!relayReturns(c, result)
      PROVE  Counted
  BY <1>3 DEF Join!joinKye, Join!postReturns, Join!connectionLost, Join!JoinKye, Join!runJoin,
              Join!relayReturns
<1>4. ASSUME NEW c \in JoinCall, NEW k \in Join!Try,
             \/ \E ok \in BOOLEAN : Join!readsLock(c, k, ok) \/ Join!upsertsLock(c, k, ok)
             \/ \E failed \in {"none", "user", "kye", "kye_members"} : Join!readsCircle(c, k, failed)
      PROVE  Counted
  BY <1>4 DEF Join!readsLock, Join!upsertsLock, Join!readsCircle
<1>5. CASE Join!index \/ Join!EmergencyCancel \/ \E s \in Slot : Join!lockExpires(s)
  BY <1>5 DEF Join!index, Join!EmergencyCancel, Join!lockExpires
<1>6. QED
  BY <1>1, <1>2, <1>3, <1>4, <1>5 DEF Join!JoinNext

LEMMA LedgerCounts == ASSUME LedgerNext PROVE Counted
<1>. USE DEF FaultUnless, NoFault, Counted
<1>1. CASE Reload
  BY <1>1 DEF Reload
<1>2. ASSUME NEW n \in Op,
             \/ payout(n) \/ Post(n) \/ Receive(n) \/ ConnectionLost(n) \/ TtlPasses(n)
             \/ \E kind \in Kind \ {"payout"} : Start(n, kind)
      PROVE  Counted
  BY <1>2 DEF payout, Post, Receive, ConnectionLost, TtlPasses, Start
<1>3. ASSUME NEW n \in Op, NEW ok \in BOOLEAN,
             \/ signIntent(n, ok) \/ \E answered \in BOOLEAN : approveTopUp(n, ok, answered)
             \/ \E read \in Read : pollTopUp(n, ok, read) \/ Finish(n, ok, read)
      PROVE  Counted
  BY <1>3 DEF signIntent, approveTopUp, pollTopUp, Finish
<1>4. ASSUME NEW n \in Op, NEW k \in Try, NEW ok \in BOOLEAN,
             \/ relayChecks(n, k, ok) \/ relayReadsRow(n, k, ok) \/ relayWritesRow(n, k, ok)
             \/ creditReadsRow(n, k, ok) \/ creditWritesRow(n, k, ok)
             \/ readsRow(n, k, ok) \/ depositWritesRow(n, k, ok) \/ faucetWritesRow(n, k, ok)
             \/ \E reached \in BOOLEAN :
                    relayBroadcasts(n, k, ok, reached) \/ sendPlainTon(n, k, ok, reached)
      PROVE  Counted
  BY <1>4 DEF relayChecks, relayReadsRow, relayWritesRow, creditReadsRow, creditWritesRow,
              readsRow, depositWritesRow, faucetWritesRow, relayBroadcasts, sendPlainTon
<1>5. ASSUME NEW e \in pool, Drop(e) \/ \E accepted \in BOOLEAN : Include(e, accepted)
      PROVE  Counted
  BY <1>5 DEF Drop, Include
<1>6. QED
  BY <1>1, <1>2, <1>3, <1>4, <1>5 DEF LedgerNext

LEMMA BotCounts == ASSUME BotNext PROVE Counted
<1>. USE DEF FaultUnless, NoFault, Counted
<1>1. CASE (\E p \in Person : resolveOrCreateUser(p)) \/ \E c \in Chat : newChatMembers(c)
  BY <1>1 DEF resolveOrCreateUser, newChatMembers
<1>2. ASSUME NEW h \in Handler,
             \/ \E from \in Person : langCallback(h, from)
             \/ \E from \in Person, k \in Kye : startCommand(h, from, k)
             \/ \E from \in Person, k \in Kye, c \in Chat : linkKyeCommand(h, from, k, c)
             \/ \E from \in Person, c \in Chat, ok \in BOOLEAN : unlinkKyeCommand(h, from, c, ok)
             \/ \E c \in Chat : leavesChat(h, c)
      PROVE  Counted
  BY <1>2 DEF langCallback, startCommand, linkKyeCommand, unlinkKyeCommand, leavesChat
<1>3. ASSUME NEW h \in Handler, NEW ok \in BOOLEAN,
             \/ findsReferrer(h, ok) \/ findsExisting(h, ok) \/ updatesReferrer(h, ok)
             \/ insertsReferred(h, ok) \/ upsertUserLanguage(h, ok)
      PROVE  Counted
  BY <1>3 DEF findsReferrer, findsExisting, updatesReferrer, insertsReferred, upsertUserLanguage
<1>4. ASSUME NEW h \in Handler, NEW ok \in BOOLEAN,
             \/ authorizesLink(h, ok) \/ upsertsGroup(h, ok) \/ deletesGroup(h, ok)
             \/ myChatMember(h, ok)
      PROVE  Counted
  BY <1>4 DEF authorizesLink, upsertsGroup, deletesGroup, myChatMember
<1>5. QED
  BY <1>1, <1>2, <1>3, <1>4 DEF BotNext

LEMMA FaultsTyped == ASSUME faults \in 0..MaxFaults, [Next]_vars PROVE faults' \in 0..MaxFaults
<1>1. Counted
  <2>1. CASE Next
    BY <2>1, ActCounts, CircleCounts, CreateCounts, JoinCounts, BotCounts, LedgerCounts
    DEF Next, Activates, UsesWallet, UsesCircle, CreatesCircle, JoinsCircle, TalksToBot
  <2>2. CASE UNCHANGED vars
    BY <2>2 DEF vars, Counted
  <2>3. QED
    BY <2>1, <2>2
<1>2. MaxFaults \in Nat
  BY FaultsAssumption
<1>3. QED
  BY <1>1, <1>2 DEF Counted, Fault

LEMMA FaultsInvariant == Spec => [](faults \in 0..MaxFaults)
<1>1. Init => faults \in 0..MaxFaults
  BY FaultsAssumption DEF Init
<1>2. faults \in 0..MaxFaults /\ [Next]_vars => (faults \in 0..MaxFaults)'
  BY FaultsTyped
<1>3. QED
  BY <1>1, <1>2, PTL DEF Spec

(* The bot's counters and sets, beside HandlersInv.                         *)
ChatsTyped ==
    /\ received \in 0..MaxUpdates
    /\ inChat \subseteq Chat /\ stale \subseteq Chat /\ raced \subseteq Person
LEMMA BotTyped == ASSUME HandlersInv, ChatsTyped PROVE BotTypeOK
<1>1. ASSUME NEW h \in Handler
      PROVE  handler[h].at \in {"idle", "referrer", "existing", "update", "insert", "language",
                                "kye", "link", "unlink", "left"}
  BY DEF HandlersInv, Shape
<1>2. QED
  BY <1>1 DEF HandlersInv, ChatsTyped, BotTypeOK
LEMMA ChatsStep == ASSUME BotAssumption, HandlersInv, ChatsTyped, [BotNext]_botVars PROVE ChatsTyped'
<1>1. \A h \in Handler : handler[h].at \in {"link", "left"} => handler[h].chat \in Chat
  BY DEF HandlersInv, Shape
<1>2. \A h \in Handler : handler[h].at = "existing" => handler[h].from \in Person
  BY DEF HandlersInv, Shape
<1>3. received' \in 0..MaxUpdates
  <2>1. received' = received \/ (received < MaxUpdates /\ received' = received + 1)
    BY DEF BotNext, resolveOrCreateUser, newChatMembers, langCallback, startCommand,
       linkKyeCommand, unlinkKyeCommand, leavesChat, findsReferrer, findsExisting,
       updatesReferrer, insertsReferred, upsertUserLanguage, authorizesLink, upsertsGroup,
       deletesGroup, myChatMember, Receives, botVars
  <2>2. QED
    BY <2>1 DEF ChatsTyped, BotAssumption
<1>4. raced' \subseteq Person
  <2>1. raced' = raced \/ \E h \in Handler, ok \in BOOLEAN : findsExisting(h, ok)
    BY DEF BotNext, resolveOrCreateUser, newChatMembers, langCallback, startCommand,
       linkKyeCommand, unlinkKyeCommand, leavesChat, findsReferrer,
       updatesReferrer, insertsReferred, upsertUserLanguage, authorizesLink, upsertsGroup,
       deletesGroup, myChatMember, UsersUnchanged, botVars
  <2>2. QED
    BY <1>2, <2>1 DEF findsExisting, ChatsTyped
<1>5. inChat' \subseteq Chat
  <2>1. \/ inChat' = inChat \/ \E c \in Chat : newChatMembers(c)
        \/ \E h \in Handler, c \in Chat : leavesChat(h, c)
    BY DEF BotNext, resolveOrCreateUser, langCallback, startCommand,
       linkKyeCommand, unlinkKyeCommand, findsReferrer, findsExisting,
       updatesReferrer, insertsReferred, upsertUserLanguage, authorizesLink, upsertsGroup,
       deletesGroup, myChatMember, GroupsUnchanged, botVars
  <2>2. QED
    BY <2>1 DEF newChatMembers, leavesChat, ChatsTyped
<1>6. stale' \subseteq Chat
  <2>1. \/ stale' = stale
        \/ \E h \in Handler, ok \in BOOLEAN : upsertsGroup(h, ok) \/ myChatMember(h, ok)
    BY DEF BotNext, resolveOrCreateUser, newChatMembers, langCallback, startCommand,
       linkKyeCommand, unlinkKyeCommand, leavesChat, findsReferrer, findsExisting,
       updatesReferrer, insertsReferred, upsertUserLanguage, authorizesLink,
       deletesGroup, GroupsUnchanged, botVars
  <2>2. QED
    BY <1>1, <2>1 DEF upsertsGroup, myChatMember, ChatsTyped
<1>7. QED
  BY <1>3, <1>4, <1>5, <1>6 DEF ChatsTyped

LEMMA ChatsInvariant == Spec => [](BotInv /\ ChatsTyped)
<1>1. BotAssumption
  BY VisitsAssumption
<1>2. Init => BotInv /\ ChatsTyped
  BY <1>1, BotInitially DEF Init, BotInit, ChatsTyped, BotAssumption
<1>3. BotInv /\ ChatsTyped /\ [Next]_vars => (BotInv /\ ChatsTyped)'
  BY <1>1, VisitsLeaveBot, BotStep, ChatsStep DEF BotInv
<1>4. QED
  BY <1>2, <1>3, PTL DEF Spec

LEMMA VisitInvariant == Spec => [](visit \in Visit)
<1>1. Init => visit \in Visit
  BY DEF Init
<1>2. visit \in Visit /\ [Next]_vars => (visit \in Visit)'
  BY DEF Next, Activates, UsesWallet, UsesCircle, CreatesCircle, JoinsCircle, TalksToBot, vars
<1>3. QED
  BY <1>1, <1>2, PTL DEF Spec

(* Whatever a user does and whatever fails, the pages, the routes and the   *)
(* rows keep their types: no join request is posted more often than it is   *)
(* retried (api.ts:99), no vault spends more than it has, every activation, *)
(* update and failure is within its bound.                                  *)
THEOREM AppTypes == Spec => []TypeOK
<1>1. ASSUME visit \in Visit, faults \in 0..MaxFaults, ActInv, VisitedLedger, CirclePageInv,
             CreateInv /\ RecordsTyped, JoiningInv, BotInv /\ ChatsTyped
      PROVE  TypeOK
  <2>1. Onboarding!ActTypeOK
    BY <1>1, ActTyped, VisitsAssumption DEF ActInv
  <2>2. visit = "wallet" => LedgerTypeOK
    BY <1>1, ExactInvImplies DEF VisitedLedger
  <2>3. Circle!CircleTypeOK
    BY <1>1, CircleTyped, VisitsAssumption DEF CirclePageInv
  <2>4. Create!CreateTypeOK
    BY <1>1, CreateTyped
  <2>5. Join!JoinTypeOK
    BY <1>1, JoinTyped DEF JoiningInv
  <2>6. BotTypeOK
    BY <1>1, BotTyped DEF BotInv
  <2>7. CASE visit = "activation"
    BY <1>1, <2>1, <2>7 DEF TypeOK
  <2>8. CASE visit = "wallet"
    BY <1>1, <2>2, <2>8 DEF TypeOK
  <2>9. CASE visit = "circle"
    BY <1>1, <2>3, <2>9 DEF TypeOK
  <2>10. CASE visit = "create"
    BY <1>1, <2>4, <2>10 DEF TypeOK
  <2>11. CASE visit = "join"
    BY <1>1, <2>5, <2>11 DEF TypeOK
  <2>12. CASE visit = "bot"
    BY <1>1, <2>6, <2>12 DEF TypeOK
  <2>13. QED
    BY <1>1, <2>7, <2>8, <2>9, <2>10, <2>11, <2>12 DEF Visit
<1>2. QED
  BY <1>1, VisitInvariant, FaultsInvariant, ActInvariant, LedgerInvariant, CirclePageInvariant,
     CreateInvariant, JoiningInvariant, ChatsInvariant, PTL
=============================================================================
