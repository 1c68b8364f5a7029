------------------------------- MODULE MiniApp -------------------------------
(***************************************************************************)
(* The mini app, the bot beside it and the API behind them.  A behaviour   *)
(* is one visit: to the dialogs that activate a vault, the wallet page, a  *)
(* circle's page, the create page, the join page or the bot's chats, each  *)
(* with the routes it calls, the database rows and the contracts they      *)
(* reach, and the calls that fail.                                         *)
(* What a visit finds when it starts is given by its own Init: the states  *)
(* in which the other visits may have left the system.                     *)
(***************************************************************************)
EXTENDS VaultLedger, TelegramBot

CONSTANTS
    Device, MaxKeys, MaxActivations,                    \* activation
    PageCall, memberCount, VaultBalance, PendingRow,    \* a circle's page
    CreateCall, own, other, NoVault, Params, Salt, MaxNextSalt,
    JoinCall, User, NoUser, Slot, NoSlot, Wanted, Starts

VARIABLES
    visit,
    cloud, local, backfill, lookup, generated, disturbed, hook, synced, users, approved,
    deployed, notRegistered, activations,
    pageAsked, pageExecutions, pageAnswer, circle, balance, toCircle, bounced, row, rowRound,
    contribCache, kye, submitted, vaultState, submittedVaultBalance, outcome, pending, what,
    mine, deletingSet,
    createAsked, createExecutions, createAnswer, vaultHook, vault_address, submit, draft,
    createPosts, kyes, nextSalt, circles, created,
    joinAsked, joinExecutions, joinAnswer, setup, joinPage, joining, joinPosts, pending_joins,
    kye_members, kyeStatus, contract, refused, grant, unprotected

activationVars == <<cloud, local, backfill, lookup, generated, disturbed, hook, synced, users,
                    approved, deployed, notRegistered, activations>>
pageVars == <<pageAsked, pageExecutions, pageAnswer, circle, balance, toCircle, bounced, row,
              rowRound, contribCache, kye, submitted, vaultState, submittedVaultBalance, outcome,
              pending, what, mine, deletingSet>>
createVars == <<createAsked, createExecutions, createAnswer, vaultHook, vault_address, submit,
                draft, createPosts, kyes, nextSalt, circles, created>>
joinVars == <<joinAsked, joinExecutions, joinAnswer, setup, joinPage, joining, joinPosts,
              pending_joins, kye_members, kyeStatus, contract, refused, grant, unprotected>>
vars == <<visit, faults, activationVars, ledgerVars, pageVars, createVars, joinVars, botVars>>

Onboarding == INSTANCE VaultActivation
Circle == INSTANCE CirclePage WITH
    Call <- PageCall, asked <- pageAsked, executions <- pageExecutions, answer <- pageAnswer
Create == INSTANCE CircleCreation WITH
    Call <- CreateCall, asked <- createAsked, executions <- createExecutions,
    answer <- createAnswer
Join == INSTANCE JoinCircle WITH
    Call <- JoinCall, asked <- joinAsked, executions <- joinExecutions, answer <- joinAnswer

ASSUME VisitsAssumption ==
    /\ Onboarding!ActAssumption /\ Circle!CircleAssumption /\ Create!CreateAssumption
    /\ Join!JoinAssumption /\ BotAssumption

Visit == {"activation", "wallet", "circle", "create", "join", "bot"}

(* The variables of the visits that do not take place keep one value.       *)
Init ==
    /\ visit \in Visit /\ faults = 0
    /\ Onboarding!KeysInit /\ Onboarding!ActInit
    /\ LedgerInit /\ (visit # "wallet" => ledger.vault = CHOOSE saved \in Savings : TRUE)
    /\ Circle!CircleInit
    /\ visit # "circle" => circle.status = "created" /\ rowRound = CHOOSE r \in PendingRow : TRUE
    /\ Create!CreateInit
    /\ visit # "create" => vault_address = own /\ vaultHook.ready
    /\ Join!JoinInit
    /\ visit # "join" => setup = CHOOSE start \in Starts : TRUE
    /\ BotInit

Activates ==
    /\ visit = "activation" /\ Onboarding!ActNext
    /\ UNCHANGED <<visit, ledgerVars, pageVars, createVars, joinVars, botVars>>
UsesWallet ==
    /\ visit = "wallet" /\ LedgerNext
    /\ UNCHANGED <<visit, activationVars, pageVars, createVars, joinVars, botVars>>
UsesCircle ==
    /\ visit = "circle" /\ Circle!CircleNext
    /\ UNCHANGED <<visit, activationVars, ledgerVars, createVars, joinVars, botVars>>
CreatesCircle ==
    /\ visit = "create" /\ Create!CreateNext
    /\ UNCHANGED <<visit, activationVars, ledgerVars, pageVars, joinVars, botVars>>
JoinsCircle ==
    /\ visit = "join" /\ Join!JoinNext
    /\ UNCHANGED <<visit, activationVars, ledgerVars, pageVars, createVars, botVars>>
TalksToBot ==
    /\ visit = "bot" /\ BotNext
    /\ UNCHANGED <<visit, activationVars, ledgerVars, pageVars, createVars, joinVars>>

Next == Activates \/ UsesWallet \/ UsesCircle \/ CreatesCircle \/ JoinsCircle \/ TalksToBot

Spec == Init /\ [][Next]_vars

-----------------------------------------------------------------------------

(* Every visit keeps its variables in their types (the state that the pages *)
(* and routes of the mini app keep).                                        *)
TypeOK ==
    /\ visit \in Visit /\ faults \in 0..MaxFaults
    /\ CASE visit = "activation" -> Onboarding!ActTypeOK
         [] visit = "wallet" -> LedgerTypeOK
         [] visit = "circle" -> Circle!CircleTypeOK
         [] visit = "create" -> Create!CreateTypeOK
         [] visit = "join" -> Join!JoinTypeOK
         [] visit = "bot" -> BotTypeOK

(* See VaultActivation: all devices of a user derive one vault, and the one *)
(* a page shows as ready is registered (sessionKey.ts, useVault.ts).        *)
AgreedVault == Onboarding!AgreedVault
(* See CirclePage: the vault pays once for every round (kye/[address]).     *)
ContributionCharged == Circle!ContributionCharged
(* See CirclePage: "settled" is said only of what settled.                  *)
SuccessIsSettled == Circle!SuccessIsSettled
(* See CircleCreation: a circle on chain is the one whose row was written.  *)
CircleOnRecord == Create!CircleOnRecord
(* See JoinCircle: who holds the lock gets the slot.                        *)
LockHolderGetsSlot == Join!LockHolderGetsSlot
(* See JoinCircle: its contract is the circle that KyeContract implements.  *)
SeatsOfOneCircle == Join!SeatsOfOneCircle
=============================================================================
