--------------------------- MODULE VaultActivation ---------------------------
(***************************************************************************)
(* From a connected wallet to a vault the backend knows: the useVault hook *)
(* and WalletSync on each device of a user with one wallet, PATCH          *)
(* /me/wallet and PATCH /me/vault, and the transaction that deploys the    *)
(* vault.  The vault's address is a function of the wallet and of the      *)
(* session key, so the key stands for the vault.                           *)
(*                                                                         *)
(* A page that has read that the vault is deployed offers activation no    *)
(* more, and nothing else registers the vault with the backend.            *)
(***************************************************************************)
EXTENDS SessionKeys

CONSTANTS MaxActivations            \* bound on calls of activate()
ActAssumption == MaxKeys \in Nat /\ MaxActivations \in Nat

VARIABLES
    hook,           \* device -> useVault's state and where activate() is
    synced,         \* device -> WalletSync: off, saving, idle
    users,          \* users row: is wallet_address set, and vault_address
    approved,       \* activation transactions the chain has yet to include
    deployed,       \* vaults on chain
    notRegistered,  \* a registration was refused or failed, or never came
                    \* after a transfer that may have been approved
    activations

hookVars == <<hook, synced>>
actVars == <<hook, synced, users, approved, deployed, notRegistered, activations>>

Closed == [vaultAddress |-> NoKey, ready |-> FALSE, at |-> "idle"]
ActInit ==
    /\ hook = [d \in Device |-> Closed]
    /\ synced = [d \in Device |-> "off"]
    /\ users = [wallet |-> FALSE, vault_address |-> NoKey]
    /\ approved = {} /\ deployed = {}
    /\ notRegistered = FALSE
    /\ activations = 0

(* A new address restarts WalletSync and the derivation of the vault.       *)
connectWallet(d) ==
    /\ synced[d] = "off"
    /\ synced' = [synced EXCEPT ![d] = "saving"]
    /\ getOrCreateSessionKey(<<d, "derive">>)
    /\ UNCHANGED <<hook, users, approved, deployed, notRegistered, activations, faults>>

(* PATCH /me/wallet; a failure is not tried again before the next address.  *)
saveWallet(d, ok) ==
    /\ synced[d] = "saving"
    /\ FaultUnless(ok)
    /\ synced' = [synced EXCEPT ![d] = "idle"]
    /\ users' = [users EXCEPT !.wallet = users.wallet \/ ok]
    /\ UNCHANGED <<hook, approved, deployed, notRegistered, activations, keyVars>>

deriveVault(d) ==
    LET c == <<d, "derive">> IN
    /\ lookup[c].at = "done"
    /\ hook' = [hook EXCEPT ![d].vaultAddress = lookup[c].seed]
    /\ Returned(c)
    /\ UNCHANGED <<synced, users, approved, deployed, notRegistered, activations, faults>>

(* A read of the vault's state that fails says "not deployed".              *)
readVaultState(d, ok, at) ==
    /\ FaultUnless(ok)
    /\ hook' = [hook EXCEPT ![d].ready = (ok /\ hook[d].vaultAddress \in deployed),
                            ![d].at = at]
    /\ UNCHANGED <<synced, users, approved, deployed, notRegistered, activations, keyVars>>
refresh(d, ok) ==
    /\ hook[d].vaultAddress # NoKey
    /\ readVaultState(d, ok, hook[d].at)

(* activate(): the key, the wallet's approval, the registration, the wait.  *)
activate(d) ==
    /\ synced[d] # "off" /\ ~hook[d].ready
    /\ hook[d].at = "idle"
    /\ activations < MaxActivations /\ activations' = activations + 1
    /\ hook' = [hook EXCEPT ![d].at = "key"]
    /\ getOrCreateSessionKey(<<d, "activate">>)
    /\ UNCHANGED <<synced, users, approved, deployed, notRegistered, faults>>

(* The transfer is rejected, or approved; the wallet's answer may be lost.  *)
sendTransaction(d, ok) ==
    LET c == <<d, "activate">> IN
    /\ hook[d].at = "key" /\ lookup[c].at = "done"
    /\ FaultUnless(ok)
    /\ approved' \in {approved, approved \cup {lookup[c].seed}}
    /\ \/ /\ ok /\ lookup[c].seed \in approved'                  \* approved
          /\ hook' = [hook EXCEPT ![d].at = "register"]
          /\ UNCHANGED <<keyVars, notRegistered>>
       \/ /\ ok => approved' = approved                        \* rejected, or lost
          /\ hook' = [hook EXCEPT ![d].at = "idle"]
          /\ notRegistered' = (notRegistered \/ ~ok)
          /\ Returned(c)
    /\ UNCHANGED <<synced, users, deployed, activations>>

(* PATCH /me/vault: the backend derives the address from the wallet on      *)
(* record, and refuses a user it has none for.  It may reach the backend    *)
(* and the answer not the page.                                             *)
FregisterVault(d, ok, reached) ==           \* registered once the vault is there
    LET c == <<d, "activate">>
        registered == reached /\ users.wallet IN
    /\ hook[d].at = "register"
    /\ FaultUnless(ok) /\ (ok => reached)
    /\ users' = IF registered /\ lookup[c].seed \in deployed
                THEN [users EXCEPT !.vault_address = lookup[c].seed] ELSE users
    /\ hook' = IF ok /\ registered
               THEN [hook EXCEPT ![d].vaultAddress = lookup[c].seed, ![d].at = "poll"]
               ELSE [hook EXCEPT ![d].at = "idle"]
    /\ notRegistered' = (notRegistered \/ ~registered)
    /\ Returned(c)
    /\ UNCHANGED <<synced, approved, deployed, activations>>
registerVault(d, ok, reached) ==
    LET c == <<d, "activate">>
        registered == reached /\ users.wallet IN
    /\ hook[d].at = "register"
    /\ FaultUnless(ok) /\ (ok => reached)
    /\ users' = IF registered
                THEN [users EXCEPT !.vault_address = lookup[c].seed] ELSE users
    /\ hook' = IF ok /\ registered
               THEN [hook EXCEPT ![d].vaultAddress = lookup[c].seed, ![d].at = "poll"]
               ELSE [hook EXCEPT ![d].at = "idle"]
    /\ notRegistered' = (notRegistered \/ ~registered)
    /\ Returned(c)
    /\ UNCHANGED <<synced, approved, deployed, activations>>

pollEnds(d, ok) ==
    /\ hook[d].at = "poll"
    /\ readVaultState(d, ok, "idle")

(* The mini app is closed; its wallet restores itself when it is opened     *)
(* again (connectWallet).  A transfer that waits for the wallet may still   *)
(* be approved there, and no page is left to register the vault.            *)
closeMiniApp(d) ==
    LET asked == hook[d].at = "key" /\ lookup[<<d, "activate">>].at = "done" IN
    /\ synced[d] # "off"
    /\ Fault
    /\ synced' = [synced EXCEPT ![d] = "off"]
    /\ hook' = [hook EXCEPT ![d] = Closed]
    /\ \/ UNCHANGED approved
       \/ asked /\ approved' = approved \cup {lookup[<<d, "activate">>].seed}
    /\ notRegistered' = (notRegistered \/ asked \/ hook[d].at = "register")
    /\ LookupsStop(d)
    /\ UNCHANGED <<users, deployed, activations>>

deployLands(v) ==
    /\ v \in approved
    /\ approved' = approved \ {v}
    /\ deployed' = deployed \cup {v}
    /\ UNCHANGED <<hookVars, users, notRegistered, activations, keyVars, faults>>

ActNext ==
    \/ KeysNext /\ UNCHANGED actVars
    \/ \E d \in Device :
        \/ connectWallet(d) \/ deriveVault(d) \/ activate(d) \/ closeMiniApp(d)
        \/ \E ok \in BOOLEAN :
            \/ saveWallet(d, ok) \/ refresh(d, ok) \/ sendTransaction(d, ok) \/ pollEnds(d, ok)
            \/ \E reached \in BOOLEAN : registerVault(d, ok, reached)
    \/ \E v \in approved : deployLands(v)

-----------------------------------------------------------------------------

Vaults == Key \cup {NoKey}
ActTypeOK ==
    /\ KeysTypeOK
    /\ hook \in [Device -> [vaultAddress : Vaults, ready : BOOLEAN,
                            at : {"idle", "key", "register", "poll"}]]
    /\ synced \in [Device -> {"off", "saving", "idle"}]
    /\ users \in [wallet : BOOLEAN, vault_address : Vaults]
    /\ approved \subseteq Key /\ deployed \subseteq Key
    /\ notRegistered \in BOOLEAN
    /\ activations \in 0..MaxActivations

(* Unless a CloudStorage call fails, the page is closed while it saves the  *)
(* first key, or two devices at once have found none in the cloud, all      *)
(* devices of a user derive one vault ("Idempotent", sessionKey.ts:70); and *)
(* a vault that a page shows as ready, also a page that was opened again,   *)
(* is the one the backend registered, unless its registration is under way, *)
(* was refused or failed, or the wallet's answer or the page was lost       *)
(* between the transfer and the registration (useVault.ts:104-110).         *)
AgreedVault ==
    ~disturbed =>
        \A d \in Device : hook[d].vaultAddress # NoKey =>
            /\ \A e \in Device : hook[e].vaultAddress \in {NoKey, hook[d].vaultAddress}
            /\ hook[d].ready =>
                \/ users.vault_address = hook[d].vaultAddress
                \/ notRegistered \/ \E e \in Device : hook[e].at = "register"
=============================================================================
