---------------------------- MODULE RoostaVault ----------------------------
(***************************************************************************)
(* The per-user proxy accounts (packages/contracts/contracts/              *)
(* RoostaVault.tact) of one session key, and the client that signs intents *)
(* for them (apps/tma/src/lib/vault.ts).  A user who connects a second     *)
(* wallet has a second vault with the same session key, so that an intent  *)
(* signed for one vault can be delivered to the other.                     *)
(*                                                                         *)
(* Anyone may deliver any intent at any time and as often as it likes; the *)
(* signature holds exactly for what the session key signed.  An account    *)
(* whose balance stays at zero is removed by the network after StorageTerm *)
(* (it runs into storage debt) and can then be deployed again with the     *)
(* same address and a fresh seqno.                                         *)
(***************************************************************************)
EXTENDS Integers, Sequences, FiniteSets

CONSTANTS
    Vault,              \* addresses (owner, ownerPubKey) of one session key
    Target,             \* recipients of forwarded messages
    Amount,             \* amounts of intents
    Deposit,            \* values of plain transfers and bounced messages
    RelayerGas,         \* values relayers attach to VaultExecute
    MIN_RELAYER_GAS, SELF_KEEP,
    VAULT_MIN_GAS,      \* the client's own reserve check
    TtlSec,             \* the client's validity period of an intent
    TxFee,              \* network charge of a transaction
    StorageTerm,        \* time after which the network removes an empty account
    MaxBalance,         \* bound: deposits stop there
    MaxTime,            \* bound on the clock
    MaxSigned,          \* bound on the number of intents the client signs
    MaxEvents           \* bound on the number of events the vaults emit

ASSUME VaultAssumption ==
    /\ Amount \subseteq Nat /\ Deposit \subseteq Nat /\ RelayerGas \subseteq Nat
    /\ MIN_RELAYER_GAS \in Nat /\ SELF_KEEP \in Nat /\ VAULT_MIN_GAS \in Nat
    /\ TtlSec \in Nat /\ StorageTerm \in Nat
    /\ TxFee \in Nat
    /\ MaxBalance \in Nat /\ MaxTime \in Nat
    /\ MaxSigned \in Nat /\ MaxEvents \in Nat

(* A transaction costs less than the storage reserve and than any deposit,  *)
(* the client's reserve check is at least the contract's, and the network   *)
(* keeps an empty account for longer than an intent is valid (months        *)
(* against five minutes).                                                   *)
ASSUME NetworkAssumption ==
    /\ TxFee < SELF_KEEP
    /\ \A d \in Deposit : TxFee < d
    /\ SELF_KEEP <= VAULT_MIN_GAS
    /\ TtlSec < StorageTerm

Intent == [vault: Vault, seqno: Nat, validUntil: Nat, target: Target, amount: Nat]
Event == [type: {"VaultExecuted"}, vault: Vault, intent: Intent]
            \cup [type: {"VaultWithdrawn"}, vault: Vault]

VARIABLES
    deployed,   \* vault -> is the contract active?
    seqno,      \* vault -> self.seqno
    balance,    \* vault -> myBalance()
    touchedAt,  \* vault -> when its last debit was executed
    seen,       \* vault -> the state the client last read
    signed,     \* intents the session key has signed
    events,     \* VaultExecuted and VaultWithdrawn, oldest first
    now

vars == <<deployed, seqno, balance, touchedAt, seen, signed, events, now>>

Init ==
    /\ deployed = [v \in Vault |-> FALSE]
    /\ seqno = [v \in Vault |-> 0]
    /\ balance = [v \in Vault |-> 0]
    /\ touchedAt = [v \in Vault |-> 0]
    /\ seen = [v \in Vault |-> [deployed |-> FALSE, seqno |-> 0, balance |-> 0]]
    /\ signed = {}
    /\ events = <<>>
    /\ now = 0

-----------------------------------------------------------------------------
(* The contract *)

(* The owner's funding transaction carries the StateInit: it deploys the    *)
(* contract when there is none (init: seqno = 0); a later transfer, a       *)
(* payout or a bounced forward is accepted as it is.                        *)
Fund(v, amount) ==
    /\ deployed[v]
    /\ balance[v] + amount - TxFee <= MaxBalance
    /\ balance' = [balance EXCEPT ![v] = @ + amount - TxFee]
    /\ UNCHANGED <<deployed, seqno, touchedAt, seen, signed, events, now>>

Deploy(v, amount) ==
    /\ ~deployed[v]
    /\ amount - TxFee <= MaxBalance
    /\ deployed' = [deployed EXCEPT ![v] = TRUE]
    /\ seqno' = [seqno EXCEPT ![v] = 0]
    /\ balance' = [balance EXCEPT ![v] = amount - TxFee]
    /\ UNCHANGED <<touchedAt, seen, signed, events, now>>

VaultExecuted(i) == [type |-> "VaultExecuted", vault |-> i.vault, intent |-> i]
VaultWithdrawn(v) == [type |-> "VaultWithdrawn", vault |-> v]

(* checkSignature over a cell that includes myAddress().                    *)
SignatureHolds(v, i) == i.vault = v /\ i \in signed

(* The faulty variants F... of a definition, each before the one it varies, *)
(* are what the properties below are tested against; nothing uses them.     *)
FVaultExecuteReplay(v, i, gas) ==                     \* no seqno and no expiry check
    /\ deployed[v]
    /\ gas >= MIN_RELAYER_GAS
    /\ SignatureHolds(v, i)
    /\ i.amount <= balance[v] + gas - SELF_KEEP
    /\ seqno' = [seqno EXCEPT ![v] = @ + 1]
    /\ balance' = [balance EXCEPT ![v] = @ + gas - TxFee - i.amount]
    /\ balance'[v] <= MaxBalance
    /\ Len(events) < MaxEvents
    /\ touchedAt' = [touchedAt EXCEPT ![v] = now]
    /\ events' = Append(events, VaultExecuted(i))
    /\ UNCHANGED <<deployed, seen, signed, now>>

FVaultExecuteMode(v, i, gas) ==                       \* the signed mode 128 is honoured
    /\ deployed[v]
    /\ gas >= MIN_RELAYER_GAS
    /\ now <= i.validUntil
    /\ i.seqno = seqno[v]
    /\ SignatureHolds(v, i)
    /\ i.amount <= balance[v] + gas - SELF_KEEP
    /\ seqno' = [seqno EXCEPT ![v] = @ + 1]
    /\ balance' = [balance EXCEPT ![v] = 0]
    /\ Len(events) < MaxEvents
    /\ touchedAt' = [touchedAt EXCEPT ![v] = now]
    /\ events' = Append(events, VaultExecuted(i))
    /\ UNCHANGED <<deployed, seen, signed, now>>

FVaultExecuteUnfunded(v, i, gas) ==                   \* no test of the balance
    /\ deployed[v]
    /\ gas >= MIN_RELAYER_GAS
    /\ now <= i.validUntil
    /\ i.seqno = seqno[v]
    /\ SignatureHolds(v, i)
    /\ seqno' = [seqno EXCEPT ![v] = @ + 1]
    /\ balance' = [balance EXCEPT ![v] = @ + gas - TxFee - i.amount]
    /\ balance'[v] <= MaxBalance
    /\ Len(events) < MaxEvents
    /\ touchedAt' = [touchedAt EXCEPT ![v] = now]
    /\ events' = Append(events, VaultExecuted(i))
    /\ UNCHANGED <<deployed, seen, signed, now>>

VaultExecute(v, i, gas) ==
    /\ deployed[v]
    /\ gas >= MIN_RELAYER_GAS
    /\ now <= i.validUntil
    /\ i.seqno = seqno[v]
    /\ SignatureHolds(v, i)
    /\ i.amount <= balance[v] + gas - SELF_KEEP
    /\ seqno' = [seqno EXCEPT ![v] = @ + 1]
    /\ balance' = [balance EXCEPT ![v] = @ + gas - TxFee - i.amount]
    /\ balance'[v] <= MaxBalance
    /\ Len(events) < MaxEvents
    /\ touchedAt' = [touchedAt EXCEPT ![v] = now]
    /\ events' = Append(events, VaultExecuted(i))
    /\ UNCHANGED <<deployed, seen, signed, now>>

(* The owner sweeps the account; the contract stays, without a balance.     *)
OwnerWithdraw(v) ==
    /\ deployed[v]
    /\ Len(events) < MaxEvents
    /\ balance' = [balance EXCEPT ![v] = 0]
    /\ touchedAt' = [touchedAt EXCEPT ![v] = now]
    /\ events' = Append(events, VaultWithdrawn(v))
    /\ UNCHANGED <<deployed, seqno, seen, signed, now>>

(* The network: storage debt removes an account that stays empty.           *)
Remove(v) ==
    /\ deployed[v]
    /\ balance[v] = 0
    /\ now >= touchedAt[v] + StorageTerm
    /\ deployed' = [deployed EXCEPT ![v] = FALSE]
    /\ UNCHANGED <<seqno, balance, touchedAt, seen, signed, events, now>>

-----------------------------------------------------------------------------
(* The client: signAndRelay reads the vault's state and signs on it.  Other *)
(* tabs, other intents and the chain move on between the two.               *)

FetchVaultState(v) ==
    /\ seen' = [seen EXCEPT ![v] = [deployed |-> deployed[v],
                                    seqno    |-> IF deployed[v] THEN seqno[v] ELSE 0,
                                    balance  |-> balance[v]]]
    /\ seen' # seen
    /\ UNCHANGED <<deployed, seqno, balance, touchedAt, signed, events, now>>

FSign(v, target, amount) ==                           \* no reserve in the check
    /\ seen[v].deployed
    /\ amount <= seen[v].balance
    /\ Cardinality(signed) < MaxSigned
    /\ signed' = signed \cup {[vault |-> v, seqno |-> seen[v].seqno,
                               validUntil |-> now + TtlSec,
                               target |-> target, amount |-> amount]}
    /\ UNCHANGED <<deployed, seqno, balance, touchedAt, seen, events, now>>

Sign(v, target, amount) ==
    /\ seen[v].deployed
    /\ amount <= seen[v].balance - VAULT_MIN_GAS
    /\ Cardinality(signed) < MaxSigned
    /\ signed' = signed \cup {[vault |-> v, seqno |-> seen[v].seqno,
                               validUntil |-> now + TtlSec,
                               target |-> target, amount |-> amount]}
    /\ UNCHANGED <<deployed, seqno, balance, touchedAt, seen, events, now>>

Tick ==
    /\ now < MaxTime
    /\ now' = now + 1
    /\ UNCHANGED <<deployed, seqno, balance, touchedAt, seen, signed, events>>

Next ==
    \/ \E v \in Vault :
        \/ \E a \in Deposit : Fund(v, a) \/ Deploy(v, a)
        \/ \E i \in signed, gas \in RelayerGas : VaultExecute(v, i, gas)
        \/ OwnerWithdraw(v)
        \/ Remove(v)
        \/ FetchVaultState(v)
        \/ \E t \in Target, a \in Amount : Sign(v, t, a)
    \/ Tick

Spec == Init /\ [][Next]_vars

-----------------------------------------------------------------------------
(* Properties *)

Executions == {n \in DOMAIN events : events[n].type = "VaultExecuted"}
Swept(v) ==
    \E n \in DOMAIN events : events[n].type = "VaultWithdrawn" /\ events[n].vault = v

(* Every variable keeps to its range; balances are never negative.          *)
TypeOK ==
    /\ deployed \in [Vault -> BOOLEAN]
    /\ seqno \in [Vault -> Nat]
    /\ balance \in [Vault -> Nat]
    /\ touchedAt \in [Vault -> Nat]
    /\ seen \in [Vault -> [deployed: BOOLEAN, seqno: Nat, balance: Nat]]
    /\ signed \subseteq Intent
    /\ events \in Seq(Event)
    /\ now \in Nat

(* RoostaVault.tact:15-19: signature, seqno and validUntil are the only     *)
(* gates of a permissionless relay.  No intent is ever executed twice, on   *)
(* no vault of the same session key, and not even by a vault that was swept,*)
(* removed by the network and deployed again with seqno 0.                  *)
IntentsExecuteOnce ==
    \A m, n \in Executions : events[m].intent = events[n].intent => m = n

(* A vault executes only what its session key signed for it, and of the     *)
(* intents signed on one seqno (two tabs, a retry after a failed relay) at  *)
(* most one, unless the owner swept the vault in between.                   *)
OneIntentPerSeqno ==
    \A m, n \in Executions :
        LET i == events[m].intent
            j == events[n].intent
        IN  /\ i \in signed /\ events[m].vault = i.vault
            /\ (i.vault = j.vault /\ i.seqno = j.seqno /\ ~Swept(i.vault)) => m = n

(* vault.ts:118: the client refuses an amount the vault could not forward.  *)
(* However much time passes and whatever else happens to the account after  *)
(* the client read it, an intent on the vault's current seqno is covered,   *)
(* unless the owner swept the vault.                                        *)
FreshIntentAffordable ==
    \A i \in signed :
        (deployed[i.vault] /\ i.seqno = seqno[i.vault] /\ ~Swept(i.vault)) =>
            i.amount <= balance[i.vault] - SELF_KEEP

(* RoostaVault.tact:98-100: forwards keep the storage reserve, so that only *)
(* a vault its owner swept can be removed by the network, and a seqno never *)
(* goes back without it.                                                    *)
ReserveKeepsAccount ==
    [][ \A v \in Vault :
          (deployed[v] /\ (~deployed'[v] \/ seqno'[v] < seqno[v])) => Swept(v) ]_vars
=============================================================================
