----------------------------- MODULE VaultLedger -----------------------------
(***************************************************************************)
(* The money of one user: the vault on chain, and the two balances the     *)
(* backend keeps for it in the users row.  Operations start on the wallet  *)
(* page (withdraw, deposit, faucet) and on the circle pages (pay); each    *)
(* posts a request, and apiRequest posts it again when the connection or   *)
(* the server fails, also while the first request is still at work.  A     *)
(* circle pays the vault out, and the indexer credits it.  Every one of    *)
(* them reads the users row once and later writes what it computed from    *)
(* it.  The backend is told of one unit by every operation; the vault was  *)
(* activated with one unit, which pays for gas and is on no ledger.        *)
(*                                                                         *)
(* The chain may move other amounts.  A deposit sends toNano(amount) and   *)
(* reports usdcToNano(amount), a thousandth of it; a relayed message       *)
(* brings more gas along than the vault needs, and the rest stays there.   *)
(***************************************************************************)
EXTENDS Faults, Integers, FiniteSets

CONSTANTS
    MaxOps,         \* bound on operations
    Attempts,       \* posts of one request: one and the retries
    Savings,        \* what the vault may hold beyond the activation at first
    DepositSent,    \* units that a deposit sends for the one it reports
    GasLeft         \* what may be left of a relayed message's gas, in units
ASSUME LedgerAssumption ==
    /\ MaxOps \in Nat \ {0} /\ Attempts \in Nat \ {0} /\ Savings \subseteq Nat
    /\ DepositSent \in Nat \ {0} /\ GasLeft \subseteq Nat

Op == 1..MaxOps
Try == 1..Attempts
Kind == {"withdraw", "pay", "deposit", "faucet", "payout"}
Relayed == {"withdraw", "pay"}
VAULT_MIN_GAS == 1
Activation == 1

VARIABLES
    op,             \* operation -> what the client does for it
    req,            \* operation -> attempt -> where the request is, the row it read
    pool,           \* messages on their way to the vault: <<operation, attempt>>
    vault,          \* the vault on chain: seqno and balance
    ledger,         \* users: test_usdc_balance (owner), test_usdc_vault_balance
    page,           \* the balances the wallet page shows: ledger, chain
    busy,           \* the operation the wallet page is busy with
    expired,        \* operations whose intent is past validUntil
    returned,       \* payments the circle sent back
    stray,          \* what else the vault received and no ledger is told of
    executed,       \* operation -> executions of its intent
    overlapped      \* an operation started while another was at work

ledgerVars == <<op, req, pool, vault, ledger, page, busy, expired, returned, stray,
                executed, overlapped>>

LedgerInit ==
    /\ op = [n \in Op |-> [kind |-> "none", at |-> "idle", tries |-> 0, seqno |-> 0,
                           result |-> "none"]]
    /\ req = [n \in Op |-> [k \in Try |-> [at |-> "none", owner |-> 0, vault |-> 0]]]
    /\ pool = {}
    /\ ledger \in [owner : {0}, vault : Savings]
    /\ vault = [seqno |-> 0, balance |-> ledger.vault + Activation]
    /\ page = [ledger |-> ledger.vault, chain |-> vault.balance]
    /\ busy = "none"
    /\ expired = {} /\ returned = {} /\ stray = 0
    /\ executed = [n \in Op |-> 0]
    /\ overlapped = FALSE

Answered == {"none", "200", "400", "500"}
Settled(n) ==
    /\ op[n].at \in {"idle", "over"}
    /\ \A k \in Try : req[n][k].at \in Answered
    /\ \A e \in pool : e[1] # n

-----------------------------------------------------------------------------
(* The pages *)

Least(a, b) == IF a < b THEN a ELSE b
withdrawableNano == Least(page.ledger, page.chain - VAULT_MIN_GAS)

(* The buttons of the wallet page, and the sheets that deposits and         *)
(* withdrawals are confirmed in.  A payment starts on another page.         *)
Offered(kind) == CASE kind = "withdraw" -> withdrawableNano >= 1
                   [] kind = "faucet" -> busy # "faucet"
                   [] kind \in {"deposit", "pay"} -> TRUE
SheetConfirms(kind) == kind \in {"deposit", "withdraw"} => busy = "none"
Start(n, kind) ==
    /\ op[n].kind = "none" /\ \A m \in Op : m < n => op[m].kind # "none"
    /\ Offered(kind) /\ SheetConfirms(kind)
    /\ busy' = IF kind = "pay" THEN busy ELSE kind
    /\ op' = [op EXCEPT ![n].kind = kind,
                        ![n].at = CASE kind \in Relayed -> "sign"
                                    [] kind = "deposit" -> "approve"
                                    [] kind = "faucet" -> "post"]
    /\ overlapped' = (overlapped \/ \E m \in Op : ~Settled(m))
    /\ UNCHANGED <<req, pool, vault, ledger, page, expired, returned, stray, executed, faults>>

(* A round of a circle: its payout is on its way to the vault, and its      *)
(* event to the indexer.                                                    *)
payout(n) ==
    /\ op[n].kind = "none" /\ \A m \in Op : m < n => op[m].kind # "none"
    /\ op' = [op EXCEPT ![n].kind = "payout", ![n].at = "over"]
    /\ pool' = pool \cup {<<n, 0>>}
    /\ req' = [req EXCEPT ![n][1].at = "arrived"]
    /\ overlapped' = (overlapped \/ \E m \in Op : ~Settled(m))
    /\ UNCHANGED <<vault, ledger, page, busy, expired, returned, stray, executed, faults>>

(* The end of an operation frees the page, whichever it is busy with.       *)
EndsAt(n, at, result) ==
    /\ op' = [op EXCEPT ![n].at = at, ![n].result = result]
    /\ busy' = IF at = "over" /\ op[n].kind # "pay" THEN "none" ELSE busy

(* signAndRelay reads the vault's state and signs on it.                    *)
signIntent(n, ok) ==
    /\ op[n].at = "sign"
    /\ FaultUnless(ok)
    /\ \/ /\ ok /\ 1 <= vault.balance - VAULT_MIN_GAS
          /\ op' = [op EXCEPT ![n].at = "post", ![n].seqno = vault.seqno]
          /\ UNCHANGED busy
       \/ ~(ok /\ 1 <= vault.balance - VAULT_MIN_GAS) /\ EndsAt(n, "over", "failed")
    /\ UNCHANGED <<req, pool, vault, ledger, page, expired, returned, stray, executed,
                   overlapped>>

(* topUp: the wallet approves or rejects the transfer, and its answer may   *)
(* be lost; the page polls the balance for a while, and shows what it read. *)
(* The deposit is reported unless the connection of a poll fails.           *)
approveTopUp(n, yes, answered) ==
    /\ op[n].at = "approve"
    /\ FaultUnless(answered)
    /\ pool' = IF yes THEN pool \cup {<<n, 0>>} ELSE pool
    /\ IF yes /\ answered THEN op' = [op EXCEPT ![n].at = "poll"] /\ UNCHANGED busy
                          ELSE EndsAt(n, "over", "failed")
    /\ UNCHANGED <<req, vault, ledger, page, expired, returned, stray, executed, overlapped>>

(* fetchVaultState: the backend, too, may fail to read the vault, and then  *)
(* says that there is none.                                                 *)
Read == {"ok", "failed", "lost"}
Shown(read) == CASE read = "ok" -> vault.balance
                 [] read = "failed" -> 0
                 [] read = "lost" -> page.chain
pollTopUp(n, ok, read) ==
    /\ op[n].at = "poll"
    /\ FaultUnless(ok /\ read = "ok") /\ (ok => read # "lost")
    /\ page' = [page EXCEPT !.chain = Shown(read)]
    /\ \/ ok /\ op' = [op EXCEPT ![n].at = "post"] /\ UNCHANGED busy
       \/ ~ok /\ EndsAt(n, "over", "failed")
    /\ UNCHANGED <<req, pool, vault, ledger, expired, returned, stray, executed, overlapped>>

Post(n) ==
    LET k == op[n].tries + 1 IN
    /\ op[n].at = "post"
    /\ op' = [op EXCEPT ![n].at = "wait", ![n].tries = k]
    /\ req' = [req EXCEPT ![n][k].at = "arrived"]
    /\ UNCHANGED <<pool, vault, ledger, page, busy, expired, returned, stray, executed,
                   overlapped, faults>>

(* A failed deposit report is not fatal.                                    *)
GivesUp(n) == IF op[n].kind = "deposit" THEN EndsAt(n, "refresh", "failed")
                                        ELSE EndsAt(n, "over", "failed")
FSignAgain(n) ==                            \* every attempt signs afresh
    /\ op' = [op EXCEPT ![n].at = IF op[n].kind \in Relayed THEN "sign" ELSE "post"]
    /\ UNCHANGED busy
Again(n) == op' = [op EXCEPT ![n].at = "post"] /\ UNCHANGED busy
Retry(n) ==
    \/ op[n].tries < Attempts /\ Again(n)
    \/ op[n].tries = Attempts /\ GivesUp(n)

ClientUnchanged == UNCHANGED <<req, pool, vault, ledger, page, expired, returned, stray,
                               executed, overlapped>>
Receive(n) ==
    LET status == req[n][op[n].tries].at IN
    /\ op[n].at = "wait"
    /\ \/ status = "200" /\ EndsAt(n, "refresh", "ok")
       \/ status = "400" /\ GivesUp(n)
       \/ status = "500" /\ Retry(n)
    /\ ClientUnchanged /\ NoFault
ConnectionLost(n) ==
    /\ op[n].at = "wait"
    /\ Fault /\ Retry(n)
    /\ ClientUnchanged

(* What the page shows afterwards: the ledger by GET /me after a withdrawal *)
(* and by the answer to a reported deposit, the chain by refresh().         *)
Finish(n, ledgerRead, chainRead) ==
    /\ op[n].at = "refresh"
    /\ FaultUnless(ledgerRead /\ chainRead = "ok")
    /\ ~ledgerRead => op[n].kind = "withdraw"
    /\ chainRead # "ok" => op[n].kind \in {"withdraw", "deposit"}
    /\ page' = IF op[n].kind \in {"withdraw", "deposit"}
               THEN [ledger |-> IF ledgerRead /\ op[n].result = "ok" THEN ledger.vault
                                ELSE page.ledger,
                     chain |-> Shown(chainRead)]
               ELSE page
    /\ EndsAt(n, "over", op[n].result)
    /\ UNCHANGED <<req, pool, vault, ledger, expired, returned, stray, executed, overlapped>>
Reload ==
    /\ \A n \in Op : op[n].at \in {"idle", "over"}
    /\ page' = [ledger |-> ledger.vault, chain |-> vault.balance]
    /\ UNCHANGED <<op, req, pool, vault, ledger, busy, expired, returned, stray, executed,
                   overlapped, faults>>

-----------------------------------------------------------------------------
(* The routes *)

To(n, k, at) == req' = [req EXCEPT ![n][k].at = at]
ReadRow(n, k, at) ==
    req' = [req EXCEPT ![n][k] = [at |-> at, owner |-> ledger.owner, vault |-> ledger.vault]]
AnswersTo(n, k, status) ==
    req' = [req EXCEPT ![n][k] = [at |-> status, owner |-> 0, vault |-> 0]]
ServerUnchanged ==
    UNCHANGED <<op, vault, page, busy, expired, returned, stray, executed, overlapped>>

(* POST /relay: expiry, then the vault's state, its seqno, the signature.   *)
(* A vault that cannot be read (~ok) counts as not deployed.  No answer of  *)
(* these makes the client post again.                                       *)
relayChecks(n, k, ok) ==
    /\ op[n].kind \in Relayed /\ req[n][k].at = "arrived"
    /\ n \in expired => ok
    /\ FaultUnless(ok)
    /\ \/ (n \in expired \/ ~ok) /\ AnswersTo(n, k, "400")
       \/ n \notin expired /\ ok /\ (IF op[n].seqno = vault.seqno THEN To(n, k, "checked")
                                                        ELSE AnswersTo(n, k, "400"))
    /\ UNCHANGED <<pool, ledger>> /\ ServerUnchanged
relayBroadcasts(n, k, ok, reached) ==
    /\ op[n].kind \in Relayed /\ req[n][k].at = "checked"
    /\ FaultUnless(ok) /\ (ok => reached)
    /\ pool' = IF reached THEN pool \cup {<<n, k>>} ELSE pool
    /\ IF ok THEN To(n, k, "sent") ELSE AnswersTo(n, k, "500")
    /\ UNCHANGED ledger /\ ServerUnchanged
(* The ledger follows only after the broadcast; its failure is not fatal.   *)
relayReadsRow(n, k, ok) ==
    /\ op[n].kind \in Relayed /\ req[n][k].at = "sent"
    /\ FaultUnless(ok)
    /\ IF ok THEN ReadRow(n, k, "read") ELSE AnswersTo(n, k, "200")
    /\ UNCHANGED <<pool, ledger>> /\ ServerUnchanged
relayWritesRow(n, k, ok) ==
    /\ op[n].kind \in Relayed /\ req[n][k].at = "read"
    /\ FaultUnless(ok)
    /\ ledger' = IF ~ok THEN ledger
                 ELSE [vault |-> IF req[n][k].vault = 0 THEN 0 ELSE req[n][k].vault - 1,
                       owner |-> IF op[n].kind = "withdraw" THEN req[n][k].owner + 1
                                 ELSE ledger.owner]
    /\ AnswersTo(n, k, "200")
    /\ UNCHANGED pool /\ ServerUnchanged

readsRow(n, k, ok) ==                       \* POST /me/faucet, /me/balance/deposit
    /\ op[n].kind \in {"deposit", "faucet"} /\ req[n][k].at = "arrived"
    /\ FaultUnless(ok)
    /\ IF ok THEN ReadRow(n, k, "read") ELSE AnswersTo(n, k, "500")
    /\ UNCHANGED <<pool, ledger>> /\ ServerUnchanged
(* The indexer on PayoutSent: its failures are passed over.                 *)
creditReadsRow(n, k, ok) ==
    /\ op[n].kind = "payout" /\ req[n][k].at = "arrived"
    /\ FaultUnless(ok)
    /\ IF ok THEN ReadRow(n, k, "read") ELSE AnswersTo(n, k, "none")
    /\ UNCHANGED <<pool, ledger>> /\ ServerUnchanged
creditWritesRow(n, k, ok) ==
    /\ op[n].kind = "payout" /\ req[n][k].at = "read"
    /\ FaultUnless(ok)
    /\ ledger' = IF ok THEN [ledger EXCEPT !.vault = req[n][k].vault + 1] ELSE ledger
    /\ AnswersTo(n, k, "none")
    /\ UNCHANGED pool /\ ServerUnchanged
depositWritesRow(n, k, ok) ==
    /\ op[n].kind = "deposit" /\ req[n][k].at = "read"
    /\ FaultUnless(ok)
    /\ ledger' = IF ~ok THEN ledger
                 ELSE [owner |-> IF req[n][k].owner > 1 THEN req[n][k].owner - 1 ELSE 0,
                       vault |-> req[n][k].vault + 1]
    /\ AnswersTo(n, k, IF ok THEN "200" ELSE "500")
    /\ UNCHANGED pool /\ ServerUnchanged
sendPlainTon(n, k, ok, reached) ==
    /\ op[n].kind = "faucet" /\ req[n][k].at = "read"
    /\ FaultUnless(ok) /\ (ok => reached)
    /\ pool' = IF reached THEN pool \cup {<<n, k>>} ELSE pool
    /\ IF ok THEN To(n, k, "sent") ELSE AnswersTo(n, k, "500")
    /\ UNCHANGED ledger /\ ServerUnchanged
FfaucetWritesRow(n, k, ok) ==               \* credited to the owner's balance
    /\ op[n].kind = "faucet" /\ req[n][k].at = "sent"
    /\ FaultUnless(ok)
    /\ ledger' = IF ok THEN [ledger EXCEPT !.owner = req[n][k].owner + 1] ELSE ledger
    /\ AnswersTo(n, k, "200")
    /\ UNCHANGED pool /\ ServerUnchanged
faucetWritesRow(n, k, ok) ==
    /\ op[n].kind = "faucet" /\ req[n][k].at = "sent"
    /\ FaultUnless(ok)
    /\ ledger' = IF ok THEN [ledger EXCEPT !.vault = req[n][k].vault + 1] ELSE ledger
    /\ AnswersTo(n, k, "200")
    /\ UNCHANGED pool /\ ServerUnchanged

-----------------------------------------------------------------------------
(* The chain *)

ChainUnchanged == UNCHANGED <<op, req, ledger, page, busy, overlapped>>
(* VaultExecute: an intent that is not the vault's next is refused.  The    *)
(* circle a payment goes to may send it back.                               *)
VaultExecute(n, accepted) ==
    LET valid == op[n].seqno = vault.seqno /\ n \notin expired /\ vault.balance >= 1
        kept == IF accepted THEN vault.balance - 1 ELSE vault.balance IN
    /\ \/ /\ valid
          /\ accepted \/ op[n].kind = "pay"
          /\ \E left \in GasLeft :
                /\ vault' = [seqno |-> vault.seqno + 1, balance |-> kept + left]
                /\ stray' = stray + left
          /\ executed' = [executed EXCEPT ![n] = @ + 1]
          /\ returned' = IF accepted THEN returned ELSE returned \cup {n}
       \/ ~valid /\ accepted /\ UNCHANGED <<vault, stray, executed, returned>>
    /\ UNCHANGED expired
Received(n) == IF op[n].kind = "deposit" THEN DepositSent ELSE 1
Include(e, accepted) ==
    /\ e \in pool
    /\ pool' = pool \ {e}
    /\ \/ op[e[1]].kind \in Relayed /\ VaultExecute(e[1], accepted)
       \/ /\ op[e[1]].kind \in Kind \ Relayed /\ accepted
          /\ vault' = [vault EXCEPT !.balance = @ + Received(e[1])]
          /\ stray' = stray + Received(e[1]) - 1
          /\ UNCHANGED <<executed, returned, expired>>
    /\ ChainUnchanged /\ NoFault
(* The backend wallet's next message took the seqno.                        *)
Drop(e) ==
    /\ e \in pool /\ e[2] # 0
    /\ Fault
    /\ pool' = pool \ {e}
    /\ UNCHANGED <<vault, expired, returned, stray, executed>> /\ ChainUnchanged
TtlPasses(n) ==
    /\ op[n].kind \in Relayed /\ op[n].tries > 0 /\ n \notin expired
    /\ Fault
    /\ expired' = expired \cup {n}
    /\ UNCHANGED <<pool, vault, returned, stray, executed>> /\ ChainUnchanged

LedgerNext ==
    \/ Reload
    \/ \E n \in Op :
        \/ payout(n) \/ Post(n) \/ Receive(n) \/ ConnectionLost(n) \/ TtlPasses(n)
        \/ \E kind \in Kind \ {"payout"} : Start(n, kind)
        \/ \E ok \in BOOLEAN :
            \/ signIntent(n, ok) \/ \E answered \in BOOLEAN : approveTopUp(n, ok, answered)
            \/ \E read \in Read : pollTopUp(n, ok, read) \/ Finish(n, ok, read)
        \/ \E k \in Try, ok \in BOOLEAN :
            \/ relayChecks(n, k, ok) \/ relayReadsRow(n, k, ok) \/ relayWritesRow(n, k, ok)
            \/ creditReadsRow(n, k, ok) \/ creditWritesRow(n, k, ok)
            \/ readsRow(n, k, ok) \/ depositWritesRow(n, k, ok) \/ faucetWritesRow(n, k, ok)
            \/ \E reached \in BOOLEAN :
                relayBroadcasts(n, k, ok, reached) \/ sendPlainTon(n, k, ok, reached)
    \/ \E e \in pool : Drop(e) \/ \E accepted \in BOOLEAN : Include(e, accepted)

-----------------------------------------------------------------------------

LedgerTypeOK ==
    /\ op \in [Op -> [kind : Kind \cup {"none"},
                      at : {"idle", "sign", "approve", "poll", "post", "wait", "refresh", "over"},
                      tries : 0..Attempts, seqno : Nat, result : {"none", "ok", "failed"}]]
    /\ req \in [Op -> [Try -> [at : Answered \cup {"arrived", "checked", "sent", "read"},
                               owner : Nat, vault : Nat]]]
    /\ pool \subseteq Op \X (0..Attempts)
    /\ vault \in [seqno : Nat, balance : Nat]
    /\ ledger \in [owner : Nat, vault : Nat]
    /\ page \in [ledger : Nat, chain : Nat]
    /\ busy \in {"none", "withdraw", "deposit", "faucet"}
    /\ expired \subseteq Op /\ returned \subseteq Op /\ stray \in Nat
    /\ executed \in [Op -> Nat]
    /\ overlapped \in BOOLEAN

(* Where nothing failed and one operation followed the other, the backend   *)
(* never shows more than the chain holds beyond the activation, although a  *)
(* page that knows only the chain's balance can spend what no ledger was    *)
(* told of, and the debit then stops at zero; and it falls short only by    *)
(* payments that circles sent back, by the part of deposits that is not     *)
(* reported, and by gas that was left (relay.ts:178-209, me.ts:300,345,     *)
(* indexer.ts:334-353, wallet/page.tsx:50-56,85).                           *)
LedgerExact ==
    faults = 0 /\ ~overlapped /\ (\A n \in Op : Settled(n)) =>
        LET untracked == vault.balance - Activation - ledger.vault
        IN  0 <= untracked /\ untracked <= Cardinality(returned) + stray

(* signAndRelay keeps its promise: retries of the request, requests that    *)
(* overlap with their own retries, lost answers and copies of the broadcast *)
(* never make a vault execute one call twice (vault.ts:114-144).            *)
Abstract == INSTANCE RelayedCall WITH
    Call <- Op,
    asked <- {n \in Op : op[n].kind \in Relayed
                            /\ (op[n].at \in {"post", "wait", "refresh"} \/ op[n].tries > 0)},
    executions <- executed,
    answer <- [n \in Op |-> IF op[n].kind \in Relayed /\ op[n].tries > 0
                            THEN op[n].result ELSE "none"]
PaysAtMostOnce == Abstract!CallSpec
=============================================================================
