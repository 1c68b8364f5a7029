-------------------------- MODULE VaultLedgerProofs --------------------------
(***************************************************************************)
(* signAndRelay keeps its promise for any number of operations, retries    *)
(* and copies: VaultLedger implements RelayedCall.                         *)
(*                                                                         *)
(* An intent is signed once, on the seqno the vault then has, and is posted *)
(* unchanged from then on.  Executing it moves the vault past that seqno,  *)
(* so that whatever copy arrives later finds another one.                  *)
(***************************************************************************)
EXTENDS VaultLedger, FiniteSetTheorems, TLAPS

LedgerSpec == LedgerInit /\ [][LedgerNext]_ledgerVars

At == {"idle", "sign", "approve", "poll", "post", "wait", "refresh", "over"}
OpType == [kind : Kind \cup {"none"}, at : At, tries : Nat, seqno : Nat,
           result : {"none", "ok", "failed"}]
ShapeInv ==
    /\ op \in [Op -> OpType]
    /\ DOMAIN req = Op /\ \A n \in Op : DOMAIN req[n] = Try
    /\ pool \subseteq Op \X Nat
    /\ DOMAIN vault = {"seqno", "balance"} /\ vault.seqno \in Nat
    /\ executed \in [Op -> Nat]

(* How far an operation is, and what the client has done for it by then.    *)
Client(o) ==
    /\ o.kind = "none" => o.at = "idle"
    /\ o.at = "idle" => o.tries = 0
    /\ o.at = "sign" => o.kind \in Relayed /\ o.tries = 0
    /\ o.at \in {"approve", "poll"} => o.kind = "deposit" /\ o.tries = 0
    /\ o.at \in {"wait", "refresh"} => o.tries > 0
    /\ o.at \in {"idle", "sign", "approve", "poll", "post", "wait"} => o.result = "none"
    /\ o.kind = "payout" => o.at = "over" /\ o.tries = 0
ClientInv == \A n \in Op : Client(op[n])

(* Only what was posted reaches the routes and the vault.                   *)
Posted(o) == o.tries > 0 \/ o.kind = "payout"
PostedInv ==
    /\ \A n \in Op : \A k \in Try : req[n][k].at # "none" => Posted(op[n])
    /\ \A e \in pool : Posted(op[e[1]]) \/ op[e[1]].kind = "deposit"

(* What a vault executed was posted, and is behind the vault's seqno.       *)
SpentInv ==
    \A n \in Op :
        \/ executed[n] = 0
        \/ /\ executed[n] = 1
           /\ op[n].kind \in Relayed /\ op[n].tries > 0
           /\ op[n].seqno < vault.seqno

IInv == ShapeInv /\ ClientInv /\ PostedInv /\ SpentInv

-----------------------------------------------------------------------------

(* The state in which the pages open.                                       *)
LEMMA LedgerInitially == LedgerInit => IInv
BY DEF LedgerInit, IInv, ShapeInv, ClientInv, Client, PostedInv, SpentInv, OpType, At, Kind,
       Relayed

(* A step of the client moves one operation forward: it keeps its kind, and *)
(* once it is signed its seqno; only a post adds a request, and only an     *)
(* approved top-up or a payout adds a message.                              *)
Forward(n, o) ==
    /\ op' = [op EXCEPT ![n] = o]
    /\ Client(o)
    /\ o.tries >= op[n].tries
    /\ op[n].kind # "none" => o.kind = op[n].kind
    /\ op[n].at # "sign" => o.seqno = op[n].seqno
    /\ DOMAIN req' = Op /\ \A m \in Op : DOMAIN req'[m] = Try
    /\ \A m \in Op : \A k \in Try :
        req'[m][k].at # "none" => req[m][k].at # "none" \/ (m = n /\ Posted(o))
    /\ pool' \subseteq Op \X Nat
    /\ \A e \in pool' : e \in pool \/ (e[1] = n /\ (Posted(o) \/ o.kind = "deposit"))
    /\ UNCHANGED <<vault, executed>>
LEMMA ForwardKeeps ==
    ASSUME IInv, NEW n \in Op, NEW o \in OpType, Forward(n, o)
    PROVE  IInv'
<1>1. \A m \in Op : /\ op'[m].tries >= op[m].tries
                    /\ op[m].kind # "none" => op'[m].kind = op[m].kind
                    /\ op[m].at # "sign" => op'[m].seqno = op[m].seqno
                    /\ op[m].tries \in Nat /\ op'[m].tries \in Nat
                    /\ Posted(op[m]) => Posted(op'[m])
                    /\ op[m].kind = "deposit" => op'[m].kind = "deposit"
  BY DEF IInv, ShapeInv, Forward, OpType, Posted
<1>2. ShapeInv'
  BY DEF IInv, ShapeInv, Forward
<1>3. ClientInv'
  BY DEF IInv, ShapeInv, ClientInv, Forward
<1>4. op'[n] = o
  BY DEF IInv, ShapeInv, Forward
<1>5. PostedInv'
  <2>1. \A m \in Op : \A k \in Try : req'[m][k].at # "none" => Posted(op'[m])
    BY <1>1, <1>4 DEF IInv, PostedInv, Forward
  <2>2. \A e \in pool' : Posted(op'[e[1]]) \/ op'[e[1]].kind = "deposit"
    <3>1. \A e \in pool : e[1] \in Op
      BY DEF IInv, ShapeInv
    <3>2. QED  BY <1>1, <1>4, <3>1 DEF IInv, PostedInv, Forward
  <2>3. QED  BY <2>1, <2>2 DEF PostedInv
<1>6. SpentInv'
  <2>1. SUFFICES ASSUME NEW m \in Op, executed[m] # 0
                 PROVE  /\ executed[m] = 1
                        /\ op'[m].kind \in Relayed /\ op'[m].tries > 0
                        /\ op'[m].seqno < vault.seqno
    BY DEF SpentInv, Forward
  <2>2. /\ executed[m] = 1
        /\ op[m].kind \in Relayed /\ op[m].tries > 0
        /\ op[m].seqno < vault.seqno
    BY <2>1 DEF IInv, SpentInv
  <2>3. op[m].at # "sign" /\ op[m].kind # "none"
    BY <2>2 DEF IInv, ClientInv, Client, Relayed
  <2>4. QED  BY <1>1, <2>2, <2>3
<1>7. QED  BY <1>2, <1>3, <1>5, <1>6 DEF IInv

(* A step of a route handles a request that arrived, and may broadcast it.  *)
Serves(n, k) ==
    /\ req[n][k].at # "none"
    /\ DOMAIN req' = Op /\ \A m \in Op : DOMAIN req'[m] = Try
    /\ \A m \in Op : \A j \in Try : <<m, j>> # <<n, k>> => req'[m][j] = req[m][j]
    /\ pool' \subseteq pool \cup {<<n, k>>}
    /\ UNCHANGED <<op, vault, executed>>
LEMMA ServesKeeps ==
    ASSUME IInv, NEW n \in Op, NEW k \in Try, Serves(n, k)
    PROVE  IInv'
<1>1. Posted(op[n])
  BY DEF IInv, PostedInv, Serves
<1>2. ShapeInv'
  BY DEF IInv, ShapeInv, Serves, Try
<1>3. ClientInv' /\ SpentInv'
  BY DEF IInv, ClientInv, SpentInv, Serves
<1>4. PostedInv'
  BY <1>1 DEF IInv, PostedInv, Serves, Posted
<1>5. QED  BY <1>2, <1>3, <1>4 DEF IInv

LEMMA OpTyped == ASSUME IInv, NEW n \in Op
                 PROVE  op[n] \in OpType /\ Client(op[n])
BY DEF IInv, ShapeInv, ClientInv

(* Each step of the client is a step forward of one operation.              *)
ClientStep(n) ==
    \/ \E kind \in Kind \ {"payout"} : Start(n, kind)
    \/ payout(n) \/ Post(n) \/ Receive(n) \/ ConnectionLost(n)
    \/ \E ok \in BOOLEAN :
        \/ signIntent(n, ok) \/ \E answered \in BOOLEAN : approveTopUp(n, ok, answered)
        \/ \E read \in Read : pollTopUp(n, ok, read) \/ Finish(n, ok, read)
LEMMA ClientMovesForward ==
    ASSUME IInv, NEW n \in Op, ClientStep(n)
    PROVE  op'[n] \in OpType /\ Forward(n, op'[n])
<1> USE OpTyped
<1> USE DEF IInv, ShapeInv
<1>1. ASSUME NEW kind \in Kind \ {"payout"}, Start(n, kind)
      PROVE  op'[n] \in OpType /\ Forward(n, op'[n])
  BY <1>1 DEF Start, Forward, Client, OpType, At, Kind, Relayed, Posted
<1>2. CASE payout(n)
  BY <1>2 DEF payout, Forward, Client, OpType, At, Kind, Relayed, Posted
<1>3. CASE Post(n)
  BY <1>3 DEF Post, Forward, Client, OpType, At, Kind, Relayed, Posted
<1>4. CASE Receive(n)
  BY <1>4 DEF Receive, EndsAt, GivesUp, Retry, Again, ClientUnchanged, Forward, Client, OpType,
              At, Kind, Relayed, Posted
<1>5. CASE ConnectionLost(n)
  BY <1>5 DEF ConnectionLost, EndsAt, GivesUp, Retry, Again, ClientUnchanged, Forward, Client,
              OpType, At, Kind, Relayed, Posted
<1>6. ASSUME NEW ok \in BOOLEAN, signIntent(n, ok)
      PROVE  op'[n] \in OpType /\ Forward(n, op'[n])
  BY <1>6 DEF signIntent, EndsAt, Forward, Client, OpType, At, Kind, Relayed, Posted
<1>7. ASSUME NEW ok \in BOOLEAN, NEW answered \in BOOLEAN, approveTopUp(n, ok, answered)
      PROVE  op'[n] \in OpType /\ Forward(n, op'[n])
  BY <1>7 DEF approveTopUp, EndsAt, Forward, Client, OpType, At, Kind, Relayed, Posted
<1>8. ASSUME NEW ok \in BOOLEAN, NEW read \in Read, pollTopUp(n, ok, read)
      PROVE  op'[n] \in OpType /\ Forward(n, op'[n])
  BY <1>8 DEF pollTopUp, EndsAt, Forward, Client, OpType, At, Kind, Relayed, Posted
<1>9. ASSUME NEW ok \in BOOLEAN, NEW read \in Read, Finish(n, ok, read)
      PROVE  op'[n] \in OpType /\ Forward(n, op'[n])
  <2>1. /\ op[n].at = "refresh"
        /\ op' = [op EXCEPT ![n].at = "over", ![n].result = op[n].result]
        /\ UNCHANGED <<req, pool, vault, executed>>
    BY <1>9 DEF Finish, EndsAt
  <2>2. op[n] \in OpType /\ Client(op[n])
    BY OpTyped
  <2>3. op'[n] = [op[n] EXCEPT !.at = "over"] /\ op' = [op EXCEPT ![n] = op'[n]]
    BY <2>1, <2>2 DEF OpType
  <2>4. op'[n] \in OpType /\ Client(op'[n])
    BY <2>1, <2>2, <2>3 DEF Client, OpType, At, Kind, Relayed
  <2>5. QED  BY <2>1, <2>2, <2>3, <2>4 DEF Forward, OpType
<1>10. QED
  BY <1>1, <1>2, <1>3, <1>4, <1>5, <1>6, <1>7, <1>8, <1>9 DEF ClientStep

(* Each step of a route serves one request.                                 *)
RouteStep(n, k) ==
    \E ok \in BOOLEAN :
        \/ relayChecks(n, k, ok) \/ relayReadsRow(n, k, ok) \/ relayWritesRow(n, k, ok)
        \/ creditReadsRow(n, k, ok) \/ creditWritesRow(n, k, ok)
        \/ readsRow(n, k, ok) \/ depositWritesRow(n, k, ok) \/ faucetWritesRow(n, k, ok)
        \/ \E reached \in BOOLEAN :
            relayBroadcasts(n, k, ok, reached) \/ sendPlainTon(n, k, ok, reached)
LEMMA RouteServes ==
    ASSUME IInv, NEW n \in Op, NEW k \in Try, RouteStep(n, k)
    PROVE  Serves(n, k)
<1>1. DOMAIN req = Op /\ \A m \in Op : DOMAIN req[m] = Try
  BY DEF IInv, ShapeInv
<1>2. PICK ok \in BOOLEAN :
        \/ relayChecks(n, k, ok) \/ relayReadsRow(n, k, ok) \/ relayWritesRow(n, k, ok)
        \/ creditReadsRow(n, k, ok) \/ creditWritesRow(n, k, ok)
        \/ readsRow(n, k, ok) \/ depositWritesRow(n, k, ok) \/ faucetWritesRow(n, k, ok)
        \/ \E reached \in BOOLEAN :
            relayBroadcasts(n, k, ok, reached) \/ sendPlainTon(n, k, ok, reached)
  BY DEF RouteStep
<1>3. CASE relayChecks(n, k, ok) \/ relayReadsRow(n, k, ok) \/ relayWritesRow(n, k, ok)
  BY <1>1, <1>3 DEF relayChecks, relayReadsRow, relayWritesRow, Serves, To, ReadRow, AnswersTo,
                    ServerUnchanged
<1>4. CASE creditReadsRow(n, k, ok) \/ creditWritesRow(n, k, ok)
  BY <1>1, <1>4 DEF creditReadsRow, creditWritesRow, Serves, To, ReadRow, AnswersTo,
                    ServerUnchanged
<1>5. CASE readsRow(n, k, ok) \/ depositWritesRow(n, k, ok) \/ faucetWritesRow(n, k, ok)
  BY <1>1, <1>5 DEF readsRow, depositWritesRow, faucetWritesRow, Serves, To, ReadRow, AnswersTo,
                    ServerUnchanged
<1>6. CASE \E reached \in BOOLEAN :
            relayBroadcasts(n, k, ok, reached) \/ sendPlainTon(n, k, ok, reached)
  BY <1>1, <1>6 DEF relayBroadcasts, sendPlainTon, Serves, To, ReadRow, AnswersTo,
                    ServerUnchanged
<1>7. QED  BY <1>2, <1>3, <1>4, <1>5, <1>6

-----------------------------------------------------------------------------
(* The vault *)

(* The invariant is kept by what the vault does: an intent that executes    *)
(* leaves the vault's seqno behind its own.                                 *)
LEMMA IncludeKeeps ==
    ASSUME IInv, NEW e \in pool, NEW accepted \in BOOLEAN, Include(e, accepted)
    PROVE  IInv'
<1> DEFINE n == e[1]
<1>1. /\ n \in Op /\ vault.seqno \in Nat /\ UNCHANGED <<op, req>>
      /\ pool' \subseteq pool
  BY DEF IInv, ShapeInv, Include, ChainUnchanged
<1>2. ClientInv' /\ PostedInv'
  BY <1>1 DEF IInv, ClientInv, PostedInv
<1>3. CASE /\ op[n].kind \in Relayed /\ op[n].seqno = vault.seqno
           /\ DOMAIN vault' = {"seqno", "balance"} /\ vault'.seqno = vault.seqno + 1
           /\ executed' = [executed EXCEPT ![n] = @ + 1]
  <2>1. op[n].tries > 0 /\ executed[n] = 0
    BY <1>1, <1>3 DEF IInv, ClientInv, Client, PostedInv, Posted, SpentInv, Relayed
  <2>2. ShapeInv'
    BY <1>1, <1>3 DEF IInv, ShapeInv
  <2>3. \A m \in Op : op[m].seqno \in Nat
    BY DEF IInv, ShapeInv, OpType
  <2>4. SpentInv'
    BY <1>1, <1>3, <2>1, <2>3 DEF IInv, ShapeInv, SpentInv
  <2>5. QED  BY <1>2, <2>2, <2>4 DEF IInv
<1>4. CASE UNCHANGED executed /\ vault'.seqno = vault.seqno /\ DOMAIN vault' = DOMAIN vault
  BY <1>1, <1>2, <1>4 DEF IInv, ShapeInv, SpentInv
<1>5. CASE op[n].kind \in Relayed /\ VaultExecute(n, accepted)
  BY <1>3, <1>4, <1>5 DEF VaultExecute
<1>6. CASE vault' = [vault EXCEPT !.balance = @ + Received(n)] /\ UNCHANGED executed
  <2>1. vault'.seqno = vault.seqno /\ DOMAIN vault' = DOMAIN vault
    BY <1>6 DEF IInv, ShapeInv
  <2>2. QED  BY <1>4, <1>6, <2>1
<1>7. QED
  BY <1>5, <1>6 DEF Include

LEMMA LedgerStep == IInv /\ [LedgerNext]_ledgerVars => IInv'
<1> SUFFICES ASSUME IInv, [LedgerNext]_ledgerVars PROVE IInv'
  OBVIOUS
<1>1. ASSUME NEW n \in Op, ClientStep(n) PROVE IInv'
  BY <1>1, ClientMovesForward, ForwardKeeps
<1>2. ASSUME NEW n \in Op, NEW k \in Try, RouteStep(n, k) PROVE IInv'
  BY <1>2, RouteServes, ServesKeeps
<1>3. ASSUME NEW e \in pool, NEW accepted \in BOOLEAN, Include(e, accepted) PROVE IInv'
  BY <1>3, IncludeKeeps
<1>4. CASE Reload \/ (\E e \in pool : Drop(e)) \/ (\E n \in Op : TtlPasses(n))
            \/ UNCHANGED ledgerVars
  <2>1. UNCHANGED <<op, req, vault, executed>> /\ pool' \subseteq pool
    BY <1>4 DEF Reload, Drop, TtlPasses, ChainUnchanged, ledgerVars
  <2>2. QED
    BY <2>1 DEF IInv, ShapeInv, ClientInv, PostedInv, SpentInv
<1>5. QED
  BY <1>1, <1>2, <1>3, <1>4 DEF LedgerNext, ClientStep, RouteStep

-----------------------------------------------------------------------------
(* The refinement *)

Signed(o) == o.kind \in Relayed /\ (o.at \in {"post", "wait", "refresh"} \/ o.tries > 0)
Outcome(o) == IF o.kind \in Relayed /\ o.tries > 0 THEN o.result ELSE "none"
LEMMA CallUnchanged ==
    ASSUME UNCHANGED executed,
           \A n \in Op : Signed(op'[n]) = Signed(op[n]) /\ Outcome(op'[n]) = Outcome(op[n])
    PROVE  UNCHANGED Abstract!callVars
BY DEF Abstract!callVars, Signed, Outcome

(* What the page sees of one operation: nothing, its signature, its answer. *)
ClientRefines(o, p) ==
    \/ Signed(p) = Signed(o) /\ Outcome(p) = Outcome(o)
    \/ ~Signed(o) /\ Signed(p) /\ Outcome(p) = Outcome(o)
    \/ /\ Signed(o) /\ Signed(p)
       /\ Outcome(o) = "none" /\ Outcome(p) \in {"ok", "failed"}
LEMMA ClientMovesRefine ==
    ASSUME IInv, NEW n \in Op, ClientStep(n)
    PROVE  ClientRefines(op[n], op'[n])
<1>1. op \in [Op -> OpType] /\ op[n] \in OpType /\ Client(op[n])
  BY DEF IInv, ShapeInv, ClientInv
<1>2. ASSUME NEW kind \in Kind \ {"payout"}, Start(n, kind)
      PROVE  ClientRefines(op[n], op'[n])
  BY <1>1, <1>2 DEF Start, ClientRefines, Signed, Outcome, Client, OpType, At, Kind, Relayed
<1>3. CASE payout(n)
  BY <1>1, <1>3 DEF payout, ClientRefines, Signed, Outcome, Client, OpType, At, Kind, Relayed
<1>4. CASE Post(n)
  BY <1>1, <1>4 DEF Post, ClientRefines, Signed, Outcome, Client, OpType, At, Kind, Relayed
<1>5. CASE Receive(n) \/ ConnectionLost(n)
  BY <1>1, <1>5 DEF Receive, ConnectionLost, EndsAt, GivesUp, Retry, Again, ClientRefines, Signed,
                    Outcome, Client, OpType, At, Kind, Relayed
<1>6. ASSUME NEW ok \in BOOLEAN,
             \/ signIntent(n, ok) \/ \E answered \in BOOLEAN : approveTopUp(n, ok, answered)
             \/ \E read \in Read : pollTopUp(n, ok, read)
      PROVE  ClientRefines(op[n], op'[n])
  BY <1>1, <1>6 DEF signIntent, approveTopUp, pollTopUp, EndsAt, ClientRefines, Signed, Outcome,
                    Client, OpType, At, Kind, Relayed
<1>7. ASSUME NEW ok \in BOOLEAN, NEW read \in Read, Finish(n, ok, read)
      PROVE  ClientRefines(op[n], op'[n])
  <2>1. op[n].at = "refresh" /\ op' = [op EXCEPT ![n].at = "over", ![n].result = op[n].result]
    BY <1>7 DEF Finish, EndsAt
  <2>2. op'[n] = [op[n] EXCEPT !.at = "over"]
    BY <1>1, <2>1 DEF OpType
  <2>3. QED
    BY <1>1, <2>1, <2>2 DEF ClientRefines, Signed, Outcome, Client, OpType
<1>8. QED
  BY <1>2, <1>3, <1>4, <1>5, <1>6, <1>7 DEF ClientStep

(* Every step of the ledger is a step of the abstract call, or none.        *)
LEMMA LedgerRefines ==
    IInv /\ [LedgerNext]_ledgerVars => [Abstract!CallNext]_(Abstract!callVars)
<1> DEFINE asked == {n \in Op : Signed(op[n])}
           answer == [n \in Op |-> Outcome(op[n])]
<1> SUFFICES ASSUME IInv, [LedgerNext]_ledgerVars
             PROVE  [Abstract!CallNext]_(Abstract!callVars)
  OBVIOUS
<1>1. ASSUME NEW n \in Op, ClientStep(n)
      PROVE  [Abstract!CallNext]_(Abstract!callVars)
  <2>1. Forward(n, op'[n]) /\ ClientRefines(op[n], op'[n])
    BY <1>1, ClientMovesForward, ClientMovesRefine
  <2>2. op' = [op EXCEPT ![n] = op'[n]] /\ op \in [Op -> OpType] /\ UNCHANGED executed
    BY <2>1 DEF Forward, IInv, ShapeInv
  <2>3. CASE Signed(op'[n]) = Signed(op[n]) /\ Outcome(op'[n]) = Outcome(op[n])
    BY <2>2, <2>3, CallUnchanged
  <2>4. CASE ~Signed(op[n]) /\ Signed(op'[n]) /\ Outcome(op'[n]) = Outcome(op[n])
    <3>1. Abstract!signAndRelay(n)
      BY <2>2, <2>4 DEF Abstract!signAndRelay, Signed, Outcome
    <3>2. QED  BY <3>1 DEF Abstract!CallNext
  <2>5. CASE /\ Signed(op[n]) /\ Signed(op'[n])
             /\ Outcome(op[n]) = "none" /\ Outcome(op'[n]) \in {"ok", "failed"}
    <3>1. PICK result \in {"ok", "failed"} : result = Outcome(op'[n])
      BY <2>5
    <3>2. asked' = asked /\ answer' = [answer EXCEPT ![n] = result]
      BY <2>2, <2>5, <3>1
    <3>3. n \in asked /\ answer[n] = "none" /\ UNCHANGED executed
      BY <2>2, <2>5
    <3>4. Abstract!Answer(n, result)
      BY <3>2, <3>3, Zenon DEF Abstract!Answer, Signed, Outcome
    <3>5. QED  BY <3>4 DEF Abstract!CallNext
  <2>6. QED  BY <2>1, <2>3, <2>4, <2>5 DEF ClientRefines
<1>2. ASSUME NEW n \in Op, NEW k \in Try, RouteStep(n, k)
      PROVE  UNCHANGED <<op, executed>>
  BY <1>2, RouteServes DEF Serves
<1>3. ASSUME NEW e \in pool, NEW accepted \in BOOLEAN, Include(e, accepted)
      PROVE  [Abstract!CallNext]_(Abstract!callVars)
  <2> DEFINE n == e[1]
  <2>1. n \in Op /\ UNCHANGED op
    BY <1>3 DEF IInv, ShapeInv, Include, ChainUnchanged
  <2>2. CASE UNCHANGED executed
    BY <2>1, <2>2, CallUnchanged
  <2>3. CASE /\ op[n].kind \in Relayed /\ op[n].seqno = vault.seqno
             /\ executed' = [executed EXCEPT ![n] = @ + 1]
    <3>1. executed[n] = 0 /\ Signed(op[n])
      BY <1>3, <2>1, <2>3 DEF IInv, ShapeInv, ClientInv, Client, PostedInv, Posted, SpentInv,
                              Signed, Relayed
    <3>2. Abstract!Execute(n)
      BY <2>1, <2>3, <3>1 DEF Abstract!Execute, Signed, Outcome, IInv, ShapeInv
    <3>3. QED  BY <2>1, <3>2 DEF Abstract!CallNext
  <2>4. QED  BY <1>3, <2>2, <2>3 DEF Include, VaultExecute
<1>4. ASSUME Reload \/ (\E e \in pool : Drop(e)) \/ (\E n \in Op : TtlPasses(n))
              \/ UNCHANGED ledgerVars
      PROVE  UNCHANGED <<op, executed>>
  BY <1>4 DEF Reload, Drop, TtlPasses, ChainUnchanged, ledgerVars
<1>5. UNCHANGED <<op, executed>> => UNCHANGED Abstract!callVars
  BY CallUnchanged
<1>6. QED
  BY <1>1, <1>2, <1>3, <1>4, <1>5 DEF LedgerNext, ClientStep, RouteStep

LEMMA LedgerInitRefines == LedgerInit => Abstract!CallInit
BY DEF LedgerInit, Abstract!CallInit, Relayed

(* For any number of operations and retries, whatever fails, is repeated or *)
(* overlaps: a vault executes an intent at most once, and signAndRelay      *)
(* returns at most once, after it signed (vault.ts:114-144).                *)
THEOREM LedgerImplementsCall == LedgerSpec => PaysAtMostOnce
<1>1. LedgerInit => IInv /\ Abstract!CallInit
  BY LedgerInitially, LedgerInitRefines
<1>2. IInv /\ [LedgerNext]_ledgerVars => IInv' /\ [Abstract!CallNext]_(Abstract!callVars)
  BY LedgerStep, LedgerRefines
<1>3. QED
  BY <1>1, <1>2, PTL DEF LedgerSpec, PaysAtMostOnce, Abstract!CallSpec

-----------------------------------------------------------------------------
(* The ledger.  LedgerExact speaks of runs in which nothing failed and one  *)
(* operation followed the other: then at most one operation is at work, its *)
(* request is posted once and its message sent once.                        *)
Calm == faults = 0 /\ ~overlapped
TypesInv ==
    /\ LedgerTypeOK
    /\ \A n \in Op : op[n].at = "post" => op[n].tries < Attempts

(* The one request and the one message of an operation.                     *)
One(n) == req[n][1].at
Flying(n) == \E e \in pool : e[1] = n
(* How far they are, by how far the client is.                              *)
Served(kind) ==
    CASE kind \in Relayed -> {"arrived", "checked", "sent", "read"}
      [] kind = "faucet" -> {"arrived", "read", "sent"}
      [] kind \in {"deposit", "payout"} -> {"arrived", "read"}
      [] kind = "none" -> {}
RequestAt(o) ==
    CASE o.kind = "payout" -> Served(o.kind) \cup {"none"}
      [] o.kind # "payout" /\ o.tries = 0 -> {"none"}
      [] o.kind # "payout" /\ o.tries # 0 /\ o.at = "wait" -> Served(o.kind) \cup {"200"}
      [] o.kind # "payout" /\ o.tries # 0 /\ o.at # "wait" -> {"200"}
MayFly(n) ==
    CASE op[n].kind \in Relayed -> One(n) \in {"sent", "read", "200"}
      [] op[n].kind = "faucet" -> One(n) \in {"sent", "200"}
      [] op[n].kind = "deposit" -> op[n].at \in {"poll", "post", "wait", "refresh", "over"}
      [] op[n].kind = "payout" -> TRUE
      [] op[n].kind = "none" -> FALSE
OnceAt(n) ==
    /\ op[n].tries \in {0, 1}
    /\ op[n].at \in {"sign", "approve", "poll", "post"} => op[n].tries = 0
    /\ One(n) \in RequestAt(op[n])
    /\ \A k \in Try \ {1} : req[n][k].at = "none"
    /\ Flying(n) => MayFly(n)
    /\ n \in returned =>
        op[n].kind \in Relayed /\ One(n) \in {"sent", "read", "200"} /\ ~Flying(n)
    /\ \A e \in pool :
        e[1] = n => e[2] = IF op[n].kind \in {"deposit", "payout"} THEN 0 ELSE 1
OnceInv == expired = {} /\ \A n \in Op : OnceAt(n)

(* What the vault still receives, and what the ledger will be told.         *)
ToReceive(n) ==
    IF ~Flying(n) THEN 0 ELSE IF op[n].kind \in Relayed THEN -1 ELSE 1
ToDebit(n) == op[n].kind \in Relayed /\ One(n) \in {"sent", "read"}
ToCredit(n) ==
    \/ op[n].kind = "deposit" /\ (op[n].at \in {"poll", "post"} \/ One(n) \in {"arrived", "read"})
    \/ op[n].kind = "faucet" /\ One(n) = "sent"
    \/ op[n].kind = "payout" /\ One(n) \in {"arrived", "read"}
LedgerAfter(n) ==
    IF ToDebit(n) THEN (IF ledger.vault = 0 THEN 0 ELSE ledger.vault - 1)
    ELSE IF ToCredit(n) THEN ledger.vault + 1 ELSE ledger.vault
Balanced(n) ==
    LET untracked == vault.balance + ToReceive(n) - Activation - LedgerAfter(n)
    IN  0 <= untracked /\ untracked <= Cardinality(returned) + stray

(* What a signed intent relies on until the vault takes it, and a route on  *)
(* from reading the row to writing it.                                      *)
Unspent(n) ==
    op[n].kind \in Relayed
        /\ (op[n].at = "post" \/ One(n) \in {"arrived", "checked"} \/ Flying(n))
Ready(n) ==
    /\ Unspent(n) => op[n].seqno = vault.seqno /\ vault.balance >= 2
    /\ One(n) = "read" \/ (op[n].kind = "faucet" /\ One(n) = "sent")
        => req[n][1].vault = ledger.vault
OneAtWork == \E n \in Op : (\A m \in Op \ {n} : Settled(m)) /\ Balanced(n) /\ Ready(n)
ExactInv == TypesInv /\ IInv /\ faults \in Nat /\ (Calm => OnceInv /\ OneAtWork)

-----------------------------------------------------------------------------
(* The types *)

OpRow == [kind : Kind \cup {"none"}, at : At, tries : 0..Attempts, seqno : Nat,
          result : {"none", "ok", "failed"}]
ReqRow == [at : Answered \cup {"arrived", "checked", "sent", "read"}, owner : Nat, vault : Nat]
LEMMA TypesInitially == LedgerInit => TypesInv
<1> SUFFICES ASSUME LedgerInit PROVE TypesInv
  OBVIOUS
<1>1. ledger \in [owner : {0}, vault : Savings] /\ Savings \subseteq Nat
  BY LedgerAssumption DEF LedgerInit
<1>2. ledger.vault \in Nat /\ ledger \in [owner : Nat, vault : Nat]
  <2>1. ledger.vault \in Savings /\ ledger.owner = 0
    BY <1>1
  <2>2. ledger = [owner |-> ledger.owner, vault |-> ledger.vault]
    BY <1>1
  <2>3. ledger.vault \in Nat
    BY <2>1, LedgerAssumption, Zenon
  <2>4. ledger.owner \in Nat
    BY <2>1
  <2>5. QED  BY <2>2, <2>3, <2>4
<1>3. vault \in [seqno : Nat, balance : Nat] /\ page \in [ledger : Nat, chain : Nat]
  BY <1>2 DEF LedgerInit, Activation
<1>4. /\ op \in [Op -> OpRow] /\ req \in [Op -> [Try -> ReqRow]]
      /\ pool \subseteq Op \X (0..Attempts) /\ executed \in [Op -> Nat]
      /\ \A n \in Op : op[n].at = "idle"
  BY LedgerAssumption DEF LedgerInit, OpRow, ReqRow, At, Answered
<1>5. /\ busy \in {"none", "withdraw", "deposit", "faucet"} /\ stray \in Nat
      /\ expired \subseteq Op /\ returned \subseteq Op /\ overlapped \in BOOLEAN
  BY DEF LedgerInit
<1>6. QED
  BY <1>2, <1>3, <1>4, <1>5 DEF TypesInv, LedgerTypeOK, OpRow, ReqRow, At

LEMMA ClientKeepsTypes ==
    ASSUME TypesInv, IInv, NEW n \in Op, ClientStep(n)
    PROVE  TypesInv'
<1> DEFINE Fine == op'[n] \in OpRow /\ (op'[n].at = "post" => op'[n].tries < Attempts)
<1> USE DEF OpRow, At
<1>1. /\ op \in [Op -> OpRow] /\ op[n] \in OpRow /\ Client(op[n])
      /\ op[n].at = "post" => op[n].tries < Attempts
      /\ Attempts \in Nat /\ Attempts > 0
  BY LedgerAssumption DEF TypesInv, LedgerTypeOK, IInv, ClientInv
<1>2. op' = [op EXCEPT ![n] = op'[n]]
  BY ClientMovesForward DEF Forward
<1>3. Fine
  <2>1. ASSUME NEW kind \in Kind \ {"payout"}, Start(n, kind) PROVE Fine
    BY <1>1, <2>1 DEF Start, Kind, Relayed, Client
  <2>2. CASE payout(n)
    BY <1>1, <2>2 DEF payout, Kind
  <2>3. CASE Post(n)
    BY <1>1, <2>3 DEF Post
  <2>4. CASE Receive(n) \/ ConnectionLost(n)
    BY <1>1, <2>4 DEF Receive, ConnectionLost, EndsAt, GivesUp, Retry, Again
  <2>5. ASSUME NEW ok \in BOOLEAN, signIntent(n, ok) PROVE Fine
    <3>1. vault.seqno \in Nat /\ op[n].tries = 0
      BY <1>1, <2>5 DEF TypesInv, LedgerTypeOK, signIntent, Client
    <3>2. QED  BY <1>1, <2>5, <3>1 DEF signIntent, EndsAt
  <2>6. ASSUME NEW ok \in BOOLEAN, NEW answered \in BOOLEAN, approveTopUp(n, ok, answered)
        PROVE  Fine
    BY <1>1, <2>6 DEF approveTopUp, EndsAt
  <2>7. ASSUME NEW ok \in BOOLEAN, NEW read \in Read, pollTopUp(n, ok, read) PROVE Fine
    BY <1>1, <2>7 DEF pollTopUp, EndsAt, Client
  <2>8. ASSUME NEW ok \in BOOLEAN, NEW read \in Read, Finish(n, ok, read)
        PROVE  Fine
    <3>1. op' = [op EXCEPT ![n].at = "over", ![n].result = op[n].result]
      BY <2>8 DEF Finish, EndsAt
    <3>2. QED  BY <1>1, <3>1
  <2>9. QED
    BY <2>1, <2>2, <2>3, <2>4, <2>5, <2>6, <2>7, <2>8 DEF ClientStep
<1>4. /\ op' \in [Op -> OpRow]
      /\ \A m \in Op : op'[m].at = "post" => op'[m].tries < Attempts
  BY <1>1, <1>2, <1>3 DEF TypesInv
<1>5. req' \in [Op -> [Try -> ReqRow]]
  <2>1. req \in [Op -> [Try -> ReqRow]]
    BY DEF TypesInv, LedgerTypeOK, ReqRow
  <2>2. CASE UNCHANGED req
    BY <2>1, <2>2
  <2>3. ASSUME NEW k \in Try, req' = [req EXCEPT ![n][k].at = "arrived"]
        PROVE  req' \in [Op -> [Try -> ReqRow]]
    <3>1. [req[n][k] EXCEPT !.at = "arrived"] \in ReqRow
      BY <2>1, <2>3 DEF ReqRow
    <3>2. QED  BY <2>1, <2>3, <3>1
  <2>4. 1 \in Try /\ (op[n].at = "post" => op[n].tries + 1 \in Try)
    BY <1>1 DEF Try
  <2>5. QED
    BY <2>2, <2>3, <2>4 DEF ClientStep, Start, payout, Post, Receive, ConnectionLost, ClientUnchanged,
                      signIntent, approveTopUp, pollTopUp, Finish
<1>6. pool' \subseteq Op \X (0..Attempts)
  <2>1. pool \subseteq Op \X (0..Attempts) /\ 0 \in 0..Attempts
    BY <1>1 DEF TypesInv, LedgerTypeOK
  <2>2. pool' = pool \/ pool' = pool \cup {<<n, 0>>}
    BY DEF ClientStep, Start, payout, Post, Receive, ConnectionLost, ClientUnchanged, signIntent,
           approveTopUp, pollTopUp, Finish
  <2>3. QED  BY <2>1, <2>2
<1>7. page' \in [ledger : Nat, chain : Nat]
  <2>1. page \in [ledger : Nat, chain : Nat] /\ ledger.vault \in Nat /\ vault.balance \in Nat
    BY DEF TypesInv, LedgerTypeOK
  <2>2. CASE UNCHANGED page
    BY <2>1, <2>2
  <2>3. ASSUME NEW read \in Read PROVE Shown(read) \in Nat
    BY <2>1, <2>3 DEF Shown, Read
  <2>4. ASSUME NEW ok \in BOOLEAN, NEW read \in Read, Finish(n, ok, read)
        PROVE  page' \in [ledger : Nat, chain : Nat]
    BY <2>1, <2>3, <2>4 DEF Finish
  <2>5. ASSUME NEW ok \in BOOLEAN, NEW read \in Read, pollTopUp(n, ok, read)
        PROVE  page' \in [ledger : Nat, chain : Nat]
    BY <2>1, <2>3, <2>5 DEF pollTopUp
  <2>6. QED
    BY <2>2, <2>4, <2>5 DEF ClientStep, Start, payout, Post, Receive, ConnectionLost,
                            ClientUnchanged, signIntent, approveTopUp
<1>8. busy' \in {"none", "withdraw", "deposit", "faucet"}
  <2>1. busy \in {"none", "withdraw", "deposit", "faucet"}
    BY DEF TypesInv, LedgerTypeOK
  <2>2. ASSUME NEW kind \in Kind \ {"payout"}, Start(n, kind)
        PROVE  busy' \in {"none", "withdraw", "deposit", "faucet"}
    BY <2>1, <2>2 DEF Start, Kind
  <2>3. busy' \in {busy, "none"} \/ \E kind \in Kind \ {"payout"} : Start(n, kind)
    BY DEF ClientStep, payout, Post, Receive, ConnectionLost, GivesUp, Retry, Again, EndsAt,
           signIntent, approveTopUp, pollTopUp, Finish
  <2>4. QED  BY <2>1, <2>2, <2>3
<1>9. /\ UNCHANGED <<vault, ledger, expired, returned, stray, executed>>
      /\ overlapped' \in BOOLEAN
  BY DEF ClientStep, Start, payout, Post, Receive, ConnectionLost, ClientUnchanged, signIntent,
         approveTopUp, pollTopUp, Finish, TypesInv, LedgerTypeOK
<1>10. QED
  BY <1>4, <1>5, <1>6, <1>7, <1>8, <1>9 DEF TypesInv, LedgerTypeOK, ReqRow

LEMMA RouteKeepsTypes ==
    ASSUME TypesInv, IInv, NEW n \in Op, NEW k \in Try, RouteStep(n, k)
    PROVE  TypesInv'
<1>1. /\ req \in [Op -> [Try -> ReqRow]] /\ req[n][k] \in ReqRow
      /\ ledger \in [owner : Nat, vault : Nat]
      /\ pool \subseteq Op \X (0..Attempts) /\ k \in 0..Attempts
  <2>1. k \in 0..Attempts
    BY LedgerAssumption DEF Try
  <2>2. QED  BY <2>1 DEF TypesInv, LedgerTypeOK, ReqRow
<1>2. PICK ok \in BOOLEAN :
        \/ relayChecks(n, k, ok) \/ relayReadsRow(n, k, ok) \/ relayWritesRow(n, k, ok)
        \/ creditReadsRow(n, k, ok) \/ creditWritesRow(n, k, ok)
        \/ readsRow(n, k, ok) \/ depositWritesRow(n, k, ok) \/ faucetWritesRow(n, k, ok)
        \/ \E reached \in BOOLEAN :
            relayBroadcasts(n, k, ok, reached) \/ sendPlainTon(n, k, ok, reached)
  BY DEF RouteStep
<1>3. req' \in [Op -> [Try -> ReqRow]]
  <2>1. ASSUME NEW at \in {"checked", "sent"}, To(n, k, at)
        PROVE  req' \in [Op -> [Try -> ReqRow]]
    BY <1>1, <2>1 DEF To, ReqRow
  <2>2. ASSUME NEW at \in Answered, AnswersTo(n, k, at)
        PROVE  req' \in [Op -> [Try -> ReqRow]]
    BY <1>1, <2>2 DEF AnswersTo, ReqRow
  <2>3. CASE ReadRow(n, k, "read")
    BY <1>1, <2>3 DEF ReadRow, ReqRow
  <2>4. \/ \E at \in {"checked", "sent"} : To(n, k, at)
        \/ \E at \in Answered : AnswersTo(n, k, at)
        \/ ReadRow(n, k, "read")
    BY <1>2 DEF relayChecks, relayReadsRow, relayWritesRow, creditReadsRow, creditWritesRow,
                readsRow, depositWritesRow, faucetWritesRow, relayBroadcasts, sendPlainTon,
                Answered
  <2>5. QED  BY <2>1, <2>2, <2>3, <2>4
<1>4. pool' \subseteq Op \X (0..Attempts)
  <2>1. pool' = pool \/ pool' = pool \cup {<<n, k>>}
    BY <1>2 DEF relayChecks, relayReadsRow, relayWritesRow, creditReadsRow, creditWritesRow,
                readsRow, depositWritesRow, faucetWritesRow, relayBroadcasts, sendPlainTon
  <2>2. QED  BY <1>1, <2>1
<1>5. ledger' \in [owner : Nat, vault : Nat]
  <2>1. req[n][k].vault \in Nat /\ req[n][k].owner \in Nat
    BY <1>1 DEF ReqRow
  <2>2. CASE relayWritesRow(n, k, ok)
    BY <1>1, <2>1, <2>2 DEF relayWritesRow
  <2>3. CASE creditWritesRow(n, k, ok) \/ faucetWritesRow(n, k, ok)
    BY <1>1, <2>1, <2>3 DEF creditWritesRow, faucetWritesRow
  <2>4. CASE depositWritesRow(n, k, ok)
    BY <1>1, <2>1, <2>4 DEF depositWritesRow
  <2>5. CASE UNCHANGED ledger
    BY <1>1, <2>5
  <2>6. QED
    BY <1>2, <2>2, <2>3, <2>4, <2>5 DEF relayChecks, relayReadsRow, creditReadsRow, readsRow,
                                        relayBroadcasts, sendPlainTon
<1>6. UNCHANGED <<op, vault, page, busy, expired, returned, stray, executed, overlapped>>
  BY <1>2 DEF relayChecks, relayReadsRow, relayWritesRow, creditReadsRow, creditWritesRow,
              readsRow, depositWritesRow, faucetWritesRow, relayBroadcasts, sendPlainTon,
              ServerUnchanged
<1>7. QED
  BY <1>3, <1>4, <1>5, <1>6 DEF TypesInv, LedgerTypeOK, ReqRow

LEMMA IncludeKeepsTypes ==
    ASSUME TypesInv, IInv, NEW e \in pool, NEW accepted \in BOOLEAN, Include(e, accepted)
    PROVE  TypesInv'
<1>1. /\ e[1] \in Op /\ vault \in [seqno : Nat, balance : Nat] /\ executed \in [Op -> Nat]
      /\ returned \subseteq Op /\ expired \subseteq Op /\ stray \in Nat
  BY DEF TypesInv, LedgerTypeOK
<1>2. CASE op[e[1]].kind \in Relayed /\ VaultExecute(e[1], accepted)
  <2>1. vault.seqno \in Nat /\ vault.balance \in Nat
    BY <1>1
  <2>2. vault' \in [seqno : Nat, balance : Nat] /\ stray' \in Nat
    BY <1>1, <1>2, <2>1, LedgerAssumption DEF VaultExecute
  <2>3. executed' \in [Op -> Nat] /\ returned' \subseteq Op /\ expired' \subseteq Op
    BY <1>1, <1>2 DEF VaultExecute
  <2>4. QED
    BY <2>2, <2>3 DEF TypesInv, LedgerTypeOK, Include, ChainUnchanged
<1>3. CASE /\ vault' = [vault EXCEPT !.balance = @ + Received(e[1])]
           /\ stray' = stray + Received(e[1]) - 1
           /\ UNCHANGED <<executed, returned, expired>>
  <2>1. vault' \in [seqno : Nat, balance : Nat] /\ stray' \in Nat
    BY <1>1, <1>3, LedgerAssumption DEF Received
  <2>2. QED
    BY <1>3, <2>1 DEF TypesInv, LedgerTypeOK, Include, ChainUnchanged
<1>4. QED
  BY <1>2, <1>3 DEF Include

LEMMA TypesStep == ASSUME TypesInv, IInv, [LedgerNext]_ledgerVars PROVE TypesInv'
<1>1. ASSUME NEW n \in Op, ClientStep(n) PROVE TypesInv'
  BY <1>1, ClientKeepsTypes
<1>2. ASSUME NEW n \in Op, NEW k \in Try, RouteStep(n, k) PROVE TypesInv'
  BY <1>2, RouteKeepsTypes
<1>3. ASSUME NEW e \in pool, NEW accepted \in BOOLEAN, Include(e, accepted) PROVE TypesInv'
  BY <1>3, IncludeKeepsTypes
<1>4. CASE Reload
  BY <1>4 DEF Reload, TypesInv, LedgerTypeOK
<1>5. CASE (\E e \in pool : Drop(e)) \/ (\E n \in Op : TtlPasses(n)) \/ UNCHANGED ledgerVars
  BY <1>5 DEF Drop, TtlPasses, ChainUnchanged, ledgerVars, TypesInv, LedgerTypeOK
<1>6. QED
  BY <1>1, <1>2, <1>3, <1>4, <1>5 DEF LedgerNext, ClientStep, RouteStep

-----------------------------------------------------------------------------
(* A calm run *)

LEMMA FaultsCount ==
    ASSUME LedgerNext \/ UNCHANGED <<ledgerVars, faults>>
    PROVE  faults' = faults \/ (faults' = faults + 1 /\ faults < MaxFaults)
<1> DEFINE Count == faults' = faults \/ (faults' = faults + 1 /\ faults < MaxFaults)
<1> USE DEF Fault, NoFault, FaultUnless
<1>1. ASSUME NEW n \in Op, ClientStep(n) PROVE Count
  BY <1>1 DEF ClientStep, Start, payout, Post, Receive, ConnectionLost, ClientUnchanged,
              signIntent, approveTopUp, pollTopUp, Finish
<1>2. ASSUME NEW n \in Op, NEW k \in Try, RouteStep(n, k) PROVE Count
  BY <1>2 DEF RouteStep, relayChecks, relayReadsRow, relayWritesRow, creditReadsRow,
              creditWritesRow, readsRow, depositWritesRow, faucetWritesRow, relayBroadcasts,
              sendPlainTon
<1>3. ASSUME NEW e \in pool, NEW accepted \in BOOLEAN, Include(e, accepted) PROVE Count
  BY <1>3 DEF Include
<1>4. CASE Reload \/ (\E e \in pool : Drop(e)) \/ (\E n \in Op : TtlPasses(n))
  BY <1>4 DEF Reload, Drop, TtlPasses
<1>5. QED
  BY <1>1, <1>2, <1>3, <1>4 DEF LedgerNext, ClientStep, RouteStep

LEMMA OverlapStays ==
    ASSUME LedgerNext \/ UNCHANGED <<ledgerVars, faults>>
    PROVE  overlapped => overlapped'
<1>1. ASSUME NEW n \in Op, ClientStep(n) PROVE overlapped => overlapped'
  BY <1>1, Zenon DEF ClientStep, Start, payout, Post, Receive, ConnectionLost, ClientUnchanged,
                     signIntent, approveTopUp, pollTopUp, Finish
<1>2. ASSUME NEW n \in Op, NEW k \in Try, RouteStep(n, k) PROVE overlapped => overlapped'
  BY <1>2, Zenon DEF RouteStep, relayChecks, relayReadsRow, relayWritesRow, creditReadsRow,
                     creditWritesRow, readsRow, depositWritesRow, faucetWritesRow,
                     relayBroadcasts, sendPlainTon, ServerUnchanged
<1>3. ASSUME NEW e \in pool, NEW accepted \in BOOLEAN, Include(e, accepted)
      PROVE  overlapped => overlapped'
  BY <1>3, Zenon DEF Include, ChainUnchanged
<1>4. ASSUME Reload \/ (\E e \in pool : Drop(e)) \/ (\E n \in Op : TtlPasses(n))
      PROVE  overlapped => overlapped'
  BY <1>4, Zenon DEF Reload, Drop, TtlPasses, ChainUnchanged
<1>5. ASSUME UNCHANGED <<ledgerVars, faults>> PROVE overlapped => overlapped'
  BY <1>5, Zenon DEF ledgerVars
<1>6. QED
  BY <1>1, <1>2, <1>3, <1>4, <1>5, Zenon DEF LedgerNext, ClientStep, RouteStep

LEMMA CalmBefore ==
    ASSUME faults \in Nat, LedgerNext \/ UNCHANGED <<ledgerVars, faults>>, Calm'
    PROVE  Calm /\ UNCHANGED faults
<1>1. faults' = 0 /\ ~overlapped'
  BY DEF Calm
<1>2. faults = 0 /\ faults' = faults
  <2>1. faults' = faults \/ faults' = faults + 1
    BY FaultsCount, Zenon
  <2>2. faults' = 0
    BY <1>1, Zenon
  <2>3. QED  BY <2>1, <2>2
<1>3. ~overlapped
  BY <1>1, OverlapStays, Zenon
<1>4. QED  BY <1>2, <1>3, Zenon DEF Calm
LEMMA NothingFails ==
    ASSUME faults \in Nat, UNCHANGED faults
    PROVE  ~Fault /\ \A ok \in BOOLEAN : FaultUnless(ok) => ok
BY DEF Fault, FaultUnless

(* An operation that is done, or has not begun, changes nothing any more.   *)
LEMMA AtRest ==
    ASSUME NEW n \in Op, Settled(n)
    PROVE  ToReceive(n) = 0 /\ LedgerAfter(n) = ledger.vault /\ ~Flying(n)
<1>1. One(n) \in Answered /\ op[n].at \in {"idle", "over"} /\ ~Flying(n)
  BY LedgerAssumption DEF Settled, One, Try, Flying
<1>2. ~ToDebit(n) /\ ~ToCredit(n)
  BY <1>1 DEF ToDebit, ToCredit, Answered
<1>3. QED
  BY <1>1, <1>2 DEF ToReceive, LedgerAfter

LEMMA AloneAtWork ==
    ASSUME OneAtWork, NEW n \in Op, ~Settled(n)
    PROVE  (\A m \in Op \ {n} : Settled(m)) /\ Balanced(n) /\ Ready(n)
BY DEF OneAtWork

(* The step of one operation leaves the others alone.                       *)
Others(n) ==
    /\ \A m \in Op \ {n} : op'[m] = op[m] /\ req'[m] = req[m] /\ (m \in returned' => m \in returned)
    /\ \A e \in pool' : e \in pool \/ e[1] = n
    /\ \A e \in pool : e \in pool' \/ e[1] = n
    /\ expired' = expired
LEMMA OthersKeep ==
    ASSUME OnceInv, NEW n \in Op, \A m \in Op \ {n} : Settled(m), Others(n),
           OnceAt(n)', Balanced(n)', Ready(n)'
    PROVE  (OnceInv /\ OneAtWork)'
<1>1. ASSUME NEW m \in Op \ {n} PROVE OnceAt(m)' /\ Settled(m)'
  <2>1. /\ op'[m] = op[m] /\ req'[m] = req[m] /\ (m \in returned' => m \in returned)
        /\ \A e \in pool' : e[1] = m => e \in pool
        /\ OnceAt(m) /\ Settled(m)
    BY <1>1 DEF Others, OnceInv
  <2>2. One(m)' = One(m) /\ (Flying(m)' => Flying(m))
    BY <2>1 DEF One, Flying
  <2>3. Settled(m)'
    BY <2>1 DEF Settled
  <2>4. OnceAt(m)'
    BY <2>1, <2>2 DEF OnceAt, MayFly
  <2>5. QED  BY <2>3, <2>4
<1>2. OnceInv'
  BY <1>1 DEF OnceInv, Others
<1>3. OneAtWork'
  BY <1>1 DEF OneAtWork
<1>4. QED  BY <1>2, <1>3

(* An operation that starts finds the others settled.                       *)
LEMMA AllSettled ==
    ASSUME TypesInv, OneAtWork, \A m \in Op : Settled(m)
    PROVE  LET untracked == vault.balance - Activation - ledger.vault
           IN  0 <= untracked /\ untracked <= Cardinality(returned) + stray
<1>1. PICK n \in Op : Balanced(n)
  BY DEF OneAtWork
<1>2. ToReceive(n) = 0 /\ LedgerAfter(n) = ledger.vault
  BY <1>1, AtRest
<1>3. vault.balance \in Nat /\ ledger.vault \in Nat
  BY DEF TypesInv, LedgerTypeOK
<1>4. QED
  BY <1>1, <1>2, <1>3 DEF Balanced, Activation

LEMMA OneOp ==
    ASSUME TypesInv, IInv, OnceInv, NEW n \in Op
    PROVE  /\ op \in [Op -> OpRow] /\ op[n] \in OpRow /\ Client(op[n])
           /\ req \in [Op -> [Try -> ReqRow]] /\ req[n] \in [Try -> ReqRow]
           /\ req[n][1] \in ReqRow /\ 1 \in Try
           /\ pool \subseteq Op \X (0..Attempts)
           /\ vault \in [seqno : Nat, balance : Nat] /\ ledger \in [owner : Nat, vault : Nat]
           /\ vault.balance \in Nat /\ vault.seqno \in Nat /\ ledger.vault \in Nat
           /\ OnceAt(n) /\ expired = {} /\ stray \in Nat
<1>1. /\ op \in [Op -> OpRow] /\ pool \subseteq Op \X (0..Attempts)
      /\ req \in [Op -> [Try -> ReqRow]]
      /\ vault \in [seqno : Nat, balance : Nat] /\ ledger \in [owner : Nat, vault : Nat]
      /\ stray \in Nat
  BY DEF TypesInv, LedgerTypeOK, OpRow, At, ReqRow
<1>2. 1 \in Try
  BY LedgerAssumption DEF Try
<1>3. op[n] \in OpRow /\ req[n] \in [Try -> ReqRow]
  BY <1>1
<1>4. req[n][1] \in ReqRow
  BY <1>2, <1>3
<1>5. vault.balance \in Nat /\ vault.seqno \in Nat /\ ledger.vault \in Nat
  BY <1>1
<1>6. Client(op[n]) /\ OnceAt(n) /\ expired = {}
  BY DEF IInv, ClientInv, OnceInv
<1>7. QED
  BY <1>1, <1>2, <1>3, <1>4, <1>5, <1>6

LEMMA ReturnedCounted ==
    ASSUME TypesInv PROVE IsFiniteSet(returned) /\ Cardinality(returned) \in Nat
<1>1. IsFiniteSet(Op)
  BY LedgerAssumption, FS_Interval DEF Op
<1>2. returned \subseteq Op
  BY DEF TypesInv, LedgerTypeOK
<1>3. QED
  BY <1>1, <1>2, FS_Subset, FS_CardinalityType

LEMMA StartCalm ==
    ASSUME TypesInv, IInv, OnceInv, OneAtWork, \A m \in Op : Settled(m),
           NEW n \in Op, NEW kind \in Kind \ {"payout"}, Start(n, kind)
    PROVE  (OnceInv /\ OneAtWork)'
<1>1. /\ op \in [Op -> OpRow] /\ op[n] \in OpRow /\ Client(op[n]) /\ 1 \in Try
      /\ vault.balance \in Nat /\ ledger.vault \in Nat /\ OnceAt(n) /\ op[n].kind = "none"
  BY OneOp DEF Start
<1>2. op[n].tries = 0 /\ One(n) = "none" /\ n \notin returned /\ ~Flying(n)
  BY <1>1 DEF Client, OnceAt, RequestAt, Relayed, MayFly
<1>3. /\ op'[n].kind = kind /\ op'[n].tries = 0
      /\ op'[n].at = CASE kind \in Relayed -> "sign" [] kind = "deposit" -> "approve"
                       [] kind = "faucet" -> "post"
  BY <1>1, <1>2 DEF Start, OpRow
<1>4. \/ kind \in Relayed /\ op'[n].at = "sign"
      \/ kind = "deposit" /\ op'[n].at = "approve"
      \/ kind = "faucet" /\ op'[n].at = "post"
  BY <1>3 DEF Kind, Relayed
<1>5. /\ UNCHANGED <<req, pool, vault, ledger, expired, returned, stray>>
      /\ One(n)' = "none" /\ ~Flying(n)'
  BY <1>2 DEF Start, One, Flying
<1>6. Others(n)
  BY <1>1, <1>5 DEF Others, Start
<1>7. OnceAt(n)'
  BY <1>1, <1>2, <1>3, <1>4, <1>5 DEF OnceAt, RequestAt, Relayed, Flying
<1>8. Balanced(n)'
  <2>1. ToReceive(n)' = 0
    BY <1>5 DEF ToReceive
  <2>2. LedgerAfter(n)' = ledger.vault
    BY <1>3, <1>4, <1>5 DEF LedgerAfter, ToDebit, ToCredit, Relayed
  <2>3. QED
    BY <1>1, <1>5, <2>1, <2>2, AllSettled DEF Balanced, Activation
<1>9. Ready(n)'
  BY <1>3, <1>4, <1>5 DEF Ready, Unspent, Relayed
<1>10. QED
  BY <1>6, <1>7, <1>8, <1>9, OthersKeep

LEMMA payoutCalm ==
    ASSUME TypesInv, IInv, OnceInv, OneAtWork, \A m \in Op : Settled(m),
           NEW n \in Op, payout(n)
    PROVE  (OnceInv /\ OneAtWork)'
<1>1. /\ op \in [Op -> OpRow] /\ op[n] \in OpRow /\ Client(op[n]) /\ 1 \in Try
      /\ req \in [Op -> [Try -> ReqRow]] /\ req[n] \in [Try -> ReqRow]
      /\ vault.balance \in Nat /\ ledger.vault \in Nat /\ OnceAt(n) /\ op[n].kind = "none"
  BY OneOp DEF payout
<1>2. op[n].tries = 0 /\ n \notin returned /\ ~Flying(n)
  BY <1>1 DEF Client, OnceAt, RequestAt, Relayed, MayFly
<1>3. op'[n].kind = "payout" /\ op'[n].tries = 0 /\ op'[n].at = "over"
  BY <1>1, <1>2 DEF payout, OpRow
<1>4. /\ UNCHANGED <<vault, ledger, expired, returned, stray>> /\ pool' = pool \cup {<<n, 0>>}
      /\ One(n)' = "arrived" /\ Flying(n)'
      /\ \A k \in Try \ {1} : req'[n][k] = req[n][k]
      /\ \A m \in Op \ {n} : req'[m] = req[m] /\ op'[m] = op[m]
  <2>1. req' = [req EXCEPT ![n][1].at = "arrived"] /\ pool' = pool \cup {<<n, 0>>}
    BY DEF payout
  <2>2. /\ req'[n][1] = [req[n][1] EXCEPT !.at = "arrived"]
        /\ \A k \in Try \ {1} : req'[n][k] = req[n][k]
        /\ \A m \in Op \ {n} : req'[m] = req[m]
    BY <1>1, <2>1
  <2>3. req[n][1] \in ReqRow
    BY <1>1
  <2>4. One(n)' = "arrived"
    BY <2>2, <2>3 DEF One, ReqRow
  <2>5. Flying(n)'
    <3>1. <<n, 0>> \in pool' /\ <<n, 0>>[1] = n
      BY <2>1
    <3>2. QED  BY <3>1, Zenon DEF Flying
  <2>6. QED
    BY <1>1, <2>1, <2>2, <2>4, <2>5 DEF payout
<1>5. Others(n)
  BY <1>4 DEF Others
<1>6. OnceAt(n)'
  <2>1. \A e \in pool' : e[1] = n => e[2] = 0
    BY <1>2, <1>4 DEF Flying
  <2>2. QED
    BY <1>1, <1>2, <1>3, <1>4, <2>1 DEF OnceAt, RequestAt, Served, Relayed, MayFly
<1>7. Balanced(n)'
  <2>1. ToReceive(n)' = 1
    BY <1>3, <1>4 DEF ToReceive, Relayed
  <2>2. LedgerAfter(n)' = ledger.vault + 1
    BY <1>3, <1>4 DEF LedgerAfter, ToDebit, ToCredit, Relayed
  <2>3. QED
    BY <1>1, <1>4, <2>1, <2>2, AllSettled DEF Balanced, Activation
<1>8. Ready(n)'
  BY <1>3, <1>4 DEF Ready, Unspent, Relayed
<1>9. QED
  BY <1>5, <1>6, <1>7, <1>8, OthersKeep

(* Nothing of the vault and the ledger moves while the client is at work.   *)
LEMMA ClientCalm ==
    ASSUME faults \in Nat, UNCHANGED faults, TypesInv, IInv, OnceInv, OneAtWork,
           NEW n \in Op, ClientStep(n), op[n].kind # "none"
    PROVE  (OnceInv /\ OneAtWork)'
<1>1. /\ op \in [Op -> OpRow] /\ op[n] \in OpRow /\ Client(op[n]) /\ 1 \in Try
      /\ req \in [Op -> [Try -> ReqRow]] /\ req[n] \in [Try -> ReqRow]
      /\ req[n][1] \in ReqRow /\ vault.balance \in Nat /\ ledger.vault \in Nat
      /\ vault.seqno \in Nat /\ OnceAt(n)
  BY OneOp
<1>2. ~Fault /\ \A ok \in BOOLEAN : FaultUnless(ok) => ok
  BY NothingFails
<1>3. /\ \A kind \in Kind \ {"payout"} : ~Start(n, kind)
      /\ ~payout(n) /\ ~ConnectionLost(n)
  BY <1>2 DEF Start, payout, ConnectionLost
<1>4. /\ op[n].at \in {"sign", "approve", "poll", "post", "wait", "refresh"}
      /\ ~Settled(n)
      /\ UNCHANGED <<vault, ledger, expired, returned, stray>>
  BY <1>3 DEF ClientStep, Post, Receive, signIntent, approveTopUp, pollTopUp, Finish, ClientUnchanged,
              Settled
<1>5. (\A m \in Op \ {n} : Settled(m)) /\ Balanced(n) /\ Ready(n)
  BY <1>4, AloneAtWork
<1>6. ASSUME OnceAt(n)', Ready(n)', Others(n),
             ToReceive(n)' - LedgerAfter(n)' = ToReceive(n) - LedgerAfter(n)
      PROVE  (OnceInv /\ OneAtWork)'
  <2>1. /\ ToReceive(n) \in Int /\ ToReceive(n)' \in Int
        /\ LedgerAfter(n) \in Int /\ LedgerAfter(n)' \in Int
    BY <1>1, <1>4 DEF ToReceive, LedgerAfter
  <2>2. Balanced(n)'
    BY <1>1, <1>4, <1>5, <1>6, <2>1 DEF Balanced, Activation
  <2>3. QED  BY <1>5, <1>6, <2>2, OthersKeep
<1>7. CASE Post(n)
  <2>1. op[n].at = "post" /\ op[n].tries = 0 /\ One(n) = "none"
    BY <1>1, <1>7 DEF Post, OnceAt, RequestAt, Client
  <2>2. /\ op' = [op EXCEPT ![n].at = "wait", ![n].tries = 1]
        /\ req' = [req EXCEPT ![n][1].at = "arrived"] /\ UNCHANGED pool
    BY <1>7, <2>1 DEF Post
  <2>3. /\ op'[n] = [op[n] EXCEPT !.at = "wait", !.tries = 1]
        /\ \A m \in Op \ {n} : op'[m] = op[m] /\ req'[m] = req[m]
        /\ req'[n][1] = [req[n][1] EXCEPT !.at = "arrived"]
        /\ \A k \in Try \ {1} : req'[n][k] = req[n][k]
    BY <1>1, <2>2
  <2>4. One(n)' = "arrived" /\ (Flying(n)' <=> Flying(n))
    BY <1>1, <2>2, <2>3 DEF One, Flying, ReqRow
  <2>5. op'[n].kind = op[n].kind /\ op'[n].tries = 1 /\ op'[n].at = "wait"
        /\ op'[n].seqno = op[n].seqno
    BY <1>1, <2>3 DEF OpRow
  <2>6. Others(n)
    BY <1>4, <2>2, <2>3 DEF Others
  <2>7. OnceAt(n)'
    <3>1. op[n].kind \in {"withdraw", "pay", "deposit", "faucet"}
      BY <1>1, <2>1 DEF Client, OpRow, Kind
    <3>2. One(n)' \in RequestAt(op[n])'
      BY <2>4, <2>5, <3>1 DEF RequestAt, Served, Relayed
    <3>3. Flying(n) => op[n].kind = "deposit"
      BY <1>1, <2>1, <3>1 DEF OnceAt, MayFly, Relayed
    <3>4. Flying(n)' => MayFly(n)'
      BY <2>4, <2>5, <3>3 DEF MayFly, Relayed
    <3>5. n \notin returned'
      BY <1>1, <1>4, <2>1 DEF OnceAt
    <3>6. QED
      BY <1>1, <2>2, <2>3, <2>5, <3>2, <3>4, <3>5 DEF OnceAt
  <2>8. Ready(n)'
    BY <1>4, <1>5, <2>1, <2>4, <2>5 DEF Ready, Unspent
  <2>9. ToReceive(n)' = ToReceive(n) /\ LedgerAfter(n)' = LedgerAfter(n)
    <3>1. ToReceive(n)' = ToReceive(n)
      BY <2>4, <2>5 DEF ToReceive
    <3>2. (ToCredit(n)' <=> ToCredit(n)) /\ ~ToDebit(n) /\ ~ToDebit(n)'
      BY <1>1, <2>1, <2>4, <2>5 DEF ToDebit, ToCredit, Client
    <3>3. QED  BY <1>4, <3>1, <3>2 DEF LedgerAfter
  <2>10. QED  BY <1>6, <2>6, <2>7, <2>8, <2>9
<1>8. ASSUME req' = req, pool' = pool, \A m \in Op \ {n} : op'[m] = op[m],
             op'[n] \in OpRow, op'[n].kind = op[n].kind, op'[n].tries = op[n].tries,
             ToCredit(n)' <=> ToCredit(n), Unspent(n)' => Unspent(n) \/ vault.balance >= 2,
             Unspent(n)' => op'[n].seqno = vault.seqno,
             op'[n].at \in {"sign", "approve", "poll", "post"} => op'[n].tries = 0,
             op'[n].tries # 0 => op'[n].at = "wait" \/ One(n) = "200",
             op'[n].kind = "deposit" /\ Flying(n)
                 => op'[n].at \in {"poll", "post", "wait", "refresh", "over"}
      PROVE  (OnceInv /\ OneAtWork)'
  <2>1. One(n)' = One(n) /\ (Flying(n)' <=> Flying(n))
    BY <1>8 DEF One, Flying
  <2>2. Others(n)
    BY <1>4, <1>8 DEF Others
  <2>3. One(n)' \in RequestAt(op[n])'
    <3>1. op[n].kind # "payout"
      BY <1>1, <1>4 DEF Client
    <3>2. QED  BY <1>1, <1>8, <2>1, <3>1 DEF OnceAt, RequestAt
  <2>4. Flying(n)' => MayFly(n)'
    BY <1>1, <1>8, <2>1 DEF OnceAt, MayFly, OpRow, Kind, Relayed
  <2>5. OnceAt(n)'
    BY <1>1, <1>4, <1>8, <2>1, <2>3, <2>4 DEF OnceAt
  <2>6. Ready(n)'
    BY <1>4, <1>5, <1>8, <2>1 DEF Ready
  <2>7. ToReceive(n)' = ToReceive(n) /\ LedgerAfter(n)' = LedgerAfter(n)
    BY <1>1, <1>4, <1>8, <2>1 DEF ToReceive, LedgerAfter, ToDebit
  <2>8. QED  BY <1>6, <2>2, <2>5, <2>6, <2>7
<1>9. CASE Receive(n)
  <2>1. op[n].at = "wait" /\ op[n].tries = 1 /\ op[n].kind # "payout"
    BY <1>1, <1>9 DEF Receive, OnceAt, Client
  <2>2. One(n) = "200"
    BY <1>1, <1>9, <2>1 DEF Receive, OnceAt, RequestAt, Served, Relayed, Kind, OpRow, One
  <2>3. op' = [op EXCEPT ![n].at = "refresh", ![n].result = "ok"] /\ UNCHANGED <<req, pool>>
    BY <1>9, <2>1, <2>2 DEF Receive, EndsAt, ClientUnchanged, One
  <2>4. /\ op'[n] \in OpRow /\ op'[n].kind = op[n].kind /\ op'[n].tries = 1
        /\ op'[n].at = "refresh" /\ op'[n].seqno = op[n].seqno
        /\ \A m \in Op \ {n} : op'[m] = op[m]
    BY <1>1, <2>1, <2>3 DEF OpRow, At
  <2>5. ToCredit(n)' <=> ToCredit(n)
    BY <2>1, <2>2, <2>3, <2>4 DEF ToCredit, One
  <2>6. (Unspent(n)' => Unspent(n)) /\ (Unspent(n)' => op'[n].seqno = vault.seqno)
    BY <1>5, <2>1, <2>2, <2>3, <2>4 DEF Unspent, Ready, One, Flying
  <2>7. QED  BY <1>8, <2>1, <2>2, <2>3, <2>4, <2>5, <2>6
<1>10. ASSUME NEW ok \in BOOLEAN, signIntent(n, ok) PROVE (OnceInv /\ OneAtWork)'
  <2>1. op[n].at = "sign" /\ op[n].kind \in Relayed /\ op[n].tries = 0
    BY <1>1, <1>10 DEF signIntent, Client
  <2>2. One(n) = "none" /\ ~Flying(n)
    BY <1>1, <2>1 DEF OnceAt, RequestAt, MayFly, Relayed
  <2>3. UNCHANGED <<req, pool>> /\ \A m \in Op \ {n} : op'[m] = op[m]
    BY <1>1, <1>10 DEF signIntent, EndsAt
  <2>4. op'[n] \in OpRow /\ op'[n].kind = op[n].kind /\ op'[n].tries = 0
    BY <1>1, <1>10, <2>1 DEF signIntent, EndsAt, OpRow, At
  <2>5. \/ op'[n].at = "post" /\ op'[n].seqno = vault.seqno /\ vault.balance >= 2
        \/ op'[n].at = "over"
    BY <1>1, <1>10, <2>1 DEF signIntent, EndsAt, OpRow, VAULT_MIN_GAS
  <2>6. ToCredit(n)' <=> ToCredit(n)
    BY <2>1, <2>4 DEF ToCredit, Relayed
  <2>7. Unspent(n)' => op'[n].seqno = vault.seqno /\ vault.balance >= 2
    BY <2>2, <2>3, <2>5 DEF Unspent, One, Flying
  <2>8. QED  BY <1>8, <2>1, <2>2, <2>3, <2>4, <2>5, <2>6, <2>7 DEF Relayed
<1>11. ASSUME NEW yes \in BOOLEAN, NEW answered \in BOOLEAN, approveTopUp(n, yes, answered)
       PROVE  (OnceInv /\ OneAtWork)'
  <2>1. op[n].at = "approve" /\ op[n].kind = "deposit" /\ op[n].tries = 0 /\ answered
    BY <1>1, <1>2, <1>11 DEF approveTopUp, Client
  <2>2. One(n) = "none" /\ ~Flying(n)
    BY <1>1, <2>1 DEF OnceAt, RequestAt, MayFly, Relayed
  <2>3. CASE ~yes
    <3>1. op' = [op EXCEPT ![n].at = "over", ![n].result = "failed"] /\ UNCHANGED <<req, pool>>
      BY <1>11, <2>3 DEF approveTopUp, EndsAt
    <3>2. /\ op'[n] \in OpRow /\ op'[n].kind = op[n].kind /\ op'[n].tries = 0
          /\ op'[n].at = "over" /\ \A m \in Op \ {n} : op'[m] = op[m]
      BY <1>1, <2>1, <3>1 DEF OpRow, At
    <3>3. ToCredit(n)' <=> ToCredit(n)
      BY <2>1, <2>2, <3>1, <3>2 DEF ToCredit, One
    <3>4. ~Unspent(n)'
      BY <2>1, <3>2 DEF Unspent, Relayed
    <3>5. QED  BY <1>8, <2>1, <2>2, <3>1, <3>2, <3>3, <3>4
  <2>4. CASE yes
    <3>1. op' = [op EXCEPT ![n].at = "poll"] /\ UNCHANGED req /\ pool' = pool \cup {<<n, 0>>}
      BY <1>11, <2>1, <2>4 DEF approveTopUp
    <3>2. /\ op'[n] \in OpRow /\ op'[n].kind = "deposit" /\ op'[n].tries = 0
          /\ op'[n].at = "poll" /\ \A m \in Op \ {n} : op'[m] = op[m]
      BY <1>1, <2>1, <3>1 DEF OpRow, At
    <3>3. <<n, 0>> \in pool' /\ <<n, 0>>[1] = n
      BY <3>1
    <3>4. Flying(n)' /\ One(n)' = "none"
      BY <2>2, <3>1, <3>3, Zenon DEF Flying, One
    <3>5. Others(n)
      BY <1>4, <3>1, <3>2 DEF Others
    <3>6. OnceAt(n)'
      <4>1. \A e \in pool' : e[1] = n => e[2] = 0
        BY <2>2, <3>1 DEF Flying
      <4>2. n \notin returned' /\ \A k \in Try \ {1} : req'[n][k].at = "none"
        BY <1>1, <1>4, <2>1, <3>1 DEF OnceAt, Relayed
      <4>3. QED  BY <3>2, <3>4, <4>1, <4>2 DEF OnceAt, RequestAt, MayFly, Relayed
    <3>7. Ready(n)'
      BY <2>1, <3>2, <3>4 DEF Ready, Unspent, Relayed
    <3>8. ToReceive(n)' = ToReceive(n) + 1
      BY <2>2, <3>2, <3>4 DEF ToReceive, Relayed
    <3>9. LedgerAfter(n)' = LedgerAfter(n) + 1
      BY <1>1, <1>4, <2>1, <2>2, <3>2, <3>4 DEF LedgerAfter, ToDebit, ToCredit, Relayed
    <3>10. ToReceive(n) \in Int /\ LedgerAfter(n) \in Int
      BY <1>1 DEF ToReceive, LedgerAfter
    <3>11. QED  BY <1>6, <3>5, <3>6, <3>7, <3>8, <3>9, <3>10
  <2>5. QED  BY <2>3, <2>4
<1>12. ASSUME NEW ok \in BOOLEAN, NEW read \in Read, pollTopUp(n, ok, read)
       PROVE  (OnceInv /\ OneAtWork)'
  <2>1. op[n].at = "poll" /\ op[n].kind = "deposit" /\ op[n].tries = 0 /\ ok
    BY <1>1, <1>2, <1>12 DEF pollTopUp, Client, FaultUnless
  <2>2. op' = [op EXCEPT ![n].at = "post"] /\ UNCHANGED <<req, pool>>
    BY <1>12, <2>1 DEF pollTopUp
  <2>3. /\ op'[n] \in OpRow /\ op'[n].kind = op[n].kind /\ op'[n].tries = 0
        /\ op'[n].at = "post" /\ \A m \in Op \ {n} : op'[m] = op[m]
    BY <1>1, <2>1, <2>2 DEF OpRow, At
  <2>4. ToCredit(n)' <=> ToCredit(n)
    BY <2>1, <2>2, <2>3 DEF ToCredit, One
  <2>5. ~Unspent(n)'
    BY <2>1, <2>3 DEF Unspent, Relayed
  <2>6. QED  BY <1>8, <2>1, <2>2, <2>3, <2>4, <2>5
<1>13. ASSUME NEW ok \in BOOLEAN, NEW read \in Read, Finish(n, ok, read)
       PROVE  (OnceInv /\ OneAtWork)'
  <2>1. op[n].at = "refresh" /\ op[n].kind # "payout" /\ op[n].kind # "none" /\ One(n) = "200"
    BY <1>1, <1>13 DEF Finish, Client, OnceAt, RequestAt
  <2>2. /\ op' = [op EXCEPT ![n].at = "over", ![n].result = op[n].result]
        /\ UNCHANGED <<req, pool>>
    BY <1>13 DEF Finish, EndsAt
  <2>3. /\ op'[n] \in OpRow /\ op'[n].kind = op[n].kind /\ op'[n].tries = op[n].tries
        /\ op'[n].at = "over" /\ op'[n].seqno = op[n].seqno
        /\ \A m \in Op \ {n} : op'[m] = op[m]
    BY <1>1, <2>1, <2>2 DEF OpRow, At
  <2>4. ToCredit(n)' <=> ToCredit(n)
    BY <2>1, <2>2, <2>3 DEF ToCredit, One
  <2>5. (Unspent(n)' => Unspent(n)) /\ (Unspent(n)' => op'[n].seqno = vault.seqno)
    BY <1>5, <2>1, <2>2, <2>3 DEF Unspent, Ready, One, Flying
  <2>6. QED  BY <1>8, <2>1, <2>2, <2>3, <2>4, <2>5
<1>14. QED
  BY <1>3, <1>7, <1>9, <1>10, <1>11, <1>12, <1>13 DEF ClientStep

(* The routes serve the one request: each answers it, or moves it forward.  *)
LEMMA RouteCalm ==
    ASSUME faults \in Nat, UNCHANGED faults, TypesInv, IInv, OnceInv, OneAtWork,
           NEW n \in Op, NEW k \in Try, RouteStep(n, k)
    PROVE  (OnceInv /\ OneAtWork)'
<1>1. /\ op \in [Op -> OpRow] /\ op[n] \in OpRow /\ Client(op[n]) /\ 1 \in Try
      /\ req \in [Op -> [Try -> ReqRow]] /\ req[n] \in [Try -> ReqRow]
      /\ req[n][1] \in ReqRow /\ vault.balance \in Nat /\ ledger.vault \in Nat
      /\ vault.seqno \in Nat /\ OnceAt(n) /\ expired = {} /\ stray \in Nat
      /\ ledger \in [owner : Nat, vault : Nat]
  BY OneOp
<1>2. ~Fault /\ \A ok \in BOOLEAN : FaultUnless(ok) => ok
  BY NothingFails
<1>3. PICK ok \in BOOLEAN :
        \/ relayChecks(n, k, ok) \/ relayReadsRow(n, k, ok) \/ relayWritesRow(n, k, ok)
        \/ creditReadsRow(n, k, ok) \/ creditWritesRow(n, k, ok)
        \/ readsRow(n, k, ok) \/ depositWritesRow(n, k, ok) \/ faucetWritesRow(n, k, ok)
        \/ \E reached \in BOOLEAN :
            relayBroadcasts(n, k, ok, reached) \/ sendPlainTon(n, k, ok, reached)
  BY DEF RouteStep
<1>4. /\ req[n][k].at \in {"arrived", "checked", "sent", "read"} /\ ok
      /\ op[n].kind \in Kind
      /\ UNCHANGED <<op, vault, returned, expired, stray>>
  BY <1>2, <1>3 DEF relayChecks, relayReadsRow, relayWritesRow, creditReadsRow, creditWritesRow,
                    readsRow, depositWritesRow, faucetWritesRow, relayBroadcasts, sendPlainTon,
                    ServerUnchanged, Kind, Relayed
<1>5. k = 1 /\ One(n) \in {"arrived", "checked", "sent", "read"}
  BY <1>1, <1>4 DEF OnceAt, One
<1>6. (\A m \in Op \ {n} : Settled(m)) /\ Balanced(n) /\ Ready(n)
  <2>1. ~Settled(n)
    BY <1>1, <1>5 DEF Settled, Answered, One
  <2>2. QED  BY <2>1, AloneAtWork
<1>7. RequestAt(op[n]) = Served(op[n].kind) \cup {IF op[n].kind = "payout" THEN "none" ELSE "200"}
  BY <1>1, <1>5 DEF OnceAt, RequestAt
<1>8. ToReceive(n) \in Int /\ LedgerAfter(n) \in Int
  BY <1>1 DEF ToReceive, LedgerAfter
<1>9. ASSUME NEW row, req' = [req EXCEPT ![n][1] = row],
             row.at \in RequestAt(op[n]),
             \/ UNCHANGED pool
             \/ op[n].kind \in {"withdraw", "pay", "faucet"} /\ pool' = pool \cup {<<n, 1>>},
             Flying(n)' => MayFly(n)',
             n \in returned => row.at \in {"sent", "read", "200"} /\ UNCHANGED pool,
             Balanced(n)', Ready(n)'
      PROVE  (OnceInv /\ OneAtWork)'
  <2>1. /\ req'[n][1] = row /\ \A j \in Try \ {1} : req'[n][j] = req[n][j]
        /\ \A m \in Op \ {n} : req'[m] = req[m]
    BY <1>1, <1>9
  <2>2. Others(n)
    BY <1>4, <1>9, <2>1 DEF Others
  <2>3. \A e \in pool' : e[1] = n => e[2] = IF op[n].kind \in {"deposit", "payout"} THEN 0 ELSE 1
    BY <1>1, <1>9 DEF OnceAt
  <2>4. n \in returned' => op[n].kind \in Relayed /\ ~Flying(n)'
    BY <1>1, <1>4, <1>9 DEF OnceAt, Flying
  <2>5. OnceAt(n)'
    BY <1>1, <1>4, <1>9, <2>1, <2>3, <2>4 DEF OnceAt, One
  <2>6. QED  BY <1>6, <1>9, <2>2, <2>5, OthersKeep
<1>10. ASSUME NEW row, req' = [req EXCEPT ![n][1] = row]
       PROVE  req'[n][1] = row /\ One(n)' = row.at
  BY <1>1, <1>10 DEF One
<1>11. /\ \A at : To(n, k, at) =>
            \E row : /\ req' = [req EXCEPT ![n][1] = row]
                     /\ row.at = at /\ row.vault = req[n][1].vault
       /\ ReadRow(n, k, "read") =>
            \E row : /\ req' = [req EXCEPT ![n][1] = row]
                     /\ row.at = "read" /\ row.vault = ledger.vault
       /\ \A at : AnswersTo(n, k, at) =>
            \E row : req' = [req EXCEPT ![n][1] = row] /\ row.at = at
  <2>1. ASSUME NEW at, To(n, k, at)
        PROVE  \E row : /\ req' = [req EXCEPT ![n][1] = row]
                        /\ row.at = at /\ row.vault = req[n][1].vault
    <3>1. PICK row : row = [req[n][1] EXCEPT !.at = at]
      OBVIOUS
    <3>2. req' = [req EXCEPT ![n][1] = row] /\ row.at = at /\ row.vault = req[n][1].vault
      BY <1>1, <1>5, <2>1, <3>1 DEF To, ReqRow
    <3>3. QED  BY <3>2
  <2>2. ASSUME ReadRow(n, k, "read")
        PROVE  \E row : /\ req' = [req EXCEPT ![n][1] = row]
                        /\ row.at = "read" /\ row.vault = ledger.vault
    <3>1. PICK row : row = [at |-> "read", owner |-> ledger.owner, vault |-> ledger.vault]
      OBVIOUS
    <3>2. req' = [req EXCEPT ![n][1] = row]
      BY <1>5, <2>2, <3>1 DEF ReadRow
    <3>3. row.at = "read" /\ row.vault = ledger.vault
      BY <3>1
    <3>4. QED  BY <3>2, <3>3
  <2>3. ASSUME NEW at, AnswersTo(n, k, at)
        PROVE  \E row : req' = [req EXCEPT ![n][1] = row] /\ row.at = at
    <3>1. PICK row : row = [at |-> at, owner |-> 0, vault |-> 0]
      OBVIOUS
    <3>2. req' = [req EXCEPT ![n][1] = row]
      BY <1>5, <2>3, <3>1 DEF AnswersTo
    <3>3. row.at = at
      BY <3>1
    <3>4. QED  BY <3>2, <3>3
  <2>4. QED  BY <2>1, <2>2, <2>3
(* A step that moves no money.                                              *)
<1>12. ASSUME NEW row, req' = [req EXCEPT ![n][1] = row], UNCHANGED <<pool, ledger>>,
              row.at \in RequestAt(op[n]), Flying(n) => MayFly(n)',
              n \in returned => row.at \in {"sent", "read", "200"},
              ToDebit(n)' <=> ToDebit(n), ToCredit(n)' <=> ToCredit(n),
              Unspent(n)' => Unspent(n),
              row.at = "read" \/ (op[n].kind = "faucet" /\ row.at = "sent")
                => row.vault = ledger.vault
       PROVE  (OnceInv /\ OneAtWork)'
  <2>1. req'[n][1] = row /\ One(n)' = row.at /\ (Flying(n)' <=> Flying(n))
    BY <1>10, <1>12 DEF Flying
  <2>2. ToReceive(n)' = ToReceive(n) /\ LedgerAfter(n)' = LedgerAfter(n)
    BY <1>4, <1>12, <2>1 DEF ToReceive, LedgerAfter
  <2>3. Balanced(n)'
    BY <1>4, <1>6, <2>2 DEF Balanced
  <2>4. Ready(n)'
    BY <1>4, <1>6, <1>12, <2>1 DEF Ready
  <2>5. QED  BY <1>9, <1>12, <2>1, <2>3, <2>4
(* A write of the row.                                                      *)
<1>13. ASSUME NEW row, req' = [req EXCEPT ![n][1] = row], UNCHANGED pool,
              row.at \in RequestAt(op[n]), row.at \in {"200", "none"},
              Flying(n) => MayFly(n)', n \in returned => row.at = "200",
              Unspent(n)' => Unspent(n),
              ~ToCredit(n)', ledger'.vault = LedgerAfter(n)
       PROVE  (OnceInv /\ OneAtWork)'
  <2>1. req'[n][1] = row /\ One(n)' = row.at /\ (Flying(n)' <=> Flying(n))
    BY <1>10, <1>13 DEF Flying
  <2>2. ToReceive(n)' = ToReceive(n)
    BY <1>4, <2>1 DEF ToReceive
  <2>3. LedgerAfter(n)' = LedgerAfter(n)
    BY <1>13, <2>1 DEF LedgerAfter, ToDebit
  <2>4. Balanced(n)'
    BY <1>4, <1>6, <2>2, <2>3 DEF Balanced
  <2>5. Ready(n)'
    BY <1>4, <1>6, <1>13, <2>1 DEF Ready
  <2>6. QED  BY <1>9, <1>13, <2>1, <2>4, <2>5
<1>14. CASE relayChecks(n, k, ok)
  <2>1. op[n].kind \in Relayed /\ One(n) = "arrived" /\ UNCHANGED <<pool, ledger>>
    BY <1>5, <1>14 DEF relayChecks, One
  <2>2. op[n].seqno = vault.seqno
    BY <1>6, <2>1 DEF Ready, Unspent
  <2>3. To(n, k, "checked")
    BY <1>1, <1>4, <1>14, <2>2 DEF relayChecks
  <2>4. PICK row : /\ req' = [req EXCEPT ![n][1] = row] /\ row.at = "checked"
    BY <1>11, <2>3
  <2>5. One(n)' = "checked"
    BY <1>10, <2>4
  <2>6. ~Flying(n) /\ n \notin returned
    BY <1>1, <2>1 DEF OnceAt, MayFly, Relayed
  <2>7. /\ ~ToDebit(n)' /\ ~ToDebit(n) /\ ~ToCredit(n)' /\ ~ToCredit(n) /\ Unspent(n)
        /\ op[n].kind # "faucet"
    BY <1>4, <2>1, <2>5 DEF ToDebit, ToCredit, Unspent, Relayed
  <2>8. row.at \in RequestAt(op[n])
    BY <1>7, <2>1, <2>4 DEF Served, Relayed
  <2>9. QED  BY <1>12, <2>1, <2>4, <2>6, <2>7, <2>8
<1>15. CASE relayReadsRow(n, k, ok)
  <2>1. op[n].kind \in Relayed /\ One(n) = "sent" /\ UNCHANGED <<pool, ledger>>
    BY <1>5, <1>15 DEF relayReadsRow, One
  <2>2. PICK row : /\ req' = [req EXCEPT ![n][1] = row]
                   /\ row.at = "read" /\ row.vault = ledger.vault
    <3>1. ReadRow(n, k, "read")
      BY <1>4, <1>15 DEF relayReadsRow
    <3>2. QED  BY <1>11, <3>1
  <2>3. One(n)' = "read"
    BY <1>10, <2>2
  <2>4. /\ ToDebit(n)' /\ ToDebit(n) /\ ~ToCredit(n)' /\ ~ToCredit(n)
        /\ MayFly(n)' /\ (Unspent(n)' => Unspent(n))
    BY <1>4, <2>1, <2>3 DEF ToDebit, ToCredit, Unspent, MayFly, Relayed, Flying
  <2>5. row.at \in RequestAt(op[n])
    BY <1>7, <2>1, <2>2 DEF Served, Relayed
  <2>6. QED  BY <1>12, <2>1, <2>2, <2>4, <2>5
<1>16. CASE relayWritesRow(n, k, ok)
  <2>1. op[n].kind \in Relayed /\ One(n) = "read" /\ UNCHANGED pool
    BY <1>5, <1>16 DEF relayWritesRow, One
  <2>2. PICK row : req' = [req EXCEPT ![n][1] = row] /\ row.at = "200"
    <3>1. AnswersTo(n, k, "200")
      BY <1>16 DEF relayWritesRow
    <3>2. QED  BY <1>11, <3>1
  <2>3. One(n)' = "200"
    BY <1>10, <2>2
  <2>4. req[n][1].vault = ledger.vault
    BY <1>6, <2>1 DEF Ready
  <2>5. ledger'.vault = LedgerAfter(n)
    BY <1>4, <1>5, <1>16, <2>1, <2>4 DEF relayWritesRow, LedgerAfter, ToDebit
  <2>6. ~ToCredit(n)' /\ MayFly(n)' /\ (Unspent(n)' => Unspent(n))
    BY <1>4, <2>1, <2>3 DEF ToCredit, Unspent, MayFly, Relayed, Flying
  <2>7. row.at \in RequestAt(op[n])
    BY <1>7, <2>1, <2>2 DEF Relayed
  <2>8. QED  BY <1>13, <2>1, <2>2, <2>5, <2>6, <2>7
<1>17. CASE creditReadsRow(n, k, ok) \/ readsRow(n, k, ok)
  <2>1. /\ op[n].kind \in {"payout", "deposit", "faucet"} /\ One(n) = "arrived"
        /\ UNCHANGED <<pool, ledger>>
    BY <1>5, <1>17 DEF creditReadsRow, readsRow, One
  <2>2. PICK row : /\ req' = [req EXCEPT ![n][1] = row]
                   /\ row.at = "read" /\ row.vault = ledger.vault
    <3>1. ReadRow(n, k, "read")
      BY <1>4, <1>17 DEF creditReadsRow, readsRow
    <3>2. QED  BY <1>11, <3>1
  <2>3. One(n)' = "read"
    BY <1>10, <2>2
  <2>4. ~ToDebit(n)' /\ ~ToDebit(n) /\ (ToCredit(n)' <=> ToCredit(n)) /\ ~Unspent(n)'
    BY <1>4, <2>1, <2>3 DEF ToDebit, ToCredit, Unspent, Relayed
  <2>5. Flying(n) => MayFly(n)'
    BY <1>1, <1>4, <2>1, <2>3 DEF OnceAt, MayFly, Relayed
  <2>6. row.at \in RequestAt(op[n]) /\ n \notin returned
    BY <1>1, <1>7, <2>1, <2>2 DEF OnceAt, Served, Relayed
  <2>7. QED  BY <1>12, <2>1, <2>2, <2>4, <2>5, <2>6
<1>18. CASE creditWritesRow(n, k, ok) \/ depositWritesRow(n, k, ok) \/ faucetWritesRow(n, k, ok)
  <2>1. /\ \/ op[n].kind = "payout" /\ One(n) = "read"
           \/ op[n].kind = "deposit" /\ One(n) = "read"
           \/ op[n].kind = "faucet" /\ One(n) = "sent"
        /\ UNCHANGED pool
    BY <1>5, <1>18 DEF creditWritesRow, depositWritesRow, faucetWritesRow, One
  <2>2. PICK row : /\ req' = [req EXCEPT ![n][1] = row]
                   /\ row.at = IF op[n].kind = "payout" THEN "none" ELSE "200"
    <3>1. AnswersTo(n, k, IF op[n].kind = "payout" THEN "none" ELSE "200")
      BY <1>4, <1>18 DEF creditWritesRow, depositWritesRow, faucetWritesRow
    <3>2. QED  BY <1>11, <3>1
  <2>3. One(n)' = row.at
    BY <1>10, <2>2
  <2>4. req[n][1].vault = ledger.vault
    BY <1>6, <2>1 DEF Ready
  <2>5. ledger'.vault = ledger.vault + 1
    <3>1. CASE creditWritesRow(n, k, ok) \/ faucetWritesRow(n, k, ok)
      BY <1>1, <1>4, <1>5, <2>4, <3>1 DEF creditWritesRow, faucetWritesRow
    <3>2. CASE depositWritesRow(n, k, ok)
      BY <1>4, <1>5, <2>4, <3>2 DEF depositWritesRow
    <3>3. QED  BY <1>18, <3>1, <3>2
  <2>6. LedgerAfter(n) = ledger.vault + 1
    BY <2>1 DEF LedgerAfter, ToDebit, ToCredit, Relayed
  <2>7. ~ToCredit(n)' /\ ~Unspent(n)'
    <3>1. op[n].kind = "deposit" => op[n].at = "wait"
      BY <1>1, <2>1 DEF OnceAt, RequestAt
    <3>2. QED
      BY <1>4, <2>1, <2>2, <2>3, <3>1 DEF ToCredit, Unspent, Relayed
  <2>8. Flying(n) => MayFly(n)'
    BY <1>1, <1>4, <2>1, <2>2, <2>3 DEF OnceAt, MayFly, Relayed
  <2>9. row.at \in RequestAt(op[n]) /\ n \notin returned /\ row.at \in {"200", "none"}
    BY <1>1, <1>7, <2>1, <2>2 DEF OnceAt, Relayed
  <2>10. QED  BY <1>13, <2>1, <2>2, <2>5, <2>6, <2>7, <2>8, <2>9
<1>19. ASSUME NEW reached \in BOOLEAN,
              relayBroadcasts(n, k, ok, reached) \/ sendPlainTon(n, k, ok, reached)
       PROVE  (OnceInv /\ OneAtWork)'
  <2>1. /\ \/ op[n].kind \in Relayed /\ One(n) = "checked"
           \/ op[n].kind = "faucet" /\ One(n) = "read"
        /\ UNCHANGED ledger /\ reached
    BY <1>4, <1>5, <1>19 DEF relayBroadcasts, sendPlainTon, One
  <2>2. To(n, k, "sent") /\ pool' = pool \cup {<<n, 1>>}
    BY <1>4, <1>5, <1>19, <2>1 DEF relayBroadcasts, sendPlainTon
  <2>3. PICK row : /\ req' = [req EXCEPT ![n][1] = row] /\ row.at = "sent"
                   /\ row.vault = req[n][1].vault
    BY <1>11, <2>2
  <2>4. req'[n][1] = row /\ One(n)' = "sent"
    BY <1>10, <2>3
  <2>5. ~Flying(n) /\ n \notin returned
    BY <1>1, <2>1 DEF OnceAt, MayFly, Relayed
  <2>6. Flying(n)'
    <3>1. <<n, 1>> \in pool' /\ <<n, 1>>[1] = n
      BY <2>2
    <3>2. QED  BY <3>1, Zenon DEF Flying
  <2>7. MayFly(n)' /\ row.at \in RequestAt(op[n])
    BY <1>4, <1>7, <2>1, <2>3, <2>4 DEF MayFly, Served, Relayed
  <2>8. Ready(n)'
    BY <1>4, <1>6, <2>1, <2>3, <2>4 DEF Ready, Unspent, Relayed
  <2>9. Balanced(n)'
    <3>1. CASE op[n].kind \in Relayed
      <4>1. vault.balance >= 2
        BY <1>6, <2>1, <3>1 DEF Ready, Unspent, Relayed
      <4>2. ToReceive(n) = 0 /\ ToReceive(n)' = -1
        BY <1>4, <2>5, <2>6, <3>1 DEF ToReceive
      <4>3. LedgerAfter(n) = ledger.vault
        BY <2>1, <3>1 DEF LedgerAfter, ToDebit, ToCredit, Relayed
      <4>4. LedgerAfter(n)' = IF ledger.vault = 0 THEN 0 ELSE ledger.vault - 1
        BY <1>4, <2>1, <2>4, <3>1 DEF LedgerAfter, ToDebit
      <4>5. QED
        BY <1>1, <1>4, <1>6, <4>1, <4>2, <4>3, <4>4, ReturnedCounted DEF Balanced, Activation
    <3>2. CASE op[n].kind = "faucet"
      <4>1. ToReceive(n) = 0 /\ ToReceive(n)' = 1
        BY <1>4, <2>5, <2>6, <3>2 DEF ToReceive, Relayed
      <4>2. LedgerAfter(n) = ledger.vault /\ LedgerAfter(n)' = ledger.vault + 1
        BY <1>4, <2>1, <2>4, <3>2 DEF LedgerAfter, ToDebit, ToCredit, Relayed
      <4>3. QED
        BY <1>1, <1>4, <1>6, <4>1, <4>2 DEF Balanced, Activation
    <3>3. QED  BY <2>1, <3>1, <3>2
  <2>10. op[n].kind \in {"withdraw", "pay", "faucet"}
    BY <2>1 DEF Relayed
  <2>11. QED
    BY <1>9, <2>2, <2>3, <2>5, <2>7, <2>8, <2>9, <2>10
<1>20. QED
  BY <1>3, <1>14, <1>15, <1>16, <1>17, <1>18, <1>19

(* The vault takes the one message: a payment that comes back to it is the  *)
(* only one the ledger does not follow.                                     *)
LEMMA IncludeCalm ==
    ASSUME faults \in Nat, TypesInv, IInv, OnceInv, OneAtWork,
           NEW e \in pool, NEW accepted \in BOOLEAN, Include(e, accepted)
    PROVE  (OnceInv /\ OneAtWork)'
<1>1. PICK n \in Op : n = e[1]
  BY DEF TypesInv, LedgerTypeOK
<1>2. /\ op \in [Op -> OpRow] /\ op[n] \in OpRow /\ Client(op[n])
      /\ pool \subseteq Op \X (0..Attempts)
      /\ vault \in [seqno : Nat, balance : Nat] /\ vault.balance \in Nat
      /\ ledger.vault \in Nat /\ OnceAt(n) /\ expired = {} /\ stray \in Nat
  BY OneOp
<1>3. /\ e \in pool /\ pool' = pool \ {e} /\ UNCHANGED <<op, req, ledger>>
  BY DEF Include, ChainUnchanged
<1>4. Flying(n) /\ MayFly(n) /\ op[n].kind # "none" /\ n \notin returned
  BY <1>1, <1>2 DEF Flying, OnceAt, MayFly, Relayed
<1>5. ~Flying(n)'
  <2>1. \A d \in pool : d = <<d[1], d[2]>>
    BY <1>2
  <2>2. \A d \in pool : d[1] = n => d[2] = e[2]
    BY <1>1, <1>2 DEF OnceAt
  <2>3. \A d \in pool : d[1] = n => d = e
    BY <1>1, <2>1, <2>2
  <2>4. QED  BY <1>3, <2>3 DEF Flying
<1>6. (\A m \in Op \ {n} : Settled(m)) /\ Balanced(n) /\ Ready(n)
  <2>1. ~Settled(n)
    BY <1>4 DEF Flying, Settled
  <2>2. QED  BY <2>1, AloneAtWork
<1>7. One(n)' = One(n) /\ LedgerAfter(n)' = LedgerAfter(n)
  BY <1>3 DEF One, LedgerAfter, ToDebit, ToCredit
<1>8. Cardinality(returned) \in Nat /\ IsFiniteSet(returned) /\ LedgerAfter(n) \in Int
  BY <1>2, ReturnedCounted DEF LedgerAfter
<1>9. ToReceive(n)' = 0
  BY <1>5 DEF ToReceive
<1>10. ASSUME UNCHANGED expired, returned' \subseteq returned \cup {n},
              n \in returned' => op[n].kind \in Relayed,
              Balanced(n)'
       PROVE  (OnceInv /\ OneAtWork)'
  <2>1. Others(n)
    BY <1>1, <1>3, <1>10 DEF Others
  <2>2. OnceAt(n)'
    <3>1. n \in returned' => One(n)' \in {"sent", "read", "200"}
      BY <1>4, <1>7, <1>10 DEF MayFly, Relayed
    <3>2. QED
      BY <1>2, <1>3, <1>5, <1>7, <1>10, <3>1 DEF OnceAt
  <2>3. Ready(n)'
    <3>1. ~Unspent(n)'
      <4>1. op[n].kind \in Relayed => op[n].at # "post"
        BY <1>2, <1>4 DEF MayFly, OnceAt, RequestAt, Relayed
      <4>2. op[n].kind \in Relayed => One(n) \in {"sent", "read", "200"}
        BY <1>4 DEF MayFly, Relayed
      <4>3. QED  BY <1>3, <1>5, <1>7, <4>1, <4>2 DEF Unspent
    <3>2. QED  BY <1>3, <1>6, <1>7, <3>1 DEF Ready
  <2>4. QED  BY <1>6, <1>10, <2>1, <2>2, <2>3, OthersKeep
<1>11. CASE op[n].kind \in Relayed /\ VaultExecute(n, accepted)
  <2>1. op[n].seqno = vault.seqno /\ vault.balance >= 2 /\ ToReceive(n) = -1
    BY <1>4, <1>6, <1>11 DEF Ready, Unspent, ToReceive
  <2>2. /\ UNCHANGED expired
        /\ returned' = IF accepted THEN returned ELSE returned \cup {n}
    BY <1>2, <1>11, <2>1 DEF VaultExecute
  <2> PICK left \in Nat :
        /\ vault'.balance = (IF accepted THEN vault.balance - 1 ELSE vault.balance) + left
        /\ stray' = stray + left
    BY <1>2, <1>11, <2>1, LedgerAssumption DEF VaultExecute
  <2>3. Balanced(n)'
    <3>1. CASE accepted
      BY <1>2, <1>6, <1>7, <1>8, <1>9, <2>1, <2>2, <3>1 DEF Balanced, Activation
    <3>2. CASE ~accepted
      <4>1. Cardinality(returned') = Cardinality(returned) + 1
        BY <1>4, <1>8, <2>2, <3>2, FS_AddElement
      <4>2. QED
        BY <1>2, <1>6, <1>7, <1>8, <1>9, <2>1, <2>2, <3>2, <4>1 DEF Balanced, Activation
    <3>3. QED  BY <3>1, <3>2
  <2>4. QED  BY <1>10, <1>11, <2>2, <2>3
<1>12. CASE /\ op[n].kind \in Kind \ Relayed
            /\ vault' = [vault EXCEPT !.balance = @ + Received(n)]
            /\ stray' = stray + Received(n) - 1
            /\ UNCHANGED <<returned, expired>>
  <2>1. Received(n) \in Nat /\ Received(n) >= 1
    BY LedgerAssumption DEF Received
  <2>2. vault'.balance = vault.balance + Received(n) /\ ToReceive(n) = 1
    BY <1>2, <1>4, <1>12 DEF ToReceive
  <2>3. Balanced(n)'
    BY <1>2, <1>6, <1>7, <1>8, <1>9, <1>12, <2>1, <2>2 DEF Balanced, Activation
  <2>4. QED  BY <1>4, <1>10, <1>12, <2>3
<1>13. QED
  BY <1>1, <1>11, <1>12 DEF Include

LEMMA ExactInitially == LedgerInit /\ faults = 0 => ExactInv
<1> SUFFICES ASSUME LedgerInit, faults = 0 PROVE ExactInv
  OBVIOUS
<1>1. 1 \in Op /\ 1 \in Try
  BY LedgerAssumption DEF Op, Try
<1>2. OnceInv
  BY <1>1 DEF LedgerInit, OnceInv, OnceAt, RequestAt, One, Flying
<1>3. \A m \in Op : Settled(m)
  BY DEF LedgerInit, Settled, Answered
<1>4. TypesInv
  BY TypesInitially
<1>5. Balanced(1)
  <2>1. ToReceive(1) = 0 /\ LedgerAfter(1) = ledger.vault
    BY <1>1, <1>3, AtRest
  <2>2. vault.balance = ledger.vault + 1 /\ ledger.vault \in Nat /\ returned = {}
        /\ stray = 0
    BY <1>4 DEF LedgerInit, TypesInv, LedgerTypeOK, Activation
  <2>3. Cardinality(returned) = 0
    BY <2>2, FS_EmptySet
  <2>4. QED  BY <2>1, <2>2, <2>3 DEF Balanced, Activation
<1>6. Ready(1)
  BY <1>1 DEF LedgerInit, Ready, Unspent, One, Flying
<1>7. QED
  BY <1>1, <1>2, <1>3, <1>4, <1>5, <1>6, LedgerInitially DEF ExactInv, OneAtWork

LEMMA ExactStep ==
    ASSUME ExactInv, LedgerNext \/ UNCHANGED <<ledgerVars, faults>>
    PROVE  ExactInv'
<1>1. TypesInv /\ IInv /\ faults \in Nat
  BY DEF ExactInv
<1>2. TypesInv' /\ IInv'
  BY <1>1, TypesStep, LedgerStep
<1>3. faults' \in Nat
  BY <1>1, FaultsCount
<1>4. ASSUME Calm' PROVE (OnceInv /\ OneAtWork)'
  <2>1. Calm /\ UNCHANGED faults
    BY <1>1, <1>4, CalmBefore
  <2>2. OnceInv /\ OneAtWork
    BY <2>1 DEF ExactInv
  <2>3. ASSUME NEW n \in Op, ClientStep(n) PROVE (OnceInv /\ OneAtWork)'
    <3>1. CASE op[n].kind # "none"
      BY <1>1, <2>1, <2>2, <2>3, <3>1, ClientCalm
    <3>2. CASE op[n].kind = "none"
      <4>1. payout(n) \/ \E kind \in Kind \ {"payout"} : Start(n, kind)
        <5>1. op[n].at = "idle"
          BY <1>1, <3>2 DEF IInv, ClientInv, Client
        <5>2. QED
          BY <2>3, <5>1 DEF ClientStep, Post, Receive, ConnectionLost, signIntent, approveTopUp,
                            pollTopUp, Finish
      <4>2. overlapped' = (overlapped \/ \E m \in Op : ~Settled(m))
        BY <4>1, Zenon DEF payout, Start
      <4>3. \A m \in Op : Settled(m)
        BY <1>4, <4>2, Zenon DEF Calm
      <4>4. QED
        BY <1>1, <2>2, <4>1, <4>3, StartCalm, payoutCalm
    <3>3. QED  BY <3>1, <3>2
  <2>4. ASSUME NEW n \in Op, NEW k \in Try, RouteStep(n, k) PROVE (OnceInv /\ OneAtWork)'
    BY <1>1, <2>1, <2>2, <2>4, RouteCalm
  <2>5. ASSUME NEW e \in pool, NEW accepted \in BOOLEAN, Include(e, accepted)
        PROVE  (OnceInv /\ OneAtWork)'
    BY <1>1, <2>2, <2>5, IncludeCalm
  <2>6. ~(\E e \in pool : Drop(e)) /\ ~(\E n \in Op : TtlPasses(n))
    BY <1>1, <2>1, NothingFails DEF Drop, TtlPasses
  <2>7. ASSUME UNCHANGED <<op, req, pool, vault, ledger, expired, returned, stray>>
        PROVE  (OnceInv /\ OneAtWork)'
    <3>1. \A n \in Op : /\ (OnceAt(n)' <=> OnceAt(n)) /\ (Settled(n)' <=> Settled(n))
                         /\ (Balanced(n)' <=> Balanced(n)) /\ (Ready(n)' <=> Ready(n))
      BY <2>7 DEF OnceAt, RequestAt, MayFly, Settled, Balanced, ToReceive, LedgerAfter, ToDebit,
                  ToCredit, Ready, Unspent, One, Flying
    <3>2. QED  BY <2>2, <2>7, <3>1 DEF OnceInv, OneAtWork
  <2>8. CASE Reload \/ UNCHANGED <<ledgerVars, faults>>
    BY <2>7, <2>8 DEF Reload, ledgerVars
  <2>9. QED
    BY <2>3, <2>4, <2>5, <2>6, <2>8 DEF LedgerNext, ClientStep, RouteStep
<1>5. QED
  BY <1>2, <1>3, <1>4 DEF ExactInv

LEMMA ExactInvImplies == ExactInv => LedgerExact /\ LedgerTypeOK
<1> SUFFICES ASSUME ExactInv PROVE LedgerExact /\ LedgerTypeOK
  OBVIOUS
<1>1. TypesInv
  BY DEF ExactInv
<1>2. ASSUME Calm, \A n \in Op : Settled(n)
      PROVE  LET untracked == vault.balance - Activation - ledger.vault
             IN  0 <= untracked /\ untracked <= Cardinality(returned) + stray
  BY <1>1, <1>2, AllSettled DEF ExactInv
<1>3. QED
  BY <1>1, <1>2 DEF LedgerExact, Calm, TypesInv
=============================================================================
