---------------------------- MODULE BackendWallet ----------------------------
(***************************************************************************)
(* The backend's TON wallet (scheduler/walletService.ts).  The API server  *)
(* and the scheduler service are two processes with a wallet mutex each;   *)
(* both sign with the same key.  sendInternalMessage reads the wallet's    *)
(* seqno, broadcasts a message for it and returns: it does not wait for    *)
(* the message to be included, so the next send may read the same seqno,   *)
(* and then the chain includes one of the two and drops the other.         *)
(***************************************************************************)
EXTENDS Integers

CONSTANTS
    Process,        \* the services that share the wallet
    NoSeqno

WalletAssumption == NoSeqno \notin Nat

VARIABLES
    walletSeqno,    \* the seqno the wallet contract expects next
    readSeqno,      \* process -> what getSeqno returned to the holder of its mutex
    mempool         \* broadcast and not yet included: [seqno, msg]

walletVars == <<walletSeqno, readSeqno, mempool>>

WalletInit ==
    /\ walletSeqno = 0
    /\ readSeqno = [p \in Process |-> NoSeqno]
    /\ mempool = {}

GetSeqno(p) ==
    /\ readSeqno[p] = NoSeqno               \* the mutex is free
    /\ readSeqno' = [readSeqno EXCEPT ![p] = walletSeqno]
    /\ UNCHANGED <<walletSeqno, mempool>>

(* The mutex is released whether sendTransfer returns or throws; a call     *)
(* that throws may have reached the network.                                *)
SendTransfer(p, msg, reached) ==
    /\ readSeqno[p] # NoSeqno
    /\ mempool' = IF reached
                  THEN mempool \cup {[seqno |-> readSeqno[p], msg |-> msg]}
                  ELSE mempool
    /\ readSeqno' = [readSeqno EXCEPT ![p] = NoSeqno]
    /\ UNCHANGED walletSeqno

(* The wallet contract: only the expected seqno is accepted, and it takes   *)
(* every other message for that seqno, or an older one, out of the running. *)
Included(e) ==
    /\ e \in mempool
    /\ e.seqno = walletSeqno
    /\ walletSeqno' = walletSeqno + 1
    /\ mempool' = {x \in mempool : x.seqno > walletSeqno}
    /\ UNCHANGED readSeqno

(* A process dies while it holds its mutex.                                 *)
WalletCrash(p) ==
    /\ readSeqno' = [readSeqno EXCEPT ![p] = NoSeqno]
    /\ UNCHANGED <<walletSeqno, mempool>>
=============================================================================
