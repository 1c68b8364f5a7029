------------------------- MODULE RoostaVaultProofs -------------------------
(***************************************************************************)
(* Theorems about RoostaVault for every value of its constants.            *)
(*                                                                         *)
(* The replay argument: an executed intent is behind the seqno of a live   *)
(* account, or it has expired.  Only a removal of the account could undo   *)
(* the first, and the network removes an account only when its last debit  *)
(* is older than any intent that debit could have executed stays valid.    *)
(***************************************************************************)
EXTENDS RoostaVault, TLAPS

(* The clock bounds what is on record.                                      *)
ClockInv ==
    /\ \A v \in Vault : touchedAt[v] <= now
    /\ \A i \in signed : i.validUntil <= now + TtlSec

(* An executed intent was signed, for the vault that executed it, ran while *)
(* it was valid, and can not be accepted again.                             *)
Spent(i) == now > i.validUntil \/ (deployed[i.vault] /\ i.seqno < seqno[i.vault])
ExecutedInv ==
    \A n \in Executions :
        LET i == events[n].intent
        IN  /\ i \in signed
            /\ events[n].vault = i.vault
            /\ i.validUntil <= touchedAt[i.vault] + TtlSec
            /\ Spent(i)

(* What a vault that was never swept keeps: its account, and the money the  *)
(* client counted on when it read or signed on the current seqno.           *)
Untouched(v) ==
    /\ ~seen[v].deployed
    /\ \A i \in signed : i.vault # v
    /\ \A n \in Executions : events[n].vault # v
Covered(v) ==
    /\ balance[v] > 0
    /\ seen[v].deployed =>
        /\ seen[v].seqno <= seqno[v]
        /\ seen[v].seqno = seqno[v] => seen[v].balance <= balance[v]
    /\ \A i \in signed : i.vault = v =>
        /\ i.seqno <= seqno[v]
        /\ i.seqno = seqno[v] => i.amount <= balance[v] - SELF_KEEP
    /\ \A n \in Executions : events[n].vault = v => events[n].intent.seqno < seqno[v]
UnsweptInv ==
    \A v \in Vault : ~Swept(v) =>
        /\ deployed[v] => Covered(v)
        /\ ~deployed[v] => Untouched(v)

IInv ==
    /\ TypeOK
    /\ ClockInv
    /\ ExecutedInv
    /\ UnsweptInv
    /\ IntentsExecuteOnce
    /\ OneIntentPerSeqno

-----------------------------------------------------------------------------
(* Events *)

(* What an appended event changes: nothing before it.                       *)
LEMMA AppendEvent ==
    ASSUME TypeOK, NEW e \in Event, events' = Append(events, e)
    PROVE  /\ events' \in Seq(Event)
           /\ DOMAIN events' = DOMAIN events \cup {Len(events) + 1}
           /\ Len(events) + 1 \notin DOMAIN events
           /\ \A n \in DOMAIN events : events'[n] = events[n]
           /\ events'[Len(events) + 1] = e
BY DEF TypeOK

LEMMA ExecutedType ==
    ASSUME TypeOK, NEW n \in Executions
    PROVE  /\ n \in DOMAIN events
           /\ events[n].vault \in Vault
           /\ events[n].intent \in Intent
BY DEF TypeOK, Executions, Event

LEMMA ExecutedEvent ==
    ASSUME NEW i \in Intent
    PROVE  /\ VaultExecuted(i) \in Event
           /\ VaultExecuted(i).type = "VaultExecuted"
           /\ VaultExecuted(i).vault = i.vault
           /\ VaultExecuted(i).intent = i
BY DEF VaultExecuted, Event, Intent

LEMMA WithdrawnEvent ==
    ASSUME NEW v \in Vault
    PROVE  /\ VaultWithdrawn(v) \in Event
           /\ VaultWithdrawn(v).type = "VaultWithdrawn"
           /\ VaultWithdrawn(v).vault = v
BY DEF VaultWithdrawn, Event

-----------------------------------------------------------------------------
(* The transactions and the client, one lemma per action *)

(* A deposit only adds to the balance.                                      *)
LEMMA FundStep ==
    ASSUME IInv, NEW v \in Vault, NEW a \in Deposit, Fund(v, a)
    PROVE  IInv'
<1> USE VaultAssumption, NetworkAssumption
<1>1. a - TxFee \in Nat /\ a - TxFee > 0
    OBVIOUS
<1>2. /\ \A u \in Vault : balance[u] \in Nat /\ balance'[u] \in Nat /\ balance'[u] >= balance[u]
      /\ balance' \in [Vault -> Nat]
    BY <1>1 DEF IInv, TypeOK, Fund
<1>3. TypeOK'
    BY <1>2 DEF IInv, TypeOK, Fund
<1>4. ClockInv' /\ ExecutedInv' /\ IntentsExecuteOnce'
    BY DEF IInv, Fund, ClockInv, ExecutedInv, IntentsExecuteOnce, Executions, Spent
<1>5. OneIntentPerSeqno'
    BY DEF IInv, Fund, OneIntentPerSeqno, Executions, Swept
<1>6. ASSUME NEW u \in Vault, ~Swept(u), deployed[u]
      PROVE  Covered(u)'
    <2>1. Covered(u)
        BY <1>6 DEF IInv, UnsweptInv
    <2>2. \A i \in signed : i \in Intent /\ i.amount \in Nat
        BY DEF IInv, TypeOK, Intent
    <2>3. seen[u].balance \in Nat
        BY DEF IInv, TypeOK
    <2> QED BY <1>2, <2>1, <2>2, <2>3 DEF Covered, Fund, Executions
<1>7. UnsweptInv'
    BY <1>6 DEF IInv, UnsweptInv, Untouched, Fund, Executions, Swept
<1> QED BY <1>3, <1>4, <1>5, <1>7 DEF IInv

(* A deployment starts over at seqno 0, so it must find every executed      *)
(* intent expired: on a removed account Spent says exactly that.            *)
LEMMA DeployStep ==
    ASSUME IInv, NEW v \in Vault, NEW a \in Deposit, Deploy(v, a)
    PROVE  IInv'
<1> USE VaultAssumption, NetworkAssumption
<1>1. a - TxFee \in Nat /\ a - TxFee > 0
    OBVIOUS
<1>2. TypeOK'
    BY <1>1 DEF IInv, TypeOK, Deploy
<1>3. ClockInv' /\ IntentsExecuteOnce'
    BY DEF IInv, Deploy, ClockInv, IntentsExecuteOnce, Executions
<1>4. OneIntentPerSeqno'
    BY DEF IInv, Deploy, OneIntentPerSeqno, Executions, Swept
<1>5. ASSUME NEW n \in Executions, NEW i, i = events[n].intent, Spent(i)
      PROVE  Spent(i)'
    <2>1. i \in Intent /\ i.vault \in Vault
        BY <1>5, ExecutedType DEF IInv, Intent
    <2> QED BY <1>5, <2>1 DEF IInv, TypeOK, Spent, Deploy
<1>6. ExecutedInv'
    BY <1>5 DEF IInv, ExecutedInv, Executions, Deploy
<1>7. ASSUME NEW u \in Vault, ~Swept(u)
      PROVE  (deployed'[u] => Covered(u)') /\ (~deployed'[u] => Untouched(u)')
    <2>1. CASE u = v
        <3>1. Untouched(u) /\ deployed'[u] /\ balance'[u] > 0
            BY <1>1, <1>7, <2>1 DEF IInv, TypeOK, UnsweptInv, Deploy
        <3> QED BY <3>1 DEF Untouched, Covered, Deploy, Executions
    <2>2. CASE u # v
        BY <1>7, <2>2 DEF IInv, TypeOK, UnsweptInv, Untouched, Covered, Deploy, Executions
    <2> QED BY <2>1, <2>2
<1>8. UnsweptInv'
    BY <1>7 DEF UnsweptInv, Deploy, Swept
<1> QED BY <1>2, <1>3, <1>4, <1>6, <1>8 DEF IInv

(* An accepted intent is on the current seqno and not expired, so it is     *)
(* none of the spent ones; its execution makes it spent.                    *)
LEMMA VaultExecuteStep ==
    ASSUME IInv, NEW v \in Vault, NEW i \in signed, NEW gas \in RelayerGas,
           VaultExecute(v, i, gas)
    PROVE  IInv'
<1>0. /\ deployed[v] /\ deployed' = deployed
      /\ seqno' = [seqno EXCEPT ![v] = seqno[v] + 1]
      /\ balance' = [balance EXCEPT ![v] = balance[v] + gas - TxFee - i.amount]
      /\ i.amount <= balance[v] + gas - SELF_KEEP
      /\ touchedAt' = [touchedAt EXCEPT ![v] = now]
      /\ seen' = seen /\ signed' = signed /\ now' = now
    BY DEF VaultExecute
<1> DEFINE e == VaultExecuted(i)
           last == Len(events) + 1
           SpentNext(j) ==
               now' > j.validUntil \/ (deployed'[j.vault] /\ j.seqno < seqno'[j.vault])
           SweptNext(u) ==
               \E n \in DOMAIN events' :
                   events'[n].type = "VaultWithdrawn" /\ events'[n].vault = u
<1>1. i \in Intent /\ i.vault = v /\ i.seqno = seqno[v] /\ now <= i.validUntil
    BY DEF IInv, TypeOK, VaultExecute, SignatureHolds
<1>2. /\ i.amount \in Nat /\ i.seqno \in Nat /\ i.validUntil \in Nat
      /\ balance[v] \in Nat /\ gas \in Nat /\ now \in Nat
    BY <1>1, VaultAssumption DEF IInv, TypeOK, Intent
<1>3. /\ balance'[v] = balance[v] + gas - TxFee - i.amount
      /\ balance'[v] \in Nat
      /\ balance'[v] > 0
      /\ balance' \in [Vault -> Nat]
    <2> DEFINE b == balance[v] + gas - TxFee - i.amount
    <2>1. b \in Nat /\ b > 0
        BY <1>0, <1>2, VaultAssumption, NetworkAssumption
    <2>2. balance \in [Vault -> Nat] /\ balance' = [balance EXCEPT ![v] = b]
        BY <1>0 DEF IInv, TypeOK
    <2> HIDE DEF b
    <2>3. balance'[v] = b /\ balance' \in [Vault -> Nat]
        BY <2>1, <2>2
    <2> QED BY <2>1, <2>3 DEF b
<1>4. /\ e \in Event /\ e.type = "VaultExecuted" /\ e.vault = v /\ e.intent = i
    BY <1>1, ExecutedEvent
<1>5. /\ events' \in Seq(Event)
      /\ DOMAIN events' = DOMAIN events \cup {last}
      /\ last \notin DOMAIN events
      /\ \A n \in DOMAIN events : events'[n] = events[n]
      /\ events'[last] = e
    BY <1>4, AppendEvent DEF IInv, VaultExecute
<1> HIDE DEF e, last
<1>6. Executions' = Executions \cup {last} /\ Executions \subseteq DOMAIN events
    BY <1>4, <1>5 DEF Executions
<1>7. \A u : SweptNext(u) <=> Swept(u)
    BY <1>4, <1>5 DEF Swept
<1>8. TypeOK'
    <2>1. seqno' \in [Vault -> Nat] /\ touchedAt' \in [Vault -> Nat]
        BY <1>0, <1>2 DEF IInv, TypeOK
    <2> QED BY <1>0, <1>3, <1>5, <2>1 DEF IInv, TypeOK
<1>u. deployed' = deployed /\ deployed[v] /\ seen' = seen /\ signed' = signed /\ now' = now
    BY <1>0
<1>t. \A u \in Vault :
        /\ seqno'[u] = (IF u = v THEN seqno[v] + 1 ELSE seqno[u])
        /\ touchedAt'[u] = (IF u = v THEN now ELSE touchedAt[u])
        /\ u # v => balance'[u] = balance[u]
        /\ seqno[u] \in Nat /\ touchedAt[u] \in Nat /\ touchedAt[u] <= now
    BY <1>0 DEF IInv, TypeOK, ClockInv
<1>9. ClockInv'
    <2>1. \A u \in Vault : touchedAt'[u] <= now'
        BY <1>2, <1>u, <1>t
    <2>2. \A j \in signed' : j.validUntil <= now' + TtlSec
        BY <1>u DEF IInv, ClockInv
    <2> QED BY <2>1, <2>2 DEF ClockInv
<1>10. ~\E n \in Executions : events[n].intent = i
    <2>1. ~Spent(i)
        BY <1>u, <1>t, <1>1, <1>2 DEF Spent
    <2> QED BY <1>u, <1>t, <2>1 DEF IInv, ExecutedInv
<1>11. IntentsExecuteOnce'
    BY <1>u, <1>t, <1>4, <1>5, <1>6, <1>10 DEF IInv, IntentsExecuteOnce
<1>12. ASSUME NEW n \in Executions', NEW j, j = events'[n].intent
       PROVE  /\ j \in signed'
              /\ events'[n].vault = j.vault
              /\ j.validUntil <= touchedAt'[j.vault] + TtlSec
              /\ SpentNext(j)
    <2>1. CASE n = last
        <3>1. j = i /\ events'[n].vault = v
            BY <1>4, <1>5, <1>12, <2>1
        <3>2. i.validUntil <= now + TtlSec /\ touchedAt'[v] = now
            BY <1>t DEF IInv, ClockInv
        <3>3. i.seqno < seqno'[v]
            BY <1>t, <1>1, <1>2
        <3> QED BY <1>u, <1>1, <3>1, <3>2, <3>3
    <2>2. CASE n \in Executions
        <3>1. j = events[n].intent /\ events'[n] = events[n]
            BY <1>5, <1>6, <1>12, <2>2
        <3>2. /\ j \in Intent /\ j.vault \in Vault
              /\ j.seqno \in Nat /\ j.validUntil \in Nat
            BY <2>2, <3>1, ExecutedType DEF IInv, Intent
        <3>3. /\ j \in signed /\ events[n].vault = j.vault
              /\ j.validUntil <= touchedAt[j.vault] + TtlSec
              /\ Spent(j)
            BY <2>2, <3>1 DEF IInv, ExecutedInv
        <3>4. /\ touchedAt[j.vault] <= touchedAt'[j.vault]
              /\ seqno[j.vault] <= seqno'[j.vault]
              /\ touchedAt[j.vault] \in Nat /\ touchedAt'[j.vault] \in Nat
              /\ seqno[j.vault] \in Nat /\ seqno'[j.vault] \in Nat
            BY <1>t, <1>2, <3>2
        <3>5. SpentNext(j)
            BY <1>u, <3>2, <3>3, <3>4 DEF Spent
        <3>6. j.validUntil <= touchedAt'[j.vault] + TtlSec
            BY <3>2, <3>3, <3>4, VaultAssumption
        <3> QED BY <1>u, <3>1, <3>3, <3>5, <3>6
    <2> QED BY <1>6, <2>1, <2>2
<1>13. ExecutedInv'
    BY <1>12 DEF ExecutedInv, Spent
<1>14. ASSUME NEW n \in Executions, events[n].intent.vault = v, ~Swept(v)
       PROVE  events[n].intent.seqno < seqno[v]
    <2>1. events[n].vault = v
        BY <1>u, <1>t, <1>14 DEF IInv, ExecutedInv
    <2>2. Covered(v)
        BY <1>u, <1>t, <1>14 DEF IInv, UnsweptInv
    <2> QED BY <1>u, <1>t, <1>14, <2>1, <2>2 DEF Covered
<1>15. ASSUME NEW n \in Executions, ~Swept(v)
       PROVE  ~(events[n].intent.vault = v /\ events[n].intent.seqno = i.seqno)
    <2>1. events[n].intent.seqno \in Nat /\ seqno[v] \in Nat
        BY <1>u, <1>t, ExecutedType DEF IInv, TypeOK, Intent
    <2> QED BY <1>u, <1>t, <1>1, <1>14, <1>15, <2>1
<1>16. ASSUME NEW m \in Executions', NEW n \in Executions', NEW u \in Vault,
              u = events'[m].intent.vault,
              u = events'[n].intent.vault,
              events'[m].intent.seqno = events'[n].intent.seqno,
              ~Swept(u)
       PROVE  m = n
    <2>1. \A k \in Executions : events'[k] = events[k]
        BY <1>5, <1>6
    <2>2. events'[last].intent = i
        BY <1>4, <1>5
    <2>4. CASE m \in Executions /\ n \in Executions
        BY <1>16, <2>1, <2>4 DEF IInv, OneIntentPerSeqno
    <2>5. CASE m = last /\ n \in Executions
        BY <1>1, <1>15, <1>16, <2>1, <2>2, <2>5
    <2>6. CASE m \in Executions /\ n = last
        BY <1>1, <1>15, <1>16, <2>1, <2>2, <2>6
    <2> QED BY <1>6, <2>4, <2>5, <2>6
<1>17. OneIntentPerSeqno'
    <2>1. \A m \in Executions' : events'[m].intent.vault \in Vault
        <3>1. events'[last].intent.vault \in Vault
            BY <1>1, <1>4, <1>5
        <3>2. \A k \in Executions : events'[k].intent.vault \in Vault
            BY <1>5, <1>6, ExecutedType DEF IInv, Intent
        <3> QED BY <1>6, <3>1, <3>2
    <2> QED BY <1>7, <1>12, <1>16, <2>1 DEF OneIntentPerSeqno, Swept
<1>18. ASSUME NEW u \in Vault, ~Swept(u)
       PROVE  (deployed'[u] => Covered(u)') /\ (~deployed'[u] => Untouched(u)')
    <2>1. CASE u = v
        <3>1. Covered(v)
            BY <1>u, <1>t, <1>18, <2>1 DEF IInv, UnsweptInv
        <3>2. seqno'[v] = seqno[v] + 1 /\ seqno[v] \in Nat
            BY <1>u, <1>t DEF IInv, TypeOK
        <3>3. \A j \in signed : j.seqno \in Nat
            BY <1>u, <1>t DEF IInv, TypeOK, Intent
        <3>4. seen[v].seqno \in Nat
            BY <1>u, <1>t DEF IInv, TypeOK
        <3>5. seen'[v].deployed => seen'[v].seqno < seqno'[v]
            BY <1>u, <1>t, <3>1, <3>2, <3>4 DEF Covered
        <3>6. \A j \in signed' : j.vault = v => j.seqno < seqno'[v]
            BY <1>u, <1>t, <3>1, <3>2, <3>3 DEF Covered
        <3>7. ASSUME NEW n \in Executions', events'[n].vault = v
              PROVE  events'[n].intent.seqno < seqno'[v]
            <4>1. CASE n = last
                BY <1>u, <1>t, <1>1, <1>4, <1>5, <3>2, <4>1
            <4>2. CASE n \in Executions
                <5>1. events'[n] = events[n] /\ events[n].intent.seqno \in Nat
                    BY <1>u, <1>t, <1>5, <1>6, <4>2, ExecutedType DEF IInv, Intent
                <5>2. events[n].intent.seqno < seqno[v]
                    BY <1>u, <1>t, <3>1, <3>7, <4>2, <5>1 DEF Covered
                <5> QED BY <1>u, <1>t, <3>2, <5>1, <5>2
            <4> QED BY <1>u, <1>t, <1>6, <4>1, <4>2
        <3>8. /\ \A j \in signed' : j.seqno \in Nat
              /\ seen'[v].seqno \in Nat /\ seqno'[v] \in Nat
            BY <1>u, <1>t, <1>8, <3>3 DEF TypeOK
        <3>9. Covered(v)'
            BY <1>u, <1>t, <1>3, <3>5, <3>6, <3>7, <3>8 DEF Covered
        <3> QED BY <1>u, <1>t, <2>1, <3>9
    <2>2. CASE u # v
        <3>1. balance'[u] = balance[u] /\ seqno'[u] = seqno[u]
            BY <1>u, <1>t, <2>2 DEF IInv, TypeOK
        <3>2. \A n \in Executions' : events'[n].vault = u => n \in Executions /\ events'[n] = events[n]
            BY <1>u, <1>t, <1>4, <1>5, <1>6, <2>2
        <3>3. Covered(u) => Covered(u)'
            BY <1>u, <1>t, <3>1, <3>2 DEF Covered
        <3>4. Untouched(u) => Untouched(u)'
            BY <1>u, <1>t, <3>2 DEF Untouched
        <3> QED BY <1>u, <1>t, <1>18, <3>3, <3>4 DEF IInv, UnsweptInv
    <2> QED BY <1>u, <1>t, <2>1, <2>2
<1>19. UnsweptInv'
    BY <1>7, <1>18 DEF UnsweptInv, Swept
<1> QED BY <1>u, <1>t, <1>8, <1>9, <1>11, <1>13, <1>17, <1>19 DEF IInv

(* A sweep is on record from then on, and executes nothing.                 *)
LEMMA OwnerWithdrawStep ==
    ASSUME IInv, NEW v \in Vault, OwnerWithdraw(v)
    PROVE  IInv'
<1> DEFINE e == VaultWithdrawn(v)
           last == Len(events) + 1
<1>1. e \in Event /\ e.type = "VaultWithdrawn" /\ e.vault = v
    BY WithdrawnEvent
<1>2. /\ events' \in Seq(Event)
      /\ DOMAIN events' = DOMAIN events \cup {last}
      /\ last \notin DOMAIN events
      /\ \A n \in DOMAIN events : events'[n] = events[n]
      /\ events'[last] = e
    BY <1>1, AppendEvent DEF IInv, OwnerWithdraw
<1> HIDE DEF e, last
<1>3. /\ Executions' = Executions
      /\ \A n \in Executions : events'[n] = events[n]
    BY <1>1, <1>2 DEF Executions
<1>4. Swept(v)' /\ \A u : Swept(u) => Swept(u)'
    BY <1>1, <1>2 DEF Swept
<1>5. TypeOK'
    BY <1>2 DEF IInv, TypeOK, OwnerWithdraw
<1>6. ClockInv'
    <2>1. \A u \in Vault : touchedAt'[u] <= now'
        BY DEF IInv, TypeOK, OwnerWithdraw, ClockInv
    <2> QED BY <2>1 DEF IInv, ClockInv, OwnerWithdraw
<1>7. IntentsExecuteOnce'
    BY <1>3 DEF IInv, IntentsExecuteOnce
<1>13. OneIntentPerSeqno'
    <2>1. ASSUME NEW u, ~\E n \in DOMAIN events' :
                            events'[n].type = "VaultWithdrawn" /\ events'[n].vault = u
          PROVE  ~Swept(u)
        BY <1>2, <2>1 DEF Swept
    <2>2. ASSUME NEW m \in Executions, NEW n \in Executions
          PROVE  /\ events[m].intent \in signed'
                 /\ events[m].vault = events[m].intent.vault
                 /\ (/\ events[m].intent.vault = events[n].intent.vault
                     /\ events[m].intent.seqno = events[n].intent.seqno
                     /\ ~Swept(events[m].intent.vault)) => m = n
        BY <2>2 DEF IInv, OwnerWithdraw, OneIntentPerSeqno
    <2> QED BY <1>3, <2>1, <2>2 DEF OneIntentPerSeqno, Swept
<1>8. \A u \in Vault : touchedAt[u] \in Nat /\ touchedAt'[u] \in Nat /\ touchedAt[u] <= touchedAt'[u]
    BY DEF IInv, TypeOK, ClockInv, OwnerWithdraw
<1>9. ASSUME NEW n \in Executions
      PROVE  events[n].intent.validUntil <= touchedAt'[events[n].intent.vault] + TtlSec
    <2>1. /\ events[n].intent.validUntil \in Nat
          /\ events[n].intent.vault \in Vault
        BY ExecutedType DEF IInv, Intent
    <2>2. events[n].intent.validUntil <= touchedAt[events[n].intent.vault] + TtlSec
        BY DEF IInv, ExecutedInv
    <2> QED BY <1>8, <2>1, <2>2, VaultAssumption
<1>10. ExecutedInv'
    BY <1>3, <1>9 DEF IInv, ExecutedInv, Spent, OwnerWithdraw
<1>11. ASSUME NEW u \in Vault, ~Swept(u)'
       PROVE  (deployed'[u] => Covered(u)') /\ (~deployed'[u] => Untouched(u)')
    <2>1. u # v /\ ~Swept(u)
        BY <1>4, <1>11
    <2>2. balance'[u] = balance[u]
        BY <2>1 DEF IInv, TypeOK, OwnerWithdraw
    <2> QED BY <1>3, <2>1, <2>2 DEF IInv, UnsweptInv, Covered, Untouched, OwnerWithdraw
<1>12. UnsweptInv'
    BY <1>11 DEF UnsweptInv
<1> QED BY <1>5, <1>6, <1>7, <1>10, <1>12, <1>13 DEF IInv

(* The network waits longer than any executed intent stays valid.           *)
LEMMA RemoveStep ==
    ASSUME IInv, NEW v \in Vault, Remove(v)
    PROVE  IInv'
<1> USE VaultAssumption, NetworkAssumption
<1>1. TypeOK' /\ ClockInv' /\ IntentsExecuteOnce' /\ OneIntentPerSeqno'
    BY DEF IInv, TypeOK, ClockInv, IntentsExecuteOnce, OneIntentPerSeqno,
           Executions, Swept, Remove
<1>2. Swept(v)
    BY DEF IInv, UnsweptInv, Covered, Remove
<1>3. ASSUME NEW n \in Executions
      PROVE  Spent(events[n].intent)'
    <2> DEFINE j == events[n].intent
    <2>1. j \in Intent /\ j.vault \in Vault /\ j.validUntil \in Nat
        BY ExecutedType DEF IInv, Intent
    <2>2. Spent(j) /\ j.validUntil <= touchedAt[j.vault] + TtlSec
        BY DEF IInv, ExecutedInv
    <2>3. CASE j.vault = v
        <3>1. now >= touchedAt[v] + StorageTerm /\ now \in Nat /\ touchedAt[v] \in Nat
            BY DEF IInv, TypeOK, Remove
        <3> QED BY <2>1, <2>2, <2>3, <3>1 DEF Spent, Remove
    <2>4. CASE j.vault # v
        BY <2>1, <2>2, <2>4 DEF Spent, Remove, IInv, TypeOK
    <2> QED BY <2>3, <2>4
<1>4. ExecutedInv'
    BY <1>3 DEF IInv, ExecutedInv, Executions, Remove
<1>5. ASSUME NEW u \in Vault, ~Swept(u)
      PROVE  (deployed'[u] => Covered(u)') /\ (~deployed'[u] => Untouched(u)')
    <2>1. u # v
        BY <1>2, <1>5
    <2> QED BY <1>5, <2>1 DEF IInv, TypeOK, UnsweptInv, Covered, Untouched, Executions, Remove
<1>6. UnsweptInv'
    BY <1>5 DEF UnsweptInv, Swept, Remove
<1> QED BY <1>1, <1>4, <1>6 DEF IInv

(* A read brings the client up to date with the account as it is.           *)
LEMMA FetchStep ==
    ASSUME IInv, NEW v \in Vault, FetchVaultState(v)
    PROVE  IInv'
<1>1. /\ deployed' = deployed /\ seqno' = seqno /\ balance' = balance
      /\ touchedAt' = touchedAt /\ signed' = signed /\ events' = events /\ now' = now
      /\ \A u \in Vault : u # v => seen'[u] = seen[u]
      /\ seen'[v].deployed = deployed[v]
      /\ deployed[v] => seen'[v].seqno = seqno[v] /\ seen'[v].balance = balance[v]
    BY DEF FetchVaultState, IInv, TypeOK
<1>2. TypeOK'
    BY DEF FetchVaultState, IInv, TypeOK
<1>3. ClockInv' /\ ExecutedInv' /\ IntentsExecuteOnce'
    BY <1>1 DEF IInv, ClockInv, ExecutedInv, IntentsExecuteOnce, Executions, Spent
<1>4. OneIntentPerSeqno'
    BY <1>1 DEF IInv, OneIntentPerSeqno, Executions, Swept
<1>5. ASSUME NEW u \in Vault, ~Swept(u)
      PROVE  (deployed[u] => Covered(u)') /\ (~deployed[u] => Untouched(u)')
    <2>1. seqno[u] \in Nat /\ balance[u] \in Nat
        BY DEF IInv, TypeOK
    <2>2. CASE u = v
        BY <1>1, <1>5, <2>1, <2>2 DEF IInv, UnsweptInv, Covered, Untouched, Executions
    <2>3. CASE u # v
        BY <1>1, <1>5, <2>3 DEF IInv, UnsweptInv, Covered, Untouched, Executions
    <2> QED BY <2>2, <2>3
<1>6. UnsweptInv'
    BY <1>1, <1>5 DEF UnsweptInv, Swept
<1> QED BY <1>2, <1>3, <1>4, <1>6 DEF IInv

(* The client signs on what it read, which an unswept vault still covers.   *)
LEMMA SignStep ==
    ASSUME IInv, NEW v \in Vault, NEW t \in Target, NEW a \in Amount, Sign(v, t, a)
    PROVE  IInv'
<1> DEFINE new == [vault |-> v, seqno |-> seen[v].seqno, validUntil |-> now + TtlSec,
                   target |-> t, amount |-> a]
<1>1. /\ signed' = signed \cup {new}
      /\ deployed' = deployed /\ seqno' = seqno /\ balance' = balance
      /\ touchedAt' = touchedAt /\ seen' = seen /\ events' = events /\ now' = now
      /\ seen[v].deployed
      /\ a <= seen[v].balance - VAULT_MIN_GAS
    BY DEF Sign
<1>2. /\ a \in Nat /\ now \in Nat
      /\ seen[v].seqno \in Nat /\ seen[v].balance \in Nat
    BY VaultAssumption DEF IInv, TypeOK
<1>3. new \in Intent
    BY <1>2, VaultAssumption DEF Intent
<1>4. /\ new.vault = v /\ new.seqno = seen[v].seqno
      /\ new.validUntil = now + TtlSec /\ new.amount = a
    OBVIOUS
<1> HIDE DEF new
<1>5. TypeOK'
    BY <1>1, <1>3 DEF IInv, TypeOK
<1>6. ClockInv'
    BY <1>1, <1>2, <1>4, VaultAssumption DEF IInv, ClockInv
<1>7. ExecutedInv' /\ IntentsExecuteOnce'
    BY <1>1 DEF IInv, ExecutedInv, IntentsExecuteOnce, Executions, Spent
<1>8. OneIntentPerSeqno'
    BY <1>1 DEF IInv, OneIntentPerSeqno, Executions, Swept
<1>9. ASSUME NEW u \in Vault, ~Swept(u)
      PROVE  (deployed[u] => Covered(u)') /\ (~deployed[u] => Untouched(u)')
    <2>1. CASE u = v
        <3>1. deployed[v] /\ Covered(v)
            BY <1>1, <1>9, <2>1 DEF IInv, UnsweptInv, Untouched
        <3>2. new.seqno <= seqno[v]
            BY <1>1, <1>4, <3>1 DEF Covered
        <3>3. new.seqno = seqno[v] => new.amount <= balance[v] - SELF_KEEP
            <4>1. balance[v] \in Nat
                BY DEF IInv, TypeOK
            <4> QED BY <1>1, <1>2, <1>4, <3>1, <4>1, VaultAssumption, NetworkAssumption DEF Covered
        <3> QED BY <1>1, <2>1, <3>1, <3>2, <3>3 DEF Covered, Executions
    <2>2. CASE u # v
        <3>1. Covered(u) => Covered(u)'
            BY <1>1, <1>4, <2>2 DEF Covered, Executions
        <3>2. Untouched(u) => Untouched(u)'
            BY <1>1, <1>4, <2>2 DEF Untouched, Executions
        <3> QED BY <1>9, <3>1, <3>2 DEF IInv, UnsweptInv
    <2> QED BY <2>1, <2>2
<1>10. UnsweptInv'
    BY <1>1, <1>9 DEF UnsweptInv, Swept
<1> QED BY <1>5, <1>6, <1>7, <1>8, <1>10 DEF IInv

LEMMA TickStep ==
    ASSUME IInv, Tick
    PROVE  IInv'
<1>1. /\ now' = now + 1 /\ now \in Nat
      /\ deployed' = deployed /\ seqno' = seqno /\ balance' = balance
      /\ touchedAt' = touchedAt /\ seen' = seen /\ signed' = signed /\ events' = events
    BY DEF Tick, IInv, TypeOK
<1>2. TypeOK' /\ IntentsExecuteOnce'
    BY <1>1 DEF IInv, TypeOK, IntentsExecuteOnce, Executions
<1>3. ClockInv'
    <2>1. \A i \in signed : i.validUntil \in Nat
        BY DEF IInv, TypeOK, Intent
    <2>2. \A u \in Vault : touchedAt[u] \in Nat
        BY DEF IInv, TypeOK
    <2> QED BY <1>1, <2>1, <2>2, VaultAssumption DEF IInv, ClockInv
<1>4. ExecutedInv'
    <2>1. \A n \in Executions : events[n].intent.validUntil \in Nat
        BY ExecutedType DEF IInv, Intent
    <2> QED BY <1>1, <2>1 DEF IInv, ExecutedInv, Executions, Spent
<1>5. OneIntentPerSeqno' /\ UnsweptInv'
    BY <1>1 DEF IInv, OneIntentPerSeqno, UnsweptInv, Covered, Untouched, Executions, Swept
<1> QED BY <1>2, <1>3, <1>4, <1>5 DEF IInv

-----------------------------------------------------------------------------
(* The theorems *)

LEMMA InitIInv == Init => IInv
<1> SUFFICES ASSUME Init PROVE IInv
    OBVIOUS
<1>1. DOMAIN events = {} /\ events \in Seq(Event)
    BY DEF Init
<1>2. TypeOK
    BY <1>1 DEF Init, TypeOK
<1> QED BY <1>1, <1>2 DEF Init, IInv, ClockInv, ExecutedInv, UnsweptInv, Untouched,
        IntentsExecuteOnce, OneIntentPerSeqno, Executions

LEMMA StepIInv == IInv /\ [Next]_vars => IInv'
<1> SUFFICES ASSUME IInv, [Next]_vars PROVE IInv'
    OBVIOUS
<1>1. CASE UNCHANGED vars
    BY <1>1 DEF vars, IInv, TypeOK, ClockInv, ExecutedInv, UnsweptInv, Covered, Untouched,
        IntentsExecuteOnce, OneIntentPerSeqno, Executions, Swept, Spent
<1>2. CASE Next
    BY <1>2, FundStep, DeployStep, VaultExecuteStep, OwnerWithdrawStep, RemoveStep,
       FetchStep, SignStep, TickStep DEF Next
<1> QED BY <1>1, <1>2

LEMMA InvariantTheorem == Spec => []IInv
BY InitIInv, StepIInv, PTL DEF Spec

(* The variables of vaults and clients keep to their ranges; no balance is  *)
(* ever negative.                                                           *)
THEOREM VaultTypeCorrect == Spec => []TypeOK
<1>1. IInv => TypeOK
    BY DEF IInv
<1> QED BY <1>1, InvariantTheorem, PTL

(* No intent is executed twice, whatever relayers do, on any number of      *)
(* vaults and across any number of redeployments.                           *)
THEOREM NoReplay == Spec => []IntentsExecuteOnce
<1>1. IInv => IntentsExecuteOnce
    BY DEF IInv
<1> QED BY <1>1, InvariantTheorem, PTL

(* Only signed intents of the vault's own are executed, and one per seqno.  *)
THEOREM OnePerSeqno == Spec => []OneIntentPerSeqno
<1>1. IInv => OneIntentPerSeqno
    BY DEF IInv
<1> QED BY <1>1, InvariantTheorem, PTL

(* What the client signs on the current seqno, the vault can forward.       *)
THEOREM SignedIsAffordable == Spec => []FreshIntentAffordable
<1>1. IInv => FreshIntentAffordable
    <2>1. ASSUME IInv, NEW i \in signed, deployed[i.vault], i.seqno = seqno[i.vault],
                 ~Swept(i.vault)
          PROVE  i.amount <= balance[i.vault] - SELF_KEEP
        <3>1. i.vault \in Vault
            BY <2>1 DEF IInv, TypeOK, Intent
        <3> QED BY <2>1, <3>1 DEF IInv, UnsweptInv, Covered
    <2> QED BY <2>1 DEF FreshIntentAffordable
<1> QED BY <1>1, InvariantTheorem, PTL

(* The storage reserve works: an account the owner never swept is never     *)
(* removed, and its seqno never goes back.                                  *)
THEOREM ReserveTheorem == Spec => ReserveKeepsAccount
<1>1. ASSUME IInv, [Next]_vars, NEW v \in Vault, deployed[v], ~Swept(v)
      PROVE  deployed'[v] /\ ~(seqno'[v] < seqno[v])
    <2>1. balance[v] > 0 /\ seqno[v] \in Nat
        BY <1>1 DEF IInv, TypeOK, UnsweptInv, Covered
    <2>2. CASE UNCHANGED vars
        BY <1>1, <2>1, <2>2 DEF vars
    <2>3. CASE Tick
        BY <1>1, <2>1, <2>3 DEF Tick
    <2>4. ASSUME NEW u \in Vault, NEW a \in Deposit, Fund(u, a) \/ Deploy(u, a)
          PROVE  deployed'[v] /\ ~(seqno'[v] < seqno[v])
        <3>1. CASE Fund(u, a)
            BY <1>1, <2>1, <3>1 DEF Fund
        <3>2. CASE Deploy(u, a)
            <4>1. /\ u # v
                  /\ deployed' = [deployed EXCEPT ![u] = TRUE]
                  /\ seqno' = [seqno EXCEPT ![u] = 0]
                BY <1>1, <3>2 DEF Deploy
            <4>2. deployed'[v] /\ seqno'[v] = seqno[v]
                BY <1>1, <4>1 DEF IInv, TypeOK
            <4> QED BY <1>1, <2>1, <4>2
        <3> QED BY <2>4, <3>1, <3>2
    <2>5. ASSUME NEW u \in Vault, NEW i \in signed, NEW gas \in RelayerGas,
                 VaultExecute(u, i, gas)
          PROVE  deployed'[v] /\ ~(seqno'[v] < seqno[v])
        <3>1. deployed' = deployed /\ seqno' = [seqno EXCEPT ![u] = seqno[u] + 1]
            BY <2>5 DEF VaultExecute
        <3>2. seqno'[v] = seqno[v] \/ seqno'[v] = seqno[v] + 1
            BY <1>1, <2>5, <3>1 DEF IInv, TypeOK
        <3> QED BY <1>1, <2>1, <3>1, <3>2
    <2>6. ASSUME NEW u \in Vault, OwnerWithdraw(u) \/ FetchVaultState(u)
          PROVE  deployed'[v] /\ ~(seqno'[v] < seqno[v])
        BY <1>1, <2>1, <2>6 DEF OwnerWithdraw, FetchVaultState
    <2>7. ASSUME NEW u \in Vault, Remove(u)
          PROVE  deployed'[v] /\ ~(seqno'[v] < seqno[v])
        BY <1>1, <2>1, <2>7 DEF Remove, IInv, TypeOK
    <2>8. ASSUME NEW u \in Vault, NEW t \in Target, NEW a \in Amount, Sign(u, t, a)
          PROVE  deployed'[v] /\ ~(seqno'[v] < seqno[v])
        BY <1>1, <2>1, <2>8 DEF Sign
    <2> QED BY <1>1, <2>2, <2>3, <2>4, <2>5, <2>6, <2>7, <2>8 DEF Next
<1>2. IInv /\ [Next]_vars =>
        \A v \in Vault : (deployed[v] /\ (~deployed'[v] \/ seqno'[v] < seqno[v])) => Swept(v)
    BY <1>1
<1> QED BY <1>2, InvariantTheorem, PTL DEF Spec, ReserveKeepsAccount
=============================================================================
