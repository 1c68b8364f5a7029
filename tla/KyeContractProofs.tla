------------------------- MODULE KyeContractProofs -------------------------
(***************************************************************************)
(* Theorems about KyeContract for every value of its constants.            *)
(*                                                                         *)
(* Part 1 proves the type invariant together with SlotsInv and RecordsInv, *)
(* which are only inductive together: the round stays within 1..N+1        *)
(* because Completed says so, the filled-slot count stays within 0..N      *)
(* because a Created circle still has an empty slot, and a cancellation    *)
(* clears every record because an Active circle has no empty slot.         *)
(***************************************************************************)
EXTENDS PayoutPreview, FiniteSetTheorems, TLAPS

USE DEF Created, Active, Completed, Cancelled, ProRata, Cancel, OrganizerCover

StructInv == TypeOK /\ SlotsInv /\ RecordsInv

-----------------------------------------------------------------------------
(* Keys and counts *)

(* The key roundNum * 64 + orderNum tells rounds and orders apart.          *)
LEMMA KeyInjective ==
    ASSUME NEW r \in Int, NEW i \in Order, NEW q \in Int, NEW j \in Order,
           ContributionKey(r, i) = ContributionKey(q, j)
    PROVE  r = q /\ i = j
BY KyeInitAssumption DEF ContributionKey, Order

(* A set of orders has between 0 and N elements, N only when it is all.     *)
LEMMA OrderSubset ==
    ASSUME NEW S \in SUBSET Order
    PROVE  /\ IsFiniteSet(S)
           /\ Cardinality(S) \in 0..memberCount
           /\ Cardinality(S) = memberCount <=> S = Order
<1>1. IsFiniteSet(Order) /\ Cardinality(Order) = memberCount
    <2>1. memberCount \in Int /\ ~(1 > memberCount)
        BY KyeInitAssumption
    <2>2. /\ IsFiniteSet(1..memberCount)
          /\ Cardinality(1..memberCount)
               = IF 1 > memberCount THEN 0 ELSE memberCount - 1 + 1
        BY <2>1, FS_Interval
    <2> QED BY <2>1, <2>2 DEF Order
<1>2. IsFiniteSet(S) /\ Cardinality(S) <= Cardinality(Order)
      /\ (Cardinality(Order) = Cardinality(S) => Order = S)
    BY <1>1, FS_Subset
<1>3. Cardinality(S) \in Nat
    BY <1>2, FS_CardinalityType
<1> QED BY <1>1, <1>2, <1>3, KyeInitAssumption

LEMMA PaidCountRange ==
    ASSUME NEW r
    PROVE  PaidCount(r) \in 0..memberCount
BY OrderSubset DEF PaidCount, PaidOrders

(* The pairs a refund is computed from are finitely many.                   *)
LEMMA RefundPairs ==
    ASSUME NEW S \in SUBSET (Order \X Order)
    PROVE  Cardinality(S) \in Nat
<1>1. IsFiniteSet(Order)
    BY OrderSubset
<1>2. IsFiniteSet(Order \X Order)
    BY <1>1, FS_Product
<1> QED BY <1>2, FS_Subset, FS_CardinalityType

(* In an Active circle every slot is filled.                                *)
LEMMA ActiveSlotsFilled ==
    ASSUME TypeOK, SlotsInv, status \in {Active, Completed}
    PROVE  \A i \in Order : members[i] # NoMember
<1> DEFINE F == {i \in Order : members[i] # NoMember}
<1>1. F \in SUBSET Order
    OBVIOUS
<1>2. Cardinality(F) = memberCount
    BY DEF SlotsInv
<1>3. F = Order
    BY <1>1, <1>2, OrderSubset
<1> QED BY <1>3

-----------------------------------------------------------------------------
(* The amounts a round moves *)

LEMMA DivFacts ==
    ASSUME NEW x \in Int, NEW d \in Int, d > 0
    PROVE  /\ x \div d \in Int
           /\ d * (x \div d) <= x
           /\ x < d * (x \div d) + d
OBVIOUS

(* Fees are at most the pool: NetPool is never negative.                    *)
LEMMA FeesWithinPool ==
    ASSUME NEW pool \in Nat
    PROVE  /\ PlatformFee(pool) \in Nat
           /\ OrganizerFee(pool) \in Nat
           /\ NetPool(pool) \in Nat
           /\ FeesTotal(pool) \in Nat
           /\ FeesTotal(pool) + NetPool(pool) = pool
<1> DEFINE P == PlatformFee(pool)
           O == OrganizerFee(pool)
<1>1. P \in Int /\ 10000 * P <= pool * 50 /\ pool * 50 < 10000 * P + 10000
    BY DivFacts DEF PlatformFee
<1>2. pool * (feeRateBps - 50) \in Nat
    BY KyeInitAssumption
<1>3. O \in Int /\ 10000 * O <= pool * (feeRateBps - 50)
      /\ pool * (feeRateBps - 50) < 10000 * O + 10000
    BY <1>2, DivFacts DEF OrganizerFee
<1>4. pool * (feeRateBps - 50) <= pool * 9950
    BY KyeInitAssumption
<1>5. P >= 0 /\ O >= 0 /\ P + O <= pool
    <2>1. pool * 50 >= 0
        OBVIOUS
    <2> HIDE DEF P, O
    <2> QED BY <1>1, <1>2, <1>3, <1>4, <2>1
<1> QED BY <1>1, <1>3, <1>5 DEF NetPool, FeesTotal

(* The adjustment lies between -alpha and alpha: the clamp of a negative    *)
(* payout to 0 never has anything to do.                                    *)
LEMMA AdjustmentRange ==
    ASSUME NEW k \in Order
    PROVE  /\ AdjustmentBps(k) \in Int
           /\ (memberCount - 1) * AdjustmentBps(k)
                <= (2 * k - memberCount - 1) * timeAdjustmentMaxBps
           /\ AdjustmentBps(k) >= -10000
<1> DEFINE A == AdjustmentBps(k)
           n == memberCount - 1
           x == (2 * k - memberCount - 1) * timeAdjustmentMaxBps
<1>1. n \in 1..29 /\ x \in Int /\ 2 * k - memberCount - 1 >= -n
    BY KyeInitAssumption DEF Order
<1>2. A \in Int /\ n * A <= x /\ x < n * A + n
    BY <1>1, DivFacts DEF AdjustmentBps
<1>3. x >= -n * timeAdjustmentMaxBps
    BY <1>1, KyeInitAssumption DEF Order
<1>4. -n * timeAdjustmentMaxBps >= -n * 10000
    BY <1>1, KyeInitAssumption
<1>5. n * (A + 1) > n * (-10000)
    BY <1>1, <1>2, <1>3, <1>4, KyeInitAssumption
<1>6. A + 1 > -10000
    <2> HIDE DEF A, n
    <2> QED BY <1>1, <1>2, <1>5
<1> QED BY <1>2, <1>6

-----------------------------------------------------------------------------
(* Part 1: types, slots and records *)

LEMMA SettleType ==
    ASSUME NEW v \in Nat, NEW out \in Nat, TypeOK, Settle(v, out),
           out <= balance + v - TxFee
    PROVE  balance' \in Nat /\ now' \in Nat
BY EnvironmentAssumption DEF Settle, TypeOK

LEMMA ValuesAreAmounts ==
    \A v \in GasValue \cup PaymentValue : v \in Nat /\ v >= TxFee
BY EnvironmentAssumption

LEMMA PoolRange ==
    ASSUME NEW r
    PROVE  RoundPool(r) \in Nat /\ Shortfall(r) \in Nat
BY PaidCountRange, KyeInitAssumption DEF RoundPool, Shortfall

LEMMA SendsRange ==
    ASSUME NEW k \in Order, NEW v \in Nat, TypeOK
    PROVE  RoundSends(k, v) \in Nat
<1> DEFINE pool == RoundPool(k)
<1>1. FeesTotal(pool) \in Nat /\ NetPool(pool) \in Nat
    BY PoolRange, FeesWithinPool
<1>2. AdjustmentBps(k) \in Int
    BY AdjustmentRange
<1>3. NetPool(pool) * (10000 + AdjustmentBps(k)) \in Int
    BY <1>1, <1>2
<1>4. IntendedPayout(k, pool) \in Nat
    BY <1>3, DivFacts DEF IntendedPayout, FlooredPayout
<1>5. Available(balance + v) \in Nat
    BY EnvironmentAssumption DEF Available, TypeOK
<1>6. Payout(k, pool, balance + v) \in Nat
    BY <1>1, <1>4, <1>5 DEF Payout
<1> QED BY <1>1, <1>6 DEF RoundSends

LEMMA ExecutableRound ==
    ASSUME StructInv, Executable
    PROVE  currentRound \in Order
BY KyeInitAssumption DEF StructInv, TypeOK, RecordsInv, Executable, Order

(* queueRefunds leaves no record behind once every slot is filled, or when  *)
(* there was none to begin with.                                            *)
LEMMA QueueClears ==
    ASSUME StructInv, status \in {Created, Active}, queueRefunds
    PROVE  contributions' = {} /\ refunds' \in [Account -> Nat]
<1>1. contributions' = {}
    <2>1. CASE status = Created
        BY <2>1 DEF StructInv, RecordsInv, queueRefunds
    <2>2. CASE status = Active
        <3>1. \A i \in Order : members[i] # NoMember
            BY <2>2, ActiveSlotsFilled DEF StructInv
        <3>2. \A key \in contributions :
                \E i, r \in Order : key = ContributionKey(r, i)
            BY DEF StructInv, TypeOK, ContributionKeys
        <3> QED BY <3>1, <3>2 DEF queueRefunds
    <2> QED BY <2>1, <2>2
<1>2. \A s \in Account : refunds[s] + contribution * Cardinality(RecordsOf(s)) \in Nat
    <2> TAKE s \in Account
    <2>1. Cardinality(RecordsOf(s)) \in Nat
        BY RefundPairs DEF RecordsOf
    <2> QED BY <2>1, KyeInitAssumption DEF StructInv, TypeOK
<1> QED BY <1>1, <1>2 DEF queueRefunds

LEMMA InitStruct == Init => StructInv
<1> SUFFICES ASSUME Init PROVE StructInv
    OBVIOUS
<1>1. TypeOK
    BY KyeInitAssumption, EnvironmentAssumption DEF Init, TypeOK
<1>2. SlotsInv
    <2>1. {i \in Order : members[i] # NoMember} = {}
        BY DEF Init
    <2> QED BY <2>1, FS_EmptySet, KyeInitAssumption DEF Init, SlotsInv
<1>3. RecordsInv
    BY KyeInitAssumption DEF Init, RecordsInv
<1> QED BY <1>1, <1>2, <1>3 DEF StructInv

LEMMA JoinStruct ==
    ASSUME StructInv, NEW s \in Account, NEW i \in Order, NEW v \in GasValue,
           JoinKye(s, i, v)
    PROVE  StructInv'
<1> USE DEF StructInv
<1> DEFINE F == {j \in Order : members[j] # NoMember}
<1>1. joinedCount + 1 \in 0..memberCount
    BY KyeInitAssumption DEF JoinKye, SlotsInv, TypeOK
<1>2. TypeOK'
    <2>1. balance' \in Nat /\ now' \in Nat
        BY SettleType, ValuesAreAmounts, EnvironmentAssumption DEF JoinKye, TypeOK
    <2> QED BY <1>1, <2>1 DEF JoinKye, TypeOK
<1>3. SlotsInv'
    <2>1. \A j, k \in Order :
            members'[j] = members'[k] /\ members'[j] # NoMember => j = k
        BY DEF JoinKye, SlotsInv, TypeOK, OrdersOf
    <2>2. {j \in Order : members'[j] # NoMember} = F \cup {i}
        BY KyeInitAssumption DEF JoinKye, TypeOK
    <2>3. i \notin F
        BY DEF JoinKye
    <2>4. IsFiniteSet(F)
        BY OrderSubset
    <2>5. Cardinality(F \cup {i}) = Cardinality(F) + 1
        BY <2>3, <2>4, FS_AddElement
    <2>6. joinedCount' = Cardinality({j \in Order : members'[j] # NoMember})
        BY <2>2, <2>5 DEF JoinKye, SlotsInv
    <2>7. status' = Created => joinedCount' < memberCount
        BY <1>1, KyeInitAssumption DEF JoinKye, TypeOK
    <2>8. status' \in {Active, Completed} => joinedCount' = memberCount
        BY DEF JoinKye
    <2> QED BY <2>1, <2>6, <2>7, <2>8 DEF SlotsInv
<1>4. RecordsInv'
    BY DEF JoinKye, RecordsInv
<1> QED BY <1>2, <1>3, <1>4

LEMMA ContributeStruct ==
    ASSUME StructInv, NEW s \in Account, NEW r \in Order, NEW v \in PaymentValue,
           Contribute(s, r, v)
    PROVE  StructInv'
<1> USE DEF StructInv
<1> DEFINE back == IF Excess(v) <= balance + v - TxFee THEN Excess(v) ELSE 0
<1>1. Excess(v) \in Nat
    BY ValuesAreAmounts, KyeInitAssumption, EnvironmentAssumption DEF Excess
<1>2. back \in Nat /\ back <= balance + v - TxFee
    BY <1>1, ValuesAreAmounts, EnvironmentAssumption DEF TypeOK
<1>3. balance' \in Nat /\ now' \in Nat
    BY <1>2, SettleType, ValuesAreAmounts DEF Contribute
<1>4. PICK i \in Order :
        contributions' = contributions \cup {ContributionKey(r, i)}
    BY DEF Contribute
<1>5. TypeOK'
    BY <1>3, <1>4 DEF Contribute, TypeOK, setup, ContributionKeys
<1>6. SlotsInv'
    BY DEF Contribute, SlotsInv, setup
<1>7. RecordsInv'
    <2>1. \A q, j \in Order : ContributionKey(q, j) \in contributions' => q <= currentRound'
        <3> SUFFICES ASSUME NEW q \in Order, NEW j \in Order,
                            ContributionKey(q, j) \in contributions'
                     PROVE  q <= currentRound'
            OBVIOUS
        <3>1. CASE ContributionKey(q, j) \in contributions
            BY <3>1 DEF Contribute, RecordsInv
        <3>2. CASE ContributionKey(q, j) = ContributionKey(r, i)
            <4>1. q = r
                BY <3>2, KeyInjective DEF Order
            <4> QED BY <4>1 DEF Contribute, TypeOK
        <3> QED BY <1>4, <3>1, <3>2
    <2> QED BY <2>1 DEF Contribute, RecordsInv
<1> QED BY <1>5, <1>6, <1>7

LEMMA CancelStruct ==
    ASSUME StructInv, NEW v \in GasValue, status \in {Created, Active},
           queueRefunds, status' = Cancelled, cancelledAt' = now, Settle(v, 0),
           UNCHANGED <<setup, currentRound, pendingShortfall>>
    PROVE  StructInv'
<1> USE DEF StructInv
<1>1. contributions' = {} /\ refunds' \in [Account -> Nat]
    BY QueueClears
<1>2. balance' \in Nat /\ now' \in Nat
    BY SettleType, ValuesAreAmounts, EnvironmentAssumption DEF TypeOK
<1>3. TypeOK'
    BY <1>1, <1>2 DEF TypeOK, setup
<1>4. SlotsInv'
    BY DEF SlotsInv, setup
<1>5. RecordsInv'
    BY <1>1 DEF RecordsInv
<1> QED BY <1>3, <1>4, <1>5

LEMMA ExecuteStruct ==
    ASSUME StructInv, NEW v \in GasValue, ExecuteRound(v)
    PROVE  StructInv'
<1> USE DEF StructInv
<1>1. Executable /\ status = Active
    BY DEF ExecuteRound, PaysOut, Executable
<1>2. currentRound \in Order
    BY <1>1, ExecutableRound
<1>3. RoundSends(currentRound, v) \in Nat
    BY <1>2, SendsRange, ValuesAreAmounts
<1>4. balance' \in Nat /\ now' \in Nat
    BY <1>3, SettleType, ValuesAreAmounts DEF ExecuteRound, Affordable
<1>5. TypeOK'
    BY <1>1, <1>2, <1>4, PoolRange, KyeInitAssumption
        DEF ExecuteRound, TypeOK, setup, Order
<1>6. SlotsInv'
    BY <1>1 DEF ExecuteRound, SlotsInv, setup
<1>7. RecordsInv'
    BY <1>1, <1>2, KyeInitAssumption DEF ExecuteRound, RecordsInv, TypeOK, Order
<1> QED BY <1>5, <1>6, <1>7

(* A failed action phase and a top-up touch only the balance and the        *)
(* organizer's debt.                                                        *)
LEMMA BalanceOnlyStruct ==
    ASSUME StructInv, NEW v \in Nat, v >= TxFee, Settle(v, 0),
           pendingShortfall' \in Nat,
           UNCHANGED <<setup, status, contributions, refunds, currentRound,
                       cancelledAt>>
    PROVE  StructInv'
<1> USE DEF StructInv
<1>1. balance' \in Nat /\ now' \in Nat
    BY SettleType, EnvironmentAssumption DEF TypeOK
<1>2. TypeOK'
    BY <1>1 DEF TypeOK, setup
<1> QED BY <1>2 DEF SlotsInv, RecordsInv, setup

LEMMA ClaimStruct ==
    ASSUME StructInv, NEW s \in Account, NEW v \in GasValue, ClaimRefund(s, v)
    PROVE  StructInv'
<1> USE DEF StructInv
<1>1. refunds[s] \in Nat /\ refunds' \in [Account -> Nat]
    BY DEF TypeOK, ClaimRefund
<1>2. balance' \in Nat /\ now' \in Nat
    BY <1>1, SettleType, ValuesAreAmounts DEF ClaimRefund
<1>3. TypeOK'
    BY <1>1, <1>2 DEF TypeOK, ClaimRefund, setup
<1> QED BY <1>3 DEF SlotsInv, RecordsInv, ClaimRefund, setup

(* The inductive step.                                                      *)
LEMMA NextStruct == StructInv /\ [Next]_vars => StructInv'
<1> SUFFICES ASSUME StructInv, [Next]_vars PROVE StructInv'
    OBVIOUS
<1>1. ASSUME NEW s \in Account, NEW v \in GasValue, NEW i \in Order, JoinKye(s, i, v)
      PROVE  StructInv'
    BY <1>1, JoinStruct
<1>2. ASSUME NEW s \in Account, NEW v \in GasValue, EmergencyCancel(s, v)
      PROVE  StructInv'
    BY <1>2, CancelStruct DEF EmergencyCancel
<1>3. ASSUME NEW s \in Account, NEW v \in GasValue, ClaimRefund(s, v)
      PROVE  StructInv'
    BY <1>3, ClaimStruct
<1>4. ASSUME NEW s \in Account, NEW v \in GasValue, ClaimRefundReverts(s, v)
      PROVE  StructInv'
    BY <1>4, BalanceOnlyStruct, ValuesAreAmounts
        DEF ClaimRefundReverts, StructInv, TypeOK
<1>5. ASSUME NEW s \in Account, NEW v \in PaymentValue, NEW r \in Order,
             Contribute(s, r, v)
      PROVE  StructInv'
    BY <1>5, ContributeStruct
<1>6. ASSUME NEW v \in GasValue, ExecuteRoundMsg(v)
      PROVE  StructInv'
    <2>1. CASE ExecuteRound(v)
        BY <2>1, ExecuteStruct
    <2>2. CASE ExecuteRoundCancels(v)
        BY <2>2, CancelStruct DEF ExecuteRoundCancels, Executable
    <2>3. CASE ExecuteRoundReverts(v)
        BY <2>3, BalanceOnlyStruct, ValuesAreAmounts
            DEF ExecuteRoundReverts, StructInv, TypeOK
    <2> QED BY <1>6, <2>1, <2>2, <2>3 DEF ExecuteRoundMsg
<1>7. ASSUME NEW v \in PaymentValue, TopUp(v)
      PROVE  StructInv'
    <2>1. pendingShortfall' \in Nat
        BY <1>7, ValuesAreAmounts DEF TopUp, StructInv, TypeOK
    <2> QED BY <1>7, <2>1, BalanceOnlyStruct, ValuesAreAmounts DEF TopUp
<1>8. CASE Tick
    BY <1>8 DEF Tick, StructInv, TypeOK, SlotsInv, RecordsInv, setup
<1>9. CASE UNCHANGED vars
    BY <1>9 DEF vars, StructInv, TypeOK, SlotsInv, RecordsInv
<1> QED
    BY <1>1, <1>2, <1>3, <1>4, <1>5, <1>6, <1>7, <1>8, <1>9 DEF Next

LEMMA StructAlways == Spec => []StructInv
BY InitStruct, NextStruct, PTL DEF Spec

(* Every reachable state is well-typed: in particular no accepted message   *)
(* ever makes the contract send more than it holds.                         *)
THEOREM TypeCorrect == Spec => []TypeOK
BY StructAlways, PTL DEF StructInv

(* One member, one slot, one payout: in every circle of any size.           *)
THEOREM SlotsCorrect == Spec => []SlotsInv
BY StructAlways, PTL DEF StructInv

(* Records and refunds never count the same payment twice.                  *)
THEOREM RecordsCorrect == Spec => []RecordsInv
BY StructAlways, PTL DEF StructInv

-----------------------------------------------------------------------------
(* Part 1b: the end is final.                                               *)

(* What a step may change once the circle is completed or cancelled.        *)
RefundsOrTopUp ==
    \/ refunds' = refunds /\ balance' >= balance
    \/ \E a \in Account, v \in GasValue : RefundPaid(a, v)

FinalStep ==
    /\ status' = status /\ currentRound' = currentRound
    /\ contributions' = contributions /\ cancelledAt' = cancelledAt
    /\ RefundsOrTopUp

(* The claim that succeeds is the one step that pays a refund.              *)
LEMMA ClaimFinal ==
    ASSUME TypeOK, NEW s \in Account, NEW v \in GasValue, ClaimRefund(s, v)
    PROVE  FinalStep
<1>1. balance' = balance + v - TxFee - refunds[s]
    BY DEF ClaimRefund, Settle
<1>2. RefundPaid(s, v)
    BY <1>1, ValuesAreAmounts, EnvironmentAssumption DEF ClaimRefund, RefundPaid, TypeOK
<1> QED BY <1>2 DEF ClaimRefund, FinalStep, RefundsOrTopUp

(* Any other message of an ended circle leaves at least its charge behind.  *)
LEMMA SettledStep ==
    ASSUME TypeOK, NEW v \in GasValue \cup PaymentValue, Settle(v, 0),
           refunds' = refunds
    PROVE  RefundsOrTopUp
<1>1. balance' = balance + v - TxFee - 0
    BY DEF Settle
<1> QED BY <1>1, ValuesAreAmounts, EnvironmentAssumption DEF RefundsOrTopUp, TypeOK

(* Every other receiver and the clock want a circle that is still Created   *)
(* or Active; TopUp alone is taken at any time and touches the debt.        *)
LEMMA EndedStep ==
    ASSUME TypeOK, status \in {Completed, Cancelled}, [Next]_vars
    PROVE  FinalStep
<1>1. ASSUME NEW s \in Account, NEW v \in GasValue, NEW i \in Order, JoinKye(s, i, v)
      PROVE  FinalStep
    BY <1>1 DEF JoinKye
<1>2. ASSUME NEW s \in Account, NEW v \in GasValue, EmergencyCancel(s, v)
      PROVE  FinalStep
    BY <1>2 DEF EmergencyCancel
<1>3. ASSUME NEW s \in Account, NEW v \in GasValue, ClaimRefund(s, v)
      PROVE  FinalStep
    BY <1>3, ClaimFinal
<1>4. ASSUME NEW s \in Account, NEW v \in GasValue, ClaimRefundReverts(s, v)
      PROVE  FinalStep
    BY <1>4, SettledStep DEF ClaimRefundReverts, FinalStep, setup
<1>5. ASSUME NEW s \in Account, NEW v \in PaymentValue, NEW r \in Order,
             Contribute(s, r, v)
      PROVE  FinalStep
    BY <1>5 DEF Contribute
<1>6. ASSUME NEW v \in GasValue, ExecuteRoundMsg(v)
      PROVE  FinalStep
    BY <1>6 DEF ExecuteRoundMsg, ExecuteRound, ExecuteRoundCancels,
                ExecuteRoundReverts, PaysOut, Executable
<1>7. ASSUME NEW v \in PaymentValue, TopUp(v)
      PROVE  FinalStep
    BY <1>7, SettledStep DEF TopUp, FinalStep, setup
<1>8. CASE Tick
    BY <1>8 DEF Tick
<1>9. CASE UNCHANGED vars
    BY <1>9 DEF vars, FinalStep, RefundsOrTopUp, TypeOK
<1> QED
    BY <1>1, <1>2, <1>3, <1>4, <1>5, <1>6, <1>7, <1>8, <1>9 DEF Next

(* A completed circle only ever takes top-ups and a cancelled one only pays *)
(* refunds out, each whole record for exactly its amount; a refund that     *)
(* cannot be sent stays on record.  No message reopens a round, records a   *)
(* payment, changes a refund or spends the balance in any other way.        *)
THEOREM FinalTheorem == Spec => EndIsFinal
<1>1. TypeOK /\ [Next]_vars =>
        [(status \in {Completed, Cancelled}) => FinalStep]_vars
    BY EndedStep
<1>2. [(status \in {Completed, Cancelled}) => FinalStep]_vars <=>
      [ (status \in {Completed, Cancelled}) =>
        /\ status' = status /\ currentRound' = currentRound
        /\ contributions' = contributions /\ cancelledAt' = cancelledAt
        /\ \/ refunds' = refunds /\ balance' >= balance
           \/ \E a \in Account, v \in GasValue : RefundPaid(a, v) ]_vars
    BY DEF FinalStep, RefundsOrTopUp
<1> QED BY <1>1, <1>2, TypeCorrect, PTL DEF EndIsFinal, Spec

-----------------------------------------------------------------------------
(***************************************************************************)
(* Part 2: solvency.  With k(N - k) >= 0 the bonus of round k is never     *)
(* more than what rounds 1..k-1 held back, and executing round k leaves    *)
(* exactly the k(N - k) share that HeldBack(k + 1) asks for.  Rounding is  *)
(* always in favour of the contract.  The invariant is inductive together  *)
(* with StructInv and the fact that only OrganizerCover books a debt.      *)
(***************************************************************************)

DebtInv == defaultPolicy # OrganizerCover => pendingShortfall = 0
SolvencyInv == StructInv /\ DebtInv /\ SavingsCoverBonuses

LEMMA MulMono ==
    ASSUME NEW m \in Int, NEW x \in Int, NEW y \in Int, m >= 0, x <= y
    PROVE  m * x <= m * y
OBVIOUS

LEMMA MulCancel ==
    ASSUME NEW m \in Int, NEW x \in Int, NEW y \in Int, m > 0, m * x <= m * y
    PROVE  x <= y
OBVIOUS

(* The bonus of round k against the savings of the rounds before it.        *)
LEMMA SavingsStep ==
    ASSUME NEW w \in Int, NEW k \in Int, NEW n \in Int
    PROVE  w * ((k - 1) * (n + 1 - k)) - w * (2 * k - n - 1) = w * (k * (n - k))
<1>1. (k - 1) * (n + 1 - k) - (2 * k - n - 1) = k * (n - k)
    OBVIOUS
<1>2. \A x, y, z \in Int : x - y = z => w * x - w * y = w * z
    OBVIOUS
<1>3. (k - 1) * (n + 1 - k) \in Int /\ 2 * k - n - 1 \in Int /\ k * (n - k) \in Int
    OBVIOUS
<1> QED BY <1>1, <1>2, <1>3

LEMMA FullPoolNet ==
    /\ FullPool \in Nat
    /\ NetPool(FullPool) \in Nat
    /\ NetPool(FullPool) * timeAdjustmentMaxBps \in Nat
    /\ FeesTotal(FullPool) \in Nat
    /\ FeesTotal(FullPool) + NetPool(FullPool) = FullPool
<1>1. FullPool \in Nat
    BY KyeInitAssumption DEF FullPool
<1>2. /\ NetPool(FullPool) \in Nat
      /\ FeesTotal(FullPool) \in Nat
      /\ FeesTotal(FullPool) + NetPool(FullPool) = FullPool
    BY <1>1, FeesWithinPool
<1>3. timeAdjustmentMaxBps \in Nat
    BY KyeInitAssumption
<1>4. \A x, y \in Nat : x * y \in Nat
    OBVIOUS
<1> QED BY <1>1, <1>2, <1>3, <1>4

(* A fully paid round pays at most its net pool plus the adjustment.        *)
LEMMA IntendedBound ==
    ASSUME NEW k \in Order
    PROVE  /\ IntendedPayout(k, FullPool) \in Nat
           /\ 10000 * (memberCount - 1) * (IntendedPayout(k, FullPool) - NetPool(FullPool))
                <= NetPool(FullPool) * timeAdjustmentMaxBps * (2 * k - memberCount - 1)
<1> DEFINE net == NetPool(FullPool)
           A == AdjustmentBps(k)
           I == IntendedPayout(k, FullPool)
           n == memberCount - 1
           x == (2 * k - memberCount - 1) * timeAdjustmentMaxBps
<1>1. net \in Nat /\ n \in Nat /\ n > 0 /\ x \in Int
    BY FullPoolNet, KyeInitAssumption DEF Order
<1>2. A \in Int /\ n * A <= x /\ A >= -10000
    BY AdjustmentRange
<1>3. net * (10000 + A) \in Nat
    <2> HIDE DEF net, A
    <2> QED BY <1>1, <1>2
<1>4. I \in Nat /\ 10000 * I <= net * (10000 + A)
    BY <1>3, DivFacts DEF IntendedPayout, FlooredPayout
<1>5. 10000 * (I - net) <= net * A
    <2> HIDE DEF net, A, I
    <2>1. net * (10000 + A) = 10000 * net + net * A
        BY <1>1, <1>2
    <2> QED BY <1>1, <1>2, <1>4, <2>1
<1>6. n * (10000 * (I - net)) <= n * (net * A)
    <2> HIDE DEF net, A, I, n
    <2> QED BY <1>1, <1>2, <1>4, <1>5, MulMono
<1>7. net * (n * A) <= net * x
    <2> HIDE DEF net, A, n, x
    <2> QED BY <1>1, <1>2, MulMono
<1>8. net * x = net * timeAdjustmentMaxBps * (2 * k - memberCount - 1)
    <2> HIDE DEF net
    <2> QED BY <1>1, KyeInitAssumption DEF Order
<1>9. n * (net * A) = net * (n * A)
      /\ n * (10000 * (I - net)) = 10000 * n * (I - net)
    <2> HIDE DEF net, A, I, n
    <2> QED BY <1>1, <1>2, <1>4
<1> QED
    <2> HIDE DEF net, A, I, n, x
    <2> QED BY <1>1, <1>2, <1>4, <1>6, <1>7, <1>8, <1>9 DEF net, I, n

(* Rounds that have not begun have no contributions.                        *)
LEMMA FutureUnpaid ==
    ASSUME StructInv, NEW r \in Order, r > currentRound
    PROVE  PaidCount(r) = 0
<1>1. PaidOrders(r) = {}
    BY KyeInitAssumption DEF StructInv, TypeOK, RecordsInv, PaidOrders, Order
<1> QED BY <1>1, FS_EmptySet DEF PaidCount

LEMMA SpareType == StructInv => Spare \in Int /\ HeldBack(currentRound) \in Int
<1> SUFFICES ASSUME StructInv
             PROVE  Spare \in Int /\ HeldBack(currentRound) \in Int
    OBVIOUS
<1>1. PaidCount(currentRound) \in Int
    BY PaidCountRange
<1>2. Spare \in Int
    BY <1>1, KyeInitAssumption, EnvironmentAssumption DEF StructInv, TypeOK, Spare
<1>3. (currentRound - 1) * (memberCount + 1 - currentRound) \in Int
    BY KyeInitAssumption DEF StructInv, TypeOK
<1> QED BY <1>2, <1>3, FullPoolNet DEF HeldBack

(* A step that keeps the round and does not lower Spare keeps the savings.  *)
LEMMA SameRoundSavings ==
    ASSUME StructInv, StructInv', SavingsCoverBonuses,
           status # Cancelled, currentRound' = currentRound,
           ShortfallsBooked(currentRound)' => ShortfallsBooked(currentRound),
           GasCovered => Spare' >= Spare
    PROVE  SavingsCoverBonuses'
<1> DEFINE M == 10000 * (memberCount - 1)
<1> SUFFICES ASSUME GasCovered, ShortfallsBooked(currentRound)'
             PROVE  M * Spare' >= HeldBack(currentRound')
    BY DEF SavingsCoverBonuses, GasCovered, HeldBack, NetPool, PlatformFee,
        OrganizerFee, FullPool, Excess
<1>1. M * Spare >= HeldBack(currentRound)
    BY DEF SavingsCoverBonuses
<1>2. Spare \in Int /\ Spare' \in Int /\ M \in Nat /\ HeldBack(currentRound) \in Int
    <2>1. (StructInv => Spare \in Int /\ HeldBack(currentRound) \in Int)'
        BY SpareType, PTL
    <2>2. M \in Nat
        BY KyeInitAssumption
    <2> QED BY <2>1, <2>2, SpareType
<1>3. M * Spare <= M * Spare'
    <2> HIDE DEF M
    <2>1. Spare' >= Spare
        OBVIOUS
    <2>2. M \in Int /\ M >= 0 /\ Spare <= Spare'
        BY <1>2, <2>1
    <2> QED BY <1>2, <2>2, MulMono
<1> QED
    <2> HIDE DEF M
    <2>1. \A x, y, z \in Int : z <= x /\ x <= y => z <= y
        OBVIOUS
    <2>2. M * Spare \in Int /\ M * Spare' \in Int
        BY <1>2
    <2>3. HeldBack(currentRound') = HeldBack(currentRound)
        OBVIOUS
    <2> QED BY <1>1, <1>2, <1>3, <2>1, <2>2, <2>3

LEMMA ContributeSolvency ==
    ASSUME SolvencyInv, StructInv', NEW s \in Account, NEW r \in Order,
           NEW v \in PaymentValue, Contribute(s, r, v)
    PROVE  SavingsCoverBonuses'
<1> USE DEF SolvencyInv
<1>1. PICK i \in Order :
        /\ ContributionKey(r, i) \notin contributions
        /\ contributions' = contributions \cup {ContributionKey(r, i)}
    BY DEF Contribute
<1>2. r = currentRound /\ status = Active /\ status' = Active
      /\ currentRound' = currentRound /\ pendingShortfall' = pendingShortfall
    BY DEF Contribute
<1>3. PaidOrders(r)' = PaidOrders(r) \cup {i}
    BY <1>1, KeyInjective DEF PaidOrders, Order
<1>4. PaidCount(r)' = PaidCount(r) + 1
    <2>1. i \notin PaidOrders(r) /\ IsFiniteSet(PaidOrders(r))
        BY <1>1, OrderSubset DEF PaidOrders
    <2>2. Cardinality(PaidOrders(r) \cup {i}) = Cardinality(PaidOrders(r)) + 1
        BY <2>1, FS_AddElement
    <2> QED BY <1>3, <2>2 DEF PaidCount
<1>5. \A q \in Order : q # r => PaidCount(q)' = PaidCount(q)
    <2> SUFFICES ASSUME NEW q \in Order, q # r PROVE PaidCount(q)' = PaidCount(q)
        OBVIOUS
    <2>1. PaidOrders(q)' = PaidOrders(q)
        BY <1>1, KeyInjective DEF PaidOrders, Order
    <2> QED BY <2>1 DEF PaidCount
<1>6. ShortfallsBooked(currentRound)' => ShortfallsBooked(currentRound)
    BY <1>2, <1>5 DEF ShortfallsBooked, StructInv, TypeOK, Order
<1>7. ASSUME GasCovered PROVE Spare' >= Spare
    <2>1. Excess(v) \in Nat /\ v \in Nat /\ TxFee \in Nat /\ contribution \in Nat
        BY ValuesAreAmounts, KyeInitAssumption, EnvironmentAssumption DEF Excess
    <2>2. v - Excess(v) >= contribution + TxFee
        BY <1>7 DEF GasCovered, Contribute
    <2>3. balance' >= balance + contribution
        BY <2>1, <2>2 DEF Contribute, Settle, StructInv, TypeOK
    <2>4. PaidCount(currentRound)' = PaidCount(currentRound) + 1
        BY <1>2, <1>4
    <2>5. contribution * (PaidCount(currentRound) + 1)
            = contribution * PaidCount(currentRound) + contribution
        BY <2>1, PaidCountRange, KyeInitAssumption
    <2>6. contribution * PaidCount(currentRound) \in Int /\ SELF_KEEP \in Int
        BY <2>1, PaidCountRange, KyeInitAssumption, EnvironmentAssumption
    <2>7. balance \in Int /\ balance' \in Int /\ pendingShortfall \in Int
        BY DEF StructInv, TypeOK
    <2>8. Spare = balance + pendingShortfall - SELF_KEEP
                    - contribution * PaidCount(currentRound)
        BY <1>2 DEF Spare
    <2>9. Spare' = balance' + pendingShortfall - SELF_KEEP
                    - contribution * (PaidCount(currentRound) + 1)
        BY <1>2, <2>4 DEF Spare
    <2> QED BY <2>1, <2>3, <2>5, <2>6, <2>7, <2>8, <2>9
<1> QED BY <1>2, <1>6, <1>7, SameRoundSavings

(* A round that pays out: what it keeps is what HeldBack asks for next.     *)
LEMMA ExecuteSolvency ==
    ASSUME SolvencyInv, StructInv', NEW v \in GasValue, ExecuteRound(v)
    PROVE  SavingsCoverBonuses'
<1> USE DEF SolvencyInv
<1> DEFINE k == currentRound
           M == 10000 * (memberCount - 1)
           w == NetPool(FullPool) * timeAdjustmentMaxBps
           I == IntendedPayout(k, FullPool)
           net == NetPool(FullPool)
<1> SUFFICES ASSUME GasCovered, status' # Cancelled, ShortfallsBooked(currentRound)'
             PROVE  M * Spare' >= HeldBack(k + 1)
    BY DEF SavingsCoverBonuses, GasCovered, HeldBack, NetPool, PlatformFee,
        OrganizerFee, FullPool, Excess, ExecuteRound
<1>1. status = Active /\ k \in Order /\ currentRound' = k + 1
    BY ExecutableRound DEF ExecuteRound, PaysOut, Executable
<1>2. \A q \in Order : PaidCount(q)' = PaidCount(q)
    BY DEF ExecuteRound, PaidCount, PaidOrders
<1>3. ShortfallsBooked(k)
    BY <1>1, <1>2 DEF ShortfallsBooked, Order
<1>4. defaultPolicy # OrganizerCover => PaidCount(k) = memberCount
    <2>1. defaultPolicy = ProRata => PaidCount(k) = memberCount
        BY <1>1, <1>2 DEF ShortfallsBooked, Order
    <2> QED BY <2>1, KyeInitAssumption DEF ExecuteRound, PaysOut
<1>5. RoundPool(k) = FullPool
    BY <1>4 DEF RoundPool, FullPool
<1>6. Payout(k, FullPool, balance + v) <= I /\ I \in Nat
      /\ FeesTotal(FullPool) \in Nat /\ Payout(k, FullPool, balance + v) \in Int
    <2>1. I \in Nat /\ FeesTotal(FullPool) \in Nat
        BY <1>1, IntendedBound, FullPoolNet
    <2>2. Available(balance + v) \in Nat
        BY ValuesAreAmounts, EnvironmentAssumption DEF Available, StructInv, TypeOK
    <2> QED BY <2>1, <2>2 DEF Payout, Capped
<1>7. balance' >= balance - FeesTotal(FullPool) - I
    BY <1>5, <1>6, ValuesAreAmounts, EnvironmentAssumption
        DEF ExecuteRound, Settle, RoundSends, StructInv, TypeOK
<1>8. pendingShortfall' = pendingShortfall + (memberCount - PaidCount(k)) * contribution
    <2>1. CASE defaultPolicy = OrganizerCover
        BY <2>1 DEF ExecuteRound, Shortfall
    <2>2. CASE defaultPolicy # OrganizerCover
        BY <1>4, <2>2, KyeInitAssumption DEF ExecuteRound, StructInv, TypeOK
    <2> QED BY <2>1, <2>2
<1>9. Spare' = balance' + pendingShortfall' - SELF_KEEP
    <2>1. CASE k + 1 > memberCount
        BY <1>1, <2>1, KyeInitAssumption, EnvironmentAssumption
            DEF ExecuteRound, Spare, StructInv, TypeOK
    <2>2. CASE k + 1 <= memberCount
        <3>1. k + 1 \in Order /\ status' = Active
            BY <1>1, <2>2, KyeInitAssumption DEF ExecuteRound, Order
        <3>2. PaidCount(k + 1) = 0
            BY <1>1, <3>1, FutureUnpaid DEF Order
        <3>3. PaidCount(currentRound)' = 0
            BY <1>1, <1>2, <3>1, <3>2 DEF ExecuteRound, PaidCount, PaidOrders
        <3> QED BY <3>1, <3>3, KyeInitAssumption, EnvironmentAssumption
                DEF Spare, StructInv, TypeOK
    <2> QED BY <1>1, <2>1, <2>2, KyeInitAssumption DEF Order
<1>10. Spare' >= Spare + net - I
    <2>1. PaidCount(k) \in Int /\ contribution \in Int /\ memberCount \in Int
        BY PaidCountRange, KyeInitAssumption
    <2>2. (memberCount - PaidCount(k)) * contribution
            = FullPool - contribution * PaidCount(k)
        BY <2>1 DEF FullPool
    <2>3. Spare = balance + pendingShortfall - SELF_KEEP - contribution * PaidCount(k)
        BY <1>1 DEF Spare
    <2>4. contribution * PaidCount(k) \in Int /\ SELF_KEEP \in Int
          /\ balance \in Int /\ balance' \in Int /\ pendingShortfall \in Int
          /\ pendingShortfall' \in Int
        BY <2>1, EnvironmentAssumption DEF StructInv, TypeOK
    <2>5. FeesTotal(FullPool) + net = FullPool /\ net \in Int /\ FullPool \in Int
        BY FullPoolNet
    <2> HIDE DEF I, net
    <2> QED BY <1>6, <1>7, <1>8, <1>9, <2>2, <2>3, <2>4, <2>5
<1>11. M \in Nat /\ M > 0 /\ w \in Int /\ net \in Int /\ Spare \in Int /\ Spare' \in Int
    <2>1. (StructInv => Spare \in Int /\ HeldBack(currentRound) \in Int)'
        BY SpareType, PTL
    <2>2. M \in Nat /\ M > 0
        BY KyeInitAssumption
    <2>3. w \in Int /\ net \in Int
        BY FullPoolNet
    <2> QED BY <2>1, <2>2, <2>3, SpareType
<1>12. M * Spare >= w * ((k - 1) * (memberCount + 1 - k))
    BY <1>1, <1>3 DEF SavingsCoverBonuses, HeldBack
<1>13. M * (I - net) <= w * (2 * k - memberCount - 1)
    BY <1>1, IntendedBound
<1>14. w * ((k - 1) * (memberCount + 1 - k)) - w * (2 * k - memberCount - 1)
         = w * (k * (memberCount - k))
    <2>1. k \in Int /\ memberCount \in Int
        BY <1>1, KyeInitAssumption DEF Order
    <2> HIDE DEF w, k
    <2> QED BY <1>11, <2>1, SavingsStep
<1>15. M * Spare' >= M * Spare - M * (I - net)
    <2> HIDE DEF M, I, net
    <2>1. M * (Spare - (I - net)) <= M * Spare'
        <3>1. Spare - (I - net) \in Int /\ Spare - (I - net) <= Spare'
            BY <1>6, <1>10, <1>11
        <3> QED BY <1>11, <3>1, MulMono
    <2>2. M * (Spare - (I - net)) = M * Spare - M * (I - net)
        BY <1>6, <1>11
    <2> QED BY <2>1, <2>2
<1>16. HeldBack(k + 1) = w * (k * (memberCount - k))
    <2>1. (k + 1) - 1 = k /\ memberCount + 1 - (k + 1) = memberCount - k
        BY <1>1, KyeInitAssumption DEF Order
    <2> QED BY <2>1 DEF HeldBack
<1> QED
    <2> DEFINE a == M * Spare
               b == M * Spare'
               c == M * (I - net)
               d == w * ((k - 1) * (memberCount + 1 - k))
               e == w * (2 * k - memberCount - 1)
               f == w * (k * (memberCount - k))
    <2>1. a \in Int /\ b \in Int /\ c \in Int
        BY <1>6, <1>11
    <2>2. d \in Int /\ e \in Int /\ f \in Int
        BY <1>1, <1>11, KyeInitAssumption DEF Order
    <2>3. a >= d /\ c <= e /\ d - e = f /\ b >= a - c
        BY <1>12, <1>13, <1>14, <1>15
    <2>4. b >= f
        <3> HIDE DEF a, b, c, d, e, f
        <3> QED BY <2>1, <2>2, <2>3
    <2> QED BY <1>16, <2>4

LEMMA InitSolvency == Init => SolvencyInv
<1> SUFFICES ASSUME Init PROVE SolvencyInv
    OBVIOUS
<1>1. StructInv /\ DebtInv
    BY InitStruct DEF Init, DebtInv
<1>2. SavingsCoverBonuses
    <2> SUFFICES ASSUME GasCovered
                 PROVE  10000 * (memberCount - 1) * Spare >= HeldBack(currentRound)
        BY DEF SavingsCoverBonuses
    <2>1. Spare \in Int /\ Spare >= 0
        BY KyeInitAssumption, EnvironmentAssumption DEF Init, Spare, GasCovered
    <2>2. HeldBack(currentRound) = 0
        <3>1. currentRound = 1 /\ memberCount \in Int
            BY KyeInitAssumption DEF Init
        <3>2. (1 - 1) * (memberCount + 1 - 1) = 0
            BY <3>1
        <3> QED BY <3>1, <3>2, FullPoolNet DEF HeldBack
    <2>3. 10000 * (memberCount - 1) \in Nat
        BY KyeInitAssumption
    <2>4. \A m \in Nat, x \in Int : x >= 0 => m * x >= 0
        OBVIOUS
    <2> QED BY <2>1, <2>2, <2>3, <2>4
<1> QED BY <1>1, <1>2 DEF SolvencyInv

(* Messages that leave rounds and records alone and do not lower the        *)
(* balance together with the organizer's debt.                              *)
LEMMA QuietSolvency ==
    ASSUME SolvencyInv, StructInv', UNCHANGED <<contributions, currentRound>>,
           status # Cancelled, GasCovered => Spare' >= Spare
    PROVE  SavingsCoverBonuses'
<1>1. ShortfallsBooked(currentRound)' => ShortfallsBooked(currentRound)
    BY DEF ShortfallsBooked, PaidCount, PaidOrders
<1> QED BY <1>1, SameRoundSavings DEF SolvencyInv

LEMMA JoinSolvency ==
    ASSUME SolvencyInv, StructInv', NEW s \in Account, NEW i \in Order,
           NEW v \in GasValue, JoinKye(s, i, v)
    PROVE  SavingsCoverBonuses'
<1> USE DEF SolvencyInv
<1>1. contributions' = {} /\ contributions = {}
    BY DEF JoinKye, StructInv, RecordsInv
<1>2. PaidCount(currentRound)' = 0
    <2>1. PaidOrders(currentRound)' = {}
        BY <1>1 DEF PaidOrders
    <2> QED BY <2>1, FS_EmptySet DEF PaidCount
<1>3. balance' >= balance
    BY ValuesAreAmounts, EnvironmentAssumption DEF JoinKye, Settle, StructInv, TypeOK
<1>4. Spare = balance + pendingShortfall - SELF_KEEP
    BY KyeInitAssumption, EnvironmentAssumption DEF JoinKye, Spare, StructInv, TypeOK
<1>5. Spare' = balance' + pendingShortfall - SELF_KEEP
    BY <1>2, KyeInitAssumption, EnvironmentAssumption
        DEF JoinKye, Spare, StructInv, TypeOK
<1>6. Spare' >= Spare
    <2>1. balance \in Int /\ balance' \in Int /\ pendingShortfall \in Int
          /\ SELF_KEEP \in Int
        BY EnvironmentAssumption DEF StructInv, TypeOK
    <2>2. \A x, y, p, q \in Int : y >= x => y + p - q >= x + p - q
        OBVIOUS
    <2> QED BY <1>3, <1>4, <1>5, <2>1, <2>2
<1> QED BY <1>6, QuietSolvency DEF JoinKye

(* A top-up pays the debt down by no more than it brings.                   *)
LEMMA TopUpSolvency ==
    ASSUME SolvencyInv, StructInv', NEW v \in PaymentValue, TopUp(v)
    PROVE  SavingsCoverBonuses'
<1> USE DEF SolvencyInv
<1>1. CASE status = Cancelled
    BY <1>1 DEF TopUp, SavingsCoverBonuses
<1>2. CASE status # Cancelled
    <2>1. ASSUME GasCovered
          PROVE  balance' + pendingShortfall' >= balance + pendingShortfall
        <3>1. CASE defaultPolicy = OrganizerCover
            BY <2>1, <3>1, ValuesAreAmounts
                DEF GasCovered, TopUp, Settle, StructInv, TypeOK
        <3>2. CASE defaultPolicy # OrganizerCover
            BY <3>2, ValuesAreAmounts, EnvironmentAssumption
                DEF DebtInv, TopUp, Settle, StructInv, TypeOK
        <3> QED BY <3>1, <3>2
    <2>2. PaidCount(currentRound)' = PaidCount(currentRound)
        BY DEF TopUp, PaidCount, PaidOrders
    <2> DEFINE held == contribution * (IF status = Active THEN PaidCount(currentRound) ELSE 0)
    <2>3. held \in Int
        BY PaidCountRange, KyeInitAssumption
    <2>4. Spare = balance + pendingShortfall - SELF_KEEP - held
        BY DEF Spare
    <2>5. Spare' = balance' + pendingShortfall' - SELF_KEEP - held
        BY <2>2 DEF TopUp, Spare
    <2>6. balance \in Int /\ balance' \in Int /\ pendingShortfall \in Int
          /\ pendingShortfall' \in Int /\ SELF_KEEP \in Int
        BY EnvironmentAssumption DEF StructInv, TypeOK
    <2>7. ASSUME GasCovered PROVE Spare' >= Spare
        <3>1. balance' + pendingShortfall' >= balance + pendingShortfall
            BY <2>1, <2>7
        <3> HIDE DEF held
        <3>2. \A x, y, p, q, r, h \in Int :
                y + q >= x + p => y + q - r - h >= x + p - r - h
            OBVIOUS
        <3> QED BY <2>3, <2>4, <2>5, <2>6, <3>1, <3>2
    <2> QED BY <1>2, <2>7, QuietSolvency DEF TopUp
<1> QED BY <1>1, <1>2

LEMMA NextSolvency == SolvencyInv /\ [Next]_vars => SolvencyInv'
<1> SUFFICES ASSUME SolvencyInv, [Next]_vars PROVE SolvencyInv'
    OBVIOUS
<1>0. StructInv'
    BY NextStruct DEF SolvencyInv
<1> SUFFICES DebtInv' /\ SavingsCoverBonuses'
    BY <1>0 DEF SolvencyInv
<1>1. ASSUME NEW s \in Account, NEW v \in GasValue, NEW i \in Order, JoinKye(s, i, v)
      PROVE  DebtInv' /\ SavingsCoverBonuses'
    BY <1>0, <1>1, JoinSolvency DEF JoinKye, DebtInv, SolvencyInv
<1>2. ASSUME NEW s \in Account, NEW v \in GasValue, EmergencyCancel(s, v)
      PROVE  DebtInv' /\ SavingsCoverBonuses'
    BY <1>2 DEF EmergencyCancel, DebtInv, SolvencyInv, SavingsCoverBonuses
<1>3. ASSUME NEW s \in Account, NEW v \in GasValue, ClaimRefund(s, v)
      PROVE  DebtInv' /\ SavingsCoverBonuses'
    BY <1>3 DEF ClaimRefund, DebtInv, SolvencyInv, SavingsCoverBonuses
<1>4. ASSUME NEW s \in Account, NEW v \in GasValue, ClaimRefundReverts(s, v)
      PROVE  DebtInv' /\ SavingsCoverBonuses'
    BY <1>4 DEF ClaimRefundReverts, DebtInv, SolvencyInv, SavingsCoverBonuses
<1>5. ASSUME NEW s \in Account, NEW v \in PaymentValue, NEW r \in Order,
             Contribute(s, r, v)
      PROVE  DebtInv' /\ SavingsCoverBonuses'
    BY <1>0, <1>5, ContributeSolvency DEF Contribute, DebtInv, SolvencyInv
<1>6. ASSUME NEW v \in GasValue, ExecuteRoundMsg(v)
      PROVE  DebtInv' /\ SavingsCoverBonuses'
    <2>1. CASE ExecuteRound(v)
        <3>1. DebtInv'
            BY <2>1 DEF ExecuteRound, DebtInv, SolvencyInv, StructInv, TypeOK
        <3> QED BY <1>0, <2>1, <3>1, ExecuteSolvency
    <2>2. CASE ExecuteRoundCancels(v)
        BY <2>2 DEF ExecuteRoundCancels, DebtInv, SolvencyInv, SavingsCoverBonuses
    <2>3. CASE ExecuteRoundReverts(v)
        <3>1. PaidCount(currentRound)' = PaidCount(currentRound)
              /\ contribution * PaidCount(currentRound) \in Int
            BY <2>3, PaidCountRange, KyeInitAssumption
                DEF ExecuteRoundReverts, PaidCount, PaidOrders
        <3>2. Spare' >= Spare
            BY <2>3, <3>1, ValuesAreAmounts, KyeInitAssumption, EnvironmentAssumption
                DEF ExecuteRoundReverts, Settle, Spare, SolvencyInv, StructInv, TypeOK
        <3> QED BY <1>0, <2>3, <3>2, QuietSolvency
                DEF ExecuteRoundReverts, PaysOut, Executable, DebtInv, SolvencyInv
    <2> QED BY <1>6, <2>1, <2>2, <2>3 DEF ExecuteRoundMsg
<1>7. ASSUME NEW v \in PaymentValue, TopUp(v)
      PROVE  DebtInv' /\ SavingsCoverBonuses'
    <2>1. DebtInv'
        BY <1>7, ValuesAreAmounts DEF TopUp, DebtInv, SolvencyInv
    <2> QED BY <1>0, <1>7, <2>1, TopUpSolvency
<1>8. ASSUME UNCHANGED <<setup, status, contributions, currentRound,
                         pendingShortfall, balance>>
      PROVE  DebtInv' /\ SavingsCoverBonuses'
    BY <1>8 DEF DebtInv, SolvencyInv, SavingsCoverBonuses, ShortfallsBooked,
        GasCovered, Spare, PaidCount, PaidOrders, HeldBack, NetPool,
        PlatformFee, OrganizerFee, FullPool, Excess
<1>9. CASE Tick
    BY <1>8, <1>9 DEF Tick
<1>10. CASE UNCHANGED vars
    BY <1>8, <1>10 DEF vars, setup
<1> QED
    BY <1>1, <1>2, <1>3, <1>4, <1>5, <1>6, <1>7, <1>9, <1>10 DEF Next

LEMMA SolvencyAlways == Spec => []SolvencyInv
BY InitSolvency, NextSolvency, PTL DEF Spec

(* The savings of the early rounds always cover the bonuses still to come,  *)
(* whatever N, contribution, fee, alpha, interval, timing and top-ups.      *)
THEOREM SavingsTheorem == Spec => []SavingsCoverBonuses
BY SolvencyAlways, PTL DEF SolvencyInv

(* With k (N - k) >= 0 the invariant leaves room for the full payout of a   *)
(* fully paid round.                                                        *)
LEMMA SolvencyFunds == SolvencyInv => FundedRoundPaysInFull
<1> SUFFICES ASSUME SolvencyInv, NEW v \in GasValue, GasCovered, status = Active,
                    ShortfallsBooked(currentRound + 1),
                    PaidCount(currentRound) = memberCount,
                    pendingShortfall = 0
             PROVE  /\ ~Capped(currentRound, FullPool, balance + v)
                    /\ Affordable(currentRound, v)
    BY DEF FundedRoundPaysInFull
<1> USE DEF SolvencyInv
<1> DEFINE k == currentRound
           M == 10000 * (memberCount - 1)
           w == NetPool(FullPool) * timeAdjustmentMaxBps
           I == IntendedPayout(k, FullPool)
           net == NetPool(FullPool)
<1>1. k \in Order
    BY KyeInitAssumption DEF StructInv, TypeOK, RecordsInv, Order
<1>2. M * Spare >= w * ((k - 1) * (memberCount + 1 - k))
    BY <1>1 DEF SavingsCoverBonuses, HeldBack, ShortfallsBooked, Order
<1>3. I \in Nat /\ M * (I - net) <= w * (2 * k - memberCount - 1)
    BY <1>1, IntendedBound
<1>4. M \in Nat /\ M > 0 /\ w \in Nat /\ net \in Int /\ Spare \in Int
    BY SpareType, KyeInitAssumption, FullPoolNet
<1>5. w * (2 * k - memberCount - 1) <= w * ((k - 1) * (memberCount + 1 - k))
    <2>1. k \in Int /\ memberCount \in Int /\ 1 <= k /\ k <= memberCount
        BY <1>1, KyeInitAssumption DEF Order
    <2> HIDE DEF w, k
    <2>2. w * ((k - 1) * (memberCount + 1 - k)) - w * (2 * k - memberCount - 1)
            = w * (k * (memberCount - k))
        BY <1>4, <2>1, SavingsStep
    <2>3. k * (memberCount - k) \in Nat
        BY <2>1
    <2>4. w * (k * (memberCount - k)) \in Nat
        BY <1>4, <2>3
    <2>5. w * ((k - 1) * (memberCount + 1 - k)) \in Int
          /\ w * (2 * k - memberCount - 1) \in Int
        BY <1>4, <2>1
    <2> QED BY <2>2, <2>4, <2>5
<1>6. I - net <= Spare
    <2>1. M * (I - net) \in Int /\ M * Spare \in Int
        BY <1>3, <1>4
    <2>2. w * ((k - 1) * (memberCount + 1 - k)) \in Int
          /\ w * (2 * k - memberCount - 1) \in Int
        BY <1>1, <1>4, KyeInitAssumption DEF Order
    <2>3. M * (I - net) <= M * Spare
        <3> HIDE DEF M, I, net, w, k
        <3> QED BY <1>2, <1>3, <1>5, <2>1, <2>2
    <2> HIDE DEF M, I, net
    <2> QED BY <1>3, <1>4, <2>3, MulCancel
<1>7. FeesTotal(FullPool) + I <= balance - SELF_KEEP
    <2>1. Spare = balance - SELF_KEEP - FullPool
        BY KyeInitAssumption, EnvironmentAssumption
            DEF Spare, FullPool, StructInv, TypeOK
    <2>2. FeesTotal(FullPool) + net = FullPool /\ FeesTotal(FullPool) \in Int
          /\ FullPool \in Int
        BY FullPoolNet
    <2>3. balance \in Int /\ SELF_KEEP \in Int
        BY EnvironmentAssumption DEF StructInv, TypeOK
    <2> HIDE DEF I, net
    <2> QED BY <1>3, <1>4, <1>6, <2>1, <2>2, <2>3
<1>8. v \in Nat /\ v >= TxFee /\ TxFee \in Nat /\ SELF_KEEP \in Nat /\ balance \in Nat
      /\ FeesTotal(FullPool) \in Nat
    BY ValuesAreAmounts, EnvironmentAssumption, FullPoolNet DEF StructInv, TypeOK
<1>9. ~Capped(k, FullPool, balance + v)
    <2> HIDE DEF I
    <2> QED BY <1>3, <1>7, <1>8 DEF Capped, Available, I
<1>10. RoundPool(k) = FullPool
    BY DEF RoundPool, FullPool
<1>11. RoundSends(k, v) = FeesTotal(FullPool) + I
    BY <1>9, <1>10 DEF RoundSends, Payout
<1> QED
    <2> HIDE DEF I
    <2> QED BY <1>3, <1>7, <1>8, <1>9, <1>11 DEF Affordable

(* A fully paid round always pays its intended amount and never reverts: a  *)
(* circle nobody defaults on runs to its end without a capped payout.       *)
THEOREM FundedRoundsTheorem == Spec => []FundedRoundPaysInFull
BY SolvencyAlways, SolvencyFunds, PTL

-----------------------------------------------------------------------------
(* The payout a page shows against the payout the contract makes *)

(* Products and quotients.                                                  *)

LEMMA ProductInt ==
    ASSUME NEW x \in Int, NEW y \in Int
    PROVE  x * y \in Int
OBVIOUS

LEMMA ProductNat ==
    ASSUME NEW x \in Nat, NEW y \in Nat
    PROVE  x * y \in Nat
OBVIOUS

LEMMA ProductMonotone ==
    ASSUME NEW d \in Nat, NEW x \in Int, NEW y \in Int, x <= y
    PROVE  d * x <= d * y
<1>1. y - x \in Nat /\ d * (y - x) >= 0
    OBVIOUS
<1>2. d * (y - x) = d * y - d * x
    OBVIOUS
<1> QED BY <1>1, <1>2, ProductInt

LEMMA ProductCancels ==
    ASSUME NEW d \in Nat, d > 0, NEW x \in Int, NEW y \in Int, d * x <= d * y
    PROVE  x <= y
<1> SUFFICES ASSUME y < x PROVE FALSE
    OBVIOUS
<1>1. d * (y + 1) <= d * x
    BY ProductMonotone
<1>2. d * (y + 1) = d * y + d
    OBVIOUS
<1> QED BY <1>1, <1>2, ProductInt

(* A quotient is determined by its bounds.                                  *)
LEMMA DivUnique ==
    ASSUME NEW x \in Int, NEW d \in Int, d > 0, NEW q \in Int,
           d * q <= x, x < d * q + d
    PROVE  x \div d = q
<1> DEFINE e == x \div d
<1>1. e \in Int /\ d * e <= x /\ x < d * e + d
    BY DivFacts
<1>2. d * (q - e) < d /\ d * (e - q) < d
    <2> HIDE DEF e
    <2> QED BY <1>1
<1>3. ~(q - e >= 1) /\ ~(e - q >= 1)
    <2> HIDE DEF e
    <2> QED BY <1>1, <1>2
<1> HIDE DEF e
<1> QED BY <1>1, <1>3 DEF e

(* floorDiv of payout.ts is the contract's division.                        *)
LEMMA FloorDivIsDiv ==
    ASSUME NEW x \in Int, NEW d \in Int, d > 0
    PROVE  floorDiv(x, d) = x \div d
<1>1. CASE x >= 0
    <2>1. Quotient(x, d) = x \div d
        BY <1>1 DEF Quotient
    <2>2. x - d * (x \div d) >= 0
        BY DivFacts
    <2> QED BY <2>1, <2>2, DivFacts DEF floorDiv
<1>2. CASE x < 0
    <2> DEFINE p == (-x) \div d
    <2>1. p \in Int /\ d * p <= -x /\ -x < d * p + d
        BY DivFacts
    <2>2. Quotient(x, d) = -p
        BY <1>2 DEF Quotient
    <2> HIDE DEF p
    <2>3. x - d * (-p) = x + d * p /\ d * (-p - 1) = -(d * p) - d
        BY <2>1
    <2>4. CASE x + d * p = 0
        <3>1. floorDiv(x, d) = -p
            BY <2>1, <2>2, <2>3, <2>4 DEF floorDiv
        <3>2. d * (-p) <= x /\ x < d * (-p) + d
            BY <2>1, <2>3, <2>4
        <3> QED BY <2>1, <3>1, <3>2, DivUnique
    <2>5. CASE x + d * p # 0
        <3>1. floorDiv(x, d) = -p - 1
            BY <2>1, <2>2, <2>3, <2>5 DEF floorDiv
        <3>2. d * (-p - 1) <= x /\ x < d * (-p - 1) + d
            BY <2>1, <2>3, <2>5
        <3> QED BY <2>1, <3>1, <3>2, DivUnique
    <2> QED BY <2>4, <2>5
<1> QED BY <1>1, <1>2

-----------------------------------------------------------------------------
(* Fees, adjustment, payout *)

(* The page rounds the fee down once, the contract twice.                   *)
LEMMA FeesDifferByOne ==
    ASSUME NEW pool \in Nat
    PROVE  /\ net_pool(pool) \in Int
           /\ NetPool(pool) = net_pool(pool) \/ NetPool(pool) = net_pool(pool) + 1
<1> DEFINE p == PlatformFee(pool)
           o == OrganizerFee(pool)
           f == fee(pool)
<1>1. pool * feeRateBps \in Int /\ pool * (feeRateBps - 50) \in Int
    BY KyeInitAssumption
<1>2. p \in Int /\ 10000 * p <= pool * 50 /\ pool * 50 < 10000 * p + 10000
    BY DivFacts DEF PlatformFee
<1>3. /\ o \in Int /\ 10000 * o <= pool * feeRateBps - pool * 50
      /\ pool * feeRateBps - pool * 50 < 10000 * o + 10000
    <2>1. pool * (feeRateBps - 50) = pool * feeRateBps - pool * 50
        BY KyeInitAssumption
    <2>2. /\ o \in Int /\ 10000 * o <= pool * (feeRateBps - 50)
          /\ pool * (feeRateBps - 50) < 10000 * o + 10000
        BY <1>1, DivFacts DEF OrganizerFee
    <2> QED BY <2>1, <2>2
<1>4. f \in Int /\ 10000 * f <= pool * feeRateBps /\ pool * feeRateBps < 10000 * f + 10000
    <2>1. f = (pool * feeRateBps) \div 10000
        BY <1>1, FloorDivIsDiv DEF fee
    <2> HIDE DEF f
    <2> QED BY <1>1, <2>1, DivFacts
<1>5. f = p + o \/ f = p + o + 1
    <2> HIDE DEF p, o, f
    <2> QED BY <1>1, <1>2, <1>3, <1>4
<1> QED BY <1>2, <1>3, <1>4, <1>5 DEF NetPool, net_pool

LEMMA SameAdjustment ==
    ASSUME NEW k \in Order
    PROVE  adj_bps(k) = AdjustmentBps(k)
<1>1. /\ memberCount - 1 \in Int /\ memberCount - 1 > 0
      /\ (2 * k - memberCount - 1) * timeAdjustmentMaxBps \in Int
    BY KyeInitAssumption DEF Order
<1> QED BY <1>1, FloorDivIsDiv DEF adj_bps, AdjustmentBps

LEMMA AdjustmentTop ==
    ASSUME NEW k \in Order
    PROVE  AdjustmentBps(k) \in Int /\ AdjustmentBps(k) >= -10000 /\ AdjustmentBps(k) <= 10000
<1> DEFINE A == AdjustmentBps(k)
           n == memberCount - 1
           x == (2 * k - memberCount - 1) * timeAdjustmentMaxBps
<1>1. /\ n \in Nat /\ n > 0 /\ 2 * k - memberCount - 1 <= n
      /\ 2 * k - memberCount - 1 \in Int /\ timeAdjustmentMaxBps \in 0..10000
    BY KyeInitAssumption DEF Order
<1>2. A \in Int /\ n * A <= x /\ A >= -10000
    BY AdjustmentRange
<1>3. x <= n * timeAdjustmentMaxBps
    <2>1. timeAdjustmentMaxBps * (2 * k - memberCount - 1) <= timeAdjustmentMaxBps * n
        <3> HIDE DEF n
        <3> QED BY <1>1, ProductMonotone
    <2> QED BY <1>1, <2>1
<1>4. n * timeAdjustmentMaxBps <= n * 10000
    <2> HIDE DEF n
    <2> QED BY <1>1, ProductMonotone
<1>5. x \in Int /\ n * timeAdjustmentMaxBps \in Int /\ n * A \in Int
    <2> HIDE DEF A, n
    <2> QED BY <1>1, <1>2, ProductInt
<1>6. A <= 10000
    <2> HIDE DEF A, n, x
    <2> DEFINE nA == n * A
               nt == n * timeAdjustmentMaxBps
    <2>1. nA \in Int /\ nt \in Int /\ nA <= x /\ x <= nt /\ nt <= n * 10000
        BY <1>2, <1>3, <1>4, <1>5
    <2>2. n * A <= n * 10000
        <3>1. nA <= n * 10000
            <4> HIDE DEF nA, nt
            <4> QED BY <1>1, <1>5, <2>1
        <3> QED BY <3>1
    <2> QED BY <1>1, <1>2, <2>2, ProductCancels
<1>7. A \in Int /\ A >= -10000
    BY <1>2
<1> QED BY <1>6, <1>7

(* One unit more in the pool is at most two more in the payout.             *)
LEMMA OneMoreInThePool ==
    ASSUME NEW n \in Int, NEW w \in Nat, w <= 20000
    PROVE  /\ (n * w) \div 10000 <= ((n + 1) * w) \div 10000
           /\ ((n + 1) * w) \div 10000 <= (n * w) \div 10000 + 2
<1> DEFINE m == n * w
           l == m \div 10000
           h == (m + w) \div 10000
<1>1. m \in Int /\ w \in Nat /\ w <= 20000
    BY ProductInt
<1>2. l \in Int /\ 10000 * l <= m /\ m < 10000 * l + 10000
    BY <1>1, DivFacts
<1>3. h \in Int /\ 10000 * h <= m + w /\ m + w < 10000 * h + 10000
    BY <1>1, DivFacts
<1>4. l <= h /\ h <= l + 2
    <2> HIDE DEF m, l, h
    <2> QED BY <1>1, <1>2, <1>3
<1>5. (n + 1) * w = m + w
    OBVIOUS
<1> QED BY <1>4, <1>5

(* What the app shows for a slot is at most what the contract intends to    *)
(* pay for it from a full pool, and at least that less two units.           *)
LEMMA PreviewOfIntended ==
    ASSUME NEW k \in Order
    PROVE  /\ calculate_payout(k) <= IntendedPayout(k, FullPool)
           /\ IntendedPayout(k, FullPool) <= calculate_payout(k) + 2
<1> DEFINE n == net_pool(FullPool)
           w == 10000 + AdjustmentBps(k)
<1>1. FullPool \in Nat
    BY KyeInitAssumption DEF FullPool
<1>2. n \in Int /\ (NetPool(FullPool) = n \/ NetPool(FullPool) = n + 1)
    BY <1>1, FeesDifferByOne
<1>3. w \in Nat /\ w <= 20000
    BY AdjustmentTop
<1>4. calculate_payout(k) = (n * w) \div 10000
    <2>1. calculate_payout(k) = floorDiv(n * w, 10000)
        BY SameAdjustment DEF calculate_payout
    <2> HIDE DEF n, w
    <2>2. n * w \in Int
        BY <1>2, <1>3, ProductInt
    <2> QED BY <2>1, <2>2, FloorDivIsDiv
<1>5. FlooredPayout(k, FullPool) = (NetPool(FullPool) * w) \div 10000
    BY DEF FlooredPayout
<1>6. FlooredPayout(k, FullPool) \in Int /\ FlooredPayout(k, FullPool) >= 0
    <2>1. NetPool(FullPool) \in Nat
        BY <1>1, FeesWithinPool
    <2> HIDE DEF w
    <2>2. NetPool(FullPool) * w \in Nat
        BY <1>3, <2>1, ProductNat
    <2> QED BY <1>5, <2>2, DivFacts
<1>7. IntendedPayout(k, FullPool) = (NetPool(FullPool) * w) \div 10000
    <2>1. ~(FlooredPayout(k, FullPool) < 0)
        BY <1>6
    <2> HIDE DEF w
    <2> QED BY <1>5, <2>1 DEF IntendedPayout
<1> HIDE DEF n, w
<1>8. (n * w) \div 10000 \in Int
    BY <1>2, <1>3, DivFacts
<1>9. CASE NetPool(FullPool) = n
    BY <1>4, <1>7, <1>8, <1>9
<1>10. CASE NetPool(FullPool) = n + 1
    <2>1. IntendedPayout(k, FullPool) = ((n + 1) * w) \div 10000
        BY <1>7, <1>10
    <2>2. /\ (n * w) \div 10000 <= ((n + 1) * w) \div 10000
          /\ ((n + 1) * w) \div 10000 <= (n * w) \div 10000 + 2
        <3>1. n \in Int
            BY <1>2
        <3> QED BY <1>3, <3>1, OneMoreInThePool
    <2> QED BY <1>4, <2>1, <2>2
<1> QED BY <1>2, <1>9, <1>10

-----------------------------------------------------------------------------

LEMMA FundedPreview == TypeOK /\ RecordsInv /\ FundedRoundPaysInFull => PreviewKept
<1> SUFFICES ASSUME TypeOK, RecordsInv, FundedRoundPaysInFull, NEW v \in GasValue,
                    GasCovered, status = Active, ShortfallsBooked(currentRound + 1),
                    PaidCount(currentRound) = memberCount, pendingShortfall = 0
             PROVE  /\ calculate_payout(currentRound) <= Payout(currentRound, FullPool, balance + v)
                    /\ Payout(currentRound, FullPool, balance + v)
                        <= calculate_payout(currentRound) + 2
    BY DEF PreviewKept
<1>1. ~Capped(currentRound, FullPool, balance + v)
    BY DEF FundedRoundPaysInFull
<1>2. Payout(currentRound, FullPool, balance + v) = IntendedPayout(currentRound, FullPool)
    BY <1>1 DEF Payout
<1>3. currentRound \in Order
    BY KyeInitAssumption DEF TypeOK, RecordsInv, Order, Active, Completed
<1> QED BY <1>2, <1>3, PreviewOfIntended

(* For every circle the factory can deploy: the winner of a fully paid      *)
(* round gets what the app showed, or up to two units more.                 *)
THEOREM PreviewTheorem == Spec => []PreviewKept
BY TypeCorrect, RecordsCorrect, FundedRoundsTheorem, FundedPreview, PTL

-----------------------------------------------------------------------------
(***************************************************************************)
(* Part 3: sums.  RefundsDue is defined by recursion over the subsets of   *)
(* Account.  Its facts are proved by induction on the size of a subset,    *)
(* through the least element of a set of numbers.                          *)
(***************************************************************************)

LEMMA LeastNumber ==
    ASSUME NEW C \in SUBSET Nat, C # {}
    PROVE  \E n \in C : \A m \in C : n <= m
<1>1. IsWellFoundedOn(OpToRel(<, Nat), Nat)
    BY NatLessThanWellFounded
<1>2. PICK n \in C : \A m \in C : <<m, n>> \notin OpToRel(<, Nat)
    BY <1>1, WFMin
<1>3. \A m \in C : ~(m < n)
    BY <1>2 DEF OpToRel
<1> QED BY <1>3

LEMMA AllNumbers ==
    ASSUME NEW C \in SUBSET Nat, 0 \in C, \A n \in C : n + 1 \in C
    PROVE  C = Nat
<1> SUFFICES ASSUME Nat \ C # {} PROVE FALSE
    OBVIOUS
<1>1. PICK n \in Nat \ C : \A m \in Nat \ C : n <= m
    BY LeastNumber
<1>2. n # 0 /\ n - 1 \in Nat /\ n - 1 \notin Nat \ C
    BY <1>1
<1> QED BY <1>1, <1>2

(* The element that SumOver takes off a set first, and the equation that    *)
(* its recursive function solves.                                           *)
Pick(T) == CHOOSE x \in T : TRUE
SumStep(f, g, T) == IF T = {} THEN 0 ELSE f[Pick(T)] + g[T \ {Pick(T)}]

LEMMA PickIn == \A T : T # {} => Pick(T) \in T
BY DEF Pick

LEMMA SubsetSizes ==
    ASSUME NEW S, IsFiniteSet(S), NEW T \in SUBSET S
    PROVE  /\ IsFiniteSet(T)
           /\ Cardinality(T) \in Nat
           /\ Cardinality(T) <= Cardinality(S)
           /\ T # {} => /\ Cardinality(T) > 0
                        /\ T \ {Pick(T)} \in SUBSET S
                        /\ Cardinality(T \ {Pick(T)}) = Cardinality(T) - 1
<1>1. IsFiniteSet(T) /\ Cardinality(T) \in Nat /\ Cardinality(T) <= Cardinality(S)
    BY FS_Subset, FS_CardinalityType
<1>2. ASSUME T # {}
      PROVE  /\ Cardinality(T) > 0
             /\ T \ {Pick(T)} \in SUBSET S
             /\ Cardinality(T \ {Pick(T)}) = Cardinality(T) - 1
    <2>1. Pick(T) \in T
        BY <1>2, PickIn
    <2>2. Cardinality(T \ {Pick(T)}) = Cardinality(T) - 1
        BY <1>1, <2>1, FS_RemoveElement
    <2>3. Cardinality(T) # 0
        BY <1>1, <1>2, FS_EmptySet
    <2> QED BY <1>1, <2>2, <2>3
<1> QED BY <1>1, <1>2

(* Induction over the subsets of a finite set: a set of subsets that holds  *)
(* T whenever it holds T without its picked element has all of them.        *)
LEMMA AllSubsets ==
    ASSUME NEW S, IsFiniteSet(S), NEW C, {} \in C,
           \A T \in SUBSET S : T # {} /\ T \ {Pick(T)} \in C => T \in C
    PROVE  SUBSET S \subseteq C
<1> DEFINE D == {n \in Nat : \A T \in SUBSET S : Cardinality(T) <= n => T \in C}
<1>1. 0 \in D
    <2> SUFFICES ASSUME NEW T \in SUBSET S, Cardinality(T) <= 0 PROVE T \in C
        OBVIOUS
    <2>1. Cardinality(T) \in Nat /\ (T # {} => Cardinality(T) > 0)
        BY SubsetSizes
    <2> QED BY <2>1
<1>2. ASSUME NEW n \in D PROVE n + 1 \in D
    <2>1. n \in Nat /\ n + 1 \in Nat
        OBVIOUS
    <2>2. ASSUME NEW T \in SUBSET S, Cardinality(T) <= n + 1 PROVE T \in C
        <3>1. CASE T = {}
            BY <3>1
        <3>2. CASE T # {}
            <4> DEFINE U == T \ {Pick(T)}
            <4>1. /\ U \in SUBSET S /\ Cardinality(T) \in Nat
                  /\ Cardinality(U) = Cardinality(T) - 1
                BY <3>2, SubsetSizes
            <4>2. Cardinality(U) <= n
                BY <2>1, <2>2, <4>1
            <4>3. U \in C
                BY <4>1, <4>2
            <4> QED BY <3>2, <4>3
        <3> QED BY <3>1, <3>2
    <2> QED BY <2>1, <2>2
<1>3. D = Nat
    <2>1. D \in SUBSET Nat
        OBVIOUS
    <2> HIDE DEF D
    <2> QED BY <1>1, <1>2, <2>1, AllNumbers
<1> SUFFICES ASSUME NEW T \in SUBSET S PROVE T \in C
    OBVIOUS
<1>4. Cardinality(T) \in D /\ Cardinality(T) \in Nat
    <2> HIDE DEF D
    <2> QED BY <1>3, SubsetSizes
<1> QED BY <1>4

(* Functions that solve it up to a given size exist, so one for all sizes.  *)
LEMMA SumExists ==
    ASSUME NEW S, IsFiniteSet(S), NEW f
    PROVE  \E g : g = [T \in SUBSET S |-> SumStep(f, g, T)]
<1> DEFINE C == {n \in Nat : \E g : \A T \in SUBSET S :
                    Cardinality(T) <= n => g[T] = SumStep(f, g, T)}
<1>1. 0 \in C
    <2> DEFINE g == [T \in SUBSET S |-> 0]
    <2>1. ASSUME NEW T \in SUBSET S, Cardinality(T) <= 0
          PROVE  g[T] = SumStep(f, g, T)
        <3>1. Cardinality(T) \in Nat /\ (T # {} => Cardinality(T) > 0)
            BY SubsetSizes
        <3>2. T = {}
            BY <2>1, <3>1
        <3> QED BY <3>2 DEF SumStep
    <2> QED BY <2>1
<1>2. ASSUME NEW n \in C PROVE n + 1 \in C
    <2>1. PICK g : \A T \in SUBSET S : Cardinality(T) <= n => g[T] = SumStep(f, g, T)
        OBVIOUS
    <2> DEFINE h == [T \in SUBSET S |-> SumStep(f, g, T)]
    <2>2. ASSUME NEW T \in SUBSET S, Cardinality(T) <= n + 1
          PROVE  h[T] = SumStep(f, h, T)
        <3>1. CASE T = {}
            BY <3>1 DEF SumStep
        <3>2. CASE T # {}
            <4> DEFINE U == T \ {Pick(T)}
            <4>1. /\ U \in SUBSET S /\ Cardinality(T) \in Nat
                  /\ Cardinality(U) = Cardinality(T) - 1
                BY <3>2, SubsetSizes
            <4>3. n \in Nat /\ Cardinality(U) <= n
                BY <2>2, <4>1
            <4>2. h[U] = g[U]
                BY <2>1, <4>1, <4>3
            <4> QED BY <3>2, <4>2 DEF SumStep
        <3> QED BY <3>1, <3>2
    <2>3. n \in Nat /\ n + 1 \in Nat
        OBVIOUS
    <2>4. \E e : \A T \in SUBSET S : Cardinality(T) <= n + 1 => e[T] = SumStep(f, e, T)
        <3> HIDE DEF h
        <3> QED BY <2>2
    <2> QED BY <2>3, <2>4
<1>3. C = Nat
    <2> HIDE DEF C
    <2>1. C \in SUBSET Nat
        BY DEF C
    <2> QED BY <1>1, <1>2, <2>1, AllNumbers
<1>4. Cardinality(S) \in C
    BY <1>3, FS_CardinalityType
<1>5. PICK g : \A T \in SUBSET S :
                 Cardinality(T) <= Cardinality(S) => g[T] = SumStep(f, g, T)
    BY <1>4
<1> DEFINE h == [T \in SUBSET S |-> g[T]]
<1>6. ASSUME NEW T \in SUBSET S PROVE h[T] = SumStep(f, h, T)
    <2>1. g[T] = SumStep(f, g, T)
        BY <1>5, SubsetSizes
    <2>2. T # {} => T \ {Pick(T)} \in SUBSET S
        BY SubsetSizes
    <2> QED BY <2>1, <2>2 DEF SumStep
<1>7. h = [T \in SUBSET S |-> SumStep(f, h, T)]
    <2>1. \A T \in SUBSET S : h[T] = SumStep(f, h, T)
        BY <1>6
    <2> QED BY <2>1
<1> QED BY <1>7

(* What SumOver computes: a function over the subsets solves its equation.  *)
SumsUp(f, S, g) ==
    /\ SumOver(f, S) = g[S]
    /\ \A T \in SUBSET S : g[T] = SumStep(f, g, T)

LEMMA SumSolves ==
    ASSUME NEW S, IsFiniteSet(S), NEW f
    PROVE  \E g : SumsUp(f, S, g)
<1> DEFINE g == CHOOSE g : g = [T \in SUBSET S |-> SumStep(f, g, T)]
<1>1. g = [T \in SUBSET S |-> SumStep(f, g, T)]
    BY SumExists
<1>2. SumOver(f, S) = g[S]
    BY DEF SumOver, SumStep, Pick
<1>3. \A T \in SUBSET S : g[T] = SumStep(f, g, T)
    BY <1>1
<1> QED BY <1>2, <1>3 DEF SumsUp

(* The same subsets are summed to at most m of what counts for them.        *)
LEMMA SumBound ==
    ASSUME NEW S, IsFiniteSet(S), NEW f \in [S -> Nat], NEW c \in [SUBSET S -> Nat],
           \A T \in SUBSET S :
               T # {} => f[Pick(T)] + c[T \ {Pick(T)}] <= c[T]
    PROVE  SumOver(f, S) \in Nat /\ SumOver(f, S) <= c[S]
<1> PICK g : SumsUp(f, S, g)
    BY SumSolves
<1>1. /\ SumOver(f, S) = g[S]
      /\ \A T \in SUBSET S : g[T] = SumStep(f, g, T)
    BY DEF SumsUp
<1> DEFINE C == {T \in SUBSET S : g[T] \in Nat /\ g[T] <= c[T]}
<1>2. {} \in C
    <2>1. {} \in SUBSET S /\ g[{}] = 0
        BY <1>1 DEF SumStep
    <2>2. c[{}] \in Nat
        OBVIOUS
    <2> QED BY <2>1, <2>2
<1>3. ASSUME NEW T \in SUBSET S, T # {}, T \ {Pick(T)} \in C PROVE T \in C
    <2> DEFINE U == T \ {Pick(T)}
    <2>1. g[T] = f[Pick(T)] + g[U]
        BY <1>1, <1>3 DEF SumStep
    <2>2. f[Pick(T)] \in Nat /\ U \in SUBSET S
        BY <1>3, PickIn
    <2>3. g[U] \in Nat /\ g[U] <= c[U] /\ c[U] \in Nat /\ c[T] \in Nat
        BY <1>3, <2>2
    <2>4. f[Pick(T)] + c[U] <= c[T]
        BY <1>3
    <2> HIDE DEF U
    <2> QED BY <2>1, <2>2, <2>3, <2>4
<1>4. SUBSET S \subseteq C
    <2> HIDE DEF C
    <2> QED BY <1>2, <1>3, AllSubsets
<1> QED BY <1>1, <1>4

(* Setting one term to 0 takes exactly that term off the sum.               *)
LEMMA SumWithout ==
    ASSUME NEW S, IsFiniteSet(S), NEW f \in [S -> Nat], NEW s \in S
    PROVE  SumOver([f EXCEPT ![s] = 0], S) = SumOver(f, S) - f[s]
<1> DEFINE e == [f EXCEPT ![s] = 0]
<1> PICK g : SumsUp(f, S, g)
    BY SumSolves
<1>1. /\ SumOver(f, S) = g[S]
      /\ \A T \in SUBSET S : g[T] = SumStep(f, g, T)
    BY DEF SumsUp
<1> PICK h : SumsUp(e, S, h)
    BY SumSolves
<1>2. /\ SumOver(e, S) = h[S]
      /\ \A T \in SUBSET S : h[T] = SumStep(e, h, T)
    BY DEF SumsUp
<1> DEFINE C == {T \in SUBSET S : /\ g[T] \in Nat
                                  /\ h[T] = g[T] - (IF s \in T THEN f[s] ELSE 0)}
<1>3. {} \in C
    <2>1. {} \in SUBSET S /\ g[{}] = 0 /\ h[{}] = 0
        BY <1>1, <1>2 DEF SumStep
    <2> QED BY <2>1
<1>4. ASSUME NEW T \in SUBSET S, T # {}, T \ {Pick(T)} \in C PROVE T \in C
    <2> DEFINE U == T \ {Pick(T)}
    <2>1. g[T] = f[Pick(T)] + g[U] /\ h[T] = e[Pick(T)] + h[U]
        BY <1>1, <1>2, <1>4 DEF SumStep
    <2>2. Pick(T) \in T /\ f[Pick(T)] \in Nat /\ U \in SUBSET S /\ f[s] \in Nat
        BY <1>4, PickIn
    <2>3. g[U] \in Nat /\ h[U] = g[U] - (IF s \in U THEN f[s] ELSE 0)
        BY <1>4, <2>2
    <2>4. CASE Pick(T) = s
        <3>1. s \in T /\ s \notin U /\ e[Pick(T)] = 0
            BY <2>2, <2>4
        <3> HIDE DEF U, e
        <3> QED BY <2>1, <2>2, <2>3, <2>4, <3>1
    <2>5. CASE Pick(T) # s
        <3>1. (s \in T <=> s \in U) /\ e[Pick(T)] = f[Pick(T)]
            BY <2>2, <2>5
        <3> HIDE DEF U, e
        <3> QED BY <2>1, <2>2, <2>3, <2>5, <3>1
    <2> QED BY <2>4, <2>5
<1>5. SUBSET S \subseteq C
    <2> HIDE DEF C
    <2> QED BY <1>3, <1>4, AllSubsets
<1>6. S \in C
    <2> HIDE DEF C
    <2> QED BY <1>5
<1> QED BY <1>1, <1>2, <1>6

LEMMA SumType ==
    ASSUME NEW S, IsFiniteSet(S), NEW f \in [S -> Nat]
    PROVE  SumOver(f, S) \in Nat
<1> PICK g : SumsUp(f, S, g)
    BY SumSolves
<1>1. /\ SumOver(f, S) = g[S]
      /\ \A T \in SUBSET S : g[T] = SumStep(f, g, T)
    BY DEF SumsUp
<1> DEFINE C == {T \in SUBSET S : g[T] \in Nat}
<1>2. {} \in C
    <2>1. {} \in SUBSET S /\ g[{}] = 0
        BY <1>1 DEF SumStep
    <2> QED BY <2>1
<1>3. ASSUME NEW T \in SUBSET S, T # {}, T \ {Pick(T)} \in C PROVE T \in C
    <2>1. g[T] = f[Pick(T)] + g[T \ {Pick(T)}] /\ f[Pick(T)] \in Nat
        BY <1>1, <1>3, PickIn DEF SumStep
    <2> QED BY <1>3, <2>1
<1>4. SUBSET S \subseteq C
    <2> HIDE DEF C
    <2> QED BY <1>2, <1>3, AllSubsets
<1> QED BY <1>1, <1>4

LEMMA RefundsDueType == TypeOK => RefundsDue \in Nat
BY AccountAssumption, SumType DEF TypeOK, RefundsDue

-----------------------------------------------------------------------------
(***************************************************************************)
(* Part 4: a circle cancelled in its first round can refund everyone.      *)
(* Until then the contract holds what was paid; the cancellation turns the *)
(* payments into refunds one for one; a claim takes what it pays off both. *)
(***************************************************************************)

EarlyInv ==
    (GasCovered /\ currentRound = 1) =>
        /\ status \in {Created, Active} => contribution * PaidCount(1) <= balance
        /\ status = Cancelled => RefundsDue <= balance

(* The payments of the first round that members of T made.                  *)
PaidBy(T) == {i \in PaidOrders(1) : members[i] \in T}

LEMMA PaidBySizes ==
    ASSUME NEW T
    PROVE  IsFiniteSet(PaidBy(T)) /\ Cardinality(PaidBy(T)) \in Nat
BY OrderSubset, FS_CardinalityType DEF PaidBy, PaidOrders

(* In the first round an account's records are its first-round payments.    *)
LEMMA FirstRecords ==
    ASSUME StructInv, currentRound = 1, NEW a \in Account
    PROVE  /\ Cardinality(RecordsOf(a)) \in Nat
           /\ Cardinality(RecordsOf(a)) <= Cardinality(PaidBy({a}))
<1>1. Cardinality(RecordsOf(a)) \in Nat
    BY RefundPairs DEF RecordsOf
<1> DEFINE f == [p \in RecordsOf(a) |-> p[2]]
<1>2. \A p \in RecordsOf(a) : p = <<1, p[2]>> /\ p[2] \in PaidBy({a})
    <2> SUFFICES ASSUME NEW p \in RecordsOf(a)
                 PROVE  p = <<1, p[2]>> /\ p[2] \in PaidBy({a})
        OBVIOUS
    <2>1. /\ p \in Order \X Order /\ members[p[2]] = a
          /\ ContributionKey(p[1], p[2]) \in contributions
        BY DEF RecordsOf
    <2>2. p[1] \in Order /\ p[2] \in Order /\ p = <<p[1], p[2]>>
        BY <2>1
    <2>3. p[1] <= 1
        BY <2>1, <2>2 DEF StructInv, RecordsInv
    <2>4. p[1] = 1
        BY <2>2, <2>3 DEF Order
    <2> QED BY <2>1, <2>2, <2>4 DEF PaidBy, PaidOrders
<1>3. f \in Injection(RecordsOf(a), PaidBy({a}))
    <2>1. f \in [RecordsOf(a) -> PaidBy({a})]
        BY <1>2
    <2>2. \A p, q \in RecordsOf(a) : f[p] = f[q] => p = q
        BY <1>2
    <2> HIDE DEF f
    <2> QED BY <2>1, <2>2 DEF Injection, IsInjective
<1>4. Cardinality(RecordsOf(a)) <= Cardinality(PaidBy({a}))
    <2> HIDE DEF f
    <2> QED BY <1>3, PaidBySizes, FS_Injection
<1> QED BY <1>1, <1>4

(* queueRefunds owes at most what was paid in the first round.              *)
LEMMA QueueEarly ==
    ASSUME StructInv, currentRound = 1, status \in {Created, Active}, queueRefunds
    PROVE  SumOver(refunds', Account) <= contribution * PaidCount(1)
<1> DEFINE c == [T \in SUBSET Account |-> contribution * Cardinality(PaidBy(T))]
<1>1. contribution \in Nat
    BY KyeInitAssumption
<1>2. \A m, n \in Nat : contribution * n \in Nat
                         /\ (m <= n => contribution * m <= contribution * n)
    BY <1>1
<1>3. refunds' \in [Account -> Nat]
    BY QueueClears
<1>4. \A a \in Account : refunds'[a] <= contribution * Cardinality(PaidBy({a}))
    <2> SUFFICES ASSUME NEW a \in Account
                 PROVE  refunds'[a] <= contribution * Cardinality(PaidBy({a}))
        OBVIOUS
    <2>1. refunds'[a] = 0 + contribution * Cardinality(RecordsOf(a))
        BY DEF queueRefunds, StructInv, RecordsInv
    <2>2. /\ Cardinality(RecordsOf(a)) \in Nat
          /\ Cardinality(RecordsOf(a)) <= Cardinality(PaidBy({a}))
          /\ Cardinality(PaidBy({a})) \in Nat
        BY FirstRecords, PaidBySizes
    <2> QED BY <1>2, <2>1, <2>2
<1>5. c \in [SUBSET Account -> Nat]
    BY <1>2, PaidBySizes
<1>6. ASSUME NEW T \in SUBSET Account, T # {}
      PROVE  refunds'[Pick(T)] + c[T \ {Pick(T)}] <= c[T]
    <2> DEFINE x == Pick(T)
               U == T \ {x}
    <2>1. x \in T /\ U \in SUBSET Account
        BY <1>6, PickIn
    <2>2. PaidBy(T) = PaidBy(U) \cup PaidBy({x}) /\ PaidBy(U) \cap PaidBy({x}) = {}
        BY <2>1 DEF PaidBy
    <2> HIDE DEF x, U
    <2>3. /\ IsFiniteSet(PaidBy(U)) /\ Cardinality(PaidBy(U)) \in Nat
          /\ IsFiniteSet(PaidBy({x})) /\ Cardinality(PaidBy({x})) \in Nat
        BY PaidBySizes
    <2>4. Cardinality(PaidBy(T))
            = Cardinality(PaidBy(U)) + Cardinality(PaidBy({x})) - Cardinality({})
        BY <2>2, <2>3, FS_Union
    <2>5. \A u, y \in Nat : contribution * (u + y - 0) = contribution * y + contribution * u
        BY <1>1
    <2>6. c[T] = contribution * Cardinality(PaidBy({x}))
                    + contribution * Cardinality(PaidBy(U))
        BY <2>3, <2>4, <2>5, FS_EmptySet
    <2>7. c[U] = contribution * Cardinality(PaidBy(U))
        BY <2>1
    <2>8. refunds'[x] <= contribution * Cardinality(PaidBy({x})) /\ refunds'[x] \in Nat
        BY <1>3, <1>4, <2>1
    <2>9. /\ contribution * Cardinality(PaidBy({x})) \in Nat
          /\ contribution * Cardinality(PaidBy(U)) \in Nat
        BY <1>2, <2>3
    <2>10. refunds'[x] + c[U] <= c[T]
        <3> HIDE DEF c
        <3> QED BY <2>6, <2>7, <2>8, <2>9
    <2> QED BY <2>10 DEF x, U
<1>7. SumOver(refunds', Account) \in Nat /\ SumOver(refunds', Account) <= c[Account]
    <2> HIDE DEF c
    <2> QED BY <1>3, <1>5, <1>6, AccountAssumption, SumBound
<1>8. c[Account] <= contribution * PaidCount(1)
    <2>1. /\ PaidBy(Account) \in SUBSET PaidOrders(1)
          /\ IsFiniteSet(PaidOrders(1))
        BY OrderSubset DEF PaidBy, PaidOrders
    <2>2. Cardinality(PaidBy(Account)) <= PaidCount(1)
        BY <2>1, FS_Subset DEF PaidCount
    <2>3. Cardinality(PaidBy(Account)) \in Nat /\ PaidCount(1) \in Nat
        BY PaidBySizes, PaidCountRange
    <2> QED BY <1>2, <2>2, <2>3
<1>9. c[Account] \in Nat /\ contribution * PaidCount(1) \in Nat
    BY <1>2, <1>5, PaidCountRange
<1> QED
    <2> HIDE DEF c
    <2> QED BY <1>7, <1>8, <1>9

(* What a step that keeps payments and refunds takes from the balance is    *)
(* only what it brought.                                                    *)
LEMMA SameRecordsEarly ==
    ASSUME StructInv, EarlyInv, balance' \in Nat, balance' >= balance,
           contributions' = contributions, refunds' = refunds,
           currentRound' = 1 => currentRound = 1,
           status \notin {Completed, Cancelled} \/ status' = status,
           status' # Cancelled \/ status = Cancelled
    PROVE  EarlyInv'
<1> SUFFICES ASSUME GasCovered, currentRound' = 1
             PROVE  /\ status' \in {Created, Active} =>
                            contribution * PaidCount(1)' <= balance'
                    /\ status' = Cancelled => RefundsDue' <= balance'
    BY DEF EarlyInv, GasCovered, Excess
<1>1. PaidCount(1)' = PaidCount(1) /\ RefundsDue' = RefundsDue
    BY DEF PaidCount, PaidOrders, RefundsDue
<1>2. balance \in Nat /\ currentRound = 1 /\ status \in {Created, Active, Completed, Cancelled}
    BY DEF StructInv, TypeOK
<1>3. contribution * PaidCount(1) \in Int
    BY PaidCountRange, KyeInitAssumption
<1>4. RefundsDue \in Int
    BY RefundsDueType DEF StructInv
<1>5. CASE status' \in {Created, Active}
    BY <1>1, <1>2, <1>3, <1>5 DEF EarlyInv
<1>6. CASE status' = Cancelled
    BY <1>1, <1>2, <1>4, <1>6 DEF EarlyInv
<1> QED BY <1>5, <1>6

LEMMA CancelEarly ==
    ASSUME StructInv, EarlyInv, NEW v \in GasValue, status \in {Created, Active},
           queueRefunds, status' = Cancelled, currentRound' = currentRound, Settle(v, 0)
    PROVE  EarlyInv'
<1> SUFFICES ASSUME GasCovered, currentRound = 1 PROVE RefundsDue' <= balance'
    BY DEF EarlyInv, GasCovered, Excess
<1>1. SumOver(refunds', Account) <= contribution * PaidCount(1)
    BY QueueEarly
<1>2. contribution * PaidCount(1) <= balance
    BY DEF EarlyInv
<1>3. balance \in Nat /\ balance' \in Int /\ balance <= balance'
    BY ValuesAreAmounts, EnvironmentAssumption DEF Settle, StructInv, TypeOK
<1>4. contribution * PaidCount(1) \in Int
    BY PaidCountRange, KyeInitAssumption
<1>5. SumOver(refunds', Account) \in Int
    BY QueueClears, AccountAssumption, SumType
<1>6. RefundsDue' = SumOver(refunds', Account)
    BY DEF RefundsDue
<1> QED BY <1>1, <1>2, <1>3, <1>4, <1>5, <1>6

LEMMA ContributeEarly ==
    ASSUME StructInv, EarlyInv, NEW s \in Account, NEW r \in Order,
           NEW v \in PaymentValue, Contribute(s, r, v)
    PROVE  EarlyInv'
<1> SUFFICES ASSUME GasCovered, currentRound = 1
             PROVE  contribution * PaidCount(1)' <= balance'
    BY DEF EarlyInv, GasCovered, Excess, Contribute
<1>1. PICK i \in Order :
        /\ ContributionKey(1, i) \notin contributions
        /\ contributions' = contributions \cup {ContributionKey(1, i)}
    BY DEF Contribute
<1>2. PaidOrders(1)' = PaidOrders(1) \cup {i} /\ i \notin PaidOrders(1)
    BY <1>1, KeyInjective DEF PaidOrders, Order
<1>3. IsFiniteSet(PaidOrders(1))
    BY OrderSubset DEF PaidOrders
<1>4. PaidCount(1)' = PaidCount(1) + 1
    BY <1>2, <1>3, FS_AddElement DEF PaidCount
<1>5. contribution * PaidCount(1) <= balance
    BY DEF EarlyInv, Contribute
<1>6. Excess(v) \in Nat /\ v \in Nat /\ TxFee \in Nat /\ contribution \in Nat
    BY ValuesAreAmounts, KyeInitAssumption, EnvironmentAssumption DEF Excess
<1>7. v - Excess(v) >= contribution + TxFee
    BY DEF GasCovered, Contribute
<1>8. balance' \in Int /\ balance' >= balance + contribution
    BY <1>6, <1>7 DEF Contribute, Settle, StructInv, TypeOK
<1>9. \A n \in Nat : contribution * (n + 1) = contribution * n + contribution
                       /\ contribution * n \in Nat
    BY <1>6
<1>10. PaidCount(1) \in Nat /\ balance \in Nat
    BY PaidCountRange DEF StructInv, TypeOK
<1> QED BY <1>4, <1>5, <1>6, <1>8, <1>9, <1>10

LEMMA ClaimEarly ==
    ASSUME StructInv, EarlyInv, NEW s \in Account, NEW v \in GasValue,
           ClaimRefund(s, v)
    PROVE  EarlyInv'
<1> SUFFICES ASSUME GasCovered, currentRound = 1 PROVE RefundsDue' <= balance'
    BY DEF EarlyInv, GasCovered, Excess, ClaimRefund
<1>1. refunds \in [Account -> Nat] /\ refunds[s] \in Nat /\ balance \in Nat
    BY DEF StructInv, TypeOK
<1>2. RefundsDue' = SumOver([refunds EXCEPT ![s] = 0], Account)
    BY DEF RefundsDue, ClaimRefund
<1>3. RefundsDue' = RefundsDue - refunds[s]
    BY <1>1, <1>2, AccountAssumption, SumWithout DEF RefundsDue
<1>4. RefundsDue <= balance /\ RefundsDue \in Int
    BY RefundsDueType DEF EarlyInv, ClaimRefund, StructInv
<1>5. balance' = balance + v - TxFee - refunds[s]
    BY DEF ClaimRefund, Settle
<1>6. v \in Int /\ TxFee \in Int /\ v >= TxFee
    BY ValuesAreAmounts, EnvironmentAssumption
<1> QED BY <1>1, <1>3, <1>4, <1>5, <1>6

LEMMA InitEarly == Init => EarlyInv
<1> SUFFICES ASSUME Init PROVE contribution * PaidCount(1) <= balance
    BY DEF Init, EarlyInv
<1>1. PaidOrders(1) = {}
    BY DEF Init, PaidOrders
<1>2. PaidCount(1) = 0
    BY <1>1, FS_EmptySet DEF PaidCount
<1> QED BY <1>2, KyeInitAssumption, EnvironmentAssumption DEF Init

LEMMA NextEarly == StructInv /\ StructInv' /\ EarlyInv /\ [Next]_vars => EarlyInv'
<1> SUFFICES ASSUME StructInv, StructInv', EarlyInv, [Next]_vars PROVE EarlyInv'
    OBVIOUS
<1>1. balance \in Nat /\ balance' \in Nat
      /\ status \in {Created, Active, Completed, Cancelled}
    BY DEF StructInv, TypeOK
<1>2. \A v \in GasValue \cup PaymentValue : Settle(v, 0) => balance' >= balance
    BY <1>1, ValuesAreAmounts, EnvironmentAssumption DEF Settle
<1>3. ASSUME NEW s \in Account, NEW v \in GasValue, NEW i \in Order, JoinKye(s, i, v)
      PROVE  EarlyInv'
    BY <1>1, <1>2, <1>3, SameRecordsEarly DEF JoinKye
<1>4. ASSUME NEW s \in Account, NEW v \in GasValue, EmergencyCancel(s, v)
      PROVE  EarlyInv'
    BY <1>4, CancelEarly DEF EmergencyCancel
<1>5. ASSUME NEW s \in Account, NEW v \in GasValue, ClaimRefund(s, v)
      PROVE  EarlyInv'
    BY <1>5, ClaimEarly
<1>6. ASSUME NEW s \in Account, NEW v \in GasValue, ClaimRefundReverts(s, v)
      PROVE  EarlyInv'
    BY <1>1, <1>2, <1>6, SameRecordsEarly DEF ClaimRefundReverts
<1>7. ASSUME NEW s \in Account, NEW v \in PaymentValue, NEW r \in Order,
             Contribute(s, r, v)
      PROVE  EarlyInv'
    BY <1>7, ContributeEarly
<1>8. ASSUME NEW v \in GasValue, ExecuteRoundMsg(v)
      PROVE  EarlyInv'
    <2>1. CASE ExecuteRound(v)
        <3>1. currentRound' # 1
            BY <2>1 DEF ExecuteRound, StructInv, TypeOK
        <3> QED BY <3>1 DEF EarlyInv
    <2>2. CASE ExecuteRoundCancels(v)
        BY <2>2, CancelEarly DEF ExecuteRoundCancels, Executable
    <2>3. CASE ExecuteRoundReverts(v)
        BY <1>1, <1>2, <2>3, SameRecordsEarly DEF ExecuteRoundReverts
    <2> QED BY <1>8, <2>1, <2>2, <2>3 DEF ExecuteRoundMsg
<1>9. ASSUME NEW v \in PaymentValue, TopUp(v)
      PROVE  EarlyInv'
    BY <1>1, <1>2, <1>9, SameRecordsEarly DEF TopUp
<1>10. CASE Tick
    BY <1>1, <1>10, SameRecordsEarly DEF Tick
<1>11. CASE UNCHANGED vars
    BY <1>1, <1>11, SameRecordsEarly DEF vars
<1> QED
    BY <1>3, <1>4, <1>5, <1>6, <1>7, <1>8, <1>9, <1>10, <1>11 DEF Next

(* A circle that is cancelled before its first round was paid out holds     *)
(* what it owes, however many members paid and in whatever order they claim.*)
THEOREM EarlyCancelTheorem == Spec => []EarlyCancelRefundsEveryone
<1>1. EarlyInv => EarlyCancelRefundsEveryone
    BY DEF EarlyInv, EarlyCancelRefundsEveryone
<1> QED BY <1>1, InitEarly, NextEarly, StructAlways, PTL DEF Spec

-----------------------------------------------------------------------------
(***************************************************************************)
(* Part 5: the contract implements the circle of SavingsCircle.  A circle  *)
(* that has not started is in its first round, so that a seat taken then   *)
(* has not won; the rest of the invariant is StructInv's.                  *)
(***************************************************************************)

FirstInv == status = Created => currentRound = 1
CircleInv == StructInv /\ FirstInv

LEMMA NextFirst == StructInv /\ FirstInv /\ [Next]_vars => FirstInv'
BY DEF Next, FirstInv, vars, setup, JoinKye, EmergencyCancel, ClaimRefund,
       ClaimRefundReverts, Contribute, ExecuteRoundMsg, ExecuteRound,
       ExecuteRoundCancels, ExecuteRoundReverts, PaysOut, Executable, TopUp, Tick,
       StructInv, TypeOK

LEMMA CircleAlways == Spec => []CircleInv
<1>1. Init => FirstInv
    BY DEF Init, FirstInv
<1> QED BY <1>1, NextFirst, StructAlways, PTL DEF Spec, CircleInv

(* No key on record for an order that has not been paid, and none at all    *)
(* once the records are cleared.                                            *)
LEMMA NoRecords ==
    ASSUME contributions = {}
    PROVE  OnRecord = [a \in Account |-> 0] /\ \A r : PaidOrders(r) = {}
<1>1. \A a : RecordsOf(a) = {}
    BY DEF RecordsOf
<1> QED BY <1>1, FS_EmptySet DEF OnRecord, PaidOrders

LEMMA Phases ==
    TypeOK => /\ Phase = "open" <=> status = Created
              /\ Phase = "running" <=> status = Active
              /\ Phase = "completed" <=> status = Completed
              /\ Phase = "cancelled" <=> status = Cancelled
BY DEF TypeOK, Phase

LEMMA CircleStart == Init => Rotation!CircleInit
<1> SUFFICES ASSUME Init PROVE Rotation!CircleInit
    OBVIOUS
<1>1. Holders(Order) = {} /\ 1..(currentRound - 1) = {} /\ Holders({}) = {}
    BY DEF Init, Holders
<1>2. OnRecord = [a \in Account |-> 0] /\ PaidOrders(currentRound) = {}
    BY NoRecords DEF Init
<1>3. memberCount - joinedCount = memberCount
    BY KyeInitAssumption DEF Init
<1>4. Phase = "open"
    BY DEF Init, Phase
<1> QED BY <1>1, <1>2, <1>3, <1>4 DEF Init, Rotation!CircleInit

LEMMA JoinCircleStep ==
    ASSUME CircleInv, CircleInv', NEW s \in Account, NEW i \in Order, NEW v \in GasValue,
           JoinKye(s, i, v)
    PROVE  Rotation!Join(s)
<1> USE DEF CircleInv, StructInv
<1>1. contributions = {} /\ contributions' = {} /\ currentRound = 1 /\ currentRound' = 1
    BY DEF FirstInv, RecordsInv, JoinKye
<1>2. s \notin Holders(Order) /\ s # NoMember
    BY KyeInitAssumption DEF JoinKye, Holders, OrdersOf
<1>3. Holders(Order)' = Holders(Order) \cup {s}
    <2>1. \A j \in Order : members'[j] = IF j = i THEN s ELSE members[j]
        BY DEF JoinKye, TypeOK
    <2>2. members[i] = NoMember
        BY DEF JoinKye
    <2> QED BY <1>2, <2>1, <2>2 DEF Holders
<1>4. Holders(PaidOrders(currentRound))' = Holders(PaidOrders(currentRound))
    BY <1>1 DEF PaidOrders, Holders
<1>5. Holders(1..(currentRound - 1))' = Holders(1..(currentRound - 1))
    BY <1>1 DEF Holders
<1>6. OnRecord' = OnRecord
    <2>1. \A a \in Account : RecordsOf(a) = {} /\ RecordsOf(a)' = {}
        BY <1>1 DEF RecordsOf
    <2> QED BY <2>1 DEF OnRecord
<1>7. /\ memberCount - joinedCount' = memberCount - joinedCount - 1
      /\ memberCount - joinedCount' = 0 <=> joinedCount' = memberCount
    BY KyeInitAssumption DEF JoinKye, TypeOK
<1>8. Phase = "open" /\ Phase' = IF joinedCount' = memberCount THEN "running" ELSE "open"
    BY DEF JoinKye, Phase
<1>9. refunds' = refunds
    BY DEF JoinKye
<1> QED BY <1>2, <1>3, <1>4, <1>5, <1>6, <1>7, <1>8, <1>9 DEF Rotation!Join

(* A payment adds one key to its sender's records, and none to another's.   *)
LEMMA PayRecords ==
    ASSUME CircleInv, NEW s \in Account, NEW r \in Order, NEW i \in Order,
           IsOrderOfSender(i, s), ContributionKey(r, i) \notin contributions,
           contributions' = contributions \cup {ContributionKey(r, i)},
           members' = members
    PROVE  OnRecord' = [OnRecord EXCEPT ![s] = @ + 1]
<1>1. members[i] = s
    BY DEF IsOrderOfSender, OrdersOf
<1>2. \A a \in Account : RecordsOf(a)' =
          IF a = s THEN RecordsOf(a) \cup {<<r, i>>} ELSE RecordsOf(a)
    <2>1. \A p \in Order \X Order :
            ContributionKey(p[1], p[2]) = ContributionKey(r, i) <=> p = <<r, i>>
        <3>1. \A q, j \in Order : ContributionKey(q, j) = ContributionKey(r, i) => q = r /\ j = i
            BY KeyInjective DEF Order
        <3>2. \A p \in Order \X Order :
                p[1] \in Order /\ p[2] \in Order /\ p = <<p[1], p[2]>>
            OBVIOUS
        <3> QED BY <3>1, <3>2
    <2>2. <<r, i>> \in Order \X Order
        OBVIOUS
    <2> QED BY <1>1, <2>1, <2>2 DEF RecordsOf
<1>3. <<r, i>> \notin RecordsOf(s)
    BY DEF RecordsOf
<1>4. Cardinality(RecordsOf(s) \cup {<<r, i>>}) = Cardinality(RecordsOf(s)) + 1
    <2>1. IsFiniteSet(RecordsOf(s))
        <3>1. IsFiniteSet(Order \X Order)
            BY OrderSubset, FS_Product
        <3> QED BY <3>1, FS_Subset DEF RecordsOf
    <2> QED BY <1>3, <2>1, FS_AddElement
<1> QED BY <1>2, <1>4 DEF OnRecord

LEMMA PayCircleStep ==
    ASSUME CircleInv, CircleInv', NEW s \in Account, NEW r \in Order,
           NEW v \in PaymentValue, Contribute(s, r, v)
    PROVE  Rotation!Pay(s)
<1> USE DEF CircleInv, StructInv
<1>1. /\ status = Active /\ status' = status /\ r = currentRound /\ currentRound' = r
      /\ members' = members /\ joinedCount' = joinedCount /\ refunds' = refunds
    BY DEF Contribute, setup
<1>2. PICK i \in Order :
        /\ IsOrderOfSender(i, s)
        /\ ContributionKey(r, i) \notin contributions
        /\ contributions' = contributions \cup {ContributionKey(r, i)}
    BY DEF Contribute
<1>3. members[i] = s /\ s # NoMember
    BY <1>2, KyeInitAssumption DEF IsOrderOfSender, OrdersOf
<1>4. PaidOrders(r)' = PaidOrders(r) \cup {i}
    <2>1. \A j \in Order : ContributionKey(r, j) = ContributionKey(r, i) => j = i
        BY KeyInjective DEF Order
    <2> QED BY <1>2, <2>1 DEF PaidOrders
<1>5. Holders(PaidOrders(r))' = Holders(PaidOrders(r)) \cup {s}
    BY <1>1, <1>3, <1>4 DEF Holders
<1>6. s \in Holders(Order) /\ s \notin Holders(PaidOrders(r))
    <2>1. \A j \in Order : members[j] = s => j = i
        BY <1>3 DEF SlotsInv
    <2>2. i \notin PaidOrders(r) /\ PaidOrders(r) \subseteq Order
        BY <1>2 DEF PaidOrders
    <2> QED BY <1>3, <2>1, <2>2 DEF Holders
<1>7. OnRecord' = [OnRecord EXCEPT ![s] = @ + 1]
    BY <1>1, <1>2, PayRecords
<1>8. Phase = "running" /\ Phase' = Phase
    BY <1>1 DEF Phase
<1>9. Holders(Order)' = Holders(Order)
      /\ Holders(1..(currentRound - 1))' = Holders(1..(currentRound - 1))
    BY <1>1 DEF Holders
<1> QED BY <1>1, <1>5, <1>6, <1>7, <1>8, <1>9 DEF Rotation!Pay

LEMMA WinCircleStep ==
    ASSUME CircleInv, CircleInv', NEW v \in GasValue, ExecuteRound(v)
    PROVE  \E a \in Account : Rotation!Win(a)
<1> USE DEF CircleInv, StructInv
<1> DEFINE k == currentRound
<1>1. /\ status = Active /\ status' = IF k + 1 > memberCount THEN Completed ELSE Active
      /\ k' = k + 1 /\ members' = members /\ joinedCount' = joinedCount
      /\ refunds' = refunds /\ contributions' = contributions
    BY DEF ExecuteRound, PaysOut, Executable, setup
<1>2. k \in Order
    BY ExecutableRound DEF ExecuteRound, PaysOut
<1>3. \A i \in Order : members[i] # NoMember /\ members[i] \in Account
    BY <1>1, ActiveSlotsFilled DEF TypeOK
<1>4. \A S \in SUBSET Order : Holders(S) = {members[i] : i \in S}
    BY <1>3 DEF Holders
<1>5. 1..k \in SUBSET Order /\ 1..(k - 1) \in SUBSET Order /\ 1..k = 1..(k - 1) \cup {k}
    BY <1>2, KyeInitAssumption DEF Order
<1>6. Holders(1..(k - 1))' = Holders(1..(k - 1)) \cup {members[k]}
    <2>1. Holders(1..(k - 1))' = Holders(1..k)
        BY <1>1, <1>2 DEF Holders, Order
    <2>2. Holders(1..k) = Holders(1..(k - 1)) \cup {members[k]}
        <3> HIDE DEF k
        <3> QED BY <1>3, <1>4, <1>5, <1>2
    <2> QED BY <2>1, <2>2
<1>7. members[k] \in Holders(Order) /\ members[k] \notin Holders(1..(k - 1))
    <2>1. \A j \in 1..(k - 1) : j \in Order /\ j # k
        BY <1>2, <1>5 DEF Order
    <2>2. \A j \in 1..(k - 1) : members[j] # members[k]
        BY <1>2, <1>3, <2>1 DEF SlotsInv
    <2> QED BY <1>2, <1>3, <2>2 DEF Holders
<1>8. Holders(1..(k - 1))' = Holders(Order) <=> k + 1 > memberCount
    <2>1. Holders(1..(k - 1))' = {members[i] : i \in 1..k}
        BY <1>1, <1>2, <1>3, <1>5 DEF Holders, Order
    <2>2. CASE k = memberCount
        <3>1. 1..k = Order
            BY <2>2 DEF Order
        <3>2. k + 1 > memberCount
            BY <2>2, KyeInitAssumption
        <3> QED BY <1>4, <2>1, <3>1, <3>2
    <2>3. CASE k < memberCount
        <3>1. memberCount \in Order /\ memberCount \notin 1..k
            BY <1>2, <2>3, KyeInitAssumption DEF Order
        <3>2. \A i \in 1..k : members[i] # members[memberCount]
            BY <1>3, <1>5, <3>1 DEF SlotsInv
        <3>3. members[memberCount] \in Holders(Order)
            BY <1>4, <3>1
        <3>4. ~(k + 1 > memberCount)
            BY <1>2, <2>3, KyeInitAssumption DEF Order
        <3> QED BY <2>1, <3>2, <3>3, <3>4
    <2> QED BY <1>2, <2>2, <2>3, KyeInitAssumption DEF Order
<1>9. Holders(PaidOrders(k))' = {}
    <2>1. PaidOrders(k + 1) = {}
        <3> SUFFICES ASSUME NEW i \in Order, ContributionKey(k + 1, i) \in contributions
                     PROVE  FALSE
            BY DEF PaidOrders
        <3>1. PICK q \in Order, j \in Order : ContributionKey(k + 1, i) = ContributionKey(q, j)
            BY DEF TypeOK, ContributionKeys
        <3>2. k + 1 = q
            BY <1>2, <3>1, KeyInjective DEF Order
        <3>3. q <= k
            BY <3>1 DEF RecordsInv
        <3> QED BY <1>2, <3>2, <3>3 DEF Order
    <2> QED BY <1>1, <2>1 DEF Holders, PaidOrders
<1>10. Phase = "running" /\ Phase' = IF k + 1 > memberCount THEN "completed" ELSE "running"
    BY <1>1 DEF Phase
<1>11. Holders(Order)' = Holders(Order) /\ OnRecord' = OnRecord
    BY <1>1 DEF Holders, OnRecord, RecordsOf
<1>12. members[k] \in Account
    BY <1>2, <1>3
<1>13. Rotation!Win(members[k])
    BY <1>1, <1>6, <1>7, <1>8, <1>9, <1>10, <1>11 DEF Rotation!Win
<1> QED BY <1>12, <1>13

(* A cancellation turns the records into refunds.                           *)
LEMMA CallOffCircleStep ==
    ASSUME CircleInv, status \in {Created, Active}, queueRefunds, status' = Cancelled,
           UNCHANGED <<setup, currentRound>>
    PROVE  Rotation!CallOff
<1> USE DEF CircleInv, StructInv
<1>1. contributions' = {}
    BY QueueClears
<1>2. Holders(PaidOrders(currentRound))' = {}
    BY <1>1 DEF PaidOrders, Holders
<1>3. OnRecord' = [a \in Account |-> 0]
    <2>1. \A a \in Account : RecordsOf(a)' = {}
        BY <1>1 DEF RecordsOf
    <2> QED BY <2>1, FS_EmptySet DEF OnRecord
<1>4. refunds' = [a \in Account |-> contribution * OnRecord[a]]
    <2>1. \A a \in Account : refunds[a] = 0
        BY DEF RecordsInv
    <2>2. \A a \in Account : Cardinality(RecordsOf(a)) \in Nat
        BY RefundPairs DEF RecordsOf
    <2>3. \A n \in Nat : contribution * n \in Nat
        BY KyeInitAssumption
    <2>4. \A a \in Account :
            refunds[a] + contribution * Cardinality(RecordsOf(a)) = contribution * OnRecord[a]
        BY <2>1, <2>2, <2>3 DEF OnRecord
    <2> QED BY <2>4 DEF queueRefunds
<1>5. Phase \in {"open", "running"} /\ Phase' = "cancelled"
    BY DEF Phase
<1>6. /\ Holders(Order)' = Holders(Order)
      /\ Holders(1..(currentRound - 1))' = Holders(1..(currentRound - 1))
      /\ (memberCount - joinedCount)' = memberCount - joinedCount
    BY DEF Holders, setup
<1> QED BY <1>2, <1>3, <1>4, <1>5, <1>6 DEF Rotation!CallOff

(* What the circle does not see: a step that keeps all it is read from.     *)
LEMMA QuietCircleStep ==
    ASSUME UNCHANGED <<status, members, joinedCount, contributions, refunds, currentRound>>
    PROVE  UNCHANGED Rotation!circleVars
BY DEF Rotation!circleVars, Phase, Holders, PaidOrders, OnRecord, RecordsOf

LEMMA RefundCircleStep ==
    ASSUME CircleInv, NEW s \in Account, NEW v \in GasValue, ClaimRefund(s, v)
    PROVE  Rotation!Refund(s)
<1>1. /\ status = Cancelled /\ refunds[s] # 0 /\ refunds' = [refunds EXCEPT ![s] = 0]
      /\ UNCHANGED <<status, members, joinedCount, contributions, currentRound>>
    BY DEF ClaimRefund, setup, CircleInv, StructInv, TypeOK
<1>2. Phase = "cancelled" /\ Phase' = Phase
    BY <1>1 DEF Phase
<1>3. /\ Holders(Order)' = Holders(Order)
      /\ Holders(1..(currentRound - 1))' = Holders(1..(currentRound - 1))
      /\ Holders(PaidOrders(currentRound))' = Holders(PaidOrders(currentRound))
      /\ OnRecord' = OnRecord
    BY <1>1 DEF Holders, PaidOrders, OnRecord, RecordsOf
<1> QED BY <1>1, <1>2, <1>3 DEF Rotation!Refund

LEMMA NextCircle ==
    CircleInv /\ CircleInv' /\ [Next]_vars => [Rotation!CircleNext]_(Rotation!circleVars)
<1> SUFFICES ASSUME CircleInv, CircleInv', [Next]_vars
             PROVE  Rotation!CircleNext \/ UNCHANGED Rotation!circleVars
    OBVIOUS
<1> USE DEF Rotation!CircleNext
<1>1. ASSUME NEW s \in Account, NEW v \in GasValue, NEW i \in Order, JoinKye(s, i, v)
      PROVE  Rotation!CircleNext
    BY <1>1, JoinCircleStep
<1>2. ASSUME NEW s \in Account, NEW v \in GasValue, EmergencyCancel(s, v)
      PROVE  Rotation!CircleNext
    BY <1>2, CallOffCircleStep DEF EmergencyCancel
<1>3. ASSUME NEW s \in Account, NEW v \in GasValue, ClaimRefund(s, v)
      PROVE  Rotation!CircleNext
    BY <1>3, RefundCircleStep
<1>4. ASSUME NEW s \in Account, NEW v \in GasValue, ClaimRefundReverts(s, v)
      PROVE  UNCHANGED Rotation!circleVars
    BY <1>4, QuietCircleStep DEF ClaimRefundReverts, setup
<1>5. ASSUME NEW s \in Account, NEW v \in PaymentValue, NEW r \in Order,
             Contribute(s, r, v)
      PROVE  Rotation!CircleNext
    BY <1>5, PayCircleStep
<1>6. ASSUME NEW v \in GasValue, ExecuteRoundMsg(v)
      PROVE  Rotation!CircleNext \/ UNCHANGED Rotation!circleVars
    <2>1. CASE ExecuteRound(v)
        BY <2>1, WinCircleStep
    <2>2. CASE ExecuteRoundCancels(v)
        BY <2>2, CallOffCircleStep DEF ExecuteRoundCancels, Executable
    <2>3. CASE ExecuteRoundReverts(v)
        BY <2>3, QuietCircleStep DEF ExecuteRoundReverts, setup
    <2> QED BY <1>6, <2>1, <2>2, <2>3 DEF ExecuteRoundMsg
<1>7. ASSUME NEW v \in PaymentValue, TopUp(v)
      PROVE  UNCHANGED Rotation!circleVars
    BY <1>7, QuietCircleStep DEF TopUp, setup
<1>8. CASE Tick
    BY <1>8, QuietCircleStep DEF Tick, setup
<1>9. CASE UNCHANGED vars
    BY <1>9, QuietCircleStep DEF vars
<1> QED
    BY <1>1, <1>2, <1>3, <1>4, <1>5, <1>6, <1>7, <1>8, <1>9 DEF Next

(* Whatever messages come, in whatever order and from whomever: a member    *)
(* takes one seat, pays at most once a round and wins one round, the last   *)
(* winner completes the circle, and a cancellation owes each member just    *)
(* what is on record and pays it once (KyeContract.tact:163-400).           *)
THEOREM CircleTheorem == Spec => ImplementsCircle
BY CircleStart, NextCircle, CircleAlways, PTL
    DEF Spec, ImplementsCircle, Rotation!CircleSpec
=============================================================================
