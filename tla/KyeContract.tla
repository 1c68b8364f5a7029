---------------------------- MODULE KyeContract ----------------------------
(***************************************************************************)
(* One savings circle (packages/contracts/contracts/KyeContract.tact).     *)
(* Every action is one TON transaction: a message that the contract        *)
(* accepts, the whole receiver, and the sends of its action phase.  A      *)
(* message that a require() refuses changes nothing and is no step.        *)
(*                                                                         *)
(* Amounts are integers of an arbitrary unit and time is in seconds of an  *)
(* arbitrary scale, so that SELF_KEEP, GAS_FORWARD_FEE and                 *)
(* GRACE_WINDOW_SEC are parameters.  TxFee is what the network charges a   *)
(* transaction (compute and forward fees together).                        *)
(***************************************************************************)
EXTENDS Integers, FiniteSets

CONSTANTS
    Account,                \* addresses that may send messages
    organizer,              \* KyeInit.organizer
    NoMember,               \* null in the members map
    memberCount, contribution, roundIntervalSec,
    feeRateBps, timeAdjustmentMaxBps, defaultPolicy,
    SELF_KEEP, GAS_FORWARD_FEE, GRACE_WINDOW_SEC,
    InitialBalance,         \* the value the factory deploys the circle with
    TxFee,                  \* network charge of a transaction
    GasValue,               \* values attached to a message that only pays gas
    PaymentValue,           \* values attached to Contribute and TopUp
    MaxBalance,             \* bound: no message lifts the balance above it
    MaxStart, Horizon       \* bounds on the clock before and after activation

(* defaultPolicy *)
ProRata == 0
Cancel == 1
OrganizerCover == 2

(***************************************************************************)
(* The require()s of init, and what the modelled environment guarantees:   *)
(* the gas limit is bought from the message, so a message that runs at all *)
(* carries at least the fee of its transaction.                            *)
(***************************************************************************)
ASSUME KyeInitAssumption ==
    /\ organizer \in Account
    /\ NoMember \notin Account
    /\ memberCount \in 2..30
    /\ contribution \in Nat \ {0}
    /\ roundIntervalSec \in Nat \ {0}
    /\ feeRateBps \in 200..10000
    /\ timeAdjustmentMaxBps \in 0..10000
    /\ defaultPolicy \in 0..2

ASSUME EnvironmentAssumption ==
    /\ SELF_KEEP \in Nat
    /\ GAS_FORWARD_FEE \in Nat
    /\ GRACE_WINDOW_SEC \in Nat
    /\ InitialBalance \in Nat
    /\ TxFee \in Nat
    /\ GasValue \subseteq Nat
    /\ PaymentValue \subseteq Nat
    /\ \A v \in GasValue \cup PaymentValue : v >= TxFee
    /\ MaxBalance \in Nat
    /\ MaxStart \in Nat
    /\ Horizon \in Nat

ASSUME AccountAssumption == IsFiniteSet(Account)

VARIABLES
    status,             \* 0 Created, 1 Active, 2 Completed, 3 Cancelled
    members,            \* order number -> address or null
    joinedCount,
    contributions,      \* the keys roundNum * 64 + orderNum that are set
    refunds,            \* address -> amount; 0 stands for null
    currentRound,
    startTimestamp,
    pendingShortfall,
    cancelledAt,
    balance,            \* the account's balance
    now                 \* block time

setup == <<members, joinedCount, startTimestamp>>
vars == <<status, members, joinedCount, contributions, refunds, currentRound,
          startTimestamp, pendingShortfall, cancelledAt, balance, now>>

Order == 1..memberCount
Created == 0
Active == 1
Completed == 2
Cancelled == 3

ContributionKey(r, i) == r * 64 + i
PaidOrders(r) == {i \in Order : ContributionKey(r, i) \in contributions}
PaidCount(r) == Cardinality(PaidOrders(r))
(* The faulty variants F... of a definition, each before the one it varies, *)
(* are what the properties below are tested against; nothing uses them.     *)
FOrdersOf(s) == {i \in 1..(memberCount - 1) : members[i] = s}     \* scan stops early
OrdersOf(s) == {i \in Order : members[i] = s}
IsOrderOfSender(i, s) == i \in OrdersOf(s) /\ \A j \in OrdersOf(s) : i <= j

-----------------------------------------------------------------------------
(* The arithmetic of ExecuteRound.  Tact's / rounds towards minus infinity, *)
(* as \div does.                                                            *)

PlatformFee(pool) == (pool * 50) \div 10000
OrganizerFee(pool) == (pool * (feeRateBps - 50)) \div 10000
NetPool(pool) == pool - PlatformFee(pool) - OrganizerFee(pool)
FAdjustmentBps(k) ==                                            \* wrong sign
    ((memberCount + 1 - 2 * k) * timeAdjustmentMaxBps) \div (memberCount - 1)
AdjustmentBps(k) ==
    ((2 * k - memberCount - 1) * timeAdjustmentMaxBps) \div (memberCount - 1)
FlooredPayout(k, pool) == (NetPool(pool) * (10000 + AdjustmentBps(k))) \div 10000
IntendedPayout(k, pool) ==
    IF FlooredPayout(k, pool) < 0 THEN 0 ELSE FlooredPayout(k, pool)

(* What myBalance() leaves for sends once SELF_KEEP is put aside.           *)
Available(bal) == IF bal < SELF_KEEP THEN 0 ELSE bal - SELF_KEEP

FeesTotal(pool) == PlatformFee(pool) + OrganizerFee(pool)
Capped(k, pool, bal) ==
    FeesTotal(pool) + IntendedPayout(k, pool) > Available(bal)
Payout(k, pool, bal) ==
    IF ~Capped(k, pool, bal) THEN IntendedPayout(k, pool)
    ELSE IF FeesTotal(pool) >= Available(bal) THEN 0
    ELSE Available(bal) - FeesTotal(pool)

-----------------------------------------------------------------------------
Init ==
    /\ status = Created
    /\ members = [i \in Order |-> NoMember]
    /\ joinedCount = 0
    /\ contributions = {}
    /\ refunds = [a \in Account |-> 0]
    /\ currentRound = 1
    /\ startTimestamp = 0
    /\ pendingShortfall = 0
    /\ cancelledAt = 0
    /\ balance = InitialBalance
    /\ now = 0

(* A message carrying v is accepted and `out' leaves the account.           *)
Settle(v, out) ==
    /\ balance' = balance + v - TxFee - out
    /\ balance' <= MaxBalance
    /\ now' = now

JoinKye(s, orderNum, v) ==
    /\ status = Created
    /\ members[orderNum] = NoMember
    /\ OrdersOf(s) = {}
    /\ members' = [members EXCEPT ![orderNum] = s]
    /\ joinedCount' = joinedCount + 1
    /\ IF joinedCount' = memberCount
       THEN status' = Active /\ startTimestamp' = now
       ELSE UNCHANGED <<status, startTimestamp>>
    /\ Settle(v, 0)
    /\ UNCHANGED <<contributions, refunds, currentRound, pendingShortfall,
                   cancelledAt>>

(* The part of an overpayment that is sent back.                            *)
Excess(v) ==
    LET excess == v - contribution - GAS_FORWARD_FEE
    IN  IF excess > GAS_FORWARD_FEE THEN excess ELSE 0

(* The excess is sent with SendIgnoreErrors: when the balance cannot pay    *)
(* for it, it stays in the contract.                                        *)
Contribute(s, roundNum, v) ==
    /\ status = Active
    /\ roundNum = currentRound
    /\ v >= contribution
    /\ \E i \in Order :
        /\ IsOrderOfSender(i, s)
        /\ ContributionKey(roundNum, i) \notin contributions
        /\ contributions' = contributions \cup {ContributionKey(roundNum, i)}
    /\ Settle(v, IF Excess(v) <= balance + v - TxFee THEN Excess(v) ELSE 0)
    /\ UNCHANGED <<setup, status, refunds, currentRound, pendingShortfall,
                   cancelledAt>>

eligibleAt == startTimestamp + (currentRound - 1) * roundIntervalSec

FExecutable ==                              \* the test for payments regardless of policy
    /\ status = Active
    /\ now >= eligibleAt
    /\ PaidCount(currentRound) < memberCount => now >= eligibleAt + GRACE_WINDOW_SEC
    /\ PaidCount(currentRound) > 0

(* The require()s of ExecuteRound.                                          *)
Executable ==
    /\ status = Active
    /\ now >= eligibleAt
    /\ members[currentRound] # NoMember
    /\ PaidCount(currentRound) < memberCount => now >= eligibleAt + GRACE_WINDOW_SEC
    /\ PaidCount(currentRound) > 0 \/ defaultPolicy = Cancel

FRecordsOf(a) == {p \in Order \X Order : members[p[2]] = a}       \* unpaid ones too
FqueueRefunds ==                                                \* records not cleared
    /\ refunds' = [a \in Account |->
                     refunds[a] + contribution * Cardinality(FRecordsOf(a))]
    /\ UNCHANGED contributions

(* Every member is credited with what it paid in every round on record,     *)
(* and the records are cleared.                                             *)
RecordsOf(a) ==
    {p \in Order \X Order : members[p[2]] = a /\ ContributionKey(p[1], p[2]) \in contributions}
queueRefunds ==
    /\ refunds' = [a \in Account |->
                     refunds[a] + contribution * Cardinality(RecordsOf(a))]
    /\ contributions' = {key \in contributions :
            ~\E i, r \in Order : members[i] # NoMember /\ key = ContributionKey(r, i)}

(* Policy 1: a round that someone has not paid ends the circle.             *)
ExecuteRoundCancels(v) ==
    /\ Executable
    /\ defaultPolicy = Cancel
    /\ PaidCount(currentRound) < memberCount
    /\ queueRefunds
    /\ status' = Cancelled
    /\ cancelledAt' = now
    /\ Settle(v, 0)
    /\ UNCHANGED <<setup, currentRound, pendingShortfall>>

RoundPool(k) ==
    (IF defaultPolicy = OrganizerCover THEN memberCount ELSE PaidCount(k))
        * contribution
Shortfall(k) == (memberCount - PaidCount(k)) * contribution

(* The sends of a round that pays out; the action phase fails as a whole    *)
(* when the balance does not cover them.                                    *)
RoundSends(k, v) == FeesTotal(RoundPool(k)) + Payout(k, RoundPool(k), balance + v)
Affordable(k, v) == RoundSends(k, v) <= balance + v - TxFee

PaysOut ==
    /\ Executable
    /\ defaultPolicy = Cancel => PaidCount(currentRound) = memberCount

ExecuteRound(v) ==
    LET k == currentRound IN
    /\ PaysOut
    /\ Affordable(k, v)
    /\ pendingShortfall' = pendingShortfall +
            (IF defaultPolicy = OrganizerCover THEN Shortfall(k) ELSE 0)
    /\ currentRound' = k + 1
    /\ status' = IF k + 1 > memberCount THEN Completed ELSE status
    /\ Settle(v, RoundSends(k, v))
    /\ UNCHANGED <<setup, contributions, refunds, cancelledAt>>

(* The action phase failed: the new state is dropped, the value stays.      *)
ExecuteRoundReverts(v) ==
    /\ PaysOut
    /\ ~Affordable(currentRound, v)
    /\ Settle(v, 0)
    /\ UNCHANGED <<setup, status, contributions, refunds, currentRound,
                   pendingShortfall, cancelledAt>>

EmergencyCancel(s, v) ==
    /\ s = organizer
    /\ status \in {Created, Active}
    /\ queueRefunds
    /\ status' = Cancelled
    /\ cancelledAt' = now
    /\ Settle(v, 0)
    /\ UNCHANGED <<setup, currentRound, pendingShortfall>>

ClaimRefund(s, v) ==
    /\ status = Cancelled
    /\ refunds[s] > 0
    /\ refunds[s] <= balance + v - TxFee
    /\ refunds' = [refunds EXCEPT ![s] = 0]
    /\ Settle(v, refunds[s])
    /\ UNCHANGED <<setup, status, contributions, currentRound,
                   pendingShortfall, cancelledAt>>

FClaimRefundReverts(s, v) ==                           \* failed send ignored
    /\ status = Cancelled
    /\ refunds[s] > 0
    /\ refunds[s] > balance + v - TxFee
    /\ refunds' = [refunds EXCEPT ![s] = 0]
    /\ Settle(v, 0)
    /\ UNCHANGED <<setup, status, contributions, currentRound,
                   pendingShortfall, cancelledAt>>

(* The refund is more than the account holds: the send fails, the refund    *)
(* stays on record, the value stays.                                        *)
ClaimRefundReverts(s, v) ==
    /\ status = Cancelled
    /\ refunds[s] > 0
    /\ refunds[s] > balance + v - TxFee
    /\ Settle(v, 0)
    /\ UNCHANGED <<setup, status, contributions, refunds, currentRound,
                   pendingShortfall, cancelledAt>>

FTopUp(v) ==                                                    \* no clamp at zero
    /\ pendingShortfall' = pendingShortfall - v
    /\ Settle(v, 0)
    /\ UNCHANGED <<setup, status, contributions, refunds, currentRound,
                   cancelledAt>>

TopUp(v) ==
    /\ pendingShortfall' = IF v >= pendingShortfall THEN 0 ELSE pendingShortfall - v
    /\ Settle(v, 0)
    /\ UNCHANGED <<setup, status, contributions, refunds, currentRound,
                   cancelledAt>>

(* Time passes.  Nothing reads the clock before activation or after the     *)
(* end, so it only runs to MaxStart before activation, and to Horizon after *)
(* activation while the circle is Active.                                   *)
Tick ==
    /\ \/ status = Created /\ now < MaxStart
       \/ status = Active /\ now < startTimestamp + Horizon
    /\ now' = now + 1
    /\ UNCHANGED <<setup, status, contributions, refunds, currentRound,
                   pendingShortfall, cancelledAt, balance>>

ExecuteRoundMsg(v) ==
    \/ ExecuteRound(v)
    \/ ExecuteRoundCancels(v)
    \/ ExecuteRoundReverts(v)

Next ==
    \/ \E s \in Account, v \in GasValue :
        \/ \E i \in Order : JoinKye(s, i, v)
        \/ EmergencyCancel(s, v)
        \/ ClaimRefund(s, v)
        \/ ClaimRefundReverts(s, v)
    \/ \E s \in Account, v \in PaymentValue, r \in Order : Contribute(s, r, v)
    \/ \E v \in GasValue : ExecuteRoundMsg(v)
    \/ \E v \in PaymentValue : TopUp(v)
    \/ Tick

Spec == Init /\ [][Next]_vars

(* Anyone may send ExecuteRound; the scheduler service and the members do   *)
(* so once a round is due.                                                  *)
FairSpec ==
    /\ Spec
    /\ WF_vars(Tick)
    /\ WF_vars(\E v \in GasValue : ExecuteRoundMsg(v))

-----------------------------------------------------------------------------
(* Properties *)

ContributionKeys == {ContributionKey(r, i) : r \in Order, i \in Order}

(* Every variable keeps to the range its Tact type and the receivers give   *)
(* it: the balance is never negative, the round never passes N + 1.         *)
TypeOK ==
    /\ status \in {Created, Active, Completed, Cancelled}
    /\ members \in [Order -> Account \cup {NoMember}]
    /\ joinedCount \in 0..memberCount
    /\ contributions \subseteq ContributionKeys
    /\ refunds \in [Account -> Nat]
    /\ currentRound \in 1..(memberCount + 1)
    /\ startTimestamp \in Nat
    /\ pendingShortfall \in Nat
    /\ cancelledAt \in Nat
    /\ balance \in Nat
    /\ now \in Nat

(* A member holds one slot and a slot one member, joinedCount counts the    *)
(* filled slots, and the circle is Active exactly when it filled up: so the *)
(* winner slot an ExecuteRound reads is never null and no member wins two   *)
(* rounds.  (JoinKye: the scan for an earlier slot, the activation test.)   *)
SlotsInv ==
    /\ \A i, j \in Order : members[i] = members[j] /\ members[i] # NoMember => i = j
    /\ joinedCount = Cardinality({i \in Order : members[i] # NoMember})
    /\ status = Created => joinedCount < memberCount
    /\ status \in {Active, Completed} => joinedCount = memberCount

(* Money on record is never counted twice: contributions exist only for     *)
(* rounds up to the current one and only while the circle runs or after it  *)
(* completed; refunds exist only once it is cancelled, when the records     *)
(* they were computed from are gone.                                        *)
RecordsInv ==
    /\ \A r, i \in Order : ContributionKey(r, i) \in contributions => r <= currentRound
    /\ status \in {Created, Cancelled} => contributions = {}
    /\ status # Cancelled => refunds = [a \in Account |-> 0]
    /\ status = Completed <=> currentRound > memberCount

(* Payments leave the contract at least their contribution after the        *)
(* network took its charge, and the factory deployed it with SELF_KEEP.     *)
GasCovered ==
    /\ \A v \in PaymentValue : v >= contribution => v - Excess(v) >= contribution + TxFee
    /\ defaultPolicy = OrganizerCover => TxFee = 0
    /\ InitialBalance >= SELF_KEEP

(* Every shortfall so far is either impossible (Cancel ends the circle),    *)
(* booked in pendingShortfall (OrganizerCover) or absent (ProRata, nobody   *)
(* defaulted in the rounds before r).                                       *)
ShortfallsBooked(r) ==
    defaultPolicy = ProRata =>
        \A q \in Order : q < r => PaidCount(q) = memberCount

FullPool == memberCount * contribution

(* What the contract holds beyond SELF_KEEP and the contributions of the    *)
(* running round, with what the organizer owes counted as if it were there. *)
Spare ==
    balance + pendingShortfall - SELF_KEEP
        - contribution * (IF status = Active THEN PaidCount(currentRound) ELSE 0)

(* What rounds 1..k-1 of fully paid pools hold back, times 10000 (N - 1).   *)
HeldBack(k) ==
    NetPool(FullPool) * timeAdjustmentMaxBps * ((k - 1) * (memberCount + 1 - k))

(* The time adjustment takes from early winners what later winners get on   *)
(* top: the savings of the rounds so far are still in the contract whenever *)
(* a round begins, so that they cover the bonuses of the rounds to come.    *)
SavingsCoverBonuses ==
    (GasCovered /\ status # Cancelled /\ ShortfallsBooked(currentRound)) =>
        10000 * (memberCount - 1) * Spare >= HeldBack(currentRound)

(* Invariant notes, KyeContract.tact:18-22: payouts are capped on           *)
(* shortfalls only.  When everyone has paid every round and the organizer   *)
(* owes nothing, the round pays the intended amount and its sends succeed.  *)
FundedRoundPaysInFull ==
    \A v \in GasValue :
        (/\ GasCovered
         /\ status = Active
         /\ ShortfallsBooked(currentRound + 1)
         /\ PaidCount(currentRound) = memberCount
         /\ pendingShortfall = 0)
        => /\ ~Capped(currentRound, FullPool, balance + v)
           /\ Affordable(currentRound, v)

(* The sum of f over a finite set S, by a recursive function over subsets.  *)
SumOver(f, S) ==
    LET sum[T \in SUBSET S] ==
            IF T = {} THEN 0
            ELSE LET x == CHOOSE x \in T : TRUE IN f[x] + sum[T \ {x}]
    IN  sum[S]
RefundsDue == SumOver(refunds, Account)

(* A circle that is cancelled before its first round was paid out can pay   *)
(* back every contribution (FAQ.md:118).                                    *)
EarlyCancelRefundsEveryone ==
    (GasCovered /\ status = Cancelled /\ currentRound = 1) => RefundsDue <= balance

(* FAQ.md:36-37, TOS.md:39-40: a cancelled circle refunds the remaining     *)
(* balance and never what past rounds paid out; so what it owes its members *)
(* is never more than it holds.  queueRefunds credits executed rounds too.  *)
CancelledRefundsCovered ==
    (GasCovered /\ status = Cancelled) => RefundsDue <= balance

(* KyeContract.tact:18-22: a payout is capped only when some member         *)
(* defaulted.  Network charges that contributions do not carry cap it too.  *)
CapOnlyAfterDefault ==
    (/\ status = Active
     /\ \A r \in 1..currentRound : PaidCount(r) = memberCount)
    => \A v \in GasValue : ~Capped(currentRound, FullPool, balance + v)

(* One refund is paid: the whole record against exactly that amount, and    *)
(* only when the account can send it.                                       *)
RefundPaid(a, v) ==
    /\ 0 < refunds[a] /\ refunds[a] <= balance + v - TxFee
    /\ refunds' = [refunds EXCEPT ![a] = 0]
    /\ balance' = balance + v - TxFee - refunds[a]

(* The end of a circle is final: no receiver reopens a round, takes another *)
(* payment or credits another refund; a record goes only when its amount    *)
(* went out in full, and while a record stays nothing leaves the account:   *)
(* the refund whose send fails can be claimed again (KyeContract.tact:386). *)
EndIsFinal ==
    [][ (status \in {Completed, Cancelled}) =>
        /\ status' = status /\ currentRound' = currentRound
        /\ contributions' = contributions /\ cancelledAt' = cancelledAt
        /\ \/ refunds' = refunds /\ balance' >= balance
           \/ \E a \in Account, v \in GasValue : RefundPaid(a, v) ]_vars

(* Under the Cancel policy a circle that started always ends: each round is *)
(* executed or, GRACE_WINDOW_SEC after it became eligible, cancels it.      *)
CancelPolicyTerminates ==
    (status = Active) ~> (status \in {Completed, Cancelled})

-----------------------------------------------------------------------------
(* The circle that the slots and the records stand for: an account is       *)
(* seated when it has a slot, the slots of the rounds before the current    *)
(* one have won, and each key on record is a payment of its slot's member.  *)
Phase == <<"open", "running", "completed", "cancelled">>[status + 1]
Holders(S) == {members[i] : i \in S} \ {NoMember}
OnRecord == [a \in Account |-> Cardinality(RecordsOf(a))]
Rotation == INSTANCE SavingsCircle WITH
    phase <- Phase, seated <- Holders(Order), free <- memberCount - joinedCount,
    payers <- Holders(PaidOrders(currentRound)),
    won <- Holders(1..(currentRound - 1)),
    paid <- OnRecord, owed <- refunds

(* The contract implements that circle: whatever messages come, in whatever *)
(* order, everyone pays once a round and wins one, and a cancellation owes  *)
(* each member exactly what is on record (KyeContract.tact:163-400).        *)
ImplementsCircle == Rotation!CircleSpec
=============================================================================
