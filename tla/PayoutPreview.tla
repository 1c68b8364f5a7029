---------------------------- MODULE PayoutPreview ----------------------------
(***************************************************************************)
(* calculate_payout (packages/shared/src/payout.ts): what the create page, *)
(* the join page, the circle's page and the bot show a member as the       *)
(* payout of a slot, beside the contract that pays it.  The two compute    *)
(* the fees differently: the page rounds once, the contract twice.         *)
(***************************************************************************)
EXTENDS KyeContract

(* Division of bigints in JavaScript rounds towards zero.                   *)
Quotient(a, b) == IF a < 0 THEN -((-a) \div b) ELSE a \div b
floorDiv(a, b) ==
    LET q == Quotient(a, b)
        r == a - b * q
    IN  IF r # 0 /\ ((r < 0) # (b < 0)) THEN q - 1 ELSE q

fee(pool) == floorDiv(pool * feeRateBps, 10000)
net_pool(pool) == pool - fee(pool)
Fadj_bps(k) ==                              \* early slots get the bonus
    floorDiv((memberCount + 1 - 2 * k) * timeAdjustmentMaxBps, memberCount - 1)
adj_bps(k) == floorDiv((2 * k - memberCount - 1) * timeAdjustmentMaxBps, memberCount - 1)
calculate_payout(k) == floorDiv(net_pool(FullPool) * (10000 + adj_bps(k)), 10000)

(* A winner of a round that everybody paid is never paid less than the app  *)
(* had shown for the slot, nor more than two of the smallest units above    *)
(* it, whatever the roundings of the rounds before left in the contract     *)
(* (payout.ts:46-80, KyeContract.tact:266-300).                             *)
PreviewKept ==
    \A v \in GasValue :
        (/\ GasCovered
         /\ status = Active
         /\ ShortfallsBooked(currentRound + 1)
         /\ PaidCount(currentRound) = memberCount
         /\ pendingShortfall = 0)
        => LET paid == Payout(currentRound, FullPool, balance + v)
           IN  calculate_payout(currentRound) <= paid /\ paid <= calculate_payout(currentRound) + 2
=============================================================================
