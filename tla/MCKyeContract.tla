--------------------------- MODULE MCKyeContract ---------------------------
(***************************************************************************)
(* Small circles for TLC.  The unit is 0.01 TON: a contribution of 1 TON,  *)
(* SELF_KEEP = 0.05 TON, GAS_FORWARD_FEE = 0.01 TON, deployed with 0.15    *)
(* TON.  An interval of 2 ticks and a grace window of 1 tick let a member  *)
(* pay in time, within the grace window, after it, and a round be executed *)
(* when the next one is already due.                                       *)
(***************************************************************************)
EXTENDS PayoutPreview, TLC

CONSTANTS a, b, c

Two == {a, b}
Three == {a, b, c}

(* The organizer is told apart from the other accounts, which are alike.    *)
Symmetry == Permutations(Account \ {organizer})
GasFree == {0}
=============================================================================
