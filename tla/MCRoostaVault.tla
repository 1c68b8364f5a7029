--------------------------- MODULE MCRoostaVault ---------------------------
(***************************************************************************)
(* Two vaults of one session key.  The unit is 0.01 TON: MIN_RELAYER_GAS = *)
(* 0.03 TON, SELF_KEEP = VAULT_MIN_GAS = 0.05 TON, deposits are 0.15 TON   *)
(* (the activation amount).  A tick stands for the five minutes an intent  *)
(* is valid; the network removes an empty account after two.               *)
(***************************************************************************)
EXTENDS RoostaVault, TLC

CONSTANTS v1, v2, kye

BothVaults == {v1, v2}
Symmetry == Permutations(BothVaults)
=============================================================================
