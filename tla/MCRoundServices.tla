--------------------------- MODULE MCRoundServices ---------------------------
(***************************************************************************)
(* One round on record in a circle of two.  The unit of time is a round    *)
(* interval: the round is one unit ahead at time 0, where its 24h window   *)
(* is, due at 1, and left to the members until 2.  The services come up    *)
(* either before the round or once its catch-up time is over.              *)
(***************************************************************************)
EXTENDS RoundServices

Window == [t \in ReminderType |-> 1]
=============================================================================
