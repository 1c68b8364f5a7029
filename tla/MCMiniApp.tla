------------------------------ MODULE MCMiniApp ------------------------------
EXTENDS MiniApp, TLC

CONSTANTS phone, desktop, s1, s2, k1, k2

(* Nothing tells the devices of a user apart.                               *)
MCSymmetry == Permutations(Device)

Circles(N, feeBps, alphaBps, days) ==
    [N |-> N, contribution |-> 1, feeBps |-> feeBps, alphaBps |-> alphaBps,
     interval |-> IF days = 0 THEN 60 ELSE days * 86400, defaultPolicy |-> 2]
(* One at the ends of the ranges, and two with a rate that is out of them.  *)
MCParams == {Circles(2, 200, 10000, 0), Circles(2, 200, 10001, 7), Circles(30, 199, 0, 28)}
MCJoinCall == User \X {1}
(* Two who race for a slot, and one who has all prerequisites before him.  *)
MCStarts == {[alice |-> "registered", bob |-> "registered"], [alice |-> "browser", bob |-> "none"]}
(* All slots are alike: it is enough that bob chooses.                      *)
MCWanted == [alice |-> {s1}, bob |-> {s1, s2}]
(* Two organizers, and cho, who has never opened the app.                   *)
MCOrganizer == [k \in Kye |-> IF k = k1 THEN "ann" ELSE "ben"]
=============================================================================
