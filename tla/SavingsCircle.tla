---------------------------- MODULE SavingsCircle ----------------------------
(***************************************************************************)
(* What a savings circle promises its members, without slots, keys, clocks *)
(* and amounts: whoever takes a seat pays at most once a round, and wins   *)
(* one round; when all have won the circle is completed.  A circle that is *)
(* called off owes each member all he has paid, and pays it out once.      *)
(***************************************************************************)
EXTENDS Integers

CONSTANTS Account, memberCount, contribution

VARIABLES
    phase,      \* open, running, completed or cancelled
    seated,     \* who has a seat
    free,       \* seats left
    payers,     \* who has paid in this round
    won,        \* who has won a round
    paid,       \* account -> contributions on record
    owed        \* account -> what a circle that was called off still owes it

circleVars == <<phase, seated, free, payers, won, paid, owed>>

CircleInit ==
    /\ phase = "open" /\ seated = {} /\ free = memberCount
    /\ payers = {} /\ won = {}
    /\ paid = [a \in Account |-> 0]
    /\ owed = [a \in Account |-> 0]

Join(a) ==
    /\ phase = "open" /\ a \notin seated
    /\ seated' = seated \cup {a} /\ free' = free - 1
    /\ phase' = IF free' = 0 THEN "running" ELSE "open"
    /\ UNCHANGED <<payers, won, paid, owed>>

Pay(a) ==
    /\ phase = "running" /\ a \in seated \ payers
    /\ payers' = payers \cup {a}
    /\ paid' = [paid EXCEPT ![a] = @ + 1]
    /\ UNCHANGED <<phase, seated, free, won, owed>>

Win(a) ==
    /\ phase = "running" /\ a \in seated \ won
    /\ won' = won \cup {a} /\ payers' = {}
    /\ phase' = IF won' = seated THEN "completed" ELSE "running"
    /\ UNCHANGED <<seated, free, paid, owed>>

CallOff ==
    /\ phase \in {"open", "running"} /\ phase' = "cancelled"
    /\ owed' = [a \in Account |-> contribution * paid[a]]
    /\ paid' = [a \in Account |-> 0] /\ payers' = {}
    /\ UNCHANGED <<seated, free, won>>

Refund(a) ==
    /\ phase = "cancelled" /\ owed[a] # 0
    /\ owed' = [owed EXCEPT ![a] = 0]
    /\ UNCHANGED <<phase, seated, free, payers, won, paid>>

CircleNext == CallOff \/ \E a \in Account : Join(a) \/ Pay(a) \/ Win(a) \/ Refund(a)

CircleSpec == CircleInit /\ [][CircleNext]_circleVars
=============================================================================
