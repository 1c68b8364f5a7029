----------------------------- MODULE RelayedCall -----------------------------
(***************************************************************************)
(* What signAndRelay (apps/tma/src/lib/vault.ts) promises the page that    *)
(* calls it: a vault executes what was signed at most once, however often  *)
(* the request is repeated, and the call returns at most once.  An answer  *)
(* says nothing of the execution: the one may come before the other, and   *)
(* either may come alone.                                                  *)
(***************************************************************************)
EXTENDS Naturals

CONSTANT Call

VARIABLES
    asked,          \* calls whose intent is signed
    executions,     \* call -> how often a vault executed the intent
    answer          \* call -> none, ok or failed

callVars == <<asked, executions, answer>>

CallInit ==
    /\ asked = {}
    /\ executions = [c \in Call |-> 0]
    /\ answer = [c \in Call |-> "none"]

signAndRelay(c) ==
    /\ c \notin asked
    /\ asked' = asked \cup {c}
    /\ UNCHANGED <<executions, answer>>

Execute(c) ==
    /\ c \in asked /\ executions[c] = 0
    /\ executions' = [executions EXCEPT ![c] = 1]
    /\ UNCHANGED <<asked, answer>>

Answer(c, result) ==
    /\ c \in asked /\ answer[c] = "none"
    /\ answer' = [answer EXCEPT ![c] = result]
    /\ UNCHANGED <<asked, executions>>

CallNext ==
    \E c \in Call :
        signAndRelay(c) \/ Execute(c) \/ \E result \in {"ok", "failed"} : Answer(c, result)

CallSpec == CallInit /\ [][CallNext]_callVars
=============================================================================
