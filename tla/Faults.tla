------------------------------- MODULE Faults -------------------------------
(* The calls and reads that fail, counted so that a run can bound them.     *)
EXTENDS Naturals

CONSTANT MaxFaults
ASSUME FaultsAssumption == MaxFaults \in Nat

VARIABLE faults

Fault == faults < MaxFaults /\ faults' = faults + 1
NoFault == UNCHANGED faults
FaultUnless(ok) == IF ok THEN NoFault ELSE Fault
=============================================================================
