---------------------------- MODULE MCQuantumLink ----------------------------
(* Instances of QuantumLink for TLC: the fault budgets of the runs. *)
EXTENDS QuantumLink

Only(S) == [k \in FaultKinds |-> IF k \in S THEN 1 ELSE 0]

NoFaults   == Only({})
EveryFault == Only(FaultKinds)
=============================================================================
