---------------------------- MODULE MCKeyDelivery ----------------------------
(* Instances of KeyDelivery for TLC: the fault budgets of the runs. *)
EXTENDS KeyDelivery

Only(S) == [k \in FaultKinds |-> Count(k \in S)]

NoFaults   == Only({})
RaceFaults == Only({"early", "duplicate", "lost", "redelivery", "expiry", "kme"})
NodeFaults == Only({"alice", "bob", "chord", "duplicate", "lost", "redelivery"})
=============================================================================
