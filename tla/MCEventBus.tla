----------------------------- MODULE MCEventBus -----------------------------
(* Instances of EventBus for TLC: the fault budgets of the runs. *)
EXTENDS EventBus

FaultBudget(crash, connection, expiry, refused) ==
  [k \in FaultKinds |-> CASE k = "crash"      -> crash
                          [] k = "connection" -> connection
                          [] k = "expiry"     -> expiry
                          [] k = "refused"    -> refused]

EveryFault == FaultBudget(1, 1, 1, 1)
RefusedAck == FaultBudget(0, 0, 0, 1)
=============================================================================
