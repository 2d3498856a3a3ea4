----------------------------- MODULE MCQkdlPool -----------------------------
(* Instances of QkdlPool for TLC: the pool and the fault budgets of the runs. *)
EXTENDS QkdlPool, TLC

CONSTANT q1

OneLink  == <<q1>>

(* Budgets for <<crash, timeout, lost, expiry, start>>. *)
Budget(c, t, l, e, f) ==
  [k \in FaultKinds |-> CASE k = "crash"   -> c [] k = "timeout" -> t
                          [] k = "lost"    -> l [] k = "expiry"  -> e
                          [] k = "start"   -> f]

NoFaults      == Budget(0, 0, 0, 0, 0)
EveryFault    == Budget(1, 1, 1, 1, 1)
Unanswered    == Budget(0, 1, 1, 0, 0)

Sessions == Permutations(Session)
=============================================================================
