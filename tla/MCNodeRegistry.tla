--------------------------- MODULE MCNodeRegistry ---------------------------
(* An instance of NodeRegistry for TLC: which processes there are.  One     *)
(* receiver has a label of its own, another one has one that a monitor has *)
(* too, and a third one has none.                                          *)
EXTENDS NodeRegistry, TLC

CONSTANTS bob, carol, eve, dave, bobLabel, clash

Labels == bob :> bobLabel @@ carol :> clash @@ eve :> clash @@ dave :> NoLabel
Roles  == bob :> "receiver" @@ carol :> "receiver" @@ eve :> "monitor"
            @@ dave :> "receiver"

OneOfEach == [k \in FaultKinds |-> 1]
=============================================================================
