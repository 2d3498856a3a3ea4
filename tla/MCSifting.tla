----------------------------- MODULE MCSifting ------------------------------
(* An instance of Sifting for TLC. *)
EXTENDS Sifting

Tables == { << [d |-> 0, t |-> 8], [d |-> 2, t |-> 4], [d |-> 4, t |-> 1] >>,
            << [d |-> 0, t |-> 8], [d |-> 3, t |-> 9], [d |-> 1, t |-> 6],
               [d |-> 1, t |-> 5], [d |-> 4, t |-> 2] >> }
Lengths == {0, 1, 3, 5}

Z0 == [basis |-> "Z", bit |-> 0]
X1 == [basis |-> "X", bit |-> 1]
Drawn == { <<Z0, X1, Z0>> }

Turns == {-20, 50}
=============================================================================
