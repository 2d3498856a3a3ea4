----------------------------- MODULE KeySession ------------------------------
(***************************************************************************)
(* What the KME promises to those who use a session (SessionStatus and     *)
(* KeyStatus in src/kme/state_machine.py, the endpoints of main.py): it    *)
(* goes from its creation over Bob's join to its end, where it has a key   *)
(* or none, and a key is handed out once for every time it was delivered.  *)
(*                                                                         *)
(* Undisturbed, it ends once, from sending only, and its key is delivered  *)
(* once.  A cancellation, a repeated report or a call that was broken off  *)
(* disturbs it for good: a session that has ended may then end again and   *)
(* otherwise, and a key may be there before its value or be spent on       *)
(* nobody.  How nodes, events and tasks bring the end about is left to     *)
(* KeyDelivery.                                                            *)
(***************************************************************************)
EXTENDS Naturals, Sequences

CONSTANTS
  Values,  \* the values of keys
  Empty    \* the value of a session without a key

VARIABLES
  phase,       \* "none" before the creation, the status, "gone" without record
  key,         \* key_status
  value,       \* key_final
  handedOut,   \* the values consume-key returned, in order
  undisturbed  \* no cancellation and no repetition so far

vars == <<phase, key, value, handedOut, undisturbed>>

Ended == {"done", "aborted"}
Alive == {"initializing", "sending"} \cup Ended

Init ==
  /\ phase = "none" /\ key = "none" /\ value = Empty
  /\ handedOut = << >>
  /\ undisturbed = TRUE

(* A step may be the one that disturbs; nothing undoes a disturbance.      *)
Mark == undisturbed' \in {undisturbed, FALSE}

Create ==
  /\ phase = "none" /\ phase' = "initializing" /\ Mark
  /\ UNCHANGED <<key, value, handedOut>>

Join ==
  /\ phase = "initializing" /\ phase' = "sending" /\ Mark
  /\ UNCHANGED <<key, value, handedOut>>

(* There is no link: the session ends before Bob could join. *)
Fail ==
  /\ phase = "initializing" /\ phase' = "aborted" /\ Mark
  /\ UNCHANGED <<key, value, handedOut>>

(* The outcome of Bob's session is reported. *)
Ends == /\ phase \in {"sending"} \cup Ended
        /\ undisturbed' => phase = "sending" /\ key = "none"

Deliver(v) ==
  /\ Ends /\ Mark
  /\ phase' = "done" /\ key' = "active" /\ value' = v
  /\ UNCHANGED handedOut

(* Half a delivery: there is a key, but the session has not ended. *)
DeliverHalf ==
  /\ phase \in {"sending"} \cup Ended
  /\ key' = "active" /\ undisturbed' = FALSE
  /\ UNCHANGED <<phase, value, handedOut>>

Deny ==
  /\ Ends /\ Mark
  /\ phase' = "aborted" /\ value' = Empty
  /\ UNCHANGED <<key, handedOut>>

Cancel ==
  /\ phase \in Alive /\ phase' = "aborted"
  /\ undisturbed' = FALSE
  /\ UNCHANGED <<key, value, handedOut>>

HandOut ==
  /\ phase \in Alive /\ key = "active"
  /\ undisturbed => phase = "done"
  /\ key' = "consumed" /\ handedOut' = Append(handedOut, value)
  /\ UNCHANGED <<phase, value, undisturbed>>

(* Nobody got the key that is spent. *)
Waste ==
  /\ phase \in Alive /\ key = "active"
  /\ key' \in {"consumed", "expired"} /\ undisturbed' = FALSE
  /\ UNCHANGED <<phase, value, handedOut>>

(* The key was not asked for in time. *)
Lapse ==
  /\ phase \in Alive /\ key = "active" /\ key' = "expired"
  /\ UNCHANGED <<phase, value, handedOut, undisturbed>>

(* The record's time to live has passed: nothing happens any more. *)
Forget ==
  /\ phase \in Alive /\ phase' = "gone"
  /\ key' = "none" /\ value' = Empty
  /\ UNCHANGED <<handedOut, undisturbed>>

Disturb ==
  /\ undisturbed' = FALSE
  /\ UNCHANGED <<phase, key, value, handedOut>>

Next == \/ Create \/ Join \/ Fail \/ DeliverHalf \/ Deny \/ Cancel
        \/ HandOut \/ Waste \/ Lapse \/ Forget \/ Disturb
        \/ \E v \in Values \ {Empty} : Deliver(v)

Spec == Init /\ [][Next]_vars
=============================================================================
