------------------------------ MODULE LinkPool -------------------------------
(***************************************************************************)
(* What the locks of the KME promise to sessions (pick_free_qkdl,          *)
(* _acquire_qkdl_lock and _release_qkdl_lock of src/kme/main.py): a        *)
(* session is admitted to a link nobody holds and never gets another one;  *)
(* until a lock has run out, it sends and ends on a link that is its own;  *)
(* a link changes hands only by way of nobody's, when its holder has ended *)
(* or its lock has run out.  By which tasks, answers and retries is left   *)
(* to QkdlPool.                                                            *)
(***************************************************************************)

CONSTANTS Session, Link, None

VARIABLES
  holder,   \* who holds each link
  link,     \* the link each session was admitted to
  phase,    \* how far each session is
  punctual  \* no lock has run out so far

vars == <<holder, link, phase, punctual>>

Init ==
  /\ holder = [q \in Link |-> None]
  /\ link = [s \in Session |-> None]
  /\ phase = [s \in Session |-> "none"]
  /\ punctual = TRUE

Holds(s) == holder[link[s]] = s

GivenBack(s) == [holder EXCEPT ![link[s]] = None]

Admit(s, q) ==
  /\ phase[s] = "none" /\ holder[q] = None
  /\ phase' = [phase EXCEPT ![s] = "initializing"]
  /\ holder' = [holder EXCEPT ![q] = s]
  /\ link' = [link EXCEPT ![s] = q]
  /\ UNCHANGED punctual

Begin(s) ==
  /\ phase[s] = "initializing"
  /\ punctual => Holds(s)
  /\ phase' = [phase EXCEPT ![s] = "sending"]
  /\ UNCHANGED <<holder, link, punctual>>

(* The session ends, with its link given back at once or later on. *)
End(s) ==
  /\ phase[s] \in {"initializing", "sending"}
  /\ punctual => Holds(s)
  /\ phase' = [phase EXCEPT ![s] = "over"]
  /\ \/ UNCHANGED holder
     \/ Holds(s) /\ holder' = GivenBack(s)
  /\ UNCHANGED <<link, punctual>>

GiveBack(s) ==
  /\ phase[s] = "over" /\ Holds(s)
  /\ holder' = GivenBack(s)
  /\ UNCHANGED <<link, phase, punctual>>

RunOut(q) ==
  /\ holder[q] # None
  /\ holder' = [holder EXCEPT ![q] = None]
  /\ punctual' = FALSE
  /\ UNCHANGED <<link, phase>>

Next == \/ \E s \in Session : Begin(s) \/ End(s) \/ GiveBack(s)
        \/ \E s \in Session, q \in Link : Admit(s, q)
        \/ \E q \in Link : RunOut(q)

Spec == Init /\ [][Next]_vars
=============================================================================
