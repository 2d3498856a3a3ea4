------------------------------ MODULE EventLog ------------------------------
(***************************************************************************)
(* What the event bus of kme/message_bus.py promises to one node: the      *)
(* events of its stream reach the handler at least once and in order, the  *)
(* order for as long as Redis takes every acknowledgement.                 *)
(* Events are numbered by their position in the stream; how they are       *)
(* stored, paged, acknowledged and replayed is left to EventBus.           *)
(***************************************************************************)
EXTENDS Naturals

VARIABLES
  published,  \* how many events have been published
  settled,    \* the events the node is done with: handled, dropped or lost
  last,       \* the last event handed to the handler, 0 before the first
  inOrder     \* the order is still kept

vars == <<published, settled, last, inOrder>>

Init ==
  /\ published = 0
  /\ settled = {}
  /\ last = 0
  /\ inOrder = TRUE

(* Retention may take old events away at any publication and at any time.  *)
Lose == /\ settled \subseteq settled'
        /\ settled' \subseteq 1..published'

Publish ==
  /\ published' = published + 1
  /\ Lose
  /\ UNCHANGED <<last, inOrder>>

Expire ==
  /\ Lose
  /\ UNCHANGED <<published, last, inOrder>>

(* An acknowledgement is refused: the promise is broken for good.          *)
BreakOrder ==
  /\ inOrder' = FALSE
  /\ UNCHANGED <<published, settled, last>>

(* The handler is given e: never an event older than the one before, and   *)
(* never past an event that is still owed.  The same event may come again. *)
Invoke(e) ==
  /\ inOrder => e >= last /\ \A d \in 1..(e - 1) : d \in settled
  /\ last' = e
  /\ settled' \in {settled, settled \cup {e}}
  /\ UNCHANGED <<published, inOrder>>

Next == Publish \/ Expire \/ BreakOrder \/ \E e \in 1..published : Invoke(e)

Spec == Init /\ [][Next]_vars
=============================================================================
