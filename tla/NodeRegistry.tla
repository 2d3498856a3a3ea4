---------------------------- MODULE NodeRegistry ----------------------------
(***************************************************************************)
(* The identity of the nodes: the records the KME keeps of them            *)
(* (src/kme/node_registry.py), their registration when they start          *)
(* (src/node/base_node.py), and the choice of a session's receiver by its  *)
(* label (create_session).  An event is addressed to a node_id, and a node *)
(* reads the stream of the node_id it was given last; so what matters is   *)
(* that a node is given the same one each time.                            *)
(*                                                                         *)
(* The KME registers a node within one step of its event loop.  Ids are    *)
(* numbered in the order in which they are drawn; 0 is none.  Whether an   *)
(* event that is in the stream reaches the handler is shown in EventBus.   *)
(***************************************************************************)
EXTENDS Integers

CONSTANTS
  Node,       \* the processes that may run
  LabelOf,    \* the label in the environment of each
  NoLabel,    \* the empty one
  RoleOf,     \* the role its class has
  Session,
  None,
  MaxIds,     \* bound: how many node_ids are drawn
  MaxFaults   \* bound: how often each kind of fault may strike

FaultKinds == {"crash", "lost", "expiry"}
Role       == {"sender", "receiver", "relay", "monitor"}
Id         == 1..MaxIds
Label      == {LabelOf[n] : n \in Node} \ {NoLabel}

(* The label a record gets without one, of the role and the id's first 8   *)
(* characters, which are taken to be enough to tell ids apart.             *)
MadeUp(i) == <<"node", i>>

(* What a creator may call a receiver. *)
Name == Label \cup {MadeUp(i) : i \in Id}

ASSUME RegistryAssumption ==
  /\ LabelOf = [n \in Node |-> LabelOf[n]] /\ RoleOf \in [Node -> Role]
  /\ None \notin Node /\ None \notin Name \cup {NoLabel}
  /\ \A i \in Id : MadeUp(i) \notin Label \cup {NoLabel}
  /\ MaxIds \in Nat /\ MaxFaults \in [FaultKinds -> Nat]

VARIABLES
  pc,        \* each process: "down", "registers" or "up"
  id,        \* its node_id
  entry,     \* <<label, role>> of the record kme:node:<id>
  present,   \* kme:nodes:all as far as the records have not expired
  drawn,     \* the last id drawn
  state,     \* each session: "none", "created", "open", "joined", "ignored"
  wants,     \* req.receiver_label
  receiver,  \* session["receiver_node_id"]
  handler,   \* the process that handled its session_open
  faults     \* how many faults of each kind are left

procs    == <<pc, id>>
registry == <<entry, present, drawn>>
sessions == <<state, wants, receiver, handler>>
vars     == <<procs, registry, sessions, faults>>

Init ==
  /\ pc = [n \in Node |-> "down"] /\ id = [n \in Node |-> 0]
  /\ entry = [i \in Id |-> <<None, None>>] /\ present = {} /\ drawn = 0
  /\ state = [s \in Session |-> "none"]
  /\ wants = [s \in Session |-> None]
  /\ receiver = [s \in Session |-> 0]
  /\ handler = [s \in Session |-> None]
  /\ faults = MaxFaults

Strike(kind) ==
  /\ faults[kind] > 0
  /\ faults' = [faults EXCEPT ![kind] = @ - 1]

-----------------------------------------------------------------------------
(* node_registry.py *)

(* Mutant: nodes are found by role. *)
FoundByRole(l) == {i \in present : entry[i][2] = "receiver"}

(* find_node_by_label returns one of these: the members of a Redis set come *)
(* in no order.                                                             *)
Found(l) == {i \in present : entry[i][1] = l}

(* Mutant: every registration draws an id. *)
FreshId(n) == {drawn + 1}

(* Mutant: the role of the record found is not compared. *)
IdOfLabel(n) == IF Found(LabelOf[n]) = {} THEN {drawn + 1} ELSE Found(LabelOf[n])

(* The node_id of the record that was found, if it has the same role, or a *)
(* new one; nothing is looked for without a label.                         *)
IdFor(n) ==
  LET existing == IF LabelOf[n] = NoLabel THEN {} ELSE Found(LabelOf[n])
      same     == {i \in existing : entry[i][2] = RoleOf[n]}
  IN  IF same = existing /\ same # {} THEN same ELSE same \cup {drawn + 1}

(* info.label *)
NameOf(n, i) == IF LabelOf[n] = NoLabel THEN MadeUp(i) ELSE LabelOf[n]

(* register_node *)
RegisterNode(n, i) ==
  /\ i \in IdFor(n) /\ i \in Id
  /\ entry' = [entry EXCEPT ![i] = <<NameOf(n, i), RoleOf[n]>>]
  /\ present' = present \cup {i}
  /\ drawn' = IF i > drawn THEN i ELSE drawn

(* NODE_TTL, counted from the last registration, not from the last call.   *)
Expire(i) ==
  /\ Strike("expiry")
  /\ i \in present /\ present' = present \ {i}
  /\ UNCHANGED <<procs, entry, drawn, sessions>>

-----------------------------------------------------------------------------
(* base_node.py *)

Start(n) ==
  /\ pc[n] = "down" /\ pc' = [pc EXCEPT ![n] = "registers"]
  /\ UNCHANGED <<id, registry, sessions, faults>>

(* Mutant: the node starts without waiting for the answer. *)
RegisterUnread(n, i) ==
  /\ pc[n] = "registers" /\ RegisterNode(n, i)
  /\ pc' = [pc EXCEPT ![n] = "up"]
  /\ UNCHANGED <<id, sessions, faults>>

(* _register is answered; the consumer reads the stream of that id.  Calls *)
(* that do not reach the KME are repeated and change nothing.              *)
Register(n, i) ==
  /\ pc[n] = "registers" /\ RegisterNode(n, i)
  /\ pc' = [pc EXCEPT ![n] = "up"] /\ id' = [id EXCEPT ![n] = i]
  /\ UNCHANGED <<sessions, faults>>

(* The node was registered, but its call fails: it will try again. *)
RegisterLost(n, i) ==
  /\ Strike("lost")
  /\ pc[n] = "registers" /\ RegisterNode(n, i)
  /\ UNCHANGED <<procs, sessions>>

Crash(n) ==
  /\ Strike("crash")
  /\ pc[n] # "down" /\ pc' = [pc EXCEPT ![n] = "down"]
  /\ id' = [id EXCEPT ![n] = 0]
  /\ UNCHANGED <<registry, sessions>>

-----------------------------------------------------------------------------
(* Sessions *)

(* create_session finds the receiver; without one it answers 404. *)
Create(s, l, i) ==
  /\ state[s] = "none" /\ i \in Found(l)
  /\ state' = [state EXCEPT ![s] = "created"]
  /\ wants' = [wants EXCEPT ![s] = l]
  /\ receiver' = [receiver EXCEPT ![s] = i]
  /\ UNCHANGED <<procs, registry, handler, faults>>

(* _init_then_open publishes session_open once the link is up. *)
Open(s) ==
  /\ state[s] = "created" /\ state' = [state EXCEPT ![s] = "open"]
  /\ UNCHANGED <<procs, registry, wants, receiver, handler, faults>>

(* handle_event: a receiver joins; other nodes have no part in an event    *)
(* that was meant for a receiver.                                          *)
Handle(n, s) ==
  /\ pc[n] = "up" /\ state[s] = "open" /\ receiver[s] = id[n]
  /\ state' = [state EXCEPT ![s] = IF RoleOf[n] = "receiver" THEN "joined"
                                                             ELSE "ignored"]
  /\ handler' = [handler EXCEPT ![s] = n]
  /\ UNCHANGED <<procs, registry, wants, receiver, faults>>

-----------------------------------------------------------------------------
Runs(n) == (\E i \in Id : Register(n, i)) \/ \E s \in Session : Handle(n, s)

Next == \/ \E n \in Node : Start(n) \/ Runs(n) \/ Crash(n)
        \/ \E n \in Node, i \in Id : RegisterLost(n, i)
        \/ \E i \in Id : Expire(i)
        \/ \E s \in Session : Open(s) \/ \E l \in Name, i \in Id : Create(s, l, i)

Spec == Init /\ [][Next]_vars

(* A process that was started registers, and its consumer reads on; nothing *)
(* starts a dead one.                                                       *)
FairSpec == Spec /\ \A n \in Node : WF_vars(Runs(n))

-----------------------------------------------------------------------------
(* Properties *)

TypeOK ==
  /\ pc \in [Node -> {"down", "registers", "up"}]
  /\ id \in [Node -> 0..MaxIds]
  /\ \A n \in Node : (id[n] # 0) <=> (pc[n] = "up")
  /\ entry \in [Id -> (Name \X Role) \cup {<<None, None>>}]
  /\ drawn \in 0..MaxIds /\ present \subseteq 1..drawn
  /\ state \in [Session -> {"none", "created", "open", "joined", "ignored"}]
  /\ wants \in [Session -> Name \cup {None}]
  /\ receiver \in [Session -> 0..MaxIds]
  /\ handler \in [Session -> Node \cup {None}]
  /\ faults \in [FaultKinds -> Nat]

Unspent(kinds) == \A k \in kinds : faults[k] = MaxFaults[k]

(* All processes with the label of n have its role. *)
OneRole(l) == \A n, m \in Node :
                LabelOf[n] = l /\ LabelOf[m] = l => RoleOf[n] = RoleOf[m]

(* Two processes read one stream, and take the events out of one consumer  *)
(* group, only if they are the same node by label and role (register_node), *)
(* whatever labels clash or are empty, records expire or answers are lost.  *)
StreamHasOneOwner ==
  \A n, m \in Node : id[n] # 0 /\ id[n] = id[m]
                       => /\ LabelOf[n] = LabelOf[m] /\ RoleOf[n] = RoleOf[m]
                          /\ LabelOf[n] = NoLabel => n = m

(* A session is joined by no other node than the one its creator named     *)
(* (find_node_by_label), though days may pass between the two and ids      *)
(* change hands.                                                           *)
JoinedByNamed ==
  \A s \in Session : state[s] \in {"joined", "ignored"}
                       => NameOf(handler[s], receiver[s]) = wants[s]

(* As long as its record does not expire and no node of another role has   *)
(* its label, a node with a label gets the id back that running sessions   *)
(* know it by, through restarts and repeated registrations.                *)
AddresseeIsNode ==
  Unspent({"expiry"}) =>
    \A s \in Session, n \in Node :
      /\ state[s] # "none" /\ wants[s] = LabelOf[n] /\ OneRole(wants[s])
      /\ pc[n] = "up"
      => id[n] = receiver[s]

(* ... so that a session_open is handled in the end, if the node stays up  *)
(* from some time on.                                                      *)
OpenIsHandled ==
  \A s \in Session, n \in Node :
    OneRole(LabelOf[n]) /\ []Unspent({"expiry"}) /\ <>[](pc[n] # "down")
      => (state[s] = "open" /\ wants[s] = LabelOf[n])
            ~> (state[s] \in {"joined", "ignored"})
=============================================================================
