------------------------- MODULE NodeRegistry_proof -------------------------
(***************************************************************************)
(* Proofs about NodeRegistry for any processes, labels, roles, sessions    *)
(* and bounds.  They rest on one fact about register_node: it never        *)
(* changes what an id that was drawn stands for (EntryKept).               *)
(***************************************************************************)
EXTENDS NodeRegistry, TLAPS

USE RegistryAssumption

-----------------------------------------------------------------------------
(* Types *)

(* An id is one of a record that was found, or the next one. *)
LEMMA IdForIs ==
  ASSUME NEW n \in Node, NEW i \in IdFor(n)
  PROVE  \/ /\ LabelOf[n] # NoLabel /\ NameOf(n, i) = LabelOf[n] /\ i \in present
            /\ entry[i][1] = LabelOf[n] /\ entry[i][2] = RoleOf[n]
         \/ i = drawn + 1
BY DEF IdFor, Found, NameOf

(* A name is one a creator may give. *)
LEMMA NameOfIs ==
  ASSUME NEW n \in Node, NEW i \in Id
  PROVE  NameOf(n, i) \in Name
BY DEF NameOf, Name, Label

(* A registration keeps the registry's types, and has an id at the end. *)
LEMMA RegisterTypes ==
  ASSUME TypeOK, NEW n \in Node, NEW i \in Id, RegisterNode(n, i)
  PROVE  /\ entry' \in [Id -> (Name \X Role) \cup {<<None, None>>}]
         /\ drawn' \in 0..MaxIds /\ drawn <= drawn' /\ i <= drawn'
         /\ present' \subseteq 1..drawn'
<1>1. <<NameOf(n, i), RoleOf[n]>> \in Name \X Role
  BY NameOfIs
<1>2. entry' \in [Id -> (Name \X Role) \cup {<<None, None>>}]
  BY <1>1 DEF RegisterNode, TypeOK
<1>3. drawn' \in 0..MaxIds /\ drawn <= drawn' /\ i <= drawn'
  BY DEF RegisterNode, TypeOK, Id
<1>4. present' \subseteq 1..drawn'
  BY <1>3 DEF RegisterNode, TypeOK, Id
<1> QED BY <1>2, <1>3, <1>4

LEMMA StrikeTypes ==
  ASSUME TypeOK, NEW kind \in FaultKinds, Strike(kind)
  PROVE  faults' \in [FaultKinds -> Nat]
BY DEF Strike, TypeOK

LEMMA TypeInit == Init => TypeOK
BY DEF Init, TypeOK, FaultKinds

LEMMA TypeStep == TypeOK /\ [Next]_vars => TypeOK'
<1> SUFFICES ASSUME TypeOK, [Next]_vars PROVE TypeOK'
  OBVIOUS
<1>1. ASSUME NEW n \in Node, Start(n) PROVE TypeOK'
  BY <1>1 DEF Start, TypeOK, registry, sessions
<1>2. ASSUME NEW n \in Node, NEW i \in Id, Register(n, i) PROVE TypeOK'
  <2>1. RegisterNode(n, i) BY <1>2 DEF Register
  <2> QED BY <1>2, <2>1, RegisterTypes DEF Register, TypeOK, sessions, Id
<1>3. ASSUME NEW n \in Node, NEW i \in Id, RegisterLost(n, i) PROVE TypeOK'
  <2>1. RegisterNode(n, i) BY <1>3 DEF RegisterLost
  <2>2. faults' \in [FaultKinds -> Nat]
    BY <1>3, StrikeTypes DEF RegisterLost, FaultKinds
  <2> QED BY <1>3, <2>1, <2>2, RegisterTypes DEF RegisterLost, TypeOK, sessions, procs
<1>4. ASSUME NEW n \in Node, Crash(n) PROVE TypeOK'
  <2>1. faults' \in [FaultKinds -> Nat]
    BY <1>4, StrikeTypes DEF Crash, FaultKinds
  <2> QED BY <1>4, <2>1 DEF Crash, TypeOK, registry, sessions
<1>5. ASSUME NEW i \in Id, Expire(i) PROVE TypeOK'
  <2>1. faults' \in [FaultKinds -> Nat]
    BY <1>5, StrikeTypes DEF Expire, FaultKinds
  <2> QED BY <1>5, <2>1 DEF Expire, TypeOK, procs, sessions
<1>6. ASSUME NEW s \in Session, NEW l \in Name, NEW i \in Id, Create(s, l, i)
      PROVE TypeOK'
  BY <1>6 DEF Create, TypeOK, procs, registry, Id
<1>7. ASSUME NEW s \in Session, Open(s) PROVE TypeOK'
  BY <1>7 DEF Open, TypeOK, procs, registry
<1>8. ASSUME NEW n \in Node, NEW s \in Session, Handle(n, s) PROVE TypeOK'
  BY <1>8 DEF Handle, TypeOK, procs, registry
<1>9. CASE UNCHANGED vars
  BY <1>9 DEF TypeOK, vars, procs, registry, sessions
<1> QED BY <1>1, <1>2, <1>3, <1>4, <1>5, <1>6, <1>7, <1>8, <1>9 DEF Next, Runs

(* The variables keep their types, for any nodes, labels and bounds. *)
THEOREM TypeCorrect == Spec => []TypeOK
BY TypeInit, TypeStep, PTL DEF Spec

-----------------------------------------------------------------------------
(* What an id stands for *)

(* What an id that was drawn stands for never changes. *)
LEMMA EntryKept ==
  ASSUME TypeOK, [Next]_vars
  PROVE  /\ drawn <= drawn'
         /\ \A j \in 1..drawn : entry'[j] = entry[j]
<1>1. ASSUME NEW n \in Node, NEW i \in Id, RegisterNode(n, i)
      PROVE  drawn <= drawn' /\ \A j \in 1..drawn : entry'[j] = entry[j]
  <2>1. drawn <= drawn'
    BY <1>1, RegisterTypes
  <2>2. ASSUME NEW j \in 1..drawn PROVE entry'[j] = entry[j]
    <3>1. CASE j # i
      BY <3>1, <1>1 DEF RegisterNode, TypeOK, Id
    <3>2. CASE j = i
      <4>1. entry[i][1] = NameOf(n, i) /\ entry[i][2] = RoleOf[n]
        BY <3>2, <1>1, IdForIs DEF RegisterNode, TypeOK
      <4>2. entry[i] \in (Name \X Role) \cup {<<None, None>>}
        BY DEF TypeOK
      <4>3. entry[i] = <<NameOf(n, i), RoleOf[n]>>
        BY <4>1, <4>2
      <4> QED BY <3>2, <4>3, <1>1 DEF RegisterNode, TypeOK
    <3> QED BY <3>1, <3>2
  <2> QED BY <2>1, <2>2
<1>2. CASE UNCHANGED <<entry, drawn>>
  BY <1>2 DEF TypeOK
<1> QED
  BY <1>1, <1>2 DEF Next, Runs, Start, Register, RegisterLost, Crash, Expire,
                    Create, Open, Handle, vars, registry

(* An id a process has stands for its label and role; the receiver of a    *)
(* session stands for the label its creator named.                         *)
Owners ==
  /\ \A n \in Node : id[n] # 0 =>
       id[n] <= drawn /\ entry[id[n]] = <<NameOf(n, id[n]), RoleOf[n]>>
  /\ \A s \in Session : state[s] # "none" =>
       receiver[s] \in 1..drawn /\ entry[receiver[s]][1] = wants[s]

IInv == TypeOK /\ Owners /\ JoinedByNamed

LEMMA OwnersInit == Init => Owners /\ JoinedByNamed
BY DEF Init, Owners, JoinedByNamed

(* Owners, as far as processes and sessions are left alone. *)
LEMMA OwnersKept ==
  ASSUME IInv, [Next]_vars,
         NEW n \in Node, id'[n] = id[n], id[n] # 0
  PROVE  id'[n] <= drawn' /\ entry'[id'[n]] = <<NameOf(n, id'[n]), RoleOf[n]>>
<1>1. TypeOK /\ id[n] <= drawn /\ entry[id[n]] = <<NameOf(n, id[n]), RoleOf[n]>>
  BY DEF IInv, Owners
<1>2. id[n] \in 1..drawn /\ drawn \in Nat
  BY <1>1 DEF TypeOK
<1>3. entry'[id[n]] = entry[id[n]] /\ drawn <= drawn'
  BY <1>1, <1>2, EntryKept
<1>4. drawn' \in Int
  BY <1>1, TypeStep DEF TypeOK
<1> QED BY <1>1, <1>2, <1>3, <1>4

LEMMA ReceiverKept ==
  ASSUME IInv, [Next]_vars,
         NEW s \in Session, state[s] # "none",
         receiver'[s] = receiver[s], wants'[s] = wants[s]
  PROVE  receiver'[s] \in 1..drawn' /\ entry'[receiver'[s]][1] = wants'[s]
<1>1. TypeOK /\ receiver[s] \in 1..drawn /\ entry[receiver[s]][1] = wants[s]
  BY DEF IInv, Owners
<1>2. entry'[receiver[s]] = entry[receiver[s]] /\ drawn <= drawn'
  BY <1>1, EntryKept
<1>3. drawn \in Int /\ drawn' \in Int
  BY <1>1, TypeStep DEF TypeOK
<1> QED BY <1>1, <1>2, <1>3

LEMMA OwnersStep == IInv /\ [Next]_vars => Owners' /\ JoinedByNamed'
<1> SUFFICES ASSUME IInv, [Next]_vars PROVE Owners' /\ JoinedByNamed'
  OBVIOUS
<1> USE DEF IInv
<1>a. CASE UNCHANGED sessions
  <2>1. \A s \in Session : state'[s] # "none" =>
          receiver'[s] \in 1..drawn' /\ entry'[receiver'[s]][1] = wants'[s]
    BY <1>a, ReceiverKept DEF sessions
  <2>2. JoinedByNamed'
    BY <1>a DEF sessions, JoinedByNamed
  <2>3. ASSUME NEW n \in Node, NEW i \in Id, Register(n, i) PROVE Owners'
    <3>1. i <= drawn' /\ entry'[i] = <<NameOf(n, i), RoleOf[n]>>
      BY <2>3, RegisterTypes DEF Register, RegisterNode, TypeOK
    <3>2. id'[n] = i /\ \A m \in Node : m # n => id'[m] = id[m]
      BY <2>3 DEF Register, TypeOK
    <3>3. \A m \in Node : id'[m] # 0 =>
            id'[m] <= drawn' /\ entry'[id'[m]] = <<NameOf(m, id'[m]), RoleOf[m]>>
      BY <3>1, <3>2, OwnersKept
    <3> QED BY <2>1, <3>3 DEF Owners
  <2>4. (\A m \in Node : id'[m] # 0 => id'[m] = id[m]) => Owners'
    <3> HAVE \A m \in Node : id'[m] # 0 => id'[m] = id[m]
    <3>1. \A m \in Node : id'[m] # 0 =>
            id'[m] <= drawn' /\ entry'[id'[m]] = <<NameOf(m, id'[m]), RoleOf[m]>>
      BY OwnersKept
    <3> QED BY <2>1, <3>1 DEF Owners
  <2>5. ASSUME NEW n \in Node, Crash(n) PROVE Owners'
    <3>1. \A m \in Node : id'[m] # 0 => id'[m] = id[m]
      BY <2>5 DEF Crash, TypeOK
    <3> QED BY <3>1, <2>4
  <2>6. CASE \/ \E n \in Node : Start(n) \/ \E i \in Id : RegisterLost(n, i)
             \/ \E i \in Id : Expire(i)
             \/ UNCHANGED vars
    <3>1. id' = id
      BY <2>6 DEF Start, RegisterLost, Expire, vars, procs
    <3>2. \A m \in Node : id'[m] # 0 => id'[m] = id[m]
      BY <3>1
    <3> QED BY <3>2, <2>2, <2>4
  <2>7. ASSUME NEW s \in Session,
               Open(s) \/ (\E n \in Node : Handle(n, s))
                 \/ \E l \in Name, i \in Id : Create(s, l, i)
        PROVE  Owners'
    <3>1. id' = id
      BY <2>7 DEF Open, Handle, Create, procs
    <3>2. \A m \in Node : id'[m] # 0 => id'[m] = id[m]
      BY <3>1
    <3> QED BY <3>2, <2>4
  <2> QED BY <2>2, <2>3, <2>5, <2>6, <2>7 DEF Next, Runs
<1>b. ASSUME NEW s \in Session,
             Open(s) \/ (\E n \in Node : Handle(n, s))
               \/ \E l \in Name, i \in Id : Create(s, l, i)
      PROVE  Owners' /\ JoinedByNamed'
  <2>1. \A n \in Node : id'[n] # 0 =>
          id'[n] <= drawn' /\ entry'[id'[n]] = <<NameOf(n, id'[n]), RoleOf[n]>>
    BY <1>b, OwnersKept DEF Open, Handle, Create, procs
  <2>2. \A t \in Session : t # s =>
          /\ state'[t] = state[t] /\ wants'[t] = wants[t]
          /\ receiver'[t] = receiver[t] /\ handler'[t] = handler[t]
    BY <1>b DEF Open, Handle, Create, TypeOK
  <2>3. CASE \E l \in Name, i \in Id : Create(s, l, i)
    <3>1. /\ receiver'[s] \in 1..drawn' /\ entry'[receiver'[s]][1] = wants'[s]
          /\ state'[s] = "created"
      BY <2>3 DEF Create, Found, TypeOK, registry
    <3>2. Owners'
      BY <2>1, <2>2, <3>1, ReceiverKept DEF Owners
    <3> QED BY <2>2, <3>1, <3>2 DEF JoinedByNamed
  <2>4. CASE Open(s)
    <3>1. /\ receiver'[s] = receiver[s] /\ wants'[s] = wants[s]
          /\ state[s] # "none" /\ state'[s] = "open"
      BY <2>4 DEF Open, TypeOK
    <3>2. Owners'
      BY <2>1, <2>2, <3>1, ReceiverKept DEF Owners
    <3> QED BY <2>2, <3>1, <3>2 DEF JoinedByNamed
  <2>5. ASSUME NEW n \in Node, Handle(n, s) PROVE Owners' /\ JoinedByNamed'
    <3>1. /\ receiver'[s] = receiver[s] /\ wants'[s] = wants[s]
          /\ state[s] # "none" /\ handler'[s] = n
      BY <2>5 DEF Handle, TypeOK
    <3>2. Owners'
      BY <2>1, <2>2, <3>1, ReceiverKept DEF Owners
    <3>3. NameOf(n, receiver[s]) = wants[s]
      <4>1. receiver[s] \in 1..drawn /\ entry[receiver[s]][1] = wants[s]
        BY <3>1 DEF Owners
      <4>2. id[n] # 0 /\ id[n] = receiver[s]
        BY <2>5, <4>1 DEF Handle, TypeOK
      <4>3. entry[receiver[s]] = <<NameOf(n, receiver[s]), RoleOf[n]>>
        BY <4>2 DEF Owners
      <4>4. <<NameOf(n, receiver[s]), RoleOf[n]>>[1] = NameOf(n, receiver[s])
        OBVIOUS
      <4> QED BY <4>1, <4>3, <4>4
    <3> QED BY <2>2, <3>1, <3>2, <3>3 DEF JoinedByNamed
  <2> QED BY <1>b, <2>3, <2>4, <2>5
<1> QED
  BY <1>a, <1>b DEF Next, Runs, Start, Register, RegisterLost, Crash, Expire, vars

LEMMA Invariant == Spec => []IInv
<1>1. Init => IInv
  BY TypeInit, OwnersInit DEF IInv
<1>2. IInv /\ [Next]_vars => IInv'
  BY TypeStep, OwnersStep DEF IInv
<1> QED BY <1>1, <1>2, PTL DEF Spec

(* A process without a label has its id for itself: no label leads to it. *)
Alone == \A n, m \in Node :
           id[n] # 0 /\ id[n] = id[m] /\ LabelOf[n] = NoLabel => n = m

LEMMA AloneStep == IInv /\ Alone /\ [Next]_vars => Alone'
<1> SUFFICES ASSUME IInv, Alone, [Next]_vars PROVE Alone'
  OBVIOUS
<1>1. TypeOK /\ Owners
  BY DEF IInv
<1>2. ASSUME NEW n \in Node, NEW i \in Id, Register(n, i) PROVE Alone'
  <2>1. id'[n] = i /\ \A m \in Node : m # n => id'[m] = id[m]
    BY <1>1, <1>2 DEF Register, TypeOK
  <2>2. i \in IdFor(n)
    BY <1>2 DEF Register, RegisterNode
  <2>3. ASSUME NEW m \in Node, m # n, id[m] = i
        PROVE  LabelOf[n] # NoLabel /\ LabelOf[m] # NoLabel
    <3>1. i # drawn + 1 /\ entry[i] = <<NameOf(m, i), RoleOf[m]>>
      BY <1>1, <2>3 DEF Owners, TypeOK, Id
    <3>2. LabelOf[n] # NoLabel /\ entry[i][1] = LabelOf[n]
      BY <2>2, <3>1, IdForIs
    <3>3. <<NameOf(m, i), RoleOf[m]>>[1] = NameOf(m, i)
      OBVIOUS
    <3>4. NameOf(m, i) = LabelOf[n]
      BY <3>1, <3>2, <3>3
    <3>5. MadeUp(i) # LabelOf[n]
      BY <3>2 DEF Label
    <3> QED BY <3>2, <3>4, <3>5 DEF NameOf
  <2> QED BY <2>1, <2>3 DEF Alone
<1>3. ASSUME \A m \in Node : id'[m] # 0 => id'[m] = id[m] PROVE Alone'
  BY <1>3 DEF Alone
<1>4. ASSUME NEW n \in Node, Crash(n) PROVE Alone'
  BY <1>1, <1>3, <1>4 DEF Crash, TypeOK
<1>5. CASE id' = id
  BY <1>3, <1>5
<1> QED BY <1>2, <1>4, <1>5 DEF Next, Runs, Start, RegisterLost, Expire, Create, Open,
                                Handle, vars, procs

(* Processes that read one stream are the same node by label and role      *)
(* (register_node), and the same process if there is no label, whatever    *)
(* labels clash, records expire or answers are lost.                       *)
THEOREM OneOwner == Spec => []StreamHasOneOwner
<1>1. IInv /\ Alone => StreamHasOneOwner
  <2> SUFFICES ASSUME IInv, Alone, NEW n \in Node, NEW m \in Node,
                      id[n] # 0, id[n] = id[m]
               PROVE  /\ LabelOf[n] = LabelOf[m] /\ RoleOf[n] = RoleOf[m]
                      /\ LabelOf[n] = NoLabel => n = m
    BY DEF StreamHasOneOwner
  <2>1. <<NameOf(n, id[n]), RoleOf[n]>> = <<NameOf(m, id[n]), RoleOf[m]>>
    BY DEF IInv, Owners
  <2>2. NameOf(n, id[n]) = NameOf(m, id[n]) /\ RoleOf[n] = RoleOf[m]
    BY <2>1
  <2>3. id[n] \in Id
    BY DEF IInv, TypeOK, Id
  <2>4. MadeUp(id[n]) \notin Label
    BY <2>3
  <2>5. LabelOf[n] = LabelOf[m]
    BY <2>2, <2>4 DEF NameOf, Label
  <2> QED BY <2>2, <2>5 DEF Alone
<1>2. Init => Alone
  BY DEF Init, Alone
<1> QED BY <1>1, <1>2, AloneStep, Invariant, PTL DEF Spec

(* The node that handles a session_open has the label the creator of the   *)
(* session named (find_node_by_label).                                     *)
THEOREM NamedNodeJoins == Spec => []JoinedByNamed
<1>1. IInv => JoinedByNamed
  BY DEF IInv
<1> QED BY <1>1, Invariant, PTL

-----------------------------------------------------------------------------
(* One id per label, as long as no record expires *)

(* Every record is some node's; while none expired all are present, and a  *)
(* label of one role has one record.                                       *)
Faithful == \A i \in 1..drawn : \E n \in Node : entry[i] = <<NameOf(n, i), RoleOf[n]>>
OneId    == /\ present = 1..drawn
            /\ \A i, j \in 1..drawn :
                 entry[i][1] = entry[j][1] /\ OneRole(entry[i][1]) => i = j
Kept     == /\ faults["expiry"] <= MaxFaults["expiry"]
            /\ Faithful
            /\ Unspent({"expiry"}) => OneId

LEMMA KeptInit == Init => Kept
BY DEF Init, Kept, Faithful, OneId, FaultKinds

(* A fault that was used up is not given back. *)
LEMMA UnspentBefore ==
  ASSUME TypeOK, [Next]_vars, faults["expiry"] <= MaxFaults["expiry"]
  PROVE  /\ faults'["expiry"] <= MaxFaults["expiry"]
         /\ Unspent({"expiry"})' => Unspent({"expiry"}) /\ \A i \in Id : ~Expire(i)
<1>1. MaxFaults["expiry"] \in Nat /\ faults["expiry"] \in Nat
  BY DEF TypeOK, FaultKinds
<1>2. ASSUME NEW kind \in FaultKinds, Strike(kind)
      PROVE  faults'["expiry"] = IF kind = "expiry" THEN faults["expiry"] - 1
                                                    ELSE faults["expiry"]
  BY <1>2 DEF Strike, TypeOK, FaultKinds
<1>3. ASSUME NEW i \in Id, Expire(i) PROVE faults'["expiry"] = faults["expiry"] - 1
  BY <1>3, <1>2 DEF Expire, FaultKinds
<1>4. ASSUME \A i \in Id : ~Expire(i) PROVE faults'["expiry"] = faults["expiry"]
  <2>1. CASE UNCHANGED faults
    BY <2>1
  <2>2. CASE \E n \in Node : Crash(n) \/ \E i \in Id : RegisterLost(n, i)
    BY <2>2, <1>2 DEF Crash, RegisterLost, FaultKinds
  <2> QED BY <1>4, <2>1, <2>2 DEF Next, Runs, Start, Register, Create, Open, Handle,
                                  vars
<1> QED BY <1>1, <1>3, <1>4 DEF Unspent

(* A registration draws an id only if its label has none, as long as the   *)
(* records are all there.                                                  *)
LEMMA RegisterKeeps ==
  ASSUME TypeOK, Faithful, NEW n \in Node, NEW i \in Id, RegisterNode(n, i),
         \A j \in 1..drawn : entry'[j] = entry[j]
  PROVE  Faithful' /\ (OneId => OneId')
<1>1. entry'[i] = <<NameOf(n, i), RoleOf[n]>>
  BY DEF RegisterNode, TypeOK
<1>2. drawn \in Nat /\ (i \in 1..drawn \/ i = drawn + 1)
  BY IdForIs DEF RegisterNode, TypeOK
<1>3. drawn' = (IF i > drawn THEN i ELSE drawn)
  BY DEF RegisterNode
<1>4. 1..drawn' = 1..drawn \cup {i}
  BY <1>2, <1>3
<1>5. Faithful'
  BY <1>1, <1>4 DEF Faithful
<1>6. ASSUME OneId PROVE OneId'
  <2>1. present' = 1..drawn'
    BY <1>4, <1>6 DEF OneId, RegisterNode
  <2>2. CASE i \in 1..drawn
    BY <1>4, <1>6, <2>1, <2>2 DEF OneId, OneRole
  <2>3. CASE i = drawn + 1
    <3>1. <<NameOf(n, i), RoleOf[n]>>[1] = NameOf(n, i)
      OBVIOUS
    <3>2. ASSUME OneRole(NameOf(n, i)), NEW j \in 1..drawn
          PROVE  entry[j][1] # NameOf(n, i)
      <4>0. SUFFICES ASSUME entry[j][1] = NameOf(n, i) PROVE FALSE
        OBVIOUS
      <4>a. \A k \in 1..drawn : \E m \in Node :
              entry[k][1] = NameOf(m, k) /\ entry[k][2] = RoleOf[m]
        <5> SUFFICES ASSUME NEW k \in 1..drawn
                     PROVE  \E m \in Node : entry[k][1] = NameOf(m, k) /\ entry[k][2] = RoleOf[m]
          OBVIOUS
        <5>1. PICK m \in Node : entry[k] = <<NameOf(m, k), RoleOf[m]>>
          BY DEF Faithful
        <5> QED BY <5>1
      <4>b. \A k \in 1..drawn : k \in Id /\ k # i
        BY <2>3 DEF TypeOK, Id
      <4>c. LabelOf[n] # NoLabel
        <5>1. PICK m \in Node : entry[j][1] = NameOf(m, j)
          BY <4>a
        <5>2. NameOf(m, j) # MadeUp(i)
          BY <4>b DEF NameOf, MadeUp, Label
        <5> QED BY <4>0, <5>1, <5>2 DEF NameOf
      <4>1. entry[j][1] = LabelOf[n] /\ OneRole(LabelOf[n]) /\ LabelOf[n] \in Label
        BY <3>2, <4>0, <4>c DEF NameOf, Label
      <4>2. \A k \in Found(LabelOf[n]) : entry[k][2] = RoleOf[n]
        <5>1. SUFFICES ASSUME NEW k \in Found(LabelOf[n])
                       PROVE  entry[k][2] = RoleOf[n]
          OBVIOUS
        <5>2. k \in 1..drawn /\ entry[k][1] = LabelOf[n]
          BY <1>6 DEF Found, OneId
        <5>3. PICK m \in Node : entry[k][1] = NameOf(m, k) /\ entry[k][2] = RoleOf[m]
          BY <4>a, <5>2
        <5>4. MadeUp(k) \notin Label
          BY <4>b, <5>2
        <5>5. LabelOf[m] = LabelOf[n] /\ entry[k][2] = RoleOf[m]
          BY <4>1, <5>2, <5>3, <5>4 DEF NameOf
        <5> QED BY <4>1, <5>5 DEF OneRole
      <4>3. j \in Found(LabelOf[n])
        BY <1>6, <4>1 DEF Found, OneId
      <4>4. i \in Found(LabelOf[n])
        BY <4>2, <4>3, <4>c DEF RegisterNode, IdFor
      <4>5. i \in 1..drawn
        BY <1>6, <4>4 DEF Found, OneId
      <4> QED BY <1>2, <2>3, <4>5
    <3>3. ASSUME NEW j \in 1..drawn', NEW k \in 1..drawn',
                 entry'[j][1] = entry'[k][1], OneRole(entry'[j][1])
          PROVE  j = k
      <4>1. CASE j \in 1..drawn /\ k \in 1..drawn
        BY <1>6, <3>3, <4>1 DEF OneId
      <4>2. CASE j = i /\ k \in 1..drawn
        BY <1>1, <3>1, <3>2, <3>3, <4>2
      <4>3. CASE j \in 1..drawn /\ k = i
        BY <1>1, <3>1, <3>2, <3>3, <4>3
      <4> QED BY <1>4, <4>1, <4>2, <4>3
    <3>4. \A j, k \in 1..drawn' :
            entry'[j][1] = entry'[k][1] /\ OneRole(entry'[j][1]) => j = k
      BY <3>3
    <3> QED BY <2>1, <3>4 DEF OneId, OneRole
  <2> QED BY <1>2, <2>2, <2>3
<1> QED BY <1>5, <1>6

LEMMA KeptStep == TypeOK /\ Kept /\ [Next]_vars => Kept'
<1> SUFFICES ASSUME TypeOK, Kept, [Next]_vars PROVE Kept'
  OBVIOUS
<1>1. /\ faults'["expiry"] <= MaxFaults["expiry"]
      /\ Unspent({"expiry"})' => Unspent({"expiry"}) /\ \A i \in Id : ~Expire(i)
  BY UnspentBefore DEF Kept
<1>2. ASSUME NEW n \in Node, NEW i \in Id, RegisterNode(n, i) PROVE Kept'
  <2>1. Faithful' /\ (OneId => OneId')
    BY <1>2, RegisterKeeps, EntryKept DEF Kept
  <2> QED BY <1>1, <2>1 DEF Kept
<1>3. ASSUME NEW i \in Id, Expire(i) PROVE Kept'
  <2>1. Faithful'
    BY <1>3 DEF Expire, Faithful, Kept
  <2> QED BY <1>1, <1>3, <2>1 DEF Kept
<1>4. CASE UNCHANGED registry
  <2>1. Faithful' /\ (OneId => OneId')
    BY <1>4 DEF registry, Kept, Faithful, OneId, OneRole
  <2> QED BY <1>1, <2>1 DEF Kept
<1> QED BY <1>2, <1>3, <1>4 DEF Next, Runs, Start, Register, RegisterLost, Crash,
                                Create, Open, Handle, vars

(* As long as no record expires and no node of another role has its label, *)
(* a node has the id that sessions know it by, through restarts and        *)
(* repeated registrations (register_node).                                 *)
THEOREM NodeKeepsItsId == Spec => []AddresseeIsNode
<1>1. Init => Kept
  BY KeptInit
<1>2. IInv /\ Kept /\ [Next]_vars => Kept'
  BY KeptStep DEF IInv
<1>3. IInv /\ Kept => AddresseeIsNode
  <2> SUFFICES ASSUME IInv, Kept, Unspent({"expiry"}),
                      NEW s \in Session, NEW n \in Node, state[s] # "none",
                      wants[s] = LabelOf[n], OneRole(wants[s]), pc[n] = "up"
               PROVE  id[n] = receiver[s]
    BY DEF AddresseeIsNode
  <2>1. receiver[s] \in 1..drawn /\ entry[receiver[s]][1] = LabelOf[n]
    BY DEF IInv, Owners
  <2>2. id[n] # 0 /\ id[n] \in Nat /\ drawn \in Nat
    BY DEF IInv, TypeOK
  <2>3. id[n] <= drawn /\ entry[id[n]] = <<NameOf(n, id[n]), RoleOf[n]>>
    BY <2>2 DEF IInv, Owners
  <2>4. LabelOf[n] # NoLabel
    <3>1. wants[s] \in Name \cup {None}
      BY DEF IInv, TypeOK
    <3>2. None # wants[s]
      <4>1. receiver[s] \in Id /\ entry[receiver[s]] \in (Name \X Role) \cup {<<None, None>>}
        BY <2>1, <2>2 DEF IInv, TypeOK, Id
      <4>2. PICK m \in Node : entry[receiver[s]] = <<NameOf(m, receiver[s]), RoleOf[m]>>
        BY <2>1 DEF Kept, Faithful
      <4>3. entry[receiver[s]][1] = NameOf(m, receiver[s])
        BY <4>2
      <4> QED BY <2>1, <4>1, <4>3, NameOfIs
    <3>3. NoLabel \notin Name
      BY DEF Name, Label
    <3> QED BY <3>1, <3>2, <3>3
  <2>5. entry[id[n]][1] = LabelOf[n]
    BY <2>3, <2>4 DEF NameOf
  <2>6. id[n] \in 1..drawn
    BY <2>2, <2>3
  <2> QED BY <2>1, <2>5, <2>6 DEF Kept, OneId
<1> QED BY <1>1, <1>2, <1>3, Invariant, PTL DEF Spec
=============================================================================
