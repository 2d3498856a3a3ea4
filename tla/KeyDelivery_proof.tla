------------------------- MODULE KeyDelivery_proof -------------------------
(***************************************************************************)
(* Proofs about KeyDelivery, for fault budgets, retries and cancellations  *)
(* of any number.                                                          *)
(***************************************************************************)
EXTENDS KeyDelivery, SequenceTheorems, TLAPS

-----------------------------------------------------------------------------
(* Types *)

(* The queue holds a natural number of each message after a task has run.  *)
LEMMA ReplaceType ==
  ASSUME msgs \in [Msg -> Nat], NEW m \in Msg, msgs[m] > 0, NEW next,
         \/ Replace(m, next)
         \/ msgs' = [x \in Msg |-> msgs[x] + Count(x \in next)]
  PROVE  msgs' \in [Msg -> Nat]
<1>1. \A b : Count(b) \in {0, 1}
  BY DEF Count
<1>2. ASSUME NEW x \in Msg
      PROVE  /\ msgs[x] - Count(x = m) + Count(x \in next) \in Nat
             /\ msgs[x] + Count(x \in next) \in Nat
  <2>1. msgs[x] \in Nat /\ Count(x \in next) \in {0, 1}
    BY <1>1
  <2>2. x = m => msgs[x] > 0
    OBVIOUS
  <2>3. Count(x = m) = IF x = m THEN 1 ELSE 0
    BY DEF Count
  <2> QED BY <2>1, <2>2, <2>3
<1>3. CASE Replace(m, next)
  BY <1>2, <1>3 DEF Replace
<1>4. CASE msgs' = [x \in Msg |-> msgs[x] + Count(x \in next)]
  BY <1>2, <1>4
<1> QED BY <1>3, <1>4

(* A budget that is left is at least one, and stays a number. *)
LEMMA StrikeType ==
  ASSUME faults \in [FaultKinds -> Nat], NEW kind \in FaultKinds, Strike(kind)
  PROVE  faults' \in [FaultKinds -> Nat]
BY DEF Strike

(* A task that ran leaves a queue of messages, redelivered or not. *)
LEMMA RanType ==
  ASSUME msgs \in [Msg -> Nat], faults \in [FaultKinds -> Nat],
         NEW m \in Msg, NEW next, Ran(m, next)
  PROVE  msgs' \in [Msg -> Nat] /\ faults' \in [FaultKinds -> Nat]
BY ReplaceType, StrikeType DEF Ran, FaultKinds

(* Publishing and handling an event leave numbers of events. *)
LEMMA EventsType ==
  ASSUME events \in [EventKinds -> Nat], NEW kind \in EventKinds
  PROVE  /\ Raise(kind) \in [EventKinds -> Nat]
         /\ Take(kind) => events' \in [EventKinds -> Nat]
BY DEF Raise, Take

(* save_session leaves a status of the state machine, broken off or not. *)
LEMMA SaveStatusType ==
  ASSUME TypeOK, NEW st \in Running \cup Terminal, SaveStatus(st) \/ CutSave(st)
  PROVE  status' \in Running \cup Terminal /\ active' \in BOOLEAN
<1>1. status' \in Running \cup Terminal
  BY DEF SaveStatus, CutSave
<1>2. CASE SaveStatus(st)
  <2>1. active' \in BOOLEAN
    BY <1>2 DEF SaveStatus
  <2> QED BY <1>1, <2>1
<1>3. CASE CutSave(st)
  <2>1. CASE active' = active
    BY <1>1, <2>1 DEF TypeOK
  <2>2. CASE active' = (st \in Running)
    <3>1. active' \in BOOLEAN
      BY <2>2
    <3> QED BY <1>1, <3>1
  <2> QED BY <1>3, <2>1, <2>2 DEF CutSave
<1> QED BY <1>2, <1>3

(* publish_key leaves a well-formed record, whatever its outcome. *)
LEMMA PublishKeyType ==
  ASSUME TypeOK, NEW k \in Keys, PublishKey(k)
  PROVE  /\ exists' \in BOOLEAN /\ late' \in BOOLEAN /\ active' \in BOOLEAN
         /\ status' \in Running \cup Terminal /\ setup' = setup
         /\ keyStatus' \in {"none", "active", "consumed", "expired"}
         /\ keyFinal' \in Keys /\ events' \in [EventKinds -> Nat]
         /\ activations' \in Nat /\ handedOut' = handedOut
<1>1. events' \in [EventKinds -> Nat]
  BY DEF TypeOK, PublishKey, Raise, EventKinds
<1>2. status' \in Running \cup Terminal /\ active' \in BOOLEAN
  BY SaveStatusType DEF PublishKey, Terminal
<1>3. /\ keyStatus' \in {"none", "active", "consumed", "expired"}
      /\ late' \in BOOLEAN /\ activations' \in Nat
  <2>1. CASE k # 0
    <3>1. Activate
      BY <2>1 DEF PublishKey
    <3>2. activations \in Nat
      BY DEF TypeOK
    <3>3. keyStatus' = "active" /\ activations' = activations + 1
      BY <3>1 DEF Activate
    <3>4. late' \in BOOLEAN
      BY <3>1 DEF Activate
    <3> QED BY <3>2, <3>3, <3>4
  <2>2. CASE k = 0
    <3>1. UNCHANGED <<keyStatus, late, activations>>
      BY <2>2 DEF PublishKey
    <3> QED BY <3>1 DEF TypeOK
  <2> QED BY <2>1, <2>2
<1> QED BY <1>1, <1>2, <1>3 DEF TypeOK, PublishKey

(* So does a publish_key that is broken off. *)
LEMMA PublishCutType ==
  ASSUME TypeOK, NEW k \in Keys, PublishCut(k)
  PROVE  /\ exists' \in BOOLEAN /\ late' \in BOOLEAN /\ active' \in BOOLEAN
         /\ status' \in Running \cup Terminal
         /\ keyStatus' \in {"none", "active", "consumed", "expired"}
         /\ keyFinal' \in Keys /\ events' \in [EventKinds -> Nat]
         /\ activations' \in Nat /\ handedOut' = handedOut
<1>1. events' \in [EventKinds -> Nat]
  BY EventsType DEF TypeOK, PublishCut, EventKinds
<1>2. status' \in Running \cup Terminal /\ active' \in BOOLEAN
  <2>1. CASE CutSave(status) \/ CutSave("aborted") \/ SaveStatus("aborted")
    BY <2>1, SaveStatusType DEF TypeOK, Terminal
  <2>2. CASE status' = "done" /\ active' \in {FALSE, (status \in Running)}
    <3>1. CASE active' = FALSE
      BY <2>2, <3>1 DEF Terminal
    <3>2. CASE active' = (status \in Running)
      <4>1. active' \in BOOLEAN
        BY <3>2
      <4> QED BY <2>2, <4>1 DEF Terminal
    <3> QED BY <2>2, <3>1, <3>2
  <2> QED BY <2>1, <2>2 DEF PublishCut
<1>3. /\ keyStatus' \in {"none", "active", "consumed", "expired"}
      /\ late' \in BOOLEAN /\ activations' \in Nat
  <2>1. CASE Activate
    <3>1. keyStatus' = "active" /\ activations' = activations + 1
      BY <2>1 DEF Activate
    <3>2. activations \in Nat
      BY DEF TypeOK
    <3>3. late' \in BOOLEAN
      BY <2>1 DEF Activate
    <3> QED BY <3>1, <3>2, <3>3
  <2>2. CASE UNCHANGED <<keyStatus, late, activations>>
    BY <2>2 DEF TypeOK
  <2> QED BY <2>1, <2>2 DEF PublishCut
<1>4. keyFinal' \in Keys
  BY DEF PublishCut, TypeOK
<1> QED BY <1>1, <1>2, <1>3, <1>4 DEF TypeOK, PublishCut

(* The task that runs, or none, is lost with the KME. *)
LEMMA KmeDiesType ==
  ASSUME TypeOK, KmeDies
  PROVE  /\ setup' \in {"none", "runs", "opened", "failed", "lost"}
         /\ faults' \in [FaultKinds -> Nat]
BY StrikeType DEF TypeOK, KmeDies, FaultKinds

(* The messages of the chain are among those of its queue. *)
LEMMA MessageType ==
  /\ ST \in Msg
  /\ \A k \in Keys : <<"QKT", k, 0>> \in Msg
  /\ \A k \in Keys, r \in 0..NtRetries : <<"NT", k, r>> \in Msg
BY DEF Msg

(* No session, no task and no event to begin with. *)
LEMMA TypeInit == Init => TypeOK
<1> SUFFICES ASSUME Init
             PROVE  TypeOK
  OBVIOUS
<1>1. /\ msgs \in [Msg -> Nat] /\ events \in [EventKinds -> Nat]
      /\ faults \in [FaultKinds -> Nat] /\ handedOut \in Seq(Keys)
  BY DeliveryAssumption DEF Init
<1>2. keyFinal \in Keys /\ sift \in Keys /\ bobKey \in Keys /\ drawn \in Keys
  BY DeliveryAssumption DEF Init, Keys
<1>3. chords \in Nat /\ activations \in Nat /\ cancels \in 0..MaxCancels
  BY DeliveryAssumption DEF Init
<1> QED BY <1>1, <1>2, <1>3 DEF Init, TypeOK, Running

(* One step per action of the users, the nodes, the chain and the faults. *)
LEMMA TypeStep == TypeOK /\ [Next]_vars => TypeOK'
<1> SUFFICES ASSUME TypeOK, [Next]_vars
             PROVE  TypeOK'
  OBVIOUS
<1> USE DeliveryAssumption
<1>1. CASE ChordCompletes
  <2>1. msgs' \in [Msg -> Nat] /\ chords' \in Nat
    <3>1. /\ chords > 0 /\ chords' = chords - 1
          /\ msgs' = [msgs EXCEPT ![ST] = @ + 1]
          /\ chords \in Nat /\ msgs \in [Msg -> Nat]
      BY <1>1 DEF ChordCompletes, TypeOK
    <3> QED BY <3>1, MessageType
  <2> QED BY <1>1, <2>1
          DEF ChordCompletes, TypeOK, record, bus, nodes, bobs, audit
<1>2. CASE SiftFails
  <2>1. msgs' \in [Msg -> Nat] /\ faults' \in [FaultKinds -> Nat]
    BY <1>2, RanType, MessageType DEF SiftFails, TypeOK
  <2> QED BY <1>2, <2>1 DEF SiftFails, TypeOK, record, bus, nodes, bobs, audit
<1>3. CASE Sift
  <2>1. drawn' \in Keys
    BY <1>3 DEF Sift, TypeOK, Keys
  <2>2. PICK good \in {0, drawn'} :
          \/ /\ Ran(ST, {<<"QKT", good, 0>>})
             /\ sift' = drawn' /\ events' = Raise("sift")
          \/ /\ Strike("lost")
             /\ msgs[ST] > 0 /\ Replace(ST, {<<"QKT", good, 0>>})
             /\ UNCHANGED <<sift, events>>
    BY <1>3 DEF Sift
  <2>3. msgs' \in [Msg -> Nat] /\ faults' \in [FaultKinds -> Nat]
    BY <2>2, RanType, ReplaceType, StrikeType, MessageType DEF TypeOK, FaultKinds
  <2>4. sift' \in Keys /\ events' \in [EventKinds -> Nat]
    BY <2>1, <2>2, EventsType DEF TypeOK, EventKinds
  <2> QED BY <1>3, <2>1, <2>3, <2>4 DEF Sift, TypeOK, record, bobs, audit
<1>4. ASSUME NEW k \in Keys, DeriveKey(k)
      PROVE  TypeOK'
  <2>1. msgs' \in [Msg -> Nat] /\ faults' \in [FaultKinds -> Nat]
    BY <1>4, RanType, MessageType DEF DeriveKey, TypeOK
  <2>2. aliceState' \in BOOLEAN
    BY <1>4 DEF DeriveKey, TypeOK
  <2> QED BY <1>4, <2>1, <2>2 DEF DeriveKey, TypeOK, record, bus, bobs, audit
<1>5. ASSUME NEW k \in Keys, NEW r \in 0..NtRetries, Notify(k, r)
      PROVE  TypeOK'
  <2>1. msgs' \in [Msg -> Nat] /\ faults' \in [FaultKinds -> Nat]
    BY <1>5, RanType, MessageType DEF Notify, TypeOK
  <2>2. PublishKey(k)
    BY <1>5 DEF Notify
  <2> QED BY <1>5, <2>1, <2>2, PublishKeyType DEF Notify, TypeOK, bus, bobs
<1>6. ASSUME NEW k \in Keys, NEW r \in 0..NtRetries, NotifyFails(k, r)
      PROVE  TypeOK'
  <2>1. /\ msgs[<<"NT", k, r>>] > 0
        /\ \E next : Replace(<<"NT", k, r>>, next)
    BY <1>6 DEF NotifyFails
  <2>2. msgs' \in [Msg -> Nat]
    BY <2>1, ReplaceType, MessageType DEF TypeOK
  <2>3. faults' \in [FaultKinds -> Nat]
    BY <1>6, StrikeType DEF NotifyFails, TypeOK, FaultKinds
  <2>4. CASE PublishKey(k)
    BY <1>6, <2>2, <2>3, <2>4, PublishKeyType DEF NotifyFails, TypeOK, bus, bobs
  <2>5. CASE UNCHANGED <<record, events, audit>>
    BY <1>6, <2>2, <2>3, <2>5 DEF NotifyFails, TypeOK, bus, bobs, record, audit
  <2> QED BY <1>6, <2>4, <2>5 DEF NotifyFails
<1>7. CASE Open
  BY <1>7 DEF Open, TypeOK, bus, nodes, bobs, chain, audit
<1>8. CASE SetupFails
  <2>1. events' \in [EventKinds -> Nat]
    BY <1>8, EventsType DEF SetupFails, TypeOK, EventKinds
  <2>2. status' \in Running \cup Terminal /\ active' \in BOOLEAN
    BY <1>8, SaveStatusType DEF SetupFails, TypeOK, Terminal
  <2> QED BY <1>8, <2>1, <2>2 DEF SetupFails, TypeOK, bus, bobs, chain, audit
<1>9. CASE AliceStores
  BY <1>9 DEF AliceStores, TypeOK, record, bus, bobs, chain, audit
<1>10. CASE Dispatch
  <2>1. events' \in [EventKinds -> Nat] /\ faults' \in [FaultKinds -> Nat]
    BY <1>10, EventsType, StrikeType DEF Dispatch, TypeOK, EventKinds, FaultKinds
  <2>2. chords' \in Nat /\ receive' \in {"none", "polls", "gets", "over"}
    BY <1>10 DEF Dispatch, TypeOK
  <2> QED BY <1>10, <2>1, <2>2 DEF Dispatch, TypeOK, record, bus, audit
<1>11. CASE Measure
  <2>1. status' \in Running \cup Terminal /\ active' \in BOOLEAN
    BY <1>11, SaveStatusType DEF Measure, TypeOK
  <2>2. measured' \in BOOLEAN
    BY <1>11 DEF Measure, TypeOK
  <2> QED BY <1>11, <2>1, <2>2 DEF Measure, TypeOK, chain, audit
<1>12. CASE BobSifts
  <2>1. events' \in [EventKinds -> Nat]
    BY <1>12, EventsType DEF BobSifts, TypeOK, EventKinds
  <2>2. bobKey' \in Keys
    BY <1>12 DEF BobSifts, TypeOK
  <2>3. faults' \in [FaultKinds -> Nat]
    BY <1>12, StrikeType DEF BobSifts, TypeOK, FaultKinds
  <2> QED BY <1>12, <2>1, <2>2, <2>3 DEF BobSifts, TypeOK, record, bus, chain, audit
<1>13. CASE BobDrops
  <2>1. events' \in [EventKinds -> Nat]
    BY <1>13, EventsType DEF BobDrops, TypeOK, EventKinds
  <2>2. bobKey' \in Keys
    BY <1>13 DEF BobDrops, Keys
  <2>3. /\ bob' \in BOOLEAN
        /\ UNCHANGED <<record, bus, alice, aliceState, receive>>
        /\ UNCHANGED <<chain, audit, cancels, faults>>
    BY <1>13 DEF BobDrops
  <2> QED BY <2>1, <2>2, <2>3 DEF TypeOK, record, bus, chain, audit
<1>14. CASE AliceCleans
  <2>1. events' \in [EventKinds -> Nat]
    BY <1>14, EventsType DEF AliceCleans, TypeOK, EventKinds
  <2> QED BY <1>14, <2>1 DEF AliceCleans, TypeOK, record, bus, bobs, chain, audit
<1>15. CASE Create
  <2>1. status' \in Running \cup Terminal /\ active' \in BOOLEAN
    BY <1>15, SaveStatusType DEF Create, Running
  <2> QED BY <1>15, <2>1 DEF Create, TypeOK, bus, bobs, chain, audit
<1>16. CASE Join
  <2>1. status' \in Running \cup Terminal /\ active' \in BOOLEAN
    BY <1>16, SaveStatusType DEF Join, Running
  <2>2. events' \in [EventKinds -> Nat]
    BY <1>16, EventsType DEF Join, TypeOK, EventKinds
  <2> QED BY <1>16, <2>1, <2>2 DEF Join, TypeOK, bus, chain, audit
<1>17. CASE Consume
  <2>1. handedOut' \in Seq(Keys)
    BY <1>17 DEF Consume, TypeOK
  <2>2. status' \in Running \cup Terminal /\ active' \in BOOLEAN
    BY <1>17, SaveStatusType DEF Consume, TypeOK
  <2> QED BY <1>17, <2>1, <2>2 DEF Consume, TypeOK, bus, nodes, bobs, chain
<1>18. CASE ConsumeLate
  <2>1. status' \in Running \cup Terminal /\ active' \in BOOLEAN
    BY <1>18, SaveStatusType DEF ConsumeLate, TypeOK
  <2> QED BY <1>18, <2>1 DEF ConsumeLate, TypeOK, bus, nodes, bobs, chain, audit
<1>19. CASE Cancel
  <2>1. status' \in Running \cup Terminal /\ active' \in BOOLEAN
    BY <1>19, SaveStatusType DEF Cancel, Terminal
  <2>2. cancels' \in 0..MaxCancels
    BY <1>19 DEF Cancel, TypeOK
  <2> QED BY <1>19, <2>1, <2>2 DEF Cancel, TypeOK, bus, nodes, bobs, chain, audit
<1>20. CASE KeyTimePasses
  BY <1>20 DEF KeyTimePasses, TypeOK, bus, nodes, bobs, chain, audit
<1>21. CASE ChordDies
  <2>1. chords' \in Nat
    BY <1>21 DEF ChordDies, TypeOK
  <2>2. UNCHANGED faults \/ Strike("chord")
    BY <1>21 DEF ChordDies
  <2>3. faults' \in [FaultKinds -> Nat]
    BY <2>2, StrikeType DEF TypeOK, FaultKinds
  <2> QED BY <1>21, <2>1, <2>3 DEF ChordDies, TypeOK, record, bus, nodes, bobs, audit
<1>22. CASE RecordExpires \/ AliceStateExpires \/ AliceCrashes \/ BobCrashes
  <2>1. faults' \in [FaultKinds -> Nat]
    BY <1>22, StrikeType
       DEF RecordExpires, AliceStateExpires, AliceCrashes, BobCrashes, TypeOK,
           FaultKinds
  <2>2. CASE RecordExpires
    <3>1. exists' \in BOOLEAN
      BY <2>2 DEF RecordExpires
    <3> QED BY <2>1, <2>2, <3>1 DEF RecordExpires, TypeOK, bus, nodes, bobs, chain, audit
  <2>3. CASE AliceStateExpires
    <3>1. aliceState' \in BOOLEAN
      BY <2>3 DEF AliceStateExpires
    <3> QED BY <2>1, <2>3, <3>1
            DEF AliceStateExpires, TypeOK, record, bus, bobs, chain, audit
  <2>4. CASE AliceCrashes
    BY <2>1, <2>4 DEF AliceCrashes, TypeOK, record, bus, bobs, chain, audit
  <2>5. CASE BobCrashes
    <3>1. bobKey' \in Keys
      BY <2>5 DEF BobCrashes, Keys
    <3>2. /\ bob' \in BOOLEAN /\ receive' = "over"
          /\ UNCHANGED <<record, bus, alice, aliceState, events>>
          /\ UNCHANGED <<chain, audit, cancels>>
      BY <2>5 DEF BobCrashes
    <3> QED BY <2>1, <3>1, <3>2 DEF TypeOK, record, bus, chain, audit
  <2> QED BY <1>22, <2>2, <2>3, <2>4, <2>5
<1>23. CASE UNCHANGED vars
  BY <1>23 DEF vars, TypeOK, record, bus, nodes, bobs, chain, audit
<1>24. CASE JoinUnanswered
  <2>1. status' \in Running \cup Terminal /\ active' \in BOOLEAN
    BY <1>24, SaveStatusType DEF JoinUnanswered, Running
  <2>2. events' \in [EventKinds -> Nat] /\ faults' \in [FaultKinds -> Nat]
    BY <1>24, EventsType, StrikeType DEF JoinUnanswered, TypeOK, EventKinds, FaultKinds
  <2> QED BY <1>24, <2>1, <2>2 DEF JoinUnanswered, TypeOK, bus, bobs, chain, audit
<1>25. CASE KmeStops
  BY <1>25, KmeDiesType DEF KmeStops, TypeOK, bus, nodes, bobs, chain, audit
<1>26. CASE CreateCut
  <2>1. status' \in Running \cup Terminal /\ active' \in BOOLEAN
    BY <1>26, SaveStatusType DEF CreateCut, Running
  <2>2. faults' \in [FaultKinds -> Nat]
    BY <1>26, StrikeType DEF CreateCut, TypeOK, FaultKinds
  <2> QED BY <1>26, <2>1, <2>2 DEF CreateCut, TypeOK, bus, bobs, chain, audit
<1>27. CASE SetupCut \/ CancelCut
  <2>1. status' \in Running \cup Terminal /\ active' \in BOOLEAN
    BY <1>27, SaveStatusType DEF SetupCut, CancelCut, Terminal
  <2>2. cancels' \in 0..MaxCancels
    BY <1>27 DEF SetupCut, CancelCut, TypeOK
  <2>3. KmeDies
    BY <1>27 DEF SetupCut, CancelCut
  <2> QED BY <1>27, <2>1, <2>2, <2>3, KmeDiesType
          DEF SetupCut, CancelCut, TypeOK, bus, nodes, bobs, chain, audit
<1>28. CASE MeasureCut
  <2>1. status' \in Running \cup Terminal /\ active' \in BOOLEAN
    BY <1>28, SaveStatusType DEF MeasureCut, TypeOK
  <2>2. KmeDies
    BY <1>28 DEF MeasureCut
  <2> QED BY <1>28, <2>1, <2>2, KmeDiesType DEF MeasureCut, TypeOK, chain, audit
<1>29. CASE ConsumeCut
  <2>1. status' \in Running \cup Terminal /\ active' \in BOOLEAN
    BY <1>29, SaveStatusType DEF ConsumeCut, TypeOK
  <2>2. KmeDies /\ keyStatus' \in {"consumed", "expired"}
    BY <1>29 DEF ConsumeCut
  <2> QED BY <1>29, <2>1, <2>2, KmeDiesType
          DEF ConsumeCut, TypeOK, bus, nodes, bobs, chain, audit
<1>30. ASSUME NEW k \in Keys, NEW r \in 0..NtRetries, NotifyCut(k, r)
       PROVE  TypeOK'
  <2>1. /\ msgs[<<"NT", k, r>>] > 0
        /\ \E next : Replace(<<"NT", k, r>>, next)
    BY <1>30 DEF NotifyCut
  <2>2. msgs' \in [Msg -> Nat]
    BY <2>1, ReplaceType, MessageType DEF TypeOK
  <2>3. KmeDies /\ PublishCut(k)
    BY <1>30 DEF NotifyCut
  <2> QED BY <1>30, <2>2, <2>3, KmeDiesType, PublishCutType
          DEF NotifyCut, TypeOK, bus, bobs
<1> QED BY <1>1, <1>2, <1>3, <1>4, <1>5, <1>6, <1>7, <1>8, <1>9, <1>10, <1>11,
           <1>12, <1>13, <1>14, <1>15, <1>16, <1>17, <1>18, <1>19, <1>20, <1>21,
           <1>22, <1>23, <1>24, <1>25, <1>26, <1>27, <1>28, <1>29, <1>30
        DEF Next, Pipeline, Setup, Node, User, Fault, KmeCrash

(* The record, the queue and the nodes keep their types: no count of       *)
(* messages, chords or events ever falls below zero.                       *)
THEOREM TypeCorrect == Spec => []TypeOK
BY TypeInit, TypeStep, PTL DEF Spec

-----------------------------------------------------------------------------
(* Faults *)

FaultsBound == \A k \in FaultKinds : faults[k] <= MaxFaults[k]

(* A step is without a fault or strikes once. *)
LEMMA FaultStep ==
  ASSUME [Next]_vars
  PROVE  UNCHANGED faults \/ \E kind \in FaultKinds : Strike(kind)
<1> DEFINE Goal == UNCHANGED faults \/ \E kind \in FaultKinds : Strike(kind)
<1>1. \A kind \in FaultKinds : Strike(kind) => Goal
  OBVIOUS
<1>2. ASSUME NEW m, NEW next, Ran(m, next)
      PROVE  Goal
  BY <1>2 DEF Ran, FaultKinds
<1> HIDE DEF Goal
<1>3. CASE SiftFails \/ Sift
  <2>1. CASE SiftFails
    BY <1>2, <2>1 DEF SiftFails, Goal
  <2>2. CASE Sift
    <3>1. PICK good \in {0, drawn'} : Ran(ST, {<<"QKT", good, 0>>}) \/ Strike("lost")
      BY <2>2 DEF Sift
    <3> QED BY <1>1, <1>2, <3>1 DEF FaultKinds, Goal
  <2> QED BY <1>3, <2>1, <2>2
<1>4. ASSUME NEW k \in Keys, DeriveKey(k)
      PROVE  Goal
  BY <1>2, <1>4 DEF DeriveKey
<1>5. ASSUME NEW k \in Keys, NEW r \in 0..NtRetries, Notify(k, r) \/ NotifyFails(k, r)
      PROVE  Goal
  <2>1. CASE Notify(k, r)
    BY <1>2, <2>1 DEF Notify
  <2>2. CASE NotifyFails(k, r)
    BY <1>1, <2>2 DEF NotifyFails, FaultKinds, Goal
  <2> QED BY <1>5, <2>1, <2>2
<1>6. CASE ChordCompletes \/ Setup \/ User \/ UNCHANGED vars
  BY <1>6 DEF ChordCompletes, Setup, Open, SetupFails, User, Create, Join, Consume,
              ConsumeLate, Cancel, KeyTimePasses, vars, Goal
<1>7. CASE Node
  BY <1>1, <1>7 DEF Node, AliceStores, Dispatch, Measure, BobSifts, BobDrops,
                    AliceCleans, FaultKinds, Goal
<1>8. CASE Fault
  BY <1>1, <1>8 DEF Fault, ChordDies, RecordExpires, AliceStateExpires, AliceCrashes,
                    BobCrashes, JoinUnanswered, KmeCrash, KmeStops, CreateCut, SetupCut,
                    MeasureCut, ConsumeCut, CancelCut, NotifyCut, KmeDies, FaultKinds, Goal
<1> QED BY <1>3, <1>4, <1>5, <1>6, <1>7, <1>8 DEF Next, Pipeline, Goal

(* A budget shrinks, and one that struck is no longer unspent. *)
LEMMA StrikeShows ==
  ASSUME TypeOK, FaultsBound, NEW kind \in FaultKinds, Strike(kind)
  PROVE  /\ faults'[kind] # MaxFaults[kind]
         /\ \A k \in FaultKinds : faults'[k] <= faults[k]
<1>1. faults \in [FaultKinds -> Nat] /\ MaxFaults \in [FaultKinds -> Nat]
  BY DeliveryAssumption DEF TypeOK
<1>2. faults' = [faults EXCEPT ![kind] = @ - 1]
  BY DEF Strike
<1>3. faults[kind] <= MaxFaults[kind]
  BY DEF FaultsBound
<1> QED BY <1>1, <1>2, <1>3

(* What is unspent after a step was so before it, and did not strike. *)
LEMMA UnspentStep ==
  ASSUME TypeOK, FaultsBound, [Next]_vars
  PROVE  /\ FaultsBound'
         /\ \A k \in FaultKinds :
              faults'[k] = MaxFaults[k] => faults[k] = MaxFaults[k] /\ ~Strike(k)
<1>1. faults \in [FaultKinds -> Nat] /\ MaxFaults \in [FaultKinds -> Nat]
  BY DeliveryAssumption DEF TypeOK
<1>2. faults' \in [FaultKinds -> Nat]
  BY TypeStep DEF TypeOK
<1>3. \A k \in FaultKinds : faults'[k] <= faults[k]
  <2>1. CASE UNCHANGED faults
    BY <1>1, <2>1
  <2>2. CASE \E kind \in FaultKinds : Strike(kind)
    BY <2>2, StrikeShows
  <2> QED BY <2>1, <2>2, FaultStep
<1>4. FaultsBound'
  <2> SUFFICES ASSUME NEW k \in FaultKinds
               PROVE  faults'[k] <= MaxFaults[k]
    BY DEF FaultsBound
  <2>1. faults[k] <= MaxFaults[k] /\ faults'[k] <= faults[k]
    BY <1>3 DEF FaultsBound
  <2> QED BY <1>1, <1>2, <2>1
<1>5. ASSUME NEW k \in FaultKinds, faults'[k] = MaxFaults[k]
      PROVE  faults[k] = MaxFaults[k] /\ ~Strike(k)
  <2>1. ~Strike(k)
    BY <1>5, StrikeShows
  <2>2. faults'[k] <= faults[k] /\ faults[k] <= MaxFaults[k]
    BY <1>3 DEF FaultsBound
  <2>3. faults[k] = MaxFaults[k]
    BY <1>1, <1>5, <2>2
  <2> QED BY <2>1, <2>3
<1> QED BY <1>4, <1>5

-----------------------------------------------------------------------------
(* What touches the record *)

(* The calls of the KME that are broken off or not answered. *)
Cut == JoinUnanswered \/ KmeCrash

(* The steps that leave status, key and index as they are. *)
LEMMA RecordStep ==
  ASSUME [Next]_vars
  PROVE  \/ UNCHANGED <<exists, status, active, setup, keyFinal, keyStatus, activations,
                       handedOut>>
         \/ Open \/ Measure
         \/ Create \/ SetupFails \/ Join \/ Consume \/ ConsumeLate \/ Cancel
         \/ RecordExpires \/ Cut
         \/ \E k \in Keys : PublishKey(k)
<1>1. CASE ChordCompletes \/ SiftFails \/ Sift \/ AliceStores \/ Dispatch \/ BobSifts
           \/ BobDrops \/ AliceCleans \/ KeyTimePasses
           \/ ChordDies \/ AliceStateExpires \/ AliceCrashes \/ BobCrashes
           \/ UNCHANGED vars
  BY <1>1 DEF ChordCompletes, SiftFails, Sift, AliceStores, Dispatch,
              BobSifts, BobDrops, AliceCleans, KeyTimePasses, ChordDies,
              AliceStateExpires, AliceCrashes, BobCrashes, vars, record, audit
<1>2. ASSUME NEW k \in Keys, DeriveKey(k)
      PROVE  UNCHANGED <<exists, status, active, setup, keyFinal, keyStatus, activations,
                         handedOut>>
  BY <1>2 DEF DeriveKey, record, audit
<1>3. ASSUME NEW k \in Keys, NEW r \in 0..NtRetries, Notify(k, r) \/ NotifyFails(k, r)
      PROVE  \/ PublishKey(k)
             \/ UNCHANGED <<exists, status, active, setup, keyFinal, keyStatus,
                           activations, handedOut>>
  BY <1>3 DEF Notify, NotifyFails, record, audit
<1> QED BY <1>1, <1>2, <1>3 DEF Next, Pipeline, Setup, Node, User, Fault, Cut

(* A session whose link is being set up, or was, is listed while it goes   *)
(* on; one that has ended is listed after a crash of the KME only.         *)
IndexInv ==
  exists => /\ setup \in {"runs", "opened"} /\ status \in Running => active
            /\ Unspent({"kme"}) => (active <=> status \in Running)

(* A crash may leave the index behind the record, but not miss a session. *)
LEMMA CutKeepsIndex ==
  ASSUME TypeOK, IndexInv, FaultsBound, [Next]_vars, Cut
  PROVE  IndexInv'
<1>1. ASSUME Strike("kme")
      PROVE  ~Unspent({"kme"})'
  BY <1>1, UnspentStep DEF Unspent, FaultKinds
<1>2. CASE JoinUnanswered
  <2>1. /\ exists /\ active /\ setup' = setup /\ active' = TRUE /\ status' \in Running
    BY <1>2 DEF JoinUnanswered, IndexInv, SaveStatus, CutSave, Running, TypeOK
  <2> QED BY <2>1 DEF IndexInv
<1>3. CASE KmeCrash
  <2>1. Strike("kme")
    BY <1>3 DEF KmeCrash, KmeStops, CreateCut, SetupCut, MeasureCut, ConsumeCut, CancelCut,
                NotifyCut, KmeDies
  <2>2. CASE CreateCut
    BY <1>1, <2>1, <2>2 DEF CreateCut, IndexInv
  <2>3. CASE SetupCut \/ CancelCut
    BY <1>1, <2>1, <2>3 DEF SetupCut, CancelCut, CutSave, IndexInv, Running
  <2>4. ASSUME KmeDies, UNCHANGED <<exists, status>>,
               active' \in {active, (status \in Running)}
        PROVE  IndexInv'
    BY <1>1, <2>1, <2>4 DEF KmeDies, IndexInv, TypeOK
  <2>5. CASE KmeStops \/ MeasureCut \/ ConsumeCut
    BY <2>4, <2>5 DEF KmeStops, MeasureCut, ConsumeCut, CutSave
  <2>6. ASSUME NEW k \in Keys, NEW r \in 0..NtRetries, NotifyCut(k, r)
        PROVE  IndexInv'
    <3>1. KmeDies /\ PublishCut(k)
      BY <2>6 DEF NotifyCut
    <3>2. CASE CutSave(status)
      BY <2>4, <3>1, <3>2 DEF CutSave, PublishCut
    <3>3. CASE status' \in Terminal
      BY <1>1, <2>1, <3>3 DEF IndexInv, Terminal, Running
    <3> QED BY <3>1, <3>2, <3>3 DEF PublishCut, CutSave, SaveStatus, Terminal
  <2> QED BY <1>3, <2>2, <2>3, <2>5, <2>6 DEF KmeCrash
<1> QED BY <1>2, <1>3 DEF Cut

LEMMA IndexStep ==
  ASSUME TypeOK, FaultsBound, IndexInv, [Next]_vars
  PROVE  IndexInv'
<1>1. Unspent({"kme"})' => Unspent({"kme"})
  BY UnspentStep DEF Unspent, FaultKinds
<1>2. CASE UNCHANGED <<exists, status, active, setup, keyFinal, keyStatus, activations,
                       handedOut>>
  BY <1>1, <1>2 DEF IndexInv
<1>3. CASE Create \/ SetupFails \/ Join \/ Cancel
  BY <1>1, <1>3 DEF Create, SetupFails, Join, Cancel, SaveStatus, IndexInv
<1>4. CASE Open \/ Measure \/ Consume \/ ConsumeLate \/ RecordExpires
  BY <1>1, <1>4 DEF Open, Measure, Consume, ConsumeLate, RecordExpires, SaveStatus, IndexInv
<1>5. ASSUME NEW k \in Keys, PublishKey(k)
      PROVE  IndexInv'
  BY <1>5 DEF PublishKey, SaveStatus, IndexInv
<1>6. CASE Cut
  BY <1>6, CutKeepsIndex
<1> QED BY <1>2, <1>3, <1>4, <1>5, <1>6, RecordStep

(* However often the KME dies between the commands of save_session, and in *)
(* whatever order its calls come, kme:sessions:active misses no session    *)
(* that goes on; while it stays up, the index is exact.                    *)
THEOREM IndexIsExact == Spec => []IndexExact
<1>1. Init => IndexInv /\ FaultsBound
  BY DeliveryAssumption DEF Init, IndexInv, FaultsBound
<1>2. TypeOK /\ IndexInv /\ FaultsBound /\ [Next]_vars => IndexInv' /\ FaultsBound'
  BY IndexStep, UnspentStep
<1>3. IndexInv => IndexExact
  BY DEF IndexInv, IndexExact
<1> QED BY <1>1, <1>2, <1>3, TypeInit, TypeStep, PTL DEF Spec

(* No late abort, cancellation or second report (publish_key, cancel)      *)
(* leaves a session done and without a key.                                *)
THEOREM DoneKeepsKey == Spec => []DoneHasKey
<1>1. Init => DoneHasKey
  BY DEF Init, DoneHasKey
<1>2. DoneHasKey /\ [Next]_vars => DoneHasKey'
  <2> SUFFICES ASSUME DoneHasKey, [Next]_vars
               PROVE  DoneHasKey'
    OBVIOUS
  <2>1. CASE UNCHANGED <<exists, status, active, setup, keyFinal, keyStatus, activations,
                         handedOut>>
    BY <2>1 DEF DoneHasKey
  <2>2. CASE Create \/ SetupFails \/ Join \/ Cancel
    BY <2>2 DEF Create, SetupFails, Join, Cancel, SaveStatus, DoneHasKey
  <2>3. CASE Open \/ Measure \/ Consume \/ ConsumeLate \/ RecordExpires
    BY <2>3 DEF Open, Measure, Consume, ConsumeLate, RecordExpires, SaveStatus, nodes,
                audit, DoneHasKey
  <2>4. ASSUME NEW k \in Keys, PublishKey(k)
        PROVE  DoneHasKey'
    <3>1. CASE k # 0
      BY <2>4, <3>1 DEF PublishKey, Activate, DoneHasKey
    <3>2. CASE k = 0
      BY <2>4, <3>2 DEF PublishKey, SaveStatus, DoneHasKey
    <3> QED BY <3>1, <3>2
  <2>5. CASE Cut
    <3>1. CASE \E k \in Keys, r \in 0..NtRetries : NotifyCut(k, r)
      <4>1. PICK k \in Keys : PublishCut(k)
        BY <3>1 DEF NotifyCut
      <4>2. CASE k # 0
        BY <4>1, <4>2 DEF PublishCut, Activate, CutSave, DoneHasKey
      <4>3. CASE k = 0
        BY <4>1, <4>3 DEF PublishCut, CutSave, SaveStatus, DoneHasKey
      <4> QED BY <4>2, <4>3
    <3>2. CASE JoinUnanswered \/ CreateCut \/ SetupCut \/ CancelCut
      BY <3>2 DEF JoinUnanswered, CreateCut, SetupCut, CancelCut, CutSave, SaveStatus,
                  DoneHasKey
    <3>3. CASE KmeStops \/ MeasureCut \/ ConsumeCut
      BY <3>3 DEF KmeStops, MeasureCut, ConsumeCut, CutSave, DoneHasKey
    <3> QED BY <2>5, <3>1, <3>2, <3>3 DEF Cut, KmeCrash
  <2> QED BY <2>1, <2>2, <2>3, <2>4, <2>5, RecordStep
<1> QED BY <1>1, <1>2, PTL DEF Spec

(* Each activation of the key pays for one hand-out at most (activate_key, *)
(* consume_key), however calls, retries and redeliveries interleave.       *)
THEOREM HandOutsArePaid == Spec => []HandedOutPerActivation
<1>1. Init => HandedOutPerActivation
  BY DEF Init, HandedOutPerActivation, Count
<1>2. TypeOK /\ HandedOutPerActivation /\ [Next]_vars => HandedOutPerActivation'
  <2> SUFFICES ASSUME TypeOK, HandedOutPerActivation, [Next]_vars
               PROVE  HandedOutPerActivation'
    OBVIOUS
  <2>0. Len(handedOut) \in Nat /\ activations \in Nat
    BY DEF TypeOK
  <2>1. CASE UNCHANGED <<exists, status, active, setup, keyFinal, keyStatus, activations,
                         handedOut>>
    BY <2>1 DEF HandedOutPerActivation, Count
  <2>2. CASE Create \/ SetupFails \/ Join \/ Cancel \/ RecordExpires \/ Open \/ Measure
    <3>1. UNCHANGED <<keyStatus, activations, handedOut>>
      BY <2>2 DEF Create, SetupFails, Join, Cancel, RecordExpires, Open, Measure, audit
    <3> QED BY <3>1 DEF HandedOutPerActivation, Count
  <2>3. CASE Consume
    <3>1. /\ keyStatus = "active" /\ keyStatus' = "consumed"
          /\ handedOut' = Append(handedOut, keyFinal)
          /\ activations' = activations
      BY <2>3 DEF Consume
    <3>2. Len(handedOut') = Len(handedOut) + 1
      BY <3>1 DEF TypeOK
    <3> QED BY <2>0, <3>1, <3>2 DEF HandedOutPerActivation, Count
  <2>4. CASE ConsumeLate
    BY <2>0, <2>4 DEF ConsumeLate, audit, HandedOutPerActivation, Count
  <2>5. ASSUME NEW k \in Keys, PublishKey(k)
        PROVE  HandedOutPerActivation'
    <3>1. handedOut' = handedOut
      BY <2>5 DEF PublishKey
    <3>2. CASE k # 0
      <4>1. activations' = activations + 1
        BY <2>5, <3>2 DEF PublishKey, Activate
      <4> QED BY <2>0, <3>1, <4>1 DEF HandedOutPerActivation, Count
    <3>3. CASE k = 0
      <4>1. UNCHANGED <<keyStatus, activations>>
        BY <2>5, <3>3 DEF PublishKey
      <4> QED BY <3>1, <4>1 DEF HandedOutPerActivation, Count
    <3> QED BY <3>2, <3>3
  <2>6. CASE Cut
    <3>1. ASSUME NEW k \in Keys, NEW r \in 0..NtRetries, NotifyCut(k, r)
          PROVE  /\ handedOut' = handedOut
                 /\ \/ activations' = activations + 1
                    \/ UNCHANGED <<keyStatus, activations>>
      BY <3>1 DEF NotifyCut, PublishCut, Activate
    <3>2. /\ handedOut' = handedOut
          /\ \/ activations' = activations + 1
             \/ activations' = activations /\ (keyStatus' = "active" => keyStatus = "active")
      BY <2>6, <3>1
         DEF Cut, JoinUnanswered, KmeCrash, KmeStops, CreateCut, SetupCut, MeasureCut,
             ConsumeCut, CancelCut, audit
    <3> QED BY <2>0, <3>2 DEF HandedOutPerActivation, Count
  <2> QED BY <2>1, <2>2, <2>3, <2>4, <2>5, <2>6, RecordStep
<1> QED BY <1>1, <1>2, TypeInit, TypeStep, PTL DEF Spec
=============================================================================
