--------------------------- MODULE KeyOutcome_proof ---------------------------
(***************************************************************************)
(* Proofs about the outcome of a session in KeyDelivery: if no event, post *)
(* or task is repeated, there is one key at most, and it goes one way.     *)
(*                                                                         *)
(* The argument follows a token: the join event of Bob, the chord that     *)
(* Alice starts on it, the message of the chain, the activation of the     *)
(* key.  Each step of the pipeline takes one of them and makes the next,   *)
(* and there is none as long as the session is initializing.               *)
(***************************************************************************)
EXTENDS KeyDelivery_proof

(* The queue holds the messages of S, each one once. *)
Queue(S) == msgs = [x \in Msg |-> Count(x \in S)]

(* j join events, c chords and the messages S are on their way. *)
At(j, c, S) == events["joined"] = j /\ chords = c /\ Queue(S)

Fresh == At(0, 0, {}) /\ activations = 0 /\ drawn = 0

(* There is one token at most. *)
Token ==
  \/ /\ At(0, 0, {}) \/ At(1, 0, {}) \/ At(0, 1, {}) \/ At(0, 0, {ST})
     /\ activations = 0 /\ drawn = 0
  \/ \E m \in Msg \ {ST} :
       At(0, 0, {m}) /\ activations = 0 /\ drawn <= 1 /\ m[2] <= 1
  \/ At(0, 0, {}) /\ activations <= 1 /\ drawn <= 1

(* Every key there is, is that of the first run of ST, or empty. *)
OneKey ==
  /\ sift <= 1 /\ bobKey <= 1 /\ keyFinal <= 1
  /\ keyStatus = "active" => keyFinal = 1
  /\ \A i \in 1..Len(handedOut) : handedOut[i] = 1

(* Before Bob's join, and without a link, there is no token. *)
Setting ==
  /\ alice = "idle" => ~exists /\ setup = "none" /\ status = "initializing"
  /\ status = "initializing" => Fresh
  /\ setup # "opened" => Fresh /\ status \in {"initializing", "aborted"}

(* Once a session is over, its token is spent. *)
Spent == PostedOnce /\ cancels = 0 /\ status \in Terminal => At(0, 0, {})

Tokens == <<events["joined"], chords, msgs, activations, drawn>>

-----------------------------------------------------------------------------
(* Faults *)

(* What is posted once after a step was so before it, and no call was lost *)
(* or broken off.                                                          *)
LEMMA PostedOnceStep ==
  ASSUME TypeOK, FaultsBound, [Next]_vars, PostedOnce'
  PROVE  /\ PostedOnce /\ ~Cut
         /\ ~Strike("duplicate") /\ ~Strike("lost") /\ ~Strike("redelivery")
<1>1. \A k \in {"duplicate", "lost", "redelivery", "kme"} :
        faults[k] = MaxFaults[k] /\ ~Strike(k)
  <2>1. \A k \in {"duplicate", "lost", "redelivery", "kme"} :
          k \in FaultKinds /\ faults'[k] = MaxFaults[k]
    BY DEF PostedOnce, Unspent, FaultKinds
  <2> QED BY <2>1, UnspentStep
<1>2. Cut => Strike("lost") \/ Strike("kme")
  BY DEF Cut, JoinUnanswered, KmeCrash, KmeStops, CreateCut, SetupCut, MeasureCut,
         ConsumeCut, CancelCut, NotifyCut, KmeDies
<1> QED BY <1>1, <1>2 DEF PostedOnce, Unspent

-----------------------------------------------------------------------------
(* The token *)

(* The steps that take a token or make one. *)
Moving == \/ Join \/ JoinUnanswered \/ Dispatch \/ ChordCompletes \/ ChordDies \/ Pipeline
          \/ \E k \in Keys, r \in 0..NtRetries : NotifyCut(k, r)

(* All other steps leave it where it is. *)
LEMMA OthersKeepTokens ==
  ASSUME TypeOK, [Next]_vars, ~Moving
  PROVE  UNCHANGED Tokens
<1>0. events \in [EventKinds -> Nat]
  BY DEF TypeOK
<1>1. CASE Open \/ AliceStores \/ Measure \/ Create \/ Consume \/ ConsumeLate \/ Cancel
           \/ KeyTimePasses \/ RecordExpires \/ AliceStateExpires \/ AliceCrashes
           \/ BobCrashes \/ UNCHANGED vars
           \/ KmeStops \/ CreateCut \/ SetupCut \/ MeasureCut \/ ConsumeCut \/ CancelCut
  BY <1>1 DEF Open, AliceStores, Measure, Create, Consume, ConsumeLate, Cancel,
              KeyTimePasses, RecordExpires, AliceStateExpires, AliceCrashes, BobCrashes,
              KmeStops, CreateCut, SetupCut, MeasureCut, ConsumeCut, CancelCut,
              vars, nodes, chain, audit, Tokens
<1>2. CASE SetupFails
  BY <1>0, <1>2 DEF SetupFails, Raise, EventKinds, chain, audit, Tokens
<1>3. CASE BobSifts \/ BobDrops \/ AliceCleans
  <2>1. events'["joined"] = events["joined"]
    BY <1>0, <1>3 DEF BobSifts, BobDrops, AliceCleans, Take, EventKinds
  <2> QED BY <1>3, <2>1 DEF BobSifts, BobDrops, AliceCleans, chain, audit, Tokens
<1> QED BY <1>1, <1>2, <1>3 DEF Next, Moving, Setup, Node, User, Fault, KmeCrash

(* A token that stays is the same token afterwards. *)
LEMMA TokensKept ==
  ASSUME UNCHANGED Tokens
  PROVE  /\ Token' <=> Token
         /\ Fresh' <=> Fresh
         /\ At(0, 0, {})' <=> At(0, 0, {})
BY DEF Tokens, Token, Fresh, At, Queue

(* Without a token only a join can make one. *)
LEMMA NoneMoves ==
  ASSUME TypeOK, At(0, 0, {}), [Next]_vars, Moving
  PROVE  Join \/ JoinUnanswered
<1>1. \A m \in Msg : ~(msgs[m] > 0)
  BY DEF At, Queue, Count
<1>2. \A m \in Msg : \A next : ~Ran(m, next)
  BY <1>1 DEF Ran
<1>3. ~ChordCompletes /\ ~ChordDies /\ ~Dispatch
  BY DEF At, ChordCompletes, ChordDies, Dispatch, Take
<1>4. ~SiftFails /\ ~Sift
  BY <1>1, <1>2, MessageType DEF SiftFails, Sift
<1>5. \A k \in Keys : ~DeriveKey(k)
  BY <1>2, MessageType DEF DeriveKey
<1>6. \A k \in Keys, r \in 0..NtRetries :
        ~Notify(k, r) /\ ~NotifyFails(k, r) /\ ~NotifyCut(k, r)
  BY <1>1, <1>2, MessageType DEF Notify, NotifyFails, NotifyCut
<1> QED BY <1>3, <1>4, <1>5, <1>6 DEF Moving, Pipeline

(* What moves a token says nothing to the nodes and does not set up. *)
LEMMA MovingKeepsNodes ==
  ASSUME Moving
  PROVE  alice' = alice /\ (setup' = setup \/ (setup = "runs" /\ setup' = "lost"))
<1>1. CASE Join \/ JoinUnanswered \/ Dispatch \/ ChordCompletes \/ ChordDies \/ SiftFails
           \/ Sift
  BY <1>1 DEF Join, JoinUnanswered, Dispatch, ChordCompletes, ChordDies, SiftFails, Sift,
              record, nodes
<1>2. ASSUME NEW k \in Keys, DeriveKey(k)
      PROVE  alice' = alice /\ setup' = setup
  BY <1>2 DEF DeriveKey, record
<1>3. ASSUME NEW k \in Keys, NEW r \in 0..NtRetries, Notify(k, r) \/ NotifyFails(k, r)
      PROVE  alice' = alice /\ setup' = setup
  BY <1>3 DEF Notify, NotifyFails, PublishKey, record
<1>4. ASSUME NEW k \in Keys, NEW r \in 0..NtRetries, NotifyCut(k, r)
      PROVE  alice' = alice /\ (setup' = setup \/ (setup = "runs" /\ setup' = "lost"))
  BY <1>4 DEF NotifyCut, KmeDies
<1> QED BY <1>1, <1>2, <1>3, <1>4 DEF Moving, Pipeline

(* A call that is broken off joins, ends or keeps the session. *)
LEMMA CutStatus ==
  ASSUME Cut
  PROVE  \/ status' = status \/ status' \in Terminal
         \/ CreateCut \/ (status' = "sending" /\ JoinUnanswered)
<1>1. CASE JoinUnanswered \/ KmeStops \/ SetupCut \/ MeasureCut \/ ConsumeCut \/ CancelCut
  BY <1>1 DEF JoinUnanswered, KmeStops, SetupCut, MeasureCut, ConsumeCut, CancelCut,
              SaveStatus, CutSave, Terminal
<1>2. ASSUME NEW k \in Keys, NEW r \in 0..NtRetries, NotifyCut(k, r)
      PROVE  status' = status \/ status' \in Terminal
  BY <1>2 DEF NotifyCut, PublishCut, SaveStatus, CutSave, Terminal
<1> QED BY <1>1, <1>2 DEF Cut, KmeCrash

(* No session goes back to initializing, but for the one created. *)
LEMMA StatusStep ==
  ASSUME [Next]_vars, ~Create, ~CreateCut
  PROVE  \/ status' = status \/ status' \in Terminal
         \/ status' = "sending" /\ (Join \/ JoinUnanswered)
<1>1. CASE UNCHANGED <<exists, status, active, setup, keyFinal, keyStatus, activations,
                       handedOut>>
  BY <1>1
<1>2. CASE SetupFails \/ Join \/ Open \/ Measure \/ Consume \/ ConsumeLate \/ Cancel
           \/ RecordExpires
  BY <1>2 DEF SetupFails, Join, Open, Measure, Consume, ConsumeLate, Cancel, RecordExpires,
              SaveStatus, Terminal
<1>3. ASSUME NEW k \in Keys, PublishKey(k)
      PROVE  status' \in Terminal
  BY <1>3 DEF PublishKey, SaveStatus, Terminal
<1> QED BY <1>1, <1>2, <1>3, RecordStep, CutStatus

(* Before Bob's join, and without a link, nothing is under way. *)
LEMMA SettingStep ==
  ASSUME TypeOK, Setting, [Next]_vars
  PROVE  Setting'
<1>1. Fresh => At(0, 0, {})
  BY DEF Fresh
<1>2. CASE Moving /\ ~Join /\ ~JoinUnanswered
  <2>1. ~Fresh
    BY <1>1, <1>2, NoneMoves
  <2>2. alice # "idle" /\ setup = "opened" /\ status # "initializing"
    BY <2>1 DEF Setting
  <2>3. ~Create /\ ~CreateCut
    BY <2>2 DEF Create, CreateCut
  <2>4. status' # "initializing"
    BY <1>2, <2>2, <2>3, StatusStep DEF Terminal
  <2> QED BY <1>2, <2>2, <2>4, MovingKeepsNodes DEF Setting
<1>3. CASE Join \/ JoinUnanswered
  <2>1. alice # "idle"
    BY <1>3 DEF Join, JoinUnanswered, Setting
  <2> QED BY <1>3, <2>1 DEF Join, JoinUnanswered, SaveStatus, CutSave, Setting
<1>4. CASE ~Moving
  <2>1. UNCHANGED Tokens
    BY <1>4, OthersKeepTokens
  <2>2. Fresh' <=> Fresh
    BY <2>1, TokensKept
  <2>3. CASE Create \/ CreateCut
    BY <2>2, <2>3 DEF Create, CreateCut, SaveStatus, CutSave, Setting
  <2>4. CASE Open
    BY <2>2, <2>4 DEF Open, Setting, nodes
  <2>5. CASE SetupFails
    BY <2>2, <2>5 DEF SetupFails, SaveStatus, Setting
  <2>6. CASE Cancel
    BY <2>2, <2>6 DEF Cancel, SaveStatus, Setting, nodes
  <2>7. ASSUME UNCHANGED <<status, setup>>, alice' = "idle" => alice = "idle",
               exists' => exists
        PROVE  Setting'
    <3>1. alice' = "idle" => ~exists' /\ setup' = "none" /\ status' = "initializing"
      BY <2>7 DEF Setting
    <3> QED BY <2>2, <2>7, <3>1 DEF Setting
  <2>8. CASE AliceStores \/ Measure \/ BobSifts \/ BobDrops \/ AliceCleans
    BY <2>7, <2>8 DEF AliceStores, Measure, BobSifts, BobDrops, AliceCleans, SaveStatus,
                      record
  <2>9. CASE Consume \/ ConsumeLate \/ KeyTimePasses
    BY <2>7, <2>9 DEF Consume, ConsumeLate, KeyTimePasses, SaveStatus, nodes
  <2>10. CASE RecordExpires \/ AliceStateExpires \/ AliceCrashes \/ BobCrashes
    BY <2>7, <2>10 DEF RecordExpires, AliceStateExpires, AliceCrashes, BobCrashes,
                       record, nodes
  <2>11. CASE UNCHANGED vars
    BY <2>7, <2>11 DEF vars, record, nodes
  <2>12. CASE KmeStops \/ SetupCut \/ MeasureCut \/ ConsumeCut \/ CancelCut
    <3>1. /\ setup' = IF setup = "runs" THEN "lost" ELSE setup
          /\ UNCHANGED <<alice, exists>>
      BY <2>12 DEF KmeStops, SetupCut, MeasureCut, ConsumeCut, CancelCut, KmeDies, nodes
    <3>2. status' = status \/ (exists /\ status' = "aborted")
      BY <2>12 DEF KmeStops, SetupCut, MeasureCut, ConsumeCut, CancelCut, CutSave
    <3> QED BY <2>2, <3>1, <3>2 DEF Setting
  <2> QED BY <1>4, <2>3, <2>4, <2>5, <2>6, <2>8, <2>9, <2>10, <2>11, <2>12
          DEF Next, Moving, Setup, Node, User, Fault, KmeCrash
<1> QED BY <1>2, <1>3, <1>4

(* A message that is there is the token. *)
LEMMA MessageIsToken ==
  ASSUME TypeOK, Token, NEW m \in Msg, msgs[m] > 0
  PROVE  /\ At(0, 0, {m}) /\ activations = 0
         /\ IF m = ST THEN drawn = 0 ELSE drawn <= 1 /\ m[2] <= 1
<1>1. \A j, c : ~At(j, c, {})
  BY DEF At, Queue, Count
<1>2. \A x \in Msg : At(0, 0, {x}) => x = m
  BY DEF At, Queue, Count
<1> QED BY <1>1, <1>2, MessageType DEF Token

(* A task that ran once has replaced its message. *)
LEMMA RanReplaces ==
  ASSUME NEW m \in Msg, NEW next, Queue({m}), Replace(m, next)
  PROVE  Queue(next)'
<1>1. \A x \in Msg : msgs[x] - Count(x = m) + Count(x \in next) = Count(x \in next)
  BY DEF Queue, Count
<1> QED BY <1>1 DEF Replace, Queue

(* The steps of the pipeline pass the token on. *)
LEMMA TokenStep ==
  ASSUME TypeOK, Setting, Token, [Next]_vars, ~Cut,
         ~Strike("duplicate"), ~Strike("lost"), ~Strike("redelivery")
  PROVE  Token'
<1>0. /\ events \in [EventKinds -> Nat] /\ msgs \in [Msg -> Nat]
      /\ chords \in Nat /\ drawn \in Nat /\ activations \in Nat
  BY DeliveryAssumption DEF TypeOK, Keys
<1>1. CASE ~Moving
  BY <1>1, OthersKeepTokens, TokensKept
<1>2. CASE Join
  <2>1. Fresh
    BY <1>2 DEF Join, Setting
  <2>2. events'["joined"] = 1 /\ UNCHANGED <<chords, msgs, activations, drawn>>
    BY <1>0, <1>2, <2>1 DEF Join, Raise, EventKinds, Fresh, At, chain, audit
  <2> QED BY <2>1, <2>2 DEF Fresh, At, Queue, Token
<1>3. CASE Dispatch
  <2>1. Take("joined") /\ UNCHANGED <<msgs, drawn, activations>>
    BY <1>3 DEF Dispatch, audit
  <2>2. At(1, 0, {}) /\ activations = 0 /\ drawn = 0
    <3>1. \A c, S : ~At(0, c, S)
      BY <2>1 DEF Take, At
    <3> QED BY <3>1 DEF Token
  <2>3. events'["joined"] = 0
    BY <1>0, <2>1, <2>2 DEF Take, At, EventKinds
  <2>4. chords' \in {0, 1}
    BY <1>3, <2>2 DEF Dispatch, At
  <2> QED BY <2>1, <2>2, <2>3, <2>4 DEF Token, At, Queue
<1>4. CASE ChordCompletes \/ ChordDies
  <2>1. chords > 0 /\ chords' = chords - 1 /\ UNCHANGED <<events, drawn, activations>>
    BY <1>4 DEF ChordCompletes, ChordDies, nodes, audit
  <2>2. At(0, 1, {}) /\ activations = 0 /\ drawn = 0
    <3>1. \A j, S : ~At(j, 0, S)
      BY <2>1 DEF At
    <3> QED BY <3>1 DEF Token
  <2>3. Queue({})' \/ Queue({ST})'
    <3>1. CASE ChordDies
      BY <2>2, <3>1 DEF ChordDies, At, Queue
    <3>2. CASE ChordCompletes
      <4>1. msgs' = [msgs EXCEPT ![ST] = @ + 1] /\ msgs = [x \in Msg |-> Count(x \in {})]
        BY <2>2, <3>2 DEF ChordCompletes, At, Queue
      <4>2. \A x \in Msg : msgs'[x] = Count(x \in {ST})
        BY <4>1, MessageType DEF Count
      <4> QED BY <1>0, <4>1, <4>2 DEF Queue
    <3> QED BY <1>4, <3>1, <3>2
  <2> QED BY <2>1, <2>2, <2>3 DEF Token, At
<1>5. CASE SiftFails \/ Sift
  <2>1. \E good \in {0, drawn'} :
          msgs[ST] > 0 /\ Replace(ST, {<<"QKT", good, 0>>}) /\ (SiftFails => good = 0)
    BY <1>5 DEF SiftFails, Sift, Ran
  <2>2. PICK good \in {0, drawn'} :
          msgs[ST] > 0 /\ Replace(ST, {<<"QKT", good, 0>>}) /\ (SiftFails => good = 0)
    BY <2>1
  <2>3. At(0, 0, {ST}) /\ activations = 0 /\ drawn = 0
    BY <2>2, MessageIsToken, MessageType
  <2>4. /\ drawn' \in {0, 1} /\ drawn' \in Keys
        /\ UNCHANGED <<events["joined"], chords, activations>>
    <3>1. CASE SiftFails
      BY <2>3, <3>1, DeliveryAssumption DEF SiftFails, nodes, audit, Keys
    <3>2. CASE Sift
      <4>1. drawn' = 1 /\ drawn' \in Keys
        BY <2>3, <3>2, DeliveryAssumption DEF Sift, Keys
      <4>2. events'["joined"] = events["joined"]
        BY <1>0, <3>2 DEF Sift, Raise, EventKinds
      <4> QED BY <3>2, <4>1, <4>2 DEF Sift, audit
    <3> QED BY <1>5, <3>1, <3>2
  <2>5. Queue({<<"QKT", good, 0>>})'
    BY <2>2, <2>3, RanReplaces, MessageType DEF At
  <2>6. <<"QKT", good, 0>> \in Msg \ {ST}
    BY <2>4, MessageType, DeliveryAssumption DEF ST, Keys
  <2>7. good <= 1 /\ <<"QKT", good, 0>>[2] = good
    BY <2>4
  <2> DEFINE m == <<"QKT", good, 0>>
  <2>8. m \in Msg \ {ST} /\ m[2] <= 1 /\ Queue({m})'
    BY <2>5, <2>6, <2>7
  <2> HIDE DEF m
  <2>9. At(0, 0, {m})' /\ activations' = 0 /\ drawn' <= 1
    BY <2>3, <2>4, <2>8 DEF At
  <2> QED BY <2>8, <2>9 DEF Token
<1>6. ASSUME NEW k \in Keys, DeriveKey(k)
      PROVE  Token'
  <2> DEFINE m == <<"QKT", k, 0>>
             n == <<"NT", k, 0>>
  <2>1. msgs[m] > 0 /\ Replace(m, {n}) /\ m \in Msg
    BY <1>6, MessageType DEF DeriveKey, Ran
  <2>2. UNCHANGED <<events, chords, drawn, activations>>
    BY <1>6 DEF DeriveKey, audit
  <2>3. m # ST /\ n # ST /\ m[2] = k /\ n[2] = k
    BY DEF ST
  <2>4. n \in Msg
    BY MessageType, DeliveryAssumption
  <2> HIDE DEF m, n
  <2>5. At(0, 0, {m}) /\ activations = 0 /\ drawn <= 1 /\ k <= 1
    BY <2>1, <2>3, MessageIsToken
  <2>6. Queue({n})'
    BY <2>1, <2>5, RanReplaces DEF At
  <2> QED BY <2>2, <2>3, <2>4, <2>5, <2>6 DEF Token, At
<1>7. ASSUME NEW k \in Keys, NEW r \in 0..NtRetries, Notify(k, r) \/ NotifyFails(k, r)
      PROVE  Token'
  <2> DEFINE m == <<"NT", k, r>>
             n == <<"NT", k, r + 1>>
  <2>1. msgs[m] > 0 /\ m \in Msg /\ m # ST /\ m[2] = k
    BY <1>7, MessageType DEF Notify, NotifyFails, Ran, ST
  <2>2. n # ST /\ n[2] = k
    BY DEF ST
  <2>3. At(0, 0, {m}) /\ activations = 0 /\ drawn <= 1 /\ k <= 1
    <3> HIDE DEF m
    <3> QED BY <2>1, MessageIsToken
  <2>4. CASE Notify(k, r)
    <3>1. Replace(m, {}) /\ PublishKey(k) /\ UNCHANGED <<chords, drawn>>
      BY <2>4 DEF Notify, Ran
    <3>2. activations' \in {0, 1} /\ events'["joined"] = 0
      BY <1>0, <2>3, <3>1 DEF PublishKey, Activate, Raise, EventKinds, At
    <3> HIDE DEF m
    <3>3. Queue({})'
      BY <2>1, <2>3, <3>1, RanReplaces DEF At
    <3> QED BY <2>3, <3>1, <3>2, <3>3 DEF Token, At
  <2>5. CASE NotifyFails(k, r)
    <3>1. /\ UNCHANGED <<events, activations, chords, drawn>>
          /\ Replace(m, IF r < NtRetries THEN {n} ELSE {})
      BY <2>5 DEF NotifyFails, Retried, audit
    <3>2. CASE r < NtRetries
      <4>1. n \in Msg
        <5>1. r + 1 \in 0..NtRetries
          BY <3>2, DeliveryAssumption
        <5> QED BY <5>1, MessageType
      <4> HIDE DEF m, n
      <4>2. Queue({n})'
        BY <2>1, <2>3, <3>1, <3>2, RanReplaces DEF At
      <4> QED BY <2>2, <2>3, <3>1, <4>1, <4>2 DEF Token, At
    <3>3. CASE ~(r < NtRetries)
      <4> HIDE DEF m, n
      <4>1. Queue({})'
        BY <2>1, <2>3, <3>1, <3>3, RanReplaces DEF At
      <4> QED BY <2>3, <3>1, <4>1 DEF Token, At
    <3> QED BY <3>2, <3>3
  <2> QED BY <1>7, <2>4, <2>5
<1> QED BY <1>1, <1>2, <1>3, <1>4, <1>5, <1>6, <1>7 DEF Moving, Pipeline, Cut, KmeCrash

-----------------------------------------------------------------------------
(* The key *)

(* Without an activation there is no active key. *)
LEMMA NoActivationNoKey ==
  ASSUME TypeOK, HandedOutPerActivation, activations = 0
  PROVE  keyStatus # "active"
<1>1. Len(handedOut) \in Nat
  BY DEF TypeOK
<1> QED BY <1>1 DEF HandedOutPerActivation, Count

(* A key is published by the token's message. *)
LEMMA PublishedByToken ==
  ASSUME TypeOK, Token, HandedOutPerActivation, NEW k \in Keys, NEW r \in 0..NtRetries,
         Notify(k, r) \/ NotifyFails(k, r) \/ NotifyCut(k, r)
  PROVE  /\ k <= 1 /\ activations = 0 /\ keyStatus # "active"
         /\ At(0, 0, {<<"NT", k, r>>})
<1>1. msgs[<<"NT", k, r>>] > 0
  BY DEF Notify, NotifyFails, NotifyCut, Ran
<1>2. <<"NT", k, r>> \in Msg /\ <<"NT", k, r>> # ST /\ <<"NT", k, r>>[2] = k
  BY MessageType DEF ST
<1>3. /\ At(0, 0, {<<"NT", k, r>>}) /\ activations = 0
      /\ <<"NT", k, r>>[2] <= 1
  BY <1>1, <1>2, MessageIsToken
<1> QED BY <1>2, <1>3, NoActivationNoKey

(* The key stays the one of the first run of ST. *)
LEMMA OneKeyStep ==
  ASSUME TypeOK, Token, OneKey, HandedOutPerActivation, [Next]_vars, ~Cut, ~Strike("lost")
  PROVE  OneKey'
<1>0. /\ sift \in Nat /\ bobKey \in Nat /\ keyFinal \in Nat /\ drawn \in Nat
      /\ handedOut \in Seq(Keys)
  BY DeliveryAssumption DEF TypeOK, Keys
<1>1. ASSUME sift' <= 1, bobKey' <= 1, UNCHANGED <<keyFinal, handedOut>>,
             keyStatus' = "active" => keyStatus = "active"
      PROVE  OneKey'
  BY <1>1 DEF OneKey
<1>2. sift <= 1 /\ bobKey <= 1
  BY DEF OneKey
<1>3. CASE ChordCompletes \/ SiftFails \/ Open \/ AliceStores \/ Dispatch \/ Measure
           \/ AliceCleans \/ KeyTimePasses \/ ConsumeLate \/ Create \/ SetupFails
           \/ Join \/ Cancel \/ ChordDies \/ RecordExpires \/ AliceStateExpires
           \/ AliceCrashes \/ UNCHANGED vars
  <2>1. /\ UNCHANGED <<sift, bobKey, keyFinal, handedOut>>
        /\ keyStatus' = keyStatus \/ keyStatus' = "expired"
    BY <1>3 DEF ChordCompletes, SiftFails, Open, AliceStores, Dispatch, Measure,
                AliceCleans, KeyTimePasses, ConsumeLate, Create, SetupFails, Join, Cancel,
                ChordDies, RecordExpires, AliceStateExpires, AliceCrashes, vars, record,
                bus, nodes, bobs, audit
  <2> QED BY <1>1, <1>2, <2>1
<1>4. CASE BobSifts \/ BobDrops \/ BobCrashes
  <2>1. UNCHANGED <<sift, keyFinal, keyStatus, handedOut>> /\ bobKey' \in {0, sift, bobKey}
    BY <1>4 DEF BobSifts, BobDrops, BobCrashes, record, bus, audit
  <2> QED BY <1>0, <1>1, <1>2, <2>1
<1>5. CASE Sift
  <2>1. msgs[ST] > 0
    BY <1>5 DEF Sift, Ran
  <2>2. drawn = 0
    BY <2>1, MessageIsToken, MessageType
  <2>3. sift' \in {sift, 1} /\ UNCHANGED <<bobKey, keyFinal, keyStatus, handedOut>>
    BY <1>5, <2>2 DEF Sift, record, bobs, audit
  <2> QED BY <1>0, <1>1, <1>2, <2>3
<1>6. ASSUME NEW k \in Keys, DeriveKey(k)
      PROVE  OneKey'
  BY <1>1, <1>2, <1>6 DEF DeriveKey, record, bus, bobs, audit
<1>7. ASSUME NEW k \in Keys, NEW r \in 0..NtRetries, Notify(k, r) \/ NotifyFails(k, r)
      PROVE  OneKey'
  <2>1. k <= 1 /\ keyStatus # "active" /\ k \in Nat
    <3>1. k <= 1 /\ keyStatus # "active"
      BY <1>7, PublishedByToken
    <3>2. k \in Nat
      BY DeliveryAssumption DEF Keys
    <3> QED BY <3>1, <3>2
  <2>2. UNCHANGED <<sift, bobKey>>
    BY <1>7 DEF Notify, NotifyFails, bus, bobs
  <2>3. CASE PublishKey(k)
    <3>1. keyFinal' = k /\ handedOut' = handedOut /\ (k = 0 => keyStatus' = keyStatus)
      BY <2>3 DEF PublishKey
    <3> QED BY <1>2, <2>1, <2>2, <3>1 DEF OneKey
  <2>4. CASE UNCHANGED <<record, events, audit>>
    BY <1>1, <1>2, <2>2, <2>4 DEF record, audit
  <2> QED BY <1>7, <2>3, <2>4 DEF Notify, NotifyFails
<1>8. CASE Consume
  <2>1. /\ keyFinal = 1 /\ keyStatus' = "consumed" /\ handedOut' = Append(handedOut, 1)
        /\ UNCHANGED <<sift, bobKey, keyFinal>>
    BY <1>8 DEF Consume, OneKey, bus, nodes, bobs
  <2>2. \A i \in 1..Len(handedOut') : handedOut'[i] = 1
    <3>1. 1 \in Keys
      BY <2>1 DEF TypeOK
    <3>2. /\ Len(handedOut') = Len(handedOut) + 1 /\ Len(handedOut) \in Nat
          /\ \A i \in 1..Len(handedOut) : handedOut'[i] = handedOut[i]
          /\ handedOut'[Len(handedOut) + 1] = 1
      BY <1>0, <2>1, <3>1, AppendProperties, LenProperties
    <3> QED BY <3>2 DEF OneKey
  <2> QED BY <2>1, <2>2 DEF OneKey
<1> QED BY <1>3, <1>4, <1>5, <1>6, <1>7, <1>8
        DEF Next, Pipeline, Setup, Node, User, Fault, Cut

-----------------------------------------------------------------------------
(* The end of the session *)

KeyOfDone == PostedOnce /\ cancels = 0 => (keyStatus = "active" => status = "done")

(* While the token is spent, a session that is over stays as it is unless  *)
(* it is cancelled.                                                        *)
LEMMA OverStays ==
  ASSUME TypeOK, Setting, At(0, 0, {}), status \in Terminal, [Next]_vars, ~Cut,
         cancels' = 0
  PROVE  status' = status /\ At(0, 0, {})'
<1>1. ~Join
  BY DEF Join, Terminal
<1>2. ~Moving
  BY <1>1, NoneMoves DEF Cut
<1>3. ~Cancel
  BY DEF Cancel, TypeOK
<1>4. ~Create
  BY DEF Create, Setting, Terminal
<1>5. status' = status
  <2>2. CASE SetupFails
    BY <2>2 DEF SetupFails, SaveStatus, Setting, Terminal
  <2>3. CASE Consume \/ ConsumeLate \/ RecordExpires
    BY <2>3 DEF Consume, ConsumeLate, RecordExpires, SaveStatus
  <2>4. CASE Open \/ KeyTimePasses \/ Node \/ AliceStateExpires \/ AliceCrashes
             \/ BobCrashes \/ UNCHANGED vars
    BY <2>4 DEF Open, KeyTimePasses, Node, AliceStores, Dispatch, Measure, BobSifts,
                BobDrops, AliceCleans, AliceStateExpires, AliceCrashes, BobCrashes, vars,
                record, SaveStatus
  <2> QED BY <1>1, <1>2, <1>3, <1>4, <2>2, <2>3, <2>4
          DEF Next, Moving, Setup, User, Fault, Cut
<1> QED BY <1>2, <1>5, OthersKeepTokens, TokensKept

(* A session that ends has spent its token. *)
LEMMA SpentStep ==
  ASSUME TypeOK, Setting, Token, Spent, HandedOutPerActivation, PostedOnce, [Next]_vars,
         cancels' = 0, status' \in Terminal, ~Cut, ~Strike("lost"), ~Strike("redelivery")
  PROVE  At(0, 0, {})'
<1>0. events \in [EventKinds -> Nat] /\ cancels \in Nat
  BY DEF TypeOK
<1>1. ~Create /\ ~Join
  BY DEF Create, Join, SaveStatus, Terminal
<1>2. cancels = 0 /\ ~Cancel
  <2>1. ~Cancel
    BY <1>0 DEF Cancel
  <2>2. cancels' = cancels
    <3>1. CASE Pipeline
      BY <3>1 DEF Pipeline, ChordCompletes, SiftFails, Sift, DeriveKey, Notify, NotifyFails
    <3>2. CASE Setup \/ Node
      BY <3>2 DEF Setup, Open, SetupFails, Node, AliceStores, Dispatch, Measure, BobSifts,
                  BobDrops, AliceCleans
    <3>3. CASE User \/ UNCHANGED vars
      BY <2>1, <3>3 DEF User, Create, Join, Consume, ConsumeLate, KeyTimePasses, vars
    <3>4. CASE Fault
      BY <3>4 DEF Fault, ChordDies, RecordExpires, AliceStateExpires, AliceCrashes,
                  BobCrashes, Cut
    <3> QED BY <3>1, <3>2, <3>3, <3>4 DEF Next
  <2> QED BY <2>1, <2>2
<1>3. CASE status \in Terminal
  <2>1. At(0, 0, {})
    BY <1>2, <1>3 DEF Spent
  <2> QED BY <1>3, <2>1, OverStays
<1>4. CASE status \notin Terminal
  <2>1. status' # status
    BY <1>4
  <2>2. CASE SetupFails
    <3>1. Fresh
      BY <2>2 DEF SetupFails, Setting
    <3>2. ~Moving
      <4>1. At(0, 0, {})
        BY <3>1 DEF Fresh
      <4> QED BY <1>1, <4>1, NoneMoves DEF Cut
    <3> QED BY <3>1, <3>2, OthersKeepTokens, TokensKept DEF Fresh
  <2>3. ASSUME NEW k \in Keys, NEW r \in 0..NtRetries, Notify(k, r) \/ NotifyFails(k, r)
        PROVE  At(0, 0, {})'
    <3>1. Notify(k, r)
      BY <2>1, <2>3 DEF NotifyFails, record
    <3>2. At(0, 0, {<<"NT", k, r>>})
      BY <2>3, PublishedByToken
    <3>3. /\ Replace(<<"NT", k, r>>, {}) /\ chords' = chords
          /\ events'["joined"] = events["joined"]
      BY <1>0, <3>1 DEF Notify, Ran, PublishKey, Raise, EventKinds
    <3>4. Queue({})'
      BY <3>2, <3>3, RanReplaces, MessageType DEF At
    <3> QED BY <3>2, <3>3, <3>4 DEF At
  <2>4. CASE \/ ChordCompletes \/ SiftFails \/ Sift \/ Open \/ Node \/ KeyTimePasses
             \/ Consume \/ ConsumeLate \/ Fault \/ UNCHANGED vars
    BY <2>1, <2>4
       DEF ChordCompletes, SiftFails, Sift, Open, Node, AliceStores, Dispatch, Measure,
           BobSifts, BobDrops, AliceCleans, KeyTimePasses, Consume, ConsumeLate, Fault,
           ChordDies, RecordExpires, AliceStateExpires, AliceCrashes, BobCrashes, vars,
           record, SaveStatus, Cut
  <2>5. ASSUME NEW k \in Keys, DeriveKey(k)
        PROVE  FALSE
    BY <2>1, <2>5 DEF DeriveKey, record
  <2> QED BY <1>1, <1>2, <2>2, <2>3, <2>4, <2>5 DEF Next, Pipeline, Setup, User
<1> QED BY <1>3, <1>4

(* An active key is that of a session that is done. *)
LEMMA KeyOfDoneStep ==
  ASSUME TypeOK, Setting, Token, HandedOutPerActivation, KeyOfDone, PostedOnce,
         [Next]_vars, ~Cut, cancels' = 0
  PROVE  keyStatus' = "active" => status' = "done"
<1> SUFFICES ASSUME keyStatus' = "active"
             PROVE  status' = "done"
  OBVIOUS
<1>1. ~Fresh \/ keyStatus # "active"
  BY NoActivationNoKey DEF Fresh
<1>2. CASE Create \/ Join \/ SetupFails
  <2>1. keyStatus = "active"
    BY <1>2 DEF Create, Join, SetupFails
  <2>2. Fresh
    BY <1>2 DEF Create, Join, SetupFails, Setting
  <2> QED BY <1>1, <2>1, <2>2
<1>3. ASSUME NEW k \in Keys, NEW r \in 0..NtRetries, Notify(k, r) \/ NotifyFails(k, r)
      PROVE  status' = "done"
  <2>1. keyStatus # "active"
    BY <1>3, PublishedByToken
  <2>2. PublishKey(k)
    BY <1>3, <2>1 DEF Notify, NotifyFails, record
  <2>3. k # 0
    BY <2>1, <2>2 DEF PublishKey
  <2> QED BY <2>2, <2>3 DEF PublishKey, SaveStatus
<1>4. ~Cancel
  BY DEF Cancel, TypeOK
<1>5. ASSUME UNCHANGED <<status, cancels>>, keyStatus = "active"
      PROVE  status' = "done"
  BY <1>5 DEF KeyOfDone
<1>6. CASE \/ ChordCompletes \/ SiftFails \/ Sift \/ Open \/ Node \/ KeyTimePasses \/ Fault
           \/ UNCHANGED vars
  BY <1>5, <1>6
     DEF ChordCompletes, SiftFails, Sift, Open, Node, AliceStores, Dispatch, Measure,
         BobSifts, BobDrops, AliceCleans, KeyTimePasses, Fault, ChordDies, RecordExpires,
         AliceStateExpires, AliceCrashes, BobCrashes, vars, record, SaveStatus, Cut
<1>7. ASSUME NEW k \in Keys, DeriveKey(k)
      PROVE  status' = "done"
  BY <1>5, <1>7 DEF DeriveKey, record
<1>8. CASE Consume \/ ConsumeLate
  BY <1>8 DEF Consume, ConsumeLate
<1> QED BY <1>2, <1>3, <1>4, <1>6, <1>7, <1>8 DEF Next, Pipeline, Setup, User

(* What has not been cancelled was not cancelled before. *)
LEMMA CancelsGrow ==
  ASSUME TypeOK, [Next]_vars, cancels' = 0
  PROVE  cancels = 0
<1>1. cancels' = cancels \/ Cancel \/ CancelCut
  <2>1. CASE Pipeline
    BY <2>1 DEF Pipeline, ChordCompletes, SiftFails, Sift, DeriveKey, Notify, NotifyFails
  <2>2. CASE Setup \/ Node
    BY <2>2 DEF Setup, Open, SetupFails, Node, AliceStores, Dispatch, Measure, BobSifts,
                BobDrops, AliceCleans
  <2>3. CASE User \/ UNCHANGED vars
    BY <2>3 DEF User, Create, Join, Consume, ConsumeLate, KeyTimePasses, vars
  <2>4. CASE Fault
    BY <2>4 DEF Fault, ChordDies, RecordExpires, AliceStateExpires, AliceCrashes,
                BobCrashes, JoinUnanswered, KmeCrash, KmeStops, CreateCut, SetupCut,
                MeasureCut, ConsumeCut, NotifyCut
  <2> QED BY <2>1, <2>2, <2>3, <2>4 DEF Next
<1>2. ~Cancel /\ ~CancelCut
  BY DEF Cancel, CancelCut, TypeOK
<1> QED BY <1>1, <1>2

OutcomeInv ==
  /\ TypeOK /\ HandedOutPerActivation /\ FaultsBound /\ Setting
  /\ PostedOnce => Token /\ OneKey
  /\ Spent /\ KeyOfDone

LEMMA OutcomeInit == Init => OutcomeInv
<1> SUFFICES ASSUME Init
             PROVE  OutcomeInv
  OBVIOUS
<1>1. MaxFaults \in [FaultKinds -> Nat]
  BY DeliveryAssumption
<1>2. FaultsBound
  BY <1>1 DEF Init, FaultsBound
<1>3. Queue({})
  BY DEF Init, Queue, Count
<1>4. Fresh
  BY <1>3 DEF Init, Fresh, At, EventKinds
<1>5. Setting /\ Token
  BY <1>4 DEF Init, Setting, Token, Fresh
<1>6. OneKey
  <2>1. Len(handedOut) = 0
    BY DEF Init
  <2> QED BY <2>1 DEF Init, OneKey
<1>7. HandedOutPerActivation
  BY DEF Init, HandedOutPerActivation, Count
<1>8. Spent /\ KeyOfDone
  BY DEF Init, Spent, KeyOfDone, Terminal
<1> QED BY <1>2, <1>5, <1>6, <1>7, <1>8, TypeInit DEF OutcomeInv

(* One step for each of the parts. *)
LEMMA OutcomeStep ==
  ASSUME OutcomeInv, HandedOutPerActivation', [Next]_vars
  PROVE  OutcomeInv'
<1>1. TypeOK' /\ FaultsBound' /\ Setting'
  BY TypeStep, UnspentStep, SettingStep DEF OutcomeInv
<1>2. ASSUME PostedOnce'
      PROVE  /\ PostedOnce /\ Token /\ OneKey /\ ~Cut
             /\ ~Strike("duplicate") /\ ~Strike("lost") /\ ~Strike("redelivery")
  BY <1>2, PostedOnceStep DEF OutcomeInv
<1>3. PostedOnce' => Token' /\ OneKey'
  BY <1>2, TokenStep, OneKeyStep DEF OutcomeInv
<1>4. Spent'
  <2> SUFFICES ASSUME PostedOnce', cancels' = 0, status' \in Terminal
               PROVE  At(0, 0, {})'
    BY DEF Spent, Terminal
  <2> QED BY <1>2, SpentStep DEF OutcomeInv
<1>5. KeyOfDone'
  <2> SUFFICES ASSUME PostedOnce', cancels' = 0
               PROVE  keyStatus' = "active" => status' = "done"
    BY DEF KeyOfDone
  <2> QED BY <1>2, KeyOfDoneStep DEF OutcomeInv
<1> QED BY <1>1, <1>3, <1>4, <1>5 DEF OutcomeInv

LEMMA OutcomeInvariance == Spec => []OutcomeInv
BY OutcomeInit, OutcomeStep, HandOutsArePaid, PTL DEF Spec

-----------------------------------------------------------------------------
(* The session of KeySession *)

(* Before its creation there is nothing of a session, and before an        *)
(* activation nothing has been done with its key.                          *)
Untouched ==
  /\ setup = "none" => /\ ~exists /\ status = "initializing"
                       /\ keyStatus = "none" /\ keyFinal = 0
  /\ activations = 0 => keyStatus = "none"

(* Only a creation begins to set up the link, and nothing undoes it. *)
LEMMA SetupStep ==
  ASSUME [Next]_vars, ~Create, ~CreateCut
  PROVE  setup' = "none" <=> setup = "none"
<1>1. CASE Moving
  BY <1>1, MovingKeepsNodes
<1>2. CASE Setup
  BY <1>2 DEF Setup, Open, SetupFails
<1>3. CASE Node
  BY <1>3 DEF Node, AliceStores, Dispatch, Measure, BobSifts, BobDrops, AliceCleans, record
<1>4. CASE User \/ UNCHANGED vars
  BY <1>4 DEF User, Join, Consume, ConsumeLate, Cancel, KeyTimePasses, vars, record
<1>5. CASE Fault
  BY <1>1, <1>5 DEF Fault, ChordDies, RecordExpires, AliceStateExpires, AliceCrashes,
                    BobCrashes, Moving, KmeCrash, KmeStops, SetupCut, MeasureCut,
                    ConsumeCut, CancelCut, KmeDies, record
<1> QED BY <1>1, <1>2, <1>3, <1>4, <1>5 DEF Next, Moving

LEMMA UntouchedStep ==
  ASSUME TypeOK, Setting, Untouched, [Next]_vars
  PROVE  Untouched'
<1>1. CASE Create \/ CreateCut
  BY <1>1 DEF Create, CreateCut, audit, Untouched
<1>2. CASE ~Create /\ ~CreateCut
  <2>1. setup' = "none" <=> setup = "none"
    BY <1>2, SetupStep
  <2>2. CASE UNCHANGED <<exists, status, active, setup, keyFinal, keyStatus, activations,
                         handedOut>>
    BY <2>1, <2>2 DEF Untouched
  <2>3. CASE SetupFails \/ Join \/ Cancel \/ RecordExpires \/ Open \/ Measure
    BY <2>1, <2>3 DEF SetupFails, Join, Cancel, RecordExpires, Open, Measure, SaveStatus,
                      audit, Untouched
  <2>4. CASE Consume \/ ConsumeLate
    BY <2>1, <2>4 DEF Consume, ConsumeLate, SaveStatus, audit, Untouched
  <2>5. ASSUME NEW k \in Keys, PublishKey(k) \/ PublishCut(k)
        PROVE  Untouched'
    <3>1. exists /\ setup # "none"
      BY <2>5 DEF PublishKey, PublishCut, Untouched
    <3>2. activations' = activations + 1 \/ UNCHANGED <<activations, keyStatus>>
      <4>1. CASE PublishKey(k)
        BY <4>1 DEF PublishKey, Activate
      <4>2. CASE PublishCut(k)
        BY <4>2 DEF PublishCut, Activate
      <4> QED BY <2>5, <4>1, <4>2
    <3>3. activations \in Nat
      BY DEF TypeOK
    <3>4. activations' = 0 => activations = 0 /\ keyStatus' = keyStatus
      BY <3>2, <3>3
    <3> QED BY <2>1, <3>1, <3>4 DEF Untouched
  <2>6. CASE JoinUnanswered \/ KmeStops \/ SetupCut \/ MeasureCut \/ ConsumeCut \/ CancelCut
    <3>1. /\ UNCHANGED <<exists, keyFinal, activations>>
          /\ exists \/ status' = status
          /\ keyStatus' = keyStatus \/ keyStatus = "active"
      BY <2>6 DEF JoinUnanswered, KmeStops, SetupCut, MeasureCut, ConsumeCut, CancelCut, audit
    <3> QED BY <2>1, <3>1 DEF Untouched
  <2>7. CASE Cut
    BY <1>2, <2>5, <2>6, <2>7 DEF Cut, KmeCrash, NotifyCut
  <2> QED BY <1>2, <2>2, <2>3, <2>4, <2>5, <2>7, RecordStep
<1> QED BY <1>1, <1>2

(* What disturbs a session is never undone. *)
LEMMA StaysDisturbed ==
  ASSUME TypeOK, FaultsBound, [Next]_vars
  PROVE  /\ Undisturbed' \in {Undisturbed, FALSE}
         /\ Undisturbed \in BOOLEAN /\ Undisturbed' \in BOOLEAN
<1>1. Undisturbed' => Undisturbed
  BY PostedOnceStep, CancelsGrow DEF Undisturbed
<1>2. Undisturbed \in BOOLEAN /\ Undisturbed' \in BOOLEAN
  BY DEF Undisturbed
<1> HIDE DEF Undisturbed
<1> QED BY <1>1, <1>2

(* A call that is broken off disturbs the session. *)
LEMMA CutDisturbs ==
  ASSUME TypeOK, FaultsBound, [Next]_vars, Cut
  PROVE  Undisturbed' = FALSE
<1>1. ~PostedOnce'
  BY PostedOnceStep
<1> QED BY <1>1 DEF Undisturbed

(* A fault of another kind than a repetition disturbs nothing. *)
LEMMA OtherFaults ==
  ASSUME TypeOK, cancels' = cancels,
         UNCHANGED faults \/ Strike("expiry")
  PROVE  Undisturbed' = Undisturbed
<1>1. \A k \in {"duplicate", "lost", "redelivery", "kme"} : faults'[k] = faults[k]
  <2>1. faults \in [FaultKinds -> Nat]
    BY DEF TypeOK
  <2> QED BY <2>1 DEF Strike, FaultKinds
<1>2. PostedOnce' <=> PostedOnce
  BY <1>1 DEF PostedOnce, Unspent
<1> QED BY <1>2 DEF Undisturbed

(* A report comes for a session that Bob has joined; the first one, if     *)
(* nothing disturbed the session, before it ended.                         *)
LEMMA ReportTime ==
  ASSUME OutcomeInv, Untouched, NEW k \in Keys, NEW r \in 0..NtRetries,
         Notify(k, r) \/ NotifyFails(k, r) \/ NotifyCut(k, r)
  PROVE  /\ status # "initializing"
         /\ Undisturbed => status = "sending" /\ keyStatus = "none"
<1>0. TypeOK /\ Setting /\ Spent /\ HandedOutPerActivation
  BY DEF OutcomeInv
<1>1. <<"NT", k, r>> \in Msg /\ msgs[<<"NT", k, r>>] > 0
  BY MessageType DEF Notify, NotifyFails, NotifyCut, Ran
<1>2. ~At(0, 0, {})
  BY <1>1 DEF At, Queue, Count
<1>3. status # "initializing"
  BY <1>0, <1>2 DEF Setting, Fresh
<1>4. ASSUME Undisturbed
      PROVE  status = "sending" /\ keyStatus = "none"
  <2>1. status \notin Terminal
    BY <1>0, <1>2, <1>4 DEF Undisturbed, Spent
  <2>2. status = "sending"
    BY <1>0, <1>3, <2>1 DEF TypeOK, Running
  <2>3. activations = 0
    BY <1>0, <1>4, PublishedByToken DEF OutcomeInv, Undisturbed
  <2> QED BY <2>2, <2>3 DEF Untouched
<1> QED BY <1>3, <1>4

(* A step that leaves the record alone may disturb the session, no more. *)
LEMMA RecordAlone ==
  ASSUME Undisturbed' \in {Undisturbed, FALSE}, setup' = "none" <=> setup = "none",
         UNCHANGED <<exists, status, keyFinal, keyStatus, handedOut>>
  PROVE  [Session!Next]_(Session!vars)
<1>1. Phase' = Phase
  BY DEF Phase
<1>2. CASE Undisturbed' = Undisturbed
  BY <1>1, <1>2 DEF Session!vars
<1>3. CASE Undisturbed' = FALSE
  BY <1>1, <1>3 DEF Session!Disturb, Session!Next
<1> QED BY <1>2, <1>3

(* A report ends the session or ends it again. *)
LEMMA ReportEnds ==
  ASSUME OutcomeInv, Untouched, NEW k \in Keys, NEW r \in 0..NtRetries,
         Notify(k, r) \/ NotifyFails(k, r), PublishKey(k),
         Undisturbed' \in {Undisturbed, FALSE}
  PROVE  Session!Next
<1>1. /\ status \in {"sending", "done", "aborted"}
      /\ Undisturbed' => status = "sending" /\ keyStatus = "none"
  <2>1. status \in {"initializing", "sending", "done", "aborted"}
    BY DEF OutcomeInv, TypeOK, Running, Terminal
  <2>2. Undisturbed' => Undisturbed
    OBVIOUS
  <2> QED BY <2>1, <2>2, ReportTime
<1>2. exists /\ exists' /\ setup # "none" /\ setup' # "none"
  BY DEF PublishKey, Untouched
<1>3. Phase = status /\ Phase' = status' /\ handedOut' = handedOut /\ keyFinal' = k
  BY <1>2 DEF Phase, PublishKey
<1>4. Session!Ends /\ Session!Mark
  BY <1>1, <1>2, <1>3 DEF Session!Ends, Session!Ended, Session!Mark
<1>5. CASE k # 0
  <2>1. status' = "done" /\ keyStatus' = "active"
    BY <1>5 DEF PublishKey, SaveStatus, Activate
  <2>2. Session!Deliver(k)
    BY <1>2, <1>3, <1>4, <2>1 DEF Session!Deliver
  <2> QED BY <1>5, <2>2 DEF Session!Next
<1>6. CASE k = 0
  <2>1. status' = "aborted" /\ keyStatus' = keyStatus
    BY <1>6 DEF PublishKey, SaveStatus
  <2>2. Session!Deny
    BY <1>2, <1>3, <1>4, <1>6, <2>1 DEF Session!Deny
  <2> QED BY <2>2 DEF Session!Next
<1> QED BY <1>5, <1>6

(* A call that is broken off may have done its part or half of it. *)
LEMMA CutSession ==
  ASSUME OutcomeInv, Untouched, [Next]_vars, Cut
  PROVE  [Session!Next]_(Session!vars)
<1>0. TypeOK /\ Setting /\ Undisturbed' = FALSE
  BY CutDisturbs DEF OutcomeInv
<1>1. CASE CreateCut
  <2>1. setup = "none" /\ ~exists /\ keyStatus = "none" /\ keyFinal = 0
    BY <1>0, <1>1 DEF CreateCut, Setting, Untouched
  <2>2. /\ exists' /\ setup' = "lost" /\ status' = "initializing"
        /\ UNCHANGED <<keyStatus, keyFinal, handedOut>>
    BY <1>1 DEF CreateCut, CutSave, audit
  <2>3. Session!Create
    BY <1>0, <2>1, <2>2 DEF Session!Create, Session!Mark, Phase
  <2> QED BY <2>3 DEF Session!Next
<1>2. CASE JoinUnanswered
  <2>1. /\ exists /\ setup = "opened" /\ status = "initializing" /\ status' = "sending"
        /\ UNCHANGED <<exists, setup, keyStatus, keyFinal, handedOut>>
    BY <1>2 DEF JoinUnanswered, SaveStatus, CutSave, audit
  <2>2. Session!Join
    BY <1>0, <2>1 DEF Session!Join, Session!Mark, Phase
  <2> QED BY <2>2 DEF Session!Next
<1>3. ASSUME KmeDies
      PROVE  setup' = "none" <=> setup = "none"
  BY <1>3 DEF KmeDies
<1>4. ASSUME exists
      PROVE  setup # "none" /\ Phase = status /\ Phase \in Session!Alive
  BY <1>0, <1>4
     DEF Untouched, Phase, TypeOK, Running, Terminal, Session!Alive, Session!Ended
<1>5. CASE KmeStops \/ MeasureCut
  <2>1. UNCHANGED <<exists, status, keyFinal, keyStatus, handedOut>> /\ KmeDies
    BY <1>5 DEF KmeStops, MeasureCut, CutSave, audit
  <2> QED BY <1>0, <1>3, <2>1, RecordAlone
<1>6. CASE SetupCut
  <2>1. /\ exists /\ setup = "runs" /\ setup' = "lost" /\ status' = "aborted"
        /\ UNCHANGED <<exists, keyStatus, keyFinal, handedOut>>
    BY <1>6 DEF SetupCut, KmeDies, CutSave, audit
  <2>2. CASE status = "initializing"
    <3>1. Session!Fail
      BY <1>0, <2>1, <2>2 DEF Session!Fail, Session!Mark, Phase
    <3> QED BY <3>1 DEF Session!Next
  <2>3. CASE status # "initializing"
    <3>1. status' = status
      BY <1>0, <2>1, <2>3 DEF Setting
    <3> QED BY <1>0, <2>1, <3>1, RecordAlone
  <2> QED BY <2>2, <2>3
<1>7. CASE ConsumeCut
  <2>1. /\ exists /\ keyStatus = "active" /\ keyStatus' \in {"consumed", "expired"}
        /\ UNCHANGED <<exists, status, keyFinal, handedOut>> /\ KmeDies
    BY <1>7 DEF ConsumeCut, CutSave, audit
  <2>2. Phase' = Phase
    BY <1>3, <2>1 DEF Phase
  <2>3. Session!Waste
    BY <1>0, <1>4, <2>1, <2>2 DEF Session!Waste
  <2> QED BY <2>3 DEF Session!Next
<1>8. CASE CancelCut
  <2>1. /\ exists /\ status' = "aborted" /\ KmeDies
        /\ UNCHANGED <<exists, keyStatus, keyFinal, handedOut>>
    BY <1>8 DEF CancelCut, CutSave, audit
  <2>2. Phase' = "aborted"
    BY <1>3, <1>4, <2>1 DEF Phase
  <2>3. Session!Cancel
    BY <1>0, <1>4, <2>1, <2>2 DEF Session!Cancel
  <2> QED BY <2>3 DEF Session!Next
<1>9. ASSUME NEW k \in Keys, NEW r \in 0..NtRetries, NotifyCut(k, r)
      PROVE  [Session!Next]_(Session!vars)
  <2>1. exists /\ exists' /\ handedOut' = handedOut /\ KmeDies /\ PublishCut(k)
    BY <1>9 DEF NotifyCut, PublishCut
  <2>2. status \in {"sending", "done", "aborted"}
    BY <1>0, <1>9, ReportTime DEF TypeOK, Running, Terminal
  <2>3. Phase = status /\ Phase' = status'
    BY <1>3, <1>4, <2>1 DEF Phase
  <2>4. Session!Ends /\ Session!Mark
    BY <1>0, <2>2, <2>3 DEF Session!Ends, Session!Ended, Session!Mark
  <2>5. CASE k # 0 /\ keyStatus' = "active" /\ status' = "done" /\ keyFinal' = k
    <3>1. Session!Deliver(k)
      BY <2>1, <2>3, <2>4, <2>5 DEF Session!Deliver
    <3> QED BY <2>5, <3>1 DEF Session!Next
  <2>6. CASE keyStatus' = "active" /\ UNCHANGED <<status, keyFinal>>
    <3>1. Session!DeliverHalf
      BY <1>0, <2>1, <2>2, <2>3, <2>6 DEF Session!DeliverHalf, Session!Ended
    <3> QED BY <3>1 DEF Session!Next
  <2>7. CASE keyFinal' = 0 /\ status' = "aborted" /\ UNCHANGED keyStatus
    <3>1. Session!Deny
      BY <2>1, <2>3, <2>4, <2>7 DEF Session!Deny
    <3> QED BY <3>1 DEF Session!Next
  <2> QED BY <2>1, <2>5, <2>6, <2>7 DEF PublishCut, Activate, CutSave, SaveStatus
<1> QED BY <1>1, <1>2, <1>5, <1>6, <1>7, <1>8, <1>9 DEF Cut, KmeCrash

(* One step per action that changes the record. *)
LEMMA SessionStep ==
  ASSUME OutcomeInv, Untouched, [Next]_vars
  PROVE  [Session!Next]_(Session!vars)
<1>0. /\ TypeOK /\ Setting /\ FaultsBound /\ KeyOfDone
      /\ Undisturbed' \in {Undisturbed, FALSE}
  BY StaysDisturbed DEF OutcomeInv
<1>1. CASE Create
  <2>1. setup = "none" /\ ~exists /\ keyStatus = "none" /\ keyFinal = 0
    BY <1>0, <1>1 DEF Create, Setting, Untouched
  <2>2. /\ exists' /\ setup' = "runs" /\ status' = "initializing"
        /\ UNCHANGED <<keyStatus, keyFinal, handedOut, cancels, faults>>
    BY <1>1 DEF Create, SaveStatus, audit
  <2>3. Session!Create
    BY <1>0, <2>1, <2>2 DEF Session!Create, Session!Mark, Phase
  <2> QED BY <2>3 DEF Session!Next
<1>2. CASE Cut
  BY <1>2, CutSession
<1>3. CASE ~Create /\ ~Cut
  <2>0. setup' = "none" <=> setup = "none"
    BY <1>3, SetupStep DEF Cut, KmeCrash
  <2>2. CASE SetupFails
    <3>1. /\ setup = "runs"
          /\ UNCHANGED <<exists, keyStatus, keyFinal, handedOut, cancels, faults>>
          /\ IF exists THEN status' = "aborted" ELSE status' = status
      BY <2>2 DEF SetupFails, SaveStatus, audit
    <3>2. CASE exists /\ status = "initializing"
      <4>1. Session!Fail
        BY <1>0, <2>0, <3>1, <3>2 DEF Session!Fail, Session!Mark, Phase
      <4> QED BY <4>1 DEF Session!Next
    <3>3. CASE ~exists \/ status # "initializing"
      <4>1. status' = status
        BY <1>0, <3>1, <3>3 DEF Setting
      <4> QED BY <1>0, <2>0, <3>1, <4>1, RecordAlone
    <3> QED BY <3>2, <3>3
  <2>3. CASE Join
    <3>1. /\ exists /\ setup = "opened" /\ status = "initializing" /\ status' = "sending"
          /\ UNCHANGED <<exists, setup, keyStatus, keyFinal, handedOut, cancels, faults>>
      BY <2>3 DEF Join, SaveStatus, audit
    <3>2. Session!Join
      BY <1>0, <3>1 DEF Session!Join, Session!Mark, Phase
    <3> QED BY <3>2 DEF Session!Next
  <2>4. ASSUME exists
        PROVE  setup # "none" /\ Phase = status /\ Phase \in Session!Alive
    BY <1>0, <2>4
       DEF Untouched, Phase, TypeOK, Running, Terminal, Session!Alive, Session!Ended
  <2>5. CASE Consume
    <3>1. /\ exists /\ keyStatus = "active" /\ keyStatus' = "consumed"
          /\ handedOut' = Append(handedOut, keyFinal)
          /\ UNCHANGED <<exists, setup, status, keyFinal, cancels, faults>>
      BY <2>5 DEF Consume, SaveStatus
    <3>2. Undisturbed' = Undisturbed /\ Phase' = Phase
      BY <1>0, <3>1, OtherFaults DEF Phase
    <3>3. Undisturbed => Phase = "done"
      BY <1>0, <2>4, <3>1 DEF KeyOfDone, Undisturbed
    <3>4. Session!HandOut
      BY <2>4, <3>1, <3>2, <3>3 DEF Session!HandOut
    <3> QED BY <3>4 DEF Session!Next
  <2>6. CASE ConsumeLate
    <3>1. /\ exists /\ keyStatus = "active" /\ keyStatus' = "expired"
          /\ UNCHANGED <<exists, setup, status, keyFinal, handedOut, cancels, faults>>
      BY <2>6 DEF ConsumeLate, SaveStatus, audit
    <3>2. Undisturbed' = Undisturbed /\ Phase' = Phase
      BY <1>0, <3>1, OtherFaults DEF Phase
    <3>3. Session!Lapse
      BY <2>4, <3>1, <3>2 DEF Session!Lapse
    <3> QED BY <3>3 DEF Session!Next
  <2>7. CASE Cancel
    <3>1. /\ exists /\ cancels' = cancels + 1 /\ status' = "aborted"
          /\ UNCHANGED <<exists, setup, keyStatus, keyFinal, handedOut>>
      BY <2>7 DEF Cancel, SaveStatus, audit
    <3>2. cancels' # 0
      BY <1>0, <3>1 DEF TypeOK
    <3>3. Undisturbed' = FALSE
      BY <3>2 DEF Undisturbed
    <3>4. Phase' = "aborted"
      BY <2>4, <3>1 DEF Phase
    <3>5. Session!Cancel
      BY <2>4, <3>1, <3>3, <3>4 DEF Session!Cancel
    <3> QED BY <3>5 DEF Session!Next
  <2>8. CASE RecordExpires
    <3>1. /\ exists /\ ~exists' /\ Strike("expiry")
          /\ UNCHANGED <<setup, handedOut, cancels>>
      BY <2>8 DEF RecordExpires, audit
    <3>2. Undisturbed' = Undisturbed /\ Phase' = "gone"
      BY <1>0, <2>4, <3>1, OtherFaults DEF Phase
    <3>3. Session!Forget
      BY <2>4, <3>1, <3>2 DEF Session!Forget
    <3> QED BY <3>3 DEF Session!Next
  <2>9. ASSUME NEW k \in Keys, NEW r \in 0..NtRetries, Notify(k, r) \/ NotifyFails(k, r)
        PROVE  [Session!Next]_(Session!vars)
    <3>1. CASE PublishKey(k)
      BY <1>0, <2>9, <3>1, ReportEnds
    <3>2. CASE UNCHANGED <<record, events, audit>>
      BY <1>0, <2>0, <3>2, RecordAlone DEF record, audit
    <3> QED BY <2>9, <3>1, <3>2 DEF Notify, NotifyFails
  <2>10. ASSUME NEW k \in Keys, DeriveKey(k)
         PROVE  [Session!Next]_(Session!vars)
    BY <1>0, <2>0, <2>10, RecordAlone DEF DeriveKey, record, audit
  <2>11. CASE \/ ChordCompletes \/ SiftFails \/ Sift \/ Open \/ Node \/ KeyTimePasses
              \/ ChordDies \/ AliceStateExpires \/ AliceCrashes \/ BobCrashes
              \/ UNCHANGED vars
    <3>1. UNCHANGED <<exists, status, keyFinal, keyStatus, handedOut>>
      BY <2>11
         DEF ChordCompletes, SiftFails, Sift, Open, Node, AliceStores, Dispatch, Measure,
             BobSifts, BobDrops, AliceCleans, KeyTimePasses, ChordDies, AliceStateExpires,
             AliceCrashes, BobCrashes, SaveStatus, vars, record, audit
    <3> QED BY <1>0, <2>0, <3>1, RecordAlone
  <2> QED BY <1>3, <2>2, <2>3, <2>5, <2>6, <2>7, <2>8, <2>9, <2>10, <2>11
          DEF Next, Pipeline, Setup, User, Fault, Cut
<1> QED BY <1>1, <1>2, <1>3

LEMMA UntouchedInvariance == Spec => []Untouched
<1>1. Init => Untouched
  BY DEF Init, Untouched
<1>2. OutcomeInv /\ Untouched /\ [Next]_vars => Untouched'
  BY UntouchedStep DEF OutcomeInv
<1> QED BY <1>1, <1>2, OutcomeInvariance, PTL DEF Spec

-----------------------------------------------------------------------------
(* Theorems *)

(* One call of consume-key gets the key, at most (consume_key,             *)
(* activate_key): without a repeated event, post or task the chain         *)
(* activates it once.                                                      *)
THEOREM OneHandOut == Spec => []KeyHandedOutOnce
<1>1. OutcomeInv => KeyHandedOutOnce
  <2> SUFFICES ASSUME OutcomeInv, PostedOnce
               PROVE  Len(handedOut) <= 1
    BY DEF KeyHandedOutOnce
  <2>1. activations \in Nat /\ Len(handedOut) \in Nat
    BY DEF OutcomeInv, TypeOK
  <2>2. activations <= 1
    <3>1. activations = 0 \/ activations <= 1
      BY DEF OutcomeInv, Token
    <3> QED BY <2>1, <3>1
  <2> QED BY <2>1, <2>2 DEF OutcomeInv, HandedOutPerActivation, Count
<1> QED BY <1>1, OutcomeInvariance, PTL

(* The key that was handed out is not empty, and it is the one that Bob    *)
(* derived if he did (_do_local_sift, publish_key).                        *)
THEOREM SameKeyForBoth == Spec => []HandedOutKeyIsBobs
<1>1. OutcomeInv => HandedOutKeyIsBobs
  <2> SUFFICES ASSUME OutcomeInv, PostedOnce, NEW i \in 1..Len(handedOut)
               PROVE  handedOut[i] # 0 /\ (bobKey = 0 \/ bobKey = handedOut[i])
    BY DEF HandedOutKeyIsBobs
  <2>1. handedOut[i] = 1 /\ bobKey <= 1
    BY DEF OutcomeInv, OneKey
  <2>2. bobKey \in Nat
    BY DeliveryAssumption DEF OutcomeInv, TypeOK, Keys
  <2> QED BY <2>1, <2>2
<1> QED BY <1>1, OutcomeInvariance, PTL

(* Only a session that is done has a key to hand out, as long as nothing   *)
(* was repeated and nobody cancelled it (publish_key, cancel_session).     *)
THEOREM ActiveKeyIsOfDone == Spec => []ActiveKeyOnlyWhenDone
<1>1. OutcomeInv => ActiveKeyOnlyWhenDone
  BY DEF OutcomeInv, KeyOfDone, ActiveKeyOnlyWhenDone
<1> QED BY <1>1, OutcomeInvariance, PTL

(* A session that is done or aborted stays so, whatever the pipeline, the  *)
(* link's setup and the nodes still do (save_session).                     *)
THEOREM TerminalStays == Spec => TerminalUnlessDisturbed
<1>1. OutcomeInv /\ [Next]_vars
        => [PostedOnce' /\ cancels' = 0 /\ status \in Terminal => status' = status]_vars
  <2> SUFFICES ASSUME OutcomeInv, [Next]_vars, PostedOnce', cancels' = 0,
                      status \in Terminal
               PROVE  status' = status
    OBVIOUS
  <2>1. PostedOnce /\ cancels = 0 /\ ~Cut
    BY PostedOnceStep, CancelsGrow DEF OutcomeInv
  <2>2. At(0, 0, {})
    BY <2>1 DEF OutcomeInv, Spent
  <2> QED BY <2>1, <2>2, OverStays DEF OutcomeInv
<1> QED BY <1>1, OutcomeInvariance, PTL DEF Spec, TerminalUnlessDisturbed

(* Record, nodes and chain together implement the session of KeySession:   *)
(* undisturbed, it ends once and after Bob's join, and its one key is      *)
(* delivered then and handed out once; disturbed or not, nothing happens   *)
(* to a session whose record is gone (publish_key, consume_key).           *)
THEOREM KeepsSession == Spec => ImplementsSession
<1>1. Init => Session!Init
  <2> SUFFICES ASSUME Init
               PROVE  Session!Init
    OBVIOUS
  <2>1. PostedOnce /\ cancels = 0
    BY DEF Init, PostedOnce, Unspent
  <2>2. Undisturbed = TRUE
    BY <2>1 DEF Undisturbed
  <2> QED BY <2>2 DEF Init, Session!Init, Phase
<1>2. OutcomeInv /\ Untouched /\ [Next]_vars => [Session!Next]_(Session!vars)
  BY SessionStep
<1> QED BY <1>1, <1>2, OutcomeInvariance, UntouchedInvariance, PTL
        DEF Spec, ImplementsSession, Session!Spec
=============================================================================
