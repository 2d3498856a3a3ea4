-------------------------- MODULE QuantumLink_proof --------------------------
(***************************************************************************)
(* Proofs about QuantumLink, for any number of qubits, batch size, number  *)
(* of workers and retries, with or without a detector and Eve, and fault   *)
(* budgets of any size.                                                    *)
(***************************************************************************)
EXTENDS QuantumLink, FiniteSetTheorems, FunctionTheorems, SequenceTheorems, TLAPS

-----------------------------------------------------------------------------
(* How often a sequence has an element *)

At(s, q) == {i \in DOMAIN s : s[i] = q}

LEMMA AtFinite ==
  ASSUME NEW S, NEW s \in Seq(S), NEW q
  PROVE  IsFiniteSet(At(s, q)) /\ Cardinality(At(s, q)) \in Nat /\ Copies(s, q) = Cardinality(At(s, q))
<1>1. DOMAIN s = 1..Len(s) /\ Len(s) \in Nat
  BY LenProperties
<1>2. IsFiniteSet(1..Len(s))
  BY <1>1, FS_Interval
<1>3. IsFiniteSet(At(s, q))
  BY <1>1, <1>2, FS_Subset DEF At
<1> QED BY <1>3, FS_CardinalityType DEF At, Copies

LEMMA CopiesZero ==
  ASSUME NEW S, NEW s \in Seq(S), NEW q
  PROVE  Copies(s, q) \in Nat /\ (Copies(s, q) = 0 <=> \A i \in 1..Len(s) : s[i] # q)
<1>1. At(s, q) = {} <=> \A i \in 1..Len(s) : s[i] # q
  BY LenProperties DEF At
<1> QED BY <1>1, AtFinite, FS_EmptySet

LEMMA CopiesAppend ==
  ASSUME NEW S, NEW s \in Seq(S), NEW x \in S, NEW q
  PROVE  Copies(Append(s, x), q) = Copies(s, q) + (IF x = q THEN 1 ELSE 0)
<1> DEFINE t == Append(s, x)
           n == Len(s) + 1
<1>0. /\ t \in Seq(S) /\ Len(s) \in Nat /\ DOMAIN s = 1..Len(s) /\ DOMAIN t = 1..n
      /\ t[n] = x /\ \A i \in 1..Len(s) : t[i] = s[i]
  BY AppendProperties, LenProperties
<1>1. n \notin At(s, q)
  BY <1>0 DEF At
<1>2. x = q => At(t, q) = At(s, q) \cup {n}
  BY <1>0 DEF At
<1>3. x # q => At(t, q) = At(s, q)
  BY <1>0 DEF At
<1>4. /\ IsFiniteSet(At(s, q)) /\ Cardinality(At(s, q)) \in Nat
      /\ Copies(s, q) = Cardinality(At(s, q)) /\ Copies(t, q) = Cardinality(At(t, q))
  BY <1>0, AtFinite
<1> HIDE DEF t, n
<1>5. Cardinality(At(s, q) \cup {n}) = Cardinality(At(s, q)) + 1
  BY <1>1, <1>4, FS_AddElement
<1>6. Copies(t, q) = Copies(s, q) + (IF x = q THEN 1 ELSE 0)
  <2>1. CASE x = q
    <3>1. Cardinality(At(t, q)) = Cardinality(At(s, q)) + 1
      BY <1>2, <1>5, <2>1
    <3> QED BY <1>4, <2>1, <3>1
  <2>2. CASE x # q
    <3>1. Cardinality(At(t, q)) = Cardinality(At(s, q))
      BY <1>3, <2>2
    <3> QED BY <1>4, <2>2, <3>1
  <2> QED BY <2>1, <2>2
<1> QED BY <1>6 DEF t

LEMMA CopiesTail ==
  ASSUME NEW S, NEW s \in Seq(S), s # << >>, NEW q
  PROVE  Copies(s, q) = Copies(Tail(s), q) + (IF Head(s) = q THEN 1 ELSE 0)
<1> DEFINE t == Tail(s)
           n == Len(s)
           f == [i \in At(t, q) |-> i + 1]
           R == At(s, q) \ {1}
<1>0. /\ t \in Seq(S) /\ n \in Nat /\ n >= 1 /\ DOMAIN s = 1..n /\ DOMAIN t = 1..(n - 1)
      /\ Head(s) = s[1] /\ \A i \in 1..(n - 1) : t[i] = s[i + 1]
  BY HeadTailProperties, LenProperties, EmptySeq
<1>1. f \in Bijection(At(t, q), R)
  <2>1. f \in [At(t, q) -> R]
    BY <1>0 DEF At
  <2>2. \A i, j \in At(t, q) : f[i] = f[j] => i = j
    BY <1>0 DEF At
  <2>3. \A j \in R : \E i \in At(t, q) : f[i] = j
    <3> SUFFICES ASSUME NEW j \in R
                 PROVE  \E i \in At(t, q) : f[i] = j
      OBVIOUS
    <3>1. j - 1 \in At(t, q) /\ f[j - 1] = j
      BY <1>0 DEF At
    <3> QED BY <3>1
  <2> QED BY <2>1, <2>2, <2>3, Fun_IsBij
<1>2. IsFiniteSet(At(t, q)) /\ Cardinality(At(t, q)) = Copies(t, q)
  BY <1>0, AtFinite
<1>3. Cardinality(R) = Copies(t, q)
  BY <1>1, <1>2, FS_Bijection, Fun_ExistsBij
<1>4. /\ IsFiniteSet(At(s, q)) /\ Cardinality(At(s, q)) = Copies(s, q) /\ Copies(s, q) \in Nat
      /\ Copies(t, q) \in Nat
  BY <1>0, AtFinite
<1>5. 1 \in At(s, q) <=> Head(s) = q
  BY <1>0 DEF At
<1>6. Cardinality(R) = IF 1 \in At(s, q) THEN Copies(s, q) - 1 ELSE Copies(s, q)
  BY <1>4, FS_RemoveElement
<1> HIDE DEF t, n, f, R
<1>7. Copies(s, q) = Copies(t, q) + (IF Head(s) = q THEN 1 ELSE 0)
  BY <1>3, <1>4, <1>5, <1>6
<1> QED BY <1>7 DEF t

-----------------------------------------------------------------------------
(* The batches *)

LEMMA BatchFacts ==
  /\ \A q \in Qubit : BatchOf(q) \in Batch /\ q \in Nat
  /\ \E m \in Nat : Batch = 0..m
<1>0. NQubits \in Nat \ {0} /\ BatchSize \in Nat \ {0}
  BY LinkAssumption
<1>1. ASSUME NEW a \in Nat
      PROVE  /\ a \div BatchSize \in Nat /\ (a \div BatchSize) * BatchSize <= a
             /\ (a * BatchSize) \div BatchSize = a
  BY <1>0
<1>2. ASSUME NEW a \in Nat, NEW c \in Nat, a <= c
      PROVE  a \div BatchSize <= c \div BatchSize /\ a * BatchSize <= c * BatchSize
  BY <1>0, <1>2
<1> DEFINE m == (NQubits - 1) \div BatchSize
<1>3. m \in Nat
  BY <1>0, <1>1
<1>4. Batch \subseteq 0..m
  <2> SUFFICES ASSUME NEW q \in Qubit
               PROVE  q \div BatchSize \in 0..m
    BY DEF Batch, BatchOf
  <2>1. q \in Nat /\ NQubits - 1 \in Nat /\ q <= NQubits - 1
    BY <1>0 DEF Qubit
  <2>2. q \div BatchSize \in Nat /\ q \div BatchSize <= m
    BY <1>1, <1>2, <2>1
  <2> QED BY <1>3, <2>2
<1>5. 0..m \subseteq Batch
  <2> SUFFICES ASSUME NEW b \in 0..m
               PROVE  b * BatchSize \in Qubit /\ BatchOf(b * BatchSize) = b
    BY DEF Batch
  <2>1. b \in Nat /\ b <= m /\ NQubits - 1 \in Nat
    BY <1>0, <1>3
  <2>2. m * BatchSize <= NQubits - 1
    BY <1>1, <2>1
  <2>3. b * BatchSize <= m * BatchSize
    BY <1>2, <1>3, <2>1
  <2>4. b * BatchSize \in Nat /\ m * BatchSize \in Nat
    BY <1>0, <1>3, <2>1
  <2>5. b * BatchSize \in 0..(NQubits - 1)
    BY <1>0, <2>2, <2>3, <2>4
  <2> QED BY <1>1, <2>1, <2>5 DEF Qubit, BatchOf
<1>6. \A q \in Qubit : BatchOf(q) \in Batch /\ q \in Nat
  BY DEF Batch, Qubit
<1> HIDE DEF m
<1> QED BY <1>3, <1>4, <1>5, <1>6

(* A run is a request of a batch. *)
LEMMA RunIs ==
  ASSUME NEW r \in Run
  PROVE  /\ r = <<r[1], r[2]>> /\ r[1] \in Batch
         /\ r[2] \in 1..(MaxRetries + 1) /\ r[2] \in Nat
BY LinkAssumption DEF Run

-----------------------------------------------------------------------------
(* The tasks and their queue *)

(* A task's requests are as many as its runs, the last of which may be     *)
(* under way.                                                              *)
Counted ==
  \A b \in Batch :
    sends[b] <= retries[b] + (IF task[b] \in {"queued", "started"} THEN 0 ELSE 1)

TasksOK ==
  /\ queued \in Seq(Batch)
  /\ task \in [Batch -> {"queued", "started", "waiting", "done", "failed"}]
  /\ \A b \in Batch : Copies(queued, b) = (IF task[b] = "queued" THEN 1 ELSE 0)
  /\ retries \in [Batch -> 0..MaxRetries]
  /\ sends \in [Batch -> 0..(MaxRetries + 1)]
  /\ Counted

(* The steps that move a task. *)
Moves(b) == \/ TakeTask(b) \/ SendBatch(b) \/ SendNotFound(b)
            \/ RequestFails(b) \/ TaskGivesUp(b)

LEMMA WhoMoves ==
  ASSUME [Next]_vars
  PROVE  \/ \E b \in Batch : Moves(b)
         \/ \E r \in Run : BatchDone(r) \/ BatchRaises(r)
         \/ UNCHANGED <<tasks, sends>>
<1>1. ASSUME NEW r \in Run, NEW q \in Qubit, Process(r, q)
      PROVE  UNCHANGED <<tasks, sends>>
  BY <1>1 DEF Process, QubitBlinded, QubitLost, DarkCount, Intercept, SendQns, Sends
<1>2. ASSUME Bob \/ Eve \/ Kme \/ PollLost
      PROVE  UNCHANGED <<tasks, sends>>
  BY <1>2 DEF Bob, Poll, PollNotFound, BobLeaves, Eve, EveRegisters, EveGivesUp, EveCollects, EveMisses, Collects,
              Kme, Report, Stop, PollLost, runs
<1>3. CASE UNCHANGED vars
  BY <1>3 DEF vars, runs
<1> QED BY <1>1, <1>2, <1>3 DEF Next, Worker, Executor, Fault, Moves

(* A retry queues the task once, or not at all. *)
LEMMA RetryTasks ==
  ASSUME TasksOK, NEW b \in Batch, task[b] \in {"started", "waiting"}, Retry(b), sends' = sends
  PROVE  TasksOK'
<1>0. /\ MaxRetries \in Nat /\ retries[b] \in 0..MaxRetries /\ sends[b] \in Nat
      /\ \A c \in Batch : sends[c] \in Nat /\ retries[c] \in Nat
  BY LinkAssumption DEF TasksOK
<1>1. CASE retries[b] < MaxRetries
  <2>1. /\ task' = [task EXCEPT ![b] = "queued"] /\ queued' = Append(queued, b)
        /\ retries' = [retries EXCEPT ![b] = @ + 1]
    BY <1>1 DEF Retry
  <2>2. queued' \in Seq(Batch)
    BY <2>1, AppendProperties DEF TasksOK
  <2>3. ASSUME NEW c \in Batch
        PROVE  Copies(queued', c) = (IF task'[c] = "queued" THEN 1 ELSE 0)
    <3>1. Copies(queued', c) = Copies(queued, c) + (IF b = c THEN 1 ELSE 0)
      BY <2>1, CopiesAppend DEF TasksOK
    <3>2. Copies(queued, c) = (IF task[c] = "queued" THEN 1 ELSE 0)
      BY DEF TasksOK
    <3> QED BY <2>1, <3>1, <3>2 DEF TasksOK
  <2>4. retries' \in [Batch -> 0..MaxRetries]
    BY <1>0, <1>1, <2>1 DEF TasksOK
  <2>5. Counted'
    BY <1>0, <2>1 DEF TasksOK, Counted
  <2> QED BY <2>1, <2>2, <2>3, <2>4, <2>5 DEF TasksOK
<1>2. CASE ~(retries[b] < MaxRetries)
  <2>1. task' = [task EXCEPT ![b] = "failed"] /\ UNCHANGED <<queued, retries>>
    BY <1>2 DEF Retry
  <2>2. Counted'
    BY <1>0, <2>1 DEF TasksOK, Counted
  <2> QED BY <2>1, <2>2 DEF TasksOK
<1> QED BY <1>1, <1>2

LEMMA TasksStep == TasksOK /\ [Next]_vars => TasksOK'
<1> SUFFICES ASSUME TasksOK, [Next]_vars
             PROVE  TasksOK'
  OBVIOUS
<1>0. /\ MaxRetries \in Nat
      /\ \A c \in Batch : /\ sends[c] \in Nat /\ retries[c] \in Nat /\ retries[c] <= MaxRetries
                          /\ task[c] \in {"queued", "started", "waiting", "done", "failed"}
  BY LinkAssumption DEF TasksOK
<1>1. ASSUME NEW b \in Batch, TakeTask(b)
      PROVE  TasksOK'
  <2>1. /\ queued # << >> /\ b = Head(queued) /\ queued' = Tail(queued)
        /\ task' = [task EXCEPT ![b] = "started"] /\ UNCHANGED <<retries, sends>>
    BY <1>1 DEF TakeTask, runs
  <2>2. queued' \in Seq(Batch)
    BY <2>1, HeadTailProperties DEF TasksOK
  <2>3. ASSUME NEW c \in Batch
        PROVE  Copies(queued, c) = Copies(queued', c) + (IF b = c THEN 1 ELSE 0)
    BY <2>1, CopiesTail DEF TasksOK
  <2>4. ASSUME NEW c \in Batch
        PROVE  Copies(queued, c) = (IF task[c] = "queued" THEN 1 ELSE 0) /\ Copies(queued', c) \in Nat
    BY <2>2, CopiesZero DEF TasksOK
  <2>5. task[b] = "queued"
    BY <2>3, <2>4
  <2>6. ASSUME NEW c \in Batch
        PROVE  Copies(queued', c) = (IF task'[c] = "queued" THEN 1 ELSE 0)
    <3>1. /\ Copies(queued, c) = Copies(queued', c) + (IF b = c THEN 1 ELSE 0)
          /\ Copies(queued, c) = (IF task[c] = "queued" THEN 1 ELSE 0)
          /\ Copies(queued', c) \in Nat
      BY <2>3, <2>4
    <3>2. task'[c] = IF c = b THEN "started" ELSE task[c]
      BY <2>1 DEF TasksOK
    <3> QED BY <2>5, <3>1, <3>2
  <2>7. Counted'
    BY <1>0, <2>1, <2>5 DEF TasksOK, Counted
  <2> QED BY <2>1, <2>2, <2>6, <2>7 DEF TasksOK
<1>2. ASSUME NEW b \in Batch, SendBatch(b)
      PROVE  TasksOK'
  <2>1. /\ task[b] = "started" /\ task' = [task EXCEPT ![b] = "waiting"]
        /\ sends' = [sends EXCEPT ![b] = @ + 1] /\ UNCHANGED <<queued, retries>>
    BY <1>2 DEF SendBatch
  <2>2. sends[b] <= retries[b]
    BY <2>1, <1>0 DEF TasksOK, Counted
  <2>3. sends' \in [Batch -> 0..(MaxRetries + 1)]
    BY <1>0, <2>1, <2>2 DEF TasksOK
  <2>4. Counted'
    BY <1>0, <2>1, <2>2 DEF TasksOK, Counted
  <2> QED BY <2>1, <2>3, <2>4 DEF TasksOK
<1>3. ASSUME NEW b \in Batch, SendNotFound(b) \/ RequestFails(b)
      PROVE  TasksOK'
  <2>1. task[b] \in {"started", "waiting"} /\ Retry(b) /\ sends' = sends
    BY <1>3 DEF SendNotFound, RequestFails, runs
  <2> QED BY <2>1, RetryTasks
<1>7. ASSUME NEW b \in Batch, TaskGivesUp(b)
      PROVE  TasksOK'
  <2>1. /\ task[b] \in {"started", "waiting"} /\ task' = [task EXCEPT ![b] = "done"]
        /\ UNCHANGED <<queued, retries, sends>>
    BY <1>7 DEF TaskGivesUp, runs
  <2>2. Counted'
    BY <1>0, <2>1 DEF TasksOK, Counted
  <2> QED BY <2>1, <2>2 DEF TasksOK
<1>4. ASSUME UNCHANGED <<tasks, sends>>
      PROVE  TasksOK'
  BY <1>4 DEF tasks, TasksOK, Counted
<1>5. ASSUME NEW r \in Run, BatchDone(r)
      PROVE  TasksOK'
  <2>1. CASE Waits(r)
    <3>1. /\ task[r[1]] = "waiting" /\ task' = [task EXCEPT ![r[1]] = "done"]
          /\ UNCHANGED <<queued, retries, sends>>
      BY <1>5, <2>1 DEF BatchDone, Waits
    <3>2. Counted'
      BY <1>0, <3>1 DEF TasksOK, Counted
    <3> QED BY <3>1, <3>2 DEF TasksOK
  <2>2. CASE ~Waits(r)
    BY <1>4, <1>5, <2>2 DEF BatchDone, tasks
  <2> QED BY <2>1, <2>2
<1>6. ASSUME NEW r \in Run, BatchRaises(r)
      PROVE  TasksOK'
  <2>1. CASE Waits(r)
    <3>1. r[1] \in Batch /\ task[r[1]] = "waiting" /\ Retry(r[1]) /\ sends' = sends
      BY <1>6, <2>1, RunIs DEF BatchRaises, Waits
    <3> QED BY <3>1, RetryTasks
  <2>2. CASE ~Waits(r)
    BY <1>4, <1>6, <2>2 DEF BatchRaises
  <2> QED BY <2>1, <2>2
<1> QED BY <1>1, <1>2, <1>3, <1>4, <1>5, <1>6, <1>7, WhoMoves DEF Moves

(* Alice dispatches every batch once. *)
LEMMA TasksInit == Init => TasksOK
<1> SUFFICES ASSUME Init
             PROVE  TasksOK
  OBVIOUS
<1>1. PICK m \in Nat : Batch = 0..m
  BY BatchFacts
<1>2. Cardinality(Batch) = m + 1
  BY <1>1, FS_Interval
<1>3. queued = [i \in 1..(m + 1) |-> i - 1]
  BY <1>2 DEF Init
<1>4. queued \in Seq(Batch) /\ Len(queued) = m + 1
  <2>1. queued \in [1..(m + 1) -> Batch]
    BY <1>1, <1>3
  <2> QED BY <1>1, <2>1, SeqDef, LenProperties
<1>5. ASSUME NEW b \in Batch
      PROVE  Copies(queued, b) = 1
  <2>1. {i \in DOMAIN queued : queued[i] = b} = {b + 1}
    BY <1>1, <1>3
  <2> QED BY <2>1, FS_Singleton DEF Copies
<1>6. Counted /\ retries \in [Batch -> 0..MaxRetries] /\ sends \in [Batch -> 0..(MaxRetries + 1)]
  BY LinkAssumption DEF Init, Counted
<1> QED BY <1>4, <1>5, <1>6 DEF Init, TasksOK

-----------------------------------------------------------------------------
(* The requests and the qubits                                             *)

(* A request that was not made sends nothing, and each sends the qubits of *)
(* its batch.                                                              *)
Asked ==
  \A r \in Run : r[2] > sends[r[1]] => todo[r] = {} /\ results[r] = {} /\ r \notin going
OwnQubits ==
  \A r \in Run : \A q \in todo[r] \cup results[r] : BatchOf(q) = r[1]

RunsOK ==
  /\ going \subseteq Run
  /\ todo \in [Run -> SUBSET Qubit] /\ results \in [Run -> SUBSET Qubit]
  /\ Asked /\ OwnQubits

LinkOK ==
  /\ delivered \subseteq Qubit
  /\ filed \in BOOLEAN
  /\ optics \in Channels
  /\ lastClick \in Qubit \cup {Never}
  /\ measQueue \in Seq(Qubit)
  /\ bob \in {"polls", "over"} /\ measurements \in Seq(Qubit)
  /\ eve \in {"absent", "told", "registered", "gaveUp"}
  /\ collected \in BOOLEAN /\ eveLog \subseteq Qubit
  /\ tapped \in BOOLEAN /\ eveQueue \subseteq Qubit /\ eveSeen \subseteq Qubit
  /\ reported \in BOOLEAN
  /\ faults \in [FaultKinds -> Nat]

(* What becomes of one qubit. *)
LEMMA ProcessDoes ==
  ASSUME NEW r \in Run, NEW q \in Qubit, Process(r, q)
  PROVE  /\ r \in going /\ q \in todo[r]
         /\ todo' = [todo EXCEPT ![r] = @ \ {q}]
         /\ UNCHANGED <<sends, going, tasks, filed, bobs, eves, reported, faults>>
         /\ Push(r, q) \/ UNCHANGED <<measQueue, results>>
         /\ lastClick' \in {lastClick, q} /\ optics' = optics
         /\ \/ UNCHANGED tap
            \/ eveQueue' = eveQueue \cup {q} /\ eveSeen' = eveSeen \cup {q}
BY DEF Process, QubitBlinded, QubitLost, DarkCount, Intercept, SendQns, Sends, Push, Clicks, channel, tap

(* Who else moves the requests. *)
LEMMA WhoRuns ==
  ASSUME [Next]_vars
  PROVE  \/ \E b \in Batch : SendBatch(b)
         \/ \E r \in Run : BatchDone(r) \/ BatchRaises(r)
         \/ \E r \in Run, q \in Qubit : Process(r, q)
         \/ UNCHANGED runs
<1>1. ASSUME NEW b \in Batch, Worker(b) \/ RequestFails(b) \/ TaskGivesUp(b)
      PROVE  SendBatch(b) \/ UNCHANGED runs
  BY <1>1 DEF Worker, TakeTask, SendNotFound, RequestFails, TaskGivesUp
<1>2. ASSUME Bob \/ Eve \/ Kme \/ PollLost
      PROVE  UNCHANGED runs
  BY <1>2 DEF Bob, Poll, PollNotFound, BobLeaves, Eve, EveRegisters, EveGivesUp, EveCollects, EveMisses, Collects,
              Kme, Report, Stop, PollLost
<1>3. CASE UNCHANGED vars
  BY <1>3 DEF vars
<1> QED BY <1>1, <1>2, <1>3 DEF Next, Executor, Fault

LEMMA RunsStep == TasksOK /\ TasksOK' /\ RunsOK /\ [Next]_vars => RunsOK'
<1> SUFFICES ASSUME TasksOK, TasksOK', RunsOK, [Next]_vars
             PROVE  RunsOK'
  OBVIOUS
<1>0. /\ going \subseteq Run
      /\ todo \in [Run -> SUBSET Qubit] /\ results \in [Run -> SUBSET Qubit]
      /\ sends \in [Batch -> 0..(MaxRetries + 1)] /\ sends' \in [Batch -> 0..(MaxRetries + 1)]
      /\ MaxRetries \in Nat
      /\ \A r \in Run : r = <<r[1], r[2]>> /\ r[1] \in Batch /\ r[2] \in Nat
  BY RunIs, LinkAssumption DEF TasksOK, RunsOK
<1>1. ASSUME NEW b \in Batch, SendBatch(b)
      PROVE  RunsOK'
  <2> DEFINE n == sends[b] + 1
  <2>1. /\ sends' = [sends EXCEPT ![b] = n] /\ going' = going \cup {<<b, n>>}
        /\ todo' = [todo EXCEPT ![<<b, n>>] = {q \in Qubit : BatchOf(q) = b}]
        /\ results' = results
    <3>1. sends' = [sends EXCEPT ![b] = @ + 1]
      BY <1>1 DEF SendBatch
    <3>2. sends'[b] = n
      BY <1>0, <3>1
    <3> QED BY <1>1, <3>1, <3>2 DEF SendBatch
  <2>2. n \in 1..(MaxRetries + 1)
    <3>1. sends'[b] = n
      BY <1>0, <2>1
    <3> QED BY <1>0, <3>1
  <2>3. <<b, n>> \in Run
    BY <2>2 DEF Run
  <2> HIDE DEF n
  <2>4. OwnQubits'
    BY <1>0, <2>1, <2>3 DEF RunsOK, OwnQubits
  <2>5. Asked'
    <3> SUFFICES ASSUME NEW r \in Run, r[2] > sends'[r[1]]
                 PROVE  todo'[r] = {} /\ results'[r] = {} /\ r \notin going'
      BY DEF Asked
    <3>1. n = sends[b] + 1 /\ sends[b] \in Nat
      BY <1>0 DEF n
    <3>2. r # <<b, n>>
      BY <1>0, <2>1, <3>1
    <3>3. r[2] > sends[r[1]]
      BY <1>0, <2>1, <3>1
    <3> QED BY <1>0, <2>1, <3>2, <3>3 DEF RunsOK, Asked
  <2> QED BY <1>0, <2>1, <2>3, <2>4, <2>5 DEF RunsOK
<1>2. ASSUME NEW r \in Run, BatchDone(r) \/ BatchRaises(r)
      PROVE  RunsOK'
  BY <1>2 DEF BatchDone, BatchRaises, RunsOK, Asked, OwnQubits
<1>3. ASSUME NEW r \in Run, NEW q \in Qubit, Process(r, q)
      PROVE  RunsOK'
  <2>1. /\ r \in going /\ q \in todo[r] /\ UNCHANGED <<sends, going>>
        /\ todo' = [todo EXCEPT ![r] = @ \ {q}]
        /\ results' = [results EXCEPT ![r] = @ \cup {q}] \/ results' = results
    BY <1>3, ProcessDoes DEF Push
  <2>2. OwnQubits'
    BY <1>0, <2>1 DEF RunsOK, OwnQubits
  <2>3. Asked'
    BY <1>0, <2>1 DEF RunsOK, Asked
  <2> QED BY <1>0, <2>1, <2>2, <2>3 DEF RunsOK
<1>4. CASE UNCHANGED runs
  BY <1>4 DEF runs, RunsOK, Asked, OwnQubits
<1> QED BY <1>1, <1>2, <1>3, <1>4, WhoRuns

LEMMA LinkStep == RunsOK /\ LinkOK /\ [Next]_vars => LinkOK'
<1> SUFFICES ASSUME RunsOK, LinkOK, [Next]_vars
             PROVE  LinkOK'
  OBVIOUS
<1>0. ASSUME NEW kind \in FaultKinds, Strike(kind)
      PROVE  faults' \in [FaultKinds -> Nat]
  BY <1>0 DEF Strike, LinkOK
<1>1. ASSUME NEW b \in Batch, TakeTask(b) \/ SendBatch(b) \/ SendNotFound(b)
      PROVE  LinkOK'
  BY <1>1 DEF TakeTask, SendBatch, SendNotFound, Retry, LinkOK, runs, channel, bobs, eves, tap
<1>2. ASSUME NEW b \in Batch, RequestFails(b) \/ TaskGivesUp(b)
      PROVE  LinkOK'
  <2>1. faults' \in [FaultKinds -> Nat]
    BY <1>0, <1>2 DEF RequestFails, TaskGivesUp, FaultKinds
  <2> QED BY <1>2, <2>1 DEF RequestFails, TaskGivesUp, Retry, LinkOK, runs, channel, bobs, eves, tap
<1>3. ASSUME NEW r \in Run, BatchDone(r)
      PROVE  LinkOK'
  <2>1. delivered' \subseteq Qubit
    BY <1>3 DEF BatchDone, LinkOK, RunsOK
  <2> QED BY <1>3, <2>1 DEF BatchDone, LinkOK, channel, bobs, eves, tap
<1>4. ASSUME NEW r \in Run, BatchRaises(r)
      PROVE  LinkOK'
  <2>1. faults' \in [FaultKinds -> Nat]
    BY <1>0, <1>4 DEF BatchRaises, FaultKinds, LinkOK
  <2>2. PICK q \in todo[r] : UNCHANGED channel \/ Clicks(q)
    BY <1>4 DEF BatchRaises
  <2>3. q \in Qubit
    BY DEF RunsOK
  <2>4. optics' = optics /\ lastClick' \in {lastClick, q}
    BY <2>2 DEF Clicks, channel
  <2>5. delivered' = delivered
    BY <1>4 DEF BatchRaises, Retry, tasks
  <2> QED BY <1>4, <2>1, <2>3, <2>4, <2>5 DEF BatchRaises, LinkOK, bobs, eves, tap
<1>5. ASSUME NEW r \in Run, NEW q \in Qubit, Process(r, q)
      PROVE  LinkOK'
  <2>1. measQueue' = Append(measQueue, q) \/ measQueue' = measQueue
    BY <1>5, ProcessDoes DEF Push
  <2>2. measQueue' \in Seq(Qubit)
    <3>1. measQueue \in Seq(Qubit)
      BY DEF LinkOK
    <3> QED BY <2>1, <3>1, AppendProperties
  <2>3. /\ UNCHANGED <<tasks, filed, bobs, eves, reported, faults>>
        /\ lastClick' \in {lastClick, q} /\ optics' = optics
        /\ \/ UNCHANGED tap
           \/ eveQueue' = eveQueue \cup {q} /\ eveSeen' = eveSeen \cup {q}
    BY <1>5, ProcessDoes
  <2> QED BY <2>2, <2>3 DEF LinkOK, tasks, bobs, eves, tap
<1>6. CASE Poll \/ PollLost
  <2>1. measQueue # << >> /\ measQueue' = Tail(measQueue)
    BY <1>6 DEF Poll, PollLost
  <2>2. Head(measQueue) \in Qubit /\ measQueue' \in Seq(Qubit)
    BY <2>1, HeadTailProperties DEF LinkOK
  <2>3. measurements' \in Seq(Qubit) /\ bob' \in {"polls", "over"}
    <3>1. CASE measurements' = Append(measurements, Head(measQueue))
      BY <1>6, <2>2, <3>1, AppendProperties DEF Poll, PollLost, LinkOK, bobs
    <3>2. CASE UNCHANGED bobs
      BY <3>2 DEF LinkOK, bobs
    <3> QED BY <1>6, <3>1, <3>2 DEF Poll, PollLost
  <2>4. faults' \in [FaultKinds -> Nat]
    BY <1>0, <1>6 DEF Poll, PollLost, FaultKinds, LinkOK
  <2> QED BY <1>6, <2>2, <2>3, <2>4 DEF Poll, PollLost, LinkOK, tasks, channel, eves, tap
<1>7. CASE PollNotFound \/ BobLeaves
  <2>1. faults' \in [FaultKinds -> Nat]
    BY <1>0, <1>7 DEF PollNotFound, BobLeaves, FaultKinds, LinkOK
  <2> QED BY <1>7, <2>1 DEF PollNotFound, BobLeaves, LinkOK, tasks, channel, eves, tap
<1>8. CASE Eve
  <2>1. faults' \in [FaultKinds -> Nat]
    BY <1>0, <1>8 DEF Eve, EveRegisters, EveGivesUp, EveCollects, EveMisses, FaultKinds, LinkOK
  <2> QED BY <1>8, <2>1 DEF Eve, EveRegisters, EveGivesUp, EveCollects, EveMisses, Collects,
                            LinkOK, tasks, channel, bobs, tap
<1>9. CASE Kme
  <2>1. faults' \in [FaultKinds -> Nat]
    BY <1>0, <1>9 DEF Kme, Report, Stop, FaultKinds, LinkOK
  <2> QED BY <1>9, <2>1 DEF Kme, Report, Stop, LinkOK, tasks, channel, bobs, eves, tap
<1>10. CASE UNCHANGED vars
  BY <1>10 DEF vars, LinkOK, tasks, channel, bobs, eves, tap
<1> QED BY <1>1, <1>2, <1>3, <1>4, <1>5, <1>6, <1>7, <1>8, <1>9, <1>10
        DEF Next, Worker, Executor, Bob, Fault

LEMMA RunsInit == Init => RunsOK /\ LinkOK
<1> SUFFICES ASSUME Init
             PROVE  RunsOK /\ LinkOK
  OBVIOUS
<1>1. RunsOK
  BY DEF Init, RunsOK, Asked, OwnQubits
<1>2. << >> \in Seq(Qubit)
  BY EmptySeq
<1>3. faults \in [FaultKinds -> Nat]
  BY LinkAssumption DEF Init
<1>4. LinkOK
  BY <1>2, <1>3 DEF Init, LinkOK
<1> QED BY <1>1, <1>4

-----------------------------------------------------------------------------
(* How often a qubit is measured                                           *)

(* The requests that have a qubit still to send. *)
Unsent(q) == {n \in 1..(MaxRetries + 1) : q \in todo[<<BatchOf(q), n>>]}

(* What was measured and what may yet be is no more than was sent. *)
Measured ==
  \A q \in Qubit :
    Copies(measQueue, q) + Copies(measurements, q) + Cardinality(Unsent(q))
      <= sends[BatchOf(q)]

LEMMA UnsentFinite ==
  ASSUME NEW q
  PROVE  IsFiniteSet(Unsent(q)) /\ Cardinality(Unsent(q)) \in Nat
<1>1. IsFiniteSet(1..(MaxRetries + 1))
  BY LinkAssumption, FS_Interval
<1>2. IsFiniteSet(Unsent(q))
  BY <1>1, FS_Subset DEF Unsent
<1> QED BY <1>2, FS_CardinalityType

(* Numbers all, before and after a step. *)
LEMMA CountTypes ==
  ASSUME TasksOK, LinkOK, NEW q \in Qubit
  PROVE  /\ Copies(measQueue, q) \in Nat /\ Copies(measurements, q) \in Nat
         /\ Cardinality(Unsent(q)) \in Nat /\ sends[BatchOf(q)] \in Nat
<1>1. BatchOf(q) \in Batch
  BY BatchFacts
<1>2. sends[BatchOf(q)] \in Nat
  BY <1>1, LinkAssumption DEF TasksOK
<1>3. Copies(measQueue, q) \in Nat /\ Copies(measurements, q) \in Nat
  BY CopiesZero DEF LinkOK
<1> QED BY <1>2, <1>3, UnsentFinite

LEMMA MeasuredStep ==
  ASSUME TasksOK, TasksOK', RunsOK, LinkOK, Measured, [Next]_vars
  PROVE  Measured'
<1>0. /\ todo \in [Run -> SUBSET Qubit] /\ sends \in [Batch -> 0..(MaxRetries + 1)]
      /\ measQueue \in Seq(Qubit) /\ measurements \in Seq(Qubit)
  BY DEF TasksOK, RunsOK, LinkOK
<1> SUFFICES ASSUME NEW x \in Qubit
             PROVE  Copies(measQueue', x) + Copies(measurements', x) + Cardinality(Unsent(x)')
                      <= sends'[BatchOf(x)]
  BY DEF Measured, Copies
<1> DEFINE a == Copies(measQueue, x)
           m == Copies(measurements, x)
           u == Cardinality(Unsent(x))
           Goal == Copies(measQueue', x) + Copies(measurements', x) + Cardinality(Unsent(x)')
                     <= sends'[BatchOf(x)]
<1>00. /\ a \in Nat /\ m \in Nat /\ u \in Nat /\ sends[BatchOf(x)] \in Nat
       /\ a + m + u <= sends[BatchOf(x)] /\ BatchOf(x) \in Batch /\ IsFiniteSet(Unsent(x))
  BY CountTypes, BatchFacts, UnsentFinite DEF Measured
<1>1. ASSUME UNCHANGED <<measQueue, measurements, todo, sends>>
      PROVE  Goal
  <2>1. Unsent(x)' = Unsent(x)
    BY <1>1 DEF Unsent
  <2> QED BY <1>1, <1>00, <2>1
<1>2. ASSUME NEW b \in Batch, SendBatch(b)
      PROVE  Goal
  <2>1. UNCHANGED <<measQueue, measurements>> /\ sends' = [sends EXCEPT ![b] = @ + 1]
    BY <1>2 DEF SendBatch, bobs
  <2> DEFINE n == sends'[b]
  <2>2. n = sends[b] + 1 /\ sends[b] \in Nat /\ n \in 1..(MaxRetries + 1) /\ <<b, n>> \in Run
    <3>1. n = sends[b] + 1 /\ sends[b] \in Nat
      BY <1>0, <2>1
    <3>2. n \in 1..(MaxRetries + 1)
      BY <3>1 DEF TasksOK
    <3> QED BY <3>1, <3>2 DEF Run
  <2>3. todo' = [todo EXCEPT ![<<b, n>>] = {q \in Qubit : BatchOf(q) = b}]
    BY <1>2 DEF SendBatch
  <2>4. todo[<<b, n>>] = {}
    BY <2>2 DEF RunsOK, Asked
  <2> HIDE DEF n
  <2>5. CASE BatchOf(x) = b
    <3>0. \A k \in 1..(MaxRetries + 1) :
            x \in todo'[<<b, k>>] <=> k = n \/ x \in todo[<<b, k>>]
      <4>1. \A k \in 1..(MaxRetries + 1) : <<b, k>> \in Run /\ (<<b, k>> = <<b, n>> <=> k = n)
        BY DEF Run
      <4> QED BY <1>0, <2>2, <2>3, <2>4, <2>5, <4>1
    <3>1. Unsent(x)' = Unsent(x) \cup {n} /\ n \notin Unsent(x)
      BY <2>2, <2>4, <2>5, <3>0 DEF Unsent
    <3>2. Cardinality(Unsent(x)') = u + 1
      BY <1>00, <3>1, FS_AddElement
    <3>3. sends'[BatchOf(x)] = sends[BatchOf(x)] + 1
      BY <1>0, <2>1, <2>5
    <3> HIDE DEF a, m, u
    <3>4. a + m + (u + 1) <= sends[BatchOf(x)] + 1
      BY <1>00
    <3> QED BY <2>1, <3>2, <3>3, <3>4 DEF a, m
  <2>6. CASE BatchOf(x) # b
    <3>1. Unsent(x)' = Unsent(x)
      BY <1>0, <2>2, <2>3, <2>6 DEF Unsent
    <3>2. sends'[BatchOf(x)] = sends[BatchOf(x)]
      BY <1>0, <1>00, <2>1, <2>6
    <3> QED BY <1>00, <2>1, <3>1, <3>2
  <2> QED BY <2>5, <2>6
<1>3. ASSUME NEW r \in Run, NEW q \in Qubit, Process(r, q)
      PROVE  Goal
  <2>1. /\ q \in todo[r] /\ todo' = [todo EXCEPT ![r] = @ \ {q}]
        /\ UNCHANGED <<sends, measurements>>
        /\ measQueue' = Append(measQueue, q) \/ measQueue' = measQueue
    BY <1>3, ProcessDoes DEF Push, bobs
  <2>2. /\ BatchOf(q) = r[1] /\ r = <<r[1], r[2]>> /\ r[2] \in 1..(MaxRetries + 1)
    BY <2>1, RunIs DEF RunsOK, OwnQubits
  <2>3. CASE x = q
    <3>0. \A k \in 1..(MaxRetries + 1) :
            x \in todo'[<<r[1], k>>] <=> k # r[2] /\ x \in todo[<<r[1], k>>]
      <4>1. \A k \in 1..(MaxRetries + 1) : <<r[1], k>> \in Run /\ (<<r[1], k>> = r <=> k = r[2])
        BY <2>2, RunIs DEF Run
      <4> QED BY <1>0, <2>1, <2>2, <2>3, <4>1
    <3>1. Unsent(x)' = Unsent(x) \ {r[2]} /\ r[2] \in Unsent(x)
      BY <2>1, <2>2, <2>3, <3>0 DEF Unsent
    <3>2. Cardinality(Unsent(x)') = u - 1
      <4>1. Cardinality(Unsent(x) \ {r[2]}) = u - 1
        <5>1. IsFiniteSet(Unsent(x)) /\ r[2] \in Unsent(x)
          BY <1>00, <3>1
        <5> QED BY <5>1, FS_RemoveElement
      <4> QED BY <3>1, <4>1
    <3>3. Copies(measQueue', x) \in {a, a + 1}
      <4>1. CASE measQueue' = Append(measQueue, q)
        <5>1. Copies(measQueue', x) = a + 1
          BY <1>0, <2>3, <4>1, CopiesAppend
        <5> QED BY <5>1
      <4>2. CASE measQueue' = measQueue
        BY <4>2
      <4> QED BY <2>1, <4>1, <4>2
    <3> HIDE DEF a, m, u
    <3>4. Copies(measQueue', x) + m + (u - 1) <= sends[BatchOf(x)]
      BY <1>00, <3>3
    <3> QED BY <2>1, <3>2, <3>4 DEF m
  <2>4. CASE x # q
    <3>1. Unsent(x)' = Unsent(x)
      BY <1>0, <2>1, <2>4 DEF Unsent
    <3>2. Copies(measQueue', x) = a
      <4>1. CASE measQueue' = Append(measQueue, q)
        <5>1. Copies(measQueue', x) = a + 0
          BY <1>0, <2>4, <4>1, CopiesAppend
        <5> QED BY <1>00, <5>1
      <4>2. CASE measQueue' = measQueue
        BY <4>2
      <4> QED BY <2>1, <4>1, <4>2
    <3> QED BY <1>00, <2>1, <3>1, <3>2
  <2> QED BY <2>3, <2>4
<1>4. CASE Poll
  <2>1. /\ measQueue # << >> /\ measQueue' = Tail(measQueue)
        /\ measurements' = Append(measurements, Head(measQueue))
        /\ UNCHANGED <<todo, sends>>
    BY <1>4 DEF Poll, runs
  <2>2. Head(measQueue) \in Qubit /\ measQueue' \in Seq(Qubit)
    BY <1>0, <2>1, HeadTailProperties
  <2> DEFINE h == IF Head(measQueue) = x THEN 1 ELSE 0
  <2>3. a = Copies(measQueue', x) + h
    BY <1>0, <2>1, CopiesTail
  <2>4. Copies(measurements', x) = m + h
    BY <1>0, <2>1, <2>2, CopiesAppend
  <2>5. Copies(measQueue', x) \in Nat /\ h \in {0, 1}
    BY <2>2, CopiesZero
  <2>6. Unsent(x)' = Unsent(x)
    BY <2>1 DEF Unsent
  <2> HIDE DEF a, m, u, h
  <2>7. Copies(measQueue', x) + (m + h) + u <= sends[BatchOf(x)]
    BY <1>00, <2>3, <2>5
  <2> QED BY <2>1, <2>4, <2>6, <2>7 DEF u
<1>5. CASE PollLost
  <2>1. /\ measQueue # << >> /\ measQueue' = Tail(measQueue)
        /\ UNCHANGED <<todo, sends, measurements>>
    BY <1>5 DEF PollLost, runs, bobs
  <2>2. measQueue' \in Seq(Qubit)
    BY <1>0, <2>1, HeadTailProperties
  <2>3. a = Copies(measQueue', x) + (IF Head(measQueue) = x THEN 1 ELSE 0)
    BY <1>0, <2>1, CopiesTail
  <2>4. Copies(measQueue', x) \in Nat
    BY <2>2, CopiesZero
  <2>5. Copies(measQueue', x) <= a
    BY <2>3, <2>4
  <2>6. Unsent(x)' = Unsent(x)
    BY <2>1 DEF Unsent
  <2> HIDE DEF a, m, u
  <2>7. Copies(measQueue', x) + m + u <= sends[BatchOf(x)]
    BY <1>00, <2>4, <2>5
  <2> QED BY <2>1, <2>6, <2>7 DEF m, u
<1>6. ASSUME NEW b \in Batch,
             TakeTask(b) \/ SendNotFound(b) \/ RequestFails(b) \/ TaskGivesUp(b)
      PROVE  Goal
  BY <1>1, <1>6 DEF TakeTask, SendNotFound, RequestFails, TaskGivesUp, runs, bobs
<1>7. ASSUME NEW r \in Run, BatchDone(r) \/ BatchRaises(r)
      PROVE  Goal
  BY <1>1, <1>7 DEF BatchDone, BatchRaises, bobs
<1>8. CASE PollNotFound \/ BobLeaves \/ Eve \/ Kme
  BY <1>1, <1>8 DEF PollNotFound, BobLeaves, Eve, EveRegisters, EveGivesUp, EveCollects, EveMisses, Collects,
                    Kme, Report, Stop, runs, bobs
<1>9. CASE UNCHANGED vars
  BY <1>1, <1>9 DEF vars, runs, bobs
<1> QED BY <1>2, <1>3, <1>4, <1>5, <1>6, <1>7, <1>8, <1>9
        DEF Next, Worker, Executor, Bob, Fault

LEMMA MeasuredInit == Init => Measured
<1> SUFFICES ASSUME Init, NEW q \in Qubit
             PROVE  Copies(measQueue, q) + Copies(measurements, q) + Cardinality(Unsent(q))
                      <= sends[BatchOf(q)]
  BY DEF Measured
<1>1. Copies(measQueue, q) = 0 /\ Copies(measurements, q) = 0
  <2>1. {i \in DOMAIN << >> : << >>[i] = q} = {}
    OBVIOUS
  <2>2. Copies(<< >>, q) = 0
    BY <2>1, FS_EmptySet DEF Copies
  <2> QED BY <2>2 DEF Init
<1>2. Unsent(q) = {}
  BY BatchFacts DEF Init, Unsent, Run
<1>3. Cardinality(Unsent(q)) = 0
  BY <1>2, FS_EmptySet
<1>4. sends[BatchOf(q)] = 0
  BY BatchFacts DEF Init
<1> QED BY <1>1, <1>3, <1>4

-----------------------------------------------------------------------------
(* The faults *)

FaultsBound == \A k \in FaultKinds : faults[k] <= MaxFaults[k]

LEMMA FaultStep ==
  ASSUME [Next]_vars
  PROVE  UNCHANGED faults \/ \E kind \in FaultKinds : Strike(kind)
<1>1. ASSUME NEW b \in Batch, Worker(b) \/ RequestFails(b) \/ TaskGivesUp(b)
      PROVE  UNCHANGED faults \/ \E kind \in FaultKinds : Strike(kind)
  BY <1>1 DEF Worker, TakeTask, SendBatch, SendNotFound, RequestFails, TaskGivesUp, FaultKinds
<1>2. ASSUME NEW r \in Run, Executor(r)
      PROVE  UNCHANGED faults \/ \E kind \in FaultKinds : Strike(kind)
  BY <1>2, ProcessDoes DEF Executor, BatchDone, BatchRaises, FaultKinds
<1>3. CASE Bob \/ PollLost
  BY <1>3 DEF Bob, Poll, PollNotFound, BobLeaves, PollLost, FaultKinds
<1>4. CASE Eve \/ Kme
  BY <1>4 DEF Eve, EveRegisters, EveGivesUp, EveCollects, EveMisses, Collects, Kme, Report, Stop, FaultKinds
<1>5. CASE UNCHANGED vars
  BY <1>5 DEF vars
<1> QED BY <1>1, <1>2, <1>3, <1>4, <1>5 DEF Next, Fault

(* What is unspent after a step was so before it, and did not strike. *)
LEMMA UnspentStep ==
  ASSUME LinkOK, FaultsBound, [Next]_vars
  PROVE  /\ FaultsBound'
         /\ \A K \in SUBSET FaultKinds :
              Unspent(K)' => Unspent(K) /\ \A k \in K : ~Strike(k)
<1>1. /\ faults \in [FaultKinds -> Nat] /\ MaxFaults \in [FaultKinds -> Nat]
      /\ \A k \in FaultKinds : faults[k] <= MaxFaults[k]
  BY LinkAssumption DEF LinkOK, FaultsBound
<1>2. \A k \in FaultKinds : faults'[k] \in Int /\ faults'[k] <= faults[k]
  <2>1. CASE UNCHANGED faults
    BY <1>1, <2>1
  <2>2. CASE \E kind \in FaultKinds : Strike(kind)
    BY <1>1, <2>2 DEF Strike
  <2> QED BY <2>1, <2>2, FaultStep
<1>3. FaultsBound'
  <2> SUFFICES ASSUME NEW k \in FaultKinds
               PROVE  faults'[k] <= MaxFaults[k]
    BY DEF FaultsBound
  <2> QED BY <1>1, <1>2
<1>4. ASSUME NEW K \in SUBSET FaultKinds, Unspent(K)', NEW k \in K
      PROVE  faults[k] = MaxFaults[k] /\ ~Strike(k)
  <2>1. k \in FaultKinds /\ faults'[k] = MaxFaults[k]
    BY <1>4 DEF Unspent
  <2>2. faults[k] = MaxFaults[k]
    BY <1>1, <1>2, <2>1
  <2>3. ASSUME Strike(k)
        PROVE  FALSE
    BY <1>1, <2>1, <2>2, <2>3 DEF Strike
  <2> QED BY <2>2, <2>3
<1> QED BY <1>3, <1>4 DEF Unspent

-----------------------------------------------------------------------------
(* Without a cancellation and without a call that runs out of time, every  *)
(* batch is sent once, and the link is up until the outcome is reported.   *)

Undisturbed == Unspent({"request", "stop"})

SentOnce ==
  /\ filed \/ reported
  /\ reported => bob = "over" /\ \A b \in Batch : task[b] = "done"
  /\ \A b \in Batch : /\ task[b] # "failed"
                      /\ sends[b] = IF task[b] \in {"waiting", "done"} THEN 1 ELSE 0
  /\ \A r \in going : r[2] = 1 /\ task[r[1]] = "waiting"

LEMMA HeadIsQueued ==
  ASSUME TasksOK, queued # << >>
  PROVE  task[Head(queued)] = "queued"
<1> DEFINE b == Head(queued)
<1>1. queued \in Seq(Batch) /\ b \in Batch /\ Tail(queued) \in Seq(Batch)
  BY HeadTailProperties DEF TasksOK
<1>2. Copies(queued, b) = Copies(Tail(queued), b) + 1
  BY <1>1, CopiesTail
<1>3. Copies(Tail(queued), b) \in Nat
  BY <1>1, CopiesZero
<1>4. Copies(queued, b) = IF task[b] = "queued" THEN 1 ELSE 0
  BY <1>1 DEF TasksOK
<1> QED BY <1>2, <1>3, <1>4

LEMMA SentOnceStep ==
  ASSUME TasksOK, RunsOK, LinkOK, SentOnce, [Next]_vars, ~Strike("request"), ~Strike("stop")
  PROVE  SentOnce'
<1>0. /\ task \in [Batch -> {"queued", "started", "waiting", "done", "failed"}]
      /\ sends \in [Batch -> 0..(MaxRetries + 1)] /\ going \subseteq Run
      /\ \A r \in Run : r = <<r[1], r[2]>> /\ r[1] \in Batch
  BY RunIs DEF TasksOK, RunsOK
<1>1. ASSUME NEW b \in Batch, TakeTask(b)
      PROVE  SentOnce'
  <2>1. /\ task[b] = "queued" /\ task' = [task EXCEPT ![b] = "started"]
        /\ UNCHANGED <<sends, going, filed, bob, reported>>
    BY <1>1, HeadIsQueued DEF TakeTask, runs, bobs
  <2> QED BY <1>0, <2>1 DEF SentOnce
<1>2. ASSUME NEW b \in Batch, SendBatch(b)
      PROVE  SentOnce'
  <2>1. /\ task[b] = "started" /\ task' = [task EXCEPT ![b] = "waiting"]
        /\ sends' = [sends EXCEPT ![b] = @ + 1] /\ going' = going \cup {<<b, sends'[b]>>}
        /\ UNCHANGED <<filed, bob, reported>>
    BY <1>2 DEF SendBatch, bobs
  <2>2. sends[b] = 0
    BY <2>1 DEF SentOnce
  <2>3. sends'[b] = 1 /\ going' = going \cup {<<b, 1>>}
    BY <1>0, <2>1, <2>2
  <2>4. \A r \in going' : r[2] = 1 /\ task'[r[1]] = "waiting"
    BY <1>0, <2>1, <2>3 DEF SentOnce
  <2> QED BY <1>0, <2>1, <2>3, <2>4 DEF SentOnce
<1>3. ASSUME NEW b \in Batch, SendNotFound(b) \/ RequestFails(b) \/ TaskGivesUp(b)
      PROVE  FALSE
  BY <1>3 DEF SendNotFound, RequestFails, TaskGivesUp, SentOnce
<1>4. ASSUME NEW r \in Run, BatchDone(r)
      PROVE  SentOnce'
  <2>1. /\ r \in going /\ going' = going \ {r}
        /\ UNCHANGED <<sends, filed, bob, reported>>
    BY <1>4 DEF BatchDone, bobs
  <2>2. Waits(r)
    BY <1>0, <2>1 DEF SentOnce, Waits
  <2>3. task' = [task EXCEPT ![r[1]] = "done"] /\ task[r[1]] = "waiting" /\ r[2] = 1
    BY <1>4, <2>1, <2>2 DEF BatchDone, SentOnce
  <2>4. ASSUME NEW p \in going'
        PROVE  p[2] = 1 /\ task'[p[1]] = "waiting"
    <3>1. p \in going /\ p # r /\ p[2] = 1 /\ task[p[1]] = "waiting"
      BY <2>1, <2>4 DEF SentOnce
    <3>2. p[1] # r[1]
      BY <1>0, <2>1, <2>3, <3>1
    <3> QED BY <1>0, <2>3, <3>1, <3>2
  <2> QED BY <1>0, <2>1, <2>3, <2>4 DEF SentOnce
<1>5. ASSUME NEW r \in Run, BatchRaises(r)
      PROVE  FALSE
  <2>1. r \in going /\ ~filed /\ r[1] \in Batch
    BY <1>0, <1>5 DEF BatchRaises
  <2> QED BY <2>1 DEF SentOnce
<1>6. ASSUME NEW r \in Run, NEW q \in Qubit, Process(r, q)
      PROVE  SentOnce'
  <2>1. UNCHANGED <<task, sends, going, filed, bob, reported>>
    BY <1>6, ProcessDoes DEF tasks, bobs
  <2> QED BY <2>1 DEF SentOnce
<1>7. CASE Bob \/ PollLost
  <2>1. UNCHANGED <<task, sends, going, filed, reported>> /\ bob = "polls"
    BY <1>7 DEF Bob, Poll, PollNotFound, BobLeaves, PollLost, tasks, runs
  <2> QED BY <2>1 DEF SentOnce
<1>8. CASE Eve
  BY <1>8 DEF Eve, EveRegisters, EveGivesUp, EveCollects, EveMisses, Collects, tasks, runs, bobs, SentOnce
<1>9. CASE Kme
  BY <1>9 DEF Kme, Report, Stop, tasks, runs, bobs, SentOnce
<1>10. CASE UNCHANGED vars
  BY <1>10 DEF vars, tasks, runs, bobs, SentOnce
<1> QED BY <1>1, <1>2, <1>3, <1>4, <1>5, <1>6, <1>7, <1>8, <1>9, <1>10
        DEF Next, Worker, Executor, Fault

(* What was intercepted is in the queue until Eve asks, and in her log      *)
(* afterwards, as long as she is given the time and the answer.            *)
EveServed ==
  /\ eveSeen = IF collected THEN eveLog ELSE eveQueue
  /\ ~collected => eveLog = {}
  /\ collected => reported
  /\ filed \/ eve = "absent" \/ collected

LEMMA EveServedStep ==
  ASSUME RunsOK, SentOnce, EveServed, [Next]_vars, ~Strike("stop"), ~Strike("eve")
  PROVE  EveServed'
<1>1. ASSUME NEW b \in Batch, Worker(b) \/ RequestFails(b) \/ TaskGivesUp(b)
      PROVE  EveServed'
  BY <1>1 DEF Worker, TakeTask, SendBatch, SendNotFound, RequestFails, TaskGivesUp, eves, tap, EveServed
<1>2. ASSUME NEW r \in Run, BatchDone(r) \/ BatchRaises(r)
      PROVE  EveServed'
  BY <1>2 DEF BatchDone, BatchRaises, eves, tap, EveServed
<1>3. ASSUME NEW r \in Run, NEW q \in Qubit, Process(r, q)
      PROVE  EveServed'
  <2>1. /\ r \in going /\ UNCHANGED <<filed, eves, reported>>
        /\ \/ UNCHANGED tap
           \/ eveQueue' = eveQueue \cup {q} /\ eveSeen' = eveSeen \cup {q}
    BY <1>3, ProcessDoes
  <2>2. ~reported
    BY <2>1, RunIs DEF SentOnce
  <2> QED BY <2>1, <2>2 DEF EveServed, eves, tap
<1>4. CASE Bob \/ PollLost
  BY <1>4 DEF Bob, Poll, PollNotFound, BobLeaves, PollLost, eves, tap, EveServed
<1>5. CASE EveRegisters \/ EveGivesUp
  BY <1>5 DEF EveRegisters, EveGivesUp, EveServed, tap
<1>6. CASE EveCollects
  <2>1. filed /\ ~collected /\ reported
    BY <1>6 DEF EveCollects, Collects, EveServed
  <2>2. /\ eveLog' = eveLog \cup eveQueue /\ collected' = TRUE
        /\ UNCHANGED <<eveSeen, eve, filed, reported>>
    BY <1>6, <2>1 DEF EveCollects, Collects
  <2> QED BY <2>1, <2>2 DEF EveServed
<1>7. CASE EveMisses
  BY <1>7 DEF EveMisses
<1>8. CASE Kme
  BY <1>8 DEF Kme, Report, Stop, eves, tap, EveServed
<1>9. CASE UNCHANGED vars
  BY <1>9 DEF vars, eves, tap, EveServed
<1> QED BY <1>1, <1>2, <1>3, <1>4, <1>5, <1>6, <1>7, <1>8, <1>9 DEF Next, Executor, Fault, Eve

-----------------------------------------------------------------------------
(* What is delivered and what is measured, if moreover no answer of a poll *)
(* is lost and Bob does not lose patience                                  *)

InResults(q) == \E r \in Run : q \in results[r]
InList(s, q) == Copies(s, q) > 0

Delivery ==
  /\ \A q \in Qubit : InResults(q) <=> InList(measQueue, q) \/ InList(measurements, q)
  /\ \A q \in Qubit : q \in delivered <=> \E r \in Run : q \in results[r] /\ task[r[1]] = "done"
  /\ bob = "over" => \/ Quiet /\ \A q \in Qubit : ~InList(measQueue, q)
                     \/ \A q \in Qubit : InList(measurements, q)

(* A list of n_qubits different qubits has all of them. *)
LEMMA FullList ==
  ASSUME NEW s \in Seq(Qubit), \A q \in Qubit : Copies(s, q) <= 1, Len(s) >= NQubits,
         NEW x \in Qubit
  PROVE  InList(s, x)
<1>0. NQubits \in Nat \ {0} /\ Len(s) \in Nat /\ s \in [1..Len(s) -> Qubit]
  BY LinkAssumption, LenProperties
<1>1. ASSUME NEW i \in 1..Len(s), NEW j \in 1..Len(s), s[i] = s[j], i # j
      PROVE  FALSE
  <2>1. {i, j} \subseteq At(s, s[i]) /\ s[i] \in Qubit
    BY <1>0, <1>1 DEF At
  <2>2. IsFiniteSet({i}) /\ Cardinality({i}) = 1
    BY FS_Singleton
  <2>3. Cardinality({i} \cup {j}) = 2
    <3>1. j \notin {i}
      BY <1>1
    <3>2. Cardinality({i} \cup {j}) = Cardinality({i}) + 1
      BY <2>2, <3>1, FS_AddElement
    <3>3. Cardinality({i}) = 1
      BY <2>2
    <3>4. \A c \in Int : c = 1 => c + 1 = 2
      OBVIOUS
    <3>5. Cardinality({i}) + 1 = 2
      BY <3>3, <3>4
    <3> QED BY <3>2, <3>5, Zenon
  <2>4. {i} \cup {j} \in SUBSET At(s, s[i])
    BY <2>1
  <2>5. IsFiniteSet(At(s, s[i])) /\ Cardinality(At(s, s[i])) \in Nat
        /\ Copies(s, s[i]) = Cardinality(At(s, s[i]))
    BY AtFinite
  <2>6. 2 <= Cardinality(At(s, s[i]))
    BY <2>3, <2>4, <2>5, FS_Subset
  <2> QED BY <2>1, <2>5, <2>6
<1>2. s \in Injection(1..Len(s), Qubit)
  BY <1>0, <1>1, Fun_IsInj
<1>3. /\ IsFiniteSet(Qubit) /\ Cardinality(Qubit) = NQubits
      /\ IsFiniteSet(1..Len(s)) /\ Cardinality(1..Len(s)) = Len(s)
  <2>1. IsFiniteSet(0..(NQubits - 1)) /\ Cardinality(0..(NQubits - 1)) = NQubits
    <3>1. NQubits - 1 \in Int /\ ~(0 > NQubits - 1) /\ NQubits - 1 - 0 + 1 = NQubits
      BY <1>0
    <3> QED BY <3>1, FS_Interval
  <2>2. IsFiniteSet(1..Len(s)) /\ Cardinality(1..Len(s)) = Len(s)
    BY <1>0, FS_Interval
  <2> QED BY <2>1, <2>2 DEF Qubit
<1>4. /\ Cardinality(1..Len(s)) <= Cardinality(Qubit)
      /\ Cardinality(1..Len(s)) = Cardinality(Qubit) <=> s \in Surjection(1..Len(s), Qubit)
  BY <1>2, <1>3, FS_Injection
<1>5. s \in Surjection(1..Len(s), Qubit)
  BY <1>0, <1>3, <1>4
<1>6. \E i \in 1..Len(s) : s[i] = x
  BY <1>5 DEF Surjection
<1> QED BY <1>6, CopiesZero DEF InList

LEMMA InAppend ==
  ASSUME NEW s \in Seq(Qubit), NEW x \in Qubit, NEW q \in Qubit
  PROVE  InList(Append(s, x), q) <=> InList(s, q) \/ q = x
<1>1. Copies(Append(s, x), q) = Copies(s, q) + (IF x = q THEN 1 ELSE 0) /\ Copies(s, q) \in Nat
  BY CopiesAppend, CopiesZero
<1> QED BY <1>1 DEF InList

LEMMA InTail ==
  ASSUME NEW s \in Seq(Qubit), s # << >>, NEW q \in Qubit
  PROVE  InList(s, q) <=> InList(Tail(s), q) \/ q = Head(s)
<1>1. Tail(s) \in Seq(Qubit)
  BY HeadTailProperties
<1>2. Copies(Tail(s), q) \in Nat
  BY <1>1, CopiesZero
<1>3. Copies(s, q) = Copies(Tail(s), q) + (IF Head(s) = q THEN 1 ELSE 0)
  BY CopiesTail
<1> QED BY <1>2, <1>3 DEF InList

LEMMA DeliveryStep ==
  ASSUME TasksOK, RunsOK, LinkOK, LinkOK', TasksOK', SentOnce, SentOnce', Measured', Delivery,
         [Next]_vars, \A k \in {"request", "bob", "stop"} : ~Strike(k)
  PROVE  Delivery'
<1>0. /\ task \in [Batch -> {"queued", "started", "waiting", "done", "failed"}]
      /\ results \in [Run -> SUBSET Qubit]
      /\ measQueue \in Seq(Qubit) /\ measurements \in Seq(Qubit)
      /\ \A r \in Run : r = <<r[1], r[2]>> /\ r[1] \in Batch
  BY RunIs DEF TasksOK, RunsOK, LinkOK
<1>1. ASSUME UNCHANGED <<results, delivered, measQueue, measurements, bob, going>>,
             \A b \in Batch : task'[b] # task[b] => /\ task[b] \notin {"done", "failed"}
                                                    /\ task'[b] \notin {"done", "failed"}
      PROVE  Delivery'
  <2>1. Quiet => Quiet'
    BY <1>1 DEF Quiet, Settled
  <2>2. \A r \in Run : task'[r[1]] = "done" <=> task[r[1]] = "done"
    BY <1>0, <1>1
  <2> QED BY <1>1, <2>1, <2>2 DEF Delivery, InResults, InList, Copies
<1>2. ASSUME NEW b \in Batch, TakeTask(b)
      PROVE  Delivery'
  <2>1. /\ task[b] = "queued" /\ task' = [task EXCEPT ![b] = "started"]
        /\ UNCHANGED <<results, delivered, measQueue, measurements, bob, going>>
    BY <1>2, HeadIsQueued DEF TakeTask, runs, bobs
  <2> QED BY <1>0, <1>1, <2>1
<1>3. ASSUME NEW b \in Batch, SendBatch(b)
      PROVE  Delivery'
  <2>1. /\ task[b] = "started" /\ task' = [task EXCEPT ![b] = "waiting"]
        /\ UNCHANGED <<results, delivered, measQueue, measurements, bob>>
    BY <1>3 DEF SendBatch, bobs
  <2>2. ~Quiet
    BY <2>1 DEF Quiet, Settled
  <2>3. \A r \in Run : task'[r[1]] = "done" <=> task[r[1]] = "done"
    BY <1>0, <2>1
  <2> QED BY <2>1, <2>2, <2>3 DEF Delivery, InResults, InList, Copies
<1>4. ASSUME NEW b \in Batch, SendNotFound(b) \/ RequestFails(b) \/ TaskGivesUp(b)
      PROVE  FALSE
  BY <1>4 DEF SendNotFound, RequestFails, TaskGivesUp, SentOnce
<1>5. ASSUME NEW r \in Run, BatchRaises(r)
      PROVE  FALSE
  <2>1. r \in going /\ ~filed /\ r[1] \in Batch
    BY <1>0, <1>5 DEF BatchRaises
  <2> QED BY <2>1 DEF SentOnce
<1>6. ASSUME NEW r \in Run, BatchDone(r)
      PROVE  Delivery'
  <2>1. /\ r \in going /\ going' = going \ {r} /\ r[2] = 1
        /\ UNCHANGED <<results, measQueue, measurements, bob>>
        /\ task[r[1]] = "waiting" /\ sends[r[1]] = 1
    BY <1>0, <1>6 DEF BatchDone, bobs, SentOnce
  <2>2. task' = [task EXCEPT ![r[1]] = "done"] /\ delivered' = delivered \cup results[r]
    BY <1>6, <2>1 DEF BatchDone, Waits
  <2>3. ASSUME NEW p \in Run, p[1] = r[1], p # r
        PROVE  results[p] = {}
    <3>1. p[2] # 1 /\ p[2] \in Nat /\ p[2] >= 1
      BY <1>0, <2>1, <2>3, RunIs
    <3>2. p[2] > sends[p[1]]
      BY <2>1, <2>3, <3>1
    <3> QED BY <3>2 DEF RunsOK, Asked
  <2>4. ASSUME NEW q \in Qubit
        PROVE  q \in delivered' <=> \E p \in Run : q \in results'[p] /\ task'[p[1]] = "done"
    <3>1. \A p \in Run : task'[p[1]] = "done" <=> task[p[1]] = "done" \/ p[1] = r[1]
      BY <1>0, <2>2
    <3>2. q \in delivered <=> \E p \in Run : q \in results[p] /\ task[p[1]] = "done"
      BY DEF Delivery
    <3> QED BY <2>1, <2>2, <2>3, <3>1, <3>2
  <2>5. ~Quiet
    BY <1>0, <2>1 DEF Quiet, Settled
  <2> QED BY <2>1, <2>4, <2>5 DEF Delivery, InResults, InList, Copies
<1>7. ASSUME NEW r \in Run, NEW q \in Qubit, Process(r, q)
      PROVE  Delivery'
  <2>1. /\ r \in going /\ task[r[1]] = "waiting" /\ ~Quiet
        /\ UNCHANGED <<task, delivered, measurements, bob>>
    BY <1>7, ProcessDoes DEF SentOnce, Quiet, tasks, bobs
  <2>2. CASE UNCHANGED <<measQueue, results>>
    BY <2>1, <2>2 DEF Delivery, InResults, InList, Copies
  <2>3. CASE Push(r, q)
    <3>1. measQueue' = Append(measQueue, q) /\ results' = [results EXCEPT ![r] = @ \cup {q}]
      BY <2>3 DEF Push
    <3>2. ASSUME NEW x \in Qubit
          PROVE  /\ InResults(x)' <=> InResults(x) \/ x = q
                 /\ InList(measQueue', x) <=> InList(measQueue, x) \/ x = q
      <4>1. InResults(x)' <=> InResults(x) \/ x = q
        BY <1>0, <3>1 DEF InResults
      <4> QED BY <1>0, <3>1, <4>1, InAppend
    <3>3. \A p \in Run : task[p[1]] = "done" => results'[p] = results[p]
      BY <1>0, <2>1, <3>1
    <3>4. \A x \in Qubit : InResults(x)' <=> InList(measQueue', x) \/ InList(measurements', x)
      BY <2>1, <3>2 DEF Delivery, InList, Copies
    <3>5. \A x \in Qubit : x \in delivered' <=>
            \E p \in Run : x \in results'[p] /\ task'[p[1]] = "done"
      BY <2>1, <3>3 DEF Delivery
    <3>6. bob' = "over" => \A x \in Qubit : InList(measurements', x)
      BY <2>1 DEF Delivery, InList, Copies
    <3> QED BY <3>4, <3>5, <3>6 DEF Delivery, InList, Copies
  <2> QED BY <1>7, <2>2, <2>3, ProcessDoes
<1>8. CASE Poll
  <2>1. /\ measQueue # << >> /\ measQueue' = Tail(measQueue)
        /\ measurements' = Append(measurements, Head(measQueue))
        /\ bob' = IF Len(measurements') < NQubits THEN "polls" ELSE "over"
        /\ UNCHANGED <<task, delivered, results>>
    BY <1>8 DEF Poll, runs, tasks
  <2>2. Head(measQueue) \in Qubit
    BY <1>0, <2>1, HeadTailProperties
  <2>3. ASSUME NEW x \in Qubit
        PROVE  /\ InList(measQueue, x) <=> InList(measQueue', x) \/ x = Head(measQueue)
               /\ InList(measurements', x) <=> InList(measurements, x) \/ x = Head(measQueue)
    BY <1>0, <2>1, <2>2, InTail, InAppend
  <2>4. \A x \in Qubit : InResults(x)' <=> InList(measQueue', x) \/ InList(measurements', x)
    BY <2>1, <2>3 DEF Delivery, InResults
  <2>5. \A x \in Qubit : x \in delivered' <=>
          \E p \in Run : x \in results'[p] /\ task'[p[1]] = "done"
    BY <2>1 DEF Delivery
  <2>6. ASSUME bob' = "over", NEW x \in Qubit
        PROVE  InList(measurements', x)
    <3>1. measurements' \in Seq(Qubit) /\ Len(measurements') \in Nat /\ NQubits \in Nat
      BY LenProperties, LinkAssumption DEF LinkOK
    <3>2. Len(measurements') >= NQubits
      BY <2>1, <2>6, <3>1
    <3>3. ASSUME NEW q \in Qubit
          PROVE  Copies(measurements', q) <= 1
      <4>1. BatchOf(q) \in Batch
        BY BatchFacts
      <4>2. sends'[BatchOf(q)] \in {0, 1}
        BY <4>1 DEF SentOnce
      <4>3. Copies(measQueue', q) + Copies(measurements', q) + Cardinality(Unsent(q)')
              <= sends'[BatchOf(q)]
        BY DEF Measured, Copies
      <4>4. Copies(measQueue', q) \in Nat /\ Copies(measurements', q) \in Nat
        BY CopiesZero DEF LinkOK
      <4>5. Cardinality(Unsent(q)') \in Nat
        <5>1. (Cardinality(Unsent(q)) \in Nat)'
          BY UnsentFinite, PTL
        <5> QED BY <5>1
      <4> QED BY <4>2, <4>3, <4>4, <4>5
    <3> QED BY <3>1, <3>2, <3>3, FullList
  <2> QED BY <2>4, <2>5, <2>6 DEF Delivery, InList, Copies
<1>9. CASE PollLost
  BY <1>9 DEF PollLost
<1>10. CASE PollNotFound
  BY <1>10 DEF PollNotFound, SentOnce
<1>11. CASE BobLeaves
  <2>1. /\ measQueue = << >> /\ Quiet
        /\ UNCHANGED <<task, going, results, delivered, measQueue, measurements>>
    BY <1>11 DEF BobLeaves, tasks, runs
  <2>2. \A q \in Qubit : ~InList(measQueue, q)
    <3>1. {i \in DOMAIN << >> : FALSE} = {} /\ Cardinality({}) = 0
      BY FS_EmptySet
    <3>2. \A q : {i \in DOMAIN << >> : << >>[i] = q} = {}
      OBVIOUS
    <3> QED BY <2>1, <3>1, <3>2 DEF InList, Copies
  <2>3. Quiet'
    BY <2>1 DEF Quiet, Settled
  <2> QED BY <2>1, <2>2, <2>3 DEF Delivery, InResults, InList, Copies
<1>12. CASE Eve \/ Kme
  BY <1>1, <1>12 DEF Eve, EveRegisters, EveGivesUp, EveCollects, EveMisses, Collects, Kme, Report, Stop, tasks, runs, bobs
<1>13. CASE UNCHANGED vars
  BY <1>1, <1>13 DEF vars, tasks, runs, bobs
<1> QED BY <1>2, <1>3, <1>4, <1>5, <1>6, <1>7, <1>8, <1>9, <1>10, <1>11, <1>12, <1>13
        DEF Next, Worker, Executor, Bob, Fault

-----------------------------------------------------------------------------
(* The theorems *)

Undelayed == Unspent({"request", "bob", "stop"})

LinkInv ==
  /\ TasksOK /\ RunsOK /\ LinkOK /\ FaultsBound /\ Measured
  /\ Undisturbed => SentOnce
  /\ Undisturbed /\ Unspent({"eve"}) => EveServed
  /\ Undelayed => Delivery

LEMMA LinkInvInit == Init => LinkInv
<1> SUFFICES ASSUME Init
             PROVE  LinkInv
  OBVIOUS
<1>1. TasksOK /\ RunsOK /\ LinkOK /\ Measured
  BY TasksInit, RunsInit, MeasuredInit
<1>2. FaultsBound
  BY LinkAssumption DEF Init, FaultsBound
<1>3. SentOnce /\ EveServed
  BY DEF Init, SentOnce, EveServed
<1>4. Delivery
  <2>1. ASSUME NEW q \in Qubit
        PROVE  ~InList(measQueue, q) /\ ~InList(measurements, q)
    <3>1. {i \in DOMAIN << >> : << >>[i] = q} = {}
      OBVIOUS
    <3>2. Copies(<< >>, q) = 0
      BY <3>1, FS_EmptySet DEF Copies
    <3> QED BY <3>2 DEF Init, InList
  <2> QED BY <2>1 DEF Init, Delivery, InResults
<1> QED BY <1>1, <1>2, <1>3, <1>4 DEF LinkInv

LEMMA LinkInvStep == LinkInv /\ [Next]_vars => LinkInv'
<1> SUFFICES ASSUME LinkInv, [Next]_vars
             PROVE  LinkInv'
  OBVIOUS
<1>1. TasksOK /\ RunsOK /\ LinkOK /\ FaultsBound /\ Measured
  BY DEF LinkInv
<1>2. TasksOK' /\ LinkOK'
  BY <1>1, TasksStep, LinkStep
<1>3. RunsOK' /\ Measured' /\ FaultsBound'
  BY <1>1, <1>2, RunsStep, MeasuredStep, UnspentStep
<1>4. ASSUME NEW K \in SUBSET FaultKinds, Unspent(K)'
      PROVE  Unspent(K) /\ \A k \in K : ~Strike(k)
  BY <1>1, <1>4, UnspentStep
<1>5. ASSUME Undisturbed'
      PROVE  Undisturbed /\ ~Strike("request") /\ ~Strike("stop") /\ SentOnce /\ SentOnce'
  <2>1. Undisturbed /\ ~Strike("request") /\ ~Strike("stop")
    BY <1>4, <1>5 DEF Undisturbed, FaultKinds
  <2> QED BY <1>1, <2>1, SentOnceStep DEF LinkInv
<1>6. ASSUME Undisturbed', Unspent({"eve"})'
      PROVE  EveServed'
  <2>1. Unspent({"eve"}) /\ ~Strike("eve")
    BY <1>4, <1>6 DEF FaultKinds
  <2> QED BY <1>1, <1>5, <1>6, <2>1, EveServedStep DEF LinkInv
<1>7. ASSUME Undelayed'
      PROVE  Delivery'
  <2>1. Undelayed /\ \A k \in {"request", "bob", "stop"} : ~Strike(k)
    BY <1>4, <1>7 DEF Undelayed, FaultKinds
  <2>2. Undisturbed'
    BY <1>7 DEF Undelayed, Undisturbed, Unspent
  <2> QED BY <1>1, <1>2, <1>3, <1>5, <2>1, <2>2, DeliveryStep DEF LinkInv
<1> QED BY <1>2, <1>3, <1>5, <1>6, <1>7 DEF LinkInv

LEMMA LinkInvHolds == Spec => []LinkInv
BY LinkInvInit, LinkInvStep, PTL DEF Spec

(* The state keeps its types: a task is queued once or not at all, and the *)
(* requests of a batch are no more than its retries allow.                 *)
THEOREM TypeCorrect == Spec => []TypeOK
<1>1. LinkInv => TypeOK
  BY DEF LinkInv, TasksOK, RunsOK, LinkOK, TypeOK, Copies
<1> QED BY <1>1, LinkInvHolds, PTL

(* A qubit is measured at most as often as its batch was sent, whatever    *)
(* calls fail, are answered late or are lost.                              *)
THEOREM MeasuredAsSent == Spec => []OneMeasurementPerSend
<1>1. LinkInv => OneMeasurementPerSend
  <2> SUFFICES ASSUME LinkInv, NEW q \in Qubit
               PROVE  Copies(measQueue, q) + Copies(measurements, q) <= sends[BatchOf(q)]
    BY DEF OneMeasurementPerSend
  <2>1. Copies(measQueue, q) + Copies(measurements, q) + Cardinality(Unsent(q)) <= sends[BatchOf(q)]
    BY DEF LinkInv, Measured
  <2> QED BY <2>1, CountTypes DEF LinkInv
<1> QED BY <1>1, LinkInvHolds, PTL

(* What the tasks report as delivered is what Bob has, once both are over, *)
(* as long as no call fails, nobody cancels and Bob keeps his patience.    *)
THEOREM DeliveredAgrees == Spec => []DeliveredIsMeasured
<1>1. LinkInv => DeliveredIsMeasured
  <2> SUFFICES ASSUME LinkInv, Undelayed, bob = "over", \A b \in Batch : task[b] = "done"
               PROVE  delivered = {q \in Qubit : Copies(measurements, q) > 0}
    BY DEF DeliveredIsMeasured, Undelayed
  <2>1. Delivery /\ delivered \subseteq Qubit
    BY DEF LinkInv, LinkOK
  <2>2. ASSUME NEW q \in Qubit
        PROVE  q \in delivered <=> InList(measurements, q)
    <3>1. q \in delivered <=> InResults(q)
      BY <2>1, RunIs DEF Delivery, InResults
    <3> QED BY <2>1, <3>1 DEF Delivery
  <2> QED BY <2>1, <2>2 DEF InList
<1> QED BY <1>1, LinkInvHolds, PTL

(* When Eve has asked for her measurements in time and was answered, her   *)
(* log has exactly the qubits that were intercepted (_collect_measurements *)
(* of eve/main.py and the queue of the QKDL), unless a request failed or   *)
(* the session was cancelled: no request can add to the queue any more.    *)
THEOREM EveLogIsComplete == Spec => []EveLogComplete
<1>1. LinkInv => EveLogComplete
  BY DEF LinkInv, EveServed, EveLogComplete, Undisturbed, Unspent
<1> QED BY <1>1, LinkInvHolds, PTL
=============================================================================
