----------------------------- MODULE QuantumLink -----------------------------
(***************************************************************************)
(* The transmission of one session's qubits: Alice's Celery tasks QTT send *)
(* them in batches (src/workers/qubit_tasks.py), the QKDL passes each      *)
(* qubit through the optical channel, Eve and QuNetSim and queues what was *)
(* measured (src/qunetsim_service.py), Bob polls that queue                *)
(* (src/nodes/bob/main.py), and Eve registers and collects her log         *)
(* (src/nodes/eve/main.py).                                                *)
(*                                                                         *)
(* A request runs in a thread of the QKDL's executor, qubit by qubit under *)
(* _qns_lock, whether or not the task that made it still waits.  What a    *)
(* qubit carries does not matter here: a measurement is its qubit_id.      *)
(***************************************************************************)
EXTENDS Integers, Sequences, FiniteSets

CONSTANTS
  NQubits,     \* n_qubits
  BatchSize,   \* batch_size
  Workers,     \* --concurrency of the session's worker
  MaxRetries,  \* max_retries of send_batch_task
  Channels,    \* the kinds of channel the session's parameters may ask for
  Intercepted, \* the session was created with an interceptor
  MaxFaults    \* bound: how often each kind of fault may strike

(* A failed request or task, a failed poll or an impatient Bob, a failed    *)
(* collection, a stop that is too early.                                   *)
FaultKinds == {"request", "bob", "eve", "stop"}

ASSUME LinkAssumption ==
  /\ NQubits \in Nat \ {0} /\ BatchSize \in Nat \ {0}
  /\ Workers \in Nat \ {0} /\ MaxRetries \in Nat
  /\ Channels \subseteq {"fiber", "statistical"} /\ Intercepted \in BOOLEAN
  /\ MaxFaults \in [FaultKinds -> Nat]

Qubit      == 0..(NQubits - 1)
BatchOf(q) == q \div BatchSize
Batch      == {BatchOf(q) : q \in Qubit}
Run        == Batch \X (1..(MaxRetries + 1))  \* the n-th request of a batch

PulsePeriod == 1000  \* PULSE_PERIOD_NS
DeadTime    == 50    \* dead_time_ns
Never       == -1

VARIABLES
  queued,     \* the session's Celery queue: batches, oldest first
  task,       \* the QTT task of each batch
  retries,    \* its request.retries
  sends,      \* how many of its requests reached the QKDL
  going,      \* the requests that are being worked off
  todo,       \* the qubits each of them has still to send
  results,    \* the qubits it reports as delivered
  delivered,  \* what the tasks of the chord have returned as delivered
  filed,      \* the session is in the QKDL's _sessions
  optics,     \* the session's channel: FiberChannel or StatisticalChannel
  lastClick,  \* the detector's _last_click_ns, in slots
  measQueue,  \* _meas_queue
  bob,        \* Bob's receive loop: "polls" or "over"
  measurements, \* his list of the qubits he got, in order
  eve,        \* Eve's registration: "absent", "told", "registered", "gaveUp"
  collected,  \* she has asked for her measurements
  eveLog,     \* meas_log: the qubits of the records she got
  tapped,     \* _eve_registered
  eveQueue,   \* _eve_meas_queue
  eveSeen,    \* history: the qubits that were intercepted
  reported,   \* NT has told the KME
  faults      \* how many faults of each kind are left

tasks   == <<queued, task, retries, delivered>>
runs    == <<sends, going, todo, results>>
channel == <<optics, lastClick>>
bobs    == <<bob, measurements>>
eves    == <<eve, collected, eveLog, tapped>>
tap     == <<eveQueue, eveSeen>>
vars    == <<tasks, runs, filed, channel, measQueue, bobs, eves, tap,
             reported, faults>>

(* Alice has dispatched the chord and Bob has joined; the link is up. *)
Init ==
  /\ queued = [i \in 1..Cardinality(Batch) |-> i - 1]
  /\ task = [b \in Batch |-> "queued"]
  /\ retries = [b \in Batch |-> 0]
  /\ sends = [b \in Batch |-> 0]
  /\ going = {}
  /\ todo = [r \in Run |-> {}] /\ results = [r \in Run |-> {}]
  /\ delivered = {}
  /\ filed = TRUE
  /\ optics \in Channels /\ lastClick = Never
  /\ measQueue = <<>>
  /\ bob = "polls" /\ measurements = <<>>
  /\ eve = (IF Intercepted THEN "told" ELSE "absent") /\ collected = FALSE
  /\ eveLog = {} /\ tapped = FALSE /\ eveQueue = {} /\ eveSeen = {}
  /\ reported = FALSE
  /\ faults = MaxFaults

Strike(kind) ==
  /\ faults[kind] > 0
  /\ faults' = [faults EXCEPT ![kind] = @ - 1]

-----------------------------------------------------------------------------
(* send_batch_task *)

Busy     == {b \in Batch : task[b] \in {"started", "waiting"}}
Waits(r) == task[r[1]] = "waiting" /\ sends[r[1]] = r[2]

(* A free process of the worker takes the oldest task. *)
TakeTask(b) ==
  /\ queued # <<>> /\ b = Head(queued) /\ Cardinality(Busy) < Workers
  /\ queued' = Tail(queued) /\ task' = [task EXCEPT ![b] = "started"]
  /\ UNCHANGED <<retries, delivered, runs, filed, channel, measQueue>>
  /\ UNCHANGED <<bobs, eves, tap, reported, faults>>

(* Mutant: retries are not counted. *)
RetryUncounted(b) ==
  /\ task' = [task EXCEPT ![b] = "queued"]
  /\ queued' = Append(queued, b)
  /\ UNCHANGED <<retries, delivered>>

(* Mutant: one retry too many. *)
RetryOffByOne(b) ==
  /\ IF retries[b] <= MaxRetries
     THEN /\ task' = [task EXCEPT ![b] = "queued"]
          /\ queued' = Append(queued, b)
          /\ retries' = [retries EXCEPT ![b] = @ + 1]
     ELSE /\ task' = [task EXCEPT ![b] = "failed"]
          /\ UNCHANGED <<queued, retries>>
  /\ UNCHANGED delivered

(* self.retry: the task is queued once more or has failed for good. *)
Retry(b) ==
  /\ IF retries[b] < MaxRetries
     THEN /\ task' = [task EXCEPT ![b] = "queued"]
          /\ queued' = Append(queued, b)
          /\ retries' = [retries EXCEPT ![b] = @ + 1]
     ELSE /\ task' = [task EXCEPT ![b] = "failed"]
          /\ UNCHANGED <<queued, retries>>
  /\ UNCHANGED delivered

(* The request reaches send_batch, which hands it to the executor ... *)
SendBatch(b) ==
  /\ task[b] = "started" /\ filed
  /\ task' = [task EXCEPT ![b] = "waiting"]
  /\ sends' = [sends EXCEPT ![b] = @ + 1]
  /\ going' = going \cup {<<b, sends'[b]>>}
  /\ todo' = [todo EXCEPT ![<<b, sends'[b]>>] = {q \in Qubit : BatchOf(q) = b}]
  /\ UNCHANGED <<queued, retries, delivered, results, filed, channel>>
  /\ UNCHANGED <<measQueue, bobs, eves, tap, reported, faults>>

(* ... or answers 404, the session being stopped. *)
SendNotFound(b) ==
  /\ task[b] = "started" /\ ~filed
  /\ Retry(b)
  /\ UNCHANGED <<runs, filed, channel, measQueue, bobs, eves, tap>>
  /\ UNCHANGED <<reported, faults>>

(* The QKDL is not reached, or does not answer within 120 s.  A request    *)
(* that it has received goes on.                                           *)
RequestFails(b) ==
  /\ Strike("request")
  /\ task[b] \in {"started", "waiting"}
  /\ Retry(b)
  /\ UNCHANGED <<runs, filed, channel, measQueue, bobs, eves, tap>>
  /\ UNCHANGED reported

(* Any other exception, an answer that cannot be read say, ends the task   *)
(* with nothing delivered, whatever the QKDL does with the request.        *)
TaskGivesUp(b) ==
  /\ Strike("request")
  /\ task[b] \in {"started", "waiting"}
  /\ task' = [task EXCEPT ![b] = "done"]
  /\ UNCHANGED <<queued, retries, delivered>>
  /\ UNCHANGED <<runs, filed, channel, measQueue, bobs, eves, tap>>
  /\ UNCHANGED reported

(* All qubits of a request are through: it is answered, if anybody waits.  *)
BatchDone(r) ==
  /\ r \in going /\ todo[r] = {}
  /\ going' = going \ {r}
  /\ IF Waits(r)
     THEN /\ task' = [task EXCEPT ![r[1]] = "done"]
          /\ delivered' = delivered \cup results[r]
     ELSE UNCHANGED <<task, delivered>>
  /\ UNCHANGED <<queued, retries, sends, todo, results, filed, channel>>
  /\ UNCHANGED <<measQueue, bobs, eves, tap, reported, faults>>

-----------------------------------------------------------------------------
(* _process_batch_sync: one qubit under _qns_lock *)

(* The next qubit of request r, in the order of the batch. *)
Sends(r, q) ==
  /\ r \in going /\ q \in todo[r] /\ \A p \in todo[r] : q <= p
  /\ todo' = [todo EXCEPT ![r] = @ \ {q}]
  /\ UNCHANGED <<sends, going, tasks, filed, bobs, eves, reported, faults>>

Detector == optics = "fiber"

(* SinglePhotonDetector.detect: the dead time after the last click, which  *)
(* knows the time of a qubit's slot only.                                  *)
Blind(q) ==
  /\ Detector /\ lastClick # Never
  /\ (q - lastClick) * PulsePeriod < DeadTime

Clicks(q) ==
  /\ ~Blind(q)
  /\ lastClick' = IF Detector THEN q ELSE lastClick
  /\ UNCHANGED optics

(* push_measurement, and the result of the request. *)
Push(r, q) ==
  /\ measQueue' = Append(measQueue, q)
  /\ results' = [results EXCEPT ![r] = @ \cup {q}]

QubitBlinded(r, q) ==
  /\ Sends(r, q) /\ Blind(q)
  /\ UNCHANGED <<channel, results, measQueue, tap>>

(* Lost in the fibre or missed by the detector. *)
QubitLost(r, q) ==
  /\ Sends(r, q) /\ ~Blind(q)
  /\ UNCHANGED <<channel, results, measQueue, tap>>

(* A dark count is measured without Eve. *)
DarkCount(r, q) ==
  /\ Sends(r, q) /\ Detector /\ Clicks(q)
  /\ Push(r, q)
  /\ UNCHANGED tap

(* Mutant: the resent qubit is reported but not queued for Bob. *)
InterceptKeeps(r, q) ==
  /\ Sends(r, q) /\ tapped /\ Clicks(q)
  /\ results' = [results EXCEPT ![r] = @ \cup {q}]
  /\ eveQueue' = eveQueue \cup {q} /\ eveSeen' = eveSeen \cup {q}
  /\ UNCHANGED measQueue

(* Intercept and resend: Eve's record, and what Bob makes of her qubit. *)
Intercept(r, q) ==
  /\ Sends(r, q) /\ tapped /\ Clicks(q)
  /\ Push(r, q)
  /\ eveQueue' = eveQueue \cup {q} /\ eveSeen' = eveSeen \cup {q}

(* _send_one_qubit_qns, where Bob's host may wait in vain. *)
SendQns(r, q) ==
  /\ Sends(r, q) /\ ~tapped /\ Clicks(q)
  /\ Push(r, q) \/ UNCHANGED <<results, measQueue>>
  /\ UNCHANGED tap

Process(r, q) == \/ QubitBlinded(r, q) \/ QubitLost(r, q) \/ DarkCount(r, q)
                 \/ Intercept(r, q) \/ SendQns(r, q)

(* The channel or QuNetSim raises at a qubit, before or after the detector *)
(* clicked: 500, and the results of the request are gone.  Hosts that are  *)
(* being stopped may do so, others do not for nothing.                     *)
BatchRaises(r) ==
  /\ r \in going /\ going' = going \ {r}
  /\ \/ ~filed /\ UNCHANGED faults
     \/ filed /\ Strike("request")
  /\ \E q \in todo[r] : /\ \A p \in todo[r] : q <= p
                       /\ \/ UNCHANGED channel
                          \/ Clicks(q)
  /\ IF Waits(r) THEN Retry(r[1]) ELSE UNCHANGED tasks
  /\ UNCHANGED <<sends, todo, results, filed, measQueue>>
  /\ UNCHANGED <<bobs, eves, tap, reported>>

-----------------------------------------------------------------------------
(* Bob's _receive_and_measure *)

Settled == \A b \in Batch : task[b] \in {"done", "failed"}
Quiet   == Settled /\ going = {}

(* Mutant: a measurement is read without being taken out of the queue. *)
PollPeeks ==
  /\ bob = "polls" /\ filed /\ measQueue # <<>>
  /\ measurements' = Append(measurements, Head(measQueue))
  /\ bob' = IF Len(measurements') < NQubits THEN "polls" ELSE "over"
  /\ UNCHANGED <<tasks, runs, filed, channel, measQueue, eves, tap>>
  /\ UNCHANGED <<reported, faults>>

(* GET /qubit/receive pops the oldest measurement; the loop ends with the  *)
(* n_qubits-th.                                                            *)
Poll ==
  /\ bob = "polls" /\ filed /\ measQueue # <<>>
  /\ measQueue' = Tail(measQueue)
  /\ measurements' = Append(measurements, Head(measQueue))
  /\ bob' = IF Len(measurements') < NQubits THEN "polls" ELSE "over"
  /\ UNCHANGED <<tasks, runs, filed, channel, eves, tap, reported, faults>>

(* The answer is lost, and the measurement with it. *)
PollLost ==
  /\ Strike("bob")
  /\ bob = "polls" /\ filed /\ measQueue # <<>>
  /\ measQueue' = Tail(measQueue)
  /\ UNCHANGED <<tasks, runs, filed, channel, bobs, eves, tap, reported>>

(* 404 ends the loop. *)
PollNotFound ==
  /\ bob = "polls" /\ ~filed
  /\ bob' = "over"
  /\ UNCHANGED <<tasks, runs, filed, channel, measQueue, measurements>>
  /\ UNCHANGED <<eves, tap, reported, faults>>

(* The queue was empty for IDLE_EXIT_AFTER, or nothing was received until  *)
(* the deadline.  With qubits still to come or to be fetched this takes a  *)
(* link, or a Bob, slower than his constants allow for.                    *)
BobLeaves ==
  /\ bob = "polls" /\ filed
  /\ \/ measQueue = <<>> /\ Quiet /\ UNCHANGED faults
     \/ (measQueue # <<>> \/ ~Quiet) /\ Strike("bob")
  /\ bob' = "over"
  /\ UNCHANGED <<tasks, runs, filed, channel, measQueue, measurements>>
  /\ UNCHANGED <<eves, tap, reported>>

-----------------------------------------------------------------------------
(* Eve *)

(* POST /intercept: register_interceptor. *)
EveRegisters ==
  /\ eve = "told" /\ filed
  /\ eve' = "registered" /\ tapped' = TRUE
  /\ UNCHANGED <<tasks, runs, filed, channel, measQueue, bobs, tap>>
  /\ UNCHANGED <<collected, eveLog, reported, faults>>

(* 404 until EVE_REGISTER_RETRIES are used up.  Calls that fail while the  *)
(* link is up only make her late.                                          *)
EveGivesUp ==
  /\ eve = "told" /\ ~filed
  /\ eve' = "gaveUp"
  /\ UNCHANGED <<tasks, runs, filed, channel, measQueue, bobs, tapped>>
  /\ UNCHANGED <<collected, eveLog, tap, reported, faults>>

Collects ==
  /\ reported /\ eve # "absent" /\ ~collected /\ collected' = TRUE
  /\ UNCHANGED <<tasks, runs, filed, channel, measQueue, bobs, eve, tapped>>
  /\ UNCHANGED <<eveSeen, reported>>

(* _collect_measurements, told of the end of the session: GET /measurements *)
(* empties the queue into her log.  404 leaves both as they are.           *)
EveCollects ==
  /\ Collects
  /\ IF filed THEN eveLog' = eveLog \cup eveQueue /\ eveQueue' = {}
              ELSE UNCHANGED <<eveLog, eveQueue>>
  /\ UNCHANGED faults

(* The call or its answer is lost, which is only logged: the queue may be  *)
(* empty and the log too.                                                  *)
EveMisses ==
  /\ Collects /\ Strike("eve")
  /\ eveQueue' \in (IF filed THEN {eveQueue, {}} ELSE {eveQueue})
  /\ UNCHANGED eveLog

-----------------------------------------------------------------------------
(* The KME *)

(* ST has Bob's measurements or has waited as long as he polled; QKT and   *)
(* NT follow, and publish_key tells everybody.                             *)
Report ==
  /\ ~reported /\ \A b \in Batch : task[b] = "done"
  /\ bob = "over"
  /\ reported' = TRUE
  /\ UNCHANGED <<tasks, runs, filed, channel, measQueue, bobs, eves>>
  /\ UNCHANGED <<tap, faults>>

(* Mutant: the link is stopped without EVE_GRACE_S. *)
StopAtOnce ==
  /\ filed /\ filed' = FALSE
  /\ \/ reported /\ UNCHANGED faults
     \/ Strike("stop")
  /\ UNCHANGED <<tasks, runs, channel, measQueue, bobs, eves, tap>>
  /\ UNCHANGED reported

(* /network/stop pops the session: after the report, EVE_GRACE_S later if  *)
(* Eve is in it, or too early, because a user cancels or because Eve takes *)
(* longer than that.                                                       *)
Stop ==
  /\ filed /\ filed' = FALSE
  /\ \/ reported /\ (eve = "absent" \/ collected) /\ UNCHANGED faults
     \/ Strike("stop")
  /\ UNCHANGED <<tasks, runs, channel, measQueue, bobs, eves, tap>>
  /\ UNCHANGED reported

-----------------------------------------------------------------------------
Worker(b) == TakeTask(b) \/ SendBatch(b) \/ SendNotFound(b)

Executor(r) == BatchDone(r) \/ BatchRaises(r) \/ \E q \in Qubit : Process(r, q)

Bob == Poll \/ PollNotFound \/ BobLeaves

Eve == EveRegisters \/ EveGivesUp \/ EveCollects \/ EveMisses

Kme == Report \/ Stop

Fault == PollLost \/ \E b \in Batch : RequestFails(b) \/ TaskGivesUp(b)

Next == \/ \E b \in Batch : Worker(b)
        \/ \E r \in Run : Executor(r)
        \/ Bob \/ Eve \/ Kme \/ Fault

Spec == Init /\ [][Next]_vars

(* The worker's processes, the executor's threads and Bob's loop run on,   *)
(* as long as one of them has something to do.                             *)
Work == \/ \E b \in Batch : Worker(b)
        \/ \E r \in Run : Executor(r)
        \/ Bob \/ Report

FairSpec == Spec /\ WF_vars(Work)

-----------------------------------------------------------------------------
(* Properties *)

TypeOK ==
  /\ queued \in Seq(Batch)
  /\ task \in [Batch -> {"queued", "started", "waiting", "done", "failed"}]
  /\ \A b \in Batch : Cardinality({i \in DOMAIN queued : queued[i] = b})
                        = (IF task[b] = "queued" THEN 1 ELSE 0)
  /\ retries \in [Batch -> 0..MaxRetries]
  /\ sends \in [Batch -> 0..(MaxRetries + 1)]
  /\ going \subseteq Run
  /\ todo \in [Run -> SUBSET Qubit] /\ results \in [Run -> SUBSET Qubit]
  /\ delivered \subseteq Qubit
  /\ filed \in BOOLEAN
  /\ optics \in Channels
  /\ lastClick \in Qubit \cup {Never}
  /\ measQueue \in Seq(Qubit)
  /\ bob \in {"polls", "over"} /\ measurements \in Seq(Qubit)
  /\ eve \in {"absent", "told", "registered", "gaveUp"}
  /\ collected \in BOOLEAN /\ eveLog \subseteq Qubit
  /\ tapped \in BOOLEAN /\ eveQueue \subseteq Qubit /\ eveSeen \subseteq Qubit
  /\ reported \in BOOLEAN
  /\ faults \in [FaultKinds -> Nat]

Unspent(kinds) == \A k \in kinds : faults[k] = MaxFaults[k]
Copies(s, q)   == Cardinality({i \in DOMAIN s : s[i] = q})

(* Bob's list, which he sifts as it is while ST makes a map of it, has a   *)
(* qubit at most as often as its batch was sent: without a retry the two   *)
(* sift the same qubits.                                                   *)
OneMeasurementPerSend ==
  \A q \in Qubit :
    Copies(measQueue, q) + Copies(measurements, q) <= sends[BatchOf(q)]

(* ST learns from the tasks what was delivered and from Bob what was       *)
(* measured.  The two agree once the chord is done and Bob's loop is over, *)
(* if no call failed, nobody cancelled and Bob did not lose patience.      *)
DeliveredIsMeasured ==
  /\ Unspent({"request", "bob", "stop"})
  /\ bob = "over" /\ \A b \in Batch : task[b] = "done"
  => delivered = {q \in Qubit : Copies(measurements, q) > 0}

(* EVE_GRACE_S and the order of publish_key: if Eve collects within her    *)
(* second and is answered, her log has exactly the qubits that were        *)
(* intercepted; no request is still at work when she asks, and nobody has  *)
(* stopped the session.  A failed request or a cancellation voids that.    *)
EveLogComplete ==
  Unspent({"request", "eve", "stop"}) /\ collected
    => eveLog = eveSeen

(* The pipeline ends: a batch has failed for good, or the outcome is        *)
(* reported.  Retries are limited, a link that was stopped does not keep a  *)
(* task from ending, and Bob does not poll for ever what will not come.     *)
PipelineEnds == <>(reported \/ \E b \in Batch : task[b] = "failed")

(* "The entire per-qubit pipeline is serialized", which is to keep the     *)
(* dead time from blocking qubits of concurrent batches                    *)
(* (_process_batch_sync): slots being further apart than the dead time, no *)
(* photon is hidden by a click in another one.                             *)
NoPhotonBlinded == [][\A r \in Run, q \in Qubit : ~QubitBlinded(r, q)]_vars
=============================================================================
