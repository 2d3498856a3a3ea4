# DQS-BB84 in TLA+

A verification project for the BB84 key-distribution service of this repository:
TLA+ modules of its concurrent parts, TLC configurations that check them on small
instances, and TLAPS proofs of the most important properties for every instance.

Paths below are relative to the repository's root (`src/...`), modules are in this
directory.  `tlc -config X.cfg M` checks a run, `tlapm M.tla` the proofs of a module.
`PROJECT.json` lists the runs, the lines each definition translates, the mutants
that show each property can be broken, the hazards and the theorems.

## 1. The system

A session produces one shared key for Alice and Bob over a simulated quantum link.

| Part | Source | State it keeps | Operations |
|---|---|---|---|
| KME (key management) | `src/kme/main.py`, `session_store.py`, `state_machine.py` | in Redis: a record per session with TTL (status, key, key status, Bob's measurements, sift upload), the index `kme:sessions:active`, one lock per QKDL with `ex=600` | create, join, measurements, sift upload, key (publish), consume, cancel; background tasks `_init_then_open`, `_stop_qkdl` |
| Event bus | `src/kme/message_bus.py` | one Redis stream per node with a consumer group, its pending list; in the node a cursor and an attempt counter per event | `publish`, `NodeConsumer._run`, `_dispatch` |
| Node registry | `src/kme/node_registry.py` | node records with a TTL, the sets of their ids | register, look-up by label and by role |
| QKDL service | `src/qunetsim_service.py` | table of sessions, a cooldown, per session a QuNetSim network, the queue of measurements, Eve's queue, `_qns_lock` | init, stop, batch/send (in executor threads), qubit/receive, intercept, measurements |
| Optical channel | `src/optical/` | a table of transmissions, polarisation drift, detector's last click | interpolate, transmit, detect, QBER budget |
| Alice | `src/nodes/alice/main.py` | her current session, its bits in Redis (`kme:alice_state`), a Celery worker per session | start, dispatch of the pipeline, clean-up, poll |
| Bob | `src/nodes/bob/main.py` | `_bob_state` per session | join, receive loop, upload, local sift |
| Eve | `src/nodes/eve/main.py` | `_eve_state` per session | register as interceptor, collect measurements |
| Workers | `src/workers/` | Celery messages with late acknowledgement | chord of QTT batches, chain ST, QKT, NT |
| Arithmetic | `src/bb84_logic.py` | none | sifting, sample, QBER, key comparison |

How they interact.  Alice posts `/sessions`; the KME picks a free QKDL under a Redis
lock and initialises it in a background task over HTTP with retries; then it
publishes `session_open` on the streams of Bob and, if there is one, Eve.  Bob joins, the KME
tells Alice, Alice dispatches a chord of QTT tasks.  Each posts a batch to the QKDL,
which works it off in a thread and queues what was measured; Bob polls that queue
and uploads his list.  ST waits for it, sifts and tells Bob through the KME;
QKT computes QBER and key, NT posts the outcome.  `publish_key` stores it, tells the nodes
and starts `_stop_qkdl`, which tears down the network and gives back the lock.  Nobody
holds a transaction over more than one of these calls.

What is hard: handlers that read, await and write again; clients that time
out while the server goes on; retries of calls that took effect; redelivered Celery tasks
and stream entries; records, streams and locks with a time to live; node restarts;
cancellation at any moment; executor threads that take turns at one detector.

What makes each part correct:

* event bus: every event is delivered at least once, in order, and a poisonous one
  does not block the stream for ever;
* QKDL pool: a link serves one session at a time, a session has its link as long as it runs, and
  every link comes back;
* session record: index, status and key agree; a final status is final; a key is handed out
  once and is the key Bob has;
* transmission: Bob, the tasks and Eve agree on what was measured, and the pipeline
  ends;
* registry: a label leads to the node that has it, and a stream has one owner;
* link and arithmetic: a wrong bit has a physical cause, Bob and ST sift the same qubits, and without
  noise both keys are equal.

## 2. The modules

### EventLog and EventBus

`EventLog` is the abstract promise: a handler is given events in order, again and again
if need be, but never past an event that is still owed.  `inOrder` is how far that goes: once Redis has refused an
acknowledgement (`BreakOrder`), only at-least-once is left of it, see finding 1.  `EventBus` is the
stream and the loop of `NodeConsumer`.

| In the module | In the code |
|---|---|
| `Publish` | `EventBus.publish`: XADD with approximate MAXLEN and EXPIRE in one transaction |
| `group`, `delivered`, `pel`, `Fresh`, `Page` | the consumer group as Redis keeps it (external) |
| `Start`, `Regroup`, `EnsureGroup` | `_run` before its loop, `_ensure_group`, and the NOGROUP branch |
| `ReadReplay`, `ReplayDone`, `ReadNew`, `ReadNoGroup`, `ReadLost` | the XREADGROUP call with cursor `0` or `>` and its exceptions |
| `DropStale`, `HandlerReturns`, `HandlerFails`, `GiveUp` | `_dispatch` |
| `Ack`, `AckLost`, `AckRefused` | XACK: answered, connection broken before or after Redis did it, error reply |
| `Crash`, `CrashInHandler`, `Expire` | process death, `STREAM_TTL_S` |

Events are their positions in the stream; payloads play no role.  A page is the set of
its entries, worked off smallest first, because Redis returns them in order.

### LinkPool and QkdlPool

`LinkPool` is what the locks promise: a session is admitted to a link nobody holds and never gets another one; as long as
no lock has run out (`punctual`) it sends and ends on a link that is its own; and a link goes from one session to the
next only by way of nobody, when its holder has ended or its lock has run out.  It knows of no calls, tasks or
retries.  `QkdlPool` is how the code gets there; `Links` is the mapping, in which `lock`, `url` and `status` are
LinkPool's `holder`, `link` and `phase`.

It has the locks of the KME, the tasks `_init_then_open` and `_stop_qkdl`, and on the QKDL's side
the table of sessions, the networks and the cooldown.  A handler is one step from
one await to the next; a call has up to three: request, work in the executor,
answer read.  A client that gave up (`InitUnanswered`, `StopUnanswered`) leaves the QKDL's
work going, as httpx and FastAPI do.  `net` is the life of each `NetworkSession` object, one per attempt,
because two attempts of one session can build two objects.

### QuantumLink

The transmission of one session's qubits: the chord of `send_batch_task` on the
session's worker processes, the executor threads that send qubit by qubit under `_qns_lock`,
the detector's dead time, the measurement queue, Bob's receive loop, Eve's registration
and the collection of her log (`eveSeen` is what she intercepted, `eveQueue` what the QKDL still has of it, `eveLog` what has reached her), and the
teardown that pops the session under all of
them.  `optics` is the channel of the session, a fibre with a detector or a statistical one; only on the latter can a repeated request
measure a qubit again, since on a fibre the first click has made the detector blind for the slot time of that qubit.  A task ends with the results of its
request (`BatchDone`), is retried (`Retry`), or runs into the catch-all that reports nothing as delivered (`TaskGivesUp`), whatever its
request still does.  `EveMisses` is a collection whose call or answer is lost: the QKDL's queue may then be empty and her log too.  A measurement is its `qubit_id`: bases and bits do not influence the control.
`going`, `todo`, `results` are the requests in the executor; they go on when the task that
made them has timed out and been retried.

### KeySession and KeyDelivery

`KeySession` is a session as its users see it: created, joined, ended once with a key or without, the key handed out
once per delivery, the record forgotten some day.  A cancellation or a repeated report disturbs it for good (`undisturbed`); from
then on it may end again, and otherwise, which is what the code does (finding 4).  `KeyDelivery` says how
it comes about; in the mapping `Session`, `Phase` is the record's status, "none" before the creation and "gone" once the record has expired.

KeyDelivery has one session's record, Alice's and Bob's share in it and the chain ST, QKT, NT.  A key is named by
the ST run that drew its sample, so that two runs are seen to give two keys.  `msgs` is
the Celery queue with late acknowledgement: a task that ran may run again.  `SaveStatus` is
`save_session` with its update of the index, `PublishKey` is `publish_key`, `Consume`
and `ConsumeLate` are `consume_key`, `Cancel` is `cancel_session`.  Sessions share none of this
state, so one is enough.

The KME's Redis client is synchronous, so a handler's commands are one step for everybody else, unless its process dies between
two of them.  Each handler therefore has a second action for what it leaves behind then (`CreateCut`, `SetupCut`, `JoinUnanswered`,
`MeasureCut`, `NotifyCut` with `PublishCut`, `ConsumeCut`, `CancelCut`): a record without its
update of the index (`CutSave`), an active key in a session that is not done, a spent key that nobody got.  A task `_init_then_open` that
was running is gone with the process (`setup = "lost"`).  In KeySession the active key is `DeliverHalf`, and the spent one
`Waste`.

### NodeRegistry

Who is who.  The KME addresses events to a `node_id`; a node reads the stream of the id it was given last.

| In the module | In the code |
|---|---|
| `entry`, `present`, `drawn` | `kme:node:<id>`, `kme:nodes:all` without the ids whose record has expired, the ids handed out |
| `Found` | `find_node_by_label`: any record with the label, as a Redis set has no order |
| `IdFor`, `NameOf`, `RegisterNode` | `register_node`: the id of the record that was found if its role is the same, a new one otherwise and without a label, which the record then gets made up from the id (`MadeUp`) |
| `Expire` | `NODE_TTL` of 24 hours, which nothing renews but the next registration |
| `Start`, `Register`, `RegisterLost` | `BaseNode.start` and `_register`, which repeats a call that failed although the KME may have done it |
| `Create`, `Open`, `Handle` | the choice of the receiver in `create_session`, `session_open` in `_init_then_open`, `handle_event` |

A process is one run of a node's program with the label and role of its environment, so that two of them
can be the same node started twice.  It fills in what EventBus takes for granted, that the consumer reads the
right stream, and takes for granted what EventBus shows, that what is in the stream reaches the handler.

### Polarization, ChannelModel and Sifting

What the values do while the other modules decide who calls whom.

| In the module | In the code |
|---|---|
| `Polarization`: `Angle`, `Apart`, `Nearest` | the four states as angles and the projection of a turned photon, `_nearest_state` in `src/optical/channel.py` |
| `ChannelModel`: `NoFiber`, `ReadRow`, `Unreadable`, `Loaded` | the choice of the channel and `_load_csv` |
| `Formula`, `FirstRow`, `LastRow`, `BeginSearch`, `Halve`, `Interpolate` | `_interp` with its binary search; each turn of the loop is a step |
| `Sifting`: `Lost`, `DarkCount`, `Intercept`, `Receive`, `GiveUp` | one qubit in `_process_batch_sync`, by outcome |
| `late` | photons that get_qubit gave up and that QuNetSim (external) may hand out for another qubit |
| `BobPosts`, `LocalSift` | Bob's list and `_do_local_sift` |
| `Sift`, `TooFew`, `DeriveKey`, `Draw`, `Rest` | ST's map and sift, QKT, `compute_qber` with the seed both sides share |

Sifting EXTENDS both others: the channel is built first, then qubits pass.  A photon carries a mark, `noisy`, that no code looks at; it
is what the properties speak about.  A seed is a function from the number of sifted bits to a sample, drawn when first used (`samples`): both sides
draw the same positions exactly if they have the same number of bits.
The lock `_qns_lock` (`src/qunetsim_service.py:334`) is held from sending a qubit to pushing its measurement; it is built into Sifting as one
step per qubit, so nothing is claimed of two requests in QuNetSim at once.
Python's `sorted` is `Sorted`, described by what it returns: the increasing sequence with just these members.  The table's values are integers and an interpolated one a fraction, so that nothing is rounded.

### How the modules fit together

QkdlPool, QuantumLink, KeyDelivery and Sifting look at one session's life at four places.
Where they meet, each leaves the other's part open rather than fixed: in QkdlPool the
pipeline may report any time after Bob joined; in QuantumLink the link is up at the start and
may be stopped at any time by a cancellation; in KeyDelivery a chord completes or dies; Sifting lets any
qubit be lost or processed twice and Bob post any prefix of what was measured, which is more than QuantumLink lets happen.
Operators whose comment starts with "Mutant:" are wrong variants of the definition after
them, kept to show that the properties notice.

## 3. What the runs check

| Run | Bounds | Result |
|---|---|---|
| `EventBus` | 4 events, pages of 2, MAXLEN 2, 2 attempts; one crash, lost connection, expiry, refused acknowledgement | nothing owed is forgotten, order, at-least-once, refinement of `EventLog`, liveness; 301 k states |
| `EventBus_ackerror` | 3 events, a refused acknowledgement only | violates `AtLeastOnce` |
| `QkdlPool` | 2 sessions, 1 link, 2 attempts, one fault of each kind, one cancel and report per session | exclusiveness, a sending session's network, refinement of `LinkPool`; 925 k states up to symmetry |
| `QkdlPool_live` | same, a time-out and a lost call | initialisations end, links are given back |
| `QkdlPool_cancel` | no faults, one cancel | violates `OneSessionPerLink` |
| `QuantumLink` | 3 qubits in batches of 2, 2 worker processes, 1 retry, both channels, Eve, one fault of each kind | agreement of Bob, tasks and Eve; the pipeline ends; 1.08 M states |
| `QuantumLink_detector` | 4 qubits in 2 batches, no fault | violates `NoPhotonBlinded` |
| `KeyDelivery` | 2 keys, 1 NT retry, one cancel, any three of the faults early, duplicate, lost, redelivery, expiry, kme | record, index and key, refinement of `KeySession`; 1.6 M states |
| `KeyDelivery_live` | 2 keys, any two of Alice's crash, Bob's, chord, duplicate, lost, redelivery | sessions settle, Alice gets free; 144 k states |
| `KeyDelivery_cancel` | 1 key, no fault, one cancel | violates `TerminalIsFinal` |
| `NodeRegistry` | 4 processes (a receiver, a receiver and a monitor with the same label, a receiver without a label), 1 session, 7 ids, one crash, lost answer and expiry | one owner per stream, the named node joins, ids are kept, `session_open` is handled; 564 k states |
| `Sifting` | 3 qubits in batches of 2, 2 tables and 4 distances, two angles of drift, one late photon, one resent qubit, one noisy measurement | errors have a cause, both sifts agree, keys differ only by noise, interpolation; 1.05 M states |

Why the bounds are enough to be interesting.  Faults have a budget per kind, so
that one of each can strike in one behaviour in any order; in KeyDelivery, whose kinds are many, `MaxKinds` bounds how many of
them do: three in the safety run and two in the liveness run.  Four events in pages of two
are two full pages, and a MAXLEN of two lets retention take pending entries.  Two sessions are what it
takes for one to be admitted while another one's tasks are still on their way; links are independent of each other
except for the order in which they are tried, and a run with two links (3.6 M states), not kept, showed nothing
new.  Three qubits in batches of two have a short last batch and two requests that take turns;
with a retry a qubit can be sent twice while the first request is at it, and on the statistical channel measured twice.  Two keys are what a redelivered ST needs to
disagree with itself.  The registry's four processes register at most four times, and once more each after a crash and a lost answer,
so that seven ids never run out.  One session is enough there because sessions do not look at each other.
Sifting's bounds: `Preparations` is one preparation with both bases and both bits, the other ones being the same up to names; `Drifts` is one angle that
leaves a photon's state alone and one that turns it to another; `Files` has a sorted table and one that is out of order and
repeats a distance, and `Distances` has one without fibre, one in the tables' middle, one between rows and one past their end; `MaxResends`, `MaxLate`
and `MaxNoisy` are one each, so that a late photon, a repeated qubit and an error can meet in one behaviour; `MinSifted` is 2 rather than the code's
10, so that three qubits can make a key, and both sides of it are reached.  The proofs hold for all of these.

`CHECK_DEADLOCK FALSE`: budgets and bounds run out and all sessions come to an end, so every
instance stops in the end; what must not stop early is stated as a liveness property.

### Conditional properties

Some properties hold only if certain things did not happen, and the module says which
in the formula.  They are conditions on the history, not on the model: the run still explores the other behaviours, and
the unconditional properties hold in them.

* `AtMostOneSession`: no call timed out, no lock ran out of time, nobody cancelled, the outcome was reported once.
  Lost requests, failed starts and KME crashes are allowed.  Each exclusion is a
  behaviour of the code in which two networks really share a link (see Findings).
* `HolderNeverRefused`, `NoOrphanNetwork`: calls are answered and the KME stays up; a lost
  `/network/stop` is only logged (`src/kme/main.py:612`) and does leave an orphan.
* `OldestPendingFirst`, `EventuallySettled`: no acknowledgement was refused.  `NothingOwedIsForgotten` and, with the order
  up to the refusal, `ImplementsEventLog` hold with refusals too.
* `OneMeasurementPerSend` holds always, by the number of requests.  `DeliveredIsMeasured`: no call failed and Bob was patient, `EveLogComplete`: no request failed,
  no cancellation, Eve in time, and her own call answered.  A lost answer to it does lose her log (`src/nodes/eve/main.py:191`).
* `KeyHandedOutOnce`, `HandedOutKeyIsBobs`: no post or task was repeated and the KME did not die.  With repetitions
  `HandedOutPerActivation` bounds what can happen.
* `IndexExact`: that a session which goes on is in the index holds always, except for one that died with its set-up, that a session which has ended is not in it
  as long as the KME does not die between the two commands.  Both are about a record that has not expired.
* `ActiveKeyOnlyWhenDone`: neither cancelled nor posted twice, and the KME did not die.  `ImplementsSession` holds always, but what KeySession promises of a disturbed session
  is less: that it ends only once is promised of an undisturbed one.
* `LockHeldUntilOver`, and what `ImplementsLinkPool` says of who holds a link when it sends or ends: no lock ran out of time.
* `ErrorsHaveCause` counts as noise a late photon that is taken for another qubit (`src/qunetsim_service.py:274`).
* `SiftsAgree`, `KeysDifferOnlyByNoise`: about qubits that Bob's list has once.  A qubit that a retried batch measured
  twice is twice in Bob's list (`src/nodes/bob/main.py:236`) and once in ST's map, so that the keys may differ in length.
* `AddresseeIsNode`, `OpenIsHandled`: no record expired and no node of another role has the label.  After
  an expiry or without a label a restarted node gets a new id, and with a clash of labels a registration that finds the other
  role's record draws a new one (`src/kme/node_registry.py:26`); sessions that were created before still name the old one.
  `StreamHasOneOwner` and `JoinedByNamed` hold in those behaviours as well.

### Fairness

What the code runs in a loop is weakly fair: the node's `_run`, the event loops and
executors of KME and QKDL, the registration loop of a node that was started, the clocks, Celery's workers, Bob's receive loop.  QuantumLink needs
no more than that workers, executor threads, Bob and the chain are not all idle for ever while one of them has something to do (`Work`).  What users decide is not (create, join, consume,
cancel), nor is the start of a dead node, which nothing in the repository restarts.
`EventuallySettled` therefore asks that the node stays up from some time on.
`SessionSettles` and `AliceFreed` exclude for the whole behaviour the faults after which the code
has no means to go on: a chord whose batch failed for good, an expired record, and for
the first one Alice's restart, and the death of the KME, which takes the task that sets the link up with it.  `PipelineEnds` counts a batch that failed for good as an end.

## 4. Findings

1. **A refused XACK orphans the rest of its page** (`EventBus_ackerror`).  On a ResponseError other than NOGROUP `_run` leaves the
   page and keeps the cursor at `>` (`src/kme/message_bus.py:103`); the rest of the page is pending, and pending entries
   are read again only when something resets the cursor, which a restart does and a broken connection (line 109).  "At-least-once: ACK only after the
   handler succeeds" (line 47) does not hold of a node that stays up and connected.
2. **Cancelling during initialisation** (`QkdlPool_cancel`).  `cancel_session` (`src/kme/main.py:500`) starts `_stop_qkdl`
   at once; the QKDL has nothing to pop yet, the lock is released, the next session is admitted,
   and the network that was still starting comes up beside the next one's.  "Each QKDL instance in the pool holds at
   most one session at a time" (`src/kme/session_store.py:18`).
3. **The detector's dead time across batches** (`QuantumLink_detector`).  The detector compares slot times
   (`src/optical/detector.py:43`).  Requests take turns qubit by qubit, so after a click in a later batch every
   qubit of an earlier one has a negative distance, which is less than the dead time, and is dropped.  The docstring
   at `src/qunetsim_service.py:341` describes this cascade and says the lock prevents it.
4. **A cancelled session becomes done** (`KeyDelivery_cancel`).  `publish_key` (`src/kme/main.py:374`)
   looks at the record's existence only; the outcome of a running pipeline makes an aborted session
   done, with an active key.  `src/kme/state_machine.py:26` calls ABORTED "Erreur non recup".

Two more behaviours break `OneSessionPerLink` and are excluded in `AtMostOneSession` by
name: the lock's 600 s (`src/kme/main.py:82`) are not renewed and a long session
outlives them; and each report starts a `_stop_qkdl` (line 428), the second of which finds nothing
to pop and releases the lock while the first one's teardown is still running.

## 5. What is proved

The eight proof modules are checked by tlapm to the last leaf, for all values of the constants that meet the assumptions
of their modules (`BusAssumption`, `PoolAssumption`, `LinkAssumption`, `DeliveryAssumption`, `RegistryAssumption`, `ChannelAssumption`, `SiftingAssumption`): bounds are
natural numbers (page size, MAXLEN, attempts, batch size positive), and so is each fault budget; processes have a label
and one of the roles of `NodeRole`; the file's rows are numbers.  The proofs thus
cover any number of events, processes, sessions, links, qubits, workers, faults and retries.  Every safety
property of the passing runs and each of the three refinements (`EventLog`, `LinkPool`, `KeySession`) is proved.

`EventBus_proof`

* `TypeCorrect`: `Spec => []TypeOK`.
* `NothingForgotten`: `Spec => []NothingOwedIsForgotten`, with every fault.  The
  invariant is not inductive by itself: an acknowledgement takes an entry off the pending list, and
  creating the group again starts over from its position.  `Owed` adds that the event being acknowledged was handled or
  given up, and that a group which does not exist has neither pending entries nor a position.
* `OldestIsFirst`, `NeverGoesBack`, `NoneOvertaken`, `KeepsPromise`: with every fault; the statements of the first three
  are about behaviours in which no acknowledgement has been refused, without which they are false (finding 1).
  `CursorBehind` says where pending entries lie: outside of a page the cursor is behind all of them, and is `>` only if
  there are none; in a page everything pending is on it or,
  in a replay, newer than it.  It is what makes a page the oldest pending work.  `Positions` relates the handler's last event to the stream: it is not past what is
  pending or on the page, and not past the group's position or the trimmed prefix, so what is read next is not older either.  From these each step is shown to be a step of
  `EventLog` or a stutter (`StepRefines`), a refused acknowledgement being `BreakOrder`, which gives the refinement `KeepsPromise`.
  `HandlerNeverGoesBack` and `NoOvertaking` are no properties of a run: `ImplementsEventLog` has their content.

`QkdlPool_proof` and `PoolIsolation_proof`

* `TypeCorrect`, `LockKept`, `SendingIsServed`, `HolderReleases`: the four that need no assumption on calls.  `PoolInv` adds to the types that
  nothing is done for a session before it is created (`Unborn`), that stop tasks are those of sessions that are over
  (`StopOfOver`), and how the QKDL's table, the networks and what the KME was told agree (`Filing`: what is on file is up,
  who was answered "ready" and is not over is on file).
* `KeepsLinkPool`, the refinement: `Spec => ImplementsLinkPool`, with every fault.  `LinksStep` maps each action: `Create` to
  `Admit`, `Join` to `Begin`, `Expire` to `RunOut`; a report, a cancellation or a failed initialisation ends the
  session or does not show, and a release gives the link back or, if it is not the session's any more, does nothing
  (`EndsOrGivesBack`).  `Begin` and `End` need `LockHeldUntilOver`, and the release of a stop task `StopOfOver`.  `HolderReleases`
  (`OnlyHolderReleases`) is what the refinement says of one lock; it is proved and not a property of a run.
* `OneSessionHolds`, `HolderServed`, `NoNetworkLeft`: under the conditions their statements name.  The argument is per session and in layers.
  `CalmAt(s)`, while no call ran out of time and nobody cancelled: a network is started only for the attempt the initialisation waits
  for, and a session has one live network at most.  `TornDown(s)`, if moreover no call was lost and the KME stayed up: a stop task that moves on leaves no network
  behind.  `LockedAt(s)`, if locks do not expire and the outcome was reported once: while a session is torn down it has its
  link, and one task does it.  `HeldAt(s)`: who has a network on file has the lock.  A step of one
  session leaves the other ones' part of the state alone (`FrameStep`), so that only its own steps are looked at; the lock
  is the only place where two sessions meet.

`QuantumLink_proof`

* `TypeCorrect`, with the queue of tasks: a task is in it once if it is queued, and not otherwise, and its requests are as many as its runs (`TasksOK`).
* `MeasuredAsSent`: not inductive as it stands, as a request that is under way may still send.  `Measured` counts those that have a qubit still to send (`Unsent`)
  on the side of the measurements.
* `EveLogIsComplete`: `EveServed` says that what she has intercepted is in the QKDL's queue until she collects it, and in her log afterwards.  `SentOnce`, while no request
  fails and nobody cancels, says that a batch is sent once and the
  link is up until the outcome is reported, with no request at work any more.
* `DeliveredAgrees`: `Delivery` says that a qubit is in a result if and only if it is in the queue or in Bob's list, and why Bob left: either
  nothing was under way and the queue empty, or his list was full.  A full list is one of all qubits, since none is in it twice (`FullList`, a pigeonhole argument).

`KeyDelivery_proof` and `KeyOutcome_proof`

* `TypeCorrect`; `IndexIsExact`, the index of active sessions and the status; `DoneKeepsKey`, a done session has a key whatever comes late; `HandOutsArePaid`, a key is handed out at
  most once per activation.  All with every fault.  The last two follow from one analysis of which
  actions touch the record (`RecordStep`): every action either leaves it alone, or saves a status together
  with the key in one of a few forms.  `IndexExact` is not inductive: a save cut short between SET
  and SADD or SREM leaves the index as it was or as it should be, so a session that goes on must have been listed before.  `IndexInv` says so from the time
  the set-up runs: only in `create_session` can the listing be missing, and then the task that sets the link up never runs.
* `OneHandOut`, `SameKeyForBoth`, `ActiveKeyIsOfDone`, `TerminalStays`: while nothing is repeated and the KME stays up (`PostedOnce`), what drives a session on is
  one token: Bob's join event, then the chord, then a message of ST, QKT or NT, then nothing (`Token`).  So
  ST draws one key and NT activates one (`OneKey`).  `Setting` says that there is no token before the link is open, and `Spent` that there is none in a
  session that is over, unless it was cancelled, in which case the token runs on: finding 4.
  `TerminalUnlessDisturbed` is no property of a run, as `ImplementsSession` has its content.
* `KeepsSession`, the refinement: `Spec => ImplementsSession`, with every fault.  A report ends a session from "sending", and while its key is
  still undelivered, only because the one token is with NT, and a key is handed out only by a session that is done (`ActiveKeyOnlyWhenDone`); these come from the
  invariant of the outcome theorems.  `Untouched` adds that there is nothing of a session before its creation, and nothing of its key before an activation.
  A handler that the KME's death cuts short (`Cut`) is mapped to what is left of its step: a save of the same status to a stutter, a cut publication to `DeliverHalf` or `Deny`, a cut hand-out to `Waste`.
  A disturbance is never undone (`StaysDisturbed`): what the abstract session requires while undisturbed may be taken from the state before a step.

`NodeRegistry_proof`

* `TypeCorrect`, `OneOwner` and `NamedNodeJoins`, unconditional.  Neither of the last two is inductive: a registration
  overwrites a record, and days may lie between the choice of a receiver and its answer.  What
  holds them together is `EntryKept`: once an id is drawn, the label and role it stands for never change, because
  `IdFor` gives out an old id only to the same label and role.  A node without a label draws an id each time, and no label leads to it, so it has the id for itself (`Alone`).  The inductive invariant is
  `IInv == TypeOK /\ Owners /\ JoinedByNamed`, where `Owners` says that the record of a running node's id has its label
  and role, and that of a session's receiver the label that was wanted.
* `NodeKeepsItsId`: `AddresseeIsNode` by a second invariant, `Kept`: while nothing expired, a label that belongs to one role has
  one record at most, so whatever `find_node_by_label` returns is that one.

`Sifting_proof`

* `NeverDividesByZero`, `InterpolatesBetweenNeighbours`: of `ChannelSpec`, for files of any length and order, sorted or not.  `Bracketed`, the
  invariant of the binary search, keeps the distance between its two rows, and is all that is needed.  It is proved and not a property of a run,
  as `OnEnclosingLine` follows from it.
* `TypeCorrect`, `NoErrorWithoutCause`: for any drift and any number of late photons.  `SlightKeepsState` is the lemma about the circle of
  polarisations.
* `SameQubitsSifted`: ST's map of the last measurement per qubit and Bob's list with positions choose the same qubits where a qubit is in the list once.
* `OnlyNoiseSeparatesKeys`: `KeysDifferOnlyByNoise`, the statement the protocol is about, for any number of qubits.  Sorting comes first: the rank of an
  element, the number of those not after it, maps a finite set one to one onto the positions (`RankIncreases`, `RankOnto`), so an increasing list exists (`AscendingSorts`), and
  there is no other (`IncreasingUnique`).  Hence ST, which sorts qubits, and Bob, who sorts positions of his list, drop the same places of the same order
  (`SameOrder`): one length (`SameLength`), therefore one sample of the shared seed, and the same qubit behind every bit of both keys (`KeysOfOneOrder`).  `KeyInv` says that each
  key is the one of the list it was made from, although the list goes on growing.

Only model-checked: all liveness (`EventuallySettled`, `InitEnds`, `LinkGivenBack`, `PipelineEnds`, `SessionSettles`, `AliceFreed`, `OpenIsHandled`),
which with fairness and ENABLED is out of this prover's reach.

## 6. Not modelled

* `/metrics`, `/health`, lists and other read-only endpoints, logs: no state of the protocol.
* The classical channel of the QKDL and `/network/reset`, which no part of the repository calls, and the
  unused qubit bus of the store.
* Probabilities: how much a fibre attenuates, how drift is distributed over time, how often a detector counts dark.  A photon
  may be lost, turned by any angle of `Drifts` or counted dark, whatever the numbers are.  The models hold for all
  of them, and say nothing of rates.
* The reported QBER budget (PMD, `qber_floor`, `src/optical/metrics.py`) and `decompose_qber`: numbers for logs and plots that no decision reads.
* scipy's interpolator: `ChannelModel` is the branch without scipy, of the same line between the same rows.
* QuNetSim's inner queues: external and not in the repository.  A late qubit that is taken for the next
  one (`src/qunetsim_service.py:274`) is any one of those that were sent and not handed out.
* Bob's and ST's clocks: either may give up at any time, which includes the order the constants intend.  The end of a key's time is a
  boolean (`late`), not a comparison of clock values (`src/kme/session_store.py:159`).
* Two requests inside QuNetSim at once: the lock's effect is built into Sifting, see above.
* `src/node/node_runner.py` starts processes; scripts, plots, recorded results and load tests.

## 7. Plan

The 12 runs check 39 properties that hold and four that do not, and take some fourteen minutes together; a new
module should replace properties that a theorem has made redundant rather than add to them.

1. Done: EventLog, EventBus; LinkPool, QkdlPool; QuantumLink; KeySession, KeyDelivery; NodeRegistry; Polarization, ChannelModel, Sifting; proofs of all of them.
2. An abstract directory (who owns a label's address) that NodeRegistry refines, as QkdlPool refines LinkPool.
3. A composition of QuantumLink with Sifting, so that Bob's list is the one of the receive loop.
4. QkdlPool with two links in a run of its own, for the order in which links are tried.
