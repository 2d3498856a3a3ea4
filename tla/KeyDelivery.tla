----------------------------- MODULE KeyDelivery -----------------------------
(***************************************************************************)
(* One session from its creation to the consumption of its key: the KME's  *)
(* record of it (src/kme/main.py, src/kme/session_store.py), Alice's and   *)
(* Bob's share in it (src/nodes) and the Celery chain ST | QKT | NT that   *)
(* turns measurements into a key and reports it (src/workers).             *)
(*                                                                         *)
(* Sessions share none of this state, so one is enough.  A key stands for  *)
(* the run of ST that drew its sample: the n-th run yields key n, 0 is the *)
(* empty string.  A Celery message is <<task, key, retries>>; tasks are    *)
(* acknowledged late, so a message may be run again although it was run.   *)
(***************************************************************************)
EXTENDS Integers, Sequences, FiniteSets

CONSTANTS
  NtRetries,    \* max_retries of notify_kme_task
  MaxKeys,      \* bound: runs of ST that draw a sample
  MaxCancels,   \* bound: cancellations by a user
  MaxFaults,    \* bound: how often each kind of fault may strike
  MaxKinds      \* bound: how many kinds of fault may strike in one behaviour

FaultKinds == {"alice", "bob", "early", "duplicate", "chord", "lost",
               "redelivery", "expiry", "kme"}

ASSUME DeliveryAssumption ==
  /\ NtRetries \in Nat /\ MaxKeys \in Nat /\ MaxCancels \in Nat
  /\ MaxFaults \in [FaultKinds -> Nat] /\ MaxKinds \in Nat

Keys == 0..MaxKeys
ST   == <<"ST", 0, 0>>
Msg  == {ST} \cup ({"QKT"} \X Keys \X {0}) \cup ({"NT"} \X Keys \X (0..NtRetries))

VARIABLES
  exists,      \* the session's record is in Redis
  status,      \* session["status"]
  keyStatus,   \* session["key_status"]
  keyFinal,    \* session["key_final"]
  late,        \* session["key_expires_at"] has passed
  active,      \* the session is in kme:sessions:active
  setup,       \* the task _init_then_open: "none", "runs", "opened", "failed",
               \* "lost" with the process that ran it
  measured,    \* Bob's measurements are stored
  sift,        \* the key whose sample the stored sift upload names
  alice,       \* Alice: "idle", "posting", "active" (_alice_state), "free"
  aliceState,  \* kme:alice_state of the session is in Redis
  bob,         \* the session is in Bob's _bob_state
  receive,     \* Bob's _receive_and_measure: "none", "polls" (nothing sent
               \* yet), "gets" (measurements to come), "over"
  bobKey,      \* bob_final
  events,      \* events published and not yet handled, by kind
  chords,      \* chords of QTT tasks that are running
  msgs,        \* messages in the sifting queue, with multiplicity
  drawn,       \* how many samples ST has drawn
  activations, \* history: how often activate_key was called
  handedOut,   \* history: the keys consume_key returned, in order
  cancels, faults

record == <<exists, status, keyStatus, keyFinal, late, active, setup>>
bus    == <<measured, sift>>
bobs   == <<bob, receive, bobKey>>
nodes  == <<alice, aliceState, bobs, events>>
chain  == <<chords, msgs, drawn>>
audit  == <<activations, handedOut>>
vars   == <<record, bus, nodes, chain, audit, cancels, faults>>

EventKinds == {"joined", "sift", "abortedBob", "endedAlice"}

Init ==
  /\ exists = FALSE /\ status = "initializing" /\ keyStatus = "none"
  /\ keyFinal = 0 /\ late = FALSE /\ active = FALSE /\ setup = "none"
  /\ measured = FALSE /\ sift = 0
  /\ alice = "idle" /\ aliceState = FALSE
  /\ bob = FALSE /\ receive = "none" /\ bobKey = 0
  /\ events = [k \in EventKinds |-> 0]
  /\ chords = 0 /\ msgs = [m \in Msg |-> 0] /\ drawn = 0
  /\ activations = 0 /\ handedOut = <<>>
  /\ cancels = 0 /\ faults = MaxFaults

Struck == {kind \in FaultKinds : faults[kind] # MaxFaults[kind]}

Strike(kind) ==
  /\ faults[kind] > 0 /\ Cardinality(Struck \cup {kind}) <= MaxKinds
  /\ faults' = [faults EXCEPT ![kind] = @ - 1]

Raise(kind)  == [events EXCEPT ![kind] = @ + 1]
Take(kind)   == events[kind] > 0 /\ events' = [events EXCEPT ![kind] = @ - 1]

-----------------------------------------------------------------------------
(* session_store.py *)

Running  == {"initializing", "sending"}
Terminal == {"done", "aborted"}

(* Mutant: save_session only ever adds to the index. *)
SaveStatusAddOnly(st) ==
  /\ status' = st
  /\ active' = (active \/ st \in Running)

(* save_session: a SET of the record, then an SADD or SREM by its status.   *)
SaveStatus(st) ==
  /\ status' = st
  /\ active' = (st \in Running)

(* The same, broken off between its commands or after them. *)
CutSave(st) ==
  /\ status' = st
  /\ active' \in {active, (st \in Running)}

(* activate_key *)
Activate ==
  /\ keyStatus' = "active" /\ late' = FALSE
  /\ activations' = activations + 1

-----------------------------------------------------------------------------
(* Alice, Bob and the KME until the pipeline runs *)

(* Alice posts /sessions; create_session stores the record. *)
Create ==
  /\ alice = "idle" /\ alice' = "posting"
  /\ exists' = TRUE /\ SaveStatus("initializing") /\ setup' = "runs"
  /\ UNCHANGED <<keyStatus, keyFinal, late, bus, aliceState, bobs, events>>
  /\ UNCHANGED <<chain, audit, cancels, faults>>

(* The answer reaches start_bb84_session. *)
AliceStores ==
  /\ alice = "posting" /\ alice' = "active"
  /\ aliceState' = TRUE
  /\ UNCHANGED <<record, bus, bobs, events, chain, audit, cancels, faults>>

(* _init_then_open got the link: session_open goes to Bob. *)
Open ==
  /\ setup = "runs" /\ setup' = "opened"
  /\ UNCHANGED <<exists, status, keyStatus, keyFinal, late, active>>
  /\ UNCHANGED <<bus, nodes, chain, audit, cancels, faults>>

(* ... or it did not: the session is aborted, whatever its status is by    *)
(* now, and Alice told.                                                    *)
SetupFails ==
  /\ setup = "runs" /\ setup' = "failed"
  /\ IF exists THEN SaveStatus("aborted") ELSE UNCHANGED <<status, active>>
  /\ events' = Raise("endedAlice")
  /\ UNCHANGED <<exists, keyStatus, keyFinal, late, bus>>
  /\ UNCHANGED <<alice, aliceState, bobs, chain, audit, cancels, faults>>

(* Mutant: join_session does not look at the status. *)
JoinAnytime ==
  /\ exists /\ setup = "opened"
  /\ SaveStatus("sending")
  /\ bob' = TRUE /\ receive' = "polls"
  /\ events' = Raise("joined")
  /\ UNCHANGED <<exists, keyStatus, keyFinal, late, setup, bus, alice>>
  /\ UNCHANGED <<aliceState, bobKey, chain, audit, cancels, faults>>

(* Bob handles session_open; join_session answers 409 unless the session   *)
(* is still initializing.                                                  *)
Join ==
  /\ exists /\ setup = "opened" /\ status = "initializing"
  /\ SaveStatus("sending")
  /\ bob' = TRUE /\ receive' = "polls"
  /\ events' = Raise("joined")
  /\ UNCHANGED <<exists, keyStatus, keyFinal, late, setup, bus, alice>>
  /\ UNCHANGED <<aliceState, bobKey, chain, audit, cancels, faults>>

(* on_receiver_joined and _dispatch_pipeline: nothing happens without the  *)
(* session's local state; an event delivered twice dispatches twice.       *)
Dispatch ==
  /\ \/ alice # "posting" /\ Take("joined") /\ UNCHANGED faults
     \/ alice = "posting" /\ Take("joined") /\ Strike("early")
     \/ events["joined"] > 0 /\ UNCHANGED events /\ Strike("duplicate")
  /\ IF alice = "active"
     THEN /\ chords' = chords + 1
          /\ receive' = IF receive = "polls" THEN "gets" ELSE receive
     ELSE UNCHANGED <<chords, receive>>
  /\ UNCHANGED <<record, bus, alice, aliceState, bob, bobKey, msgs, drawn>>
  /\ UNCHANGED <<audit, cancels>>

(* Bob's receive loop ends and posts its measurements, once: a failed post *)
(* is only logged, and without measurements there is none.  An abort does  *)
(* not end the loop.                                                       *)
Measure ==
  /\ receive \in {"polls", "gets"}
  /\ receive' = "over"
  /\ \/ receive = "gets" /\ exists /\ measured' = TRUE /\ SaveStatus(status)
     \/ UNCHANGED <<measured, status, active>>
  /\ UNCHANGED <<exists, keyStatus, keyFinal, late, setup, sift, alice, aliceState>>
  /\ UNCHANGED <<bob, bobKey, events, chain, audit, cancels, faults>>

(* All batches of a chord went through: its callback is queued. *)
ChordCompletes ==
  /\ chords > 0 /\ chords' = chords - 1
  /\ msgs' = [msgs EXCEPT ![ST] = @ + 1]
  /\ UNCHANGED <<record, bus, nodes, drawn, audit, cancels, faults>>

(* _terminate_session_worker: nothing works off the session's queue. *)
WorkerTerminated == alice = "free"

(* A batch failed for good, or there is no worker any more: the callback   *)
(* never runs.                                                             *)
ChordDies ==
  /\ chords > 0 /\ chords' = chords - 1
  /\ \/ WorkerTerminated /\ UNCHANGED faults
     \/ Strike("chord")
  /\ UNCHANGED <<record, bus, nodes, msgs, drawn, audit, cancels>>

-----------------------------------------------------------------------------
(* The tasks of the chain *)

Count(b) == IF b THEN 1 ELSE 0

(* A task has run: its message leaves the queue and the messages of next   *)
(* enter it, or its worker dies before the late acknowledgement.           *)
Replace(m, next) ==
  msgs' = [x \in Msg |-> msgs[x] - Count(x = m) + Count(x \in next)]
Ran(m, next) ==
  /\ msgs[m] > 0
  /\ \/ Replace(m, next) /\ UNCHANGED faults
     \/ Strike("redelivery")
        /\ msgs' = [x \in Msg |-> msgs[x] + Count(x \in next)]

(* assemble_and_sift_task without measurements until its deadline, or      *)
(* without Alice's bits.                                                   *)
SiftFails ==
  /\ ~measured \/ ~exists \/ ~aliceState
  /\ Ran(ST, {<<"QKT", 0, 0>>})
  /\ UNCHANGED <<record, bus, nodes, chords, drawn, audit, cancels>>

(* Otherwise it draws a sample and posts it for Bob; that the post failed  *)
(* is only logged.  Whether the key will do is settled by now.             *)
Sift ==
  /\ measured /\ exists /\ aliceState
  /\ drawn < MaxKeys /\ drawn' = drawn + 1
  /\ \E good \in {0, drawn'} :
       \/ /\ Ran(ST, {<<"QKT", good, 0>>})
          /\ sift' = drawn' /\ events' = Raise("sift")
       \/ /\ Strike("lost")
          /\ msgs[ST] > 0 /\ Replace(ST, {<<"QKT", good, 0>>})
          /\ UNCHANGED <<sift, events>>
  /\ UNCHANGED <<record, measured, alice, aliceState, bobs, chords>>
  /\ UNCHANGED <<audit, cancels>>

(* qber_key_task *)
DeriveKey(k) ==
  /\ Ran(<<"QKT", k, 0>>, {<<"NT", k, 0>>})
  /\ aliceState' = (aliceState /\ k = 0)
  /\ UNCHANGED <<record, bus, alice, bobs, events>>
  /\ UNCHANGED <<chords, drawn, audit, cancels>>

(* Mutant: the key is activated before the upload's status is looked at. *)
PublishKeyActivates(k) ==
  /\ exists /\ UNCHANGED <<exists, setup>>
  /\ keyFinal' = k
  /\ Activate
  /\ IF k # 0
     THEN /\ SaveStatus("done")
          /\ events' = Raise("endedAlice")
     ELSE /\ SaveStatus("aborted")
          /\ events' = [events EXCEPT !["endedAlice"] = @ + 1,
                                      !["abortedBob"] = @ + 1]
  /\ UNCHANGED handedOut

(* Mutant: a late abort clears the key of a done session only. *)
PublishKeyKeepsDone(k) ==
  /\ exists /\ UNCHANGED <<exists, setup>>
  /\ keyFinal' = k
  /\ IF k # 0
     THEN /\ Activate /\ SaveStatus("done")
          /\ events' = Raise("endedAlice")
     ELSE /\ SaveStatus(IF status = "done" THEN "done" ELSE "aborted")
          /\ events' = [events EXCEPT !["endedAlice"] = @ + 1,
                                      !["abortedBob"] = @ + 1]
          /\ UNCHANGED <<keyStatus, late, activations>>
  /\ UNCHANGED handedOut

(* publish_key on the KME; it looks at the record's existence only. *)
PublishKey(k) ==
  /\ exists /\ UNCHANGED <<exists, setup>>
  /\ keyFinal' = k
  /\ IF k # 0
     THEN /\ Activate /\ SaveStatus("done")
          /\ events' = Raise("endedAlice")
     ELSE /\ SaveStatus("aborted")
          /\ events' = [events EXCEPT !["endedAlice"] = @ + 1,
                                      !["abortedBob"] = @ + 1]
          /\ UNCHANGED <<keyStatus, late, activations>>
  /\ UNCHANGED handedOut

(* notify_kme_task, answered *)
Notify(k, r) ==
  /\ PublishKey(k)
  /\ Ran(<<"NT", k, r>>, {})
  /\ UNCHANGED <<bus, alice, aliceState, bobs, chords, drawn, cancels>>

(* Mutant: the last task of the chain is not retried. *)
NotifyFailsForGood(k, r) ==
  /\ msgs[<<"NT", k, r>>] > 0
  /\ \/ PublishKey(k) /\ Strike("lost")
     \/ UNCHANGED <<record, events, audit>> /\ Strike("lost")
     \/ ~exists /\ UNCHANGED <<record, events, audit, faults>>
  /\ Replace(<<"NT", k, r>>, {})
  /\ UNCHANGED <<bus, alice, aliceState, bobs, chords, drawn, cancels>>

Retried(k, r) == IF r < NtRetries THEN {<<"NT", k, r + 1>>} ELSE {}

(* notify_kme_task without an answer: the KME may have done its part.      *)
(* Without a record the answer is 404.  Both are retried.                  *)
NotifyFails(k, r) ==
  /\ msgs[<<"NT", k, r>>] > 0
  /\ \/ PublishKey(k) /\ Strike("lost")
     \/ UNCHANGED <<record, events, audit>> /\ Strike("lost")
     \/ ~exists /\ UNCHANGED <<record, events, audit, faults>>
  /\ Replace(<<"NT", k, r>>, Retried(k, r))
  /\ UNCHANGED <<bus, alice, aliceState, bobs, chords, drawn, cancels>>

-----------------------------------------------------------------------------
(* The nodes at the end of a session *)

(* on_sift_ready and _do_local_sift: Bob sifts with the stored upload, or  *)
(* logs that he did not get it.                                            *)
BobSifts ==
  /\ Take("sift")
  /\ \/ bobKey' = (IF bob /\ exists /\ sift # 0 THEN sift ELSE bobKey) /\ UNCHANGED faults
     \/ bobKey' = bobKey /\ Strike("lost")
  /\ UNCHANGED <<record, bus, alice, aliceState, bob, receive>>
  /\ UNCHANGED <<chain, audit, cancels>>

(* on_session_aborted *)
BobDrops ==
  /\ Take("abortedBob")
  /\ bob' = FALSE /\ bobKey' = 0
  /\ UNCHANGED <<record, bus, alice, aliceState, receive>>
  /\ UNCHANGED <<chain, audit, cancels, faults>>

(* Mutant: Alice does not poll. *)
AliceCleansOnEvent ==
  /\ Take("endedAlice")
  /\ alice' = IF alice = "active" THEN "free" ELSE alice
  /\ UNCHANGED <<record, bus, aliceState, bobs, chain, audit, cancels, faults>>

(* _cleanup, on an event or because the poll found a terminal status. *)
AliceCleans ==
  /\ \/ Take("endedAlice")
     \/ alice = "active" /\ exists /\ status \in Terminal /\ UNCHANGED events
  /\ alice' = IF alice = "active" THEN "free" ELSE alice
  /\ UNCHANGED <<record, bus, aliceState, bobs, chain, audit, cancels, faults>>

-----------------------------------------------------------------------------
(* Users of the key *)

(* Mutant: the consumption is not saved. *)
ConsumeKeepsActive ==
  /\ exists /\ keyStatus = "active" /\ ~late
  /\ handedOut' = Append(handedOut, keyFinal)
  /\ UNCHANGED <<record, activations, bus, nodes, chain, cancels, faults>>

(* consume_key of an active key in time *)
Consume ==
  /\ exists /\ keyStatus = "active" /\ ~late
  /\ keyStatus' = "consumed" /\ SaveStatus(status)
  /\ handedOut' = Append(handedOut, keyFinal)
  /\ UNCHANGED <<exists, keyFinal, late, setup, activations>>
  /\ UNCHANGED <<bus, nodes, chain, cancels, faults>>

(* Mutant: a status of sessions ends up in key_status. *)
ConsumeLateAborts ==
  /\ exists /\ keyStatus = "active" /\ late
  /\ keyStatus' = "aborted"
  /\ UNCHANGED <<exists, status, keyFinal, late, active, setup>>
  /\ UNCHANGED <<bus, nodes, chain, audit, cancels, faults>>

(* consume_key too late *)
ConsumeLate ==
  /\ exists /\ keyStatus = "active" /\ late
  /\ keyStatus' = "expired" /\ SaveStatus(status)
  /\ UNCHANGED <<exists, keyFinal, late, setup>>
  /\ UNCHANGED <<bus, nodes, chain, audit, cancels, faults>>

(* cancel_session: at any status, and without an event to the nodes. *)
Cancel ==
  /\ exists /\ cancels < MaxCancels /\ cancels' = cancels + 1
  /\ SaveStatus("aborted")
  /\ UNCHANGED <<exists, keyStatus, keyFinal, late, setup>>
  /\ UNCHANGED <<bus, nodes, chain, audit, faults>>

(* BB84_KEY_TTL has passed. *)
KeyTimePasses ==
  /\ keyStatus = "active" /\ ~late /\ late' = TRUE
  /\ UNCHANGED <<exists, status, keyStatus, keyFinal, active, setup>>
  /\ UNCHANGED <<bus, nodes, chain, audit, cancels, faults>>

-----------------------------------------------------------------------------
(* Faults *)

(* SESSION_TTL has passed: the record goes, the index of active sessions   *)
(* has no expiry.                                                          *)
RecordExpires ==
  /\ Strike("expiry")
  /\ exists /\ exists' = FALSE
  /\ UNCHANGED <<status, keyStatus, keyFinal, late, active, setup>>
  /\ UNCHANGED <<bus, nodes, chain, audit, cancels>>

(* STATE_TTL has passed since Alice stored her bits. *)
AliceStateExpires ==
  /\ Strike("expiry")
  /\ aliceState /\ aliceState' = FALSE
  /\ UNCHANGED <<record, bus, alice, bobs, events, chain, audit, cancels>>

(* Alice's process restarts: her dictionary is empty. *)
AliceCrashes ==
  /\ Strike("alice")
  /\ alice \in {"posting", "active"} /\ alice' = "free"
  /\ UNCHANGED <<record, bus, aliceState, bobs, events, chain, audit, cancels>>

(* Bob's process restarts; session_open comes again, but the join answers  *)
(* 409 until the event is dropped.                                         *)
BobCrashes ==
  /\ Strike("bob")
  /\ receive # "none" /\ receive' = "over"
  /\ bob' = FALSE /\ bobKey' = 0
  /\ UNCHANGED <<record, bus, alice, aliceState, events, chain, audit, cancels>>

-----------------------------------------------------------------------------
(* The KME's process dies in a handler, between two of its Redis commands  *)
(* and publications.  What was written stays; the caller gets no answer,   *)
(* and a task _init_then_open that runs is gone.  Calls that find no KME   *)
(* are lost calls.                                                         *)

KmeDies ==
  /\ Strike("kme")
  /\ setup' = IF setup = "runs" THEN "lost" ELSE setup

(* In no handler. *)
KmeStops ==
  /\ KmeDies /\ setup = "runs"
  /\ UNCHANGED <<exists, status, keyStatus, keyFinal, late, active>>
  /\ UNCHANGED <<bus, nodes, chain, audit, cancels>>

(* In create_session, before it has begun the task: Alice's call fails. *)
CreateCut ==
  /\ Strike("kme") /\ setup' = "lost"
  /\ alice = "idle" /\ alice' = "free"
  /\ exists' = TRUE /\ CutSave("initializing")
  /\ UNCHANGED <<keyStatus, keyFinal, late, bus, aliceState, bobs, events>>
  /\ UNCHANGED <<chain, audit, cancels>>

(* In the task, which has found no link. *)
SetupCut ==
  /\ KmeDies /\ setup = "runs"
  /\ exists /\ CutSave("aborted")
  /\ UNCHANGED <<exists, keyStatus, keyFinal, late>>
  /\ UNCHANGED <<bus, nodes, chain, audit, cancels>>

(* In join_session, or its answer is lost: the join counts, but Bob does   *)
(* not know of it and is refused when he tries again.                      *)
JoinUnanswered ==
  /\ exists /\ setup = "opened" /\ status = "initializing"
  /\ \/ Strike("lost") /\ SaveStatus("sending") /\ events' = Raise("joined")
     \/ Strike("kme") /\ CutSave("sending") /\ UNCHANGED events
  /\ UNCHANGED <<exists, keyStatus, keyFinal, late, setup, bus, alice, aliceState>>
  /\ UNCHANGED <<bobs, chain, audit, cancels>>

(* In upload_measurements *)
MeasureCut ==
  /\ KmeDies
  /\ receive = "gets" /\ receive' = "over"
  /\ exists /\ measured' = TRUE /\ CutSave(status)
  /\ UNCHANGED <<exists, keyStatus, keyFinal, late, sift, alice, aliceState>>
  /\ UNCHANGED <<bob, bobKey, events, chain, audit, cancels>>

(* publish_key, broken off in activate_key, in the update that follows it, *)
(* or, for an abort, after Bob was told.                                   *)
PublishCut(k) ==
  /\ exists /\ UNCHANGED <<exists, handedOut>>
  /\ \/ /\ k # 0 /\ Activate
        /\ CutSave(status) /\ UNCHANGED <<keyFinal, events>>
     \/ /\ k # 0 /\ Activate
        /\ status' = "done" /\ active' \in {FALSE, (status \in Running)}
        /\ keyFinal' = k /\ UNCHANGED events
     \/ /\ k = 0 /\ keyFinal' = 0
        /\ \/ CutSave("aborted") /\ UNCHANGED events
           \/ SaveStatus("aborted") /\ events' = Raise("abortedBob")
        /\ UNCHANGED <<keyStatus, late, activations>>

NotifyCut(k, r) ==
  /\ KmeDies
  /\ msgs[<<"NT", k, r>>] > 0 /\ Replace(<<"NT", k, r>>, Retried(k, r))
  /\ PublishCut(k)
  /\ UNCHANGED <<bus, alice, aliceState, bobs, chords, drawn, cancels>>

(* In consume_key: the key is spent, and nobody has it. *)
ConsumeCut ==
  /\ KmeDies
  /\ exists /\ keyStatus = "active" /\ CutSave(status)
  /\ keyStatus' = IF late THEN "expired" ELSE "consumed"
  /\ UNCHANGED <<exists, keyFinal, late, bus, nodes, chain, audit, cancels>>

(* In cancel_session *)
CancelCut ==
  /\ KmeDies
  /\ exists /\ cancels < MaxCancels /\ cancels' = cancels + 1
  /\ CutSave("aborted")
  /\ UNCHANGED <<exists, keyStatus, keyFinal, late, bus, nodes, chain, audit>>

KmeCrash == \/ KmeStops \/ CreateCut \/ SetupCut \/ MeasureCut \/ ConsumeCut \/ CancelCut
            \/ \E k \in Keys, r \in 0..NtRetries : NotifyCut(k, r)

-----------------------------------------------------------------------------
Pipeline == \/ ChordCompletes \/ SiftFails \/ Sift
            \/ \E k \in Keys : DeriveKey(k)
            \/ \E k \in Keys, r \in 0..NtRetries : Notify(k, r) \/ NotifyFails(k, r)

Node == AliceStores \/ Dispatch \/ Measure \/ BobSifts \/ BobDrops \/ AliceCleans

Setup == Open \/ SetupFails

User == Create \/ Join \/ Consume \/ ConsumeLate \/ Cancel \/ KeyTimePasses

Fault == \/ ChordDies \/ RecordExpires \/ AliceStateExpires
         \/ AliceCrashes \/ BobCrashes \/ JoinUnanswered \/ KmeCrash

Next == Pipeline \/ Setup \/ Node \/ User \/ Fault

Spec == Init /\ [][Next]_vars

(* Workers keep taking messages and the nodes keep handling events and     *)
(* polling; what users do, and whether Bob joins, is not fair.             *)
FairSpec == Spec /\ WF_vars(Pipeline) /\ WF_vars(Node)

-----------------------------------------------------------------------------
(* Properties *)

TypeOK ==
  /\ exists \in BOOLEAN /\ late \in BOOLEAN /\ active \in BOOLEAN
  /\ status \in Running \cup Terminal
  /\ setup \in {"none", "runs", "opened", "failed", "lost"}
  /\ keyStatus \in {"none", "active", "consumed", "expired"}
  /\ keyFinal \in Keys /\ sift \in Keys /\ bobKey \in Keys
  /\ measured \in BOOLEAN
  /\ alice \in {"idle", "posting", "active", "free"}
  /\ aliceState \in BOOLEAN /\ bob \in BOOLEAN
  /\ receive \in {"none", "polls", "gets", "over"}
  /\ events \in [EventKinds -> Nat]
  /\ chords \in Nat /\ msgs \in [Msg -> Nat] /\ drawn \in Keys
  /\ activations \in Nat /\ handedOut \in Seq(Keys)
  /\ cancels \in 0..MaxCancels
  /\ faults \in [FaultKinds -> Nat]

Unspent(kinds) == \A k \in kinds : faults[k] = MaxFaults[k]

(* The outcome is posted once: no event, post or task was repeated, or     *)
(* broken off.                                                             *)
PostedOnce == Unspent({"duplicate", "lost", "redelivery", "kme"})

(* One call of consume-key gets the key, at most: a consumed key is not    *)
(* handed out again (consume_key), cancelled or not.                       *)
KeyHandedOutOnce == PostedOnce => Len(handedOut) <= 1

(* A key that was handed out is not empty, and Bob derived none other from *)
(* the sift upload he was told of (_do_local_sift).                        *)
HandedOutKeyIsBobs ==
  PostedOnce =>
    \A i \in 1..Len(handedOut) :
      handedOut[i] # 0 /\ (bobKey = 0 \/ bobKey = handedOut[i])

(* "Erreur non recup" (SessionStatus) and _TERMINAL_STATUSES: a session    *)
(* that is done or aborted stays so.                                       *)
TerminalIsFinal == [][(status \in Terminal) => (status' = status)]_vars

(* ... and so it does as long as it is not cancelled nor posted twice.     *)
TerminalUnlessDisturbed ==
  [][PostedOnce' /\ cancels' = 0 /\ status \in Terminal
       => status' = status]_vars

Undisturbed == PostedOnce /\ cancels = 0

Phase == IF setup = "none" THEN "none" ELSE IF exists THEN status ELSE "gone"

(* The record, the nodes and the chain implement the session of KeySession, *)
(* which ends once and delivers one key as long as it is neither cancelled *)
(* nor posted twice (SessionStatus, _TERMINAL_STATUSES, publish_key).      *)
Session == INSTANCE KeySession WITH
  Values      <- Keys,
  Empty       <- 0,
  phase       <- Phase,
  key         <- IF exists THEN keyStatus ELSE "none",
  value       <- IF exists THEN keyFinal ELSE 0,
  undisturbed <- Undisturbed

ImplementsSession == Session!Spec

(* Only a session that is done has a key to hand out. *)
ActiveKeyOnlyWhenDone ==
  PostedOnce /\ cancels = 0 =>
    (exists /\ keyStatus = "active" => status = "done")

(* kme:sessions:active never misses a session whose link was set up and    *)
(* that goes on, though the KME may die between the two commands of        *)
(* save_session; unless it does, no session is listed that has ended.      *)
IndexExact ==
  exists => /\ setup = "opened" /\ status \in Running => active
            /\ Unspent({"kme"}) => (active <=> status \in Running)

(* Every activation of the key pays for one hand-out at most, however the  *)
(* calls of users, retries and redelivered tasks interleave.               *)
HandedOutPerActivation ==
  Len(handedOut) + Count(keyStatus = "active") <= activations

(* A done session has a key: no late abort, cancellation or second report  *)
(* leaves it done and without one.                                         *)
DoneHasKey == status = "done" => keyFinal # 0 /\ keyStatus # "none"

(* If Alice and the KME stay up, no batch is lost and no record runs out   *)
(* of time, a session Bob joined is eventually done or aborted, though Bob *)
(* may crash and posts may fail.                                           *)
SessionSettles ==
  []Unspent({"alice", "early", "chord", "expiry", "kme"}) =>
    ((status = "sending") ~> (status \in Terminal))

(* ... and Alice is free for her next session, though a cancellation is    *)
(* not announced to her.                                                   *)
AliceFreed ==
  []Unspent({"early", "chord", "expiry", "kme"}) =>
    ((alice = "active" /\ status # "initializing") ~> (alice = "free"))
=============================================================================
