------------------------------ MODULE QkdlPool ------------------------------
(***************************************************************************)
(* How the KME shares its pool of quantum links (QKDLs) among sessions:    *)
(* the per-QKDL locks in Redis, the background tasks that initialise and   *)
(* tear down a link over HTTP (src/kme/main.py), and the QKDL's own table  *)
(* of sessions, cooldown and network objects (src/qunetsim_service.py).    *)
(*                                                                         *)
(* The KME and each QKDL are one asyncio process: what a handler does      *)
(* between two awaits is one step.  A request, the work it starts in the   *)
(* QKDL's executor and the answer are separate steps, and a client that    *)
(* gave up does not stop the QKDL's handler.                               *)
(***************************************************************************)
EXTENDS Integers, Sequences, FiniteSets

CONSTANTS
  Session,      \* session ids, each drawn once by new_session_id
  Pool,         \* QKDL_POOL, the links in the order of the configuration
  None,
  InitRetries,  \* INIT_RETRIES
  MaxReports,   \* bound: how often NT posts the outcome of one session
  MaxCancels,   \* bound: how often a session is cancelled by a user
  MaxFaults     \* bound: how often each kind of fault may strike

FaultKinds == {"crash", "timeout", "lost", "expiry", "start"}
Qkdl       == {Pool[i] : i \in 1..Len(Pool)}

ASSUME PoolAssumption ==
  /\ Pool \in Seq(Qkdl)
  /\ None \notin Session /\ None \notin Qkdl
  /\ InitRetries \in Nat \ {0}
  /\ MaxReports \in Nat /\ MaxCancels \in Nat
  /\ MaxFaults \in [FaultKinds -> Nat]

Try  == 1..InitRetries
Net  == Session \X Try                \* the NetworkSession made by an attempt
Stop == Session \X (1..(MaxReports + MaxCancels)) \* the _stop_qkdl tasks

VARIABLES
  status,    \* session["status"]; "over" stands for done and aborted
  url,       \* session["qkdl_url"]
  lock,      \* the Redis key of each QKDL's lock
  initPc,    \* where the task _init_then_open of a session is
  tries,     \* its loop variable attempt
  reply,     \* the answer of /network/init it has not read yet
  opened,    \* sessions whose session_open was published
  joined,    \* sessions Bob has joined, hence with a running pipeline
  reports,   \* how often the pipeline has posted the outcome
  cancels,   \* how often the session was cancelled
  stop,      \* where each _stop_qkdl task is
  table,     \* the QKDL's _sessions: the attempt whose object is filed
  net,       \* the life of each NetworkSession
  waiter,    \* the stop task that waits for an object's teardown, or 0
  cooldown,  \* QKDLs that are cooling down
  faults     \* how many faults of each kind are left

kme  == <<status, url, lock, opened, joined, reports, cancels>>
task == <<initPc, tries, reply>>
qkdl == <<table, net, waiter, cooldown>>
vars == <<kme, task, stop, qkdl, faults>>

Init ==
  /\ status = [s \in Session |-> "none"]
  /\ url = [s \in Session |-> None]
  /\ lock = [q \in Qkdl |-> None]
  /\ initPc = [s \in Session |-> "none"]
  /\ tries = [s \in Session |-> 1]
  /\ reply = [s \in Session |-> "none"]
  /\ opened = {} /\ joined = {}
  /\ reports = [s \in Session |-> 0]
  /\ cancels = [s \in Session |-> 0]
  /\ stop = [t \in Stop |-> "none"]
  /\ table = [s \in Session |-> 0]
  /\ net = [o \in Net |-> "none"]
  /\ waiter = [o \in Net |-> 0]
  /\ cooldown = {}
  /\ faults = MaxFaults

Strike(kind) ==
  /\ faults[kind] > 0
  /\ faults' = [faults EXCEPT ![kind] = @ - 1]

-----------------------------------------------------------------------------
(* The lock *)

Free(q) == lock[q] = None

(* Mutant: the holder is not looked at. *)
PickAny(q) == q = Pool[1]

(* pick_free_qkdl: the first free link of the pool. *)
PickFree(q) ==
  \E i \in 1..Len(Pool) :
    /\ q = Pool[i] /\ Free(q)
    /\ \A j \in 1..(i - 1) : ~Free(Pool[j])

(* Mutant: the lock is deleted whoever holds it. *)
ReleaseAny(s) == lock' = [lock EXCEPT ![url[s]] = None]

(* _release_qkdl_lock: only while it is the session's own. *)
Release(s) ==
  lock' = IF lock[url[s]] = s THEN [lock EXCEPT ![url[s]] = None] ELSE lock

(* SET ... ex=600.  Five attempts of at most HTTP_TO seconds end before, so *)
(* the time only runs out on a session whose initialisation is over.        *)
Expire(q) ==
  /\ Strike("expiry")
  /\ lock[q] # None /\ initPc[lock[q]] \in {"over", "lost"}
  /\ lock' = [lock EXCEPT ![q] = None]
  /\ UNCHANGED <<status, url, opened, joined, reports, cancels>>
  /\ UNCHANGED <<task, stop, qkdl>>

-----------------------------------------------------------------------------
(* The KME's handlers *)

(* create_session: everything up to the answer is one step of the event    *)
(* loop; a refusal (no free link, unknown node) leaves nothing behind.     *)
Create(s) ==
  /\ status[s] = "none"
  /\ \E q \in Qkdl :
       /\ PickFree(q)
       /\ lock' = [lock EXCEPT ![q] = s]
       /\ url' = [url EXCEPT ![s] = q]
  /\ status' = [status EXCEPT ![s] = "initializing"]
  /\ initPc' = [initPc EXCEPT ![s] = "send"]
  /\ UNCHANGED <<opened, joined, reports, cancels, tries, reply>>
  /\ UNCHANGED <<stop, qkdl, faults>>

(* Bob, told by session_open, joins; a session that is no longer           *)
(* initializing answers 409.  Alice then starts the pipeline.              *)
Join(s) ==
  /\ s \in opened
  /\ status[s] = "initializing"
  /\ status' = [status EXCEPT ![s] = "sending"]
  /\ joined' = joined \cup {s}
  /\ UNCHANGED <<url, lock, opened, reports, cancels>>
  /\ UNCHANGED <<task, stop, qkdl, faults>>

SpawnStop(s) ==
  stop' = [stop EXCEPT ![<<s, reports[s] + cancels[s] + 1>>] = "due"]

(* Mutant: publish_key leaves the link alone. *)
ReportWithoutStop(s) ==
  /\ s \in joined /\ reports[s] < MaxReports
  /\ status' = [status EXCEPT ![s] = "over"]
  /\ reports' = [reports EXCEPT ![s] = @ + 1]
  /\ UNCHANGED <<url, lock, opened, joined, cancels, task, stop, qkdl, faults>>

(* publish_key: NT reports success or failure; it is delivered again when  *)
(* its answer is lost or its worker dies before the late acknowledgement.  *)
Report(s) ==
  /\ s \in joined /\ reports[s] < MaxReports
  /\ status' = [status EXCEPT ![s] = "over"]
  /\ reports' = [reports EXCEPT ![s] = @ + 1]
  /\ SpawnStop(s)
  /\ UNCHANGED <<url, lock, opened, joined, cancels, task, qkdl, faults>>

(* Mutant: the link is torn down but the session is not aborted. *)
CancelKeepsStatus(s) ==
  /\ status[s] # "none" /\ cancels[s] < MaxCancels
  /\ cancels' = [cancels EXCEPT ![s] = @ + 1]
  /\ SpawnStop(s)
  /\ UNCHANGED <<status, url, lock, opened, joined, reports, task, qkdl, faults>>

(* cancel_session *)
Cancel(s) ==
  /\ status[s] # "none" /\ cancels[s] < MaxCancels
  /\ status' = [status EXCEPT ![s] = "over"]
  /\ cancels' = [cancels EXCEPT ![s] = @ + 1]
  /\ SpawnStop(s)
  /\ UNCHANGED <<url, lock, opened, joined, reports, task, qkdl, faults>>

(* The KME dies and comes back: Redis keeps its state, tasks are gone.     *)
Crash ==
  /\ Strike("crash")
  /\ initPc' = [s \in Session |->
                  IF initPc[s] \in {"none", "over"} THEN initPc[s] ELSE "lost"]
  /\ reply' = [s \in Session |-> "none"]
  /\ stop' = [t \in Stop |-> IF stop[t] = "none" THEN "none" ELSE "over"]
  /\ waiter' = [o \in Net |-> 0]
  /\ UNCHANGED <<kme, tries, table, net, cooldown>>

-----------------------------------------------------------------------------
(* _init_qkdl and /network/init *)

Cooling(q) == q \in cooldown

(* Entries of objects that are no longer active are purged first. *)
Purged(q) ==
  [s \in Session |->
     IF url[s] = q /\ table[s] # 0 /\ net[<<s, table[s]>>] # "up" THEN 0
     ELSE table[s]]

Filed(s, q) == url[s] = q /\ Purged(q)[s] # 0

(* The request and the QKDL's handler up to its first await. *)
InitCall(s) ==
  LET q == url[s]
      o == <<s, tries[s]>>
      Answer(r) == reply' = [reply EXCEPT ![s] = r] /\ UNCHANGED <<net, waiter>>
  IN /\ initPc[s] = "send"
     /\ initPc' = [initPc EXCEPT ![s] = "await"]
     /\ \/ /\ Cooling(q)
           /\ Answer("cooling")
           /\ UNCHANGED table
        \/ /\ ~Cooling(q) /\ Filed(s, q)
           /\ Answer("ready")
           /\ table' = Purged(q)
        \/ /\ ~Cooling(q) /\ ~Filed(s, q) /\ \E x \in Session : Filed(x, q)
           /\ Answer("busy")
           /\ table' = Purged(q)
        \/ /\ ~Cooling(q) /\ ~\E x \in Session : Filed(x, q)
           /\ net' = [net EXCEPT ![o] = "starting"]
           /\ waiter' = [waiter EXCEPT ![o] = 0]
           /\ table' = Purged(q)
           /\ UNCHANGED reply
     /\ UNCHANGED <<kme, tries, stop, cooldown, faults>>

(* Mutant: only the first attempt hears the answer. *)
AnswerFirstTry(o, r) ==
  reply' = IF initPc[o[1]] = "await" /\ tries[o[1]] = 1
           THEN [reply EXCEPT ![o[1]] = r] ELSE reply

(* The handler's last part answers the attempt that is still waiting. *)
AnswerTry(o, r) ==
  reply' = IF initPc[o[1]] = "await" /\ tries[o[1]] = o[2]
           THEN [reply EXCEPT ![o[1]] = r] ELSE reply

(* NetworkSession.start, once it is through *)
Comes(o) ==
  /\ net[o] = "starting"
  /\ net' = [net EXCEPT ![o] = "up"]

(* session.start has returned and the object is filed, over any other. *)
NetworkUp(o) ==
  /\ Comes(o)
  /\ table' = [table EXCEPT ![o[1]] = o[2]]
  /\ AnswerTry(o, "ready")
  /\ UNCHANGED <<kme, initPc, tries, stop, waiter, cooldown, faults>>

(* session.start has raised: 500. *)
NetworkStartFails(o) ==
  /\ Strike("start")
  /\ net[o] = "starting"
  /\ net' = [net EXCEPT ![o] = "down"]
  /\ AnswerTry(o, "error")
  /\ UNCHANGED <<kme, initPc, tries, stop, table, waiter, cooldown>>

(* Mutant: one attempt too many. *)
NextTryOffByOne(S) ==
  /\ initPc' = [s \in Session |->
                  IF s \notin S THEN initPc[s]
                  ELSE IF tries[s] <= InitRetries THEN "send" ELSE "failing"]
  /\ tries' = [s \in Session |->
                 IF s \in S /\ tries[s] <= InitRetries THEN tries[s] + 1
                 ELSE tries[s]]

(* The loop goes on with the next attempt or falls out of its range. *)
NextTry(S) ==
  /\ initPc' = [s \in Session |->
                  IF s \notin S THEN initPc[s]
                  ELSE IF tries[s] < InitRetries THEN "send" ELSE "failing"]
  /\ tries' = [s \in Session |->
                 IF s \in S /\ tries[s] < InitRetries THEN tries[s] + 1
                 ELSE tries[s]]

(* 200: open the session for Eve and Bob, whatever its status is by now. *)
InitReady(s) ==
  /\ initPc[s] = "await" /\ reply[s] = "ready"
  /\ initPc' = [initPc EXCEPT ![s] = "over"]
  /\ reply' = [reply EXCEPT ![s] = "none"]
  /\ opened' = opened \cup {s}
  /\ UNCHANGED <<status, url, lock, joined, reports, cancels>>
  /\ UNCHANGED <<tries, stop, qkdl, faults>>

(* 409 breaks the loop; 503 sleeps for the remaining cooldown. *)
InitRefused(s) ==
  /\ initPc[s] = "await" /\ reply[s] \in {"busy", "cooling"}
  /\ initPc' = [initPc EXCEPT
                  ![s] = IF reply[s] = "busy" THEN "failing" ELSE "cooling"]
  /\ reply' = [reply EXCEPT ![s] = "none"]
  /\ UNCHANGED <<kme, tries, stop, qkdl, faults>>

(* 500 *)
InitError(s) ==
  /\ initPc[s] = "await" /\ reply[s] = "error"
  /\ NextTry({s})
  /\ reply' = [reply EXCEPT ![s] = "none"]
  /\ UNCHANGED <<kme, stop, qkdl, faults>>

(* The QKDL was not reached, or did not answer within HTTP_TO. *)
InitUnanswered(s) ==
  /\ \/ Strike("lost") /\ initPc[s] = "send"
     \/ Strike("timeout") /\ initPc[s] = "await" /\ reply[s] = "none"
  /\ NextTry({s})
  /\ UNCHANGED <<kme, reply, stop, qkdl>>

InitFails(s) ==
  /\ initPc[s] = "failing"
  /\ status' = [status EXCEPT ![s] = "over"]
  /\ Release(s)
  /\ initPc' = [initPc EXCEPT ![s] = "over"]
  /\ UNCHANGED <<url, opened, joined, reports, cancels>>
  /\ UNCHANGED <<tries, reply, stop, qkdl, faults>>

(* The sleep is as long as the cooldown was when the QKDL answered. *)
InitWakes(s) ==
  /\ initPc[s] = "cooling" /\ ~Cooling(url[s])
  /\ NextTry({s})
  /\ UNCHANGED <<kme, reply, stop, qkdl, faults>>

CooldownOver(q) ==
  /\ Cooling(q)
  /\ cooldown' = cooldown \ {q}
  /\ UNCHANGED <<kme, task, stop, table, net, waiter, faults>>

-----------------------------------------------------------------------------
(* _stop_qkdl and /network/stop *)

(* Mutant: the handler answers while the executor still tears down. *)
StopCallNotAwaited(t) ==
  LET s == t[1]  o == <<s, table[s]>>
  IN /\ stop[t] = "due"
     /\ stop' = [stop EXCEPT ![t] = "release"]
     /\ IF table[s] = 0
        THEN UNCHANGED <<table, net>>
        ELSE /\ table' = [table EXCEPT ![s] = 0]
             /\ net' = [net EXCEPT ![o] = "stopping"]
     /\ UNCHANGED <<kme, task, waiter, cooldown, faults>>

(* The request and the handler up to its first await: the object is popped *)
(* from the table and torn down in the executor.  Without one the handler  *)
(* answers at once.                                                        *)
StopCall(t) ==
  LET s == t[1]  o == <<s, table[s]>>
  IN /\ stop[t] = "due"
     /\ IF table[s] = 0
        THEN /\ stop' = [stop EXCEPT ![t] = "release"]
             /\ UNCHANGED <<table, net, waiter>>
        ELSE /\ stop' = [stop EXCEPT ![t] = "await"]
             /\ table' = [table EXCEPT ![s] = 0]
             /\ net' = [net EXCEPT ![o] = "stopping"]
             /\ waiter' = [waiter EXCEPT ![o] = t[2]]
     /\ UNCHANGED <<kme, task, cooldown, faults>>

(* session.stop has returned: the cooldown begins and the task hears of it. *)
(* Whoever sleeps for an earlier cooldown may wake during the new one.      *)
Sleepers(q) == {s \in Session : initPc[s] = "cooling" /\ url[s] = q}

NetworkDown(o) ==
  /\ net[o] = "stopping"
  /\ net' = [net EXCEPT ![o] = "down"]
  /\ cooldown' = cooldown \cup {url[o[1]]}
  /\ stop' = IF waiter[o] = 0 THEN stop
             ELSE [stop EXCEPT ![<<o[1], waiter[o]>>] = "release"]
  /\ waiter' = [waiter EXCEPT ![o] = 0]
  /\ NextTry(Sleepers(url[o[1]]))
  /\ UNCHANGED <<kme, reply, table, faults>>

(* Mutant: the lock is not released in a finally clause. *)
StopUnansweredEnds(t) ==
  /\ \/ Strike("lost") /\ stop[t] = "due" /\ UNCHANGED waiter
     \/ /\ Strike("timeout") /\ stop[t] = "await"
        /\ waiter' = [o \in Net |-> IF o[1] = t[1] /\ waiter[o] = t[2]
                                    THEN 0 ELSE waiter[o]]
  /\ stop' = [stop EXCEPT ![t] = "over"]
  /\ UNCHANGED <<kme, task, table, net, cooldown>>

(* The QKDL was not reached, or did not answer within 5 s: only logged. *)
StopUnanswered(t) ==
  /\ \/ Strike("lost") /\ stop[t] = "due" /\ UNCHANGED waiter
     \/ /\ Strike("timeout") /\ stop[t] = "await"
        /\ waiter' = [o \in Net |-> IF o[1] = t[1] /\ waiter[o] = t[2]
                                    THEN 0 ELSE waiter[o]]
  /\ stop' = [stop EXCEPT ![t] = "release"]
  /\ UNCHANGED <<kme, task, table, net, cooldown>>

(* finally: _release_qkdl_lock *)
StopReleases(t) ==
  /\ stop[t] = "release"
  /\ Release(t[1])
  /\ stop' = [stop EXCEPT ![t] = "over"]
  /\ UNCHANGED <<status, url, opened, joined, reports, cancels>>
  /\ UNCHANGED <<task, qkdl, faults>>

-----------------------------------------------------------------------------
InitTask(s) == \/ InitCall(s) \/ InitReady(s) \/ InitRefused(s)
               \/ InitError(s) \/ InitWakes(s) \/ InitFails(s)
StopTask(t) == StopCall(t) \/ StopReleases(t)
Executor(o) == NetworkUp(o) \/ NetworkDown(o)

Client(s) == Create(s) \/ Join(s) \/ Report(s) \/ Cancel(s)

Fault == \/ Crash
         \/ \E q \in Qkdl : Expire(q)
         \/ \E s \in Session : InitUnanswered(s)
         \/ \E t \in Stop : StopUnanswered(t)
         \/ \E o \in Net : NetworkStartFails(o)

Next == \/ \E s \in Session : Client(s) \/ InitTask(s)
        \/ \E t \in Stop : StopTask(t)
        \/ \E o \in Net : Executor(o)
        \/ \E q \in Qkdl : CooldownOver(q)
        \/ Fault

Spec == Init /\ [][Next]_vars

(* The event loops and executors run on; clocks advance.  What users, Bob  *)
(* and the pipeline do is not fair.                                        *)
Fairness == /\ \A s \in Session : WF_vars(InitTask(s))
            /\ \A t \in Stop : WF_vars(StopTask(t))
            /\ \A o \in Net : WF_vars(Executor(o))
            /\ \A q \in Qkdl : WF_vars(CooldownOver(q))

FairSpec == Spec /\ Fairness

-----------------------------------------------------------------------------
(* Properties *)

TypeOK ==
  /\ status \in [Session -> {"none", "initializing", "sending", "over"}]
  /\ url \in [Session -> Qkdl \cup {None}]
  /\ lock \in [Qkdl -> Session \cup {None}]
  /\ initPc \in [Session -> {"none", "send", "await", "cooling", "failing",
                             "over", "lost"}]
  /\ tries \in [Session -> Try]
  /\ reply \in [Session -> {"none", "ready", "busy", "cooling", "error"}]
  /\ opened \subseteq Session /\ joined \subseteq opened
  /\ reports \in [Session -> 0..MaxReports]
  /\ cancels \in [Session -> 0..MaxCancels]
  /\ stop \in [Stop -> {"none", "due", "await", "release", "over"}]
  /\ table \in [Session -> Try \cup {0}]
  /\ net \in [Net -> {"none", "starting", "up", "stopping", "down"}]
  /\ waiter \in [Net -> Nat]
  /\ cooldown \subseteq Qkdl
  /\ faults \in [FaultKinds -> Nat]
  /\ \A s \in Session : (url[s] = None) <=> (status[s] = "none")

Live(o)      == net[o] \in {"starting", "up", "stopping"}
LiveNets(q)  == {o \in Net : Live(o) /\ url[o[1]] = q}

(* "Each QKDL instance in the pool holds at most one session at a time"    *)
(* (session_store.py): no two networks are being started, up or being torn *)
(* down on one link.                                                       *)
OneSessionPerLink ==
  \A q \in Qkdl : \A o, p \in LiveNets(q) : o = p

Unspent(kinds) == \A k \in kinds : faults[k] = MaxFaults[k]
NoCancels      == \A s \in Session : cancels[s] = 0
ReportedOnce   == \A s \in Session : reports[s] <= 1

(* A link holds one session at a time through crashes of the KME, lost     *)
(* requests and failed starts, as long as no call to it runs out of time,  *)
(* no lock does, no session is cancelled and no outcome is reported twice. *)
AtMostOneSession ==
  Unspent({"timeout", "expiry"}) /\ NoCancels /\ ReportedOnce
    => OneSessionPerLink

(* The holder of the lock never hears 409 from its link: a session that    *)
(* was admitted is not refused because of another one, as long as the KME  *)
(* stays up, its calls are answered and sessions are left to end.          *)
HolderNeverRefused ==
  Unspent(FaultKinds \ {"start"}) /\ NoCancels
    => \A s \in Session : reply[s] # "busy"

(* A network of a session that is over has a teardown on its way: a link   *)
(* is not kept busy by a session nobody will stop any more.                *)
NoOrphanNetwork ==
  Unspent({"crash", "timeout", "lost"}) /\ NoCancels =>
    \A o \in Net : Live(o) /\ status[o[1]] = "over" =>
      \E t \in Stop : t[1] = o[1] /\ stop[t] \in {"due", "await"}

(* While a session is sending its link has its network up and on file,     *)
(* whatever happens to other sessions, to the lock and to the KME.         *)
SendingHasNetwork ==
  \A s \in Session : status[s] = "sending" =>
    table[s] # 0 /\ net[<<s, table[s]>>] = "up"

(* As long as no lock runs out of time, a session that is not over keeps   *)
(* the link it was given: nobody else is admitted to it, whatever tasks of *)
(* other sessions are still on their way to that link.                     *)
LockHeldUntilOver ==
  Unspent({"expiry"}) =>
    \A s \in Session : status[s] \in {"initializing", "sending"} =>
      lock[url[s]] = s

(* Short of the timeout, a lock leaves a session's hands only when the     *)
(* session is over, and never into another session's hands directly.       *)
OnlyHolderReleases ==
  [][\A q \in Qkdl : lock[q] # None /\ lock'[q] # lock[q] =>
        /\ lock'[q] = None
        /\ status[lock[q]] = "over" \/ status'[lock[q]] = "over"
           \/ faults'["expiry"] # faults["expiry"]]_vars

(* Locks, tasks and the QKDL implement the pool of LinkPool: a link is      *)
(* given to nobody over its holder's head, and comes back from a session    *)
(* that has ended or from a lock that has run out (session_store.py: "Each  *)
(* QKDL instance in the pool holds at most one session at a time").         *)
Links == INSTANCE LinkPool WITH
  Link     <- Qkdl,
  holder   <- lock,
  link     <- url,
  phase    <- status,
  punctual <- Unspent({"expiry"})

ImplementsLinkPool == Links!Spec

(* As long as the KME does not crash, the initialisation of a session ends *)
(* and a session that is over gives its link back.                         *)
InitEnds == \A s \in Session :
  (initPc[s] = "send") ~> (initPc[s] \in {"over", "lost"})
LinkGivenBack == \A s \in Session : \A q \in Qkdl :
  (status[s] = "over" /\ url[s] = q) ~> (lock[q] # s)
=============================================================================
