------------------------------ MODULE EventBus ------------------------------
(***************************************************************************)
(* The Redis stream of one node and the consumer that reads it             *)
(* (src/kme/message_bus.py).  The KME appends events to the stream; the    *)
(* node's NodeConsumer reads them through a consumer group in pages,       *)
(* hands them one by one to the node's handler and acknowledges each one   *)
(* after the handler returned.  Each await of the consumer is a step of    *)
(* its own, so that a crash, a lost connection or the expiry of the stream *)
(* can come between any two of them.                                       *)
(*                                                                         *)
(* An event is its position in the stream.  Redis hands pages out in that  *)
(* order, so a page is the set of its events, worked off smallest first.   *)
(***************************************************************************)
EXTENDS Integers, FiniteSets

CONSTANTS
  MaxEvents,     \* bound: how many events the KME publishes
  StreamMaxlen,  \* STREAM_MAXLEN, below which the stream is never trimmed
  PageSize,      \* count=16 of XREADGROUP
  MaxAttempts,   \* MAX_ATTEMPTS
  MaxFaults      \* bound: how often each kind of fault may strike

FaultKinds == {"crash", "connection", "expiry", "refused"}

ASSUME BusAssumption ==
  /\ MaxEvents \in Nat
  /\ StreamMaxlen \in Nat \ {0}
  /\ PageSize \in Nat \ {0}
  /\ MaxAttempts \in Nat \ {0}
  /\ MaxFaults \in [FaultKinds -> Nat]

VARIABLES
  published,  \* the last event appended
  trimmed,    \* events up to this one are gone from the stream
  ttl,        \* the stream exists and carries its expiry time
  group,      \* the consumer group exists
  delivered,  \* the group's last-delivered-id
  pel,        \* the group's pending entries: read and not acknowledged
  pc,         \* where the consumer's loop is
  cursor,     \* the local cursor of _run
  regroup,    \* the local regroup of _run
  batch,      \* entries of the page still to be dispatched
  stale,      \* those of them whose fields came back empty
  attempts,   \* _attempts
  handled,    \* history: events whose handler returned
  dropped,    \* history: events given up by _dispatch
  last,       \* history: the last event the handler was called with
  faults      \* how many faults of each kind are left

redis    == <<published, trimmed, ttl, group, delivered, pel>>
consumer == <<pc, cursor, regroup, batch, stale, attempts>>
history  == <<handled, dropped, last>>
vars     == <<redis, consumer, history, faults>>

New    == -1          \* the cursor ">"
Events == 1..MaxEvents

Init ==
  /\ published = 0 /\ trimmed = 0 /\ ttl = FALSE
  /\ group = FALSE /\ delivered = 0 /\ pel = {}
  /\ pc = "down" /\ cursor = 0 /\ regroup = FALSE
  /\ batch = {} /\ stale = {}
  /\ attempts = [e \in Events |-> 0]
  /\ handled = {} /\ dropped = {} /\ last = 0
  /\ faults = MaxFaults

(* What may be left of each kind of fault. *)
Budgets == {f \in [FaultKinds -> Nat] : \A k \in FaultKinds : f[k] <= MaxFaults[k]}

(* Redis never answered an acknowledgement with an error reply so far. *)
NeverRefused == faults["refused"] = MaxFaults["refused"]

Strike(kind) ==
  /\ faults[kind] > 0
  /\ faults' = [faults EXCEPT ![kind] = @ - 1]

-----------------------------------------------------------------------------
(* The stream *)

Stored == (trimmed + 1)..published
Fresh  == {e \in Stored : e > delivered}

(* The page XREADGROUP returns out of S: its PageSize oldest events. *)
Page(S) == {e \in S : Cardinality({d \in S : d < e}) < PageSize}

(* EventBus.publish: XADD and EXPIRE in one transaction.  Approximate      *)
(* trimming may take any prefix that leaves StreamMaxlen events.           *)
Publish ==
  /\ published < MaxEvents
  /\ published' = published + 1
  /\ \E t \in trimmed..published' :
        /\ t = trimmed \/ published' - t >= StreamMaxlen
        /\ trimmed' = t
  /\ ttl' = TRUE
  /\ UNCHANGED <<group, delivered, pel, consumer, history, faults>>

(* Nothing was published for STREAM_TTL_S: Redis deletes the key, and with *)
(* it the group and its pending entries.                                   *)
Expire ==
  /\ Strike("expiry")
  /\ ttl /\ ttl' = FALSE
  /\ trimmed' = published
  /\ group' = FALSE /\ delivered' = 0 /\ pel' = {}
  /\ UNCHANGED <<published, consumer, history>>

(* Mutant: the group is created with id="$", from the end of the stream. *)
EnsureGroupAtEnd ==
  /\ group' = TRUE
  /\ IF group THEN UNCHANGED <<delivered, pel>>
              ELSE delivered' = published /\ pel' = {}
  /\ UNCHANGED <<published, trimmed, ttl>>

(* _ensure_group: XGROUP CREATE with id="0"; BUSYGROUP is ignored. *)
EnsureGroup ==
  /\ group' = TRUE
  /\ IF group THEN UNCHANGED <<delivered, pel>>
              ELSE delivered' = 0 /\ pel' = {}
  /\ UNCHANGED <<published, trimmed, ttl>>

(* XREADGROUP with ">" on the server: the page becomes pending. *)
Deliver(page) ==
  /\ page # {}
  /\ \E top \in page : (\A e \in page : e <= top) /\ delivered' = top
  /\ pel' = pel \cup page
  /\ UNCHANGED <<published, trimmed, ttl, group>>

-----------------------------------------------------------------------------
(* The consumer's loop *)

(* Mutant: a restarted consumer begins with ">". *)
StartWithNew ==
  /\ pc = "down"
  /\ EnsureGroup
  /\ pc' = "read" /\ cursor' = New
  /\ UNCHANGED <<regroup, batch, stale, attempts, history, faults>>

(* NodeConsumer.start of a fresh consumer under the same name. *)
Start ==
  /\ pc = "down"
  /\ EnsureGroup
  /\ pc' = "read"
  /\ UNCHANGED <<cursor, regroup, batch, stale, attempts, history, faults>>

(* A new group is made after a read that found none. *)
Regroup ==
  /\ pc = "read" /\ regroup
  /\ EnsureGroup
  /\ regroup' = FALSE
  /\ UNCHANGED <<pc, cursor, batch, stale, attempts, history, faults>>

ReadNoGroup ==
  /\ pc = "read" /\ ~regroup /\ ~group
  /\ regroup' = TRUE
  /\ UNCHANGED <<redis, pc, cursor, batch, stale, attempts, history, faults>>

Reading == pc = "read" /\ ~regroup /\ group

(* Replay of the own pending entries after the cursor. *)
ReplayPage == Page({e \in pel : e > cursor})

ReadReplay ==
  /\ Reading /\ cursor # New /\ ReplayPage # {}
  /\ batch' = ReplayPage
  /\ stale' = {e \in ReplayPage : e <= trimmed}
  /\ pc' = "dispatch"
  /\ UNCHANGED <<redis, cursor, regroup, attempts, history, faults>>

ReplayDone ==
  /\ Reading /\ cursor # New /\ ReplayPage = {}
  /\ cursor' = New
  /\ UNCHANGED <<redis, pc, regroup, batch, stale, attempts, history, faults>>

ReadNew ==
  /\ Reading /\ cursor = New
  /\ Deliver(Page(Fresh))
  /\ batch' = Page(Fresh)
  /\ pc' = "dispatch"
  /\ UNCHANGED <<cursor, regroup, stale, attempts, history, faults>>

(* The entry the loop is at; a replay moves the cursor along with it. *)
Current(e) == e \in batch /\ \A d \in batch : e <= d
Advance(e) == cursor' = IF cursor = New THEN New ELSE e

(* The rest of the page is forgotten and the loop reads again. *)
LeavePage == pc' = "read" /\ batch' = {} /\ stale' = {}

(* An entry trimmed from the stream has no fields: dropped. *)
DropStale(e) ==
  /\ pc = "dispatch" /\ Current(e) /\ e \in stale
  /\ dropped' = dropped \cup {e}
  /\ pc' = "ack"
  /\ Advance(e)
  /\ UNCHANGED <<redis, regroup, batch, stale, attempts, handled, last, faults>>

Call(e) == /\ pc = "dispatch" /\ Current(e) /\ e \notin stale
           /\ last' = e

HandlerReturns(e) ==
  /\ Call(e)
  /\ handled' = handled \cup {e}
  /\ attempts' = [attempts EXCEPT ![e] = 0]
  /\ pc' = "ack"
  /\ Advance(e)
  /\ UNCHANGED <<redis, regroup, batch, stale, dropped, faults>>

(* Mutant: failures are not counted. *)
HandlerFailsUncounted(e) ==
  /\ Call(e)
  /\ cursor' = 0
  /\ LeavePage
  /\ UNCHANGED <<redis, regroup, attempts, handled, dropped, faults>>

HandlerFails(e) ==
  /\ Call(e)
  /\ attempts[e] + 1 < MaxAttempts
  /\ attempts' = [attempts EXCEPT ![e] = @ + 1]
  /\ cursor' = 0
  /\ LeavePage
  /\ UNCHANGED <<redis, regroup, handled, dropped, faults>>

GiveUp(e) ==
  /\ Call(e)
  /\ attempts[e] + 1 >= MaxAttempts
  /\ attempts' = [attempts EXCEPT ![e] = 0]
  /\ dropped' = dropped \cup {e}
  /\ pc' = "ack"
  /\ Advance(e)
  /\ UNCHANGED <<redis, regroup, batch, stale, handled, faults>>

(* Mutant: the loop does not notice the end of the page. *)
AckStaysInPage(e) ==
  /\ pc = "ack" /\ Current(e)
  /\ pel' = pel \ {e}
  /\ batch' = batch \ {e} /\ stale' = stale \ {e}
  /\ pc' = "dispatch"
  /\ UNCHANGED <<published, trimmed, ttl, group, delivered>>
  /\ UNCHANGED <<cursor, regroup, attempts, history, faults>>

Ack(e) ==
  /\ pc = "ack" /\ Current(e)
  /\ pel' = pel \ {e}
  /\ batch' = batch \ {e} /\ stale' = stale \ {e}
  /\ pc' = IF batch = {e} THEN "read" ELSE "dispatch"
  /\ UNCHANGED <<published, trimmed, ttl, group, delivered>>
  /\ UNCHANGED <<cursor, regroup, attempts, history, faults>>

-----------------------------------------------------------------------------
(* Faults *)

(* A restart begins with fresh locals. *)
Restart ==
  /\ pc' = "down"
  /\ cursor' = 0 /\ regroup' = FALSE
  /\ batch' = {} /\ stale' = {}
  /\ attempts' = [e \in Events |-> 0]

(* The process dies or is stopped at one of the loop's awaits ...          *)
Crash ==
  /\ Strike("crash")
  /\ pc # "down"
  /\ Restart
  /\ UNCHANGED <<redis, history>>

(* ... which may be that of the handler, at work on e. *)
CrashInHandler(e) ==
  /\ Strike("crash")
  /\ Call(e)
  /\ Restart
  /\ UNCHANGED <<redis, handled, dropped>>

(* Mutant: a lost read does not start over from the pending entries. *)
ReadLostKeepsCursor ==
  /\ Strike("connection")
  /\ pc = "read"
  /\ \/ UNCHANGED redis
     \/ regroup /\ EnsureGroup
     \/ Reading /\ cursor = New /\ Deliver(Page(Fresh))
  /\ UNCHANGED <<pc, cursor, regroup, batch, stale, attempts, history>>

(* The connection breaks in a read or while the group is made: the server  *)
(* may have executed the command.                                          *)
ReadLost ==
  /\ Strike("connection")
  /\ pc = "read" /\ cursor' = 0
  /\ \/ UNCHANGED redis
     \/ regroup /\ EnsureGroup
     \/ Reading /\ cursor = New /\ Deliver(Page(Fresh))
  /\ UNCHANGED <<pc, regroup, batch, stale, attempts, history>>

(* The connection breaks in an acknowledgement. *)
AckLost(e) ==
  /\ Strike("connection")
  /\ pc = "ack" /\ Current(e)
  /\ pel' \in {pel, pel \ {e}}
  /\ cursor' = 0
  /\ LeavePage
  /\ UNCHANGED <<published, trimmed, ttl, group, delivered>>
  /\ UNCHANGED <<regroup, attempts, history>>

(* Redis answers the acknowledgement with an error reply (MISCONF,         *)
(* READONLY): a ResponseError other than NOGROUP keeps the cursor.         *)
AckRefused(e) ==
  /\ Strike("refused")
  /\ pc = "ack" /\ Current(e)
  /\ LeavePage
  /\ UNCHANGED <<redis, cursor, regroup, attempts, history>>

-----------------------------------------------------------------------------
Dispatch(e) ==
  DropStale(e) \/ HandlerReturns(e) \/ HandlerFails(e) \/ GiveUp(e) \/ Ack(e)

Loop == \/ Regroup \/ ReadNoGroup \/ ReadReplay \/ ReplayDone \/ ReadNew
        \/ \E e \in Events : Dispatch(e)

Fault == \/ Expire \/ Crash \/ ReadLost
         \/ \E e \in Events : CrashInHandler(e) \/ AckLost(e) \/ AckRefused(e)

Next == Publish \/ Start \/ Loop \/ Fault

Spec == Init /\ [][Next]_vars

(* The event loop of a running node always gets back to _run; nothing      *)
(* restarts a dead node by itself, so Start is not fair.                   *)
FairSpec == Spec /\ WF_vars(Loop)

-----------------------------------------------------------------------------
(* Properties *)

(* The types of the variables, with the page empty exactly while the loop *)
(* is outside of it.                                                      *)
TypeOK ==
  /\ published \in 0..MaxEvents /\ trimmed \in 0..published
  /\ ttl \in BOOLEAN /\ group \in BOOLEAN
  /\ delivered \in 0..published
  /\ pel \subseteq 1..published
  /\ pc \in {"down", "read", "dispatch", "ack"}
  /\ cursor \in {New} \cup 0..MaxEvents
  /\ regroup \in BOOLEAN
  /\ batch \subseteq 1..published /\ stale \subseteq batch
  /\ (batch = {}) <=> pc \in {"down", "read"}
  /\ attempts \in [Events -> Nat]
  /\ handled \subseteq 1..published /\ dropped \subseteq 1..published
  /\ last \in 0..published
  /\ faults \in Budgets

Settled(e) == e \in handled \/ e \in dropped \/ e <= trimmed

(* "ACK only after the handler succeeds" (NodeConsumer): an event still in *)
(* the stream that was neither handled nor given up is pending or will be  *)
(* read, whatever crashed, was disconnected or expired in between.         *)
NothingOwedIsForgotten ==
  \A e \in Stored : e \in handled \cup dropped \cup pel \cup Fresh

(* "keep order" (_run): when the handler is called with an event, every    *)
(* older one has been handled, given up or trimmed away, through paging,   *)
(* retries, replays and restarts, unless an acknowledgement was refused.   *)
NoOvertaking == NeverRefused => \A e \in 1..(last - 1) : Settled(e)

(* The handler never goes back: a redelivered event is the one it was last *)
(* called with or a newer one, so a node never sees session_open again     *)
(* after key_available, unless an acknowledgement was refused.             *)
HandlerNeverGoesBack == [][NeverRefused' => last' >= last]_vars

(* A page is worked off before anything else is pending: while the loop is *)
(* in a page, no pending event is older than the one it is at.             *)
OldestPendingFirst ==
  NeverRefused => \A e \in Events : Current(e) => \A p \in pel : e <= p

(* "At-least-once" (NodeConsumer): if the node stays up from some time on, *)
(* every published event is eventually handled, given up after             *)
(* MAX_ATTEMPTS or trimmed.                                                *)
AtLeastOnce ==
  <>[](pc # "down") =>
    \A e \in Events : (published >= e) ~> Settled(e)

(* The same, unless an acknowledgement is refused. *)
EventuallySettled == []NeverRefused => AtLeastOnce

(* The consumer implements the promise of EventLog, which is in order as   *)
(* long as no acknowledgement was refused.                                 *)
Promise == INSTANCE EventLog
             WITH settled <- {e \in 1..published : Settled(e)},
                  inOrder <- NeverRefused
ImplementsEventLog == Promise!Spec
=============================================================================
