--------------------------- MODULE EventBus_proof ---------------------------
(***************************************************************************)
(* Proofs about EventBus, for streams, pages and fault budgets of any size.*)
(***************************************************************************)
EXTENDS EventBus, FiniteSetTheorems, WellFoundedInduction, TLAPS

-----------------------------------------------------------------------------
(* Pages *)

(* A nonempty set of naturals has a least element. *)
LEMMA LeastElement ==
  ASSUME NEW S \in SUBSET Nat, S # {}
  PROVE  \E m \in S : \A n \in S : m <= n
<1> DEFINE R == OpToRel(<, Nat)
<1>1. IsWellFoundedOn(R, Nat)
  BY NatLessThanWellFounded
<1>2. \E m \in S : \A n \in S : ~(<<n, m>> \in R)
  <2> HIDE DEF R
  <2> QED BY <1>1, WFMin
<1>3. ASSUME NEW m \in S, NEW n \in S, ~(<<n, m>> \in R)
      PROVE  m <= n
  BY <1>3 DEF OpToRel
<1> QED BY <1>2, <1>3

(* A page is a part of the set it is taken from, and an element older than *)
(* one of the page is on the page as well.                                 *)
LEMMA PageIsPrefix ==
  ASSUME NEW S \in SUBSET Nat, IsFiniteSet(S)
  PROVE  /\ Page(S) \subseteq S
         /\ \A top \in Page(S), e \in S : e <= top => e \in Page(S)
<1>1. Page(S) \subseteq S
  BY DEF Page
<1>2. ASSUME NEW top \in Page(S), NEW e \in S, e <= top
      PROVE  e \in Page(S)
  <2> DEFINE Below(x) == {d \in S : d < x}
  <2>1. Below(e) \subseteq Below(top)
    <3>1. ASSUME NEW d \in S, d < e
          PROVE  d < top
      <4>1. d \in Nat /\ e \in Nat /\ top \in Nat
        BY <1>1
      <4> QED BY <4>1, <3>1, <1>2
    <3> QED BY <3>1
  <2>2. IsFiniteSet(Below(top)) /\ Cardinality(Below(top)) \in Nat
    BY FS_Subset, FS_CardinalityType, Below(top) \subseteq S
  <2>3. Cardinality(Below(e)) <= Cardinality(Below(top))
    BY <2>1, <2>2, FS_Subset
  <2>4. Cardinality(Below(e)) \in Nat
    BY <2>1, <2>2, FS_Subset, FS_CardinalityType
  <2>5. Cardinality(Below(top)) < PageSize
    BY DEF Page
  <2>6. Cardinality(Below(e)) < PageSize
    BY <2>2, <2>3, <2>4, <2>5, BusAssumption
  <2> QED BY <2>6 DEF Page
<1> QED BY <1>1, <1>2

(* Only the page of the empty set is empty. *)
LEMMA PageNotEmpty ==
  ASSUME NEW S \in SUBSET Nat, S # {}
  PROVE  Page(S) # {}
<1>1. PICK m \in S : \A n \in S : m <= n
  BY LeastElement
<1>2. {d \in S : d < m} = {}
  <2>1. \A d \in S : d \in Nat /\ m \in Nat /\ m <= d
    BY <1>1
  <2>2. \A d \in S : ~(d < m)
    BY <2>1
  <2> QED BY <2>2
<1>3. Cardinality({d \in S : d < m}) < PageSize
  BY <1>2, FS_EmptySet, BusAssumption
<1> QED BY <1>3 DEF Page

(* The two sets the consumer takes pages from. *)
LEMMA StreamPages ==
  ASSUME TypeOK
  PROVE  /\ Page(Fresh) \subseteq Fresh
         /\ ReplayPage \subseteq pel
         /\ \A top \in Page(Fresh), e \in Fresh : e <= top => e \in Page(Fresh)
         /\ \A e \in pel :
              e > cursor => \/ e \in ReplayPage
                            \/ \A top \in ReplayPage : top < e
<1> DEFINE Rest == {e \in pel : e > cursor}
<1>1. /\ published \in Nat /\ trimmed \in Nat
      /\ pel \subseteq 1..published
  BY BusAssumption DEF TypeOK
<1>2. IsFiniteSet(1..published)
  BY <1>1, FS_Interval
<1>3. Fresh \subseteq 1..published /\ Rest \subseteq 1..published
  <2>1. Stored \subseteq 1..published
    BY <1>1 DEF Stored
  <2> QED BY <1>1, <2>1 DEF Fresh
<1>4. IsFiniteSet(Fresh) /\ IsFiniteSet(Rest)
  BY <1>2, <1>3, FS_Subset
<1>5. Fresh \in SUBSET Nat /\ Rest \in SUBSET Nat
  BY <1>3
<1>6. /\ Page(Fresh) \subseteq Fresh
      /\ \A top \in Page(Fresh), e \in Fresh : e <= top => e \in Page(Fresh)
  BY <1>4, <1>5, PageIsPrefix
<1>7. /\ Page(Rest) \subseteq Rest
      /\ \A top \in Page(Rest), e \in Rest : e <= top => e \in Page(Rest)
  BY <1>4, <1>5, PageIsPrefix
<1>8. ReplayPage = Page(Rest)
  BY DEF ReplayPage
<1>9. ASSUME NEW e \in Rest, e \notin ReplayPage, NEW top \in ReplayPage
      PROVE  top < e
  <2>1. e \in Nat /\ top \in Nat
    BY <1>5, <1>7, <1>8
  <2>2. ~(e <= top)
    BY <1>7, <1>8, <1>9
  <2> QED BY <2>1, <2>2
<1> QED BY <1>6, <1>7, <1>8, <1>9

-----------------------------------------------------------------------------
(* Types *)

(* EnsureGroup keeps the types of the stream's variables. *)
LEMMA StreamTypes ==
  ASSUME TypeOK, published' = published, trimmed' = trimmed,
         \/ UNCHANGED redis
         \/ EnsureGroup
         \/ Deliver(Page(Fresh))
  PROVE  /\ ttl' \in BOOLEAN /\ group' \in BOOLEAN
         /\ delivered' \in 0..published
         /\ pel' \subseteq 1..published
<1>1. /\ ttl \in BOOLEAN /\ group \in BOOLEAN
      /\ delivered \in 0..published /\ pel \subseteq 1..published
      /\ published \in Nat /\ trimmed \in Nat
  BY BusAssumption DEF TypeOK
<1>2. CASE UNCHANGED redis
  BY <1>1, <1>2 DEF redis
<1>3. CASE EnsureGroup
  <2>1. CASE group
    BY <1>1, <1>3, <2>1 DEF EnsureGroup
  <2>2. CASE ~group
    <3>1. delivered' = 0 /\ pel' = {} /\ group' = TRUE /\ ttl' = ttl
      BY <1>3, <2>2 DEF EnsureGroup
    <3> QED BY <1>1, <3>1
  <2> QED BY <2>1, <2>2
<1>4. CASE Deliver(Page(Fresh))
  <2>1. Page(Fresh) \subseteq 1..published
    BY StreamPages, <1>1 DEF Fresh, Stored
  <2>2. PICK top \in Page(Fresh) : delivered' = top
    BY <1>4 DEF Deliver
  <2>3. delivered' \in 0..published
    BY <1>1, <2>1, <2>2
  <2>4. pel' = pel \cup Page(Fresh) /\ ttl' = ttl /\ group' = group
    BY <1>4 DEF Deliver
  <2> QED BY <1>1, <2>1, <2>3, <2>4
<1> QED BY <1>2, <1>3, <1>4

(* A fault takes from its budget only. *)
LEMMA FaultTypes ==
  ASSUME faults \in Budgets, NEW kind \in FaultKinds, Strike(kind)
  PROVE  faults' \in Budgets
<1>1. /\ faults \in [FaultKinds -> Nat] /\ MaxFaults \in [FaultKinds -> Nat]
      /\ \A k \in FaultKinds : faults[k] <= MaxFaults[k]
  BY BusAssumption DEF Budgets
<1>2. faults' = [faults EXCEPT ![kind] = @ - 1] /\ faults[kind] > 0
  BY DEF Strike
<1>3. faults' \in [FaultKinds -> Nat]
  BY <1>1, <1>2
<1>4. ASSUME NEW k \in FaultKinds
      PROVE  faults'[k] <= MaxFaults[k]
  BY <1>1, <1>2
<1> QED BY <1>3, <1>4 DEF Budgets

(* A restart leaves a consumer outside of any page. *)
LEMMA RestartTypes ==
  ASSUME Restart
  PROVE  /\ pc' = "down" /\ cursor' \in {New} \cup 0..MaxEvents
         /\ regroup' \in BOOLEAN /\ batch' = {} /\ stale' = {}
         /\ attempts' \in [Events -> Nat]
<1>1. regroup' \in BOOLEAN
  BY DEF Restart
<1>2. cursor' \in {New} \cup 0..MaxEvents
  BY BusAssumption DEF Restart
<1>3. attempts' \in [Events -> Nat]
  BY DEF Restart
<1> QED BY <1>1, <1>2, <1>3 DEF Restart

(* A stream nobody has written to and a consumer that is down. *)
LEMMA TypeInit == Init => TypeOK
<1> SUFFICES ASSUME Init
             PROVE  TypeOK
  OBVIOUS
<1>1. /\ published \in 0..MaxEvents /\ trimmed \in 0..published
      /\ delivered \in 0..published /\ last \in 0..published
      /\ cursor \in {New} \cup 0..MaxEvents
  BY BusAssumption DEF Init
<1>2. attempts \in [Events -> Nat] /\ faults \in Budgets
  BY BusAssumption DEF Init, Budgets
<1>3. /\ ttl \in BOOLEAN /\ group \in BOOLEAN /\ regroup \in BOOLEAN
      /\ pc \in {"down", "read", "dispatch", "ack"}
      /\ (batch = {}) <=> pc \in {"down", "read"}
  BY DEF Init
<1>4. /\ pel \subseteq 1..published /\ batch \subseteq 1..published
      /\ stale \subseteq batch
      /\ handled \subseteq 1..published /\ dropped \subseteq 1..published
  BY DEF Init
<1> QED BY <1>1, <1>2, <1>3, <1>4 DEF TypeOK

(* One step per action; a page only holds events that were published. *)
LEMMA TypeStep == TypeOK /\ [Next]_vars => TypeOK'
<1> SUFFICES ASSUME TypeOK, [Next]_vars
             PROVE  TypeOK'
  OBVIOUS
<1> USE BusAssumption DEF New
<1>0. /\ published \in Nat /\ trimmed \in Nat /\ delivered \in Nat
      /\ \A e \in batch : e \in Events /\ e \in 1..published /\ e \in 0..MaxEvents
  BY DEF TypeOK, Events
<1>1. CASE Publish
  <2>1. published' \in 0..MaxEvents /\ trimmed' \in 0..published'
    BY <1>1 DEF Publish, TypeOK
  <2>2. 1..published \subseteq 1..published' /\ 0..published \subseteq 0..published'
    BY <1>0, <1>1 DEF Publish
  <2> QED BY <1>1, <2>1, <2>2 DEF Publish, TypeOK, consumer, history
<1>2. CASE Start
  <2>1. UNCHANGED <<published, trimmed>> /\ EnsureGroup
    BY <1>2 DEF Start, EnsureGroup
  <2> QED BY <1>2, <2>1, StreamTypes DEF Start, TypeOK, history
<1>3. CASE Regroup
  <2>1. UNCHANGED <<published, trimmed>> /\ EnsureGroup
    BY <1>3 DEF Regroup, EnsureGroup
  <2> QED BY <1>3, <2>1, StreamTypes DEF Regroup, TypeOK, history
<1>4. CASE ReadNoGroup
  BY <1>4 DEF ReadNoGroup, TypeOK, redis, history
<1>5. CASE ReadReplay
  <2>1. ReplayPage \subseteq 1..published
    BY StreamPages DEF TypeOK
  <2> QED BY <1>5, <2>1 DEF ReadReplay, TypeOK, redis, history
<1>6. CASE ReplayDone
  BY <1>6 DEF ReplayDone, TypeOK, redis, history
<1>7. CASE ReadNew
  <2>1. UNCHANGED <<published, trimmed>> /\ Deliver(Page(Fresh))
    BY <1>7 DEF ReadNew, Deliver
  <2>2. Page(Fresh) \subseteq 1..published /\ Page(Fresh) # {}
    BY <1>0, <2>1, StreamPages DEF Fresh, Stored, Deliver
  <2>3. stale = {}
    BY <1>7 DEF ReadNew, Reading, TypeOK
  <2> QED BY <1>7, <2>1, <2>2, <2>3, StreamTypes DEF ReadNew, TypeOK, history
<1>8. ASSUME NEW e \in Events, DropStale(e)
      PROVE  TypeOK'
  <2>1. e \in batch
    BY <1>8 DEF DropStale, Current
  <2> QED BY <1>0, <1>8, <2>1 DEF DropStale, Advance, TypeOK, redis
<1>9. ASSUME NEW e \in Events, HandlerReturns(e)
      PROVE  TypeOK'
  <2>1. e \in batch
    BY <1>9 DEF HandlerReturns, Call, Current
  <2> QED BY <1>0, <1>9, <2>1 DEF HandlerReturns, Call, Advance, TypeOK, redis
<1>10. ASSUME NEW e \in Events, HandlerFails(e)
       PROVE  TypeOK'
  <2>1. e \in batch
    BY <1>10 DEF HandlerFails, Call, Current
  <2> QED BY <1>0, <1>10, <2>1 DEF HandlerFails, Call, LeavePage, TypeOK, redis
<1>11. ASSUME NEW e \in Events, GiveUp(e)
       PROVE  TypeOK'
  <2>1. e \in batch
    BY <1>11 DEF GiveUp, Call, Current
  <2> QED BY <1>0, <1>11, <2>1 DEF GiveUp, Call, Advance, TypeOK, redis
<1>12. ASSUME NEW e \in Events, Ack(e)
       PROVE  TypeOK'
  BY <1>12 DEF Ack, Current, TypeOK, history
<1>13. CASE Expire
  <2>1. faults' \in Budgets
    BY <1>13, FaultTypes DEF Expire, TypeOK, FaultKinds
  <2>2. /\ UNCHANGED <<published, consumer, history>>
        /\ trimmed' = published /\ ttl' = FALSE
        /\ group' = FALSE /\ delivered' = 0 /\ pel' = {}
    BY <1>13 DEF Expire
  <2>3. /\ trimmed' \in 0..published' /\ delivered' \in 0..published'
        /\ pel' \subseteq 1..published'
    BY <1>0, <2>2
  <2> QED BY <2>1, <2>2, <2>3 DEF TypeOK, consumer, history
<1>14. CASE Crash
  <2>1. faults' \in Budgets
    BY <1>14, FaultTypes DEF Crash, TypeOK, FaultKinds
  <2> QED BY <1>14, <2>1, RestartTypes DEF Crash, TypeOK, redis, history
<1>15. CASE ReadLost
  <2>1. faults' \in Budgets
    BY <1>15, FaultTypes DEF ReadLost, TypeOK, FaultKinds
  <2>2. UNCHANGED <<published, trimmed>>
    BY <1>15 DEF ReadLost, redis, Deliver, EnsureGroup
  <2>3. UNCHANGED redis \/ EnsureGroup \/ Deliver(Page(Fresh))
    BY <1>15 DEF ReadLost
  <2> QED BY <1>15, <2>1, <2>2, <2>3, StreamTypes DEF ReadLost, TypeOK, history
<1>16. ASSUME NEW e \in Events, AckLost(e)
       PROVE  TypeOK'
  <2>1. faults' \in Budgets
    BY <1>16, FaultTypes DEF AckLost, TypeOK, FaultKinds
  <2> QED BY <1>16, <2>1 DEF AckLost, LeavePage, TypeOK, history
<1>17. ASSUME NEW e \in Events, AckRefused(e)
       PROVE  TypeOK'
  <2>1. faults' \in Budgets
    BY <1>17, FaultTypes DEF AckRefused, TypeOK, FaultKinds
  <2> QED BY <1>17, <2>1 DEF AckRefused, LeavePage, TypeOK, redis, history
<1>18. ASSUME NEW e \in Events, CrashInHandler(e)
       PROVE  TypeOK'
  <2>1. faults' \in Budgets
    BY <1>18, FaultTypes DEF CrashInHandler, TypeOK, FaultKinds
  <2>2. last' \in 0..published
    BY <1>0, <1>18 DEF CrashInHandler, Call, Current
  <2> QED BY <1>18, <2>1, <2>2, RestartTypes DEF CrashInHandler, TypeOK, redis
<1>19. CASE UNCHANGED vars
  BY <1>19 DEF vars, redis, consumer, history, TypeOK
<1> QED BY <1>1, <1>2, <1>3, <1>4, <1>5, <1>6, <1>7, <1>8, <1>9, <1>10, <1>11,
           <1>12, <1>13, <1>14, <1>15, <1>16, <1>17, <1>18, <1>19
        DEF Next, Loop, Dispatch, Fault

(* The variables of the stream and of the consumer keep their types, and   *)
(* the consumer holds a page exactly while it works one off.               *)
THEOREM TypeCorrect == Spec => []TypeOK
BY TypeInit, TypeStep, PTL DEF Spec

-----------------------------------------------------------------------------
(* Nothing owed is forgotten *)

(* A group that does not exist has no state left, so that creating it      *)
(* again delivers from the beginning; an event that is being acknowledged  *)
(* is done with.                                                           *)
Owed ==
  /\ ~group => pel = {} /\ delivered = 0
  /\ pc = "ack" => \A e \in Events : Current(e) => e \in handled \cup dropped
  /\ NothingOwedIsForgotten

(* Creating the group changes nothing but that it exists. *)
LEMMA EnsureGroupIdle ==
  ASSUME ~group => pel = {} /\ delivered = 0, EnsureGroup
  PROVE  UNCHANGED <<published, trimmed, ttl, delivered, pel>> /\ group'
<1>1. CASE group
  BY <1>1 DEF EnsureGroup
<1>2. CASE ~group
  BY <1>2 DEF EnsureGroup
<1> QED BY <1>1, <1>2

(* Reading a page moves every event it passes over into the pending ones. *)
LEMMA DeliverOwes ==
  ASSUME TypeOK, NothingOwedIsForgotten, Deliver(Page(Fresh)),
         UNCHANGED <<handled, dropped>>
  PROVE  NothingOwedIsForgotten'
<1>1. PICK top \in Page(Fresh) : delivered' = top
  BY DEF Deliver
<1>2. /\ pel' = pel \cup Page(Fresh)
      /\ published' = published /\ trimmed' = trimmed
  BY DEF Deliver
<1>3. Stored' = Stored
  BY <1>2 DEF Stored
<1>4. ASSUME NEW e \in Fresh
      PROVE  e \in pel' \cup Fresh'
  <2>1. e \in Int /\ top \in Int
    BY <1>1, StreamPages DEF Fresh, Stored, TypeOK
  <2>2. CASE e <= top
    BY <1>1, <1>2, <2>2, StreamPages
  <2>3. CASE e > top
    BY <1>1, <1>3, <2>3 DEF Fresh
  <2> QED BY <2>1, <2>2, <2>3
<1> QED BY <1>2, <1>3, <1>4 DEF NothingOwedIsForgotten

(* What nothing of this touches keeps it. *)
LEMMA UntouchedOwes ==
  ASSUME NothingOwedIsForgotten,
         UNCHANGED <<published, trimmed, delivered, pel>>,
         handled \subseteq handled', dropped \subseteq dropped'
  PROVE  NothingOwedIsForgotten'
BY DEF NothingOwedIsForgotten, Stored, Fresh

(* Elements of a range that begins later. *)
LEMMA LaterRange ==
  \A t, u, p \in Nat :
    t <= u => \A e \in (u + 1)..p : e \in Nat /\ t < e /\ e <= p
OBVIOUS

(* What is in the stream after a publication was not trimmed before it. *)
LEMMA PublishedStays ==
  ASSUME published \in Nat, trimmed \in Nat,
         published' = published + 1, trimmed' \in trimmed..published'
  PROVE  \A e \in Stored' : e \in Nat /\ trimmed < e /\ e <= published'
<1>1. trimmed' \in Nat /\ trimmed <= trimmed' /\ published' \in Nat
  OBVIOUS
<1> QED BY <1>1, LaterRange DEF Stored

(* Nothing is published, so nothing is owed. *)
LEMMA OwedInit == Init => Owed
<1> SUFFICES ASSUME Init
             PROVE  Owed
  OBVIOUS
<1>1. Stored = {}
  BY DEF Init, Stored
<1> QED BY <1>1 DEF Init, Owed, NothingOwedIsForgotten

(* Reading makes owed events pending; only Ack takes them away again. *)
LEMMA OwedStep == TypeOK /\ Owed /\ [Next]_vars => Owed'
<1> SUFFICES ASSUME TypeOK, Owed, [Next]_vars
             PROVE  Owed'
  OBVIOUS
<1> USE DEF Owed
<1>1. CASE Publish
  <2>1. ASSUME NEW e \in Stored'
        PROVE  e \in (handled \cup dropped \cup pel \cup Fresh)'
    <3>1. /\ published' = published + 1 /\ trimmed' \in trimmed..published'
          /\ UNCHANGED <<delivered, pel, handled, dropped>>
      BY <1>1 DEF Publish, history
    <3>2. /\ published \in Nat /\ trimmed \in Nat /\ delivered \in Nat
          /\ delivered <= published
      BY BusAssumption DEF TypeOK
    <3>3. e \in Nat /\ trimmed < e /\ e <= published'
      BY <3>1, <3>2, PublishedStays
    <3>4. CASE e = published'
      BY <3>1, <3>2, <3>4, <2>1 DEF Fresh
    <3>5. CASE e <= published
      <4>1. e \in Stored
        BY <3>2, <3>3, <3>5 DEF Stored
      <4>2. e \in Fresh => e \in Fresh'
        BY <3>1, <2>1 DEF Fresh
      <4> QED BY <3>1, <4>1, <4>2 DEF NothingOwedIsForgotten
    <3> QED BY <3>1, <3>2, <3>3, <3>4, <3>5
  <2>2. UNCHANGED <<group, delivered, pel, pc, batch, handled, dropped>>
    BY <1>1 DEF Publish, consumer, history
  <2> QED BY <2>1, <2>2 DEF NothingOwedIsForgotten, Current
<1>2. CASE Start \/ Regroup
  <2>1. EnsureGroup /\ pc' = "read" /\ UNCHANGED <<handled, dropped>>
    BY <1>2 DEF Start, Regroup, history
  <2>2. UNCHANGED <<published, trimmed, delivered, pel>> /\ group'
    BY <2>1, EnsureGroupIdle
  <2> QED BY <2>1, <2>2, UntouchedOwes
<1>3. CASE ReadNoGroup \/ ReadReplay \/ ReplayDone
  <2>1. UNCHANGED <<published, trimmed, group, delivered, pel, handled, dropped>>
    BY <1>3 DEF ReadNoGroup, ReadReplay, ReplayDone, redis, history
  <2>2. pc' # "ack"
    BY <1>3 DEF ReadNoGroup, ReadReplay, ReplayDone, Reading
  <2> QED BY <2>1, <2>2, UntouchedOwes
<1>4. CASE ReadNew
  <2>1. Deliver(Page(Fresh)) /\ UNCHANGED <<handled, dropped>> /\ pc' # "ack"
    BY <1>4 DEF ReadNew, history
  <2>2. group' /\ group
    BY <1>4, <2>1 DEF ReadNew, Reading, Deliver
  <2> QED BY <2>1, <2>2, DeliverOwes
<1>5. ASSUME NEW e \in Events,
             DropStale(e) \/ HandlerReturns(e) \/ HandlerFails(e) \/ GiveUp(e)
      PROVE  Owed'
  <2>1. UNCHANGED redis
    BY <1>5 DEF DropStale, HandlerReturns, HandlerFails, GiveUp
  <2>2. handled \subseteq handled' /\ dropped \subseteq dropped'
    BY <1>5 DEF DropStale, HandlerReturns, HandlerFails, GiveUp
  <2>3. pc' = "ack" => \A d \in Events : Current(d)' => d \in (handled \cup dropped)'
    <3>1. ASSUME pc' = "ack"
          PROVE  /\ Current(e) /\ batch' = batch
                 /\ e \in (handled \cup dropped)'
      BY <1>5, <3>1
         DEF DropStale, HandlerReturns, HandlerFails, GiveUp, Call, LeavePage
    <3>2. ASSUME pc' = "ack", NEW d \in Events, Current(d)'
          PROVE  d = e
      <4>1. d \in Nat /\ e \in Nat
        BY DEF Events
      <4>2. d <= e /\ e <= d
        BY <3>1, <3>2 DEF Current
      <4> QED BY <4>1, <4>2
    <3> QED BY <3>1, <3>2
  <2> QED BY <2>1, <2>2, <2>3, UntouchedOwes DEF redis
<1>6. ASSUME NEW e \in Events, Ack(e) \/ AckLost(e) \/ AckRefused(e)
      PROVE  Owed'
  <2>1. e \in handled \cup dropped /\ pc' # "ack"
    BY <1>6 DEF Ack, AckLost, AckRefused, LeavePage
  <2>2. /\ UNCHANGED <<published, trimmed, group, delivered, handled, dropped>>
        /\ pel' = pel \/ pel' = pel \ {e}
    BY <1>6 DEF Ack, AckLost, AckRefused, redis, history
  <2> QED BY <2>1, <2>2 DEF NothingOwedIsForgotten, Stored, Fresh
<1>7. CASE Expire
  <2>1. /\ trimmed' = published /\ published' = published
        /\ pel' = {} /\ delivered' = 0
        /\ UNCHANGED <<pc, batch, handled, dropped>>
    BY <1>7 DEF Expire, consumer, history
  <2>2. Stored' = {}
    BY <2>1, BusAssumption DEF Stored, TypeOK
  <2> QED BY <2>1, <2>2 DEF NothingOwedIsForgotten, Current
<1>8. CASE Crash
  BY <1>8, UntouchedOwes DEF Crash, Restart, redis, history
<1>9. CASE ReadLost
  <2>1. UNCHANGED <<handled, dropped>> /\ pc' # "ack"
    BY <1>9 DEF ReadLost, history
  <2>2. CASE UNCHANGED redis
    BY <2>1, <2>2, UntouchedOwes DEF redis
  <2>3. CASE Reading /\ Deliver(Page(Fresh))
    BY <2>1, <2>3, DeliverOwes DEF Reading, Deliver
  <2>4. CASE EnsureGroup
    BY <2>1, <2>4, EnsureGroupIdle, UntouchedOwes
  <2> QED BY <1>9, <2>2, <2>3, <2>4 DEF ReadLost
<1>10. ASSUME NEW e \in Events, CrashInHandler(e)
       PROVE  Owed'
  BY <1>10, UntouchedOwes DEF CrashInHandler, Restart, redis
<1>11. CASE UNCHANGED vars
  BY <1>11, UntouchedOwes DEF vars, redis, consumer, history, Current
<1> QED BY <1>1, <1>2, <1>3, <1>4, <1>5, <1>6, <1>7, <1>8, <1>9, <1>10, <1>11
        DEF Next, Loop, Dispatch, Fault

(* "ACK only after the handler succeeds": whatever crashes, is             *)
(* disconnected, refused or expires, an event still in the stream is       *)
(* handled, given up, pending or yet to be read.                           *)
THEOREM NothingForgotten == Spec => []NothingOwedIsForgotten
<1>1. Spec => []Owed
  BY TypeInit, TypeStep, OwedInit, OwedStep, PTL DEF Spec
<1>2. Owed => NothingOwedIsForgotten
  BY DEF Owed
<1> QED BY <1>1, <1>2, PTL

-----------------------------------------------------------------------------
(* The cursor *)

(* Outside of a page the cursor is behind every pending event, so the next *)
(* replay reads them all, and ">" is only read when nothing is pending.    *)
(* In a page everything pending is on it or, in a replay, newer than it.   *)
CursorBehind ==
  /\ pc = "down" => cursor = 0
  /\ pc = "read" => \A p \in pel : cursor # New /\ cursor < p
  /\ pc \in {"dispatch", "ack"} =>
       \A p \in pel : p \in batch \/ (cursor # New /\ \A b \in batch : b < p)
  /\ pc = "ack" => cursor = New \/ Current(cursor)

(* A consumer that is down reads its own pending entries first. *)
LEMMA CursorInit == Init => CursorBehind
BY DEF Init, CursorBehind

(* Only a refused acknowledgement uses up the refusals, and for good. *)
LEMMA RefusalStep ==
  ASSUME TypeOK, [Next]_vars
  PROVE  /\ NeverRefused' <=> NeverRefused /\ \A e \in Events : ~AckRefused(e)
         /\ (\A e \in Events : ~AckRefused(e)) => faults'["refused"] = faults["refused"]
<1>1. /\ faults \in [FaultKinds -> Nat] /\ MaxFaults \in [FaultKinds -> Nat]
      /\ "refused" \in FaultKinds /\ faults["refused"] <= MaxFaults["refused"]
  BY BusAssumption DEF TypeOK, Budgets, FaultKinds
<1>2. \A kind \in FaultKinds :
        Strike(kind) /\ kind # "refused" => faults'["refused"] = faults["refused"]
  BY <1>1 DEF Strike
<1>3. ASSUME NEW e \in Events, AckRefused(e)
      PROVE  faults'["refused"] # MaxFaults["refused"]
  BY <1>1, <1>3 DEF AckRefused, Strike
<1>4. ASSUME NEW e \in Events, CrashInHandler(e) \/ AckLost(e)
      PROVE  faults'["refused"] = faults["refused"]
  BY <1>2, <1>4 DEF CrashInHandler, AckLost, FaultKinds
<1>5. ASSUME Expire \/ Crash \/ ReadLost
      PROVE  faults'["refused"] = faults["refused"]
  BY <1>2, <1>5 DEF Expire, Crash, ReadLost, FaultKinds
<1>6. ASSUME \/ Publish \/ Start \/ Regroup \/ ReadNoGroup \/ ReadReplay
             \/ ReplayDone \/ ReadNew \/ UNCHANGED vars
      PROVE  faults' = faults
  BY <1>6 DEF Publish, Start, Regroup, ReadNoGroup, ReadReplay, ReplayDone,
              ReadNew, vars
<1>7. ASSUME NEW e \in Events, Dispatch(e)
      PROVE  faults' = faults
  BY <1>7 DEF Dispatch, DropStale, HandlerReturns, HandlerFails, GiveUp, Ack
<1>8. (\A e \in Events : ~AckRefused(e)) => faults'["refused"] = faults["refused"]
  BY <1>4, <1>5, <1>6, <1>7 DEF Next, Loop, Fault
<1>9. ASSUME NeverRefused'
      PROVE  \A e \in Events : ~AckRefused(e)
  BY <1>3, <1>9 DEF NeverRefused
<1> QED BY <1>8, <1>9 DEF NeverRefused

(* Only one event is at the head of a page. *)
LEMMA HeadUnique ==
  ASSUME TypeOK, NEW d, NEW e, Current(d), Current(e)
  PROVE  d = e
<1>1. d \in batch /\ e \in batch /\ d <= e /\ e <= d
  BY DEF Current
<1>2. d \in Int /\ e \in Int
  BY <1>1 DEF TypeOK
<1> QED BY <1>1, <1>2

(* While the consumer is in a page, nothing pending is older than the      *)
(* event it is at.                                                         *)
LEMMA OldestFirst ==
  ASSUME TypeOK, CursorBehind, NEW e, Current(e), NEW p \in pel
  PROVE  e <= p
<1>1. pc \in {"dispatch", "ack"}
  BY DEF TypeOK, Current
<1>2. CASE p \in batch
  BY <1>2 DEF Current
<1>3. CASE e < p
  <2>1. e \in Int /\ p \in Int
    BY DEF TypeOK, Current
  <2> QED BY <1>3, <2>1
<1> QED BY <1>1, <1>2, <1>3 DEF CursorBehind, Current

(* Every way out of a page but its end sets the cursor back to 0. *)
LEMMA CursorStep ==
  TypeOK /\ Owed /\ CursorBehind /\ [Next]_vars /\ NeverRefused' => CursorBehind'
<1> SUFFICES ASSUME TypeOK, Owed, CursorBehind, [Next]_vars, NeverRefused'
             PROVE  CursorBehind'
  OBVIOUS
<1>0. /\ \A p \in pel : p \in Int /\ p > 0
      /\ \A b \in batch : b \in Int /\ b # New
      /\ pc = "read" => batch = {}
  BY DEF TypeOK, New
<1>1. CASE Publish \/ ReadNoGroup
  BY <1>1 DEF Publish, ReadNoGroup, CursorBehind, Current, redis, consumer, history
<1>2. CASE Start \/ Regroup
  <2>1. EnsureGroup /\ pc' = "read" /\ cursor' = cursor
    BY <1>2 DEF Start, Regroup
  <2>2. pel' = pel
    BY <2>1, EnsureGroupIdle DEF Owed
  <2>3. pc = "read" \/ cursor = 0
    BY <1>2 DEF Start, Regroup, CursorBehind
  <2> QED BY <1>0, <2>1, <2>2, <2>3 DEF CursorBehind, New
<1>3. CASE ReadReplay
  <2>1. /\ pc = "read" /\ pc' = "dispatch" /\ batch' = ReplayPage
        /\ UNCHANGED <<pel, cursor>> /\ cursor # New
    BY <1>3 DEF ReadReplay, Reading, redis
  <2>2. ASSUME NEW p \in pel, p \notin ReplayPage, NEW b \in ReplayPage
        PROVE  b < p
    <3>1. cursor < p
      BY <2>1 DEF CursorBehind
    <3>2. cursor \in Int /\ p \in Int
      BY <1>0 DEF TypeOK, New
    <3>3. p > cursor
      BY <3>1, <3>2
    <3> QED BY <2>2, <3>3, StreamPages
  <2> QED BY <2>1, <2>2 DEF CursorBehind
<1>4. CASE ReplayDone
  <2>1. /\ pc = "read" /\ pc' = "read" /\ cursor # New /\ ReplayPage = {}
        /\ pel' = pel
    BY <1>4 DEF ReplayDone, Reading, redis
  <2>2. {e \in pel : e > cursor} = pel
    <3>1. \A e \in pel : cursor < e /\ cursor \in Int /\ e \in Int
      BY <1>0, <2>1 DEF CursorBehind, TypeOK, New
    <3>2. \A e \in pel : e > cursor
      BY <3>1
    <3> QED BY <3>2
  <2>3. pel \in SUBSET Nat
    BY <1>0
  <2>4. pel = {}
    BY <2>1, <2>2, <2>3, PageNotEmpty DEF ReplayPage
  <2> QED BY <2>1, <2>4 DEF CursorBehind
<1>5. CASE ReadNew
  <2>1. /\ pc = "read" /\ pc' = "dispatch" /\ cursor = New
        /\ pel' = pel \cup Page(Fresh) /\ batch' = Page(Fresh)
    BY <1>5 DEF ReadNew, Reading, Deliver
  <2>2. pel = {}
    BY <2>1 DEF CursorBehind
  <2> QED BY <2>1, <2>2 DEF CursorBehind
<1>6. ASSUME NEW e \in Events, DropStale(e) \/ HandlerReturns(e) \/ GiveUp(e)
      PROVE  CursorBehind'
  <2>1. /\ pc = "dispatch" /\ pc' = "ack" /\ Current(e)
        /\ UNCHANGED <<pel, batch>>
        /\ cursor' = IF cursor = New THEN New ELSE e
    BY <1>6 DEF DropStale, HandlerReturns, GiveUp, Call, Advance, redis
  <2>2. e # New
    BY <1>0, <2>1 DEF Current
  <2>3. Current(e)'
    BY <2>1 DEF Current
  <2> QED BY <2>1, <2>2, <2>3 DEF CursorBehind
<1>7. ASSUME NEW e \in Events, HandlerFails(e)
      PROVE  CursorBehind'
  <2>1. pc' = "read" /\ cursor' = 0 /\ pel' = pel
    BY <1>7 DEF HandlerFails, LeavePage, redis
  <2> QED BY <1>0, <2>1 DEF CursorBehind, New
<1>8. ASSUME NEW e \in Events, Ack(e)
      PROVE  CursorBehind'
  <2>1. /\ pc = "ack" /\ Current(e) /\ pel' = pel \ {e}
        /\ batch' = batch \ {e} /\ cursor' = cursor
        /\ pc' = IF batch = {e} THEN "read" ELSE "dispatch"
    BY <1>8 DEF Ack
  <2>2. cursor = New \/ cursor = e
    BY <2>1, HeadUnique DEF CursorBehind
  <2>3. CASE batch = {e}
    <3>1. \A p \in pel' : cursor # New /\ e < p
      BY <2>1, <2>3 DEF CursorBehind
    <3> QED BY <2>1, <2>2, <2>3, <3>1 DEF CursorBehind
  <2>4. CASE batch # {e}
    BY <2>1, <2>4 DEF CursorBehind
  <2> QED BY <2>3, <2>4
<1>9. ASSUME NEW e \in Events, AckLost(e)
      PROVE  CursorBehind'
  <2>1. pc' = "read" /\ cursor' = 0 /\ pel' \subseteq pel
    BY <1>9 DEF AckLost, LeavePage
  <2> QED BY <1>0, <2>1 DEF CursorBehind, New
<1>10. ASSUME NEW e \in Events, AckRefused(e)
       PROVE  CursorBehind'
  BY <1>10, RefusalStep
<1>11. CASE Expire
  <2>1. pel' = {} /\ UNCHANGED <<pc, cursor, batch>>
    BY <1>11 DEF Expire, consumer
  <2> QED BY <2>1 DEF CursorBehind, Current
<1>12. CASE Crash \/ \E e \in Events : CrashInHandler(e)
  <2>1. pc' = "down" /\ cursor' = 0
    BY <1>12 DEF Crash, CrashInHandler, Restart
  <2> QED BY <2>1 DEF CursorBehind
<1>13. CASE ReadLost
  <2>1. pc' = "read" /\ cursor' = 0
    BY <1>13 DEF ReadLost
  <2>2. \A p \in pel' : p > 0 /\ p \in Int
    BY <1>13, TypeStep DEF TypeOK
  <2> QED BY <2>1, <2>2 DEF CursorBehind, New
<1>14. CASE UNCHANGED vars
  BY <1>14 DEF vars, redis, consumer, history, CursorBehind, Current
<1> QED BY <1>1, <1>2, <1>3, <1>4, <1>5, <1>6, <1>7, <1>8, <1>9, <1>10, <1>11,
           <1>12, <1>13, <1>14
        DEF Next, Loop, Dispatch, Fault

(* Replays begin behind every pending event (_run): while the consumer     *)
(* works off a page, no pending event is older than the one it is at.      *)
THEOREM OldestIsFirst == Spec => []OldestPendingFirst
<1> DEFINE Inv == TypeOK /\ Owed /\ (NeverRefused => CursorBehind)
<1>1. Init => Inv
  BY TypeInit, OwedInit, CursorInit
<1>2. Inv /\ [Next]_vars => Inv'
  BY TypeStep, OwedStep, CursorStep, RefusalStep
<1>3. Inv => OldestPendingFirst
  BY OldestFirst DEF OldestPendingFirst
<1> QED BY <1>1, <1>2, <1>3, PTL DEF Spec

-----------------------------------------------------------------------------
(* The order of the handler's calls *)

(* Whatever is pending or on a page was passed by the group's position or  *)
(* by trimming, and is not older than the handler's last call; so neither  *)
(* is what will be read next.                                              *)
Positions ==
  /\ \A p \in pel : p <= delivered
  /\ \A b \in batch : b <= delivered \/ b <= trimmed
  /\ \A b \in stale : b <= trimmed
  /\ \A p \in pel \cup batch : last <= p
  /\ last <= delivered \/ last <= trimmed

(* Nothing is pending and nothing is below the first event. *)
LEMMA PositionsInit == Init => Positions
BY DEF Init, Positions

(* An event on a page is the last call's or a newer one. *)
LEMMA CallNotOlder ==
  ASSUME TypeOK, Positions, NEW e, Call(e)
  PROVE  e \in batch /\ last' = e /\ last <= e
BY DEF Call, Current, Positions

(* Reading a page keeps the positions. *)
LEMMA DeliverPositions ==
  ASSUME TypeOK, Positions, Deliver(Page(Fresh)), last' = last, stale' = stale,
         batch' = batch \/ batch' = Page(Fresh)
  PROVE  Positions'
<1>1. PICK top \in Page(Fresh) : /\ \A e \in Page(Fresh) : e <= top
                                 /\ delivered' = top
  BY DEF Deliver
<1>2. /\ pel' = pel \cup Page(Fresh)
      /\ published' = published /\ trimmed' = trimmed
  BY DEF Deliver
<1>3. /\ delivered \in Int /\ trimmed \in Int /\ last \in Int
      /\ \A e \in pel \cup batch : e \in Int
  BY DEF TypeOK
<1>4. \A e \in Page(Fresh) : e \in Int /\ delivered < e /\ trimmed < e
  BY <1>3, StreamPages DEF Fresh, Stored, TypeOK
<1>5. top \in Int /\ delivered <= top /\ trimmed < top
  BY <1>1, <1>3, <1>4
<1>6. \A p \in pel' : p <= delivered'
  <2>1. ASSUME NEW p \in pel
        PROVE  p <= delivered'
    <3>1. p <= delivered /\ p \in Int /\ delivered \in Int
      BY <1>3 DEF Positions
    <3> QED BY <1>1, <1>5, <3>1
  <2>2. \A p \in Page(Fresh) : p <= delivered'
    BY <1>1
  <2> QED BY <1>2, <2>1, <2>2
<1>7. \A b \in batch' : b <= delivered' \/ b <= trimmed'
  <2>1. ASSUME NEW b \in batch
        PROVE  b <= delivered' \/ b <= trimmed'
    <3>1. /\ b <= delivered \/ b <= trimmed
          /\ b \in Int /\ delivered \in Int
      BY <1>3 DEF Positions
    <3> QED BY <1>1, <1>2, <1>5, <3>1
  <2>2. \A b \in Page(Fresh) : b <= delivered'
    BY <1>1
  <2> QED BY <2>1, <2>2
<1>8. \A p \in (pel \cup batch)' : last' <= p
  BY <1>2, <1>3, <1>4 DEF Positions
<1>9. last' <= delivered' \/ last' <= trimmed'
  BY <1>1, <1>2, <1>3, <1>5 DEF Positions
<1> QED BY <1>2, <1>6, <1>7, <1>8, <1>9 DEF Positions

(* What was delivered stays between last and the end of the stream. *)
LEMMA PositionsStep ==
  TypeOK /\ Owed /\ CursorBehind /\ Positions /\ [Next]_vars => Positions'
<1> SUFFICES ASSUME TypeOK, Owed, CursorBehind, Positions, [Next]_vars
             PROVE  Positions'
  OBVIOUS
<1>0. /\ published \in Int /\ trimmed \in Int /\ delivered \in Int /\ last \in Int
      /\ trimmed <= published /\ delivered <= published
      /\ \A p \in pel \cup batch \cup stale : p \in Int /\ p <= published
  BY BusAssumption DEF TypeOK
<1>1. CASE Publish
  <2>1. /\ UNCHANGED <<delivered, pel, batch, stale, last>>
        /\ trimmed' \in Int /\ trimmed <= trimmed'
    BY <1>0, <1>1 DEF Publish, consumer, history
  <2> QED BY <1>0, <2>1 DEF Positions
<1>2. CASE Start \/ Regroup
  <2>1. EnsureGroup /\ UNCHANGED <<batch, stale, last>>
    BY <1>2 DEF Start, Regroup, history
  <2>2. UNCHANGED <<trimmed, delivered, pel>>
    BY <2>1, EnsureGroupIdle DEF Owed
  <2> QED BY <2>1, <2>2 DEF Positions
<1>3. CASE ReadNoGroup \/ ReplayDone
  BY <1>3 DEF ReadNoGroup, ReplayDone, redis, history, Positions
<1>4. CASE ReadReplay
  <2>1. /\ batch' = ReplayPage /\ ReplayPage \subseteq pel
        /\ stale' = {e \in ReplayPage : e <= trimmed}
        /\ UNCHANGED <<trimmed, delivered, pel, last>>
    BY <1>4, StreamPages DEF ReadReplay, redis, history
  <2> QED BY <2>1 DEF Positions
<1>5. CASE ReadNew
  BY <1>5, DeliverPositions DEF ReadNew, history
<1>6. ASSUME NEW e \in Events, DropStale(e)
      PROVE  Positions'
  BY <1>6 DEF DropStale, redis, Positions
<1>7. ASSUME NEW e \in Events,
             \/ HandlerReturns(e) \/ HandlerFails(e) \/ GiveUp(e)
             \/ CrashInHandler(e)
      PROVE  Positions'
  <2>1. /\ Call(e) /\ UNCHANGED <<trimmed, delivered, pel>>
        /\ batch' \subseteq batch /\ stale' \subseteq stale
    BY <1>7 DEF HandlerReturns, HandlerFails, GiveUp, CrashInHandler, LeavePage,
                Restart, redis
  <2>2. e \in batch /\ last' = e /\ last <= e
    BY <2>1, CallNotOlder
  <2>3. \A p \in pel \cup batch : e <= p
    BY <2>1, OldestFirst DEF Call, Current
  <2> QED BY <2>1, <2>2, <2>3 DEF Positions
<1>8. ASSUME NEW e \in Events, Ack(e) \/ AckLost(e) \/ AckRefused(e)
      PROVE  Positions'
  <2>1. /\ UNCHANGED <<trimmed, delivered, last>> /\ pel' \subseteq pel
        /\ batch' \subseteq batch /\ stale' \subseteq stale
    BY <1>8 DEF Ack, AckLost, AckRefused, LeavePage, redis, history
  <2> QED BY <2>1 DEF Positions
<1>9. CASE Expire
  <2>1. /\ trimmed' = published /\ pel' = {} /\ delivered' = 0
        /\ UNCHANGED <<batch, stale, last>>
    BY <1>9 DEF Expire, consumer, history
  <2>2. last <= published
    BY DEF TypeOK
  <2>3. stale \subseteq batch
    BY DEF TypeOK
  <2> QED BY <1>0, <2>1, <2>2, <2>3 DEF Positions
<1>10. CASE Crash
  BY <1>10 DEF Crash, Restart, redis, history, Positions
<1>11. CASE ReadLost
  <2>1. UNCHANGED <<batch, stale, last>>
    BY <1>11 DEF ReadLost, history
  <2>2. CASE UNCHANGED redis
    BY <2>1, <2>2 DEF redis, Positions
  <2>3. CASE Deliver(Page(Fresh))
    BY <2>1, <2>3, DeliverPositions
  <2>4. CASE EnsureGroup
    <3>1. UNCHANGED <<trimmed, delivered, pel>>
      BY <2>4, EnsureGroupIdle DEF Owed
    <3> QED BY <2>1, <3>1 DEF Positions
  <2> QED BY <1>11, <2>2, <2>3, <2>4 DEF ReadLost
<1>12. CASE UNCHANGED vars
  BY <1>12 DEF vars, redis, consumer, history, Positions
<1> QED BY <1>1, <1>2, <1>3, <1>4, <1>5, <1>6, <1>7, <1>8, <1>9, <1>10, <1>11, <1>12
        DEF Next, Loop, Dispatch, Fault

(* What holds of a consumer none of whose acknowledgements was refused. *)
InOrder == TypeOK /\ Owed /\ CursorBehind /\ Positions

(* The inductive invariant: a refused acknowledgement leaves the rest of a *)
(* page pending behind a cursor that has passed it.                        *)
IInv == TypeOK /\ Owed /\ (NeverRefused => CursorBehind /\ Positions)

(* As long as the next state knows of no refusal, this one is in order. *)
LEMMA InOrderSoFar == IInv /\ [Next]_vars /\ NeverRefused' => InOrder
BY RefusalStep DEF IInv, InOrder

(* The parts together are inductive. *)
LEMMA Invariant == Spec => []IInv
<1>1. Init => IInv
  BY TypeInit, OwedInit, CursorInit, PositionsInit DEF IInv
<1>2. IInv /\ [Next]_vars => IInv'
  BY TypeStep, OwedStep, CursorStep, PositionsStep, RefusalStep DEF IInv
<1> QED BY <1>1, <1>2, PTL DEF Spec

(* Only a call of the handler changes last, and never back. *)
LEMMA LastStep ==
  ASSUME [Next]_vars
  PROVE  last' = last \/ \E e \in Events : Call(e)
<1>1. CASE Publish \/ Start \/ Regroup \/ ReadNoGroup \/ ReadReplay \/ ReplayDone
           \/ ReadNew \/ Expire \/ Crash \/ ReadLost \/ UNCHANGED vars
  BY <1>1 DEF Publish, Start, Regroup, ReadNoGroup, ReadReplay, ReplayDone,
              ReadNew, Expire, Crash, ReadLost, vars, history
<1>2. ASSUME NEW e \in Events,
             Dispatch(e) \/ CrashInHandler(e) \/ AckLost(e) \/ AckRefused(e)
      PROVE  last' = last \/ Call(e)
  BY <1>2 DEF Dispatch, DropStale, HandlerReturns, HandlerFails, GiveUp, Ack,
              CrashInHandler, AckLost, AckRefused, history
<1> QED BY <1>1, <1>2 DEF Next, Loop, Fault

(* A redelivered event is the one the handler was last called with or a    *)
(* newer one, through crashes, lost connections and expiry.                *)
THEOREM NeverGoesBack == Spec => HandlerNeverGoesBack
<1>1. IInv /\ [Next]_vars => [NeverRefused' => last' >= last]_vars
  <2> SUFFICES ASSUME InOrder, [Next]_vars
               PROVE  last' >= last
    BY InOrderSoFar
  <2>1. last \in Int /\ \A b \in batch : b \in Int
    BY DEF InOrder, TypeOK
  <2>2. CASE last' = last
    BY <2>1, <2>2
  <2>3. ASSUME NEW e \in Events, Call(e)
        PROVE  last' >= last
    BY <2>1, <2>3, CallNotOlder DEF InOrder
  <2> QED BY <2>2, <2>3, LastStep
<1> QED BY <1>1, Invariant, PTL DEF Spec, HandlerNeverGoesBack

(* When the handler is called, every older event is settled: it cannot be  *)
(* pending, nor ahead of the group's position.                             *)
LEMMA CallSettled ==
  ASSUME InOrder, NEW e, Call(e)
  PROVE  \A d \in 1..(e - 1) : Settled(d)
<1> SUFFICES ASSUME NEW d \in 1..(e - 1), d > trimmed
             PROVE  d \in handled \cup dropped
  <2>1. \A d \in 1..(e - 1) : d \in Int /\ trimmed \in Int
    BY DEF InOrder, TypeOK
  <2> QED BY <2>1 DEF Settled
<1>1. /\ e \in batch /\ e \in 1..published /\ e \in Events
      /\ published \in Nat /\ trimmed \in Nat /\ delivered \in Nat
  BY BusAssumption DEF InOrder, TypeOK, Call, Current, Events
<1>2. d \in Nat /\ d < e
  BY <1>1
<1>3. d \in Stored
  BY <1>1, <1>2 DEF Stored
<1>4. d \notin pel
  <2>1. \A p \in pel : e <= p
    BY <1>1, OldestFirst DEF InOrder, Call
  <2> QED BY <1>1, <1>2, <2>1
<1>5. d \notin Fresh
  <2>1. e <= delivered \/ e <= trimmed
    BY <1>1 DEF InOrder, Positions
  <2>2. ~(d > delivered)
    BY <1>1, <1>2, <2>1
  <2> QED BY <2>2 DEF Fresh
<1> QED BY <1>3, <1>4, <1>5 DEF InOrder, Owed, NothingOwedIsForgotten

(* Settled events stay settled, and the stream does not shrink. *)
LEMMA SettledStays ==
  ASSUME TypeOK, [Next]_vars
  PROVE  /\ \A d \in Int : Settled(d) => Settled(d)'
         /\ published' = published \/ (Publish /\ published' = published + 1)
<1>1. trimmed \in Int /\ published \in Int /\ trimmed <= published
  BY BusAssumption DEF TypeOK
<1>2. /\ handled \subseteq handled' /\ dropped \subseteq dropped'
      /\ trimmed' \in Int /\ trimmed <= trimmed'
      /\ published' = published \/ (Publish /\ published' = published + 1)
  <2>1. CASE Publish
    BY <1>1, <2>1 DEF Publish, history
  <2>2. CASE Start \/ Regroup
    BY <1>1, <2>2 DEF Start, Regroup, EnsureGroup, history
  <2>3. CASE ReadNoGroup \/ ReadReplay \/ ReplayDone \/ Crash \/ UNCHANGED vars
    BY <1>1, <2>3 DEF ReadNoGroup, ReadReplay, ReplayDone, Crash, vars, redis, history
  <2>4. CASE ReadNew \/ ReadLost
    BY <1>1, <2>4 DEF ReadNew, ReadLost, EnsureGroup, Deliver, redis, history
  <2>5. CASE Expire
    BY <1>1, <2>5 DEF Expire, history
  <2>6. ASSUME NEW e \in Events,
               Dispatch(e) \/ CrashInHandler(e) \/ AckLost(e) \/ AckRefused(e)
        PROVE  /\ handled \subseteq handled' /\ dropped \subseteq dropped'
               /\ UNCHANGED <<published, trimmed>>
    BY <2>6 DEF Dispatch, DropStale, HandlerReturns, HandlerFails, GiveUp, Ack,
                CrashInHandler, AckLost, AckRefused, redis, history
  <2> QED BY <1>1, <2>1, <2>2, <2>3, <2>4, <2>5, <2>6 DEF Next, Loop, Fault
<1>3. ASSUME NEW d \in Int, Settled(d)
      PROVE  Settled(d)'
  BY <1>1, <1>2, <1>3 DEF Settled
<1> QED BY <1>2, <1>3

(* "keep order: replay from the failed one" (_run): when the handler is    *)
(* called with an event, all older ones are handled, given up or trimmed.  *)
THEOREM NoneOvertaken == Spec => []NoOvertaking
<1>1. Init => NoOvertaking
  BY DEF Init, NoOvertaking
<1>2. IInv /\ NoOvertaking /\ [Next]_vars => NoOvertaking'
  <2> SUFFICES ASSUME IInv, NoOvertaking, [Next]_vars, NeverRefused'
               PROVE  NoOvertaking'
    BY DEF NoOvertaking
  <2>0. InOrder /\ NeverRefused
    BY InOrderSoFar, RefusalStep DEF IInv
  <2>1. \A d \in Int : Settled(d) => Settled(d)'
    BY SettledStays DEF IInv
  <2>2. CASE last' = last
    BY <2>0, <2>1, <2>2 DEF NoOvertaking
  <2>3. ASSUME NEW e \in Events, Call(e)
        PROVE  NoOvertaking'
    <3>1. last' = e
      BY <2>3 DEF Call
    <3>2. \A d \in 1..(e - 1) : Settled(d)
      BY <2>0, <2>3, CallSettled
    <3> QED BY <2>1, <3>1, <3>2 DEF NoOvertaking
  <2> QED BY <2>2, <2>3, LastStep
<1> QED BY <1>1, <1>2, Invariant, PTL DEF Spec

-----------------------------------------------------------------------------
(* The consumer keeps the bus's promise *)

SettledSet == {e \in 1..published : Settled(e)}

(* Whatever a step does to the stream, the settled events only grow. *)
LEMMA Loses ==
  ASSUME TypeOK, [Next]_vars
  PROVE  SettledSet \subseteq SettledSet' /\ SettledSet' \subseteq 1..published'
<1>1. published \in Nat
  BY BusAssumption DEF TypeOK
<1>2. 1..published \subseteq 1..published'
  BY <1>1, SettledStays
<1>3. \A d \in 1..published : Settled(d) => Settled(d)'
  BY SettledStays
<1> QED BY <1>2, <1>3 DEF SettledSet

(* A call that changes nothing but the history of e settles e at most. *)
LEMMA CallRefines ==
  ASSUME IInv, NEW e \in Events, Call(e),
         NeverRefused => InOrder,
         UNCHANGED <<published, trimmed, NeverRefused>>,
         \/ UNCHANGED <<handled, dropped>>
         \/ handled' = handled \cup {e} /\ dropped' = dropped
         \/ dropped' = dropped \cup {e} /\ handled' = handled
  PROVE  Promise!Next
<1>1. e \in 1..published /\ last' = e
  BY DEF IInv, TypeOK, Call, Current
<1>2. ASSUME NeverRefused
      PROVE  e >= last /\ \A d \in 1..(e - 1) : d \in SettledSet
  <2>0. e >= last
    BY <1>2, CallNotOlder DEF InOrder, TypeOK
  <2>1. \A d \in 1..(e - 1) : Settled(d)
    BY <1>2, CallSettled
  <2>2. 1..(e - 1) \subseteq 1..published
    BY <1>1 DEF IInv, TypeOK
  <2> QED BY <2>0, <2>1, <2>2 DEF SettledSet
<1>3. SettledSet' \in {SettledSet, SettledSet \cup {e}}
  <2>1. CASE UNCHANGED <<handled, dropped>>
    <3>1. SettledSet' = SettledSet
      BY <2>1 DEF SettledSet, Settled
    <3> QED BY <3>1
  <2>2. CASE handled' \cup dropped' = handled \cup dropped \cup {e}
    <3>1. \A d : Settled(d)' <=> (Settled(d) \/ d = e)
      BY <2>2 DEF Settled
    <3>2. SettledSet' = SettledSet \cup {e}
      BY <1>1, <3>1 DEF SettledSet
    <3> QED BY <3>2
  <2> QED BY <2>1, <2>2
<1>4. Promise!Invoke(e)
  BY <1>1, <1>2, <1>3 DEF Promise!Invoke, SettledSet
<1> QED BY <1>1, <1>4 DEF Promise!Next

(* Every step of the consumer is one of the promise's or changes nothing   *)
(* that the promise speaks of.                                             *)
LEMMA StepRefines == IInv /\ [Next]_vars => [Promise!Next]_(Promise!vars)
<1> SUFFICES ASSUME IInv, [Next]_vars
             PROVE  \/ Promise!Next
                    \/ UNCHANGED <<published, SettledSet, last, NeverRefused>>
  BY DEF Promise!vars, SettledSet
<1>1. ASSUME NEW e \in Events, AckRefused(e)
      PROVE  Promise!BreakOrder
  <2>1. UNCHANGED <<published, trimmed, handled, dropped, last>>
    BY <1>1 DEF AckRefused, redis, history
  <2>2. ~NeverRefused'
    BY <1>1, RefusalStep DEF IInv
  <2> QED BY <2>1, <2>2 DEF Promise!BreakOrder, Settled, NeverRefused
<1>2. ASSUME \A e \in Events : ~AckRefused(e)
      PROVE  \/ Promise!Next
             \/ UNCHANGED <<published, SettledSet, last, NeverRefused>>
  <2>0. UNCHANGED NeverRefused
    BY <1>2, RefusalStep DEF NeverRefused, IInv
  <2>1. CASE Publish
    <3>1. last' = last /\ published' = published + 1
      BY <2>1 DEF Publish, history
    <3>2. Promise!Publish
      BY <2>0, <3>1, Loses DEF Promise!Publish, Promise!Lose, SettledSet, IInv
    <3> QED BY <3>2 DEF Promise!Next
  <2>2. CASE Expire \/ \E e \in Events : DropStale(e)
    <3>1. last' = last /\ published' = published
      BY <2>2 DEF Expire, DropStale, redis, history
    <3>2. Promise!Expire
      BY <2>0, <3>1, Loses DEF Promise!Expire, Promise!Lose, SettledSet, IInv
    <3> QED BY <3>2 DEF Promise!Next
  <2>3. CASE Start \/ Regroup \/ ReadNoGroup \/ ReadReplay \/ ReplayDone \/ ReadNew
             \/ Crash \/ ReadLost \/ UNCHANGED vars
    <3>1. UNCHANGED <<published, trimmed, handled, dropped, last>>
      BY <2>3 DEF Start, Regroup, ReadNoGroup, ReadReplay, ReplayDone, ReadNew,
                  Crash, ReadLost, EnsureGroup, Deliver, vars, redis, history
    <3> QED BY <2>0, <3>1 DEF SettledSet, Settled
  <2>4. ASSUME NEW e \in Events,
               \/ HandlerReturns(e) \/ HandlerFails(e) \/ GiveUp(e)
               \/ CrashInHandler(e)
        PROVE  Promise!Next
    <3>1. /\ Call(e) /\ UNCHANGED <<published, trimmed>>
          /\ \/ UNCHANGED <<handled, dropped>>
             \/ handled' = handled \cup {e} /\ dropped' = dropped
             \/ dropped' = dropped \cup {e} /\ handled' = handled
      BY <2>4 DEF HandlerReturns, HandlerFails, GiveUp, CrashInHandler, redis
    <3>2. NeverRefused => InOrder
      BY DEF IInv, InOrder
    <3> QED BY <2>0, <3>1, <3>2, CallRefines
  <2>5. ASSUME NEW e \in Events, Ack(e) \/ AckLost(e)
        PROVE  UNCHANGED <<published, SettledSet, last>>
    <3>1. UNCHANGED <<published, trimmed, handled, dropped, last>>
      BY <2>5 DEF Ack, AckLost, history
    <3> QED BY <3>1 DEF SettledSet, Settled
  <2> QED BY <1>2, <2>0, <2>1, <2>2, <2>3, <2>4, <2>5
          DEF Next, Loop, Dispatch, Fault
<1> QED BY <1>1, <1>2 DEF Promise!Next

(* The stream, the group and the consumer together implement the           *)
(* at-least-once log of EventLog, in order until Redis refuses an          *)
(* acknowledgement.                                                        *)
THEOREM KeepsPromise == Spec => ImplementsEventLog
<1>1. Init => Promise!Init
  <2>1. Init => published = 0 /\ last = 0 /\ {e \in 1..published : Settled(e)} = {}
    BY DEF Init
  <2> QED BY <2>1 DEF Promise!Init, Init, NeverRefused
<1>2. IInv /\ [Next]_vars => [Promise!Next]_(Promise!vars)
  BY StepRefines
<1> QED BY <1>1, <1>2, Invariant, PTL DEF Spec, ImplementsEventLog, Promise!Spec
=============================================================================
