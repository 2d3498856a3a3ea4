---------------------------- MODULE QkdlPool_proof ----------------------------
(***************************************************************************)
(* Proofs about QkdlPool, for any pool, any number of sessions and         *)
(* attempts, and fault budgets of any size.                                *)
(***************************************************************************)
EXTENDS QkdlPool, TLAPS

-----------------------------------------------------------------------------
(* Types *)

InitPcs == {"none", "send", "await", "cooling", "failing", "over", "lost"}

(* Nothing is done for a session before it is created. *)
Unborn ==
  \A s \in Session : status[s] = "none" =>
    /\ initPc[s] = "none" /\ table[s] = 0 /\ s \notin opened
    /\ \A k \in Try : net[<<s, k>>] = "none"

(* A budget that is left is at least one, and stays a number. *)
LEMMA StrikeType ==
  ASSUME faults \in [FaultKinds -> Nat], NEW kind \in FaultKinds, Strike(kind)
  PROVE  faults' \in [FaultKinds -> Nat]
BY DEF Strike

(* The loop of _init_qkdl stays within its range. *)
LEMMA NextTryType ==
  ASSUME initPc \in [Session -> InitPcs], tries \in [Session -> Try],
         NEW S, NextTry(S)
  PROVE  initPc' \in [Session -> InitPcs] /\ tries' \in [Session -> Try]
<1>1. initPc' \in [Session -> InitPcs]
  BY DEF NextTry, InitPcs
<1>2. \A s \in Session : tries[s] < InitRetries => tries[s] + 1 \in Try
  BY PoolAssumption DEF Try
<1>3. tries' \in [Session -> Try]
  BY <1>2 DEF NextTry
<1> QED BY <1>1, <1>3

(* Releasing leaves a lock to a session or to nobody. *)
LEMMA ReleaseType ==
  ASSUME lock \in [Qkdl -> Session \cup {None}], NEW s \in Session, Release(s)
  PROVE  lock' \in [Qkdl -> Session \cup {None}]
BY DEF Release

(* No session and no network to begin with. *)
LEMMA TypeInit == Init => TypeOK
<1> SUFFICES ASSUME Init
             PROVE  TypeOK
  OBVIOUS
<1>1. 1 \in Try
  BY PoolAssumption DEF Try
<1>2. reports \in [Session -> 0..MaxReports] /\ cancels \in [Session -> 0..MaxCancels]
  BY PoolAssumption DEF Init
<1>3. faults \in [FaultKinds -> Nat]
  BY PoolAssumption DEF Init
<1>4. tries \in [Session -> Try]
  BY <1>1 DEF Init
<1> QED BY <1>2, <1>3, <1>4 DEF Init, TypeOK

(* One step per action of the KME, the QKDL and the faults. *)
LEMMA TypeStep == TypeOK /\ Unborn /\ [Next]_vars => TypeOK'
<1> SUFFICES ASSUME TypeOK, Unborn, [Next]_vars
             PROVE  TypeOK'
  OBVIOUS
<1>0. /\ initPc \in [Session -> InitPcs] /\ tries \in [Session -> Try]
      /\ lock \in [Qkdl -> Session \cup {None}] /\ faults \in [FaultKinds -> Nat]
      /\ url \in [Session -> Qkdl \cup {None}]
  BY DEF TypeOK, InitPcs
<1>1. ASSUME NEW s \in Session, Create(s)
      PROVE  TypeOK'
  <2>1. PICK q \in Qkdl : /\ lock' = [lock EXCEPT ![q] = s]
                          /\ url' = [url EXCEPT ![s] = q]
    BY <1>1 DEF Create
  <2>2. q # None
    BY PoolAssumption
  <2>3. \A x \in Session : (url'[x] = None) <=> (status'[x] = "none")
    BY <1>1, <2>1, <2>2 DEF Create, TypeOK
  <2>4. lock' \in [Qkdl -> Session \cup {None}] /\ url' \in [Session -> Qkdl \cup {None}]
    BY <2>1 DEF TypeOK
  <2> QED BY <1>1, <2>3, <2>4 DEF Create, TypeOK, qkdl
<1>2. ASSUME NEW s \in Session, Join(s)
      PROVE  TypeOK'
  BY <1>2 DEF Join, TypeOK, task, qkdl
<1>3. ASSUME NEW s \in Session, Report(s)
      PROVE  TypeOK'
  <2>1. reports' \in [Session -> 0..MaxReports]
    BY <1>3, PoolAssumption DEF Report, TypeOK
  <2>2. stop' \in [Stop -> {"none", "due", "await", "release", "over"}]
    BY <1>3 DEF Report, SpawnStop, TypeOK
  <2>3. status[s] # "none"
    BY <1>3 DEF Report, TypeOK, Unborn
  <2> QED BY <1>3, <2>1, <2>2, <2>3 DEF Report, TypeOK, task, qkdl
<1>4. ASSUME NEW s \in Session, Cancel(s)
      PROVE  TypeOK'
  <2>1. cancels' \in [Session -> 0..MaxCancels]
    BY <1>4, PoolAssumption DEF Cancel, TypeOK
  <2>2. stop' \in [Stop -> {"none", "due", "await", "release", "over"}]
    BY <1>4 DEF Cancel, SpawnStop, TypeOK
  <2> QED BY <1>4, <2>1, <2>2 DEF Cancel, TypeOK, task, qkdl
<1>5. ASSUME NEW s \in Session, InitCall(s)
      PROVE  TypeOK'
  <2>1. table' \in [Session -> Try \cup {0}]
    <3>1. table \in [Session -> Try \cup {0}]
      BY DEF TypeOK
    <3>2. Purged(url[s]) \in [Session -> Try \cup {0}]
      BY <3>1 DEF Purged
    <3> QED BY <1>5, <3>1, <3>2 DEF InitCall
  <2>2. /\ net' \in [Net -> {"none", "starting", "up", "stopping", "down"}]
        /\ waiter' \in [Net -> Nat]
    <3>1. \/ net' = net /\ waiter' = waiter
          \/ /\ net' = [net EXCEPT ![<<s, tries[s]>>] = "starting"]
             /\ waiter' = [waiter EXCEPT ![<<s, tries[s]>>] = 0]
      BY <1>5 DEF InitCall
    <3>2. /\ net \in [Net -> {"none", "starting", "up", "stopping", "down"}]
          /\ waiter \in [Net -> Nat]
      BY DEF TypeOK
    <3> QED BY <3>1, <3>2
  <2>3. reply' \in [Session -> {"none", "ready", "busy", "cooling", "error"}]
    BY <1>5 DEF InitCall, TypeOK
  <2> QED BY <1>5, <2>1, <2>2, <2>3 DEF InitCall, TypeOK, kme
<1>6. ASSUME NEW s \in Session, InitReady(s) \/ InitRefused(s)
      PROVE  TypeOK'
  BY <1>6 DEF InitReady, InitRefused, TypeOK, kme, qkdl
<1>7. ASSUME NEW s \in Session, InitError(s) \/ InitWakes(s)
      PROVE  TypeOK'
  <2>1. initPc' \in [Session -> InitPcs] /\ tries' \in [Session -> Try]
    BY <1>0, <1>7, NextTryType DEF InitError, InitWakes
  <2> QED BY <1>7, <2>1 DEF InitError, InitWakes, TypeOK, InitPcs, kme, qkdl
<1>8. ASSUME NEW s \in Session, InitFails(s)
      PROVE  TypeOK'
  <2>1. lock' \in [Qkdl -> Session \cup {None}]
    BY <1>0, <1>8, ReleaseType DEF InitFails
  <2>2. status[s] # "none"
    BY <1>8 DEF InitFails, Unborn
  <2> QED BY <1>8, <2>1, <2>2 DEF InitFails, TypeOK, qkdl
<1>9. ASSUME NEW t \in Stop, StopCall(t)
      PROVE  TypeOK'
  <2>1. t[1] \in Session /\ t[2] \in Nat
    BY PoolAssumption DEF Stop
  <2>2. stop' \in [Stop -> {"none", "due", "await", "release", "over"}]
    BY <1>9 DEF StopCall, TypeOK
  <2>3. table' \in [Session -> Try \cup {0}] /\ waiter' \in [Net -> Nat]
    BY <1>9, <2>1 DEF StopCall, TypeOK
  <2>4. net' \in [Net -> {"none", "starting", "up", "stopping", "down"}]
    BY <1>9 DEF StopCall, TypeOK
  <2> QED BY <1>9, <2>2, <2>3, <2>4 DEF StopCall, TypeOK, kme, task
<1>10. ASSUME NEW t \in Stop, StopReleases(t)
       PROVE  TypeOK'
  <2>1. t[1] \in Session
    BY DEF Stop
  <2>2. lock' \in [Qkdl -> Session \cup {None}]
    BY <1>0, <1>10, <2>1, ReleaseType DEF StopReleases
  <2> QED BY <1>10, <2>2 DEF StopReleases, TypeOK, task, qkdl
<1>11. ASSUME NEW o \in Net, NetworkUp(o)
       PROVE  TypeOK'
  <2>1. o[1] \in Session /\ o[2] \in Try
    BY DEF Net
  <2>2. reply' \in [Session -> {"none", "ready", "busy", "cooling", "error"}]
    BY <1>11 DEF NetworkUp, AnswerTry, TypeOK
  <2>3. /\ net' \in [Net -> {"none", "starting", "up", "stopping", "down"}]
        /\ table' \in [Session -> Try \cup {0}]
    BY <1>11, <2>1 DEF NetworkUp, Comes, TypeOK
  <2> QED BY <1>11, <2>2, <2>3 DEF NetworkUp, TypeOK, kme
<1>12. ASSUME NEW o \in Net, NetworkDown(o)
       PROVE  TypeOK'
  <2>1. initPc' \in [Session -> InitPcs] /\ tries' \in [Session -> Try]
    BY <1>0, <1>12, NextTryType DEF NetworkDown
  <2>2. o = <<o[1], o[2]>> /\ o[1] \in Session /\ o[2] \in Try
    BY DEF Net
  <2>3. cooldown' \subseteq Qkdl
    <3>1. status[o[1]] # "none"
      BY <1>12, <2>2 DEF NetworkDown, Unborn
    <3>2. url[o[1]] \in Qkdl
      BY <2>2, <3>1 DEF TypeOK
    <3> QED BY <1>12, <3>2 DEF NetworkDown, TypeOK
  <2> QED BY <1>12, <2>1, <2>3 DEF NetworkDown, TypeOK, InitPcs, kme
<1>13. ASSUME NEW q \in Qkdl, CooldownOver(q)
       PROVE  TypeOK'
  BY <1>13 DEF CooldownOver, TypeOK, kme, task
<1>14. CASE Crash
  <2>1. faults' \in [FaultKinds -> Nat]
    BY <1>0, <1>14, StrikeType DEF Crash, FaultKinds
  <2>2. initPc' \in [Session -> InitPcs]
    BY <1>0, <1>14 DEF Crash, InitPcs
  <2> QED BY <1>14, <2>1, <2>2 DEF Crash, TypeOK, InitPcs, kme
<1>15. ASSUME NEW q \in Qkdl, Expire(q)
       PROVE  TypeOK'
  <2>1. faults' \in [FaultKinds -> Nat]
    BY <1>0, <1>15, StrikeType DEF Expire, FaultKinds
  <2> QED BY <1>15, <2>1 DEF Expire, TypeOK, task, qkdl
<1>16. ASSUME NEW s \in Session, InitUnanswered(s)
       PROVE  TypeOK'
  <2>1. faults' \in [FaultKinds -> Nat]
    BY <1>0, <1>16, StrikeType DEF InitUnanswered, FaultKinds
  <2>2. initPc' \in [Session -> InitPcs] /\ tries' \in [Session -> Try]
    BY <1>0, <1>16, NextTryType DEF InitUnanswered
  <2> QED BY <1>16, <2>1, <2>2 DEF InitUnanswered, TypeOK, InitPcs, kme, qkdl
<1>17. ASSUME NEW t \in Stop, StopUnanswered(t)
       PROVE  TypeOK'
  <2>1. faults' \in [FaultKinds -> Nat]
    BY <1>0, <1>17, StrikeType DEF StopUnanswered, FaultKinds
  <2>2. waiter' \in [Net -> Nat]
    BY <1>17 DEF StopUnanswered, TypeOK
  <2> QED BY <1>17, <2>1, <2>2 DEF StopUnanswered, TypeOK, kme, task
<1>18. ASSUME NEW o \in Net, NetworkStartFails(o)
       PROVE  TypeOK'
  <2>1. faults' \in [FaultKinds -> Nat]
    BY <1>0, <1>18, StrikeType DEF NetworkStartFails, FaultKinds
  <2> QED BY <1>18, <2>1 DEF NetworkStartFails, AnswerTry, TypeOK, kme
<1>19. CASE UNCHANGED vars
  BY <1>19 DEF vars, kme, task, qkdl, TypeOK
<1> QED BY <1>1, <1>2, <1>3, <1>4, <1>5, <1>6, <1>7, <1>8, <1>9, <1>10, <1>11, <1>12,
           <1>13, <1>14, <1>15, <1>16, <1>17, <1>18, <1>19
        DEF Next, Client, InitTask, StopTask, Executor, Fault

(* An object of a session is of one of its attempts. *)
LEMMA NetIs ==
  ASSUME NEW o \in Net
  PROVE  o = <<o[1], o[2]>> /\ o[1] \in Session /\ o[2] \in Try
BY DEF Net

(* Nothing begins for a session but by its creation. *)
LEMMA UnbornStep == TypeOK /\ Unborn /\ [Next]_vars => Unborn'
<1> SUFFICES ASSUME TypeOK, Unborn, [Next]_vars, NEW x \in Session, status'[x] = "none"
             PROVE  /\ initPc'[x] = "none" /\ table'[x] = 0 /\ x \notin opened'
                    /\ \A k \in Try : net'[<<x, k>>] = "none"
  BY DEF Unborn
<1> DEFINE Goal == /\ initPc'[x] = "none" /\ table'[x] = 0 /\ x \notin opened'
                   /\ \A k \in Try : net'[<<x, k>>] = "none"
<1>0. /\ status \in [Session -> {"none", "initializing", "sending", "over"}]
      /\ initPc \in [Session -> InitPcs] /\ table \in [Session -> Try \cup {0}]
      /\ net \in [Net -> {"none", "starting", "up", "stopping", "down"}]
      /\ tries \in [Session -> Try]
  BY DEF TypeOK, InitPcs
<1>1. ASSUME status[x] = "none"
      PROVE  /\ initPc[x] = "none" /\ table[x] = 0 /\ x \notin opened
             /\ \A k \in Try : net[<<x, k>>] = "none"
  BY <1>1 DEF Unborn
<1>2. ASSUME NEW s \in Session, Create(s) \/ Join(s) \/ Report(s) \/ Cancel(s)
      PROVE  Goal
  <2>1. s # x /\ status[x] = "none"
    BY <1>0, <1>2 DEF Create, Join, Report, Cancel
  <2> QED BY <1>0, <1>1, <1>2, <2>1 DEF Create, Join, Report, Cancel, task, qkdl
<1>3. ASSUME NEW s \in Session, InitCall(s)
      PROVE  Goal
  <2>1. status[x] = "none" /\ s # x
    BY <1>1, <1>3 DEF InitCall, kme
  <2>2. initPc'[x] = "none" /\ opened' = opened
    BY <1>0, <1>1, <1>3, <2>1 DEF InitCall, kme
  <2>3. table'[x] = 0
    BY <1>1, <1>3, <2>1 DEF InitCall, Purged
  <2>4. \A k \in Try : net'[<<x, k>>] = "none"
    <3>1. net' = net \/ net' = [net EXCEPT ![<<s, tries[s]>>] = "starting"]
      BY <1>3 DEF InitCall
    <3> QED BY <1>0, <1>1, <2>1, <3>1 DEF Net
  <2> QED BY <1>1, <2>1, <2>2, <2>3, <2>4
<1>4. ASSUME NEW s \in Session, InitReady(s) \/ InitRefused(s) \/ InitFails(s)
      PROVE  Goal
  <2>1. status[x] = "none" /\ s # x
    BY <1>0, <1>1, <1>4 DEF InitReady, InitRefused, InitFails, kme
  <2> QED BY <1>0, <1>1, <1>4, <2>1 DEF InitReady, InitRefused, InitFails, kme, qkdl
<1>5. ASSUME NEW S, NextTry(S), x \notin S, UNCHANGED <<status, opened, table>>,
             \A k \in Try : net[<<x, k>>] = "none" => net'[<<x, k>>] = "none"
      PROVE  Goal
  BY <1>0, <1>1, <1>5 DEF NextTry
<1>6. ASSUME NEW s \in Session, InitError(s) \/ InitWakes(s) \/ InitUnanswered(s)
      PROVE  Goal
  <2>1. NextTry({s}) /\ UNCHANGED <<kme, qkdl>> /\ initPc[s] # "none"
    BY <1>6 DEF InitError, InitWakes, InitUnanswered
  <2> QED BY <1>1, <1>5, <2>1 DEF kme, qkdl
<1>7. ASSUME NEW t \in Stop, StopCall(t)
      PROVE  Goal
  <2>1. status[x] = "none" /\ UNCHANGED <<initPc, opened>>
    BY <1>7 DEF StopCall, kme, task
  <2>2. CASE t[1] = x
    BY <1>1, <1>7, <2>1, <2>2 DEF StopCall
  <2>3. CASE t[1] # x
    BY <1>0, <1>1, <1>7, <2>1, <2>3 DEF StopCall, Net, Stop
  <2> QED BY <2>2, <2>3
<1>8. ASSUME NEW t \in Stop, StopReleases(t) \/ StopUnanswered(t)
      PROVE  Goal
  BY <1>1, <1>8 DEF StopReleases, StopUnanswered, kme, task, qkdl
<1>9. ASSUME NEW o \in Net, NetworkUp(o)
      PROVE  Goal
  <2>1. status[x] = "none" /\ UNCHANGED <<initPc, opened>> /\ net[o] = "starting"
    BY <1>9 DEF NetworkUp, Comes, kme
  <2>2. o[1] # x
    BY <1>1, <2>1, NetIs
  <2> QED BY <1>0, <1>1, <1>9, <2>1, <2>2, NetIs DEF NetworkUp, Comes
<1>10. ASSUME NEW o \in Net, NetworkStartFails(o)
       PROVE  Goal
  <2>1. status[x] = "none" /\ UNCHANGED <<initPc, opened, table>> /\ net[o] = "starting"
    BY <1>10 DEF NetworkStartFails, kme
  <2>2. o[1] # x
    BY <1>1, <2>1, NetIs
  <2> QED BY <1>0, <1>1, <1>10, <2>1, <2>2, NetIs DEF NetworkStartFails
<1>11. ASSUME NEW o \in Net, NetworkDown(o)
       PROVE  Goal
  <2>1. UNCHANGED <<status, opened, table>> /\ net[o] = "stopping"
    BY <1>11 DEF NetworkDown, kme
  <2>2. o[1] # x
    BY <1>1, <2>1, NetIs
  <2>3. \A k \in Try : net'[<<x, k>>] = net[<<x, k>>]
    BY <1>0, <1>11, <2>2, NetIs DEF NetworkDown, Net
  <2>4. NextTry(Sleepers(url[o[1]])) /\ x \notin Sleepers(url[o[1]])
    BY <1>1, <1>11, <2>1 DEF NetworkDown, Sleepers
  <2> QED BY <1>5, <2>1, <2>3, <2>4
<1>12. CASE Crash
  BY <1>0, <1>1, <1>12 DEF Crash, kme
<1>13. ASSUME NEW q \in Qkdl, Expire(q) \/ CooldownOver(q)
       PROVE  Goal
  BY <1>1, <1>13 DEF Expire, CooldownOver, kme, task, qkdl
<1>14. CASE UNCHANGED vars
  BY <1>1, <1>14 DEF vars, kme, task, qkdl
<1> QED BY <1>2, <1>3, <1>4, <1>6, <1>7, <1>8, <1>9, <1>10, <1>11, <1>12, <1>13, <1>14
        DEF Next, Client, InitTask, StopTask, Executor, Fault

-----------------------------------------------------------------------------
(* The session's record, the lock and the stop tasks *)

FaultsBound == \A k \in FaultKinds : faults[k] <= MaxFaults[k]

(* A stop task is one of a session that is over, and so is what it awaits. *)
StopOfOver ==
  /\ \A t \in Stop : stop[t] # "none" => status[t[1]] = "over"
  /\ \A o \in Net : waiter[o] # 0 => status[o[1]] = "over"

(* The steps of the faults strike, the others do not. *)
LEMMA FaultStep ==
  ASSUME [Next]_vars
  PROVE  UNCHANGED faults \/ \E kind \in FaultKinds : Strike(kind)
<1>1. ASSUME NEW s \in Session, Client(s) \/ InitTask(s)
      PROVE  UNCHANGED faults
  BY <1>1 DEF Client, Create, Join, Report, Cancel, InitTask, InitCall, InitReady,
              InitRefused, InitError, InitWakes, InitFails
<1>2. ASSUME NEW t \in Stop, StopTask(t)
      PROVE  UNCHANGED faults
  BY <1>2 DEF StopTask, StopCall, StopReleases
<1>3. ASSUME NEW o \in Net, Executor(o)
      PROVE  UNCHANGED faults
  BY <1>3 DEF Executor, NetworkUp, NetworkDown
<1>4. ASSUME NEW q \in Qkdl, CooldownOver(q)
      PROVE  UNCHANGED faults
  BY <1>4 DEF CooldownOver
<1>5. CASE Fault
  BY <1>5 DEF Fault, Crash, Expire, InitUnanswered, StopUnanswered, NetworkStartFails,
              FaultKinds
<1>6. CASE UNCHANGED vars
  BY <1>6 DEF vars
<1> QED BY <1>1, <1>2, <1>3, <1>4, <1>5, <1>6 DEF Next

(* What is unspent after a step was so before it, and did not strike. *)
LEMMA UnspentStep ==
  ASSUME TypeOK, TypeOK', FaultsBound, [Next]_vars
  PROVE  /\ FaultsBound'
         /\ \A K \in SUBSET FaultKinds :
              Unspent(K)' => Unspent(K) /\ \A k \in K : ~Strike(k)
<1>1. /\ faults \in [FaultKinds -> Nat] /\ faults' \in [FaultKinds -> Nat]
      /\ MaxFaults \in [FaultKinds -> Nat]
  BY PoolAssumption DEF TypeOK
<1>2. \A k \in FaultKinds : faults'[k] <= faults[k]
  <2>1. CASE UNCHANGED faults
    BY <1>1, <2>1
  <2>2. CASE \E kind \in FaultKinds : Strike(kind)
    BY <1>1, <2>2 DEF Strike
  <2> QED BY <2>1, <2>2, FaultStep
<1>3. \A k \in FaultKinds : faults[k] <= MaxFaults[k]
  BY DEF FaultsBound
<1>4. FaultsBound'
  <2> SUFFICES ASSUME NEW k \in FaultKinds
               PROVE  faults'[k] <= MaxFaults[k]
    BY DEF FaultsBound
  <2> QED BY <1>1, <1>2, <1>3
<1>5. ASSUME NEW K \in SUBSET FaultKinds, Unspent(K)', NEW k \in K
      PROVE  faults[k] = MaxFaults[k] /\ ~Strike(k)
  <2>1. k \in FaultKinds /\ faults'[k] = MaxFaults[k]
    BY <1>5 DEF Unspent
  <2>2. faults'[k] <= faults[k] /\ faults[k] <= MaxFaults[k]
    BY <1>2, <1>3, <2>1
  <2>3. faults[k] = MaxFaults[k]
    BY <1>1, <2>1, <2>2
  <2>4. ASSUME Strike(k)
        PROVE  FALSE
    <3>1. faults'[k] = faults[k] - 1
      BY <1>1, <2>1, <2>4 DEF Strike
    <3> QED BY <1>1, <2>1, <2>3, <3>1
  <2> QED BY <2>3, <2>4
<1> QED BY <1>4, <1>5 DEF Unspent

(* A session that is over stays over; the others go on in their order; a   *)
(* link is given to a session once.                                        *)
LEMMA StatusStep ==
  ASSUME TypeOK, [Next]_vars, NEW x \in Session
  PROVE  /\ status[x] = "over" => status'[x] = "over"
         /\ status[x] # "none" => status'[x] # "none" /\ url'[x] = url[x]
         /\ \/ status'[x] = status[x] \/ Create(x) \/ Join(x) \/ status'[x] = "over"
<1>0. /\ status \in [Session -> {"none", "initializing", "sending", "over"}]
      /\ url \in [Session -> Qkdl \cup {None}]
  BY DEF TypeOK
<1>1. ASSUME UNCHANGED <<status, url>>
      PROVE  /\ status[x] = "over" => status'[x] = "over"
             /\ status[x] # "none" => status'[x] # "none" /\ url'[x] = url[x]
             /\ status'[x] = status[x]
  BY <1>1
<1>2. ASSUME NEW s \in Session, InitTask(s)
      PROVE  UNCHANGED <<status, url>> \/ InitFails(s)
  BY <1>2 DEF InitTask, InitCall, InitReady, InitRefused, InitError, InitWakes, kme
<1>3. ASSUME NEW t \in Stop, StopTask(t) \/ StopUnanswered(t)
      PROVE  UNCHANGED <<status, url>>
  BY <1>3 DEF StopTask, StopCall, StopReleases, StopUnanswered, kme
<1>4. ASSUME NEW o \in Net, Executor(o) \/ NetworkStartFails(o)
      PROVE  UNCHANGED <<status, url>>
  BY <1>4 DEF Executor, NetworkUp, NetworkDown, NetworkStartFails, kme
<1>5. ASSUME NEW q \in Qkdl, CooldownOver(q) \/ Expire(q)
      PROVE  UNCHANGED <<status, url>>
  BY <1>5 DEF CooldownOver, Expire, kme
<1>6. CASE Crash \/ UNCHANGED vars
  BY <1>1, <1>6 DEF Crash, vars, kme
<1>7. ASSUME NEW s \in Session, InitUnanswered(s)
      PROVE  UNCHANGED <<status, url>>
  BY <1>7 DEF InitUnanswered, kme
<1>8. ASSUME NEW s \in Session, Create(s)
      PROVE  /\ status[x] = "over" => status'[x] = "over"
             /\ status[x] # "none" => status'[x] # "none" /\ url'[x] = url[x]
             /\ status'[x] = status[x] \/ Create(x)
  <2>1. status[s] = "none" /\ status' = [status EXCEPT ![s] = "initializing"]
    BY <1>8 DEF Create
  <2>2. \E q \in Qkdl : url' = [url EXCEPT ![s] = q]
    BY <1>8 DEF Create
  <2> QED BY <1>0, <1>8, <2>1, <2>2
<1>9. ASSUME NEW s \in Session, Join(s) \/ Report(s) \/ Cancel(s) \/ InitFails(s)
      PROVE  /\ status[x] = "over" => status'[x] = "over"
             /\ status[x] # "none" => status'[x] # "none" /\ url'[x] = url[x]
             /\ status'[x] = status[x] \/ Join(x) \/ status'[x] = "over"
  <2>1. url' = url
    BY <1>9 DEF Join, Report, Cancel, InitFails
  <2>2. \/ status[s] = "initializing" /\ status' = [status EXCEPT ![s] = "sending"] /\ Join(s)
        \/ status' = [status EXCEPT ![s] = "over"]
    BY <1>9 DEF Join, Report, Cancel, InitFails
  <2> QED BY <1>0, <2>1, <2>2
<1> QED BY <1>1, <1>2, <1>3, <1>4, <1>5, <1>6, <1>7, <1>8, <1>9
        DEF Next, Client, Fault

(* What becomes of the lock of a link. *)
LEMMA LockStep ==
  ASSUME TypeOK, StopOfOver, [Next]_vars, NEW q \in Qkdl
  PROVE  \/ lock'[q] = lock[q]
         \/ lock[q] = None /\ \E s \in Session : Create(s) /\ lock'[q] = s /\ url'[s] = q
         \/ lock[q] \in Session /\ lock'[q] = None /\ status'[lock[q]] = "over"
         \/ lock'[q] = None /\ Strike("expiry")
<1>0. /\ lock \in [Qkdl -> Session \cup {None}] /\ None \notin Session
      /\ status \in [Session -> {"none", "initializing", "sending", "over"}]
      /\ url \in [Session -> Qkdl \cup {None}]
  BY PoolAssumption DEF TypeOK
<1>1. ASSUME NEW s \in Session, Release(s), status'[s] = "over"
      PROVE  \/ lock'[q] = lock[q]
             \/ lock[q] \in Session /\ lock'[q] = None /\ status'[lock[q]] = "over"
  BY <1>0, <1>1 DEF Release
<1>2. ASSUME NEW s \in Session, InitTask(s)
      PROVE  UNCHANGED lock \/ InitFails(s)
  BY <1>2 DEF InitTask, InitCall, InitReady, InitRefused, InitError, InitWakes, kme
<1>3. ASSUME NEW s \in Session, InitFails(s)
      PROVE  Release(s) /\ status'[s] = "over"
  BY <1>0, <1>3 DEF InitFails
<1>4. ASSUME NEW t \in Stop, StopReleases(t)
      PROVE  t[1] \in Session /\ Release(t[1]) /\ status'[t[1]] = "over"
  BY <1>4 DEF StopReleases, StopOfOver, Stop
<1>5. ASSUME NEW t \in Stop, StopCall(t) \/ StopUnanswered(t)
      PROVE  UNCHANGED lock
  BY <1>5 DEF StopCall, StopUnanswered, kme
<1>6. ASSUME NEW o \in Net, Executor(o) \/ NetworkStartFails(o)
      PROVE  UNCHANGED lock
  BY <1>6 DEF Executor, NetworkUp, NetworkDown, NetworkStartFails, kme
<1>7. ASSUME NEW r \in Qkdl, CooldownOver(r) \/ Expire(r)
      PROVE  lock'[q] = lock[q] \/ (lock'[q] = None /\ Strike("expiry"))
  BY <1>0, <1>7 DEF CooldownOver, Expire, kme
<1>8. CASE Crash \/ UNCHANGED vars
  BY <1>8 DEF Crash, vars, kme
<1>9. ASSUME NEW s \in Session, InitUnanswered(s) \/ Join(s) \/ Report(s) \/ Cancel(s)
      PROVE  UNCHANGED lock
  BY <1>9 DEF InitUnanswered, Join, Report, Cancel, kme
<1>10. ASSUME NEW s \in Session, Create(s)
       PROVE  \/ lock'[q] = lock[q]
              \/ lock[q] = None /\ lock'[q] = s /\ url'[s] = q
  <2>1. PICK r \in Qkdl : /\ PickFree(r)
                          /\ lock' = [lock EXCEPT ![r] = s]
                          /\ url' = [url EXCEPT ![s] = r]
    BY <1>10 DEF Create
  <2>2. lock[r] = None
    BY <2>1 DEF PickFree, Free
  <2> QED BY <1>0, <2>1, <2>2
<1> QED BY <1>1, <1>2, <1>3, <1>4, <1>5, <1>6, <1>7, <1>8, <1>9, <1>10
        DEF Next, Client, StopTask, Fault

(* Every stop task is spawned for a session that is made over with it. *)
LEMMA StopOfOverStep ==
  ASSUME TypeOK, StopOfOver, [Next]_vars
  PROVE  StopOfOver'
<1>0. /\ stop \in [Stop -> {"none", "due", "await", "release", "over"}]
      /\ waiter \in [Net -> Nat]
      /\ status \in [Session -> {"none", "initializing", "sending", "over"}]
      /\ \A s \in Session : status[s] = "over" => status'[s] = "over"
  BY StatusStep DEF TypeOK
<1>1. ASSUME \A t \in Stop : stop'[t] # "none" => stop[t] # "none" \/ status'[t[1]] = "over",
             \A o \in Net : waiter'[o] # 0 => waiter[o] # 0 \/ status'[o[1]] = "over"
      PROVE  StopOfOver'
  <2>1. \A t \in Stop : t[1] \in Session
    BY DEF Stop
  <2>2. \A o \in Net : o[1] \in Session
    BY DEF Net
  <2> QED BY <1>0, <1>1, <2>1, <2>2 DEF StopOfOver
<1>2. ASSUME NEW s \in Session, Report(s) \/ Cancel(s)
      PROVE  StopOfOver'
  <2>1. SpawnStop(s) /\ status' = [status EXCEPT ![s] = "over"] /\ waiter' = waiter
    BY <1>2 DEF Report, Cancel, qkdl
  <2>2. \A t \in Stop : t # <<s, reports[s] + cancels[s] + 1>> => stop'[t] = stop[t]
    BY <1>0, <2>1 DEF SpawnStop
  <2>3. \A t \in Stop : t = <<s, reports[s] + cancels[s] + 1>> => status'[t[1]] = "over"
    BY <1>0, <2>1
  <2> QED BY <1>1, <2>1, <2>2, <2>3
<1>3. ASSUME NEW s \in Session, Create(s) \/ Join(s) \/ InitTask(s) \/ InitUnanswered(s)
      PROVE  StopOfOver'
  <2>1. stop' = stop
    BY <1>3 DEF Create, Join, InitTask, InitCall, InitReady, InitRefused, InitError,
                InitWakes, InitFails, InitUnanswered
  <2>2. \A o \in Net : waiter'[o] # 0 => waiter[o] # 0
    <3>1. waiter' = waiter \/ waiter' = [waiter EXCEPT ![<<s, tries[s]>>] = 0]
      BY <1>3 DEF Create, Join, InitTask, InitCall, InitReady, InitRefused, InitError,
                  InitWakes, InitFails, InitUnanswered, qkdl
    <3> QED BY <1>0, <3>1
  <2> QED BY <1>1, <2>1, <2>2
<1>4. ASSUME NEW u \in Stop, StopTask(u) \/ StopUnanswered(u)
      PROVE  StopOfOver'
  <2>1. stop[u] # "none" /\ status'[u[1]] = "over"
    <3>1. stop[u] # "none"
      BY <1>4 DEF StopTask, StopCall, StopReleases, StopUnanswered
    <3>2. u[1] \in Session
      BY DEF Stop
    <3> QED BY <1>0, <3>1, <3>2 DEF StopOfOver
  <2>2. \A t \in Stop : t # u => stop'[t] = stop[t]
    BY <1>0, <1>4 DEF StopTask, StopCall, StopReleases, StopUnanswered
  <2>3. \A o \in Net : o[1] # u[1] => (waiter'[o] # 0 => waiter[o] # 0)
    BY <1>0, <1>4 DEF StopTask, StopCall, StopReleases, StopUnanswered, qkdl
  <2> QED BY <1>1, <2>1, <2>2, <2>3
<1>5. ASSUME NEW o \in Net, NetworkDown(o)
      PROVE  StopOfOver'
  <2>1. \A p \in Net : waiter'[p] # 0 => waiter[p] # 0
    BY <1>0, <1>5 DEF NetworkDown
  <2>2. \A t \in Stop : stop'[t] # stop[t] => waiter[o] # 0 /\ t[1] = o[1]
    BY <1>0, <1>5 DEF NetworkDown
  <2>3. waiter[o] # 0 => status'[o[1]] = "over"
    BY <1>0 DEF StopOfOver, Net
  <2> QED BY <1>1, <2>1, <2>2, <2>3
<1>6. ASSUME NEW o \in Net, NetworkUp(o) \/ NetworkStartFails(o)
      PROVE  StopOfOver'
  BY <1>1, <1>6 DEF NetworkUp, NetworkStartFails
<1>7. ASSUME NEW q \in Qkdl, CooldownOver(q) \/ Expire(q)
      PROVE  StopOfOver'
  BY <1>1, <1>7 DEF CooldownOver, Expire, qkdl
<1>8. CASE Crash
  BY <1>0, <1>1, <1>8 DEF Crash
<1>9. CASE UNCHANGED vars
  BY <1>1, <1>9 DEF vars, qkdl
<1> QED BY <1>2, <1>3, <1>4, <1>5, <1>6, <1>7, <1>8, <1>9
        DEF Next, Client, Executor, Fault

(* The lock changes hands over nobody's head. *)
LEMMA LockHeldStep ==
  ASSUME TypeOK, TypeOK', StopOfOver, FaultsBound, LockHeldUntilOver, [Next]_vars
  PROVE  LockHeldUntilOver'
<1> SUFFICES ASSUME Unspent({"expiry"})', NEW x \in Session,
                    status'[x] \in {"initializing", "sending"}
             PROVE  lock'[url'[x]] = x
  BY DEF LockHeldUntilOver
<1>1. Unspent({"expiry"}) /\ ~Strike("expiry")
  BY UnspentStep DEF FaultKinds
<1>2. CASE status[x] \in {"initializing", "sending"}
  <2>1. lock[url[x]] = x /\ url[x] \in Qkdl /\ url'[x] = url[x]
    BY <1>1, <1>2, StatusStep DEF LockHeldUntilOver, TypeOK
  <2>2. x # None
    BY PoolAssumption
  <2> QED BY <1>1, <2>1, <2>2, LockStep
<1>3. CASE status[x] \notin {"initializing", "sending"}
  <2>1. Create(x)
    BY <1>3, StatusStep DEF Join
  <2>2. PICK q \in Qkdl : lock' = [lock EXCEPT ![q] = x] /\ url' = [url EXCEPT ![x] = q]
    BY <2>1 DEF Create
  <2> QED BY <2>2 DEF TypeOK
<1> QED BY <1>2, <1>3

-----------------------------------------------------------------------------
(* The networks on file *)

(* What is on file is up, and an answer waits for who awaits it. *)
FiledIsUp == \A s \in Session : table[s] # 0 => net[<<s, table[s]>>] = "up"
Answered  == \A s \in Session : reply[s] # "none" => initPc[s] = "await"

(* A session that was told its link is ready has its network on file until *)
(* it is over.                                                             *)
Served ==
  \A s \in Session : (reply[s] = "ready" \/ s \in opened) /\ status[s] # "over" =>
    table[s] # 0

Filing == FiledIsUp /\ Answered /\ Served

(* There is never anything to purge. *)
LEMMA NothingToPurge ==
  ASSUME TypeOK, FiledIsUp, NEW q
  PROVE  Purged(q) = table
<1>1. table \in [Session -> Try \cup {0}]
  BY DEF TypeOK
<1>2. \A s \in Session : table[s] # 0 => net[<<s, table[s]>>] = "up"
  BY DEF FiledIsUp
<1> QED BY <1>1, <1>2 DEF Purged

(* What /network/init does, the table being in order. *)
LEMMA InitCallDoes ==
  ASSUME TypeOK, FiledIsUp, NEW s \in Session, InitCall(s)
  PROVE  /\ initPc[s] = "send" /\ initPc' = [initPc EXCEPT ![s] = "await"]
         /\ table' = table
         /\ UNCHANGED <<kme, tries, stop, cooldown, faults>>
         /\ \/ /\ reply' = [reply EXCEPT ![s] = "cooling"]
               /\ UNCHANGED <<net, waiter>>
            \/ /\ table[s] # 0
               /\ reply' = [reply EXCEPT ![s] = "ready"]
               /\ UNCHANGED <<net, waiter>>
            \/ /\ \E x \in Session : x # s /\ url[x] = url[s] /\ table[x] # 0
               /\ reply' = [reply EXCEPT ![s] = "busy"]
               /\ UNCHANGED <<net, waiter>>
            \/ /\ \A x \in Session : url[x] = url[s] => table[x] = 0
               /\ net' = [net EXCEPT ![<<s, tries[s]>>] = "starting"]
               /\ waiter' = [waiter EXCEPT ![<<s, tries[s]>>] = 0]
               /\ reply' = reply
<1>1. Purged(url[s]) = table
  BY NothingToPurge
<1>2. \A x : Filed(x, url[s]) <=> url[x] = url[s] /\ table[x] # 0
  BY <1>1 DEF Filed
<1> QED BY <1>1, <1>2 DEF InitCall

(* A network is on file from its being up to its teardown. *)
LEMMA FilingStep ==
  ASSUME TypeOK, TypeOK', Unborn, StopOfOver, Filing, [Next]_vars
  PROVE  Filing'
<1> SUFFICES ASSUME NEW x \in Session
             PROVE  /\ table'[x] # 0 => net'[<<x, table'[x]>>] = "up"
                    /\ reply'[x] # "none" => initPc'[x] = "await"
                    /\ (reply'[x] = "ready" \/ x \in opened') /\ status'[x] # "over" =>
                          table'[x] # 0
  BY DEF Filing, FiledIsUp, Answered, Served
<1> DEFINE Goal == /\ table'[x] # 0 => net'[<<x, table'[x]>>] = "up"
                   /\ reply'[x] # "none" => initPc'[x] = "await"
                   /\ (reply'[x] = "ready" \/ x \in opened') /\ status'[x] # "over" =>
                         table'[x] # 0
<1>0. /\ status \in [Session -> {"none", "initializing", "sending", "over"}]
      /\ initPc \in [Session -> InitPcs] /\ tries \in [Session -> Try]
      /\ reply \in [Session -> {"none", "ready", "busy", "cooling", "error"}]
      /\ table \in [Session -> Try \cup {0}]
      /\ net \in [Net -> {"none", "starting", "up", "stopping", "down"}]
      /\ opened \subseteq Session
  BY DEF TypeOK, InitPcs
<1>00. /\ table[x] # 0 => net[<<x, table[x]>>] = "up" /\ <<x, table[x]>> \in Net
       /\ reply[x] # "none" => initPc[x] = "await"
       /\ (reply[x] = "ready" \/ x \in opened) /\ status[x] # "over" => table[x] # 0
       /\ status[x] = "over" => status'[x] = "over"
       /\ \A k : <<x, k>>[1] = x /\ <<x, k>>[2] = k
  BY <1>0, StatusStep DEF Filing, FiledIsUp, Answered, Served, Net
<1>1. ASSUME NEW s \in Session, Create(s)
      PROVE  Goal
  <2>1. /\ UNCHANGED <<opened, reply, table, net>>
        /\ initPc' = [initPc EXCEPT ![s] = "send"] /\ status[s] = "none"
        /\ status' = [status EXCEPT ![s] = "initializing"]
    BY <1>1 DEF Create, qkdl
  <2>2. x = s => reply[x] = "none" /\ x \notin opened /\ table[x] = 0
    BY <1>00, <2>1 DEF Unborn
  <2> QED BY <1>0, <1>00, <2>1, <2>2
<1>2. ASSUME NEW s \in Session, Join(s) \/ Report(s) \/ Cancel(s)
      PROVE  Goal
  <2>1. /\ UNCHANGED <<opened, reply, table, net, initPc>>
        /\ status'[x] # "over" => status[x] # "over"
    BY <1>0, <1>00, <1>2 DEF Join, Report, Cancel, task, qkdl
  <2> QED BY <1>00, <2>1
<1>3. ASSUME NEW s \in Session, InitCall(s)
      PROVE  Goal
  <2>1. /\ initPc[s] = "send" /\ initPc' = [initPc EXCEPT ![s] = "await"]
        /\ table' = table /\ UNCHANGED <<status, opened>>
        /\ \/ reply' = [reply EXCEPT ![s] = "cooling"] /\ net' = net
           \/ table[s] # 0 /\ reply' = [reply EXCEPT ![s] = "ready"] /\ net' = net
           \/ reply' = [reply EXCEPT ![s] = "busy"] /\ net' = net
           \/ /\ table[s] = 0
              /\ net' = [net EXCEPT ![<<s, tries[s]>>] = "starting"]
              /\ reply' = reply
    BY <1>3, InitCallDoes DEF kme, Filing
  <2>2. table'[x] # 0 => net'[<<x, table'[x]>>] = "up"
    BY <1>0, <1>00, <2>1
  <2>3. reply'[x] # "none" => initPc'[x] = "await"
    BY <1>0, <1>00, <2>1
  <2>4. (reply'[x] = "ready" \/ x \in opened') /\ status'[x] # "over" => table'[x] # 0
    BY <1>0, <1>00, <2>1
  <2> QED BY <2>2, <2>3, <2>4
<1>4. ASSUME NEW s \in Session, InitReady(s) \/ InitRefused(s) \/ InitFails(s)
      PROVE  Goal
  <2>1. UNCHANGED <<table, net>> /\ (x # s => UNCHANGED <<reply, initPc>>
                                           \/ (reply'[x] = reply[x] /\ initPc'[x] = initPc[x]))
    BY <1>0, <1>4 DEF InitReady, InitRefused, InitFails, qkdl
  <2>2. x = s => reply'[x] = "none"
    BY <1>0, <1>00, <1>4 DEF InitReady, InitRefused, InitFails
  <2>3. x \in opened' => x \in opened \/ (x = s /\ reply[x] = "ready")
    BY <1>4 DEF InitReady, InitRefused, InitFails, kme
  <2> QED BY <1>0, <1>00, <2>1, <2>2, <2>3
<1>5. ASSUME NEW s \in Session, InitError(s) \/ InitWakes(s) \/ InitUnanswered(s)
      PROVE  Goal
  <2>1. /\ UNCHANGED <<status, opened, table, net>>
        /\ x # s => reply'[x] = reply[x]
        /\ NextTry({s})
    BY <1>0, <1>5 DEF InitError, InitWakes, InitUnanswered, kme, qkdl
  <2>2. x = s => reply'[x] = "none"
    BY <1>0, <1>00, <1>5 DEF InitError, InitWakes, InitUnanswered
  <2>3. x # s => initPc'[x] = initPc[x]
    BY <2>1 DEF NextTry
  <2> QED BY <1>00, <2>1, <2>2, <2>3
<1>6. ASSUME NEW t \in Stop, StopCall(t)
      PROVE  Goal
  <2>1. t[1] \in Session /\ status[t[1]] = "over" /\ UNCHANGED <<status, opened, reply, initPc>>
    BY <1>6 DEF StopCall, StopOfOver, Stop, kme, task
  <2>2. table'[x] # 0 => net'[<<x, table'[x]>>] = "up"
    <3>1. CASE x = t[1]
      BY <1>0, <1>6, <3>1 DEF StopCall
    <3>2. CASE x # t[1]
      BY <1>0, <1>00, <1>6, <3>2 DEF StopCall
    <3> QED BY <3>1, <3>2
  <2>3. x # t[1] => table'[x] = table[x]
    BY <1>0, <1>6 DEF StopCall
  <2> QED BY <1>00, <2>1, <2>2, <2>3
<1>7. ASSUME NEW t \in Stop, StopReleases(t) \/ StopUnanswered(t)
      PROVE  Goal
  BY <1>00, <1>7 DEF StopReleases, StopUnanswered, kme, task, qkdl
<1>8. ASSUME NEW o \in Net, NetworkUp(o)
      PROVE  Goal
  <2>1. /\ UNCHANGED <<status, opened, initPc>>
        /\ net' = [net EXCEPT ![o] = "up"]
        /\ table' = [table EXCEPT ![o[1]] = o[2]]
        /\ reply' = IF initPc[o[1]] = "await" /\ tries[o[1]] = o[2]
                    THEN [reply EXCEPT ![o[1]] = "ready"] ELSE reply
    BY <1>8 DEF NetworkUp, Comes, AnswerTry, kme
  <2>2. o = <<o[1], o[2]>> /\ o[1] \in Session /\ o[2] # 0
    BY PoolAssumption DEF Net, Try
  <2>3. CASE x = o[1]
    BY <1>0, <1>00, <2>1, <2>2, <2>3
  <2>4. CASE x # o[1]
    BY <1>0, <1>00, <2>1, <2>2, <2>4
  <2> QED BY <2>3, <2>4
<1>9. ASSUME NEW o \in Net, NetworkStartFails(o)
      PROVE  Goal
  <2>1. /\ UNCHANGED <<status, opened, initPc, table>>
        /\ net[o] = "starting" /\ net' = [net EXCEPT ![o] = "down"]
        /\ reply' = IF initPc[o[1]] = "await" /\ tries[o[1]] = o[2]
                    THEN [reply EXCEPT ![o[1]] = "error"] ELSE reply
    BY <1>9 DEF NetworkStartFails, AnswerTry, kme
  <2> QED BY <1>0, <1>00, <2>1
<1>10. ASSUME NEW o \in Net, NetworkDown(o)
       PROVE  Goal
  <2>1. /\ UNCHANGED <<status, opened, reply, table>>
        /\ net[o] = "stopping" /\ net' = [net EXCEPT ![o] = "down"]
        /\ NextTry(Sleepers(url[o[1]]))
    BY <1>10 DEF NetworkDown, kme
  <2>2. initPc'[x] = initPc[x] \/ initPc[x] = "cooling"
    BY <2>1 DEF NextTry, Sleepers
  <2> QED BY <1>0, <1>00, <2>1, <2>2
<1>11. CASE Crash
  BY <1>00, <1>11 DEF Crash, kme
<1>12. ASSUME NEW q \in Qkdl, Expire(q) \/ CooldownOver(q)
       PROVE  Goal
  BY <1>00, <1>12 DEF Expire, CooldownOver, kme, task, qkdl
<1>13. CASE UNCHANGED vars
  BY <1>00, <1>13 DEF vars, kme, task, qkdl
<1> QED BY <1>1, <1>2, <1>3, <1>4, <1>5, <1>6, <1>7, <1>8, <1>9, <1>10, <1>11, <1>12, <1>13
        DEF Next, Client, InitTask, StopTask, Executor, Fault
-----------------------------------------------------------------------------
(* The theorems *)

(* Who is sending was opened, since Bob joins what was opened. *)
SendingIsOpened == \A s \in Session : status[s] = "sending" => s \in opened

PoolInv ==
  /\ TypeOK /\ Unborn /\ FaultsBound
  /\ StopOfOver /\ LockHeldUntilOver
  /\ Filing /\ SendingIsOpened

(* What was opened stays opened. *)
LEMMA OpenedStep ==
  ASSUME TypeOK, [Next]_vars
  PROVE  opened \subseteq opened'
<1>1. ASSUME NEW s \in Session, InitTask(s) \/ InitUnanswered(s)
      PROVE  opened \subseteq opened'
  BY <1>1 DEF InitTask, InitCall, InitReady, InitRefused, InitError, InitWakes, InitFails,
              InitUnanswered, kme
<1>2. ASSUME NEW s \in Session, Client(s)
      PROVE  opened \subseteq opened'
  BY <1>2 DEF Client, Create, Join, Report, Cancel
<1>3. ASSUME NEW t \in Stop, StopTask(t) \/ StopUnanswered(t)
      PROVE  opened \subseteq opened'
  BY <1>3 DEF StopTask, StopCall, StopReleases, StopUnanswered, kme
<1>4. ASSUME NEW o \in Net, Executor(o) \/ NetworkStartFails(o)
      PROVE  opened \subseteq opened'
  BY <1>4 DEF Executor, NetworkUp, NetworkDown, NetworkStartFails, kme
<1>5. ASSUME NEW q \in Qkdl, CooldownOver(q) \/ Expire(q)
      PROVE  opened \subseteq opened'
  BY <1>5 DEF CooldownOver, Expire, kme
<1>6. CASE Crash \/ UNCHANGED vars
  BY <1>6 DEF Crash, vars, kme
<1> QED BY <1>1, <1>2, <1>3, <1>4, <1>5, <1>6 DEF Next, Fault

LEMMA SendingIsOpenedStep ==
  ASSUME TypeOK, SendingIsOpened, [Next]_vars
  PROVE  SendingIsOpened'
<1> SUFFICES ASSUME NEW x \in Session, status'[x] = "sending"
             PROVE  x \in opened'
  BY DEF SendingIsOpened
<1>1. status[x] = "sending" \/ Join(x)
  <2>1. ASSUME Create(x)
        PROVE  FALSE
    BY <2>1 DEF Create, TypeOK
  <2> QED BY <2>1, StatusStep
<1>2. x \in opened
  BY <1>1 DEF SendingIsOpened, Join
<1> QED BY <1>2, OpenedStep

LEMMA PoolInvInit == Init => PoolInv
<1> SUFFICES ASSUME Init
             PROVE  PoolInv
  OBVIOUS
<1>1. TypeOK
  BY TypeInit
<1>2. Unborn /\ StopOfOver /\ LockHeldUntilOver /\ Filing /\ SendingIsOpened
  <2>1. Unborn
    BY DEF Init, Unborn, Net
  <2>2. StopOfOver
    BY DEF Init, StopOfOver
  <2>3. LockHeldUntilOver /\ SendingIsOpened
    BY DEF Init, LockHeldUntilOver, SendingIsOpened
  <2>4. Filing
    BY DEF Init, Filing, FiledIsUp, Answered, Served
  <2> QED BY <2>1, <2>2, <2>3, <2>4
<1>3. FaultsBound
  BY PoolAssumption DEF Init, FaultsBound
<1> QED BY <1>1, <1>2, <1>3 DEF PoolInv

LEMMA PoolInvStep == PoolInv /\ [Next]_vars => PoolInv'
<1> SUFFICES ASSUME PoolInv, [Next]_vars
             PROVE  PoolInv'
  OBVIOUS
<1>1. TypeOK' /\ Unborn'
  BY TypeStep, UnbornStep DEF PoolInv
<1>2. FaultsBound'
  BY <1>1, UnspentStep DEF PoolInv
<1>3. StopOfOver' /\ LockHeldUntilOver'
  BY <1>1, StopOfOverStep, LockHeldStep DEF PoolInv
<1>4. Filing' /\ SendingIsOpened'
  BY <1>1, FilingStep, SendingIsOpenedStep DEF PoolInv
<1> QED BY <1>1, <1>2, <1>3, <1>4 DEF PoolInv

LEMMA PoolInvHolds == Spec => []PoolInv
BY PoolInvInit, PoolInvStep, PTL DEF Spec

(* The state keeps its types: an attempt is one of the loop's range, a     *)
(* lock is a session's or nobody's, and who joined was opened.             *)
THEOREM TypeCorrect == Spec => []TypeOK
<1>1. PoolInv => TypeOK
  BY DEF PoolInv
<1> QED BY <1>1, PoolInvHolds, PTL

(* Until the time of a lock runs out, a session that is not over keeps the *)
(* link it was given.                                                      *)
THEOREM LockKept == Spec => []LockHeldUntilOver
<1>1. PoolInv => LockHeldUntilOver
  BY DEF PoolInv
<1> QED BY <1>1, PoolInvHolds, PTL

(* While a session is sending its link has its network up and on file,     *)
(* whatever faults strike.                                                 *)
THEOREM SendingIsServed == Spec => []SendingHasNetwork
<1>1. PoolInv => SendingHasNetwork
  <2> SUFFICES ASSUME PoolInv, NEW s \in Session, status[s] = "sending"
               PROVE  table[s] # 0 /\ net[<<s, table[s]>>] = "up"
    BY DEF SendingHasNetwork
  <2>1. s \in opened
    BY DEF PoolInv, SendingIsOpened
  <2>2. table[s] # 0
    BY <2>1 DEF PoolInv, Filing, Served
  <2> QED BY <2>2 DEF PoolInv, Filing, FiledIsUp
<1> QED BY <1>1, PoolInvHolds, PTL

(* Short of the timeout, a lock leaves a session's hands only when the     *)
(* session is over, and never into another session's hands directly.       *)
THEOREM HolderReleases == Spec => OnlyHolderReleases
<1> DEFINE A == \A q \in Qkdl : lock[q] # None /\ lock'[q] # lock[q] =>
                   /\ lock'[q] = None
                   /\ status[lock[q]] = "over" \/ status'[lock[q]] = "over"
                      \/ faults'["expiry"] # faults["expiry"]
<1>1. PoolInv /\ [Next]_vars => A
  <2> SUFFICES ASSUME PoolInv, [Next]_vars, NEW q \in Qkdl,
                      lock[q] # None, lock'[q] # lock[q]
               PROVE  /\ lock'[q] = None
                      /\ status'[lock[q]] = "over" \/ faults'["expiry"] # faults["expiry"]
    OBVIOUS
  <2>1. TypeOK /\ StopOfOver
    BY DEF PoolInv
  <2>2. ASSUME Strike("expiry")
        PROVE  faults'["expiry"] # faults["expiry"]
    BY <2>1, <2>2 DEF Strike, TypeOK, FaultKinds
  <2> QED BY <2>1, <2>2, LockStep
<1>2. PoolInv /\ [Next]_vars => [A]_vars
  BY <1>1
<1> QED BY <1>2, PoolInvHolds, PTL DEF Spec, OnlyHolderReleases
-----------------------------------------------------------------------------
(* The pool of LinkPool *)

(* Only a lock that runs out is not punctual. *)
LEMMA PunctualStays ==
  ASSUME TypeOK,
         UNCHANGED faults \/ \E kind \in FaultKinds \ {"expiry"} : Strike(kind)
  PROVE  Unspent({"expiry"})' = Unspent({"expiry"})
<1>1. faults'["expiry"] = faults["expiry"]
  BY DEF TypeOK, Strike, FaultKinds
<1> QED BY <1>1 DEF Unspent

LEMMA RunsOutOnce ==
  ASSUME TypeOK, FaultsBound, Strike("expiry")
  PROVE  Unspent({"expiry"})' = FALSE
<1>1. /\ faults["expiry"] \in Nat /\ MaxFaults["expiry"] \in Nat
      /\ faults["expiry"] <= MaxFaults["expiry"]
      /\ faults'["expiry"] = faults["expiry"] - 1
  BY PoolAssumption DEF TypeOK, FaultsBound, Strike, FaultKinds
<1>2. faults'["expiry"] # MaxFaults["expiry"]
  BY <1>1
<1> QED BY <1>2 DEF Unspent

(* While its lock is punctual a session that has not ended holds its link. *)
LEMMA PunctualHolds ==
  ASSUME PoolInv, NEW s \in Session, status[s] \in {"initializing", "sending"},
         Unspent({"expiry"})
  PROVE  Links!Holds(s)
BY DEF PoolInv, LockHeldUntilOver, Links!Holds

(* Releasing gives the link back if it is held, and is nothing otherwise. *)
LEMMA ReleaseGivesBack ==
  ASSUME NEW s \in Session, Release(s)
  PROVE  \/ UNCHANGED lock
         \/ Links!Holds(s) /\ lock' = Links!GivenBack(s)
BY DEF Release, Links!Holds, Links!GivenBack

(* A session that is made over ends, with the link given back or not; one  *)
(* that was over before can only give back what it holds.                  *)
LEMMA EndsOrGivesBack ==
  ASSUME PoolInv, NEW s \in Session, status[s] # "none",
         status' = [status EXCEPT ![s] = "over"], UNCHANGED <<url, faults>>,
         \/ UNCHANGED lock
         \/ Links!Holds(s) /\ lock' = Links!GivenBack(s)
  PROVE  [Links!Next]_(Links!vars)
<1>0. /\ TypeOK
      /\ status \in [Session -> {"none", "initializing", "sending", "over"}]
  BY DEF PoolInv, TypeOK
<1>1. Unspent({"expiry"})' = Unspent({"expiry"})
  BY <1>0, PunctualStays
<1>2. CASE status[s] = "over"
  <2>1. status' = status
    BY <1>0, <1>2
  <2>2. CASE UNCHANGED lock
    BY <1>1, <2>1, <2>2 DEF Links!vars
  <2>3. CASE Links!Holds(s) /\ lock' = Links!GivenBack(s)
    <3>1. Links!GiveBack(s)
      BY <1>1, <1>2, <2>1, <2>3 DEF Links!GiveBack
    <3> QED BY <3>1 DEF Links!Next
  <2> QED BY <2>2, <2>3
<1>3. CASE status[s] \in {"initializing", "sending"}
  <2>1. Unspent({"expiry"}) => Links!Holds(s)
    BY <1>3, PunctualHolds
  <2>2. Links!End(s)
    BY <1>1, <1>3, <2>1 DEF Links!End
  <2> QED BY <2>2 DEF Links!Next
<1> QED BY <1>0, <1>2, <1>3

(* Every step of the KME, the QKDL and the faults is one of the pool, or   *)
(* does not show in it.                                                    *)
LEMMA LinksStep ==
  ASSUME PoolInv, [Next]_vars
  PROVE  [Links!Next]_(Links!vars)
<1>0. /\ TypeOK /\ Unborn /\ StopOfOver /\ FaultsBound
      /\ status \in [Session -> {"none", "initializing", "sending", "over"}]
      /\ lock \in [Qkdl -> Session \cup {None}]
      /\ opened \subseteq Session /\ joined \subseteq opened
  BY DEF PoolInv, TypeOK
<1>1. ASSUME UNCHANGED <<status, url, lock>>,
             UNCHANGED faults \/ \E kind \in FaultKinds \ {"expiry"} : Strike(kind)
      PROVE  UNCHANGED Links!vars
  <2>1. Unspent({"expiry"})' = Unspent({"expiry"})
    BY <1>0, <1>1, PunctualStays
  <2> QED BY <1>1, <2>1 DEF Links!vars
<1>2. ASSUME NEW s \in Session, Create(s)
      PROVE  Links!Next
  <2>1. PICK q \in Qkdl : /\ PickFree(q)
                          /\ lock' = [lock EXCEPT ![q] = s]
                          /\ url' = [url EXCEPT ![s] = q]
    BY <1>2 DEF Create
  <2>2. lock[q] = None
    BY <2>1 DEF PickFree, Free
  <2>3. Unspent({"expiry"})' = Unspent({"expiry"})
    BY <1>0, <1>2, PunctualStays DEF Create
  <2>4. Links!Admit(s, q)
    BY <1>2, <2>1, <2>2, <2>3 DEF Create, Links!Admit
  <2> QED BY <2>4 DEF Links!Next
<1>3. ASSUME NEW s \in Session, Join(s)
      PROVE  Links!Next
  <2>1. Unspent({"expiry"})' = Unspent({"expiry"})
    BY <1>0, <1>3, PunctualStays DEF Join
  <2>2. Unspent({"expiry"}) => Links!Holds(s)
    BY <1>3, PunctualHolds DEF Join
  <2>3. Links!Begin(s)
    BY <1>3, <2>1, <2>2 DEF Join, Links!Begin
  <2> QED BY <2>3 DEF Links!Next
<1>4. ASSUME NEW s \in Session, Report(s) \/ Cancel(s)
      PROVE  [Links!Next]_(Links!vars)
  <2>1. status[s] # "none"
    BY <1>0, <1>4 DEF Report, Cancel, Unborn
  <2>2. /\ status' = [status EXCEPT ![s] = "over"]
        /\ UNCHANGED <<url, lock, faults>>
    BY <1>4 DEF Report, Cancel
  <2> QED BY <2>1, <2>2, EndsOrGivesBack
<1>5. ASSUME NEW s \in Session, InitFails(s)
      PROVE  [Links!Next]_(Links!vars)
  <2>1. status[s] # "none"
    BY <1>0, <1>5 DEF InitFails, Unborn
  <2>2. /\ status' = [status EXCEPT ![s] = "over"] /\ Release(s)
        /\ UNCHANGED <<url, faults>>
    BY <1>5 DEF InitFails
  <2> QED BY <2>1, <2>2, ReleaseGivesBack, EndsOrGivesBack
<1>6. ASSUME NEW t \in Stop, StopReleases(t)
      PROVE  [Links!Next]_(Links!vars)
  <2>1. t[1] \in Session /\ status[t[1]] = "over"
    BY <1>0, <1>6 DEF StopReleases, StopOfOver, Stop
  <2>2. status' = [status EXCEPT ![t[1]] = "over"]
    BY <1>0, <1>6, <2>1 DEF StopReleases
  <2>3. Release(t[1]) /\ UNCHANGED <<url, faults>>
    BY <1>6 DEF StopReleases
  <2> QED BY <2>1, <2>2, <2>3, ReleaseGivesBack, EndsOrGivesBack
<1>7. ASSUME NEW q \in Qkdl, Expire(q)
      PROVE  Links!Next
  <2>1. Unspent({"expiry"})' = FALSE
    BY <1>0, <1>7, RunsOutOnce DEF Expire
  <2>2. Links!RunOut(q)
    BY <1>7, <2>1 DEF Expire, Links!RunOut
  <2> QED BY <2>2 DEF Links!Next
<1>8. ASSUME NEW s \in Session, \/ InitCall(s) \/ InitReady(s) \/ InitRefused(s)
                                \/ InitError(s) \/ InitWakes(s) \/ InitUnanswered(s)
      PROVE  UNCHANGED Links!vars
  BY <1>1, <1>8 DEF InitCall, InitReady, InitRefused, InitError, InitWakes,
                    InitUnanswered, kme, FaultKinds
<1>9. ASSUME NEW t \in Stop, StopCall(t) \/ StopUnanswered(t)
      PROVE  UNCHANGED Links!vars
  BY <1>1, <1>9 DEF StopCall, StopUnanswered, kme, FaultKinds
<1>10. ASSUME NEW o \in Net, Executor(o) \/ NetworkStartFails(o)
       PROVE  UNCHANGED Links!vars
  BY <1>1, <1>10 DEF Executor, NetworkUp, NetworkDown, NetworkStartFails, kme, FaultKinds
<1>11. ASSUME NEW q \in Qkdl, CooldownOver(q)
       PROVE  UNCHANGED Links!vars
  BY <1>1, <1>11 DEF CooldownOver, kme
<1>12. CASE Crash \/ UNCHANGED vars
  BY <1>1, <1>12 DEF Crash, vars, kme, FaultKinds
<1> QED BY <1>2, <1>3, <1>4, <1>5, <1>6, <1>7, <1>8, <1>9, <1>10, <1>11, <1>12
        DEF Next, Client, InitTask, StopTask, Fault

(* The KME's locks, tasks and retries implement the pool of LinkPool: no   *)
(* session is admitted over another's head, and a link comes back only     *)
(* from a session that has ended or from a lock that has run out.          *)
THEOREM KeepsLinkPool == Spec => ImplementsLinkPool
<1>1. Init => Links!Init
  <2> SUFFICES ASSUME Init
               PROVE  Links!Init
    OBVIOUS
  <2>1. Unspent({"expiry"}) = TRUE
    BY DEF Init, Unspent
  <2> QED BY <2>1 DEF Init, Links!Init
<1>2. PoolInv /\ [Next]_vars => [Links!Next]_(Links!vars)
  BY LinksStep
<1> QED BY <1>1, <1>2, PoolInvHolds, PTL DEF Spec, ImplementsLinkPool, Links!Spec
=============================================================================
