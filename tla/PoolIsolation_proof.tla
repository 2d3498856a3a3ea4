-------------------------- MODULE PoolIsolation_proof --------------------------
(***************************************************************************)
(* That a link holds one session at a time, that no network is left behind *)
(* and that the holder of a link is not refused by it, each under the      *)
(* faults QkdlPool names: proved for any pool, any number of sessions and  *)
(* attempts.                                                               *)
(***************************************************************************)
EXTENDS QkdlPool_proof

-----------------------------------------------------------------------------
(* What belongs to one session, and the steps that touch it *)

TaskNo == 1..(MaxReports + MaxCancels)

(* Everything of a session but where its initialisation is. *)
Rest(x) ==
  /\ status'[x] = status[x] /\ reply'[x] = reply[x]
  /\ (x \in opened') = (x \in opened) /\ (x \in joined') = (x \in joined)
  /\ reports'[x] = reports[x] /\ cancels'[x] = cancels[x] /\ table'[x] = table[x]
  /\ \A k \in Try : net'[<<x, k>>] = net[<<x, k>>] /\ waiter'[<<x, k>>] = waiter[<<x, k>>]
  /\ \A n \in TaskNo : stop'[<<x, n>>] = stop[<<x, n>>]

Same(x)  == Rest(x) /\ initPc'[x] = initPc[x] /\ tries'[x] = tries[x]
Woken(x) == Rest(x) /\ initPc[x] = "cooling" /\ initPc'[x] \in {"send", "failing"}

OwnStep(x) ==
  \/ Client(x) \/ InitTask(x) \/ InitUnanswered(x)
  \/ \E t \in Stop : t[1] = x /\ (StopTask(t) \/ StopUnanswered(t))
  \/ \E o \in Net : o[1] = x /\ (Executor(o) \/ NetworkStartFails(o))

(* A step is one of the session's own, a crash, or does not touch it, but  *)
(* for waking it up when the link it waits for cools down again.           *)
LEMMA FrameStep ==
  ASSUME TypeOK, FiledIsUp, [Next]_vars, NEW x \in Session
  PROVE  OwnStep(x) \/ Crash \/ Same(x) \/ Woken(x)
<1> SUFFICES ASSUME ~OwnStep(x)
             PROVE  Crash \/ Same(x) \/ Woken(x)
  OBVIOUS
<1>0. /\ status \in [Session -> {"none", "initializing", "sending", "over"}]
      /\ initPc \in [Session -> InitPcs] /\ tries \in [Session -> Try]
      /\ reply \in [Session -> {"none", "ready", "busy", "cooling", "error"}]
      /\ table \in [Session -> Try \cup {0}]
      /\ net \in [Net -> {"none", "starting", "up", "stopping", "down"}]
      /\ waiter \in [Net -> Nat]
      /\ reports \in [Session -> 0..MaxReports] /\ cancels \in [Session -> 0..MaxCancels]
      /\ stop \in [Stop -> {"none", "due", "await", "release", "over"}]
  BY DEF TypeOK, InitPcs
<1>1. /\ \A k \in Try : <<x, k>> \in Net /\ <<x, k>>[1] = x
      /\ \A n \in TaskNo : <<x, n>> \in Stop /\ <<x, n>>[1] = x
      /\ \A s, k, y, l : <<s, k>> = <<y, l>> <=> s = y /\ k = l
  BY DEF Net, Stop, TaskNo
<1>2. ASSUME NEW s \in Session, Create(s) \/ Join(s) \/ Report(s) \/ Cancel(s)
      PROVE  Same(x)
  <2>1. s # x
    BY <1>2 DEF OwnStep, Client
  <2>2. \A n \in TaskNo : stop'[<<x, n>>] = stop[<<x, n>>]
    BY <1>0, <1>1, <1>2, <2>1 DEF Create, Join, Report, Cancel, SpawnStop
  <2>3. UNCHANGED <<tries, reply, qkdl>> /\ initPc'[x] = initPc[x] /\ status'[x] = status[x]
    BY <1>0, <1>2, <2>1 DEF Create, Join, Report, Cancel, task
  <2>4. /\ (x \in opened') = (x \in opened) /\ (x \in joined') = (x \in joined)
        /\ reports'[x] = reports[x] /\ cancels'[x] = cancels[x]
    BY <1>0, <1>2, <2>1 DEF Create, Join, Report, Cancel
  <2> QED BY <2>2, <2>3, <2>4 DEF Same, Rest, qkdl
<1>3. ASSUME NEW s \in Session, InitCall(s)
      PROVE  Same(x)
  <2>1. s # x
    BY <1>3 DEF OwnStep, InitTask
  <2>2. UNCHANGED <<kme, tries, stop, table>> /\ initPc'[x] = initPc[x] /\ reply'[x] = reply[x]
    <3>1. /\ UNCHANGED <<kme, tries, stop>> /\ table' = table
          /\ initPc' = [initPc EXCEPT ![s] = "await"]
      BY <1>3, InitCallDoes
    <3>2. \/ \E r : reply' = [reply EXCEPT ![s] = r]
          \/ reply' = reply
      BY <1>3, InitCallDoes
    <3> QED BY <1>0, <2>1, <3>1, <3>2
  <2>3. \A k \in Try : net'[<<x, k>>] = net[<<x, k>>] /\ waiter'[<<x, k>>] = waiter[<<x, k>>]
    <3>1. \/ UNCHANGED <<net, waiter>>
          \/ /\ net' = [net EXCEPT ![<<s, tries[s]>>] = "starting"]
             /\ waiter' = [waiter EXCEPT ![<<s, tries[s]>>] = 0]
      BY <1>3, InitCallDoes
    <3> QED BY <1>0, <1>1, <2>1, <3>1
  <2> QED BY <2>2, <2>3 DEF Same, Rest, kme
<1>4. ASSUME NEW s \in Session, InitReady(s) \/ InitRefused(s) \/ InitFails(s)
      PROVE  Same(x)
  <2>1. s # x
    BY <1>4 DEF OwnStep, InitTask
  <2>2. UNCHANGED <<tries, stop, qkdl, joined, reports, cancels>>
    BY <1>4 DEF InitReady, InitRefused, InitFails, kme
  <2>3. /\ status'[x] = status[x] /\ reply'[x] = reply[x] /\ initPc'[x] = initPc[x]
        /\ (x \in opened') = (x \in opened)
    BY <1>0, <1>4, <2>1 DEF InitReady, InitRefused, InitFails, kme
  <2> QED BY <2>2, <2>3 DEF Same, Rest, qkdl
<1>5. ASSUME NEW s \in Session, InitError(s) \/ InitWakes(s) \/ InitUnanswered(s)
      PROVE  Same(x)
  <2>1. s # x
    BY <1>5 DEF OwnStep, InitTask
  <2>2. UNCHANGED <<kme, stop, qkdl>> /\ NextTry({s}) /\ reply'[x] = reply[x]
    BY <1>0, <1>5, <2>1 DEF InitError, InitWakes, InitUnanswered
  <2> QED BY <2>1, <2>2 DEF Same, Rest, NextTry, kme, qkdl
<1>6. ASSUME NEW t \in Stop, StopCall(t)
      PROVE  Same(x)
  <2>1. t[1] # x /\ t[1] \in Session /\ t = <<t[1], t[2]>>
    BY <1>6 DEF OwnStep, StopTask, Stop
  <2>2. UNCHANGED <<kme, task>> /\ table'[x] = table[x]
    BY <1>0, <1>6, <2>1 DEF StopCall
  <2>3. \A n \in TaskNo : stop'[<<x, n>>] = stop[<<x, n>>]
    BY <1>0, <1>1, <1>6, <2>1 DEF StopCall
  <2>4. \A k \in Try : net'[<<x, k>>] = net[<<x, k>>] /\ waiter'[<<x, k>>] = waiter[<<x, k>>]
    <3>1. \/ UNCHANGED <<net, waiter>>
          \/ /\ net' = [net EXCEPT ![<<t[1], table[t[1]]>>] = "stopping"]
             /\ waiter' = [waiter EXCEPT ![<<t[1], table[t[1]]>>] = t[2]]
      BY <1>6 DEF StopCall
    <3> QED BY <1>0, <1>1, <2>1, <3>1
  <2> QED BY <2>2, <2>3, <2>4 DEF Same, Rest, kme, task
<1>7. ASSUME NEW t \in Stop, StopReleases(t) \/ StopUnanswered(t)
      PROVE  Same(x)
  <2>1. t[1] # x
    BY <1>7 DEF OwnStep, StopTask
  <2>2. UNCHANGED <<status, opened, joined, reports, cancels, task, table, net>>
    BY <1>7 DEF StopReleases, StopUnanswered, kme, qkdl
  <2>3. \A n \in TaskNo : stop'[<<x, n>>] = stop[<<x, n>>]
    BY <1>0, <1>1, <1>7, <2>1 DEF StopReleases, StopUnanswered
  <2>4. \A k \in Try : waiter'[<<x, k>>] = waiter[<<x, k>>]
    BY <1>0, <1>1, <1>7, <2>1 DEF StopReleases, StopUnanswered, qkdl
  <2> QED BY <2>2, <2>3, <2>4 DEF Same, Rest, task
<1>8. ASSUME NEW o \in Net, NetworkUp(o) \/ NetworkStartFails(o)
      PROVE  Same(x)
  <2>1. o[1] # x /\ o = <<o[1], o[2]>>
    BY <1>8, NetIs DEF OwnStep, Executor
  <2>2. UNCHANGED <<kme, initPc, tries, stop, waiter>> /\ table'[x] = table[x]
    BY <1>0, <1>8, <2>1 DEF NetworkUp, NetworkStartFails
  <2>3. reply'[x] = reply[x]
    BY <1>0, <1>8, <2>1 DEF NetworkUp, NetworkStartFails, AnswerTry
  <2>4. \A k \in Try : net'[<<x, k>>] = net[<<x, k>>]
    BY <1>0, <1>1, <1>8, <2>1 DEF NetworkUp, NetworkStartFails, Comes
  <2> QED BY <2>2, <2>3, <2>4 DEF Same, Rest, kme
<1>9. ASSUME NEW o \in Net, NetworkDown(o)
      PROVE  Same(x) \/ Woken(x)
  <2>1. o[1] # x /\ o = <<o[1], o[2]>>
    BY <1>9, NetIs DEF OwnStep, Executor
  <2>2. UNCHANGED <<kme, reply, table>> /\ NextTry(Sleepers(url[o[1]]))
    BY <1>9 DEF NetworkDown
  <2>3. \A n \in TaskNo : stop'[<<x, n>>] = stop[<<x, n>>]
    BY <1>0, <1>1, <1>9, <2>1 DEF NetworkDown
  <2>4. \A k \in Try : net'[<<x, k>>] = net[<<x, k>>] /\ waiter'[<<x, k>>] = waiter[<<x, k>>]
    BY <1>0, <1>1, <1>9, <2>1 DEF NetworkDown
  <2>5. Rest(x)
    BY <2>2, <2>3, <2>4 DEF Rest, kme
  <2> QED BY <2>2, <2>5 DEF Same, Woken, NextTry, Sleepers
<1>10. ASSUME NEW q \in Qkdl, Expire(q) \/ CooldownOver(q)
       PROVE  Same(x)
  BY <1>10 DEF Expire, CooldownOver, Same, Rest, kme, task, qkdl
<1>11. CASE UNCHANGED vars
  BY <1>11 DEF vars, Same, Rest, kme, task, qkdl
<1> QED BY <1>2, <1>3, <1>4, <1>5, <1>6, <1>7, <1>8, <1>9, <1>10, <1>11
        DEF Next, Client, InitTask, StopTask, Executor, Fault

(* Cancelled sessions stay so.                                             *)
LEMMA CancelStep ==
  ASSUME TypeOK, FiledIsUp, [Next]_vars, NoCancels'
  PROVE  NoCancels /\ \A s \in Session : ~Cancel(s)
<1> SUFFICES ASSUME NEW x \in Session
             PROVE  cancels[x] = 0 /\ ~Cancel(x)
  BY DEF NoCancels
<1>0. cancels \in [Session -> 0..MaxCancels] /\ cancels'[x] = 0 /\ MaxCancels \in Nat
  BY PoolAssumption DEF TypeOK, NoCancels
<1>1. ~Cancel(x)
  <2> SUFFICES ASSUME Cancel(x)
               PROVE  FALSE
    OBVIOUS
  <2>1. cancels'[x] = cancels[x] + 1
    BY <1>0 DEF Cancel
  <2> QED BY <1>0, <2>1
<1>2. cancels'[x] = cancels[x]
  <2>1. ASSUME Client(x)
        PROVE  cancels'[x] = cancels[x]
    BY <1>1, <2>1 DEF Client, Create, Join, Report
  <2>2. ASSUME InitTask(x) \/ InitUnanswered(x)
        PROVE  cancels'[x] = cancels[x]
    BY <2>2 DEF InitTask, InitCall, InitReady, InitRefused, InitError, InitWakes, InitFails,
                InitUnanswered, kme
  <2>3. ASSUME NEW t \in Stop, StopTask(t) \/ StopUnanswered(t)
        PROVE  cancels'[x] = cancels[x]
    BY <2>3 DEF StopTask, StopCall, StopReleases, StopUnanswered, kme
  <2>4. ASSUME NEW o \in Net, Executor(o) \/ NetworkStartFails(o)
        PROVE  cancels'[x] = cancels[x]
    BY <2>4 DEF Executor, NetworkUp, NetworkDown, NetworkStartFails, kme
  <2>5. CASE Crash \/ Same(x) \/ Woken(x)
    BY <2>5 DEF Crash, Same, Woken, Rest, kme
  <2> QED BY <2>1, <2>2, <2>3, <2>4, <2>5, FrameStep DEF OwnStep
<1> QED BY <1>0, <1>1, <1>2

-----------------------------------------------------------------------------
(* A session as long as no call runs out of time and none is cancelled     *)

(* Its initialisation is under way while nobody has heard of it. *)
UnderWay(s) ==
  initPc[s] \notin {"none", "over"} => status[s] = "initializing" /\ s \notin opened

(* A network is only started for the attempt that awaits it, unless the    *)
(* KME died meanwhile.                                                     *)
Starting(s) ==
  \A k \in Try : net[<<s, k>>] = "starting" =>
    \/ initPc[s] = "lost"
    \/ initPc[s] = "await" /\ tries[s] = k /\ reply[s] = "none"

(* It has one network, and that is on file when it is up. *)
OneNet(s)    == \A j, k \in Try : Live(<<s, j>>) /\ Live(<<s, k>>) => j = k
UpIsFiled(s) == \A k \in Try : net[<<s, k>>] = "up" => table[s] = k

(* Nothing is on file before the answer is ready. *)
NotYetFiled(s) ==
  table[s] # 0 => /\ initPc[s] \notin {"send", "cooling", "failing"}
                  /\ (initPc[s] = "await" => reply[s] = "ready")

(* Its teardown begins with the report of an outcome, or it has nothing to *)
(* tear down.                                                              *)
Reported(s) ==
  /\ \A n \in TaskNo : stop[<<s, n>>] # "none" => s \in joined /\ n <= reports[s]
  /\ s \in joined /\ reports[s] = 0 => status[s] = "sending"
  /\ \A k \in Try : net[<<s, k>>] = "stopping" => s \in joined /\ status[s] = "over"
  /\ reports[s] # 0 => 1 \in TaskNo /\ stop[<<s, 1>>] # "none"
  /\ status[s] = "over" => reports[s] # 0 \/ \A k \in Try : ~Live(<<s, k>>)

(* Who waits for a teardown is there to hear of it. *)
Awaited(s) ==
  \A k \in Try : waiter[<<s, k>>] # 0 =>
    /\ net[<<s, k>>] = "stopping"
    /\ waiter[<<s, k>>] \in TaskNo /\ stop[<<s, waiter[<<s, k>>]>>] = "await"

CalmAt(s) == /\ UnderWay(s) /\ Starting(s) /\ OneNet(s) /\ UpIsFiled(s)
             /\ NotYetFiled(s) /\ Reported(s) /\ Awaited(s)

(* The session's own part of the state, typed. *)
LocalType(x) ==
  /\ status[x] \in {"none", "initializing", "sending", "over"}
  /\ initPc[x] \in InitPcs /\ tries[x] \in Try
  /\ reply[x] \in {"none", "ready", "busy", "cooling", "error"}
  /\ table[x] \in Try \cup {0}
  /\ \A k \in Try : net[<<x, k>>] \in {"none", "starting", "up", "stopping", "down"}
  /\ \A k \in Try : waiter[<<x, k>>] \in Nat
  /\ reports[x] \in Nat /\ cancels[x] \in Nat
  /\ \A n \in TaskNo : stop[<<x, n>>] \in {"none", "due", "await", "release", "over"}
  /\ x \in joined => x \in opened

LEMMA Local ==
  ASSUME TypeOK, NEW x \in Session
  PROVE  LocalType(x)
<1>1. /\ \A k \in Try : <<x, k>> \in Net
      /\ \A n \in TaskNo : <<x, n>> \in Stop
  BY DEF Net, Stop, TaskNo
<1>2. reports[x] \in Nat /\ cancels[x] \in Nat
  BY PoolAssumption DEF TypeOK
<1> QED BY <1>1, <1>2 DEF TypeOK, LocalType, InitPcs

(* What a session is left in by a step that does not touch it. *)
LEMMA CalmRest ==
  ASSUME NEW x \in Session, CalmAt(x), LocalType(x), Same(x) \/ Woken(x)
  PROVE  CalmAt(x)'
<1>1. Rest(x) /\ \/ initPc'[x] = initPc[x] /\ tries'[x] = tries[x]
                 \/ initPc[x] = "cooling" /\ initPc'[x] \in {"send", "failing"}
  BY DEF Same, Woken
<1>2. UnderWay(x)' /\ Starting(x)' /\ NotYetFiled(x)'
  BY <1>1 DEF CalmAt, Rest, UnderWay, Starting, NotYetFiled
<1>3. OneNet(x)' /\ UpIsFiled(x)'
  BY <1>1 DEF CalmAt, Rest, OneNet, UpIsFiled, Live
<1>4. Reported(x)'
  BY <1>1 DEF CalmAt, Rest, Reported, Live
<1>5. Awaited(x)'
  BY <1>1 DEF CalmAt, Rest, Awaited
<1> QED BY <1>2, <1>3, <1>4, <1>5 DEF CalmAt

(* Its creation, Bob's joining it and the report of its outcome. *)
LEMMA CalmClient ==
  ASSUME TypeOK, Unborn, StopOfOver, NEW x \in Session, CalmAt(x), cancels[x] = 0,
         Create(x) \/ Join(x) \/ Report(x)
  PROVE  CalmAt(x)'
<1>0. LocalType(x)
  BY Local
<1>1. CASE Create(x)
  <2>1. /\ status[x] = "none" /\ initPc[x] = "none" /\ table[x] = 0 /\ x \notin opened
        /\ \A k \in Try : net[<<x, k>>] = "none"
    BY <1>1 DEF Create, Unborn
  <2>2. UNCHANGED <<opened, joined, reports, cancels, tries, reply, stop, table, net, waiter>>
    BY <1>1 DEF Create, qkdl
  <2>3. status'[x] = "initializing" /\ initPc'[x] = "send"
    BY <1>1 DEF Create, TypeOK
  <2> QED BY <2>1, <2>2, <2>3 DEF CalmAt, UnderWay, Starting, OneNet, UpIsFiled,
                                  NotYetFiled, Reported, Awaited, Live
<1>2. CASE Join(x)
  <2>1. /\ UNCHANGED <<opened, reports, cancels, initPc, tries, reply, stop, table, net, waiter>>
        /\ x \in opened /\ status[x] = "initializing" /\ x \in joined'
    BY <1>2 DEF Join, task, qkdl
  <2>2. status'[x] = "sending"
    BY <1>2 DEF Join, TypeOK
  <2> QED BY <2>1, <2>2 DEF CalmAt, UnderWay, Starting, OneNet, UpIsFiled,
                            NotYetFiled, Reported, Awaited, Live
<1>3. CASE Report(x)
  <2>1. /\ UNCHANGED <<opened, joined, cancels, initPc, tries, reply, table, net, waiter>>
        /\ x \in joined /\ x \in opened
        /\ reports[x] < MaxReports
    BY <1>3 DEF Report, task, qkdl, TypeOK
  <2>2. status'[x] = "over" /\ reports'[x] = reports[x] + 1 /\ reports[x] \in Nat
    BY <1>0, <1>3 DEF Report, TypeOK, LocalType
  <2>3. UnderWay(x)' /\ Starting(x)' /\ OneNet(x)' /\ UpIsFiled(x)' /\ NotYetFiled(x)'
    BY <2>1, <2>2 DEF CalmAt, UnderWay, Starting, OneNet, UpIsFiled, NotYetFiled, Live
  <2>4. /\ stop' = [stop EXCEPT ![<<x, reports[x] + 1>>] = "due"]
        /\ stop \in [Stop -> {"none", "due", "await", "release", "over"}]
        /\ \A n \in TaskNo : <<x, n>> \in Stop
    <3>1. reports[x] + cancels[x] + 1 = reports[x] + 1
      BY <2>2
    <3>2. stop' = [stop EXCEPT ![<<x, reports[x] + cancels[x] + 1>>] = "due"]
      BY <1>3 DEF Report, SpawnStop
    <3> QED BY <3>1, <3>2 DEF TypeOK, Stop, TaskNo
  <2>5. reports[x] + 1 \in TaskNo
    BY <2>1, <2>2, PoolAssumption DEF TaskNo
  <2>6. \A n \in TaskNo : stop'[<<x, n>>] = IF n = reports[x] + 1 THEN "due" ELSE stop[<<x, n>>]
    BY <2>4
  <2>7. \A n \in TaskNo : n \in Nat
    BY DEF TaskNo
  <2>8. \A n \in TaskNo : stop[<<x, n>>] # "none" => n <= reports[x]
    BY DEF CalmAt, Reported
  <2>9. \A n \in TaskNo : stop'[<<x, n>>] # "none" => x \in joined' /\ n <= reports'[x]
    BY <2>1, <2>2, <2>6, <2>7, <2>8
  <2>10. 1 \in TaskNo /\ stop'[<<x, 1>>] # "none"
    <3>1. 1 \in TaskNo
      BY <2>5, PoolAssumption DEF TaskNo
    <3>2. reports[x] # 0 => stop[<<x, 1>>] # "none"
      BY DEF CalmAt, Reported
    <3> QED BY <2>2, <2>6, <3>1, <3>2
  <2>11. Reported(x)'
    BY <2>1, <2>2, <2>9, <2>10 DEF Reported
  <2>12. Awaited(x)'
    BY <2>1, <2>2, <2>6, <2>8 DEF CalmAt, Awaited
  <2> QED BY <2>3, <2>11, <2>12 DEF CalmAt
<1> QED BY <1>1, <1>2, <1>3

(* Its initialisation *)
LEMMA CalmInit ==
  ASSUME TypeOK, Filing, NEW x \in Session, CalmAt(x),
         InitTask(x) \/ InitUnanswered(x), ~Strike("timeout")
  PROVE  CalmAt(x)'
<1>0. LocalType(x)
  BY Local
<1>1. CASE InitCall(x)
  <2>1. /\ initPc[x] = "send" /\ initPc' = [initPc EXCEPT ![x] = "await"] /\ table' = table
        /\ UNCHANGED <<kme, tries, stop>>
    BY <1>1, InitCallDoes DEF Filing
  <2>2. /\ initPc'[x] = "await" /\ status[x] = "initializing" /\ x \notin opened
        /\ table[x] = 0 /\ reply[x] = "none"
    BY <1>0, <2>1 DEF TypeOK, CalmAt, UnderWay, NotYetFiled, Filing, Answered
  <2>3. /\ UNCHANGED <<status, opened, joined, reports, stop, tries, table>>
    BY <2>1 DEF kme
  <2>4. \A k \in Try : ~Live(<<x, k>>)
    <3> SUFFICES ASSUME NEW k \in Try
                 PROVE  ~Live(<<x, k>>)
      OBVIOUS
    <3>1. net[<<x, k>>] # "starting"
      BY <2>1 DEF CalmAt, Starting
    <3>2. net[<<x, k>>] # "up"
      BY <2>2 DEF CalmAt, UpIsFiled, Try
    <3>3. net[<<x, k>>] # "stopping"
      BY <2>2 DEF CalmAt, Reported
    <3> QED BY <3>1, <3>2, <3>3 DEF Live
  <2>5. CASE net' = net /\ waiter' = waiter
    <3>1. UnderWay(x)' /\ NotYetFiled(x)'
      BY <2>2, <2>3 DEF UnderWay, NotYetFiled
    <3>2. Starting(x)' /\ OneNet(x)' /\ UpIsFiled(x)'
      BY <2>4, <2>5 DEF Starting, OneNet, UpIsFiled, Live
    <3>3. Reported(x)'
      BY <2>3, <2>5 DEF CalmAt, Reported, Live
    <3>4. Awaited(x)'
      BY <2>3, <2>5 DEF CalmAt, Awaited
    <3> QED BY <3>1, <3>2, <3>3, <3>4 DEF CalmAt
  <2>6. CASE /\ net' = [net EXCEPT ![<<x, tries[x]>>] = "starting"]
             /\ waiter' = [waiter EXCEPT ![<<x, tries[x]>>] = 0]
             /\ reply' = reply
    <3>0. \A k \in Try : net'[<<x, k>>] = IF k = tries[x] THEN "starting" ELSE net[<<x, k>>]
      BY <2>6 DEF TypeOK, Net
    <3>1. UnderWay(x)' /\ NotYetFiled(x)'
      BY <2>2, <2>3 DEF UnderWay, NotYetFiled
    <3>2. Starting(x)' /\ OneNet(x)' /\ UpIsFiled(x)'
      BY <2>2, <2>3, <2>4, <2>6, <3>0 DEF Starting, OneNet, UpIsFiled, Live
    <3>3. Reported(x)'
      BY <2>2, <2>3, <3>0 DEF CalmAt, Reported, Live
    <3>4. \A k \in Try : waiter'[<<x, k>>] = IF k = tries[x] THEN 0 ELSE waiter[<<x, k>>]
      BY <2>6 DEF TypeOK, Net
    <3>5. Awaited(x)'
      BY <2>3, <3>0, <3>4 DEF CalmAt, Awaited
    <3> QED BY <3>1, <3>2, <3>3, <3>5 DEF CalmAt
  <2> QED BY <1>1, <2>5, <2>6, InitCallDoes DEF Filing
<1>2. CASE InitReady(x) \/ InitRefused(x)
  <2>1. /\ UNCHANGED <<status, joined, reports, stop, tries, table, net, waiter>>
        /\ initPc[x] = "await" /\ reply[x] # "none" /\ reply'[x] = "none"
        /\ \/ initPc'[x] = "over"
           \/ initPc'[x] \in {"failing", "cooling"} /\ x \notin opened' /\ reply[x] # "ready"
    BY <1>2 DEF InitReady, InitRefused, kme, qkdl, TypeOK, CalmAt, UnderWay
  <2>2. \A k \in Try : net[<<x, k>>] # "starting"
    BY <2>1 DEF CalmAt, Starting
  <2>3. UnderWay(x)' /\ Starting(x)' /\ NotYetFiled(x)'
    BY <2>1, <2>2 DEF CalmAt, UnderWay, Starting, NotYetFiled
  <2>4. OneNet(x)' /\ UpIsFiled(x)' /\ Reported(x)' /\ Awaited(x)'
    BY <2>1 DEF CalmAt, OneNet, UpIsFiled, Reported, Awaited, Live
  <2> QED BY <2>3, <2>4 DEF CalmAt
<1>3. CASE InitError(x) \/ InitWakes(x) \/ InitUnanswered(x)
  <2>1. /\ UNCHANGED <<kme, stop, qkdl>> /\ NextTry({x})
        /\ \/ initPc[x] \in {"send", "cooling"}
           \/ initPc[x] = "await" /\ reply[x] = "error"
        /\ reply' = reply \/ reply' = [reply EXCEPT ![x] = "none"]
    BY <1>3 DEF InitError, InitWakes, InitUnanswered
  <2>2. initPc'[x] \in {"send", "failing"}
    BY <2>1 DEF NextTry
  <2>3. UNCHANGED <<status, opened, joined, reports, stop, table, net, waiter>>
    BY <2>1 DEF kme, qkdl
  <2>4. \A k \in Try : net[<<x, k>>] # "starting"
    BY <2>1 DEF CalmAt, Starting
  <2>5. UnderWay(x)' /\ Starting(x)' /\ NotYetFiled(x)'
    BY <2>1, <2>2, <2>3, <2>4 DEF CalmAt, UnderWay, Starting, NotYetFiled
  <2>6. OneNet(x)' /\ UpIsFiled(x)' /\ Reported(x)' /\ Awaited(x)'
    BY <2>3 DEF CalmAt, OneNet, UpIsFiled, Reported, Awaited, Live
  <2> QED BY <2>5, <2>6 DEF CalmAt
<1>4. CASE InitFails(x)
  <2>1. /\ initPc[x] = "failing" /\ initPc'[x] = "over" /\ status'[x] = "over"
        /\ UNCHANGED <<opened, joined, reports, stop, tries, reply, table, net, waiter>>
    BY <1>4 DEF InitFails, TypeOK, qkdl
  <2>2. /\ status[x] = "initializing" /\ x \notin opened /\ x \notin joined /\ table[x] = 0
    BY <1>0, <2>1 DEF CalmAt, UnderWay, NotYetFiled, LocalType
  <2>3. \A k \in Try : ~Live(<<x, k>>)
    <3> SUFFICES ASSUME NEW k \in Try
                 PROVE  ~Live(<<x, k>>)
      OBVIOUS
    <3>1. net[<<x, k>>] # "starting"
      BY <2>1 DEF CalmAt, Starting
    <3>2. net[<<x, k>>] # "up"
      BY <2>2 DEF CalmAt, UpIsFiled, Try
    <3>3. net[<<x, k>>] # "stopping"
      BY <2>2 DEF CalmAt, Reported
    <3> QED BY <3>1, <3>2, <3>3 DEF Live
  <2>4. UnderWay(x)' /\ NotYetFiled(x)'
    BY <2>1, <2>2 DEF UnderWay, NotYetFiled
  <2>5. Starting(x)' /\ OneNet(x)' /\ UpIsFiled(x)'
    BY <2>1, <2>3 DEF Starting, OneNet, UpIsFiled, Live
  <2>6. Reported(x)'
    BY <2>1, <2>2, <2>3 DEF CalmAt, Reported, Live
  <2>7. Awaited(x)'
    BY <2>1 DEF CalmAt, Awaited
  <2> QED BY <2>4, <2>5, <2>6, <2>7 DEF CalmAt
<1> QED BY <1>1, <1>2, <1>3, <1>4 DEF InitTask

(* Its teardown *)
LEMMA CalmStop ==
  ASSUME TypeOK, StopOfOver, FiledIsUp, NEW x \in Session, CalmAt(x),
         NEW t \in Stop, t[1] = x, StopTask(t) \/ StopUnanswered(t)
  PROVE  CalmAt(x)'
<1>0. LocalType(x) /\ t = <<x, t[2]>> /\ t[2] \in TaskNo
  BY Local DEF Stop, TaskNo
<1>1. stop[t] # "none" /\ status[x] = "over" /\ x \in joined
  <2>1. stop[t] # "none"
    BY DEF StopTask, StopCall, StopReleases, StopUnanswered
  <2> QED BY <1>0, <2>1 DEF StopOfOver, CalmAt, Reported
<1>2. \A n \in TaskNo : stop'[<<x, n>>] # "none" <=> stop[<<x, n>>] # "none"
  <2>1. \E r \in {"release", "await", "over"} : stop' = [stop EXCEPT ![t] = r]
    BY DEF StopTask, StopCall, StopReleases, StopUnanswered
  <2>2. stop \in [Stop -> {"none", "due", "await", "release", "over"}]
    BY DEF TypeOK
  <2>3. \A n \in TaskNo : <<x, n>> \in Stop
    BY DEF Stop, TaskNo
  <2> QED BY <1>1, <2>1, <2>2, <2>3
<1>3. UNCHANGED <<status, opened, joined, reports, initPc, tries, reply>>
  BY DEF StopTask, StopCall, StopReleases, StopUnanswered, kme, task
<1>00. /\ stop \in [Stop -> {"none", "due", "await", "release", "over"}]
       /\ waiter \in [Net -> Nat]
       /\ \A n \in TaskNo : <<x, n>> \in Stop /\ (<<x, n>> = t <=> n = t[2])
       /\ \A k \in Try : <<x, k>> \in Net /\ <<x, k>>[1] = x
  BY <1>0 DEF TypeOK, Stop, TaskNo, Net
<1>4. CASE UNCHANGED <<table, net>>
  <2>1. UnderWay(x)' /\ Starting(x)' /\ NotYetFiled(x)'
    BY <1>3, <1>4 DEF CalmAt, UnderWay, Starting, NotYetFiled
  <2>2. OneNet(x)' /\ UpIsFiled(x)' /\ Reported(x)'
    BY <1>2, <1>3, <1>4 DEF CalmAt, OneNet, UpIsFiled, Reported, Live
  <2>3. CASE /\ stop[t] # "await" /\ waiter' = waiter
             /\ \E r : stop' = [stop EXCEPT ![t] = r]
    <3>1. Awaited(x)'
      BY <1>00, <1>4, <2>3 DEF CalmAt, Awaited
    <3> QED BY <2>1, <2>2, <3>1 DEF CalmAt
  <2>4. CASE /\ \E r : stop' = [stop EXCEPT ![t] = r]
             /\ waiter' = [o \in Net |-> IF o[1] = t[1] /\ waiter[o] = t[2] THEN 0 ELSE waiter[o]]
    <3>1. Awaited(x)'
      BY <1>00, <1>4, <2>4 DEF CalmAt, Awaited
    <3> QED BY <2>1, <2>2, <3>1 DEF CalmAt
  <2>5. CASE StopCall(t)
    <3>1. table[x] = 0
      BY <1>4, <2>5 DEF StopCall, TypeOK
    <3> QED BY <2>3, <2>5, <3>1 DEF StopCall
  <2>6. CASE StopReleases(t)
    BY <2>3, <2>6 DEF StopReleases, qkdl
  <2>7. CASE StopUnanswered(t)
    BY <2>3, <2>4, <2>7 DEF StopUnanswered
  <2> QED BY <2>5, <2>6, <2>7 DEF StopTask
<1>5. CASE /\ table[x] # 0
           /\ table' = [table EXCEPT ![x] = 0]
           /\ net' = [net EXCEPT ![<<x, table[x]>>] = "stopping"]
           /\ waiter' = [waiter EXCEPT ![<<x, table[x]>>] = t[2]]
           /\ stop[t] = "due" /\ stop' = [stop EXCEPT ![t] = "await"]
  <2>1. table'[x] = 0 /\ net[<<x, table[x]>>] = "up"
    BY <1>5 DEF TypeOK, FiledIsUp
  <2>2. \A k \in Try : net'[<<x, k>>] = IF k = table[x] THEN "stopping" ELSE net[<<x, k>>]
    BY <1>5 DEF TypeOK, Net
  <2>3. UnderWay(x)' /\ Starting(x)' /\ NotYetFiled(x)'
    BY <1>3, <2>1, <2>2 DEF CalmAt, UnderWay, Starting, NotYetFiled
  <2>4. OneNet(x)' /\ UpIsFiled(x)'
    BY <1>0, <2>1, <2>2 DEF CalmAt, OneNet, UpIsFiled, Live, LocalType
  <2>5. Reported(x)'
    BY <1>0, <1>1, <1>2, <1>3, <2>1, <2>2 DEF CalmAt, Reported, Live, LocalType
  <2>6. \A k \in Try : waiter'[<<x, k>>] = IF k = table[x] THEN t[2] ELSE waiter[<<x, k>>]
    BY <1>5 DEF TypeOK, Net
  <2>7. \A n \in TaskNo : stop'[<<x, n>>] = IF n = t[2] THEN "await" ELSE stop[<<x, n>>]
    BY <1>00, <1>5
  <2>8. Awaited(x)'
    BY <1>0, <2>2, <2>6, <2>7 DEF CalmAt, Awaited
  <2> QED BY <2>3, <2>4, <2>5, <2>8 DEF CalmAt
<1>6. UNCHANGED <<table, net>> \/ StopCall(t)
  BY DEF StopTask, StopReleases, StopUnanswered, qkdl
<1> QED BY <1>4, <1>5, <1>6 DEF StopCall

(* What the QKDL's executor does for it *)
LEMMA CalmExecutor ==
  ASSUME TypeOK, Filing, NEW x \in Session, CalmAt(x),
         NEW o \in Net, o[1] = x, Executor(o) \/ NetworkStartFails(o)
  PROVE  CalmAt(x)'
<1>0. LocalType(x) /\ o = <<x, o[2]>> /\ o[2] \in Try /\ o[2] # 0
  BY Local, NetIs DEF Try
<1>1. UNCHANGED <<status, opened, joined, reports>>
  BY DEF Executor, NetworkUp, NetworkDown, NetworkStartFails, kme
<1>2. CASE NetworkUp(o)
  <2>1. /\ UNCHANGED <<initPc, tries, stop>> /\ net[o] = "starting"
        /\ table'[x] = o[2]
        /\ reply'[x] = IF initPc[x] = "await" /\ tries[x] = o[2] THEN "ready" ELSE reply[x]
    BY <1>0, <1>2 DEF NetworkUp, Comes, AnswerTry, TypeOK
  <2>2. \A k \in Try : net'[<<x, k>>] = IF k = o[2] THEN "up" ELSE net[<<x, k>>]
    BY <1>0, <1>2 DEF NetworkUp, Comes, TypeOK, Net
  <2>3. \A k \in Try : Live(<<x, k>>) => k = o[2]
    BY <1>0, <2>1 DEF CalmAt, OneNet, Live
  <2>4. UnderWay(x)' /\ Starting(x)' /\ NotYetFiled(x)'
    BY <1>0, <1>1, <2>1, <2>2, <2>3 DEF CalmAt, UnderWay, Starting, NotYetFiled, Live
  <2>5. OneNet(x)' /\ UpIsFiled(x)'
    BY <1>0, <2>1, <2>2, <2>3 DEF OneNet, UpIsFiled, Live
  <2>6. Reported(x)'
    BY <1>0, <1>1, <2>1, <2>2 DEF CalmAt, Reported, Live
  <2>7. Awaited(x)'
    BY <1>0, <1>2, <2>1, <2>2 DEF NetworkUp, CalmAt, Awaited
  <2> QED BY <2>4, <2>5, <2>6, <2>7 DEF CalmAt
<1>3. CASE NetworkStartFails(o)
  <2>1. /\ UNCHANGED <<initPc, tries, stop, table>> /\ net[o] = "starting"
        /\ reply'[x] = IF initPc[x] = "await" /\ tries[x] = o[2] THEN "error" ELSE reply[x]
    BY <1>0, <1>3 DEF NetworkStartFails, AnswerTry, TypeOK
  <2>2. \A k \in Try : net'[<<x, k>>] = IF k = o[2] THEN "down" ELSE net[<<x, k>>]
    BY <1>0, <1>3 DEF NetworkStartFails, TypeOK, Net
  <2>3. \A k \in Try : Live(<<x, k>>) => k = o[2]
    BY <1>0, <2>1 DEF CalmAt, OneNet, Live
  <2>4. \/ initPc[x] = "lost"
        \/ initPc[x] = "await" /\ tries[x] = o[2] /\ reply[x] = "none"
    BY <1>0, <2>1 DEF CalmAt, Starting
  <2>5. UnderWay(x)' /\ Starting(x)' /\ NotYetFiled(x)'
    BY <1>0, <1>1, <2>1, <2>2, <2>3, <2>4 DEF CalmAt, UnderWay, Starting, NotYetFiled, Live
  <2>6. OneNet(x)' /\ UpIsFiled(x)' /\ Reported(x)'
    BY <1>0, <1>1, <2>1, <2>2, <2>3 DEF CalmAt, OneNet, UpIsFiled, Reported, Live
  <2>7. Awaited(x)'
    BY <1>0, <1>3, <2>1, <2>2 DEF NetworkStartFails, CalmAt, Awaited
  <2> QED BY <2>5, <2>6, <2>7 DEF CalmAt
<1>4. CASE NetworkDown(o)
  <2>1. UNCHANGED <<table, reply>> /\ net[o] = "stopping"
    BY <1>4 DEF NetworkDown
  <2>2. \A k \in Try : net'[<<x, k>>] = IF k = o[2] THEN "down" ELSE net[<<x, k>>]
    BY <1>0, <1>4 DEF NetworkDown, TypeOK, Net
  <2>3. status[x] = "over"
    BY <1>0, <2>1 DEF CalmAt, Reported
  <2>4. /\ initPc[x] \in {"none", "over"}
        /\ initPc'[x] = initPc[x]
    <3>1. initPc[x] \in {"none", "over"}
      BY <2>3 DEF CalmAt, UnderWay
    <3> QED BY <1>4, <3>1 DEF NetworkDown, NextTry, Sleepers
  <2>50. /\ \A n \in TaskNo : <<x, n>> \in Stop
         /\ stop \in [Stop -> {"none", "due", "await", "release", "over"}]
    BY DEF Stop, TaskNo, TypeOK
  <2>51. /\ waiter[o] # 0 => waiter[o] \in TaskNo /\ stop[<<x, waiter[o]>>] = "await"
         /\ \A k \in Try : waiter[<<x, k>>] # 0 => k = o[2]
    BY <1>0, <2>1 DEF CalmAt, Awaited, OneNet, Live
  <2>5. \A n \in TaskNo : stop'[<<x, n>>] # "none" <=> stop[<<x, n>>] # "none"
    BY <1>4, <2>50, <2>51 DEF NetworkDown
  <2>6. UnderWay(x)' /\ Starting(x)' /\ NotYetFiled(x)'
    BY <1>1, <2>1, <2>2, <2>4 DEF CalmAt, UnderWay, Starting, NotYetFiled
  <2>7. OneNet(x)' /\ UpIsFiled(x)' /\ Reported(x)'
    BY <1>0, <1>1, <2>1, <2>2, <2>5 DEF CalmAt, OneNet, UpIsFiled, Reported, Live
  <2>8. \A k \in Try : waiter'[<<x, k>>] = 0
    BY <1>0, <1>4, <2>51 DEF NetworkDown, TypeOK, Net
  <2>9. Awaited(x)'
    BY <2>8 DEF Awaited
  <2> QED BY <2>6, <2>7, <2>9 DEF CalmAt
<1> QED BY <1>2, <1>3, <1>4 DEF Executor

(* A crash of the KME *)
LEMMA CalmCrash ==
  ASSUME TypeOK, NEW x \in Session, CalmAt(x), Crash
  PROVE  CalmAt(x)'
<1>1. /\ UNCHANGED <<status, opened, joined, reports, table, net>>
      /\ initPc'[x] = IF initPc[x] \in {"none", "over"} THEN initPc[x] ELSE "lost"
      /\ reply'[x] = "none"
      /\ \A k \in Try : waiter'[<<x, k>>] = 0
      /\ \A n \in TaskNo : stop'[<<x, n>>] = IF stop[<<x, n>>] = "none" THEN "none" ELSE "over"
  BY DEF Crash, kme, Net, Stop, TaskNo
<1>2. UnderWay(x)' /\ Starting(x)' /\ NotYetFiled(x)'
  BY <1>1 DEF CalmAt, UnderWay, Starting, NotYetFiled
<1>3. OneNet(x)' /\ UpIsFiled(x)' /\ Reported(x)' /\ Awaited(x)'
  BY <1>1 DEF CalmAt, OneNet, UpIsFiled, Reported, Awaited, Live
<1> QED BY <1>2, <1>3 DEF CalmAt

Calm == Unspent({"timeout"}) /\ NoCancels

CalmInv == Calm => \A s \in Session : CalmAt(s)

LEMMA CalmBefore ==
  ASSUME PoolInv, PoolInv', [Next]_vars, Calm'
  PROVE  Calm /\ ~Strike("timeout") /\ \A s \in Session : ~Cancel(s)
<1>1. Unspent({"timeout"}) /\ ~Strike("timeout")
  BY UnspentStep DEF PoolInv, Calm, FaultKinds
<1>2. NoCancels /\ \A s \in Session : ~Cancel(s)
  BY CancelStep DEF PoolInv, Filing, Calm
<1> QED BY <1>1, <1>2 DEF Calm

LEMMA CalmInvStep ==
  ASSUME PoolInv, PoolInv', CalmInv, [Next]_vars
  PROVE  CalmInv'
<1> SUFFICES ASSUME Calm', NEW x \in Session
             PROVE  CalmAt(x)'
  BY DEF CalmInv
<1>1. Calm /\ ~Strike("timeout") /\ ~Cancel(x) /\ CalmAt(x) /\ cancels[x] = 0
  BY CalmBefore DEF CalmInv, Calm, NoCancels
<1>2. TypeOK /\ Unborn /\ StopOfOver /\ Filing /\ FiledIsUp
  BY DEF PoolInv, Filing
<1>3. CASE Client(x)
  BY <1>1, <1>2, <1>3, CalmClient DEF Client
<1>4. CASE InitTask(x) \/ InitUnanswered(x)
  BY <1>1, <1>2, <1>4, CalmInit
<1>5. ASSUME NEW t \in Stop, t[1] = x, StopTask(t) \/ StopUnanswered(t)
      PROVE  CalmAt(x)'
  BY <1>1, <1>2, <1>5, CalmStop
<1>6. ASSUME NEW o \in Net, o[1] = x, Executor(o) \/ NetworkStartFails(o)
      PROVE  CalmAt(x)'
  BY <1>1, <1>2, <1>6, CalmExecutor
<1>7. CASE Crash
  BY <1>1, <1>2, <1>7, CalmCrash
<1>8. CASE Same(x) \/ Woken(x)
  BY <1>1, <1>2, <1>8, CalmRest, Local
<1> QED BY <1>2, <1>3, <1>4, <1>5, <1>6, <1>7, <1>8, FrameStep DEF OwnStep

-----------------------------------------------------------------------------
(* A session as long as the KME stays up and its calls get through         *)

(* Its network goes before its stop task moves on, and somebody waits for  *)
(* a teardown that is under way.                                           *)
TornDown(s) ==
  /\ initPc[s] # "lost"
  /\ \A n \in TaskNo : stop[<<s, n>>] \in {"await", "release", "over"} => table[s] = 0
  /\ \A k \in Try : net[<<s, k>>] = "stopping" => waiter[<<s, k>>] # 0

Steady == Calm /\ Unspent({"crash", "lost"})

SteadyInv == Steady => \A s \in Session : TornDown(s)

LEMMA SteadyInvStep ==
  ASSUME PoolInv, PoolInv', CalmInv, SteadyInv, [Next]_vars
  PROVE  SteadyInv'
<1> SUFFICES ASSUME Steady', NEW x \in Session
             PROVE  TornDown(x)'
  BY DEF SteadyInv
<1>0. /\ TypeOK /\ StopOfOver /\ Filing /\ FiledIsUp /\ LocalType(x)
      /\ \A n \in TaskNo : <<x, n>> \in Stop /\ <<x, n>>[1] = x /\ n # 0
      /\ \A k \in Try : <<x, k>> \in Net /\ <<x, k>>[1] = x
  BY Local DEF PoolInv, Filing, Stop, TaskNo, Net
<1>1. Calm /\ ~Strike("timeout") /\ ~Cancel(x) /\ CalmAt(x)
  BY CalmBefore DEF CalmInv, Steady
<1>2. Unspent({"crash", "lost"}) /\ ~Strike("crash") /\ ~Strike("lost")
  BY UnspentStep DEF PoolInv, Steady, FaultKinds
<1>3. TornDown(x)
  BY <1>1, <1>2 DEF SteadyInv, Steady
<1>4. CASE Create(x) \/ Join(x) \/ Report(x)
  <2>1. UNCHANGED <<table, net, waiter>> /\ initPc'[x] # "lost"
    <3>1. UNCHANGED <<table, net, waiter>>
      BY <1>4 DEF Create, Join, Report, qkdl
    <3>2. initPc' = initPc \/ initPc' = [initPc EXCEPT ![x] = "send"]
      BY <1>4 DEF Create, Join, Report, task
    <3> QED BY <1>0, <1>3, <3>1, <3>2 DEF TypeOK, TornDown
  <2>2. \A n \in TaskNo : stop'[<<x, n>>] = stop[<<x, n>>] \/ stop'[<<x, n>>] = "due"
    BY <1>0, <1>4 DEF Create, Join, Report, SpawnStop, TypeOK
  <2> QED BY <1>3, <2>1, <2>2 DEF TornDown
<1>5. CASE InitCall(x)
  <2>1. stop' = stop /\ table' = table /\ initPc'[x] = "await"
    <3>1. UNCHANGED <<kme, tries, stop>> /\ table' = table /\ initPc' = [initPc EXCEPT ![x] = "await"]
      BY <1>0, <1>5, InitCallDoes
    <3> QED BY <1>0, <3>1 DEF TypeOK
  <2>2. \A k \in Try : net'[<<x, k>>] = "stopping" =>
          net[<<x, k>>] = "stopping" /\ waiter'[<<x, k>>] = waiter[<<x, k>>]
    <3>1. \/ UNCHANGED <<net, waiter>>
          \/ /\ net' = [net EXCEPT ![<<x, tries[x]>>] = "starting"]
             /\ waiter' = [waiter EXCEPT ![<<x, tries[x]>>] = 0]
      BY <1>0, <1>5, InitCallDoes
    <3> QED BY <1>0, <3>1 DEF TypeOK
  <2> QED BY <1>3, <2>1, <2>2 DEF TornDown
<1>6. CASE \/ InitReady(x) \/ InitRefused(x) \/ InitError(x) \/ InitWakes(x) \/ InitFails(x)
           \/ InitUnanswered(x)
  <2>1. UNCHANGED <<stop, table, net, waiter>>
    BY <1>6 DEF InitReady, InitRefused, InitError, InitWakes, InitFails, InitUnanswered, qkdl
  <2>2. initPc'[x] # "lost"
    <3>1. \/ NextTry({x})
          \/ \E r \in {"over", "failing", "cooling"} : initPc' = [initPc EXCEPT ![x] = r]
      BY <1>6 DEF InitReady, InitRefused, InitError, InitWakes, InitFails, InitUnanswered
    <3>2. CASE NextTry({x})
      BY <3>2 DEF NextTry
    <3> QED BY <1>0, <3>1, <3>2 DEF TypeOK
  <2> QED BY <1>3, <2>1, <2>2 DEF TornDown
<1>7. ASSUME NEW t \in Stop, t[1] = x, StopCall(t)
      PROVE  TornDown(x)'
  <2>1. initPc' = initPc /\ table'[x] = 0
    BY <1>0, <1>7 DEF StopCall, task, TypeOK
  <2>2. t[2] # 0
    BY DEF Stop
  <2>3. \A k \in Try : net'[<<x, k>>] = "stopping" => waiter'[<<x, k>>] # 0
    <3>1. \/ UNCHANGED <<net, waiter>>
          \/ /\ net' = [net EXCEPT ![<<x, table[x]>>] = "stopping"]
             /\ waiter' = [waiter EXCEPT ![<<x, table[x]>>] = t[2]]
      BY <1>7 DEF StopCall
    <3> QED BY <1>0, <1>3, <2>2, <3>1 DEF TypeOK, TornDown
  <2> QED BY <1>3, <2>1, <2>3 DEF TornDown
<1>8. ASSUME NEW t \in Stop, t[1] = x, StopReleases(t)
      PROVE  TornDown(x)'
  <2>1. UNCHANGED <<initPc, table, net, waiter>> /\ stop[t] = "release"
    BY <1>8 DEF StopReleases, task, qkdl
  <2>2. t = <<x, t[2]>> /\ t[2] \in TaskNo
    BY <1>8 DEF Stop, TaskNo
  <2>3. table[x] = 0
    BY <1>3, <2>1, <2>2 DEF TornDown
  <2> QED BY <1>3, <2>1, <2>3 DEF TornDown
<1>9. ASSUME NEW o \in Net, o[1] = x, NetworkUp(o) \/ NetworkStartFails(o)
      PROVE  TornDown(x)'
  <2>1. /\ UNCHANGED <<initPc, stop, waiter>> /\ net[o] = "starting"
        /\ \E r : r # "stopping" /\ net' = [net EXCEPT ![o] = r]
    BY <1>9 DEF NetworkUp, NetworkStartFails, Comes
  <2>2. status[x] # "over"
    <3>1. o = <<x, o[2]>> /\ o[2] \in Try
      BY <1>9, NetIs
    <3>2. initPc[x] = "await"
      BY <1>1, <1>3, <2>1, <3>1 DEF CalmAt, Starting, TornDown
    <3> QED BY <1>1, <3>2 DEF CalmAt, UnderWay
  <2>3. \A n \in TaskNo : stop[<<x, n>>] = "none"
    BY <1>0, <2>2 DEF StopOfOver
  <2> QED BY <1>0, <1>3, <2>1, <2>3 DEF TornDown, TypeOK
<1>10. ASSUME NEW o \in Net, o[1] = x, NetworkDown(o)
       PROVE  TornDown(x)'
  <2>1. o = <<x, o[2]>> /\ o[2] \in Try /\ UNCHANGED table /\ net[o] = "stopping"
    BY <1>10, NetIs DEF NetworkDown
  <2>2. initPc'[x] # "lost"
    BY <1>3, <1>10 DEF NetworkDown, NextTry, TornDown
  <2>3. waiter[o] # 0 /\ waiter[o] \in TaskNo /\ stop[<<x, waiter[o]>>] = "await"
    BY <1>1, <1>3, <2>1 DEF TornDown, CalmAt, Awaited
  <2>4. table[x] = 0
    BY <1>3, <2>3 DEF TornDown
  <2>5. \A k \in Try : net'[<<x, k>>] = "stopping" => waiter'[<<x, k>>] # 0
    BY <1>0, <1>3, <1>10, <2>1 DEF NetworkDown, TypeOK, TornDown
  <2> QED BY <2>1, <2>2, <2>4, <2>5 DEF TornDown
<1>11. CASE Same(x) \/ Woken(x)
  BY <1>3, <1>11 DEF Same, Woken, Rest, TornDown
<1>12. ASSUME NEW t \in Stop, StopUnanswered(t)
       PROVE  FALSE
  BY <1>1, <1>2, <1>12 DEF StopUnanswered
<1>13. ~Crash
  BY <1>2 DEF Crash
<1> QED BY <1>0, <1>1, <1>4, <1>5, <1>6, <1>7, <1>8, <1>9, <1>10, <1>11, <1>12, <1>13, FrameStep
        DEF OwnStep, Client, InitTask, StopTask, Executor

-----------------------------------------------------------------------------
(* Two sessions and the lock of a link                                     *)

(* Only a session's failing initialisation or its stop task frees its lock *)
(* before the time runs out.                                               *)
LEMMA LockFreedBy ==
  ASSUME TypeOK, [Next]_vars, ~Strike("expiry"),
         NEW q \in Qkdl, lock[q] \in Session, lock'[q] # lock[q]
  PROVE  InitFails(lock[q]) \/ \E t \in Stop : t[1] = lock[q] /\ StopReleases(t)
<1>0. lock \in [Qkdl -> Session \cup {None}] /\ None \notin Session
  BY PoolAssumption DEF TypeOK
<1>1. ASSUME NEW s \in Session, Create(s)
      PROVE  FALSE
  <2>1. PICK r \in Qkdl : PickFree(r) /\ lock' = [lock EXCEPT ![r] = s]
    BY <1>1 DEF Create
  <2> QED BY <1>0, <2>1 DEF PickFree, Free
<1>2. ASSUME NEW s \in Session, Release(s)
      PROVE  lock[q] = s
  BY <1>0, <1>2 DEF Release
<1>3. ASSUME NEW s \in Session, Join(s) \/ Report(s) \/ Cancel(s) \/ InitUnanswered(s)
      PROVE  FALSE
  BY <1>3 DEF Join, Report, Cancel, InitUnanswered, kme
<1>4. ASSUME NEW s \in Session, InitTask(s)
      PROVE  InitFails(s)
  BY <1>4 DEF InitTask, InitCall, InitReady, InitRefused, InitError, InitWakes, kme
<1>5. ASSUME NEW t \in Stop, StopTask(t) \/ StopUnanswered(t)
      PROVE  StopReleases(t) /\ t[1] \in Session
  BY <1>5 DEF StopTask, StopCall, StopUnanswered, Stop, kme
<1>6. ASSUME NEW o \in Net, Executor(o) \/ NetworkStartFails(o)
      PROVE  FALSE
  BY <1>6 DEF Executor, NetworkUp, NetworkDown, NetworkStartFails, kme
<1>7. ASSUME NEW r \in Qkdl, CooldownOver(r) \/ Expire(r)
      PROVE  FALSE
  BY <1>7 DEF CooldownOver, Expire, kme
<1>8. CASE Crash \/ UNCHANGED vars
  BY <1>8 DEF Crash, vars, kme
<1> QED BY <1>1, <1>2, <1>3, <1>4, <1>5, <1>6, <1>7, <1>8
        DEF Next, Client, Fault, InitFails, StopReleases

(* A network comes into being for a session whose link has none on file.   *)
LEMMA NewNet ==
  ASSUME TypeOK, FiledIsUp, [Next]_vars, NEW o \in Net, ~Live(o), Live(o)'
  PROVE  /\ initPc[o[1]] = "send" /\ url' = url
         /\ \A y \in Session : url[y] = url[o[1]] => table[y] = 0
         /\ \A p \in Net : p # o => net'[p] = net[p]
<1>0. /\ o = <<o[1], o[2]>> /\ o[1] \in Session /\ o[2] \in Try
      /\ net \in [Net -> {"none", "starting", "up", "stopping", "down"}]
  BY NetIs DEF TypeOK
<1> DEFINE x == o[1]
<1>1. CASE InitCall(x)
  <2>1. /\ initPc[x] = "send" /\ UNCHANGED kme
        /\ \/ net' = net
           \/ /\ \A y \in Session : url[y] = url[x] => table[y] = 0
              /\ net' = [net EXCEPT ![<<x, tries[x]>>] = "starting"]
    BY <1>0, <1>1, InitCallDoes
  <2> QED BY <1>0, <2>1 DEF Live, kme
<1>2. CASE \/ Client(x) \/ InitReady(x) \/ InitRefused(x) \/ InitError(x) \/ InitWakes(x)
           \/ InitFails(x) \/ InitUnanswered(x) \/ Crash
  BY <1>2 DEF Client, Create, Join, Report, Cancel, InitReady, InitRefused, InitError, InitWakes,
              InitFails, InitUnanswered, Crash, qkdl, Live
<1>3. ASSUME NEW t \in Stop, t[1] = x, StopTask(t) \/ StopUnanswered(t)
      PROVE  FALSE
  <2>1. CASE UNCHANGED net
    BY <2>1 DEF Live
  <2>2. CASE StopCall(t) /\ table[x] # 0
    <3>1. net[<<x, table[x]>>] = "up"
      BY <1>0, <2>2 DEF FiledIsUp
    <3>2. net' = [net EXCEPT ![<<x, table[x]>>] = "stopping"]
      BY <1>3, <2>2 DEF StopCall
    <3> QED BY <1>0, <3>1, <3>2 DEF Live
  <2> QED BY <1>3, <2>1, <2>2 DEF StopTask, StopCall, StopReleases, StopUnanswered, qkdl
<1>4. ASSUME NEW p \in Net, Executor(p) \/ NetworkStartFails(p)
      PROVE  FALSE
  BY <1>0, <1>4 DEF Executor, NetworkUp, NetworkDown, NetworkStartFails, Comes, Live
<1>5. CASE Same(x) \/ Woken(x)
  BY <1>0, <1>5 DEF Same, Woken, Rest, Live
<1> QED BY <1>0, <1>1, <1>2, <1>3, <1>4, <1>5, FrameStep DEF OwnStep, InitTask

(* While a session is torn down, it has its link and one task does it.     *)
TearsDown(s) == \/ \E n \in TaskNo : stop[<<s, n>>] \in {"due", "await"}
                \/ \E k \in Try : net[<<s, k>>] = "stopping"

LockedAt(s) ==
  /\ TearsDown(s) => lock[url[s]] = s
  /\ (\E k \in Try : net[<<s, k>>] = "stopping") =>
       \A n \in TaskNo : stop[<<s, n>>] \notin {"due", "release"}

Single == Calm /\ Unspent({"expiry"}) /\ ReportedOnce

SingleInv == Single => (\A s \in Session : LockedAt(s)) /\ OneSessionPerLink

(* A session that was reported once has one stop task. *)
LEMMA OneTask ==
  ASSUME NEW x \in Session, LocalType(x), CalmAt(x), reports[x] <= 1
  PROVE  \A n \in TaskNo : stop[<<x, n>>] # "none" => n = 1
<1>1. \A n \in TaskNo : n \in Nat /\ n >= 1
  BY DEF TaskNo
<1> QED BY <1>1 DEF CalmAt, Reported, LocalType

LEMMA SingleBefore ==
  ASSUME PoolInv, PoolInv', [Next]_vars, Single'
  PROVE  Single /\ ~Strike("expiry")
<1>1. Calm /\ Unspent({"expiry"}) /\ ~Strike("expiry")
  BY CalmBefore, UnspentStep DEF PoolInv, Single, FaultKinds
<1>2. ASSUME NEW x \in Session
      PROVE  reports[x] <= 1
  <2>0. reports[x] \in Nat /\ reports'[x] \in Nat /\ reports'[x] <= 1
    BY <1>2, PoolAssumption DEF PoolInv, TypeOK, Single, ReportedOnce
  <2>1. reports'[x] = reports[x] \/ Report(x)
    <3>1. ASSUME Client(x)
          PROVE  reports'[x] = reports[x] \/ Report(x)
      BY <3>1 DEF Client, Create, Join, Cancel
    <3>2. ASSUME InitTask(x) \/ InitUnanswered(x) \/ Crash
          PROVE  reports'[x] = reports[x]
      BY <3>2 DEF InitTask, InitCall, InitReady, InitRefused, InitError, InitWakes, InitFails,
                  InitUnanswered, Crash, kme
    <3>3. ASSUME NEW t \in Stop, StopTask(t) \/ StopUnanswered(t)
          PROVE  reports'[x] = reports[x]
      BY <3>3 DEF StopTask, StopCall, StopReleases, StopUnanswered, kme
    <3>4. ASSUME NEW o \in Net, Executor(o) \/ NetworkStartFails(o)
          PROVE  reports'[x] = reports[x]
      BY <3>4 DEF Executor, NetworkUp, NetworkDown, NetworkStartFails, kme
    <3>5. CASE Same(x) \/ Woken(x)
      BY <3>5 DEF Same, Woken, Rest
    <3> QED BY <1>2, <3>1, <3>2, <3>3, <3>4, <3>5, FrameStep DEF OwnStep, PoolInv, Filing
  <2>2. Report(x) => reports'[x] = reports[x] + 1
    BY DEF Report, PoolInv, TypeOK
  <2> QED BY <2>0, <2>1, <2>2
<1> QED BY <1>1, <1>2 DEF Single, ReportedOnce

(* The lock of a session that is torn down stays its own. *)
LEMMA TearingHoldsLock ==
  ASSUME PoolInv, [Next]_vars, ~Strike("expiry"), NEW x \in Session, CalmAt(x),
         LockedAt(x), reports[x] <= 1, TearsDown(x)
  PROVE  lock'[url'[x]] = x
<1>0. TypeOK /\ StopOfOver /\ LocalType(x) /\ \A n \in TaskNo : <<x, n>> \in Stop /\ <<x, n>>[1] = x
  BY Local DEF PoolInv, Stop, TaskNo
<1>1. status[x] = "over"
  BY <1>0 DEF TearsDown, StopOfOver, CalmAt, Reported
<1>2. url[x] \in Qkdl /\ url'[x] = url[x] /\ lock[url[x]] = x
  BY <1>0, <1>1, StatusStep DEF TypeOK, LockedAt
<1>3. ~InitFails(x)
  BY <1>1 DEF InitFails, CalmAt, UnderWay
<1>4. ASSUME NEW t \in Stop, t[1] = x, StopReleases(t)
      PROVE  FALSE
  <2>1. t = <<x, t[2]>> /\ t[2] \in TaskNo /\ stop[t] = "release"
    BY <1>4 DEF StopReleases, Stop, TaskNo
  <2>2. \A n \in TaskNo : stop[<<x, n>>] # "none" => n = t[2]
    BY <1>0, <2>1, OneTask
  <2> QED BY <2>1, <2>2 DEF TearsDown, LockedAt
<1> QED BY <1>0, <1>2, <1>3, <1>4, LockFreedBy

LEMMA LockedStep ==
  ASSUME PoolInv, PoolInv', CalmInv, SingleInv, [Next]_vars, Single', NEW x \in Session
  PROVE  LockedAt(x)'
<1>0. /\ TypeOK /\ StopOfOver /\ Unborn /\ Filing /\ FiledIsUp /\ LocalType(x)
      /\ \A n \in TaskNo : <<x, n>> \in Stop /\ <<x, n>>[1] = x
      /\ \A k \in Try : <<x, k>> \in Net /\ <<x, k>>[1] = x
      /\ stop \in [Stop -> {"none", "due", "await", "release", "over"}]
      /\ net \in [Net -> {"none", "starting", "up", "stopping", "down"}]
  BY Local DEF PoolInv, Filing, Stop, TaskNo, Net, TypeOK
<1>1. /\ Single /\ ~Strike("expiry") /\ ~Strike("timeout") /\ ~Cancel(x)
      /\ CalmAt(x) /\ LockedAt(x) /\ reports[x] <= 1
  BY SingleBefore, CalmBefore DEF CalmInv, SingleInv, Single, ReportedOnce
<1>2. TearsDown(x) => lock'[url'[x]] = x
  BY <1>1, TearingHoldsLock
<1>3. ASSUME TearsDown(x)' => TearsDown(x),
             (\E k \in Try : net'[<<x, k>>] = "stopping") =>
               \A n \in TaskNo : stop'[<<x, n>>] \notin {"due", "release"}
      PROVE  LockedAt(x)'
  BY <1>2, <1>3 DEF LockedAt
<1>4. ASSUME \A n \in TaskNo : \/ stop'[<<x, n>>] = stop[<<x, n>>]
                               \/ stop'[<<x, n>>] \in {"none", "over"},
             \A k \in Try : net'[<<x, k>>] = "stopping" => net[<<x, k>>] = "stopping"
      PROVE  LockedAt(x)'
  <2>1. TearsDown(x)' => TearsDown(x)
    BY <1>4 DEF TearsDown
  <2> QED BY <1>1, <1>3, <1>4, <2>1 DEF LockedAt
<1>5. CASE Create(x) \/ Join(x)
  BY <1>4, <1>5 DEF Create, Join, qkdl
<1>6. CASE Report(x)
  <2>1. /\ x \in joined /\ UNCHANGED <<lock, url, net>> /\ reports'[x] = reports[x] + 1
        /\ reports'[x] <= 1 /\ reports[x] \in Nat
    BY <1>0, <1>6, PoolAssumption DEF Report, qkdl, TypeOK, LocalType, Single, ReportedOnce
  <2>2. status[x] = "sending"
    BY <1>1, <2>1 DEF CalmAt, Reported
  <2>3. lock[url[x]] = x
    BY <1>1, <2>2 DEF PoolInv, LockHeldUntilOver, Single
  <2>4. \A k \in Try : net[<<x, k>>] # "stopping"
    BY <1>1, <2>2 DEF CalmAt, Reported
  <2> QED BY <2>1, <2>3, <2>4 DEF LockedAt
<1>7. CASE InitTask(x) \/ InitUnanswered(x)
  <2>1. stop' = stop
    BY <1>7 DEF InitTask, InitCall, InitReady, InitRefused, InitError, InitWakes, InitFails,
                InitUnanswered
  <2>2. net' = net \/ net' = [net EXCEPT ![<<x, tries[x]>>] = "starting"]
    BY <1>7 DEF InitTask, InitCall, InitReady, InitRefused, InitError, InitWakes, InitFails,
                InitUnanswered, qkdl
  <2> QED BY <1>0, <1>4, <2>1, <2>2
<1>8. ASSUME NEW t \in Stop, t[1] = x, StopTask(t) \/ StopUnanswered(t)
      PROVE  LockedAt(x)'
  <2>1. t = <<x, t[2]>> /\ t[2] \in TaskNo /\ stop[t] # "none"
    BY <1>8 DEF StopTask, StopCall, StopReleases, StopUnanswered, Stop, TaskNo
  <2>2. \A n \in TaskNo : stop[<<x, n>>] # "none" => <<x, n>> = t
    BY <1>0, <1>1, <2>1, OneTask
  <2>3. CASE stop[t] = "due" /\ stop' = [stop EXCEPT ![t] = "release"] /\ net' = net
    <3>1. TearsDown(x)
      BY <2>1, <2>3 DEF TearsDown
    <3>2. \A k \in Try : net[<<x, k>>] # "stopping"
      BY <1>1, <2>1, <2>3 DEF LockedAt
    <3> QED BY <1>3, <2>3, <3>1, <3>2
  <2>4. CASE /\ stop[t] = "due" /\ stop' = [stop EXCEPT ![t] = "await"]
    <3>1. TearsDown(x)
      BY <2>1, <2>4 DEF TearsDown
    <3>2. \A n \in TaskNo : stop'[<<x, n>>] \notin {"due", "release"}
      BY <1>0, <2>2, <2>4
    <3> QED BY <1>3, <3>1, <3>2
  <2>5. CASE stop' = [stop EXCEPT ![t] = "over"] /\ net' = net
    <3>1. \A n \in TaskNo : \/ stop'[<<x, n>>] = stop[<<x, n>>]
                            \/ stop'[<<x, n>>] \in {"none", "over"}
      BY <1>0, <2>5
    <3> QED BY <1>4, <2>5, <3>1
  <2> QED BY <1>1, <1>8, <2>3, <2>4, <2>5 DEF StopTask, StopCall, StopReleases, StopUnanswered, qkdl
<1>9. ASSUME NEW o \in Net, o[1] = x, NetworkUp(o) \/ NetworkStartFails(o)
      PROVE  LockedAt(x)'
  <2>1. stop' = stop
    BY <1>9 DEF NetworkUp, NetworkStartFails
  <2>2. \A k \in Try : net'[<<x, k>>] = "stopping" => net[<<x, k>>] = "stopping"
    BY <1>0, <1>9 DEF NetworkUp, NetworkStartFails, Comes
  <2> QED BY <1>4, <2>1, <2>2
<1>10. ASSUME NEW o \in Net, o[1] = x, NetworkDown(o)
       PROVE  LockedAt(x)'
  <2>1. o = <<x, o[2]>> /\ o[2] \in Try /\ net[o] = "stopping" /\ net' = [net EXCEPT ![o] = "down"]
    BY <1>10, NetIs DEF NetworkDown
  <2>2. \A k \in Try : net'[<<x, k>>] # "stopping"
    <3>1. \A k \in Try : net[<<x, k>>] = "stopping" => k = o[2]
      BY <1>1, <2>1 DEF CalmAt, OneNet, Live
    <3> QED BY <1>0, <2>1, <3>1
  <2>3. TearsDown(x)
    BY <2>1 DEF TearsDown
  <2> QED BY <1>3, <2>2, <2>3
<1>11. CASE Same(x) \/ Woken(x)
  BY <1>4, <1>11 DEF Same, Woken, Rest
<1>12. CASE Crash
  <2>1. net' = net /\ \A n \in TaskNo : stop'[<<x, n>>] \in {"none", "over"}
    BY <1>0, <1>12 DEF Crash
  <2> QED BY <1>4, <2>1
<1> QED BY <1>0, <1>1, <1>5, <1>6, <1>7, <1>8, <1>9, <1>10, <1>11, <1>12, FrameStep
        DEF OwnStep, Client, Executor

(* A second network is not started while there is one on the link. *)
LEMMA OneSessionStep ==
  ASSUME PoolInv, PoolInv', CalmInv, CalmInv', SingleInv, [Next]_vars, Single'
  PROVE  OneSessionPerLink'
<1>0. /\ TypeOK /\ Unborn /\ Filing /\ FiledIsUp
      /\ Single /\ (\A s \in Session : CalmAt(s) /\ LockedAt(s)) /\ OneSessionPerLink
      /\ \A s \in Session : CalmAt(s)'
  BY SingleBefore DEF PoolInv, Filing, CalmInv, SingleInv, Single
<1>1. ASSUME NEW o \in Net, NEW p \in Net, Live(o), Live(p), url[o[1]] = url[p[1]]
      PROVE  o = p
  <2>1. status[o[1]] # "none"
    BY <1>0, <1>1, NetIs DEF Unborn, Live
  <2>2. url[o[1]] \in Qkdl
    BY <1>0, <2>1, NetIs DEF TypeOK
  <2> QED BY <1>0, <1>1, <2>2 DEF OneSessionPerLink, LiveNets
<1>2. ASSUME NEW o \in Net, Live(o)
      PROVE  url'[o[1]] = url[o[1]]
  <2>1. status[o[1]] # "none"
    BY <1>0, <1>2, NetIs DEF Unborn, Live
  <2> QED BY <1>0, <2>1, NetIs, StatusStep
<1>3. ASSUME NEW o \in Net, NEW p \in Net, ~Live(o), Live(o)', Live(p)', o # p,
             url'[o[1]] = url'[p[1]]
      PROVE  FALSE
  <2>1. /\ initPc[o[1]] = "send" /\ url' = url
        /\ \A y \in Session : url[y] = url[o[1]] => table[y] = 0
        /\ net'[p] = net[p]
    BY <1>0, <1>3, NewNet
  <2>2. o = <<o[1], o[2]>> /\ o[1] \in Session /\ o[2] \in Try
        /\ p = <<p[1], p[2]>> /\ p[1] \in Session /\ p[2] \in Try /\ p[2] # 0
    BY NetIs DEF Try
  <2>3. o[1] # p[1]
    <3>1. OneNet(o[1])'
      BY <1>0, <2>2 DEF CalmAt
    <3> QED BY <1>3, <2>2, <3>1 DEF OneNet
  <2>4. Live(p) /\ url[p[1]] = url[o[1]]
    BY <1>3, <2>1 DEF Live
  <2>5. lock[url[o[1]]] = o[1]
    <3>1. status[o[1]] = "initializing"
      BY <1>0, <2>1, <2>2 DEF CalmAt, UnderWay
    <3> QED BY <1>0, <2>2, <3>1 DEF PoolInv, LockHeldUntilOver, Single
  <2>6. net[p] # "starting"
    <3> SUFFICES ASSUME net[p] = "starting"
                 PROVE  FALSE
      OBVIOUS
    <3>1. initPc[p[1]] \in {"lost", "await"}
      BY <1>0, <2>2 DEF CalmAt, Starting
    <3>2. status[p[1]] = "initializing"
      BY <1>0, <2>2, <3>1 DEF CalmAt, UnderWay
    <3>3. lock[url[p[1]]] = p[1]
      BY <1>0, <2>2, <3>2 DEF PoolInv, LockHeldUntilOver, Single
    <3> QED BY <2>3, <2>4, <2>5, <3>3
  <2>7. net[p] # "up"
    BY <1>0, <2>1, <2>2, <2>4 DEF CalmAt, UpIsFiled
  <2>8. net[p] # "stopping"
    <3> SUFFICES ASSUME net[p] = "stopping"
                 PROVE  FALSE
      OBVIOUS
    <3>1. lock[url[p[1]]] = p[1]
      BY <1>0, <2>2 DEF LockedAt, TearsDown
    <3> QED BY <2>3, <2>4, <2>5, <3>1
  <2> QED BY <2>4, <2>6, <2>7, <2>8 DEF Live
<1>4. ASSUME NEW o \in Net, NEW p \in Net, Live(o)', Live(p)', url'[o[1]] = url'[p[1]]
      PROVE  o = p
  <2>1. CASE Live(o) /\ Live(p)
    BY <1>1, <1>2, <1>4, <2>1
  <2>2. CASE ~Live(o)
    BY <1>3, <1>4, <2>2
  <2>3. CASE ~Live(p)
    BY <1>3, <1>4, <2>3
  <2> QED BY <2>1, <2>2, <2>3
<1> QED BY <1>4 DEF OneSessionPerLink, LiveNets

LEMMA SingleInvStep ==
  ASSUME PoolInv, PoolInv', CalmInv, CalmInv', SingleInv, [Next]_vars
  PROVE  SingleInv'
BY LockedStep, OneSessionStep DEF SingleInv

(* Who has a network on file has the lock, and so nobody is refused.       *)
HeldAt(s) == (table[s] # 0 => lock[url[s]] = s) /\ reply[s] # "busy"

Held == Steady /\ Unspent({"expiry"})

HeldInv == Held => \A s \in Session : HeldAt(s)

LEMMA HeldInvStep ==
  ASSUME PoolInv, PoolInv', CalmInv, SteadyInv, HeldInv, [Next]_vars
  PROVE  HeldInv'
<1> SUFFICES ASSUME Held', NEW x \in Session
             PROVE  HeldAt(x)'
  BY DEF HeldInv
<1>0. /\ TypeOK /\ Unborn /\ StopOfOver /\ Filing /\ FiledIsUp /\ LockHeldUntilOver
  BY DEF PoolInv, Filing
<1>1. /\ Held /\ ~Strike("expiry")
      /\ \A s \in Session : CalmAt(s) /\ TornDown(s) /\ HeldAt(s)
  <2>1. Calm /\ \A k \in {"crash", "lost", "expiry"} : Unspent({k}) /\ ~Strike(k)
    <3>1. \A k \in {"crash", "lost", "expiry"} : Unspent({k})'
      BY DEF Held, Steady, Unspent
    <3>2. \A k \in {"crash", "lost", "expiry"} : {k} \in SUBSET FaultKinds
      BY DEF FaultKinds
    <3> QED BY <3>1, <3>2, CalmBefore, UnspentStep DEF PoolInv, Held, Steady
  <2>2. Held
    BY <2>1 DEF Held, Steady, Unspent
  <2> QED BY <2>1, <2>2 DEF CalmInv, SteadyInv, HeldInv, Held, Steady
<1>2. ~Crash /\ status[x] \in {"initializing", "sending"} => lock[url[x]] = x
  BY <1>0, <1>1 DEF LockHeldUntilOver, Held
<1>3. table'[x] # 0 => lock'[url'[x]] = x
  <2>1. CASE table[x] # 0
    <3>1. status[x] # "none"
      BY <1>0, <2>1 DEF Unborn
    <3>2. url[x] \in Qkdl /\ url'[x] = url[x] /\ lock[url[x]] = x
      BY <1>0, <1>1, <2>1, <3>1, StatusStep DEF TypeOK, HeldAt
    <3>3. ~InitFails(x)
      BY <1>1, <2>1 DEF InitFails, CalmAt, NotYetFiled
    <3>4. ASSUME NEW t \in Stop, t[1] = x, StopReleases(t)
          PROVE  FALSE
      <4>1. t = <<x, t[2]>> /\ t[2] \in TaskNo /\ stop[t] = "release"
        BY <3>4 DEF StopReleases, Stop, TaskNo
      <4> QED BY <1>1, <2>1, <4>1 DEF TornDown
    <3> QED BY <1>0, <1>1, <3>2, <3>3, <3>4, LockFreedBy
  <2>2. CASE table[x] = 0 /\ table'[x] # 0
    <3>1. PICK o \in Net : o[1] = x /\ NetworkUp(o)
      <4>1. ~(Client(x) \/ InitTask(x) \/ InitUnanswered(x) \/ Crash)
        <5>1. ~InitCall(x)
          <6>1. InitCall(x) => table' = table
            BY <1>0, InitCallDoes
          <6> QED BY <2>2, <6>1
        <5> QED BY <2>2, <5>1 DEF Client, Create, Join, Report, Cancel, InitTask, InitReady,
                     InitRefused, InitError, InitWakes, InitFails, InitUnanswered, Crash, qkdl
      <4>2. ASSUME NEW t \in Stop, t[1] = x, StopTask(t) \/ StopUnanswered(t)
            PROVE  FALSE
        BY <1>0, <2>2, <4>2 DEF StopTask, StopCall, StopReleases, StopUnanswered, qkdl, TypeOK
      <4>3. ~Same(x) /\ ~Woken(x)
        BY <2>2 DEF Same, Woken, Rest
      <4>4. ASSUME NEW o \in Net, NetworkDown(o) \/ NetworkStartFails(o)
            PROVE  FALSE
        BY <2>2, <4>4 DEF NetworkDown, NetworkStartFails
      <4> QED BY <1>0, <4>1, <4>2, <4>3, <4>4, FrameStep DEF OwnStep, Executor
    <3>2. o = <<x, o[2]>> /\ o[2] \in Try /\ net[o] = "starting" /\ UNCHANGED <<lock, url>>
      BY <3>1, NetIs DEF NetworkUp, Comes, kme
    <3>3. initPc[x] = "await"
      BY <1>1, <3>2 DEF CalmAt, Starting, TornDown
    <3>4. status[x] = "initializing"
      BY <1>1, <3>3 DEF CalmAt, UnderWay
    <3> QED BY <1>0, <1>1, <3>2, <3>4 DEF LockHeldUntilOver, Held
  <2> QED BY <2>1, <2>2
<1>4. reply'[x] # "busy"
  <2>0. reply \in [Session -> {"none", "ready", "busy", "cooling", "error"}] /\ reply[x] # "busy"
    BY <1>0, <1>1 DEF TypeOK, HeldAt
  <2>1. ASSUME InitCall(x)
        PROVE  reply'[x] # "busy"
    <3>1. lock[url[x]] = x
      <4>1. initPc[x] = "send"
        BY <2>1 DEF InitCall
      <4>2. status[x] = "initializing"
        BY <1>1, <4>1 DEF CalmAt, UnderWay
      <4> QED BY <1>0, <1>1, <4>2 DEF LockHeldUntilOver, Held
    <3>2. ~\E y \in Session : y # x /\ url[y] = url[x] /\ table[y] # 0
      BY <1>1, <3>1 DEF HeldAt
    <3>3. \/ reply' = reply
          \/ \E r \in {"cooling", "ready"} : reply' = [reply EXCEPT ![x] = r]
      BY <1>0, <2>1, <3>2, InitCallDoes
    <3> QED BY <2>0, <3>3
  <2>2. CASE Client(x) \/ Crash
    BY <2>0, <2>2 DEF Client, Create, Join, Report, Cancel, Crash, task
  <2>3. CASE \/ InitReady(x) \/ InitRefused(x) \/ InitError(x) \/ InitWakes(x) \/ InitFails(x)
             \/ InitUnanswered(x)
    BY <2>0, <2>3 DEF InitReady, InitRefused, InitError, InitWakes, InitFails, InitUnanswered
  <2>4. ASSUME NEW t \in Stop, StopTask(t) \/ StopUnanswered(t)
        PROVE  reply'[x] # "busy"
    BY <2>0, <2>4 DEF StopTask, StopCall, StopReleases, StopUnanswered, task
  <2>5. ASSUME NEW o \in Net, Executor(o) \/ NetworkStartFails(o)
        PROVE  reply'[x] # "busy"
    BY <2>0, <2>5 DEF Executor, NetworkUp, NetworkDown, NetworkStartFails, AnswerTry
  <2>6. CASE Same(x) \/ Woken(x)
    BY <2>0, <2>6 DEF Same, Woken, Rest
  <2> QED BY <1>0, <2>1, <2>2, <2>3, <2>4, <2>5, <2>6, FrameStep DEF OwnStep, InitTask
<1> QED BY <1>3, <1>4 DEF HeldAt

-----------------------------------------------------------------------------
(* The theorems *)

IsolationInv == PoolInv /\ CalmInv /\ SteadyInv /\ SingleInv /\ HeldInv

LEMMA IsolationInit == Init => IsolationInv
<1> SUFFICES ASSUME Init
             PROVE  IsolationInv
  OBVIOUS
<1>1. PoolInv
  BY PoolInvInit
<1>2. ASSUME NEW x \in Session
      PROVE  CalmAt(x) /\ TornDown(x) /\ LockedAt(x) /\ HeldAt(x)
  <2>1. /\ status[x] = "none" /\ initPc[x] = "none" /\ reply[x] = "none" /\ table[x] = 0
        /\ x \notin joined /\ x \notin opened /\ reports[x] = 0
        /\ \A k \in Try : net[<<x, k>>] = "none" /\ waiter[<<x, k>>] = 0
        /\ \A n \in TaskNo : stop[<<x, n>>] = "none"
    BY DEF Init, Net, Stop, TaskNo
  <2>2. CalmAt(x)
    BY <2>1 DEF CalmAt, UnderWay, Starting, OneNet, UpIsFiled, NotYetFiled, Reported, Awaited, Live
  <2> QED BY <2>1, <2>2 DEF TornDown, LockedAt, TearsDown, HeldAt
<1>3. OneSessionPerLink
  BY DEF Init, OneSessionPerLink, LiveNets, Live
<1> QED BY <1>1, <1>2, <1>3 DEF IsolationInv, CalmInv, SteadyInv, SingleInv, HeldInv

LEMMA IsolationStep == IsolationInv /\ [Next]_vars => IsolationInv'
<1> SUFFICES ASSUME IsolationInv, [Next]_vars
             PROVE  IsolationInv'
  OBVIOUS
<1>1. PoolInv'
  BY PoolInvStep DEF IsolationInv
<1>2. CalmInv'
  BY <1>1, CalmInvStep DEF IsolationInv
<1>3. SteadyInv'
  BY <1>1, SteadyInvStep DEF IsolationInv
<1>4. SingleInv'
  BY <1>1, <1>2, SingleInvStep DEF IsolationInv
<1>5. HeldInv'
  BY <1>1, HeldInvStep DEF IsolationInv
<1> QED BY <1>1, <1>2, <1>3, <1>4, <1>5 DEF IsolationInv

LEMMA IsolationHolds == Spec => []IsolationInv
BY IsolationInit, IsolationStep, PTL DEF Spec

(* "Each QKDL instance in the pool holds at most one session at a time"    *)
(* (session_store.py), through crashes of the KME, lost requests and       *)
(* failed starts, while no call or lock runs out of time, no session is    *)
(* cancelled and no outcome is reported twice.                             *)
THEOREM OneSessionHolds == Spec => []AtMostOneSession
<1>1. IsolationInv => AtMostOneSession
  BY DEF IsolationInv, SingleInv, Single, Calm, AtMostOneSession, Unspent
<1> QED BY <1>1, IsolationHolds, PTL

(* The holder of a lock is not refused by its link, as long as the KME     *)
(* stays up, its calls are answered and sessions are left to end.          *)
THEOREM HolderServed == Spec => []HolderNeverRefused
<1>1. IsolationInv => HolderNeverRefused
  BY DEF IsolationInv, HeldInv, Held, Steady, Calm, HeldAt, HolderNeverRefused, Unspent, FaultKinds
<1> QED BY <1>1, IsolationHolds, PTL

(* A network of a session that is over has its teardown on its way.        *)
THEOREM NoNetworkLeft == Spec => []NoOrphanNetwork
<1>1. IsolationInv => NoOrphanNetwork
  <2> SUFFICES ASSUME IsolationInv, Unspent({"crash", "timeout", "lost"}), NoCancels,
                      NEW o \in Net, Live(o), status[o[1]] = "over"
               PROVE  \E t \in Stop : t[1] = o[1] /\ stop[t] \in {"due", "await"}
    BY DEF NoOrphanNetwork
  <2> DEFINE x == o[1]
  <2>1. /\ o = <<x, o[2]>> /\ x \in Session /\ o[2] \in Try /\ o[2] # 0
        /\ \A n \in TaskNo : <<x, n>> \in Stop /\ <<x, n>>[1] = x
    BY NetIs DEF Try, Stop, TaskNo
  <2>2. CalmAt(x) /\ TornDown(x) /\ LocalType(x)
    BY <2>1, Local DEF IsolationInv, PoolInv, CalmInv, SteadyInv, Calm, Steady, Unspent
  <2>3. net[o] # "starting"
    BY <2>1, <2>2 DEF CalmAt, Starting, UnderWay, TornDown
  <2>4. CASE net[o] = "up"
    <3>1. table[x] # 0
      BY <2>1, <2>2, <2>4 DEF CalmAt, UpIsFiled
    <3>2. 1 \in TaskNo /\ stop[<<x, 1>>] # "none"
      BY <2>1, <2>2 DEF CalmAt, Reported
    <3>3. stop[<<x, 1>>] = "due"
      BY <2>2, <3>1, <3>2 DEF TornDown, LocalType
    <3> QED BY <2>1, <3>2, <3>3
  <2>5. CASE net[o] = "stopping"
    <3>1. waiter[o] \in TaskNo /\ stop[<<x, waiter[o]>>] = "await"
      BY <2>1, <2>2, <2>5 DEF TornDown, CalmAt, Awaited
    <3> QED BY <2>1, <3>1
  <2> QED BY <2>3, <2>4, <2>5 DEF Live
<1> QED BY <1>1, IsolationHolds, PTL
=============================================================================
