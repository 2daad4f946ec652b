--------------------------- MODULE ExpertClusterProofs ---------------------------
(***************************************************************************)
(* The scheduler and the workers of the repository implement the open      *)
(* scheduler, for any number of experts, workers, sockets, instances and   *)
(* faults: what ExpertSchedulerProofs shows of the open scheduler holds in *)
(* the cluster.  Then the invariants of the cluster, each under the        *)
(* premises without which it fails.                                        *)
(***************************************************************************)
EXTENDS ExpertCluster, SequenceLemmas, TLAPS

P == INSTANCE ExpertLinkProofs

\* What is under way from the workers, and how often their instances are to be stopped.
Msgs == S!UpMsgs \cup {W!CloseMsg}
InstType == [phase : {"free", "starting", "up", "closing"}, by : {"none", "job", "restart"},
             stops : Nat, restarts : Nat]

WorkerInv ==
    /\ opened \in [Workers -> Nat]
    /\ up \in [Workers -> [Sockets -> Seq(Msgs)]]
    /\ inst \in [Workers -> [Experts -> [Instances -> InstType]]]

ClusterInv == P!LinkInv /\ WorkerInv

-----------------------------------------------------------------------------
(* P and S name the same scheduler.                                         *)

\* A step of the scheduler is a step of the scheduler of the proofs: the definitions agree.
LEMMA SameActions ==
    /\ \A e \in Experts, row \in Edits : S!Edit(e, row) => P!Edit(e, row)
    /\ \A w \in Workers, s \in Sockets \cup {0} : S!Listen(w, s) => P!Listen(w, s)
    /\ \A w \in Workers : S!Deliver(w) => P!Deliver(w)
    /\ \A e \in Experts : S!ProcessExpert(e) => P!ProcessExpert(e)
    /\ \A w \in Workers, s \in Sockets, m \in S!UpMsgs : S!Receive(w, s, m) => P!Receive(w, s, m)
    /\ \A w \in Workers, s \in Sockets : S!SocketClosed(w, s) => P!SocketClosed(w, s)
    /\ S!TimerStep => P!TimerStep
    /\ S!LoopStep => P!LoopStep
    /\ S!Reboot => P!Reboot
<1> USE DEF S!Sockets, P!Sockets, S!netVars, P!netVars, S!timerVars, P!timerVars,
           S!tableVars, P!tableVars, S!Untracked, P!Untracked, S!Queued, P!Queued,
           S!NoConn, P!NoConn, S!Fresh, P!Fresh, S!Connected, P!Connected, S!Idle, P!Idle,
           S!Loop, P!Loop, S!IdleLoop, P!IdleLoop, S!JobMsg, P!JobMsg,
           S!RestartMsg, P!RestartMsg, S!StopMsg, P!StopMsg, S!NoJobMsg, P!NoJobMsg,
           S!NeedJobMsg, P!NeedJobMsg, S!UpMsgs, P!UpMsgs, S!Send, P!Send,
           S!SendIf, P!SendIf, S!ArmStartTimer, P!ArmStartTimer, S!Waiting, P!Waiting,
           S!AssignLoop, P!AssignLoop, S!QueueExpert, P!QueueExpert, S!Matches, P!Matches,
           S!CanAssign, P!CanAssign, S!FirstMatch, P!FirstMatch, S!Dequeued, P!Dequeued,
           S!RemoveAt, P!RemoveAt, S!GiveJob, P!GiveJob, S!MissJob, P!MissJob,
           S!Missing, P!Missing, S!Conn, P!Conn, S!ClearReconn, P!ClearReconn,
           S!Refused, P!Refused, S!Adopted, P!Adopted, S!QueueWithout, P!QueueWithout,
           S!RemoveFirst, P!RemoveFirst, S!WithActive, P!WithActive, S!MayStop, P!MayStop,
           S!ToRequeue, P!ToRequeue, S!StaleArmed, P!StaleArmed, S!Enabled, P!Enabled,
           S!BootStates, P!BootStates, S!SetToSeqs, P!SetToSeqs,
           S!SelectInSeq, P!SelectInSeq, S!Min, P!Min, S!Cardinality, P!Cardinality,
           S!Front, P!Front
<1>1. ASSUME NEW e, NEW row, S!Edit(e, row) PROVE P!Edit(e, row)
  BY <1>1 DEF S!Edit, P!Edit
<1>2. ASSUME NEW w, NEW s, S!Listen(w, s) PROVE P!Listen(w, s)
  BY <1>2 DEF S!Listen, P!Listen
<1>3. ASSUME NEW w, S!Deliver(w) PROVE P!Deliver(w)
  BY <1>3 DEF S!Deliver, P!Deliver
<1>4. ASSUME NEW e, S!ProcessExpert(e) PROVE P!ProcessExpert(e)
  BY <1>4 DEF S!ProcessExpert, P!ProcessExpert, S!StopDisabled, P!StopDisabled,
           S!QueueEnabled, P!QueueEnabled, S!RestartUpdated, P!RestartUpdated,
           S!AlreadyQueued, P!AlreadyQueued
<1>5. ASSUME NEW w, NEW s, NEW m, S!Receive(w, s, m) PROVE P!Receive(w, s, m)
  BY <1>5 DEF S!Receive, P!Receive, S!ReceiveExperts, P!ReceiveExperts,
           S!ReceiveNeedJob, P!ReceiveNeedJob, S!ReceiveStarted, P!ReceiveStarted,
           S!ReceiveStopped, P!ReceiveStopped
<1>6. ASSUME NEW w, NEW s, S!SocketClosed(w, s) PROVE P!SocketClosed(w, s)
  BY <1>6 DEF S!SocketClosed, P!SocketClosed
<1>7. ASSUME NEW e, S!StartTimeout(e) PROVE P!StartTimeout(e)
  BY <1>7 DEF S!StartTimeout, P!StartTimeout
<1>8. ASSUME NEW w, S!ReconnTimeout(w) PROVE P!ReconnTimeout(w)
  BY <1>8 DEF S!ReconnTimeout, P!ReconnTimeout
<1>9. ASSUME NEW w, S!JobTimeout(w) PROVE P!JobTimeout(w)
  BY <1>9 DEF S!JobTimeout, P!JobTimeout
<1>10. ASSUME NEW w, S!StaleJobTimeout(w) PROVE P!StaleJobTimeout(w)
  BY <1>10 DEF S!StaleJobTimeout, P!StaleJobTimeout
<1>11. ASSUME NEW w, S!AssignNext(w) PROVE P!AssignNext(w)
  BY <1>11 DEF S!AssignNext, P!AssignNext
<1>12. ASSUME NEW e, S!ReportedNext(e) PROVE P!ReportedNext(e)
  BY <1>12 DEF S!ReportedNext, P!ReportedNext
<1>13. ASSUME S!ReportDone PROVE P!ReportDone
  BY <1>13 DEF S!ReportDone, P!ReportDone
<1>14. ASSUME NEW e, S!RequeueNext(e) PROVE P!RequeueNext(e)
  BY <1>14 DEF S!RequeueNext, P!RequeueNext
<1>15. ASSUME S!Reboot PROVE P!Reboot
  BY <1>15 DEF S!Reboot, P!Reboot
<1> QED
  BY <1>1, <1>2, <1>3, <1>4, <1>5, <1>6, <1>7, <1>8, <1>9, <1>10, <1>11, <1>12, <1>13, <1>14, <1>15
  DEF S!TimerStep, P!TimerStep, S!LoopStep, P!LoopStep

\* What the scheduler assumes of its constants is known of those of the cluster.
LEMMA SameAssumption == P!SchedulerAssumption
BY ClusterAssumption DEF S!SchedulerAssumption, P!SchedulerAssumption, S!Rows, P!Rows,
       S!IsFiniteSet, P!IsFiniteSet

\* The scheduler of the proofs reads the messages of the same workers on the same sockets.
LEMMA SameRanges ==
    /\ S!Sockets = Sockets /\ P!Sockets = Sockets
    /\ S!UpMsgs = P!UpMsgs
BY DEF S!Sockets, P!Sockets, Sockets, S!UpMsgs, P!UpMsgs, S!NeedJobMsg, P!NeedJobMsg

\* Every step agrees, too.
LEMMA SameSteps == S!Next => P!Next
BY SameActions, SameRanges DEF S!Next, P!Next

\* The initial states agree, too.
LEMMA SameInit == S!Init => P!Init
BY DEF S!Init, P!Init, S!BootStates, P!BootStates, S!Enabled, P!Enabled, S!Queued, P!Queued,
       S!Untracked, P!Untracked, S!SetToSeqs, P!SetToSeqs, S!Cardinality, P!Cardinality,
       S!NoConn, P!NoConn, S!IdleLoop, P!IdleLoop, S!Loop, P!Loop

\* The step that keeps the invariant of the open scheduler.
LEMMA SchedulerKeeps ==
    ASSUME P!LinkInv, [S!Next]_S!vars
    PROVE  P!LinkInv'
<1>1. P!SchedulerAssumption
  BY SameAssumption
<1>2. [P!Next]_P!vars
  BY SameSteps DEF S!vars, P!vars
<1> QED  BY <1>1, <1>2, P!LinkStep

-----------------------------------------------------------------------------
(* Initially.                                                               *)

\* A cluster in which nothing has started yet is an open scheduler that has just booted.
LEMMA InitMaps == Init => S!Init /\ ClusterInv
<1> SUFFICES ASSUME Init PROVE S!Init /\ ClusterInv
  OBVIOUS
<1>1. P!SchedulerAssumption
  BY SameAssumption
<1>2. P!LinkInv
  BY <1>1, SameInit, P!LinkInit DEF Init
<1>3. WorkerInv
  <2>1. <<>> \in Seq(Msgs)
    BY EmptySeq
  <2> QED  BY <2>1 DEF Init, W!Init, WorkerInv, InstType, W!Free, Instances, Sockets
<1> QED  BY <1>2, <1>3 DEF Init, ClusterInv

-----------------------------------------------------------------------------
(* The scheduler's side.                                                    *)

\* A message or a close that the scheduler takes is one the open scheduler allows for.
LEMMA TakeUpMaps ==
    ASSUME ClusterInv, NEW w \in Workers, NEW s \in Sockets, TakeUp(w, s)
    PROVE  S!Next /\ WorkerInv'
<1>1. up[w][s] \in Seq(Msgs) /\ up[w][s] # <<>>
  BY DEF TakeUp, ClusterInv, WorkerInv
<1>2. Head(up[w][s]) \in Msgs /\ Tail(up[w][s]) \in Seq(Msgs)
  BY <1>1
<1>3. S!Next
  BY <1>2 DEF TakeUp, S!Next, Msgs, W!CloseMsg, Sockets, S!Sockets
<1>4. WorkerInv'
  BY <1>2 DEF TakeUp, ClusterInv, WorkerInv, workerVars
<1> QED  BY <1>3, <1>4

\* The scheduler's timers and its monitor.
LEMMA SchedulerMaps ==
    ASSUME ClusterInv, SchedulerStep \/ Reboot
    PROVE  S!Next /\ WorkerInv'
<1>1. CASE SchedulerStep
  <2>1. S!Next
    BY <1>1 DEF SchedulerStep, Local, StartTimeout, ReconnTimeout, S!Next, S!TimerStep
  <2> QED  BY <1>1, <2>1 DEF SchedulerStep, Local, ClusterInv, WorkerInv, workerVars
<1>2. CASE Reboot
  <2>1. <<>> \in Seq(Msgs)
    BY EmptySeq
  <2> QED  BY <1>2, <2>1 DEF Reboot, S!Next, ClusterInv, WorkerInv, workerVars
<1> QED  BY <1>1, <1>2

-----------------------------------------------------------------------------
(* The workers' side.                                                       *)

\* What a worker says keeps the shape of what is under way.
LEMMA ReplyType ==
    ASSUME ClusterInv, NEW w \in Workers, NEW ms \in Seq(Msgs), W!Reply(w, ms)
    PROVE  up' \in [Workers -> [Sockets -> Seq(Msgs)]]
<1>1. up \in [Workers -> [Sockets -> Seq(Msgs)]]
  BY DEF ClusterInv, WorkerInv
<1>2. \A s \in Sockets : up[w][s] \o ms \in Seq(Msgs)
  BY <1>1, ConcatProperties
<1> QED  BY <1>1, <1>2 DEF W!Reply

\* The messages of a worker.
LEMMA MessageType ==
    ASSUME NEW e \in Experts
    PROVE  /\ <<[type |-> "started", expert |-> e]>> \in Seq(Msgs)
           /\ <<[type |-> "need_job"]>> \in Seq(Msgs)
           /\ <<[type |-> "started", expert |-> e], [type |-> "need_job"]>> \in Seq(Msgs)
           /\ \A n \in Nat : [k \in 1..n |-> [type |-> "stopped", expert |-> e]] \in Seq(Msgs)
<1>1. /\ [type |-> "started", expert |-> e] \in Msgs
      /\ [type |-> "stopped", expert |-> e] \in Msgs
      /\ [type |-> "need_job"] \in Msgs
  BY DEF Msgs, S!UpMsgs, S!NeedJobMsg
<1> QED  BY <1>1

\* An instance that changes keeps the shape of the instances.
LEMMA InstanceType ==
    ASSUME ClusterInv, NEW w \in Workers, NEW e, NEW i, NEW r,
           e \in Experts /\ i \in Instances => r \in InstType
    PROVE  [inst EXCEPT ![w][e][i] = r] \in [Workers -> [Experts -> [Instances -> InstType]]]
<1>0. inst \in [Workers -> [Experts -> [Instances -> InstType]]]
  BY DEF ClusterInv, WorkerInv
<1>1. CASE e \in Experts /\ i \in Instances
  BY <1>0, <1>1
<1>2. CASE e \in Experts /\ i \notin Instances
  <2> DEFINE g == inst[w][e]
  <2>0. g \in [Instances -> InstType]
    BY <1>0, <1>2
  <2>1. [g EXCEPT ![i] = r] = g
    <3> HIDE DEF g
    <3> QED  BY <1>2, <2>0
  <2>2. [inst EXCEPT ![w][e][i] = r] = [inst EXCEPT ![w] = [inst[w] EXCEPT ![e] = g]]
    BY <2>1
  <2> QED  BY <1>0, <2>0, <2>2
<1>3. CASE e \notin Experts
  BY <1>0, <1>3
<1> QED  BY <1>1, <1>2, <1>3

\* A worker that handles a message takes it from its socket.
LEMMA HandleMaps ==
    ASSUME ClusterInv, NEW w \in Workers, Remote(W!Handle(w))
    PROVE  S!Deliver(w) /\ WorkerInv'
<1>1. /\ down[w] # <<>> /\ down' = [down EXCEPT ![w] = Tail(@)]
      /\ UNCHANGED <<opened, live>> /\ W!Next1(w).type \in {"job", "no_job", "stop", "restart"}
  BY DEF Remote, W!Handle, W!OnJob, W!OnNoJob, W!OnStop, W!OnRestart, W!Took, W!Rest
<1>2. S!Deliver(w)
  BY <1>1 DEF Remote, S!Deliver, schedVars, S!tableVars, S!timerVars
<1>3. W!Next1(w) \in P!DownMsgs
  <2>1. down[w] \in Seq(P!DownMsgs)
    BY DEF ClusterInv, P!LinkInv, P!TypeInv, P!TypeOK
  <2> QED  BY <1>1, <2>1 DEF W!Next1
<1>4. W!Next1(w).type = "job" => W!Next1(w).expert \in Experts
  BY <1>3 DEF P!DownMsgs, P!NoJobMsg
<1>5. up' \in [Workers -> [Sockets -> Seq(Msgs)]]
  <2>1. CASE UNCHANGED up
    BY <2>1 DEF ClusterInv, WorkerInv
  <2>2. CASE W!OnJob(w)
    BY <1>4, <2>1, <2>2, MessageType, ReplyType DEF W!OnJob, W!Took
  <2> QED  BY <2>1, <2>2 DEF Remote, W!Handle, W!OnNoJob, W!OnStop, W!OnRestart
<1>6. inst' \in [Workers -> [Experts -> [Instances -> InstType]]]
  <2> DEFINE e == W!Next1(w).expert
  <2>1. \/ UNCHANGED inst
        \/ \E i, h : inst' = [inst EXCEPT ![w][e][i] = W!StartingBy(h)] /\ h \in {"job", "restart"}
        \/ \E f \in {"stops", "restarts"} : W!Close(w, e, f)
    BY DEF Remote, W!Handle, W!OnJob, W!OnNoJob, W!OnStop, W!OnRestart, W!Begin
  <2>2. \A h \in {"job", "restart"} : W!StartingBy(h) \in InstType
    BY DEF W!StartingBy, W!Free, InstType
  <2>3. ASSUME NEW r \in InstType, NEW f \in {"stops", "restarts"}
        PROVE  [r EXCEPT !.phase = "closing", ![f] = r[f] + 1] \in InstType
    <3>1. CASE f = "stops"
      <4>1. \A n \in Nat : [r EXCEPT !.phase = "closing", !.stops = n] \in InstType
        BY DEF InstType
      <4>2. r.stops + 1 \in Nat
        BY DEF InstType
      <4> QED  BY <3>1, <4>1, <4>2, Zenon
    <3>2. CASE f = "restarts"
      <4>1. \A n \in Nat : [r EXCEPT !.phase = "closing", !.restarts = n] \in InstType
        BY DEF InstType
      <4>2. r.restarts + 1 \in Nat
        BY DEF InstType
      <4> QED  BY <3>2, <4>1, <4>2, Zenon
    <3> QED  BY <3>1, <3>2
  <2>4. UNCHANGED inst => inst' \in [Workers -> [Experts -> [Instances -> InstType]]]
    BY DEF ClusterInv, WorkerInv
  <2> HIDE DEF e
  <2>5. ASSUME NEW f \in {"stops", "restarts"}, W!Close(w, e, f)
        PROVE  inst' \in [Workers -> [Experts -> [Instances -> InstType]]]
    <3> DEFINE i == entry[w][e]
               me == inst[w][e][i]
    <3>1. inst' = [inst EXCEPT ![w][e][i] = [me EXCEPT !.phase = "closing", ![f] = me[f] + 1]]
      BY <2>5 DEF W!Close
    <3>2. e \in Experts /\ i \in Instances => me \in InstType
      BY DEF ClusterInv, WorkerInv
    <3> HIDE DEF me, i
    <3> QED  BY <2>3, <3>1, <3>2, InstanceType
  <2>6. ASSUME NEW i, NEW h \in {"job", "restart"}, inst' = [inst EXCEPT ![w][e][i] = W!StartingBy(h)]
        PROVE  inst' \in [Workers -> [Experts -> [Instances -> InstType]]]
    BY <2>2, <2>6, InstanceType
  <2> QED  BY <2>1, <2>4, <2>5, <2>6
<1> QED  BY <1>1, <1>2, <1>5, <1>6 DEF ClusterInv, WorkerInv

\* The continuations of a worker's handlers do not touch the scheduler.
LEMMA ContinueMaps ==
    ASSUME ClusterInv, NEW w \in Workers, Remote(W!Continue(w))
    PROVE  UNCHANGED S!vars /\ WorkerInv'
<1>1. UNCHANGED S!vars /\ UNCHANGED opened
  BY DEF Remote, W!Continue, W!StartDone, W!StartFails, W!Disposed, W!Ask, S!vars, schedVars
<1>2. ASSUME NEW e \in Experts, NEW i \in Instances, W!StartDone(w, e, i) \/ W!StartFails(w, e, i)
      PROVE  WorkerInv'
  <2>1. up' \in [Workers -> [Sockets -> Seq(Msgs)]]
    BY <1>2, MessageType, ReplyType DEF W!StartDone, W!StartFails, ClusterInv, WorkerInv
  <2>2. W!Free \in InstType /\ [W!Free EXCEPT !.phase = "up"] \in InstType
    BY DEF W!Free, InstType
  <2>3. inst' \in [Workers -> [Experts -> [Instances -> InstType]]]
    <3>1. PICK r \in InstType : inst' = [inst EXCEPT ![w][e][i] = r]
      BY <1>2, <2>2 DEF W!StartDone, W!StartFails
    <3> QED  BY <3>1, InstanceType
  <2> QED  BY <1>1, <2>1, <2>3 DEF ClusterInv, WorkerInv
<1>3. ASSUME NEW e \in Experts, NEW i \in Instances, W!Disposed(w, e, i)
      PROVE  WorkerInv'
  <2>1. inst[w][e][i].stops \in Nat
    BY DEF ClusterInv, WorkerInv, InstType
  <2>2. up' \in [Workers -> [Sockets -> Seq(Msgs)]]
    BY <1>3, <2>1, MessageType, ReplyType DEF W!Disposed
  <2>3. W!Free \in InstType /\ W!StartingBy("restart") \in InstType
    BY DEF W!StartingBy, W!Free, InstType
  <2>4. PICK R : inst' = [inst EXCEPT ![w][e] = [j \in Instances |->
                        IF j \in R THEN W!StartingBy("restart")
                        ELSE IF j = i THEN W!Free ELSE @[j]]]
    BY <1>3 DEF W!Disposed, Instances
  <2>5. inst' \in [Workers -> [Experts -> [Instances -> InstType]]]
    BY <2>3, <2>4 DEF ClusterInv, WorkerInv
  <2> QED  BY <1>1, <2>2, <2>5 DEF ClusterInv, WorkerInv
<1>4. ASSUME W!Ask(w)
      PROVE  WorkerInv'
  <2>1. <<[type |-> "need_job"]>> \in Seq(Msgs)
    BY DEF Msgs, S!UpMsgs, S!NeedJobMsg
  <2>2. up' \in [Workers -> [Sockets -> Seq(Msgs)]]
    BY <1>4, <2>1, ReplyType DEF W!Ask
  <2> QED  BY <1>1, <1>4, <2>2 DEF W!Ask, ClusterInv, WorkerInv
<1> QED  BY <1>1, <1>2, <1>3, <1>4 DEF Remote, W!Continue, Instances

\* A socket that breaks leaves the worker listening on none; what was under way is cut.
LEMMA BrokenMaps ==
    ASSUME ClusterInv, NEW w \in Workers, S!Idle, W!Broken(w), UNCHANGED schedVars
    PROVE  S!Listen(w, 0) /\ up' \in [Workers -> [Sockets -> Seq(Msgs)]]
<1>1. S!Listen(w, 0)
  BY DEF W!Broken, S!Listen, schedVars, S!tableVars, S!timerVars
<1>2. up \in [Workers -> [Sockets -> Seq(Msgs)]]
  BY DEF ClusterInv, WorkerInv
<1>3. PICK n \in 0..Len(up[w][live[w]]) :
        up' = [up EXCEPT ![w][live[w]] = Append(SubSeq(@, 1, n), W!CloseMsg)]
  BY DEF W!Broken
<1>4. \A s \in Sockets : s = live[w] => Append(SubSeq(up[w][s], 1, n), W!CloseMsg) \in Seq(Msgs)
  <2>1. W!CloseMsg \in Msgs
    BY DEF Msgs
  <2> QED  BY <1>2, <1>3, <2>1
<1> QED  BY <1>1, <1>2, <1>3, <1>4

\* A worker opens a socket where it has none: nothing is under way to it then.
LEMMA LinkMaps ==
    ASSUME ClusterInv, NEW w \in Workers, Remote(W!Link(w) \/ W!Crash(w))
    PROVE  [S!Next]_S!vars /\ WorkerInv'
<1>1. CASE W!Open(w)
  <2>1. opened[w] + 1 \in S!Sockets
    <3>1. opened[w] \in Nat /\ opened[w] < MaxConn /\ MaxConn \in Nat
      BY <1>1, ClusterAssumption DEF W!Open, ClusterInv, WorkerInv, S!SchedulerAssumption
    <3> QED  BY <3>1 DEF S!Sockets
  <2>2. down = [down EXCEPT ![w] = <<>>]
    BY <1>1 DEF W!Open, ClusterInv, P!LinkInv, P!NothingOnNoSocket, P!TypeInv, P!TypeOK
  <2>3. S!Listen(w, opened[w] + 1)
    BY <1>1, <2>2 DEF Remote, W!Open, S!Listen, schedVars, S!tableVars, S!timerVars
  <2>4. <<[type |-> "experts", experts |-> W!Running(w)], [type |-> "need_job"]>> \in Seq(Msgs)
    <3>1. W!Running(w) \in SUBSET Experts
      BY DEF W!Running
    <3>2. /\ [type |-> "experts", experts |-> W!Running(w)] \in Msgs
          /\ [type |-> "need_job"] \in Msgs
      BY <3>1 DEF Msgs, S!UpMsgs, S!NeedJobMsg
    <3> QED  BY <3>2
  <2>5. up' \in [Workers -> [Sockets -> Seq(Msgs)]]
    <3> DEFINE ms == <<[type |-> "experts", experts |-> W!Running(w)], [type |-> "need_job"]>>
    <3>1. up' = [up EXCEPT ![w][opened[w] + 1] = ms]
      BY <1>1 DEF W!Open
    <3> HIDE DEF ms
    <3> QED  BY <2>4, <3>1 DEF ClusterInv, WorkerInv, ms
  <2>6. WorkerInv'
    BY <1>1, <2>5 DEF W!Open, ClusterInv, WorkerInv
  <2> QED  BY <2>1, <2>3, <2>6 DEF S!Next
<1>2. CASE W!Break(w)
  <2>1. S!Listen(w, 0) /\ up' \in [Workers -> [Sockets -> Seq(Msgs)]]
    BY <1>2, BrokenMaps DEF Remote, W!Break
  <2> QED  BY <1>2, <2>1 DEF W!Break, ClusterInv, WorkerInv, S!Next
<1>3. CASE W!Crash(w)
  <2>1. W!Free \in InstType
    BY DEF W!Free, InstType
  <2>2. inst' \in [Workers -> [Experts -> [Instances -> InstType]]] /\ UNCHANGED opened
    BY <1>3, <2>1 DEF W!Crash, ClusterInv, WorkerInv, Instances
  <2>3. CASE live[w] = 0
    BY <1>3, <2>2, <2>3 DEF Remote, W!Crash, ClusterInv, WorkerInv, schedVars, S!vars
  <2>4. CASE live[w] # 0
    <3>1. S!Listen(w, 0) /\ up' \in [Workers -> [Sockets -> Seq(Msgs)]]
      BY <1>3, <2>4, BrokenMaps DEF Remote, W!Crash
    <3> QED  BY <2>2, <3>1 DEF ClusterInv, WorkerInv, S!Next
  <2> QED  BY <2>3, <2>4
<1> QED  BY <1>1, <1>2, <1>3 DEF Remote, W!Link

-----------------------------------------------------------------------------
(* The refinement.                                                          *)

\* Every step of the cluster is a step of the open scheduler, or none of it.
LEMMA StepMaps ==
    ASSUME ClusterInv, [Next]_vars
    PROVE  [S!Next]_S!vars /\ ClusterInv'
<1>1. [S!Next]_S!vars /\ WorkerInv'
  <2>1. CASE UNCHANGED vars
    BY <2>1 DEF vars, schedVars, workerVars, S!vars, ClusterInv, WorkerInv
  <2>2. ASSUME NEW w \in Workers, Remote(W!WorkerStep(w)) \/ Remote(W!Crash(w))
        PROVE  [S!Next]_S!vars /\ WorkerInv'
    <3>1. CASE Remote(W!Handle(w))
      BY <3>1, HandleMaps DEF S!Next
    <3>2. CASE Remote(W!Continue(w))
      BY <3>2, ContinueMaps
    <3>3. CASE Remote(W!Link(w) \/ W!Crash(w))
      BY <3>3, LinkMaps
    <3> QED  BY <2>2, <3>1, <3>2, <3>3 DEF Remote, W!WorkerStep
  <2>3. CASE \E w \in Workers, s \in Sockets : TakeUp(w, s)
    BY <2>3, TakeUpMaps
  <2>4. CASE SchedulerStep \/ Reboot
    BY <2>4, SchedulerMaps
  <2>5. (\E w \in Workers : Faults < MaxFaults /\ Remote(W!Crash(w)))
           => \E w \in Workers : Remote(W!Crash(w))
    BY DEF Remote
  <2> QED  BY <2>1, <2>2, <2>3, <2>4, <2>5 DEF Next
<1> QED  BY <1>1, SchedulerKeeps DEF ClusterInv

\* The cluster implements the open scheduler: a worker of the repository does nothing the
\* open scheduler does not allow for, and none of its steps touches the scheduler's state.
THEOREM ClusterImplementsScheduler == Spec => ImplementsScheduler
<1>1. Init => S!Init /\ ClusterInv
  BY InitMaps
<1>2. ClusterInv /\ [Next]_vars => [S!Next]_S!vars /\ ClusterInv'
  BY StepMaps
<1> QED  BY <1>1, <1>2, PTL DEF Spec, ImplementsScheduler, S!Spec

-----------------------------------------------------------------------------
(* The workers' state.                                                      *)

\* runningExperts names only instances that run or are being closed, so an instance that
\* is being started is never the one in the map.
EntryRuns ==
    \A w \in Workers, e \in Experts :
        entry[w][e] # 0 => inst[w][e][entry[w][e]].phase \in {"up", "closing"}

RunInv ==
    /\ alive \in [Workers -> BOOLEAN]
    /\ asks \in [Workers -> 0..MaxAsks]
    /\ opened \in [Workers -> 0..MaxConn]
    /\ \A w \in Workers : live[w] \in {0, opened[w]}
    /\ entry \in [Workers -> [Experts -> 0..MaxInst]]
    /\ EntryRuns

\* One instance changes, and the map does not name it afterwards unless it runs.
LEMMA InstanceChanges ==
    ASSUME ClusterInv, RunInv, NEW w \in Workers, NEW e, NEW i, NEW r,
           inst' = [inst EXCEPT ![w][e][i] = r], UNCHANGED entry,
           r.phase \in {"up", "closing"} \/ (e \in Experts => i # entry[w][e])
    PROVE  EntryRuns'
<1>1. inst \in [Workers -> [Experts -> [Instances -> InstType]]]
  BY DEF ClusterInv, WorkerInv
<1>2. \A v \in Workers, f \in Experts, j \in Instances :
        inst'[v][f][j] = IF v = w /\ f = e /\ j = i THEN r ELSE inst[v][f][j]
  BY <1>1
<1>3. \A v \in Workers, f \in Experts : entry[v][f] # 0 => entry[v][f] \in Instances
  BY DEF RunInv, Instances, W!Instances
<1> QED  BY <1>2, <1>3 DEF RunInv, EntryRuns

\* A handler begins instances that are free, and closes the one in the map.
LEMMA HandleRuns ==
    ASSUME ClusterInv, RunInv, NEW w \in Workers, W!Handle(w)
    PROVE  RunInv'
<1> DEFINE e == W!Next1(w).expert
<1>1. UNCHANGED <<alive, opened, live, entry>>
  BY DEF W!Handle, W!OnJob, W!OnNoJob, W!OnStop, W!OnRestart, W!Took
<1>2. asks' \in [Workers -> 0..MaxAsks]
  <2>1. UNCHANGED asks \/ (asks[w] < MaxAsks /\ asks' = [asks EXCEPT ![w] = @ + 1])
    BY DEF W!Handle, W!OnJob, W!OnNoJob, W!OnStop, W!OnRestart, W!AskLater
  <2> QED  BY <2>1, ClusterAssumption DEF RunInv
<1>3. EntryRuns'
  <2>1. \/ UNCHANGED inst
        \/ \E i \in W!FreeOf(w, e) : \E h : inst' = [inst EXCEPT ![w][e][i] = W!StartingBy(h)]
        \/ entry[w][e] # 0 /\ \E f \in {"stops", "restarts"} : W!Close(w, e, f)
    BY DEF W!Handle, W!OnJob, W!OnNoJob, W!OnStop, W!OnRestart, W!Begin
  <2>2. CASE UNCHANGED inst
    BY <1>1, <2>2 DEF RunInv, EntryRuns
  <2> HIDE DEF e
  <2>3. ASSUME NEW i \in W!FreeOf(w, e), NEW h,
               inst' = [inst EXCEPT ![w][e][i] = W!StartingBy(h)]
        PROVE  EntryRuns'
    <3>1. inst[w][e][i].phase = "free" /\ i # 0
      BY DEF W!FreeOf, W!Free, W!Instances
    <3>2. e \in Experts => i # entry[w][e]
      BY <3>1 DEF RunInv, EntryRuns
    <3> QED  BY <1>1, <2>3, <3>2, InstanceChanges
  <2>4. ASSUME NEW f \in {"stops", "restarts"}, W!Close(w, e, f)
        PROVE  EntryRuns'
    <3> DEFINE me == inst[w][e][entry[w][e]]
               r == [me EXCEPT !.phase = "closing", ![f] = me[f] + 1]
    <3>1. inst' = [inst EXCEPT ![w][e][entry[w][e]] = r]
      BY <2>4 DEF W!Close
    <3>2. CASE e \in Experts /\ entry[w][e] \in Instances
      <4>1. me \in InstType
        BY <3>2 DEF ClusterInv, WorkerInv
      <4>2. r.phase = "closing"
        <5> HIDE DEF me
        <5> QED  BY <4>1 DEF InstType
      <4> HIDE DEF r
      <4> QED  BY <1>1, <3>1, <4>2, InstanceChanges
    <3>3. CASE ~(e \in Experts /\ entry[w][e] \in Instances)
      <4> HIDE DEF r
      <4>1. inst \in [Workers -> [Experts -> [Instances -> InstType]]]
        BY DEF ClusterInv, WorkerInv
      <4>2. \A v \in Workers, g \in Experts, j \in Instances : inst'[v][g][j] = inst[v][g][j]
        BY <3>1, <3>3, <4>1
      <4>3. \A v \in Workers, g \in Experts : entry[v][g] # 0 => entry[v][g] \in Instances
        BY DEF RunInv, Instances, W!Instances
      <4> QED  BY <1>1, <4>2, <4>3 DEF RunInv, EntryRuns
    <3> QED  BY <3>2, <3>3
  <2> QED  BY <2>1, <2>2, <2>3, <2>4
<1> QED  BY <1>1, <1>2, <1>3 DEF RunInv

\* A start that succeeds puts its instance into the map; one that fails, or a disposal, was
\* not in it or takes it out.
LEMMA ContinueRuns ==
    ASSUME ClusterInv, RunInv, NEW w \in Workers, W!Continue(w)
    PROVE  RunInv'
<1>0. inst \in [Workers -> [Experts -> [Instances -> InstType]]]
  BY DEF ClusterInv, WorkerInv
<1>1. UNCHANGED <<alive, opened, live>>
  BY DEF W!Continue, W!StartDone, W!StartFails, W!Disposed, W!Ask
<1>2. ASSUME NEW e \in Experts, NEW i \in W!Instances, W!StartDone(w, e, i)
      PROVE  RunInv'
  <2> DEFINE r == [W!Free EXCEPT !.phase = "up"]
  <2>1. r.phase = "up"
    BY DEF W!Free
  <2>2. inst' = [inst EXCEPT ![w][e][i] = r] /\ entry' = [entry EXCEPT ![w][e] = i]
    BY <1>2 DEF W!StartDone
  <2>3. UNCHANGED asks \/ (asks[w] < MaxAsks /\ asks' = [asks EXCEPT ![w] = @ + 1])
    BY <1>2 DEF W!StartDone
  <2> HIDE DEF r
  <2>4. asks' \in [Workers -> 0..MaxAsks]
    BY <2>3, ClusterAssumption DEF RunInv
  <2>5. i \in 0..MaxInst /\ i \in Instances
    BY ClusterAssumption DEF W!Instances, Instances
  <2>6. entry' \in [Workers -> [Experts -> 0..MaxInst]]
    BY <2>2, <2>5 DEF RunInv
  <2>7. \A v \in Workers, f \in Experts : entry[v][f] # 0 => entry[v][f] \in Instances
    BY DEF RunInv, Instances, W!Instances
  <2>8. \A v \in Workers, f \in Experts, j \in Instances :
          inst'[v][f][j] = IF v = w /\ f = e /\ j = i THEN r ELSE inst[v][f][j]
    BY <1>0, <2>2
  <2>9. \A v \in Workers, f \in Experts :
          entry'[v][f] = IF v = w /\ f = e THEN i ELSE entry[v][f]
    BY <2>2 DEF RunInv
  <2>10. EntryRuns'
    BY SMTT(60), <2>1, <2>5, <2>7, <2>8, <2>9 DEF RunInv, EntryRuns
  <2> QED  BY <1>1, <2>4, <2>6, <2>10 DEF RunInv
<1>3. ASSUME NEW e \in Experts, NEW i \in W!Instances, W!StartFails(w, e, i)
      PROVE  RunInv'
  <2>1. /\ inst' = [inst EXCEPT ![w][e][i] = W!Free] /\ UNCHANGED <<asks, entry>>
        /\ inst[w][e][i].phase = "starting"
    BY <1>3 DEF W!StartFails, W!EntryAfterFailure
  <2>2. i # 0
    BY DEF W!Instances
  <2>3. i # entry[w][e]
    BY <2>1, <2>2 DEF RunInv, EntryRuns
  <2>4. EntryRuns'
    BY <2>1, <2>3, InstanceChanges
  <2> QED  BY <1>1, <2>1, <2>4 DEF RunInv
<1>4. ASSUME NEW e \in Experts, NEW i \in W!Instances, W!Disposed(w, e, i)
      PROVE  RunInv'
  <2>1. PICK g : inst' = [inst EXCEPT ![w][e] = g]
    BY <1>4 DEF W!Disposed
  <2>2. entry' = [entry EXCEPT ![w][e] = 0] /\ UNCHANGED asks
    BY <1>4 DEF W!Disposed, W!EntryDeleted
  <2>3. entry' \in [Workers -> [Experts -> 0..MaxInst]]
    BY <2>2, ClusterAssumption DEF RunInv
  <2>4. \A v \in Workers, f \in Experts :
          /\ entry'[v][f] = IF v = w /\ f = e THEN 0 ELSE entry[v][f]
          /\ ~(v = w /\ f = e) => inst'[v][f] = inst[v][f]
    BY <1>0, <2>1, <2>2 DEF RunInv
  <2>5. EntryRuns'
    BY <2>4 DEF RunInv, EntryRuns
  <2> QED  BY <1>1, <2>2, <2>3, <2>5 DEF RunInv
<1>5. CASE W!Ask(w)
  <2>1. asks' \in [Workers -> 0..MaxAsks]
    BY <1>5, ClusterAssumption DEF W!Ask, RunInv
  <2> QED  BY <1>1, <1>5, <2>1 DEF W!Ask, RunInv, EntryRuns
<1> QED  BY <1>2, <1>3, <1>4, <1>5 DEF W!Continue

\* A worker listens on its newest socket, or on none.
LEMMA LinkRuns ==
    ASSUME ClusterInv, RunInv, NEW w \in Workers, W!Link(w) \/ W!Crash(w)
    PROVE  RunInv'
<1>0. live \in [Workers -> Nat]
  BY DEF ClusterInv, P!LinkInv, P!TypeInv, P!TypeOK
<1>1. CASE W!Open(w)
  <2>1. MaxConn \in Nat
    BY ClusterAssumption DEF S!SchedulerAssumption
  <2> QED  BY <1>0, <1>1, <2>1 DEF W!Open, RunInv, EntryRuns
<1>2. CASE W!Break(w)
  BY <1>0, <1>2 DEF W!Break, W!Broken, RunInv, EntryRuns
<1>3. CASE W!Crash(w)
  <2>1. UNCHANGED opened /\ (UNCHANGED live \/ live' = [live EXCEPT ![w] = 0])
    BY <1>3 DEF W!Crash, W!Broken
  <2>2. asks' = [asks EXCEPT ![w] = 0] /\ alive' = [alive EXCEPT ![w] = FALSE]
    BY <1>3 DEF W!Crash
  <2>3. /\ entry' = [entry EXCEPT ![w] = [e \in Experts |-> 0]]
        /\ \A v \in Workers \ {w} : inst'[v] = inst[v]
    BY <1>3 DEF W!Crash, ClusterInv, WorkerInv
  <2>4. EntryRuns'
    BY <2>3 DEF RunInv, EntryRuns
  <2> QED  BY <1>0, <2>1, <2>2, <2>3, <2>4, ClusterAssumption DEF RunInv
<1> QED  BY <1>1, <1>2, <1>3 DEF W!Link

\* Nothing runs at first.
LEMMA RunInit == ASSUME Init PROVE RunInv
<1>1. MaxConn \in Nat /\ MaxInst \in Nat /\ MaxAsks \in Nat
  BY ClusterAssumption DEF S!SchedulerAssumption
<1> QED  BY <1>1 DEF Init, W!Init, RunInv, EntryRuns

\* The workers' state keeps its shape in every step.
LEMMA RunStep == ASSUME ClusterInv, RunInv, [Next]_vars PROVE RunInv'
<1>1. CASE UNCHANGED <<workerVars, live>>
  BY <1>1 DEF workerVars, RunInv, EntryRuns
<1>2. ASSUME NEW w \in Workers, W!WorkerStep(w) \/ W!Crash(w) PROVE RunInv'
  BY <1>2, HandleRuns, ContinueRuns, LinkRuns DEF W!WorkerStep
<1>3. ASSUME NEW w \in Workers, NEW s \in Sockets, TakeUp(w, s) PROVE RunInv'
  <2>1. UNCHANGED live
    BY <1>3 DEF TakeUp, S!SocketClosed, S!Receive, S!ReceiveExperts, S!ReceiveNeedJob,
                S!ReceiveStarted, S!ReceiveStopped, S!netVars
  <2> QED  BY <1>1, <1>3, <2>1 DEF TakeUp
<1>4. CASE SchedulerStep
  <2>1. UNCHANGED live
    BY <1>4 DEF SchedulerStep, Local, StartTimeout, ReconnTimeout, S!Edit, S!ProcessExpert,
                S!StartTimeout, S!ReconnTimeout, S!JobTimeout, S!StaleJobTimeout, S!LoopStep,
                S!AssignNext, S!ReportedNext, S!ReportDone, S!RequeueNext, S!netVars
  <2> QED  BY <1>1, <1>4, <2>1 DEF SchedulerStep, Local
<1>5. CASE Reboot
  <2>1. live' = [w \in Workers |-> 0] /\ UNCHANGED workerVars
    BY <1>5 DEF Reboot, S!Reboot
  <2> QED  BY <2>1 DEF workerVars, RunInv, EntryRuns
<1> QED
  BY <1>1, <1>2, <1>3, <1>4, <1>5 DEF Next, Remote, vars

\* However the handlers of a worker overlap, runningExperts never names an instance that is
\* free or still starting: stopping what it names stops something.
THEOREM WorkersAreSound == Spec => []WorkerTypeOK
<1>1. Init => ClusterInv /\ RunInv
  BY InitMaps, RunInit
<1>2. ClusterInv /\ RunInv /\ [Next]_vars => ClusterInv' /\ RunInv'
  BY StepMaps, RunStep
<1>3. ClusterInv /\ RunInv => WorkerTypeOK
  <2> SUFFICES ASSUME ClusterInv, RunInv PROVE W!TypeOK
    BY DEF WorkerTypeOK
  <2>1. \A w \in Workers, e \in Experts, i \in W!Instances : inst[w][e][i] \in InstType
    BY DEF ClusterInv, WorkerInv, Instances
  <2> QED  BY <2>1 DEF RunInv, EntryRuns, W!TypeOK, InstType
<1> QED  BY <1>1, <1>2, <1>3, PTL DEF Spec

-----------------------------------------------------------------------------
(* Requests for jobs.  Where the scheduler has seen a worker's last socket  *)
(* close before the worker opens the next one, and no row is deleted, a     *)
(* worker with a socket never stops asking for work.                        *)

\* Only the newest socket of a worker carries anything.
OneSocket(w) == \A s \in Sockets : s # opened[w] => up[w][s] = <<>>

\* A close is the last thing on a socket, and there is one unless the socket is open.
CloseIsLast(w) ==
    IF live[w] = 0
      THEN \A s \in Sockets : up[w][s] # <<>> => Last(up[w][s]) = W!CloseMsg
      ELSE W!CloseMsg \notin ToSet(up[w][live[w]])

\* A record is that of the worker's newest socket, and goes when that one closes.
RecordIsOfSocket(w) ==
    S!Connected(w) => workers[w].sock = opened[w] /\ (live[w] # 0 \/ up[w][opened[w]] # <<>>)

\* The first thing on a socket is the report that makes the worker ready.
Greeted(w) ==
    live[w] # 0 =>
        IF S!Connected(w)
          THEN P!Ready(w)
          ELSE up[w][live[w]] # <<>> /\ Head(up[w][live[w]]).type = "experts"

StartsAJob(w) == \E e \in Experts, i \in Instances : inst[w][e][i] = W!StartingBy("job")

\* The next request of a worker is under way: JobLoopAlive for one worker.
Requests(w) ==
    \/ S!NeedJobMsg \in ToSet(up[w][live[w]])
    \/ P!Timed(w)
    \/ P!Answers(w) # {}
    \/ asks[w] > 0
    \/ StartsAJob(w)

\* The worker and its record belong together.
Attached(w) == OneSocket(w) /\ CloseIsLast(w) /\ RecordIsOfSocket(w) /\ Greeted(w)

AskInv(w) == Attached(w) /\ (live[w] # 0 => Requests(w))

Asking == \A w \in Workers : AskInv(w)

\* Everything that is known of a reachable state.
FullInv == ClusterInv /\ RunInv /\ P!Present

\* A worker listens on a socket it opened.
LEMMA LiveSocket ==
    ASSUME FullInv, NEW w \in Workers, live[w] # 0
    PROVE  live[w] = opened[w] /\ live[w] \in Sockets
BY ClusterAssumption DEF FullInv, RunInv, Sockets, S!SchedulerAssumption

\* A timed request is that of a record, and on an open socket the record is that of the socket.
LEMMA TimedRecord ==
    ASSUME FullInv, NEW w \in Workers, AskInv(w)
    PROVE  /\ P!Timed(w) => S!Connected(w)
           /\ S!Connected(w) /\ live[w] # 0 => workers[w].sock = live[w]
<1>1. P!Timed(w) => S!Connected(w)
  BY DEF FullInv, ClusterInv, P!LinkInv, P!GoneWaitsForNothing, P!Timed, S!Connected, P!Connected
<1> QED  BY <1>1, LiveSocket DEF AskInv, Attached, RecordIsOfSocket

\* The scheduler is at work, on other things than the messages of w.
LEMMA RestsAsking ==
    ASSUME FullInv, NEW w \in Workers, AskInv(w), P!Rests(w),
           up'[w] = up[w], inst'[w] = inst[w], asks'[w] = asks[w], opened'[w] = opened[w]
    PROVE  AskInv(w)'
<1>1. S!Connected(w)' <=> S!Connected(w)
  BY DEF P!Rests, S!Connected
<1>2. P!Answers(w) # {} => P!Answers(w)' # {}
  BY DEF P!Rests, P!Answers
<1>3. live[w] # 0 /\ Requests(w) => Requests(w)'
  BY <1>2, TimedRecord DEF P!Rests, Requests, StartsAJob
<1> QED  BY <1>1, <1>3 DEF P!Rests, AskInv, Attached, OneSocket, CloseIsLast, RecordIsOfSocket, Greeted

\* Nothing that concerns w happens.
LEMMA OthersAsking ==
    ASSUME FullInv, NEW w \in Workers, AskInv(w), UNCHANGED schedVars,
           live'[w] = live[w], down'[w] = down[w],
           up'[w] = up[w], inst'[w] = inst[w], asks'[w] = asks[w], opened'[w] = opened[w]
    PROVE  AskInv(w)'
<1>1. P!Rests(w)
  BY DEF P!Rests, P!Ready, P!Timed, schedVars
<1> QED  BY <1>1, RestsAsking

\* The scheduler reads what w sent.
LEMMA TakeUpAsking ==
    ASSUME FullInv, NEW w \in Workers, NEW s \in Sockets, AskInv(w), TakeUp(w, s)
    PROVE  AskInv(w)'
<1> DEFINE ms == up[w][s]
           m == Head(ms)
<1>0. /\ ms \in Seq(Msgs) /\ ms # <<>> /\ up' = [up EXCEPT ![w][s] = Tail(ms)]
      /\ up \in [Workers -> [Sockets -> Seq(Msgs)]]
      /\ UNCHANGED workerVars
  BY DEF TakeUp, FullInv, ClusterInv, WorkerInv
<1>1. /\ m \in Msgs /\ Tail(ms) \in Seq(Msgs) /\ ToSet(ms) = {m} \cup ToSet(Tail(ms))
      /\ Len(Tail(ms)) = Len(ms) - 1 /\ Head(ms) = ms[1]
      /\ \A i \in 1..Len(Tail(ms)) : Tail(ms)[i] = ms[i + 1]
      /\ Len(ms) \in Nat /\ Len(ms) > 0
  BY <1>0, HeadTailElements, LenProperties, EmptySeq
<1>2. /\ up'[w][s] = Tail(ms)
      /\ \A r \in Sockets : r # s => up'[w][r] = up[w][r]
      /\ opened' = opened
  BY <1>0 DEF workerVars
<1>3. s = opened[w]
  BY <1>0 DEF AskInv, Attached, OneSocket
<1>4. Tail(ms) # <<>> => Last(Tail(ms)) = Last(ms)
  BY <1>1, EmptySeq DEF Last
<1>5. Tail(ms) = <<>> => Last(ms) = m
  <2> SUFFICES ASSUME Tail(ms) = <<>> PROVE Last(ms) = m
    OBVIOUS
  <2>1. Len(Tail(ms)) = 0
    BY <1>1, EmptySeq
  <2>2. Len(ms) = 1
    <3> HIDE DEF ms
    <3> QED  BY <1>1, <2>1
  <2> QED  BY <1>1, <2>2 DEF Last
<1>6. live' = live
  BY DEF TakeUp, S!SocketClosed, S!Receive, S!ReceiveExperts, S!ReceiveNeedJob,
         S!ReceiveStarted, S!ReceiveStopped, S!netVars
<1>7. OneSocket(w)' /\ CloseIsLast(w)'
  <2>1. OneSocket(w)'
    BY <1>2, <1>3 DEF AskInv, Attached, OneSocket
  <2>2. CASE live[w] = 0
    BY <1>0, <1>2, <1>4, <1>6, <2>1, <2>2 DEF AskInv, Attached, CloseIsLast
  <2>3. CASE live[w] # 0
    <3>1. live[w] = s
      BY <1>3, <2>3, LiveSocket
    <3> QED  BY <1>1, <1>2, <1>6, <2>1, <2>3, <3>1 DEF AskInv, Attached, CloseIsLast
  <2> QED  BY <2>1, <2>2, <2>3
<1>8. CASE m.type = "close"
  <2>1. S!SocketClosed(w, s)
    BY <1>8 DEF TakeUp
  <2>2. m = W!CloseMsg
    BY <1>1, <1>8 DEF Msgs, S!UpMsgs, S!NeedJobMsg, W!CloseMsg
  <2>3. live[w] = 0
    <3>1. m \in ToSet(ms)
      BY <1>1
    <3> QED  BY <1>3, <2>2, <3>1, LiveSocket DEF AskInv, Attached, CloseIsLast
  <2>4. ~S!Connected(w)'
    <3>1. s # 0 /\ workers \in [Workers -> P!Conns]
      BY DEF Sockets, FullInv, ClusterInv, P!LinkInv, P!TypeInv, P!TypeOK
    <3> QED  BY <1>3, <2>1, <3>1 DEF S!SocketClosed, S!Connected, S!NoConn, AskInv, Attached, RecordIsOfSocket
  <2> QED  BY <1>6, <1>7, <2>3, <2>4 DEF AskInv, Attached, RecordIsOfSocket, Greeted
<1>9. CASE m.type # "close"
  <2>1. m \in P!UpMsgs /\ S!Receive(w, s, m)
    BY <1>1, <1>9, SameRanges DEF TakeUp, Msgs, W!CloseMsg
  <2>2. P!Receive(w, s, m)
    BY <2>1, SameActions, SameRanges
  <2> HIDE DEF m, ms
  <2>3. /\ ToSet(down[w]) \subseteq ToSet(down'[w])
        /\ workers'[w].sock = IF S!Connected(w) THEN workers[w].sock ELSE s
        /\ m.type = "experts" \/ (S!Connected(w) /\ P!Ready(w)) => P!Ready(w)'
        /\ IF m.type = "need_job"
             THEN S!Connected(w) /\ P!Ready(w) /\ workers[w].sock = live[w]
                    => P!Timed(w)' \/ P!Answers(w)' # {}
             ELSE P!Timed(w) => P!Timed(w)'
    <3>1. /\ P!ToSet(down[w]) \subseteq P!ToSet(down'[w])
          /\ workers'[w].sock = IF P!Connected(w) THEN workers[w].sock ELSE s
          /\ m.type = "experts" \/ (P!Connected(w) /\ P!Ready(w)) => P!Ready(w)'
          /\ IF m.type = "need_job"
               THEN P!Connected(w) /\ P!Ready(w) /\ workers[w].sock = live[w]
                      => P!Timed(w)' \/ P!Answers(w)' # {}
               ELSE P!Timed(w) => P!Timed(w)'
      BY <2>1, <2>2, SameRanges, SameAssumption, P!ReceiveRests DEF FullInv, ClusterInv
    <3> QED  BY <3>1 DEF S!Connected, P!Connected, P!ToSet, ToSet
  <2>4. workers'[w].sock = opened[w] /\ S!Connected(w)'
    <3>1. s # 0
      BY DEF Sockets
    <3> QED  BY <1>3, <2>3, <3>1 DEF S!Connected, AskInv, Attached, RecordIsOfSocket
  <2>5. RecordIsOfSocket(w)'
    <3>1. CASE live[w] = 0
      <4>1. Last(ms) = W!CloseMsg
        BY <1>0, <3>1 DEF AskInv, Attached, CloseIsLast, ms
      <4>2. Tail(ms) # <<>>
        BY <1>5, <1>9, <4>1 DEF W!CloseMsg
      <4> QED  BY <1>2, <1>3, <2>4, <4>2 DEF RecordIsOfSocket
    <3> QED  BY <1>2, <1>6, <2>4, <3>1 DEF RecordIsOfSocket
  <2>6. ASSUME live[w] # 0 PROVE P!Ready(w)' /\ Requests(w)'
    <3>1. live[w] = s
      BY <1>3, <2>6, LiveSocket
    <3>2. m.type # "experts" => S!Connected(w) /\ P!Ready(w)
      BY <2>6, <3>1 DEF AskInv, Attached, Greeted, m, ms
    <3>3. P!Ready(w)'
      BY <2>3, <3>2
    <3>4. P!Answers(w) # {} => P!Answers(w)' # {}
      BY <2>3 DEF P!Answers, P!ToSet, ToSet
    <3>5. asks' = asks /\ inst' = inst
      BY <1>0 DEF workerVars
    <3>6. CASE m.type = "need_job"
      BY <2>3, <2>6, <3>2, <3>6, TimedRecord DEF Requests
    <3>7. CASE m.type # "need_job"
      <4>1. S!NeedJobMsg \in ToSet(ms) => S!NeedJobMsg \in ToSet(Tail(ms))
        BY <1>1, <3>7 DEF S!NeedJobMsg
      <4> QED
        BY <1>2, <1>6, <2>3, <2>6, <3>1, <3>3, <3>4, <3>5, <3>7, <4>1 DEF AskInv, Attached, Requests, StartsAJob, ms
    <3> QED  BY <3>3, <3>6, <3>7
  <2> QED  BY <1>6, <1>7, <2>4, <2>5, <2>6 DEF AskInv, Attached, Greeted
<1> QED  BY <1>8, <1>9

\* What the scheduler does besides reading the sockets of w.
BesidesReading(w) == SchedulerStep \/ \E v \in Workers \ {w}, s \in Sockets : TakeUp(v, s)

\* The scheduler of the proofs takes the steps of the cluster's.
LEMMA SchedulerTakes ==
    ASSUME SchedulerStep
    PROVE  /\ \/ \E e \in Experts, row \in Edits : P!Edit(e, row)
              \/ \E e \in Experts : P!ProcessExpert(e)
              \/ P!TimerStep \/ P!LoopStep
           /\ UNCHANGED <<workerVars, up>>
<1>1. \/ \E e \in Experts, row \in Edits : S!Edit(e, row)
      \/ \E e \in Experts : S!ProcessExpert(e)
      \/ S!TimerStep \/ S!LoopStep
  BY DEF SchedulerStep, Local, StartTimeout, ReconnTimeout, S!TimerStep
<1>2. UNCHANGED <<workerVars, up>>
  BY DEF SchedulerStep, Local
<1> QED  BY <1>1, <1>2, SameActions

\* The scheduler of the proofs takes the messages the cluster's takes.
LEMMA ReadingTakes ==
    ASSUME ClusterInv, NEW w \in Workers, NEW s \in Sockets, TakeUp(w, s)
    PROVE  /\ up[w][s] \in Seq(Msgs) /\ up[w][s] # <<>>
           /\ up' = [up EXCEPT ![w][s] = Tail(up[w][s])]
           /\ UNCHANGED workerVars
           /\ \/ Head(up[w][s]) = W!CloseMsg /\ P!SocketClosed(w, s)
              \/ Head(up[w][s]) \in P!UpMsgs /\ P!Receive(w, s, Head(up[w][s]))
<1> DEFINE m == Head(up[w][s])
<1>1. /\ up[w][s] # <<>> /\ up[w][s] \in Seq(Msgs) /\ UNCHANGED workerVars
      /\ up' = [up EXCEPT ![w][s] = Tail(up[w][s])]
  BY DEF TakeUp, ClusterInv, WorkerInv
<1>2. m \in Msgs
  BY <1>1
<1>3. \/ m = W!CloseMsg /\ S!SocketClosed(w, s)
      \/ m \in S!UpMsgs /\ S!Receive(w, s, m)
  BY <1>2 DEF TakeUp, Msgs, W!CloseMsg, S!UpMsgs, S!NeedJobMsg
<1> HIDE DEF m
<1>4. \/ m = W!CloseMsg /\ P!SocketClosed(w, s)
      \/ m \in P!UpMsgs /\ P!Receive(w, s, m)
  BY <1>3, SameActions, SameRanges
<1> QED  BY <1>1, <1>4 DEF m

\* None of it concerns w.
LEMMA BesidesTakes ==
    ASSUME FullInv, NEW w \in Workers, BesidesReading(w)
    PROVE  P!Rests(w) /\ P!Spares(w) /\ UNCHANGED workerVars /\ up'[w] = up[w]
<1>1. CASE SchedulerStep
  <2>1. P!Rests(w) /\ P!Spares(w)
    BY <1>1, SchedulerTakes, SameAssumption, P!OthersRest, P!OthersSpare DEF FullInv, ClusterInv
  <2> QED  BY <1>1, <2>1, SchedulerTakes
<1>2. ASSUME NEW v \in Workers \ {w}, NEW s \in Sockets, TakeUp(v, s)
      PROVE  P!Rests(w) /\ P!Spares(w) /\ UNCHANGED workerVars /\ up'[w] = up[w]
  <2> DEFINE m == Head(up[v][s])
  <2>1. /\ UNCHANGED workerVars /\ up' = [up EXCEPT ![v][s] = Tail(up[v][s])]
        /\ P!SocketClosed(v, s) \/ (m \in P!UpMsgs /\ P!Receive(v, s, m))
    BY <1>2, ReadingTakes DEF FullInv
  <2> HIDE DEF m
  <2>2. P!Rests(w) /\ P!Spares(w)
    BY <2>1, SameAssumption, SameRanges, P!OthersRest, P!OthersSpare DEF FullInv, ClusterInv
  <2> QED  BY <2>1, <2>2 DEF FullInv, ClusterInv, WorkerInv
<1> QED  BY <1>1, <1>2 DEF BesidesReading

\* Other scheduler steps.
LEMMA SchedulerAsking ==
    ASSUME FullInv, NEW w \in Workers, AskInv(w), BesidesReading(w)
    PROVE  AskInv(w)'
BY BesidesTakes, RestsAsking DEF workerVars

-----------------------------------------------------------------------------
(* The worker's own steps.                                                  *)

\* A worker that answers adds no close, and nothing in front.
LEMMA ReplyAsking ==
    ASSUME FullInv, NEW w \in Workers, Attached(w), NEW ms \in Seq(Msgs),
           W!CloseMsg \notin ToSet(ms), W!Reply(w, ms), UNCHANGED <<schedVars, live, opened>>
    PROVE  /\ Attached(w)'
           /\ live[w] # 0 =>
                ToSet(up'[w][live[w]]) = ToSet(up[w][live[w]]) \cup ToSet(ms)
<1>1. up \in [Workers -> [Sockets -> Seq(Msgs)]]
  BY DEF FullInv, ClusterInv, WorkerInv
<1>2. S!Connected(w)' <=> S!Connected(w)
  BY DEF S!Connected, schedVars
<1>3. P!Ready(w)' <=> P!Ready(w)
  BY DEF P!Ready, schedVars
<1>4. workers' = workers
  BY DEF schedVars
<1>5. CASE live[w] = 0
  <2>1. UNCHANGED up
    BY <1>5 DEF W!Reply
  <2> QED  BY <1>2, <1>3, <1>4, <1>5, <2>1
     DEF AskInv, Attached, OneSocket, CloseIsLast, RecordIsOfSocket, Greeted
<1>6. CASE live[w] # 0
  <2> DEFINE s == live[w]
             old == up[w][s]
  <2>1. s = opened[w] /\ s \in Sockets
    BY <1>6, LiveSocket
  <2>2. old \in Seq(Msgs)
    BY <1>1, <2>1
  <2>3. /\ up'[w][s] = old \o ms
        /\ \A r \in Sockets : r # s => up'[w][r] = up[w][r]
    BY <1>1, <1>6, <2>1 DEF W!Reply
  <2> HIDE DEF s, old
  <2>4. ToSet(old \o ms) = ToSet(old) \cup ToSet(ms)
    BY <2>2, ConcatElements
  <2>5. old # <<>> => old \o ms # <<>> /\ Head(old \o ms) = Head(old)
    BY <2>2
  <2>6. OneSocket(w)'
    BY <2>1, <2>3 DEF AskInv, Attached, OneSocket
  <2>7. CloseIsLast(w)'
    BY <1>6, <2>3, <2>4 DEF AskInv, Attached, CloseIsLast, s, old
  <2>8. RecordIsOfSocket(w)' /\ Greeted(w)'
    BY <1>2, <1>3, <1>4, <1>6, <2>3, <2>5 DEF AskInv, Attached, RecordIsOfSocket, Greeted, s, old
  <2> QED  BY <2>3, <2>4, <2>6, <2>7, <2>8 DEF Attached, s, old
<1> QED  BY <1>5, <1>6

\* A worker that says nothing.
LEMMA SilentAsking ==
    ASSUME NEW w \in Workers, Attached(w), UNCHANGED <<schedVars, live, opened, up>>
    PROVE  Attached(w)'
BY DEF Attached, OneSocket, CloseIsLast, RecordIsOfSocket, Greeted, S!Connected, P!Ready, schedVars

\* An instance that changes and was not being started for a job.
LEMMA StartsKept ==
    ASSUME FullInv, NEW w \in Workers, NEW e \in Experts, NEW i \in Instances, NEW r,
           inst' = [inst EXCEPT ![w][e][i] = r], inst[w][e][i] # W!StartingBy("job")
    PROVE  StartsAJob(w) => StartsAJob(w)'
<1>1. inst \in [Workers -> [Experts -> [Instances -> InstType]]]
  BY DEF FullInv, ClusterInv, WorkerInv
<1>2. \A f \in Experts, j \in Instances :
        inst'[w][f][j] = IF f = e /\ j = i THEN r ELSE inst[w][f][j]
  BY <1>1
<1> QED  BY <1>2 DEF StartsAJob

\* What a worker sends as an answer: never a close.
LEMMA Replies ==
    ASSUME NEW e \in Experts, NEW ms,
           \/ ms = <<[type |-> "started", expert |-> e]>>
           \/ ms = <<S!NeedJobMsg>>
           \/ ms = <<[type |-> "started", expert |-> e], S!NeedJobMsg>>
           \/ \E n \in Nat : ms = [k \in 1..n |-> [type |-> "stopped", expert |-> e]]
    PROVE  /\ ms \in Seq(Msgs) /\ W!CloseMsg \notin ToSet(ms)
           /\ S!NeedJobMsg \in ToSet(<<S!NeedJobMsg>>)
           /\ S!NeedJobMsg \in ToSet(<<[type |-> "started", expert |-> e], S!NeedJobMsg>>)
<1>1. S!NeedJobMsg = [type |-> "need_job"]
  BY DEF S!NeedJobMsg
<1>2. ms \in Seq(Msgs)
  BY <1>1, MessageType
<1>3. \A k \in DOMAIN ms : ms[k] # W!CloseMsg
  BY <1>1 DEF W!CloseMsg
<1> QED  BY <1>1, <1>2, <1>3 DEF ToSet

\* A handler that takes an answer goes on asking: at once, after a pause, or when the
\* expert it was given has started.
LEMMA HandleAsking ==
    ASSUME FullInv, NEW w \in Workers, AskInv(w), Remote(W!Handle(w))
    PROVE  AskInv(w)'
<1> DEFINE m == W!Next1(w)
           e == m.expert
<1>1. /\ down[w] # <<>> /\ down' = [down EXCEPT ![w] = Tail(@)]
      /\ UNCHANGED <<opened, live, schedVars>> /\ m.type \in {"job", "no_job", "stop", "restart"}
  BY DEF Remote, W!Handle, W!OnJob, W!OnNoJob, W!OnStop, W!OnRestart, W!Took, W!Rest
<1>2. live[w] # 0
  BY <1>1 DEF FullInv, ClusterInv, P!LinkInv, P!NothingOnNoSocket
<1>3. down \in [Workers -> Seq(P!DownMsgs)] /\ down[w] \in Seq(P!DownMsgs)
  BY DEF FullInv, ClusterInv, P!LinkInv, P!TypeInv, P!TypeOK
<1>4. m \in P!DownMsgs /\ ToSet(down[w]) = {m} \cup ToSet(down'[w])
  BY <1>1, <1>3, HeadTailElements DEF W!Next1
<1>5. m.type # "no_job" => e \in Experts
  BY <1>1, <1>4 DEF P!DownMsgs, P!NoJobMsg
<1>6. asks \in [Workers -> Nat] /\ asks[w] \in Nat
  BY ClusterAssumption DEF FullInv, RunInv
<1>7. P!Timed(w)' <=> P!Timed(w)
  BY <1>1 DEF P!Timed, schedVars
<1>8. P!Answers(w) # {} /\ m.type \notin {"job", "no_job"} => P!Answers(w)' # {}
  BY <1>4 DEF P!Answers, P!ToSet, ToSet
<1>9. CASE m.type = "job"
  <2>1. \/ W!Reply(w, <<[type |-> "started", expert |-> e], [type |-> "need_job"]>>)
        \/ UNCHANGED up /\ \E i \in W!FreeOf(w, e) : W!Begin(w, e, i, "job")
    BY <1>9 DEF Remote, W!Handle, W!OnJob, W!OnNoJob, W!OnStop, W!OnRestart, W!Took
  <2>2. CASE W!Reply(w, <<[type |-> "started", expert |-> e], [type |-> "need_job"]>>)
    <3> DEFINE ms == <<[type |-> "started", expert |-> e], S!NeedJobMsg>>
    <3>1. ms \in Seq(Msgs) /\ W!CloseMsg \notin ToSet(ms) /\ S!NeedJobMsg \in ToSet(ms)
      BY <1>5, <1>9, Replies
    <3>2. W!Reply(w, ms)
      BY <2>2 DEF S!NeedJobMsg
    <3> HIDE DEF ms
    <3>3. Attached(w)' /\ S!NeedJobMsg \in ToSet(up'[w][live[w]])
      BY <1>1, <1>2, <3>1, <3>2, ReplyAsking DEF AskInv
    <3> QED  BY <1>1, <3>3 DEF AskInv, Requests
  <2>3. CASE UNCHANGED up /\ \E i \in W!FreeOf(w, e) : W!Begin(w, e, i, "job")
    <3>1. PICK i \in Instances : inst' = [inst EXCEPT ![w][e][i] = W!StartingBy("job")]
      BY <2>3 DEF W!FreeOf, Instances, W!Begin
    <3>2. StartsAJob(w)'
      BY <1>5, <1>9, <3>1 DEF StartsAJob, FullInv, ClusterInv, WorkerInv
    <3>3. Attached(w)'
      BY <1>1, <2>3, SilentAsking DEF AskInv
    <3> QED  BY <3>2, <3>3 DEF AskInv, Requests
  <2> QED  BY <2>1, <2>2, <2>3
<1>10. CASE m.type = "no_job"
  <2>1. UNCHANGED up /\ asks' = [asks EXCEPT ![w] = @ + 1]
    BY <1>10 DEF Remote, W!Handle, W!OnJob, W!OnNoJob, W!OnStop, W!OnRestart, W!Took, W!AskLater
  <2>2. asks'[w] > 0
    BY <1>6, <2>1
  <2>3. Attached(w)'
    BY <1>1, <2>1, SilentAsking DEF AskInv
  <2> QED  BY <2>2, <2>3 DEF AskInv, Requests
<1>11. CASE m.type \in {"stop", "restart"}
  <2>1. /\ UNCHANGED <<up, asks>>
        /\ \/ UNCHANGED inst
           \/ \E i \in W!FreeOf(w, e) : W!Begin(w, e, i, "restart")
           \/ entry[w][e] # 0 /\ \E f \in {"stops", "restarts"} : W!Close(w, e, f)
    BY <1>11 DEF Remote, W!Handle, W!OnJob, W!OnNoJob, W!OnStop, W!OnRestart, W!Took
  <2>2. e \in Experts
    BY <1>5, <1>11
  <2>3. \/ UNCHANGED inst
        \/ \E i \in Instances : /\ inst[w][e][i].phase # "starting"
                                /\ \E r : inst' = [inst EXCEPT ![w][e][i] = r]
    <3>1. ASSUME NEW i \in W!FreeOf(w, e), W!Begin(w, e, i, "restart")
          PROVE  \E j \in Instances : /\ inst[w][e][j].phase # "starting"
                                      /\ \E r : inst' = [inst EXCEPT ![w][e][j] = r]
      <4>1. i \in Instances /\ inst[w][e][i].phase # "starting"
        BY DEF W!FreeOf, W!Free, Instances
      <4>2. inst' = [inst EXCEPT ![w][e][i] = W!StartingBy("restart")]
        BY <3>1 DEF W!Begin
      <4> HIDE DEF e
      <4> QED  BY <4>1, <4>2
    <3>2. ASSUME entry[w][e] # 0, NEW f \in {"stops", "restarts"}, W!Close(w, e, f)
          PROVE  \E j \in Instances : /\ inst[w][e][j].phase # "starting"
                                      /\ \E r : inst' = [inst EXCEPT ![w][e][j] = r]
      <4>1. entry[w][e] \in Instances
        BY <2>2, <3>2 DEF FullInv, RunInv, Instances, W!Instances
      <4>2. inst[w][e][entry[w][e]].phase # "starting"
        BY <2>2, <3>2 DEF FullInv, RunInv, EntryRuns
      <4> QED  BY <3>2, <4>1, <4>2 DEF W!Close
    <3> QED  BY <2>1, <3>1, <3>2
  <2>4. W!StartingBy("job").phase = "starting"
    BY DEF W!StartingBy, W!Free
  <2>5. StartsAJob(w) => StartsAJob(w)'
    <3>1. CASE UNCHANGED inst
      BY <3>1 DEF StartsAJob
    <3> HIDE DEF e
    <3> QED  BY <2>2, <2>3, <2>4, <3>1, StartsKept
  <2>6. Attached(w)'
    BY <1>1, <2>1, SilentAsking DEF AskInv
  <2> QED  BY <1>1, <1>2, <1>7, <1>8, <1>11, <2>1, <2>5, <2>6 DEF AskInv, Requests
<1> QED  BY <1>1, <1>9, <1>10, <1>11

\* A continuation goes on asking: when the start it waited for is over, after the pause.
LEMMA ContinueAsking ==
    ASSUME FullInv, NEW w \in Workers, AskInv(w), Remote(W!Continue(w))
    PROVE  AskInv(w)'
<1>1. UNCHANGED <<opened, live, down, schedVars>>
  BY DEF Remote, W!Continue, W!StartDone, W!StartFails, W!Disposed, W!Ask
<1>2. asks \in [Workers -> Nat] /\ asks[w] \in Nat
  BY ClusterAssumption DEF FullInv, RunInv
<1>3. P!Timed(w)' <=> P!Timed(w)
  BY <1>1 DEF P!Timed, schedVars
<1>4. P!Answers(w)' = P!Answers(w)
  BY <1>1 DEF P!Answers
<1>5. W!StartingBy("job").phase = "starting" /\ W!StartingBy("job").by = "job"
  BY DEF W!StartingBy, W!Free
<1>6. ASSUME Attached(w)', StartsAJob(w) => StartsAJob(w)', asks'[w] = asks[w],
             live[w] # 0 /\ S!NeedJobMsg \in ToSet(up[w][live[w]])
               => S!NeedJobMsg \in ToSet(up'[w][live[w]])
      PROVE  AskInv(w)'
  BY <1>1, <1>3, <1>4, <1>6 DEF AskInv, Requests
<1>7. ASSUME Attached(w)', S!NeedJobMsg \in ToSet(up'[w][live[w]]) \/ asks'[w] > 0 \/ live[w] = 0
      PROVE  AskInv(w)'
  BY <1>1, <1>7 DEF AskInv, Requests
<1>8. ASSUME NEW ms \in Seq(Msgs), W!CloseMsg \notin ToSet(ms), W!Reply(w, ms)
      PROVE  /\ Attached(w)'
             /\ live[w] # 0 => ToSet(up'[w][live[w]]) = ToSet(up[w][live[w]]) \cup ToSet(ms)
  BY <1>1, <1>8, ReplyAsking DEF AskInv
<1>9. ASSUME NEW e \in Experts, NEW i \in W!Instances, W!StartDone(w, e, i) PROVE AskInv(w)'
  <2> DEFINE ms == <<[type |-> "started", expert |-> e]>>
  <2>1. ms \in Seq(Msgs) /\ W!CloseMsg \notin ToSet(ms)
    BY Replies
  <2>2. W!Reply(w, ms)
    BY <1>9 DEF W!StartDone
  <2>3. i \in Instances
    BY DEF Instances
  <2> HIDE DEF ms
  <2>4. CASE inst[w][e][i].by = "job"
    <3>1. asks'[w] > 0
      BY <1>2, <1>9, <2>4 DEF W!StartDone
    <3> QED  BY <1>7, <1>8, <2>1, <2>2, <3>1
  <2>5. CASE inst[w][e][i].by # "job"
    <3>1. UNCHANGED asks /\ \E r : inst' = [inst EXCEPT ![w][e][i] = r]
      BY <1>9, <2>5 DEF W!StartDone
    <3>2. StartsAJob(w) => StartsAJob(w)'
      BY <1>5, <2>3, <2>5, <3>1, StartsKept
    <3> QED  BY <1>6, <1>8, <2>1, <2>2, <3>1, <3>2
  <2> QED  BY <2>4, <2>5
<1>10. ASSUME NEW e \in Experts, NEW i \in W!Instances, W!StartFails(w, e, i) PROVE AskInv(w)'
  <2>1. UNCHANGED asks /\ inst' = [inst EXCEPT ![w][e][i] = W!Free] /\ i \in Instances
    BY <1>10 DEF W!StartFails, Instances
  <2>2. CASE inst[w][e][i].by = "job"
    <3> DEFINE ms == <<S!NeedJobMsg>>
    <3>1. ms \in Seq(Msgs) /\ W!CloseMsg \notin ToSet(ms) /\ S!NeedJobMsg \in ToSet(ms)
      BY Replies
    <3>2. W!Reply(w, ms)
      BY <1>10, <2>2 DEF W!StartFails, S!NeedJobMsg
    <3> HIDE DEF ms
    <3> QED  BY <1>7, <1>8, <3>1, <3>2
  <2>3. CASE inst[w][e][i].by # "job"
    <3>1. UNCHANGED up
      BY <1>10, <2>3 DEF W!StartFails
    <3>2. StartsAJob(w) => StartsAJob(w)'
      BY <1>5, <2>1, <2>3, StartsKept
    <3>3. Attached(w)'
      BY <1>1, <3>1, SilentAsking DEF AskInv
    <3> QED  BY <1>6, <2>1, <3>1, <3>2, <3>3
  <2> QED  BY <2>2, <2>3
<1>11. ASSUME NEW e \in Experts, NEW i \in W!Instances, W!Disposed(w, e, i) PROVE AskInv(w)'
  <2> DEFINE ms == [k \in 1..inst[w][e][i].stops |-> [type |-> "stopped", expert |-> e]]
  <2>1. inst \in [Workers -> [Experts -> [Instances -> InstType]]] /\ inst[w][e][i].stops \in Nat
    BY DEF FullInv, ClusterInv, WorkerInv, InstType, Instances
  <2>2. ms \in Seq(Msgs) /\ W!CloseMsg \notin ToSet(ms)
    BY <2>1, Replies
  <2>3. W!Reply(w, ms) /\ UNCHANGED asks
    BY <1>11 DEF W!Disposed
  <2> HIDE DEF ms
  <2>4. PICK R \in SUBSET (W!FreeOf(w, e) \cup {i}) :
          inst' = [inst EXCEPT ![w][e] = [j \in Instances |->
                        IF j \in R THEN W!StartingBy("restart")
                        ELSE IF j = i THEN W!Free ELSE @[j]]]
    BY <1>11 DEF W!Disposed, Instances
  <2>5. \A j \in R \cup {i} : inst[w][e][j].phase # "starting"
    BY <1>11 DEF W!Disposed, W!FreeOf, W!Free
  <2>6. \A f \in Experts, j \in Instances :
          f # e \/ j \notin R \cup {i} => inst'[w][f][j] = inst[w][f][j]
    BY <2>1, <2>4
  <2>7. StartsAJob(w) => StartsAJob(w)'
    BY <1>5, <2>5, <2>6 DEF StartsAJob
  <2> QED  BY <1>6, <1>8, <2>2, <2>3, <2>7
<1>12. CASE W!Ask(w)
  <2> DEFINE ms == <<S!NeedJobMsg>>
  <2>1. ms \in Seq(Msgs) /\ W!CloseMsg \notin ToSet(ms) /\ S!NeedJobMsg \in ToSet(ms)
    BY DEF Msgs, S!UpMsgs, S!NeedJobMsg, W!CloseMsg, ToSet
  <2>2. W!Reply(w, ms)
    BY <1>12 DEF W!Ask, S!NeedJobMsg
  <2> HIDE DEF ms
  <2> QED  BY <1>7, <1>8, <2>1, <2>2
<1> QED  BY <1>9, <1>10, <1>11, <1>12 DEF Remote, W!Continue

\* A socket breaks, or the process dies: what is left of the socket ends in its close.
LEMMA BrokenAsking ==
    ASSUME FullInv, NEW w \in Workers, AskInv(w), live[w] # 0, W!Broken(w),
           UNCHANGED <<schedVars, opened>>
    PROVE  AskInv(w)'
<1> DEFINE s == live[w]
<1>1. s = opened[w] /\ s \in Sockets /\ opened' = opened
  BY LiveSocket
<1>2. /\ up \in [Workers -> [Sockets -> Seq(Msgs)]] /\ live \in [Workers -> Nat]
  BY DEF FullInv, ClusterInv, WorkerInv, P!LinkInv, P!TypeInv, P!TypeOK
<1>3. live'[w] = 0
  BY <1>2 DEF W!Broken
<1>4. PICK n \in 0..Len(up[w][s]) :
        up' = [up EXCEPT ![w][s] = Append(SubSeq(@, 1, n), W!CloseMsg)]
  BY DEF W!Broken
<1> DEFINE cut == SubSeq(up[w][s], 1, n)
<1>5. cut \in Seq(Msgs) /\ W!CloseMsg \in Msgs
  <2>1. up[w][s] \in Seq(Msgs)
    BY <1>1, <1>2
  <2> QED  BY <2>1, CutElements DEF Msgs
<1>6. /\ up'[w][s] = Append(cut, W!CloseMsg)
      /\ \A r \in Sockets : r # s => up'[w][r] = up[w][r]
  BY <1>1, <1>2, <1>4
<1> HIDE DEF s, cut
<1>7. Append(cut, W!CloseMsg) # <<>> /\ Last(Append(cut, W!CloseMsg)) = W!CloseMsg
  BY <1>5, AppendProperties, LenProperties DEF Last
<1>8. OneSocket(w)' /\ CloseIsLast(w)'
  BY <1>1, <1>3, <1>6, <1>7 DEF AskInv, Attached, OneSocket, CloseIsLast
<1>9. RecordIsOfSocket(w)'
  <2>1. workers' = workers
    BY DEF schedVars
  <2> QED  BY <1>1, <1>6, <1>7, <2>1 DEF AskInv, Attached, RecordIsOfSocket, S!Connected
<1> QED  BY <1>3, <1>8, <1>9 DEF AskInv, Attached, Greeted

\* A worker opens a socket only when the scheduler has seen the last one close.
OpensInTurn == \A w \in Workers : W!Open(w) => ~W!Closing(w)

\* A socket opens once the scheduler has seen the last one close: it brings the report and
\* the first request.
LEMMA LinkAsking ==
    ASSUME FullInv, OpensInTurn, NEW w \in Workers, AskInv(w), Remote(W!Link(w) \/ W!Crash(w))
    PROVE  AskInv(w)'
<1>0. UNCHANGED schedVars
  BY DEF Remote
<1>1. CASE W!Open(w)
  <2> DEFINE s == opened[w] + 1
             report == [type |-> "experts", experts |-> W!Running(w)]
  <2>1. live[w] = 0 /\ \A r \in Sockets : up[w][r] = <<>>
    BY <1>1 DEF OpensInTurn, W!Open, W!Closing, Sockets
  <2>2. opened[w] \in Nat /\ MaxConn \in Nat /\ opened[w] < MaxConn
    BY <1>1, ClusterAssumption DEF W!Open, FullInv, ClusterInv, WorkerInv, S!SchedulerAssumption
  <2>3. s \in Sockets /\ opened[w] \in {0} \cup Sockets /\ s # 0
    BY <2>2 DEF Sockets
  <2>4. /\ live'[w] = s /\ opened'[w] = s
        /\ up'[w][s] = <<report, S!NeedJobMsg>>
        /\ \A r \in Sockets : r # s => up'[w][r] = <<>>
    <3>1. /\ live \in [Workers -> Nat] /\ opened \in [Workers -> Nat]
          /\ up \in [Workers -> [Sockets -> Seq(Msgs)]]
      BY DEF FullInv, ClusterInv, WorkerInv, P!LinkInv, P!TypeInv, P!TypeOK
    <3> QED  BY <1>1, <2>1, <2>3, <3>1 DEF W!Open, S!NeedJobMsg
  <2> HIDE DEF s
  <2>5. ~S!Connected(w)
    <3>1. S!Connected(w) => workers[w].sock = opened[w] /\ up[w][opened[w]] # <<>>
      BY <2>1 DEF AskInv, Attached, RecordIsOfSocket
    <3> QED  BY <2>1, <2>3, <3>1 DEF S!Connected
  <2>6. ~S!Connected(w)'
    BY <1>0, <2>5 DEF S!Connected, schedVars
  <2>7. report.type = "experts" /\ report # W!CloseMsg /\ S!NeedJobMsg # W!CloseMsg
    BY DEF W!CloseMsg, S!NeedJobMsg
  <2> HIDE DEF report
  <2>8. /\ ToSet(<<report, S!NeedJobMsg>>) = {report, S!NeedJobMsg}
        /\ <<report, S!NeedJobMsg>> # <<>> /\ Head(<<report, S!NeedJobMsg>>) = report
    BY DEF ToSet
  <2>9. OneSocket(w)' /\ CloseIsLast(w)'
    BY <2>3, <2>4, <2>7, <2>8 DEF OneSocket, CloseIsLast
  <2>10. RecordIsOfSocket(w)' /\ Greeted(w)'
    BY <2>4, <2>6, <2>7, <2>8 DEF RecordIsOfSocket, Greeted
  <2>11. Requests(w)'
    BY <2>4, <2>8 DEF Requests
  <2> QED  BY <2>9, <2>10, <2>11 DEF AskInv, Attached
<1>2. CASE W!Break(w)
  BY <1>0, <1>2, BrokenAsking DEF W!Break
<1>3. CASE W!Crash(w)
  <2>1. CASE live[w] # 0
    BY <1>0, <1>3, <2>1, BrokenAsking DEF W!Crash
  <2>2. CASE live[w] = 0
    <3>1. UNCHANGED <<live, opened, up>>
      BY <1>3, <2>2 DEF W!Crash
    <3> QED  BY <1>0, <2>2, <3>1, SilentAsking DEF AskInv
  <2> QED  BY <2>1, <2>2
<1> QED  BY <1>1, <1>2, <1>3 DEF Remote, W!Link

\* A step of one worker is nothing to another.
LEMMA OthersUntouched ==
    ASSUME FullInv, NEW w \in Workers, NEW v \in Workers \ {w},
           Remote(W!WorkerStep(w)) \/ Remote(W!Crash(w))
    PROVE  /\ UNCHANGED schedVars
           /\ up'[v] = up[v] /\ inst'[v] = inst[v] /\ asks'[v] = asks[v]
           /\ opened'[v] = opened[v] /\ live'[v] = live[v] /\ down'[v] = down[v]
           /\ alive'[v] = alive[v] /\ entry'[v] = entry[v]
<1>1. /\ live \in [Workers -> Nat] /\ opened \in [Workers -> Nat]
      /\ up \in [Workers -> [Sockets -> Seq(Msgs)]] /\ down \in [Workers -> Seq(P!DownMsgs)]
      /\ inst \in [Workers -> [Experts -> [Instances -> InstType]]]
      /\ asks \in [Workers -> 0..MaxAsks] /\ alive \in [Workers -> BOOLEAN]
      /\ entry \in [Workers -> [Experts -> 0..MaxInst]]
  BY DEF FullInv, ClusterInv, WorkerInv, RunInv, P!LinkInv, P!TypeInv, P!TypeOK
<1>2. \/ UNCHANGED up \/ \E x : up' = [up EXCEPT ![w] = x]
  BY DEF Remote, W!WorkerStep, W!Link, W!Open, W!Break, W!Broken, W!Crash, W!Handle, W!OnJob,
         W!OnNoJob, W!OnStop, W!OnRestart, W!Took, W!Continue, W!StartDone, W!StartFails,
         W!Disposed, W!Ask, W!Reply
<1>3. \/ UNCHANGED inst \/ \E x : inst' = [inst EXCEPT ![w] = x]
  BY DEF Remote, W!WorkerStep, W!Link, W!Open, W!Break, W!Crash, W!Handle, W!OnJob,
         W!OnNoJob, W!OnStop, W!OnRestart, W!Took, W!Begin, W!Close, W!Continue, W!StartDone,
         W!StartFails, W!Disposed, W!Ask
<1>4. /\ UNCHANGED asks \/ \E x : asks' = [asks EXCEPT ![w] = x]
      /\ UNCHANGED opened \/ \E x : opened' = [opened EXCEPT ![w] = x]
      /\ UNCHANGED live \/ \E x : live' = [live EXCEPT ![w] = x]
      /\ UNCHANGED down \/ \E x : down' = [down EXCEPT ![w] = x]
  BY DEF Remote, W!WorkerStep, W!Link, W!Open, W!Break, W!Broken, W!Crash, W!Handle, W!OnJob,
         W!OnNoJob, W!OnStop, W!OnRestart, W!Took, W!AskLater, W!Continue, W!StartDone,
         W!StartFails, W!Disposed, W!Ask
<1>5. /\ UNCHANGED alive \/ \E x : alive' = [alive EXCEPT ![w] = x]
      /\ UNCHANGED entry \/ \E x : entry' = [entry EXCEPT ![w] = x]
  BY DEF Remote, W!WorkerStep, W!Link, W!Open, W!Break, W!Crash, W!Handle, W!OnJob,
         W!OnNoJob, W!OnStop, W!OnRestart, W!Took, W!Continue, W!StartDone, W!StartFails,
         W!EntryAfterFailure, W!Disposed, W!EntryDeleted, W!Ask
<1>6. UNCHANGED schedVars
  BY DEF Remote
<1> QED  BY <1>1, <1>2, <1>3, <1>4, <1>5, <1>6

\* Nothing is changed for it, then.
LEMMA OtherWorkers ==
    ASSUME FullInv, NEW w \in Workers, NEW v \in Workers \ {w}, AskInv(v),
           Remote(W!WorkerStep(w)) \/ Remote(W!Crash(w))
    PROVE  AskInv(v)'
BY OthersUntouched, OthersAsking

\* After a reboot of the scheduler no worker has a socket.
LEMMA RebootAsking == ASSUME Reboot, NEW w \in Workers PROVE AskInv(w)'
<1>1. /\ live'[w] = 0 /\ ~S!Connected(w)'
      /\ \A s \in Sockets : up'[w][s] = <<>>
  BY DEF Reboot, S!Reboot, S!Connected, S!NoConn
<1> QED  BY <1>1 DEF AskInv, Attached, OneSocket, CloseIsLast, RecordIsOfSocket, Greeted

\* Every worker that listens goes on asking.
LEMMA AskingStep ==
    ASSUME FullInv, Asking, OpensInTurn, [Next]_vars
    PROVE  Asking'
<1> SUFFICES ASSUME NEW w \in Workers PROVE AskInv(w)'
  BY DEF Asking
<1>0. AskInv(w)
  BY DEF Asking
<1>1. CASE UNCHANGED vars
  BY <1>0, <1>1, OthersAsking DEF vars, workerVars
<1>2. ASSUME NEW v \in Workers, NEW s \in Sockets, TakeUp(v, s) PROVE AskInv(w)'
  <2>1. CASE v = w
    BY <1>0, <1>2, <2>1, TakeUpAsking
  <2>2. CASE v # w
    BY <1>0, <1>2, <2>2, SchedulerAsking DEF BesidesReading
  <2> QED  BY <2>1, <2>2
<1>3. CASE SchedulerStep
  BY <1>0, <1>3, SchedulerAsking DEF BesidesReading
<1>4. CASE Reboot
  BY <1>4, RebootAsking
<1>5. ASSUME NEW v \in Workers, Remote(W!WorkerStep(v)) \/ Remote(W!Crash(v)) PROVE AskInv(w)'
  <2>1. CASE v # w
    BY <1>0, <1>5, <2>1, OtherWorkers
  <2>2. CASE v = w
    <3>1. CASE Remote(W!Handle(w))
      BY <1>0, <3>1, HandleAsking
    <3>2. CASE Remote(W!Continue(w))
      BY <1>0, <3>2, ContinueAsking
    <3>3. CASE Remote(W!Link(w) \/ W!Crash(w))
      BY <1>0, <3>3, LinkAsking
    <3> QED  BY <1>5, <2>2, <3>1, <3>2, <3>3 DEF Remote, W!WorkerStep
  <2> QED  BY <2>1, <2>2
<1>6. (\E v \in Workers : Faults < MaxFaults /\ Remote(W!Crash(v)))
        => \E v \in Workers : Remote(W!Crash(v))
  BY DEF Remote
<1> QED  BY <1>1, <1>2, <1>3, <1>4, <1>5, <1>6 DEF Next

\* What is known of a reachable state stays true.
LEMMA FullStep ==
    ASSUME FullInv, P!RowsStay, [Next]_vars
    PROVE  FullInv'
<1>1. [S!Next]_S!vars /\ ClusterInv'
  BY StepMaps DEF FullInv
<1>2. [P!Next]_P!vars
  BY <1>1, SameSteps DEF S!vars, P!vars
<1>3. P!Present'
  BY <1>2, SameAssumption, P!PresentStep DEF FullInv, ClusterInv
<1>4. RunInv'
  BY RunStep DEF FullInv
<1> QED  BY <1>1, <1>3, <1>4 DEF FullInv

\* Nothing is under way in a cluster that has just started.
LEMMA AskingInit == ASSUME Init PROVE Asking
BY DEF Init, S!Init, W!Init, Asking, AskInv, Attached, OneSocket, CloseIsLast, RecordIsOfSocket,
       Greeted, Sockets, S!Connected, S!NoConn

\* However messages, timers, breaks, crashes and reboots interleave, a worker with a socket
\* does not lose its request for a job, unless it opened the socket before the scheduler saw
\* the last one close, or a row was deleted while its expert was queued.
THEOREM WorkersKeepAsking ==
    ASSUME ~Overlap, "absent" \notin Edits
    PROVE  Spec => []JobLoopAlive
<1>0. P!RowsStay
  BY DEF P!RowsStay
<1>1. Init => FullInv /\ Asking
  <2> SUFFICES ASSUME Init PROVE P!Present
    BY InitMaps, RunInit, AskingInit DEF FullInv
  <2> QED  BY SameInit, SameAssumption, P!PresentInit DEF Init
<1>2. FullInv /\ Asking /\ [Next]_vars => FullInv' /\ Asking'
  <2>1. OpensInTurn
    BY DEF OpensInTurn, W!Open
  <2> QED  BY <1>0, <2>1, FullStep, AskingStep
<1>3. FullInv /\ Asking => JobLoopAlive
  <2> SUFFICES ASSUME FullInv, Asking, NEW w \in Workers, live[w] # 0 PROVE Requests(w)
    BY DEF JobLoopAlive, Requests, P!Timed, P!Answers, P!ToSet, ToSet, StartsAJob
  <2> QED  BY DEF Asking, AskInv
<1> QED  BY <1>1, <1>2, <1>3, PTL DEF Spec

-----------------------------------------------------------------------------
(* What the scheduler knows of a worker.  Where sockets do not break, a     *)
(* worker has its socket until it dies or the scheduler restarts, and the   *)
(* scheduler knows where to find every expert it holds for started.         *)

\* Worker w has died, and the scheduler has read all it said and seen its socket close.
Gone(w) ==
    /\ ~alive[w] /\ live[w] = 0 /\ ~S!Connected(w)
    /\ \A s \in Sockets : up[w][s] = <<>>

\* A worker that lives and has no socket has nothing under way.
Parted(w) == alive[w] /\ live[w] = 0 => \A s \in Sockets : up[w][s] = <<>>

\* A worker that is dead has no socket and runs nothing.
Dead(w) ==
    ~alive[w] => live[w] = 0 /\ \A e \in Experts, i \in Instances : inst[w][e][i] = W!Free

\* Nothing follows a close.
CloseEnds(w) ==
    \A s \in Sockets : \A i \in DOMAIN up[w][s] :
        up[w][s][i] = W!CloseMsg => i = Len(up[w][s])

\* A report is the first message of a socket, and makes the record.
ReportIsFirst(w) ==
    \A s \in Sockets : \A i \in DOMAIN up[w][s] :
        up[w][s][i].type = "experts" => i = 1 /\ ~S!Connected(w)

\* The scheduler gives up the experts of a worker only when the worker is gone.
GivenUpGone(w) ==
    reconn[w] # {} \/ (loop.at = "requeue" /\ loop.worker = w) => Gone(w)

\* A worker the scheduler has not heard of owns nothing.
NewOwnsNothing(w) ==
    ~S!Connected(w) /\ ~Gone(w) => \A e \in Experts : st[e].owner # w

KnownInv(w) ==
    /\ Parted(w) /\ Dead(w) /\ CloseEnds(w) /\ ReportIsFirst(w)
    /\ GivenUpGone(w) /\ NewOwnsNothing(w) /\ P!Recoverable(w)

Known == \A w \in Workers : KnownInv(w)

\* The scheduler is at work, on other things than the messages of w.
LEMMA RestsKnown ==
    ASSUME FullInv, NEW w \in Workers, KnownInv(w), P!Rests(w), P!Spares(w),
           alive'[w] = alive[w], up'[w] = up[w], inst'[w] = inst[w]
    PROVE  KnownInv(w)'
<1>1. /\ S!Connected(w)' <=> S!Connected(w)
      /\ S!Connected(w) <=> P!Connected(w)
      /\ live'[w] = live[w]
  BY DEF P!Rests, S!Connected, P!Connected
<1>2. Gone(w)' <=> Gone(w)
  BY <1>1 DEF Gone
<1>3. Parted(w)' /\ Dead(w)' /\ CloseEnds(w)' /\ ReportIsFirst(w)'
  BY <1>1 DEF KnownInv, Parted, Dead, CloseEnds, ReportIsFirst
<1>4. GivenUpGone(w)' /\ NewOwnsNothing(w)' /\ P!Recoverable(w)'
  BY <1>1, <1>2 DEF P!Spares, KnownInv, GivenUpGone, NewOwnsNothing
<1> QED  BY <1>3, <1>4 DEF KnownInv

\* The scheduler reads what w sent.
LEMMA ReadingKnown ==
    ASSUME FullInv, NEW w \in Workers, NEW s \in Sockets, AskInv(w), KnownInv(w), TakeUp(w, s)
    PROVE  KnownInv(w)'
<1> DEFINE ms == up[w][s]
           m == Head(ms)
           rest == Tail(ms)
<1>1. /\ ms \in Seq(Msgs) /\ ms # <<>> /\ up' = [up EXCEPT ![w][s] = Tail(ms)]
      /\ UNCHANGED <<alive, inst, opened>>
      /\ \/ m = W!CloseMsg /\ P!SocketClosed(w, s)
         \/ m \in P!UpMsgs /\ P!Receive(w, s, m)
      /\ up \in [Workers -> [Sockets -> Seq(Msgs)]]
  BY ReadingTakes DEF FullInv, ClusterInv, WorkerInv, workerVars
<1>2. /\ rest \in Seq(Msgs) /\ m = ms[1] /\ 1 \in DOMAIN ms
      /\ Len(ms) \in Nat /\ Len(rest) \in Nat /\ Len(ms) = Len(rest) + 1
      /\ \A i \in DOMAIN rest : /\ i \in Nat \ {0} /\ rest[i] = ms[i + 1]
                                 /\ i + 1 \in DOMAIN ms
  BY <1>1, HeadTailElements, LenProperties, EmptySeq
<1>3. s = opened[w]
  BY <1>1 DEF AskInv, Attached, OneSocket
<1>4. \A r \in Sockets : up'[w][r] = IF r = s THEN rest ELSE <<>>
  BY <1>1, <1>3 DEF AskInv, Attached, OneSocket
<1>5. ~Gone(w) /\ (live[w] = 0 => ~alive[w])
  BY <1>1 DEF KnownInv, Gone, Parted
<1>6. reconn[w] = {} /\ ~(loop.at = "requeue" /\ loop.worker = w)
  BY <1>5 DEF KnownInv, GivenUpGone
<1>7. live' = live
  BY <1>1 DEF P!SocketClosed, P!Receive, P!ReceiveExperts, P!ReceiveNeedJob,
         P!ReceiveStarted, P!ReceiveStopped, P!netVars
<1>8. Parted(w)' /\ Dead(w)'
  BY <1>1, <1>5, <1>7 DEF KnownInv, Parted, Dead
<1> HIDE DEF m, ms, rest
<1>12. \A r \in Sockets : \A i \in DOMAIN up'[w][r] :
         /\ r = s /\ i \in Nat \ {0} /\ up'[w][r][i] = ms[i + 1] /\ i + 1 \in DOMAIN ms
         /\ up'[w][r] = rest
  <2>1. DOMAIN <<>> = {}
    OBVIOUS
  <2> QED  BY <1>2, <1>4, <2>1
<1>9. CloseEnds(w)'
  <2> SUFFICES ASSUME NEW r \in Sockets, NEW i \in DOMAIN up'[w][r], up'[w][r][i] = W!CloseMsg
               PROVE  i = Len(up'[w][r])
    BY DEF CloseEnds
  <2>1. /\ i \in Nat /\ ms[i + 1] = W!CloseMsg /\ i + 1 \in DOMAIN ms
        /\ up'[w][r] = rest
    BY <1>12
  <2>2. i + 1 = Len(ms)
    BY <2>1 DEF KnownInv, CloseEnds, ms
  <2> QED  BY <1>2, <2>1, <2>2
<1>10. CASE m = W!CloseMsg /\ P!SocketClosed(w, s)
  <2>1. live[w] = 0
    <3>1. m \in ToSet(ms)
      BY <1>2 DEF ToSet
    <3> QED  BY <1>3, <1>10, <3>1, LiveSocket DEF AskInv, Attached, CloseIsLast, ms
  <2>2. rest = <<>>
    <3>1. 1 = Len(ms)
      BY <1>2, <1>10 DEF KnownInv, CloseEnds, ms
    <3> QED  BY <1>2, <3>1, EmptySeq
  <2>3. /\ workers \in [Workers -> P!Conns] /\ reconn \in [Workers -> SUBSET Experts] /\ s # 0
        /\ loop.at = "idle"
    BY <1>10 DEF Sockets, FullInv, ClusterInv, P!LinkInv, P!TypeInv, P!TypeOK, P!SocketClosed, P!Idle
  <2>4. ~S!Connected(w)'
    BY <1>3, <1>10, <2>3
    DEF P!SocketClosed, S!Connected, P!NoConn, AskInv, Attached, RecordIsOfSocket
  <2>5. Gone(w)'
    BY <1>1, <1>4, <1>5, <1>7, <2>1, <2>2, <2>4 DEF Gone
  <2>6. P!Recoverable(w)'
    <3>1. UNCHANGED st
      BY <1>10 DEF P!SocketClosed
    <3>2. P!Connected(w) => reconn'[w] = workers[w].active
      BY <1>3, <1>10, <2>3 DEF P!SocketClosed, P!ToRequeue, S!Connected, P!Connected, AskInv,
                               Attached, RecordIsOfSocket
    <3> QED
      BY <1>6, <3>1, <3>2
      DEF KnownInv, P!Recoverable, P!StartedAt, P!Kept, P!Requeues
  <2>7. ReportIsFirst(w)'
    BY <1>4, <2>2 DEF ReportIsFirst
  <2> QED  BY <1>8, <1>9, <2>5, <2>6, <2>7 DEF KnownInv, GivenUpGone, NewOwnsNothing
<1>11. CASE m \in P!UpMsgs /\ P!Receive(w, s, m)
  <2>1. m.type = "experts" => \A e \in Experts : st[e].owner # w
    <3>1. m.type = "experts" => ~S!Connected(w)
      BY <1>2 DEF KnownInv, ReportIsFirst, ms
    <3> QED  BY <1>5, <3>1 DEF KnownInv, NewOwnsNothing
  <2>2. P!LinkInv /\ P!Present /\ P!SchedulerAssumption /\ s \in P!Sockets
    BY SameAssumption, SameRanges DEF FullInv, ClusterInv
  <2>3. /\ reconn'[w] = {} /\ loop'.at # "requeue"
        /\ P!Recoverable(w) => P!Recoverable(w)'
    BY <1>6, <1>11, <2>1, <2>2, P!ReceiveOwns
  <2>4. workers'[w].sock = IF P!Connected(w) THEN workers[w].sock ELSE s
    BY <1>11, <2>2, P!ReceiveRests
  <2>5. S!Connected(w)'
    <3>1. s # 0
      BY DEF Sockets
    <3> QED  BY <2>4, <3>1 DEF S!Connected, P!Connected
  <2>6. ReportIsFirst(w)'
    <3> SUFFICES ASSUME NEW r \in Sockets, NEW i \in DOMAIN up'[w][r]
                 PROVE  up'[w][r][i].type # "experts"
      BY DEF ReportIsFirst
    <3>1. i \in Nat \ {0} /\ up'[w][r][i] = ms[i + 1] /\ i + 1 \in DOMAIN ms
      BY <1>12
    <3> QED  BY <3>1 DEF KnownInv, ReportIsFirst, ms
  <2> QED  BY <1>8, <1>9, <2>3, <2>5, <2>6 DEF KnownInv, GivenUpGone, NewOwnsNothing
<1> QED  BY <1>1, <1>10, <1>11
-----------------------------------------------------------------------------
(* What a worker says of an expert is the end of something it does.         *)

\* Worker w has been told something about e, or is starting or stopping an instance of it.
Engaged(w, e) ==
    \/ \E i \in Instances : inst[w][e][i].phase \in {"starting", "closing"}
    \/ \E m \in ToSet(down[w]) : About(m, e)

\* A message w sends when it handles a message or continues a handler.
Says(w, m) ==
    \/ m = S!NeedJobMsg
    \/ \E e \in Experts :
         /\ Engaged(w, e)
         /\ \/ m = S!StartedMsg(e) /\ entry'[w][e] # 0
            \/ m = S!StoppedMsg(e) /\ \E i \in Instances : /\ inst[w][e][i].phase = "closing"
                                                           /\ inst[w][e][i].stops # 0

\* A worker that sends nothing answers with no message.
LEMMA SilentReply == ASSUME FullInv, NEW w \in Workers, UNCHANGED up PROVE W!Reply(w, <<>>)
<1>1. CASE live[w] # 0
  <2>1. live[w] \in Sockets /\ up \in [Workers -> [Sockets -> Seq(Msgs)]]
    BY <1>1, LiveSocket DEF FullInv, ClusterInv, WorkerInv
  <2>2. up[w][live[w]] \o <<>> = up[w][live[w]]
    BY <2>1, ConcatEmptySeq
  <2> QED  BY <2>1, <2>2 DEF W!Reply
<1> QED  BY <1>1 DEF W!Reply

\* Where an answer goes: behind what is under way on the socket, if there is one.
LEMMA ReplyPlaces ==
    ASSUME FullInv, NEW w \in Workers, NEW ms \in Seq(Msgs), W!Reply(w, ms)
    PROVE  /\ live[w] = 0 => up' = up
           /\ \A s \in Sockets : s # live[w] => up'[w][s] = up[w][s]
           /\ \A s \in Sockets : s = live[w] => up'[w][s] = up[w][s] \o ms
           /\ \A s \in Sockets : \A i \in DOMAIN up[w][s] :
                i \in DOMAIN up'[w][s] /\ up'[w][s][i] = up[w][s][i]
           /\ \A s \in Sockets : \A i \in DOMAIN up'[w][s] :
                \/ i \in DOMAIN up[w][s] /\ up'[w][s][i] = up[w][s][i]
                \/ s = live[w] /\ up'[w][s][i] \in ToSet(ms)
<1>1. up \in [Workers -> [Sockets -> Seq(Msgs)]]
  BY DEF FullInv, ClusterInv, WorkerInv
<1>2. /\ live[w] = 0 => up' = up
      /\ live[w] # 0 => up' = [up EXCEPT ![w][live[w]] = @ \o ms]
  BY DEF W!Reply
<1>3. \A s \in Sockets : up'[w][s] = IF s = live[w] THEN up[w][s] \o ms ELSE up[w][s]
  <2>1. CASE live[w] = 0
    <3>1. \A s \in Sockets : s # 0
      BY DEF Sockets
    <3> QED  BY <1>2, <2>1, <3>1
  <2>2. CASE live[w] # 0
    <3> DEFINE x == up[w][live[w]] \o ms
               l == live[w]
    <3>1. up' = [up EXCEPT ![w][l] = x]
      BY <1>2, <2>2
    <3>2. x = up[w][l] \o ms
      OBVIOUS
    <3> HIDE DEF x, l
    <3>3. \A s \in Sockets : up'[w][s] = IF s = l THEN x ELSE up[w][s]
      BY <1>1, <3>1
    <3> QED  BY <3>2, <3>3 DEF l
  <2> QED  BY <2>1, <2>2
<1>4. \A s \in Sockets : s = live[w] =>
         /\ \A i \in DOMAIN up[w][s] : i \in DOMAIN up'[w][s] /\ up'[w][s][i] = up[w][s][i]
         /\ \A i \in DOMAIN up'[w][s] :
              \/ i \in DOMAIN up[w][s] /\ up'[w][s][i] = up[w][s][i]
              \/ up'[w][s][i] \in ToSet(ms)
  <2> SUFFICES ASSUME NEW s \in Sockets, s = live[w]
               PROVE  /\ \A i \in DOMAIN up[w][s] :
                           i \in DOMAIN up'[w][s] /\ up'[w][s][i] = up[w][s][i]
                      /\ \A i \in DOMAIN up'[w][s] :
                           \/ i \in DOMAIN up[w][s] /\ up'[w][s][i] = up[w][s][i]
                           \/ up'[w][s][i] \in ToSet(ms)
    OBVIOUS
  <2>1. up[w][s] \in Seq(Msgs) /\ up'[w][s] = up[w][s] \o ms
    BY <1>1, <1>3
  <2> QED  BY <2>1, ConcatPlaces
<1> QED  BY <1>2, <1>3, <1>4

\* A handler or a continuation.
LEMMA WorkerSays ==
    ASSUME FullInv, NEW w \in Workers, Remote(W!Handle(w)) \/ Remote(W!Continue(w))
    PROVE  /\ UNCHANGED <<schedVars, alive, opened, live>>
           /\ \E ms \in Seq(Msgs) : W!Reply(w, ms) /\ \A m \in ToSet(ms) : Says(w, m)
<1>0. /\ inst \in [Workers -> [Experts -> [Instances -> InstType]]]
      /\ entry \in [Workers -> [Experts -> 0..MaxInst]]
  BY DEF FullInv, ClusterInv, WorkerInv, RunInv
<1>1. UNCHANGED <<schedVars, alive, opened, live>>
  BY DEF Remote, W!Handle, W!OnJob, W!OnNoJob, W!OnStop, W!OnRestart, W!Took, W!Continue,
         W!StartDone, W!StartFails, W!Disposed, W!Ask
<1> DEFINE Goal == \E ms \in Seq(Msgs) : W!Reply(w, ms) /\ \A m \in ToSet(ms) : Says(w, m)
<1>2. CASE UNCHANGED up
  <2>1. W!Reply(w, <<>>) /\ <<>> \in Seq(Msgs) /\ ToSet(<<>>) = {}
    BY <1>2, SilentReply, EmptySeq DEF ToSet
  <2> QED  BY <1>1, <2>1
<1>3. CASE W!Reply(w, <<S!NeedJobMsg>>)
  <2>1. <<S!NeedJobMsg>> \in Seq(Msgs) /\ ToSet(<<S!NeedJobMsg>>) = {S!NeedJobMsg}
    BY DEF ToSet, Msgs, S!UpMsgs
  <2> QED  BY <1>1, <1>3, <2>1 DEF Says
<1>4. CASE Remote(W!Handle(w))
  <2> DEFINE m == W!Next1(w)
             e == m.expert
             ms == <<[type |-> "started", expert |-> e], [type |-> "need_job"]>>
  <2>1. \/ UNCHANGED up
        \/ /\ m.type = "job" /\ entry[w][e] # 0 /\ UNCHANGED entry
           /\ W!Reply(w, ms) /\ down[w] # <<>>
    BY <1>4 DEF Remote, W!Handle, W!OnJob, W!OnNoJob, W!OnStop, W!OnRestart, W!Took, W!MustStart
  <2>2. CASE m.type = "job" /\ entry[w][e] # 0 /\ UNCHANGED entry
             /\ W!Reply(w, ms) /\ down[w] # <<>>
    <3>1. down[w] \in Seq(P!DownMsgs)
      BY DEF FullInv, ClusterInv, P!LinkInv, P!TypeInv, P!TypeOK
    <3>2. m \in ToSet(down[w]) /\ m \in P!DownMsgs
      BY <2>2, <3>1 DEF W!Next1, ToSet
    <3>3. e \in Experts
      BY <2>2, <3>2 DEF P!DownMsgs, P!NoJobMsg
    <3>4. About(m, e)
      BY <2>2 DEF About
    <3> HIDE DEF e, m
    <3>5. ms \in Seq(Msgs) /\ ToSet(ms) = {S!StartedMsg(e), S!NeedJobMsg}
      <4>1. ms \in Seq(Msgs)
        BY <3>3, MessageType
      <4> QED  BY <4>1 DEF ToSet, S!StartedMsg, S!NeedJobMsg
    <3>6. Says(w, S!StartedMsg(e)) /\ Says(w, S!NeedJobMsg)
      BY <2>2, <3>2, <3>3, <3>4 DEF Says, Engaged
    <3> HIDE DEF ms
    <3> QED  BY <1>1, <2>2, <3>5, <3>6
  <2> QED  BY <1>2, <2>1, <2>2
<1>5. ASSUME NEW e \in Experts, NEW i \in W!Instances, W!StartDone(w, e, i) PROVE Goal
  <2> DEFINE ms == <<[type |-> "started", expert |-> e]>>
  <2>1. /\ W!Reply(w, ms) /\ inst[w][e][i].phase = "starting"
        /\ entry' = [entry EXCEPT ![w][e] = i]
    BY <1>5 DEF W!StartDone
  <2>2. ms \in Seq(Msgs) /\ ToSet(ms) = {S!StartedMsg(e)}
    <3>1. ms \in Seq(Msgs)
      BY MessageType
    <3> QED  BY <3>1 DEF ToSet, S!StartedMsg
  <2>3. i \in Instances /\ i # 0
    BY DEF Instances, W!Instances
  <2>4. entry'[w][e] # 0
    BY <1>0, <2>1, <2>3
  <2> HIDE DEF ms
  <2> QED  BY <2>1, <2>2, <2>3, <2>4 DEF Says, Engaged
<1>6. ASSUME NEW e \in Experts, NEW i \in W!Instances, W!Disposed(w, e, i) PROVE Goal
  <2> DEFINE ms == [k \in 1..inst[w][e][i].stops |-> [type |-> "stopped", expert |-> e]]
  <2>1. W!Reply(w, ms) /\ inst[w][e][i].phase = "closing" /\ i \in Instances
    BY <1>6 DEF W!Disposed, Instances
  <2>2. inst[w][e][i].stops \in Nat
    BY <1>0, <2>1 DEF InstType
  <2>3. ms \in Seq(Msgs) /\ \A m \in ToSet(ms) : m = S!StoppedMsg(e) /\ inst[w][e][i].stops # 0
    <3>1. ms \in Seq(Msgs)
      BY <2>2, MessageType
    <3> QED  BY <2>2, <3>1 DEF ToSet, S!StoppedMsg
  <2> HIDE DEF ms
  <2> QED  BY <2>1, <2>3 DEF Says, Engaged
<1>7. ASSUME NEW e \in Experts, NEW i \in W!Instances, W!StartFails(w, e, i) PROVE Goal
  BY <1>1, <1>2, <1>3, <1>7 DEF W!StartFails, S!NeedJobMsg
<1>8. CASE W!Ask(w)
  BY <1>1, <1>3, <1>8 DEF W!Ask, S!NeedJobMsg
<1> QED  BY <1>1, <1>4, <1>5, <1>6, <1>7, <1>8 DEF Remote, W!Continue

\* A handler or a continuation leaves a dead worker alone, and never begins a report.
LEMMA SaysKnown ==
    ASSUME FullInv, NEW w \in Workers, AskInv(w), KnownInv(w),
           Remote(W!Handle(w)) \/ Remote(W!Continue(w))
    PROVE  KnownInv(w)'
<1>1. UNCHANGED <<schedVars, alive, opened, live>>
  BY WorkerSays
<1>2. PICK ms \in Seq(Msgs) : W!Reply(w, ms) /\ \A m \in ToSet(ms) : Says(w, m)
  BY WorkerSays
<1>3. \A m \in ToSet(ms) : m # W!CloseMsg /\ m.type # "experts"
  BY <1>2 DEF Says, S!NeedJobMsg, S!StartedMsg, S!StoppedMsg, W!CloseMsg
<1>4. /\ live[w] = 0 => up' = up
      /\ \A s \in Sockets : s # live[w] => up'[w][s] = up[w][s]
      /\ \A s \in Sockets : \A i \in DOMAIN up'[w][s] :
           \/ i \in DOMAIN up[w][s] /\ up'[w][s][i] = up[w][s][i]
           \/ s = live[w] /\ up'[w][s][i] \in ToSet(ms)
  BY <1>2, ReplyPlaces
<1>5. Gone(w) => Gone(w)'
  BY <1>1, <1>4 DEF Gone, S!Connected, schedVars
<1>6. Parted(w)'
  BY <1>1, <1>4 DEF KnownInv, Parted
<1>7. Dead(w)'
  <2> SUFFICES ASSUME ~alive[w] PROVE UNCHANGED inst
    BY <1>1 DEF KnownInv, Dead
  <2>1. /\ live[w] = 0 /\ down[w] = <<>>
        /\ \A e \in Experts, i \in Instances : inst[w][e][i].phase = "free"
    BY DEF KnownInv, Dead, W!Free, FullInv, ClusterInv, P!LinkInv, P!NothingOnNoSocket
  <2>2. ~W!Handle(w)
    BY <2>1 DEF W!Handle, W!OnJob, W!OnNoJob, W!OnStop, W!OnRestart, W!Took
  <2>3. W!Continue(w)
    BY <2>2 DEF Remote
  <2> QED
    BY <2>1, <2>3
    DEF W!Continue, W!StartDone, W!StartFails, W!Disposed, W!Ask, Instances
<1>8. CloseEnds(w)'
  <2> SUFFICES ASSUME NEW s \in Sockets, NEW i \in DOMAIN up'[w][s], up'[w][s][i] = W!CloseMsg
               PROVE  i = Len(up'[w][s])
    BY DEF CloseEnds
  <2>1. i \in DOMAIN up[w][s] /\ up[w][s][i] = W!CloseMsg
    BY <1>3, <1>4
  <2>2. s # live[w]
    <3>1. s # 0
      BY DEF Sockets
    <3>2. W!CloseMsg \in ToSet(up[w][s])
      BY <2>1 DEF ToSet
    <3> QED  BY <3>1, <3>2 DEF AskInv, Attached, CloseIsLast
  <2> QED  BY <1>4, <2>1, <2>2 DEF KnownInv, CloseEnds
<1>9. ReportIsFirst(w)'
  BY <1>1, <1>3, <1>4 DEF KnownInv, ReportIsFirst, S!Connected, schedVars
<1>10. GivenUpGone(w)' /\ NewOwnsNothing(w)' /\ P!Recoverable(w)'
  BY <1>1, <1>5
  DEF KnownInv, GivenUpGone, NewOwnsNothing, P!Recoverable, P!StartedAt, P!Kept, P!Requeues,
      P!Connected, S!Connected, schedVars
<1> QED  BY <1>6, <1>7, <1>8, <1>9, <1>10 DEF KnownInv

\* A worker that opens a socket has nothing under way, no record, and no expert.
LEMMA OpensNew ==
    ASSUME FullInv, NEW w \in Workers, AskInv(w), KnownInv(w), W!Open(w)
    PROVE  /\ ~S!Connected(w)
           /\ \A r \in Sockets : up[w][r] = <<>>
           /\ \A e \in Experts : st[e].owner # w
<1>1. alive[w] /\ live[w] = 0
  BY DEF W!Open
<1>2. \A r \in Sockets : up[w][r] = <<>>
  BY <1>1 DEF KnownInv, Parted
<1>3. ~S!Connected(w)
  <2>1. CASE opened[w] = 0
    BY <2>1 DEF AskInv, Attached, RecordIsOfSocket, S!Connected
  <2>2. CASE opened[w] # 0
    <3>1. opened[w] \in Sockets
      BY <2>2, ClusterAssumption DEF FullInv, RunInv, Sockets, S!SchedulerAssumption
    <3> QED  BY <1>1, <1>2, <3>1 DEF AskInv, Attached, RecordIsOfSocket
  <2> QED  BY <2>1, <2>2
<1> QED  BY <1>1, <1>2, <1>3 DEF KnownInv, NewOwnsNothing, Gone

\* Where sockets do not break, a worker opens one when nothing of it is under way, and
\* loses it by dying.
LEMMA LinkKnown ==
    ASSUME FullInv, Breakable = {}, NEW w \in Workers, AskInv(w), KnownInv(w),
           Remote(W!Link(w) \/ W!Crash(w))
    PROVE  KnownInv(w)'
<1>0. /\ live \in [Workers -> Nat] /\ alive \in [Workers -> BOOLEAN]
      /\ up \in [Workers -> [Sockets -> Seq(Msgs)]]
      /\ inst \in [Workers -> [Experts -> [Instances -> InstType]]]
  BY DEF FullInv, ClusterInv, WorkerInv, RunInv, P!LinkInv, P!TypeInv, P!TypeOK
<1>1. UNCHANGED schedVars /\ (S!Connected(w)' <=> S!Connected(w))
  BY DEF Remote, S!Connected, schedVars
<1>2. W!Open(w) \/ W!Crash(w)
  BY DEF Remote, W!Link, W!Break
<1>3. alive[w]
  BY <1>2 DEF W!Open, W!Crash
<1>4. /\ reconn[w] = {} /\ ~(loop.at = "requeue" /\ loop.worker = w) /\ ~Gone(w)
      /\ ~S!Connected(w) => \A e \in Experts : st[e].owner # w
  BY <1>3 DEF KnownInv, GivenUpGone, NewOwnsNothing, Gone
<1>5. GivenUpGone(w)' /\ NewOwnsNothing(w)' /\ P!Recoverable(w)'
  BY <1>1, <1>4
  DEF KnownInv, GivenUpGone, NewOwnsNothing, P!Recoverable, P!StartedAt, P!Kept, P!Requeues,
      P!Connected, S!Connected, schedVars
<1>6. CASE W!Open(w)
  <2> DEFINE s == opened[w] + 1
             report == [type |-> "experts", experts |-> W!Running(w)]
             ms == <<report, S!NeedJobMsg>>
  <2>1. live[w] = 0 /\ alive' = alive /\ inst' = inst /\ live' = [live EXCEPT ![w] = s]
        /\ up' = [up EXCEPT ![w][s] = ms]
    BY <1>6 DEF W!Open, S!NeedJobMsg
  <2>2. s \in Nat /\ s # 0
    BY DEF FullInv, ClusterInv, WorkerInv
  <2>3. \A r \in Sockets : up[w][r] = <<>>
    BY <1>6, OpensNew
  <2>4. ~S!Connected(w)
    BY <1>6, OpensNew
  <2>5. /\ DOMAIN ms = 1..2 /\ Len(ms) = 2 /\ ms[1] = report /\ ms[2] = S!NeedJobMsg
        /\ report # W!CloseMsg /\ S!NeedJobMsg # W!CloseMsg /\ S!NeedJobMsg.type # "experts"
    BY DEF S!NeedJobMsg, W!CloseMsg
  <2> HIDE DEF s, ms, report
  <2>6. \A r \in Sockets : up'[w][r] = IF r = s THEN ms ELSE <<>>
    BY <1>0, <2>1, <2>3
  <2>7. \A r \in Sockets : \A i \in DOMAIN up'[w][r] :
          up'[w][r][i] # W!CloseMsg /\ (up'[w][r][i].type = "experts" => i = 1)
    <3>1. DOMAIN <<>> = {}
      OBVIOUS
    <3> QED  BY <2>5, <2>6, <3>1
  <2>8. live'[w] # 0
    BY <1>0, <2>1, <2>2
  <2>9. Parted(w)' /\ Dead(w)' /\ CloseEnds(w)' /\ ReportIsFirst(w)'
    BY <1>1, <1>3, <2>1, <2>4, <2>7, <2>8 DEF Parted, Dead, CloseEnds, ReportIsFirst
  <2> QED  BY <1>5, <2>9 DEF KnownInv
<1>7. CASE W!Crash(w)
  <2>1. /\ alive' = [alive EXCEPT ![w] = FALSE]
        /\ inst' = [inst EXCEPT ![w] = [e \in Experts |-> [i \in Instances |-> W!Free]]]
        /\ IF live[w] # 0 THEN W!Broken(w) ELSE UNCHANGED <<live, down, up>>
    BY <1>7 DEF W!Crash, Instances
  <2>2. ~alive'[w] /\ live'[w] = 0
    BY <1>0, <2>1 DEF W!Broken
  <2>3. Parted(w)' /\ Dead(w)'
    BY <1>0, <2>1, <2>2 DEF Parted, Dead
  <2>4. CloseEnds(w)' /\ ReportIsFirst(w)'
    <3>1. CASE live[w] = 0
      BY <1>1, <2>1, <3>1 DEF KnownInv, CloseEnds, ReportIsFirst
    <3>2. CASE live[w] # 0
      <4> DEFINE s == live[w]
                 old == up[w][s]
      <4>1. s \in Sockets /\ old \in Seq(Msgs) /\ W!CloseMsg \notin ToSet(old)
        BY <1>0, <3>2, LiveSocket DEF AskInv, Attached, CloseIsLast
      <4>2. PICK n \in 0..Len(old) :
              up' = [up EXCEPT ![w][s] = Append(SubSeq(old, 1, n), W!CloseMsg)]
        BY <2>1, <3>2 DEF W!Broken
      <4> DEFINE cut == SubSeq(old, 1, n)
                 new == Append(cut, W!CloseMsg)
      <4>3. \A r \in Sockets : up'[w][r] = IF r = s THEN new ELSE up[w][r]
        <5>1. up' = [up EXCEPT ![w][s] = new]
          BY <4>2
        <5> HIDE DEF s, new
        <5> QED  BY <1>0, <5>1
      <4>4. /\ Len(new) = n + 1 /\ n \in Nat /\ DOMAIN new = 1..(n + 1) /\ new[n + 1] = W!CloseMsg
            /\ \A i \in 1..n : new[i] = old[i] /\ i \in DOMAIN old
        <5>1. cut \in Seq(Msgs) /\ Len(cut) = n /\ \A i \in 1..n : cut[i] = old[i] /\ i \in DOMAIN old
          <6> HIDE DEF old
          <6> QED  BY <4>1, <4>2
        <5>2. W!CloseMsg \in Msgs
          BY DEF Msgs
        <5> HIDE DEF cut
        <5> QED  BY <5>1, <5>2, AppendProperties
      <4> HIDE DEF s, old, cut, new
      <4>5. \A i \in DOMAIN new : /\ new[i] = W!CloseMsg => i = Len(new)
                                  /\ new[i].type = "experts" => i = 1 /\ ~S!Connected(w)
        <5> SUFFICES ASSUME NEW i \in 1..(n + 1)
                     PROVE  /\ new[i] = W!CloseMsg => i = n + 1
                            /\ new[i].type = "experts" => i = 1 /\ ~S!Connected(w)
          BY <4>4
        <5>1. CASE i = n + 1
          BY <4>4, <5>1 DEF W!CloseMsg
        <5>2. CASE i # n + 1
          <6>1. new[i] = old[i] /\ i \in DOMAIN old
            BY <4>4, <5>2
          <6>2. old[i] # W!CloseMsg
            BY <4>1, <6>1 DEF ToSet
          <6> QED  BY <4>1, <6>1, <6>2 DEF KnownInv, ReportIsFirst, old
        <5> QED  BY <5>1, <5>2
      <4> QED  BY <1>1, <4>3, <4>5 DEF KnownInv, CloseEnds, ReportIsFirst
    <3> QED  BY <3>1, <3>2
  <2> QED  BY <1>5, <2>3, <2>4 DEF KnownInv
<1> QED  BY <1>2, <1>6, <1>7

\* Nothing that concerns w happens.
LEMMA OthersKnown ==
    ASSUME FullInv, NEW w \in Workers, KnownInv(w), UNCHANGED schedVars,
           live'[w] = live[w], down'[w] = down[w], alive'[w] = alive[w], up'[w] = up[w],
           inst'[w] = inst[w]
    PROVE  KnownInv(w)'
<1>1. P!Rests(w)
  BY DEF P!Rests, P!Ready, P!Timed, schedVars
<1>2. P!Spares(w)
  BY DEF P!Spares, P!Recoverable, P!StartedAt, P!Kept, P!Requeues, P!Reports, P!Connected, schedVars
<1> QED  BY <1>1, <1>2, RestsKnown

\* After a reboot of the scheduler no worker has a record, or owns an expert.
LEMMA RebootKnown ==
    ASSUME FullInv, Reboot, NEW w \in Workers, KnownInv(w)
    PROVE  KnownInv(w)'
<1>1. /\ live'[w] = 0 /\ UNCHANGED <<alive, inst>>
      /\ \A s \in Sockets : up'[w][s] = <<>>
  BY DEF Reboot, S!Reboot, workerVars
<1>2. Parted(w)' /\ Dead(w)' /\ CloseEnds(w)' /\ ReportIsFirst(w)'
  <2>1. DOMAIN <<>> = {}
    OBVIOUS
  <2> QED  BY <1>1, <2>1 DEF KnownInv, Parted, Dead, CloseEnds, ReportIsFirst
<1>3. /\ \A e \in Experts : st'[e].owner # w /\ st'[e].state # "started"
      /\ reconn'[w] = {} /\ loop'.at = "idle"
  <2>1. st' = S!BootStates /\ NoWorker # w
    BY ClusterAssumption DEF Reboot, S!Reboot, S!SchedulerAssumption
  <2>2. reconn'[w] = {} /\ loop'.at = "idle"
    BY DEF Reboot, S!Reboot, S!IdleLoop, S!Loop
  <2> QED  BY <2>1, <2>2 DEF S!BootStates, S!Queued, S!Untracked
<1> QED
  BY <1>2, <1>3 DEF KnownInv, GivenUpGone, NewOwnsNothing, P!Recoverable, P!StartedAt

\* Where sockets do not break, what is known of the workers stays true.
LEMMA KnownStep ==
    ASSUME FullInv, Asking, Known, Breakable = {}, [Next]_vars
    PROVE  Asking' /\ Known'
<1>1. OpensInTurn
  BY DEF OpensInTurn, Known, KnownInv, Parted, W!Open, W!Closing, Sockets
<1>2. Asking'
  BY <1>1, AskingStep
<1>3. ASSUME NEW w \in Workers PROVE KnownInv(w)'
  <2>0. AskInv(w) /\ KnownInv(w)
    BY DEF Asking, Known
  <2>1. CASE UNCHANGED vars
    BY <2>0, <2>1, OthersKnown DEF vars, workerVars
  <2>2. CASE BesidesReading(w)
    <3>1. P!Rests(w) /\ P!Spares(w) /\ UNCHANGED workerVars /\ up'[w] = up[w]
      BY <2>2, BesidesTakes
    <3> QED  BY <2>0, <3>1, RestsKnown DEF workerVars
  <2>3. ASSUME NEW s \in Sockets, TakeUp(w, s) PROVE KnownInv(w)'
    BY <2>0, <2>3, ReadingKnown
  <2>4. CASE Reboot
    BY <2>0, <2>4, RebootKnown
  <2>5. ASSUME NEW v \in Workers \ {w}, Remote(W!WorkerStep(v)) \/ Remote(W!Crash(v))
        PROVE  KnownInv(w)'
    BY <2>0, <2>5, OthersUntouched, OthersKnown
  <2>6. CASE Remote(W!WorkerStep(w)) \/ Remote(W!Crash(w))
    <3>1. \/ Remote(W!Handle(w)) \/ Remote(W!Continue(w))
          \/ Remote(W!Link(w) \/ W!Crash(w))
      BY <2>6 DEF Remote, W!WorkerStep
    <3> QED  BY <2>0, <3>1, SaysKnown, LinkKnown
  <2> QED  BY <2>1, <2>2, <2>3, <2>4, <2>5, <2>6 DEF Next, BesidesReading, Remote
<1> QED  BY <1>2, <1>3 DEF Known

\* At first every worker lives, and owns nothing.
LEMMA KnownInit == ASSUME Init PROVE Known
<1> SUFFICES ASSUME NEW w \in Workers PROVE KnownInv(w)
  BY DEF Known
<1>1. /\ alive[w] /\ reconn[w] = {} /\ loop.at = "idle"
      /\ \A s \in Sockets : up[w][s] = <<>>
  BY DEF Init, S!Init, W!Init, Sockets, S!IdleLoop, S!Loop
<1>2. \A e \in Experts : st[e].owner # w /\ st[e].state # "started"
  <2>1. st = S!BootStates /\ NoWorker # w
    BY ClusterAssumption DEF Init, S!Init, S!SchedulerAssumption
  <2> QED  BY <2>1 DEF S!BootStates, S!Queued, S!Untracked
<1>3. DOMAIN <<>> = {}
  OBVIOUS
<1> QED
  BY <1>1, <1>2, <1>3 DEF KnownInv, Parted, Dead, CloseEnds, ReportIsFirst, GivenUpGone,
     NewOwnsNothing, P!Recoverable, P!StartedAt

\* What is known of a reachable state where sockets do not break and no row is deleted.
BaseInv == FullInv /\ P!OwnedWhenActive /\ Asking /\ Known

\* It is true of a cluster that has just started.
LEMMA BaseInit == ASSUME Init PROVE BaseInv
<1>1. P!Present
  BY SameInit, SameAssumption, P!PresentInit DEF Init
<1>2. P!OwnedWhenActive
  <2>1. st = S!BootStates
    BY DEF Init, S!Init
  <2> QED  BY <2>1 DEF P!OwnedWhenActive, S!BootStates, S!Queued, S!Untracked
<1> QED  BY <1>1, <1>2, InitMaps, RunInit, AskingInit, KnownInit DEF BaseInv, FullInv

\* And it stays true.
LEMMA BaseStep ==
    ASSUME BaseInv, Breakable = {}, P!RowsStay, [Next]_vars
    PROVE  BaseInv'
<1>1. [S!Next]_S!vars
  BY StepMaps DEF BaseInv, FullInv
<1>2. [P!Next]_P!vars
  BY <1>1, SameSteps DEF S!vars, P!vars
<1>3. P!OwnedWhenActive'
  BY <1>2, SameAssumption, P!OwnedStep DEF BaseInv, FullInv, ClusterInv, P!LinkInv
<1> QED  BY <1>3, FullStep, KnownStep DEF BaseInv

\* Where sockets do not break and no row is deleted, the scheduler always knows where to find
\* a started expert: in the record of its owner or, once that is dropped, in the reconnection
\* timer, whatever dies, restarts or is edited.
THEOREM StartedExpertsAreRecoverable ==
    ASSUME Breakable = {}, "absent" \notin Edits
    PROVE  Spec => []StartedIsRecoverable
<1>0. P!RowsStay
  BY DEF P!RowsStay
<1>1. Init => BaseInv
  BY BaseInit
<1>2. BaseInv /\ [Next]_vars => BaseInv'
  BY <1>0, BaseStep
<1>3. BaseInv => StartedIsRecoverable
  <2> SUFFICES ASSUME BaseInv, NEW e \in Experts, S!Idle, st[e].state = "started"
               PROVE  e \in workers[st[e].owner].active \cup reconn[st[e].owner]
    BY DEF StartedIsRecoverable
  <2> DEFINE w == st[e].owner
  <2>1. w \in Workers /\ P!StartedAt(w, e)
    <3>1. /\ st \in [Experts -> P!ExpertStates] /\ P!OwnedWhenActive
      BY DEF BaseInv, FullInv, ClusterInv, P!LinkInv, P!TypeInv, P!TypeOK
    <3> QED  BY <3>1 DEF P!OwnedWhenActive, P!ExpertStates, P!StartedAt
  <2>2. P!Kept(w, e)
    BY <2>1 DEF BaseInv, Known, KnownInv, P!Recoverable
  <2> QED  BY <2>2 DEF P!Kept, P!Requeues, S!Idle
<1> QED  BY <1>1, <1>2, <1>3, PTL DEF Spec

-----------------------------------------------------------------------------
(* What the instances of a worker go through.                               *)

\* The message a handler takes.
LEMMA NextMessage ==
    ASSUME FullInv, NEW w \in Workers, down[w] # <<>>
    PROVE  /\ W!Next1(w) \in ToSet(down[w]) /\ W!Next1(w) \in P!DownMsgs
           /\ W!Next1(w).type \in {"job", "restart", "stop"} => W!Next1(w).expert \in Experts
           /\ W!Next1(w).type = "job" => W!Next1(w) = S!JobMsg(W!Next1(w).expert)
           /\ W!Next1(w).type = "restart" => W!Next1(w) = S!RestartMsg(W!Next1(w).expert)
           /\ W!Next1(w).type = "stop" => W!Next1(w) = S!StopMsg(W!Next1(w).expert)
<1> DEFINE m == W!Next1(w)
<1>1. down[w] \in Seq(P!DownMsgs)
  BY DEF FullInv, ClusterInv, P!LinkInv, P!TypeInv, P!TypeOK
<1>2. m \in ToSet(down[w]) /\ m \in P!DownMsgs
  BY <1>1 DEF W!Next1, ToSet
<1> HIDE DEF m
<1>3. m.type \in {"job", "restart", "stop"} =>
        m.expert \in Experts /\ m = [type |-> m.type, expert |-> m.expert]
  BY <1>2 DEF P!DownMsgs, P!NoJobMsg
<1> QED  BY <1>2, <1>3 DEF m, S!JobMsg, S!RestartMsg, S!StopMsg

\* A free instance is begun, for a message.
Begins(w, e, i) ==
    /\ inst[w][e][i] = W!Free
    /\ \/ inst'[w][e][i] = W!StartingBy("job") /\ S!JobMsg(e) \in ToSet(down[w])
       \/ inst'[w][e][i] = W!StartingBy("restart") /\ S!RestartMsg(e) \in ToSet(down[w])

\* The instance in the map is to be closed, once more.
Closes(w, e, i) ==
    /\ i = entry[w][e] /\ inst[w][e][i].phase \in {"up", "closing"}
    /\ inst'[w][e][i].phase = "closing"
    /\ \/ inst'[w][e][i].stops # 0 /\ S!StopMsg(e) \in ToSet(down[w])
       \/ /\ inst'[w][e][i].restarts # 0 /\ inst'[w][e][i].stops = inst[w][e][i].stops
          /\ S!RestartMsg(e) \in ToSet(down[w])

\* A start comes to its end.
Starts(w, e, i) ==
    /\ inst[w][e][i].phase = "starting"
    /\ \/ inst'[w][e][i] = [W!Free EXCEPT !.phase = "up"] /\ entry'[w][e] = i
       \/ inst'[w][e][i] = W!Free /\ e \in CanFail

\* An instance of e is disposed of, and others are begun in its place.
Replaces(w, e, i) ==
    \E k \in Instances :
        /\ inst[w][e][k].phase = "closing"
        /\ i = k \/ inst[w][e][i] = W!Free
        /\ inst'[w][e][i] \in {W!Free, W!StartingBy("restart")}

\* A handler begins an instance, or closes one.
LEMMA HandleMoves ==
    ASSUME FullInv, NEW w \in Workers, W!Handle(w), NEW e \in Experts, NEW i \in Instances
    PROVE  inst'[w][e][i] = inst[w][e][i] \/ Begins(w, e, i) \/ Closes(w, e, i)
<1> DEFINE m == W!Next1(w)
           x == m.expert
           Goal == inst'[w][e][i] = inst[w][e][i] \/ Begins(w, e, i) \/ Closes(w, e, i)
<1>0. inst \in [Workers -> [Experts -> [Instances -> InstType]]]
  BY DEF FullInv, ClusterInv, WorkerInv
<1>1. down[w] # <<>> /\ m.type \in {"job", "no_job", "stop", "restart"}
  BY DEF W!Handle, W!OnJob, W!OnNoJob, W!OnStop, W!OnRestart, W!Took
<1>2. /\ m \in ToSet(down[w])
      /\ m.type \in {"job", "restart", "stop"} => x \in Experts
      /\ m.type = "job" => m = S!JobMsg(x)
      /\ m.type = "restart" => m = S!RestartMsg(x)
      /\ m.type = "stop" => m = S!StopMsg(x)
  BY <1>1, NextMessage
<1>3. \/ UNCHANGED inst
      \/ m.type = "job" /\ \E k \in W!FreeOf(w, x) : W!Begin(w, x, k, "job")
      \/ m.type = "restart" /\ \E k \in W!FreeOf(w, x) : W!Begin(w, x, k, "restart")
      \/ m.type = "stop" /\ entry[w][x] # 0 /\ W!Close(w, x, "stops")
      \/ m.type = "restart" /\ entry[w][x] # 0 /\ W!Close(w, x, "restarts")
  BY DEF W!Handle, W!OnJob, W!OnNoJob, W!OnStop, W!OnRestart, W!Took
<1> HIDE DEF m, x
<1>4. ASSUME NEW k \in W!FreeOf(w, x), NEW h \in {"job", "restart"}, W!Begin(w, x, k, h),
             m.type = h
      PROVE  Goal
  <2>1. inst' = [inst EXCEPT ![w][x][k] = W!StartingBy(h)] /\ inst[w][x][k] = W!Free
    BY <1>4 DEF W!Begin, W!FreeOf
  <2>2. inst'[w][e][i] = IF e = x /\ i = k THEN W!StartingBy(h) ELSE inst[w][e][i]
    BY <1>0, <2>1
  <2> QED  BY <1>2, <1>4, <2>1, <2>2 DEF Begins
<1>5. ASSUME NEW f \in {"stops", "restarts"}, W!Close(w, x, f), entry[w][x] # 0, x \in Experts,
             f = "stops" => m.type = "stop", f = "restarts" => m.type = "restart"
      PROVE  Goal
  <2> DEFINE k == entry[w][x]
             me == inst[w][x][k]
             r == [me EXCEPT !.phase = "closing", ![f] = me[f] + 1]
  <2>1. k \in Instances /\ me \in InstType /\ me.phase \in {"up", "closing"}
    <3>1. k \in 0..MaxInst /\ k # 0 /\ MaxInst \in Nat
      BY <1>5, ClusterAssumption DEF FullInv, RunInv
    <3>2. k \in Instances
      <4> HIDE DEF k
      <4> QED  BY <3>1 DEF Instances, W!Instances
    <3>3. me.phase \in {"up", "closing"}
      BY <1>5 DEF FullInv, RunInv, EntryRuns
    <3> QED  BY <1>0, <1>5, <3>2, <3>3
  <2>2. inst' = [inst EXCEPT ![w][x][k] = r]
    BY <1>5 DEF W!Close
  <2>3. /\ r.phase = "closing"
        /\ f = "stops" => r.stops # 0
        /\ f = "restarts" => r.restarts # 0 /\ r.stops = me.stops
    <3> HIDE DEF me
    <3>1. me.stops + 1 # 0 /\ me.restarts + 1 # 0
      BY <2>1 DEF InstType
    <3> QED  BY <2>1, <3>1 DEF InstType
  <2> HIDE DEF r, k
  <2>4. inst'[w][e][i] = IF e = x /\ i = k THEN r ELSE inst[w][e][i]
    BY <1>0, <2>2
  <2>5. \/ S!StopMsg(x) \in ToSet(down[w]) /\ r.stops # 0
        \/ S!RestartMsg(x) \in ToSet(down[w]) /\ r.restarts # 0 /\ r.stops = me.stops
    BY <1>2, <1>5, <2>3
  <2>6. CASE e = x /\ i = k
    <3>1. inst'[w][e][i] = r
      BY <2>4, <2>6
    <3> QED  BY <2>1, <2>3, <2>5, <2>6, <3>1 DEF Closes, k
  <2> QED  BY <2>4, <2>6
<1> QED  BY <1>2, <1>3, <1>4, <1>5

\* A continuation ends a start, or replaces an instance that was to be closed.
LEMMA ContinueMoves ==
    ASSUME FullInv, NEW w \in Workers, W!Continue(w), NEW e \in Experts, NEW i \in Instances
    PROVE  inst'[w][e][i] = inst[w][e][i] \/ Starts(w, e, i) \/ Replaces(w, e, i)
<1> DEFINE Goal == inst'[w][e][i] = inst[w][e][i] \/ Starts(w, e, i) \/ Replaces(w, e, i)
<1>0. /\ inst \in [Workers -> [Experts -> [Instances -> InstType]]]
      /\ entry \in [Workers -> [Experts -> 0..MaxInst]]
      /\ W!Instances = Instances
  BY DEF FullInv, ClusterInv, WorkerInv, RunInv, Instances
<1>1. ASSUME NEW x \in Experts, NEW k \in Instances, W!StartDone(w, x, k) PROVE Goal
  <2>1. /\ inst' = [inst EXCEPT ![w][x][k] = [W!Free EXCEPT !.phase = "up"]]
        /\ entry' = [entry EXCEPT ![w][x] = k] /\ inst[w][x][k].phase = "starting"
    BY <1>1 DEF W!StartDone
  <2>2. inst'[w][e][i] = IF e = x /\ i = k THEN [W!Free EXCEPT !.phase = "up"] ELSE inst[w][e][i]
    BY <1>0, <2>1
  <2>3. entry'[w][x] = k
    BY <1>0, <2>1
  <2> QED  BY <2>1, <2>2, <2>3 DEF Starts
<1>2. ASSUME NEW x \in Experts, NEW k \in Instances, W!StartFails(w, x, k) PROVE Goal
  <2>1. /\ inst' = [inst EXCEPT ![w][x][k] = W!Free] /\ x \in CanFail
        /\ inst[w][x][k].phase = "starting"
    BY <1>2 DEF W!StartFails
  <2>2. inst'[w][e][i] = IF e = x /\ i = k THEN W!Free ELSE inst[w][e][i]
    BY <1>0, <2>1
  <2> QED  BY <2>1, <2>2 DEF Starts
<1>3. ASSUME NEW x \in Experts, NEW k \in Instances, W!Disposed(w, x, k) PROVE Goal
  <2>1. PICK R \in SUBSET (W!FreeOf(w, x) \cup {k}) :
          inst' = [inst EXCEPT ![w][x] = [j \in Instances |->
                     IF j \in R THEN W!StartingBy("restart")
                     ELSE IF j = k THEN W!Free ELSE @[j]]]
    BY <1>0, <1>3 DEF W!Disposed
  <2>2. inst[w][x][k].phase = "closing"
    BY <1>3 DEF W!Disposed
  <2>3. inst'[w][e][i] = IF e # x THEN inst[w][e][i]
                         ELSE IF i \in R THEN W!StartingBy("restart")
                         ELSE IF i = k THEN W!Free ELSE inst[w][e][i]
    BY <1>0, <2>1
  <2>4. i \in R => i = k \/ inst[w][x][i] = W!Free
    BY <2>1 DEF W!FreeOf
  <2> QED  BY <2>2, <2>3, <2>4 DEF Replaces
<1>4. CASE W!Ask(w)
  BY <1>4 DEF W!Ask
<1> QED  BY <1>0, <1>1, <1>2, <1>3, <1>4 DEF W!Continue

-----------------------------------------------------------------------------
(* What a worker says is true: an expert it has reported started runs,      *)
(* unless it says later that the expert is stopped.                         *)

\* Worker w has e in runningExperts or, where no start fails, on its way there.
Runs(w, e) ==
    \/ entry[w][e] # 0
    \/ CanFail = {} /\ \E i \in Instances : inst[w][e][i].phase = "starting"

Claims(m, e) == m = S!StartedMsg(e) \/ (m.type = "experts" /\ e \in m.experts)

\* Behind place i of its socket, the worker says that e is stopped.
Denied(w, e, i) ==
    \E j \in DOMAIN up[w][live[w]] : j > i /\ up[w][live[w]][j] = S!StoppedMsg(e)

ClaimsHold(w, e) ==
    live[w] # 0 =>
        /\ P!StartedAt(w, e) \/ P!Reports(w, e) => Runs(w, e) \/ Denied(w, e, 0)
        /\ \A i \in DOMAIN up[w][live[w]] :
             Claims(up[w][live[w]][i], e) => Runs(w, e) \/ Denied(w, e, i)

\* Whoever waits for an instance to be disposed of says so afterwards, or begins another.
ClosingAnswers(w) ==
    \A e \in Experts, i \in Instances :
        inst[w][e][i].phase = "closing" =>
            inst[w][e][i].stops # 0 \/ (inst[w][e][i].restarts # 0 /\ Edits # {})

TrueInv(w) == ClosingAnswers(w) /\ \A e \in Experts : ClaimsHold(w, e)

\* The premise of the truth: a restart, which the scheduler is not told about, succeeds.
RestartsWork == Edits = {} \/ CanFail = {}

\* Nothing is closed for nobody.
LEMMA ClosingStep ==
    ASSUME FullInv, Edits = {} => P!NoRestarts, NEW w \in Workers, ClosingAnswers(w),
           Remote(W!WorkerStep(w)) \/ Remote(W!Crash(w))
    PROVE  ClosingAnswers(w)'
<1> SUFFICES ASSUME NEW e \in Experts, NEW i \in Instances, inst'[w][e][i].phase = "closing"
             PROVE  inst'[w][e][i].stops # 0 \/ (inst'[w][e][i].restarts # 0 /\ Edits # {})
  BY DEF ClosingAnswers
<1>0. inst \in [Workers -> [Experts -> [Instances -> InstType]]]
  BY DEF FullInv, ClusterInv, WorkerInv
<1>1. CASE inst'[w][e][i] = inst[w][e][i]
  BY <1>1 DEF ClosingAnswers
<1>2. CASE W!Handle(w)
  <2>1. ~Begins(w, e, i)
    BY DEF Begins, W!StartingBy, W!Free
  <2>2. CASE Closes(w, e, i)
    <3>1. S!RestartMsg(e) \in ToSet(down[w]) => Edits # {}
      BY DEF P!NoRestarts, S!RestartMsg, P!ToSet, ToSet
    <3> QED  BY <2>2, <3>1 DEF Closes
  <2> QED  BY <1>1, <1>2, <2>1, <2>2, HandleMoves
<1>3. CASE W!Continue(w)
  <2>1. /\ [W!Free EXCEPT !.phase = "up"].phase # "closing" /\ W!Free.phase # "closing"
        /\ W!StartingBy("restart").phase # "closing"
    BY DEF W!StartingBy, W!Free
  <2>2. ~Starts(w, e, i) /\ ~Replaces(w, e, i)
    BY <2>1 DEF Starts, Replaces
  <2> QED  BY <1>1, <1>3, <2>2, ContinueMoves
<1>4. CASE W!Link(w)
  BY <1>1, <1>4 DEF W!Link, W!Open, W!Break
<1>5. CASE W!Crash(w)
  <2>1. inst' = [inst EXCEPT ![w] = [x \in Experts |-> [k \in Instances |-> W!Free]]]
    BY <1>5 DEF W!Crash, Instances
  <2>2. inst'[w][e][i] = W!Free
    BY <1>0, <2>1
  <2> QED  BY <2>2 DEF W!Free
<1> QED  BY <1>2, <1>3, <1>4, <1>5 DEF Remote, W!WorkerStep

\* An expert that runs goes on running, unless its worker says that it is stopped.
LEMMA RunsStep ==
    ASSUME FullInv, RestartsWork, NEW w \in Workers, NEW e \in Experts, ClosingAnswers(w),
           Remote(W!Handle(w)) \/ Remote(W!Continue(w)), Runs(w, e)
    PROVE  \/ Runs(w, e)'
           \/ \E n \in Nat \ {0} : W!Reply(w, [k \in 1..n |-> S!StoppedMsg(e)])
<1> DEFINE Goal == \/ Runs(w, e)'
                   \/ \E n \in Nat \ {0} : W!Reply(w, [k \in 1..n |-> S!StoppedMsg(e)])
<1>0. /\ inst \in [Workers -> [Experts -> [Instances -> InstType]]]
      /\ entry \in [Workers -> [Experts -> 0..MaxInst]]
      /\ W!Instances = Instances /\ 0 \notin Instances
  BY DEF FullInv, ClusterInv, WorkerInv, RunInv, Instances, W!Instances
<1>1. ASSUME CanFail = {}, NEW i \in Instances, inst[w][e][i].phase = "starting" PROVE Goal
  <2>1. CASE inst'[w][e][i] = inst[w][e][i]
    BY <1>1, <2>1 DEF Runs
  <2>2. ~Begins(w, e, i) /\ ~Closes(w, e, i) /\ ~Replaces(w, e, i)
    BY <1>1 DEF Begins, Closes, Replaces, W!Free
  <2>3. CASE Starts(w, e, i)
    BY <1>0, <1>1, <2>3 DEF Starts, Runs
  <2> QED  BY <2>1, <2>2, <2>3, HandleMoves, ContinueMoves DEF Remote
<1>2. CASE entry[w][e] # 0 /\ entry'[w][e] = entry[w][e]
  BY <1>2 DEF Runs
<1>3. ASSUME NEW x \in Experts, NEW k \in Instances, W!StartDone(w, x, k), entry[w][e] # 0
      PROVE  Goal
  <2>1. entry'[w][e] = IF e = x THEN k ELSE entry[w][e]
    BY <1>0, <1>3 DEF W!StartDone
  <2> QED  BY <1>0, <1>3, <2>1 DEF Runs
<1>4. ASSUME NEW x \in Experts, NEW k \in Instances, W!Disposed(w, x, k), entry[w][e] # 0
      PROVE  Goal
  <2>1. CASE x # e
    BY <1>0, <1>2, <1>4, <2>1 DEF W!Disposed, W!EntryDeleted
  <2>2. CASE x = e /\ inst[w][e][k].stops # 0
    <3> DEFINE n == inst[w][e][k].stops
    <3>1. n \in Nat \ {0}
      BY <1>0, <2>2 DEF InstType
    <3>2. W!Reply(w, [j \in 1..n |-> S!StoppedMsg(e)])
      BY <1>4, <2>2 DEF W!Disposed, S!StoppedMsg
    <3> HIDE DEF n
    <3> QED  BY <3>1, <3>2
  <2>3. CASE x = e /\ inst[w][e][k].stops = 0
    <3>1. inst[w][e][k].restarts # 0 /\ CanFail = {}
      BY <1>4, <2>3 DEF W!Disposed, ClosingAnswers, RestartsWork
    <3>2. PICK R \in SUBSET (W!FreeOf(w, e) \cup {k}) :
            /\ W!Cardinality(R) = inst[w][e][k].restarts
            /\ inst' = [inst EXCEPT ![w][e] = [j \in W!Instances |->
                          IF j \in R THEN W!StartingBy("restart")
                          ELSE IF j = k THEN W!Free ELSE @[j]]]
      <4>1. W!Disposed(w, e, k)
        BY <1>4, <2>3
      <4> QED  BY <4>1 DEF W!Disposed
    <3>3. PICK r \in R : TRUE
      <4>1. W!Cardinality({}) = Cardinality({})
        BY DEF W!Cardinality, Cardinality
      <4> QED  BY <3>1, <3>2, <4>1, FS_EmptySet
    <3>4. r \in Instances
      BY <1>0, <3>2 DEF W!FreeOf
    <3>5. inst'[w][e][r] = W!StartingBy("restart")
      BY <1>0, <3>2, <3>4
    <3> QED  BY <3>1, <3>4, <3>5 DEF Runs, W!StartingBy, W!Free
  <2> QED  BY <2>1, <2>2, <2>3
<1>5. entry[w][e] # 0 => Goal
  <2>1. W!Handle(w) => UNCHANGED entry
    BY DEF W!Handle, W!OnJob, W!OnNoJob, W!OnStop, W!OnRestart
  <2>2. W!Ask(w) \/ (\E x \in Experts, k \in Instances : W!StartFails(w, x, k)) => UNCHANGED entry
    BY DEF W!Ask, W!StartFails, W!EntryAfterFailure
  <2> QED  BY <1>0, <1>2, <1>3, <1>4, <2>1, <2>2 DEF Remote, W!Continue
<1> QED  BY <1>1, <1>5 DEF Runs

\* What a handler or a continuation says is true, and what was said stays true.
LEMMA SaysTrue ==
    ASSUME FullInv, RestartsWork, NEW w \in Workers, ClosingAnswers(w),
           Remote(W!Handle(w)) \/ Remote(W!Continue(w)),
           NEW e \in Experts, ClaimsHold(w, e)
    PROVE  ClaimsHold(w, e)'
<1>1. UNCHANGED <<schedVars, live>>
  BY WorkerSays
<1> SUFFICES ASSUME live[w] # 0 PROVE ClaimsHold(w, e)'
  BY <1>1 DEF ClaimsHold
<1> DEFINE s == live[w]
           old == up[w][s]
           new == up'[w][s]
<1>2. s \in Sockets /\ old \in Seq(Msgs)
  BY LiveSocket DEF FullInv, ClusterInv, WorkerInv
<1>3. PICK ms \in Seq(Msgs) : W!Reply(w, ms) /\ \A m \in ToSet(ms) : Says(w, m)
  BY WorkerSays
<1>4. /\ \A i \in DOMAIN old : i \in DOMAIN new /\ new[i] = old[i]
      /\ \A i \in DOMAIN new : (i \in DOMAIN old /\ new[i] = old[i]) \/ new[i] \in ToSet(ms)
  BY <1>2, <1>3, ReplyPlaces
<1>5. ASSUME NEW n \in Nat \ {0}, W!Reply(w, [k \in 1..n |-> S!StoppedMsg(e)])
      PROVE  \E j \in DOMAIN new : /\ new[j] = S!StoppedMsg(e) /\ j \in Nat /\ j > 0
                                   /\ \A i \in DOMAIN old : j > i
  <2> DEFINE qs == [k \in 1..n |-> S!StoppedMsg(e)]
  <2>1. qs \in Seq(Msgs)
    BY MessageType DEF S!StoppedMsg
  <2>2. new = old \o qs
    <3>1. W!Reply(w, qs)
      BY <1>5
    <3> HIDE DEF qs
    <3>2. \A r \in Sockets : r = live[w] => up'[w][r] = up[w][r] \o qs
      BY <2>1, <3>1, ReplyPlaces, Zenon
    <3> QED  BY <1>2, <3>2
  <2>3. 1 \in DOMAIN qs /\ qs[1] = S!StoppedMsg(e)
    OBVIOUS
  <2> HIDE DEF qs, old, new, s
  <2>4. /\ Len(old) + 1 \in DOMAIN new /\ new[Len(old) + 1] = qs[1] /\ Len(old) \in Nat
        /\ DOMAIN old = 1..Len(old)
    BY <1>2, <2>1, <2>2, <2>3
  <2> QED  BY <2>3, <2>4
<1>6. ASSUME NEW i, i = 0 \/ i \in DOMAIN old, Runs(w, e) \/ Denied(w, e, i)
      PROVE  Runs(w, e)' \/ Denied(w, e, i)'
  <2>1. CASE Denied(w, e, i)
    BY <1>1, <1>4, <2>1 DEF Denied
  <2>2. CASE Runs(w, e)
    BY <1>1, <1>5, <1>6, <2>2, RunsStep DEF Denied
  <2> QED  BY <1>6, <2>1, <2>2
<1>7. P!StartedAt(w, e)' \/ P!Reports(w, e)' => Runs(w, e)' \/ Denied(w, e, 0)'
  BY <1>1, <1>6 DEF ClaimsHold, P!StartedAt, P!Reports, schedVars
<1>8. ASSUME NEW i \in DOMAIN new, Claims(new[i], e) PROVE Runs(w, e)' \/ Denied(w, e, i)'
  <2>1. CASE i \in DOMAIN old /\ new[i] = old[i]
    BY <1>6, <1>8, <2>1 DEF ClaimsHold
  <2>2. CASE new[i] \in ToSet(ms)
    <3>1. Says(w, new[i])
      BY <1>3, <2>2
    <3> HIDE DEF new
    <3>2. entry'[w][e] # 0
      BY <1>8, <3>1 DEF Says, Claims, S!StartedMsg, S!StoppedMsg, S!NeedJobMsg
    <3> QED  BY <3>2 DEF Runs
  <2> QED  BY <1>4, <2>1, <2>2
<1> QED  BY <1>1, <1>7, <1>8 DEF ClaimsHold

\* The scheduler is at work, on other things than the messages of w.
LEMMA RestsTrue ==
    ASSUME FullInv, NEW w \in Workers, P!Spares(w), live'[w] = live[w], up'[w] = up[w],
           inst'[w] = inst[w], entry'[w] = entry[w], TrueInv(w)
    PROVE  TrueInv(w)'
<1>1. ClosingAnswers(w)'
  BY DEF TrueInv, ClosingAnswers
<1>2. ASSUME NEW e \in Experts PROVE ClaimsHold(w, e)'
  BY DEF P!Spares, TrueInv, ClaimsHold, Denied, Runs
<1> QED  BY <1>1, <1>2 DEF TrueInv

\* The scheduler believes what it reads from w.
LEMMA ReadingTrue ==
    ASSUME FullInv, NEW w \in Workers, NEW s \in Sockets, AskInv(w), KnownInv(w), TakeUp(w, s),
           TrueInv(w)
    PROVE  TrueInv(w)'
<1> DEFINE ms == up[w][s]
           m == Head(ms)
           rest == Tail(ms)
<1>1. /\ ms \in Seq(Msgs) /\ ms # <<>> /\ up' = [up EXCEPT ![w][s] = Tail(ms)]
      /\ UNCHANGED workerVars
      /\ \/ m = W!CloseMsg /\ P!SocketClosed(w, s)
         \/ m \in P!UpMsgs /\ P!Receive(w, s, m)
      /\ up \in [Workers -> [Sockets -> Seq(Msgs)]]
  BY ReadingTakes DEF FullInv, ClusterInv, WorkerInv
<1>2. ClosingAnswers(w)'
  BY <1>1 DEF TrueInv, ClosingAnswers, workerVars
<1>3. live' = live
  BY <1>1 DEF P!SocketClosed, P!Receive, P!ReceiveExperts, P!ReceiveNeedJob,
         P!ReceiveStarted, P!ReceiveStopped, P!netVars
<1> SUFFICES ASSUME NEW e \in Experts, live[w] # 0 PROVE ClaimsHold(w, e)'
  BY <1>2, <1>3 DEF TrueInv, ClaimsHold
<1>4. s = live[w]
  BY <1>1, LiveSocket DEF AskInv, Attached, OneSocket
<1>5. /\ m = ms[1] /\ 1 \in DOMAIN ms /\ rest \in Seq(Msgs)
      /\ Len(ms) \in Nat /\ Len(rest) = Len(ms) - 1
      /\ DOMAIN ms = 1..Len(ms) /\ DOMAIN rest = 1..Len(rest)
      /\ \A i \in DOMAIN rest : rest[i] = ms[i + 1]
  <2> HIDE DEF ms, m, rest
  <2>1. DOMAIN ms = 1..Len(ms) /\ Len(ms) \in Nat /\ Len(ms) # 0
    BY <1>1, LenProperties, EmptySeq
  <2>2. m = ms[1] /\ rest \in Seq(Msgs) /\ Len(rest) = Len(ms) - 1
        /\ \A i \in 1..Len(rest) : rest[i] = ms[i + 1]
    BY <1>1, HeadTailElements DEF m, rest
  <2>3. DOMAIN rest = 1..Len(rest)
    BY <2>2, LenProperties
  <2> QED  BY <2>1, <2>2, <2>3
<1>6. m # W!CloseMsg
  BY <1>4, <1>5 DEF AskInv, Attached, CloseIsLast, ToSet
<1>7. up'[w][live'[w]] = rest
  BY <1>1, <1>3, <1>4
<1>8. /\ P!StartedAt(w, e)' => (P!StartedAt(w, e) /\ m # P!StoppedMsg(e)) \/ m = P!StartedMsg(e)
      /\ P!Reports(w, e)' => m.type = "experts" /\ e \in m.experts
  <2>1. reconn[w] = {}
    BY DEF KnownInv, GivenUpGone, Gone
  <2>2. m.type = "experts" => \A x \in Experts : st[x].owner # w
    <3>1. m.type = "experts" => ~S!Connected(w)
      BY <1>5 DEF KnownInv, ReportIsFirst
    <3> QED  BY <3>1 DEF KnownInv, NewOwnsNothing, Gone
  <2>3. P!LinkInv /\ P!Present /\ P!SchedulerAssumption /\ s \in P!Sockets
    BY SameAssumption, SameRanges DEF FullInv, ClusterInv
  <2> HIDE DEF m
  <2> QED  BY <1>1, <1>6, <2>1, <2>2, <2>3, P!ReceiveOwns
<1> HIDE DEF ms, m, rest
<1>9. Runs(w, e)' <=> Runs(w, e)
  BY <1>1 DEF Runs, workerVars
<1>10. ASSUME NEW i \in Nat, Denied(w, e, i + 1) PROVE Denied(w, e, i)'
  <2>1. PICK j \in DOMAIN ms : j > i + 1 /\ ms[j] = S!StoppedMsg(e)
    BY <1>4, <1>10 DEF Denied, ms
  <2>2. j \in Nat /\ j - 1 \in DOMAIN rest /\ j - 1 > i
    BY <1>5, <2>1
  <2>3. rest[j - 1] = S!StoppedMsg(e)
    BY <1>5, <2>1, <2>2
  <2> QED  BY <1>7, <2>2, <2>3 DEF Denied
<1>11. ASSUME Claims(m, e) PROVE Runs(w, e) \/ Denied(w, e, 1)
  BY <1>4, <1>5, <1>11 DEF TrueInv, ClaimsHold, ms
<1>12. P!StartedAt(w, e)' \/ P!Reports(w, e)' => Runs(w, e)' \/ Denied(w, e, 0)'
  <2>1. CASE Claims(m, e)
    BY <1>9, <1>10, <1>11, <2>1
  <2>2. CASE P!StartedAt(w, e) /\ m # P!StoppedMsg(e)
    <3>1. CASE Denied(w, e, 0)
      <4>1. PICK j \in DOMAIN ms : j > 0 /\ ms[j] = S!StoppedMsg(e)
        BY <1>4, <3>1 DEF Denied, ms
      <4>2. j > 1 /\ j \in Nat
        BY <1>5, <2>2, <4>1 DEF S!StoppedMsg, P!StoppedMsg
      <4>3. Denied(w, e, 0 + 1)
        BY <1>4, <4>1, <4>2 DEF Denied, ms
      <4> QED  BY <1>10, <4>3
    <3> QED  BY <1>4, <1>9, <2>2, <3>1 DEF TrueInv, ClaimsHold
  <2> QED  BY <1>8, <2>1, <2>2 DEF Claims, S!StartedMsg, P!StartedMsg
<1>13. ASSUME NEW i \in DOMAIN rest, Claims(rest[i], e) PROVE Runs(w, e)' \/ Denied(w, e, i)'
  <2>1. i \in Nat /\ i + 1 \in DOMAIN ms /\ rest[i] = ms[i + 1]
    BY <1>5
  <2>2. Runs(w, e) \/ Denied(w, e, i + 1)
    BY <1>4, <1>13, <2>1 DEF TrueInv, ClaimsHold, ms
  <2> QED  BY <1>9, <1>10, <2>1, <2>2
<1> QED  BY <1>7, <1>12, <1>13 DEF ClaimsHold

\* Where sockets do not break, a worker says first what it runs.
LEMMA LinkTrue ==
    ASSUME FullInv, Breakable = {}, NEW w \in Workers, AskInv(w), KnownInv(w),
           Remote(W!Link(w) \/ W!Crash(w)), NEW e \in Experts
    PROVE  ClaimsHold(w, e)'
<1>0. /\ live \in [Workers -> Nat] /\ up \in [Workers -> [Sockets -> Seq(Msgs)]]
      /\ opened \in [Workers -> 0..MaxConn] /\ MaxConn \in Nat
  BY ClusterAssumption DEF FullInv, ClusterInv, WorkerInv, RunInv, P!LinkInv, P!TypeInv, P!TypeOK,
     S!SchedulerAssumption
<1>1. UNCHANGED schedVars /\ S!Idle
  BY DEF Remote
<1>2. CASE W!Crash(w)
  BY <1>0, <1>2 DEF W!Crash, W!Broken, ClaimsHold
<1>3. CASE W!Open(w)
  <2> DEFINE s == opened[w] + 1
             report == [type |-> "experts", experts |-> W!Running(w)]
             ms == <<report, S!NeedJobMsg>>
  <2>1. /\ live' = [live EXCEPT ![w] = s] /\ up' = [up EXCEPT ![w][s] = ms]
        /\ UNCHANGED <<inst, entry>> /\ opened[w] < MaxConn
    BY <1>3 DEF W!Open, S!NeedJobMsg
  <2>2. s \in Sockets
    BY <1>0, <2>1 DEF Sockets
  <2>3. /\ DOMAIN ms = 1..2 /\ ms[1] = report /\ ms[2] = S!NeedJobMsg
        /\ ~Claims(S!NeedJobMsg, e)
        /\ Claims(report, e) => Runs(w, e)
    BY DEF Claims, S!NeedJobMsg, S!StartedMsg, W!Running, Runs
  <2> HIDE DEF s, ms, report
  <2>4. live'[w] = s /\ up'[w][s] = ms
    BY <1>0, <2>1, <2>2
  <2>5. Runs(w, e) => Runs(w, e)'
    BY <2>1 DEF Runs
  <2>6. ~P!StartedAt(w, e)' /\ ~P!Reports(w, e)'
    BY <1>1, <1>3, OpensNew DEF P!StartedAt, P!Reports, S!Idle, schedVars
  <2>7. \A i \in DOMAIN ms : Claims(ms[i], e) => Runs(w, e)'
    BY <2>3, <2>5
  <2> QED  BY <2>4, <2>6, <2>7 DEF ClaimsHold
<1> QED  BY <1>2, <1>3 DEF Remote, W!Link, W!Break

\* A worker without a socket says nothing.
LEMMA RebootTrue ==
    ASSUME FullInv, Reboot, NEW w \in Workers, TrueInv(w)
    PROVE  TrueInv(w)'
<1>1. live'[w] = 0 /\ UNCHANGED inst
  BY DEF Reboot, S!Reboot, workerVars
<1> QED  BY <1>1 DEF TrueInv, ClosingAnswers, ClaimsHold

Truth == (Edits = {} => P!NoRestarts) /\ \A w \in Workers : TrueInv(w)

\* At first no worker has a socket.
LEMMA TruthInit == ASSUME Init PROVE Truth
<1>1. P!NoRestarts
  BY DEF Init, S!Init, P!NoRestarts, P!ToSet
<1>2. ASSUME NEW w \in Workers PROVE TrueInv(w)
  <2>1. live[w] = 0 /\ \A e \in Experts, i \in Instances : inst[w][e][i] = W!Free
    BY DEF Init, S!Init, W!Init, Instances
  <2> QED  BY <2>1 DEF TrueInv, ClosingAnswers, ClaimsHold, W!Free
<1> QED  BY <1>1, <1>2 DEF Truth

\* What the workers have said stays true in every step.
LEMMA TruthStep ==
    ASSUME BaseInv, Truth, Breakable = {}, RestartsWork, [Next]_vars
    PROVE  Truth'
<1>0. FullInv
  BY DEF BaseInv
<1>1. Edits = {} => P!NoRestarts'
  <2>1. [S!Next]_S!vars
    BY <1>0, StepMaps DEF FullInv
  <2>2. [P!Next]_P!vars
    BY <2>1, SameSteps DEF S!vars, P!vars
  <2> QED  BY <2>2, SameAssumption, P!NoRestartsStep DEF Truth, BaseInv, FullInv, ClusterInv
<1>2. ASSUME NEW w \in Workers PROVE TrueInv(w)'
  <2>0. AskInv(w) /\ KnownInv(w) /\ TrueInv(w)
    BY DEF BaseInv, Asking, Known, Truth
  <2>1. ASSUME UNCHANGED schedVars, live'[w] = live[w], up'[w] = up[w], inst'[w] = inst[w],
               entry'[w] = entry[w]
        PROVE  TrueInv(w)'
    <3>1. P!Spares(w)
      BY <2>1 DEF P!Spares, P!Recoverable, P!StartedAt, P!Kept, P!Requeues, P!Reports, P!Connected,
                  schedVars
    <3> QED  BY <1>0, <2>0, <2>1, <3>1, RestsTrue
  <2>2. CASE UNCHANGED vars
    BY <2>1, <2>2 DEF vars, workerVars
  <2>3. CASE BesidesReading(w)
    <3>1. P!Rests(w) /\ P!Spares(w) /\ UNCHANGED workerVars /\ up'[w] = up[w]
      BY <1>0, <2>3, BesidesTakes
    <3> QED  BY <1>0, <2>0, <3>1, RestsTrue DEF workerVars, P!Rests
  <2>4. ASSUME NEW s \in Sockets, TakeUp(w, s) PROVE TrueInv(w)'
    BY <1>0, <2>0, <2>4, ReadingTrue
  <2>5. CASE Reboot
    BY <1>0, <2>0, <2>5, RebootTrue
  <2>6. ASSUME NEW v \in Workers \ {w}, Remote(W!WorkerStep(v)) \/ Remote(W!Crash(v))
        PROVE  TrueInv(w)'
    BY <1>0, <2>1, <2>6, OthersUntouched
  <2>7. CASE Remote(W!WorkerStep(w)) \/ Remote(W!Crash(w))
    <3>1. ClosingAnswers(w)'
      BY <1>0, <2>0, <2>7, ClosingStep DEF Truth, TrueInv
    <3>2. \/ Remote(W!Handle(w)) \/ Remote(W!Continue(w))
          \/ Remote(W!Link(w) \/ W!Crash(w))
      BY <2>7 DEF Remote, W!WorkerStep
    <3>3. \A e \in Experts : ClaimsHold(w, e)'
      BY <1>0, <2>0, <3>2, SaysTrue, LinkTrue DEF TrueInv
    <3> QED  BY <3>1, <3>3 DEF TrueInv
  <2> QED  BY <2>2, <2>3, <2>4, <2>5, <2>6, <2>7 DEF Next, BesidesReading, Remote
<1> QED  BY <1>1, <1>2 DEF Truth

\* Where sockets do not break, no row is deleted, and either no row is edited or no start
\* fails, an expert the scheduler holds for started runs on its owner once their messages are
\* exchanged.  (A restart whose start fails is never reported: the worker only logs it.)
THEOREM TrackedExpertsRun ==
    ASSUME Breakable = {}, "absent" \notin Edits, Edits = {} \/ CanFail = {}
    PROVE  Spec => []TrackedIsRunning
<1>0. P!RowsStay /\ RestartsWork
  BY DEF P!RowsStay, RestartsWork
<1>1. Init => BaseInv /\ Truth
  BY BaseInit, TruthInit
<1>2. BaseInv /\ Truth /\ [Next]_vars => BaseInv' /\ Truth'
  BY <1>0, BaseStep, TruthStep
<1>3. BaseInv /\ Truth => TrackedIsRunning
  <2> SUFFICES ASSUME BaseInv, Truth, NEW w \in Workers, NEW e \in Experts, Quiet(w, e),
                      st[e] = [state |-> "started", owner |-> w]
               PROVE  Up(w, e) # {}
    BY DEF TrackedIsRunning
  <2>1. /\ live[w] # 0 /\ \A s \in Sockets : up[w][s] = <<>>
        /\ \A i \in Instances : inst[w][e][i].phase \in {"free", "up"}
    BY DEF Quiet
  <2>2. ~Denied(w, e, 0)
    <3>1. live[w] \in Sockets
      BY <2>1, LiveSocket DEF BaseInv
    <3>2. DOMAIN <<>> = {}
      OBVIOUS
    <3> QED  BY <2>1, <3>1, <3>2 DEF Denied
  <2>3. Runs(w, e)
    BY <2>1, <2>2 DEF Truth, TrueInv, ClaimsHold, P!StartedAt
  <2>4. entry[w][e] # 0
    BY <2>1, <2>3 DEF Runs
  <2>5. entry[w][e] \in Instances
    <3>1. entry[w][e] \in 0..MaxInst /\ MaxInst \in Nat
      BY ClusterAssumption DEF BaseInv, FullInv, RunInv
    <3> QED  BY <2>4, <3>1 DEF Instances, W!Instances
  <2>6. inst[w][e][entry[w][e]].phase \in {"up", "closing"}
    BY <2>4 DEF BaseInv, FullInv, RunInv, EntryRuns
  <2> QED  BY <2>1, <2>5, <2>6 DEF Up
<1> QED  BY <1>1, <1>2, <1>3, PTL DEF Spec

-----------------------------------------------------------------------------
(* The queue.  Where, moreover, rows are only ever enabled, no worker is    *)
(* told to stop an expert, and one that is queued is nobody's, or that of a *)
(* worker that is gone.                                                     *)

\* A worker that is gone does not come back.
LEMMA GoneStays ==
    ASSUME BaseInv, NEW w \in Workers, Gone(w), [Next]_vars
    PROVE  Gone(w)'
<1>0. FullInv
  BY DEF BaseInv
<1>1. CASE UNCHANGED vars
  BY <1>1 DEF vars, schedVars, workerVars, Gone, S!Connected
<1>2. CASE BesidesReading(w)
  <2>1. P!Rests(w) /\ UNCHANGED workerVars /\ up'[w] = up[w]
    BY <1>0, <1>2, BesidesTakes
  <2> QED  BY <2>1 DEF P!Rests, workerVars, Gone, S!Connected
<1>3. \A s \in Sockets : ~TakeUp(w, s)
  BY DEF Gone, TakeUp
<1>4. CASE Reboot
  BY <1>4 DEF Reboot, S!Reboot, workerVars, Gone, S!Connected, S!NoConn
<1>5. ASSUME NEW v \in Workers \ {w}, Remote(W!WorkerStep(v)) \/ Remote(W!Crash(v))
      PROVE  Gone(w)'
  BY <1>0, <1>5, OthersUntouched DEF schedVars, Gone, S!Connected
<1>6. CASE Remote(W!WorkerStep(w)) \/ Remote(W!Crash(w))
  <2>1. ~alive[w] /\ live[w] = 0
    BY DEF Gone
  <2>2. UNCHANGED <<alive, live, up, schedVars>>
    BY <1>6, <2>1 DEF Remote, W!WorkerStep, W!Link, W!Open, W!Break, W!Crash, W!Handle, W!OnJob,
         W!OnNoJob, W!OnStop, W!OnRestart, W!Took, W!Continue, W!StartDone, W!StartFails,
         W!Disposed, W!Ask, W!Reply
  <2> QED  BY <2>2 DEF schedVars, Gone, S!Connected
<1> QED  BY <1>1, <1>2, <1>3, <1>4, <1>5, <1>6 DEF Next, BesidesReading, Remote

Lost == {w \in Workers : Gone(w)}

Queueing == P!QueueInv(Lost)

\* At first nobody is gone.
LEMMA QueueingInit == ASSUME Init PROVE Queueing
<1>1. P!Init /\ P!SchedulerAssumption
  BY SameInit, SameAssumption DEF Init
<1>2. PICK G : G = Lost
  OBVIOUS
<1>3. P!QueueInv(G)
  BY <1>1, P!BootQueueInv DEF P!Init
<1> QED  BY <1>2, <1>3 DEF Queueing

\* What the scheduler may read from the workers.
Heard == [w \in Workers |-> {m \in P!UpMsgs : \E s \in Sockets : m \in ToSet(up[w][s])}]

\* Nothing is to be read from a worker that is gone, and no other worker is given up.
LEMMA HeardParts == ASSUME BaseInv PROVE P!Parts(Lost, Heard)
<1>1. \A w \in Lost : Heard[w] = {} /\ ~P!Connected(w)
  BY DEF Lost, Gone, Heard, ToSet, S!Connected, P!Connected
<1>2. loop.at = "requeue" => loop.worker \in Lost
  <2>1. loop.at = "requeue" => loop.worker \in Workers
    BY DEF BaseInv, FullInv, P!Present
  <2> QED  BY <2>1 DEF BaseInv, Known, KnownInv, GivenUpGone, Lost
<1>3. \A w \in Workers : reconn[w] # {} => w \in Lost
  BY DEF BaseInv, Known, KnownInv, GivenUpGone, Lost
<1>4. Lost \subseteq Workers /\ Heard \in [Workers -> SUBSET P!UpMsgs]
  BY DEF Lost, Heard
<1> QED  BY <1>1, <1>2, <1>3, <1>4 DEF P!Parts

\* A step of the scheduler in which the table is not edited: what it reads is taken from
\* the sockets.
Scheduling(T) ==
    /\ UNCHANGED workerVars
    /\ \A w \in Workers, s \in Sockets :
         /\ ToSet(up'[w][s]) \subseteq ToSet(up[w][s])
         /\ \A m \in ToSet(up[w][s]) :
              m \in ToSet(up'[w][s]) \/ m = W!CloseMsg \/ P!Receive(w, s, m)
    /\ P!Works(T) \/ \E e \in Experts : InTime(e) /\ P!StartTimeout(e)

Editing ==
    /\ UNCHANGED <<workerVars, up>>
    /\ \E e \in Experts, row \in Edits : P!Edit(e, row)

Working == \E w \in Workers : Remote(W!WorkerStep(w)) \/ Remote(W!Crash(w))

\* Every step is one of these.
LEMMA StepKinds ==
    ASSUME BaseInv, NEW T, T = Heard, [Next]_vars
    PROVE  Scheduling(T) \/ Editing \/ Working \/ Reboot \/ UNCHANGED vars
<1>0. FullInv /\ ClusterInv
  BY DEF BaseInv, FullInv
<1>1. ASSUME NEW w \in Workers, NEW s \in Sockets, TakeUp(w, s) PROVE Scheduling(T)
  <2> DEFINE m == Head(up[w][s])
  <2>1. /\ up[w][s] \in Seq(Msgs) /\ up[w][s] # <<>>
        /\ up' = [up EXCEPT ![w][s] = Tail(up[w][s])]
        /\ UNCHANGED workerVars
        /\ (m = W!CloseMsg /\ P!SocketClosed(w, s)) \/ (m \in P!UpMsgs /\ P!Receive(w, s, m))
    BY <1>0, <1>1, ReadingTakes
  <2>2. up \in [Workers -> [Sockets -> Seq(Msgs)]]
    BY <1>0 DEF ClusterInv, WorkerInv
  <2>3. m \in ToSet(up[w][s]) /\ ToSet(up[w][s]) = {m} \cup ToSet(Tail(up[w][s]))
    BY <2>1, HeadTailElements
  <2> HIDE DEF m
  <2>4. \A v \in Workers : \A r \in Sockets :
          up'[v][r] = IF v = w /\ r = s THEN Tail(up[w][s]) ELSE up[v][r]
    BY <2>1, <2>2
  <2>5. P!Works(T)
    <3>1. P!Receive(w, s, m) => m \in T[w] \/ m = W!CloseMsg
      BY <2>1, <2>3 DEF Heard
    <3> QED  BY <2>1, <2>3, <3>1, SameRanges DEF P!Works, Heard
  <2>6. ASSUME NEW v \in Workers, NEW r \in Sockets
        PROVE  /\ ToSet(up'[v][r]) \subseteq ToSet(up[v][r])
               /\ \A x \in ToSet(up[v][r]) :
                    x \in ToSet(up'[v][r]) \/ x = W!CloseMsg \/ P!Receive(v, r, x)
    BY <2>1, <2>3, <2>4
  <2> QED  BY <2>1, <2>5, <2>6 DEF Scheduling
<1>2. CASE SchedulerStep
  <2>1. UNCHANGED <<workerVars, up>>
    BY <1>2, SchedulerTakes
  <2>2. ASSUME P!Works(T) \/ \E e \in Experts : InTime(e) /\ P!StartTimeout(e) PROVE Scheduling(T)
    BY <2>1, <2>2 DEF Scheduling
  <2>3. ASSUME NEW e \in Experts, StartTimeout(e) PROVE InTime(e) /\ P!StartTimeout(e)
    BY <2>3 DEF StartTimeout, S!StartTimeout, P!StartTimeout, S!Idle, P!Idle, S!Queued, P!Queued,
         S!tableVars, P!tableVars, S!netVars, P!netVars
  <2>4. ASSUME NEW w \in Workers, ReconnTimeout(w) \/ S!JobTimeout(w) \/ S!StaleJobTimeout(w)
        PROVE  P!ReconnTimeout(w) \/ P!JobTimeout(w) \/ P!StaleJobTimeout(w)
    BY <2>4 DEF ReconnTimeout, S!ReconnTimeout, P!ReconnTimeout, S!JobTimeout, P!JobTimeout,
         S!StaleJobTimeout, P!StaleJobTimeout, S!Idle, P!Idle, S!Loop, P!Loop, S!timerVars,
         P!timerVars, S!tableVars, P!tableVars, S!netVars, P!netVars, S!SendIf, P!SendIf, S!Send,
         P!Send, S!NoJobMsg, P!NoJobMsg, S!StaleArmed, P!StaleArmed, S!Connected, P!Connected
  <2> QED  BY <1>2, <2>1, <2>2, <2>3, <2>4, SameActions DEF SchedulerStep, Local, P!Works, Editing
<1> QED  BY <1>1, <1>2 DEF Next, Working

\* No step puts an expert in the queue that is not queued, or gives away one that is not.
LEMMA QueueingStep ==
    ASSUME BaseInv, Queueing, Breakable = {}, Edits \subseteq {"enabled"}, [Next]_vars
    PROVE  Queueing' /\ \A e \in Experts : P!HandedOver(e)
<1>0. /\ P!SchedulerAssumption /\ P!LinkInv /\ P!TypeInv /\ P!Present
  BY SameAssumption DEF BaseInv, FullInv, ClusterInv, P!LinkInv
<1>1. PICK G, T : G = Lost /\ T = Heard
  OBVIOUS
<1>2. P!QueueInv(G) /\ P!Parts(G, T) /\ G \cap Workers = G
  BY <1>1, HeardParts DEF Queueing, Lost
<1>3. G \subseteq Lost'
  BY <1>1, GoneStays DEF Lost
<1>4. SUFFICES P!QueueInv(G)' /\ \A e \in Experts : P!HandedOver(e)
  BY <1>3 DEF Queueing, P!QueueInv, P!KnownStates
<1>5. CASE Scheduling(T)
  <2>1. P!Works(T) \/ \E e \in Experts : P!StartTimeout(e)
    BY <1>5 DEF Scheduling
  <2>2. /\ UNCHANGED db /\ dirty' \subseteq dirty
        /\ UNCHANGED <<st, queue>> \/ \E e \in Experts : P!Moves(G, e)
    BY <1>0, <1>2, <2>1, P!SchedulerMoves
  <2>3. CASE UNCHANGED <<st, queue>>
    BY <1>2, <2>2, <2>3 DEF P!QueueInv, P!KnownStates, P!HandedOver
  <2>4. ASSUME NEW e \in Experts, P!Moves(G, e)
        PROVE  P!QueueInv(G)' /\ \A f \in Experts : P!HandedOver(f)
    BY <1>0, <1>2, <2>2, <2>4, P!MovesQueue
  <2> QED  BY <2>2, <2>3, <2>4
<1>6. ASSUME NEW e \in Experts, NEW row \in Edits, P!Edit(e, row)
      PROVE  P!QueueInv(G)' /\ \A f \in Experts : P!HandedOver(f)
  <2>1. P!Edit(e, "enabled")
    BY <1>6
  <2>2. P!QueueInv(G)'
    BY <1>0, <1>2, <2>1, P!EditQueue
  <2> QED  BY <2>1, <2>2 DEF P!Edit, P!HandedOver
<1>7. CASE UNCHANGED schedVars
  BY <1>2, <1>7 DEF schedVars, P!QueueInv, P!KnownStates, P!HandedOver
<1>8. CASE Reboot
  <2>1. S!Reboot
    BY <1>8 DEF Reboot
  <2>2. P!Reboot
    BY <2>1, SameActions
  <2>3. P!QueueInv(G)'
    <3>1. dirty' = {}
      BY <2>2 DEF P!Reboot
    <3>2. P!Distinct(queue') /\ P!ToSet(queue') = P!Enabled /\ P!Enabled \subseteq Experts
          /\ st' = P!BootStates
      BY <1>0, <2>2, P!BootQueue DEF P!Reboot, P!Enabled
    <3>3. \A e \in Experts : /\ st'[e].owner = NoWorker /\ st'[e].state \in {"queued", "none"}
                             /\ e \in P!Enabled => st'[e].state = "queued"
      BY <3>2 DEF P!BootStates, P!Queued, P!Untracked
    <3> QED  BY <3>1, <3>2, <3>3 DEF P!QueueInv, P!KnownStates
  <2>4. \A e \in Experts : st'[e].owner = NoWorker
    BY <2>2 DEF P!Reboot, P!BootStates, P!Queued, P!Untracked
  <2> QED  BY <2>3, <2>4 DEF P!HandedOver
<1> QED  BY <1>1, <1>5, <1>6, <1>7, <1>8, StepKinds DEF Editing, Working, Remote, vars

\* Where sockets do not break and rows are only ever enabled, the queue holds queued experts
\* only, also while workers die, come late or find their jobs timed out.
THEOREM OnlyQueuedExpertsWait ==
    ASSUME Breakable = {}, Edits \subseteq {"enabled"}
    PROVE  Spec => []OnlyQueuedInQueue
<1>0. P!RowsStay
  BY DEF P!RowsStay
<1>1. Init => BaseInv /\ Queueing
  BY BaseInit, QueueingInit
<1>2. BaseInv /\ Queueing /\ [Next]_vars => BaseInv' /\ Queueing'
  BY <1>0, BaseStep, QueueingStep
<1>3. Queueing => OnlyQueuedInQueue
  BY DEF Queueing, P!QueueInv, OnlyQueuedInQueue, P!ToSet, ToSet
<1> QED  BY <1>1, <1>2, <1>3, PTL DEF Spec

\* Under the same premises an expert is given from one worker to another only when it is
\* queued: nothing takes it from a worker the scheduler still counts on.
THEOREM ExpertsAreHandedOverThroughQueue ==
    ASSUME Breakable = {}, Edits \subseteq {"enabled"}
    PROVE  Spec => HandedOverThroughQueue
<1>0. P!RowsStay
  BY DEF P!RowsStay
<1>1. Init => BaseInv /\ Queueing
  BY BaseInit, QueueingInit
<1>2. BaseInv /\ Queueing /\ [Next]_vars => BaseInv' /\ Queueing'
  BY <1>0, BaseStep, QueueingStep
<1>3. BaseInv /\ Queueing /\ [Next]_vars =>
        [\A e \in Experts :
          \/ st[e].owner \in {NoWorker, st'[e].owner}
          \/ st'[e].owner = NoWorker
          \/ st[e].state = "queued"]_st
  BY QueueingStep DEF P!HandedOver
<1> QED  BY <1>1, <1>2, <1>3, PTL DEF Spec, HandedOverThroughQueue

-----------------------------------------------------------------------------
(* Where, moreover, the scheduler does not restart, a worker has started    *)
(* nothing before its first report, and reports nothing that would make the *)
(* scheduler forget an expert.                                              *)

\* Worker w has started nothing when it connects.
Unstarted(w) ==
    alive[w] /\ live[w] = 0 =>
        \A e \in Experts : entry[w][e] = 0 /\ \A i \in Instances : inst[w][e][i] = W!Free

\* Worker w is not to stop anything, and has not said that it runs or stopped anything but
\* what it started.
Unstopped(w) ==
    /\ \A m \in ToSet(down[w]) : m.type # "stop"
    /\ \A e \in Experts, i \in Instances : inst[w][e][i].stops = 0
    /\ \A s \in Sockets : \A m \in ToSet(up[w][s]) : P!Plain(m)

SteadyInv(w) == Unstarted(w) /\ Unstopped(w)
Steady == P!Calm /\ \A w \in Workers : SteadyInv(w)

\* A handler takes one message.
LEMMA HandleTakes ==
    ASSUME FullInv, NEW w \in Workers, Remote(W!Handle(w))
    PROVE  /\ down[w] # <<>> /\ live[w] # 0 /\ W!Next1(w).type \in {"job", "no_job", "stop", "restart"}
           /\ ToSet(down[w]) = {W!Next1(w)} \cup ToSet(down'[w])
<1> DEFINE m == W!Next1(w)
<1>1. /\ down[w] # <<>> /\ down' = [down EXCEPT ![w] = Tail(@)]
      /\ m.type \in {"job", "no_job", "stop", "restart"}
  BY DEF Remote, W!Handle, W!OnJob, W!OnNoJob, W!OnStop, W!OnRestart, W!Took, W!Rest
<1>2. live[w] # 0
  BY <1>1 DEF FullInv, ClusterInv, P!LinkInv, P!NothingOnNoSocket
<1>3. down \in [Workers -> Seq(P!DownMsgs)] /\ down[w] \in Seq(P!DownMsgs)
  BY DEF FullInv, ClusterInv, P!LinkInv, P!TypeInv, P!TypeOK
<1>4. ToSet(down[w]) = {m} \cup ToSet(down'[w])
  BY <1>1, <1>3, HeadTailElements DEF W!Next1
<1> QED  BY <1>1, <1>2, <1>4

\* A continuation takes none.
LEMMA ContinueTakes ==
    ASSUME NEW w \in Workers, Remote(W!Continue(w))
    PROVE  UNCHANGED down
BY DEF Remote, W!Continue, W!StartDone, W!StartFails, W!Disposed, W!Ask

\* A handler or a continuation.
LEMMA SaysSteady ==
    ASSUME FullInv, NEW w \in Workers, SteadyInv(w),
           Remote(W!Handle(w)) \/ Remote(W!Continue(w))
    PROVE  SteadyInv(w)'
<1>0. inst \in [Workers -> [Experts -> [Instances -> InstType]]] /\ W!Instances = Instances
  BY DEF FullInv, ClusterInv, WorkerInv, Instances, W!Instances
<1>1. UNCHANGED <<schedVars, alive, opened, live>>
  BY WorkerSays
<1>2. PICK ms \in Seq(Msgs) : W!Reply(w, ms) /\ \A m \in ToSet(ms) : Says(w, m)
  BY WorkerSays
<1>3. \A m \in ToSet(down'[w]) : m.type # "stop"
  BY HandleTakes, ContinueTakes DEF SteadyInv, Unstopped
<1>4. ASSUME NEW e \in Experts, NEW i \in Instances PROVE inst'[w][e][i].stops = 0
  <2>1. CASE inst'[w][e][i] = inst[w][e][i]
    BY <2>1 DEF SteadyInv, Unstopped
  <2>2. /\ W!Free.stops = 0 /\ W!StartingBy("job").stops = 0 /\ W!StartingBy("restart").stops = 0
        /\ [W!Free EXCEPT !.phase = "up"].stops = 0
    BY DEF W!Free, W!StartingBy
  <2>3. CASE Begins(w, e, i) \/ Starts(w, e, i) \/ Replaces(w, e, i)
    BY <2>2, <2>3 DEF Begins, Starts, Replaces
  <2>4. CASE Closes(w, e, i)
    <3>1. S!StopMsg(e) \notin ToSet(down[w])
      BY DEF SteadyInv, Unstopped, S!StopMsg
    <3> QED  BY <2>4, <3>1 DEF Closes, SteadyInv, Unstopped
  <2> QED  BY <2>1, <2>3, <2>4, HandleMoves, ContinueMoves DEF Remote
<1>5. \A m \in ToSet(ms) : P!Plain(m)
  <2>1. \A m \in ToSet(ms) : m = S!NeedJobMsg \/ \E e \in Experts : m = S!StartedMsg(e)
    BY <1>2 DEF Says, SteadyInv, Unstopped
  <2> QED  BY <2>1 DEF S!NeedJobMsg, S!StartedMsg, P!Plain
<1>6. ASSUME NEW s \in Sockets, NEW i \in DOMAIN up'[w][s] PROVE P!Plain(up'[w][s][i])
  <2>1. \/ i \in DOMAIN up[w][s] /\ up'[w][s][i] = up[w][s][i]
        \/ s = live[w] /\ up'[w][s][i] \in ToSet(ms)
    BY <1>2, ReplyPlaces
  <2> QED  BY <1>5, <2>1 DEF SteadyInv, Unstopped, ToSet
<1>7. Unstarted(w)'
  <2> SUFFICES ASSUME alive[w], live[w] = 0 PROVE UNCHANGED <<inst, entry>>
    BY <1>1 DEF SteadyInv, Unstarted
  <2>1. ~W!Handle(w)
    BY HandleTakes DEF Remote
  <2>2. \A e \in Experts, i \in Instances : inst[w][e][i].phase = "free"
    BY DEF SteadyInv, Unstarted, W!Free
  <2> QED
    BY <1>0, <2>1, <2>2 DEF Remote, W!Continue, W!StartDone, W!StartFails, W!Disposed, W!Ask
<1> QED  BY <1>3, <1>4, <1>6, <1>7 DEF SteadyInv, Unstopped, ToSet

\* A worker that opens a socket reports no expert; what a dying one said is cut.
LEMMA LinkSays ==
    ASSUME FullInv, Breakable = {}, NEW w \in Workers, Unstarted(w),
           Remote(W!Link(w) \/ W!Crash(w))
    PROVE  /\ UNCHANGED schedVars
           /\ \A s \in Sockets : \A m \in ToSet(up'[w][s]) :
                m \in ToSet(up[w][s]) \cup {S!ExpertsMsg({}), S!NeedJobMsg, W!CloseMsg}
           /\ down'[w] \in {down[w], <<>>}
           /\ \/ W!Open(w) /\ UNCHANGED <<alive, inst, entry>> /\ live'[w] # 0
              \/ /\ W!Crash(w) /\ ~alive'[w]
                 /\ \A e \in Experts, i \in Instances : inst'[w][e][i] = W!Free
<1> DEFINE Says3 == {S!ExpertsMsg({}), S!NeedJobMsg, W!CloseMsg}
<1>0. /\ live \in [Workers -> Nat] /\ alive \in [Workers -> BOOLEAN]
      /\ up \in [Workers -> [Sockets -> Seq(Msgs)]] /\ down \in [Workers -> Seq(P!DownMsgs)]
      /\ inst \in [Workers -> [Experts -> [Instances -> InstType]]]
  BY DEF FullInv, ClusterInv, WorkerInv, RunInv, P!LinkInv, P!TypeInv, P!TypeOK
<1>1. W!Open(w) \/ W!Crash(w)
  BY DEF Remote, W!Link, W!Break
<1>2. UNCHANGED schedVars
  BY DEF Remote
<1>3. CASE W!Open(w)
  <2> DEFINE s == opened[w] + 1
             ms == <<S!ExpertsMsg({}), S!NeedJobMsg>>
  <2>1. W!Running(w) = {}
    BY <1>3 DEF W!Open, W!Running, Unstarted
  <2>2. /\ live' = [live EXCEPT ![w] = s] /\ up' = [up EXCEPT ![w][s] = ms]
        /\ UNCHANGED <<alive, inst, entry, down>>
    BY <1>3, <2>1 DEF W!Open, S!NeedJobMsg, S!ExpertsMsg
  <2>3. s \in Nat /\ s # 0
    BY DEF FullInv, ClusterInv, WorkerInv
  <2>4. \A m \in ToSet(ms) : m \in Says3
    BY DEF ToSet
  <2> HIDE DEF s, ms
  <2>5. \A r \in Sockets : up'[w][r] = IF r = s THEN ms ELSE up[w][r]
    BY <1>0, <2>2
  <2>6. live'[w] # 0
    BY <1>0, <2>2, <2>3
  <2> QED  BY <1>2, <1>3, <2>2, <2>4, <2>5, <2>6
<1>4. CASE W!Crash(w)
  <2>1. /\ alive' = [alive EXCEPT ![w] = FALSE]
        /\ inst' = [inst EXCEPT ![w] = [e \in Experts |-> [i \in Instances |-> W!Free]]]
        /\ IF live[w] # 0 THEN W!Broken(w) ELSE UNCHANGED <<live, down, up>>
    BY <1>4 DEF W!Crash, Instances
  <2>2. ~alive'[w] /\ \A e \in Experts, i \in Instances : inst'[w][e][i] = W!Free
    BY <1>0, <2>1
  <2>3. down'[w] \in {down[w], <<>>}
    BY <1>0, <2>1 DEF W!Broken
  <2>4. ASSUME NEW r \in Sockets, NEW m \in ToSet(up'[w][r])
        PROVE  m \in ToSet(up[w][r]) \cup {W!CloseMsg}
    <3>1. CASE live[w] = 0
      BY <2>1, <2>4, <3>1
    <3>2. CASE live[w] # 0
      <4> DEFINE s == live[w]
                 old == up[w][s]
      <4>1. s \in Sockets /\ old \in Seq(Msgs)
        BY <1>0, <3>2, LiveSocket
      <4>2. PICK n \in 0..Len(old) :
              up' = [up EXCEPT ![w][s] = Append(SubSeq(old, 1, n), W!CloseMsg)]
        BY <2>1, <3>2 DEF W!Broken
      <4> DEFINE cut == SubSeq(old, 1, n)
                 new == Append(cut, W!CloseMsg)
      <4>3. up'[w][r] = IF r = s THEN new ELSE up[w][r]
        <5>1. up' = [up EXCEPT ![w][s] = new]
          BY <4>2
        <5> HIDE DEF s, new
        <5> QED  BY <1>0, <5>1
      <4>4. cut \in Seq(Msgs) /\ ToSet(cut) \subseteq ToSet(old)
        <5> HIDE DEF old
        <5> QED  BY <4>1, <4>2, CutElements
      <4>5. ToSet(new) = ToSet(cut) \cup {W!CloseMsg}
        <5>1. W!CloseMsg \in Msgs
          BY DEF Msgs
        <5> HIDE DEF cut
        <5> QED  BY <4>4, <5>1, AppendElements
      <4> HIDE DEF s, cut, new
      <4> QED  BY <2>4, <4>3, <4>4, <4>5
    <3> QED  BY <3>1, <3>2
  <2> QED  BY <1>2, <1>4, <2>2, <2>3, <2>4
<1> QED  BY <1>1, <1>3, <1>4

\* What it says is plain.
LEMMA LinkSteady ==
    ASSUME FullInv, Breakable = {}, NEW w \in Workers, SteadyInv(w),
           Remote(W!Link(w) \/ W!Crash(w))
    PROVE  SteadyInv(w)'
<1>1. /\ \A s \in Sockets : \A m \in ToSet(up'[w][s]) :
           m \in ToSet(up[w][s]) \cup {S!ExpertsMsg({}), S!NeedJobMsg, W!CloseMsg}
      /\ down'[w] \in {down[w], <<>>}
      /\ \/ W!Open(w) /\ UNCHANGED <<alive, inst, entry>> /\ live'[w] # 0
         \/ /\ W!Crash(w) /\ ~alive'[w]
            /\ \A e \in Experts, i \in Instances : inst'[w][e][i] = W!Free
  BY LinkSays DEF SteadyInv
<1>2. /\ P!Plain(S!ExpertsMsg({})) /\ P!Plain(S!NeedJobMsg) /\ P!Plain(W!CloseMsg)
      /\ W!Free.stops = 0 /\ ToSet(<<>>) = {}
  BY DEF P!Plain, S!ExpertsMsg, S!NeedJobMsg, W!CloseMsg, W!Free, ToSet
<1>3. \A s \in Sockets : \A m \in ToSet(up'[w][s]) : P!Plain(m)
  BY <1>1, <1>2 DEF SteadyInv, Unstopped
<1>4. \A m \in ToSet(down'[w]) : m.type # "stop"
  BY <1>1, <1>2 DEF SteadyInv, Unstopped
<1>5. \A e \in Experts, i \in Instances : inst'[w][e][i].stops = 0
  BY <1>1, <1>2 DEF SteadyInv, Unstopped
<1>6. Unstarted(w)'
  BY <1>1 DEF Unstarted
<1> QED  BY <1>3, <1>4, <1>5, <1>6 DEF SteadyInv, Unstopped

\* The scheduler does not restart.
LEMMA NoReboot == ASSUME FullInv, MaxRestarts = 0 PROVE ~Reboot
<1>1. reboots \in Nat
  BY DEF FullInv, ClusterInv, P!LinkInv, P!TypeInv, P!TypeOK
<1> QED  BY <1>1 DEF Reboot, S!Reboot

\* Nothing has been started or said at first.
LEMMA SteadyInit == ASSUME Init PROVE Steady
<1>1. P!Calm
  BY DEF Init, S!Init, S!IdleLoop, S!Loop, S!BootStates, S!Enabled, S!Queued, P!Calm
<1>2. ASSUME NEW w \in Workers PROVE SteadyInv(w)
  BY DEF Init, S!Init, W!Init, SteadyInv, Unstarted, Unstopped, Instances, W!Instances, W!Free,
         Sockets, ToSet
<1> QED  BY <1>1, <1>2 DEF Steady

\* No step makes the scheduler forget an expert.
LEMMA SteadyStep ==
    ASSUME BaseInv, Queueing, Steady, Breakable = {}, Edits \subseteq {"enabled"},
           MaxRestarts = 0, [Next]_vars
    PROVE  Steady'
<1>0. /\ P!SchedulerAssumption /\ P!LinkInv /\ FullInv /\ P!KnownStates
  BY SameAssumption DEF BaseInv, FullInv, ClusterInv, Queueing, P!QueueInv
<1>1. PICK T : T = Heard
  OBVIOUS
<1>2. CASE Scheduling(T)
  <2>1. /\ P!Works(T) \/ \E e \in Experts : P!StartTimeout(e)
        /\ UNCHANGED workerVars
        /\ \A w \in Workers, s \in Sockets : ToSet(up'[w][s]) \subseteq ToSet(up[w][s])
    BY <1>2 DEF Scheduling
  <2>2. T \in [Workers -> SUBSET P!UpMsgs] /\ \A w \in Workers : \A m \in T[w] : P!Plain(m)
    BY <1>1 DEF Heard, Steady, SteadyInv, Unstopped
  <2>3. /\ P!Calm' /\ UNCHANGED live
        /\ \A v \in Workers : \A m \in ToSet(down'[v]) : m \in ToSet(down[v]) \/ m.type # "stop"
    <3>1. /\ P!Calm' /\ UNCHANGED live
          /\ \A v \in Workers : \A m \in P!ToSet(down'[v]) :
               m \in P!ToSet(down[v]) \/ m.type # "stop"
      BY <1>0, <2>1, <2>2, P!CalmStep DEF Steady
    <3> QED  BY <3>1 DEF P!ToSet, ToSet
  <2>4. ASSUME NEW w \in Workers PROVE SteadyInv(w)'
    BY <2>1, <2>3 DEF Steady, SteadyInv, Unstarted, Unstopped, workerVars
  <2> QED  BY <2>3, <2>4 DEF Steady
<1>3. CASE Editing
  <2>1. PICK e \in Experts, row \in Edits : P!Edit(e, row)
    BY <1>3 DEF Editing
  <2>2. /\ UNCHANGED <<workerVars, up, live, down, st, loop>>
        /\ db' = [db EXCEPT ![e] = "enabled"] /\ dirty' = dirty \cup {e}
    BY <1>3, <2>1 DEF Editing, P!Edit, P!netVars
  <2>3. db \in [Experts -> P!Rows]
    BY <1>0 DEF P!LinkInv, P!TypeInv, P!TypeOK
  <2>4. P!Calm'
    BY <2>2, <2>3 DEF Steady, P!Calm
  <2> QED  BY <2>2, <2>4 DEF Steady, SteadyInv, Unstarted, Unstopped, workerVars
<1>4. ASSUME NEW w \in Workers, Remote(W!WorkerStep(w)) \/ Remote(W!Crash(w)) PROVE Steady'
  <2>1. UNCHANGED schedVars
    BY <1>4 DEF Remote
  <2>2. SteadyInv(w)'
    <3>1. \/ Remote(W!Handle(w)) \/ Remote(W!Continue(w)) \/ Remote(W!Link(w) \/ W!Crash(w))
      BY <1>4 DEF Remote, W!WorkerStep
    <3> QED  BY <1>0, <3>1, SaysSteady, LinkSteady DEF Steady, BaseInv, Asking, Known
  <2>3. ASSUME NEW v \in Workers \ {w} PROVE SteadyInv(v)'
    BY <1>0, <1>4, OthersUntouched DEF Steady, SteadyInv, Unstarted, Unstopped
  <2>4. P!Calm'
    BY <2>1 DEF schedVars, Steady, P!Calm
  <2> QED  BY <2>2, <2>3, <2>4 DEF Steady
<1>5. CASE UNCHANGED vars
  BY <1>5 DEF vars, schedVars, workerVars, Steady, P!Calm, SteadyInv, Unstarted, Unstopped
<1> QED  BY <1>0, <1>1, <1>2, <1>3, <1>4, <1>5, StepKinds, NoReboot DEF Working

\* Where sockets do not break, rows are only ever enabled and the scheduler does not restart,
\* an enabled expert whose row was read is never without a state: whatever dies, comes late or
\* fails to start, it is queued, being started or started.
THEOREM EnabledExpertsAreTracked ==
    ASSUME Breakable = {}, Edits \subseteq {"enabled"}, MaxRestarts = 0
    PROVE  Spec => []EnabledIsTracked
<1>0. P!RowsStay
  BY DEF P!RowsStay
<1>1. Init => BaseInv /\ Queueing /\ Steady
  BY BaseInit, QueueingInit, SteadyInit
<1>2. BaseInv /\ Queueing /\ Steady /\ [Next]_vars => BaseInv' /\ Queueing' /\ Steady'
  BY <1>0, BaseStep, QueueingStep, SteadyStep
<1>3. Steady => EnabledIsTracked
  BY DEF Steady, P!Calm, EnabledIsTracked
<1> QED  BY <1>1, <1>2, <1>3, PTL DEF Spec

-----------------------------------------------------------------------------
(* Attempts.  Where, moreover, what is under way settles before a timer     *)
(* fires, an attempt has one worker: no other has anything to say of the    *)
(* expert, nor has that worker when the attempt is over.                    *)

\* The scheduler counts on w for e.
Attempts(w, e) == st[e].owner = w /\ st[e].state \in {"starting", "started"}

\* Nothing about e is under way to worker w or from it.
Unsaid(w, e) ==
    /\ \A m \in ToSet(down[w]) : ~About(m, e)
    /\ \A s \in Sockets : \A m \in ToSet(up[w][s]) : ~About(m, e)

\* Nor will worker w say anything about e of its own accord.
Silent(w, e) == Unsaid(w, e) /\ \A i \in Instances : inst[w][e][i].phase \in {"free", "up"}

\* It does not even have an instance of e.
Nothing(w, e) == Unsaid(w, e) /\ \A i \in Instances : inst[w][e][i].phase = "free"

\* Only the worker the scheduler counts on may speak of an expert, and a start is watched.
Attempted ==
    /\ \A e \in Experts : P!Watched(e)
    /\ \A w \in Workers, e \in Experts : Attempts(w, e) \/ Silent(w, e)

\* Worker w is about to start e.
Pending(w, e) == \E i \in Instances : inst[w][e][i].phase \in {"starting", "closing"}

\* Where an expert runs on the worker it is to be started on, the worker has said so, or it
\* is restarting the expert.
Answering(w, e) ==
    st[e] = [state |-> "starting", owner |-> w] /\ Up(w, e) # {} =>
        \/ live[w] # 0 /\ S!StartedMsg(e) \in ToSet(up[w][live[w]])
        \/ CanFail = {} /\ (S!RestartMsg(e) \in ToSet(down[w]) \/ Pending(w, e))

PlaceInv(w, e) == (Attempts(w, e) \/ Nothing(w, e)) /\ Answering(w, e)

\* An expert runs nowhere but on the worker the scheduler counts on.
Placed == \A w \in Workers, e \in Experts : PlaceInv(w, e)

\* What is known of every reachable state.
QuietInv == BaseInv /\ Queueing /\ Steady

\* Nothing has been attempted at first.
LEMMA AttemptedInit == ASSUME Init PROVE Attempted /\ Placed
<1>1. ASSUME NEW e \in Experts PROVE P!Watched(e) /\ st[e].state # "starting"
  BY DEF Init, S!Init, S!BootStates, S!Queued, S!Untracked, P!Watched
<1>2. ASSUME NEW w \in Workers, NEW e \in Experts PROVE Nothing(w, e)
  BY DEF Init, S!Init, W!Init, Nothing, Unsaid, Instances, W!Instances, W!Free, Sockets, ToSet
<1> QED  BY <1>1, <1>2 DEF Attempted, Placed, PlaceInv, Answering, Nothing, Silent

\* A worker that is gone has nothing.
LEMMA GoneHasNothing ==
    ASSUME QuietInv, NEW w \in Workers, Gone(w), NEW e \in Experts
    PROVE  Nothing(w, e)
<1>1. ~alive[w] /\ live[w] = 0 /\ \A s \in Sockets : up[w][s] = <<>>
  BY DEF Gone
<1>2. \A i \in Instances : inst[w][e][i] = W!Free
  BY <1>1 DEF QuietInv, BaseInv, Known, KnownInv, Dead
<1>3. down[w] = <<>>
  BY <1>1 DEF QuietInv, BaseInv, FullInv, ClusterInv, P!LinkInv, P!NothingOnNoSocket
<1> QED  BY <1>1, <1>2, <1>3 DEF Nothing, Unsaid, W!Free, ToSet

\* A worker on which an expert runs is alive and has a socket.
LEMMA UpIsLinked ==
    ASSUME QuietInv, NEW w \in Workers, NEW e \in Experts, NEW i \in Instances,
           inst[w][e][i].phase # "free"
    PROVE  alive[w] /\ live[w] # 0 /\ live[w] \in Sockets
<1>1. inst[w][e][i] # W!Free
  BY DEF W!Free
<1>2. alive[w]
  BY <1>1 DEF QuietInv, BaseInv, Known, KnownInv, Dead
<1>3. live[w] # 0
  BY <1>1, <1>2 DEF QuietInv, Steady, SteadyInv, Unstarted
<1> QED  BY <1>2, <1>3, LiveSocket DEF QuietInv, BaseInv

\* When everything about an expert is settled, and its start is still not reported, its owner
\* has nothing.
LEMMA SettledHasNothing ==
    ASSUME QuietInv, NEW w \in Workers, NEW e \in Experts, Settled(e), Answering(w, e),
           st[e] = [state |-> "starting", owner |-> w]
    PROVE  Nothing(w, e)
<1>1. /\ \A i \in Instances : inst[w][e][i].phase \in {"free", "up"}
      /\ \A m \in ToSet(down[w]) : ~About(m, e)
      /\ \A s \in Sockets : \A m \in ToSet(up[w][s]) : ~About(m, e)
  BY DEF Settled
<1>2. About(S!StartedMsg(e), e) /\ About(S!RestartMsg(e), e)
  BY DEF About, S!StartedMsg, S!RestartMsg
<1>3. ASSUME NEW i \in Instances, inst[w][e][i].phase = "up" PROVE FALSE
  <2>1. Up(w, e) # {}
    BY <1>3 DEF Up
  <2>2. live[w] \in Sockets
    BY <1>3, UpIsLinked
  <2> QED  BY <1>1, <1>2, <2>1, <2>2 DEF Answering, Pending
<1> QED  BY <1>1, <1>3 DEF Nothing, Unsaid

\* What the scheduler sends about an expert, other than a stop, goes to the worker it is
\* started on.
LEMMA SendsAbout ==
    ASSUME NEW w \in Workers, NEW m, P!Sends(w, m), m.type # "stop",
           NEW e \in Experts, About(m, e)
    PROVE  st'[e] = [state |-> "starting", owner |-> w]
BY DEF P!Sends, P!NoJobMsg, P!JobMsg, P!RestartMsg, P!StopMsg, About

\* What becomes of the attempts, and of what is said of them, while the scheduler works.
LEMMA SchedulingMoves ==
    ASSUME QuietInv, Slow = {}, NEW T, T = Heard, Scheduling(T),
           NEW F, F = {e \in Experts : InTime(e)}
    PROVE  /\ UNCHANGED <<live, inst>> /\ F \in SUBSET Experts
           /\ \A w \in Workers : ToSet(down[w]) \subseteq ToSet(down'[w])
           /\ \A w \in Workers, s \in Sockets : \A m \in ToSet(up[w][s]) :
                m \in ToSet(up'[w][s]) \/ m = W!CloseMsg \/ P!Receive(w, s, m)
           /\ \A e \in Experts : \/ P!Keeps(T, e)
                                 \/ \E w \in Workers : P!Given(e, w) \/ P!Restarted(e, w)
                                 \/ P!Ends(F, e)
           /\ P!Works(T) \/ \E f \in F : P!StartTimeout(f)
           /\ \A w \in Workers, e \in Experts :
                /\ Unsaid(w, e) => Attempts(w, e)' \/ Unsaid(w, e)'
                /\ Attempts(w, e) => \/ Attempts(w, e)' \/ w \in Lost
                                     \/ Settled(e) /\ st[e] = [state |-> "starting", owner |-> w]
<1>0. /\ P!SchedulerAssumption /\ P!LinkInv /\ P!Present /\ P!OwnedWhenActive /\ P!KnownStates
      /\ FullInv /\ P!Calm /\ BaseInv
  BY SameAssumption
  DEF QuietInv, BaseInv, FullInv, ClusterInv, Queueing, P!QueueInv, Steady
<1>1. PICK G : G = Lost
  OBVIOUS
<1>2. P!Parts(G, T) /\ P!QueueInv(G) /\ F \in SUBSET Experts
  BY <1>0, <1>1, HeardParts DEF QuietInv, Queueing
<1>3. /\ UNCHANGED workerVars
      /\ \A w \in Workers, s \in Sockets :
           /\ ToSet(up'[w][s]) \subseteq ToSet(up[w][s])
           /\ \A m \in ToSet(up[w][s]) :
                m \in ToSet(up'[w][s]) \/ m = W!CloseMsg \/ P!Receive(w, s, m)
      /\ P!Works(T) \/ \E f \in F : P!StartTimeout(f)
  BY <1>1 DEF Scheduling
<1>4. P!Works(T) \/ \E f \in Experts : P!StartTimeout(f)
  BY <1>2, <1>3
<1>5. \A w \in Workers : \A m \in T[w] : P!Plain(m)
  BY DEF Heard, QuietInv, Steady, SteadyInv, Unstopped
<1>6. T \in [Workers -> SUBSET P!UpMsgs]
  BY <1>2 DEF P!Parts
<1>7. /\ UNCHANGED live
      /\ \A v \in Workers : \A m \in P!ToSet(down'[v]) : m \in P!ToSet(down[v]) \/ m.type # "stop"
  BY <1>0, <1>4, <1>5, <1>6, P!CalmStep
<1>8. \A v \in Workers : P!ToSet(down[v]) \subseteq P!ToSet(down'[v])
  BY <1>0, <1>4, <1>6, P!SchedulerAdds
<1>9. \A v \in Workers : \A m \in P!ToSet(down'[v]) : m \in P!ToSet(down[v]) \/ P!Sends(v, m)
  <2>1. \A v \in Workers : \A m \in T[v] : m \in P!UpMsgs
    BY <1>6
  <2>2. \/ \E e \in Experts : P!ProcessExpert(e)
        \/ \E w \in Workers, s \in P!Sockets, m \in P!UpMsgs : P!Receive(w, s, m)
        \/ \E w \in Workers, s \in P!Sockets : P!SocketClosed(w, s)
        \/ P!TimerStep \/ P!LoopStep
    BY <1>4, <2>1 DEF P!Works, P!TimerStep
  <2> QED  BY <1>0, <2>2, P!Sendings
<1>10. \A e \in Experts : \/ P!Keeps(T, e)
                          \/ \E w \in Workers : P!Given(e, w) \/ P!Restarted(e, w)
                          \/ P!Ends(F, e)
  BY <1>0, <1>2, <1>3, P!AttemptSteps
<1>11. ASSUME NEW w \in Workers, NEW e \in Experts, Unsaid(w, e), ~Attempts(w, e)'
       PROVE  Unsaid(w, e)'
  <2>1. ASSUME NEW m \in ToSet(down'[w]) PROVE ~About(m, e)
    <3>1. m \in ToSet(down[w]) \/ (P!Sends(w, m) /\ m.type # "stop")
      BY <1>7, <1>9 DEF P!ToSet, ToSet
    <3>2. CASE m \in ToSet(down[w])
      BY <1>11, <3>2 DEF Unsaid
    <3>3. ASSUME P!Sends(w, m), m.type # "stop", About(m, e) PROVE FALSE
      <4>1. st'[e] = [state |-> "starting", owner |-> w]
        BY <3>3, SendsAbout
      <4> QED  BY <1>11, <4>1 DEF Attempts
    <3> QED  BY <3>1, <3>2, <3>3
  <2> QED  BY <1>3, <1>11, <2>1 DEF Unsaid
<1>12. ASSUME NEW w \in Workers, NEW e \in Experts, Attempts(w, e), ~Attempts(w, e)', w \notin Lost
       PROVE  Settled(e) /\ st[e] = [state |-> "starting", owner |-> w]
  <2>1. \/ st'[e].state \in {"starting", "started"} /\ st'[e].owner = st[e].owner
        \/ /\ st'[e].state = "queued"
           /\ st[e].owner \in G \/ (e \in F /\ st[e].state = "starting")
    BY <1>0, <1>2, <1>3, <1>5, <1>12, P!AttemptEnds DEF Attempts
  <2>2. e \in F /\ st[e].state = "starting"
    BY <1>1, <1>12, <2>1 DEF Attempts
  <2>3. Settled(e)
    BY <2>2 DEF InTime
  <2>4. st[e] \in P!ExpertStates
    BY <1>0 DEF P!LinkInv, P!TypeInv, P!TypeOK
  <2> QED  BY <1>12, <2>2, <2>3, <2>4 DEF Attempts, P!ExpertStates
<1>13. UNCHANGED <<live, inst>>
  BY <1>3, <1>7 DEF workerVars
<1>14. \A w \in Workers : ToSet(down[w]) \subseteq ToSet(down'[w])
  BY <1>8 DEF P!ToSet, ToSet
<1> QED  BY <1>2, <1>3, <1>10, <1>11, <1>12, <1>13, <1>14

\* While the scheduler works, only the worker it counts on speaks of an expert.
LEMMA SchedulingAttempts ==
    ASSUME QuietInv, Attempted, Slow = {}, NEW T, T = Heard, Scheduling(T)
    PROVE  Attempted'
<1>1. PICK F : F = {e \in Experts : InTime(e)}
  OBVIOUS
<1>2. /\ UNCHANGED inst /\ F \in SUBSET Experts
      /\ P!Works(T) \/ \E f \in F : P!StartTimeout(f)
      /\ \A e \in Experts : \/ P!Keeps(T, e)
                            \/ \E w \in Workers : P!Given(e, w) \/ P!Restarted(e, w)
                            \/ P!Ends(F, e)
      /\ \A w \in Workers, e \in Experts :
           /\ Unsaid(w, e) => Attempts(w, e)' \/ Unsaid(w, e)'
           /\ Attempts(w, e) => \/ Attempts(w, e)' \/ w \in Lost
                                \/ Settled(e) /\ st[e] = [state |-> "starting", owner |-> w]
  BY <1>1, SchedulingMoves
<1>3. P!SchedulerAssumption /\ P!LinkInv /\ P!OwnedWhenActive
  BY SameAssumption DEF QuietInv, BaseInv, FullInv, ClusterInv
<1>4. ASSUME NEW e \in Experts PROVE P!Watched(e)'
  <2>1. \A w \in Workers : P!Recoverable(w)
    BY DEF QuietInv, BaseInv, Known, KnownInv
  <2>2. ASSUME NEW v \in Workers, P!StartedMsg(e) \in T[v] PROVE v = st[e].owner
    <3>1. PICK s \in Sockets : P!StartedMsg(e) \in ToSet(up[v][s])
      BY <2>2 DEF Heard
    <3>2. About(P!StartedMsg(e), e)
      BY DEF About, P!StartedMsg
    <3> QED  BY <3>1, <3>2 DEF Attempted, Silent, Unsaid, Attempts
  <2> QED  BY <1>2, <1>3, <2>1, <2>2, P!WatchedStep DEF Attempted
<1>5. ASSUME NEW w \in Workers, NEW e \in Experts PROVE Attempts(w, e)' \/ Silent(w, e)'
  <2>1. Silent(w, e) => Attempts(w, e)' \/ Silent(w, e)'
    BY <1>2 DEF Silent
  <2>2. w \in Lost => Silent(w, e)
    BY GoneHasNothing DEF Lost, Nothing, Silent
  <2>3. Settled(e) => Silent(w, e)
    BY DEF Settled, Silent, Unsaid
  <2> QED  BY <1>2, <2>1, <2>2, <2>3 DEF Attempted
<1> QED  BY <1>4, <1>5 DEF Attempted

\* And no other worker has an instance of it, where restarts succeed.
LEMMA SchedulingPlaces ==
    ASSUME QuietInv, Truth, Placed, RestartsWork, Slow = {}, NEW T, T = Heard, Scheduling(T)
    PROVE  Placed'
<1>1. PICK F : F = {e \in Experts : InTime(e)}
  OBVIOUS
<1>2. /\ UNCHANGED <<live, inst>>
      /\ \A w \in Workers : ToSet(down[w]) \subseteq ToSet(down'[w])
      /\ \A w \in Workers, s \in Sockets : \A m \in ToSet(up[w][s]) :
           m \in ToSet(up'[w][s]) \/ m = W!CloseMsg \/ P!Receive(w, s, m)
      /\ \A e \in Experts : \/ P!Keeps(T, e)
                            \/ \E w \in Workers : P!Given(e, w) \/ P!Restarted(e, w)
                            \/ P!Ends(F, e)
      /\ \A w \in Workers, e \in Experts :
           /\ Unsaid(w, e) => Attempts(w, e)' \/ Unsaid(w, e)'
           /\ Attempts(w, e) => \/ Attempts(w, e)' \/ w \in Lost
                                \/ Settled(e) /\ st[e] = [state |-> "starting", owner |-> w]
  BY <1>1, SchedulingMoves
<1>3. BaseInv /\ P!LinkInv
  BY DEF QuietInv, BaseInv, FullInv, ClusterInv
<1>4. ASSUME NEW w \in Workers, NEW e \in Experts PROVE Attempts(w, e)' \/ Nothing(w, e)'
  <2>1. Nothing(w, e) => Attempts(w, e)' \/ Nothing(w, e)'
    BY <1>2 DEF Nothing
  <2>2. w \in Lost => Nothing(w, e)
    BY GoneHasNothing DEF Lost
  <2>3. Settled(e) /\ st[e] = [state |-> "starting", owner |-> w] => Nothing(w, e)
    BY SettledHasNothing DEF Placed, PlaceInv
  <2> QED  BY <1>2, <2>1, <2>2, <2>3 DEF Placed, PlaceInv
<1>5. ASSUME NEW w \in Workers, NEW e \in Experts PROVE Answering(w, e)'
  <2> SUFFICES ASSUME st'[e] = [state |-> "starting", owner |-> w], Up(w, e)' # {}
               PROVE  \/ live[w] # 0 /\ S!StartedMsg(e) \in ToSet(up'[w][live[w]])
                      \/ CanFail = {} /\ (S!RestartMsg(e) \in ToSet(down'[w]) \/ Pending(w, e))
    BY <1>2 DEF Answering, Pending
  <2>1. PICK i \in Instances : inst[w][e][i].phase = "up"
    BY <1>2 DEF Up
  <2>2. Up(w, e) # {} /\ alive[w] /\ live[w] # 0 /\ live[w] \in Sockets /\ Attempts(w, e)
    BY <2>1, UpIsLinked DEF Up, Nothing, Placed, PlaceInv
  <2>3. CASE P!Keeps(T, e)
    <3>1. st[e] = [state |-> "starting", owner |-> w]
      BY <2>3 DEF P!Keeps
    <3>2. CASE S!StartedMsg(e) \in ToSet(up[w][live[w]])
      <4>1. \/ S!StartedMsg(e) \in ToSet(up'[w][live[w]])
            \/ P!Receive(w, live[w], S!StartedMsg(e))
        BY <1>2, <2>2, <3>2 DEF S!StartedMsg, W!CloseMsg
      <4>2. ~P!Receive(w, live[w], S!StartedMsg(e))
        <5>1. P!Receive(w, live[w], S!StartedMsg(e)) => P!ReceiveStarted(w, live[w], e)
          BY DEF P!Receive, S!StartedMsg
        <5>2. P!ReceiveStarted(w, live[w], e) => st' = [st EXCEPT ![e].state = "started"]
          BY <3>1 DEF P!ReceiveStarted
        <5>3. st \in [Experts -> P!ExpertStates]
          BY <1>3 DEF P!LinkInv, P!TypeInv, P!TypeOK
        <5> QED  BY <5>1, <5>2, <5>3 DEF P!ExpertStates
      <4> QED  BY <2>2, <4>1, <4>2
    <3>3. S!RestartMsg(e) \in ToSet(down[w]) => S!RestartMsg(e) \in ToSet(down'[w])
      BY <1>2, <2>2
    <3> QED  BY <2>2, <3>1, <3>2, <3>3 DEF Placed, PlaceInv, Answering
  <2>4. ASSUME NEW v \in Workers, P!Restarted(e, v)
        PROVE  CanFail = {} /\ S!RestartMsg(e) \in ToSet(down'[w])
    <3>1. v = w /\ e \in dirty
      BY <2>2, <2>4 DEF P!Restarted, Attempts
    <3>2. CanFail = {}
      BY <3>1 DEF Truth, P!NoRestarts, RestartsWork
    <3>3. S!Connected(w) /\ P!Connected(w)
      BY <1>3, <2>2 DEF BaseInv, Known, KnownInv, NewOwnsNothing, Gone, Attempts, S!Connected,
           P!Connected
    <3>4. workers[w].sock = live[w]
      BY <1>3, <2>2, <3>3, TimedRecord DEF BaseInv, Asking
    <3> QED  BY <2>4, <3>1, <3>2, <3>3, <3>4
             DEF P!Restarted, P!RestartMsg, S!RestartMsg, P!ToSet, ToSet
  <2>5. \A v \in Workers : ~P!Given(e, v)
    BY <2>2 DEF P!Given, Attempts
  <2>6. ~P!Ends(F, e)
    BY DEF P!Ends
  <2> QED  BY <1>2, <2>3, <2>4, <2>5, <2>6
<1> QED  BY <1>4, <1>5 DEF Placed, PlaceInv

\* A row that is set to enabled disturbs no attempt.
LEMMA EditingAttempts ==
    ASSUME BaseInv, Editing
    PROVE  (Attempted => Attempted') /\ (Placed => Placed')
<1>1. PICK e \in Experts, row \in Edits : P!Edit(e, row)
  BY DEF Editing
<1>2. UNCHANGED <<workerVars, up, live, down, st, pend, reconn, loop>>
  BY <1>1 DEF Editing, P!Edit, P!netVars, P!timerVars
<1>3. \A x \in Experts : P!Watched(x)' = P!Watched(x)
  BY <1>2 DEF P!Watched, P!Requeues
<1>4. \A w \in Workers, x \in Experts :
        /\ Attempts(w, x)' = Attempts(w, x) /\ Silent(w, x)' = Silent(w, x)
        /\ Nothing(w, x)' = Nothing(w, x) /\ Answering(w, x)' = Answering(w, x)
  BY <1>2 DEF Attempts, Silent, Nothing, Unsaid, Answering, Pending, Up, workerVars
<1> QED  BY <1>3, <1>4 DEF Attempted, Placed, PlaceInv

\* A worker that is told nothing of an expert, and does not start or stop it, goes on like that.
LEMMA SilentStays ==
    ASSUME FullInv, NEW w \in Workers, NEW e \in Experts, Silent(w, e),
           Remote(W!Handle(w)) \/ Remote(W!Continue(w))
    PROVE  Unsaid(w, e)' /\ \A i \in Instances : inst'[w][e][i] = inst[w][e][i]
<1>1. /\ About(S!JobMsg(e), e) /\ About(S!RestartMsg(e), e) /\ About(S!StopMsg(e), e)
      /\ ~About(S!NeedJobMsg, e)
      /\ \A x \in Experts : About(S!StartedMsg(x), e) \/ About(S!StoppedMsg(x), e) => x = e
  BY DEF About, S!JobMsg, S!RestartMsg, S!StopMsg, S!NeedJobMsg, S!StartedMsg, S!StoppedMsg
<1>2. ASSUME NEW i \in Instances PROVE inst'[w][e][i] = inst[w][e][i]
  <2>1. ~Begins(w, e, i) /\ ~Closes(w, e, i) /\ ~Starts(w, e, i) /\ ~Replaces(w, e, i)
    BY <1>1 DEF Begins, Closes, Starts, Replaces, Silent, Unsaid
  <2> QED  BY <2>1, HandleMoves, ContinueMoves DEF Remote
<1>3. \A m \in ToSet(down'[w]) : ~About(m, e)
  BY HandleTakes, ContinueTakes DEF Silent, Unsaid
<1>4. PICK ms \in Seq(Msgs) : W!Reply(w, ms) /\ \A m \in ToSet(ms) : Says(w, m)
  BY WorkerSays
<1>5. ~Engaged(w, e)
  BY DEF Engaged, Silent, Unsaid
<1>6. \A m \in ToSet(ms) : ~About(m, e)
  BY <1>1, <1>4, <1>5 DEF Says
<1>7. ASSUME NEW s \in Sockets, NEW i \in DOMAIN up'[w][s] PROVE ~About(up'[w][s][i], e)
  <2>1. \/ i \in DOMAIN up[w][s] /\ up'[w][s][i] = up[w][s][i]
        \/ s = live[w] /\ up'[w][s][i] \in ToSet(ms)
    BY <1>4, ReplyPlaces
  <2> QED  BY <1>6, <2>1 DEF Silent, Unsaid, ToSet
<1> QED  BY <1>2, <1>3, <1>7 DEF Unsaid, ToSet

\* An instance that comes up is reported.
LEMMA StartsSay ==
    ASSUME FullInv, NEW w \in Workers, NEW e \in Experts, NEW i \in Instances,
           live[w] \in Sockets, Remote(W!Handle(w)) \/ Remote(W!Continue(w)),
           inst[w][e][i].phase # "up", inst'[w][e][i].phase = "up"
    PROVE  S!StartedMsg(e) \in ToSet(up'[w][live[w]])
<1>0. /\ inst \in [Workers -> [Experts -> [Instances -> InstType]]]
      /\ up \in [Workers -> [Sockets -> Seq(Msgs)]] /\ W!Instances = Instances
  BY DEF FullInv, ClusterInv, WorkerInv, Instances
<1>1. /\ W!Free.phase # "up" /\ W!StartingBy("job").phase # "up"
      /\ W!StartingBy("restart").phase # "up"
  BY DEF W!Free, W!StartingBy
<1>2. ~Begins(w, e, i) /\ ~Closes(w, e, i) /\ ~Replaces(w, e, i)
  BY <1>1 DEF Begins, Closes, Replaces
<1>3. W!Continue(w)
  BY <1>2, HandleMoves DEF Remote
<1>4. ASSUME NEW x \in Experts, NEW k \in Instances, W!StartDone(w, x, k)
      PROVE  S!StartedMsg(e) \in ToSet(up'[w][live[w]])
  <2> DEFINE ms == <<[type |-> "started", expert |-> x]>>
             old == up[w][live[w]]
  <2>1. /\ inst' = [inst EXCEPT ![w][x][k] = [W!Free EXCEPT !.phase = "up"]]
        /\ W!Reply(w, ms)
    BY <1>4 DEF W!StartDone
  <2>2. x = e
    BY <1>0, <2>1
  <2>3. ms \in Seq(Msgs) /\ ToSet(ms) = {S!StartedMsg(e)}
    <3>1. ms \in Seq(Msgs)
      BY MessageType
    <3> QED  BY <2>2, <3>1 DEF ToSet, S!StartedMsg
  <2> HIDE DEF ms
  <2>4. up'[w][live[w]] = old \o ms /\ old \in Seq(Msgs)
    <3>1. W!Reply(w, ms) /\ ms \in Seq(Msgs)
      BY <2>1, <2>3
    <3>2. \A s \in Sockets : s = live[w] => up'[w][s] = up[w][s] \o ms
      BY <3>1, ReplyPlaces, Zenon
    <3> QED  BY <1>0, <3>2
  <2> HIDE DEF old
  <2>5. ToSet(old \o ms) = ToSet(old) \cup ToSet(ms)
    BY <2>3, <2>4, ConcatElements
  <2> QED  BY <2>3, <2>4, <2>5
<1>5. ASSUME NEW x \in Experts, NEW k \in Instances, W!StartFails(w, x, k) PROVE FALSE
  <2>1. inst' = [inst EXCEPT ![w][x][k] = W!Free]
    BY <1>5 DEF W!StartFails
  <2>2. inst'[w][e][i] \in {inst[w][e][i], W!Free}
    BY <1>0, <2>1
  <2> QED  BY <1>1, <2>2
<1>6. ASSUME NEW x \in Experts, NEW k \in Instances, W!Disposed(w, x, k) PROVE FALSE
  <2>1. PICK R \in SUBSET (W!FreeOf(w, x) \cup {k}) :
          inst' = [inst EXCEPT ![w][x] = [j \in Instances |->
                     IF j \in R THEN W!StartingBy("restart")
                     ELSE IF j = k THEN W!Free ELSE @[j]]]
    BY <1>0, <1>6 DEF W!Disposed
  <2>2. inst'[w][e][i] \in {inst[w][e][i], W!Free, W!StartingBy("restart")}
    BY <1>0, <2>1
  <2> QED  BY <1>1, <2>2
<1>7. CASE W!Ask(w)
  BY <1>7 DEF W!Ask
<1> QED  BY <1>0, <1>3, <1>4, <1>5, <1>6, <1>7 DEF W!Continue

\* An instance that is disposed of for restarts alone is replaced.
LEMMA DisposedBegins ==
    ASSUME FullInv, NEW w \in Workers, NEW e \in Experts, NEW k \in Instances,
           ClosingAnswers(w), Unstopped(w), W!Disposed(w, e, k)
    PROVE  \E r \in Instances : inst'[w][e][r].phase = "starting"
<1>0. /\ inst \in [Workers -> [Experts -> [Instances -> InstType]]]
      /\ W!Instances = Instances
  BY DEF FullInv, ClusterInv, WorkerInv, Instances
<1>1. inst[w][e][k].restarts # 0
  BY DEF W!Disposed, ClosingAnswers, Unstopped
<1>2. PICK R \in SUBSET (W!FreeOf(w, e) \cup {k}) :
        /\ W!Cardinality(R) = inst[w][e][k].restarts
        /\ inst' = [inst EXCEPT ![w][e] = [j \in W!Instances |->
                      IF j \in R THEN W!StartingBy("restart")
                      ELSE IF j = k THEN W!Free ELSE @[j]]]
  BY DEF W!Disposed
<1>3. PICK r \in R : TRUE
  <2>1. W!Cardinality({}) = Cardinality({})
    BY DEF W!Cardinality, Cardinality
  <2> QED  BY <1>1, <1>2, <2>1, FS_EmptySet
<1>4. r \in Instances
  BY <1>0, <1>2 DEF W!FreeOf
<1>5. inst'[w][e][r] = W!StartingBy("restart")
  BY <1>0, <1>2, <1>4
<1> QED  BY <1>4, <1>5 DEF W!StartingBy, W!Free

\* Who is about to start an expert goes on with that until it is reported started.
LEMMA PendingStays ==
    ASSUME FullInv, NEW w \in Workers, NEW e \in Experts, CanFail = {},
           ClosingAnswers(w), Unstopped(w), live[w] \in Sockets,
           Remote(W!Handle(w)) \/ Remote(W!Continue(w)), Pending(w, e)
    PROVE  Pending(w, e)' \/ S!StartedMsg(e) \in ToSet(up'[w][live[w]])
<1>0. /\ inst \in [Workers -> [Experts -> [Instances -> InstType]]]
      /\ W!Instances = Instances
  BY DEF FullInv, ClusterInv, WorkerInv, Instances
<1>1. PICK i \in Instances : inst[w][e][i].phase \in {"starting", "closing"}
  BY DEF Pending
<1>2. CASE inst'[w][e][i] = inst[w][e][i]
  BY <1>1, <1>2 DEF Pending
<1>3. CASE W!Handle(w)
  <2>1. ~Begins(w, e, i)
    BY <1>1 DEF Begins, W!Free
  <2>2. inst'[w][e][i] = inst[w][e][i] \/ Closes(w, e, i)
    BY <1>3, <2>1, HandleMoves
  <2> QED  BY <1>2, <2>2 DEF Closes, Pending
<1>4. ASSUME NEW x \in Experts, NEW k \in Instances, W!StartDone(w, x, k), x # e \/ k # i
      PROVE  inst'[w][e][i] = inst[w][e][i]
  BY <1>0, <1>4 DEF W!StartDone
<1>5. CASE W!StartDone(w, e, i)
  <2>1. inst' = [inst EXCEPT ![w][e][i] = [W!Free EXCEPT !.phase = "up"]]
    BY <1>5 DEF W!StartDone
  <2>2. inst'[w][e][i] = [W!Free EXCEPT !.phase = "up"]
    BY <1>0, <2>1
  <2>3. inst'[w][e][i].phase = "up"
    BY <2>2 DEF W!Free
  <2> QED  BY <1>1, <2>3, StartsSay
<1>6. ASSUME NEW x \in Experts, NEW k \in Instances PROVE ~W!StartFails(w, x, k)
  BY DEF W!StartFails
<1>7. ASSUME NEW x \in Experts, NEW k \in Instances, W!Disposed(w, x, k)
      PROVE  Pending(w, e)'
  <2>1. CASE x = e
    BY <1>7, <2>1, DisposedBegins DEF Pending
  <2>2. CASE x # e
    <3>1. inst'[w][e][i] = inst[w][e][i]
      BY <1>0, <1>7, <2>2 DEF W!Disposed
    <3> QED  BY <1>1, <3>1 DEF Pending
  <2> QED  BY <2>1, <2>2
<1>8. CASE W!Ask(w)
  BY <1>2, <1>8 DEF W!Ask
<1> QED  BY <1>0, <1>2, <1>3, <1>4, <1>5, <1>6, <1>7, <1>8 DEF Remote, W!Continue

\* A worker takes a restart for something to do.
LEMMA RestartTaken ==
    ASSUME FullInv, NEW w \in Workers, NEW e \in Experts, Remote(W!Handle(w)),
           W!Next1(w) = S!RestartMsg(e)
    PROVE  Pending(w, e)'
<1>0. /\ inst \in [Workers -> [Experts -> [Instances -> InstType]]]
      /\ W!Instances = Instances
  BY DEF FullInv, ClusterInv, WorkerInv, Instances
<1>1. W!Next1(w).type = "restart" /\ W!Next1(w).expert = e
  BY DEF S!RestartMsg
<1>2. \/ entry[w][e] # 0 /\ W!Close(w, e, "restarts")
      \/ \E i \in W!FreeOf(w, e) : W!Begin(w, e, i, "restart")
  BY <1>1 DEF Remote, W!Handle, W!OnJob, W!OnNoJob, W!OnStop, W!OnRestart, W!Took
<1>3. ASSUME NEW i \in W!FreeOf(w, e), W!Begin(w, e, i, "restart") PROVE Pending(w, e)'
  <2>1. i \in Instances
    BY <1>0 DEF W!FreeOf
  <2>2. inst'[w][e][i] = W!StartingBy("restart")
    BY <1>0, <1>3, <2>1 DEF W!Begin
  <2> QED  BY <2>1, <2>2 DEF Pending, W!StartingBy, W!Free
<1>4. CASE entry[w][e] # 0 /\ W!Close(w, e, "restarts")
  <2> DEFINE k == entry[w][e]
             me == inst[w][e][k]
             r == [me EXCEPT !.phase = "closing", !.restarts = me.restarts + 1]
  <2>1. k \in Instances /\ me \in InstType
    <3>1. k \in 0..MaxInst /\ k # 0 /\ MaxInst \in Nat
      BY <1>4, ClusterAssumption DEF FullInv, RunInv
    <3>2. k \in Instances
      <4> HIDE DEF k
      <4> QED  BY <3>1 DEF Instances, W!Instances
    <3> QED  BY <1>0, <3>2
  <2>2. inst' = [inst EXCEPT ![w][e][k] = r]
    BY <1>4 DEF W!Close
  <2>3. r.phase = "closing"
    <3> HIDE DEF me
    <3> QED  BY <2>1 DEF InstType
  <2> HIDE DEF r, k
  <2>4. inst'[w][e][k] = r
    BY <1>0, <2>1, <2>2
  <2> QED  BY <2>1, <2>3, <2>4 DEF Pending
<1> QED  BY <1>2, <1>3, <1>4

\* A handler or a continuation.
LEMMA SaysAttempts ==
    ASSUME QuietInv, NEW w \in Workers, NEW e \in Experts, Attempts(w, e) \/ Silent(w, e),
           Remote(W!Handle(w)) \/ Remote(W!Continue(w))
    PROVE  Attempts(w, e)' \/ Silent(w, e)'
<1>1. FullInv
  BY DEF QuietInv, BaseInv
<1>2. UNCHANGED st
  BY <1>1, WorkerSays DEF schedVars
<1>3. Silent(w, e) => Silent(w, e)'
  BY <1>1, SilentStays DEF Silent
<1> QED  BY <1>2, <1>3 DEF Attempts

LEMMA SaysPlaces ==
    ASSUME QuietInv, Truth, NEW w \in Workers, NEW e \in Experts, PlaceInv(w, e),
           Remote(W!Handle(w)) \/ Remote(W!Continue(w))
    PROVE  PlaceInv(w, e)'
<1>0. FullInv /\ ClosingAnswers(w) /\ Unstopped(w)
  BY DEF QuietInv, BaseInv, Truth, TrueInv, Steady, SteadyInv
<1>1. UNCHANGED <<schedVars, live>>
  BY <1>0, WorkerSays
<1>2. UNCHANGED st
  BY <1>1 DEF schedVars
<1>3. Attempts(w, e)' \/ Nothing(w, e)'
  <2>1. Nothing(w, e) => Nothing(w, e)'
    BY <1>0, SilentStays DEF Nothing, Silent
  <2> QED  BY <1>2, <2>1 DEF PlaceInv, Attempts
<1>4. ASSUME st[e] = [state |-> "starting", owner |-> w],
             NEW i \in Instances, inst'[w][e][i].phase = "up"
      PROVE  \/ live[w] # 0 /\ S!StartedMsg(e) \in ToSet(up'[w][live[w]])
             \/ /\ CanFail = {}
                /\ S!RestartMsg(e) \in ToSet(down'[w]) \/ Pending(w, e)'
  <2>1. CASE inst[w][e][i].phase # "up"
    <3>1. inst'[w][e][i] # inst[w][e][i]
      BY <1>4, <2>1
    <3>2. live[w] \in Sockets /\ live[w] # 0
      <4>1. CASE inst[w][e][i].phase # "free"
        BY <4>1, UpIsLinked
      <4>2. CASE inst[w][e][i].phase = "free"
        <5>1. [W!Free EXCEPT !.phase = "up"].phase = "up" /\ W!Free.phase # "up"
              /\ W!StartingBy("job").phase # "up" /\ W!StartingBy("restart").phase # "up"
          BY DEF W!Free, W!StartingBy
        <5>2. ~Begins(w, e, i) /\ ~Closes(w, e, i) /\ ~Starts(w, e, i) /\ ~Replaces(w, e, i)
          BY <1>4, <4>2, <5>1 DEF Begins, Closes, Starts, Replaces
        <5> QED  BY <1>0, <3>1, <5>2, HandleMoves, ContinueMoves DEF Remote
      <4> QED  BY <4>1, <4>2
    <3> QED  BY <1>0, <1>4, <2>1, <3>2, StartsSay
  <2>2. CASE inst[w][e][i].phase = "up"
    <3>1. live[w] \in Sockets /\ live[w] # 0
      BY <2>2, UpIsLinked
    <3>2. \/ S!StartedMsg(e) \in ToSet(up[w][live[w]])
          \/ CanFail = {} /\ (S!RestartMsg(e) \in ToSet(down[w]) \/ Pending(w, e))
      BY <1>4, <2>2 DEF PlaceInv, Answering, Up, Pending
    <3>3. CASE S!StartedMsg(e) \in ToSet(up[w][live[w]])
      <4>1. PICK ms \in Seq(Msgs) : W!Reply(w, ms)
        BY <1>0, WorkerSays
      <4>2. \A j \in DOMAIN up[w][live[w]] :
              j \in DOMAIN up'[w][live[w]] /\ up'[w][live[w]][j] = up[w][live[w]][j]
        BY <1>0, <3>1, <4>1, ReplyPlaces
      <4> QED  BY <3>1, <3>3, <4>2 DEF ToSet
    <3>4. CASE CanFail = {} /\ Pending(w, e)
      BY <1>0, <3>1, <3>4, PendingStays
    <3>5. CASE CanFail = {} /\ S!RestartMsg(e) \in ToSet(down[w])
      <4>1. CASE Remote(W!Continue(w))
        BY <3>5, <4>1, ContinueTakes
      <4>2. CASE Remote(W!Handle(w))
        BY <1>0, <3>5, <4>2, HandleTakes, RestartTaken
      <4> QED  BY <4>1, <4>2
    <3> QED  BY <3>2, <3>3, <3>4, <3>5
  <2> QED  BY <2>1, <2>2
<1>5. Answering(w, e)'
  <2>1. Up(w, e)' # {} => \E i \in Instances : inst'[w][e][i].phase = "up"
    BY DEF Up
  <2> QED  BY <1>1, <1>2, <1>4, <2>1 DEF Answering, Pending
<1> QED  BY <1>3, <1>5 DEF PlaceInv

\* A worker that opens a socket, or dies, runs nothing.
LEMMA LinkAttempts ==
    ASSUME QuietInv, Breakable = {}, NEW w \in Workers, NEW e \in Experts,
           Remote(W!Link(w) \/ W!Crash(w))
    PROVE  /\ Attempts(w, e) \/ Silent(w, e) => Attempts(w, e)' \/ Silent(w, e)'
           /\ PlaceInv(w, e) => PlaceInv(w, e)'
<1>0. FullInv /\ Unstarted(w)
  BY DEF QuietInv, BaseInv, Steady, SteadyInv
<1>1. /\ UNCHANGED schedVars
      /\ \A s \in Sockets : \A m \in ToSet(up'[w][s]) :
           m \in ToSet(up[w][s]) \cup {S!ExpertsMsg({}), S!NeedJobMsg, W!CloseMsg}
      /\ down'[w] \in {down[w], <<>>}
      /\ \/ W!Open(w) /\ UNCHANGED <<alive, inst, entry>> /\ live'[w] # 0
         \/ /\ W!Crash(w) /\ ~alive'[w]
            /\ \A x \in Experts, i \in Instances : inst'[w][x][i] = W!Free
  BY <1>0, LinkSays
<1>2. UNCHANGED st
  BY <1>1 DEF schedVars
<1>3. ASSUME NEW i \in Instances PROVE inst'[w][e][i].phase = "free"
  <2>1. CASE W!Open(w) /\ UNCHANGED inst
    <3>1. inst[w][e][i] = W!Free
      BY <1>0, <2>1 DEF W!Open, Unstarted
    <3> QED  BY <2>1, <3>1 DEF W!Free
  <2> QED  BY <1>1, <2>1 DEF W!Free
<1>4. ~About(S!ExpertsMsg({}), e) /\ ~About(S!NeedJobMsg, e) /\ ~About(W!CloseMsg, e)
      /\ ToSet(<<>>) = {}
  BY DEF About, S!ExpertsMsg, S!NeedJobMsg, W!CloseMsg, ToSet
<1>5. Unsaid(w, e) => Nothing(w, e)'
  BY <1>1, <1>3, <1>4 DEF Nothing, Unsaid
<1>6. Up(w, e)' = {}
  BY <1>3 DEF Up
<1> QED  BY <1>2, <1>5, <1>6 DEF PlaceInv, Attempts, Answering, Nothing, Silent

\* Every step leaves an expert to one worker.
LEMMA AttemptedStep ==
    ASSUME QuietInv, Attempted, Breakable = {}, MaxRestarts = 0, Slow = {}, [Next]_vars
    PROVE  /\ Attempted'
           /\ Truth /\ RestartsWork /\ Placed => Placed'
<1>0. BaseInv /\ FullInv
  BY DEF QuietInv, BaseInv
<1>1. PICK T : T = Heard
  OBVIOUS
<1>2. CASE Scheduling(T)
  BY <1>1, <1>2, SchedulingAttempts, SchedulingPlaces
<1>3. CASE Editing
  BY <1>0, <1>3, EditingAttempts
<1>4. ASSUME NEW w \in Workers, Remote(W!WorkerStep(w)) \/ Remote(W!Crash(w))
      PROVE  Attempted' /\ (Truth /\ Placed => Placed')
  <2>1. UNCHANGED schedVars
    BY <1>4 DEF Remote
  <2>2. \A e \in Experts : P!Watched(e)' = P!Watched(e)
    BY <2>1 DEF schedVars, P!Watched, P!Requeues
  <2>3. \/ Remote(W!Handle(w)) \/ Remote(W!Continue(w)) \/ Remote(W!Link(w) \/ W!Crash(w))
    BY <1>4 DEF Remote, W!WorkerStep
  <2>4. ASSUME NEW e \in Experts
        PROVE  /\ Attempts(w, e)' \/ Silent(w, e)'
               /\ Truth /\ PlaceInv(w, e) => PlaceInv(w, e)'
    <3>1. Attempts(w, e) \/ Silent(w, e)
      BY DEF Attempted
    <3> QED  BY <2>3, <3>1, SaysAttempts, SaysPlaces, LinkAttempts
  <2>5. ASSUME NEW v \in Workers \ {w}, NEW e \in Experts
        PROVE  /\ Attempts(v, e)' \/ Silent(v, e)'
               /\ PlaceInv(v, e) => PlaceInv(v, e)'
    <3>1. /\ UNCHANGED st /\ up'[v] = up[v] /\ inst'[v] = inst[v]
          /\ live'[v] = live[v] /\ down'[v] = down[v]
      BY <1>0, <1>4, OthersUntouched DEF schedVars
    <3>2. Attempts(v, e) \/ Silent(v, e)
      BY DEF Attempted
    <3> QED  BY <3>1, <3>2 DEF PlaceInv, Attempts, Silent, Nothing, Unsaid, Answering, Pending, Up
  <2> QED  BY <2>2, <2>4, <2>5 DEF Attempted, Placed
<1>5. CASE UNCHANGED vars
  <2>1. UNCHANGED <<st, pend, reconn, loop, up, inst, live, down>>
    BY <1>5 DEF vars, schedVars, workerVars
  <2>2. \A e \in Experts : P!Watched(e)' = P!Watched(e)
    BY <2>1 DEF P!Watched, P!Requeues
  <2>3. \A w \in Workers, e \in Experts :
          /\ Attempts(w, e)' = Attempts(w, e) /\ Silent(w, e)' = Silent(w, e)
          /\ Nothing(w, e)' = Nothing(w, e) /\ Answering(w, e)' = Answering(w, e)
    BY <2>1 DEF Attempts, Silent, Nothing, Unsaid, Answering, Pending, Up
  <2> QED  BY <2>2, <2>3 DEF Attempted, Placed, PlaceInv
<1> QED  BY <1>0, <1>1, <1>2, <1>3, <1>4, <1>5, StepKinds, NoReboot DEF Working

\* What holds before an attempt holds after every step.
LEMMA QuietStep ==
    ASSUME QuietInv, Breakable = {}, Edits \subseteq {"enabled"}, MaxRestarts = 0, [Next]_vars
    PROVE  QuietInv'
<1>1. P!RowsStay
  BY DEF P!RowsStay
<1> QED  BY <1>1, BaseStep, QueueingStep, SteadyStep DEF QuietInv

LEMMA QuietInit == ASSUME Init PROVE QuietInv
BY BaseInit, QueueingInit, SteadyInit DEF QuietInv

\* Where sockets do not break, rows are only ever enabled, the scheduler does not restart and
\* what is under way settles before a timer fires, an attempt to start an expert is always
\* watched by a timer of the worker it is made on.
THEOREM AttemptsAreTimed ==
    ASSUME Breakable = {}, Edits \subseteq {"enabled"}, MaxRestarts = 0, Slow = {}
    PROVE  Spec => []StartingIsTimed
<1>1. Init => QuietInv /\ Attempted
  BY QuietInit, AttemptedInit
<1>2. QuietInv /\ Attempted /\ [Next]_vars => QuietInv' /\ Attempted'
  BY QuietStep, AttemptedStep
<1>3. QuietInv /\ Attempted => StartingIsTimed
  <2> SUFFICES ASSUME QuietInv, Attempted, NEW e \in Experts, S!Idle, st[e].state = "starting"
               PROVE  st[e].owner \in ToSet(pend[e]) \/ e \in reconn[st[e].owner]
    BY DEF StartingIsTimed
  <2>1. P!Watched(e)
    BY DEF Attempted
  <2>2. ~P!Requeues(st[e].owner, e)
    BY DEF P!Requeues, S!Idle
  <2>3. CASE pend[e] # <<>> /\ P!Last(pend[e]) = st[e].owner
    <3>1. pend \in [Experts -> Seq(Workers)]
      BY DEF QuietInv, BaseInv, FullInv, ClusterInv, P!LinkInv, P!TypeInv, P!TypeOK
    <3>2. Len(pend[e]) \in DOMAIN pend[e] /\ P!Last(pend[e]) = pend[e][Len(pend[e])]
      BY <2>3, <3>1, EmptySeq, LenProperties DEF P!Last
    <3> QED  BY <2>3, <3>2 DEF ToSet
  <2> QED  BY <2>1, <2>2, <2>3 DEF P!Watched
<1> QED  BY <1>1, <1>2, <1>3, PTL DEF Spec

\* Where, moreover, no row is edited or no start fails, an expert that runs on a worker is
\* known to the scheduler as started there once their messages about it are exchanged: no
\* instance runs that it would not find to restart or to requeue.
THEOREM RunningExpertsAreTracked ==
    ASSUME Breakable = {}, Edits \subseteq {"enabled"}, MaxRestarts = 0, Slow = {},
           Edits = {} \/ CanFail = {}
    PROVE  Spec => []RunningIsTracked
<1> DEFINE IInv == QuietInv /\ Truth /\ Attempted /\ Placed
<1>0. P!RowsStay /\ RestartsWork
  BY DEF P!RowsStay, RestartsWork
<1>1. Init => IInv
  BY QuietInit, TruthInit, AttemptedInit
<1>2. IInv /\ [Next]_vars => IInv'
  <2> SUFFICES ASSUME IInv, [Next]_vars PROVE IInv'
    OBVIOUS
  <2>1. QuietInv' /\ Attempted' /\ Placed'
    BY <1>0, QuietStep, AttemptedStep
  <2>2. Truth'
    BY <1>0, TruthStep DEF QuietInv
  <2> QED  BY <2>1, <2>2
<1>3. IInv => RunningIsTracked
  <2> SUFFICES ASSUME IInv, NEW w \in Workers, NEW e \in Experts, Quiet(w, e), Up(w, e) # {}
               PROVE  st[e] = [state |-> "started", owner |-> w]
    BY DEF RunningIsTracked
  <2>1. /\ live[w] # 0 /\ down[w] = <<>> /\ \A s \in Sockets : up[w][s] = <<>>
        /\ \A i \in Instances : inst[w][e][i].phase \in {"free", "up"}
    BY DEF Quiet
  <2>2. live[w] \in Sockets
    BY <2>1, LiveSocket DEF QuietInv, BaseInv
  <2>3. ~Nothing(w, e)
    BY DEF Nothing, Up
  <2>4. Attempts(w, e) /\ Answering(w, e)
    BY <2>3 DEF Placed, PlaceInv
  <2>5. st[e] # [state |-> "starting", owner |-> w]
    <3>1. ToSet(down[w]) = {} /\ ToSet(up[w][live[w]]) = {}
      BY <2>1, <2>2 DEF ToSet
    <3> QED  BY <2>1, <2>4, <3>1 DEF Answering, Pending
  <2>6. st[e] \in P!ExpertStates
    BY DEF QuietInv, BaseInv, FullInv, ClusterInv, P!LinkInv, P!TypeInv, P!TypeOK
  <2> QED  BY <2>4, <2>5, <2>6 DEF Attempts, P!ExpertStates
<1> QED  BY <1>1, <1>2, <1>3, PTL DEF Spec
================================================================================
