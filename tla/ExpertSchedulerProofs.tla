-------------------------- MODULE ExpertSchedulerProofs --------------------------
(***************************************************************************)
(* What the scheduler guarantees whatever the workers send and however the *)
(* table is edited, for every set of experts and workers.                  *)
(*                                                                         *)
(* TypeOK needs one more fact to be inductive: while the loop over a       *)
(* report runs, it belongs to a worker.  The other invariants are          *)
(* inductive together with it.                                             *)
(***************************************************************************)
EXTENDS ExpertScheduler, SequenceLemmas

LoopHasWorker == loop.at = "experts" => loop.worker \in Workers
TypeInv == TypeOK /\ LoopHasWorker

-----------------------------------------------------------------------------
(* Facts about the steps.                                                   *)

\* The selected entry is one the worker takes; removing it keeps every other expert.
LEMMA Selection ==
    ASSUME TypeInv, NEW w \in Workers, Matches(w) # {}
    PROVE  /\ FirstMatch(w) \in 1..Len(queue)
           /\ queue[FirstMatch(w)] \in Experts
           /\ Dequeued(w) \in Seq(Experts)
           /\ \A e \in ToSet(queue) : e # queue[FirstMatch(w)] => e \in ToSet(Dequeued(w))
<1>1. queue \in Seq(Experts) /\ Len(queue) \in Nat /\ loop.missed \in Nat
  BY DEF TypeInv, TypeOK, Loops
<1>2. Matches(w) \in SUBSET (1..Len(queue))
  BY <1>1 DEF Matches
<1>3. FirstMatch(w) \in Matches(w)
  <2>1. \E i \in Matches(w) : \A j \in Matches(w) : i <= j
    BY <1>2, LeastElement
  <2> QED  BY <2>1 DEF FirstMatch
<1>4. FirstMatch(w) \in 1..Len(queue)
  BY <1>2, <1>3
<1> QED  BY <1>1, <1>4, RemoveAtElements, ElementOfSeq DEF Dequeued

\* queue holds exactly the enabled experts when the process has booted.
LEMMA BootQueue ==
    ASSUME SchedulerAssumption, NEW q \in SetToSeqs(Enabled)
    PROVE  q \in Seq(Experts) /\ ToSet(q) = Enabled /\ Distinct(q)
<1>1. IsFiniteSet(Enabled) /\ Enabled \subseteq Experts
  BY FS_Subset DEF Enabled, SchedulerAssumption
<1>2. q \in Seq(Enabled) /\ ToSet(q) = Enabled /\ Distinct(q)
  BY <1>1, OrdersOfSet
<1> QED  BY <1>1, <1>2, SeqMonotonic

\* Sending keeps the shape of what is under way.
LEMMA SendType ==
    ASSUME TypeInv, NEW w \in Workers, NEW c, NEW m \in DownMsgs, Send(w, c, m)
    PROVE  down' \in [Workers -> Seq(DownMsgs)]
<1>1. down \in [Workers -> Seq(DownMsgs)]
  BY DEF TypeInv, TypeOK
<1>2. Append(down[w], m) \in Seq(DownMsgs)
  BY <1>1, AppendProperties
<1> QED  BY <1>1, <1>2 DEF Send

\* Arming a start timer keeps the shape of the timers.
LEMMA ArmType ==
    ASSUME TypeInv, NEW e \in Experts, NEW w \in Workers, ArmStartTimer(e, w)
    PROVE  pend' \in [Experts -> Seq(Workers)] /\ mapped' \in [Experts -> BOOLEAN]
<1>1. pend \in [Experts -> Seq(Workers)] /\ mapped \in [Experts -> BOOLEAN]
  BY DEF TypeInv, TypeOK
<1>2. Append(pend[e], w) \in Seq(Workers)
  BY <1>1, AppendProperties
<1> QED  BY <1>1, <1>2 DEF ArmStartTimer

\* Handing out a job keeps the shape of all it changes.
LEMMA GiveJobType ==
    ASSUME TypeInv, NEW w \in Workers, NEW c \in Conns, CanAssign(w, c), GiveJob(w, c)
    PROVE  /\ queue' \in Seq(Experts)
           /\ st' \in [Experts -> ExpertStates]
           /\ workers' \in [Workers -> Conns]
           /\ pend' \in [Experts -> Seq(Workers)]
           /\ mapped' \in [Experts -> BOOLEAN]
           /\ down' \in [Workers -> Seq(DownMsgs)]
<1> DEFINE e == queue[FirstMatch(w)]
<1>1. e \in Experts /\ Dequeued(w) \in Seq(Experts)
  BY Selection DEF CanAssign
<1>2. JobMsg(e) \in DownMsgs
  BY <1>1 DEF JobMsg, DownMsgs
<1>3. down' \in [Workers -> Seq(DownMsgs)]
  BY <1>2, SendType DEF GiveJob
<1>4. pend' \in [Experts -> Seq(Workers)] /\ mapped' \in [Experts -> BOOLEAN]
  BY <1>1, ArmType DEF GiveJob
<1>5. st' \in [Experts -> ExpertStates]
  BY <1>1 DEF GiveJob, TypeInv, TypeOK, ExpertStates, States
<1>6. workers' \in [Workers -> Conns]
  BY DEF GiveJob, TypeInv, TypeOK, Conns
<1>7. queue' \in Seq(Experts)
  BY <1>1 DEF GiveJob
<1> QED  BY <1>3, <1>4, <1>5, <1>6, <1>7

\* An entry that goes back to the queue keeps the shape of all it changes.
LEMMA MissJobType ==
    ASSUME TypeInv, NEW w \in Workers, NEW c \in Conns, NEW timer \in BOOLEAN,
           CanAssign(w, c), MissJob(w, c, timer)
    PROVE  /\ queue' \in Seq(Experts)
           /\ workers' \in [Workers -> Conns]
           /\ UNCHANGED <<st, pend, mapped, down>>
<1> DEFINE e == queue[FirstMatch(w)]
<1>1. e \in Experts /\ Dequeued(w) \in Seq(Experts)
  BY Selection DEF CanAssign
<1>2. queue' \in Seq(Experts)
  BY <1>1, AppendProperties DEF MissJob
<1>3. workers' \in [Workers -> Conns]
  BY DEF MissJob, TypeInv, TypeOK, Conns
<1> QED  BY <1>2, <1>3 DEF MissJob, timerVars

-----------------------------------------------------------------------------
(* The type invariant.                                                      *)

\* Updating the state of an expert, or the record of a worker, keeps its shape.
LEMMA StateType ==
    ASSUME TypeInv, NEW e \in Experts
    PROVE  /\ \A x \in States : [st EXCEPT ![e].state = x] \in [Experts -> ExpertStates]
           /\ \A r \in ExpertStates : [st EXCEPT ![e] = r] \in [Experts -> ExpertStates]
           /\ st \in [Experts -> ExpertStates]
  BY DEF TypeInv, TypeOK, ExpertStates

\* Changing only the state field of an entry of expertStates keeps its shape.
LEMMA StateOnly ==
    ASSUME TypeInv, NEW e \in Experts, NEW x, st' = [st EXCEPT ![e].state = x],
           NEW y \in Experts
    PROVE  st'[y].owner = st[y].owner /\ st'[y].state = IF y = e THEN x ELSE st[y].state
<1>1. st \in [Experts -> ExpertStates]
  BY StateType
<1> QED  BY <1>1 DEF ExpertStates

\* Replacing the record of a worker keeps the shape of workers.
LEMMA RecordType ==
    ASSUME TypeInv, NEW w \in Workers
    PROVE  /\ \A c \in Conns : [workers EXCEPT ![w] = c] \in [Workers -> Conns]
           /\ workers \in [Workers -> Conns]
           /\ workers[w] \in Conns
  BY DEF TypeInv, TypeOK

\* Queueing an expert keeps the shape of expertQueue.
LEMMA AppendType ==
    ASSUME TypeInv, NEW e \in Experts
    PROVE  queue \in Seq(Experts) /\ Append(queue, e) \in Seq(Experts)
  BY AppendProperties DEF TypeInv, TypeOK

\* The record a message is applied to, old or fresh, has the shape of a record.
LEMMA ConnType ==
    ASSUME TypeInv, NEW w \in Workers, NEW s \in Sockets
    PROVE  Conn(w, s) \in Conns
<1>1. workers[w] \in Conns /\ s \in Nat
  BY DEF TypeInv, TypeOK, Sockets
<1> QED  BY <1>1 DEF Conn, Fresh, NoConn, Conns

\* A scheduler that has just booted has the shape of TypeInv.
LEMMA TypeInit == ASSUME SchedulerAssumption, Init PROVE TypeInv
<1>1. queue \in Seq(Experts)
  BY BootQueue DEF Init
<1>2. db \in [Experts -> Rows]
  BY DEF Init, SchedulerAssumption
<1>3. st \in [Experts -> ExpertStates]
  BY DEF Init, BootStates, Queued, Untracked, ExpertStates, States
<1>4. workers \in [Workers -> Conns]
  BY DEF Init, NoConn, Conns
<1>5. loop \in Loops /\ LoopHasWorker
  BY DEF Init, IdleLoop, Loop, Loops, LoopHasWorker
<1>6. pend \in [Experts -> Seq(Workers)] /\ down \in [Workers -> Seq(DownMsgs)]
  BY EmptySeq DEF Init
<1> QED  BY <1>1, <1>2, <1>3, <1>4, <1>5, <1>6 DEF Init, TypeInv, TypeOK

\* Every step of the scheduler and of its environment keeps the shape of the state.
LEMMA TypeStep ==
    ASSUME SchedulerAssumption, TypeInv, [Next]_vars
    PROVE  TypeInv'
<1>0. /\ db \in [Experts -> Rows]
      /\ dirty \subseteq Experts
      /\ edits \in Nat
      /\ reboots \in Nat
      /\ st \in [Experts -> ExpertStates]
      /\ queue \in Seq(Experts)
      /\ workers \in [Workers -> Conns]
      /\ reconn \in [Workers -> SUBSET Experts]
      /\ pend \in [Experts -> Seq(Workers)]
      /\ mapped \in [Experts -> BOOLEAN]
      /\ stale \in [Workers -> Nat]
      /\ loop \in Loops
      /\ LoopHasWorker
      /\ live \in [Workers -> Nat]
      /\ down \in [Workers -> Seq(DownMsgs)]
  BY DEF TypeInv, TypeOK
<1>1. ASSUME NEW e \in Experts, NEW row \in Edits, Edit(e, row)
      PROVE  TypeInv'
  BY <1>0, <1>1 DEF Edit, SchedulerAssumption, timerVars, netVars, TypeInv, TypeOK, LoopHasWorker
<1>2. ASSUME NEW w \in Workers, NEW s \in Sockets \cup {0}, Listen(w, s)
      PROVE  TypeInv'
  BY <1>0, <1>2, EmptySeq DEF Listen, Sockets, tableVars, timerVars, TypeInv, TypeOK, LoopHasWorker
<1>3. ASSUME NEW w \in Workers, Deliver(w)
      PROVE  TypeInv'
  <2>1. Tail(down[w]) \in Seq(DownMsgs)
    BY <1>0, <1>3, HeadTailProperties DEF Deliver
  <2> QED  BY <1>0, <1>3, <2>1 DEF Deliver, tableVars, timerVars, TypeInv, TypeOK, LoopHasWorker
<1>4. ASSUME NEW e \in Experts, ProcessExpert(e)
      PROVE  TypeInv'
  <2>1. /\ dirty' \subseteq Experts
        /\ UNCHANGED <<db, edits, reboots, workers, reconn, stale, live>>
    BY <1>0, <1>4 DEF ProcessExpert
  <2>2. /\ queue' \in Seq(Experts)
        /\ st' \in [Experts -> ExpertStates]
        /\ pend' \in [Experts -> Seq(Workers)]
        /\ mapped' \in [Experts -> BOOLEAN]
        /\ down' \in [Workers -> Seq(DownMsgs)]
        /\ loop' \in Loops /\ LoopHasWorker'
    <3>1. CASE StopDisabled(e)
      <4>1. st' \in [Experts -> ExpertStates]
        BY ZenonT(60), <1>0, <3>1 DEF StopDisabled, ExpertStates, States
      <4>2. down' \in [Workers -> Seq(DownMsgs)]
        <5>1. StopMsg(e) \in DownMsgs
          BY DEF StopMsg, DownMsgs
        <5>2. \A w \in Workers : Append(down[w], StopMsg(e)) \in Seq(DownMsgs)
          BY <1>0, <5>1, AppendProperties
        <5> QED  BY <1>0, <3>1, <5>2 DEF StopDisabled
      <4> QED  BY <1>0, <3>1, <4>1, <4>2 DEF StopDisabled, timerVars, LoopHasWorker
    <3>2. CASE QueueEnabled(e)
      <4>1. queue' \in Seq(Experts)
        BY <1>0, <3>2, AppendProperties DEF QueueEnabled, QueueExpert
      <4>2. st' \in [Experts -> ExpertStates]
        BY <1>0, <3>2, StateType DEF QueueEnabled, QueueExpert, ExpertStates, States
      <4>3. loop' \in Loops /\ LoopHasWorker'
        BY <1>0, <3>2 DEF QueueEnabled, AssignLoop, IdleLoop, Loop, Loops, Waiting, LoopHasWorker
      <4> QED  BY <1>0, <3>2, <4>1, <4>2, <4>3 DEF QueueEnabled, timerVars
    <3>3. CASE RestartUpdated(e)
      <4> DEFINE w == st[e].owner
      <4>1. w \in Workers
        BY <1>0, <3>3 DEF RestartUpdated, ExpertStates
      <4>2. RestartMsg(e) \in DownMsgs
        BY DEF RestartMsg, DownMsgs
      <4>3. /\ pend' \in [Experts -> Seq(Workers)]
            /\ mapped' \in [Experts -> BOOLEAN]
            /\ down' \in [Workers -> Seq(DownMsgs)]
        BY <1>0, <3>3, <4>1, <4>2, ArmType, SendType DEF RestartUpdated, timerVars
      <4>4. st' \in [Experts -> ExpertStates]
        <5>1. st' = [st EXCEPT ![e].state = "starting"] /\ "starting" \in States
          BY <3>3 DEF RestartUpdated, States
        <5> QED  BY <5>1, StateType
      <4> QED  BY <1>0, <3>3, <4>3, <4>4 DEF RestartUpdated, LoopHasWorker
    <3>4. CASE AlreadyQueued(e)
      BY <1>0, <3>4 DEF AlreadyQueued, timerVars, LoopHasWorker
    <3> QED  BY <1>4, <3>1, <3>2, <3>3, <3>4 DEF ProcessExpert
  <2> QED  BY <1>0, <2>1, <2>2 DEF TypeInv, TypeOK, LoopHasWorker
<1>5. ASSUME NEW w \in Workers, NEW s \in Sockets, NEW m \in UpMsgs, Receive(w, s, m)
      PROVE  TypeInv'
  <2> DEFINE c == Conn(w, s)
  <2>0. c \in Conns
    BY ConnType
  <2> HIDE DEF c
  <2>1. CASE m.type = "experts" /\ ReceiveExperts(w, s, m.experts)
    <3>1. m.experts \in SUBSET Experts
      BY <2>1 DEF UpMsgs, NeedJobMsg
    <3>2. workers' \in [Workers -> Conns]
      BY <1>0, <2>0, <2>1 DEF ReceiveExperts, c, Conns
    <3>3. loop' \in Loops /\ LoopHasWorker'
      BY <1>0, <2>1, <3>1 DEF ReceiveExperts, Loop, Loops, LoopHasWorker
    <3> QED  BY <1>0, <2>1, <3>2, <3>3 DEF ReceiveExperts, tableVars, timerVars, netVars, TypeInv, TypeOK, LoopHasWorker
  <2>2. CASE ReceiveNeedJob(w, s)
    <3> DEFINE d == [c EXCEPT !.needsJob = TRUE]
    <3>1. d \in Conns
      BY <2>0 DEF Conns
    <3>2. /\ queue' \in Seq(Experts)
          /\ st' \in [Experts -> ExpertStates]
          /\ workers' \in [Workers -> Conns]
          /\ pend' \in [Experts -> Seq(Workers)]
          /\ mapped' \in [Experts -> BOOLEAN]
          /\ down' \in [Workers -> Seq(DownMsgs)]
      <4>1. CASE CanAssign(w, d) /\ GiveJob(w, d)
        BY <3>1, <4>1, GiveJobType
      <4>2. CASE CanAssign(w, d) /\ MissJob(w, d, TRUE)
        BY <1>0, <3>1, <4>2, MissJobType
      <4>3. CASE ~CanAssign(w, d)
        <5>1. workers' = [workers EXCEPT ![w] = [d EXCEPT !.jobTimer = IF d.ready THEN TRUE ELSE @]]
          BY <2>2, <4>3 DEF ReceiveNeedJob, c
        <5>2. [d EXCEPT !.jobTimer = IF d.ready THEN TRUE ELSE @] \in Conns
          BY <3>1 DEF Conns
        <5> QED  BY <1>0, <2>2, <4>3, <5>1, <5>2 DEF ReceiveNeedJob, timerVars, c
      <4> QED  BY <2>2, <4>1, <4>2, <4>3 DEF ReceiveNeedJob, c
    <3> QED  BY <1>0, <2>2, <3>2 DEF ReceiveNeedJob, ClearReconn, tableVars, TypeInv, TypeOK, LoopHasWorker
  <2>3. CASE m.type = "started" /\ ReceiveStarted(w, s, m.expert)
    <3> DEFINE e == m.expert
    <3>1. e \in Experts
      BY <2>3 DEF UpMsgs, NeedJobMsg
    <3>2. workers' \in [Workers -> Conns]
      <4>1. WithActive(c, e) \in Conns
        BY <2>0, <3>1 DEF WithActive, Conns
      <4>2. workers' \in {[workers EXCEPT ![w] = WithActive(c, e)], [workers EXCEPT ![w] = c]}
        BY <2>3 DEF ReceiveStarted, c
      <4> QED  BY <2>0, <4>1, <4>2, RecordType
    <3>3. st' \in [Experts -> ExpertStates]
      <4>1. st' \in {[st EXCEPT ![e].state = "started"], st}
        BY <2>3 DEF ReceiveStarted
      <4>2. "started" \in States
        BY DEF States
      <4> QED  BY <3>1, <4>1, <4>2, StateType
    <3>4. pend' \in [Experts -> Seq(Workers)]
      <4>1. pend[e] \in Seq(Workers)
        BY <1>0, <3>1
      <4>2. Front(pend[e]) \in Seq(Workers)
        BY <4>1, FrontTailType
      <4> QED  BY <1>0, <2>3, <4>2 DEF ReceiveStarted
    <3> QED  BY <1>0, <2>3, <3>2, <3>3, <3>4
             DEF ReceiveStarted, ClearReconn, tableVars, netVars, TypeInv, TypeOK,
                 LoopHasWorker
  <2>4. CASE m.type = "stopped" /\ ReceiveStopped(w, s, m.expert)
    <3>1. m.expert \in Experts
      BY <2>4 DEF UpMsgs, NeedJobMsg
    <3>2. workers' \in [Workers -> Conns]
      <4>1. [c EXCEPT !.active = @ \ {m.expert}] \in Conns
        BY <2>0 DEF Conns
      <4>2. workers' \in {[workers EXCEPT ![w] = [c EXCEPT !.active = @ \ {m.expert}]],
                          [workers EXCEPT ![w] = c]}
        BY <2>4 DEF ReceiveStopped, c
      <4> QED  BY <2>0, <4>1, <4>2, RecordType
    <3>3. st' \in [Experts -> ExpertStates]
      <4>1. st' \in {[st EXCEPT ![m.expert] = Untracked], st}
        BY <2>4 DEF ReceiveStopped
      <4>2. Untracked \in ExpertStates
        BY DEF Untracked, ExpertStates, States
      <4> QED  BY <3>1, <4>1, <4>2, StateType
    <3> QED  BY <1>0, <2>4, <3>2, <3>3
             DEF ReceiveStopped, ClearReconn, tableVars, timerVars, netVars, TypeInv, TypeOK,
                 LoopHasWorker
  <2> QED  BY <1>5, <2>1, <2>2, <2>3, <2>4 DEF Receive
<1>6. ASSUME NEW w \in Workers, NEW s \in Sockets, SocketClosed(w, s)
      PROVE  TypeInv'
  <2>1. workers' \in [Workers -> Conns]
    <3>1. workers' \in {[workers EXCEPT ![w] = NoConn], workers}
      BY <1>6 DEF SocketClosed
    <3>2. NoConn \in Conns
      BY DEF NoConn, Conns
    <3> QED  BY <3>1, <3>2, RecordType
  <2>2. reconn' \in [Workers -> SUBSET Experts] /\ stale' \in [Workers -> Nat]
    <3>1. ToRequeue(workers[w]) \in SUBSET Experts
      BY <1>0 DEF ToRequeue, Conns
    <3>2. CASE workers[w].sock = s
      <4>1. reconn' = [reconn EXCEPT ![w] = ToRequeue(workers[w])]
        BY <1>6, <3>2 DEF SocketClosed
      <4>2. stale' = [stale EXCEPT ![w] =
                        IF workers[w].jobTimer /\ workers[w].needsJob THEN @ + 1 ELSE @]
        BY <1>6, <3>2 DEF SocketClosed
      <4>3. stale[w] \in Nat /\ stale[w] + 1 \in Nat
        BY <1>0
      <4>4. stale' \in [Workers -> Nat]
        BY <1>0, <4>2, <4>3
      <4> QED  BY <1>0, <3>1, <4>1, <4>4
    <3>3. CASE workers[w].sock # s
      BY <1>0, <1>6, <3>3 DEF SocketClosed
    <3> QED  BY <3>2, <3>3
  <2> QED  BY <1>0, <1>6, <2>1, <2>2 DEF SocketClosed, tableVars, timerVars, netVars, TypeInv, TypeOK, LoopHasWorker
<1>7. ASSUME NEW e \in Experts, StartTimeout(e)
      PROVE  TypeInv'
  <2>1. Tail(pend[e]) \in Seq(Workers)
    BY <1>0, <1>7, HeadTailProperties DEF StartTimeout
  <2>2. queue' \in Seq(Experts)
    <3>1. queue' \in {Append(queue, e), queue}
      BY <1>7 DEF StartTimeout
    <3> QED  BY <3>1, AppendType
  <2>3. st' \in [Experts -> ExpertStates]
    <3>1. st' \in {[st EXCEPT ![e] = Queued(NoWorker)], st}
      BY <1>7 DEF StartTimeout
    <3>2. Queued(NoWorker) \in ExpertStates
      BY DEF Queued, ExpertStates, States
    <3> QED  BY <3>1, <3>2, StateType
  <2> QED  BY <1>0, <1>7, <2>1, <2>2, <2>3 DEF StartTimeout, tableVars, netVars, TypeInv, TypeOK, LoopHasWorker
<1>8. ASSUME NEW w \in Workers, ReconnTimeout(w)
      PROVE  TypeInv'
  <2>1. loop' \in Loops /\ LoopHasWorker'
    BY <1>0, <1>8 DEF ReconnTimeout, Loop, Loops, LoopHasWorker
  <2> QED  BY <1>0, <1>8, <2>1 DEF ReconnTimeout, tableVars, timerVars, netVars, TypeInv, TypeOK, LoopHasWorker
<1>9. ASSUME NEW w \in Workers, JobTimeout(w) \/ StaleJobTimeout(w)
      PROVE  TypeInv'
  <2>1. workers' \in [Workers -> Conns]
    <3>1. [workers[w] EXCEPT !.jobTimer = FALSE, !.needsJob = FALSE] \in Conns
      <4>1. workers[w] \in Conns
        BY RecordType
      <4> QED  BY <4>1 DEF Conns
    <3>2. workers' = [workers EXCEPT ![w] = [@ EXCEPT !.jobTimer = FALSE, !.needsJob = FALSE]]
      BY <1>9 DEF JobTimeout, StaleJobTimeout
    <3> QED  BY <3>1, <3>2, RecordType
  <2>2. down' \in [Workers -> Seq(DownMsgs)]
    <3>1. NoJobMsg \in DownMsgs
      BY DEF DownMsgs
    <3> QED  BY <1>0, <1>9, <3>1, SendType DEF JobTimeout, StaleJobTimeout, SendIf, TypeInv, TypeOK, LoopHasWorker
  <2>3. stale' \in [Workers -> Nat]
    <3>1. CASE JobTimeout(w)
      BY <1>0, <3>1 DEF JobTimeout
    <3>2. CASE StaleJobTimeout(w)
      <4>1. stale[w] \in Nat /\ stale[w] > 0
        BY <1>0, <3>2 DEF StaleJobTimeout, StaleArmed
      <4>2. stale' = [stale EXCEPT ![w] = stale[w] - 1]
        BY <3>2 DEF StaleJobTimeout
      <4> QED  BY <1>0, <4>1, <4>2
    <3> QED  BY <1>9, <3>1, <3>2
  <2> QED  BY <1>0, <1>9, <2>1, <2>2, <2>3 DEF JobTimeout, StaleJobTimeout, tableVars, timerVars, TypeInv, TypeOK, LoopHasWorker
<1>10. ASSUME NEW w \in Workers, AssignNext(w)
       PROVE  TypeInv'
  <2>1. workers[w] \in Conns /\ workers[w].jobTimer \in BOOLEAN
    BY <1>0 DEF Conns
  <2>2. /\ queue' \in Seq(Experts)
        /\ st' \in [Experts -> ExpertStates]
        /\ workers' \in [Workers -> Conns]
        /\ pend' \in [Experts -> Seq(Workers)]
        /\ mapped' \in [Experts -> BOOLEAN]
        /\ down' \in [Workers -> Seq(DownMsgs)]
    <3>1. CASE CanAssign(w, workers[w]) /\ GiveJob(w, workers[w])
      BY <2>1, <3>1, GiveJobType
    <3>2. CASE CanAssign(w, workers[w]) /\ MissJob(w, workers[w], workers[w].jobTimer)
      BY <1>0, <2>1, <3>2, MissJobType
    <3>3. CASE ~CanAssign(w, workers[w])
      BY <1>0, <1>10, <3>3 DEF AssignNext, timerVars
    <3> QED  BY <1>10, <3>1, <3>2, <3>3 DEF AssignNext
  <2>3. loop' \in Loops /\ LoopHasWorker'
    <3>1. CASE loop' = IdleLoop
      BY <1>0, <3>1 DEF IdleLoop, Loop, Loops, LoopHasWorker
    <3>2. CASE loop' = [loop EXCEPT !.todo = @ \ {w},
                                    !.missed = IF Missing(w) THEN @ + 1 ELSE @]
      <4>1. loop.todo \ {w} \in SUBSET (Workers \cup Experts) /\ loop.missed \in Nat
        BY <1>0 DEF Loops
      <4>2. (IF Missing(w) THEN loop.missed + 1 ELSE loop.missed) \in Nat
        BY <4>1
      <4>3. loop' \in Loops /\ loop'.at = loop.at
        BY <1>0, <3>2, <4>1, <4>2 DEF Loops
      <4>4. loop.at = "assign"
        BY <1>10 DEF AssignNext
      <4> QED  BY <4>3, <4>4 DEF LoopHasWorker
    <3> QED  BY <1>10, <3>1, <3>2 DEF AssignNext
  <2> QED  BY <1>0, <1>10, <2>2, <2>3 DEF AssignNext, tableVars, TypeInv, TypeOK, LoopHasWorker
<1>11. ASSUME NEW e \in Experts, ReportedNext(e)
       PROVE  TypeInv'
  <2> DEFINE w == loop.worker
  <2>1. w \in Workers
    BY <1>0, <1>11 DEF ReportedNext, LoopHasWorker
  <2>2. loop' \in Loops /\ LoopHasWorker'
    BY <1>0, <1>11 DEF ReportedNext, Loops, LoopHasWorker
  <2>3. CASE Send(w, workers[w], StopMsg(e)) /\ UNCHANGED <<st, queue, workers>>
    <3>1. StopMsg(e) \in DownMsgs
      BY DEF StopMsg, DownMsgs
    <3>2. down' \in [Workers -> Seq(DownMsgs)]
      BY <2>1, <2>3, <3>1, SendType
    <3> QED  BY <1>0, <1>11, <2>2, <2>3, <3>2 DEF ReportedNext, tableVars, timerVars, TypeInv, TypeOK, LoopHasWorker
  <2>4. CASE /\ st' = [st EXCEPT ![e] = Adopted(w, e)]
             /\ queue' = QueueWithout(e)
             /\ workers' = [workers EXCEPT ![w].active = @ \cup {e}]
             /\ UNCHANGED down
    <3>1. st' \in [Experts -> ExpertStates]
      BY <1>0, <2>1, <2>4 DEF Adopted, ExpertStates, States
    <3>2. queue' \in Seq(Experts)
      BY <1>0, <2>4, RemoveFirstElements DEF QueueWithout
    <3>3. workers' \in [Workers -> Conns]
      <4>1. [workers[w] EXCEPT !.active = @ \cup {e}] \in Conns
        <5>1. workers[w] \in Conns
          BY <2>1, RecordType
        <5> QED  BY <5>1 DEF Conns
      <4> QED  BY <2>1, <2>4, <4>1, RecordType
    <3> QED  BY <1>0, <1>11, <2>2, <2>4, <3>1, <3>2, <3>3 DEF ReportedNext, tableVars, timerVars, TypeInv, TypeOK, LoopHasWorker
  <2> QED  BY <1>11, <2>3, <2>4 DEF ReportedNext
<1>12. ASSUME ReportDone
       PROVE  TypeInv'
  <2>1. loop.worker \in Workers
    BY <1>0, <1>12 DEF ReportDone, LoopHasWorker
  <2>2. workers' \in [Workers -> Conns]
    <3>1. workers[loop.worker] \in Conns
      BY <2>1, RecordType
    <3>2. [workers[loop.worker] EXCEPT !.ready = TRUE] \in Conns
      BY <3>1 DEF Conns
    <3>3. workers' = [workers EXCEPT ![loop.worker] = [workers[loop.worker] EXCEPT !.ready = TRUE]]
      BY <1>12 DEF ReportDone
    <3> QED  BY <2>1, <3>2, <3>3, RecordType
  <2>3. loop' \in Loops /\ LoopHasWorker'
    BY <1>0, <1>12, <2>1 DEF ReportDone, IdleLoop, Loop, Loops, LoopHasWorker
  <2> QED  BY <1>0, <1>12, <2>2, <2>3 DEF ReportDone, tableVars, timerVars, netVars, TypeInv, TypeOK, LoopHasWorker
<1>13. ASSUME NEW e \in Experts, RequeueNext(e)
       PROVE  TypeInv'
  <2>1. queue' \in Seq(Experts)
    <3>1. queue' \in {Append(queue, e), queue}
      BY <1>13 DEF RequeueNext, QueueExpert
    <3> QED  BY <3>1, AppendType
  <2>2. st' \in [Experts -> ExpertStates]
    <3>1. st' \in {[st EXCEPT ![e].state = "queued"], st}
      BY <1>13 DEF RequeueNext, QueueExpert
    <3>2. "queued" \in States
      BY DEF States
    <3> QED  BY <3>1, <3>2, StateType
  <2>3. loop' \in Loops /\ LoopHasWorker'
    BY <1>0, <1>13 DEF RequeueNext, AssignLoop, Waiting, IdleLoop, Loop, Loops, LoopHasWorker
  <2> QED  BY <1>0, <1>13, <2>1, <2>2, <2>3 DEF RequeueNext, tableVars, timerVars, netVars, TypeInv, TypeOK, LoopHasWorker
<1>14. ASSUME Reboot
       PROVE  TypeInv'
  <2>1. queue' \in Seq(Experts)
    BY <1>14, BootQueue DEF Reboot
  <2>2. st' \in [Experts -> ExpertStates]
    BY <1>14 DEF Reboot, BootStates, Queued, Untracked, ExpertStates, States
  <2>3. workers' \in [Workers -> Conns]
    BY <1>14 DEF Reboot, NoConn, Conns
  <2>4. loop' \in Loops /\ LoopHasWorker'
    BY <1>0, <1>14 DEF Reboot, IdleLoop, Loop, Loops, LoopHasWorker
  <2>5. pend' \in [Experts -> Seq(Workers)] /\ down' \in [Workers -> Seq(DownMsgs)]
    BY <1>14, EmptySeq DEF Reboot
  <2> QED  BY <1>0, <1>14, <2>1, <2>2, <2>3, <2>4, <2>5 DEF Reboot, TypeInv, TypeOK, LoopHasWorker
<1>15. CASE UNCHANGED vars
  BY <1>0, <1>15 DEF vars, TypeInv, TypeOK, LoopHasWorker
<1> QED
  BY <1>1, <1>2, <1>3, <1>4, <1>5, <1>6, <1>7, <1>8, <1>9, <1>10, <1>11, <1>12, <1>13,
     <1>14, <1>15 DEF Next, TimerStep, LoopStep

\* The state of the scheduler keeps its shape whatever the workers send.
THEOREM TypeCorrect == Spec => []TypeOK
<1>1. Init => TypeInv
  BY TypeInit, SchedulerAssumption
<1>2. TypeInv /\ [Next]_vars => TypeInv'
  BY TypeStep, SchedulerAssumption
<1>3. TypeInv => TypeOK
  BY DEF TypeInv
<1> QED  BY <1>1, <1>2, <1>3, PTL DEF Spec

-----------------------------------------------------------------------------
(* Queued experts are in the queue.                                         *)

\* Handing out a job takes the entry of the expert that stops being queued.
LEMMA GiveJobKeepsQueued ==
    ASSUME TypeInv, QueuedIsInQueue, NEW w \in Workers, NEW c, CanAssign(w, c),
           GiveJob(w, c)
    PROVE  QueuedIsInQueue'
<1> DEFINE x == queue[FirstMatch(w)]
<1>1. x \in Experts /\ \A e \in ToSet(queue) : e # x => e \in ToSet(Dequeued(w))
  BY Selection DEF CanAssign
<1>2. st' = [st EXCEPT ![x] = [state |-> "starting", owner |-> w]] /\ queue' = Dequeued(w)
  BY DEF GiveJob
<1>3. st \in [Experts -> ExpertStates]
  BY <1>1, StateType
<1> HIDE DEF x
<1> QED  BY <1>1, <1>2, <1>3 DEF QueuedIsInQueue

\* An entry whose row is missing goes back.
LEMMA MissJobKeepsQueued ==
    ASSUME TypeInv, QueuedIsInQueue, NEW w \in Workers, NEW c, NEW timer, CanAssign(w, c),
           MissJob(w, c, timer)
    PROVE  QueuedIsInQueue'
<1> DEFINE x == queue[FirstMatch(w)]
<1>1. /\ x \in Experts
      /\ Dequeued(w) \in Seq(Experts)
      /\ \A e \in ToSet(queue) : e # x => e \in ToSet(Dequeued(w))
  BY Selection DEF CanAssign
<1>2. UNCHANGED st /\ queue' = Append(Dequeued(w), x)
  BY DEF MissJob
<1>3. ToSet(queue') = ToSet(Dequeued(w)) \cup {x}
  BY <1>1, <1>2, AppendElements
<1> HIDE DEF x
<1> QED  BY <1>1, <1>2, <1>3 DEF QueuedIsInQueue

\* queueExpert adds the entry of the expert it marks.
LEMMA QueueExpertKeepsQueued ==
    ASSUME TypeInv, QueuedIsInQueue, NEW e \in Experts, QueueExpert(e)
    PROVE  QueuedIsInQueue'
<1>1. ToSet(queue') = ToSet(queue) \cup {e}
  BY AppendElements, AppendType DEF QueueExpert
<1>2. st' = [st EXCEPT ![e].state = "queued"] /\ st \in [Experts -> ExpertStates]
  BY StateType DEF QueueExpert
<1> QED  BY <1>1, <1>2 DEF QueuedIsInQueue

\* At boot the queue holds the enabled experts, and only they are marked.
LEMMA BootQueued ==
    ASSUME SchedulerAssumption, NEW q \in SetToSeqs(Enabled), NEW e \in Experts,
           BootStates[e].state = "queued"
    PROVE  e \in ToSet(q)
<1>1. e \in Enabled
  BY DEF BootStates, Untracked
<1> QED  BY <1>1, BootQueue

\* No step leaves an expert marked queued without its entry in expertQueue.
LEMMA QueuedStep ==
    ASSUME SchedulerAssumption, TypeInv, QueuedIsInQueue, [Next]_vars
    PROVE  QueuedIsInQueue'
<1>0. st \in [Experts -> ExpertStates] /\ queue \in Seq(Experts)
  BY DEF TypeInv, TypeOK
<1>1. ASSUME NEW e \in Experts, ProcessExpert(e)
      PROVE  QueuedIsInQueue'
  <2>1. CASE StopDisabled(e)
    <3>1. queue' = queue /\ (st' = [st EXCEPT ![e].state = "stopping"] \/ st' = st)
      BY <2>1 DEF StopDisabled
    <3>2. CASE st' = st
      BY <3>1, <3>2 DEF QueuedIsInQueue
    <3>3. CASE st' = [st EXCEPT ![e].state = "stopping"]
      <4>1. \A x \in Experts : st'[x].state = "queued" => st[x].state = "queued"
        BY <3>3, StateOnly
      <4> QED  BY <3>1, <4>1 DEF QueuedIsInQueue
    <3> QED  BY <3>1, <3>2, <3>3
  <2>2. CASE QueueEnabled(e)
    BY <2>2, QueueExpertKeepsQueued DEF QueueEnabled
  <2>3. CASE RestartUpdated(e)
    <3>1. st' = [st EXCEPT ![e].state = "starting"] /\ queue' = queue
      BY <2>3 DEF RestartUpdated
    <3> QED  BY <1>0, <3>1 DEF QueuedIsInQueue
  <2>4. CASE AlreadyQueued(e)
    BY <2>4 DEF AlreadyQueued, QueuedIsInQueue
  <2> QED  BY <1>1, <2>1, <2>2, <2>3, <2>4 DEF ProcessExpert
<1>2. ASSUME NEW w \in Workers, NEW s \in Sockets, ReceiveNeedJob(w, s)
      PROVE  QueuedIsInQueue'
  <2> DEFINE c == [Conn(w, s) EXCEPT !.needsJob = TRUE]
  <2>1. CASE CanAssign(w, c) /\ GiveJob(w, c)
    BY <2>1, GiveJobKeepsQueued
  <2>2. CASE CanAssign(w, c) /\ MissJob(w, c, TRUE)
    BY <2>2, MissJobKeepsQueued
  <2>3. CASE UNCHANGED <<queue, st>>
    BY <2>3 DEF QueuedIsInQueue
  <2> QED  BY <1>2, <2>1, <2>2, <2>3 DEF ReceiveNeedJob
<1>3. ASSUME NEW w \in Workers, AssignNext(w)
      PROVE  QueuedIsInQueue'
  <2>1. CASE CanAssign(w, workers[w]) /\ GiveJob(w, workers[w])
    BY <2>1, GiveJobKeepsQueued
  <2>2. CASE CanAssign(w, workers[w]) /\ MissJob(w, workers[w], workers[w].jobTimer)
    BY <2>2, MissJobKeepsQueued
  <2>3. CASE UNCHANGED <<queue, st>>
    BY <2>3 DEF QueuedIsInQueue
  <2> QED  BY <1>3, <2>1, <2>2, <2>3 DEF AssignNext
<1>4. ASSUME NEW w \in Workers, NEW s \in Sockets, NEW e \in Experts, ReceiveStarted(w, s, e)
      PROVE  QueuedIsInQueue'
  <2>1. queue' = queue /\ (st' = [st EXCEPT ![e].state = "started"] \/ st' = st)
    BY <1>4 DEF ReceiveStarted
  <2>2. CASE st' = st
    BY <2>1, <2>2 DEF QueuedIsInQueue
  <2>3. CASE st' = [st EXCEPT ![e].state = "started"]
    <3>1. \A x \in Experts : st'[x].state = "queued" => st[x].state = "queued"
      BY <2>3, StateOnly
    <3> QED  BY <2>1, <3>1 DEF QueuedIsInQueue
  <2> QED  BY <2>1, <2>2, <2>3
<1>5. ASSUME NEW w \in Workers, NEW s \in Sockets, NEW e \in Experts, ReceiveStopped(w, s, e)
      PROVE  QueuedIsInQueue'
  <2>1. st' \in {[st EXCEPT ![e] = Untracked], st} /\ queue' = queue
    BY <1>5 DEF ReceiveStopped
  <2> QED  BY <1>0, <2>1 DEF QueuedIsInQueue, Untracked
<1>6. ASSUME NEW w \in Workers, NEW s \in Sockets, NEW m \in UpMsgs, Receive(w, s, m)
      PROVE  QueuedIsInQueue'
  <2>1. CASE ReceiveExperts(w, s, m.experts)
    BY <2>1 DEF ReceiveExperts, QueuedIsInQueue
  <2>2. m.type \in {"started", "stopped"} => m.expert \in Experts
    BY DEF UpMsgs, NeedJobMsg
  <2> QED  BY <1>2, <1>4, <1>5, <1>6, <2>1, <2>2 DEF Receive
<1>7. ASSUME NEW e \in Experts, StartTimeout(e)
      PROVE  QueuedIsInQueue'
  <2>1. CASE st' = [st EXCEPT ![e] = Queued(NoWorker)] /\ queue' = Append(queue, e)
    <3>1. ToSet(queue') = ToSet(queue) \cup {e}
      BY <1>0, <2>1, AppendElements
    <3> QED  BY <1>0, <2>1, <3>1 DEF QueuedIsInQueue, Queued
  <2>2. CASE UNCHANGED <<st, queue>>
    BY <2>2 DEF QueuedIsInQueue
  <2> QED  BY <1>7, <2>1, <2>2 DEF StartTimeout
<1>8. ASSUME NEW e \in Experts, ReportedNext(e)
      PROVE  QueuedIsInQueue'
  <2>1. CASE UNCHANGED <<st, queue>>
    BY <2>1 DEF QueuedIsInQueue
  <2>2. CASE st' = [st EXCEPT ![e] = Adopted(loop.worker, e)] /\ queue' = QueueWithout(e)
    <3>1. \A x \in ToSet(queue) : x # e => x \in ToSet(queue')
      BY <1>0, <2>2, RemoveFirstElements DEF QueueWithout
    <3>2. Adopted(loop.worker, e).state = "started"
      BY DEF Adopted
    <3> QED  BY <1>0, <2>2, <3>1, <3>2 DEF QueuedIsInQueue
  <2> QED  BY <1>8, <2>1, <2>2 DEF ReportedNext
<1>9. ASSUME NEW e \in Experts, RequeueNext(e)
      PROVE  QueuedIsInQueue'
  <2>1. CASE UNCHANGED <<st, queue>>
    BY <2>1 DEF QueuedIsInQueue
  <2> QED  BY <1>9, <2>1, QueueExpertKeepsQueued DEF RequeueNext
<1>10. ASSUME Reboot
       PROVE  QueuedIsInQueue'
  <2>1. st' = BootStates /\ queue' \in SetToSeqs(Enabled)
    BY <1>10 DEF Reboot
  <2> QED  BY <2>1, BootQueued DEF QueuedIsInQueue
<1>11. ASSUME UNCHANGED <<st, queue>>
       PROVE  QueuedIsInQueue'
  BY <1>11 DEF QueuedIsInQueue
<1>12. \/ \E e \in Experts, row \in Edits : Edit(e, row)
       \/ \E w \in Workers, s \in Sockets \cup {0} : Listen(w, s)
       \/ \E w \in Workers : \/ Deliver(w) \/ ReconnTimeout(w)
                             \/ JobTimeout(w) \/ StaleJobTimeout(w)
       \/ \E w \in Workers, s \in Sockets : SocketClosed(w, s)
       \/ ReportDone
       \/ UNCHANGED vars
       => UNCHANGED <<st, queue>>
  BY DEF Edit, Listen, Deliver, ReconnTimeout, JobTimeout, StaleJobTimeout, SocketClosed,
         ReportDone, vars
<1> QED
  BY <1>1, <1>3, <1>6, <1>7, <1>8, <1>9, <1>10, <1>11, <1>12 DEF Next, TimerStep, LoopStep

\* An expert marked queued has an entry in expertQueue, whatever the workers report and
\* whichever timers fire: no expert waits for a worker that can never be given it.
THEOREM QueuedExpertsAreInQueue == Spec => []QueuedIsInQueue
<1> DEFINE Inv == TypeInv /\ QueuedIsInQueue
<1>1. Init => Inv
  <2> SUFFICES ASSUME Init PROVE QueuedIsInQueue
    BY TypeInit, SchedulerAssumption
  <2>1. st = BootStates /\ queue \in SetToSeqs(Enabled)
    BY DEF Init
  <2> QED  BY <2>1, BootQueued, SchedulerAssumption DEF QueuedIsInQueue
<1>2. Inv /\ [Next]_vars => Inv'
  BY TypeStep, QueuedStep, SchedulerAssumption
<1>3. Inv => QueuedIsInQueue
  OBVIOUS
<1> QED  BY <1>1, <1>2, <1>3, PTL DEF Spec

-----------------------------------------------------------------------------
(* Active experts have an owner.                                            *)

\* No step leaves an expert starting, started or stopping without an owner.
LEMMA OwnedStep ==
    ASSUME SchedulerAssumption, TypeInv, OwnedWhenActive, [Next]_vars
    PROVE  OwnedWhenActive'
<1>0. st \in [Experts -> ExpertStates] /\ NoWorker \notin Workers
  BY DEF TypeInv, TypeOK, SchedulerAssumption
<1>1. ASSUME NEW e \in Experts, ProcessExpert(e)
      PROVE  OwnedWhenActive'
  <2>1. CASE st' = [st EXCEPT ![e].state = "queued"]
    BY <2>1, StateOnly DEF OwnedWhenActive
  <2>3. CASE UNCHANGED st
    BY <2>3 DEF OwnedWhenActive
  <2>2. CASE /\ st[e].owner # NoWorker
             /\ \/ st' = [st EXCEPT ![e].state = "stopping"]
                \/ st' = [st EXCEPT ![e].state = "starting"]
    BY <2>2, StateOnly DEF OwnedWhenActive
  <2> QED  BY <1>1, <2>1, <2>2, <2>3
           DEF ProcessExpert, StopDisabled, QueueEnabled, QueueExpert, RestartUpdated,
               AlreadyQueued
<1>2. ASSUME NEW w \in Workers, NEW c, CanAssign(w, c), GiveJob(w, c)
      PROVE  OwnedWhenActive'
  <2> DEFINE x == queue[FirstMatch(w)]
  <2>1. x \in Experts /\ st' = [st EXCEPT ![x] = [state |-> "starting", owner |-> w]]
    BY <1>2, Selection DEF CanAssign, GiveJob
  <2> HIDE DEF x
  <2> QED  BY <1>0, <2>1 DEF OwnedWhenActive
<1>3. ASSUME NEW w \in Workers, NEW s \in Sockets, ReceiveNeedJob(w, s)
      PROVE  OwnedWhenActive'
  <2>1. CASE UNCHANGED st
    BY <2>1 DEF OwnedWhenActive
  <2> QED  BY <1>2, <1>3, <2>1 DEF ReceiveNeedJob, MissJob
<1>4. ASSUME NEW w \in Workers, AssignNext(w)
      PROVE  OwnedWhenActive'
  <2>1. CASE UNCHANGED st
    BY <2>1 DEF OwnedWhenActive
  <2> QED  BY <1>2, <1>4, <2>1 DEF AssignNext, MissJob
<1>5. ASSUME NEW w \in Workers, NEW s \in Sockets, NEW e \in Experts, ReceiveStarted(w, s, e)
      PROVE  OwnedWhenActive'
  <2>1. \/ UNCHANGED st
        \/ st[e].owner = w /\ st' = [st EXCEPT ![e].state = "started"]
    BY <1>5 DEF ReceiveStarted
  <2> QED  BY <1>0, <2>1, StateOnly DEF OwnedWhenActive
<1>6. ASSUME NEW w \in Workers, NEW s \in Sockets, NEW e \in Experts, ReceiveStopped(w, s, e)
      PROVE  OwnedWhenActive'
  <2>1. UNCHANGED st \/ st' = [st EXCEPT ![e] = Untracked]
    BY <1>6 DEF ReceiveStopped
  <2> QED  BY <1>0, <2>1 DEF OwnedWhenActive, Untracked
<1>7. ASSUME NEW w \in Workers, NEW s \in Sockets, NEW m \in UpMsgs, Receive(w, s, m)
      PROVE  OwnedWhenActive'
  <2>1. CASE ReceiveExperts(w, s, m.experts)
    BY <2>1 DEF ReceiveExperts, OwnedWhenActive
  <2>2. m.type \in {"started", "stopped"} => m.expert \in Experts
    BY DEF UpMsgs, NeedJobMsg
  <2> QED  BY <1>3, <1>5, <1>6, <1>7, <2>1, <2>2 DEF Receive
<1>8. ASSUME NEW e \in Experts, StartTimeout(e)
      PROVE  OwnedWhenActive'
  <2>1. UNCHANGED st \/ st' = [st EXCEPT ![e] = Queued(NoWorker)]
    BY <1>8 DEF StartTimeout
  <2> QED  BY <1>0, <2>1 DEF OwnedWhenActive, Queued
<1>9. ASSUME NEW e \in Experts, ReportedNext(e)
      PROVE  OwnedWhenActive'
  <2>1. loop.worker \in Workers
    BY <1>9 DEF ReportedNext, TypeInv, LoopHasWorker
  <2>2. UNCHANGED st \/ st' = [st EXCEPT ![e] = Adopted(loop.worker, e)]
    BY <1>9 DEF ReportedNext
  <2> QED  BY <1>0, <2>1, <2>2 DEF OwnedWhenActive, Adopted
<1>10. ASSUME NEW e \in Experts, RequeueNext(e)
       PROVE  OwnedWhenActive'
  <2>1. CASE UNCHANGED st
    BY <2>1 DEF OwnedWhenActive
  <2>2. CASE st' = [st EXCEPT ![e].state = "queued"]
    BY <2>2, StateOnly DEF OwnedWhenActive
  <2> QED  BY <1>10, <2>1, <2>2 DEF RequeueNext, QueueExpert
<1>11. ASSUME Reboot
       PROVE  OwnedWhenActive'
  BY <1>11 DEF Reboot, BootStates, Queued, Untracked, OwnedWhenActive
<1>12. ASSUME UNCHANGED st
       PROVE  OwnedWhenActive'
  BY <1>12 DEF OwnedWhenActive
<1>13. \/ \E e \in Experts, row \in Edits : Edit(e, row)
       \/ \E w \in Workers, s \in Sockets \cup {0} : Listen(w, s)
       \/ \E w \in Workers : \/ Deliver(w) \/ ReconnTimeout(w)
                             \/ JobTimeout(w) \/ StaleJobTimeout(w)
       \/ \E w \in Workers, s \in Sockets : SocketClosed(w, s)
       \/ ReportDone
       \/ UNCHANGED vars
       => UNCHANGED st
  BY DEF Edit, Listen, Deliver, ReconnTimeout, JobTimeout, StaleJobTimeout, SocketClosed,
         ReportDone, vars
<1> QED
  BY <1>1, <1>4, <1>7, <1>8, <1>9, <1>10, <1>11, <1>12, <1>13 DEF Next, TimerStep, LoopStep

\* processExpert never finds a running expert without a worker id: its throw is dead code.
THEOREM ActiveExpertsAreOwned == Spec => []OwnedWhenActive
<1> DEFINE Inv == TypeInv /\ OwnedWhenActive
<1>1. Init => Inv
  <2> SUFFICES ASSUME Init PROVE OwnedWhenActive
    BY TypeInit, SchedulerAssumption
  <2> QED  BY DEF Init, BootStates, Queued, Untracked, OwnedWhenActive
<1>2. Inv /\ [Next]_vars => Inv'
  BY TypeStep, OwnedStep, SchedulerAssumption
<1>3. Inv => OwnedWhenActive
  OBVIOUS
<1> QED  BY <1>1, <1>2, <1>3, PTL DEF Spec

-----------------------------------------------------------------------------
(* Reconnection timers.                                                     *)

\* The only steps that connect a worker clear its timer.
LEMMA ReconnStep ==
    ASSUME SchedulerAssumption, TypeInv, ReconnOnlyWhenGone, [Next]_vars
    PROVE  ReconnOnlyWhenGone'
<1>0. workers \in [Workers -> Conns] /\ reconn \in [Workers -> SUBSET Experts]
  BY DEF TypeInv, TypeOK
<1> USE DEF ReconnOnlyWhenGone, Connected
<1>1. ASSUME NEW w \in Workers, NEW c, workers' = [workers EXCEPT ![w] = c],
             c.sock = workers[w].sock, UNCHANGED reconn
      PROVE  ReconnOnlyWhenGone'
  BY <1>0, <1>1
<1>2. ASSUME NEW w \in Workers, NEW c, workers' = [workers EXCEPT ![w] = c],
             reconn' = [reconn EXCEPT ![w] = {}]
      PROVE  ReconnOnlyWhenGone'
  BY <1>0, <1>2
<1>3. ASSUME NEW w \in Workers, NEW s \in Sockets, NEW c, ClearReconn(w),
             workers' = [workers EXCEPT ![w] = c], c.sock = Conn(w, s).sock
      PROVE  ReconnOnlyWhenGone'
  <2>1. CASE Connected(w)
    BY <1>1, <1>3, <2>1 DEF ClearReconn, Conn
  <2>2. CASE ~Connected(w)
    BY <1>2, <1>3, <2>2 DEF ClearReconn
  <2> QED  BY <2>1, <2>2
<1>12. ASSUME UNCHANGED <<workers, reconn>>
       PROVE  ReconnOnlyWhenGone'
  BY <1>12
<1>4. ASSUME NEW w \in Workers, NEW s \in Sockets, NEW m \in UpMsgs, Receive(w, s, m)
      PROVE  ReconnOnlyWhenGone'
  <2> DEFINE c == Conn(w, s)
  <2>0. c \in Conns
    BY ConnType
  <2>1. CASE ReceiveExperts(w, s, m.experts)
    BY <1>2, <2>1 DEF ReceiveExperts
  <2>2. CASE ReceiveNeedJob(w, s)
    <3>1. \E d \in Conns : d.sock = c.sock /\ workers' = [workers EXCEPT ![w] = d]
      <4> HIDE DEF c
      <4>1. \A x, y \in BOOLEAN : LET d == [c EXCEPT !.needsJob = x, !.jobTimer = y] IN
                                    d \in Conns /\ d.sock = c.sock
        BY <2>0 DEF Conns
      <4>2. c.jobTimer \in BOOLEAN
        BY <2>0 DEF Conns
      <4>3. \E x, y \in BOOLEAN :
               workers' = [workers EXCEPT ![w] = [c EXCEPT !.needsJob = x, !.jobTimer = y]]
        BY <2>0, <2>2, <4>2 DEF ReceiveNeedJob, GiveJob, MissJob, c, Conns
      <4> QED  BY <4>1, <4>3
    <3> QED  BY <1>3, <2>2, <3>1 DEF ReceiveNeedJob
  <2>3. CASE ReceiveStarted(w, s, m.expert)
    <3>1. WithActive(c, m.expert).sock = c.sock
      BY <2>0 DEF WithActive, Conns
    <3> QED  BY <1>3, <2>3, <3>1 DEF ReceiveStarted
  <2>4. CASE ReceiveStopped(w, s, m.expert)
    <3>1. [c EXCEPT !.active = @ \ {m.expert}].sock = c.sock
      BY <2>0 DEF Conns
    <3> QED  BY <1>3, <2>4, <3>1 DEF ReceiveStopped
  <2> QED  BY <1>4, <2>1, <2>2, <2>3, <2>4 DEF Receive
<1>5. ASSUME NEW w \in Workers, NEW s \in Sockets, SocketClosed(w, s)
      PROVE  ReconnOnlyWhenGone'
  BY <1>0, <1>5 DEF SocketClosed, NoConn
<1>6. ASSUME NEW w \in Workers, ReconnTimeout(w)
      PROVE  ReconnOnlyWhenGone'
  BY <1>0, <1>6 DEF ReconnTimeout
<1>7. ASSUME NEW w \in Workers, JobTimeout(w) \/ StaleJobTimeout(w)
      PROVE  ReconnOnlyWhenGone'
  <2>1. [workers[w] EXCEPT !.jobTimer = FALSE, !.needsJob = FALSE].sock = workers[w].sock
    BY <1>0 DEF Conns
  <2>2. workers' = [workers EXCEPT ![w] = [@ EXCEPT !.jobTimer = FALSE, !.needsJob = FALSE]]
    BY <1>7 DEF JobTimeout, StaleJobTimeout
  <2> QED  BY <1>1, <1>7, <2>1, <2>2 DEF JobTimeout, StaleJobTimeout
<1>8. ASSUME NEW w \in Workers, AssignNext(w)
      PROVE  ReconnOnlyWhenGone'
  <2>1. workers[w] \in Conns
    BY <1>0
  <2>2. \A x, y : [workers[w] EXCEPT !.needsJob = x, !.jobTimer = y].sock = workers[w].sock
    BY <2>1 DEF Conns
  <2>3. \/ UNCHANGED workers
        \/ \E x, y : workers' = [workers EXCEPT ![w] =
                                   [workers[w] EXCEPT !.needsJob = x, !.jobTimer = y]]
    BY <1>8 DEF AssignNext, GiveJob, MissJob
  <2>4. UNCHANGED reconn
    BY <1>8 DEF AssignNext
  <2>5. CASE UNCHANGED workers
    BY <1>12, <2>4, <2>5
  <2>6. ASSUME NEW x, NEW y,
               workers' = [workers EXCEPT ![w] =
                             [workers[w] EXCEPT !.needsJob = x, !.jobTimer = y]]
        PROVE  ReconnOnlyWhenGone'
    BY <1>1, <2>2, <2>4, <2>6
  <2> QED  BY <2>3, <2>5, <2>6
<1>9. ASSUME NEW e \in Experts, ReportedNext(e)
      PROVE  ReconnOnlyWhenGone'
  <2> DEFINE w == loop.worker
  <2>1. w \in Workers /\ workers[w] \in Conns
    BY <1>0, <1>9 DEF ReportedNext, TypeInv, LoopHasWorker
  <2>2. [workers[w] EXCEPT !.active = @ \cup {e}].sock = workers[w].sock
    BY <2>1 DEF Conns
  <2>3. \/ UNCHANGED workers
        \/ workers' = [workers EXCEPT ![w].active = @ \cup {e}]
    BY <1>9 DEF ReportedNext
  <2>4. UNCHANGED reconn
    BY <1>9 DEF ReportedNext
  <2>5. CASE UNCHANGED workers
    BY <1>12, <2>4, <2>5
  <2>6. CASE workers' = [workers EXCEPT ![w].active = @ \cup {e}]
    <3>1. workers' = [workers EXCEPT ![w] = [workers[w] EXCEPT !.active = @ \cup {e}]]
      BY <2>6
    <3> QED  BY <1>1, <2>1, <2>2, <2>4, <3>1
  <2> QED  BY <2>3, <2>5, <2>6
<1>10. ASSUME ReportDone
       PROVE  ReconnOnlyWhenGone'
  <2> DEFINE w == loop.worker
  <2>1. w \in Workers /\ workers[w] \in Conns
    BY <1>0, <1>10 DEF ReportDone, TypeInv, LoopHasWorker
  <2>2. [workers[w] EXCEPT !.ready = TRUE].sock = workers[w].sock
    BY <2>1 DEF Conns
  <2>3. workers' = [workers EXCEPT ![w] = [@ EXCEPT !.ready = TRUE]] /\ UNCHANGED reconn
    BY <1>10 DEF ReportDone
  <2> QED  BY <1>1, <2>1, <2>2, <2>3
<1>11. ASSUME Reboot
       PROVE  ReconnOnlyWhenGone'
  BY <1>11 DEF Reboot
<1>13. \/ \E e \in Experts, row \in Edits : Edit(e, row)
       \/ \E w \in Workers, s \in Sockets \cup {0} : Listen(w, s)
       \/ \E w \in Workers : Deliver(w)
       \/ \E e \in Experts : ProcessExpert(e) \/ StartTimeout(e) \/ RequeueNext(e)
       \/ UNCHANGED vars
       => UNCHANGED <<workers, reconn>>
  BY DEF Edit, Listen, Deliver, ProcessExpert, StartTimeout, RequeueNext, vars
<1> QED
  BY <1>4, <1>5, <1>6, <1>7, <1>8, <1>9, <1>10, <1>11, <1>12, <1>13
  DEF Next, TimerStep, LoopStep

\* A reconnection timer never outlives the reconnection of its worker: the experts of a
\* worker that came back are not requeued under it.
THEOREM ReconnectionClearsTimer == Spec => []ReconnOnlyWhenGone
<1> DEFINE Inv == TypeInv /\ ReconnOnlyWhenGone
<1>1. Init => Inv
  <2> SUFFICES ASSUME Init PROVE ReconnOnlyWhenGone
    BY TypeInit, SchedulerAssumption
  <2> QED  BY DEF Init, ReconnOnlyWhenGone
<1>2. Inv /\ [Next]_vars => Inv'
  BY TypeStep, ReconnStep, SchedulerAssumption
<1>3. Inv => ReconnOnlyWhenGone
  OBVIOUS
<1> QED  BY <1>1, <1>2, <1>3, PTL DEF Spec
=================================================================================
