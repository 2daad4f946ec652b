---------------------------- MODULE ExpertLinkProofs ----------------------------
(***************************************************************************)
(* What the scheduler guarantees about its sockets, whatever the workers   *)
(* send: it writes only to workers that are connected, and nothing is      *)
(* under way to a worker that listens on no socket.  Where no row is       *)
(* deleted it answers or times every request of a connected worker, and    *)
(* keeps its records of started, queued and starting experts consistent.   *)
(***************************************************************************)
EXTENDS ExpertSchedulerProofs

\* A worker without a connection record waits for no job.
GoneWaitsForNothing ==
    \A w \in Workers : ~Connected(w) => ~workers[w].needsJob /\ ~workers[w].jobTimer

\* A report is handled while its worker has a record.
ReporterIsConnected == loop.at = "experts" => Connected(loop.worker)

\* Nothing is under way to a worker that listens on no socket.
NothingOnNoSocket == \A w \in Workers : live[w] = 0 => down[w] = <<>>

LinkInv == TypeInv /\ GoneWaitsForNothing /\ ReporterIsConnected /\ NothingOnNoSocket

-----------------------------------------------------------------------------
(* Sending.                                                                 *)

\* What is written to the socket of a record is not written to no socket.
LEMMA SendKeepsSockets ==
    ASSUME LinkInv, NEW w \in Workers, NEW c, NEW m, c.sock # 0, Send(w, c, m),
           UNCHANGED live
    PROVE  NothingOnNoSocket'
<1>1. down \in [Workers -> Seq(DownMsgs)]
  BY DEF LinkInv, TypeInv, TypeOK
<1> QED  BY <1>1 DEF Send, LinkInv, NothingOnNoSocket

\* A record that is replaced by one with a socket, or by a blank one.
LEMMA RecordKeeps ==
    ASSUME LinkInv, NEW w \in Workers, NEW c, workers' = [workers EXCEPT ![w] = c],
           c.sock # 0 \/ (~c.needsJob /\ ~c.jobTimer)
    PROVE  GoneWaitsForNothing'
<1>1. workers \in [Workers -> Conns]
  BY DEF LinkInv, TypeInv, TypeOK
<1> QED  BY <1>1 DEF LinkInv, GoneWaitsForNothing, Connected

\* Handing out a job, or missing one, for a record c that has a socket.
LEMMA AssignKeeps ==
    ASSUME LinkInv, NEW w \in Workers, NEW c \in Conns, c.sock # 0, UNCHANGED live,
           \/ GiveJob(w, c)
           \/ \E timer \in BOOLEAN : MissJob(w, c, timer)
    PROVE  GoneWaitsForNothing' /\ NothingOnNoSocket'
<1>1. \A x, y : [c EXCEPT !.needsJob = x, !.jobTimer = y].sock = c.sock
  BY DEF Conns
<1>2. CASE GiveJob(w, c)
  <2>1. NothingOnNoSocket'
    BY <1>2, SendKeepsSockets DEF GiveJob
  <2>2. workers' = [workers EXCEPT ![w] = [c EXCEPT !.needsJob = FALSE, !.jobTimer = FALSE]]
    BY <1>2 DEF GiveJob
  <2> QED  BY <1>1, <2>1, <2>2, RecordKeeps
<1>3. ASSUME NEW timer \in BOOLEAN, MissJob(w, c, timer)
      PROVE  GoneWaitsForNothing' /\ NothingOnNoSocket'
  <2>1. UNCHANGED down
    BY <1>3 DEF MissJob
  <2>2. workers' = [workers EXCEPT ![w] = [c EXCEPT !.needsJob = FALSE, !.jobTimer = timer]]
    BY <1>3 DEF MissJob
  <2>3. NothingOnNoSocket'
    BY <2>1 DEF LinkInv, NothingOnNoSocket
  <2> QED  BY <1>1, <2>2, <2>3, RecordKeeps
<1> QED  BY <1>2, <1>3

\* The record a message is applied to has a socket.
LEMMA ConnSocket ==
    ASSUME LinkInv, NEW w \in Workers, NEW s \in Sockets
    PROVE  Conn(w, s) \in Conns /\ Conn(w, s).sock # 0
<1>1. Conn(w, s) \in Conns
  BY ConnType DEF LinkInv
<1>2. s \in Nat /\ s # 0
  BY DEF Sockets
<1> QED  BY <1>1, <1>2 DEF Conn, Fresh, NoConn, Connected

-----------------------------------------------------------------------------
(* The steps.                                                               *)

\* A step that touches no record, nor the sockets, and starts no report.
LEMMA OthersKeep ==
    ASSUME LinkInv, UNCHANGED <<workers, live, down>>, loop'.at # "experts" \/ UNCHANGED loop
    PROVE  GoneWaitsForNothing' /\ ReporterIsConnected' /\ NothingOnNoSocket'
BY DEF LinkInv, GoneWaitsForNothing, ReporterIsConnected, NothingOnNoSocket, Connected

\* A scheduler that has just booted has no socket to write to.
LEMMA LinkInit == ASSUME SchedulerAssumption, Init PROVE LinkInv
<1>1. TypeInv
  BY TypeInit
<1> QED  BY <1>1 DEF Init, LinkInv, GoneWaitsForNothing, ReporterIsConnected,
                     NothingOnNoSocket, NoConn, IdleLoop, Loop

\* Every step keeps to the sockets of connected workers.
LEMMA LinkStep ==
    ASSUME SchedulerAssumption, LinkInv, [Next]_vars
    PROVE  LinkInv'
<1> DEFINE Goal == GoneWaitsForNothing /\ ReporterIsConnected /\ NothingOnNoSocket
<1>0. /\ TypeInv'
      /\ workers \in [Workers -> Conns] /\ down \in [Workers -> Seq(DownMsgs)]
  BY TypeStep DEF LinkInv, TypeInv, TypeOK
<1>1. ASSUME NEW w \in Workers, NEW s \in Sockets \cup {0}, Listen(w, s)
      PROVE  Goal'
  BY <1>0, <1>1 DEF Listen, LinkInv, GoneWaitsForNothing, ReporterIsConnected,
                    NothingOnNoSocket, Connected
<1>2. ASSUME NEW w \in Workers, Deliver(w)
      PROVE  Goal'
  <2>1. live[w] # 0
    BY <1>2 DEF Deliver, LinkInv, NothingOnNoSocket
  <2> QED  BY <1>0, <1>2, <2>1 DEF Deliver, LinkInv, GoneWaitsForNothing,
                    ReporterIsConnected, NothingOnNoSocket, Connected
<1>3. ASSUME NEW e \in Experts, ProcessExpert(e)
      PROVE  Goal'
  <2>0. UNCHANGED <<workers, live>> /\ Idle
    BY <1>3 DEF ProcessExpert
  <2>1. NothingOnNoSocket'
    <3>1. CASE UNCHANGED down
      BY <2>0, <3>1 DEF LinkInv, NothingOnNoSocket
    <3>2. CASE StopDisabled(e)
      <4> DEFINE w == st[e].owner
      <4>1. st[e].owner \in Workers \cup {NoWorker}
        BY DEF LinkInv, TypeInv, TypeOK, ExpertStates
      <4>2. CASE w # NoWorker /\ Connected(w) /\ workers[w].sock = live[w]
        BY <1>0, <2>0, <3>2, <4>1, <4>2 DEF StopDisabled, LinkInv, NothingOnNoSocket, Connected
      <4> QED  BY <3>1, <3>2, <4>2 DEF StopDisabled
    <3>3. CASE RestartUpdated(e)
      <4> DEFINE w == st[e].owner
      <4>1. CASE Connected(w)
        <5>1. w \in Workers
          BY <3>3 DEF RestartUpdated, LinkInv, TypeInv, TypeOK, ExpertStates
        <5>2. Send(w, workers[w], RestartMsg(e)) /\ workers[w].sock # 0
          BY <3>3, <4>1 DEF RestartUpdated, Connected
        <5> QED  BY <2>0, <5>1, <5>2, SendKeepsSockets
      <4> QED  BY <3>1, <3>3, <4>1 DEF RestartUpdated
    <3> QED  BY <1>3, <3>1, <3>2, <3>3 DEF ProcessExpert, QueueEnabled, AlreadyQueued
  <2>2. loop'.at # "experts"
    BY <1>3 DEF ProcessExpert, StopDisabled, QueueEnabled, RestartUpdated, AlreadyQueued,
                AssignLoop, IdleLoop, Loop, Idle
  <2> QED  BY <2>0, <2>1, <2>2 DEF LinkInv, GoneWaitsForNothing, ReporterIsConnected, Connected
<1>4. ASSUME NEW w \in Workers, NEW s \in Sockets, NEW m \in UpMsgs, Receive(w, s, m)
      PROVE  Goal'
  <2> DEFINE c == Conn(w, s)
  <2>0. c \in Conns /\ c.sock # 0
    BY ConnSocket
  <2> HIDE DEF c
  <2>1. CASE ReceiveExperts(w, s, m.experts)
    <3>1. workers' = [workers EXCEPT ![w] = [c EXCEPT !.active = {}]]
      BY <2>1 DEF ReceiveExperts, c
    <3>2. [c EXCEPT !.active = {}].sock # 0
      BY <2>0 DEF Conns
    <3>3. GoneWaitsForNothing'
      BY <3>1, <3>2, RecordKeeps
    <3>4. ReporterIsConnected' /\ NothingOnNoSocket'
      BY <1>0, <2>1, <3>1, <3>2 DEF ReceiveExperts, ReporterIsConnected, NothingOnNoSocket,
         Connected, Loop, netVars, LinkInv
    <3> QED  BY <3>3, <3>4
  <2>2. CASE ReceiveNeedJob(w, s)
    <3> DEFINE d == [c EXCEPT !.needsJob = TRUE]
    <3>1. d \in Conns /\ d.sock # 0
      BY <2>0 DEF Conns
    <3>2. /\ UNCHANGED <<live, loop>> /\ Idle
          /\ IF CanAssign(w, d)
               THEN GiveJob(w, d) \/ MissJob(w, d, TRUE)
               ELSE /\ workers' = [workers EXCEPT ![w] =
                               [d EXCEPT !.jobTimer = IF d.ready THEN TRUE ELSE @]]
                    /\ UNCHANGED <<queue, st, timerVars, down>>
      BY <2>2 DEF ReceiveNeedJob, c
    <3> HIDE DEF d
    <3>3. ReporterIsConnected'
      BY <3>2 DEF ReporterIsConnected, Idle
    <3>4. CASE GiveJob(w, d) \/ MissJob(w, d, TRUE)
      BY <3>1, <3>2, <3>3, <3>4, AssignKeeps
    <3>5. ASSUME NEW b, workers' = [workers EXCEPT ![w] = [d EXCEPT !.jobTimer = b]],
                 UNCHANGED down
          PROVE  Goal'
      <4>1. [d EXCEPT !.jobTimer = b].sock # 0
        BY <3>1 DEF Conns
      <4>2. GoneWaitsForNothing'
        BY <3>5, <4>1, RecordKeeps
      <4> QED  BY <3>2, <3>3, <3>5, <4>2 DEF NothingOnNoSocket, LinkInv
    <3> QED  BY <3>2, <3>4, <3>5
  <2>3. CASE ReceiveStarted(w, s, m.expert)
    <3>1. WithActive(c, m.expert).sock # 0
      BY <2>0 DEF WithActive, Conns
    <3>2. \E d \in {c, WithActive(c, m.expert)} : workers' = [workers EXCEPT ![w] = d]
      BY <2>3 DEF ReceiveStarted, c
    <3>3. GoneWaitsForNothing'
      BY <2>0, <3>1, <3>2, RecordKeeps
    <3> QED  BY <2>3, <3>3 DEF ReceiveStarted, ReporterIsConnected, NothingOnNoSocket, LinkInv,
                               Idle, netVars
  <2>4. CASE ReceiveStopped(w, s, m.expert)
    <3> DEFINE a == [c EXCEPT !.active = @ \ {m.expert}]
    <3>1. a.sock # 0
      BY <2>0 DEF Conns
    <3>2. \E d \in {c, a} : workers' = [workers EXCEPT ![w] = d]
      BY <2>4 DEF ReceiveStopped, c
    <3>3. GoneWaitsForNothing'
      <4> HIDE DEF a
      <4> QED  BY <2>0, <3>1, <3>2, RecordKeeps
    <3> QED  BY <2>4, <3>3 DEF ReceiveStopped, ReporterIsConnected, NothingOnNoSocket, LinkInv,
                               Idle, netVars
  <2> QED  BY <1>4, <2>1, <2>2, <2>3, <2>4 DEF Receive
<1>5. ASSUME NEW w \in Workers, NEW s \in Sockets, SocketClosed(w, s)
      PROVE  Goal'
  <2>1. workers' = [workers EXCEPT ![w] = NoConn] \/ UNCHANGED workers
    BY <1>5 DEF SocketClosed
  <2>2. GoneWaitsForNothing'
    BY <2>1, RecordKeeps DEF NoConn, LinkInv, GoneWaitsForNothing, Connected
  <2> QED  BY <1>5, <2>2 DEF SocketClosed, ReporterIsConnected, NothingOnNoSocket, LinkInv,
                             Idle, netVars
<1>6. ASSUME NEW w \in Workers, JobTimeout(w) \/ StaleJobTimeout(w)
      PROVE  Goal'
  <2>1. workers' = [workers EXCEPT ![w] = [@ EXCEPT !.jobTimer = FALSE, !.needsJob = FALSE]]
    BY <1>6 DEF JobTimeout, StaleJobTimeout
  <2>2. ~[workers[w] EXCEPT !.jobTimer = FALSE, !.needsJob = FALSE].needsJob
        /\ ~[workers[w] EXCEPT !.jobTimer = FALSE, !.needsJob = FALSE].jobTimer
    BY <1>0 DEF Conns
  <2>3. GoneWaitsForNothing'
    BY <2>1, <2>2, RecordKeeps
  <2>4. UNCHANGED <<live, loop>> /\ Idle
    BY <1>6 DEF JobTimeout, StaleJobTimeout
  <2>5. UNCHANGED down \/ (workers[w].sock # 0 /\ Send(w, workers[w], NoJobMsg))
    BY <1>6 DEF JobTimeout, StaleJobTimeout, SendIf, LinkInv, GoneWaitsForNothing, Connected
  <2>6. NothingOnNoSocket'
    BY <2>4, <2>5, SendKeepsSockets DEF NothingOnNoSocket, LinkInv
  <2> QED  BY <2>3, <2>4, <2>6 DEF ReporterIsConnected, Idle
<1>7. ASSUME NEW w \in Workers, AssignNext(w)
      PROVE  Goal'
  <2>1. /\ loop'.at # "experts"
        /\ UNCHANGED live
    BY <1>7 DEF AssignNext, IdleLoop, Loop, LinkInv, TypeInv, TypeOK, Loops
  <2>2. ReporterIsConnected'
    BY <2>1 DEF ReporterIsConnected
  <2>3. CASE UNCHANGED <<workers, down>>
    BY <2>1, <2>3, OthersKeep
  <2>4. CASE /\ CanAssign(w, workers[w])
             /\ \/ GiveJob(w, workers[w])
                \/ \E timer \in BOOLEAN : MissJob(w, workers[w], timer)
    <3>1. workers[w] \in Conns /\ workers[w].sock # 0
      BY <1>0, <2>4 DEF CanAssign, LinkInv, GoneWaitsForNothing, Connected
    <3> QED  BY <2>1, <2>2, <2>4, <3>1, AssignKeeps
  <2>5. workers[w].jobTimer \in BOOLEAN
    BY <1>0 DEF Conns
  <2> QED  BY <1>7, <2>3, <2>4, <2>5 DEF AssignNext
<1>8. ASSUME NEW e \in Experts, ReportedNext(e)
      PROVE  Goal'
  <2> DEFINE w == loop.worker
             a == [workers[w] EXCEPT !.active = @ \cup {e}]
  <2>1. w \in Workers /\ workers[w] \in Conns /\ workers[w].sock # 0
    BY <1>0, <1>8 DEF ReportedNext, LinkInv, TypeInv, LoopHasWorker, ReporterIsConnected,
                      Connected
  <2>2. /\ UNCHANGED live
        /\ loop'.worker = w
        /\ \/ UNCHANGED workers /\ Send(w, workers[w], StopMsg(e))
           \/ workers' = [workers EXCEPT ![w] = a] /\ UNCHANGED down
    BY <1>8 DEF ReportedNext, LinkInv, TypeInv, TypeOK, Loops
  <2>3. a.sock = workers[w].sock
    BY <2>1 DEF Conns
  <2> HIDE DEF w, a
  <2>4. CASE UNCHANGED workers /\ Send(w, workers[w], StopMsg(e))
    BY <2>1, <2>2, <2>4, SendKeepsSockets DEF LinkInv, GoneWaitsForNothing, ReporterIsConnected,
                                              Connected
  <2>5. CASE workers' = [workers EXCEPT ![w] = a] /\ UNCHANGED down
    <3>1. GoneWaitsForNothing'
      BY <2>1, <2>3, <2>5, RecordKeeps
    <3>2. workers'[w].sock # 0
      BY <1>0, <2>1, <2>3, <2>5
    <3> QED  BY <2>2, <2>5, <3>1, <3>2 DEF LinkInv, NothingOnNoSocket, ReporterIsConnected,
                                           Connected
  <2> QED  BY <2>2, <2>4, <2>5
<1>9. ASSUME ReportDone
      PROVE  Goal'
  <2> DEFINE w == loop.worker
             a == [workers[w] EXCEPT !.ready = TRUE]
  <2>1. w \in Workers /\ workers[w] \in Conns /\ workers[w].sock # 0
    BY <1>0, <1>9 DEF ReportDone, LinkInv, TypeInv, LoopHasWorker, ReporterIsConnected,
                      Connected
  <2>2. UNCHANGED <<live, down>> /\ workers' = [workers EXCEPT ![w] = a]
        /\ loop'.at # "experts"
    BY <1>9 DEF ReportDone, netVars, IdleLoop, Loop
  <2>3. a.sock # 0
    BY <2>1 DEF Conns
  <2> HIDE DEF w, a
  <2>4. GoneWaitsForNothing'
    BY <2>1, <2>2, <2>3, RecordKeeps
  <2> QED  BY <2>2, <2>4 DEF LinkInv, NothingOnNoSocket, ReporterIsConnected
<1>10. ASSUME Reboot
       PROVE  Goal'
  BY <1>10 DEF Reboot, GoneWaitsForNothing, ReporterIsConnected, NothingOnNoSocket, Connected,
               NoConn, IdleLoop, Loop
<1>11. \/ \E e \in Experts, row \in Edits : Edit(e, row)
       \/ \E e \in Experts : StartTimeout(e) \/ RequeueNext(e)
       \/ \E w \in Workers : ReconnTimeout(w)
       \/ UNCHANGED vars
       => Goal'
  <2>1. \/ \E e \in Experts, row \in Edits : Edit(e, row)
        \/ \E e \in Experts : StartTimeout(e)
        \/ UNCHANGED vars
        => UNCHANGED <<workers, live, down, loop>>
    BY DEF Edit, StartTimeout, netVars, vars
  <2>2. ASSUME NEW w \in Workers, ReconnTimeout(w)
        PROVE  UNCHANGED <<workers, live, down>> /\ loop'.at # "experts"
    BY <2>2 DEF ReconnTimeout, netVars, Loop
  <2>3. ASSUME NEW e \in Experts, RequeueNext(e)
        PROVE  UNCHANGED <<workers, live, down>> /\ loop'.at # "experts"
    BY <2>3 DEF RequeueNext, netVars, Loop, AssignLoop, IdleLoop, LinkInv, TypeInv, TypeOK, Loops
  <2> QED  BY <2>1, <2>2, <2>3, OthersKeep
<1>12. Goal'
  BY <1>1, <1>2, <1>3, <1>4, <1>5, <1>6, <1>7, <1>8, <1>9, <1>10, <1>11
     DEF Next, TimerStep, LoopStep
<1> QED  BY <1>0, <1>12 DEF LinkInv

\* The scheduler never writes to a socket that is not there: nothing is under way to a
\* worker that listens on none, and nothing waits to reach the worker's next socket.
THEOREM SocketsStartEmpty == Spec => []NothingOnNoSocket
<1>1. Init => LinkInv
  BY LinkInit, SchedulerAssumption
<1>2. LinkInv /\ [Next]_vars => LinkInv'
  BY LinkStep, SchedulerAssumption
<1>3. LinkInv => NothingOnNoSocket
  BY DEF LinkInv
<1> QED  BY <1>1, <1>2, <1>3, PTL DEF Spec

-----------------------------------------------------------------------------
(* Where no row is deleted, every expert the scheduler knows has a row.     *)

\* The premise: a miss of a job, which leaves a worker without an answer, needs a queued
\* expert without a row.
RowsStay == "absent" \notin Edits

\* An expert without a row is neither tracked nor queued.
Present ==
    /\ \A e \in Experts : db[e] = "absent" => st[e] = Untracked /\ e \notin ToSet(queue)
    /\ loop.at = "requeue" => loop.worker \in Workers

\* Only experts with a row enter a state or the queue.
LEMMA PresentKeeps ==
    ASSUME Present,
           \A e \in Experts : db'[e] = "absent" => db[e] = "absent",
           \A e \in Experts : st'[e] = st[e] \/ st'[e] = Untracked \/ db[e] # "absent",
           \A e \in ToSet(queue') : e \in ToSet(queue) \/ db[e] # "absent",
           loop'.at = "requeue" => loop'.worker \in Workers
    PROVE  Present'
BY DEF Present, Untracked

\* Taking an entry out of the queue adds none.
LEMMA DequeuedElements ==
    ASSUME TypeInv, NEW w \in Workers, Matches(w) # {}
    PROVE  /\ ToSet(Dequeued(w)) \subseteq ToSet(queue)
           /\ queue[FirstMatch(w)] \in ToSet(queue) /\ queue[FirstMatch(w)] \in Experts
<1>1. /\ FirstMatch(w) \in 1..Len(queue) /\ queue[FirstMatch(w)] \in Experts
      /\ queue \in Seq(Experts)
  BY Selection DEF TypeInv, TypeOK
<1>2. queue \in Seq(ToSet(queue)) /\ DOMAIN queue = 1..Len(queue)
  BY <1>1, LenProperties DEF ToSet
<1>3. Dequeued(w) \in Seq(ToSet(queue))
  BY <1>1, <1>2, RemoveAtElements DEF Dequeued
<1> QED  BY <1>1, <1>2, <1>3 DEF ToSet

\* Handing out a job.  There is none to miss.
LEMMA GivePresent ==
    ASSUME TypeInv, Present, NEW w \in Workers, NEW c, CanAssign(w, c), UNCHANGED db,
           \/ GiveJob(w, c)
           \/ \E timer : MissJob(w, c, timer)
    PROVE  /\ GiveJob(w, c)
           /\ \A e \in Experts : st'[e] = st[e] \/ db[e] # "absent"
           /\ ToSet(queue') \subseteq ToSet(queue)
<1> DEFINE x == queue[FirstMatch(w)]
<1>1. x \in Experts /\ x \in ToSet(queue) /\ ToSet(Dequeued(w)) \subseteq ToSet(queue)
  BY DequeuedElements DEF CanAssign
<1>2. db[x] # "absent"
  BY <1>1 DEF Present
<1>3. GiveJob(w, c)
  BY <1>2 DEF MissJob
<1>4. /\ st' = [st EXCEPT ![x] = [state |-> "starting", owner |-> w]]
      /\ queue' = Dequeued(w)
  BY <1>3 DEF GiveJob
<1> HIDE DEF x
<1>5. st \in [Experts -> ExpertStates]
  BY DEF TypeInv, TypeOK
<1> QED  BY <1>1, <1>2, <1>3, <1>4, <1>5

\* At first every expert in the queue is enabled.
LEMMA PresentInit == ASSUME SchedulerAssumption, Init PROVE Present
<1>1. ToSet(queue) = Enabled
  BY BootQueue DEF Init
<1> QED  BY <1>1 DEF Init, Present, BootStates, Enabled, IdleLoop, Loop

\* Every expert in the queue keeps its row.
LEMMA PresentStep ==
    ASSUME SchedulerAssumption, RowsStay, LinkInv, Present, [Next]_vars
    PROVE  Present'
<1>0. /\ st \in [Experts -> ExpertStates] /\ queue \in Seq(Experts) /\ db \in [Experts -> Rows]
      /\ \A w \in Workers : workers[w] \in Conns
      /\ loop \in Loops
      /\ NoWorker \notin Workers
  BY DEF LinkInv, TypeInv, TypeOK, SchedulerAssumption
<1>1. CASE UNCHANGED <<db, st, queue>> /\ (loop'.at = "requeue" => loop'.worker \in Workers)
  BY <1>1 DEF Present
<1>2. CASE \E e \in Experts, row \in Edits : Edit(e, row)
  <2>1. PICK e \in Experts, row \in Edits : Edit(e, row)
    BY <1>2
  <2>2. row # "absent" /\ db' = [db EXCEPT ![e] = row] /\ UNCHANGED <<st, queue, loop>>
    BY <2>1 DEF RowsStay, Edit
  <2> QED  BY <1>0, <2>2, PresentKeeps DEF Present
<1>3. ASSUME NEW e \in Experts, ProcessExpert(e) PROVE Present'
  <2>1. UNCHANGED db /\ Idle /\ db[e] # "absent" /\ loop'.at # "requeue"
    BY <1>3 DEF ProcessExpert, StopDisabled, QueueEnabled, RestartUpdated, AlreadyQueued, AssignLoop,
                IdleLoop, Loop, Idle
  <2>2. \A f \in Experts : st'[f] = st[f] \/ f = e
    <3>1. UNCHANGED st \/ \E x : st' = [st EXCEPT ![e].state = x]
      BY <1>3 DEF ProcessExpert, StopDisabled, QueueEnabled, RestartUpdated, AlreadyQueued, QueueExpert
    <3> QED  BY <1>0, <3>1
  <2>3. \A f \in ToSet(queue') : f \in ToSet(queue) \/ f = e
    <3>1. UNCHANGED queue \/ queue' = Append(queue, e)
      BY <1>3 DEF ProcessExpert, StopDisabled, QueueEnabled, RestartUpdated, AlreadyQueued, QueueExpert
    <3>2. queue' = Append(queue, e) => ToSet(queue') = ToSet(queue) \cup {e}
      BY <1>0, AppendElements
    <3> QED  BY <3>1, <3>2
  <2> QED  BY <2>1, <2>2, <2>3, PresentKeeps
<1>4. ASSUME NEW w \in Workers, NEW s \in Sockets, NEW m \in UpMsgs, Receive(w, s, m) PROVE Present'
  <2> DEFINE e == m.expert
  <2>0. m.type \in {"started", "stopped"} => e \in Experts
    BY DEF UpMsgs, NeedJobMsg
  <2>1. CASE ReceiveExperts(w, s, m.experts)
    BY <1>1, <2>1 DEF ReceiveExperts, tableVars, Loop
  <2>2. CASE ReceiveNeedJob(w, s)
    <3> DEFINE c == [Conn(w, s) EXCEPT !.needsJob = TRUE]
    <3>1. UNCHANGED <<db, loop>>
      BY <2>2 DEF ReceiveNeedJob, tableVars
    <3>2. CASE CanAssign(w, c)
      <4>1. GiveJob(w, c) \/ MissJob(w, c, TRUE)
        BY <2>2, <3>2 DEF ReceiveNeedJob
      <4> HIDE DEF c
      <4>2. /\ \A f \in Experts : st'[f] = st[f] \/ db[f] # "absent"
            /\ ToSet(queue') \subseteq ToSet(queue)
        BY <3>1, <3>2, <4>1, GivePresent DEF LinkInv
      <4> QED  BY <3>1, <4>2, PresentKeeps DEF Present
    <3>3. CASE ~CanAssign(w, c)
      BY <1>1, <2>2, <3>1, <3>3 DEF ReceiveNeedJob, Present
    <3> QED  BY <3>2, <3>3
  <2>3. CASE m.type = "started" /\ ReceiveStarted(w, s, e)
    <3>1. UNCHANGED <<db, queue, loop>>
      BY <2>3 DEF ReceiveStarted, tableVars
    <3>2. \A f \in Experts : st'[f] = st[f] \/ (f = e /\ st[f].owner = w)
      BY <1>0, <2>3 DEF ReceiveStarted
    <3>3. \A f \in Experts : st[f].owner = w => db[f] # "absent"
      BY <1>0 DEF Present, Untracked
    <3> QED  BY <3>1, <3>2, <3>3, PresentKeeps DEF Present
  <2>4. CASE m.type = "stopped" /\ ReceiveStopped(w, s, e)
    <3>1. UNCHANGED <<db, queue, loop>>
      BY <2>4 DEF ReceiveStopped, tableVars
    <3>2. \A f \in Experts : st'[f] = st[f] \/ st'[f] = Untracked
      BY <1>0, <2>4 DEF ReceiveStopped
    <3> QED  BY <3>1, <3>2, PresentKeeps DEF Present
  <2> QED  BY <1>4, <2>1, <2>2, <2>3, <2>4 DEF Receive
<1>5. ASSUME NEW w \in Workers, AssignNext(w) PROVE Present'
  <2> DEFINE c == workers[w]
  <2>1. UNCHANGED db /\ loop'.at # "requeue"
    BY <1>0, <1>5 DEF AssignNext, tableVars, IdleLoop, Loop, Loops
  <2>2. CASE CanAssign(w, c)
    <3>1. GiveJob(w, c) \/ MissJob(w, c, c.jobTimer)
      BY <1>5, <2>2 DEF AssignNext
    <3> HIDE DEF c
    <3>2. /\ \A f \in Experts : st'[f] = st[f] \/ db[f] # "absent"
          /\ ToSet(queue') \subseteq ToSet(queue)
      BY <2>1, <2>2, <3>1, GivePresent DEF LinkInv
    <3> QED  BY <2>1, <3>2, PresentKeeps
  <2>3. CASE ~CanAssign(w, c)
    BY <1>1, <1>5, <2>1, <2>3 DEF AssignNext
  <2> QED  BY <2>2, <2>3
<1>6. ASSUME NEW e \in Experts, ReportedNext(e) PROVE Present'
  <2>1. UNCHANGED db /\ loop'.at # "requeue"
    BY <1>0, <1>6 DEF ReportedNext, tableVars, Loops
  <2>2. CASE UNCHANGED <<st, queue>>
    BY <1>1, <2>1, <2>2
  <2>3. CASE /\ ~Refused(loop.worker, e) /\ queue' = QueueWithout(e)
             /\ st' = [st EXCEPT ![e] = Adopted(loop.worker, e)]
    <3>1. db[e] # "absent"
      BY <2>3 DEF Refused, Present, Untracked
    <3>2. ToSet(queue') \subseteq ToSet(queue)
      <4>1. queue \in Seq(ToSet(queue))
        BY <1>0 DEF ToSet
      <4>2. queue' \in Seq(ToSet(queue))
        BY <2>3, <4>1, RemoveFirstElements DEF QueueWithout
      <4> QED  BY <4>2 DEF ToSet
    <3>3. \A f \in Experts : st'[f] = st[f] \/ f = e
      BY <1>0, <2>3
    <3> QED  BY <2>1, <3>1, <3>2, <3>3, PresentKeeps
  <2> QED  BY <1>6, <2>2, <2>3 DEF ReportedNext
<1>7. ASSUME NEW e \in Experts, StartTimeout(e) PROVE Present'
  <2>1. UNCHANGED <<db, loop>>
    BY <1>7 DEF StartTimeout, tableVars
  <2>2. CASE UNCHANGED <<st, queue>>
    BY <1>1, <2>1, <2>2 DEF Present
  <2>3. CASE st[e].state = "starting" /\ st' = [st EXCEPT ![e] = Queued(NoWorker)] /\ queue' = Append(queue, e)
    <3>1. db[e] # "absent"
      BY <2>3 DEF Present, Untracked
    <3>2. ToSet(queue') = ToSet(queue) \cup {e}
      BY <1>0, <2>3, AppendElements
    <3>3. \A f \in Experts : st'[f] = st[f] \/ f = e
      BY <1>0, <2>3
    <3> QED  BY <2>1, <3>1, <3>2, <3>3, PresentKeeps DEF Present
  <2> QED  BY <1>7, <2>2, <2>3 DEF StartTimeout
<1>8. ASSUME NEW e \in Experts, RequeueNext(e) PROVE Present'
  <2>1. UNCHANGED db /\ loop.at = "requeue" /\ loop.worker \in Workers
    BY <1>8 DEF RequeueNext, tableVars, Present
  <2>2. loop'.at = "requeue" => loop'.worker \in Workers
    BY <1>0, <1>8, <2>1 DEF RequeueNext, AssignLoop, IdleLoop, Loop, Loops
  <2>3. CASE UNCHANGED <<st, queue>>
    BY <1>1, <2>1, <2>2, <2>3
  <2>4. CASE st[e].owner = loop.worker /\ QueueExpert(e)
    <3>1. db[e] # "absent"
      BY <1>0, <2>1, <2>4 DEF Present, Untracked
    <3>2. ToSet(queue') = ToSet(queue) \cup {e}
      BY <1>0, <2>4, AppendElements DEF QueueExpert
    <3>3. \A f \in Experts : st'[f] = st[f] \/ f = e
      BY <1>0, <2>4 DEF QueueExpert
    <3> QED  BY <2>1, <2>2, <3>1, <3>2, <3>3, PresentKeeps
  <2> QED  BY <1>8, <2>3, <2>4 DEF RequeueNext
<1>9. CASE Reboot
  <2>1. queue' \in SetToSeqs(Enabled) /\ st' = BootStates /\ loop' = IdleLoop /\ UNCHANGED db
    BY <1>9 DEF Reboot
  <2>2. ToSet(queue') = Enabled
    BY <2>1, BootQueue
  <2> QED  BY <2>1, <2>2 DEF Present, BootStates, Enabled, IdleLoop, Loop
<1>10. CASE \/ \E w \in Workers, s \in Sockets \cup {0} : Listen(w, s)
            \/ \E w \in Workers : Deliver(w)
            \/ \E w \in Workers, s \in Sockets : SocketClosed(w, s)
            \/ \E w \in Workers : JobTimeout(w) \/ StaleJobTimeout(w)
            \/ UNCHANGED vars
  <2>1. UNCHANGED <<db, st, queue, loop>>
    BY <1>10 DEF Listen, Deliver, SocketClosed, JobTimeout, StaleJobTimeout, tableVars, vars
  <2> QED  BY <1>1, <2>1 DEF Present
<1>11. ASSUME NEW w \in Workers, ReconnTimeout(w) PROVE Present'
  <2>1. UNCHANGED <<db, st, queue>> /\ loop'.worker = w
    BY <1>11 DEF ReconnTimeout, tableVars, Loop
  <2> QED  BY <1>1, <2>1
<1>12. CASE ReportDone
  <2>1. UNCHANGED <<db, st, queue>> /\ loop'.at # "requeue"
    BY <1>12 DEF ReportDone, tableVars, Loop, IdleLoop
  <2> QED  BY <1>1, <2>1
<1> QED
  BY <1>2, <1>3, <1>4, <1>5, <1>6, <1>7, <1>8, <1>9, <1>10, <1>11, <1>12 DEF Next, TimerStep, LoopStep

-----------------------------------------------------------------------------
(* What the scheduler does not take from a worker whose messages it is not  *)
(* reading: neither the record nor what is under way to it, and a request   *)
(* that is timed stays timed until it is answered.                          *)

Ready(w) == workers[w].ready \/ (loop.at = "experts" /\ loop.worker = w)
Timed(w) == workers[w].needsJob /\ workers[w].jobTimer
Answers(w) == {m \in ToSet(down[w]) : m.type \in {"job", "no_job"}}

Rests(w) ==
    /\ live'[w] = live[w]
    /\ workers'[w].sock = workers[w].sock
    /\ Ready(w) => Ready(w)'
    /\ ToSet(down[w]) \subseteq ToSet(down'[w])
    /\ Timed(w) /\ workers[w].sock = live[w] => Timed(w)' \/ Answers(w)' # {}

\* Sending adds to what is under way to one worker.
LEMMA SendAdds ==
    ASSUME TypeInv, NEW w \in Workers, NEW c, NEW m \in DownMsgs, Send(w, c, m)
    PROVE  /\ \A v \in Workers : ToSet(down[v]) \subseteq ToSet(down'[v])
           /\ c.sock = live[w] => m \in ToSet(down'[w])
<1>1. down \in [Workers -> Seq(DownMsgs)]
  BY DEF TypeInv, TypeOK
<1>2. ToSet(Append(down[w], m)) = ToSet(down[w]) \cup {m}
  BY <1>1, AppendElements
<1> QED  BY <1>1, <1>2 DEF Send

\* What the scheduler sends.
LEMMA MessageTypes ==
    ASSUME NEW e \in Experts
    PROVE  {JobMsg(e), RestartMsg(e), StopMsg(e), NoJobMsg} \subseteq DownMsgs
BY DEF JobMsg, RestartMsg, StopMsg, NoJobMsg, DownMsgs

\* A worker with a job under way for its record c is answered.
LEMMA GiveRests ==
    ASSUME TypeInv, NEW w \in Workers, NEW c \in Conns, CanAssign(w, c), GiveJob(w, c)
    PROVE  /\ \A v \in Workers : ToSet(down[v]) \subseteq ToSet(down'[v])
           /\ c.sock = live[w] => Answers(w)' # {}
           /\ workers'[w].sock = c.sock /\ workers'[w].ready = c.ready
           /\ \A v \in Workers \ {w} : workers'[v] = workers[v]
<1> DEFINE x == queue[FirstMatch(w)]
<1>1. x \in Experts
  BY Selection DEF CanAssign
<1>2. Send(w, c, JobMsg(x))
  BY DEF GiveJob
<1>3. workers' = [workers EXCEPT ![w] = [c EXCEPT !.needsJob = FALSE, !.jobTimer = FALSE]]
  BY DEF GiveJob
<1> HIDE DEF x
<1>4. JobMsg(x) \in DownMsgs /\ JobMsg(x).type = "job"
  BY <1>1, MessageTypes DEF JobMsg
<1>5. workers \in [Workers -> Conns]
  BY DEF TypeInv, TypeOK
<1>6. /\ \A v \in Workers : ToSet(down[v]) \subseteq ToSet(down'[v])
      /\ c.sock = live[w] => JobMsg(x) \in ToSet(down'[w])
  BY <1>2, <1>4, SendAdds
<1>7. workers'[w].sock = c.sock /\ workers'[w].ready = c.ready
  BY <1>3, <1>5 DEF Conns
<1> QED  BY <1>3, <1>4, <1>5, <1>6, <1>7 DEF Answers

\* The scheduler does something that is not the reading of a message of v, or of its close.
LEMMA OthersRest ==
    ASSUME SchedulerAssumption, LinkInv, Present, NEW v \in Workers,
           \/ \E e \in Experts, row \in Edits : Edit(e, row)
           \/ \E e \in Experts : ProcessExpert(e)
           \/ \E w \in Workers \ {v}, s \in Sockets, m \in UpMsgs : Receive(w, s, m)
           \/ \E w \in Workers \ {v}, s \in Sockets : SocketClosed(w, s)
           \/ TimerStep \/ LoopStep
    PROVE  Rests(v)
<1>0. /\ \A w \in Workers : workers[w] \in Conns
      /\ workers \in [Workers -> Conns] /\ down \in [Workers -> Seq(DownMsgs)]
      /\ loop \in Loops
  BY DEF LinkInv, TypeInv, TypeOK
<1>1. ASSUME UNCHANGED live, workers'[v] = workers[v], Ready(v) => Ready(v)',
             ToSet(down[v]) \subseteq ToSet(down'[v])
      PROVE  Rests(v)
  BY <1>1 DEF Rests, Timed
<1>2. ASSUME NEW e \in Experts, NEW row \in Edits, Edit(e, row) PROVE Rests(v)
  BY <1>1, <1>2 DEF Edit, netVars, Ready
<1>3. ASSUME NEW e \in Experts, ProcessExpert(e) PROVE Rests(v)
  <2>1. UNCHANGED <<workers, live>> /\ Idle
    BY <1>3 DEF ProcessExpert
  <2>2. Ready(v) => Ready(v)'
    BY <2>1 DEF Ready, Idle
  <2>3. \/ UNCHANGED down
        \/ \E w \in Workers, m \in DownMsgs : Send(w, workers[w], m)
    <3> DEFINE w == st[e].owner
    <3>1. w \in Workers \cup {NoWorker} /\ StopMsg(e) \in DownMsgs /\ RestartMsg(e) \in DownMsgs
      BY MessageTypes DEF LinkInv, TypeInv, TypeOK, ExpertStates
    <3>2. CASE StopDisabled(e)
      BY <3>1, <3>2 DEF StopDisabled, Send
    <3>3. CASE RestartUpdated(e)
      BY <3>1, <3>3 DEF RestartUpdated
    <3> QED  BY <1>3, <3>2, <3>3 DEF ProcessExpert, QueueEnabled, AlreadyQueued
  <2>4. ToSet(down[v]) \subseteq ToSet(down'[v])
    BY <2>3, SendAdds DEF LinkInv
  <2> QED  BY <1>1, <2>1, <2>2, <2>4
<1>4. ASSUME NEW w \in Workers \ {v}, NEW s \in Sockets, NEW m \in UpMsgs, Receive(w, s, m)
      PROVE  Rests(v)
  <2>1. UNCHANGED live /\ Idle
    BY <1>4 DEF Receive, ReceiveExperts, ReceiveNeedJob, ReceiveStarted, ReceiveStopped, netVars
  <2>2. Ready(v) => workers[v].ready
    BY <2>1 DEF Ready, Idle
  <2>3. CASE ReceiveNeedJob(w, s)
    <3> DEFINE c == [Conn(w, s) EXCEPT !.needsJob = TRUE]
    <3>1. c \in Conns
      BY ConnType DEF LinkInv, Conns
    <3>2. UNCHANGED db
      BY <2>3 DEF ReceiveNeedJob, tableVars
    <3>3. CASE CanAssign(w, c)
      <4>1. GiveJob(w, c) \/ MissJob(w, c, TRUE)
        BY <2>3, <3>3 DEF ReceiveNeedJob
      <4> HIDE DEF c
      <4>2. GiveJob(w, c)
        BY <3>2, <3>3, <4>1, GivePresent DEF LinkInv
      <4> QED  BY <1>1, <1>4, <2>1, <2>2, <3>1, <3>3, <4>2, GiveRests DEF LinkInv, Ready
    <3>4. CASE ~CanAssign(w, c)
      BY <1>0, <1>1, <1>4, <2>1, <2>2, <2>3, <3>4 DEF ReceiveNeedJob, Ready
    <3> QED  BY <3>3, <3>4
  <2>4. CASE ~ReceiveNeedJob(w, s)
    <3>1. UNCHANGED down /\ workers'[v] = workers[v]
      BY <1>0, <1>4, <2>4 DEF Receive, ReceiveExperts, ReceiveStarted, ReceiveStopped, netVars
    <3> QED  BY <1>1, <2>1, <2>2, <3>1 DEF Ready
  <2> QED  BY <2>3, <2>4
<1>5. ASSUME NEW w \in Workers \ {v}, NEW s \in Sockets, SocketClosed(w, s) PROVE Rests(v)
  BY <1>0, <1>1, <1>5 DEF SocketClosed, netVars, Ready
<1>6. ASSUME NEW e \in Experts, StartTimeout(e) PROVE Rests(v)
  BY <1>1, <1>6 DEF StartTimeout, netVars, Ready
<1>7. ASSUME NEW w \in Workers, ReconnTimeout(w) PROVE Rests(v)
  BY <1>1, <1>7 DEF ReconnTimeout, netVars, Ready, Idle
<1>8. ASSUME NEW w \in Workers, JobTimeout(w) \/ StaleJobTimeout(w) PROVE Rests(v)
  <2>1. /\ UNCHANGED <<live, loop>>
        /\ workers' = [workers EXCEPT ![w] = [@ EXCEPT !.jobTimer = FALSE, !.needsJob = FALSE]]
    BY <1>8 DEF JobTimeout, StaleJobTimeout
  <2>2. workers'[v].sock = workers[v].sock /\ (Ready(v) => Ready(v)')
    BY <1>0, <2>1 DEF Ready, Conns
  <2>3. NoJobMsg \in DownMsgs
    BY DEF DownMsgs
  <2>4. UNCHANGED down \/ Send(w, workers[w], NoJobMsg)
    BY <1>8 DEF JobTimeout, StaleJobTimeout, SendIf
  <2>5. ToSet(down[v]) \subseteq ToSet(down'[v])
    BY <2>3, <2>4, SendAdds DEF LinkInv
  <2>6. CASE w = v
    <3>1. Timed(v) => Send(v, workers[v], NoJobMsg)
      BY <1>8, <2>6 DEF JobTimeout, StaleJobTimeout, SendIf, Timed, LinkInv, GoneWaitsForNothing
    <3>2. Timed(v) /\ workers[v].sock = live[v] => NoJobMsg \in ToSet(down'[v])
      BY <2>3, <3>1, SendAdds DEF LinkInv
    <3> QED  BY <2>1, <2>2, <2>5, <3>2 DEF Rests, Answers, NoJobMsg
  <2>7. CASE w # v
    BY <1>0, <1>1, <2>1, <2>2, <2>5, <2>7
  <2> QED  BY <2>6, <2>7
<1>9. ASSUME NEW w \in Workers, AssignNext(w) PROVE Rests(v)
  <2>1. UNCHANGED <<live, db>> /\ (Ready(v) => workers[v].ready)
    BY <1>9 DEF AssignNext, tableVars, Ready
  <2>2. CASE CanAssign(w, workers[w])
    <3>1. GiveJob(w, workers[w]) \/ MissJob(w, workers[w], workers[w].jobTimer)
      BY <1>9, <2>2 DEF AssignNext
    <3>2. GiveJob(w, workers[w])
      BY <2>1, <2>2, <3>1, GivePresent DEF LinkInv
    <3>3. /\ \A u \in Workers : ToSet(down[u]) \subseteq ToSet(down'[u])
          /\ workers[w].sock = live[w] => Answers(w)' # {}
          /\ workers'[w].sock = workers[w].sock /\ workers'[w].ready = workers[w].ready
          /\ \A u \in Workers \ {w} : workers'[u] = workers[u]
      BY <1>0, <2>2, <3>2, GiveRests DEF LinkInv
    <3>4. CASE w = v
      BY <2>1, <3>3, <3>4 DEF Rests, Ready
    <3>5. CASE w # v
      BY <1>1, <2>1, <3>3, <3>5 DEF Ready
    <3> QED  BY <3>4, <3>5
  <2>3. CASE ~CanAssign(w, workers[w])
    BY <1>1, <1>9, <2>1, <2>3 DEF AssignNext, Ready
  <2> QED  BY <2>2, <2>3
<1>10. ASSUME NEW e \in Experts, ReportedNext(e) PROVE Rests(v)
  <2> DEFINE w == loop.worker
             a == [workers[w] EXCEPT !.active = @ \cup {e}]
  <2>1. w \in Workers
    BY <1>10 DEF ReportedNext, LinkInv, TypeInv, LoopHasWorker
  <2>2. UNCHANGED live /\ loop'.worker = w /\ loop'.at = loop.at
    BY <1>0, <1>10 DEF ReportedNext, Loops
  <2>3. StopMsg(e) \in DownMsgs
    BY MessageTypes
  <2>4. UNCHANGED down \/ Send(w, workers[w], StopMsg(e))
    BY <1>10 DEF ReportedNext
  <2>5. ToSet(down[v]) \subseteq ToSet(down'[v])
    BY <2>1, <2>3, <2>4, SendAdds DEF LinkInv
  <2>6. UNCHANGED workers \/ workers' = [workers EXCEPT ![w] = a]
    BY <1>10 DEF ReportedNext
  <2>7. /\ workers'[v].sock = workers[v].sock /\ workers'[v].ready = workers[v].ready
        /\ workers'[v].needsJob = workers[v].needsJob
        /\ workers'[v].jobTimer = workers[v].jobTimer
    <3>1. /\ a.sock = workers[w].sock /\ a.ready = workers[w].ready
          /\ a.needsJob = workers[w].needsJob /\ a.jobTimer = workers[w].jobTimer
      BY <1>0, <2>1 DEF Conns
    <3> HIDE DEF w, a
    <3> QED  BY <1>0, <2>1, <2>6, <3>1
  <2> QED  BY <2>2, <2>5, <2>7 DEF Rests, Ready, Timed
<1>11. ASSUME ReportDone PROVE Rests(v)
  <2> DEFINE w == loop.worker
  <2>1. w \in Workers
    BY <1>11 DEF ReportDone, LinkInv, TypeInv, LoopHasWorker
  <2>2. UNCHANGED <<live, down>> /\ workers' = [workers EXCEPT ![w] = [@ EXCEPT !.ready = TRUE]]
    BY <1>11 DEF ReportDone, netVars
  <2>3. /\ workers'[v].sock = workers[v].sock
        /\ workers'[v].ready = (workers[v].ready \/ v = w)
        /\ workers'[v].needsJob = workers[v].needsJob
        /\ workers'[v].jobTimer = workers[v].jobTimer
    BY <1>0, <2>1, <2>2 DEF Conns
  <2> QED  BY <2>2, <2>3 DEF Rests, Ready, Timed
<1>12. ASSUME NEW e \in Experts, RequeueNext(e) PROVE Rests(v)
  BY <1>1, <1>12 DEF RequeueNext, netVars, Ready
<1> QED
  BY <1>2, <1>3, <1>4, <1>5, <1>6, <1>7, <1>8, <1>9, <1>10, <1>11, <1>12 DEF TimerStep, LoopStep

\* The scheduler reads a message of v: the first one makes its record, bound to the socket,
\* and a request of a worker it is ready for is answered or timed.
LEMMA ReceiveRests ==
    ASSUME LinkInv, Present, NEW v \in Workers, NEW s \in Sockets, NEW m \in UpMsgs,
           Receive(v, s, m)
    PROVE  /\ live' = live /\ ToSet(down[v]) \subseteq ToSet(down'[v])
           /\ workers'[v].sock = IF Connected(v) THEN workers[v].sock ELSE s
           /\ m.type = "experts" \/ (Connected(v) /\ Ready(v)) => Ready(v)'
           /\ IF m.type = "need_job"
                THEN Connected(v) /\ Ready(v) /\ workers[v].sock = live[v]
                       => Timed(v)' \/ Answers(v)' # {}
                ELSE Timed(v) => Timed(v)'
<1> DEFINE c == Conn(v, s)
<1>0. workers \in [Workers -> Conns] /\ loop \in Loops
  BY DEF LinkInv, TypeInv, TypeOK
<1>1. /\ c \in Conns
      /\ c.sock = IF Connected(v) THEN workers[v].sock ELSE s
      /\ Connected(v) => c = workers[v]
    BY ConnType DEF LinkInv, Conn, Fresh, NoConn
<1>2. Timed(v) => Connected(v)
  BY DEF Timed, LinkInv, GoneWaitsForNothing
<1>3. live' = live /\ (Ready(v) => workers[v].ready)
  BY DEF Receive, ReceiveExperts, ReceiveNeedJob, ReceiveStarted, ReceiveStopped, netVars,
         Ready, Idle
<1>4. CASE m.type = "experts"
  <2>1. /\ UNCHANGED down /\ loop' = Loop("experts", v, m.experts)
        /\ workers' = [workers EXCEPT ![v] = [c EXCEPT !.active = {}]]
    BY <1>4 DEF Receive, ReceiveExperts, netVars
  <2> HIDE DEF c
  <2>2. /\ workers'[v].sock = c.sock /\ workers'[v].needsJob = c.needsJob
        /\ workers'[v].jobTimer = c.jobTimer
    BY <1>0, <1>1, <2>1 DEF Conns
  <2> QED  BY <1>1, <1>2, <1>3, <1>4, <2>1, <2>2 DEF Ready, Timed, Loop
<1>5. CASE m.type = "need_job"
  <2> DEFINE d == [c EXCEPT !.needsJob = TRUE]
  <2>1. /\ UNCHANGED <<db, loop>>
        /\ IF CanAssign(v, d)
             THEN GiveJob(v, d) \/ MissJob(v, d, TRUE)
             ELSE /\ workers' = [workers EXCEPT ![v] =
                             [d EXCEPT !.jobTimer = IF d.ready THEN TRUE ELSE @]]
                  /\ UNCHANGED <<queue, st, timerVars, down>>
    BY <1>5 DEF Receive, ReceiveNeedJob, tableVars
  <2> HIDE DEF c
  <2>2. d \in Conns /\ d.sock = c.sock /\ d.ready = c.ready /\ d.needsJob
    BY <1>1 DEF Conns
  <2> HIDE DEF d
  <2>3. CASE CanAssign(v, d)
    <3>1. GiveJob(v, d)
      BY <2>1, <2>3, GivePresent DEF LinkInv
    <3>2. /\ ToSet(down[v]) \subseteq ToSet(down'[v])
          /\ d.sock = live[v] => Answers(v)' # {}
          /\ workers'[v].sock = d.sock /\ workers'[v].ready = d.ready
      BY <2>2, <2>3, <3>1, GiveRests DEF LinkInv
    <3> QED  BY <1>1, <1>3, <1>5, <2>2, <3>2 DEF Ready
  <2>4. CASE ~CanAssign(v, d)
    <3>1. /\ UNCHANGED down
          /\ workers' = [workers EXCEPT ![v] = [d EXCEPT !.jobTimer = IF d.ready THEN TRUE ELSE @]]
      BY <2>1, <2>4
    <3>2. /\ workers'[v].sock = d.sock /\ workers'[v].ready = d.ready /\ workers'[v].needsJob
          /\ d.ready => workers'[v].jobTimer
      BY <1>0, <2>2, <3>1 DEF Conns
    <3> QED  BY <1>1, <1>3, <1>5, <2>2, <3>1, <3>2 DEF Ready, Timed
  <2> QED  BY <2>3, <2>4
<1>6. CASE m.type \in {"started", "stopped"}
  <2>1. UNCHANGED <<down, loop>>
    BY <1>6 DEF Receive, ReceiveStarted, ReceiveStopped, netVars
  <2>2. \E a : workers' = [workers EXCEPT ![v] = [c EXCEPT !.active = a]]
    <3>1. c = [c EXCEPT !.active = c.active]
      <4> HIDE DEF c
      <4> QED  BY <1>1 DEF Conns
    <3> QED  BY <1>6, <3>1 DEF Receive, ReceiveStarted, ReceiveStopped, WithActive
  <2> HIDE DEF c
  <2>3. /\ workers'[v].sock = c.sock /\ workers'[v].needsJob = c.needsJob
        /\ workers'[v].jobTimer = c.jobTimer /\ workers'[v].ready = c.ready
    BY <1>0, <1>1, <2>2 DEF Conns
  <2> QED  BY <1>1, <1>2, <1>3, <1>6, <2>1, <2>3 DEF Ready, Timed
<1> QED  BY <1>4, <1>5, <1>6 DEF Receive
-----------------------------------------------------------------------------
(* What becomes of the experts of a worker while the scheduler is occupied  *)
(* with something else: they are kept for it, or given up.                  *)

StartedAt(v, e) == st[e] = [state |-> "started", owner |-> v]
Requeues(v, e) == loop.at = "requeue" /\ loop.worker = v /\ e \in loop.todo
Reports(v, e) == loop.at = "experts" /\ loop.worker = v /\ e \in loop.todo

\* Where the scheduler would find a started expert of v if v were lost.
Kept(v, e) ==
    \/ Connected(v) /\ e \in workers[v].active
    \/ e \in reconn[v]
    \/ Requeues(v, e)
Recoverable(v) == \A e \in Experts : StartedAt(v, e) => Kept(v, e)

Spares(v) ==
    /\ reconn'[v] \in {reconn[v], {}}
    /\ \A e \in Experts : st'[e].owner = v => st[e].owner = v \/ Connected(v)
    /\ loop'.at = "requeue" /\ loop'.worker = v
         => reconn[v] # {} \/ (loop.at = "requeue" /\ loop.worker = v)
    /\ \A e \in Experts : /\ StartedAt(v, e)' => StartedAt(v, e) \/ Reports(v, e)
                          /\ Reports(v, e)' => Reports(v, e)
    /\ Recoverable(v) => Recoverable(v)'

\* Handing out a job touches one expert, and the worker it is for.
LEMMA GiveOwns ==
    ASSUME TypeInv, NEW w \in Workers, NEW c \in Conns, CanAssign(w, c), GiveJob(w, c)
    PROVE  /\ \A e \in Experts : \/ st'[e] = st[e]
                                 \/ /\ e \in ToSet(queue)
                                    /\ st'[e] = [state |-> "starting", owner |-> w]
           /\ workers'[w].sock = c.sock /\ workers'[w].active = c.active
           /\ \A v \in Workers \ {w} : workers'[v] = workers[v]
<1> DEFINE x == queue[FirstMatch(w)]
<1>1. x \in Experts /\ x \in ToSet(queue)
  BY DequeuedElements DEF CanAssign
<1>2. /\ st' = [st EXCEPT ![x] = [state |-> "starting", owner |-> w]]
      /\ workers' = [workers EXCEPT ![w] = [c EXCEPT !.needsJob = FALSE, !.jobTimer = FALSE]]
  BY DEF GiveJob
<1> HIDE DEF x
<1>3. st \in [Experts -> ExpertStates] /\ workers \in [Workers -> Conns]
  BY DEF TypeInv, TypeOK
<1>4. workers'[w].sock = c.sock /\ workers'[w].active = c.active
  BY <1>2, <1>3 DEF Conns
<1> QED  BY <1>1, <1>2, <1>3, <1>4

\* The scheduler does something that is not the reading of a message of v, or of its close.
LEMMA OthersSpare ==
    ASSUME SchedulerAssumption, LinkInv, Present, NEW v \in Workers,
           \/ \E e \in Experts, row \in Edits : Edit(e, row)
           \/ \E e \in Experts : ProcessExpert(e)
           \/ \E w \in Workers \ {v}, s \in Sockets, m \in UpMsgs : Receive(w, s, m)
           \/ \E w \in Workers \ {v}, s \in Sockets : SocketClosed(w, s)
           \/ TimerStep \/ LoopStep
    PROVE  Spares(v)
<1> DEFINE SameRecord == workers'[v].sock = workers[v].sock /\ workers'[v].active = workers[v].active
           Leaves(f) == /\ st'[f] # [state |-> "started", owner |-> v]
                        /\ st'[f].owner = v => st[f].owner = v \/ Connected(v)
           LoopRests == \/ loop' = loop
                        \/ /\ loop.at # "requeue" /\ loop'.at # "requeue"
                           /\ loop'.at = "experts" => loop'.worker # v
<1>0. /\ workers \in [Workers -> Conns] /\ st \in [Experts -> ExpertStates]
      /\ loop \in Loops /\ reconn \in [Workers -> SUBSET Experts]
      /\ \A w \in Workers : workers[w] \in Conns
  BY DEF LinkInv, TypeInv, TypeOK
<1>1. ASSUME \A f \in Experts : st'[f] = st[f] \/ Leaves(f), SameRecord, LoopRests,
             reconn'[v] = reconn[v]
      PROVE  Spares(v)
  BY <1>1 DEF Spares, Recoverable, StartedAt, Kept, Requeues, Reports, Connected
<1>2. ASSUME NEW e \in Experts, NEW row \in Edits, Edit(e, row) PROVE Spares(v)
  BY <1>1, <1>2 DEF Edit
<1>3. ASSUME NEW e \in Experts, ProcessExpert(e) PROVE Spares(v)
  <2>1. UNCHANGED <<workers, reconn>> /\ Idle
    BY <1>3 DEF ProcessExpert
  <2>2. LoopRests
    BY <1>3, <2>1 DEF ProcessExpert, StopDisabled, QueueEnabled, RestartUpdated, AlreadyQueued,
                      AssignLoop, IdleLoop, Loop, Idle
  <2>3. \A f \in Experts : st'[f] = st[f] \/ Leaves(f)
    <3>1. UNCHANGED st \/ \E x \in {"queued", "stopping", "starting"} : st' = [st EXCEPT ![e].state = x]
      BY <1>3 DEF ProcessExpert, StopDisabled, QueueEnabled, RestartUpdated, AlreadyQueued, QueueExpert
    <3>2. ASSUME NEW x \in {"queued", "stopping", "starting"}, st' = [st EXCEPT ![e].state = x],
                 NEW f \in Experts
          PROVE  st'[f] = st[f] \/ Leaves(f)
      <4>1. st'[f].owner = st[f].owner /\ (f = e => st'[f].state = x)
        BY <1>0, <3>2 DEF ExpertStates
      <4>2. f # e => st'[f] = st[f]
        BY <1>0, <3>2
      <4> QED  BY <4>1, <4>2
    <3> QED  BY <3>1, <3>2
  <2> QED  BY <1>1, <2>1, <2>2, <2>3
<1>4. ASSUME NEW w \in Workers \ {v}, NEW s \in Sockets, NEW m \in UpMsgs, Receive(w, s, m)
      PROVE  Spares(v)
  <2>1. Idle /\ reconn'[v] = reconn[v]
    BY <1>0, <1>4 DEF Receive, ReceiveExperts, ReceiveNeedJob, ReceiveStarted, ReceiveStopped,
                      ClearReconn
  <2>2. CASE m.type = "need_job"
    <3> DEFINE c == [Conn(w, s) EXCEPT !.needsJob = TRUE]
    <3>1. c \in Conns
      BY ConnType DEF LinkInv, Conns
    <3>2. UNCHANGED <<db, loop>> /\ ReceiveNeedJob(w, s)
      BY <1>4, <2>2 DEF Receive, ReceiveNeedJob, tableVars
    <3>3. CASE CanAssign(w, c)
      <4>1. GiveJob(w, c) \/ MissJob(w, c, TRUE)
        BY <3>2, <3>3 DEF ReceiveNeedJob
      <4> HIDE DEF c
      <4>2. GiveJob(w, c)
        BY <3>2, <3>3, <4>1, GivePresent DEF LinkInv
      <4>3. /\ \A e \in Experts : \/ st'[e] = st[e]
                                  \/ st'[e] = [state |-> "starting", owner |-> w]
            /\ workers'[v] = workers[v]
        BY <3>1, <3>3, <4>2, GiveOwns DEF LinkInv
      <4> QED  BY <1>1, <2>1, <3>2, <4>3
    <3>4. CASE ~CanAssign(w, c)
      BY <1>0, <1>1, <2>1, <3>2, <3>4 DEF ReceiveNeedJob
    <3> QED  BY <3>3, <3>4
  <2>3. CASE m.type = "experts"
    <3>1. UNCHANGED st /\ workers'[v] = workers[v] /\ loop' = Loop("experts", w, m.experts)
      BY <1>0, <1>4, <2>3 DEF Receive, ReceiveExperts
    <3> QED  BY <1>1, <2>1, <3>1 DEF Loop, Idle
  <2>4. CASE m.type = "started"
    <3>1. UNCHANGED loop /\ workers'[v] = workers[v]
      BY <1>0, <1>4, <2>4 DEF Receive, ReceiveStarted
    <3>2. \A f \in Experts : st'[f] = st[f] \/ (st'[f].owner = st[f].owner /\ st[f].owner = w)
      BY <1>0, <1>4, <2>4 DEF Receive, ReceiveStarted, ExpertStates
    <3> QED  BY <1>1, <2>1, <3>1, <3>2
  <2>5. CASE m.type = "stopped"
    <3>1. UNCHANGED loop /\ workers'[v] = workers[v]
      BY <1>0, <1>4, <2>5 DEF Receive, ReceiveStopped
    <3>2. \A f \in Experts : st'[f] = st[f] \/ st'[f] = Untracked
      BY <1>0, <1>4, <2>5 DEF Receive, ReceiveStopped
    <3> QED  BY <1>1, <2>1, <3>1, <3>2 DEF Untracked, SchedulerAssumption
  <2> QED  BY <1>4, <2>2, <2>3, <2>4, <2>5 DEF Receive
<1>5. ASSUME NEW w \in Workers \ {v}, NEW s \in Sockets, SocketClosed(w, s) PROVE Spares(v)
  BY <1>0, <1>1, <1>5 DEF SocketClosed
<1>6. ASSUME NEW e \in Experts, StartTimeout(e) PROVE Spares(v)
  <2>1. \A f \in Experts : st'[f] = st[f] \/ st'[f] = Queued(NoWorker)
    BY <1>0, <1>6 DEF StartTimeout
  <2> QED  BY <1>1, <1>6, <2>1 DEF StartTimeout, Queued, SchedulerAssumption
<1>7. ASSUME NEW w \in Workers, ReconnTimeout(w) PROVE Spares(v)
  <2>1. UNCHANGED <<st, workers>> /\ Idle /\ loop' = Loop("requeue", w, reconn[w]) /\ reconn[w] # {}
        /\ reconn' = [reconn EXCEPT ![w] = {}]
    BY <1>7 DEF ReconnTimeout
  <2> QED
    BY <1>0, <2>1 DEF Spares, Recoverable, StartedAt, Kept, Requeues, Reports, Connected, Loop, Idle
<1>8. ASSUME NEW w \in Workers, JobTimeout(w) \/ StaleJobTimeout(w) PROVE Spares(v)
  <2>1. /\ UNCHANGED <<st, reconn, loop>>
        /\ workers' = [workers EXCEPT ![w] = [@ EXCEPT !.jobTimer = FALSE, !.needsJob = FALSE]]
    BY <1>8 DEF JobTimeout, StaleJobTimeout
  <2>2. SameRecord
    BY <1>0, <2>1 DEF Conns
  <2> QED  BY <1>1, <2>1, <2>2
<1>9. ASSUME NEW w \in Workers, AssignNext(w) PROVE Spares(v)
  <2>1. UNCHANGED <<reconn, db>> /\ loop.at = "assign" /\ loop'.at \in {"idle", "assign"}
    BY <1>0, <1>9 DEF AssignNext, tableVars, IdleLoop, Loop, Loops
  <2>2. CASE CanAssign(w, workers[w])
    <3>1. GiveJob(w, workers[w])
      BY <1>9, <2>1, <2>2, GivePresent DEF AssignNext, LinkInv
    <3>2. /\ \A e \in Experts : \/ st'[e] = st[e]
                                \/ /\ e \in ToSet(queue)
                                   /\ st'[e] = [state |-> "starting", owner |-> w]
          /\ SameRecord
      BY <1>0, <2>2, <3>1, GiveOwns DEF LinkInv
    <3>3. Connected(w)
      BY <2>2 DEF CanAssign, LinkInv, GoneWaitsForNothing
    <3> QED  BY <1>1, <2>1, <3>2, <3>3
  <2>3. CASE ~CanAssign(w, workers[w])
    BY <1>1, <1>9, <2>1, <2>3 DEF AssignNext
  <2> QED  BY <2>2, <2>3
<1>10. ASSUME NEW e \in Experts, ReportedNext(e) PROVE Spares(v)
  <2> DEFINE w == loop.worker
  <2>1. w \in Workers /\ Connected(w)
    BY <1>10 DEF ReportedNext, LinkInv, TypeInv, LoopHasWorker, ReporterIsConnected
  <2>2. /\ UNCHANGED reconn /\ loop.at = "experts" /\ e \in loop.todo
        /\ loop' = [loop EXCEPT !.todo = @ \ {e}]
    BY <1>10 DEF ReportedNext
  <2>3. loop'.worker = w /\ loop'.at = "experts" /\ loop'.todo = loop.todo \ {e}
    BY <1>0, <2>2 DEF Loops
  <2>4. CASE UNCHANGED <<st, workers>>
    BY <2>2, <2>3, <2>4 DEF Spares, Recoverable, StartedAt, Kept, Requeues, Reports, Connected
  <2>5. CASE /\ st' = [st EXCEPT ![e] = Adopted(w, e)]
             /\ workers' = [workers EXCEPT ![w].active = @ \cup {e}]
    <3>1. /\ \A f \in Experts : st'[f] = IF f = e THEN [state |-> "started", owner |-> w] ELSE st[f]
          /\ \A u \in Workers : /\ workers'[u].sock = workers[u].sock
                                /\ workers[u].active \subseteq workers'[u].active
          /\ e \in workers'[w].active
      BY <1>0, <2>1, <2>5 DEF Adopted, Conns
    <3> QED
      BY <2>1, <2>2, <2>3, <3>1 DEF Spares, Recoverable, StartedAt, Kept, Requeues, Reports, Connected
  <2> QED  BY <1>10, <2>4, <2>5 DEF ReportedNext
<1>11. ASSUME ReportDone PROVE Spares(v)
  <2>1. /\ UNCHANGED <<st, reconn>> /\ loop.at = "experts" /\ loop'.at \in {"idle", "assign"}
        /\ workers' = [workers EXCEPT ![loop.worker] = [@ EXCEPT !.ready = TRUE]]
    BY <1>11 DEF ReportDone, Loop, IdleLoop
  <2>2. SameRecord
    BY <1>0, <2>1 DEF Conns
  <2> QED  BY <1>1, <2>1, <2>2
<1>12. ASSUME NEW e \in Experts, RequeueNext(e) PROVE Spares(v)
  <2>1. /\ UNCHANGED <<workers, reconn>> /\ loop.at = "requeue" /\ e \in loop.todo
        /\ \/ loop.todo = {e} /\ loop'.at \in {"idle", "assign"}
           \/ loop' = [loop EXCEPT !.todo = @ \ {e}]
    BY <1>12 DEF RequeueNext, AssignLoop, IdleLoop, Loop
  <2>2. \/ loop.todo = {e} /\ loop'.at \in {"idle", "assign"}
        \/ loop'.at = "requeue" /\ loop'.worker = loop.worker /\ loop'.todo = loop.todo \ {e}
    BY <1>0, <2>1 DEF Loops
  <2>3. \A f \in Experts : /\ st'[f].owner = st[f].owner
                           /\ f # e => st'[f] = st[f]
                           /\ st'[f] # st[f] => st'[f].state = "queued"
                           /\ f = e /\ st[f].owner = loop.worker => st'[f].state = "queued"
    <3>1. CASE QueueExpert(e)
      <4>1. st' = [st EXCEPT ![e].state = "queued"]
        BY <3>1 DEF QueueExpert
      <4>2. \A f \in Experts : /\ f # e => st'[f] = st[f]
                               /\ st'[f].owner = st[f].owner /\ (f = e => st'[f].state = "queued")
        BY <1>0, <4>1 DEF ExpertStates
      <4> QED  BY <4>2
    <3>2. CASE UNCHANGED st /\ ~(st[e].owner = loop.worker /\ st[e].state # "queued")
      BY <3>2
    <3> QED  BY <1>12, <3>1, <3>2 DEF RequeueNext
  <2> QED
    BY <2>1, <2>2, <2>3 DEF Spares, Recoverable, StartedAt, Kept, Requeues, Reports, Connected
<1> QED
  BY <1>2, <1>3, <1>4, <1>5, <1>6, <1>7, <1>8, <1>9, <1>10, <1>11, <1>12 DEF TimerStep, LoopStep

\* The scheduler reads a message of v, whose experts nobody would requeue any more: what v
\* says is what becomes of them.
LEMMA ReceiveOwns ==
    ASSUME SchedulerAssumption, LinkInv, Present, NEW v \in Workers, NEW s \in Sockets,
           NEW m \in UpMsgs, Receive(v, s, m), reconn[v] = {},
           m.type = "experts" => \A e \in Experts : st[e].owner # v
    PROVE  /\ reconn'[v] = {} /\ Idle /\ loop'.at # "requeue"
           /\ \A e \in Experts :
                /\ StartedAt(v, e)' => (StartedAt(v, e) /\ m # StoppedMsg(e)) \/ m = StartedMsg(e)
                /\ Reports(v, e)' => m.type = "experts" /\ e \in m.experts
           /\ Recoverable(v) => Recoverable(v)'
<1> DEFINE c == Conn(v, s)
<1>0. /\ workers \in [Workers -> Conns] /\ st \in [Experts -> ExpertStates]
      /\ loop \in Loops /\ reconn \in [Workers -> SUBSET Experts]
  BY DEF LinkInv, TypeInv, TypeOK
<1>1. /\ c \in Conns /\ c.sock # 0
      /\ Connected(v) => c.active = workers[v].active
  BY ConnSocket DEF Conn
<1>2. Idle /\ reconn'[v] = {}
  BY <1>0 DEF Receive, ReceiveExperts, ReceiveNeedJob, ReceiveStarted, ReceiveStopped, ClearReconn
<1>3. CASE m.type = "experts"
  <2>1. UNCHANGED st /\ loop' = Loop("experts", v, m.experts)
    BY <1>3 DEF Receive, ReceiveExperts
  <2> QED  BY <1>2, <1>3, <2>1 DEF StartedAt, Reports, Recoverable, Loop
<1>4. CASE m.type = "need_job"
  <2> DEFINE d == [c EXCEPT !.needsJob = TRUE]
  <2>1. /\ UNCHANGED <<db, loop>>
        /\ IF CanAssign(v, d)
             THEN GiveJob(v, d) \/ MissJob(v, d, TRUE)
             ELSE /\ workers' = [workers EXCEPT ![v] =
                             [d EXCEPT !.jobTimer = IF d.ready THEN TRUE ELSE @]]
                  /\ UNCHANGED <<queue, st, timerVars, down>>
    BY <1>4 DEF Receive, ReceiveNeedJob, tableVars
  <2> HIDE DEF c
  <2>2. d \in Conns /\ d.sock = c.sock /\ d.active = c.active
    BY <1>1 DEF Conns
  <2> HIDE DEF d
  <2>3. /\ \A e \in Experts : st'[e] = st[e] \/ st'[e].state = "starting"
        /\ workers'[v].sock = c.sock /\ workers'[v].active = c.active
    <3>1. CASE CanAssign(v, d)
      <4>1. GiveJob(v, d)
        BY <2>1, <3>1, GivePresent DEF LinkInv
      <4>2. /\ \A e \in Experts : \/ st'[e] = st[e]
                                  \/ st'[e] = [state |-> "starting", owner |-> v]
            /\ workers'[v].sock = d.sock /\ workers'[v].active = d.active
        BY <2>2, <3>1, <4>1, GiveOwns DEF LinkInv
      <4> QED  BY <2>2, <4>2
    <3>2. CASE ~CanAssign(v, d)
      BY <1>0, <2>1, <2>2, <3>2 DEF Conns
    <3> QED  BY <3>1, <3>2
  <2> QED
    BY <1>1, <1>2, <1>4, <2>1, <2>3
    DEF StartedAt, Reports, Recoverable, Kept, Requeues, Connected, Idle, StoppedMsg
<1>5. CASE m.type \in {"started", "stopped"}
  <2> DEFINE e == m.expert
  <2>1. UNCHANGED loop /\ e \in Experts
    BY <1>5 DEF Receive, ReceiveStarted, ReceiveStopped, UpMsgs, NeedJobMsg
  <2>2. m.type = "started" =>
          /\ \A f \in Experts : StartedAt(v, f)' <=> StartedAt(v, f) \/ (f = e /\ st[e].owner = v)
          /\ workers'[v].sock = c.sock
          /\ c.active \subseteq workers'[v].active
          /\ st[e].owner = v => e \in workers'[v].active
    <3>1. ASSUME m.type = "started", st[e].owner = v
          PROVE  /\ st' = [st EXCEPT ![e].state = "started"]
                 /\ workers' = [workers EXCEPT ![v] = [c EXCEPT !.active = @ \cup {e}]]
      BY <3>1 DEF Receive, ReceiveStarted, WithActive
    <3>2. ASSUME m.type = "started", st[e].owner # v
          PROVE  UNCHANGED st /\ workers' = [workers EXCEPT ![v] = c]
      BY <3>2 DEF Receive, ReceiveStarted
    <3> HIDE DEF c, e
    <3> QED  BY <1>0, <1>1, <2>1, <3>1, <3>2 DEF StartedAt, ExpertStates, Conns
  <2>3. m.type = "stopped" =>
          /\ \A f \in Experts : StartedAt(v, f)' <=> StartedAt(v, f) /\ f # e
          /\ workers'[v].sock = c.sock
          /\ c.active \ {e} \subseteq workers'[v].active
    <3>1. ASSUME m.type = "stopped", st[e].owner = v
          PROVE  /\ st' = [st EXCEPT ![e] = Untracked]
                 /\ workers' = [workers EXCEPT ![v] = [c EXCEPT !.active = @ \ {e}]]
      BY <3>1 DEF Receive, ReceiveStopped, MayStop
    <3>2. ASSUME m.type = "stopped", st[e].owner # v
          PROVE  UNCHANGED st /\ workers' = [workers EXCEPT ![v] = c]
      BY <3>2 DEF Receive, ReceiveStopped, MayStop
    <3> HIDE DEF c, e
    <3> QED  BY <1>0, <1>1, <2>1, <3>1, <3>2 DEF StartedAt, ExpertStates, Conns, Untracked
  <2>4. \A f \in Experts : /\ m.type = "started" /\ f = e => m = StartedMsg(f)
                           /\ m = StoppedMsg(f) => m.type = "stopped" /\ f = e
    BY <1>5 DEF UpMsgs, StartedMsg, StoppedMsg, NeedJobMsg
  <2> HIDE DEF c, e
  <2>5. \A f \in Experts :
          StartedAt(v, f)' => (StartedAt(v, f) /\ m # StoppedMsg(f)) \/ m = StartedMsg(f)
    BY <1>5, <2>2, <2>3, <2>4 DEF StartedMsg, StoppedMsg
  <2>6. Recoverable(v) => Recoverable(v)'
    BY <1>1, <1>2, <1>5, <2>1, <2>2, <2>3 DEF Recoverable, Kept, Requeues, Connected, Idle
  <2> QED  BY <1>2, <2>1, <2>5, <2>6 DEF Reports, Idle
<1> QED  BY <1>3, <1>4, <1>5 DEF Receive

-----------------------------------------------------------------------------
(* What the scheduler sends to a worker, and when.                          *)

Sends(v, m) ==
    \/ m = NoJobMsg
    \/ \E e \in Experts :
         \/ m = JobMsg(e) /\ e \in ToSet(queue) /\ st'[e] = [state |-> "starting", owner |-> v]
         \/ /\ m = RestartMsg(e) /\ e \in dirty /\ db[e] = "enabled"
            /\ st[e].owner = v /\ st'[e] = [state |-> "starting", owner |-> v]
         \/ m = StopMsg(e) /\ ((e \in dirty /\ db[e] = "disabled") \/ Reports(v, e))

\* Sending adds one message, for one worker.
LEMMA SendOnly ==
    ASSUME TypeInv, NEW w \in Workers, NEW c, NEW m \in DownMsgs, Send(w, c, m)
    PROVE  \A v \in Workers : \A x \in ToSet(down'[v]) :
             x \in ToSet(down[v]) \/ (v = w /\ x = m)
<1>1. down \in [Workers -> Seq(DownMsgs)]
  BY DEF TypeInv, TypeOK
<1>2. ToSet(Append(down[w], m)) = ToSet(down[w]) \cup {m}
  BY <1>1, AppendElements
<1> QED  BY <1>1, <1>2 DEF Send

\* Handing out a job sends it to the worker it is for.
LEMMA GiveSends ==
    ASSUME TypeInv, NEW w \in Workers, NEW c, CanAssign(w, c), GiveJob(w, c)
    PROVE  \A v \in Workers : \A m \in ToSet(down'[v]) : m \in ToSet(down[v]) \/ Sends(v, m)
<1> DEFINE x == queue[FirstMatch(w)]
<1>1. x \in Experts /\ x \in ToSet(queue)
  BY DequeuedElements DEF CanAssign
<1>2. Send(w, c, JobMsg(x)) /\ st' = [st EXCEPT ![x] = [state |-> "starting", owner |-> w]]
  BY DEF GiveJob
<1> HIDE DEF x
<1>3. st'[x] = [state |-> "starting", owner |-> w]
  BY <1>1, <1>2 DEF TypeInv, TypeOK
<1>4. JobMsg(x) \in DownMsgs
  BY <1>1, MessageTypes
<1>5. Sends(w, JobMsg(x))
  BY <1>1, <1>3 DEF Sends
<1> QED  BY <1>2, <1>4, <1>5, SendOnly

\* All that the scheduler sends.
LEMMA Sendings ==
    ASSUME LinkInv, NEW v \in Workers,
           \/ \E e \in Experts, row \in Edits : Edit(e, row)
           \/ \E e \in Experts : ProcessExpert(e)
           \/ \E w \in Workers, s \in Sockets, m \in UpMsgs : Receive(w, s, m)
           \/ \E w \in Workers, s \in Sockets : SocketClosed(w, s)
           \/ TimerStep \/ LoopStep
    PROVE  \A m \in ToSet(down'[v]) : m \in ToSet(down[v]) \/ Sends(v, m)
<1> DEFINE Goal == \A m \in ToSet(down'[v]) : m \in ToSet(down[v]) \/ Sends(v, m)
<1>0. /\ TypeInv /\ st \in [Experts -> ExpertStates] /\ down \in [Workers -> Seq(DownMsgs)]
      /\ loop \in Loops
  BY DEF LinkInv, TypeInv, TypeOK
<1>1. CASE UNCHANGED down
  BY <1>1
<1>2. ASSUME NEW w \in Workers, NEW c, CanAssign(w, c), GiveJob(w, c) PROVE Goal
  BY <1>0, <1>2, GiveSends
<1>3. ASSUME NEW w \in Workers, NEW c, Send(w, c, NoJobMsg) PROVE Goal
  <2>1. NoJobMsg \in DownMsgs
    BY DEF DownMsgs
  <2> QED  BY <1>0, <1>3, <2>1, SendOnly DEF Sends
<1>4. ASSUME NEW e \in Experts, StopDisabled(e), e \in dirty PROVE Goal
  <2> DEFINE w == st[e].owner
  <2>1. \/ UNCHANGED down
        \/ w \in Workers /\ Send(w, workers[w], StopMsg(e))
    BY <1>0, <1>4 DEF StopDisabled, Send, ExpertStates
  <2>2. StopMsg(e) \in DownMsgs /\ \A u : Sends(u, StopMsg(e))
    BY <1>4, MessageTypes DEF Sends, StopDisabled
  <2> QED  BY <1>0, <1>1, <2>1, <2>2, SendOnly
<1>5. ASSUME NEW e \in Experts, RestartUpdated(e), e \in dirty PROVE Goal
  <2> DEFINE w == st[e].owner
  <2>1. \/ UNCHANGED down
        \/ w \in Workers /\ Send(w, workers[w], RestartMsg(e))
    BY <1>0, <1>5 DEF RestartUpdated, ExpertStates
  <2>2. st'[e] = [state |-> "starting", owner |-> w]
    <3>1. st' = [st EXCEPT ![e].state = "starting"]
      BY <1>5 DEF RestartUpdated
    <3> QED  BY <1>0, <3>1 DEF ExpertStates
  <2>3. RestartMsg(e) \in DownMsgs /\ Sends(w, RestartMsg(e))
    BY <1>5, <2>2, MessageTypes DEF Sends, RestartUpdated
  <2> HIDE DEF w
  <2> QED  BY <1>0, <1>1, <2>1, <2>3, SendOnly
<1>6. ASSUME NEW e \in Experts, ReportedNext(e) PROVE Goal
  <2> DEFINE w == loop.worker
  <2>1. /\ w \in Workers /\ Reports(w, e)
        /\ UNCHANGED down \/ Send(w, workers[w], StopMsg(e))
    BY <1>6 DEF ReportedNext, Reports, LinkInv, TypeInv, LoopHasWorker
  <2>2. StopMsg(e) \in DownMsgs /\ Sends(w, StopMsg(e))
    BY <2>1, MessageTypes DEF Sends
  <2> HIDE DEF w
  <2> QED  BY <1>0, <1>1, <2>1, <2>2, SendOnly
<1>7. ASSUME NEW e \in Experts, NEW row \in Edits, Edit(e, row) PROVE Goal
  BY <1>1, <1>7 DEF Edit, netVars
<1>8. ASSUME NEW e \in Experts, ProcessExpert(e) PROVE Goal
  BY <1>1, <1>4, <1>5, <1>8 DEF ProcessExpert, QueueEnabled, AlreadyQueued
<1>9. ASSUME NEW w \in Workers, NEW s \in Sockets, NEW m \in UpMsgs, Receive(w, s, m) PROVE Goal
  <2>1. UNCHANGED down \/ ReceiveNeedJob(w, s)
    BY <1>9 DEF Receive, ReceiveExperts, ReceiveStarted, ReceiveStopped, netVars
  <2>2. CASE ReceiveNeedJob(w, s)
    <3> DEFINE c == [Conn(w, s) EXCEPT !.needsJob = TRUE]
    <3>1. UNCHANGED down \/ (CanAssign(w, c) /\ GiveJob(w, c))
      BY <2>2 DEF ReceiveNeedJob, MissJob
    <3> HIDE DEF c
    <3> QED  BY <1>1, <1>2, <3>1
  <2> QED  BY <1>1, <2>1, <2>2
<1>10. ASSUME NEW w \in Workers, NEW s \in Sockets, SocketClosed(w, s) PROVE Goal
  BY <1>1, <1>10 DEF SocketClosed, netVars
<1>11. CASE TimerStep
  <2>1. ASSUME NEW w \in Workers, JobTimeout(w) \/ StaleJobTimeout(w) PROVE Goal
    <3>1. UNCHANGED down \/ Send(w, workers[w], NoJobMsg)
      BY <2>1 DEF JobTimeout, StaleJobTimeout, SendIf
    <3> QED  BY <1>1, <1>3, <3>1
  <2>2. (\E e \in Experts : StartTimeout(e)) \/ (\E w \in Workers : ReconnTimeout(w)) => UNCHANGED down
    BY DEF StartTimeout, ReconnTimeout, netVars
  <2> QED  BY <1>1, <1>11, <2>1, <2>2 DEF TimerStep
<1>12. CASE LoopStep
  <2>1. ASSUME NEW w \in Workers, AssignNext(w) PROVE Goal
    <3>1. UNCHANGED down \/ (CanAssign(w, workers[w]) /\ GiveJob(w, workers[w]))
      BY <2>1 DEF AssignNext, MissJob
    <3> QED  BY <1>1, <1>2, <3>1
  <2>2. ReportDone \/ (\E e \in Experts : RequeueNext(e)) => UNCHANGED down
    BY DEF ReportDone, RequeueNext, netVars
  <2> QED  BY <1>1, <1>6, <1>12, <2>1, <2>2 DEF LoopStep
<1> QED  BY <1>7, <1>8, <1>9, <1>10, <1>11, <1>12

\* Where the table is not edited, no worker is told to restart an expert.
NoRestarts ==
    dirty = {} /\ \A w \in Workers : \A m \in ToSet(down[w]) : m.type # "restart"

\* A message that is sent has the type it is named for.
LEMMA SendsTypes ==
    ASSUME NEW v, NEW m, Sends(v, m)
    PROVE  /\ m.type = "restart" => \E e \in Experts : m = RestartMsg(e) /\ e \in dirty
           /\ m.type = "stop" =>
                \E e \in Experts : m = StopMsg(e) /\ ((e \in dirty /\ db[e] = "disabled") \/ Reports(v, e))
BY DEF Sends, NoJobMsg, JobMsg, RestartMsg, StopMsg

\* It is not told so by any step.
LEMMA NoRestartsStep ==
    ASSUME LinkInv, Edits = {}, NoRestarts, [Next]_vars
    PROVE  NoRestarts'
<1>0. down \in [Workers -> Seq(DownMsgs)] /\ dirty = {}
  BY DEF LinkInv, TypeInv, TypeOK, NoRestarts
<1>1. ASSUME dirty' = {}, NEW w \in Workers, down' = [down EXCEPT ![w] = <<>>] PROVE NoRestarts'
  BY <1>0, <1>1 DEF NoRestarts, ToSet
<1>2. CASE UNCHANGED vars
  BY <1>2 DEF NoRestarts, vars
<1>3. ASSUME NEW w \in Workers, NEW s \in Sockets \cup {0}, Listen(w, s) PROVE NoRestarts'
  BY <1>0, <1>1, <1>3 DEF Listen, tableVars
<1>4. ASSUME NEW w \in Workers, Deliver(w) PROVE NoRestarts'
  <2> DEFINE ms == down[w]
  <2>1. ms \in Seq(DownMsgs) /\ ms # <<>>
    BY <1>0, <1>4 DEF Deliver
  <2>2. ToSet(Tail(ms)) \subseteq ToSet(ms)
    <3> HIDE DEF ms
    <3> QED  BY <2>1, HeadTailElements
  <2>3. dirty' = {} /\ down' = [down EXCEPT ![w] = Tail(ms)]
    BY <1>0, <1>4 DEF Deliver, tableVars
  <2>4. \A v \in Workers : down'[v] = IF v = w THEN Tail(ms) ELSE down[v]
    BY <1>0, <2>3
  <2> QED  BY <2>2, <2>3, <2>4 DEF NoRestarts
<1>5. CASE Reboot
  BY <1>5 DEF Reboot, NoRestarts, ToSet
<1>6. CASE \/ \E w \in Workers, s \in Sockets, m \in UpMsgs : Receive(w, s, m)
           \/ \E w \in Workers, s \in Sockets : SocketClosed(w, s)
           \/ TimerStep \/ LoopStep
  <2>1. dirty' = {}
    <3>1. ASSUME NEW w \in Workers, NEW s \in Sockets, NEW m \in UpMsgs, Receive(w, s, m)
          PROVE  UNCHANGED dirty
      BY <3>1 DEF Receive, ReceiveExperts, ReceiveNeedJob, ReceiveStarted, ReceiveStopped, tableVars
    <3>2. TimerStep => UNCHANGED dirty
      BY DEF TimerStep, StartTimeout, ReconnTimeout, JobTimeout, StaleJobTimeout, tableVars
    <3>3. LoopStep => UNCHANGED dirty
      <4>1. \A w \in Workers : AssignNext(w) => UNCHANGED dirty
        BY DEF AssignNext, tableVars
      <4>2. \A e \in Experts : ReportedNext(e) \/ RequeueNext(e) => UNCHANGED dirty
        BY DEF ReportedNext, RequeueNext, tableVars
      <4> QED  BY <4>1, <4>2 DEF LoopStep, ReportDone, tableVars
    <3> QED  BY <1>0, <1>6, <3>1, <3>2, <3>3 DEF SocketClosed, tableVars
  <2>2. \A v \in Workers : \A m \in ToSet(down'[v]) : m \in ToSet(down[v]) \/ Sends(v, m)
    BY <1>6, Sendings
  <2> QED  BY <1>0, <2>1, <2>2, SendsTypes DEF NoRestarts
<1>7. \A e \in Experts, row \in Edits : ~Edit(e, row)
  OBVIOUS
<1>8. \A e \in Experts : ~ProcessExpert(e)
  BY <1>0 DEF ProcessExpert
<1> QED  BY <1>2, <1>3, <1>4, <1>5, <1>6, <1>7, <1>8 DEF Next

-----------------------------------------------------------------------------
(* The queue.  Where rows are only ever enabled, an expert is in the queue  *)
(* once, and only while it is queued.  G are the workers that are gone, and *)
(* T[w] what the scheduler may read from w.                                 *)

KnownStates ==
    /\ \A e \in dirty : db[e] = "enabled"
    /\ \A e \in Experts : /\ st[e].state # "stopping"
                          /\ st[e].state = "none" => st[e].owner = NoWorker

QueueInv(G) ==
    /\ KnownStates
    /\ Distinct(queue)
    /\ \A e \in ToSet(queue) : st[e].state = "queued"
    /\ \A e \in Experts : st[e].state = "queued" => st[e].owner \in G \cup {NoWorker}

\* HandedOverThroughQueue for one expert.
HandedOver(e) ==
    \/ st[e].owner \in {NoWorker, st'[e].owner}
    \/ st'[e].owner = NoWorker
    \/ st[e].state = "queued"

\* What may happen to an expert: it gets an owner and is not queued any more, it is
\* forgotten, or it is queued.
Moves(G, e) ==
    /\ \A f \in Experts \ {e} : st'[f] = st[f]
    /\ \/ /\ st'[e].state \in {"starting", "started"} /\ st'[e].owner # NoWorker
          /\ HandedOver(e)
          /\ Distinct(queue') /\ ToSet(queue') = ToSet(queue) \ {e}
       \/ st'[e] = Untracked /\ st[e].state # "queued" /\ UNCHANGED queue
       \/ /\ st'[e].state = "queued" /\ st[e].state # "queued"
          /\ st'[e].owner \in {NoWorker, st[e].owner} /\ st'[e].owner \in G \cup {NoWorker}
          /\ queue' = Append(queue, e)

\* Whatever it is, the queue remains right.
LEMMA MovesQueue ==
    ASSUME TypeInv, NEW G, QueueInv(G), NEW e \in Experts, Moves(G, e),
           UNCHANGED db, dirty' \subseteq dirty
    PROVE  QueueInv(G)' /\ \A f \in Experts : HandedOver(f)
<1>0. queue \in Seq(Experts) /\ \A f \in ToSet(queue) : f \in Experts
  BY ElementOfSeq, LenProperties DEF TypeInv, TypeOK, ToSet
<1>1. \A f \in Experts \ {e} : HandedOver(f)
  BY DEF Moves, HandedOver
<1>2. CASE /\ st'[e].state \in {"starting", "started"} /\ st'[e].owner # NoWorker
           /\ HandedOver(e)
           /\ Distinct(queue') /\ ToSet(queue') = ToSet(queue) \ {e}
  BY <1>0, <1>1, <1>2 DEF Moves, QueueInv, KnownStates
<1>3. CASE st'[e] = Untracked /\ st[e].state # "queued" /\ UNCHANGED queue
  <2>1. HandedOver(e) /\ st'[e].state = "none" /\ st'[e].owner = NoWorker
    BY <1>3 DEF HandedOver, Untracked
  <2> QED  BY <1>0, <1>1, <1>3, <2>1 DEF Moves, QueueInv, KnownStates
<1>4. CASE /\ st'[e].state = "queued" /\ st[e].state # "queued"
           /\ st'[e].owner \in {NoWorker, st[e].owner} /\ st'[e].owner \in G \cup {NoWorker}
           /\ queue' = Append(queue, e)
  <2>1. e \notin ToSet(queue)
    BY <1>4 DEF QueueInv
  <2>2. Distinct(queue') /\ ToSet(queue') = ToSet(queue) \cup {e}
    BY <1>0, <1>4, <2>1, AppendDistinct, AppendElements DEF QueueInv
  <2>3. HandedOver(e)
    BY <1>4 DEF HandedOver
  <2> QED  BY <1>0, <1>1, <1>4, <2>2, <2>3 DEF Moves, QueueInv, KnownStates
<1> QED  BY <1>2, <1>3, <1>4 DEF Moves

\* Handing out a job takes its expert out of the queue.
LEMMA GiveMoves ==
    ASSUME TypeInv, NEW G, QueueInv(G), NEW w \in Workers, NEW c, NoWorker \notin Workers,
           CanAssign(w, c), GiveJob(w, c)
    PROVE  \E e \in Experts : Moves(G, e)
<1> DEFINE i == FirstMatch(w)
           x == queue[i]
<1>1. i \in 1..Len(queue) /\ x \in Experts /\ queue \in Seq(Experts)
  BY Selection DEF CanAssign, TypeInv, TypeOK
<1>2. /\ queue' = RemoveAt(queue, i)
      /\ st' = [st EXCEPT ![x] = [state |-> "starting", owner |-> w]]
  BY DEF GiveJob, Dequeued
<1> HIDE DEF i
<1>3. Distinct(queue') /\ ToSet(queue') = ToSet(queue) \ {x}
  BY <1>1, <1>2, RemoveAtDistinct DEF QueueInv
<1>4. x \in ToSet(queue)
  BY <1>1, LenProperties DEF ToSet
<1> HIDE DEF x
<1>5. st[x].state = "queued"
  BY <1>4 DEF QueueInv
<1>6. /\ st'[x] = [state |-> "starting", owner |-> w]
      /\ \A f \in Experts \ {x} : st'[f] = st[f]
  BY <1>1, <1>2 DEF TypeInv, TypeOK
<1>7. Moves(G, x)
  BY <1>3, <1>5, <1>6 DEF Moves, HandedOver
<1> QED  BY <1>1, <1>7

\* An expert that is not queued goes from one state to another.
LEMMA StateMoves ==
    ASSUME TypeInv, NEW G, QueueInv(G), NEW e \in Experts, st[e].state # "queued",
           \A f \in Experts \ {e} : st'[f] = st[f], UNCHANGED queue,
           \/ st'[e] = Untracked
           \/ /\ st'[e].state \in {"starting", "started"}
              /\ st'[e].owner = st[e].owner /\ st[e].owner # NoWorker
    PROVE  Moves(G, e)
<1>1. e \notin ToSet(queue)
  BY DEF QueueInv
<1> QED  BY <1>1 DEF Moves, HandedOver, QueueInv

\* An expert is queued.
LEMMA QueueingMoves ==
    ASSUME TypeInv, NEW G, QueueInv(G), NEW e \in Experts, st[e].state # "queued",
           st[e].owner \in G \cup {NoWorker}, QueueExpert(e)
    PROVE  Moves(G, e)
<1>1. st' = [st EXCEPT ![e].state = "queued"] /\ queue' = Append(queue, e)
  BY DEF QueueExpert
<1>2. st'[e].state = "queued" /\ st'[e].owner = st[e].owner /\ \A f \in Experts \ {e} : st'[f] = st[f]
  BY <1>1 DEF TypeInv, TypeOK, ExpertStates
<1> QED  BY <1>1, <1>2 DEF Moves

\* Nothing is read from the workers that are gone, and no other worker is given up.
Parts(G, T) ==
    /\ G \subseteq Workers /\ T \in [Workers -> SUBSET UpMsgs]
    /\ \A w \in G : T[w] = {} /\ ~Connected(w)
    /\ \A w \in Workers : reconn[w] # {} => w \in G
    /\ loop.at = "requeue" => loop.worker \in G

\* What the scheduler does of itself and when it reads, except for the start timers.
Works(T) ==
    \/ \E e \in Experts : ProcessExpert(e)
    \/ \E w \in Workers, s \in Sockets : \E m \in T[w] : Receive(w, s, m)
    \/ \E w \in Workers, s \in Sockets : SocketClosed(w, s)
    \/ \E w \in Workers : ReconnTimeout(w) \/ JobTimeout(w) \/ StaleJobTimeout(w)
    \/ LoopStep

\* What that does to the experts and to the queue.
LEMMA SchedulerMoves ==
    ASSUME SchedulerAssumption, LinkInv, Present, NEW G, NEW T, Parts(G, T), QueueInv(G),
           Works(T) \/ \E e \in Experts : StartTimeout(e)
    PROVE  /\ UNCHANGED db /\ dirty' \subseteq dirty
           /\ UNCHANGED <<st, queue>> \/ \E e \in Experts : Moves(G, e)
<1> DEFINE Goal == /\ UNCHANGED db /\ dirty' \subseteq dirty
                   /\ UNCHANGED <<st, queue>> \/ \E e \in Experts : Moves(G, e)
<1>0. /\ TypeInv /\ st \in [Experts -> ExpertStates] /\ queue \in Seq(Experts)
      /\ NoWorker \notin Workers /\ dirty \subseteq Experts /\ loop \in Loops
  BY DEF LinkInv, TypeInv, TypeOK, SchedulerAssumption
<1>1. ASSUME UNCHANGED <<db, dirty, st, queue>> PROVE Goal
  BY <1>1
<1>2. ASSUME NEW e \in Experts, UNCHANGED db, dirty' \subseteq dirty, Moves(G, e) PROVE Goal
  BY <1>2
<1>3. ASSUME NEW e \in Experts, ProcessExpert(e) PROVE Goal
  <2>1. UNCHANGED db /\ dirty' \subseteq dirty /\ db[e] = "enabled"
    BY <1>3 DEF ProcessExpert, QueueInv, KnownStates
  <2>2. CASE QueueEnabled(e)
    <3>1. QueueExpert(e) /\ st[e].state = "none" /\ st[e].owner = NoWorker
      BY <2>2 DEF QueueEnabled, QueueInv, KnownStates
    <3> QED  BY <1>0, <2>1, <3>1, QueueingMoves
  <2>3. CASE RestartUpdated(e)
    <3>1. st' = [st EXCEPT ![e].state = "starting"] /\ UNCHANGED queue
          /\ st[e].state # "queued" /\ st[e].owner # NoWorker
      BY <2>3 DEF RestartUpdated
    <3>2. /\ st'[e].state = "starting" /\ st'[e].owner = st[e].owner
          /\ \A f \in Experts \ {e} : st'[f] = st[f]
      BY <1>0, <3>1 DEF ExpertStates
    <3>3. Moves(G, e)
      BY <1>0, <3>1, <3>2, StateMoves
    <3> QED  BY <2>1, <3>3
  <2>4. CASE AlreadyQueued(e)
    BY <2>1, <2>4 DEF AlreadyQueued
  <2> QED  BY <1>3, <2>1, <2>2, <2>3, <2>4 DEF ProcessExpert, StopDisabled
<1>4. ASSUME NEW w \in Workers, NEW s \in Sockets, NEW m \in T[w], Receive(w, s, m)
      PROVE  Goal
  <2>0. m \in UpMsgs /\ w \notin G
    BY DEF Parts
  <2>1. UNCHANGED <<db, dirty>>
    BY <1>4 DEF Receive, ReceiveExperts, ReceiveNeedJob, ReceiveStarted, ReceiveStopped, tableVars
  <2>2. CASE m.type = "experts"
    BY <1>1, <1>4, <2>1, <2>2 DEF Receive, ReceiveExperts
  <2>3. CASE m.type = "need_job"
    <3> DEFINE c == [Conn(w, s) EXCEPT !.needsJob = TRUE]
    <3>1. IF CanAssign(w, c) THEN GiveJob(w, c) \/ MissJob(w, c, TRUE) ELSE UNCHANGED <<st, queue>>
      BY <1>4, <2>3 DEF Receive, ReceiveNeedJob
    <3> HIDE DEF c
    <3>2. CASE CanAssign(w, c)
      <4>1. GiveJob(w, c)
        BY <1>0, <2>1, <3>1, <3>2, GivePresent DEF LinkInv
      <4> QED  BY <1>0, <2>1, <3>2, <4>1, GiveMoves
    <3> QED  BY <1>1, <2>1, <3>1, <3>2
  <2>4. CASE m.type = "started"
    <3> DEFINE e == m.expert
    <3>1. ReceiveStarted(w, s, e) /\ e \in Experts
      BY <1>4, <2>0, <2>4 DEF Receive, UpMsgs, NeedJobMsg
    <3> HIDE DEF e
    <3>2. CASE st[e].owner = w
      <4>1. st[e].state # "queued" /\ UNCHANGED queue /\ w # NoWorker
        BY <1>0, <2>0, <3>1, <3>2 DEF ReceiveStarted, QueueInv
      <4>2. st' = [st EXCEPT ![e].state = "started"]
        BY <3>1, <3>2 DEF ReceiveStarted
      <4>3. /\ st'[e].state = "started" /\ st'[e].owner = st[e].owner
            /\ \A f \in Experts \ {e} : st'[f] = st[f]
        BY <1>0, <3>1, <4>2 DEF ExpertStates
      <4>4. Moves(G, e)
        BY <1>0, <3>1, <3>2, <4>1, <4>3, StateMoves
      <4> QED  BY <2>1, <3>1, <4>4
    <3>3. CASE st[e].owner # w
      BY <1>1, <2>1, <3>1, <3>3 DEF ReceiveStarted
    <3> QED  BY <3>2, <3>3
  <2>5. CASE m.type = "stopped"
    <3> DEFINE e == m.expert
    <3>1. ReceiveStopped(w, s, e) /\ e \in Experts
      BY <1>4, <2>0, <2>5 DEF Receive, UpMsgs, NeedJobMsg
    <3> HIDE DEF e
    <3>2. CASE st[e].owner = w
      <4>1. st[e].state # "queued" /\ UNCHANGED queue /\ st' = [st EXCEPT ![e] = Untracked]
        BY <1>0, <2>0, <3>1, <3>2 DEF ReceiveStopped, MayStop, QueueInv
      <4>2. st'[e] = Untracked /\ \A f \in Experts \ {e} : st'[f] = st[f]
        BY <1>0, <3>1, <4>1
      <4>3. Moves(G, e)
        BY <1>0, <3>1, <4>1, <4>2, StateMoves
      <4> QED  BY <2>1, <3>1, <4>3
    <3>3. CASE st[e].owner # w
      BY <1>1, <2>1, <3>1, <3>3 DEF ReceiveStopped, MayStop
    <3> QED  BY <3>2, <3>3
  <2> QED  BY <1>4, <2>2, <2>3, <2>4, <2>5 DEF Receive
<1>5. ASSUME NEW w \in Workers, NEW s \in Sockets, SocketClosed(w, s) PROVE Goal
  BY <1>1, <1>5 DEF SocketClosed, tableVars
<1>6. ASSUME NEW e \in Experts, StartTimeout(e) PROVE Goal
  <2>1. UNCHANGED <<db, dirty>>
    BY <1>6 DEF StartTimeout, tableVars
  <2>2. CASE st[e].state = "starting" /\ st' = [st EXCEPT ![e] = Queued(NoWorker)] /\ queue' = Append(queue, e)
    <3>1. st'[e] = Queued(NoWorker) /\ \A f \in Experts \ {e} : st'[f] = st[f]
      BY <1>0, <2>2
    <3>2. Moves(G, e)
      BY <2>2, <3>1 DEF Moves, Queued
    <3> QED  BY <2>1, <3>2
  <2> QED  BY <1>1, <1>6, <2>1, <2>2 DEF StartTimeout
<1>7. ASSUME NEW w \in Workers, ReconnTimeout(w) \/ JobTimeout(w) \/ StaleJobTimeout(w) PROVE Goal
  BY <1>1, <1>7 DEF ReconnTimeout, JobTimeout, StaleJobTimeout, tableVars
<1>8. ASSUME NEW w \in Workers, AssignNext(w) PROVE Goal
  <2>1. UNCHANGED <<db, dirty>>
    BY <1>8 DEF AssignNext, tableVars
  <2>2. CASE CanAssign(w, workers[w])
    <3>1. GiveJob(w, workers[w])
      BY <1>8, <2>1, <2>2, GivePresent DEF AssignNext, LinkInv
    <3> QED  BY <1>0, <2>1, <2>2, <3>1, GiveMoves
  <2> QED  BY <1>1, <1>8, <2>1, <2>2 DEF AssignNext
<1>9. ASSUME NEW e \in Experts, ReportedNext(e) PROVE Goal
  <2> DEFINE w == loop.worker
  <2>1. UNCHANGED <<db, dirty>> /\ w \in Workers
    BY <1>9 DEF ReportedNext, tableVars, LinkInv, TypeInv, LoopHasWorker
  <2>2. CASE /\ ~Refused(w, e) /\ st' = [st EXCEPT ![e] = Adopted(w, e)]
             /\ queue' = QueueWithout(e)
    <3>1. st'[e] = [state |-> "started", owner |-> w] /\ \A f \in Experts \ {e} : st'[f] = st[f]
      BY <1>0, <2>2 DEF Adopted
    <3>2. st[e].owner \in {NoWorker, w}
      BY <2>2 DEF Refused
    <3>3. Distinct(queue') /\ ToSet(queue') = ToSet(queue) \ {e}
      BY <1>0, <2>2, RemoveFirstElements DEF QueueWithout, QueueInv
    <3>4. Moves(G, e)
      BY <1>0, <2>1, <3>1, <3>2, <3>3 DEF Moves, HandedOver
    <3> QED  BY <2>1, <3>4
  <2> QED  BY <1>1, <1>9, <2>1, <2>2 DEF ReportedNext
<1>10. CASE ReportDone
  BY <1>1, <1>10 DEF ReportDone, tableVars
<1>11. ASSUME NEW e \in Experts, RequeueNext(e) PROVE Goal
  <2>1. UNCHANGED <<db, dirty>> /\ loop.worker \in G
    BY <1>11 DEF RequeueNext, tableVars, Parts
  <2>2. CASE st[e].owner = loop.worker /\ st[e].state # "queued" /\ QueueExpert(e)
    BY <1>0, <2>1, <2>2, QueueingMoves
  <2> QED  BY <1>1, <1>11, <2>1, <2>2 DEF RequeueNext
<1> QED
  BY <1>3, <1>4, <1>5, <1>6, <1>7, <1>8, <1>9, <1>10, <1>11 DEF Works, LoopStep

\* An edit that enables a row is read before it is acted on.
LEMMA EditQueue ==
    ASSUME TypeInv, NEW G, QueueInv(G), NEW e \in Experts, Edit(e, "enabled")
    PROVE  QueueInv(G)'
<1>1. /\ db' = [db EXCEPT ![e] = "enabled"] /\ dirty' = dirty \cup {e}
      /\ UNCHANGED <<st, queue>>
  BY DEF Edit
<1>2. db \in [Experts -> Rows] /\ dirty \subseteq Experts
  BY DEF TypeInv, TypeOK
<1> QED  BY <1>1, <1>2 DEF QueueInv, KnownStates

\* The scheduler boots with the enabled experts in the queue.
LEMMA BootQueueInv ==
    ASSUME SchedulerAssumption, NEW G, dirty = {}, st = BootStates, queue \in SetToSeqs(Enabled)
    PROVE  QueueInv(G)
<1>1. Distinct(queue) /\ ToSet(queue) = Enabled /\ Enabled \subseteq Experts
  BY BootQueue DEF Enabled
<1>2. \A e \in Experts : /\ st[e].owner = NoWorker /\ st[e].state \in {"queued", "none"}
                         /\ e \in Enabled => st[e].state = "queued"
  BY DEF BootStates, Queued, Untracked
<1> QED  BY <1>1, <1>2 DEF QueueInv, KnownStates

-----------------------------------------------------------------------------
(* The experts in no state.  Where the workers report no running expert and *)
(* none that is stopped, no expert is forgotten.                            *)

\* A message that reports nothing but a start.
Plain(m) == m.type # "stopped" /\ (m.type = "experts" => m.experts = {})

\* An enabled expert whose row has been read has a state, and no report is at work.
Calm ==
    /\ loop.at = "experts" => loop.todo = {}
    /\ \A e \in Experts : st[e].state = "none" /\ db[e] = "enabled" => e \in dirty

\* The scheduler forgets no expert, and tells no worker to stop one.
LEMMA CalmStep ==
    ASSUME SchedulerAssumption, LinkInv, NEW T, T \in [Workers -> SUBSET UpMsgs],
           \A w \in Workers : \A m \in T[w] : Plain(m),
           KnownStates, Calm, Works(T) \/ \E e \in Experts : StartTimeout(e)
    PROVE  /\ Calm' /\ UNCHANGED live
           /\ \A e \in Experts : st'[e].state = "none" => st[e].state = "none"
           /\ \A v \in Workers : \A m \in ToSet(down'[v]) : m \in ToSet(down[v]) \/ m.type # "stop"
<1> DEFINE Goal == /\ UNCHANGED <<db, live>>
                   /\ loop'.at = "experts" => loop'.todo = {}
                   /\ \A e \in Experts : st'[e].state = "none" => st[e].state = "none"
                                                               /\ (e \in dirty => e \in dirty')
<1>0. /\ st \in [Experts -> ExpertStates] /\ loop \in Loops /\ NoWorker \notin Workers
      /\ dirty \subseteq Experts
  BY DEF LinkInv, TypeInv, TypeOK, SchedulerAssumption
<1>1. ASSUME UNCHANGED <<db, live, dirty>>, UNCHANGED st,
             loop'.at = "experts" => loop'.todo = {}
      PROVE  Goal
  BY <1>1
<1>2. ASSUME NEW w \in Workers, NEW c, GiveJob(w, c), UNCHANGED <<db, live, dirty>>,
             loop'.at = "experts" => loop'.todo = {}
      PROVE  Goal
  <2>1. st' = [st EXCEPT ![queue[FirstMatch(w)]] = [state |-> "starting", owner |-> w]]
    BY <1>2 DEF GiveJob
  <2> QED  BY <1>0, <1>2, <2>1
<1>3. ASSUME NEW e \in Experts, ProcessExpert(e) PROVE Goal
  <2>1. UNCHANGED <<db, live>> /\ dirty' = dirty \ {e} /\ db[e] = "enabled"
    BY <1>3 DEF ProcessExpert, KnownStates
  <2>2. QueueEnabled(e) \/ RestartUpdated(e) \/ AlreadyQueued(e)
    BY <1>3, <2>1 DEF ProcessExpert, StopDisabled
  <2>3. loop' = loop \/ loop' = AssignLoop(workers)
    BY <2>2 DEF QueueEnabled, RestartUpdated, AlreadyQueued
  <2>4. loop'.at = "experts" => loop'.todo = {}
    BY <2>3 DEF AssignLoop, Loop, IdleLoop, Calm
  <2>5. st'[e].state # "none" /\ \A f \in Experts \ {e} : st'[f] = st[f]
    BY <1>0, <2>2 DEF QueueEnabled, QueueExpert, RestartUpdated, AlreadyQueued, ExpertStates
  <2> QED  BY <2>1, <2>4, <2>5
<1>4. ASSUME NEW w \in Workers, NEW s \in Sockets, NEW m \in T[w], Receive(w, s, m) PROVE Goal
  <2>1. UNCHANGED <<db, live, dirty>>
    BY <1>4 DEF Receive, ReceiveExperts, ReceiveNeedJob, ReceiveStarted, ReceiveStopped, tableVars,
         netVars
  <2>2. m \in UpMsgs /\ Plain(m)
    OBVIOUS
  <2>3. CASE m.type = "experts"
    BY <1>1, <1>4, <2>1, <2>2, <2>3 DEF Receive, ReceiveExperts, Plain, Loop
  <2>4. CASE m.type = "need_job"
    <3>1. ReceiveNeedJob(w, s)
      BY <1>4, <2>4 DEF Receive
    <3>2. UNCHANGED loop /\ (loop'.at = "experts" => loop'.todo = {})
      BY <3>1 DEF ReceiveNeedJob, Calm
    <3>3. UNCHANGED st \/ \E c : GiveJob(w, c)
      BY <3>1 DEF ReceiveNeedJob, MissJob
    <3> QED  BY <1>1, <1>2, <2>1, <3>2, <3>3
  <2>5. CASE m.type = "started"
    <3>1. ReceiveStarted(w, s, m.expert)
      BY <1>4, <2>5 DEF Receive
    <3>2. UNCHANGED loop /\ (loop'.at = "experts" => loop'.todo = {})
      BY <3>1 DEF ReceiveStarted, Calm
    <3>3. UNCHANGED st \/ st' = [st EXCEPT ![m.expert].state = "started"]
      BY <3>1 DEF ReceiveStarted
    <3>4. \A e \in Experts : st'[e].state = "none" => st[e].state = "none"
      BY <1>0, <3>3 DEF ExpertStates
    <3> QED  BY <2>1, <3>2, <3>4
  <2> QED  BY <1>4, <2>2, <2>3, <2>4, <2>5 DEF Receive, Plain
<1>5. ASSUME NEW w \in Workers, NEW s \in Sockets, SocketClosed(w, s) PROVE Goal
  BY <1>1, <1>5 DEF SocketClosed, tableVars, netVars, Calm
<1>6. ASSUME NEW e \in Experts, StartTimeout(e) PROVE Goal
  <2>1. /\ UNCHANGED <<db, live, dirty, loop>>
        /\ UNCHANGED st \/ st' = [st EXCEPT ![e] = Queued(NoWorker)]
    BY <1>6 DEF StartTimeout, tableVars, netVars
  <2>2. \A f \in Experts : st'[f].state = "none" => st[f].state = "none"
    BY <1>0, <2>1 DEF Queued
  <2> QED  BY <2>1, <2>2 DEF Calm
<1>7. ASSUME NEW w \in Workers, ReconnTimeout(w) \/ JobTimeout(w) \/ StaleJobTimeout(w) PROVE Goal
  BY <1>1, <1>7 DEF ReconnTimeout, JobTimeout, StaleJobTimeout, tableVars, netVars, Calm, Loop
<1>8. ASSUME NEW w \in Workers, AssignNext(w) PROVE Goal
  <2>1. UNCHANGED <<db, live, dirty>> /\ loop'.at # "experts"
    BY <1>0, <1>8 DEF AssignNext, tableVars, IdleLoop, Loop, Loops
  <2>2. UNCHANGED st \/ \E c : GiveJob(w, c)
    BY <1>8 DEF AssignNext, MissJob
  <2> QED  BY <1>1, <1>2, <2>1, <2>2
<1>9. ASSUME NEW e \in Experts, ReportedNext(e) PROVE Goal
  BY <1>9 DEF ReportedNext, Calm
<1>10. ASSUME ReportDone PROVE Goal
  <2>1. UNCHANGED <<db, live, dirty, st>>
    BY <1>10 DEF ReportDone, tableVars, netVars
  <2>2. loop' = IdleLoop \/ loop' = Loop("assign", NoWorker, {loop.worker})
    BY <1>10 DEF ReportDone
  <2>3. loop'.at # "experts"
    BY <2>2 DEF IdleLoop, Loop
  <2> HIDE DEF Goal
  <2> QED  BY <1>1, <2>1, <2>3
<1>11. ASSUME NEW e \in Experts, RequeueNext(e) PROVE Goal
  <2>1. UNCHANGED <<db, live, dirty>> /\ loop'.at # "experts"
    BY <1>0, <1>11 DEF RequeueNext, tableVars, netVars, AssignLoop, IdleLoop, Loop, Loops
  <2>2. UNCHANGED st \/ st' = [st EXCEPT ![e].state = "queued"]
    BY <1>11 DEF RequeueNext, QueueExpert
  <2>3. \A f \in Experts : st'[f].state = "none" => st[f].state = "none"
    BY <1>0, <2>2 DEF ExpertStates
  <2> QED  BY <2>1, <2>3
<1>12. Goal
  <2> HIDE DEF Goal
  <2> QED  BY <1>3, <1>4, <1>5, <1>6, <1>7, <1>8, <1>9, <1>10, <1>11 DEF Works, LoopStep
<1>13. \A v \in Workers : \A m \in ToSet(down'[v]) : m \in ToSet(down[v]) \/ Sends(v, m)
  <2>1. \/ \E e \in Experts : ProcessExpert(e)
        \/ \E w \in Workers, s \in Sockets, m \in UpMsgs : Receive(w, s, m)
        \/ \E w \in Workers, s \in Sockets : SocketClosed(w, s)
        \/ TimerStep \/ LoopStep
    <3>1. \A w \in Workers : \A m \in T[w] : m \in UpMsgs
      OBVIOUS
    <3> QED  BY <3>1 DEF Works, TimerStep
  <2> QED  BY <2>1, Sendings
<1>14. \A v \in Workers : \A m : Sends(v, m) => m.type # "stop"
  BY SendsTypes DEF KnownStates, Calm, Reports
<1> QED  BY <1>12, <1>13, <1>14 DEF Calm

-----------------------------------------------------------------------------
(* The attempts to start an expert, and the timers that watch them.         *)

\* The newest start timer of e watches its owner, or the owner is being given up.
Watched(e) ==
    st[e].state = "starting" =>
        \/ pend[e] # <<>> /\ Last(pend[e]) = st[e].owner
        \/ e \in reconn[st[e].owner]
        \/ Requeues(st[e].owner, e)

\* Nothing happens to e but that an older start timer is dropped, or that a worker which does
\* not own e says it has started it.
Keeps(T, e) ==
    /\ st'[e] = st[e]
    /\ \A v \in Workers : e \in reconn[v] => e \in reconn'[v] \/ Requeues(v, e)'
    /\ Requeues(st[e].owner, e) => Requeues(st[e].owner, e)'
    /\ \/ pend'[e] = pend[e]
       \/ pend[e] # <<>> /\ pend'[e] = Tail(pend[e]) /\ Head(pend[e]) # st[e].owner
       \/ \E v \in Workers : StartedMsg(e) \in T[v] /\ v # st[e].owner

\* e is taken from the queue for w.
Given(e, w) ==
    /\ st[e].state = "queued" /\ st'[e] = [state |-> "starting", owner |-> w]
    /\ pend'[e] = Append(pend[e], w)

\* The owner of e, edited meanwhile, is told to restart it.
Restarted(e, w) ==
    /\ e \in dirty /\ st[e].state \in {"starting", "started"}
    /\ st[e].owner = w /\ st'[e] = [state |-> "starting", owner |-> w]
    /\ IF Connected(w)
         THEN /\ pend'[e] = Append(pend[e], w)
              /\ workers[w].sock = live[w] => RestartMsg(e) \in ToSet(down'[w])
         ELSE UNCHANGED <<pend, reconn, loop>>

\* e is not being started any more.  It is taken from its owner when its start timer fires,
\* which those of the experts in F may.
Ends(F, e) ==
    /\ st'[e].state # "starting"
    /\ st'[e].state = "queued" /\ st[e].state # "queued" =>
         st'[e].owner = st[e].owner \/ (e \in F /\ st[e].state = "starting")

\* That is all that may happen to an attempt.
LEMMA AttemptSteps ==
    ASSUME SchedulerAssumption, LinkInv, Present, NEW G, NEW T, Parts(G, T), QueueInv(G),
           NEW F \in SUBSET Experts, Works(T) \/ (\E f \in F : StartTimeout(f)), NEW e \in Experts
    PROVE  Keeps(T, e) \/ (\E w \in Workers : Given(e, w) \/ Restarted(e, w)) \/ Ends(F, e)
<1> DEFINE Goal == Keeps(T, e) \/ (\E w \in Workers : Given(e, w) \/ Restarted(e, w)) \/ Ends(F, e)
<1>0. /\ TypeInv /\ st \in [Experts -> ExpertStates] /\ queue \in Seq(Experts)
      /\ loop \in Loops /\ NoWorker \notin Workers /\ pend \in [Experts -> Seq(Workers)]
      /\ reconn \in [Workers -> SUBSET Experts] /\ workers \in [Workers -> Conns]
  BY DEF LinkInv, TypeInv, TypeOK, SchedulerAssumption
<1>1. ASSUME st'[e] = st[e], pend'[e] = pend[e], loop.at # "requeue",
             \A v \in Workers : e \in reconn[v] => e \in reconn'[v]
      PROVE  Keeps(T, e)
  BY <1>1 DEF Keeps, Requeues
<1>2. ASSUME st'[e] = st[e], st[e].state # "starting" PROVE Ends(F, e)
  BY <1>2 DEF Ends
<1>3. ASSUME NEW w \in Workers, NEW c, CanAssign(w, c), GiveJob(w, c), loop.at # "requeue",
             \A v \in Workers : e \in reconn[v] => e \in reconn'[v]
      PROVE  Goal
  <2> DEFINE i == FirstMatch(w)
             x == queue[i]
  <2>1. i \in 1..Len(queue) /\ x \in Experts
    BY <1>0, <1>3, Selection DEF CanAssign
  <2>2. /\ st' = [st EXCEPT ![x] = [state |-> "starting", owner |-> w]]
        /\ pend' = [pend EXCEPT ![x] = Append(@, w)]
    BY <1>3 DEF GiveJob, ArmStartTimer
  <2>3. x \in ToSet(queue)
    <3> HIDE DEF i
    <3> QED  BY <1>0, <2>1, LenProperties DEF ToSet
  <2> HIDE DEF x
  <2>4. st[x].state = "queued"
    BY <2>3 DEF QueueInv
  <2>5. CASE x = e
    BY <1>0, <2>2, <2>4, <2>5 DEF Given
  <2>6. CASE x # e
    <3>1. st'[e] = st[e] /\ pend'[e] = pend[e]
      BY <1>0, <2>2, <2>6
    <3> QED  BY <1>1, <1>3, <3>1
  <2> QED  BY <2>5, <2>6
<1>4. ASSUME NEW f \in Experts, ProcessExpert(f) PROVE Goal
  <2>1. /\ f \in dirty /\ db[f] = "enabled" /\ UNCHANGED <<reconn, workers, live>>
        /\ loop.at # "requeue"
    BY <1>4 DEF ProcessExpert, QueueInv, KnownStates, Idle
  <2>2. QueueEnabled(f) \/ RestartUpdated(f) \/ AlreadyQueued(f)
    BY <1>4, <2>1 DEF ProcessExpert, StopDisabled
  <2>3. CASE f # e
    <3>1. st'[e] = st[e] /\ pend'[e] = pend[e]
      BY <1>0, <2>2, <2>3 DEF QueueEnabled, QueueExpert, RestartUpdated, AlreadyQueued, timerVars,
           ArmStartTimer
    <3> QED  BY <1>1, <2>1, <3>1
  <2>4. CASE f = e /\ QueueEnabled(e)
    <3>1. st' = [st EXCEPT ![e].state = "queued"]
      BY <2>4 DEF QueueEnabled, QueueExpert
    <3>2. st'[e].state = "queued" /\ st'[e].owner = st[e].owner
      BY <1>0, <3>1 DEF ExpertStates
    <3> QED  BY <3>2 DEF Ends
  <2>5. CASE f = e /\ RestartUpdated(e)
    <3> DEFINE w == st[e].owner
    <3>1. /\ w \in Workers /\ st[e].state \in {"starting", "started"}
          /\ st' = [st EXCEPT ![e].state = "starting"]
          /\ IF Connected(w)
               THEN Send(w, workers[w], RestartMsg(e)) /\ ArmStartTimer(e, w)
               ELSE UNCHANGED <<timerVars, down>>
          /\ UNCHANGED loop
      BY <1>0, <2>5 DEF RestartUpdated, ExpertStates
    <3>2. st'[e] = [state |-> "starting", owner |-> w]
      BY <1>0, <3>1 DEF ExpertStates
    <3>3. ASSUME Connected(w)
          PROVE  /\ pend'[e] = Append(pend[e], w)
                 /\ workers[w].sock = live[w] => RestartMsg(e) \in ToSet(down'[w])
      <4>1. RestartMsg(e) \in DownMsgs
        BY MessageTypes
      <4>2. workers[w].sock = live[w] => RestartMsg(e) \in ToSet(down'[w])
        BY <1>0, <3>1, <3>3, <4>1, SendAdds
      <4> QED  BY <1>0, <3>1, <3>3, <4>2 DEF ArmStartTimer
    <3>4. ~Connected(w) => UNCHANGED <<pend, reconn, loop>>
      BY <2>1, <3>1 DEF timerVars
    <3>5. Restarted(e, w)
      <4> HIDE DEF w
      <4>1. st[e].owner = w
        BY DEF w
      <4> QED  BY <2>1, <2>5, <3>1, <3>2, <3>3, <3>4, <4>1 DEF Restarted
    <3> QED  BY <3>1, <3>5
  <2>6. CASE f = e /\ AlreadyQueued(e)
    BY <1>2, <2>6 DEF AlreadyQueued
  <2> QED  BY <2>2, <2>3, <2>4, <2>5, <2>6
<1>5. ASSUME NEW w \in Workers, NEW s \in Sockets, NEW m \in T[w], Receive(w, s, m) PROVE Goal
  <2>0. m \in UpMsgs /\ reconn[w] = {}
    BY DEF Parts
  <2>1. /\ loop.at # "requeue"
        /\ UNCHANGED reconn \/ reconn' = [reconn EXCEPT ![w] = {}]
    BY <1>5 DEF Receive, ReceiveExperts, ReceiveNeedJob, ReceiveStarted, ReceiveStopped, Idle,
         ClearReconn
  <2>2. \A v \in Workers : e \in reconn[v] => e \in reconn'[v]
    BY <1>0, <2>0, <2>1
  <2>3. CASE m.type = "experts"
    BY <1>1, <1>5, <2>1, <2>2, <2>3 DEF Receive, ReceiveExperts, timerVars
  <2>4. CASE m.type = "need_job"
    <3>1. ReceiveNeedJob(w, s)
      BY <1>5, <2>4 DEF Receive
    <3>2. \/ st' = st /\ pend' = pend
          \/ \E c : CanAssign(w, c) /\ GiveJob(w, c)
      BY <3>1 DEF ReceiveNeedJob, MissJob, timerVars
    <3> QED  BY <1>1, <1>3, <2>1, <2>2, <3>2
  <2>5. CASE m.type = "started"
    <3> DEFINE x == m.expert
    <3>1. ReceiveStarted(w, s, x) /\ m = StartedMsg(x) /\ x \in Experts
      BY <1>5, <2>0, <2>5 DEF Receive, UpMsgs, NeedJobMsg, StartedMsg
    <3> HIDE DEF x
    <3>2. /\ pend' = IF mapped[x] THEN [pend EXCEPT ![x] = Front(@)] ELSE pend
          /\ IF st[x].owner = w THEN st' = [st EXCEPT ![x].state = "started"] ELSE st' = st
      BY <3>1 DEF ReceiveStarted
    <3>3. CASE x # e
      <4>1. st'[e] = st[e] /\ pend'[e] = pend[e]
        BY <1>0, <3>2, <3>3
      <4> QED  BY <1>1, <2>1, <2>2, <4>1
    <3>4. CASE x = e /\ st[e].owner = w
      <4>1. st'[e].state = "started"
        BY <1>0, <3>2, <3>4 DEF ExpertStates
      <4> QED  BY <4>1 DEF Ends
    <3>5. CASE x = e /\ st[e].owner # w
      <4>1. st'[e] = st[e] /\ StartedMsg(e) \in T[w]
        BY <3>1, <3>2, <3>5
      <4> QED  BY <2>1, <2>2, <3>5, <4>1 DEF Keeps, Requeues
    <3> QED  BY <3>3, <3>4, <3>5
  <2>6. CASE m.type = "stopped"
    <3> DEFINE x == m.expert
    <3>1. ReceiveStopped(w, s, x)
      BY <1>5, <2>6 DEF Receive
    <3>2. /\ pend' = pend
          /\ st' = [st EXCEPT ![x] = Untracked] \/ st' = st
      BY <3>1 DEF ReceiveStopped, timerVars
    <3> HIDE DEF x
    <3>3. st'[e] = st[e] \/ st'[e] = Untracked
      BY <1>0, <3>2
    <3> QED  BY <1>1, <2>1, <2>2, <3>2, <3>3 DEF Ends, Untracked
  <2> QED  BY <1>5, <2>3, <2>4, <2>5, <2>6 DEF Receive
<1>6. ASSUME NEW w \in Workers, NEW s \in Sockets, SocketClosed(w, s) PROVE Goal
  <2>1. /\ loop.at # "requeue" /\ st' = st /\ pend' = pend
        /\ IF workers[w].sock = s THEN reconn' = [reconn EXCEPT ![w] = ToRequeue(workers[w])]
           ELSE reconn' = reconn
    BY <1>6 DEF SocketClosed, Idle, timerVars
  <2>2. workers[w].sock = s => reconn[w] = {}
    <3>1. s # 0
      BY DEF Sockets
    <3> QED  BY <3>1 DEF Parts, Connected
  <2>3. \A v \in Workers : e \in reconn[v] => e \in reconn'[v]
    BY <1>0, <2>1, <2>2
  <2> QED  BY <1>1, <2>1, <2>3
<1>7. ASSUME NEW f \in F, StartTimeout(f) PROVE Goal
  <2>1. /\ loop.at # "requeue" /\ reconn' = reconn /\ pend[f] # <<>>
        /\ IF st[f] = [state |-> "starting", owner |-> Head(pend[f])]
             THEN st' = [st EXCEPT ![f] = Queued(NoWorker)] ELSE st' = st
        /\ pend' = [pend EXCEPT ![f] = Tail(@)]
    BY <1>7 DEF StartTimeout, Idle
  <2>2. CASE f # e
    <3>1. st'[e] = st[e] /\ pend'[e] = pend[e]
      BY <1>0, <2>1, <2>2
    <3> QED  BY <1>1, <2>1, <3>1
  <2>3. CASE f = e /\ st[e] = [state |-> "starting", owner |-> Head(pend[e])]
    <3>1. st'[e] = Queued(NoWorker)
      BY <1>0, <2>1, <2>3
    <3>2. st[e].state = "starting" /\ e \in F
      BY <2>3
    <3> QED  BY <3>1, <3>2 DEF Ends, Queued
  <2>4. CASE f = e /\ st[e] # [state |-> "starting", owner |-> Head(pend[e])]
    <3>1. st'[e] = st[e] /\ pend'[e] = Tail(pend[e]) /\ pend[e] # <<>>
      BY <1>0, <2>1, <2>4
    <3>2. st[e].state = "starting" => Head(pend[e]) # st[e].owner
      <4>1. st[e] = [state |-> st[e].state, owner |-> st[e].owner]
        BY <1>0 DEF ExpertStates
      <4> QED  BY <2>4, <4>1
    <3> QED  BY <1>2, <2>1, <3>1, <3>2 DEF Keeps, Requeues
  <2> QED  BY <2>2, <2>3, <2>4
<1>8. ASSUME NEW w \in Workers, ReconnTimeout(w) PROVE Goal
  <2>1. /\ loop.at # "requeue" /\ st' = st /\ pend' = pend
        /\ loop' = Loop("requeue", w, reconn[w]) /\ reconn' = [reconn EXCEPT ![w] = {}]
    BY <1>8 DEF ReconnTimeout, Idle, timerVars
  <2>2. ASSUME NEW v \in Workers, e \in reconn[v] PROVE e \in reconn'[v] \/ Requeues(v, e)'
    BY <1>0, <2>1, <2>2 DEF Requeues, Loop
  <2> QED  BY <2>1, <2>2 DEF Keeps, Requeues
<1>9. ASSUME NEW w \in Workers, JobTimeout(w) \/ StaleJobTimeout(w) PROVE Goal
  BY <1>1, <1>9 DEF JobTimeout, StaleJobTimeout, Idle, timerVars
<1>10. ASSUME NEW w \in Workers, AssignNext(w) PROVE Goal
  <2>1. loop.at # "requeue" /\ UNCHANGED reconn
    BY <1>10 DEF AssignNext
  <2>2. \/ st' = st /\ pend' = pend
        \/ \E c : CanAssign(w, c) /\ GiveJob(w, c)
    BY <1>10 DEF AssignNext, MissJob, timerVars
  <2> QED  BY <1>1, <1>3, <2>1, <2>2
<1>11. ASSUME NEW f \in Experts, ReportedNext(f) PROVE Goal
  <2>1. /\ loop.at # "requeue" /\ UNCHANGED reconn /\ pend' = pend
        /\ st' = st \/ st' = [st EXCEPT ![f] = Adopted(loop.worker, f)]
    BY <1>11 DEF ReportedNext, timerVars
  <2>2. st'[e] = st[e] \/ st'[e].state = "started"
    BY <1>0, <2>1 DEF Adopted
  <2> QED  BY <1>1, <2>1, <2>2 DEF Ends
<1>12. ASSUME ReportDone PROVE Goal
  BY <1>1, <1>12 DEF ReportDone, timerVars
<1>13. ASSUME NEW f \in Experts, RequeueNext(f) PROVE Goal
  <2>1. /\ loop.at = "requeue" /\ f \in loop.todo /\ reconn' = reconn /\ pend' = pend
        /\ IF st[f].owner = loop.worker /\ st[f].state # "queued"
             THEN st' = [st EXCEPT ![f].state = "queued"] ELSE st' = st
        /\ loop.todo # {f} => loop' = [loop EXCEPT !.todo = @ \ {f}]
    BY <1>13 DEF RequeueNext, QueueExpert, timerVars
  <2>2. CASE f # e
    <3>1. st'[e] = st[e]
      BY <1>0, <2>1, <2>2
    <3>2. Requeues(st[e].owner, e) => Requeues(st[e].owner, e)'
      BY <1>0, <2>1, <2>2, <3>1 DEF Requeues, Loops
    <3> QED  BY <2>1, <3>1, <3>2 DEF Keeps
  <2>3. CASE f = e /\ st[e].owner = loop.worker /\ st[e].state # "queued"
    <3>1. st'[e].state = "queued" /\ st'[e].owner = st[e].owner
      BY <1>0, <2>1, <2>3 DEF ExpertStates
    <3> QED  BY <3>1 DEF Ends
  <2>4. CASE f = e /\ ~(st[e].owner = loop.worker /\ st[e].state # "queued")
    <3>1. st' = st
      BY <2>1, <2>4
    <3>2. st[e].state = "starting" => ~Requeues(st[e].owner, e)
      BY <2>4 DEF Requeues
    <3> QED  BY <1>2, <2>1, <3>1, <3>2 DEF Keeps
  <2> QED  BY <2>2, <2>3, <2>4
<1> HIDE DEF Goal
<1>14. Goal
  BY <1>4, <1>5, <1>6, <1>7, <1>8, <1>9, <1>10, <1>11, <1>12, <1>13 DEF Works, LoopStep
<1> QED  BY <1>14 DEF Goal

\* An attempt is watched from its first step to its end, where only the owner of an expert
\* says that it has started it.
LEMMA WatchedStep ==
    ASSUME LinkInv, OwnedWhenActive, NEW T, NEW F, NEW e \in Experts, Watched(e),
           \A w \in Workers : Recoverable(w),
           \A v \in Workers : StartedMsg(e) \in T[v] => v = st[e].owner,
           Keeps(T, e) \/ (\E w \in Workers : Given(e, w) \/ Restarted(e, w)) \/ Ends(F, e)
    PROVE  Watched(e)'
<1>0. pend[e] \in Seq(Workers) /\ st[e] \in ExpertStates
  BY DEF LinkInv, TypeInv, TypeOK
<1>1. CASE Keeps(T, e)
  <2> SUFFICES ASSUME st[e].state = "starting" PROVE Watched(e)'
    BY <1>1 DEF Keeps, Watched
  <2> DEFINE w == st[e].owner
  <2>0. st'[e] = st[e]
    BY <1>1 DEF Keeps
  <2>1. CASE e \in reconn[w] /\ w \in Workers
    BY <1>1, <2>0, <2>1 DEF Keeps, Watched
  <2>2. CASE Requeues(w, e)
    BY <1>1, <2>0, <2>2 DEF Keeps, Watched
  <2>3. CASE pend[e] # <<>> /\ Last(pend[e]) = w
    <3>1. CASE pend'[e] = pend[e]
      BY <2>0, <2>3, <3>1 DEF Watched
    <3>2. CASE pend'[e] = Tail(pend[e]) /\ Head(pend[e]) # w
      <4> DEFINE s == pend[e]
      <4>1. s \in Seq(Workers) /\ s # <<>> /\ s[Len(s)] = w /\ s[1] # w
        BY <1>0, <2>3, <3>2 DEF Last
      <4> HIDE DEF s, w
      <4>2. Len(s) > 1 /\ Tail(s) # <<>> /\ Tail(s)[Len(Tail(s))] = w
        <5>1. Len(s) \in Nat /\ Len(s) # 0 /\ Len(s) # 1
          BY <4>1, EmptySeq, LenProperties
        <5>2. Tail(s) \in Seq(Workers) /\ Len(Tail(s)) = Len(s) - 1
              /\ \A i \in 1..Len(Tail(s)) : Tail(s)[i] = s[i + 1]
          BY <4>1, HeadTailElements
        <5>3. Len(Tail(s)) # 0 /\ Len(Tail(s)) \in 1..Len(Tail(s))
          BY <5>1, <5>2, LenProperties
        <5>4. Tail(s)[Len(Tail(s))] = s[Len(s)]
          <6>1. Len(Tail(s)) + 1 = Len(s)
            BY <5>1, <5>2
          <6>2. Tail(s)[Len(Tail(s))] = s[Len(Tail(s)) + 1]
            BY <5>2, <5>3
          <6> QED  BY <6>1, <6>2
        <5>5. Tail(s) # <<>>
          BY <5>2, <5>3, EmptySeq
        <5> QED  BY <4>1, <5>1, <5>4, <5>5
      <4> QED  BY <2>0, <3>2, <4>2 DEF Watched, Last, s, w
    <3>3. CASE \E v \in Workers : StartedMsg(e) \in T[v] /\ v # w
      BY <3>3
    <3> QED  BY <1>1, <3>1, <3>2, <3>3 DEF Keeps
  <2>4. w \in Workers
    BY <1>0 DEF ExpertStates, OwnedWhenActive
  <2> QED  BY <2>1, <2>2, <2>3, <2>4 DEF Watched
<1>2. ASSUME NEW w \in Workers, Given(e, w) \/ (Restarted(e, w) /\ Connected(w))
      PROVE  Watched(e)'
  <2>1. pend'[e] = Append(pend[e], w) /\ st'[e] = [state |-> "starting", owner |-> w]
    BY <1>2 DEF Given, Restarted
  <2> DEFINE s == pend[e]
  <2>2. s \in Seq(Workers)
    BY <1>0
  <2> HIDE DEF s
  <2>3. Append(s, w) # <<>> /\ Append(s, w)[Len(Append(s, w))] = w
    BY <2>2, AppendProperties
  <2> QED  BY <2>1, <2>3 DEF s, Watched, Last
<1>3. ASSUME NEW w \in Workers, Restarted(e, w), ~Connected(w) PROVE Watched(e)'
  <2>1. /\ UNCHANGED <<pend, reconn, loop>> /\ st[e].owner = w
        /\ st[e].state \in {"starting", "started"}
        /\ st'[e] = [state |-> "starting", owner |-> w]
    BY <1>3 DEF Restarted
  <2>2. CASE st[e].state = "starting"
    BY <2>1, <2>2 DEF Watched, Requeues
  <2>3. CASE st[e].state = "started"
    <3>1. StartedAt(w, e)
      BY <1>0, <2>1, <2>3 DEF StartedAt, ExpertStates
    <3>2. Kept(w, e)
      BY <3>1 DEF Recoverable
    <3> QED  BY <1>3, <2>1, <3>2 DEF Kept, Watched, Requeues
  <2> QED  BY <2>1, <2>2, <2>3
<1>4. CASE Ends(F, e)
  BY <1>4 DEF Ends, Watched
<1> QED  BY <1>1, <1>2, <1>3, <1>4

\* Nothing that is under way to a worker is lost while the scheduler works.
LEMMA SchedulerAdds ==
    ASSUME SchedulerAssumption, LinkInv, Present, NEW T, T \in [Workers -> SUBSET UpMsgs],
           Works(T) \/ (\E e \in Experts : StartTimeout(e)), NEW v \in Workers
    PROVE  ToSet(down[v]) \subseteq ToSet(down'[v])
<1>1. ASSUME NEW w \in Workers, NEW s \in Sockets, NEW m \in UpMsgs, Receive(w, s, m)
      PROVE  ToSet(down[v]) \subseteq ToSet(down'[v])
  <2>1. CASE w = v
    BY <1>1, <2>1, ReceiveRests
  <2>2. CASE w # v
    <3>1. Rests(v)
      BY <1>1, <2>2, OthersRest
    <3> QED  BY <3>1 DEF Rests
  <2> QED  BY <2>1, <2>2
<1>2. ASSUME NEW w \in Workers, NEW s \in Sockets, SocketClosed(w, s) PROVE UNCHANGED down
  BY <1>2 DEF SocketClosed, netVars
<1>3. CASE (\E e \in Experts : ProcessExpert(e)) \/ TimerStep \/ LoopStep
  <2>1. Rests(v)
    BY <1>3, OthersRest
  <2> QED  BY <2>1 DEF Rests
<1>4. \A w \in Workers : \A m \in T[w] : m \in UpMsgs
  OBVIOUS
<1> QED  BY <1>1, <1>2, <1>3, <1>4 DEF Works, TimerStep

\* An attempt ends with the expert in the queue: its owner is gone, or its timer has fired.
LEMMA AttemptEnds ==
    ASSUME SchedulerAssumption, LinkInv, Present, OwnedWhenActive, NEW G, NEW T, Parts(G, T),
           QueueInv(G), Calm, \A w \in Workers : \A m \in T[w] : Plain(m),
           NEW F \in SUBSET Experts, Works(T) \/ (\E f \in F : StartTimeout(f)),
           NEW e \in Experts, st[e].state \in {"starting", "started"}
    PROVE  \/ st'[e].state \in {"starting", "started"} /\ st'[e].owner = st[e].owner
           \/ /\ st'[e].state = "queued"
              /\ st[e].owner \in G \/ (e \in F /\ st[e].state = "starting")
<1>1. Keeps(T, e) \/ (\E w \in Workers : Given(e, w) \/ Restarted(e, w)) \/ Ends(F, e)
  BY AttemptSteps
<1>2. UNCHANGED st \/ \E f \in Experts : Moves(G, f)
  BY SchedulerMoves
<1>3. st'[e].state # "none"
  BY CalmStep DEF Parts, QueueInv
<1>4. st[e].owner # NoWorker
  BY DEF OwnedWhenActive
<1>5. CASE ~Ends(F, e)
  <2>1. CASE Keeps(T, e)
    <3>1. st'[e] = st[e]
      BY <2>1 DEF Keeps
    <3> QED  BY <3>1
  <2>2. ASSUME NEW w \in Workers, Given(e, w) \/ Restarted(e, w)
        PROVE  st'[e].state = "starting" /\ st'[e].owner = st[e].owner
    <3>1. st[e].owner = w /\ st'[e] = [state |-> "starting", owner |-> w]
      BY <2>2 DEF Given, Restarted
    <3> QED  BY <3>1
  <2> QED  BY <1>1, <1>5, <2>1, <2>2
<1>6. CASE Ends(F, e) /\ Moves(G, e)
  <2>1. CASE st'[e].state \in {"starting", "started"} /\ HandedOver(e) /\ st'[e].owner # NoWorker
    BY <1>4, <1>6, <2>1 DEF HandedOver
  <2>2. st'[e] # Untracked
    BY <1>3 DEF Untracked
  <2>3. CASE st'[e].state = "queued" /\ st'[e].owner \in G \cup {NoWorker}
    <3>1. st'[e].owner = st[e].owner \/ (e \in F /\ st[e].state = "starting")
      BY <1>6, <2>3 DEF Ends
    <3> QED  BY <1>4, <2>3, <3>1
  <2> QED  BY <1>6, <2>1, <2>2, <2>3 DEF Moves
<1>7. CASE st'[e] = st[e]
  BY <1>7
<1> QED  BY <1>2, <1>5, <1>6, <1>7 DEF Moves
=================================================================================
