---------------------------- MODULE ExpertScheduler ----------------------------
(***************************************************************************)
(* ExpertScheduler (src/src/experts/scheduler/ExpertScheduler.ts): the     *)
(* process that reads the experts table and hands experts to workers over  *)
(* websockets.                                                             *)
(*                                                                         *)
(* The module is open: a worker may send any message on any socket at any  *)
(* time and the table may be edited by other processes at any time, so     *)
(* what is proved here holds whatever the workers do.  ExpertCluster       *)
(* closes the system with the workers the repository ships.                *)
(*                                                                         *)
(* One event of the node process (a socket message, a timer, a monitor     *)
(* tick) runs to completion: the database is in-process SQLite, so every   *)
(* await of a handler resolves before the next event.  A handler that      *)
(* loops over a set is one step per iteration, held together by `loop`:    *)
(* while a loop runs nothing else moves.                                   *)
(***************************************************************************)
EXTENDS Naturals, Sequences, FiniteSets, SequencesExt

CONSTANTS Experts,     \* pubkeys of experts
          Workers,     \* worker ids, one per worker process
          Takes,       \* Takes[w]: experts whose type worker w accepts
          Seed,        \* the rows the table may hold when the scheduler boots
          Edits,       \* the rows an edit may write ("absent" is a deletion)
          MaxEdits,    \* bound on the edits of the table
          MaxConn,     \* bound on the sockets a worker opens
          MaxPending,  \* bound on the start timers armed for an expert
          MaxRestarts, \* bound on the restarts of the scheduler process
          NoWorker     \* no owner

Rows == {"absent", "enabled", "disabled"}
States == {"none", "queued", "starting", "started", "stopping"}
Sockets == 1..MaxConn

ASSUME SchedulerAssumption ==
    /\ IsFiniteSet(Experts)
    /\ IsFiniteSet(Workers)
    /\ NoWorker \notin Workers
    /\ Takes \in [Workers -> SUBSET Experts]
    /\ Seed \subseteq Rows
    /\ Edits \subseteq Rows
    /\ MaxEdits \in Nat
    /\ MaxConn \in Nat
    /\ MaxPending \in Nat
    /\ MaxRestarts \in Nat

VARIABLES
    db,       \* the experts table: db[e] is the row of e
    dirty,    \* rows written since the monitor last read them
    edits,    \* how many edits were made
    reboots,  \* how many times the scheduler process was restarted
    st,       \* expertStates: state and owner of each expert ("none": no entry)
    queue,    \* expertQueue: experts waiting for a worker, oldest first
    workers,  \* workers: the connection record of each worker (sock 0: no record)
    reconn,   \* reconnectionTimers: the experts each armed timer would requeue
    pend,     \* armed start timers of each expert: the owners they watch, oldest first
    mapped,   \* startTimers: the newest timer of the expert is in the map
    stale,    \* job timers that outlived the connection record they belong to
    loop,     \* the loop the current event handler is in
    live,     \* the socket each worker listens on (0: none)
    down      \* messages on their way to each worker, on its live socket

tableVars == <<db, dirty, edits, reboots>>
timerVars == <<pend, mapped>>
netVars == <<live, down>>
vars == <<db, dirty, edits, reboots, st, queue, workers, reconn, pend, mapped,
          stale, loop, live, down>>

Untracked == [state |-> "none", owner |-> NoWorker]
Queued(o) == [state |-> "queued", owner |-> o]
NoConn == [sock |-> 0, active |-> {}, needsJob |-> FALSE, ready |-> FALSE,
           jobTimer |-> FALSE]
Fresh(s) == [NoConn EXCEPT !.sock = s]

ExpertStates == [state : States, owner : Workers \cup {NoWorker}]
Conns == [sock : Nat, active : SUBSET Experts, needsJob : BOOLEAN, ready : BOOLEAN,
          jobTimer : BOOLEAN]
Loops == [at : {"idle", "assign", "experts", "requeue"}, worker : Workers \cup {NoWorker},
          todo : SUBSET (Workers \cup Experts), missed : Nat]

Connected(w) == workers[w].sock # 0
Idle == loop.at = "idle"
Loop(at, w, S) == [at |-> at, worker |-> w, todo |-> S, missed |-> 0]
IdleLoop == Loop("idle", NoWorker, {})

JobMsg(e) == [type |-> "job", expert |-> e]
RestartMsg(e) == [type |-> "restart", expert |-> e]
StopMsg(e) == [type |-> "stop", expert |-> e]
NoJobMsg == [type |-> "no_job"]
DownMsgs == [type : {"job", "restart", "stop"}, expert : Experts] \cup {NoJobMsg}

ExpertsMsg(S) == [type |-> "experts", experts |-> S]
NeedJobMsg == [type |-> "need_job"]
StartedMsg(e) == [type |-> "started", expert |-> e]
StoppedMsg(e) == [type |-> "stopped", expert |-> e]
UpMsgs == [type : {"experts"}, experts : SUBSET Experts]
          \cup [type : {"started", "stopped"}, expert : Experts] \cup {NeedJobMsg}

-----------------------------------------------------------------------------
(* The first batch of the monitor is processed before any socket can be     *)
(* served: the scheduler begins with every enabled expert queued.           *)
\* Mutant: the experts of the first batch are not queued.
NoneEnabled == {}
Enabled == {e \in Experts : db[e] = "enabled"}
BootStates == [e \in Experts |-> IF e \in Enabled THEN Queued(NoWorker) ELSE Untracked]

Init ==
    /\ db \in [Experts -> Seed]
    /\ edits = 0
    /\ reboots = 0
    /\ dirty = {}
    /\ st = BootStates
    /\ queue \in SetToSeqs(Enabled)
    /\ workers = [w \in Workers |-> NoConn]
    /\ reconn = [w \in Workers |-> {}]
    /\ pend = [e \in Experts |-> <<>>]
    /\ mapped = [e \in Experts |-> FALSE]
    /\ stale = [w \in Workers |-> 0]
    /\ loop = IdleLoop
    /\ live = [w \in Workers |-> 0]
    /\ down = [w \in Workers |-> <<>>]

-----------------------------------------------------------------------------
(* The environment: other processes edit the table, sockets open and break. *)

Edit(e, row) ==
    /\ Idle
    /\ edits < MaxEdits
    /\ row = "absent" => db[e] # "absent"
    /\ row = "disabled" => db[e] # "absent"
    /\ db' = [db EXCEPT ![e] = row]
    /\ dirty' = IF row = "absent" THEN dirty \ {e} ELSE dirty \cup {e}
    /\ edits' = edits + 1
    /\ UNCHANGED <<reboots, st, queue, workers, reconn, timerVars, stale, loop, netVars>>

\* Worker w begins to listen on socket s, or on none: what was under way to it is lost.
Listen(w, s) ==
    /\ Idle
    /\ live' = [live EXCEPT ![w] = s]
    /\ down' = [down EXCEPT ![w] = <<>>]
    /\ UNCHANGED <<tableVars, st, queue, workers, reconn, timerVars, stale, loop>>

Deliver(w) ==
    /\ Idle
    /\ down[w] # <<>>
    /\ down' = [down EXCEPT ![w] = Tail(@)]
    /\ UNCHANGED <<tableVars, st, queue, workers, reconn, timerVars, stale, loop, live>>

-----------------------------------------------------------------------------
(* Sending.  A message written to a socket the worker no longer listens on  *)
(* is lost without the scheduler noticing.                                  *)

Send(w, c, m) ==
    down' = IF c.sock = live[w] THEN [down EXCEPT ![w] = Append(@, m)] ELSE down

SendIf(cond, w, m) == IF cond THEN Send(w, workers[w], m) ELSE UNCHANGED down

\* Mutant: the job is sent and no timer watches it.
ArmNoStartTimer(e, w) == UNCHANGED <<pend, mapped>>

\* setTimeout + startTimers.set: a timer already armed for e is not cleared.
ArmStartTimer(e, w) ==
    /\ Len(pend[e]) < MaxPending
    /\ pend' = [pend EXCEPT ![e] = Append(@, w)]
    /\ mapped' = [mapped EXCEPT ![e] = TRUE]

\* The workers assignJobsToWorkers has to visit.
Waiting(conns) == {w \in Workers : conns[w].sock # 0 /\ conns[w].needsJob /\ conns[w].ready}
AssignLoop(conns) ==
    IF Waiting(conns) = {} THEN IdleLoop ELSE Loop("assign", NoWorker, Waiting(conns))

\* Mutant: queueExpert sets the state and never pushes the entry.
QueueExpertWithoutEntry(e) ==
    /\ st' = [st EXCEPT ![e].state = "queued"]
    /\ UNCHANGED queue

\* queueExpert for an expert that is not queued yet: it keeps its owner.
QueueExpert(e) ==
    /\ st' = [st EXCEPT ![e].state = "queued"]
    /\ queue' = Append(queue, e)

-----------------------------------------------------------------------------
(* assignJobToWorker, for the connection record c of w.  assignJobsToWorkers *)
(* selects for every worker before the first row is read, so an entry whose *)
(* row is missing (loop.missed counts them) returns behind their choices.   *)

Matches(w) == {i \in 1..(Len(queue) - loop.missed) : queue[i] \in Takes[w]}
CanAssign(w, c) == c.needsJob /\ c.ready /\ Matches(w) # {}
FirstMatch(w) == CHOOSE i \in Matches(w) : \A j \in Matches(w) : i <= j

\* Mutant: the entry handed out stays in the queue.
StillQueued(w) == queue
Dequeued(w) == RemoveAt(queue, FirstMatch(w))

\* The selected expert has a row: it is sent to w, and this attempt is timed.
GiveJob(w, c) ==
    LET e == queue[FirstMatch(w)] IN
    /\ db[e] # "absent"
    /\ queue' = Dequeued(w)
    /\ Send(w, c, JobMsg(e))
    /\ ArmStartTimer(e, w)
    /\ st' = [st EXCEPT ![e] = [state |-> "starting", owner |-> w]]
    /\ workers' = [workers EXCEPT ![w] = [c EXCEPT !.needsJob = FALSE, !.jobTimer = FALSE]]

\* Its row was deleted: it goes back to the end of the queue, and w is left with
\* needsJob cleared and no job.  `timer` says whether a job timer is armed then.
MissJob(w, c, timer) ==
    LET e == queue[FirstMatch(w)] IN
    /\ db[e] = "absent"
    /\ queue' = Append(Dequeued(w), e)
    /\ workers' = [workers EXCEPT ![w] = [c EXCEPT !.needsJob = FALSE, !.jobTimer = timer]]
    /\ UNCHANGED <<st, timerVars, down>>

Missing(w) == CanAssign(w, workers[w]) /\ db[queue[FirstMatch(w)]] = "absent"

\* One iteration of assignJobsToWorkers.
AssignNext(w) ==
    /\ loop.at = "assign"
    /\ w \in loop.todo
    /\ IF CanAssign(w, workers[w])
         THEN GiveJob(w, workers[w]) \/ MissJob(w, workers[w], workers[w].jobTimer)
         ELSE UNCHANGED <<queue, st, workers, timerVars, down>>
    /\ loop' = IF loop.todo = {w} THEN IdleLoop
               ELSE [loop EXCEPT !.todo = @ \ {w},
                                 !.missed = IF Missing(w) THEN @ + 1 ELSE @]
    /\ UNCHANGED <<tableVars, reconn, stale, live>>

-----------------------------------------------------------------------------
(* The monitor: processExpert for one changed row.                          *)

StopDisabled(e) ==
    LET w == st[e].owner
        stop == w # NoWorker /\ Connected(w) IN
    /\ db[e] = "disabled"
    /\ st' = IF stop THEN [st EXCEPT ![e].state = "stopping"] ELSE st
    /\ down' = IF stop /\ workers[w].sock = live[w]
                 THEN [down EXCEPT ![w] = Append(@, StopMsg(e))] ELSE down
    /\ UNCHANGED <<queue, timerVars, loop>>

QueueEnabled(e) ==
    /\ db[e] = "enabled"
    /\ st[e].state \in {"none", "stopping"}
    /\ QueueExpert(e)
    /\ loop' = AssignLoop(workers)
    /\ UNCHANGED <<timerVars, down>>

\* sendRestartMessageToWorker gives up when the worker has no record, but the
\* state becomes "starting" all the same.
RestartUpdated(e) ==
    LET w == st[e].owner IN
    /\ db[e] = "enabled"
    /\ st[e].state \in {"starting", "started"}
    /\ w # NoWorker   \* else processExpert throws: see OwnedWhenActive
    /\ st' = [st EXCEPT ![e].state = "starting"]
    /\ IF Connected(w)
         THEN Send(w, workers[w], RestartMsg(e)) /\ ArmStartTimer(e, w)
         ELSE UNCHANGED <<timerVars, down>>
    /\ UNCHANGED <<queue, loop>>

AlreadyQueued(e) ==
    /\ db[e] = "enabled"
    /\ st[e].state = "queued"
    /\ UNCHANGED <<st, queue, timerVars, loop, down>>

ProcessExpert(e) ==
    /\ Idle
    /\ e \in dirty
    /\ dirty' = dirty \ {e}
    /\ StopDisabled(e) \/ QueueEnabled(e) \/ RestartUpdated(e) \/ AlreadyQueued(e)
    /\ UNCHANGED <<db, edits, reboots, workers, reconn, stale, live>>

-----------------------------------------------------------------------------
(* Messages.  The first message with an unknown worker id creates the       *)
(* record, bound to the socket it came on; while a record exists, messages  *)
(* of a newer socket of the same worker leave it on the old socket.         *)

\* Mutant: the reconnection timer survives the reconnection.
KeepReconn(w) == UNCHANGED reconn

Conn(w, s) == IF Connected(w) THEN workers[w] ELSE Fresh(s)
ClearReconn(w) == reconn' = IF Connected(w) THEN reconn ELSE [reconn EXCEPT ![w] = {}]

\* handleExpertsMessage up to its loop.
ReceiveExperts(w, s, S) ==
    /\ Idle
    /\ reconn' = [reconn EXCEPT ![w] = {}]
    /\ workers' = [workers EXCEPT ![w] = [Conn(w, s) EXCEPT !.active = {}]]
    /\ loop' = Loop("experts", w, S)
    /\ UNCHANGED <<tableVars, st, queue, timerVars, stale, netVars>>

\* Mutant: an expert of another worker is adopted.
RefusedIfStopping(w, e) == st[e].state \in {"none", "stopping"}

\* One reported expert: refused when it is untracked, another worker's or stopping.
Refused(w, e) == \/ st[e].state \in {"none", "stopping"}
                 \/ st[e].owner \notin {NoWorker, w}

\* Mutant: the owner of an adopted expert is not recorded.
AdoptedWithoutOwner(w, e) == [st[e] EXCEPT !.state = "started"]
Adopted(w, e) == [state |-> "started", owner |-> w]

\* Mutant: the entry of an adopted expert stays in the queue.
QueueAsBefore(e) == queue
QueueWithout(e) == IF st[e].state = "queued" THEN RemoveFirst(queue, e) ELSE queue

ReportedNext(e) ==
    LET w == loop.worker IN
    /\ loop.at = "experts"
    /\ e \in loop.todo
    /\ \/ /\ Refused(w, e)
          /\ Send(w, workers[w], StopMsg(e))
          /\ UNCHANGED <<st, queue, workers>>
       \/ /\ ~Refused(w, e)
          /\ st' = [st EXCEPT ![e] = Adopted(w, e)]
          /\ queue' = QueueWithout(e)
          /\ workers' = [workers EXCEPT ![w].active = @ \cup {e}]
          /\ UNCHANGED down
    /\ loop' = [loop EXCEPT !.todo = @ \ {e}]
    /\ UNCHANGED <<tableVars, reconn, timerVars, stale, live>>

\* The end of handleExpertsMessage.
ReportDone ==
    LET w == loop.worker IN
    /\ loop.at = "experts"
    /\ loop.todo = {}
    /\ workers' = [workers EXCEPT ![w].ready = TRUE]
    /\ loop' = IF workers[w].needsJob THEN Loop("assign", NoWorker, {w}) ELSE IdleLoop
    /\ UNCHANGED <<tableVars, st, queue, reconn, timerVars, stale, netVars>>

\* handleNeedJobMessage: a worker that is ready gets a job or a job timer.
ReceiveNeedJob(w, s) ==
    LET c == [Conn(w, s) EXCEPT !.needsJob = TRUE] IN
    /\ Idle
    /\ ClearReconn(w)
    /\ IF CanAssign(w, c)
         THEN GiveJob(w, c) \/ MissJob(w, c, TRUE)
         ELSE /\ workers' = [workers EXCEPT ![w] =
                               [c EXCEPT !.jobTimer = IF c.ready THEN TRUE ELSE @]]
              /\ UNCHANGED <<queue, st, timerVars, down>>
    /\ UNCHANGED <<tableVars, stale, loop, live>>

\* Mutant: the expert is not added to activeExperts.
WithoutActive(c, e) == c
WithActive(c, e) == [c EXCEPT !.active = @ \cup {e}]

\* handleStartedMessage: the start timer in the map is cleared whoever sent this.
ReceiveStarted(w, s, e) ==
    LET c == Conn(w, s) IN
    /\ Idle
    /\ ClearReconn(w)
    /\ pend' = IF mapped[e] THEN [pend EXCEPT ![e] = Front(@)] ELSE pend
    /\ mapped' = [mapped EXCEPT ![e] = FALSE]
    /\ IF st[e].owner = w
         THEN /\ st' = [st EXCEPT ![e].state = "started"]
              /\ workers' = [workers EXCEPT ![w] = WithActive(c, e)]
         ELSE /\ workers' = [workers EXCEPT ![w] = c]
              /\ UNCHANGED st
    /\ UNCHANGED <<tableVars, queue, stale, loop, netVars>>

\* Mutant: the sender of a stopped message is not compared with the owner.
MayStopAny(w, e) == TRUE
MayStop(w, e) == st[e].owner = w

\* handleStoppedMessage: the entry of expertQueue, if there is one, stays.
ReceiveStopped(w, s, e) ==
    LET c == Conn(w, s) IN
    /\ Idle
    /\ ClearReconn(w)
    /\ IF MayStop(w, e)
         THEN /\ st' = [st EXCEPT ![e] = Untracked]
              /\ workers' = [workers EXCEPT ![w] = [c EXCEPT !.active = @ \ {e}]]
         ELSE /\ workers' = [workers EXCEPT ![w] = c]
              /\ UNCHANGED st
    /\ UNCHANGED <<tableVars, queue, timerVars, stale, loop, netVars>>

Receive(w, s, m) ==
    \/ m.type = "experts" /\ ReceiveExperts(w, s, m.experts)
    \/ m.type = "need_job" /\ ReceiveNeedJob(w, s)
    \/ m.type = "started" /\ ReceiveStarted(w, s, m.expert)
    \/ m.type = "stopped" /\ ReceiveStopped(w, s, m.expert)

\* Mutant: no reconnection timer is armed for the experts of a lost worker.
NothingToRequeue(c) == {}
ToRequeue(c) == c.active

\* handleWorkerDisconnect, run by the close handler of the socket that created
\* the record; other sockets have none.  The job timer is not cleared.
SocketClosed(w, s) ==
    LET c == workers[w] IN
    /\ Idle
    /\ IF c.sock = s
         THEN /\ workers' = [workers EXCEPT ![w] = NoConn]
              /\ reconn' = [reconn EXCEPT ![w] = ToRequeue(c)]
              /\ stale' = [stale EXCEPT ![w] = IF c.jobTimer /\ c.needsJob THEN @ + 1 ELSE @]
         ELSE UNCHANGED <<workers, reconn, stale>>
    /\ UNCHANGED <<tableVars, st, queue, timerVars, loop, netVars>>

-----------------------------------------------------------------------------
(* Timers.                                                                  *)

\* The oldest start timer of e fires.  It requeues e if e is still starting on the
\* worker it watched, and drops e's entry of startTimers even if that is a newer one.
StartTimeout(e) ==
    /\ Idle
    /\ pend[e] # <<>>
    /\ IF st[e] = [state |-> "starting", owner |-> Head(pend[e])]
         THEN /\ st' = [st EXCEPT ![e] = Queued(NoWorker)]
              /\ queue' = Append(queue, e)
         ELSE UNCHANGED <<st, queue>>
    /\ pend' = [pend EXCEPT ![e] = Tail(@)]
    /\ mapped' = [mapped EXCEPT ![e] = FALSE]
    /\ UNCHANGED <<tableVars, workers, reconn, stale, loop, netVars>>

\* The reconnection timer of w fires: the experts it was running are requeued.
ReconnTimeout(w) ==
    /\ Idle
    /\ reconn[w] # {}
    /\ loop' = Loop("requeue", w, reconn[w])
    /\ reconn' = [reconn EXCEPT ![w] = {}]
    /\ UNCHANGED <<tableVars, st, queue, workers, timerVars, stale, netVars>>

RequeueNext(e) ==
    /\ loop.at = "requeue"
    /\ e \in loop.todo
    /\ IF st[e].owner = loop.worker /\ st[e].state # "queued"
         THEN QueueExpert(e)
         ELSE UNCHANGED <<st, queue>>
    /\ loop' = IF loop.todo = {e} THEN AssignLoop(workers)
                                  ELSE [loop EXCEPT !.todo = @ \ {e}]
    /\ UNCHANGED <<tableVars, workers, reconn, timerVars, stale, netVars>>

\* The job timer of w fires: a worker still waiting is told there is no job.
JobTimeout(w) ==
    /\ Idle
    /\ workers[w].jobTimer
    /\ SendIf(workers[w].needsJob, w, NoJobMsg)
    /\ workers' = [workers EXCEPT ![w].jobTimer = FALSE, ![w].needsJob = FALSE]
    /\ UNCHANGED <<tableVars, st, queue, reconn, timerVars, stale, loop, live>>

\* Mutant: the timer is not one-shot.
StaleArmedAlways(w) == TRUE
StaleArmed(w) == stale[w] > 0

\* A job timer of a record that is gone fires: it answers the worker's newer record.
StaleJobTimeout(w) ==
    /\ Idle
    /\ StaleArmed(w)
    /\ stale' = [stale EXCEPT ![w] = @ - 1]
    /\ SendIf(Connected(w), w, NoJobMsg)
    /\ workers' = [workers EXCEPT ![w].jobTimer = FALSE, ![w].needsJob = FALSE]
    /\ UNCHANGED <<tableVars, st, queue, reconn, timerVars, loop, live>>

\* The scheduler process restarts: everything it kept was in memory.
Reboot ==
    /\ Idle
    /\ reboots < MaxRestarts
    /\ reboots' = reboots + 1
    /\ dirty' = {}
    /\ st' = BootStates
    /\ queue' \in SetToSeqs(Enabled)
    /\ workers' = [w \in Workers |-> NoConn]
    /\ reconn' = [w \in Workers |-> {}]
    /\ pend' = [e \in Experts |-> <<>>]
    /\ mapped' = [e \in Experts |-> FALSE]
    /\ stale' = [w \in Workers |-> 0]
    /\ loop' = IdleLoop
    /\ live' = [w \in Workers |-> 0]
    /\ down' = [w \in Workers |-> <<>>]
    /\ UNCHANGED <<db, edits>>

-----------------------------------------------------------------------------
LoopStep == \/ \E w \in Workers : AssignNext(w)
            \/ \E e \in Experts : ReportedNext(e)
            \/ ReportDone
            \/ \E e \in Experts : RequeueNext(e)

TimerStep == \/ \E e \in Experts : StartTimeout(e)
             \/ \E w \in Workers : ReconnTimeout(w) \/ JobTimeout(w) \/ StaleJobTimeout(w)

Next ==
    \/ \E e \in Experts, row \in Edits : Edit(e, row)
    \/ \E w \in Workers, s \in Sockets \cup {0} : Listen(w, s)
    \/ \E w \in Workers : Deliver(w)
    \/ \E e \in Experts : ProcessExpert(e)
    \/ \E w \in Workers, s \in Sockets, m \in UpMsgs : Receive(w, s, m)
    \/ \E w \in Workers, s \in Sockets : SocketClosed(w, s)
    \/ TimerStep
    \/ LoopStep
    \/ Reboot

Spec == Init /\ [][Next]_vars

-----------------------------------------------------------------------------
(* Correctness.                                                             *)

\* The shape of the state.
TypeOK ==
    /\ db \in [Experts -> Rows]
    /\ dirty \subseteq Experts
    /\ edits \in Nat
    /\ reboots \in Nat
    /\ st \in [Experts -> ExpertStates]
    /\ queue \in Seq(Experts)
    /\ workers \in [Workers -> Conns]
    /\ reconn \in [Workers -> SUBSET Experts]
    /\ pend \in [Experts -> Seq(Workers)]
    /\ mapped \in [Experts -> BOOLEAN]
    /\ stale \in [Workers -> Nat]
    /\ loop \in Loops
    /\ live \in [Workers -> Nat]
    /\ down \in [Workers -> Seq(DownMsgs)]

\* An expert marked queued has an entry in expertQueue: no expert is left waiting
\* for a worker that can never be given it.
QueuedIsInQueue == \A e \in Experts : st[e].state = "queued" => e \in ToSet(queue)

\* An expert that is starting, started or stopping has an owner: processExpert never
\* throws "Running expert without worker id".
OwnedWhenActive ==
    \A e \in Experts : st[e].state \in {"starting", "started", "stopping"}
                         => st[e].owner # NoWorker

\* A reconnection timer is armed only for a worker without a connection record: it
\* never requeues the experts of a worker that came back.
ReconnOnlyWhenGone == \A w \in Workers : reconn[w] # {} => ~Connected(w)
=============================================================================
