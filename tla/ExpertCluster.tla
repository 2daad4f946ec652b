------------------------------ MODULE ExpertCluster ------------------------------
(***************************************************************************)
(* The scheduler process and its workers, joined by their websockets.      *)
(*                                                                         *)
(* `live` and `down` are shared: the worker opens and loses the socket,    *)
(* the scheduler writes to it.  `up` keeps one channel per socket, because *)
(* the scheduler may still have to read, and to see the close of, a socket *)
(* the worker has given up for a newer one.                                *)
(***************************************************************************)
EXTENDS Naturals, Sequences, FiniteSets, SequencesExt

CONSTANTS Experts, Workers, Takes, Seed, Edits, MaxEdits, MaxConn, MaxPending,
          MaxRestarts, NoWorker, MaxInst, MaxAsks, Crashable, Breakable, Overlap, CanFail,
          MaxFaults, \* bound on the processes that die or restart, the scheduler included
          Slow       \* the experts about which a step may take longer than a 60s timer

VARIABLES db, dirty, edits, reboots, st, queue, workers, reconn, pend, mapped, stale,
          loop, live, down,
          alive, inst, entry, asks, opened, up

S == INSTANCE ExpertScheduler
W == INSTANCE ExpertWorker

ASSUME ClusterAssumption == S!SchedulerAssumption /\ MaxInst \in Nat /\ MaxAsks \in Nat

schedVars == <<db, dirty, edits, reboots, st, queue, workers, reconn, pend, mapped,
               stale, loop>>
workerVars == <<alive, inst, entry, asks, opened>>
vars == <<schedVars, live, down, workerVars, up>>

Sockets == 1..MaxConn
Instances == W!Instances

Init == S!Init /\ W!Init

-----------------------------------------------------------------------------
(* Scheduler side.                                                          *)

\* The next event of a socket: a message or its close.
TakeUp(w, s) ==
    /\ up[w][s] # <<>>
    /\ up' = [up EXCEPT ![w][s] = Tail(@)]
    /\ LET m == Head(up[w][s]) IN
         \/ m.type = "close" /\ S!SocketClosed(w, s)
         \/ m.type # "close" /\ S!Receive(w, s, m)
    /\ UNCHANGED workerVars

Local(A) == A /\ UNCHANGED <<workerVars, up>>

\* Nothing about e is under way between the scheduler and the workers.
About(m, e) == \/ m.type \in {"job", "restart", "stop", "started", "stopped"} /\ m.expert = e
               \/ m.type = "experts" /\ e \in m.experts
Settled(e) ==
    \A w \in Workers :
        /\ \A i \in Instances : inst[w][e][i].phase \in {"free", "up"}
        /\ \A m \in ToSet(down[w]) : ~About(m, e)
        /\ \A s \in Sockets : \A m \in ToSet(up[w][s]) : ~About(m, e)
InTime(e) == e \in Slow \/ Settled(e)

\* Unless e is slow, what is under way settles before a 60s timer about it fires.
StartTimeout(e) == InTime(e) /\ S!StartTimeout(e)
ReconnTimeout(w) == (\A e \in reconn[w] : InTime(e)) /\ S!ReconnTimeout(w)

SchedulerStep ==
    Local(\/ \E e \in Experts, row \in Edits : S!Edit(e, row)
          \/ \E e \in Experts : S!ProcessExpert(e) \/ StartTimeout(e)
          \/ \E w \in Workers : ReconnTimeout(w) \/ S!JobTimeout(w) \/ S!StaleJobTimeout(w)
          \/ S!LoopStep)

Faults == reboots + Cardinality({w \in Workers : ~alive[w]})

\* All sockets close with the scheduler process.
Reboot ==
    /\ Faults < MaxFaults
    /\ S!Reboot
    /\ \A w \in Workers : opened[w] < MaxConn
    /\ up' = [w \in Workers |-> [s \in Sockets |-> <<>>]]
    /\ UNCHANGED workerVars

-----------------------------------------------------------------------------
(* Worker side.  A handler of the scheduler is not interrupted half-way.    *)

Remote(A) == S!Idle /\ A /\ UNCHANGED schedVars

Next ==
    \/ \E w \in Workers, s \in Sockets : TakeUp(w, s)
    \/ SchedulerStep
    \/ Reboot
    \/ \E w \in Workers : Remote(W!WorkerStep(w))
    \/ \E w \in Workers : Faults < MaxFaults /\ Remote(W!Crash(w))

Spec == Init /\ [][Next]_vars

\* Node runs every event that is ready and every timer that is armed; the I/O of the
\* workers completes; a worker without a socket reconnects.  Nothing obliges an edit,
\* a broken socket, a crash, a reboot or a failed start.
Fairness ==
    /\ WF_vars(Local(S!LoopStep))
    /\ \A e \in Experts : WF_vars(Local(S!ProcessExpert(e))) /\ WF_vars(Local(StartTimeout(e)))
    /\ \A w \in Workers :
         /\ WF_vars(Local(ReconnTimeout(w)))
         /\ WF_vars(Local(S!JobTimeout(w)))
         /\ WF_vars(Remote(W!Open(w)))
         /\ WF_vars(Remote(W!Handle(w)))
         /\ WF_vars(Remote(W!Ask(w)))
         /\ \A s \in Sockets : WF_vars(TakeUp(w, s))
         /\ \A e \in Experts, i \in Instances :
              WF_vars(Remote(W!StartDone(w, e, i) \/ W!Disposed(w, e, i)))

FairSpec == Spec /\ Fairness

-----------------------------------------------------------------------------
(* What the cluster promises.                                               *)

Up(w, e) == {i \in Instances : inst[w][e][i].phase = "up"}

\* The scheduler and worker w have nothing more to say to each other about e.
Quiet(w, e) ==
    /\ S!Idle
    /\ live[w] # 0
    /\ workers[w].sock = live[w]
    /\ workers[w].ready
    /\ down[w] = <<>>
    /\ \A s \in Sockets : up[w][s] = <<>>
    /\ \A i \in Instances : inst[w][e][i].phase \in {"free", "up"}

\* The scheduler of the cluster is the open scheduler: what is proved of that one
\* holds here.
ImplementsScheduler == S!Spec

\* The shape of the workers' state.
WorkerTypeOK == W!TypeOK

\* An expert a connected worker runs is known to the scheduler as started there, once
\* their messages about it are exchanged.  It can then be restarted, stopped and
\* requeued; an instance nobody knows of cannot.
RunningIsTracked ==
    \A w \in Workers, e \in Experts :
        Quiet(w, e) /\ Up(w, e) # {} => st[e] = [state |-> "started", owner |-> w]

\* The converse: an expert the scheduler holds for started on a connected worker runs
\* there.  Nothing else would start it again.
TrackedIsRunning ==
    \A w \in Workers, e \in Experts :
        Quiet(w, e) /\ st[e] = [state |-> "started", owner |-> w] => Up(w, e) # {}

\* A worker runs at most one instance of an expert (runningExperts holds one): stopping
\* the expert stops all of it.
OneInstance == \A w \in Workers, e \in Experts : Cardinality(Up(w, e)) <= 1

\* An expert that is being started is watched by a start timer for its owner, or by the
\* reconnection timer of its owner: an attempt that dies is noticed.
StartingIsTimed ==
    \A e \in Experts :
        S!Idle /\ st[e].state = "starting" =>
            st[e].owner \in ToSet(pend[e]) \/ e \in reconn[st[e].owner]

\* An expert that is started is among the active experts of its owner's record, or of
\* its owner's reconnection timer: it is requeued if the worker is lost for good.
StartedIsRecoverable ==
    \A e \in Experts :
        S!Idle /\ st[e].state = "started" =>
            e \in workers[st[e].owner].active \cup reconn[st[e].owner]

\* Only experts in state queued are in expertQueue: no expert is started again from the
\* queue while it runs.
OnlyQueuedInQueue == S!Idle => \A e \in ToSet(queue) : st[e].state = "queued"

\* An enabled expert whose row the monitor has read is never forgotten: the monitor
\* reports a row once, so an expert with neither a state nor an entry in expertQueue
\* would not be started any more.
EnabledIsTracked ==
    \A e \in Experts :
        S!Idle /\ db[e] = "enabled" /\ e \notin dirty
            => st[e].state # "none" \/ e \in ToSet(queue)

\* An expert whose disabled row was read is neither started nor left running.
DisabledIsNotRun ==
    \A e \in Experts :
        S!Idle /\ db[e] = "disabled" /\ e \notin dirty
            => st[e].state \notin {"starting", "started"}

\* A worker with a socket always has the next request for a job under way: the message,
\* the flag with a timer that will answer it, the answer, the pause before the next
\* message, or the job itself.  A worker that loses it never gets work again.
JobLoopAlive ==
    \A w \in Workers :
        S!Idle /\ live[w] # 0 =>
            \/ S!NeedJobMsg \in ToSet(up[w][live[w]])
            \/ workers[w].needsJob /\ workers[w].jobTimer
            \/ \E m \in ToSet(down[w]) : m.type \in {"job", "no_job"}
            \/ asks[w] > 0
            \/ \E e \in Experts, i \in Instances : inst[w][e][i] = W!StartingBy("job")

\* An expert goes from one worker to another only through the queue: it is never given
\* away while the scheduler counts on its owner.
HandedOverThroughQueue ==
    [][\A e \in Experts :
          \/ st[e].owner \in {NoWorker, st'[e].owner}
          \/ st'[e].owner = NoWorker
          \/ st[e].state = "queued"]_st

\* An enabled expert whose start succeeds is, again and again, running on the worker the
\* scheduler holds it for: whatever is lost is noticed and started again, also beside an
\* expert whose start keeps failing.
EnabledIsServed ==
    \A e \in Experts \ CanFail :
        []<>(\/ db[e] # "enabled"
             \/ \E w \in Workers : st[e] = [state |-> "started", owner |-> w] /\ Up(w, e) # {})
================================================================================
