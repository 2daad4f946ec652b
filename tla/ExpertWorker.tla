------------------------------ MODULE ExpertWorker ------------------------------
(***************************************************************************)
(* Worker processes: ExpertRemoteWorker.ts, which talks to the scheduler,  *)
(* over ExpertWorker.ts, which keeps runningExperts.                       *)
(*                                                                         *)
(* handleMessage starts the async handlers without awaiting them, so the   *)
(* handlers of several messages overlap.  Their awaits are network I/O:    *)
(* starting an instance of an expert and disposing of one are separate     *)
(* steps.  The promise continuations a step releases run within it.        *)
(***************************************************************************)
EXTENDS Naturals, Sequences, FiniteSets, SequencesExt

CONSTANTS Experts, Workers,
          MaxConn,   \* bound on the sockets a worker opens
          MaxInst,   \* bound on the instances of an expert a worker has at a time
          MaxAsks,   \* bound on the pending requestJob timers of a worker
          Crashable, \* the workers whose process may die
          Breakable, \* the workers whose socket may break
          Overlap,   \* whether a socket may be opened before the scheduler sees the last one close
          CanFail    \* the experts whose start may throw

VARIABLES
    alive,   \* alive[w]: the process of worker id w runs
    inst,    \* instances of each expert in each worker
    entry,   \* runningExperts: the instance each worker has in the map (0: none)
    asks,    \* requestJob timers: the 1s pause after a start and the 5s after no_job
    opened,  \* how many sockets each worker has opened
    live,    \* its open socket (0: none)
    down,    \* messages from the scheduler on that socket
    up       \* up[w][s]: messages to the scheduler on socket s, "close" after the last

Instances == 1..MaxInst
Free == [phase |-> "free", by |-> "none", stops |-> 0, restarts |-> 0]
StartingBy(h) == [Free EXCEPT !.phase = "starting", !.by = h]
CloseMsg == [type |-> "close"]

wvars == <<alive, inst, entry, asks, opened, live, down, up>>

Running(w) == {e \in Experts : entry[w][e] # 0}
FreeOf(w, e) == {i \in Instances : inst[w][e][i] = Free}

\* sendMessage drops the message when the socket is not open.
Reply(w, ms) == up' = IF live[w] # 0 THEN [up EXCEPT ![w][live[w]] = @ \o ms] ELSE up

Init ==
    /\ alive = [w \in Workers |-> TRUE]
    /\ inst = [w \in Workers |-> [e \in Experts |-> [i \in Instances |-> Free]]]
    /\ entry = [w \in Workers |-> [e \in Experts |-> 0]]
    /\ asks = [w \in Workers |-> 0]
    /\ opened = [w \in Workers |-> 0]
    /\ live = [w \in Workers |-> 0]
    /\ down = [w \in Workers |-> <<>>]
    /\ up = [w \in Workers |-> [s \in 1..MaxConn |-> <<>>]]

-----------------------------------------------------------------------------
(* Connection.                                                              *)

Closing(w) == \E s \in 1..MaxConn : up[w][s] # <<>>

\* connect + handleOpen: report the running experts, then ask for a job.
Open(w) ==
    /\ alive[w]
    /\ live[w] = 0
    /\ opened[w] < MaxConn
    /\ Overlap \/ ~Closing(w)
    /\ opened' = [opened EXCEPT ![w] = @ + 1]
    /\ live' = [live EXCEPT ![w] = opened[w] + 1]
    /\ up' = [up EXCEPT ![w][opened[w] + 1] =
                <<[type |-> "experts", experts |-> Running(w)], [type |-> "need_job"]>>]
    /\ UNCHANGED <<alive, inst, entry, asks, down>>

\* Mutant: messages of a broken socket are delivered on the next one.
BrokenKeepingDown(w) ==
    /\ live' = [live EXCEPT ![w] = 0]
    /\ UNCHANGED down
    /\ \E n \in 0..Len(up[w][live[w]]) :
          up' = [up EXCEPT ![w][live[w]] = Append(SubSeq(@, 1, n), CloseMsg)]

\* The socket breaks: what was under way to the worker is lost, and a tail of
\* what was under way from it.
Broken(w) ==
    /\ live' = [live EXCEPT ![w] = 0]
    /\ down' = [down EXCEPT ![w] = <<>>]
    /\ \E n \in 0..Len(up[w][live[w]]) :
          up' = [up EXCEPT ![w][live[w]] = Append(SubSeq(@, 1, n), CloseMsg)]

Break(w) ==
    /\ w \in Breakable
    /\ live[w] # 0
    /\ opened[w] < MaxConn
    /\ Broken(w)
    /\ UNCHANGED <<alive, inst, entry, asks, opened>>

\* The process dies or is stopped: its id never comes back.
Crash(w) ==
    /\ alive[w]
    /\ w \in Crashable
    /\ alive' = [alive EXCEPT ![w] = FALSE]
    /\ inst' = [inst EXCEPT ![w] = [e \in Experts |-> [i \in Instances |-> Free]]]
    /\ entry' = [entry EXCEPT ![w] = [e \in Experts |-> 0]]
    /\ asks' = [asks EXCEPT ![w] = 0]
    /\ IF live[w] # 0 THEN Broken(w) ELSE UNCHANGED <<live, down, up>>
    /\ UNCHANGED opened

-----------------------------------------------------------------------------
(* Handlers of the scheduler's messages.                                    *)

\* Mutant: the newest message is dropped instead of the one that was handled.
WithoutLast(ms) == Front(ms)
Rest(ms) == Tail(ms)

Next1(w) == Head(down[w])
Took(w, type) ==
    /\ down[w] # <<>>
    /\ Next1(w).type = type
    /\ down' = [down EXCEPT ![w] = Rest(@)]
    /\ UNCHANGED <<alive, opened, live>>

\* startExpert up to its await: nothing marks the expert as being started.
Begin(w, e, i, h) == inst' = [inst EXCEPT ![w][e][i] = StartingBy(h)]

MustStart(w, e) == entry[w][e] = 0

OnJob(w) ==
    LET e == Next1(w).expert IN
    /\ Took(w, "job")
    /\ \/ /\ ~MustStart(w, e)
          /\ Reply(w, <<[type |-> "started", expert |-> e], [type |-> "need_job"]>>)
          /\ UNCHANGED inst
       \/ /\ MustStart(w, e)
          /\ \E i \in FreeOf(w, e) : Begin(w, e, i, "job")
          /\ UNCHANGED up
    /\ UNCHANGED <<entry, asks>>

\* Mutant: the worker waits for the scheduler to call back.
AsksAsBefore(w) == asks
AskLater(w) == [asks EXCEPT ![w] = @ + 1]

OnNoJob(w) ==
    /\ Took(w, "no_job")
    /\ asks[w] < MaxAsks
    /\ asks' = AskLater(w)
    /\ UNCHANGED <<inst, entry, up>>

\* stopFn of the instance in the map; the handler then waits for `disposed`.
Close(w, e, field) ==
    LET me == inst[w][e][entry[w][e]] IN
    inst' = [inst EXCEPT ![w][e][entry[w][e]] =
               [me EXCEPT !.phase = "closing", ![field] = me[field] + 1]]

OnStop(w) ==
    LET e == Next1(w).expert IN
    /\ Took(w, "stop")
    /\ IF entry[w][e] # 0 THEN Close(w, e, "stops") ELSE UNCHANGED inst
    /\ UNCHANGED <<entry, asks, up>>

OnRestart(w) ==
    LET e == Next1(w).expert IN
    /\ Took(w, "restart")
    /\ \/ entry[w][e] # 0 /\ Close(w, e, "restarts")
       \/ entry[w][e] = 0 /\ \E i \in FreeOf(w, e) : Begin(w, e, i, "restart")
    /\ UNCHANGED <<entry, asks, up>>

-----------------------------------------------------------------------------
(* Continuations.                                                           *)

\* The start of instance i succeeds: it replaces whatever the map holds for e.
StartDone(w, e, i) ==
    LET job == inst[w][e][i].by = "job" IN
    /\ inst[w][e][i].phase = "starting"
    /\ job => asks[w] < MaxAsks
    /\ inst' = [inst EXCEPT ![w][e][i] = [Free EXCEPT !.phase = "up"]]
    /\ entry' = [entry EXCEPT ![w][e] = i]
    /\ Reply(w, <<[type |-> "started", expert |-> e]>>)
    /\ asks' = IF job THEN [asks EXCEPT ![w] = @ + 1] ELSE asks
    /\ UNCHANGED <<alive, opened, live, down>>

\* Mutant: a failed start leaves the expert in the map.
EntryKept(w, e, i) == [entry EXCEPT ![w][e] = i]
EntryAfterFailure(w, e, i) == entry

\* It throws: after a job the worker asks for another one, after a restart it only logs.
StartFails(w, e, i) ==
    /\ e \in CanFail
    /\ inst[w][e][i].phase = "starting"
    /\ inst' = [inst EXCEPT ![w][e][i] = Free]
    /\ IF inst[w][e][i].by = "job" THEN Reply(w, <<[type |-> "need_job"]>>) ELSE UNCHANGED up
    /\ entry' = EntryAfterFailure(w, e, i)
    /\ UNCHANGED <<alive, asks, opened, live, down>>

\* Mutant: the entry is not deleted.
EntryNotDeleted(w, e) == entry
EntryDeleted(w, e) == [entry EXCEPT ![w][e] = 0]

\* Instance i is disposed: every handler waiting for it deletes the map's entry of e,
\* the stop handlers confirm, and the restart handlers start a new instance each.
Disposed(w, e, i) ==
    LET me == inst[w][e][i] IN
    /\ me.phase = "closing"
    /\ entry' = EntryDeleted(w, e)
    /\ Reply(w, [k \in 1..me.stops |-> [type |-> "stopped", expert |-> e]])
    /\ \E R \in SUBSET (FreeOf(w, e) \cup {i}) :
         /\ Cardinality(R) = me.restarts
         /\ inst' = [inst EXCEPT ![w][e] = [j \in Instances |->
                        IF j \in R THEN StartingBy("restart")
                        ELSE IF j = i THEN Free ELSE @[j]]]
    /\ UNCHANGED <<alive, asks, opened, live, down>>

\* The pause after a start, or after no_job, is over.
Ask(w) ==
    /\ asks[w] > 0
    /\ asks' = [asks EXCEPT ![w] = @ - 1]
    /\ Reply(w, <<[type |-> "need_job"]>>)
    /\ UNCHANGED <<alive, inst, entry, opened, live, down>>

-----------------------------------------------------------------------------
Handle(w) == OnJob(w) \/ OnNoJob(w) \/ OnStop(w) \/ OnRestart(w)
Continue(w) == \/ \E e \in Experts, i \in Instances :
                     StartDone(w, e, i) \/ StartFails(w, e, i) \/ Disposed(w, e, i)
               \/ Ask(w)
Link(w) == Open(w) \/ Break(w)
WorkerStep(w) == Handle(w) \/ Continue(w) \/ Link(w)

\* The shape of the state; the map never names a free instance or one being started.
TypeOK ==
    /\ alive \in [Workers -> BOOLEAN]
    /\ asks \in [Workers -> 0..MaxAsks]
    /\ opened \in [Workers -> 0..MaxConn]
    /\ \A w \in Workers : live[w] \in {0, opened[w]}
    /\ \A w \in Workers, e \in Experts :
         /\ entry[w][e] \in 0..MaxInst
         /\ entry[w][e] # 0 => inst[w][e][entry[w][e]].phase \in {"up", "closing"}
         /\ \A i \in Instances : inst[w][e][i] \in
              [phase : {"free", "starting", "up", "closing"},
               by : {"none", "job", "restart"}, stops : Nat, restarts : Nat]
=============================================================================
