--------------------------- MODULE MCExpertScheduler ---------------------------
(***************************************************************************)
(* ExpertScheduler against arbitrary workers: any message, on any socket,  *)
(* at any time.  What can grow without bound is capped by Small.           *)
(***************************************************************************)
EXTENDS ExpertScheduler

CONSTANTS MaxDown,   \* bound on the messages under way to a worker
          MaxQueue,  \* bound on the entries of expertQueue
          MaxTimers  \* bound on the start timers of an expert, and on stale job timers

TakeAll == [w \in Workers |-> Experts]

Small == /\ \A w \in Workers : Len(down[w]) <= MaxDown /\ stale[w] <= MaxTimers
         /\ \A e \in Experts : Len(pend[e]) <= MaxTimers
         /\ Len(queue) <= MaxQueue

\* Past a bound, the environment only lets the system drain.
Drain == \/ \E w \in Workers : Deliver(w) \/ StaleJobTimeout(w)
         \/ \E e \in Experts : StartTimeout(e)
         \/ \E w \in Workers, s \in Sockets :
              ReceiveNeedJob(w, s) /\ Len(queue) > MaxQueue /\ down[w] = <<>>

BoundedNext == (Next /\ (Small \/ ~Idle)) \/ Drain

BoundedSpec == Init /\ [][BoundedNext]_vars
================================================================================
