---------------------------- MODULE MCExpertCluster ----------------------------
(* Small clusters for TLC.                                                       *)
EXTENDS ExpertCluster

\* Every worker takes every type of expert.
TakeAll == [w \in Workers |-> Experts]

CONSTANTS e1, w1

\* Worker w1 only takes the type of e1, the others take every type.
TakeTyped == [w \in Workers |-> IF w = w1 THEN {e1} ELSE Experts]

\* A property of the scheduler, seen from the cluster.
QueuedIsInQueue == S!QueuedIsInQueue
================================================================================
