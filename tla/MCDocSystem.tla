------------------------------ MODULE MCDocSystem ------------------------------
(* The instance of DocSystem that TLC checks. *)
EXTENDS DocSystem
CONSTANTS d1, d2, u1, u2

MCInputs == [v \in {"local", "socket"} |->
    {[d |-> d2, user |-> u1, n |-> 2], [d |-> d1, user |-> u1, n |-> 1]} \cup
    (IF v = "socket" THEN {} ELSE {[d |-> d2, user |-> u2, n |-> 1]})]
=============================================================================
