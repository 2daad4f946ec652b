------------------------------ MODULE AskContract ------------------------------
(***************************************************************************)
(* What a NIP-174 exchange promises, whatever the relays and the wallets   *)
(* do: an expert works only for a prompt whose invoice is settled, at most *)
(* once; a client is answered only by that work; and how an ask ended is   *)
(* final.                                                                  *)
(***************************************************************************)
EXTENDS FiniteSets

CONSTANT Asks
VARIABLES money,    \* asks whose invoice is settled
          served,   \* asks the expert worked for
          outcome   \* how the ask stands for the client

Outcomes == {"open", "answered", "failed"}

Init == money = {} /\ served = {} /\ outcome = [a \in Asks |-> "open"]

Pay(a) == a \notin money /\ money' = money \cup {a} /\ UNCHANGED <<served, outcome>>

Serve(a) ==
    /\ a \in money \ served
    /\ served' = served \cup {a}
    /\ UNCHANGED <<money, outcome>>

Answer(a) ==
    /\ a \in served
    /\ outcome[a] = "open"
    /\ outcome' = [outcome EXCEPT ![a] = "answered"]
    /\ UNCHANGED <<money, served>>

Fail(a) ==
    /\ outcome[a] = "open"
    /\ outcome' = [outcome EXCEPT ![a] = "failed"]
    /\ UNCHANGED <<money, served>>

Next == \E a \in Asks : Pay(a) \/ Serve(a) \/ Answer(a) \/ Fail(a)
Spec == Init /\ [][Next]_<<money, served, outcome>>
=============================================================================
