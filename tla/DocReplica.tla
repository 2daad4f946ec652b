------------------------------- MODULE DocReplica -------------------------------
(***************************************************************************)
(* What the copy of a docstore in a vector database promises: a vector in  *)
(* it was written by the user for that document, and it is only ever       *)
(* replaced by one of a later row, or dropped with all the others.         *)
(***************************************************************************)
EXTENDS Naturals, Sequences

CONSTANTS Slots,  \* the places of the copy: a document and the number of a vector
          NoUser
VARIABLES user,   \* whose documents are copied, or everybody's
          log,    \* every row written
          copy    \* copy[c]: the row the vector at c comes from, 0 for none

Init == log = <<>> /\ copy = [c \in Slots |-> 0]

Write == Len(log') = Len(log) + 1 /\ SubSeq(log', 1, Len(log)) = log /\ UNCHANGED copy

Comes(c, i) ==
    /\ i \in 1..Len(log)
    /\ log[i].d = c[1] /\ user \in {NoUser, log[i].user} /\ c[2] <= log[i].n

Copy ==
    /\ \A c \in Slots : copy'[c] = copy[c] \/ (copy'[c] > copy[c] /\ Comes(c, copy'[c]))
    /\ UNCHANGED log

Clear == copy' = [c \in Slots |-> 0] /\ UNCHANGED log

Next == (Write \/ Copy \/ Clear) /\ UNCHANGED user
Spec == Init /\ [][Next]_<<user, log, copy>>
=============================================================================
