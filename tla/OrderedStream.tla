------------------------------ MODULE OrderedStream ------------------------------
(***************************************************************************)
(* What a NIP-173 stream promises its two ends, whatever happens between   *)
(* them: the consumer receives a prefix of what was written, in order, and *)
(* a stream that ends as done was received completely.                     *)
(***************************************************************************)
EXTENDS Naturals, Sequences, SequencesExt

VARIABLES sent,   \* the data accepted by the writer
          got,    \* the data handed to the consumer
          end     \* how the stream ended for the consumer

Ends == {"open", "done", "error", "left"}

Init == sent = <<>> /\ got = <<>> /\ end = "open"

Accept == /\ sent' # <<>> /\ Front(sent') = sent
          /\ UNCHANGED <<got, end>>

\* The next chunk: any number of writes, in order.
Receive == /\ end = "open"
           /\ \E n \in Len(got)..Len(sent) : got' = SubSeq(sent, 1, n)
           /\ UNCHANGED <<sent, end>>

Finish == /\ end = "open"
          /\ got = sent
          /\ end' = "done"
          /\ UNCHANGED <<sent, got>>

\* It fails, or the consumer leaves.
Fail == end = "open" /\ end' \in {"error", "left"} /\ UNCHANGED <<sent, got>>

Next == Accept \/ Receive \/ Finish \/ Fail
Spec == Init /\ [][Next]_<<sent, got, end>>
================================================================================
