------------------------------- MODULE NostrStream -------------------------------
(***************************************************************************)
(* A stream over nostr: StreamWriter, the relays, StreamReader.  The       *)
(* relays (publishToRelays of common/relay.ts and the relay pool) are the  *)
(* set of chunks they hold: chunks reach the reader in any order, and a    *)
(* chunk may never reach it, because relays do not keep kind 20173.        *)
(***************************************************************************)
EXTENDS Naturals, Sequences, FiniteSets, SequencesExt

CONSTANTS MaxWrites, MaxFlows, Window, Interval, MaxChunks,
          MaxFaults  \* bound on the publishes that fail and the chunks that are lost

ASSUME StreamAssumption ==
    /\ {MaxWrites, MaxFlows, Window, MaxChunks, MaxFaults} \subseteq Nat
    /\ Interval \in BOOLEAN

VARIABLES tried, sent, isDone, isError, timer, comp, size, flow, chunks, pub, crashed,
          open, buffer, count, nextRef, busy, results, waiting, error, done, got, end,
          relayed,  \* chunks the relays took
          seen,     \* those they handed to the reader
          lost      \* those they dropped

W == INSTANCE StreamWriter
R == INSTANCE StreamReader

writerVars == <<tried, sent, isDone, isError, timer, comp, size, flow, chunks, pub, crashed>>
readerVars == <<open, buffer, count, nextRef, busy, results, waiting, error, done, got, end>>
relayVars == <<relayed, seen, lost>>
vars == <<writerVars, readerVars, relayVars>>

Init == W!Init /\ R!Init /\ relayed = {} /\ seen = {} /\ lost = {}

-----------------------------------------------------------------------------
\* The relays and the reader see the writer between two of its events.
AtRest == crashed \/ W!Idle
Faults == Cardinality(lost) + Cardinality(W!NotTaken)
Writer(A) == A /\ UNCHANGED <<readerVars, relayVars>>
Reader(A) == AtRest /\ A /\ UNCHANGED <<writerVars, relayVars>>

\* A relay takes a chunk, perhaps after publishToRelays gave up on it.
Relay(i) ==
    /\ AtRest
    /\ i \in W!Indices \ relayed
    /\ pub[i] \in {"sent", "failed"}
    /\ relayed' = relayed \cup {i}
    /\ UNCHANGED <<writerVars, readerVars, seen, lost>>

UnderWay == relayed \ (seen \cup lost)

Deliver(i) ==
    /\ AtRest
    /\ i \in UnderWay
    /\ seen' = seen \cup {i}
    /\ IF open THEN R!Receive(i, chunks[i].status) ELSE UNCHANGED readerVars
    /\ UNCHANGED <<writerVars, relayed, lost>>

Lose(i) ==
    /\ AtRest
    /\ i \in UnderWay
    /\ Faults < MaxFaults
    /\ lost' = lost \cup {i}
    /\ UNCHANGED <<writerVars, readerVars, relayed, seen>>

Decoded(i) == Reader(R!Decoded(i, chunks[i].data, chunks[i].status))

\* The reader's patience outlasts what is under way once the writer has no more to say.
WriterQuiet == crashed \/ flow[W!App].at \in {"closed", "ended"}
Settled == /\ UnderWay = {} /\ busy = {}
           /\ crashed \/ \A i \in W!Indices : pub[i] \in {"ok", "failed"}
Expire == /\ WriterQuiet => Settled
          /\ Reader(R!Expire)

Next ==
    \/ Writer(W!Application \/ W!Runs \/ W!Resumes)
    \/ \E i \in W!Indices : \/ Writer(i \in relayed /\ W!PublishOk(i))
                            \/ Writer(Faults < MaxFaults /\ W!PublishFails(i))
                            \/ Relay(i) \/ Deliver(i) \/ Lose(i) \/ Decoded(i)
                            \/ Reader(R!NotDecoded(i))
    \/ Reader(R!NextResult)
    \/ Reader(R!Leave)
    \/ Expire

Spec == Init /\ [][Next]_vars

\* The writer's process runs what is ready, publishes are settled, relays hand over what
\* they hold, the consumer asks for the next chunk.  Nothing obliges a write.
Fairness ==
    /\ WF_vars(Writer(W!Runs))
    /\ WF_vars(Writer(W!Resumes))
    /\ WF_vars(\E i \in W!Indices : Relay(i) /\ pub[i] = "sent")
    /\ WF_vars(\E i \in W!Indices : Writer(i \in relayed /\ W!PublishOk(i)))
    /\ WF_vars(\E i \in W!Indices : Deliver(i))
    /\ WF_vars(\E i \in W!Indices : Decoded(i))
    /\ WF_vars(Reader(R!NextResult))

FairSpec == Spec /\ Fairness

-----------------------------------------------------------------------------
\* The consumer receives a prefix of what the writer accepted, in order, and a stream
\* that ends as done was received completely, whatever is lost, late or overtaken.
Abstract == INSTANCE OrderedStream
ImplementsOrderedStream == Abstract!Spec

\* Nothing the compressor accepted is dropped or sent twice while the writer works, and
\* chunks are created in the order of the data, although several flows flush.
Data == FlattenSeq([i \in W!Indices |-> chunks[i].data])
AcceptedIsSent == W!Idle /\ ~isError => Data \o comp.parts = sent

\* A stream whose last write returned ends as done for a consumer that keeps reading,
\* unless a chunk was lost, refused by the relays, or not accepted by the reader: its ttl
\* alone never cuts off a stream that is complete on the relays.
Faultless == /\ lost = {} /\ W!NotTaken = {}
             /\ error \in {"none", "ttl"}
             /\ end # "left"
ClosedIsReceived ==
    (flow[W!App].at = "closed" /\ error = "none" /\ Faultless) ~> (end = "done" \/ ~Faultless)

\* A consumer waits only when there is nothing to hand over ("Bad iterator state").
WaitsForNothing == waiting => results = <<>> /\ ~done /\ ~R!Failed

\* An application that met an exception and called error() leaves a stream that is closed
\* ("Sends an error status and closes the stream"), so that the reader need not wait for
\* its ttl: once the callbacks are through, one of its chunks says error or done.
ExceptionIsReported ==
    flow[W!App].at = "ended" /\ (\A f \in W!Callbacks : flow[f] = W!Ready)
        => \E i \in W!Indices : chunks[i].status # "active"

\* Nothing follows a done chunk.
DoneIsLast == \A i \in W!Indices : chunks[i].status = "done" => i = Len(chunks)

\* The shape of both ends' state.
TypeOK == W!TypeOK /\ R!TypeOK
================================================================================
