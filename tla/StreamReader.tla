------------------------------ MODULE StreamReader ------------------------------
(***************************************************************************)
(* StreamReader (src/src/stream/StreamReader.ts), read by one `for await`. *)
(*                                                                         *)
(* A chunk is known by its index i and carries the index of the chunk its  *)
(* prev tag names, i - 1.  The subscription hands every chunk over at most *)
(* once: the relay pool drops an event id it has seen.  processBuffer      *)
(* awaits the decoding of a chunk, and other chunks arrive meanwhile.      *)
(***************************************************************************)
EXTENDS Naturals, Sequences, FiniteSets, SequencesExt

CONSTANTS MaxChunks  \* config.maxChunks

VARIABLES
    open,      \* the subscription is open
    buffer,    \* chunks that arrived and were not taken, by the chunk their prev names
    count,     \* chunkCount
    nextRef,   \* the chunk whose successor comes next
    busy,      \* the chunks being decoded
    results,   \* resultBuffer
    waiting,   \* the consumer awaits a chunk
    error,     \* the code of this.error
    done,      \* isDone
    got,       \* the data handed to the consumer
    end        \* how the loop of the consumer ended

Init ==
    /\ open = TRUE
    /\ buffer = {}
    /\ count = 0
    /\ nextRef = 0
    /\ busy = {}
    /\ results = <<>>
    /\ waiting = FALSE
    /\ error = "none"
    /\ done = FALSE
    /\ got = <<>>
    /\ end = "open"

Failed == error # "none"

\* setError: the subscription and the buffer are dropped, and a waiting consumer fails.
\* (A second error finds all of this done already and changes nothing.)
SetError(code) ==
    /\ error' = IF Failed THEN error ELSE code
    /\ open' = FALSE
    /\ buffer' = {}
    /\ waiting' = FALSE
    /\ end' = IF waiting THEN "error" ELSE end

\* Mutant: chunks are processed as they arrive.
TakeAny(buf, bz, ref) == buffer' = {} /\ busy' = bz \cup buf

\* processBuffer takes the next chunk of the chain if it is there; `bz` are decoded already.
TakeNext(buf, bz, ref) ==
    LET take == {i \in buf : i = ref + 1 /\ ~Failed /\ ~done} IN
    buffer' = buf \ take /\ busy' = bz \cup take

\* handleEvent.  An error chunk is not put in order; every other one is counted.
Receive(i, status) ==
    /\ open
    /\ IF status = "error" \/ count >= MaxChunks
         THEN /\ SetError(IF status = "error" THEN "remote" ELSE "max_chunks")
              /\ UNCHANGED <<count, busy>>
         ELSE /\ count' = count + 1
              /\ TakeNext(buffer \cup {i}, busy, nextRef)
              /\ UNCHANGED <<open, error, waiting, end>>
    /\ UNCHANGED <<nextRef, results, done, got>>

\* Mutant: the consumer that awaits the chunk is not woken.
BufferOnly(data) == results' = Append(results, data) /\ UNCHANGED <<got, waiting>>

\* A chunk is decoded: it goes to the waiting consumer, or to resultBuffer.  (A waiting
\* consumer while resultBuffer holds something would throw: see WaitsForNothing.)
HandOver(data) ==
    IF waiting THEN got' = got \o data /\ waiting' = FALSE /\ UNCHANGED results
               ELSE results' = Append(results, data) /\ UNCHANGED <<got, waiting>>

\* Mutant: the chain is not followed.
SameRef(i) == nextRef
NextRef(i) == i

Decoded(i, data, status) ==
    /\ i \in busy
    /\ nextRef' = NextRef(i)
    /\ HandOver(data)
    /\ IF status = "done"
         THEN done' = TRUE /\ open' = FALSE /\ buffer' = {} /\ busy' = busy \ {i}
         ELSE TakeNext(buffer, busy \ {i}, NextRef(i)) /\ UNCHANGED <<done, open>>
    /\ UNCHANGED <<count, error, end>>

\* It cannot be decrypted or decompressed, or the result is too big.
NotDecoded(i) ==
    /\ i \in busy
    /\ busy' = busy \ {i}
    /\ nextRef' = NextRef(i)
    /\ SetError("decode")
    /\ UNCHANGED <<count, results, done, got>>

\* next(), called by the consumer when it has dealt with the last chunk.
NextResult ==
    /\ end = "open" /\ ~waiting
    /\ \/ Failed /\ end' = "error" /\ UNCHANGED <<results, got, waiting>>
       \/ /\ ~Failed /\ results # <<>>
          /\ got' = got \o Head(results)
          /\ results' = Tail(results)
          /\ UNCHANGED <<end, waiting>>
       \/ ~Failed /\ results = <<>> /\ done /\ end' = "done" /\ UNCHANGED <<results, got, waiting>>
       \/ ~Failed /\ results = <<>> /\ ~done /\ waiting' = TRUE /\ UNCHANGED <<results, got, end>>
    /\ UNCHANGED <<open, buffer, count, nextRef, busy, error, done>>

\* The consumer leaves its loop: return().
Leave ==
    /\ end = "open" /\ ~waiting
    /\ end' = "left"
    /\ open' = FALSE
    /\ buffer' = {}
    /\ UNCHANGED <<count, nextRef, busy, results, waiting, error, done, got>>

\* No event arrived for config.ttl.
Expire ==
    /\ ~done /\ ~Failed
    /\ SetError("ttl")
    /\ UNCHANGED <<count, nextRef, busy, results, done, got>>

\* The shape of the state; one chunk is decoded at a time, and nothing is kept of a
\* stream that failed.
TypeOK ==
    /\ {open, waiting, done} \subseteq BOOLEAN
    /\ error \in {"none", "remote", "max_chunks", "decode", "ttl"}
    /\ count \in 0..MaxChunks
    /\ nextRef \in Nat
    /\ Cardinality(busy) <= 1
    /\ Failed \/ done => buffer = {} /\ ~open
    /\ end \in {"open", "done", "error", "left"}
=============================================================================
