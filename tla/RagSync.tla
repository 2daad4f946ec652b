-------------------------------- MODULE RagSync --------------------------------
(***************************************************************************)
(* RagExpert.start, DocstoreToRag.sync and ChromaRagDB (src/src/experts,   *)
(* src/src/rag): an expert empties its collection and copies the vectors   *)
(* of a docstore into it, in batches.  The callback of the subscription    *)
(* takes one item of the buffer at a time and awaits the vector database.  *)
(***************************************************************************)
EXTENDS Naturals, Sequences, FiniteSets

CONSTANTS Docs, MaxVectors,
          RAG_BATCH_SIZE  \* BATCH_SIZE of DocstoreToRag

VARIABLES buffer, busy,
          rag,   \* where start is
          batch, \* the vectors not yet stored
          left,  \* the vectors of the item at hand that are not yet in the batch
          atEof, \* the item at hand is the end of the feed
          coll   \* the collection: the aid of the row a vector came from

Init ==
    /\ rag = "idle"
    /\ batch = <<>> /\ left = <<>> /\ atEof = FALSE
    /\ coll = [c \in Docs \X (1..MaxVectors) |-> 0]

\* docToRagDocuments: a vector is stored under the document and its number.
Vectors(item) == [i \in 1..item.n |-> [at |-> <<item.d, i>>, aid |-> item.aid]]

\* storeBatch upserts by id.  The vector database refuses a batch that has an id twice, as
\* it does when a document was written again before the batch was full.
Storable(vs) == \A i, j \in 1..Len(vs) : vs[i].at = vs[j].at => i = j
Stored(vs) == [c \in DOMAIN coll |->
    IF \E i \in 1..Len(vs) : vs[i].at = c
      THEN vs[CHOOSE i \in 1..Len(vs) : vs[i].at = c].aid ELSE coll[c]]

\* The loop over the vectors of a document runs until the batch is full.
Fits(b, vs) ==
    IF Len(vs) < RAG_BATCH_SIZE - Len(b) THEN Len(vs)
    ELSE IF Len(b) < RAG_BATCH_SIZE THEN RAG_BATCH_SIZE - Len(b) ELSE 1
Full(b) == Len(b) >= RAG_BATCH_SIZE
Pushes(b, vs) ==
    LET n == IF vs = <<>> THEN 0 ELSE Fits(b, vs) IN
    /\ batch' = b \o SubSeq(vs, 1, n)
    /\ left' = SubSeq(vs, n + 1, Len(vs))
    /\ busy' = IF vs # <<>> /\ Full(batch') THEN "yes" ELSE "no"

MayCall == buffer # <<>> /\ busy = "no"

\* The callback gets an item.  Without a full batch it returns before anything else
\* happens, and then it calls onEof when the item is the end of the feed.
Call ==
    LET item == Head(buffer) IN
    /\ MayCall
    /\ buffer' = Tail(buffer)
    /\ IF item.type = "eof"
         THEN /\ busy' = IF batch = <<>> THEN "no" ELSE "yes"
              /\ atEof' = (batch # <<>>)
              /\ rag' = IF batch = <<>> /\ rag = "syncing" THEN "ready" ELSE rag
              /\ UNCHANGED <<batch, left>>
         ELSE Pushes(batch, Vectors(item)) /\ UNCHANGED <<atEof, rag>>
    /\ UNCHANGED coll

NextBatch == Pushes(<<>>, left)

\* The batch is stored, and the next one begun.
StoreBatch ==
    /\ busy = "yes" /\ Storable(batch)
    /\ coll' = Stored(batch)
    /\ NextBatch
    /\ atEof' = FALSE
    /\ rag' = IF atEof /\ rag = "syncing" THEN "ready" ELSE rag
    /\ UNCHANGED buffer

\* storeBatch throws: so does the callback, which keeps the batch and forgets the rest of
\* the document.  A batch that cannot be stored is tried again with more vectors.
StoreFails ==
    /\ busy = "yes" /\ busy' = "stalled"
    /\ left' = <<>> /\ atEof' = FALSE
    /\ UNCHANGED <<rag, batch, coll, buffer>>

\* buildContext: the documents that the vectors found name, or one of those documents or
\* an include tag, as far as the docstore has them.
Context(named, found) == {d \in named : \E i \in 1..MaxVectors : coll[<<d, i>>] > 0} \cap found

Goes(from, to) ==
    /\ rag = from /\ rag' = to
    /\ UNCHANGED <<batch, left, atEof>>

\* deleteCollection, whose failure is ignored.
Clear(done) == coll' = IF done THEN [c \in DOMAIN coll |-> 0] ELSE coll

TypeOK ==
    /\ rag \in {"idle", "asking", "clearing", "syncing", "ready", "failed", "stopped"}
    /\ busy # "yes" => left = <<>> /\ ~atEof
=============================================================================
