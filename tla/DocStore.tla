-------------------------------- MODULE DocStore --------------------------------
(***************************************************************************)
(* DocStoreSQLite (src/src/docstore/DocStoreSQLite.ts): one docstore in a  *)
(* database file that several processes have open, and one subscription    *)
(* that pages through its rows.  A row is known by its aid, which SQLite   *)
(* never gives twice; its embeddings are known by their number.            *)
(***************************************************************************)
EXTENDS Naturals, Sequences, FiniteSets

CONSTANTS Docs, Users,
          Me,           \* the owner of the docstore
          MaxVectors,   \* bound on the embeddings of a document
          MaxWrites,    \* bound on the rows ever written
          BATCH_SIZE    \* rows that one query of a subscription returns

VARIABLES exists,  \* the row of the docstore
          log,     \* every row of docs ever written, at its aid
          rows,    \* rows[d]: the aid of the row of document d, 0 without one
          feed     \* the subscription: on, the socket it is for, lastAid, and the page
                   \* that it hands over: "none" yet, the "first" or a "later" one

NoUser == ""  \* no filter, or nobody's document
NoFeed == [on |-> FALSE, sock |-> 0, last |-> 0, page |-> "none"]
storeVars == <<exists, log, rows>>

Init ==
    /\ exists = TRUE
    /\ log = <<>>
    /\ rows = [d \in Docs |-> 0]
    /\ feed = NoFeed

\* float32ArraysToBlob puts the number of vectors in two bytes, blobToFloat32Arrays
\* takes it from them.
Header(n) == <<n % 256, (n \div 256) % 256>>
Count(h) == h[1] + 256 * h[2]

\* Mutant: the filter by user is forgotten.
AnyUser(d, u) == rows[d] > 0
\* The filter by user, where one is known.
Mine(d, u) == rows[d] > 0 /\ u \in {NoUser, log[rows[d]].user}

\* Mutant: the aid is the largest there is, not the next one.
OldAid(d, u, n) ==
    /\ exists /\ Len(log) < MaxWrites
    /\ log' = Append(log, [d |-> d, user |-> u, n |-> Count(Header(n))])
    /\ rows' = [rows EXCEPT ![d] = Len(log)]
    /\ UNCHANGED exists
\* INSERT OR REPLACE: a document that is written again gets a new aid.
Upsert(d, u, n) ==
    /\ exists /\ Len(log) < MaxWrites
    /\ log' = Append(log, [d |-> d, user |-> u, n |-> Count(Header(n))])
    /\ rows' = [rows EXCEPT ![d] = Len(log) + 1]
    /\ UNCHANGED exists

Delete(d, u) ==
    /\ rows' = IF Mine(d, u) THEN [rows EXCEPT ![d] = 0] ELSE rows
    /\ UNCHANGED <<exists, log>>

\* The documents of other users stay, and the docstore of another user too.
DeleteDocstore(u) ==
    /\ exists' = (exists /\ u \notin {NoUser, Me})
    /\ rows' = [d \in Docs |-> IF Mine(d, u) THEN 0 ELSE rows[d]]
    /\ UNCHANGED log

\* createDocstore returns the docstore of that name, or makes one with a new id.
CreateDocstore == UNCHANGED storeVars

\* What the methods that only read find for a user.
GetDocstore == exists
Get(d, u) == Mine(d, u)
ListDocsByIds(D) == {d \in D : rows[d] > 0}
CountDocs(u) == {d \in Docs : Mine(d, u)}

-----------------------------------------------------------------------------
Subscribe(s) == feed' = [NoFeed EXCEPT !.on = TRUE, !.sock = s]
CloseFeed == feed' = NoFeed

\* Mutant: a page starts one row late.
SkipsOne(u) == {d \in Docs : Mine(d, u) /\ rows[d] > feed.last + 1}
Unread(u) == {d \in Docs : Mine(d, u) /\ rows[d] > feed.last}

\* The rows of a query: those with the lowest aids, in the order of their aid.
PageSize(u) ==
    IF Cardinality(Unread(u)) < BATCH_SIZE THEN Cardinality(Unread(u)) ELSE BATCH_SIZE
Pages(u) ==
    {page \in [1..PageSize(u) -> Unread(u)] :
        \A i \in 1..PageSize(u) : \A d \in Unread(u) :
           rows[d] < rows[page[i]] <=> \E j \in 1..(i - 1) : page[j] = d}

\* The embeddings of a document cannot be read without the row of the docstore.
Doc(d) == [type |-> "doc", d |-> d, aid |-> rows[d],
           n |-> IF exists THEN log[rows[d]].n ELSE 0]
Eof == [type |-> "eof", d |-> "none", aid |-> 0, n |-> 0]

\* Mutant: an empty page is not the end of the feed.
NoEmptyEof(page) == [i \in 1..Len(page) |-> Doc(page[i])]
\* fetchBatch hands over a page, and says that it is the last when it is not full.
Items(page) ==
    LET docs == [i \in 1..Len(page) |-> Doc(page[i])]
    IN  IF Len(page) < BATCH_SIZE THEN Append(docs, Eof) ELSE docs

Advance(page) ==
    feed' = [feed EXCEPT !.page = IF @ = "none" THEN "first" ELSE "later",
                         !.last = IF page = <<>> THEN @ ELSE rows[page[Len(page)]]]

TypeOK ==
    /\ exists \in BOOLEAN
    /\ Len(log) <= MaxWrites
    /\ \A d \in Docs : rows[d] \in 0..Len(log) /\ (rows[d] > 0 => log[rows[d]].d = d)
    /\ \A i \in 1..Len(log) : log[i].user \in Users \cup {NoUser} /\ log[i].n \in 0..MaxVectors
    /\ feed.on \in BOOLEAN /\ feed.last <= Len(log)
=============================================================================
