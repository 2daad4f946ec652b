------------------------------- MODULE DocSystem -------------------------------
(***************************************************************************)
(* An expert that copies a docstore into its collection while others write *)
(* documents: RagSync over a DocStore in its own process, or over          *)
(* DocClient and DocServer.                                                *)
(***************************************************************************)
EXTENDS Naturals, Sequences, FiniteSets

CONSTANTS Docs, Users, Me, MaxVectors, MaxWrites, BATCH_SIZE, RAG_BATCH_SIZE, Sockets,
          Inputs,     \* what is written: [d, user, n], for either via
          MaxBuffer,  \* bound on the items that wait at the client
          MaxFaults   \* bound on the faults of the environment

ASSUME DocAssumption ==
    /\ Me \in Users
    /\ MaxVectors \in Nat /\ MaxVectors <= 65535 /\ MaxWrites \in Nat
    /\ BATCH_SIZE \in Nat \ {0} /\ RAG_BATCH_SIZE \in Nat \ {0}
    /\ IsFiniteSet(Sockets) /\ Sockets = 1..Cardinality(Sockets)
    /\ Inputs \in [{"local", "socket"} -> SUBSET [d : Docs, user : Users, n : 0..MaxVectors]]
    /\ MaxBuffer \in Nat \ {0} /\ MaxFaults \in Nat

VARIABLES exists, log, rows, feed, sk, inHand, perms, serving,
          cl, authing, req, sub, buffer, busy, crashed,
          rag, batch, left, atEof, coll,
          via,    \* "local" or "socket": createDocStoreClientFromParsed
          faults  \* how many faults there were

Reqs == {"start", "app"}  \* two requests: the first finds the docstore
D == INSTANCE DocStore
S == INSTANCE DocServer
C == INSTANCE DocClient
R == INSTANCE RagSync

storeVars == <<exists, log, rows>>
serverVars == <<inHand, perms, serving>>
clientVars == <<cl, authing, req, sub, crashed>>
ragVars == <<rag, batch, left, atEof, coll>>
vars == <<storeVars, feed, sk, serverVars, clientVars, buffer, busy, ragVars, via, faults>>

Init ==
    /\ D!Init /\ S!Init /\ C!Init /\ R!Init
    /\ via \in {"local", "socket"}
    /\ via = "local" => ~perms /\ ~cl.key
    /\ faults = 0

Well == UNCHANGED <<via, faults>>
Fault == faults < MaxFaults /\ faults' = faults + 1 /\ UNCHANGED via
If(fault) == IF fault THEN Fault ELSE Well
Client(A) == ~crashed /\ A /\ UNCHANGED <<storeVars, feed, serverVars, ragVars>>
Server(A) == A /\ UNCHANGED <<perms, serving, clientVars, buffer, busy, ragVars>>
Rag(A) == ~crashed /\ A /\ UNCHANGED <<storeVars, serverVars>>

-----------------------------------------------------------------------------
\* Another process writes to the database file with a DocStoreLocalClient.
Write ==
    /\ via = "socket" => rag # "idle"
    /\ \E w \in Inputs[via] :
         \/ D!Upsert(w.d, w.user, w.n)
         \/ D!Delete(w.d, w.user)
         \/ D!DeleteDocstore(w.user)
         \/ D!CreateDocstore
    /\ UNCHANGED <<feed, sk, serverVars, clientVars, buffer, busy, ragVars>> /\ Well

\* The network and the timers of the client.
Opens(s) == Client(serving /\ C!Opened(s, S!Accepted(s))) /\ Well
NotOpens(s) == Client(C!NotOpened(s)) /\ If(serving)
Reconnects == Client(C!Reconnect) /\ Well
Gone(s) == sk[s].v \in {"closing", "closed"} /\ sk[s].down = <<>>
ClientCloses(s) == Client(C!Closed(s)) /\ If(~Gone(s))
ClientReceives(s) ==
    /\ \E m \in {sk[s].down[i] : i \in 1..Len(sk[s].down)} :
         Client(C!ReceiveAuth(s, m) \/ C!ReceiveResponse(s, m) \/ C!ReceiveItem(s, m))
    /\ Well
Resumes(r) == Client(C!Resume(r)) /\ Well

\* The response to a message is on its way: a timer that gives up now is early.
Coming(s, id) ==
    /\ sk[s].c = "open"
    /\ \/ sk[s].v = "open" /\ \E i \in 1..Len(sk[s].up) : sk[s].up[i].id = id
       \/ sk[s].v = "open" /\ \E h \in inHand : h.s = s /\ h.m.id = id
       \/ \E i \in 1..Len(sk[s].down) : sk[s].down[i].type = "response" /\ sk[s].down[i].id = id
TimesOut(r) == Client(C!RequestTimeout(r)) /\ If(\E s \in Sockets : Coming(s, r))
AuthTimesOut(s) == Client(C!AuthTimeout(s)) /\ If(Coming(s, "auth"))

\* The commands: each finds its docstore, and then makes one request.
addDoc(d, n) == [method |-> "upsert", d |-> d, n |-> n]
getDoc(d) == [method |-> "get", d |-> d, n |-> 0]
deleteDoc(d) == [method |-> "delete", d |-> d, n |-> 0]
countDocs == [method |-> "countDocs", d |-> "none", n |-> 0]
createDocstore == [method |-> "createDocstore", d |-> "none", n |-> 0]
removeDocstore == [method |-> "deleteDocstore", d |-> "none", n |-> 0]
\* What an expert asks for a prompt, and what other programs may ask.
context == [method |-> "listDocsByIds", d |-> "none", n |-> 0]
listDocStoresByIds == [method |-> "listDocStoresByIds", d |-> "none", n |-> 0]
Commands == (UNION {{addDoc(w.d, w.n), deleteDoc(w.d), getDoc(w.d)} : w \in Inputs["socket"]})
            \cup {countDocs, createDocstore, removeDocstore, context, listDocStoresByIds}

getDocstore ==
    /\ rag = "idle" /\ via = "socket"
    /\ Client(C!Open("start", "listDocstores", "none", 0)) /\ Well
Asks ==
    /\ rag = "idle" /\ req["start"].at = "done"
    /\ \E c \in Commands : Client(C!Ask("app", c.method, c.d, c.n))
    /\ Well
\* Who has the client closes it when nothing it asked is under way.
Disposes ==
    /\ rag \in {"idle", "ready", "failed", "stopped"}
    /\ \A r \in Reqs : req[r].at \in {"idle", "done", "failed"}
    /\ Client(C!Dispose) /\ Well

ServerCloses(s) == Server(S!Closed(s)) /\ If(sk[s].c # "closed")
ServerReceives(s) == Server(S!Message(s)) /\ Well
Handles(h) == Server(S!Resume(h)) /\ Well
Refuses(h) == Server(S!Denied(h)) /\ Fault
ServerFetches ==
    /\ via = "socket" /\ Len(buffer) < MaxBuffer
    /\ feed.on => sk[feed.sock].down = <<>>
    /\ Server(S!Fetch) /\ Well
Expires(s) == Server(S!Expires(s)) /\ Fault
Stops == /\ via = "socket" /\ S!Close /\ Fault
         /\ UNCHANGED <<perms, clientVars, buffer, busy, ragVars>>
Restarts == /\ S!Start /\ Well
            /\ UNCHANGED <<perms, clientVars, buffer, busy, ragVars>>

-----------------------------------------------------------------------------
\* RagExpert.start.
Begin ==
    \/ /\ via = "local"
       /\ Rag(R!Goes("idle", IF D!GetDocstore THEN "clearing" ELSE "failed"))
       /\ UNCHANGED <<feed, sk, clientVars, buffer, busy, coll>> /\ Well
    \/ /\ via = "socket"
       /\ Rag(C!Open("start", "getDocstore", "none", 0) /\ R!Goes("idle", "asking"))
       /\ UNCHANGED <<feed, sub, coll>> /\ Well

Found ==
    /\ req["start"].at \in {"done", "failed"}
    /\ Rag(R!Goes("asking", IF req["start"].at = "done" THEN "clearing" ELSE "failed"))
    /\ UNCHANGED <<feed, sk, clientVars, buffer, busy, coll>> /\ Well

Syncs(cleared) ==
    /\ R!Goes("clearing", "syncing") /\ R!Clear(cleared)
    /\ IF via = "local"
         THEN D!Subscribe(0) /\ UNCHANGED <<sk, clientVars, buffer, busy>>
         ELSE C!Subscribe /\ UNCHANGED feed
    /\ ~crashed /\ UNCHANGED <<storeVars, serverVars>>
    /\ If(~cleared)

\* The embeddings do not load, or the expert cannot start once it is synchronized.
StartFails ==
    /\ Rag(R!Goes("clearing", "failed") \/ R!Goes("ready", "failed"))
    /\ UNCHANGED <<feed, sk, clientVars, buffer, busy, coll>> /\ Fault

LocalFetches ==
    /\ via = "local" /\ feed.on /\ buffer = <<>> /\ busy = "no"
    /\ \E page \in D!Pages(Me) : buffer' = D!Items(page) /\ D!Advance(page)
    /\ Rag(UNCHANGED <<sk, clientVars, busy, ragVars>>) /\ Well

Calls == Rag(R!Call) /\ UNCHANGED <<feed, sk, clientVars>> /\ Well
Stores == Rag(R!StoreBatch) /\ UNCHANGED <<feed, sk, clientVars>> /\ Well

\* An exception of the callback, by a fault or because of the batch: the client goes on with
\* the next item it receives; in the process of the database it ends the subscription, and
\* is caught only in the first fetch.
StoreFails ==
    /\ R!StoreFails /\ If(R!Storable(batch))
    /\ ~crashed /\ UNCHANGED <<storeVars, sk, serverVars, cl, authing, req, sub>>
    /\ IF via = "socket" THEN UNCHANGED <<feed, crashed>>
       ELSE D!CloseFeed /\ crashed' = (feed.page = "later")

\* The expert is stopped.
Stop ==
    /\ R!Goes("ready", "stopped") /\ UNCHANGED coll
    /\ IF via = "local"
         THEN D!CloseFeed /\ buffer' = <<>> /\ UNCHANGED <<sk, clientVars, busy>>
         ELSE C!CloseSubscription /\ UNCHANGED feed
    /\ ~crashed /\ UNCHANGED <<storeVars, serverVars>> /\ Well

Next ==
    \/ Write \/ getDocstore \/ Asks \/ Disposes \/ Reconnects \/ ServerFetches \/ Stops \/ Restarts
    \/ \E s \in Sockets : \/ Opens(s) \/ NotOpens(s) \/ ClientCloses(s) \/ ClientReceives(s)
                          \/ AuthTimesOut(s) \/ ServerCloses(s) \/ ServerReceives(s) \/ Expires(s)
    \/ \E r \in Reqs : Resumes(r) \/ TimesOut(r)
    \/ \E h \in inHand : Handles(h) \/ Refuses(h)
    \/ Begin \/ Found \/ StartFails \/ LocalFetches \/ Calls \/ Stores \/ StoreFails \/ Stop
    \/ \E cleared \in BOOLEAN : Syncs(cleared)

Spec == Init /\ [][Next]_vars

\* What is under way arrives, handlers and callbacks return, timers fire, and a websocket
\* learns of the end of its connection.  Nobody has to write, ask, start or stop anything.
Fairness ==
    /\ \A s \in Sockets : /\ WF_vars(Opens(s)) /\ WF_vars(NotOpens(s) /\ ~serving)
                          /\ WF_vars(ClientCloses(s) /\ Gone(s)) /\ WF_vars(ClientReceives(s))
                          /\ WF_vars(AuthTimesOut(s) /\ ~Coming(s, "auth"))
                          /\ WF_vars(ServerCloses(s) /\ sk[s].c = "closed")
                          /\ WF_vars(ServerReceives(s))
    /\ \A r \in Reqs : /\ WF_vars(Resumes(r))
                       /\ WF_vars(TimesOut(r) /\ \A s \in Sockets : ~Coming(s, r))
    /\ WF_vars(Reconnects) /\ WF_vars(\E h \in inHand : Handles(h)) /\ WF_vars(ServerFetches)
    /\ WF_vars(Found) /\ WF_vars(Syncs(TRUE)) /\ WF_vars(LocalFetches)
    /\ WF_vars(Calls) /\ WF_vars(Stores) /\ WF_vars(StoreFails /\ ~R!Storable(batch))
FairSpec == Spec /\ Fairness

-----------------------------------------------------------------------------
\* Whose documents the expert copies.
User == IF via = "local" THEN Me ELSE S!Who

\* The collection is a replica of the docstore: a vector comes from a row that was written
\* for its document, and never gives way to one of an earlier row.
Replica == INSTANCE DocReplica WITH
    Slots <- Docs \X (1..MaxVectors), NoUser <- D!NoUser,
    user <- User, copy <- coll
Replicates == Replica!Spec

\* Nothing failed, and no document was written again while its vectors were in the batch:
\* such a batch is never stored.
Fine == faults = 0 /\ ~crashed /\ R!Storable(batch)

\* Every vector that is in the docstore comes into the collection of an expert that runs,
\* and the document into the context of a prompt that is about it.
Current(d) ==
    exists /\ D!Mine(d, User) /\ log[rows[d]].n > 0 =>
        /\ \A i \in 1..log[rows[d]].n : coll[<<d, i>>] >= rows[d]
        /\ d \in R!Context({d}, D!ListDocsByIds(Docs))
CatchesUp ==
    <>[](Fine /\ ~cl.disposed /\ rag \in {"syncing", "ready"} => \A d \in Docs : Current(d))

\* RagExpert.start ends, one way or the other.
StartEnds == <>[](Fine => rag \notin {"asking", "clearing", "syncing"})

\* A request that was sent is answered or times out, whatever happens to the connection;
\* one that waits for the connection ends when there is one, or none can be had.
RequestsSettle ==
    <>[](~crashed => \A r \in Reqs : req[r].at # "sent" /\ (Fine => req[r].at # "waiting"))

\* Every subscription the server keeps belongs to a socket that is open ("Clean up any
\* subscriptions associated with this client").
ClosedIsClean == via = "socket" /\ feed.on => sk[feed.sock].v # "closed"

\* Only the server with permissions lets a subscription outlive its socket.
ClosedIsCleanWithoutPerms == ~perms => ClosedIsClean

\* A connection that cannot be made again is retried, it does not end the process
\* ("Schedule reconnection on connection error if auto-reconnect is enabled").
ReconnectSurvives == ~crashed

\* A synchronization that nothing disturbs ends ("Syncs documents from a docstore to the
\* RagDB"), also when documents are written meanwhile.  The code does not keep it: a
\* document written again before the batch is full makes a batch that is never stored.
SyncEnds == <>[](faults = 0 /\ ~crashed => rag # "syncing")

\* The shape of the state.
TypeOK ==
    /\ D!TypeOK /\ C!TypeOK /\ R!TypeOK
    /\ R!Storable(batch) => Len(batch) <= RAG_BATCH_SIZE + faults
    /\ \A s \in Sockets : /\ sk[s].c \in {"none", "connecting", "open", "closed"}
                          /\ sk[s].v \in {"none", "open", "closing", "closed"}
                          /\ sk[s].c = "none" <=> s > cl.sock
    /\ Cardinality({s \in Sockets : sk[s].c \in {"connecting", "open"}}) <= 1
=============================================================================
