------------------------------- MODULE DocServer -------------------------------
(***************************************************************************)
(* DocStoreSQLiteServer (src/src/docstore/DocStoreSQLiteServer.ts): the    *)
(* documents of a DocStore over websockets.  The handlers of a connection  *)
(* are not serialized: each awaits the permission checks by itself.        *)
(* sk[s] is the socket s, seen from both ends.                             *)
(***************************************************************************)
EXTENDS Naturals, Sequences, FiniteSets

CONSTANTS Docs, Users, MaxVectors, MaxWrites, BATCH_SIZE, Sockets,
          Me  \* the user the client authenticates as, the owner of the docstore

VARIABLES exists, log, rows, feed,
          sk,      \* sk[s]: c and v, the state at the client and at the server; in and out,
                   \* what is under way to either; auth, ws.authenticated
          inHand,  \* [s, m]: messages whose handlers are awaiting something
          perms,   \* the server was given a DocStorePerms
          serving  \* the process listens

D == INSTANCE DocStore
storeVars == <<exists, log, rows>>

\* The user a connection is known by.
Who == IF perms THEN Me ELSE D!NoUser

NoSocket == [c |-> "none", v |-> "none", up |-> <<>>, down |-> <<>>, auth |-> FALSE]

Init ==
    /\ sk = [s \in Sockets |-> NoSocket]
    /\ inHand = {}
    /\ perms \in BOOLEAN
    /\ serving = TRUE

\* The connection handler.
Accepted(s) == [sk EXCEPT ![s].c = "open", ![s].v = "open", ![s].auth = ~perms]

\* sendResponse does nothing when the socket is not open.
Sent(k, s, items) ==
    IF k[s].v = "open" THEN [k EXCEPT ![s].down = @ \o items] ELSE k
Response(id, ok) == [type |-> "response", id |-> id, ok |-> ok]
Respond(k, s, id, ok) == sk' = Sent(k, s, <<Response(id, ok)>>)
RespondAndClose(k, s, id) ==
    sk' = [Sent(k, s, <<Response(id, FALSE)>>) EXCEPT
            ![s].v = IF @ = "open" THEN "closing" ELSE @]

-----------------------------------------------------------------------------
\* The handlers, of the message m of socket s, when the sockets are k.

\* handleAuthMessage.  A server without permissions knows no such message.
Auth(k, s, m, valid) ==
    /\ m.type = "auth"
    /\ CASE ~perms -> Respond(k, s, m.id, FALSE)
         [] perms /\ valid ->
              sk' = [Sent(k, s, <<Response(m.id, TRUE)>>) EXCEPT ![s].auth = TRUE]
         [] OTHER -> RespondAndClose(k, s, m.id)
    /\ UNCHANGED <<storeVars, feed>>

\* The methods of a request, and whether they succeed.
Reads(r, method, ok, found) == r.method = method /\ ok = found /\ UNCHANGED storeVars
handleUpsert(r, ok) ==
    /\ r.method = "upsert" /\ ok = exists
    /\ IF ok THEN D!Upsert(r.d, Who, r.n) ELSE UNCHANGED storeVars
handleDelete(r, ok) == r.method = "delete" /\ ok /\ D!Delete(r.d, Who)
handleCreateDocstore(r, ok) == r.method = "createDocstore" /\ ok /\ D!CreateDocstore
handleDeleteDocstore(r, ok) == r.method = "deleteDocstore" /\ ok /\ D!DeleteDocstore(Who)
handleGet(r, ok) == Reads(r, "get", ok, D!Get(r.d, Who))
handleGetDocstore(r, ok) == Reads(r, "getDocstore", ok, D!GetDocstore)
handleListDocstores(r, ok) == Reads(r, "listDocstores", ok, TRUE)
handleCountDocs(r, ok) == Reads(r, "countDocs", ok, TRUE)
handleListDocStoresByIds(r, ok) == Reads(r, "listDocStoresByIds", ok, TRUE)
handleListDocsByIds(r, ok) == Reads(r, "listDocsByIds", ok, TRUE)

\* handleRequestMessage.
Request(k, s, m) ==
    /\ m.type = "request"
    /\ \E ok \in BOOLEAN :
         /\ \/ handleUpsert(m, ok) \/ handleDelete(m, ok) \/ handleCreateDocstore(m, ok)
            \/ handleDeleteDocstore(m, ok) \/ handleGet(m, ok) \/ handleGetDocstore(m, ok)
            \/ handleListDocstores(m, ok) \/ handleCountDocs(m, ok)
            \/ handleListDocStoresByIds(m, ok) \/ handleListDocsByIds(m, ok)
         /\ Respond(k, s, m.id, ok)
    /\ UNCHANGED feed

\* handleSubscribe: the subscription id is the client's.
Subscribe(k, s, m) ==
    /\ m.type = "subscription"
    /\ IF feed.on
         THEN Respond(k, s, m.id, FALSE) /\ UNCHANGED feed
         ELSE D!Subscribe(s) /\ sk' = k
    /\ UNCHANGED storeVars

EndSubscription(k, s, m) ==
    /\ m.type = "end"
    /\ IF feed.on THEN D!CloseFeed ELSE UNCHANGED feed
    /\ Respond(k, s, m.id, feed.on)
    /\ UNCHANGED storeVars

Handle(k, s, m) ==
    Auth(k, s, m, TRUE) \/ Request(k, s, m) \/ Subscribe(k, s, m) \/ EndSubscription(k, s, m)

\* A message arrives: one that is not an auth message closes a socket that is not
\* authenticated, the others are handled, after a wait where there are permissions.
Message(s) ==
    LET m == Head(sk[s].up)
        k == [sk EXCEPT ![s].up = Tail(@)]
    IN
    /\ sk[s].v \in {"open", "closing"} /\ sk[s].up # <<>>
    /\ CASE ~sk[s].auth /\ m.type # "auth" ->
                RespondAndClose(k, s, m.id) /\ UNCHANGED <<storeVars, feed, inHand>>
         [] perms /\ (sk[s].auth \/ m.type = "auth") ->
                /\ inHand' = inHand \cup {[s |-> s, m |-> m]}
                /\ sk' = k /\ UNCHANGED <<storeVars, feed>>
         [] ~perms /\ (sk[s].auth \/ m.type = "auth") -> Handle(k, s, m) /\ UNCHANGED inHand

\* What a handler awaited succeeds, or throws.
Resume(h) == h \in inHand /\ inHand' = inHand \ {h} /\ Handle(sk, h.s, h.m)
Denied(h) ==
    /\ h \in inHand /\ inHand' = inHand \ {h}
    /\ IF h.m.type = "auth" THEN Auth(sk, h.s, h.m, FALSE)
       ELSE Respond(sk, h.s, h.m.id, FALSE) /\ UNCHANGED <<storeVars, feed>>

\* The callback of the subscription sends each document and the end of the feed.
Fetch ==
    /\ feed.on
    /\ \E page \in D!Pages(Who) :
          sk' = Sent(sk, feed.sock, D!Items(page)) /\ D!Advance(page)
    /\ UNCHANGED <<storeVars, inHand>>

\* Mutant: the subscriptions of the socket stay.
KeepFeed(s) == UNCHANGED feed
\* cleanupClientSubscriptions.
Cleanup(s) == IF feed.on /\ feed.sock = s THEN D!CloseFeed ELSE UNCHANGED feed

\* The close event of a socket the client left, and the ping that nobody answered.
Closed(s) ==
    /\ sk[s].v \in {"open", "closing"}
    /\ sk' = [sk EXCEPT ![s].v = "closed", ![s].up = <<>>]
    /\ Cleanup(s)
    /\ UNCHANGED <<storeVars, inHand>>

\* The token expired: setExpirationTimer.
Expires(s) ==
    /\ perms /\ sk[s].v = "open" /\ sk[s].auth
    /\ sk' = [sk EXCEPT ![s].v = "closing"]
    /\ UNCHANGED <<storeVars, feed, inHand>>

\* close: every subscription and socket; the command that runs the server then exits.
Close ==
    /\ serving /\ serving' = FALSE
    /\ D!CloseFeed
    /\ inHand' = {}
    /\ sk' = [s \in Sockets |-> IF sk[s].v \in {"open", "closing"}
                                  THEN [sk[s] EXCEPT !.v = "closed", !.up = <<>>] ELSE sk[s]]
    /\ UNCHANGED storeVars

Start == ~serving /\ serving' = TRUE /\ UNCHANGED <<storeVars, feed, inHand, sk>>
=============================================================================
