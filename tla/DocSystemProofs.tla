----------------------------- MODULE DocSystemProofs -----------------------------
(***************************************************************************)
(* What the document system guarantees for every docstore, any number of   *)
(* sockets, writes and faults, and batches of any size.                    *)
(***************************************************************************)
EXTENDS DocSystem, SequenceLemmas

Ends == {"c", "v", "up", "down", "auth"}

FeedPages == {"none", "first", "later"}

\* The shape of the variables that the invariant reads.
Shape ==
    /\ perms \in BOOLEAN
    /\ via \in {"local", "socket"}
    /\ DOMAIN sk = Sockets /\ \A s \in Sockets : DOMAIN sk[s] = Ends
    /\ DOMAIN feed = {"on", "sock", "last", "page"}
    /\ \A h \in inHand : h.s \in Sockets

\* Where nothing is awaited, a message is handled while its socket is open; and closing a
\* socket takes the subscription with it.
FeedIsOpen ==
    /\ ~perms => inHand = {}
    /\ via = "socket" /\ feed.on =>
         feed.sock \in Sockets /\ (~perms => sk[feed.sock].v # "closed")

FeedInv == Shape /\ FeedIsOpen

-----------------------------------------------------------------------------
\* The sockets as the server sees them.
SameEnds ==
    /\ DOMAIN sk' = Sockets /\ \A s \in Sockets : DOMAIN sk'[s] = Ends
    /\ \A s \in Sockets : sk'[s].v \in {sk[s].v, "open", "closing"}

Constants == UNCHANGED <<perms, via>>

\* No subscription is there at the start, and nothing is in hand.
LEMMA InitFeed == Init => FeedInv
<1> SUFFICES ASSUME Init PROVE FeedInv
  OBVIOUS
<1> QED
  BY DEF Init, D!Init, S!Init, S!NoSocket, D!NoFeed, FeedInv, Shape, FeedIsOpen, Ends

\* A step of the client leaves the other end of its sockets alone, or opens one.
LEMMA ClientSteps ==
    ASSUME FeedInv,
           \/ \E s \in Sockets : \/ Opens(s) \/ NotOpens(s) \/ ClientCloses(s)
                                 \/ ClientReceives(s) \/ AuthTimesOut(s)
           \/ \E r \in Reqs : Resumes(r) \/ TimesOut(r)
           \/ Reconnects \/ getDocstore \/ Asks \/ Disposes
    PROVE  SameEnds /\ Constants /\ UNCHANGED <<feed, inHand>>
<1> USE DEF Client, serverVars, Well, Fault, If, Constants, FeedInv, Shape, SameEnds, Ends
<1>1. ASSUME NEW s \in Sockets, Opens(s) PROVE SameEnds /\ Constants /\ UNCHANGED <<feed, inHand>>
  <2> DEFINE k == S!Accepted(s)
  <2>1. /\ DOMAIN k = Sockets /\ \A t \in Sockets : DOMAIN k[t] = Ends
        /\ \A t \in Sockets : k[t].v \in {sk[t].v, "open"}
    BY DEF S!Accepted
  <2>2. sk' \in {k, [k EXCEPT ![s].up = Append(@, [type |-> "auth", id |-> "auth"])]}
    BY <1>1 DEF Opens, C!Opened
  <2>3. SameEnds
    <3> HIDE DEF k
    <3> QED  BY <2>1, <2>2
  <2> QED  BY <1>1, <2>3 DEF Opens, C!Opened
<1>2. ASSUME NEW s \in Sockets, NotOpens(s) PROVE SameEnds /\ Constants /\ UNCHANGED <<feed, inHand>>
  BY <1>2 DEF NotOpens, C!NotOpened
<1>3. ASSUME NEW s \in Sockets, ClientCloses(s) PROVE SameEnds /\ Constants /\ UNCHANGED <<feed, inHand>>
  BY <1>3 DEF ClientCloses, C!Closed
<1>4. ASSUME NEW s \in Sockets, ClientReceives(s) PROVE SameEnds /\ Constants /\ UNCHANGED <<feed, inHand>>
  <2>1. PICK m : C!ReceiveAuth(s, m) \/ C!ReceiveResponse(s, m) \/ C!ReceiveItem(s, m)
    BY <1>4 DEF ClientReceives
  <2>2. C!Receives(s, m)
    BY <2>1 DEF C!ReceiveAuth, C!ReceiveResponse, C!ReceiveItem
  <2>3. UNCHANGED <<perms, via, feed, inHand>>
    BY <1>4 DEF ClientReceives
  <2> QED  BY <2>2, <2>3 DEF C!Receives
<1>5. ASSUME NEW s \in Sockets, AuthTimesOut(s) PROVE SameEnds /\ Constants /\ UNCHANGED <<feed, inHand>>
  BY <1>5 DEF AuthTimesOut, C!AuthTimeout
<1>6. ASSUME NEW r \in Reqs, Resumes(r) PROVE SameEnds /\ Constants /\ UNCHANGED <<feed, inHand>>
  BY <1>6 DEF Resumes, C!Resume, C!Sends
<1>7. ASSUME NEW r \in Reqs, TimesOut(r) PROVE SameEnds /\ Constants /\ UNCHANGED <<feed, inHand>>
  BY <1>7 DEF TimesOut, C!RequestTimeout
<1>8. CASE Reconnects
  BY <1>8 DEF Reconnects, C!Reconnect, C!Connects
<1>9. CASE getDocstore
  BY <1>9 DEF getDocstore, C!Open, C!Connects
<1>10. CASE Asks
  BY <1>10 DEF Asks, C!Ask, C!Sends
<1>11. CASE Disposes
  BY <1>11 DEF Disposes, C!Dispose
<1> QED
  BY <1>1, <1>2, <1>3, <1>4, <1>5, <1>6, <1>7, <1>8, <1>9, <1>10, <1>11

\* A step of the expert, or of another process, leaves the sockets' other ends alone, too;
\* it touches the subscription only where it has the database open itself.
LEMMA ExpertSteps ==
    ASSUME FeedInv,
           \/ Write \/ Begin \/ Found \/ StartFails \/ LocalFetches \/ Calls \/ Stores
           \/ StoreFails \/ Stop \/ \E cleared \in BOOLEAN : Syncs(cleared)
    PROVE  /\ SameEnds /\ Constants /\ UNCHANGED inHand
           /\ feed' = feed \/ (via = "local" /\ DOMAIN feed' = DOMAIN feed)
<1> DEFINE Goal == /\ SameEnds /\ Constants /\ UNCHANGED inHand
                   /\ feed' = feed \/ (via = "local" /\ DOMAIN feed' = DOMAIN feed)
<1> USE DEF Rag, serverVars, clientVars, Well, Fault, If, Constants, FeedInv, Shape, SameEnds, Ends
<1>1. CASE Write
  BY <1>1 DEF Write
<1>2. CASE Begin
  BY <1>2 DEF Begin, C!Open, C!Connects
<1>3. CASE Found
  BY <1>3 DEF Found
<1>4. CASE StartFails
  BY <1>4 DEF StartFails
<1>5. CASE LocalFetches
  BY <1>5 DEF LocalFetches, D!Advance
<1>6. CASE Calls
  BY <1>6 DEF Calls
<1>7. CASE Stores
  BY <1>7 DEF Stores
<1>8. CASE StoreFails
  BY <1>8 DEF StoreFails, D!CloseFeed, D!NoFeed
<1>9. CASE Stop
  BY <1>9 DEF Stop, D!CloseFeed, D!NoFeed, C!CloseSubscription
<1>10. CASE \E cleared \in BOOLEAN : Syncs(cleared)
  <2>1. UNCHANGED <<perms, via, inHand>>
    BY <1>10 DEF Syncs
  <2>2. CASE via = "local"
    <3>1. D!Subscribe(0) /\ sk' = sk
      BY <1>10, <2>2 DEF Syncs
    <3>2. DOMAIN feed' = DOMAIN feed
      BY <3>1 DEF D!Subscribe, D!NoFeed
    <3> QED  BY <2>1, <2>2, <3>1, <3>2
  <2>3. CASE via = "socket"
    <3>1. C!Subscribe /\ feed' = feed
      BY <1>10, <2>3 DEF Syncs
    <3> QED  BY <2>1, <3>1 DEF C!Subscribe
  <2> QED  BY <2>2, <2>3
<1> QED
  BY <1>1, <1>2, <1>3, <1>4, <1>5, <1>6, <1>7, <1>8, <1>9, <1>10

\* A step that closes no socket at the server keeps the invariant, unless it subscribes.
LEMMA NothingCloses ==
    ASSUME FeedInv, SameEnds, Constants, UNCHANGED inHand,
           feed' = feed \/ (via = "local" /\ DOMAIN feed' = DOMAIN feed)
    PROVE  FeedInv'
BY DEF FeedInv, Shape, FeedIsOpen, SameEnds, Constants

-----------------------------------------------------------------------------
\* What a handler does to the sockets k of the server; it may subscribe for its own.
Handled(k, s) ==
    /\ DOMAIN sk' = Sockets /\ \A t \in Sockets : DOMAIN sk'[t] = Ends
    /\ \A t \in Sockets : sk'[t].v \in {k[t].v, "closing"}
    /\ \A t \in Sockets : k[t].v = "closed" => sk'[t].v = "closed"
    /\ DOMAIN feed' = DOMAIN feed
    /\ feed'.on => feed' = feed \/ feed'.sock = s

\* Sent adds to what travels down a socket and touches nothing else.
LEMMA Sending ==
    ASSUME NEW k, DOMAIN k = Sockets, \A t \in Sockets : DOMAIN k[t] = Ends,
           NEW s \in Sockets, NEW items
    PROVE  /\ DOMAIN S!Sent(k, s, items) = Sockets
           /\ \A t \in Sockets : DOMAIN S!Sent(k, s, items)[t] = Ends
           /\ \A t \in Sockets : S!Sent(k, s, items)[t].v = k[t].v
BY DEF S!Sent, Ends

\* Every handler, and the refusal of a message, does no more than Handled says.
LEMMA Handlers ==
    ASSUME Shape, NEW k, DOMAIN k = Sockets, \A t \in Sockets : DOMAIN k[t] = Ends,
           NEW s \in Sockets, NEW m,
           \/ S!Handle(k, s, m)
           \/ S!Auth(k, s, m, FALSE)
           \/ S!Respond(k, s, m.id, FALSE) /\ UNCHANGED feed
    PROVE  Handled(k, s)
<1>1. ASSUME NEW valid \in BOOLEAN, S!Auth(k, s, m, valid) PROVE Handled(k, s)
  <2>1. CASE ~perms
    BY <1>1, <2>1, Sending DEF S!Auth, Shape, Handled, S!Respond, Ends
  <2>2. CASE perms /\ valid
    <3>1. PICK items : sk' = [S!Sent(k, s, items) EXCEPT ![s].auth = TRUE]
      BY <1>1, <2>2 DEF S!Auth
    <3>2. UNCHANGED feed
      BY <1>1 DEF S!Auth
    <3> QED  BY <3>1, <3>2, Sending DEF Shape, Handled, Ends
  <2>3. CASE perms /\ ~valid
    <3>1. PICK items : sk' = [S!Sent(k, s, items) EXCEPT
                                 ![s].v = IF @ = "open" THEN "closing" ELSE @]
      BY <1>1, <2>3 DEF S!Auth, S!RespondAndClose
    <3>2. UNCHANGED feed
      BY <1>1 DEF S!Auth
    <3> QED  BY <3>1, <3>2, Sending DEF Shape, Handled, Ends
  <2> QED  BY <2>1, <2>2, <2>3
<1>2. CASE S!Request(k, s, m)
  BY <1>2, Sending DEF S!Request, Shape, Handled, S!Respond, Ends
<1>3. CASE S!Subscribe(k, s, m)
  <2>1. CASE feed.on
    BY <1>3, <2>1, Sending DEF Shape, Handled, S!Respond, Ends, S!Subscribe
  <2>2. CASE ~feed.on
    <3>1. sk' = k /\ S!D!Subscribe(s)
      BY <1>3, <2>2 DEF S!Subscribe
    <3>2. DOMAIN feed' = {"on", "sock", "last", "page"} /\ feed'.sock = s
      BY <3>1 DEF S!D!Subscribe, S!D!NoFeed
    <3> QED  BY <3>1, <3>2 DEF Shape, Handled
  <2> QED  BY <2>1, <2>2
<1>4. CASE S!EndSubscription(k, s, m)
  BY <1>4, Sending DEF Shape, Handled, S!Respond, Ends, S!EndSubscription, S!D!CloseFeed, S!D!NoFeed
<1>5. CASE S!Respond(k, s, m.id, FALSE) /\ UNCHANGED feed
  BY <1>5, Sending DEF Shape, Handled, S!Respond, Ends
<1>6. S!Handle(k, s, m) \/ S!Auth(k, s, m, FALSE) => \E valid \in BOOLEAN :
        \/ S!Auth(k, s, m, valid) \/ S!Request(k, s, m)
        \/ S!Subscribe(k, s, m) \/ S!EndSubscription(k, s, m)
  BY Zenon DEF S!Handle
<1> QED  BY <1>1, <1>2, <1>3, <1>4, <1>5, <1>6, Zenon

\* A step of the server keeps the invariant.
LEMMA ServerSteps ==
    ASSUME FeedInv,
           \/ \E s \in Sockets : ServerCloses(s) \/ ServerReceives(s) \/ Expires(s)
           \/ \E h \in inHand : Handles(h) \/ Refuses(h)
           \/ ServerFetches \/ Stops \/ Restarts
    PROVE  FeedInv'
<1> USE DEF Server, Well, Fault, If
<1>1. ASSUME NEW s \in Sockets, ServerCloses(s) PROVE FeedInv'
  <2>1. S!Closed(s) /\ UNCHANGED <<perms, via, inHand>>
    BY <1>1 DEF ServerCloses, S!Closed
  <2>2. /\ sk' = [sk EXCEPT ![s].v = "closed", ![s].up = <<>>]
        /\ IF feed.on /\ feed.sock = s THEN S!D!CloseFeed ELSE UNCHANGED feed
    BY <2>1 DEF S!Closed, S!Cleanup
  <2>3. Shape'
    BY <2>1, <2>2 DEF FeedInv, Shape, Ends, S!D!CloseFeed, S!D!NoFeed
  <2>4. feed'.on => feed' = feed /\ feed.sock # s
    BY <2>2 DEF S!D!CloseFeed, S!D!NoFeed
  <2>5. \A t \in Sockets \ {s} : sk'[t].v = sk[t].v
    BY <2>2 DEF FeedInv, Shape
  <2> QED  BY <2>1, <2>3, <2>4, <2>5 DEF FeedInv, FeedIsOpen
<1>2. ASSUME NEW s \in Sockets, ServerReceives(s) PROVE FeedInv'
  <2> DEFINE m == Head(sk[s].up)
             k == [sk EXCEPT ![s].up = Tail(@)]
  <2>1. S!Message(s) /\ UNCHANGED <<perms, via>>
    BY <1>2 DEF ServerReceives
  <2>2. /\ DOMAIN k = Sockets /\ \A t \in Sockets : DOMAIN k[t] = Ends
        /\ \A t \in Sockets : k[t].v = sk[t].v
    BY DEF FeedInv, Shape, Ends
  <2> HIDE DEF k, m
  <2>3. CASE ~sk[s].auth /\ m.type # "auth"
    <3>1. /\ sk' = [S!Sent(k, s, <<S!Response(m.id, FALSE)>>) EXCEPT
                        ![s].v = IF @ = "open" THEN "closing" ELSE @]
          /\ UNCHANGED <<feed, inHand>>
      BY <2>1, <2>3, Zenon DEF S!Message, k, m, S!RespondAndClose
    <3>2. PICK items : sk' = [S!Sent(k, s, items) EXCEPT
                                 ![s].v = IF @ = "open" THEN "closing" ELSE @]
      BY <3>1
    <3>3. SameEnds
      BY <2>2, <3>2, Sending DEF SameEnds, Ends
    <3> QED  BY <2>1, <3>1, <3>3, NothingCloses DEF Constants
  <2>4. CASE perms /\ (sk[s].auth \/ m.type = "auth")
    <3>1. sk' = k /\ UNCHANGED feed /\ inHand' = inHand \cup {[s |-> s, m |-> m]}
      BY <2>1, <2>4 DEF S!Message, k, m
    <3> QED  BY <2>1, <2>2, <2>4, <3>1 DEF FeedInv, Shape, FeedIsOpen
  <2>5. CASE ~perms /\ (sk[s].auth \/ m.type = "auth")
    <3>1. S!Handle(k, s, m) /\ UNCHANGED inHand /\ sk[s].v \in {"open", "closing"}
      BY <2>1, <2>5 DEF S!Message, k, m
    <3>2. Handled(k, s)
      BY <2>2, <3>1, Handlers DEF FeedInv
    <3> QED  BY <2>1, <2>2, <2>5, <3>1, <3>2 DEF FeedInv, Shape, FeedIsOpen, Handled
  <2> QED  BY <2>3, <2>4, <2>5 DEF FeedInv, Shape
<1>3. ASSUME NEW s \in Sockets, Expires(s) PROVE FeedInv'
  <2>1. SameEnds /\ Constants /\ UNCHANGED <<feed, inHand>>
    BY <1>3 DEF Expires, S!Expires, SameEnds, Constants, FeedInv, Shape, Ends
  <2> QED  BY <2>1, NothingCloses
<1>4. ASSUME NEW h \in inHand, Handles(h) \/ Refuses(h) PROVE FeedInv'
  <2>1. UNCHANGED <<perms, via>> /\ perms
    BY <1>4 DEF Handles, Refuses, FeedInv, FeedIsOpen
  <2>2. h.s \in Sockets => Handled(sk, h.s)
    BY <1>4, Handlers DEF Handles, Refuses, S!Resume, S!Denied, FeedInv, Shape
  <2>3. h.s \in Sockets /\ inHand' \subseteq inHand
    BY <1>4 DEF Handles, Refuses, S!Resume, S!Denied, FeedInv, Shape
  <2> QED  BY <2>1, <2>2, <2>3 DEF FeedInv, Shape, FeedIsOpen, Handled
<1>5. CASE ServerFetches
  <2>1. PICK items : sk' = S!Sent(sk, feed.sock, items)
    BY <1>5 DEF ServerFetches, S!Fetch
  <2>2. feed.sock \in Sockets /\ DOMAIN feed' = DOMAIN feed /\ feed'.sock = feed.sock
    BY <1>5 DEF ServerFetches, S!Fetch, S!D!Advance, FeedInv, Shape, FeedIsOpen
  <2>3. UNCHANGED <<perms, via, inHand>> /\ feed'.on = feed.on
    BY <1>5 DEF ServerFetches, S!Fetch, S!D!Advance, FeedInv, Shape
  <2> QED  BY <2>1, <2>2, <2>3, Sending DEF FeedInv, Shape, FeedIsOpen
<1>6. CASE Stops
  BY <1>6 DEF Stops, S!Close, S!D!CloseFeed, S!D!NoFeed, FeedInv, Shape, FeedIsOpen, Ends
<1>7. CASE Restarts
  BY <1>7 DEF Restarts, S!Start, FeedInv, Shape, FeedIsOpen
<1> QED  BY <1>1, <1>2, <1>3, <1>4, <1>5, <1>6, <1>7

\* The invariant is inductive.
LEMMA FeedStep == FeedInv /\ [Next]_vars => FeedInv'
<1> SUFFICES ASSUME FeedInv, [Next]_vars PROVE FeedInv'
  OBVIOUS
<1>1. CASE UNCHANGED vars
  BY <1>1 DEF vars, storeVars, serverVars, clientVars, FeedInv, Shape, FeedIsOpen
<1>2. CASE \/ \E s \in Sockets : \/ Opens(s) \/ NotOpens(s) \/ ClientCloses(s)
                                 \/ ClientReceives(s) \/ AuthTimesOut(s)
           \/ \E r \in Reqs : Resumes(r) \/ TimesOut(r)
           \/ Reconnects \/ getDocstore \/ Asks \/ Disposes
  BY <1>2, ClientSteps, NothingCloses
<1>3. CASE \/ Write \/ Begin \/ Found \/ StartFails \/ LocalFetches \/ Calls \/ Stores
           \/ StoreFails \/ Stop \/ \E cleared \in BOOLEAN : Syncs(cleared)
  BY <1>3, ExpertSteps, NothingCloses
<1>4. CASE \/ \E s \in Sockets : ServerCloses(s) \/ ServerReceives(s) \/ Expires(s)
           \/ \E h \in inHand : Handles(h) \/ Refuses(h)
           \/ ServerFetches \/ Stops \/ Restarts
  BY <1>4, ServerSteps
<1> QED  BY <1>1, <1>2, <1>3, <1>4 DEF Next

\* A server without permissions never keeps a subscription for a socket that is closed,
\* however its clients connect, break off and reconnect: a message is handled while its
\* socket is open, and cleanupClientSubscriptions runs with the close event.
THEOREM ClosedSocketsAreClean == Spec => []ClosedIsCleanWithoutPerms
<1>1. FeedInv => ClosedIsCleanWithoutPerms
  BY DEF FeedInv, FeedIsOpen, ClosedIsCleanWithoutPerms, ClosedIsClean
<1> QED  BY InitFeed, FeedStep, <1>1, PTL DEF Spec

-----------------------------------------------------------------------------
(* The collection as a replica: the invariant.                              *)

\* What travels.
RowsWritten == [d : Docs, user : Users \cup {D!NoUser}, n : 0..MaxVectors]
OtherMethods ==
    {"get", "delete", "countDocs", "createDocstore", "deleteDocstore", "listDocsByIds",
     "listDocStoresByIds", "listDocstores", "getDocstore", "none"}
Queries ==
    [at : {"idle", "waiting", "stuck", "sent", "done", "failed"},
     method : {"upsert"}, d : Docs, n : 0..MaxVectors]
    \cup [at : {"idle", "waiting", "stuck", "sent", "done", "failed"},
          method : OtherMethods, d : Docs \cup {"none"}, n : {0}]
Requests ==
    [type : {"request"}, id : Reqs, method : {"upsert"}, d : Docs, n : 0..MaxVectors]
    \cup [type : {"request"}, id : Reqs, method : OtherMethods, d : Docs \cup {"none"}, n : {0}]
Subscription == [type |-> "subscription", id |-> "sub"]
Messages == Requests \cup [type : {"auth"}, id : {"auth"}] \cup {Subscription}
            \cup [type : {"end"}, id : {"sub"}]
DocItems == [type : {"doc"}, d : Docs, aid : Nat, n : 0..MaxVectors]
FeedItems == DocItems \cup {D!Eof}
Responses == [type : {"response"}, id : Reqs \cup {"auth", "sub"}, ok : BOOLEAN]
Items == FeedItems \cup Responses
Slots == Docs \X (1..MaxVectors)
Vectors == [at : Slots, aid : Nat]

StoreOK ==
    /\ exists \in BOOLEAN
    /\ log \in Seq(RowsWritten) /\ Len(log) <= MaxWrites
    /\ rows \in [Docs -> 0..Len(log)]
    /\ \A d \in Docs : rows[d] > 0 => log[rows[d]].d = d
    /\ feed \in [on : BOOLEAN, sock : {0} \cup Sockets, last : 0..Len(log), page : FeedPages]

SocketStates == [c : {"none", "connecting", "open", "closed"},
                 v : {"none", "open", "closing", "closed"},
                 up : Seq(Messages), down : Seq(Items), auth : BOOLEAN]
SocketsOK ==
    /\ sk \in [Sockets -> SocketStates]
    /\ inHand \subseteq [s : Sockets, m : Messages]
    /\ perms \in BOOLEAN /\ serving \in BOOLEAN /\ via \in {"local", "socket"} /\ faults \in Nat

\* One socket after the other.
Connections ==
    [sock : 0..Cardinality(Sockets), connected : BOOLEAN, authed : BOOLEAN,
     promise : {"none", "pending", "ready", "rejected"}, retry : BOOLEAN,
     key : BOOLEAN, disposed : BOOLEAN]
SocketOrder ==
    \A s \in Sockets : /\ sk[s].c = "none" <=> s > cl.sock
                       /\ s < cl.sock => sk[s].c = "closed"
                       /\ s = cl.sock /\ cl.retry => sk[s].c = "closed"
ClientOK ==
    /\ cl \in Connections /\ authing \subseteq Sockets
    /\ req \in [Reqs -> Queries]
    /\ sub \in BOOLEAN /\ crashed \in BOOLEAN
    /\ buffer \in Seq(FeedItems) /\ busy \in {"no", "yes", "stalled"}
    /\ SocketOrder

\* A batch that can be stored is over its size by the faults that left it full.
RagOK ==
    /\ rag \in {"idle", "asking", "clearing", "syncing", "ready", "failed", "stopped"}
    /\ batch \in Seq(Vectors) /\ left \in Seq(Vectors) /\ atEof \in BOOLEAN
    /\ coll \in [Slots -> Nat]
    /\ R!Storable(batch) => Len(batch) <= RAG_BATCH_SIZE + faults
    /\ busy # "yes" => left = <<>> /\ ~atEof
    /\ busy # "yes" /\ R!Storable(batch) => Len(batch) < RAG_BATCH_SIZE + faults

DocTypes == StoreOK /\ SocketsOK /\ ClientOK /\ RagOK

\* The documents in a queue, and in all that the server sent.
InQueue(q) == {x \in ToSet(q) : x.type = "doc"}
Down == UNION {InQueue(sk[s].down) : s \in Sockets}
Buffered == InQueue(buffer)

\* What is on its way to the collection comes from a row that was written.
Row(x) ==
    /\ x.aid \in 1..Len(log)
    /\ x.d = log[x.aid].d /\ x.n \in {0, log[x.aid].n}
    /\ User \in {D!NoUser, log[x.aid].user}
Copied(v) == Replica!Comes(v.at, v.aid)
Origins ==
    /\ \A x \in Down \cup Buffered : Row(x)
    /\ \A v \in ToSet(batch) \cup ToSet(left) : Copied(v)

\* And it is on its way in the order of the rows.
Ordered(q) ==
    \A i, j \in 1..Len(q) :
        i < j /\ q[i].type = "doc" /\ q[j].type = "doc" => q[i].aid <= q[j].aid
Before(X, Y) == \A x \in X : \A y \in Y : x.aid <= y.aid
Chain ==
    /\ \A c \in Slots : \A v \in ToSet(batch) \cup ToSet(left) \cup Buffered \cup Down : coll[c] <= v.aid
    /\ Before(ToSet(batch), ToSet(left) \cup Buffered \cup Down)
    /\ Before(ToSet(left), ToSet(left) \cup Buffered \cup Down)
    /\ Before(Buffered, Down)
    /\ Ordered(buffer) /\ \A s \in Sockets : Ordered(sk[s].down)
    /\ \A s, t \in Sockets : InQueue(sk[s].down) # {} /\ InQueue(sk[t].down) # {} => s = t
    /\ feed.on => /\ \A c \in Slots : coll[c] <= feed.last
                  /\ \A v \in ToSet(batch) \cup ToSet(left) \cup Buffered \cup Down : v.aid <= feed.last
                  /\ \A s \in Sockets : InQueue(sk[s].down) # {} => s = feed.sock
    /\ via = "local" => Down = {}

\* The expert subscribes once: where the message is, nothing has been copied.
SubAt(s, i) == i \in 1..Len(sk[s].up) /\ sk[s].up[i] = Subscription
SubInHand(h) == h \in inHand /\ h.m = Subscription
Fresh ==
    /\ ~feed.on /\ coll = [c \in Slots |-> 0]
    /\ batch = <<>> /\ left = <<>> /\ Buffered = {} /\ Down = {}
Once ==
    /\ \A s, t \in Sockets : \A i, j \in Nat : SubAt(s, i) /\ SubAt(t, j) => s = t /\ i = j
    /\ \A h, g \in inHand : SubInHand(h) /\ SubInHand(g) => h = g
    /\ \A s \in Sockets : \A i \in Nat : \A h \in inHand : ~(SubAt(s, i) /\ SubInHand(h))
    /\ \A s \in Sockets : \A i \in Nat : SubAt(s, i) => Fresh /\ via = "socket"
    /\ \A h \in inHand : SubInHand(h) => Fresh /\ via = "socket"
    /\ rag \in {"idle", "asking", "clearing"} =>
         /\ Fresh
         /\ \A s \in Sockets : \A i \in Nat : ~SubAt(s, i)
         /\ \A h \in inHand : ~SubInHand(h)

CopyInv == DocTypes /\ Origins /\ Chain /\ Once

-----------------------------------------------------------------------------
\* One queue after the other has nothing new, and nothing out of order.
Keeps(q, r) == InQueue(r) \subseteq InQueue(q) /\ (Ordered(q) => Ordered(r))

\* A queue that stays, is emptied, or loses its head.
LEMMA KeepsRest ==
    ASSUME NEW q \in Seq(Items)
    PROVE  /\ Keeps(q, q) /\ Keeps(q, <<>>)
           /\ q # <<>> => Keeps(q, Tail(q))
<1>1. Keeps(q, q)
  BY DEF Keeps
<1>2. Keeps(q, <<>>)
  <2>1. ToSet(<<>>) = {} /\ Len(<<>>) = 0
    BY DEF ToSet
  <2>2. InQueue(<<>>) = {}
    BY <2>1 DEF InQueue
  <2>3. Ordered(<<>>)
    BY <2>1 DEF Ordered
  <2> QED  BY <2>2, <2>3 DEF Keeps
<1>3. ASSUME q # <<>> PROVE Keeps(q, Tail(q))
  <2>1. /\ Len(Tail(q)) = Len(q) - 1 /\ Len(q) \in Nat
        /\ \A i \in 1..Len(Tail(q)) : Tail(q)[i] = q[i + 1]
        /\ ToSet(Tail(q)) \subseteq ToSet(q)
    BY <1>3, HeadTailElements, LenProperties
  <2>2. InQueue(Tail(q)) \subseteq InQueue(q)
    BY <2>1 DEF InQueue
  <2>3. ASSUME Ordered(q) PROVE Ordered(Tail(q))
    <3> SUFFICES ASSUME NEW i \in 1..Len(Tail(q)), NEW j \in 1..Len(Tail(q)), i < j,
                        Tail(q)[i].type = "doc", Tail(q)[j].type = "doc"
                 PROVE  Tail(q)[i].aid <= Tail(q)[j].aid
      BY DEF Ordered
    <3>1. i + 1 \in 1..Len(q) /\ j + 1 \in 1..Len(q) /\ i + 1 < j + 1
      BY <2>1
    <3>2. Tail(q)[i] = q[i + 1] /\ Tail(q)[j] = q[j + 1]
      BY <2>1
    <3> QED  BY <2>3, <3>1, <3>2 DEF Ordered
  <2> QED  BY <2>2, <2>3 DEF Keeps
<1> QED  BY <1>1, <1>2, <1>3

\* Two queues in order are one when the second is of later rows.
LEMMA Joined ==
    ASSUME NEW q \in Seq(Items), NEW r \in Seq(Items)
    PROVE  /\ q \o r \in Seq(Items)
           /\ InQueue(q \o r) = InQueue(q) \cup InQueue(r)
           /\ Ordered(q) /\ Ordered(r) /\ Before(InQueue(q), InQueue(r)) => Ordered(q \o r)
<1>1. q \o r \in Seq(Items) /\ ToSet(q \o r) = ToSet(q) \cup ToSet(r)
  BY ConcatElements
<1>2. InQueue(q \o r) = InQueue(q) \cup InQueue(r)
  BY <1>1 DEF InQueue
<1>3. ASSUME Ordered(q), Ordered(r), Before(InQueue(q), InQueue(r))
      PROVE  Ordered(q \o r)
  <2> DEFINE s == q \o r
  <2>1. /\ Len(s) = Len(q) + Len(r) /\ Len(q) \in Nat /\ Len(r) \in Nat
        /\ DOMAIN q = 1..Len(q) /\ DOMAIN r = 1..Len(r)
        /\ \A i \in 1..(Len(q) + Len(r)) : s[i] = IF i <= Len(q) THEN q[i] ELSE r[i - Len(q)]
    BY ConcatProperties, LenProperties
  <2> HIDE DEF s
  <2> SUFFICES ASSUME NEW i \in 1..Len(s), NEW j \in 1..Len(s), i < j,
                      s[i].type = "doc", s[j].type = "doc"
               PROVE  s[i].aid <= s[j].aid
    BY DEF Ordered, s
  <2>2. CASE j <= Len(q)
    <3>1. i \in 1..Len(q) /\ j \in 1..Len(q) /\ s[i] = q[i] /\ s[j] = q[j]
      BY <2>1, <2>2
    <3> QED  BY <1>3, <3>1 DEF Ordered
  <2>3. CASE ~(i <= Len(q))
    <3>1. /\ i - Len(q) \in 1..Len(r) /\ j - Len(q) \in 1..Len(r) /\ i - Len(q) < j - Len(q)
          /\ s[i] = r[i - Len(q)] /\ s[j] = r[j - Len(q)]
      BY <2>1, <2>3
    <3> QED  BY <1>3, <3>1 DEF Ordered
  <2>4. CASE i <= Len(q) /\ ~(j <= Len(q))
    <3>1. /\ i \in 1..Len(q) /\ j - Len(q) \in 1..Len(r)
          /\ s[i] = q[i] /\ s[j] = r[j - Len(q)]
      BY <2>1, <2>4
    <3>2. s[i] \in InQueue(q) /\ s[j] \in InQueue(r)
      BY <2>1, <3>1 DEF InQueue, ToSet
    <3> QED  BY <1>3, <3>2 DEF Before
  <2> QED  BY <2>2, <2>3, <2>4
<1> QED  BY <1>1, <1>2, <1>3

\* Responses are no documents.
LEMMA KeepsAnswered ==
    ASSUME NEW q \in Seq(Items), NEW r \in Seq(Responses)
    PROVE  q \o r \in Seq(Items) /\ Keeps(q, q \o r)
<1>1. r \in Seq(Items)
  BY SeqMonotonic DEF Items
<1>2. /\ \A i \in 1..Len(r) : r[i].type # "doc"
      /\ DOMAIN r = 1..Len(r)
  <2>1. \A i \in 1..Len(r) : r[i] \in Responses
    BY ElementOfSeq
  <2>2. \A x \in Responses : x.type # "doc"
    BY DEF Responses
  <2> QED  BY <2>1, <2>2, LenProperties
<1>3. InQueue(r) = {}
  BY <1>2 DEF InQueue, ToSet
<1>4. Ordered(r) /\ Before(InQueue(q), InQueue(r))
  BY <1>2, <1>3 DEF Ordered, Before
<1> QED  BY <1>1, <1>3, <1>4, Joined DEF Keeps

\* The end of the feed is no document either.
LEMMA KeepsEof ==
    ASSUME NEW q \in Seq(FeedItems)
    PROVE  Append(q, D!Eof) \in Seq(FeedItems) /\ Keeps(q, Append(q, D!Eof))
<1>1. D!Eof \in FeedItems /\ D!Eof.type # "doc"
  BY DEF FeedItems, D!Eof
<1>2. q \in Seq(Items) /\ <<D!Eof>> \in Seq(Items) /\ D!Eof \in Items
  BY <1>1, SeqMonotonic DEF Items
<1>3. Append(q, D!Eof) = q \o <<D!Eof>> /\ Append(q, D!Eof) \in Seq(FeedItems)
  BY <1>1, AppendProperties, AppendIsConcat
<1>4. Len(<<D!Eof>>) = 1 /\ ToSet(<<D!Eof>>) = {D!Eof}
  BY DEF ToSet
<1>5. InQueue(<<D!Eof>>) = {} /\ Ordered(<<D!Eof>>)
  BY <1>1, <1>4 DEF InQueue, Ordered
<1>6. Before(InQueue(q), InQueue(<<D!Eof>>))
  BY <1>5 DEF Before
<1> QED  BY <1>2, <1>3, <1>5, <1>6, Joined DEF Keeps

-----------------------------------------------------------------------------
\* The sockets are numbered from one.
LEMMA SocketNumbers ==
    /\ Cardinality(Sockets) \in Nat
    /\ \A s : s \in Sockets <=> s \in 1..Cardinality(Sockets)
BY DocAssumption, FS_CardinalityType

LEMMA Sizes ==
    /\ RAG_BATCH_SIZE \in Nat \ {0} /\ BATCH_SIZE \in Nat \ {0}
    /\ MaxVectors \in Nat /\ MaxVectors <= 65535
BY DocAssumption

\* The parts of a socket.
LEMMA SocketWith ==
    /\ \A r \in SocketStates : \A x \in {"none", "connecting", "open", "closed"} :
          [r EXCEPT !.c = x] \in SocketStates
    /\ \A r \in SocketStates : \A x \in {"none", "open", "closing", "closed"} :
          [r EXCEPT !.v = x] \in SocketStates
    /\ \A r \in SocketStates : \A x \in Seq(Messages) : [r EXCEPT !.up = x] \in SocketStates
    /\ \A r \in SocketStates : \A x \in Seq(Items) : [r EXCEPT !.down = x] \in SocketStates
    /\ \A r \in SocketStates : \A x \in BOOLEAN : [r EXCEPT !.auth = x] \in SocketStates
<1> DEFINE U == Seq(Messages)
           W == Seq(Items)
           T == [c : {"none", "connecting", "open", "closed"},
                 v : {"none", "open", "closing", "closed"}, up : U, down : W, auth : BOOLEAN]
<1>1. SocketStates = T
  BY DEF SocketStates
<1> HIDE DEF U, W
<1>2. /\ \A r \in T : \A x \in {"none", "connecting", "open", "closed"} : [r EXCEPT !.c = x] \in T
      /\ \A r \in T : \A x \in {"none", "open", "closing", "closed"} : [r EXCEPT !.v = x] \in T
      /\ \A r \in T : \A x \in U : [r EXCEPT !.up = x] \in T
      /\ \A r \in T : \A x \in W : [r EXCEPT !.down = x] \in T
      /\ \A r \in T : \A x \in BOOLEAN : [r EXCEPT !.auth = x] \in T
  OBVIOUS
<1> HIDE DEF T
<1> QED  BY <1>1, <1>2 DEF U, W

\* What a client sends that is not the subscription.
LEMMA Sendable ==
    /\ [type |-> "auth", id |-> "auth"] \in Messages \ {Subscription}
    /\ [type |-> "end", id |-> "sub"] \in Messages \ {Subscription}
    /\ Subscription \in Messages
    /\ \A r \in Reqs : \A q \in Queries :
          [type |-> "request", id |-> r, method |-> q.method, d |-> q.d, n |-> q.n]
             \in Messages \ {Subscription}
<1>1. [type |-> "auth", id |-> "auth"] \in Messages \ {Subscription}
  BY DEF Messages, Subscription
<1>2. [type |-> "end", id |-> "sub"] \in Messages \ {Subscription}
  BY DEF Messages, Subscription
<1>3. Subscription \in Messages
  BY DEF Messages
<1>4. ASSUME NEW r \in Reqs, NEW q \in Queries
      PROVE  [type |-> "request", id |-> r, method |-> q.method, d |-> q.d, n |-> q.n]
                \in Messages \ {Subscription}
  <2> DEFINE m == [type |-> "request", id |-> r, method |-> q.method, d |-> q.d, n |-> q.n]
  <2>1. m \in Requests
    BY DEF Queries, Requests
  <2>2. m # Subscription
    <3>1. m.type # Subscription.type
      BY DEF Subscription
    <3> QED  BY <3>1
  <2> QED  BY <2>1, <2>2 DEF Messages
<1> QED  BY <1>1, <1>2, <1>3, <1>4

\* What is written.
LEMMA InputsTyped ==
    \A v \in {"local", "socket"} : \A w \in Inputs[v] :
       w \in [d : Docs, user : Users, n : 0..MaxVectors]
<1>1. Inputs \in [{"local", "socket"} -> SUBSET [d : Docs, user : Users, n : 0..MaxVectors]]
  BY DocAssumption
<1>2. ASSUME NEW v \in {"local", "socket"}
      PROVE  Inputs[v] \in SUBSET [d : Docs, user : Users, n : 0..MaxVectors]
  BY <1>1
<1> QED  BY <1>2

\* The requests that are made.
LEMMA Asked ==
    /\ [at |-> "waiting", method |-> "listDocstores", d |-> "none", n |-> 0] \in Queries
    /\ [at |-> "waiting", method |-> "getDocstore", d |-> "none", n |-> 0] \in Queries
    /\ \A c \in Commands : [at |-> "idle", method |-> c.method, d |-> c.d, n |-> c.n] \in Queries
    /\ \A q \in Queries : \A x \in {"idle", "waiting", "stuck", "sent", "done", "failed"} :
          [q EXCEPT !.at = x] \in Queries
<1>1. /\ [at |-> "waiting", method |-> "listDocstores", d |-> "none", n |-> 0] \in Queries
      /\ [at |-> "waiting", method |-> "getDocstore", d |-> "none", n |-> 0] \in Queries
  BY DEF Queries, OtherMethods
<1>2. ASSUME NEW c \in Commands
      PROVE  [at |-> "idle", method |-> c.method, d |-> c.d, n |-> c.n] \in Queries
  <2>1. \A w \in Inputs["socket"] : w.d \in Docs /\ w.n \in 0..MaxVectors
    BY InputsTyped
  <2>2. \/ \E w \in Inputs["socket"] : c \in {addDoc(w.d, w.n), deleteDoc(w.d), getDoc(w.d)}
        \/ c \in {countDocs, createDocstore, removeDocstore, context, listDocStoresByIds}
    BY DEF Commands
  <2>3. CASE \E w \in Inputs["socket"] : c \in {addDoc(w.d, w.n), deleteDoc(w.d), getDoc(w.d)}
    <3>1. PICK w \in Inputs["socket"] : c \in {addDoc(w.d, w.n), deleteDoc(w.d), getDoc(w.d)}
      BY <2>3
    <3>2. w.d \in Docs /\ w.n \in 0..MaxVectors
      BY <2>1
    <3>3. CASE c = addDoc(w.d, w.n)
      BY <3>2, <3>3 DEF addDoc, Queries
    <3>4. CASE c = deleteDoc(w.d)
      BY <3>2, <3>4 DEF deleteDoc, Queries, OtherMethods
    <3>5. CASE c = getDoc(w.d)
      BY <3>2, <3>5 DEF getDoc, Queries, OtherMethods
    <3> QED  BY <3>1, <3>3, <3>4, <3>5
  <2>4. CASE c \in {countDocs, createDocstore, removeDocstore, context, listDocStoresByIds}
    BY <2>4 DEF countDocs, createDocstore, removeDocstore, context, listDocStoresByIds,
                Queries, OtherMethods
  <2> QED  BY <2>2, <2>3, <2>4
<1>3. ASSUME NEW q \in Queries, NEW x \in {"idle", "waiting", "stuck", "sent", "done", "failed"}
      PROVE  [q EXCEPT !.at = x] \in Queries
  BY DEF Queries
<1> QED  BY <1>1, <1>2, <1>3

\* The steps that start nothing: nothing new is on its way, and no feed begins.
StoreStep ==
    \/ UNCHANGED storeVars
    \/ \E d \in Docs : \E u \in Users \cup {D!NoUser} : \E n \in 0..MaxVectors : D!Upsert(d, u, n)
    \/ /\ log' = log /\ exists' \in BOOLEAN
       /\ rows' = [d \in Docs |-> rows'[d]] /\ \A d \in Docs : rows'[d] \in {0, rows[d]}
Quiet ==
    /\ StoreStep
    /\ feed' \in {feed, D!NoFeed}
    /\ \A s \in Sockets : Keeps(sk[s].down, sk'[s].down)
    /\ Keeps(buffer, buffer')
    /\ UNCHANGED <<batch, coll, perms, via>> /\ left' \in {left, <<>>}

\* And they move no subscription.
UpStep(q, r) ==
    r = q \/ r = <<>> \/ \E m \in Messages \ {Subscription} : r = Append(q, m)
NoSubscription ==
    /\ \A s \in Sockets : UpStep(sk[s].up, sk'[s].up)
    /\ inHand' \subseteq inHand
    /\ rag' \in {"idle", "asking", "clearing"} => rag \in {"idle", "asking", "clearing"}

\* A step of the client leaves the rest as it is.
Starts ==
    /\ UNCHANGED <<batch, left, atEof, coll>>
    /\ rag' \in {"idle", "asking", "clearing", "syncing", "ready", "failed", "stopped"}
    /\ rag' \in {"idle", "asking", "clearing"} => rag \in {"idle", "asking", "clearing"}
Elsewhere ==
    /\ UNCHANGED <<storeVars, feed, serverVars, via>>
    /\ UNCHANGED ragVars \/ Starts
    /\ faults' \in {faults, faults + 1}
    /\ busy' = busy \/ (busy = "stalled" /\ busy' = "no")

\* A batch that stays fits in it, also after another fault.
LEMMA SameBatch ==
    ASSUME DocTypes, batch' = batch, faults' \in {faults, faults + 1}
    PROVE  /\ (R!Storable(batch) => Len(batch) <= RAG_BATCH_SIZE + faults)'
           /\ (busy # "yes" => (R!Storable(batch) => Len(batch) < RAG_BATCH_SIZE + faults)')
           /\ faults' # faults => (R!Storable(batch) => Len(batch) < RAG_BATCH_SIZE + faults)'
<1>1. /\ RAG_BATCH_SIZE \in Nat /\ faults \in Nat /\ Len(batch) \in Nat
      /\ R!Storable(batch) => Len(batch) <= RAG_BATCH_SIZE + faults
      /\ busy # "yes" /\ R!Storable(batch) => Len(batch) < RAG_BATCH_SIZE + faults
  BY Sizes, LenProperties DEF DocTypes, SocketsOK, RagOK
<1>2. R!Storable(batch)' = R!Storable(batch)
  BY DEF R!Storable
<1> QED  BY <1>1, <1>2

LEMMA ElsewhereTypes ==
    ASSUME DocTypes, Elsewhere, sk' \in [Sockets -> SocketStates], ClientOK'
    PROVE  DocTypes'
<1>1. StoreOK'
  BY DEF DocTypes, StoreOK, Elsewhere, storeVars
<1>2. SocketsOK'
  BY DEF DocTypes, SocketsOK, Elsewhere, serverVars
<1>3. RagOK'
  <2>1. /\ RAG_BATCH_SIZE \in Nat /\ faults \in Nat /\ faults' >= faults /\ faults' \in Nat
        /\ Len(batch) \in Nat
    <3>1. RAG_BATCH_SIZE \in Nat
      BY Sizes
    <3>2. Len(batch) \in Nat
      BY LenProperties DEF DocTypes, RagOK
    <3>3. faults \in Nat /\ faults' \in {faults, faults + 1}
      BY DEF DocTypes, SocketsOK, Elsewhere
    <3> QED  BY <3>1, <3>2, <3>3
  <2>2. /\ UNCHANGED <<batch, left, atEof, coll>>
        /\ rag' \in {"idle", "asking", "clearing", "syncing", "ready", "failed", "stopped"}
    BY DEF Elsewhere, ragVars, Starts, DocTypes, RagOK
  <2>3. busy' # "yes" => busy # "yes"
    BY DEF Elsewhere
  <2> QED  BY <2>1, <2>2, <2>3, SameBatch DEF DocTypes, RagOK
<1> QED  BY <1>1, <1>2, <1>3 DEF DocTypes

LEMMA ClientKeeps ==
    ASSUME DocTypes, Elsewhere,
           sk' \in [Sockets -> SocketStates], ClientOK',
           \A s \in Sockets : Keeps(sk[s].down, sk'[s].down) /\ UpStep(sk[s].up, sk'[s].up),
           Keeps(buffer, buffer')
    PROVE  DocTypes' /\ Quiet /\ NoSubscription
<1>1. DocTypes'
  BY ElsewhereTypes
<1>2. Quiet
  BY DEF Quiet, Elsewhere, StoreStep, storeVars, serverVars, ragVars, Starts
<1>3. NoSubscription
  BY DEF NoSubscription, Elsewhere, serverVars, ragVars, Starts
<1> QED  BY <1>1, <1>2, <1>3

\* Sockets that keep what is on its way.
LEMMA SameQueues ==
    ASSUME DocTypes, \A s \in Sockets : sk'[s].up = sk[s].up /\ sk'[s].down = sk[s].down
    PROVE  \A s \in Sockets : Keeps(sk[s].down, sk'[s].down) /\ UpStep(sk[s].up, sk'[s].up)
<1>1. \A s \in Sockets : sk[s].down \in Seq(Items)
  BY DEF DocTypes, SocketsOK, SocketStates
<1> QED  BY <1>1, KeepsRest DEF UpStep

LEMMA SameBuffer ==
    ASSUME DocTypes
    PROVE  /\ Keeps(buffer, buffer) /\ Keeps(buffer, <<>>)
           /\ <<>> \in Seq(FeedItems) /\ buffer \in Seq(Items)
<1>1. buffer \in Seq(FeedItems)
  BY DEF DocTypes, ClientOK
<1>2. buffer \in Seq(Items)
  BY <1>1, SeqMonotonic DEF Items
<1> QED  BY <1>2, KeepsRest, EmptySeq

\* A socket that is closed at the client.
LEMMA SocketCloses ==
    ASSUME DocTypes, NEW s \in Sockets,
           DOMAIN sk' = Sockets, sk' = [t \in DOMAIN sk' |-> sk'[t]],
           \A t \in Sockets : t # s => sk'[t] = sk[t],
           \/ sk'[s] = [[sk[s] EXCEPT !.c = "closed"] EXCEPT !.down = <<>>]
           \/ sk'[s] = [sk[s] EXCEPT !.c = "closed"]
    PROVE  /\ sk' \in [Sockets -> SocketStates]
           /\ \A t \in Sockets : Keeps(sk[t].down, sk'[t].down) /\ UpStep(sk[t].up, sk'[t].up)
           /\ \A t \in Sockets : sk'[t].c = IF t = s THEN "closed" ELSE sk[t].c
<1>1. /\ \A t \in Sockets : sk[t] \in SocketStates
      /\ <<>> \in Seq(Items)
  BY EmptySeq DEF DocTypes, SocketsOK
<1>2. sk'[s] \in SocketStates
  <2>1. [sk[s] EXCEPT !.c = "closed"] \in SocketStates
    BY <1>1, SocketWith
  <2>2. [[sk[s] EXCEPT !.c = "closed"] EXCEPT !.down = <<>>] \in SocketStates
    BY <1>1, <2>1, SocketWith
  <2> QED  BY <2>1, <2>2
<1>3. sk' \in [Sockets -> SocketStates]
  <2>1. \A t \in Sockets : sk'[t] \in SocketStates
    BY <1>1, <1>2
  <2> QED  BY <2>1
<1>4. \A t \in Sockets : DOMAIN sk[t] = Ends /\ sk[t].down \in Seq(Items)
  BY <1>1 DEF SocketStates, Ends
<1>5. /\ sk'[s].up = sk[s].up /\ sk'[s].down \in {sk[s].down, <<>>}
      /\ sk'[s].c = "closed"
  <2>1. DOMAIN sk[s] = {"c", "v", "up", "down", "auth"}
    BY <1>4 DEF Ends
  <2> QED  BY <2>1
<1>6. \A t \in Sockets : Keeps(sk[t].down, sk'[t].down)
  BY <1>4, <1>5, KeepsRest
<1> QED  BY <1>3, <1>5, <1>6 DEF UpStep

\* A message that a client sends on socket x, if there is one.
Adds(k, x, m) == [k EXCEPT ![x].up = Append(@, m)]
LEMMA MessageSent ==
    ASSUME DocTypes, NEW k \in [Sockets -> SocketStates], NEW x, NEW m \in Messages,
           sk' = Adds(k, x, m),
           \A t \in Sockets : k[t].up = sk[t].up /\ k[t].down = sk[t].down
    PROVE  /\ sk' \in [Sockets -> SocketStates]
           /\ \A t \in Sockets : /\ sk'[t].c = k[t].c /\ sk'[t].down = sk[t].down
                                 /\ Keeps(sk[t].down, sk'[t].down)
           /\ \A t \in Sockets : sk'[t].up = IF t = x THEN Append(sk[t].up, m) ELSE sk[t].up
           /\ m # Subscription => \A t \in Sockets : UpStep(sk[t].up, sk'[t].up)
<1>1. \A t \in Sockets : sk'[t] = IF t = x THEN [k[t] EXCEPT !.up = Append(@, m)] ELSE k[t]
  BY DEF Adds
<1>2. \A t \in Sockets : k[t] \in SocketStates
  OBVIOUS
<1>3. \A t \in Sockets : k[t].up \in Seq(Messages) /\ k[t].down \in Seq(Items)
  BY <1>2 DEF SocketStates
<1>4. \A t \in Sockets : Append(k[t].up, m) \in Seq(Messages)
  BY <1>3, AppendProperties
<1>5. \A t \in Sockets : sk'[t] \in SocketStates
  BY ZenonT(60), <1>1, <1>2, <1>4 DEF SocketStates
<1>6. sk' \in [Sockets -> SocketStates]
  <2>1. DOMAIN sk' = Sockets /\ sk' = [t \in DOMAIN sk' |-> sk'[t]]
    BY DEF Adds
  <2> QED  BY <1>5, <2>1
<1>7. \A t \in Sockets : /\ sk'[t].c = k[t].c /\ sk'[t].down = sk[t].down
                         /\ sk'[t].up = IF t = x THEN Append(sk[t].up, m) ELSE sk[t].up
  <2>1. \A t \in Sockets : DOMAIN k[t] = {"c", "v", "up", "down", "auth"}
    BY <1>2 DEF SocketStates
  <2> QED  BY <1>1, <2>1
<1>8. \A t \in Sockets : Keeps(sk[t].down, sk'[t].down)
  BY <1>3, <1>7, KeepsRest
<1>9. m # Subscription => \A t \in Sockets : UpStep(sk[t].up, sk'[t].up)
  BY <1>7 DEF UpStep
<1> QED  BY <1>6, <1>7, <1>8, <1>9

\* One of the sockets is the one in use: only that one connects, opens or closes.
LEMMA OrderKept ==
    ASSUME DocTypes, NEW s \in Sockets, sk[s].c \notin {"none", "closed"},
           cl'.sock = cl.sock, NEW x \in {"open", "closed"},
           \A t \in Sockets : sk'[t].c = IF t = s THEN x ELSE sk[t].c,
           cl'.retry => cl.retry \/ x = "closed"
    PROVE  SocketOrder'
<1>1. /\ \A t \in Sockets : /\ sk[t].c = "none" <=> t > cl.sock
                            /\ t < cl.sock => sk[t].c = "closed"
                            /\ t = cl.sock /\ cl.retry => sk[t].c = "closed"
      /\ cl.sock \in Nat
  BY SocketNumbers DEF DocTypes, ClientOK, SocketOrder, Connections
<1>2. s = cl.sock /\ ~cl.retry
  <2>1. s \in Nat
    BY SocketNumbers
  <2> QED  BY <1>1, <2>1
<1>3. \A t \in Sockets : /\ sk'[t].c = "none" <=> t > cl.sock
                         /\ t < cl.sock => sk'[t].c = "closed"
  BY <1>1, <1>2
<1>4. cl'.retry => sk'[s].c = "closed"
  BY <1>2
<1> QED  BY <1>2, <1>3, <1>4 DEF SocketOrder

LEMMA OrderSame ==
    ASSUME DocTypes, \A t \in Sockets : sk'[t].c = sk[t].c, cl'.sock = cl.sock, cl'.retry = cl.retry
    PROVE  SocketOrder'
BY DEF DocTypes, ClientOK, SocketOrder

\* A reject leaves requests and connection as they should be.
LEMMA Rejecting ==
    ASSUME DocTypes, C!Rejected
    PROVE  req' \in [Reqs -> Queries] /\ crashed' \in BOOLEAN
<1>1. req \in [Reqs -> Queries] /\ crashed \in BOOLEAN
  BY DEF DocTypes, ClientOK
<1>2. CASE cl.promise = "pending"
  <2>1. req' = C!Each(C!Waiting, "failed") /\ crashed' \in BOOLEAN
    BY <1>2 DEF C!Rejected
  <2>2. \A r \in Reqs : [req[r] EXCEPT !.at = "failed"] \in Queries /\ req[r] \in Queries
    BY <1>1, Asked
  <2> QED  BY <2>1, <2>2 DEF C!Each
<1>3. CASE cl.promise # "pending"
  BY <1>1, <1>3 DEF C!Rejected
<1> QED  BY <1>2, <1>3

LEMMA PromiseAfter == DocTypes => C!AfterReject \in {"none", "pending", "ready", "rejected"}
BY DEF DocTypes, ClientOK, Connections, C!AfterReject

LEMMA RetryAfter == DocTypes => C!Retries \in BOOLEAN
BY DEF DocTypes, ClientOK, Connections, C!Retries

\* A connection is made.
LEMMA OpensQuiet ==
    ASSUME DocTypes, NEW s \in Sockets, Opens(s)
    PROVE  DocTypes' /\ Quiet /\ NoSubscription
<1> DEFINE k == S!Accepted(s)
<1>1. /\ sk[s].c = "connecting"
      /\ cl' = [cl EXCEPT !.connected = TRUE, !.promise = IF cl.key THEN @ ELSE "ready"]
      /\ authing' \in {authing, authing \cup {s}}
      /\ sk' \in {k, [k EXCEPT ![s].up = Append(@, [type |-> "auth", id |-> "auth"])]}
      /\ UNCHANGED <<req, crashed, sub, buffer, busy>>
      /\ Elsewhere
  BY DEF Opens, Client, Well, C!Opened, C!Idle, Elsewhere
<1>2. \A t \in Sockets : sk[t] \in SocketStates
  BY DEF DocTypes, SocketsOK
<1>0. /\ DOMAIN k = Sockets /\ k = [t \in DOMAIN k |-> k[t]]
      /\ \A t \in Sockets \ {s} : k[t] = sk[t]
      /\ k[s] = [[[sk[s] EXCEPT !.c = "open"] EXCEPT !.v = "open"] EXCEPT !.auth = ~perms]
  BY DEF DocTypes, SocketsOK, S!Accepted
<1>3. k \in [Sockets -> SocketStates]
  <2>1. (~perms) \in BOOLEAN
    BY DEF DocTypes, SocketsOK
  <2>2. /\ [sk[s] EXCEPT !.c = "open"] \in SocketStates
        /\ [[sk[s] EXCEPT !.c = "open"] EXCEPT !.v = "open"] \in SocketStates
    BY <1>2, SocketWith
  <2>3. [[[sk[s] EXCEPT !.c = "open"] EXCEPT !.v = "open"] EXCEPT !.auth = ~perms] \in SocketStates
    BY <2>1, <2>2, SocketWith
  <2> HIDE DEF k
  <2>4. \A t \in Sockets : k[t] \in SocketStates
    BY <1>0, <1>2, <2>3
  <2> QED  BY <1>0, <2>4
<1>4. \A t \in Sockets : /\ k[t].up = sk[t].up /\ k[t].down = sk[t].down
                         /\ k[t].c = IF t = s THEN "open" ELSE sk[t].c
  <2> HIDE DEF k
  <2>1. DOMAIN sk[s] = Ends
    BY <1>2 DEF SocketStates, Ends
  <2> QED  BY <1>0, <2>1 DEF Ends
<1> HIDE DEF k
<1>5. /\ sk' \in [Sockets -> SocketStates]
      /\ \A t \in Sockets : Keeps(sk[t].down, sk'[t].down) /\ UpStep(sk[t].up, sk'[t].up)
      /\ \A t \in Sockets : sk'[t].c = IF t = s THEN "open" ELSE sk[t].c
  <2>1. CASE sk' = k
    BY <1>3, <1>4, <2>1, SameQueues
  <2>2. CASE sk' = [k EXCEPT ![s].up = Append(@, [type |-> "auth", id |-> "auth"])]
    <3> DEFINE m == [type |-> "auth", id |-> "auth"]
    <3>1. m \in Messages /\ m # Subscription /\ sk' = Adds(k, s, m)
      BY <2>2, Sendable DEF Adds
    <3> HIDE DEF m
    <3>2. /\ sk' \in [Sockets -> SocketStates]
          /\ \A t \in Sockets : sk'[t].c = k[t].c /\ Keeps(sk[t].down, sk'[t].down)
          /\ \A t \in Sockets : UpStep(sk[t].up, sk'[t].up)
      BY <1>3, <1>4, <3>1, MessageSent
    <3> QED  BY <1>4, <3>2
  <2> QED  BY <1>1, <2>1, <2>2
<1>6. cl' \in Connections /\ cl'.sock = cl.sock /\ cl'.retry = cl.retry
  BY <1>1 DEF DocTypes, ClientOK, Connections
<1>7. SocketOrder'
  BY <1>1, <1>5, <1>6, OrderKept
<1>8. ClientOK'
  BY <1>1, <1>6, <1>7 DEF DocTypes, ClientOK
<1> QED  BY <1>1, <1>5, <1>8, ClientKeeps, SameBuffer

\* A connection is not made, or ends.
LEMMA ClosesQuiet ==
    ASSUME DocTypes, NEW s \in Sockets, NotOpens(s) \/ ClientCloses(s)
    PROVE  DocTypes' /\ Quiet /\ NoSubscription
<1>1. /\ sk[s].c \in {"connecting", "open"}
      /\ sk' \in {[sk EXCEPT ![s].c = "closed"], [sk EXCEPT ![s].c = "closed", ![s].down = <<>>]}
      /\ UNCHANGED <<sub, buffer, busy, authing>>
      /\ Elsewhere
  BY DEF NotOpens, ClientCloses, Client, Well, If, Fault, C!NotOpened, C!Closed, C!Idle, Elsewhere
<1>2. /\ DOMAIN sk' = Sockets /\ sk' = [t \in DOMAIN sk' |-> sk'[t]]
      /\ \A t \in Sockets : t # s => sk'[t] = sk[t]
      /\ \/ sk'[s] = [[sk[s] EXCEPT !.c = "closed"] EXCEPT !.down = <<>>]
         \/ sk'[s] = [sk[s] EXCEPT !.c = "closed"]
  <2>1. sk = [t \in Sockets |-> sk[t]] /\ DOMAIN sk = Sockets
    BY DEF DocTypes, SocketsOK
  <2>2. CASE sk' = [sk EXCEPT ![s].c = "closed"]
    BY <2>1, <2>2
  <2>3. CASE sk' = [sk EXCEPT ![s].c = "closed", ![s].down = <<>>]
    BY <2>1, <2>3
  <2> QED  BY <1>1, <2>2, <2>3
<1>3. /\ sk' \in [Sockets -> SocketStates]
      /\ \A t \in Sockets : Keeps(sk[t].down, sk'[t].down) /\ UpStep(sk[t].up, sk'[t].up)
      /\ \A t \in Sockets : sk'[t].c = IF t = s THEN "closed" ELSE sk[t].c
  BY <1>2, SocketCloses
<1>4. /\ req' \in [Reqs -> Queries] /\ crashed' \in BOOLEAN
      /\ cl' \in Connections /\ cl'.sock = cl.sock
  <2>1. CASE NotOpens(s)
    <3>1. /\ C!Rejected
          /\ cl' = [cl EXCEPT !.promise = C!AfterReject, !.retry = C!Retries, !.authed = FALSE]
      BY <2>1 DEF NotOpens, Client, C!NotOpened
    <3> QED  BY <3>1, Rejecting, PromiseAfter, RetryAfter DEF DocTypes, ClientOK, Connections
  <2>2. CASE ClientCloses(s)
    <3>1. /\ UNCHANGED <<req, crashed>>
          /\ cl' = [cl EXCEPT !.connected = FALSE, !.authed = FALSE, !.retry = C!Retries]
      BY <2>2 DEF ClientCloses, Client, C!Closed
    <3> QED  BY <3>1, RetryAfter DEF DocTypes, ClientOK, Connections
  <2> QED  BY <2>1, <2>2
<1>5. SocketOrder'
  BY <1>1, <1>3, <1>4, OrderKept
<1>6. ClientOK'
  BY <1>1, <1>4, <1>5 DEF DocTypes, ClientOK
<1> QED  BY <1>1, <1>3, <1>6, ClientKeeps, SameBuffer

\* What a client receives: an answer, or an item of the feed, which joins the buffer while
\* there is a subscription.
Receives(s) ==
    /\ sk[s].down # <<>>
    /\ sk' \in [Sockets -> SocketStates]
    /\ \A t \in Sockets : /\ sk'[t].c = sk[t].c /\ sk'[t].up = sk[t].up
                          /\ sk'[t].down = IF t = s THEN Tail(sk[t].down) ELSE sk[t].down

LEMMA ReceivesTail ==
    ASSUME DocTypes, NEW s \in Sockets, NEW m, C!Receives(s, m)
    PROVE  /\ Receives(s)
           /\ m = Head(sk[s].down) /\ m \in Items
           /\ \A t \in Sockets : Keeps(sk[t].down, sk'[t].down) /\ UpStep(sk[t].up, sk'[t].up)
<1>1. /\ sk[s].down # <<>> /\ m = Head(sk[s].down)
      /\ sk' = [sk EXCEPT ![s].down = Tail(@)]
  BY DEF C!Receives
<1>2. /\ \A t \in Sockets : /\ sk[t] \in SocketStates /\ sk[t].down \in Seq(Items)
                            /\ DOMAIN sk[t] = {"c", "v", "up", "down", "auth"}
      /\ DOMAIN sk = Sockets
  <2>1. \A t \in Sockets : sk[t] \in SocketStates
    BY DEF DocTypes, SocketsOK
  <2>2. DOMAIN sk = Sockets
    BY DEF DocTypes, SocketsOK
  <2> QED  BY <2>1, <2>2 DEF SocketStates
<1>3. Tail(sk[s].down) \in Seq(Items) /\ m \in Items
  BY <1>1, <1>2, HeadTailElements
<1>4. \A t \in Sockets : sk'[t] = IF t = s THEN [sk[t] EXCEPT !.down = Tail(sk[s].down)] ELSE sk[t]
  BY <1>1, <1>2
<1>5. \A t \in Sockets : sk'[t] \in SocketStates
  <2>1. [sk[s] EXCEPT !.down = Tail(sk[s].down)] \in SocketStates
    BY <1>2, <1>3, SocketWith
  <2> QED  BY <1>2, <1>4, <2>1
<1>6. sk' \in [Sockets -> SocketStates]
  <2>1. DOMAIN sk' = Sockets /\ sk' = [t \in DOMAIN sk' |-> sk'[t]]
    BY <1>1, <1>2
  <2> QED  BY <1>5, <2>1
<1>7. \A t \in Sockets : /\ sk'[t].c = sk[t].c /\ sk'[t].up = sk[t].up
                         /\ sk'[t].down = IF t = s THEN Tail(sk[t].down) ELSE sk[t].down
  BY <1>2, <1>4
<1>8. \A t \in Sockets : Keeps(sk[t].down, sk'[t].down)
  BY <1>1, <1>2, <1>7, KeepsRest
<1> QED  BY <1>1, <1>3, <1>6, <1>7, <1>8 DEF Receives, UpStep

\* The step moves a document into the buffer.
Buffers(s) ==
    /\ ~crashed /\ sub = TRUE
    /\ Receives(s) /\ buffer' = Append(buffer, Head(sk[s].down))
    /\ Head(sk[s].down) \in DocItems
    /\ UNCHANGED <<cl, authing, req, sub, crashed>>
    /\ Elsewhere

LEMMA ReceiveSteps ==
    ASSUME DocTypes, NEW s \in Sockets, ClientReceives(s)
    PROVE  (DocTypes' /\ Quiet /\ NoSubscription) \/ Buffers(s)
<1>1. PICK m : C!ReceiveAuth(s, m) \/ C!ReceiveResponse(s, m) \/ C!ReceiveItem(s, m)
  BY DEF ClientReceives, Client
<1>2. ~crashed /\ UNCHANGED <<storeVars, feed, serverVars, ragVars, via, faults>>
  BY DEF ClientReceives, Client, Well
<1>3. C!Receives(s, m)
  BY <1>1 DEF C!ReceiveAuth, C!ReceiveResponse, C!ReceiveItem
<1>4. /\ Receives(s)
      /\ m = Head(sk[s].down) /\ m \in Items
      /\ \A t \in Sockets : Keeps(sk[t].down, sk'[t].down) /\ UpStep(sk[t].up, sk'[t].up)
  BY <1>3, ReceivesTail
<1>5. CASE C!ReceiveAuth(s, m)
  <2>1. /\ UNCHANGED <<sub, buffer, busy>> /\ authing' = authing \ {s}
        /\ \/ UNCHANGED <<cl, req, crashed>>
           \/ /\ cl' = [cl EXCEPT !.authed = TRUE, !.promise = "ready"]
              /\ UNCHANGED <<req, crashed>>
           \/ cl' = [cl EXCEPT !.promise = C!AfterReject] /\ C!Rejected
    BY <1>5 DEF C!ReceiveAuth, C!Idle
  <2>2. cl' \in Connections /\ cl'.sock = cl.sock /\ cl'.retry = cl.retry
    BY <2>1, PromiseAfter DEF DocTypes, ClientOK, Connections
  <2>3. req' \in [Reqs -> Queries] /\ crashed' \in BOOLEAN
    BY <2>1, Rejecting DEF DocTypes, ClientOK
  <2>4. SocketOrder'
    BY <1>4, <2>2, OrderSame DEF Receives
  <2>5. ClientOK'
    BY <2>1, <2>2, <2>3, <2>4 DEF DocTypes, ClientOK
  <2>6. Elsewhere
    BY <1>2, <2>1 DEF Elsewhere
  <2> QED  BY <1>4, <2>1, <2>5, <2>6, ClientKeeps, SameBuffer DEF Receives
<1>6. CASE C!ReceiveResponse(s, m)
  <2>1. /\ UNCHANGED <<sub, buffer, busy, cl, authing, crashed>>
        /\ \E R1 : \E x \in {"done", "failed"} : req' = C!Each(R1, x)
    BY <1>6 DEF C!ReceiveResponse, C!Idle
  <2>2. req' \in [Reqs -> Queries]
    <3>0. PICK R1 : \E x \in {"done", "failed"} : req' = C!Each(R1, x)
      BY <2>1
    <3>1. PICK x \in {"done", "failed"} : req' = C!Each(R1, x)
      BY <3>0
    <3>2. \A r \in Reqs : req[r] \in Queries
      BY DEF DocTypes, ClientOK
    <3>3. \A r \in Reqs : [req[r] EXCEPT !.at = x] \in Queries
      BY <3>2, Asked
    <3> QED  BY <3>1, <3>2, <3>3 DEF C!Each
  <2>3. SocketOrder'
    BY <1>4, <2>1, OrderSame DEF Receives
  <2>4. ClientOK'
    BY <2>1, <2>2, <2>3 DEF DocTypes, ClientOK
  <2>5. Elsewhere
    BY <1>2, <2>1 DEF Elsewhere
  <2> QED  BY <1>4, <2>1, <2>4, <2>5, ClientKeeps, SameBuffer DEF Receives
<1>7. CASE C!ReceiveItem(s, m)
  <2>1. /\ UNCHANGED <<cl, authing, req, sub, crashed>>
        /\ m.type # "response"
        /\ buffer' = IF sub THEN Append(buffer, m) ELSE buffer
        /\ busy' = busy \/ (busy = "stalled" /\ busy' = "no")
    BY <1>7 DEF C!ReceiveItem
  <2>2. Elsewhere
    BY <1>2, <2>1 DEF Elsewhere
  <2>3. m \in FeedItems
    BY <1>4, <2>1 DEF Items, Responses
  <2>4. CASE sub = TRUE /\ m \in DocItems
    BY <1>2, <1>4, <2>1, <2>2, <2>4 DEF Buffers
  <2>5. CASE ~(sub = TRUE /\ m \in DocItems)
    <3>1. Keeps(buffer, buffer') /\ buffer' \in Seq(FeedItems)
      <4>1. CASE buffer' = buffer
        BY <4>1, SameBuffer DEF DocTypes, ClientOK
      <4>2. CASE buffer' # buffer
        <5>1. m = D!Eof /\ buffer' = Append(buffer, m)
          BY <2>1, <2>3, <2>5, <4>2 DEF FeedItems, DocTypes, ClientOK
        <5> QED  BY <2>3, <5>1, KeepsEof DEF DocTypes, ClientOK
      <4> QED  BY <4>1, <4>2
    <3>2. SocketOrder'
      BY <1>4, <2>1, OrderSame DEF Receives
    <3>3. busy' \in {"no", "yes", "stalled"}
      BY <2>1 DEF DocTypes, ClientOK
    <3>4. ClientOK'
      BY <2>1, <3>1, <3>2, <3>3 DEF DocTypes, ClientOK
    <3> QED  BY <1>4, <2>2, <3>1, <3>4, ClientKeeps DEF Receives
  <2> QED  BY <2>4, <2>5
<1> QED  BY <1>1, <1>5, <1>6, <1>7

\* What a client does with a request q: it fails, or is sent on the socket in use.
LEMMA SendsRequest ==
    ASSUME DocTypes, NEW r \in Reqs, NEW q \in Queries, C!Sends(r, q)
    PROVE  /\ req' \in [Reqs -> Queries]
           /\ sk' \in [Sockets -> SocketStates]
           /\ \A t \in Sockets : Keeps(sk[t].down, sk'[t].down) /\ UpStep(sk[t].up, sk'[t].up)
           /\ \A t \in Sockets : sk'[t].c = sk[t].c
<1>1. req \in [Reqs -> Queries] /\ sk \in [Sockets -> SocketStates]
  BY DEF DocTypes, ClientOK, SocketsOK
<1> DEFINE m == [type |-> "request", id |-> r, method |-> q.method, d |-> q.d, n |-> q.n]
<1>2. /\ req' = [req EXCEPT ![r] = [q EXCEPT !.at = "failed"]]
         \/ req' = [req EXCEPT ![r] = [q EXCEPT !.at = "sent"]]
      /\ sk' = sk \/ sk' = Adds(sk, cl.sock, m)
  BY DEF C!Sends, Adds
<1>3. m \in Messages /\ m # Subscription
  BY Sendable
<1> HIDE DEF m
<1>4. req' \in [Reqs -> Queries]
  <2>1. [q EXCEPT !.at = "failed"] \in Queries /\ [q EXCEPT !.at = "sent"] \in Queries
    BY Asked
  <2> QED  BY <1>1, <1>2, <2>1
<1>5. CASE sk' = sk
  BY <1>1, <1>4, <1>5, SameQueues
<1>6. CASE sk' = Adds(sk, cl.sock, m)
  BY <1>1, <1>3, <1>4, <1>6, MessageSent
<1> QED  BY <1>2, <1>5, <1>6

\* A request is made.
LEMMA RequestsQuiet ==
    ASSUME DocTypes, Asks \/ \E r \in Reqs : Resumes(r)
    PROVE  DocTypes' /\ Quiet /\ NoSubscription
<1>1. /\ UNCHANGED <<cl, authing, crashed, sub, buffer, busy>>
      /\ Elsewhere
  BY DEF Asks, Resumes, Client, Well, C!Ask, C!Resume, C!Idle, Elsewhere
<1>2. req \in [Reqs -> Queries] /\ sk \in [Sockets -> SocketStates] /\ "app" \in Reqs
  BY DEF DocTypes, ClientOK, SocketsOK, Reqs
<1>3. /\ req' \in [Reqs -> Queries]
      /\ sk' \in [Sockets -> SocketStates]
      /\ \A t \in Sockets : Keeps(sk[t].down, sk'[t].down) /\ UpStep(sk[t].up, sk'[t].up)
      /\ \A t \in Sockets : sk'[t].c = sk[t].c
  <2>1. ASSUME NEW r \in Reqs, Resumes(r) PROVE <1>3
    <3>1. C!Sends(r, req[r])
      BY <2>1 DEF Resumes, Client, C!Resume
    <3> QED  BY <1>2, <3>1, SendsRequest
  <2>2. ASSUME NEW c \in Commands, C!Ask("app", c.method, c.d, c.n) PROVE <1>3
    <3> DEFINE q == [at |-> "idle", method |-> c.method, d |-> c.d, n |-> c.n]
    <3>1. q \in Queries
      BY Asked
    <3>2. CASE C!Sends("app", q)
      <4> HIDE DEF q
      <4> QED  BY <1>2, <3>1, <3>2, SendsRequest
    <3>3. CASE ~C!Sends("app", q)
      <4>1. /\ sk' = sk
            /\ \E x \in {"waiting", "failed"} : req' = [req EXCEPT !["app"] = [q EXCEPT !.at = x]]
        BY <2>2, <3>3 DEF C!Ask
      <4>2. [q EXCEPT !.at = "waiting"] \in Queries /\ [q EXCEPT !.at = "failed"] \in Queries
        BY <3>1, Asked
      <4> HIDE DEF q
      <4>3. req' \in [Reqs -> Queries]
        BY <1>2, <4>1, <4>2
      <4> QED  BY <1>2, <4>1, <4>3, SameQueues
    <3> QED  BY <3>2, <3>3
  <2> QED  BY <2>1, <2>2 DEF Asks, Client
<1>4. SocketOrder'
  BY <1>1, <1>3, OrderSame
<1>5. ClientOK'
  BY <1>1, <1>3, <1>4 DEF DocTypes, ClientOK
<1> QED  BY <1>1, <1>3, <1>5, ClientKeeps, SameBuffer

\* A timer of the client fires.
LEMMA TimersQuiet ==
    ASSUME DocTypes, (\E r \in Reqs : TimesOut(r)) \/ (\E s \in Sockets : AuthTimesOut(s))
    PROVE  DocTypes' /\ Quiet /\ NoSubscription
<1>1. /\ UNCHANGED <<sk, sub, buffer, busy>>
      /\ Elsewhere
      /\ authing' \subseteq authing
  BY DEF TimesOut, AuthTimesOut, Client, If, Well, Fault, C!RequestTimeout, C!AuthTimeout,
         C!Idle, Elsewhere
<1>2. /\ req' \in [Reqs -> Queries] /\ crashed' \in BOOLEAN
      /\ cl' \in Connections /\ cl'.sock = cl.sock /\ cl'.retry = cl.retry
  <2>1. ASSUME NEW r \in Reqs, TimesOut(r) PROVE <1>2
    <3>1. req' = [req EXCEPT ![r].at = "failed"] /\ UNCHANGED <<cl, crashed>>
      BY <2>1 DEF TimesOut, Client, C!RequestTimeout
    <3>2. req \in [Reqs -> Queries]
      BY DEF DocTypes, ClientOK
    <3>3. [req[r] EXCEPT !.at = "failed"] \in Queries
      BY <3>2, Asked
    <3> QED  BY <3>1, <3>2, <3>3 DEF DocTypes, ClientOK
  <2>2. ASSUME NEW s \in Sockets, AuthTimesOut(s) PROVE <1>2
    <3>1. C!Rejected /\ cl' = [cl EXCEPT !.promise = C!AfterReject]
      BY <2>2 DEF AuthTimesOut, Client, C!AuthTimeout
    <3> QED  BY <3>1, Rejecting, PromiseAfter DEF DocTypes, ClientOK, Connections
  <2> QED  BY <2>1, <2>2
<1>3. SocketOrder'
  BY <1>1, <1>2, OrderSame
<1>4. ClientOK'
  BY <1>1, <1>2, <1>3 DEF DocTypes, ClientOK
<1>5. sk' \in [Sockets -> SocketStates]
  BY <1>1 DEF DocTypes, SocketsOK
<1> QED  BY <1>1, <1>4, <1>5, SameQueues, SameBuffer, ClientKeeps

\* A new socket connects when the one in use is closed.
LEMMA Connecting ==
    ASSUME DocTypes, C!Connects, cl.retry \/ cl.sock = 0
    PROVE  /\ cl' \in Connections /\ UNCHANGED <<authing, crashed, sub, buffer, busy>>
           /\ sk' \in [Sockets -> SocketStates]
           /\ \A t \in Sockets : Keeps(sk[t].down, sk'[t].down) /\ UpStep(sk[t].up, sk'[t].up)
           /\ SocketOrder'
<1> DEFINE n == cl.sock + 1
<1>1. /\ n \in Sockets
      /\ cl' = [cl EXCEPT !.sock = @ + 1, !.promise = "pending", !.retry = FALSE]
      /\ sk' = [sk EXCEPT ![n].c = "connecting"]
      /\ UNCHANGED <<authing, crashed, sub, buffer, busy>>
  BY DEF C!Connects, C!Idle
<1>2. /\ cl \in Connections /\ cl.sock \in Nat /\ n \in 1..Cardinality(Sockets)
      /\ \A t \in Sockets : t \in Nat /\ t > 0
  BY <1>1, SocketNumbers DEF DocTypes, ClientOK, Connections
<1>3. cl' \in Connections /\ cl'.sock = n /\ cl'.retry = FALSE
  <2>1. n \in 0..Cardinality(Sockets)
    BY <1>2, SocketNumbers
  <2>2. cl' = [cl EXCEPT !.sock = n, !.promise = "pending", !.retry = FALSE]
    BY <1>1
  <2> HIDE DEF n
  <2> QED  BY <1>2, <2>1, <2>2 DEF Connections
<1>4. /\ \A t \in Sockets : sk[t] \in SocketStates /\ DOMAIN sk[t] = {"c", "v", "up", "down", "auth"}
      /\ DOMAIN sk = Sockets
  <2>1. \A t \in Sockets : sk[t] \in SocketStates
    BY DEF DocTypes, SocketsOK
  <2>2. DOMAIN sk = Sockets
    BY DEF DocTypes, SocketsOK
  <2> QED  BY <2>1, <2>2 DEF SocketStates
<1>5. /\ \A t \in Sockets : sk'[t] = IF t = n THEN [sk[t] EXCEPT !.c = "connecting"] ELSE sk[t]
      /\ DOMAIN sk' = Sockets /\ sk' = [t \in DOMAIN sk' |-> sk'[t]]
  BY <1>1, <1>4
<1> HIDE DEF n
<1>6. sk' \in [Sockets -> SocketStates]
  <2>1. [sk[n] EXCEPT !.c = "connecting"] \in SocketStates
    BY <1>1, <1>4, SocketWith
  <2>2. \A t \in Sockets : sk'[t] \in SocketStates
    BY <1>4, <1>5, <2>1
  <2> QED  BY <1>5, <2>2
<1>7. \A t \in Sockets : /\ sk'[t].up = sk[t].up /\ sk'[t].down = sk[t].down
                         /\ sk'[t].c = IF t = n THEN "connecting" ELSE sk[t].c
  BY <1>4, <1>5
<1>8. SocketOrder'
  <2>1. \A t \in Sockets : /\ sk[t].c = "none" <=> t > cl.sock
                           /\ t < cl.sock => sk[t].c = "closed"
                           /\ t = cl.sock /\ cl.retry => sk[t].c = "closed"
    BY DEF DocTypes, ClientOK, SocketOrder
  <2>2. n = cl.sock + 1
    BY DEF n
  <2>3. ASSUME NEW t \in Sockets
        PROVE  /\ sk'[t].c = "none" <=> t > n
               /\ t < n => sk'[t].c = "closed"
    <3>1. t \in Nat /\ t > 0 /\ cl.sock \in Nat
      BY <1>2
    <3>2. CASE t > n
      BY <1>7, <2>1, <2>2, <3>1, <3>2
    <3>3. CASE t = n
      BY <1>7, <2>1, <2>2, <3>1, <3>3
    <3>4. CASE t < n
      BY <1>7, <2>1, <2>2, <3>1, <3>4
    <3> QED  BY <2>2, <3>1, <3>2, <3>3, <3>4
  <2> QED  BY <1>3, <2>3 DEF SocketOrder
<1> QED  BY <1>1, <1>3, <1>6, <1>7, <1>8, SameQueues

\* The client connects, the expert begins, finds its docstore or fails.
LEMMA ConnectsQuiet ==
    ASSUME DocTypes, Reconnects \/ getDocstore \/ Begin
    PROVE  DocTypes' /\ Quiet /\ NoSubscription
<1>1. req \in [Reqs -> Queries] /\ "start" \in Reqs
  BY DEF DocTypes, ClientOK, Reqs
<1>2. CASE C!Connects /\ (cl.retry \/ cl.sock = 0)
  <2>1. /\ cl' \in Connections /\ UNCHANGED <<authing, crashed, sub, buffer, busy>>
        /\ sk' \in [Sockets -> SocketStates]
        /\ \A t \in Sockets : Keeps(sk[t].down, sk'[t].down) /\ UpStep(sk[t].up, sk'[t].up)
        /\ SocketOrder'
    BY <1>2, Connecting
  <2>2. req' \in [Reqs -> Queries]
    <3>1. CASE Reconnects
      <4>1. req' = C!Each(C!Waiting, "stuck")
        BY <3>1 DEF Reconnects, Client, C!Reconnect
      <4>2. \A r \in Reqs : [req[r] EXCEPT !.at = "stuck"] \in Queries /\ req[r] \in Queries
        BY <1>1, Asked
      <4> QED  BY <4>1, <4>2 DEF C!Each
    <3>2. CASE getDocstore
      <4>1. req' = [req EXCEPT !["start"] =
                      [at |-> "waiting", method |-> "listDocstores", d |-> "none", n |-> 0]]
        BY <3>2 DEF getDocstore, Client, C!Open
      <4> QED  BY <1>1, <4>1, Asked
    <3>3. CASE Begin
      <4>1. UNCHANGED req \/ req' = [req EXCEPT !["start"] =
                      [at |-> "waiting", method |-> "getDocstore", d |-> "none", n |-> 0]]
        BY <3>3 DEF Begin, Rag, C!Open, clientVars
      <4> QED  BY <1>1, <4>1, Asked
    <3> QED  BY <3>1, <3>2, <3>3
  <2>3. ClientOK'
    BY <2>1, <2>2 DEF DocTypes, ClientOK
  <2>4. Elsewhere
    <3>1. CASE Reconnects \/ getDocstore
      BY <2>1, <3>1 DEF Reconnects, getDocstore, Client, Well, Elsewhere
    <3>2. CASE Begin
      BY <2>1, <3>2 DEF Begin, Rag, R!Goes, Well, Elsewhere, Starts, DocTypes, RagOK
    <3> QED  BY <3>1, <3>2
  <2> QED  BY <2>1, <2>3, <2>4, SameBuffer, ClientKeeps
<1>3. CASE ~(C!Connects /\ (cl.retry \/ cl.sock = 0))
  <2>1. /\ UNCHANGED <<sk, clientVars, buffer, busy>>
        /\ Elsewhere
    BY <1>3 DEF Reconnects, getDocstore, Begin, Client, C!Reconnect, C!Open, Rag, R!Goes, Well,
                Elsewhere, Starts
  <2>2. ClientOK' /\ sk' \in [Sockets -> SocketStates]
    BY <2>1 DEF DocTypes, ClientOK, SocketsOK, SocketOrder, clientVars
  <2> QED  BY <2>1, <2>2, SameQueues, SameBuffer, ClientKeeps
<1> QED  BY <1>2, <1>3

LEMMA StartsQuiet ==
    ASSUME DocTypes, Found \/ StartFails
    PROVE  DocTypes' /\ Quiet /\ NoSubscription
<1>1. /\ UNCHANGED <<sk, clientVars, buffer, busy>>
      /\ Elsewhere
  BY DEF Found, StartFails, Rag, R!Goes, Well, Fault, Elsewhere, Starts
<1>2. ClientOK' /\ sk' \in [Sockets -> SocketStates]
  BY <1>1 DEF DocTypes, ClientOK, SocketsOK, SocketOrder, clientVars
<1> QED  BY <1>1, <1>2, SameQueues, SameBuffer, ClientKeeps

\* The client is closed.
LEMMA DisposesQuiet ==
    ASSUME DocTypes, Disposes
    PROVE  DocTypes' /\ Quiet /\ NoSubscription
<1> DEFINE s == cl.sock
<1>1. /\ s > 0
      /\ cl' = [cl EXCEPT !.disposed = TRUE, !.retry = FALSE]
      /\ sk' = [sk EXCEPT ![s].c = "closed", ![s].down = <<>>]
      /\ sub' = FALSE /\ buffer' = <<>>
      /\ UNCHANGED <<authing, req, busy, crashed>>
      /\ Elsewhere
  BY DEF Disposes, Client, Well, C!Dispose, Elsewhere
<1>2. s \in Sockets
  BY <1>1, SocketNumbers DEF DocTypes, ClientOK, Connections
<1>3. /\ DOMAIN sk' = Sockets /\ sk' = [t \in DOMAIN sk' |-> sk'[t]]
      /\ \A t \in Sockets : t # s => sk'[t] = sk[t]
      /\ sk'[s] = [[sk[s] EXCEPT !.c = "closed"] EXCEPT !.down = <<>>]
  <2>1. sk = [t \in Sockets |-> sk[t]] /\ DOMAIN sk = Sockets
    BY DEF DocTypes, SocketsOK
  <2> QED  BY <1>1, <1>2, <2>1
<1> HIDE DEF s
<1>4. /\ sk' \in [Sockets -> SocketStates]
      /\ \A t \in Sockets : Keeps(sk[t].down, sk'[t].down) /\ UpStep(sk[t].up, sk'[t].up)
      /\ \A t \in Sockets : sk'[t].c = IF t = s THEN "closed" ELSE sk[t].c
  BY <1>2, <1>3, SocketCloses
<1>5. cl' \in Connections /\ cl'.sock = cl.sock /\ cl'.retry = FALSE
  BY <1>1 DEF DocTypes, ClientOK, Connections
<1>6. SocketOrder'
  <2>1. /\ \A t \in Sockets : /\ sk[t].c = "none" <=> t > cl.sock
                              /\ t < cl.sock => sk[t].c = "closed"
        /\ cl.sock \in Nat
    BY DEF DocTypes, ClientOK, SocketOrder, Connections
  <2>2. s = cl.sock /\ ~(s > cl.sock)
    BY <2>1 DEF s
  <2> QED  BY <1>4, <1>5, <2>1, <2>2 DEF SocketOrder
<1>7. ClientOK'
  BY <1>1, <1>5, <1>6, SameBuffer DEF DocTypes, ClientOK
<1> QED  BY <1>1, <1>4, <1>7, SameBuffer, ClientKeeps

\* The database of a step that writes nothing.
LEMMA StoreKept ==
    ASSUME DocTypes, UNCHANGED storeVars, feed' \in {feed, D!NoFeed}
    PROVE  StoreOK' /\ StoreStep
<1>1. D!NoFeed \in [on : BOOLEAN, sock : {0} \cup Sockets, last : 0..Len(log), page : FeedPages]
  <2>1. Len(log) \in Nat
    BY LenProperties DEF DocTypes, StoreOK
  <2> QED  BY <2>1 DEF D!NoFeed, FeedPages
<1> QED  BY <1>1 DEF DocTypes, StoreOK, storeVars, StoreStep

\* A feed that begins.
LEMMA NewFeed ==
    ASSUME DocTypes, NEW s \in {0} \cup Sockets
    PROVE  /\ [D!NoFeed EXCEPT !.on = TRUE, !.sock = s]
                \in [on : BOOLEAN, sock : {0} \cup Sockets, last : 0..Len(log), page : FeedPages]
           /\ [D!NoFeed EXCEPT !.on = TRUE, !.sock = s].on = TRUE
           /\ [D!NoFeed EXCEPT !.on = TRUE, !.sock = s].last = 0
           /\ [D!NoFeed EXCEPT !.on = TRUE, !.sock = s].sock = s
<1>1. 0 \in 0..Len(log)
  BY LenProperties DEF DocTypes, StoreOK
<1> DEFINE X == {0} \cup Sockets
           N == 0..Len(log)
<1>2. s \in X /\ 0 \in X /\ 0 \in N
  BY <1>1
<1> HIDE DEF X, N
<1>3. D!NoFeed \in [on : BOOLEAN, sock : X, last : N, page : FeedPages] /\ D!NoFeed.last = 0
  BY <1>2 DEF D!NoFeed, FeedPages
<1>4. DOMAIN D!NoFeed = {"on", "sock", "last", "page"}
  BY DEF D!NoFeed
<1>5. [D!NoFeed EXCEPT !.on = TRUE, !.sock = s] \in [on : BOOLEAN, sock : X, last : N, page : FeedPages]
  BY <1>2, <1>3
<1>6. /\ [D!NoFeed EXCEPT !.on = TRUE, !.sock = s].on = TRUE
      /\ [D!NoFeed EXCEPT !.on = TRUE, !.sock = s].last = 0
      /\ [D!NoFeed EXCEPT !.on = TRUE, !.sock = s].sock = s
  BY <1>3, <1>4
<1> QED  BY <1>5, <1>6 DEF X, N

\* The expert stops, and its subscription with it.
LEMMA StopQuiet ==
    ASSUME DocTypes, Stop
    PROVE  DocTypes' /\ Quiet /\ NoSubscription
<1>1. /\ rag = "ready" /\ rag' = "stopped" /\ UNCHANGED <<batch, left, atEof, coll>>
      /\ UNCHANGED <<storeVars, serverVars, via, faults, cl, authing, req, busy, crashed>>
      /\ feed' \in {feed, D!NoFeed} /\ buffer' = <<>> /\ sub' \in {sub, FALSE}
  BY DEF Stop, R!Goes, Well, D!CloseFeed, clientVars, C!CloseSubscription
<1>2. /\ sk' \in [Sockets -> SocketStates]
      /\ \A t \in Sockets : Keeps(sk[t].down, sk'[t].down) /\ UpStep(sk[t].up, sk'[t].up)
      /\ \A t \in Sockets : sk'[t].c = sk[t].c
  <2> DEFINE m == [type |-> "end", id |-> "sub"]
  <2>1. sk' = sk \/ sk' = Adds(sk, cl.sock, m)
    BY DEF Stop, C!CloseSubscription, Adds
  <2>2. m \in Messages /\ m # Subscription /\ sk \in [Sockets -> SocketStates]
    BY Sendable DEF DocTypes, SocketsOK
  <2> HIDE DEF m
  <2>3. CASE sk' = sk
    BY <2>2, <2>3, SameQueues
  <2>4. CASE sk' = Adds(sk, cl.sock, m)
    BY <2>2, <2>4, MessageSent
  <2> QED  BY <2>1, <2>3, <2>4
<1>3. SocketOrder'
  BY <1>1, <1>2, OrderSame
<1>4. ClientOK'
  BY <1>1, <1>3, SameBuffer DEF DocTypes, ClientOK
<1>5. StoreOK' /\ StoreStep
  BY <1>1, StoreKept
<1>6. SocketsOK'
  BY <1>1, <1>2 DEF DocTypes, SocketsOK, serverVars
<1>7. RagOK'
  BY <1>1 DEF DocTypes, RagOK
<1>8. Quiet
  BY <1>1, <1>2, <1>5, SameBuffer DEF Quiet, serverVars
<1>9. NoSubscription
  BY <1>1, <1>2 DEF NoSubscription, serverVars
<1> QED  BY <1>4, <1>5, <1>6, <1>7, <1>8, <1>9 DEF DocTypes

\* A batch is not stored.
LEMMA StoreFailsQuiet ==
    ASSUME DocTypes, StoreFails
    PROVE  DocTypes' /\ Quiet /\ NoSubscription
<1>1. /\ faults' = IF R!Storable(batch) THEN faults + 1 ELSE faults
      /\ UNCHANGED <<via, sk, storeVars, serverVars, cl, authing, req, sub>>
      /\ busy = "yes" /\ busy' = "stalled" /\ left' = <<>> /\ atEof' = FALSE
      /\ UNCHANGED <<rag, batch, coll, buffer>>
      /\ feed' \in {feed, D!NoFeed} /\ crashed' \in BOOLEAN
  BY DEF StoreFails, If, Well, Fault, R!StoreFails, D!CloseFeed, DocTypes, ClientOK
<1>2. StoreOK' /\ StoreStep
  BY <1>1, StoreKept
<1>3. SocketsOK'
  BY <1>1 DEF DocTypes, SocketsOK, serverVars
<1>4. ClientOK'
  <2>1. SocketOrder'
    BY <1>1, OrderSame
  <2> QED  BY <1>1, <2>1 DEF DocTypes, ClientOK
<1>5. RagOK'
  <2>1. <<>> \in Seq(Vectors)
    BY EmptySeq
  <2>2. batch' = batch /\ faults' \in {faults, faults + 1}
    BY <1>1
  <2>3. /\ (R!Storable(batch) => Len(batch) <= RAG_BATCH_SIZE + faults)'
        /\ faults' # faults => (R!Storable(batch) => Len(batch) < RAG_BATCH_SIZE + faults)'
    BY <2>2, SameBatch
  <2>4. faults' = faults => ~R!Storable(batch)'
    <3>1. faults \in Nat
      BY DEF DocTypes, SocketsOK
    <3> QED  BY <1>1, <3>1 DEF R!Storable
  <2> QED  BY <1>1, <2>1, <2>3, <2>4 DEF DocTypes, RagOK
<1>6. Quiet
  BY <1>1, <1>2, SameQueues, SameBuffer DEF Quiet, serverVars
<1>7. NoSubscription
  BY <1>1, SameQueues DEF NoSubscription, serverVars
<1> QED  BY <1>2, <1>3, <1>4, <1>5, <1>6, <1>7 DEF DocTypes

\* The expert subscribes: once, and before anything is copied.
FeedBegins ==
    /\ Fresh
    /\ UNCHANGED <<storeVars, batch, left, coll, buffer, perms, via>>
    /\ \A s \in Sockets : Keeps(sk[s].down, sk'[s].down)
    /\ feed'.on = TRUE /\ feed'.last = 0
SendsSubscription ==
    /\ via = "socket" /\ inHand' = inHand
    /\ rag \in {"idle", "asking", "clearing"} /\ rag' \notin {"idle", "asking", "clearing"}
    /\ \E x : \A s \in Sockets :
          sk'[s].up = IF s = x THEN Append(sk[s].up, Subscription) ELSE sk[s].up

LEMMA SyncsTypes ==
    ASSUME DocTypes, Once, NEW cleared \in BOOLEAN, Syncs(cleared)
    PROVE  /\ DocTypes'
           /\ via = "socket" => Quiet /\ SendsSubscription
           /\ via = "local" => FeedBegins /\ NoSubscription
<1>1. /\ rag = "clearing" /\ rag' = "syncing" /\ UNCHANGED <<batch, left, atEof>>
      /\ UNCHANGED <<storeVars, serverVars, via, cl, authing, req, buffer, busy>>
      /\ faults' \in {faults, faults + 1}
      /\ coll' = IF cleared THEN [c \in DOMAIN coll |-> 0] ELSE coll
  BY DEF Syncs, R!Goes, R!Clear, If, Fault, Well, clientVars, C!Subscribe
<1>2. Fresh
  BY <1>1 DEF Once
<1>3. coll' = coll
  <2>1. coll = [c \in Slots |-> 0]
    BY <1>2 DEF Fresh
  <2>2. DOMAIN coll = Slots
    BY <2>1
  <2> QED  BY <1>1, <2>1, <2>2
<1>4. RagOK'
  BY <1>1, <1>3, SameBatch DEF DocTypes, RagOK
<1>5. CASE via = "local"
  <2>1. /\ UNCHANGED <<sk, sub, crashed>>
        /\ feed' = [D!NoFeed EXCEPT !.on = TRUE, !.sock = 0]
    BY <1>5 DEF Syncs, D!Subscribe, clientVars
  <2>2. /\ feed' \in [on : BOOLEAN, sock : {0} \cup Sockets, last : 0..Len(log), page : FeedPages]
        /\ feed'.on = TRUE /\ feed'.last = 0
    BY <2>1, NewFeed
  <2>3. StoreOK'
    BY <1>1, <2>2 DEF DocTypes, StoreOK, storeVars
  <2>4. SocketsOK' /\ ClientOK'
    <3>1. SocketOrder'
      BY <1>1, <2>1, OrderSame
    <3>2. SocketsOK'
      BY <1>1, <2>1 DEF DocTypes, SocketsOK, serverVars
    <3> QED  BY <1>1, <2>1, <3>1, <3>2 DEF DocTypes, ClientOK
  <2>5. FeedBegins
    BY <1>1, <1>2, <1>3, <2>1, <2>2, SameQueues DEF FeedBegins, serverVars
  <2>6. NoSubscription
    BY <1>1, <2>1, SameQueues DEF NoSubscription, serverVars
  <2> QED  BY <1>4, <1>5, <2>3, <2>4, <2>5, <2>6 DEF DocTypes
<1>6. CASE via # "local"
  <2>1. C!Subscribe /\ UNCHANGED feed
    BY <1>6 DEF Syncs
  <2>2. /\ sub' = TRUE /\ crashed' \in BOOLEAN
        /\ sk' = sk \/ sk' = Adds(sk, cl.sock, Subscription)
    BY <2>1 DEF C!Subscribe, Adds, Subscription
  <2>3. sk \in [Sockets -> SocketStates] /\ Subscription \in Messages /\ via = "socket"
    BY <1>6, Sendable DEF DocTypes, SocketsOK
  <2>4. /\ sk' \in [Sockets -> SocketStates]
        /\ \A t \in Sockets : Keeps(sk[t].down, sk'[t].down)
        /\ \A t \in Sockets : sk'[t].c = sk[t].c
        /\ \E x : \A s \in Sockets :
              sk'[s].up = IF s = x THEN Append(sk[s].up, Subscription) ELSE sk[s].up
    <3>1. CASE sk' = Adds(sk, cl.sock, Subscription)
      <4>1. \A s \in Sockets :
              sk'[s].up = IF s = cl.sock THEN Append(sk[s].up, Subscription) ELSE sk[s].up
        BY <2>3, <3>1, MessageSent
      <4>2. /\ sk' \in [Sockets -> SocketStates]
            /\ \A t \in Sockets : Keeps(sk[t].down, sk'[t].down)
            /\ \A t \in Sockets : sk'[t].c = sk[t].c
        BY <2>3, <3>1, MessageSent
      <4> QED  BY <4>1, <4>2
    <3>2. CASE sk' = sk
      <4>1. Cardinality(Sockets) + 1 \notin Sockets
        BY SocketNumbers
      <4>2. \A s \in Sockets : sk'[s].up = IF s = Cardinality(Sockets) + 1
                                             THEN Append(sk[s].up, Subscription) ELSE sk[s].up
        BY <3>2, <4>1
      <4>3. /\ sk' \in [Sockets -> SocketStates]
            /\ \A t \in Sockets : Keeps(sk[t].down, sk'[t].down)
            /\ \A t \in Sockets : sk'[t].c = sk[t].c
        BY <2>3, <3>2, SameQueues
      <4> QED  BY <4>2, <4>3
    <3> QED  BY <2>2, <3>1, <3>2
  <2>5. StoreOK' /\ StoreStep
    BY <1>1, <2>1, StoreKept
  <2>6. SocketsOK'
    <3>1. faults' \in Nat
      BY <1>1 DEF DocTypes, SocketsOK
    <3> QED  BY <1>1, <2>4, <3>1 DEF DocTypes, SocketsOK, serverVars
  <2>7. ClientOK'
    <3>1. SocketOrder'
      BY <1>1, <2>4, OrderSame
    <3> QED  BY <1>1, <2>2, <3>1 DEF DocTypes, ClientOK
  <2>8. Quiet
    BY <1>1, <1>3, <2>1, <2>4, <2>5, SameBuffer DEF Quiet, serverVars
  <2>9. SendsSubscription
    BY <1>1, <2>3, <2>4 DEF SendsSubscription, serverVars
  <2> QED  BY <1>4, <1>6, <2>5, <2>6, <2>7, <2>8, <2>9 DEF DocTypes
<1> QED  BY <1>5, <1>6

\* A step of the server leaves the client and the expert alone.
ServerOnly ==
    /\ UNCHANGED <<perms, via, clientVars, buffer, busy, ragVars>>
    /\ faults' \in {faults, faults + 1}

LEMMA ServerTypes ==
    ASSUME DocTypes, ServerOnly, StoreOK', sk' \in [Sockets -> SocketStates],
           \A t \in Sockets : sk'[t].c = sk[t].c,
           inHand' \subseteq [s : Sockets, m : Messages], serving' \in BOOLEAN
    PROVE  DocTypes'
<1>1. /\ UNCHANGED <<perms, via, cl, authing, req, sub, crashed, buffer, busy, rag, batch, left, atEof, coll>>
      /\ faults' \in {faults, faults + 1}
  BY DEF ServerOnly, clientVars, ragVars
<1>2. faults \in Nat /\ faults' \in Nat /\ faults' >= faults
  BY <1>1 DEF DocTypes, SocketsOK
<1>3. SocketsOK'
  BY <1>1, <1>2 DEF DocTypes, SocketsOK
<1>4. ClientOK'
  <2>1. SocketOrder'
    BY <1>1, OrderSame
  <2> QED  BY <1>1, <2>1 DEF DocTypes, ClientOK
<1>5. RagOK'
  BY <1>1, SameBatch DEF DocTypes, RagOK
<1> QED  BY <1>3, <1>4, <1>5 DEF DocTypes

LEMMA ServerQuiet ==
    ASSUME DocTypes, ServerOnly, StoreStep, feed' \in {feed, D!NoFeed},
           \A s \in Sockets : Keeps(sk[s].down, sk'[s].down)
    PROVE  Quiet
BY SameBuffer DEF Quiet, ServerOnly, ragVars

\* Sockets of which the server's end changes.
LEMMA EndsSame ==
    ASSUME DocTypes,
           \A t \in Sockets : sk'[t].down = sk[t].down /\ sk'[t].up \in {sk[t].up, <<>>}
    PROVE  \A t \in Sockets : Keeps(sk[t].down, sk'[t].down) /\ UpStep(sk[t].up, sk'[t].up)
<1>1. \A t \in Sockets : sk[t].down \in Seq(Items)
  BY DEF DocTypes, SocketsOK, SocketStates
<1> QED  BY <1>1, KeepsRest DEF UpStep

LEMMA NoFeeds == S!D!NoFeed = D!NoFeed
BY DEF S!D!NoFeed, D!NoFeed

\* The connection of socket s ends, or its token expires.
LEMMA ServerClosesQuiet ==
    ASSUME DocTypes, NEW s \in Sockets, ServerCloses(s) \/ Expires(s)
    PROVE  DocTypes' /\ Quiet /\ NoSubscription
<1>1. /\ ServerOnly /\ UNCHANGED <<storeVars, inHand, serving>>
      /\ feed' \in {feed, D!NoFeed}
      /\ sk' = [sk EXCEPT ![s].v = "closed", ![s].up = <<>>] \/ sk' = [sk EXCEPT ![s].v = "closing"]
  <2>1. ServerOnly /\ UNCHANGED <<storeVars, inHand, serving>>
    BY DEF ServerCloses, Expires, Server, If, Well, Fault, S!Closed, S!Expires, ServerOnly,
           S!storeVars, storeVars
  <2>2. feed' \in {feed, D!NoFeed}
    BY NoFeeds DEF ServerCloses, Expires, Server, S!Closed, S!Expires, S!Cleanup, S!D!CloseFeed
  <2>3. sk' = [sk EXCEPT ![s].v = "closed", ![s].up = <<>>] \/ sk' = [sk EXCEPT ![s].v = "closing"]
    BY DEF ServerCloses, Expires, Server, S!Closed, S!Expires
  <2> QED  BY <2>1, <2>2, <2>3
<1>2. /\ \A t \in Sockets : sk[t] \in SocketStates /\ DOMAIN sk[t] = {"c", "v", "up", "down", "auth"}
      /\ sk = [t \in Sockets |-> sk[t]] /\ DOMAIN sk = Sockets
  <2>1. \A t \in Sockets : sk[t] \in SocketStates
    BY DEF DocTypes, SocketsOK
  <2>2. sk = [t \in Sockets |-> sk[t]] /\ DOMAIN sk = Sockets
    BY DEF DocTypes, SocketsOK
  <2> QED  BY <2>1, <2>2 DEF SocketStates
<1>3. /\ DOMAIN sk' = Sockets /\ sk' = [t \in DOMAIN sk' |-> sk'[t]]
      /\ \A t \in Sockets : t # s => sk'[t] = sk[t]
      /\ \/ sk'[s] = [[sk[s] EXCEPT !.v = "closed"] EXCEPT !.up = <<>>]
         \/ sk'[s] = [sk[s] EXCEPT !.v = "closing"]
  <2>1. CASE sk' = [sk EXCEPT ![s].v = "closed", ![s].up = <<>>]
    BY <1>2, <2>1
  <2>2. CASE sk' = [sk EXCEPT ![s].v = "closing"]
    BY <1>2, <2>2
  <2> QED  BY <1>1, <2>1, <2>2
<1>4. sk' \in [Sockets -> SocketStates]
  <2>1. <<>> \in Seq(Messages)
    BY EmptySeq
  <2>2. [sk[s] EXCEPT !.v = "closing"] \in SocketStates /\ [sk[s] EXCEPT !.v = "closed"] \in SocketStates
    BY <1>2, SocketWith
  <2>3. [[sk[s] EXCEPT !.v = "closed"] EXCEPT !.up = <<>>] \in SocketStates
    BY <2>1, <2>2, SocketWith
  <2>4. sk'[s] \in SocketStates
    BY <1>3, <2>2, <2>3
  <2>5. \A t \in Sockets : sk'[t] \in SocketStates
    BY <1>2, <1>3, <2>4
  <2> QED  BY <1>3, <2>5
<1>5. \A t \in Sockets : /\ sk'[t].c = sk[t].c /\ sk'[t].down = sk[t].down
                         /\ sk'[t].up \in {sk[t].up, <<>>}
  BY ZenonT(60), <1>2, <1>3
<1>6. StoreOK' /\ StoreStep
  BY <1>1, StoreKept
<1>7. DocTypes'
  <2>1. inHand' \subseteq [s : Sockets, m : Messages] /\ serving' \in BOOLEAN
    BY <1>1 DEF DocTypes, SocketsOK
  <2> QED  BY <1>1, <1>4, <1>5, <1>6, <2>1, ServerTypes
<1>8. Quiet
  BY <1>1, <1>5, <1>6, EndsSame, ServerQuiet
<1>9. NoSubscription
  BY <1>1, <1>5, EndsSame DEF NoSubscription, ServerOnly, ragVars
<1> QED  BY <1>7, <1>8, <1>9

\* The server stops, or is started again.
LEMMA ServerStopsQuiet ==
    ASSUME DocTypes, Stops \/ Restarts
    PROVE  DocTypes' /\ Quiet /\ NoSubscription
<1>1. /\ ServerOnly /\ UNCHANGED storeVars
      /\ feed' \in {feed, D!NoFeed} /\ inHand' \in {inHand, {}} /\ serving' \in BOOLEAN
      /\ \/ sk' = sk
         \/ sk' = [s \in Sockets |-> IF sk[s].v \in {"open", "closing"}
                                      THEN [sk[s] EXCEPT !.v = "closed", !.up = <<>>] ELSE sk[s]]
  <2>1. ServerOnly /\ UNCHANGED storeVars /\ serving' \in BOOLEAN
    BY DEF Stops, Restarts, Well, Fault, S!Close, S!Start, ServerOnly, S!storeVars, storeVars
  <2>2. feed' \in {feed, D!NoFeed} /\ inHand' \in {inHand, {}}
    BY NoFeeds DEF Stops, Restarts, S!Close, S!Start, S!D!CloseFeed
  <2>3. CASE Stops
    BY <2>1, <2>2, <2>3 DEF Stops, S!Close
  <2>4. CASE Restarts
    BY <2>1, <2>2, <2>4 DEF Restarts, S!Start
  <2> QED  BY <2>3, <2>4
<1>2. /\ \A t \in Sockets : sk[t] \in SocketStates /\ DOMAIN sk[t] = {"c", "v", "up", "down", "auth"}
      /\ sk = [t \in Sockets |-> sk[t]] /\ DOMAIN sk = Sockets
  <2>1. \A t \in Sockets : sk[t] \in SocketStates
    BY DEF DocTypes, SocketsOK
  <2>2. sk = [t \in Sockets |-> sk[t]] /\ DOMAIN sk = Sockets
    BY DEF DocTypes, SocketsOK
  <2> QED  BY <2>1, <2>2 DEF SocketStates
<1>3. /\ DOMAIN sk' = Sockets /\ sk' = [t \in DOMAIN sk' |-> sk'[t]]
      /\ \A t \in Sockets : \/ sk'[t] = [[sk[t] EXCEPT !.v = "closed"] EXCEPT !.up = <<>>]
                            \/ sk'[t] = sk[t]
  BY <1>1, <1>2
<1>4. sk' \in [Sockets -> SocketStates]
  <2>1. <<>> \in Seq(Messages)
    BY EmptySeq
  <2>2. ASSUME NEW t \in Sockets PROVE sk'[t] \in SocketStates
    <3>1. [sk[t] EXCEPT !.v = "closed"] \in SocketStates
      BY <1>2, SocketWith
    <3>2. [[sk[t] EXCEPT !.v = "closed"] EXCEPT !.up = <<>>] \in SocketStates
      BY <2>1, <3>1, SocketWith
    <3> QED  BY <1>2, <1>3, <3>2
  <2> QED  BY <1>3, <2>2
<1>5. \A t \in Sockets : /\ sk'[t].c = sk[t].c /\ sk'[t].down = sk[t].down
                         /\ sk'[t].up \in {sk[t].up, <<>>}
  BY <1>2, <1>3
<1>6. StoreOK' /\ StoreStep
  BY <1>1, StoreKept
<1>7. DocTypes'
  <2>1. inHand' \subseteq [s : Sockets, m : Messages]
    BY <1>1 DEF DocTypes, SocketsOK
  <2> QED  BY <1>1, <1>4, <1>5, <1>6, <2>1, ServerTypes
<1>8. Quiet
  BY <1>1, <1>5, <1>6, EndsSame, ServerQuiet
<1>9. NoSubscription
  BY <1>1, <1>5, EndsSame DEF NoSubscription, ServerOnly, ragVars
<1> QED  BY <1>7, <1>8, <1>9

-----------------------------------------------------------------------------
\* The number of vectors survives its two bytes.
LEMMA TwoBytes ==
    ASSUME NEW n \in 0..MaxVectors
    PROVE  D!Count(D!Header(n)) = n
<1>1. n \in Nat /\ n <= 65535
  <2>1. MaxVectors \in Nat /\ MaxVectors <= 65535
    BY Sizes
  <2>2. n \in Nat /\ n <= MaxVectors
    BY <2>1
  <2> QED  BY <2>1, <2>2
<1>2. (n % 256) + 256 * ((n \div 256) % 256) = n
  <2>1. (n \div 256) \in 0..255 /\ n % 256 \in 0..255
    BY <1>1
  <2>2. n = (256 * (n \div 256)) + (n % 256)
    BY <1>1
  <2>3. (n \div 256) % 256 = n \div 256
    BY <2>1
  <2> QED  BY <2>1, <2>2, <2>3
<1> QED  BY <1>2 DEF D!Count, D!Header

\* A row that is written.
LEMMA Upserts ==
    ASSUME DocTypes, NEW d \in Docs, NEW u \in Users \cup {D!NoUser}, NEW n \in 0..MaxVectors,
           D!Upsert(d, u, n)
    PROVE  /\ log' = Append(log, [d |-> d, user |-> u, n |-> n])
           /\ log' \in Seq(RowsWritten) /\ Len(log') = Len(log) + 1 /\ Len(log') <= MaxWrites
           /\ \A i \in 1..Len(log) : log'[i] = log[i]
           /\ rows' \in [Docs -> 0..Len(log')]
           /\ \A x \in Docs : rows'[x] > 0 => log'[rows'[x]].d = x
           /\ exists' = exists
<1> DEFINE r == [d |-> d, user |-> u, n |-> n]
<1>1. /\ log' = Append(log, r) /\ Len(log) < MaxWrites
      /\ rows' = [rows EXCEPT ![d] = Len(log) + 1] /\ exists' = exists
  BY TwoBytes DEF D!Upsert
<1>2. r \in RowsWritten /\ r.d = d
  BY DEF RowsWritten
<1> HIDE DEF r
<1>3. /\ log \in Seq(RowsWritten) /\ rows \in [Docs -> 0..Len(log)]
      /\ \A x \in Docs : rows[x] > 0 => log[rows[x]].d = x
  BY DEF DocTypes, StoreOK
<1>4. /\ log' \in Seq(RowsWritten) /\ Len(log') = Len(log) + 1 /\ Len(log) \in Nat
      /\ \A i \in 1..Len(log) : log'[i] = log[i]
      /\ log'[Len(log) + 1] = r
  BY <1>1, <1>2, <1>3, AppendProperties, LenProperties
<1>5. MaxWrites \in Nat
  BY DocAssumption
<1>6. rows' \in [Docs -> 0..Len(log')]
  <2>1. \A x \in Docs : rows[x] \in 0..(Len(log) + 1)
    BY <1>3, <1>4
  <2>2. Len(log) + 1 \in 0..(Len(log) + 1)
    BY <1>4
  <2> QED  BY <1>1, <1>3, <1>4, <2>1, <2>2
<1>7. ASSUME NEW x \in Docs, rows'[x] > 0 PROVE log'[rows'[x]].d = x
  <2>1. CASE x = d
    BY <1>1, <1>2, <1>3, <1>4, <2>1
  <2>2. CASE x # d
    <3>1. rows'[x] = rows[x] /\ rows[x] \in 1..Len(log)
      BY <1>1, <1>3, <1>4, <1>7, <2>2
    <3> QED  BY <1>3, <1>4, <3>1
  <2> QED  BY <2>1, <2>2
<1>8. Len(log') <= MaxWrites
  BY <1>1, <1>4, <1>5
<1> QED  BY <1>1, <1>4, <1>6, <1>7, <1>8 DEF r

\* The log only grows.
Grows ==
    /\ log' \in Seq(RowsWritten) /\ Len(log') \in {Len(log), Len(log) + 1}
    /\ \A i \in 1..Len(log) : log'[i] = log[i]

LEMMA StoreTyped ==
    ASSUME DocTypes, StoreStep
    PROVE  /\ Grows
           /\ feed' \in [on : BOOLEAN, sock : {0} \cup Sockets, last : 0..Len(log), page : FeedPages]
                => StoreOK'
<1>1. /\ exists \in BOOLEAN /\ log \in Seq(RowsWritten) /\ Len(log) <= MaxWrites /\ Len(log) \in Nat
      /\ rows \in [Docs -> 0..Len(log)]
      /\ \A d \in Docs : rows[d] > 0 => log[rows[d]].d = d
  BY LenProperties DEF DocTypes, StoreOK
<1>2. CASE UNCHANGED storeVars
  BY <1>1, <1>2 DEF storeVars, Grows, StoreOK
<1>3. ASSUME NEW d \in Docs, NEW u \in Users \cup {D!NoUser}, NEW n \in 0..MaxVectors,
             D!Upsert(d, u, n)
      PROVE  /\ Grows
             /\ feed' \in [on : BOOLEAN, sock : {0} \cup Sockets, last : 0..Len(log), page : FeedPages]
                  => StoreOK'
  <2>1. /\ log' \in Seq(RowsWritten) /\ Len(log') = Len(log) + 1 /\ Len(log') <= MaxWrites
        /\ \A i \in 1..Len(log) : log'[i] = log[i]
        /\ rows' \in [Docs -> 0..Len(log')]
        /\ \A x \in Docs : rows'[x] > 0 => log'[rows'[x]].d = x
        /\ exists' = exists
    BY <1>3, Upserts
  <2>2. Grows
    BY <2>1 DEF Grows
  <2>3. 0..Len(log) \subseteq 0..Len(log')
    BY <1>1, <2>1
  <2>4. ASSUME feed' \in [on : BOOLEAN, sock : {0} \cup Sockets, last : 0..Len(log), page : FeedPages]
        PROVE  feed' \in [on : BOOLEAN, sock : {0} \cup Sockets, last : 0..Len(log'), page : FeedPages]
    <3> DEFINE N == 0..Len(log)
               M == 0..Len(log')
    <3>1. N \subseteq M /\ feed' \in [on : BOOLEAN, sock : {0} \cup Sockets, last : N, page : FeedPages]
      BY <2>3, <2>4
    <3> HIDE DEF N, M
    <3>2. feed' \in [on : BOOLEAN, sock : {0} \cup Sockets, last : M, page : FeedPages]
      BY <3>1
    <3> QED  BY <3>2 DEF M
  <2> QED  BY <1>1, <2>1, <2>2, <2>4 DEF StoreOK
<1>4. CASE /\ log' = log /\ exists' \in BOOLEAN
           /\ rows' = [d \in Docs |-> rows'[d]] /\ \A d \in Docs : rows'[d] \in {0, rows[d]}
  <2>1. rows' \in [Docs -> 0..Len(log)]
    <3>1. \A d \in Docs : rows'[d] \in 0..Len(log)
      BY <1>1, <1>4
    <3> QED  BY <1>4, <3>1
  <2>2. \A d \in Docs : rows'[d] > 0 => log[rows'[d]].d = d
    BY <1>1, <1>4
  <2> QED  BY <1>1, <1>4, <2>1, <2>2 DEF Grows, StoreOK
<1> QED  BY <1>2, <1>3, <1>4 DEF StoreStep

-----------------------------------------------------------------------------
\* The server's docstore is the docstore.
LEMMA SameStore ==
    /\ S!D!NoUser = D!NoUser
    /\ \A d, u, n : S!D!Upsert(d, u, n) => D!Upsert(d, u, n)
    /\ \A d, u : S!D!Delete(d, u) => D!Delete(d, u)
    /\ \A u : S!D!DeleteDocstore(u) => D!DeleteDocstore(u)
    /\ S!D!CreateDocstore => UNCHANGED storeVars
    /\ UNCHANGED S!storeVars => UNCHANGED storeVars
<1>1. S!D!NoUser = D!NoUser
  BY DEF S!D!NoUser, D!NoUser
<1>2. ASSUME NEW d, NEW u, NEW n, S!D!Upsert(d, u, n) PROVE D!Upsert(d, u, n)
  BY <1>2, Zenon DEF S!D!Upsert, D!Upsert, S!D!Count, D!Count, S!D!Header, D!Header
<1>3. ASSUME NEW d, NEW u, S!D!Delete(d, u) PROVE D!Delete(d, u)
  BY <1>3, Zenon DEF S!D!Delete, D!Delete, S!D!Mine, D!Mine, S!D!NoUser, D!NoUser
<1>4. ASSUME NEW u, S!D!DeleteDocstore(u) PROVE D!DeleteDocstore(u)
  BY <1>4, Zenon DEF S!D!DeleteDocstore, D!DeleteDocstore, S!D!Mine, D!Mine, S!D!NoUser, D!NoUser
<1>5. S!D!CreateDocstore => UNCHANGED storeVars
  BY DEF S!D!CreateDocstore, S!D!storeVars, storeVars
<1>6. UNCHANGED S!storeVars => UNCHANGED storeVars
  BY DEF S!storeVars, storeVars
<1> QED  BY <1>1, <1>2, <1>3, <1>4, <1>5, <1>6

\* What is deleted is a step of the store.
LEMMA Deletes ==
    ASSUME DocTypes, NEW d, NEW u, D!Delete(d, u) \/ D!DeleteDocstore(u)
    PROVE  StoreStep
<1> DEFINE mine(x) == D!Mine(x, u)
           keeps == exists /\ u \notin {D!NoUser, Me}
<1>1. exists \in BOOLEAN /\ DOMAIN rows = Docs /\ rows = [x \in Docs |-> rows[x]]
  BY DEF DocTypes, StoreOK
<1>2. \/ /\ log' = log /\ exists' = exists
         /\ rows' = IF mine(d) THEN [rows EXCEPT ![d] = 0] ELSE rows
      \/ log' = log /\ exists' = keeps /\ rows' = [x \in Docs |-> IF mine(x) THEN 0 ELSE rows[x]]
  BY Zenon DEF D!Delete, D!DeleteDocstore
<1>3. keeps \in BOOLEAN
  BY <1>1
<1> HIDE DEF mine, keeps
<1>4. log' = log /\ exists' \in BOOLEAN
  BY <1>1, <1>2, <1>3
<1>5. rows' = [x \in Docs |-> rows'[x]] /\ \A x \in Docs : rows'[x] \in {0, rows[x]}
  <2>1. CASE rows' = [rows EXCEPT ![d] = 0]
    BY <1>1, <2>1
  <2>2. CASE rows' = rows
    BY <1>1, <2>2
  <2>3. CASE rows' = [x \in Docs |-> IF mine(x) THEN 0 ELSE rows[x]]
    BY <2>3
  <2> QED  BY <1>2, <2>1, <2>2, <2>3
<1> QED  BY <1>4, <1>5 DEF StoreStep

LEMMA WhoTyped == S!Who \in Users \cup {D!NoUser}
<1>1. Me \in Users
  BY DocAssumption
<1> QED  BY <1>1, SameStore DEF S!Who

\* Another process writes.
LEMMA WriteQuiet ==
    ASSUME DocTypes, Write
    PROVE  StoreStep /\ UNCHANGED <<feed, sk, serverVars, clientVars, buffer, busy, ragVars, via, faults>>
<1>1. /\ via \in {"local", "socket"}
      /\ UNCHANGED <<feed, sk, serverVars, clientVars, buffer, busy, ragVars, via, faults>>
  BY DEF DocTypes, SocketsOK, Write, Well
<1>2. PICK w \in Inputs[via] : \/ D!Upsert(w.d, w.user, w.n)
                               \/ D!Delete(w.d, w.user)
                               \/ D!DeleteDocstore(w.user)
                               \/ D!CreateDocstore
  BY DEF Write
<1>3. w.d \in Docs /\ w.user \in Users /\ w.n \in 0..MaxVectors
  BY <1>1, <1>2, InputsTyped
<1>4. StoreStep
  <2>1. CASE D!Upsert(w.d, w.user, w.n)
    BY <1>3, <2>1 DEF StoreStep
  <2>2. CASE D!Delete(w.d, w.user) \/ D!DeleteDocstore(w.user)
    BY <2>2, Deletes
  <2>3. CASE D!CreateDocstore
    BY <2>3 DEF D!CreateDocstore, D!storeVars, StoreStep, storeVars
  <2> QED  BY <1>2, <2>1, <2>2, <2>3
<1> QED  BY <1>1, <1>4

-----------------------------------------------------------------------------
\* The messages.
LEMMA MessageTypes ==
    ASSUME NEW m \in Messages
    PROVE  /\ m.type = "subscription" => m = Subscription
           /\ m.type = "request" => m \in Requests
           /\ m.id \in Reqs \cup {"auth", "sub"}
<1>1. CASE m \in [type : {"request"}, id : Reqs, method : {"upsert"}, d : Docs, n : 0..MaxVectors]
  BY <1>1 DEF Requests
<1>2. CASE m \in [type : {"request"}, id : Reqs, method : OtherMethods, d : Docs \cup {"none"}, n : {0}]
  BY <1>2 DEF Requests
<1>3. CASE m \in [type : {"auth"}, id : {"auth"}]
  BY <1>3
<1>4. CASE m = Subscription
  BY <1>4 DEF Subscription
<1>5. CASE m \in [type : {"end"}, id : {"sub"}]
  BY <1>5
<1> QED  BY <1>1, <1>2, <1>3, <1>4, <1>5 DEF Messages, Requests

LEMMA UpsertRequest ==
    ASSUME NEW m \in Requests, m.method = "upsert"
    PROVE  m.d \in Docs /\ m.n \in 0..MaxVectors
<1>1. CASE m \in [type : {"request"}, id : Reqs, method : OtherMethods, d : Docs \cup {"none"}, n : {0}]
  <2>1. m.method \in OtherMethods
    BY <1>1
  <2> QED  BY <2>1 DEF OtherMethods
<1> QED  BY <1>1 DEF Requests
-----------------------------------------------------------------------------
\* What the sockets k get is nothing but answers.
Answers(k) ==
    /\ sk' \in [Sockets -> SocketStates]
    /\ \A t \in Sockets : /\ sk'[t].c = k[t].c /\ sk'[t].up = k[t].up
                          /\ Keeps(k[t].down, sk'[t].down)

LEMMA SentKeeps ==
    ASSUME NEW k \in [Sockets -> SocketStates], NEW s \in Sockets, NEW r \in Responses
    PROVE  /\ S!Sent(k, s, <<r>>) \in [Sockets -> SocketStates]
           /\ \A t \in Sockets : /\ S!Sent(k, s, <<r>>)[t].c = k[t].c
                                 /\ S!Sent(k, s, <<r>>)[t].up = k[t].up
                                 /\ Keeps(k[t].down, S!Sent(k, s, <<r>>)[t].down)
<1> DEFINE j == S!Sent(k, s, <<r>>)
<1>1. /\ \A t \in Sockets : k[t] \in SocketStates /\ DOMAIN k[t] = {"c", "v", "up", "down", "auth"}
      /\ \A t \in Sockets : k[t].down \in Seq(Items)
      /\ k = [t \in Sockets |-> k[t]]
  <2>1. \A t \in Sockets : k[t] \in SocketStates
    OBVIOUS
  <2> QED  BY <2>1 DEF SocketStates
<1>2. <<r>> \in Seq(Responses)
  OBVIOUS
<1>3. \A t \in Sockets : k[t].down \o <<r>> \in Seq(Items) /\ Keeps(k[t].down, k[t].down \o <<r>>)
  BY <1>1, <1>2, KeepsAnswered
<1>4. \A t \in Sockets : Keeps(k[t].down, k[t].down)
  BY <1>1, KeepsRest
<1>5. j = k \/ j = [k EXCEPT ![s].down = @ \o <<r>>]
  BY DEF S!Sent
<1> HIDE DEF j
<1>6. CASE j = k
  BY <1>1, <1>4, <1>6 DEF j
<1>7. CASE j = [k EXCEPT ![s].down = @ \o <<r>>]
  <2>1. /\ j = [t \in Sockets |-> j[t]]
        /\ \A t \in Sockets : j[t] = k[t] \/ j[t] = [k[t] EXCEPT !.down = k[t].down \o <<r>>]
    BY <1>1, <1>7
  <2>2. ASSUME NEW t \in Sockets PROVE j[t] \in SocketStates
    <3>1. [k[t] EXCEPT !.down = k[t].down \o <<r>>] \in SocketStates
      BY <1>1, <1>3, SocketWith
    <3> QED  BY <1>1, <2>1, <3>1
  <2>3. \A t \in Sockets : /\ j[t].c = k[t].c /\ j[t].up = k[t].up
                           /\ j[t].down \in {k[t].down, k[t].down \o <<r>>}
    BY <1>1, <2>1
  <2>4. \A t \in Sockets : Keeps(k[t].down, j[t].down)
    BY <1>3, <1>4, <2>3
  <2>5. j \in [Sockets -> SocketStates]
    BY <2>1, <2>2
  <2> QED  BY <2>3, <2>4, <2>5 DEF j
<1> QED  BY <1>5, <1>6, <1>7

\* The answers of a handler.
LEMMA RespondsKeep ==
    ASSUME NEW k \in [Sockets -> SocketStates], NEW s \in Sockets,
           NEW id \in Reqs \cup {"auth", "sub"}, NEW ok \in BOOLEAN,
           \/ S!Respond(k, s, id, ok)
           \/ S!RespondAndClose(k, s, id)
           \/ sk' = [S!Sent(k, s, <<S!Response(id, ok)>>) EXCEPT ![s].auth = TRUE]
    PROVE  Answers(k)
<1>1. S!Response(id, ok) \in Responses /\ S!Response(id, FALSE) \in Responses
  BY DEF S!Response, Responses
<1>2. PICK r \in Responses :
        \/ sk' = S!Sent(k, s, <<r>>)
        \/ sk' = [S!Sent(k, s, <<r>>) EXCEPT ![s].v = IF @ = "open" THEN "closing" ELSE @]
        \/ sk' = [S!Sent(k, s, <<r>>) EXCEPT ![s].auth = TRUE]
  BY <1>1, Zenon DEF S!Respond, S!RespondAndClose
<1> DEFINE j == S!Sent(k, s, <<r>>)
<1>3. /\ j \in [Sockets -> SocketStates]
      /\ \A t \in Sockets : j[t].c = k[t].c /\ j[t].up = k[t].up /\ Keeps(k[t].down, j[t].down)
  BY SentKeeps
<1>4. \/ sk' = j
      \/ sk' = [j EXCEPT ![s].v = IF @ = "open" THEN "closing" ELSE @]
      \/ sk' = [j EXCEPT ![s].auth = TRUE]
  BY <1>2
<1> HIDE DEF j
<1>5. /\ \A t \in Sockets : j[t] \in SocketStates
      /\ \A t \in Sockets : DOMAIN j[t] = {"c", "v", "up", "down", "auth"}
                            /\ j[t].v \in {"none", "open", "closing", "closed"}
      /\ j = [t \in Sockets |-> j[t]]
  <2>1. \A t \in Sockets : j[t] \in SocketStates
    BY <1>3
  <2>2. j = [t \in Sockets |-> j[t]]
    BY <1>3
  <2> QED  BY <2>1, <2>2 DEF SocketStates
<1>6. CASE sk' = j
  BY <1>3, <1>6 DEF Answers
<1>7. CASE sk' = [j EXCEPT ![s].v = IF @ = "open" THEN "closing" ELSE @]
  <2> DEFINE v == IF j[s].v = "open" THEN "closing" ELSE j[s].v
  <2>1. v \in {"none", "open", "closing", "closed"}
    BY <1>5
  <2>2. sk' = [j EXCEPT ![s].v = v]
    BY <1>5, <1>7
  <2> HIDE DEF v
  <2>3. /\ sk' = [t \in Sockets |-> sk'[t]]
        /\ \A t \in Sockets : sk'[t] = j[t] \/ sk'[t] = [j[t] EXCEPT !.v = v]
    BY <1>5, <2>2
  <2>4. ASSUME NEW t \in Sockets PROVE sk'[t] \in SocketStates
    <3>1. [j[t] EXCEPT !.v = v] \in SocketStates
      BY <1>5, <2>1, SocketWith
    <3> QED  BY <1>5, <2>3, <3>1
  <2>5. \A t \in Sockets : sk'[t].c = j[t].c /\ sk'[t].up = j[t].up /\ sk'[t].down = j[t].down
    BY <1>5, <2>3
  <2>6. sk' \in [Sockets -> SocketStates]
    BY <2>3, <2>4
  <2> QED  BY <1>3, <2>5, <2>6 DEF Answers
<1>8. CASE sk' = [j EXCEPT ![s].auth = TRUE]
  <2>3. /\ sk' = [t \in Sockets |-> sk'[t]]
        /\ \A t \in Sockets : sk'[t] = j[t] \/ sk'[t] = [j[t] EXCEPT !.auth = TRUE]
    BY <1>5, <1>8
  <2>4. ASSUME NEW t \in Sockets PROVE sk'[t] \in SocketStates
    <3>1. [j[t] EXCEPT !.auth = TRUE] \in SocketStates
      BY <1>5, SocketWith
    <3> QED  BY <1>5, <2>3, <3>1
  <2>5. \A t \in Sockets : sk'[t].c = j[t].c /\ sk'[t].up = j[t].up /\ sk'[t].down = j[t].down
    BY <1>5, <2>3
  <2>6. sk' \in [Sockets -> SocketStates]
    BY <2>3, <2>4
  <2> QED  BY <1>3, <2>5, <2>6 DEF Answers
<1> QED  BY <1>4, <1>6, <1>7, <1>8

\* Sockets that get no answer.
LEMMA NoAnswer ==
    ASSUME NEW k \in [Sockets -> SocketStates], sk' = k
    PROVE  Answers(k)
<1>1. \A t \in Sockets : k[t] \in SocketStates
  OBVIOUS
<1>2. \A t \in Sockets : k[t].down \in Seq(Items)
  BY <1>1 DEF SocketStates
<1> QED  BY <1>2, KeepsRest DEF Answers
-----------------------------------------------------------------------------
\* What the handler of message m does.
Outcome(k, m) ==
    /\ StoreOK' /\ Answers(k)
    /\ \/ StoreStep /\ feed' \in {feed, D!NoFeed}
       \/ m = Subscription /\ UNCHANGED storeVars /\ feed'.on = TRUE /\ feed'.last = 0

LEMMA OutcomeKept ==
    ASSUME DocTypes, NEW k, NEW m, Answers(k), StoreStep, feed' \in {feed, D!NoFeed}
    PROVE  Outcome(k, m)
<1>1. feed' \in [on : BOOLEAN, sock : {0} \cup Sockets, last : 0..Len(log), page : FeedPages]
  <2>1. Len(log) \in Nat
    BY LenProperties DEF DocTypes, StoreOK
  <2>2. D!NoFeed \in [on : BOOLEAN, sock : {0} \cup Sockets, last : 0..Len(log), page : FeedPages]
    BY <2>1 DEF D!NoFeed, FeedPages
  <2> QED  BY <2>2 DEF DocTypes, StoreOK
<1> QED  BY <1>1, StoreTyped DEF Outcome

\* The methods of a request.
LEMMA RequestSteps ==
    ASSUME DocTypes, NEW k, NEW s, NEW m \in Requests, S!Request(k, s, m)
    PROVE  /\ StoreStep /\ feed' = feed
           /\ \E ok \in BOOLEAN : S!Respond(k, s, m.id, ok)
<1>1. PICK ok \in BOOLEAN :
        /\ \/ S!handleUpsert(m, ok) \/ S!handleDelete(m, ok) \/ S!handleCreateDocstore(m, ok)
           \/ S!handleDeleteDocstore(m, ok) \/ S!handleGet(m, ok) \/ S!handleGetDocstore(m, ok)
           \/ S!handleListDocstores(m, ok) \/ S!handleCountDocs(m, ok)
           \/ S!handleListDocStoresByIds(m, ok) \/ S!handleListDocsByIds(m, ok)
        /\ S!Respond(k, s, m.id, ok)
  BY DEF S!Request
<1>2. feed' = feed
  BY DEF S!Request
<1>3. StoreStep
  <2>1. CASE S!handleUpsert(m, ok)
    <3>1. m.method = "upsert" /\ (S!D!Upsert(m.d, S!Who, m.n) \/ UNCHANGED storeVars)
      BY <2>1, SameStore DEF S!handleUpsert
    <3>2. m.d \in Docs /\ m.n \in 0..MaxVectors /\ S!Who \in Users \cup {D!NoUser}
      BY <3>1, UpsertRequest, WhoTyped
    <3>3. D!Upsert(m.d, S!Who, m.n) \/ UNCHANGED storeVars
      BY <3>1, SameStore
    <3> QED  BY <3>2, <3>3 DEF StoreStep
  <2>2. CASE S!handleDelete(m, ok) \/ S!handleDeleteDocstore(m, ok)
    <3>1. D!Delete(m.d, S!Who) \/ D!DeleteDocstore(S!Who)
      BY <2>2, SameStore DEF S!handleDelete, S!handleDeleteDocstore
    <3> QED  BY <3>1, Deletes
  <2>3. CASE S!handleCreateDocstore(m, ok)
    BY <2>3, SameStore DEF S!handleCreateDocstore, StoreStep
  <2>4. CASE \/ S!handleGet(m, ok) \/ S!handleGetDocstore(m, ok) \/ S!handleListDocstores(m, ok)
             \/ S!handleCountDocs(m, ok) \/ S!handleListDocStoresByIds(m, ok)
             \/ S!handleListDocsByIds(m, ok)
    <3>1. UNCHANGED storeVars
      BY <2>4, SameStore DEF S!handleGet, S!handleGetDocstore, S!handleListDocstores,
         S!handleCountDocs, S!handleListDocStoresByIds, S!handleListDocsByIds, S!Reads
    <3> QED  BY <3>1 DEF StoreStep
  <2> QED  BY <1>1, <2>1, <2>2, <2>3, <2>4
<1> QED  BY <1>1, <1>2, <1>3

LEMMA HandlerOutcome ==
    ASSUME DocTypes, NEW k \in [Sockets -> SocketStates], NEW s \in Sockets, NEW m \in Messages,
           \/ S!Handle(k, s, m)
           \/ S!Auth(k, s, m, FALSE)
           \/ S!Respond(k, s, m.id, FALSE) /\ UNCHANGED <<S!storeVars, feed>>
    PROVE  Outcome(k, m)
<1>1. /\ m.type = "subscription" => m = Subscription
      /\ m.type = "request" => m \in Requests
      /\ m.id \in Reqs \cup {"auth", "sub"}
  BY MessageTypes
<1>2. UNCHANGED storeVars => StoreStep
  BY DEF StoreStep
<1>3. ASSUME NEW valid \in BOOLEAN, S!Auth(k, s, m, valid) PROVE Outcome(k, m)
  <2>1. /\ feed' = feed /\ StoreStep
    BY <1>2, <1>3, SameStore DEF S!Auth
  <2>2. \/ \E ok \in BOOLEAN : S!Respond(k, s, m.id, ok)
        \/ S!RespondAndClose(k, s, m.id)
        \/ sk' = [S!Sent(k, s, <<S!Response(m.id, TRUE)>>) EXCEPT ![s].auth = TRUE]
    BY <1>3, Zenon DEF S!Auth
  <2>3. Answers(k)
    BY <1>1, <2>2, RespondsKeep
  <2> QED  BY <2>1, <2>3, OutcomeKept
<1>4. CASE S!Request(k, s, m)
  <2>1. m \in Requests
    BY <1>1, <1>4 DEF S!Request
  <2>2. StoreStep /\ feed' = feed /\ \E ok \in BOOLEAN : S!Respond(k, s, m.id, ok)
    BY <1>4, <2>1, RequestSteps
  <2>3. Answers(k)
    BY <1>1, <2>2, RespondsKeep
  <2> QED  BY <2>2, <2>3, OutcomeKept
<1>5. CASE S!Subscribe(k, s, m)
  <2>1. m = Subscription /\ UNCHANGED storeVars /\ StoreStep
    BY <1>1, <1>2, <1>5, SameStore DEF S!Subscribe
  <2>2. CASE feed.on
    <3>1. S!Respond(k, s, m.id, FALSE) /\ UNCHANGED feed
      BY <1>5, <2>2 DEF S!Subscribe
    <3>2. Answers(k)
      BY <1>1, <3>1, RespondsKeep
    <3> QED  BY <2>1, <3>1, <3>2, OutcomeKept
  <2>3. CASE ~feed.on
    <3>1. S!D!Subscribe(s) /\ sk' = k
      BY <1>5, <2>3 DEF S!Subscribe
    <3>2. feed' = [D!NoFeed EXCEPT !.on = TRUE, !.sock = s]
      BY <3>1, NoFeeds DEF S!D!Subscribe
    <3>3. /\ feed' \in [on : BOOLEAN, sock : {0} \cup Sockets, last : 0..Len(log), page : FeedPages]
          /\ feed'.on = TRUE /\ feed'.last = 0
      BY <3>2, NewFeed
    <3>4. StoreOK'
      BY <2>1, <3>3, StoreTyped
    <3>5. Answers(k)
      BY <3>1, NoAnswer
    <3> QED  BY <2>1, <3>3, <3>4, <3>5 DEF Outcome
  <2> QED  BY <2>2, <2>3
<1>6. CASE S!EndSubscription(k, s, m)
  <2>1. UNCHANGED storeVars /\ S!Respond(k, s, m.id, feed.on) /\ feed' \in {feed, D!NoFeed}
    BY <1>6, SameStore, NoFeeds DEF S!EndSubscription, S!D!CloseFeed
  <2>2. feed.on \in BOOLEAN
    BY DEF DocTypes, StoreOK
  <2>3. Answers(k)
    BY <1>1, <2>1, <2>2, RespondsKeep
  <2> QED  BY <1>2, <2>1, <2>3, OutcomeKept
<1>7. CASE S!Respond(k, s, m.id, FALSE) /\ UNCHANGED <<S!storeVars, feed>>
  <2>1. Answers(k)
    BY <1>1, <1>7, RespondsKeep
  <2> QED  BY <1>2, <1>7, <2>1, SameStore, OutcomeKept
<1> QED  BY <1>3, <1>4, <1>5, <1>6, <1>7 DEF S!Handle
-----------------------------------------------------------------------------
\* A step of the server that begins nothing, or the feed.
Begins == StoreStep /\ feed' \in {feed, D!NoFeed}
FeedOpens == UNCHANGED storeVars /\ feed'.on = TRUE /\ feed'.last = 0

LEMMA OpensFeed ==
    ASSUME DocTypes, Fresh, ServerOnly, FeedOpens, \A t \in Sockets : Keeps(sk[t].down, sk'[t].down)
    PROVE  FeedBegins
BY DEF FeedBegins, FeedOpens, ServerOnly, ragVars

\* A message is taken from the socket s.
Takes(s) ==
    /\ sk[s].up # <<>>
    /\ \A t \in Sockets : sk'[t].up = IF t = s THEN Tail(sk[t].up) ELSE sk[t].up
    /\ rag' = rag

LEMMA ReceivesMessage ==
    ASSUME DocTypes, Once, NEW s \in Sockets, ServerReceives(s)
    PROVE  /\ DocTypes' /\ Takes(s)
           /\ \/ Quiet /\ inHand' \in {inHand, inHand \cup {[s |-> s, m |-> Head(sk[s].up)]}}
              \/ FeedBegins /\ inHand' = inHand /\ Head(sk[s].up) = Subscription
<1> DEFINE m == Head(sk[s].up)
           k == [sk EXCEPT ![s].up = Tail(@)]
<1>1. ServerOnly /\ UNCHANGED serving /\ sk[s].up # <<>>
  BY DEF ServerReceives, Server, Well, ServerOnly, S!Message
<1>3. \/ /\ S!RespondAndClose(k, s, m.id) \/ sk' = k
         /\ UNCHANGED <<storeVars, feed>> /\ inHand' \in {inHand, inHand \cup {[s |-> s, m |-> m]}}
      \/ S!Handle(k, s, m) /\ UNCHANGED inHand
  <2>1. S!Message(s)
    BY DEF ServerReceives, Server
  <2>2. \/ S!RespondAndClose(k, s, m.id) /\ UNCHANGED <<S!storeVars, feed, inHand>>
        \/ inHand' = inHand \cup {[s |-> s, m |-> m]} /\ sk' = k /\ UNCHANGED <<S!storeVars, feed>>
        \/ S!Handle(k, s, m) /\ UNCHANGED inHand
    BY <2>1, Zenon DEF S!Message
  <2>3. UNCHANGED S!storeVars => UNCHANGED storeVars
    BY SameStore
  <2> HIDE DEF m, k
  <2> QED  BY <2>2, <2>3
<1>4. /\ sk[s].up \in Seq(Messages) /\ m \in Messages /\ Tail(sk[s].up) \in Seq(Messages)
      /\ sk[s].up[1] = m /\ 1 \in 1..Len(sk[s].up)
  <2>1. sk[s].up \in Seq(Messages)
    BY DEF DocTypes, SocketsOK, SocketStates
  <2> QED  BY <1>1, <2>1, HeadTailElements, LenProperties
<1>5. /\ \A t \in Sockets : sk[t] \in SocketStates /\ DOMAIN sk[t] = {"c", "v", "up", "down", "auth"}
      /\ sk = [t \in Sockets |-> sk[t]] /\ DOMAIN sk = Sockets
  <2>1. \A t \in Sockets : sk[t] \in SocketStates
    BY DEF DocTypes, SocketsOK
  <2>2. sk = [t \in Sockets |-> sk[t]] /\ DOMAIN sk = Sockets
    BY DEF DocTypes, SocketsOK
  <2> QED  BY <2>1, <2>2 DEF SocketStates
<1>6. /\ k \in [Sockets -> SocketStates]
      /\ \A t \in Sockets : /\ k[t].c = sk[t].c /\ k[t].down = sk[t].down
                            /\ k[t].up = IF t = s THEN Tail(sk[t].up) ELSE sk[t].up
  <2>1. [sk[s] EXCEPT !.up = Tail(sk[s].up)] \in SocketStates
    BY <1>4, <1>5, SocketWith
  <2>2. k = [t \in Sockets |-> IF t = s THEN [sk[s] EXCEPT !.up = Tail(sk[s].up)] ELSE sk[t]]
    BY <1>5
  <2> HIDE DEF k
  <2>3. k \in [Sockets -> SocketStates]
    BY <1>5, <2>1, <2>2
  <2>4. \A t \in Sockets : /\ k[t].c = sk[t].c /\ k[t].down = sk[t].down
                           /\ k[t].up = IF t = s THEN Tail(sk[t].up) ELSE sk[t].up
    BY <1>5, <2>2
  <2> QED  BY <2>3, <2>4
<1>7. m.id \in Reqs \cup {"auth", "sub"}
  BY <1>4, MessageTypes
<1> DEFINE x == [s |-> s, m |-> m]
<1>8. x \in [s : Sockets, m : Messages]
  BY <1>4
<1> HIDE DEF m, k
<1>9. Outcome(k, m)
  <2>1. CASE S!Handle(k, s, m)
    BY <1>4, <1>6, <2>1, HandlerOutcome
  <2>2. CASE (S!RespondAndClose(k, s, m.id) \/ sk' = k) /\ UNCHANGED <<storeVars, feed>>
    <3>1. Answers(k)
      BY <1>6, <1>7, <2>2, RespondsKeep, NoAnswer
    <3> QED  BY <2>2, <3>1, OutcomeKept DEF StoreStep
  <2> QED  BY <1>3, <2>1, <2>2
<1>10. inHand' \in {inHand, inHand \cup {x}} /\ inHand' \subseteq [s : Sockets, m : Messages]
  BY <1>3, <1>8 DEF DocTypes, SocketsOK
<1>11. /\ sk' \in [Sockets -> SocketStates]
       /\ \A t \in Sockets : /\ sk'[t].c = sk[t].c
                             /\ sk'[t].up = IF t = s THEN Tail(sk[t].up) ELSE sk[t].up
                             /\ Keeps(sk[t].down, sk'[t].down)
  BY <1>6, <1>9 DEF Outcome, Answers
<1>12. DocTypes'
  <2>1. serving' \in BOOLEAN
    BY <1>1 DEF DocTypes, SocketsOK
  <2> QED  BY <1>1, <1>9, <1>10, <1>11, <2>1, ServerTypes DEF Outcome
<1>13. Takes(s)
  BY <1>1, <1>11 DEF Takes, ServerOnly, ragVars
<1>14. CASE Begins
  <2>1. Quiet
    BY <1>1, <1>11, <1>14, ServerQuiet DEF Begins
  <2> QED  BY <1>10, <1>12, <1>13, <2>1 DEF m
<1>15. CASE ~Begins
  <2>1. m = Subscription /\ FeedOpens
    BY <1>9, <1>15 DEF Outcome, Begins, FeedOpens
  <2>2. SubAt(s, 1)
    BY <1>4, <2>1 DEF SubAt
  <2>3. Fresh
    BY <2>2 DEF Once
  <2>4. FeedBegins
    BY <1>1, <1>11, <2>1, <2>3, OpensFeed
  <2>5. ~(UNCHANGED <<storeVars, feed>>)
    BY <1>15 DEF Begins, StoreStep
  <2>6. inHand' = inHand
    BY <1>3, <2>5
  <2> QED  BY <1>12, <1>13, <2>1, <2>4, <2>6 DEF m
<1> QED  BY <1>14, <1>15

\* A handler goes on.
LEMMA HandlesMessage ==
    ASSUME DocTypes, Once, NEW h \in inHand, Handles(h) \/ Refuses(h)
    PROVE  /\ DocTypes' /\ inHand' = inHand \ {h} /\ rag' = rag
           /\ \A t \in Sockets : sk'[t].up = sk[t].up
           /\ Quiet \/ (FeedBegins /\ SubInHand(h))
<1>1. ServerOnly /\ UNCHANGED serving /\ inHand' = inHand \ {h}
  BY DEF Handles, Refuses, Server, Well, Fault, ServerOnly, S!Resume, S!Denied
<1>2. h.s \in Sockets /\ h.m \in Messages /\ sk \in [Sockets -> SocketStates]
  BY DEF DocTypes, SocketsOK
<1>3. \/ S!Handle(sk, h.s, h.m)
      \/ S!Auth(sk, h.s, h.m, FALSE)
      \/ S!Respond(sk, h.s, h.m.id, FALSE) /\ UNCHANGED <<S!storeVars, feed>>
  BY Zenon DEF Handles, Refuses, Server, S!Resume, S!Denied
<1>4. Outcome(sk, h.m)
  BY <1>2, <1>3, HandlerOutcome
<1>5. /\ sk' \in [Sockets -> SocketStates]
      /\ \A t \in Sockets : /\ sk'[t].c = sk[t].c /\ sk'[t].up = sk[t].up
                            /\ Keeps(sk[t].down, sk'[t].down)
  BY <1>4 DEF Outcome, Answers
<1>6. DocTypes'
  <2>1. serving' \in BOOLEAN /\ inHand' \subseteq [s : Sockets, m : Messages]
    BY <1>1 DEF DocTypes, SocketsOK
  <2> QED  BY <1>1, <1>4, <1>5, <2>1, ServerTypes DEF Outcome
<1>7. Quiet \/ (FeedBegins /\ SubInHand(h))
  <2>1. CASE Begins
    BY <1>1, <1>5, <2>1, ServerQuiet DEF Begins
  <2>2. CASE ~Begins
    <3>1. h.m = Subscription /\ FeedOpens
      BY <1>4, <2>2 DEF Outcome, Begins, FeedOpens
    <3>2. SubInHand(h)
      BY <3>1 DEF SubInHand
    <3>3. Fresh
      BY <3>2 DEF Once
    <3> QED  BY <1>1, <1>5, <3>1, <3>2, <3>3, OpensFeed
  <2> QED  BY <2>1, <2>2
<1> QED  BY <1>1, <1>5, <1>6, <1>7 DEF ServerOnly, ragVars
-----------------------------------------------------------------------------
\* A page of the feed: rows the user may see, after the last that it had.
Paged(q, last) ==
    /\ q \in Seq(FeedItems) /\ Ordered(q)
    /\ \A x \in InQueue(q) : Row(x) /\ feed.last <= x.aid /\ x.aid <= last
    /\ feed.last <= last /\ last \in 0..Len(log)

LEMMA SameCardinality == \A X : D!Cardinality(X) = Cardinality(X)
BY DEF D!Cardinality, D!IsFiniteSet, Cardinality, IsFiniteSet

\* A docstore has as many rows at the most as were written.
LEMMA UnreadFinite ==
    ASSUME DocTypes, NEW u
    PROVE  /\ IsFiniteSet(D!Unread(u)) /\ D!PageSize(u) \in Nat
           /\ \A d \in D!Unread(u) : /\ d \in Docs /\ rows[d] \in 1..Len(log)
                                     /\ rows[d] > feed.last /\ log[rows[d]].d = d
                                     /\ u \in {D!NoUser, log[rows[d]].user}
<1> DEFINE U == D!Unread(u)
           f == [d \in U |-> rows[d]]
<1>1. /\ rows \in [Docs -> 0..Len(log)] /\ Len(log) \in Nat
      /\ \A d \in Docs : rows[d] > 0 => log[rows[d]].d = d
  BY LenProperties DEF DocTypes, StoreOK
<1>2. \A d \in U : /\ d \in Docs /\ rows[d] > 0 /\ rows[d] > feed.last
                   /\ u \in {D!NoUser, log[rows[d]].user}
  BY Zenon DEF D!Unread, D!Mine
<1> HIDE DEF U
<1>3. \A d \in U : /\ d \in Docs /\ rows[d] \in 1..Len(log) /\ log[rows[d]].d = d
  BY <1>1, <1>2
<1>4. f \in Injection(U, 1..Len(log))
  <2>1. f \in [U -> 1..Len(log)]
    BY <1>3
  <2>2. \A a, b \in U : f[a] = f[b] => a = b
    <3>1. \A a, b \in U : f[a] = f[b] => rows[a] = rows[b]
      OBVIOUS
    <3>2. \A a \in U : log[rows[a]].d = a
      BY <1>3
    <3> HIDE DEF f
    <3> QED  BY <3>1, <3>2
  <2> QED  BY <2>1, <2>2 DEF Injection, IsInjective
<1> HIDE DEF f
<1>5. IsFiniteSet(1..Len(log))
  BY <1>1, FS_Interval
<1>6. IsFiniteSet(U)
  BY <1>4, <1>5, FS_Injection
<1>7. Cardinality(U) \in Nat
  BY <1>6, FS_CardinalityType
<1>8. D!PageSize(u) \in Nat
  <2>1. BATCH_SIZE \in Nat
    BY Sizes
  <2> QED  BY <1>7, <2>1, SameCardinality DEF D!PageSize, U
<1> QED  BY <1>2, <1>3, <1>6, <1>8 DEF U

\* The rows of a page are in order.
LEMMA PageInOrder ==
    ASSUME DocTypes, NEW u, NEW page \in D!Pages(u)
    PROVE  /\ page \in Seq(D!Unread(u)) /\ Len(page) = D!PageSize(u)
           /\ \A i, j \in 1..Len(page) : i < j => rows[page[i]] < rows[page[j]]
<1> DEFINE U == D!Unread(u)
           n == D!PageSize(u)
<1>1. n \in Nat
  BY UnreadFinite
<1>2. /\ page \in [1..n -> U]
      /\ \A i \in 1..n : \A d \in U : rows[d] < rows[page[i]] <=> \E j \in 1..(i - 1) : page[j] = d
  BY DEF D!Pages
<1> HIDE DEF U, n
<1>3. page \in Seq(U) /\ Len(page) = n
  BY <1>1, <1>2, SeqDef, LenProperties
<1>4. ASSUME NEW i \in 1..n, NEW j \in 1..n, i < j
      PROVE  rows[page[i]] < rows[page[j]]
  <2>1. i \in 1..(j - 1) /\ page[i] \in U
    BY <1>1, <1>2, <1>4
  <2> QED  BY <1>2, <2>1
<1> QED  BY <1>3, <1>4 DEF U, n

LEMMA PageItems ==
    ASSUME DocTypes, NEW page \in D!Pages(User)
    PROVE  Paged(D!Items(page), IF page = <<>> THEN feed.last ELSE rows[page[Len(page)]])
<1> DEFINE U == D!Unread(User)
           n == Len(page)
           last == IF page = <<>> THEN feed.last ELSE rows[page[n]]
           q == [i \in 1..n |-> D!Doc(page[i])]
<1>1. /\ page \in Seq(U) /\ \A i, j \in 1..n : i < j => rows[page[i]] < rows[page[j]]
      /\ n \in Nat /\ page = <<>> <=> n = 0
  <2>1. page \in Seq(U) /\ \A i, j \in 1..n : i < j => rows[page[i]] < rows[page[j]]
    BY PageInOrder
  <2> QED  BY <2>1, LenProperties, EmptySeq
<1>2. \A d \in U : /\ d \in Docs /\ rows[d] \in 1..Len(log)
                   /\ rows[d] > feed.last /\ log[rows[d]].d = d
                   /\ User \in {D!NoUser, log[rows[d]].user}
  BY UnreadFinite
<1>3. /\ feed.last \in 0..Len(log) /\ Len(log) \in Nat /\ log \in Seq(RowsWritten)
  BY LenProperties DEF DocTypes, StoreOK
<1>4. \A i \in 1..n : page[i] \in U
  BY <1>1, ElementOfSeq
<1> HIDE DEF U
<1>5. /\ feed.last <= last /\ last \in 0..Len(log)
      /\ \A i \in 1..n : rows[page[i]] <= last
  <2>1. CASE n = 0
    BY <1>1, <1>3, <2>1
  <2>2. CASE n # 0
    <3>1. n \in 1..n /\ last = rows[page[n]]
      BY <1>1, <2>2
    <3>2. rows[page[n]] \in 1..Len(log) /\ rows[page[n]] > feed.last
      BY <1>2, <1>4, <3>1
    <3>3. ASSUME NEW i \in 1..n PROVE rows[page[i]] <= rows[page[n]]
      <4>1. CASE i = n
        BY <3>2, <4>1
      <4>2. CASE i < n
        <5>1. rows[page[i]] < rows[page[n]]
          BY <1>1, <3>1, <4>2
        <5>2. rows[page[i]] \in 1..Len(log)
          BY <1>2, <1>4
        <5> QED  BY <1>3, <3>2, <5>1, <5>2
      <4> QED  BY <1>1, <4>1, <4>2
    <3> HIDE DEF last
    <3> QED  BY <1>3, <3>1, <3>2, <3>3
  <2> QED  BY <2>1, <2>2
<1> HIDE DEF last
<1>6. \A i \in 1..n : /\ q[i] \in DocItems /\ q[i].type = "doc" /\ q[i].aid = rows[page[i]]
                      /\ q[i].d = page[i] /\ q[i].n \in {0, log[rows[page[i]]].n}
  <2> SUFFICES ASSUME NEW i \in 1..n
               PROVE  /\ q[i] \in DocItems /\ q[i].type = "doc" /\ q[i].aid = rows[page[i]]
                      /\ q[i].d = page[i] /\ q[i].n \in {0, log[rows[page[i]]].n}
    OBVIOUS
  <2>1. \E n0 \in {0, log[rows[page[i]]].n} :
          q[i] = [type |-> "doc", d |-> page[i], aid |-> rows[page[i]], n |-> n0]
    BY DEF D!Doc
  <2>2. page[i] \in Docs /\ rows[page[i]] \in 1..Len(log)
    BY <1>2, <1>4
  <2>3. rows[page[i]] \in Nat /\ log[rows[page[i]]] \in RowsWritten
    BY <1>3, <2>2, ElementOfSeq
  <2>4. 0 \in 0..MaxVectors /\ log[rows[page[i]]].n \in 0..MaxVectors
    BY <2>3, Sizes DEF RowsWritten
  <2> HIDE DEF q
  <2>5. PICK n0 \in {0, log[rows[page[i]]].n} :
          q[i] = [type |-> "doc", d |-> page[i], aid |-> rows[page[i]], n |-> n0]
    BY <2>1
  <2>6. n0 \in 0..MaxVectors
    BY <2>4
  <2>7. q[i].type = "doc" /\ q[i].aid = rows[page[i]] /\ q[i].d = page[i] /\ q[i].n = n0
    BY <2>5
  <2>8. q[i] \in DocItems
    BY <2>2, <2>3, <2>5, <2>6 DEF DocItems
  <2> QED  BY <2>7, <2>8
<1>7. /\ q \in Seq(FeedItems) /\ Len(q) = n /\ DOMAIN q = 1..n
  <2>1. \A i \in 1..n : q[i] \in FeedItems
    BY <1>6 DEF FeedItems
  <2>2. q \in [1..n -> FeedItems]
    BY <2>1
  <2>3. DOMAIN q = 1..n
    OBVIOUS
  <2> HIDE DEF q
  <2>4. q \in Seq(FeedItems)
    BY <1>1, <2>2, SeqDef
  <2> QED  BY <1>1, <2>3, <2>4, LenProperties
<1> HIDE DEF q
<1>8. Ordered(q)
  <2> SUFFICES ASSUME NEW i \in 1..n, NEW j \in 1..n, i < j
               PROVE  q[i].aid <= q[j].aid
    BY <1>7 DEF Ordered
  <2>1. rows[page[i]] < rows[page[j]] /\ rows[page[i]] \in 1..Len(log) /\ rows[page[j]] \in 1..Len(log)
    BY <1>1, <1>2, <1>4
  <2> QED  BY <1>3, <1>6, <2>1
<1>9. ASSUME NEW x \in InQueue(q)
      PROVE  Row(x) /\ feed.last <= x.aid /\ x.aid <= last
  <2>1. PICK i \in 1..n : x = q[i]
    BY <1>7 DEF InQueue, ToSet
  <2>2. /\ x.aid = rows[page[i]] /\ x.d = page[i] /\ x.n \in {0, log[rows[page[i]]].n}
    BY <1>6, <2>1
  <2>3. /\ rows[page[i]] \in 1..Len(log) /\ rows[page[i]] > feed.last
        /\ log[rows[page[i]]].d = page[i] /\ User \in {D!NoUser, log[rows[page[i]]].user}
    BY <1>2, <1>4
  <2>4. Row(x)
    BY <2>2, <2>3 DEF Row
  <2> QED  BY <1>3, <1>5, <2>2, <2>3, <2>4
<1>10. Paged(q, last)
  BY <1>5, <1>7, <1>8, <1>9 DEF Paged
<1>11. Paged(Append(q, D!Eof), last)
  <2>1. Append(q, D!Eof) \in Seq(FeedItems) /\ Keeps(q, Append(q, D!Eof))
    BY <1>7, KeepsEof
  <2> QED  BY <1>10, <2>1 DEF Paged, Keeps
<1>12. D!Items(page) \in {q, Append(q, D!Eof)}
  BY DEF D!Items, q
<1> QED  BY <1>10, <1>11, <1>12 DEF last
-----------------------------------------------------------------------------
LEMMA SamePages ==
    ASSUME NEW u, NEW page
    PROVE  /\ page \in S!D!Pages(u) => page \in D!Pages(u)
           /\ S!D!Items(page) = D!Items(page)
           /\ S!D!Advance(page) => D!Advance(page)
<1>1. S!D!Unread(u) = D!Unread(u)
  BY Zenon DEF S!D!Unread, D!Unread, S!D!Mine, D!Mine, S!D!NoUser, D!NoUser
<1>2. S!D!PageSize(u) = D!PageSize(u)
  <2>1. \A X : S!D!Cardinality(X) = D!Cardinality(X)
    BY DEF S!D!Cardinality, S!D!IsFiniteSet, D!Cardinality, D!IsFiniteSet
  <2> QED  BY <1>1, <2>1 DEF S!D!PageSize, D!PageSize
<1>3. page \in S!D!Pages(u) => page \in D!Pages(u)
  BY <1>1, <1>2, Zenon DEF S!D!Pages, D!Pages
<1>4. S!D!Items(page) = D!Items(page)
  BY Zenon DEF S!D!Items, D!Items, S!D!Doc, D!Doc, S!D!Eof, D!Eof
<1>5. S!D!Advance(page) => D!Advance(page)
  BY Zenon DEF S!D!Advance, D!Advance
<1> QED  BY <1>3, <1>4, <1>5

\* The feed after a page.
LEMMA Advances ==
    ASSUME DocTypes, NEW page, NEW last \in 0..Len(log), D!Advance(page),
           last = IF page = <<>> THEN feed.last ELSE rows[page[Len(page)]]
    PROVE  /\ feed'.last = last /\ feed'.on = feed.on /\ feed'.sock = feed.sock
           /\ feed' \in [on : BOOLEAN, sock : {0} \cup Sockets, last : 0..Len(log), page : FeedPages]
<1> DEFINE N == 0..Len(log)
           X == {0} \cup Sockets
<1>1. feed \in [on : BOOLEAN, sock : X, last : N, page : FeedPages] /\ last \in N
  BY DEF DocTypes, StoreOK
<1>2. feed' = [feed EXCEPT !.page = IF @ = "none" THEN "first" ELSE "later", !.last = last]
  BY <1>1 DEF D!Advance
<1> HIDE DEF N, X
<1>3. feed' \in [on : BOOLEAN, sock : X, last : N, page : FeedPages]
  BY <1>1, <1>2 DEF FeedPages
<1>4. feed'.last = last /\ feed'.on = feed.on /\ feed'.sock = feed.sock
  <2>1. DOMAIN feed = {"on", "sock", "last", "page"}
    BY <1>1
  <2> QED  BY <1>2, <2>1
<1> QED  BY <1>3, <1>4 DEF N, X

\* A page goes to the buffer, or to the socket.
Fetches(q) ==
    /\ feed.on = TRUE /\ Paged(q, feed'.last) /\ feed'.on = feed.on /\ feed'.sock = feed.sock
    /\ UNCHANGED <<storeVars, batch, left, coll, perms, via>>
    /\ \/ /\ via = "local" /\ buffer = <<>> /\ buffer' = q
          /\ \A s \in Sockets : sk'[s].down = sk[s].down
       \/ /\ via # "local" /\ buffer' = buffer
          /\ \A s \in Sockets :
               \/ s # feed.sock /\ sk'[s].down = sk[s].down
               \/ s = feed.sock /\ sk[s].down = <<>> /\ sk'[s].down \in {<<>>, q}

LEMMA LocalFetchesTyped ==
    ASSUME DocTypes, LocalFetches
    PROVE  DocTypes' /\ NoSubscription /\ \E q : Fetches(q)
<1>1. /\ via = "local" /\ feed.on /\ buffer = <<>> /\ busy = "no"
      /\ UNCHANGED <<storeVars, serverVars, sk, clientVars, busy, ragVars, via, faults>>
  BY DEF LocalFetches, Rag, Well
<1>2. PICK page \in D!Pages(Me) : buffer' = D!Items(page) /\ D!Advance(page)
  BY DEF LocalFetches
<1> DEFINE q == D!Items(page)
           last == IF page = <<>> THEN feed.last ELSE rows[page[Len(page)]]
<1>3. User = Me
  BY <1>1, Zenon DEF User
<1>4. Paged(q, last)
  BY <1>2, <1>3, PageItems
<1>5. last \in 0..Len(log) /\ q \in Seq(FeedItems)
  BY <1>4 DEF Paged
<1>6. /\ feed'.last = last /\ feed'.on = feed.on /\ feed'.sock = feed.sock
      /\ feed' \in [on : BOOLEAN, sock : {0} \cup Sockets, last : 0..Len(log), page : FeedPages]
  BY <1>2, <1>5, Advances
<1>7. feed.on = TRUE
  BY <1>1 DEF DocTypes, StoreOK
<1>8. buffer' = q
  BY <1>2
<1> HIDE DEF q, last
<1>9. StoreOK'
  BY <1>1, <1>6 DEF DocTypes, StoreOK, storeVars
<1>10. SocketsOK'
  BY <1>1 DEF DocTypes, SocketsOK, serverVars
<1>11. ClientOK'
  <2>1. UNCHANGED <<cl, authing, req, sub, crashed, busy, sk>>
    BY <1>1 DEF clientVars
  <2>2. SocketOrder'
    BY <2>1, OrderSame
  <2> QED  BY <1>5, <1>8, <2>1, <2>2 DEF DocTypes, ClientOK
<1>12. RagOK'
  BY <1>1 DEF DocTypes, RagOK, ragVars
<1>13. NoSubscription
  BY <1>1, SameQueues DEF NoSubscription, serverVars, ragVars
<1>14. Fetches(q)
  BY <1>1, <1>4, <1>6, <1>7, <1>8 DEF Fetches, serverVars, ragVars
<1> QED  BY <1>9, <1>10, <1>11, <1>12, <1>13, <1>14 DEF DocTypes

\* What the server sends.
LEMMA SentPage ==
    ASSUME DocTypes, NEW s, NEW q \in Seq(FeedItems), sk' = S!Sent(sk, s, q), sk[s].down = <<>>
    PROVE  /\ sk' \in [Sockets -> SocketStates]
           /\ \A t \in Sockets : /\ sk'[t].c = sk[t].c /\ sk'[t].up = sk[t].up
                                 /\ t # s => sk'[t].down = sk[t].down
                                 /\ t = s => sk[t].down = <<>> /\ sk'[t].down \in {<<>>, q}
<1>1. /\ \A t \in Sockets : sk[t] \in SocketStates /\ DOMAIN sk[t] = {"c", "v", "up", "down", "auth"}
      /\ sk = [t \in Sockets |-> sk[t]] /\ DOMAIN sk = Sockets
  <2>1. \A t \in Sockets : sk[t] \in SocketStates
    BY DEF DocTypes, SocketsOK
  <2>2. sk = [t \in Sockets |-> sk[t]] /\ DOMAIN sk = Sockets
    BY DEF DocTypes, SocketsOK
  <2> QED  BY <2>1, <2>2 DEF SocketStates
<1>2. /\ q \in Seq(Items) /\ <<>> \o q = q
  BY SeqMonotonic, ConcatEmptySeq DEF Items
<1>3. sk' = sk \/ sk' = [sk EXCEPT ![s].down = q]
  BY <1>2 DEF S!Sent
<1>4. CASE sk' = sk
  BY <1>1, <1>4
<1>5. CASE sk' = [sk EXCEPT ![s].down = q]
  <2>1. /\ sk' = [t \in Sockets |-> sk'[t]]
        /\ \A t \in Sockets : IF t = s THEN sk'[t] = [sk[t] EXCEPT !.down = q] ELSE sk'[t] = sk[t]
    BY <1>1, <1>5
  <2>2. ASSUME NEW t \in Sockets PROVE sk'[t] \in SocketStates
    <3>1. [sk[t] EXCEPT !.down = q] \in SocketStates
      BY <1>1, <1>2, SocketWith
    <3> QED  BY <1>1, <2>1, <3>1
  <2>3. \A t \in Sockets : /\ sk'[t].c = sk[t].c /\ sk'[t].up = sk[t].up
                           /\ sk'[t].down = IF t = s THEN q ELSE sk[t].down
    BY <1>1, <2>1
  <2>4. sk' \in [Sockets -> SocketStates]
    BY <2>1, <2>2
  <2> QED  BY <2>3, <2>4
<1> QED  BY <1>3, <1>4, <1>5

LEMMA ServerFetchesTyped ==
    ASSUME DocTypes, ServerFetches
    PROVE  DocTypes' /\ NoSubscription /\ \E q : Fetches(q)
<1>1. /\ via # "local" /\ feed.on = TRUE /\ sk[feed.sock].down = <<>>
      /\ ServerOnly /\ UNCHANGED <<storeVars, inHand, serving>>
  <2>1. via = "socket" /\ feed.on /\ sk[feed.sock].down = <<>> /\ feed.on \in BOOLEAN
    BY DEF ServerFetches, Server, S!Fetch, DocTypes, StoreOK
  <2>2. UNCHANGED storeVars
    BY SameStore DEF ServerFetches, Server, S!Fetch
  <2>3. ServerOnly /\ UNCHANGED <<inHand, serving>>
    BY DEF ServerFetches, Server, S!Fetch, ServerOnly, Well
  <2> QED  BY <2>1, <2>2, <2>3
<1>2. PICK page \in S!D!Pages(S!Who) : sk' = S!Sent(sk, feed.sock, S!D!Items(page)) /\ S!D!Advance(page)
  BY DEF ServerFetches, Server, S!Fetch
<1> DEFINE q == D!Items(page)
           last == IF page = <<>> THEN feed.last ELSE rows[page[Len(page)]]
<1>3. User = S!Who
  BY <1>1, Zenon DEF User
<1>4. page \in D!Pages(User) /\ sk' = S!Sent(sk, feed.sock, q) /\ D!Advance(page)
  BY <1>2, <1>3, SamePages
<1>5. Paged(q, last)
  BY <1>4, PageItems
<1>6. last \in 0..Len(log) /\ q \in Seq(FeedItems)
  BY <1>5 DEF Paged
<1>7. /\ feed'.last = last /\ feed'.on = feed.on /\ feed'.sock = feed.sock
      /\ feed' \in [on : BOOLEAN, sock : {0} \cup Sockets, last : 0..Len(log), page : FeedPages]
  BY <1>4, <1>6, Advances
<1> HIDE DEF q, last
<1>8. /\ sk' \in [Sockets -> SocketStates]
      /\ \A t \in Sockets : /\ sk'[t].c = sk[t].c /\ sk'[t].up = sk[t].up
                            /\ t # feed.sock => sk'[t].down = sk[t].down
                            /\ t = feed.sock => sk[t].down = <<>> /\ sk'[t].down \in {<<>>, q}
  BY <1>1, <1>4, <1>6, SentPage
<1>9. StoreOK'
  BY <1>1, <1>7 DEF DocTypes, StoreOK, storeVars
<1>10. DocTypes'
  <2>1. serving' \in BOOLEAN /\ inHand' \subseteq [s : Sockets, m : Messages]
    BY <1>1 DEF DocTypes, SocketsOK
  <2> QED  BY <1>1, <1>8, <1>9, <2>1, ServerTypes
<1>11. NoSubscription
  BY <1>1, <1>8 DEF NoSubscription, UpStep, ServerOnly, ragVars
<1>12. Fetches(q)
  BY <1>1, <1>5, <1>7, <1>8 DEF Fetches, ServerOnly, ragVars
<1> QED  BY <1>10, <1>11, <1>12
-----------------------------------------------------------------------------
LEMMA BuffersTyped ==
    ASSUME DocTypes, NEW s \in Sockets, Buffers(s)
    PROVE  DocTypes' /\ NoSubscription
<1>1. /\ sk' \in [Sockets -> SocketStates]
      /\ \A t \in Sockets : sk'[t].c = sk[t].c /\ sk'[t].up = sk[t].up
      /\ buffer' = Append(buffer, Head(sk[s].down)) /\ Head(sk[s].down) \in FeedItems
      /\ UNCHANGED <<cl, authing, req, sub, crashed>> /\ Elsewhere
  BY DEF Buffers, Receives, FeedItems
<1>2. buffer' \in Seq(FeedItems)
  <2>1. buffer \in Seq(FeedItems)
    BY DEF DocTypes, ClientOK
  <2> QED  BY <1>1, <2>1, AppendProperties
<1>3. ClientOK'
  <2>1. SocketOrder'
    BY <1>1, OrderSame
  <2>2. busy' \in {"no", "yes", "stalled"}
    BY <1>1 DEF Elsewhere, DocTypes, ClientOK
  <2> QED  BY <1>1, <1>2, <2>1, <2>2 DEF DocTypes, ClientOK
<1>4. DocTypes'
  BY <1>1, <1>3, ElsewhereTypes
<1>5. NoSubscription
  BY <1>1 DEF NoSubscription, UpStep, Elsewhere, serverVars, ragVars, Starts
<1> QED  BY <1>4, <1>5

\* The vectors of a document.
VectorsOf(x) == {v \in Vectors : v.aid = x.aid /\ v.at[1] = x.d /\ v.at[2] <= x.n}

LEMMA ItemVectors ==
    ASSUME NEW x \in DocItems
    PROVE  R!Vectors(x) \in Seq(Vectors) /\ ToSet(R!Vectors(x)) \subseteq VectorsOf(x)
<1>1. /\ x.d \in Docs /\ x.aid \in Nat /\ x.n \in Nat /\ x.n <= MaxVectors /\ MaxVectors \in Nat
  <2>1. x.d \in Docs /\ x.aid \in Nat /\ x.n \in 0..MaxVectors
    BY DEF DocItems
  <2>2. MaxVectors \in Nat
    BY Sizes
  <2> QED  BY <2>1, <2>2
<1> DEFINE q == [i \in 1..x.n |-> [at |-> <<x.d, i>>, aid |-> x.aid]]
<1>2. R!Vectors(x) = q
  BY DEF R!Vectors
<1>3. \A i \in 1..x.n : q[i] \in VectorsOf(x)
  <2> SUFFICES ASSUME NEW i \in 1..x.n PROVE q[i] \in VectorsOf(x)
    OBVIOUS
  <2>1. i \in 1..MaxVectors /\ i <= x.n
    BY <1>1
  <2>2. <<x.d, i>> \in Slots
    BY <1>1, <2>1 DEF Slots
  <2>3. q[i] = [at |-> <<x.d, i>>, aid |-> x.aid]
    OBVIOUS
  <2> HIDE DEF q
  <2>4. q[i] \in Vectors
    BY <1>1, <2>2, <2>3 DEF Vectors
  <2> QED  BY <2>1, <2>3, <2>4 DEF VectorsOf
<1>4. DOMAIN q = 1..x.n /\ q \in [1..x.n -> Vectors]
  BY <1>3 DEF VectorsOf
<1> HIDE DEF q
<1>5. q \in Seq(Vectors)
  BY <1>1, <1>4, SeqDef
<1>6. ToSet(q) \subseteq VectorsOf(x)
  BY <1>3, <1>4 DEF ToSet
<1> QED  BY <1>2, <1>5, <1>6

\* What fills a batch.
LEMMA PushesTyped ==
    ASSUME NEW b \in Seq(Vectors), NEW vs \in Seq(Vectors), NEW f \in Nat,
           R!Storable(b) => Len(b) < RAG_BATCH_SIZE + f, R!Pushes(b, vs)
    PROVE  /\ batch' \in Seq(Vectors) /\ left' \in Seq(Vectors)
           /\ ToSet(batch') \subseteq ToSet(b) \cup ToSet(vs)
           /\ ToSet(left') \subseteq ToSet(vs)
           /\ busy' \in {"yes", "no"}
           /\ busy' # "yes" => left' = <<>>
           /\ (R!Storable(batch) => Len(batch) <= RAG_BATCH_SIZE + f)'
           /\ (busy # "yes" /\ R!Storable(batch) => Len(batch) < RAG_BATCH_SIZE + f)'
<1> DEFINE n == IF vs = <<>> THEN 0 ELSE R!Fits(b, vs)
<1>1. /\ RAG_BATCH_SIZE \in Nat /\ RAG_BATCH_SIZE > 0
      /\ Len(b) \in Nat /\ Len(vs) \in Nat
      /\ vs # <<>> => Len(vs) > 0
      /\ vs = <<>> => Len(vs) = 0
  <2>1. RAG_BATCH_SIZE \in Nat /\ RAG_BATCH_SIZE > 0
    BY Sizes
  <2>2. Len(b) \in Nat /\ Len(vs) \in Nat
    BY LenProperties
  <2>3. (vs # <<>> => Len(vs) > 0) /\ (vs = <<>> => Len(vs) = 0)
    BY EmptySeq
  <2> QED  BY <2>1, <2>2, <2>3
<1>2. /\ n \in 0..Len(vs)
      /\ vs # <<>> /\ Len(b) + n < RAG_BATCH_SIZE => n = Len(vs)
      /\ R!Storable(b) => Len(b) + n <= RAG_BATCH_SIZE + f
      /\ vs = <<>> => n = 0
  <2>1. CASE vs = <<>>
    BY <1>1, <2>1
  <2>2. CASE vs # <<>>
    <3>1. n = IF Len(vs) < RAG_BATCH_SIZE - Len(b) THEN Len(vs)
              ELSE IF Len(b) < RAG_BATCH_SIZE THEN RAG_BATCH_SIZE - Len(b) ELSE 1
      BY <2>2 DEF R!Fits
    <3> HIDE DEF n
    <3>2. CASE Len(vs) < RAG_BATCH_SIZE - Len(b)
      <4>1. n = Len(vs)
        BY <3>1, <3>2
      <4> QED  BY <1>1, <2>2, <3>2, <4>1
    <3>3. CASE ~(Len(vs) < RAG_BATCH_SIZE - Len(b)) /\ Len(b) < RAG_BATCH_SIZE
      <4>1. n = RAG_BATCH_SIZE - Len(b)
        BY <3>1, <3>3
      <4> QED  BY <1>1, <2>2, <3>3, <4>1
    <3>4. CASE ~(Len(vs) < RAG_BATCH_SIZE - Len(b)) /\ ~(Len(b) < RAG_BATCH_SIZE)
      <4>1. n = 1
        BY <3>1, <3>4
      <4> QED  BY <1>1, <2>2, <3>4, <4>1
    <3> QED  BY <3>2, <3>3, <3>4
  <2> QED  BY <2>1, <2>2
<1>3. /\ batch' = b \o SubSeq(vs, 1, n) /\ left' = SubSeq(vs, n + 1, Len(vs))
      /\ busy' = IF vs # <<>> /\ Len(batch') >= RAG_BATCH_SIZE THEN "yes" ELSE "no"
  BY DEF R!Pushes, R!Full
<1> HIDE DEF n
<1>4. /\ SubSeq(vs, 1, n) \in Seq(Vectors) /\ left' \in Seq(Vectors)
      /\ Len(SubSeq(vs, 1, n)) = n /\ Len(left') = Len(vs) - n
      /\ ToSet(SubSeq(vs, 1, n)) \subseteq ToSet(vs) /\ ToSet(left') \subseteq ToSet(vs)
  BY <1>2, <1>3, CutElements
<1>5. /\ batch' \in Seq(Vectors) /\ Len(batch') = Len(b) + n
      /\ ToSet(batch') \subseteq ToSet(b) \cup ToSet(vs)
  <2> DEFINE w == SubSeq(vs, 1, n)
  <2>1. w \in Seq(Vectors) /\ Len(w) = n /\ ToSet(w) \subseteq ToSet(vs) /\ batch' = b \o w
    BY <1>3, <1>4
  <2> HIDE DEF w
  <2>2. batch' \in Seq(Vectors) /\ ToSet(batch') = ToSet(b) \cup ToSet(w)
    BY <2>1, ConcatElements
  <2>3. Len(batch') = Len(b) + Len(w)
    BY <2>1, ConcatProperties
  <2> QED  BY <2>1, <2>2, <2>3
<1>6. ASSUME busy' # "yes" PROVE left' = <<>> /\ (R!Storable(b) => Len(batch') < RAG_BATCH_SIZE + f)
  <2>1. CASE vs = <<>>
    <3>1. Len(left') = 0 /\ Len(batch') = Len(b)
      BY <1>1, <1>2, <1>4, <1>5, <2>1
    <3> QED  BY <1>4, <3>1, EmptySeq
  <2>2. CASE vs # <<>>
    <3>1. Len(b) + n < RAG_BATCH_SIZE
      BY <1>1, <1>2, <1>3, <1>5, <1>6, <2>2
    <3>2. Len(left') = 0
      BY <1>1, <1>2, <1>4, <2>2, <3>1
    <3>3. Len(batch') < RAG_BATCH_SIZE + f
      BY <1>1, <1>2, <1>5, <3>1
    <3> QED  BY <1>4, <3>2, <3>3, EmptySeq
  <2> QED  BY <2>1, <2>2
<1>7. R!Storable(batch)' => R!Storable(b)
  <2>1. \A i \in 1..Len(b) : i \in 1..Len(batch') /\ batch'[i] = b[i]
    BY <1>1, <1>2, <1>3, <1>4, <1>5, ConcatProperties
  <2> QED  BY <2>1 DEF R!Storable
<1> QED  BY <1>2, <1>3, <1>4, <1>5, <1>6, <1>7
-----------------------------------------------------------------------------
\* The callback takes a document, and puts what fits into the batch.
Unpacks(x) ==
    /\ buffer # <<>> /\ x = Head(buffer) /\ x \in DocItems
    /\ buffer' = Tail(buffer)
    /\ ToSet(batch') \subseteq ToSet(batch) \cup VectorsOf(x)
    /\ ToSet(left') \subseteq VectorsOf(x)
    /\ UNCHANGED <<storeVars, feed, sk, coll, perms, via>>

\* A batch is stored, and what is left of the document becomes the next.
StoresBatch ==
    /\ ToSet(batch') \subseteq ToSet(left) /\ ToSet(left') \subseteq ToSet(left)
    /\ \A c \in Slots : coll'[c] = coll[c]
                        \/ \E v \in ToSet(batch) : v.at = c /\ v.aid = coll'[c]
    /\ UNCHANGED <<storeVars, feed, sk, buffer, perms, via>>

LEMMA CallsTyped ==
    ASSUME DocTypes, Calls
    PROVE  /\ DocTypes' /\ NoSubscription
           /\ Quiet \/ \E x : Unpacks(x)
<1> DEFINE x == Head(buffer)
<1>1. /\ buffer # <<>> /\ busy = "no" /\ buffer' = Tail(buffer)
      /\ UNCHANGED <<storeVars, serverVars, feed, sk, clientVars, coll, via, faults>>
  BY DEF Calls, Rag, R!Call, R!MayCall, Well
<1>2. /\ buffer \in Seq(FeedItems) /\ x \in FeedItems /\ Tail(buffer) \in Seq(FeedItems)
      /\ Keeps(buffer, Tail(buffer))
  <2>1. buffer \in Seq(FeedItems)
    BY DEF DocTypes, ClientOK
  <2> QED  BY <1>1, <2>1, HeadTailElements, SameBuffer, KeepsRest
<1>3. /\ left = <<>> /\ atEof = FALSE /\ (R!Storable(batch) => Len(batch) < RAG_BATCH_SIZE + faults)
      /\ batch \in Seq(Vectors) /\ left \in Seq(Vectors) /\ faults \in Nat
      /\ rag \in {"idle", "asking", "clearing", "syncing", "ready", "failed", "stopped"}
  BY <1>1 DEF DocTypes, RagOK, SocketsOK
<1>4. /\ IF x.type = "eof"
           THEN /\ busy' = IF batch = <<>> THEN "no" ELSE "yes"
                /\ atEof' = (batch # <<>>)
                /\ rag' = IF batch = <<>> /\ rag = "syncing" THEN "ready" ELSE rag
                /\ UNCHANGED <<batch, left>>
           ELSE R!Pushes(batch, R!Vectors(x)) /\ UNCHANGED <<atEof, rag>>
  BY DEF Calls, Rag, R!Call
<1>5. StoreOK' /\ SocketsOK' /\ StoreStep
  <2>1. StoreOK' /\ StoreStep
    BY <1>1, StoreKept
  <2>2. SocketsOK'
    BY <1>1 DEF DocTypes, SocketsOK, serverVars
  <2> QED  BY <2>1, <2>2
<1>6. busy' \in {"no", "yes", "stalled"} => ClientOK'
  <2>1. UNCHANGED <<cl, authing, req, sub, crashed, sk>>
    BY <1>1 DEF clientVars
  <2>2. SocketOrder'
    BY <2>1, OrderSame
  <2> QED  BY <1>1, <1>2, <2>1, <2>2 DEF DocTypes, ClientOK
<1>7. rag' \in {rag, "ready"} => NoSubscription
  BY <1>1, SameQueues DEF NoSubscription, serverVars
<1>8. coll' = coll /\ coll \in [Slots -> Nat] /\ perms' = perms
  BY <1>1 DEF DocTypes, RagOK, serverVars
<1> HIDE DEF x
<1>9. CASE x.type = "eof"
  <2>1. /\ busy' \in {"no", "yes"} /\ atEof' \in BOOLEAN /\ rag' \in {rag, "ready"}
        /\ UNCHANGED <<batch, left>> /\ (busy' # "yes" => ~atEof')
    BY <1>4, <1>9
  <2>2. RagOK'
    <3>1. /\ (R!Storable(batch) => Len(batch) <= RAG_BATCH_SIZE + faults)'
          /\ (R!Storable(batch) => Len(batch) < RAG_BATCH_SIZE + faults)'
      BY <1>1, <2>1, SameBatch
    <3> QED  BY <1>1, <1>3, <1>8, <2>1, <3>1 DEF RagOK
  <2>3. Quiet
    BY <1>1, <1>2, <1>5, <1>8, <2>1, SameQueues DEF Quiet
  <2> QED  BY <1>5, <1>6, <1>7, <2>1, <2>2, <2>3 DEF DocTypes
<1>10. CASE x.type # "eof"
  <2>1. R!Pushes(batch, R!Vectors(x)) /\ UNCHANGED <<atEof, rag>>
    BY <1>4, <1>10
  <2>2. x \in DocItems
    BY <1>2, <1>10 DEF FeedItems, D!Eof
  <2>3. R!Vectors(x) \in Seq(Vectors) /\ ToSet(R!Vectors(x)) \subseteq VectorsOf(x)
    BY <2>2, ItemVectors
  <2>4. /\ batch' \in Seq(Vectors) /\ left' \in Seq(Vectors)
        /\ ToSet(batch') \subseteq ToSet(batch) \cup ToSet(R!Vectors(x))
        /\ ToSet(left') \subseteq ToSet(R!Vectors(x))
        /\ busy' \in {"yes", "no"}
        /\ busy' # "yes" => left' = <<>>
        /\ (R!Storable(batch) => Len(batch) <= RAG_BATCH_SIZE + faults)'
        /\ (busy # "yes" /\ R!Storable(batch) => Len(batch) < RAG_BATCH_SIZE + faults)'
    BY <1>1, <1>3, <2>1, <2>3, PushesTyped
  <2>5. RagOK'
    BY <1>1, <1>3, <1>8, <2>1, <2>4 DEF RagOK
  <2>6. Unpacks(x)
    BY <1>1, <1>8, <2>2, <2>3, <2>4 DEF Unpacks, x
  <2> QED  BY <1>5, <1>6, <1>7, <2>1, <2>4, <2>5, <2>6 DEF DocTypes
<1> QED  BY <1>9, <1>10

\* What is stored comes from the batch.
LEMMA StoredFrom ==
    ASSUME NEW c \in DOMAIN coll, NEW b \in Seq(Vectors)
    PROVE  R!Stored(b)[c] = coll[c] \/ \E v \in ToSet(b) : v.at = c /\ v.aid = R!Stored(b)[c]
<1> DEFINE e == CHOOSE i \in 1..Len(b) : b[i].at = c
<1>1. R!Stored(b)[c] = IF \E i \in 1..Len(b) : b[i].at = c THEN b[e].aid ELSE coll[c]
  BY DEF R!Stored
<1>2. DOMAIN b = 1..Len(b)
  BY LenProperties
<1>3. (\E i \in 1..Len(b) : b[i].at = c) => e \in 1..Len(b) /\ b[e].at = c
  OBVIOUS
<1> HIDE DEF e
<1> QED  BY <1>1, <1>2, <1>3 DEF ToSet

LEMMA StoresTyped ==
    ASSUME DocTypes, Stores
    PROVE  DocTypes' /\ NoSubscription /\ StoresBatch
<1>1. /\ busy = "yes" /\ coll' = R!Stored(batch) /\ R!Pushes(<<>>, left)
      /\ atEof' = FALSE /\ rag' \in {rag, "ready"} /\ buffer' = buffer
      /\ UNCHANGED <<storeVars, serverVars, feed, sk, clientVars, via, faults>>
  BY DEF Stores, Rag, R!StoreBatch, R!NextBatch, Well
<1>2. /\ batch \in Seq(Vectors) /\ left \in Seq(Vectors) /\ faults \in Nat
      /\ rag' \in {"idle", "asking", "clearing", "syncing", "ready", "failed", "stopped"}
      /\ coll \in [Slots -> Nat]
  BY <1>1 DEF DocTypes, RagOK, SocketsOK
<1>3. /\ batch' \in Seq(Vectors) /\ left' \in Seq(Vectors)
      /\ ToSet(batch') \subseteq ToSet(left) /\ ToSet(left') \subseteq ToSet(left)
      /\ busy' \in {"yes", "no"}
      /\ busy' # "yes" => left' = <<>>
      /\ (R!Storable(batch) => Len(batch) <= RAG_BATCH_SIZE + faults)'
      /\ (busy # "yes" /\ R!Storable(batch) => Len(batch) < RAG_BATCH_SIZE + faults)'
  <2>1. <<>> \in Seq(Vectors) /\ Len(<<>>) = 0 /\ ToSet(<<>>) = {}
    BY EmptySeq DEF ToSet
  <2>2. Len(<<>>) < RAG_BATCH_SIZE + faults
    BY <1>2, <2>1, Sizes
  <2>3. /\ batch' \in Seq(Vectors) /\ left' \in Seq(Vectors)
        /\ ToSet(batch') \subseteq ToSet(<<>>) \cup ToSet(left) /\ ToSet(left') \subseteq ToSet(left)
        /\ busy' \in {"yes", "no"}
        /\ busy' # "yes" => left' = <<>>
        /\ (R!Storable(batch) => Len(batch) <= RAG_BATCH_SIZE + faults)'
        /\ (busy # "yes" /\ R!Storable(batch) => Len(batch) < RAG_BATCH_SIZE + faults)'
    BY <1>1, <1>2, <2>1, <2>2, PushesTyped
  <2> QED  BY <2>1, <2>3
<1>4. \A c \in Slots : coll'[c] = coll[c] \/ \E v \in ToSet(batch) : v.at = c /\ v.aid = coll'[c]
  <2>1. DOMAIN coll = Slots
    BY <1>2
  <2> QED  BY <1>1, <1>2, <2>1, StoredFrom
<1>5. coll' \in [Slots -> Nat]
  <2>1. \A v \in ToSet(batch) : v.aid \in Nat
    <3>1. \A i \in 1..Len(batch) : batch[i] \in Vectors
      BY <1>2, ElementOfSeq
    <3>2. DOMAIN batch = 1..Len(batch)
      BY <1>2, LenProperties
    <3> QED  BY <3>1, <3>2 DEF ToSet, Vectors
  <2>2. \A c \in Slots : coll'[c] \in Nat
    BY <1>2, <1>4, <2>1
  <2>3. coll' = [c \in Slots |-> coll'[c]]
    BY <1>1, <1>2 DEF R!Stored
  <2> QED  BY <2>2, <2>3
<1>6. StoreOK' /\ SocketsOK'
  <2>1. StoreOK'
    BY <1>1, StoreKept
  <2>2. SocketsOK'
    BY <1>1 DEF DocTypes, SocketsOK, serverVars
  <2> QED  BY <2>1, <2>2
<1>7. ClientOK'
  <2>1. UNCHANGED <<cl, authing, req, sub, crashed, sk>>
    BY <1>1 DEF clientVars
  <2>2. SocketOrder'
    BY <2>1, OrderSame
  <2> QED  BY <1>1, <1>3, <2>1, <2>2 DEF DocTypes, ClientOK
<1>8. RagOK'
  BY <1>1, <1>2, <1>3, <1>5 DEF RagOK
<1>9. NoSubscription
  BY <1>1, SameQueues DEF NoSubscription, serverVars
<1>10. StoresBatch
  BY <1>1, <1>3, <1>4 DEF StoresBatch, serverVars
<1> QED  BY <1>6, <1>7, <1>8, <1>9, <1>10 DEF DocTypes
-----------------------------------------------------------------------------
\* What travels, by its types.
LEMMA Travels ==
    ASSUME DocTypes
    PROVE  /\ \A x \in Down \cup Buffered : x \in DocItems /\ x.aid \in Nat
           /\ \A v \in ToSet(batch) \cup ToSet(left) : v \in Vectors /\ v.aid \in Nat
           /\ \A c \in Slots : coll[c] \in Nat
           /\ Len(log) \in Nat /\ feed.last \in 0..Len(log) /\ feed.on \in BOOLEAN
<1>1. ASSUME NEW q \in Seq(Items), NEW x \in InQueue(q) PROVE x \in DocItems /\ x.aid \in Nat
  <2>1. x \in ToSet(q) /\ x.type = "doc"
    BY <1>1 DEF InQueue
  <2>2. x \in Items
    <3>1. DOMAIN q = 1..Len(q) /\ \A i \in 1..Len(q) : q[i] \in Items
      BY LenProperties, ElementOfSeq
    <3> QED  BY <2>1, <3>1 DEF ToSet
  <2>3. x \in DocItems
    BY <2>1, <2>2 DEF Items, FeedItems, D!Eof, Responses
  <2> QED  BY <2>3 DEF DocItems
<1>2. \A x \in Down : x \in DocItems /\ x.aid \in Nat
  <2>1. \A s \in Sockets : sk[s].down \in Seq(Items)
    BY DEF DocTypes, SocketsOK, SocketStates
  <2> QED  BY <1>1, <2>1 DEF Down
<1>3. \A x \in Buffered : x \in DocItems /\ x.aid \in Nat
  BY <1>1, SameBuffer DEF Buffered
<1>4. ASSUME NEW q \in Seq(Vectors), NEW v \in ToSet(q) PROVE v \in Vectors /\ v.aid \in Nat
  <2>1. DOMAIN q = 1..Len(q) /\ \A i \in 1..Len(q) : q[i] \in Vectors
    BY LenProperties, ElementOfSeq
  <2>2. v \in Vectors
    BY <1>4, <2>1 DEF ToSet
  <2> QED  BY <2>2 DEF Vectors
<1>5. \A v \in ToSet(batch) \cup ToSet(left) : v \in Vectors /\ v.aid \in Nat
  <2>1. batch \in Seq(Vectors) /\ left \in Seq(Vectors)
    BY DEF DocTypes, RagOK
  <2> QED  BY <1>4, <2>1
<1>6. \A c \in Slots : coll[c] \in Nat
  BY DEF DocTypes, RagOK
<1>7. Len(log) \in Nat /\ feed.last \in 0..Len(log) /\ feed.on \in BOOLEAN
  BY LenProperties DEF DocTypes, StoreOK
<1> QED  BY <1>2, <1>3, <1>5, <1>6, <1>7

\* A row stays where it is in the log.
LEMMA RowsKept ==
    ASSUME DocTypes, StoreStep, UNCHANGED <<perms, via>>
    PROVE  /\ User' = User /\ Len(log') \in Nat /\ Len(log') >= Len(log)
           /\ \A x : Row(x) => Row(x)'
           /\ \A v : Copied(v) => Copied(v)'
<1>1. User' = User
  BY Zenon DEF User, S!Who, S!D!NoUser
<1>2. /\ Len(log) \in Nat /\ Len(log') \in Nat /\ Len(log') >= Len(log)
      /\ \A i \in 1..Len(log) : i \in 1..Len(log') /\ log'[i] = log[i]
  <2>1. Grows
    BY StoreTyped
  <2>2. Len(log) \in Nat
    BY LenProperties DEF DocTypes, StoreOK
  <2> QED  BY <2>1, <2>2 DEF Grows
<1>3. ASSUME NEW x, Row(x) PROVE Row(x)'
  BY <1>1, <1>2, <1>3 DEF Row
<1>4. ASSUME NEW v, Copied(v) PROVE Copied(v)'
  BY <1>1, <1>2, <1>4 DEF Copied, Replica!Comes
<1> QED  BY <1>1, <1>2, <1>3, <1>4

\* A step that starts nothing.
LEMMA QuietKeeps ==
    ASSUME DocTypes, Origins, Chain, Quiet
    PROVE  Origins' /\ Chain' /\ (Fresh => Fresh')
<1>1. /\ \A s \in Sockets : InQueue(sk'[s].down) \subseteq InQueue(sk[s].down)
                            /\ (Ordered(sk[s].down) => Ordered(sk'[s].down))
      /\ Buffered' \subseteq Buffered /\ (Ordered(buffer) => Ordered(buffer'))
  BY DEF Quiet, Keeps, Buffered
<1>2. Down' \subseteq Down
  BY <1>1 DEF Down
<1>3. /\ batch' = batch /\ coll' = coll /\ perms' = perms /\ via' = via
      /\ left' \in {left, <<>>} /\ feed' \in {feed, D!NoFeed} /\ StoreStep
  BY DEF Quiet
<1>4. ToSet(left') \subseteq ToSet(left)
  BY <1>3 DEF ToSet
<1>5. Origins'
  <2>1. \A x \in Down \cup Buffered : Row(x)'
    BY <1>3, RowsKept DEF Origins
  <2>2. \A v \in ToSet(batch) \cup ToSet(left) : Copied(v)'
    BY <1>3, RowsKept DEF Origins
  <2>3. \A x \in Down' \cup Buffered' : Row(x)'
    BY <1>1, <1>2, <2>1
  <2>4. \A v \in ToSet(batch') \cup ToSet(left') : Copied(v)'
    BY <1>3, <1>4, <2>2
  <2> QED  BY <2>3, <2>4 DEF Origins
<1>6. D!NoFeed.on = FALSE
  BY DEF D!NoFeed
<1>7. Chain'
  <2>1. \A c \in Slots : \A v \in ToSet(batch') \cup ToSet(left') \cup Buffered' \cup Down' : coll'[c] <= v.aid
    BY <1>1, <1>2, <1>3, <1>4 DEF Chain
  <2>2. /\ Before(ToSet(batch'), ToSet(left') \cup Buffered' \cup Down')
        /\ Before(ToSet(left'), ToSet(left') \cup Buffered' \cup Down')
        /\ Before(Buffered', Down')
    BY <1>1, <1>2, <1>3, <1>4 DEF Chain, Before
  <2>3. Ordered(buffer') /\ \A s \in Sockets : Ordered(sk'[s].down)
    BY <1>1 DEF Chain
  <2>4. \A s, t \in Sockets : InQueue(sk'[s].down) # {} /\ InQueue(sk'[t].down) # {} => s = t
    BY <1>1 DEF Chain
  <2>5. ASSUME feed'.on
        PROVE  /\ \A c \in Slots : coll'[c] <= feed'.last
               /\ \A v \in ToSet(batch') \cup ToSet(left') \cup Buffered' \cup Down' : v.aid <= feed'.last
               /\ \A s \in Sockets : InQueue(sk'[s].down) # {} => s = feed'.sock
    <3>1. feed' = feed /\ feed.on
      BY <1>3, <1>6, <2>5
    <3> QED  BY <1>1, <1>2, <1>3, <1>4, <3>1 DEF Chain
  <2>6. via' = "local" => Down' = {}
    BY <1>2, <1>3 DEF Chain
  <2> QED  BY <2>1, <2>2, <2>3, <2>4, <2>5, <2>6 DEF Chain
<1>8. Fresh => Fresh'
  <2> SUFFICES ASSUME Fresh PROVE Fresh'
    OBVIOUS
  <2>1. ~feed'.on
    BY <1>3, <1>6 DEF Fresh
  <2>2. coll' = [c \in Slots |-> 0] /\ batch' = <<>> /\ left' = <<>>
    BY <1>3 DEF Fresh
  <2>3. Buffered' = {} /\ Down' = {}
    BY <1>1, <1>2 DEF Fresh
  <2> QED  BY <2>1, <2>2, <2>3 DEF Fresh
<1> QED  BY <1>5, <1>7, <1>8
-----------------------------------------------------------------------------
\* A document moves into the buffer.
LEMMA BuffersKeeps ==
    ASSUME DocTypes, Origins, Chain, NEW s \in Sockets, Buffers(s)
    PROVE  Origins' /\ Chain' /\ ~Fresh
<1> DEFINE q == sk[s].down
           x == Head(q)
<1>1. /\ q # <<>> /\ x \in DocItems /\ buffer' = Append(buffer, x)
      /\ \A t \in Sockets : sk'[t].down = IF t = s THEN Tail(sk[t].down) ELSE sk[t].down
      /\ UNCHANGED <<storeVars, feed, perms, via, batch, left, coll>>
  BY DEF Buffers, Receives, Elsewhere, Starts, ragVars, serverVars
<1>2. q \in Seq(Items) /\ buffer \in Seq(Items)
  <2>1. sk[s] \in SocketStates
    BY DEF DocTypes, SocketsOK
  <2> QED  BY <2>1, SameBuffer DEF SocketStates
<1>3. /\ x.type = "doc" /\ x.aid \in Nat /\ x = q[1] /\ Tail(q) \in Seq(Items)
      /\ ToSet(q) = {x} \cup ToSet(Tail(q)) /\ Len(q) \in Nat /\ Len(q) >= 1
      /\ Len(Tail(q)) = Len(q) - 1 /\ \A i \in 1..Len(Tail(q)) : Tail(q)[i] = q[i + 1]
  <2>1. x.type = "doc" /\ x.aid \in Nat
    BY <1>1 DEF DocItems
  <2>2. Len(q) \in Nat /\ Len(q) >= 1
    BY <1>1, <1>2, LenProperties, EmptySeq
  <2> QED  BY <1>1, <1>2, <2>1, <2>2, HeadTailElements
<1> HIDE DEF q, x
<1>4. x \in InQueue(q) /\ x \in Down
  BY <1>3 DEF InQueue, Down, q
<1>5. Keeps(q, Tail(q))
  BY <1>1, <1>2, KeepsRest
<1>6. \A t \in Sockets : InQueue(sk'[t].down) \subseteq InQueue(sk[t].down)
                         /\ (Ordered(sk[t].down) => Ordered(sk'[t].down))
  BY <1>1, <1>5 DEF Keeps, q
<1>7. Down' \subseteq Down
  BY <1>6 DEF Down
<1>8. /\ Buffered' = Buffered \cup {x}
      /\ Ordered(buffer')
  <2>1. <<x>> \in Seq(Items) /\ Append(buffer, x) = buffer \o <<x>>
    <3>1. x \in Items
      BY <1>1 DEF Items, FeedItems
    <3> QED  BY <1>2, <3>1, AppendIsConcat
  <2>2. Len(<<x>>) = 1 /\ ToSet(<<x>>) = {x}
    BY DEF ToSet
  <2>3. InQueue(<<x>>) = {x} /\ Ordered(<<x>>)
    BY <1>3, <2>2 DEF InQueue, Ordered
  <2>4. Before(InQueue(buffer), InQueue(<<x>>))
    BY <1>4, <2>3 DEF Chain, Before, Buffered
  <2>5. Ordered(buffer)
    BY DEF Chain
  <2>6. InQueue(buffer') = InQueue(buffer) \cup {x} /\ Ordered(buffer')
    BY <1>1, <1>2, <2>1, <2>3, <2>4, <2>5, Joined
  <2> QED  BY <2>6 DEF Buffered
<1>9. \A y \in Down' : x.aid <= y.aid
  <2> SUFFICES ASSUME NEW y \in Down' PROVE x.aid <= y.aid
    OBVIOUS
  <2>1. PICK t \in Sockets : y \in InQueue(sk'[t].down)
    BY DEF Down
  <2>2. t = s
    BY <1>4, <1>6, <2>1 DEF Chain, q
  <2>3. y \in ToSet(Tail(q)) /\ y.type = "doc"
    BY <1>1, <2>1, <2>2 DEF InQueue, q
  <2>4. PICK i \in 1..Len(Tail(q)) : y = Tail(q)[i]
    <3>1. DOMAIN Tail(q) = 1..Len(Tail(q))
      BY <1>3, LenProperties
    <3> QED  BY <2>3, <3>1 DEF ToSet
  <2>5. i + 1 \in 1..Len(q) /\ 1 \in 1..Len(q) /\ 1 < i + 1 /\ y = q[i + 1]
    BY <1>3, <2>4
  <2>6. Ordered(q)
    BY DEF Chain, q
  <2> QED  BY <1>3, <2>3, <2>5, <2>6 DEF Ordered
<1>10. /\ batch' = batch /\ left' = left /\ coll' = coll /\ feed' = feed
       /\ perms' = perms /\ via' = via /\ StoreStep
  BY <1>1 DEF StoreStep
<1>11. Origins'
  <2>1. \A y \in Down \cup Buffered : Row(y)'
    BY <1>10, RowsKept DEF Origins
  <2>2. \A v \in ToSet(batch) \cup ToSet(left) : Copied(v)'
    BY <1>10, RowsKept DEF Origins
  <2>3. \A y \in Down' \cup Buffered' : Row(y)'
    BY <1>4, <1>7, <1>8, <2>1
  <2>4. \A v \in ToSet(batch') \cup ToSet(left') : Copied(v)'
    BY <1>10, <2>2
  <2> QED  BY <2>3, <2>4 DEF Origins
<1>12. Chain'
  <2>1. Down' \cup Buffered' \subseteq Down \cup Buffered
    BY <1>4, <1>7, <1>8
  <2>2. \A c \in Slots : \A v \in ToSet(batch') \cup ToSet(left') \cup Buffered' \cup Down' : coll'[c] <= v.aid
    BY <1>10, <2>1 DEF Chain
  <2>3. /\ Before(ToSet(batch'), ToSet(left') \cup Buffered' \cup Down')
        /\ Before(ToSet(left'), ToSet(left') \cup Buffered' \cup Down')
    BY <1>10, <2>1 DEF Chain, Before
  <2>4. Before(Buffered', Down')
    BY <1>7, <1>8, <1>9 DEF Chain, Before
  <2>5. \A t \in Sockets : Ordered(sk'[t].down)
    BY <1>6 DEF Chain
  <2>6. \A t, u \in Sockets : InQueue(sk'[t].down) # {} /\ InQueue(sk'[u].down) # {} => t = u
    BY <1>6 DEF Chain
  <2>7. feed'.on => /\ \A c \in Slots : coll'[c] <= feed'.last
                    /\ \A v \in ToSet(batch') \cup ToSet(left') \cup Buffered' \cup Down' : v.aid <= feed'.last
                    /\ \A t \in Sockets : InQueue(sk'[t].down) # {} => t = feed'.sock
    BY <1>6, <1>10, <2>1 DEF Chain
  <2>8. via' = "local" => Down' = {}
    BY <1>7, <1>10 DEF Chain
  <2> QED  BY <1>8, <2>2, <2>3, <2>4, <2>5, <2>6, <2>7, <2>8 DEF Chain
<1> QED  BY <1>4, <1>11, <1>12 DEF Fresh

\* A feed begins where there is nothing yet.
LEMMA FeedBeginsKeeps ==
    ASSUME DocTypes, FeedBegins
    PROVE  Origins' /\ Chain'
<1>1. /\ coll = [c \in Slots |-> 0] /\ batch = <<>> /\ left = <<>> /\ Buffered = {} /\ Down = {}
  BY DEF FeedBegins, Fresh
<1>2. /\ batch' = <<>> /\ left' = <<>> /\ coll' = [c \in Slots |-> 0] /\ buffer' = buffer
      /\ feed'.last = 0 /\ \A s \in Sockets : Keeps(sk[s].down, sk'[s].down)
  BY <1>1 DEF FeedBegins
<1>3. Buffered' = {} /\ ToSet(batch') = {} /\ ToSet(left') = {}
  BY <1>1, <1>2 DEF Buffered, ToSet
<1>4. \A s \in Sockets : InQueue(sk[s].down) = {} /\ InQueue(sk'[s].down) = {}
  BY <1>1, <1>2 DEF Down, Keeps
<1>5. Down' = {}
  BY <1>4 DEF Down
<1>6. Origins'
  BY <1>3, <1>5 DEF Origins
<1>7. \A q : InQueue(q) = {} => \A i \in DOMAIN q : q[i].type # "doc"
  BY DEF InQueue, ToSet
<1>8. Ordered(buffer')
  <2>1. DOMAIN buffer' = 1..Len(buffer')
    BY <1>2, SameBuffer, LenProperties
  <2>2. \A i \in 1..Len(buffer') : buffer'[i].type # "doc"
    BY <1>3, <1>7, <2>1 DEF Buffered
  <2> QED  BY <2>2 DEF Ordered
<1>9. ASSUME NEW s \in Sockets PROVE Ordered(sk'[s].down)
  <2>1. sk[s].down \in Seq(Items)
    BY DEF DocTypes, SocketsOK, SocketStates
  <2>2. DOMAIN sk[s].down = 1..Len(sk[s].down)
    BY <2>1, LenProperties
  <2>3. \A i \in 1..Len(sk[s].down) : sk[s].down[i].type # "doc"
    BY <1>4, <1>7, <2>2
  <2>4. Ordered(sk[s].down)
    BY <2>3 DEF Ordered
  <2> QED  BY <1>2, <2>4 DEF Keeps
<1>10. \A c \in Slots : coll'[c] <= feed'.last
  BY <1>2
<1>11. Chain'
  BY <1>3, <1>4, <1>5, <1>8, <1>9, <1>10 DEF Chain, Before
<1> QED  BY <1>6, <1>11
-----------------------------------------------------------------------------
\* A page comes after everything.
LEMMA FetchesKeep ==
    ASSUME DocTypes, DocTypes', Origins, Chain, NEW q, Fetches(q)
    PROVE  Origins' /\ Chain' /\ ~Fresh
<1> DEFINE last == feed'.last
           old == ToSet(batch) \cup ToSet(left) \cup Buffered \cup Down
<1>1. /\ feed.on /\ feed'.on /\ feed'.sock = feed.sock /\ Paged(q, last)
      /\ batch' = batch /\ left' = left /\ coll' = coll /\ perms' = perms /\ via' = via
      /\ StoreStep
      /\ UNCHANGED log
  BY DEF Fetches, StoreStep, storeVars
<1>2. /\ \A x \in InQueue(q) : Row(x) /\ feed.last <= x.aid /\ x.aid <= last /\ x.aid \in Nat
      /\ feed.last <= last /\ last \in Nat /\ feed.last \in Nat /\ Ordered(q)
  <2>1. /\ \A x \in InQueue(q) : Row(x) /\ feed.last <= x.aid /\ x.aid <= last
        /\ feed.last <= last /\ last \in 0..Len(log) /\ Ordered(q)
    BY <1>1 DEF Paged
  <2>2. Len(log) \in Nat /\ feed.last \in 0..Len(log)
    BY Travels
  <2>3. \A x \in InQueue(q) : x.aid \in Nat
    BY <2>1, <2>2 DEF Row
  <2> QED  BY <2>1, <2>2, <2>3
<1>3. /\ \A v \in old : v.aid <= feed.last /\ v.aid \in Nat
      /\ \A c \in Slots : coll[c] <= feed.last /\ coll[c] \in Nat
  BY <1>1, Travels DEF Chain
<1>4. \/ /\ via = "local" /\ Buffered = {} /\ Buffered' = InQueue(q) /\ buffer' = q
         /\ \A s \in Sockets : sk'[s].down = sk[s].down
      \/ /\ via # "local" /\ buffer' = buffer
         /\ \A s \in Sockets :
              \/ s # feed.sock /\ sk'[s].down = sk[s].down
              \/ s = feed.sock /\ sk[s].down = <<>> /\ sk'[s].down \in {<<>>, q}
  <2>1. InQueue(<<>>) = {}
    BY DEF InQueue, ToSet
  <2> QED  BY <2>1 DEF Fetches, Buffered
<1> HIDE DEF last
<1>5. /\ Buffered' \subseteq Buffered \cup InQueue(q) /\ Down' \subseteq Down \cup InQueue(q)
      /\ \A s \in Sockets : \/ InQueue(sk'[s].down) = InQueue(sk[s].down)
                            \/ via # "local" /\ s = feed.sock /\ InQueue(sk'[s].down) = InQueue(q)
  <2>1. CASE via = "local"
    <3>1. Buffered' = InQueue(q) /\ \A s \in Sockets : sk'[s].down = sk[s].down
      BY <1>4, <2>1
    <3>2. Down' = Down
      BY <3>1 DEF Down
    <3> QED  BY <3>1, <3>2
  <2>2. CASE via # "local"
    <3>1. /\ buffer' = buffer
          /\ \A s \in Sockets :
               \/ s # feed.sock /\ sk'[s].down = sk[s].down
               \/ s = feed.sock /\ sk[s].down = <<>> /\ sk'[s].down \in {<<>>, q}
      BY <1>4, <2>2
    <3>2. \A s \in Sockets : \/ InQueue(sk'[s].down) = InQueue(sk[s].down)
                             \/ s = feed.sock /\ InQueue(sk'[s].down) = InQueue(q)
      BY <3>1
    <3>3. Down' \subseteq Down \cup InQueue(q)
      BY <3>2 DEF Down
    <3> QED  BY <2>2, <3>1, <3>2, <3>3 DEF Buffered
  <2> QED  BY <2>1, <2>2
<1>6. Origins'
  <2>1. \A y \in Down \cup Buffered : Row(y)'
    BY <1>1, RowsKept DEF Origins
  <2>2. \A v \in ToSet(batch) \cup ToSet(left) : Copied(v)'
    BY <1>1, RowsKept DEF Origins
  <2>3. \A y \in InQueue(q) : Row(y)'
    BY <1>1, <1>2, RowsKept
  <2>4. \A y \in Down' \cup Buffered' : Row(y)'
    BY <1>5, <2>1, <2>3
  <2>5. \A v \in ToSet(batch') \cup ToSet(left') : Copied(v)'
    BY <1>1, <2>2
  <2> QED  BY <2>4, <2>5 DEF Origins
<1>7. Chain'
  <2>1. \A v \in old : \A x \in InQueue(q) : v.aid <= x.aid
    BY <1>2, <1>3
  <2>2. \A c \in Slots : \A x \in InQueue(q) : coll[c] <= x.aid
    BY <1>2, <1>3
  <2>3. \A c \in Slots : \A v \in ToSet(batch') \cup ToSet(left') \cup Buffered' \cup Down' : coll'[c] <= v.aid
    BY <1>1, <1>5, <2>2 DEF Chain
  <2>4. /\ Before(ToSet(batch'), ToSet(left') \cup Buffered' \cup Down')
        /\ Before(ToSet(left'), ToSet(left') \cup Buffered' \cup Down')
    BY <1>1, <1>5, <2>1 DEF Chain, Before
  <2>5. Before(Buffered', Down')
    <3>1. CASE via = "local"
      <4>1. Down' = {}
        <5>1. Down = {} /\ \A s \in Sockets : sk'[s].down = sk[s].down
          BY <1>4, <3>1 DEF Chain
        <5> QED  BY <5>1 DEF Down
      <4> QED  BY <4>1 DEF Before
    <3>2. CASE via # "local"
      <4>1. Buffered' = Buffered
        BY <1>4, <3>2 DEF Buffered
      <4> QED  BY <1>5, <2>1, <4>1 DEF Chain, Before
    <3> QED  BY <3>1, <3>2
  <2>6. Ordered(buffer')
    BY <1>2, <1>4 DEF Chain
  <2>7. \A s \in Sockets : Ordered(sk'[s].down)
    <3>1. Ordered(<<>>)
      BY DEF Ordered
    <3> QED  BY <1>2, <1>4, <3>1 DEF Chain
  <2>8. \A s \in Sockets : InQueue(sk'[s].down) # {} => s = feed.sock
    BY <1>1, <1>5 DEF Chain
  <2>9. \A c \in Slots : coll'[c] <= last
    BY <1>1, <1>2, <1>3
  <2>10. \A v \in ToSet(batch') \cup ToSet(left') \cup Buffered' \cup Down' : v.aid <= last
    <3>1. \A v \in old \cup InQueue(q) : v.aid <= last
      BY <1>2, <1>3
    <3> QED  BY <1>1, <1>5, <3>1
  <2>11. via' = "local" => Down' = {}
    <3>1. via = "local" => Down = {} /\ \A s \in Sockets : sk'[s].down = sk[s].down
      BY <1>4 DEF Chain
    <3> QED  BY <1>1, <3>1 DEF Down
  <2> QED  BY <1>1, <2>3, <2>4, <2>5, <2>6, <2>7, <2>8, <2>9, <2>10, <2>11 DEF Chain, last
<1> QED  BY <1>1, <1>6, <1>7 DEF Fresh

\* A document of the buffer becomes vectors.
LEMMA UnpacksKeeps ==
    ASSUME DocTypes, Origins, Chain, NEW x, Unpacks(x)
    PROVE  Origins' /\ Chain' /\ ~Fresh
<1>1. /\ buffer \in Seq(Items) /\ buffer # <<>> /\ x = Head(buffer) /\ buffer' = Tail(buffer)
      /\ x.type = "doc" /\ x.aid \in Nat /\ x.d \in Docs /\ x.n \in 0..MaxVectors
      /\ feed' = feed /\ sk' = sk /\ coll' = coll /\ perms' = perms /\ via' = via /\ StoreStep
  BY SameBuffer DEF Unpacks, DocItems, StoreStep
<1>2. /\ ToSet(batch') \subseteq ToSet(batch) \cup VectorsOf(x) /\ ToSet(left') \subseteq VectorsOf(x)
      /\ \A v \in VectorsOf(x) : v.aid = x.aid /\ v.at[1] = x.d /\ v.at[2] <= x.n
  BY DEF Unpacks, VectorsOf
<1>3. /\ ToSet(buffer) = {x} \cup ToSet(Tail(buffer)) /\ Keeps(buffer, Tail(buffer))
      /\ x = buffer[1] /\ Len(Tail(buffer)) = Len(buffer) - 1 /\ Tail(buffer) \in Seq(Items)
      /\ \A i \in 1..Len(Tail(buffer)) : Tail(buffer)[i] = buffer[i + 1]
      /\ Len(buffer) \in Nat /\ Len(buffer) >= 1
  <2>1. Len(buffer) \in Nat /\ Len(buffer) >= 1
    BY <1>1, LenProperties, EmptySeq
  <2> QED  BY <1>1, <2>1, HeadTailElements, KeepsRest
<1>4. x \in Buffered /\ Buffered' \subseteq Buffered /\ Down' = Down
      /\ (Ordered(buffer) => Ordered(buffer'))
  <2>1. x \in Buffered
    BY <1>1, <1>3 DEF Buffered, InQueue
  <2>2. Buffered' \subseteq Buffered /\ (Ordered(buffer) => Ordered(buffer'))
    BY <1>1, <1>3 DEF Buffered, Keeps
  <2> QED  BY <1>1, <2>1, <2>2 DEF Down
<1>5. \A y \in Buffered' \cup Down' : x.aid <= y.aid
  <2>1. \A y \in Down : x.aid <= y.aid
    BY <1>4 DEF Chain, Before
  <2>2. ASSUME NEW y \in Buffered' PROVE x.aid <= y.aid
    <3>1. y \in ToSet(Tail(buffer)) /\ y.type = "doc"
      BY <1>1 DEF Buffered, InQueue
    <3>2. PICK i \in 1..Len(Tail(buffer)) : y = Tail(buffer)[i]
      <4>1. DOMAIN Tail(buffer) = 1..Len(Tail(buffer))
        BY <1>3, LenProperties
      <4> QED  BY <3>1, <4>1 DEF ToSet
    <3>3. i + 1 \in 1..Len(buffer) /\ 1 \in 1..Len(buffer) /\ 1 < i + 1 /\ y = buffer[i + 1]
      BY <1>3, <3>2
    <3>4. Ordered(buffer)
      BY DEF Chain
    <3> QED  BY <1>1, <1>3, <3>1, <3>3, <3>4 DEF Ordered
  <2> QED  BY <1>4, <2>1, <2>2
<1>6. Origins'
  <2>1. \A y \in Down \cup Buffered : Row(y)'
    BY <1>1, RowsKept DEF Origins
  <2>2. \A v \in ToSet(batch) \cup ToSet(left) : Copied(v)'
    BY <1>1, RowsKept DEF Origins
  <2>3. ASSUME NEW v \in VectorsOf(x) PROVE Copied(v)'
    <3>1. Copied(v)
      <4>1. v.aid = x.aid /\ v.at[1] = x.d /\ v.at[2] <= x.n
        BY <1>2
      <4>2. Row(x)
        BY <1>4 DEF Origins
      <4>3. v.at[2] \in 1..MaxVectors /\ MaxVectors \in Nat
        BY <1>2, Sizes DEF VectorsOf, Vectors, Slots
      <4>4. x.n # 0
        BY <4>1, <4>3
      <4>5. x.n = log[x.aid].n
        BY <4>2, <4>4 DEF Row
      <4> QED  BY <4>1, <4>2, <4>5 DEF Copied, Replica!Comes, Row
    <3> QED  BY <1>1, <3>1, RowsKept
  <2>4. \A y \in Down' \cup Buffered' : Row(y)'
    BY <1>4, <2>1
  <2>5. \A v \in ToSet(batch') \cup ToSet(left') : Copied(v)'
    BY <1>2, <2>2, <2>3
  <2> QED  BY <2>4, <2>5 DEF Origins
<1>7. Chain'
  <2>1. \A v \in ToSet(batch) : v.aid <= x.aid
    BY <1>4 DEF Chain, Before
  <2>2. \A v, w \in VectorsOf(x) : v.aid <= w.aid
    BY <1>1, <1>2
  <2>3. \A v \in VectorsOf(x) : \A y \in Buffered' \cup Down' : v.aid <= y.aid
    BY <1>2, <1>5
  <2>4. \A v \in ToSet(batch) : \A w \in VectorsOf(x) : v.aid <= w.aid
    BY <1>2, <2>1
  <2>5. Before(ToSet(batch'), ToSet(left') \cup Buffered' \cup Down')
    <3>1. \A v \in ToSet(batch) : \A y \in Buffered' \cup Down' : v.aid <= y.aid
      BY <1>4 DEF Chain, Before
    <3> QED  BY <1>2, <2>2, <2>3, <2>4, <3>1 DEF Before
  <2>6. Before(ToSet(left'), ToSet(left') \cup Buffered' \cup Down')
    BY <1>2, <2>2, <2>3 DEF Before
  <2>7. Before(Buffered', Down')
    BY <1>4 DEF Chain, Before
  <2>8. \A c \in Slots : \A v \in ToSet(batch') \cup ToSet(left') \cup Buffered' \cup Down' : coll'[c] <= v.aid
    <3>1. \A c \in Slots : coll[c] <= x.aid
      BY <1>4 DEF Chain
    <3>2. \A c \in Slots : \A v \in VectorsOf(x) : coll[c] <= v.aid
      BY <1>2, <3>1
    <3> QED  BY <1>1, <1>2, <1>4, <3>2 DEF Chain
  <2>9. Ordered(buffer') /\ \A s \in Sockets : Ordered(sk'[s].down)
    BY <1>1, <1>4 DEF Chain
  <2>10. \A s, t \in Sockets : InQueue(sk'[s].down) # {} /\ InQueue(sk'[t].down) # {} => s = t
    BY <1>1 DEF Chain
  <2>11. ASSUME feed'.on
         PROVE  /\ \A c \in Slots : coll'[c] <= feed'.last
                /\ \A v \in ToSet(batch') \cup ToSet(left') \cup Buffered' \cup Down' : v.aid <= feed'.last
                /\ \A s \in Sockets : InQueue(sk'[s].down) # {} => s = feed'.sock
    <3>1. feed.on
      BY <1>1, <2>11
    <3>2. /\ \A c \in Slots : coll[c] <= feed.last
          /\ \A v \in ToSet(batch) \cup ToSet(left) \cup Buffered \cup Down : v.aid <= feed.last
          /\ \A s \in Sockets : InQueue(sk[s].down) # {} => s = feed.sock
      BY <3>1 DEF Chain
    <3>3. \A v \in VectorsOf(x) : v.aid <= feed.last
      BY <1>2, <1>4, <3>2
    <3> QED  BY <1>1, <1>2, <1>4, <3>2, <3>3
  <2>12. via' = "local" => Down' = {}
    BY <1>1, <1>4 DEF Chain
  <2> QED  BY <2>5, <2>6, <2>7, <2>8, <2>9, <2>10, <2>11, <2>12 DEF Chain
<1> QED  BY <1>4, <1>6, <1>7 DEF Fresh

\* A batch moves into the collection.
LEMMA StoresKeep ==
    ASSUME DocTypes, DocTypes', Origins, Chain, StoresBatch
    PROVE  /\ Origins' /\ Chain' /\ (Fresh => Fresh')
           /\ \A c \in Slots : coll'[c] >= coll[c]
           /\ \A c \in Slots : coll'[c] # coll[c] => Replica!Comes(c, coll'[c])
<1>1. /\ feed' = feed /\ sk' = sk /\ buffer' = buffer /\ perms' = perms /\ via' = via /\ StoreStep
      /\ ToSet(batch') \subseteq ToSet(left) /\ ToSet(left') \subseteq ToSet(left)
  BY DEF StoresBatch, StoreStep
<1>2. Buffered' = Buffered /\ Down' = Down
  BY <1>1 DEF Buffered, Down
<1>3. \A c \in Slots : coll'[c] = coll[c] \/ \E v \in ToSet(batch) : v.at = c /\ v.aid = coll'[c]
  BY DEF StoresBatch
<1>4. \A c \in Slots : coll'[c] >= coll[c]
  <2> SUFFICES ASSUME NEW c \in Slots PROVE coll'[c] >= coll[c]
    OBVIOUS
  <2>1. coll[c] \in Nat
    BY Travels
  <2>2. CASE coll'[c] = coll[c]
    BY <2>1, <2>2
  <2>3. CASE \E v \in ToSet(batch) : v.at = c /\ v.aid = coll'[c]
    <3>1. PICK v \in ToSet(batch) : v.aid = coll'[c]
      BY <2>3
    <3>2. coll[c] <= v.aid /\ v.aid \in Nat
      BY Travels DEF Chain
    <3> QED  BY <2>1, <3>1, <3>2
  <2> QED  BY <1>3, <2>2, <2>3
<1>5. ASSUME NEW c \in Slots, coll'[c] # coll[c] PROVE Replica!Comes(c, coll'[c])
  <2>1. PICK v \in ToSet(batch) : v.at = c /\ v.aid = coll'[c]
    BY <1>3, <1>5
  <2>2. Copied(v)
    BY DEF Origins
  <2> QED  BY <2>1, <2>2 DEF Copied
<1>6. Origins'
  <2>1. \A y \in Down \cup Buffered : Row(y)'
    BY <1>1, RowsKept DEF Origins
  <2>2. \A v \in ToSet(left) : Copied(v)'
    BY <1>1, RowsKept DEF Origins
  <2>3. \A v \in ToSet(batch') \cup ToSet(left') : Copied(v)'
    BY <1>1, <2>2
  <2> QED  BY <1>2, <2>1, <2>3 DEF Origins
<1>7. Chain'
  <2>1. \A c \in Slots : \A y \in ToSet(left) \cup Buffered \cup Down : coll'[c] <= y.aid
    BY <1>3 DEF Chain, Before
  <2>2. \A c \in Slots : \A v \in ToSet(batch') \cup ToSet(left') \cup Buffered' \cup Down' : coll'[c] <= v.aid
    BY <1>1, <1>2, <2>1
  <2>3. /\ Before(ToSet(batch'), ToSet(left') \cup Buffered' \cup Down')
        /\ Before(ToSet(left'), ToSet(left') \cup Buffered' \cup Down')
        /\ Before(Buffered', Down')
    BY <1>1, <1>2 DEF Chain, Before
  <2>4. Ordered(buffer') /\ \A s \in Sockets : Ordered(sk'[s].down)
    BY <1>1 DEF Chain
  <2>5. \A s, t \in Sockets : InQueue(sk'[s].down) # {} /\ InQueue(sk'[t].down) # {} => s = t
    BY <1>1 DEF Chain
  <2>6. ASSUME feed'.on
        PROVE  /\ \A c \in Slots : coll'[c] <= feed'.last
               /\ \A v \in ToSet(batch') \cup ToSet(left') \cup Buffered' \cup Down' : v.aid <= feed'.last
               /\ \A s \in Sockets : InQueue(sk'[s].down) # {} => s = feed'.sock
    <3>1. feed.on
      BY <1>1, <2>6
    <3>2. /\ \A c \in Slots : coll[c] <= feed.last
          /\ \A v \in ToSet(batch) \cup ToSet(left) \cup Buffered \cup Down : v.aid <= feed.last
          /\ \A s \in Sockets : InQueue(sk[s].down) # {} => s = feed.sock
      BY <3>1 DEF Chain
    <3>3. \A c \in Slots : coll'[c] <= feed.last
      BY <1>3, <3>2
    <3> QED  BY <1>1, <1>2, <3>2, <3>3
  <2>7. via' = "local" => Down' = {}
    BY <1>1, <1>2 DEF Chain
  <2> QED  BY <2>2, <2>3, <2>4, <2>5, <2>6, <2>7 DEF Chain
<1>8. Fresh => Fresh'
  <2> SUFFICES ASSUME Fresh PROVE Fresh'
    OBVIOUS
  <2>1. ToSet(batch) = {} /\ ToSet(left) = {}
    BY DEF Fresh, ToSet
  <2>2. coll' = [c \in Slots |-> 0]
    <3>1. \A c \in Slots : coll'[c] = 0
      BY <1>3, <2>1 DEF Fresh
    <3>2. coll' \in [Slots -> Nat]
      BY DEF DocTypes, RagOK
    <3> QED  BY <3>1, <3>2
  <2>3. \A q \in Seq(Vectors) : ToSet(q) = {} => q = <<>>
    <3>1. ASSUME NEW q \in Seq(Vectors), ToSet(q) = {} PROVE q = <<>>
      <4>1. DOMAIN q = 1..Len(q) /\ Len(q) \in Nat
        BY LenProperties
      <4>2. DOMAIN q = {}
        BY <3>1 DEF ToSet
      <4>3. Len(q) = 0
        BY <4>1, <4>2
      <4> QED  BY <4>3, EmptySeq
    <3> QED  BY <3>1
  <2>4. batch' = <<>> /\ left' = <<>>
    <3>1. batch' \in Seq(Vectors) /\ left' \in Seq(Vectors)
      BY DEF DocTypes, RagOK
    <3> QED  BY <1>1, <2>1, <2>3, <3>1
  <2> QED  BY <1>1, <1>2, <2>2, <2>4 DEF Fresh
<1> QED  BY <1>4, <1>5, <1>6, <1>7, <1>8
-----------------------------------------------------------------------------
\* Where no subscription moves, it stays where it was.
Unsent == {"idle", "asking", "clearing"}

LEMMA StaysPut ==
    ASSUME DocTypes, NoSubscription
    PROVE  /\ \A s \in Sockets : \A i \in Nat : SubAt(s, i)' => SubAt(s, i)
           /\ \A h \in inHand' : h \in inHand /\ (SubInHand(h)' => SubInHand(h))
           /\ rag' \in Unsent => rag \in Unsent
<1>1. \A h \in inHand' : h \in inHand /\ (SubInHand(h)' => SubInHand(h))
  BY DEF NoSubscription, SubInHand
<1>2. rag' \in Unsent => rag \in Unsent
  BY DEF NoSubscription, Unsent
<1>3. ASSUME NEW s \in Sockets, NEW i \in Nat, SubAt(s, i)' PROVE SubAt(s, i)
  <2> DEFINE q == sk[s].up
             r == sk'[s].up
  <2>1. i \in 1..Len(r) /\ r[i] = Subscription
    BY <1>3 DEF SubAt
  <2>2. q \in Seq(Messages)
    BY DEF DocTypes, SocketsOK, SocketStates
  <2>3. UpStep(q, r)
    BY DEF NoSubscription
  <2> HIDE DEF q, r
  <2>4. i \in 1..Len(q) /\ q[i] = Subscription
    <3>1. CASE r = q
      BY <2>1, <3>1
    <3>2. CASE r = <<>>
      BY <2>1, <3>2
    <3>3. ASSUME NEW m \in Messages \ {Subscription}, r = Append(q, m)
          PROVE  i \in 1..Len(q) /\ q[i] = Subscription
      <4>1. /\ Len(r) = Len(q) + 1 /\ Len(q) \in Nat
            /\ \A j \in 1..Len(q) : r[j] = q[j]
            /\ r[Len(q) + 1] = m
        BY <2>2, <3>3, AppendProperties, LenProperties
      <4>2. i # Len(q) + 1
        BY <2>1, <3>3, <4>1
      <4> QED  BY <2>1, <4>1, <4>2
    <3> QED  BY <2>3, <3>1, <3>2, <3>3 DEF UpStep
  <2> QED  BY <2>4 DEF SubAt, q
<1> QED  BY <1>1, <1>2, <1>3

LEMMA OnceStays ==
    ASSUME DocTypes, Once, NoSubscription, via' = via, Fresh => Fresh'
    PROVE  Once'
<1>1. /\ \A s \in Sockets : \A i \in Nat : SubAt(s, i)' => SubAt(s, i)
      /\ \A h \in inHand' : h \in inHand /\ (SubInHand(h)' => SubInHand(h))
      /\ rag' \in Unsent => rag \in Unsent
  BY StaysPut
<1>2. \A s, t \in Sockets : \A i, j \in Nat : SubAt(s, i)' /\ SubAt(t, j)' => s = t /\ i = j
  BY <1>1 DEF Once
<1>3. \A h, g \in inHand' : SubInHand(h)' /\ SubInHand(g)' => h = g
  BY <1>1 DEF Once
<1>4. \A s \in Sockets : \A i \in Nat : \A h \in inHand' : ~(SubAt(s, i)' /\ SubInHand(h)')
  BY <1>1 DEF Once
<1>5. \A s \in Sockets : \A i \in Nat : SubAt(s, i)' => Fresh' /\ via' = "socket"
  BY <1>1 DEF Once
<1>6. \A h \in inHand' : SubInHand(h)' => Fresh' /\ via' = "socket"
  BY <1>1 DEF Once
<1>7. rag' \in Unsent =>
         /\ Fresh'
         /\ \A s \in Sockets : \A i \in Nat : ~SubAt(s, i)'
         /\ \A h \in inHand' : ~SubInHand(h)'
  BY <1>1 DEF Once, Unsent
<1> QED  BY <1>2, <1>3, <1>4, <1>5, <1>6, <1>7 DEF Once, Unsent

\* Where there is no subscription, and none to come.
LEMMA OnceOver ==
    ASSUME rag' \notin Unsent,
           \A s \in Sockets : \A i \in Nat : ~SubAt(s, i)',
           \A h \in inHand' : ~SubInHand(h)'
    PROVE  Once'
BY DEF Once, Unsent

\* The expert sends the subscription.
LEMMA OnceSent ==
    ASSUME DocTypes, Once, SendsSubscription, via' = via, Fresh => Fresh'
    PROVE  Once'
<1>1. /\ via = "socket" /\ inHand' = inHand /\ rag \in Unsent /\ rag' \notin Unsent
  BY DEF SendsSubscription, Unsent
<1>2. PICK x : \A s \in Sockets :
        sk'[s].up = IF s = x THEN Append(sk[s].up, Subscription) ELSE sk[s].up
  BY DEF SendsSubscription
<1>3. /\ Fresh /\ \A s \in Sockets : \A i \in Nat : ~SubAt(s, i)
      /\ \A h \in inHand : ~SubInHand(h)
  BY <1>1 DEF Once, Unsent
<1>4. \A h \in inHand' : ~SubInHand(h)'
  BY <1>1, <1>3 DEF SubInHand
<1>5. ASSUME NEW s \in Sockets, NEW i \in Nat, SubAt(s, i)'
      PROVE  s = x /\ i = Len(sk[s].up) + 1
  <2> DEFINE q == sk[s].up
             r == sk'[s].up
  <2>1. i \in 1..Len(r) /\ r[i] = Subscription
    BY <1>5 DEF SubAt
  <2>2. q \in Seq(Messages) /\ Subscription \in Messages
    BY Sendable DEF DocTypes, SocketsOK, SocketStates
  <2>3. r = IF s = x THEN Append(q, Subscription) ELSE q
    BY <1>2
  <2>4. ~(i \in 1..Len(q) /\ q[i] = Subscription)
    BY <1>3 DEF SubAt
  <2> HIDE DEF q, r
  <2>5. s = x
    BY <2>1, <2>3, <2>4
  <2>6. /\ Len(r) = Len(q) + 1 /\ Len(q) \in Nat
        /\ \A j \in 1..Len(q) : r[j] = q[j]
    BY <2>2, <2>3, <2>5, AppendProperties, LenProperties
  <2>7. i = Len(q) + 1
    BY <2>1, <2>4, <2>6
  <2> QED  BY <2>5, <2>7 DEF q
<1>6. \A s, t \in Sockets : \A i, j \in Nat : SubAt(s, i)' /\ SubAt(t, j)' => s = t /\ i = j
  BY <1>5
<1> QED  BY <1>1, <1>3, <1>4, <1>6 DEF Once, Unsent

\* A message is taken from a socket: its place, and the subscription's.
LEMMA TakesFirst ==
    ASSUME DocTypes, NEW s \in Sockets, Takes(s)
    PROVE  /\ rag' = rag
           /\ SubAt(s, 1) <=> Head(sk[s].up) = Subscription
           /\ \A t \in Sockets : \A i \in Nat :
                 SubAt(t, i)' => SubAt(t, IF t = s THEN i + 1 ELSE i) /\ i > 0
<1> DEFINE q == sk[s].up
<1>1. /\ q # <<>> /\ q \in Seq(Messages) /\ rag' = rag
      /\ \A t \in Sockets : sk'[t].up = IF t = s THEN Tail(sk[t].up) ELSE sk[t].up
  BY DEF Takes, DocTypes, SocketsOK, SocketStates
<1>2. /\ Head(q) = q[1] /\ Len(Tail(q)) = Len(q) - 1 /\ Len(q) \in Nat /\ Len(q) >= 1
      /\ \A i \in 1..Len(Tail(q)) : Tail(q)[i] = q[i + 1]
  <2>1. Len(q) \in Nat /\ Len(q) >= 1
    BY <1>1, LenProperties, EmptySeq
  <2> QED  BY <1>1, <2>1, HeadTailElements
<1>3. SubAt(s, 1) <=> Head(q) = Subscription
  BY <1>2 DEF SubAt
<1>4. ASSUME NEW t \in Sockets, NEW i \in Nat, SubAt(t, i)'
      PROVE  SubAt(t, IF t = s THEN i + 1 ELSE i) /\ i > 0
  <2>1. i \in 1..Len(sk'[t].up) /\ sk'[t].up[i] = Subscription
    BY <1>4 DEF SubAt
  <2>2. CASE t = s
    <3>1. i \in 1..Len(Tail(q)) /\ Tail(q)[i] = Subscription
      BY <1>1, <2>1, <2>2
    <3>2. i + 1 \in 1..Len(q) /\ q[i + 1] = Subscription
      BY <1>2, <3>1
    <3> QED  BY <2>2, <3>1, <3>2 DEF SubAt
  <2>3. CASE t # s
    BY <1>1, <2>1, <2>3 DEF SubAt
  <2> QED  BY <2>2, <2>3
<1> QED  BY <1>1, <1>3, <1>4

LEMMA OnceTaken ==
    ASSUME DocTypes, Once, NEW s \in Sockets, Takes(s), via' = via,
           \/ /\ Fresh => Fresh'
              /\ inHand' \in {inHand, inHand \cup {[s |-> s, m |-> Head(sk[s].up)]}}
           \/ inHand' = inHand /\ Head(sk[s].up) = Subscription
    PROVE  Once'
<1> DEFINE Was(t, i) == IF t = s THEN i + 1 ELSE i
<1>0. PICK x : x = [s |-> s, m |-> Head(sk[s].up)]
  OBVIOUS
<1>1. /\ rag' = rag
      /\ SubAt(s, 1) <=> Head(sk[s].up) = Subscription
      /\ \A t \in Sockets : \A i \in Nat : SubAt(t, i)' => SubAt(t, Was(t, i)) /\ i > 0
  BY TakesFirst
<1>2. SubInHand(x)' => SubAt(s, 1)
  BY <1>0, <1>1 DEF SubInHand
<1>3. \A h \in inHand' : SubInHand(h)' => (h \in inHand /\ SubInHand(h)) \/ (h = x /\ SubAt(s, 1))
  <2> SUFFICES ASSUME NEW h \in inHand', SubInHand(h)'
               PROVE  (h \in inHand /\ SubInHand(h)) \/ (h = x /\ SubAt(s, 1))
    OBVIOUS
  <2>1. h \in inHand \/ h = x
    BY <1>0
  <2>2. SubInHand(h)' => h.m = Subscription
    BY DEF SubInHand
  <2> QED  BY <1>2, <2>1, <2>2 DEF SubInHand
<1>4. \A t \in Sockets : \A i \in Nat : SubAt(t, i)' => ~SubAt(s, 1)
  <2> SUFFICES ASSUME NEW t \in Sockets, NEW i \in Nat, SubAt(t, i)', SubAt(s, 1) PROVE FALSE
    OBVIOUS
  <2>1. SubAt(t, Was(t, i)) /\ i > 0 /\ Was(t, i) \in Nat
    BY <1>1
  <2>2. t = s /\ Was(t, i) = 1
    BY <2>1 DEF Once
  <2> QED  BY <2>1, <2>2
<1>5. CASE Head(sk[s].up) = Subscription /\ inHand' = inHand
  <2>1. SubAt(s, 1)
    BY <1>1, <1>5
  <2>2. rag \notin Unsent
    BY <2>1 DEF Once, Unsent
  <2>3. \A h \in inHand : ~SubInHand(h)
    BY <2>1 DEF Once
  <2>4. \A h \in inHand' : ~SubInHand(h)'
    BY <1>5, <2>3 DEF SubInHand
  <2>5. \A t \in Sockets : \A i \in Nat : ~SubAt(t, i)'
    BY <1>4, <2>1
  <2> QED  BY <1>1, <2>2, <2>4, <2>5, OnceOver
<1>6. CASE (Fresh => Fresh') /\ inHand' \in {inHand, inHand \cup {x}}
  <2>1. \A t, u \in Sockets : \A i, j \in Nat : SubAt(t, i)' /\ SubAt(u, j)' => t = u /\ i = j
    <3> SUFFICES ASSUME NEW t \in Sockets, NEW u \in Sockets, NEW i \in Nat, NEW j \in Nat,
                        SubAt(t, i)', SubAt(u, j)'
                 PROVE  t = u /\ i = j
      OBVIOUS
    <3>1. SubAt(t, Was(t, i)) /\ SubAt(u, Was(u, j)) /\ Was(t, i) \in Nat /\ Was(u, j) \in Nat
      BY <1>1
    <3>2. t = u /\ Was(t, i) = Was(u, j)
      BY <3>1 DEF Once
    <3> QED  BY <3>2
  <2>2. \A h, g \in inHand' : SubInHand(h)' /\ SubInHand(g)' => h = g
    BY <1>3 DEF Once
  <2>3. \A t \in Sockets : \A i \in Nat : \A h \in inHand' : ~(SubAt(t, i)' /\ SubInHand(h)')
    <3> SUFFICES ASSUME NEW t \in Sockets, NEW i \in Nat, NEW h \in inHand', SubAt(t, i)', SubInHand(h)'
                 PROVE  FALSE
      OBVIOUS
    <3>1. h \in inHand /\ SubInHand(h)
      BY <1>3, <1>4
    <3>2. SubAt(t, Was(t, i)) /\ Was(t, i) \in Nat
      BY <1>1
    <3> HIDE DEF Was
    <3> QED  BY <3>1, <3>2 DEF Once
  <2>4. \A t \in Sockets : \A i \in Nat : SubAt(t, i)' => Fresh' /\ via' = "socket"
    <3> SUFFICES ASSUME NEW t \in Sockets, NEW i \in Nat, SubAt(t, i)'
                 PROVE  Fresh' /\ via' = "socket"
      OBVIOUS
    <3>1. SubAt(t, Was(t, i)) /\ Was(t, i) \in Nat
      BY <1>1
    <3> HIDE DEF Was
    <3> QED  BY <1>6, <3>1 DEF Once
  <2>5. \A h \in inHand' : SubInHand(h)' => Fresh' /\ via' = "socket"
    BY <1>3, <1>6 DEF Once
  <2>6. rag' \in Unsent =>
           /\ Fresh'
           /\ \A t \in Sockets : \A i \in Nat : ~SubAt(t, i)'
           /\ \A h \in inHand' : ~SubInHand(h)'
    <3> SUFFICES ASSUME rag' \in Unsent
                 PROVE  /\ Fresh'
                        /\ \A t \in Sockets : \A i \in Nat : ~SubAt(t, i)'
                        /\ \A h \in inHand' : ~SubInHand(h)'
      OBVIOUS
    <3>1. /\ Fresh
          /\ \A t \in Sockets : \A i \in Nat : ~SubAt(t, i)
          /\ \A h \in inHand : ~SubInHand(h)
      BY <1>1 DEF Once, Unsent
    <3>2. ~SubAt(s, 1)
      BY <3>1
    <3>3. \A t \in Sockets : \A i \in Nat : ~SubAt(t, i)'
      BY <1>1, <3>1
    <3> QED  BY <1>3, <1>6, <3>1, <3>2, <3>3
  <2> QED  BY <2>1, <2>2, <2>3, <2>4, <2>5, <2>6 DEF Once, Unsent
<1> QED  BY <1>0, <1>5, <1>6

\* The handler that has the subscription ends.
LEMMA OnceHandled ==
    ASSUME DocTypes, Once, NEW h \in inHand, SubInHand(h), inHand' = inHand \ {h}, rag' = rag,
           \A t \in Sockets : sk'[t].up = sk[t].up
    PROVE  Once'
<1>1. rag \notin Unsent
  BY DEF Once, Unsent
<1>2. \A s \in Sockets : \A i \in Nat : ~SubAt(s, i)
  BY DEF Once
<1>3. \A s \in Sockets : \A i \in Nat : ~SubAt(s, i)'
  BY <1>2 DEF SubAt
<1>4. \A g \in inHand' : ~SubInHand(g)'
  <2> SUFFICES ASSUME NEW g \in inHand', SubInHand(g)' PROVE FALSE
    OBVIOUS
  <2>1. g \in inHand /\ g # h /\ SubInHand(g)
    BY DEF SubInHand
  <2> QED  BY <2>1 DEF Once
<1> QED  BY <1>1, <1>3, <1>4, OnceOver
-----------------------------------------------------------------------------
\* A step of the replica, or none.
Follows == [Replica!Next]_<<User, log, coll>>

LEMMA StoreFollows ==
    ASSUME DocTypes, StoreStep, UNCHANGED <<coll, perms, via>>
    PROVE  Follows
<1>1. User' = User /\ coll' = coll
  BY RowsKept
<1>2. /\ log' \in Seq(RowsWritten) /\ log \in Seq(RowsWritten)
      /\ Len(log') \in {Len(log), Len(log) + 1} /\ Len(log) \in Nat
      /\ \A i \in 1..Len(log) : log'[i] = log[i]
  <2>1. Grows /\ log \in Seq(RowsWritten)
    BY StoreTyped DEF DocTypes, StoreOK
  <2> QED  BY <2>1, LenProperties DEF Grows
<1>3. CASE Len(log') = Len(log)
  <2>1. log' = log
    BY <1>2, <1>3, SeqEqual
  <2> QED  BY <1>1, <2>1 DEF Follows
<1>4. CASE Len(log') = Len(log) + 1
  <2> DEFINE q == SubSeq(log', 1, Len(log))
  <2>1. q \in Seq(RowsWritten) /\ Len(q) = Len(log) /\ \A i \in 1..Len(log) : q[i] = log'[i]
    <3>1. Len(log) \in 0..Len(log')
      BY <1>2, <1>4
    <3>2. q \in Seq(RowsWritten) /\ Len(q) = Len(log)
      BY <1>2, <3>1, CutElements
    <3>3. \A i \in 1..Len(log) : log'[i] \in RowsWritten
      BY <1>2, <1>4, ElementOfSeq
    <3>4. \A i \in 1..(Len(log) - 1 + 1) : q[i] = log'[1 + i - 1]
      BY <1>2, <3>3, SubSeqProperties
    <3> HIDE DEF q
    <3>5. \A i \in 1..Len(log) : i \in 1..(Len(log) - 1 + 1) /\ 1 + i - 1 = i
      BY <1>2
    <3>6. \A i \in 1..Len(log) : q[i] = log'[i]
      BY <3>4, <3>5
    <3> QED  BY <3>2, <3>6
  <2> HIDE DEF q
  <2>2. q = log
    <3>1. \A i \in 1..Len(q) : q[i] = log[i]
      BY <1>2, <2>1
    <3> QED  BY <1>2, <2>1, <3>1, SeqEqual
  <2> QED  BY <1>1, <1>4, <2>2 DEF Follows, Replica!Next, Replica!Write, q
<1> QED  BY <1>2, <1>3, <1>4

\* The kinds of steps.
LEMMA QuietStep ==
    ASSUME CopyInv, DocTypes', Quiet, NoSubscription
    PROVE  CopyInv' /\ Follows
<1>1. DocTypes /\ Origins /\ Chain /\ Once
  BY DEF CopyInv
<1>2. via' = via /\ UNCHANGED <<coll, perms, via>> /\ StoreStep
  BY DEF Quiet
<1>3. Origins' /\ Chain' /\ (Fresh => Fresh')
  BY <1>1, QuietKeeps
<1>4. Once'
  BY <1>1, <1>2, <1>3, OnceStays
<1>5. Follows
  BY <1>1, <1>2, StoreFollows
<1> QED  BY <1>3, <1>4, <1>5 DEF CopyInv

LEMMA BuffersStep ==
    ASSUME CopyInv, NEW s \in Sockets, Buffers(s)
    PROVE  CopyInv' /\ Follows
<1>1. DocTypes /\ Origins /\ Chain /\ Once
  BY DEF CopyInv
<1>2. DocTypes' /\ NoSubscription
  BY <1>1, BuffersTyped
<1>3. Origins' /\ Chain' /\ ~Fresh
  BY <1>1, BuffersKeeps
<1>4. UNCHANGED <<coll, perms, via>> /\ StoreStep
  BY DEF Buffers, Elsewhere, Starts, ragVars, serverVars, StoreStep
<1>5. Once'
  BY <1>1, <1>2, <1>3, <1>4, OnceStays
<1>6. Follows
  BY <1>1, <1>4, StoreFollows
<1> QED  BY <1>2, <1>3, <1>5, <1>6 DEF CopyInv

LEMMA FetchStep ==
    ASSUME CopyInv, ServerFetches \/ LocalFetches
    PROVE  CopyInv' /\ Follows
<1>1. DocTypes /\ Origins /\ Chain /\ Once
  BY DEF CopyInv
<1>2. DocTypes' /\ NoSubscription /\ \E q : Fetches(q)
  BY <1>1, LocalFetchesTyped, ServerFetchesTyped
<1>3. PICK q : Fetches(q)
  BY <1>2
<1>4. Origins' /\ Chain' /\ ~Fresh
  BY <1>1, <1>2, <1>3, FetchesKeep
<1>5. UNCHANGED <<coll, perms, via>> /\ StoreStep
  BY <1>3 DEF Fetches, StoreStep
<1>6. Once'
  BY <1>1, <1>2, <1>4, <1>5, OnceStays
<1>7. Follows
  BY <1>1, <1>5, StoreFollows
<1> QED  BY <1>2, <1>4, <1>6, <1>7 DEF CopyInv

LEMMA CallStep ==
    ASSUME CopyInv, Calls
    PROVE  CopyInv' /\ Follows
<1>1. DocTypes /\ Origins /\ Chain /\ Once
  BY DEF CopyInv
<1>2. DocTypes' /\ NoSubscription /\ (Quiet \/ \E x : Unpacks(x))
  BY <1>1, CallsTyped
<1>3. CASE Quiet
  BY <1>2, <1>3, QuietStep
<1>4. CASE \E x : Unpacks(x)
  <2>1. PICK x : Unpacks(x)
    BY <1>4
  <2>2. Origins' /\ Chain' /\ ~Fresh
    BY <1>1, <2>1, UnpacksKeeps
  <2>3. UNCHANGED <<coll, perms, via>> /\ StoreStep
    BY <2>1 DEF Unpacks, StoreStep
  <2>4. Once'
    BY <1>1, <1>2, <2>2, <2>3, OnceStays
  <2>5. Follows
    BY <1>1, <2>3, StoreFollows
  <2> QED  BY <1>2, <2>2, <2>4, <2>5 DEF CopyInv
<1> QED  BY <1>2, <1>3, <1>4

LEMMA BatchStep ==
    ASSUME CopyInv, Stores
    PROVE  CopyInv' /\ Follows
<1>1. DocTypes /\ Origins /\ Chain /\ Once
  BY DEF CopyInv
<1>2. DocTypes' /\ NoSubscription /\ StoresBatch
  BY <1>1, StoresTyped
<1>3. /\ Origins' /\ Chain' /\ (Fresh => Fresh')
      /\ \A c \in Slots : coll'[c] >= coll[c]
      /\ \A c \in Slots : coll'[c] # coll[c] => Replica!Comes(c, coll'[c])
  BY <1>1, <1>2, StoresKeep
<1>4. UNCHANGED <<perms, via, log>> /\ StoreStep
  BY <1>2 DEF StoresBatch, StoreStep, storeVars
<1>5. Once'
  BY <1>1, <1>2, <1>3, <1>4, OnceStays
<1>6. User' = User
  BY <1>1, <1>4, RowsKept
<1>7. Replica!Copy
  <2>1. \A c \in Slots : coll'[c] \in Nat /\ coll[c] \in Nat
    BY <1>1, <1>2 DEF DocTypes, RagOK
  <2>2. \A c \in Slots : coll'[c] = coll[c] \/ (coll'[c] > coll[c] /\ Replica!Comes(c, coll'[c]))
    BY <1>3, <2>1
  <2> QED  BY <1>4, <2>2 DEF Replica!Copy, Slots
<1>8. Follows
  BY <1>6, <1>7 DEF Follows, Replica!Next
<1> QED  BY <1>2, <1>3, <1>5, <1>8 DEF CopyInv

\* The feed begins, in one way or the other.
LEMMA BeginsStep ==
    ASSUME CopyInv, DocTypes', FeedBegins, Once'
    PROVE  CopyInv' /\ Follows
<1>1. DocTypes
  BY DEF CopyInv
<1>2. Origins' /\ Chain'
  BY <1>1, FeedBeginsKeeps
<1>3. UNCHANGED <<coll, perms, via>> /\ StoreStep
  BY DEF FeedBegins, StoreStep
<1>4. Follows
  BY <1>1, <1>3, StoreFollows
<1> QED  BY <1>2, <1>4 DEF CopyInv

LEMMA SyncsStep ==
    ASSUME CopyInv, NEW cleared \in BOOLEAN, Syncs(cleared)
    PROVE  CopyInv' /\ Follows
<1>1. DocTypes /\ Origins /\ Chain /\ Once
  BY DEF CopyInv
<1>2. /\ DocTypes'
      /\ via = "socket" => Quiet /\ SendsSubscription
      /\ via = "local" => FeedBegins /\ NoSubscription
  BY <1>1, SyncsTypes
<1>3. via \in {"local", "socket"}
  BY <1>1 DEF DocTypes, SocketsOK
<1>4. CASE via = "socket"
  <2>1. Quiet /\ SendsSubscription
    BY <1>2, <1>4
  <2>2. Origins' /\ Chain' /\ (Fresh => Fresh')
    BY <1>1, <2>1, QuietKeeps
  <2>3. UNCHANGED <<coll, perms, via>> /\ StoreStep
    BY <2>1 DEF Quiet
  <2>4. Once'
    BY <1>1, <2>1, <2>2, <2>3, OnceSent
  <2>5. Follows
    BY <1>1, <2>3, StoreFollows
  <2> QED  BY <1>2, <2>2, <2>4, <2>5 DEF CopyInv
<1>5. CASE via = "local"
  <2>1. FeedBegins /\ NoSubscription
    BY <1>2, <1>5
  <2>2. rag' \notin Unsent
    BY DEF Syncs, R!Goes, Unsent
  <2>3. /\ \A s \in Sockets : \A i \in Nat : SubAt(s, i)' => SubAt(s, i)
        /\ \A h \in inHand' : h \in inHand /\ (SubInHand(h)' => SubInHand(h))
    BY <1>1, <2>1, StaysPut
  <2>4. /\ \A s \in Sockets : \A i \in Nat : ~SubAt(s, i)'
        /\ \A h \in inHand' : ~SubInHand(h)'
    BY <1>1, <1>5, <2>3 DEF Once
  <2>5. Once'
    BY <2>2, <2>4, OnceOver
  <2> QED  BY <1>2, <2>1, <2>5, BeginsStep
<1> QED  BY <1>3, <1>4, <1>5

LEMMA ReceivesStep ==
    ASSUME CopyInv, NEW s \in Sockets, ServerReceives(s)
    PROVE  CopyInv' /\ Follows
<1>1. DocTypes /\ Origins /\ Chain /\ Once
  BY DEF CopyInv
<1>2. /\ DocTypes' /\ Takes(s)
      /\ \/ Quiet /\ inHand' \in {inHand, inHand \cup {[s |-> s, m |-> Head(sk[s].up)]}}
         \/ FeedBegins /\ inHand' = inHand /\ Head(sk[s].up) = Subscription
  BY <1>1, ReceivesMessage
<1>3. CASE Quiet /\ inHand' \in {inHand, inHand \cup {[s |-> s, m |-> Head(sk[s].up)]}}
  <2>1. Origins' /\ Chain' /\ (Fresh => Fresh')
    BY <1>1, <1>3, QuietKeeps
  <2>2. UNCHANGED <<coll, perms, via>> /\ StoreStep
    BY <1>3 DEF Quiet
  <2>3. Once'
    BY <1>1, <1>2, <1>3, <2>1, <2>2, OnceTaken
  <2>4. Follows
    BY <1>1, <2>2, StoreFollows
  <2> QED  BY <1>2, <2>1, <2>3, <2>4 DEF CopyInv
<1>4. CASE FeedBegins /\ inHand' = inHand /\ Head(sk[s].up) = Subscription
  <2>1. via' = via
    BY <1>4 DEF FeedBegins
  <2>2. Once'
    BY <1>1, <1>2, <1>4, <2>1, OnceTaken
  <2> QED  BY <1>2, <1>4, <2>2, BeginsStep
<1> QED  BY <1>2, <1>3, <1>4

LEMMA HandlesStep ==
    ASSUME CopyInv, NEW h \in inHand, Handles(h) \/ Refuses(h)
    PROVE  CopyInv' /\ Follows
<1>1. DocTypes /\ Origins /\ Chain /\ Once
  BY DEF CopyInv
<1>2. /\ DocTypes' /\ inHand' = inHand \ {h} /\ rag' = rag
      /\ \A t \in Sockets : sk'[t].up = sk[t].up
      /\ Quiet \/ (FeedBegins /\ SubInHand(h))
  BY <1>1, HandlesMessage
<1>3. CASE Quiet
  <2>1. NoSubscription
    BY <1>2 DEF NoSubscription, UpStep
  <2> QED  BY <1>2, <1>3, <2>1, QuietStep
<1>4. CASE FeedBegins /\ SubInHand(h)
  <2>1. Once'
    BY <1>1, <1>2, <1>4, OnceHandled
  <2> QED  BY <1>2, <1>4, <2>1, BeginsStep
<1> QED  BY <1>2, <1>3, <1>4

LEMMA WriteStep ==
    ASSUME CopyInv, Write
    PROVE  CopyInv' /\ Follows
<1>1. DocTypes
  BY DEF CopyInv
<1>2. /\ StoreStep
      /\ UNCHANGED <<feed, sk, serverVars, clientVars, buffer, busy, ragVars, via, faults>>
  BY <1>1, WriteQuiet
<1>3. UNCHANGED <<cl, authing, req, sub, crashed>>
  BY <1>2 DEF clientVars
<1>4. StoreOK'
  <2>1. feed' \in [on : BOOLEAN, sock : {0} \cup Sockets, last : 0..Len(log), page : FeedPages]
    BY <1>1, <1>2 DEF DocTypes, StoreOK
  <2> QED  BY <1>1, <1>2, <2>1, StoreTyped
<1>5. SocketsOK' /\ RagOK'
  BY <1>1, <1>2 DEF DocTypes, SocketsOK, RagOK, serverVars, ragVars
<1>6. ClientOK'
  <2>1. SocketOrder'
    BY <1>1, <1>2, <1>3, OrderSame
  <2> QED  BY <1>1, <1>2, <1>3, <2>1 DEF DocTypes, ClientOK
<1>7. Quiet /\ NoSubscription
  BY <1>1, <1>2, SameQueues, SameBuffer DEF Quiet, NoSubscription, serverVars, ragVars
<1> QED  BY <1>4, <1>5, <1>6, <1>7, QuietStep DEF DocTypes
-----------------------------------------------------------------------------
\* At the start nothing was written, nothing is copied and nothing travels.
LEMMA EmptyQueue == <<>> \in Seq(Items) /\ InQueue(<<>>) = {} /\ ToSet(<<>>) = {} /\ Ordered(<<>>)
<1>1. ToSet(<<>>) = {} /\ Len(<<>>) = 0
  BY DEF ToSet
<1>2. InQueue(<<>>) = {}
  BY <1>1 DEF InQueue
<1>3. Ordered(<<>>)
  BY <1>1 DEF Ordered
<1>4. <<>> \in Seq(Items)
  OBVIOUS
<1> QED  BY <1>1, <1>2, <1>3, <1>4

LEMMA InitSockets ==
    ASSUME Init
    PROVE  SocketsOK /\ ClientOK /\ \A s \in Sockets : sk[s].up = <<>> /\ sk[s].down = <<>>
<1>1. /\ sk = [s \in Sockets |-> S!NoSocket] /\ inHand = {}
      /\ perms \in BOOLEAN /\ serving = TRUE /\ via \in {"local", "socket"} /\ faults = 0
  BY DEF Init, S!Init
<1>2. PICK key \in BOOLEAN :
        cl = [sock |-> 0, connected |-> FALSE, authed |-> FALSE, promise |-> "none",
              retry |-> FALSE, key |-> key, disposed |-> FALSE]
  BY DEF Init, C!Init
<1>3. authing = {} /\ req = [r \in Reqs |-> C!NoReq] /\ sub = FALSE /\ buffer = <<>> /\ busy = "no" /\ crashed = FALSE
  BY DEF Init, C!Init
<1>4. S!NoSocket \in SocketStates
  BY DEF S!NoSocket, SocketStates
<1>5. SocketsOK
  BY <1>1, <1>4 DEF SocketsOK
<1>6. C!NoReq \in Queries
  BY DEF C!NoReq, Queries, OtherMethods
<1>7. cl \in Connections
  <2>1. 0 \in 0..Cardinality(Sockets)
    BY SocketNumbers
  <2> QED  BY <1>2, <2>1 DEF Connections
<1>8. SocketOrder
  <2>1. \A s \in Sockets : s > 0 /\ ~(s < 0)
    BY SocketNumbers
  <2>2. \A s \in Sockets : sk[s].c = "none"
    BY <1>1 DEF S!NoSocket
  <2>3. cl.sock = 0 /\ cl.retry = FALSE
    BY <1>2
  <2> QED  BY <2>1, <2>2, <2>3 DEF SocketOrder
<1>9. buffer \in Seq(FeedItems)
  BY <1>3
<1>10. ClientOK
  BY <1>3, <1>6, <1>7, <1>8, <1>9 DEF ClientOK
<1>11. \A s \in Sockets : sk[s].up = <<>> /\ sk[s].down = <<>>
  BY <1>1 DEF S!NoSocket
<1> QED  BY <1>5, <1>10, <1>11

LEMMA InitCopy == Init => CopyInv /\ Replica!Init
<1> SUFFICES ASSUME Init PROVE CopyInv /\ Replica!Init
  OBVIOUS
<1>1. /\ exists = TRUE /\ log = <<>> /\ rows = [d \in Docs |-> 0] /\ feed = D!NoFeed
      /\ rag = "idle" /\ batch = <<>> /\ left = <<>> /\ atEof = FALSE
      /\ coll = [c \in Slots |-> 0] /\ faults = 0 /\ buffer = <<>> /\ busy = "no"
  BY DEF Init, D!Init, R!Init, C!Init, Slots
<1>2. SocketsOK /\ ClientOK /\ \A s \in Sockets : sk[s].up = <<>> /\ sk[s].down = <<>>
  BY InitSockets
<1>3. StoreOK
  <2>1. Len(log) = 0 /\ log \in Seq(RowsWritten)
    BY <1>1
  <2>2. Len(log) <= MaxWrites
    BY <2>1, DocAssumption
  <2>3. rows \in [Docs -> 0..Len(log)] /\ \A d \in Docs : ~(rows[d] > 0)
    BY <1>1, <2>1
  <2>4. feed \in [on : BOOLEAN, sock : {0} \cup Sockets, last : 0..Len(log), page : FeedPages]
    BY <1>1, <2>1 DEF D!NoFeed, FeedPages
  <2> QED  BY <1>1, <2>1, <2>2, <2>3, <2>4 DEF StoreOK
<1>4. RagOK
  <2>1. batch \in Seq(Vectors) /\ left \in Seq(Vectors) /\ Len(batch) = 0
    BY <1>1
  <2>2. coll \in [Slots -> Nat]
    BY <1>1
  <2>3. Len(batch) < RAG_BATCH_SIZE + faults /\ Len(batch) <= RAG_BATCH_SIZE + faults
    BY <1>1, <2>1, Sizes
  <2> QED  BY <1>1, <2>1, <2>2, <2>3 DEF RagOK
<1>5. Down = {} /\ Buffered = {} /\ ToSet(batch) = {} /\ ToSet(left) = {} /\ ~feed.on
  BY <1>1, <1>2, EmptyQueue DEF Down, Buffered, D!NoFeed
<1>6. Origins
  BY <1>5 DEF Origins
<1>7. Chain
  <2>1. Ordered(buffer) /\ \A s \in Sockets : Ordered(sk[s].down) /\ InQueue(sk[s].down) = {}
    BY <1>1, <1>2, EmptyQueue
  <2> QED  BY <1>5, <2>1 DEF Chain, Before
<1>8. Once
  <2>1. \A s \in Sockets : \A i \in Nat : ~SubAt(s, i)
    BY <1>2 DEF SubAt
  <2>2. \A h \in inHand : FALSE
    BY DEF Init, S!Init
  <2>3. Fresh
    BY <1>1, <1>5 DEF Fresh
  <2> QED  BY <2>1, <2>2, <2>3 DEF Once
<1>9. Replica!Init
  BY <1>1 DEF Replica!Init, Slots
<1> QED  BY <1>2, <1>3, <1>4, <1>6, <1>7, <1>8, <1>9 DEF CopyInv, DocTypes

-----------------------------------------------------------------------------
\* A step of any kind keeps the invariant, and is one of the replica or none.
LEMMA Stutters ==
    ASSUME CopyInv, UNCHANGED vars
    PROVE  CopyInv' /\ Follows
<1>1. UNCHANGED <<exists, log, rows, feed, sk, inHand, perms, serving, cl, authing, req, sub,
                  buffer, busy, crashed, rag, batch, left, atEof, coll, via, faults>>
  BY DEF vars, storeVars, serverVars, clientVars, ragVars
<1>2. DocTypes'
  <2>1. StoreOK' /\ RagOK'
    BY <1>1 DEF CopyInv, DocTypes, StoreOK, RagOK
  <2>2. SocketsOK' /\ ClientOK'
    BY <1>1 DEF CopyInv, DocTypes, SocketsOK, ClientOK, SocketOrder
  <2> QED  BY <2>1, <2>2 DEF DocTypes
<1>3. Quiet /\ NoSubscription
  BY <1>1, SameQueues, SameBuffer DEF CopyInv, Quiet, NoSubscription, StoreStep, storeVars
<1> QED  BY <1>2, <1>3, QuietStep

LEMMA ClientStep ==
    ASSUME CopyInv,
           \/ \E s \in Sockets : \/ Opens(s) \/ NotOpens(s) \/ ClientCloses(s)
                                 \/ ClientReceives(s) \/ AuthTimesOut(s)
           \/ \E r \in Reqs : Resumes(r) \/ TimesOut(r)
           \/ Reconnects \/ getDocstore \/ Asks \/ Disposes
    PROVE  CopyInv' /\ Follows
<1>1. DocTypes
  BY DEF CopyInv
<1>2. ASSUME NEW s \in Sockets, Opens(s) PROVE CopyInv' /\ Follows
  BY <1>1, <1>2, OpensQuiet, QuietStep
<1>3. ASSUME NEW s \in Sockets, NotOpens(s) \/ ClientCloses(s) PROVE CopyInv' /\ Follows
  BY <1>1, <1>3, ClosesQuiet, QuietStep
<1>4. ASSUME NEW s \in Sockets, ClientReceives(s) PROVE CopyInv' /\ Follows
  BY <1>1, <1>4, ReceiveSteps, QuietStep, BuffersStep
<1>5. CASE (\E r \in Reqs : TimesOut(r)) \/ (\E s \in Sockets : AuthTimesOut(s))
  BY <1>1, <1>5, TimersQuiet, QuietStep
<1>6. CASE Asks \/ \E r \in Reqs : Resumes(r)
  BY <1>1, <1>6, RequestsQuiet, QuietStep
<1>7. CASE Reconnects \/ getDocstore
  BY <1>1, <1>7, ConnectsQuiet, QuietStep
<1>8. CASE Disposes
  BY <1>1, <1>8, DisposesQuiet, QuietStep
<1> QED  BY <1>2, <1>3, <1>4, <1>5, <1>6, <1>7, <1>8

LEMMA ExpertStep ==
    ASSUME CopyInv,
           \/ Write \/ Begin \/ Found \/ StartFails \/ LocalFetches \/ Calls \/ Stores
           \/ StoreFails \/ Stop \/ \E cleared \in BOOLEAN : Syncs(cleared)
    PROVE  CopyInv' /\ Follows
<1>1. DocTypes
  BY DEF CopyInv
<1>2. CASE Write
  BY <1>2, WriteStep
<1>3. CASE Begin
  BY <1>1, <1>3, ConnectsQuiet, QuietStep
<1>4. CASE Found \/ StartFails
  BY <1>1, <1>4, StartsQuiet, QuietStep
<1>5. CASE LocalFetches
  BY <1>5, FetchStep
<1>6. CASE Calls
  BY <1>6, CallStep
<1>7. CASE Stores
  BY <1>7, BatchStep
<1>8. CASE StoreFails
  BY <1>1, <1>8, StoreFailsQuiet, QuietStep
<1>9. CASE Stop
  BY <1>1, <1>9, StopQuiet, QuietStep
<1>10. CASE \E cleared \in BOOLEAN : Syncs(cleared)
  BY <1>10, SyncsStep
<1> QED  BY <1>2, <1>3, <1>4, <1>5, <1>6, <1>7, <1>8, <1>9, <1>10

LEMMA ServerStep ==
    ASSUME CopyInv,
           \/ \E s \in Sockets : ServerCloses(s) \/ ServerReceives(s) \/ Expires(s)
           \/ \E h \in inHand : Handles(h) \/ Refuses(h)
           \/ ServerFetches \/ Stops \/ Restarts
    PROVE  CopyInv' /\ Follows
<1>1. DocTypes
  BY DEF CopyInv
<1>2. ASSUME NEW s \in Sockets, ServerCloses(s) \/ Expires(s) PROVE CopyInv' /\ Follows
  BY <1>1, <1>2, ServerClosesQuiet, QuietStep
<1>3. ASSUME NEW s \in Sockets, ServerReceives(s) PROVE CopyInv' /\ Follows
  BY <1>3, ReceivesStep
<1>4. ASSUME NEW h \in inHand, Handles(h) \/ Refuses(h) PROVE CopyInv' /\ Follows
  BY <1>4, HandlesStep
<1>5. CASE ServerFetches
  BY <1>5, FetchStep
<1>6. CASE Stops \/ Restarts
  BY <1>1, <1>6, ServerStopsQuiet, QuietStep
<1> QED  BY <1>2, <1>3, <1>4, <1>5, <1>6

LEMMA CopyStep == CopyInv /\ [Next]_vars => CopyInv' /\ Follows
<1> SUFFICES ASSUME CopyInv, [Next]_vars PROVE CopyInv' /\ Follows
  OBVIOUS
<1>1. CASE UNCHANGED vars
  BY <1>1, Stutters
<1>2. CASE \/ \E s \in Sockets : \/ Opens(s) \/ NotOpens(s) \/ ClientCloses(s)
                                 \/ ClientReceives(s) \/ AuthTimesOut(s)
           \/ \E r \in Reqs : Resumes(r) \/ TimesOut(r)
           \/ Reconnects \/ getDocstore \/ Asks \/ Disposes
  BY <1>2, ClientStep
<1>3. CASE \/ Write \/ Begin \/ Found \/ StartFails \/ LocalFetches \/ Calls \/ Stores
           \/ StoreFails \/ Stop \/ \E cleared \in BOOLEAN : Syncs(cleared)
  BY <1>3, ExpertStep
<1>4. CASE \/ \E s \in Sockets : ServerCloses(s) \/ ServerReceives(s) \/ Expires(s)
           \/ \E h \in inHand : Handles(h) \/ Refuses(h)
           \/ ServerFetches \/ Stops \/ Restarts
  BY <1>4, ServerStep
<1> QED  BY <1>1, <1>2, <1>3, <1>4 DEF Next

\* What the invariant says of the shape of the state.
LEMMA CopyTypes == CopyInv => TypeOK
<1> SUFFICES ASSUME CopyInv PROVE TypeOK
  OBVIOUS
<1>1. StoreOK /\ SocketsOK /\ ClientOK /\ RagOK
  BY DEF CopyInv, DocTypes
<1>2. D!TypeOK
  <2>1. \A i \in 1..Len(log) : log[i] \in RowsWritten
    BY <1>1, ElementOfSeq DEF StoreOK
  <2>2. \A i \in 1..Len(log) : log[i].user \in Users \cup {D!NoUser} /\ log[i].n \in 0..MaxVectors
    BY <2>1 DEF RowsWritten
  <2>3. Len(log) \in Nat
    BY <1>1 DEF StoreOK
  <2>4. feed.on \in BOOLEAN /\ feed.last <= Len(log)
    BY <1>1, <2>3 DEF StoreOK
  <2>5. \A d \in Docs : rows[d] \in 0..Len(log) /\ (rows[d] > 0 => log[rows[d]].d = d)
    BY <1>1 DEF StoreOK
  <2>6. exists \in BOOLEAN /\ Len(log) <= MaxWrites
    BY <1>1 DEF StoreOK
  <2> QED  BY <2>2, <2>4, <2>5, <2>6 DEF D!TypeOK
<1>3. C!TypeOK
  <2>1. \A r \in Reqs : req[r].at \in {"idle", "waiting", "stuck", "sent", "done", "failed"}
    BY <1>1 DEF ClientOK, Queries
  <2>2. cl.promise \in {"none", "pending", "ready", "rejected"}
    BY <1>1 DEF ClientOK, Connections
  <2> QED  BY <1>1, <2>1, <2>2 DEF C!TypeOK, ClientOK
<1>4. R!TypeOK /\ (R!Storable(batch) => Len(batch) <= RAG_BATCH_SIZE + faults)
  BY <1>1 DEF RagOK, R!TypeOK
<1>5. \A s \in Sockets : /\ sk[s].c \in {"none", "connecting", "open", "closed"}
                         /\ sk[s].v \in {"none", "open", "closing", "closed"}
                         /\ sk[s].c = "none" <=> s > cl.sock
  BY <1>1 DEF SocketsOK, SocketStates, ClientOK, SocketOrder
<1>6. Cardinality({s \in Sockets : sk[s].c \in {"connecting", "open"}}) <= 1
  <2> DEFINE X == {s \in Sockets : sk[s].c \in {"connecting", "open"}}
  <2>1. X \subseteq {cl.sock}
    <3>1. cl.sock \in Nat /\ \A s \in Sockets : s \in Nat
      BY <1>1, SocketNumbers DEF ClientOK, Connections
    <3> QED  BY <1>1, <3>1 DEF ClientOK, SocketOrder
  <2> HIDE DEF X
  <2>2. IsFiniteSet({cl.sock}) /\ Cardinality({cl.sock}) = 1
    BY FS_Singleton
  <2>3. Cardinality(X) <= Cardinality({cl.sock})
    BY <2>1, <2>2, FS_Subset
  <2> QED  BY <2>2, <2>3 DEF X
<1> QED  BY <1>2, <1>3, <1>4, <1>5, <1>6 DEF TypeOK

\* The variables keep their shape: a document's row is one of its own, and a batch is over
\* its size by no more vectors than there were faults, unless it has a vector twice.  Each
\* failed upsert of the vector database leaves the full batch in DocstoreToRag and adds one
\* vector to it at the most.
THEOREM DocTypeCorrect == Spec => []TypeOK
BY InitCopy, CopyStep, CopyTypes, PTL DEF Spec

\* The collection of an expert replicates the docstore (DocReplica): whatever documents are
\* written, replaced and deleted meanwhile, over a connection that breaks or in the same
\* process, with batches of any size and storeBatch failing: a vector comes from a row that
\* was written for its document, by the user whose documents are copied, and gives way to
\* that of a later row only, until the whole collection is dropped.
THEOREM CollectionReplicates == Spec => Replicates
BY InitCopy, CopyStep, PTL DEF Spec, Replicates, Replica!Spec, Follows
=============================================================================
