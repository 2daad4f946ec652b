------------------------------- MODULE DocClient -------------------------------
(***************************************************************************)
(* DocStoreWebSocketClient (src/src/docstore/DocStoreWebSocketClient.ts):  *)
(* one websocket at a time, reconnected by a timer, with requests that     *)
(* wait for the connection and for their responses, and one subscription.  *)
(***************************************************************************)
EXTENDS Naturals, Sequences, FiniteSets

CONSTANTS Sockets, Reqs

VARIABLES sk,
          cl,      \* sock, the current one; connected; authed; promise, connectPromise;
                   \* retry, reconnectTimeout is armed; key, it authenticates; disposed
          authing, \* sockets whose auth message awaits a response
          req,     \* req[r]: where sendAndWait is, and its method
          sub,     \* subscriptionCallbacks has the callback
          buffer,  \* docBuffers
          busy,    \* the callback awaits something: "yes"; it threw: "stalled"; or "no"
          crashed  \* a rejection that nothing handles ended the process

NoReq == [at |-> "idle", method |-> "none", d |-> "none", n |-> 0]

Init ==
    /\ \E key \in BOOLEAN :
         cl = [sock |-> 0, connected |-> FALSE, authed |-> FALSE, promise |-> "none",
               retry |-> FALSE, key |-> key, disposed |-> FALSE]
    /\ authing = {}
    /\ req = [r \in Reqs |-> NoReq]
    /\ sub = FALSE
    /\ buffer = <<>> /\ busy = "no"
    /\ crashed = FALSE

Idle == UNCHANGED <<sub, buffer, busy>>

\* Requests that await connectPromise.  connect makes a new promise: who awaits the old
\* one while it is pending does so for ever.
Waiting == {r \in Reqs : req[r].at = "waiting"}
Each(R, at) == [r \in Reqs |-> IF r \in R THEN [req[r] EXCEPT !.at = at] ELSE req[r]]

\* connectReject.
Rejected ==
    IF cl.promise = "pending"
      THEN req' = Each(Waiting, "failed") /\ crashed' = (Waiting = {})
      ELSE UNCHANGED <<req, crashed>>
AfterReject == IF cl.promise = "pending" THEN "rejected" ELSE cl.promise

\* scheduleReconnect.
Retries == cl.retry \/ ~cl.disposed

-----------------------------------------------------------------------------
Connects ==
    /\ cl.sock + 1 \in Sockets
    /\ cl' = [cl EXCEPT !.sock = @ + 1, !.promise = "pending", !.retry = FALSE]
    /\ sk' = [sk EXCEPT ![cl.sock + 1].c = "connecting"]
    /\ UNCHANGED <<authing, crashed>> /\ Idle

\* The constructor, and the request that is made with it.
Open(r, method, d, n) ==
    /\ cl.sock = 0 /\ Connects
    /\ req' = [req EXCEPT ![r] = [at |-> "waiting", method |-> method, d |-> d, n |-> n]]

Reconnect == cl.retry /\ Connects /\ req' = Each(Waiting, "stuck")

\* openHandler, with the sockets as the server makes them of the connection.
Opened(s, accepted) ==
    /\ sk[s].c = "connecting"
    /\ cl' = [cl EXCEPT !.connected = TRUE, !.promise = IF cl.key THEN @ ELSE "ready"]
    /\ IF cl.key
         THEN /\ authing' = authing \cup {s}
              /\ sk' = [accepted EXCEPT ![s].up = Append(@, [type |-> "auth", id |-> "auth"])]
         ELSE sk' = accepted /\ UNCHANGED authing
    /\ UNCHANGED <<req, crashed>> /\ Idle

\* errorHandler and closeHandler of a connection that is not made.
NotOpened(s) ==
    /\ sk[s].c = "connecting"
    /\ sk' = [sk EXCEPT ![s].c = "closed"]
    /\ Rejected
    /\ cl' = [cl EXCEPT !.promise = AfterReject, !.retry = Retries, !.authed = FALSE]
    /\ UNCHANGED authing /\ Idle

\* closeHandler.
Closed(s) ==
    /\ sk[s].c = "open"
    /\ sk' = [sk EXCEPT ![s].c = "closed", ![s].down = <<>>]
    /\ cl' = [cl EXCEPT !.connected = FALSE, !.authed = FALSE, !.retry = Retries]
    /\ UNCHANGED <<authing, req, crashed>> /\ Idle

AuthTimeout(s) ==
    /\ s \in authing
    /\ authing' = authing \ {s}
    /\ Rejected
    /\ cl' = [cl EXCEPT !.promise = AfterReject]
    /\ UNCHANGED sk /\ Idle

-----------------------------------------------------------------------------
\* The second half of sendAndWait.  A websocket drops what is sent after it closed.
Sends(r, q) ==
    LET s == cl.sock IN
    IF (cl.key /\ ~cl.authed) \/ sk[s].c = "connecting"
      THEN req' = [req EXCEPT ![r] = [q EXCEPT !.at = "failed"]] /\ UNCHANGED sk
      ELSE /\ req' = [req EXCEPT ![r] = [q EXCEPT !.at = "sent"]]
           /\ sk' = IF sk[s].c # "open" THEN sk
                    ELSE [sk EXCEPT ![s].up = Append(@, [type |-> "request", id |-> r,
                                      method |-> q.method, d |-> q.d, n |-> q.n])]

Ask(r, method, d, n) ==
    LET q == [at |-> "idle", method |-> method, d |-> d, n |-> n] IN
    /\ req[r].at = "idle" /\ cl.sock > 0 /\ ~cl.disposed
    /\ IF cl.connected \/ cl.promise = "ready"
         THEN Sends(r, q)
         ELSE /\ req' = [req EXCEPT ![r] =
                          [q EXCEPT !.at = IF cl.promise = "pending" THEN "waiting" ELSE "failed"]]
              /\ UNCHANGED sk
    /\ UNCHANGED <<cl, authing, crashed>> /\ Idle

Resume(r) ==
    /\ req[r].at = "waiting" /\ cl.promise = "ready"
    /\ Sends(r, req[r])
    /\ UNCHANGED <<cl, authing, crashed>> /\ Idle

\* Mutant: a request has no timer.
NoTimer(r) == FALSE /\ UNCHANGED <<sk, cl, authing, req, crashed>> /\ Idle
RequestTimeout(r) ==
    /\ req[r].at = "sent"
    /\ req' = [req EXCEPT ![r].at = "failed"]
    /\ UNCHANGED <<sk, cl, authing, crashed>> /\ Idle

\* handleMessage.
Receives(s, m) ==
    /\ sk[s].c = "open" /\ sk[s].down # <<>> /\ m = Head(sk[s].down)
    /\ sk' = [sk EXCEPT ![s].down = Tail(@)]

\* After the timeout nothing awaits the response any more.
ReceiveAuth(s, m) ==
    /\ Receives(s, m) /\ m.type = "response" /\ m.id = "auth"
    /\ authing' = authing \ {s}
    /\ CASE s \notin authing -> UNCHANGED <<cl, req, crashed>>
         [] s \in authing /\ m.ok ->
              /\ cl' = [cl EXCEPT !.authed = TRUE, !.promise = "ready"]
              /\ UNCHANGED <<req, crashed>>
         [] s \in authing /\ ~m.ok -> cl' = [cl EXCEPT !.promise = AfterReject] /\ Rejected
    /\ Idle

\* The response to a request, or an error for the subscription, which nobody awaits.
ReceiveResponse(s, m) ==
    /\ Receives(s, m) /\ m.type = "response" /\ m.id # "auth"
    /\ req' = Each({r \in Reqs : r = m.id /\ req[r].at = "sent"}, IF m.ok THEN "done" ELSE "failed")
    /\ UNCHANGED <<cl, authing, crashed>> /\ Idle

\* enqueueDoc.
ReceiveItem(s, m) ==
    /\ Receives(s, m) /\ m.type # "response"
    /\ buffer' = IF sub THEN Append(buffer, m) ELSE buffer
    /\ busy' = IF sub /\ busy = "stalled" THEN "no" ELSE busy
    /\ UNCHANGED <<cl, authing, req, sub, crashed>>

\* subscribe does not wait for the connection; RagExpert calls it where nothing catches.
Subscribe ==
    /\ sub' = TRUE
    /\ crashed' = (sk[cl.sock].c = "connecting")
    /\ sk' = IF sk[cl.sock].c # "open" THEN sk
             ELSE [sk EXCEPT ![cl.sock].up =
                    Append(@, [type |-> "subscription", id |-> "sub"])]
    /\ UNCHANGED <<cl, authing, req, buffer, busy>>

CloseSubscription ==
    /\ sub' = FALSE
    /\ sk' = IF sk[cl.sock].c # "open" THEN sk
             ELSE [sk EXCEPT ![cl.sock].up = Append(@, [type |-> "end", id |-> "sub"])]
    /\ buffer' = <<>>
    /\ UNCHANGED <<cl, authing, req, busy, crashed>>

\* dispose closes the socket and its handlers; the timers of requests stay.
Dispose ==
    /\ ~cl.disposed /\ cl.sock > 0
    /\ cl' = [cl EXCEPT !.disposed = TRUE, !.retry = FALSE]
    /\ sk' = [sk EXCEPT ![cl.sock].c = "closed", ![cl.sock].down = <<>>]
    /\ sub' = FALSE /\ buffer' = <<>>
    /\ UNCHANGED <<authing, req, busy, crashed>>

TypeOK ==
    /\ cl.promise \in {"none", "pending", "ready", "rejected"}
    /\ \A r \in Reqs : req[r].at \in {"idle", "waiting", "stuck", "sent", "done", "failed"}
    /\ authing \subseteq Sockets
    /\ sub \in BOOLEAN /\ crashed \in BOOLEAN
    /\ busy \in {"no", "yes", "stalled"}
=============================================================================
