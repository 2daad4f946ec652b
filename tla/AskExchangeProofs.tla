--------------------------- MODULE AskExchangeProofs ---------------------------
(***************************************************************************)
(* What exchanges guarantee for every set of asks, every limit of parallel *)
(* payments and any number of faults: the payment slots are used, and the  *)
(* exchange implements AskContract.                                        *)
(*                                                                         *)
(* Every step is a move of one client chain, of one server chain, of an    *)
(* event between relays, or of a whole process.  The first lemmas say what *)
(* each kind of move may change; the invariants follow from the kinds.     *)
(***************************************************************************)
EXTENDS AskExchange, FiniteSetTheorems, SequenceTheorems, TLAPS

Places == {"unsent", "sending", "held", "missed", "seen"}
Bodies == {"none", "inline", "streamed", "invoice", "error", "odd", "preimage", "bogus",
           "answer", "empty", "stream"}
Events == [at : Places, body : Bodies]
Nets == [Asks -> [Kinds -> Events]]
Streams == {"none", "open", "closed", "error", "cut"}

Queued == {queue[i] : i \in 1..Len(queue)}

\* The shape of the state.
Shape ==
    /\ net \in Nets
    /\ C!TypeOK /\ S!TypeOK
    /\ paying \in SUBSET Asks /\ settled \in SUBSET Asks
    /\ queue \in Seq(Asks)
    /\ closed \in BOOLEAN /\ blamed \in SUBSET Asks /\ faults \in Nat

\* Who awaits the payment manager has one payment there, under way or in the queue.
Waits ==
    /\ \A a \in Asks : cli[a] = "paying" <=> a \in paying \cup Queued
    /\ \A i, j \in 1..Len(queue) : queue[i] = queue[j] => i = j

Before == {"idle", "reading", "pricing", "quoting", "waiting"}
After == {"working", "announcing", "streaming"}
Answers == {"answer", "stream"}

\* A chain of the server works only after its proof was verified, and an answer, as an
\* event or as a stream, comes from such a chain.
WorkIsServed == \A a \in Asks :
    /\ srv[a] \in Before => a \notin served
    /\ srv[a] \in After => a \in served
    /\ net[a].reply.body \in Answers => a \in served
    /\ cli[a] = "reading" => a \in served

IInv == Shape /\ SlotsAreFull /\ Waits /\ WorkIsServed

-----------------------------------------------------------------------------
(* The kinds of moves.                                                      *)

\* Answers come from nowhere but the server.
SameReplies == \A b \in Asks : net'[b].reply.body = net[b].reply.body

\* The chain of ask a goes on to x; its payment begins, ends or is not concerned.
ClientChain(a, x) ==
    /\ cli[a] \notin {"answered", "failed"}
    /\ cli' = [cli EXCEPT ![a] = x]
    /\ x \in {"answered", "reading"} => a \in served
    /\ \/ cli[a] # "paying" /\ x = "paying" /\ P!PayInvoice(a)
       \/ /\ cli[a] = "paying" /\ x \in {"proving", "refusing"} /\ a \in paying
          /\ P!ProcessNext(a)
          /\ settled' \in {settled, settled \cup {a}}
          /\ closed' = closed
       \/ cli[a] # "paying" /\ x # "paying" /\ UNCHANGED payVars

ClientMove(a) ==
    /\ \E x \in C!Stages : ClientChain(a, x)
    /\ limit' \in Nat /\ excess' \in SUBSET Asks
    /\ net' \in Nets /\ SameReplies
    /\ UNCHANGED serverVars

\* The chain of prompt a goes on to x; it begins to work only for a settled invoice.
ServerChain(a, x) ==
    /\ srv' = [srv EXCEPT ![a] = x]
    /\ \/ /\ srv[a] = "waiting" /\ x \notin Before
          /\ a \in settled /\ served' = served \cup {a}
       \/ /\ served' = served
          /\ x \in Before => srv[a] \in Before
          /\ x \in After => srv[a] \in After

ServerMove(a) ==
    /\ UNCHANGED <<clientVars, payVars, up>>
    /\ stream' \in [Asks -> Streams]
    /\ net' \in Nets
    /\ \A b \in Asks : net'[b].reply.body = net[b].reply.body
                       \/ (b = a /\ (net'[b].reply.body \in Answers => a \in served))
    /\ \E x \in S!Stages : ServerChain(a, x)

NetMove == UNCHANGED <<payVars, clientVars, serverVars>> /\ net' \in Nets /\ SameReplies

\* A process of either side goes, or comes back; asks that wait on the pool are stranded.
ProcessMove ==
    /\ UNCHANGED <<net, active, queue, paying, settled, served, limit, excess>>
    /\ cli' \in [Asks -> C!Stages]
    /\ \A a \in Asks : \/ cli'[a] = cli[a]
                       \/ cli'[a] = "stranded" /\ cli[a] \notin {"paying", "answered", "failed"}
    /\ closed' \in BOOLEAN /\ up' \in BOOLEAN
    /\ stream' \in [Asks -> Streams]
    /\ srv' \in [Asks -> S!Stages]
    /\ \A a \in Asks : srv'[a] \in Before \cup After => srv'[a] = srv[a]

\* An event keeps its shape when it is sent, and when it changes its place.
LEMMA NetUpdate ==
    ASSUME net \in Nets, NEW a \in Asks
    PROVE  /\ \A k \in Kinds, p \in Places : [net EXCEPT ![a][k].at = p] \in Nets
           /\ \A k \in Kinds, e \in Events : [net EXCEPT ![a][k] = e] \in Nets
           /\ \A p \in Places, e \in Events :
                [net EXCEPT ![a].quote.at = p, ![a].proof = e] \in Nets
           /\ \A p \in Places, e \in Events :
                [net EXCEPT ![a].proof.at = p, ![a].reply = e] \in Nets
<1>1. net[a] \in [Kinds -> Events]
  BY DEF Nets
<1> QED  BY <1>1 DEF Nets, Kinds, Events

\* An event that moves on keeps what it says.
LEMMA PlaceUpdate ==
    ASSUME net \in Nets, NEW a \in Asks, NEW k \in Kinds, NEW p \in Places,
           net' = [net EXCEPT ![a][k].at = p]
    PROVE  net' \in Nets /\ SameReplies
<1>1. net' \in Nets
  BY NetUpdate
<1> QED  BY <1>1 DEF SameReplies, Nets, Kinds, Events

\* What relays do to an event changes nothing else.
LEMMA RelayMoves ==
    ASSUME Shape, NEW a \in Asks, NEW k \in Kinds, Relay(a, k) \/ Miss(a, k) \/ Lose(a, k)
    PROVE  NetMove
<1>1. UNCHANGED <<payVars, clientVars, serverVars>>
  BY DEF Relay, Miss, Lose
<1>2. PICK p \in Places : net' = [net EXCEPT ![a][k].at = p]
  BY DEF Relay, Miss, Lose, Places
<1>3. net' \in Nets /\ SameReplies
  BY <1>2, PlaceUpdate DEF Shape
<1> QED  BY <1>1, <1>3 DEF NetMove

\* A process that stops, dies or starts keeps what was paid and served.
LEMMA ProcessMoves ==
    ASSUME Shape, Stop \/ Start
    PROVE  ProcessMove
<1>1. CASE Server(S!Dispose)
  BY <1>1 DEF Server, S!Dispose, ProcessMove, Shape, C!TypeOK, S!TypeOK, clientVars, Streams
<1>2. CASE Server(S!Crash)
  BY <1>2 DEF Server, S!Crash, ProcessMove, Shape, C!TypeOK, S!TypeOK, S!Stages, clientVars,
              Streams, Before, After
<1>3. ASSUME NEW stranded \in SUBSET Asks, Client(C!Dispose(stranded))
      PROVE  ProcessMove
  <2>1. stranded \subseteq C!Hanging \cup C!Streaming
    BY <1>3 DEF Client, C!Dispose
  <2>2. \A a \in stranded : cli[a] \notin {"paying", "answered", "failed"}
    BY <2>1 DEF C!Hanging, C!Streaming
  <2>3. cli' = [a \in Asks |-> IF a \in stranded THEN "stranded" ELSE cli[a]]
    BY <1>3 DEF Client, C!Dispose
  <2>4. cli' \in [Asks -> C!Stages]
    BY <2>3 DEF Shape, C!TypeOK, C!Stages
  <2> QED  BY <1>3, <2>2, <2>3, <2>4
           DEF Client, C!Dispose, C!Rest, C!P!Dispose, ProcessMove, Shape, S!TypeOK, Streams
<1>4. CASE Server(S!Start)
  BY <1>4 DEF Server, S!Start, ProcessMove, Shape, C!TypeOK, S!TypeOK, clientVars, Streams
<1> QED  BY <1>1, <1>2, <1>3, <1>4 DEF Stop, Start

\* What the client does to the events of an ask, and that none of it is a reply.
LEMMA ClientEvents ==
    ASSUME net \in Nets, NEW a \in Asks,
           \/ net' = net
           \/ \E k \in Kinds : net' = C!Seen(a, k)
           \/ \E k \in {"prompt", "proof"}, b \in Bodies : net' = C!Sends(a, k, b)
           \/ \E b \in Bodies :
                net' = [net EXCEPT ![a].quote.at = "seen",
                                   ![a].proof = [at |-> "sending", body |-> b]]
    PROVE  net' \in Nets /\ SameReplies
<1>2. CASE net' = net
  BY <1>2 DEF SameReplies
<1>3. CASE \E k \in Kinds : net' = C!Seen(a, k)
  <2>1. PICK k \in Kinds, p \in Places : net' = [net EXCEPT ![a][k].at = p]
    BY <1>3 DEF C!Seen, Places
  <2> QED  BY <2>1, PlaceUpdate
<1>4. CASE \E k \in {"prompt", "proof"}, b \in Bodies : net' = C!Sends(a, k, b)
  <2>1. PICK k \in {"prompt", "proof"}, b \in Bodies : net' = C!Sends(a, k, b)
    BY <1>4
  <2>2. [at |-> "sending", body |-> b] \in Events /\ k \in Kinds
    BY DEF Events, Places, Kinds
  <2>3. net' \in Nets
    BY <2>1, <2>2, NetUpdate DEF C!Sends
  <2> QED  BY <2>1, <2>3 DEF SameReplies, C!Sends, Nets, Kinds, Events
<1>5. CASE \E b \in Bodies : net' = [net EXCEPT ![a].quote.at = "seen",
                                                ![a].proof = [at |-> "sending", body |-> b]]
  <2>1. PICK b \in Bodies : net' = [net EXCEPT ![a].quote.at = "seen",
                                               ![a].proof = [at |-> "sending", body |-> b]]
    BY <1>5
  <2>2. [at |-> "sending", body |-> b] \in Events /\ "seen" \in Places
    BY DEF Events, Places
  <2>3. net' \in Nets
    BY <2>1, <2>2, NetUpdate
  <2> QED  BY <2>1, <2>3 DEF SameReplies, Nets, Kinds, Events
<1> QED  BY <1>2, <1>3, <1>4, <1>5

\* Every step of a client, and of its wallet, is a move of one chain.
LEMMA ClientMoves ==
    ASSUME ExchangeAssumption, IInv, NEW a \in Asks,
           \/ ClientStep(a) \/ ClientRuns(a) \/ WalletAnswers(a)
           \/ Client(C!Written(a, FALSE))
           \/ Client(C!Paid(a, FALSE))
           \/ Client(C!NotPaid(a, TRUE))
    PROVE  ClientMove(a)
<1> USE DEF IInv, Shape, C!TypeOK, ClientMove, ClientChain, Client, C!Stages, serverVars,
            C!Goes, C!To, C!Rest, C!Quiet, payVars, C!payVars
<1>1. CASE Client(C!Ask(a))
  <2>1. \E b \in Bodies : net' = C!Sends(a, "prompt", b)
    BY <1>1 DEF C!Ask, Bodies
  <2>2. net' \in Nets /\ SameReplies
    BY <2>1, ClientEvents
  <2>3. limit' \in Nat
    BY <1>1 DEF C!Ask, C!LimitOf, ExchangeAssumption
  <2> QED  BY <1>1, <2>2, <2>3 DEF C!Ask
<1>2. CASE Client(C!NotAsked(a))
  BY <1>2, ClientEvents DEF C!NotAsked
<1>3. CASE Client(C!Execute(a))
  BY <1>3, ClientEvents DEF C!Execute, C!P!PayInvoice, P!PayInvoice
<1>4. CASE Client(C!Prompted(a))
  BY <1>4, ClientEvents DEF C!Prompted
<1>5. ASSUME NEW ok \in BOOLEAN, Client(C!Written(a, ok))
      PROVE  ClientMove(a)
  BY <1>5, ClientEvents DEF C!Written
<1>6. CASE Client(C!QuoteFails(a))
  <2>1. net' \in Nets /\ SameReplies
    BY <1>6, ClientEvents DEF C!QuoteFails, Kinds
  <2> QED  BY <1>6, <2>1 DEF C!QuoteFails
<1>7. CASE Client(C!Refused(a))
  <2>1. net' \in Nets /\ SameReplies
    BY <1>7, ClientEvents DEF C!Refused, Bodies
  <2> QED  BY <1>7, <2>1 DEF C!Refused, C!Quoted
<1>8. CASE Client(C!Offered(a))
  <2>1. net' \in Nets /\ SameReplies
    BY <1>8, ClientEvents DEF C!Offered, Kinds
  <2> QED  BY <1>8, <2>1 DEF C!Offered, C!Quoted
<1>9. CASE Client(C!OwnProof(a))
  <2>1. net' \in Nets /\ SameReplies
    BY <1>9, ClientEvents DEF C!OwnProof, Bodies
  <2> QED  BY <1>9, <2>1 DEF C!OwnProof, C!Quoted
<1>10. ASSUME NEW over \in BOOLEAN, Client(C!Accepted(a, over))
       PROVE  ClientMove(a)
  <2>1. net' \in Nets /\ SameReplies
    BY <1>10, ClientEvents DEF C!Accepted, Kinds
  <2>2. excess' \in SUBSET Asks /\ limit' \in Nat
    BY <1>10 DEF C!Accepted
  <2> QED  BY <1>10, <2>1, <2>2 DEF C!Accepted, C!Quoted, C!P!PayInvoice, P!PayInvoice
<1>11. CASE Client(C!QuoteTimeout(a))
  BY <1>11, ClientEvents DEF C!QuoteTimeout
<1>12. CASE Client(C!RefusalSent(a))
  BY <1>12, ClientEvents DEF C!RefusalSent
<1>13. CASE Client(C!ProofSent(a))
  BY <1>13, ClientEvents DEF C!ProofSent
<1>14. CASE Client(C!ReceiveReply(a))
  <2>1. net' \in Nets /\ SameReplies
    BY <1>14, ClientEvents DEF C!ReceiveReply, Kinds
  <2>2. net[a].reply.body \in Answers => a \in served
    BY DEF WorkIsServed
  <2> QED  BY <1>14, <2>1, <2>2 DEF C!ReceiveReply, Answers
<1>15. CASE Client(C!StreamRead(a))
  BY <1>15, ClientEvents DEF C!StreamRead, WorkIsServed
<1>16. CASE Client(C!ReplyTimeout(a))
  BY <1>16, ClientEvents DEF C!ReplyTimeout
<1>17. CASE Client(C!StreamNotRead(a))
  BY <1>17, ClientEvents DEF C!StreamNotRead
<1>18. CASE Client(C!GivesUp(a))
  BY <1>18, ClientEvents DEF C!GivesUp
<1>19. ASSUME NEW noted \in BOOLEAN, Client(C!Paid(a, noted))
       PROVE  ClientMove(a)
  <2>1. net' \in Nets /\ SameReplies
    BY <1>19, ClientEvents DEF C!Paid, C!Refuse, Bodies
  <2>2. a \in paying /\ cli[a] = "paying"
    BY <1>19 DEF C!Paid, C!P!Paid, Waits
  <2>3. P!ProcessNext(a) /\ settled' = settled \cup {a} /\ closed' = closed
    BY <1>19 DEF C!Paid, C!P!Paid, C!P!ProcessNext, P!ProcessNext
  <2> QED  BY <1>19, <2>1, <2>2, <2>3 DEF C!Paid, C!Refuse
<1>20. ASSUME NEW made \in BOOLEAN, Client(C!NotPaid(a, made))
       PROVE  ClientMove(a)
  <2>1. net' \in Nets /\ SameReplies
    BY <1>20, ClientEvents DEF C!NotPaid, C!Refuse, Bodies
  <2>2. a \in paying /\ cli[a] = "paying"
    BY <1>20 DEF C!NotPaid, C!P!NotPaid, Waits
  <2>3. P!ProcessNext(a) /\ settled' \in {settled, settled \cup {a}} /\ closed' = closed
    BY <1>20 DEF C!NotPaid, C!P!NotPaid, C!P!ProcessNext, P!ProcessNext
  <2> QED  BY <1>20, <2>1, <2>2, <2>3 DEF C!NotPaid, C!Refuse
<1>21. CASE ClientStep(a)
  <2>1. Client(C!Ask(a)) \/ Client(C!NotAsked(a)) \/ Client(C!Execute(a))
    BY <1>21 DEF ClientStep, Client
  <2> HIDE DEF ClientMove, Client
  <2> QED  BY <2>1, <1>1, <1>2, <1>3
<1>22. CASE ClientRuns(a)
  <2> HIDE DEF ClientMove
  <2>1. \/ Client(C!Prompted(a)) \/ Client(C!Written(a, TRUE))
        \/ Client(C!QuoteFails(a)) \/ Client(C!Refused(a)) \/ Client(C!Offered(a))
        \/ Client(C!OwnProof(a)) \/ \E over \in BOOLEAN : Client(C!Accepted(a, over))
        \/ Client(C!QuoteTimeout(a)) \/ Client(C!RefusalSent(a)) \/ Client(C!ProofSent(a))
        \/ Client(C!ReceiveReply(a)) \/ Client(C!StreamRead(a))
        \/ Client(C!ReplyTimeout(a)) \/ Client(C!StreamNotRead(a)) \/ Client(C!GivesUp(a))
    BY <1>22 DEF ClientRuns, Client
  <2> HIDE DEF Client
  <2> QED  BY <2>1, <1>4, <1>5, <1>6, <1>7, <1>8, <1>9, <1>10, <1>11, <1>12, <1>13, <1>14,
              <1>15, <1>16, <1>17, <1>18
<1>23. CASE WalletAnswers(a)
  <2> HIDE DEF ClientMove, Client
  <2> QED  BY <1>23, <1>19, <1>20 DEF WalletAnswers
<1> HIDE DEF ClientMove, Client
<1> QED  BY <1>5, <1>19, <1>20, <1>21, <1>22, <1>23

\* What the server does to the events of an ask: a reply it sends says what body says.
LEMMA ServerEvents ==
    ASSUME net \in Nets, NEW a \in Asks, NEW body \in Bodies,
           \/ net' = net
           \/ \E k \in Kinds : net' = S!Seen(a, k)
           \/ \E b \in Bodies : net' = S!Sends(a, "quote", b)
           \/ net' = S!Sends(a, "reply", body)
           \/ net' = S!Replies(a, body)
    PROVE  /\ net' \in Nets
           /\ \A b \in Asks : net'[b].reply.body = net[b].reply.body
                              \/ (b = a /\ net'[b].reply.body = body)
<1>1. CASE net' = net
  BY <1>1
<1>2. CASE \E k \in Kinds : net' = S!Seen(a, k)
  <2>1. PICK k \in Kinds, p \in Places : net' = [net EXCEPT ![a][k].at = p]
    BY <1>2 DEF S!Seen, Places
  <2> QED  BY <2>1, PlaceUpdate DEF SameReplies
<1>3. CASE \E b \in Bodies : net' = S!Sends(a, "quote", b)
  <2>1. PICK b \in Bodies : net' = S!Sends(a, "quote", b)
    BY <1>3
  <2>2. [at |-> "sending", body |-> b] \in Events /\ "quote" \in Kinds
    BY DEF Events, Places, Kinds
  <2>3. net' \in Nets
    BY <2>1, <2>2, NetUpdate DEF S!Sends
  <2> QED  BY <2>1, <2>3 DEF S!Sends, Nets, Kinds, Events
<1>4. CASE net' = S!Sends(a, "reply", body)
  <2>1. [at |-> "sending", body |-> body] \in Events /\ "reply" \in Kinds
    BY DEF Events, Places, Kinds
  <2>2. net' \in Nets
    BY <1>4, <2>1, NetUpdate DEF S!Sends
  <2> QED  BY <1>4, <2>2 DEF S!Sends, Nets, Kinds, Events
<1>5. CASE net' = S!Replies(a, body)
  <2>1. /\ [net EXCEPT ![a]["proof"].at = "seen"] \in Nets
        /\ [at |-> "sending", body |-> body] \in Events
    BY NetUpdate DEF Kinds, Places, Events
  <2>2. net' \in Nets
    BY <1>5, <2>1 DEF S!Replies, S!Seen, Nets, Kinds
  <2> QED  BY <1>5, <2>1, <2>2 DEF S!Replies, S!Seen, Nets, Kinds, Events
<1> QED  BY <1>1, <1>2, <1>3, <1>4, <1>5

\* Every step of the server's handlers is a move of one chain.
LEMMA ServerMoves ==
    ASSUME IInv, NEW a \in Asks,
           \/ ServerRuns(a)
           \/ \E body \in {"error", "odd"} : Server(S!Quote(a, body))
           \/ \E body \in {"error", "empty"} : Server(S!Reply(a, body))
           \/ Server(S!Streamed(a, "error"))
    PROVE  ServerMove(a)
<1> USE DEF IInv, Shape, S!TypeOK, Streams, ServerMove, ServerChain, Server, S!Stages,
            clientVars, payVars, S!Goes, S!Rest, S!Quiet, Before, After
<1> "error" \in Bodies
  BY DEF Bodies
<1>1. CASE Server(S!ReceivePrompt(a))
  <2>1. /\ net' \in Nets
        /\ \A b \in Asks : net'[b].reply.body = net[b].reply.body
                           \/ (b = a /\ net'[b].reply.body = "error")
    BY <1>1, ServerEvents DEF S!ReceivePrompt, Kinds
  <2> QED  BY <1>1, <2>1 DEF S!ReceivePrompt, Answers
<1>2. CASE Server(S!PromptRead(a))
  BY <1>2 DEF S!PromptRead
<1>3. CASE Server(S!PromptNotRead(a))
  BY <1>3 DEF S!PromptNotRead
<1>4. ASSUME NEW body \in Bodies, Server(S!Quote(a, body))
      PROVE  ServerMove(a)
  <2>1. /\ net' \in Nets
        /\ \A b \in Asks : net'[b].reply.body = net[b].reply.body
                           \/ (b = a /\ net'[b].reply.body = "error")
    BY <1>4, ServerEvents DEF S!Quote
  <2> QED  BY <1>4, <2>1 DEF S!Quote, Answers
<1>5. CASE Server(S!Quoted(a))
  BY <1>5 DEF S!Quoted
<1>6. CASE Server(S!PaymentFailed(a))
  <2>1. /\ net' \in Nets
        /\ \A b \in Asks : net'[b].reply.body = net[b].reply.body
                           \/ (b = a /\ net'[b].reply.body = "error")
    BY <1>6, ServerEvents DEF S!PaymentFailed, Kinds
  <2> QED  BY <1>6, <2>1 DEF S!PaymentFailed, Answers
<1>7. CASE Server(S!Verify(a))
  <2>1. /\ net' \in Nets
        /\ \A b \in Asks : net'[b].reply.body = net[b].reply.body
                           \/ (b = a /\ net'[b].reply.body = "error")
    BY <1>7, ServerEvents DEF S!Verify, Kinds
  <2>2. a \in settled
    BY <1>7 DEF S!Verify, S!Verified, S!P!Verifies
  <2> QED  BY <1>7, <2>1, <2>2 DEF S!Verify, S!Serves, Answers
<1>8. CASE Server(S!NotVerified(a))
  <2>1. /\ net' \in Nets
        /\ \A b \in Asks : net'[b].reply.body = net[b].reply.body
                           \/ (b = a /\ net'[b].reply.body = "error")
    BY <1>8, ServerEvents DEF S!NotVerified
  <2> QED  BY <1>8, <2>1 DEF S!NotVerified, Answers
<1>9. CASE Server(S!ProofTimeout(a))
  BY <1>9 DEF S!ProofTimeout
<1>10. ASSUME NEW body \in Bodies, Server(S!Reply(a, body))
       PROVE  ServerMove(a)
  <2>1. /\ net' \in Nets
        /\ \A b \in Asks : net'[b].reply.body = net[b].reply.body
                           \/ (b = a /\ net'[b].reply.body = body)
    BY <1>10, ServerEvents DEF S!Reply
  <2>2. a \in served
    BY <1>10 DEF S!Reply, WorkIsServed
  <2> QED  BY <1>10, <2>1, <2>2 DEF S!Reply
<1>11. CASE Server(S!Replied(a))
  BY <1>11 DEF S!Replied
<1>12. CASE Server(S!Announce(a))
  <2>1. /\ net' \in Nets
        /\ \A b \in Asks : net'[b].reply.body = net[b].reply.body
                           \/ (b = a /\ net'[b].reply.body = "stream")
    BY <1>12, ServerEvents DEF S!Announce, Bodies
  <2>2. a \in served
    BY <1>12 DEF S!Announce, WorkIsServed
  <2> QED  BY <1>12, <2>1, <2>2 DEF S!Announce
<1>13. CASE Server(S!Announced(a))
  BY <1>13 DEF S!Announced
<1>14. ASSUME NEW how \in {"closed", "error"}, Server(S!Streamed(a, how))
       PROVE  ServerMove(a)
  BY <1>14 DEF S!Streamed
<1> HIDE DEF ServerMove
<1>15. CASE ServerRuns(a)
  <2>1. \/ Server(S!ReceivePrompt(a)) \/ Server(S!PromptRead(a))
        \/ Server(S!Quote(a, "invoice")) \/ Server(S!PromptNotRead(a))
        \/ Server(S!Quoted(a)) \/ Server(S!PaymentFailed(a)) \/ Server(S!Verify(a))
        \/ Server(S!ProofTimeout(a)) \/ Server(S!NotVerified(a))
        \/ Server(S!Reply(a, "answer")) \/ Server(S!Announce(a))
        \/ Server(S!Streamed(a, "closed")) \/ Server(S!Replied(a)) \/ Server(S!Announced(a))
    BY <1>15 DEF ServerRuns
  <2> HIDE DEF Server
  <2> QED  BY <2>1, <1>1, <1>2, <1>3, <1>4, <1>5, <1>6, <1>7, <1>8, <1>9, <1>10, <1>11,
              <1>12, <1>13, <1>14 DEF Bodies
<1> HIDE DEF Server
<1> QED  BY <1>4, <1>10, <1>14, <1>15 DEF Bodies

-----------------------------------------------------------------------------
(* The payment slots.                                                       *)

Once(q) == \A i, j \in 1..Len(q) : q[i] = q[j] => i = j

\* What SlotsAreFull says, with the types it needs.
Slots ==
    /\ IsFiniteSet(paying) /\ paying \in SUBSET Asks
    /\ queue \in Seq(Asks) /\ Len(queue) \in Nat
    /\ MaxParallel \in Nat \ {0}
    /\ active \in Nat /\ active = Cardinality(paying) /\ active <= MaxParallel
    /\ queue # <<>> => active = MaxParallel
    /\ \A i \in 1..Len(queue) : queue[i] \notin paying

\* The instance of LightningPayments counts as this module does.
LEMMA SameCardinality == \A X : P!Cardinality(X) = Cardinality(X)
  BY Zenon DEF P!Cardinality, Cardinality

\* Types and SlotsAreFull are what Slots says.
LEMMA SlotsCounted ==
    ASSUME ExchangeAssumption, paying \in SUBSET Asks, queue \in Seq(Asks)
    PROVE  SlotsAreFull <=> Slots
<1>1. IsFiniteSet(paying) /\ Cardinality(paying) \in Nat
  BY FS_Subset, FS_CardinalityType DEF ExchangeAssumption
<1>2. MaxParallel \in Nat \ {0} /\ Len(queue) \in Nat
  BY DEF ExchangeAssumption
<1> QED  BY <1>1, <1>2, SameCardinality DEF SlotsAreFull, P!SlotsAreFull, Slots

\* A new payment takes a free slot, or the end of the queue.
LEMMA SlotTaken ==
    ASSUME Slots, Once(queue), NEW a \in Asks, a \notin paying \cup Queued, P!PayInvoice(a)
    PROVE  Slots' /\ Once(queue') /\ (paying \cup Queued)' = (paying \cup Queued) \cup {a}
<1>1. CASE active < MaxParallel
  <2>1. queue = <<>> /\ queue' = <<>> /\ paying' = paying \cup {a} /\ active' = active + 1
    BY <1>1 DEF P!PayInvoice, Slots
  <2>2. active' = Cardinality(paying') /\ IsFiniteSet(paying')
    BY <2>1, FS_AddElement DEF Slots
  <2>3. active' <= MaxParallel /\ active' \in Nat
    BY <1>1, <2>1 DEF Slots
  <2>4. Len(queue) = 0
    BY <2>1
  <2> QED  BY <2>1, <2>2, <2>3, <2>4 DEF Queued, Slots, Once
<1>2. CASE ~(active < MaxParallel)
  <2>1. queue' = Append(queue, a) /\ paying' = paying /\ active' = active
    BY <1>2 DEF P!PayInvoice
  <2>2. queue \in Seq(Asks)
    BY DEF Slots
  <2>3. /\ queue' \in Seq(Asks) /\ Len(queue') = Len(queue) + 1
        /\ \A i \in 1..Len(queue) : queue'[i] = queue[i]
        /\ queue'[Len(queue) + 1] = a
    BY <2>1, <2>2, AppendProperties
  <2>4. active' = MaxParallel
    BY <1>2, <2>1 DEF Slots
  <2>5. Len(queue) \in Nat /\ \A i \in 1..Len(queue) : queue[i] # a
    BY DEF Queued, Slots
  <2>6. \A i \in 1..Len(queue') : i \in 1..Len(queue) \/ i = Len(queue) + 1
    BY <2>3, <2>5
  <2>7. Once(queue')
    BY <2>3, <2>5, <2>6 DEF Once
  <2>8. Queued' = Queued \cup {a}
    <3>1. \A i \in 1..Len(queue') : queue'[i] \in Queued \cup {a}
      BY <2>3, <2>6 DEF Queued
    <3>2. \A i \in 1..Len(queue) : queue[i] \in Queued'
      BY <2>3, <2>5 DEF Queued
    <3>3. a \in Queued'
      BY <2>3, <2>5 DEF Queued
    <3> QED  BY <3>1, <3>2, <3>3 DEF Queued
  <2>9. \A i \in 1..Len(queue') : queue'[i] \notin paying'
    BY <2>1, <2>3, <2>6 DEF Slots
  <2>10. Slots'
    BY <2>1, <2>3, <2>4, <2>5, <2>9 DEF Slots
  <2> QED  BY <2>1, <2>7, <2>8, <2>10
<1> QED  BY <1>1, <1>2

\* A payment that ends gives its slot to the head of the queue, if there is one.
LEMMA SlotPassedOn ==
    ASSUME Slots, Once(queue), NEW a \in paying, P!ProcessNext(a)
    PROVE  Slots' /\ Once(queue') /\ (paying \cup Queued)' = (paying \cup Queued) \ {a}
<1>1. /\ IsFiniteSet(paying \ {a}) /\ Cardinality(paying \ {a}) = active - 1
      /\ active \in Nat \ {0}
  <2>1. IsFiniteSet(paying) /\ active = Cardinality(paying) /\ active \in Nat
    BY DEF Slots
  <2>2. Cardinality(paying \ {a}) \in Nat
    BY <2>1, FS_RemoveElement, FS_CardinalityType
  <2> QED  BY <2>1, <2>2, FS_RemoveElement
<1>2. CASE queue # <<>>
  <2>1. /\ paying' = (paying \ {a}) \cup {Head(queue)}
        /\ queue' = Tail(queue) /\ active' = active
    BY <1>1, <1>2 DEF P!ProcessNext, Slots
  <2>2. queue \in Seq(Asks) /\ Len(queue) \in Nat \ {0} /\ Head(queue) = queue[1]
    BY <1>2, EmptySeq DEF Slots
  <2>3. /\ Head(queue) \in Asks
        /\ queue' \in Seq(Asks) /\ Len(queue') = Len(queue) - 1
        /\ \A i \in 1..Len(queue') : queue'[i] = queue[i + 1]
    BY <1>2, <2>1, <2>2, HeadTailProperties
  <2>4. Head(queue) \notin paying
    BY <2>2 DEF Slots
  <2>5. active' = Cardinality(paying') /\ IsFiniteSet(paying')
    <3>1. Head(queue) \notin paying \ {a}
      BY <2>4
    <3>2. /\ IsFiniteSet((paying \ {a}) \cup {Head(queue)})
          /\ Cardinality((paying \ {a}) \cup {Head(queue)}) = Cardinality(paying \ {a}) + 1
      BY <1>1, <3>1, FS_AddElement
    <3> QED  BY <1>1, <2>1, <3>2
  <2>6. \A i \in 1..Len(queue') : i + 1 \in 1..Len(queue)
    BY <2>2, <2>3
  <2>7. \A i \in 1..Len(queue') : queue'[i] \notin paying' /\ queue'[i] # Head(queue)
    BY <2>1, <2>2, <2>3, <2>6 DEF Slots, Once
  <2>8. Once(queue')
    BY <2>2, <2>3, <2>6 DEF Once
  <2>9. Queued = Queued' \cup {Head(queue)}
    <3>1. \A i \in 1..Len(queue) : i = 1 \/ (i - 1 \in 1..Len(queue') /\ (i - 1) + 1 = i)
      BY <2>2, <2>3
    <3>2. \A i \in 1..Len(queue) : queue[i] \in Queued' \cup {Head(queue)}
      <4> SUFFICES ASSUME NEW i \in 1..Len(queue), i # 1
                   PROVE  queue[i] \in Queued'
        BY <2>2
      <4>1. i - 1 \in 1..Len(queue') /\ queue[i] = queue'[i - 1]
        BY <2>2, <2>3, <3>1
      <4> QED  BY <4>1 DEF Queued
    <3>3. \A i \in 1..Len(queue') : queue'[i] \in Queued
      BY <2>3, <2>6 DEF Queued
    <3>4. Head(queue) \in Queued
      BY <2>2 DEF Queued
    <3> QED  BY <3>2, <3>3, <3>4 DEF Queued
  <2>10. a \notin Queued
    BY DEF Queued, Slots
  <2>11. Slots'
    BY <1>2, <2>1, <2>2, <2>3, <2>5, <2>7 DEF Slots
  <2> QED  BY <2>1, <2>8, <2>9, <2>10, <2>11
<1>3. CASE queue = <<>>
  <2>1. active' = active - 1 /\ paying' = paying \ {a} /\ queue' = queue
    BY <1>3 DEF P!ProcessNext
  <2>2. Queued = {} /\ Queued' = {}
    <3>1. Len(queue) = 0
      BY <1>3
    <3> QED  BY <2>1, <3>1 DEF Queued
  <2>3. Slots'
    BY <1>1, <1>3, <2>1 DEF Slots
  <2> QED  BY <2>1, <2>2, <2>3 DEF Once
<1> QED  BY <1>2, <1>3

-----------------------------------------------------------------------------
(* The inductive invariant.                                                 *)

\* Whoever is blamed is an ask.
LEMMA BlameShape ==
    ASSUME ExchangeAssumption, Shape, Next
    PROVE  blamed' \in SUBSET Asks /\ faults' \in Nat
<1> USE DEF Shape, Well, Blamed, Fault, Ends, Late
<1>1. ASSUME NEW a \in Asks, ClientStep(a) \/ ClientRuns(a) \/ WalletAnswers(a)
      PROVE  Well \/ Blamed(a) \/ Fault(a)
  BY <1>1 DEF ClientStep, ClientRuns, WalletAnswers
<1>2. ASSUME NEW a \in Asks, ServerRuns(a) \/ Failure(a)
      PROVE  Well \/ Blamed(a) \/ Fault(a)
  BY <1>2 DEF ServerRuns, Failure
<1>3. ASSUME NEW a \in Asks, NEW k \in Kinds, Relay(a, k) \/ Miss(a, k) \/ Lose(a, k)
      PROVE  Well \/ Blamed(a) \/ Fault(a)
  BY <1>3 DEF Relay, Miss, Lose
<1>4. ASSUME NEW a \in Asks, Well \/ Blamed(a) \/ Fault(a)
      PROVE  blamed' \in SUBSET Asks /\ faults' \in Nat
  BY <1>4
<1>5. ASSUME Stop \/ Start
      PROVE  blamed' \in SUBSET Asks /\ faults' \in Nat
  BY <1>5 DEF Stop, Start
<1> QED  BY <1>1, <1>2, <1>3, <1>4, <1>5 DEF Next

\* Every step is one of the moves.
LEMMA StepKinds ==
    ASSUME ExchangeAssumption, IInv, Next
    PROVE  \/ \E a \in Asks : ClientMove(a) \/ ServerMove(a)
           \/ NetMove \/ ProcessMove
<1>1. ASSUME NEW a \in Asks, ClientStep(a) \/ ClientRuns(a) \/ WalletAnswers(a)
      PROVE  ClientMove(a)
  BY <1>1, ClientMoves
<1>2. ASSUME NEW a \in Asks, ServerRuns(a)
      PROVE  ServerMove(a)
  BY <1>2, ServerMoves
<1>3. ASSUME NEW a \in Asks, Failure(a)
      PROVE  ClientMove(a) \/ ServerMove(a)
  BY <1>3, ClientMoves, ServerMoves DEF Failure
<1>4. ASSUME NEW a \in Asks, NEW k \in Kinds, Relay(a, k) \/ Miss(a, k) \/ Lose(a, k)
      PROVE  NetMove
  BY <1>4, RelayMoves DEF IInv
<1>5. ASSUME Stop \/ Start
      PROVE  ProcessMove
  BY <1>5, ProcessMoves DEF IInv
<1> QED  BY <1>1, <1>2, <1>3, <1>4, <1>5 DEF Next

\* The invariant holds when the processes start.
LEMMA InitInv == ASSUME ExchangeAssumption, Init PROVE IInv
<1> USE DEF Init, P!Init, C!Init, S!Init
<1>1. queue = <<>> /\ Len(queue) = 0 /\ queue \in Seq(Asks) /\ paying = {}
  OBVIOUS
<1>2. Unsent \in Events
  BY DEF Unsent, Events, Places, Bodies
<1>3. net \in Nets
  BY <1>2 DEF Nets
<1>4. C!TypeOK /\ S!TypeOK
  BY DEF C!TypeOK, S!TypeOK, C!Stages, S!Stages
<1>5. Shape
  BY <1>1, <1>3, <1>4 DEF Shape
<1>6. Slots
  BY <1>1, FS_EmptySet DEF Slots, ExchangeAssumption
<1>7. SlotsAreFull
  BY <1>1, <1>6, SlotsCounted
<1>8. Waits
  BY <1>1 DEF Waits, Queued
<1>9. WorkIsServed
  BY <1>3 DEF WorkIsServed, Before, After, Answers, Unsent, Kinds
<1> QED  BY <1>5, <1>7, <1>8, <1>9 DEF IInv

\* Every move keeps the invariant.
LEMMA InvStep == ASSUME ExchangeAssumption, IInv, [Next]_vars PROVE IInv'
<1>1. Shape /\ SlotsAreFull /\ Slots /\ Once(queue) /\ WorkIsServed
      /\ \A b \in Asks : cli[b] = "paying" <=> b \in paying \cup Queued
  BY SlotsCounted DEF IInv, Shape, Waits, Once
<1>2. ASSUME NEW a \in Asks, ClientMove(a), blamed' \in SUBSET Asks, faults' \in Nat
      PROVE  IInv'
  <2>1. PICK x \in C!Stages : ClientChain(a, x)
    BY <1>2 DEF ClientMove
  <2>2. cli \in [Asks -> C!Stages] /\ cli' \in [Asks -> C!Stages]
    BY <1>1, <2>1 DEF Shape, C!TypeOK, ClientChain
  <2>3. /\ Slots' /\ Once(queue')
        /\ settled' \in SUBSET Asks /\ closed' \in BOOLEAN
        /\ \A b \in Asks : cli'[b] = "paying" <=> b \in (paying \cup Queued)'
    <3>1. CASE cli[a] # "paying" /\ x = "paying" /\ P!PayInvoice(a)
      <4>1. a \notin paying \cup Queued
        BY <1>1, <3>1
      <4>2. Slots' /\ Once(queue') /\ (paying \cup Queued)' = (paying \cup Queued) \cup {a}
        BY <1>1, <3>1, <4>1, SlotTaken
      <4>3. settled' = settled /\ closed' = closed
        BY <3>1 DEF P!PayInvoice
      <4> QED  BY <1>1, <2>1, <2>2, <3>1, <4>2, <4>3 DEF Shape, ClientChain
    <3>2. CASE /\ cli[a] = "paying" /\ x \in {"proving", "refusing"}
               /\ a \in paying /\ P!ProcessNext(a)
               /\ settled' \in {settled, settled \cup {a}} /\ closed' = closed
      <4>1. Slots' /\ Once(queue') /\ (paying \cup Queued)' = (paying \cup Queued) \ {a}
        BY <1>1, <3>2, SlotPassedOn
      <4> QED  BY <1>1, <2>1, <2>2, <3>2, <4>1 DEF Shape, ClientChain
    <3>3. CASE cli[a] # "paying" /\ x # "paying" /\ UNCHANGED payVars
      <4>1. Slots' /\ Once(queue') /\ (paying \cup Queued)' = paying \cup Queued
        BY <1>1, <3>3 DEF payVars, Slots, Once, Queued
      <4> QED  BY <1>1, <2>1, <2>2, <3>3, <4>1 DEF Shape, payVars, ClientChain
    <3> QED  BY <2>1, <3>1, <3>2, <3>3 DEF ClientChain
  <2>4. /\ limit' \in Nat /\ excess' \in SUBSET Asks /\ net' \in Nets /\ SameReplies
        /\ up' = up /\ srv' = srv /\ stream' = stream /\ served' = served
    BY <1>2 DEF ClientMove, serverVars
  <2>5. Shape'
    BY <1>1, <1>2, <2>2, <2>3, <2>4 DEF Shape, C!TypeOK, S!TypeOK, Slots
  <2>6. SlotsAreFull'
    BY <2>3, SameCardinality DEF SlotsAreFull, P!SlotsAreFull, Slots
  <2>7. Waits'
    BY <2>3 DEF Waits, Once
  <2>8. WorkIsServed'
    BY <1>1, <2>1, <2>2, <2>4 DEF WorkIsServed, SameReplies, ClientChain
  <2> QED  BY <2>5, <2>6, <2>7, <2>8 DEF IInv
<1>3. ASSUME NEW a \in Asks, ServerMove(a), blamed' \in SUBSET Asks, faults' \in Nat
      PROVE  IInv'
  <2>1. UNCHANGED <<clientVars, payVars, up>> /\ stream' \in [Asks -> Streams] /\ net' \in Nets
    BY <1>3 DEF ServerMove
  <2>2. PICK x \in S!Stages : ServerChain(a, x)
    BY <1>3 DEF ServerMove
  <2>3. srv \in [Asks -> S!Stages] /\ srv' \in [Asks -> S!Stages] /\ served' \in SUBSET Asks
    BY <1>1, <2>2 DEF Shape, S!TypeOK, ServerChain
  <2>4. Shape'
    BY <1>1, <1>3, <2>1, <2>3 DEF Shape, C!TypeOK, S!TypeOK, Streams, clientVars, payVars
  <2>5. SlotsAreFull' /\ Waits'
    BY <2>1 DEF IInv, SlotsAreFull, P!SlotsAreFull, Waits, Queued, clientVars, payVars
  <2>6. WorkIsServed'
    <3>1. \A b \in Asks : (srv'[b] \in Before => b \notin served')
                          /\ (srv'[b] \in After => b \in served')
      BY <1>1, <2>2, <2>3 DEF WorkIsServed, Before, After, ServerChain
    <3>2. \A b \in Asks : net'[b].reply.body \in Answers => b \in served'
      BY <1>1, <1>3, <2>2 DEF WorkIsServed, ServerMove, ServerChain
    <3>3. served \subseteq served' /\ cli' = cli
      BY <2>1, <2>2 DEF ServerChain, clientVars
    <3> QED  BY <1>1, <3>1, <3>2, <3>3 DEF WorkIsServed
  <2> QED  BY <2>4, <2>5, <2>6 DEF IInv
<1>4. ASSUME NetMove, blamed' \in SUBSET Asks, faults' \in Nat
      PROVE  IInv'
  <2>1. Shape'
    BY <1>1, <1>4 DEF NetMove, Shape, C!TypeOK, S!TypeOK, clientVars, serverVars, payVars
  <2>2. SlotsAreFull' /\ Waits'
    BY <1>4 DEF NetMove, IInv, SlotsAreFull, P!SlotsAreFull, Waits, Queued, clientVars,
                      payVars
  <2>3. WorkIsServed'
    BY <1>1, <1>4 DEF NetMove, WorkIsServed, SameReplies, clientVars, serverVars
  <2> QED  BY <2>1, <2>2, <2>3 DEF IInv
<1>5. ASSUME ProcessMove, blamed' \in SUBSET Asks, faults' \in Nat
      PROVE  IInv'
  <2>1. Shape'
    BY <1>1, <1>5 DEF ProcessMove, Shape, C!TypeOK, S!TypeOK, Streams
  <2>2. SlotsAreFull'
    BY <1>5 DEF ProcessMove, IInv, SlotsAreFull, P!SlotsAreFull
  <2>3. Waits'
    <3>1. \A b \in Asks : cli'[b] = "paying" <=> cli[b] = "paying"
      BY <1>5 DEF ProcessMove
    <3>2. paying' = paying /\ queue' = queue
      BY <1>5 DEF ProcessMove
    <3> QED  BY <1>1, <3>1, <3>2 DEF Waits, Once, Queued
  <2>4. WorkIsServed'
    BY <1>1, <1>5 DEF ProcessMove, WorkIsServed
  <2> QED  BY <2>1, <2>2, <2>3, <2>4 DEF IInv
<1>6. CASE Next
  <2>1. blamed' \in SUBSET Asks /\ faults' \in Nat
    BY <1>1, <1>6, BlameShape
  <2> QED  BY <1>2, <1>3, <1>4, <1>5, <1>6, <2>1, StepKinds
<1>7. CASE UNCHANGED vars
  <2>1. Shape'
    BY <1>1, <1>7 DEF vars, Shape, C!TypeOK, S!TypeOK, clientVars, serverVars, payVars
  <2>2. SlotsAreFull' /\ Waits' /\ WorkIsServed'
    BY <1>1, <1>7 DEF vars, IInv, SlotsAreFull, P!SlotsAreFull, Waits, Queued,
                            WorkIsServed, clientVars, serverVars, payVars
  <2> QED  BY <2>1, <2>2 DEF IInv
<1> QED  BY <1>6, <1>7

\* The inductive invariant holds always.
LEMMA Invariance == Spec => []IInv
<1>1. Init => IInv
  BY InitInv, ExchangeAssumption
<1>2. IInv /\ [Next]_vars => IInv'
  BY InvStep, ExchangeAssumption
<1> QED  BY <1>1, <1>2, PTL DEF Spec

-----------------------------------------------------------------------------
(* What follows.                                                            *)

\* The shape of the state, and that who awaits the payment manager has a payment there.
THEOREM TypeCorrect == Spec => []TypeOK
<1>1. IInv => TypeOK
  BY DEF IInv, Shape, Waits, TypeOK, Nets, Kinds, Events, Places, Queued
<1> QED  BY <1>1, Invariance, PTL

\* Whatever fails, a payment waits only while all slots are taken, and a slot is taken
\* only by a payment under way: no failure of a payment costs the manager a slot.
THEOREM PaymentSlots == Spec => []SlotsAreFull
<1>1. IInv => SlotsAreFull
  BY DEF IInv
<1> QED  BY <1>1, Invariance, PTL

\* A chain of the client that moves on tells the contract what became of its ask.
LEMMA OutcomeMove ==
    ASSUME Shape, NEW a \in Asks, NEW x \in C!Stages,
           cli[a] \notin {"answered", "failed"}, cli' = [cli EXCEPT ![a] = x],
           x = "answered" => a \in served, served' = served, settled' = settled
    PROVE  Contract!Next \/ UNCHANGED <<settled, served, [b \in Asks |-> Outcome(b)]>>
<1> DEFINE bar == [b \in Asks |-> Outcome(b)]
<1>1. cli \in [Asks -> C!Stages]
  BY DEF Shape, C!TypeOK
<1>2. bar[a] = "open" /\ \A b \in Asks : b # a => bar'[b] = bar[b]
  BY <1>1 DEF Outcome
<1>3. CASE x = "answered"
  <2>1. bar' = [bar EXCEPT ![a] = "answered"]
    BY <1>1, <1>3 DEF Outcome
  <2>2. Contract!Answer(a)
    BY <1>2, <1>3, <2>1 DEF Contract!Answer
  <2> QED  BY <2>2 DEF Contract!Next
<1>4. CASE x = "failed"
  <2>1. bar' = [bar EXCEPT ![a] = "failed"]
    BY <1>1, <1>4 DEF Outcome
  <2>2. Contract!Fail(a)
    BY <1>2, <2>1 DEF Contract!Fail
  <2> QED  BY <2>2 DEF Contract!Next
<1>5. CASE x \notin {"answered", "failed"}
  <2>1. bar' = bar
    BY <1>1, <1>5 DEF Outcome
  <2> QED  BY <2>1
<1> QED  BY <1>3, <1>4, <1>5

\* Every step is a step of the contract, or none.
LEMMA ContractStep ==
    ASSUME ExchangeAssumption, IInv, [Next]_vars
    PROVE  Contract!Next \/ UNCHANGED <<settled, served, [b \in Asks |-> Outcome(b)]>>
<1> DEFINE bar == [b \in Asks |-> Outcome(b)]
<1>1. Shape /\ WorkIsServed /\ cli \in [Asks -> C!Stages]
  BY DEF IInv, Shape, C!TypeOK
<1>2. ASSUME NEW a \in Asks, ClientMove(a)
      PROVE  Contract!Next \/ UNCHANGED <<settled, served, bar>>
  <2>1. PICK x \in C!Stages : ClientChain(a, x)
    BY <1>2 DEF ClientMove
  <2>2. served' = served
    BY <1>2 DEF ClientMove, serverVars
  <2>3. CASE settled' = settled
    BY <1>1, <2>1, <2>2, <2>3, OutcomeMove DEF ClientChain
  <2>4. CASE settled' # settled
    <3>1. /\ settled' = settled \cup {a} /\ a \notin settled
          /\ cli[a] = "paying" /\ cli' = [cli EXCEPT ![a] = x] /\ x \in {"proving", "refusing"}
      BY <2>1, <2>4 DEF ClientChain, P!PayInvoice, payVars
    <3>2. bar' = bar
      BY <1>1, <3>1 DEF Outcome
    <3>3. Contract!Pay(a)
      BY <2>2, <3>1, <3>2 DEF Contract!Pay
    <3> QED  BY <3>3 DEF Contract!Next
  <2> QED  BY <2>3, <2>4
<1>3. ASSUME NEW a \in Asks, ServerMove(a)
      PROVE  Contract!Next \/ UNCHANGED <<settled, served, bar>>
  <2>1. PICK x \in S!Stages : ServerChain(a, x)
    BY <1>3 DEF ServerMove
  <2>2. settled' = settled /\ cli' = cli
    BY <1>3 DEF ServerMove, clientVars, payVars
  <2>3. bar' = bar
    BY <2>2 DEF Outcome
  <2>4. CASE served' = served
    BY <2>2, <2>3, <2>4
  <2>5. CASE served' # served
    <3>1. srv[a] = "waiting" /\ a \in settled /\ served' = served \cup {a}
      BY <2>1, <2>5 DEF ServerChain
    <3>2. a \notin served
      BY <1>1, <3>1 DEF WorkIsServed, Before
    <3>3. Contract!Serve(a)
      BY <2>2, <2>3, <3>1, <3>2 DEF Contract!Serve
    <3> QED  BY <3>3 DEF Contract!Next
  <2> QED  BY <2>4, <2>5
<1>4. ASSUME NetMove \/ ProcessMove \/ UNCHANGED vars
      PROVE  UNCHANGED <<settled, served, bar>>
  <2>1. settled' = settled /\ served' = served
    BY <1>4 DEF NetMove, ProcessMove, vars, payVars, clientVars, serverVars
  <2>2. \A a \in Asks : Outcome(a)' = Outcome(a)
    BY <1>4 DEF NetMove, ProcessMove, vars, clientVars, Outcome
  <2> QED  BY <2>1, <2>2
<1> QED  BY <1>2, <1>3, <1>4, StepKinds

\* For any number of asks and faults, an expert works only for a prompt whose invoice is
\* settled and never twice for one, a client is answered only by that work, and how
\* askExpert ended stays so.
THEOREM ExchangeKeepsContract == Spec => KeepsContract
<1>1. Init => Contract!Init
  BY DEF Init, C!Init, P!Init, S!Init, Contract!Init, Outcome
<1>2. IInv /\ [Next]_vars => [Contract!Next]_<<settled, served, [a \in Asks |-> Outcome(a)]>>
  BY ContractStep, ExchangeAssumption
<1> QED  BY <1>1, <1>2, Invariance, PTL DEF Spec, KeepsContract, Contract!Spec
=============================================================================
