------------------------------ MODULE AskExchange ------------------------------
(***************************************************************************)
(* Exchanges between AskClient and AskServer over relays, paid with        *)
(* LightningPayments.                                                      *)
(*                                                                         *)
(* An event is published to several relays at once.  The publisher awaits  *)
(* the slowest of them, up to 5 seconds, while others hand the event over  *)
(* already; and a relay may take it after the publisher gave up.  The      *)
(* kinds of NIP-174 are ephemeral: a relay need not keep an event for a    *)
(* subscription that is opened later.                                      *)
(***************************************************************************)
EXTENDS Naturals, Sequences, FiniteSets

CONSTANTS Asks, MaxParallel, Long, Front, Price, Max,
          MaxFaults  \* bound on the faults of the environment

ASSUME ExchangeAssumption ==
    /\ IsFiniteSet(Asks)
    /\ MaxParallel \in Nat \ {0}
    /\ Front \in [Asks -> SUBSET {"paying", "openai", "own"}]
    /\ Long \subseteq Asks
    /\ Price \in [Asks -> Nat]
    /\ Max \in [Asks -> Nat]
    /\ MaxFaults \in Nat

VARIABLES net,      \* net[a][k]: the event of kind k, where it is and what it says
          active, queue, paying, settled, closed, cli, limit, excess, up, srv, stream, served,
          blamed,   \* asks that met a fault
          faults    \* how many faults there were

C == INSTANCE AskClient
S == INSTANCE AskServer
P == INSTANCE LightningPayments

payVars == <<active, queue, paying, settled, closed>>
clientVars == <<cli, limit, excess>>
serverVars == <<up, srv, stream, served>>
vars == <<net, payVars, clientVars, serverVars, blamed, faults>>

Kinds == {"prompt", "quote", "proof", "reply"}
Unsent == [at |-> "unsent", body |-> "none"]

Init ==
    /\ net = [a \in Asks |-> [k \in Kinds |-> Unsent]]
    /\ P!Init /\ C!Init /\ S!Init
    /\ blamed = {} /\ faults = 0

Well == UNCHANGED <<blamed, faults>>
Blamed(a) == blamed' = blamed \cup {a} /\ UNCHANGED faults
Fault(a) == /\ faults < MaxFaults /\ faults' = faults + 1
            /\ blamed' = blamed \cup {a}
Client(A) == A /\ UNCHANGED <<up, srv, served>>
Server(A) == A /\ UNCHANGED <<clientVars, active, queue, paying, closed>>

-----------------------------------------------------------------------------
\* Who takes the event when a relay hands it over.
Listens(a, k) ==
    CASE k = "prompt" -> up /\ srv[a] = "idle"
      [] k = "quote" -> cli[a] = "quoting"
      [] k = "proof" -> srv[a] = "waiting"
      [] k = "reply" -> cli[a] = "listening"

\* The publisher awaits its publish.
Publishing(a, k) ==
    CASE k = "prompt" -> cli[a] = "prompting"
      [] k = "quote" -> srv[a] = "quoting"
      [] k = "proof" -> cli[a] \in {"refusing", "proving"}
      [] k = "reply" -> srv[a] \in {"replying", "announcing"}

\* A relay takes the event: it reaches who listens; it may be kept for who listens later.
Relay(a, k) ==
    /\ net[a][k].at = "sending"
    /\ net' = [net EXCEPT ![a][k].at = "held"]
    /\ UNCHANGED <<payVars, clientVars, serverVars>> /\ Well

Miss(a, k) ==
    /\ net[a][k].at \in {"sending", "held"}
    /\ ~Listens(a, k)
    /\ net' = [net EXCEPT ![a][k].at = "missed"]
    /\ Blamed(a)
    /\ UNCHANGED <<payVars, clientVars, serverVars>>

Lose(a, k) ==
    /\ net[a][k].at = "held" /\ Fault(a)
    /\ net' = [net EXCEPT ![a][k].at = "missed"]
    /\ UNCHANGED <<payVars, clientVars, serverVars>>

\* The publish ends well, or no relay took the event in time.
Ends(a, k) == IF S!Taken(a, k) THEN Well ELSE Fault(a)

\* An event may still arrive: the timer that awaits it is early.
Coming(a, k) == net[a][k].at = "held" \/ (net[a][k].at = "sending" /\ Publishing(a, k))
QuoteComing(a) == \/ Coming(a, "prompt") /\ up
                  \/ srv[a] \in {"reading", "pricing"}
                  \/ Coming(a, "quote")
ProofComing(a) == \/ Coming(a, "quote") /\ cli[a] \in {"prompting", "writing", "quoting"}
                  \/ cli[a] = "paying" \/ Coming(a, "proof")
ReplyComing(a) == \/ Coming(a, "proof") /\ srv[a] \in {"quoting", "waiting"}
                  \/ srv[a] = "working" \/ Coming(a, "reply")
StreamComing(a) == stream[a] = "closed" \/ stream[a] = "open" \/ srv[a] = "announcing"
Late(a, coming) == IF coming THEN Fault(a) ELSE Well

-----------------------------------------------------------------------------
ClientStep(a) ==
    Client(C!Ask(a) \/ C!NotAsked(a) \/ C!Execute(a)) /\ Well

ClientRuns(a) ==
    \/ Client(C!Prompted(a)) /\ Ends(a, "prompt")
    \/ Client(C!Written(a, TRUE)) /\ Well
    \/ Client(C!QuoteFails(a) \/ C!Refused(a) \/ C!Offered(a) \/ C!OwnProof(a)) /\ Well
    \/ \E over \in BOOLEAN : Client(C!Accepted(a, over)) /\ Well
    \/ Client(C!QuoteTimeout(a)) /\ Late(a, QuoteComing(a))
    \/ Client(C!RefusalSent(a)) /\ Ends(a, "proof")
    \/ Client(C!ProofSent(a)) /\ Ends(a, "proof")
    \/ Client(C!ReceiveReply(a) \/ C!StreamRead(a)) /\ Well
    \/ Client(C!ReplyTimeout(a)) /\ Late(a, ReplyComing(a))
    \/ Client(C!StreamNotRead(a)) /\ Late(a, StreamComing(a))
    \/ Client(C!GivesUp(a)) /\ Well

WalletAnswers(a) ==
    \/ Client(C!Paid(a, TRUE)) /\ Well
    \/ Client(C!NotPaid(a, FALSE)) /\ (IF closed THEN Well ELSE Fault(a))

ServerRuns(a) ==
    \/ Server(S!ReceivePrompt(a) \/ S!PromptRead(a) \/ S!Quote(a, "invoice")) /\ Well
    \/ Server(S!PromptNotRead(a)) /\ Late(a, cli[a] # "failed")
    \/ Server(S!Quoted(a)) /\ Ends(a, "quote")
    \/ Server(S!PaymentFailed(a) \/ S!Verify(a)) /\ Well
    \/ Server(S!ProofTimeout(a)) /\ (IF cli[a] = "offered" THEN Blamed(a) ELSE Late(a, ProofComing(a)))
    \/ Server(S!NotVerified(a)) /\ (IF S!Verified(a) THEN Fault(a) ELSE Well)
    \/ Server(S!Reply(a, "answer") \/ S!Announce(a) \/ S!Streamed(a, "closed")) /\ Well
    \/ Server(S!Replied(a) \/ S!Announced(a)) /\ Ends(a, "reply")

\* The content is not written, onPaid throws, the wallet is wrong, the expert fails.
Failure(a) ==
    /\ Fault(a)
    /\ \/ Client(C!Written(a, FALSE))
       \/ Client(C!Paid(a, FALSE))
       \/ Client(C!NotPaid(a, TRUE))
       \/ \E body \in {"error", "odd"} : Server(S!Quote(a, body))
       \/ \E body \in {"error", "empty"} : Server(S!Reply(a, body))
       \/ Server(S!Streamed(a, "error"))

Stop ==
    /\ faults < MaxFaults /\ faults' = faults + 1
    /\ \/ Server(S!Dispose) /\ UNCHANGED blamed
       \/ Server(S!Crash) /\ blamed' = blamed \cup {a \in Asks : srv[a] \notin {"idle", "over"}}
       \/ \E stranded \in SUBSET Asks :
            Client(C!Dispose(stranded)) /\ blamed' = blamed \cup stranded

Start == Server(S!Start) /\ Well

Next ==
    \/ \E a \in Asks : \/ ClientStep(a) \/ ClientRuns(a) \/ WalletAnswers(a)
                       \/ ServerRuns(a) \/ Failure(a)
                       \/ \E k \in Kinds : Relay(a, k) \/ Miss(a, k) \/ Lose(a, k)
    \/ Stop \/ Start

Spec == Init /\ [][Next]_vars

\* Timers fire, callbacks and the wallet return, relays take what is being published.
\* Nothing obliges a call of askExpert or of execute, nor the process to start again.
Fairness == \A a \in Asks :
    /\ WF_vars(ClientRuns(a))
    /\ WF_vars(WalletAnswers(a))
    /\ WF_vars(ServerRuns(a))
    /\ \A k \in Kinds : WF_vars(Relay(a, k) /\ Publishing(a, k))

FairSpec == Spec /\ Fairness

-----------------------------------------------------------------------------
\* The exchange keeps its contract: no work without a settled invoice, no second work for
\* one prompt, no answer without work, and an ask ends once.
Outcome(a) == IF cli[a] \in {"answered", "failed"} THEN cli[a] ELSE "open"
Contract == INSTANCE AskContract WITH money <- settled,
                                      outcome <- [a \in Asks |-> Outcome(a)]
KeepsContract == Contract!Spec

\* No payment waits while a slot is free, and a slot taken is a payment under way.
SlotsAreFull == P!SlotsAreFull

\* Money buys an answer: a client that paid is answered, unless the exchange met a fault.
PaidIsAnswered == \A a \in Asks : a \in settled ~> cli[a] = "answered" \/ a \in blamed

\* Whatever fails, askExpert and the loop over its replies end, unless the caller of an
\* OpenAI quote never executes it.
AskSettles == \A a \in Asks :
    cli[a] \notin {"idle", "offered"} ~> cli[a] \in {"answered", "failed", "offered"}

\* Whatever the client does, the expert's chain for a prompt ends.
ServerLetsGo == \A a \in Asks : srv[a] # "idle" ~> srv[a] = "over"

\* The paying client spends no more than the request it asks for allows ("Set the max
\* amount for this specific request").
WithinRequest == \A a \in paying \cup settled :
    "paying" \in Front[a] /\ a \notin excess => Price[a] <= Max[a]

\* The shape of the state; who awaits the payment manager has a payment there.
TypeOK ==
    /\ \A a \in Asks : cli[a] = "paying" <=> a \in paying \cup {queue[i] : i \in 1..Len(queue)}
    /\ \A a \in Asks, k \in Kinds :
         net[a][k].at \in {"unsent", "sending", "held", "missed", "seen"}
    /\ C!TypeOK /\ S!TypeOK
    /\ settled \cup paying \subseteq Asks
    /\ closed \in BOOLEAN
    /\ blamed \subseteq Asks
=============================================================================
