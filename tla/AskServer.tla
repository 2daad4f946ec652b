------------------------------- MODULE AskServer -------------------------------
(***************************************************************************)
(* AskExpertsServerBase and AskExpertsServer (src/src/server): the expert's *)
(* side of NIP-174 exchanges.  Each prompt is followed by a chain of       *)
(* awaits of its own, srv[a]; the chains interleave.  net[a][k] is the     *)
(* event of kind k of ask a, see AskExchange.                              *)
(***************************************************************************)
EXTENDS Naturals, FiniteSets

CONSTANTS Asks

VARIABLES net, settled,
          up,      \* the subscription to prompts is open
          srv,     \* where handlePromptEvent is for a prompt
          stream,  \* the stream of a reply
          served   \* prompts onPromptPaid was called for

P == INSTANCE LightningPayments WITH MaxParallel <- 0, active <- 0, queue <- <<>>,
                                     paying <- {}, closed <- FALSE

Stages == {"idle", "reading", "pricing", "quoting", "waiting", "working",
           "replying", "announcing", "streaming", "over"}

Init ==
    /\ up = TRUE
    /\ srv = [a \in Asks |-> "idle"]
    /\ stream = [a \in Asks |-> "none"]
    /\ served = {}

Taken(a, k) == net[a][k].at \in {"held", "seen", "missed"}
Seen(a, k) == [net EXCEPT ![a][k].at = "seen"]
Sends(a, k, body) == [net EXCEPT ![a][k] = [at |-> "sending", body |-> body]]
Goes(a, from, to) == srv[a] = from /\ srv' = [srv EXCEPT ![a] = to]
Rest == UNCHANGED <<settled, up>>
Quiet == UNCHANGED <<net, stream, served>> /\ Rest

-----------------------------------------------------------------------------
\* subscribeToPrompts, and handlePromptEvent until the content is known: the content of
\* a long prompt is read from a stream.
ReceivePrompt(a) ==
    /\ up /\ net[a].prompt.at = "held"
    /\ Goes(a, "idle", IF net[a].prompt.body = "streamed" THEN "reading" ELSE "pricing")
    /\ net' = Seen(a, "prompt")
    /\ UNCHANGED <<stream, served>> /\ Rest

PromptRead(a) == Goes(a, "reading", "pricing") /\ Quiet
PromptNotRead(a) == Goes(a, "reading", "over") /\ Quiet

\* onPromptPrice, makeInvoices and sendQuote; an exception of the first two is quoted.
Quote(a, body) ==
    /\ Goes(a, "pricing", "quoting")
    /\ net' = Sends(a, "quote", body)
    /\ UNCHANGED <<stream, served>> /\ Rest

\* The proof is waited for once the quote is published, or was not: sendQuote catches.
Quoted(a) == Goes(a, "quoting", IF net[a].quote.body = "error" THEN "over" ELSE "waiting")
             /\ Quiet

Replies(a, body) == [Seen(a, "proof") EXCEPT ![a].reply = [at |-> "sending", body |-> body]]

\* Mutant: the payment is not verified.
AnyProof(a) == TRUE
Verified(a) == P!Verifies(a, net[a].proof.body)

ProofArrives(a) == net[a].proof.at = "held" /\ srv[a] = "waiting"

\* The client did not pay: the chain ends.
PaymentFailed(a) ==
    /\ ProofArrives(a) /\ net[a].proof.body = "error"
    /\ Goes(a, "waiting", "over")
    /\ net' = Seen(a, "proof")
    /\ UNCHANGED <<stream, served>> /\ Rest

\* Mutant: nothing comes of the work.
Forgets(a) == "over"
Serves(a) == "working"

\* handleProof: the expert works for a payment that verifies.
Verify(a) ==
    /\ ProofArrives(a) /\ net[a].proof.body # "error"
    /\ Verified(a)
    /\ Goes(a, "waiting", Serves(a))
    /\ served' = served \cup {a}
    /\ net' = Seen(a, "proof")
    /\ UNCHANGED stream /\ Rest

\* An exception of verifyPayment is a reply.
NotVerified(a) ==
    /\ ProofArrives(a) /\ net[a].proof.body # "error"
    /\ Goes(a, "waiting", "replying")
    /\ net' = Replies(a, "error")
    /\ UNCHANGED <<stream, served>> /\ Rest

\* Mutant: the proof is waited for without a timer.
NoTimer(a) == FALSE
ProofTimeout(a) == Goes(a, "waiting", "over") /\ Quiet

\* onPromptPaid returned a reply, an empty one (sent as an event without content), or
\* threw; sendExpertReply.
Reply(a, body) ==
    /\ Goes(a, "working", "replying")
    /\ net' = Sends(a, "reply", body)
    /\ UNCHANGED <<stream, served>> /\ Rest

Replied(a) == Goes(a, "replying", "over") /\ Quiet

\* Many replies, or a reply over 48KB: streamExpertReplies publishes the stream first,
\* and nothing else if that fails.
Announce(a) ==
    /\ Goes(a, "working", "announcing")
    /\ net' = Sends(a, "reply", "stream")
    /\ UNCHANGED <<stream, served>> /\ Rest

Announced(a) ==
    /\ IF Taken(a, "reply")
         THEN Goes(a, "announcing", "streaming") /\ stream' = [stream EXCEPT ![a] = "open"]
         ELSE Goes(a, "announcing", "over") /\ UNCHANGED stream
    /\ UNCHANGED <<net, served>> /\ Rest

Streamed(a, how) ==
    /\ Goes(a, "streaming", "over")
    /\ stream' = [stream EXCEPT ![a] = how]
    /\ UNCHANGED <<net, served>> /\ Rest

\* asyncDispose closes the subscription and leaves the chains; a process that dies drops them.
Dispose == /\ up /\ up' = FALSE
           /\ UNCHANGED <<net, settled, srv, stream, served>>
Crash == /\ up /\ up' = FALSE
         /\ srv' = [a \in Asks |-> IF srv[a] = "idle" THEN "idle" ELSE "over"]
         /\ stream' = [a \in Asks |-> IF stream[a] = "open" THEN "cut" ELSE stream[a]]
         /\ UNCHANGED <<net, settled, served>>

\* The process answers the prompts that arrive after it starts again.
Start == /\ ~up /\ up' = TRUE
         /\ UNCHANGED <<net, settled, srv, stream, served>>

TypeOK ==
    /\ up \in BOOLEAN
    /\ srv \in [Asks -> Stages]
    /\ stream \in [Asks -> {"none", "open", "closed", "error", "cut"}]
    /\ served \subseteq Asks
=============================================================================
