------------------------------- MODULE AskClient -------------------------------
(***************************************************************************)
(* AskExpertsClient (src/src/client) and what is built on it: the paying   *)
(* client with its spending limit, used by the smart and the chat client,  *)
(* and OpenaiAskExperts, which holds a quote until it is executed.  Each   *)
(* ask is a chain of awaits, cli[a]; the chains share one payment manager  *)
(* and the spending limit.                                                 *)
(***************************************************************************)
EXTENDS Naturals, Sequences, FiniteSets

CONSTANTS Asks, MaxParallel,
          Long,   \* asks whose content is over 48KB
          Front,  \* Front[a]: what may ask: the "paying" or the "openai" client, an "own" onPay
          Price,  \* Price[a]: the amount of the invoice of ask a
          Max     \* Max[a]: the amount the caller of ask a wants to spend at most

VARIABLES net, stream, active, queue, paying, settled, closed,
          cli,    \* where askExpert, or the loop over its replies, is
          limit,  \* maxAmountSats of the paying client
          excess  \* asks whose excess the application approved

P == INSTANCE LightningPayments

Stages == {"idle", "prompting", "writing", "quoting", "offered", "paying", "refusing",
           "proving", "listening", "reading", "stranded", "answered", "failed"}

Init ==
    /\ cli = [a \in Asks |-> "idle"]
    /\ limit = 0
    /\ excess = {}

Taken(a, k) == net[a][k].at \in {"held", "seen", "missed"}
Seen(a, k) == [net EXCEPT ![a][k].at = "seen"]
Sends(a, k, body) == [net EXCEPT ![a][k] = [at |-> "sending", body |-> body]]
To(a, to) == cli' = [cli EXCEPT ![a] = to]
Goes(a, from, to) == cli[a] = from /\ To(a, to)
payVars == <<active, queue, paying, settled, closed>>
Rest == UNCHANGED <<stream, limit, excess>>
Quiet == UNCHANGED <<net, payVars>> /\ Rest

-----------------------------------------------------------------------------
LimitOf(a) == IF "paying" \in Front[a] THEN Max[a] ELSE limit

\* askExpert: the checks, and sendPrompt until the prompt is being published.
Ask(a) ==
    /\ Goes(a, "idle", "prompting")
    /\ limit' = LimitOf(a)
    /\ net' = Sends(a, "prompt", IF a \in Long THEN "streamed" ELSE "inline")
    /\ UNCHANGED <<stream, excess, payVars>>

NotAsked(a) == Goes(a, "idle", "failed") /\ Quiet

\* The content of a long prompt follows on a stream once the prompt is published.
Prompted(a) ==
    /\ IF Taken(a, "prompt")
         THEN Goes(a, "prompting",
                   IF net[a].prompt.body = "streamed" THEN "writing" ELSE "quoting")
         ELSE Goes(a, "prompting", "failed")
    /\ Quiet

Written(a, ok) == Goes(a, "writing", IF ok THEN "quoting" ELSE "failed") /\ Quiet

\* handleQuote: an invoice within the limit is paid, and one above it if the application agrees.
Affordable(a) == Price[a] <= limit

\* The proof says that the payment failed, and so does the exception of askExpert.
Refuse(a) == To(a, "refusing") /\ net' = Sends(a, "proof", "error")

\* fetchQuote.  The invoice is not paid when its amount is not the one quoted.
QuoteFails(a) ==
    /\ net[a].quote.at = "held" /\ net[a].quote.body = "error"
    /\ Goes(a, "quoting", "failed")
    /\ net' = Seen(a, "quote")
    /\ UNCHANGED payVars /\ Rest

QuoteTimeout(a) == Goes(a, "quoting", "failed") /\ Quiet

Quoted(a) == cli[a] = "quoting" /\ net[a].quote.at = "held" /\ net[a].quote.body # "error"

Refused(a) ==
    /\ Quoted(a)
    /\ \/ net[a].quote.body = "odd"
       \/ "paying" \in Front[a] /\ ~Affordable(a)
    /\ To(a, "refusing")
    /\ net' = [net EXCEPT ![a].quote.at = "seen",
                          ![a].proof = [at |-> "sending", body |-> "error"]]
    /\ UNCHANGED payVars /\ Rest

\* handleQuote and handlePayment run into payInvoice.
Accepted(a, over) ==
    /\ Quoted(a) /\ net[a].quote.body = "invoice"
    /\ "paying" \in Front[a] /\ over = ~Affordable(a)
    /\ excess' = IF over THEN excess \cup {a} ELSE excess
    /\ To(a, "paying")
    /\ net' = Seen(a, "quote")
    /\ P!PayInvoice(a)
    /\ UNCHANGED <<stream, limit>>

\* getQuote resolves, and the quote is in activeQuotes until somebody executes it.
Offered(a) ==
    /\ Quoted(a) /\ net[a].quote.body = "invoice"
    /\ "openai" \in Front[a]
    /\ To(a, "offered")
    /\ net' = Seen(a, "quote")
    /\ UNCHANGED payVars /\ Rest

Execute(a) == Goes(a, "offered", "paying") /\ P!PayInvoice(a) /\ UNCHANGED net /\ Rest

\* The onPay of an application may return any proof.
OwnProof(a) ==
    /\ Quoted(a) /\ net[a].quote.body = "invoice"
    /\ "own" \in Front[a]
    /\ To(a, "proving")
    /\ net' = [net EXCEPT ![a].quote.at = "seen",
                          ![a].proof = [at |-> "sending", body |-> "bogus"]]
    /\ UNCHANGED payVars /\ Rest

\* payInvoice returned, and onPaid too; or onPaid threw although the invoice is paid.
Paid(a, noted) ==
    /\ IF noted THEN To(a, "proving") /\ net' = Sends(a, "proof", "preimage") ELSE Refuse(a)
    /\ P!Paid(a) /\ Rest

NotPaid(a, made) == Refuse(a) /\ P!NotPaid(a, made) /\ Rest

\* sendErrorProof does not look at what became of it.
RefusalSent(a) == Goes(a, "refusing", "failed") /\ Quiet

\* The reply is waited for when the application begins to read the replies, which those
\* of the repository do at once.
ProofSent(a) == Goes(a, "proving", IF Taken(a, "proof") THEN "listening" ELSE "failed")
                /\ Quiet

ReceiveReply(a) ==
    /\ net[a].reply.at = "held"
    /\ Goes(a, "listening", CASE net[a].reply.body = "stream" -> "reading"
                              [] net[a].reply.body = "answer" -> "answered"
                              [] OTHER -> "failed")
    /\ net' = Seen(a, "reply")
    /\ UNCHANGED payVars /\ Rest

ReplyTimeout(a) == Goes(a, "listening", "failed") /\ Quiet

StreamRead(a) == stream[a] = "closed" /\ Goes(a, "reading", "answered") /\ Quiet
StreamNotRead(a) == Goes(a, "reading", "failed") /\ Quiet

\* Who waits on a subscription of the pool, or for a relay to acknowledge its event.
Hanging == {a \in Asks :
    \/ cli[a] \in {"quoting", "listening"}
    \/ cli[a] = "reading" /\ stream[a] # "closed"
    \/ cli[a] = "prompting" /\ net[a].prompt.at = "sending"
    \/ cli[a] \in {"refusing", "proving"} /\ net[a].proof.at = "sending"}

\* Who may have a chunk on its way, or has received all of them.
Streaming == {a \in Asks : cli[a] \in {"writing", "reading"}} \ Hanging

\* The dispose of a paying client destroys the pool of relays it created: what waits on the
\* pool waits in vain, and what asks later connects anew.  A pool that was given stays.
\* Then the connection to the wallet is closed.
Dispose(stranded) ==
    /\ \/ stranded = {}
       \/ Hanging \subseteq stranded /\ stranded \subseteq Hanging \cup Streaming
    /\ cli' = [a \in Asks |-> IF a \in stranded THEN "stranded" ELSE cli[a]]
    /\ P!Dispose
    /\ UNCHANGED net /\ Rest

\* The timer of a stranded wait ends it.
GivesUp(a) == Goes(a, "stranded", "failed") /\ Quiet

TypeOK ==
    /\ cli \in [Asks -> Stages]
    /\ limit \in Nat
    /\ excess \subseteq Asks
=============================================================================
