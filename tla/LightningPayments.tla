--------------------------- MODULE LightningPayments ---------------------------
(***************************************************************************)
(* LightningPaymentManager (src/src/payments/LightningPaymentManager.ts)   *)
(* of a paying client, and the wallet behind its NWC connection: payments  *)
(* made in parallel up to a limit, the others in a queue.  An invoice is   *)
(* known by the ask it was quoted for.                                     *)
(***************************************************************************)
EXTENDS Naturals, Sequences, FiniteSets

CONSTANTS Asks,
          MaxParallel  \* maxParallelPayments

VARIABLES active,   \* activePayments
          queue,    \* paymentQueue
          paying,   \* the payments the wallet was asked for and has not answered
          settled,  \* invoices that are settled on the lightning network
          closed    \* the NWC connection was closed by dispose

Init == active = 0 /\ queue = <<>> /\ paying = {} /\ settled = {} /\ closed = FALSE

PayInvoice(a) ==
    /\ IF active < MaxParallel
         THEN active' = active + 1 /\ paying' = paying \cup {a} /\ UNCHANGED queue
         ELSE queue' = Append(queue, a) /\ UNCHANGED <<active, paying>>
    /\ UNCHANGED <<settled, closed>>

\* Mutants: the queue is not looked at when a payment ends, or dropped.
NoNext(a) == active' = active - 1 /\ paying' = paying \ {a} /\ UNCHANGED queue
NoQueue(a) == active' = active - 1 /\ paying' = paying \ {a} /\ queue' = <<>>

\* The `finally` of a payment: it gives its slot to the head of the queue.
ProcessNext(a) ==
    IF queue # <<>> /\ active - 1 < MaxParallel
      THEN /\ paying' = (paying \ {a}) \cup {Head(queue)}
           /\ queue' = Tail(queue)
           /\ UNCHANGED active
      ELSE /\ active' = active - 1
           /\ paying' = paying \ {a}
           /\ UNCHANGED queue

Paid(a) ==
    /\ a \in paying /\ ~closed
    /\ settled' = settled \cup {a}
    /\ ProcessNext(a)
    /\ UNCHANGED closed

\* The wallet reports an error, or nothing before the connection gives up: the payment
\* may have been made all the same.
NotPaid(a, made) ==
    /\ a \in paying
    /\ settled' = IF made THEN settled \cup {a} ELSE settled
    /\ ProcessNext(a)
    /\ UNCHANGED closed

Dispose == ~closed /\ closed' = TRUE /\ UNCHANGED <<active, queue, paying, settled>>

\* verifyPayment of the expert: the preimage is the invoice's, and the wallet of the
\* expert finds the invoice settled.
Verifies(a, proof) == proof = "preimage" /\ a \in settled

\* No payment waits while a slot is free, and every slot taken is a payment under way.
SlotsAreFull ==
    /\ active = Cardinality(paying)
    /\ active <= MaxParallel
    /\ queue # <<>> => active = MaxParallel
    /\ \A i \in 1..Len(queue) : queue[i] \notin paying
=============================================================================
