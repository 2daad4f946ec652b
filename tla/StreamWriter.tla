------------------------------ MODULE StreamWriter ------------------------------
(***************************************************************************)
(* StreamWriter (src/src/stream/StreamWriter.ts) with the gzip compressor  *)
(* of compression.ts, as the server uses it to stream an expert's replies: *)
(* one write after the other, then write("", true), or error() if a write  *)
(* or the expert fails.                                                    *)
(*                                                                         *)
(* The writer's async functions are flows: the application's, and one for  *)
(* each batch timer and each failed publish that calls back.  A flow that  *)
(* awaits I/O rests; a resting flow resumes only when no other runs, and   *)
(* then runs to its next await of I/O.                                     *)
(*                                                                         *)
(* A chunk is known by its index.  Index and prev tag are assigned in one  *)
(* step, so that the prev tag of a chunk names the chunk before it.        *)
(***************************************************************************)
EXTENDS Naturals, Sequences, FiniteSets, SequencesExt

CONSTANTS MaxWrites,   \* bound on the data the application writes
          MaxFlows,    \* bound on the callbacks under way at a time
          Window,      \* publishes that may be pending before a chunk has to wait
          Interval     \* whether minChunkInterval is set, so that a batch timer is armed

VARIABLES
    tried,    \* how many pieces of data were written
    sent,     \* those the compressor took, in order
    isDone, isError,
    timer,    \* batchTimer is armed
    comp,     \* compressor: what it holds, and whether finish() was called
    size,     \* currentChunkSize > 0: zlib may hold data and have put out none
    flow,     \* where each flow is
    chunks,   \* the chunks created, by index
    pub,      \* the publishing of each chunk
    crashed   \* an unhandled rejection ended the process

App == 0
Callbacks == 1..MaxFlows
Flows == {App} \cup Callbacks

\* `at` is where a flow is, `job` what its flush or publish is for; an application's
\* write holds its data (0: none) in part and its done argument in last.
Ready == [at |-> "ready", job |-> "none", part |-> 0, last |-> FALSE, data |-> <<>>,
          chunk |-> 0, wait |-> {}]
Resting == {"ready", "draining", "finishing", "racing", "settling", "hung", "closed", "ended"}
Running == {"add", "tail", "flush", "send", "sent", "throw", "error"}

None == [parts |-> <<>>, finished |-> TRUE, there |-> FALSE]
NewComp == [parts |-> <<>>, finished |-> FALSE, there |-> TRUE]
EnsureCompressor == IF comp.there THEN comp ELSE NewComp

Idle == ~crashed /\ \A f \in Flows : flow[f].at \in Resting
Indices == 1..Len(chunks)
NotTaken == {i \in Indices : pub[i] = "failed"}
Pending == {i \in Indices : pub[i] = "sent"}
Free(f) == f \in Callbacks /\ flow[f] = Ready

At(f, where) == ~crashed /\ flow[f].at = where
Goto(f, where) == flow' = [flow EXCEPT ![f].at = where]
Spawn(where, job) ==
    \E f \in Callbacks :
        /\ Free(f)
        /\ \A g \in Callbacks : g < f => ~Free(g)
        /\ flow' = [flow EXCEPT ![f].at = where, ![f].job = job]

Init ==
    /\ tried = 0
    /\ sent = <<>>
    /\ isDone = FALSE /\ isError = FALSE
    /\ timer = FALSE
    /\ comp = None
    /\ size = FALSE
    /\ flow = [f \in Flows |-> Ready]
    /\ chunks = <<>>
    /\ pub = <<>>
    /\ crashed = FALSE

-----------------------------------------------------------------------------
(* write().                                                                 *)

\* Its guards, and what it does before the first piece is compressed.
WriteBegins(part, last) ==
    /\ Idle
    /\ flow[App].at = "ready"
    /\ part # 0 => part = tried + 1 /\ tried < MaxWrites
    /\ part = 0 => last
    /\ tried' = IF part = 0 THEN tried ELSE part
    /\ IF isError
         THEN Goto(App, "error") /\ UNCHANGED <<timer, comp, size>>
         ELSE /\ timer' = FALSE
              /\ comp' = EnsureCompressor
              /\ size' = (size /\ comp.there)
              /\ flow' = [flow EXCEPT ![App] =
                            [flow[App] EXCEPT !.at = IF part = 0 THEN "tail" ELSE "add",
                                              !.part = part, !.last = last]]
    /\ UNCHANGED <<sent, isDone, isError, chunks, pub, crashed>>

\* What currentChunkSize may be once data was added: zlib may still hold all of it.
SizeAfterAdd == size' \in {size, TRUE}

\* compress(): the compressor refuses what exceeds its limit unless it is empty, and
\* anything after finish() was called.
Refused == /\ comp.finished /\ comp.there
           /\ Goto(App, "throw")
           /\ UNCHANGED <<sent, comp, size>>
Exceeded == /\ comp.there /\ ~comp.finished /\ comp.parts # <<>>
            /\ flow' = [flow EXCEPT ![App].at = "flush", ![App].job = "retry"]
            /\ UNCHANGED <<sent, comp, size>>
Accepted == /\ ~EnsureCompressor.finished
            /\ comp' = [EnsureCompressor EXCEPT !.parts = Append(@, flow[App].part)]
            /\ sent' = Append(sent, flow[App].part)
            /\ \/ Goto(App, "tail") /\ SizeAfterAdd
               \/ Goto(App, "draining") /\ UNCHANGED size

Add == /\ At(App, "add")
       /\ Refused \/ Exceeded \/ Accepted
       /\ UNCHANGED <<tried, isDone, isError, timer, chunks, pub, crashed>>

\* A compressor that was finished or destroyed meanwhile never drains.
Drained == /\ Idle
           /\ At(App, "draining")
           /\ ~comp.finished
           /\ SizeAfterAdd
           /\ Goto(App, "tail")
           /\ UNCHANGED <<tried, sent, isDone, isError, timer, comp, chunks, pub, crashed>>

ArmTimer == timer' = Interval

\* The end of write(): flush if done, or if the chunk is big or old enough.
WriteEnds ==
    /\ At(App, "tail")
    /\ isDone' = flow[App].last
    /\ \/ /\ flow' = [flow EXCEPT ![App].at = "flush", ![App].job = "write"]
          /\ UNCHANGED timer
       \/ /\ ~flow[App].last
          /\ flow' = [flow EXCEPT ![App] = Ready]
          /\ ArmTimer
    /\ UNCHANGED <<tried, sent, isError, comp, size, chunks, pub, crashed>>

-----------------------------------------------------------------------------
(* flushCompressor() and createAndPublishEvent(), for any flow.             *)

Flush(f) ==
    /\ At(f, "flush")
    /\ timer' = FALSE
    /\ IF comp.there /\ comp.finished
         THEN Goto(f, "throw") /\ isError' = TRUE /\ UNCHANGED comp
         ELSE Goto(f, "finishing") /\ comp' = [comp EXCEPT !.finished = TRUE] /\ UNCHANGED isError
    /\ UNCHANGED <<tried, sent, isDone, size, chunks, pub, crashed>>

\* Mutant: this.compressor is not reset, and its content is sent again.
KeptAfterFinish == [comp EXCEPT !.finished = FALSE]
AfterFinish == None

Finished(f) ==
    /\ Idle
    /\ At(f, "finishing")
    /\ flow' = [flow EXCEPT ![f].at = "send", ![f].data = comp.parts]
    /\ comp' = AfterFinish
    /\ size' = FALSE
    /\ UNCHANGED <<tried, sent, isDone, isError, timer, chunks, pub, crashed>>

Status(f) == IF flow[f].job = "report" THEN "error" ELSE IF isDone THEN "done" ELSE "active"

\* Index and prev tag are taken before the wait for a pending publish.
Send(f) ==
    LET crowded == Cardinality(Pending) > Window IN
    /\ At(f, "send")
    /\ chunks' = Append(chunks, [data |-> flow[f].data, status |-> Status(f)])
    /\ pub' = Append(pub, IF crowded THEN "held" ELSE "sent")
    /\ flow' = [flow EXCEPT ![f] =
                  [flow[f] EXCEPT !.at = IF crowded THEN "racing" ELSE "sent", !.data = <<>>,
                                  !.chunk = IF crowded THEN Len(chunks) + 1 ELSE 0,
                                  !.wait = IF crowded THEN Pending ELSE {}]]
    /\ UNCHANGED <<tried, sent, isDone, isError, timer, comp, size, crashed>>

Raced(f) ==
    /\ Idle
    /\ At(f, "racing")
    /\ \E i \in flow[f].wait : pub[i] # "sent"
    /\ pub' = [pub EXCEPT ![flow[f].chunk] = "sent"]
    /\ flow' = [flow EXCEPT ![f].at = "sent", ![f].chunk = 0, ![f].wait = {}]
    /\ UNCHANGED <<tried, sent, isDone, isError, timer, comp, size, chunks, crashed>>

\* The publish of a chunk is under way: what the flow does next.
Settle(f) == flow' = [flow EXCEPT ![f].at = "settling", ![f].wait = Pending]
Continue(f) ==
    LET job == flow[f].job IN
    /\ At(f, "sent")
    /\ \/ job = "retry" /\ Goto(f, "add") /\ UNCHANGED timer
       \/ job = "write" /\ isDone /\ Settle(f) /\ UNCHANGED timer
       \/ job = "write" /\ ~isDone /\ flow' = [flow EXCEPT ![f] = Ready] /\ ArmTimer
       \/ job = "timer" /\ flow' = [flow EXCEPT ![f] = Ready] /\ UNCHANGED timer
       \/ /\ job = "pending"
          /\ flow' = [flow EXCEPT ![f].at = "send", ![f].job = "report"]
          /\ UNCHANGED timer
       \/ job = "report" /\ Settle(f) /\ UNCHANGED timer
    /\ UNCHANGED <<tried, sent, isDone, isError, comp, size, chunks, pub, crashed>>

\* Mutant: a callback that reported an error ends like the application's error().
AfterAsApp(f) == [Ready EXCEPT !.at = "ended"]

\* What a flow becomes when its last publishes are settled.
After(f) == IF f # App THEN Ready
            ELSE [Ready EXCEPT !.at = IF flow[f].job = "write" THEN "closed" ELSE "ended"]

\* waitPublished, then dispose: a compressor that is being finished is destroyed, and
\* its finish() never returns.
Settled(f) ==
    /\ Idle
    /\ At(f, "settling")
    /\ \A i \in flow[f].wait : pub[i] # "sent"
    /\ timer' = FALSE
    /\ comp' = None
    /\ size' = FALSE
    /\ flow' = [g \in Flows |-> IF g = f THEN After(f)
                                ELSE IF flow[g].at = "finishing"
                                     THEN [flow[g] EXCEPT !.at = "hung"] ELSE flow[g]]
    /\ UNCHANGED <<tried, sent, isDone, isError, chunks, pub, crashed>>

-----------------------------------------------------------------------------
(* error(), the callbacks and exceptions.                                   *)

\* A callback that rejects is an unhandled rejection; the application logs it and ends.
Rejects(f) ==
    IF f = App THEN flow' = [flow EXCEPT ![f] = [Ready EXCEPT !.at = "ended"]]
                    /\ UNCHANGED crashed
               ELSE crashed' = TRUE /\ UNCHANGED flow

\* Mutant: error() goes on after the stream is done.
AlwaysReports == TRUE
MayReport == ~isDone

Error(f) ==
    /\ At(f, "error")
    /\ \/ ~MayReport /\ Rejects(f) /\ UNCHANGED isError
       \/ /\ MayReport
          /\ isError' = TRUE
          /\ flow' = [flow EXCEPT ![f] = [Ready EXCEPT !.at = IF size THEN "flush" ELSE "send",
                                                       !.job = IF size THEN "pending"
                                                                       ELSE "report"]]
          /\ UNCHANGED crashed
    /\ UNCHANGED <<tried, sent, isDone, timer, comp, size, chunks, pub>>

\* The application answers an exception of write() with error(); the batch timer's
\* callback sets isError, as the flush that threw did.
Throw(f) ==
    /\ At(f, "throw")
    /\ IF flow[f].job = "pending"
         THEN Rejects(f)
         ELSE /\ flow' = [flow EXCEPT ![f] = IF f = App THEN [flow[f] EXCEPT !.at = "error"]
                                                       ELSE Ready]
              /\ UNCHANGED crashed
    /\ UNCHANGED <<tried, sent, isDone, isError, timer, comp, size, chunks, pub>>

\* The expert's replies fail.
ExpertFails ==
    /\ Idle
    /\ flow[App].at = "ready"
    /\ Goto(App, "error")
    /\ UNCHANGED <<tried, sent, isDone, isError, timer, comp, size, chunks, pub, crashed>>

\* The batch timer: nothing to do if currentChunkSize is 0.
TimerFires ==
    /\ Idle
    /\ timer
    /\ timer' = FALSE
    /\ IF size THEN Spawn("flush", "timer") ELSE UNCHANGED flow
    /\ UNCHANGED <<tried, sent, isDone, isError, comp, size, chunks, pub, crashed>>

\* A publish is settled: with no relay that took the chunk in time, error() is called.
PublishOk(i) ==
    /\ Idle
    /\ i \in Pending
    /\ pub' = [pub EXCEPT ![i] = "ok"]
    /\ UNCHANGED <<tried, sent, isDone, isError, timer, comp, size, flow, chunks, crashed>>

PublishFails(i) ==
    /\ Idle
    /\ i \in Pending
    /\ pub' = [pub EXCEPT ![i] = "failed"]
    /\ Spawn("error", "none")
    /\ UNCHANGED <<tried, sent, isDone, isError, timer, comp, size, chunks, crashed>>

-----------------------------------------------------------------------------
Runs == \/ Add \/ WriteEnds
        \/ \E f \in Flows : Flush(f) \/ Send(f) \/ Continue(f) \/ Error(f) \/ Throw(f)
Resumes == \/ Drained
           \/ \E f \in Flows : Finished(f) \/ Raced(f) \/ Settled(f)
           \/ TimerFires
Application == \/ \E part \in 0..MaxWrites, last \in BOOLEAN : WriteBegins(part, last)
               \/ ExpertFails

\* The shape of the state; only the application writes, and only it comes to an end.
TypeOK ==
    /\ tried \in 0..MaxWrites
    /\ sent \in Seq(1..MaxWrites)
    /\ {isDone, isError, timer, size, crashed} \subseteq BOOLEAN
    /\ comp \in [parts : Seq(1..MaxWrites), finished : BOOLEAN, there : BOOLEAN]
    /\ flow \in [Flows -> [at : Resting \cup Running,
                           job : {"none", "retry", "write", "timer", "pending", "report"},
                           part : 0..MaxWrites, last : BOOLEAN, data : Seq(1..MaxWrites),
                           chunk : Nat, wait : SUBSET Nat]]
    /\ \A f \in Callbacks : flow[f].at \notin {"add", "draining", "tail", "closed", "ended"}
    /\ chunks \in Seq([data : Seq(1..MaxWrites), status : {"active", "done", "error"}])
    /\ pub \in Seq({"held", "sent", "ok", "failed"})
    /\ Len(pub) = Len(chunks)
=============================================================================
