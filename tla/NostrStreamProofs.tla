--------------------------- MODULE NostrStreamProofs ---------------------------
(***************************************************************************)
(* What a stream guarantees for every number of writes, of flows, of       *)
(* pending publishes and of faults: the state of both ends is well formed, *)
(* nothing follows the chunk that says done, although the flows of a       *)
(* writer flush and report errors side by side, a consumer waits only      *)
(* while there is nothing to hand over, and what it is handed is what was  *)
(* accepted, in order.                                                     *)
(***************************************************************************)
EXTENDS NostrStream, SequenceLemmas

-----------------------------------------------------------------------------
(* The invariant of the writer.                                             *)

\* The callbacks never continue a write; a write that is continued has data.
Jobs ==
    /\ \A f \in W!Callbacks :
          /\ flow[f].job \in {"none", "timer", "pending", "report"}
          /\ flow[f].job = "report" => flow[f].at \notin {"flush", "finishing"}
    /\ flow[W!App].at = "add" \/ flow[W!App].job = "retry" => flow[W!App].part # 0
    /\ flow[W!App].at = "ready" => flow[W!App].job # "retry"

\* An async function runs to its next await of I/O before another one resumes.
OneRuns ==
    \A f, g \in W!Flows :
        flow[f].at \in W!Running /\ flow[g].at \in W!Running => f = g

\* A flow flushes a compressor that is there; finish() is awaited by one flow.
Compressor ==
    /\ ~comp.there => comp.finished
    /\ size => comp.there
    /\ flow[W!App].at = "tail" => comp.there
    /\ \A f \in W!Flows :
          /\ flow[f].at = "flush" => comp.there
          /\ flow[f].at = "finishing" => comp.there /\ comp.finished
    /\ \A f, g \in W!Flows :
          flow[f].at = "finishing" /\ flow[g].at = "finishing" => f = g

\* Once a flow took the compressor's content, there is nothing to flush.
NothingLeft ==
    /\ \A f \in W!Flows :
          flow[f].at = "send" /\ flow[f].job # "report"
              => ~size /\ \A g \in W!Flows : flow[g].at # "finishing"
    /\ flow[W!App].job = "retry" /\ flow[W!App].at \in {"racing", "sent"} => ~size

\* The application cannot reach the end of a write any more.
WriteIsStuck ==
    /\ isError
    /\ flow[W!App].at \notin {"add", "tail"}
    /\ flow[W!App].at = "draining" => comp.finished
    /\ flow[W!App].job = "retry"
          => flow[W!App].at \notin {"flush", "finishing", "send", "racing", "sent"}

\* A callback that reports an error and flushes what is pending first.
Flushed == {"finishing", "send", "racing", "sent"}
PendingReports ==
    \A f \in W!Callbacks : flow[f].job = "pending" =>
        /\ flow[f].at = "flush" => size /\ isError
        /\ flow[f].at \in Flushed => WriteIsStuck

\* Once write(.., true) came to its end, the application writes no more, and nobody is
\* about to report an error.
DoneWrites ==
    isDone =>
        /\ \/ flow[W!App].at \in {"closed", "ended"}
           \/ /\ flow[W!App].job = "write"
              /\ flow[W!App].at \in Flushed \cup {"flush", "settling", "throw", "error", "hung"}
        /\ \A f \in W!Callbacks :
              /\ flow[f].job = "pending" => flow[f].at \notin Flushed \cup {"flush"}
              /\ flow[f].job = "report" => flow[f].at # "send"

\* After a done chunk nobody has or takes anything to send.
DoneSends ==
    \A i \in W!Indices : chunks[i].status = "done" =>
        /\ i = Len(chunks)
        /\ isDone
        /\ ~size
        /\ \A f \in W!Flows : flow[f].at \notin {"flush", "finishing", "send"}

WriterInv ==
    /\ W!TypeOK
    /\ Jobs /\ OneRuns /\ Compressor /\ NothingLeft
    /\ PendingReports /\ DoneWrites /\ DoneSends

\* The reader decodes the next chunk of the chain and no other.
DecodesNext == busy \subseteq {nextRef + 1}

ReaderInv == R!TypeOK /\ DecodesNext /\ WaitsForNothing

IInv == WriterInv /\ ReaderInv

-----------------------------------------------------------------------------
(* The moves of a flow.                                                     *)

FlowRecs == [at : W!Resting \cup W!Running,
             job : {"none", "retry", "write", "timer", "pending", "report"},
             part : 0..MaxWrites, last : BOOLEAN, data : Seq(1..MaxWrites),
             chunk : Nat, wait : SUBSET Nat]

\* What a flow flushes or publishes for.
Jobset == {"none", "retry", "write", "timer", "pending", "report"}

\* The places of the application alone.
AppOnly == {"add", "draining", "tail", "closed", "ended"}

\* The compressor's states, and those of a chunk's publishing.
Compressors == [parts : Seq(1..MaxWrites), finished : BOOLEAN, there : BOOLEAN]
PubStates == {"held", "sent", "ok", "failed"}

\* The rest of the shape of the writer's state.
WriterShape ==
    /\ tried \in 0..MaxWrites
    /\ sent \in Seq(1..MaxWrites)
    /\ isDone \in BOOLEAN /\ isError \in BOOLEAN /\ timer \in BOOLEAN
    /\ size \in BOOLEAN /\ crashed \in BOOLEAN
    /\ comp \in [parts : Seq(1..MaxWrites), finished : BOOLEAN, there : BOOLEAN]
    /\ chunks \in Seq([data : Seq(1..MaxWrites), status : {"active", "done", "error"}])
    /\ pub \in Seq({"held", "sent", "ok", "failed"})
    /\ Len(pub) = Len(chunks)

\* Flow f moves, the only one that runs or is resumed.
Moves(f) ==
    /\ flow' \in [W!Flows -> FlowRecs]
    /\ f \in W!Callbacks => flow'[f].at \notin AppOnly
    /\ flow'[f].at = "add" \/ flow'[f].job = "retry" => flow'[f].part # 0
    /\ \A g \in W!Flows \ {f} : flow'[g] = flow[g] /\ flow[g].at \in W!Resting

\* The application is a flow, the other flows are the callbacks, and each has a record.
LEMMA FlowsAre ==
    ASSUME StreamAssumption, WriterInv
    PROVE  /\ W!App \in W!Flows /\ W!App \notin W!Callbacks
           /\ W!Flows = {W!App} \cup W!Callbacks
           /\ flow \in [W!Flows -> FlowRecs]
           /\ \A f \in W!Flows : flow[f] \in FlowRecs
           /\ flow[W!App].at = "add" \/ flow[W!App].job = "retry" => flow[W!App].part # 0
           /\ \A f \in W!Callbacks : flow[f].job # "retry" /\ flow[f].at \notin AppOnly
<1>1. /\ W!App \in W!Flows /\ W!App \notin W!Callbacks
      /\ W!Flows = {W!App} \cup W!Callbacks
  BY DEF StreamAssumption, W!Flows, W!App, W!Callbacks
<1>2. flow \in [W!Flows -> FlowRecs] /\ \A f \in W!Callbacks : flow[f].at \notin AppOnly
  BY DEF WriterInv, W!TypeOK, FlowRecs, AppOnly
<1> QED  BY <1>1, <1>2 DEF WriterInv, Jobs

\* The compressor, and what else is BOOLEAN.
LEMMA CompressorIs ==
    ASSUME WriterInv
    PROVE  /\ comp \in [parts : Seq(1..MaxWrites), finished : BOOLEAN, there : BOOLEAN]
           /\ isDone \in BOOLEAN /\ isError \in BOOLEAN /\ size \in BOOLEAN
BY DEF WriterInv, W!TypeOK

\* What is to be shown of a flow that moves: its new record.
LEMMA IsMove ==
    ASSUME StreamAssumption, WriterInv, NEW f \in W!Flows, NEW x \in FlowRecs,
           flow' = [flow EXCEPT ![f] = x],
           \A g \in W!Flows \ {f} : flow[g].at \in W!Resting,
           f \in W!Callbacks => x.at \notin AppOnly,
           x.at = "add" \/ x.job = "retry" => x.part # 0
    PROVE  Moves(f) /\ flow'[f] = x
BY FlowsAre DEF Moves

\* A flow goes to another place, and keeps its job and its data.
LEMMA GotoMoves ==
    ASSUME StreamAssumption, WriterInv, NEW f \in W!Flows,
           NEW at \in W!Resting \cup W!Running, W!Goto(f, at),
           \A g \in W!Flows \ {f} : flow[g].at \in W!Resting,
           f \in W!Callbacks => at \notin AppOnly,
           at = "add" => flow[f].part # 0
    PROVE  Moves(f) /\ flow'[f].at = at /\ flow'[f].job = flow[f].job
<1> DEFINE x == [flow[f] EXCEPT !.at = at]
<1>1. flow[f] \in FlowRecs
  BY FlowsAre
<1>2. x \in FlowRecs /\ x.at = at /\ x.job = flow[f].job /\ x.part = flow[f].part
  BY <1>1 DEF FlowRecs
<1>3. flow' = [flow EXCEPT ![f] = x]
  BY DEF W!Goto
<1>4. x.at = "add" \/ x.job = "retry" => x.part # 0
  BY <1>2, FlowsAre
<1> HIDE DEF x
<1> QED  BY <1>2, <1>3, <1>4, IsMove

\* A flow goes to a place for another job, and keeps its data.
LEMMA JobMoves ==
    ASSUME StreamAssumption, WriterInv, NEW f \in W!Flows,
           NEW at \in (W!Resting \cup W!Running) \ AppOnly, NEW job \in Jobset,
           flow' = [flow EXCEPT ![f].at = at, ![f].job = job],
           \A g \in W!Flows \ {f} : flow[g].at \in W!Resting,
           job = "retry" => flow[f].part # 0
    PROVE  Moves(f) /\ flow'[f].at = at /\ flow'[f].job = job
<1> DEFINE x == [flow[f] EXCEPT !.at = at, !.job = job]
<1>1. flow[f] \in FlowRecs
  BY FlowsAre
<1>2. x \in FlowRecs /\ x.at = at /\ x.job = job /\ x.part = flow[f].part
  BY <1>1 DEF FlowRecs, Jobset
<1>3. flow' = [flow EXCEPT ![f] = x]
  OBVIOUS
<1>4. at # "add"
  BY DEF AppOnly
<1> HIDE DEF x
<1> QED  BY <1>2, <1>3, <1>4, IsMove

\* A flow that is over, or begins another job, keeps nothing.
LEMMA ReadyIs ==
    ASSUME StreamAssumption
    PROVE  W!Ready \in FlowRecs /\ <<>> \in Seq(1..MaxWrites)
<1>1. MaxWrites \in Nat /\ <<>> \in Seq(1..MaxWrites)
  BY DEF StreamAssumption
<1>2. 0 \in 0..MaxWrites /\ {} \in SUBSET Nat
  BY <1>1
<1> QED  BY <1>1, <1>2 DEF FlowRecs, W!Ready, W!Resting

\* It moves to a record that says nothing of a write.
LEMMA ReadyMoves ==
    ASSUME StreamAssumption, WriterInv, NEW f \in W!Flows,
           NEW x, x.at # "add", x.job # "retry", x \in FlowRecs,
           flow' = [flow EXCEPT ![f] = x],
           \A g \in W!Flows \ {f} : flow[g].at \in W!Resting,
           f \in W!Callbacks => x.at \notin AppOnly
    PROVE  Moves(f) /\ flow'[f].at = x.at /\ flow'[f].job = x.job
BY IsMove

\* It is over.
LEMMA OverMoves ==
    ASSUME StreamAssumption, WriterInv, NEW f \in W!Flows,
           flow' = [flow EXCEPT ![f] = W!Ready],
           \A g \in W!Flows \ {f} : flow[g].at \in W!Resting
    PROVE  Moves(f) /\ flow'[f].at = "ready" /\ flow'[f].job = "none"
<1>1. W!Ready.at = "ready" /\ W!Ready.job = "none"
  BY DEF W!Ready
<1> QED  BY <1>1, ReadyIs, ReadyMoves DEF AppOnly

\* A move keeps the shape of the flows.
LEMMA MoveType ==
    ASSUME W!TypeOK, NEW f \in W!Flows, Moves(f), WriterShape'
    PROVE  W!TypeOK'
<1>1. \A g \in W!Callbacks : flow'[g].at \notin AppOnly
  BY DEF W!TypeOK, Moves, AppOnly, W!Flows
<1> QED  BY <1>1 DEF Moves, W!TypeOK, WriterShape, FlowRecs, AppOnly

\* Who runs, runs alone; when nobody runs, all rest.
LEMMA OthersRest ==
    ASSUME WriterInv, NEW f \in W!Flows, W!Idle \/ flow[f].at \in W!Running
    PROVE  \A g \in W!Flows \ {f} : flow[g].at \in W!Resting
<1>1. \A g \in W!Flows : flow[g].at \in W!Resting \cup W!Running
  BY DEF WriterInv, W!TypeOK
<1> QED  BY <1>1 DEF WriterInv, OneRuns, W!Idle

\* A publish that goes on to another state.
LEMMA PubUpdate ==
    ASSUME NEW S, NEW p \in Seq(S), NEW i, NEW s \in S
    PROVE  [p EXCEPT ![i] = s] \in Seq(S) /\ Len([p EXCEPT ![i] = s]) = Len(p)
<1>1. CASE i \in 1..Len(p)
  BY <1>1, ExceptSeq
<1>2. CASE i \notin 1..Len(p)
  <2>1. [p EXCEPT ![i] = s] = p
    BY <1>2
  <2> QED  BY <2>1
<1> QED  BY <1>1, <1>2

-----------------------------------------------------------------------------
(* The steps of the writer.                                                 *)

\* A piece of data is refused, waits for a flush, or is compressed.
LEMMA AddKeeps ==
    ASSUME StreamAssumption, WriterInv, W!Add
    PROVE  WriterInv'
<1>1. /\ flow[W!App].at = "add"
      /\ \A g \in W!Flows \ {W!App} : flow[g].at \in W!Resting
  BY FlowsAre, OthersRest DEF W!Add, W!At, W!Running
<1>2. /\ Moves(W!App)
      /\ \/ /\ flow'[W!App].at = "throw" /\ flow'[W!App].job = flow[W!App].job
            /\ UNCHANGED <<comp, size>>
         \/ /\ flow'[W!App].at = "flush" /\ flow'[W!App].job = "retry"
            /\ comp.there
            /\ UNCHANGED <<comp, size>>
         \/ /\ flow'[W!App].at \in {"tail", "draining"}
            /\ flow'[W!App].job = flow[W!App].job
            /\ comp'.there /\ ~comp'.finished
            /\ comp.there => ~comp.finished
      /\ UNCHANGED <<isDone, isError, chunks>>
  <2>1. UNCHANGED <<isDone, isError, chunks>> /\ flow[W!App].part # 0
    BY <1>1, FlowsAre DEF W!Add
  <2>2. CASE W!Refused
    <3>1. W!Goto(W!App, "throw") /\ UNCHANGED <<comp, size>>
      BY <2>2 DEF W!Refused
    <3> QED  BY <1>1, <2>1, <3>1, FlowsAre, GotoMoves DEF W!Running
  <2>3. CASE W!Exceeded
    <3>1. /\ comp.there /\ UNCHANGED <<comp, size>>
          /\ flow' = [flow EXCEPT ![W!App].at = "flush", ![W!App].job = "retry"]
      BY <2>3 DEF W!Exceeded
    <3>2. "flush" \in (W!Resting \cup W!Running) \ AppOnly /\ "retry" \in Jobset
      BY DEF W!Running, AppOnly, Jobset
    <3> QED  BY <1>1, <2>1, <3>1, <3>2, FlowsAre, JobMoves
  <2>4. CASE W!Accepted
    <3>1. PICK at \in {"tail", "draining"} : W!Goto(W!App, at)
      BY <2>4 DEF W!Accepted
    <3>2. comp'.there /\ ~comp'.finished /\ (comp.there => ~comp.finished)
      BY <2>4, CompressorIs DEF W!Accepted, W!EnsureCompressor, W!NewComp
    <3> QED  BY <1>1, <2>1, <3>1, <3>2, FlowsAre, GotoMoves DEF W!Running, W!Resting
  <2> QED  BY <2>2, <2>3, <2>4 DEF W!Add
<1>3. WriterShape'
  <2>1. flow[W!App].part \in 1..MaxWrites
    BY <1>1, FlowsAre DEF FlowRecs, StreamAssumption
  <2>2. W!EnsureCompressor \in Compressors
    BY CompressorIs, ReadyIs DEF W!EnsureCompressor, W!NewComp, Compressors
  <2>3. /\ sent \in Seq(1..MaxWrites)
        /\ comp \in Compressors
        /\ size \in BOOLEAN
    BY DEF WriterInv, W!TypeOK, Compressors
  <2>4. CASE W!Accepted
    <3>1. sent' \in Seq(1..MaxWrites)
      BY <2>1, <2>3, <2>4 DEF W!Accepted
    <3>2. comp' \in Compressors
      <4> DEFINE c == W!EnsureCompressor
      <4>1. comp' = [c EXCEPT !.parts = Append(c.parts, flow[W!App].part)]
        BY <2>4 DEF W!Accepted
      <4>2. c \in Compressors
        BY <2>2
      <4> HIDE DEF c
      <4>3. Append(c.parts, flow[W!App].part) \in Seq(1..MaxWrites)
        BY <2>1, <4>2 DEF Compressors
      <4> QED  BY <4>1, <4>2, <4>3 DEF Compressors
    <3>3. size' \in BOOLEAN
      BY <2>3, <2>4 DEF W!Accepted, W!SizeAfterAdd
    <3> QED  BY <3>1, <3>2, <3>3 DEF WriterInv, W!TypeOK, WriterShape, W!Add, Compressors
  <2>5. CASE UNCHANGED <<sent, comp, size>>
    BY <2>5 DEF WriterInv, W!TypeOK, WriterShape, W!Add
  <2> QED  BY <2>4, <2>5 DEF W!Add, W!Refused, W!Exceeded
<1>4. W!TypeOK'
  BY <1>2, <1>3, FlowsAre, MoveType DEF WriterInv
<1> USE <1>1, <1>2, <1>4, FlowsAre DEF WriterInv, W!Resting, W!Running, Moves
<1>5. Jobs' /\ OneRuns'
  BY DEF Jobs, OneRuns
<1>6. Compressor'
  BY DEF Compressor
<1>7. NothingLeft'
  BY DEF NothingLeft, Compressor
<1>8. PendingReports'
  BY DEF PendingReports, WriteIsStuck, Flushed, NothingLeft, Compressor
<1>9. DoneWrites'
  BY DEF DoneWrites, PendingReports, WriteIsStuck, Flushed, Jobs
<1>10. DoneSends'
  BY DEF DoneSends, DoneWrites, NothingLeft, Flushed, W!Indices
<1> QED  BY <1>5, <1>6, <1>7, <1>8, <1>9, <1>10

\* The end of a write.
LEMMA WriteEndsKeeps ==
    ASSUME StreamAssumption, WriterInv, W!WriteEnds
    PROVE  WriterInv'
<1>1. /\ flow[W!App].at = "tail"
      /\ \A g \in W!Flows \ {W!App} : flow[g].at \in W!Resting
  BY FlowsAre, OthersRest DEF W!WriteEnds, W!At, W!Running
<1>2. /\ Moves(W!App)
      /\ \/ flow'[W!App].at = "flush" /\ flow'[W!App].job = "write" /\ isDone' \in BOOLEAN
         \/ flow'[W!App].at = "ready" /\ flow'[W!App].job = "none" /\ isDone' = FALSE
      /\ UNCHANGED <<isError, comp, size, chunks>>
  <2>1. isDone' \in BOOLEAN /\ isDone' = flow[W!App].last
    BY FlowsAre DEF W!WriteEnds, FlowRecs
  <2>2. CASE flow' = [flow EXCEPT ![W!App].at = "flush", ![W!App].job = "write"]
    <3>1. "flush" \in (W!Resting \cup W!Running) \ AppOnly /\ "write" \in Jobset
      BY DEF W!Running, AppOnly, Jobset
    <3> QED  BY <1>1, <2>1, <2>2, <3>1, FlowsAre, JobMoves DEF W!WriteEnds
  <2>3. CASE ~flow[W!App].last /\ flow' = [flow EXCEPT ![W!App] = W!Ready]
    BY <1>1, <2>1, <2>3, FlowsAre, OverMoves DEF W!WriteEnds
  <2> QED  BY <2>2, <2>3 DEF W!WriteEnds
<1>3. WriterShape'
  BY FlowsAre DEF WriterInv, W!TypeOK, WriterShape, W!WriteEnds, W!ArmTimer, FlowRecs,
                  StreamAssumption
<1>4. W!TypeOK'
  BY <1>2, <1>3, FlowsAre, MoveType DEF WriterInv
<1> USE <1>1, <1>2, <1>4, FlowsAre DEF WriterInv, W!Resting, W!Running, Moves
<1>5. Jobs' /\ OneRuns'
  BY DEF Jobs, OneRuns
<1>6. Compressor'
  BY DEF Compressor
<1>7. NothingLeft'
  BY DEF NothingLeft, Compressor
<1>8. PendingReports'
  BY DEF PendingReports, WriteIsStuck, Flushed, NothingLeft, Compressor
<1>9. DoneWrites'
  BY DEF DoneWrites, PendingReports, WriteIsStuck, Flushed, Jobs
<1>10. DoneSends'
  BY DEF DoneSends, DoneWrites, NothingLeft, Flushed, W!Indices
<1> QED  BY <1>5, <1>6, <1>7, <1>8, <1>9, <1>10

\* A flush calls finish(), unless it was called.
LEMMA FlushKeeps ==
    ASSUME StreamAssumption, WriterInv, NEW f \in W!Flows, W!Flush(f)
    PROVE  WriterInv'
<1>1. /\ flow[f].at = "flush"
      /\ \A g \in W!Flows \ {f} : flow[g].at \in W!Resting
  BY FlowsAre, OthersRest DEF W!Flush, W!At, W!Running
<1>2. /\ Moves(f)
      /\ \/ flow'[f].at = "throw" /\ UNCHANGED comp
         \/ /\ flow'[f].at = "finishing"
            /\ comp.there => ~comp.finished
            /\ comp'.there = comp.there /\ comp'.finished
      /\ flow'[f].job = flow[f].job
      /\ isError => isError'
      /\ UNCHANGED <<isDone, size, chunks>>
  <2>1. PICK at \in {"throw", "finishing"} : W!Goto(f, at)
    BY DEF W!Flush
  <2>2. Moves(f) /\ flow'[f].at = at /\ flow'[f].job = flow[f].job
    BY <1>1, <2>1, GotoMoves DEF W!Running, W!Resting, AppOnly
  <2>3. CASE comp.there /\ comp.finished
    <3>1. W!Goto(f, "throw") /\ UNCHANGED comp
      BY <2>3 DEF W!Flush
    <3> QED  BY <2>2, <2>3, <3>1, FlowsAre DEF W!Flush, W!Goto, FlowRecs
  <2>4. CASE ~(comp.there /\ comp.finished)
    <3>1. W!Goto(f, "finishing") /\ comp' = [comp EXCEPT !.finished = TRUE]
      BY <2>4 DEF W!Flush
    <3>2. comp'.there = comp.there /\ comp'.finished
      BY <3>1, CompressorIs
    <3> QED  BY <2>2, <2>4, <3>1, <3>2, FlowsAre DEF W!Flush, W!Goto, FlowRecs
  <2> QED  BY <2>3, <2>4
<1>3. WriterShape'
  BY DEF WriterInv, W!TypeOK, WriterShape, W!Flush
<1>4. W!TypeOK'
  BY <1>2, <1>3, FlowsAre, MoveType DEF WriterInv
<1> USE <1>1, <1>2, <1>4, FlowsAre DEF WriterInv, W!Resting, W!Running, Moves
<1>5. Jobs' /\ OneRuns'
  BY DEF Jobs, OneRuns
<1>6. Compressor'
  BY DEF Compressor
<1>7. NothingLeft'
  BY DEF NothingLeft, Compressor
<1>8. PendingReports'
  BY DEF PendingReports, WriteIsStuck, Flushed, NothingLeft, Compressor
<1>9. DoneWrites'
  BY DEF DoneWrites, PendingReports, WriteIsStuck, Flushed, Jobs
<1>10. DoneSends'
  BY DEF DoneSends, DoneWrites, NothingLeft, Flushed, W!Indices
<1> QED  BY <1>5, <1>6, <1>7, <1>8, <1>9, <1>10

\* finish() returns, and the compressor is gone.
LEMMA FinishedKeeps ==
    ASSUME StreamAssumption, WriterInv, NEW f \in W!Flows, W!Finished(f)
    PROVE  WriterInv'
<1>1. /\ flow[f].at = "finishing"
      /\ \A g \in W!Flows \ {f} : flow[g].at \in W!Resting
  BY FlowsAre, OthersRest DEF W!Finished, W!At
<1>2. /\ Moves(f)
      /\ flow'[f].at = "send" /\ flow'[f].job = flow[f].job
      /\ ~comp'.there /\ comp'.finished
      /\ ~size'
      /\ UNCHANGED <<isDone, isError, chunks>>
  <2> DEFINE x == [flow[f] EXCEPT !.at = "send", !.data = comp.parts]
  <2>1. /\ x \in FlowRecs
        /\ x.at = "send" /\ x.job = flow[f].job /\ x.part = flow[f].part
    BY FlowsAre, CompressorIs DEF FlowRecs, W!Running
  <2>2. flow' = [flow EXCEPT ![f] = x]
    BY DEF W!Finished
  <2>3. x.job = "retry" => x.part # 0
    BY <2>1, FlowsAre
  <2> HIDE DEF x
  <2>4. Moves(f) /\ flow'[f] = x
    BY <1>1, <2>1, <2>2, <2>3, IsMove DEF AppOnly
  <2> QED  BY <2>1, <2>4 DEF W!Finished, W!AfterFinish, W!None
<1>3. WriterShape'
  BY ReadyIs DEF WriterInv, W!TypeOK, WriterShape, W!Finished, W!AfterFinish, W!None
<1>4. W!TypeOK'
  BY <1>2, <1>3, FlowsAre, MoveType DEF WriterInv
<1> USE <1>1, <1>2, <1>4, FlowsAre DEF WriterInv, W!Resting, W!Running, Moves
<1>5. Jobs' /\ OneRuns'
  BY DEF Jobs, OneRuns
<1>6. Compressor'
  BY DEF Compressor
<1>7. NothingLeft'
  BY DEF NothingLeft, Compressor
<1>8. PendingReports'
  BY DEF PendingReports, WriteIsStuck, Flushed, NothingLeft, Compressor
<1>9. DoneWrites'
  BY DEF DoneWrites, PendingReports, WriteIsStuck, Flushed, Jobs
<1>10. DoneSends'
  BY DEF DoneSends, DoneWrites, NothingLeft, Flushed, W!Indices
<1> QED  BY <1>5, <1>6, <1>7, <1>8, <1>9, <1>10

\* A publish that the chunk waited for is settled.
LEMMA RacedKeeps ==
    ASSUME StreamAssumption, WriterInv, NEW f \in W!Flows, W!Raced(f)
    PROVE  WriterInv'
<1>1. /\ flow[f].at = "racing"
      /\ \A g \in W!Flows \ {f} : flow[g].at \in W!Resting
  BY FlowsAre, OthersRest DEF W!Raced, W!At
<1>2. /\ Moves(f)
      /\ flow'[f].at = "sent" /\ flow'[f].job = flow[f].job
      /\ UNCHANGED <<isDone, isError, comp, size, chunks>>
  <2> DEFINE x == [flow[f] EXCEPT !.at = "sent", !.chunk = 0, !.wait = {}]
  <2>1. /\ x \in FlowRecs
        /\ x.at = "sent" /\ x.job = flow[f].job /\ x.part = flow[f].part
    BY FlowsAre DEF FlowRecs, W!Running
  <2>2. flow' = [flow EXCEPT ![f] = x]
    BY DEF W!Raced
  <2>3. x.job = "retry" => x.part # 0
    BY <2>1, FlowsAre
  <2> HIDE DEF x
  <2>4. Moves(f) /\ flow'[f] = x
    BY <1>1, <2>1, <2>2, <2>3, IsMove DEF AppOnly
  <2> QED  BY <2>1, <2>4 DEF W!Raced
<1>3. WriterShape'
  <2>1. pub' = [pub EXCEPT ![flow[f].chunk] = "sent"]
    BY DEF W!Raced
  <2>2. pub' \in Seq({"held", "sent", "ok", "failed"}) /\ Len(pub') = Len(pub)
    <3>1. pub \in Seq(PubStates) /\ "sent" \in PubStates
      BY DEF WriterInv, W!TypeOK, PubStates
    <3>2. pub' \in Seq(PubStates) /\ Len(pub') = Len(pub)
      BY <2>1, <3>1, PubUpdate
    <3> QED  BY <3>2 DEF PubStates
  <2> QED  BY <2>2 DEF WriterInv, W!TypeOK, WriterShape, W!Raced
<1>4. W!TypeOK'
  BY <1>2, <1>3, FlowsAre, MoveType DEF WriterInv
<1> USE <1>1, <1>2, <1>4, FlowsAre DEF WriterInv, W!Resting, W!Running, Moves
<1>5. Jobs' /\ OneRuns'
  BY DEF Jobs, OneRuns
<1>6. Compressor'
  BY DEF Compressor
<1>7. NothingLeft'
  BY DEF NothingLeft, Compressor
<1>8. PendingReports'
  BY DEF PendingReports, WriteIsStuck, Flushed, NothingLeft, Compressor
<1>9. DoneWrites'
  BY DEF DoneWrites, PendingReports, WriteIsStuck, Flushed, Jobs
<1>10. DoneSends'
  BY DEF DoneSends, DoneWrites, NothingLeft, Flushed, W!Indices
<1> QED  BY <1>5, <1>6, <1>7, <1>8, <1>9, <1>10

\* The compressor drains.
LEMMA DrainedKeeps ==
    ASSUME StreamAssumption, WriterInv, W!Drained
    PROVE  WriterInv'
<1>1. /\ flow[W!App].at = "draining"
      /\ \A g \in W!Flows \ {W!App} : flow[g].at \in W!Resting
  BY FlowsAre, OthersRest DEF W!Drained, W!At
<1>2. /\ Moves(W!App)
      /\ flow'[W!App].at = "tail" /\ flow'[W!App].job = flow[W!App].job
      /\ ~comp.finished
      /\ UNCHANGED <<isDone, isError, comp, chunks>>
  BY <1>1, FlowsAre, GotoMoves DEF W!Drained, W!Running
<1>3. WriterShape'
  BY DEF WriterInv, W!TypeOK, WriterShape, W!Drained, W!SizeAfterAdd
<1>4. W!TypeOK'
  BY <1>2, <1>3, FlowsAre, MoveType DEF WriterInv
<1> USE <1>1, <1>2, <1>4, FlowsAre DEF WriterInv, W!Resting, W!Running, Moves
<1>5. Jobs' /\ OneRuns'
  BY DEF Jobs, OneRuns
<1>6. Compressor'
  BY DEF Compressor
<1>7. NothingLeft'
  BY DEF NothingLeft, Compressor
<1>8. PendingReports'
  BY DEF PendingReports, WriteIsStuck, Flushed, NothingLeft, Compressor
<1>9. DoneWrites'
  BY DEF DoneWrites, PendingReports, WriteIsStuck, Flushed, Jobs
<1>10. DoneSends'
  BY DEF DoneSends, DoneWrites, NothingLeft, Flushed, W!Indices
<1> QED  BY <1>5, <1>6, <1>7, <1>8, <1>9, <1>10

\* The expert fails.
LEMMA ExpertFailsKeeps ==
    ASSUME StreamAssumption, WriterInv, W!ExpertFails
    PROVE  WriterInv'
<1>1. /\ flow[W!App].at = "ready"
      /\ \A g \in W!Flows \ {W!App} : flow[g].at \in W!Resting
  BY FlowsAre, OthersRest DEF W!ExpertFails, W!At
<1>2. /\ Moves(W!App)
      /\ flow'[W!App].at = "error" /\ flow'[W!App].job = flow[W!App].job
      /\ UNCHANGED <<isDone, isError, comp, size, chunks>>
  BY <1>1, FlowsAre, GotoMoves DEF W!ExpertFails, W!Running
<1>3. WriterShape'
  BY DEF WriterInv, W!TypeOK, WriterShape, W!ExpertFails
<1>4. W!TypeOK'
  BY <1>2, <1>3, FlowsAre, MoveType DEF WriterInv
<1> USE <1>1, <1>2, <1>4, FlowsAre DEF WriterInv, W!Resting, W!Running, Moves
<1>5. Jobs' /\ OneRuns'
  BY DEF Jobs, OneRuns
<1>6. Compressor'
  BY DEF Compressor
<1>7. NothingLeft'
  BY DEF NothingLeft, Compressor
<1>8. PendingReports'
  BY DEF PendingReports, WriteIsStuck, Flushed, NothingLeft, Compressor
<1>9. DoneWrites'
  BY DEF DoneWrites, PendingReports, WriteIsStuck, Flushed, Jobs
<1>10. DoneSends'
  BY DEF DoneSends, DoneWrites, NothingLeft, Flushed, W!Indices
<1> QED  BY <1>5, <1>6, <1>7, <1>8, <1>9, <1>10

\* A write begins.
LEMMA WriteBeginsKeeps ==
    ASSUME StreamAssumption, WriterInv, NEW part \in 0..MaxWrites, NEW last \in BOOLEAN,
           W!WriteBegins(part, last)
    PROVE  WriterInv'
<1>1. /\ flow[W!App].at = "ready"
      /\ \A g \in W!Flows \ {W!App} : flow[g].at \in W!Resting
  BY FlowsAre, OthersRest DEF W!WriteBegins, W!At
<1>2. /\ Moves(W!App)
      /\ flow'[W!App].job = flow[W!App].job
      /\ \/ isError /\ flow'[W!App].at = "error" /\ UNCHANGED <<comp, size>>
         \/ /\ ~isError /\ flow'[W!App].at \in {"add", "tail"}
            /\ comp'.there
            /\ comp.there => comp' = comp
            /\ size' => size
      /\ UNCHANGED <<isDone, isError, chunks>>
  <2>1. CASE isError
    <3>1. W!Goto(W!App, "error") /\ UNCHANGED <<comp, size, isDone, isError, chunks>>
      BY <2>1 DEF W!WriteBegins
    <3> QED  BY <1>1, <2>1, <3>1, FlowsAre, GotoMoves DEF W!Running
  <2>2. CASE ~isError
    <3> DEFINE at == IF part = 0 THEN "tail" ELSE "add"
               x == [flow[W!App] EXCEPT !.at = at, !.part = part, !.last = last]
    <3>1. /\ x \in FlowRecs
          /\ x.at = at /\ x.job = flow[W!App].job /\ x.part = part
      BY FlowsAre DEF FlowRecs, W!Running
    <3>2. flow' = [flow EXCEPT ![W!App] = x]
      BY <2>2 DEF W!WriteBegins
    <3>3. x.at = "add" \/ x.job = "retry" => x.part # 0
      BY <1>1, <3>1 DEF WriterInv, Jobs
    <3> HIDE DEF x
    <3>4. Moves(W!App) /\ flow'[W!App] = x
      BY <1>1, <3>1, <3>2, <3>3, FlowsAre, IsMove
    <3>5. /\ comp'.there
          /\ comp.there => comp' = comp
          /\ size' => size
      BY <2>2, CompressorIs DEF W!WriteBegins, W!EnsureCompressor, W!NewComp
    <3> QED  BY <2>2, <3>1, <3>4, <3>5 DEF W!WriteBegins
  <2> QED  BY <2>1, <2>2
<1>3. WriterShape'
  <2>1. W!EnsureCompressor \in Compressors
    BY CompressorIs, ReadyIs DEF W!EnsureCompressor, W!NewComp, Compressors
  <2>2. comp' \in Compressors /\ size' \in BOOLEAN /\ timer' \in BOOLEAN
    BY <2>1, CompressorIs DEF W!WriteBegins, Compressors, WriterInv, W!TypeOK
  <2>3. tried' \in 0..MaxWrites
    BY DEF W!WriteBegins, WriterInv, W!TypeOK
  <2> QED  BY <2>2, <2>3 DEF WriterInv, W!TypeOK, WriterShape, W!WriteBegins, Compressors
<1>4. W!TypeOK'
  BY <1>2, <1>3, FlowsAre, MoveType DEF WriterInv
<1> USE <1>1, <1>2, <1>4, FlowsAre DEF WriterInv, W!Resting, W!Running, Moves
<1>5. Jobs' /\ OneRuns'
  BY DEF Jobs, OneRuns
<1>6. Compressor'
  BY DEF Compressor
<1>7. NothingLeft'
  BY DEF NothingLeft, Compressor
<1>8. PendingReports'
  BY DEF PendingReports, WriteIsStuck, Flushed, NothingLeft, Compressor
<1>9. DoneWrites'
  BY DEF DoneWrites, PendingReports, WriteIsStuck, Flushed, Jobs
<1>10. DoneSends'
  BY DEF DoneSends, DoneWrites, NothingLeft, Flushed, W!Indices
<1> QED  BY <1>5, <1>6, <1>7, <1>8, <1>9, <1>10

\* A chunk is created.
LEMMA SendKeeps ==
    ASSUME StreamAssumption, WriterInv, NEW f \in W!Flows, W!Send(f)
    PROVE  WriterInv'
<1>1. /\ flow[f].at = "send"
      /\ \A g \in W!Flows \ {f} : flow[g].at \in W!Resting
  BY FlowsAre, OthersRest DEF W!Send, W!At, W!Running
<1>2. /\ Moves(f)
      /\ flow'[f].at \in {"racing", "sent"} /\ flow'[f].job = flow[f].job
      /\ \E x : /\ chunks' = Append(chunks, x)
                /\ x.status = "done" => isDone /\ flow[f].job # "report"
      /\ UNCHANGED <<isDone, isError, comp, size>>
  <2> DEFINE crowded == W!Cardinality(W!Pending) > Window
             x == [flow[f] EXCEPT !.at = IF crowded THEN "racing" ELSE "sent", !.data = <<>>,
                                  !.chunk = IF crowded THEN Len(chunks) + 1 ELSE 0,
                                  !.wait = IF crowded THEN W!Pending ELSE {}]
  <2>1. W!Pending \subseteq Nat /\ Len(chunks) + 1 \in Nat
    BY DEF W!Pending, W!Indices, WriterInv, W!TypeOK
  <2>2. flow' = [flow EXCEPT ![f] = x]
    BY DEF W!Send
  <2> HIDE DEF crowded
  <2>3. /\ x \in FlowRecs
        /\ x.at \in {"racing", "sent"} /\ x.job = flow[f].job /\ x.part = flow[f].part
    BY <2>1, FlowsAre, ReadyIs DEF FlowRecs, W!Running, W!Resting
  <2>4. x.job = "retry" => x.part # 0
    BY <2>3, FlowsAre
  <2> HIDE DEF x
  <2>5. Moves(f) /\ flow'[f] = x
    BY <1>1, <2>2, <2>3, <2>4, IsMove DEF AppOnly
  <2>6. \E c : /\ chunks' = Append(chunks, c)
               /\ c.status = "done" => isDone /\ flow[f].job # "report"
    <3> DEFINE c == [data |-> flow[f].data, status |-> W!Status(f)]
    <3>1. c.status = "done" => isDone /\ flow[f].job # "report"
      BY DEF W!Status
    <3>2. chunks' = Append(chunks, c)
      BY DEF W!Send
    <3> QED  BY <3>1, <3>2
  <2> QED  BY <2>3, <2>5, <2>6 DEF W!Send
<1>3. WriterShape'
  <2>1. [data |-> flow[f].data, status |-> W!Status(f)]
            \in [data : Seq(1..MaxWrites), status : {"active", "done", "error"}]
    BY FlowsAre DEF FlowRecs, W!Status
  <2>2. chunks' = Append(chunks, [data |-> flow[f].data, status |-> W!Status(f)])
    BY DEF W!Send
  <2>3. \E p \in {"held", "sent"} : pub' = Append(pub, p)
    BY DEF W!Send
  <2> QED  BY <2>1, <2>2, <2>3 DEF WriterInv, W!TypeOK, WriterShape, W!Send
<1>4. W!TypeOK'
  BY <1>2, <1>3, FlowsAre, MoveType DEF WriterInv
<1> USE <1>1, <1>2, <1>4, FlowsAre DEF WriterInv, W!Resting, W!Running, Moves
<1>5. Jobs' /\ OneRuns'
  BY DEF Jobs, OneRuns
<1>6. Compressor'
  BY DEF Compressor
<1>7. NothingLeft'
  BY DEF NothingLeft, Compressor
<1>8. PendingReports'
  BY DEF PendingReports, WriteIsStuck, Flushed, NothingLeft, Compressor
<1>9. DoneWrites'
  BY DEF DoneWrites, PendingReports, WriteIsStuck, Flushed, Jobs
<1>10. DoneSends'
  <2>1. chunks \in Seq([data : Seq(1..MaxWrites), status : {"active", "done", "error"}])
    BY DEF W!TypeOK
  <2>2. \A i \in 1..Len(chunks) : chunks[i].status # "done"
    BY DEF DoneSends, W!Indices
  <2>3. PICK x : /\ chunks' = Append(chunks, x)
                 /\ x.status = "done" => isDone /\ flow[f].job # "report"
    OBVIOUS
  <2>4. /\ Len(chunks) \in Nat /\ Len(chunks') = Len(chunks) + 1
        /\ chunks'[Len(chunks) + 1] = x
        /\ \A i \in 1..Len(chunks) : chunks'[i] = chunks[i]
    BY <2>1, <2>3
  <2>5. x.status = "done" => /\ isDone /\ ~size
                             /\ \A g \in W!Flows : flow[g].at # "finishing"
    BY <2>3 DEF NothingLeft
  <2>6. \A g \in W!Flows : /\ flow'[g].at \notin {"flush", "send"}
                           /\ flow[g].at # "finishing" => flow'[g].at # "finishing"
    OBVIOUS
  <2>7. SUFFICES ASSUME NEW i \in 1..Len(chunks'), chunks'[i].status = "done"
                 PROVE  /\ i = Len(chunks') /\ isDone' /\ ~size'
                        /\ \A g \in W!Flows : flow'[g].at \notin {"flush", "finishing", "send"}
    BY DEF DoneSends, W!Indices
  <2>8. i = Len(chunks') /\ x.status = "done"
    BY <2>2, <2>4, <2>7
  <2> QED  BY <2>5, <2>6, <2>8
<1> QED  BY <1>5, <1>6, <1>7, <1>8, <1>9, <1>10

\* What a flow does when its chunk is being published.
LEMMA ContinueKeeps ==
    ASSUME StreamAssumption, WriterInv, NEW f \in W!Flows, W!Continue(f)
    PROVE  WriterInv'
<1>1. /\ flow[f].at = "sent"
      /\ \A g \in W!Flows \ {f} : flow[g].at \in W!Resting
  BY FlowsAre, OthersRest DEF W!Continue, W!At, W!Running
<1>2. /\ Moves(f)
      /\ \/ flow[f].job = "retry" /\ flow'[f].at = "add" /\ flow'[f].job = "retry"
         \/ /\ flow[f].job = "write" /\ isDone
            /\ flow'[f].at = "settling" /\ flow'[f].job = "write"
         \/ /\ ~isDone \/ flow[f].job = "timer"
            /\ flow'[f].at = "ready" /\ flow'[f].job = "none"
         \/ flow[f].job = "pending" /\ flow'[f].at = "send" /\ flow'[f].job = "report"
         \/ flow[f].job = "report" /\ flow'[f].at = "settling" /\ flow'[f].job = "report"
      /\ UNCHANGED <<isDone, isError, comp, size, chunks>>
  <2>1. UNCHANGED <<isDone, isError, comp, size, chunks>>
    BY DEF W!Continue
  <2>2. CASE flow[f].job = "retry" /\ W!Goto(f, "add")
    BY <1>1, <2>1, <2>2, FlowsAre, GotoMoves DEF W!Running
  <2>3. CASE /\ (flow[f].job = "write" /\ isDone) \/ flow[f].job = "report"
             /\ W!Settle(f)
    <3> DEFINE x == [flow[f] EXCEPT !.at = "settling", !.wait = W!Pending]
    <3>1. W!Pending \subseteq Nat
      BY DEF W!Pending, W!Indices
    <3>2. /\ x \in FlowRecs
          /\ x.at = "settling" /\ x.job = flow[f].job
      BY <3>1, FlowsAre DEF FlowRecs, W!Resting
    <3>3. flow' = [flow EXCEPT ![f] = x]
      BY <2>3 DEF W!Settle
    <3>4. x.job # "retry"
      BY <2>3, <3>2
    <3> HIDE DEF x
    <3>5. Moves(f) /\ flow'[f] = x
      BY <1>1, <3>2, <3>3, <3>4, IsMove DEF AppOnly
    <3> QED  BY <2>1, <2>3, <3>2, <3>5
  <2>4. CASE (~isDone \/ flow[f].job = "timer") /\ flow' = [flow EXCEPT ![f] = W!Ready]
    BY <1>1, <2>1, <2>4, OverMoves
  <2>5. CASE /\ flow[f].job = "pending"
             /\ flow' = [flow EXCEPT ![f].at = "send", ![f].job = "report"]
    <3> DEFINE x == [flow[f] EXCEPT !.at = "send", !.job = "report"]
    <3>1. x \in FlowRecs /\ x.at = "send" /\ x.job = "report"
      BY FlowsAre DEF FlowRecs, W!Running
    <3>2. flow' = [flow EXCEPT ![f] = x]
      BY <2>5
    <3> HIDE DEF x
    <3>3. Moves(f) /\ flow'[f] = x
      BY <1>1, <3>1, <3>2, IsMove DEF AppOnly
    <3> QED  BY <2>1, <2>5, <3>1, <3>3
  <2> QED  BY <2>2, <2>3, <2>4, <2>5 DEF W!Continue
<1>3. WriterShape'
  BY DEF WriterInv, W!TypeOK, WriterShape, W!Continue, W!ArmTimer, StreamAssumption
<1>4. W!TypeOK'
  BY <1>2, <1>3, FlowsAre, MoveType DEF WriterInv
<1> USE <1>1, <1>2, <1>4, FlowsAre DEF WriterInv, W!Resting, W!Running, Moves
<1>5. Jobs' /\ OneRuns'
  BY DEF Jobs, OneRuns
<1>6. Compressor'
  BY DEF Compressor
<1>7. NothingLeft'
  BY DEF NothingLeft, Compressor
<1>8. PendingReports'
  BY DEF PendingReports, WriteIsStuck, Flushed, NothingLeft, Compressor
<1>9. DoneWrites'
  BY DEF DoneWrites, PendingReports, WriteIsStuck, Flushed, Jobs
<1>10. DoneSends'
  BY DEF DoneSends, DoneWrites, NothingLeft, Flushed, W!Indices
<1> QED  BY <1>5, <1>6, <1>7, <1>8, <1>9, <1>10

\* A step that leaves the flows and what they share alone.
LEMMA SameKeeps ==
    ASSUME WriterInv, WriterShape',
           UNCHANGED <<flow, comp, size, isDone, isError, chunks>>
    PROVE  WriterInv'
<1>1. W!TypeOK'
  BY DEF WriterInv, W!TypeOK, WriterShape
<1>2. (Jobs /\ OneRuns /\ Compressor /\ NothingLeft)'
  BY DEF WriterInv, Jobs, OneRuns, Compressor, NothingLeft
<1>3. (PendingReports /\ DoneWrites /\ DoneSends)'
  BY DEF WriterInv, PendingReports, WriteIsStuck, DoneWrites, DoneSends, W!Indices
<1> QED  BY <1>1, <1>2, <1>3 DEF WriterInv

\* error() gives up on a stream that is done, or reports.
LEMMA ErrorMoves ==
    ASSUME StreamAssumption, WriterInv, NEW f \in W!Flows, W!Error(f), ~crashed'
    PROVE  WriterInv'
<1>1. /\ flow[f].at = "error"
      /\ \A g \in W!Flows \ {f} : flow[g].at \in W!Resting
  BY FlowsAre, OthersRest DEF W!Error, W!At, W!Running
<1>0. W!Rejects(f) => f = W!App
  BY DEF W!Rejects, WriterInv, W!TypeOK
<1>2. /\ Moves(f)
      /\ \/ /\ f = W!App /\ isError' = isError
            /\ flow'[f].at = "ended" /\ flow'[f].job = "none"
         \/ /\ ~isDone /\ isError' /\ size
            /\ flow'[f].at = "flush" /\ flow'[f].job = "pending"
         \/ /\ ~isDone /\ isError'
            /\ flow'[f].at = "send" /\ flow'[f].job = "report"
      /\ UNCHANGED <<isDone, comp, size, chunks>>
  <2>1. UNCHANGED <<isDone, comp, size, chunks>>
    BY DEF W!Error
  <2>2. CASE isDone /\ W!Rejects(f) /\ UNCHANGED isError
    <3> DEFINE x == [W!Ready EXCEPT !.at = "ended"]
    <3>1. x \in FlowRecs /\ x.at = "ended" /\ x.job = "none"
      BY ReadyIs DEF FlowRecs, W!Resting, W!Ready
    <3>2. flow' = [flow EXCEPT ![f] = x]
      BY <2>2, <1>0 DEF W!Rejects
    <3> HIDE DEF x
    <3>3. Moves(f) /\ flow'[f] = x
      BY <1>1, <3>1, <3>2, <2>2, <1>0, FlowsAre, IsMove
    <3> QED  BY <2>1, <2>2, <1>0, <3>1, <3>3
  <2>3. CASE /\ ~isDone /\ isError'
             /\ flow' = [flow EXCEPT ![f] =
                           [W!Ready EXCEPT !.at = IF size THEN "flush" ELSE "send",
                                           !.job = IF size THEN "pending" ELSE "report"]]
    <3> DEFINE x == [W!Ready EXCEPT !.at = IF size THEN "flush" ELSE "send",
                                    !.job = IF size THEN "pending" ELSE "report"]
    <3>1. /\ x \in FlowRecs
          /\ \/ size /\ x.at = "flush" /\ x.job = "pending"
             \/ x.at = "send" /\ x.job = "report"
      BY ReadyIs DEF FlowRecs, W!Running, W!Ready
    <3>2. flow' = [flow EXCEPT ![f] = x]
      BY <2>3
    <3> HIDE DEF x
    <3>3. Moves(f) /\ flow'[f] = x
      BY <1>1, <3>1, <3>2, IsMove DEF AppOnly
    <3> QED  BY <2>1, <2>3, <3>1, <3>3
  <2> QED  BY <2>2, <2>3 DEF W!Error, W!MayReport
<1>3. WriterShape'
  BY DEF WriterInv, W!TypeOK, WriterShape, W!Error, W!Rejects
<1>4. W!TypeOK'
  BY <1>2, <1>3, FlowsAre, MoveType DEF WriterInv
<1> USE <1>1, <1>2, <1>4, FlowsAre DEF WriterInv, W!Resting, W!Running, Moves
<1>5. Jobs' /\ OneRuns'
  BY DEF Jobs, OneRuns
<1>6. Compressor'
  BY DEF Compressor
<1>7. NothingLeft'
  BY DEF NothingLeft, Compressor
<1>8. PendingReports'
  BY DEF PendingReports, WriteIsStuck, Flushed, NothingLeft, Compressor
<1>9. DoneWrites'
  BY DEF DoneWrites, PendingReports, WriteIsStuck, Flushed, Jobs
<1>10. DoneSends'
  BY DEF DoneSends, DoneWrites, NothingLeft, Flushed, W!Indices
<1> QED  BY <1>5, <1>6, <1>7, <1>8, <1>9, <1>10

\* A callback whose error() rejects ends the process, and changes nothing else.
LEMMA ErrorKeeps ==
    ASSUME StreamAssumption, WriterInv, NEW f \in W!Flows, W!Error(f)
    PROVE  WriterInv'
<1>1. CASE crashed'
  <2>1. UNCHANGED <<flow, comp, size, isDone, isError, chunks>>
    BY <1>1 DEF W!Error, W!Rejects, W!At
  <2>2. WriterShape'
    BY DEF WriterInv, W!TypeOK, WriterShape, W!Error, W!Rejects
  <2> QED  BY <2>1, <2>2, SameKeeps
<1> QED  BY <1>1, ErrorMoves

\* An exception reaches the application, or the callback's own handler.
LEMMA ThrowMoves ==
    ASSUME StreamAssumption, WriterInv, NEW f \in W!Flows, W!Throw(f), ~crashed'
    PROVE  WriterInv'
<1>1. /\ flow[f].at = "throw"
      /\ \A g \in W!Flows \ {f} : flow[g].at \in W!Resting
  BY FlowsAre, OthersRest DEF W!Throw, W!At, W!Running
<1>0. W!Rejects(f) => f = W!App
  BY DEF W!Rejects, WriterInv, W!TypeOK
<1>2. /\ Moves(f)
      /\ \/ f = W!App /\ flow'[f].at = "ended" /\ flow'[f].job = "none"
         \/ f = W!App /\ flow'[f].at = "error" /\ flow'[f].job = flow[f].job
         \/ f # W!App /\ flow'[f].at = "ready" /\ flow'[f].job = "none"
      /\ UNCHANGED <<isDone, isError, comp, size, chunks>>
  <2>1. UNCHANGED <<isDone, isError, comp, size, chunks>>
    BY DEF W!Throw
  <2>2. CASE f = W!App /\ W!Rejects(f)
    <3> DEFINE x == [W!Ready EXCEPT !.at = "ended"]
    <3>1. x \in FlowRecs /\ x.at = "ended" /\ x.job = "none"
      BY ReadyIs DEF FlowRecs, W!Resting, W!Ready
    <3>2. flow' = [flow EXCEPT ![f] = x]
      BY <2>2 DEF W!Rejects
    <3> HIDE DEF x
    <3>3. Moves(f) /\ flow'[f] = x
      BY <1>1, <3>1, <3>2, <2>2, FlowsAre, IsMove
    <3> QED  BY <2>1, <2>2, <3>1, <3>3
  <2>3. CASE f = W!App /\ flow' = [flow EXCEPT ![f] = [flow[f] EXCEPT !.at = "error"]]
    <3>1. W!Goto(f, "error")
      BY <2>3 DEF W!Goto
    <3> QED  BY <1>1, <2>1, <2>3, <3>1, FlowsAre, GotoMoves DEF W!Running
  <2>4. CASE f # W!App /\ flow' = [flow EXCEPT ![f] = W!Ready]
    BY <1>1, <2>1, <2>4, OverMoves
  <2> QED  BY <1>0, <2>2, <2>3, <2>4 DEF W!Throw
<1>3. WriterShape'
  BY DEF WriterInv, W!TypeOK, WriterShape, W!Throw, W!Rejects
<1>4. W!TypeOK'
  BY <1>2, <1>3, FlowsAre, MoveType DEF WriterInv
<1> USE <1>1, <1>2, <1>4, FlowsAre DEF WriterInv, W!Resting, W!Running, Moves
<1>5. Jobs' /\ OneRuns'
  BY DEF Jobs, OneRuns
<1>6. Compressor'
  BY DEF Compressor
<1>7. NothingLeft'
  BY DEF NothingLeft, Compressor
<1>8. PendingReports'
  BY DEF PendingReports, WriteIsStuck, Flushed, NothingLeft, Compressor
<1>9. DoneWrites'
  BY DEF DoneWrites, PendingReports, WriteIsStuck, Flushed, Jobs
<1>10. DoneSends'
  BY DEF DoneSends, DoneWrites, NothingLeft, Flushed, W!Indices
<1> QED  BY <1>5, <1>6, <1>7, <1>8, <1>9, <1>10

\* So does a callback whose exception nobody catches.
LEMMA ThrowKeeps ==
    ASSUME StreamAssumption, WriterInv, NEW f \in W!Flows, W!Throw(f)
    PROVE  WriterInv'
<1>1. CASE crashed'
  <2>1. UNCHANGED <<flow, comp, size, isDone, isError, chunks>>
    BY <1>1 DEF W!Throw, W!Rejects, W!At
  <2>2. WriterShape'
    BY DEF WriterInv, W!TypeOK, WriterShape, W!Throw, W!Rejects
  <2> QED  BY <2>1, <2>2, SameKeeps
<1> QED  BY <1>1, ThrowMoves

\* The batch timer fires, and there is something to flush.
LEMMA TimerFlushes ==
    ASSUME StreamAssumption, WriterInv, W!TimerFires, size
    PROVE  WriterInv'
<1>0. PICK f \in W!Callbacks :
         /\ flow[f] = W!Ready
         /\ flow' = [flow EXCEPT ![f].at = "flush", ![f].job = "timer"]
  BY DEF W!TimerFires, W!Spawn, W!Free
<1>1. /\ f \in W!Flows /\ f # W!App /\ flow[f].at = "ready"
      /\ \A g \in W!Flows \ {f} : flow[g].at \in W!Resting
  BY <1>0, FlowsAre, OthersRest DEF W!TimerFires, W!Ready
<1>2. /\ Moves(f)
      /\ flow'[f].at = "flush" /\ flow'[f].job = "timer"
      /\ size
      /\ UNCHANGED <<isDone, isError, comp, size, chunks>>
  <2> DEFINE x == [flow[f] EXCEPT !.at = "flush", !.job = "timer"]
  <2>1. x \in FlowRecs /\ x.at = "flush" /\ x.job = "timer"
    BY <1>1, FlowsAre DEF FlowRecs, W!Running
  <2>2. flow' = [flow EXCEPT ![f] = x]
    BY <1>0
  <2> HIDE DEF x
  <2>3. Moves(f) /\ flow'[f] = x
    BY <1>1, <2>1, <2>2, IsMove DEF AppOnly
  <2> QED  BY <2>1, <2>3 DEF W!TimerFires
<1>3. WriterShape'
  BY DEF WriterInv, W!TypeOK, WriterShape, W!TimerFires
<1>4. W!TypeOK'
  BY <1>1, <1>2, <1>3, MoveType DEF WriterInv
<1> USE <1>1, <1>2, <1>4, FlowsAre DEF WriterInv, W!Resting, W!Running, Moves
<1>5. Jobs' /\ OneRuns'
  BY DEF Jobs, OneRuns
<1>6. Compressor'
  BY DEF Compressor
<1>7. NothingLeft'
  BY DEF NothingLeft, Compressor
<1>8. PendingReports'
  BY DEF PendingReports, WriteIsStuck, Flushed, NothingLeft, Compressor
<1>9. DoneWrites'
  BY DEF DoneWrites, PendingReports, WriteIsStuck, Flushed, Jobs
<1>10. DoneSends'
  BY DEF DoneSends, DoneWrites, NothingLeft, Flushed, W!Indices
<1> QED  BY <1>5, <1>6, <1>7, <1>8, <1>9, <1>10

\* With nothing to flush, the timer does nothing.
LEMMA TimerFiresKeeps ==
    ASSUME StreamAssumption, WriterInv, W!TimerFires
    PROVE  WriterInv'
<1>1. CASE ~size
  <2>1. UNCHANGED <<flow, comp, size, isDone, isError, chunks>>
    BY <1>1 DEF W!TimerFires
  <2>2. WriterShape'
    BY DEF WriterInv, W!TypeOK, WriterShape, W!TimerFires
  <2> QED  BY <2>1, <2>2, SameKeeps
<1> QED  BY <1>1, TimerFlushes

\* A relay took the chunk.
LEMMA PublishOkKeeps ==
    ASSUME StreamAssumption, WriterInv, NEW i \in W!Indices, W!PublishOk(i)
    PROVE  WriterInv'
<1>1. UNCHANGED <<flow, comp, size, isDone, isError, chunks>>
  BY DEF W!PublishOk
<1>2. WriterShape'
  <2>1. pub' \in Seq(PubStates) /\ Len(pub') = Len(pub)
    <3>1. pub \in Seq(PubStates) /\ "ok" \in PubStates
      BY DEF WriterInv, W!TypeOK, PubStates
    <3> QED  BY <3>1, PubUpdate DEF W!PublishOk
  <2> QED  BY <2>1 DEF WriterInv, W!TypeOK, WriterShape, W!PublishOk, PubStates
<1> QED  BY <1>1, <1>2, SameKeeps

\* No relay took the chunk in time: a callback calls error().
LEMMA PublishFailsKeeps ==
    ASSUME StreamAssumption, WriterInv, NEW i \in W!Indices, W!PublishFails(i)
    PROVE  WriterInv'
<1>0. PICK f \in W!Callbacks :
         /\ flow[f] = W!Ready
         /\ flow' = [flow EXCEPT ![f].at = "error", ![f].job = "none"]
  BY DEF W!PublishFails, W!Spawn, W!Free
<1>1. /\ f \in W!Flows /\ f # W!App /\ flow[f].at = "ready"
      /\ \A g \in W!Flows \ {f} : flow[g].at \in W!Resting
  BY <1>0, FlowsAre, OthersRest DEF W!PublishFails, W!Ready
<1>2. /\ Moves(f)
      /\ flow'[f].at = "error" /\ flow'[f].job = "none"
      /\ UNCHANGED <<isDone, isError, comp, size, chunks>>
  <2> DEFINE x == [flow[f] EXCEPT !.at = "error", !.job = "none"]
  <2>1. x \in FlowRecs /\ x.at = "error" /\ x.job = "none"
    BY <1>1, FlowsAre DEF FlowRecs, W!Running
  <2>2. flow' = [flow EXCEPT ![f] = x]
    BY <1>0
  <2> HIDE DEF x
  <2>3. Moves(f) /\ flow'[f] = x
    BY <1>1, <2>1, <2>2, IsMove DEF AppOnly
  <2> QED  BY <2>1, <2>3 DEF W!PublishFails
<1>3. WriterShape'
  <2>1. pub' \in Seq(PubStates) /\ Len(pub') = Len(pub)
    <3>1. pub \in Seq(PubStates) /\ "failed" \in PubStates
      BY DEF WriterInv, W!TypeOK, PubStates
    <3> QED  BY <3>1, PubUpdate DEF W!PublishFails
  <2> QED  BY <2>1 DEF WriterInv, W!TypeOK, WriterShape, W!PublishFails, PubStates
<1>4. W!TypeOK'
  BY <1>1, <1>2, <1>3, MoveType DEF WriterInv
<1> USE <1>1, <1>2, <1>4, FlowsAre DEF WriterInv, W!Resting, W!Running, Moves
<1>5. Jobs' /\ OneRuns'
  BY DEF Jobs, OneRuns
<1>6. Compressor'
  BY DEF Compressor
<1>7. NothingLeft'
  BY DEF NothingLeft, Compressor
<1>8. PendingReports'
  BY DEF PendingReports, WriteIsStuck, Flushed, NothingLeft, Compressor
<1>9. DoneWrites'
  BY DEF DoneWrites, PendingReports, WriteIsStuck, Flushed, Jobs
<1>10. DoneSends'
  BY DEF DoneSends, DoneWrites, NothingLeft, Flushed, W!Indices
<1> QED  BY <1>5, <1>6, <1>7, <1>8, <1>9, <1>10

\* The last publishes are settled, and the writer is disposed of: a finish() that is
\* under way never returns.
LEMMA SettledKeeps ==
    ASSUME StreamAssumption, WriterInv, NEW f \in W!Flows, W!Settled(f)
    PROVE  WriterInv'
<1>1. flow[f].at = "settling" /\ \A g \in W!Flows : flow[g].at \in W!Resting
  BY DEF W!Settled, W!At, W!Idle
<1>2. /\ flow' \in [W!Flows -> FlowRecs]
      /\ f # W!App => flow'[f].at = "ready"
      /\ f = W!App => flow'[f].at \in {"closed", "ended"}
      /\ flow'[f].job = "none"
      /\ \A g \in W!Flows \ {f} :
            /\ flow'[g].at = IF flow[g].at = "finishing" THEN "hung" ELSE flow[g].at
            /\ flow'[g].job = flow[g].job /\ flow'[g].part = flow[g].part
  <2> DEFINE hung(g) == [flow[g] EXCEPT !.at = "hung"]
  <2>1. \A g \in W!Flows :
           /\ flow[g] \in FlowRecs
           /\ hung(g) \in FlowRecs
           /\ hung(g).at = "hung" /\ hung(g).job = flow[g].job /\ hung(g).part = flow[g].part
    BY FlowsAre DEF FlowRecs, W!Resting
  <2>2. /\ W!After(f) \in FlowRecs
        /\ f # W!App => W!After(f).at = "ready"
        /\ f = W!App => W!After(f).at \in {"closed", "ended"}
        /\ W!After(f).job = "none"
    BY ReadyIs DEF W!After, W!Ready, FlowRecs, W!Resting
  <2>3. flow' = [g \in W!Flows |-> IF g = f THEN W!After(f)
                                  ELSE IF flow[g].at = "finishing" THEN hung(g) ELSE flow[g]]
    BY DEF W!Settled
  <2> HIDE DEF hung
  <2> QED  BY <2>1, <2>2, <2>3
<1>3. ~comp'.there /\ comp'.finished /\ ~size' /\ UNCHANGED <<isDone, isError, chunks>>
  BY DEF W!Settled, W!None
<1>4. W!TypeOK'
  <2>1. WriterShape'
    BY ReadyIs DEF WriterInv, W!TypeOK, WriterShape, W!Settled, W!None
  <2>2. \A g \in W!Callbacks : flow'[g].at \notin AppOnly
    BY <1>2, FlowsAre DEF AppOnly
  <2> QED  BY <1>2, <2>1, <2>2 DEF W!TypeOK, WriterShape, FlowRecs, AppOnly
<1> USE <1>1, <1>2, <1>3, <1>4, FlowsAre DEF WriterInv, W!Resting, W!Running
<1>5. Jobs' /\ OneRuns'
  BY DEF Jobs, OneRuns
<1>6. Compressor'
  BY DEF Compressor
<1>7. NothingLeft'
  BY DEF NothingLeft, Compressor
<1>8. PendingReports'
  BY DEF PendingReports, WriteIsStuck, Flushed, NothingLeft, Compressor
<1>9. DoneWrites'
  BY DEF DoneWrites, PendingReports, WriteIsStuck, Flushed, Jobs
<1>10. DoneSends'
  BY DEF DoneSends, DoneWrites, NothingLeft, Flushed, W!Indices
<1> QED  BY <1>5, <1>6, <1>7, <1>8, <1>9, <1>10

\* A stream that has just been opened.
LEMMA WriterInit == ASSUME StreamAssumption, W!Init PROVE WriterInv
<1>1. flow = [f \in W!Flows |-> W!Ready] /\ W!Ready \in FlowRecs
  BY ReadyIs DEF W!Init
<1>2. /\ flow \in [W!Flows -> FlowRecs]
      /\ \A f \in W!Flows : flow[f].at = "ready" /\ flow[f].job = "none"
  BY <1>1 DEF W!Ready
<1>3. W!App \in W!Flows /\ W!Callbacks \subseteq W!Flows
  BY DEF W!Flows
<1>4. WriterShape
  <2>1. MaxWrites \in Nat
    BY DEF StreamAssumption
  <2>2. <<>> \in Seq([data : Seq(1..MaxWrites), status : {"active", "done", "error"}])
        /\ <<>> \in Seq({"held", "sent", "ok", "failed"}) /\ 0 \in 0..MaxWrites
    BY <2>1
  <2> QED  BY <2>1, <2>2, ReadyIs DEF W!Init, WriterShape, W!None
<1>7. W!TypeOK
  BY <1>2, <1>3, <1>4 DEF W!TypeOK, WriterShape, FlowRecs
<1>5. Jobs /\ OneRuns /\ PendingReports /\ DoneWrites
  BY <1>2, <1>3 DEF Jobs, OneRuns, PendingReports, DoneWrites, W!Init, W!Running
<1>6. Compressor /\ NothingLeft /\ DoneSends
  BY <1>2, <1>3 DEF Compressor, NothingLeft, DoneSends, W!Init, W!None, W!Indices
<1> QED  BY <1>5, <1>6, <1>7 DEF WriterInv

\* Every step of the writer keeps its invariant.
LEMMA WriterStep ==
    ASSUME StreamAssumption, WriterInv,
           \/ W!Application \/ W!Runs \/ W!Resumes
           \/ \E i \in W!Indices : W!PublishOk(i) \/ W!PublishFails(i)
    PROVE  WriterInv'
<1>1. CASE W!Application
  BY <1>1, WriteBeginsKeeps, ExpertFailsKeeps DEF W!Application
<1>2. CASE W!Runs
  BY <1>2, AddKeeps, WriteEndsKeeps, FlushKeeps, SendKeeps, ContinueKeeps, ErrorKeeps,
     ThrowKeeps DEF W!Runs
<1>3. CASE W!Resumes
  BY <1>3, DrainedKeeps, FinishedKeeps, RacedKeeps, SettledKeeps, TimerFiresKeeps DEF W!Resumes
<1> QED  BY <1>1, <1>2, <1>3, PublishOkKeeps, PublishFailsKeeps

\* Nothing of it is changed by the relays and the reader.
LEMMA WriterRests ==
    ASSUME WriterInv, UNCHANGED writerVars
    PROVE  WriterInv'
<1>1. UNCHANGED <<flow, comp, size, isDone, isError, chunks, tried, sent, timer, pub, crashed>>
  BY DEF writerVars
<1>2. WriterShape'
  BY <1>1 DEF WriterInv, W!TypeOK, WriterShape
<1> QED  BY <1>1, <1>2, SameKeeps

-----------------------------------------------------------------------------
(* The steps of the reader.                                                 *)

\* One chunk is decoded at a time, because it is the next one of the chain.
LEMMA OneIsDecoded ==
    ASSUME DecodesNext
    PROVE  R!Cardinality(busy) <= 1
<1>1. busy = {} \/ busy = {nextRef + 1}
  BY DEF DecodesNext
<1>2. Cardinality(busy) = 0 \/ Cardinality(busy) = 1
  BY <1>1, FS_EmptySet, FS_Singleton
<1>3. R!Cardinality(busy) = Cardinality(busy)
  BY DEF R!Cardinality, Cardinality
<1> QED  BY <1>2, <1>3

\* The shape of the reader's state, but for the chunks it decodes.
ReaderShape ==
    /\ open \in BOOLEAN /\ waiting \in BOOLEAN /\ done \in BOOLEAN
    /\ error \in {"none", "remote", "max_chunks", "decode", "ttl"}
    /\ count \in 0..MaxChunks
    /\ nextRef \in Nat
    /\ R!Failed \/ done => buffer = {} /\ ~open
    /\ end \in {"open", "done", "error", "left"}

\* The reader's invariant, in the parts its steps are shown to keep.
LEMMA ReaderIs ==
    ReaderInv <=> ReaderShape /\ DecodesNext /\ WaitsForNothing
BY OneIsDecoded DEF ReaderInv, ReaderShape, R!TypeOK

\* What is to be shown of a step.
LEMMA ReaderIsNext ==
    ASSUME ReaderShape', DecodesNext', WaitsForNothing'
    PROVE  ReaderInv'
<1>1. (R!Cardinality(busy) <= 1)'
  BY OneIsDecoded, PTL
<1> QED  BY <1>1 DEF ReaderInv, ReaderShape, R!TypeOK

\* An error drops the subscription and the buffer, and wakes the consumer.
LEMMA SetErrorKeeps ==
    ASSUME ReaderShape, NEW code \in {"remote", "max_chunks", "decode", "ttl"},
           R!SetError(code), count' \in 0..MaxChunks, nextRef' \in Nat, done' = done
    PROVE  ReaderShape' /\ WaitsForNothing'
BY DEF ReaderShape, R!SetError, R!Failed, WaitsForNothing

\* A chunk arrives.
LEMMA ReceiveKeeps ==
    ASSUME StreamAssumption, ReaderInv, NEW i, NEW status, R!Receive(i, status)
    PROVE  ReaderInv'
<1> USE ReaderIs
<1>1. CASE status = "error" \/ count >= MaxChunks
  <2>1. R!SetError(IF status = "error" THEN "remote" ELSE "max_chunks")
        /\ UNCHANGED <<count, busy, nextRef, done>>
    BY <1>1 DEF R!Receive
  <2>2. DecodesNext'
    BY <2>1 DEF DecodesNext
  <2> QED  BY <2>1, <2>2, SetErrorKeeps, ReaderIsNext DEF ReaderShape
<1>2. CASE ~(status = "error" \/ count >= MaxChunks)
  <2>1. /\ count' = count + 1 /\ R!TakeNext(buffer \cup {i}, busy, nextRef)
        /\ open /\ UNCHANGED <<open, error, waiting, end, nextRef, results, done>>
    BY <1>2 DEF R!Receive
  <2>2. count' \in 0..MaxChunks
    BY <1>2, <2>1 DEF ReaderShape, StreamAssumption
  <2>3. DecodesNext'
    BY <2>1 DEF DecodesNext, R!TakeNext
  <2>4. WaitsForNothing'
    BY <2>1 DEF WaitsForNothing, R!Failed
  <2>5. ReaderShape'
    BY <2>1, <2>2 DEF ReaderShape, R!Failed
  <2> QED  BY <2>3, <2>4, <2>5, ReaderIsNext
<1> QED  BY <1>1, <1>2

\* A chunk is decoded: whoever waits gets it, and the next one may be taken.
LEMMA DecodedKeeps ==
    ASSUME ReaderInv, NEW i, NEW data, NEW status, R!Decoded(i, data, status)
    PROVE  ReaderInv'
<1> USE ReaderIs
<1>1. i = nextRef + 1 /\ busy \ {i} = {} /\ nextRef' = i /\ i \in Nat
  BY DEF R!Decoded, R!NextRef, DecodesNext, ReaderShape
<1>2. ~waiting' /\ waiting' \in BOOLEAN
  BY DEF R!Decoded, R!HandOver, ReaderShape
<1>3. WaitsForNothing'
  BY <1>2 DEF WaitsForNothing
<1>4. CASE status = "done"
  <2>1. done' = TRUE /\ open' = FALSE /\ buffer' = {} /\ busy' = busy \ {i}
        /\ UNCHANGED <<count, error, end>>
    BY <1>4 DEF R!Decoded
  <2>2. DecodesNext'
    BY <1>1, <2>1 DEF DecodesNext
  <2>3. ReaderShape'
    BY <1>1, <1>2, <2>1 DEF ReaderShape
  <2> QED  BY <1>3, <2>2, <2>3, ReaderIsNext
<1>5. CASE status # "done"
  <2>1. R!TakeNext(buffer, busy \ {i}, i) /\ UNCHANGED <<done, open, count, error, end>>
    BY <1>5 DEF R!Decoded, R!NextRef
  <2>2. DecodesNext'
    BY <1>1, <2>1 DEF DecodesNext, R!TakeNext
  <2>3. ReaderShape'
    BY <1>1, <1>2, <2>1 DEF ReaderShape, R!TakeNext, R!Failed
  <2> QED  BY <1>3, <2>2, <2>3, ReaderIsNext
<1> QED  BY <1>4, <1>5

\* A chunk cannot be decoded.
LEMMA NotDecodedKeeps ==
    ASSUME ReaderInv, NEW i, R!NotDecoded(i)
    PROVE  ReaderInv'
<1> USE ReaderIs
<1>1. /\ nextRef' = nextRef + 1 /\ busy' = {}
      /\ R!SetError("decode") /\ UNCHANGED <<count, done>>
  BY DEF R!NotDecoded, R!NextRef, DecodesNext
<1>2. DecodesNext'
  BY <1>1 DEF DecodesNext
<1>3. nextRef' \in Nat
  BY <1>1 DEF ReaderShape
<1> QED  BY <1>1, <1>2, <1>3, SetErrorKeeps, ReaderIsNext DEF ReaderShape

\* The consumer's own steps, and the ttl.
LEMMA ConsumerKeeps ==
    ASSUME ReaderInv, R!NextResult \/ R!Leave \/ R!Expire
    PROVE  ReaderInv'
<1> USE ReaderIs
<1>1. DecodesNext'
  BY DEF R!NextResult, R!Leave, R!Expire, DecodesNext
<1>2. CASE R!NextResult
  <2>1. /\ ~waiting /\ UNCHANGED <<open, buffer, count, nextRef, error, done>>
        /\ end' \in {"open", "done", "error", "left"}
        /\ \/ waiting' = waiting
           \/ ~R!Failed /\ results' = <<>> /\ ~done /\ waiting' = TRUE
    BY <1>2 DEF R!NextResult, ReaderShape
  <2>2. ReaderShape'
    BY <2>1 DEF ReaderShape, R!Failed
  <2>3. WaitsForNothing'
    BY <2>1 DEF WaitsForNothing, R!Failed
  <2> QED  BY <1>1, <2>2, <2>3, ReaderIsNext
<1>3. CASE R!Leave
  <2>1. ReaderShape' /\ WaitsForNothing'
    BY <1>3 DEF R!Leave, ReaderShape, WaitsForNothing, R!Failed
  <2> QED  BY <1>1, <2>1, ReaderIsNext
<1>4. CASE R!Expire
  <2>1. R!SetError("ttl") /\ UNCHANGED <<count, nextRef, done>>
    BY <1>4 DEF R!Expire
  <2> QED  BY <1>1, <2>1, SetErrorKeeps, ReaderIsNext DEF ReaderShape
<1> QED  BY <1>2, <1>3, <1>4

\* Nothing of it is changed by the writer and the relays.
LEMMA ReaderRests ==
    ASSUME ReaderInv, UNCHANGED readerVars
    PROVE  ReaderInv'
<1>1. ReaderShape' /\ DecodesNext' /\ WaitsForNothing'
  BY ReaderIs DEF readerVars, ReaderShape, DecodesNext, WaitsForNothing, R!Failed
<1> QED  BY <1>1, ReaderIsNext

-----------------------------------------------------------------------------
(* The stream.                                                              *)

\* Both ends begin in their invariants.
LEMMA StreamInit == ASSUME StreamAssumption, Init PROVE IInv
<1>1. DecodesNext /\ WaitsForNothing
  BY DEF Init, R!Init, DecodesNext, WaitsForNothing
<1>2. ReaderShape
  <2>1. MaxChunks \in Nat
    BY DEF StreamAssumption
  <2>2. 0 \in 0..MaxChunks
    BY <2>1
  <2> QED  BY <2>2 DEF Init, R!Init, ReaderShape, R!Failed
<1> QED  BY <1>1, <1>2, WriterInit, ReaderIs DEF Init, IInv

\* A step is one of the writer, of the relays or of the reader.
LEMMA StreamStep == ASSUME StreamAssumption, IInv, [Next]_vars PROVE IInv'
<1> USE DEF IInv
<1>1. ASSUME UNCHANGED readerVars,
             \/ W!Application \/ W!Runs \/ W!Resumes
             \/ \E i \in W!Indices : W!PublishOk(i) \/ W!PublishFails(i)
      PROVE  IInv'
  BY <1>1, WriterStep, ReaderRests
<1>2. CASE \E i \in W!Indices : Relay(i) \/ Lose(i)
  BY <1>2, WriterRests, ReaderRests DEF Relay, Lose
<1>3. ASSUME NEW i \in W!Indices, Deliver(i)
      PROVE  IInv'
  BY <1>3, WriterRests, ReaderRests, ReceiveKeeps DEF Deliver
<1>4. ASSUME NEW i \in W!Indices, Decoded(i) \/ Reader(R!NotDecoded(i))
      PROVE  IInv'
  BY <1>4, WriterRests, DecodedKeeps, NotDecodedKeeps DEF Decoded, Reader
<1>5. CASE Reader(R!NextResult) \/ Reader(R!Leave) \/ Expire
  BY <1>5, WriterRests, ConsumerKeeps DEF Reader, Expire
<1>6. CASE UNCHANGED vars
  BY <1>6, WriterRests, ReaderRests DEF vars
<1> QED  BY <1>1, <1>2, <1>3, <1>4, <1>5, <1>6 DEF Next, Writer

\* The invariant of every reachable state, and what it says of the state's shape: the
\* writer's records are well formed and only the application ends, the reader decodes one
\* chunk at a time and keeps nothing of a stream that failed.
THEOREM StreamInvariant == Spec => []IInv
<1>1. Init => IInv
  BY StreamInit, StreamAssumption
<1>2. IInv /\ [Next]_vars => IInv'
  BY StreamStep, StreamAssumption
<1> QED  BY <1>1, <1>2, PTL DEF Spec

\* The state of both ends keeps its shape.
THEOREM TypeCorrect == Spec => []TypeOK
<1>1. IInv => TypeOK
  BY DEF IInv, WriterInv, ReaderInv, TypeOK
<1> QED  BY <1>1, StreamInvariant, PTL

\* Nothing follows the chunk that says done, however many flows flush and report errors:
\* currentChunkSize, isError and the state of the compressor keep them apart.
THEOREM DoneEndsTheStream == Spec => []DoneIsLast
<1>1. IInv => DoneIsLast
  BY DEF IInv, WriterInv, DoneSends, DoneIsLast
<1> QED  BY <1>1, StreamInvariant, PTL

\* A consumer waits only when there is nothing to hand over, so that processBuffer never
\* meets its "Bad iterator state".
THEOREM ConsumerIsWoken == Spec => []WaitsForNothing
<1>1. IInv => WaitsForNothing
  BY DEF IInv, ReaderInv
<1> QED  BY <1>1, StreamInvariant, PTL

-----------------------------------------------------------------------------
(* The data on its way: what the chunks carry is what was accepted.         *)

Parts == 1..MaxWrites
Words == Seq(Parts)

\* The data of the first n chunks.
DataOf(cs, n) == FlattenSeq([i \in 1..n |-> cs[i].data])

HasError == \E i \in W!Indices : chunks[i].status = "error"
HasDone == \E i \in W!Indices : chunks[i].status = "done"

\* A flow that took the compressor's content and has not made a chunk of it.
Takes(x) == x.at = "send" /\ x.job # "report"
Published == {"racing", "sent", "settling"}

\* Only such a flow has data; the chunk it is about to make, or made, says how it ends.
Carries(x) ==
    /\ ~Takes(x) => x.data = <<>>
    /\ Takes(x) => comp.parts = <<>>
    /\ x.job \in {"pending", "report"} => isError
    /\ x.at \in {"flush", "finishing"} => x.job # "report"
    /\ x.at \in Published =>
          /\ x.job = "report" => HasError
          /\ x.job = "write" /\ isDone => HasDone
    /\ x.at = "settling" => x.job = "report" \/ (x.job = "write" /\ isDone)

\* Until an error is reported, everything accepted is in a chunk, with the one flow that
\* makes a chunk, or in the compressor.
Accounted ==
    ~HasError =>
        /\ \A f \in W!Flows : Takes(flow[f]) => DataOf(chunks, Len(chunks)) \o flow[f].data = sent
        /\ (\A f \in W!Flows : ~Takes(flow[f]))
              => DataOf(chunks, Len(chunks)) \o comp.parts = sent

\* Later chunks may miss something, but those before the first error do not.
InOrder ==
    \A n \in 0..Len(chunks) :
        (\A i \in 1..n : chunks[i].status # "error")
            => \E rest \in Words : sent = DataOf(chunks, n) \o rest

Carried ==
    /\ \A f \in W!Flows : Carries(flow[f])
    /\ ~comp.there => comp.parts = <<>>
    /\ HasError => isError
    /\ HasDone => comp.parts = <<>>
    /\ Accounted
    /\ InOrder

-----------------------------------------------------------------------------
\* One chunk's data comes after the other's.
LEMMA DataOfNext ==
    ASSUME NEW S, NEW T, NEW cs \in Seq([data : Seq(S), status : T]), NEW n \in 0..Len(cs)
    PROVE  /\ DataOf(cs, n) \in Seq(S)
           /\ n = 0 => DataOf(cs, n) = <<>>
           /\ n # Len(cs) => DataOf(cs, n + 1) = DataOf(cs, n) \o cs[n + 1].data
<1> DEFINE d(k) == [i \in 1..k |-> cs[i].data]
<1>1. Len(cs) \in Nat /\ \A i \in 1..Len(cs) : cs[i].data \in Seq(S)
  <2>1. Len(cs) \in Nat /\ \A i \in 1..Len(cs) : cs[i] \in [data : Seq(S), status : T]
    BY LenProperties, ElementOfSeq
  <2> QED  BY <2>1
<1>2. ASSUME NEW k \in 0..Len(cs)
      PROVE  d(k) \in Seq(Seq(S)) /\ Len(d(k)) = k
  <2>1. \A i \in 1..k : cs[i].data \in Seq(S)
    BY <1>1
  <2>2. d(k) \in [1..k -> Seq(S)] /\ k \in Nat
    BY <1>1, <2>1
  <2> QED  BY <2>2, SeqDef, LenProperties
<1>3. d(n) \in Seq(Seq(S)) /\ Len(d(n)) = n /\ n \in Nat
  BY <1>1, <1>2
<1>4. FlattenSeq(d(n)) \in Seq(S)
  <2> HIDE DEF d
  <2> QED  BY <1>3, FlattenSeqType
<1>5. n = 0 => FlattenSeq(d(n)) = <<>>
  <2> HIDE DEF d
  <2> QED  BY <1>3, FlattenSeqIs, EmptySeq
<1>6. ASSUME n # Len(cs)
      PROVE  FlattenSeq(d(n + 1)) = FlattenSeq(d(n)) \o cs[n + 1].data
  <2>1. n + 1 \in 1..Len(cs) /\ n + 1 \in 0..Len(cs)
    BY <1>1, <1>6
  <2>2. PICK x \in Seq(S) : x = cs[n + 1].data
    BY <1>1, <2>1
  <2>3. d(n + 1) \in Seq(Seq(S)) /\ Len(d(n + 1)) = n + 1
    BY <1>2, <2>1
  <2>4. /\ Append(d(n), x) \in Seq(Seq(S))
        /\ Len(Append(d(n), x)) = n + 1
        /\ \A i \in 1..n : Append(d(n), x)[i] = d(n)[i]
        /\ Append(d(n), x)[n + 1] = x
    <3> HIDE DEF d
    <3> QED  BY <1>3, <2>2, AppendProperties
  <2>5. \A i \in 1..(n + 1) : d(n + 1)[i] = Append(d(n), x)[i]
    <3> TAKE i \in 1..(n + 1)
    <3>1. i \in 1..n \/ i = n + 1
      BY <1>3
    <3>2. d(n + 1)[i] = cs[i].data /\ \A j \in 1..n : d(n)[j] = cs[j].data
      OBVIOUS
    <3> HIDE DEF d
    <3> QED  BY <2>2, <2>4, <3>1, <3>2
  <2>6. d(n + 1) = Append(d(n), x)
    <3> HIDE DEF d
    <3> QED  BY <2>3, <2>4, <2>5, SeqEqual
  <2> HIDE DEF d
  <2> QED  BY <1>3, <1>4, <2>2, <2>6, FlattenSeqAppend
<1> QED  BY <1>4, <1>5, <1>6 DEF DataOf

\* It depends on those chunks alone.
LEMMA DataOfSame ==
    ASSUME NEW cs, NEW ds, NEW n, \A i \in 1..n : cs[i] = ds[i]
    PROVE  DataOf(cs, n) = DataOf(ds, n)
<1>1. [i \in 1..n |-> cs[i].data] = [i \in 1..n |-> ds[i].data]
  OBVIOUS
<1> QED  BY <1>1 DEF DataOf

\* A chunk.
ChunkRecs == [data : Words, status : {"active", "done", "error"}]

\* The same of chunks.
LEMMA ChunksNext ==
    ASSUME NEW cs \in Seq(ChunkRecs), NEW n \in 0..Len(cs)
    PROVE  /\ DataOf(cs, n) \in Words
           /\ n = 0 => DataOf(cs, n) = <<>>
           /\ n # Len(cs) => DataOf(cs, n + 1) = DataOf(cs, n) \o cs[n + 1].data
<1> DEFINE T == {"active", "done", "error"}
<1>1. cs \in Seq([data : Seq(Parts), status : T])
  BY DEF ChunkRecs, Words
<1> HIDE DEF T
<1>2. /\ DataOf(cs, n) \in Seq(Parts)
      /\ n = 0 => DataOf(cs, n) = <<>>
      /\ n # Len(cs) => DataOf(cs, n + 1) = DataOf(cs, n) \o cs[n + 1].data
  BY ZenonT(60), <1>1, DataOfNext
<1> QED  BY <1>2 DEF Words

\* The types of what is carried.
LEMMA CarriedTypes ==
    ASSUME StreamAssumption, WriterInv
    PROVE  /\ chunks \in Seq(ChunkRecs) /\ Len(chunks) \in Nat
           /\ \A i \in 1..Len(chunks) : chunks[i] \in ChunkRecs
           /\ sent \in Words /\ comp.parts \in Words /\ <<>> \in Words
           /\ \A f \in W!Flows : flow[f].data \in Words
           /\ W!Indices = 1..Len(chunks)
           /\ \A n \in 0..Len(chunks) : DataOf(chunks, n) \in Words
<1>1. chunks \in Seq(ChunkRecs) /\ sent \in Words
  BY DEF WriterInv, W!TypeOK, ChunkRecs, Words, Parts
<1>2. comp.parts \in Words /\ <<>> \in Words /\ \A f \in W!Flows : flow[f].data \in Words
  BY CompressorIs, FlowsAre, ReadyIs DEF Words, Parts, FlowRecs
<1>3. Len(chunks) \in Nat /\ \A i \in 1..Len(chunks) : chunks[i] \in ChunkRecs
  BY <1>1, LenProperties, ElementOfSeq
<1>4. \A n \in 0..Len(chunks) : DataOf(chunks, n) \in Words
  BY <1>1, ChunksNext
<1> QED  BY <1>1, <1>2, <1>3, <1>4 DEF W!Indices

-----------------------------------------------------------------------------
(* A step that makes no chunk and compresses nothing.                       *)

\* Flow f goes on, and neither takes the compressor's content nor makes a chunk of it.
LEMMA QuietCarries ==
    ASSUME StreamAssumption, WriterInv, Carried, NEW f \in W!Flows, NEW x \in FlowRecs,
           flow' = [flow EXCEPT ![f] = x],
           flow[f].at # "send", ~Takes(x), x.data = <<>>,
           x.job \in {"pending", "report"} => isError',
           x.at \in Published =>
              /\ x.job = "report" => HasError
              /\ x.job = "write" /\ isDone' => HasDone,
           x.at = "settling" => x.job = "report" \/ (x.job = "write" /\ isDone'),
           x.at \in {"flush", "finishing"} => x.job # "report",
           UNCHANGED <<sent, chunks>>,
           comp'.parts = comp.parts, ~comp'.there => ~comp.there,
           isError => isError', isDone' = isDone \/ f = W!App
    PROVE  Carried'
<1>1. /\ flow'[f] = x
      /\ \A g \in W!Flows \ {f} : flow'[g] = flow[g]
      /\ ~Takes(flow[f])
  BY FlowsAre DEF Takes
<1>2. HasError' = HasError /\ HasDone' = HasDone
  BY DEF HasError, HasDone, W!Indices
<1>3. ASSUME NEW g \in W!Flows PROVE Carries(flow[g])'
  <2>1. CASE g = f
    BY <1>1, <1>2, <2>1 DEF Carries, Takes
  <2>2. CASE g # f
    <3>1. flow'[g] = flow[g] /\ Carries(flow[g])
      BY <1>1, <2>2 DEF Carried
    <3>2. isDone' = isDone \/ flow[g].job # "write"
      BY <2>2, FlowsAre DEF WriterInv, Jobs
    <3> QED  BY <1>2, <3>1, <3>2 DEF Carries, Takes, Published
  <2> QED  BY <2>1, <2>2
<1>4. Accounted'
  <2>1. \A g \in W!Flows : Takes(flow'[g]) <=> Takes(flow[g])
    BY <1>1
  <2>2. \A g \in W!Flows : Takes(flow[g]) => flow'[g] = flow[g]
    BY <1>1
  <2> QED  BY <1>2, <2>1, <2>2 DEF Accounted, Carried
<1>5. InOrder'
  BY DEF Carried, InOrder
<1> QED  BY <1>2, <1>3, <1>4, <1>5 DEF Carried

\* Nothing of it changes.
LEMMA SameCarries ==
    ASSUME Carried, UNCHANGED <<sent, chunks, comp, flow, isError, isDone>>
    PROVE  Carried'
<1>1. HasError' = HasError /\ HasDone' = HasDone
  BY DEF HasError, HasDone, W!Indices
<1>2. Accounted' /\ InOrder'
  BY <1>1 DEF Carried, Accounted, InOrder
<1>3. \A f \in W!Flows : Carries(flow[f])'
  BY <1>1 DEF Carried, Carries
<1> QED  BY <1>1, <1>2, <1>3 DEF Carried

\* The flow goes to another place.
LEMMA GotoCarries ==
    ASSUME StreamAssumption, WriterInv, Carried, NEW f \in W!Flows,
           NEW at \in W!Resting \cup W!Running, W!Goto(f, at),
           flow[f].at # "send", at \notin Published \cup {"send", "flush"},
           at = "finishing" => flow[f].at = "flush",
           UNCHANGED <<sent, chunks>>,
           comp'.parts = comp.parts, ~comp'.there => ~comp.there,
           isError => isError', isDone' = isDone \/ f = W!App
    PROVE  Carried'
<1> DEFINE x == [flow[f] EXCEPT !.at = at]
<1>1. flow[f] \in FlowRecs
  BY FlowsAre
<1>2. x \in FlowRecs /\ x.at = at /\ x.job = flow[f].job /\ x.data = flow[f].data
  BY <1>1 DEF FlowRecs
<1>3. flow' = [flow EXCEPT ![f] = x]
  BY DEF W!Goto
<1>4. Carries(flow[f])
  BY DEF Carried
<1> HIDE DEF x
<1>5. /\ ~Takes(x) /\ x.data = <<>> /\ x.at \notin Published /\ x.at # "settling"
      /\ x.job \in {"pending", "report"} => isError'
      /\ x.at \in {"flush", "finishing"} => x.job # "report"
  BY <1>2, <1>4 DEF Carries, Takes, Published
<1> QED  BY <1>2, <1>3, <1>5, QuietCarries

\* The flow ends, or goes on with an empty record, for another job.
LEMMA FreshCarries ==
    ASSUME StreamAssumption, WriterInv, Carried, NEW f \in W!Flows,
           NEW at \in W!Resting \cup W!Running, NEW job \in Jobset,
           flow' = [flow EXCEPT ![f] = [W!Ready EXCEPT !.at = at, !.job = job]],
           flow[f].at # "send", at \notin Published,
           at = "send" => job = "report", at \in {"flush", "finishing"} => job # "report",
           job \in {"pending", "report"} => isError',
           UNCHANGED <<sent, chunks>>,
           comp'.parts = comp.parts, ~comp'.there => ~comp.there,
           isError => isError', isDone' = isDone \/ f = W!App
    PROVE  Carried'
<1> DEFINE x == [W!Ready EXCEPT !.at = at, !.job = job]
<1>1. x \in FlowRecs /\ x.at = at /\ x.job = job /\ x.data = <<>>
  BY ReadyIs DEF W!Ready, FlowRecs, Jobset
<1> HIDE DEF x
<1>2. ~Takes(x) /\ x.at \notin Published /\ x.at # "settling"
  BY <1>1 DEF Takes, Published
<1>3. flow' = [flow EXCEPT ![f] = x]
  BY DEF x
<1> QED  BY <1>1, <1>2, <1>3, QuietCarries

\* The flow is over.
LEMMA OverCarries ==
    ASSUME StreamAssumption, WriterInv, Carried, NEW f \in W!Flows, NEW at \in {"ready", "ended"},
           flow' = [flow EXCEPT ![f] = [W!Ready EXCEPT !.at = at]],
           flow[f].at # "send",
           UNCHANGED <<sent, chunks>>,
           comp'.parts = comp.parts, ~comp'.there => ~comp.there,
           isError => isError', isDone' = isDone \/ f = W!App
    PROVE  Carried'
<1> DEFINE x == [W!Ready EXCEPT !.at = at]
<1>1. x \in FlowRecs /\ x.at = at /\ x.job = "none" /\ x.data = <<>>
  BY ReadyIs DEF W!Ready, FlowRecs, W!Resting
<1> HIDE DEF x
<1>2. ~Takes(x) /\ x.at \notin Published /\ x.at \notin {"settling", "flush", "finishing"}
  BY <1>1 DEF Takes, Published
<1>3. flow' = [flow EXCEPT ![f] = x]
  BY DEF x
<1> QED  BY <1>1, <1>2, <1>3, QuietCarries

\* A record that is over at "ready" is the first one.
LEMMA ReadyAgain == W!Ready = [W!Ready EXCEPT !.at = "ready"]
BY DEF W!Ready

\* The flow goes on with another job.
LEMMA JobCarries ==
    ASSUME StreamAssumption, WriterInv, Carried, NEW f \in W!Flows,
           NEW at \in W!Resting \cup W!Running, NEW job \in Jobset,
           flow' = [flow EXCEPT ![f].at = at, ![f].job = job],
           flow[f].at # "send", at \notin Published,
           at = "send" => job = "report", at \in {"flush", "finishing"} => job # "report",
           job \in {"pending", "report"} => isError',
           UNCHANGED <<sent, chunks>>,
           comp'.parts = comp.parts, ~comp'.there => ~comp.there,
           isError => isError', isDone' = isDone \/ f = W!App
    PROVE  Carried'
<1> DEFINE x == [flow[f] EXCEPT !.at = at, !.job = job]
<1>1. flow[f] \in FlowRecs
  BY FlowsAre
<1>2. x \in FlowRecs /\ x.at = at /\ x.job = job /\ x.data = flow[f].data
  BY <1>1 DEF FlowRecs, Jobset
<1>3. flow' = [flow EXCEPT ![f] = x]
  OBVIOUS
<1>4. Carries(flow[f])
  BY DEF Carried
<1> HIDE DEF x
<1>5. ~Takes(x) /\ x.data = <<>> /\ x.at \notin Published /\ x.at # "settling"
  BY <1>2, <1>4 DEF Carries, Takes, Published
<1> QED  BY <1>2, <1>3, <1>5, QuietCarries

-----------------------------------------------------------------------------
(* The writer's steps.                                                      *)

\* A write begins: the compressor is there, with what it held.
LEMMA WriteBeginsCarries ==
    ASSUME StreamAssumption, WriterInv, Carried, NEW part \in 0..MaxWrites, NEW last \in BOOLEAN,
           W!WriteBegins(part, last)
    PROVE  Carried'
<1>1. /\ flow[W!App].at = "ready" /\ W!App \in W!Flows
      /\ UNCHANGED <<sent, isDone, isError, chunks>>
  BY FlowsAre DEF W!WriteBegins
<1>2. CASE isError
  <2>1. W!Goto(W!App, "error") /\ UNCHANGED comp
    BY <1>2 DEF W!WriteBegins
  <2>2. "error" \in W!Resting \cup W!Running /\ "error" \notin Published \cup {"send", "flush", "finishing"}
    BY DEF W!Running, Published
  <2> QED  BY <1>1, <2>1, <2>2, GotoCarries
<1>3. CASE ~isError
  <2> DEFINE at == IF part = 0 THEN "tail" ELSE "add"
             x == [flow[W!App] EXCEPT !.at = at, !.part = part, !.last = last]
  <2>1. flow[W!App] \in FlowRecs /\ at \in {"tail", "add"}
    BY FlowsAre
  <2>2. /\ x \in FlowRecs
        /\ x.at = at /\ x.job = flow[W!App].job /\ x.data = flow[W!App].data
    BY <2>1 DEF FlowRecs, W!Running
  <2>3. flow' = [flow EXCEPT ![W!App] = x]
    BY <1>3 DEF W!WriteBegins
  <2>4. comp'.parts = comp.parts /\ comp'.there
    <3>1. comp' = IF comp.there THEN comp ELSE W!NewComp
      BY <1>3 DEF W!WriteBegins, W!EnsureCompressor
    <3> QED  BY <3>1 DEF W!NewComp, Carried
  <2>5. Carries(flow[W!App])
    BY <1>1 DEF Carried
  <2> HIDE DEF x
  <2>6. /\ ~Takes(x) /\ x.data = <<>> /\ x.at \notin Published /\ x.at # "settling"
        /\ x.job \in {"pending", "report"} => isError
    BY <1>1, <2>1, <2>2, <2>5 DEF Carries, Takes, Published
  <2> QED  BY <1>1, <2>2, <2>3, <2>4, <2>6, QuietCarries
<1> QED  BY <1>2, <1>3

\* A part comes after the words that were accepted before.
LEMMA AppendWord ==
    ASSUME NEW v \in Words, NEW w \in Words, NEW p \in Parts
    PROVE  Append(v \o w, p) = v \o Append(w, p) /\ Append(w, p) \in Words
<1>1. v \in Seq(Parts) /\ w \in Seq(Parts)
  BY DEF Words
<1>2. Append(v \o w, p) = v \o Append(w, p)
  <2>1. <<p>> \in Seq(Parts) /\ v \o w \in Seq(Parts)
    BY <1>1, ConcatProperties
  <2>2. Append(v \o w, p) = (v \o w) \o <<p>> /\ Append(w, p) = w \o <<p>>
    BY <1>1, <2>1, AppendIsConcat
  <2>3. (v \o w) \o <<p>> = v \o (w \o <<p>>)
    BY <1>1, <2>1, ConcatAssociative
  <2> QED  BY <2>2, <2>3
<1>3. Append(w, p) \in Seq(Parts)
  BY <1>1, AppendProperties, Zenon
<1> QED  BY <1>2, <1>3 DEF Words

\* The compressor takes a piece of data.
LEMMA AcceptedCarries ==
    ASSUME StreamAssumption, WriterInv, Carried, W!Add, W!Accepted
    PROVE  Carried'
<1> DEFINE p == flow[W!App].part
           D == DataOf(chunks, Len(chunks))
<1>1. /\ flow[W!App].at = "add" /\ W!App \in W!Flows
      /\ \A g \in W!Flows \ {W!App} : flow[g].at \in W!Resting
      /\ p \in Parts
  BY FlowsAre, OthersRest DEF W!Add, W!At, W!Running, FlowRecs, StreamAssumption, Parts
<1>2. UNCHANGED <<isDone, isError, chunks>> /\ sent' = Append(sent, p)
  BY DEF W!Add, W!Accepted
<1>3. comp'.there /\ comp'.parts = Append(comp.parts, p)
  <2> DEFINE c == W!EnsureCompressor
  <2>1. c.parts = comp.parts /\ c \in Compressors /\ c.there
    BY CompressorIs, ReadyIs DEF W!EnsureCompressor, W!NewComp, Carried, Compressors
  <2>2. comp' = [c EXCEPT !.parts = Append(c.parts, p)]
    BY DEF W!Accepted
  <2> HIDE DEF c, p
  <2> QED  BY <2>1, <2>2 DEF Compressors
<1>4. PICK at \in {"tail", "draining"} : flow' = [flow EXCEPT ![W!App].at = at]
  BY DEF W!Accepted, W!Goto
<1>5. /\ flow'[W!App].at = at /\ flow'[W!App].job = flow[W!App].job
      /\ flow'[W!App].data = flow[W!App].data
      /\ \A g \in W!Flows \ {W!App} : flow'[g] = flow[g]
  BY <1>1, <1>4, FlowsAre DEF FlowRecs
<1>6. HasError' = HasError /\ HasDone' = HasDone
  BY <1>2 DEF HasError, HasDone, W!Indices
<1>7. ~HasDone
  BY <1>1 DEF HasDone, WriterInv, DoneSends, DoneWrites, Flushed
<1>8. \A g \in W!Flows : ~Takes(flow[g]) /\ ~Takes(flow'[g])
  BY <1>1, <1>5 DEF Takes, W!Resting
<1>9. \A g \in W!Flows : Carries(flow[g])'
  <2> TAKE g \in W!Flows
  <2>1. Carries(flow[g]) /\ ~Takes(flow[g]) /\ ~Takes(flow[g])'
    BY <1>8 DEF Carried, Takes
  <2>2. CASE g = W!App
    BY <1>2, <1>4, <1>5, <1>6, <2>1, <2>2 DEF Carries, Published
  <2>3. CASE g # W!App
    BY <1>2, <1>5, <1>6, <2>1, <2>3 DEF Carries
  <2> QED  BY <2>2, <2>3
<1>10. Accounted'
  <2> SUFFICES ASSUME ~HasError PROVE D \o comp'.parts = sent'
    BY <1>2, <1>6, <1>8 DEF Accounted, Takes
  <2>1. D \o comp.parts = sent
    BY <1>8 DEF Carried, Accounted
  <2>2. D \in Words /\ comp.parts \in Words /\ sent \in Words
    BY CarriedTypes
  <2> HIDE DEF D, p
  <2>3. Append(D \o comp.parts, p) = D \o Append(comp.parts, p)
    BY <1>1, <2>2, AppendWord
  <2> QED  BY <1>2, <1>3, <2>1, <2>3
<1>11. InOrder'
  <2> SUFFICES ASSUME NEW n \in 0..Len(chunks), \A i \in 1..n : chunks[i].status # "error"
               PROVE  \E rest \in Words : sent' = DataOf(chunks, n) \o rest
    BY <1>2 DEF InOrder
  <2>1. PICK rest \in Words : sent = DataOf(chunks, n) \o rest
    BY DEF Carried, InOrder
  <2>2. DataOf(chunks, n) \in Words
    BY CarriedTypes
  <2>3. Append(rest, p) \in Words
    BY <1>1, AppendWord
  <2> HIDE DEF p
  <2>4. sent' = DataOf(chunks, n) \o Append(rest, p)
    BY <1>1, <1>2, <2>1, <2>2, AppendWord
  <2> QED  BY <2>3, <2>4
<1> QED  BY <1>2, <1>3, <1>6, <1>7, <1>9, <1>10, <1>11 DEF Carried

\* A piece of data is refused, waits for a flush, or is compressed.
LEMMA AddCarries ==
    ASSUME StreamAssumption, WriterInv, Carried, W!Add
    PROVE  Carried'
<1>1. flow[W!App].at = "add" /\ W!App \in W!Flows /\ UNCHANGED <<isDone, isError, chunks>>
  BY FlowsAre DEF W!Add, W!At
<1>2. CASE W!Refused
  <2>1. W!Goto(W!App, "throw") /\ UNCHANGED <<sent, comp>>
    BY <1>2 DEF W!Refused
  <2>2. "throw" \in W!Resting \cup W!Running /\ "throw" \notin Published \cup {"send", "flush", "finishing"}
    BY DEF W!Running, Published
  <2> QED  BY <1>1, <2>1, <2>2, GotoCarries
<1>3. CASE W!Exceeded
  <2>1. /\ flow' = [flow EXCEPT ![W!App].at = "flush", ![W!App].job = "retry"]
        /\ UNCHANGED <<sent, comp>>
    BY <1>3 DEF W!Exceeded
  <2>2. "flush" \in W!Resting \cup W!Running /\ "flush" \notin Published /\ "retry" \in Jobset
    BY DEF W!Running, Published, Jobset
  <2> QED  BY <1>1, <2>1, <2>2, JobCarries
<1>4. CASE W!Accepted
  BY <1>4, AcceptedCarries
<1> QED  BY <1>2, <1>3, <1>4 DEF W!Add

\* The compressor drains.
LEMMA DrainedCarries ==
    ASSUME StreamAssumption, WriterInv, Carried, W!Drained
    PROVE  Carried'
<1>1. /\ flow[W!App].at = "draining" /\ W!App \in W!Flows /\ W!Goto(W!App, "tail")
      /\ UNCHANGED <<sent, chunks, comp, isDone, isError>>
  BY FlowsAre DEF W!Drained, W!At
<1>2. "tail" \in W!Resting \cup W!Running /\ "tail" \notin Published \cup {"send", "flush", "finishing"}
  BY DEF W!Running, Published
<1> QED  BY <1>1, <1>2, GotoCarries

\* A write ends.
LEMMA WriteEndsCarries ==
    ASSUME StreamAssumption, WriterInv, Carried, W!WriteEnds
    PROVE  Carried'
<1>1. /\ flow[W!App].at = "tail" /\ W!App \in W!Flows
      /\ UNCHANGED <<sent, chunks, comp, isError>>
  BY FlowsAre DEF W!WriteEnds, W!At
<1>2. CASE flow' = [flow EXCEPT ![W!App].at = "flush", ![W!App].job = "write"]
  <2>1. "flush" \in W!Resting \cup W!Running /\ "flush" \notin Published /\ "write" \in Jobset
    BY DEF W!Running, Published, Jobset
  <2> QED  BY <1>1, <1>2, <2>1, JobCarries
<1>3. CASE flow' = [flow EXCEPT ![W!App] = W!Ready]
  <2>1. flow' = [flow EXCEPT ![W!App] = [W!Ready EXCEPT !.at = "ready"]]
    BY <1>3, ReadyAgain
  <2> QED  BY <1>1, <2>1, OverCarries
<1> QED  BY <1>2, <1>3 DEF W!WriteEnds

\* A flush calls finish().
LEMMA FlushCarries ==
    ASSUME StreamAssumption, WriterInv, Carried, NEW f \in W!Flows, W!Flush(f)
    PROVE  Carried'
<1>1. /\ flow[f].at = "flush" /\ UNCHANGED <<sent, chunks, isDone>>
      /\ isError => isError'
  BY DEF W!Flush, W!At
<1>2. comp'.parts = comp.parts /\ comp'.there = comp.there
  BY CompressorIs DEF W!Flush
<1>3. PICK at \in {"throw", "finishing"} : W!Goto(f, at)
  BY DEF W!Flush
<1>4. at \in W!Resting \cup W!Running /\ at \notin Published \cup {"send", "flush"}
  BY DEF W!Resting, W!Running, Published
<1> QED  BY <1>1, <1>2, <1>3, <1>4, GotoCarries

\* The flow takes everything that is left.
LEMMA FinishedCarries ==
    ASSUME StreamAssumption, WriterInv, Carried, NEW f \in W!Flows, W!Finished(f)
    PROVE  Carried'
<1> DEFINE D == DataOf(chunks, Len(chunks))
           x == [flow[f] EXCEPT !.at = "send", !.data = comp.parts]
<1>1. /\ flow[f].at = "finishing"
      /\ \A g \in W!Flows : flow[g].at \in W!Resting
      /\ UNCHANGED <<sent, isDone, isError, chunks>>
      /\ flow' = [flow EXCEPT ![f] = x]
  BY DEF W!Finished, W!At, W!Idle
<1>2. comp'.parts = <<>>
  BY DEF W!Finished, W!AfterFinish, W!None
<1>3. x.at = "send" /\ x.job = flow[f].job /\ x.data = comp.parts /\ flow[f] \in FlowRecs
  BY FlowsAre DEF FlowRecs
<1> HIDE DEF x
<1>4. flow'[f] = x /\ \A g \in W!Flows \ {f} : flow'[g] = flow[g]
  BY <1>1, FlowsAre
<1>5. HasError' = HasError /\ HasDone' = HasDone
  BY <1>1 DEF HasError, HasDone, W!Indices
<1>6. \A g \in W!Flows : ~Takes(flow[g])
  BY <1>1 DEF Takes, W!Resting
<1>7. Takes(x)
  <2>1. flow[f].job # "report"
    BY <1>1 DEF Carried, Carries
  <2> QED  BY <1>3, <2>1 DEF Takes
<1>8. \A g \in W!Flows : Carries(flow[g])'
  <2> TAKE g \in W!Flows
  <2>1. Carries(flow[g]) /\ Carries(flow[f])
    BY DEF Carried
  <2>2. CASE g = f
    BY <1>1, <1>2, <1>3, <1>4, <1>5, <1>7, <2>1, <2>2 DEF Carries, Published, Takes
  <2>3. CASE g # f
    BY <1>1, <1>2, <1>4, <1>5, <2>1, <2>3 DEF Carries, Takes
  <2> QED  BY <2>2, <2>3
<1>9. Accounted'
  <2> SUFFICES ASSUME ~HasError PROVE D \o x.data = sent
    BY <1>1, <1>4, <1>5, <1>6, <1>7 DEF Accounted, Takes
  <2> QED  BY <1>3, <1>6 DEF Carried, Accounted
<1>10. InOrder'
  BY <1>1 DEF Carried, InOrder
<1> QED  BY <1>1, <1>2, <1>5, <1>8, <1>9, <1>10 DEF Carried

\* A publish that the chunk waited for is settled.
LEMMA RacedCarries ==
    ASSUME StreamAssumption, WriterInv, Carried, NEW f \in W!Flows, W!Raced(f)
    PROVE  Carried'
<1> DEFINE x == [flow[f] EXCEPT !.at = "sent", !.chunk = 0, !.wait = {}]
<1>1. /\ flow[f].at = "racing" /\ flow[f] \in FlowRecs /\ Carries(flow[f])
      /\ UNCHANGED <<sent, isDone, isError, comp, chunks>>
      /\ flow' = [flow EXCEPT ![f] = x]
  BY FlowsAre DEF W!Raced, W!At, Carried
<1>2. x \in FlowRecs /\ x.at = "sent" /\ x.job = flow[f].job /\ x.data = flow[f].data
  BY <1>1 DEF FlowRecs, W!Running
<1> HIDE DEF x
<1>3. /\ ~Takes(x) /\ x.data = <<>> /\ x.at # "settling"
      /\ x.job \in {"pending", "report"} => isError
      /\ x.job = "report" => HasError
      /\ x.job = "write" /\ isDone => HasDone
  BY <1>1, <1>2 DEF Carries, Takes, Published
<1> QED  BY <1>1, <1>2, <1>3, QuietCarries

\* The flow waits for the publishes under way, after its chunk said how it ends.
LEMMA SettleCarries ==
    ASSUME StreamAssumption, WriterInv, Carried, NEW f \in W!Flows, W!Settle(f),
           flow[f].at = "sent", flow[f].job = "report" \/ (flow[f].job = "write" /\ isDone),
           UNCHANGED <<sent, isDone, isError, comp, chunks>>
    PROVE  Carried'
<1> DEFINE x == [flow[f] EXCEPT !.at = "settling", !.wait = W!Pending]
<1>1. flow[f] \in FlowRecs /\ Carries(flow[f]) /\ flow' = [flow EXCEPT ![f] = x]
  BY FlowsAre DEF W!Settle, Carried
<1>2. x \in FlowRecs /\ x.at = "settling" /\ x.job = flow[f].job /\ x.data = flow[f].data
  <2>1. W!Pending \subseteq Nat
    BY CarriedTypes DEF W!Pending
  <2> QED  BY <1>1, <2>1 DEF FlowRecs, W!Resting
<1> HIDE DEF x
<1>3. /\ ~Takes(x) /\ x.data = <<>>
      /\ x.job \in {"pending", "report"} => isError
      /\ x.job = "report" => HasError
      /\ x.job = "write" /\ isDone => HasDone
      /\ x.job = "report" \/ (x.job = "write" /\ isDone)
  BY <1>1, <1>2 DEF Carries, Takes, Published
<1> QED  BY <1>1, <1>2, <1>3, QuietCarries

\* A publish is under way, and the flow goes on.
LEMMA ContinueCarries ==
    ASSUME StreamAssumption, WriterInv, Carried, NEW f \in W!Flows, W!Continue(f)
    PROVE  Carried'
<1>1. /\ flow[f].at = "sent" /\ Carries(flow[f])
      /\ UNCHANGED <<sent, isDone, isError, comp, chunks>>
  BY DEF W!Continue, W!At, Carried
<1>2. CASE W!Goto(f, "add")
  <2>1. "add" \in W!Resting \cup W!Running /\ "add" \notin Published \cup {"send", "flush", "finishing"}
    BY DEF W!Running, Published
  <2> QED  BY <1>1, <1>2, <2>1, GotoCarries
<1>3. CASE W!Settle(f) /\ (flow[f].job = "report" \/ (flow[f].job = "write" /\ isDone))
  BY <1>1, <1>3, SettleCarries
<1>4. CASE flow' = [flow EXCEPT ![f] = W!Ready]
  <2>1. flow' = [flow EXCEPT ![f] = [W!Ready EXCEPT !.at = "ready"]]
    BY <1>4, ReadyAgain
  <2> QED  BY <1>1, <2>1, OverCarries
<1>5. CASE /\ flow[f].job = "pending"
           /\ flow' = [flow EXCEPT ![f].at = "send", ![f].job = "report"]
  <2>1. "send" \in W!Resting \cup W!Running /\ "send" \notin Published /\ "report" \in Jobset
    BY DEF W!Running, Published, Jobset
  <2>2. isError
    BY <1>1, <1>5 DEF Carries
  <2> QED  BY <1>1, <1>5, <2>1, <2>2, JobCarries
<1> QED  BY <1>2, <1>3, <1>4, <1>5 DEF W!Continue

\* Who rejects ends, or ends the process.
LEMMA RejectsCarries ==
    ASSUME StreamAssumption, WriterInv, Carried, NEW f \in W!Flows, W!Rejects(f),
           flow[f].at # "send",
           UNCHANGED <<sent, isDone, isError, comp, chunks>>
    PROVE  Carried'
<1>1. CASE f = W!App
  <2>1. flow' = [flow EXCEPT ![f] = [W!Ready EXCEPT !.at = "ended"]]
    BY <1>1 DEF W!Rejects
  <2> QED  BY <2>1, OverCarries
<1>2. CASE f # W!App
  BY <1>2, SameCarries DEF W!Rejects
<1> QED  BY <1>1, <1>2

\* error(), which first flushes what the compressor holds.
LEMMA ErrorCarries ==
    ASSUME StreamAssumption, WriterInv, Carried, NEW f \in W!Flows, W!Error(f)
    PROVE  Carried'
<1>1. flow[f].at = "error" /\ UNCHANGED <<sent, isDone, comp, chunks>>
  BY DEF W!Error, W!At
<1>2. CASE W!Rejects(f) /\ UNCHANGED isError
  BY <1>1, <1>2, RejectsCarries
<1>3. CASE /\ isError' = TRUE
           /\ flow' = [flow EXCEPT ![f] = [W!Ready EXCEPT !.at = IF size THEN "flush" ELSE "send",
                                                          !.job = IF size THEN "pending"
                                                                          ELSE "report"]]
  <2> DEFINE at == IF size THEN "flush" ELSE "send"
             job == IF size THEN "pending" ELSE "report"
  <2>1. /\ at \in W!Resting \cup W!Running /\ at \notin Published /\ job \in Jobset
        /\ at = "send" => job = "report"
        /\ at \in {"flush", "finishing"} => job # "report"
    BY DEF W!Running, Published, Jobset
  <2>2. flow' = [flow EXCEPT ![f] = [W!Ready EXCEPT !.at = at, !.job = job]]
    BY <1>3
  <2> HIDE DEF at, job
  <2> QED  BY <1>1, <1>3, <2>1, <2>2, FreshCarries
<1> QED  BY <1>2, <1>3 DEF W!Error

\* An exception of a flush or of a write.
LEMMA ThrowCarries ==
    ASSUME StreamAssumption, WriterInv, Carried, NEW f \in W!Flows, W!Throw(f)
    PROVE  Carried'
<1>1. flow[f].at = "throw" /\ UNCHANGED <<sent, isDone, isError, comp, chunks>>
  BY DEF W!Throw, W!At
<1>2. CASE flow[f].job = "pending"
  BY <1>1, <1>2, RejectsCarries DEF W!Throw
<1>3. CASE flow[f].job # "pending" /\ f = W!App
  <2>1. W!Goto(f, "error")
    BY <1>3 DEF W!Throw, W!Goto
  <2>2. "error" \in W!Resting \cup W!Running /\ "error" \notin Published \cup {"send", "flush", "finishing"}
    BY DEF W!Running, Published
  <2> QED  BY <1>1, <2>1, <2>2, GotoCarries
<1>4. CASE flow[f].job # "pending" /\ f # W!App
  <2>1. flow' = [flow EXCEPT ![f] = W!Ready]
    BY <1>4 DEF W!Throw
  <2>2. flow' = [flow EXCEPT ![f] = [W!Ready EXCEPT !.at = "ready"]]
    BY <2>1, ReadyAgain
  <2> QED  BY <1>1, <2>2, OverCarries
<1> QED  BY <1>2, <1>3, <1>4

\* The expert fails.
LEMMA ExpertFailsCarries ==
    ASSUME StreamAssumption, WriterInv, Carried, W!ExpertFails
    PROVE  Carried'
<1>1. /\ flow[W!App].at = "ready" /\ W!App \in W!Flows /\ W!Goto(W!App, "error")
      /\ UNCHANGED <<sent, chunks, comp, isDone, isError>>
  BY FlowsAre DEF W!ExpertFails
<1>2. "error" \in W!Resting \cup W!Running /\ "error" \notin Published \cup {"send", "flush", "finishing"}
  BY DEF W!Running, Published
<1> QED  BY <1>1, <1>2, GotoCarries

\* A callback begins.
LEMMA SpawnCarries ==
    ASSUME StreamAssumption, WriterInv, Carried, NEW at \in {"flush", "error"},
           NEW job \in {"timer", "none"}, W!Spawn(at, job),
           UNCHANGED <<sent, isDone, isError, comp, chunks>>
    PROVE  Carried'
<1>1. PICK f \in W!Callbacks : /\ W!Free(f)
                               /\ flow' = [flow EXCEPT ![f].at = at, ![f].job = job]
  BY DEF W!Spawn
<1>2. f \in W!Flows /\ flow[f].at # "send"
  BY <1>1, FlowsAre DEF W!Free, W!Ready
<1>3. at \in W!Resting \cup W!Running /\ at \notin Published /\ job \in Jobset /\ at # "send"
  BY DEF W!Running, Published, Jobset
<1> QED  BY <1>1, <1>2, <1>3, JobCarries

\* The batch timer, and a publish that is settled.
LEMMA CallbackCarries ==
    ASSUME StreamAssumption, WriterInv, Carried,
           W!TimerFires \/ \E i \in W!Indices : W!PublishOk(i) \/ W!PublishFails(i)
    PROVE  Carried'
<1>1. CASE W!TimerFires
  BY <1>1, SpawnCarries, SameCarries DEF W!TimerFires
<1>2. ASSUME NEW i \in W!Indices, W!PublishOk(i) PROVE Carried'
  BY <1>2, SameCarries DEF W!PublishOk
<1>3. ASSUME NEW i \in W!Indices, W!PublishFails(i) PROVE Carried'
  BY <1>3, SpawnCarries DEF W!PublishFails
<1> QED  BY <1>1, <1>2, <1>3

\* A chunk is made: it says that an error is reported, or carries what the flow took.
LEMMA SendCarries ==
    ASSUME StreamAssumption, WriterInv, Carried, NEW f \in W!Flows, W!Send(f)
    PROVE  Carried'
<1> DEFINE c == [data |-> flow[f].data, status |-> W!Status(f)]
           n == Len(chunks)
           D == DataOf(chunks, n)
<1>1. /\ flow[f].at = "send" /\ Carries(flow[f]) /\ flow[f] \in FlowRecs
      /\ \A g \in W!Flows \ {f} : flow[g].at \in W!Resting
      /\ UNCHANGED <<sent, isDone, isError, comp>>
      /\ chunks' = Append(chunks, c)
  BY FlowsAre, OthersRest DEF W!Send, W!At, W!Running, Carried
<1>2. PICK at \in {"racing", "sent"} :
         /\ flow'[f].at = at /\ flow'[f].job = flow[f].job /\ flow'[f].data = <<>>
         /\ \A g \in W!Flows \ {f} : flow'[g] = flow[g]
  <2> DEFINE crowded == Cardinality(W!Pending) > Window
             x == [flow[f] EXCEPT !.at = IF crowded THEN "racing" ELSE "sent", !.data = <<>>,
                                  !.chunk = IF crowded THEN Len(chunks) + 1 ELSE 0,
                                  !.wait = IF crowded THEN W!Pending ELSE {}]
  <2>1. flow' = [flow EXCEPT ![f] = x]
    BY DEF W!Send, W!Cardinality, Cardinality
  <2>2. x.at \in {"racing", "sent"} /\ x.job = flow[f].job /\ x.data = <<>>
    BY <1>1 DEF FlowRecs
  <2> HIDE DEF x
  <2> QED  BY <2>1, <2>2, FlowsAre
<1>3. /\ chunks \in Seq(ChunkRecs) /\ n \in Nat /\ D \in Words
      /\ flow[f].data \in Words /\ comp.parts \in Words /\ sent \in Words /\ <<>> \in Words
      /\ W!Indices = 1..n
  BY CarriedTypes
<1>4. /\ c \in ChunkRecs /\ c.data = flow[f].data
      /\ c.status = IF flow[f].job = "report" THEN "error" ELSE IF isDone THEN "done" ELSE "active"
  BY <1>3 DEF W!Status, ChunkRecs, Words, Parts
<1> HIDE DEF c
<1>5. /\ chunks' \in Seq(ChunkRecs) /\ Len(chunks') = n + 1
      /\ \A i \in 1..n : chunks'[i] = chunks[i]
      /\ chunks'[n + 1] = c
  BY <1>1, <1>3, <1>4, AppendProperties
<1>6. /\ \A k \in 0..n : DataOf(chunks', k) = DataOf(chunks, k)
      /\ DataOf(chunks', n + 1) = D \o c.data
  <2>1. ASSUME NEW k \in 0..n PROVE DataOf(chunks', k) = DataOf(chunks, k)
    <3>1. \A i \in 1..k : chunks'[i] = chunks[i]
      BY <1>3, <1>5
    <3> QED  BY <3>1, DataOfSame
  <2>2. n \in 0..Len(chunks') /\ n # Len(chunks') /\ n \in 0..n
    BY <1>3, <1>5
  <2>3. DataOf(chunks', n + 1) = DataOf(chunks', n) \o chunks'[n + 1].data
    <3> HIDE DEF n
    <3> QED  BY <1>5, <2>2, ChunksNext
  <2>4. DataOf(chunks', n) = D
    BY <2>1, <2>2
  <2> QED  BY <1>5, <2>1, <2>3, <2>4
<1>7. /\ HasError' <=> HasError \/ flow[f].job = "report"
      /\ HasDone' <=> HasDone \/ (flow[f].job # "report" /\ isDone)
  <2>1. W!Indices' = 1..(n + 1)
    BY <1>5 DEF W!Indices
  <2>2. \A i \in 1..(n + 1) : i \in 1..n \/ i = n + 1
    BY <1>3
  <2>3. n + 1 \in 1..(n + 1) /\ \A i \in 1..n : i \in 1..(n + 1)
    BY <1>3
  <2> HIDE DEF n
  <2>4. HasError' <=> \E i \in 1..(n + 1) : chunks'[i].status = "error"
    BY <2>1 DEF HasError
  <2>5. HasDone' <=> \E i \in 1..(n + 1) : chunks'[i].status = "done"
    BY <2>1 DEF HasDone
  <2>6. HasError' <=> HasError \/ c.status = "error"
    BY <1>3, <1>5, <2>2, <2>3, <2>4 DEF HasError
  <2>7. HasDone' <=> HasDone \/ c.status = "done"
    BY <1>3, <1>5, <2>2, <2>3, <2>5 DEF HasDone
  <2> QED  BY <1>4, <2>6, <2>7
<1> HIDE DEF n, D
<1>8. \A g \in W!Flows : g # f => ~Takes(flow[g])
  BY <1>1 DEF Takes, W!Resting
<1>9. \A g \in W!Flows : ~Takes(flow'[g])
  BY <1>2, <1>8 DEF Takes
<1>10. flow[f].job # "report" => comp.parts = <<>> /\ Takes(flow[f])
  BY <1>1 DEF Carries, Takes
<1>11. flow[f].job = "report" => c.data = <<>> /\ isError
  BY <1>1, <1>4 DEF Carries, Takes
<1>12. ASSUME NEW g \in W!Flows PROVE Carries(flow[g])'
  <2>1. CASE g = f
    BY <1>1, <1>2, <1>7, <1>9, <2>1 DEF Carries, Takes, Published
  <2>2. CASE g # f
    <3>1. Carries(flow[g]) /\ ~Takes(flow[g])
      BY <1>8, <2>2 DEF Carried
    <3> QED  BY <1>1, <1>2, <1>7, <2>2, <3>1 DEF Carries, Takes
  <2> QED  BY <2>1, <2>2
<1>13. Accounted'
  <2> SUFFICES ASSUME ~HasError, flow[f].job # "report"
               PROVE  (D \o c.data) \o comp.parts = sent
    <3>1. Len(chunks') = n + 1
      BY <1>5
    <3> QED  BY <1>1, <1>6, <1>7, <1>9, <3>1 DEF Accounted, Takes
  <2>1. D \o c.data = sent
    BY <1>4, <1>10 DEF Carried, Accounted, D, n
  <2>2. sent \o <<>> = sent
    BY <1>3, ConcatEmptySeq DEF Words
  <2> QED  BY <1>10, <2>1, <2>2
<1>14. InOrder'
  <2> SUFFICES ASSUME NEW k \in 0..(n + 1), \A i \in 1..k : chunks'[i].status # "error"
               PROVE  \E rest \in Words : sent = DataOf(chunks', k) \o rest
    BY <1>1, <1>5 DEF InOrder
  <2>1. CASE k \in 0..n
    <3>1. \A i \in 1..k : chunks[i].status # "error"
      BY <1>3, <1>5, <2>1
    <3>2. \E rest \in Words : sent = DataOf(chunks, k) \o rest
      BY <2>1, <3>1 DEF Carried, InOrder, n
    <3> QED  BY <1>6, <2>1, <3>2
  <2>2. CASE k = n + 1
    <3>1. c.status # "error" /\ ~HasError
      <4>1. \A i \in 1..(n + 1) : chunks'[i].status # "error"
        BY <2>2
      <4>2. n + 1 \in 1..(n + 1) /\ \A i \in 1..n : i \in 1..(n + 1)
        BY <1>3
      <4> QED  BY <1>3, <1>5, <4>1, <4>2 DEF HasError
    <3>2. D \o c.data = sent
      BY <1>4, <1>10, <3>1 DEF Carried, Accounted, D, n
    <3>3. sent = DataOf(chunks', k) \o <<>>
      BY <1>3, <1>6, <2>2, <3>2, ConcatEmptySeq DEF Words
    <3> QED  BY <1>3, <3>3
  <2>3. k \in 0..n \/ k = n + 1
    BY <1>3
  <2> QED  BY <2>1, <2>2, <2>3
<1>15. HasDone' => comp.parts = <<>>
  BY <1>7, <1>10 DEF Carried
<1>16. HasError' => isError
  BY <1>7, <1>11 DEF Carried
<1> QED  BY <1>1, <1>12, <1>13, <1>14, <1>15, <1>16 DEF Carried

\* What the compressor holds when the writer is disposed of is nothing, or lost after an
\* error was reported.
LEMMA SettledCarries ==
    ASSUME StreamAssumption, WriterInv, Carried, NEW f \in W!Flows, W!Settled(f)
    PROVE  Carried'
<1>1. /\ flow[f].at = "settling" /\ Carries(flow[f])
      /\ \A g \in W!Flows : flow[g].at \in W!Resting
      /\ UNCHANGED <<sent, isDone, isError, chunks>>
  BY DEF W!Settled, W!At, W!Idle, Carried
<1>2. comp'.parts = <<>>
  BY DEF W!Settled, W!None
<1>3. /\ flow'[f].at \in {"ready", "closed", "ended"}
      /\ flow'[f].job = "none" /\ flow'[f].data = <<>>
      /\ \A g \in W!Flows \ {f} :
            /\ flow'[g].at = IF flow[g].at = "finishing" THEN "hung" ELSE flow[g].at
            /\ flow'[g].job = flow[g].job /\ flow'[g].data = flow[g].data
  <2> DEFINE hung(g) == [flow[g] EXCEPT !.at = "hung"]
  <2>1. \A g \in W!Flows :
           hung(g).at = "hung" /\ hung(g).job = flow[g].job /\ hung(g).data = flow[g].data
    BY FlowsAre DEF FlowRecs
  <2>2. /\ W!After(f).at \in {"ready", "closed", "ended"}
        /\ W!After(f).job = "none" /\ W!After(f).data = <<>>
    BY DEF W!After, W!Ready
  <2>3. flow' = [g \in W!Flows |-> IF g = f THEN W!After(f)
                                  ELSE IF flow[g].at = "finishing" THEN hung(g) ELSE flow[g]]
    BY DEF W!Settled
  <2> HIDE DEF hung
  <2> QED  BY <2>1, <2>2, <2>3
<1>4. HasError' = HasError /\ HasDone' = HasDone
  BY <1>1 DEF HasError, HasDone, W!Indices
<1>5. \A g \in W!Flows : ~Takes(flow[g]) /\ ~Takes(flow'[g])
  BY <1>1, <1>3 DEF Takes, W!Resting
<1>6. ASSUME NEW g \in W!Flows PROVE Carries(flow[g])'
  <2>1. CASE g = f
    BY <1>3, <2>1 DEF Carries, Takes, Published
  <2>2. CASE g # f
    <3>1. Carries(flow[g])
      BY DEF Carried
    <3> QED  BY <1>1, <1>3, <1>4, <1>5, <2>2, <3>1 DEF Carries, Published, Takes
  <2> QED  BY <2>1, <2>2
<1>7. Accounted'
  <2> SUFFICES ASSUME ~HasError PROVE DataOf(chunks, Len(chunks)) \o <<>> = sent
    BY <1>1, <1>2, <1>4, <1>5 DEF Accounted, Takes
  <2>1. HasDone
    BY <1>1 DEF Carries, Published
  <2>2. comp.parts = <<>>
    BY <2>1 DEF Carried
  <2> QED  BY <1>5, <2>2 DEF Carried, Accounted
<1>8. InOrder'
  BY <1>1 DEF Carried, InOrder
<1> QED  BY <1>1, <1>2, <1>4, <1>6, <1>7, <1>8 DEF Carried

\* A stream that has just been opened.
LEMMA CarriedInit == ASSUME StreamAssumption, W!Init PROVE Carried
<1>1. chunks = <<>> /\ sent = <<>> /\ W!Indices = {}
  BY DEF W!Init, W!Indices
<1>2. \A f \in W!Flows : flow[f].at = "ready" /\ flow[f].job = "none" /\ flow[f].data = <<>>
  BY DEF W!Init, W!Ready
<1>3. comp.parts = <<>>
  BY DEF W!Init, W!None
<1>4. DataOf(chunks, 0) = <<>> /\ <<>> \in Words /\ Len(chunks) = 0
  <2>1. <<>> \in Seq(ChunkRecs) /\ 0 \in 0..Len(<<>>) /\ Len(<<>>) = 0
    OBVIOUS
  <2> QED  BY <1>1, <2>1, ChunksNext DEF Words
<1>5. sent = DataOf(chunks, 0) \o <<>>
  BY <1>1, <1>4
<1>6. \A f \in W!Flows : ~Takes(flow[f]) /\ Carries(flow[f])
  BY <1>2 DEF Carries, Takes, Published
<1>7. Accounted
  BY <1>3, <1>4, <1>5, <1>6 DEF Accounted
<1>8. InOrder
  <2>1. \A n \in 0..Len(chunks) : n = 0
    BY <1>4
  <2> QED  BY <1>4, <1>5, <2>1 DEF InOrder
<1> QED  BY <1>1, <1>3, <1>6, <1>7, <1>8 DEF Carried, HasError, HasDone

WriterSteps == \/ W!Application \/ W!Runs \/ W!Resumes
               \/ \E i \in W!Indices : W!PublishOk(i) \/ W!PublishFails(i)

\* Every step of the writer accounts for the data.
LEMMA WriterCarries ==
    ASSUME StreamAssumption, WriterInv, Carried, WriterSteps
    PROVE  Carried'
<1>1. CASE W!Application
  BY <1>1, WriteBeginsCarries, ExpertFailsCarries DEF W!Application
<1>2. CASE W!Runs
  BY <1>2, AddCarries, WriteEndsCarries, FlushCarries, SendCarries, ContinueCarries,
     ErrorCarries, ThrowCarries DEF W!Runs
<1>3. CASE W!Resumes
  BY <1>3, DrainedCarries, FinishedCarries, RacedCarries, SettledCarries, CallbackCarries
     DEF W!Resumes
<1> QED  BY <1>1, <1>2, <1>3, CallbackCarries DEF WriterSteps

\* The writer adds: a chunk to the chunks, or a piece of data to what it accepted.
LEMMA WriterAdds ==
    ASSUME StreamAssumption, WriterInv, WriterSteps
    PROVE  /\ sent' = sent \/ \E p \in Parts : sent' = Append(sent, p)
           /\ chunks' = chunks \/ \E c \in ChunkRecs : chunks' = Append(chunks, c)
<1>1. CASE W!Application
  BY <1>1 DEF W!Application, W!WriteBegins, W!ExpertFails
<1>2. CASE W!Add
  <2>1. flow[W!App].part \in Parts
    BY <1>2, FlowsAre DEF W!Add, W!At, FlowRecs, StreamAssumption, Parts
  <2> QED  BY <1>2, <2>1 DEF W!Add, W!Refused, W!Exceeded, W!Accepted
<1>3. ASSUME NEW f \in W!Flows, W!Send(f)
      PROVE  UNCHANGED sent /\ \E c \in ChunkRecs : chunks' = Append(chunks, c)
  <2> DEFINE c == [data |-> flow[f].data, status |-> W!Status(f)]
  <2>1. c \in ChunkRecs
    BY CarriedTypes DEF ChunkRecs, W!Status
  <2>2. UNCHANGED sent /\ chunks' = Append(chunks, c)
    BY <1>3 DEF W!Send
  <2> QED  BY <2>1, <2>2
<1>4. CASE W!WriteEnds \/ \E f \in W!Flows : W!Flush(f) \/ W!Continue(f) \/ W!Error(f) \/ W!Throw(f)
  BY <1>4 DEF W!WriteEnds, W!Flush, W!Continue, W!Error, W!Throw
<1>5. CASE W!Resumes
  BY <1>5 DEF W!Resumes, W!Drained, W!Finished, W!Raced, W!Settled, W!TimerFires
<1>6. CASE \E i \in W!Indices : W!PublishOk(i) \/ W!PublishFails(i)
  BY <1>6 DEF W!PublishOk, W!PublishFails
<1>7. CASE W!Runs
  BY <1>2, <1>3, <1>4, <1>7 DEF W!Runs
<1> QED  BY <1>1, <1>5, <1>6, <1>7 DEF WriterSteps

-----------------------------------------------------------------------------
(* The data that arrives: the consumer has, and resultBuffer holds, what the *)
(* chunks of the chain carry.                                                *)

\* Only such a chunk is put in order and decoded.
Readable(i) == i \in W!Indices /\ chunks[i].status # "error"

\* The consumer was handed the data of m chunks, and results holds the next ones.
Handed(m) ==
    /\ m \in 0..nextRef
    /\ got = DataOf(chunks, m)
    /\ results \in Seq(Words)
    /\ Len(results) = nextRef - m
    /\ \A k \in 1..Len(results) : results[k] = chunks[m + k].data

Received ==
    /\ waiting => end = "open"
    /\ \A i \in buffer \cup busy : Readable(i)
    /\ ~R!Failed =>
          /\ \A i \in 1..nextRef : Readable(i)
          /\ \E m \in Nat : Handed(m)
          /\ done => nextRef \in W!Indices /\ chunks[nextRef].status = "done"

\* A chunk that is added changes nothing for the reader.
LEMMA ReceivedRests ==
    ASSUME StreamAssumption, WriterInv, ReaderInv, Received, UNCHANGED readerVars,
           chunks' = chunks \/ \E c \in ChunkRecs : chunks' = Append(chunks, c)
    PROVE  Received'
<1>1. chunks \in Seq(ChunkRecs) /\ Len(chunks) \in Nat /\ W!Indices = 1..Len(chunks)
  BY CarriedTypes
<1>2. Len(chunks) <= Len(chunks') /\ \A i \in 1..Len(chunks) : chunks'[i] = chunks[i]
                                                            /\ i \in 1..Len(chunks')
  <2>1. CASE chunks' = chunks
    BY <1>1, <2>1
  <2>2. CASE \E c \in ChunkRecs : chunks' = Append(chunks, c)
    <3>1. /\ Len(chunks') = Len(chunks) + 1
          /\ \A i \in 1..Len(chunks) : chunks'[i] = chunks[i]
      BY <1>1, <2>2, AppendProperties
    <3> QED  BY <1>1, <3>1
  <2> QED  BY <2>1, <2>2
<1>3. \A i : Readable(i) => Readable(i)' /\ chunks'[i] = chunks[i]
  BY <1>1, <1>2 DEF Readable, W!Indices
<1>4. UNCHANGED <<waiting, end, buffer, busy, nextRef, got, results, done, error>>
  BY DEF readerVars
<1>5. nextRef \in Nat
  BY DEF ReaderInv, R!TypeOK
<1>6. ASSUME NEW m \in Nat, ~R!Failed, Handed(m) PROVE Handed(m)'
  <2>1. \A i \in 1..nextRef : chunks'[i] = chunks[i]
    BY <1>3, <1>6 DEF Received
  <2>2. DataOf(chunks', m) = DataOf(chunks, m)
    <3>1. \A i \in 1..m : chunks'[i] = chunks[i]
      BY <1>5, <1>6, <2>1 DEF Handed
    <3> QED  BY <3>1, DataOfSame
  <2>3. \A k \in 1..Len(results) : m + k \in 1..nextRef
    BY <1>5, <1>6 DEF Handed
  <2> QED  BY <1>4, <1>6, <2>1, <2>2, <2>3 DEF Handed
<1>7. R!Failed' = R!Failed
  BY <1>4 DEF R!Failed
<1>8. nextRef \in W!Indices => nextRef \in W!Indices' /\ chunks'[nextRef] = chunks[nextRef]
  BY <1>1, <1>2 DEF W!Indices
<1> QED  BY <1>3, <1>4, <1>6, <1>7, <1>8 DEF Received

-----------------------------------------------------------------------------
(* Every step is one the abstract stream allows.                            *)

\* What the consumer may see of a step of the reader.
Consumes ==
    /\ UNCHANGED sent
    /\ \/ UNCHANGED <<got, end>>
       \/ end = "open" /\ end' = "open" /\ \E n \in Len(got)..Len(sent) : got' = SubSeq(sent, 1, n)
       \/ end = "open" /\ got = sent /\ end' = "done" /\ UNCHANGED got
       \/ end = "open" /\ end' \in {"error", "left"} /\ UNCHANGED got

\* A sequence is the first part of one that continues it.
LEMMA FirstPart ==
    ASSUME NEW S, NEW a \in Seq(S), NEW b \in Seq(S)
    PROVE  SubSeq(a \o b, 1, Len(a)) = a
<1>1. /\ a \o b \in Seq(S) /\ Len(a \o b) = Len(a) + Len(b)
      /\ \A i \in 1..(Len(a) + Len(b)) : (a \o b)[i] = IF i <= Len(a) THEN a[i] ELSE b[i - Len(a)]
      /\ Len(a) \in Nat /\ Len(b) \in Nat
  BY ConcatProperties, LenProperties
<1>2. Len(a) \in 0..Len(a \o b)
  BY <1>1
<1>3. SubSeq(a \o b, 1, Len(a)) \in Seq(S) /\ Len(SubSeq(a \o b, 1, Len(a))) = Len(a)
  BY <1>1, <1>2, CutElements
<1>4. ASSUME NEW i \in 1..Len(a) PROVE SubSeq(a \o b, 1, Len(a))[i] = a[i]
  <2>1. i \in 1..(Len(a) + Len(b)) /\ i <= Len(a) /\ 1 + i - 1 = i /\ i \in 1..(Len(a) - 1 + 1)
    BY <1>1
  <2>2. \A j \in 1..Len(a) : (a \o b)[j] \in S
    BY <1>1, ElementOfSeq
  <2>3. \A j \in 1..(Len(a) - 1 + 1) : SubSeq(a \o b, 1, Len(a))[j] = (a \o b)[1 + j - 1]
    BY <1>1, <2>2, SubSeqProperties
  <2>4. SubSeq(a \o b, 1, Len(a))[i] = (a \o b)[i]
    BY <2>1, <2>3
  <2> QED  BY <1>1, <2>1, <2>4
<1> QED  BY <1>3, <1>4, SeqEqual

\* The data of one more readable chunk continues what was handed over, as accepted.
LEMMA GivesNext ==
    ASSUME StreamAssumption, WriterInv, Carried, NEW m \in Nat,
           \A i \in 1..(m + 1) : Readable(i)
    PROVE  /\ DataOf(chunks, m + 1) = DataOf(chunks, m) \o chunks[m + 1].data
           /\ \E n \in Len(DataOf(chunks, m))..Len(sent) :
                 DataOf(chunks, m + 1) = SubSeq(sent, 1, n)
<1> DEFINE d == DataOf(chunks, m)
           e == DataOf(chunks, m + 1)
<1>1. /\ chunks \in Seq(ChunkRecs) /\ Len(chunks) \in Nat /\ W!Indices = 1..Len(chunks)
      /\ \A i \in 1..Len(chunks) : chunks[i] \in ChunkRecs
  BY CarriedTypes
<1>2. m + 1 \in 1..Len(chunks) /\ m \in 0..Len(chunks) /\ m # Len(chunks) /\ m + 1 \in 0..Len(chunks)
  <2>1. m + 1 \in 1..(m + 1)
    OBVIOUS
  <2>2. m + 1 \in 1..Len(chunks)
    BY <1>1, <2>1 DEF Readable
  <2> QED  BY <1>1, <2>2
<1>3. e = d \o chunks[m + 1].data /\ d \in Words /\ chunks[m + 1].data \in Words
  BY <1>1, <1>2, ChunksNext DEF ChunkRecs
<1>4. e \in Words
  BY <1>2, CarriedTypes
<1>5. PICK rest \in Words : sent = e \o rest
  BY <1>2 DEF Carried, InOrder, Readable
<1>6. Len(d) <= Len(e) /\ Len(e) <= Len(sent) /\ Len(d) \in Nat /\ Len(e) \in Nat /\ Len(sent) \in Nat
  <2> HIDE DEF d, e
  <2>1. Len(e) = Len(d) + Len(chunks[m + 1].data) /\ Len(sent) = Len(e) + Len(rest)
    BY <1>3, <1>4, <1>5, ConcatProperties DEF Words
  <2>2. Len(d) \in Nat /\ Len(e) \in Nat /\ Len(rest) \in Nat /\ Len(chunks[m + 1].data) \in Nat
    BY <1>3, <1>4, LenProperties DEF Words
  <2> QED  BY <2>1, <2>2
<1>7. e = SubSeq(sent, 1, Len(e))
  <2> HIDE DEF e
  <2> QED  BY <1>4, <1>5, FirstPart DEF Words
<1> HIDE DEF d, e
<1>8. Len(e) \in Len(d)..Len(sent)
  BY <1>6
<1> QED  BY <1>3, <1>7, <1>8 DEF d, e

\* The stream fails: what arrives later is not handed over.
LEMMA SetErrorReceives ==
    ASSUME Received, NEW code \in {"remote", "max_chunks", "decode", "ttl"}, R!SetError(code),
           busy' \subseteq busy, UNCHANGED <<chunks, got, sent>>
    PROVE  Received' /\ Consumes
<1>1. R!Failed' /\ buffer' = {} /\ waiting' = FALSE
  BY DEF R!SetError, R!Failed
<1>2. \A i : Readable(i) <=> Readable(i)'
  BY DEF Readable, W!Indices
<1>3. Received'
  BY <1>1, <1>2 DEF Received
<1>4. Consumes
  BY DEF Consumes, R!SetError, Received
<1> QED  BY <1>3, <1>4

\* A chunk arrives.
LEMMA ReceiveReceives ==
    ASSUME Received, NEW i \in W!Indices, R!Receive(i, chunks[i].status),
           UNCHANGED <<chunks, sent>>
    PROVE  Received' /\ Consumes
<1> DEFINE st == chunks[i].status
<1>1. CASE st = "error" \/ count >= MaxChunks
  <2>1. /\ R!SetError(IF st = "error" THEN "remote" ELSE "max_chunks")
        /\ UNCHANGED <<busy, got>>
    BY <1>1 DEF R!Receive
  <2> HIDE DEF st
  <2> QED  BY <2>1, SetErrorReceives
<1>2. CASE ~(st = "error" \/ count >= MaxChunks)
  <2>1. /\ R!TakeNext(buffer \cup {i}, busy, nextRef)
        /\ UNCHANGED <<open, error, waiting, end, nextRef, results, done, got>>
    BY <1>2 DEF R!Receive
  <2>2. \A k : Readable(k) <=> Readable(k)'
    BY DEF Readable, W!Indices
  <2>3. \A k \in buffer' \cup busy' : Readable(k)
    BY <1>2, <2>1 DEF R!TakeNext, Readable, Received
  <2>4. \A m : Handed(m) <=> Handed(m)'
    BY <2>1 DEF Handed
  <2>5. R!Failed' = R!Failed /\ W!Indices' = W!Indices
    BY <2>1 DEF R!Failed, W!Indices
  <2>6. Received'
    BY <2>1, <2>2, <2>3, <2>4, <2>5 DEF Received
  <2> QED  BY <2>1, <2>6 DEF Consumes
<1> QED  BY <1>1, <1>2

\* A chunk is decoded: a consumer that waits has been handed all that came before.
LEMMA DecodedReceives ==
    ASSUME StreamAssumption, WriterInv, Carried, ReaderInv, Received,
           NEW i \in W!Indices, R!Decoded(i, chunks[i].data, chunks[i].status),
           UNCHANGED <<chunks, sent>>
    PROVE  Received' /\ Consumes
<1> DEFINE data == chunks[i].data
<1>1. /\ i = nextRef + 1 /\ nextRef' = i /\ nextRef \in Nat
      /\ UNCHANGED <<end, error>>
      /\ Readable(i)
  BY DEF R!Decoded, R!NextRef, ReaderInv, R!TypeOK, DecodesNext, Received
<1>2. \A k \in buffer' \cup busy' : k \in buffer \cup busy
  BY DEF R!Decoded, R!TakeNext
<1>3. \A k : Readable(k) <=> Readable(k)'
  BY DEF Readable, W!Indices
<1>4. R!Failed' = R!Failed /\ W!Indices' = W!Indices
  BY <1>1 DEF R!Failed, W!Indices
<1>5. data \in Words
  BY CarriedTypes DEF ChunkRecs
<1>6. ~waiting'
  BY DEF R!Decoded, R!HandOver, ReaderInv, R!TypeOK
<1>7. ~R!Failed => \A k \in 1..(nextRef + 1) : Readable(k)
  <2>1. \A k \in 1..(nextRef + 1) : k \in 1..nextRef \/ k = nextRef + 1
    BY <1>1
  <2> QED  BY <1>1, <2>1 DEF Received
<1>8. done' /\ ~R!Failed => chunks[i].status = "done"
  <2>1. CASE chunks[i].status = "done"
    BY <2>1
  <2>2. CASE chunks[i].status # "done"
    <3>1. UNCHANGED done
      BY <2>2 DEF R!Decoded
    <3>2. SUFFICES ASSUME done, ~R!Failed PROVE FALSE
      BY <3>1
    <3>3. nextRef \in W!Indices /\ chunks[nextRef].status = "done"
      BY <3>2 DEF Received
    <3>4. nextRef = Len(chunks)
      BY <3>3 DEF WriterInv, DoneSends
    <3> QED  BY <1>1, <3>4, CarriedTypes
  <2> QED  BY <2>1, <2>2
<1>9. CASE waiting
  <2>1. got' = got \o data /\ results' = results
    BY <1>9 DEF R!Decoded, R!HandOver
  <2>2. results = <<>> /\ ~R!Failed /\ end = "open"
    BY <1>9 DEF ReaderInv, WaitsForNothing, Received
  <2>3. PICK m \in Nat : Handed(m)
    BY <2>2 DEF Received
  <2>4. m = nextRef /\ got = DataOf(chunks, nextRef)
    BY <1>1, <2>2, <2>3 DEF Handed
  <2>5. /\ got' = DataOf(chunks, nextRef + 1)
        /\ \E n \in Len(got)..Len(sent) : got' = SubSeq(sent, 1, n)
    BY <1>1, <1>7, <2>1, <2>2, <2>4, GivesNext
  <2>6. i \in Nat /\ Handed(i)'
    <3>1. results' = <<>> /\ Len(results') = 0 /\ results' \in Seq(Words)
      BY <2>1, <2>2
    <3>2. got' = DataOf(chunks', i) /\ nextRef' = i /\ i \in 0..i /\ 0 = i - i
      BY <1>1, <2>5
    <3> QED  BY <1>1, <3>1, <3>2 DEF Handed
  <2>7. Received'
    BY <1>1, <1>2, <1>3, <1>4, <1>6, <1>7, <1>8, <2>2, <2>6 DEF Received
  <2> QED  BY <1>1, <2>2, <2>5, <2>7 DEF Consumes
<1>10. CASE ~waiting
  <2>1. got' = got /\ results' = Append(results, data)
    BY <1>10 DEF R!Decoded, R!HandOver
  <2> HIDE DEF data
  <2>2. ASSUME ~R!Failed, NEW m \in Nat, Handed(m) PROVE Handed(m)'
    <3>1. results \in Seq(Words) /\ Len(results) = nextRef - m /\ m \in 0..nextRef
      BY <2>2 DEF Handed
    <3>2. /\ results' \in Seq(Words) /\ Len(results') = Len(results) + 1
          /\ \A k \in 1..Len(results) : results'[k] = results[k]
          /\ results'[Len(results) + 1] = data
      BY <1>5, <2>1, <3>1, AppendProperties
    <3>3. ASSUME NEW k \in 1..Len(results') PROVE results'[k] = chunks[m + k].data
      <4>1. CASE k \in 1..Len(results)
        BY <2>2, <3>2, <4>1 DEF Handed
      <4>2. CASE k = Len(results) + 1
        <5>1. m + k = i
          BY <1>1, <3>1, <4>2
        <5> QED  BY <3>2, <4>2, <5>1 DEF data
      <4>3. k \in 1..Len(results) \/ k = Len(results) + 1
        BY <1>1, <3>1, <3>2
      <4> QED  BY <4>1, <4>2, <4>3
    <3>4. Len(results') = nextRef' - m /\ m \in 0..nextRef'
      BY <1>1, <3>1, <3>2
    <3> QED  BY <2>1, <2>2, <3>2, <3>3, <3>4 DEF Handed
  <2>3. Received'
    BY <1>1, <1>2, <1>3, <1>4, <1>6, <1>7, <1>8, <2>2 DEF Received
  <2> QED  BY <1>1, <2>1, <2>3 DEF Consumes
<1> QED  BY <1>9, <1>10

\* A chunk cannot be decoded.
LEMMA NotDecodedReceives ==
    ASSUME Received, NEW i, R!NotDecoded(i), UNCHANGED <<chunks, sent>>
    PROVE  Received' /\ Consumes
<1>1. R!SetError("decode") /\ busy' \subseteq busy /\ UNCHANGED got
  BY DEF R!NotDecoded
<1> QED  BY <1>1, SetErrorReceives

\* The consumer asks for the next chunk: it ends as done when it was handed all there is.
LEMMA NextReceives ==
    ASSUME StreamAssumption, WriterInv, Carried, ReaderInv, Received, R!NextResult,
           UNCHANGED <<chunks, sent>>
    PROVE  Received' /\ Consumes
<1>1. /\ end = "open" /\ ~waiting
      /\ UNCHANGED <<buffer, busy, nextRef, done, error>> /\ nextRef \in Nat
  BY DEF R!NextResult, ReaderInv, R!TypeOK
<1>2. \A k : Readable(k) <=> Readable(k)'
  BY DEF Readable, W!Indices
<1>3. R!Failed' = R!Failed /\ W!Indices' = W!Indices
  BY <1>1 DEF R!Failed, W!Indices
<1>4. (~R!Failed => \E m \in Nat : Handed(m)') /\ (waiting' => end' = "open") => Received'
  BY <1>1, <1>2, <1>3 DEF Received
<1>5. CASE R!Failed /\ end' = "error" /\ UNCHANGED <<results, got, waiting>>
  BY <1>1, <1>4, <1>5 DEF Consumes
<1>6. CASE /\ ~R!Failed /\ results # <<>>
           /\ got' = got \o Head(results) /\ results' = Tail(results)
           /\ UNCHANGED <<end, waiting>>
  <2>1. PICK m \in Nat : Handed(m)
    BY <1>6 DEF Received
  <2>2. /\ results \in Seq(Words) /\ Len(results) = nextRef - m /\ m \in 0..nextRef
        /\ \A k \in 1..Len(results) : results[k] = chunks[m + k].data
    BY <2>1 DEF Handed
  <2>3. /\ Tail(results) \in Seq(Words) /\ Len(Tail(results)) = Len(results) - 1
        /\ Head(results) = results[1]
        /\ \A k \in 1..Len(Tail(results)) : Tail(results)[k] = results[k + 1]
    BY <1>6, <2>2, HeadTailElements
  <2>4. Len(results) \in Nat /\ Len(results) > 0
    BY <1>6, <2>2, EmptySeq
  <2>5. m + 1 \in 0..nextRef /\ Len(Tail(results)) = nextRef - (m + 1)
    BY <1>1, <2>2, <2>3, <2>4
  <2>6. \A k \in 1..(m + 1) : Readable(k)
    <3>1. \A k \in 1..(m + 1) : k \in 1..nextRef
      BY <1>1, <2>5
    <3> QED  BY <1>6, <3>1 DEF Received
  <2>7. got = DataOf(chunks, m) /\ Head(results) = chunks[m + 1].data
    <3>1. 1 \in 1..Len(results)
      BY <2>4
    <3> QED  BY <2>1, <2>2, <2>3, <3>1 DEF Handed
  <2>8. /\ got' = DataOf(chunks, m + 1)
        /\ \E n \in Len(got)..Len(sent) : got' = SubSeq(sent, 1, n)
    BY <1>6, <2>6, <2>7, GivesNext
  <2>9. ASSUME NEW k \in 1..Len(Tail(results)) PROVE Tail(results)[k] = chunks[m + 1 + k].data
    <3>1. k + 1 \in 1..Len(results) /\ m + (k + 1) = m + 1 + k
      BY <2>3, <2>4
    <3> QED  BY <2>2, <2>3, <3>1
  <2>10. Handed(m + 1)'
    BY <1>1, <1>6, <2>3, <2>5, <2>8, <2>9 DEF Handed
  <2>11. m + 1 \in Nat
    OBVIOUS
  <2>12. Received'
    BY <1>1, <1>4, <1>6, <2>10, <2>11
  <2> QED  BY <1>1, <1>6, <2>8, <2>12 DEF Consumes
<1>7. CASE ~R!Failed /\ results = <<>> /\ done /\ end' = "done" /\ UNCHANGED <<results, got, waiting>>
  <2>1. PICK m \in Nat : Handed(m)
    BY <1>7 DEF Received
  <2>2. m = nextRef /\ got = DataOf(chunks, nextRef)
    BY <1>1, <1>7, <2>1 DEF Handed
  <2>3. nextRef \in W!Indices /\ chunks[nextRef].status = "done" /\ \A i \in 1..nextRef : Readable(i)
    BY <1>7 DEF Received
  <2>4. nextRef = Len(chunks) /\ \A f \in W!Flows : ~Takes(flow[f])
    BY <2>3 DEF WriterInv, DoneSends, Takes
  <2>5. HasDone /\ ~HasError
    BY <2>3, <2>4 DEF HasDone, HasError, Readable, W!Indices
  <2>6. DataOf(chunks, Len(chunks)) \o <<>> = sent
    BY <2>4, <2>5 DEF Carried, Accounted
  <2>7. DataOf(chunks, Len(chunks)) \in Words
    BY <2>2, <2>4, CarriedTypes
  <2>8. got = sent
    BY <2>2, <2>4, <2>6, <2>7, ConcatEmptySeq DEF Words
  <2>9. Handed(m)'
    BY <1>1, <1>7, <2>1 DEF Handed
  <2>10. Received'
    BY <1>1, <1>4, <1>7, <2>9
  <2> QED  BY <1>1, <1>7, <2>8, <2>10 DEF Consumes
<1>8. CASE ~R!Failed /\ results = <<>> /\ ~done /\ waiting' = TRUE /\ UNCHANGED <<results, got, end>>
  <2>1. PICK m \in Nat : Handed(m)
    BY <1>8 DEF Received
  <2>2. Handed(m)'
    BY <1>1, <1>8, <2>1 DEF Handed
  <2>3. Received'
    BY <1>1, <1>4, <1>8, <2>2
  <2> QED  BY <1>8, <2>3 DEF Consumes
<1> QED  BY <1>5, <1>6, <1>7, <1>8 DEF R!NextResult

\* The consumer leaves.
LEMMA LeaveReceives ==
    ASSUME Received, R!Leave, UNCHANGED <<chunks, sent>>
    PROVE  Received' /\ Consumes
<1>1. /\ end = "open" /\ ~waiting /\ end' = "left" /\ buffer' = {}
      /\ UNCHANGED <<nextRef, busy, results, waiting, error, done, got>>
  BY DEF R!Leave
<1>2. \A k : Readable(k) <=> Readable(k)'
  BY DEF Readable, W!Indices
<1>3. \A m : Handed(m) <=> Handed(m)'
  BY <1>1 DEF Handed
<1>4. R!Failed' = R!Failed /\ W!Indices' = W!Indices
  BY <1>1 DEF R!Failed, W!Indices
<1>5. Received'
  BY <1>1, <1>2, <1>3, <1>4 DEF Received
<1> QED  BY <1>1, <1>5 DEF Consumes

\* The ttl.
LEMMA ExpireReceives ==
    ASSUME Received, R!Expire, UNCHANGED <<chunks, sent>>
    PROVE  Received' /\ Consumes
<1>1. R!SetError("ttl") /\ UNCHANGED <<busy, got>>
  BY DEF R!Expire
<1> QED  BY <1>1, SetErrorReceives

-----------------------------------------------------------------------------
\* A reader that has just been opened.
LEMMA ReceivedInit == ASSUME StreamAssumption, Init PROVE Received
<1>1. /\ waiting = FALSE /\ buffer = {} /\ busy = {} /\ nextRef = 0 /\ results = <<>>
      /\ got = <<>> /\ done = FALSE /\ chunks = <<>>
  BY DEF Init, R!Init, W!Init
<1>2. DataOf(chunks, 0) = <<>>
  <2>1. <<>> \in Seq(ChunkRecs) /\ 0 \in 0..Len(<<>>)
    OBVIOUS
  <2> QED  BY <1>1, <2>1, ChunksNext
<1>3. Handed(0)
  BY <1>1, <1>2 DEF Handed
<1> QED  BY <1>1, <1>3 DEF Received

\* The invariant, with what is on its way.
OrderInv == IInv /\ Carried /\ Received

\* What the application and the consumer may see of a step.
Ordered == \/ \E p \in Parts : sent' = Append(sent, p) /\ UNCHANGED <<got, end>>
           \/ Consumes

\* A step keeps the invariant, and shows no more than that.
LEMMA OrderStep ==
    ASSUME StreamAssumption, OrderInv, [Next]_vars
    PROVE  OrderInv' /\ Ordered
<1>0. IInv' /\ WriterInv /\ ReaderInv /\ Carried /\ Received
  BY StreamStep DEF OrderInv, IInv
<1>1. ASSUME WriterSteps, UNCHANGED readerVars PROVE OrderInv' /\ Ordered
  <2>1. Carried'
    BY <1>0, <1>1, WriterCarries
  <2>2. /\ sent' = sent \/ \E p \in Parts : sent' = Append(sent, p)
        /\ chunks' = chunks \/ \E c \in ChunkRecs : chunks' = Append(chunks, c)
    BY <1>0, <1>1, WriterAdds
  <2>3. Received'
    BY <1>0, <1>1, <2>2, ReceivedRests
  <2>4. UNCHANGED <<got, end>>
    BY <1>1 DEF readerVars
  <2> QED  BY <1>0, <2>1, <2>2, <2>3, <2>4 DEF OrderInv, Ordered, Consumes
<1>2. ASSUME UNCHANGED writerVars PROVE Carried' /\ UNCHANGED <<sent, chunks>>
  <2>1. UNCHANGED <<sent, chunks, comp, flow, isError, isDone>>
    BY <1>2 DEF writerVars
  <2> QED  BY <1>0, <2>1, SameCarries
<1>3. ASSUME UNCHANGED writerVars, UNCHANGED readerVars PROVE OrderInv' /\ Ordered
  <2>1. Carried' /\ UNCHANGED <<sent, chunks>>
    BY <1>2, <1>3
  <2>2. Received'
    BY <1>0, <1>3, <2>1, ReceivedRests
  <2>3. UNCHANGED <<got, end>>
    BY <1>3 DEF readerVars
  <2> QED  BY <1>0, <2>1, <2>2, <2>3 DEF OrderInv, Ordered, Consumes
<1>4. ASSUME UNCHANGED writerVars, Received' /\ Consumes PROVE OrderInv' /\ Ordered
  BY <1>0, <1>2, <1>4 DEF OrderInv, Ordered
<1>5. ASSUME NEW i \in W!Indices, Relay(i) \/ Lose(i) PROVE OrderInv' /\ Ordered
  BY <1>3, <1>5 DEF Relay, Lose
<1>6. ASSUME NEW i \in W!Indices, Deliver(i) PROVE OrderInv' /\ Ordered
  <2>1. UNCHANGED writerVars /\ UNCHANGED <<sent, chunks>>
    BY <1>2, <1>6 DEF Deliver
  <2>2. CASE open
    BY <1>0, <1>4, <1>6, <2>1, <2>2, ReceiveReceives DEF Deliver
  <2>3. CASE ~open
    BY <1>3, <1>6, <2>1, <2>3 DEF Deliver
  <2> QED  BY <2>2, <2>3
<1>7. ASSUME NEW i \in W!Indices, Decoded(i) \/ Reader(R!NotDecoded(i)) PROVE OrderInv' /\ Ordered
  <2>1. UNCHANGED writerVars /\ UNCHANGED <<sent, chunks>>
    BY <1>2, <1>7 DEF Decoded, Reader
  <2>2. Received' /\ Consumes
    BY <1>0, <1>7, <2>1, DecodedReceives, NotDecodedReceives DEF Decoded, Reader
  <2> QED  BY <1>4, <2>1, <2>2
<1>8. CASE Reader(R!NextResult) \/ Reader(R!Leave) \/ Expire
  <2>1. UNCHANGED writerVars /\ UNCHANGED <<sent, chunks>>
    BY <1>2, <1>8 DEF Reader, Expire
  <2>2. Received' /\ Consumes
    BY <1>0, <1>8, <2>1, NextReceives, LeaveReceives, ExpireReceives DEF Reader, Expire
  <2> QED  BY <1>4, <2>1, <2>2
<1>9. CASE UNCHANGED vars
  BY <1>3, <1>9 DEF vars
<1> QED  BY <1>1, <1>3, <1>5, <1>6, <1>7, <1>8, <1>9 DEF Next, Writer, WriterSteps

\* A step the abstract stream allows.
LEMMA OrderedIsAbstract ==
    ASSUME sent \in Words, Ordered
    PROVE  [Abstract!Next]_<<sent, got, end>>
<1>1. CASE \E p \in Parts : sent' = Append(sent, p) /\ UNCHANGED <<got, end>>
  <2>1. PICK p \in Parts : sent' = Append(sent, p) /\ UNCHANGED <<got, end>>
    BY <1>1
  <2>2. sent' # <<>> /\ Abstract!Front(sent') = sent
    <3>1. Append(sent, p) = sent \o <<p>> /\ <<p>> \in Seq(Parts) /\ sent \in Seq(Parts)
      BY AppendIsConcat DEF Words
    <3>2. SubSeq(sent \o <<p>>, 1, Len(sent)) = sent
      BY <3>1, FirstPart
    <3>3. sent' # <<>> /\ Len(sent') - 1 = Len(sent)
      BY <2>1, <3>1, AppendProperties, LenProperties
    <3>4. SubSeq(sent', 1, Len(sent') - 1) = sent
      BY <2>1, <3>1, <3>2, <3>3
    <3> QED  BY <3>3, <3>4 DEF Abstract!Front
  <2> QED  BY <2>1, <2>2 DEF Abstract!Next, Abstract!Accept
<1>2. CASE Consumes
  <2>1. CASE UNCHANGED <<got, end>>
    BY <1>2, <2>1 DEF Consumes
  <2>2. CASE end = "open" /\ end' = "open" /\ \E n \in Len(got)..Len(sent) : got' = SubSeq(sent, 1, n)
    BY <1>2, <2>2 DEF Consumes, Abstract!Next, Abstract!Receive
  <2>3. CASE end = "open" /\ got = sent /\ end' = "done" /\ UNCHANGED got
    BY <1>2, <2>3 DEF Consumes, Abstract!Next, Abstract!Finish
  <2>4. CASE end = "open" /\ end' \in {"error", "left"} /\ UNCHANGED got
    BY <1>2, <2>4 DEF Consumes, Abstract!Next, Abstract!Fail
  <2> QED  BY <1>2, <2>1, <2>2, <2>3, <2>4 DEF Consumes
<1> QED  BY <1>1, <1>2 DEF Ordered

\* The invariant of every reachable state.
LEMMA OrderInvariant == Spec => []OrderInv
<1>1. Init => OrderInv
  BY StreamAssumption, StreamInit, CarriedInit, ReceivedInit DEF OrderInv, Init
<1>2. OrderInv /\ [Next]_vars => OrderInv'
  BY StreamAssumption, OrderStep
<1> QED  BY <1>1, <1>2, PTL DEF Spec

\* While the writer works without an error, everything the compressor accepted is in the
\* chunks or in the compressor, once and in order, at every await of every flow.
THEOREM NothingIsDropped == Spec => []AcceptedIsSent
<1>1. OrderInv => AcceptedIsSent
  <2> SUFFICES ASSUME OrderInv, W!Idle, ~isError PROVE Data \o comp.parts = sent
    BY DEF AcceptedIsSent
  <2>1. ~HasError /\ \A f \in W!Flows : ~Takes(flow[f])
    BY DEF OrderInv, Carried, W!Idle, Takes, W!Resting
  <2>2. Data = DataOf(chunks, Len(chunks))
    BY DEF Data, DataOf, W!Indices
  <2> QED  BY <2>1, <2>2 DEF OrderInv, Carried, Accounted
<1> QED  BY <1>1, OrderInvariant, PTL

\* The stream is a stream in order: whatever is lost, late, refused or overtaken, the
\* consumer has a prefix of what was accepted, and all of it when it ends as done.
THEOREM StreamIsOrdered == Spec => ImplementsOrderedStream
<1>1. Init => Abstract!Init
  BY DEF Init, W!Init, R!Init, Abstract!Init
<1>2. OrderInv /\ [Next]_vars => [Abstract!Next]_<<sent, got, end>>
  <2> SUFFICES ASSUME OrderInv, [Next]_vars PROVE [Abstract!Next]_<<sent, got, end>>
    OBVIOUS
  <2>1. Ordered
    BY StreamAssumption, OrderStep
  <2>2. sent \in Words
    BY StreamAssumption, CarriedTypes DEF OrderInv, IInv
  <2> QED  BY <2>1, <2>2, OrderedIsAbstract
<1> QED  BY <1>1, <1>2, OrderInvariant, PTL DEF Spec, ImplementsOrderedStream, Abstract!Spec
=============================================================================
