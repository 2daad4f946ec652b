# A TLA+ model of askexperts

`askexperts` lets clients ask experts over Nostr and pay them over Lightning. This directory
holds TLA+ modules of its concurrent parts, TLC configurations that check them on small
instances, and TLAPS proofs of what the scheduler and its workers, the stream, the paid exchange, the copy of a
docstore and the registry guarantee. Source paths below are relative to the repository; `src/` is the TypeScript source directory.

Contents: 1 inventory of the system, 2 plan, 3 modules and how they correspond to the code,
4 runs and bounds, 5 fairness and timing, 6 what is proved, 7 what the model found,
8 what is not modelled.

## 1. Inventory

### Expert scheduler (`src/experts/scheduler`)
* **State.** `expertStates` (state and worker of each expert), `expertQueue`, `workers` (one
  connection record per worker id: socket, active experts, `needsJob`, job timer),
  `reconnectionTimers`, `startTimers`, `lastExpertTimestamp`. All in memory; the experts table
  in SQLite is the only thing that survives a restart.
* **Operations.** The monitor (every 5 s: rows changed since the last timestamp are
  queued, stopped or restarted), four worker messages (`experts`, `need_job`, `started`,
  `stopped`), the close of a socket, four timers (start, reconnection and job 60 s,
  monitor 5 s), and the assignment of queued experts to workers that wait.
* **Interaction.** Websocket messages `job`, `restart`, `stop`, `no_job` to the workers. Other
  processes write the table.
* **Hard.** Messages cross: an answer about an attempt that is over, from a worker that is no
  longer the owner, on a socket that has been replaced. Timers fire against answers that are
  under way. A worker, a socket or the scheduler can go at any point.
* **Correct when** every enabled expert is in the queue, watched by a timer, or running and
  known to run; an expert changes hands only through the queue; a stopped or disabled expert
  is not started; every connected worker keeps asking for jobs.

### Expert worker (`src/experts/worker`)
* **State.** The socket and `runningExperts`.
* **Operations.** Connect and reconnect, the handlers of the four messages, started without
  being awaited so that they overlap, and the pauses before the next `need_job`.
* **Hard.** `startExpert` tests the map before a long await and sets it after. A stop or a
  restart that arrives meanwhile finds nothing to stop. `sendMessage` drops what it cannot send.
* **Correct when** there is one instance per expert, the map agrees with what runs, and the
  request for the next job is never lost.

### Streams over Nostr, NIP-173 (`src/stream`)
* **State.** Writer: compressor, `chunkIndex`, `lastChunkId`, pending publishes, batch timer,
  `isDone`, `isError`. Reader: buffer keyed by prev tag, `nextRef`, `resultBuffer`, waiting
  promise, error, TTL.
* **Operations.** `write`, `error`, the batch timer, the callback of every publish; `handleEvent`,
  `processBuffer`, `next`, `return`, the TTL check.
* **Hard.** The writer's async functions interleave at every await of the compressor and of a
  publish. Chunks arrive in any order, or not at all. The reader decodes asynchronously while
  chunks arrive.
* **Correct when** the reader hands over a prefix of what was written, in order, says done only
  after all of it, and learns of an error.

### Ask protocol, NIP-174 (`src/server`, `src/client`)
* **State.** Per exchange, in the chain of awaits that serves it: the prompt, the quote, the payment,
  the proof, the replies. Shared by the asks of a client: the payment manager and, in the paying
  client, `maxAmountSats`; in `OpenaiAskExperts` the quotes that wait to be executed.
* **Operations.** Server: `handleAskEvent` (bid), `handlePromptEvent` (content, price, quote, then a 60 s
  wait for the proof, then work and replies). Client: `findExperts`, `askExpert` (prompt, quote,
  payment, proof, replies).
* **Hard.** The server publishes a quote before it subscribes for the proof; the client
  subscribes for the quote after it has published the prompt. Every timeout races a late answer.
  A payment can succeed and the proof fail to be published, or be reported as failed and succeed.
* **Correct when** an expert works only for a prompt that was paid, at most once, a client is answered
  only by that work, and a client that paid gets an answer unless something failed.

### Lightning payments (`src/payments`)
* **State.** `activePayments` (at most 5) and a FIFO queue.
* **Hard.** A failing payment must release its slot; `dispose` leaves queued promises pending.
* **Correct when** the limit holds, no payment waits while a slot is free, and every payment settles.

### Database (`src/db`), API server and the commands over it
* **State.** SQLite tables of users, wallets and experts in one file. The API server, commands on its
  machine and the scheduler open it, each with a connection of its own.
* **Operations.** `initDatabase` (with a migration of the users table), the methods of `DB`, most of them
  several statements without a transaction; the HTTP handlers of `DBServer`, which await the wallet
  service in between; `DBRemoteClient`, which turns statuses into results; commands that read a row and
  write it back. The scheduler's monitor pages through `experts` by timestamp.
* **Hard.** Requests overlap where a handler awaits; processes overlap at every statement; an answer is
  lost after the change was made; a crash in the middle of the migration.
* **Correct when** a user has one default wallet and an expert a wallet of its user, a user whose signup
  was answered is kept and has a wallet, and the monitor reaches every change.

### Document store (`src/docstore`) and RAG (`src/rag`, `src/experts/RagExpert.ts`)
* **State.** Documents by `aid` (auto increment), per subscription the last `aid` read; websocket
  server: connections, their authentication and subscriptions; client: one socket, the promise
  of its connection, pending requests, a buffer per subscription; expert: the batch of vectors not
  yet stored, and the collection.
* **Operations.** Upsert, delete and reads; subscribe, fetch and close; connect, authenticate, reconnect,
  time out; start an expert: empty the collection, copy the docstore, wait for the end of the feed.
* **Hard.** Paging against concurrent upserts (an upsert gets a new `aid`); handlers of one connection
  overlap where permissions are checked; the client reconnects but does not subscribe again; a
  callback that throws in the middle of a batch.
* **Correct when** every vector of the docstore comes into the collection of an expert that runs and is
  never replaced by an older one, an expert's start ends, and every request is answered or fails.

### Relay helpers (`src/common`)
* `publishToRelays` races every relay against a timeout; a relay may take an event after its
  timeout. `waitForEvent` and `fetchFromRelays` time out. Modelled where they are used.

### Other experts, OpenAI formats, MCP servers, importers, other commands
* Experts build prompts and call models; `src/openai` and `src/proxy` translate requests; `src/mcp`
  exposes the clients as tools; `src/import` converts files; `bin` parses arguments. They hold no
  concurrent state of their own, except the quotes mentioned above.

## 2. Plan

Most important first. The scheduler decides whether an expert runs at all, and its failures are
silent; the stream is next, because every reply of an expert passes through it.

1. `ExpertScheduler`: open model of the scheduler, against any worker. *Done.* Invariants proved.
2. `ExpertWorker`, `ExpertCluster`: the workers of the repository, and the system they form with
   the scheduler; the cluster implements the open scheduler, so what is proved of the latter
   holds in it. *Done*, checked; that it implements it, and every invariant of the cluster with the
   premises it needs, is proved.
3. `OrderedStream` (abstract), `StreamWriter`, `StreamReader`, `NostrStream`: the stream implements
   ordered delivery. *Done*, checked; the invariants of both ends and the refinement are proved.
4. `AskContract` (abstract), `LightningPayments`, `AskServer`, `AskClient`, `AskExchange`: a paid exchange
   implements its contract. *Done*, checked; the refinement is proved.
5. `DocStore`, `DocServer`, `DocClient`, `RagSync`, `DocReplica` (abstract), `DocSystem`: an expert's
   collection is a replica of the docstore. *Done*, checked; that it is a replica is proved.
6. `Registry`, `RegistryServer`, `RegistryClient`, `Platform`: the registry under overlapping requests and
   processes, and the monitor's paging. *Done*, checked; its three invariants are proved.
7. Asks and bids (discovery) of the protocol, with their own timeouts; several subscriptions of one
   document client.

## 3. Modules and code

### ExpertScheduler
`src/experts/scheduler/ExpertScheduler.ts`. The module is **open**: any worker may send any
message on any socket at any time, timers fire at any time, any process edits the table. What
holds here holds whatever the workers do.

| variable | code |
| --- | --- |
| `db`, `dirty` | the experts table, and the rows the monitor has still to read |
| `st` | `expertStates`: `[state, owner]`; `none` means no entry |
| `queue` | `expertQueue` |
| `workers` | `workers`: socket, `activeExperts`, `needsJob`, `ready`, whether its job timer is armed |
| `reconn` | `reconnectionTimers`, with the experts each timer's closure would requeue |
| `pend`, `mapped` | the start timers armed for an expert, and whether `startTimers` holds the newest |
| `stale` | job timers that outlived their connection record |
| `loop` | the loop the current handler is in |
| `live`, `down` | the websocket as the scheduler sees it |

*Atomicity.* The scheduler command opens SQLite in process (`DBClient` without a server), so an
`await` of a handler resolves before the next event and a handler runs to completion. A handler that
loops (assignment over the workers that wait, the experts of a report, the experts of a lost worker)
is one step per iteration, with `loop` set, while nothing else may move. Iteration over a JavaScript
`Map` is modelled as any order.

*Actions.* `ProcessExpert` is one row of `monitorExperts` with `processExpert` (stop, queue, restart,
already queued); `ReceiveExperts`/`ReportedNext`/`ReportDone`, `ReceiveNeedJob`, `ReceiveStarted` and
`ReceiveStopped` are the message handlers; `SocketClosed` is `handleWorkerDisconnect`;
`StartTimeout`, `ReconnTimeout` with `RequeueNext`, `JobTimeout` and `StaleJobTimeout` are the timers;
`AssignNext` is one worker of `assignJobsToWorkers`; `Reboot` ends the process and boots it again.

*Kept as the code has it.* `startTimers` remembers only the newest timer of an expert; an older one
stays armed, cannot be cleared, and drops the newer one's entry when it fires. `activeExperts` of a
record is replaced by a report, `expertStates` is not. A stop for a worker without a record returns
early and leaves the state. A restart of the process loses everything but the table.

### ExpertWorker and ExpertCluster
`ExpertWorker` is `src/experts/worker/ExpertRemoteWorker.ts` over `ExpertWorker.ts` beside it. `inst` are
the instances that exist in a worker, in the phases of their life (starting for a job or a restart,
up, being disposed of for a stop or a restart), `entry` is `runningExperts`, `asks` are the pending
pauses before `need_job`. `handleMessage` does not await the handlers, so `OnJob`, `OnStop` and `OnRestart`
only begin them; `StartDone`, `StartFails` and `Disposed` are the ends of their awaits. `Break` loses the
socket with what was under way to the worker and a tail of what was under way from it; `Crash` ends
the process.

`ExpertCluster` joins both by the sockets: `live` and `down` are shared, `up` has a channel per socket,
since the scheduler may still have to read a socket the worker has replaced. Its property
`ImplementsScheduler` states that the cluster is one behaviour of the open scheduler, so the theorems
about the latter hold in it.

### OrderedStream, StreamWriter, StreamReader, NostrStream
`OrderedStream` is the promise of a stream: data is accepted in order, the consumer receives any
next piece of it, and the stream ends as done only when all was received. `NostrStream` implements it
(`ImplementsOrderedStream`) with `sent`, `got` and `end` as they are.

`StreamWriter` is `src/stream/StreamWriter.ts` with the gzip compressor of `compression.ts`. Its async
functions are *flows* with a program counter: the application's, which writes as
`streamExpertReplies` of `src/server/AskExpertsServerBase.ts` does (one write after the other, then the
empty last write, `error()` after an exception), and one for every batch timer and failed publish that
calls back. A flow rests only where the code awaits I/O (the compressor's drain and end, the race for
a pending publish, the settling of the publishes). A microtask is not a point of interleaving: a
resting flow resumes only when no other runs. `isError`, `isDone`, `timer` and `size` (`currentChunkSize > 0`)
are the fields of the class; `comp` is the compressor, with `finished` for `streamFinished`.

Abstractions: data is a sequence of numbered writes; a write is one piece (the code splits it into
parts and treats each the same way); a chunk is its index, data and status. Index and `lastChunkId` are
assigned without an await between them, so a chunk's prev tag names the chunk of the index before. What
zlib has put out is not computed: `size` may become true after any write, never false. The compressor
may refuse a write whenever it is not empty (the size limit).

`StreamReader` is `src/stream/StreamReader.ts` read by one `for await`. `busy` holds the chunk `processBuffer`
is decoding; `buffer` is keyed by the chunk whose successor an event is. `NextResult` is `next()`, `Leave`
is `return()`, `Expire` the TTL. The relays are the set of chunks they hold: `Relay` (a relay takes a
chunk, perhaps after `publishToRelays` gave up on it), `Deliver` in any order, `Lose`. The relay pool drops
an event id it has seen; without that a duplicate that arrives while its chunk is decoded would be
handed over twice.

### AskContract, LightningPayments, AskServer, AskClient, AskExchange
`AskContract` is the promise of NIP-174 exchanges: money, work and outcome of every ask, whatever the
relays and wallets do. `AskExchange` implements it (`KeepsContract`), with `settled` as money, `served` as work and
the end of the client's chain as outcome.

| variable | code |
| --- | --- |
| `cli[a]`, `srv[a]` | where `askExpert` (and the loop over its replies), and `handlePromptEvent`, are for ask `a` |
| `net[a][k]` | the event of kind `k` (prompt, quote, proof, reply): unsent, being published, held by a relay, handed over, or missed; and what it says |
| `stream[a]` | the stream of a long reply, of which only the end matters here |
| `active`, `queue`, `paying` | `activePayments`, `paymentQueue`, and the payments the wallet works on |
| `settled` | invoices that are settled on the Lightning network, which neither side can read |
| `limit` | `maxAmountSats` of the paying client, shared by its asks |
| `up`, `closed` | the server's subscription to prompts; the wallet connection after `dispose` |
| `blamed`, `faults` | history: the asks that met a fault, and how many there were |

Both sides are chains of awaits; a chain advances from one await to the next in a step. An event is
handed over as soon as one relay has it, while its publisher still waits for the slowest; who does
not listen at that time (the server between publishing its quote and subscribing for the proof) may
get it later from a relay that keeps it, or never (`Miss`). A timer may fire at any time; while what it awaits
is on its way (`Coming`, `Late`), that counts as a fault. `Front[a]` says which program asks: the
paying client, `OpenaiAskExperts`, which holds a quote until somebody executes it, or an application
with an `onPay` of its own, which may return any proof. `NotPaid(a, TRUE)` is a wallet that reports an
error although the payment is made; `Paid(a, FALSE)` an `onPaid` that throws.

`Dispose` of the client destroys the pool of relays it created, then closes the wallet. Whoever waits for an event or an
acknowledgement through that pool (`Hanging`) waits for its timer: the stage `stranded`, which `GivesUp` ends. Chunks of
a stream that are on their way may or may not have come (`Streaming`). A pool that was handed to the client stays.

### DocStore, DocServer, DocClient, RagSync, DocReplica, DocSystem
`DocReplica` is the promise of the copy: a vector comes from a row that was written for its document by
the user whose documents are copied, and gives way only to a later one or to an emptied collection.

| variable | code |
| --- | --- |
| `log`, `rows` | every row of `docs` ever written, at its `aid`; the `aid` of each document's row |
| `exists` | the row of the docstore |
| `feed` | the subscription at the database: `isActive`, its socket, `lastAid`, and which page it hands over |
| `sk[s]` | socket `s` as its client and its server see it, what is under way to either, `ws.authenticated` |
| `inHand` | messages whose handlers await a permission check |
| `cl` | the client: socket, `connected`, `authenticated`, `connectPromise`, `reconnectTimeout`, `disposed` |
| `req[r]` | `sendAndWait` of request `r` |
| `sub`, `buffer`, `busy` | the client's callback, its `docBuffers`, and whether the callback awaits something |
| `rag`, `batch`, `left`, `atEof` | `RagExpert.start`; the batch of `DocstoreToRag`, the rest of the document at hand |
| `coll` | the collection: the `aid` each vector came from |
| `via` | `local`: the expert opens the database file; `socket`: through client and server |

SQLite calls are synchronous, so a handler without permissions is one step, and with a `DocStorePerms`
object two: it arrives, and it goes on when the check answers. The permissions themselves are external. Other
processes write to the file at any time (`Write`). The number of vectors of a document goes through the
two-byte header of `float32ArraysToBlob`, not past it. A document is its number of vectors: texts and
embeddings are data.

`storeBatch` upserts by id, and the vector database refuses a batch with an id twice (`Storable`). The batch is emptied
only after it was stored, so such a batch stays: `StoreFails` is the only way on. What follows from the exception depends on
where the callback runs: the client catches it, the first page of a local subscription too, a later page does not.

### Registry, RegistryServer, RegistryClient, Platform
`Registry` has a step for every SQL statement of `DB`: `call[p].at` is the statement process or request `p`
is about to run. The API server runs the statements of a handler in one turn of its process and lets
other requests in only where it awaits the wallet service (`Turn`); processes that share the file interleave
at every statement. A timestamp is taken before the statement that writes it, which may wait for the
lock of another process, so timestamps are not committed in order.

`RegistryServer` is `DBServer`: start, stop and crash, the route of each request, signup and external users, the
status of each answer. `RegistryClient` is `DBRemoteClient` (status to result) and the commands, each a chain of
calls that writes what an earlier one read. `Platform` joins them with the scheduler's monitor: `cursor` is
`lastExpertTimestamp`, `seen` the version of each expert's row it processed last. `shared` distinguishes
the two ways to run it: the API server alone over its file, where its faults are looked at, and a
file shared with commands and the scheduler. `joined`, `cut` and `spaced` are history. A user's id stands for the
public key; the verification of tokens is assumed to have told who calls.

## 4. Runs and bounds

Numbers are distinct states. Each run asks a question of its own.

| run | module | what it shows |
| --- | --- | --- |
| `scheduler_open` | `MCExpertScheduler` | Whatever two workers send: the type invariant, a queued expert is in the queue (`QueuedIsInQueue`), an active one has an owner (`OwnedWhenActive`), no reconnection timer is armed for a worker with a record (`ReconnOnlyWhenGone`). |
| `cluster_faults` | `MCExpertCluster` | Two real workers, one loses its socket twice and may die: what runs is known (`RunningIsTracked`), what starts is watched (`StartingIsTimed`), what is started is requeued if its worker is lost (`StartedIsRecoverable`), nothing is queued while it runs, nothing is forgotten, an expert changes hands only through the queue, and an enabled expert is served for ever after (`EnabledIsServed`). |
| `cluster_edits` | `MCExpertCluster` | Two edits (disable, enable, update) of an expert while it starts, runs and stops, with 60 s timers that may fire while answers are under way: workers keep asking for jobs (`JobLoopAlive`), what is held for started runs (`TrackedIsRunning`). |
| `cluster_restarts` | `MCExpertCluster` | Two experts of different types, one whose start may fail every time, and a restart of the scheduler or the death of a worker: the other expert is served. |
| `stream` | `NostrStream` | A stream with two writes, two overlapping callbacks and one refused or lost chunk implements `OrderedStream`; nothing accepted is lost or doubled in the writer; nothing follows a done chunk; the consumer never waits while there is something to hand over; a stream that was closed is received, not cut off by the TTL. |
| `exchange` | `MCAskExchange` | Two asks of a client with one payment slot implement `AskContract` (`KeepsContract`); slots are neither lost nor left free (`SlotsAreFull`); what is paid is answered unless a fault hit the exchange (`PaidIsAnswered`); every ask ends (`AskSettles`) and so does every chain of the server (`ServerLetsGo`). 136 870. |
| `docs` | `MCDocSystem` | An expert copies a docstore, from the file or over a websocket, while others write: the collection is a replica (`Replicates`) and, unless a batch has an id twice, catches up (`CatchesUp`) and the start ends (`StartEnds`); requests end (`RequestsSettle`); without permissions no subscription outlives its socket (`ClosedIsCleanWithoutPerms`). 525 699. |
| `platform` | `MCPlatform` | Two commands out of nine whose requests overlap in the API server, with a crash, a stop, a lost answer or a failing wallet service; or two out of five that share the file, with a command killed: tables agree with each other while the server writes alone (`TablesAgree`), users are kept (`UsersStay`), the monitor reaches what is written two milliseconds apart (`ChangesAreSeen`). 137 820. |
| `cex_*` | | Counterexamples, see section 7. |

**Bounds.** `MaxConn` sockets per worker (3: two breaks, the second while the first is still being
noticed; 4 finds the failure (c) of section 7). `MaxFaults` = 1 process that dies or restarts: with one
scheduler and two workers no worker would be left after two crashes, since a worker id
is not used again; section 7 (e) tells what several faults do. `MaxEdits` = 2 covers disable followed by enable, and update
followed by disable. `MaxPending` start timers per expert, `MaxInst` instances, `MaxAsks` pauses bound what a
repeated failure accumulates; guards stop the environment, never a handler, before a bound.
`scheduler_open` caps what arbitrary workers could pile up (`Small`) and lets the system drain beyond it.
One expert is enough for the properties of one expert; `cluster_restarts` has two, because a failing
expert competes with another for the queue. Two workers are the least for a change of owner.

Stream: `MaxWrites` = 2 and the closing write make three chunks, the least with one in the middle to be
overtaken or lost. `MaxFlows` = 2 callbacks overlap with the application. `Window` is the number of pending
publishes above which a chunk waits: 10 in the code, 0 in the run, so that waiting happens with
the second chunk. `MaxFaults` = 1 refused or lost chunk. `MaxChunks` is the reader's configured limit.

Exchange: `a1` is asked by the paying client with a limit below its price, so that the application's
consent is needed; `a2` by the two other fronts, with a prompt long enough for a stream. Two asks over one slot
(`MaxParallel` = 1) make one wait in the queue; a second fault reaches no further state of interest per ask, since
one fault takes an ask out of what is promised to it, and the other ask is there to suffer from it.

Docs: `MaxWrites` = 2 rows are enough for a document to move to a new `aid` between two pages of
`BATCH_SIZE` = 1, to come into one batch twice, or for a document of another user to be skipped; `RAG_BATCH_SIZE` = 2 with a document of
two vectors after one of one splits a document over two batches. `Sockets` = 2 allow one reconnection,
`MaxBuffer` = 2 lets pages queue up behind a busy callback. The constants of the code (1000 rows, 100
vectors, 65535 vectors per document) differ in size only.

Platform: `MaxJobs` = 2 is the least for an overlap; the jobs are the commands that write a common row.
`LIMIT` = 1 (1000 in the code) makes every page full; `MaxClock` = 4, with the clock starting two ticks after
the newest row, leaves room for rows 0, 1, 2 and 3 ms apart.

Deadlock is checked for scheduler and cluster. It is switched off for the stream, the exchange, the
document store and the platform, which do come to rest.

## 5. Fairness and timing

`ExpertCluster!Fairness` is weak fairness of what Node and the operating system run sooner or later:
handlers and their loops, armed timers, reading a socket, the completion of a start or a stop, the
reconnection of a worker without a socket. No edit, break, crash, reboot or failing start is fair.

`InTime` is the one assumption about time: unless an expert is in `Slow`, what is under way about it
settles before a 60 s timer about it fires. The code's constants are built on it: an expert starts in
less than 60 s or is given to somebody else. `cluster_edits` drops it (`Slow` = {e1}).
`Overlap` = FALSE assumes that the scheduler sees the close of a socket before the worker's next socket
(the worker waits 5 s before it reconnects).

`NostrStream!Fairness` is weak fairness of the writer's runnable and resumable flows, of relays that take
and hand over chunks, of decoding and of a consumer that asks for the next chunk. Nothing obliges a write, a
fault or the consumer to leave. `Expire` has one assumption about time: once the writer has no more to
say, the reader's TTL (60 s) outlasts what is still under way to it; before that it may fire at any moment.

`AskExchange!Fairness`: timers fire, callbacks and the wallet return, a relay takes what is being published
while its publisher waits. Nothing obliges anybody to ask, to execute a quote or to restart the
server. A timer that fires while its answer is on the way is allowed, and counts as a fault: the
promise to a client that paid presumes that 60 s are enough.

`DocSystem!Fairness`: connections open or fail, what is under way arrives, handlers, callbacks and timers run.
Timers that fire early are faults as above and not fair. A store fails by a fault, which is not fair, or because the batch
cannot be stored, and then it is. Nobody has to write, ask, start or stop.

`Platform`: only the monitor is fair, which runs every 5 s for as long as the scheduler lives.

## 6. What is proved

`SequenceLemmas` has the facts about sequences the proofs need (removing an entry keeps all the others,
a non-empty set of naturals has a least element, an order of a finite set has exactly its elements, what
concatenating, cutting and dropping the head of a sequence does, and what `FlattenSeq` gives). `FlattenSeq` is a recursive function, which to the prover is the function, if
there is one, that satisfies its equation: `FlattensExists` constructs one (as the flattening up to a least
element of the counterexamples) and `FlattensAgree` shows that there is no other.
`ExpertSchedulerProofs` proves, for every set of experts and workers and every bound, from
`SchedulerAssumption` alone (finite sets, `NoWorker` is no worker, bounds are naturals):

* `TypeCorrect`: `Spec => []TypeOK`. `TypeOK` is not inductive: the report loop writes `loop.worker` into
  `expertStates`, which is type correct only because that loop belongs to a worker. The inductive
  invariant is `TypeInv == TypeOK /\ LoopHasWorker`.
* `QueuedExpertsAreInQueue`: `Spec => []QueuedIsInQueue`. The argument goes through `Selection`: the entry
  that is taken from the queue is the one of the expert that becomes `starting`, and `RemoveAt` keeps
  every other expert.
* `ActiveExpertsAreOwned`: `Spec => []OwnedWhenActive`. `processExpert` therefore never throws
  "Running expert without worker id", whatever the workers send.
* `ReconnectionClearsTimer`: `Spec => []ReconnOnlyWhenGone`. A worker that has come back is never
  stripped of its experts by the old timer.

Each proof has one step per action. The last three are inductive together with `TypeInv`.

`ExpertLinkProofs` proves of the open scheduler `SocketsStartEmpty`: nothing is under way to a worker that listens
on no socket. The inductive invariant `LinkInv` adds to `TypeInv` that a worker without a record waits for no job
and that a report is handled while its worker has a record, which is what keeps every send on a socket.

`ExpertClusterProofs` proves `ClusterImplementsScheduler`: `Spec => ImplementsScheduler`, for any experts, workers,
sockets, instances, faults and timers. With it the four invariants above hold in the cluster by a theorem; the runs
check it on small instances. A step of a worker maps to `Deliver` (it takes a message), to `Listen` (it opens or
loses its socket) or to none. Two facts make that true and are the invariant `ClusterInv`: what the workers send has the
shape of the messages the open scheduler expects (`WorkerInv`), and a worker that opens a socket finds nothing under
way on it (`LinkInv`), since `Listen` says so and `Open` does not touch `down`.
`WorkersAreSound`: `Spec => []WorkerTypeOK`. `runningExperts` names only instances that run or are being closed; with
it, `RunInv`, an instance that is starting is never the one in the map, so a failed start takes nothing out of it.
`WorkersKeepAsking`: `Spec => []JobLoopAlive`, if `~Overlap` and `"absent" \notin Edits`. Both premises are needed (7 a, 7 g)
and are those of the runs; nothing is assumed of `Slow`, `CanFail`, the faults or the number of workers. Each worker has
its invariant, `AskInv`. Only its newest socket carries anything, and a close ends what it carries (`OneSocket`,
`CloseIsLast`). So the record the scheduler keeps is that of this socket, and goes with it (`RecordIsOfSocket`); an answer is
never written to another one. The report comes first on a socket, so a request finds the worker ready
(`Greeted`) and is answered or timed (`Requests`). `Present` says that a queued expert has a row, so no
selection is missed. `ExpertLinkProofs` shows of the open scheduler what it does not take from a worker while it is occupied
with something else (`OthersRest`), and what it does with a worker's message (`ReceiveRests`).
`ClusterAssumption` is what the scheduler assumes, and that the bounds of the workers are naturals.

The other properties of the cluster are false for some values of the constants, so each theorem names the
premises it needs, which section 7 (y) shows by what happens without them. `Overlap` and the number of experts,
workers, sockets, instances, crashes, edits and timers stay arbitrary.

| theorem | property | premises |
| --- | --- | --- |
| `StartedExpertsAreRecoverable` | `StartedIsRecoverable` | no breaks (`Breakable = {}`), no row deleted (`"absent" \notin Edits`) |
| `TrackedExpertsRun` | `TrackedIsRunning` | and no edits or no failing starts (`Edits = {} \/ CanFail = {}`) |
| `OnlyQueuedExpertsWait` | `OnlyQueuedInQueue` | no breaks, rows only enabled (`Edits \subseteq {"enabled"}`) |
| `ExpertsAreHandedOverThroughQueue` | `HandedOverThroughQueue` | the same |
| `EnabledExpertsAreTracked` | `EnabledIsTracked` | and no restart of the scheduler (`MaxRestarts = 0`) |
| `AttemptsAreTimed` | `StartingIsTimed` | and answers before timers (`Slow = {}`) |
| `RunningExpertsAreTracked` | `RunningIsTracked` | and no edits or no failing starts |

An edit "enabled" is one that writes an enabled row, so it includes the update of an expert that is queued, being
started or started, which restarts it. Crashes of workers, failing starts and, but for the last two
theorems, timers that fire while answers are under way are all in. Every step is first reduced to a kind
(`StepKinds`: `Scheduling`, `Editing`, `Working`, `Reboot`); the invariants are:

* `BaseInv` (first theorem): `FullInv` (types, maps of the workers, rows), `OwnedWhenActive`, `Asking` (`AskInv` of every
  worker, for which the absence of breaks does what `~Overlap` does above), and `Known`: an expert held for started is in the
  record of its owner, waits for its reconnection timer, or is being requeued (`Recoverable`). The scheduler gives up the
  experts of a worker only when the worker is gone (`GivenUpGone`), and has given none to a
  worker it has not heard of (`NewOwnsNothing`).
* `Truth` (second): what a worker has said is true. An expert that is held for started, that a report names or that a `started`
  under way speaks of runs, unless a `stopped` follows on the socket (`ClaimsHold`). An instance that closes owes an answer (`ClosingAnswers`).
* `Queueing` (third and fourth): a queued expert is nobody's, or that of a worker that is gone. So nobody
  is left to say `started` about an entry of the queue, and what leaves it has no worker the scheduler counts on.
* `Steady` (fifth): a worker reports once, before it has started anything (`Unstarted`), and no row is disabled, so nobody
  is told to stop an expert and no worker says it stopped one (`Unstopped`); nothing else deletes a state (`Calm`).
* `Attempted` (sixth): a start the scheduler counts on is watched by a timer of its worker (`Watched`), and only
  that worker may speak of the expert. Whatever another one had under way about it was settled
  before the timer that took the expert from it (`Silent`); otherwise its `started` would clear the timer.
* `Placed` (seventh): each worker runs an expert as the attempt the scheduler knows, with its answer under way if the
  scheduler has not heard it (`Answering`), or has nothing of it (`Nothing`).

All rest on `BaseInv`; the sixth and seventh theorems on `QuietInv`, which is the first, third and fourth of the list, and the
seventh on `Truth` as well.

The runs are instances of them: `cluster_edits` (no breaks, no failing starts) of the first two, `cluster_restarts` (no breaks,
no edits) of the first four, and the behaviours of `cluster_faults` without a break of all.

`AskExchangeProofs` proves, for every set of asks, any fronts and prices, every number of payment slots
and any number of faults, from `ExchangeAssumption` alone:

* `TypeCorrect`: `Spec => []TypeOK`, which contains that a chain awaits the payment manager exactly if a
  payment of it is under way or queued: no ask waits for a payment nobody will make.
* `PaymentSlots`: `Spec => []SlotsAreFull`.
* `ExchangeKeepsContract`: `Spec => KeepsContract`; every step of the exchange is a step of `AskContract` or
  none.

The inductive invariant is `IInv == Shape /\ SlotsAreFull /\ Waits /\ WorkIsServed`. `Waits` adds that no ask is
twice in the queue: otherwise the end of its payment would leave it both ended and queued. `WorkIsServed`
ties what travels to what was done: a reply under way, a stream being read and a chain that works all belong
to a prompt in `served`, which is why an answer implies work. The proof does not go through the forty
actions for every conjunct. First every step is shown to be one of four kinds of move (`ClientMove`, `ServerMove`,
`NetMove`, `ProcessMove`), each of which says what it may change; the invariant and the refinement then follow
from the kinds.

`DocSystemProofs` proves, for every docstore, any number of sockets, writes and faults, and batches of any size,
from `DocAssumption` alone:

* `ClosedSocketsAreClean`: `Spec => []ClosedIsCleanWithoutPerms`. The inductive invariant is `FeedInv == Shape /\
  FeedIsOpen`. Without permissions nothing is ever in hand (`inHand = {}`): a message is handled in the step that
  finds its socket open, so a subscription is made for a socket that is not closed, and the step that closes a
  socket takes its subscription with it. With permissions the first half fails, and so does the property (7 p).
* `DocTypeCorrect`: `Spec => []TypeOK`. A batch may exceed `RAG_BATCH_SIZE` by the number of faults: a store that
  fails leaves the full batch where it is, and the next vector is added to it before it is tried again. Only a batch
  that has an id twice may grow further.
* `CollectionReplicates`: `Spec => Replicates`, locally and through client and server, with permissions or without.

The last needs `CopyInv == DocTypes /\ Origins /\ Chain /\ Once`. `Origins`: whatever travels (in a socket, the buffer, the rest
of a document, the batch) comes from a row that was written for its document by the user who is copied, so
a vector does. `Chain`: `aid`s do not decrease along the way of a document, from the collection over
batch, rest, buffer and socket to `feed.last`, which is why a vector never gives way to an earlier one; only one
socket carries documents. `Once`: the expert subscribes once; while that message is under way nothing was copied,
so a second feed, which starts at `aid` 0 again, would break the chain and there is none. The steps are
reduced to a few kinds (a socket that carries less, a page that is fetched, a document that is unpacked, a batch
that is stored, a feed that begins), and the invariant and the refinement are shown of each kind.

`NostrStreamProofs` proves, for every number of writes, flows, pending publishes and faults, from
`StreamAssumption` alone (the bounds are naturals):

* `TypeCorrect`: `Spec => []TypeOK`, which contains that the reader decodes one chunk at a time and keeps
  nothing of a stream that failed.
* `DoneEndsTheStream`: `Spec => []DoneIsLast`.
* `ConsumerIsWoken`: `Spec => []WaitsForNothing`.
* `NothingIsDropped`: `Spec => []AcceptedIsSent`.
* `StreamIsOrdered`: `Spec => ImplementsOrderedStream`.

The invariant of the first three is `IInv == WriterInv /\ ReaderInv`. Nothing in the writer compares the status of a
chunk with what follows it; `DoneIsLast` holds because of how the fields exclude each other, and `WriterInv` is
that argument. Only one flow runs (`OneRuns`). Whoever flushes finds a compressor that is there, and one flow at a
time awaits its end (`Compressor`), so that what a flow takes from it is all there is: `size` is false until
the application adds data (`NothingLeft`). A callback that reports an error makes two chunks, first what is pending,
then the error; it does so only where the application can no longer reach the end of a write, because `isError`
stops the next write, a drain waits for a compressor that is finished, and a write that continues after a
full compressor has left `size` false (`PendingReports`, with `WriteIsStuck`). So when `isDone` is set nobody is about to report
(`DoneWrites`), and after the chunk that says done nobody has anything to flush (`DoneSends`). `StreamInvariant` states
that all of this holds in every reachable state. Each action is first reduced to the move of one flow (`Moves`).

The last two follow the data, with `OrderInv == IInv /\ Carried /\ Received`. `Carried` is about the writer. Only the flow
that took the compressor's content and has not made a chunk of it holds data, and the compressor is empty
meanwhile; so, until there is an error chunk, the chunks, that flow and the compressor hold what was
accepted (`Accounted`). After an error chunk less may be there: `dispose()` destroys what the compressor held. The chunks
before it, joined, are still a prefix of what was accepted (`InOrder`), and once a chunk says done there is none
with an error and the compressor is empty, so they are all of it. `Received` is about the reader: unless the
stream failed, the consumer was handed the data of the first `m` chunks and `results` holds those from `m + 1` to `nextRef`,
whatever order they came in. `OrderStep` joins the two: what is handed over next is the next piece of what was accepted.

`PlatformProofs` proves, for any users, names of wallets, experts and jobs, any number of commands, processes
that share the file and faults, and pages of any size, from `PlatformAssumption` alone:

* `TypeCorrect`: `Spec => []TypeOK`.
* `RowsAgree`: `Spec => []TablesAgree`.
* `NoUserIsLost`: `Spec => []UsersStay`.

The inductive invariant is `IInv == TypeInv /\ (~shared => Alone)`: with other processes on the file neither property
holds (7 t, 7 u), and what makes the difference is `Alone`. One request at a time is between two
statements (`OneRuns`), so what a handler read is still true when it writes: before the statement that
inserts a default wallet the user has none, before one that writes an expert its wallet is there, before one that
deletes a wallet no expert uses it (`Ready`). `OneDefault` and `PaidWallets` are then kept by each statement. `Kept` is the
same for `initDatabase`, as long as no crash fell between DROP and RENAME (`~cut`): where the table `users` is gone its copy
has every user whose signup was answered or is about to be.

*Model-checked only*: all liveness and what `ENABLED` says, both outside the prover (`EnabledIsServed` and
its like of the cluster, and the liveness properties of `stream`, `exchange`, `docs` and `platform`), and what the invariants
of the cluster do beyond the premises above: `cluster_faults` shows all of them with two breaks of a socket, and where
three of them, or one worker more that may break, make them fail, no theorem could say more
without counting breaks. No invariant a run checks is without a theorem.

## 7. What the model found

Runs that end in a counterexample:

* `cex_disabled_assigned` (`DisabledIsNotRun`): an expert that is disabled while it waits in the queue is
  handed to a worker. `processExpert` stops only experts with a worker (ExpertScheduler.ts:305) and the
  assignment does not look at `disabled`.
* `cex_stream_error_lost` (`ExceptionIsReported`): `error()` called while the batch timer's flush awaits the
  compressor rejects with "Already finalized" and no error chunk is sent; the reader waits for its TTL.
* `cex_docs_reconnect` (`ReconnectSurvives`): a reconnection that fails rejects a promise nobody awaits
  (DocStoreWebSocketClient.ts:170), which ends the process.
* `cex_second_signup` (`UsersHaveWallet`): the names of wallets are unique over all users (DB.ts:35), so the
  "main" wallet of the second user is refused after the user was inserted; the second attempt answers 200.

Further behaviours TLC shows under other bounds or with the named property, without a run of their own.

Scheduler and workers:

* (a) `cluster_edits` with `Overlap` = TRUE and `Breakable` = {w1}: the messages of a new socket are attributed to
  the record of the old one ("Existing worker reconnected", ExpertScheduler.ts:190), whose close then
  removes the record of a live worker; `JobLoopAlive` fails.
* (b) `cluster_faults` with both workers crashable and more faults: a requeued expert keeps its old owner, so a
  late `stopped` of that owner deletes the state of its next attempt (ExpertScheduler.ts:449);
  `EnabledIsTracked` fails.
* (c) `cluster_faults` with `MaxConn` = 4: after three breaks a `stopped` is lost and `expertStates` says
  `started` for an expert no report mentions (ExpertScheduler.ts:566); `StartedIsRecoverable` fails.
* (d) `cluster_edits` with `CanFail` = {e1}: the row is updated while a job starts. The job's `started` marks the
  expert started, the restart then stops it, and its failed start is not reported; the restart's timer
  (ExpertScheduler.ts:1157) acts only on an expert that is starting. `TrackedIsRunning` fails.
* (e) Several faults together (a restart of the scheduler, a break and a crash) leave an enabled expert
  unserved.
* (f) `cluster_edits` with `OneInstance`: a restart handled while the job's start is still awaited finds
  nothing to stop (ExpertRemoteWorker.ts:407) and starts a second instance, which replaces the first in
  `runningExperts`; the first can no longer be stopped.
* (g) `cluster_edits` with `"absent"` in `Edits`: a worker selected for an expert whose row is gone loses its
  request (`needsJob` is cleared first, ExpertScheduler.ts:885) and gets no further job until it
  reconnects; `JobLoopAlive` fails.
* (h) `cluster_edits` with `StartingIsTimed`: a `started` message clears the start timer before the sender is
  compared with the owner (ExpertScheduler.ts:734).
* (y) Each premise of the theorems of section 6 is needed.
  - *Breaks*: (c) for what is started. With two experts, e1 slow, and an edit, a restart of e1 is under way when
    the socket of its worker breaks; the reconnection timer queues e1 and leaves its owner in place, the
    worker comes back, is given the other job, and its late `started` (ExpertScheduler.ts:734) marks e1 started while
    its entry stays in the queue, from which a second worker gets it: `OnlyQueuedInQueue` fails, with a single
    break and `Edits` = {"enabled"}. `EnabledIsTracked` fails with two workers that may break and no edit, or with
    one that may break and one that may die. `StartingIsTimed` and `RunningIsTracked` fail with one that may break
    and two edits.
  - *Restarts*: a `started` of an attempt from before the restart clears the timer of the next attempt, made on another
    worker (`StartingIsTimed`, `RunningIsTracked`). With slow experts, a worker whose report is refused after the
    restart is told to stop, is given the expert again while it closes, and its late `stopped` deletes the state of
    that attempt (`EnabledIsTracked`).
  - *Disabling edits and slow experts*: (h). *Deleted rows*: (g).
  - *Failing starts with edits*: (d) for `TrackedIsRunning`. `RunningIsTracked` fails with four edits: the second
    instance of (f) fails to start and the first runs on, unknown to anybody. `StartingIsTimed` holds, and needs
    no such premise.

Stream:

* (i) The callback of a failed publish calls `error()` without awaiting it. After
  `write("", true)` that call rejects with "Stream is already done"; nothing handles the rejection, and Node
  ends the process (`crashed`). With one refused publish this is reachable.
* (j) An error chunk that no relay takes calls `error()` again, which creates another error chunk,
  for as long as relays refuse. Disposing of the compressor while another flow awaits it leaves that flow
  (and a `write` of the application) waiting for ever.
* (k) An error chunk is not put in order: results that were complete and in order are dropped if
  the consumer has not taken them. NIP-173 describes buffering.

Exchange:

* (l) `WithinRequest` fails with two asks of one paying client (`BothPaying`): "Set the max amount for this
  specific request" (AskExpertsSmartClient.ts:363) sets a field the requests share, and the quote of the
  first ask is compared with the limit of the second.
* (m) A payment waits in the queue longer than the 60 s the server waits for the proof
  (AskExpertsServerBase.ts:917): the client pays and nobody works. The same after an `onPaid` that throws, or a wallet
  that reports an error for a payment it made: the proof says that the payment failed. Or the client is disposed of after it paid:
  `pool.destroy()` (AskExpertsClient.ts:184) closes the subscription its reply would come through, and it waits for its timeout.
  `PaidIsAnswered` counts each of these as a fault of that ask.
* (n) A stream of replies that cannot be set up is only logged (AskExpertsServerBase.ts:1332): the client, which
  paid, waits for its timeout. An empty reply is sent as an event without content (1151), which the client cannot
  decrypt.
* (o) A quote nobody executes is held for ever, for instance one above the caller's limit
  (OpenaiProxy.ts:378). `stop()` of the proxy sets `stopped` to false (474).

Documents:

* (p) With permissions, a handler that awaits its check while its socket closes registers a subscription
  that nothing removes: `ClosedIsClean` fails, and `ClosedIsCleanWithoutPerms` is what remains of it.
* (q) `connect()` replaces the promise that waiting requests await (DocStoreWebSocketClient.ts:186): they
  wait for ever, without a timer. After a reconnection the subscription is not made again (458), and the
  expert silently stops to follow its docstore.
* (r) A callback that throws drops the document at hand: "Remove from processing set to allow retry" (819) goes
  on with the next one. In the process of the database the exception ends the subscription.
* (s) A document that is deleted, or written again with fewer vectors, leaves its old vectors in the collection;
  `buildContext` asks the docstore for the documents they name, and finds those that still exist.
* (z) `SyncEnds` fails in the instance of `docs`, without a fault: a document that is written again while its vectors wait
  in the batch is in it twice. The vector database refuses ids that occur twice (ChromaRagDB.ts:78), and the batch is
  emptied only after it was stored (DocstoreToRag.ts:170), so nothing is stored any more. Over the socket, and in the first
  local page, the exception is caught, the end of the feed is never reported and `RagExpert.start` waits for ever; in a later
  local page it is an unhandled rejection, which ends the process.

Registry:

* (t) Where processes share the file, `TablesAgree` fails: two default wallets of a user, an expert whose wallet
  was deleted between the check and the insert. An old default is unset before the insertion or the update is
  refused, and a user is left without one.
* (u) The test row of `initDatabase` is refused when a crash left it there, or when another process is between
  its insert and its delete: the table is recreated at every start ("privkey column is NOT NULL, need to recreate
  table", DB.ts:157, is then not the reason). Users inserted between copy and drop are lost, and with a crash between
  DROP and RENAME all of them.
* (v) Rows written within a millisecond of one another, committed late, or more of them with one timestamp than
  a page holds, are passed by `lastExpertTimestamp++` (ExpertScheduler.ts:278). A deleted expert leaves no row, so the
  scheduler keeps it running.
* (w) `expert update` and the openrouter command write a row back as they read it: an edit in between is undone.
  `DBRemoteClient` returns false for an edit that was made and whose answer was lost.
* (x) `ensureExternalUser` awaits between its look-up and its insertion: two requests make two users
  for one external id ("FIXME make it all a tx!!!", DBServer.ts:823). `DBServer.start()` after `stop()` throws "Already
  started" (987), since the field is never reset.

## 8. Not modelled

* Data: the content of prompts and replies, formats, encryption, JSON. A message is its type and what it is
  about; a document is its number of vectors.
* Scheduler: a job whose wallet row is missing, a type of expert that changes while it is queued, the stop
  of the scheduler by its command.
* Stream: the splitting of a write into parts, the compressor for browsers and the one without
  compression, a failing encryption in the writer, `throw()` of the iterator (`for await` does not call it). The await of
  the flush a compressor does near its size limit (compression.ts:726) is no point where another flow may run.
* Ask protocol: asks and bids (`findExperts`, `handleAskEvent`), the publishing of profiles, the choice of an
  expert by the smart client. They read and answer without a state of their own. An event is handed over once:
  a server that restarts asks for the prompts and proofs of the last minute (AskExpertsServerBase.ts:617, 909) and may be
  given one it has served before.
* Document store: several docstores and subscriptions at once, the creation and migration of its
  database, the permission service (external), the computation of embeddings and the similarity search.
* Registry: methods that only list, `updateUser` and `deleteUser`, the addition of missing columns, the
  verification of tokens, the wallet service beyond that it answers or fails. Nicknames are not kept: they are unique
  (DB.ts:56), so an insertion or an update may be refused for that of any other expert (`Nicknamed`).
* OpenAI formats, MCP servers, importers, prompts and options of the commands: no concurrent state.
