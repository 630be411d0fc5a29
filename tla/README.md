# Transcriptor: models, checks and proofs

TLA+ models of the transcription service in `src/app`: a file is cut into
overlapping windows ("chunks"), the chunks are transcribed independently by
backends, and their texts are put together again in order. The models cover the
coordination (who works on what, in which order results are stored, counted and
assembled, what a failure leaves behind) and leave out audio, inference and HTTP
formatting.

Run a check with `tlc -config redis_faults.cfg MCRedisAsync.tla` (the MC module of
each configuration is in the table below) and the proofs with `tlapm` on the eight
modules named `*Proofs.tla`.

## 1. Inventory

| Component | State it keeps | Operations | Talks to |
|---|---|---|---|
| `POST /jobs` (`api/routes_jobs.py`) | the `Job` object of the request, a temporary file | parse, save upload, `create_job`, `prepare`, then SSE or `run_async` | store, pipeline |
| Pipeline (`core/pipeline.py`) | background tasks | `prepare`, `stream_sync`, `run_async`, `_drive_async`, `_execute`, `_fallback_local`, `_finalize` | router, store, scheduler, Redis queue, assembler |
| Priority scheduler (`core/scheduler.py`) | priority queue, worker tasks, futures | `submit`, `_run`, `start`, `stop` | pipeline (callbacks) |
| In-memory store (`store/memory.py`) | jobs and chunks of the process | create/save/get/list | — |
| Redis store and queue (`store/redis_store.py`) | `job:*`, `chunk:*`, audio keys, the list `queue:chunks`, the counters `job:*:remaining` | one or two Redis commands each | Redis |
| Worker (`worker/worker.py`) | stop event, one coroutine per concurrent chunk | `dequeue`, `process_one`, `_finalize`, `stop` | Redis, pipeline |
| Reassembly (`core/reassembly.py`) | next index, pending texts, transcript, remembered tail | `add` | — |
| Chunking (`core/chunking.py`) | — | `split_samples`, decoding | ffmpeg |
| Router (`backends/factory.py`) | settings | `plan` | backends |
| Hosted backend (`backends/hosted.py`) | a semaphore | `transcribe` with retries | HTTP API |
| Local backend (`backends/local.py`) | thread pool, cache of models, lock | `transcribe`, `_get_pipeline` | inference |
| Model server and its client (`model_server.py`, `backends/model_server.py`) | is the model loaded; the client's connection | warm-up, `transcribe` | local backend, by HTTP |
| Readers (`GET` routes, `web/app.js`) | the job and chunks of one turn, what is shown | poll, stream | store |
| Auth, config, logging, health, wiring | — | — | — |

What is hard in this code:

- **Finalisation by countdown.** Whoever decrements a job's counter to zero
  assembles the job. That is right only if the counter is armed before a chunk is
  visible, no chunk is handed out or counted twice, and a chunk is counted after
  its result is stored.
- **At-most-once delivery.** BLPOP removes an id before it is worked on. What does
  a crash, or a raising command, leave behind, and whom does it hurt?
- **Errors inside error handling.** Some saves are inside a `try`, some outside, and
  the save of a *successful* result is treated like a failed transcription.
- **Settings read in several processes.** The plan is computed again by each worker.
- **Completion order against reading order** in the stream and at the seams.
- **Readers against writers.** A viewer reads a job and its chunks one key at a time
  and must know when it has seen the end.
- **Shared slots, permits and locks**: futures, the semaphore, the model cache, the
  queue of the thread pool, and requests whose caller is gone.

`PROJECT.json` lists these hazards at their lines with the properties that cover
them.

## 2. Modules

| Module | Models | Remarks |
|---|---|---|
| `Router` | `BackendRouter.plan` | an operator on the settings of a process, tier and request |
| `JobContract` | what a client may rely on, whatever drives a job | the abstract specification |
| `RedisAsync` | async jobs through Redis: API handler, queue, workers, crashes | implements `JobContract` |
| `RedisAsyncProofs` | theorems about `RedisAsync`: finalisation | TLAPS |
| `RedisDataProofs` | theorems about `RedisAsync`: records, audio, lost chunks | TLAPS, extends `RedisAsyncProofs` |
| `RedisContractProofs` | `RedisAsync` implements `JobContract`; the last worker finalises | TLAPS, extends `RedisDataProofs` |
| `StreamTail` | `GET /jobs/{id}/stream` and the card of the web page | extends `RedisAsync`: viewers of its jobs |
| `StreamTailProofs` | theorems about `StreamTail` | TLAPS, extends `RedisAsyncProofs` |
| `InProcess` | `POST /jobs` with its upload, the scheduler, `stream_sync`, `_drive_async` | implements `JobContract` |
| `InProcessProofs` | theorems about `InProcess`, the contract included | TLAPS |
| `Chunking` | the windows of `split_samples` and their spans | operators |
| `ChunkingProofs` | theorems about `Chunking` | TLAPS |
| `Reassembly` | `InOrderAssembler` fed in any order | checked against joining whole texts in order |
| `ReassemblyProofs` | theorems about `Reassembly`, and about its recordings that are cut | TLAPS, extends `ChunkingProofs` |
| `HostedBackend` | semaphore and retries of the hosted backend | component of `Backends` |
| `ModelCache` | double-checked loading in the local backend | component of `Backends` |
| `Backends` | calls that fall back, the thread pool, the model server | instantiates both, under other names |
| `BackendsProofs` | theorems about `Backends` and its two components | TLAPS |
| `MC*` | instances for TLC | values of the constants only |

Operators named "Variant" in a comment are plausible bugs of the definition that
follows them. No specification uses them; they are there to confirm that a property
notices the bug.

### RedisAsync

One action per Redis command or backend call, since each is an `await` at which
every other coroutine and process may run. `jobs`, `chunks`, `audio`, `queue` and
`remaining` are the keys in Redis; `api[j]` is the place of the handler of job `j`
in `create_job`/`prepare`/`run_async`; `pc[c]`, `cur[c]`, `rec[c]`, `heard[c]` and
`seen[c]` are the place and the locals of consumer coroutine `c` in
`_consumer`/`process_one`/`_execute`/`_finalize`. `counted` is a history variable:
the chunks whose DECR reached Redis.

Every process has settings of its own: `ApiSettings` and `WorkerSettings[p]` hold what a
plan depends on, the token and `fallback_to_local`. `MyPlan` is the plan a consumer makes
of its chunk, with the settings of its process, whatever the API planned. A BLPOP that
timed out leaves the consumer at `"idle"`, and it sees the stop event only then
(`PopTimesOut`, `TurnIdle`), when the queue may have filled again.

A fault is a command that raises, before or after Redis applied it (`ApiFails`,
`CommandRaises`, `DequeueRaises`), or the death of a worker process (`Crash`); the
model follows the code's `try` blocks to where each exception ends. `MaxFaults`
bounds them. Failing *transcriptions* are no faults: `PrimaryRaises` and
`FallbackRaises` may happen at any time. A dead process may be restarted (`Restart`);
nothing in the repository restarts it, so this is an assumption about the operator.
`Stop` is SIGTERM.

Abstractions: a text is the backend it came from, or `"none"` for the empty text; a
transcript is the sequence of its chunks' texts (the seams are the subject of
`Reassembly`). Timings, `retries`, `error` and the HTTP responses are left out. The
`redis` client is taken to raise when a command fails, and to send nothing again:
`Redis.from_url` (`worker/worker.py:92`) is given no retry policy.

### StreamTail

A viewer's turn is `ReadJob`, one `ReadRow` per chunk (`store.list_chunks` is one GET
each) and `Show`; `told[j]` and `rows[j]` are what it has read in this turn, `shown[j]`
what its reader sees. The loop ends by the status it read at the start of the turn.
Whether the viewer is the generator of `stream_job` (a *tail*) or a card of the page is
chosen when it opens: the tail assembles the settled chunks itself and ends the stream
when a read raises; the card shows the transcript of the job and the progress of its
chunks, gives up when the job cannot be read, and goes on without the chunks when these
cannot. A viewer opens once the POST has been answered, which is when its client knows
the id. `ViewOnlyGrows` is about runs without faults: after a failing save
`_execute` may transcribe again a chunk that was already stored as done, and then the
text a viewer saw is replaced.

### InProcess

`at[j]` is the place of the handler, then of the SSE generator (sync) or background
task (async). The priority queue is the set `waiting`, ordered by `Key` as the
tuples of `submit` are. `result[ch]` is the future of a chunk and `completions[j]`
the order in which a job's futures were resolved, which is the order in which
`asyncio.as_completed` yields them. Each job's `created_at` is any number up to one
more than the latest: two requests may arrive in the same millisecond, and
`created_at` is taken before the upload is saved, so a job may be stored after a
younger one. `uploads` is the set of jobs whose temporary file is on disk: it is
deleted in the `finally` around `prepare`, or when the upload is refused. Between the
two, `create_job` may raise, and then the file stays (`"unrecorded"`), which
`NoUploadLeft` names as the only exception.

Async jobs run in process only with the in-memory store, so with `MaxFaults > 0`
(the Redis store) all jobs are sync: that is `InProcessAssumption`. Store calls are
steps of their own; with the in-memory store they never suspend, so its behaviours
are among the model's. The in-memory store holds the live `Chunk` objects, so a
change shows before its save; every such change is followed by its save without an
`await` in between, except the backend and retries of a fallback, which readers of the
lineage see a little earlier than in the model.

`scheduler.stop` is left out: it only runs when the process ends. The `cancelled()`
tests of `_run` are left out because nothing cancels these futures.

### Reassembly, Chunking

A text is a sequence of words and `Norm` says which words are equal at a seam.
`Reassembly!Join` is the reference: it looks back on the whole transcript, while the
code remembers a tail of `_MAX_OVERLAP_WORDS` words. `MCReassembly` cuts sequences of
spoken words into windows with `Chunking!Segments`, one word per sample, and also cuts
waveforms that are only measured: `Tiled` says what windows promise in samples, `Joined`
what their spans promise in milliseconds, where `SamplesToMs` rounds half to even, as
Python's `round` does.

### Backends, HostedBackend, ModelCache

One action per await or per access to shared state. asyncio's semaphore is taken to
serve its waiters in order. `Backends` puts the two components together: a hosted call
that raised may ask the local backend, and the local backend is either in the process
(`host = "inProcess"`) or a model server (`"warming"`, `"up"` or `"down"`). Both have the
same queue of calls (`pool`) and the same threads, each of which runs the loading of
`ModelCache`. The server's warm-up runs on a thread of another pool (`Warmer`). A client
that waited too long, or whose connection broke, gives up (`GiveUp`); the server does not
learn of it and works on, and its answer reaches no one: `answer` is what a thread resolved
a call's future with, `outcome` what its caller got (`EndLocal`, unless it gave up). That
"behaviour and lineage are identical" (`model_server.py:10`) thus holds but for patience:
the local backend in the process has no timeout. The server does not die once it is up; to
its clients that would be what `GiveUp` and `Refused` are.

## 3. Runs

All properties are explained where they are defined.

| Run | MC module | Question |
|---|---|---|
| `redis_faults` | MCRedisAsync | One fault anywhere: completeness of finished jobs, single finaliser, no audio left, true lineage, strong never local, the last worker finalises, inductive invariant, `JobContract` |
| `redis_process` | MCRedisProcess | One process of two consumers, one fault anywhere: it strands no more jobs than the process has consumers, and every other job finishes |
| `redis_graceful` | MCRedisAsync | No faults, a worker process with a token but no fallback and one with a fallback but no token, SIGTERM to the second at any time, and restarts: no chunk is lost of a job both workers can serve, every such job finishes, strong never local whatever a worker's settings, stop ends the process |
| `redis_tail` | MCStreamTail | A viewer of a job, one fault, and two worker processes that plan differently: the last view is the job as it is stored, the viewers' invariant, views only grow, every view ends |
| `inprocess_memory` | MCInProcess | In-memory store, two slots, a sync and an async job, a client that may leave: stream equals store, index order, lane policy, `JobContract`, every job finishes |
| `inprocess_redis` | MCInProcess | Sync jobs and one failing store call: slots survive, no upload left, `JobContract`, a fault leaves at most one accepted job unfinished |
| `reassembly` | MCReassembly | All triples of texts of at most two words, and distinct words in overlapping windows any of which may fail, in all orders of completion; waveforms cut in every way: windows tile, spans join |
| `backends` | MCBackends | Hosted and local calls at once, in process and by a model server: cap, attempts, one copy per model, served only when warm, every call ends and leaves nothing behind |

Four more runs show that the code does not do what one of its documents or
docstrings says; TLC finds a counterexample in each:

| Run | What is violated |
|---|---|
| `redis_crash` | "survives crashes": one crash after BLPOP and the job is in `processing` for ever |
| `redis_empty` | an async job without windows is never finalised: `_finalize(job, "")` raises `TypeError` |
| `redis_failed_text` | "a failed chunk … contributes empty text": it keeps the text whose save raised |
| `reassembly_repeats` | only the overlap is stitched away: repeated words are too |

`redis_crash` violates, by one fault, the property that `redis_graceful` shows to hold
without faults, with a worker that cannot serve every job. Two smaller divergences need no run:
`_execute` "never raises" (`core/pipeline.py:4`), but the saves outside its `try` do
(`CommandRaises`, `SaveRaises` follow them), and "remote + fast -> tiny"
(`backends/factory.py:5`), where `plan` chooses the strong model.

### Bounds

- Redis: two jobs, one of two chunks that may fall back, and one of one chunk that may
  not (in `redis_graceful` also one without chunks); two processes of one consumer each.
  The interesting races are between two consumers of one job and between two jobs at one
  consumer; two chunks and two consumers have both. The processes' settings differ: in
  `redis_faults` one may fall back and the other may not, so a chunk fails at one that the
  other would have saved; in `redis_graceful` one has the token but no fallback and the
  other a fallback but no token, so one plans the hosted backend for the chunks that the
  other plans the local one for, and the strong job's chunk is dropped by the second. One
  fault is enough to reach each `except` branch, and each property that fails does so with
  one.
- `redis_process`: one process of two consumers, so that one failing BLPOP or one crash
  takes two jobs with it, and a third job that must not suffer.
- `InProcess`: two jobs of two chunks over two slots, so that chunks finish out of
  order and the lanes compete; with the Redis store one slot, which shows at once
  whether a slot is lost, and a job without chunks, whose end `FaultsAbortFewJobs` asks for
  like the other's: a fault may leave one of them unfinished, not both.
- `Reassembly`: three chunks, a remembered tail of two words and texts of up to two, so
  that the tail is cut, is shorter than a text, and spans several texts.
- `StreamTail`: one job of two chunks, so that a view is taken from four reads between
  which either consumer may write: one plans the hosted backend and the other, which has no
  token, the local one. The fault is shared by writers and viewer.
- Waveforms: all lengths to 80 samples (five milliseconds), windows to 33 and overlaps to
  the window, which has every remainder modulo a millisecond, windows that end with the
  recording, and a last window shorter than its overlap; and the default window and
  overlap with lengths about a window's edge.
- `Backends`: two hosted calls for one permit, one of which may fall back, two local
  calls, two threads and two models, of which any load may raise, also one after another has
  succeeded; one retry, where the code has two: the second repeats the first, gives the
  permit up and queues again.

Deadlock checking is off: every instance comes to rest when its finitely many jobs,
calls or texts are over.

### Fairness

Weak fairness of each coroutine, slot and thread: the event loop runs every task
that can run, Redis commands and backend calls end (the HTTP clients have a timeout,
local inference terminates), a viewer's loop is resumed after its reads and sleeps, the
model server's warm-up ends, and dead processes are started again. Nothing is assumed
of `Stop`, `Crash`, `ClientLeaves`, `GiveUp`, or of any failure. BLPOP with several waiters
serves them in order; the model only assumes that a consumer that could always pop
does so in the end. `EveryViewEnds` is shown with the fairness of the viewers alone: a finished
job is followed to its end whatever the workers do.

## 4. Proofs

Every theorem holds for all values of the constants that satisfy the module's
`...Assumption`, which types the constants, takes the set of jobs to be finite, and keeps
names such as `NoChunk` apart from what they stand beside: any numbers of jobs, chunks,
consumers, slots, calls and threads, all settings and any number of faults. A further
hypothesis of a theorem is named below. Each part of an invariant was model-checked
before it was proved.

A proof has the same layout everywhere: the actions are reduced to a few kinds of moves
(`ApiMoves`, `ConsumerMoves`, `ProcessMoves`; `JobMove`, `SlotMove`), each conjunct of the
invariant is shown for each kind, and the theorem combines them.

### Finalisation (`RedisAsyncProofs`)

- `TypesHold`: `Spec => []TypeOK`
- `Inductive`: `Spec => []IndInv`
- `FinishedJobsAreComplete`, `FinaliserIsAlone`, `FinishedJobsLeaveNoAudio`

`FinishedIsComplete` is not inductive: that a job is finished says nothing of the
consumers still at work. `IndInv` (in `RedisAsync`, checked by TLC in
`redis_faults`) adds the reason why finalisation is safe:

1. `HandlerInv`, `ConsumerInv`: where handler and consumers stand agrees with what they hold.
2. `OwnershipInv`: every chunk is in one place only: not pushed, in one cell of the
   queue, with one consumer, counted, or lost for good. Faults only lose chunks.
3. `CounterInv`: from `set_remaining` on, the counter is the number of chunks not
   counted. So DECR returns zero once, and only when all chunks are counted.
4. `SettledInv`: a chunk is counted after its result is stored and its audio deleted.
5. `FinalInv`: so a finaliser is alone, and reads records that no one changes any more.

### Records, audio and lost chunks (`RedisDataProofs`)

- `DataInductive`: `Spec => [](IndInv /\ DataInv)`
- `LineageAlwaysTrue`, `StrongIsNeverLocal`, `ChunksAreNeverLost`

`DataInv` rests on one part of `IndInv`, `PlaceInv`: a chunk that is in one cell of the
queue or with one consumer has no one else who could delete its audio. `AudioInv`: the
audio is parked before the id is pushed and stays until the consumer that popped the id
has stored the result. `LineageInv`: so an executing consumer has heard it, and its copy
of the record names the backend it is with. `StrongInv`: neither the store nor a
consumer's copy ever has a strong chunk with the local backend, because no plan for the
strong tier is local or falls back, whatever the settings of the process that makes it.
`NoChunkLost` is inductive with `IndInv`: a step that is no fault moves a chunk from one
place to the next (`FaultlessMove`), and lets go of it only when it is counted or its
consumer cannot serve it.

### The contract of a job (`RedisContractProofs`, `InProcessProofs`)

- `ContractImplemented` (in both modules): `Spec => ContractSpec`
- `LastAlwaysFinalises` (`RedisContractProofs`): `Spec => []LastWorkerFinalises`

In `RedisAsync` four commands show in the contract: `create_job`, the `save_job` of
`prepare`, DECR and the `save_job` of `_finalize`; a chunk's record counts as its
outcome once the chunk is counted, since by `IndInv` no one writes it from then on. All
other steps stutter. `StatusInv` (`StatusInductive`) adds what the contract's guards
ask: where the handler stands tells the status, and a finaliser's job is not finished
yet. `LastAlwaysFinalises` follows from the same two: a chunk that is queued or held is
not counted unless its holder finalises, and the chunks of a finished job are all
counted. In `InProcess` a chunk is settled when its future is resolved with a text.

### The single process (`InProcessProofs`)

- `Inductive`: `Spec => []IndInv`; `TypesHold`
- `UploadsAreDeleted`, `JobsStartInOrder`, and the action property `LanesAreObserved`
- `StreamedIsStoredUntilFault`: `Spec => [](faults = 0 => StreamedIsStored)`, and
  `StreamedIsAlwaysStored`: `Spec => []StreamedIsStored` if `MaxFaults = 0`, as with the
  in-memory store. With a store that may raise it is false after a fault: a chunk whose
  successful result could not be saved is marked failed with its text kept, while its
  future gets the empty text (`redis_failed_text` shows the same of the workers).

Its `IndInv` says that a chunk is queued, with one slot, or resolved (`OwnershipInv`),
that `completions` are resolved futures, each once, and that a driver went past none that
raised (`FutureInv`), so that one that has taken all of them has a text for each chunk;
that a text stands for a stored result (`RecordInv`), and that the stored status follows
the handler (`StatusInv`).

### Viewers (`StreamTailProofs`)

- `ViewInvariant`: `ViewSpec => [](IndInv /\ ViewInv)`
- `LastViewIsRight`: `ViewSpec => []LastViewIsTheJob`
- `ViewsOnlyGrow`: `ViewSpec => ViewOnlyGrows`

`LastViewIsTheJob` speaks of viewers that ended; `ViewInv` of those on their way: one
that was told the job is over has read final records (`ToldTrue`), because a viewer's
job is one whose POST was answered (`ViewPlaceOK`), such a job is written by finalisers
only, and by `FinalInv` a second writer of a finished job would write what is there
(`FinishedStays`).

For `ViewsOnlyGrow` the same argument is needed of single chunks: without faults a
settled record is never written again (`Fresh`: whoever could still write a chunk has one
that is not settled), so that what a viewer has noted as settled it will read as settled
again. `GrowOK` ties the view to these: what a tail shows are the texts of the first
chunks, all noted; the count is that of a set of noted chunks; a card shows the final
transcript or none.

### Reassembly and windows (`ReassemblyProofs`, `ChunkingProofs`)

- `Inductive`: `Spec => []AssemblyInv`; `TypesHold`
- `OrderIsIrrelevant`, `LongestPrefixIsShown`
- `WindowsCoverAll`, `SpansAlwaysJoin`: the geometry of `Segments`, for every length,
  every window and every overlap up to the window
- `WordsAreHeardOnce`: of a speech of different words, whatever windows fail and in
  whatever order they arrive, the transcript is at every moment the words heard in the
  chunks shown so far, each once and in the order said (`HeardWordsOnce`);
  `OnlyOverlapIsDropped`: if every word was heard, the whole transcript is the speech
- `CutsTile`, `CutsJoin`: the same as invariants of `Reassembly`, if its recordings are
  cut as `split_samples` allows (`CutsAreSound`)

`AssemblyInv` says that the assembler shows what in-order assembly over whole transcripts
gives for the texts up to the first missing one, and remembers the end of it. It rests on
two lemmas about a seam: a tail of `MaxOverlap` words drops the same words as the whole
transcript (`TailIsEnough`), and cutting the tail after each text gives the tail of the
longer transcript (`TailIsKept`). The loops are recursive functions on `0 .. n`; that they
exist and what they compute is shown by induction on the set of the numbers for which it
holds (`SetInduction`, from the well-foundedness of the natural numbers), since a library
theorem about a predicate cannot be cited.

`WordsAreHeardOnce` assumes of the recordings (`HeardAsSaid`) that the words said are all
different, that the windows are cut as `split_samples` cuts them, that the overlap is no
longer than the look-back `MaxOverlap`, and that a window that failed has no text. TLC
evaluates the same invariant on recordings of this kind in the run `reassembly`; without
different words it fails, which is the run `reassembly_repeats`. The proof is by induction
over the texts: a suffix of the transcript that equals a prefix of the next window ends with
the last word shown, and since that word occurs once in the window the seam can have one
length only, that of the part of the window already shown (`WindowIsStitched`). So what is
appended are the positions past the last one heard, and the transcript lists the heard
positions in ascending order (`Lists`, `WindowsHearInTurn`), which is what `Selects` says by
counting (`ListedAreSelected`). A failed window leaves a gap: the next window then starts
beyond the last word shown, and no word matches (`HearInTurn`).

### Backends (`BackendsProofs`)

- `ComponentsImplemented`: `Spec => HostedCalls!Spec /\ Models!Spec`
- `Inductive`: `Spec => []IndInv`
- `PermitsAlwaysAccounted`, `PostsAlwaysBounded`, `OneCopyAlwaysInUse`, `UpIsAlwaysWarm`

A step of the composition is a step of each component or leaves it alone, so the
components' invariants are proved from their own actions: `HostedInv` (the permits that
are out are the calls in a POST; a call posted once for each attempt) and `CacheInv` (the
lock is held from the second look to the end of the load, so what was missing still is,
and a model that is cached is never replaced). `WarmingInv` relates the two: the server
serves only after its warm-up left the model in the cache.

### Only model-checked

- The liveness properties: the prover does not treat `ENABLED`, on which fairness rests.
- The four violations, which are about single behaviours.

## 5. Not modelled

- The card of a *sync* job in the web page: its requests may overtake each other, and the
  page promises a best-effort table only (`web/app.js:150`). The forms and layout.
- Decoding by ffmpeg; inference; HTTP encoding.
- Authentication, configuration, logging, health, wiring: no protocol state.
- `scheduler.stop` and the end of the API process: nothing outlives it that could notice.
- Time: that `chunk_file` blocks the event loop (`core/pipeline.py:54`) delays every
  other task, but a step of the models has no duration.

## 6. Plan

Every safety invariant, action property and refinement that a passing run checks is
proved. What is left is the order of a sync card's requests in the page, if it ever
promises more than a best-effort table.
