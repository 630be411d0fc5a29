----------------------------- MODULE RedisAsync -----------------------------
(***************************************************************************)
(* Asynchronous jobs through Redis (Stage B): the POST /jobs handler of    *)
(* the API writes a job and its chunks to Redis, arms the job's counter    *)
(* and enqueues the chunks; consumer coroutines in separate worker         *)
(* processes pop chunk ids, transcribe, write the chunk back and decrement *)
(* the counter; the one that drives it to zero assembles the transcript.   *)
(*                                                                         *)
(* One action per Redis command or backend call, since every one of them   *)
(* is an await at which the other handlers, consumers and processes run.   *)
(* A command may raise, before or after Redis applied it, and a process    *)
(* may be killed; `faults' counts both and MaxFaults bounds them.          *)
(***************************************************************************)
EXTENDS Integers, Sequences, FiniteSetsExt, Router

CONSTANTS
  Job,             \* the jobs clients submit in async mode
  Process,         \* worker processes (python -m app.worker.worker)
  Consumer,        \* consumer coroutines, max_concurrent_chunks per process
  ProcessOf,       \* ProcessOf[c]: the process consumer c runs in
  ChunkCount,      \* ChunkCount[j]: number of windows job j is cut into
  TierOf,          \* TierOf[j], BackendOf[j]: what the client asked for
  BackendOf,
  ApiSettings,     \* the Settings the API process read from its environment
  WorkerSettings,  \* WorkerSettings[p]: those worker process p read from its own
  Stoppable,       \* the processes that may be sent SIGTERM
  MaxFaults,       \* bound on failed Redis commands and killed processes
  NoChunk          \* the chunk of a consumer that has none

ASSUME RedisAsyncAssumption ==
  /\ IsFiniteSet(Job)
  /\ ProcessOf \in [Consumer -> Process]
  /\ ChunkCount \in [Job -> Nat]
  /\ TierOf \in [Job -> Tier]
  /\ BackendOf \in [Job -> Backend]
  /\ ApiSettings \in Settings
  /\ WorkerSettings \in [Process -> Settings]
  /\ Stoppable \subseteq Process
  /\ MaxFaults \in Nat
  /\ NoChunk \notin Job \X Nat

VARIABLES
  \* In Redis
  jobs,       \* job:{id}            the saved Job of each job
  chunks,     \* chunk:{id}          the saved Chunk of each chunk
  audio,      \* chunk:{id}:audio    the chunks whose audio is parked
  queue,      \* queue:chunks        the ids waiting for a consumer
  remaining,  \* job:{id}:remaining  the countdown; a missing key counts as 0
  \* In the API process
  api,        \* where the POST /jobs handler of each job stands
  cursor,     \* how many chunks of the job it has enqueued
  \* In the worker processes
  pc,         \* where each consumer stands
  cur,        \* the chunk it popped
  rec,        \* its own copy of that chunk's record
  heard,      \* whether the audio it loaded is the chunk's (not empty)
  seen,       \* the records its _finalize has read so far
  stop,       \* stop[p]: SIGTERM set the stop event of process p
  \* Bookkeeping of the model; no action but the ones that set them reads them
  counted,    \* history: the chunks whose DECR reached Redis
  faults      \* number of faults so far

redisVars == <<jobs, chunks, audio, queue, remaining, counted>>
apiVars == <<api, cursor>>
taskVars == <<cur, rec, heard, seen>>
vars == <<jobs, chunks, audio, queue, remaining, api, cursor,
          pc, cur, rec, heard, seen, stop, counted, faults>>

ChunksOf(j) == {j} \X (0 .. ChunkCount[j] - 1)
Chunk == UNION {ChunksOf(j) : j \in Job}
JobOf(ch) == ch[1]

\* A transcription is told apart by the backend that produced it; "none" is
\* the empty text of a chunk that has not been transcribed, or not heard.
Text == Backend \cup {"none"}
Status == {"absent", "pending", "processing", "done", "failed"}
ChunkRecord == [status : Status, text : Text,
                backend : Text, worker : Consumer \cup {NoChunk}]
JobRecord == [status : Status, transcript : Seq(Text)]

Blank == [status |-> "absent", text |-> "none",
          backend |-> "none", worker |-> NoChunk]
NewChunk == [Blank EXCEPT !.status = "pending"]

ApiPc == {"new", "created", "chunked", "prepared", "audio", "push",
          "returned", "rejected", "aborted"}
ConsumerPc == {"waiting", "idle", "popped", "fetched", "start", "primary", "saveDone",
               "fallback", "saveFallback", "saveFailed", "discard", "count",
               "list", "saveJob", "exited"}

Init ==
  /\ jobs = [j \in Job |-> [status |-> "absent", transcript |-> <<>>]]
  /\ chunks = [ch \in Chunk |-> Blank]
  /\ audio = {}
  /\ queue = <<>>
  /\ remaining = [j \in Job |-> 0]
  /\ api = [j \in Job |-> "new"]
  /\ cursor = [j \in Job |-> 0]
  /\ pc = [c \in Consumer |-> "waiting"]
  /\ cur = [c \in Consumer |-> NoChunk]
  /\ rec = [c \in Consumer |-> Blank]
  /\ heard = [c \in Consumer |-> FALSE]
  /\ seen = [c \in Consumer |-> <<>>]
  /\ stop = [p \in Process |-> FALSE]
  /\ counted = {}
  /\ faults = 0

-----------------------------------------------------------------------------
(***************************************************************************)
(* The API's handler of POST /jobs, mode=async.  Each XxxWrite is the      *)
(* effect of one command on Redis; the action around it moves the handler. *)
(***************************************************************************)

NextChunk(j) == <<j, cursor[j]>>

\* store.create_job
CreateWrite(j) ==
  /\ jobs' = [jobs EXCEPT ![j] = [status |-> "pending", transcript |-> <<>>]]
  /\ UNCHANGED <<chunks, audio, queue, remaining, cursor>>

\* store.add_chunks: one MULTI/EXEC, and no command at all for no chunks
AddChunksWrite(j) ==
  /\ chunks' = [ch \in Chunk |->
                  IF ch \in ChunksOf(j) THEN NewChunk ELSE chunks[ch]]
  /\ UNCHANGED <<jobs, audio, queue, remaining, cursor>>

\* store.save_job at the end of prepare
SavePreparedWrite(j) ==
  /\ jobs' = [jobs EXCEPT ![j] = [status |-> "processing", transcript |-> <<>>]]
  /\ UNCHANGED <<chunks, audio, queue, remaining, cursor>>

\* Variant: the counter is armed for one chunk too few.
SetRemainingShort(j) ==
  /\ remaining' = [remaining EXCEPT ![j] = ChunkCount[j] - 1]
  /\ UNCHANGED <<jobs, chunks, audio, queue, cursor>>

\* Variant: the counter is never armed, as if set_remaining came after the
\* enqueue loop.
SetRemainingMissing(j) ==
  UNCHANGED <<jobs, chunks, audio, queue, remaining, cursor>>

\* queue.set_remaining
SetRemainingWrite(j) ==
  /\ remaining' = [remaining EXCEPT ![j] = ChunkCount[j]]
  /\ UNCHANGED <<jobs, chunks, audio, queue, cursor>>

\* queue.enqueue, first command: the audio
ParkAudioWrite(j) ==
  /\ audio' = audio \cup {NextChunk(j)}
  /\ UNCHANGED <<jobs, chunks, queue, remaining, cursor>>

\* queue.enqueue, second command: RPUSH
PushWrite(j) ==
  /\ queue' = Append(queue, NextChunk(j))
  /\ cursor' = [cursor EXCEPT ![j] = @ + 1]
  /\ UNCHANGED <<jobs, chunks, audio, remaining>>

Handler(j, from, to) ==
  /\ api[j] = from
  /\ api' = [api EXCEPT ![j] = to]
  /\ UNCHANGED <<pc, taskVars, stop, counted, faults>>

CreateJob(j) == CreateWrite(j) /\ Handler(j, "new", "created")

\* The router plans with the settings of the process it runs in.
JobPlan(j, settings) ==
  Plan(settings.token, settings.fallbackToLocal, TierOf[j], BackendOf[j])

\* prepare: the plan can be served, the media decodes, the chunks are stored.
AddChunks(j) ==
  /\ Servable(JobPlan(j, ApiSettings))
  /\ AddChunksWrite(j)
  /\ Handler(j, "created", "chunked")

\* prepare raises BackendUnavailable or DecodeError: the client gets a 400 and
\* the job it never learns the id of stays in the store.
Reject(j) ==
  /\ UNCHANGED <<jobs, chunks, audio, queue, remaining, cursor>>
  /\ Handler(j, "created", "rejected")

SavePrepared(j) == SavePreparedWrite(j) /\ Handler(j, "chunked", "prepared")

\* run_async with work: arm the counter before the first chunk is visible.
SetRemaining(j) ==
  /\ ChunkCount[j] > 0
  /\ SetRemainingWrite(j)
  /\ Handler(j, "prepared", "audio")

\* run_async without work calls self._finalize(job, ""), one argument more
\* than _finalize takes: TypeError, and nothing is written.
FinalizeEmptyRaises(j) ==
  /\ ChunkCount[j] = 0
  /\ UNCHANGED <<jobs, chunks, audio, queue, remaining, cursor>>
  /\ Handler(j, "prepared", "aborted")

ParkAudio(j) == ParkAudioWrite(j) /\ Handler(j, "audio", "push")

Push(j) ==
  /\ PushWrite(j)
  /\ Handler(j, "push",
       IF cursor[j] + 1 = ChunkCount[j] THEN "returned" ELSE "audio")

\* The command the handler is about to send.
PendingApiWrite(j) ==
  \/ api[j] = "new" /\ CreateWrite(j)
  \/ /\ api[j] = "created"
     /\ Servable(JobPlan(j, ApiSettings))
     /\ AddChunksWrite(j)
  \/ api[j] = "chunked" /\ SavePreparedWrite(j)
  \/ api[j] = "prepared" /\ ChunkCount[j] > 0 /\ SetRemainingWrite(j)
  \/ api[j] = "audio" /\ ParkAudioWrite(j)
  \/ api[j] = "push" /\ PushWrite(j)

\* A command raises in the handler, or the API process dies at it; the
\* command may have reached Redis all the same.  Nothing resumes the handler.
ApiFails(j) ==
  /\ faults < MaxFaults
  /\ faults' = faults + 1
  /\ api[j] \notin {"returned", "rejected", "aborted"}
  /\ \/ PendingApiWrite(j)
     \/ UNCHANGED <<jobs, chunks, audio, queue, remaining, cursor>>
  /\ api' = [api EXCEPT ![j] = "aborted"]
  /\ UNCHANGED <<pc, taskVars, stop, counted>>

ApiStep(j) ==
  \/ CreateJob(j)
  \/ AddChunks(j)
  \/ Reject(j)
  \/ SavePrepared(j)
  \/ SetRemaining(j)
  \/ FinalizeEmptyRaises(j)
  \/ ParkAudio(j)
  \/ Push(j)

-----------------------------------------------------------------------------
(***************************************************************************)
(* A consumer: dequeue, Worker.process_one, Pipeline._execute with its     *)
(* fallback, and the finalisation by whoever drives the counter to zero.   *)
(***************************************************************************)

Goto(c, to) == pc' = [pc EXCEPT ![c] = to]
Stopping(c) == stop[ProcessOf[c]]

\* `while not self._stop.is_set()' once the chunk, or the timeout, is dealt with
AfterChunk(c) == IF Stopping(c) THEN "exited" ELSE "waiting"

\* process_one returned or raised (a raise is logged and swallowed): the
\* consumer's locals are gone and it takes the next chunk, or leaves.
Release(c) ==
  /\ Goto(c, AfterChunk(c))
  /\ cur' = [cur EXCEPT ![c] = NoChunk]
  /\ rec' = [rec EXCEPT ![c] = Blank]
  /\ heard' = [heard EXCEPT ![c] = FALSE]
  /\ seen' = [seen EXCEPT ![c] = <<>>]

\* Variant: a consumer whose process is stopping drops what BLPOP returned.
PopThenCheckStop(c) ==
  /\ pc[c] = "waiting"
  /\ queue # <<>>
  /\ queue' = Tail(queue)
  /\ \/ /\ ~ Stopping(c)
        /\ cur' = [cur EXCEPT ![c] = Head(queue)]
        /\ Goto(c, "popped")
     \/ /\ Stopping(c)
        /\ cur' = cur
        /\ Goto(c, "exited")
  /\ UNCHANGED <<jobs, chunks, audio, remaining, counted, apiVars,
                 rec, heard, seen, stop, faults>>

\* BLPOP answers with the oldest id, also to a consumer that was already
\* blocked in it when the stop event was set.
Pop(c) ==
  /\ pc[c] = "waiting"
  /\ queue # <<>>
  /\ queue' = Tail(queue)
  /\ cur' = [cur EXCEPT ![c] = Head(queue)]
  /\ Goto(c, "popped")
  /\ UNCHANGED <<jobs, chunks, audio, remaining, counted, apiVars,
                 rec, heard, seen, stop, faults>>

\* Variant: BLPOP with timeout 0 blocks for ever on an empty queue.
PopNeverTimesOut(c) == pc[c] = "waiting" /\ FALSE /\ UNCHANGED vars

\* BLPOP times out: the queue is empty now, but may have filled again when the
\* consumer hears of it.
PopTimesOut(c) ==
  /\ pc[c] = "waiting"
  /\ queue = <<>>
  /\ Goto(c, "idle")
  /\ UNCHANGED <<redisVars, apiVars, taskVars, stop, faults>>

\* `if chunk_id is None: continue': the loop sees the stop event, or waits again.
TurnIdle(c) ==
  /\ pc[c] = "idle"
  /\ Goto(c, AfterChunk(c))
  /\ UNCHANGED <<redisVars, apiVars, taskVars, stop, faults>>

\* store.get_chunk (the record is always there: it precedes the queue entry)
FetchChunk(c) ==
  /\ pc[c] = "popped"
  /\ rec' = [rec EXCEPT ![c] = chunks[cur[c]]]
  /\ Goto(c, "fetched")
  /\ UNCHANGED <<redisVars, apiVars, cur, heard, seen, stop, faults>>

MyPlan(c) == JobPlan(JobOf(cur[c]), WorkerSettings[ProcessOf[c]])

\* queue.load_audio, then the plan and Chunk.mark_started in memory; a missing
\* key is no error, it is empty audio.
LoadAudio(c) ==
  /\ pc[c] = "fetched"
  /\ Servable(MyPlan(c))
  /\ heard' = [heard EXCEPT ![c] = cur[c] \in audio]
  /\ rec' = [rec EXCEPT ![c].status = "processing",
                        ![c].worker = c,
                        ![c].backend = MyPlan(c).backend]
  /\ Goto(c, "start")
  /\ UNCHANGED <<redisVars, apiVars, cur, seen, stop, faults>>

\* The worker's own settings cannot serve the chunk: plan raises before the
\* chunk was touched, and the consumer drops it.
PlanRaises(c) ==
  /\ pc[c] = "fetched"
  /\ ~ Servable(MyPlan(c))
  /\ Release(c)
  /\ UNCHANGED <<redisVars, apiVars, stop, faults>>

\* Chunk writes go through store.save_chunk: one SET of the consumer's copy.
SaveChunkWrite(c) ==
  /\ chunks' = [chunks EXCEPT ![cur[c]] = rec[c]]
  /\ UNCHANGED <<jobs, audio, remaining, counted>>

\* _execute saves the started chunk, outside its try
SaveStarted(c) ==
  /\ pc[c] = "start"
  /\ SaveChunkWrite(c)
  /\ Goto(c, "primary")
  /\ UNCHANGED <<queue, apiVars, taskVars, stop, faults>>

\* What transcribing the loaded audio on `backend' returns
Heard(c, backend) == IF heard[c] THEN backend ELSE "none"

\* The planned backend returns a text: Chunk.mark_done.
PrimaryReturns(c) ==
  /\ pc[c] = "primary"
  /\ rec' = [rec EXCEPT ![c].status = "done",
                        ![c].text = Heard(c, MyPlan(c).backend)]
  /\ Goto(c, "saveDone")
  /\ UNCHANGED <<redisVars, apiVars, cur, heard, seen, stop, faults>>

\* Chunk.mark_failed: status and error; the text stays what it is.
MarkFailed(c) ==
  /\ rec' = [rec EXCEPT ![c].status = "failed"]
  /\ Goto(c, "saveFailed")

\* Variant: the fallback does not record the backend it switches to.
BeginFallbackSilently(c) == rec' = rec /\ Goto(c, "fallback")

\* _fallback_local up to its transcribe
BeginFallback(c) ==
  /\ rec' = [rec EXCEPT ![c].backend = "local"]
  /\ Goto(c, "fallback")

\* The except branch of _execute: retry on the local backend when the plan
\* allows it, else record the failure.  LocalBackend and ModelServerBackend
\* are always available(), so that test decides nothing.
HandlePrimaryFailure(c) ==
  \/ MyPlan(c).allowLocalFallback /\ BeginFallback(c)
  \/ ~ MyPlan(c).allowLocalFallback /\ MarkFailed(c)

PrimaryRaises(c) ==
  /\ pc[c] = "primary"
  /\ HandlePrimaryFailure(c)
  /\ UNCHANGED <<redisVars, apiVars, cur, heard, seen, stop, faults>>

FallbackReturns(c) ==
  /\ pc[c] = "fallback"
  /\ rec' = [rec EXCEPT ![c].status = "done", ![c].text = Heard(c, "local")]
  /\ Goto(c, "saveFallback")
  /\ UNCHANGED <<redisVars, apiVars, cur, heard, seen, stop, faults>>

FallbackRaises(c) ==
  /\ pc[c] = "fallback"
  /\ MarkFailed(c)
  /\ UNCHANGED <<redisVars, apiVars, cur, heard, seen, stop, faults>>

\* save_chunk of the done, the fallen-back or the failed chunk; _execute
\* returns and process_one goes on to discard_audio.
SaveResult(c) ==
  /\ pc[c] \in {"saveDone", "saveFallback", "saveFailed"}
  /\ SaveChunkWrite(c)
  /\ Goto(c, "discard")
  /\ UNCHANGED <<queue, apiVars, taskVars, stop, faults>>

\* Variant: the audio key is left behind.
DiscardAudioSkipped(c) == UNCHANGED <<jobs, chunks, audio, remaining, counted>>

\* queue.discard_audio
DiscardAudioWrite(c) ==
  /\ audio' = audio \ {cur[c]}
  /\ UNCHANGED <<jobs, chunks, remaining, counted>>

DiscardAudio(c) ==
  /\ pc[c] = "discard"
  /\ DiscardAudioWrite(c)
  /\ Goto(c, "count")
  /\ UNCHANGED <<queue, apiVars, taskVars, stop, faults>>

\* queue.decr_remaining: atomic in Redis
DecrWrite(c) ==
  /\ remaining' = [remaining EXCEPT ![JobOf(cur[c])] = @ - 1]
  /\ counted' = counted \cup {cur[c]}
  /\ UNCHANGED <<jobs, chunks, audio>>

\* Variants of the test below, off by one to either side.
IsLastEarly(c) == remaining[JobOf(cur[c])] - 1 <= 1
IsLastLate(c) == remaining[JobOf(cur[c])] - 1 < 0

\* `if remaining <= 0' on the value DECR returned
IsLast(c) == remaining[JobOf(cur[c])] - 1 <= 0

\* process_one of a chunk that is not the job's last
CountChunk(c) ==
  /\ pc[c] = "count"
  /\ ~ IsLast(c)
  /\ DecrWrite(c)
  /\ Release(c)
  /\ UNCHANGED <<queue, apiVars, stop, faults>>

\* process_one of the last chunk: this consumer finalises the job.  (get_job
\* is not modelled: the two fields it reads are the ones overwritten.)
CountLastChunk(c) ==
  /\ pc[c] = "count"
  /\ IsLast(c)
  /\ DecrWrite(c)
  /\ Goto(c, "list")
  /\ UNCHANGED <<queue, apiVars, taskVars, stop, faults>>

\* store.list_chunks reads the job's chunks with one GET each, in the order
\* add_chunks stored their ids, which is index order.
ReadChunk(c) ==
  LET j == JobOf(cur[c])
  IN /\ pc[c] = "list"
     /\ seen' = [seen EXCEPT ![c] = Append(@, chunks[<<j, Len(@)>>])]
     /\ Goto(c, IF Len(seen[c]) + 1 = ChunkCount[j] THEN "saveJob" ELSE "list")
     /\ UNCHANGED <<redisVars, apiVars, cur, rec, heard, stop, faults>>

\* Variant: a status of its own for a job of which a chunk failed.
SaveJobPartial(c) ==
  /\ jobs' = [jobs EXCEPT ![JobOf(cur[c])] =
       [status |-> IF \E k \in 1 .. Len(seen[c]) : seen[c][k].status = "failed"
                     THEN "partial" ELSE "done",
        transcript |-> [k \in 1 .. Len(seen[c]) |-> seen[c][k].text]]]
  /\ UNCHANGED <<chunks, audio, remaining, counted>>

\* Pipeline._finalize: assemble what was read and save the job.  Every chunk
\* contributes its stored text, whatever its status.
SaveJobWrite(c) ==
  /\ jobs' = [jobs EXCEPT ![JobOf(cur[c])] =
       [status |-> IF \E k \in 1 .. Len(seen[c]) : seen[c][k].status = "failed"
                     THEN "failed" ELSE "done",
        transcript |-> [k \in 1 .. Len(seen[c]) |-> seen[c][k].text]]]
  /\ UNCHANGED <<chunks, audio, remaining, counted>>

SaveJob(c) ==
  /\ pc[c] = "saveJob"
  /\ SaveJobWrite(c)
  /\ Release(c)
  /\ UNCHANGED <<queue, apiVars, stop, faults>>

\* The write the consumer is about to send.
PendingWrite(c) ==
  \/ /\ pc[c] \in {"start", "saveDone", "saveFallback", "saveFailed"}
     /\ SaveChunkWrite(c)
  \/ pc[c] = "discard" /\ DiscardAudioWrite(c)
  \/ pc[c] = "count" /\ DecrWrite(c)
  \/ pc[c] = "saveJob" /\ SaveJobWrite(c)

\* Where a raising command leaves the consumer.  The save of a done chunk is
\* inside _execute's try and the save of a fallen-back one inside
\* _fallback_local's, so those failures are taken for transcription failures;
\* any other one ends process_one, and with it the work on this chunk.
AfterRaise(c) ==
  \/ /\ pc[c] \in {"popped", "fetched", "start", "saveFailed", "discard",
                   "count", "list", "saveJob"}
     /\ Release(c)
  \/ /\ pc[c] = "saveDone"
     /\ HandlePrimaryFailure(c)
     /\ UNCHANGED <<cur, heard, seen>>
  \/ /\ pc[c] = "saveFallback"
     /\ MarkFailed(c)
     /\ UNCHANGED <<cur, heard, seen>>

CommandRaises(c) ==
  /\ faults < MaxFaults
  /\ faults' = faults + 1
  /\ \/ PendingWrite(c)
     \/ UNCHANGED <<jobs, chunks, audio, remaining, counted>>
  /\ AfterRaise(c)
  /\ UNCHANGED <<queue, apiVars, stop>>

ConsumerStep(c) ==
  \/ Pop(c)
  \/ PopTimesOut(c)
  \/ TurnIdle(c)
  \/ FetchChunk(c)
  \/ LoadAudio(c)
  \/ PlanRaises(c)
  \/ SaveStarted(c)
  \/ PrimaryReturns(c)
  \/ PrimaryRaises(c)
  \/ FallbackReturns(c)
  \/ FallbackRaises(c)
  \/ SaveResult(c)
  \/ DiscardAudio(c)
  \/ CountChunk(c)
  \/ CountLastChunk(c)
  \/ ReadChunk(c)
  \/ SaveJob(c)

-----------------------------------------------------------------------------
(***************************************************************************)
(* Worker processes.                                                       *)
(***************************************************************************)

Dead(p) == \A c \in Consumer : ProcessOf[c] = p => pc[c] = "exited"

\* Every consumer of p vanishes at its await, and its locals with it.
Vanish(p) ==
  LET gone == {c \in Consumer : ProcessOf[c] = p}
  IN /\ pc' = [c \in Consumer |-> IF c \in gone THEN "exited" ELSE pc[c]]
     /\ cur' = [c \in Consumer |-> IF c \in gone THEN NoChunk ELSE cur[c]]
     /\ rec' = [c \in Consumer |-> IF c \in gone THEN Blank ELSE rec[c]]
     /\ heard' = [c \in Consumer |-> IF c \in gone THEN FALSE ELSE heard[c]]
     /\ seen' = [c \in Consumer |-> IF c \in gone THEN <<>> ELSE seen[c]]

\* SIGKILL, out of memory, node lost
Crash(p) ==
  /\ faults < MaxFaults
  /\ faults' = faults + 1
  /\ ~ Dead(p)
  /\ Vanish(p)
  /\ UNCHANGED <<redisVars, apiVars, stop>>

\* dequeue raises: it stands outside _consumer's try, so the exception leaves
\* _consumer, gather and run, and takes the whole process down.  An id that
\* BLPOP had already taken off the list is gone too.
DequeueRaises(c) ==
  /\ faults < MaxFaults
  /\ faults' = faults + 1
  /\ pc[c] = "waiting"
  /\ \/ queue' = queue
     \/ queue # <<>> /\ queue' = Tail(queue)
  /\ Vanish(ProcessOf[c])
  /\ UNCHANGED <<jobs, chunks, audio, remaining, counted, apiVars, stop>>

\* SIGTERM or SIGINT: Worker.stop sets the event.
Stop(p) ==
  /\ p \in Stoppable
  /\ ~ stop[p]
  /\ ~ Dead(p)
  /\ stop' = [stop EXCEPT ![p] = TRUE]
  /\ UNCHANGED <<redisVars, apiVars, pc, taskVars, faults>>

\* The operator (or an orchestrator) starts the process again.
Restart(p) ==
  /\ Dead(p)
  /\ pc' = [c \in Consumer |->
              IF ProcessOf[c] = p THEN "waiting" ELSE pc[c]]
  /\ stop' = [stop EXCEPT ![p] = FALSE]
  /\ UNCHANGED <<redisVars, apiVars, taskVars, faults>>

Next ==
  \/ \E j \in Job : ApiStep(j) \/ ApiFails(j)
  \/ \E c \in Consumer : ConsumerStep(c) \/ CommandRaises(c) \/ DequeueRaises(c)
  \/ \E p \in Process : Crash(p) \/ Stop(p) \/ Restart(p)

Spec == Init /\ [][Next]_vars

\* Every coroutine is resumed when its await completes, every backend call and
\* Redis command completes (httpx has a timeout, local inference terminates),
\* and dead processes are started again.
Fairness ==
  /\ \A j \in Job : WF_vars(ApiStep(j))
  /\ \A c \in Consumer : WF_vars(ConsumerStep(c))
  /\ \A p \in Process : WF_vars(Restart(p))

FairSpec == Spec /\ Fairness

-----------------------------------------------------------------------------
(***************************************************************************)
(* Properties                                                              *)
(***************************************************************************)

Finished(j) == jobs[j].status \in {"done", "failed"}
Settled(ch) == chunks[ch].status \in {"done", "failed"}
Pushed(j) == {ch \in ChunksOf(j) : ch[2] < cursor[j]}
Queued(ch) == \E k \in 1 .. Len(queue) : queue[k] = ch
Held(ch) == \E c \in Consumer : cur[c] = ch
Finalizing(c) == pc[c] \in {"list", "saveJob"}
ConsumersPerProcess ==
  Max({Cardinality({c \in Consumer : ProcessOf[c] = p}) : p \in Process})

RedisTypeOK ==
  /\ jobs \in [Job -> JobRecord]
  /\ chunks \in [Chunk -> ChunkRecord]
  /\ audio \subseteq Chunk
  /\ queue \in Seq(Chunk)
  /\ remaining \in [Job -> Int]
  /\ counted \subseteq Chunk

ApiTypeOK ==
  /\ api \in [Job -> ApiPc]
  /\ cursor \in [Job -> Nat]

ConsumerTypeOK ==
  /\ pc \in [Consumer -> ConsumerPc]
  /\ cur \in [Consumer -> Chunk \cup {NoChunk}]
  /\ rec \in [Consumer -> ChunkRecord]
  /\ heard \in [Consumer -> BOOLEAN]
  /\ seen \in [Consumer -> Seq(ChunkRecord)]

\* Every variable has its type.
TypeOK ==
  /\ RedisTypeOK
  /\ ApiTypeOK
  /\ ConsumerTypeOK
  /\ stop \in [Process -> BOOLEAN]
  /\ faults \in 0 .. MaxFaults

\* A job a poller sees finished is really over: every one of its chunks has
\* its final record, the transcript is exactly those texts in index order and
\* the job failed iff a chunk did, whatever commands raised and whatever
\* processes died on the way (Worker.process_one, Pipeline._finalize).
FinishedIsComplete ==
  \A j \in Job : Finished(j) =>
    /\ \A ch \in ChunksOf(j) : Settled(ch)
    /\ jobs[j].transcript = [k \in 1 .. ChunkCount[j] |-> chunks[<<j, k - 1>>].text]
    /\ jobs[j].status = "failed" <=>
         \E ch \in ChunksOf(j) : chunks[ch].status = "failed"

\* Two consumers never finalise the same job at the same time: exactly one of
\* them is told by DECR that it handled the last chunk.
OneFinalizer ==
  \A c, d \in Consumer :
    (Finalizing(c) /\ Finalizing(d) /\ JobOf(cur[c]) = JobOf(cur[d])) => c = d

\* The last worker to finish a job's chunks finalises it (worker.py:5): when a job
\* is finished no consumer of any process still has work to do on one of its chunks,
\* and none is waiting in the queue, whatever was retried, dropped or killed.
LastWorkerFinalises ==
  \A j \in Job : Finished(j) =>
    /\ \A k \in 1 .. Len(queue) : JobOf(queue[k]) # j
    /\ \A c \in Consumer : cur[c] # NoChunk => JobOf(cur[c]) # j

\* A finished job leaves no audio behind in Redis: the key is deleted before
\* the chunk is counted, so no failure in between can leak it past the end.
FinishedLeavesNoAudio ==
  \A j \in Job : Finished(j) => audio \cap ChunksOf(j) = {}

\* A chunk reported done has been heard: its text comes from its audio, never
\* from the empty array load_audio returns for a key that is not there, and
\* its lineage names the backend the text came from and the worker that ran.
LineageTrue ==
  \A ch \in Chunk : chunks[ch].status = "done" =>
    /\ chunks[ch].text \in Backend
    /\ chunks[ch].backend = chunks[ch].text
    /\ chunks[ch].worker \in Consumer

\* The strong tier is never served by the local model, neither planned by
\* whatever settings a worker has nor fallen back to.
StrongNeverLocal ==
  \A ch \in Chunk :
    TierOf[JobOf(ch)] = "strong" => "local" \notin {chunks[ch].backend, chunks[ch].text}

\* Every worker process can serve job j with the settings it has.
ServedByAll(j) == \A p \in Process : Servable(JobPlan(j, WorkerSettings[p]))

\* Without faults no chunk of a job that all workers can serve falls between two
\* stools, not even while processes are being stopped and restarted: once enqueued
\* it is in the queue, in the hands of one consumer, or counted.
NoChunkLost ==
  faults = 0 => \A j \in Job : ServedByAll(j) =>
    \A ch \in Pushed(j) : Queued(ch) \/ Held(ch) \/ ch \in counted

\* Every accepted job that all workers can serve is finished in the end, also while
\* one of them drops the chunks of jobs it cannot serve.  (A job without windows is
\* never accepted, see EmptyJobFinishes.)
EveryAcceptedJobFinishes ==
  \A j \in {i \in Job : ServedByAll(i) /\ ChunkCount[i] > 0} :
    api[j] = "returned" ~> Finished(j)

\* The blast radius of a fault: it strands no more accepted jobs than the process
\* it hits has consumers; every other job is finished in the end, whatever its
\* chunks shared with the stranded ones (queue, consumers, Redis).
FaultsStrandFewJobs ==
  []<>(Cardinality({j \in Job : ServedByAll(j) /\ api[j] = "returned" /\ ~ Finished(j)})
         <= faults * ConsumersPerProcess)

\* SIGTERM always ends the process, however busy it is (Worker.stop).
StopEndsProcess ==
  \A p \in Stoppable : stop[p] ~> Dead(p)

\* A chunk recorded as failed contributes the empty text to the transcript.
FailedContributesNothing ==
  \A ch \in Chunk : chunks[ch].status = "failed" => chunks[ch].text = "none"

\* A job whose audio has no window is finalised too.
EmptyJobFinishes ==
  \A j \in Job : (ChunkCount[j] = 0 /\ api[j] = "prepared") ~> Finished(j)

(***************************************************************************)
(* Why FinishedIsComplete holds: the inductive invariant, in parts.        *)
(***************************************************************************)

\* The handler enqueues its chunks in index order and only past set_remaining.
HandlerInv ==
  \A j \in Job :
    /\ cursor[j] <= ChunkCount[j]
    /\ api[j] \in {"new", "created", "chunked", "prepared", "rejected"} => cursor[j] = 0
    /\ api[j] \in {"audio", "push"} => cursor[j] < ChunkCount[j]

\* A consumer has a chunk exactly while it is busy; what it saves as a result is
\* settled; it has read at most the chunks of the job it finalises.
ConsumerInv ==
  \A c \in Consumer :
    /\ pc[c] \in {"waiting", "idle", "exited"} <=> cur[c] = NoChunk
    /\ pc[c] \in {"saveDone", "saveFallback", "saveFailed"} =>
         rec[c].status \in {"done", "failed"}
    /\ ~ Finalizing(c) => seen[c] = <<>>
    /\ pc[c] = "list" => Len(seen[c]) < ChunkCount[JobOf(cur[c])]
    /\ pc[c] = "saveJob" => Len(seen[c]) = ChunkCount[JobOf(cur[c])]

\* Every chunk is in one place: not yet pushed, in one cell of the queue, in the
\* hands of one consumer, counted, or lost for good; no one ever gets it twice.
OwnershipInv ==
  /\ \A ch \in counted : ch \in Pushed(JobOf(ch))
  /\ \A k \in 1 .. Len(queue) : queue[k] \in Pushed(JobOf(queue[k])) \ counted
  /\ \A k, l \in 1 .. Len(queue) : queue[k] = queue[l] => k = l
  /\ \A c \in Consumer : cur[c] # NoChunk =>
       /\ cur[c] \in Pushed(JobOf(cur[c]))
       /\ \A k \in 1 .. Len(queue) : queue[k] # cur[c]
       /\ \A d \in Consumer : cur[d] = cur[c] => d = c
       /\ cur[c] \in counted <=> Finalizing(c)

Uncounted(j) == ChunksOf(j) \ counted

\* Once a chunk may be popped, the counter is the number of chunks not counted.
CounterInv ==
  \A j \in Job : (cursor[j] > 0 \/ api[j] \in {"audio", "push"}) =>
    remaining[j] = Cardinality(Uncounted(j))

\* A chunk is counted after its result is stored and its audio is deleted.
SettledInv ==
  /\ \A ch \in counted : Settled(ch) /\ ch \notin audio
  /\ \A c \in Consumer :
       /\ pc[c] \in {"discard", "count"} => Settled(cur[c])
       /\ pc[c] = "count" => cur[c] \notin audio

\* A finaliser is alone, comes after the last count, and reads final records;
\* so does everyone who reads the job it saved.
FinalInv ==
  /\ \A c \in Consumer : Finalizing(c) =>
       /\ ChunksOf(JobOf(cur[c])) \subseteq counted
       /\ \A d \in Consumer :
            Finalizing(d) /\ JobOf(cur[d]) = JobOf(cur[c]) => d = c
       /\ \A k \in 1 .. Len(seen[c]) : seen[c][k] = chunks[<<JobOf(cur[c]), k - 1>>]
  /\ \A j \in Job : Finished(j) =>
       /\ ChunksOf(j) \subseteq counted
       /\ jobs[j].transcript = [k \in 1 .. ChunkCount[j] |-> chunks[<<j, k - 1>>].text]
       /\ jobs[j].status = "failed" <=>
            \E ch \in ChunksOf(j) : chunks[ch].status = "failed"

\* The inductive invariant: no chunk is handed out or counted twice, so the
\* counter reaches zero once, when every chunk has its final record.
IndInv ==
  /\ TypeOK
  /\ HandlerInv
  /\ ConsumerInv
  /\ OwnershipInv
  /\ CounterInv
  /\ SettledInv
  /\ FinalInv

(***************************************************************************)
(* The job contract, with a chunk settled when its DECR reached Redis.     *)
(***************************************************************************)
Contract == INSTANCE JobContract WITH
  status <- [j \in Job |-> jobs[j].status],
  outcome <- [ch \in Chunk |->
    IF ch \in counted THEN [status |-> chunks[ch].status, text |-> chunks[ch].text]
    ELSE [status |-> "open", text |-> "none"]],
  transcript <- [j \in Job |-> jobs[j].transcript]

\* Redis and the workers implement the contract: outcomes are settled once and
\* never rewritten, and a job is finished once, after all of them.
ContractSpec == Contract!Spec

=============================================================================
