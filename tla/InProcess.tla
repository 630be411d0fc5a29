------------------------------ MODULE InProcess ------------------------------
(***************************************************************************)
(* Jobs driven inside the API process (Stage A, and sync jobs of Stage B): *)
(* POST /jobs saves an upload and prepares a job, whose SSE generator      *)
(* (sync) or background task (async) submits the chunks to the             *)
(* PriorityScheduler. Its fixed set of worker tasks transcribes them, each *)
(* resolving one future; the generator consumes the futures in completion  *)
(* order, the task gathers them, and whichever of the two drives the job   *)
(* finalises it.                                                           *)
(*                                                                         *)
(* Everything runs on one event loop, so a step is what runs from one      *)
(* await that suspends to the next.  With the in-memory store no store     *)
(* call suspends or raises; with the Redis one (`faults') each may do both.*)
(***************************************************************************)
EXTENDS Integers, Sequences, FiniteSetsExt, Router

CONSTANTS
  Job,             \* the jobs clients submit
  ModeOf,          \* ModeOf[j]: "sync" or "async"
  TierOf,          \* TierOf[j], BackendOf[j]: what the client asked for
  BackendOf,
  ChunkCount,      \* ChunkCount[j]: number of windows job j is cut into
  Slot,            \* the scheduler's worker tasks, max_concurrent_chunks
  Token,           \* is an HF token configured
  FallbackToLocal, \* Settings.fallback_to_local
  MaxFaults,       \* bound on failing store calls
  NoChunk          \* the chunk of an idle slot

\* Async jobs are driven in process only with the in-memory store, which does
\* not raise.
ASSUME InProcessAssumption ==
  /\ IsFiniteSet(Job)
  /\ ModeOf \in [Job -> {"sync", "async"}]
  /\ TierOf \in [Job -> Tier]
  /\ BackendOf \in [Job -> Backend]
  /\ ChunkCount \in [Job -> Nat]
  /\ Token \in BOOLEAN
  /\ FallbackToLocal \in BOOLEAN
  /\ MaxFaults \in Nat
  /\ MaxFaults > 0 => \A j \in Job : ModeOf[j] = "sync"
  /\ NoChunk \notin Job \X Nat

VARIABLES
  jobs,        \* the store: the saved Job of each job
  chunks,      \* the store: the saved Chunk of each chunk
  uploads,     \* the jobs whose uploaded file is on disk
  at,          \* where the job's handler, then its generator or task, stands
  created,     \* created_at of the jobs; equal for jobs of one millisecond
  submitted,   \* the jobs whose chunks were submitted, in that order
  waiting,     \* the chunks in the scheduler's priority queue
  pc,          \* where each slot stands
  cur,         \* the chunk it works on
  rec,         \* the Chunk object of that chunk
  result,      \* the future of each chunk: "open", its text, or "raised"
  completions, \* completions[j]: indices of the resolved futures, in order
  taken,       \* taken[j]: how many of them the sync generator has consumed
  faults       \* number of store calls that raised so far

storeVars == <<jobs, chunks>>
jobVars == <<uploads, at, created, submitted, taken>>
slotVars == <<pc, cur, rec>>
futureVars == <<result, completions>>
vars == <<jobs, chunks, uploads, at, created, submitted, waiting, pc, cur, rec, result,
          completions, taken, faults>>

ChunksOf(j) == {j} \X (0 .. ChunkCount[j] - 1)
Chunk == UNION {ChunksOf(j) : j \in Job}
JobOf(ch) == ch[1]

\* A transcription is told apart by the backend that produced it; "none" is
\* the empty text.
Text == Backend \cup {"none"}
Status == {"absent", "pending", "processing", "done", "failed"}
ChunkRecord == [status : Status, text : Text, backend : Text]
JobRecord == [status : Status, transcript : Seq(Text)]

Blank == [status |-> "absent", text |-> "none", backend |-> "none"]
NewChunk == [Blank EXCEPT !.status = "pending"]

JobPc == {"new", "saved", "created", "chunked", "prepared", "accepted",
          "collecting", "finished", "rejected", "unrecorded", "aborted", "gone"}
SlotPc == {"idle", "start", "primary", "saveDone", "fallback", "saveFallback",
           "saveFailed"}

JobPlan(j) == Plan(Token, FallbackToLocal, TierOf[j], BackendOf[j])

Init ==
  /\ jobs = [j \in Job |-> [status |-> "absent", transcript |-> <<>>]]
  /\ chunks = [ch \in Chunk |-> Blank]
  /\ uploads = {}
  /\ at = [j \in Job |-> "new"]
  /\ created = [j \in Job |-> 0]
  /\ submitted = <<>>
  /\ waiting = {}
  /\ pc = [s \in Slot |-> "idle"]
  /\ cur = [s \in Slot |-> NoChunk]
  /\ rec = [s \in Slot |-> Blank]
  /\ result = [ch \in Chunk |-> "open"]
  /\ completions = [j \in Job |-> <<>>]
  /\ taken = [j \in Job |-> 0]
  /\ faults = 0

-----------------------------------------------------------------------------
(***************************************************************************)
(* The handler of POST /jobs                                               *)
(***************************************************************************)

Goto(j, from, to) == at[j] = from /\ at' = [at EXCEPT ![j] = to]

SaveJobAs(j, status, transcript) ==
  jobs' = [jobs EXCEPT ![j] = [status |-> status, transcript |-> transcript]]

Latest == Max({created[j] : j \in Job})

\* The Job object, with its time of creation, and then the upload saved to a file
\* of its own.  The clock has milliseconds, in which two requests may arrive, and
\* saving may take longer than a later request needs.
SaveUpload(j) ==
  /\ Goto(j, "new", "saved")
  /\ uploads' = uploads \cup {j}
  /\ \E time \in 1 .. Latest + 1 : created' = [created EXCEPT ![j] = time]
  /\ UNCHANGED <<storeVars, submitted, taken, waiting, slotVars, futureVars, faults>>

\* An upload that is empty or too large, or cannot be saved: its file is deleted.
RefuseUpload(j) ==
  /\ Goto(j, "new", "rejected")
  /\ UNCHANGED <<storeVars, uploads, created, submitted, taken, waiting, slotVars,
                 futureVars, faults>>

CreateJob(j) ==
  /\ Goto(j, "saved", "created")
  /\ SaveJobAs(j, "pending", <<>>)
  /\ UNCHANGED <<chunks, uploads, created, submitted, taken, waiting, slotVars, futureVars,
                 faults>>

\* Variant: the file is deleted after prepare, but not when prepare raises.
DeleteIfPrepared(j) == uploads' = IF at'[j] = "prepared" THEN uploads \ {j} ELSE uploads

\* The finally around prepare
DeleteUpload(j) == uploads' = uploads \ {j}

\* store.add_chunks
AddChunksWrite(j) ==
  /\ chunks' = [ch \in Chunk |->
                  IF ch \in ChunksOf(j) THEN NewChunk ELSE chunks[ch]]
  /\ UNCHANGED jobs

\* prepare: plan, decode, split and store.add_chunks
AddChunks(j) ==
  /\ Goto(j, "created", "chunked")
  /\ Servable(JobPlan(j))
  /\ AddChunksWrite(j)
  /\ UNCHANGED <<uploads, created, submitted, taken, waiting, slotVars, futureVars, faults>>

\* prepare raises BackendUnavailable or DecodeError: 400
Reject(j) ==
  /\ Goto(j, "created", "rejected")
  /\ DeleteUpload(j)
  /\ UNCHANGED <<storeVars, created, submitted, taken, waiting, slotVars, futureVars, faults>>

\* prepare: store.save_job
SavePrepared(j) ==
  /\ Goto(j, "chunked", "prepared")
  /\ SaveJobAs(j, "processing", <<>>)
  /\ DeleteUpload(j)
  /\ UNCHANGED <<chunks, created, submitted, taken, waiting, slotVars, futureVars, faults>>

\* stream_sync yields the "accepted" event before it submits anything.
Accept(j) ==
  /\ ModeOf[j] = "sync"
  /\ Goto(j, "prepared", "accepted")
  /\ UNCHANGED <<storeVars, uploads, created, submitted, taken, waiting, slotVars, futureVars, faults>>

\* stream_sync after its first event, or _drive_async, submits every chunk
\* without suspending in between.
Submit(j) ==
  /\ Goto(j, IF ModeOf[j] = "sync" THEN "accepted" ELSE "prepared", "collecting")
  /\ submitted' = Append(submitted, j)
  /\ waiting' = waiting \cup ChunksOf(j)
  /\ UNCHANGED <<storeVars, uploads, created, taken, slotVars, futureVars, faults>>

-----------------------------------------------------------------------------
(***************************************************************************)
(* A slot of the scheduler: PriorityScheduler._run around                  *)
(* Pipeline._execute.                                                      *)
(***************************************************************************)

Rank(j) == CHOOSE k \in 1 .. Len(submitted) : submitted[k] = j

\* Variant: the tuple without the lane.
KeyWithoutLane(ch) == <<created[JobOf(ch)], ch[2], Rank(JobOf(ch))>>

\* The tuple a chunk is queued under, and the sequence number (of its job: the
\* chunks of a job differ in their index).
Key(ch) ==
  LET j == JobOf(ch)
  IN <<IF ModeOf[j] = "sync" THEN 0 ELSE 1, created[j], ch[2], Rank(j)>>

Less(k, l) ==
  \E n \in 1 .. Len(k) : k[n] < l[n] /\ \A m \in 1 .. n - 1 : k[m] = l[m]

\* Variant: work taken in no order.
ComesFirstAny(ch) == ch \in waiting

\* The head of the priority queue
ComesFirst(ch) ==
  ch \in waiting /\ \A other \in waiting \ {ch} : Less(Key(ch), Key(other))

\* An idle slot takes the head of the queue; Chunk.mark_started.
Take(s) ==
  /\ pc[s] = "idle"
  /\ \E ch \in Chunk :
       /\ ComesFirst(ch)
       /\ waiting' = waiting \ {ch}
       /\ cur' = [cur EXCEPT ![s] = ch]
       /\ rec' = [rec EXCEPT ![s] = [NewChunk EXCEPT
            !.status = "processing", !.backend = JobPlan(JobOf(ch)).backend]]
  /\ pc' = [pc EXCEPT ![s] = "start"]
  /\ UNCHANGED <<storeVars, jobVars, futureVars, faults>>

SlotGoto(s, from, to) == pc[s] = from /\ pc' = [pc EXCEPT ![s] = to]

SaveChunk(s) == chunks' = [chunks EXCEPT ![cur[s]] = rec[s]]

\* store.save_chunk of the started chunk
SaveStarted(s) ==
  /\ SlotGoto(s, "start", "primary")
  /\ SaveChunk(s)
  /\ UNCHANGED <<jobs, jobVars, waiting, cur, rec, futureVars, faults>>

\* The planned backend returns a text: Chunk.mark_done.
PrimaryReturns(s) ==
  /\ SlotGoto(s, "primary", "saveDone")
  /\ rec' = [rec EXCEPT ![s].status = "done",
                        ![s].text = JobPlan(JobOf(cur[s])).backend]
  /\ UNCHANGED <<storeVars, jobVars, waiting, cur, futureVars, faults>>

MarkFailed(s) ==
  /\ rec' = [rec EXCEPT ![s].status = "failed"]
  /\ pc' = [pc EXCEPT ![s] = "saveFailed"]

\* The except branch of _execute: the local fallback when the plan allows it.
HandlePrimaryFailure(s) ==
  LET plan == JobPlan(JobOf(cur[s]))
  IN \/ /\ plan.allowLocalFallback
        /\ rec' = [rec EXCEPT ![s].backend = "local"]
        /\ pc' = [pc EXCEPT ![s] = "fallback"]
     \/ ~ plan.allowLocalFallback /\ MarkFailed(s)

PrimaryRaises(s) ==
  /\ pc[s] = "primary"
  /\ HandlePrimaryFailure(s)
  /\ UNCHANGED <<storeVars, jobVars, waiting, cur, futureVars, faults>>

FallbackReturns(s) ==
  /\ SlotGoto(s, "fallback", "saveFallback")
  /\ rec' = [rec EXCEPT ![s].status = "done", ![s].text = "local"]
  /\ UNCHANGED <<storeVars, jobVars, waiting, cur, futureVars, faults>>

FallbackRaises(s) ==
  /\ pc[s] = "fallback"
  /\ MarkFailed(s)
  /\ UNCHANGED <<storeVars, jobVars, waiting, cur, futureVars, faults>>

\* Variant: an exception of the work ends the slot's task.
ResolveDying(s, value) ==
  /\ result' = IF value = "raised" THEN result ELSE [result EXCEPT ![cur[s]] = value]
  /\ completions' = IF value = "raised" THEN completions
       ELSE [completions EXCEPT ![JobOf(cur[s])] = Append(@, cur[s][2])]
  /\ pc' = [pc EXCEPT ![s] = IF value = "raised" THEN "dead" ELSE "idle"]
  /\ cur' = [cur EXCEPT ![s] = NoChunk]
  /\ rec' = [rec EXCEPT ![s] = Blank]

\* Variant: the empty text of a failed chunk is taken for no result.
ResolveTexts(s, value) ==
  /\ result' = IF value = "none" THEN result ELSE [result EXCEPT ![cur[s]] = value]
  /\ completions' = IF value = "none" THEN completions
       ELSE [completions EXCEPT ![JobOf(cur[s])] = Append(@, cur[s][2])]
  /\ pc' = [pc EXCEPT ![s] = "idle"]
  /\ cur' = [cur EXCEPT ![s] = NoChunk]
  /\ rec' = [rec EXCEPT ![s] = Blank]

\* _run: the outcome of the work becomes the outcome of its future, and the slot
\* is free for the next chunk, whatever that outcome is.
Resolve(s, value) ==
  /\ result' = [result EXCEPT ![cur[s]] = value]
  /\ completions' = [completions EXCEPT ![JobOf(cur[s])] = Append(@, cur[s][2])]
  /\ pc' = [pc EXCEPT ![s] = "idle"]
  /\ cur' = [cur EXCEPT ![s] = NoChunk]
  /\ rec' = [rec EXCEPT ![s] = Blank]

\* Variant: the text of the fallback is stored, but not returned.
ReturnedPrimary(s) ==
  IF rec[s].status = "done" /\ rec[s].backend = JobPlan(JobOf(cur[s])).backend
    THEN rec[s].text ELSE "none"

\* What _execute returns: the text of a chunk that is done, "" for a failed one.
Returned(s) == IF rec[s].status = "done" THEN rec[s].text ELSE "none"

\* The final store.save_chunk of _execute or _fallback_local
SaveResult(s) ==
  /\ pc[s] \in {"saveDone", "saveFallback", "saveFailed"}
  /\ SaveChunk(s)
  /\ Resolve(s, Returned(s))
  /\ UNCHANGED <<jobs, jobVars, waiting, faults>>

\* store.save_chunk raises, having reached the store or not.  Only the saves of
\* a done chunk stand inside a try; the others make _execute raise.
SaveRaises(s) ==
  /\ faults < MaxFaults
  /\ faults' = faults + 1
  /\ pc[s] \in {"start", "saveDone", "saveFallback", "saveFailed"}
  /\ \/ SaveChunk(s)
     \/ UNCHANGED chunks
  /\ \/ pc[s] \in {"start", "saveFailed"} /\ Resolve(s, "raised")
     \/ pc[s] = "saveDone" /\ HandlePrimaryFailure(s) /\ UNCHANGED <<cur, futureVars>>
     \/ pc[s] = "saveFallback" /\ MarkFailed(s) /\ UNCHANGED <<cur, futureVars>>
  /\ UNCHANGED <<jobs, jobVars, waiting>>

SlotStep(s) ==
  \/ Take(s)
  \/ SaveStarted(s)
  \/ PrimaryReturns(s)
  \/ PrimaryRaises(s)
  \/ FallbackReturns(s)
  \/ FallbackRaises(s)
  \/ SaveResult(s)

-----------------------------------------------------------------------------
(***************************************************************************)
(* Driving a job to its end: the sync generator and the async task         *)
(***************************************************************************)

\* stream_sync takes the next future in the order of completion and yields a
\* "progress" event.
Progress(j) ==
  /\ at[j] = "collecting" /\ ModeOf[j] = "sync"
  /\ taken[j] < Len(completions[j])
  /\ result[<<j, completions[j][taken[j] + 1]>>] # "raised"
  /\ taken' = [taken EXCEPT ![j] = @ + 1]
  /\ UNCHANGED <<storeVars, uploads, at, created, submitted, waiting, slotVars, futureVars, faults>>

\* Variant: a future that raises is taken for an empty text.
ProgressSkipsRaised(j) ==
  /\ at[j] = "collecting" /\ ModeOf[j] = "sync"
  /\ taken[j] < Len(completions[j])
  /\ taken' = [taken EXCEPT ![j] = @ + 1]
  /\ UNCHANGED <<storeVars, uploads, at, created, submitted, waiting, slotVars, futureVars, faults>>

\* The future it takes raises: the generator ends there, and the event stream
\* with it; the job is never finalised.
ProgressRaises(j) ==
  /\ ModeOf[j] = "sync"
  /\ taken[j] < Len(completions[j])
  /\ result[<<j, completions[j][taken[j] + 1]>>] = "raised"
  /\ Goto(j, "collecting", "aborted")
  /\ UNCHANGED <<storeVars, uploads, created, submitted, taken, waiting, slotVars, futureVars, faults>>

\* Variant: the async task does not wait for its futures.
CollectedAtOnce(j) ==
  at[j] = "collecting" /\ (ModeOf[j] = "sync" => taken[j] = ChunkCount[j])

\* Variant: a job without windows is waited for like any other.
CollectedSome(j) ==
  at[j] = "collecting" /\ taken[j] + Len(completions[j]) > 0 /\ Len(completions[j]) = ChunkCount[j]

\* The generator has consumed every future, or the task's gather is complete; a
\* job without windows gets here at once.
Collected(j) ==
  \/ at[j] = "collecting" /\ ModeOf[j] = "sync" /\ taken[j] = ChunkCount[j]
  \/ at[j] = "collecting" /\ ModeOf[j] = "async" /\ Len(completions[j]) = ChunkCount[j]

\* store.list_chunks: the records in index order
Listed(j) == [k \in 1 .. ChunkCount[j] |-> chunks[<<j, k - 1>>]]

\* Variant: a status of its own for a job of which a chunk failed.
FinalizePartial(j) ==
  SaveJobAs(j,
    IF \E k \in 1 .. ChunkCount[j] : Listed(j)[k].status = "failed" THEN "partial" ELSE "done",
    [k \in 1 .. ChunkCount[j] |-> Listed(j)[k].text])

\* _finalize: list_chunks and save_job.  Nobody writes the job's chunks any
\* more, so that reading them and saving the job are one step.
FinalizeWrite(j) ==
  SaveJobAs(j,
    IF \E k \in 1 .. ChunkCount[j] : Listed(j)[k].status = "failed" THEN "failed" ELSE "done",
    [k \in 1 .. ChunkCount[j] |-> Listed(j)[k].text])

Finalize(j) ==
  /\ Collected(j)
  /\ FinalizeWrite(j)
  /\ at' = [at EXCEPT ![j] = "finished"]
  /\ UNCHANGED <<chunks, uploads, created, submitted, taken, waiting, slotVars, futureVars, faults>>

\* The client of a sync job disconnects: its generator is closed at the await or
\* the yield it stands at.  The chunks it submitted stay where they are.
ClientLeaves(j) ==
  /\ ModeOf[j] = "sync"
  /\ at[j] \in {"accepted", "collecting"}
  /\ at' = [at EXCEPT ![j] = "gone"]
  /\ UNCHANGED <<storeVars, uploads, created, submitted, taken, waiting, slotVars, futureVars, faults>>

\* A store call of the handler or of _finalize raises, having reached the store
\* or not; nothing resumes the job.  create_job stands before the try whose
\* finally deletes the upload.
StoreRaises(j) ==
  /\ faults < MaxFaults
  /\ faults' = faults + 1
  /\ at' = [at EXCEPT ![j] = IF at[j] = "saved" THEN "unrecorded" ELSE "aborted"]
  /\ \/ at[j] = "saved" /\ SaveJobAs(j, "pending", <<>>) /\ UNCHANGED chunks
     \/ at[j] = "created" /\ Servable(JobPlan(j)) /\ AddChunksWrite(j)
     \/ at[j] = "chunked" /\ SaveJobAs(j, "processing", <<>>) /\ UNCHANGED chunks
     \/ Collected(j) /\ FinalizeWrite(j) /\ UNCHANGED chunks
     \/ (at[j] \in {"saved", "created", "chunked"} \/ Collected(j)) /\ UNCHANGED storeVars
  /\ IF at[j] = "saved" THEN UNCHANGED uploads ELSE DeleteUpload(j)
  /\ UNCHANGED <<created, submitted, taken, waiting, slotVars, futureVars>>

JobStep(j) ==
  \/ SaveUpload(j)
  \/ RefuseUpload(j)
  \/ CreateJob(j)
  \/ AddChunks(j)
  \/ Reject(j)
  \/ SavePrepared(j)
  \/ Accept(j)
  \/ Submit(j)
  \/ Progress(j)
  \/ ProgressRaises(j)
  \/ Finalize(j)

Next ==
  \/ \E j \in Job : JobStep(j) \/ ClientLeaves(j) \/ StoreRaises(j)
  \/ \E s \in Slot : SlotStep(s) \/ SaveRaises(s)

Spec == Init /\ [][Next]_vars

\* Every task of the event loop that can run is run, every backend call returns
\* or raises (httpx has a timeout, local inference terminates), and so does
\* every store call.
FairSpec ==
  /\ Spec
  /\ \A j \in Job : WF_vars(JobStep(j))
  /\ \A s \in Slot : WF_vars(SlotStep(s))

-----------------------------------------------------------------------------
(***************************************************************************)
(* Properties                                                              *)
(***************************************************************************)

Finished(j) == jobs[j].status \in {"done", "failed"}

\* Every variable has its type, and the queue holds unresolved chunks only.
TypeOK ==
  /\ jobs \in [Job -> JobRecord]
  /\ chunks \in [Chunk -> ChunkRecord]
  /\ uploads \subseteq Job
  /\ at \in [Job -> JobPc]
  /\ created \in [Job -> Nat]
  /\ submitted \in Seq(Job)
  /\ waiting \subseteq {ch \in Chunk : result[ch] = "open"}
  /\ pc \in [Slot -> SlotPc]
  /\ cur \in [Slot -> Chunk \cup {NoChunk}]
  /\ rec \in [Slot -> ChunkRecord]
  /\ result \in [Chunk -> Text \cup {"open", "raised"}]
  /\ completions \in [Job -> Seq(Nat)]
  /\ taken \in [Job -> Nat]
  /\ \A j \in Job : taken[j] <= Len(completions[j])
  /\ faults \in 0 .. MaxFaults

\* A file is on disk only while its request is being prepared, whichever way that
\* ends: no request leaves its upload behind, except when the store raised in
\* create_job, which is called too early for that (_save_upload, create_job).
NoUploadLeft ==
  \A j \in uploads : at[j] \in {"saved", "created", "chunked", "unrecorded"}

\* What the reader of a sync job was shown chunk by chunk is what the job's
\* stored transcript says in the end (stream_sync's events, _finalize).
StreamedIsStored ==
  \A j \in Job : (ModeOf[j] = "sync" /\ Finished(j)) =>
    jobs[j].transcript = [k \in 1 .. ChunkCount[j] |-> result[<<j, k - 1>>]]

\* Within a job, chunks start in index order: when one is still queued, so are
\* all the later ones, also while other jobs come and go (docs/DESIGN.md,
\* strict chunk order).
StartedInOrder ==
  \A ch \in waiting : \A i \in ch[2] + 1 .. ChunkCount[JobOf(ch)] - 1 :
    <<JobOf(ch), i>> \in waiting

\* A slot never starts an async chunk while a sync one is queued, nor a chunk of
\* a job while one of an earlier job of its lane is (docs/DECISIONS.md D5).
LanePolicy ==
  [][\A ch \in waiting \ waiting', other \in waiting \cap waiting' :
       /\ ModeOf[JobOf(other)] = "sync" => ModeOf[JobOf(ch)] = "sync"
       /\ ModeOf[JobOf(other)] = ModeOf[JobOf(ch)] =>
            created[JobOf(ch)] <= created[JobOf(other)]]_vars

\* With a store that does not raise, every job that is driven is finished, unless its
\* client leaves.
EverySubmittedJobFinishes ==
  \A j \in Job : at[j] = "collecting" ~> (Finished(j) \/ at[j] = "gone")

\* The blast radius of a store call that raises: it ends at most the one job it is
\* made for, although the other chunks of that job stay queued.  Every other job that
\* is driven is finished, also one without windows, unless its client leaves.
FaultsAbortFewJobs ==
  []<>(Cardinality({j \in Job : at[j] \in {"accepted", "collecting", "aborted"}
                                /\ ~ Finished(j)}) <= faults)

\* A slot outlives every chunk it takes: all chunks that were ever queued are
\* resolved, whatever the store raised, and also those of jobs whose client has
\* left or whose generator has ended.
EveryQueuedChunkResolves ==
  \A ch \in Chunk : ch \in waiting ~> result[ch] # "open"

\* The job contract, with a chunk settled when its future has its text.
Contract == INSTANCE JobContract WITH
  status <- [j \in Job |-> jobs[j].status],
  outcome <- [ch \in Chunk |->
    IF result[ch] \in Text
      THEN [status |-> chunks[ch].status, text |-> chunks[ch].text]
      ELSE [status |-> "open", text |-> "none"]],
  transcript <- [j \in Job |-> jobs[j].transcript]

\* Driving jobs in process implements the same contract as Redis and workers do.
ContractSpec == Contract!Spec

=============================================================================
