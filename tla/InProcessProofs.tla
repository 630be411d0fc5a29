-------------------------- MODULE InProcessProofs --------------------------
(***************************************************************************)
(* Proofs about InProcess, for any jobs, slots and settings and, where the *)
(* property allows, any number of failing store calls.                     *)
(*                                                                         *)
(* Steps are grouped by what they do to the rest: a job's handler or       *)
(* driver moves alone (JobMove), a slot takes a chunk, works on it, or     *)
(* resolves its future (SlotMove).                                         *)
(***************************************************************************)
EXTENDS InProcess, FiniteSetTheorems, FunctionTheorems, TLAPS

-----------------------------------------------------------------------------
(***************************************************************************)
(* The inductive invariant                                                 *)
(***************************************************************************)

\* A slot has a chunk exactly while it works; what it saves last is settled.
SlotInv ==
  \A s \in Slot :
    /\ pc[s] = "idle" <=> cur[s] = NoChunk
    /\ pc[s] \in {"saveDone", "saveFallback"} => rec[s].status = "done"
    /\ pc[s] = "saveFailed" => rec[s].status = "failed"

\* Where a job stands before its chunks are submitted
Unsubmitted == {"new", "saved", "created", "chunked", "prepared", "accepted",
                "rejected", "unrecorded"}

\* No chunk is in two places, and a chunk that is in one has an open future.
OwnershipInv ==
  /\ \A ch \in waiting :
       /\ \A s \in Slot : cur[s] # ch
       /\ \E k \in 1 .. Len(submitted) : submitted[k] = JobOf(ch)
  /\ \A s \in Slot : cur[s] # NoChunk =>
       /\ result[cur[s]] = "open"
       /\ \A t \in Slot : cur[t] = cur[s] => t = s
  /\ \A ch \in Chunk : at[JobOf(ch)] \in Unsubmitted =>
       ch \notin waiting /\ result[ch] = "open" /\ \A s \in Slot : cur[s] # ch

\* The completions of a job are resolved chunks, each once, and the generator went
\* past none that raised.
FutureInv ==
  /\ \A j \in Job :
       /\ \A k \in 1 .. Len(completions[j]) :
            /\ completions[j][k] \in 0 .. ChunkCount[j] - 1
            /\ result[<<j, completions[j][k]>>] # "open"
       /\ \A k, l \in 1 .. Len(completions[j]) : completions[j][k] = completions[j][l] => k = l
       /\ \A k \in 1 .. taken[j] : result[<<j, completions[j][k]>>] # "raised"
  /\ faults = 0 => \A ch \in Chunk : result[ch] # "raised"

\* A future with a text stands for a stored result; and as long as no store call has
\* raised, the text that is stored is the one the future has.
RecordInv ==
  /\ \A ch \in Chunk : result[ch] \in Text => chunks[ch].status \in {"done", "failed"}
  /\ faults = 0 =>
       /\ \A ch \in Chunk : result[ch] \in Text => chunks[ch].text = result[ch]
       /\ \A s \in Slot : pc[s] \in {"start", "primary", "fallback", "saveFailed"} =>
            rec[s].text = "none"

\* The stored status follows the handler, and a finished job was made of settled chunks.
StatusOK(j) ==
  /\ at[j] \in {"new", "saved"} => jobs[j].status = "absent"
  /\ at[j] \in {"created", "chunked"} => jobs[j].status = "pending"
  /\ at[j] \in {"prepared", "accepted", "collecting", "gone"} => jobs[j].status = "processing"
  /\ ~ Finished(j) => jobs[j].transcript = <<>>
  /\ \A ch \in ChunksOf(j) : (ch \in waiting \/ \E s \in Slot : cur[s] = ch) =>
       jobs[j].status \notin {"absent", "pending"}
  /\ Finished(j) =>
       /\ \A ch \in ChunksOf(j) : result[ch] \in Text
       /\ jobs[j].transcript = [k \in 1 .. ChunkCount[j] |-> chunks[<<j, k - 1>>].text]

StatusInv == \A j \in Job : StatusOK(j)

IndInv == TypeOK /\ SlotInv /\ OwnershipInv /\ FutureInv /\ RecordInv /\ StatusInv

-----------------------------------------------------------------------------
(***************************************************************************)
(* The data of the model                                                   *)
(***************************************************************************)

\* A chunk id is a job and an index below the job's count.
LEMMA ChunkParts ==
  ASSUME NEW ch \in Chunk
  PROVE  /\ JobOf(ch) \in Job
         /\ ch[2] \in 0 .. ChunkCount[JobOf(ch)] - 1
         /\ ch = <<JobOf(ch), ch[2]>>
         /\ ch \in ChunksOf(JobOf(ch))
         /\ ch # NoChunk
<1>1. PICK j \in Job : ch \in ChunksOf(j)
  BY DEF Chunk
<1>2. /\ ch = <<j, ch[2]>>
      /\ ch[2] \in 0 .. ChunkCount[j] - 1
      /\ JobOf(ch) = j
  BY <1>1 DEF ChunksOf, JobOf
<1>3. ch \in Job \X Nat
  BY <1>2, InProcessAssumption
<1> QED
  BY <1>1, <1>2, <1>3, InProcessAssumption DEF JobOf

\* The chunks of a job are those of its indices, and of no other job.
LEMMA ChunksOfJob ==
  ASSUME NEW j \in Job
  PROVE  /\ \A ch \in ChunksOf(j) : ch \in Chunk /\ JobOf(ch) = j
         /\ \A k \in 0 .. ChunkCount[j] - 1 :
              <<j, k>> \in Chunk /\ <<j, k>> \in ChunksOf(j) /\ JobOf(<<j, k>>) = j
         /\ ChunkCount[j] \in Nat
  BY InProcessAssumption DEF Chunk, ChunksOf, JobOf

\* What a plan names, whatever the settings.
LEMMA PlanBackend ==
  ASSUME NEW j \in Job
  PROVE  JobPlan(j).backend \in Text
  BY InProcessAssumption DEF JobPlan, Plan, HostedPlan, LocalPlan, Unavailable, Text, Backend,
     Tier

\* A record and its transcript, assembled from the stored chunks
LEMMA FinalRecord ==
  ASSUME NEW j \in Job, chunks \in [Chunk -> ChunkRecord], jobs \in [Job -> JobRecord],
         FinalizeWrite(j)
  PROVE  /\ jobs' = [jobs EXCEPT ![j] = jobs'[j]]
         /\ jobs'[j] \in JobRecord
         /\ jobs'[j].status \in {"done", "failed"}
         /\ jobs'[j].status = "failed" <=>
              \E ch \in ChunksOf(j) : chunks[ch].status = "failed"
         /\ jobs'[j].transcript = [k \in 1 .. ChunkCount[j] |-> chunks[<<j, k - 1>>].text]
<1> DEFINE t == [k \in 1 .. ChunkCount[j] |-> chunks[<<j, k - 1>>].text]
           someFailed == \E k \in 1 .. ChunkCount[j] : chunks[<<j, k - 1>>].status = "failed"
           st == IF someFailed THEN "failed" ELSE "done"
<1>1. ChunkCount[j] \in Nat
  BY ChunksOfJob
<1>2. \A k \in 1 .. ChunkCount[j] : <<j, k - 1>> \in Chunk /\ <<j, k - 1>> \in ChunksOf(j)
  BY <1>1 DEF ChunksOf, Chunk
<1>3. t \in Seq(Text)
  <2>1. t \in [1 .. ChunkCount[j] -> Text]
    BY <1>2 DEF ChunkRecord
  <2> HIDE DEF t
  <2> QED
    BY <1>1, <2>1
<1>4. /\ \A k \in 1 .. ChunkCount[j] : Listed(j)[k] = chunks[<<j, k - 1>>]
      /\ (\E k \in 1 .. ChunkCount[j] : Listed(j)[k].status = "failed") <=> someFailed
      /\ [k \in 1 .. ChunkCount[j] |-> Listed(j)[k].text] = t
  BY DEF Listed
<1> HIDE DEF t
<1>5. jobs' = [jobs EXCEPT ![j] = [status |-> st, transcript |-> t]]
  BY <1>4 DEF FinalizeWrite, SaveJobAs
<1>6. someFailed <=> \E ch \in ChunksOf(j) : chunks[ch].status = "failed"
  <2>1. \A ch \in ChunksOf(j) : \E k \in 1 .. ChunkCount[j] : ch = <<j, k - 1>>
    <3> SUFFICES ASSUME NEW ch \in ChunksOf(j)
                 PROVE  \E k \in 1 .. ChunkCount[j] : ch = <<j, k - 1>>
      OBVIOUS
    <3>1. ch[2] + 1 \in 1 .. ChunkCount[j] /\ ch = <<j, (ch[2] + 1) - 1>>
      BY <1>1 DEF ChunksOf
    <3> QED
      BY <3>1
  <2>2. ASSUME someFailed
        PROVE  \E ch \in ChunksOf(j) : chunks[ch].status = "failed"
    BY <1>2, <2>2
  <2>3. ASSUME NEW ch \in ChunksOf(j), chunks[ch].status = "failed"
        PROVE  someFailed
    BY <2>1, <2>3
  <2> QED
    BY <2>2, <2>3
<1> HIDE DEF someFailed
<1>7. st \in {"done", "failed"} /\ (st = "failed" <=> someFailed)
  OBVIOUS
<1> HIDE DEF st
<1>8. [status |-> st, transcript |-> t] \in JobRecord
  BY <1>3, <1>7 DEF JobRecord, Status
<1> QED
  BY <1>5, <1>6, <1>7, <1>8 DEF t

-----------------------------------------------------------------------------
(***************************************************************************)
(* What a job's handler or driver may do                                   *)
(***************************************************************************)

StoreWrite(j) ==
  \/ at[j] = "saved" /\ SaveJobAs(j, "pending", <<>>) /\ UNCHANGED chunks
  \/ at[j] = "created" /\ AddChunksWrite(j)
  \/ at[j] = "chunked" /\ SaveJobAs(j, "processing", <<>>) /\ UNCHANGED chunks
  \/ Collected(j) /\ FinalizeWrite(j) /\ UNCHANGED chunks
  \/ UNCHANGED storeVars

JobMove(j) ==
  /\ at' = [at EXCEPT ![j] = at'[j]]
  /\ at'[j] \in JobPc
  /\ at'[j] \in Unsubmitted => at[j] \in Unsubmitted
  /\ StoreWrite(j)
  /\ uploads' \in {uploads, uploads \cup {j}, uploads \ {j}}
  /\ created' = created \/ \E time \in 1 .. Latest + 1 : created' = [created EXCEPT ![j] = time]
  /\ \/ UNCHANGED <<submitted, waiting>>
     \/ /\ at[j] \in {"prepared", "accepted"} /\ at'[j] = "collecting"
        /\ submitted' = Append(submitted, j)
        /\ waiting' = waiting \cup ChunksOf(j)
  /\ \/ UNCHANGED taken
     \/ /\ at[j] = "collecting"
        /\ taken[j] < Len(completions[j])
        /\ result[<<j, completions[j][taken[j] + 1]>>] # "raised"
        /\ taken' = [taken EXCEPT ![j] = taken[j] + 1]
  /\ faults' = faults \/ (faults < MaxFaults /\ faults' = faults + 1)
  /\ UNCHANGED <<slotVars, futureVars>>

\* Every step of a handler, a generator or a task, raising or not, is such a move.
LEMMA JobMoves ==
  ASSUME at \in [Job -> JobPc], NEW j \in Job, JobStep(j) \/ ClientLeaves(j) \/ StoreRaises(j)
  PROVE  JobMove(j)
<1> USE DEF JobMove, StoreWrite, Goto, JobPc, Unsubmitted
<1>1. CASE SaveUpload(j) \/ RefuseUpload(j)
  BY <1>1 DEF SaveUpload, RefuseUpload
<1>2. CASE CreateJob(j)
  BY <1>2 DEF CreateJob
<1>3. CASE AddChunks(j)
  BY <1>3 DEF AddChunks
<1>4. CASE Reject(j)
  BY <1>4 DEF Reject, DeleteUpload
<1>5. CASE SavePrepared(j)
  BY <1>5 DEF SavePrepared, DeleteUpload
<1>6. CASE Accept(j) \/ ClientLeaves(j)
  BY <1>6 DEF Accept, ClientLeaves
<1>7. CASE Submit(j)
  BY <1>7 DEF Submit
<1>8. CASE Progress(j)
  BY <1>8 DEF Progress
<1>9. CASE ProgressRaises(j)
  BY <1>9 DEF ProgressRaises
<1>10. CASE Finalize(j)
  BY <1>10 DEF Finalize, Collected
<1>11. CASE StoreRaises(j)
  <2>1. at[j] \in {"saved", "created", "chunked", "collecting"}
    BY <1>11 DEF StoreRaises, Collected
  <2>2. at' = [at EXCEPT ![j] = at'[j]] /\ at'[j] \in {"unrecorded", "aborted"}
          /\ (at'[j] \in Unsubmitted => at[j] = "saved")
    BY <1>11 DEF StoreRaises
  <2>3. StoreWrite(j)
    BY <1>11 DEF StoreRaises
  <2> QED
    BY <1>11, <2>1, <2>2, <2>3 DEF StoreRaises, DeleteUpload
<1> QED
  BY <1>1, <1>2, <1>3, <1>4, <1>5, <1>6, <1>7, <1>8, <1>9, <1>10, <1>11 DEF JobStep

-----------------------------------------------------------------------------
(***************************************************************************)
(* What a slot may do                                                      *)
(***************************************************************************)

\* It works on its chunk and keeps it.
Advance(s) ==
  /\ chunks' = chunks \/ SaveChunk(s)
  /\ pc' = [pc EXCEPT ![s] = pc'[s]]
  /\ pc'[s] \in SlotPc \ {"idle"}
  /\ rec' = [rec EXCEPT ![s] = rec'[s]]
  /\ rec'[s] \in ChunkRecord
  /\ pc'[s] \in {"saveDone", "saveFallback"} => rec'[s].status = "done"
  /\ pc'[s] = "saveFailed" => rec'[s].status = "failed"
  /\ faults' = 0 /\ pc'[s] \in {"primary", "fallback", "saveFailed"} =>
       rec'[s].text = rec[s].text /\ pc[s] \in {"start", "primary", "fallback"}
  /\ UNCHANGED <<cur, futureVars, waiting>>
  /\ pc'[s] # "start"

\* It is through with its chunk, and resolves the future.
Through(s, value) ==
  /\ chunks' = chunks \/ SaveChunk(s)
  /\ value \in Text =>
       /\ SaveChunk(s) /\ value = Returned(s)
       /\ pc[s] \in {"saveDone", "saveFallback", "saveFailed"}
  /\ value = "raised" => faults' # 0
  /\ Resolve(s, value)
  /\ UNCHANGED waiting

SlotMove(s) ==
  /\ \/ Take(s)
     \/ pc[s] # "idle" /\ Advance(s)
     \/ pc[s] # "idle" /\ \E value \in Text \cup {"raised"} : Through(s, value)
  /\ faults' = faults \/ (faults < MaxFaults /\ faults' = faults + 1)
  /\ UNCHANGED <<jobs, jobVars>>

\* A failed transcription or a failed save leads on to the fallback or to the record
\* of the failure.
LEMMA FailureHandled ==
  ASSUME NEW s \in Slot, pc \in [Slot -> SlotPc], rec \in [Slot -> ChunkRecord],
         HandlePrimaryFailure(s) \/ MarkFailed(s)
  PROVE  /\ pc' = [pc EXCEPT ![s] = pc'[s]] /\ rec' = [rec EXCEPT ![s] = rec'[s]]
         /\ pc'[s] \in {"fallback", "saveFailed"}
         /\ pc'[s] = "saveFailed" => rec'[s].status = "failed"
         /\ rec'[s] \in ChunkRecord /\ rec'[s].text = rec[s].text
<1>1. CASE MarkFailed(s)
  BY <1>1 DEF MarkFailed, ChunkRecord, Status
<1>2. CASE /\ rec' = [rec EXCEPT ![s].backend = "local"]
           /\ pc' = [pc EXCEPT ![s] = "fallback"]
  BY <1>2 DEF ChunkRecord, Text, Backend
<1> QED
  BY <1>1, <1>2 DEF HandlePrimaryFailure

\* Every step of a slot, raising or not, is such a move.
LEMMA SlotMoves ==
  ASSUME TypeOK, SlotInv, NEW s \in Slot, SlotStep(s) \/ SaveRaises(s)
  PROVE  SlotMove(s)
<1>1. /\ pc \in [Slot -> SlotPc] /\ rec \in [Slot -> ChunkRecord]
      /\ faults \in Nat
      /\ pc[s] # "idle" => cur[s] \in Chunk /\ JobOf(cur[s]) \in Job
  BY ChunkParts, InProcessAssumption DEF TypeOK, SlotInv
<1> USE DEF SlotGoto, SlotPc
<1>2. CASE Take(s)
  BY <1>2 DEF Take, SlotMove, storeVars
<1>3. CASE SaveStarted(s)
  BY <1>1, <1>3 DEF SaveStarted, SlotMove, Advance
<1>4. CASE PrimaryReturns(s)
  <2>1. JobPlan(JobOf(cur[s])).backend \in Text
    BY <1>1, <1>4, PlanBackend DEF PrimaryReturns
  <2>2. rec'[s] \in ChunkRecord /\ rec'[s].status = "done" /\ rec' = [rec EXCEPT ![s] = rec'[s]]
    BY <1>1, <1>4, <2>1 DEF PrimaryReturns, ChunkRecord, Status
  <2> QED
    BY <1>1, <1>4, <2>2 DEF PrimaryReturns, SlotMove, Advance, storeVars
<1>5. CASE PrimaryRaises(s)
  BY <1>1, <1>5, FailureHandled DEF PrimaryRaises, SlotMove, Advance, storeVars
<1>6. CASE FallbackReturns(s)
  <2>1. rec'[s] \in ChunkRecord /\ rec'[s].status = "done" /\ rec' = [rec EXCEPT ![s] = rec'[s]]
    BY <1>1, <1>6 DEF FallbackReturns, ChunkRecord, Status, Text, Backend
  <2> QED
    BY <1>1, <1>6, <2>1 DEF FallbackReturns, SlotMove, Advance, storeVars
<1>7. CASE FallbackRaises(s)
  BY <1>1, <1>7, FailureHandled DEF FallbackRaises, SlotMove, Advance, storeVars
<1>8. CASE SaveResult(s)
  <2>1. Returned(s) \in Text
    BY <1>1 DEF Returned, ChunkRecord, Text
  <2>2. Returned(s) # "raised"
    BY <2>1 DEF Text, Backend
  <2>3. pc[s] # "idle" /\ Through(s, Returned(s))
    BY <1>8, <2>2 DEF SaveResult, Through
  <2>4. \E value \in Text \cup {"raised"} : Through(s, value)
    BY <2>1, <2>3
  <2> QED
    BY <1>8, <2>3, <2>4 DEF SaveResult, SlotMove
<1>9. CASE SaveRaises(s)
  <2>1. faults < MaxFaults /\ faults' = faults + 1 /\ faults' # 0 /\ UNCHANGED <<jobs, jobVars, waiting>>
          /\ (chunks' = chunks \/ SaveChunk(s)) /\ pc[s] # "idle"
    BY <1>1, <1>9 DEF SaveRaises
  <2>2. CASE Resolve(s, "raised")
    <3>1. Through(s, "raised")
      BY <2>1, <2>2 DEF Through, Text, Backend
    <3>2. \E value \in Text \cup {"raised"} : Through(s, value)
      BY <3>1
    <3> QED
      BY <2>1, <3>2 DEF SlotMove
  <2>3. CASE (HandlePrimaryFailure(s) \/ MarkFailed(s)) /\ UNCHANGED <<cur, futureVars>>
    BY <1>1, <2>1, <2>3, FailureHandled DEF SlotMove, Advance
  <2> QED
    BY <1>9, <2>2, <2>3 DEF SaveRaises
<1> QED
  BY <1>2, <1>3, <1>4, <1>5, <1>6, <1>7, <1>8, <1>9 DEF SlotStep

-----------------------------------------------------------------------------
(***************************************************************************)
(* Facts about a state that satisfies the invariant                        *)
(***************************************************************************)

\* What a working slot works on
LEMMA Working ==
  ASSUME IndInv, NEW s \in Slot, pc[s] # "idle"
  PROVE  /\ cur[s] \in Chunk /\ cur[s] # NoChunk
         /\ JobOf(cur[s]) \in Job
         /\ cur[s][2] \in 0 .. ChunkCount[JobOf(cur[s])] - 1
         /\ cur[s] = <<JobOf(cur[s]), cur[s][2]>>
         /\ cur[s] \in ChunksOf(JobOf(cur[s]))
         /\ result[cur[s]] = "open"
         /\ cur[s] \notin waiting
  BY ChunkParts DEF IndInv, TypeOK, SlotInv, OwnershipInv

\* A job that is driven to its end has a text for every chunk: as many futures are
\* resolved as there are chunks, each once, and none of them raised.
LEMMA CollectedTexts ==
  ASSUME IndInv, NEW j \in Job, Collected(j)
  PROVE  \A ch \in ChunksOf(j) : result[ch] \in Text
<1> DEFINE n == ChunkCount[j]
           I == 1 .. n
           V == 0 .. n - 1
           f == [k \in I |-> completions[j][k]]
<1>1. n \in Nat
  BY ChunksOfJob
<1>2. /\ n <= Len(completions[j]) /\ Len(completions[j]) \in Nat
      /\ \A k \in I : result[<<j, completions[j][k]>>] # "raised"
  <2>1. completions[j] \in Seq(Nat) /\ taken[j] \in 0 .. Len(completions[j])
    BY DEF IndInv, TypeOK
  <2>2. CASE ModeOf[j] = "sync"
    <3>1. taken[j] = n
      BY <2>2 DEF Collected
    <3>2. n <= Len(completions[j]) /\ Len(completions[j]) \in Nat
      BY <2>1, <3>1
    <3>3. \A k \in 1 .. taken[j] : result[<<j, completions[j][k]>>] # "raised"
      BY DEF IndInv, FutureInv
    <3> QED
      BY <3>1, <3>2, <3>3
  <2>3. CASE ModeOf[j] = "async"
    <3>1. Len(completions[j]) = n
      BY <2>3 DEF Collected
    <3>2. faults = 0
      BY <2>3, InProcessAssumption DEF IndInv, TypeOK
    <3>3. \A ch \in Chunk : result[ch] # "raised"
      BY <3>2 DEF IndInv, FutureInv
    <3>4. \A k \in I : <<j, completions[j][k]>> \in Chunk
      BY <1>1, <2>1, <3>1, ChunksOfJob DEF IndInv, FutureInv
    <3> QED
      BY <1>1, <3>1, <3>3, <3>4
  <2> QED
    BY <2>2, <2>3 DEF Collected
<1>3. \A k \in I : completions[j][k] \in V /\ result[<<j, completions[j][k]>>] # "open"
  BY <1>1, <1>2 DEF IndInv, FutureInv
<1>4. \A k, l \in I : completions[j][k] = completions[j][l] => k = l
  BY <1>1, <1>2 DEF IndInv, FutureInv
<1>5. f \in Injection(I, V)
  BY <1>3, <1>4 DEF Injection, IsInjective
<1>6. IsFiniteSet(V) /\ Cardinality(I) = n /\ Cardinality(V) = n
  <2>1. PICK last \in Int : last = n - 1
    BY <1>1
  <2>2. Cardinality(1 .. n) = IF 1 > n THEN 0 ELSE n - 1 + 1
    BY <1>1, FS_Interval
  <2>3. IsFiniteSet(0 .. last) /\ Cardinality(0 .. last) = IF 0 > last THEN 0 ELSE last - 0 + 1
    BY ONLY last \in Int, FS_Interval
  <2> HIDE DEF n
  <2> QED
    BY <1>1, <2>1, <2>2, <2>3
<1>7. f \in Surjection(I, V)
  BY <1>5, <1>6, FS_Injection
<1>8. \A v \in V : \E k \in I : f[k] = v
  BY <1>7 DEF Surjection
<1>9. \A v \in V : result[<<j, v>>] \notin {"open", "raised"}
  <2> SUFFICES ASSUME NEW v \in V
               PROVE  result[<<j, v>>] \notin {"open", "raised"}
    OBVIOUS
  <2>1. PICK k \in I : completions[j][k] = v
    BY <1>8
  <2> QED
    BY <1>2, <1>3, <2>1
<1>10. \A ch \in ChunksOf(j) : ch \in Chunk /\ \E v \in V : ch = <<j, v>>
  BY ChunksOfJob DEF ChunksOf
<1> QED
  BY <1>9, <1>10 DEF IndInv, TypeOK

-----------------------------------------------------------------------------
(***************************************************************************)
(* The invariant is kept: by a job's handler or driver                     *)
(***************************************************************************)

\* What a move of job j does to its record, and that it touches no other.
LEMMA RecordsMove ==
  ASSUME IndInv, NEW j \in Job, JobMove(j)
  PROVE  /\ jobs' \in [Job -> JobRecord] /\ chunks' \in [Chunk -> ChunkRecord]
         /\ \A i \in Job \ {j} : jobs'[i] = jobs[i]
         /\ \A ch \in Chunk : chunks'[ch] # chunks[ch] => ch \in ChunksOf(j) /\ at[j] = "created"
<1>1. jobs \in [Job -> JobRecord] /\ chunks \in [Chunk -> ChunkRecord]
  BY DEF IndInv, TypeOK
<1>2. NewChunk \in ChunkRecord
  BY DEF NewChunk, Blank, ChunkRecord, Status, Text
<1>3. CASE AddChunksWrite(j) /\ at[j] = "created"
  BY <1>1, <1>2, <1>3 DEF AddChunksWrite
<1>4. CASE (SaveJobAs(j, "pending", <<>>) \/ SaveJobAs(j, "processing", <<>>)) /\ UNCHANGED chunks
  <2>1. PICK st \in {"pending", "processing"} :
          jobs' = [jobs EXCEPT ![j] = [status |-> st, transcript |-> <<>>]]
    BY <1>4 DEF SaveJobAs
  <2>2. [status |-> st, transcript |-> <<>>] \in JobRecord
    BY DEF JobRecord, Status
  <2> QED
    BY <1>1, <1>4, <2>1, <2>2
<1>5. CASE FinalizeWrite(j) /\ UNCHANGED chunks
  BY <1>1, <1>5, FinalRecord
<1>6. CASE UNCHANGED storeVars
  BY <1>1, <1>6 DEF storeVars
<1> QED
  BY <1>3, <1>4, <1>5, <1>6 DEF JobMove, StoreWrite

\* A step of a job leaves every variable in its type.
LEMMA TypeKeptByJob ==
  ASSUME IndInv, NEW j \in Job, JobMove(j)
  PROVE  TypeOK'
<1>1. TypeOK
  BY DEF IndInv
<1>2. jobs' \in [Job -> JobRecord] /\ chunks' \in [Chunk -> ChunkRecord]
  BY RecordsMove
<1>3. uploads' \subseteq Job /\ at' \in [Job -> JobPc]
  <2>1. uploads' \subseteq Job
    BY <1>1 DEF TypeOK, JobMove
  <2>2. at \in [Job -> JobPc] /\ at'[j] \in JobPc /\ at' = [at EXCEPT ![j] = at'[j]]
    BY <1>1 DEF TypeOK, JobMove
  <2>3. at' \in [Job -> JobPc]
    BY <2>2
  <2> QED
    BY <2>1, <2>3
<1>4. created' \in [Job -> Nat]
  <2>1. ASSUME NEW time \in 1 .. Latest + 1
        PROVE  time \in Nat
    OBVIOUS
  <2> QED
    BY <1>1, <2>1 DEF TypeOK, JobMove
<1>5. submitted' \in Seq(Job)
  <2>1. submitted \in Seq(Job) /\ submitted' \in {submitted, Append(submitted, j)}
    BY <1>1 DEF TypeOK, JobMove
  <2> QED
    BY <2>1
<1>6. waiting' \subseteq {ch \in Chunk : result'[ch] = "open"}
  <2>1. at[j] \in {"prepared", "accepted"} =>
          \A ch \in ChunksOf(j) : ch \in Chunk /\ result[ch] = "open"
    BY ChunksOfJob DEF IndInv, OwnershipInv, Unsubmitted
  <2> QED
    BY <1>1, <2>1 DEF TypeOK, JobMove, futureVars
<1>7. taken' \in [Job -> Nat] /\ \A i \in Job : taken'[i] <= Len(completions'[i])
  <2>1. taken' = taken \/ (taken[j] < Len(completions[j])
                            /\ taken' = [taken EXCEPT ![j] = taken[j] + 1])
    BY DEF JobMove
  <2>2. UNCHANGED completions
    BY DEF JobMove, futureVars
  <2>3. taken \in [Job -> Nat]
          /\ \A i \in Job : Len(completions[i]) \in Nat /\ taken[i] <= Len(completions[i])
    BY <1>1 DEF TypeOK
  <2> QED
    BY <2>1, <2>2, <2>3
<1>8. faults' \in 0 .. MaxFaults
  BY <1>1, InProcessAssumption DEF TypeOK, JobMove
<1> QED
  BY <1>1, <1>2, <1>3, <1>4, <1>5, <1>6, <1>7, <1>8 DEF TypeOK, JobMove, slotVars, futureVars

\* A step of a job leaves each chunk where it was: queued, with its slot, or done.
LEMMA OwnershipKeptByJob ==
  ASSUME IndInv, NEW j \in Job, JobMove(j)
  PROVE  OwnershipInv'
<1>1. TypeOK /\ OwnershipInv
  BY DEF IndInv
<1>2. UNCHANGED <<cur, result>>
  BY DEF JobMove, slotVars, futureVars
<1>3. \A ch \in Chunk : JobOf(ch) \in Job
  BY ChunkParts
<1>4. at \in [Job -> JobPc] /\ at' = [at EXCEPT ![j] = at'[j]]
        /\ (at'[j] \in Unsubmitted => at[j] \in Unsubmitted)
  BY <1>1 DEF TypeOK, JobMove
<1>5. CASE UNCHANGED <<submitted, waiting>>
  BY <1>1, <1>2, <1>3, <1>4, <1>5 DEF OwnershipInv
<1>6. CASE /\ at[j] \in {"prepared", "accepted"} /\ at'[j] = "collecting"
           /\ submitted' = Append(submitted, j)
           /\ waiting' = waiting \cup ChunksOf(j)
  <2>1. \A ch \in ChunksOf(j) : ch \in Chunk /\ JobOf(ch) = j /\ \A s \in Slot : cur[s] # ch
    BY <1>1, <1>6, ChunksOfJob DEF OwnershipInv, Unsubmitted
  <2>2. submitted \in Seq(Job)
    BY <1>1 DEF TypeOK
  <2>3. /\ Len(submitted') = Len(submitted) + 1 /\ Len(submitted) \in Nat
        /\ submitted'[Len(submitted) + 1] = j
        /\ \A k \in 1 .. Len(submitted) : submitted'[k] = submitted[k]
    BY <1>6, <2>2
  <2>4. \A ch \in waiting' :
          /\ \A s \in Slot : cur'[s] # ch
          /\ \E k \in 1 .. Len(submitted') : submitted'[k] = JobOf(ch)
    <3> SUFFICES ASSUME NEW ch \in waiting'
                 PROVE  /\ \A s \in Slot : cur[s] # ch
                        /\ \E k \in 1 .. Len(submitted') : submitted'[k] = JobOf(ch)
      BY <1>2
    <3>1. CASE ch \in waiting
      <4>1. PICK k \in 1 .. Len(submitted) : submitted[k] = JobOf(ch)
        BY <1>1, <3>1 DEF OwnershipInv
      <4>2. k \in 1 .. Len(submitted') /\ submitted'[k] = JobOf(ch)
        BY <2>3, <4>1
      <4> QED
        BY <1>1, <3>1, <4>2 DEF OwnershipInv
    <3>2. CASE ch \in ChunksOf(j)
      <4>1. Len(submitted) + 1 \in 1 .. Len(submitted')
        BY <2>3
      <4> QED
        BY <2>1, <2>3, <3>2, <4>1
    <3> QED
      BY <1>6, <3>1, <3>2
  <2>5. \A ch \in Chunk : at'[JobOf(ch)] \in Unsubmitted =>
          JobOf(ch) # j /\ at[JobOf(ch)] \in Unsubmitted
    BY <1>3, <1>4, <1>6 DEF Unsubmitted
  <2>6. \A ch \in Chunk : at'[JobOf(ch)] \in Unsubmitted =>
          ch \notin waiting' /\ result'[ch] = "open" /\ \A s \in Slot : cur'[s] # ch
    BY <1>1, <1>2, <1>6, <2>1, <2>5 DEF OwnershipInv
  <2> QED
    BY <1>1, <1>2, <2>4, <2>6 DEF OwnershipInv
<1> QED
  BY <1>5, <1>6 DEF JobMove

\* A step of a job resolves no future.
LEMMA FuturesKeptByJob ==
  ASSUME IndInv, NEW j \in Job, JobMove(j)
  PROVE  FutureInv'
<1>1. TypeOK /\ FutureInv
  BY DEF IndInv
<1>2. UNCHANGED <<completions, result>>
  BY DEF JobMove, futureVars
<1>3. faults' = 0 => faults = 0
  BY <1>1, InProcessAssumption DEF JobMove, TypeOK
<1>4. \A i \in Job : \A k \in 1 .. taken'[i] : result[<<i, completions[i][k]>>] # "raised"
  <2>1. taken \in [Job -> Nat]
    BY <1>1 DEF TypeOK
  <2>2. CASE UNCHANGED taken
    BY <1>1, <2>2 DEF FutureInv
  <2>3. CASE /\ result[<<j, completions[j][taken[j] + 1]>>] # "raised"
             /\ taken' = [taken EXCEPT ![j] = taken[j] + 1]
    <3>1. taken'[j] = taken[j] + 1 /\ \A i \in Job \ {j} : taken'[i] = taken[i]
      BY <2>1, <2>3
    <3>2. \A k \in 1 .. taken'[j] : k \in 1 .. taken[j] \/ k = taken[j] + 1
      BY <2>1, <3>1
    <3>3. \A k \in 1 .. taken'[j] : result[<<j, completions[j][k]>>] # "raised"
      BY <1>1, <2>3, <3>2 DEF FutureInv
    <3> QED
      BY <1>1, <3>1, <3>3 DEF FutureInv
  <2> QED
    BY <2>2, <2>3 DEF JobMove
<1> QED
  BY <1>1, <1>2, <1>3, <1>4 DEF FutureInv

\* A step of a job leaves the records as far as their slots have brought them.
LEMMA RecordsKeptByJob ==
  ASSUME IndInv, NEW j \in Job, JobMove(j)
  PROVE  RecordInv'
<1>1. TypeOK /\ RecordInv
  BY DEF IndInv
<1>2. UNCHANGED <<pc, rec, result>>
  BY DEF JobMove, slotVars, futureVars
<1>3. faults' = 0 => faults = 0
  BY <1>1, InProcessAssumption DEF JobMove, TypeOK
<1>4. \A ch \in Chunk : result[ch] \in Text => chunks'[ch] = chunks[ch]
  <2> SUFFICES ASSUME NEW ch \in Chunk, chunks'[ch] # chunks[ch]
               PROVE  result[ch] \notin Text
    OBVIOUS
  <2>1. ch \in ChunksOf(j) /\ at[j] = "created"
    BY RecordsMove
  <2>2. result[ch] = "open"
    BY <2>1, ChunksOfJob DEF IndInv, OwnershipInv, Unsubmitted
  <2> QED
    BY <2>2 DEF Text, Backend
<1> QED
  BY <1>1, <1>2, <1>3, <1>4 DEF RecordInv

\* Another job's record, chunks and place are what they were.
LEMMA OthersStatusKeptByJob ==
  ASSUME IndInv, NEW j \in Job, JobMove(j), NEW i \in Job, i # j
  PROVE  StatusOK(i)'
<1>1. StatusOK(i) /\ at'[i] = at[i] /\ jobs'[i] = jobs[i]
  BY RecordsMove DEF IndInv, StatusInv, TypeOK, JobMove
<1>2. \A ch \in ChunksOf(i) :
        ch \in Chunk /\ ch \notin ChunksOf(j) /\ chunks'[ch] = chunks[ch]
  BY RecordsMove, ChunksOfJob
<1>3. /\ UNCHANGED <<cur, result>>
      /\ \A ch \in ChunksOf(i) : ch \in waiting' => ch \in waiting
  BY <1>2 DEF JobMove, slotVars, futureVars
<1>4. [k \in 1 .. ChunkCount[i] |-> chunks'[<<i, k - 1>>].text]
        = [k \in 1 .. ChunkCount[i] |-> chunks[<<i, k - 1>>].text]
  <2>1. \A k \in 1 .. ChunkCount[i] : <<i, k - 1>> \in ChunksOf(i)
    BY ChunksOfJob DEF ChunksOf
  <2> QED
    BY <1>2, <2>1
<1> QED
  BY <1>1, <1>2, <1>3, <1>4 DEF StatusOK, Finished

\* What is stored of the job itself follows its chunks, whatever the move.
LEMMA OwnStatusKeptByJob ==
  ASSUME IndInv, NEW j \in Job, JobMove(j)
  PROVE  /\ ~ Finished(j)' => jobs'[j].transcript = <<>>
         /\ \A ch \in ChunksOf(j) : (ch \in waiting' \/ \E s \in Slot : cur'[s] = ch) =>
              jobs'[j].status \notin {"absent", "pending"}
         /\ Finished(j)' =>
              /\ \A ch \in ChunksOf(j) : result'[ch] \in Text
              /\ jobs'[j].transcript =
                   [k \in 1 .. ChunkCount[j] |-> chunks'[<<j, k - 1>>].text]
<1> DEFINE held == \A ch \in ChunksOf(j) : (ch \in waiting' \/ \E s \in Slot : cur'[s] = ch) =>
                     jobs'[j].status \notin {"absent", "pending"}
<1>1. StatusOK(j) /\ jobs \in [Job -> JobRecord] /\ chunks \in [Chunk -> ChunkRecord]
        /\ at \in [Job -> JobPc]
  BY DEF IndInv, StatusInv, TypeOK
<1>2. UNCHANGED <<cur, result>>
  BY DEF JobMove, slotVars, futureVars
<1>3. waiting' # waiting => at[j] \in {"prepared", "accepted"}
  BY DEF JobMove
<1>4. at[j] \in Unsubmitted => \A ch \in ChunksOf(j) :
        ch \notin waiting /\ \A s \in Slot : cur[s] # ch
  BY ChunksOfJob DEF IndInv, OwnershipInv
<1>5. CASE (SaveJobAs(j, "pending", <<>>) \/ SaveJobAs(j, "processing", <<>>))
             /\ at[j] \in {"saved", "chunked"} /\ UNCHANGED chunks
  <2>1. jobs'[j].status \in {"pending", "processing"} /\ jobs'[j].transcript = <<>>
    BY <1>1, <1>5 DEF SaveJobAs
  <2>2. held
    BY <1>2, <1>3, <1>4, <1>5 DEF Unsubmitted
  <2> QED
    BY <2>1, <2>2 DEF Finished
<1>6. CASE AddChunksWrite(j) /\ at[j] = "created"
  <2>1. jobs' = jobs /\ jobs[j].status = "pending"
    BY <1>1, <1>6 DEF AddChunksWrite, StatusOK
  <2>2. held
    BY <1>2, <1>3, <1>4, <1>6 DEF Unsubmitted
  <2> QED
    BY <1>1, <2>1, <2>2 DEF Finished, StatusOK
<1>7. CASE Collected(j) /\ FinalizeWrite(j) /\ UNCHANGED chunks
  <2>1. /\ jobs'[j].status \in {"done", "failed"}
        /\ jobs'[j].transcript = [k \in 1 .. ChunkCount[j] |-> chunks[<<j, k - 1>>].text]
    BY <1>1, <1>7, FinalRecord
  <2>2. \A ch \in ChunksOf(j) : result[ch] \in Text
    BY <1>7, CollectedTexts
  <2> QED
    BY <1>2, <1>7, <2>1, <2>2 DEF Finished
<1>8. CASE UNCHANGED storeVars
  <2>1. UNCHANGED <<jobs, chunks>>
    BY <1>8 DEF storeVars
  <2>2. held
    BY <1>1, <1>2, <1>3, <2>1 DEF StatusOK
  <2> QED
    BY <1>1, <1>2, <2>1, <2>2 DEF StatusOK, Finished
<1> QED
  BY <1>5, <1>6, <1>7, <1>8 DEF JobMove, StoreWrite

\* Where a job stands tells its stored status, as long as its handler or driver goes on.
LEMMA PlaceKeptByJob ==
  ASSUME IndInv, NEW j \in Job, JobStep(j) \/ ClientLeaves(j) \/ StoreRaises(j)
  PROVE  /\ at'[j] \in {"new", "saved"} => jobs'[j].status = "absent"
         /\ at'[j] \in {"created", "chunked"} => jobs'[j].status = "pending"
         /\ at'[j] \in {"prepared", "accepted", "collecting", "gone"} =>
              jobs'[j].status = "processing"
<1>1. at \in [Job -> JobPc] /\ StatusOK(j) /\ jobs \in [Job -> JobRecord]
  BY DEF IndInv, TypeOK, StatusInv
<1> USE DEF Goto
<1>2. CASE SaveUpload(j) \/ RefuseUpload(j) \/ Reject(j)
  BY <1>1, <1>2 DEF SaveUpload, RefuseUpload, Reject, storeVars, StatusOK
<1>3. CASE CreateJob(j)
  BY <1>1, <1>3 DEF CreateJob, SaveJobAs
<1>4. CASE AddChunks(j)
  BY <1>1, <1>4 DEF AddChunks, AddChunksWrite, StatusOK
<1>5. CASE SavePrepared(j)
  BY <1>1, <1>5 DEF SavePrepared, SaveJobAs
<1>6. CASE Accept(j) \/ ClientLeaves(j)
  BY <1>1, <1>6 DEF Accept, ClientLeaves, storeVars, StatusOK
<1>7. CASE Submit(j)
  <2>1. at[j] \in {"prepared", "accepted"} /\ at'[j] = "collecting" /\ jobs' = jobs
    BY <1>1, <1>7 DEF Submit, storeVars
  <2> QED
    BY <1>1, <2>1 DEF StatusOK
<1>8. CASE Progress(j)
  BY <1>1, <1>8 DEF Progress, storeVars, StatusOK
<1>9. CASE ProgressRaises(j)
  BY <1>1, <1>9 DEF ProgressRaises
<1>10. CASE Finalize(j)
  BY <1>1, <1>10 DEF Finalize
<1>11. CASE StoreRaises(j)
  BY <1>1, <1>11 DEF StoreRaises
<1> QED
  BY <1>2, <1>3, <1>4, <1>5, <1>6, <1>7, <1>8, <1>9, <1>10, <1>11 DEF JobStep

\* A step of a job keeps the invariant.
LEMMA InvKeptByJob ==
  ASSUME IndInv, NEW j \in Job, JobStep(j) \/ ClientLeaves(j) \/ StoreRaises(j)
  PROVE  IndInv'
<1>1. JobMove(j)
  BY JobMoves DEF IndInv, TypeOK
<1>2. SlotInv'
  BY <1>1 DEF IndInv, SlotInv, JobMove, slotVars
<1>3. StatusOK(j)'
  BY <1>1, OwnStatusKeptByJob, PlaceKeptByJob DEF StatusOK
<1>4. StatusInv'
  BY <1>1, <1>3, OthersStatusKeptByJob DEF StatusInv
<1> QED
  BY <1>1, <1>2, <1>4, TypeKeptByJob, OwnershipKeptByJob, FuturesKeptByJob, RecordsKeptByJob
  DEF IndInv

-----------------------------------------------------------------------------
(***************************************************************************)
(* The invariant is kept: by a slot                                        *)
(***************************************************************************)

\* An idle slot takes a chunk nobody else works on.
LEMMA InvKeptByTake ==
  ASSUME IndInv, NEW s \in Slot, Take(s)
  PROVE  IndInv'
<1>1. TypeOK /\ SlotInv /\ OwnershipInv /\ FutureInv /\ RecordInv /\ StatusInv
  BY DEF IndInv
<1>2. PICK ch \in Chunk :
        /\ ComesFirst(ch)
        /\ waiting' = waiting \ {ch}
        /\ cur' = [cur EXCEPT ![s] = ch]
        /\ rec' = [rec EXCEPT ![s] = [NewChunk EXCEPT
             !.status = "processing", !.backend = JobPlan(JobOf(ch)).backend]]
  BY DEF Take
<1>3. /\ pc[s] = "idle" /\ pc' = [pc EXCEPT ![s] = "start"] /\ cur[s] = NoChunk
      /\ UNCHANGED <<jobs, chunks, uploads, at, created, submitted, taken, result,
                     completions, faults>>
  BY <1>1 DEF Take, storeVars, jobVars, futureVars, SlotInv
<1>4. /\ ch \in waiting /\ result[ch] = "open" /\ JobOf(ch) \in Job /\ ch # NoChunk
      /\ \A t \in Slot : cur[t] # ch
  BY <1>1, <1>2, ChunkParts DEF ComesFirst, TypeOK, OwnershipInv
<1>5. /\ cur'[s] = ch /\ pc'[s] = "start"
      /\ \A t \in Slot \ {s} : cur'[t] = cur[t] /\ pc'[t] = pc[t] /\ rec'[t] = rec[t]
  BY <1>1, <1>2, <1>3 DEF TypeOK
<1>6. rec'[s] \in ChunkRecord /\ rec'[s].text = "none"
  <2>1. JobPlan(JobOf(ch)).backend \in Text
    BY <1>4, PlanBackend
  <2> QED
    BY <1>1, <1>2, <2>1 DEF TypeOK, NewChunk, Blank, ChunkRecord, Status, Text
<1>7. TypeOK'
  <2>1. pc' \in [Slot -> SlotPc]
    BY <1>1, <1>3 DEF TypeOK, SlotPc
  <2>2. cur' \in [Slot -> Chunk \cup {NoChunk}]
    BY <1>1, <1>2 DEF TypeOK
  <2>3. rec' \in [Slot -> ChunkRecord]
    BY <1>1, <1>2, <1>6 DEF TypeOK
  <2>4. waiting' \subseteq {c \in Chunk : result'[c] = "open"}
    BY <1>1, <1>2, <1>3 DEF TypeOK
  <2> QED
    BY <1>1, <1>3, <2>1, <2>2, <2>3, <2>4 DEF TypeOK
<1>8. SlotInv'
  BY <1>1, <1>4, <1>5 DEF SlotInv
<1>9. OwnershipInv'
  <2>1. \A c \in waiting' :
          /\ \A t \in Slot : cur'[t] # c
          /\ \E k \in 1 .. Len(submitted') : submitted'[k] = JobOf(c)
    BY <1>1, <1>2, <1>3, <1>5 DEF OwnershipInv
  <2>2. \A t \in Slot : cur'[t] # NoChunk =>
          /\ result'[cur'[t]] = "open"
          /\ \A u \in Slot : cur'[u] = cur'[t] => u = t
    <3> SUFFICES ASSUME NEW t \in Slot, cur'[t] # NoChunk
                 PROVE  /\ result[cur'[t]] = "open"
                        /\ \A u \in Slot : cur'[u] = cur'[t] => u = t
      BY <1>3
    <3>1. CASE t = s
      BY <1>4, <1>5, <3>1
    <3>2. CASE t # s
      BY <1>1, <1>4, <1>5, <3>2 DEF OwnershipInv
    <3> QED
      BY <3>1, <3>2
  <2>3. \A c \in Chunk : at'[JobOf(c)] \in Unsubmitted =>
          c \notin waiting' /\ result'[c] = "open" /\ \A t \in Slot : cur'[t] # c
    BY <1>1, <1>2, <1>3, <1>4, <1>5 DEF OwnershipInv
  <2> QED
    BY <2>1, <2>2, <2>3 DEF OwnershipInv
<1>10. FutureInv'
  BY <1>1, <1>3 DEF FutureInv
<1>11. RecordInv'
  BY <1>1, <1>3, <1>5, <1>6 DEF RecordInv
<1>12. StatusInv'
  <2> SUFFICES ASSUME NEW j \in Job
               PROVE  StatusOK(j)'
    BY DEF StatusInv
  <2>1. StatusOK(j)
    BY <1>1 DEF StatusInv
  <2>2. \A c \in ChunksOf(j) : (c \in waiting' \/ \E t \in Slot : cur'[t] = c) =>
          (c \in waiting \/ \E t \in Slot : cur[t] = c)
    BY <1>2, <1>4, <1>5
  <2> QED
    BY <1>3, <2>1, <2>2 DEF StatusOK, Finished
<1> QED
  BY <1>7, <1>8, <1>9, <1>10, <1>11, <1>12 DEF IndInv

\* Saving the record of a chunk whose future is open changes nothing that is settled.
LEMMA ChunkSaved ==
  ASSUME IndInv, NEW s \in Slot, pc[s] # "idle", chunks' = chunks \/ SaveChunk(s)
  PROVE  /\ chunks' \in [Chunk -> ChunkRecord]
         /\ \A ch \in Chunk \ {cur[s]} : chunks'[ch] = chunks[ch]
         /\ \A j \in Job : Finished(j) =>
              /\ cur[s] \notin ChunksOf(j)
              /\ [k \in 1 .. ChunkCount[j] |-> chunks'[<<j, k - 1>>].text]
                   = [k \in 1 .. ChunkCount[j] |-> chunks[<<j, k - 1>>].text]
<1>1. chunks \in [Chunk -> ChunkRecord] /\ rec[s] \in ChunkRecord /\ cur[s] \in Chunk
        /\ result[cur[s]] = "open"
  BY Working DEF IndInv, TypeOK
<1>2. /\ chunks' \in [Chunk -> ChunkRecord]
      /\ \A ch \in Chunk \ {cur[s]} : chunks'[ch] = chunks[ch]
  BY <1>1 DEF SaveChunk
<1>3. ASSUME NEW j \in Job, Finished(j)
      PROVE  /\ cur[s] \notin ChunksOf(j)
             /\ [k \in 1 .. ChunkCount[j] |-> chunks'[<<j, k - 1>>].text]
                  = [k \in 1 .. ChunkCount[j] |-> chunks[<<j, k - 1>>].text]
  <2>1. \A ch \in ChunksOf(j) : result[ch] \in Text
    BY <1>3 DEF IndInv, StatusInv, StatusOK
  <2>2. cur[s] \notin ChunksOf(j)
    BY <1>1, <2>1 DEF Text, Backend
  <2>3. \A k \in 1 .. ChunkCount[j] : <<j, k - 1>> \in Chunk /\ <<j, k - 1>> \in ChunksOf(j)
    BY ChunksOfJob
  <2> QED
    BY <1>2, <2>2, <2>3
<1> QED
  BY <1>2, <1>3

\* A step of a slot from one await to the next keeps the invariant.
LEMMA InvKeptByAdvance ==
  ASSUME IndInv, NEW s \in Slot, pc[s] # "idle", Advance(s),
         faults' = faults \/ (faults < MaxFaults /\ faults' = faults + 1),
         UNCHANGED <<jobs, jobVars>>
  PROVE  IndInv'
<1>1. TypeOK /\ SlotInv /\ OwnershipInv /\ FutureInv /\ RecordInv /\ StatusInv
  BY DEF IndInv
<1>2. /\ cur[s] \in Chunk /\ cur[s] # NoChunk /\ result[cur[s]] = "open"
  BY Working
<1>3. /\ chunks' \in [Chunk -> ChunkRecord]
      /\ \A ch \in Chunk \ {cur[s]} : chunks'[ch] = chunks[ch]
  BY ChunkSaved DEF Advance
<1>4. /\ UNCHANGED <<uploads, at, created, submitted, taken, jobs, cur, result, completions,
                     waiting>>
  BY DEF Advance, jobVars, futureVars
<1>5. faults' \in 0 .. MaxFaults /\ (faults' = 0 => faults = 0)
  BY <1>1, InProcessAssumption DEF TypeOK
<1>6. /\ pc' \in [Slot -> SlotPc] /\ rec' \in [Slot -> ChunkRecord]
      /\ \A t \in Slot \ {s} : pc'[t] = pc[t] /\ rec'[t] = rec[t]
      /\ pc'[s] \notin {"idle", "start"}
      /\ pc'[s] \in {"saveDone", "saveFallback"} => rec'[s].status = "done"
      /\ pc'[s] = "saveFailed" => rec'[s].status = "failed"
      /\ (faults' = 0 /\ pc'[s] \in {"primary", "fallback", "saveFailed"}) =>
           rec'[s].text = rec[s].text /\ pc[s] \in {"start", "primary", "fallback"}
  BY <1>1 DEF TypeOK, Advance
<1>7. TypeOK'
  BY <1>1, <1>3, <1>4, <1>5, <1>6 DEF TypeOK
<1>8. SlotInv'
  BY <1>1, <1>2, <1>4, <1>6 DEF SlotInv
<1>9. OwnershipInv'
  BY <1>1, <1>4 DEF OwnershipInv
<1>10. FutureInv'
  BY <1>1, <1>4, <1>5 DEF FutureInv
<1>11. RecordInv'
  <2>1. \A ch \in Chunk : result[ch] \in Text => chunks'[ch] = chunks[ch]
    BY <1>2, <1>3 DEF Text, Backend
  <2>2. faults' = 0 => \A t \in Slot :
          pc'[t] \in {"start", "primary", "fallback", "saveFailed"} => rec'[t].text = "none"
    <3> SUFFICES ASSUME faults' = 0, NEW t \in Slot,
                        pc'[t] \in {"start", "primary", "fallback", "saveFailed"}
                 PROVE  rec'[t].text = "none"
      OBVIOUS
    <3>1. \A u \in Slot : pc[u] \in {"start", "primary", "fallback", "saveFailed"} =>
            rec[u].text = "none"
      BY <1>1, <1>5 DEF RecordInv
    <3>2. CASE t = s
      BY <1>6, <3>1, <3>2
    <3>3. CASE t # s
      BY <1>6, <3>1, <3>3
    <3> QED
      BY <3>2, <3>3
  <2> QED
    BY <1>1, <1>4, <1>5, <2>1, <2>2 DEF RecordInv
<1>12. StatusInv'
  <2> SUFFICES ASSUME NEW j \in Job
               PROVE  StatusOK(j)'
    BY DEF StatusInv
  <2>1. StatusOK(j)
    BY <1>1 DEF StatusInv
  <2>2. Finished(j) => [k \in 1 .. ChunkCount[j] |-> chunks'[<<j, k - 1>>].text]
                         = [k \in 1 .. ChunkCount[j] |-> chunks[<<j, k - 1>>].text]
    BY ChunkSaved DEF Advance
  <2>3. Finished(j)' <=> Finished(j)
    BY <1>4 DEF Finished
  <2> QED
    BY <1>4, <2>1, <2>2, <2>3 DEF StatusOK
<1> QED
  BY <1>7, <1>8, <1>9, <1>10, <1>11, <1>12 DEF IndInv

\* A slot that is through leaves its chunk, resolved, to the job's completions.
LEMMA InvKeptByThrough ==
  ASSUME IndInv, NEW s \in Slot, pc[s] # "idle", NEW value \in Text \cup {"raised"},
         Through(s, value),
         faults' = faults \/ (faults < MaxFaults /\ faults' = faults + 1),
         UNCHANGED <<jobs, jobVars>>
  PROVE  IndInv'
<1> DEFINE ch == cur[s]
           i == JobOf(ch)
           x == ch[2]
<1>1. TypeOK /\ SlotInv /\ OwnershipInv /\ FutureInv /\ RecordInv /\ StatusInv
  BY DEF IndInv
<1>2. /\ ch \in Chunk /\ ch # NoChunk /\ result[ch] = "open" /\ ch \notin waiting
      /\ i \in Job /\ x \in 0 .. ChunkCount[i] - 1 /\ ch = <<i, x>> /\ ch \in ChunksOf(i)
      /\ x \in Nat
  BY Working, ChunksOfJob
<1>3. /\ chunks' \in [Chunk -> ChunkRecord]
      /\ \A c \in Chunk \ {ch} : chunks'[c] = chunks[c]
  BY ChunkSaved DEF Through
<1>4. UNCHANGED <<uploads, at, created, submitted, taken, jobs, waiting>>
  BY DEF Through, jobVars
<1>5. faults' \in 0 .. MaxFaults /\ (faults' = 0 => faults = 0)
  BY <1>1, InProcessAssumption DEF TypeOK
<1>6. /\ pc' = [pc EXCEPT ![s] = "idle"]
      /\ cur' = [cur EXCEPT ![s] = NoChunk]
      /\ rec' = [rec EXCEPT ![s] = Blank]
      /\ result' = [result EXCEPT ![ch] = value]
      /\ completions' = [completions EXCEPT ![i] = Append(completions[i], x)]
  BY DEF Through, Resolve
<1>7. /\ value # "open"
      /\ value = "raised" => faults' # 0
      /\ value \in Text =>
           /\ chunks' = [chunks EXCEPT ![ch] = rec[s]] /\ value = Returned(s)
           /\ pc[s] \in {"saveDone", "saveFallback", "saveFailed"}
  BY DEF Through, SaveChunk, Text, Backend
<1> HIDE DEF ch, i, x
<1>8. /\ pc'[s] = "idle" /\ cur'[s] = NoChunk
      /\ \A t \in Slot \ {s} : pc'[t] = pc[t] /\ cur'[t] = cur[t] /\ rec'[t] = rec[t]
      /\ result'[ch] = value
      /\ \A c \in Chunk \ {ch} : result'[c] = result[c]
  BY <1>1, <1>2, <1>6 DEF TypeOK
<1>9. /\ completions[i] \in Seq(Nat)
      /\ completions'[i] = Append(completions[i], x)
      /\ Len(completions'[i]) = Len(completions[i]) + 1 /\ Len(completions[i]) \in Nat
      /\ completions'[i][Len(completions[i]) + 1] = x
      /\ \A k \in 1 .. Len(completions[i]) : completions'[i][k] = completions[i][k]
      /\ \A j \in Job \ {i} : completions'[j] = completions[j]
  BY <1>1, <1>2, <1>6 DEF TypeOK
<1>10. TypeOK'
  <2>1. pc' \in [Slot -> SlotPc] /\ cur' \in [Slot -> Chunk \cup {NoChunk}]
    BY <1>1, <1>6 DEF TypeOK, SlotPc
  <2>2. rec' \in [Slot -> ChunkRecord]
    <3>1. Blank \in ChunkRecord
      BY DEF Blank, ChunkRecord, Status, Text
    <3> QED
      BY <1>1, <1>6, <3>1 DEF TypeOK
  <2>3. result' \in [Chunk -> Text \cup {"open", "raised"}]
    BY <1>1, <1>6 DEF TypeOK
  <2>4. completions' \in [Job -> Seq(Nat)]
    BY <1>1, <1>2, <1>6, <1>9 DEF TypeOK
  <2>5. waiting' \subseteq {c \in Chunk : result'[c] = "open"}
    BY <1>1, <1>2, <1>4, <1>8 DEF TypeOK
  <2>6. taken' \in [Job -> Nat] /\ \A j \in Job : taken'[j] <= Len(completions'[j])
    <3> SUFFICES ASSUME NEW j \in Job
                 PROVE  taken[j] <= Len(completions'[j])
      BY <1>1, <1>4 DEF TypeOK
    <3>1. taken[j] \in Nat /\ Len(completions[j]) \in Nat /\ taken[j] <= Len(completions[j])
      BY <1>1 DEF TypeOK
    <3>2. Len(completions'[j]) \in {Len(completions[j]), Len(completions[j]) + 1}
      BY <1>9
    <3> QED
      BY <3>1, <3>2
  <2> QED
    BY <1>1, <1>3, <1>4, <1>5, <2>1, <2>2, <2>3, <2>4, <2>5, <2>6 DEF TypeOK
<1>11. SlotInv'
  BY <1>1, <1>8 DEF SlotInv
<1>12. OwnershipInv'
  <2>1. \A c \in waiting' :
          /\ \A t \in Slot : cur'[t] # c
          /\ \E k \in 1 .. Len(submitted') : submitted'[k] = JobOf(c)
    <3>1. \A c \in waiting : c # NoChunk
      BY <1>1, ChunkParts DEF TypeOK
    <3> QED
      BY <1>1, <1>4, <1>8, <3>1 DEF OwnershipInv
  <2>2. \A t \in Slot : cur'[t] # NoChunk =>
          /\ result'[cur'[t]] = "open"
          /\ \A u \in Slot : cur'[u] = cur'[t] => u = t
    <3> SUFFICES ASSUME NEW t \in Slot, cur'[t] # NoChunk
                 PROVE  /\ result'[cur'[t]] = "open"
                        /\ \A u \in Slot : cur'[u] = cur'[t] => u = t
      OBVIOUS
    <3>1. t # s /\ cur'[t] = cur[t] /\ cur[t] \in Chunk /\ cur[t] # NoChunk
      BY <1>1, <1>8 DEF TypeOK
    <3>2. cur[t] # ch
      BY <1>1, <1>2, <3>1 DEF OwnershipInv, ch
    <3>3. \A u \in Slot : cur'[u] = cur'[t] => u # s
      BY <1>8, <3>1
    <3> QED
      BY <1>1, <1>8, <3>1, <3>2, <3>3 DEF OwnershipInv
  <2>3. \A c \in Chunk : at'[JobOf(c)] \in Unsubmitted =>
          c \notin waiting' /\ result'[c] = "open" /\ \A t \in Slot : cur'[t] # c
    <3> SUFFICES ASSUME NEW c \in Chunk, at[JobOf(c)] \in Unsubmitted
                 PROVE  c \notin waiting /\ result'[c] = "open" /\ \A t \in Slot : cur'[t] # c
      BY <1>4
    <3>1. c # NoChunk /\ c \notin waiting /\ result[c] = "open" /\ \A t \in Slot : cur[t] # c
      BY <1>1, ChunkParts DEF OwnershipInv
    <3>2. c # ch
      BY <3>1 DEF ch
    <3> QED
      BY <1>8, <3>1, <3>2
  <2> QED
    BY <2>1, <2>2, <2>3 DEF OwnershipInv
<1>13. FutureInv'
  <2>1. \A j \in Job : \A k \in 1 .. Len(completions[j]) :
          /\ completions[j][k] \in 0 .. ChunkCount[j] - 1
          /\ <<j, completions[j][k]>> \in Chunk
          /\ <<j, completions[j][k]>> # ch
          /\ result'[<<j, completions[j][k]>>] = result[<<j, completions[j][k]>>]
    <3> SUFFICES ASSUME NEW j \in Job, NEW k \in 1 .. Len(completions[j])
                 PROVE  /\ completions[j][k] \in 0 .. ChunkCount[j] - 1
                        /\ <<j, completions[j][k]>> \in Chunk
                        /\ <<j, completions[j][k]>> # ch
                        /\ result'[<<j, completions[j][k]>>] = result[<<j, completions[j][k]>>]
      OBVIOUS
    <3>1. completions[j][k] \in 0 .. ChunkCount[j] - 1 /\ result[<<j, completions[j][k]>>] # "open"
      BY <1>1 DEF FutureInv
    <3>2. <<j, completions[j][k]>> \in Chunk
      BY <3>1, ChunksOfJob
    <3>3. <<j, completions[j][k]>> # ch
      BY <1>2, <3>1
    <3> QED
      BY <1>8, <3>1, <3>2, <3>3
  <2>2. \A j \in Job : \A k \in 1 .. Len(completions'[j]) :
          \/ k \in 1 .. Len(completions[j]) /\ completions'[j][k] = completions[j][k]
          \/ j = i /\ k = Len(completions[i]) + 1 /\ completions'[j][k] = x
    <3> SUFFICES ASSUME NEW j \in Job, NEW k \in 1 .. Len(completions'[j])
                 PROVE  \/ k \in 1 .. Len(completions[j]) /\ completions'[j][k] = completions[j][k]
                        \/ j = i /\ k = Len(completions[i]) + 1 /\ completions'[j][k] = x
      OBVIOUS
    <3>1. CASE j = i
      BY <1>9, <3>1
    <3>2. CASE j # i
      BY <1>9, <3>2
    <3> QED
      BY <3>1, <3>2
  <2>3. \A j \in Job : \A k \in 1 .. Len(completions'[j]) :
          /\ completions'[j][k] \in 0 .. ChunkCount[j] - 1
          /\ result'[<<j, completions'[j][k]>>] # "open"
    <3> SUFFICES ASSUME NEW j \in Job, NEW k \in 1 .. Len(completions'[j])
                 PROVE  /\ completions'[j][k] \in 0 .. ChunkCount[j] - 1
                        /\ result'[<<j, completions'[j][k]>>] # "open"
      OBVIOUS
    <3>1. CASE k \in 1 .. Len(completions[j]) /\ completions'[j][k] = completions[j][k]
      <4>1. result[<<j, completions[j][k]>>] # "open"
        BY <1>1, <3>1 DEF FutureInv
      <4> QED
        BY <2>1, <3>1, <4>1
    <3>2. CASE j = i /\ completions'[j][k] = x
      BY <1>2, <1>7, <1>8, <3>2
    <3> QED
      BY <2>2, <3>1, <3>2
  <2>4. \A k \in 1 .. Len(completions[i]) : completions[i][k] # x
    BY <1>2, <2>1
  <2>5. \A j \in Job : \A k, l \in 1 .. Len(completions'[j]) :
          completions'[j][k] = completions'[j][l] => k = l
    BY <1>1, <2>2, <2>4 DEF FutureInv
  <2>6. \A j \in Job : \A k \in 1 .. taken'[j] : result'[<<j, completions'[j][k]>>] # "raised"
    <3> SUFFICES ASSUME NEW j \in Job, NEW k \in 1 .. taken[j]
                 PROVE  result'[<<j, completions'[j][k]>>] # "raised"
      BY <1>4
    <3>1. k \in 1 .. Len(completions[j])
      BY <1>1 DEF TypeOK
    <3>2. completions'[j][k] = completions[j][k]
      BY <1>9, <3>1
    <3> QED
      BY <1>1, <2>1, <3>1, <3>2 DEF FutureInv
  <2>7. faults' = 0 => \A c \in Chunk : result'[c] # "raised"
    BY <1>1, <1>2, <1>5, <1>7, <1>8 DEF FutureInv
  <2> QED
    BY <2>3, <2>5, <2>6, <2>7 DEF FutureInv
<1>14. RecordInv'
  <2>1. value \in Text => chunks'[ch] = rec[s] /\ rec[s].status \in {"done", "failed"}
    BY <1>1, <1>2, <1>7 DEF TypeOK, SlotInv
  <2>2. (value \in Text /\ faults' = 0) => rec[s].text = value
    <3>1. CASE rec[s].status = "done"
      BY <1>7, <3>1 DEF Returned
    <3>2. CASE rec[s].status = "failed"
      <4> SUFFICES ASSUME value \in Text, faults' = 0
                   PROVE  rec[s].text = value
        OBVIOUS
      <4>1. pc[s] = "saveFailed"
        BY <1>1, <1>7, <3>2 DEF SlotInv
      <4>2. rec[s].text = "none"
        BY <1>1, <1>5, <4>1 DEF RecordInv
      <4> QED
        BY <1>7, <3>2, <4>2 DEF Returned
    <3> QED
      BY <2>1, <3>1, <3>2
  <2>3. \A c \in Chunk : result'[c] \in Text =>
          /\ chunks'[c].status \in {"done", "failed"}
          /\ faults' = 0 => chunks'[c].text = result'[c]
    <3> SUFFICES ASSUME NEW c \in Chunk, result'[c] \in Text
                 PROVE  /\ chunks'[c].status \in {"done", "failed"}
                        /\ faults' = 0 => chunks'[c].text = result'[c]
      OBVIOUS
    <3>1. CASE c = ch
      BY <1>8, <2>1, <2>2, <3>1
    <3>2. CASE c # ch
      BY <1>1, <1>3, <1>5, <1>8, <3>2 DEF RecordInv
    <3> QED
      BY <3>1, <3>2
  <2>4. faults' = 0 => \A t \in Slot :
          pc'[t] \in {"start", "primary", "fallback", "saveFailed"} => rec'[t].text = "none"
    <3>1. \A t \in Slot : pc'[t] # "idle" => t # s
      BY <1>8
    <3> QED
      BY <1>1, <1>5, <1>8, <3>1 DEF RecordInv
  <2> QED
    BY <2>3, <2>4 DEF RecordInv
<1>15. StatusInv'
  <2> SUFFICES ASSUME NEW j \in Job
               PROVE  StatusOK(j)'
    BY DEF StatusInv
  <2>1. StatusOK(j)
    BY <1>1 DEF StatusInv
  <2>2. Finished(j) =>
          /\ ch \notin ChunksOf(j)
          /\ [k \in 1 .. ChunkCount[j] |-> chunks'[<<j, k - 1>>].text]
               = [k \in 1 .. ChunkCount[j] |-> chunks[<<j, k - 1>>].text]
    BY ChunkSaved DEF Through, ch
  <2>3. Finished(j)' <=> Finished(j)
    BY <1>4 DEF Finished
  <2>4. Finished(j) => \A c \in ChunksOf(j) : result'[c] \in Text
    BY <1>8, <2>1, <2>2, ChunksOfJob DEF StatusOK
  <2>5. \A c \in ChunksOf(j) : c # NoChunk
    BY ChunksOfJob, ChunkParts
  <2>6. \A c \in ChunksOf(j) : (\E t \in Slot : cur'[t] = c) => \E t \in Slot : cur[t] = c
    BY <1>8, <2>5
  <2> QED
    BY <1>4, <2>1, <2>2, <2>3, <2>4, <2>6 DEF StatusOK
<1> QED
  BY <1>10, <1>11, <1>12, <1>13, <1>14, <1>15 DEF IndInv

-----------------------------------------------------------------------------
(***************************************************************************)
(* The invariant, the types, and the uploads                               *)
(***************************************************************************)

\* The invariant holds before anything is submitted.
LEMMA InvAtInit ==
  ASSUME Init
  PROVE  IndInv
<1> USE DEF Init
<1>1. TypeOK
  <2>1. Blank \in ChunkRecord /\ [status |-> "absent", transcript |-> <<>>] \in JobRecord
    BY DEF Blank, ChunkRecord, JobRecord, Status, Text
  <2>2. \A j \in Job : completions[j] = <<>> /\ taken[j] = 0 /\ Len(<<>>) = 0
    OBVIOUS
  <2>3. completions \in [Job -> Seq(Nat)] /\ submitted \in Seq(Job)
    OBVIOUS
  <2> QED
    BY <2>1, <2>2, <2>3, InProcessAssumption DEF TypeOK, JobPc, SlotPc
<1>2. SlotInv
  BY DEF SlotInv
<1>3. OwnershipInv
  BY ChunkParts DEF OwnershipInv
<1>4. FutureInv
  BY DEF FutureInv
<1>5. RecordInv
  BY DEF RecordInv, Text, Backend, Blank
<1>6. StatusInv
  <2>1. \A j \in Job : \A ch \in ChunksOf(j) : ch \in Chunk /\ ch # NoChunk
    BY ChunksOfJob, ChunkParts
  <2> QED
    BY <2>1 DEF StatusInv, StatusOK, Finished
<1> QED
  BY <1>1, <1>2, <1>3, <1>4, <1>5, <1>6 DEF IndInv

\* Every step keeps the invariant: a move of a job, or of a slot.
LEMMA InvKept ==
  ASSUME IndInv, [Next]_vars
  PROVE  IndInv'
<1>1. ASSUME NEW j \in Job, JobStep(j) \/ ClientLeaves(j) \/ StoreRaises(j)
      PROVE  IndInv'
  BY <1>1, InvKeptByJob
<1>2. ASSUME NEW s \in Slot, SlotStep(s) \/ SaveRaises(s)
      PROVE  IndInv'
  <2>1. SlotMove(s)
    BY <1>2, SlotMoves DEF IndInv
  <2>2. CASE Take(s)
    BY <2>2, InvKeptByTake
  <2>3. CASE pc[s] # "idle" /\ Advance(s)
    BY <2>1, <2>3, InvKeptByAdvance DEF SlotMove
  <2>4. CASE pc[s] # "idle" /\ \E value \in Text \cup {"raised"} : Through(s, value)
    BY <2>1, <2>4, InvKeptByThrough DEF SlotMove
  <2> QED
    BY <2>1, <2>2, <2>3, <2>4 DEF SlotMove
<1>3. CASE UNCHANGED vars
  <2>1. UNCHANGED <<jobs, chunks, uploads, at, created, submitted, waiting, pc, cur, rec, result,
                    completions, taken, faults>>
    BY <1>3 DEF vars
  <2>2. TypeOK'
    BY <2>1 DEF IndInv, TypeOK
  <2>3. SlotInv' /\ OwnershipInv' /\ FutureInv' /\ RecordInv'
    BY <2>1 DEF IndInv, SlotInv, OwnershipInv, FutureInv, RecordInv
  <2>4. StatusInv'
    <3> SUFFICES ASSUME NEW j \in Job
                 PROVE  StatusOK(j)'
      BY DEF StatusInv
    <3>1. StatusOK(j)
      BY DEF IndInv, StatusInv
    <3> QED
      BY <2>1, <3>1 DEF StatusOK, Finished
  <2> QED
    BY <2>2, <2>3, <2>4 DEF IndInv
<1> QED
  BY <1>1, <1>2, <1>3 DEF Next

\* The inductive invariant of the in-process drivers: a chunk is queued, worked on by one
\* slot, or resolved, never two of these; the completions of a job are its resolved
\* chunks, each once; a text stands for a stored record.
THEOREM Inductive == Spec => []IndInv
<1> QED
  BY InvAtInit, InvKept, PTL DEF Spec

\* Types: among them that the queue holds chunks with an open future only, and that a
\* generator consumes no more futures than were resolved (_run, stream_sync).
THEOREM TypesHold == Spec => []TypeOK
<1>1. IndInv => TypeOK
  BY DEF IndInv
<1> QED
  BY <1>1, Inductive, PTL

\* A move of another job, or of a slot, leaves a job's upload alone.
LEMMA UploadKept ==
  ASSUME uploads \subseteq Job, at \in [Job -> JobPc], NoUploadLeft, NEW j \in Job,
         JobStep(j) \/ ClientLeaves(j) \/ StoreRaises(j)
  PROVE  NoUploadLeft'
<1> DEFINE kept == {"saved", "created", "chunked", "unrecorded"}
<1>1. \A i \in uploads : at[i] \in kept
  BY DEF NoUploadLeft
<1>2. /\ at' = [at EXCEPT ![j] = at'[j]]
      /\ uploads' \in {uploads, uploads \cup {j}, uploads \ {j}}
  BY JobMoves DEF JobMove
<1>3. \A i \in uploads' : i # j => at'[i] \in kept
  BY <1>1, <1>2
<1>4. j \in uploads' => at'[j] \in kept
  <2> USE DEF Goto
  <2>1. CASE SaveUpload(j) \/ RefuseUpload(j) \/ CreateJob(j) \/ AddChunks(j)
    BY <1>1, <2>1 DEF SaveUpload, RefuseUpload, CreateJob, AddChunks
  <2>2. CASE Reject(j) \/ SavePrepared(j)
    BY <2>2 DEF Reject, SavePrepared, DeleteUpload
  <2>3. CASE Accept(j) \/ Submit(j) \/ ProgressRaises(j) \/ ClientLeaves(j)
    BY <1>1, <2>3 DEF Accept, Submit, ProgressRaises, ClientLeaves
  <2>4. CASE Progress(j) \/ Finalize(j)
    BY <1>1, <2>4 DEF Progress, Finalize, Collected
  <2>5. CASE StoreRaises(j)
    BY <1>1, <2>5 DEF StoreRaises, DeleteUpload
  <2> QED
    BY <2>1, <2>2, <2>3, <2>4, <2>5 DEF JobStep
<1> QED
  BY <1>3, <1>4 DEF NoUploadLeft

\* No request leaves its upload behind, whichever way it ends, except when the store
\* raised in create_job (_save_upload, create_job).
THEOREM UploadsAreDeleted == Spec => []NoUploadLeft
<1>1. Init => NoUploadLeft
  BY DEF Init, NoUploadLeft
<1>2. IndInv /\ NoUploadLeft /\ [Next]_vars => NoUploadLeft'
  <2> SUFFICES ASSUME IndInv, NoUploadLeft, [Next]_vars
               PROVE  NoUploadLeft'
    OBVIOUS
  <2>1. TypeOK /\ SlotInv
    BY DEF IndInv
  <2>2. ASSUME NEW j \in Job, JobStep(j) \/ ClientLeaves(j) \/ StoreRaises(j)
        PROVE  NoUploadLeft'
    BY <2>1, <2>2, UploadKept DEF TypeOK
  <2>3. ASSUME NEW s \in Slot, SlotStep(s) \/ SaveRaises(s)
        PROVE  NoUploadLeft'
    BY <2>1, <2>3, SlotMoves DEF SlotMove, jobVars, NoUploadLeft
  <2>4. CASE UNCHANGED vars
    BY <2>4 DEF vars, NoUploadLeft
  <2> QED
    BY <2>2, <2>3, <2>4 DEF Next
<1> QED
  BY <1>1, <1>2, Inductive, PTL DEF Spec

\* As long as no store call has raised, the stored transcript of a finished job is what
\* its futures said, which is what the reader was shown.
LEMMA TextsStored ==
  ASSUME IndInv, faults = 0
  PROVE  StreamedIsStored
<1> SUFFICES ASSUME NEW j \in Job, Finished(j)
             PROVE  jobs[j].transcript = [k \in 1 .. ChunkCount[j] |-> result[<<j, k - 1>>]]
  BY DEF StreamedIsStored
<1>1. /\ \A ch \in ChunksOf(j) : result[ch] \in Text
      /\ jobs[j].transcript = [k \in 1 .. ChunkCount[j] |-> chunks[<<j, k - 1>>].text]
  BY DEF IndInv, StatusInv, StatusOK
<1>2. \A k \in 1 .. ChunkCount[j] : <<j, k - 1>> \in Chunk /\ <<j, k - 1>> \in ChunksOf(j)
  BY ChunksOfJob
<1>3. \A k \in 1 .. ChunkCount[j] : chunks[<<j, k - 1>>].text = result[<<j, k - 1>>]
  BY <1>1, <1>2 DEF IndInv, RecordInv
<1> QED
  BY <1>1, <1>3

\* With a store that does not raise (the in-memory one), what the reader of a sync job was
\* shown chunk by chunk is the transcript its job has in the end (stream_sync, _finalize).
THEOREM StreamedIsAlwaysStored ==
  ASSUME MaxFaults = 0
  PROVE  Spec => []StreamedIsStored
<1>1. IndInv => StreamedIsStored
  BY TextsStored DEF IndInv, TypeOK
<1> QED
  BY <1>1, Inductive, PTL

\* With one that may raise, it holds until the first call that does.
THEOREM StreamedIsStoredUntilFault == Spec => [](faults = 0 => StreamedIsStored)
<1>1. IndInv => (faults = 0 => StreamedIsStored)
  BY TextsStored
<1> QED
  BY <1>1, Inductive, PTL

-----------------------------------------------------------------------------
(***************************************************************************)
(* The order of the priority queue                                         *)
(***************************************************************************)

\* What is before a queued chunk in the queue: an earlier lane, or an earlier job of its
\* lane, or an index of a job of the same creation time that is not higher.
LEMMA KeyOrder ==
  ASSUME IndInv, NEW first \in waiting, NEW other \in waiting, Less(Key(first), Key(other))
  PROVE  /\ ModeOf[JobOf(other)] = "sync" => ModeOf[JobOf(first)] = "sync"
         /\ ModeOf[JobOf(other)] = ModeOf[JobOf(first)] =>
              created[JobOf(first)] <= created[JobOf(other)]
         /\ JobOf(other) = JobOf(first) => first[2] < other[2]
<1> DEFINE lane(j) == IF ModeOf[j] = "sync" THEN 0 ELSE 1
           i == JobOf(first)
           j == JobOf(other)
<1>1. /\ i \in Job /\ j \in Job
      /\ first[2] \in Nat /\ other[2] \in Nat
      /\ created[i] \in Nat /\ created[j] \in Nat
      /\ ModeOf[i] \in {"sync", "async"} /\ ModeOf[j] \in {"sync", "async"}
  BY ChunkParts, ChunksOfJob, InProcessAssumption DEF IndInv, TypeOK
<1>2. Rank(i) \in Int /\ Rank(j) \in Int
  <2>1. /\ \E k \in 1 .. Len(submitted) : submitted[k] = i
        /\ \E k \in 1 .. Len(submitted) : submitted[k] = j
    BY DEF IndInv, OwnershipInv
  <2>2. Rank(i) \in 1 .. Len(submitted) /\ Rank(j) \in 1 .. Len(submitted)
    BY <2>1 DEF Rank
  <2> QED
    BY <2>2
<1>3. /\ Key(first) = <<lane(i), created[i], first[2], Rank(i)>>
      /\ Key(other) = <<lane(j), created[j], other[2], Rank(j)>>
  BY DEF Key
<1> HIDE DEF i, j
<1>4. PICK n \in 1 .. 4 :
        Key(first)[n] < Key(other)[n] /\ \A m \in 1 .. n - 1 : Key(first)[m] = Key(other)[m]
  BY <1>3 DEF Less
<1>5. \/ lane(i) < lane(j)
      \/ lane(i) = lane(j) /\ created[i] < created[j]
      \/ lane(i) = lane(j) /\ created[i] = created[j] /\ first[2] < other[2]
      \/ lane(i) = lane(j) /\ created[i] = created[j] /\ first[2] = other[2] /\ Rank(i) < Rank(j)
  <2>1. CASE n = 1
    BY <1>3, <1>4, <2>1
  <2>2. CASE n = 2
    <3>1. Key(first)[1] = Key(other)[1]
      BY <1>4, <2>2
    <3> QED
      BY <1>3, <1>4, <2>2, <3>1
  <2>3. CASE n = 3
    <3>1. Key(first)[1] = Key(other)[1] /\ Key(first)[2] = Key(other)[2]
      BY <1>4, <2>3
    <3> QED
      BY <1>3, <1>4, <2>3, <3>1
  <2>4. CASE n = 4
    <3>1. Key(first)[1] = Key(other)[1] /\ Key(first)[2] = Key(other)[2]
            /\ Key(first)[3] = Key(other)[3]
      BY <1>4, <2>4
    <3> QED
      BY <1>3, <1>4, <2>4, <3>1
  <2> QED
    BY <1>4, <2>1, <2>2, <2>3, <2>4
<1>6. ModeOf[j] = "sync" => ModeOf[i] = "sync"
  BY <1>1, <1>5
<1>7. ModeOf[j] = ModeOf[i] => created[i] <= created[j]
  BY <1>1, <1>5
<1>8. j = i => first[2] < other[2]
  BY <1>1, <1>2, <1>5
<1> QED
  BY <1>6, <1>7, <1>8 DEF i, j

\* Within a job, chunks start in index order: while one is queued, so are all the later
\* ones, whatever other jobs are created, submitted or served in the meantime (strict chunk
\* order, _run's priority queue).
THEOREM JobsStartInOrder == Spec => []StartedInOrder
<1>1. Init => StartedInOrder
  BY DEF Init, StartedInOrder
<1>2. IndInv /\ StartedInOrder /\ [Next]_vars => StartedInOrder'
  <2> SUFFICES ASSUME IndInv, StartedInOrder, [Next]_vars
               PROVE  StartedInOrder'
    OBVIOUS
  <2>1. TypeOK /\ SlotInv /\ \A ch \in waiting : ch \in Chunk
    BY DEF IndInv, TypeOK
  <2>2. CASE waiting' = waiting
    BY <2>2 DEF StartedInOrder
  <2>3. ASSUME NEW j \in Job, waiting' = waiting \cup ChunksOf(j)
        PROVE  StartedInOrder'
    <3>1. \A ch \in ChunksOf(j) : \A i \in ch[2] + 1 .. ChunkCount[JobOf(ch)] - 1 :
            <<JobOf(ch), i>> \in ChunksOf(j)
      <4> SUFFICES ASSUME NEW ch \in ChunksOf(j),
                          NEW i \in ch[2] + 1 .. ChunkCount[JobOf(ch)] - 1
                   PROVE  <<JobOf(ch), i>> \in ChunksOf(j)
        OBVIOUS
      <4>1. JobOf(ch) = j /\ ch[2] \in 0 .. ChunkCount[j] - 1 /\ ChunkCount[j] \in Nat
        BY ChunksOfJob, ChunkParts
      <4> QED
        BY <4>1, ChunksOfJob
    <3> QED
      BY <2>3, <3>1 DEF StartedInOrder
  <2>4. ASSUME NEW s \in Slot, Take(s)
        PROVE  StartedInOrder'
    <3>1. PICK first \in Chunk : ComesFirst(first) /\ waiting' = waiting \ {first}
      BY <2>4 DEF Take
    <3>2. first \in waiting /\ \A other \in waiting \ {first} : Less(Key(first), Key(other))
      BY <3>1 DEF ComesFirst
    <3> SUFFICES ASSUME NEW ch \in waiting', NEW i \in ch[2] + 1 .. ChunkCount[JobOf(ch)] - 1
                 PROVE  <<JobOf(ch), i>> \in waiting'
      BY DEF StartedInOrder
    <3>3. ch \in waiting /\ ch \in Chunk /\ Less(Key(first), Key(ch))
      BY <2>1, <3>1, <3>2
    <3>4. JobOf(ch) = JobOf(first) => first[2] < ch[2]
      BY <3>2, <3>3, KeyOrder
    <3>5. <<JobOf(ch), i>> \in waiting
      BY <3>3 DEF StartedInOrder
    <3>6. first[2] \in Int /\ ch[2] \in Int /\ first = <<JobOf(first), first[2]>>
      BY <3>3, ChunkParts
    <3>7. i > ch[2] /\ i \in Int
      BY <3>6
    <3>8. <<JobOf(ch), i>> # first
      <4> SUFFICES ASSUME <<JobOf(ch), i>> = first
                   PROVE  FALSE
        OBVIOUS
      <4>1. JobOf(ch) = JobOf(first) /\ i = first[2]
        BY <3>6
      <4> QED
        BY <3>4, <3>6, <3>7, <4>1
    <3> QED
      BY <3>1, <3>5, <3>8
  <2>5. ASSUME NEW j \in Job, JobStep(j) \/ ClientLeaves(j) \/ StoreRaises(j)
        PROVE  StartedInOrder'
    <3>1. JobMove(j)
      BY <2>1, <2>5, JobMoves DEF TypeOK
    <3>2. waiting' = waiting \/ waiting' = waiting \cup ChunksOf(j)
      BY <3>1 DEF JobMove
    <3> QED
      BY <2>2, <2>3, <3>2
  <2>6. ASSUME NEW s \in Slot, SlotStep(s) \/ SaveRaises(s)
        PROVE  StartedInOrder'
    <3>1. SlotMove(s)
      BY <2>1, <2>6, SlotMoves
    <3>2. Take(s) \/ waiting' = waiting
      BY <3>1 DEF SlotMove, Advance, Through
    <3> QED
      BY <2>2, <2>4, <3>2
  <2>7. CASE UNCHANGED vars
    BY <2>2, <2>7 DEF vars
  <2> QED
    BY <2>5, <2>6, <2>7 DEF Next
<1> QED
  BY <1>1, <1>2, Inductive, PTL DEF Spec

\* Whatever a slot starts is not behind anything that stays queued: no async chunk before a
\* sync one, no chunk of a later job of a lane before one of an earlier job (D5).
THEOREM LanesAreObserved == Spec => LanePolicy
<1> DEFINE A == \A ch \in waiting \ waiting', other \in waiting \cap waiting' :
                  /\ ModeOf[JobOf(other)] = "sync" => ModeOf[JobOf(ch)] = "sync"
                  /\ ModeOf[JobOf(other)] = ModeOf[JobOf(ch)] =>
                       created[JobOf(ch)] <= created[JobOf(other)]
<1>1. IndInv /\ [Next]_vars => [A]_vars
  <2> SUFFICES ASSUME IndInv, Next
               PROVE  A
    OBVIOUS
  <2>1. TypeOK /\ SlotInv
    BY DEF IndInv
  <2>2. ASSUME NEW j \in Job, JobStep(j) \/ ClientLeaves(j) \/ StoreRaises(j)
        PROVE  A
    <3>1. JobMove(j)
      BY <2>1, <2>2, JobMoves DEF TypeOK
    <3>2. waiting \ waiting' = {}
      BY <3>1 DEF JobMove
    <3> QED
      BY <3>2
  <2>3. ASSUME NEW s \in Slot, SlotStep(s) \/ SaveRaises(s)
        PROVE  A
    <3>1. SlotMove(s)
      BY <2>1, <2>3, SlotMoves
    <3>2. CASE waiting' = waiting
      BY <3>2
    <3>3. CASE Take(s)
      <4>1. PICK first \in Chunk : ComesFirst(first) /\ waiting' = waiting \ {first}
        BY <3>3 DEF Take
      <4>2. first \in waiting /\ \A other \in waiting \ {first} : Less(Key(first), Key(other))
        BY <4>1 DEF ComesFirst
      <4> SUFFICES ASSUME NEW ch \in waiting \ waiting', NEW other \in waiting \cap waiting'
                   PROVE  /\ ModeOf[JobOf(other)] = "sync" => ModeOf[JobOf(ch)] = "sync"
                          /\ ModeOf[JobOf(other)] = ModeOf[JobOf(ch)] =>
                               created[JobOf(ch)] <= created[JobOf(other)]
        OBVIOUS
      <4>3. ch = first /\ other \in waiting \ {first}
        BY <4>1
      <4> QED
        BY <4>2, <4>3, KeyOrder
    <3> QED
      BY <3>1, <3>2, <3>3 DEF SlotMove, Advance, Through
  <2> QED
    BY <2>2, <2>3 DEF Next
<1> QED
  BY <1>1, Inductive, PTL DEF Spec, LanePolicy

-----------------------------------------------------------------------------
(***************************************************************************)
(* The job contract                                                        *)
(***************************************************************************)

\* What the contract sees of a state
statusBar == [j \in Job |-> jobs[j].status]
outcomeBar ==
  [ch \in Chunk |-> IF result[ch] \in Text
                      THEN [status |-> chunks[ch].status, text |-> chunks[ch].text]
                      ELSE [status |-> "open", text |-> "none"]]
transcriptBar == [j \in Job |-> jobs[j].transcript]
contractBar == <<statusBar, outcomeBar, transcriptBar>>

\* The contract and the code count the chunks of a job alike.
LEMMA SameChunks ==
  /\ \A j : Contract!ChunksOf(j) = ChunksOf(j)
  /\ Contract!Chunk = Chunk
  BY DEF Contract!ChunksOf, ChunksOf, Contract!Chunk, Chunk

\* A record that is written before its future has a text is not an outcome yet.
LEMMA OutcomesKept ==
  ASSUME result' = result, \A ch \in Chunk : result[ch] \in Text => chunks'[ch] = chunks[ch]
  PROVE  outcomeBar' = outcomeBar
  BY DEF outcomeBar

\* create_job and the save_job of prepare
LEMMA CreateStep ==
  ASSUME IndInv, NEW j \in Job, at[j] = "saved", SaveJobAs(j, "pending", <<>>),
         UNCHANGED <<chunks, result>>
  PROVE  Contract!Create(j)
<1>1. jobs[j].status = "absent" /\ jobs[j].transcript = <<>> /\ jobs \in [Job -> JobRecord]
  BY DEF IndInv, StatusInv, StatusOK, Finished, TypeOK
<1>2. /\ statusBar[j] = "absent"
      /\ statusBar' = [statusBar EXCEPT ![j] = "pending"]
      /\ transcriptBar' = transcriptBar
  BY <1>1 DEF SaveJobAs, statusBar, transcriptBar
<1>3. outcomeBar' = outcomeBar
  BY OutcomesKept
<1> QED
  BY <1>2, <1>3 DEF Contract!Create, statusBar, outcomeBar, transcriptBar

\* run_sync's and submit_async's save of the job as processing
LEMMA StartStep ==
  ASSUME IndInv, NEW j \in Job, at[j] = "chunked", SaveJobAs(j, "processing", <<>>),
         UNCHANGED <<chunks, result>>
  PROVE  Contract!Start(j)
<1>1. jobs[j].status = "pending" /\ jobs[j].transcript = <<>> /\ jobs \in [Job -> JobRecord]
  BY DEF IndInv, StatusInv, StatusOK, Finished, TypeOK
<1>2. /\ statusBar[j] = "pending"
      /\ statusBar' = [statusBar EXCEPT ![j] = "processing"]
      /\ transcriptBar' = transcriptBar
  BY <1>1 DEF SaveJobAs, statusBar, transcriptBar
<1>3. outcomeBar' = outcomeBar
  BY OutcomesKept
<1> QED
  BY <1>2, <1>3 DEF Contract!Start, statusBar, outcomeBar, transcriptBar

\* The save_job of _finalize, when it reaches the store
LEMMA FinishStep ==
  ASSUME IndInv, NEW j \in Job, Collected(j), FinalizeWrite(j), UNCHANGED <<chunks, result>>
  PROVE  Contract!Finish(j)
<1>1. jobs[j].status = "processing"
  BY DEF IndInv, StatusInv, StatusOK, Collected
<1>2. \A ch \in ChunksOf(j) : result[ch] \in Text
  BY CollectedTexts
<1>3. /\ jobs \in [Job -> JobRecord]
      /\ jobs' = [jobs EXCEPT ![j] = jobs'[j]]
      /\ jobs'[j].status \in {"done", "failed"}
      /\ jobs'[j].status = "failed" <=> \E ch \in ChunksOf(j) : chunks[ch].status = "failed"
      /\ jobs'[j].transcript = [k \in 1 .. ChunkCount[j] |-> chunks[<<j, k - 1>>].text]
  BY FinalRecord DEF IndInv, TypeOK
<1>4. \A ch \in ChunksOf(j) :
        /\ outcomeBar[ch].status = chunks[ch].status
        /\ outcomeBar[ch].text = chunks[ch].text
        /\ chunks[ch].status # "open"
  BY <1>2, ChunksOfJob DEF outcomeBar, IndInv, RecordInv
<1>5. \A ch \in ChunksOf(j) : outcomeBar[ch] # Contract!Open
  BY <1>4 DEF Contract!Open
<1>6. statusBar' = [statusBar EXCEPT ![j] =
        IF \E ch \in ChunksOf(j) : outcomeBar[ch].status = "failed"
          THEN "failed" ELSE "done"]
  <2>1. (\E ch \in ChunksOf(j) : outcomeBar[ch].status = "failed")
           <=> jobs'[j].status = "failed"
    BY <1>3, <1>4
  <2>2. jobs'[j].status = IF \E ch \in ChunksOf(j) : outcomeBar[ch].status = "failed"
                            THEN "failed" ELSE "done"
    BY <1>3, <2>1
  <2>3. statusBar' = [statusBar EXCEPT ![j] = jobs'[j].status]
    BY <1>3 DEF statusBar
  <2> QED
    BY <2>2, <2>3
<1>7. transcriptBar' = [transcriptBar EXCEPT ![j] =
        [k \in 1 .. ChunkCount[j] |-> outcomeBar[<<j, k - 1>>].text]]
  <2>1. \A k \in 1 .. ChunkCount[j] : <<j, k - 1>> \in ChunksOf(j)
    BY ChunksOfJob
  <2>2. jobs'[j].transcript = [k \in 1 .. ChunkCount[j] |-> outcomeBar[<<j, k - 1>>].text]
    BY <1>3, <1>4, <2>1
  <2>3. transcriptBar' = [transcriptBar EXCEPT ![j] = jobs'[j].transcript]
    BY <1>3 DEF transcriptBar
  <2> QED
    BY <2>2, <2>3
<1>8. UNCHANGED outcomeBar
  BY OutcomesKept
<1>9. statusBar[j] = "processing"
  BY <1>1 DEF statusBar
<1> QED
  BY <1>5, <1>6, <1>7, <1>8, <1>9, SameChunks
  DEF Contract!Finish, statusBar, outcomeBar, transcriptBar

\* A move of a job is one of these, or shows nothing to the contract.
LEMMA JobSimulation ==
  ASSUME IndInv, NEW j \in Job, JobMove(j)
  PROVE  [Contract!Next]_contractBar
<1>1. result' = result
  BY DEF JobMove, futureVars
<1>2. CASE at[j] = "saved" /\ SaveJobAs(j, "pending", <<>>) /\ UNCHANGED chunks
  BY <1>1, <1>2, CreateStep DEF Contract!Next
<1>3. CASE at[j] = "chunked" /\ SaveJobAs(j, "processing", <<>>) /\ UNCHANGED chunks
  BY <1>1, <1>3, StartStep DEF Contract!Next
<1>4. CASE Collected(j) /\ FinalizeWrite(j) /\ UNCHANGED chunks
  BY <1>1, <1>4, FinishStep DEF Contract!Next
<1>5. CASE (at[j] = "created" /\ AddChunksWrite(j)) \/ UNCHANGED storeVars
  <2>1. jobs' = jobs
    BY <1>5 DEF AddChunksWrite, storeVars
  <2>2. \A ch \in Chunk : result[ch] \in Text => chunks'[ch] = chunks[ch]
    <3> SUFFICES ASSUME NEW ch \in Chunk, chunks'[ch] # chunks[ch]
                 PROVE  result[ch] \notin Text
      OBVIOUS
    <3>1. ch \in ChunksOf(j) /\ at[j] = "created"
      BY RecordsMove
    <3>2. result[ch] = "open"
      BY <3>1, ChunksOfJob DEF IndInv, OwnershipInv, Unsubmitted
    <3> QED
      BY <3>2 DEF Text, Backend
  <2> QED
    BY <1>1, <2>1, <2>2, OutcomesKept DEF contractBar, statusBar, transcriptBar
<1> QED
  BY <1>2, <1>3, <1>4, <1>5 DEF JobMove, StoreWrite

\* A slot settles its chunk when it resolves the future with a text.
LEMMA SettleStep ==
  ASSUME IndInv, NEW s \in Slot, pc[s] # "idle", NEW value \in Text, Through(s, value),
         UNCHANGED jobs
  PROVE  \E ch \in Chunk : Contract!Settle(ch)
<1>1. PICK ch \in Chunk : ch = cur[s]
  BY Working
<1>2. /\ JobOf(ch) \in Job /\ ch \in ChunksOf(JobOf(ch)) /\ result[ch] = "open"
  BY <1>1, Working
<1>3. jobs[JobOf(ch)].status = "processing"
  <2>1. StatusOK(JobOf(ch)) /\ jobs[JobOf(ch)].status \in Status
    BY <1>2 DEF IndInv, StatusInv, TypeOK, JobRecord
  <2>2. jobs[JobOf(ch)].status \notin {"absent", "pending"}
    BY <1>1, <1>2, <2>1 DEF StatusOK
  <2>3. ~ Finished(JobOf(ch))
    BY <1>2, <2>1 DEF StatusOK, Text, Backend
  <2> QED
    BY <2>1, <2>2, <2>3 DEF Finished, Status
<1>4. /\ result' = [result EXCEPT ![ch] = value] /\ chunks' = [chunks EXCEPT ![ch] = rec[s]]
      /\ rec[s] \in ChunkRecord /\ rec[s].status \in {"done", "failed"}
      /\ result \in [Chunk -> Text \cup {"open", "raised"}]
      /\ chunks \in [Chunk -> ChunkRecord]
  BY <1>1 DEF Through, Resolve, SaveChunk, IndInv, TypeOK, SlotInv
<1> DEFINE o == [status |-> rec[s].status, text |-> rec[s].text]
<1>5. o \in Contract!Outcome
  BY <1>4 DEF Contract!Outcome, ChunkRecord
<1>6. outcomeBar' = [outcomeBar EXCEPT ![ch] = o]
  <2>1. \A c \in Chunk \ {ch} : result'[c] = result[c] /\ chunks'[c] = chunks[c]
    BY <1>4
  <2>2. result'[ch] \in Text /\ chunks'[ch] = rec[s]
    BY <1>4
  <2> QED
    BY <2>1, <2>2 DEF outcomeBar
<1>7. outcomeBar[ch] = Contract!Open
  BY <1>2 DEF outcomeBar, Contract!Open, Text, Backend
<1>8. UNCHANGED <<statusBar, transcriptBar>> /\ statusBar[ch[1]] = "processing"
  BY <1>2, <1>3 DEF statusBar, transcriptBar, JobOf
<1> HIDE DEF o
<1>9. Contract!Settle(ch)
  BY <1>5, <1>6, <1>7, <1>8 DEF Contract!Settle, statusBar, outcomeBar, transcriptBar
<1> QED
  BY <1>9

\* Anything else a slot does shows nothing to the contract.
LEMMA SlotSimulation ==
  ASSUME IndInv, NEW s \in Slot, SlotMove(s)
  PROVE  [Contract!Next]_contractBar
<1>1. jobs' = jobs
  BY DEF SlotMove
<1>2. CASE Take(s)
  BY <1>2, OutcomesKept DEF Take, storeVars, futureVars, contractBar, statusBar, transcriptBar
<1>3. ASSUME pc[s] # "idle", chunks' = chunks \/ SaveChunk(s)
      PROVE  \A ch \in Chunk : result[ch] \in Text => chunks'[ch] = chunks[ch]
  <2>1. result[cur[s]] \notin Text
    BY <1>3, Working DEF Text, Backend
  <2> QED
    BY <1>3, <2>1, ChunkSaved
<1>4. CASE pc[s] # "idle" /\ Advance(s)
  <2>1. result' = result /\ (chunks' = chunks \/ SaveChunk(s))
    BY <1>4 DEF Advance, futureVars
  <2>2. outcomeBar' = outcomeBar
    BY <1>3, <1>4, <2>1, OutcomesKept
  <2> QED
    BY <1>1, <2>2 DEF contractBar, statusBar, transcriptBar
<1>5. ASSUME pc[s] # "idle", NEW value \in Text, Through(s, value)
      PROVE  Contract!Next
  BY <1>1, <1>5, SettleStep, SameChunks DEF Contract!Next
<1>6. CASE pc[s] # "idle" /\ Through(s, "raised")
  <2>1. /\ chunks' = chunks \/ SaveChunk(s)
        /\ result' = [result EXCEPT ![cur[s]] = "raised"]
        /\ result \in [Chunk -> Text \cup {"open", "raised"}]
        /\ cur[s] \in Chunk /\ result[cur[s]] = "open"
    BY <1>6, Working DEF Through, Resolve, IndInv, TypeOK
  <2>2. "raised" \notin Text /\ "open" \notin Text
    BY DEF Text, Backend
  <2>3. \A ch \in Chunk : (result'[ch] \in Text <=> result[ch] \in Text)
    BY <2>1, <2>2
  <2>4. \A ch \in Chunk : result[ch] \in Text => chunks'[ch] = chunks[ch]
    BY <1>3, <1>6, <2>1
  <2>5. outcomeBar' = outcomeBar
    BY <2>3, <2>4 DEF outcomeBar
  <2> QED
    BY <1>1, <2>5 DEF contractBar, statusBar, transcriptBar
<1> QED
  BY <1>2, <1>4, <1>5, <1>6 DEF SlotMove

\* Jobs driven in process keep the job contract, as those of Redis and workers do, also
\* when clients leave and store calls raise: a chunk is settled once, while its job is
\* processed; a job is finished once, after all its chunks, from exactly their outcomes.
THEOREM ContractImplemented == Spec => ContractSpec
<1>1. Init => Contract!Init
  <2>1. "open" \notin Text
    BY DEF Text, Backend
  <2> QED
    BY <2>1, SameChunks DEF Init, Contract!Init, Contract!Open
<1>2. IndInv /\ [Next]_vars => [Contract!Next]_(Contract!contractVars)
  <2> SUFFICES ASSUME IndInv, [Next]_vars
               PROVE  [Contract!Next]_contractBar
    BY DEF Contract!contractVars, contractBar, statusBar, outcomeBar, transcriptBar
  <2>1. ASSUME NEW j \in Job, JobStep(j) \/ ClientLeaves(j) \/ StoreRaises(j)
        PROVE  [Contract!Next]_contractBar
    BY <2>1, JobMoves, JobSimulation DEF IndInv, TypeOK
  <2>2. ASSUME NEW s \in Slot, SlotStep(s) \/ SaveRaises(s)
        PROVE  [Contract!Next]_contractBar
    BY <2>2, SlotMoves, SlotSimulation DEF IndInv
  <2>3. CASE UNCHANGED vars
    BY <2>3 DEF vars, contractBar, statusBar, outcomeBar, transcriptBar
  <2> QED
    BY <2>1, <2>2, <2>3 DEF Next
<1> QED
  BY <1>1, <1>2, Inductive, PTL DEF Spec, ContractSpec, Contract!Spec
=============================================================================
