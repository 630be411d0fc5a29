------------------------ MODULE RedisContractProofs ------------------------
(***************************************************************************)
(* Redis and the workers implement the job contract: proofs for any jobs,  *)
(* consumers, processes, settings and number of faults.                    *)
(*                                                                         *)
(* Four commands are visible in the contract: create_job (Create), the     *)
(* save_job of prepare (Start), DECR (Settle) and the save_job of          *)
(* _finalize (Finish).  Everything else is a stutter, since the contract   *)
(* reads a chunk's record only once the chunk is counted.                  *)
(***************************************************************************)
EXTENDS RedisDataProofs

-----------------------------------------------------------------------------
(***************************************************************************)
(* The job's status                                                        *)
(***************************************************************************)

\* The status follows the handler until the chunks are pushed, and whoever finalises a
\* job finds it unfinished.
StatusOK(j) ==
  /\ api[j] = "new" => jobs[j].status = "absent"
  /\ api[j] \in {"created", "chunked"} => jobs[j].status = "pending"
  /\ api[j] \in {"prepared", "audio", "push"} \/ cursor[j] > 0 =>
       jobs[j].status \in {"processing", "done", "failed"}
  /\ ~ Finished(j) => jobs[j].transcript = <<>>

StatusInv ==
  /\ \A j \in Job : StatusOK(j)
  /\ \A c \in Consumer : Finalizing(c) => ~ Finished(JobOf(cur[c]))

\* A job one of whose chunks is in somebody's hands, not yet counted or being finalised,
\* is processing.
LEMMA HeldIsProcessing ==
  ASSUME IndInv, StatusInv, NEW c \in Consumer, cur[c] # NoChunk,
         cur[c] \notin counted \/ Finalizing(c)
  PROVE  /\ JobOf(cur[c]) \in Job /\ cur[c] \in ChunksOf(JobOf(cur[c]))
         /\ jobs[JobOf(cur[c])].status = "processing"
<1> DEFINE j == JobOf(cur[c])
<1>1. cur[c] \in Chunk /\ cur[c] \in Pushed(j)
  BY DEF IndInv, TypeOK, ConsumerTypeOK, OwnershipInv
<1>2. j \in Job /\ cur[c] \in ChunksOf(j) /\ cur[c][2] \in Nat
  BY <1>1, ChunkParts, CountType
<1>3. cursor[j] > 0
  BY <1>1, <1>2 DEF Pushed, IndInv, TypeOK, ApiTypeOK
<1>4. ~ Finished(j)
  <2>1. Finished(j) => cur[c] \in counted
    BY <1>2 DEF IndInv, FinalInv
  <2> QED
    BY <2>1 DEF StatusInv
<1> QED
  BY <1>2, <1>3, <1>4 DEF StatusInv, StatusOK, Finished

\* A step of the handler moves the status with it.
LEMMA StatusKeptByApi ==
  ASSUME IndInv, StatusInv, NEW j \in Job, ApiStep(j) \/ ApiFails(j)
  PROVE  StatusInv'
<1>1. /\ RedisTypeOK /\ ApiTypeOK /\ HandlerInv /\ TypeInv
      /\ \A c \in Consumer : Finalizing(c) => cur[c] # NoChunk
  BY InvariantParts DEF TypeInv, TypeOK, ConsumerInv, Finalizing
<1>2. UNCHANGED <<pc, cur>> /\ \A c \in Consumer : Finalizing(c)' = Finalizing(c)
  BY <1>1, ApiMoves DEF ApiMove, taskVars, Finalizing
<1>3. \A i \in Job : i # j => UNCHANGED <<jobs[i], api[i], cursor[i]>>
  <2>1. ApiMove(j)
    BY <1>1, ApiMoves
  <2> QED
    BY <1>1, <2>1 DEF ApiMove, ApiWrite, CreateWrite, AddChunksWrite, SavePreparedWrite,
       SetRemainingWrite, ParkAudioWrite, PushWrite, RedisTypeOK, ApiTypeOK
<1>4. StatusOK(j)' /\ (~ Finished(j) => ~ Finished(j)')
  <2>1. StatusOK(j) /\ cursor[j] \in Nat
        /\ (api[j] \in {"new", "created", "chunked", "prepared", "rejected"} => cursor[j] = 0)
        /\ api[j] \in ApiPc
    BY <1>1 DEF StatusInv, HandlerInv, ApiTypeOK
  <2> USE <1>1, <2>1 DEF StatusOK, Finished, RedisTypeOK, ApiTypeOK, Handler
  <2>2. CASE ApiFails(j)
    BY <2>2 DEF ApiFails, PendingApiWrite, CreateWrite, AddChunksWrite, SavePreparedWrite,
       SetRemainingWrite, ParkAudioWrite, PushWrite
  <2>3. CASE CreateJob(j) \/ SavePrepared(j)
    BY <2>3 DEF CreateJob, SavePrepared, CreateWrite, SavePreparedWrite
  <2>4. CASE AddChunks(j) \/ Reject(j) \/ SetRemaining(j) \/ FinalizeEmptyRaises(j)
               \/ ParkAudio(j)
    BY <2>4 DEF AddChunks, Reject, SetRemaining, FinalizeEmptyRaises, ParkAudio,
       AddChunksWrite, SetRemainingWrite, ParkAudioWrite
  <2>5. CASE Push(j)
    BY <2>5 DEF Push, PushWrite
  <2> QED
    BY <2>2, <2>3, <2>4, <2>5 DEF ApiStep
<1>5. \A i \in Job : StatusOK(i)' /\ (~ Finished(i) => ~ Finished(i)')
  BY <1>3, <1>4 DEF StatusInv, StatusOK, Finished
<1>6. ASSUME NEW c \in Consumer, Finalizing(c)'
      PROVE  ~ Finished(JobOf(cur[c]))'
  <2>1. ~ Finished(JobOf(cur[c])) /\ JobOf(cur[c]) \in Job
    BY <1>1, <1>2, <1>6, ChunkParts DEF StatusInv, TypeInv, TypeOK, ConsumerTypeOK
  <2> QED
    BY <1>2, <1>5, <2>1
<1> QED
  BY <1>5, <1>6 DEF StatusInv

\* Whatever a consumer does, it writes no job but the one it finalises.
LEMMA JobWrites ==
  ASSUME TypeInv, NEW c \in Consumer, ConsumerStep(c) \/ CommandRaises(c)
  PROVE  /\ UNCHANGED <<api, cursor>>
         /\ \/ /\ jobs' = jobs
               /\ Finalizing(c)' => cur'[c] = cur[c] /\ (Finalizing(c) \/ pc[c] = "count")
            \/ pc[c] = "saveJob" /\ SaveJobWrite(c) /\ Release(c)
<1> USE DEF Goto, Finalizing, apiVars, redisVars, taskVars
<1>1. ConsumerTypeOK
  BY DEF TypeInv, TypeOK
<1> USE DEF ConsumerTypeOK
<1>2. CASE CommandRaises(c)
  BY <1>1, <1>2 DEF CommandRaises, AfterRaise, Release, AfterChunk, PendingWrite,
     HandlePrimaryFailure, MarkFailed, BeginFallback, SaveChunkWrite, DiscardAudioWrite,
     DecrWrite
<1>3. CASE Pop(c) \/ PopTimesOut(c) \/ TurnIdle(c) \/ FetchChunk(c) \/ LoadAudio(c)
        \/ SaveStarted(c)
  BY <1>1, <1>3 DEF Pop, PopTimesOut, TurnIdle, FetchChunk, LoadAudio, SaveStarted,
     SaveChunkWrite, AfterChunk
<1>4. CASE PrimaryReturns(c) \/ PrimaryRaises(c) \/ FallbackReturns(c) \/ FallbackRaises(c)
  BY <1>1, <1>4 DEF PrimaryReturns, PrimaryRaises, FallbackReturns, FallbackRaises,
     HandlePrimaryFailure, MarkFailed, BeginFallback
<1>5. CASE PlanRaises(c) \/ CountChunk(c)
  BY <1>1, <1>5 DEF PlanRaises, CountChunk, Release, AfterChunk, DecrWrite
<1>6. CASE SaveResult(c) \/ DiscardAudio(c) \/ CountLastChunk(c) \/ ReadChunk(c)
  BY <1>1, <1>6 DEF SaveResult, DiscardAudio, CountLastChunk, ReadChunk, SaveChunkWrite,
     DiscardAudioWrite, DecrWrite
<1>7. CASE SaveJob(c)
  BY <1>7 DEF SaveJob
<1> QED
  BY <1>2, <1>3, <1>4, <1>5, <1>6, <1>7 DEF ConsumerStep

\* Finalising begins when the last chunk is counted, and ends with the save.
LEMMA StatusKeptByConsumer ==
  ASSUME IndInv, StatusInv, NEW c \in Consumer, ConsumerStep(c) \/ CommandRaises(c)
  PROVE  StatusInv'
<1>1. TypeInv /\ RedisTypeOK /\ ConsumerTypeOK /\ ConsumerInv
  BY InvariantParts DEF TypeInv, TypeOK
<1>2. UNCHANGED <<api, cursor>>
  BY <1>1, JobWrites
<1>3. \A d \in Consumer : d # c => UNCHANGED <<pc[d], cur[d]>>
  BY <1>1, OthersStay
<1>4. CASE /\ jobs' = jobs
           /\ Finalizing(c)' => cur'[c] = cur[c] /\ (Finalizing(c) \/ pc[c] = "count")
  <2>1. \A j \in Job : StatusOK(j)'
    BY <1>2, <1>4 DEF StatusInv, StatusOK, Finished
  <2>2. pc[c] = "count" => ~ Finished(JobOf(cur[c]))
    <3>1. pc[c] = "count" => cur[c] # NoChunk /\ cur[c] \notin counted
      BY <1>1 DEF ConsumerInv, IndInv, OwnershipInv, Finalizing
    <3> QED
      BY <3>1, HeldIsProcessing DEF Finished
  <2>3. ASSUME NEW d \in Consumer, Finalizing(d)'
        PROVE  ~ Finished(JobOf(cur[d]))'
    <3>1. CASE d = c
      BY <1>4, <2>2, <2>3, <3>1 DEF StatusInv, Finished
    <3>2. CASE d # c
      BY <1>3, <1>4, <2>3, <3>2 DEF StatusInv, Finished, Finalizing
    <3> QED
      BY <3>1, <3>2
  <2> QED
    BY <2>1, <2>3 DEF StatusInv
<1>5. CASE pc[c] = "saveJob" /\ SaveJobWrite(c) /\ Release(c)
  <2>1. Finalizing(c) /\ cur[c] # NoChunk
    BY <1>1, <1>5 DEF Finalizing, ConsumerInv
  <2>2. PICK j \in Job : j = JobOf(cur[c]) /\ jobs[j].status = "processing"
    BY <2>1, HeldIsProcessing
  <2>3. /\ \A i \in Job : i # j => jobs'[i] = jobs[i]
        /\ jobs'[j].status \in {"done", "failed"}
    BY <1>1, <1>5, <2>2 DEF SaveJobWrite, RedisTypeOK
  <2>4. ASSUME NEW i \in Job
        PROVE  StatusOK(i)'
    <3>1. StatusOK(i)
      BY DEF StatusInv
    <3>2. CASE i = j
      BY <1>2, <2>2, <2>3, <3>1, <3>2 DEF StatusOK, Finished
    <3>3. CASE i # j
      BY <1>2, <2>3, <3>1, <3>3 DEF StatusOK, Finished
    <3> QED
      BY <3>2, <3>3
  <2>5. ASSUME NEW d \in Consumer, Finalizing(d)'
        PROVE  ~ Finished(JobOf(cur[d]))'
    <3>1. d # c
      BY <1>1, <1>5, <2>5 DEF Release, AfterChunk, Goto, Finalizing, ConsumerTypeOK
    <3>2. Finalizing(d) /\ cur'[d] = cur[d]
      BY <1>3, <2>5, <3>1 DEF Finalizing
    <3>3. JobOf(cur[d]) # j
      BY <2>1, <2>2, <3>1, <3>2 DEF IndInv, FinalInv
    <3>4. JobOf(cur[d]) \in Job
      BY <1>1, <3>2, ChunkParts DEF ConsumerTypeOK, ConsumerInv, Finalizing
    <3> QED
      BY <2>3, <3>2, <3>3, <3>4 DEF StatusInv, Finished
  <2> QED
    BY <2>4, <2>5 DEF StatusInv
<1> QED
  BY <1>1, <1>4, <1>5, JobWrites

\* Every step keeps the status in line.
LEMMA StatusKept ==
  ASSUME IndInv, StatusInv, [Next]_vars
  PROVE  StatusInv'
<1>1. ASSUME NEW p \in Process, ProcessMove(p)
      PROVE  StatusInv'
  <2>1. UNCHANGED <<jobs, api, cursor>>
    BY <1>1 DEF ProcessMove, apiVars
  <2>2. \A j \in Job : StatusOK(j)'
    BY <2>1 DEF StatusInv, StatusOK, Finished
  <2>3. ASSUME NEW c \in Consumer, Finalizing(c)'
        PROVE  ~ Finished(JobOf(cur[c]))'
    <3>1. UNCHANGED <<pc[c], cur[c]>>
      BY <1>1, <2>3, InvariantParts, ProcessLeaves DEF Finalizing
    <3> QED
      BY <2>1, <2>3, <3>1 DEF StatusInv, Finished, Finalizing
  <2> QED
    BY <2>2, <2>3 DEF StatusInv
<1>2. CASE UNCHANGED vars
  BY <1>2 DEF vars, StatusInv, StatusOK, Finished, Finalizing
<1> QED
  BY <1>1, <1>2, StatusKeptByApi, StatusKeptByConsumer, ProcessMoves, RedisAsyncAssumption
  DEF Next

-----------------------------------------------------------------------------
(***************************************************************************)
(* The refinement mapping                                                  *)
(***************************************************************************)

statusBar == [j \in Job |-> jobs[j].status]
transcriptBar == [j \in Job |-> jobs[j].transcript]
outcomeBar ==
  [ch \in Chunk |->
     IF ch \in counted THEN [status |-> chunks[ch].status, text |-> chunks[ch].text]
     ELSE [status |-> "open", text |-> "none"]]
contractBar == <<statusBar, outcomeBar, transcriptBar>>

\* The contract's chunks are the model's.
LEMMA SameChunks ==
  /\ \A j : Contract!ChunksOf(j) = ChunksOf(j)
  /\ Contract!Chunk = Chunk
  BY DEF Contract!ChunksOf, ChunksOf, Contract!Chunk, Chunk

\* What a step changes of what the contract sees.
ContractMove ==
  \/ UNCHANGED <<jobs, counted>>
  \/ \E j \in Job : api[j] = "new" /\ CreateWrite(j) /\ UNCHANGED counted
  \/ \E j \in Job : api[j] = "chunked" /\ SavePreparedWrite(j) /\ UNCHANGED counted
  \/ \E c \in Consumer : pc[c] = "count" /\ DecrWrite(c)
  \/ \E c \in Consumer : pc[c] = "saveJob" /\ SaveJobWrite(c)

\* The record of a counted chunk is final: neither add_chunks nor the consumer of
\* another chunk writes it.
LEMMA CountedIsFinal ==
  ASSUME IndInv, [Next]_vars, NEW ch \in counted
  PROVE  chunks'[ch] = chunks[ch]
<1>1. TypeInv /\ ch \in Chunk /\ ch \in Pushed(JobOf(ch)) /\ JobOf(ch) \in Job
  BY InvariantParts, ChunkParts DEF TypeInv, TypeOK, RedisTypeOK, IndInv, OwnershipInv
<1>2. ASSUME NEW j \in Job, ApiMove(j)
      PROVE  chunks'[ch] = chunks[ch]
  <2>1. CASE api[j] = "created" /\ AddChunksWrite(j)
    <3>1. cursor[j] = 0
      BY <2>1 DEF IndInv, HandlerInv
    <3>2. ch \notin ChunksOf(j)
      BY <1>1, <3>1, ChunksOfJob, CountType DEF Pushed, ChunksOf
    <3> QED
      BY <1>1, <2>1, <3>2 DEF AddChunksWrite
  <2> QED
    BY <1>2, <2>1 DEF ApiMove, ApiWrite, CreateWrite, SavePreparedWrite, SetRemainingWrite,
       ParkAudioWrite, PushWrite
<1>3. ASSUME NEW c \in Consumer, ConsumerStep(c) \/ CommandRaises(c)
      PROVE  chunks'[ch] = chunks[ch]
  <2>1. UNCHANGED chunks \/ (pc[c] \in Saving /\ SaveChunkWrite(c))
    BY <1>3 DEF Saving, ConsumerStep, CommandRaises, PendingWrite, Pop, PopTimesOut,
       TurnIdle, FetchChunk,
       LoadAudio, PlanRaises, SaveStarted, PrimaryReturns, PrimaryRaises, FallbackReturns,
       FallbackRaises, SaveResult, DiscardAudio, CountChunk, CountLastChunk, ReadChunk, SaveJob,
       DiscardAudioWrite, DecrWrite, SaveJobWrite, redisVars
  <2>2. pc[c] \in Saving => cur[c] # ch
    BY <1>1, ChunkParts DEF Saving, IndInv, OwnershipInv, Finalizing
  <2> QED
    BY <1>1, <2>1, <2>2 DEF SaveChunkWrite, TypeInv, TypeOK, RedisTypeOK
<1>4. ASSUME NEW p \in Process, ProcessMove(p)
      PROVE  chunks'[ch] = chunks[ch]
  BY <1>4 DEF ProcessMove
<1>5. CASE UNCHANGED vars
  BY <1>5 DEF vars
<1> QED
  BY <1>1, <1>2, <1>3, <1>4, <1>5, ApiMoves, ProcessMoves, RedisAsyncAssumption
  DEF Next, TypeInv, TypeOK

\* Every step is one of the five.
LEMMA ContractMoves ==
  ASSUME IndInv, [Next]_vars
  PROVE  ContractMove
<1>1. TypeInv
  BY InvariantParts
<1>2. ASSUME NEW j \in Job, ApiMove(j)
      PROVE  ContractMove
  BY <1>2 DEF ContractMove, ApiMove, ApiWrite, AddChunksWrite, SetRemainingWrite,
     ParkAudioWrite, PushWrite
<1>3. ASSUME NEW c \in Consumer, ConsumerStep(c) \/ CommandRaises(c)
      PROVE  ContractMove
  BY <1>3 DEF ContractMove, ConsumerStep, CommandRaises, PendingWrite, Pop, PopTimesOut,
     TurnIdle,
     FetchChunk, LoadAudio, PlanRaises, SaveStarted, PrimaryReturns, PrimaryRaises,
     FallbackReturns, FallbackRaises, SaveResult, DiscardAudio, CountChunk, CountLastChunk,
     ReadChunk, SaveJob, SaveChunkWrite, DiscardAudioWrite, redisVars
<1>4. ASSUME NEW p \in Process, ProcessMove(p)
      PROVE  ContractMove
  BY <1>4 DEF ContractMove, ProcessMove
<1>5. CASE UNCHANGED vars
  BY <1>5 DEF vars, ContractMove
<1> QED
  BY <1>1, <1>2, <1>3, <1>4, <1>5, ApiMoves, ProcessMoves, RedisAsyncAssumption
  DEF Next, TypeInv, TypeOK

\* The outcomes stay as they are, but for a chunk that is counted by the step.
LEMMA OutcomesMove ==
  ASSUME IndInv, [Next]_vars
  PROVE  /\ counted' = counted => outcomeBar' = outcomeBar
         /\ \A new \in Chunk \ counted : counted' = counted \cup {new} =>
              outcomeBar' = [outcomeBar EXCEPT ![new] =
                               [status |-> chunks'[new].status, text |-> chunks'[new].text]]
<1>1. \A ch \in counted : chunks'[ch] = chunks[ch]
  BY CountedIsFinal
<1>2. counted' = counted => outcomeBar' = outcomeBar
  BY <1>1 DEF outcomeBar
<1>3. ASSUME NEW new \in Chunk \ counted, counted' = counted \cup {new}
      PROVE  outcomeBar' = [outcomeBar EXCEPT ![new] =
                              [status |-> chunks'[new].status, text |-> chunks'[new].text]]
  BY <1>1, <1>3 DEF outcomeBar
<1> QED
  BY <1>2, <1>3

\* Nothing the contract sees: a stutter.
LEMMA StutterStep ==
  ASSUME IndInv, [Next]_vars, UNCHANGED <<jobs, counted>>
  PROVE  UNCHANGED contractBar
  BY OutcomesMove DEF contractBar, statusBar, transcriptBar

\* create_job
LEMMA CreateStep ==
  ASSUME IndInv, StatusInv, [Next]_vars, NEW j \in Job,
         api[j] = "new", CreateWrite(j), UNCHANGED counted
  PROVE  Contract!Create(j)
<1>1. jobs[j].status = "absent" /\ jobs[j].transcript = <<>> /\ jobs \in [Job -> JobRecord]
  BY DEF StatusInv, StatusOK, Finished, IndInv, TypeOK, RedisTypeOK
<1>2. /\ statusBar[j] = "absent"
      /\ statusBar' = [statusBar EXCEPT ![j] = "pending"]
      /\ transcriptBar' = transcriptBar
  BY <1>1 DEF CreateWrite, statusBar, transcriptBar
<1>3. outcomeBar' = outcomeBar
  BY OutcomesMove
<1> QED
  BY <1>2, <1>3 DEF Contract!Create, statusBar, outcomeBar, transcriptBar

\* save_job of prepare
LEMMA StartStep ==
  ASSUME IndInv, StatusInv, [Next]_vars, NEW j \in Job,
         api[j] = "chunked", SavePreparedWrite(j), UNCHANGED counted
  PROVE  Contract!Start(j)
<1>1. jobs[j].status = "pending" /\ jobs[j].transcript = <<>> /\ jobs \in [Job -> JobRecord]
  BY DEF StatusInv, StatusOK, Finished, IndInv, TypeOK, RedisTypeOK
<1>2. /\ statusBar[j] = "pending"
      /\ statusBar' = [statusBar EXCEPT ![j] = "processing"]
      /\ transcriptBar' = transcriptBar
  BY <1>1 DEF SavePreparedWrite, statusBar, transcriptBar
<1>3. outcomeBar' = outcomeBar
  BY OutcomesMove
<1> QED
  BY <1>2, <1>3 DEF Contract!Start, statusBar, outcomeBar, transcriptBar

\* DECR
LEMMA SettleStep ==
  ASSUME IndInv, StatusInv, [Next]_vars, NEW c \in Consumer, pc[c] = "count", DecrWrite(c)
  PROVE  \E ch \in Chunk : Contract!Settle(ch)
<1>0. PICK ch \in Chunk : ch = cur[c]
  BY DEF IndInv, TypeOK, ConsumerTypeOK, ConsumerInv
<1>1. ch # NoChunk /\ ch \notin counted /\ Settled(ch)
  BY <1>0 DEF IndInv, ConsumerInv, OwnershipInv, SettledInv, Finalizing
<1>2. chunks[ch] \in ChunkRecord
  BY DEF IndInv, TypeOK, RedisTypeOK
<1>3. jobs[JobOf(ch)].status = "processing" /\ JobOf(ch) \in Job
  BY <1>0, <1>1, HeldIsProcessing
<1>4. UNCHANGED <<jobs, chunks>> /\ counted' = counted \cup {ch}
  BY <1>0 DEF DecrWrite
<1> DEFINE o == [status |-> chunks[ch].status, text |-> chunks[ch].text]
<1>5. o \in Contract!Outcome
  BY <1>1, <1>2 DEF Contract!Outcome, Settled, ChunkRecord
<1>6. outcomeBar' = [outcomeBar EXCEPT ![ch] = o]
  BY <1>1, <1>4, OutcomesMove
<1>7. outcomeBar[ch] = Contract!Open
  BY <1>1 DEF outcomeBar, Contract!Open
<1>8. UNCHANGED <<statusBar, transcriptBar>> /\ statusBar[ch[1]] = "processing"
  BY <1>3, <1>4 DEF statusBar, transcriptBar, JobOf
<1> HIDE DEF o
<1>9. Contract!Settle(ch)
  BY <1>5, <1>6, <1>7, <1>8 DEF Contract!Settle, statusBar, outcomeBar, transcriptBar
<1> QED
  BY <1>9

\* save_job of _finalize
LEMMA FinishStep ==
  ASSUME IndInv, StatusInv, [Next]_vars, NEW c \in Consumer, pc[c] = "saveJob",
         SaveJobWrite(c)
  PROVE  \E j \in Job : Contract!Finish(j)
<1>1. Finalizing(c) /\ cur[c] # NoChunk
  BY DEF Finalizing, IndInv, ConsumerInv
<1>2. PICK j \in Job : j = JobOf(cur[c]) /\ jobs[j].status = "processing"
  BY <1>1, HeldIsProcessing
<1>3. ChunksOf(j) \subseteq counted
  BY <1>1, <1>2 DEF IndInv, FinalInv
<1>4. /\ UNCHANGED <<chunks, counted>> /\ jobs \in [Job -> JobRecord]
      /\ jobs' = [jobs EXCEPT ![j] = jobs'[j]]
      /\ jobs'[j].status \in {"done", "failed"}
  BY <1>2 DEF SaveJobWrite, IndInv, TypeOK, RedisTypeOK
<1>5. /\ jobs'[j].transcript = [k \in 1 .. ChunkCount[j] |-> chunks[<<j, k - 1>>].text]
      /\ jobs'[j].status = "failed" <=>
           \E ch \in ChunksOf(j) : chunks[ch].status = "failed"
  BY <1>2, <1>4, InvariantKept DEF IndInv, FinalInv, Finished
<1>6. \A ch \in ChunksOf(j) :
        outcomeBar[ch].status = chunks[ch].status /\ outcomeBar[ch].text = chunks[ch].text
  BY <1>2, <1>3, ChunksOfJob DEF outcomeBar
<1>7. \A ch \in ChunksOf(j) : outcomeBar[ch] # Contract!Open
  <2>1. \A ch \in ChunksOf(j) : chunks[ch].status # "open"
    BY <1>3 DEF IndInv, SettledInv, Settled
  <2> QED
    BY <1>6, <2>1 DEF Contract!Open
<1>8. statusBar' = [statusBar EXCEPT ![j] =
        IF \E ch \in ChunksOf(j) : outcomeBar[ch].status = "failed"
          THEN "failed" ELSE "done"]
  <2>1. (\E ch \in ChunksOf(j) : outcomeBar[ch].status = "failed")
           <=> jobs'[j].status = "failed"
    BY <1>5, <1>6
  <2>2. jobs'[j].status = IF \E ch \in ChunksOf(j) : outcomeBar[ch].status = "failed"
                            THEN "failed" ELSE "done"
    BY <1>4, <2>1
  <2>3. statusBar' = [statusBar EXCEPT ![j] = jobs'[j].status]
    BY <1>2, <1>4 DEF statusBar
  <2> QED
    BY <2>2, <2>3
<1>9. transcriptBar' = [transcriptBar EXCEPT ![j] =
        [k \in 1 .. ChunkCount[j] |-> outcomeBar[<<j, k - 1>>].text]]
  <2>1. ChunkCount[j] \in Nat
    BY <1>2, CountType
  <2>2. \A k \in 1 .. ChunkCount[j] : <<j, k - 1>> \in ChunksOf(j)
    BY <1>2, <2>1 DEF ChunksOf
  <2>3. jobs'[j].transcript = [k \in 1 .. ChunkCount[j] |-> outcomeBar[<<j, k - 1>>].text]
    BY <1>5, <1>6, <2>2
  <2>4. transcriptBar' = [transcriptBar EXCEPT ![j] = jobs'[j].transcript]
    BY <1>2, <1>4 DEF transcriptBar
  <2> QED
    BY <2>3, <2>4
<1>10. UNCHANGED outcomeBar
  BY <1>4 DEF outcomeBar
<1>11. statusBar[j] = "processing"
  BY <1>2 DEF statusBar
<1>12. Contract!Finish(j)
  BY <1>7, <1>8, <1>9, <1>10, <1>11, SameChunks
  DEF Contract!Finish, statusBar, outcomeBar, transcriptBar
<1> QED
  BY <1>12

\* A step of the system is a step of the contract, or a stutter.
LEMMA StepSimulation ==
  ASSUME IndInv, StatusInv, [Next]_vars
  PROVE  [Contract!Next]_contractBar
<1>1. ContractMove
  BY ContractMoves
<1>2. CASE UNCHANGED <<jobs, counted>>
  BY <1>2, StutterStep
<1>3. ASSUME NEW j \in Job,
             \/ api[j] = "new" /\ CreateWrite(j) /\ UNCHANGED counted
             \/ api[j] = "chunked" /\ SavePreparedWrite(j) /\ UNCHANGED counted
      PROVE  Contract!Next
  BY <1>3, CreateStep, StartStep DEF Contract!Next
<1>4. ASSUME NEW c \in Consumer, pc[c] = "count" /\ DecrWrite(c)
      PROVE  Contract!Next
  BY <1>4, SettleStep, SameChunks DEF Contract!Next
<1>5. ASSUME NEW c \in Consumer, pc[c] = "saveJob" /\ SaveJobWrite(c)
      PROVE  Contract!Next
  BY <1>5, FinishStep DEF Contract!Next
<1> QED
  BY <1>1, <1>2, <1>3, <1>4, <1>5 DEF ContractMove

\* The initial states are the contract's.
LEMMA InitSimulation ==
  ASSUME Init
  PROVE  Contract!Init /\ StatusInv
<1>1. Contract!Init
  BY SameChunks DEF Init, Contract!Init, Contract!Open
<1>2. StatusInv
  BY DEF Init, StatusInv, StatusOK, Finished, Finalizing
<1> QED
  BY <1>1, <1>2

\* The status of a job is in line with its handler and its finaliser.
THEOREM StatusInductive == Spec => [](IndInv /\ StatusInv)
<1>1. Init => IndInv /\ StatusInv
  BY InvariantAtInit, InitSimulation
<1>2. IndInv /\ StatusInv /\ [Next]_vars => (IndInv /\ StatusInv)'
  BY InvariantKept, StatusKept
<1> QED
  BY <1>1, <1>2, PTL DEF Spec

\* Redis and its workers implement the job contract: whatever raises and whoever dies,
\* a chunk is settled once, while its job is processed, and never rewritten; a job is
\* finished once, after all its chunks, from exactly their outcomes.
THEOREM ContractImplemented == Spec => ContractSpec
<1>1. Init => Contract!Init
  BY InitSimulation
<1>2. IndInv /\ StatusInv /\ [Next]_vars => [Contract!Next]_(Contract!contractVars)
  <2>1. Contract!contractVars = contractBar /\ Contract!contractVars' = contractBar'
    BY DEF Contract!contractVars, contractBar, statusBar, outcomeBar, transcriptBar
  <2> QED
    BY <2>1, StepSimulation
<1> QED
  BY <1>1, <1>2, StatusInductive, PTL DEF Spec, ContractSpec, Contract!Spec

-----------------------------------------------------------------------------
(***************************************************************************)
(* The last worker                                                         *)
(***************************************************************************)

\* The last worker to finish a job's chunks finalises it (worker.py): a job that is
\* finished is over, nobody of any process holds a chunk of it, and none is queued.
THEOREM LastAlwaysFinalises == Spec => []LastWorkerFinalises
<1>1. ASSUME IndInv, StatusInv, NEW j \in Job, Finished(j)
      PROVE  /\ \A k \in 1 .. Len(queue) : JobOf(queue[k]) # j
             /\ \A c \in Consumer : cur[c] # NoChunk => JobOf(cur[c]) # j
  <2>1. /\ ChunksOf(j) \subseteq counted /\ queue \in Seq(Chunk)
        /\ \A c \in Consumer : cur[c] \in Chunk \cup {NoChunk}
    BY <1>1 DEF IndInv, FinalInv, TypeOK, RedisTypeOK, ConsumerTypeOK
  <2>2. ASSUME NEW k \in 1 .. Len(queue)
        PROVE  JobOf(queue[k]) # j
    <3>1. queue[k] \in Chunk /\ queue[k] \notin counted
      BY <1>1, <2>1 DEF IndInv, OwnershipInv
    <3> QED
      BY <2>1, <3>1, ChunkParts
  <2>3. ASSUME NEW c \in Consumer, cur[c] # NoChunk
        PROVE  JobOf(cur[c]) # j
    <3>1. cur[c] \in Chunk /\ (cur[c] \in counted => Finalizing(c))
      BY <1>1, <2>1, <2>3 DEF IndInv, OwnershipInv
    <3>2. Finalizing(c) => ~ Finished(JobOf(cur[c]))
      BY <1>1 DEF StatusInv
    <3> QED
      BY <1>1, <2>1, <3>1, <3>2, ChunkParts
  <2> QED
    BY <2>2, <2>3
<1>2. IndInv /\ StatusInv => LastWorkerFinalises
  BY <1>1 DEF LastWorkerFinalises
<1> QED
  BY <1>2, StatusInductive, PTL

=============================================================================
