-------------------------- MODULE RedisAsyncProofs --------------------------
(***************************************************************************)
(* Proofs about RedisAsync, for any jobs, consumers, processes, settings   *)
(* and number of faults.                                                   *)
(***************************************************************************)
EXTENDS RedisAsync, FiniteSetTheorems, FunctionTheorems, TLAPS

-----------------------------------------------------------------------------
(* The data of the model *)

\* A chunk id is a job and an index below the job's count.
LEMMA ChunkParts ==
  ASSUME NEW ch \in Chunk
  PROVE  /\ JobOf(ch) \in Job
         /\ ch[2] \in 0 .. ChunkCount[JobOf(ch)] - 1
         /\ ch = <<JobOf(ch), ch[2]>>
         /\ ch \in ChunksOf(JobOf(ch))
         /\ ch # NoChunk
<1>1. PICK j \in Job : ch \in ChunksOf(j)
  BY DEF Chunk
<1>2. /\ ch = <<j, ch[2]>>
      /\ ch[2] \in 0 .. ChunkCount[j] - 1
      /\ JobOf(ch) = j
  BY <1>1 DEF ChunksOf, JobOf
<1>3. ch \in Job \X Nat
  BY <1>2, RedisAsyncAssumption
<1> QED
  BY <1>1, <1>2, <1>3, RedisAsyncAssumption DEF JobOf

\* The chunk ids of a job are those of its indices.
LEMMA ChunkOfIndex ==
  ASSUME NEW j \in Job, NEW k \in 0 .. ChunkCount[j] - 1
  PROVE  <<j, k>> \in Chunk /\ <<j, k>> \in ChunksOf(j) /\ JobOf(<<j, k>>) = j
BY DEF Chunk, ChunksOf, JobOf

\* A chunk is among the chunks of its job only.
LEMMA ChunksOfJob ==
  ASSUME NEW j \in Job, NEW ch \in ChunksOf(j)
  PROVE  ch \in Chunk /\ JobOf(ch) = j
BY DEF Chunk, ChunksOf, JobOf

\* A function over an initial segment of the positive integers is a sequence.
LEMMA FunctionIsSeq ==
  ASSUME NEW n \in Nat, NEW S, NEW f \in [1 .. n -> S]
  PROVE  f \in Seq(S)
OBVIOUS

\* The texts of a sequence of records are a sequence of texts.
LEMMA TextsOfRecords ==
  ASSUME NEW s \in Seq(ChunkRecord)
  PROVE  [k \in 1 .. Len(s) |-> s[k].text] \in Seq(Text)
<1> DEFINE t == [k \in 1 .. Len(s) |-> s[k].text]
<1>1. /\ Len(s) \in Nat
      /\ \A k \in 1 .. Len(s) : s[k] \in ChunkRecord
  OBVIOUS
<1>2. \A r \in ChunkRecord : r.text \in Text
  BY DEF ChunkRecord
<1>3. t \in [1 .. Len(s) -> Text]
  BY <1>1, <1>2
<1> HIDE DEF t
<1>4. t \in Seq(Text)
  BY <1>1, <1>3, FunctionIsSeq
<1> QED
  BY <1>4 DEF t

\* A plan names a backend or none, whatever the settings.
LEMMA PlanBackend ==
  ASSUME NEW token \in BOOLEAN, NEW fallback \in BOOLEAN,
         NEW tier \in Tier, NEW requested \in Backend
  PROVE  Plan(token, fallback, tier, requested).backend \in Text
BY DEF Plan, HostedPlan, LocalPlan, Unavailable, Text, Backend, Tier

\* The plan of a chunk a consumer holds names a backend, or none.
LEMMA MyPlanBackend ==
  ASSUME NEW c \in Consumer, cur[c] \in Chunk
  PROVE  MyPlan(c).backend \in Text
<1>1. JobOf(cur[c]) \in Job
  BY ChunkParts
<1> QED
  BY <1>1, PlanBackend, RedisAsyncAssumption DEF MyPlan, JobPlan, Settings


-----------------------------------------------------------------------------
(* What the API's handler may write, and at which point *)

\* A step of the handler, or a fault in it, sends at most the one command that
\* is due where the handler stands, and moves no consumer.
ApiWrite(j) ==
  \/ api[j] = "new" /\ CreateWrite(j)
  \/ api[j] = "created" /\ AddChunksWrite(j)
  \/ api[j] = "chunked" /\ SavePreparedWrite(j)
  \/ api[j] = "prepared" /\ ChunkCount[j] > 0 /\ SetRemainingWrite(j)
  \/ api[j] = "audio" /\ ParkAudioWrite(j)
  \/ api[j] = "push" /\ PushWrite(j)
  \/ UNCHANGED <<jobs, chunks, audio, queue, remaining, cursor>>

ApiMove(j) ==
  /\ ApiWrite(j)
  /\ api' = [api EXCEPT ![j] = api'[j]]
  /\ api'[j] \in ApiPc
  /\ api'[j] \in {"audio", "push"} =>
       api[j] \in {"audio", "push"} \/ (api[j] = "prepared" /\ SetRemainingWrite(j))
  /\ UNCHANGED <<pc, taskVars, stop, counted>>

\* Every step of the handler, raising or not, is one of the moves of ApiMove.
LEMMA ApiMoves ==
  ASSUME ApiTypeOK, NEW j \in Job, ApiStep(j) \/ ApiFails(j)
  PROVE  ApiMove(j)
<1> USE DEF ApiMove, ApiWrite, ApiPc, ApiTypeOK
<1>1. CASE ApiFails(j)
  BY <1>1 DEF ApiFails, PendingApiWrite
<1>2. CASE CreateJob(j)
  BY <1>2 DEF CreateJob, Handler
<1>3. CASE AddChunks(j)
  BY <1>3 DEF AddChunks, Handler
<1>4. CASE Reject(j)
  BY <1>4 DEF Reject, Handler
<1>5. CASE SavePrepared(j)
  BY <1>5 DEF SavePrepared, Handler
<1>6. CASE SetRemaining(j)
  BY <1>6 DEF SetRemaining, Handler
<1>7. CASE FinalizeEmptyRaises(j)
  BY <1>7 DEF FinalizeEmptyRaises, Handler
<1>8. CASE ParkAudio(j)
  BY <1>8 DEF ParkAudio, Handler
<1>9. CASE Push(j)
  BY <1>9 DEF Push, Handler
<1> QED
  BY <1>1, <1>2, <1>3, <1>4, <1>5, <1>6, <1>7, <1>8, <1>9 DEF ApiStep

\* The counts of windows are numbers.
LEMMA CountType == ChunkCount \in [Job -> Nat]
BY RedisAsyncAssumption

\* A move of the handler keeps the types of the stored and of its own state.
LEMMA ApiTyped ==
  ASSUME RedisTypeOK, ApiTypeOK, HandlerInv, NEW j \in Job, ApiMove(j)
  PROVE  RedisTypeOK' /\ ApiTypeOK'
<1>1. api' \in [Job -> ApiPc] /\ counted' = counted
  BY DEF ApiMove, ApiTypeOK
<1>2. CASE CreateWrite(j)
  <2>1. [status |-> "pending", transcript |-> <<>>] \in JobRecord
    BY DEF JobRecord, Status
  <2> QED
    BY <1>1, <1>2, <2>1 DEF CreateWrite, RedisTypeOK, ApiTypeOK
<1>3. CASE AddChunksWrite(j)
  BY <1>1, <1>3 DEF AddChunksWrite, NewChunk, Blank, ChunkRecord, Status, Text,
                    RedisTypeOK, ApiTypeOK
<1>4. CASE SavePreparedWrite(j)
  <2>1. [status |-> "processing", transcript |-> <<>>] \in JobRecord
    BY DEF JobRecord, Status
  <2> QED
    BY <1>1, <1>4, <2>1 DEF SavePreparedWrite, RedisTypeOK, ApiTypeOK
<1>5. CASE SetRemainingWrite(j)
  <2>1. ChunkCount[j] \in Int
    BY CountType
  <2>2. remaining' \in [Job -> Int]
    BY <1>5, <2>1 DEF SetRemainingWrite, RedisTypeOK
  <2> QED
    BY <1>1, <1>5, <2>2 DEF SetRemainingWrite, RedisTypeOK, ApiTypeOK
<1>6. CASE api[j] = "audio" /\ ParkAudioWrite(j)
  <2>1. NextChunk(j) \in Chunk
    BY <1>6, ChunkOfIndex, CountType DEF HandlerInv, NextChunk, ApiTypeOK
  <2> QED
    BY <1>1, <1>6, <2>1 DEF ParkAudioWrite, RedisTypeOK, ApiTypeOK
<1>7. CASE api[j] = "push" /\ PushWrite(j)
  <2>1. NextChunk(j) \in Chunk
    BY <1>7, ChunkOfIndex, CountType DEF HandlerInv, NextChunk, ApiTypeOK
  <2> QED
    BY <1>1, <1>7, <2>1 DEF PushWrite, RedisTypeOK, ApiTypeOK
<1>8. CASE UNCHANGED <<jobs, chunks, audio, queue, remaining, cursor>>
  BY <1>1, <1>8 DEF RedisTypeOK, ApiTypeOK
<1> QED
  BY <1>2, <1>3, <1>4, <1>5, <1>6, <1>7, <1>8 DEF ApiMove, ApiWrite

-----------------------------------------------------------------------------
(* What a consumer may do, by its effect on the rest *)

\* It works on its chunk: reads it, transcribes it, saves it, changes its own
\* copy, and is not through with it.
Work(c) ==
  /\ pc[c] \in {"popped", "fetched", "start", "primary", "saveDone",
               "fallback", "saveFallback"}
  /\ \/ SaveChunkWrite(c)
     \/ UNCHANGED <<jobs, chunks, audio, remaining, counted>>
  /\ pc' = [pc EXCEPT ![c] = pc'[c]]
  /\ pc'[c] \in {"fetched", "start", "primary", "saveDone", "fallback",
                "saveFallback", "saveFailed"}
  /\ rec' = [rec EXCEPT ![c] = rec'[c]]
  /\ rec'[c] \in ChunkRecord
  /\ pc'[c] \in {"saveDone", "saveFallback", "saveFailed"} =>
       rec'[c].status \in {"done", "failed"}
  /\ heard' \in [Consumer -> BOOLEAN]
  /\ UNCHANGED <<queue, cur, seen, apiVars, stop>>

\* It is through with its chunk, whether the work is complete or was cut short.
Drop(c) ==
  /\ pc[c] \notin {"waiting", "idle", "exited"}
  /\ \/ PendingWrite(c)
     \/ UNCHANGED <<jobs, chunks, audio, remaining, counted>>
  /\ Release(c)
  /\ UNCHANGED <<queue, apiVars, stop>>

ConsumerMove(c) ==
  \/ Pop(c)
  \/ PopTimesOut(c)
  \/ TurnIdle(c)
  \/ Work(c)
  \/ SaveResult(c)
  \/ DiscardAudio(c)
  \/ CountLastChunk(c)
  \/ ReadChunk(c)
  \/ Drop(c)

\* A failed transcription or a failed save leads on to the fallback or to the
\* record of the failure.
LEMMA FailureHandled ==
  ASSUME ConsumerTypeOK, NEW c \in Consumer,
         HandlePrimaryFailure(c) \/ MarkFailed(c)
  PROVE  /\ pc' = [pc EXCEPT ![c] = pc'[c]]
         /\ rec' = [rec EXCEPT ![c] = rec'[c]]
         /\ rec'[c] \in ChunkRecord
         /\ \/ pc'[c] = "fallback"
            \/ pc'[c] = "saveFailed" /\ rec'[c].status = "failed"
<1>1. CASE BeginFallback(c)
  BY <1>1 DEF BeginFallback, Goto, ConsumerTypeOK, ChunkRecord, Text, Backend
<1>2. CASE MarkFailed(c)
  BY <1>2 DEF MarkFailed, Goto, ConsumerTypeOK, ChunkRecord, Status
<1> QED
  BY <1>1, <1>2 DEF HandlePrimaryFailure

\* Every step of a consumer, raising or not, is one of the moves of ConsumerMove.
LEMMA ConsumerMoves ==
  ASSUME RedisTypeOK, ConsumerTypeOK, ConsumerInv, NEW c \in Consumer,
         ConsumerStep(c) \/ CommandRaises(c)
  PROVE  ConsumerMove(c)
<1>1. pc[c] \notin {"waiting", "idle", "exited"} => cur[c] \in Chunk
  BY DEF ConsumerTypeOK, ConsumerInv
<1> USE DEF ConsumerMove
<1>2. CASE CommandRaises(c)
  <2>1. CASE pc[c] = "saveDone" \/ pc[c] = "saveFallback"
    BY <1>2, <2>1, FailureHandled DEF CommandRaises, AfterRaise, PendingWrite, Work, ConsumerTypeOK
  <2>2. CASE ~ (pc[c] = "saveDone" \/ pc[c] = "saveFallback")
    BY <1>2, <2>2 DEF CommandRaises, AfterRaise, Drop
  <2> QED
    BY <2>1, <2>2
<1>3. CASE FetchChunk(c)
  BY <1>1, <1>3 DEF FetchChunk, Goto, Work, redisVars, RedisTypeOK, ConsumerTypeOK
<1>4. CASE LoadAudio(c)
  <2>1. MyPlan(c).backend \in Text
    BY <1>1, <1>4, MyPlanBackend DEF LoadAudio
  <2>2. rec'[c] \in ChunkRecord /\ rec' = [rec EXCEPT ![c] = rec'[c]]
    <3>1. rec[c] \in ChunkRecord /\ "processing" \in Status
      BY DEF ConsumerTypeOK, Status
    <3> QED
      BY <1>4, <2>1, <3>1 DEF LoadAudio, ConsumerTypeOK, ChunkRecord
  <2> QED
    BY <1>4, <2>2 DEF LoadAudio, Goto, Work, redisVars, ConsumerTypeOK
<1>5. CASE PlanRaises(c)
  BY <1>5 DEF PlanRaises, Drop, redisVars
<1>6. CASE SaveStarted(c)
  BY <1>6 DEF SaveStarted, Goto, Work, taskVars, ConsumerTypeOK
<1>7. CASE PrimaryReturns(c)
  <2>1. Heard(c, MyPlan(c).backend) \in Text
    BY <1>1, <1>7, MyPlanBackend DEF PrimaryReturns, Heard, Text
  <2>2. /\ rec'[c] \in ChunkRecord /\ rec' = [rec EXCEPT ![c] = rec'[c]]
        /\ rec'[c].status = "done"
    BY <1>7, <2>1 DEF PrimaryReturns, ConsumerTypeOK, ChunkRecord, Status
  <2> QED
    BY <1>7, <2>2 DEF PrimaryReturns, Goto, Work, redisVars, ConsumerTypeOK
<1>8. CASE PrimaryRaises(c)
  BY <1>8, FailureHandled DEF PrimaryRaises, Work, redisVars, ConsumerTypeOK
<1>9. CASE FallbackReturns(c)
  <2>1. /\ rec'[c] \in ChunkRecord /\ rec' = [rec EXCEPT ![c] = rec'[c]]
        /\ rec'[c].status = "done"
    <3>1. Heard(c, "local") \in Text /\ rec[c] \in ChunkRecord /\ "done" \in Status
      BY DEF Heard, ConsumerTypeOK, Status, Text, Backend
    <3> QED
      BY <1>9, <3>1 DEF FallbackReturns, ConsumerTypeOK, ChunkRecord
  <2> QED
    BY <1>9, <2>1 DEF FallbackReturns, Goto, Work, redisVars, ConsumerTypeOK
<1>10. CASE FallbackRaises(c)
  BY <1>10, FailureHandled DEF FallbackRaises, Work, redisVars, ConsumerTypeOK
<1>11. CASE CountChunk(c)
  BY <1>11 DEF CountChunk, Drop, PendingWrite
<1>12. CASE SaveJob(c)
  BY <1>12 DEF SaveJob, Drop, PendingWrite
<1> QED
  BY <1>2, <1>3, <1>4, <1>5, <1>6, <1>7, <1>8, <1>9, <1>10, <1>11, <1>12
     DEF ConsumerStep

-----------------------------------------------------------------------------
(* Type correctness, of the steps of consumers and processes *)

\* A move of a consumer keeps the types of the stored state.
LEMMA RedisTypedByConsumer ==
  ASSUME RedisTypeOK, ConsumerTypeOK, ConsumerInv, NEW c \in Consumer, ConsumerMove(c)
  PROVE  RedisTypeOK'
<1>1. pc[c] \notin {"waiting", "idle", "exited"} => cur[c] \in Chunk /\ JobOf(cur[c]) \in Job
  BY ChunkParts DEF ConsumerTypeOK, ConsumerInv
<1>2. ASSUME SaveChunkWrite(c), queue' = queue, cur[c] \in Chunk
      PROVE  RedisTypeOK'
  <2>1. rec[c] \in ChunkRecord
    BY DEF ConsumerTypeOK
  <2> QED
    BY <1>2, <2>1 DEF SaveChunkWrite, RedisTypeOK
<1>3. ASSUME UNCHANGED <<jobs, chunks, audio, remaining, counted>>, queue' \in Seq(Chunk)
      PROVE  RedisTypeOK'
  BY <1>3 DEF RedisTypeOK
<1>4. ASSUME DiscardAudioWrite(c), queue' = queue
      PROVE  RedisTypeOK'
  BY <1>4 DEF DiscardAudioWrite, RedisTypeOK
<1>5. ASSUME DecrWrite(c), queue' = queue, cur[c] \in Chunk, JobOf(cur[c]) \in Job
      PROVE  RedisTypeOK'
  BY <1>5 DEF DecrWrite, RedisTypeOK
<1>6. ASSUME SaveJobWrite(c), queue' = queue
      PROVE  RedisTypeOK'
  <2>1. seen[c] \in Seq(ChunkRecord)
    BY DEF ConsumerTypeOK
  <2>2. [k \in 1 .. Len(seen[c]) |-> seen[c][k].text] \in Seq(Text)
    BY <2>1, TextsOfRecords
  <2>3. ASSUME NEW st \in Status
        PROVE  [status |-> st, transcript |-> [k \in 1 .. Len(seen[c]) |-> seen[c][k].text]]
                 \in JobRecord
    BY <2>2 DEF JobRecord
  <2>4. jobs' \in [Job -> JobRecord]
    BY <1>6, <2>3 DEF SaveJobWrite, RedisTypeOK, Status
  <2> QED
    BY <1>6, <2>4 DEF SaveJobWrite, RedisTypeOK
<1>7. queue \in Seq(Chunk)
  BY DEF RedisTypeOK
<1>8. CASE Pop(c)
  BY <1>3, <1>7, <1>8 DEF Pop
<1>9. CASE PopTimesOut(c) \/ TurnIdle(c)
  BY <1>3, <1>7, <1>9 DEF PopTimesOut, TurnIdle, redisVars
<1>10. CASE Work(c)
  BY <1>1, <1>2, <1>3, <1>7, <1>10 DEF Work
<1>11. CASE SaveResult(c)
  BY <1>1, <1>2, <1>11 DEF SaveResult
<1>12. CASE DiscardAudio(c)
  BY <1>4, <1>12 DEF DiscardAudio
<1>13. CASE CountLastChunk(c)
  BY <1>1, <1>5, <1>13 DEF CountLastChunk
<1>14. CASE ReadChunk(c)
  BY <1>3, <1>7, <1>14 DEF ReadChunk, redisVars
<1>15. CASE Drop(c)
  BY <1>1, <1>2, <1>3, <1>4, <1>5, <1>6, <1>7, <1>15 DEF Drop, PendingWrite
<1> QED
  BY <1>8, <1>9, <1>10, <1>11, <1>12, <1>13, <1>14, <1>15 DEF ConsumerMove

\* Working on a chunk keeps the types of the consumers and what they are busy with.
LEMMA WorkTyped ==
  ASSUME ConsumerTypeOK, ConsumerInv, NEW c \in Consumer, Work(c)
  PROVE  ConsumerTypeOK' /\ ConsumerInv'
<1>1. ConsumerTypeOK'
  <2>1. pc' \in [Consumer -> ConsumerPc]
    BY DEF Work, ConsumerTypeOK, ConsumerPc
  <2>2. rec' \in [Consumer -> ChunkRecord]
    BY DEF Work, ConsumerTypeOK
  <2> QED
    BY <2>1, <2>2 DEF Work, ConsumerTypeOK
<1>2. ConsumerInv'
  BY DEF Work, ConsumerTypeOK, ConsumerInv, Finalizing
<1> QED
  BY <1>1, <1>2

\* So does every other move of a consumer.
LEMMA ConsumerTyped ==
  ASSUME RedisTypeOK, ConsumerTypeOK, ConsumerInv, NEW c \in Consumer, ConsumerMove(c)
  PROVE  ConsumerTypeOK' /\ ConsumerInv'
<1> USE DEF ConsumerTypeOK, ConsumerPc, ConsumerInv, Finalizing, Goto
<1>1. pc[c] \notin {"waiting", "idle", "exited"} => cur[c] \in Chunk
  OBVIOUS
<1>2. CASE Pop(c)
  <2>1. Head(queue) \in Chunk /\ Head(queue) # NoChunk
    BY <1>2, ChunkParts DEF Pop, RedisTypeOK
  <2> QED
    BY <1>2, <2>1 DEF Pop
<1>3. CASE PopTimesOut(c) \/ TurnIdle(c)
  <2>1. CASE PopTimesOut(c)
    BY <2>1 DEF PopTimesOut, taskVars
  <2>2. CASE TurnIdle(c)
    <3>1. AfterChunk(c) \in {"waiting", "exited"}
      BY DEF AfterChunk
    <3> QED
      BY <2>2, <3>1 DEF TurnIdle, taskVars
  <2> QED
    BY <1>3, <2>1, <2>2
<1>4. CASE Work(c)
  BY <1>4, WorkTyped
<1>5. CASE SaveResult(c)
  BY <1>5 DEF SaveResult, taskVars
<1>6. CASE DiscardAudio(c)
  BY <1>6 DEF DiscardAudio, taskVars
<1>7. CASE CountLastChunk(c)
  <2>1. 0 < ChunkCount[JobOf(cur[c])]
    BY <1>1, <1>7, ChunkParts, CountType DEF CountLastChunk
  <2> QED
    BY <1>7, <2>1 DEF CountLastChunk, taskVars
<1>8. CASE ReadChunk(c)
  <2> DEFINE j == JobOf(cur[c])
             n == Len(seen[c])
  <2>1. /\ j \in Job /\ ChunkCount[j] \in Nat
        /\ n \in Nat /\ n < ChunkCount[j]
    BY <1>1, <1>8, ChunkParts, CountType DEF ReadChunk
  <2>2. chunks[<<j, n>>] \in ChunkRecord
    BY <2>1, ChunkOfIndex DEF RedisTypeOK
  <2>3. /\ seen' = [seen EXCEPT ![c] = Append(seen[c], chunks[<<j, n>>])]
        /\ Append(seen[c], chunks[<<j, n>>]) \in Seq(ChunkRecord)
        /\ Len(Append(seen[c], chunks[<<j, n>>])) = n + 1
    BY <1>8, <2>2 DEF ReadChunk
  <2> HIDE DEF j, n
  <2>4. ConsumerTypeOK'
    BY <1>8, <2>3 DEF ReadChunk
  <2>5. ConsumerInv'
    BY <1>8, <2>1, <2>3 DEF ReadChunk, j, n
  <2> QED
    BY <2>4, <2>5
<1>9. CASE Drop(c)
  <2>1. Blank \in ChunkRecord
    BY DEF Blank, ChunkRecord, Status, Text
  <2> QED
    BY <1>9, <2>1 DEF Drop, Release, AfterChunk
<1> QED
  BY <1>2, <1>3, <1>4, <1>5, <1>6, <1>7, <1>8, <1>9 DEF ConsumerMove

\* Steps of the handler keep its cursor in step with where it stands.
LEMMA HandlerKept ==
  ASSUME ApiTypeOK, HandlerInv, NEW j \in Job, ApiStep(j) \/ ApiFails(j)
  PROVE  HandlerInv'
<1>1. ChunkCount[j] \in Nat
  BY CountType
<1> USE <1>1 DEF ApiTypeOK, HandlerInv, Handler
<1>2. CASE ApiFails(j)
  BY <1>2 DEF ApiFails, PendingApiWrite, CreateWrite, AddChunksWrite, SavePreparedWrite,
              SetRemainingWrite, ParkAudioWrite, PushWrite
<1>3. CASE CreateJob(j)
  BY <1>3 DEF CreateJob, CreateWrite
<1>4. CASE AddChunks(j)
  BY <1>4 DEF AddChunks, AddChunksWrite
<1>5. CASE Reject(j)
  BY <1>5 DEF Reject
<1>6. CASE SavePrepared(j)
  BY <1>6 DEF SavePrepared, SavePreparedWrite
<1>7. CASE SetRemaining(j)
  BY <1>7 DEF SetRemaining, SetRemainingWrite
<1>8. CASE FinalizeEmptyRaises(j)
  BY <1>8 DEF FinalizeEmptyRaises
<1>9. CASE ParkAudio(j)
  BY <1>9 DEF ParkAudio, ParkAudioWrite
<1>10. CASE Push(j)
  BY <1>10 DEF Push, PushWrite
<1> QED
  BY <1>2, <1>3, <1>4, <1>5, <1>6, <1>7, <1>8, <1>9, <1>10 DEF ApiStep

\* The consumers of a process that vanish leave their chunks; a restarted
\* process starts without any.
LEMMA ProcessTyped ==
  ASSUME ConsumerTypeOK, ConsumerInv, NEW p \in Process, Vanish(p) \/ Restart(p)
  PROVE  ConsumerTypeOK' /\ ConsumerInv'
<1>1. Blank \in ChunkRecord
  BY DEF Blank, ChunkRecord, Status, Text
<1>2. CASE Vanish(p)
  <2>1. ConsumerTypeOK'
    <3> USE <1>2 DEF Vanish, ConsumerTypeOK
    <3>1. (pc \in [Consumer -> ConsumerPc])'
      BY DEF ConsumerPc
    <3>2. (cur \in [Consumer -> Chunk \cup {NoChunk}])'
      OBVIOUS
    <3>3. (rec \in [Consumer -> ChunkRecord])'
      BY <1>1
    <3>4. (heard \in [Consumer -> BOOLEAN])'
      OBVIOUS
    <3>5. (seen \in [Consumer -> Seq(ChunkRecord)])'
      OBVIOUS
    <3> QED
      BY <3>1, <3>2, <3>3, <3>4, <3>5
  <2>2. ConsumerInv'
    BY <1>2 DEF Vanish, ConsumerTypeOK, ConsumerInv, Finalizing
  <2> QED
    BY <2>1, <2>2
<1>3. CASE Restart(p)
  <2>1. ConsumerTypeOK'
    BY <1>3 DEF Restart, taskVars, ConsumerTypeOK, ConsumerPc
  <2>2. ConsumerInv'
    BY <1>3 DEF Restart, Dead, taskVars, ConsumerTypeOK, ConsumerInv, Finalizing
  <2> QED
    BY <2>1, <2>2
<1> QED
  BY <1>2, <1>3

-----------------------------------------------------------------------------
(* Every step, by the part of the system that takes it *)

TypeInv == TypeOK /\ HandlerInv /\ ConsumerInv

\* A process step that leaves Redis alone but, at most, for an id popped by a
\* consumer that then dies.
ProcessMove(p) ==
  /\ \/ Vanish(p)
     \/ Restart(p)
     \/ UNCHANGED <<pc, taskVars>>
  /\ \/ queue' = queue
     \/ queue # <<>> /\ queue' = Tail(queue)
  /\ UNCHANGED <<jobs, chunks, audio, remaining, counted, apiVars>>

\* A crash, a stop, a restart and a raising dequeue are moves of ProcessMove.
LEMMA ProcessMoves ==
  /\ \A p \in Process : Crash(p) \/ Stop(p) \/ Restart(p) => ProcessMove(p)
  /\ \A c \in Consumer : DequeueRaises(c) => ProcessMove(ProcessOf[c])
<1>1. ASSUME NEW p \in Process, Crash(p)
      PROVE  ProcessMove(p)
  BY <1>1 DEF Crash, ProcessMove, redisVars
<1>2. ASSUME NEW p \in Process, Stop(p)
      PROVE  ProcessMove(p)
  BY <1>2 DEF Stop, ProcessMove, redisVars
<1>3. ASSUME NEW p \in Process, Restart(p)
      PROVE  ProcessMove(p)
  BY <1>3 DEF Restart, ProcessMove, redisVars
<1>4. ASSUME NEW c \in Consumer, DequeueRaises(c)
      PROVE  ProcessMove(ProcessOf[c])
  BY <1>4 DEF DequeueRaises, ProcessMove
<1> QED
  BY <1>1, <1>2, <1>3, <1>4

\* The stop events stay Booleans and the faults stay within their bound.
LEMMA StopAndFaultsTyped ==
  ASSUME TypeOK, [Next]_vars
  PROVE  stop' \in [Process -> BOOLEAN] /\ faults' \in 0 .. MaxFaults
<1> USE DEF TypeOK
<1>1. MaxFaults \in Nat
  BY RedisAsyncAssumption
<1>2. ASSUME NEW j \in Job, ApiStep(j)
      PROVE  stop' = stop /\ faults' = faults
  BY <1>2 DEF ApiStep, CreateJob, AddChunks, Reject, SavePrepared, SetRemaining,
              FinalizeEmptyRaises, ParkAudio, Push, Handler
<1>3. ASSUME NEW j \in Job, ApiFails(j)
      PROVE  stop' = stop /\ faults' = faults + 1 /\ faults < MaxFaults
  BY <1>3 DEF ApiFails
<1>4. ASSUME NEW c \in Consumer, ConsumerStep(c)
      PROVE  stop' = stop /\ faults' = faults
  BY <1>4 DEF ConsumerStep, Pop, PopTimesOut, TurnIdle, FetchChunk, LoadAudio,
     PlanRaises, SaveStarted,
              PrimaryReturns, PrimaryRaises, FallbackReturns, FallbackRaises, SaveResult,
              DiscardAudio, CountChunk, CountLastChunk, ReadChunk, SaveJob
<1>5. ASSUME NEW c \in Consumer, CommandRaises(c) \/ DequeueRaises(c)
      PROVE  stop' = stop /\ faults' = faults + 1 /\ faults < MaxFaults
  BY <1>5 DEF CommandRaises, DequeueRaises
<1>6. ASSUME NEW p \in Process, Crash(p)
      PROVE  stop' = stop /\ faults' = faults + 1 /\ faults < MaxFaults
  BY <1>6 DEF Crash
<1>7. ASSUME NEW p \in Process, Stop(p) \/ Restart(p)
      PROVE  stop' \in [Process -> BOOLEAN] /\ faults' = faults
  BY <1>7 DEF Stop, Restart
<1>8. CASE UNCHANGED vars
  BY <1>8 DEF vars
<1> QED
  BY <1>1, <1>2, <1>3, <1>4, <1>5, <1>6, <1>7, <1>8 DEF Next

\* Every step keeps the types, and where handlers and consumers stand.
LEMMA TypesKept ==
  ASSUME TypeInv, [Next]_vars
  PROVE  TypeInv'
<1> USE DEF TypeInv
<1>1. RedisTypeOK /\ ApiTypeOK /\ ConsumerTypeOK
  BY DEF TypeOK
<1>2. stop' \in [Process -> BOOLEAN] /\ faults' \in 0 .. MaxFaults
  BY StopAndFaultsTyped
<1>3. SUFFICES RedisTypeOK' /\ ApiTypeOK' /\ HandlerInv' /\ ConsumerTypeOK' /\ ConsumerInv'
  BY <1>2 DEF TypeOK
<1>4. ASSUME NEW j \in Job, ApiStep(j) \/ ApiFails(j)
      PROVE  RedisTypeOK' /\ ApiTypeOK' /\ HandlerInv' /\ ConsumerTypeOK' /\ ConsumerInv'
  <2>1. ApiMove(j)
    BY <1>1, <1>4, ApiMoves
  <2>2. RedisTypeOK' /\ ApiTypeOK' /\ HandlerInv'
    BY <1>1, <1>4, <2>1, ApiTyped, HandlerKept
  <2>3. ConsumerTypeOK' /\ ConsumerInv'
    BY <1>1, <2>1 DEF ApiMove, taskVars, ConsumerTypeOK, ConsumerInv, Finalizing
  <2> QED
    BY <2>2, <2>3
<1>5. ASSUME NEW c \in Consumer, ConsumerStep(c) \/ CommandRaises(c)
      PROVE  RedisTypeOK' /\ ApiTypeOK' /\ HandlerInv' /\ ConsumerTypeOK' /\ ConsumerInv'
  <2>1. ConsumerMove(c)
    BY <1>1, <1>5, ConsumerMoves
  <2>2. RedisTypeOK' /\ ConsumerTypeOK' /\ ConsumerInv'
    BY <1>1, <2>1, RedisTypedByConsumer, ConsumerTyped
  <2>3. UNCHANGED apiVars
    BY <2>1 DEF ConsumerMove, Pop, PopTimesOut, TurnIdle, Work, SaveResult, DiscardAudio,
       CountLastChunk,
                ReadChunk, Drop
  <2> QED
    BY <1>1, <2>2, <2>3 DEF apiVars, ApiTypeOK, HandlerInv
<1>6. ASSUME NEW p \in Process, ProcessMove(p)
      PROVE  RedisTypeOK' /\ ApiTypeOK' /\ HandlerInv' /\ ConsumerTypeOK' /\ ConsumerInv'
  <2>1. RedisTypeOK'
    BY <1>1, <1>6 DEF ProcessMove, RedisTypeOK
  <2>2. ApiTypeOK' /\ HandlerInv'
    BY <1>1, <1>6 DEF ProcessMove, apiVars, ApiTypeOK, HandlerInv
  <2>3. ConsumerTypeOK' /\ ConsumerInv'
    <3>1. CASE UNCHANGED <<pc, taskVars>>
      BY <1>1, <3>1 DEF taskVars, ConsumerTypeOK, ConsumerInv, Finalizing
    <3> QED
      BY <1>1, <1>6, <3>1, ProcessTyped DEF ProcessMove
  <2> QED
    BY <2>1, <2>2, <2>3
<1>7. CASE UNCHANGED vars
  BY <1>1, <1>7 DEF vars, RedisTypeOK, ApiTypeOK, HandlerInv, ConsumerTypeOK, ConsumerInv,
                    Finalizing
<1> QED
  BY <1>4, <1>5, <1>6, <1>7, ProcessMoves, RedisAsyncAssumption DEF Next

\* The initial values have their types.
LEMMA TypeAtInit ==
  ASSUME Init
  PROVE  TypeInv
<1> USE DEF Init
<1>1. RedisTypeOK
  BY DEF RedisTypeOK, JobRecord, ChunkRecord, Blank, Status, Text
<1>2. ApiTypeOK /\ HandlerInv
  BY CountType DEF ApiTypeOK, ApiPc, HandlerInv
<1>3. ConsumerTypeOK /\ ConsumerInv
  BY DEF ConsumerTypeOK, ConsumerPc, ConsumerInv, Finalizing, ChunkRecord, Blank, Status, Text
<1> QED
  BY <1>1, <1>2, <1>3, RedisAsyncAssumption DEF TypeInv, TypeOK

\* Every variable of the API, of Redis and of the workers keeps its type, the
\* handler enqueues in index order, and a consumer holds a chunk while it is busy.
THEOREM TypeCorrect == Spec => []TypeInv
<1>1. Init => TypeInv
  BY TypeAtInit
<1>2. TypeInv /\ [Next]_vars => TypeInv'
  BY TypesKept
<1> QED
  BY <1>1, <1>2, PTL DEF Spec

\* Every variable keeps its type (the invariant every run checks).
THEOREM TypesHold == Spec => []TypeOK
BY TypeCorrect, PTL DEF TypeInv

-----------------------------------------------------------------------------
(* Ownership: no chunk is handed out or counted twice *)

\* Enqueueing puts a chunk in one cell of the queue that no one has had before.
LEMMA OwnershipKeptByApi ==
  ASSUME TypeInv, OwnershipInv, NEW j \in Job, ApiMove(j)
  PROVE  OwnershipInv'
<1> USE DEF TypeInv, TypeOK
<1>1. UNCHANGED <<pc, cur, counted>>
  BY DEF ApiMove, taskVars
<1>2. CASE api[j] = "push" /\ PushWrite(j)
  <2>1. PICK new \in Chunk : new = NextChunk(j)
    <3>1. NextChunk(j) \in Chunk
      BY <1>2, ChunkOfIndex, CountType DEF HandlerInv, ApiTypeOK, NextChunk
    <3> QED
      BY <3>1
  <2>2. /\ queue' = Append(queue, new)
        /\ cursor' = [cursor EXCEPT ![j] = cursor[j] + 1]
        /\ JobOf(new) = j /\ new[2] = cursor[j] /\ new \in ChunksOf(j) /\ new # NoChunk
    BY <1>2, <2>1, ChunkParts DEF PushWrite, NextChunk, JobOf
  <2>3. \A ch \in Chunk : ch \in Pushed(JobOf(ch)) =>
          ch # new /\ (ch \in Pushed(JobOf(ch)))'
    BY <2>2, ChunkParts, CountType DEF Pushed, ApiTypeOK
  <2>4. (new \in Pushed(JobOf(new)))'
    BY <2>2 DEF Pushed, ApiTypeOK
  <2>5. /\ queue \in Seq(Chunk)
        /\ Len(queue') = Len(queue) + 1
        /\ \A k \in 1 .. Len(queue') :
             queue'[k] = IF k = Len(queue) + 1 THEN new ELSE queue[k]
    BY <2>2 DEF RedisTypeOK
  <2>6. \A k \in 1 .. Len(queue) : queue[k] \in Chunk
    BY <2>5
  <2>7. (\A ch \in counted : ch \in Pushed(JobOf(ch)))'
    BY <1>1, <2>3 DEF OwnershipInv, RedisTypeOK
  <2>8. (\A k \in 1 .. Len(queue) : queue[k] \in Pushed(JobOf(queue[k])) \ counted)'
    <3>1. new \notin counted
      BY <2>3 DEF OwnershipInv, RedisTypeOK
    <3>2. \A k \in 1 .. Len(queue) :
            queue[k] \notin counted /\ (queue[k] \in Pushed(JobOf(queue[k]))) /\ queue[k] \in Chunk
      BY <2>6 DEF OwnershipInv
    <3>3. \A k \in 1 .. Len(queue') : \E ch \in Chunk :
            queue'[k] = ch /\ ch \notin counted /\ (ch \in Pushed(JobOf(ch)))'
      BY <2>3, <2>4, <2>5, <3>1, <3>2
    <3> QED
      BY <1>1, <3>3
  <2>9. (\A k, l \in 1 .. Len(queue) : queue[k] = queue[l] => k = l)'
    BY <2>3, <2>5, <2>6 DEF OwnershipInv
  <2>10. (\A c \in Consumer : cur[c] # NoChunk =>
            /\ cur[c] \in Pushed(JobOf(cur[c]))
            /\ \A k \in 1 .. Len(queue) : queue[k] # cur[c]
            /\ \A d \in Consumer : cur[d] = cur[c] => d = c
            /\ cur[c] \in counted <=> Finalizing(c))'
    <3> SUFFICES ASSUME NEW c \in Consumer, cur[c] # NoChunk
                 PROVE  (/\ cur[c] \in Pushed(JobOf(cur[c]))
                         /\ \A k \in 1 .. Len(queue) : queue[k] # cur[c]
                         /\ \A d \in Consumer : cur[d] = cur[c] => d = c
                         /\ cur[c] \in counted <=> Finalizing(c))'
      BY <1>1
    <3>1. cur[c] \in Chunk /\ cur[c] \in Pushed(JobOf(cur[c]))
      BY DEF OwnershipInv, ConsumerTypeOK
    <3>2. (cur[c] \in Pushed(JobOf(cur[c])))' /\ cur[c] # new
      BY <1>1, <2>3, <3>1
    <3>3. (\A k \in 1 .. Len(queue) : queue[k] # cur[c])'
      BY <1>1, <2>5, <3>2 DEF OwnershipInv
    <3> QED
      BY <1>1, <3>2, <3>3 DEF OwnershipInv, Finalizing
  <2> QED
    BY <2>7, <2>8, <2>9, <2>10 DEF OwnershipInv
<1>3. CASE UNCHANGED <<queue, cursor>>
  BY <1>1, <1>3 DEF OwnershipInv, Pushed, Finalizing
<1> QED
  BY <1>2, <1>3 DEF ApiMove, ApiWrite, CreateWrite, AddChunksWrite, SavePreparedWrite,
                    SetRemainingWrite, ParkAudioWrite

\* Popping, working on and counting a chunk never makes it belong to two.
LEMMA OwnershipKeptByConsumer ==
  ASSUME TypeInv, OwnershipInv, NEW c \in Consumer, ConsumerMove(c)
  PROVE  OwnershipInv'
<1> USE DEF TypeInv, TypeOK
<1>1. UNCHANGED cursor
  BY DEF ConsumerMove, Pop, PopTimesOut, TurnIdle, Work, SaveResult, DiscardAudio,
     CountLastChunk,
         ReadChunk, Drop, apiVars
<1>2. pc[c] \notin {"waiting", "idle", "exited"} => cur[c] \in Chunk /\ cur[c] # NoChunk
  BY DEF ConsumerTypeOK, ConsumerInv
<1>3. CASE Pop(c)
  <2>1. /\ queue \in Seq(Chunk) /\ queue # <<>>
        /\ Head(queue) = queue[1]
        /\ Len(queue') = Len(queue) - 1
        /\ \A k \in 1 .. Len(queue') : queue'[k] = queue[k + 1]
    BY <1>3 DEF Pop, RedisTypeOK
  <2>2. 1 \in 1 .. Len(queue) /\ \A k \in 1 .. Len(queue') : k + 1 \in 1 .. Len(queue)
    BY <2>1
  <2>3. counted' = counted /\ cur' = [cur EXCEPT ![c] = queue[1]]
        /\ pc' = [pc EXCEPT ![c] = "popped"] /\ cur[c] = NoChunk
    BY <1>3, <2>1 DEF Pop, Goto, ConsumerInv
  <2>4. (\A ch \in counted : ch \in Pushed(JobOf(ch)))'
    BY <1>1, <2>3 DEF OwnershipInv, Pushed
  <2>5. (\A k \in 1 .. Len(queue) : queue[k] \in Pushed(JobOf(queue[k])) \ counted)'
    BY <1>1, <2>1, <2>2, <2>3 DEF OwnershipInv, Pushed
  <2>6. (\A k, l \in 1 .. Len(queue) : queue[k] = queue[l] => k = l)'
    <3> SUFFICES ASSUME NEW k \in 1 .. Len(queue'), NEW l \in 1 .. Len(queue'),
                        queue'[k] = queue'[l]
                 PROVE  k = l
      OBVIOUS
    <3>1. queue[k + 1] = queue[l + 1]
      BY <2>1
    <3>2. k + 1 = l + 1
      BY <2>2, <3>1 DEF OwnershipInv
    <3> QED
      BY <3>2
  <2>7. ASSUME NEW d \in Consumer, cur'[d] # NoChunk
        PROVE (/\ cur[d] \in Pushed(JobOf(cur[d]))
               /\ \A k \in 1 .. Len(queue) : queue[k] # cur[d]
               /\ \A e \in Consumer : cur[e] = cur[d] => e = d
               /\ cur[d] \in counted <=> Finalizing(d))'
    <3>1. CASE d = c
      <4>1. queue[1] \in Chunk /\ queue[1] # NoChunk /\ queue[1] \notin counted
        BY <2>1, <2>2, ChunkParts DEF OwnershipInv
      <4>2. cur'[c] = queue[1] /\ pc'[c] = "popped"
        BY <2>3 DEF ConsumerTypeOK
      <4>3. (cur[c] \in Pushed(JobOf(cur[c])))'
        BY <1>1, <2>2, <4>2 DEF OwnershipInv, Pushed
      <4>4. (\A k \in 1 .. Len(queue) : queue[k] # cur[c])'
        BY <2>1, <2>2, <4>2 DEF OwnershipInv
      <4>5. (\A e \in Consumer : cur[e] = cur[c] => e = c)'
        BY <2>2, <2>3, <4>1, <4>2 DEF OwnershipInv, ConsumerTypeOK
      <4> QED
        BY <2>3, <3>1, <4>1, <4>2, <4>3, <4>4, <4>5 DEF Finalizing
    <3>2. CASE d # c
      <4>1. cur'[d] = cur[d] /\ pc'[d] = pc[d] /\ cur[d] # NoChunk
        BY <2>3, <2>7, <3>2 DEF ConsumerTypeOK
      <4>2. \A k \in 1 .. Len(queue) : queue[k] # cur[d]
        BY <4>1 DEF OwnershipInv
      <4>3. \A k \in 1 .. Len(queue') : queue'[k] # cur[d]
        BY <2>1, <2>2, <4>2
      <4>4. \A e \in Consumer : cur'[e] = cur[d] => e = d
        <5>1. queue[1] # cur[d]
          BY <2>2, <4>2
        <5>2. \A e \in Consumer : cur'[e] = queue[1] \/ cur'[e] = cur[e]
          BY <2>3 DEF ConsumerTypeOK
        <5> QED
          BY <4>1, <5>1, <5>2 DEF OwnershipInv
      <4>5. cur[d] \in Pushed(JobOf(cur[d])) /\ (cur[d] \in counted <=> Finalizing(d))
        BY <4>1 DEF OwnershipInv
      <4> QED
        BY <1>1, <2>3, <4>1, <4>3, <4>4, <4>5 DEF Pushed, Finalizing
    <3> QED
      BY <3>1, <3>2
  <2> QED
    BY <2>4, <2>5, <2>6, <2>7 DEF OwnershipInv
<1>4. ASSUME UNCHANGED <<queue, cur, counted>>, pc' = [pc EXCEPT ![c] = pc'[c]],
             Finalizing(c)' <=> Finalizing(c)
      PROVE  OwnershipInv'
  BY <1>1, <1>4 DEF OwnershipInv, Pushed, Finalizing, ConsumerTypeOK
<1>5. CASE PopTimesOut(c) \/ TurnIdle(c) \/ Work(c) \/ SaveResult(c)
        \/ DiscardAudio(c) \/ ReadChunk(c)
  BY <1>4, <1>5 DEF PopTimesOut, TurnIdle, AfterChunk, Work, SaveResult, SaveChunkWrite,
     DiscardAudio, DiscardAudioWrite, ReadChunk, Goto, Finalizing, redisVars, taskVars,
     ConsumerTypeOK
<1>6. CASE CountLastChunk(c)
  <2>1. /\ UNCHANGED <<queue, cur>> /\ counted' = counted \cup {cur[c]}
        /\ pc' = [pc EXCEPT ![c] = "list"] /\ cur[c] \in Chunk /\ cur[c] # NoChunk
    BY <1>2, <1>6 DEF CountLastChunk, DecrWrite, Goto, taskVars
  <2>2. cur[c] \in Pushed(JobOf(cur[c])) /\ \A k \in 1 .. Len(queue) : queue[k] # cur[c]
    BY <2>1 DEF OwnershipInv
  <2>3. \A d \in Consumer : IF d = c THEN Finalizing(d)' ELSE pc'[d] = pc[d]
    BY <2>1 DEF Finalizing, ConsumerTypeOK
  <2> QED
    BY <1>1, <2>1, <2>2, <2>3 DEF OwnershipInv, Pushed, Finalizing
<1>7. CASE Drop(c)
  <2>1. /\ queue' = queue
        /\ cur' = [cur EXCEPT ![c] = NoChunk]
        /\ pc' = [pc EXCEPT ![c] = pc'[c]]
        /\ cur[c] # NoChunk /\ cur[c] \in Chunk
    BY <1>2, <1>7 DEF Drop, Release, Goto, ConsumerTypeOK
  <2>2. counted' = counted \/ counted' = counted \cup {cur[c]}
    BY <1>7 DEF Drop, PendingWrite, SaveChunkWrite, DiscardAudioWrite, DecrWrite, SaveJobWrite
  <2> QED
    BY <1>1, <2>1, <2>2 DEF OwnershipInv, Pushed, Finalizing, ConsumerTypeOK
<1> QED
  BY <1>3, <1>5, <1>6, <1>7 DEF ConsumerMove

\* Nor does the death of a process, which can only lose chunks.
LEMMA OwnershipKeptByProcess ==
  ASSUME TypeInv, OwnershipInv, NEW p \in Process, ProcessMove(p)
  PROVE  OwnershipInv'
<1> USE DEF TypeInv, TypeOK
<1>1. UNCHANGED <<cursor, counted>>
  BY DEF ProcessMove, apiVars
<1>2. \A c \in Consumer : cur'[c] # NoChunk =>
        cur'[c] = cur[c] /\ (Finalizing(c)' <=> Finalizing(c))
  <2>1. CASE Vanish(p)
    BY <2>1 DEF Vanish, Finalizing
  <2>2. CASE Restart(p)
    BY <2>2 DEF Restart, Dead, taskVars, Finalizing, ConsumerInv
  <2>3. CASE UNCHANGED <<pc, taskVars>>
    BY <2>3 DEF taskVars, Finalizing
  <2> QED
    BY <2>1, <2>2, <2>3 DEF ProcessMove
<1>3. /\ queue \in Seq(Chunk)
      /\ \E n \in {0, 1} :
           /\ Len(queue') = Len(queue) - n
           /\ \A k \in 1 .. Len(queue') : k + n \in 1 .. Len(queue) /\ queue'[k] = queue[k + n]
  <2>1. queue \in Seq(Chunk) /\ Len(queue) \in Nat
    BY DEF RedisTypeOK
  <2>2. CASE queue' = queue
    BY <2>1, <2>2
  <2>3. CASE queue # <<>> /\ queue' = Tail(queue)
    BY <2>1, <2>3
  <2> QED
    BY <2>1, <2>2, <2>3 DEF ProcessMove
<1>4. PICK n \in {0, 1} :
           /\ Len(queue') = Len(queue) - n
           /\ \A k \in 1 .. Len(queue') : k + n \in 1 .. Len(queue) /\ queue'[k] = queue[k + n]
  BY <1>3
<1>5. (\A ch \in counted : ch \in Pushed(JobOf(ch)))'
  BY <1>1 DEF OwnershipInv, Pushed
<1>6. (\A k \in 1 .. Len(queue) : queue[k] \in Pushed(JobOf(queue[k])) \ counted)'
  BY <1>1, <1>4 DEF OwnershipInv, Pushed
<1>7. (\A k, l \in 1 .. Len(queue) : queue[k] = queue[l] => k = l)'
  <2> SUFFICES ASSUME NEW k \in 1 .. Len(queue'), NEW l \in 1 .. Len(queue'), queue'[k] = queue'[l]
               PROVE  k = l
    OBVIOUS
  <2>1. queue[k + n] = queue[l + n] /\ k + n \in 1 .. Len(queue) /\ l + n \in 1 .. Len(queue)
    BY <1>4
  <2>2. k + n = l + n
    BY <2>1 DEF OwnershipInv
  <2> QED
    BY <2>2
<1>8. (\A c \in Consumer : cur[c] # NoChunk =>
         /\ cur[c] \in Pushed(JobOf(cur[c]))
         /\ \A k \in 1 .. Len(queue) : queue[k] # cur[c]
         /\ \A d \in Consumer : cur[d] = cur[c] => d = c
         /\ cur[c] \in counted <=> Finalizing(c))'
  BY <1>1, <1>2, <1>4 DEF OwnershipInv, Pushed
<1> QED
  BY <1>5, <1>6, <1>7, <1>8 DEF OwnershipInv

-----------------------------------------------------------------------------
(* The counter *)

\* A job has as many chunks as its audio has windows, and finitely many.
LEMMA ChunksOfFinite ==
  ASSUME NEW j \in Job
  PROVE  IsFiniteSet(ChunksOf(j)) /\ Cardinality(ChunksOf(j)) = ChunkCount[j]
<1> DEFINE n == ChunkCount[j]
           f == [k \in 0 .. n - 1 |-> <<j, k>>]
<1>1. n \in Nat
  BY CountType
<1>2. IsFiniteSet(0 .. n - 1) /\ Cardinality(0 .. n - 1) = n
  <2>1. 0 \in Int /\ n - 1 \in Int /\ (IF 0 > n - 1 THEN 0 ELSE (n - 1) - 0 + 1) = n
    BY <1>1
  <2> HIDE DEF n
  <2> QED
    BY <2>1, FS_Interval
<1>3. f \in Bijection(0 .. n - 1, ChunksOf(j))
  <2>1. f \in [0 .. n - 1 -> ChunksOf(j)]
    BY DEF ChunksOf
  <2>2. \A a, b \in 0 .. n - 1 : f[a] = f[b] => a = b
    OBVIOUS
  <2>3. \A ch \in ChunksOf(j) : \E k \in 0 .. n - 1 : f[k] = ch
    BY DEF ChunksOf
  <2> QED
    BY <2>1, <2>2, <2>3, Fun_IsBij
<1> HIDE DEF f
<1>4. ExistsBijection(0 .. n - 1, ChunksOf(j))
  BY <1>3 DEF ExistsBijection
<1> QED
  BY <1>2, <1>4, FS_Bijection

\* Before its first push no chunk of a job is queued, held or counted.
LEMMA Untouched ==
  ASSUME TypeInv, OwnershipInv, NEW j \in Job, cursor[j] = 0
  PROVE  /\ \A ch \in counted : JobOf(ch) # j
         /\ \A c \in Consumer : cur[c] # NoChunk => JobOf(cur[c]) # j
<1>1. \A ch \in Chunk : ch \in Pushed(JobOf(ch)) => JobOf(ch) # j
  BY ChunkParts DEF Pushed
<1> QED
  BY <1>1 DEF TypeInv, TypeOK, RedisTypeOK, ConsumerTypeOK, OwnershipInv

\* A consumer that has not counted its chunk works on a job not all counted,
\* and past its first push.
LEMMA StillOwed ==
  ASSUME TypeInv, OwnershipInv, NEW c \in Consumer,
         pc[c] \notin {"waiting", "idle", "exited", "list", "saveJob"}
  PROVE  /\ cur[c] \in Chunk /\ cur[c] # NoChunk
         /\ JobOf(cur[c]) \in Job
         /\ cur[c] \in ChunksOf(JobOf(cur[c]))
         /\ cur[c] \notin counted
         /\ cursor[JobOf(cur[c])] > 0
<1>1. cur[c] \in Chunk /\ cur[c] # NoChunk
  BY DEF TypeInv, TypeOK, ConsumerTypeOK, ConsumerInv
<1>2. /\ JobOf(cur[c]) \in Job
      /\ cur[c] \in ChunksOf(JobOf(cur[c]))
      /\ cur[c][2] \in Nat
  BY <1>1, ChunkParts, CountType
<1>3. cur[c] \notin counted /\ cur[c] \in Pushed(JobOf(cur[c]))
  BY <1>1 DEF OwnershipInv, Finalizing
<1>4. cursor[JobOf(cur[c])] \in Nat /\ cur[c][2] < cursor[JobOf(cur[c])]
  BY <1>2, <1>3 DEF Pushed, TypeInv, TypeOK, ApiTypeOK
<1> QED
  BY <1>1, <1>2, <1>3, <1>4

\* Arming the counter sets it to the number of chunks not counted.
LEMMA CounterKeptByApi ==
  ASSUME TypeInv, OwnershipInv, CounterInv, NEW j \in Job, ApiMove(j)
  PROVE  CounterInv'
<1> USE DEF TypeInv, TypeOK
<1>1. counted' = counted /\ \A i \in Job \ {j} : api'[i] = api[i]
  BY DEF ApiMove, ApiTypeOK
<1>2. CASE api[j] = "prepared" /\ SetRemainingWrite(j)
  <2>1. cursor[j] = 0
    BY <1>2 DEF HandlerInv
  <2>2. Uncounted(j) = ChunksOf(j)
    BY <2>1, Untouched, ChunksOfJob DEF Uncounted
  <2>3. remaining'[j] = Cardinality(Uncounted(j))
    BY <1>2, <2>2, ChunksOfFinite DEF SetRemainingWrite, RedisTypeOK
  <2>4. cursor' = cursor /\ \A i \in Job \ {j} : remaining'[i] = remaining[i]
    BY <1>2 DEF SetRemainingWrite, RedisTypeOK
  <2> QED
    BY <1>1, <2>3, <2>4 DEF CounterInv, Uncounted
<1>3. CASE api[j] = "push" /\ PushWrite(j)
  BY <1>1, <1>3 DEF PushWrite, CounterInv, Uncounted, ApiTypeOK
<1>4. ASSUME UNCHANGED <<remaining, cursor>>, ~ (api[j] = "prepared" /\ SetRemainingWrite(j))
      PROVE  CounterInv'
  BY <1>1, <1>4 DEF ApiMove, CounterInv, Uncounted, ApiTypeOK
<1> QED
  BY <1>2, <1>3, <1>4 DEF ApiMove, ApiWrite, CreateWrite, AddChunksWrite, SavePreparedWrite,
                          SetRemainingWrite, ParkAudioWrite

\* DECR counts one chunk not counted before.
LEMMA DecrCounts ==
  ASSUME TypeInv, OwnershipInv, CounterInv, NEW c \in Consumer, NEW j \in Job,
         pc[c] = "count", j = JobOf(cur[c]), counted' = counted \cup {cur[c]}
  PROVE  /\ cur[c] \in Uncounted(j)
         /\ remaining[j] = Cardinality(Uncounted(j))
         /\ IsFiniteSet(Uncounted(j))
         /\ Uncounted(j)' = Uncounted(j) \ {cur[c]}
         /\ Cardinality(Uncounted(j)') = Cardinality(Uncounted(j)) - 1
         /\ \A i \in Job : i # j => Uncounted(i)' = Uncounted(i)
<1>1. /\ cur[c] \in Chunk /\ cur[c] \in ChunksOf(j)
      /\ cur[c] \notin counted /\ cursor[j] > 0
  BY StillOwed
<1>2. cur[c] \in Uncounted(j)
  BY <1>1 DEF Uncounted
<1>3. remaining[j] = Cardinality(Uncounted(j))
  BY <1>1 DEF CounterInv
<1>4. IsFiniteSet(Uncounted(j))
  BY ChunksOfFinite, FS_Subset DEF Uncounted
<1>5. Uncounted(j)' = Uncounted(j) \ {cur[c]}
  BY DEF Uncounted
<1>6. Cardinality(Uncounted(j)') = Cardinality(Uncounted(j)) - 1
  BY <1>2, <1>4, <1>5, FS_RemoveElement
<1>7. \A i \in Job : i # j => Uncounted(i)' = Uncounted(i)
  BY ChunksOfJob DEF Uncounted
<1> QED
  BY <1>2, <1>3, <1>4, <1>5, <1>6, <1>7

\* Each DECR that reaches Redis takes one chunk off that number, and one off it.
LEMMA CounterKeptByConsumer ==
  ASSUME TypeInv, OwnershipInv, CounterInv, NEW c \in Consumer, ConsumerMove(c)
  PROVE  CounterInv'
<1>1. UNCHANGED apiVars
  BY DEF ConsumerMove, Pop, PopTimesOut, TurnIdle, Work, SaveResult, DiscardAudio,
     CountLastChunk,
         ReadChunk, Drop
<1>2. CASE pc[c] = "count" /\ DecrWrite(c)
  <2>1. PICK j \in Job : j = JobOf(cur[c])
    BY <1>2, StillOwed
  <2>2. /\ counted' = counted \cup {cur[c]}
        /\ remaining'[j] = remaining[j] - 1
        /\ \A i \in Job \ {j} : remaining'[i] = remaining[i]
    BY <1>2, <2>1 DEF DecrWrite, TypeInv, TypeOK, RedisTypeOK
  <2>3. /\ remaining[j] = Cardinality(Uncounted(j))
        /\ Cardinality(Uncounted(j)') = Cardinality(Uncounted(j)) - 1
        /\ \A i \in Job : i # j => Uncounted(i)' = Uncounted(i)
    BY <1>2, <2>1, <2>2, DecrCounts
  <2> QED
    BY <1>1, <2>2, <2>3 DEF CounterInv, apiVars
<1>3. CASE UNCHANGED <<remaining, counted>>
  BY <1>1, <1>3 DEF CounterInv, Uncounted, apiVars
<1> QED
  BY <1>2, <1>3 DEF ConsumerMove, Pop, PopTimesOut, TurnIdle, Work, SaveResult,
     DiscardAudio,
     CountLastChunk, ReadChunk, Drop, PendingWrite, SaveChunkWrite, DiscardAudioWrite,
     SaveJobWrite, redisVars

-----------------------------------------------------------------------------
(* What is counted is settled, and stays so *)

\* The handler writes no chunk and parks no audio that was counted.
LEMMA SettledKeptByApi ==
  ASSUME TypeInv, OwnershipInv, SettledInv, NEW j \in Job, ApiMove(j)
  PROVE  SettledInv'
<1> USE DEF TypeInv, TypeOK
<1>1. UNCHANGED <<counted, pc, cur>>
  BY DEF ApiMove, taskVars
<1>2. CASE api[j] = "created" /\ AddChunksWrite(j)
  <2>1. cursor[j] = 0
    BY <1>2 DEF HandlerInv
  <2>2. audio' = audio /\ \A ch \in Chunk : JobOf(ch) # j => chunks'[ch] = chunks[ch]
    BY <1>2, ChunksOfJob DEF AddChunksWrite
  <2>3. \A ch \in counted : (Settled(ch) /\ ch \notin audio)'
    BY <2>1, <2>2, Untouched DEF SettledInv, Settled, RedisTypeOK
  <2>4. ASSUME NEW c \in Consumer
        PROVE (/\ pc[c] \in {"discard", "count"} => Settled(cur[c])
               /\ pc[c] = "count" => cur[c] \notin audio)'
    <3>1. pc[c] \in {"discard", "count"} => cur[c] \in Chunk /\ JobOf(cur[c]) # j
      BY <2>1, StillOwed
    <3> QED
      BY <1>1, <2>2, <3>1 DEF SettledInv, Settled
  <2> QED
    BY <1>1, <2>3, <2>4 DEF SettledInv
<1>3. CASE api[j] = "audio" /\ ParkAudioWrite(j)
  <2>1. PICK new : new = NextChunk(j)
    OBVIOUS
  <2>2. chunks' = chunks /\ audio' = audio \cup {new}
    BY <1>3, <2>1 DEF ParkAudioWrite
  <2>3. new \notin counted /\ \A c \in Consumer : pc[c] = "count" => cur[c] # new
    <3>1. new \notin Pushed(j) /\ JobOf(new) = j
      BY <2>1 DEF Pushed, NextChunk, JobOf, ApiTypeOK
    <3>2. \A c \in Consumer : pc[c] = "count" => cur[c] \in Pushed(JobOf(cur[c]))
      BY StillOwed DEF OwnershipInv
    <3> QED
      BY <3>1, <3>2 DEF OwnershipInv
  <2> QED
    BY <1>1, <2>2, <2>3 DEF SettledInv, Settled
<1>4. CASE UNCHANGED <<chunks, audio>>
  BY <1>1, <1>4 DEF SettledInv, Settled
<1> QED
  BY <1>2, <1>3, <1>4 DEF ApiMove, ApiWrite, CreateWrite, SavePreparedWrite,
                          SetRemainingWrite, PushWrite

\* A consumer saves its own chunk, which is not counted and no one else's.
LEMMA SaveTouchesOwn ==
  ASSUME TypeInv, OwnershipInv, NEW c \in Consumer, SaveChunkWrite(c),
         pc[c] \notin {"waiting", "idle", "exited", "list", "saveJob"}
  PROVE  /\ \A ch \in counted : chunks'[ch] = chunks[ch]
         /\ \A d \in Consumer : d # c => chunks'[cur[d]] = chunks[cur[d]]
         /\ chunks'[cur[c]] = rec[c]
<1>1. cur[c] \in Chunk /\ cur[c] # NoChunk /\ cur[c] \notin counted
  BY StillOwed
<1>2. \A d \in Consumer : d # c => cur[d] # cur[c]
  BY <1>1 DEF OwnershipInv
<1> QED
  BY <1>1, <1>2 DEF SaveChunkWrite, TypeInv, TypeOK, RedisTypeOK

\* A consumer counts its chunk after storing its result and deleting its audio.
LEMMA SettledKeptByConsumer ==
  ASSUME TypeInv, OwnershipInv, SettledInv, NEW c \in Consumer, ConsumerMove(c)
  PROVE  SettledInv'
<1> USE DEF Settled
<1>1. /\ pc \in [Consumer -> ConsumerPc]
      /\ cur \in [Consumer -> Chunk \cup {NoChunk}]
  BY DEF TypeInv, TypeOK, ConsumerTypeOK
<1>2. ASSUME UNCHANGED <<chunks, audio, counted>>,
             pc' = [pc EXCEPT ![c] = pc'[c]], pc'[c] \notin {"discard", "count"},
             \A d \in Consumer : d # c => cur'[d] = cur[d]
      PROVE  SettledInv'
  BY <1>1, <1>2 DEF SettledInv
<1>3. ASSUME SaveChunkWrite(c), pc[c] \notin {"waiting", "idle", "exited", "list", "saveJob"},
             pc' = [pc EXCEPT ![c] = pc'[c]],
             pc'[c] \notin {"discard", "count"} \/ (pc'[c] = "discard" /\ cur'[c] = cur[c]
               /\ rec[c].status \in {"done", "failed"}),
             \A d \in Consumer : d # c => cur'[d] = cur[d]
      PROVE  SettledInv'
  <2>1. UNCHANGED <<audio, counted>>
    BY <1>3 DEF SaveChunkWrite
  <2>2. /\ \A ch \in counted : chunks'[ch] = chunks[ch]
        /\ \A d \in Consumer : d # c => chunks'[cur[d]] = chunks[cur[d]]
        /\ chunks'[cur[c]] = rec[c]
    BY <1>3, SaveTouchesOwn
  <2>3. ASSUME NEW d \in Consumer
        PROVE  (/\ pc[d] \in {"discard", "count"} => Settled(cur[d])
                /\ pc[d] = "count" => cur[d] \notin audio)'
    <3>1. CASE d = c
      BY <1>1, <1>3, <2>2, <3>1
    <3>2. CASE d # c
      BY <1>1, <1>3, <2>1, <2>2, <3>2 DEF SettledInv
    <3> QED
      BY <3>1, <3>2
  <2> QED
    BY <2>1, <2>2, <2>3 DEF SettledInv
<1>4. ASSUME DiscardAudioWrite(c), pc[c] = "discard",
             pc' = [pc EXCEPT ![c] = pc'[c]],
             pc'[c] \notin {"discard", "count"} \/ (pc'[c] = "count" /\ cur'[c] = cur[c]),
             \A d \in Consumer : d # c => cur'[d] = cur[d]
      PROVE  SettledInv'
  BY <1>1, <1>4 DEF SettledInv, DiscardAudioWrite
<1>5. ASSUME DecrWrite(c), pc[c] = "count",
             pc' = [pc EXCEPT ![c] = pc'[c]], pc'[c] \notin {"discard", "count"},
             \A d \in Consumer : d # c => cur'[d] = cur[d]
      PROVE  SettledInv'
  BY <1>1, <1>5 DEF SettledInv, DecrWrite
<1>6. CASE Pop(c) \/ PopTimesOut(c) \/ TurnIdle(c) \/ ReadChunk(c)
  BY <1>1, <1>2, <1>6 DEF Pop, PopTimesOut, TurnIdle, AfterChunk, ReadChunk, Goto,
     redisVars, taskVars
<1>7. CASE Work(c)
  BY <1>2, <1>3, <1>7 DEF Work
<1>8. CASE SaveResult(c)
  BY <1>1, <1>3, <1>8 DEF SaveResult, Goto, taskVars, TypeInv, ConsumerInv
<1>9. CASE DiscardAudio(c)
  BY <1>1, <1>4, <1>9 DEF DiscardAudio, Goto, taskVars
<1>10. CASE CountLastChunk(c)
  BY <1>1, <1>5, <1>10 DEF CountLastChunk, Goto, taskVars
<1>11. CASE Drop(c)
  <2>1. /\ pc' = [pc EXCEPT ![c] = pc'[c]] /\ pc'[c] \notin {"discard", "count"}
        /\ \A d \in Consumer : d # c => cur'[d] = cur[d]
    BY <1>1, <1>11 DEF Drop, Release, AfterChunk, Goto
  <2>2. CASE UNCHANGED <<chunks, audio, counted>>
    BY <1>2, <2>1, <2>2
  <2>3. CASE PendingWrite(c)
    BY <1>2, <1>3, <1>4, <1>5, <2>1, <2>3 DEF PendingWrite, SaveJobWrite
  <2> QED
    BY <1>11, <2>2, <2>3 DEF Drop
<1> QED
  BY <1>6, <1>7, <1>8, <1>9, <1>10, <1>11 DEF ConsumerMove

-----------------------------------------------------------------------------
(* Finalisation *)

\* What FinalInv says of one consumer and of one job.
FinaliserOK(c) ==
  Finalizing(c) =>
    /\ ChunksOf(JobOf(cur[c])) \subseteq counted
    /\ \A d \in Consumer : Finalizing(d) /\ JobOf(cur[d]) = JobOf(cur[c]) => d = c
    /\ \A k \in 1 .. Len(seen[c]) : seen[c][k] = chunks[<<JobOf(cur[c]), k - 1>>]

FinishedOK(j) ==
  Finished(j) =>
    /\ ChunksOf(j) \subseteq counted
    /\ jobs[j].transcript = [k \in 1 .. ChunkCount[j] |-> chunks[<<j, k - 1>>].text]
    /\ jobs[j].status = "failed" <=>
         \E ch \in ChunksOf(j) : chunks[ch].status = "failed"

\* FinalInv, consumer by consumer and job by job.
LEMMA FinalParts ==
  FinalInv <=> (\A c \in Consumer : FinaliserOK(c)) /\ (\A j \in Job : FinishedOK(j))
BY DEF FinalInv, FinaliserOK, FinishedOK

\* The records of a job all of whose chunks are counted do not change: the job
\* of a finaliser, and a finished job, keep what FinalInv says of them.
LEMMA FinishedKept ==
  ASSUME NEW j \in Job, FinishedOK(j), jobs'[j] = jobs[j], counted \subseteq counted',
         \A ch \in counted : chunks'[ch] = chunks[ch]
  PROVE  FinishedOK(j)'
<1> SUFFICES ASSUME Finished(j)
             PROVE  (/\ ChunksOf(j) \subseteq counted
                     /\ jobs[j].transcript = [k \in 1 .. ChunkCount[j] |-> chunks[<<j, k - 1>>].text]
                     /\ jobs[j].status = "failed" <=>
                          \E ch \in ChunksOf(j) : chunks[ch].status = "failed")'
  BY DEF FinishedOK, Finished
<1>1. \A ch \in ChunksOf(j) : chunks'[ch] = chunks[ch]
  BY DEF FinishedOK
<1>2. \A k \in 1 .. ChunkCount[j] : chunks'[<<j, k - 1>>] = chunks[<<j, k - 1>>]
  BY <1>1, CountType DEF ChunksOf
<1> QED
  BY <1>1, <1>2 DEF FinishedOK

\* The same of a finaliser that a step does not touch.
LEMMA FinaliserKept ==
  ASSUME TypeInv, NEW c \in Consumer, FinaliserOK(c),
         Finalizing(c), UNCHANGED <<cur[c], seen[c]>>, counted \subseteq counted',
         \A ch \in counted : chunks'[ch] = chunks[ch],
         \A d \in Consumer : (Finalizing(d) /\ JobOf(cur[d]) = JobOf(cur[c]))' =>
           Finalizing(d) /\ JobOf(cur[d]) = JobOf(cur[c])
  PROVE  FinaliserOK(c)'
<1> DEFINE j == JobOf(cur[c])
<1>1. cur[c] \in Chunk /\ j \in Job
  <2>1. cur[c] # NoChunk
    BY DEF TypeInv, ConsumerInv, Finalizing
  <2>2. cur[c] \in Chunk
    BY <2>1 DEF TypeInv, TypeOK, ConsumerTypeOK
  <2> QED
    BY <2>2, ChunkParts
<1>2. ChunkCount[j] \in Nat /\ Len(seen[c]) \in Nat /\ Len(seen[c]) <= ChunkCount[j]
  BY <1>1, CountType DEF TypeInv, TypeOK, ConsumerTypeOK, ConsumerInv, Finalizing
<1>3. \A k \in 1 .. Len(seen[c]) : chunks'[<<j, k - 1>>] = chunks[<<j, k - 1>>]
  BY <1>1, <1>2 DEF FinaliserOK, ChunksOf
<1> QED
  BY <1>3 DEF FinaliserOK

\* The handler does not touch the job of a finaliser, nor a finished one.
LEMMA FinalKeptByApi ==
  ASSUME TypeInv, OwnershipInv, FinalInv, NEW j \in Job, ApiMove(j)
  PROVE  FinalInv'
<1> USE DEF TypeInv, TypeOK
<1>1. UNCHANGED <<counted, pc, cur, seen>>
  BY DEF ApiMove, taskVars
<1>2. \A ch \in counted : chunks'[ch] = chunks[ch]
  <2>1. CASE api[j] = "created" /\ AddChunksWrite(j)
    <3>1. cursor[j] = 0
      BY <2>1 DEF HandlerInv
    <3> QED
      BY <2>1, <3>1, Untouched, ChunksOfJob DEF AddChunksWrite, RedisTypeOK
  <2>2. CASE chunks' = chunks
    BY <2>2
  <2> QED
    BY <2>1, <2>2 DEF ApiMove, ApiWrite, CreateWrite, SavePreparedWrite, SetRemainingWrite,
                      ParkAudioWrite, PushWrite
<1>3. \A i \in Job : jobs'[i] = jobs[i] \/ ~ Finished(i)'
  BY DEF ApiMove, ApiWrite, CreateWrite, AddChunksWrite, SavePreparedWrite,
         SetRemainingWrite, ParkAudioWrite, PushWrite, Finished, RedisTypeOK
<1>4. ASSUME NEW c \in Consumer
      PROVE  FinaliserOK(c)'
  <2>1. CASE Finalizing(c)
    BY <1>1, <1>2, <2>1, FinalParts, FinaliserKept DEF Finalizing
  <2>2. CASE ~ Finalizing(c)
    BY <1>1, <2>2 DEF FinaliserOK, Finalizing
  <2> QED
    BY <2>1, <2>2
<1>5. ASSUME NEW i \in Job
      PROVE  FinishedOK(i)'
  <2>1. CASE jobs'[i] = jobs[i]
    BY <1>1, <1>2, <2>1, FinalParts, FinishedKept
  <2>2. CASE ~ Finished(i)'
    BY <2>2 DEF FinishedOK
  <2> QED
    BY <1>3, <2>1, <2>2
<1> QED
  BY <1>4, <1>5 DEF FinalInv, FinaliserOK, FinishedOK

\* A step of c that leaves jobs alone, changes no counted record, and does not
\* make c a finaliser (or leaves it one, with what it has read) keeps FinalInv.
LEMMA FinalKeptByQuietStep ==
  ASSUME TypeInv, FinalInv, NEW c \in Consumer,
         jobs' = jobs, counted \subseteq counted',
         \A ch \in counted : chunks'[ch] = chunks[ch],
         pc' = [pc EXCEPT ![c] = pc'[c]],
         \A d \in Consumer : d # c => cur'[d] = cur[d] /\ seen'[d] = seen[d],
         ~ Finalizing(c)'
  PROVE  FinalInv'
<1>1. \A d \in Consumer : Finalizing(d)' =>
        d # c /\ Finalizing(d) /\ cur'[d] = cur[d] /\ seen'[d] = seen[d]
  BY DEF Finalizing, TypeInv, TypeOK, ConsumerTypeOK
<1>2. ASSUME NEW d \in Consumer
      PROVE  FinaliserOK(d)'
  <2>1. CASE Finalizing(d)'
    <3>1. FinaliserOK(d) /\ Finalizing(d) /\ UNCHANGED <<cur[d], seen[d]>>
      BY <1>1, <2>1, FinalParts
    <3>2. \A e \in Consumer : (Finalizing(e) /\ JobOf(cur[e]) = JobOf(cur[d]))' =>
            Finalizing(e) /\ JobOf(cur[e]) = JobOf(cur[d])
      BY <1>1, <2>1
    <3> QED
      BY <3>1, <3>2, FinaliserKept
  <2>2. CASE ~ Finalizing(d)'
    BY <2>2 DEF FinaliserOK
  <2> QED
    BY <2>1, <2>2
<1>3. ASSUME NEW i \in Job
      PROVE  FinishedOK(i)'
  BY FinalParts, FinishedKept
<1> QED
  BY <1>2, <1>3 DEF FinalInv, FinaliserOK, FinishedOK

\* The consumer that becomes finaliser is alone and every chunk is counted: the
\* counter was 1, the number of chunks not counted.
LEMMA FinalKeptByCountLast ==
  ASSUME TypeInv, OwnershipInv, CounterInv, FinalInv, NEW c \in Consumer, CountLastChunk(c)
  PROVE  FinalInv'
<1>1. PICK j \in Job : j = JobOf(cur[c])
  BY StillOwed DEF CountLastChunk
<1>2. /\ UNCHANGED <<cur, seen, jobs, chunks>>
      /\ counted' = counted \cup {cur[c]}
      /\ pc[c] = "count" /\ pc' = [pc EXCEPT ![c] = "list"]
      /\ seen[c] = <<>>
  BY DEF CountLastChunk, DecrWrite, Goto, taskVars, TypeInv, ConsumerInv, Finalizing
<1>3. /\ cur[c] \in Uncounted(j) /\ IsFiniteSet(Uncounted(j))
      /\ remaining[j] = Cardinality(Uncounted(j))
      /\ Uncounted(j)' = Uncounted(j) \ {cur[c]}
      /\ Cardinality(Uncounted(j)') = Cardinality(Uncounted(j)) - 1
  BY <1>1, <1>2, DecrCounts
<1>4. ChunksOf(j) \subseteq counted'
  <2>1. remaining[j] - 1 <= 0
    BY <1>1 DEF CountLastChunk, IsLast
  <2>2. /\ IsFiniteSet(Uncounted(j)') /\ Cardinality(Uncounted(j)') \in Nat
        /\ Cardinality(Uncounted(j)) \in Nat
    BY <1>3, FS_RemoveElement, FS_CardinalityType
  <2>3. Cardinality(Uncounted(j)') = 0
    BY <1>3, <2>1, <2>2
  <2>4. Uncounted(j)' = {}
    BY <2>2, <2>3, FS_EmptySet
  <2> QED
    BY <2>4 DEF Uncounted
<1>5. \A d \in Consumer : Finalizing(d) => JobOf(cur[d]) # j
  BY <1>3 DEF FinalInv, Uncounted
<1>6. \A d \in Consumer : Finalizing(d)' <=> d = c \/ Finalizing(d)
  BY <1>2 DEF Finalizing, TypeInv, TypeOK, ConsumerTypeOK
<1>7. ASSUME NEW d \in Consumer
      PROVE  FinaliserOK(d)'
  <2>1. CASE d = c
    BY <1>1, <1>2, <1>4, <1>5, <1>6, <2>1 DEF FinaliserOK
  <2>2. CASE d # c /\ Finalizing(d)
    <3>1. JobOf(cur[d]) # j /\ FinaliserOK(d)
      BY <1>5, <2>2, FinalParts
    <3>2. \A e \in Consumer : (Finalizing(e) /\ JobOf(cur[e]) = JobOf(cur[d]))' =>
            Finalizing(e) /\ JobOf(cur[e]) = JobOf(cur[d])
      BY <1>1, <1>2, <1>6, <3>1
    <3> QED
      BY <1>2, <2>2, <3>1, <3>2, FinaliserKept
  <2>3. CASE d # c /\ ~ Finalizing(d)
    BY <1>6, <2>3 DEF FinaliserOK
  <2> QED
    BY <2>1, <2>2, <2>3
<1>8. ASSUME NEW i \in Job
      PROVE  FinishedOK(i)'
  BY <1>2, FinalParts, FinishedKept
<1> QED
  BY <1>7, <1>8 DEF FinalInv, FinaliserOK, FinishedOK

\* A finaliser reads the record that the chunk has for good.
LEMMA FinalKeptByRead ==
  ASSUME TypeInv, FinalInv, NEW c \in Consumer, ReadChunk(c)
  PROVE  FinalInv'
<1>1. PICK j \in Job : j = JobOf(cur[c]) /\ cur[c] \in Chunk
  BY ChunkParts DEF ReadChunk, TypeInv, TypeOK, ConsumerTypeOK, ConsumerInv
<1>2. PICK n \in Nat : n = Len(seen[c]) /\ n < ChunkCount[j]
  BY <1>1 DEF ReadChunk, TypeInv, TypeOK, ConsumerTypeOK, ConsumerInv
<1>3. /\ UNCHANGED <<jobs, chunks, counted, cur>>
      /\ pc[c] = "list" /\ pc' = [pc EXCEPT ![c] = pc'[c]] /\ Finalizing(c)'
      /\ seen' = [seen EXCEPT ![c] = Append(seen[c], chunks[<<j, n>>])]
  BY <1>1, <1>2 DEF ReadChunk, Goto, redisVars, Finalizing, TypeInv, TypeOK, ConsumerTypeOK
<1>4. \A d \in Consumer : Finalizing(d)' <=> Finalizing(d)
  BY <1>3 DEF Finalizing, TypeInv, TypeOK, ConsumerTypeOK
<1>5. ASSUME NEW d \in Consumer
      PROVE  FinaliserOK(d)'
  <2>1. CASE d = c
    <3>1. chunks[<<j, n>>] \in ChunkRecord /\ seen[c] \in Seq(ChunkRecord)
      BY <1>2, ChunkOfIndex, CountType DEF TypeInv, TypeOK, RedisTypeOK, ConsumerTypeOK
    <3>2. /\ Len(seen'[c]) = n + 1
          /\ \A k \in 1 .. n + 1 :
               seen'[c][k] = IF k = n + 1 THEN chunks[<<j, n>>] ELSE seen[c][k]
      BY <1>2, <1>3, <3>1 DEF TypeInv, TypeOK, ConsumerTypeOK
    <3>3. \A k \in 1 .. n : seen[c][k] = chunks[<<j, k - 1>>]
      BY <1>1, <1>2, <1>3 DEF FinalInv, Finalizing
    <3>4. \A k \in 1 .. n + 1 : seen'[c][k] = chunks[<<j, k - 1>>]
      BY <3>2, <3>3
    <3>5. FinaliserOK(c) /\ Finalizing(c)
      BY <1>3, <1>4, FinalParts
    <3> QED
      BY <1>1, <1>3, <1>4, <2>1, <3>2, <3>4, <3>5 DEF FinaliserOK
  <2>2. CASE d # c
    BY <1>3, <1>4, <2>2, FinalParts DEF FinaliserOK, TypeInv, TypeOK, ConsumerTypeOK
  <2> QED
    BY <2>1, <2>2
<1>6. ASSUME NEW i \in Job
      PROVE  FinishedOK(i)'
  BY <1>3, FinalParts, FinishedKept
<1> QED
  BY <1>5, <1>6 DEF FinalInv, FinaliserOK, FinishedOK

\* The job is saved from what its finaliser read, which is what is stored.
LEMMA FinalKeptBySave ==
  ASSUME TypeInv, FinalInv, NEW c \in Consumer,
         pc[c] = "saveJob", SaveJobWrite(c), Release(c)
  PROVE  FinalInv'
<1>1. PICK j \in Job : j = JobOf(cur[c]) /\ cur[c] \in Chunk
  BY ChunkParts DEF TypeInv, TypeOK, ConsumerTypeOK, ConsumerInv
<1>2. /\ Finalizing(c)
      /\ Len(seen[c]) = ChunkCount[j] /\ ChunkCount[j] \in Nat
  BY <1>1, CountType DEF TypeInv, ConsumerInv, Finalizing
<1>3. /\ ChunksOf(j) \subseteq counted
      /\ \A k \in 1 .. ChunkCount[j] : seen[c][k] = chunks[<<j, k - 1>>]
  BY <1>1, <1>2 DEF FinalInv
<1>4. /\ UNCHANGED <<chunks, counted>>
      /\ \A i \in Job \ {j} : jobs'[i] = jobs[i]
      /\ jobs'[j] =
           [status |-> IF \E k \in 1 .. ChunkCount[j] : seen[c][k].status = "failed"
                         THEN "failed" ELSE "done",
            transcript |-> [k \in 1 .. ChunkCount[j] |-> seen[c][k].text]]
  BY <1>1, <1>2 DEF SaveJobWrite, TypeInv, TypeOK, RedisTypeOK
<1>5. FinishedOK(j)'
  <2>1. (\E k \in 1 .. ChunkCount[j] : seen[c][k].status = "failed") <=>
          \E ch \in ChunksOf(j) : chunks[ch].status = "failed"
    <3>1. \A k \in 1 .. ChunkCount[j] : <<j, k - 1>> \in ChunksOf(j)
      BY <1>2 DEF ChunksOf
    <3>2. \A ch \in ChunksOf(j) :
            ch[2] + 1 \in 1 .. ChunkCount[j] /\ ch = <<j, (ch[2] + 1) - 1>>
      BY <1>2 DEF ChunksOf
    <3>3. ASSUME NEW k \in 1 .. ChunkCount[j], seen[c][k].status = "failed"
          PROVE  \E ch \in ChunksOf(j) : chunks[ch].status = "failed"
      BY <1>3, <3>1, <3>3
    <3>4. ASSUME NEW ch \in ChunksOf(j), chunks[ch].status = "failed"
          PROVE  \E k \in 1 .. ChunkCount[j] : seen[c][k].status = "failed"
      <4>1. PICK k \in 1 .. ChunkCount[j] : ch = <<j, k - 1>>
        BY <3>2
      <4> QED
        BY <1>3, <3>4, <4>1
    <3> QED
      BY <3>3, <3>4
  <2>2. [k \in 1 .. ChunkCount[j] |-> seen[c][k].text] =
          [k \in 1 .. ChunkCount[j] |-> chunks[<<j, k - 1>>].text]
    BY <1>3
  <2>3. /\ jobs'[j].transcript = [k \in 1 .. ChunkCount[j] |-> chunks[<<j, k - 1>>].text]
        /\ jobs'[j].status = "failed" <=>
             \E ch \in ChunksOf(j) : chunks[ch].status = "failed"
    BY <1>4, <2>1, <2>2
  <2> QED
    BY <1>3, <1>4, <2>3 DEF FinishedOK
<1>6. ASSUME NEW i \in Job
      PROVE  FinishedOK(i)'
  BY <1>4, <1>5, FinalParts, FinishedKept
<1>7. ASSUME NEW d \in Consumer
      PROVE  FinaliserOK(d)'
  <2>1. \A e \in Consumer : Finalizing(e)' =>
          e # c /\ Finalizing(e) /\ cur'[e] = cur[e] /\ seen'[e] = seen[e]
    BY DEF Release, AfterChunk, Goto, Finalizing, TypeInv, TypeOK, ConsumerTypeOK
  <2>2. CASE Finalizing(d)'
    <3>1. \A e \in Consumer : (Finalizing(e) /\ JobOf(cur[e]) = JobOf(cur[d]))' =>
            Finalizing(e) /\ JobOf(cur[e]) = JobOf(cur[d])
      BY <2>1, <2>2
    <3> QED
      BY <1>4, <2>1, <2>2, <3>1, FinalParts, FinaliserKept
  <2>3. CASE ~ Finalizing(d)'
    BY <2>3 DEF FinaliserOK
  <2> QED
    BY <2>2, <2>3
<1> QED
  BY <1>6, <1>7 DEF FinalInv, FinaliserOK, FinishedOK

\* All moves of a consumer together.
LEMMA FinalKeptByConsumer ==
  ASSUME TypeInv, OwnershipInv, CounterInv, FinalInv, NEW c \in Consumer, ConsumerMove(c)
  PROVE  FinalInv'
<1>1. /\ pc \in [Consumer -> ConsumerPc]
      /\ cur \in [Consumer -> Chunk \cup {NoChunk}]
      /\ seen \in [Consumer -> Seq(ChunkRecord)]
  BY DEF TypeInv, TypeOK, ConsumerTypeOK
<1>2. CASE Pop(c) \/ PopTimesOut(c) \/ TurnIdle(c)
  BY <1>1, <1>2, FinalKeptByQuietStep DEF Pop, PopTimesOut, TurnIdle, AfterChunk, Goto,
     Finalizing, redisVars, taskVars
<1>3. CASE Work(c)
  <2>1. \A ch \in counted : chunks'[ch] = chunks[ch]
    BY <1>3, SaveTouchesOwn DEF Work
  <2> QED
    BY <1>3, <2>1, FinalKeptByQuietStep DEF Work, SaveChunkWrite, Finalizing
<1>4. CASE SaveResult(c)
  <2>1. \A ch \in counted : chunks'[ch] = chunks[ch]
    BY <1>4, SaveTouchesOwn DEF SaveResult
  <2> QED
    BY <1>1, <1>4, <2>1, FinalKeptByQuietStep
       DEF SaveResult, SaveChunkWrite, Goto, Finalizing, taskVars
<1>5. CASE DiscardAudio(c)
  BY <1>1, <1>5, FinalKeptByQuietStep
     DEF DiscardAudio, DiscardAudioWrite, Goto, Finalizing, taskVars
<1>6. CASE CountLastChunk(c)
  BY <1>6, FinalKeptByCountLast
<1>7. CASE ReadChunk(c)
  BY <1>7, FinalKeptByRead
<1>8. CASE Drop(c)
  <2>1. /\ pc' = [pc EXCEPT ![c] = pc'[c]] /\ ~ Finalizing(c)'
        /\ \A d \in Consumer : d # c => cur'[d] = cur[d] /\ seen'[d] = seen[d]
    BY <1>1, <1>8 DEF Drop, Release, AfterChunk, Goto, Finalizing
  <2>2. CASE pc[c] = "saveJob" /\ SaveJobWrite(c)
    BY <1>8, <2>2, FinalKeptBySave DEF Drop
  <2>3. ASSUME jobs' = jobs, counted \subseteq counted',
               \A ch \in counted : chunks'[ch] = chunks[ch]
        PROVE  FinalInv'
    BY <2>1, <2>3, FinalKeptByQuietStep
  <2>4. CASE SaveChunkWrite(c) /\ pc[c] \notin {"waiting", "idle", "exited", "list", "saveJob"}
    <3>1. \A ch \in counted : chunks'[ch] = chunks[ch]
      BY <2>4, SaveTouchesOwn
    <3> QED
      BY <2>3, <2>4, <3>1 DEF SaveChunkWrite
  <2>5. CASE DiscardAudioWrite(c) \/ DecrWrite(c)
    BY <2>3, <2>5 DEF DiscardAudioWrite, DecrWrite
  <2>6. CASE UNCHANGED <<jobs, chunks, audio, remaining, counted>>
    BY <2>3, <2>6
  <2> QED
    BY <1>8, <2>2, <2>4, <2>5, <2>6 DEF Drop, PendingWrite
<1> QED
  BY <1>2, <1>3, <1>4, <1>5, <1>6, <1>7, <1>8 DEF ConsumerMove

\* Processes that stop, die or start change nothing that is counted or saved,
\* and no consumer becomes a finaliser by it.
LEMMA RestKeptByProcess ==
  ASSUME TypeInv, CounterInv, SettledInv, FinalInv, NEW p \in Process, ProcessMove(p)
  PROVE  CounterInv' /\ SettledInv' /\ FinalInv'
<1>1. UNCHANGED <<jobs, chunks, audio, remaining, counted, api, cursor>>
  BY DEF ProcessMove, apiVars
<1>2. \A c \in Consumer : pc'[c] \notin {"waiting", "idle", "exited"} =>
        pc'[c] = pc[c] /\ cur'[c] = cur[c] /\ seen'[c] = seen[c]
  <2>1. CASE Vanish(p)
    BY <2>1 DEF Vanish
  <2>2. CASE Restart(p)
    BY <2>2 DEF Restart, taskVars
  <2>3. CASE UNCHANGED <<pc, taskVars>>
    BY <2>3 DEF taskVars
  <2> QED
    BY <2>1, <2>2, <2>3 DEF ProcessMove
<1>3. CounterInv'
  BY <1>1 DEF CounterInv, Uncounted
<1>4. SettledInv'
  BY <1>1, <1>2 DEF SettledInv, Settled
<1>5. FinalInv'
  <2>1. ASSUME NEW c \in Consumer
        PROVE  FinaliserOK(c)'
    <3>1. FinaliserOK(c)
      BY FinalParts
    <3>2. \A d \in Consumer : Finalizing(d)' =>
            Finalizing(d) /\ cur'[d] = cur[d] /\ seen'[d] = seen[d]
      BY <1>2 DEF Finalizing
    <3> QED
      BY <1>1, <3>1, <3>2 DEF FinaliserOK
  <2>2. ASSUME NEW j \in Job
        PROVE  FinishedOK(j)'
    BY <1>1, FinalParts DEF FinishedOK, Finished
  <2> QED
    BY <2>1, <2>2 DEF FinalInv, FinaliserOK, FinishedOK
<1> QED
  BY <1>3, <1>4, <1>5

-----------------------------------------------------------------------------
(* The theorems *)

\* Every step keeps the rest of the invariant.
LEMMA RestKept ==
  ASSUME TypeInv, OwnershipInv, CounterInv, SettledInv, FinalInv, [Next]_vars
  PROVE  OwnershipInv' /\ CounterInv' /\ SettledInv' /\ FinalInv'
<1>1. RedisTypeOK /\ ApiTypeOK /\ ConsumerTypeOK /\ HandlerInv /\ ConsumerInv
  BY DEF TypeInv, TypeOK
<1>2. ASSUME NEW j \in Job, ApiStep(j) \/ ApiFails(j)
      PROVE  OwnershipInv' /\ CounterInv' /\ SettledInv' /\ FinalInv'
  BY <1>1, <1>2, ApiMoves, OwnershipKeptByApi, CounterKeptByApi, SettledKeptByApi,
     FinalKeptByApi
<1>3. ASSUME NEW c \in Consumer, ConsumerStep(c) \/ CommandRaises(c)
      PROVE  OwnershipInv' /\ CounterInv' /\ SettledInv' /\ FinalInv'
  BY <1>1, <1>3, ConsumerMoves, OwnershipKeptByConsumer, CounterKeptByConsumer,
     SettledKeptByConsumer, FinalKeptByConsumer
<1>4. ASSUME NEW p \in Process, ProcessMove(p)
      PROVE  OwnershipInv' /\ CounterInv' /\ SettledInv' /\ FinalInv'
  BY <1>4, OwnershipKeptByProcess, RestKeptByProcess
<1>5. CASE UNCHANGED vars
  <2>1. OwnershipInv' /\ CounterInv' /\ SettledInv'
    BY <1>5 DEF vars, OwnershipInv, CounterInv, SettledInv, Pushed, Finalizing, Uncounted,
                Settled
  <2>2. FinalInv'
    BY <1>5 DEF vars, FinalInv, Finalizing, Finished
  <2> QED
    BY <2>1, <2>2
<1> QED
  BY <1>2, <1>3, <1>4, <1>5, ProcessMoves, RedisAsyncAssumption DEF Next

\* The invariant, with the part that the proof of the types rests on.
LEMMA InvariantParts ==
  IndInv <=> TypeInv /\ OwnershipInv /\ CounterInv /\ SettledInv /\ FinalInv
BY DEF IndInv, TypeInv

\* Every step keeps the invariant.
LEMMA InvariantKept ==
  ASSUME IndInv, [Next]_vars
  PROVE  IndInv'
<1>1. TypeInv' /\ OwnershipInv' /\ CounterInv' /\ SettledInv' /\ FinalInv'
  BY InvariantParts, TypesKept, RestKept
<1> QED
  BY <1>1 DEF IndInv, TypeInv

\* The invariant holds at the start.
LEMMA InvariantAtInit ==
  ASSUME Init
  PROVE  IndInv
<1>1. OwnershipInv
  BY DEF Init, OwnershipInv
<1>2. CounterInv
  BY DEF Init, CounterInv
<1>3. SettledInv
  BY DEF Init, SettledInv
<1>4. FinalInv
  BY DEF Init, FinalInv, Finalizing, Finished
<1>5. TypeInv
  BY TypeAtInit
<1> QED
  BY <1>1, <1>2, <1>3, <1>4, <1>5, InvariantParts

\* The invariant is inductive: it holds in every reachable state.
THEOREM Inductive == Spec => []IndInv
<1>1. Init => IndInv
  BY InvariantAtInit
<1>2. IndInv /\ [Next]_vars => IndInv'
  BY InvariantKept
<1> QED
  BY <1>1, <1>2, PTL DEF Spec

\* A job that a poller sees finished is complete: its chunks have their final
\* records, its transcript is made of exactly those, and it failed iff one did.
THEOREM FinishedJobsAreComplete == Spec => []FinishedIsComplete
<1>1. IndInv => FinishedIsComplete
  <2> SUFFICES ASSUME IndInv, NEW j \in Job, Finished(j)
               PROVE  /\ \A ch \in ChunksOf(j) : Settled(ch)
                      /\ jobs[j].transcript = [k \in 1 .. ChunkCount[j] |-> chunks[<<j, k - 1>>].text]
                      /\ jobs[j].status = "failed" <=>
                           \E ch \in ChunksOf(j) : chunks[ch].status = "failed"
    BY DEF FinishedIsComplete
  <2> QED
    BY DEF IndInv, SettledInv, FinalInv
<1> QED
  BY <1>1, Inductive, PTL

\* No two consumers finalise the same job at the same time.
THEOREM FinaliserIsAlone == Spec => []OneFinalizer
<1>1. IndInv => OneFinalizer
  BY DEF IndInv, FinalInv, OneFinalizer
<1> QED
  BY <1>1, Inductive, PTL

\* A finished job has left no audio in Redis.
THEOREM FinishedJobsLeaveNoAudio == Spec => []FinishedLeavesNoAudio
<1>1. IndInv => FinishedLeavesNoAudio
  BY DEF IndInv, FinalInv, SettledInv, FinishedLeavesNoAudio
<1> QED
  BY <1>1, Inductive, PTL

=============================================================================
