-------------------------- MODULE RedisDataProofs --------------------------
(***************************************************************************)
(* What the records of RedisAsync's chunks say is true, and where the      *)
(* chunks are: proofs for any jobs, consumers, processes and settings.     *)
(*                                                                         *)
(* The invariants rest on one part of IndInv (RedisAsyncProofs): that a    *)
(* chunk is in one place at a time is why nobody deletes the audio another *)
(* one is about to load.                                                   *)
(***************************************************************************)
EXTENDS RedisAsyncProofs

-----------------------------------------------------------------------------
(***************************************************************************)
(* The invariants                                                          *)
(***************************************************************************)

Executing == {"start", "primary", "saveDone", "fallback", "saveFallback", "saveFailed"}
BeforeDiscard == Executing \cup {"popped", "fetched", "discard"}

\* The audio is parked before the id is pushed and stays until the consumer that
\* popped the id has stored the chunk's result.
AudioInv ==
  /\ \A j \in Job : api[j] = "push" => NextChunk(j) \in audio
  /\ \A k \in 1 .. Len(queue) : queue[k] \in audio
  /\ \A c \in Consumer : pc[c] \in BeforeDiscard => cur[c] \in audio

\* What LineageTrue asks of a chunk, for any record
TrueRecord(r) ==
  r.status = "done" => r.text \in Backend /\ r.backend = r.text /\ r.worker \in Consumer

\* A consumer that executes has heard the audio, knows a backend, and its copy of the
\* record names the one it is with.
Execution(c) ==
  /\ heard[c] /\ rec[c].worker \in Consumer
  /\ Servable(MyPlan(c))
  /\ pc[c] = "start" => rec[c].status = "processing"
  /\ pc[c] \in {"start", "primary", "saveDone"} => rec[c].backend = MyPlan(c).backend
  /\ pc[c] \in {"fallback", "saveFallback"} => rec[c].backend = "local"
  /\ pc[c] \in {"saveDone", "saveFallback"} => rec[c].text = rec[c].backend
  /\ pc[c] = "saveFailed" => rec[c].status = "failed"

ExecutionInv == \A c \in Consumer : pc[c] \in Executing => Execution(c)

LineageInv ==
  /\ \A ch \in Chunk : TrueRecord(chunks[ch])
  /\ ExecutionInv

\* Neither Redis nor a consumer's copy ever has a strong chunk with the local backend,
\* and no consumer is in the fallback with one.  (Until it fetched it, the consumer has
\* no copy.)
NotLocal(r) == "local" \notin {r.backend, r.text}
Strong(ch) == TierOf[JobOf(ch)] = "strong"
StrongCopy(c) ==
  /\ pc[c] # "popped" => NotLocal(rec[c])
  /\ pc[c] \notin {"fallback", "saveFallback"}

StrongInv ==
  /\ \A ch \in Chunk : Strong(ch) => NotLocal(chunks[ch])
  /\ \A c \in Consumer : cur[c] # NoChunk /\ Strong(cur[c]) => StrongCopy(c)

DataInv == AudioInv /\ LineageInv /\ StrongInv

-----------------------------------------------------------------------------
(***************************************************************************)
(* What they rest on                                                       *)
(***************************************************************************)

\* A consumer's step changes nothing of another consumer's.
LEMMA OthersStay ==
  ASSUME TypeInv, NEW c \in Consumer, ConsumerStep(c) \/ CommandRaises(c),
         NEW d \in Consumer, d # c
  PROVE  UNCHANGED <<pc[d], cur[d], rec[d], heard[d]>>
<1> USE DEF Goto, Release, MarkFailed, BeginFallback, HandlePrimaryFailure, taskVars
<1>1. ConsumerTypeOK
  BY DEF TypeInv, TypeOK
<1>2. CASE CommandRaises(c)
  BY <1>1, <1>2 DEF CommandRaises, AfterRaise, ConsumerTypeOK
<1>3. CASE Pop(c) \/ PopTimesOut(c) \/ TurnIdle(c) \/ FetchChunk(c) \/ LoadAudio(c)
        \/ PlanRaises(c)
  BY <1>1, <1>3 DEF Pop, PopTimesOut, TurnIdle, FetchChunk, LoadAudio, PlanRaises,
     ConsumerTypeOK
<1>4. CASE SaveStarted(c) \/ PrimaryReturns(c) \/ PrimaryRaises(c) \/ FallbackReturns(c)
             \/ FallbackRaises(c)
  BY <1>1, <1>4 DEF SaveStarted, PrimaryReturns, PrimaryRaises, FallbackReturns,
     FallbackRaises, ConsumerTypeOK
<1>5. CASE SaveResult(c) \/ DiscardAudio(c) \/ CountChunk(c) \/ CountLastChunk(c)
             \/ ReadChunk(c) \/ SaveJob(c)
  BY <1>1, <1>5 DEF SaveResult, DiscardAudio, CountChunk, CountLastChunk, ReadChunk, SaveJob,
     ConsumerTypeOK
<1> QED
  BY <1>2, <1>3, <1>4, <1>5 DEF ConsumerStep

\* After a process step a consumer is as it was, or at rest.
LEMMA ProcessLeaves ==
  ASSUME TypeInv, NEW p \in Process, ProcessMove(p), NEW c \in Consumer
  PROVE  \/ UNCHANGED <<pc[c], cur[c], rec[c], heard[c]>>
         \/ pc'[c] \in {"waiting", "idle", "exited"}
  BY DEF ProcessMove, Vanish, Restart, Dead, taskVars, TypeInv, TypeOK, ConsumerTypeOK

\* The strong tier is planned for the hosted backend without a fallback, or not at all;
\* only the fast tier's plans fall back.
LEMMA StrongPlan ==
  ASSUME NEW token, NEW fallback, NEW requested
  PROVE  /\ Plan(token, fallback, "strong", requested).backend \in {"hosted", "none"}
         /\ ~ Plan(token, fallback, "strong", requested).allowLocalFallback
  BY DEF Plan, HostedPlan, Unavailable

\* The plan a consumer follows names a backend when it can be served.
LEMMA ServablePlan ==
  ASSUME TypeInv, NEW c \in Consumer, cur[c] # NoChunk, Servable(MyPlan(c))
  PROVE  MyPlan(c).backend \in Backend
  BY MyPlanBackend DEF TypeInv, TypeOK, ConsumerTypeOK, Servable, Text, Backend

\* A pushed chunk is in one cell of the queue, or in the hands of one consumer: what
\* OwnershipInv says without the chunks that are counted.
PlaceInv ==
  /\ \A k \in 1 .. Len(queue) : queue[k] \in Pushed(JobOf(queue[k]))
  /\ \A k, l \in 1 .. Len(queue) : queue[k] = queue[l] => k = l
  /\ \A c \in Consumer : cur[c] # NoChunk =>
       /\ cur[c] \in Pushed(JobOf(cur[c]))
       /\ \A k \in 1 .. Len(queue) : queue[k] # cur[c]
       /\ \A d \in Consumer : cur[d] = cur[c] => d = c

\* It is the part of IndInv that the records need.
LEMMA OwnedIsPlaced ==
  ASSUME IndInv
  PROVE  PlaceInv
  BY DEF IndInv, OwnershipInv, PlaceInv

\* A chunk that is queued is not in anybody's hands, and one that is, in no one else's.
LEMMA OwnedByOne ==
  ASSUME TypeInv, PlaceInv, NEW c \in Consumer, cur[c] # NoChunk
  PROVE  /\ cur[c] \in Chunk
         /\ \A k \in 1 .. Len(queue) : queue[k] # cur[c]
         /\ \A d \in Consumer : d # c => cur[d] # cur[c]
         /\ \A j \in Job : NextChunk(j) # cur[c]
<1>1. cur[c] \in Chunk /\ cur[c] \in Pushed(JobOf(cur[c]))
  BY DEF TypeInv, TypeOK, ConsumerTypeOK, PlaceInv
<1>2. ASSUME NEW j \in Job, NextChunk(j) = cur[c]
      PROVE  FALSE
  <2>1. JobOf(cur[c]) = j /\ cur[c][2] = cursor[j]
    BY <1>2 DEF NextChunk, JobOf
  <2>2. cursor[j] \in Nat
    BY DEF TypeInv, TypeOK, ApiTypeOK
  <2> QED
    BY <1>1, <2>1, <2>2 DEF Pushed
<1> QED
  BY <1>1, <1>2 DEF PlaceInv

\* Chunks leave their places, if they do not move: the queue at its head, the others by
\* the consumer letting go.
Leaving ==
  /\ UNCHANGED cursor
  /\ queue' = queue \/ (queue # <<>> /\ queue' = Tail(queue))
  /\ \A c \in Consumer : cur'[c] \in {cur[c], NoChunk}

\* A step pushes a chunk, pops one, or at most lets go of some.
LEMMA PlaceMoves ==
  ASSUME TypeInv, [Next]_vars
  PROVE  \/ \E j \in Job : api[j] = "push" /\ PushWrite(j) /\ UNCHANGED cur
         \/ \E c \in Consumer : Pop(c)
         \/ Leaving
<1> USE DEF Leaving
<1>1. RedisTypeOK /\ ApiTypeOK /\ ConsumerTypeOK
  BY DEF TypeInv, TypeOK
<1>2. ASSUME NEW j \in Job, ApiMove(j)
      PROVE  (api[j] = "push" /\ PushWrite(j) /\ UNCHANGED cur) \/ Leaving
  BY <1>2 DEF ApiMove, ApiWrite, CreateWrite, AddChunksWrite, SavePreparedWrite,
     SetRemainingWrite, ParkAudioWrite, taskVars
<1>3. ASSUME NEW c \in Consumer, ConsumerMove(c)
      PROVE  Pop(c) \/ Leaving
  <2>1. CASE PopTimesOut(c) \/ TurnIdle(c) \/ Work(c) \/ SaveResult(c)
          \/ DiscardAudio(c) \/ CountLastChunk(c)
               \/ ReadChunk(c)
    BY <2>1 DEF PopTimesOut, TurnIdle, Work, SaveResult, DiscardAudio, CountLastChunk,
       ReadChunk,
       redisVars, apiVars, taskVars
  <2>2. CASE Drop(c)
    BY <1>1, <2>2 DEF Drop, Release, apiVars, ConsumerTypeOK
  <2> QED
    BY <1>3, <2>1, <2>2 DEF ConsumerMove
<1>4. ASSUME NEW p \in Process, ProcessMove(p)
      PROVE  Leaving
  <2>1. UNCHANGED cursor /\ (queue' = queue \/ (queue # <<>> /\ queue' = Tail(queue)))
    BY <1>4, Zenon DEF ProcessMove, apiVars
  <2>2. \A c \in Consumer : cur'[c] \in {cur[c], NoChunk}
    BY <1>4 DEF ProcessMove, Vanish, Restart, taskVars
  <2> QED
    BY <2>1, <2>2
<1>5. CASE UNCHANGED vars
  BY <1>5 DEF vars
<1>6. ASSUME NEW j \in Job, ApiStep(j) \/ ApiFails(j)
      PROVE  (api[j] = "push" /\ PushWrite(j) /\ UNCHANGED cur) \/ Leaving
  BY <1>1, <1>2, <1>6, ApiMoves
<1>7. ASSUME NEW c \in Consumer, ConsumerStep(c) \/ CommandRaises(c)
      PROVE  Pop(c) \/ Leaving
  BY <1>1, <1>3, <1>7, ConsumerMoves DEF TypeInv
<1> HIDE DEF Leaving
<1> QED
  BY <1>4, <1>5, <1>6, <1>7, ProcessMoves, RedisAsyncAssumption DEF Next

\* Letting go brings no chunk to a second place.
LEMMA PlaceKeptByLeaving ==
  ASSUME TypeInv, PlaceInv, Leaving
  PROVE  PlaceInv'
<1>1. queue \in Seq(Chunk) /\ Len(queue) \in Nat
  BY DEF TypeInv, TypeOK, RedisTypeOK
<1>2. PICK n \in {0, 1} :
        /\ Len(queue') = Len(queue) - n
        /\ \A k \in 1 .. Len(queue') : k + n \in 1 .. Len(queue) /\ queue'[k] = queue[k + n]
  <2>1. CASE queue' = queue
    BY <1>1, <2>1
  <2>2. CASE queue # <<>> /\ queue' = Tail(queue)
    BY <1>1, <2>2
  <2> QED
    BY <2>1, <2>2 DEF Leaving
<1>3. \A j : Pushed(j)' = Pushed(j)
  BY DEF Leaving, Pushed
<1>4. ASSUME NEW k \in 1 .. Len(queue'), NEW l \in 1 .. Len(queue'), queue'[k] = queue'[l]
      PROVE  k = l
  <2>1. k + n = l + n
    BY <1>2, <1>4 DEF PlaceInv
  <2> QED
    BY <2>1
<1>5. ASSUME NEW k \in 1 .. Len(queue')
      PROVE  (queue[k] \in Pushed(JobOf(queue[k])))'
  BY <1>2, <1>3, <1>5 DEF PlaceInv, JobOf
<1>6. ASSUME NEW c \in Consumer, cur'[c] # NoChunk
      PROVE  (/\ cur[c] \in Pushed(JobOf(cur[c]))
              /\ \A k \in 1 .. Len(queue) : queue[k] # cur[c]
              /\ \A d \in Consumer : cur[d] = cur[c] => d = c)'
  <2>1. cur'[c] = cur[c] /\ cur[c] # NoChunk
    BY <1>6 DEF Leaving
  <2>2. \A k \in 1 .. Len(queue') : queue'[k] # cur[c]
    BY <1>2, <2>1 DEF PlaceInv
  <2>3. \A d \in Consumer : cur'[d] = cur[c] => d = c
    BY <2>1 DEF PlaceInv, Leaving
  <2> QED
    BY <1>3, <2>1, <2>2, <2>3 DEF PlaceInv, JobOf
<1> QED
  BY <1>4, <1>5, <1>6 DEF PlaceInv

\* What is pushed has not been anywhere.
LEMMA PlaceKeptByPush ==
  ASSUME TypeInv, PlaceInv, NEW j \in Job, api[j] = "push", PushWrite(j), UNCHANGED cur
  PROVE  PlaceInv'
<1> USE DEF TypeInv, TypeOK
<1>1. NextChunk(j) \in Chunk /\ NextChunk(j) \in ChunksOf(j)
  BY ChunkOfIndex, CountType DEF HandlerInv, ApiTypeOK, NextChunk
<1>2. PICK new \in Chunk : new = NextChunk(j) /\ new \in ChunksOf(j)
  BY <1>1
<1>3. /\ queue' = Append(queue, new)
      /\ cursor' = [cursor EXCEPT ![j] = cursor[j] + 1]
      /\ JobOf(new) = j /\ new[2] = cursor[j] /\ new # NoChunk
  BY <1>2, ChunkParts DEF PushWrite, NextChunk, JobOf
<1>4. \A ch \in Chunk : ch \in Pushed(JobOf(ch)) =>
        ch # new /\ (ch \in Pushed(JobOf(ch)))'
  BY <1>3, ChunkParts, CountType DEF Pushed, ApiTypeOK
<1>5. (new \in Pushed(JobOf(new)))'
  BY <1>2, <1>3 DEF Pushed, ApiTypeOK
<1>6. /\ queue \in Seq(Chunk) /\ Len(queue) \in Nat
      /\ Len(queue') = Len(queue) + 1
      /\ \A k \in 1 .. Len(queue') :
           queue'[k] = IF k = Len(queue) + 1 THEN new ELSE queue[k]
      /\ \A k \in 1 .. Len(queue) : queue[k] \in Chunk
  BY <1>3 DEF RedisTypeOK
<1>7. \A k \in 1 .. Len(queue') : \E ch \in Chunk :
        queue'[k] = ch /\ (ch \in Pushed(JobOf(ch)))'
  BY <1>4, <1>5, <1>6 DEF PlaceInv
<1>8. \A k, l \in 1 .. Len(queue') : queue'[k] = queue'[l] => k = l
  BY <1>4, <1>6 DEF PlaceInv
<1>9. ASSUME NEW c \in Consumer, cur[c] # NoChunk
      PROVE  (/\ cur[c] \in Pushed(JobOf(cur[c]))
              /\ \A k \in 1 .. Len(queue) : queue[k] # cur[c]
              /\ \A d \in Consumer : cur[d] = cur[c] => d = c)'
  <2>1. cur[c] \in Chunk /\ cur[c] \in Pushed(JobOf(cur[c]))
    BY <1>9 DEF PlaceInv, ConsumerTypeOK
  <2>2. (cur[c] \in Pushed(JobOf(cur[c])))' /\ cur[c] # new
    BY <1>4, <2>1
  <2>3. (\A k \in 1 .. Len(queue) : queue[k] # cur[c])'
    BY <1>6, <1>9, <2>2 DEF PlaceInv
  <2> QED
    BY <1>9, <2>2, <2>3 DEF PlaceInv
<1> QED
  BY <1>7, <1>8, <1>9 DEF PlaceInv

\* What is popped leaves the queue for one consumer.
LEMMA PlaceKeptByPop ==
  ASSUME TypeInv, PlaceInv, NEW c \in Consumer, Pop(c)
  PROVE  PlaceInv'
<1> USE DEF TypeInv, TypeOK
<1>1. /\ queue \in Seq(Chunk) /\ queue # <<>>
      /\ Head(queue) = queue[1]
      /\ Len(queue') = Len(queue) - 1
      /\ \A k \in 1 .. Len(queue') : queue'[k] = queue[k + 1]
  BY DEF Pop, RedisTypeOK
<1>2. 1 \in 1 .. Len(queue) /\ \A k \in 1 .. Len(queue') : k + 1 \in 1 .. Len(queue)
  BY <1>1
<1>3. /\ cur' = [cur EXCEPT ![c] = queue[1]] /\ cur[c] = NoChunk
      /\ \A j : Pushed(j)' = Pushed(j)
  BY <1>1 DEF Pop, ConsumerInv, apiVars, Pushed
<1>4. ASSUME NEW k \in 1 .. Len(queue'), NEW l \in 1 .. Len(queue'), queue'[k] = queue'[l]
      PROVE  k = l
  <2>1. k + 1 = l + 1
    BY <1>1, <1>2, <1>4 DEF PlaceInv
  <2> QED
    BY <2>1
<1>5. \A k \in 1 .. Len(queue') : (queue[k] \in Pushed(JobOf(queue[k])))'
  BY <1>1, <1>2, <1>3 DEF PlaceInv, JobOf
<1>6. ASSUME NEW d \in Consumer, cur'[d] # NoChunk
      PROVE  (/\ cur[d] \in Pushed(JobOf(cur[d]))
              /\ \A k \in 1 .. Len(queue) : queue[k] # cur[d]
              /\ \A e \in Consumer : cur[e] = cur[d] => e = d)'
  <2>1. \A e \in Consumer : cur'[e] = IF e = c THEN queue[1] ELSE cur[e]
    BY <1>3 DEF ConsumerTypeOK
  <2>2. CASE d = c
    <3>1. queue[1] \in Chunk /\ queue[1] # NoChunk /\ queue[1] \in Pushed(JobOf(queue[1]))
      BY <1>1, <1>2, ChunkParts DEF PlaceInv
    <3>2. \A k \in 1 .. Len(queue') : queue'[k] # queue[1]
      BY <1>1, <1>2 DEF PlaceInv
    <3>3. \A e \in Consumer : cur'[e] = queue[1] => e = c
      BY <1>2, <2>1, <3>1 DEF PlaceInv
    <3> QED
      BY <1>3, <2>1, <2>2, <3>1, <3>2, <3>3 DEF JobOf
  <2>3. CASE d # c
    <3>1. cur'[d] = cur[d] /\ cur[d] # NoChunk
      BY <1>6, <2>1, <2>3
    <3>2. \A k \in 1 .. Len(queue') : queue'[k] # cur[d]
      BY <1>1, <1>2, <3>1 DEF PlaceInv
    <3>3. \A e \in Consumer : cur'[e] = cur[d] => e = d
      BY <1>2, <2>1, <3>1 DEF PlaceInv
    <3> QED
      BY <1>3, <3>1, <3>2, <3>3 DEF PlaceInv, JobOf
  <2> QED
    BY <2>2, <2>3
<1> QED
  BY <1>4, <1>5, <1>6 DEF PlaceInv

\* Whatever the counter says, no step brings a chunk to a second place.
LEMMA PlaceKept ==
  ASSUME TypeInv, PlaceInv, [Next]_vars
  PROVE  PlaceInv'
  BY PlaceMoves, PlaceKeptByLeaving, PlaceKeptByPush, PlaceKeptByPop

-----------------------------------------------------------------------------
(***************************************************************************)
(* The audio                                                               *)
(***************************************************************************)

\* What a step of a handler does to the audio and the queue: the audio grows, and only
\* an id whose audio is parked is pushed.
LEMMA ApiAudio ==
  ASSUME TypeInv, NEW j \in Job, ApiStep(j) \/ ApiFails(j)
  PROVE  /\ audio \subseteq audio'
         /\ \A i \in Job : i # j => UNCHANGED <<api[i], cursor[i]>>
         /\ api'[j] = "push" => NextChunk(j)' \in audio'
         /\ queue' = queue \/ (api[j] = "push" /\ queue' = Append(queue, NextChunk(j)))
         /\ UNCHANGED <<pc, cur>>
<1> USE DEF Handler, taskVars
<1>1. ApiTypeOK
  BY DEF TypeInv, TypeOK
<1>2. CASE ApiFails(j)
  BY <1>1, <1>2 DEF ApiFails, PendingApiWrite, CreateWrite, AddChunksWrite, SavePreparedWrite,
     SetRemainingWrite, ParkAudioWrite, PushWrite, ApiTypeOK
<1>3. CASE CreateJob(j) \/ AddChunks(j) \/ Reject(j) \/ SavePrepared(j) \/ SetRemaining(j)
             \/ FinalizeEmptyRaises(j)
  BY <1>1, <1>3 DEF CreateJob, AddChunks, Reject, SavePrepared, SetRemaining,
     FinalizeEmptyRaises, CreateWrite, AddChunksWrite, SavePreparedWrite, SetRemainingWrite,
     ApiTypeOK
<1>4. CASE ParkAudio(j)
  BY <1>1, <1>4 DEF ParkAudio, ParkAudioWrite, NextChunk, ApiTypeOK
<1>5. CASE Push(j)
  BY <1>1, <1>5 DEF Push, PushWrite, ApiTypeOK
<1> QED
  BY <1>2, <1>3, <1>4, <1>5 DEF ApiStep

\* What a step of a consumer does to them: it takes the oldest id, or deletes the audio
\* of its own chunk on leaving it.
LEMMA ConsumerAudio ==
  ASSUME TypeInv, NEW c \in Consumer, ConsumerStep(c) \/ CommandRaises(c)
  PROVE  /\ UNCHANGED <<api, cursor>>
         /\ \/ audio' = audio /\ queue' = queue
                 /\ (pc'[c] \in BeforeDiscard => pc[c] \in BeforeDiscard /\ cur'[c] = cur[c])
            \/ audio' = audio /\ queue # <<>> /\ queue' = Tail(queue) /\ cur'[c] = Head(queue)
            \/ audio' = audio \ {cur[c]} /\ queue' = queue /\ pc[c] = "discard"
                 /\ pc'[c] \notin BeforeDiscard
<1> USE DEF Goto, Release, AfterChunk, taskVars, apiVars, redisVars, BeforeDiscard, Executing
<1>1. ConsumerTypeOK /\ ConsumerInv
  BY DEF TypeInv, TypeOK
<1> USE DEF ConsumerTypeOK
<1>2. CASE CommandRaises(c)
  <2>1. audio' = audio \/ (pc[c] = "discard" /\ audio' = audio \ {cur[c]})
    BY <1>2 DEF CommandRaises, PendingWrite, SaveChunkWrite, DiscardAudioWrite, DecrWrite,
       SaveJobWrite
  <2>2. CASE Release(c)
    BY <1>1, <1>2, <2>1, <2>2 DEF CommandRaises
  <2>3. CASE /\ pc[c] \in {"saveDone", "saveFallback"}
             /\ HandlePrimaryFailure(c) \/ MarkFailed(c)
             /\ UNCHANGED cur
    BY <1>1, <1>2, <2>1, <2>3 DEF CommandRaises
  <2> QED
    BY <1>2, <2>2, <2>3 DEF CommandRaises, AfterRaise
<1>3. CASE Pop(c)
  BY <1>1, <1>3 DEF Pop
<1>4. CASE PopTimesOut(c) \/ TurnIdle(c) \/ FetchChunk(c) \/ LoadAudio(c) \/ PlanRaises(c)
  BY <1>1, <1>4 DEF PopTimesOut, TurnIdle, FetchChunk, LoadAudio, PlanRaises
<1>5. CASE SaveStarted(c) \/ PrimaryReturns(c) \/ PrimaryRaises(c) \/ FallbackReturns(c)
             \/ FallbackRaises(c)
  BY <1>1, <1>5 DEF SaveStarted, PrimaryReturns, PrimaryRaises, FallbackReturns,
     FallbackRaises, SaveChunkWrite
<1>6. CASE SaveResult(c)
  BY <1>1, <1>6 DEF SaveResult, SaveChunkWrite
<1>7. CASE DiscardAudio(c)
  BY <1>1, <1>7 DEF DiscardAudio, DiscardAudioWrite
<1>8. CASE CountChunk(c) \/ CountLastChunk(c) \/ ReadChunk(c) \/ SaveJob(c)
  BY <1>1, <1>8 DEF CountChunk, CountLastChunk, ReadChunk, SaveJob, DecrWrite, SaveJobWrite
<1> QED
  BY <1>2, <1>3, <1>4, <1>5, <1>6, <1>7, <1>8 DEF ConsumerStep

\* Nobody deletes audio that is still to be loaded.
LEMMA AudioKept ==
  ASSUME TypeInv, PlaceInv, AudioInv, [Next]_vars
  PROVE  AudioInv'
<1> USE DEF AudioInv
<1>1. TypeInv /\ queue \in Seq(Chunk)
  BY DEF TypeInv, TypeOK, RedisTypeOK
<1>2. ASSUME NEW j \in Job, ApiStep(j) \/ ApiFails(j)
      PROVE  AudioInv'
  <2>1. /\ audio \subseteq audio'
        /\ \A i \in Job : i # j => UNCHANGED <<api[i], cursor[i]>>
        /\ api'[j] = "push" => NextChunk(j)' \in audio'
        /\ queue' = queue \/ (api[j] = "push" /\ queue' = Append(queue, NextChunk(j)))
        /\ UNCHANGED <<pc, cur>>
    BY <1>1, <1>2, ApiAudio
  <2>2. \A i \in Job : i # j => NextChunk(i)' = NextChunk(i)
    BY <2>1 DEF NextChunk
  <2>3. \A k \in 1 .. Len(queue') : queue'[k] \in audio'
    BY <1>1, <2>1
  <2> QED
    BY <2>1, <2>2, <2>3
<1>3. ASSUME NEW c \in Consumer, ConsumerStep(c) \/ CommandRaises(c)
      PROVE  AudioInv'
  <2>1. UNCHANGED <<api, cursor>>
    BY <1>1, <1>3, ConsumerAudio
  <2>2. \A j \in Job : NextChunk(j)' = NextChunk(j)
    BY <2>1 DEF NextChunk
  <2>3. \A d \in Consumer : d # c => UNCHANGED <<pc[d], cur[d]>>
    BY <1>1, <1>3, OthersStay
  <2>4. CASE audio' = audio /\ queue' = queue
               /\ (pc'[c] \in BeforeDiscard => pc[c] \in BeforeDiscard /\ cur'[c] = cur[c])
    BY <2>1, <2>2, <2>3, <2>4
  <2>5. CASE audio' = audio /\ queue # <<>> /\ queue' = Tail(queue) /\ cur'[c] = Head(queue)
    <3>1. Head(queue) \in audio /\ \A k \in 1 .. Len(queue') : queue'[k] \in audio'
      BY <1>1, <2>5
    <3> QED
      BY <2>1, <2>2, <2>3, <2>5, <3>1
  <2>6. CASE audio' = audio \ {cur[c]} /\ queue' = queue /\ pc[c] = "discard"
               /\ pc'[c] \notin BeforeDiscard
    <3>1. cur[c] # NoChunk
      BY <1>1, <2>6 DEF TypeInv, ConsumerInv
    <3> QED
      BY <2>1, <2>2, <2>3, <2>6, <3>1, OwnedByOne
  <2> QED
    BY <1>1, <1>3, <2>4, <2>5, <2>6, ConsumerAudio
<1>4. ASSUME NEW p \in Process, ProcessMove(p)
      PROVE  AudioInv'
  <2>1. /\ UNCHANGED <<api, cursor, audio>>
        /\ \/ queue' = queue
           \/ queue # <<>> /\ queue' = Tail(queue)
    BY <1>4, Zenon DEF ProcessMove, apiVars
  <2>2. \A k \in 1 .. Len(queue') : queue'[k] \in audio'
    <3>1. CASE queue # <<>> /\ queue' = Tail(queue)
      BY <1>1, <2>1, <3>1
    <3> QED
      BY <2>1, <3>1
  <2>3. \A j \in Job : NextChunk(j)' = NextChunk(j)
    BY <2>1 DEF NextChunk
  <2>4. ASSUME NEW c \in Consumer, pc'[c] \in BeforeDiscard
        PROVE  cur'[c] \in audio'
    BY <1>1, <1>4, <2>1, <2>4, ProcessLeaves DEF BeforeDiscard, Executing
  <2> QED
    BY <2>1, <2>2, <2>3, <2>4
<1>5. CASE UNCHANGED vars
  BY <1>5 DEF vars, NextChunk
<1> QED
  BY <1>2, <1>3, <1>4, <1>5, ProcessMoves, RedisAsyncAssumption DEF Next

-----------------------------------------------------------------------------
(***************************************************************************)
(* The records                                                             *)
(***************************************************************************)

Saving == {"start", "saveDone", "saveFallback", "saveFailed"}

\* A chunk's record is written by add_chunks, or by the consumer that has the chunk.
LEMMA ChunkWrites ==
  ASSUME TypeInv, [Next]_vars, NEW ch \in Chunk
  PROVE  \/ chunks'[ch] = chunks[ch]
         \/ chunks'[ch] = NewChunk
         \/ \E c \in Consumer : pc[c] \in Saving /\ cur[c] = ch /\ chunks'[ch] = rec[c]
<1>1. RedisTypeOK /\ ApiTypeOK /\ ConsumerTypeOK /\ ConsumerInv
  BY DEF TypeInv, TypeOK
<1>2. ASSUME NEW j \in Job, ApiMove(j)
      PROVE  chunks'[ch] = chunks[ch] \/ chunks'[ch] = NewChunk
  BY <1>1, <1>2 DEF ApiMove, ApiWrite, CreateWrite, AddChunksWrite, SavePreparedWrite,
     SetRemainingWrite, ParkAudioWrite, PushWrite, RedisTypeOK
<1>3. ASSUME NEW c \in Consumer, ConsumerStep(c) \/ CommandRaises(c)
      PROVE  \/ chunks'[ch] = chunks[ch]
             \/ pc[c] \in Saving /\ cur[c] = ch /\ chunks'[ch] = rec[c]
  <2>1. UNCHANGED chunks \/ (pc[c] \in Saving /\ SaveChunkWrite(c))
    BY <1>3 DEF Saving, ConsumerStep, CommandRaises, PendingWrite, Pop, PopTimesOut,
       TurnIdle, FetchChunk,
       LoadAudio, PlanRaises, SaveStarted, PrimaryReturns, PrimaryRaises, FallbackReturns,
       FallbackRaises, SaveResult, DiscardAudio, CountChunk, CountLastChunk, ReadChunk, SaveJob,
       DiscardAudioWrite, DecrWrite, SaveJobWrite, redisVars
  <2> QED
    BY <1>1, <2>1 DEF SaveChunkWrite, RedisTypeOK
<1>4. ASSUME NEW p \in Process, ProcessMove(p)
      PROVE  UNCHANGED chunks
  BY <1>4 DEF ProcessMove
<1>5. CASE UNCHANGED vars
  BY <1>5 DEF vars
<1> QED
  BY <1>1, <1>2, <1>3, <1>4, <1>5, ApiMoves, ProcessMoves, RedisAsyncAssumption DEF Next

\* A chunk stays with the same plan while its consumer keeps it.
LEMMA PlanStays ==
  ASSUME NEW c \in Consumer, cur'[c] = cur[c]
  PROVE  MyPlan(c)' = MyPlan(c)
  BY DEF MyPlan, JobPlan, JobOf

\* The record of a consumer that goes on executing.
LEMMA ExecutionKept ==
  ASSUME TypeInv, AudioInv, NEW c \in Consumer, pc[c] \in Executing => Execution(c),
         ConsumerStep(c) \/ CommandRaises(c), pc'[c] \in Executing
  PROVE  Execution(c)'
<1> USE DEF Goto, MarkFailed, BeginFallback, Executing
<1>1. ConsumerTypeOK /\ ConsumerInv
  BY DEF TypeInv, TypeOK
<1> USE DEF ConsumerTypeOK
<1>2. ASSUME cur'[c] = cur[c], heard'[c] = heard[c], pc[c] \in Executing,
             rec'[c].worker = rec[c].worker
      PROVE  /\ heard'[c] /\ rec'[c].worker \in Consumer
             /\ MyPlan(c)' = MyPlan(c) /\ Servable(MyPlan(c)')
  BY <1>2, PlanStays DEF Execution
<1>3. ASSUME UNCHANGED <<cur, heard>>, pc[c] \in {"primary", "saveDone"},
             HandlePrimaryFailure(c)
      PROVE  Execution(c)'
  <2>1. /\ pc'[c] \in {"fallback", "saveFailed"}
        /\ pc'[c] = "fallback" => rec'[c].backend = "local"
        /\ pc'[c] = "saveFailed" => rec'[c].status = "failed"
        /\ rec'[c].worker = rec[c].worker
    BY <1>1, <1>3 DEF HandlePrimaryFailure, ChunkRecord
  <2> QED
    BY <1>2, <1>3, <2>1 DEF Execution
<1>4. ASSUME UNCHANGED <<cur, heard>>, pc[c] \in {"fallback", "saveFallback"}, MarkFailed(c)
      PROVE  Execution(c)'
  <2>1. /\ pc'[c] = "saveFailed" /\ rec'[c].status = "failed"
        /\ rec'[c].worker = rec[c].worker
    BY <1>1, <1>4 DEF ChunkRecord
  <2> QED
    BY <1>2, <1>4, <2>1 DEF Execution
<1>5. CASE LoadAudio(c)
  <2>1. /\ pc'[c] = "start" /\ cur'[c] = cur[c] /\ Servable(MyPlan(c))
        /\ rec'[c].status = "processing" /\ rec'[c].worker = c
        /\ rec'[c].backend = MyPlan(c).backend
        /\ heard'[c] = (cur[c] \in audio)
    BY <1>1, <1>5 DEF LoadAudio, ChunkRecord
  <2>2. cur[c] \in audio
    BY <1>5 DEF LoadAudio, AudioInv, BeforeDiscard
  <2> QED
    BY <2>1, <2>2, PlanStays DEF Execution
<1>6. CASE SaveStarted(c)
  <2>1. pc[c] = "start" /\ pc'[c] = "primary" /\ UNCHANGED <<cur, heard, rec>>
    BY <1>1, <1>6 DEF SaveStarted, taskVars
  <2> QED
    BY <1>2, <2>1 DEF Execution
<1>7. CASE PrimaryReturns(c)
  <2>1. /\ pc[c] = "primary" /\ pc'[c] = "saveDone" /\ UNCHANGED <<cur, heard>>
        /\ rec'[c].worker = rec[c].worker /\ rec'[c].backend = rec[c].backend
        /\ rec'[c].text = Heard(c, MyPlan(c).backend)
    BY <1>1, <1>7 DEF PrimaryReturns, ChunkRecord
  <2> QED
    BY <1>2, <2>1 DEF Execution, Heard
<1>8. CASE PrimaryRaises(c)
  BY <1>3, <1>8 DEF PrimaryRaises
<1>9. CASE FallbackReturns(c)
  <2>1. /\ pc[c] = "fallback" /\ pc'[c] = "saveFallback" /\ UNCHANGED <<cur, heard>>
        /\ rec'[c].worker = rec[c].worker /\ rec'[c].backend = rec[c].backend
        /\ rec'[c].text = Heard(c, "local")
    BY <1>1, <1>9 DEF FallbackReturns, ChunkRecord
  <2> QED
    BY <1>2, <2>1 DEF Execution, Heard
<1>10. CASE FallbackRaises(c)
  BY <1>4, <1>10 DEF FallbackRaises
<1>11. CASE CommandRaises(c)
  <2>1. ~ Release(c)
    BY <1>1 DEF Release, AfterChunk
  <2> QED
    BY <1>3, <1>4, <1>11, <2>1 DEF CommandRaises, AfterRaise
<1>12. CASE Pop(c) \/ PopTimesOut(c) \/ TurnIdle(c) \/ FetchChunk(c) \/ PlanRaises(c)
  BY <1>1, <1>12 DEF Pop, PopTimesOut, TurnIdle, FetchChunk, PlanRaises, Release, AfterChunk
<1>13. CASE SaveResult(c) \/ DiscardAudio(c) \/ CountChunk(c) \/ CountLastChunk(c)
              \/ ReadChunk(c) \/ SaveJob(c)
  BY <1>1, <1>13 DEF SaveResult, DiscardAudio, CountChunk, CountLastChunk, ReadChunk, SaveJob,
     Release, AfterChunk
<1> QED
  BY <1>5, <1>6, <1>7, <1>8, <1>9, <1>10, <1>11, <1>12, <1>13 DEF ConsumerStep

\* Records are true, and so is what executing consumers are about to store.
LEMMA LineageKept ==
  ASSUME TypeInv, AudioInv, LineageInv, [Next]_vars
  PROVE  LineageInv'
<1>1. TypeInv
  OBVIOUS
<1>2. \A c \in Consumer : pc[c] \in Executing => Execution(c)
  BY DEF LineageInv, ExecutionInv
<1>3. ASSUME NEW ch \in Chunk
      PROVE  TrueRecord(chunks'[ch])
  <2>1. TrueRecord(chunks[ch]) /\ TrueRecord(NewChunk)
    BY DEF LineageInv, TrueRecord, NewChunk, Blank
  <2>2. ASSUME NEW c \in Consumer, pc[c] \in Saving, cur[c] = ch
        PROVE  TrueRecord(rec[c])
    <3>1. Execution(c) /\ cur[c] # NoChunk
      BY <1>2, <2>2, ChunkParts DEF Saving, Executing
    <3>2. MyPlan(c).backend \in Backend
      BY <1>1, <3>1, ServablePlan DEF Execution
    <3> QED
      BY <2>2, <3>1, <3>2 DEF Execution, Saving, TrueRecord, Backend
  <2> QED
    BY <1>1, <2>1, <2>2, ChunkWrites
<1>4. ASSUME NEW d \in Consumer, pc'[d] \in Executing
      PROVE  Execution(d)'
  <2>1. ASSUME UNCHANGED <<pc[d], cur[d], rec[d], heard[d]>>
        PROVE  Execution(d)'
    <3>1. MyPlan(d)' = MyPlan(d)
      BY <2>1, PlanStays
    <3> QED
      BY <1>2, <1>4, <2>1, <3>1 DEF Execution
  <2>2. ASSUME NEW j \in Job, ApiStep(j) \/ ApiFails(j)
        PROVE  Execution(d)'
    BY <1>1, <2>1, <2>2, ApiMoves DEF ApiMove, taskVars, TypeInv, TypeOK
  <2>3. ASSUME NEW c \in Consumer, ConsumerStep(c) \/ CommandRaises(c)
        PROVE  Execution(d)'
    BY <1>1, <1>2, <1>4, <2>1, <2>3, OthersStay, ExecutionKept
  <2>4. ASSUME NEW p \in Process, ProcessMove(p)
        PROVE  Execution(d)'
    BY <1>1, <1>4, <2>1, <2>4, ProcessLeaves DEF Executing
  <2>5. CASE UNCHANGED vars
    BY <2>1, <2>5 DEF vars
  <2> QED
    BY <2>2, <2>3, <2>4, <2>5, ProcessMoves, RedisAsyncAssumption DEF Next
<1> QED
  BY <1>3, <1>4 DEF LineageInv, ExecutionInv

-----------------------------------------------------------------------------
(***************************************************************************)
(* The strong tier                                                         *)
(***************************************************************************)

\* The plan of a strong chunk is not local, and has no fallback.
LEMMA MyStrongPlan ==
  ASSUME NEW c \in Consumer, Strong(cur[c])
  PROVE  MyPlan(c).backend # "local" /\ ~ MyPlan(c).allowLocalFallback
<1> DEFINE own == WorkerSettings[ProcessOf[c]]
<1>1. MyPlan(c) = Plan(own.token, own.fallbackToLocal, "strong", BackendOf[JobOf(cur[c])])
  BY DEF MyPlan, JobPlan, Strong
<1> QED
  BY <1>1, StrongPlan

\* A consumer's step does not bring the local backend into a strong chunk's record.
LEMMA StrongKeptByOwn ==
  ASSUME TypeInv, StrongInv, NEW c \in Consumer, ConsumerStep(c) \/ CommandRaises(c),
         cur'[c] # NoChunk, Strong(cur'[c])
  PROVE  StrongCopy(c)'
<1> USE DEF Goto, MarkFailed, BeginFallback, StrongCopy
<1>1. ConsumerTypeOK /\ ConsumerInv /\ RedisTypeOK
  BY DEF TypeInv, TypeOK
<1> USE DEF ConsumerTypeOK
<1>2. ASSUME cur'[c] = cur[c]
      PROVE  /\ cur[c] \in Chunk /\ Strong(cur[c])
             /\ pc[c] # "popped" => NotLocal(rec[c])
             /\ pc[c] \notin {"fallback", "saveFallback"}
             /\ MyPlan(c).backend # "local" /\ ~ MyPlan(c).allowLocalFallback
  BY <1>1, <1>2, MyStrongPlan DEF StrongInv
<1>3. ASSUME cur'[c] = cur[c], pc[c] # "popped",
             HandlePrimaryFailure(c) \/ MarkFailed(c)
      PROVE  StrongCopy(c)'
  <2>1. /\ pc'[c] = "saveFailed" /\ rec'[c].backend = rec[c].backend
        /\ rec'[c].text = rec[c].text
    BY <1>1, <1>2, <1>3 DEF HandlePrimaryFailure, ChunkRecord
  <2> QED
    BY <1>2, <1>3, <2>1 DEF NotLocal
<1>4. CASE Pop(c)
  BY <1>1, <1>4 DEF Pop
<1>5. CASE FetchChunk(c)
  <2>1. /\ pc'[c] = "fetched" /\ cur' = cur /\ rec'[c] = chunks[cur[c]]
    BY <1>1, <1>5 DEF FetchChunk
  <2> QED
    BY <1>2, <2>1 DEF StrongInv
<1>6. CASE LoadAudio(c)
  <2>1. /\ pc[c] = "fetched" /\ pc'[c] = "start" /\ cur' = cur
        /\ rec'[c].backend = MyPlan(c).backend
        /\ rec'[c].text = rec[c].text
    BY <1>1, <1>6 DEF LoadAudio, ChunkRecord
  <2> QED
    BY <1>2, <2>1 DEF NotLocal
<1>7. CASE PrimaryReturns(c)
  <2>1. /\ pc[c] = "primary" /\ pc'[c] = "saveDone" /\ cur' = cur
        /\ rec'[c].backend = rec[c].backend
        /\ rec'[c].text = Heard(c, MyPlan(c).backend)
    BY <1>1, <1>7 DEF PrimaryReturns, ChunkRecord
  <2> QED
    BY <1>2, <2>1 DEF NotLocal, Heard
<1>8. CASE PrimaryRaises(c) \/ FallbackRaises(c)
  BY <1>3, <1>8 DEF PrimaryRaises, FallbackRaises
<1>9. CASE FallbackReturns(c)
  BY <1>2, <1>9 DEF FallbackReturns
<1>10. CASE CommandRaises(c)
  <2>1. ~ Release(c)
    BY <1>1 DEF Release
  <2> QED
    BY <1>3, <1>10, <2>1 DEF CommandRaises, AfterRaise
<1>11. CASE SaveStarted(c) \/ SaveResult(c) \/ DiscardAudio(c) \/ CountLastChunk(c)
              \/ ReadChunk(c) \/ PopTimesOut(c) \/ TurnIdle(c)
  <2>1. cur' = cur /\ rec' = rec /\ pc'[c] \notin {"fallback", "saveFallback", "popped"}
          /\ pc[c] # "popped"
    BY <1>1, <1>11 DEF SaveStarted, SaveResult, DiscardAudio, CountLastChunk, ReadChunk,
       PopTimesOut, TurnIdle, AfterChunk, taskVars
  <2> QED
    BY <1>2, <2>1
<1>12. CASE PlanRaises(c) \/ CountChunk(c) \/ SaveJob(c)
  BY <1>1, <1>12 DEF PlanRaises, CountChunk, SaveJob, Release
<1> QED
  BY <1>4, <1>5, <1>6, <1>7, <1>8, <1>9, <1>10, <1>11, <1>12 DEF ConsumerStep

\* No record of a strong chunk ever names the local backend.
LEMMA StrongKept ==
  ASSUME TypeInv, StrongInv, [Next]_vars
  PROVE  StrongInv'
<1>1. TypeInv'
  BY TypesKept
<1>2. ASSUME NEW ch \in Chunk, Strong(ch)
      PROVE  NotLocal(chunks'[ch])
  <2>1. NotLocal(chunks[ch]) /\ NotLocal(NewChunk)
    BY <1>2 DEF StrongInv, NotLocal, NewChunk, Blank
  <2>2. \A c \in Consumer : pc[c] \in Saving /\ cur[c] = ch => NotLocal(rec[c])
    BY <1>2, ChunkParts DEF StrongInv, StrongCopy, Saving
  <2> QED
    BY <2>1, <2>2, ChunkWrites
<1>3. ASSUME NEW d \in Consumer, cur'[d] # NoChunk, Strong(cur'[d])
      PROVE  StrongCopy(d)'
  <2>1. ASSUME UNCHANGED <<pc[d], cur[d], rec[d]>>
        PROVE  StrongCopy(d)'
    BY <1>3, <2>1 DEF StrongInv, StrongCopy
  <2>2. ASSUME NEW j \in Job, ApiStep(j) \/ ApiFails(j)
        PROVE  UNCHANGED <<pc[d], cur[d], rec[d]>>
    BY <2>2, ApiMoves DEF ApiMove, taskVars, TypeInv, TypeOK
  <2>3. ASSUME NEW c \in Consumer, ConsumerStep(c) \/ CommandRaises(c)
        PROVE  StrongCopy(d)'
    BY <1>3, <2>1, <2>3, OthersStay, StrongKeptByOwn
  <2>4. ASSUME NEW p \in Process, ProcessMove(p)
        PROVE  UNCHANGED <<pc[d], cur[d], rec[d]>>
    BY <1>1, <1>3, <2>4, ProcessLeaves DEF TypeInv, ConsumerInv
  <2>5. CASE UNCHANGED vars
    BY <2>1, <2>5 DEF vars
  <2> QED
    BY <2>1, <2>2, <2>3, <2>4, <2>5, ProcessMoves, RedisAsyncAssumption DEF Next
<1> QED
  BY <1>2, <1>3 DEF StrongInv

\* Together: no step falsifies a record.
LEMMA DataKept ==
  ASSUME TypeInv, PlaceInv, DataInv, [Next]_vars
  PROVE  DataInv'
  BY AudioKept, LineageKept, StrongKept DEF DataInv

-----------------------------------------------------------------------------
(***************************************************************************)
(* Where the chunks are                                                    *)
(***************************************************************************)

\* A step that is no fault changes the queue and the hands in four ways only: a handler
\* pushes its next chunk, a consumer takes the oldest, a consumer lets go of a chunk
\* that was counted or that its own settings cannot serve, or neither changes.
FaultlessMove ==
  \/ UNCHANGED <<queue, cur, cursor>>
  \/ \E j \in Job : PushWrite(j) /\ UNCHANGED cur
  \/ \E c \in Consumer :
       /\ pc[c] = "waiting" /\ queue # <<>> /\ queue' = Tail(queue)
       /\ cur' = [cur EXCEPT ![c] = Head(queue)] /\ UNCHANGED cursor
  \/ \E c \in Consumer :
       /\ cur[c] \in counted' \/ ~ Servable(MyPlan(c))
       /\ pc[c] \notin {"waiting", "idle", "exited"}
       /\ cur' = [cur EXCEPT ![c] = NoChunk] /\ UNCHANGED <<queue, cursor>>

\* Every step without a fault is one of these, and no count is forgotten.
LEMMA FaultlessMoves ==
  ASSUME IndInv, [Next]_vars, faults' = 0
  PROVE  faults = 0 /\ counted \subseteq counted' /\ FaultlessMove
<1>1. faults \in Nat /\ TypeInv
  BY InvariantParts, RedisAsyncAssumption DEF TypeInv, TypeOK
<1>2. ASSUME NEW j \in Job, ApiStep(j)
      PROVE  faults' = faults /\ UNCHANGED counted /\ FaultlessMove
  <2>1. CASE Push(j)
    BY <2>1 DEF Push, Handler, FaultlessMove, taskVars
  <2> QED
    BY <1>2, <2>1 DEF ApiStep, CreateJob, AddChunks, Reject, SavePrepared, SetRemaining,
       FinalizeEmptyRaises, ParkAudio, Handler, CreateWrite, AddChunksWrite, SavePreparedWrite,
       SetRemainingWrite, ParkAudioWrite, FaultlessMove, taskVars
<1>3. ASSUME NEW c \in Consumer, ConsumerStep(c)
      PROVE  faults' = faults /\ counted \subseteq counted' /\ FaultlessMove
  <2>1. CASE Pop(c)
    BY <2>1 DEF Pop, apiVars, FaultlessMove
  <2>2. CASE PlanRaises(c)
    BY <2>2 DEF PlanRaises, Release, redisVars, apiVars, FaultlessMove
  <2>3. CASE CountChunk(c)
    BY <2>3 DEF CountChunk, Release, DecrWrite, apiVars, FaultlessMove
  <2>4. CASE SaveJob(c)
    <3>1. cur[c] \in counted
      BY <2>4 DEF SaveJob, IndInv, OwnershipInv, ConsumerInv, Finalizing
    <3> QED
      BY <2>4, <3>1 DEF SaveJob, Release, SaveJobWrite, apiVars, FaultlessMove
  <2>5. CASE PopTimesOut(c) \/ TurnIdle(c) \/ FetchChunk(c) \/ LoadAudio(c)
          \/ SaveStarted(c)
    BY <2>5 DEF PopTimesOut, TurnIdle, FetchChunk, LoadAudio, SaveStarted,
       SaveChunkWrite, redisVars,
       apiVars, taskVars, FaultlessMove
  <2>6. CASE PrimaryReturns(c) \/ PrimaryRaises(c) \/ FallbackReturns(c) \/ FallbackRaises(c)
    BY <2>6 DEF PrimaryReturns, PrimaryRaises, FallbackReturns, FallbackRaises, redisVars,
       apiVars, FaultlessMove
  <2>7. CASE SaveResult(c) \/ DiscardAudio(c) \/ CountLastChunk(c) \/ ReadChunk(c)
    BY <2>7 DEF SaveResult, DiscardAudio, CountLastChunk, ReadChunk, SaveChunkWrite,
       DiscardAudioWrite, DecrWrite, redisVars, apiVars, taskVars, FaultlessMove
  <2> QED
    BY <1>3, <2>1, <2>2, <2>3, <2>4, <2>5, <2>6, <2>7 DEF ConsumerStep
<1>4. ASSUME NEW p \in Process, Stop(p) \/ Restart(p)
      PROVE  faults' = faults /\ UNCHANGED counted /\ FaultlessMove
  BY <1>4 DEF Stop, Restart, redisVars, apiVars, taskVars, FaultlessMove
<1>5. ASSUME \/ \E j \in Job : ApiFails(j)
             \/ \E c \in Consumer : CommandRaises(c) \/ DequeueRaises(c)
             \/ \E p \in Process : Crash(p)
      PROVE  faults' = faults + 1
  BY <1>5 DEF ApiFails, CommandRaises, DequeueRaises, Crash
<1>6. CASE UNCHANGED vars
  BY <1>6 DEF vars, FaultlessMove
<1> QED
  BY <1>1, <1>2, <1>3, <1>4, <1>5, <1>6 DEF Next

\* In each of them a pushed chunk stays somewhere.
LEMMA NoneLostKept ==
  ASSUME IndInv, NoChunkLost, [Next]_vars
  PROVE  NoChunkLost'
<1> SUFFICES ASSUME faults' = 0, NEW j \in Job, ServedByAll(j), NEW ch \in Pushed(j)'
             PROVE  (Queued(ch) \/ Held(ch) \/ ch \in counted)'
  BY DEF NoChunkLost, ServedByAll, JobPlan
<1>1. /\ queue \in Seq(Chunk) /\ cursor \in [Job -> Nat]
      /\ cur \in [Consumer -> Chunk \cup {NoChunk}]
      /\ ConsumerInv
  BY DEF IndInv, TypeOK, RedisTypeOK, ApiTypeOK, ConsumerTypeOK
<1>2. ch \in Chunk /\ JobOf(ch) = j /\ ch # NoChunk
  BY ChunksOfJob, ChunkParts DEF Pushed
<1>3. faults = 0 /\ counted \subseteq counted' /\ FaultlessMove
  BY FaultlessMoves
<1>4. ASSUME ch \in Pushed(j)
      PROVE  Queued(ch) \/ Held(ch) \/ ch \in counted
  BY <1>3, <1>4 DEF NoChunkLost
<1>5. CASE UNCHANGED <<queue, cur, cursor>>
  BY <1>3, <1>4, <1>5 DEF Pushed, Queued, Held
<1>6. ASSUME NEW i \in Job, PushWrite(i), UNCHANGED cur
      PROVE  (Queued(ch) \/ Held(ch) \/ ch \in counted)'
  <2>1. /\ queue' = Append(queue, NextChunk(i))
        /\ cursor' = [cursor EXCEPT ![i] = cursor[i] + 1]
    BY <1>6 DEF PushWrite
  <2>2. CASE ch \in Pushed(j)
    <3>1. Queued(ch) => Queued(ch)'
      BY <1>1, <2>1 DEF Queued
    <3>2. Held(ch) => Held(ch)'
      BY <1>6 DEF Held
    <3> QED
      BY <1>3, <1>4, <2>2, <3>1, <3>2
  <2>3. CASE ch \notin Pushed(j)
    <3>1. ch \in ChunksOf(j) /\ ch[2] < cursor'[j] /\ ~ (ch[2] < cursor[j])
      BY <2>3 DEF Pushed
    <3>2. i = j /\ ch[2] = cursor[j]
      BY <1>1, <2>1, <3>1, CountType DEF ChunksOf
    <3>3. ch = NextChunk(i)
      BY <1>2, <3>2, ChunkParts DEF NextChunk
    <3>4. queue'[Len(queue')] = ch /\ Len(queue') \in 1 .. Len(queue')
      BY <1>1, <2>1, <3>3
    <3> QED
      BY <3>4 DEF Queued
  <2> QED
    BY <2>2, <2>3
<1>7. ASSUME NEW c \in Consumer, pc[c] = "waiting", queue # <<>>, queue' = Tail(queue),
             cur' = [cur EXCEPT ![c] = Head(queue)], UNCHANGED cursor
      PROVE  (Queued(ch) \/ Held(ch) \/ ch \in counted)'
  <2>1. ch \in Pushed(j)
    BY <1>7 DEF Pushed
  <2>2. cur[c] = NoChunk
    BY <1>1, <1>7 DEF ConsumerInv
  <2>3. Held(ch) => Held(ch)'
    BY <1>1, <1>2, <1>7, <2>2 DEF Held
  <2>4. ASSUME NEW k \in 1 .. Len(queue), queue[k] = ch
        PROVE  Queued(ch)' \/ Held(ch)'
    <3>1. CASE k = 1
      BY <1>1, <1>7, <2>4, <3>1 DEF Held
    <3>2. CASE k # 1
      <4>1. k - 1 \in 1 .. Len(queue') /\ queue'[k - 1] = ch
        BY <1>1, <1>7, <2>4, <3>2
      <4> QED
        BY <4>1 DEF Queued
    <3> QED
      BY <3>1, <3>2
  <2> QED
    BY <1>3, <1>4, <2>1, <2>3, <2>4 DEF Queued
<1>8. ASSUME NEW c \in Consumer, cur[c] \in counted' \/ ~ Servable(MyPlan(c)),
             pc[c] \notin {"waiting", "idle", "exited"},
             cur' = [cur EXCEPT ![c] = NoChunk], UNCHANGED <<queue, cursor>>
      PROVE  (Queued(ch) \/ Held(ch) \/ ch \in counted)'
  <2>1. ch \in Pushed(j) /\ (Queued(ch) => Queued(ch)')
    BY <1>8 DEF Pushed, Queued
  <2>2. cur[c] = ch => ch \in counted'
    BY <1>2, <1>8, RedisAsyncAssumption DEF ServedByAll, MyPlan
  <2>3. Held(ch) => Held(ch)' \/ ch \in counted'
    BY <1>1, <1>8, <2>2 DEF Held
  <2> QED
    BY <1>3, <1>4, <2>1, <2>3
<1> QED
  BY <1>3, <1>5, <1>6, <1>7, <1>8 DEF FaultlessMove

-----------------------------------------------------------------------------
(***************************************************************************)
(* Theorems                                                                *)
(***************************************************************************)

\* The invariants hold before anything has been submitted.
LEMMA DataAtInit ==
  ASSUME Init
  PROVE  DataInv
<1>1. AudioInv
  BY DEF Init, AudioInv, BeforeDiscard, Executing
<1>2. LineageInv
  BY DEF Init, LineageInv, ExecutionInv, TrueRecord, Blank, Executing
<1>3. StrongInv
  BY DEF Init, StrongInv, NotLocal, Blank
<1> QED
  BY <1>1, <1>2, <1>3 DEF DataInv

\* They are inductive, together with IndInv.
THEOREM DataInductive == Spec => [](IndInv /\ DataInv)
<1>1. Init => IndInv /\ DataInv
  BY InvariantAtInit, DataAtInit
<1>2. IndInv /\ DataInv /\ [Next]_vars => (IndInv /\ DataInv)'
  BY InvariantKept, InvariantParts, OwnedIsPlaced, DataKept
<1> QED
  BY <1>1, <1>2, PTL DEF Spec

\* A done chunk was transcribed from its audio by the backend its record names, in
\* whatever order audio is parked, ids are pushed and popped, commands raise and
\* processes die: load_audio never meets a missing key.
THEOREM LineageAlwaysTrue == Spec => []LineageTrue
<1>1. DataInv => LineageTrue
  BY DEF DataInv, LineageInv, LineageTrue, TrueRecord
<1> QED
  BY <1>1, DataInductive, PTL

\* Whatever tokens and fallback setting the API and each worker have, and whatever
\* raises, the local model never serves a strong job.
THEOREM StrongIsNeverLocal == Spec => []StrongNeverLocal
<1>1. DataInv => StrongNeverLocal
  BY DEF DataInv, StrongInv, StrongNeverLocal, Strong, NotLocal
<1> QED
  BY <1>1, DataInductive, PTL

\* Without faults, a chunk of a job every worker can serve is never lost between the
\* queue, a consumer and the count, however processes are stopped and started again.
THEOREM ChunksAreNeverLost == Spec => []NoChunkLost
<1>1. Init => IndInv /\ NoChunkLost
  <2>1. Init => NoChunkLost
    BY CountType DEF Init, NoChunkLost, Pushed, ChunksOf
  <2> QED
    BY <2>1, InvariantAtInit
<1>2. IndInv /\ NoChunkLost /\ [Next]_vars => (IndInv /\ NoChunkLost)'
  BY InvariantKept, NoneLostKept
<1> QED
  BY <1>1, <1>2, PTL DEF Spec

=============================================================================
