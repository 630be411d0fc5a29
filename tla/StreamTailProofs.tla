--------------------------- MODULE StreamTailProofs ---------------------------
(***************************************************************************)
(* Proofs about StreamTail, for any jobs, workers, settings and number of  *)
(* faults.                                                                 *)
(***************************************************************************)
EXTENDS StreamTail, RedisAsyncProofs

-----------------------------------------------------------------------------
(* What a viewer may rely on: a finished job stays as it is *)

\* Only the handlers move themselves and their cursors.
LEMMA HandlersMoveAlone ==
  ASSUME [Next]_vars
  PROVE  (\E i \in Job : ApiStep(i) \/ ApiFails(i)) \/ UNCHANGED apiVars
<1>1. ASSUME NEW c \in Consumer, ConsumerStep(c) \/ CommandRaises(c)
      PROVE  UNCHANGED apiVars
  BY <1>1 DEF ConsumerStep, Pop, PopTimesOut, TurnIdle, FetchChunk, LoadAudio,
     PlanRaises, SaveStarted,
              PrimaryReturns, PrimaryRaises, FallbackReturns, FallbackRaises, SaveResult,
              DiscardAudio, CountChunk, CountLastChunk, ReadChunk, SaveJob, CommandRaises
<1>2. ASSUME NEW p \in Process, ProcessMove(p)
      PROVE  UNCHANGED apiVars
  BY <1>2 DEF ProcessMove
<1>3. CASE UNCHANGED vars
  BY <1>3 DEF vars, apiVars
<1> QED
  BY <1>1, <1>2, <1>3, ProcessMoves, RedisAsyncAssumption DEF Next

\* The handler of a job whose id was returned is over, and it returned only after
\* it pushed a chunk.
LEMMA ReturnedStays ==
  ASSUME TypeInv, [Next]_vars, NEW j \in Job,
         api[j] = "returned" => ChunkCount[j] > 0
  PROVE  /\ api[j] = "returned" => api'[j] = "returned"
         /\ api'[j] = "returned" => ChunkCount[j] > 0
<1>1. CASE UNCHANGED apiVars
  BY <1>1 DEF apiVars
<1>2. ASSUME NEW i \in Job, i # j, ApiStep(i) \/ ApiFails(i)
      PROVE  api'[j] = api[j]
  BY <1>2, ApiMoves DEF ApiMove, TypeInv, TypeOK, ApiTypeOK
<1>3. ASSUME ApiStep(j) \/ ApiFails(j)
      PROVE  /\ api[j] # "returned"
             /\ api'[j] = "returned" => api[j] = "push"
  BY <1>3 DEF TypeInv, TypeOK, ApiTypeOK, ApiStep, ApiFails, CreateJob, AddChunks, Reject,
              SavePrepared, SetRemaining, FinalizeEmptyRaises, ParkAudio, Push, Handler
<1>4. api[j] = "push" => ChunkCount[j] > 0
  BY CountType DEF TypeInv, TypeOK, ApiTypeOK, HandlerInv
<1> QED
  BY <1>1, <1>2, <1>3, <1>4, HandlersMoveAlone

\* The record of a counted chunk does not change any more.
LEMMA CountedKept ==
  ASSUME IndInv, [Next]_vars
  PROVE  counted \subseteq counted' /\ \A ch \in counted : chunks'[ch] = chunks[ch]
<1> USE DEF IndInv, TypeInv
<1>1. ASSUME NEW j \in Job, ApiStep(j) \/ ApiFails(j)
      PROVE  counted' = counted /\ \A ch \in counted : chunks'[ch] = chunks[ch]
  <2>1. ApiMove(j)
    BY <1>1, ApiMoves DEF TypeOK
  <2>2. CASE api[j] = "created" /\ AddChunksWrite(j)
    <3>1. cursor[j] = 0
      BY <2>2 DEF HandlerInv
    <3> QED
      BY <2>1, <2>2, <3>1, Untouched, ChunksOfJob DEF AddChunksWrite, ApiMove, TypeOK, RedisTypeOK
  <2> QED
    BY <2>1, <2>2 DEF ApiMove, ApiWrite, CreateWrite, SavePreparedWrite, SetRemainingWrite,
                      ParkAudioWrite, PushWrite
<1>2. ASSUME NEW c \in Consumer, ConsumerStep(c) \/ CommandRaises(c)
      PROVE  counted \subseteq counted' /\ \A ch \in counted : chunks'[ch] = chunks[ch]
  <2>1. ConsumerMove(c)
    BY <1>2, ConsumerMoves DEF TypeOK
  <2>2. CASE SaveChunkWrite(c) /\ pc[c] \notin {"waiting", "idle", "exited", "list", "saveJob"}
    BY <2>2, SaveTouchesOwn DEF SaveChunkWrite
  <2>3. CASE UNCHANGED chunks /\ counted \subseteq counted'
    BY <2>3
  <2> QED
    BY <2>1, <2>2, <2>3 DEF ConsumerMove, Pop, PopTimesOut, TurnIdle, Work, SaveResult,
       DiscardAudio,
       CountLastChunk, ReadChunk, Drop, PendingWrite, DiscardAudioWrite, DecrWrite,
       SaveJobWrite, redisVars
<1>3. ASSUME NEW p \in Process, ProcessMove(p)
      PROVE  UNCHANGED <<chunks, counted>>
  BY <1>3 DEF ProcessMove
<1>4. CASE UNCHANGED vars
  BY <1>4 DEF vars
<1> QED
  BY <1>1, <1>2, <1>3, <1>4, ProcessMoves, RedisAsyncAssumption DEF Next

\* The job of a client that has its id is only written by a finaliser.
LEMMA ReturnedSavedByFinaliser ==
  ASSUME TypeInv, [Next]_vars, NEW j \in Job, api[j] = "returned"
  PROVE  jobs'[j] = jobs[j] \/ Finished(j)'
<1> USE DEF TypeInv, TypeOK
<1>1. ASSUME NEW i \in Job, ApiStep(i) \/ ApiFails(i)
      PROVE  jobs'[j] = jobs[j]
  <2>1. ApiMove(i)
    BY <1>1, ApiMoves
  <2> QED
    BY <2>1 DEF ApiMove, ApiWrite, CreateWrite, AddChunksWrite, SavePreparedWrite,
                SetRemainingWrite, ParkAudioWrite, PushWrite, RedisTypeOK
<1>2. ASSUME NEW c \in Consumer, ConsumerStep(c) \/ CommandRaises(c)
      PROVE  jobs'[j] = jobs[j] \/ Finished(j)'
  <2>1. ConsumerMove(c)
    BY <1>2, ConsumerMoves
  <2>2. CASE SaveJobWrite(c)
    BY <2>2 DEF SaveJobWrite, Finished, RedisTypeOK
  <2>3. CASE UNCHANGED jobs
    BY <2>3
  <2> QED
    BY <2>1, <2>2, <2>3 DEF ConsumerMove, Pop, PopTimesOut, TurnIdle, Work, SaveResult,
       DiscardAudio,
       CountLastChunk, ReadChunk, Drop, PendingWrite, DiscardAudioWrite, DecrWrite,
       SaveChunkWrite, redisVars
<1>3. ASSUME NEW p \in Process, ProcessMove(p)
      PROVE  UNCHANGED jobs
  BY <1>3 DEF ProcessMove
<1>4. CASE UNCHANGED vars
  BY <1>4 DEF vars
<1> QED
  BY <1>1, <1>2, <1>3, <1>4, ProcessMoves, RedisAsyncAssumption DEF Next

\* A finished job and its chunks stay as they are: whoever writes the job again
\* writes what is there.
LEMMA FinishedStays ==
  ASSUME IndInv, [Next]_vars, NEW j \in Job, api[j] = "returned", Finished(j)
  PROVE  /\ jobs'[j].status = jobs[j].status
         /\ jobs'[j].transcript = jobs[j].transcript
         /\ \A ch \in ChunksOf(j) : chunks'[ch] = chunks[ch]
<1>1. IndInv'
  BY InvariantKept
<1>2. FinishedOK(j) /\ FinishedOK(j)'
  BY <1>1, FinalParts DEF IndInv, FinalInv, FinishedOK
<1>3. \A ch \in ChunksOf(j) : chunks'[ch] = chunks[ch]
  BY <1>2, CountedKept DEF FinishedOK
<1>4. CASE jobs'[j] = jobs[j]
  BY <1>3, <1>4
<1>5. CASE Finished(j)'
  <2>1. /\ jobs[j].transcript = [k \in 1 .. ChunkCount[j] |-> chunks[<<j, k - 1>>].text]
        /\ jobs'[j].transcript = [k \in 1 .. ChunkCount[j] |-> chunks'[<<j, k - 1>>].text]
        /\ jobs[j].status = "failed" <=> \E ch \in ChunksOf(j) : chunks[ch].status = "failed"
        /\ jobs'[j].status = "failed" <=> \E ch \in ChunksOf(j) : chunks'[ch].status = "failed"
    BY <1>2, <1>5 DEF FinishedOK
  <2>2. \A k \in 1 .. ChunkCount[j] : chunks'[<<j, k - 1>>] = chunks[<<j, k - 1>>]
    BY <1>3, CountType DEF ChunksOf
  <2>3. jobs'[j].status = "failed" <=> jobs[j].status = "failed"
    BY <1>3, <2>1
  <2> QED
    BY <1>3, <1>5, <2>1, <2>2, <2>3 DEF Finished
<1> QED
  BY <1>4, <1>5, ReturnedSavedByFinaliser, InvariantParts

-----------------------------------------------------------------------------
(* What the tail makes of its rows *)

\* A finished job is the sum of its chunks' records, all of which are settled.
LEMMA FinishedJob ==
  ASSUME IndInv, NEW j \in Job, Finished(j)
  PROVE  /\ jobs[j].transcript = [k \in 1 .. ChunkCount[j] |-> chunks[<<j, k - 1>>].text]
         /\ \A k \in 1 .. ChunkCount[j] : SettledRow(chunks[<<j, k - 1>>])
<1>1. ChunksOf(j) \subseteq counted
  BY DEF IndInv, FinalInv
<1>2. \A k \in 1 .. ChunkCount[j] : <<j, k - 1>> \in ChunksOf(j)
  BY CountType DEF ChunksOf
<1> QED
  BY <1>1, <1>2 DEF IndInv, FinalInv, SettledInv, Settled, SettledRow

\* Of records that are all settled, all are counted and all are shown.
LEMMA AllSettled ==
  ASSUME NEW s \in Seq(ChunkRecord), \A k \in 1 .. Len(s) : SettledRow(s[k])
  PROVE  /\ Cardinality({k \in 1 .. Len(s) : SettledRow(s[k])}) = Len(s)
         /\ Assembled(s) = [k \in 1 .. Len(s) |-> s[k].text]
<1>1. Len(s) \in Nat
  OBVIOUS
<1>2. {k \in 1 .. Len(s) : SettledRow(s[k])} = 1 .. Len(s)
  OBVIOUS
<1>3. Cardinality(1 .. Len(s)) = Len(s)
  <2>1. \A n \in Nat : Cardinality(1 .. n) = n
    BY FS_Interval
  <2> QED
    BY <1>1, <2>1
<1>4. Max({n \in 0 .. Len(s) : \A k \in 1 .. n : SettledRow(s[k])}) = Len(s)
  <2> DEFINE S == {n \in 0 .. Len(s) : \A k \in 1 .. n : SettledRow(s[k])}
  <2>1. Len(s) \in S /\ \A n \in S : Len(s) >= n
    BY <1>1
  <2>2. \A m \in S : (\A n \in S : m >= n) => m = Len(s)
    BY <1>1, <2>1
  <2> HIDE DEF S
  <2>3. Max(S) = Len(s)
    BY <2>1, <2>2 DEF Max
  <2> QED
    BY <2>3 DEF S
<1>5. SubSeq(s, 1, Len(s)) = s
  BY <1>1
<1> QED
  BY <1>2, <1>3, <1>4, <1>5 DEF Assembled, Texts

\* Numbers up to n have a greatest one.
LEMMA MaxExists ==
  ASSUME NEW n \in Nat, NEW S \in SUBSET (0 .. n), S # {}
  PROVE  Max(S) \in S /\ \A k \in S : Max(S) >= k
<1> DEFINE T == {n - m : m \in S}
<1>1. T \subseteq Nat /\ T # {}
  <2>1. \A m \in S : n - m \in Nat
    OBVIOUS
  <2>2. PICK m \in S : TRUE
    OBVIOUS
  <2> QED
    BY <2>1, <2>2
<1>2. PICK x \in T : \A y \in T : ~ (<<y, x>> \in OpToRel(<, Nat))
  BY <1>1, NatLessThanWellFounded, WFMin
<1>3. \A y \in T : ~ (y < x)
  BY <1>1, <1>2 DEF OpToRel
<1>4. PICK m \in S : x = n - m
  BY <1>2
<1>5. ASSUME NEW k \in S
      PROVE  m >= k
  <2>1. k \in Int /\ m \in Int
    OBVIOUS
  <2>2. n - k \in T
    BY DEF T
  <2> HIDE DEF T
  <2> QED
    BY <1>3, <1>4, <2>1, <2>2
<1> QED
  BY <1>5 DEF Max

\* The rows of any turn have a transcript and a count.
LEMMA RowsTyped ==
  ASSUME NEW s \in Seq(ChunkRecord)
  PROVE  /\ Cardinality({k \in 1 .. Len(s) : SettledRow(s[k])}) \in Nat
         /\ Assembled(s) \in Seq(Text)
<1>1. Len(s) \in Nat
  OBVIOUS
<1>2. Cardinality({k \in 1 .. Len(s) : SettledRow(s[k])}) \in Nat
  <2>1. IsFiniteSet(1 .. Len(s))
    BY <1>1, FS_Interval
  <2> QED
    BY <2>1, FS_Subset, FS_CardinalityType
<1>3. Assembled(s) \in Seq(Text)
  <2> DEFINE S == {n \in 0 .. Len(s) : \A k \in 1 .. n : SettledRow(s[k])}
  <2>1. 0 \in S /\ S \subseteq 0 .. Len(s)
    BY <1>1
  <2>2. Max(S) \in 0 .. Len(s)
    <3> HIDE DEF S
    <3> QED
      BY <1>1, <2>1, MaxExists
  <2>3. SubSeq(s, 1, Max(S)) \in Seq(ChunkRecord)
    <3> HIDE DEF S
    <3> QED
      BY <2>2
  <2> QED
    BY <2>3, TextsOfRecords DEF Assembled, Texts
<1> QED
  BY <1>2, <1>3

-----------------------------------------------------------------------------
(* The steps *)

\* What ViewInv says of the viewer of one job.
ViewerOK(j) ==
  /\ at[j] = "ended" =>
       shown[j] = [transcript |-> jobs[j].transcript,
                   completed |-> ChunkCount[j],
                   status |-> jobs[j].status]
  /\ ViewPlaceOK(j)
  /\ ToldTrue(j)

\* ViewInv, job by job.
LEMMA ViewParts == ViewInv <=> ViewTypeOK /\ \A j \in Job : ViewerOK(j)
BY DEF ViewInv, ViewerOK, LastViewIsTheJob

\* The system goes on under its viewers' eyes.
LEMMA ViewKeptBySystem ==
  ASSUME IndInv, ViewInv, [Next]_vars, UNCHANGED viewVars
  PROVE  ViewInv'
<1> USE DEF viewVars
<1>1. ViewTypeOK'
  BY DEF ViewInv, ViewTypeOK
<1>2. ASSUME NEW j \in Job
      PROVE  ViewerOK(j)'
  <2>1. ViewerOK(j)
    BY ViewParts
  <2>2. ViewPlaceOK(j)'
    BY <2>1, ReturnedStays, InvariantParts DEF ViewerOK, ViewPlaceOK
  <2>3. CASE at[j] \in {"rows", "show", "ended"} /\ Over(j)
    <3>1. /\ told[j] = jobs[j].status
          /\ \A k \in 1 .. Len(rows[j]) : rows[j][k] = chunks[<<j, k - 1>>]
          /\ kind[j] = "card" => shown[j].transcript = jobs[j].transcript
      BY <2>1, <2>3 DEF ViewerOK, ToldTrue
    <3>2. Finished(j) /\ api[j] = "returned"
      BY <2>1, <2>3, <3>1 DEF ViewerOK, ViewPlaceOK, Over, Told, Finished
    <3>3. /\ jobs'[j].status = jobs[j].status
          /\ jobs'[j].transcript = jobs[j].transcript
          /\ \A ch \in ChunksOf(j) : chunks'[ch] = chunks[ch]
      BY <3>2, FinishedStays
    <3>4. \A k \in 1 .. Len(rows[j]) : k \in 1 .. ChunkCount[j]
      BY <2>1, CountType DEF ViewerOK, ViewPlaceOK, ViewInv, ViewTypeOK
    <3>5. \A k \in 1 .. Len(rows[j]) : chunks'[<<j, k - 1>>] = chunks[<<j, k - 1>>]
      BY <3>3, <3>4, CountType DEF ChunksOf
    <3> QED
      BY <2>1, <2>2, <3>1, <3>3, <3>5 DEF ViewerOK, ToldTrue, Over, Told
  <2>4. CASE ~ (at[j] \in {"rows", "show", "ended"} /\ Over(j))
    BY <2>1, <2>2, <2>4 DEF ViewerOK, ToldTrue, Over, Told
  <2> QED
    BY <2>3, <2>4
<1> QED
  BY <1>1, <1>2, ViewParts DEF ViewInv, ViewerOK, LastViewIsTheJob

\* What is read next is added at the end.
LEMMA OneMore ==
  ASSUME NEW S, NEW s \in Seq(S), NEW e \in S
  PROVE  \A k \in 1 .. Len(Append(s, e)) :
           \/ k \in 1 .. Len(s) /\ Append(s, e)[k] = s[k]
           \/ k = Len(s) + 1 /\ Append(s, e)[k] = e
OBVIOUS

\* What viewers show.
View == [transcript : Seq(Text), completed : Nat, status : Status]

\* What a card shows at its end.
CardEnds(i) ==
  shown'[i] = [transcript |-> jobs[i].transcript,
               completed |-> ChunkCount[i],
               status |-> jobs[i].status]

\* A card that was told the job is over shows it with any progress it is given.
LEMMA CardIsComplete ==
  ASSUME ViewTypeOK, NEW i \in Job, NEW completed \in Nat, CardProgress(i, completed),
         Over(i), told[i] = jobs[i].status,
         kind[i] = "card" => shown[i].transcript = jobs[i].transcript
  PROVE  CardEnds(i)
<1>1. shown[i] \in View
  BY DEF ViewTypeOK, View
<1>2. shown'[i] = [shown[i] EXCEPT !.completed = ChunkCount[i], !.status = told[i]]
  BY DEF CardProgress, Told, ViewTypeOK
<1>3. shown[i].transcript = jobs[i].transcript
  BY DEF CardProgress
<1> QED
  BY <1>1, <1>2, <1>3 DEF CardEnds, View

\* A viewer takes a step, in which the system stands still.
LEMMA ViewKeptByViewer ==
  ASSUME IndInv, ViewInv, NEW i \in Job, ViewStep(i), UNCHANGED vars
  PROVE  ViewInv'
<1> USE DEF ViewGoto
<1>1. /\ ViewTypeOK
      /\ UNCHANGED <<jobs, chunks, api>>
      /\ ChunkCount[i] \in Nat
  BY CountType DEF ViewInv, vars
<1>2. /\ jobs[i].status \in Status
      /\ jobs[i].transcript \in Seq(Text)
      /\ jobs \in [Job -> JobRecord]
      /\ chunks \in [Chunk -> ChunkRecord]
  BY DEF IndInv, TypeOK, RedisTypeOK, JobRecord
<1>3. ViewerOK(i)
  BY ViewParts
<1>4. ASSUME NEW j \in Job, j # i,
             UNCHANGED <<kind[j], at[j], told[j], rows[j], shown[j]>>
      PROVE  ViewerOK(j)'
  <2>1. ViewerOK(j)
    BY ViewParts
  <2> QED
    BY <1>1, <1>4, <2>1 DEF ViewerOK, ViewPlaceOK, ToldTrue, Over, Told
<1>5. CASE Open(i)
  <2>1. ViewTypeOK'
    BY <1>1, <1>5 DEF Open, ViewTypeOK, ViewPc
  <2>2. ViewerOK(i)'
    BY <1>1, <1>3, <1>5 DEF Open, ViewTypeOK, ViewPc, ViewerOK, ViewPlaceOK, ToldTrue
  <2>3. \A j \in Job : j # i => UNCHANGED <<kind[j], at[j], told[j], rows[j], shown[j]>>
    BY <1>1, <1>5 DEF Open, ViewTypeOK
  <2> QED
    BY <1>4, <2>1, <2>2, <2>3, ViewParts DEF ViewInv, ViewerOK, LastViewIsTheJob
<1>6. CASE ReadJob(i)
  <2>1. ViewTypeOK'
    <3>1. shown'[i] \in View /\ \A j \in Job : j # i => shown'[j] = shown[j]
      BY <1>1, <1>2, <1>6 DEF ReadJob, ViewTypeOK, View
    <3>2. shown' \in [Job -> View]
      BY <1>1, <1>6, <3>1 DEF ReadJob, ViewTypeOK, View
    <3> QED
      BY <1>1, <1>2, <1>6, <3>2 DEF ReadJob, ViewTypeOK, ViewPc, View
  <2>2. ViewerOK(i)'
    BY <1>1, <1>3, <1>6 DEF ReadJob, ViewTypeOK, ViewPc, ViewerOK, ViewPlaceOK, ToldTrue
  <2>3. \A j \in Job : j # i => UNCHANGED <<kind[j], at[j], told[j], rows[j], shown[j]>>
    BY <1>1, <1>6 DEF ReadJob, ViewTypeOK
  <2> QED
    BY <1>4, <2>1, <2>2, <2>3, ViewParts DEF ViewInv, ViewerOK, LastViewIsTheJob
<1>7. CASE ReadRow(i)
  <2>1. /\ Len(rows[i]) < ChunkCount[i] /\ Len(rows[i]) \in Nat
        /\ chunks[<<i, Len(rows[i])>>] \in ChunkRecord
    BY <1>1, <1>2, <1>3, <1>7, ChunkOfIndex DEF ReadRow, ViewerOK, ViewPlaceOK, ViewTypeOK
  <2>2. ViewTypeOK'
    BY <1>1, <1>7, <2>1 DEF ReadRow, ViewTypeOK, ViewPc
  <2>3. /\ rows'[i] = Append(rows[i], chunks[<<i, Len(rows[i])>>])
        /\ at[i] = "rows"
        /\ at'[i] = IF Len(rows[i]) + 1 = ChunkCount[i] THEN "show" ELSE "rows"
        /\ UNCHANGED <<kind, told, shown>>
    BY <1>1, <1>7 DEF ReadRow, ViewTypeOK
  <2>4. \A k \in 1 .. Len(rows'[i]) :
          \/ k \in 1 .. Len(rows[i]) /\ rows'[i][k] = rows[i][k]
          \/ k = Len(rows[i]) + 1 /\ rows'[i][k] = chunks[<<i, k - 1>>]
    <3>1. rows[i] \in Seq(ChunkRecord)
      BY <1>1 DEF ViewTypeOK
    <3> QED
      BY <2>1, <2>3, <3>1, OneMore
  <2>5. Len(rows'[i]) = Len(rows[i]) + 1
    BY <1>1, <2>1, <2>3 DEF ViewTypeOK
  <2>6. ViewerOK(i)'
    BY <1>1, <1>3, <2>1, <2>3, <2>4, <2>5 DEF ViewerOK, ViewPlaceOK, ToldTrue, Over, Told
  <2>7. \A j \in Job : j # i => UNCHANGED <<kind[j], at[j], told[j], rows[j], shown[j]>>
    BY <1>1, <1>7 DEF ReadRow, ViewTypeOK
  <2> QED
    BY <1>4, <2>2, <2>6, <2>7, ViewParts DEF ViewInv, ViewerOK, LastViewIsTheJob
<1>8. CASE Show(i)
  <2>1. /\ at[i] = "show" /\ at' = [at EXCEPT ![i] = NextTurn(i)]
        /\ UNCHANGED <<kind, told, rows>>
        /\ rows[i] \in Seq(ChunkRecord) /\ Len(rows[i]) = ChunkCount[i]
        /\ shown[i] \in View
    BY <1>1, <1>3, <1>8 DEF Show, ViewTypeOK, ViewerOK, ViewPlaceOK, View
  <2>2. Assembled(rows[i]) \in Seq(Text) /\ Completed(i) \in Nat
    BY <2>1, RowsTyped DEF Completed
  <2>3. /\ shown'[i] \in View
        /\ \A j \in Job : j # i => shown'[j] = shown[j]
        /\ shown' \in [Job -> View]
    <3>1. told[i] \in Status
      BY <1>1 DEF ViewTypeOK
    <3>2. CASE TailShows(i)
      BY <1>1, <2>2, <3>1, <3>2 DEF TailShows, View, ViewTypeOK, Told
    <3>3. CASE CardProgress(i, Completed(i))
      <4>1. shown'[i] = [shown[i] EXCEPT
              !.completed = IF Over(i) THEN ChunkCount[i] ELSE Completed(i),
              !.status = Told(i)]
        BY <1>1, <3>3 DEF CardProgress, ViewTypeOK
      <4>2. shown'[i] \in View
        BY <1>1, <2>1, <2>2, <3>1, <4>1 DEF View, Told
      <4> QED
        BY <1>1, <3>3, <4>2 DEF CardProgress, View, ViewTypeOK
    <3> QED
      BY <1>8, <3>2, <3>3 DEF Show
  <2>4. ASSUME Over(i)
        PROVE  shown'[i] = [transcript |-> jobs[i].transcript,
                            completed |-> ChunkCount[i],
                            status |-> jobs[i].status]
    <3>1. /\ told[i] = jobs[i].status
          /\ \A k \in 1 .. Len(rows[i]) : rows[i][k] = chunks[<<i, k - 1>>]
          /\ kind[i] = "card" => shown[i].transcript = jobs[i].transcript
      BY <1>3, <2>1, <2>4 DEF ViewerOK, ToldTrue
    <3>2. /\ jobs[i].transcript = [k \in 1 .. ChunkCount[i] |-> chunks[<<i, k - 1>>].text]
          /\ \A k \in 1 .. ChunkCount[i] : SettledRow(chunks[<<i, k - 1>>])
      BY <2>4, <3>1, FinishedJob DEF Over, Told, Finished
    <3>3. CASE TailShows(i)
      <4>1. \A k \in 1 .. Len(rows[i]) : SettledRow(rows[i][k])
        BY <2>1, <3>1, <3>2
      <4>2. /\ Completed(i) = ChunkCount[i]
            /\ Assembled(rows[i]) = [k \in 1 .. ChunkCount[i] |-> rows[i][k].text]
        BY <2>1, <4>1, AllSettled DEF Completed
      <4>3. Assembled(rows[i]) = jobs[i].transcript
        BY <2>1, <3>1, <3>2, <4>2
      <4> QED
        BY <1>1, <3>1, <3>3, <4>2, <4>3 DEF TailShows, ViewTypeOK, Told
    <3>4. CASE CardProgress(i, Completed(i))
      <4>1. CardEnds(i)
        BY <1>1, <2>1, <2>2, <2>4, <3>1, <3>4, CardIsComplete
      <4> QED
        BY <4>1 DEF CardEnds
    <3> QED
      BY <1>8, <3>3, <3>4 DEF Show
  <2>5. ViewTypeOK'
    BY <1>1, <2>1, <2>3 DEF ViewTypeOK, View, ViewPc, NextTurn
  <2>6. ViewerOK(i)'
    <3>1. at'[i] = IF Over(i) THEN "ended" ELSE "job"
      BY <1>1, <2>1 DEF ViewTypeOK, NextTurn
    <3>2. ViewPlaceOK(i)'
      BY <1>1, <1>3, <2>1, <3>1 DEF ViewerOK, ViewPlaceOK
    <3>3. CASE Over(i)
      <4>1. /\ told[i] = jobs[i].status
            /\ \A k \in 1 .. Len(rows[i]) : rows[i][k] = chunks[<<i, k - 1>>]
        BY <1>3, <2>1, <3>3 DEF ViewerOK, ToldTrue
      <4>2. shown'[i] = [transcript |-> jobs[i].transcript,
                         completed |-> ChunkCount[i],
                         status |-> jobs[i].status]
        BY <2>4, <3>3
      <4>3. /\ at'[i] = "ended" /\ Over(i)'
            /\ told'[i] = jobs'[i].status
            /\ \A k \in 1 .. Len(rows'[i]) : rows'[i][k] = chunks'[<<i, k - 1>>]
            /\ shown'[i].transcript = jobs'[i].transcript
            /\ shown'[i] = [transcript |-> jobs'[i].transcript,
                            completed |-> ChunkCount[i],
                            status |-> jobs'[i].status]
        BY <1>1, <2>1, <3>1, <3>3, <4>1, <4>2 DEF Over, Told
      <4> QED
        BY <3>2, <4>3 DEF ViewerOK, ToldTrue
    <3>4. CASE ~ Over(i)
      BY <1>1, <2>1, <3>1, <3>2, <3>4 DEF ViewerOK, ToldTrue, Over, Told
    <3> QED
      BY <3>3, <3>4
  <2>7. \A j \in Job : j # i => UNCHANGED <<kind[j], at[j], told[j], rows[j], shown[j]>>
    BY <1>1, <2>1, <2>3 DEF ViewTypeOK
  <2> QED
    BY <1>4, <2>5, <2>6, <2>7, ViewParts DEF ViewInv, ViewerOK, LastViewIsTheJob
<1> QED
  BY <1>5, <1>6, <1>7, <1>8 DEF ViewStep

\* A read raises: the tail breaks off, or the card goes on without its chunks.
LEMMA ViewKeptByRaise ==
  ASSUME IndInv, ViewInv, NEW i \in Job, ViewRaises(i), UNCHANGED <<jobs, chunks, api>>
  PROVE  ViewInv'
<1>1. /\ ViewTypeOK
      /\ ViewerOK(i)
      /\ ChunkCount[i] \in Nat
      /\ told[i] \in Status
      /\ shown[i] \in View
  BY CountType, ViewParts DEF ViewInv, ViewTypeOK, View
<1>2. ASSUME NEW j \in Job, j # i,
             UNCHANGED <<kind[j], at[j], told[j], rows[j], shown[j]>>
      PROVE  ViewerOK(j)'
  <2>1. ViewerOK(j)
    BY ViewParts
  <2> QED
    BY <1>2, <2>1 DEF ViewerOK, ViewPlaceOK, ToldTrue, Over, Told
<1>3. CASE at' = [at EXCEPT ![i] = "broken"] /\ UNCHANGED shown
  <2>1. ViewTypeOK'
    BY <1>1, <1>3 DEF ViewRaises, ViewTypeOK, ViewPc
  <2>2. ViewerOK(i)'
    BY <1>1, <1>3 DEF ViewRaises, ViewTypeOK, ViewPc, ViewerOK, ViewPlaceOK, ToldTrue
  <2>3. \A j \in Job : j # i => UNCHANGED <<kind[j], at[j], told[j], rows[j], shown[j]>>
    BY <1>1, <1>3 DEF ViewRaises, ViewTypeOK
  <2> QED
    BY <1>2, <2>1, <2>2, <2>3, ViewParts DEF ViewInv, ViewerOK, LastViewIsTheJob
<1>4. CASE at[i] = "rows" /\ CardProgress(i, 0) /\ at' = [at EXCEPT ![i] = NextTurn(i)]
  <2>1. UNCHANGED <<kind, told, rows>>
    BY DEF ViewRaises
  <2>2. shown' \in [Job -> View] /\ \A j \in Job : j # i => shown'[j] = shown[j]
    <3>1. shown'[i] = [shown[i] EXCEPT
            !.completed = IF Over(i) THEN ChunkCount[i] ELSE 0,
            !.status = Told(i)]
      BY <1>1, <1>4 DEF CardProgress, ViewTypeOK
    <3>2. shown'[i] \in View
      <4>1. (IF Over(i) THEN ChunkCount[i] ELSE 0) \in Nat /\ Told(i) \in Status
        BY <1>1 DEF Told
      <4> QED
        BY <1>1, <3>1, <4>1 DEF View
    <3> QED
      BY <1>1, <1>4, <3>2 DEF CardProgress, View, ViewTypeOK
  <2>3. ViewTypeOK'
    BY <1>1, <1>4, <2>1, <2>2 DEF ViewTypeOK, View, ViewPc, NextTurn
  <2>4. at'[i] = IF Over(i) THEN "ended" ELSE "job"
    BY <1>1, <1>4 DEF ViewTypeOK, NextTurn
  <2>5. ViewPlaceOK(i)'
    BY <1>1, <1>4, <2>1, <2>4 DEF ViewerOK, ViewPlaceOK
  <2>6. ViewerOK(i)'
    <3>1. CASE Over(i)
      <4>1. /\ told[i] = jobs[i].status
            /\ \A k \in 1 .. Len(rows[i]) : rows[i][k] = chunks[<<i, k - 1>>]
            /\ kind[i] = "card" => shown[i].transcript = jobs[i].transcript
        BY <1>1, <1>4, <3>1 DEF ViewerOK, ToldTrue
      <4>2. CardEnds(i)
        BY <1>1, <1>4, <3>1, <4>1, CardIsComplete
      <4>3. /\ at'[i] = "ended" /\ Over(i)'
            /\ told'[i] = jobs'[i].status
            /\ \A k \in 1 .. Len(rows'[i]) : rows'[i][k] = chunks'[<<i, k - 1>>]
            /\ shown'[i].transcript = jobs'[i].transcript
            /\ shown'[i] = [transcript |-> jobs'[i].transcript,
                            completed |-> ChunkCount[i],
                            status |-> jobs'[i].status]
        BY <2>1, <2>4, <3>1, <4>1, <4>2 DEF Over, Told, CardEnds
      <4> QED
        BY <2>5, <4>3 DEF ViewerOK, ToldTrue
    <3>2. CASE ~ Over(i)
      BY <2>1, <2>4, <2>5, <3>2 DEF ViewerOK, ToldTrue, Over, Told
    <3> QED
      BY <3>1, <3>2
  <2>7. \A j \in Job : j # i => UNCHANGED <<kind[j], at[j], told[j], rows[j], shown[j]>>
    BY <1>1, <1>4, <2>1, <2>2 DEF ViewTypeOK
  <2> QED
    BY <1>2, <2>3, <2>6, <2>7, ViewParts DEF ViewInv, ViewerOK, LastViewIsTheJob
<1> QED
  BY <1>3, <1>4 DEF ViewRaises

\* A fault of a viewer is none of the system's.
LEMMA InvariantIgnoresFaults ==
  ASSUME IndInv, faults < MaxFaults, faults' = faults + 1,
         UNCHANGED <<redisVars, apiVars, pc, taskVars, stop>>
  PROVE  IndInv'
<1> USE DEF redisVars, apiVars, taskVars
<1>1. TypeOK'
  BY RedisAsyncAssumption DEF IndInv, TypeOK, RedisTypeOK, ApiTypeOK, ConsumerTypeOK
<1>2. HandlerInv' /\ ConsumerInv'
  BY DEF IndInv, HandlerInv, ConsumerInv, Finalizing
<1>3. OwnershipInv' /\ CounterInv' /\ SettledInv'
  BY DEF IndInv, OwnershipInv, CounterInv, SettledInv, Pushed, Finalizing, Uncounted, Settled
<1>4. FinalInv'
  BY DEF IndInv, FinalInv, Finalizing, Finished
<1> QED
  BY <1>1, <1>2, <1>3, <1>4 DEF IndInv

-----------------------------------------------------------------------------
(* The theorems *)

\* ViewInv holds with IndInv in every state that viewers and workers reach
\* together, wherever a read falls between two writes of a worker.
THEOREM ViewInvariant == ViewSpec => [](IndInv /\ ViewInv)
<1>1. ViewInit => IndInv /\ ViewInv
  <2> SUFFICES ASSUME ViewInit PROVE IndInv /\ ViewInv
    OBVIOUS
  <2>1. Init /\ IndInv
    BY InvariantAtInit DEF ViewInit
  <2>2. ViewTypeOK
    BY DEF ViewInit, ViewTypeOK, ViewPc, Status
  <2>3. ASSUME NEW j \in Job
        PROVE  ViewerOK(j)
    BY <2>1, CountType DEF ViewInit, Init, ViewerOK, ViewPlaceOK, ToldTrue
  <2> QED
    BY <2>1, <2>2, <2>3, ViewParts
<1>2. IndInv /\ ViewInv /\ [ViewNext]_<<vars, viewVars>> => IndInv' /\ ViewInv'
  <2> SUFFICES ASSUME IndInv, ViewInv, [ViewNext]_<<vars, viewVars>>
               PROVE  IndInv' /\ ViewInv'
    OBVIOUS
  <2>1. CASE [Next]_vars /\ UNCHANGED viewVars
    BY <2>1, InvariantKept, ViewKeptBySystem
  <2>2. ASSUME NEW i \in Job, ViewStep(i), UNCHANGED vars
        PROVE  IndInv' /\ ViewInv'
    BY <2>2, InvariantKept, ViewKeptByViewer
  <2>3. ASSUME NEW i \in Job, ViewRaises(i), faults < MaxFaults, faults' = faults + 1,
               UNCHANGED <<redisVars, apiVars, pc, taskVars, stop>>
        PROVE  IndInv' /\ ViewInv'
    <3>1. UNCHANGED <<jobs, chunks, api>>
      BY <2>3 DEF redisVars, apiVars
    <3> QED
      BY <2>3, <3>1, InvariantIgnoresFaults, ViewKeptByRaise
  <2> QED
    BY <2>1, <2>2, <2>3 DEF ViewNext
<1> QED
  BY <1>1, <1>2, PTL DEF ViewSpec

\* A viewer that ended has shown the job as it is stored: its whole transcript,
\* every chunk counted and the status it ended with (stream_job's last event, a
\* card's last turn), although it read them at different moments.
THEOREM LastViewIsRight == ViewSpec => []LastViewIsTheJob
<1>1. ViewInv => LastViewIsTheJob
  BY DEF ViewInv
<1> QED
  BY <1>1, ViewInvariant, PTL


-----------------------------------------------------------------------------
(***************************************************************************)
(* Views only grow: what is settled stays, as long as nothing goes wrong   *)
(***************************************************************************)

\* The places of a consumer before its last save of a result
Unsaved == {"popped", "fetched", "start", "primary", "fallback",
            "saveDone", "saveFallback", "saveFailed"}

\* A record that is settled is one whose chunk was pushed and is through: no one still
\* has it to work on.  What is not finished has no transcript.
Fresh ==
  /\ \A ch \in Chunk : Settled(ch) => ch \in Pushed(JobOf(ch))
  /\ \A k \in 1 .. Len(queue) : ~ Settled(queue[k])
  /\ \A c \in Consumer :
       /\ pc[c] \in Unsaved => ~ Settled(cur[c])
       /\ pc[c] = "start" => rec[c].status = "processing"
  /\ \A j \in Job : Finished(j) \/ jobs[j].transcript = <<>>

\* That is so as long as nothing went wrong.
FreshInv == faults = 0 => Fresh

\* A step of a consumer that saves no record and takes no chunk
Quiet(c) ==
  /\ UNCHANGED <<chunks, queue, cursor>>
  /\ jobs' = jobs \/ SaveJobWrite(c)
  /\ \A d \in Consumer :
       /\ pc'[d] \in Unsaved => pc[d] \in Unsaved /\ cur'[d] = cur[d]
       /\ pc'[d] = "start" => \/ rec'[d].status = "processing"
                              \/ pc[d] = "start" /\ rec'[d] = rec[d]

\* Every other one saves a started chunk, saves a result or takes a chunk.
LEMMA QuietMoves ==
  ASSUME ConsumerTypeOK, NEW c \in Consumer, ConsumerStep(c)
  PROVE  SaveStarted(c) \/ SaveResult(c) \/ Pop(c) \/ Quiet(c)
<1> USE DEF ConsumerTypeOK, Quiet, Unsaved, Goto, redisVars, apiVars
<1>1. CASE PopTimesOut(c) \/ TurnIdle(c)
  BY <1>1 DEF PopTimesOut, TurnIdle, AfterChunk, taskVars
<1>2. CASE FetchChunk(c)
  BY <1>2 DEF FetchChunk
<1>3. CASE LoadAudio(c)
  <2>1. /\ rec[c] \in ChunkRecord
        /\ rec' = [rec EXCEPT ![c] = [rec[c] EXCEPT !.status = "processing", !.worker = c,
                                                    !.backend = MyPlan(c).backend]]
    BY <1>3 DEF LoadAudio
  <2>2. rec'[c].status = "processing" /\ \A d \in Consumer : d # c => rec'[d] = rec[d]
    BY <2>1 DEF ChunkRecord
  <2> QED
    BY <1>3, <2>2 DEF LoadAudio
<1>4. CASE PlanRaises(c)
  BY <1>4 DEF PlanRaises, Release, AfterChunk
<1>5. CASE PrimaryReturns(c)
  BY <1>5 DEF PrimaryReturns
<1>6. CASE PrimaryRaises(c)
  BY <1>6 DEF PrimaryRaises, HandlePrimaryFailure, BeginFallback, MarkFailed
<1>7. CASE FallbackReturns(c)
  BY <1>7 DEF FallbackReturns
<1>8. CASE FallbackRaises(c)
  BY <1>8 DEF FallbackRaises, MarkFailed
<1>9. CASE DiscardAudio(c)
  BY <1>9 DEF DiscardAudio, DiscardAudioWrite, taskVars
<1>10. CASE CountChunk(c)
  BY <1>10 DEF CountChunk, DecrWrite, Release, AfterChunk
<1>11. CASE CountLastChunk(c)
  BY <1>11 DEF CountLastChunk, DecrWrite, taskVars
<1>12. CASE ReadChunk(c)
  BY <1>12 DEF ReadChunk
<1>13. CASE SaveJob(c)
  <2>1. SaveJobWrite(c) /\ UNCHANGED <<chunks, queue, cursor>>
    BY <1>13 DEF SaveJob, SaveJobWrite
  <2>2. /\ pc' = [pc EXCEPT ![c] = AfterChunk(c)]
        /\ cur' = [cur EXCEPT ![c] = NoChunk] /\ rec' = [rec EXCEPT ![c] = Blank]
    BY <1>13 DEF SaveJob, Release
  <2>3. AfterChunk(c) \in {"waiting", "idle", "exited"}
    BY DEF AfterChunk
  <2> QED
    BY <2>1, <2>2, <2>3
<1> QED
  BY <1>1, <1>2, <1>3, <1>4, <1>5, <1>6, <1>7, <1>8, <1>9, <1>10, <1>11, <1>12, <1>13
     DEF ConsumerStep

\* What is settled stays.
SettledStay == \A ch \in Chunk : Settled(ch) => chunks'[ch] = chunks[ch]

\* A handler settles nothing and rewrites nothing that is settled.
LEMMA FreshKeptByHandler ==
  ASSUME IndInv, Fresh, NEW j \in Job, ApiStep(j)
  PROVE  Fresh' /\ SettledStay
<1>1. ApiMove(j) /\ TypeOK /\ HandlerInv /\ ConsumerInv
  BY ApiMoves DEF IndInv, TypeOK
<1>2. UNCHANGED <<pc, cur, rec>>
  BY <1>1 DEF ApiMove, taskVars
<1> USE DEF TypeOK, RedisTypeOK, ApiTypeOK
<1>3. CASE UNCHANGED <<chunks, queue, cursor>>
  <2>1. ASSUME NEW i \in Job
        PROVE  Finished(i)' \/ jobs'[i].transcript = <<>>
    <3>1. CASE \E st \in Status :
                 jobs' = [jobs EXCEPT ![j] = [status |-> st, transcript |-> <<>>]]
      BY <1>1, <3>1 DEF Fresh, Finished
    <3>2. CASE jobs' = jobs
      BY <3>2 DEF Fresh, Finished
    <3>3. ApiWrite(j)
      BY <1>1 DEF ApiMove
    <3> QED
      BY <3>1, <3>2, <3>3 DEF ApiWrite, CreateWrite, AddChunksWrite, SavePreparedWrite,
                              SetRemainingWrite, ParkAudioWrite, PushWrite, Status
  <2> QED
    BY <1>2, <1>3, <2>1 DEF Fresh, Settled, Pushed, SettledStay
<1>4. CASE api[j] = "created" /\ AddChunksWrite(j)
  <2>1. \A ch \in ChunksOf(j) : ~ Settled(ch)
    <3>1. cursor[j] = 0
      BY <1>1, <1>4 DEF HandlerInv
    <3> QED
      <4>1. ASSUME NEW ch \in ChunksOf(j)
            PROVE  ch \in Chunk /\ ch \notin Pushed(JobOf(ch))
        <5>1. ch \in Chunk /\ JobOf(ch) = j /\ ch[2] \in 0 .. ChunkCount[j] - 1
          BY ChunksOfJob, ChunkParts
        <5>2. ~ (ch[2] < cursor[j])
          BY <3>1, <5>1, CountType
        <5> QED
          BY <5>1, <5>2 DEF Pushed
      <4> QED
        BY <4>1 DEF Fresh
  <2>2. UNCHANGED <<jobs, queue, cursor>>
    BY <1>4 DEF AddChunksWrite
  <2>3. \A ch \in Chunk : /\ chunks'[ch] = chunks[ch] \/ ch \in ChunksOf(j)
                          /\ Settled(ch)' => Settled(ch)
    BY <1>4 DEF AddChunksWrite, Settled, NewChunk
  <2>4. \A c \in Consumer : pc[c] \in Unsaved => cur[c] \in Chunk
    BY <1>1 DEF ConsumerInv, ConsumerTypeOK, Unsaved
  <2>5. SettledStay
    BY <2>1, <2>3 DEF SettledStay
  <2>6. \A ch \in Chunk : Settled(ch)' => ch \in Pushed(JobOf(ch))'
    BY <2>2, <2>3 DEF Fresh, Pushed
  <2>7. \A k \in 1 .. Len(queue) : queue[k] \in Chunk
    BY <1>1
  <2>8. (\A k \in 1 .. Len(queue) : ~ Settled(queue[k]))'
    BY <2>2, <2>3, <2>7 DEF Fresh, Settled
  <2>9. (\A c \in Consumer : /\ pc[c] \in Unsaved => ~ Settled(cur[c])
                             /\ pc[c] = "start" => rec[c].status = "processing")'
    BY <1>2, <2>3, <2>4 DEF Fresh, Settled
  <2>10. (\A i \in Job : Finished(i) \/ jobs[i].transcript = <<>>)'
    BY <2>2 DEF Fresh, Finished
  <2> QED
    BY <2>5, <2>6, <2>8, <2>9, <2>10 DEF Fresh
<1>5. CASE api[j] = "push" /\ PushWrite(j)
  <2>1. NextChunk(j) \in Chunk /\ ~ Settled(NextChunk(j))
    <3>1. NextChunk(j) \in ChunksOf(j) /\ JobOf(NextChunk(j)) = j
      BY <1>1, <1>5, CountType DEF HandlerInv, NextChunk, ChunksOf, JobOf
    <3>2. NextChunk(j)[2] = cursor[j] /\ cursor[j] \in Nat
      BY <1>1 DEF NextChunk
    <3>3. NextChunk(j) \notin Pushed(j)
      BY <3>2 DEF Pushed
    <3> QED
      BY <3>1, <3>3, ChunksOfJob DEF Fresh
  <2>2. /\ queue' = Append(queue, NextChunk(j)) /\ UNCHANGED <<jobs, chunks>>
        /\ cursor' = [cursor EXCEPT ![j] = cursor[j] + 1]
    BY <1>5 DEF PushWrite
  <2>3. \A k \in 1 .. Len(queue') : queue'[k] = NextChunk(j) \/ (k \in 1 .. Len(queue) /\ queue'[k] = queue[k])
    BY <2>1, <2>2, OneMore
  <2>4. ASSUME NEW i \in Job
        PROVE  Pushed(i) \subseteq Pushed(i)'
    <3>1. \A ch \in ChunksOf(i) : ch[2] \in Nat
      BY ChunkParts, ChunksOfJob, CountType
    <3>2. cursor[i] \in Nat /\ cursor'[i] \in {cursor[i], cursor[i] + 1}
      BY <1>1, <2>2
    <3>3. \A ch \in ChunksOf(i) : ch[2] < cursor[i] => ch[2] < cursor'[i]
      BY <3>1, <3>2
    <3> QED
      BY <3>3 DEF Pushed
  <2>5. \A ch \in Chunk : JobOf(ch) \in Job
    BY ChunkParts
  <2> QED
    BY <1>2, <2>1, <2>2, <2>3, <2>4, <2>5 DEF Fresh, Settled, Finished, SettledStay
<1> QED
  BY <1>1, <1>3, <1>4, <1>5
     DEF ApiMove, ApiWrite, CreateWrite, SavePreparedWrite, SetRemainingWrite, ParkAudioWrite

\* A consumer settles the chunk it has, and no one else's.
LEMMA FreshKeptByConsumer ==
  ASSUME IndInv, Fresh, NEW c \in Consumer, ConsumerStep(c)
  PROVE  Fresh' /\ SettledStay
<1> USE DEF TypeOK, RedisTypeOK, ConsumerTypeOK
<1>1. TypeOK /\ ConsumerInv /\ OwnershipInv
  BY DEF IndInv
<1>2. CASE Quiet(c)
  <2>1. \A j \in Job : Finished(j)' \/ jobs'[j].transcript = <<>>
    <3>1. CASE jobs' = jobs
      BY <3>1 DEF Fresh, Finished
    <3>2. CASE SaveJobWrite(c)
      BY <1>1, <3>2 DEF SaveJobWrite, Fresh, Finished
    <3> QED
      BY <1>2, <3>1, <3>2 DEF Quiet
  <2>2. \A d \in Consumer : pc'[d] \in Unsaved => ~ Settled(cur[d]) /\ cur'[d] = cur[d]
    BY <1>2 DEF Quiet, Fresh
  <2>3. \A d \in Consumer : pc'[d] = "start" => rec'[d].status = "processing"
    BY <1>2 DEF Quiet, Fresh
  <2> QED
    BY <1>2, <2>1, <2>2, <2>3 DEF Quiet, Fresh, Settled, Pushed, SettledStay
<1>3. CASE Pop(c)
  <2>1. /\ UNCHANGED <<jobs, chunks, cursor, rec>> /\ queue # <<>> /\ queue' = Tail(queue)
        /\ cur' = [cur EXCEPT ![c] = Head(queue)] /\ pc' = [pc EXCEPT ![c] = "popped"]
    BY <1>3 DEF Pop, Goto, apiVars
  <2>2. ~ Settled(queue[1]) /\ Head(queue) = queue[1]
    BY <1>1, <2>1 DEF Fresh
  <2>3. \A k \in 1 .. Len(queue') : k + 1 \in 1 .. Len(queue) /\ queue'[k] = queue[k + 1]
    BY <1>1, <2>1
  <2>4. \A d \in Consumer : \/ cur'[d] = queue[1]
                            \/ cur'[d] = cur[d] /\ pc'[d] = pc[d]
    BY <1>1, <2>1, <2>2
  <2>5. \A d \in Consumer : pc'[d] = "start" => pc[d] = "start"
    BY <1>1, <2>1
  <2> QED
    BY <2>1, <2>2, <2>3, <2>4, <2>5 DEF Fresh, Settled, Finished, Pushed, SettledStay
<1>4. ASSUME SaveStarted(c) \/ SaveResult(c)
      PROVE  Fresh' /\ SettledStay
  <2>1. /\ pc[c] \in Unsaved
        /\ chunks' = [chunks EXCEPT ![cur[c]] = rec[c]]
        /\ UNCHANGED <<jobs, queue, cursor, cur, rec>>
        /\ \/ /\ pc[c] = "start" /\ pc' = [pc EXCEPT ![c] = "primary"]
              /\ rec[c].status = "processing"
           \/ pc' = [pc EXCEPT ![c] = "discard"]
    BY <1>4 DEF SaveStarted, SaveResult, SaveChunkWrite, Goto, apiVars, taskVars, Unsaved, Fresh
  <2>2. cur[c] \in Chunk /\ cur[c] # NoChunk /\ ~ Settled(cur[c])
    BY <1>1, <2>1 DEF ConsumerInv, Unsaved, Fresh
  <2>3. /\ cur[c] \in Pushed(JobOf(cur[c]))
        /\ \A k \in 1 .. Len(queue) : queue[k] # cur[c]
        /\ \A d \in Consumer : cur[d] = cur[c] => d = c
    BY <1>1, <2>2 DEF OwnershipInv
  <2>4. chunks'[cur[c]] = rec[c] /\ \A ch \in Chunk : ch # cur[c] => chunks'[ch] = chunks[ch]
    BY <1>1, <2>1, <2>2
  <2>5. SettledStay
    BY <2>2, <2>4 DEF SettledStay
  <2>6. \A ch \in Chunk : Settled(ch)' => ch \in Pushed(JobOf(ch))'
    BY <2>1, <2>3, <2>4 DEF Fresh, Settled, Pushed
  <2>7. (\A k \in 1 .. Len(queue) : ~ Settled(queue[k]))'
    <3>1. \A k \in 1 .. Len(queue) : queue[k] \in Chunk /\ queue[k] # cur[c]
      BY <1>1, <2>3
    <3> QED
      BY <2>1, <2>4, <3>1 DEF Fresh, Settled
  <2>8. ASSUME NEW d \in Consumer
        PROVE  (/\ pc[d] \in Unsaved => ~ Settled(cur[d])
                /\ pc[d] = "start" => rec[d].status = "processing")'
    <3>1. CASE d = c
      <4>1. \/ pc'[d] = "discard"
            \/ pc'[d] = "primary" /\ rec[c].status = "processing"
        BY <1>1, <2>1, <3>1
      <4> QED
        BY <2>1, <2>4, <3>1, <4>1 DEF Settled, Unsaved
    <3>2. CASE d # c
      <4>1. pc'[d] = pc[d] /\ cur[d] # cur[c]
        BY <1>1, <2>1, <2>3, <3>2
      <4>2. pc[d] \in Unsaved => cur[d] \in Chunk
        BY <1>1 DEF ConsumerInv, Unsaved
      <4> QED
        BY <2>1, <2>4, <4>1, <4>2 DEF Fresh, Settled
    <3> QED
      BY <3>1, <3>2
  <2>9. \A j \in Job : Finished(j)' \/ jobs'[j].transcript = <<>>
    BY <2>1 DEF Fresh, Finished
  <2> QED
    BY <2>5, <2>6, <2>7, <2>8, <2>9 DEF Fresh
<1> QED
  BY <1>1, <1>2, <1>3, <1>4, QuietMoves

\* As long as nothing goes wrong, what is settled stays.
LEMMA FreshKept ==
  ASSUME IndInv, FreshInv, [Next]_vars
  PROVE  /\ FreshInv'
         /\ faults' = 0 => faults = 0 /\ SettledStay
<1> USE DEF FreshInv, Fresh
<1>1. faults \in Nat
  BY RedisAsyncAssumption DEF IndInv, TypeOK
<1>2. ASSUME NEW j \in Job, ApiStep(j) \/ ApiFails(j)
      PROVE  FreshInv' /\ (faults' = 0 => faults = 0 /\ SettledStay)
  <2>1. CASE ApiFails(j)
    BY <1>1, <2>1 DEF ApiFails
  <2>2. CASE ApiStep(j)
    <3>1. faults' = faults
      BY <2>2 DEF ApiStep, CreateJob, AddChunks, Reject, SavePrepared, SetRemaining,
                  FinalizeEmptyRaises, ParkAudio, Push, Handler
    <3>2. faults = 0 => Fresh' /\ SettledStay
      BY <2>2, FreshKeptByHandler
    <3> QED
      BY <3>1, <3>2
  <2> QED
    BY <1>2, <2>1, <2>2
<1>3. ASSUME NEW c \in Consumer, ConsumerStep(c) \/ CommandRaises(c) \/ DequeueRaises(c)
      PROVE  FreshInv' /\ (faults' = 0 => faults = 0 /\ SettledStay)
  <2>1. CASE CommandRaises(c) \/ DequeueRaises(c)
    BY <1>1, <2>1 DEF CommandRaises, DequeueRaises
  <2>2. CASE ConsumerStep(c)
    <3>1. faults' = faults
      BY <2>2 DEF ConsumerStep, Pop, PopTimesOut, TurnIdle, FetchChunk, LoadAudio,
         PlanRaises, SaveStarted,
                  PrimaryReturns, PrimaryRaises, FallbackReturns, FallbackRaises, SaveResult,
                  DiscardAudio, CountChunk, CountLastChunk, ReadChunk, SaveJob
    <3>2. faults = 0 => Fresh' /\ SettledStay
      BY <2>2, FreshKeptByConsumer
    <3> QED
      BY <3>1, <3>2
  <2> QED
    BY <1>3, <2>1, <2>2
<1>4. ASSUME NEW p \in Process, Crash(p) \/ Stop(p) \/ Restart(p)
      PROVE  FreshInv' /\ (faults' = 0 => faults = 0 /\ SettledStay)
  <2>1. CASE Crash(p)
    BY <1>1, <2>1 DEF Crash
  <2>2. CASE Stop(p)
    BY <2>2 DEF Stop, redisVars, apiVars, taskVars, Settled, Finished, Pushed, SettledStay
  <2>3. CASE Restart(p)
    <3>1. \A c \in Consumer : pc'[c] = "waiting" \/ pc'[c] = pc[c]
      BY <2>3 DEF Restart
    <3> QED
      BY <2>3, <3>1 DEF Restart, redisVars, apiVars, taskVars, Settled, Finished, Pushed,
                        SettledStay, Unsaved
  <2> QED
    BY <1>4, <2>1, <2>2, <2>3
<1>5. CASE UNCHANGED vars
  BY <1>5 DEF vars, redisVars, apiVars, taskVars, Settled, Finished, Pushed, SettledStay
<1> QED
  BY <1>2, <1>3, <1>4, <1>5 DEF Next

-----------------------------------------------------------------------------
(***************************************************************************)
(* Views only grow: what a viewer has seen                                 *)
(***************************************************************************)

\* The record of the k-th chunk of job j, as it is stored
Stored(j, k) == chunks[<<j, k - 1>>]

\* The k-th chunk of j is settled, and so is its row if it has been read in this turn.
Noted(j, k) ==
  /\ SettledRow(Stored(j, k))
  /\ k <= Len(rows[j]) => SettledRow(rows[j][k])

\* Why a view only grows: what a tail shows are the texts of the first chunks, all of
\* them noted; a card shows the final transcript or none; and as many chunks are noted
\* as are counted.
GrowOK(j) ==
  at[j] \notin {"ended", "broken"} =>
    /\ \A k \in 1 .. Len(rows[j]) : SettledRow(rows[j][k]) => rows[j][k] = Stored(j, k)
    /\ at[j] = "closed" => shown[j].transcript = <<>>
    /\ kind[j] = "tail" =>
         /\ Len(shown[j].transcript) <= ChunkCount[j]
         /\ \A k \in 1 .. Len(shown[j].transcript) :
              Noted(j, k) /\ shown[j].transcript[k] = Stored(j, k).text
    /\ kind[j] # "tail" =>
         \/ shown[j].transcript = <<>>
         \/ at[j] # "closed" /\ Finished(j) /\ shown[j].transcript = jobs[j].transcript
    /\ \E S \in SUBSET (1 .. ChunkCount[j]) :
         Cardinality(S) = shown[j].completed /\ \A k \in S : Noted(j, k)


\* That is so as long as nothing went wrong.
GrowInv == faults = 0 => \A j \in Job : GrowOK(j)

\* The chunks and transcript of a viewer's job are those it was shown.
ViewGrows(j) ==
  /\ IsPrefix(shown[j].transcript, shown'[j].transcript)
  /\ shown[j].completed <= shown'[j].completed

\* Prefixes, element by element
LEMMA PrefixOf ==
  ASSUME NEW S, NEW s \in Seq(S), NEW t \in Seq(S), Len(s) <= Len(t),
         \A k \in 1 .. Len(s) : t[k] = s[k]
  PROVE  IsPrefix(s, t)
<1>1. PICK n \in Nat : n = Len(s) /\ n <= Len(t)
  OBVIOUS
<1>2. SubSeq(s, 1, n) = SubSeq(t, 1, n)
  BY <1>1
<1> QED
  BY <1>1, <1>2 DEF IsPrefix

\* What the tail assembles is as long as the first gap allows.
LEMMA AssembledIs ==
  ASSUME NEW s \in Seq(ChunkRecord)
  PROVE  \E m \in 0 .. Len(s) :
           /\ \A k \in 1 .. m : SettledRow(s[k])
           /\ \A n \in 0 .. Len(s) : (\A k \in 1 .. n : SettledRow(s[k])) => n <= m
           /\ Assembled(s) = [k \in 1 .. m |-> s[k].text]
<1> DEFINE S == {n \in 0 .. Len(s) : \A k \in 1 .. n : SettledRow(s[k])}
<1>1. Len(s) \in Nat
  OBVIOUS
<1>2. 0 \in S /\ S \subseteq 0 .. Len(s)
  BY <1>1
<1>3. Max(S) \in S /\ \A n \in S : Max(S) >= n
  <2> HIDE DEF S
  <2> QED
    BY <1>1, <1>2, MaxExists
<1>4. PICK m \in 0 .. Len(s) : m = Max(S)
  BY <1>3
<1>5. \A k \in 1 .. m : SettledRow(s[k])
  BY <1>3, <1>4
<1>6. \A n \in 0 .. Len(s) : (\A k \in 1 .. n : SettledRow(s[k])) => n <= m
  BY <1>3, <1>4
<1>7. Assembled(s) = [k \in 1 .. m |-> s[k].text]
  <2>1. Assembled(s) = Texts(SubSeq(s, 1, m))
    BY <1>4 DEF Assembled
  <2>2. PICK t \in Seq(ChunkRecord) : t = SubSeq(s, 1, m) /\ Len(t) = m /\ \A k \in 1 .. m : t[k] = s[k]
    <3>1. \A k \in 1 .. m : k \in 1 .. Len(s)
      BY <1>1
    <3>2. SubSeq(s, 1, m) = [k \in 1 .. m |-> s[k]]
      BY <1>1, <3>1
    <3>3. [k \in 1 .. m |-> s[k]] \in Seq(ChunkRecord)
      BY <1>1, <3>1
    <3>4. PICK t \in Seq(ChunkRecord) : t = [k \in 1 .. m |-> s[k]]
      BY <3>3
    <3>5. Len(t) = m /\ \A k \in 1 .. m : t[k] = s[k]
      BY <1>1, <3>4
    <3> QED
      BY <3>2, <3>4, <3>5
  <2> QED
    BY <2>1, <2>2 DEF Texts
<1> QED
  BY <1>5, <1>6, <1>7

\* At most all of a job's chunks are noted, and at most the settled rows of a full turn.
LEMMA NotedAreCounted ==
  ASSUME NEW n \in Nat, NEW S \in SUBSET (1 .. n), NEW T \in SUBSET (1 .. n), S \subseteq T
  PROVE  Cardinality(S) <= Cardinality(T) /\ Cardinality(S) <= n /\ Cardinality(S) \in Nat
<1>1. IsFiniteSet(1 .. n) /\ Cardinality(1 .. n) = n
  BY FS_Interval
<1>2. IsFiniteSet(T) /\ IsFiniteSet(S)
  BY <1>1, FS_Subset
<1>3. Cardinality(S) \in Nat /\ Cardinality(S) <= Cardinality(T) /\ Cardinality(S) <= Cardinality(1 .. n)
  BY <1>1, <1>2, FS_Subset, FS_CardinalityType
<1> QED
  BY <1>1, <1>3

\* The system goes on under its viewers' eyes, and shows them nothing.
LEMMA GrowKeptBySystem ==
  ASSUME IndInv, ViewInv, FreshInv, GrowInv, [Next]_vars, UNCHANGED viewVars
  PROVE  GrowInv' /\ \A j \in Job : ViewGrows(j)
<1> USE DEF viewVars
<1>1. \A j \in Job : ViewGrows(j)
  <2> SUFFICES ASSUME NEW j \in Job
               PROVE  ViewGrows(j)
    OBVIOUS
  <2>1. shown'[j] = shown[j] /\ shown[j].transcript \in Seq(Text) /\ shown[j].completed \in Nat
    BY DEF ViewInv, ViewTypeOK
  <2> QED
    BY <2>1, PrefixOf DEF ViewGrows
<1>2. SUFFICES ASSUME faults' = 0
               PROVE  \A j \in Job : GrowOK(j)'
  BY <1>1 DEF GrowInv
<1>3. faults = 0 /\ SettledStay
  BY <1>2, FreshKept
<1>4. ASSUME NEW j \in Job
      PROVE  GrowOK(j)'
  <2>1. GrowOK(j) /\ ViewPlaceOK(j) /\ ViewTypeOK
    BY <1>3 DEF GrowInv, ViewInv
  <2>2. \A k \in 1 .. ChunkCount[j] : SettledRow(Stored(j, k)) => Stored(j, k)' = Stored(j, k)
    <3>1. \A k \in 1 .. ChunkCount[j] : <<j, k - 1>> \in Chunk
      <4> SUFFICES ASSUME NEW k \in 1 .. ChunkCount[j]
                   PROVE  <<j, k - 1>> \in Chunk
        OBVIOUS
      <4>1. k - 1 \in 0 .. ChunkCount[j] - 1
        BY CountType
      <4> QED
        BY <4>1, ChunkOfIndex
    <3> QED
      BY <1>3, <3>1 DEF SettledStay, Settled, SettledRow, Stored
  <2>3. \A k \in 1 .. ChunkCount[j] : Noted(j, k) => Noted(j, k)'
    BY <2>2 DEF Noted
  <2>4. at[j] # "closed" /\ Finished(j) => Finished(j)' /\ jobs'[j].transcript = jobs[j].transcript
    BY <2>1, FinishedStays DEF ViewPlaceOK, Finished
  <2>5. ChunkCount[j] \in Nat /\ Len(rows[j]) \in Nat /\ Len(rows[j]) <= ChunkCount[j]
        /\ Len(shown[j].transcript) \in Nat
    BY <2>1, CountType DEF ViewPlaceOK, ViewTypeOK
  <2>6. CASE at[j] \in {"ended", "broken"}
    BY <2>6 DEF GrowOK
  <2>7. CASE at[j] \notin {"ended", "broken"}
    <3>1. \A k \in 1 .. Len(rows[j]) : SettledRow(rows[j][k]) => rows[j][k] = Stored(j, k)'
      BY <2>1, <2>2, <2>5, <2>7 DEF GrowOK
    <3>2. kind[j] = "tail" =>
            /\ Len(shown[j].transcript) <= ChunkCount[j]
            /\ \A k \in 1 .. Len(shown[j].transcript) :
                 Noted(j, k)' /\ shown[j].transcript[k] = Stored(j, k)'.text
      BY <2>1, <2>2, <2>3, <2>5, <2>7 DEF GrowOK, Noted
    <3>3. kind[j] # "tail" =>
            \/ shown[j].transcript = <<>>
            \/ at[j] # "closed" /\ Finished(j)' /\ shown[j].transcript = jobs'[j].transcript
      BY <2>1, <2>4, <2>7 DEF GrowOK
    <3>4. \E S \in SUBSET (1 .. ChunkCount[j]) :
            Cardinality(S) = shown[j].completed /\ \A k \in S : Noted(j, k)'
      BY <2>1, <2>3, <2>7 DEF GrowOK
    <3>5. at[j] = "closed" => shown[j].transcript = <<>>
      BY <2>1, <2>7 DEF GrowOK
    <3> QED
      BY <3>1, <3>2, <3>3, <3>4, <3>5 DEF GrowOK
  <2> QED
    BY <2>6, <2>7
<1> QED
  BY <1>4

\* The counts and texts of a turn's rows are those of noted chunks.
LEMMA RowsAreNoted ==
  ASSUME ViewTypeOK, NEW i \in Job, ViewPlaceOK(i), GrowOK(i), at[i] = "show"
  PROVE  LET T == {k \in 1 .. Len(rows[i]) : SettledRow(rows[i][k])}
         IN /\ Len(rows[i]) = ChunkCount[i] /\ ChunkCount[i] \in Nat
            /\ T \in SUBSET (1 .. ChunkCount[i])
            /\ \A k \in T : Noted(i, k) /\ rows[i][k] = Stored(i, k)
            /\ Completed(i) = Cardinality(T) /\ Completed(i) \in Nat
            /\ shown[i].completed <= Completed(i)
            /\ shown[i].completed <= ChunkCount[i]
<1> DEFINE T == {k \in 1 .. Len(rows[i]) : SettledRow(rows[i][k])}
<1>1. Len(rows[i]) = ChunkCount[i] /\ ChunkCount[i] \in Nat
  BY CountType DEF ViewPlaceOK
<1>2. T \in SUBSET (1 .. ChunkCount[i])
  BY <1>1
<1>3. \A k \in T : Noted(i, k) /\ rows[i][k] = Stored(i, k)
  BY DEF GrowOK, Noted
<1>4. PICK S \in SUBSET (1 .. ChunkCount[i]) :
        Cardinality(S) = shown[i].completed /\ \A k \in S : Noted(i, k)
  BY DEF GrowOK
<1>5. S \subseteq T
  BY <1>1, <1>4 DEF Noted
<1>6. Completed(i) = Cardinality(T)
  BY DEF Completed
<1> HIDE DEF T
<1>7. /\ Cardinality(S) <= Cardinality(T) /\ Cardinality(S) <= ChunkCount[i]
      /\ Cardinality(T) \in Nat
  BY <1>1, <1>2, <1>5, NotedAreCounted
<1> QED
  BY <1>1, <1>2, <1>3, <1>4, <1>6, <1>7 DEF T

\* A tail that shows its rows shows all that it showed before.
LEMMA TailGrows ==
  ASSUME ViewTypeOK, NEW i \in Job, ViewPlaceOK(i), GrowOK(i), at[i] = "show", kind[i] = "tail"
  PROVE  /\ IsPrefix(shown[i].transcript, Assembled(rows[i]))
         /\ Len(Assembled(rows[i])) <= ChunkCount[i]
         /\ \A k \in 1 .. Len(Assembled(rows[i])) :
              Noted(i, k) /\ Assembled(rows[i])[k] = Stored(i, k).text
<1>1. PICK s \in Seq(ChunkRecord), n \in Nat : s = rows[i] /\ n = ChunkCount[i] /\ Len(s) = n
  BY RowsAreNoted DEF ViewTypeOK
<1>2. \A k \in 1 .. n : SettledRow(s[k]) => Noted(i, k) /\ s[k] = Stored(i, k)
  BY <1>1, RowsAreNoted
<1>3. PICK m \in 0 .. n :
        /\ \A k \in 1 .. m : SettledRow(s[k])
        /\ \A x \in 0 .. n : (\A k \in 1 .. x : SettledRow(s[k])) => x <= m
        /\ Assembled(s) = [k \in 1 .. m |-> s[k].text]
  BY <1>1, AssembledIs
<1>4. PICK old \in Seq(Text), new \in Seq(Text), l \in Nat :
        /\ old = shown[i].transcript /\ new = Assembled(s) /\ l = Len(old)
  <2>1. Assembled(s) \in Seq(Text) /\ shown[i].transcript \in Seq(Text)
    BY <1>1, RowsTyped DEF ViewTypeOK
  <2>2. Len(shown[i].transcript) \in Nat
    BY <2>1
  <2> QED
    BY <2>1, <2>2
<1>5. Len(new) = m /\ \A k \in 1 .. m : new[k] = s[k].text
  BY <1>3, <1>4
<1>6. l <= n /\ \A k \in 1 .. l : Noted(i, k) /\ old[k] = Stored(i, k).text
  BY <1>1, <1>4 DEF GrowOK
<1>7. \A k \in 1 .. l : k \in 1 .. n /\ SettledRow(s[k])
  <2>1. \A k \in 1 .. l : k \in 1 .. n /\ k <= n
    BY <1>6
  <2>2. \A k \in 1 .. l : k <= Len(rows[i]) => SettledRow(rows[i][k])
    BY <1>6 DEF Noted
  <2> QED
    BY ONLY <1>1, <2>1, <2>2
<1>8. l <= m
  <2>1. l \in 0 .. n
    BY <1>6
  <2>2. \A k \in 1 .. l : SettledRow(s[k])
    BY <1>7
  <2> QED
    BY <1>3, <2>1, <2>2
<1>9. IsPrefix(old, new)
  <2>1. \A k \in 1 .. l : new[k] = old[k]
    BY <1>2, <1>5, <1>6, <1>7, <1>8
  <2> QED
    BY <1>4, <1>5, <1>8, <2>1, PrefixOf
<1>10. \A k \in 1 .. m : Noted(i, k) /\ new[k] = Stored(i, k).text
  BY <1>2, <1>3, <1>5
<1> QED
  BY <1>1, <1>4, <1>5, <1>9, <1>10

\* A viewer's step leaves the other viewers as they are.
LEMMA OthersStand ==
  ASSUME ViewTypeOK, NEW i \in Job, ViewStep(i), UNCHANGED vars, NEW j \in Job, j # i, GrowOK(j)
  PROVE  GrowOK(j)' /\ ViewGrows(j)
<1>1. UNCHANGED <<jobs, chunks>>
  BY DEF vars, redisVars
<1>2. kind'[j] = kind[j] /\ at'[j] = at[j] /\ rows'[j] = rows[j] /\ shown'[j] = shown[j]
  BY DEF ViewTypeOK, ViewStep, ViewGoto, Open, ReadJob, ReadRow, Show, TailShows, CardProgress
<1>3. GrowOK(j)'
  BY <1>1, <1>2 DEF GrowOK, Noted, Stored, Finished
<1>4. shown[j].transcript \in Seq(Text) /\ shown[j].completed \in Nat
  BY DEF ViewTypeOK
<1> QED
  BY <1>2, <1>3, <1>4, PrefixOf DEF ViewGrows

\* What a viewer is shown only grows, whatever the workers do between its reads.
LEMMA GrowKeptByViewer ==
  ASSUME IndInv, ViewInv, Fresh, NEW i \in Job, GrowOK(i), ViewStep(i), UNCHANGED vars
  PROVE  GrowOK(i)' /\ ViewGrows(i)
<1> USE DEF ViewGoto
<1>1. /\ ViewTypeOK /\ ViewPlaceOK(i) /\ UNCHANGED <<jobs, chunks>>
      /\ ChunkCount[i] \in Nat
  BY CountType DEF ViewInv, vars, redisVars
<1>2. \A k : Stored(i, k)' = Stored(i, k)
  BY <1>1 DEF Stored
<1>3. Finished(i)' <=> Finished(i)
  BY <1>1 DEF Finished
<1>4. PICK s \in Seq(ChunkRecord), old \in Seq(Text), completed \in Nat :
        s = rows[i] /\ old = shown[i].transcript /\ completed = shown[i].completed
  BY <1>1 DEF ViewTypeOK
<1>5. shown'[i] = shown[i] => ViewGrows(i)
  BY <1>4, PrefixOf DEF ViewGrows
<1>6. CASE Open(i)
  <2>1. /\ at[i] = "closed" /\ at'[i] = "job"
        /\ rows'[i] = rows[i] /\ shown'[i] = shown[i]
    BY <1>1, <1>6 DEF Open, ViewTypeOK
  <2>2. shown[i].transcript = <<>> /\ Len(<<>>) = 0
    BY <2>1 DEF GrowOK
  <2> QED
    BY <1>1, <1>2, <1>5, <2>1, <2>2 DEF GrowOK, Noted
<1>7. CASE ReadJob(i)
  <2>1. /\ at[i] = "job" /\ at'[i] = "rows" /\ kind'[i] = kind[i]
        /\ rows'[i] = <<>> /\ Len(<<>>) = 0
    BY <1>1, <1>7 DEF ReadJob, ViewTypeOK
  <2>2. \A k \in 1 .. ChunkCount[i] : Noted(i, k) => Noted(i, k)'
    BY <1>1, <1>2, <2>1 DEF Noted
  <2>3. PICK S \in SUBSET (1 .. ChunkCount[i]) :
          Cardinality(S) = shown[i].completed /\ \A k \in S : Noted(i, k)
    BY <2>1 DEF GrowOK
  <2>4. \A k \in S : Noted(i, k)'
    BY <2>2, <2>3
  <2>5. CASE kind[i] = "card"
    <3>1. /\ shown'[i].transcript = jobs[i].transcript
          /\ shown'[i].completed = shown[i].completed
      BY <1>1, <1>7, <2>5 DEF ReadJob, ViewTypeOK
    <3>2. jobs[i].transcript = <<>> \/ Finished(i)
      BY DEF Fresh
    <3>3. old = <<>> \/ old = jobs[i].transcript
      BY <1>4, <2>1, <2>5 DEF GrowOK
    <3>4. jobs[i].transcript \in Seq(Text)
      BY DEF IndInv, TypeOK, RedisTypeOK, JobRecord
    <3>5. IsPrefix(old, jobs[i].transcript)
      <4>1. CASE old = <<>>
        <5>1. Len(old) = 0 /\ Len(jobs[i].transcript) \in Nat
          BY <3>4, <4>1
        <5> QED
          BY <1>4, <3>4, <5>1, PrefixOf
      <4>2. CASE old = jobs[i].transcript
        BY <1>4, <4>2, PrefixOf
      <4> QED
        BY <3>3, <4>1, <4>2
    <3>6. ViewGrows(i)
      BY <1>4, <3>1, <3>5 DEF ViewGrows
    <3>7. GrowOK(i)'
      BY <1>1, <1>3, <2>1, <2>3, <2>4, <2>5, <3>1, <3>2 DEF GrowOK
    <3> QED
      BY <3>6, <3>7
  <2>6. CASE kind[i] # "card"
    <3>1. shown'[i] = shown[i]
      BY <1>7, <2>6 DEF ReadJob
    <3>2. kind[i] = "tail" => \A k \in 1 .. Len(old) : k \in 1 .. ChunkCount[i]
      BY <1>1, <1>4, <2>1 DEF GrowOK
    <3>3. GrowOK(i)'
      BY <1>1, <1>2, <1>3, <1>4, <2>1, <2>2, <2>3, <2>4, <3>1, <3>2 DEF GrowOK
    <3> QED
      BY <1>5, <3>1, <3>3
  <2> QED
    BY <2>5, <2>6
<1>8. CASE ReadRow(i)
  <2>1. /\ at[i] = "rows" /\ at'[i] \in {"rows", "show"} /\ kind'[i] = kind[i]
        /\ shown'[i] = shown[i] /\ rows'[i] = Append(s, Stored(i, Len(s) + 1))
    BY <1>1, <1>4, <1>8 DEF ReadRow, ViewTypeOK, Stored
  <2>2. PICK n \in Nat : n = Len(s) /\ n < ChunkCount[i]
    BY <1>1, <1>4, <2>1 DEF ViewPlaceOK
  <2>3. Stored(i, n + 1) \in ChunkRecord
    <3>1. n \in 0 .. ChunkCount[i] - 1
      BY <1>1, <2>2
    <3>2. <<i, n>> \in Chunk /\ (n + 1) - 1 = n
      BY <3>1, ChunkOfIndex
    <3> QED
      BY <3>2 DEF Stored, IndInv, TypeOK, RedisTypeOK
  <2>4. PICK t \in Seq(ChunkRecord) :
          /\ t = rows'[i] /\ Len(t) = n + 1 /\ t[n + 1] = Stored(i, n + 1)
          /\ \A k \in 1 .. n : t[k] = s[k]
    <3>1. PICK e \in ChunkRecord : e = Stored(i, n + 1)
      BY <2>3
    <3>2. rows'[i] = Append(s, e)
      BY <2>1, <2>2, <3>1
    <3>3. /\ Append(s, e) \in Seq(ChunkRecord) /\ Len(Append(s, e)) = n + 1
          /\ Append(s, e)[n + 1] = e /\ \A k \in 1 .. n : Append(s, e)[k] = s[k]
      BY <2>2
    <3> QED
      BY <3>1, <3>2, <3>3
  <2>5. \A k \in 1 .. n + 1 : SettledRow(t[k]) => t[k] = Stored(i, k)
    <3>1. \A k \in 1 .. n : SettledRow(s[k]) => s[k] = Stored(i, k)
      BY <1>4, <2>1, <2>2 DEF GrowOK
    <3>2. \A k \in 1 .. n + 1 : k \in 1 .. n \/ k = n + 1
      BY <2>2
    <3> QED
      BY <2>4, <3>1, <3>2
  <2>6. ASSUME NEW k \in 1 .. ChunkCount[i], Noted(i, k)
        PROVE  Noted(i, k)'
    <3>1. SettledRow(Stored(i, k)) /\ (k <= n => SettledRow(s[k]))
      BY <1>4, <2>2, <2>6 DEF Noted
    <3>2. k <= n + 1 => SettledRow(t[k])
      <4>1. k <= n + 1 => k \in 1 .. n \/ k = n + 1
        BY <1>1, <2>2
      <4> QED
        BY <2>2, <2>4, <3>1, <4>1
    <3> QED
      BY <1>2, <2>4, <3>1, <3>2 DEF Noted
  <2>7. PICK S \in SUBSET (1 .. ChunkCount[i]) :
          Cardinality(S) = shown[i].completed /\ \A k \in S : Noted(i, k)
    BY <2>1 DEF GrowOK
  <2>8. kind[i] = "tail" => \A k \in 1 .. Len(old) : k \in 1 .. ChunkCount[i]
    BY <1>1, <1>4, <2>1 DEF GrowOK
  <2>9. GrowOK(i)'
    <3>1. \A k \in 1 .. Len(rows'[i]) : SettledRow(rows'[i][k]) => rows'[i][k] = Stored(i, k)'
      BY <1>2, <2>4, <2>5
    <3>2. kind[i] = "tail" =>
            /\ Len(old) <= ChunkCount[i]
            /\ \A k \in 1 .. Len(old) : Noted(i, k)' /\ old[k] = Stored(i, k)'.text
      BY <1>2, <1>4, <2>1, <2>6, <2>8 DEF GrowOK
    <3>3. kind[i] # "tail" =>
            \/ old = <<>>
            \/ Finished(i)' /\ old = jobs'[i].transcript
      BY <1>1, <1>3, <1>4, <2>1 DEF GrowOK
    <3>4. \A k \in S : Noted(i, k)'
      BY <2>6, <2>7
    <3> QED
      BY <1>1, <1>4, <2>1, <2>7, <3>1, <3>2, <3>3, <3>4 DEF GrowOK
  <2> QED
    BY <1>5, <2>1, <2>9
<1>9. CASE Show(i)
  <2>1. /\ at[i] = "show" /\ at'[i] \in {"job", "ended"} /\ kind'[i] = kind[i]
        /\ rows'[i] = rows[i] /\ (at'[i] = "job" => ~ Over(i))
    BY <1>1, <1>9 DEF Show, NextTurn, ViewTypeOK
  <2> DEFINE T == {k \in 1 .. Len(rows[i]) : SettledRow(rows[i][k])}
  <2>2. /\ T \in SUBSET (1 .. ChunkCount[i]) /\ \A k \in T : Noted(i, k)
        /\ Completed(i) = Cardinality(T) /\ Completed(i) \in Nat
        /\ completed <= Completed(i) /\ completed <= ChunkCount[i]
    BY <1>1, <1>4, <2>1, RowsAreNoted
  <2> HIDE DEF T
  <2>3. \A k : Noted(i, k) => Noted(i, k)'
    BY <1>2, <2>1 DEF Noted
  <2>4. \A k \in 1 .. Len(rows[i]) : SettledRow(rows[i][k]) => rows[i][k] = Stored(i, k)
    BY <2>1 DEF GrowOK
  <2>5. CASE TailShows(i)
    <3>1. /\ kind[i] = "tail" /\ shown'[i].transcript = Assembled(rows[i])
          /\ shown'[i].completed = Completed(i)
      BY <1>1, <2>5 DEF TailShows, ViewTypeOK
    <3>2. /\ IsPrefix(old, Assembled(rows[i]))
          /\ Len(Assembled(rows[i])) <= ChunkCount[i]
          /\ \A k \in 1 .. Len(Assembled(rows[i])) :
               Noted(i, k) /\ Assembled(rows[i])[k] = Stored(i, k).text
      BY <1>1, <1>4, <2>1, <3>1, TailGrows
    <3>3. ViewGrows(i)
      BY <1>4, <2>2, <3>1, <3>2 DEF ViewGrows
    <3>4. \A k \in 1 .. Len(rows'[i]) : SettledRow(rows'[i][k]) => rows'[i][k] = Stored(i, k)'
      BY <1>2, <2>1, <2>4
    <3>5. PICK new : new = shown'[i].transcript /\ new = Assembled(rows[i])
      BY <3>1
    <3>6. /\ Len(new) <= ChunkCount[i]
          /\ \A k \in 1 .. Len(new) : Noted(i, k)' /\ new[k] = Stored(i, k)'.text
      BY <1>2, <2>3, <3>2, <3>5
    <3>7. \A k \in T : Noted(i, k)'
      BY <2>2, <2>3
    <3>8. T \in SUBSET (1 .. ChunkCount[i]) /\ Cardinality(T) = shown'[i].completed
      BY <2>2, <3>1
    <3>9. GrowOK(i)'
      BY <2>1, <3>1, <3>4, <3>5, <3>6, <3>7, <3>8 DEF GrowOK
    <3> QED
      BY <3>3, <3>9
  <2>6. CASE CardProgress(i, Completed(i))
    <3>1. /\ kind[i] = "card" /\ shown'[i].transcript = old
          /\ shown'[i].completed = IF Over(i) THEN ChunkCount[i] ELSE Completed(i)
      BY <1>1, <1>4, <2>6 DEF CardProgress, ViewTypeOK
    <3>2. ViewGrows(i)
      <4>1. IsPrefix(old, old)
        BY <1>4, PrefixOf
      <4> QED
        BY <1>4, <2>2, <3>1, <4>1 DEF ViewGrows
    <3>3. GrowOK(i)'
      <4>1. CASE at'[i] = "ended"
        BY <4>1 DEF GrowOK
      <4>2. CASE at'[i] = "job"
        <5>1. shown'[i].completed = Cardinality(T)
          BY <2>1, <2>2, <3>1, <4>2
        <5>2. old = <<>> \/ (Finished(i) /\ old = jobs[i].transcript)
          BY <1>4, <2>1, <3>1 DEF GrowOK
        <5> QED
          BY <1>1, <1>2, <1>3, <2>1, <2>2, <2>3, <2>4, <3>1, <4>2, <5>1, <5>2 DEF GrowOK
      <4> QED
        BY <2>1, <4>1, <4>2
    <3> QED
      BY <3>2, <3>3
  <2> QED
    BY <1>9, <2>5, <2>6 DEF Show
<1> QED
  BY <1>6, <1>7, <1>8, <1>9 DEF ViewStep

\* While nothing goes wrong, what the reader of a stream or a card has seen stays: the
\* transcript only grows at its end and the count never falls (core/reassembly.py,
\* "always grows front-to-back with no gaps").
THEOREM ViewsOnlyGrow == ViewSpec => ViewOnlyGrows
<1> DEFINE Inv == IndInv /\ ViewInv /\ FreshInv /\ GrowInv
<1>1. ViewInit => FreshInv /\ GrowInv
  <2> SUFFICES ASSUME ViewInit PROVE FreshInv /\ GrowInv
    OBVIOUS
  <2>1. IndInv
    BY InvariantAtInit DEF ViewInit
  <2>2. Fresh
    <3>1. /\ \A ch \in Chunk : ~ Settled(ch)
          /\ queue = <<>> /\ Len(<<>>) = 0
          /\ \A c \in Consumer : pc[c] = "waiting"
          /\ \A j \in Job : jobs[j].transcript = <<>>
      BY DEF ViewInit, Init, Settled, Blank
    <3> QED
      BY <3>1 DEF Fresh, Unsaved
  <2>3. ASSUME NEW j \in Job
        PROVE  GrowOK(j)
    <3>1. ChunkCount[j] \in Nat /\ {} \in SUBSET (1 .. ChunkCount[j]) /\ Cardinality({}) = 0
      BY CountType, FS_EmptySet
    <3>2. /\ rows[j] = <<>> /\ Len(<<>>) = 0 /\ kind[j] = "none"
          /\ shown[j].transcript = <<>> /\ shown[j].completed = 0
      BY DEF ViewInit
    <3> QED
      BY <3>1, <3>2 DEF GrowOK
  <2> QED
    BY <2>2, <2>3 DEF FreshInv, GrowInv
<1>2. IndInv /\ ViewInv /\ FreshInv /\ GrowInv /\ [ViewNext]_<<vars, viewVars>>
        => /\ FreshInv' /\ GrowInv'
           /\ faults' = 0 => \A j \in Job : ViewGrows(j)
  <2> SUFFICES ASSUME IndInv, ViewInv, FreshInv, GrowInv, [ViewNext]_<<vars, viewVars>>
               PROVE  /\ FreshInv' /\ GrowInv'
                      /\ faults' = 0 => \A j \in Job : ViewGrows(j)
    OBVIOUS
  <2>1. CASE [Next]_vars /\ UNCHANGED viewVars
    BY <2>1, FreshKept, GrowKeptBySystem
  <2>2. ASSUME NEW i \in Job, ViewStep(i), UNCHANGED vars
        PROVE  /\ FreshInv' /\ GrowInv'
               /\ faults' = 0 => \A j \in Job : ViewGrows(j)
    <3>1. FreshInv' /\ faults' = faults
      BY <2>2, FreshKept DEF vars
    <3>2. ASSUME faults = 0, NEW j \in Job
          PROVE  GrowOK(j)' /\ ViewGrows(j)
      <4>1. GrowOK(i) /\ GrowOK(j) /\ Fresh /\ ViewTypeOK
        BY <3>2 DEF GrowInv, FreshInv, ViewInv
      <4>2. CASE j = i
        BY <2>2, <4>1, <4>2, GrowKeptByViewer
      <4>3. CASE j # i
        BY <2>2, <4>1, <4>3, OthersStand
      <4> QED
        BY <4>2, <4>3
    <3> QED
      BY <3>1, <3>2 DEF GrowInv
  <2>3. CASE faults < MaxFaults /\ faults' = faults + 1
    <3>1. faults \in Nat
      BY RedisAsyncAssumption DEF IndInv, TypeOK
    <3>2. faults' # 0
      BY <2>3, <3>1
    <3> QED
      BY <3>2 DEF FreshInv, GrowInv
  <2> QED
    BY <2>1, <2>2, <2>3 DEF ViewNext
<1>3. (\A j \in Job : ViewGrows(j)) =>
        \A j \in Job : /\ IsPrefix(shown[j].transcript, shown'[j].transcript)
                       /\ shown[j].completed <= shown'[j].completed
  BY DEF ViewGrows
<1> QED
  BY <1>1, <1>2, <1>3, ViewInvariant, PTL DEF ViewSpec, ViewOnlyGrows

=============================================================================
