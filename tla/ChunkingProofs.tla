---------------------------- MODULE ChunkingProofs ----------------------------
(***************************************************************************)
(* Proofs about the windows and spans of Chunking, for recordings of any   *)
(* length, windows of any length and overlaps up to the window.            *)
(***************************************************************************)
EXTENDS Chunking, TLAPS

\* The greater and the smaller of two numbers.
LEMMA MaxOfTwo ==
  ASSUME NEW m \in Int, NEW n \in Int
  PROVE  Max({m, n}) = IF m >= n THEN m ELSE n
BY DEF Max

\* The smaller of two numbers.
LEMMA MinOfTwo ==
  ASSUME NEW m \in Int, NEW n \in Int
  PROVE  Min({m, n}) = IF m <= n THEN m ELSE n
BY DEF Min

\* The number of windows is the least that covers the recording.
LEMMA EnoughWindows ==
  ASSUME NEW total \in Nat, NEW step \in Nat \ {0}
  PROVE  /\ NumChunks(total, step) \in Nat
         /\ step * NumChunks(total, step) >= total
         /\ step * NumChunks(total, step) < total + step
<1> DEFINE x == total + step - 1
           q == x \div step
<1>1. x \in Nat /\ step \in Nat /\ step > 0
  OBVIOUS
<1>2. q \in Nat
  <2> HIDE DEF x
  <2> QED
    BY <1>1
<1>3. step * q <= x /\ x < step * (q + 1)
  <2> HIDE DEF x
  <2> QED
    BY <1>1
<1>4. step * (q + 1) = step * q + step
  BY <1>1, <1>2
<1> QED
  BY <1>1, <1>2, <1>3, <1>4 DEF NumChunks

\* A window's core begins at a multiple of the step inside the recording, and ends
\* at the next one or with the recording.
LEMMA Cores ==
  ASSUME NEW total \in Nat, NEW step \in Nat \ {0}, NEW overlap \in 0 .. step,
         NEW k \in Nat, k < NumChunks(total, step)
  PROVE  LET seg == Segment(k, total, step, overlap)
         IN /\ seg.start \in Nat /\ seg.end \in Nat /\ seg.overlap \in Nat
            /\ seg.start = (IF step * k >= overlap THEN step * k - overlap ELSE 0)
            /\ seg.start + seg.overlap = step * k
            /\ seg.end = (IF step * k + step <= total THEN step * k + step ELSE total)
            /\ step * k < total
<1> DEFINE n == NumChunks(total, step)
<1>1. n \in Nat /\ step * n < total + step
  BY EnoughWindows
<1>2. step * k \in Nat /\ k * step = step * k
  OBVIOUS
<1>3. step * (k + 1) <= step * n
  <2> HIDE DEF n
  <2>1. n - (k + 1) \in Nat
    BY <1>1 DEF n
  <2>2. step * (n - (k + 1)) \in Nat
    BY <2>1
  <2>3. step * (n - (k + 1)) = step * n - step * (k + 1)
    BY <1>1
  <2> QED
    BY <1>1, <2>2, <2>3
<1>4. step * (k + 1) = step * k + step
  OBVIOUS
<1>5. step * k < total
  <2> HIDE DEF n
  <2>1. step * n \in Nat
    BY <1>1
  <2> QED
    BY <1>1, <1>2, <1>3, <1>4, <2>1
<1> DEFINE c == step * k
<1>6. Max({0, c - overlap}) = IF c >= overlap THEN c - overlap ELSE 0
  <2> HIDE DEF c
  <2>1. c \in Int /\ c - overlap \in Int
    BY <1>2 DEF c
  <2> QED
    BY <2>1, MaxOfTwo
<1>7. Min({c + step, total}) = IF c + step <= total THEN c + step ELSE total
  <2> HIDE DEF c
  <2>1. c + step \in Int
    BY <1>2 DEF c
  <2> QED
    BY <2>1, MinOfTwo
<1>8. Segment(k, total, step, overlap) =
        [start |-> Max({0, c - overlap}), end |-> Min({c + step, total}),
         overlap |-> c - Max({0, c - overlap})]
  BY <1>2 DEF Segment
<1> HIDE DEF c
<1> QED
  BY <1>2, <1>5, <1>6, <1>7, <1>8 DEF c

\* Whatever its length, a recording is cut into windows whose cores follow each
\* other without a gap, from its first sample to its last (split_samples).
THEOREM WindowsCoverAll ==
  ASSUME NEW total \in Nat, NEW step \in Nat \ {0}, NEW overlap \in 0 .. step
  PROVE  Tiled(Segments(total, step, overlap), total)
<1> DEFINE n == NumChunks(total, step)
           S == Segments(total, step, overlap)
<1>1. /\ n \in Nat
      /\ step * n >= total
      /\ step * n < total + step
  BY EnoughWindows
<1>2. S = [k \in 1 .. n |-> Segment(k - 1, total, step, overlap)] /\ Len(S) = n
  BY <1>1 DEF Segments
<1>3. ASSUME NEW k \in 1 .. n
      PROVE  /\ S[k].start \in Nat /\ S[k].end \in Nat /\ S[k].overlap \in Nat
             /\ S[k].start = (IF step * (k - 1) >= overlap THEN step * (k - 1) - overlap ELSE 0)
             /\ S[k].start + S[k].overlap = step * (k - 1)
             /\ S[k].end = (IF step * (k - 1) + step <= total THEN step * (k - 1) + step ELSE total)
             /\ step * (k - 1) < total
  <2>1. S[k] = Segment(k - 1, total, step, overlap) /\ k - 1 \in Nat /\ k - 1 < n
    BY <1>1, <1>2
  <2> HIDE DEF S
  <2> QED
    BY <2>1, Cores
<1> HIDE DEF S, n
<1>4. (n = 0) = (total = 0)
  <2>1. CASE n = 0
    BY <1>1, <2>1
  <2>2. CASE n > 0
    <3>1. 1 \in 1 .. n
      BY <1>1, <2>2
    <3> QED
      BY <1>3, <2>2, <3>1
  <2> QED
    BY <1>1, <2>1, <2>2
<1>5. ASSUME n > 0
      PROVE  S[1].start + S[1].overlap = 0 /\ S[n].end = total
  <2>1. 1 \in 1 .. n /\ n \in 1 .. n
    BY <1>1, <1>5
  <2>2. step * (1 - 1) = 0
    OBVIOUS
  <2>3. step * (n - 1) + step = step * n
    BY <1>1
  <2> QED
    BY <1>1, <1>3, <2>1, <2>2, <2>3
<1>6. ASSUME NEW k \in 1 .. n
      PROVE  S[k].start + S[k].overlap < S[k].end
  <2>1. step * (k - 1) \in Nat
    BY <1>1
  <2> QED
    BY <1>3, <2>1
<1>7. ASSUME NEW k \in 2 .. n
      PROVE  /\ S[k].start + S[k].overlap = S[k - 1].end
             /\ S[k].start >= S[k - 1].start
  <2>1. k \in 1 .. n /\ k - 1 \in 1 .. n /\ k - 2 \in Nat
    BY <1>1
  <2>2. step * (k - 1) = step * (k - 1 - 1) + step /\ step * (k - 1 - 1) \in Nat
    BY <2>1
  <2> QED
    BY <1>3, <2>1, <2>2
<1> QED
  BY <1>2, <1>4, <1>5, <1>6, <1>7 DEF Tiled, S

-----------------------------------------------------------------------------
(* Spans *)

\* Rounding moves a position by at most half a millisecond.
LEMMA Rounded ==
  ASSUME NEW n \in Nat
  PROVE  /\ SamplesToMs(n) \in Nat
         /\ 16 * SamplesToMs(n) - n \in -8 .. 8
<1> DEFINE ms == n \div 16
           rest == n % 16
<1>1. /\ ms \in Nat
      /\ rest = n - 16 * ms
      /\ rest \in 0 .. 15
  OBVIOUS
<1>2. SamplesToMs(n) = IF 2 * rest > 16 \/ (2 * rest = 16 /\ ms % 2 = 1)
                         THEN ms + 1 ELSE ms
  BY DEF SamplesToMs, SamplesPerMs
<1> HIDE DEF ms, rest
<1> QED
  BY <1>1, <1>2

\* So three rounded numbers are a millisecond off their sum at most.
LEMMA RoundedSum ==
  ASSUME NEW s \in Nat, NEW o \in Nat, NEW a \in Nat, NEW b \in Nat, NEW c \in Nat,
         16 * a - s \in -8 .. 8, 16 * b - o \in -8 .. 8, 16 * c - (s + o) \in -8 .. 8
  PROVE  a + b - c \in -1 .. 1
OBVIOUS

\* Whatever the length of a recording, the spans of its windows join to within a
\* millisecond, although start, end and overlap are rounded one by one, and the
\* last one ends with the recording (_samples_to_ms).
THEOREM SpansAlwaysJoin ==
  ASSUME NEW total \in Nat, NEW step \in Nat \ {0}, NEW overlap \in 0 .. step
  PROVE  LET cut == Segments(total, step, overlap)
         IN Joined([k \in 1 .. Len(cut) |-> Span(cut[k])], SamplesToMs(total))
<1> DEFINE S == Segments(total, step, overlap)
           spans == [k \in 1 .. Len(S) |-> Span(S[k])]
<1>1. Len(S) \in Nat /\ Len(S) = NumChunks(total, step)
  BY EnoughWindows DEF Segments
<1>2. ASSUME NEW k \in 1 .. Len(S)
      PROVE  S[k].start \in Nat /\ S[k].end \in Nat /\ S[k].overlap \in Nat
  <2>1. /\ S[k] = Segment(k - 1, total, step, overlap)
        /\ k - 1 \in Nat /\ k - 1 < NumChunks(total, step)
    <3> HIDE DEF S
    <3>1. S = [l \in 1 .. NumChunks(total, step) |-> Segment(l - 1, total, step, overlap)]
      BY DEF S, Segments
    <3>2. k \in 1 .. NumChunks(total, step)
      BY <1>1
    <3> QED
      BY <1>1, <3>1, <3>2
  <2> DEFINE seg == Segment(k - 1, total, step, overlap)
  <2>2. seg.start \in Nat /\ seg.end \in Nat /\ seg.overlap \in Nat
    BY <2>1, Cores
  <2> HIDE DEF S
  <2> QED
    BY <2>1, <2>2
<1>3. /\ Len(S) > 0 => S[1].start + S[1].overlap = 0 /\ S[Len(S)].end = total
      /\ \A k \in 2 .. Len(S) : S[k].start + S[k].overlap = S[k - 1].end
  <2>1. Tiled(S, total)
    BY WindowsCoverAll
  <2> HIDE DEF S
  <2> QED
    BY <1>1, <2>1 DEF Tiled
<1> HIDE DEF S
<1>4. ASSUME NEW k \in 1 .. Len(S)
      PROVE  /\ spans[k].start_ms = SamplesToMs(S[k].start)
             /\ spans[k].end_ms = SamplesToMs(S[k].end)
             /\ spans[k].overlap_ms = SamplesToMs(S[k].overlap)
  BY DEF Span
<1>5. Len(spans) = Len(S)
  BY <1>1
<1> HIDE DEF spans
<1>6. ASSUME Len(S) > 0
      PROVE  /\ spans[1].start_ms + spans[1].overlap_ms = 0
             /\ spans[Len(S)].end_ms = SamplesToMs(total)
  <2>1. 1 \in 1 .. Len(S) /\ Len(S) \in 1 .. Len(S)
    BY <1>1, <1>6
  <2>2. S[1].start = 0 /\ S[1].overlap = 0
    BY <1>2, <1>3, <1>6, <2>1
  <2>3. SamplesToMs(0) = 0
    BY Rounded
  <2>4. /\ spans[1].start_ms = SamplesToMs(S[1].start)
        /\ spans[1].overlap_ms = SamplesToMs(S[1].overlap)
        /\ spans[Len(S)].end_ms = SamplesToMs(S[Len(S)].end)
    BY <1>4, <2>1
  <2> QED
    BY <1>3, <1>6, <2>2, <2>3, <2>4
<1>7. ASSUME NEW k \in 2 .. Len(S)
      PROVE  spans[k].start_ms + spans[k].overlap_ms - spans[k - 1].end_ms \in -1 .. 1
  <2>1. k \in 1 .. Len(S) /\ k - 1 \in 1 .. Len(S)
    BY <1>1
  <2> DEFINE s == S[k].start
             o == S[k].overlap
             e == S[k - 1].end
  <2>2. s \in Nat /\ o \in Nat /\ e \in Nat /\ s + o = e
    BY <1>2, <1>3, <2>1
  <2>3. /\ spans[k].start_ms = SamplesToMs(s)
        /\ spans[k].overlap_ms = SamplesToMs(o)
        /\ spans[k - 1].end_ms = SamplesToMs(e)
    BY <1>4, <2>1
  <2> HIDE DEF s, o, e
  <2>4. /\ SamplesToMs(s) \in Nat /\ 16 * SamplesToMs(s) - s \in -8 .. 8
        /\ SamplesToMs(o) \in Nat /\ 16 * SamplesToMs(o) - o \in -8 .. 8
        /\ SamplesToMs(e) \in Nat /\ 16 * SamplesToMs(e) - e \in -8 .. 8
    BY <2>2, Rounded
  <2>5. SamplesToMs(s) + SamplesToMs(o) - SamplesToMs(e) \in -1 .. 1
    BY <2>2, <2>4, RoundedSum
  <2> QED
    BY <2>3, <2>5
<1> QED
  BY <1>5, <1>6, <1>7 DEF Joined, S, spans

=============================================================================
