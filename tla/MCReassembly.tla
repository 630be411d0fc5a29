---------------------------- MODULE MCReassembly ----------------------------
(***************************************************************************)
(* Reassembly of all short chunk texts over three words, two of which are  *)
(* the same at a seam; of what was said, cut into windows by Chunking and  *)
(* heard word by word; and waveforms cut into windows, heard by no one.    *)
(***************************************************************************)
EXTENDS Reassembly, Chunking

CONSTANTS a, A, b, w1, w2, w3, w4, w5, w6

MCWord == {a, A, b, w1, w2, w3, w4, w5, w6}
MCNorm == [w \in MCWord |-> IF w = A THEN a ELSE w]

\* Any three texts of at most two words, heard from no one.
AnyTexts ==
  [spoken : {<<>>},
   texts : [1 .. 3 -> {<<>>} \cup UNION {[1 .. n -> {a, A, b}] : n \in 1 .. 2}]]

\* What the windows of `spoken' hear when those in `failed' fail.
Windows(spoken, step, overlap, failed) ==
  [k \in 1 .. NumChunks(Len(spoken), step) |->
     LET seg == Segments(Len(spoken), step, overlap)[k]
     IN IF k \in failed THEN <<>> ELSE SubSeq(spoken, seg.start + 1, seg.end)]

Heard(spoken, step, overlap, failed) ==
  [spoken |-> spoken, texts |-> Windows(spoken, step, overlap, failed)]

Said == <<w1, w2, w3, w4, w5, w6>>

\* A window is longer than the overlap it repeats.
Cuts == {cut \in (3 .. 6) \X (2 .. 3) \X (0 .. 2) : cut[3] < cut[2]}

DistinctWords ==
  UNION {{Heard(SubSeq(Said, 1, cut[1]), cut[2], cut[3], failed) :
            failed \in SUBSET (1 .. NumChunks(cut[1], cut[2]))} :
         cut \in Cuts}

\* Waveforms of up to five milliseconds, cut in every way into windows of up to
\* two; and the default windows of 20 s and 2 s about the end of the second one.
Waveforms ==
  [spoken : {<<>>}, texts : {<<>>},
   cut : {cut \in (0 .. 80) \X (1 .. 33) \X (0 .. 33) : cut[3] <= cut[2]}
         \cup (639990 .. 640010) \X {320000} \X {32000}]

AnyOrHeard == AnyTexts \cup DistinctWords \cup Waveforms

\* The windows hear "b b" and "b b a": one b is in the overlap, one is said again.
RepeatedWords ==
  {Heard(<<b, b, b, a>>, 2, overlap, {}) : overlap \in 0 .. 1} \cup
  {Heard(SubSeq(Said, 1, n), 2, 1, {}) : n \in 2 .. 6}

-----------------------------------------------------------------------------
Cut == Segments(recording.cut[1], recording.cut[2], recording.cut[3])
IsWaveform == "cut" \in DOMAIN recording

\* However a recording is cut, no sample is lost at a seam or at the end, none is
\* transcribed twice but the overlaps, and those are what the window before heard
\* (split_samples).
WindowsTile == IsWaveform => Tiled(Cut, recording.cut[1])

\* The spans of the lineage join to within a millisecond, although start, end and
\* overlap are rounded one by one (_samples_to_ms).
SpansJoin ==
  IsWaveform =>
    Joined([k \in 1 .. Len(Cut) |-> Span(Cut[k])], SamplesToMs(recording.cut[1]))

=============================================================================
