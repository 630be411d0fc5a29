------------------------------ MODULE Chunking ------------------------------
(***************************************************************************)
(* split_samples: the windows a waveform is cut into, and the spans in     *)
(* milliseconds that become the lineage of the chunks.  Positions are      *)
(* counted in samples; `step' and `overlap' are the window and the overlap *)
(* in samples, after int(seconds * SAMPLE_RATE), and overlap <= step.      *)
(***************************************************************************)
EXTENDS Integers, Sequences, FiniteSetsExt

\* Variant: the rest that does not fill a window is dropped.
NumChunksFloor(total, step) == total \div step

NumChunks(total, step) == (total + step - 1) \div step

\* Window k: its core [k * step, (k + 1) * step) and up to `overlap' samples of
\* the one before it; audio [start, end), `overlap' of which precede the core.
Segment(k, total, step, overlap) ==
  LET coreStart == k * step
      audioStart == Max({0, coreStart - overlap})
  IN [start |-> audioStart,
      end |-> Min({coreStart + step, total}),
      overlap |-> coreStart - audioStart]

Segments(total, step, overlap) ==
  [k \in 1 .. NumChunks(total, step) |-> Segment(k - 1, total, step, overlap)]

SamplesPerMs == 16  \* SAMPLE_RATE / 1000

\* round() to the nearest integer, and to the even one of two that are as near
SamplesToMs(n) ==
  LET ms == n \div SamplesPerMs
      rest == 2 * (n % SamplesPerMs)
  IN IF rest > SamplesPerMs \/ (rest = SamplesPerMs /\ ms % 2 = 1) THEN ms + 1 ELSE ms

\* Variant: the end is the rounded start plus the rounded length.
SpanByLength(seg) ==
  [start_ms |-> SamplesToMs(seg.start),
   end_ms |-> SamplesToMs(seg.start) + SamplesToMs(seg.end - seg.start),
   overlap_ms |-> SamplesToMs(seg.overlap)]

\* The span a chunk's lineage shows, each end rounded by itself
Span(seg) ==
  [start_ms |-> SamplesToMs(seg.start),
   end_ms |-> SamplesToMs(seg.end),
   overlap_ms |-> SamplesToMs(seg.overlap)]

-----------------------------------------------------------------------------
(***************************************************************************)
(* What the windows and the spans promise.                                 *)
(***************************************************************************)

\* The windows without their overlaps are the waveform, each sample once, and what
\* a window overlaps was heard by the one before it.
Tiled(segments, total) ==
  LET n == Len(segments)
      core(k) == segments[k].start + segments[k].overlap
  IN /\ (n = 0) = (total = 0)
     /\ n > 0 => core(1) = 0 /\ segments[n].end = total
     /\ \A k \in 1 .. n : core(k) < segments[k].end
     /\ \A k \in 2 .. n : /\ core(k) = segments[k - 1].end
                          /\ segments[k].start >= segments[k - 1].start

\* In milliseconds a chunk's own content begins where the previous one's ends, up
\* to the rounding of the three numbers, and the last one ends with the recording.
Joined(spans, duration) ==
  LET n == Len(spans)
  IN /\ n > 0 => spans[1].start_ms + spans[1].overlap_ms = 0 /\ spans[n].end_ms = duration
     /\ \A k \in 2 .. n :
          spans[k].start_ms + spans[k].overlap_ms - spans[k - 1].end_ms \in -1 .. 1

=============================================================================
