----------------------------- MODULE Reassembly -----------------------------
(***************************************************************************)
(* InOrderAssembler: chunk transcripts arrive in any order; the transcript *)
(* grows by the longest contiguous run of them, and the words a chunk      *)
(* shares with what precedes it are dropped at the seam.                   *)
(*                                                                         *)
(* A text is a sequence of words; two words are the same at a seam when    *)
(* they normalise to the same word (case and punctuation ignored).         *)
(***************************************************************************)
EXTENDS Integers, SequencesExt

CONSTANTS
  Word,        \* the words a text is made of
  Norm,        \* Norm[w]: what _norm makes of a word
  MaxOverlap,  \* _MAX_OVERLAP_WORDS
  Recordings   \* the jobs: what was said (<<>>: nothing in particular) and the
               \* text of each chunk

ASSUME ReassemblyAssumption ==
  /\ MaxOverlap \in Nat
  /\ Norm \in [Word -> Word]
  /\ \A r \in Recordings : r.spoken \in Seq(Word) /\ r.texts \in Seq(Seq(Word))

-----------------------------------------------------------------------------
(***************************************************************************)
(* The assembler                                                           *)
(***************************************************************************)

LastWords(s, n) == SubSeq(s, Len(s) - n + 1, Len(s))
Normalised(s) == [k \in 1 .. Len(s) |-> Norm[s[k]]]

\* Variant: the loop over k starts one too low.
SeamsShort(tail, words) ==
  {k \in 0 .. Min({Len(tail), Len(words), MaxOverlap}) - 1 :
     Normalised(LastWords(tail, k)) = Normalised(SubSeq(words, 1, k))} \cup {0}

\* The numbers of words at the end of `tail' that `words' begins with.
Seams(tail, words) ==
  {k \in 0 .. Min({Len(tail), Len(words), MaxOverlap}) :
     Normalised(LastWords(tail, k)) = Normalised(SubSeq(words, 1, k))}

\* _stitch: drop the longest such beginning.
Stitch(tail, words) == SubSeq(words, Max(Seams(tail, words)) + 1, Len(words))

\* Variant: the wrong end of the tail is cut off.
RememberFirst(tail, words) ==
  SubSeq(tail \o words, 1, Min({Len(tail \o words), MaxOverlap}))

\* Variant: the tail is never cut.
RememberAll(tail, words) == tail \o words

\* _remember: the last words kept, as many as a seam can look back on.
Remember(tail, words) ==
  LastWords(tail \o words, Min({Len(tail \o words), MaxOverlap}))

NewAssembler ==
  [next |-> 0, pending |-> [i \in {} |-> <<>>], transcript |-> <<>>, tail |-> <<>>]

\* One turn of the while loop: the text at `next' joins the transcript.
AppendNext(asm, text) ==
  LET kept == Stitch(asm.tail, text)
  IN [asm EXCEPT !.next = @ + 1,
                 !.transcript = @ \o kept,
                 !.tail = Remember(@, kept)]

\* Variant: `if' for `while', at most one pending text is released.
RunAtMostOne(asm) ==
  IF asm.next \in DOMAIN asm.pending THEN <<asm.pending[asm.next]>> ELSE <<>>

\* The contiguous run of pending texts from `next' on.
Run(asm) ==
  LET run == {i \in DOMAIN asm.pending :
                \A m \in asm.next .. i : m \in DOMAIN asm.pending}
      ready == {i \in run : i >= asm.next}
  IN [k \in 1 .. Cardinality(ready) |-> asm.pending[asm.next + k - 1]]

\* The while loop: after[n] is the assembler after n turns of it.
Release(asm, run) ==
  LET after[n \in 0 .. Len(run)] ==
        IF n = 0 THEN asm ELSE AppendNext(after[n - 1], run[n])
  IN after[Len(run)]

\* self._pending[index] = text
Kept(pending, index, text) ==
  [k \in DOMAIN pending \cup {index} |-> IF k = index THEN text ELSE pending[k]]

\* add: keep the text, release the run that starts at `next'.
Add(asm, index, text) ==
  LET kept == [asm EXCEPT !.pending = Kept(@, index, text)]
      done == Release(kept, Run(kept))
  IN [done EXCEPT !.pending =
        [i \in {k \in DOMAIN @ : k >= done.next} |-> @[i]]]

-----------------------------------------------------------------------------
(***************************************************************************)
(* A job's chunks completing in any order, as stream_sync feeds them.      *)
(***************************************************************************)

VARIABLES
  recording,  \* the job
  arrived,    \* the indices of the chunks that completed
  asm         \* the assembler

vars == <<recording, arrived, asm>>

Total == Len(recording.texts)

Init ==
  /\ recording \in Recordings
  /\ arrived = {}
  /\ asm = NewAssembler

Arrive(i) ==
  /\ i \notin arrived
  /\ arrived' = arrived \cup {i}
  /\ asm' = Add(asm, i, recording.texts[i + 1])
  /\ UNCHANGED recording

Next == \E i \in 0 .. Total - 1 : Arrive(i)

Spec == Init /\ [][Next]_vars

-----------------------------------------------------------------------------
(***************************************************************************)
(* Properties                                                              *)
(***************************************************************************)

TypeOK ==
  /\ recording \in Recordings
  /\ arrived \subseteq 0 .. Total - 1
  /\ asm.next \in 0 .. Total
  /\ DOMAIN asm.pending \subseteq 0 .. Total - 1
  /\ asm.transcript \in Seq(Word)
  /\ asm.tail \in Seq(Word) /\ Len(asm.tail) <= MaxOverlap

\* The reference: one text joined to a whole transcript, which it looks back on
\* itself.
Join(transcript, text) ==
  transcript \o
    SubSeq(text,
      Max({k \in 0 .. Min({Len(transcript), Len(text), MaxOverlap}) :
             Normalised(LastWords(transcript, k)) = Normalised(SubSeq(text, 1, k))}) + 1,
      Len(text))

\* InOrder(texts)[n]: the first n texts joined one after the other
InOrder(texts) ==
  LET joined[n \in 0 .. Len(texts)] ==
        IF n = 0 THEN <<>> ELSE Join(joined[n - 1], texts[n])
  IN joined

\* What is shown is what in-order assembly of the first `next' chunks gives,
\* in whatever order the chunks completed, and although a seam only looks at
\* the remembered tail and not at the transcript.
ArrivalOrderIrrelevant == asm.transcript = InOrder(recording.texts)[asm.next]

\* No chunk is held back that could be shown: `next' is the first one that is
\* missing, and what waits is what has arrived beyond it.
ShowsLongestPrefix ==
  /\ asm.next = Min((0 .. Total) \ arrived)
  /\ DOMAIN asm.pending = {i \in arrived : i > asm.next}

Complete == arrived = 0 .. Total - 1

\* The positions of the words said that one of the first n chunks heard
HeardPositions(n) ==
  {p \in 1 .. Len(recording.spoken) :
     \E i \in 1 .. n : Contains(recording.texts[i], recording.spoken[p])}

\* `words' are those said at `positions', each once and in that order: the word at a
\* position has as many before it as there are smaller positions.
Selects(words, said, positions) ==
  /\ Len(words) = Cardinality(positions)
  /\ \A p \in positions : words[Cardinality({q \in positions : q <= p})] = said[p]

\* If the words said are all different, every word that some chunk before the first
\* missing one heard is in the transcript exactly once, in the order said, also when
\* chunks failed.
HeardWordsOnce ==
  recording.spoken # <<>> =>
    Selects(asm.transcript, recording.spoken, HeardPositions(asm.next))

\* What is dropped at a seam was duplicated by the overlap, no more: chunks that
\* were all heard give back what was said, repeated words included.
OnlyOverlapDropped == Complete => asm.transcript = recording.spoken

=============================================================================
