-------------------------- MODULE ReassemblyProofs --------------------------
(***************************************************************************)
(* Proofs about Reassembly, for any words, normal forms, bound on the      *)
(* overlap and texts, and any order in which the texts arrive.             *)
(*                                                                         *)
(* The loops of the model are recursive functions on 0 .. n.  That they    *)
(* exist, and what they compute, is shown by induction on the set of the   *)
(* numbers for which it holds.                                             *)
(***************************************************************************)
EXTENDS MCReassembly, ChunkingProofs, SequenceTheorems, FunctionTheorems,
        FiniteSetTheorems, WellFoundedInduction, TLAPS

-----------------------------------------------------------------------------
(***************************************************************************)
(* Induction, and functions defined by it                                  *)
(***************************************************************************)

\* Numbers have a smallest one.
LEMMA MinExists ==
  ASSUME NEW S \in SUBSET Nat, S # {}
  PROVE  Min(S) \in S /\ \A m \in S : Min(S) <= m
<1>1. PICK x \in S : \A y \in S : ~ (<<y, x>> \in OpToRel(<, Nat))
  BY NatLessThanWellFounded, WFMin
<1>2. \A y \in S : ~ (y < x)
  BY <1>1 DEF OpToRel
<1>3. \A y \in S : x <= y
  BY <1>2
<1> QED
  BY <1>3 DEF Min

\* Numbers up to n have a greatest one.
LEMMA MaxExists ==
  ASSUME NEW n \in Nat, NEW S \in SUBSET (0 .. n), S # {}
  PROVE  Max(S) \in S
<1> DEFINE T == {n - m : m \in S}
<1>1. T \in SUBSET Nat /\ T # {}
  <2>1. \A m \in S : n - m \in Nat
    OBVIOUS
  <2>2. PICK m \in S : TRUE
    OBVIOUS
  <2> QED
    BY <2>1, <2>2
<1>2. Min(T) \in T /\ \A y \in T : Min(T) <= y
  <2> HIDE DEF T
  <2> QED
    BY <1>1, MinExists
<1>3. PICK m \in S : Min(T) = n - m
  BY <1>2
<1>4. \A k \in S : n - k \in T /\ k \in Int
  OBVIOUS
<1> HIDE DEF T
<1>5. \A k \in S : m >= k
  BY <1>2, <1>3, <1>4
<1> QED
  BY <1>5 DEF Max

\* Induction, on a set of numbers.
LEMMA SetInduction ==
  ASSUME NEW n \in Nat, NEW T \in SUBSET (0 .. n), 0 \in T,
         \A k \in 1 .. n : k - 1 \in T => k \in T
  PROVE  T = 0 .. n
<1> DEFINE S == (0 .. n) \ T
<1>1. S \in SUBSET Nat
  OBVIOUS
<1>2. CASE S # {}
  <2>1. Min(S) \in S /\ \A m \in S : Min(S) <= m
    <3> HIDE DEF S
    <3> QED
      BY <1>1, <1>2, MinExists
  <2>2. PICK k \in S : k = Min(S)
    BY <2>1
  <2>3. k \in 1 .. n /\ k - 1 \in 0 .. n /\ k - 1 \notin S
    BY <2>1, <2>2
  <2> QED
    BY <2>3
<1> QED
  BY <1>2

\* f[k] is where k steps lead from `first'.
Walk(f, S, first, step, n) ==
  /\ f \in [0 .. n -> S]
  /\ f[0] = first
  /\ \A k \in 1 .. n : f[k] = step[<<f[k - 1], k>>]

\* There is such a function.
LEMMA StepsExist ==
  ASSUME NEW n \in Nat, NEW S, NEW first \in S, NEW step \in [S \X (1 .. n) -> S]
  PROVE  \E f : Walk(f, S, first, step, n)
<1> DEFINE good(m, f) == f[0] = first /\ \A k \in 1 .. m : f[k] = step[<<f[k - 1], k>>]
           T == {m \in 0 .. n : \E f \in [0 .. m -> S] : good(m, f)}
<1>1. 0 \in T
  <2>1. [k \in 0 .. 0 |-> first] \in [0 .. 0 -> S] /\ good(0, [k \in 0 .. 0 |-> first])
    OBVIOUS
  <2>2. \E f \in [0 .. 0 -> S] : good(0, f)
    BY <2>1
  <2> QED
    BY <2>2
<1>2. ASSUME NEW m \in 1 .. n, m - 1 \in T
      PROVE  m \in T
  <2>1. PICK f \in [0 .. m - 1 -> S] : good(m - 1, f)
    BY <1>2
  <2> DEFINE g == [k \in 0 .. m |-> IF k = m THEN step[<<f[m - 1], m>>] ELSE f[k]]
  <2>2. f[m - 1] \in S /\ step[<<f[m - 1], m>>] \in S
    BY <2>1
  <2>3. g \in [0 .. m -> S]
    BY <2>2
  <2>4. g[m] = step[<<f[m - 1], m>>] /\ \A k \in 0 .. m - 1 : g[k] = f[k]
    OBVIOUS
  <2> HIDE DEF g
  <2>5. good(m, g)
    <3>1. g[0] = first
      BY <2>1, <2>4
    <3>2. ASSUME NEW k \in 1 .. m
          PROVE  g[k] = step[<<g[k - 1], k>>]
      <4>1. CASE k = m
        BY <2>4, <4>1
      <4>2. CASE k # m
        <5>1. k \in 1 .. m - 1 /\ k - 1 \in 0 .. m - 1 /\ k \in 0 .. m - 1
          BY <4>2
        <5> QED
          BY <2>1, <2>4, <5>1
      <4> QED
        BY <4>1, <4>2
    <3> QED
      BY <3>1, <3>2
  <2> QED
    BY <2>3, <2>5
<1>3. T = 0 .. n
  <2> HIDE DEF T
  <2>1. T \in SUBSET (0 .. n)
    BY DEF T
  <2> QED
    BY <1>1, <1>2, <2>1, SetInduction
<1>4. n \in T
  <2> HIDE DEF T
  <2> QED
    BY <1>3
<1> QED
  BY <1>4 DEF Walk


-----------------------------------------------------------------------------
(***************************************************************************)
(* Words at a seam                                                         *)
(***************************************************************************)

\* The smaller of two numbers.
LEMMA SmallerOfTwo ==
  ASSUME NEW x \in Nat, NEW y \in Nat
  PROVE  Min({x, y}) = IF x <= y THEN x ELSE y
<1>1. Min({x, y}) \in {x, y} /\ Min({x, y}) <= x /\ Min({x, y}) <= y
  BY MinExists
<1> QED
  BY <1>1

\* The smallest of three numbers.
LEMMA SmallestOfThree ==
  ASSUME NEW x \in Nat, NEW y \in Nat, NEW z \in Nat
  PROVE  Min({x, y, z}) = Min({Min({x, z}), y}) /\ Min({x, y, z}) \in Nat
           /\ Min({x, y, z}) <= x /\ Min({x, y, z}) <= y /\ Min({x, y, z}) <= z
<1>1. Min({x, y, z}) \in {x, y, z} /\ Min({x, y, z}) <= x /\ Min({x, y, z}) <= y
        /\ Min({x, y, z}) <= z
  BY MinExists
<1>2. Min({x, z}) = IF x <= z THEN x ELSE z
  BY SmallerOfTwo
<1>3. Min({Min({x, z}), y}) = IF Min({x, z}) <= y THEN Min({x, z}) ELSE y
  BY <1>2, SmallerOfTwo
<1> QED
  BY <1>1, <1>2, <1>3

\* The last r words of a text
LEMMA LastWordsAre ==
  ASSUME NEW s \in Seq(Word), NEW r \in 0 .. Len(s)
  PROVE  /\ LastWords(s, r) \in Seq(Word)
         /\ Len(LastWords(s, r)) = r
         /\ \A i \in 1 .. r : LastWords(s, r)[i] = s[Len(s) - r + i]
<1> DEFINE m == Len(s) - r + 1
<1>1. Len(s) \in Nat /\ m \in Int /\ Len(s) - m + 1 = r /\ m >= 1
  OBVIOUS
<1>2. \A i \in m .. Len(s) : s[i] \in Word
  BY <1>1
<1>3. LastWords(s, r) = SubSeq(s, m, Len(s))
  BY DEF LastWords
<1> HIDE DEF m
<1>4. /\ SubSeq(s, m, Len(s)) \in Seq(Word)
      /\ Len(SubSeq(s, m, Len(s))) = IF m <= Len(s) THEN Len(s) - m + 1 ELSE 0
      /\ \A i \in 1 .. Len(s) - m + 1 : SubSeq(s, m, Len(s))[i] = s[m + i - 1]
  BY <1>1, <1>2, SubSeqProperties
<1>5. \A i \in 1 .. r : m + i - 1 = Len(s) - r + i
  BY <1>1 DEF m
<1> QED
  BY <1>1, <1>3, <1>4, <1>5

\* The same, for a length that has a name
LEMMA LastWordsOf ==
  ASSUME NEW s \in Seq(Word), NEW n \in Nat, n = Len(s), NEW r \in 0 .. n
  PROVE  /\ LastWords(s, r) \in Seq(Word)
         /\ Len(LastWords(s, r)) = r
         /\ \A i \in 1 .. r : LastWords(s, r)[i] = s[n - r + i]
  BY LastWordsAre

\* What follows the first k words of a text
LEMMA RestIs ==
  ASSUME NEW s \in Seq(Word), NEW k \in 0 .. Len(s)
  PROVE  SubSeq(s, k + 1, Len(s)) \in Seq(Word)
<1>1. \A i \in k + 1 .. Len(s) : s[i] \in Word
  OBVIOUS
<1> QED
  BY <1>1, SubSeqProperties

\* A seam is at most as long as what comes, and there always is one, of no words.
LEMMA SeamsAre ==
  ASSUME NEW tail \in Seq(Word), NEW words \in Seq(Word)
  PROVE  /\ 0 \in Seams(tail, words)
         /\ Seams(tail, words) \subseteq 0 .. Len(words)
         /\ Max(Seams(tail, words)) \in 0 .. Len(words)
<1> DEFINE n == Min({Len(tail), Len(words), MaxOverlap})
<1>1. n \in Nat /\ n <= Len(words) /\ Len(words) \in Nat
  <2>1. Len(tail) \in Nat /\ Len(words) \in Nat /\ MaxOverlap \in Nat
    BY ReassemblyAssumption
  <2> QED
    BY ONLY <2>1, SmallestOfThree DEF n
<1>2. Normalised(LastWords(tail, 0)) = Normalised(SubSeq(words, 1, 0))
  <2>1. LastWords(tail, 0) = <<>> /\ SubSeq(words, 1, 0) = <<>>
    BY SubSeqEmpty DEF LastWords
  <2> QED
    BY <2>1
<1> HIDE DEF n
<1>3. Seams(tail, words) =
        {k \in 0 .. n : Normalised(LastWords(tail, k)) = Normalised(SubSeq(words, 1, k))}
  BY DEF Seams, n
<1>4. 0 \in Seams(tail, words) /\ Seams(tail, words) \subseteq 0 .. Len(words)
  BY <1>1, <1>2, <1>3
<1>5. Max(Seams(tail, words)) \in Seams(tail, words)
  BY <1>1, <1>4, MaxExists
<1> QED
  BY <1>4, <1>5

\* What a seam leaves of a text is the end of it.
LEMMA StitchIs ==
  ASSUME NEW tail \in Seq(Word), NEW words \in Seq(Word)
  PROVE  Stitch(tail, words) \in Seq(Word)
  BY SeamsAre, RestIs DEF Stitch

\* The words a seam may look back on in a whole transcript
TailOf(t) == LastWords(t, Min({Len(t), MaxOverlap}))

\* They are its last ones, and as many as may count.
LEMMA TailOfIs ==
  ASSUME NEW t \in Seq(Word)
  PROVE  /\ Len(t) \in Nat
         /\ Min({Len(t), MaxOverlap}) \in 0 .. Len(t)
         /\ Min({Len(t), MaxOverlap}) <= MaxOverlap
         /\ TailOf(t) \in Seq(Word) /\ Len(TailOf(t)) = Min({Len(t), MaxOverlap})
         /\ \A i \in 1 .. Len(TailOf(t)) : TailOf(t)[i] = t[Len(t) - Len(TailOf(t)) + i]
<1>1. Min({Len(t), MaxOverlap}) \in 0 .. Len(t) /\ Min({Len(t), MaxOverlap}) <= MaxOverlap
  <2>1. Len(t) \in Nat /\ MaxOverlap \in Nat
    BY ReassemblyAssumption
  <2> QED
    BY ONLY <2>1, SmallerOfTwo
<1> QED
  <2>1. LastWords(t, Min({Len(t), MaxOverlap})) = TailOf(t)
    BY DEF TailOf
  <2>2. Len(t) \in Nat
    OBVIOUS
  <2> DEFINE r == Min({Len(t), MaxOverlap})
  <2> HIDE DEF r
  <2>3. r \in 0 .. Len(t) /\ r <= MaxOverlap
    BY <1>1 DEF r
  <2>4. LastWords(t, r) = TailOf(t)
    BY <2>1 DEF r
  <2>5. /\ LastWords(t, r) \in Seq(Word) /\ Len(LastWords(t, r)) = r
        /\ \A i \in 1 .. r : LastWords(t, r)[i] = t[Len(t) - r + i]
    BY <2>3, LastWordsAre
  <2> QED
    BY <2>2, <2>3, <2>4, <2>5 DEF r

\* Why the remembered tail is enough: a seam never looks back further, so that it drops
\* the same words as one that sees the whole transcript.
LEMMA TailIsEnough ==
  ASSUME NEW t \in Seq(Word), NEW text \in Seq(Word)
  PROVE  Join(t, text) = t \o Stitch(TailOf(t), text) /\ Join(t, text) \in Seq(Word)
<1> DEFINE m == Min({Len(t), MaxOverlap})
           tail == TailOf(t)
           n == Min({Len(t), Len(text), MaxOverlap})
<1>1. /\ m \in 0 .. Len(t) /\ tail \in Seq(Word) /\ Len(tail) = m /\ Len(t) \in Nat
      /\ \A i \in 1 .. m : tail[i] = t[Len(t) - m + i]
      /\ m <= MaxOverlap /\ Len(text) \in Nat /\ MaxOverlap \in Nat
  BY TailOfIs, ReassemblyAssumption
<1>2. n = Min({m, Len(text)}) /\ n \in Nat /\ n <= m
  <2>1. n = Min({m, Len(text)}) /\ n \in Nat
    <3>1. Len(t) \in Nat /\ Len(text) \in Nat /\ MaxOverlap \in Nat
      BY <1>1
    <3> QED
      BY ONLY <3>1, SmallestOfThree DEF n, m
  <2> HIDE DEF n, m
  <2> QED
    BY <1>1, <2>1, SmallerOfTwo
<1>3. Min({Len(tail), Len(text), MaxOverlap}) = n
  <2>1. Min({Len(tail), Len(text), MaxOverlap}) = Min({Min({m, MaxOverlap}), Len(text)})
    <3>1. Len(tail) \in Nat /\ Len(text) \in Nat /\ MaxOverlap \in Nat /\ Len(tail) = m
      BY <1>1
    <3> HIDE DEF m, tail
    <3> QED
      BY ONLY <3>1, SmallestOfThree
  <2>2. Min({m, MaxOverlap}) = m
    <3> HIDE DEF m
    <3> QED
      BY <1>1, SmallerOfTwo
  <2> QED
    BY <1>2, <2>1, <2>2
<1> HIDE DEF m, tail, n
<1>4. \A k \in 0 .. n : LastWords(tail, k) = LastWords(t, k)
  <2> SUFFICES ASSUME NEW k \in 0 .. n
               PROVE  LastWords(tail, k) = LastWords(t, k)
    OBVIOUS
  <2>1. k \in 0 .. Len(tail) /\ k \in 0 .. Len(t)
    BY <1>1, <1>2
  <2>2. /\ LastWords(tail, k) \in Seq(Word) /\ LastWords(t, k) \in Seq(Word)
        /\ Len(LastWords(tail, k)) = k /\ Len(LastWords(t, k)) = k
        /\ \A i \in 1 .. k : LastWords(tail, k)[i] = tail[m - k + i]
        /\ \A i \in 1 .. k : LastWords(t, k)[i] = t[Len(t) - k + i]
    BY <1>1, <2>1, LastWordsAre
  <2>3. \A i \in 1 .. k : tail[m - k + i] = t[Len(t) - k + i]
    <3> SUFFICES ASSUME NEW i \in 1 .. k
                 PROVE  tail[m - k + i] = t[Len(t) - k + i]
      OBVIOUS
    <3>1. m - k + i \in 1 .. m /\ Len(t) - m + (m - k + i) = Len(t) - k + i
      BY <1>1, <1>2
    <3> QED
      BY <1>1, <3>1
  <2> QED
    BY <2>2, <2>3, SeqEqual
<1>5. Seams(tail, text) = {k \in 0 .. n :
        Normalised(LastWords(t, k)) = Normalised(SubSeq(text, 1, k))}
  BY <1>3, <1>4 DEF Seams
<1>6. Join(t, text) = t \o Stitch(tail, text)
  BY <1>5 DEF Join, Stitch, n
<1>7. Stitch(tail, text) \in Seq(Word)
  BY <1>1, StitchIs
<1> QED
  BY <1>6, <1>7, ConcatProperties DEF tail

\* Remembering what is kept gives the tail of the longer transcript.
LEMMA TailIsKept ==
  ASSUME NEW t \in Seq(Word), NEW kept \in Seq(Word)
  PROVE  Remember(TailOf(t), kept) = TailOf(t \o kept)
<1>1. PICK tail \in Seq(Word), q \in Nat, l \in Nat, M \in Nat :
        tail = TailOf(t) /\ q = Len(kept) /\ l = Len(t) /\ M = MaxOverlap
  BY TailOfIs, ReassemblyAssumption
<1>2. PICK u \in Seq(Word), v \in Seq(Word) : u = tail \o kept /\ v = t \o kept
  BY ConcatProperties
<1>3. PICK m \in 0 .. l :
        /\ m = IF l <= M THEN l ELSE M
        /\ Len(tail) = m
        /\ \A i \in 1 .. m : tail[i] = t[l - m + i]
  <2>1. Min({l, M}) = IF l <= M THEN l ELSE M
    BY SmallerOfTwo
  <2> QED
    <3>1. Min({Len(t), MaxOverlap}) = IF l <= M THEN l ELSE M
      BY <1>1, <2>1
    <3>2. /\ Len(tail) = IF l <= M THEN l ELSE M
          /\ \A i \in 1 .. Len(tail) : tail[i] = t[l - Len(tail) + i]
      BY <1>1, <3>1, TailOfIs
    <3>3. Len(tail) \in 0 .. l
      BY <3>2
    <3> QED
      BY <3>2, <3>3
<1>4. /\ Len(u) = m + q
      /\ \A i \in 1 .. m + q : u[i] = IF i <= m THEN tail[i] ELSE kept[i - m]
  <2>1. /\ Len(u) = Len(tail) + Len(kept)
        /\ \A i \in 1 .. Len(tail) + Len(kept) :
             u[i] = IF i <= Len(tail) THEN tail[i] ELSE kept[i - Len(tail)]
    BY <1>2, ConcatProperties
  <2> QED
    BY <1>1, <1>3, <2>1
<1>5. /\ Len(v) = l + q
      /\ \A i \in 1 .. l + q : v[i] = IF i <= l THEN t[i] ELSE kept[i - l]
  BY <1>1, <1>2, ConcatProperties
<1>5a. PICK x1 \in Nat, y1 \in Nat :
         x1 = m + q /\ y1 = l + q /\ Len(u) = x1 /\ Len(v) = y1
  BY <1>4, <1>5
<1>6. PICK r \in 0 .. x1 : r = Min({x1, M}) /\ r = Min({y1, M}) /\ r <= y1
  <2>1. /\ Min({x1, M}) = IF x1 <= M THEN x1 ELSE M
        /\ Min({y1, M}) = IF y1 <= M THEN y1 ELSE M
    BY ONLY x1 \in Nat, y1 \in Nat, M \in Nat, SmallerOfTwo
  <2>2. Min({x1, M}) \in 0 .. x1 /\ Min({x1, M}) = Min({y1, M}) /\ Min({x1, M}) <= y1
    BY <1>3, <1>5a, <2>1
  <2> QED
    BY <2>2
<1>7. /\ LastWords(u, r) \in Seq(Word) /\ Len(LastWords(u, r)) = r
      /\ \A i \in 1 .. r : LastWords(u, r)[i] = u[x1 - r + i]
  BY <1>5a, LastWordsOf
<1>8. /\ LastWords(v, r) \in Seq(Word) /\ Len(LastWords(v, r)) = r
      /\ \A i \in 1 .. r : LastWords(v, r)[i] = v[y1 - r + i]
  <2>1. r \in 0 .. y1
    BY <1>6
  <2> QED
    BY <1>5a, <2>1, LastWordsOf
<1>9. ASSUME NEW i \in 1 .. r
      PROVE  u[x1 - r + i] = v[y1 - r + i]
  <2>1. PICK x \in 1 .. x1, y \in 1 .. y1 : x = x1 - r + i /\ y = y1 - r + i
    <3>1. x1 - r + i \in 1 .. x1 /\ y1 - r + i \in 1 .. y1
      <4>1. r \in Nat /\ r <= x1 /\ r <= y1 /\ i \in Nat /\ 1 <= i /\ i <= r
        BY <1>6
      <4> QED
        BY ONLY <4>1, x1 \in Nat, y1 \in Nat
    <3> QED
      BY <3>1
  <2>2. (x <= m <=> y <= l) /\ x - m = y - l /\ l - m + x = y
    BY <1>5a, <2>1
  <2>3. ASSUME x <= m
        PROVE  u[x] = v[y]
    <3>1. x \in 1 .. m /\ y <= l
      BY <2>2, <2>3
    <3>2. u[x] = tail[x] /\ tail[x] = t[l - m + x] /\ v[y] = t[y]
      BY <1>3, <1>4, <1>5, <1>5a, <3>1
    <3> QED
      BY <2>2, <3>2
  <2>4. ASSUME ~ (x <= m)
        PROVE  u[x] = v[y]
    BY <1>4, <1>5, <1>5a, <2>2, <2>4
  <2> QED
    BY <2>1, <2>3, <2>4
<1>10. LastWords(u, r) = LastWords(v, r)
  BY <1>7, <1>8, <1>9, SeqEqual
<1>11. Remember(tail, kept) = LastWords(u, r)
  BY <1>1, <1>2, <1>5a, <1>6 DEF Remember
<1>12. TailOf(t \o kept) = LastWords(v, r)
  BY <1>1, <1>2, <1>5a, <1>6 DEF TailOf
<1> QED
  BY <1>1, <1>10, <1>11, <1>12


-----------------------------------------------------------------------------
(***************************************************************************)
(* The loops                                                               *)
(***************************************************************************)

\* The assemblers there may be
Pending == UNION {[D -> Seq(Word)] : D \in SUBSET Nat}
Assembler == [next : Nat, pending : Pending, transcript : Seq(Word), tail : Seq(Word)]

\* One turn of the loop
LEMMA TurnIs ==
  ASSUME NEW s \in Assembler, NEW text \in Seq(Word)
  PROVE  /\ AppendNext(s, text) \in Assembler
         /\ AppendNext(s, text).next = s.next + 1
         /\ AppendNext(s, text).pending = s.pending
         /\ AppendNext(s, text).transcript = s.transcript \o Stitch(s.tail, text)
         /\ AppendNext(s, text).tail = Remember(s.tail, Stitch(s.tail, text))
<1> DEFINE kept == Stitch(s.tail, text)
           longer == s.tail \o kept
           r == Min({Len(longer), MaxOverlap})
<1>1. kept \in Seq(Word) /\ s.next \in Nat /\ s.transcript \in Seq(Word) /\ s.tail \in Seq(Word)
  BY StitchIs DEF Assembler
<1> HIDE DEF kept
<1>2. s.transcript \o kept \in Seq(Word) /\ longer \in Seq(Word)
  BY <1>1, ConcatProperties
<1> HIDE DEF longer
<1>3. Remember(s.tail, kept) \in Seq(Word)
  <2>1. Remember(s.tail, kept) = TailOf(longer)
    BY DEF Remember, TailOf, longer
  <2> QED
    BY <1>2, <2>1, TailOfIs
<1>4. AppendNext(s, text) =
        [s EXCEPT !.next = s.next + 1,
                  !.transcript = s.transcript \o kept,
                  !.tail = Remember(s.tail, kept)]
  BY DEF AppendNext, kept
<1>5. PICK t \in Seq(Word), w \in Seq(Word) :
        t = s.transcript \o kept /\ w = Remember(s.tail, kept)
  BY <1>2, <1>3
<1>6. AppendNext(s, text) = [s EXCEPT !.next = s.next + 1, !.transcript = t, !.tail = w]
  BY <1>4, <1>5
<1>7. /\ AppendNext(s, text) \in Assembler
      /\ AppendNext(s, text).next = s.next + 1
      /\ AppendNext(s, text).pending = s.pending
      /\ AppendNext(s, text).transcript = t
      /\ AppendNext(s, text).tail = w
  <2>1. PICK x \in Nat, p \in Pending, u \in Seq(Word), v \in Seq(Word) :
          s = [next |-> x, pending |-> p, transcript |-> u, tail |-> v]
    BY DEF Assembler
  <2>2. AppendNext(s, text) = [next |-> x + 1, pending |-> p, transcript |-> t, tail |-> w]
    BY <1>6, <2>1
  <2>3. x + 1 \in Nat
    OBVIOUS
  <2> QED
    BY <2>1, <2>2, <2>3 DEF Assembler
<1> QED
  BY <1>5, <1>7 DEF kept

\* The while loop of add: a sequence of assemblers, one turn from each to the next.
LEMMA ReleaseIs ==
  ASSUME NEW s \in Assembler, NEW run \in Seq(Seq(Word))
  PROVE  \E f \in [0 .. Len(run) -> Assembler] :
           /\ f[0] = s
           /\ \A k \in 1 .. Len(run) : f[k] = AppendNext(f[k - 1], run[k])
           /\ Release(s, run) = f[Len(run)]
<1>0. PICK n \in Nat : n = Len(run)
  OBVIOUS
<1> DEFINE step == [p \in Assembler \X (1 .. n) |-> AppendNext(p[1], run[p[2]])]
           Loop(f) == [k \in 0 .. n |-> IF k = 0 THEN s ELSE AppendNext(f[k - 1], run[k])]
           g == CHOOSE f : f = Loop(f)
<1>1. \A k \in 1 .. n : run[k] \in Seq(Word)
  BY <1>0
<1>2. step \in [Assembler \X (1 .. n) -> Assembler]
  BY <1>1, TurnIs
<1>3. \A x \in Assembler : \A k \in 1 .. n : step[<<x, k>>] = AppendNext(x, run[k])
  OBVIOUS
<1> HIDE DEF step
<1>4. PICK f \in [0 .. n -> Assembler] :
        f[0] = s /\ \A k \in 1 .. n : f[k] = step[<<f[k - 1], k>>]
  <2>1. \E f : Walk(f, Assembler, s, step, n)
    BY <1>2, StepsExist
  <2> QED
    BY <2>1 DEF Walk
<1>5. \A k \in 1 .. n : f[k] = AppendNext(f[k - 1], run[k])
  <2> SUFFICES ASSUME NEW k \in 1 .. n
               PROVE  f[k] = AppendNext(f[k - 1], run[k])
    OBVIOUS
  <2>1. f[k] = step[<<f[k - 1], k>>]
    BY <1>4
  <2>2. f[k - 1] \in Assembler
    BY <1>1, <1>4
  <2> QED
    BY <1>3, <2>1, <2>2
<1>6. f = Loop(f)
  BY <1>1, <1>4, <1>5
<1>7. g = Loop(g)
  BY <1>6
<1>8. Release(s, run) = g[n]
  BY <1>0 DEF Release
<1>9. g[0] = s /\ \A k \in 1 .. n : g[k] = AppendNext(g[k - 1], run[k])
  <2> HIDE DEF g
  <2> QED
    BY <1>1, <1>7
<1> HIDE DEF g
<1> DEFINE T == {k \in 0 .. n : g[k] = f[k]}
<1>10. T = 0 .. n
  <2>1. 0 \in T
    BY <1>1, <1>4, <1>9
  <2>2. \A k \in 1 .. n : k - 1 \in T => k \in T
    BY <1>1, <1>5, <1>9
  <2>3. T \in SUBSET (0 .. n)
    OBVIOUS
  <2> HIDE DEF T
  <2> QED
    BY <1>1, <2>1, <2>2, <2>3, SetInduction
<1>11. g[n] = f[n]
  BY <1>1, <1>10
<1> QED
  BY <1>0, <1>4, <1>5, <1>8, <1>11

\* Texts joined one after the other: each joins what those before it gave.
LEMMA InOrderIs ==
  ASSUME NEW texts \in Seq(Seq(Word))
  PROVE  /\ InOrder(texts)[0] = <<>>
         /\ \A k \in 1 .. Len(texts) : InOrder(texts)[k] = Join(InOrder(texts)[k - 1], texts[k])
         /\ \A k \in 0 .. Len(texts) : InOrder(texts)[k] \in Seq(Word)
<1>0. PICK n \in Nat : n = Len(texts)
  OBVIOUS
<1> DEFINE step == [p \in Seq(Word) \X (1 .. n) |-> Join(p[1], texts[p[2]])]
           Loop(f) == [k \in 0 .. n |-> IF k = 0 THEN <<>> ELSE Join(f[k - 1], texts[k])]
           g == CHOOSE f : f = Loop(f)
<1>1. \A k \in 1 .. n : texts[k] \in Seq(Word)
  BY <1>0
<1>2. step \in [Seq(Word) \X (1 .. n) -> Seq(Word)]
  BY <1>1, TailIsEnough
<1>3. \A x \in Seq(Word) : \A k \in 1 .. n : step[<<x, k>>] = Join(x, texts[k])
  OBVIOUS
<1> HIDE DEF step
<1>4. PICK f \in [0 .. n -> Seq(Word)] :
        f[0] = <<>> /\ \A k \in 1 .. n : f[k] = step[<<f[k - 1], k>>]
  <2>0. <<>> \in Seq(Word)
    OBVIOUS
  <2>1. \E f : Walk(f, Seq(Word), <<>>, step, n)
    BY <1>2, <2>0, StepsExist
  <2> QED
    BY <2>1 DEF Walk
<1>5. \A k \in 1 .. n : f[k] = Join(f[k - 1], texts[k])
  <2> SUFFICES ASSUME NEW k \in 1 .. n
               PROVE  f[k] = Join(f[k - 1], texts[k])
    OBVIOUS
  <2>1. f[k] = step[<<f[k - 1], k>>]
    BY <1>4
  <2>2. f[k - 1] \in Seq(Word)
    BY <1>4
  <2> QED
    BY <1>3, <2>1, <2>2
<1>6. f = Loop(f)
  BY <1>4, <1>5
<1>7. g = Loop(g)
  BY <1>6
<1>8. InOrder(texts) = g
  BY <1>0 DEF InOrder
<1>9. g[0] = <<>> /\ \A k \in 1 .. n : g[k] = Join(g[k - 1], texts[k])
  <2> HIDE DEF g
  <2> QED
    BY <1>7
<1> HIDE DEF g
<1> DEFINE T == {k \in 0 .. n : g[k] \in Seq(Word)}
<1>10. T = 0 .. n
  <2>1. 0 \in T
    <3>1. 0 \in 0 .. n /\ g[0] = <<>> /\ <<>> \in Seq(Word)
      BY <1>9
    <3> QED
      BY ONLY <3>1
  <2>2. ASSUME NEW k \in 1 .. n, k - 1 \in T
        PROVE  k \in T
    <3>1. k \in 0 .. n /\ g[k - 1] \in Seq(Word) /\ texts[k] \in Seq(Word)
      BY <1>1, <2>2
    <3>2. g[k] \in Seq(Word)
      BY <1>9, <3>1, TailIsEnough
    <3> QED
      BY <3>1, <3>2
  <2>3. T \in SUBSET (0 .. n)
    OBVIOUS
  <2> HIDE DEF T
  <2> QED
    BY <2>1, <2>2, <2>3, SetInduction
<1>11. \A k \in 0 .. n : g[k] \in Seq(Word)
  BY <1>10
<1> QED
  BY <1>0, <1>8, <1>9, <1>11

\* From an assembler that shows the first texts in order, releasing the next ones
\* shows them in order too, and remembers the end of what it shows.
LEMMA ReleaseAssembles ==
  ASSUME NEW texts \in Seq(Seq(Word)), NEW s \in Assembler, NEW run \in Seq(Seq(Word)),
         s.next + Len(run) <= Len(texts),
         \A k \in 1 .. Len(run) : run[k] = texts[s.next + k],
         s.transcript = InOrder(texts)[s.next], s.tail = TailOf(s.transcript)
  PROVE  /\ Release(s, run) \in Assembler
         /\ Release(s, run).next = s.next + Len(run)
         /\ Release(s, run).pending = s.pending
         /\ Release(s, run).transcript = InOrder(texts)[s.next + Len(run)]
         /\ Release(s, run).tail = TailOf(Release(s, run).transcript)
<1>0. PICK n \in Nat, i \in Nat : n = Len(run) /\ i = s.next /\ i + n <= Len(texts)
  BY DEF Assembler
<1>1. PICK f \in [0 .. n -> Assembler] :
        /\ f[0] = s
        /\ \A k \in 1 .. n : f[k] = AppendNext(f[k - 1], run[k])
        /\ Release(s, run) = f[n]
  BY <1>0, ReleaseIs
<1> DEFINE good(x, k) == /\ x.next = i + k
                         /\ x.pending = s.pending
                         /\ x.transcript = InOrder(texts)[i + k]
                         /\ x.tail = TailOf(x.transcript)
           T == {k \in 0 .. n : good(f[k], k)}
<1>2. 0 \in T
  BY <1>0, <1>1
<1>3. ASSUME NEW k \in 1 .. n, k - 1 \in T
      PROVE  k \in T
  <2>0. k - 1 \in 0 .. n /\ k \in 0 .. n /\ good(f[k - 1], k - 1)
    BY <1>3
  <2> HIDE DEF T
  <2>1. PICK m \in 1 .. Len(texts) : m = i + k /\ m - 1 = i + (k - 1)
    <3>1. PICK l \in Nat : l = Len(texts) /\ i + n <= l
      BY <1>0
    <3>2. i \in Nat /\ n \in Nat /\ k \in Nat /\ 1 <= k /\ k <= n
      OBVIOUS
    <3>3. i + k \in 1 .. l /\ i + k - 1 = i + (k - 1)
      BY ONLY <3>1, <3>2
    <3> QED
      BY ONLY <3>1, <3>3
  <2>2. PICK x \in Assembler : x = f[k - 1]
    BY <2>0
  <2>3. /\ x.next = m - 1 /\ x.pending = s.pending
        /\ x.transcript = InOrder(texts)[m - 1] /\ x.tail = TailOf(x.transcript)
    BY <2>0, <2>1, <2>2
  <2>4. run[k] = texts[m] /\ texts[m] \in Seq(Word)
    <3>1. k \in 1 .. Len(run) /\ s.next + k = m
      BY <1>0, <2>1
    <3>2. run[k] = texts[s.next + k]
      BY <3>1
    <3>3. texts[m] \in Seq(Word)
      OBVIOUS
    <3> QED
      BY <3>1, <3>2, <3>3
  <2>5. PICK y : y = f[k] /\ y = AppendNext(x, texts[m])
    BY <1>1, <2>2, <2>4
  <2>6. PICK t \in Seq(Word) : t = x.transcript
    BY <2>2 DEF Assembler
  <2>7. PICK kept \in Seq(Word) : kept = Stitch(TailOf(t), texts[m])
    BY <2>4, TailOfIs, StitchIs
  <2>8. /\ y.next = m - 1 + 1 /\ y.pending = s.pending
        /\ y.transcript = t \o kept /\ y.tail = Remember(TailOf(t), kept)
    <3>1. PICK text \in Seq(Word) : text = texts[m]
      BY <2>4
    <3>2. /\ y.next = x.next + 1 /\ y.pending = x.pending
          /\ y.transcript = x.transcript \o Stitch(x.tail, text)
          /\ y.tail = Remember(x.tail, Stitch(x.tail, text))
      <4>1. /\ AppendNext(x, text).next = x.next + 1
            /\ AppendNext(x, text).pending = x.pending
            /\ AppendNext(x, text).transcript = x.transcript \o Stitch(x.tail, text)
            /\ AppendNext(x, text).tail = Remember(x.tail, Stitch(x.tail, text))
        BY TurnIs
      <4>2. y = AppendNext(x, text)
        BY <2>5, <3>1
      <4> QED
        BY <4>1, <4>2
    <3> QED
      BY <2>3, <2>6, <2>7, <3>1, <3>2
  <2>9. y.transcript = InOrder(texts)[m]
    <3>1. InOrder(texts)[m] = Join(t, texts[m])
      BY <2>3, <2>6, InOrderIs
    <3>2. Join(t, texts[m]) = t \o kept
      BY <2>4, <2>7, TailIsEnough
    <3> QED
      BY <2>8, <3>1, <3>2
  <2>10. y.tail = TailOf(y.transcript)
    BY <2>8, TailIsKept
  <2>11. good(f[k], k)
    BY <2>1, <2>5, <2>8, <2>9, <2>10
  <2> QED
    BY <2>0, <2>11 DEF T
<1>4. T \in SUBSET (0 .. n)
  OBVIOUS
<1>5. n \in T
  <2> HIDE DEF T
  <2>1. T = 0 .. n
    BY <1>2, <1>3, <1>4, SetInduction
  <2> QED
    BY <2>1
<1>6. f[n] \in Assembler
  OBVIOUS
<1> QED
  BY <1>0, <1>1, <1>5, <1>6

\* The run that is released ends before the first index that has not come.
LEMMA RunIs ==
  ASSUME NEW s \in Assembler, NEW m \in Nat, s.next <= m,
         m \notin DOMAIN s.pending,
         \A j \in s.next .. m - 1 : j \in DOMAIN s.pending
  PROVE  /\ Run(s) \in Seq(Seq(Word))
         /\ Len(Run(s)) = m - s.next
         /\ \A k \in 1 .. m - s.next : Run(s)[k] = s.pending[s.next + k - 1]
<1>1. PICK n \in Nat, D \in SUBSET Nat, p \in Pending :
        n = s.next /\ p = s.pending /\ D = DOMAIN p /\ p \in [D -> Seq(Word)]
  <2>1. s.next \in Nat /\ s.pending \in Pending
    BY DEF Assembler
  <2>2. PICK E \in SUBSET Nat : s.pending \in [E -> Seq(Word)]
    BY <2>1 DEF Pending
  <2> QED
    BY <2>1, <2>2
<1>2. n <= m /\ m \notin D /\ \A j \in n .. m - 1 : j \in D
  BY <1>1
<1> DEFINE run == {i \in D : \A j \in n .. i : j \in D}
           ready == {i \in run : i >= n}
<1>3. ready = n .. m - 1
  <2>1. ASSUME NEW i \in ready
        PROVE  i \in n .. m - 1
    <3>1. i \in Nat /\ i >= n /\ \A j \in n .. i : j \in D
      OBVIOUS
    <3>2. ~ (m <= i)
      BY <1>2, <3>1
    <3> QED
      BY <3>1, <3>2
  <2>2. ASSUME NEW i \in n .. m - 1
        PROVE  i \in ready
    <3>1. i \in D /\ i >= n
      BY <1>2
    <3>2. \A j \in n .. i : j \in n .. m - 1
      OBVIOUS
    <3>3. \A j \in n .. i : j \in D
      BY <1>2, <3>2
    <3> QED
      BY <3>1, <3>3
  <2> HIDE DEF ready
  <2> QED
    BY <2>1, <2>2
<1>4. PICK l \in Nat : l = m - n
  BY <1>2
<1>5. Cardinality(ready) = l
  <2>1. n \in Int /\ m - 1 \in Int
    OBVIOUS
  <2>2. Cardinality(n .. m - 1) = IF n > m - 1 THEN 0 ELSE m - 1 - n + 1
    BY <2>1, FS_Interval
  <2>3. m - 1 - n + 1 = l /\ (n > m - 1 => l = 0)
    BY <1>2, <1>4
  <2> HIDE DEF ready
  <2> QED
    BY <1>3, <2>2, <2>3
<1>6. Run(s) = [k \in 1 .. l |-> p[n + k - 1]]
  <2>1. Run(s) = [k \in 1 .. Cardinality(ready) |-> p[n + k - 1]]
    BY <1>1 DEF Run
  <2> HIDE DEF ready
  <2> QED
    BY <1>5, <2>1
<1>7. ASSUME NEW k \in 1 .. l
      PROVE  p[n + k - 1] \in Seq(Word)
  <2>1. n + k - 1 \in n .. m - 1
    BY <1>4
  <2>2. n + k - 1 \in D
    BY <1>2, <2>1
  <2> QED
    BY <1>1, <2>2
<1>8. Run(s) \in Seq(Seq(Word)) /\ Len(Run(s)) = l
  BY <1>6, <1>7
<1> QED
  BY <1>1, <1>4, <1>6, <1>8

-----------------------------------------------------------------------------
(***************************************************************************)
(* Windows of different words                                              *)
(***************************************************************************)

\* The words at the positions f are `words', and f names each of `positions' once, in
\* ascending order.
Lists(f, words, said, positions) ==
  /\ f \in [1 .. Len(words) -> positions]
  /\ \A i, j \in 1 .. Len(words) : i < j => f[i] < f[j]
  /\ \A p \in positions : \E i \in 1 .. Len(words) : f[i] = p
  /\ \A i \in 1 .. Len(words) : words[i] = said[f[i]]

\* Words that are listed so are those that the positions select.
LEMMA ListedAreSelected ==
  ASSUME NEW said \in Seq(Word), NEW words \in Seq(Word),
         NEW positions \in SUBSET (1 .. Len(said)), NEW f, Lists(f, words, said, positions)
  PROVE  Selects(words, said, positions)
<1>0. PICK n \in Nat : n = Len(words)
  OBVIOUS
<1>0a. \A p \in positions : p \in Nat
  OBVIOUS
<1>1. /\ f \in [1 .. n -> positions]
      /\ \A i, j \in 1 .. n : i < j => f[i] < f[j]
      /\ \A p \in positions : \E i \in 1 .. n : f[i] = p
      /\ \A i \in 1 .. n : words[i] = said[f[i]]
  BY <1>0 DEF Lists
<1>2. \A i, j \in 1 .. n : f[i] = f[j] => i = j
  <2> SUFFICES ASSUME NEW i \in 1 .. n, NEW j \in 1 .. n, f[i] = f[j], i # j
               PROVE  FALSE
    OBVIOUS
  <2>0. f[i] \in positions /\ f[j] \in positions
    BY <1>1
  <2>1. f[i] \in Nat /\ f[j] \in Nat
    BY <1>0a, <2>0
  <2>2. i < j \/ j < i
    OBVIOUS
  <2> QED
    BY <1>1, <2>1, <2>2
<1>3. ASSUME NEW m \in 1 .. n
      PROVE  Cardinality({q \in positions : q <= f[m]}) = m
  <2> DEFINE S == {q \in positions : q <= f[m]}
             g == [i \in 1 .. m |-> f[i]]
  <2>0. \A i \in 1 .. n : f[i] \in positions
    BY <1>1
  <2>0a. \A i \in 1 .. m : i \in 1 .. n
    OBVIOUS
  <2>1. \A i \in 1 .. m : i \in 1 .. n /\ f[i] \in positions /\ f[i] \in Nat
    BY <1>0a, <2>0, <2>0a
  <2>2. \A i \in 1 .. m : f[i] \in S
    <3> SUFFICES ASSUME NEW i \in 1 .. m
                 PROVE  f[i] <= f[m]
      BY <2>1
    <3>1. i = m \/ i < m
      OBVIOUS
    <3>2. i < m => f[i] < f[m]
      BY <1>1, <2>1
    <3> QED
      BY <2>1, <3>1, <3>2
  <2>3. g \in [1 .. m -> S]
    BY <2>2
  <2>4. \A i, j \in 1 .. m : g[i] = g[j] => i = j
    BY <1>2, <2>1
  <2>5. ASSUME NEW q \in S
        PROVE  \E i \in 1 .. m : g[i] = q
    <3>1. PICK i \in 1 .. n : f[i] = q
      BY <1>1
    <3>2. ~ (m < i)
      <4>1. m < i => f[m] < f[i]
        BY <1>1
      <4>2. f[i] <= f[m] /\ f[i] \in Nat /\ f[m] \in Nat
        <5>1. f[i] \in positions /\ f[m] \in positions /\ f[i] <= f[m]
          BY <1>1, <3>1
        <5> QED
          BY <1>0a, <5>1
      <4> QED
        BY <4>1, <4>2
    <3>3. i \in 1 .. m
      BY <3>2
    <3> QED
      BY <3>1, <3>3
  <2>6. g \in Bijection(1 .. m, S)
    <3> HIDE DEF S, g
    <3>1. g \in Injection(1 .. m, S)
      BY <2>3, <2>4, Fun_IsInj
    <3>2. g \in Surjection(1 .. m, S)
      BY <2>3, <2>5, Fun_IsSurj
    <3> QED
      BY <3>1, <3>2 DEF Bijection
  <2>7. ExistsBijection(1 .. m, S)
    <3> HIDE DEF S, g
    <3> QED
      BY <2>6 DEF ExistsBijection
  <2> HIDE DEF S
  <2>8. Cardinality(S) = m
    BY <2>7, FS_CountingElements
  <2> QED
    BY <2>8 DEF S
<1>4. Cardinality(positions) = n
  <2>1. f \in Injection(1 .. n, positions)
    BY <1>1, <1>2, Fun_IsInj
  <2>2. f \in Surjection(1 .. n, positions)
    BY <1>1, Fun_IsSurj
  <2>3. f \in Bijection(1 .. n, positions)
    BY <2>1, <2>2 DEF Bijection
  <2>4. ExistsBijection(1 .. n, positions)
    BY <2>3 DEF ExistsBijection
  <2> QED
    BY <2>4, FS_CountingElements
<1>5. ASSUME NEW p \in positions
      PROVE  words[Cardinality({q \in positions : q <= p})] = said[p]
  <2>1. PICK m \in 1 .. n : f[m] = p
    BY <1>1
  <2>2. Cardinality({q \in positions : q <= p}) = m
    BY <1>3, <2>1
  <2> QED
    BY <1>1, <2>1, <2>2
<1> QED
  BY <1>0, <1>4, <1>5 DEF Selects

\* x is the greatest of the positions that are listed, and all from s + 1 to it are.
EndsWith(positions, s, x) ==
  /\ s \in Nat /\ x \in Nat /\ s <= x
  /\ \A p \in positions : p \in Nat /\ p <= x
  /\ \A p \in s + 1 .. x : p \in positions

\* If all the positions from s + 1 to the greatest one, x, are listed, then they are listed
\* last.
LEMMA LastAreListedLast ==
  ASSUME NEW words \in Seq(Word), NEW said,
         NEW positions, NEW f, Lists(f, words, said, positions),
         NEW s \in Nat, NEW x \in Nat, EndsWith(positions, s, x)
  PROVE  /\ x - s <= Len(words)
         /\ \A i \in 1 .. Len(words) : Len(words) < i + (x - s) => f[i] = x - (Len(words) - i)
<1> PICK l \in Nat : l = Len(words)
  OBVIOUS
<1> SUFFICES x - s <= l /\ \A i \in 1 .. l : l < i + (x - s) => f[i] = x - (l - i)
  OBVIOUS
<1>0a. /\ f \in [1 .. l -> positions]
       /\ \A i, j \in 1 .. l : i < j => f[i] < f[j]
       /\ \A p \in positions : \E i \in 1 .. l : f[i] = p
  BY DEF Lists
<1>0b. /\ s \in Nat /\ x \in Nat /\ s <= x
       /\ \A p \in positions : p \in Nat /\ p <= x
       /\ \A p \in s + 1 .. x : p \in positions
  BY DEF EndsWith
<1>0. \A i \in 1 .. l : f[i] \in positions /\ f[i] \in Nat /\ f[i] <= x
  BY <1>0a, <1>0b
<1> USE <1>0a, <1>0b
<1>1. CASE s = x
  <2>1. x - s = 0
    BY <1>1
  <2> QED
    BY <2>1
<1>2. CASE s < x
  <2>1. PICK n \in Nat : n = x - s - 1
    BY <1>2
  <2> DEFINE T == {d \in 0 .. n : d < l /\ f[l - d] = x - d}
  <2>2. 0 \in T
    <3>1. PICK i \in 1 .. l : f[i] = x
      BY <1>2
    <3>2. ~ (i < l)
      <4>1. i < l => f[i] < f[l]
        OBVIOUS
      <4>2. f[l] <= x
        BY <1>0, <3>1
      <4>3. f[l] \in Nat
        BY <1>0, <3>1
      <4> QED
        BY <3>1, <4>1, <4>2, <4>3
    <3>3. i = l /\ 0 < l
      BY <3>2
    <3>4. l - 0 = l /\ x - 0 = x
      OBVIOUS
    <3> QED
      BY <3>1, <3>3, <3>4
  <2>3. ASSUME NEW d \in 1 .. n, d - 1 \in T
        PROVE  d \in T
    <3>1. PICK k \in 1 .. l, y \in Nat :
            k = l - (d - 1) /\ y = x - d /\ f[k] = y + 1 /\ y \in s + 1 .. x
      <4>1. d - 1 < l /\ f[l - (d - 1)] = x - (d - 1)
        BY <2>3
      <4>2. l - (d - 1) \in 1 .. l /\ x - d \in Nat /\ x - (d - 1) = x - d + 1
              /\ x - d \in s + 1 .. x
        BY <2>1, <4>1
      <4> QED
        BY <4>1, <4>2
    <3>2. PICK i \in 1 .. l : f[i] = y
      BY <3>1
    <3>3. i < k
      <4>1. i # k
        BY ONLY <3>1, <3>2, y \in Nat
      <4>2. ~ (k < i)
        <5>1. k < i => f[k] < f[i]
          OBVIOUS
        <5> QED
          BY <3>1, <3>2, <5>1
      <4> QED
        BY <4>1, <4>2
    <3>4. PICK h \in 1 .. l : h = k - 1 /\ h = l - d
      <4>1. l - (d - 1) - 1 = l - d /\ k - 1 \in 1 .. l
        BY <3>3
      <4> QED
        BY <3>1, <4>1
    <3>5. f[h] < f[k] /\ f[h] \in Nat
      <4>1. h < k
        BY <3>4
      <4> QED
        BY <1>0, <4>1
    <3>6. ~ (i < h)
      <4>1. i < h => f[i] < f[h]
        OBVIOUS
      <4> QED
        BY <3>1, <3>2, <3>5, <4>1
    <3>7. i = h
      BY <3>3, <3>4, <3>6
    <3>8. d < l /\ f[l - d] = x - d /\ d \in 0 .. n
      BY <3>1, <3>2, <3>4, <3>7
    <3> QED
      BY <3>8
  <2>4. T = 0 .. n
    <3>1. T \in SUBSET (0 .. n)
      OBVIOUS
    <3> HIDE DEF T
    <3> QED
      BY <2>2, <2>3, <3>1, SetInduction
  <2>5. n < l
    <3>1. n \in T
      <4> HIDE DEF T
      <4> QED
        BY <2>4
    <3> QED
      BY <3>1
  <2>6. ASSUME NEW i \in 1 .. l, l < i + (x - s)
        PROVE  f[i] = x - (l - i)
    <3>1. PICK d \in 0 .. n : d = l - i
      <4>1. l - i \in 0 .. n
        BY ONLY <2>1, <2>6, l \in Nat, n \in Nat, s \in Nat, x \in Nat
      <4> QED
        BY <4>1
    <3>2. d \in T
      <4> HIDE DEF T
      <4> QED
        BY <2>4
    <3>3. f[l - d] = x - d
      BY <3>2
    <3>4. l - d = i
      BY <3>1
    <3> QED
      BY <3>1, <3>3, <3>4
  <2>7. x - s <= l
    BY <2>1, <2>5
  <2> QED
    BY <2>6, <2>7
<1> QED
  BY <1>1, <1>2

\* The words said are all different at a seam.
AllDifferent(said) ==
  \A p, q \in 1 .. Len(said) : Norm[said[p]] = Norm[said[q]] => p = q

\* A window of different words, of which those up to x are what the listed words end with,
\* loses exactly these at the seam: with the rest, each word is listed once.
LEMMA WindowIsStitched ==
  ASSUME NEW said \in Seq(Word), AllDifferent(said),
         NEW t \in Seq(Word), NEW positions \in SUBSET (1 .. Len(said)),
         NEW f, Lists(f, t, said, positions),
         NEW s \in Nat, NEW x \in Nat, NEW e \in Nat, EndsWith(positions, s, x),
         x <= e, e <= Len(said), x - s <= MaxOverlap
  PROVE  \E g : Lists(g, Join(t, SubSeq(said, s + 1, e)), said, positions \cup (s + 1 .. e))
<1>00. s <= x /\ (\A p \in positions : p \in Nat /\ p <= x) /\ (\A p \in s + 1 .. x : p \in positions)
  BY DEF EndsWith
<1>0. PICK l \in Nat, n \in Nat, k \in Nat, M \in Nat :
        l = Len(t) /\ n = Len(said) /\ k = e - s /\ M = MaxOverlap
  <2>1. Len(t) \in Nat /\ Len(said) \in Nat /\ MaxOverlap \in Nat /\ e - s \in Nat
    BY <1>00, ReassemblyAssumption
  <2> QED
    BY <2>1
<1>0a. PICK text \in Seq(Word) :
         /\ text = SubSeq(said, s + 1, e) /\ Len(text) = k
         /\ \A i \in 1 .. k : text[i] = said[s + i]
  <2>1. \A i \in s + 1 .. e : said[i] \in Word
    <3> SUFFICES ASSUME NEW i \in s + 1 .. e
                 PROVE  said[i] \in Word
      OBVIOUS
    <3>1. i \in 1 .. Len(said)
      OBVIOUS
    <3> QED
      BY <3>1
  <2>2. /\ SubSeq(said, s + 1, e) \in Seq(Word)
        /\ Len(SubSeq(said, s + 1, e)) = IF s + 1 <= e THEN e - (s + 1) + 1 ELSE 0
        /\ \A i \in 1 .. e - (s + 1) + 1 : SubSeq(said, s + 1, e)[i] = said[(s + 1) + i - 1]
    BY <2>1, SubSeqProperties
  <2>3. e - (s + 1) + 1 = k /\ (IF s + 1 <= e THEN e - (s + 1) + 1 ELSE 0) = k
    BY <1>0, <1>00
  <2>4. \A i \in 1 .. k : (s + 1) + i - 1 = s + i
    OBVIOUS
  <2>5. PICK text : text = SubSeq(said, s + 1, e)
    OBVIOUS
  <2>6. text \in Seq(Word) /\ Len(text) = k /\ \A i \in 1 .. k : text[i] = said[(s + 1) + i - 1]
    BY <2>2, <2>3, <2>5
  <2>7. \A i \in 1 .. k : text[i] = said[s + i]
    BY <2>4, <2>6
  <2> QED
    BY <2>5, <2>6, <2>7
<1>1. /\ f \in [1 .. l -> positions]
      /\ \A i, j \in 1 .. l : i < j => f[i] < f[j]
      /\ \A p \in positions : \E i \in 1 .. l : f[i] = p
      /\ \A i \in 1 .. l : t[i] = said[f[i]]
  BY <1>0 DEF Lists
<1>2. \A p \in positions : p \in Nat /\ p \in 1 .. n /\ p <= x
  BY <1>0, <1>00
<1>3. PICK m \in Nat : m = x - s /\ m <= l /\ m <= k /\ m <= M
                         /\ \A i \in 1 .. m : f[l - m + i] = s + i
  <2>4. x - s <= l /\ \A i \in 1 .. x - s : f[l - (x - s) + i] = s + i
    <3>1. Len(t) \in Nat /\ l = Len(t)
      BY <1>0
    <3>2. /\ x - s <= Len(t)
          /\ \A i \in 1 .. Len(t) : Len(t) < i + (x - s) => f[i] = x - (Len(t) - i)
      BY <3>1, LastAreListedLast
    <3>3. x - s <= l /\ \A i \in 1 .. l : l < i + (x - s) => f[i] = x - (l - i)
      BY <3>1, <3>2
    <3>4. ASSUME NEW i \in 1 .. x - s
          PROVE  f[l - (x - s) + i] = s + i
      <4>1. PICK j \in 1 .. l : j = l - (x - s) + i /\ l < j + (x - s) /\ x - (l - j) = s + i
        <5>1. l - (x - s) + i \in 1 .. l
          BY <1>00, <3>3
        <5> QED
          BY <5>1
      <4> QED
        BY <3>3, <4>1
    <3> QED
      BY <3>3, <3>4
  <2>5. PICK m \in Nat : m = x - s
    BY <1>00
  <2>6. m <= k /\ m <= M
    BY <1>0, <2>5
  <2> QED
    BY <2>4, <2>5, <2>6
<1>4. PICK u \in Nat : u = Min({Len(t), Len(text), MaxOverlap}) /\ m <= u /\ u <= l /\ u <= k
  <2>1. /\ Min({l, k, M}) \in {l, k, M}
        /\ \A c \in {l, k, M} : Min({l, k, M}) <= c
    <3>1. {l, k, M} \in SUBSET Nat /\ {l, k, M} # {}
      OBVIOUS
    <3> QED
      BY ONLY <3>1, MinExists
  <2>2. m <= Min({l, k, M}) /\ Min({l, k, M}) \in Nat
    BY <1>3, <2>1
  <2> QED
    BY <1>0, <1>0a, <2>1, <2>2
<1> DEFINE K == {c \in 0 .. u : Normalised(LastWords(t, c)) = Normalised(SubSeq(text, 1, c))}
<1>5. \A c \in 0 .. u :
        /\ LastWords(t, c) \in Seq(Word) /\ Len(LastWords(t, c)) = c
        /\ \A i \in 1 .. c : LastWords(t, c)[i] = said[f[l - c + i]]
        /\ SubSeq(text, 1, c) \in Seq(Word) /\ Len(SubSeq(text, 1, c)) = c
        /\ \A i \in 1 .. c : SubSeq(text, 1, c)[i] = said[s + i]
  <2> SUFFICES ASSUME NEW c \in 0 .. u
               PROVE  /\ LastWords(t, c) \in Seq(Word) /\ Len(LastWords(t, c)) = c
                      /\ \A i \in 1 .. c : LastWords(t, c)[i] = said[f[l - c + i]]
                      /\ SubSeq(text, 1, c) \in Seq(Word) /\ Len(SubSeq(text, 1, c)) = c
                      /\ \A i \in 1 .. c : SubSeq(text, 1, c)[i] = said[s + i]
    OBVIOUS
  <2>1. /\ LastWords(t, c) \in Seq(Word) /\ Len(LastWords(t, c)) = c
        /\ \A i \in 1 .. c : LastWords(t, c)[i] = t[l - c + i]
    <3>1. c \in 0 .. l /\ l = Len(t)
      BY <1>0, <1>4
    <3> QED
      BY ONLY <3>1, t \in Seq(Word), l \in Nat, LastWordsOf
  <2>2. \A i \in 1 .. c : t[l - c + i] = said[f[l - c + i]]
    <3>1. \A i \in 1 .. c : l - c + i \in 1 .. l
      BY <1>4
    <3> QED
      BY <1>1, <3>1
  <2>3. c <= k
    BY <1>4
  <2>4. \A i \in 1 .. c : text[i] \in Word /\ text[i] = said[s + i]
    <3>1. \A i \in 1 .. c : i \in 1 .. k
      BY <2>3
    <3>2. \A i \in 1 .. k : text[i] \in Word
      BY ONLY <1>0a, text \in Seq(Word)
    <3> QED
      BY <1>0a, <3>1, <3>2
  <2>5. /\ SubSeq(text, 1, c) \in Seq(Word)
        /\ Len(SubSeq(text, 1, c)) = IF 1 <= c THEN c - 1 + 1 ELSE 0
        /\ \A i \in 1 .. c - 1 + 1 : SubSeq(text, 1, c)[i] = text[1 + i - 1]
    <3>1. 1 \in Int /\ c \in Int /\ \A i \in 1 .. c : text[i] \in Word
      BY <2>4
    <3> QED
      BY ONLY <3>1, SubSeqProperties
  <2>6. /\ c - 1 + 1 = c /\ (IF 1 <= c THEN c - 1 + 1 ELSE 0) = c
        /\ \A i \in 1 .. c : 1 + i - 1 = i
    OBVIOUS
  <2>7. Len(SubSeq(text, 1, c)) = c /\ \A i \in 1 .. c : SubSeq(text, 1, c)[i] = text[1 + i - 1]
    BY <2>5, <2>6
  <2>8. \A i \in 1 .. c : SubSeq(text, 1, c)[i] = said[s + i]
    BY <2>4, <2>6, <2>7
  <2> QED
    BY <2>1, <2>2, <2>5, <2>7, <2>8
<1>6. m \in K
  <2>1. m \in 0 .. u
    BY <1>4
  <2>2. \A i \in 1 .. m : LastWords(t, m)[i] = SubSeq(text, 1, m)[i]
    <3>1. \A i \in 1 .. m : LastWords(t, m)[i] = said[f[l - m + i]]
      BY <1>5, <2>1
    <3>2. \A i \in 1 .. m : SubSeq(text, 1, m)[i] = said[s + i]
      BY <1>5, <2>1
    <3>3. \A i \in 1 .. m : f[l - m + i] = s + i
      BY <1>3
    <3> QED
      BY ONLY <3>1, <3>2, <3>3
  <2>3. LastWords(t, m) = SubSeq(text, 1, m)
    BY <1>5, <2>1, <2>2, SeqEqual
  <2> QED
    BY <2>1, <2>3
<1>7. ASSUME NEW c \in K
      PROVE  c <= m
  <2> SUFFICES ASSUME c > 0
               PROVE  c <= m
    BY <1>3
  <2>1. c \in 0 .. u /\ c \in 1 .. c /\ l - c + c = l /\ l \in 1 .. l /\ s + c \in 1 .. n
    BY <1>0, <1>4
  <2>2. Normalised(LastWords(t, c))[c] = Norm[said[f[l]]]
    <3>1. LastWords(t, c)[c] = said[f[l - c + c]]
      BY <1>5, <2>1
    <3> QED
      BY <1>5, <2>1, <3>1 DEF Normalised
  <2>3. Normalised(SubSeq(text, 1, c))[c] = Norm[said[s + c]]
    BY <1>5, <2>1 DEF Normalised
  <2>4. f[l] \in 1 .. n /\ f[l] <= x
    BY <1>1, <1>2, <2>1
  <2>5. f[l] = s + c
    <3>1. Norm[said[f[l]]] = Norm[said[s + c]]
      BY <2>2, <2>3
    <3>2. \A p, q \in 1 .. n : Norm[said[p]] = Norm[said[q]] => p = q
      BY <1>0 DEF AllDifferent
    <3> QED
      BY <2>1, <2>4, <3>1, <3>2
  <2> QED
    BY <1>3, <2>4, <2>5
<1>8. Max(K) = m
  <2>1. \A c \in K : c \in Nat
    OBVIOUS
  <2> HIDE DEF K
  <2>2. Max(K) \in K /\ \A c \in K : Max(K) >= c
    <3>1. \E y \in K : \A c \in K : y >= c
      BY <1>6, <1>7, <2>1
    <3> QED
      BY <3>1 DEF Max
  <2>3. PICK c \in K : c = Max(K)
    BY <2>2
  <2>4. c >= m /\ c <= m /\ c \in Nat
    BY <1>6, <1>7, <2>1, <2>2, <2>3
  <2> QED
    BY <2>3, <2>4
<1>9. PICK rest \in Seq(Word), r \in Nat :
        /\ Join(t, text) = t \o rest /\ r = e - x /\ Len(rest) = r
        /\ \A i \in 1 .. r : rest[i] = said[x + i]
  <2>1. Join(t, text) = t \o SubSeq(text, m + 1, k)
    <3>1. Join(t, text) = t \o SubSeq(text, Max(K) + 1, k)
      BY <1>0, <1>0a, <1>4 DEF Join
    <3> HIDE DEF K
    <3> QED
      BY <1>8, <3>1
  <2>2. \A i \in m + 1 .. k : text[i] \in Word
    <3>1. \A i \in m + 1 .. k : i \in 1 .. Len(text)
      BY <1>0a
    <3> QED
      BY <3>1
  <2>3. /\ SubSeq(text, m + 1, k) \in Seq(Word)
        /\ Len(SubSeq(text, m + 1, k)) = IF m + 1 <= k THEN k - (m + 1) + 1 ELSE 0
        /\ \A i \in 1 .. k - (m + 1) + 1 : SubSeq(text, m + 1, k)[i] = text[(m + 1) + i - 1]
    BY <2>2, SubSeqProperties
  <2>4. k - (m + 1) + 1 = e - x /\ e - x \in Nat
    BY <1>0, <1>3
  <2>5. Len(SubSeq(text, m + 1, k)) = e - x
    BY <1>0, <1>3, <2>3
  <2>6. ASSUME NEW i \in 1 .. e - x
        PROVE  text[(m + 1) + i - 1] = said[x + i]
    <3>1. (m + 1) + i - 1 \in 1 .. k /\ s + ((m + 1) + i - 1) = x + i
      BY <1>0, <1>3
    <3> QED
      BY <1>0a, <3>1
  <2>7. PICK r \in Nat : r = e - x
    BY <2>4
  <2>8. PICK rest : rest = SubSeq(text, m + 1, k)
    OBVIOUS
  <2>9. rest \in Seq(Word) /\ Len(rest) = r
    BY <2>3, <2>5, <2>7, <2>8
  <2>10. \A i \in 1 .. r : rest[i] = text[(m + 1) + i - 1]
    BY <2>3, <2>4, <2>7, <2>8
  <2>11. \A i \in 1 .. r : rest[i] = said[x + i]
    BY <2>6, <2>7, <2>10
  <2> QED
    BY <2>1, <2>7, <2>8, <2>9, <2>11
<1> HIDE DEF K
<1>10. PICK v : v = Join(t, text) /\ Len(v) = l + r
                 /\ \A i \in 1 .. l + r : v[i] = IF i <= l THEN t[i] ELSE rest[i - l]
  <2>1. /\ Len(t \o rest) = Len(t) + Len(rest)
        /\ \A i \in 1 .. Len(t) + Len(rest) :
             (t \o rest)[i] = IF i <= Len(t) THEN t[i] ELSE rest[i - Len(t)]
    BY ConcatProperties
  <2>2. Len(t) = l /\ Len(rest) = r
    BY <1>0, <1>9
  <2>3. /\ Len(t \o rest) = l + r
        /\ \A i \in 1 .. l + r : (t \o rest)[i] = IF i <= l THEN t[i] ELSE rest[i - l]
    BY ONLY <2>1, <2>2
  <2> QED
    BY <1>9, <2>3
<1>11. PICK P : P = positions \cup (s + 1 .. e)
  OBVIOUS
<1> DEFINE g == [i \in 1 .. l + r |-> IF i <= l THEN f[i] ELSE x + (i - l)]
<1>12. \A i \in 1 .. l : g[i] = f[i] /\ f[i] \in positions
  BY <1>1
<1>13. \A i \in l + 1 .. l + r : g[i] = x + (i - l) /\ x + (i - l) \in s + 1 .. e
  BY <1>00, <1>9
<1>14. \A i \in 1 .. l + r : i \in 1 .. l \/ i \in l + 1 .. l + r
  OBVIOUS
<1>15. g \in [1 .. l + r -> P]
  <2>1. \A i \in 1 .. l + r : g[i] \in P
    <3> HIDE DEF g
    <3> QED
      BY <1>11, <1>12, <1>13, <1>14
  <2> QED
    BY <2>1
<1> HIDE DEF g
<1>16. ASSUME NEW i \in 1 .. l + r, NEW j \in 1 .. l + r, i < j
       PROVE  g[i] < g[j]
  <2>1. CASE i <= l /\ j <= l
    BY <1>1, <1>12, <1>16, <2>1
  <2>2. CASE i <= l /\ ~ (j <= l)
    <3>1. i \in 1 .. l /\ j \in l + 1 .. l + r
      BY <2>2
    <3>2. g[i] = f[i] /\ f[i] \in positions /\ g[j] = x + (j - l)
      BY <1>12, <1>13, <3>1
    <3>3. f[i] <= x /\ f[i] \in Nat
      BY <1>2, <3>2
    <3> QED
      BY <3>1, <3>2, <3>3
  <2>3. CASE ~ (i <= l)
    <3>1. g[i] = x + (i - l) /\ g[j] = x + (j - l)
      BY <1>13, <1>16, <2>3
    <3> QED
      BY <1>16, <3>1
  <2> QED
    BY <2>1, <2>2, <2>3
<1>17. ASSUME NEW p \in P
       PROVE  \E i \in 1 .. l + r : g[i] = p
  <2>1. CASE p \in positions
    <3>1. PICK i \in 1 .. l : f[i] = p
      BY <1>1, <2>1
    <3> QED
      BY <1>12, <3>1
  <2>2. CASE p \notin positions
    <3>1. p \in s + 1 .. e
      BY <1>11, <2>2
    <3>2. ~ (p <= x)
      BY <1>00, <2>2, <3>1
    <3>3. PICK i \in l + 1 .. l + r : i = l + (p - x) /\ x + (i - l) = p
      <4>1. p \in Nat /\ p > x /\ p <= e /\ r = e - x
        BY <1>9, <3>1, <3>2
      <4>2. l + (p - x) \in l + 1 .. l + r /\ x + ((l + (p - x)) - l) = p
        BY ONLY <4>1, l \in Nat, r \in Nat, x \in Nat, e \in Nat
      <4> QED
        BY <4>2
    <3>4. i \in 1 .. l + r
      BY <3>3
    <3> QED
      BY <1>13, <3>3, <3>4
  <2> QED
    BY <2>1, <2>2
<1>18. ASSUME NEW i \in 1 .. l + r
       PROVE  v[i] = said[g[i]]
  <2>1. CASE i <= l
    <3>1. i \in 1 .. l /\ v[i] = t[i]
      BY <1>10, <2>1
    <3> QED
      BY <1>1, <1>12, <3>1
  <2>2. CASE ~ (i <= l)
    <3>0. i \in l + 1 .. l + r /\ i - l \in 1 .. r
      BY ONLY <2>2, i \in 1 .. l + r, l \in Nat, r \in Nat
    <3>1. i \in l + 1 .. l + r /\ i - l \in 1 .. r /\ v[i] = rest[i - l]
      BY <1>10, <2>2, <3>0
    <3> QED
      BY <1>9, <1>13, <3>1
  <2> QED
    BY <2>1, <2>2
<1>19. Lists(g, v, said, P)
  BY <1>10, <1>15, <1>16, <1>17, <1>18 DEF Lists
<1> QED
  BY <1>0a, <1>10, <1>11, <1>19

\* Chunk k hears what was said from start[k] to end[k], unless it failed.  Windows follow
\* each other, and overlap no others than their neighbours.
HearInTurn(said, texts, failed, start, end) ==
  /\ start \in [1 .. Len(texts) -> Nat] /\ end \in [1 .. Len(texts) -> Nat]
  /\ \A k \in 1 .. Len(texts) :
       /\ texts[k] = IF k \in failed THEN <<>> ELSE SubSeq(said, start[k] + 1, end[k])
       /\ start[k] < end[k] /\ end[k] <= Len(said)
       /\ k = 1 => start[k] = 0
       /\ k > 1 => /\ start[k - 1] <= start[k] /\ start[k] <= end[k - 1] /\ end[k - 1] < end[k]
                   /\ end[k - 1] - start[k] <= MaxOverlap
       /\ k > 2 => end[k - 2] <= start[k]

\* So do the windows that split_samples cuts.
LEMMA WindowsHearInTurn ==
  ASSUME NEW said \in Seq(Word), NEW step \in Nat \ {0}, NEW overlap \in 0 .. step,
         overlap <= MaxOverlap, NEW failed
  PROVE  \E start, end :
           HearInTurn(said, Windows(said, step, overlap, failed), failed, start, end)
<1>0. PICK l \in Nat, M \in Nat : l = Len(said) /\ M = MaxOverlap
  BY ReassemblyAssumption
<1>0a. PICK n \in Nat : n = NumChunks(l, step)
  BY EnoughWindows
<1>0b. step \in Nat /\ step > 0 /\ overlap \in Nat /\ overlap <= step /\ overlap <= M
  BY <1>0
<1>1. PICK core \in [1 .. n -> Nat] : \A k \in 1 .. n : core[k] = step * (k - 1)
  <2>1. \A k \in 1 .. n : step * (k - 1) \in Nat
    OBVIOUS
  <2> DEFINE core == [k \in 1 .. n |-> step * (k - 1)]
  <2>2. core \in [1 .. n -> Nat]
    BY <2>1
  <2>3. \A k \in 1 .. n : core[k] = step * (k - 1)
    OBVIOUS
  <2> HIDE DEF core
  <2> QED
    BY <2>2, <2>3
<1>2. PICK S : S = [k \in 1 .. n |-> Segment(k - 1, l, step, overlap)]
  OBVIOUS
<1>3. \A k \in 1 .. n :
        /\ S[k].start \in Nat /\ S[k].end \in Nat
        /\ S[k].start = (IF core[k] >= overlap THEN core[k] - overlap ELSE 0)
        /\ S[k].end = (IF core[k] + step <= l THEN core[k] + step ELSE l)
        /\ core[k] < l
  <2> SUFFICES ASSUME NEW k \in 1 .. n
               PROVE  /\ S[k].start \in Nat /\ S[k].end \in Nat
                      /\ S[k].start = (IF core[k] >= overlap THEN core[k] - overlap ELSE 0)
                      /\ S[k].end = (IF core[k] + step <= l THEN core[k] + step ELSE l)
                      /\ core[k] < l
    OBVIOUS
  <2>1. PICK j \in Nat : j = k - 1 /\ j < NumChunks(l, step)
    BY <1>0a
  <2>2. S[k] = Segment(j, l, step, overlap) /\ core[k] = step * j
    BY <1>1, <1>2, <2>1
  <2> QED
    BY <2>1, <2>2, Cores
<1>4. PICK texts : /\ texts = Windows(said, step, overlap, failed)
                   /\ Len(texts) = n
                   /\ \A k \in 1 .. n :
                        texts[k] = IF k \in failed THEN <<>>
                                   ELSE SubSeq(said, S[k].start + 1, S[k].end)
  <2>1. Segments(l, step, overlap) = S
    BY <1>0a, <1>2 DEF Segments
  <2>2. Windows(said, step, overlap, failed) =
          [k \in 1 .. n |-> IF k \in failed THEN <<>>
                            ELSE SubSeq(said, S[k].start + 1, S[k].end)]
    BY <1>0, <1>0a, <2>1 DEF Windows
  <2>3. Len(Windows(said, step, overlap, failed)) = n
    BY <2>2
  <2> QED
    BY <2>2, <2>3
<1>5. PICK start \in [1 .. n -> Nat], end \in [1 .. n -> Nat] :
        \A k \in 1 .. n : start[k] = S[k].start /\ end[k] = S[k].end
  <2>1. /\ [k \in 1 .. n |-> S[k].start] \in [1 .. n -> Nat]
        /\ [k \in 1 .. n |-> S[k].end] \in [1 .. n -> Nat]
    BY <1>3
  <2> QED
    BY <2>1
<1>6. \A k \in 1 .. n :
        /\ start[k] = (IF core[k] >= overlap THEN core[k] - overlap ELSE 0)
        /\ end[k] = (IF core[k] + step <= l THEN core[k] + step ELSE l)
        /\ core[k] < l /\ core[k] \in Nat
  BY <1>3, <1>5
<1>7. ASSUME NEW k \in 2 .. n
      PROVE  core[k] = core[k - 1] + step
  <2>1. k \in 1 .. n /\ k - 1 \in 1 .. n
    OBVIOUS
  <2>2. step * (k - 1) = step * (k - 1 - 1) + step
    OBVIOUS
  <2> QED
    BY <1>1, <2>1, <2>2
<1>8. ASSUME NEW k \in 1 .. n
      PROVE  start[k] < end[k] /\ end[k] <= l
  <2>1. PICK c \in Nat, s \in Nat, e \in Nat :
          c = core[k] /\ s = start[k] /\ e = end[k]
    BY <1>5
  <2>2. /\ s = (IF c >= overlap THEN c - overlap ELSE 0)
        /\ e = (IF c + step <= l THEN c + step ELSE l)
        /\ c < l
    BY <1>6, <2>1
  <2>3. s < e /\ e <= l
    BY ONLY <1>0b, <2>2, l \in Nat, c \in Nat
  <2> QED
    BY <2>1, <2>3
<1>9. ASSUME NEW k \in 1 .. n, k = 1
      PROVE  start[k] = 0
  <2>1. core[k] = 0
    <3>1. step * (1 - 1) = 0
      OBVIOUS
    <3> QED
      BY <1>1, <1>9, <3>1
  <2> QED
    BY <1>6, <2>1
<1>10. ASSUME NEW k \in 1 .. n, k > 1
       PROVE  /\ start[k - 1] <= start[k] /\ start[k] <= end[k - 1] /\ end[k - 1] < end[k]
              /\ end[k - 1] - start[k] <= MaxOverlap
  <2>1. PICK j \in 1 .. n : j = k - 1 /\ core[k] = core[j] + step
    BY <1>7, <1>10
  <2>2. PICK c \in Nat, s \in Nat, e \in Nat, t \in Nat, f \in Nat :
          /\ c = core[j] /\ s = start[j] /\ e = end[j] /\ t = start[k] /\ f = end[k]
          /\ core[k] = c + step
    BY <1>5, <2>1
  <2>3. /\ s = (IF c >= overlap THEN c - overlap ELSE 0)
        /\ e = (IF c + step <= l THEN c + step ELSE l)
        /\ t = (IF c + step >= overlap THEN c + step - overlap ELSE 0)
        /\ f = (IF c + step + step <= l THEN c + step + step ELSE l)
        /\ c + step < l
    <3>1. /\ s = (IF c >= overlap THEN c - overlap ELSE 0)
          /\ e = (IF c + step <= l THEN c + step ELSE l)
      BY <1>6, <2>2
    <3>2. PICK d \in Nat : d = core[k]
      OBVIOUS
    <3>3. /\ t = (IF d >= overlap THEN d - overlap ELSE 0)
          /\ f = (IF d + step <= l THEN d + step ELSE l)
          /\ d < l
      BY <1>6, <2>2, <3>2
    <3> QED
      BY <2>2, <3>1, <3>2, <3>3
  <2>4. s <= t /\ t <= e /\ e < f /\ e - t <= M
    BY ONLY <1>0b, <2>3, l \in Nat, c \in Nat, M \in Nat
  <2> QED
    BY <1>0, <2>1, <2>2, <2>4
<1>11. ASSUME NEW k \in 1 .. n, k > 2
       PROVE  end[k - 2] <= start[k]
  <2>1. PICK i \in 1 .. n, j \in 1 .. n :
          i = k - 2 /\ j = k - 1 /\ core[k] = core[j] + step /\ core[j] = core[i] + step
    <3>1. k - 1 \in 2 .. n /\ k \in 2 .. n /\ k - 1 - 1 = k - 2
      BY <1>11
    <3>2. core[k] = core[k - 1] + step /\ core[k - 1] = core[k - 2] + step
      BY <1>7, <3>1
    <3> QED
      BY <1>11, <3>2
  <2>2. PICK c \in Nat, d \in Nat, e \in Nat, t \in Nat :
          c = core[i] /\ d = core[k] /\ d = c + step + step /\ e = end[i] /\ t = start[k]
    BY <1>5, <2>1
  <2>3. /\ e = (IF c + step <= l THEN c + step ELSE l)
        /\ t = (IF d >= overlap THEN d - overlap ELSE 0)
        /\ d < l
    BY <1>6, <2>2
  <2>4. e <= t
    <3>1. c + step <= l
      BY ONLY <1>0b, <2>2, <2>3, l \in Nat, c \in Nat, d \in Nat
    <3>2. d >= overlap /\ c + step <= d - overlap
      <4>1. d = c + step + step
        BY <2>2
      <4> QED
        BY ONLY <1>0b, <4>1, c \in Nat, d \in Nat
    <3>3. e = c + step /\ t = d - overlap
      BY ONLY <2>3, <3>1, <3>2
    <3> QED
      BY ONLY <3>2, <3>3
  <2> QED
    BY <2>1, <2>2, <2>4
<1>12. HearInTurn(said, texts, failed, start, end)
  BY <1>0, <1>4, <1>5, <1>8, <1>9, <1>10, <1>11 DEF HearInTurn
<1> QED
  BY <1>4, <1>12

\* The positions of what was said that one of the first k texts has
HeardIn(said, texts, k) ==
  {p \in 1 .. Len(said) : \E i \in 1 .. k : Contains(texts[i], said[p])}

\* A window of different words is heard at its own positions only.
LEMMA WindowIsHeard ==
  ASSUME NEW said \in Seq(Word), AllDifferent(said),
         NEW s \in Nat, NEW e \in Nat, e <= Len(said), NEW p \in 1 .. Len(said)
  PROVE  Contains(SubSeq(said, s + 1, e), said[p]) <=> p \in s + 1 .. e
<1>0. PICK l \in Nat : l = Len(said)
  OBVIOUS
<1>1. \A i \in s + 1 .. e : said[i] \in Word
  <2>1. \A i \in s + 1 .. e : i \in 1 .. l
    BY <1>0
  <2> QED
    BY <1>0, <2>1
<1>2. PICK k \in Nat : k = (IF s + 1 <= e THEN e - s ELSE 0)
  <2>1. (IF s + 1 <= e THEN e - s ELSE 0) \in Nat
    OBVIOUS
  <2> QED
    BY <2>1
<1>2a. PICK text : /\ text = SubSeq(said, s + 1, e) /\ Len(text) = k
                   /\ \A i \in 1 .. e - s : text[i] = said[s + i]
  <2>1. /\ Len(SubSeq(said, s + 1, e)) = IF s + 1 <= e THEN e - (s + 1) + 1 ELSE 0
        /\ \A i \in 1 .. e - (s + 1) + 1 : SubSeq(said, s + 1, e)[i] = said[(s + 1) + i - 1]
    BY <1>1, SubSeqProperties
  <2>2. PICK text : text = SubSeq(said, s + 1, e)
    OBVIOUS
  <2>3. e - (s + 1) + 1 = e - s /\ \A i \in 1 .. e - s : (s + 1) + i - 1 = s + i
    OBVIOUS
  <2>4. Len(text) = k
    BY <1>2, <2>1, <2>2, <2>3
  <2>5. \A i \in 1 .. e - s : text[i] = said[(s + 1) + i - 1]
    BY <2>1, <2>2, <2>3
  <2>6. \A i \in 1 .. e - s : text[i] = said[s + i]
    BY <2>3, <2>5
  <2> QED
    BY <2>2, <2>4, <2>6
<1>3. ASSUME Contains(text, said[p])
      PROVE  p \in s + 1 .. e
  <2>1. PICK i \in 1 .. k : text[i] = said[p]
    BY <1>2a, <1>3 DEF Contains
  <2>2. i \in 1 .. e - s /\ s + i \in s + 1 .. e /\ s + i \in 1 .. l
    BY <1>0, <1>2
  <2>3. said[s + i] = said[p] /\ p \in 1 .. l
    BY <1>0, <1>2a, <2>1, <2>2
  <2>4. s + i = p
    BY <1>0, <2>2, <2>3 DEF AllDifferent
  <2> QED
    BY <2>2, <2>4
<1>4. ASSUME p \in s + 1 .. e
      PROVE  Contains(text, said[p])
  <2>1. PICK i \in 1 .. e - s : i = p - s /\ s + i = p
    BY <1>4
  <2>2. i \in 1 .. k
    BY <1>2, <1>4
  <2>3. text[i] = said[p]
    BY <1>2a, <2>1
  <2> QED
    BY <1>2a, <2>2, <2>3 DEF Contains
<1> QED
  BY <1>2a, <1>3, <1>4

\* A chunk that failed adds nothing.
LEMMA NothingIsStitched ==
  ASSUME NEW t \in Seq(Word)
  PROVE  Join(t, <<>>) = t
<1>1. PICK text \in Seq(Word) : text = <<>> /\ Len(text) = 0
  <2>1. <<>> \in Seq(Word) /\ Len(<<>>) = 0
    OBVIOUS
  <2> QED
    BY <2>1
<1>2. Join(t, text) = t \o Stitch(TailOf(t), text)
  BY TailIsEnough
<1>3. Stitch(TailOf(t), text) = <<>>
  <2>1. TailOf(t) \in Seq(Word)
    BY TailOfIs
  <2>2. Max(Seams(TailOf(t), text)) \in 0 .. Len(text)
    BY <2>1, SeamsAre
  <2>3. Max(Seams(TailOf(t), text)) = 0
    BY <1>1, <2>2
  <2>4. Stitch(TailOf(t), text) = SubSeq(text, 0 + 1, 0)
    BY <1>1, <2>3 DEF Stitch
  <2>5. SubSeq(text, 0 + 1, 0) = <<>>
    BY SubSeqEmpty
  <2> QED
    BY <2>4, <2>5
<1> QED
  BY <1>1, <1>2, <1>3

\* Joined one after the other, the texts of such windows are the words at the positions
\* that were heard.
LEMMA HeardIsListed ==
  ASSUME NEW said \in Seq(Word), AllDifferent(said), NEW texts \in Seq(Seq(Word)),
         NEW failed, NEW start, NEW end, HearInTurn(said, texts, failed, start, end),
         NEW n \in 0 .. Len(texts)
  PROVE  \E f : Lists(f, InOrder(texts)[n], said, HeardIn(said, texts, n))
<1>0. PICK l \in Nat, c \in Nat, M \in Nat :
        l = Len(said) /\ c = Len(texts) /\ M = MaxOverlap
  <2>1. Len(said) \in Nat /\ Len(texts) \in Nat /\ MaxOverlap \in Nat
    BY ReassemblyAssumption
  <2> QED
    BY <2>1
<1>1. /\ start \in [1 .. c -> Nat] /\ end \in [1 .. c -> Nat]
      /\ \A k \in 1 .. c :
           /\ texts[k] = IF k \in failed THEN <<>> ELSE SubSeq(said, start[k] + 1, end[k])
           /\ start[k] < end[k] /\ end[k] <= l
           /\ k = 1 => start[k] = 0
           /\ k > 1 => /\ start[k - 1] <= start[k] /\ start[k] <= end[k - 1]
                       /\ end[k - 1] < end[k] /\ end[k - 1] - start[k] <= M
           /\ k > 2 => end[k - 2] <= start[k]
  BY <1>0 DEF HearInTurn
<1> DEFINE H(k) == HeardIn(said, texts, k)
           listed(k) == \E f : Lists(f, InOrder(texts)[k], said, H(k))
           heard(k) == /\ \A p \in H(k) : p <= end[k]
                       /\ k \notin failed => \A p \in start[k] + 1 .. end[k] : p \in H(k)
                       /\ k \in failed => \A p \in H(k) : k > 1 /\ p <= end[k - 1]
           T == {k \in 0 .. c : listed(k) /\ (k > 0 => heard(k))}
<1>2. 0 \in T
  <2>1. H(0) = {}
    BY DEF HeardIn
  <2>2. InOrder(texts)[0] = <<>>
    BY InOrderIs
  <2>3. Lists(<<>>, <<>>, said, {})
    BY DEF Lists
  <2>4. listed(0)
    <3> HIDE DEF H
    <3> QED
      BY <2>1, <2>2, <2>3
  <2> QED
    BY <2>4
<1>3. ASSUME NEW k \in 1 .. c, k - 1 \in T
      PROVE  k \in T
  <2>1. PICK t \in Seq(Word), text \in Seq(Word), s \in Nat, e \in Nat :
          /\ t = InOrder(texts)[k - 1] /\ text = texts[k]
          /\ InOrder(texts)[k] = Join(t, text)
          /\ s = start[k] /\ e = end[k] /\ s < e /\ e <= l
    <3>1. k \in 1 .. Len(texts) /\ k - 1 \in 0 .. Len(texts)
      BY <1>0
    <3>2. /\ InOrder(texts)[k] = Join(InOrder(texts)[k - 1], texts[k])
          /\ InOrder(texts)[k - 1] \in Seq(Word) /\ texts[k] \in Seq(Word)
      BY <3>1, InOrderIs
    <3>3. start[k] \in Nat /\ end[k] \in Nat /\ start[k] < end[k] /\ end[k] <= l
      BY <1>1
    <3> QED
      BY <3>2, <3>3
  <2>2. PICK P, Q, f :
          P = H(k - 1) /\ Q = H(k) /\ Lists(f, t, said, P) /\ (k > 1 => heard(k - 1))
    BY <1>3, <2>1
  <2>3. /\ P \in SUBSET (1 .. l) /\ Q \in SUBSET (1 .. l)
        /\ \A p \in 1 .. l : p \in Q <=> p \in P \/ Contains(text, said[p])
        /\ k = 1 => P = {}
    <3>1. \A i : i \in 1 .. k <=> i \in 1 .. k - 1 \/ i = k
      OBVIOUS
    <3>2. k = 1 => 1 .. k - 1 = {}
      OBVIOUS
    <3> QED
      BY <1>0, <2>1, <2>2, <3>1, <3>2 DEF HeardIn
  <2> HIDE DEF H
  <2>4. /\ k > 1 => \A p \in P : p <= end[k - 1]
        /\ k > 1 /\ k - 1 \notin failed => \A p \in start[k - 1] + 1 .. end[k - 1] : p \in P
        /\ k > 1 /\ k - 1 \in failed => \A p \in P : k > 2 /\ p <= end[k - 2]
    BY <2>2
  <2>5. CASE k \in failed
    <3>1. text = <<>>
      BY <1>1, <2>1, <2>5
    <3>2. Q = P
      <4>1. \A p \in 1 .. l : ~ Contains(text, said[p])
        BY <3>1 DEF Contains
      <4> QED
        BY <2>3, <4>1
    <3>3. listed(k)
      BY <2>1, <2>2, <3>1, <3>2, NothingIsStitched
    <3>4. ASSUME NEW p \in Q
          PROVE  k > 1 /\ p <= end[k - 1] /\ p <= end[k]
      <4>1. k > 1
        BY <2>3, <3>2
      <4>2. p \in Nat /\ end[k - 1] \in Nat /\ end[k] \in Nat /\ end[k - 1] < end[k]
        <5>1. k - 1 \in 1 .. c
          BY <4>1
        <5>2. end[k - 1] \in Nat /\ end[k] \in Nat
          BY <1>1, <5>1
        <5>3. end[k - 1] < end[k]
          BY <1>1, <4>1
        <5>4. p \in Nat
          BY <2>3
        <5> QED
          BY <5>2, <5>3, <5>4
      <4>3. p <= end[k - 1]
        BY <2>4, <3>2, <4>1
      <4> QED
        BY ONLY <4>1, <4>2, <4>3
    <3>5. heard(k)
      BY <2>2, <2>5, <3>4
    <3> QED
      BY <3>3, <3>5
  <2>6. CASE k \notin failed
    <3>1. text = SubSeq(said, s + 1, e)
      BY <1>1, <2>1, <2>6
    <3>2. Q = P \cup (s + 1 .. e)
      <4>1. \A p \in 1 .. l : Contains(text, said[p]) <=> p \in s + 1 .. e
        <5> SUFFICES ASSUME NEW p \in 1 .. l
                     PROVE  Contains(text, said[p]) <=> p \in s + 1 .. e
          OBVIOUS
        <5>1. p \in 1 .. Len(said) /\ e <= Len(said)
          BY <1>0, <2>1
        <5>2. Contains(SubSeq(said, s + 1, e), said[p]) <=> p \in s + 1 .. e
          BY <5>1, WindowIsHeard
        <5> QED
          BY <3>1, <5>2
      <4>2. \A p \in s + 1 .. e : p \in 1 .. l
        <5>1. e <= l
          BY <2>1
        <5> QED
          BY ONLY <5>1, s \in Nat, e \in Nat, l \in Nat
      <4> QED
        BY <2>3, <4>1, <4>2
    <3>3. PICK x \in Nat : EndsWith(P, s, x) /\ x <= e /\ x - s <= M
      <4>1. CASE k = 1
        <5>1. EndsWith(P, s, s)
          BY <2>3, <4>1 DEF EndsWith
        <5>2. s <= e /\ s - s <= M
          <6>1. s < e
            BY <2>1
          <6> QED
            BY ONLY <6>1, s \in Nat, e \in Nat, M \in Nat
        <5> QED
          BY <5>1, <5>2
      <4>2. CASE k > 1 /\ k - 1 \in failed
        <5>1. ASSUME NEW p \in P
              PROVE  p \in Nat /\ p <= s
          <6>1. k > 2 /\ p <= end[k - 2] /\ p \in Nat
            BY <2>3, <2>4, <4>2
          <6>2. k - 2 \in 1 .. c
            BY <6>1
          <6>3. end[k - 2] \in Nat /\ end[k - 2] <= s
            BY <1>1, <2>1, <6>1, <6>2
          <6> QED
            BY <6>1, <6>3
        <5>2. EndsWith(P, s, s)
          BY <5>1 DEF EndsWith
        <5>3. s <= e /\ s - s <= M
          <6>1. s < e
            BY <2>1
          <6> QED
            BY ONLY <6>1, s \in Nat, e \in Nat, M \in Nat
        <5> QED
          BY <5>2, <5>3
      <4>3. CASE k > 1 /\ k - 1 \notin failed
        <5>1. PICK x \in Nat, r \in Nat : x = end[k - 1] /\ r = start[k - 1]
          <6>1. k - 1 \in 1 .. c
            BY <4>3
          <6> QED
            BY <1>1, <6>1
        <5>2. r <= s /\ s <= x /\ x < e /\ x - s <= M
          BY <1>1, <2>1, <4>3, <5>1
        <5>3. (\A p \in P : p \in Nat /\ p <= x) /\ (\A p \in r + 1 .. x : p \in P)
          BY <2>3, <2>4, <4>3, <5>1
        <5>4. \A p \in s + 1 .. x : p \in r + 1 .. x
          BY <5>2
        <5>5. EndsWith(P, s, x)
          BY <5>2, <5>3, <5>4 DEF EndsWith
        <5> QED
          BY <5>2, <5>5
      <4> QED
        BY <4>1, <4>2, <4>3
    <3>4. listed(k)
      <4>1. /\ P \in SUBSET (1 .. Len(said)) /\ e <= Len(said)
            /\ x - s <= MaxOverlap
        BY <1>0, <2>1, <2>3, <3>3
      <4>2. \E g : Lists(g, Join(t, SubSeq(said, s + 1, e)), said, P \cup (s + 1 .. e))
        BY <2>2, <3>3, <4>1, WindowIsStitched
      <4> QED
        BY <2>1, <2>2, <3>1, <3>2, <4>2
    <3>5. \A p \in Q : p <= e
      <4>1. \A p \in P : p \in Nat /\ p <= x
        BY <3>3 DEF EndsWith
      <4>2. \A p \in P : p <= e
        BY <3>3, <4>1
      <4> QED
        BY <3>2, <4>2
    <3>6. \A p \in s + 1 .. e : p \in Q
      BY <3>2
    <3>7. heard(k)
      BY <2>1, <2>2, <2>6, <3>5, <3>6
    <3> QED
      BY <3>4, <3>7
  <2> QED
    BY <2>5, <2>6
<1>4. T \in SUBSET (0 .. c)
  OBVIOUS
<1>5. n \in T
  <2> HIDE DEF T
  <2>1. T = 0 .. c
    BY <1>2, <1>3, <1>4, SetInduction
  <2> QED
    BY <1>0, <2>1
<1> QED
  BY <1>5

-----------------------------------------------------------------------------
(***************************************************************************)
(* What holds in every state                                               *)
(***************************************************************************)

\* The assembler has taken in every text up to the first that is missing, keeps
\* the others that came, shows what in-order assembly gives and remembers the end
\* of it.
AssemblyInv ==
  /\ recording \in Recordings
  /\ arrived \subseteq 0 .. Total - 1
  /\ asm \in Assembler
  /\ asm.next \in 0 .. Total
  /\ \A i \in 0 .. asm.next - 1 : i \in arrived
  /\ asm.next \notin arrived
  /\ DOMAIN asm.pending = {i \in arrived : i > asm.next}
  /\ \A i \in DOMAIN asm.pending : asm.pending[i] = recording.texts[i + 1]
  /\ asm.transcript = InOrder(recording.texts)[asm.next]
  /\ asm.tail = TailOf(asm.transcript)

\* It holds of the new assembler.
LEMMA AssemblyAtInit ==
  ASSUME Init
  PROVE  AssemblyInv
<1>1. /\ recording \in Recordings /\ recording.texts \in Seq(Seq(Word)) /\ Total \in Nat
      /\ arrived = {} /\ asm = NewAssembler
  BY ReassemblyAssumption DEF Init, Total
<1>2. PICK p : p = [i \in {} |-> <<>>] /\ p \in [{} -> Seq(Word)] /\ DOMAIN p = {}
  <2>1. PICK p : p = [i \in {} |-> <<>>]
    OBVIOUS
  <2>2. p \in [{} -> Seq(Word)] /\ DOMAIN p = {}
    BY <2>1
  <2> QED
    BY <2>1, <2>2
<1>3. p \in Pending
  BY <1>2 DEF Pending
<1>4. /\ asm.next = 0 /\ asm.pending = p /\ asm.transcript = <<>> /\ asm.tail = <<>>
      /\ asm = [next |-> 0, pending |-> p, transcript |-> <<>>, tail |-> <<>>]
  BY <1>1, <1>2 DEF NewAssembler
<1>5. <<>> \in Seq(Word) /\ 0 \in Nat
  OBVIOUS
<1>6. asm \in Assembler
  BY <1>3, <1>4, <1>5 DEF Assembler
<1>7. InOrder(recording.texts)[0] = <<>>
  BY <1>1, InOrderIs
<1>8. TailOf(<<>>) = <<>>
  <2>1. PICK t \in Seq(Word) : t = <<>> /\ Len(t) = 0
    BY <1>5
  <2>2. TailOf(t) \in Seq(Word) /\ Len(TailOf(t)) \in 0 .. Len(t)
    BY TailOfIs
  <2> QED
    BY <2>1, <2>2
<1> QED
  BY <1>1, <1>2, <1>4, <1>6, <1>7, <1>8 DEF AssemblyInv

\* A text that arrives keeps it.
LEMMA ArriveKeeps ==
  ASSUME AssemblyInv, NEW i \in 0 .. Total - 1, Arrive(i)
  PROVE  AssemblyInv'
<1>1. PICK texts \in Seq(Seq(Word)), l \in Nat, s \in Assembler, n \in Nat,
          p \in Pending, D \in SUBSET Nat :
        /\ texts = recording.texts /\ l = Len(texts) /\ s = asm
        /\ n = s.next /\ p = s.pending /\ D = DOMAIN p
  <2>1. recording.texts \in Seq(Seq(Word)) /\ asm \in Assembler
    BY ReassemblyAssumption DEF AssemblyInv
  <2>2. asm.next \in Nat /\ asm.pending \in Pending /\ Len(recording.texts) \in Nat
    BY <2>1 DEF Assembler
  <2>3. DOMAIN asm.pending \in SUBSET Nat
    BY <2>2 DEF Pending
  <2> QED
    BY <2>1, <2>2, <2>3
<1>2. PICK come : come = arrived
  OBVIOUS
<1>3. /\ Total = l /\ come \subseteq 0 .. l - 1 /\ n <= l
      /\ \A j \in 0 .. n - 1 : j \in come
      /\ n \notin come
      /\ D = {j \in come : j > n}
      /\ \A j \in D : p[j] = texts[j + 1]
      /\ i \in 0 .. l - 1
  <2>1. Total = l
    BY <1>1 DEF Total
  <2>2. /\ come \subseteq 0 .. Total - 1 /\ n \in 0 .. Total /\ n \notin come
        /\ \A j \in 0 .. n - 1 : j \in come
    BY <1>1, <1>2 DEF AssemblyInv
  <2>3. D = {j \in come : j > n} /\ \A j \in D : p[j] = texts[j + 1]
    BY <1>1, <1>2 DEF AssemblyInv
  <2> QED
    BY <2>1, <2>2, <2>3
<1>4. s.transcript = InOrder(texts)[n] /\ s.tail = TailOf(s.transcript)
  BY <1>1 DEF AssemblyInv
<1>5. PICK E \in SUBSET Nat : E = D \cup {i}
  <2>1. \A j \in D \cup {i} : j \in Nat
    BY <1>3
  <2> QED
    BY <2>1
<1>6. PICK q \in [E -> Seq(Word)] :
        q = Kept(p, i, texts[i + 1]) /\ \A j \in E : q[j] = texts[j + 1]
  <2>1. \A j \in 0 .. l - 1 : texts[j + 1] \in Seq(Word)
    BY <1>1
  <2>2. Kept(p, i, texts[i + 1]) = [j \in E |-> texts[j + 1]]
    BY <1>1, <1>3, <1>5 DEF Kept
  <2>3. \A j \in E : j \in 0 .. l - 1
    BY <1>3, <1>5
  <2> QED
    BY <2>1, <2>2, <2>3
<1>7. PICK kept \in Assembler :
        /\ kept = [s EXCEPT !.pending = Kept(@, i, texts[i + 1])]
        /\ kept.next = n /\ kept.pending = q
        /\ kept.transcript = s.transcript /\ kept.tail = s.tail
  <2>1. q \in Pending
    BY <1>6 DEF Pending
  <2>2. [s EXCEPT !.pending = Kept(@, i, texts[i + 1])] = [s EXCEPT !.pending = q]
    BY <1>1, <1>6
  <2> QED
    BY <1>1, <2>1, <2>2 DEF Assembler
<1>8. PICK m \in 0 .. l : n <= m /\ m \notin E /\ \A j \in n .. m - 1 : j \in E
  <2> DEFINE M == {j \in 0 .. l : n <= j /\ j \notin E}
  <2>1. l \in M
    BY <1>3, <1>5
  <2>2. M \in SUBSET Nat
    OBVIOUS
  <2>3. Min(M) \in M /\ \A j \in M : Min(M) <= j
    <3> HIDE DEF M
    <3> QED
      BY <2>1, <2>2, MinExists
  <2>4. PICK m \in 0 .. l : m \in M /\ \A j \in M : m <= j
    BY <2>3
  <2>5. ASSUME NEW j \in n .. m - 1
        PROVE  j \in E
    <3>1. j \in 0 .. l /\ n <= j /\ ~ (m <= j)
      OBVIOUS
    <3> QED
      BY <2>4, <3>1
  <2> QED
    BY <2>4, <2>5
<1>9. PICK run \in Seq(Seq(Word)) :
        /\ run = Run(kept) /\ Len(run) = m - n
        /\ \A k \in 1 .. m - n : run[k] = texts[n + k]
  <2>1. kept.next <= m /\ m \notin DOMAIN kept.pending
        /\ \A j \in kept.next .. m - 1 : j \in DOMAIN kept.pending
    BY <1>6, <1>7, <1>8
  <2>2. /\ Run(kept) \in Seq(Seq(Word))
        /\ Len(Run(kept)) = m - n
        /\ \A k \in 1 .. m - n : Run(kept)[k] = q[n + k - 1]
    <3>1. kept.next <= m /\ m \notin DOMAIN kept.pending
      BY <2>1
    <3>2. \A j \in kept.next .. m - 1 : j \in DOMAIN kept.pending
      BY <2>1
    <3>3. /\ Run(kept) \in Seq(Seq(Word))
          /\ Len(Run(kept)) = m - kept.next
          /\ \A k \in 1 .. m - kept.next : Run(kept)[k] = kept.pending[kept.next + k - 1]
      BY <3>1, <3>2, RunIs
    <3> QED
      BY <1>7, <3>3
  <2>3. ASSUME NEW k \in 1 .. m - n
        PROVE  q[n + k - 1] = texts[n + k]
    <3>1. n + k - 1 \in n .. m - 1 /\ (n + k - 1) + 1 = n + k
      OBVIOUS
    <3> QED
      BY <1>6, <1>8, <3>1
  <2> QED
    BY <2>2, <2>3
<1>10. PICK done \in Assembler :
         /\ done = Release(kept, run)
         /\ done.next = m /\ done.pending = q
         /\ done.transcript = InOrder(texts)[m] /\ done.tail = TailOf(done.transcript)
  <2>1. kept.next + Len(run) = m /\ m <= Len(texts)
    BY <1>1, <1>7, <1>9
  <2>2. \A k \in 1 .. Len(run) : run[k] = texts[kept.next + k]
    BY <1>7, <1>9
  <2>3. kept.transcript = InOrder(texts)[kept.next] /\ kept.tail = TailOf(kept.transcript)
    BY <1>4, <1>7
  <2> HIDE DEF Release
  <2>4. /\ Release(kept, run) \in Assembler
        /\ Release(kept, run).next = m
        /\ Release(kept, run).pending = kept.pending
        /\ Release(kept, run).transcript = InOrder(texts)[m]
        /\ Release(kept, run).tail = TailOf(Release(kept, run).transcript)
    BY <2>1, <2>2, <2>3, ReleaseAssembles
  <2> QED
    BY <1>7, <2>4
<1>11. PICK G \in SUBSET Nat : G = {k \in E : k >= m}
  OBVIOUS
<1>12. PICK x \in [G -> Seq(Word)] : x = [j \in G |-> q[j]] /\ \A j \in G : x[j] = texts[j + 1]
  <2>1. [j \in G |-> q[j]] \in [G -> Seq(Word)] /\ \A j \in G : q[j] = texts[j + 1]
    BY <1>6, <1>11
  <2> QED
    BY <2>1
<1>13. asm' = [done EXCEPT !.pending = x]
  <2>1. asm' = Add(s, i, texts[i + 1])
    BY <1>1 DEF Arrive
  <2>2. Add(s, i, texts[i + 1]) =
          [done EXCEPT !.pending = [j \in {k \in DOMAIN @ : k >= done.next} |-> @[j]]]
    BY <1>7, <1>9, <1>10 DEF Add
  <2>3. DOMAIN done.pending = E
    BY <1>6, <1>10
  <2> QED
    BY <1>10, <1>11, <1>12, <2>1, <2>2, <2>3
<1>14. /\ asm' \in Assembler /\ asm.next' = m /\ asm.pending' = x
       /\ asm.transcript' = InOrder(texts)[m] /\ asm.tail' = TailOf(InOrder(texts)[m])
  <2>1. x \in Pending
    BY <1>12 DEF Pending
  <2> QED
    BY <1>10, <1>13, <2>1 DEF Assembler
<1>15. arrived' = come \cup {i} /\ recording' = recording /\ Total' = l
  BY <1>1, <1>2 DEF Arrive, Total
<1>16. \A j \in 0 .. m - 1 : j \in come \cup {i}
  <2> SUFFICES ASSUME NEW j \in 0 .. m - 1
               PROVE  j \in come \cup {i}
    OBVIOUS
  <2>1. CASE j < n
    BY <1>3, <2>1
  <2>2. CASE ~ (j < n)
    BY <1>3, <1>5, <1>8, <2>2
  <2> QED
    BY <2>1, <2>2
<1>17. m \notin come \cup {i}
  BY <1>3, <1>5, <1>8
<1>18. G = {j \in come \cup {i} : j > m}
  <2>1. ASSUME NEW j \in G
        PROVE  j \in come \cup {i} /\ j > m
    <3>1. j \in E /\ j \in Nat /\ j >= m /\ j # m
      BY <1>8, <1>11
    <3> QED
      BY <1>3, <1>5, <3>1
  <2>2. ASSUME NEW j \in come \cup {i}, j > m
        PROVE  j \in G
    <3>1. j \in Nat /\ j > n
      BY <1>3, <1>8, <2>2
    <3>2. j \in E
      BY <1>3, <1>5, <3>1
    <3> QED
      BY <1>11, <2>2, <3>1, <3>2
  <2> QED
    BY <2>1, <2>2
<1>19. AssemblyInv'
  <2>1. recording' \in Recordings /\ arrived' \subseteq 0 .. Total' - 1
    BY <1>3, <1>15 DEF AssemblyInv
  <2>2. asm.next' \in 0 .. Total'
    BY <1>14, <1>15
  <2>3. /\ \A j \in 0 .. asm.next' - 1 : j \in arrived'
        /\ asm.next' \notin arrived'
    BY <1>14, <1>15, <1>16, <1>17
  <2>4. DOMAIN asm.pending' = {j \in arrived' : j > asm.next'}
    BY <1>12, <1>14, <1>15, <1>18
  <2>5. \A j \in DOMAIN asm.pending' : asm.pending'[j] = recording.texts'[j + 1]
    BY <1>1, <1>12, <1>14, <1>15
  <2>6. /\ asm.transcript' = InOrder(recording.texts')[asm.next']
        /\ asm.tail' = TailOf(asm.transcript')
    BY <1>1, <1>14, <1>15
  <2> QED
    BY <1>14, <2>1, <2>2, <2>3, <2>4, <2>5, <2>6 DEF AssemblyInv
<1> QED
  BY <1>19

-----------------------------------------------------------------------------
(***************************************************************************)
(* The theorems                                                            *)
(***************************************************************************)

\* Recordings that are cut are cut by windows of at least one sample, and at least as
\* long as the overlap they repeat: split_samples refuses any other overlap.
CutsAreSound ==
  \A r \in Recordings :
    "cut" \in DOMAIN r =>
      /\ r.cut[1] \in Nat /\ r.cut[2] \in Nat \ {0} /\ r.cut[3] \in 0 .. r.cut[2]

\* What is said in a recording is cut by split_samples, into windows that are at least as
\* long as the overlap they repeat; the words said are all different, a chunk that does
\* not fail hears the words of its window, and the overlap is no longer than a seam looks
\* back.
HeardAsSaid ==
  \A r \in Recordings :
    r.spoken # <<>> =>
      /\ AllDifferent(r.spoken)
      /\ \E step \in Nat \ {0} : \E overlap \in 0 .. step : \E failed \in SUBSET Nat :
           overlap <= MaxOverlap /\ r.texts = Windows(r.spoken, step, overlap, failed)

\* In every reachable state the assembler stands where in-order assembly of the first
\* texts would.
THEOREM Inductive == Spec => []AssemblyInv
<1>1. Init => AssemblyInv
  BY AssemblyAtInit
<1>2. AssemblyInv /\ [Next]_vars => AssemblyInv'
  <2> SUFFICES ASSUME AssemblyInv, [Next]_vars
               PROVE  AssemblyInv'
    OBVIOUS
  <2>1. CASE Next
    <3>1. PICK i \in 0 .. Total - 1 : Arrive(i)
      BY <2>1 DEF Next
    <3> QED
      BY <3>1, ArriveKeeps
  <2>2. CASE UNCHANGED vars
    BY <2>2 DEF vars, AssemblyInv, Total
  <2> QED
    BY <2>1, <2>2
<1> QED
  BY <1>1, <1>2, PTL DEF Spec

\* Every index that counts or waits is one of the recording's, and what is
\* remembered of the transcript is as long as a seam may look back (_remember).
THEOREM TypesHold == Spec => []TypeOK
<1>1. AssemblyInv => TypeOK
  <2> SUFFICES ASSUME AssemblyInv
               PROVE  TypeOK
    OBVIOUS
  <2>1. asm.transcript \in Seq(Word)
    BY DEF AssemblyInv, Assembler
  <2>2. asm.tail \in Seq(Word) /\ Len(asm.tail) <= MaxOverlap
    <3>1. PICK t \in Seq(Word) : t = asm.transcript /\ asm.tail = TailOf(t)
      BY <2>1 DEF AssemblyInv
    <3>2. TailOf(t) \in Seq(Word) /\ Len(TailOf(t)) <= MaxOverlap
      BY TailOfIs
    <3> QED
      BY <3>1, <3>2
  <2> QED
    BY <2>1, <2>2 DEF AssemblyInv, TypeOK
<1> QED
  BY <1>1, Inductive, PTL

\* In whatever order chunks complete, what is shown is the transcript that in-order
\* assembly of the longest run of them from the first on gives.
THEOREM OrderIsIrrelevant == Spec => []ArrivalOrderIrrelevant
<1>1. AssemblyInv => ArrivalOrderIrrelevant
  BY DEF AssemblyInv, ArrivalOrderIrrelevant
<1> QED
  BY <1>1, Inductive, PTL

\* No chunk is held back that could be shown.
THEOREM LongestPrefixIsShown == Spec => []ShowsLongestPrefix
<1>1. AssemblyInv => ShowsLongestPrefix
  <2> SUFFICES ASSUME AssemblyInv
               PROVE  ShowsLongestPrefix
    OBVIOUS
  <2>1. PICK l \in Nat, n \in Nat : l = Total /\ n = asm.next /\ n <= l
    <3>1. Total \in Nat
      BY ReassemblyAssumption DEF AssemblyInv, Total
    <3> QED
      BY <3>1 DEF AssemblyInv
  <2> DEFINE missing == (0 .. l) \ arrived
  <2>2. n \in missing /\ \A j \in missing : n <= j
    BY <2>1 DEF AssemblyInv
  <2>3. Min(missing) \in missing /\ \A j \in missing : Min(missing) <= j
    <3>1. missing \in SUBSET Nat
      OBVIOUS
    <3> HIDE DEF missing
    <3> QED
      BY <2>2, <3>1, MinExists
  <2>4. Min(missing) = n
    <3>1. PICK k \in 0 .. l : k = Min(missing)
      BY <2>3
    <3> QED
      BY <2>2, <2>3, <3>1
  <2> QED
    BY <2>1, <2>4 DEF AssemblyInv, ShowsLongestPrefix
<1> QED
  BY <1>1, Inductive, PTL

\* At any time the transcript has every word that the chunks up to the first missing one
\* heard exactly once, in the order said, whichever chunks failed and in whatever order
\* they came.
THEOREM WordsAreHeardOnce ==
  ASSUME HeardAsSaid
  PROVE  Spec => []HeardWordsOnce
<1>1. AssemblyInv => HeardWordsOnce
  <2> SUFFICES ASSUME AssemblyInv, recording.spoken # <<>>
               PROVE  Selects(asm.transcript, recording.spoken, HeardPositions(asm.next))
    BY DEF HeardWordsOnce
  <2>1. PICK said \in Seq(Word), texts \in Seq(Seq(Word)), n \in Nat :
          /\ n \in 0 .. Len(texts) /\ said = recording.spoken /\ texts = recording.texts /\ n = asm.next
          /\ asm.transcript = InOrder(texts)[n]
    <3>1. recording.spoken \in Seq(Word) /\ recording.texts \in Seq(Seq(Word))
      BY ReassemblyAssumption DEF AssemblyInv
    <3> QED
      BY <3>1 DEF AssemblyInv, Total
  <2>2. PICK step \in Nat \ {0} : \E overlap \in 0 .. step : \E failed \in SUBSET Nat :
          overlap <= MaxOverlap /\ texts = Windows(said, step, overlap, failed)
    BY <2>1 DEF HeardAsSaid, AssemblyInv
  <2>3. PICK overlap \in 0 .. step, failed \in SUBSET Nat :
          overlap <= MaxOverlap /\ texts = Windows(said, step, overlap, failed)
    BY <2>2
  <2>4. AllDifferent(said)
    BY <2>1 DEF HeardAsSaid, AssemblyInv
  <2>5. PICK start, end : HearInTurn(said, texts, failed, start, end)
    BY <2>3, WindowsHearInTurn
  <2>6. PICK f : Lists(f, InOrder(texts)[n], said, HeardIn(said, texts, n))
    BY <2>1, <2>4, <2>5, HeardIsListed
  <2>7. InOrder(texts)[n] \in Seq(Word) /\ HeardIn(said, texts, n) \in SUBSET (1 .. Len(said))
    BY <2>1, InOrderIs DEF HeardIn
  <2>8. Selects(InOrder(texts)[n], said, HeardIn(said, texts, n))
    BY <2>6, <2>7, ListedAreSelected
  <2>9. HeardPositions(asm.next) = HeardIn(said, texts, n)
    BY <2>1 DEF HeardPositions, HeardIn
  <2> QED
    BY <2>1, <2>8, <2>9
<1> QED
  BY <1>1, Inductive, PTL

\* So when all chunks are in and no word was lost with a failed one, the transcript is what
\* was said: of words that are all different a seam drops the overlap and no other.
THEOREM OnlyOverlapIsDropped ==
  ASSUME HeardAsSaid
  PROVE  Spec => [](/\ recording.spoken # <<>>
                    /\ HeardPositions(Total) = 1 .. Len(recording.spoken)
                    => OnlyOverlapDropped)
<1>1. ASSUME AssemblyInv, HeardWordsOnce, recording.spoken # <<>>, Complete,
             HeardPositions(Total) = 1 .. Len(recording.spoken)
      PROVE  asm.transcript = recording.spoken
  <2>1. PICK said \in Seq(Word), l \in Nat, t \in Seq(Word) :
          said = recording.spoken /\ l = Len(said) /\ t = asm.transcript
    <3>1. recording.spoken \in Seq(Word) /\ Len(recording.spoken) \in Nat
      BY <1>1, ReassemblyAssumption DEF AssemblyInv
    <3>2. asm.transcript \in Seq(Word)
      BY <1>1 DEF AssemblyInv, Assembler
    <3> QED
      BY <3>1, <3>2
  <2>2. asm.next = Total
    <3>1. PICK c \in Nat, n \in Nat : c = Total /\ n = asm.next /\ n \in 0 .. c
      <4>1. Total \in Nat
        BY <1>1, ReassemblyAssumption DEF AssemblyInv, Total
      <4>2. asm.next \in 0 .. Total
        BY <1>1 DEF AssemblyInv
      <4>3. asm.next \in Nat
        BY ONLY <4>1, <4>2
      <4> QED
        BY <4>1, <4>2, <4>3
    <3>2. n \notin 0 .. c - 1
      BY <1>1, <3>1 DEF AssemblyInv, Complete
    <3> QED
      BY <3>1, <3>2
  <2>3. Selects(t, said, 1 .. l)
    BY <1>1, <2>1, <2>2 DEF HeardWordsOnce
  <2>4. Len(t) = l
    BY <2>3, FS_Interval DEF Selects
  <2>5. ASSUME NEW p \in 1 .. l
        PROVE  t[p] = said[p]
    <3>1. {q \in 1 .. l : q <= p} = 1 .. p
      OBVIOUS
    <3>2. Cardinality(1 .. p) = p
      BY FS_Interval
    <3> QED
      BY <2>3, <3>1, <3>2 DEF Selects
  <2>6. t = said
    BY <2>1, <2>4, <2>5, SeqEqual
  <2> QED
    BY <2>1, <2>6
<1>2. AssemblyInv /\ HeardWordsOnce =>
        (/\ recording.spoken # <<>>
         /\ HeardPositions(Total) = 1 .. Len(recording.spoken)
         => OnlyOverlapDropped)
  BY <1>1 DEF OnlyOverlapDropped
<1> QED
  BY <1>2, Inductive, WordsAreHeardOnce, PTL

\* The windows of every recording that is cut tile it, and the spans of its lineage
\* join to within a millisecond.
THEOREM CutsHold ==
  ASSUME CutsAreSound
  PROVE  Spec => [](WindowsTile /\ SpansJoin)
<1>1. AssemblyInv => WindowsTile /\ SpansJoin
  <2> SUFFICES ASSUME AssemblyInv, IsWaveform
               PROVE  /\ Tiled(Cut, recording.cut[1])
                      /\ Joined([k \in 1 .. Len(Cut) |-> Span(Cut[k])],
                                SamplesToMs(recording.cut[1]))
    BY DEF WindowsTile, SpansJoin
  <2>1. PICK total \in Nat, step \in Nat \ {0}, overlap \in Nat :
          /\ total = recording.cut[1] /\ step = recording.cut[2] /\ overlap = recording.cut[3]
          /\ overlap \in 0 .. step
    BY DEF CutsAreSound, AssemblyInv, IsWaveform
  <2>2. Cut = Segments(total, step, overlap)
    BY <2>1 DEF Cut
  <2> QED
    BY <2>1, <2>2, WindowsCoverAll, SpansAlwaysJoin
<1> QED
  BY <1>1, Inductive, PTL

\* However a recording is cut, no sample is lost or heard twice but the overlaps
\* (split_samples).
THEOREM CutsTile ==
  ASSUME CutsAreSound
  PROVE  Spec => []WindowsTile
  BY CutsHold, PTL

\* The spans that the lineage shows join to within a millisecond, although each end is
\* rounded by itself (_samples_to_ms).
THEOREM CutsJoin ==
  ASSUME CutsAreSound
  PROVE  Spec => []SpansJoin
  BY CutsHold, PTL

=============================================================================
