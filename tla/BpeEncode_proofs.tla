-------------------------- MODULE BpeEncode_proofs --------------------------
(***************************************************************************)
(* Theorems about BpeEncode, for every word, merge table and vocabulary:   *)
(* the fast merge loops keep track of every pair that can be merged, each  *)
(* of their merges is the naive loop's next one, and the tokens cover the  *)
(* word.  The pieces tile the word throughout (Tile); the flat loop's      *)
(* parts rise through it and cache the ranks of their pairs (PartsOK); the *)
(* list's live slots, in ascending order, are the path its links lead      *)
(* along (ListOf), and neighbours that can be merged have a candidate in   *)
(* the heap (HeapOK).                                                      *)
(***************************************************************************)
EXTENDS BpeEncode, FiniteSetTheorems, SequenceTheorems, Foundations

Piece == [start : Nat, len : Nat]
PieceSeq == Seq(Piece)

-----------------------------------------------------------------------------
(* Sequences and sets *)

LEMMA RemoveAtIs ==
    ASSUME NEW S, NEW s \in Seq(S), NEW n \in 1 .. Len(s)
    PROVE  /\ RemoveAt(s, n) \in Seq(S)
           /\ Len(RemoveAt(s, n)) = Len(s) - 1
           /\ \A x \in 1 .. Len(s) - 1 : RemoveAt(s, n)[x] = IF x < n THEN s[x] ELSE s[x + 1]
<1> DEFINE l == SubSeq(s, 1, n - 1)
           r == SubSeq(s, n + 1, Len(s))
<1>1. /\ l \in Seq(S) /\ Len(l) = n - 1
      /\ \A x \in 1 .. n - 1 : l[x] = s[x]
  BY SubSeqProperties
<1>2. /\ r \in Seq(S) /\ Len(r) = Len(s) - n
      /\ \A x \in 1 .. Len(s) - n : r[x] = s[x + n]
  <2>1. \A x \in n + 1 .. Len(s) : s[x] \in S
    OBVIOUS
  <2>2. /\ SubSeq(s, n + 1, Len(s)) \in Seq(S)
        /\ Len(SubSeq(s, n + 1, Len(s))) = IF n + 1 <= Len(s) THEN Len(s) - (n + 1) + 1 ELSE 0
        /\ \A x \in 1 .. Len(s) - (n + 1) + 1 : SubSeq(s, n + 1, Len(s))[x] = s[(n + 1) + x - 1]
    BY <2>1, SubSeqProperties
  <2>3. \A x \in 1 .. Len(s) - n : (n + 1) + x - 1 = x + n
    OBVIOUS
  <2>4. QED
    BY <2>2, <2>3
<1>3. RemoveAt(s, n) = l \o r
  BY DEF RemoveAt
<1> HIDE DEF l, r
<1>4. /\ l \o r \in Seq(S)
      /\ Len(l \o r) = Len(l) + Len(r)
      /\ \A x \in 1 .. Len(l) + Len(r) :
           (l \o r)[x] = IF x <= Len(l) THEN l[x] ELSE r[x - Len(l)]
  BY <1>1, <1>2, ConcatProperties
<1>5. Len(l) + Len(r) = Len(s) - 1
  BY <1>1, <1>2
<1>6. ASSUME NEW x \in 1 .. Len(s) - 1
      PROVE  (l \o r)[x] = IF x < n THEN s[x] ELSE s[x + 1]
  <2>1. CASE x < n
    BY <2>1, <1>1, <1>4, <1>5
  <2>2. CASE ~(x < n)
    <3>1. x - Len(l) = x - n + 1 /\ x - n + 1 \in 1 .. Len(s) - n
      BY <2>2, <1>1
    <3>2. r[x - n + 1] = s[(x - n + 1) + n]
      BY <3>1, <1>2
    <3>3. (x - n + 1) + n = x + 1
      OBVIOUS
    <3>4. ~(x <= Len(l)) /\ ~(x < n)
      BY <2>2, <1>1
    <3>5. (l \o r)[x] = r[x - Len(l)]
      BY <3>4, <1>4, <1>5
    <3>6. r[x - Len(l)] = s[x + 1]
      BY <3>1, <3>2, <3>3
    <3>7. (l \o r)[x] = s[x + 1]
      BY <3>5, <3>6
    <3>8. QED
      BY <3>4, <3>7
  <2>3. QED
    BY <2>1, <2>2
<1>7. QED
  BY <1>3, <1>4, <1>5, <1>6
-----------------------------------------------------------------------------
(* Pieces that lie end to end *)

LEMMA PieceFields ==
    ASSUME NEW ps \in PieceSeq, NEW n \in 1 .. Len(ps)
    PROVE  ps[n] \in Piece /\ End(ps[n]) \in Nat
<1>1. ps[n] \in Piece
  BY DEF PieceSeq
<1>2. QED
  BY <1>1 DEF End, Piece

LEMMA WithLen ==
    ASSUME NEW p \in Piece, NEW n \in Nat
    PROVE  /\ [p EXCEPT !.len = n] \in Piece
           /\ [p EXCEPT !.len = n].start = p.start
           /\ [p EXCEPT !.len = n].len = n
  BY DEF Piece

\* No piece goes beyond the bytes: the last one ends with them.
LEMMA TileInside ==
    ASSUME NEW ps \in PieceSeq, NEW w \in Seq(Nat), Tile(ps, w)
    PROVE  \A n \in 1 .. Len(ps) : ps[n].len > 0 /\ End(ps[n]) <= Len(w)
<1>1. DOMAIN ps = 1 .. Len(ps) /\ Len(ps) \in Nat /\ Len(w) \in Nat
  BY DEF PieceSeq
<1>2. \A n \in 1 .. Len(ps) : ps[n].len > 0
  BY <1>1 DEF Tile
<1> DEFINE T == { k \in Nat : k < Len(ps) /\ End(ps[Len(ps) - k]) > Len(w) }
<1>3. T = {}
  <2>1. SUFFICES ASSUME T # {} PROVE FALSE
    OBVIOUS
  <2>2. PICK k \in T : \A y \in T : k <= y
    BY <2>1, LeastNatural
  <2>3. k \in Nat /\ k < Len(ps) /\ End(ps[Len(ps) - k]) > Len(w)
    BY <2>2
  <2>4. k # 0
    <3>1. SUFFICES ASSUME k = 0 PROVE FALSE
      OBVIOUS
    <3>2. Len(ps) - k = Len(ps) /\ Len(ps) \in 1 .. Len(ps) /\ ps # << >>
      BY <3>1, <2>3, <1>1
    <3>3. Len(w) = End(ps[Len(ps)])
      BY <3>2 DEF Tile
    <3>4. End(ps[Len(ps)]) \in Nat
      BY <3>2, PieceFields
    <3>5. QED
      BY <3>2, <3>3, <3>4, <2>3
  <2> DEFINE n == Len(ps) - k
  <2>5. n \in 1 .. Len(ps) /\ n + 1 \in 1 .. Len(ps) /\ n + 1 # 1
    BY <2>3, <2>4, <1>1
  <2>6. (n + 1) - 1 = n /\ Len(ps) - (k - 1) = n + 1 /\ k - 1 \in Nat /\ k - 1 < Len(ps)
    BY <2>3, <2>4, <1>1
  <2> HIDE DEF n
  <2>7. ps[n + 1].start = End(ps[n])
    BY <2>5, <2>6, <1>1 DEF Tile
  <2>8. ps[n + 1] \in Piece /\ End(ps[n]) \in Nat
    BY <2>5, PieceFields
  <2>9. End(ps[n]) > Len(w)
    BY <2>3 DEF n
  <2>10. End(ps[n + 1]) > Len(w)
    BY <2>7, <2>8, <2>9, <1>1 DEF End, Piece
  <2>11. k - 1 \in T
    BY <2>6, <2>10
  <2>12. QED
    BY <2>2, <2>3, <2>11
<1>4. ASSUME NEW n \in 1 .. Len(ps)
      PROVE  End(ps[n]) <= Len(w)
  <2>1. Len(ps) - n \in Nat /\ Len(ps) - n < Len(ps) /\ Len(ps) - (Len(ps) - n) = n
    BY <1>1
  <2>2. ~(End(ps[n]) > Len(w))
    BY <2>1, <1>3
  <2>3. End(ps[n]) \in Nat
    BY PieceFields
  <2>4. QED
    BY <2>2, <2>3, <1>1
<1>5. QED
  BY <1>2, <1>4

\* Merging two neighbours leaves pieces that lie end to end.
LEMMA MergedTiles ==
    ASSUME NEW ps \in PieceSeq, NEW w \in Seq(Nat), Tile(ps, w),
           NEW n \in 1 .. Len(ps) - 1
    PROVE  Merged(ps, n) \in PieceSeq /\ Tile(Merged(ps, n), w)
<1> DEFINE qs == Merged(ps, n)
<1>1. DOMAIN ps = 1 .. Len(ps) /\ Len(ps) \in Nat /\ Len(w) \in Nat
      /\ n \in 1 .. Len(ps) /\ n + 1 \in 1 .. Len(ps)
  BY DEF PieceSeq
<1>2. /\ ps[n] \in Piece
      /\ ps[n + 1] \in Piece
  BY <1>1, PieceFields
<1>3. ps[n + 1].start = ps[n].start + ps[n].len
  <2>1. n + 1 # 1 /\ (n + 1) - 1 = n
    OBVIOUS
  <2>2. QED
    BY <1>1, <2>1 DEF Tile, End
<1> DEFINE both == [ps[n] EXCEPT !.len = @ + ps[n + 1].len]
<1>4. /\ both \in Piece
      /\ both.start = ps[n].start /\ both.len = ps[n].len + ps[n + 1].len
  <2>1. ps[n].len + ps[n + 1].len \in Nat
    BY <1>2 DEF Piece
  <2>2. both = [ps[n] EXCEPT !.len = ps[n].len + ps[n + 1].len]
    BY <1>2 DEF Piece
  <2> HIDE DEF both
  <2>3. QED
    BY <1>2, <2>1, <2>2, WithLen
<1>5. both.len > 0 /\ End(both) = End(ps[n + 1])
  BY <1>1, <1>2, <1>3, <1>4, SMTT(30) DEF Tile, End, Piece
<1>6. qs = [x \in 1 .. Len(ps) - 1 |->
              IF x < n THEN ps[x] ELSE IF x > n THEN ps[x + 1] ELSE both]
  BY DEF Merged
<1> HIDE DEF qs, both
<1>7. ASSUME NEW x \in 1 .. Len(ps) - 1
      PROVE  qs[x] = IF x < n THEN ps[x] ELSE IF x > n THEN ps[x + 1] ELSE both
  BY <1>6
<1>8. \A x \in 1 .. Len(ps) - 1 : qs[x] \in Piece
  <2> TAKE x \in 1 .. Len(ps) - 1
  <2>1. x \in 1 .. Len(ps) /\ x + 1 \in 1 .. Len(ps)
    BY <1>1
  <2>2. ps[x] \in Piece /\ ps[x + 1] \in Piece
    BY <2>1, PieceFields
  <2>3. QED
    BY <2>2, <1>4, <1>7
<1>9. qs \in PieceSeq /\ Len(qs) = Len(ps) - 1
  BY <1>1, <1>6, <1>8 DEF PieceSeq
<1>10. ASSUME NEW x \in 1 .. Len(ps) - 1
       PROVE  qs[x].len > 0 /\ qs[x].start = IF x = 1 THEN 0 ELSE End(qs[x - 1])
  <2>1. x \in 1 .. Len(ps) /\ x + 1 \in 1 .. Len(ps) /\ (x + 1) - 1 = x
    BY <1>1
  <2>2. /\ ps[x].len > 0 /\ ps[x + 1].len > 0
        /\ ps[x].start = IF x = 1 THEN 0 ELSE End(ps[x - 1])
        /\ ps[x + 1].start = End(ps[x])
    <3>1. x + 1 # 1
      OBVIOUS
    <3>2. /\ ps[x + 1].len > 0
          /\ ps[x + 1].start = IF x + 1 = 1 THEN 0 ELSE End(ps[(x + 1) - 1])
      BY <2>1, <1>1 DEF Tile
    <3>3. /\ ps[x].len > 0
          /\ ps[x].start = IF x = 1 THEN 0 ELSE End(ps[x - 1])
      BY <2>1, <1>1 DEF Tile
    <3>4. QED
      BY <2>1, <3>1, <3>2, <3>3
  <2>3. x # 1 => x - 1 \in 1 .. Len(ps) - 1
    OBVIOUS
  <2>4. CASE x < n
    <3>1. qs[x] = ps[x] /\ (x # 1 => qs[x - 1] = ps[x - 1])
      BY <2>3, <2>4, <1>7
    <3>2. QED
      BY <2>2, <3>1
  <2>5. CASE x = n
    <3>1. qs[x] = both /\ (x # 1 => qs[x - 1] = ps[x - 1])
      BY <2>3, <2>5, <1>7
    <3>2. QED
      BY <2>2, <2>5, <3>1, <1>4, <1>5
  <2>6. CASE x > n
    <3>1. qs[x] = ps[x + 1] /\ x # 1
      BY <2>6, <1>7
    <3>2. End(qs[x - 1]) = End(ps[x])
      <4>1. CASE x - 1 = n
        BY <4>1, <2>3, <3>1, <1>5, <1>7
      <4>2. CASE x - 1 > n
        BY <4>2, <2>3, <3>1, <1>7
      <4>3. QED
        BY <2>6, <4>1, <4>2
    <3>3. QED
      BY <2>2, <3>1, <3>2
  <2>7. QED
    BY <2>4, <2>5, <2>6
<1>11. End(qs[Len(ps) - 1]) = End(ps[Len(ps)])
  <2>1. Len(ps) - 1 \in 1 .. Len(ps) - 1 /\ (Len(ps) - 1) + 1 = Len(ps)
    BY <1>1
  <2>2. CASE n = Len(ps) - 1
    <3>1. qs[Len(ps) - 1] = both
      BY <2>1, <2>2, <1>7
    <3>2. n + 1 = Len(ps)
      BY <2>1, <2>2
    <3>3. ps[n + 1] = ps[Len(ps)]
      BY <3>2
    <3>4. End(both) = End(ps[Len(ps)])
      BY <3>3, <1>5
    <3>5. QED
      BY <3>1, <3>4
  <2>3. CASE n # Len(ps) - 1
    <3>1. Len(ps) - 1 > n /\ ~(Len(ps) - 1 < n)
      <4>1. \A m \in Int : \A k \in 1 .. m : k # m => m > k /\ ~(m < k)
        OBVIOUS
      <4>2. Len(ps) - 1 \in Int
        BY <1>1
      <4>3. QED
        BY <4>1, <4>2, <2>3
    <3>2. qs[Len(ps) - 1] = ps[(Len(ps) - 1) + 1]
      BY <2>1, <3>1, <1>7
    <3>3. QED
      BY <2>1, <3>2
  <2>4. QED
    BY <2>2, <2>3
<1>12. ps # << >> /\ qs # << >>
  BY <1>1, <1>9
<1>13. Len(w) = End(qs[Len(qs)])
  BY <1>9, <1>11, <1>12 DEF Tile
<1>14. DOMAIN qs = 1 .. Len(ps) - 1
  BY <1>6
<1>15. Tile(qs, w)
  BY <1>10, <1>12, <1>13, <1>14 DEF Tile
<1>16. QED
  BY <1>9, <1>15 DEF qs
-----------------------------------------------------------------------------
(* The word, its seeds and the ranks *)

Inputs ==
    /\ text \in Texts /\ merges \in Tables
    /\ merge_fn \in {"naive", "flat", "nlogn"}

LEMMA WordIsBytes ==
    ASSUME Inputs
    PROVE  word \in Seq(Nat) /\ Len(word) \in Nat
<1>1. text \in [bytes : Seq(Nat), chars : Seq([start : Nat, len : Nat])]
  BY BpeAssumption DEF Inputs
<1>2. QED
  BY <1>1 DEF word

LEMMA SeedTiles ==
    ASSUME Inputs
    PROVE  SeedPieces \in PieceSeq /\ Tile(SeedPieces, word)
<1>1. /\ text \in [bytes : Seq(Nat), chars : Seq([start : Nat, len : Nat])]
      /\ Tile(text.chars, text.bytes)
  BY BpeAssumption DEF Inputs
<1>2. text.chars \in PieceSeq /\ Tile(text.chars, word)
  BY <1>1 DEF PieceSeq, Piece, word
<1>3. word \in Seq(Nat) /\ Len(word) \in Nat /\ DOMAIN word = 1 .. Len(word)
  BY WordIsBytes
<1> HIDE DEF word
<1>4. \A x \in 1 .. Len(word) : [start |-> x - 1, len |-> 1] \in Piece
  BY DEF Piece
<1>5. /\ BytePieces \in PieceSeq /\ Len(BytePieces) = Len(word)
      /\ DOMAIN BytePieces = 1 .. Len(word)
      /\ \A x \in 1 .. Len(word) : BytePieces[x] = [start |-> x - 1, len |-> 1]
  BY <1>3, <1>4 DEF BytePieces, PieceSeq
<1>6. \A x \in 1 .. Len(word) :
        BytePieces[x].start = x - 1 /\ BytePieces[x].len = 1 /\ End(BytePieces[x]) = x
  BY <1>5 DEF End
<1>7. Tile(BytePieces, word)
  <2>1. ASSUME NEW x \in 1 .. Len(word)
        PROVE  /\ BytePieces[x].len > 0
               /\ BytePieces[x].start = IF x = 1 THEN 0 ELSE End(BytePieces[x - 1])
    <3>1. CASE x = 1
      BY <3>1, <1>6
    <3>2. CASE x # 1
      <4>1. x - 1 \in 1 .. Len(word)
        BY <3>2, <1>3
      <4>2. QED
        BY <3>2, <4>1, <1>6
    <3>3. QED
      BY <3>1, <3>2
  <2>2. Len(word) = IF BytePieces = << >> THEN 0 ELSE End(BytePieces[Len(BytePieces)])
    <3>1. CASE Len(word) = 0
      BY <3>1, <1>5 DEF PieceSeq
    <3>2. CASE Len(word) # 0
      <4>1. Len(word) \in 1 .. Len(word) /\ BytePieces # << >>
        BY <3>2, <1>3, <1>5 DEF PieceSeq
      <4>2. QED
        BY <4>1, <1>5, <1>6
    <3>3. QED
      BY <3>1, <3>2
  <2>3. QED
    BY <2>1, <2>2, <1>5 DEF Tile
<1>8. QED
  BY <1>2, <1>5, <1>7 DEF SeedPieces

LEMMA RankIsBounded ==
    ASSUME Inputs, NEW start, NEW end
    PROVE  RankOf(start, end) \in 0 .. MaxRank
<1>1. MaxRank \in Nat /\ \A key \in DOMAIN merges : merges[key] \in 0 .. MaxRank - 1
  BY BpeAssumption DEF Inputs
<1>2. CASE Slice(word, start, end) \in DOMAIN merges
  <2>1. merges[Slice(word, start, end)] \in 0 .. MaxRank - 1
    BY <1>1, <1>2
  <2>2. RankOf(start, end) = merges[Slice(word, start, end)]
    BY <1>2 DEF RankOf
  <2>3. QED
    BY <1>1, <2>1, <2>2
<1>3. CASE ~(Slice(word, start, end) \in DOMAIN merges)
  BY <1>1, <1>3 DEF RankOf
<1>4. QED
  BY <1>2, <1>3

-----------------------------------------------------------------------------
(* The next merge *)

\* The rank of the n-th pair of the pieces ps.
PairOf(ps, n) == RankOf(ps[n].start, End(ps[n + 1]))

\* The n-th pair of ps is the leftmost of those of lowest rank.
NextPair(ps, n) ==
    /\ n \in 1 .. Len(ps) - 1
    /\ PairOf(ps, n) < MaxRank
    /\ \A x \in 1 .. Len(ps) - 1 :
         PairOf(ps, n) < PairOf(ps, x) \/ (PairOf(ps, n) = PairOf(ps, x) /\ n <= x)

NothingToMerge(ps) == \A x \in 1 .. Len(ps) - 1 : PairOf(ps, x) = MaxRank

\* One step of a merge loop, as BpeMerge has it, or none.
MergesOrStays ==
    /\ UNCHANGED input
    /\ \/ UNCHANGED CurrentPieces
       \/ \E n : NextPair(CurrentPieces, n) /\ CurrentPieces' = Merged(CurrentPieces, n)

LEMMA MergesOrStaysIsMerging ==
    ASSUME Inputs, MergesOrStays
    PROVE  [Merging!Next]_(Merging!vars)
<1>1. UNCHANGED <<word, merges>>
  BY DEF MergesOrStays, input, word
<1>2. CASE UNCHANGED CurrentPieces
  BY <1>1, <1>2 DEF Merging!vars
<1>3. ASSUME NEW n, NextPair(CurrentPieces, n), CurrentPieces' = Merged(CurrentPieces, n)
      PROVE  Merging!Next
  <2>1. \A x : Merging!PairRank(x) = PairOf(CurrentPieces, x)
    BY DEF Merging!PairRank, Merging!Rank, Merging!Slice, Merging!End,
           PairOf, RankOf, Slice, End
  <2>2. n \in Merging!Pairs
    BY <1>3 DEF Merging!Pairs, NextPair
  <2>3. Merging!IsNext(n)
    <3>1. /\ PairOf(CurrentPieces, n) < MaxRank
          /\ \A x \in Merging!Pairs :
               \/ PairOf(CurrentPieces, n) < PairOf(CurrentPieces, x)
               \/ PairOf(CurrentPieces, n) = PairOf(CurrentPieces, x) /\ n <= x
      BY <1>3 DEF NextPair, Merging!Pairs
    <3>2. QED
      BY <2>1, <3>1 DEF Merging!IsNext
  <2>4. Merging!Merge(n)
    <3>1. CurrentPieces' = Merging!Merged(CurrentPieces, n)
      BY <1>3 DEF Merged, Merging!Merged
    <3>2. QED
      BY <1>1, <2>3, <3>1 DEF Merging!Merge
  <2>5. QED
    BY <2>2, <2>4 DEF Merging!Next
<1>4. QED
  BY <1>2, <1>3 DEF MergesOrStays
-----------------------------------------------------------------------------
(* The invariant *)

FlatRuns == pc = "merge" /\ merge_fn = "flat"
ListRuns == pc \in {"merge", "collect"} /\ merge_fn = "nlogn"

Part == [start : Nat, rank : Nat]

\* The parts ps rise from the first byte of a word of this length to its end.
Rising(ps, length) ==
    /\ ps \in Seq(Part)
    /\ Len(ps) >= 2
    /\ ps[1].start = 0 /\ ps[Len(ps)].start = length
    /\ \A x \in 1 .. Len(ps) - 1 : ps[x].start < ps[x + 1].start

\* The pieces that the parts ps stand for.
PiecesOf(ps) ==
    [x \in 1 .. Len(ps) - 1 |->
       [start |-> ps[x].start, len |-> ps[x + 1].start - ps[x].start]]

\* merge_loop_flat: the cached ranks are those of the pairs.
PartsOK ==
    /\ Rising(parts, Len(word))
    /\ \A x \in 1 .. Len(parts) : parts[x].rank = PartRank(parts, x)

Node == [start : Nat, len : Nat, prev : Int, next : Int, alive : BOOLEAN]

\* The sequence path enumerates the set S of numbers in ascending order.
Enumerates(path, S) ==
    /\ path \in Seq(S)
    /\ \A x, y \in 1 .. Len(path) : x < y => path[x] < path[y]
    /\ \A s \in S : \E x \in 1 .. Len(path) : path[x] = s

LiveOf(ns) == { s \in DOMAIN ns : ns[s].alive }

\* The list ns leads through its live slots in ascending order, along path, and
\* no slot goes beyond a word of this length.
ListOf(ns, path, length) ==
    /\ \E n \in Nat : ns \in [0 .. n - 1 -> Node]
    /\ \A s \in DOMAIN ns :
         /\ {ns[s].prev, ns[s].next} \subseteq DOMAIN ns \cup {None}
         /\ End(ns[s]) \in 1 .. length
    /\ Enumerates(path, LiveOf(ns))
    /\ Len(path) >= 1 /\ path[1] = 0
    /\ \A x \in 1 .. Len(path) :
         /\ ns[path[x]].next = IF x = Len(path) THEN None ELSE path[x + 1]
         /\ ns[path[x]].prev = IF x = 1 THEN None ELSE path[x - 1]

\* The pieces in the slots of path.
PiecesAlong(ns, path) ==
    [x \in DOMAIN path |-> [start |-> ns[path[x]].start, len |-> ns[path[x]].len]]

\* merge_loop_nlogn: the list, and candidates that name slots of it.
ListOK ==
    /\ ListOf(nodes, LiveSlots, Len(word))
    /\ heap \subseteq [rank : 0 .. MaxRank - 1, left : DOMAIN nodes, right : DOMAIN nodes]

\* Every pair of neighbours that can be merged has its candidate in the heap.
HeapOK ==
    \A x \in 1 .. Len(LiveSlots) - 1 :
        Candidate(nodes, LiveSlots[x], LiveSlots[x + 1]) \subseteq heap

\* The slots before the cursor are collected.
Collected ==
    /\ Len(pieces) <= Len(LiveSlots)
    /\ \A x \in 1 .. Len(pieces) : pieces[x] = PieceAt(LiveSlots[x])
    /\ cursor = IF Len(pieces) = Len(LiveSlots) THEN None ELSE LiveSlots[Len(pieces) + 1]

Token == [bytes : Seq(Nat), start : Nat, end : Nat]

\* The tokens o lie end to end over the word w from its first byte.
Spans(o, w) ==
    \A x \in 1 .. Len(o) :
        /\ o[x].start = IF x = 1 THEN 0 ELSE o[x - 1].end
        /\ o[x].start < o[x].end
        /\ o[x].bytes = Slice(w, o[x].start, o[x].end)

LastEnd(o) == IF o = << >> THEN 0 ELSE o[Len(o)].end

\* The tokens stand for the pieces emitted so far.
TokensOK ==
    /\ out \in Seq(Token)
    /\ Spans(out, word)
    /\ emitted \in 0 .. Len(pieces)
    /\ LastEnd(out) = IF emitted = 0 THEN 0 ELSE End(pieces[emitted])

IInv ==
    /\ Inputs
    /\ pc \in {"seed", "call", "merge", "collect", "emit", "done", "error"}
    /\ pieces \in PieceSeq
    /\ CurrentPieces \in PieceSeq /\ Tile(CurrentPieces, word)
    /\ IF FlatRuns THEN PartsOK ELSE parts = << >>
    /\ IF ListRuns THEN ListOK ELSE nodes = << >> /\ heap = {}
    /\ pc = "merge" /\ merge_fn = "nlogn" => HeapOK
    /\ IF pc = "collect" THEN merge_fn = "nlogn" /\ heap = {} /\ Collected ELSE cursor = None
    /\ pc \in {"collect", "emit", "done", "error"} => NothingToMerge(CurrentPieces)
    /\ IF pc \in {"emit", "done", "error"} THEN TokensOK ELSE emitted = 0 /\ out = << >>
    /\ pc = "done" => emitted = Len(pieces)

LEMMA InitIInv == Init => IInv
<1>1. SUFFICES ASSUME Init PROVE IInv
  OBVIOUS
<1>2. Inputs /\ pc = "seed"
  BY <1>1 DEF Init, Inputs
<1>3. CurrentPieces = SeedPieces
  BY <1>2 DEF CurrentPieces
<1>4. pieces \in PieceSeq
  BY <1>1 DEF Init, PieceSeq
<1>5. CurrentPieces \in PieceSeq /\ Tile(CurrentPieces, word)
  BY <1>2, <1>3, SeedTiles
<1>6. QED
  BY <1>1, <1>2, <1>4, <1>5 DEF Init, IInv, FlatRuns, ListRuns

\* What a step that leaves the input alone says of the next state.
LEMMA NextInputs ==
    ASSUME Inputs, UNCHANGED input
    PROVE  /\ Inputs' /\ word' = word /\ SeedPieces' = SeedPieces
           /\ \A start, end : RankOf(start, end)' = RankOf(start, end)
           /\ \A ps : NothingToMerge(ps)' = NothingToMerge(ps)
<1>1. Inputs' /\ word' = word
  BY DEF Inputs, input, word
<1>2. SeedPieces' = SeedPieces
  BY DEF input, SeedPieces, SeedPerChar, IsAscii, BytePieces, word
<1>3. \A start, end : RankOf(start, end)' = RankOf(start, end)
  BY <1>1 DEF RankOf, input
<1>4. \A ps : NothingToMerge(ps)' = NothingToMerge(ps)
  BY <1>3 DEF NothingToMerge, PairOf
<1>5. QED
  BY <1>1, <1>2, <1>3, <1>4

-----------------------------------------------------------------------------
(* Seeding, and the loops' early return *)

LEMMA StepSeed == IInv /\ Seed => IInv' /\ MergesOrStays
<1>1. SUFFICES ASSUME IInv, Seed PROVE IInv' /\ MergesOrStays
  OBVIOUS
<1>2. /\ pc = "seed" /\ pc' = "call" /\ pieces' = SeedPieces
      /\ UNCHANGED <<input, parts, nodes, heap, cursor, emitted, out>>
  BY <1>1 DEF Seed
<1>3. CurrentPieces = SeedPieces /\ CurrentPieces' = SeedPieces
  BY <1>2 DEF CurrentPieces
<1>4. Inputs' /\ word' = word
  BY <1>1, <1>2, NextInputs DEF IInv
<1>5. MergesOrStays
  BY <1>2, <1>3 DEF MergesOrStays
<1>6. IInv'
  BY <1>1, <1>2, <1>3, <1>4 DEF IInv, FlatRuns, ListRuns
<1>7. QED
  BY <1>5, <1>6

LEMMA StepCallReturns == IInv /\ CallReturns => IInv' /\ MergesOrStays
<1>1. SUFFICES ASSUME IInv, CallReturns PROVE IInv' /\ MergesOrStays
  OBVIOUS
<1>2. /\ pc = "call" /\ pc' = "emit" /\ Len(pieces) < 2
      /\ UNCHANGED <<input, pieces, parts, nodes, heap, cursor, emitted, out>>
  BY <1>1 DEF CallReturns
<1>3. CurrentPieces = pieces /\ CurrentPieces' = pieces
  BY <1>2 DEF CurrentPieces
<1>4. Inputs' /\ word' = word
  BY <1>1, <1>2, NextInputs DEF IInv
<1>5. MergesOrStays
  BY <1>2, <1>3 DEF MergesOrStays
<1>6. Len(pieces) \in Nat
  BY <1>1 DEF IInv, PieceSeq
<1>7. NothingToMerge(CurrentPieces)'
  BY <1>2, <1>3, <1>6 DEF NothingToMerge
<1>8. TokensOK'
  BY <1>1, <1>2, <1>6 DEF IInv, TokensOK, Spans, LastEnd
<1>9. IInv'
  BY <1>1, <1>2, <1>3, <1>4, <1>7, <1>8 DEF IInv, FlatRuns, ListRuns
<1>10. QED
  BY <1>5, <1>9
\* When a loop is done no token is out.
LEMMA TokensBegin ==
    ASSUME IInv, pc \notin {"emit", "done", "error"}, UNCHANGED <<input, emitted, out>>,
           pieces' \in PieceSeq
    PROVE  TokensOK'
<1>1. emitted' = 0 /\ out' = << >>
  BY DEF IInv
<1>2. Len(pieces') \in Nat
  BY DEF PieceSeq
<1>3. QED
  BY <1>1, <1>2 DEF TokensOK, Spans, LastEnd

-----------------------------------------------------------------------------
(* merge_loop_naive *)

\* The least of finitely many ranks, and of its places the first.
LEMMA FirstLeast ==
    ASSUME NEW n \in Nat \ {0}, NEW f \in [1 .. n -> Nat]
    PROVE  \E x \in 1 .. n :
             /\ \A y \in 1 .. n : f[x] <= f[y]
             /\ \A y \in 1 .. x - 1 : f[x] < f[y]
<1> DEFINE V == { f[x] : x \in 1 .. n }
<1>1. V \subseteq Nat /\ f[1] \in V
  OBVIOUS
<1>2. PICK v \in V : \A y \in V : v <= y
  BY <1>1, LeastNatural
<1> DEFINE T == { x \in 1 .. n : f[x] = v }
<1>3. T \subseteq Nat /\ T # {}
  BY <1>2
<1>4. PICK x \in T : \A y \in T : x <= y
  BY <1>3, LeastNatural
<1>5. x \in 1 .. n /\ f[x] = v /\ \A y \in 1 .. n : v <= f[y]
  BY <1>2, <1>4
<1>6. ASSUME NEW y \in 1 .. x - 1
      PROVE  f[x] < f[y]
  <2>1. y \in 1 .. n /\ ~(x <= y)
    BY <1>5
  <2>2. f[y] # v
    BY <2>1, <1>4
  <2>3. QED
    BY <2>1, <2>2, <1>5
<1>7. QED
  BY <1>5, <1>6

LEMMA StepCallNaive == IInv /\ CallNaive => IInv' /\ MergesOrStays
<1>1. SUFFICES ASSUME IInv, CallNaive PROVE IInv' /\ MergesOrStays
  OBVIOUS
<1>2. /\ pc = "call" /\ pc' = "merge" /\ merge_fn = "naive"
      /\ UNCHANGED <<input, pieces, parts, nodes, heap, cursor, emitted, out>>
  BY <1>1 DEF CallNaive, Calls
<1>3. merge_fn' = "naive"
  BY <1>2 DEF input
<1>4. CurrentPieces = pieces /\ CurrentPieces' = pieces
  BY <1>2, <1>3 DEF CurrentPieces
<1>5. Inputs' /\ word' = word
  BY <1>1, <1>2, NextInputs DEF IInv
<1>6. MergesOrStays
  BY <1>2, <1>4 DEF MergesOrStays
<1>7. IInv'
  BY <1>1, <1>2, <1>3, <1>4, <1>5 DEF IInv, FlatRuns, ListRuns
<1>8. QED
  BY <1>6, <1>7

\* The rescan finds the pair that is to be merged next, if any can be.
LEMMA BestPairIsNext ==
    ASSUME Inputs, pieces \in PieceSeq, NEW z \in 1 .. Len(pieces) - 1, PairRank(z) < MaxRank
    PROVE  NextPair(pieces, BestPair)
<1> DEFINE n == Len(pieces) - 1
           f == [x \in 1 .. n |-> PairRank(x)]
<1>1. n \in Nat \ {0}
  <2>1. Len(pieces) \in Nat
    BY DEF PieceSeq
  <2>2. \A m \in Int : \A k \in 1 .. m : m \in Nat \ {0}
    OBVIOUS
  <2>3. n \in Int /\ z \in 1 .. n
    BY <2>1
  <2> HIDE DEF n
  <2>4. QED
    BY <2>2, <2>3
<1>2. \A x \in 1 .. n : PairRank(x) \in Nat /\ PairRank(x) = PairOf(pieces, x)
  <2>1. MaxRank \in Nat
    BY BpeAssumption
  <2>2. QED
    BY <2>1, RankIsBounded DEF PairRank, PairOf
<1>3. f \in [1 .. n -> Nat]
  BY <1>2
<1>4. PICK x \in 1 .. n :
        /\ \A y \in 1 .. n : f[x] <= f[y]
        /\ \A y \in 1 .. x - 1 : f[x] < f[y]
  <2> HIDE DEF f, n
  <2>1. QED
    BY <1>1, <1>3, FirstLeast
<1>5. /\ \A y \in 1 .. n : PairRank(x) <= PairRank(y)
      /\ \A y \in 1 .. x - 1 : PairRank(x) < PairRank(y)
  <2>1. \A y \in 1 .. n : f[y] = PairRank(y)
    OBVIOUS
  <2>2. \A y \in 1 .. x - 1 : y \in 1 .. n
    BY <1>1
  <2> HIDE DEF f, n
  <2>3. QED
    BY <1>4, <2>1, <2>2
<1>6. /\ BestPair \in 1 .. n
      /\ \A y \in 1 .. n : PairRank(BestPair) <= PairRank(y)
      /\ \A y \in 1 .. BestPair - 1 : PairRank(BestPair) < PairRank(y)
  BY <1>5 DEF BestPair
<1> DEFINE b == BestPair
<1>7. /\ b \in 1 .. n
      /\ \A y \in 1 .. n : PairRank(b) <= PairRank(y)
      /\ \A y \in 1 .. b - 1 : PairRank(b) < PairRank(y)
  BY <1>6
<1> HIDE DEF b
<1>8. PairRank(b) < MaxRank
  <2>1. PairRank(b) <= PairRank(z) /\ PairRank(b) \in Nat /\ PairRank(z) \in Nat
    BY <1>2, <1>7
  <2>2. QED
    BY <2>1, BpeAssumption
<1>9. ASSUME NEW y \in 1 .. n
      PROVE  PairRank(b) < PairRank(y) \/ (PairRank(b) = PairRank(y) /\ b <= y)
  <2>1. PairRank(b) <= PairRank(y) /\ PairRank(b) \in Nat /\ PairRank(y) \in Nat
    BY <1>2, <1>7
  <2>2. CASE y < b
    BY <2>2, <1>7
  <2>3. CASE ~(y < b)
    BY <2>1, <2>3, <1>7
  <2>4. QED
    BY <2>2, <2>3
<1>10. NextPair(pieces, b)
  BY <1>2, <1>7, <1>8, <1>9 DEF NextPair
<1>11. QED
  BY <1>10 DEF b

LEMMA StepNaiveMerge == IInv /\ NaiveMerge => IInv' /\ MergesOrStays
<1>1. SUFFICES ASSUME IInv, NaiveMerge PROVE IInv' /\ MergesOrStays
  OBVIOUS
<1>2. /\ pc = "merge" /\ merge_fn = "naive"
      /\ \E x \in 1 .. Len(pieces) - 1 : PairRank(x) < MaxRank
      /\ pieces' = Merged(pieces, BestPair)
      /\ UNCHANGED <<input, pc, parts, nodes, heap, cursor, emitted, out>>
  BY <1>1 DEF NaiveMerge
<1>3. merge_fn' = "naive" /\ pc' = "merge"
  BY <1>2 DEF input
<1>4. CurrentPieces = pieces /\ CurrentPieces' = pieces'
  BY <1>2, <1>3 DEF CurrentPieces
<1>5. Inputs /\ Inputs' /\ word' = word /\ word \in Seq(Nat)
  BY <1>1, <1>2, NextInputs, WordIsBytes DEF IInv
<1>6. NextPair(pieces, BestPair)
  BY <1>1, <1>2, <1>5, BestPairIsNext DEF IInv
<1>7. MergesOrStays
  BY <1>2, <1>4, <1>6 DEF MergesOrStays
<1>8. pieces' \in PieceSeq /\ Tile(pieces', word)
  BY <1>1, <1>2, <1>4, <1>5, <1>6, MergedTiles DEF IInv, NextPair
<1>9. IInv'
  BY <1>1, <1>2, <1>3, <1>4, <1>5, <1>8 DEF IInv, FlatRuns, ListRuns
<1>10. QED
  BY <1>7, <1>9

LEMMA StepNaiveDone == IInv /\ NaiveDone => IInv' /\ MergesOrStays
<1>1. SUFFICES ASSUME IInv, NaiveDone PROVE IInv' /\ MergesOrStays
  OBVIOUS
<1>2. /\ pc = "merge" /\ pc' = "emit" /\ merge_fn = "naive"
      /\ \A x \in 1 .. Len(pieces) - 1 : PairRank(x) >= MaxRank
      /\ UNCHANGED <<input, pieces, parts, nodes, heap, cursor, emitted, out>>
  BY <1>1 DEF NaiveDone
<1>3. CurrentPieces = pieces /\ CurrentPieces' = pieces
  BY <1>2 DEF CurrentPieces
<1>4. Inputs /\ Inputs' /\ word' = word
  BY <1>1, <1>2, NextInputs DEF IInv
<1>5. MergesOrStays
  BY <1>2, <1>3 DEF MergesOrStays
<1>6. NothingToMerge(pieces)
  <2>1. ASSUME NEW x \in 1 .. Len(pieces) - 1
        PROVE  PairOf(pieces, x) = MaxRank
    <3>1. PairRank(x) \in 0 .. MaxRank /\ MaxRank \in Nat
      BY <1>4, BpeAssumption, RankIsBounded DEF PairRank
    <3>2. PairRank(x) = MaxRank
      BY <1>2, <3>1
    <3>3. QED
      BY <3>2 DEF PairRank, PairOf
  <2>2. QED
    BY <2>1 DEF NothingToMerge
<1>7. NothingToMerge(CurrentPieces)'
  BY <1>1, <1>2, <1>3, <1>6, NextInputs DEF IInv
<1>8. TokensOK'
  BY <1>1, <1>2, TokensBegin DEF IInv
<1>9. IInv'
  BY <1>1, <1>2, <1>3, <1>4, <1>7, <1>8 DEF IInv, FlatRuns, ListRuns
<1>10. QED
  BY <1>5, <1>9
-----------------------------------------------------------------------------
(* merge_loop_flat *)

LEMMA PartFields ==
    ASSUME NEW ps \in Seq(Part), NEW x \in 1 .. Len(ps)
    PROVE  ps[x] \in Part /\ ps[x].start \in Nat /\ ps[x].rank \in Nat
<1>1. ps[x] \in Part
  OBVIOUS
<1>2. QED
  BY <1>1 DEF Part

\* Rising parts stand for pieces that lie end to end.
LEMMA PartsArePieces ==
    ASSUME NEW w \in Seq(Nat), NEW qs, Rising(qs, Len(w))
    PROVE  /\ PiecesOf(qs) \in PieceSeq /\ Len(PiecesOf(qs)) = Len(qs) - 1
           /\ \A x \in 1 .. Len(qs) - 1 :
                /\ PiecesOf(qs)[x] \in Piece
                /\ PiecesOf(qs)[x].start = qs[x].start
                /\ End(PiecesOf(qs)[x]) = qs[x + 1].start
           /\ Tile(PiecesOf(qs), w)
<1> DEFINE n == Len(qs) - 1
           ps == PiecesOf(qs)
<1>1. qs \in Seq(Part) /\ n \in Nat \ {0} /\ n + 1 = Len(qs)
  BY DEF Rising
<1>2. ps = [x \in 1 .. n |-> [start |-> qs[x].start, len |-> qs[x + 1].start - qs[x].start]]
  BY DEF PiecesOf
<1>3. \A x \in 1 .. n : /\ qs[x].start \in Nat /\ qs[x + 1].start \in Nat
                        /\ qs[x].start < qs[x + 1].start
  <2> TAKE x \in 1 .. n
  <2>1. x \in 1 .. Len(qs) /\ x + 1 \in 1 .. Len(qs)
    BY <1>1
  <2>2. QED
    BY <2>1, <1>1, PartFields DEF Rising
<1>4. qs[1].start = 0 /\ qs[n + 1].start = Len(w)
  BY <1>1 DEF Rising
<1> HIDE DEF n, ps
<1>5. ASSUME NEW x \in 1 .. n
      PROVE  /\ ps[x] \in Piece
             /\ ps[x].start = qs[x].start
             /\ ps[x].len > 0
             /\ End(ps[x]) = qs[x + 1].start
  <2>1. ps[x] = [start |-> qs[x].start, len |-> qs[x + 1].start - qs[x].start]
    BY <1>2
  <2>2. qs[x + 1].start - qs[x].start \in Nat /\ qs[x + 1].start - qs[x].start > 0
    BY <1>3
  <2>3. ps[x].start = qs[x].start /\ ps[x].len = qs[x + 1].start - qs[x].start
    BY <2>1
  <2>4. End(ps[x]) = qs[x + 1].start
    BY <2>3, <1>3 DEF End
  <2>5. ps[x] \in Piece
    BY <2>1, <2>2, <1>3 DEF Piece
  <2>6. QED
    BY <2>2, <2>3, <2>4, <2>5
<1>6. ps \in PieceSeq /\ Len(ps) = n /\ DOMAIN ps = 1 .. n
  BY <1>1, <1>2, <1>5 DEF PieceSeq
<1>7. ASSUME NEW x \in 1 .. n
      PROVE  ps[x].start = IF x = 1 THEN 0 ELSE End(ps[x - 1])
  <2>1. CASE x = 1
    BY <2>1, <1>4, <1>5
  <2>2. CASE x # 1
    <3>1. x - 1 \in 1 .. n /\ (x - 1) + 1 = x
      BY <2>2, <1>1
    <3>2. End(ps[x - 1]) = qs[(x - 1) + 1].start
      BY <3>1, <1>5
    <3>3. QED
      BY <2>2, <3>1, <3>2, <1>5
  <2>3. QED
    BY <2>1, <2>2
<1>8. ps # << >> /\ Len(w) = End(ps[Len(ps)])
  <2>1. n \in 1 .. n
    BY <1>1
  <2>2. End(ps[n]) = qs[n + 1].start
    BY <2>1, <1>5
  <2>3. QED
    BY <1>1, <1>4, <1>6, <2>2
<1>9. Tile(ps, w)
  BY <1>5, <1>6, <1>7, <1>8 DEF Tile
<1>10. QED
  BY <1>5, <1>6, <1>9 DEF n, ps

\* Pieces are the same if they begin and end alike.
LEMMA SamePieces ==
    ASSUME NEW ps \in PieceSeq, NEW qs \in PieceSeq, Len(ps) = Len(qs),
           \A x \in 1 .. Len(ps) : ps[x].start = qs[x].start /\ End(ps[x]) = End(qs[x])
    PROVE  ps = qs
<1>1. ASSUME NEW x \in 1 .. Len(ps)
      PROVE  ps[x] = qs[x]
  <2>1. ps[x] \in Piece /\ qs[x] \in Piece
    BY PieceFields
  <2>2. ps[x].start = qs[x].start /\ ps[x].len = qs[x].len
    BY <2>1 DEF End, Piece
  <2>3. QED
    BY <2>1, <2>2 DEF Piece
<1>2. QED
  BY <1>1 DEF PieceSeq

\* A cached rank is the rank of the pair.
LEMMA PartRankIs ==
    ASSUME Inputs, PartsOK, NEW x \in 1 .. Len(parts)
    PROVE  parts[x].rank = IF x + 2 <= Len(parts) THEN PairOf(PiecesOfParts, x) ELSE MaxRank
<1>1. /\ parts[x].rank = PartRank(parts, x) /\ Len(parts) \in Nat
      /\ PiecesOfParts = PiecesOf(parts)
  BY DEF PartsOK, Rising, PiecesOfParts, PiecesOf
<1>2. CASE x + 2 <= Len(parts)
  <2>1. x \in 1 .. Len(parts) - 1 /\ x + 1 \in 1 .. Len(parts) - 1 /\ (x + 1) + 1 = x + 2
    BY <1>1, <1>2
  <2>2. /\ PiecesOfParts[x].start = parts[x].start
        /\ End(PiecesOfParts[x + 1]) = parts[(x + 1) + 1].start
    BY <1>1, <2>1, WordIsBytes, PartsArePieces DEF PartsOK
  <2>3. PairOf(PiecesOfParts, x) = RankOf(parts[x].start, parts[x + 2].start)
    BY <2>1, <2>2 DEF PairOf
  <2>4. QED
    BY <1>1, <1>2, <2>3 DEF PartRank
<1>3. CASE ~(x + 2 <= Len(parts))
  BY <1>1, <1>3 DEF PartRank
<1>4. QED
  BY <1>2, <1>3

\* The scan finds the first part of lowest cached rank.
LEMMA MinPartIs ==
    ASSUME PartsOK
    PROVE  /\ MinPart \in 1 .. Len(parts) - 1
           /\ \A y \in 1 .. Len(parts) - 1 : parts[MinPart].rank <= parts[y].rank
           /\ \A y \in 1 .. MinPart - 1 : parts[MinPart].rank < parts[y].rank
<1> DEFINE n == Len(parts) - 1
           f == [x \in 1 .. n |-> parts[x].rank]
<1>1. parts \in Seq(Part) /\ n \in Nat \ {0}
  BY DEF PartsOK, Rising
<1>2. \A x \in 1 .. n : parts[x].rank \in Nat
  <2> TAKE x \in 1 .. n
  <2>1. x \in 1 .. Len(parts)
    BY <1>1
  <2>2. QED
    BY <2>1, <1>1, PartFields
<1>3. f \in [1 .. n -> Nat] /\ \A y \in 1 .. n : f[y] = parts[y].rank
  BY <1>2
<1> HIDE DEF f
<1>4. PICK x \in 1 .. n :
        /\ \A y \in 1 .. n : f[x] <= f[y]
        /\ \A y \in 1 .. x - 1 : f[x] < f[y]
  <2> HIDE DEF n
  <2>1. QED
    BY <1>1, <1>3, FirstLeast
<1>5. \A y \in 1 .. x - 1 : y \in 1 .. n
  BY <1>1
<1>6. /\ \A y \in 1 .. n : parts[x].rank <= parts[y].rank
      /\ \A y \in 1 .. x - 1 : parts[x].rank < parts[y].rank
  <2> HIDE DEF n
  <2>1. QED
    BY <1>3, <1>4, <1>5
<1>7. QED
  BY <1>6 DEF MinPart

LEMMA StepCallFlat == IInv /\ CallFlat => IInv' /\ MergesOrStays
<1>1. SUFFICES ASSUME IInv, CallFlat PROVE IInv' /\ MergesOrStays
  OBVIOUS
<1> DEFINE n == Len(pieces)
           starts == Append([x \in DOMAIN pieces |-> [start |-> pieces[x].start, rank |-> MaxRank]],
                            [start |-> Len(word), rank |-> MaxRank])
<1>2. /\ pc = "call" /\ pc' = "merge" /\ merge_fn = "flat" /\ n >= 2
      /\ parts' = [x \in DOMAIN starts |-> [starts[x] EXCEPT !.rank = PartRank(starts, x)]]
      /\ UNCHANGED <<input, pieces, nodes, heap, cursor, emitted, out>>
  BY <1>1 DEF CallFlat, Calls
<1>3. merge_fn' = "flat"
  BY <1>2 DEF input
<1>4. CurrentPieces = pieces /\ CurrentPieces' = PiecesOfParts'
  BY <1>2, <1>3 DEF CurrentPieces
<1>5. Inputs /\ Inputs' /\ word' = word /\ word \in Seq(Nat) /\ Len(word) \in Nat
  BY <1>1, <1>2, NextInputs, WordIsBytes DEF IInv
<1>6. pieces \in PieceSeq /\ Tile(pieces, word) /\ n \in Nat /\ DOMAIN pieces = 1 .. n
  BY <1>1, <1>4 DEF IInv, PieceSeq
<1>7. MaxRank \in Nat
  BY BpeAssumption
<1>8. \A x \in 1 .. n : pieces[x] \in Piece /\ pieces[x].start \in Nat /\ pieces[x].len \in Nat
  BY <1>6, PieceFields DEF Piece
<1>9. /\ starts \in Seq(Part) /\ Len(starts) = n + 1 /\ DOMAIN starts = 1 .. n + 1
      /\ \A x \in 1 .. n : starts[x] = [start |-> pieces[x].start, rank |-> MaxRank]
      /\ starts[n + 1] = [start |-> Len(word), rank |-> MaxRank]
  <2> DEFINE seeds == [x \in 1 .. n |-> [start |-> pieces[x].start, rank |-> MaxRank]]
             last == [start |-> Len(word), rank |-> MaxRank]
  <2>1. /\ seeds \in Seq(Part) /\ Len(seeds) = n
        /\ \A x \in 1 .. n : seeds[x] = [start |-> pieces[x].start, rank |-> MaxRank]
    <3>1. \A x \in 1 .. n : [start |-> pieces[x].start, rank |-> MaxRank] \in Part
      BY <1>7, <1>8 DEF Part
    <3>2. QED
      BY <3>1, <1>6
  <2>2. last \in Part
    BY <1>5, <1>7 DEF Part
  <2>3. starts = Append(seeds, last)
    BY <1>6
  <2> HIDE DEF seeds, last, starts, n
  <2>4. QED
    BY <2>1, <2>2, <2>3, <1>6 DEF last
<1> HIDE DEF n, starts
<1>10. \A x \in 1 .. n + 1 : PartRank(starts, x) \in Nat
  BY <1>5, <1>7, RankIsBounded DEF PartRank
<1>11. ASSUME NEW x \in 1 .. n + 1
       PROVE  /\ parts'[x] \in Part
              /\ parts'[x].start = starts[x].start
              /\ parts'[x].rank = PartRank(starts, x)
  <2>1. parts'[x] = [starts[x] EXCEPT !.rank = PartRank(starts, x)]
    BY <1>2, <1>9
  <2>2. starts[x] \in Part
    BY <1>9
  <2>3. QED
    BY <2>1, <2>2, <1>10 DEF Part
<1>12. parts' \in Seq(Part) /\ Len(parts') = n + 1
  <2>1. parts' = [x \in 1 .. n + 1 |-> parts'[x]] /\ n + 1 \in Nat
    BY <1>2, <1>6, <1>9
  <2>2. \A x \in 1 .. n + 1 : parts'[x] \in Part
    BY <1>11
  <2>3. QED
    BY <2>1, <2>2
<1>13. /\ \A x \in 1 .. n : parts'[x].start = pieces[x].start
       /\ parts'[n + 1].start = Len(word)
  <2>1. \A x \in 1 .. n : x \in 1 .. n + 1
    BY <1>6
  <2>2. n + 1 \in 1 .. n + 1
    BY <1>6
  <2>3. ASSUME NEW x \in 1 .. n
        PROVE  starts[x].start = pieces[x].start
    <3>1. starts[x] = [start |-> pieces[x].start, rank |-> MaxRank]
      BY <1>9
    <3>2. QED
      BY <3>1
  <2>4. starts[n + 1].start = Len(word)
    BY <1>9
  <2>5. QED
    BY <2>1, <2>2, <2>3, <2>4, <1>11
<1>14. ASSUME NEW x \in 1 .. n
       PROVE  parts'[x + 1].start = End(pieces[x]) /\ parts'[x].start < parts'[x + 1].start
  <2>1. End(pieces[x]) > pieces[x].start
    <3>1. pieces[x].len > 0
      BY <1>6 DEF Tile
    <3>2. pieces[x].start \in Nat /\ pieces[x].len \in Nat
      BY <1>8
    <3>3. QED
      BY <3>1, <3>2 DEF End
  <2>2. CASE x = n
    <3>1. pieces # << >>
      BY <1>2, <1>6 DEF n
    <3>2. Len(word) = End(pieces[n])
      BY <3>1, <1>6 DEF Tile, n
    <3>3. QED
      BY <2>1, <2>2, <3>2, <1>13
  <2>3. CASE x # n
    <3>1. x + 1 \in 1 .. n /\ x + 1 # 1 /\ (x + 1) - 1 = x
      BY <2>3, <1>6
    <3>2. pieces[x + 1].start = IF x + 1 = 1 THEN 0 ELSE End(pieces[(x + 1) - 1])
      BY <3>1, <1>6 DEF Tile
    <3>3. pieces[x + 1].start = End(pieces[x])
      BY <3>1, <3>2
    <3>4. QED
      BY <2>1, <3>1, <3>3, <1>13
  <2>4. QED
    BY <2>2, <2>3
<1>15. parts'[1].start = 0
  <2>1. 1 \in 1 .. n
    BY <1>2, <1>6
  <2>2. QED
    BY <2>1, <1>6, <1>13 DEF Tile
<1>16. ASSUME NEW x \in 1 .. n + 1
       PROVE  PartRank(parts, x)' = PartRank(starts, x)
  <2>1. x + 2 <= n + 1 => x + 2 \in 1 .. n + 1
    BY <1>6
  <2>2. x + 2 <= n + 1 => parts'[x + 2].start = starts[x + 2].start
    BY <2>1, <1>11
  <2>3. \A a, b : RankOf(a, b)' = RankOf(a, b)
    BY <1>2, <1>5, NextInputs
  <2>4. QED
    BY <2>2, <2>3, <1>9, <1>11, <1>12 DEF PartRank
<1>17. Rising(parts', Len(word)) /\ Len(parts') - 1 = n
  <2>1. Len(parts') >= 2 /\ Len(parts') - 1 = n
    BY <1>2, <1>6, <1>12 DEF n
  <2>2. QED
    BY <2>1, <1>12, <1>13, <1>14, <1>15 DEF Rising
<1>18. PartsOK'
  BY <1>5, <1>11, <1>12, <1>16, <1>17 DEF PartsOK
<1>19. PiecesOf(parts') = pieces
  <2>1. /\ PiecesOf(parts') \in PieceSeq /\ Len(PiecesOf(parts')) = n
        /\ \A x \in 1 .. n : /\ PiecesOf(parts')[x].start = parts'[x].start
                             /\ End(PiecesOf(parts')[x]) = parts'[x + 1].start
    BY <1>5, <1>17, PartsArePieces
  <2>2. Len(pieces) = n
    BY DEF n
  <2>3. QED
    BY <2>1, <2>2, <1>6, <1>13, <1>14, SamePieces, SMTT(30)
<1>20. CurrentPieces' = pieces
  BY <1>4, <1>19 DEF PiecesOfParts, PiecesOf
<1>21. MergesOrStays
  BY <1>2, <1>4, <1>20 DEF MergesOrStays
<1>22. IInv'
  BY <1>1, <1>2, <1>3, <1>5, <1>6, <1>18, <1>20 DEF IInv, FlatRuns, ListRuns
<1>23. QED
  BY <1>21, <1>22
\* Without the start of part m + 1, parts m and m + 1 are one piece.
LEMMA PartsMerged ==
    ASSUME NEW w \in Seq(Nat), NEW ps, Rising(ps, Len(w)),
           NEW qs \in Seq(Part), Len(qs) = Len(ps) - 1,
           NEW m \in 1 .. Len(qs) - 1,
           \A y \in 1 .. Len(qs) : qs[y].start = IF y <= m THEN ps[y].start ELSE ps[y + 1].start
    PROVE  Rising(qs, Len(w)) /\ PiecesOf(qs) = Merged(PiecesOf(ps), m)
<1> DEFINE n == Len(qs)
<1>1. /\ ps \in Seq(Part) /\ Len(ps) = n + 1 /\ n \in Nat
      /\ ps[1].start = 0 /\ ps[n + 1].start = Len(w) /\ Len(w) \in Nat
  BY DEF Rising
<1>2. m \in 1 .. n - 1 /\ m \in 1 .. n /\ m + 1 \in 1 .. n /\ n >= 2 /\ n \in 1 .. n /\ 1 \in 1 .. n
  <2>1. \A k \in Nat : \A i \in 1 .. k - 1 : i \in 1 .. k /\ i + 1 \in 1 .. k /\ k >= 2
    OBVIOUS
  <2>2. QED
    BY <2>1, <1>1
<1>3. \A y \in 1 .. n : ps[y].start < ps[y + 1].start
  <2>1. Len(ps) - 1 = n
    BY <1>1
  <2>2. QED
    BY <2>1 DEF Rising
<1>4. \A y \in 1 .. n : ps[y].start \in Nat /\ ps[y + 1].start \in Nat
  <2> TAKE y \in 1 .. n
  <2>1. y \in 1 .. Len(ps) /\ y + 1 \in 1 .. Len(ps)
    BY <1>1
  <2>2. QED
    BY <2>1, <1>1, PartFields
<1>5. \A y \in 1 .. n : qs[y].start = IF y <= m THEN ps[y].start ELSE ps[y + 1].start
  OBVIOUS
<1> HIDE DEF n
<1>6. ASSUME NEW y \in 1 .. n - 1
      PROVE  /\ y \in 1 .. n /\ y + 1 \in 1 .. n
             /\ qs[y].start < qs[y + 1].start
             /\ qs[y].start = IF y <= m THEN ps[y].start ELSE ps[y + 1].start
             /\ qs[y + 1].start = IF y < m THEN ps[y + 1].start ELSE ps[(y + 1) + 1].start
  <2>1. y \in 1 .. n /\ y + 1 \in 1 .. n
    BY <1>1
  <2>2. qs[y].start = IF y <= m THEN ps[y].start ELSE ps[y + 1].start
    BY <2>1, <1>5
  <2>3. qs[y + 1].start = IF y + 1 <= m THEN ps[y + 1].start ELSE ps[(y + 1) + 1].start
    BY <2>1, <1>5
  <2>4. ps[y].start < ps[y + 1].start /\ ps[y + 1].start < ps[(y + 1) + 1].start
    BY <2>1, <1>3
  <2>5. ps[y].start \in Nat /\ ps[y + 1].start \in Nat /\ ps[(y + 1) + 1].start \in Nat
    BY <2>1, <1>4
  <2>6. CASE y < m
    BY <2>1, <2>2, <2>3, <2>4, <2>6, <1>2
  <2>7. CASE y = m
    BY <2>1, <2>2, <2>3, <2>4, <2>5, <2>7, <1>2, SMTT(30)
  <2>8. CASE y > m
    BY <2>1, <2>2, <2>3, <2>4, <2>8, <1>2
  <2>9. QED
    BY <2>6, <2>7, <2>8, <1>2
<1>7. qs[1].start = 0 /\ qs[n].start = Len(w)
  <2>1. qs[1].start = ps[1].start
    BY <1>2, <1>5
  <2>2. ~(n <= m)
    BY <1>1, <1>2
  <2>3. qs[n].start = ps[n + 1].start
    BY <2>2, <1>2, <1>5
  <2>4. QED
    BY <2>1, <2>3, <1>1
<1>8. Rising(qs, Len(w))
  BY <1>2, <1>6, <1>7 DEF Rising, n
<1> DEFINE P == PiecesOf(ps)
           Q == PiecesOf(qs)
           M == Merged(P, m)
<1>9. /\ P \in PieceSeq /\ Len(P) = n
      /\ \A x \in 1 .. n : /\ P[x].start = ps[x].start
                           /\ End(P[x]) = ps[x + 1].start
      /\ Tile(P, w)
  <2>1. Len(ps) - 1 = n
    BY <1>1
  <2>2. QED
    BY <2>1, PartsArePieces
<1>10. /\ Q \in PieceSeq /\ Len(Q) = n - 1
       /\ \A x \in 1 .. n - 1 : /\ Q[x].start = qs[x].start
                                /\ End(Q[x]) = qs[x + 1].start
  BY <1>8, PartsArePieces, ZenonT(40) DEF n
<1>11. M \in PieceSeq /\ Len(M) = n - 1
  <2>1. m \in 1 .. Len(P) - 1
    BY <1>2, <1>9
  <2>2. M \in PieceSeq
    <3> HIDE DEF P
    <3>1. QED
      BY <2>1, <1>9, MergedTiles
  <2>3. Len(M) = Len(P) - 1
    <3>1. Len(P) - 1 \in Nat
      BY <1>1, <1>2, <1>9, SMTT(30)
    <3> HIDE DEF P
    <3>2. QED
      BY <3>1 DEF Merged
  <2>4. QED
    BY <2>2, <2>3, <1>9
<1> HIDE DEF P, Q
<1>12. ASSUME NEW x \in 1 .. n - 1
       PROVE  Q[x].start = M[x].start /\ End(Q[x]) = End(M[x])
  <2>1. x \in 1 .. n /\ x + 1 \in 1 .. n
    BY <1>6
  <2>2. M[x] = IF x < m THEN P[x]
               ELSE IF x > m THEN P[x + 1]
               ELSE [P[m] EXCEPT !.len = @ + P[m + 1].len]
    BY <1>9 DEF Merged
  <2>3. /\ P[x] \in Piece /\ P[x + 1] \in Piece
        /\ P[x].start = ps[x].start /\ P[x + 1].start = ps[x + 1].start
        /\ End(P[x]) = ps[x + 1].start /\ End(P[x + 1]) = ps[(x + 1) + 1].start
    BY <2>1, <1>9, PieceFields
  <2>4. /\ Q[x].start = IF x <= m THEN ps[x].start ELSE ps[x + 1].start
        /\ End(Q[x]) = IF x < m THEN ps[x + 1].start ELSE ps[(x + 1) + 1].start
    BY <1>6, <1>10
  <2> HIDE DEF M
  <2>5. CASE x < m
    BY <2>2, <2>3, <2>4, <2>5, <1>2
  <2>6. CASE x = m
    <3>1. M[x] = [P[x] EXCEPT !.len = @ + P[x + 1].len]
      BY <2>2, <2>6
    <3>2. P[x].len \in Nat /\ P[x + 1].len \in Nat /\ P[x].start \in Nat
      BY <2>3 DEF Piece
    <3>3. M[x] = [P[x] EXCEPT !.len = P[x].len + P[x + 1].len]
      BY <2>3, <3>1 DEF Piece
    <3>4. M[x].start = P[x].start /\ M[x].len = P[x].len + P[x + 1].len
      BY <2>3, <3>2, <3>3, WithLen
    <3>5. P[x].start + P[x].len = P[x + 1].start
      BY <2>3 DEF End
    <3>6. End(M[x]) = End(P[x + 1])
      BY <3>2, <3>4, <3>5, SMTT(30) DEF End
    <3>7. QED
      BY <2>3, <2>4, <2>6, <3>4, <3>6
  <2>7. CASE x > m
    BY <2>2, <2>3, <2>4, <2>7, <1>2
  <2>8. QED
    BY <2>5, <2>6, <2>7, <1>2
<1>13. Q = M
  <2> HIDE DEF M
  <2>1. QED
    BY <1>10, <1>11, <1>12, SamePieces
<1>14. QED
  BY <1>8, <1>13 DEF P, Q
\* The part of lowest rank begins a pair, if its rank is that of a merge, and
\* that pair is the one to be merged next.
LEMMA MinPartIsNext ==
    ASSUME Inputs, PartsOK, parts[MinPart].rank # MaxRank
    PROVE  MinPart \in 1 .. Len(parts) - 2 /\ NextPair(PiecesOfParts, MinPart)
<1> DEFINE m == MinPart
           ps == PiecesOfParts
<1>1. /\ m \in 1 .. Len(parts) - 1
      /\ \A y \in 1 .. Len(parts) - 1 : parts[m].rank <= parts[y].rank
      /\ \A y \in 1 .. m - 1 : parts[m].rank < parts[y].rank
  BY MinPartIs
<1>2. parts[m].rank # MaxRank
  OBVIOUS
<1>3. parts \in Seq(Part) /\ Len(parts) \in Nat /\ Len(parts) >= 2 /\ MaxRank \in Nat
  BY BpeAssumption DEF PartsOK, Rising
<1>4. Len(ps) = Len(parts) - 1
  BY <1>3 DEF PiecesOfParts
<1> HIDE DEF m, ps
<1>5. \A x \in 1 .. Len(parts) :
        /\ parts[x].rank = IF x + 2 <= Len(parts) THEN PairOf(ps, x) ELSE MaxRank
        /\ parts[x].rank \in 0 .. MaxRank
  BY <1>3, PartRankIs, RankIsBounded DEF ps, PairOf
<1>6. m \in 1 .. Len(parts) /\ m + 2 <= Len(parts)
  BY <1>1, <1>2, <1>3, <1>5
<1>7. \A x \in 1 .. Len(ps) - 1 :
        x \in 1 .. Len(parts) /\ x \in 1 .. Len(parts) - 1 /\ x + 2 <= Len(parts)
  BY <1>3, <1>4
<1>8. m \in 1 .. Len(ps) - 1 /\ m \in 1 .. Len(parts) - 2
  BY <1>3, <1>4, <1>6
<1>9. \A x \in 1 .. Len(ps) - 1 : parts[x].rank = PairOf(ps, x) /\ parts[x].rank \in 0 .. MaxRank
  BY <1>5, <1>7
<1>10. PairOf(ps, m) < MaxRank
  BY <1>2, <1>3, <1>8, <1>9
<1>11. ASSUME NEW x \in 1 .. Len(ps) - 1
       PROVE  PairOf(ps, m) < PairOf(ps, x) \/ (PairOf(ps, m) = PairOf(ps, x) /\ m <= x)
  <2>1. parts[m].rank <= parts[x].rank /\ parts[m].rank \in Nat /\ parts[x].rank \in Nat
    BY <1>1, <1>3, <1>7, <1>8, <1>9, SMTT(30)
  <2>2. PairOf(ps, m) = parts[m].rank /\ PairOf(ps, x) = parts[x].rank
    BY <1>8, <1>9
  <2>3. CASE x < m
    <3>1. x \in 1 .. m - 1
      BY <2>3, <1>6
    <3>2. QED
      BY <2>2, <3>1, <1>1
  <2>4. CASE ~(x < m)
    BY <2>1, <2>2, <2>4, <1>6
  <2>5. QED
    BY <2>3, <2>4
<1>12. NextPair(ps, m)
  BY <1>8, <1>10, <1>11 DEF NextPair
<1>13. QED
  BY <1>8, <1>12 DEF m, ps

LEMMA StepFlatMerge == IInv /\ FlatMerge => IInv' /\ MergesOrStays
<1>1. SUFFICES ASSUME IInv, FlatMerge PROVE IInv' /\ MergesOrStays
  OBVIOUS
<1> DEFINE m == MinPart
           qs == RemoveAt(parts, m + 1)
           n  == Len(parts) - 1
<1>2. /\ pc = "merge" /\ merge_fn = "flat" /\ parts[m].rank # MaxRank
      /\ parts' = Reranked(qs, m)
      /\ UNCHANGED <<input, pc, pieces, nodes, heap, cursor, emitted, out>>
  BY <1>1 DEF FlatMerge, FlatIterates
<1>3. pc' = "merge" /\ merge_fn' = "flat"
  BY <1>2 DEF input
<1>4. CurrentPieces = PiecesOfParts /\ CurrentPieces' = PiecesOfParts'
  BY <1>2, <1>3 DEF CurrentPieces
<1>5. Inputs /\ Inputs' /\ word' = word /\ word \in Seq(Nat) /\ PartsOK
  BY <1>1, <1>2, NextInputs, WordIsBytes DEF IInv, FlatRuns
<1>6. m \in 1 .. Len(parts) - 2 /\ NextPair(PiecesOfParts, m)
  BY <1>2, <1>5, MinPartIsNext
<1>7. /\ Rising(parts, Len(word)) /\ parts \in Seq(Part) /\ n \in Nat /\ Len(parts) = n + 1
      /\ \A x \in 1 .. Len(parts) : parts[x].rank = PartRank(parts, x)
  BY <1>5 DEF PartsOK, Rising
<1> HIDE DEF m, n
<1>8. m \in 1 .. n - 1 /\ m \in 1 .. n /\ m + 1 \in 1 .. Len(parts)
  BY <1>6, <1>7
<1>9. /\ qs \in Seq(Part) /\ Len(qs) = n /\ DOMAIN qs = 1 .. n
      /\ \A x \in 1 .. n : qs[x] = IF x < m + 1 THEN parts[x] ELSE parts[x + 1]
  <2>1. Len(parts) - 1 = n
    BY <1>7
  <2>2. /\ qs \in Seq(Part) /\ Len(qs) = Len(parts) - 1
        /\ \A x \in 1 .. Len(parts) - 1 : qs[x] = IF x < m + 1 THEN parts[x] ELSE parts[x + 1]
    BY <1>7, <1>8, RemoveAtIs
  <2> HIDE DEF qs
  <2>3. QED
    BY <2>1, <2>2
<1> HIDE DEF qs
<1>10. \A ps, x : PartRank(ps, x) \in Nat
  BY <1>5, BpeAssumption, RankIsBounded DEF PartRank
<1>11. ASSUME NEW x \in 1 .. n
       PROVE  /\ parts'[x] \in Part /\ parts'[x].start = qs[x].start
              /\ parts'[x].rank = IF x = m \/ x = m - 1 THEN PartRank(qs, x) ELSE qs[x].rank
  <2>1. parts'[x] = IF x = m \/ x = m - 1
                    THEN [qs[x] EXCEPT !.rank = PartRank(qs, x)] ELSE qs[x]
    BY <1>2, <1>9 DEF Reranked
  <2>2. qs[x] \in Part /\ PartRank(qs, x) \in Nat
    BY <1>9, <1>10
  <2>3. QED
    BY <2>1, <2>2 DEF Part
<1>12. parts' \in Seq(Part) /\ Len(parts') = n
  <2>1. parts' = [x \in 1 .. n |-> parts'[x]]
    BY <1>2, <1>9 DEF Reranked
  <2>2. QED
    BY <2>1, <1>7, <1>11
<1>13. \A x \in 1 .. n : parts'[x].start = IF x <= m THEN parts[x].start ELSE parts[x + 1].start
  BY <1>8, <1>9, <1>11
<1>14. Rising(parts', Len(word)) /\ PiecesOf(parts') = Merged(PiecesOf(parts), m)
  <2>1. Len(parts') = Len(parts) - 1 /\ m \in 1 .. Len(parts') - 1
    BY <1>7, <1>8, <1>12
  <2>2. QED
    BY <2>1, <1>5, <1>7, <1>12, <1>13, PartsMerged
<1>15. CurrentPieces = PiecesOf(parts) /\ CurrentPieces' = Merged(CurrentPieces, m)
  BY <1>4, <1>14 DEF PiecesOfParts, PiecesOf
<1>16. MergesOrStays
  BY <1>2, <1>4, <1>6, <1>15 DEF MergesOrStays
<1>17. CurrentPieces' \in PieceSeq /\ Tile(CurrentPieces', word)
  BY <1>5, <1>14, <1>15, PartsArePieces
<1>18. ASSUME NEW x \in 1 .. n
       PROVE  parts'[x].rank = PartRank(qs, x)
  <2>1. CASE x = m \/ x = m - 1
    BY <2>1, <1>11
  <2>2. CASE x < m - 1
    <3>1. x \in 1 .. Len(parts) /\ x + 2 \in 1 .. n /\ x + 2 < m + 1 /\ x < m + 1
          /\ ~(x = m \/ x = m - 1) /\ x + 2 <= Len(parts) /\ x + 2 <= Len(qs)
      BY <2>2, <1>7, <1>8, <1>9
    <3>2. qs[x] = parts[x] /\ qs[x + 2] = parts[x + 2]
      BY <3>1, <1>9
    <3>3. PartRank(qs, x) = PartRank(parts, x)
      BY <3>1, <3>2 DEF PartRank
    <3>4. QED
      BY <3>1, <3>2, <3>3, <1>7, <1>11
  <2>3. CASE x > m
    <3>1. x + 1 \in 1 .. Len(parts) /\ ~(x < m + 1) /\ ~(x = m \/ x = m - 1)
      BY <2>3, <1>7, <1>8
    <3>2. qs[x] = parts[x + 1]
      BY <3>1, <1>9
    <3>3. PartRank(qs, x) = PartRank(parts, x + 1)
      <4>1. x + 2 <= Len(qs) <=> (x + 1) + 2 <= Len(parts)
        BY <1>7, <1>9
      <4>2. ASSUME x + 2 <= Len(qs)
            PROVE  qs[x + 2] = parts[(x + 1) + 2]
        <5>1. x + 2 \in 1 .. n /\ ~(x + 2 < m + 1)
          BY <4>2, <2>3, <1>7, <1>8, <1>9
        <5>2. qs[x + 2] = parts[(x + 2) + 1] /\ (x + 2) + 1 = (x + 1) + 2
          BY <5>1, <1>9
        <5>3. QED
          BY <5>2
      <4>3. QED
        BY <3>2, <4>1, <4>2 DEF PartRank
    <3>4. QED
      BY <3>1, <3>2, <3>3, <1>7, <1>11
  <2>4. QED
    BY <2>1, <2>2, <2>3, <1>8
<1>19. ASSUME NEW x \in 1 .. n
       PROVE  PartRank(parts, x)' = PartRank(qs, x)
  <2>1. x + 2 <= n => x + 2 \in 1 .. n
    BY <1>7
  <2>2. x + 2 <= n => parts'[x + 2].start = qs[x + 2].start
    BY <2>1, <1>11
  <2>3. \A a, b : RankOf(a, b)' = RankOf(a, b)
    BY <1>2, <1>5, NextInputs
  <2>4. QED
    BY <2>2, <2>3, <1>9, <1>11, <1>12 DEF PartRank
<1>20. PartsOK'
  BY <1>5, <1>12, <1>14, <1>18, <1>19 DEF PartsOK
<1>21. IInv'
  BY <1>1, <1>2, <1>3, <1>5, <1>17, <1>20 DEF IInv, FlatRuns, ListRuns
<1>22. QED
  BY <1>16, <1>21

LEMMA StepFlatDone == IInv /\ FlatDone => IInv' /\ MergesOrStays
<1>1. SUFFICES ASSUME IInv, FlatDone PROVE IInv' /\ MergesOrStays
  OBVIOUS
<1>2. /\ pc = "merge" /\ pc' = "emit" /\ merge_fn = "flat"
      /\ Len(parts) <= 2 \/ parts[MinPart].rank = MaxRank
      /\ pieces' = PiecesOfParts /\ parts' = << >>
      /\ UNCHANGED <<input, nodes, heap, cursor, emitted, out>>
  BY <1>1 DEF FlatDone
<1>3. CurrentPieces = PiecesOfParts /\ CurrentPieces' = PiecesOfParts
  BY <1>2 DEF CurrentPieces
<1>4. Inputs /\ Inputs' /\ word' = word /\ PartsOK
  BY <1>1, <1>2, NextInputs DEF IInv, FlatRuns
<1>5. MergesOrStays
  BY <1>2, <1>3 DEF MergesOrStays
<1>6. Len(PiecesOfParts) = Len(parts) - 1 /\ Len(parts) \in Nat /\ Len(parts) >= 2
  BY <1>4 DEF PartsOK, Rising, PiecesOfParts
<1>7. ASSUME NEW x \in 1 .. Len(PiecesOfParts) - 1
      PROVE  PairOf(PiecesOfParts, x) = MaxRank
  <2>1. x \in 1 .. Len(parts) /\ x \in 1 .. Len(parts) - 1 /\ x + 2 <= Len(parts) /\ ~(Len(parts) <= 2)
    BY <1>6
  <2>2. parts[x].rank = PairOf(PiecesOfParts, x)
    BY <2>1, <1>4, PartRankIs
  <2>3. parts[x].rank \in 0 .. MaxRank
    BY <2>2, <1>4, RankIsBounded DEF PairOf
  <2>4. parts[MinPart].rank <= parts[x].rank /\ parts[MinPart].rank = MaxRank
    BY <2>1, <1>2, <1>4, MinPartIs
  <2>5. QED
    BY <2>2, <2>3, <2>4, BpeAssumption
<1>8. NothingToMerge(CurrentPieces)'
  BY <1>2, <1>3, <1>4, <1>7, NextInputs DEF NothingToMerge
<1>9. pieces' \in PieceSeq /\ CurrentPieces' \in PieceSeq /\ Tile(CurrentPieces', word')
  BY <1>1, <1>2, <1>3, <1>4 DEF IInv
<1>10. TokensOK'
  BY <1>1, <1>2, <1>9, TokensBegin DEF IInv
<1>11. IInv'
  BY <1>1, <1>2, <1>4, <1>8, <1>9, <1>10 DEF IInv, FlatRuns, ListRuns
<1>12. QED
  BY <1>5, <1>11
-----------------------------------------------------------------------------
(* Ascending enumerations *)

LEMMA EnumerationFields ==
    ASSUME NEW S, S \subseteq Int, NEW p, Enumerates(p, S)
    PROVE  /\ p \in Seq(S) /\ Len(p) \in Nat
           /\ \A i \in 1 .. Len(p) : p[i] \in S /\ p[i] \in Int
<1>1. p \in Seq(S) /\ Len(p) \in Nat
  BY DEF Enumerates
<1>2. \A i \in 1 .. Len(p) : p[i] \in S
  BY <1>1
<1>3. QED
  BY <1>1, <1>2

\* Up to where they first differ, neither of two enumerations is ahead.
LEMMA NeverAhead ==
    ASSUME NEW S, S \subseteq Int, NEW p, NEW q, Enumerates(p, S), Enumerates(q, S),
           NEW x \in 1 .. Len(p), x \in 1 .. Len(q),
           \A y \in 1 .. x - 1 : p[y] = q[y]
    PROVE  ~(p[x] < q[x])
<1>1. SUFFICES ASSUME p[x] < q[x] PROVE FALSE
  OBVIOUS
<1>2. /\ p \in Seq(S) /\ q \in Seq(S) /\ Len(p) \in Nat /\ Len(q) \in Nat
      /\ \A i \in 1 .. Len(p) : p[i] \in S /\ p[i] \in Int
      /\ \A i \in 1 .. Len(q) : q[i] \in S /\ q[i] \in Int
  BY EnumerationFields
<1>3. PICK y \in 1 .. Len(q) : q[y] = p[x]
  BY <1>2 DEF Enumerates
<1>4. CASE y < x
  <2>1. y \in 1 .. x - 1 /\ y \in 1 .. Len(p)
    BY <1>2, <1>4
  <2>2. p[y] = p[x]
    BY <2>1, <1>3
  <2>3. p[y] < p[x]
    BY <2>1, <1>4 DEF Enumerates
  <2>4. QED
    BY <2>1, <2>2, <2>3, <1>2
<1>5. CASE y = x
  BY <1>1, <1>2, <1>3, <1>5
<1>6. CASE y > x
  <2>1. q[x] < q[y]
    BY <1>6 DEF Enumerates
  <2>2. QED
    BY <2>1, <1>1, <1>2, <1>3
<1>7. QED
  BY <1>4, <1>5, <1>6

LEMMA EnumerationIsUnique ==
    ASSUME NEW S, S \subseteq Int, NEW p, NEW q, Enumerates(p, S), Enumerates(q, S),
           Len(p) = Len(q)
    PROVE  p = q
<1>1. /\ p \in Seq(S) /\ q \in Seq(S) /\ Len(p) \in Nat
      /\ \A i \in 1 .. Len(p) : p[i] \in Int /\ q[i] \in Int
  BY EnumerationFields
<1> DEFINE T == { x \in 1 .. Len(p) : p[x] # q[x] }
<1>2. T = {}
  <2>1. SUFFICES ASSUME T # {} PROVE FALSE
    OBVIOUS
  <2>2. T \subseteq Nat
    OBVIOUS
  <2>3. PICK x \in T : \A y \in T : x <= y
    BY <2>1, <2>2, LeastNatural
  <2>4. x \in 1 .. Len(p) /\ p[x] # q[x]
    BY <2>3
  <2>5. ASSUME NEW y \in 1 .. x - 1
        PROVE  p[y] = q[y]
    <3>1. y \in 1 .. Len(p) /\ ~(x <= y)
      BY <2>4, <1>1
    <3>2. QED
      BY <3>1, <2>3
  <2>6. ~(p[x] < q[x])
    BY <2>4, <2>5, NeverAhead
  <2>7. ~(q[x] < p[x])
    BY <2>4, <2>5, NeverAhead
  <2>8. QED
    BY <2>4, <2>6, <2>7, <1>1
<1>3. QED
  BY <1>1, <1>2

\* A set has one ascending enumeration.
LEMMA AscendingIs ==
    ASSUME NEW S, S \subseteq Int, NEW p, Enumerates(p, S)
    PROVE  Ascending(S) = p
<1> DEFINE n == Len(p)
<1>1. p \in Seq(S) /\ n \in Nat /\ p \in [1 .. n -> S] /\ DOMAIN p = 1 .. n
  BY DEF Enumerates
<1>2. \A x, y \in 1 .. n : x < y => p[x] < p[y]
  BY DEF Enumerates
<1>3. \A x \in 1 .. n : p[x] \in Int
  BY <1>1
<1> HIDE DEF n
<1>4. IsFiniteSet(S) /\ Cardinality(S) = n
  <2>1. \A x, y \in 1 .. n : p[x] = p[y] => x = y
    <3> TAKE x, y \in 1 .. n
    <3>1. p[x] \in Int /\ p[y] \in Int
      BY <1>3
    <3>2. CASE x < y
      BY <3>1, <3>2, <1>2
    <3>3. CASE y < x
      BY <3>1, <3>3, <1>2
    <3>4. QED
      BY <3>2, <3>3
  <2>2. \A s \in S : \E x \in 1 .. n : p[x] = s
    BY DEF Enumerates, n
  <2>3. p \in Bijection(1 .. n, S)
    BY <2>1, <2>2, <1>1 DEF Bijection, Injection, Surjection, IsInjective
  <2>4. ExistsBijection(1 .. n, S)
    BY <2>3 DEF ExistsBijection
  <2>5. IsFiniteSet(1 .. n) /\ Cardinality(1 .. n) = n
    BY <1>1, FS_Interval
  <2>6. QED
    BY <2>4, <2>5, FS_Bijection
<1> DEFINE Fits(q) == q \in [1 .. n -> S] /\ \A x, y \in DOMAIN q : x < y => q[x] < q[y]
<1>5. Ascending(S) = CHOOSE q : Fits(q)
  BY <1>4 DEF Ascending
<1>6. Fits(p)
  BY <1>1, <1>2
<1>7. ASSUME NEW q, Fits(q)
      PROVE  q = p
  <2>1. /\ q \in [1 .. n -> S] /\ DOMAIN q = 1 .. n
        /\ \A x, y \in 1 .. n : x < y => q[x] < q[y]
    BY <1>7
  <2>2. \A x, y \in 1 .. n : q[x] = q[y] => x = y
    <3> TAKE x, y \in 1 .. n
    <3>1. q[x] \in Int /\ q[y] \in Int
      BY <2>1
    <3>2. CASE x < y
      BY <3>1, <3>2, <2>1
    <3>3. CASE y < x
      BY <3>1, <3>3, <2>1
    <3>4. QED
      BY <3>2, <3>3
  <2>3. q \in Injection(1 .. n, S)
    BY <2>1, <2>2 DEF Injection, IsInjective
  <2>4. Cardinality(1 .. n) = n
    BY <1>1, FS_Interval
  <2>5. q \in Surjection(1 .. n, S)
    BY <2>3, <2>4, <1>4, FS_Injection
  <2>6. \A s \in S : \E x \in 1 .. n : q[x] = s
    BY <2>5 DEF Surjection
  <2>7. q \in Seq(S) /\ Len(q) = n
    BY <2>1, <1>1
  <2>8. Enumerates(q, S)
    BY <2>1, <2>6, <2>7 DEF Enumerates
  <2>9. QED
    BY <2>7, <2>8, EnumerationIsUnique DEF n
<1>8. QED
  <2> HIDE DEF Fits
  <2>1. QED
    BY <1>5, <1>6, <1>7
-----------------------------------------------------------------------------
(* merge_loop_nlogn: the list *)

\* A list determines the path it leads along.
LEMMA ListFields ==
    ASSUME NEW ns, NEW path, NEW length, ListOf(ns, path, length)
    PROVE  /\ DOMAIN ns \subseteq Nat /\ None \notin DOMAIN ns
           /\ \A s \in DOMAIN ns : ns[s] \in Node
           /\ LiveOf(ns) \subseteq DOMAIN ns /\ LiveOf(ns) \subseteq Int
           /\ path \in Seq(LiveOf(ns)) /\ Len(path) \in Nat \ {0} /\ DOMAIN path = 1 .. Len(path)
           /\ \A x \in 1 .. Len(path) :
                path[x] \in DOMAIN ns /\ path[x] \in Nat /\ ns[path[x]].alive
           /\ Ascending(LiveOf(ns)) = path
<1>1. PICK n \in Nat : ns \in [0 .. n - 1 -> Node]
  BY DEF ListOf
<1>2. /\ DOMAIN ns = 0 .. n - 1 /\ DOMAIN ns \subseteq Nat /\ None \notin DOMAIN ns
      /\ \A s \in DOMAIN ns : ns[s] \in Node
  BY <1>1 DEF None
<1>3. LiveOf(ns) \subseteq DOMAIN ns /\ LiveOf(ns) \subseteq Int
  BY <1>2 DEF LiveOf
<1>4. Enumerates(path, LiveOf(ns)) /\ Len(path) >= 1
  BY DEF ListOf
<1>5. /\ path \in Seq(LiveOf(ns)) /\ Len(path) \in Nat \ {0} /\ DOMAIN path = 1 .. Len(path)
      /\ \A x \in 1 .. Len(path) : path[x] \in LiveOf(ns)
  <2>1. path \in Seq(LiveOf(ns)) /\ \A x \in 1 .. Len(path) : path[x] \in LiveOf(ns)
    BY <1>3, <1>4, EnumerationFields
  <2>2. QED
    BY <1>4, <2>1
<1>6. \A x \in 1 .. Len(path) :
        path[x] \in DOMAIN ns /\ path[x] \in Nat /\ ns[path[x]].alive
  BY <1>2, <1>5 DEF LiveOf
<1>7. Ascending(LiveOf(ns)) = path
  BY <1>3, <1>4, AscendingIs
<1>8. QED
  BY <1>2, <1>3, <1>5, <1>6, <1>7

\* What splicing slot r out behind slot l changes.
LEMMA SplicedFields ==
    ASSUME nodes \in [DOMAIN nodes -> Node], DOMAIN nodes \subseteq Nat,
           NEW l \in DOMAIN nodes, NEW r \in DOMAIN nodes, l # r,
           nodes[r].next # l, nodes[r].next # r
    PROVE  /\ DOMAIN Spliced(l, r) = DOMAIN nodes
           /\ \A s \in DOMAIN nodes :
                /\ Spliced(l, r)[s] \in Node
                /\ Spliced(l, r)[s].start = nodes[s].start
                /\ Spliced(l, r)[s].len = IF s = l THEN nodes[l].len + nodes[r].len
                                          ELSE nodes[s].len
                /\ Spliced(l, r)[s].prev = IF s = nodes[r].next THEN l ELSE nodes[s].prev
                /\ Spliced(l, r)[s].next = IF s = l THEN nodes[r].next ELSE nodes[s].next
                /\ Spliced(l, r)[s].alive <=> s # r /\ nodes[s].alive
<1>1. DOMAIN Spliced(l, r) = DOMAIN nodes
  BY DEF Spliced
<1>2. ASSUME NEW s \in DOMAIN nodes
      PROVE  /\ Spliced(l, r)[s] \in Node
             /\ Spliced(l, r)[s].start = nodes[s].start
             /\ Spliced(l, r)[s].len = IF s = l THEN nodes[l].len + nodes[r].len
                                       ELSE nodes[s].len
             /\ Spliced(l, r)[s].prev = IF s = nodes[r].next THEN l ELSE nodes[s].prev
             /\ Spliced(l, r)[s].next = IF s = l THEN nodes[r].next ELSE nodes[s].next
             /\ Spliced(l, r)[s].alive <=> s # r /\ nodes[s].alive
  <2>1. nodes[s] \in Node /\ nodes[l] \in Node /\ nodes[r] \in Node
    OBVIOUS
  <2>2. CASE s = l
    <3>1. Spliced(l, r)[s] = [nodes[l] EXCEPT !.len = @ + nodes[r].len, !.next = nodes[r].next]
      BY <2>2 DEF Spliced
    <3>2. /\ nodes[l].len + nodes[r].len \in Nat /\ nodes[r].next \in Int
          /\ nodes[s] = nodes[l] /\ s # nodes[r].next /\ s # r
      BY <2>1, <2>2 DEF Node
    <3>3. Spliced(l, r)[s] = [nodes[l] EXCEPT !.len = nodes[l].len + nodes[r].len,
                                              !.next = nodes[r].next]
      BY <2>1, <3>1 DEF Node
    <3>4. QED
      BY <2>1, <2>2, <3>2, <3>3 DEF Node
  <2>3. CASE s = r
    <3>1. Spliced(l, r)[s] = [nodes[r] EXCEPT !.alive = FALSE]
      BY <2>3 DEF Spliced
    <3>2. QED
      BY <2>1, <2>3, <3>1 DEF Node
  <2>4. CASE s # l /\ s # r /\ s = nodes[r].next
    <3>1. Spliced(l, r)[s] = [nodes[s] EXCEPT !.prev = l]
      BY <2>4 DEF Spliced
    <3>2. QED
      BY <2>1, <2>4, <3>1 DEF Node
  <2>5. CASE s # l /\ s # r /\ s # nodes[r].next
    <3>1. Spliced(l, r)[s] = nodes[s]
      BY <2>5 DEF Spliced
    <3>2. QED
      BY <2>1, <2>5, <3>1 DEF Node
  <2>6. QED
    BY <2>2, <2>3, <2>4, <2>5
<1>3. QED
  BY <1>1, <1>2
\* Where merged pieces begin and end.
LEMMA MergedFields ==
    ASSUME NEW ps \in PieceSeq, NEW w, Tile(ps, w), NEW n \in 1 .. Len(ps) - 1
    PROVE  /\ Len(Merged(ps, n)) = Len(ps) - 1
           /\ \A x \in 1 .. Len(ps) - 1 :
                /\ Merged(ps, n)[x].start = IF x <= n THEN ps[x].start ELSE ps[x + 1].start
                /\ End(Merged(ps, n)[x]) = IF x < n THEN End(ps[x]) ELSE End(ps[x + 1])
<1> DEFINE M == Merged(ps, n)
<1>1. Len(ps) \in Nat /\ Len(ps) - 1 \in Nat /\ DOMAIN ps = 1 .. Len(ps)
  <2>1. Len(ps) \in Nat /\ DOMAIN ps = 1 .. Len(ps)
    BY DEF PieceSeq
  <2>2. \A m \in Int : \A k \in 1 .. m : m \in Nat
    OBVIOUS
  <2>3. Len(ps) - 1 \in Int /\ n \in 1 .. Len(ps) - 1
    BY <2>1
  <2>4. QED
    BY <2>1, <2>2, <2>3
<1>2. M = [x \in 1 .. Len(ps) - 1 |->
             IF x < n THEN ps[x]
             ELSE IF x > n THEN ps[x + 1]
             ELSE [ps[n] EXCEPT !.len = @ + ps[n + 1].len]]
  BY DEF Merged
<1> HIDE DEF M
<1>3. Len(M) = Len(ps) - 1
  BY <1>1, <1>2
<1>4. ASSUME NEW x \in 1 .. Len(ps) - 1
      PROVE  /\ M[x].start = IF x <= n THEN ps[x].start ELSE ps[x + 1].start
             /\ End(M[x]) = IF x < n THEN End(ps[x]) ELSE End(ps[x + 1])
  <2>1. x \in 1 .. Len(ps) /\ x + 1 \in 1 .. Len(ps) /\ x + 1 # 1 /\ (x + 1) - 1 = x
    BY <1>1
  <2>2. ps[x] \in Piece /\ ps[x + 1] \in Piece
    BY <2>1, PieceFields
  <2>3. ps[x + 1].start = End(ps[x])
    <3>1. ps[x + 1].start = IF x + 1 = 1 THEN 0 ELSE End(ps[(x + 1) - 1])
      BY <2>1, <1>1 DEF Tile
    <3>2. QED
      BY <2>1, <3>1
  <2>4. M[x] = IF x < n THEN ps[x]
               ELSE IF x > n THEN ps[x + 1]
               ELSE [ps[n] EXCEPT !.len = @ + ps[n + 1].len]
    BY <1>2
  <2>5. CASE x < n
    BY <2>4, <2>5
  <2>6. CASE x = n
    <3>1. M[x] = [ps[x] EXCEPT !.len = ps[x].len + ps[x + 1].len]
      BY <2>2, <2>4, <2>6 DEF Piece
    <3>2. ps[x].len \in Nat /\ ps[x + 1].len \in Nat /\ ps[x].start \in Nat
      BY <2>2 DEF Piece
    <3>3. M[x].start = ps[x].start /\ M[x].len = ps[x].len + ps[x + 1].len
      BY <2>2, <3>1, <3>2, WithLen
    <3>4. End(M[x]) = End(ps[x + 1])
      BY <2>3, <3>2, <3>3 DEF End
    <3>5. QED
      BY <2>6, <3>3, <3>4
  <2>7. CASE x > n
    BY <2>4, <2>7
  <2>8. QED
    BY <2>5, <2>6, <2>7
<1>5. QED
  BY <1>3, <1>4 DEF M

\* The pieces in the slots of a list's path.
LEMMA AlongFields ==
    ASSUME NEW ns, NEW path, NEW length, ListOf(ns, path, length)
    PROVE  /\ PiecesAlong(ns, path) \in PieceSeq /\ Len(PiecesAlong(ns, path)) = Len(path)
           /\ \A x \in 1 .. Len(path) :
                /\ PiecesAlong(ns, path)[x].start = ns[path[x]].start
                /\ PiecesAlong(ns, path)[x].len = ns[path[x]].len
                /\ End(PiecesAlong(ns, path)[x]) = End(ns[path[x]])
<1> DEFINE n == Len(path)
           ps == PiecesAlong(ns, path)
<1>1. /\ n \in Nat \ {0} /\ DOMAIN path = 1 .. n
      /\ \A x \in 1 .. n : ns[path[x]] \in Node
  BY ListFields
<1>2. ps = [x \in 1 .. n |-> [start |-> ns[path[x]].start, len |-> ns[path[x]].len]]
  BY <1>1 DEF PiecesAlong
<1> HIDE DEF n, ps
<1>3. ASSUME NEW x \in 1 .. n
      PROVE  /\ ps[x] \in Piece /\ ps[x].start = ns[path[x]].start /\ ps[x].len = ns[path[x]].len
             /\ End(ps[x]) = End(ns[path[x]])
  <2>1. ps[x] = [start |-> ns[path[x]].start, len |-> ns[path[x]].len] /\ ns[path[x]] \in Node
    BY <1>1, <1>2
  <2>2. ps[x].start = ns[path[x]].start /\ ps[x].len = ns[path[x]].len
    BY <2>1
  <2>3. QED
    BY <2>1, <2>2 DEF Node, Piece, End
<1>4. ps \in PieceSeq /\ Len(ps) = n
  BY <1>1, <1>2, <1>3 DEF PieceSeq
<1>5. QED
  BY <1>3, <1>4 DEF n, ps
\* Two places of a list's path are different slots, in the places' order.
LEMMA PathRises ==
    ASSUME NEW ns, NEW path, NEW length, ListOf(ns, path, length),
           NEW x \in 1 .. Len(path), NEW y \in 1 .. Len(path)
    PROVE  /\ path[x] = path[y] => x = y
           /\ path[x] <= path[y] => x <= y
<1>1. /\ path[x] \in Nat /\ path[y] \in Nat /\ Len(path) \in Nat
      /\ x < y => path[x] < path[y]
      /\ y < x => path[y] < path[x]
  BY ListFields DEF ListOf, Enumerates
<1>2. CASE x < y
  BY <1>1, <1>2
<1>3. CASE y < x
  BY <1>1, <1>3
<1>4. CASE x = y
  BY <1>4
<1>5. QED
  BY <1>2, <1>3, <1>4

\* Splicing out the slot at place k + 1 of the path leaves a list, of the pieces
\* with the k-th and the one behind it merged.
LEMMA SplicedList ==
    ASSUME Inputs, NEW path, ListOf(nodes, path, Len(word)),
           Tile(PiecesAlong(nodes, path), word), NEW k \in 1 .. Len(path) - 1
    PROVE  /\ DOMAIN Spliced(path[k], path[k + 1]) = DOMAIN nodes
           /\ ListOf(Spliced(path[k], path[k + 1]), RemoveAt(path, k + 1), Len(word))
           /\ PiecesAlong(Spliced(path[k], path[k + 1]), RemoveAt(path, k + 1))
                = Merged(PiecesAlong(nodes, path), k)
<1> DEFINE n  == Len(path)
           l  == path[k]
           r  == path[k + 1]
           ms == Spliced(l, r)
           q  == RemoveAt(path, k + 1)
           P  == PiecesAlong(nodes, path)
<1>1. /\ DOMAIN nodes \subseteq Nat /\ None \notin DOMAIN nodes
      /\ \A s \in DOMAIN nodes : nodes[s] \in Node
      /\ LiveOf(nodes) \subseteq DOMAIN nodes
      /\ path \in Seq(LiveOf(nodes)) /\ n \in Nat \ {0}
      /\ \A x \in 1 .. n : path[x] \in DOMAIN nodes /\ path[x] \in Nat
  BY ListFields
<1>2. /\ k \in 1 .. n /\ k + 1 \in 1 .. n /\ k \in 1 .. n - 1 /\ n - 1 \in Nat \ {0}
  <2>1. \A m \in Int : \A i \in 1 .. m - 1 :
          i \in 1 .. m /\ i + 1 \in 1 .. m /\ m - 1 \in Nat \ {0}
    OBVIOUS
  <2>2. n \in Int /\ k \in 1 .. n - 1
    BY <1>1
  <2> HIDE DEF n
  <2>3. QED
    BY <2>1, <2>2
<1>3. \A x, y \in 1 .. n : path[x] = path[y] => x = y
  BY PathRises
<1>4. /\ path[1] = 0
      /\ \A x \in 1 .. n :
           /\ nodes[path[x]].next = IF x = n THEN None ELSE path[x + 1]
           /\ nodes[path[x]].prev = IF x = 1 THEN None ELSE path[x - 1]
  BY DEF ListOf
<1>5. \A s \in DOMAIN nodes :
        /\ nodes[s].prev \in DOMAIN nodes \cup {None} /\ nodes[s].next \in DOMAIN nodes \cup {None}
        /\ End(nodes[s]) \in 1 .. Len(word)
  BY DEF ListOf
<1>6. \A x, y \in 1 .. n : x < y => path[x] < path[y]
  BY DEF ListOf, Enumerates
<1>7. \A s \in LiveOf(nodes) : \E x \in 1 .. n : path[x] = s
  BY DEF ListOf, Enumerates
<1>8. /\ P \in PieceSeq /\ Len(P) = n
      /\ \A x \in 1 .. n : /\ P[x].start = nodes[path[x]].start
                           /\ End(P[x]) = End(nodes[path[x]])
      /\ Tile(P, word)
  BY AlongFields
<1>9. /\ q \in Seq(LiveOf(nodes)) /\ Len(q) = n - 1
      /\ \A x \in 1 .. n - 1 : q[x] = IF x < k + 1 THEN path[x] ELSE path[x + 1]
  BY <1>1, <1>2, RemoveAtIs
<1> HIDE DEF n, P, q
<1>10. /\ l \in DOMAIN nodes /\ r \in DOMAIN nodes /\ l \in Nat /\ l # r
       /\ nodes[r].next = IF k + 1 = n THEN None ELSE path[(k + 1) + 1]
       /\ nodes[r].next # l /\ nodes[r].next # r
  <2>1. l \in DOMAIN nodes /\ r \in DOMAIN nodes /\ l \in Nat
    BY <1>1, <1>2
  <2>2. l # r
    BY <1>2, <1>3
  <2>3. nodes[r].next = IF k + 1 = n THEN None ELSE path[(k + 1) + 1]
    BY <1>2, <1>4
  <2>4. CASE k + 1 = n
    BY <2>1, <2>2, <2>3, <2>4, <1>1
  <2>5. CASE k + 1 # n
    <3>1. (k + 1) + 1 \in 1 .. n /\ (k + 1) + 1 # k /\ (k + 1) + 1 # k + 1
      BY <2>5, <1>1, <1>2
    <3>2. QED
      BY <2>1, <2>2, <2>3, <2>5, <3>1, <1>2, <1>3
  <2>6. QED
    BY <2>4, <2>5
<1>11. /\ DOMAIN ms = DOMAIN nodes
       /\ \A s \in DOMAIN nodes :
            /\ ms[s] \in Node
            /\ ms[s].start = nodes[s].start
            /\ ms[s].len = IF s = l THEN nodes[l].len + nodes[r].len ELSE nodes[s].len
            /\ ms[s].prev = IF s = nodes[r].next THEN l ELSE nodes[s].prev
            /\ ms[s].next = IF s = l THEN nodes[r].next ELSE nodes[s].next
            /\ ms[s].alive <=> s # r /\ nodes[s].alive
  <2>1. nodes \in [DOMAIN nodes -> Node]
    BY DEF ListOf
  <2>2. l \in DOMAIN nodes /\ r \in DOMAIN nodes /\ l # r
        /\ nodes[r].next # l /\ nodes[r].next # r
    BY <1>10
  <2>3. DOMAIN nodes \subseteq Nat
    BY <1>1
  <2> HIDE DEF l, r
  <2>4. QED
    BY <2>1, <2>2, <2>3, SplicedFields
<1>12. \E m \in Nat : ms \in [0 .. m - 1 -> Node]
  <2>1. PICK m \in Nat : nodes \in [0 .. m - 1 -> Node]
    BY DEF ListOf
  <2>2. DOMAIN ms = 0 .. m - 1 /\ ms = [s \in DOMAIN ms |-> ms[s]]
    BY <2>1, <1>11 DEF Spliced
  <2> HIDE DEF ms
  <2>3. ms \in [0 .. m - 1 -> Node]
    BY <2>2, <1>11
  <2>4. QED
    BY <2>3
<1> HIDE DEF ms
<1>13. nodes[r].start = nodes[l].start + nodes[l].len
  <2>1. P[k + 1].start = End(P[k])
    <3>1. DOMAIN P = 1 .. n /\ k + 1 # 1 /\ (k + 1) - 1 = k
      BY <1>2, <1>8 DEF PieceSeq
    <3>2. P[k + 1].start = IF k + 1 = 1 THEN 0 ELSE End(P[(k + 1) - 1])
      BY <3>1, <1>2, <1>8 DEF Tile
    <3>3. QED
      BY <3>1, <3>2
  <2>2. QED
    BY <2>1, <1>2, <1>8 DEF End
<1>14. ASSUME NEW s \in DOMAIN nodes
       PROVE  End(ms[s]) = IF s = l THEN End(nodes[r]) ELSE End(nodes[s])
  <2>1. /\ nodes[l].start \in Nat /\ nodes[l].len \in Nat /\ nodes[r].len \in Nat
    BY <1>1, <1>10 DEF Node
  <2>2. ms[s].start = nodes[s].start
    BY <1>11
  <2>3. CASE s = l
    <3>1. ms[s].len = nodes[l].len + nodes[r].len /\ ms[s].start = nodes[l].start
      BY <2>2, <2>3, <1>11
    <3>2. End(ms[s]) = nodes[l].start + (nodes[l].len + nodes[r].len)
      BY <3>1 DEF End
    <3>3. End(nodes[r]) = (nodes[l].start + nodes[l].len) + nodes[r].len
      BY <1>13 DEF End
    <3>4. QED
      BY <2>1, <2>3, <3>2, <3>3
  <2>4. CASE s # l
    <3>1. ms[s].len = nodes[s].len
      BY <2>4, <1>11
    <3>2. QED
      BY <2>2, <2>4, <3>1 DEF End
  <2>5. QED
    BY <2>3, <2>4
<1>15. \A s \in DOMAIN ms :
         /\ {ms[s].prev, ms[s].next} \subseteq DOMAIN ms \cup {None}
         /\ End(ms[s]) \in 1 .. Len(word)
  <2> TAKE s \in DOMAIN ms
  <2>1. s \in DOMAIN nodes
    BY <1>11
  <2>2. End(ms[s]) \in 1 .. Len(word)
    BY <2>1, <1>5, <1>10, <1>14
  <2>3. ms[s].prev \in DOMAIN nodes \cup {None}
    BY <2>1, <1>5, <1>10, <1>11
  <2>4. ms[s].next \in DOMAIN nodes \cup {None}
    BY <2>1, <1>5, <1>10, <1>11
  <2>5. QED
    BY <2>2, <2>3, <2>4, <1>11
<1>16. LiveOf(ms) = LiveOf(nodes) \ {r}
  BY <1>11 DEF LiveOf
<1>17. ASSUME NEW x \in 1 .. n - 1
       PROVE  /\ x \in 1 .. n /\ x + 1 \in 1 .. n
              /\ q[x] = IF x <= k THEN path[x] ELSE path[x + 1]
              /\ q[x] \in DOMAIN nodes
  <2>1. x \in 1 .. n /\ x + 1 \in 1 .. n /\ (x < k + 1 <=> x <= k)
    BY <1>1, <1>2
  <2>2. QED
    BY <2>1, <1>1, <1>9
<1>18. Enumerates(q, LiveOf(ms))
  <2>1. ASSUME NEW x \in 1 .. n - 1
        PROVE  q[x] \in LiveOf(ms)
    <3>1. q[x] \in LiveOf(nodes)
      BY <1>9
    <3>2. q[x] # r
      <4>1. CASE x <= k
        BY <4>1, <1>2, <1>3, <1>17
      <4>2. CASE x > k
        BY <4>2, <1>2, <1>3, <1>17
      <4>3. QED
        BY <4>1, <4>2, <1>2
    <3>3. QED
      BY <3>1, <3>2, <1>16
  <2>2. q \in Seq(LiveOf(ms))
    BY <2>1, <1>9
  <2>3. ASSUME NEW x \in 1 .. n - 1, NEW y \in 1 .. n - 1, x < y
        PROVE  q[x] < q[y]
    <3>1. CASE y <= k
      <4>1. x <= k
        BY <3>1, <2>3, <1>2
      <4>2. QED
        BY <3>1, <4>1, <2>3, <1>6, <1>17
    <3>2. CASE y > k /\ x <= k
      <4>1. x < y + 1 /\ ~(y <= k)
        BY <3>2, <2>3, <1>2
      <4>2. QED
        BY <3>2, <4>1, <1>6, <1>17
    <3>3. CASE x > k
      <4>1. x + 1 < y + 1 /\ ~(y <= k) /\ ~(x <= k)
        BY <3>3, <2>3, <1>2
      <4>2. QED
        BY <4>1, <1>6, <1>17
    <3>4. QED
      BY <3>1, <3>2, <3>3, <1>2
  <2>4. ASSUME NEW s \in LiveOf(ms)
        PROVE  \E x \in 1 .. n - 1 : q[x] = s
    <3>1. PICK x \in 1 .. n : path[x] = s
      BY <1>7, <1>16
    <3>2. x # k + 1
      BY <3>1, <1>16
    <3>3. CASE x <= k
      <4>1. x \in 1 .. n - 1
        BY <3>3, <1>2
      <4>2. q[x] = s
        BY <3>1, <3>3, <4>1, <1>17
      <4>3. QED
        BY <4>1, <4>2
    <3>4. CASE x > k
      <4>1. x - 1 \in 1 .. n - 1 /\ ~(x - 1 <= k) /\ (x - 1) + 1 = x
        BY <3>2, <3>4, <1>1, <1>2
      <4>2. q[x - 1] = s
        BY <3>1, <4>1, <1>17
      <4>3. QED
        BY <4>1, <4>2
    <3>5. QED
      BY <3>3, <3>4, <1>2
  <2>5. QED
    BY <2>2, <2>3, <2>4, <1>9 DEF Enumerates
<1>19. Len(q) >= 1 /\ q[1] = 0
  <2>1. 1 \in 1 .. n - 1 /\ 1 <= k
    BY <1>2
  <2>2. QED
    BY <2>1, <1>2, <1>4, <1>9, <1>17
<1> DEFINE At(x) == ms[path[x]]
<1>20. ASSUME NEW x \in 1 .. n
       PROVE  /\ At(x).next = IF x = k THEN (IF k + 1 = n THEN None ELSE path[k + 2])
                             ELSE IF x = n THEN None ELSE path[x + 1]
              /\ At(x).prev = IF x = k + 2 THEN l
                             ELSE IF x = 1 THEN None ELSE path[x - 1]
  <2>1. /\ path[x] \in DOMAIN nodes
        /\ nodes[path[x]].next = IF x = n THEN None ELSE path[x + 1]
        /\ nodes[path[x]].prev = IF x = 1 THEN None ELSE path[x - 1]
    BY <1>1, <1>4
  <2>2. nodes[r].next = IF k + 1 = n THEN None ELSE path[k + 2]
    BY <1>2, <1>10
  <2>3. path[x] = l <=> x = k
    BY <1>2, <1>3
  <2>4. At(x).next = IF path[x] = l THEN nodes[r].next ELSE nodes[path[x]].next
    BY <2>1, <1>11
  <2>5. path[x] = nodes[r].next <=> x = k + 2
    <3>1. CASE k + 1 = n
      <4>1. x # k + 2
        BY <3>1, <1>1, <1>2
      <4>2. path[x] # None
        BY <2>1, <1>1
      <4>3. QED
        BY <3>1, <4>1, <4>2, <2>2
    <3>2. CASE k + 1 # n
      <4>1. k + 2 \in 1 .. n
        BY <3>2, <1>1, <1>2
      <4>2. path[x] = path[k + 2] <=> x = k + 2
        BY <4>1, <1>3
      <4>3. QED
        BY <3>2, <4>2, <2>2
    <3>3. QED
      BY <3>1, <3>2
  <2>6. At(x).prev = IF path[x] = nodes[r].next THEN l ELSE nodes[path[x]].prev
    BY <2>1, <1>11
  <2>7. At(x).next = IF x = k THEN (IF k + 1 = n THEN None ELSE path[k + 2])
                     ELSE IF x = n THEN None ELSE path[x + 1]
    BY <2>1, <2>2, <2>3, <2>4
  <2>8. At(x).prev = IF x = k + 2 THEN l ELSE IF x = 1 THEN None ELSE path[x - 1]
    BY <2>1, <2>5, <2>6
  <2>9. QED
    BY <2>7, <2>8
<1>21. ASSUME NEW x \in 1 .. n - 1
       PROVE  ms[q[x]] = IF x <= k THEN At(x) ELSE At(x + 1)
  BY <1>17
<1> HIDE DEF At
<1>22. ASSUME NEW x \in 1 .. n - 1
       PROVE  ms[q[x]].next = IF x = n - 1 THEN None ELSE q[x + 1]
  <2>1. x # n - 1 => x + 1 \in 1 .. n - 1
    BY <1>2
  <2>2. CASE x < k
    <3>1. x <= k /\ x # k /\ x # n - 1 /\ x + 1 <= k /\ x # n
      BY <2>2, <1>1, <1>2
    <3>2. q[x + 1] = path[x + 1]
      BY <2>1, <3>1, <1>17
    <3>3. At(x).next = path[x + 1]
      BY <3>1, <1>17, <1>20
    <3>4. QED
      BY <3>1, <3>2, <3>3, <1>21
  <2>3. CASE x = k
    <3>1. x <= k /\ ~(x + 1 <= k) /\ (x + 1) + 1 = k + 2 /\ (x = n - 1 <=> k + 1 = n)
      BY <2>3, <1>1, <1>2
    <3>2. At(x).next = IF k + 1 = n THEN None ELSE path[k + 2]
      BY <2>3, <1>17, <1>20
    <3>3. x # n - 1 => q[x + 1] = path[k + 2]
      BY <2>1, <3>1, <1>17
    <3>4. QED
      BY <3>1, <3>2, <3>3, <1>21
  <2>4. CASE x > k
    <3>1. ~(x <= k) /\ x + 1 # k /\ ~(x + 1 <= k) /\ (x + 1 = n <=> x = n - 1)
      BY <2>4, <1>1, <1>2
    <3>2. At(x + 1).next = IF x = n - 1 THEN None ELSE path[(x + 1) + 1]
      BY <3>1, <1>17, <1>20
    <3>3. x # n - 1 => q[x + 1] = path[(x + 1) + 1]
      BY <2>1, <3>1, <1>17
    <3>4. QED
      BY <3>1, <3>2, <3>3, <1>21
  <2>5. QED
    BY <2>2, <2>3, <2>4, <1>2
<1>23. ASSUME NEW x \in 1 .. n - 1
       PROVE  ms[q[x]].prev = IF x = 1 THEN None ELSE q[x - 1]
  <2>1. x # 1 => x - 1 \in 1 .. n - 1 /\ (x - 1) + 1 = x
    BY <1>2
  <2>2. CASE x <= k
    <3>1. x # k + 2 /\ x - 1 <= k
      BY <2>2, <1>2
    <3>2. At(x).prev = IF x = 1 THEN None ELSE path[x - 1]
      BY <3>1, <1>17, <1>20
    <3>3. x # 1 => q[x - 1] = path[x - 1]
      BY <2>1, <3>1, <1>17
    <3>4. QED
      BY <2>2, <3>2, <3>3, <1>21
  <2>3. CASE x = k + 1
    <3>1. ~(x <= k) /\ x + 1 = k + 2 /\ x # 1 /\ x - 1 = k /\ k <= k
      BY <2>3, <1>2
    <3>2. At(x + 1).prev = l
      BY <3>1, <1>17, <1>20
    <3>3. q[x - 1] = l
      BY <2>1, <3>1, <1>17
    <3>4. QED
      BY <3>1, <3>2, <3>3, <1>21
  <2>4. CASE x > k + 1
    <3>1. ~(x <= k) /\ x # 1 /\ x + 1 # k + 2 /\ ~(x - 1 <= k) /\ (x + 1) - 1 = x /\ x + 1 # 1
      BY <2>4, <1>2
    <3>2. At(x + 1).prev = path[x]
      BY <3>1, <1>17, <1>20
    <3>3. q[x - 1] = path[x]
      BY <2>1, <3>1, <1>17
    <3>4. QED
      BY <3>1, <3>2, <3>3, <1>21
  <2>5. QED
    BY <2>2, <2>3, <2>4, <1>2
<1>24. ListOf(ms, q, Len(word))
  BY <1>9, <1>12, <1>15, <1>18, <1>19, <1>22, <1>23, ZenonT(40) DEF ListOf
<1> DEFINE Q == PiecesAlong(ms, q)
           M == Merged(P, k)
<1>25. /\ Q \in PieceSeq /\ Len(Q) = n - 1
       /\ \A x \in 1 .. n - 1 : Q[x].start = ms[q[x]].start /\ End(Q[x]) = End(ms[q[x]])
  BY <1>9, <1>24, AlongFields
<1>26. /\ M \in PieceSeq /\ Len(M) = n - 1
       /\ \A x \in 1 .. n - 1 :
            /\ M[x].start = IF x <= k THEN P[x].start ELSE P[x + 1].start
            /\ End(M[x]) = IF x < k THEN End(P[x]) ELSE End(P[x + 1])
  <2>1. Len(P) - 1 = n - 1 /\ k \in 1 .. Len(P) - 1 /\ word \in Seq(Nat)
    BY <1>2, <1>8, WordIsBytes
  <2>2. M \in PieceSeq
    BY <2>1, <1>8, MergedTiles
  <2>3. /\ Len(M) = Len(P) - 1
        /\ \A x \in 1 .. Len(P) - 1 :
             /\ M[x].start = IF x <= k THEN P[x].start ELSE P[x + 1].start
             /\ End(M[x]) = IF x < k THEN End(P[x]) ELSE End(P[x + 1])
    BY <2>1, <1>8, MergedFields
  <2> HIDE DEF M
  <2>4. QED
    BY <2>1, <2>2, <2>3
<1> HIDE DEF Q, M
<1>27. ASSUME NEW x \in 1 .. n - 1
       PROVE  Q[x].start = M[x].start /\ End(Q[x]) = End(M[x])
  <2>1. /\ Q[x].start = nodes[q[x]].start
        /\ End(Q[x]) = IF q[x] = l THEN End(nodes[r]) ELSE End(nodes[q[x]])
    <3>1. Q[x].start = ms[q[x]].start /\ End(Q[x]) = End(ms[q[x]]) /\ q[x] \in DOMAIN nodes
      BY <1>17, <1>25
    <3>2. QED
      BY <3>1, <1>11, <1>14
  <2>2. /\ P[x].start = nodes[path[x]].start /\ P[x + 1].start = nodes[path[x + 1]].start
        /\ End(P[x]) = End(nodes[path[x]]) /\ End(P[x + 1]) = End(nodes[path[x + 1]])
    BY <1>8, <1>17
  <2>3. CASE x < k
    <3>1. q[x] = path[x] /\ path[x] # l
      BY <2>3, <1>2, <1>3, <1>17
    <3>2. QED
      BY <2>1, <2>2, <2>3, <3>1, <1>2, <1>26
  <2>4. CASE x = k
    BY <2>1, <2>2, <2>4, <1>2, <1>17, <1>26
  <2>5. CASE x > k
    <3>1. q[x] = path[x + 1] /\ path[x + 1] # l /\ ~(x <= k) /\ ~(x < k)
      BY <2>5, <1>2, <1>3, <1>17
    <3>2. QED
      BY <2>1, <2>2, <3>1, <1>26
  <2>6. QED
    BY <2>3, <2>4, <2>5, <1>2
<1>28. Q = M
  BY <1>25, <1>26, <1>27, SamePieces
<1>29. QED
  BY <1>11, <1>24, <1>28 DEF ms, q, P, Q, M, l, r
-----------------------------------------------------------------------------
(* merge_loop_nlogn: the heap *)

\* A candidate names its pair and has the pair's rank, that of a merge.
LEMMA CandidateFields ==
    ASSUME Inputs, NEW ns, NEW l, NEW r, NEW e \in Candidate(ns, l, r)
    PROVE  /\ e.left = l /\ e.right = r
           /\ e.rank = RankOf(ns[l].start, End(ns[r])) /\ e.rank \in 0 .. MaxRank - 1
           /\ e = [rank |-> e.rank, left |-> e.left, right |-> e.right]
<1> DEFINE rank == RankOf(ns[l].start, End(ns[r]))
<1>1. rank \in 0 .. MaxRank /\ MaxRank \in Nat
  BY RankIsBounded, BpeAssumption
<1>2. e \in IF rank < MaxRank THEN {[rank |-> rank, left |-> l, right |-> r]} ELSE {}
  BY DEF Candidate
<1> HIDE DEF rank
<1>3. rank < MaxRank /\ e = [rank |-> rank, left |-> l, right |-> r]
  BY <1>2
<1>4. QED
  BY <1>1, <1>3 DEF rank

LEMMA NextHeapOK ==
    ASSUME Inputs, UNCHANGED input, NEW path, LiveSlots' = path,
           \A x \in 1 .. Len(path) - 1 : Candidate(nodes', path[x], path[x + 1]) \subseteq heap'
    PROVE  HeapOK'
<1>1. merges' = merges /\ word' = word
  BY DEF input, word
<1> HIDE DEF word
<1>2. ASSUME NEW x \in 1 .. Len(path) - 1
      PROVE  Candidate(nodes, LiveSlots[x], LiveSlots[x + 1])' \subseteq heap'
  <2>1. Candidate(nodes, LiveSlots[x], LiveSlots[x + 1])' = Candidate(nodes', path[x], path[x + 1])
    BY <1>1 DEF Candidate, RankOf
  <2>2. QED
    BY <2>1
<1>3. QED
  BY <1>2 DEF HeapOK

\* What a list says of the state that holds it.
LEMMA ListedPieces ==
    ASSUME NEW path, ListOf(nodes, path, Len(word))
    PROVE  LiveSlots = path /\ PiecesOfNodes = PiecesAlong(nodes, path)
<1>1. LiveSlots = path
  BY ListFields DEF LiveSlots, Live, LiveOf
<1>2. QED
  BY <1>1 DEF PiecesOfNodes, PiecesAlong, PieceAt

LEMMA StepCallHeap == IInv /\ CallHeap => IInv' /\ MergesOrStays
<1>1. SUFFICES ASSUME IInv, CallHeap PROVE IInv' /\ MergesOrStays
  OBVIOUS
<1> DEFINE n    == Len(pieces)
           ns   == [s \in 0 .. n - 1 |->
                      [start |-> pieces[s + 1].start, len |-> pieces[s + 1].len,
                       prev |-> s - 1, next |-> IF s + 1 = n THEN None ELSE s + 1,
                       alive |-> TRUE]]
           path == [x \in 1 .. n |-> x - 1]
<1>2. /\ pc = "call" /\ pc' = "merge" /\ merge_fn = "nlogn" /\ n >= 2
      /\ nodes' = ns /\ heap' = UNION { Candidate(ns, s, s + 1) : s \in 0 .. n - 2 }
      /\ UNCHANGED <<input, pieces, parts, cursor, emitted, out>>
  BY <1>1 DEF CallHeap, Calls
<1>3. merge_fn' = "nlogn"
  BY <1>2 DEF input
<1>4. CurrentPieces = pieces /\ CurrentPieces' = PiecesOfNodes'
  BY <1>2, <1>3 DEF CurrentPieces
<1>5. /\ Inputs /\ Inputs' /\ word' = word /\ word \in Seq(Nat) /\ Len(word) \in Nat
      /\ pieces \in PieceSeq /\ Tile(pieces, word)
  BY <1>1, <1>2, <1>4, NextInputs, WordIsBytes DEF IInv
<1>6. n \in Nat
  BY <1>5 DEF PieceSeq
<1>7. ASSUME NEW x \in 1 .. n
      PROVE  /\ pieces[x].start \in Nat /\ pieces[x].len \in Nat
             /\ End(pieces[x]) \in 1 .. Len(word)
  <2>1. pieces[x] \in Piece /\ pieces[x].len > 0 /\ End(pieces[x]) <= Len(word)
    BY <1>5, PieceFields, TileInside
  <2>2. QED
    BY <2>1, <1>5 DEF Piece, End
<1>8. ASSUME NEW s \in 0 .. n - 1
      PROVE  /\ ns[s] \in Node /\ ns[s].start = pieces[s + 1].start /\ ns[s].alive
             /\ ns[s].len = pieces[s + 1].len /\ End(ns[s]) = End(pieces[s + 1])
             /\ ns[s].prev = s - 1 /\ ns[s].next = IF s + 1 = n THEN None ELSE s + 1
             /\ End(ns[s]) \in 1 .. Len(word)
  <2>1. s + 1 \in 1 .. n
    BY <1>6
  <2>2. ns[s] = [start |-> pieces[s + 1].start, len |-> pieces[s + 1].len,
                 prev |-> s - 1, next |-> IF s + 1 = n THEN None ELSE s + 1,
                 alive |-> TRUE]
    OBVIOUS
  <2>3. pieces[s + 1].start \in Nat /\ pieces[s + 1].len \in Nat /\ s - 1 \in Int
        /\ (IF s + 1 = n THEN None ELSE s + 1) \in Int /\ End(pieces[s + 1]) \in 1 .. Len(word)
    BY <2>1, <1>7 DEF None
  <2> HIDE DEF ns, n
  <2>4. QED
    BY <2>2, <2>3 DEF Node, End
<1>9. DOMAIN ns = 0 .. n - 1 /\ \E m \in Nat : ns \in [0 .. m - 1 -> Node]
  <2>1. ns \in [0 .. n - 1 -> Node]
    BY <1>8
  <2> HIDE DEF ns
  <2>2. QED
    BY <2>1, <1>6
<1>10. LiveOf(ns) = 0 .. n - 1
  BY <1>8, <1>9 DEF LiveOf
<1>11. /\ path \in Seq(0 .. n - 1) /\ Len(path) = n
       /\ \A x \in 1 .. n : path[x] = x - 1 /\ path[x] \in 0 .. n - 1
  BY <1>6
<1> HIDE DEF ns, path, n
<1>12. Enumerates(path, LiveOf(ns))
  <2>1. \A x, y \in 1 .. n : x < y => path[x] < path[y]
    BY <1>11
  <2>2. ASSUME NEW s \in 0 .. n - 1
        PROVE  \E x \in 1 .. n : path[x] = s
    <3>1. s + 1 \in 1 .. n /\ (s + 1) - 1 = s
      BY <1>6
    <3>2. QED
      BY <3>1, <1>11
  <2>3. QED
    BY <2>1, <2>2, <1>10, <1>11 DEF Enumerates
<1>13. ListOf(ns, path, Len(word))
  <2>1. ASSUME NEW s \in DOMAIN ns
        PROVE  /\ {ns[s].prev, ns[s].next} \subseteq DOMAIN ns \cup {None}
               /\ End(ns[s]) \in 1 .. Len(word)
    <3>1. s \in 0 .. n - 1
      BY <1>9
    <3>2. /\ ns[s].prev = s - 1 /\ ns[s].next = IF s + 1 = n THEN None ELSE s + 1
          /\ End(ns[s]) \in 1 .. Len(word)
      BY <3>1, <1>8
    <3>3. s - 1 \in 0 .. n - 1 \/ s - 1 = None
      BY <3>1, <1>6 DEF None
    <3>4. s + 1 # n => s + 1 \in 0 .. n - 1
      BY <3>1, <1>6
    <3>5. QED
      BY <3>2, <3>3, <3>4, <1>9
  <2>2. Len(path) >= 1 /\ path[1] = 0
    BY <1>2, <1>6, <1>11
  <2>3. ASSUME NEW x \in 1 .. n
        PROVE  /\ ns[path[x]].next = IF x = n THEN None ELSE path[x + 1]
               /\ ns[path[x]].prev = IF x = 1 THEN None ELSE path[x - 1]
    <3>1. path[x] = x - 1 /\ x - 1 \in 0 .. n - 1 /\ (x - 1) + 1 = x
      BY <1>11
    <3>2. ns[x - 1].prev = (x - 1) - 1
          /\ ns[x - 1].next = IF (x - 1) + 1 = n THEN None ELSE (x - 1) + 1
      BY <3>1, <1>8
    <3>3. x # n => x + 1 \in 1 .. n /\ path[x + 1] = x
      BY <1>6, <1>11
    <3>4. x # 1 => x - 1 \in 1 .. n /\ path[x - 1] = (x - 1) - 1
      BY <1>6, <1>11
    <3>5. x = 1 => (x - 1) - 1 = None
      BY DEF None
    <3>6. QED
      BY <3>1, <3>2, <3>3, <3>4, <3>5
  <2>4. QED
    BY <2>1, <2>2, <2>3, <1>9, <1>11, <1>12 DEF ListOf
<1>14. PiecesAlong(ns, path) = pieces
  <2>1. /\ PiecesAlong(ns, path) \in PieceSeq /\ Len(PiecesAlong(ns, path)) = n
        /\ \A x \in 1 .. n : /\ PiecesAlong(ns, path)[x].start = ns[path[x]].start
                             /\ End(PiecesAlong(ns, path)[x]) = End(ns[path[x]])
    BY <1>11, <1>13, AlongFields
  <2>2. ASSUME NEW x \in 1 .. n
        PROVE  /\ ns[path[x]].start = pieces[x].start
               /\ End(ns[path[x]]) = End(pieces[x])
    <3>1. path[x] = x - 1 /\ x - 1 \in 0 .. n - 1 /\ (x - 1) + 1 = x
      BY <1>11
    <3>2. ns[x - 1].start = pieces[(x - 1) + 1].start /\ End(ns[x - 1]) = End(pieces[(x - 1) + 1])
      BY <3>1, <1>8
    <3>3. QED
      BY <3>1, <3>2
  <2>3. Len(pieces) = n
    BY DEF n
  <2>4. QED
    BY <2>1, <2>2, <2>3, <1>5, SamePieces
<1>15. LiveSlots' = path /\ PiecesOfNodes' = pieces
  <2>1. LiveSlots' = path
    BY <1>2, <1>13, ListFields, ZenonT(40) DEF LiveSlots, Live, LiveOf
  <2>2. PiecesOfNodes' = PiecesAlong(ns, path)
    BY <2>1, <1>2 DEF PiecesOfNodes, PiecesAlong, PieceAt
  <2>3. QED
    BY <2>1, <2>2, <1>14
<1>16. ListOK'
  <2>1. ASSUME NEW e \in heap'
        PROVE  e \in [rank : 0 .. MaxRank - 1, left : DOMAIN ns, right : DOMAIN ns]
    <3>1. PICK s \in 0 .. n - 2 : e \in Candidate(ns, s, s + 1)
      BY <1>2
    <3>2. /\ e.left = s /\ e.right = s + 1 /\ e.rank \in 0 .. MaxRank - 1
          /\ e = [rank |-> e.rank, left |-> e.left, right |-> e.right]
      BY <3>1, <1>5, CandidateFields
    <3>3. s \in DOMAIN ns /\ s + 1 \in DOMAIN ns
      BY <1>6, <1>9
    <3>4. QED
      BY <3>2, <3>3
  <2>2. heap' \subseteq [rank : 0 .. MaxRank - 1, left : DOMAIN nodes', right : DOMAIN nodes']
    BY <2>1, <1>2
  <2>3. ListOf(nodes', LiveSlots', Len(word'))
    BY <1>2, <1>5, <1>13, <1>15
  <2>4. QED
    BY <2>2, <2>3 DEF ListOK
<1>17. HeapOK'
  <2>1. ASSUME NEW x \in 1 .. n - 1
        PROVE  Candidate(ns, path[x], path[x + 1]) \subseteq heap'
    <3>1. x \in 1 .. n /\ x + 1 \in 1 .. n /\ (x + 1) - 1 = (x - 1) + 1 /\ x - 1 \in 0 .. n - 2
      BY <1>6
    <3>2. path[x] = x - 1 /\ path[x + 1] = (x - 1) + 1
      BY <3>1, <1>11
    <3>3. QED
      BY <3>1, <3>2, <1>2
  <2>2. path = LiveSlots' /\ nodes' = ns /\ Len(path) = n /\ UNCHANGED input
    BY <1>2, <1>11, <1>15
  <2>3. QED
    BY <2>1, <2>2, <1>5, NextHeapOK
<1>18. MergesOrStays
  BY <1>2, <1>4, <1>15 DEF MergesOrStays
<1>19. IInv'
  BY <1>1, <1>2, <1>3, <1>4, <1>5, <1>15, <1>16, <1>17 DEF IInv, FlatRuns, ListRuns
<1>20. QED
  BY <1>18, <1>19

\* A heap that is not empty has a candidate before all others.
LEMMA PoppedIs ==
    ASSUME DOMAIN nodes \subseteq Nat, heap # {},
           heap \subseteq [rank : 0 .. MaxRank - 1, left : DOMAIN nodes, right : DOMAIN nodes]
    PROVE  Popped \in heap /\ \A e \in heap : Before(Popped, e)
<1>1. \A e \in heap : e.rank \in Nat /\ e.left \in Nat /\ e.right \in Nat
  BY BpeAssumption
<1> DEFINE R == { e.rank : e \in heap }
<1>2. PICK r \in R : \A y \in R : r <= y
  <2>1. R \subseteq Nat /\ R # {}
    BY <1>1
  <2> HIDE DEF R
  <2>2. QED
    BY <2>1, LeastNatural
<1> DEFINE L == { e.left : e \in { f \in heap : f.rank = r } }
<1>3. PICK l \in L : \A y \in L : l <= y
  <2>1. L \subseteq Nat /\ L # {}
    BY <1>1, <1>2
  <2> HIDE DEF L
  <2>2. QED
    BY <2>1, LeastNatural
<1> DEFINE Q == { e.right : e \in { f \in heap : f.rank = r /\ f.left = l } }
<1>4. PICK q \in Q : \A y \in Q : q <= y
  <2>1. Q \subseteq Nat /\ Q # {}
    BY <1>1, <1>3
  <2> HIDE DEF Q
  <2>2. QED
    BY <2>1, LeastNatural
<1>5. PICK e \in heap : e.rank = r /\ e.left = l /\ e.right = q
  BY <1>4
<1>6. ASSUME NEW f \in heap
      PROVE  Before(e, f)
  <2>1. r <= f.rank /\ r \in Nat /\ f.rank \in Nat
    BY <1>1, <1>2
  <2>2. f.rank = r => l <= f.left /\ l \in Nat /\ f.left \in Nat
    BY <1>1, <1>3
  <2>3. f.rank = r /\ f.left = l => q <= f.right
    BY <1>4
  <2> HIDE DEF R, L, Q
  <2>4. QED
    BY <2>1, <2>2, <2>3, <1>5 DEF Before
<1>7. QED
  BY <1>5, <1>6 DEF Popped

\* The rank of two neighbours in the list.
LEMMA PairAlong ==
    ASSUME NEW ns, NEW path, NEW length, ListOf(ns, path, length), NEW x \in 1 .. Len(path) - 1
    PROVE  /\ PairOf(PiecesAlong(ns, path), x)
                = RankOf(ns[path[x]].start, End(ns[path[x + 1]]))
           /\ x \in 1 .. Len(path) /\ x + 1 \in 1 .. Len(path)
<1>1. Len(path) \in Int
  BY ListFields
<1>2. x \in 1 .. Len(path) /\ x + 1 \in 1 .. Len(path)
  BY <1>1
<1>3. /\ PiecesAlong(ns, path)[x].start = ns[path[x]].start
      /\ End(PiecesAlong(ns, path)[x + 1]) = End(ns[path[x + 1]])
  BY <1>2, AlongFields
<1>4. QED
  BY <1>2, <1>3 DEF PairOf

\* The candidate of two neighbours is never skipped.
LEMMA NeighboursAreCurrent ==
    ASSUME Inputs, NEW path, ListOf(nodes, path, Len(word)),
           NEW x \in 1 .. Len(path) - 1, NEW e \in Candidate(nodes, path[x], path[x + 1])
    PROVE  IsCurrent(e)
<1>1. x \in 1 .. Len(path) /\ x + 1 \in 1 .. Len(path) /\ x # Len(path)
  <2>1. Len(path) \in Int
    BY ListFields
  <2>2. QED
    BY <2>1
<1>2. e.left = path[x] /\ e.right = path[x + 1]
      /\ e.rank = RankOf(nodes[path[x]].start, End(nodes[path[x + 1]]))
  BY CandidateFields
<1>3. nodes[path[x]].alive /\ nodes[path[x + 1]].alive
  BY <1>1, ListFields
<1>4. nodes[path[x]].next = path[x + 1]
  BY <1>1 DEF ListOf
<1>5. QED
  BY <1>2, <1>3, <1>4 DEF IsCurrent

\* What is not skipped is the candidate of two neighbours.
LEMMA CurrentArePair ==
    ASSUME Inputs, NEW path, ListOf(nodes, path, Len(word)), IsCurrent(Popped),
           Popped.left \in DOMAIN nodes, Popped.right \in DOMAIN nodes
    PROVE  \E k \in 1 .. Len(path) - 1 : Popped.left = path[k] /\ Popped.right = path[k + 1]
                /\ Popped.rank = PairOf(PiecesAlong(nodes, path), k)
<1> DEFINE e == Popped
<1>1. /\ nodes[e.left].alive /\ nodes[e.right].alive /\ nodes[e.left].next = e.right
      /\ RankOf(nodes[e.left].start, End(nodes[e.right])) = e.rank
  BY DEF IsCurrent
<1>2. e.left \in DOMAIN nodes /\ e.right \in DOMAIN nodes
  OBVIOUS
<1> HIDE DEF e
<1>3. PICK k \in 1 .. Len(path) : path[k] = e.left
  BY <1>1, <1>2 DEF ListOf, Enumerates, LiveOf
<1>4. nodes[path[k]].next = IF k = Len(path) THEN None ELSE path[k + 1]
  BY DEF ListOf
<1>5. k # Len(path) /\ e.right = path[k + 1]
  BY <1>1, <1>2, <1>3, <1>4, ListFields
<1>6. k \in 1 .. Len(path) - 1
  <2>1. Len(path) \in Nat
    BY ListFields
  <2>2. QED
    BY <2>1, <1>5
<1>7. e.rank = PairOf(PiecesAlong(nodes, path), k)
  BY <1>1, <1>3, <1>5, <1>6, PairAlong
<1>8. QED
  BY <1>3, <1>5, <1>6, <1>7 DEF e

\* A candidate that is not skipped is the pair to be merged next.
LEMMA PoppedIsNext ==
    ASSUME Inputs, ListOK, HeapOK, heap # {}, IsCurrent(Popped)
    PROVE  \E k : NextPair(PiecesOfNodes, k)
                /\ Popped.left = LiveSlots[k] /\ Popped.right = LiveSlots[k + 1]
<1> DEFINE path == LiveSlots
           P    == PiecesAlong(nodes, path)
<1>1. /\ ListOf(nodes, path, Len(word)) /\ DOMAIN nodes \subseteq Nat /\ MaxRank \in Nat
      /\ heap \subseteq [rank : 0 .. MaxRank - 1, left : DOMAIN nodes, right : DOMAIN nodes]
  BY ListFields, BpeAssumption DEF ListOK
<1>2. Popped \in heap /\ \A e \in heap : Before(Popped, e)
  BY <1>1, PoppedIs
<1>3. Popped.rank \in 0 .. MaxRank - 1 /\ Popped.left \in DOMAIN nodes
      /\ Popped.right \in DOMAIN nodes
  BY <1>1, <1>2
<1>4. \A x \in 1 .. Len(path) - 1 : Candidate(nodes, path[x], path[x + 1]) \subseteq heap
  BY DEF HeapOK
<1>5. PiecesOfNodes = P /\ Len(P) = Len(path)
  <2>1. \A p : ListOf(nodes, p, Len(word))
                 => PiecesOfNodes = PiecesAlong(nodes, p) /\ Len(PiecesAlong(nodes, p)) = Len(p)
    BY ListedPieces, AlongFields
  <2>2. QED
    BY <2>1, <1>1
<1>6. PICK k \in 1 .. Len(path) - 1 :
        /\ Popped.left = path[k] /\ Popped.right = path[k + 1]
        /\ Popped.rank = PairOf(P, k)
  <2> HIDE DEF path
  <2>1. QED
    BY <1>1, <1>3, CurrentArePair
<1> HIDE DEF path
<1>7. ASSUME NEW x \in 1 .. Len(path) - 1
      PROVE  PairOf(P, k) < PairOf(P, x) \/ (PairOf(P, k) = PairOf(P, x) /\ k <= x)
  <2>1. /\ PairOf(P, x) = RankOf(nodes[path[x]].start, End(nodes[path[x + 1]]))
        /\ x \in 1 .. Len(path) /\ k \in 1 .. Len(path)
    BY <1>1, PairAlong
  <2>2. PairOf(P, x) \in 0 .. MaxRank
    BY <2>1, RankIsBounded
  <2>3. CASE PairOf(P, x) = MaxRank
    BY <2>3, <1>1, <1>3, <1>6
  <2>4. CASE PairOf(P, x) < MaxRank
    <3> DEFINE c == [rank |-> PairOf(P, x), left |-> path[x], right |-> path[x + 1]]
    <3>1. c \in Candidate(nodes, path[x], path[x + 1])
      BY <2>1, <2>4 DEF Candidate
    <3>2. Before(Popped, c)
      BY <3>1, <1>2, <1>4
    <3>3. \/ PairOf(P, k) < PairOf(P, x)
          \/ PairOf(P, k) = PairOf(P, x) /\ path[k] <= path[x]
      <4>1. c.rank = PairOf(P, x) /\ c.left = path[x]
        OBVIOUS
      <4>2. path[k] \in Nat /\ path[x] \in Nat
        BY <2>1, <1>1, ListFields
      <4> HIDE DEF c, P
      <4>3. QED
        BY <3>2, <4>1, <4>2, <1>6 DEF Before
    <3>4. path[k] <= path[x] => k <= x
      BY <2>1, <1>1, PathRises
    <3>5. QED
      BY <3>3, <3>4
  <2>5. QED
    BY <2>2, <2>3, <2>4, <1>1
<1>8. NextPair(PiecesOfNodes, k)
  BY <1>1, <1>3, <1>5, <1>6, <1>7 DEF NextPair
<1>9. QED
  BY <1>6, <1>8 DEF path

LEMMA StepHeapSkip == IInv /\ HeapSkip => IInv' /\ MergesOrStays
<1>1. SUFFICES ASSUME IInv, HeapSkip PROVE IInv' /\ MergesOrStays
  OBVIOUS
<1>2. /\ pc = "merge" /\ merge_fn = "nlogn" /\ heap # {} /\ ~IsCurrent(Popped)
      /\ heap' = heap \ {Popped}
      /\ UNCHANGED <<input, pc, pieces, parts, nodes, cursor, emitted, out>>
  BY <1>1 DEF HeapSkip, HeapIterates
<1>3. merge_fn' = "nlogn" /\ pc' = "merge"
  BY <1>2 DEF input
<1>4. LiveSlots' = LiveSlots /\ PiecesOfNodes' = PiecesOfNodes
  <2>1. LiveSlots' = LiveSlots
    BY <1>2 DEF LiveSlots, Live
  <2>2. QED
    BY <2>1, <1>2 DEF PiecesOfNodes, PieceAt
<1>5. CurrentPieces = PiecesOfNodes /\ CurrentPieces' = PiecesOfNodes
  BY <1>2, <1>3, <1>4 DEF CurrentPieces
<1>6. Inputs /\ Inputs' /\ word' = word /\ ListOK /\ HeapOK
  BY <1>1, <1>2, NextInputs DEF IInv, ListRuns
<1>7. MergesOrStays
  BY <1>2, <1>5 DEF MergesOrStays
<1>8. ListOK'
  BY <1>2, <1>4, <1>6 DEF ListOK
<1> DEFINE path == LiveSlots
<1>9. ListOf(nodes, path, Len(word))
  BY <1>6 DEF ListOK
<1>10. \A x \in 1 .. Len(path) - 1 : Candidate(nodes, path[x], path[x + 1]) \subseteq heap
  BY <1>6 DEF HeapOK
<1>11. LiveSlots' = path
  BY <1>4
<1> HIDE DEF path
<1>12. ASSUME NEW x \in 1 .. Len(path) - 1, NEW e \in Candidate(nodes, path[x], path[x + 1])
       PROVE  e \in heap'
  <2>1. IsCurrent(e)
    BY <1>6, <1>9, NeighboursAreCurrent
  <2>2. e # Popped
    BY <2>1, <1>2
  <2>3. QED
    BY <2>2, <1>2, <1>10
<1>13. HeapOK'
  <2>1. nodes' = nodes /\ UNCHANGED input
    BY <1>2
  <2>2. \A x \in 1 .. Len(path) - 1 : Candidate(nodes', path[x], path[x + 1]) \subseteq heap'
    BY <2>1, <1>12
  <2>3. QED
    BY <2>1, <2>2, <1>6, <1>11, NextHeapOK
<1>14. IInv'
  BY <1>1, <1>2, <1>3, <1>5, <1>6, <1>8, <1>13 DEF IInv, FlatRuns, ListRuns
<1>15. QED
  BY <1>7, <1>14

LEMMA StepHeapDone == IInv /\ HeapDone => IInv' /\ MergesOrStays
<1>1. SUFFICES ASSUME IInv, HeapDone PROVE IInv' /\ MergesOrStays
  OBVIOUS
<1>2. /\ pc = "merge" /\ pc' = "collect" /\ merge_fn = "nlogn" /\ heap = {}
      /\ pieces' = << >> /\ cursor' = 0
      /\ UNCHANGED <<input, parts, nodes, heap, emitted, out>>
  BY <1>1 DEF HeapDone
<1>3. merge_fn' = "nlogn"
  BY <1>2 DEF input
<1>4. LiveSlots' = LiveSlots /\ PiecesOfNodes' = PiecesOfNodes
  <2>1. LiveSlots' = LiveSlots
    BY <1>2 DEF LiveSlots, Live
  <2>2. QED
    BY <2>1, <1>2 DEF PiecesOfNodes, PieceAt
<1>5. CurrentPieces = PiecesOfNodes /\ CurrentPieces' = PiecesOfNodes
  BY <1>2, <1>3, <1>4 DEF CurrentPieces
<1>6. Inputs /\ Inputs' /\ word' = word /\ ListOK /\ HeapOK
  BY <1>1, <1>2, NextInputs DEF IInv, ListRuns
<1>7. MergesOrStays
  BY <1>2, <1>5 DEF MergesOrStays
<1>8. ListOK'
  BY <1>2, <1>4, <1>6 DEF ListOK
<1> DEFINE path == LiveSlots
<1>9. ListOf(nodes, path, Len(word)) /\ LiveSlots' = path
  BY <1>4, <1>6 DEF ListOK
<1>10. \A x \in 1 .. Len(path) - 1 : Candidate(nodes, path[x], path[x + 1]) = {}
  BY <1>2, <1>6 DEF HeapOK
<1> HIDE DEF path
<1>11. PiecesOfNodes = PiecesAlong(nodes, path) /\ Len(PiecesAlong(nodes, path)) = Len(path)
  BY <1>9, ListedPieces, AlongFields
<1>12. ASSUME NEW x \in 1 .. Len(path) - 1
       PROVE  PairOf(PiecesOfNodes, x) = MaxRank
  <2>1. PairOf(PiecesOfNodes, x) = RankOf(nodes[path[x]].start, End(nodes[path[x + 1]]))
    BY <1>9, <1>11, PairAlong
  <2>2. PairOf(PiecesOfNodes, x) \in 0 .. MaxRank /\ MaxRank \in Nat
    BY <2>1, <1>6, RankIsBounded, BpeAssumption
  <2>3. ~(PairOf(PiecesOfNodes, x) < MaxRank)
    BY <2>1, <1>10 DEF Candidate
  <2>4. QED
    BY <2>2, <2>3
<1>13. NothingToMerge(PiecesOfNodes)
  BY <1>11, <1>12 DEF NothingToMerge
<1>14. NothingToMerge(CurrentPieces)'
  BY <1>2, <1>5, <1>6, <1>13, NextInputs
<1>15. Collected'
  <2>1. Len(path) \in Nat \ {0} /\ path[1] = 0
    BY <1>9, ListFields DEF ListOf
  <2>2. Len(pieces') = 0 /\ Len(pieces') + 1 = 1
    BY <1>2
  <2>3. QED
    BY <2>1, <2>2, <1>2, <1>9 DEF Collected
<1>16. pieces' \in PieceSeq
  BY <1>2 DEF PieceSeq
<1>17. IInv'
  BY <1>1, <1>2, <1>3, <1>5, <1>6, <1>8, <1>14, <1>15, <1>16 DEF IInv, FlatRuns, ListRuns
<1>18. QED
  BY <1>7, <1>17

LEMMA StepHeapMerge == IInv /\ HeapMerge => IInv' /\ MergesOrStays
<1>1. SUFFICES ASSUME IInv, HeapMerge PROVE IInv' /\ MergesOrStays
  OBVIOUS
<1> DEFINE l    == Popped.left
           r    == Popped.right
           path == LiveSlots
<1>2. /\ pc = "merge" /\ merge_fn = "nlogn" /\ heap # {} /\ IsCurrent(Popped)
      /\ nodes' = Spliced(l, r)
      /\ heap' = (heap \ {Popped}) \cup Candidates(nodes', l)
      /\ UNCHANGED <<input, pc, pieces, parts, cursor, emitted, out>>
  BY <1>1 DEF HeapMerge, HeapIterates
<1>3. merge_fn' = "nlogn" /\ pc' = "merge"
  BY <1>2 DEF input
<1>4. CurrentPieces = PiecesOfNodes /\ CurrentPieces' = PiecesOfNodes'
  BY <1>2, <1>3 DEF CurrentPieces
<1>5. Inputs /\ Inputs' /\ word' = word /\ word \in Seq(Nat) /\ ListOK /\ HeapOK
      /\ PiecesOfNodes \in PieceSeq /\ Tile(PiecesOfNodes, word)
  BY <1>1, <1>2, <1>4, NextInputs, WordIsBytes DEF IInv, ListRuns
<1>6. PICK k : /\ NextPair(PiecesOfNodes, k)
               /\ l = path[k] /\ r = path[k + 1]
  BY <1>2, <1>5, PoppedIsNext
<1>7. /\ ListOf(nodes, path, Len(word))
      /\ heap \subseteq [rank : 0 .. MaxRank - 1, left : DOMAIN nodes, right : DOMAIN nodes]
  BY <1>5 DEF ListOK
<1>8. \A x \in 1 .. Len(path) - 1 : Candidate(nodes, path[x], path[x + 1]) \subseteq heap
  BY <1>5 DEF HeapOK
<1> HIDE DEF path
<1> DEFINE n  == Len(path)
           P  == PiecesAlong(nodes, path)
           q  == RemoveAt(path, k + 1)
           ms == Spliced(path[k], path[k + 1])
<1>9. PiecesOfNodes = P /\ Len(P) = n /\ P \in PieceSeq
  BY <1>7, ListedPieces, AlongFields
<1>10. /\ DOMAIN nodes \subseteq Nat /\ n \in Nat \ {0} /\ path \in Seq(LiveOf(nodes))
       /\ \A x \in 1 .. n : path[x] \in DOMAIN nodes
  BY <1>7, ListFields
<1>11. k \in 1 .. n - 1
  BY <1>6, <1>9 DEF NextPair
<1>12. k \in 1 .. n /\ k + 1 \in 1 .. n /\ n - 1 \in Nat
  <2>1. \A m \in Int : \A i \in 1 .. m - 1 : i \in 1 .. m /\ i + 1 \in 1 .. m /\ m - 1 \in Nat
    OBVIOUS
  <2> HIDE DEF n
  <2>2. QED
    BY <2>1, <1>10, <1>11
<1>13. nodes' = ms
  BY <1>2, <1>6
<1>14. /\ DOMAIN ms = DOMAIN nodes
       /\ ListOf(ms, q, Len(word))
       /\ PiecesAlong(ms, q) = Merged(P, k)
  BY <1>5, <1>7, <1>9, <1>11, SplicedList
<1>15. /\ Len(q) = n - 1
       /\ \A x \in 1 .. n - 1 : q[x] = IF x < k + 1 THEN path[x] ELSE path[x + 1]
  BY <1>10, <1>12, RemoveAtIs
<1> HIDE DEF n, P, q, ms, l, r
<1>16. LiveSlots' = q /\ PiecesOfNodes' = Merged(P, k)
  <2>1. LiveSlots' = q
    <3>1. Ascending(LiveOf(ms)) = q
      BY <1>14, ListFields
    <3>2. LiveSlots' = Ascending(LiveOf(nodes'))
      BY DEF LiveSlots, Live, LiveOf
    <3>3. QED
      BY <3>1, <3>2, <1>13
  <2>2. PiecesOfNodes' = PiecesAlong(ms, q)
    BY <2>1, <1>13 DEF PiecesOfNodes, PiecesAlong, PieceAt
  <2>3. QED
    BY <2>1, <2>2, <1>14
<1>17. MergesOrStays
  BY <1>2, <1>4, <1>6, <1>9, <1>16 DEF MergesOrStays
<1>18. PiecesOfNodes' \in PieceSeq /\ Tile(PiecesOfNodes', word)
  BY <1>5, <1>9, <1>11, <1>16, MergedTiles
\* The pairs of the new list: those of the old one, but for the two of slot l.
<1>19. ASSUME NEW y \in 1 .. n - 2, y # k, y + 1 # k,
              NEW e \in Candidate(ms, q[y], q[y + 1])
       PROVE  e \in heap /\ e.left # l
  <2>1. /\ y \in 1 .. n - 1 /\ y + 1 \in 1 .. n - 1 /\ y \in 1 .. Len(q) - 1
        /\ y \in 1 .. n /\ y + 1 \in 1 .. n /\ (y + 1) + 1 \in 1 .. n
    BY <1>10, <1>15
  <2>2. /\ e.left = q[y] /\ e.right = q[y + 1]
        /\ e.rank = PairOf(Merged(P, k), y) /\ e.rank \in 0 .. MaxRank - 1
        /\ e = [rank |-> e.rank, left |-> e.left, right |-> e.right]
    <3>1. PairOf(Merged(P, k), y) = RankOf(ms[q[y]].start, End(ms[q[y + 1]]))
      BY <2>1, <1>14, PairAlong
    <3>2. QED
      BY <3>1, <1>5, <1>19, CandidateFields
  <2> DEFINE z == IF y < k THEN y ELSE y + 1
  <2>3. z \in 1 .. n - 1 /\ z # k /\ z \in 1 .. n
    BY <2>1, <1>12, <1>19
  <2>4. PairOf(Merged(P, k), y) = PairOf(P, z)
    <3>1. k \in 1 .. Len(P) - 1 /\ Len(P) - 1 = n - 1
      BY <1>9, <1>11
    <3>2. \A x \in 1 .. n - 1 :
            /\ Merged(P, k)[x].start = IF x <= k THEN P[x].start ELSE P[x + 1].start
            /\ End(Merged(P, k)[x]) = IF x < k THEN End(P[x]) ELSE End(P[x + 1])
      BY <3>1, <1>5, <1>9, MergedFields
    <3>3. CASE y < k
      <4>1. y <= k /\ y + 1 < k /\ z = y
        BY <3>3, <1>12, <1>19
      <4>2. Merged(P, k)[y].start = P[y].start /\ End(Merged(P, k)[y + 1]) = End(P[y + 1])
        BY <4>1, <3>2, <2>1
      <4>3. QED
        BY <4>1, <4>2 DEF PairOf
    <3>4. CASE ~(y < k)
      <4>1. ~(y <= k) /\ ~(y + 1 < k) /\ z = y + 1
        BY <3>4, <1>12, <1>19
      <4>2. /\ Merged(P, k)[y].start = P[y + 1].start
            /\ End(Merged(P, k)[y + 1]) = End(P[(y + 1) + 1])
        BY <4>1, <3>2, <2>1
      <4>3. QED
        BY <4>1, <4>2 DEF PairOf
    <3>5. QED
      BY <3>3, <3>4
  <2>5. q[y] = path[z] /\ q[y + 1] = path[z + 1]
    <3>1. CASE y < k
      <4>1. y < k + 1 /\ y + 1 < k + 1 /\ z = y
        BY <3>1, <1>12
      <4>2. QED
        BY <4>1, <2>1, <1>15
    <3>2. CASE ~(y < k)
      <4>1. ~(y < k + 1) /\ ~(y + 1 < k + 1) /\ z = y + 1
        BY <3>2, <1>12, <1>19
      <4>2. QED
        BY <4>1, <2>1, <1>15
    <3>3. QED
      BY <3>1, <3>2
  <2> HIDE DEF z
  <2>6. PairOf(P, z) = RankOf(nodes[path[z]].start, End(nodes[path[z + 1]]))
    BY <2>3, <1>7, PairAlong DEF P, n
  <2>7. e \in Candidate(nodes, path[z], path[z + 1])
    <3>1. e.rank < MaxRank
      BY <2>2, BpeAssumption
    <3>2. e.rank = RankOf(nodes[path[z]].start, End(nodes[path[z + 1]]))
      BY <2>2, <2>4, <2>6
    <3>3. e = [rank |-> e.rank, left |-> path[z], right |-> path[z + 1]]
      BY <2>2, <2>5
    <3>4. QED
      BY <3>1, <3>2, <3>3 DEF Candidate
  <2>8. e \in heap
    BY <2>3, <2>7, <1>8 DEF n
  <2>9. path[z] # path[k]
    BY <2>3, <1>7, <1>12, PathRises DEF n
  <2>10. QED
    BY <2>2, <2>5, <2>8, <2>9, <1>6
<1>20. /\ q[k] = l
       /\ \A x \in 1 .. n - 1 :
            /\ ms[q[x]].next = IF x = n - 1 THEN None ELSE q[x + 1]
            /\ ms[q[x]].prev = IF x = 1 THEN None ELSE q[x - 1]
  <2>1. q[k] = l
    BY <1>6, <1>11, <1>12, <1>15
  <2>2. QED
    BY <2>1, <1>14, <1>15 DEF ListOf
<1>21. ASSUME NEW y \in 1 .. n - 2
       PROVE  Candidate(ms, q[y], q[y + 1]) \subseteq heap'
  <2>1. y \in 1 .. n - 1 /\ y + 1 \in 1 .. n - 1 /\ y # n - 1 /\ y + 1 # 1 /\ (y + 1) - 1 = y
    BY <1>10
  <2>2. q[y + 1] # None /\ q[y] # None
    <3>1. q[y] \in Nat /\ q[y + 1] \in Nat
      BY <2>1, <1>14, <1>15, ListFields
    <3>2. QED
      BY <3>1 DEF None
  <2>3. CASE y = k
    <3>1. ms[l].next = q[y + 1] /\ q[y] = l
      BY <2>1, <2>3, <1>20
    <3>2. Candidate(ms, q[y], q[y + 1]) \subseteq Candidates(ms, l)
      BY <3>1, <2>2 DEF Candidates
    <3>3. QED
      BY <3>2, <1>2, <1>13
  <2>4. CASE y + 1 = k
    <3>1. ms[l].prev = q[y] /\ q[y + 1] = l
      BY <2>1, <2>4, <1>20
    <3>2. Candidate(ms, q[y], q[y + 1]) \subseteq Candidates(ms, l)
      BY <3>1, <2>2 DEF Candidates
    <3>3. QED
      BY <3>2, <1>2, <1>13
  <2>5. CASE y # k /\ y + 1 # k
    <3>1. \A e \in Candidate(ms, q[y], q[y + 1]) : e \in heap /\ e # Popped
      BY <2>5, <1>19 DEF l
    <3>2. QED
      BY <3>1, <1>2
  <2>6. QED
    BY <2>3, <2>4, <2>5
<1>22. HeapOK'
  <2>1. Len(q) - 1 = n - 2
    BY <1>10, <1>15
  <2>2. \A x \in 1 .. Len(q) - 1 : Candidate(nodes', q[x], q[x + 1]) \subseteq heap'
    BY <2>1, <1>13, <1>21
  <2>3. UNCHANGED input
    BY <1>2
  <2>4. QED
    BY <2>2, <2>3, <1>5, <1>16, NextHeapOK
<1>23. heap' \subseteq [rank : 0 .. MaxRank - 1, left : DOMAIN nodes', right : DOMAIN nodes']
  <2>1. l \in DOMAIN nodes
    BY <1>6, <1>10, <1>12
  <2>2. ASSUME NEW e \in Candidates(ms, l)
        PROVE  e \in [rank : 0 .. MaxRank - 1, left : DOMAIN nodes, right : DOMAIN nodes]
    <3>1. {ms[l].prev, ms[l].next} \subseteq DOMAIN nodes \cup {None}
      BY <2>1, <1>14 DEF ListOf
    <3>2. CASE ms[l].prev # None /\ e \in Candidate(ms, ms[l].prev, l)
      <4>1. /\ e.left = ms[l].prev /\ e.right = l /\ e.rank \in 0 .. MaxRank - 1
            /\ e = [rank |-> e.rank, left |-> e.left, right |-> e.right]
        BY <3>2, <1>5, CandidateFields
      <4>2. ms[l].prev \in DOMAIN nodes
        BY <3>1, <3>2
      <4>3. QED
        BY <4>1, <4>2, <2>1
    <3>3. CASE ms[l].next # None /\ e \in Candidate(ms, l, ms[l].next)
      <4>1. /\ e.left = l /\ e.right = ms[l].next /\ e.rank \in 0 .. MaxRank - 1
            /\ e = [rank |-> e.rank, left |-> e.left, right |-> e.right]
        BY <3>3, <1>5, CandidateFields
      <4>2. ms[l].next \in DOMAIN nodes
        BY <3>1, <3>3
      <4>3. QED
        BY <4>1, <4>2, <2>1
    <3>4. QED
      BY <3>2, <3>3 DEF Candidates
  <2>3. QED
    BY <2>2, <1>2, <1>7, <1>13, <1>14
<1>24. ListOK'
  BY <1>5, <1>13, <1>14, <1>16, <1>23 DEF ListOK
<1>25. IInv'
  BY <1>1, <1>2, <1>3, <1>4, <1>5, <1>18, <1>22, <1>24 DEF IInv, FlatRuns, ListRuns
<1>26. QED
  BY <1>17, <1>25

-----------------------------------------------------------------------------
(* merge_loop_nlogn: collecting the pieces *)

\* What the list gives the walk over it.
LEMMA WalkFields ==
    ASSUME ListOK
    PROVE  /\ PiecesOfNodes \in PieceSeq /\ Len(PiecesOfNodes) = Len(LiveSlots)
           /\ Len(LiveSlots) \in Nat
           /\ \A x \in 1 .. Len(LiveSlots) :
                /\ LiveSlots[x] # None /\ LiveSlots[x] \in DOMAIN nodes
                /\ nodes[LiveSlots[x]].alive
                /\ PieceAt(LiveSlots[x]) \in Piece
                /\ PiecesOfNodes[x] = PieceAt(LiveSlots[x])
                /\ nodes[LiveSlots[x]].next
                     = IF x = Len(LiveSlots) THEN None ELSE LiveSlots[x + 1]
<1> DEFINE path == LiveSlots
<1>1. ListOf(nodes, path, Len(word))
  BY DEF ListOK
<1> HIDE DEF path
<1>2. PiecesOfNodes = PiecesAlong(nodes, path)
  BY <1>1, ListedPieces
<1>3. PiecesOfNodes \in PieceSeq /\ Len(PiecesOfNodes) = Len(path)
  BY <1>1, <1>2, AlongFields
<1>4. /\ Len(path) \in Nat /\ DOMAIN path = 1 .. Len(path) /\ None \notin DOMAIN nodes
      /\ \A x \in 1 .. Len(path) : path[x] \in DOMAIN nodes /\ nodes[path[x]].alive
  BY <1>1, ListFields
<1>5. \A x \in 1 .. Len(path) :
        nodes[path[x]].next = IF x = Len(path) THEN None ELSE path[x + 1]
  BY <1>1 DEF ListOf
<1>6. \A x \in 1 .. Len(path) : PiecesOfNodes[x] = PieceAt(path[x])
  BY <1>2, <1>4 DEF PiecesAlong, PieceAt
<1>7. \A x \in 1 .. Len(path) : PieceAt(path[x]) \in Piece
  BY <1>3, <1>6, PieceFields
<1>8. QED
  BY <1>3, <1>4, <1>5, <1>6, <1>7 DEF path

LEMMA StepCollect == IInv /\ Collect => IInv' /\ MergesOrStays
<1>1. SUFFICES ASSUME IInv, Collect PROVE IInv' /\ MergesOrStays
  OBVIOUS
<1>2. /\ pc = "collect" /\ cursor # None
      /\ pieces' = Append(pieces, PieceAt(cursor)) /\ cursor' = nodes[cursor].next
      /\ UNCHANGED <<input, pc, parts, nodes, heap, emitted, out>>
  BY <1>1 DEF Collect
<1>3. /\ merge_fn = "nlogn" /\ merge_fn' = "nlogn" /\ pc' = "collect" /\ heap = {} /\ Collected
      /\ pieces \in PieceSeq /\ ListOK /\ Inputs
  BY <1>1, <1>2 DEF IInv, ListRuns, input
<1>4. LiveSlots' = LiveSlots /\ PiecesOfNodes' = PiecesOfNodes
  <2>1. LiveSlots' = LiveSlots
    BY <1>2 DEF LiveSlots, Live
  <2>2. QED
    BY <2>1, <1>2 DEF PiecesOfNodes, PieceAt
<1>5. CurrentPieces = PiecesOfNodes /\ CurrentPieces' = PiecesOfNodes
  BY <1>2, <1>3, <1>4 DEF CurrentPieces
<1>6. Inputs' /\ word' = word
  BY <1>2, <1>3, NextInputs
<1>7. MergesOrStays
  BY <1>2, <1>5 DEF MergesOrStays
<1>8. ListOK'
  BY <1>2, <1>3, <1>4, <1>6 DEF ListOK
<1>9. NothingToMerge(CurrentPieces)'
  BY <1>1, <1>2, <1>3, <1>5, NextInputs DEF IInv
<1> DEFINE n == Len(pieces)
           m == Len(LiveSlots)
<1>10. /\ n \in Nat /\ m \in Nat /\ n <= m
       /\ \A x \in 1 .. n : pieces[x] = PieceAt(LiveSlots[x])
       /\ cursor = IF n = m THEN None ELSE LiveSlots[n + 1]
  BY <1>3, WalkFields DEF Collected, PieceSeq
<1>11. n + 1 \in 1 .. m /\ cursor = LiveSlots[n + 1]
  BY <1>2, <1>10
<1>12. PieceAt(cursor) \in Piece /\ cursor' = IF n + 1 = m THEN None ELSE LiveSlots[(n + 1) + 1]
  BY <1>2, <1>3, <1>11, WalkFields
<1>13. pieces' \in PieceSeq /\ Len(pieces') = n + 1
       /\ \A x \in 1 .. n + 1 : pieces'[x] = IF x = n + 1 THEN PieceAt(cursor) ELSE pieces[x]
  BY <1>2, <1>3, <1>12 DEF PieceSeq
<1> HIDE DEF n, m
<1>14. \A x \in 1 .. n + 1 : pieces'[x] = PieceAt(LiveSlots[x])
  BY <1>10, <1>11, <1>13
<1>15. Collected'
  <2>1. \A x \in 1 .. n + 1 : PieceAt(LiveSlots[x])' = PieceAt(LiveSlots[x])
    BY <1>2, <1>4 DEF PieceAt
  <2>2. Len(LiveSlots') = m
    BY <1>4 DEF m
  <2>3. n + 1 <= m
    BY <1>10, <1>11
  <2>4. QED
    BY <2>1, <2>2, <2>3, <1>4, <1>12, <1>13, <1>14 DEF Collected
<1>16. IInv'
  BY <1>1, <1>2, <1>3, <1>5, <1>6, <1>8, <1>9, <1>13, <1>15 DEF IInv, FlatRuns, ListRuns
<1>17. QED
  BY <1>7, <1>16

LEMMA StepCollectDone == IInv /\ CollectDone => IInv' /\ MergesOrStays
<1>1. SUFFICES ASSUME IInv, CollectDone PROVE IInv' /\ MergesOrStays
  OBVIOUS
<1>2. /\ pc = "collect" /\ cursor = None /\ pc' = "emit" /\ nodes' = << >>
      /\ UNCHANGED <<input, pieces, parts, heap, cursor, emitted, out>>
  BY <1>1 DEF CollectDone
<1>3. /\ merge_fn = "nlogn" /\ heap = {} /\ Collected /\ pieces \in PieceSeq /\ ListOK /\ Inputs
  BY <1>1, <1>2 DEF IInv, ListRuns
<1>4. pieces = PiecesOfNodes
  <2>1. /\ Len(pieces) <= Len(LiveSlots) /\ Len(pieces) \in Nat
        /\ \A x \in 1 .. Len(pieces) : pieces[x] = PieceAt(LiveSlots[x])
        /\ cursor = IF Len(pieces) = Len(LiveSlots) THEN None ELSE LiveSlots[Len(pieces) + 1]
    BY <1>3 DEF Collected, PieceSeq
  <2>2. Len(LiveSlots) \in Nat /\ PiecesOfNodes \in PieceSeq
        /\ Len(PiecesOfNodes) = Len(LiveSlots)
        /\ \A x \in 1 .. Len(LiveSlots) :
             LiveSlots[x] # None /\ PiecesOfNodes[x] = PieceAt(LiveSlots[x])
    BY <1>3, WalkFields
  <2>3. Len(pieces) = Len(LiveSlots)
    <3>1. SUFFICES ASSUME Len(pieces) # Len(LiveSlots) PROVE FALSE
      OBVIOUS
    <3>2. Len(pieces) + 1 \in 1 .. Len(LiveSlots)
      BY <3>1, <2>1, <2>2
    <3>3. QED
      BY <3>1, <3>2, <2>1, <2>2, <1>2
  <2>4. QED
    BY <2>1, <2>2, <2>3, <1>3 DEF PieceSeq
<1>5. CurrentPieces = pieces /\ CurrentPieces' = pieces
  BY <1>2, <1>3, <1>4 DEF CurrentPieces
<1>6. Inputs' /\ word' = word
  BY <1>2, <1>3, NextInputs
<1>7. MergesOrStays
  BY <1>2, <1>5 DEF MergesOrStays
<1>8. NothingToMerge(CurrentPieces)'
  BY <1>1, <1>2, <1>3, <1>5, NextInputs DEF IInv
<1>9. TokensOK'
  BY <1>1, <1>2, <1>3, TokensBegin DEF IInv
<1>10. IInv'
  BY <1>1, <1>2, <1>3, <1>5, <1>6, <1>8, <1>9 DEF IInv, FlatRuns, ListRuns
<1>11. QED
  BY <1>7, <1>10

-----------------------------------------------------------------------------
(* Emission *)

\* The slice of one byte.
LEMMA OneByte ==
    ASSUME NEW w \in Seq(Nat), NEW i \in 1 .. Len(w)
    PROVE  /\ w[i] \in Nat /\ <<w[i]>> \in Seq(Nat)
           /\ SubSeq(w, i, i) = <<w[i]>>
<1>1. w[i] \in Nat
  OBVIOUS
<1>2. <<w[i]>> \in Seq(Nat)
  BY <1>1
<1>3. /\ SubSeq(w, i, i) \in Seq(Nat)
      /\ Len(SubSeq(w, i, i)) = IF i <= i THEN i - i + 1 ELSE 0
      /\ \A j \in 1 .. i - i + 1 : SubSeq(w, i, i)[j] = w[i + j - 1]
  <2>1. i \in Int /\ \A j \in i .. i : w[j] \in Nat
    OBVIOUS
  <2>2. QED
    BY <2>1, SubSeqProperties
<1> DEFINE sub == SubSeq(w, i, i)
<1>4. Len(sub) = 1 /\ sub[1] = w[i]
  <2>1. Len(sub) = i - i + 1 /\ \A j \in 1 .. i - i + 1 : sub[j] = w[i + j - 1]
    BY <1>3
  <2>2. i - i + 1 = 1 /\ i + 1 - 1 = i
    OBVIOUS
  <2> HIDE DEF sub
  <2>3. Len(sub) = 1 /\ \A j \in 1 .. 1 : sub[j] = w[i + j - 1]
    BY <2>1, <2>2
  <2>4. 1 \in 1 .. 1
    OBVIOUS
  <2>5. sub[1] = w[i + 1 - 1]
    BY ONLY <2>3, <2>4, Zenon
  <2>6. QED
    BY <2>2, <2>3, <2>5, Zenon
<1>5. \A s \in Seq(Nat) : Len(s) = 1 => s = <<s[1]>>
  OBVIOUS
<1>6. sub \in Seq(Nat)
  BY <1>3
<1> HIDE DEF sub
<1>7. sub = <<w[i]>>
  BY <1>4, <1>5, <1>6
<1>8. QED
  BY <1>1, <1>2, <1>7 DEF sub

\* The tokens of a piece lie end to end over it.
LEMMA TokensOfPiece ==
    ASSUME word \in Seq(Nat), NEW p \in Piece, p.len > 0, End(p) <= Len(word)
    PROVE  /\ TokensOf(p) \in Seq(Token) /\ Len(TokensOf(p)) \in Nat \ {0}
           /\ \A x \in 1 .. Len(TokensOf(p)) :
                /\ TokensOf(p)[x].start
                     = IF x = 1 THEN p.start ELSE TokensOf(p)[x - 1].end
                /\ TokensOf(p)[x].start < TokensOf(p)[x].end
                /\ TokensOf(p)[x].bytes
                     = Slice(word, TokensOf(p)[x].start, TokensOf(p)[x].end)
           /\ TokensOf(p)[Len(TokensOf(p))].end = End(p)
<1> DEFINE w == word
<1>1. w \in Seq(Nat) /\ Len(w) \in Nat /\ p.start \in Nat /\ p.len \in Nat
      /\ End(p) = p.start + p.len /\ End(p) \in Nat /\ End(p) <= Len(w)
  BY DEF Piece, End
<1> HIDE DEF w
<1>2. \A a, b \in Nat : a < b /\ b <= Len(w) => Slice(w, a, b) \in Seq(Nat)
  <2> TAKE a, b \in Nat
  <2>1. SUFFICES ASSUME a < b, b <= Len(w) PROVE SubSeq(w, a + 1, b) \in Seq(Nat)
    BY DEF Slice
  <2>2. \A x \in a + 1 .. b : w[x] \in Nat
    BY <2>1, <1>1, SMTT(30)
  <2>3. QED
    BY <2>1, <2>2, <1>1, SubSeqProperties
<1>3. CASE Known(p)
  <2> DEFINE tok == [bytes |-> Slice(w, p.start, End(p)), start |-> p.start, end |-> End(p)]
  <2>1. TokensOf(p) = <<tok>>
    BY <1>3 DEF TokensOf, w
  <2>2. tok \in Token /\ p.start < End(p)
    <3>1. p.start < End(p) /\ Slice(w, p.start, End(p)) \in Seq(Nat)
      BY <1>1, <1>2
    <3>2. QED
      BY <3>1, <1>1 DEF Token
  <2>3. tok.start = p.start /\ tok.end = End(p) /\ tok.bytes = Slice(w, p.start, End(p))
    OBVIOUS
  <2> HIDE DEF tok
  <2>4. QED
    BY <2>1, <2>2, <2>3 DEF w
<1>4. CASE ~Known(p)
  <2> DEFINE f == FallbackTokens(p)
  <2>1. TokensOf(p) = f
    BY <1>4 DEF TokensOf
  <2>2. f = [x \in 1 .. p.len |-> [bytes |-> <<w[p.start + x]>>,
                                   start |-> p.start + x - 1, end |-> p.start + x]]
    BY DEF FallbackTokens, w
  <2> HIDE DEF f
  <2>3. ASSUME NEW x \in 1 .. p.len
        PROVE  /\ f[x] \in Token
               /\ f[x].start = p.start + x - 1 /\ f[x].end = p.start + x
               /\ f[x].bytes = Slice(w, p.start + x - 1, p.start + x)
    <3>1. p.start + x \in 1 .. Len(w) /\ p.start + x - 1 \in Nat
          /\ (p.start + x - 1) + 1 = p.start + x
      <4>1. \A a, n, m \in Nat : \A i \in 1 .. n :
              a + n <= m => a + i \in 1 .. m /\ a + i - 1 \in Nat /\ (a + i - 1) + 1 = a + i
        OBVIOUS
      <4>2. p.start \in Nat /\ p.len \in Nat /\ Len(w) \in Nat /\ p.start + p.len <= Len(w)
        BY <1>1
      <4>3. QED
        BY <4>1, <4>2, SMTT(30)
    <3>2. f[x].bytes = <<w[p.start + x]>> /\ f[x].start = p.start + x - 1 /\ f[x].end = p.start + x
          /\ f[x] = [bytes |-> f[x].bytes, start |-> f[x].start, end |-> f[x].end]
      <4>1. f[x] = [bytes |-> <<w[p.start + x]>>,
                    start |-> p.start + x - 1, end |-> p.start + x]
        BY <2>2
      <4>2. QED
        BY <4>1
    <3>3. /\ w[p.start + x] \in Nat /\ <<w[p.start + x]>> \in Seq(Nat)
          /\ SubSeq(w, p.start + x, p.start + x) = <<w[p.start + x]>>
      BY <3>1, <1>1, OneByte
    <3>4. f[x].bytes = Slice(w, p.start + x - 1, p.start + x)
      BY <3>1, <3>2, <3>3 DEF Slice
    <3>5. f[x].bytes \in Seq(Nat)
      BY <3>2, <3>3
    <3>6. f[x].start \in Nat /\ f[x].end \in Nat
      BY <3>1, <3>2
    <3>7. f[x] \in Token
      BY <3>2, <3>5, <3>6 DEF Token
    <3>8. QED
      BY <3>2, <3>4, <3>7
  <2>4. f \in Seq(Token) /\ Len(f) = p.len /\ Len(f) \in Nat \ {0} /\ p.len \in 1 .. p.len
    <3>1. p.len \in Nat \ {0} /\ p.len \in 1 .. p.len
      BY <1>1, SMTT(30)
    <3>2. DOMAIN f = 1 .. p.len /\ f = [x \in 1 .. p.len |-> f[x]]
      BY <2>2
    <3>3. \A x \in 1 .. p.len : f[x] \in Token
      BY <2>3
    <3>4. f \in [1 .. p.len -> Token]
      BY <3>2, <3>3
    <3>5. \A S : \A n \in Nat : f \in [1 .. n -> S] => f \in Seq(S) /\ Len(f) = n
      OBVIOUS
    <3>6. QED
      BY <3>1, <3>4, <3>5
  <2>5. ASSUME NEW x \in 1 .. p.len
        PROVE  /\ f[x].start = IF x = 1 THEN p.start ELSE f[x - 1].end
               /\ f[x].start < f[x].end
               /\ f[x].bytes = Slice(w, f[x].start, f[x].end)
    <3>1. x # 1 => x - 1 \in 1 .. p.len /\ p.start + (x - 1) = p.start + x - 1
      BY <1>1
    <3>2. x = 1 => p.start + x - 1 = p.start
      BY <1>1
    <3>3. p.start + x - 1 < p.start + x
      BY <1>1
    <3>4. QED
      BY <3>1, <3>2, <3>3, <2>3
  <2>6. f[p.len].end = End(p)
    BY <2>3, <2>4, <1>1
  <2>7. QED
    BY <2>1, <2>4, <2>5, <2>6 DEF w
<1>5. QED
  BY <1>3, <1>4

\* Tokens that go on where others end lie end to end with them.
LEMMA SpansConcat ==
    ASSUME NEW w, NEW o \in Seq(Token), Spans(o, w),
           NEW t \in Seq(Token), Len(t) \in Nat \ {0},
           \A x \in 1 .. Len(t) :
                /\ t[x].start = IF x = 1 THEN LastEnd(o) ELSE t[x - 1].end
                /\ t[x].start < t[x].end
                /\ t[x].bytes = Slice(w, t[x].start, t[x].end)
    PROVE  o \o t \in Seq(Token) /\ Spans(o \o t, w) /\ LastEnd(o \o t) = t[Len(t)].end
<1> DEFINE m == Len(o)
           n == Len(t)
           c == o \o t
<1>1. m \in Nat /\ n \in Nat \ {0}
  OBVIOUS
<1>2. /\ c \in Seq(Token) /\ Len(c) = m + n
      /\ \A x \in 1 .. m + n : c[x] = IF x <= m THEN o[x] ELSE t[x - m]
  BY ConcatProperties
<1>3. \A x \in 1 .. m : /\ o[x].start = IF x = 1 THEN 0 ELSE o[x - 1].end
                        /\ o[x].start < o[x].end
                        /\ o[x].bytes = Slice(w, o[x].start, o[x].end)
  BY DEF Spans
<1>4. \A x \in 1 .. n : /\ t[x].start = IF x = 1 THEN LastEnd(o) ELSE t[x - 1].end
                        /\ t[x].start < t[x].end
                        /\ t[x].bytes = Slice(w, t[x].start, t[x].end)
  OBVIOUS
<1>5. LastEnd(o) = IF m = 0 THEN 0 ELSE o[m].end
  BY DEF LastEnd
<1> HIDE DEF m, n, c
<1>6. ASSUME NEW x \in 1 .. m + n
      PROVE  /\ c[x].start = IF x = 1 THEN 0 ELSE c[x - 1].end
             /\ c[x].start < c[x].end
             /\ c[x].bytes = Slice(w, c[x].start, c[x].end)
  <2>1. x # 1 => x - 1 \in 1 .. m + n
    BY <1>1
  <2>2. CASE x <= m
    <3>1. x \in 1 .. m /\ c[x] = o[x]
      BY <2>2, <1>1, <1>2
    <3>2. x # 1 => c[x - 1] = o[x - 1]
      BY <2>1, <2>2, <1>1, <1>2
    <3>3. QED
      BY <3>1, <3>2, <1>3
  <2>3. CASE x > m
    <3>1. x - m \in 1 .. n /\ c[x] = t[x - m] /\ (x - m = 1 <=> x = m + 1)
      BY <2>3, <1>1, <1>2
    <3>2. CASE x = m + 1
      <4>1. x # 1 => c[x - 1] = o[m] /\ m # 0
        <5>1. x - 1 = m /\ x - 1 <= m /\ (x # 1 => m # 0)
          BY <3>2, <1>1
        <5>2. x # 1 => c[x - 1] = o[x - 1]
          BY <5>1, <2>1, <1>2
        <5>3. QED
          BY <5>1, <5>2
      <4>2. x = 1 => m = 0
        BY <3>2, <1>1
      <4>3. QED
        BY <4>1, <4>2, <3>1, <3>2, <1>4, <1>5, ZenonT(40)
    <3>3. CASE x # m + 1
      <4>1. x # 1 /\ ~(x - 1 <= m) /\ (x - 1) - m = (x - m) - 1
        BY <3>3, <2>3, <1>1
      <4>2. c[x - 1] = t[(x - m) - 1]
        BY <4>1, <2>1, <1>2
      <4>3. QED
        BY <4>1, <4>2, <3>1, <3>3, <1>4
    <3>4. QED
      BY <3>2, <3>3
  <2>4. QED
    BY <2>2, <2>3, <1>1
<1>7. Spans(c, w)
  BY <1>2, <1>6 DEF Spans
<1>8. LastEnd(c) = t[n].end
  <2>1. m + n \in 1 .. m + n /\ ~(m + n <= m) /\ (m + n) - m = n /\ m + n # 0
    BY <1>1
  <2>2. c # << >>
    BY <2>1, <1>2
  <2>3. c[Len(c)] = t[n]
    BY <2>1, <1>2
  <2>4. QED
    BY <2>2, <2>3 DEF LastEnd
<1>9. QED
  BY <1>2, <1>7, <1>8 DEF c, n

LEMMA StepEmit == IInv /\ Emit => IInv' /\ MergesOrStays
<1>1. SUFFICES ASSUME IInv, Emit PROVE IInv' /\ MergesOrStays
  OBVIOUS
<1> DEFINE p == pieces[emitted + 1]
           t == TokensOf(p)
<1>2. /\ pc = "emit" /\ pc' = "emit" /\ emitted < Len(pieces)
      /\ out' = out \o t /\ emitted' = emitted + 1
      /\ UNCHANGED <<input, pc, pieces, parts, nodes, heap, cursor>>
  BY <1>1 DEF Emit, Emitting
<1>3. CurrentPieces = pieces /\ CurrentPieces' = pieces
  BY <1>2 DEF CurrentPieces
<1>4. /\ Inputs /\ Inputs' /\ word' = word /\ word \in Seq(Nat)
      /\ pieces \in PieceSeq /\ Tile(pieces, word) /\ TokensOK
  BY <1>1, <1>2, <1>3, NextInputs, WordIsBytes DEF IInv
<1>5. MergesOrStays
  BY <1>2, <1>3 DEF MergesOrStays
<1>6. NothingToMerge(CurrentPieces)'
  BY <1>1, <1>2, <1>3, <1>4, NextInputs DEF IInv
<1>7. /\ out \in Seq(Token) /\ Spans(out, word)
      /\ emitted \in Nat /\ Len(pieces) \in Nat /\ DOMAIN pieces = 1 .. Len(pieces)
      /\ LastEnd(out) = IF emitted = 0 THEN 0 ELSE End(pieces[emitted])
  BY <1>4 DEF TokensOK, PieceSeq
<1>8. emitted + 1 \in 1 .. Len(pieces) /\ (emitted + 1) - 1 = emitted
  BY <1>2, <1>7
<1>9. p \in Piece /\ p.len > 0 /\ End(p) <= Len(word)
  BY <1>4, <1>8, PieceFields, TileInside
<1>10. p.start = LastEnd(out)
  <2>1. p.start = IF emitted + 1 = 1 THEN 0 ELSE End(pieces[(emitted + 1) - 1])
    BY <1>4, <1>7, <1>8 DEF Tile
  <2>2. emitted + 1 = 1 <=> emitted = 0
    BY <1>7
  <2> HIDE DEF p
  <2>3. QED
    BY <2>1, <2>2, <1>7, <1>8
<1> HIDE DEF p
<1>11. /\ t \in Seq(Token) /\ Len(t) \in Nat \ {0}
       /\ \A x \in 1 .. Len(t) :
            /\ t[x].start = IF x = 1 THEN LastEnd(out) ELSE t[x - 1].end
            /\ t[x].start < t[x].end
            /\ t[x].bytes = Slice(word, t[x].start, t[x].end)
       /\ t[Len(t)].end = End(p)
  BY <1>4, <1>9, <1>10, TokensOfPiece
<1> HIDE DEF t
<1>12. out \o t \in Seq(Token) /\ Spans(out \o t, word) /\ LastEnd(out \o t) = End(p)
  BY <1>7, <1>11, SpansConcat, SMTT(30)
<1>13. TokensOK'
  <2>1. out' \in Seq(Token) /\ Spans(out', word') /\ LastEnd(out') = End(pieces[emitted + 1])
    BY <1>2, <1>4, <1>12 DEF p
  <2>2. emitted' \in 0 .. Len(pieces) /\ emitted' # 0 /\ pieces' = pieces
        /\ emitted' = emitted + 1
    BY <1>2, <1>7, <1>8
  <2>3. QED
    BY <2>1, <2>2 DEF TokensOK
<1>14. IInv'
  BY <1>1, <1>2, <1>3, <1>4, <1>6, <1>13 DEF IInv, FlatRuns, ListRuns
<1>15. QED
  BY <1>5, <1>14

\* What ends the emission leaves the tokens as they are.
LEMMA StepEmitEnds == IInv /\ (EmitFails \/ EmitDone) => IInv' /\ MergesOrStays
<1>1. SUFFICES ASSUME IInv, EmitFails \/ EmitDone PROVE IInv' /\ MergesOrStays
  OBVIOUS
<1>2. /\ pc = "emit" /\ pc' \in {"done", "error"} /\ (pc' = "done" => emitted = Len(pieces))
      /\ UNCHANGED <<input, pieces, parts, nodes, heap, cursor, emitted, out>>
  BY <1>1 DEF EmitFails, EmitDone, Emitting
<1>3. CurrentPieces = pieces /\ CurrentPieces' = pieces
  BY <1>2 DEF CurrentPieces
<1>4. Inputs' /\ word' = word /\ TokensOK
  BY <1>1, <1>2, NextInputs DEF IInv
<1>5. MergesOrStays
  BY <1>2, <1>3 DEF MergesOrStays
<1>6. NothingToMerge(CurrentPieces)'
  BY <1>1, <1>2, <1>3, NextInputs DEF IInv
<1>7. TokensOK'
  BY <1>2, <1>4 DEF TokensOK
<1>8. IInv'
  BY <1>1, <1>2, <1>3, <1>4, <1>6, <1>7 DEF IInv, FlatRuns, ListRuns
<1>9. QED
  BY <1>5, <1>8

LEMMA Stutter == IInv /\ UNCHANGED vars => IInv' /\ MergesOrStays
<1>1. SUFFICES ASSUME IInv, UNCHANGED vars PROVE IInv' /\ MergesOrStays
  OBVIOUS
<1>2. UNCHANGED <<input, pc, pieces, parts, nodes, heap, cursor, emitted, out>>
  BY <1>1 DEF vars
<1>3. /\ Inputs' /\ word' = word /\ SeedPieces' = SeedPieces
      /\ merge_fn' = merge_fn /\ merges' = merges
  BY <1>1, <1>2, NextInputs DEF IInv, input
<1>4. LiveSlots' = LiveSlots
  BY <1>2 DEF LiveSlots, Live
<1>5. PiecesOfNodes' = PiecesOfNodes /\ PiecesOfParts' = PiecesOfParts
  BY <1>2, <1>4 DEF PiecesOfNodes, PiecesOfParts, PieceAt
<1>6. CurrentPieces' = CurrentPieces
  BY <1>2, <1>3, <1>5 DEF CurrentPieces
<1>7. MergesOrStays
  BY <1>2, <1>6 DEF MergesOrStays
<1>8. NothingToMerge(CurrentPieces)' <=> NothingToMerge(CurrentPieces)
  BY <1>1, <1>2, <1>6, NextInputs DEF IInv
<1> HIDE DEF word
<1>9. (PartsOK' <=> PartsOK) /\ (ListOK' <=> ListOK) /\ (HeapOK' <=> HeapOK)
      /\ (Collected' <=> Collected) /\ (TokensOK' <=> TokensOK)
  <2>1. PartsOK' <=> PartsOK
    BY <1>2, <1>3 DEF PartsOK, PartRank, RankOf
  <2>2. ListOK' <=> ListOK
    BY <1>2, <1>3, <1>4 DEF ListOK
  <2>3. HeapOK' <=> HeapOK
    BY <1>2, <1>3, <1>4 DEF HeapOK, Candidate, RankOf
  <2>4. Collected' <=> Collected
    BY <1>2, <1>3, <1>4 DEF Collected, PieceAt
  <2>5. TokensOK' <=> TokensOK
    BY <1>2, <1>3 DEF TokensOK
  <2>6. QED
    BY <2>1, <2>2, <2>3, <2>4, <2>5
<1>10. IInv'
  BY <1>1, <1>2, <1>3, <1>6, <1>8, <1>9 DEF IInv, FlatRuns, ListRuns
<1>11. QED
  BY <1>7, <1>10

-----------------------------------------------------------------------------
(* The theorems *)

\* Every step keeps the invariant, and is the naive loop's next merge or none.
LEMMA EveryStep == IInv /\ [Next]_vars => IInv' /\ MergesOrStays
<1>1. SUFFICES ASSUME IInv, [Next]_vars PROVE IInv' /\ MergesOrStays
  OBVIOUS
<1>2. CASE Seed
  BY <1>1, <1>2, StepSeed
<1>3. CASE CallReturns
  BY <1>1, <1>3, StepCallReturns
<1>4. CASE Naive
  BY <1>1, <1>4, StepCallNaive, StepNaiveMerge, StepNaiveDone DEF Naive
<1>5. CASE Flat
  BY <1>1, <1>5, StepCallFlat, StepFlatMerge, StepFlatDone DEF Flat
<1>6. CASE Heap
  BY <1>1, <1>6, StepCallHeap, StepHeapSkip, StepHeapMerge, StepHeapDone,
     StepCollect, StepCollectDone DEF Heap
<1>7. CASE Tokens
  BY <1>1, <1>7, StepEmit, StepEmitEnds DEF Tokens
<1>8. CASE UNCHANGED vars
  BY <1>1, <1>8, Stutter
<1>9. QED
  BY <1>1, <1>2, <1>3, <1>4, <1>5, <1>6, <1>7, <1>8 DEF Next

\* The inductive invariant of encode_word_bpe and of its merge loops.
THEOREM Invariance == Spec => []IInv
<1>1. Init => IInv
  BY InitIInv
<1>2. IInv /\ [Next]_vars => IInv'
  BY EveryStep
<1>3. QED
  BY <1>1, <1>2, PTL DEF Spec

LEMMA PartsStayInside ==
    ASSUME Inputs, PartsOK
    PROVE  \A x \in 1 .. Len(parts) :
             parts[x].start \in 0 .. Len(word) /\ parts[x].rank \in 0 .. MaxRank
<1> DEFINE n  == Len(parts)
           ps == PiecesOf(parts)
<1>1. word \in Seq(Nat) /\ Len(word) \in Nat /\ MaxRank \in Nat
  BY WordIsBytes, BpeAssumption
<1>2. /\ Rising(parts, Len(word)) /\ parts \in Seq(Part) /\ n \in Nat /\ n >= 2
      /\ parts[1].start = 0
      /\ \A x \in 1 .. n : parts[x].rank = PartRank(parts, x)
  BY DEF PartsOK, Rising
<1>3. /\ ps \in PieceSeq /\ Len(ps) = n - 1 /\ Tile(ps, word)
      /\ \A x \in 1 .. n - 1 : End(ps[x]) = parts[x + 1].start
  BY <1>1, <1>2, PartsArePieces
<1> HIDE DEF n, ps
<1>4. ASSUME NEW x \in 1 .. n
      PROVE  parts[x].start \in 0 .. Len(word)
  <2>1. CASE x = 1
    BY <2>1, <1>1, <1>2
  <2>2. CASE x # 1
    <3>1. x - 1 \in 1 .. n - 1 /\ (x - 1) + 1 = x
      BY <2>2, <1>2
    <3>2. End(ps[x - 1]) <= Len(word) /\ End(ps[x - 1]) \in Nat
      BY <3>1, <1>1, <1>3, TileInside, PieceFields
    <3>3. End(ps[x - 1]) = parts[x].start
      BY <3>1, <1>3
    <3>4. QED
      BY <3>2, <3>3, <1>1
  <2>3. QED
    BY <2>1, <2>2
<1>5. \A x : PartRank(parts, x) \in 0 .. MaxRank
  BY <1>1, RankIsBounded DEF PartRank
<1>6. QED
  BY <1>2, <1>4, <1>5 DEF n

LEMMA IInvTypeOK == IInv => TypeOK
<1>1. SUFFICES ASSUME IInv PROVE TypeOK
  OBVIOUS
<1>2. Inputs /\ pieces \in PieceSeq /\ Len(pieces) \in Nat
  BY <1>1 DEF IInv, PieceSeq
<1>3. pc \in {"seed", "call", "merge", "collect", "emit", "done", "error"}
  BY <1>1 DEF IInv
<1>4. /\ \A x \in DOMAIN parts :
           parts[x].start \in 0 .. Len(word) /\ parts[x].rank \in 0 .. MaxRank
      /\ pc = "merge" /\ merge_fn = "flat" => Len(parts) >= 2
  <2>1. CASE FlatRuns
    <3>1. PartsOK
      BY <2>1, <1>1 DEF IInv
    <3>2. DOMAIN parts = 1 .. Len(parts) /\ Len(parts) >= 2
      BY <3>1 DEF PartsOK, Rising
    <3>3. QED
      BY <3>1, <3>2, <1>2, PartsStayInside
  <2>2. CASE ~FlatRuns
    <3>1. parts = << >>
      BY <2>2, <1>1 DEF IInv
    <3>2. QED
      BY <2>2, <3>1 DEF FlatRuns
  <2>3. QED
    BY <2>1, <2>2
<1>5. /\ \A s \in DOMAIN nodes :
           /\ {nodes[s].prev, nodes[s].next} \subseteq DOMAIN nodes \cup {None}
           /\ End(nodes[s]) \in 1 .. Len(word)
      /\ \A e \in heap : {e.left, e.right} \subseteq DOMAIN nodes /\ e.rank < MaxRank
  <2>1. CASE ListRuns
    <3>1. ListOK
      BY <2>1, <1>1 DEF IInv
    <3>2. QED
      BY <3>1, BpeAssumption DEF ListOK, ListOf
  <2>2. CASE ~ListRuns
    BY <2>2, <1>1 DEF IInv
  <2>3. QED
    BY <2>1, <2>2
<1>6. cursor \in DOMAIN nodes \cup {None}
  <2>1. CASE pc = "collect"
    <3>1. ListOK /\ Collected
      BY <2>1, <1>1 DEF IInv, ListRuns
    <3>2. Len(pieces) # Len(LiveSlots) => Len(pieces) + 1 \in 1 .. Len(LiveSlots)
      BY <3>1, <1>2, WalkFields DEF Collected
    <3>3. QED
      BY <3>1, <3>2, WalkFields DEF Collected
  <2>2. CASE pc # "collect"
    BY <2>2, <1>1 DEF IInv
  <2>3. QED
    BY <2>1, <2>2
<1>7. emitted \in 0 .. Len(pieces)
  BY <1>1, <1>2 DEF IInv, TokensOK
<1>8. QED
  BY <1>3, <1>4, <1>5, <1>6, <1>7 DEF TypeOK

\* The indices that the loops follow stay inside their vectors.
THEOREM TypeCorrect == Spec => []TypeOK
BY Invariance, IInvTypeOK, PTL

\* No cached rank and no heap is ever out of date: whatever the table, what the
\* fast loops remember covers every pair that can be merged, and the list never
\* leads to a slot that was merged away.
THEOREM PairsTracked == Spec => []PairsAreTracked
<1>1. IInv => PairsAreTracked
  <2>1. SUFFICES ASSUME IInv PROVE PairsAreTracked
    OBVIOUS
  <2>2. TypeOK
    BY <2>1, IInvTypeOK
  <2>3. ASSUME pc = "merge"
        PROVE  \A x \in DOMAIN parts : parts[x].rank = PartRank(parts, x)
    <3>1. CASE FlatRuns
      BY <3>1, <2>1 DEF IInv, PartsOK, Rising
    <3>2. CASE ~FlatRuns
      BY <3>2, <2>1 DEF IInv
    <3>3. QED
      BY <3>1, <3>2
  <2>4. ASSUME pc = "merge", NEW s \in Live, nodes[s].next # None
        PROVE  /\ nodes[nodes[s].next].alive /\ nodes[nodes[s].next].prev = s
               /\ Candidate(nodes, s, nodes[s].next) \subseteq heap
    <3>1. merge_fn = "nlogn"
      BY <2>1, <2>4 DEF IInv, ListRuns, Live
    <3>2. ListOK /\ HeapOK
      BY <2>1, <2>4, <3>1 DEF IInv, ListRuns
    <3> DEFINE path == LiveSlots
    <3>3. ListOf(nodes, path, Len(word))
      BY <3>2 DEF ListOK
    <3>4. \A x \in 1 .. Len(path) - 1 : Candidate(nodes, path[x], path[x + 1]) \subseteq heap
      BY <3>2 DEF HeapOK
    <3> HIDE DEF path
    <3>5. PICK x \in 1 .. Len(path) : path[x] = s
      BY <3>3 DEF ListOf, Enumerates, LiveOf, Live
    <3>6. Len(path) \in Nat /\ \A y \in 1 .. Len(path) : nodes[path[y]].alive
      BY <3>3, ListFields
    <3>7. \A y \in 1 .. Len(path) :
            /\ nodes[path[y]].next = IF y = Len(path) THEN None ELSE path[y + 1]
            /\ nodes[path[y]].prev = IF y = 1 THEN None ELSE path[y - 1]
      BY <3>3 DEF ListOf
    <3>8. x # Len(path) /\ nodes[s].next = path[x + 1]
      BY <2>4, <3>5, <3>7
    <3>9. x \in 1 .. Len(path) - 1 /\ x + 1 \in 1 .. Len(path) /\ x + 1 # 1 /\ (x + 1) - 1 = x
      BY <3>6, <3>8
    <3>10. QED
      BY <3>4, <3>5, <3>6, <3>7, <3>8, <3>9
  <2>5. ASSUME pc = "collect", cursor # None
        PROVE  nodes[cursor].alive
    <3>1. ListOK /\ Collected
      BY <2>1, <2>5 DEF IInv, ListRuns
    <3>2. Len(pieces) \in Nat
      BY <2>1 DEF IInv, PieceSeq
    <3>3. Len(pieces) + 1 \in 1 .. Len(LiveSlots) /\ cursor = LiveSlots[Len(pieces) + 1]
      BY <2>5, <3>1, <3>2, WalkFields DEF Collected
    <3>4. QED
      BY <3>1, <3>3, WalkFields
  <2>6. QED
    BY <2>2, <2>3, <2>4, <2>5 DEF PairsAreTracked
<1>2. QED
  BY <1>1, Invariance, PTL

\* Whatever the word, the table, the vocabulary and the loop: the tokens lie end
\* to end over the word and stand for its bytes, and a word that is encoded is
\* covered whole, with nothing left to merge.
THEOREM EncodingCorrect == Spec => []EncodingIsWhole
<1>1. IInv => EncodingIsWhole
  <2>1. SUFFICES ASSUME IInv PROVE EncodingIsWhole
    OBVIOUS
  <2>2. ASSUME NEW x \in DOMAIN out
        PROVE  /\ out[x].start = IF x = 1 THEN 0 ELSE out[x - 1].end
               /\ out[x].start < out[x].end
               /\ out[x].bytes = Slice(word, out[x].start, out[x].end)
    <3>1. CASE pc \in {"emit", "done", "error"}
      <4>1. Spans(out, word) /\ DOMAIN out = 1 .. Len(out)
        BY <3>1, <2>1 DEF IInv, TokensOK
      <4>2. QED
        BY <4>1 DEF Spans
    <3>2. CASE pc \notin {"emit", "done", "error"}
      BY <3>2, <2>1 DEF IInv
    <3>3. QED
      BY <3>1, <3>2
  <2>3. ASSUME pc = "done"
        PROVE  /\ Len(word) = IF out = << >> THEN 0 ELSE out[Len(out)].end
               /\ \A x \in 1 .. Len(pieces) - 1 : PairRank(x) = MaxRank
    <3>1. CurrentPieces = pieces
      BY <2>3 DEF CurrentPieces
    <3>2. /\ pieces \in PieceSeq /\ Tile(pieces, word) /\ NothingToMerge(pieces)
          /\ TokensOK /\ emitted = Len(pieces)
      BY <2>1, <2>3, <3>1 DEF IInv
    <3>3. LastEnd(out) = Len(word)
      <4>1. Len(word) = IF pieces = << >> THEN 0 ELSE End(pieces[Len(pieces)])
        BY <3>2 DEF Tile
      <4>2. LastEnd(out) = IF Len(pieces) = 0 THEN 0 ELSE End(pieces[Len(pieces)])
        BY <3>2 DEF TokensOK
      <4>3. pieces = << >> <=> Len(pieces) = 0
        BY <3>2 DEF PieceSeq
      <4>4. QED
        BY <4>1, <4>2, <4>3
    <3>4. \A x \in 1 .. Len(pieces) - 1 : PairRank(x) = MaxRank
      BY <3>2 DEF NothingToMerge, PairOf, PairRank
    <3>5. QED
      BY <3>3, <3>4 DEF LastEnd
  <2>4. QED
    BY <2>2, <2>3 DEF EncodingIsWhole
<1>2. QED
  BY <1>1, Invariance, PTL

\* The three loops compute the same: each step of each of them is the merge that
\* the naive loop would make next, or leaves the pieces as they are.
THEOREM LoopsRefineMerge == Spec => ImplementsMerge
<1>1. Init => Merging!Init
  <2>1. SUFFICES ASSUME Init PROVE Merging!Init
    OBVIOUS
  <2>2. Tile(CurrentPieces, word)
    BY <2>1, InitIInv DEF IInv
  <2>3. QED
    BY <2>2 DEF Merging!Init, Merging!Tile, Merging!End, Tile, End
<1>2. IInv /\ [Next]_vars => [Merging!Next]_(Merging!vars)
  <2>1. SUFFICES ASSUME IInv, [Next]_vars PROVE [Merging!Next]_(Merging!vars)
    OBVIOUS
  <2>2. Inputs /\ MergesOrStays
    BY <2>1, EveryStep DEF IInv
  <2>3. QED
    BY <2>2, MergesOrStaysIsMerging
<1>3. QED
  BY <1>1, <1>2, Invariance, PTL DEF Spec, ImplementsMerge, Merging!Spec
=============================================================================
