------------------------------ MODULE BpeMerge ------------------------------
(***************************************************************************)
(* What the merge loop of a byte-pair encoder computes, whatever its data  *)
(* structure: as long as two neighbouring pieces of the word form a merge, *)
(* the leftmost of those of lowest rank become one piece.                  *)
(*                                                                         *)
(* A merge table is keyed by the bytes of the merged piece                 *)
(* (stringcheese-tokenizer-hf/src/bpe.rs, BpeMergeTable), so the rank of   *)
(* two neighbours is that of the slice of the word they cover.             *)
(***************************************************************************)
EXTENDS BpePieces

CONSTANT MaxRank       \* u32::MAX, which stands for "no such merge"

VARIABLES word, merges, pieces

vars == <<word, merges, pieces>>

\* rank_slice
Rank(table, key) == IF key \in DOMAIN table THEN table[key] ELSE MaxRank

\* The rank of pieces n and n + 1.
PairRank(n) ==
    Rank(merges, Slice(word, pieces[n].start, End(pieces[n + 1])))

Pairs == 1 .. Len(pieces) - 1

Init == Tile(pieces, word)

Mergeable == \E n \in Pairs : PairRank(n) < MaxRank

\* Pair n has the lowest rank, and is the first that has it.
IsNext(n) ==
    /\ PairRank(n) < MaxRank
    /\ \A x \in Pairs : PairRank(n) < PairRank(x) \/ (PairRank(n) = PairRank(x) /\ n <= x)

Merge(n) ==
    /\ IsNext(n)
    /\ pieces' = Merged(pieces, n)
    /\ UNCHANGED <<word, merges>>

Next == \E n \in Pairs : Merge(n)
Spec == Init /\ [][Next]_vars
=============================================================================
