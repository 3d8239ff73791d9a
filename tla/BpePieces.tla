----------------------------- MODULE BpePieces -----------------------------
(***************************************************************************)
(* The pieces that a word is cut into (PieceRef, in                        *)
(* stringcheese-tokenizer-hf/src/bpe.rs).  A piece is [start, len], with   *)
(* start counted from 0 in the bytes of the word.                          *)
(***************************************************************************)
EXTENDS Integers, Sequences

End(piece) == piece.start + piece.len

Slice(bytes, start, end) == SubSeq(bytes, start + 1, end)

\* The pieces ps lie end to end over the bytes, none of them empty.
Tile(ps, bytes) ==
    /\ \A n \in DOMAIN ps :
         /\ ps[n].len > 0
         /\ ps[n].start = IF n = 1 THEN 0 ELSE End(ps[n - 1])
    /\ Len(bytes) = IF ps = << >> THEN 0 ELSE End(ps[Len(ps)])

\* The pieces ps once the n-th has been merged with its right neighbour.
Merged(ps, n) ==
    [x \in 1 .. Len(ps) - 1 |->
       IF x < n THEN ps[x]
       ELSE IF x > n THEN ps[x + 1]
       ELSE [ps[n] EXCEPT !.len = @ + ps[n + 1].len]]
=============================================================================
