--------------------------- MODULE MCAhoCorasick ---------------------------
(* Every pair of patterns of up to MaxPattern bytes, empty and equal ones
   included, and two lists with three patterns inside one another. *)
EXTENDS AhoCorasick

CONSTANT MaxPattern

\* Two patterns, neither empty.
MCNonEmptyLists == { <<p, q>> : p, q \in BoundedSeq(Byte, MaxPattern) \ {<< >>} }

MCPatternLists ==
    { <<p, q>> : p, q \in BoundedSeq(Byte, MaxPattern) }
    \cup { << <<0>>, <<0, 0>>, <<0, 0, 0>> >>,
           << <<0, 1, 0, 1>>, <<1, 0>>, << >>, <<0>> >> }
=============================================================================
