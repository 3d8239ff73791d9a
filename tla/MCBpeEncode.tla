---------------------------- MODULE MCBpeEncode ----------------------------
(* Words of up to MaxWord bytes over two bytes, and two words with a char of
   two bytes; every table over four merges, with equal ranks and with merges
   whose parts cannot be merged themselves. *)
EXTENDS BpeEncode

CONSTANTS MaxWord, Keys

Bytes == {1, 2}

\* The text of a sequence of chars, each the sequence of its bytes.
TextOf(chars) ==
    [bytes |-> FlattenSeq(chars),
     chars |-> [x \in DOMAIN chars |->
                  [start |-> Len(FlattenSeq(SubSeq(chars, 1, x - 1))), len |-> Len(chars[x])]]]

MCTexts ==
    { TextOf([x \in DOMAIN w |-> <<w[x]>>]) : w \in BoundedSeq(Bytes, MaxWord) }
    \cup { TextOf(<< <<1, 2>>, <<1>>, <<2>> >>), TextOf(<< <<1>>, <<1, 2>>, <<1>> >>) }

MCKeys == { <<1, 1>>, <<1, 2>>, <<2, 1>>, <<1, 2, 1>> }

MCTables == UNION { [K -> 0 .. MaxRank - 1] : K \in SUBSET Keys }

\* Every merged piece has a token but one byte has none; or both bytes have
\* one but a piece of two bytes, which is also a char, falls back to bytes.
MCVocabularies ==
    { MCKeys \cup { <<1>> }, (MCKeys \ { <<1, 2>> }) \cup { <<1>>, <<2>> } }
=============================================================================
