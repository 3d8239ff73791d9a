------------------------- MODULE SinglePatternSearch -------------------------
(***************************************************************************)
(* Two implementations of the trait SinglePatternSearch side by side, as   *)
(* the repository's property tests compare them: Knuth-Morris-Pratt and    *)
(* Rabin-Karp are prepared with the same pattern, and their streams are    *)
(* given the same bytes.  The KMP stream is this module's own; the         *)
(* Rabin-Karp stream follows it, a byte or a feed_slice behind.            *)
(***************************************************************************)
EXTENDS KmpSearch

CONSTANTS Base, Modulus      \* of the polynomial hash

VARIABLES
    hash, window, write_pos,
    rkBytesFed, rkInitial, rkFed, rkAnswers, rkEmpties

Rk == INSTANCE RabinKarpStream WITH
        bytes_fed <- rkBytesFed, initial <- rkInitial, fed <- rkFed,
        answers <- rkAnswers, empties <- rkEmpties

\* What Rabin-Karp asks of its base, its modulus and the bytes.
ASSUME SearchAssumption == Rk!RabinKarpAssumption

ownVars == <<hash, window, write_pos, rkBytesFed, rkInitial, rkFed, rkAnswers, rkEmpties>>
bothVars == <<vars, ownVars>>

BothInit == Init /\ Rk!Init

\* Both streams have answered the same bytes.
InStep == pc = "idle" /\ Len(rkFed) = Len(fed)

SliceBoth == InStep /\ FeedSlice /\ Rk!FeedSlice

FeedKmp == \E b \in Byte : InStep /\ Feed(b) /\ UNCHANGED ownVars

KmpStep == (Build \/ OnByte) /\ UNCHANGED ownVars

FeedRabinKarp ==
    /\ pc = "idle" /\ Len(rkFed) < Len(fed)
    /\ Rk!Feed(fed[Len(rkFed) + 1])
    /\ UNCHANGED vars

BothNext == SliceBoth \/ FeedKmp \/ KmpStep \/ FeedRabinKarp

BothSpec == BothInit /\ [][BothNext]_bothVars

-----------------------------------------------------------------------------
(* Properties *)

\* RabinKarpStream: the rolled hash and the ring are those of the last bytes.
RkWindowIsLastBytes == Rk!WindowIsLastBytes

\* The Rabin-Karp stream reports the occurrences of its pattern and only them.
RkImplementsOccurrences == Rk!ImplementsOccurrences

\* property_tests.rs, "the star property": on every input the algorithms agree.
\* The batch searches find the same positions, in the same order where KMP lists
\* them, and the streams give the same answers to the same bytes.
AlgorithmsAgree ==
    InStep =>
      LET found == FindAll(fed) IN
        /\ { found[x] : x \in DOMAIN found } = Rk!FindAll(fed)
        /\ rkAnswers = answers /\ rkEmpties = empties
=============================================================================
