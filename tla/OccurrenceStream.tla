-------------------------- MODULE OccurrenceStream --------------------------
(***************************************************************************)
(* What every SearchStream of stringcheese-compare promises, whatever      *)
(* automaton or hash it runs inside (search/stream.rs, trait SearchStream, *)
(* and the empty-pattern policy of search/api.rs):                         *)
(*                                                                         *)
(*   - each byte fed is answered with the matches that end at that byte,   *)
(*     all of them and no other, placed in the coordinates of the whole    *)
(*     stream;                                                             *)
(*   - an empty pattern matches once, at position 0, and the first call of *)
(*     feed_slice is what says so.                                         *)
(*                                                                         *)
(* The detailed modules (KmpSearch, RabinKarpStream, AhoCorasick) are      *)
(* shown to implement this one.                                            *)
(***************************************************************************)
EXTENDS Integers, Sequences

CONSTANT Byte          \* the alphabet

VARIABLES
    patterns,          \* the patterns the stream was prepared with
    fed,               \* every byte answered so far, oldest first
    answers,           \* answers[n]: the matches reported for byte n
    initial,           \* feed_slice has not been called yet
    empties            \* the empty-pattern matches reported so far

vars == <<patterns, fed, answers, initial, empties>>

(***************************************************************************)
(* A match is <<position, pattern_index>>, both counted from 0.            *)
(***************************************************************************)
Match(position, p) == <<position, p - 1>>

\* Pattern p occurs in text as the Len(p) bytes after the first `position`.
Occurs(p, text, position) ==
    \A x \in 1 .. Len(p) : text[position + x] = p[x]

\* The matches of the non-empty patterns ps that end where text ends.
EndingAt(ps, text) ==
    { Match(Len(text) - Len(ps[p]), p) :
        p \in { q \in DOMAIN ps :
                  /\ 0 < Len(ps[q]) /\ Len(ps[q]) <= Len(text)
                  /\ Occurs(ps[q], text, Len(text) - Len(ps[q])) } }

EmptyMatches(ps) == { Match(0, p) : p \in { q \in DOMAIN ps : Len(ps[q]) = 0 } }

Init ==
    /\ patterns \in Seq(Seq(Byte))
    /\ fed = << >> /\ answers = << >>
    /\ initial = TRUE /\ empties = {}

FirstSlice ==
    /\ initial
    /\ initial' = FALSE
    /\ empties' = EmptyMatches(patterns)
    /\ UNCHANGED <<patterns, fed, answers>>

FeedByte(b) ==
    /\ fed' = Append(fed, b)
    /\ answers' = Append(answers, EndingAt(patterns, fed'))
    /\ UNCHANGED <<patterns, initial, empties>>

Next == FirstSlice \/ \E b \in Byte : FeedByte(b)

Spec == Init /\ [][Next]_vars
=============================================================================
