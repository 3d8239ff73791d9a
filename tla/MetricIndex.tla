---------------------------- MODULE MetricIndex ----------------------------
(***************************************************************************)
(* What an index of stringcheese-index promises, whatever tree it keeps:   *)
(* it answers as a linear scan over the stored items would (lib.rs, and    *)
(* the docs of find_within and find_k_nearest).                            *)
(*                                                                         *)
(* An item stored twice is stored as two entries, so an answer is a set of *)
(* positions in `stored`, not of texts.  find_within leaves its order      *)
(* open; find_k_nearest sorts what is described here.                      *)
(***************************************************************************)
EXTENDS Integers, Sequences, FiniteSets

CONSTANTS
    Text,              \* what is stored and asked for
    Distance           \* the wrapped metric, a function of two texts

VARIABLES
    stored,            \* the items, in the order they were given
    reply              \* the last call's answer; NoReply while one runs

vars == <<stored, reply>>

NoReply == [op |-> "none"]

Entries    == DOMAIN stored
Away(e, q) == Distance[stored[e], q]

\* The answer of a scan for the entries within a radius.
Within(q, radius) == { e \in Entries : Away(e, q) <= radius }

\* F holds k entries, or all of them, and none outside is nearer.
IsNearest(F, q, k) ==
    /\ F \subseteq Entries
    /\ Cardinality(F) = (IF k <= Len(stored) THEN k ELSE Len(stored))
    /\ \A e \in F, other \in Entries \ F : Away(e, q) <= Away(other, q)

IsAnswer(r) ==
    \/ r.op = "within"  /\ r.found = Within(r.text, r.bound)
    \/ r.op = "nearest" /\ IsNearest(r.found, r.text, r.bound)

Init == stored \in Seq(Text) /\ reply = NoReply

Insert(x) == stored' = Append(stored, x) /\ reply' = NoReply

Call == reply' = NoReply /\ UNCHANGED stored

Return == IsAnswer(reply') /\ UNCHANGED stored

Next == Call \/ Return \/ \E x \in Text : Insert(x)

Spec == Init /\ [][Next]_vars
=============================================================================
