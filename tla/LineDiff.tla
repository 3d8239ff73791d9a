------------------------------ MODULE LineDiff ------------------------------
(***************************************************************************)
(* The diff algorithms of stringcheese-diff (src/algo.rs) on sequences of  *)
(* lines: Myers' greedy search with its trace and the walk back, and the   *)
(* patience diff, which keeps a longest chain of unique common lines and   *)
(* gives the regions between them to Myers.                                *)
(*                                                                         *)
(* A step is one diagonal of one round of build_myers_trace, or one        *)
(* snapshot of backtrack_myers.  A region's lines are counted from its     *)
(* first, as the slices the code passes are.                               *)
(***************************************************************************)
EXTENDS EditScript, Integers, FiniteSets, SequencesExt

CONSTANTS
    Lines,             \* what a line can hold
    Inputs             \* the pairs <<old, new>> of texts, as lines

ASSUME DiffAssumption == Inputs \subseteq Seq(Lines) \X Seq(Lines)

VARIABLES
    old, new,          \* the texts
    algorithm,         \* "myers" or "patience"
    chain,             \* anchor_pairs: positions in old and new, ascending
    next,              \* the region at work: the one before chain[next]
    phase,             \* of myers_diff on that region
    v, d, k,           \* build_myers_trace's array, round and diagonal
    snapshots,         \* v after each round; backtrack drops the last
    x, y,              \* where backtrack is
    edits,             \* backtrack's script of the region, the front missing
    script             \* the script of the regions before

diffVars == <<old, new, algorithm, chain, next, phase, v, d, k, snapshots, x, y, edits, script>>

-----------------------------------------------------------------------------
(* patience_diff_hashed *)

Once(s, i) == \A j \in DOMAIN s : s[j] = s[i] => j = i

\* Where the i-th line of s is in t, if it occurs once on both sides.
Mates(s, t, i) == { j \in DOMAIN t : t[j] = s[i] /\ Once(s, i) /\ Once(t, j) }

\* The lines that occur once on both sides, in the order of s.
Anchors(s, t) ==
    LET found[i \in 0 .. Len(s)] ==
          IF i = 0 THEN << >>
          ELSE IF Mates(s, t, i) = {} THEN found[i - 1]
          ELSE Append(found[i - 1], <<i, CHOOSE j \in Mates(s, t, i) : TRUE>>)
    IN  found[Len(s)]

Precedes(s, anchors, i) ==
    { t \in DOMAIN s.tails : anchors[s.tails[t]][2] < anchors[i][2] }

\* Mutant: a tail once set is never improved.
PlaceGreedily(s, anchors, i) ==
    LET pos == Cardinality(Precedes(s, anchors, i))
    IN  [tails |-> IF pos = Len(s.tails) THEN Append(s.tails, i) ELSE s.tails,
         prev  |-> Append(s.prev, IF pos = 0 THEN 0 ELSE s.tails[pos])]

\* tails[n] ends the best chain of n anchors so far, prev links the chains.
Place(s, anchors, i) ==
    LET pos == Cardinality(Precedes(s, anchors, i))
    IN  [tails |-> IF pos = Len(s.tails) THEN Append(s.tails, i)
                   ELSE [s.tails EXCEPT ![pos + 1] = i],
         prev  |-> Append(s.prev, IF pos = 0 THEN 0 ELSE s.tails[pos])]

Placed(anchors) ==
    LET placed[i \in 0 .. Len(anchors)] ==
          IF i = 0 THEN [tails |-> << >>, prev |-> << >>]
          ELSE Place(placed[i - 1], anchors, i)
    IN  placed[Len(anchors)]

longest_increasing_subsequence(anchors) ==
    LET ending[i \in 0 .. Len(anchors)] ==
          IF i = 0 THEN << >> ELSE Append(ending[Placed(anchors).prev[i]], anchors[i])
    IN  IF anchors = << >> THEN << >> ELSE ending[Last(Placed(anchors).tails)]

DiffInit ==
    /\ \E input \in Inputs : old = input[1] /\ new = input[2]
    /\ algorithm \in {"myers", "patience"}
    /\ chain = (IF algorithm = "patience" THEN longest_increasing_subsequence(Anchors(old, new)) ELSE << >>)
    /\ next = 1 /\ phase = "region" /\ script = << >>
    /\ v = << >> /\ d = 0 /\ k = 0 /\ snapshots = << >> /\ x = 0 /\ y = 0 /\ edits = << >>

\* The region before anchor i, or behind the last.
Region(text, side, i) ==
    SubSeq(text,
           IF i = 1 THEN 1 ELSE chain[i - 1][side] + 1,
           IF i > Len(chain) THEN Len(text) ELSE chain[i][side] - 1)

Old == Region(old, 1, next)
New == Region(new, 2, next)
n == Len(Old)
m == Len(New)

\* The region's script is appended, and the anchor behind it kept.
EndRegion(part) ==
    /\ script' = script \o part \o
                 (IF next > Len(chain) THEN << >> ELSE <<Keep(old[chain[next][1]])>>)
    /\ next' = next + 1 /\ phase' = "region"

InRegion == phase = "region" /\ next <= Len(chain) + 1

Diffed == phase = "region" /\ next = Len(chain) + 2

-----------------------------------------------------------------------------
(* myers_diff *)

OneSided ==
    /\ InRegion /\ (n = 0 \/ m = 0)
    /\ EndRegion([i \in 1 .. m |-> Insert(New[i])] \o [i \in 1 .. n |-> Delete(Old[i])])
    /\ UNCHANGED <<old, new, algorithm, chain, v, d, k, snapshots, x, y, edits>>

StartTrace ==
    /\ InRegion /\ n > 0 /\ m > 0
    /\ v' = [i \in -(n + m) .. n + m |-> 0]
    /\ d' = 0 /\ k' = 0 /\ snapshots' = << >>
    /\ phase' = "forward"
    /\ UNCHANGED <<old, new, algorithm, chain, next, x, y, edits, script>>

\* The diagonal k is entered from k + 1 by a line of new, or from k - 1 by
\* one of old; trace and backtrack decide alike.
ComesDown(w, round, diagonal) ==
    \/ diagonal = -round
    \/ diagonal # round /\ w[diagonal - 1] < w[diagonal + 1]

\* Mutant: one equal line is taken where there may be more.
SlideOnce(a, b) == IF a < n /\ b < m /\ Old[a + 1] = New[b + 1] THEN 1 ELSE 0

\* How far equal lines lead from (a, b).
Slide(a, b) ==
    CHOOSE s \in 0 .. n :
        /\ \A i \in 1 .. s : a + i <= n /\ b + i <= m /\ Old[a + i] = New[b + i]
        /\ ~(a + s < n /\ b + s < m /\ Old[a + s + 1] = New[b + s + 1])

\* The farthest x on diagonal k after d changes.
Reached ==
    LET from == IF ComesDown(v, d, k) THEN v[k + 1] ELSE v[k - 1] + 1
    IN  from + Slide(from, from - k)

AtEnd == Reached >= n /\ Reached - k >= m

Forward ==
    /\ phase = "forward" /\ ~AtEnd
    /\ v' = [v EXCEPT ![k] = Reached]
    /\ IF k + 2 <= d
       THEN k' = k + 2 /\ UNCHANGED <<d, snapshots>>
       ELSE d' = d + 1 /\ k' = -(d + 1) /\ snapshots' = Append(snapshots, v')
    /\ UNCHANGED <<old, new, algorithm, chain, next, phase, x, y, edits, script>>

ReachEnd ==
    /\ phase = "forward" /\ AtEnd
    /\ snapshots' = Append(snapshots, [v EXCEPT ![k] = Reached])
    /\ x' = n /\ y' = m /\ edits' = << >>
    /\ phase' = "back"
    /\ UNCHANGED <<old, new, algorithm, chain, next, v, d, k, script>>

\* One snapshot: the equal lines behind the change, then the change.
Backtrack ==
    LET round    == Len(snapshots) - 1
        w        == Last(snapshots)
        diagonal == x - y
        px       == w[IF ComesDown(w, round, diagonal) THEN diagonal + 1 ELSE diagonal - 1]
        py       == px - (IF ComesDown(w, round, diagonal) THEN diagonal + 1 ELSE diagonal - 1)
        slid     == Max({ s \in 0 .. x : x - s >= px /\ y - s >= py })
        kept     == [i \in 1 .. slid |-> Keep(Old[x - slid + i])]
    IN  /\ phase = "back"
        /\ snapshots' = Front(snapshots)
        /\ \/ /\ round > 0 /\ x - slid = px
              /\ x' = x - slid /\ y' = y - slid - 1
              /\ edits' = <<Insert(New[y - slid])>> \o kept \o edits
              /\ UNCHANGED <<next, phase, script>>
           \/ /\ round > 0 /\ x - slid # px
              /\ x' = x - slid - 1 /\ y' = y - slid
              /\ edits' = <<Delete(Old[x - slid])>> \o kept \o edits
              /\ UNCHANGED <<next, phase, script>>
           \/ /\ round = 0
              /\ EndRegion(kept \o edits)
              /\ x' = 0 /\ y' = 0 /\ edits' = << >>
        /\ UNCHANGED <<old, new, algorithm, chain, v, d, k>>

DiffStep == OneSided \/ StartTrace \/ Forward \/ ReachEnd \/ Backtrack

-----------------------------------------------------------------------------
(* Properties *)

\* The length of a longest common subsequence of s and t.
CommonLength(s, t) ==
    LET common[c \in (0 .. Len(s)) \X (0 .. Len(t))] ==
          IF c[1] = 0 \/ c[2] = 0 THEN 0
          ELSE IF s[c[1]] = t[c[2]] THEN common[<<c[1] - 1, c[2] - 1>>] + 1
          ELSE Max({common[<<c[1] - 1, c[2]>>], common[<<c[1], c[2] - 1>>]})
    IN  common[<<Len(s), Len(t)>>]

\* Both algorithms lead from old to new, and Myers' with as few changes as
\* there can be: the walk back must retrace the choices of a search whose
\* array was overwritten round after round.
ScriptIsMinimal ==
    Diffed =>
        /\ OldSide(script) = old /\ NewSide(script) = new
        /\ algorithm = "myers" =>
              Len(Changes(script)) = Len(old) + Len(new) - 2 * CommonLength(old, new)

\* The patience diff keeps as many unique common lines as stand in the same
\* order on both sides.
AnchorsAreLongest ==
    algorithm = "patience" =>
        LET Ordered(C) == \A p, q \in C : p[1] < q[1] => p[2] < q[2]
        IN  /\ Ordered(Range(chain)) /\ IsInjective(chain)
            /\ \A C \in SUBSET Range(Anchors(old, new)) : Ordered(C) => Cardinality(C) <= Len(chain)
=============================================================================
