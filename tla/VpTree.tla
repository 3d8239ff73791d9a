------------------------------- MODULE VpTree -------------------------------
(***************************************************************************)
(* The vantage-point tree of stringcheese-index (src/vp_tree.rs): bulk     *)
(* construction, insertion, range search and k-nearest search.             *)
(*                                                                         *)
(* A node is addressed by the sides taken on the path to it.  `vantage`    *)
(* maps an address to a position in `stored`, which tells two copies of a  *)
(* text apart.  The recursions walk one node per step; `at` is where the   *)
(* walk is and its prefixes are the frames of the callers.  The heap of a  *)
(* k-nearest search is the set `found`, whose farthest members are its top.*)
(***************************************************************************)
EXTENDS Metric, Sequences, FiniteSets, PowersOfTwo

CONSTANTS
    Corpora,           \* the corpora a tree is built from, at least << >>
    Ks                 \* the counts asked for

ASSUME VpAssumption == Corpora \subseteq Seq(Text) /\ Ks \subseteq Nat

VARIABLES
    stored,            \* history: the items, oldest first
    vantage,           \* address |-> position in stored
    threshold,         \* address |-> the split at the node, or NoThreshold
    work,              \* build_bulk's recursion: the subtrees still to build
    call,              \* the running call and its arguments
    at,                \* the node the call is at
    stage,             \* how far a search is with that node
    found,             \* a search's result so far, as positions in stored
    reply              \* the last call's answer

tree == <<vantage, threshold>>
vars == <<stored, tree, work, call, at, stage, found, reply>>

Idle        == [op |-> "idle"]
NoReply     == [op |-> "none"]
NoThreshold == -1
Root        == << >>
Side        == {"inside", "outside"}
Strategy    == {"FirstItem", "Random", "FarthestFromParent"}

\* The stages of a search at a node: its item, its two subtrees, the return.
Visiting == 0
First    == 1
Second   == 2
Over     == 3

Between(e, f) == Dist(stored[e], stored[f])

\* The distance from an entry, or a node's item, to the text of the call.
Away(e) == Dist(stored[e], call.text)
Here(a) == Away(vantage[a])

Parent(a) == SubSeq(a, 1, Len(a) - 1)

\* new() when the corpus is empty, from_corpus_with_strategy otherwise.
Init ==
    /\ stored \in Corpora
    /\ \E s \in Strategy :
          call = IF stored = << >> THEN Idle ELSE [op |-> "build", strategy |-> s]
    /\ work = IF stored = << >> THEN << >>
              ELSE <<[at |-> Root, entries |-> DOMAIN stored]>>
    /\ vantage = << >> /\ threshold = << >>
    /\ at = Root /\ stage = Visiting /\ found = {} /\ reply = NoReply

-----------------------------------------------------------------------------
(* from_corpus_with_strategy *)

\* Below the root the items come in whatever order select_nth_unstable left.
MayBeVantage(w, v) ==
    /\ v \in w.entries
    /\ w.at = Root /\ call.strategy # "Random" => v = 1
    /\ w.at # Root /\ call.strategy = "FarthestFromParent" =>
          \A e \in w.entries :
             Between(vantage[Parent(w.at)], e) <= Between(vantage[Parent(w.at)], v)

\* Mutant: partition by the median distance, ties and all.
IsSplitByDistance(v, inside, outside) ==
    LET rest == inside \cup outside
        Nearer(o) == { e \in rest : Between(v, e) < Between(v, o) }
    IN  rest # {} =>
        \E m \in rest :
          /\ Cardinality(Nearer(m)) <= Cardinality(rest) \div 2
          /\ Cardinality({ e \in rest : Between(v, e) <= Between(v, m) })
                > Cardinality(rest) \div 2
          /\ inside = { e \in rest : Between(v, e) <= Between(v, m) }

\* The split is by position: ties at the median may fall on either side.
IsSplit(v, inside, outside) ==
    /\ Cardinality(inside) = Cardinality(inside \cup outside) \div 2
    /\ \A i \in inside, o \in outside : Between(v, i) <= Between(v, o)

\* The smallest distance of the outside part; a single item goes outside.
IsThreshold(v, outside, t) ==
    IF outside = {} THEN t = NoThreshold
    ELSE /\ \E o \in outside : Between(v, o) = t
         /\ \A o \in outside : t <= Between(v, o)

Subtree(a, side, entries) ==
    IF entries = {} THEN << >> ELSE <<[at |-> Append(a, side), entries |-> entries]>>

\* One call of build_bulk; the two it makes are the next of `work`.
BuildNode(v, inside, t) ==
    LET w       == Head(work)
        outside == w.entries \ ({v} \cup inside)
    IN  /\ call.op = "build" /\ work # << >>
        /\ MayBeVantage(w, v)
        /\ inside \subseteq w.entries \ {v}
        /\ IsSplit(v, inside, outside)
        /\ IsThreshold(v, outside, t)
        /\ vantage'   = [a \in DOMAIN vantage \cup {w.at} |-> IF a = w.at THEN v ELSE vantage[a]]
        /\ threshold' = [a \in DOMAIN vantage \cup {w.at} |-> IF a = w.at THEN t ELSE threshold[a]]
        /\ work' = Subtree(w.at, "inside", inside) \o Subtree(w.at, "outside", outside) \o Tail(work)
        /\ UNCHANGED <<stored, call, at, stage, found, reply>>

Built ==
    /\ call.op = "build" /\ work = << >>
    /\ call' = Idle
    /\ UNCHANGED <<stored, tree, work, at, stage, found, reply>>

-----------------------------------------------------------------------------
(* insert *)

InsertRoot(x) ==
    /\ call = Idle /\ stored = << >> /\ MaxStored > 0
    /\ stored' = <<x>>
    /\ vantage' = [a \in {Root} |-> 1] /\ threshold' = [a \in {Root} |-> NoThreshold]
    /\ reply' = NoReply
    /\ UNCHANGED <<work, call, at, stage, found>>

BeginInsert(x) ==
    /\ call = Idle /\ stored # << >> /\ Len(stored) < MaxStored
    /\ call' = [op |-> "insert", text |-> x]
    /\ reply' = NoReply
    /\ UNCHANGED <<stored, tree, work, at, stage, found>>

\* The child the item belongs under; a node's first child sets its threshold.
Slot ==
    Append(at, IF threshold[at] = NoThreshold \/ Here(at) <= threshold[at]
               THEN "inside" ELSE "outside")

Descend ==
    /\ call.op = "insert" /\ Slot \in DOMAIN vantage
    /\ at' = Slot
    /\ UNCHANGED <<stored, tree, work, call, stage, found, reply>>

Attach ==
    /\ call.op = "insert" /\ Slot \notin DOMAIN vantage
    /\ stored' = Append(stored, call.text)
    /\ vantage' = [a \in DOMAIN vantage \cup {Slot} |->
                     IF a = Slot THEN Len(stored) + 1 ELSE vantage[a]]
    /\ threshold' = [a \in DOMAIN vantage \cup {Slot} |->
                       CASE a = Slot -> NoThreshold
                         [] a = at /\ threshold[at] = NoThreshold -> Here(at)
                         [] OTHER -> threshold[a]]
    /\ call' = Idle /\ at' = Root
    /\ UNCHANGED <<work, stage, found, reply>>

-----------------------------------------------------------------------------
(* find_within and find_k_nearest *)

Searching == call.op \in {"within", "nearest"}

Answer(op, q, bound, F) == [op |-> op, text |-> q, bound |-> bound, found |-> F]

\* An empty tree, or the early return for k = 0.
FindNothing(op, q, bound) ==
    /\ call = Idle
    /\ stored = << >> \/ (op = "nearest" /\ bound = 0)
    /\ reply' = Answer(op, q, bound, {})
    /\ UNCHANGED <<stored, tree, work, call, at, stage, found>>

BeginFind(op, q, bound) ==
    /\ call = Idle /\ stored # << >>
    /\ ~(op = "nearest" /\ bound = 0)
    /\ call' = [op |-> op, text |-> q, bound |-> bound]
    /\ reply' = NoReply
    /\ UNCHANGED <<stored, tree, work, at, stage, found>>

Farthest == { w \in found : \A f \in found : Away(f) <= Away(w) }

\* admit_candidate: a full heap takes an entry only if it is strictly nearer
\* than the top; which of the farthest is the top is up to the heap.
Admitted(e) ==
    IF Cardinality(found) < call.bound THEN {found \cup {e}}
    ELSE { IF Away(e) < Away(w) THEN (found \ {w}) \cup {e} ELSE found : w \in Farthest }

Visit ==
    /\ Searching /\ stage = Visiting
    /\ IF call.op = "nearest" THEN found' \in Admitted(vantage[at])
       ELSE found' = IF Here(at) <= call.bound THEN found \cup {vantage[at]} ELSE found
    /\ stage' = First
    /\ UNCHANGED <<stored, tree, work, call, at, reply>>

\* The subtree a stage turns to: k-nearest takes the closer one first.
SideOf(a, s) ==
    IF call.op = "nearest" /\ Here(a) > threshold[a]
    THEN IF s = First THEN "outside" ELSE "inside"
    ELSE IF s = First THEN "inside" ELSE "outside"

\* Mutant: the outside subtree is left out at exactly the radius.
MayHoldStrictly(side, r) ==
    IF side = "inside" THEN Here(at) <= Plus(threshold[at], r)
    ELSE Plus(Here(at), r) > threshold[at]

\* The pruning tests of find_within_at and child_may_contain_better.
MayHold(side, r) ==
    IF side = "inside" THEN Here(at) <= Plus(threshold[at], r)
    ELSE Plus(Here(at), r) >= threshold[at]

\* The radius is the caller's, or the top of a full heap, read when the
\* subtree's turn comes.
IsPromising(side) ==
    IF call.op = "within" THEN MayHold(side, call.bound)
    ELSE \/ Cardinality(found) < call.bound
         \/ \E w \in Farthest : MayHold(side, Away(w))

Child == Append(at, SideOf(at, stage))

Enter ==
    /\ Searching /\ stage \in {First, Second}
    /\ Child \in DOMAIN vantage /\ IsPromising(SideOf(at, stage))
    /\ at' = Child /\ stage' = Visiting
    /\ UNCHANGED <<stored, tree, work, call, found, reply>>

Pass ==
    /\ Searching /\ stage \in {First, Second}
    /\ ~(Child \in DOMAIN vantage /\ IsPromising(SideOf(at, stage)))
    /\ stage' = stage + 1
    /\ UNCHANGED <<stored, tree, work, call, at, found, reply>>

\* Mutant: the parent's call goes on with the subtree it has just searched.
LeaveToFirst ==
    /\ Searching /\ stage = Over /\ at # Root
    /\ at' = Parent(at)
    /\ stage' = First
    /\ UNCHANGED <<stored, tree, work, call, found, reply>>

\* The call returns to the one for the parent, which goes on behind it.
Leave ==
    /\ Searching /\ stage = Over /\ at # Root
    /\ at' = Parent(at)
    /\ stage' = IF SideOf(Parent(at), First) = at[Len(at)] THEN Second ELSE Over
    /\ UNCHANGED <<stored, tree, work, call, found, reply>>

Return ==
    /\ Searching /\ stage = Over /\ at = Root
    /\ reply' = Answer(call.op, call.text, call.bound, found)
    /\ call' = Idle /\ stage' = Visiting /\ found' = {}
    /\ UNCHANGED <<stored, tree, work, at>>

-----------------------------------------------------------------------------
Insert(x) == InsertRoot(x) \/ BeginInsert(x)

Find(op, q, bound) == FindNothing(op, q, bound) \/ BeginFind(op, q, bound)

Build ==
    /\ call.op = "build" /\ work # << >>
    /\ \E v \in DOMAIN stored, inside \in SUBSET Head(work).entries :
          \E t \in {NoThreshold} \cup { Between(v, e) : e \in DOMAIN stored } :
             BuildNode(v, inside, t)

Search == Visit \/ Enter \/ Pass \/ Leave \/ Return

Step == Build \/ Built \/ Descend \/ Attach \/ Search

Next ==
    \/ \E x \in Items : Insert(x)
    \/ \E q \in Queries, r \in Radii : Find("within", q, r)
    \/ \E q \in Queries, k \in Ks : Find("nearest", q, k)
    \/ Step

Spec == Init /\ [][Next]_vars

-----------------------------------------------------------------------------
(* Properties *)

IsBelow(b, a) == Len(a) < Len(b) /\ \A n \in 1 .. Len(a) : b[n] = a[n]

\* Type invariant: the tree and the subtrees still to build hold each stored
\* item once, and `at` is a node.
TypeOK ==
    /\ stored \in Seq(Text)
    /\ DOMAIN vantage \subseteq Seq(Side) /\ DOMAIN threshold = DOMAIN vantage
    /\ \A a \in DOMAIN vantage : vantage[a] \in DOMAIN stored
    /\ \A a \in DOMAIN threshold : threshold[a] \in Nat \cup {NoThreshold}
    /\ \A a, b \in DOMAIN vantage : vantage[a] = vantage[b] => a = b
    /\ \A e \in DOMAIN stored :
          \/ \E a \in DOMAIN vantage : vantage[a] = e
          \/ \E i \in DOMAIN work : e \in work[i].entries
    /\ stored # << >> /\ call.op # "build" => at \in DOMAIN vantage
    /\ stage \in Visiting .. Over
    /\ found \subseteq DOMAIN stored

\* A node's threshold separates the items below it, whether they came by the
\* bulk build, which lets ties fall on either side, or by insert, which sends
\* them inside: the pruning bounds of both searches rest on this.
ThresholdsSeparate ==
    \A a, b \in DOMAIN vantage :
        IsBelow(b, a) =>
            IF b[Len(a) + 1] = "inside"
            THEN Between(vantage[a], vantage[b]) <= threshold[a]
            ELSE Between(vantage[a], vantage[b]) >= threshold[a]

\* A bulk build halves at every node, whatever ties there are, so a tree of n
\* items is at most log2(n) + 1 nodes deep: max_depth in the tests.
BulkIsBalanced ==
    call.op = "build" =>
        \A a \in DOMAIN vantage : TwoTo[Len(a)] <= Len(stored)

\* find_within and find_k_nearest answer as a linear scan does, for every
\* tree the bulk build and insert can leave.
Index == INSTANCE MetricIndex
VpImplementsIndex == Index!Spec
=============================================================================
