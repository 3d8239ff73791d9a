------------------------------- MODULE BkTree -------------------------------
(***************************************************************************)
(* The Burkhard-Keller tree of stringcheese-index (src/bk_tree.rs).        *)
(*                                                                         *)
(* A node is addressed by the keys on the path to it, so the tree is a     *)
(* function from addresses to what is stored there: a position in          *)
(* `stored`, which tells two copies of a text apart.  The recursions of    *)
(* insert_into and find_within_at walk one node per step; `at` is where    *)
(* the walk is, and the frames of the callers are the prefixes of `at`.    *)
(***************************************************************************)
EXTENDS Metric, Sequences

VARIABLES
    stored,            \* history: the items inserted, oldest first
    tree,              \* address |-> position in stored
    call,              \* the running call and its arguments
    at,                \* the node the call is at
    done,              \* the key of the last child find_within_at tried at it
    found,             \* find_within's out, as positions in stored
    reply              \* the last call's answer

vars == <<stored, tree, call, at, done, found, reply>>

Idle    == [op |-> "idle"]
NoReply == [op |-> "none"]
NoKey   == -1

Init ==
    /\ stored = << >> /\ tree = << >>
    /\ call = Idle /\ at = << >> /\ done = NoKey /\ found = {}
    /\ reply = NoReply

Root == << >>

\* The distance from a node's item to the text of the running call.
Here(a) == Dist(stored[tree[a]], call.text)

-----------------------------------------------------------------------------
(* insert *)

InsertRoot(x) ==
    /\ call = Idle /\ stored = << >> /\ MaxStored > 0
    /\ stored' = <<x>>
    /\ tree' = [a \in {Root} |-> 1]
    /\ reply' = NoReply
    /\ UNCHANGED <<call, at, done, found>>

BeginInsert(x) ==
    /\ call = Idle /\ stored # << >> /\ Len(stored) < MaxStored
    /\ call' = [op |-> "insert", text |-> x]
    /\ reply' = NoReply
    /\ UNCHANGED <<stored, tree, at, done, found>>

\* The child the item belongs under.
Slot == Append(at, Here(at))

Descend ==
    /\ call.op = "insert" /\ Slot \in DOMAIN tree
    /\ at' = Slot
    /\ UNCHANGED <<stored, tree, call, done, found, reply>>

Attach ==
    /\ call.op = "insert" /\ Slot \notin DOMAIN tree
    /\ stored' = Append(stored, call.text)
    /\ tree' = [a \in DOMAIN tree \cup {Slot} |->
                  IF a = Slot THEN Len(stored) + 1 ELSE tree[a]]
    /\ call' = Idle /\ at' = Root
    /\ UNCHANGED <<done, found, reply>>

-----------------------------------------------------------------------------
(* find_within *)

FindInEmpty(q, r) ==
    /\ call = Idle /\ stored = << >>
    /\ reply' = [op |-> "within", text |-> q, bound |-> r, found |-> {}]
    /\ UNCHANGED <<stored, tree, call, at, done, found>>

BeginFind(q, r) ==
    /\ call = Idle /\ stored # << >>
    /\ call' = [op |-> "within", text |-> q, bound |-> r]
    /\ found' = IF Dist(stored[tree[Root]], q) <= r THEN {tree[Root]} ELSE {}
    /\ reply' = NoReply
    /\ UNCHANGED <<stored, tree, at, done>>

\* The children of the node that the loop has not tried, and the next of them.
Remaining ==
    { c \in DOMAIN tree :
        /\ Len(c) = Len(at) + 1
        /\ \A n \in 1 .. Len(at) : c[n] = at[n]
        /\ c[Len(c)] > done }

IsNext(c) == c \in Remaining /\ \A o \in Remaining : c[Len(c)] <= o[Len(o)]

\* Mutant: a child at exactly the radius is pruned.
ReachesStrictly(key) ==
    /\ Here(at) < Plus(key, call.bound)
    /\ key <= Plus(Here(at), call.bound)

\* The pruning test: |d - key| <= radius, without subtraction.
Reaches(key) ==
    /\ Here(at) <= Plus(key, call.bound)
    /\ key <= Plus(Here(at), call.bound)

Enter(c) ==
    /\ call.op = "within" /\ IsNext(c) /\ Reaches(c[Len(c)])
    /\ at' = c /\ done' = NoKey
    /\ found' = IF Here(c) <= call.bound THEN found \cup {tree[c]} ELSE found
    /\ UNCHANGED <<stored, tree, call, reply>>

Prune(c) ==
    /\ call.op = "within" /\ IsNext(c) /\ ~Reaches(c[Len(c)])
    /\ done' = c[Len(c)]
    /\ UNCHANGED <<stored, tree, call, at, found, reply>>

\* The loop over the children ends and the caller's goes on.
Leave ==
    /\ call.op = "within" /\ Remaining = {} /\ at # Root
    /\ at' = SubSeq(at, 1, Len(at) - 1)
    /\ done' = at[Len(at)]
    /\ UNCHANGED <<stored, tree, call, found, reply>>

Return ==
    /\ call.op = "within" /\ Remaining = {} /\ at = Root
    /\ reply' = [op |-> "within", text |-> call.text, bound |-> call.bound, found |-> found]
    /\ call' = Idle /\ done' = NoKey /\ found' = {}
    /\ UNCHANGED <<stored, tree, at>>

-----------------------------------------------------------------------------
Insert(x) == InsertRoot(x) \/ BeginInsert(x)
Find(q, r) == FindInEmpty(q, r) \/ BeginFind(q, r)
Step == Descend \/ Attach \/ (\E c \in DOMAIN tree : Enter(c) \/ Prune(c)) \/ Leave \/ Return

Next ==
    \/ \E x \in Items : Insert(x)
    \/ \E q \in Queries, r \in Radii : Find(q, r)
    \/ Step

Spec == Init /\ [][Next]_vars

-----------------------------------------------------------------------------
(* Properties *)

\* Type invariant: the tree holds each stored item once, and `at` is a node.
TypeOK ==
    /\ stored \in Seq(Text)
    /\ DOMAIN tree \subseteq Seq(Nat)
    /\ \A a \in DOMAIN tree : tree[a] \in DOMAIN stored
    /\ \A e \in DOMAIN stored : \E a \in DOMAIN tree : tree[a] = e
    /\ \A a, b \in DOMAIN tree : tree[a] = tree[b] => a = b
    /\ stored # << >> => at \in DOMAIN tree
    /\ done \in Nat \cup {NoKey}
    /\ found \subseteq DOMAIN stored

\* The keys of an address are the distances the pruning relies on: every item
\* below a child, however deep, is at exactly the child's key from the node.
LabelsAreDistances ==
    \A a, b \in DOMAIN tree :
        Len(a) < Len(b) /\ (\A n \in 1 .. Len(a) : b[n] = a[n])
            => Dist(stored[tree[a]], stored[tree[b]]) = b[Len(a) + 1]

\* find_within answers as a linear scan does, for every tree insert can build.
Index == INSTANCE MetricIndex
BkImplementsIndex == Index!Spec
=============================================================================
