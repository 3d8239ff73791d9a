------------------------- MODULE MetricTrees_proofs -------------------------
(***************************************************************************)
(* The two trees answer as a linear scan does, for every metric, every     *)
(* corpus and every sequence of insertions, radii and counts; and so does  *)
(* the pair of them side by side.                                          *)
(*                                                                         *)
(* The VP-tree is built right when the thresholds separate what is below a *)
(* node, which each build step and insertion preserves because the entries *)
(* still to place are already on the right side of every node above them.  *)
(* Its depth is bounded because a build step halves what is left to place. *)
(* A search is right when `found` is right about the nodes whose fate is   *)
(* settled: the visited ones and the pruned ones.                          *)
(*                                                                         *)
(* The BK-tree's recursion visits the addresses in lexicographic order, so *)
(* at any moment an address is settled or still to come.  The invariant    *)
(* says that `found` is right about the settled ones; when the call        *)
(* returns, all are.                                                       *)
(*                                                                         *)
(* The calls that the one caller makes of the pair, and the steps that the *)
(* other tree takes in between, are steps of each tree alone or leave it   *)
(* as it is; so what is shown of each tree holds of the pair.              *)
(***************************************************************************)
EXTENDS MetricTrees, SequenceTheorems, FiniteSetTheorems, Foundations

-----------------------------------------------------------------------------
(* The VP-tree *)

Path == Seq(Side)

\* Every node above a node, or above a subtree to build, is there.
PrefixClosed ==
    \A p \in DOMAIN vantage, a \in Path : IsBelow(p, a) => a \in DOMAIN vantage

\* A threshold comes from two texts, and a node without one has nothing below.
ThresholdsAreDistances ==
    \A a \in DOMAIN vantage :
        threshold[a] # NoThreshold => \E x, y \in Text : threshold[a] = Dist(x, y)

LeavesHaveNoThreshold ==
    \A a, p \in DOMAIN vantage : IsBelow(p, a) => threshold[a] # NoThreshold

\* What a call keeps.
CallOK ==
    /\ \/ call = Idle
       \/ call \in [op : {"build"}, strategy : Strategy]
       \/ call \in [op : {"insert"}, text : Text]
       \/ call \in [op : {"within"}, text : Text, bound : Radii]
       \/ call \in [op : {"nearest"}, text : Text, bound : Ks \ {0}]
    /\ call # Idle => stored # << >> /\ reply = NoReply
    /\ call.op # "build" => work = << >>
    /\ ~Searching => stage = Visiting /\ found = {}
    /\ call.op \in {"idle", "build"} => at = Root
    /\ stored = << >> => DOMAIN vantage = {}

OnSide(side, d, t) == IF side = "inside" THEN d <= t ELSE d >= t

\* The entries of a subtree to build are on its side of every node above it.
SubtreeOK(w) ==
    /\ w = [at |-> w.at, entries |-> w.entries]
    /\ w.at \in Path \ DOMAIN vantage
    /\ w.entries # {} /\ w.entries \subseteq DOMAIN stored
    /\ \A e \in w.entries, a \in DOMAIN vantage : vantage[a] # e
    /\ \A a \in Path : IsBelow(w.at, a) =>
          /\ a \in DOMAIN vantage /\ threshold[a] # NoThreshold
          /\ \A e \in w.entries :
                OnSide(w.at[Len(a) + 1], Between(vantage[a], e), threshold[a])

\* Two subtrees to build share nothing.
Apart(x, y) == x.at # y.at /\ x.entries \cap y.entries = {}

WorkOK ==
    /\ work \in Seq([at : Path, entries : SUBSET (DOMAIN stored)])
    /\ \A i \in 1 .. Len(work) : SubtreeOK(work[i])
    /\ \A i, j \in 1 .. Len(work) :
          i # j => Apart(work[i], work[j])

\* insert's descent takes the text's side at every node it passes.
WalkOK ==
    call.op = "insert" =>
        \A a \in DOMAIN vantage :
            IsBelow(at, a) => OnSide(at[Len(a) + 1], Here(a), threshold[a])

\* With a search at stage g of node n, the nodes it has visited, and those it
\* has passed by: below a node above n whose first subtree is done, or below n.
Visited(p, n, g) == IsBelow(n, p) \/ (p = n /\ g # Visiting)
PassedAbove(p, n) ==
    \E a \in DOMAIN vantage :
        /\ IsBelow(p, a) /\ p[Len(a) + 1] = SideOf(a, First)
        /\ IsBelow(n, a) /\ n[Len(a) + 1] = SideOf(a, Second)
PassedHere(p, n, g) ==
    /\ IsBelow(p, n)
    /\ g = Over \/ (g = Second /\ p[Len(n) + 1] = SideOf(n, First))

Settled(p, n, g) == Visited(p, n, g) \/ PassedAbove(p, n) \/ PassedHere(p, n, g)

\* What a search may say of a settled node it does not report.
MayOmit(p) ==
    IF call.op = "within" THEN ~(Here(p) <= call.bound)
    ELSE Cardinality(found) = call.bound /\ \A f \in found : Away(f) <= Here(p)

FoundIsSettled ==
    Searching =>
        /\ \A e \in found : \E p \in DOMAIN vantage : vantage[p] = e /\ Settled(p, at, stage)
        /\ call.op = "within" => \A e \in found : Away(e) <= call.bound
        /\ call.op = "nearest" => Cardinality(found) <= call.bound
        /\ \A p \in DOMAIN vantage :
              Settled(p, at, stage) => vantage[p] \in found \/ MayOmit(p)

IInv ==
    /\ TypeOK
    /\ ThresholdsSeparate
    /\ PrefixClosed
    /\ ThresholdsAreDistances
    /\ LeavesHaveNoThreshold
    /\ CallOK
    /\ WorkOK
    /\ WalkOK
    /\ FoundIsSettled

-----------------------------------------------------------------------------
(* The metric *)

LEMMA DistanceIsNat == ASSUME NEW x \in Text, NEW y \in Text PROVE Dist(x, y) \in Nat
BY MetricAssumption, Zenon DEF Dist

LEMMA PlusIsSum ==
    ASSUME NEW x \in Nat, NEW y \in Nat, x + y < Modulus
    PROVE  Plus(x, y) = x + y
BY MetricAssumption DEF Plus

\* What the pruning test leaves out on a side of a threshold is farther away
\* than the radius it was asked with.
LEMMA PruningIsSound ==
    ASSUME NEW v \in Text, NEW y \in Text, NEW q \in Text, NEW t \in Nat, NEW r \in Nat,
           t + r < Modulus, Dist(v, q) + r < Modulus, NEW side \in Side,
           OnSide(side, Dist(v, y), t),
           ~(IF side = "inside" THEN Dist(v, q) <= Plus(t, r) ELSE Plus(Dist(v, q), r) >= t)
    PROVE  r < Dist(y, q)
<1>1. Dist(v, q) \in Nat /\ Dist(v, y) \in Nat /\ Dist(y, q) \in Nat
  BY DistanceIsNat
<1>2. Plus(t, r) = t + r /\ Plus(Dist(v, q), r) = Dist(v, q) + r
  BY <1>1, PlusIsSum
<1>3. Dist(v, q) <= Dist(v, y) + Dist(y, q)
  BY MetricAssumption
<1>4. Dist(v, y) <= Dist(v, q) + Dist(q, y) /\ Dist(q, y) = Dist(y, q)
  BY MetricAssumption
<1> QED
  BY <1>1, <1>2, <1>3, <1>4 DEF OnSide, Side

-----------------------------------------------------------------------------
(* Paths *)

LEMMA BelowIsPath ==
    ASSUME NEW p \in Path, NEW a \in Path, IsBelow(p, a)
    PROVE  Len(a) \in Nat /\ Len(p) \in Nat /\ Len(a) < Len(p) /\ p[Len(a) + 1] \in Side
<1>1. Len(a) \in Nat /\ Len(p) \in Nat /\ Len(a) < Len(p)
  BY DEF Path, IsBelow
<1>2. Len(a) + 1 \in 1 .. Len(p)
  BY <1>1
<1> QED
  BY <1>1, <1>2, ElementOfSeq DEF Path

LEMMA AppendIsPath ==
    ASSUME NEW a \in Path, NEW s \in Side
    PROVE  /\ Append(a, s) \in Path /\ Len(Append(a, s)) = Len(a) + 1
           /\ (\A n \in 1 .. Len(a) : Append(a, s)[n] = a[n]) /\ Append(a, s)[Len(a) + 1] = s
           /\ Len(a) \in Nat /\ IsBelow(Append(a, s), a)
<1>1. /\ Append(a, s) \in Path /\ Len(Append(a, s)) = Len(a) + 1 /\ Len(a) \in Nat
      /\ (\A n \in 1 .. Len(a) : Append(a, s)[n] = a[n]) /\ Append(a, s)[Len(a) + 1] = s
  BY AppendProperties DEF Path
<1> QED
  BY <1>1 DEF IsBelow

\* What is above a child is the node or above it, and the child's path agrees.
LEMMA AboveAppend ==
    ASSUME NEW a \in Path, NEW s \in Side, NEW c \in Path, IsBelow(Append(a, s), c)
    PROVE  \/ c = a
           \/ IsBelow(a, c) /\ Append(a, s)[Len(c) + 1] = a[Len(c) + 1]
<1>1. /\ Append(a, s) \in Path /\ Len(Append(a, s)) = Len(a) + 1 /\ Len(a) \in Nat
      /\ (\A n \in 1 .. Len(a) : Append(a, s)[n] = a[n])
  BY AppendIsPath
<1>2. Len(c) \in Nat /\ Len(c) < Len(a) + 1 /\ \A n \in 1 .. Len(c) : Append(a, s)[n] = c[n]
  BY <1>1 DEF IsBelow, Path
<1>3. \A n \in 1 .. Len(c) : c[n] = a[n]
  BY <1>1, <1>2
<1>4. CASE Len(c) = Len(a)
  BY <1>3, <1>4, SeqEqual DEF Path
<1>5. CASE Len(c) < Len(a)
  <2>1. Len(c) + 1 \in 1 .. Len(a)
    BY <1>1, <1>2, <1>5
  <2> QED
    BY <1>1, <1>3, <1>5, <2>1 DEF IsBelow
<1> QED
  BY <1>1, <1>2, <1>4, <1>5

LEMMA BelowAppend ==
    ASSUME NEW a \in Path, NEW s \in Side, NEW c \in Path, IsBelow(a, c)
    PROVE  IsBelow(Append(a, s), c) /\ Append(a, s)[Len(c) + 1] = a[Len(c) + 1]
<1>1. /\ Append(a, s) \in Path /\ Len(Append(a, s)) = Len(a) + 1 /\ Len(a) \in Nat
      /\ (\A n \in 1 .. Len(a) : Append(a, s)[n] = a[n])
  BY AppendIsPath
<1>2. Len(c) \in Nat /\ Len(c) < Len(a) /\ Len(c) + 1 \in 1 .. Len(a)
  BY <1>1 DEF IsBelow, Path
<1> QED
  BY <1>1, <1>2 DEF IsBelow

\* What is below a node is the child on its side, or below that.
LEMMA TowardChild ==
    ASSUME NEW a \in Path, NEW p \in Path, IsBelow(p, a)
    PROVE  p = Append(a, p[Len(a) + 1]) \/ IsBelow(p, Append(a, p[Len(a) + 1]))
<1>1. Len(a) \in Nat /\ Len(p) \in Nat /\ Len(a) < Len(p) /\ p[Len(a) + 1] \in Side
  BY BelowIsPath
<1> DEFINE c == Append(a, p[Len(a) + 1])
<1>2. /\ c \in Path /\ Len(c) = Len(a) + 1
      /\ (\A n \in 1 .. Len(a) : c[n] = a[n]) /\ c[Len(a) + 1] = p[Len(a) + 1]
  BY <1>1, AppendIsPath
<1> HIDE DEF c
<1>3. \A n \in 1 .. Len(c) : p[n] = c[n]
  BY <1>1, <1>2 DEF IsBelow
<1>4. CASE Len(p) = Len(c)
  BY <1>2, <1>3, <1>4, SeqEqual DEF c, Path
<1>5. CASE Len(c) < Len(p)
  BY <1>3, <1>5 DEF c, IsBelow
<1> QED
  BY <1>1, <1>2, <1>4, <1>5

LEMMA BelowIsTransitive ==
    ASSUME NEW p \in Path, NEW a \in Path, NEW c \in Path, IsBelow(p, a), IsBelow(a, c)
    PROVE  IsBelow(p, c) /\ p[Len(c) + 1] = a[Len(c) + 1]
<1>1. Len(p) \in Nat /\ Len(a) \in Nat /\ Len(c) \in Nat
  BY DEF Path
<1>2. Len(c) < Len(a) /\ Len(a) < Len(p) /\ Len(c) + 1 \in 1 .. Len(a)
  BY <1>1 DEF IsBelow
<1> QED
  BY <1>1, <1>2 DEF IsBelow

LEMMA PrefixOfSeq ==
    ASSUME NEW S, NEW s \in Seq(S), NEW k \in Nat, k <= Len(s)
    PROVE  /\ SubSeq(s, 1, k) \in Seq(S) /\ Len(SubSeq(s, 1, k)) = k
           /\ \A n \in 1 .. k : SubSeq(s, 1, k)[n] = s[n]
<1>1. \A n \in 1 .. k : s[n] \in S
  BY ElementOfSeq
<1>2. k - 1 + 1 = k /\ \A n \in 1 .. k : 1 + n - 1 = n
  OBVIOUS
<1> QED
  BY <1>1, <1>2, SubSeqProperties

LEMMA ParentIsAbove ==
    ASSUME NEW a \in Path, a # Root
    PROVE  /\ Parent(a) \in Path /\ a[Len(a)] \in Side /\ Len(Parent(a)) + 1 = Len(a)
           /\ a = Append(Parent(a), a[Len(a)]) /\ IsBelow(a, Parent(a))
<1>1. Len(a) \in Nat \ {0}
  BY EmptySeq DEF Path, Root
<1>2. Len(a) - 1 \in Nat /\ Len(a) - 1 <= Len(a)
  BY <1>1
<1>4. /\ Parent(a) \in Path /\ Len(Parent(a)) = Len(a) - 1
      /\ \A n \in 1 .. Len(a) - 1 : Parent(a)[n] = a[n]
  BY <1>2, PrefixOfSeq DEF Parent, Path
<1>5. a[Len(a)] \in Side
  BY <1>1, ElementOfSeq DEF Path
<1>6. IsBelow(a, Parent(a))
  BY <1>1, <1>4 DEF IsBelow
<1>7. Len(Parent(a)) + 1 = Len(a)
  BY <1>1, <1>4
<1>8. ~IsBelow(a, Append(Parent(a), a[Len(a)]))
  BY <1>1, <1>4, <1>5, <1>7, AppendIsPath DEF IsBelow
<1> QED
  BY <1>4, <1>5, <1>6, <1>7, <1>8, TowardChild

LEMMA RootIsAbove ==
    ASSUME NEW a \in Path
    PROVE  Root \in Path /\ (a = Root \/ IsBelow(a, Root)) /\ ~IsBelow(Root, a)
<1>1. Len(Root) = 0 /\ Root \in Path /\ Len(a) \in Nat
  BY EmptySeq DEF Root, Path
<1>2. a # Root => Len(a) # 0
  BY EmptySeq DEF Root, Path
<1> QED
  BY <1>1, <1>2 DEF IsBelow

-----------------------------------------------------------------------------
(* The initial states *)

LEMMA EntryIsText == ASSUME TypeOK, NEW e \in DOMAIN stored PROVE stored[e] \in Text
BY ElementOfSeq, LenProperties DEF TypeOK

LEMMA BetweenIsNat ==
    ASSUME TypeOK, NEW e \in DOMAIN stored, NEW f \in DOMAIN stored
    PROVE  Between(e, f) \in Nat
BY EntryIsText, DistanceIsNat DEF Between

LEMMA InitIInv == Init => IInv
<1> SUFFICES ASSUME Init PROVE IInv
  OBVIOUS
<1>1. /\ DOMAIN vantage = {} /\ DOMAIN threshold = {} /\ stored \in Seq(Text)
      /\ at = Root /\ stage = Visiting /\ found = {} /\ reply = NoReply
  BY VpAssumption DEF Init
<1>2. ThresholdsSeparate /\ PrefixClosed /\ ThresholdsAreDistances /\ LeavesHaveNoThreshold
  BY <1>1 DEF ThresholdsSeparate, PrefixClosed, ThresholdsAreDistances, LeavesHaveNoThreshold
<1>3. CASE stored = << >>
  <2>1. call = Idle /\ work = << >> /\ DOMAIN stored = {}
    BY <1>3 DEF Init
  <2>2. TypeOK
    BY <1>1, <1>3, <2>1 DEF TypeOK, Visiting, Over
  <2>3. CallOK /\ WorkOK /\ WalkOK /\ FoundIsSettled
    BY <1>1, <2>1, <1>3 DEF CallOK, WorkOK, WalkOK, FoundIsSettled, Idle, Searching
  <2> QED
    BY <1>2, <2>2, <2>3 DEF IInv
<1>4. CASE stored # << >>
  <2>1. /\ call \in [op : {"build"}, strategy : Strategy]
        /\ work = <<[at |-> Root, entries |-> DOMAIN stored]>>
    BY <1>4 DEF Init
  <2>2. DOMAIN stored # {} /\ DOMAIN stored = 1 .. Len(stored)
    BY <1>1, <1>4, EmptySeq, LenProperties
  <2>3. /\ Root \in Path /\ \A a \in Path : ~IsBelow(Root, a)
    BY RootIsAbove, EmptySeq DEF Root, Path
  <2>4. TypeOK
    BY <1>1, <2>1 DEF TypeOK, Visiting, Over
  <2>5. SubtreeOK(work[1])
    <3> DEFINE w == [at |-> Root, entries |-> DOMAIN stored]
    <3>1. work[1] = w /\ w.at = Root /\ w.entries = DOMAIN stored
      BY <2>1
    <3> HIDE DEF w
    <3>2. w = [at |-> w.at, entries |-> w.entries]
      BY DEF w
    <3>3. w.at \in Path \ DOMAIN vantage /\ w.entries # {} /\ w.entries \subseteq DOMAIN stored
      BY <3>1, <1>1, <2>2, <2>3
    <3>4. SubtreeOK(w)
      BY <3>1, <3>2, <3>3, <1>1, <2>3 DEF SubtreeOK
    <3> QED
      BY <3>1, <3>4
  <2>6. WorkOK
    <3> DEFINE w == [at |-> Root, entries |-> DOMAIN stored]
    <3>0. w \in [at : Path, entries : SUBSET (DOMAIN stored)]
      BY <2>3
    <3> HIDE DEF w
    <3>1. Len(work) = 1 /\ work \in Seq([at : Path, entries : SUBSET (DOMAIN stored)])
      BY <3>0, <2>1 DEF w
    <3> QED
      BY <3>1, <2>5 DEF WorkOK
  <2>7. CallOK /\ WalkOK /\ FoundIsSettled
    BY <1>1, <2>1, <1>4 DEF CallOK, WalkOK, FoundIsSettled, Idle, Searching
  <2> QED
    BY <1>2, <2>4, <2>6, <2>7 DEF IInv
<1> QED
  BY <1>3, <1>4

-----------------------------------------------------------------------------
(* The bulk build *)

LEMMA ConcatOfThree ==
    ASSUME NEW R, NEW S \in Seq(R), NEW T \in Seq(R), NEW V \in Seq(R)
    PROVE  /\ S \o T \o V \in Seq(R) /\ Len(S \o T \o V) = Len(S) + Len(T) + Len(V)
           /\ \A n \in 1 .. Len(S) : (S \o T \o V)[n] = S[n]
           /\ \A n \in 1 .. Len(T) : (S \o T \o V)[Len(S) + n] = T[n]
           /\ \A n \in 1 .. Len(V) : (S \o T \o V)[Len(S) + Len(T) + n] = V[n]
<1> PICK i, j, k \in Nat : i = Len(S) /\ j = Len(T) /\ k = Len(V)
  BY LenProperties
<1> PICK U : U = S \o T
  OBVIOUS
<1>1. U \in Seq(R) /\ Len(U) = i + j /\ \A n \in 1 .. i + j : U[n] = IF n <= i THEN S[n] ELSE T[n - i]
  BY ConcatProperties
<1> PICK X : X = U \o V
  OBVIOUS
<1>2. /\ X \in Seq(R) /\ Len(X) = i + j + k
      /\ \A n \in 1 .. i + j + k : X[n] = IF n <= i + j THEN U[n] ELSE V[n - (i + j)]
  BY <1>1, ConcatProperties
<1>3. ASSUME NEW n \in 1 .. i
      PROVE  X[n] = S[n]
  <2>1. n \in 1 .. i + j + k /\ n \in 1 .. i + j /\ n <= i + j /\ n <= i
    OBVIOUS
  <2> QED
    BY <2>1, <1>1, <1>2
<1>4. ASSUME NEW n \in 1 .. j
      PROVE  X[i + n] = T[n]
  <2>1. /\ i + n \in 1 .. i + j + k /\ i + n \in 1 .. i + j /\ i + n <= i + j
        /\ ~(i + n <= i) /\ i + n - i = n
    OBVIOUS
  <2> QED
    BY <2>1, <1>1, <1>2
<1>5. ASSUME NEW n \in 1 .. k
      PROVE  X[i + j + n] = V[n]
  <2>1. i + j + n \in 1 .. i + j + k /\ ~(i + j + n <= i + j) /\ i + j + n - (i + j) = n
    OBVIOUS
  <2> QED
    BY <2>1, <1>2
<1>6. S \o T \o V = X
  OBVIOUS
<1> QED
  BY <1>2, <1>3, <1>4, <1>5, <1>6

\* A queue whose head is replaced by at most two, and where its places go.
LEMMA HeadReplaced ==
    ASSUME NEW R, NEW S \in Seq(R), NEW T \in Seq(R), NEW W \in Seq(R), W # << >>,
           Len(S) <= 1, Len(T) <= 1
    PROVE  /\ S \o T \o Tail(W) \in Seq(R) /\ Len(S \o T \o Tail(W)) \in Nat /\ Len(W) \in Nat \ {0}
           /\ Len(S) = 1 => /\ 1 \in 1 .. Len(S \o T \o Tail(W))
                             /\ (S \o T \o Tail(W))[1] = S[1]
           /\ Len(T) = 1 => /\ Len(S) + 1 \in 1 .. Len(S \o T \o Tail(W))
                             /\ (S \o T \o Tail(W))[Len(S) + 1] = T[1]
           /\ \A m \in 2 .. Len(W) :
                 /\ Len(S) + Len(T) + (m - 1) \in 1 .. Len(S \o T \o Tail(W))
                 /\ (S \o T \o Tail(W))[Len(S) + Len(T) + (m - 1)] = W[m]
           /\ Len(S \o T \o Tail(W)) = Len(S) + Len(T) + (Len(W) - 1)
<1> DEFINE V == Tail(W)
           new == S \o T \o V
           i == Len(S)
           k == Len(T)
           l == Len(W)
<1>1. V \in Seq(R) /\ Len(V) = l - 1 /\ l \in Nat \ {0} /\ \A n \in 1 .. Len(V) : V[n] = W[n + 1]
  BY HeadTailProperties, EmptySeq
<1>2. i \in Nat /\ k \in Nat /\ i <= 1 /\ k <= 1
  OBVIOUS
<1> HIDE DEF V
<1>3. /\ new \in Seq(R) /\ Len(new) = i + k + Len(V)
      /\ \A n \in 1 .. i : new[n] = S[n]
      /\ \A n \in 1 .. k : new[i + n] = T[n]
      /\ \A n \in 1 .. Len(V) : new[i + k + n] = V[n]
  <2>1. V \in Seq(R)
    BY <1>1
  <2>2. new \in Seq(R) /\ Len(new) = i + k + Len(V)
    BY <2>1, ConcatOfThree
  <2>3. \A n \in 1 .. i : new[n] = S[n]
    BY <2>1, ConcatOfThree
  <2>4. \A n \in 1 .. k : new[i + n] = T[n]
    BY <2>1, ConcatOfThree
  <2>5. \A n \in 1 .. Len(V) : new[i + k + n] = V[n]
    BY <2>1, ConcatOfThree
  <2> HIDE DEF new, i, k
  <2> QED
    BY <2>2, <2>3, <2>4, <2>5
<1> HIDE DEF new, i, k, l
<1>4. \A n \in 1 .. l - 1 : V[n] = W[n + 1] /\ new[i + k + n] = V[n]
  BY <1>1, <1>3
<1>5. \A m \in 2 .. l :
         i + k + (m - 1) \in 1 .. i + k + (l - 1) /\ new[i + k + (m - 1)] = W[m]
  <2>1. ASSUME NEW m \in 2 .. l
        PROVE  i + k + (m - 1) \in 1 .. i + k + (l - 1) /\ new[i + k + (m - 1)] = W[m]
    <3>1. m - 1 \in 1 .. l - 1 /\ (m - 1) + 1 = m
      BY <1>1
    <3>2. new[i + k + (m - 1)] = W[(m - 1) + 1]
      BY <3>1, <1>4
    <3> QED
      BY <3>1, <3>2, <1>1, <1>2
  <2> QED
    BY <2>1
<1>6. /\ i = 1 => 1 \in 1 .. i + k + (l - 1) /\ new[1] = S[1]
      /\ k = 1 => i + 1 \in 1 .. i + k + (l - 1) /\ new[i + 1] = T[1]
  BY <1>1, <1>2, <1>3
<1>7. Len(new) = i + k + (l - 1) /\ Len(new) \in Nat /\ new \in Seq(R)
  BY <1>1, <1>2, <1>3
<1> QED
  <2>1. /\ new \in Seq(R) /\ Len(new) \in Nat /\ l \in Nat \ {0}
        /\ i = 1 => 1 \in 1 .. Len(new) /\ new[1] = S[1]
        /\ k = 1 => i + 1 \in 1 .. Len(new) /\ new[i + 1] = T[1]
        /\ \A m \in 2 .. l :
              i + k + (m - 1) \in 1 .. Len(new) /\ new[i + k + (m - 1)] = W[m]
        /\ Len(new) = i + k + (l - 1)
    BY <1>1, <1>5, <1>6, <1>7
  <2> QED
    BY <2>1, Zenon DEF new, i, k, l, V

\* The split by position leaves nothing inside without something outside, and
\* the threshold lies between the two parts.
LEMMA SplitSeparates ==
    ASSUME TypeOK, NEW v \in DOMAIN stored, NEW inside, inside \subseteq DOMAIN stored,
           NEW outside, outside \subseteq DOMAIN stored,
           NEW t, IsSplit(v, inside, outside), IsThreshold(v, outside, t)
    PROVE  /\ outside = {} => inside = {} /\ t = NoThreshold
           /\ outside # {} => t \in Nat /\ \E o \in outside : Between(v, o) = t
           /\ \A e \in inside : OnSide("inside", Between(v, e), t)
           /\ \A e \in outside : OnSide("outside", Between(v, e), t)
<1>1. \A e \in inside \cup outside : Between(v, e) \in Nat
  BY BetweenIsNat
<1>2. outside = {} => inside = {}
  <2> SUFFICES ASSUME outside = {} PROVE inside = {}
    OBVIOUS
  <2>1. IsFiniteSet(inside)
    <3>1. Len(stored) \in Nat /\ DOMAIN stored = 1 .. Len(stored)
      BY LenProperties DEF TypeOK
    <3>2. IsFiniteSet(DOMAIN stored)
      BY <3>1, FS_Interval
    <3> QED
      BY <3>2, FS_Subset
  <2>2. inside \cup outside = inside
    OBVIOUS
  <2>3. Cardinality(inside) = Cardinality(inside) \div 2 /\ Cardinality(inside) \in Nat
    BY <2>1, <2>2, FS_CardinalityType DEF IsSplit
  <2>4. Cardinality(inside) = 0
    BY <2>3
  <2> QED
    BY <2>1, <2>4, FS_EmptySet
<1>3. outside # {} => /\ \E o \in outside : Between(v, o) = t
                      /\ \A o \in outside : t <= Between(v, o)
  BY DEF IsThreshold
<1>4. outside # {} => t \in Nat
  BY <1>1, <1>3
<1>5. \A e \in inside : OnSide("inside", Between(v, e), t)
  BY <1>1, <1>2, <1>3 DEF IsSplit, OnSide
<1>6. \A e \in outside : OnSide("outside", Between(v, e), t)
  BY <1>1, <1>3, <1>4 DEF OnSide
<1> QED
  BY <1>2, <1>3, <1>4, <1>5, <1>6 DEF IsThreshold

\* A build step places one entry and keeps the rest on the right sides.
LEMMA StepBuildNode ==
    ASSUME IInv, NEW v, NEW inside, NEW t, BuildNode(v, inside, t), NEW w, w = Head(work),
           NEW outside, outside = w.entries \ ({v} \cup inside)
    PROVE  IInv'
<1>0. /\ TypeOK /\ ThresholdsSeparate /\ PrefixClosed /\ ThresholdsAreDistances
      /\ LeavesHaveNoThreshold /\ CallOK /\ WorkOK
  BY DEF IInv
<1>1. /\ call.op = "build" /\ work # << >> /\ w = work[1] /\ 1 \in 1 .. Len(work)
      /\ SubtreeOK(w) /\ v \in w.entries /\ inside \subseteq w.entries \ {v}
      /\ IsSplit(v, inside, outside) /\ IsThreshold(v, outside, t)
  <2>1. /\ work # << >> /\ call.op = "build" /\ v \in w.entries /\ inside \subseteq w.entries \ {v}
        /\ IsSplit(v, inside, outside) /\ IsThreshold(v, outside, t)
    BY DEF BuildNode, MayBeVantage
  <2>2. Head(work) = work[1] /\ 1 \in 1 .. Len(work)
    BY <1>0, <2>1, EmptySeq DEF WorkOK
  <2>3. SubtreeOK(w)
    BY <1>0, <2>2 DEF WorkOK
  <2> QED
    BY <2>1, <2>2, <2>3
<1>2. /\ DOMAIN vantage' = DOMAIN vantage \cup {w.at}
      /\ vantage'[w.at] = v /\ \A a \in DOMAIN vantage : vantage'[a] = vantage[a]
      /\ DOMAIN threshold' = DOMAIN vantage \cup {w.at}
      /\ threshold'[w.at] = t /\ \A a \in DOMAIN vantage : threshold'[a] = threshold[a]
  <2>1. w.at \notin DOMAIN vantage
    BY <1>1 DEF SubtreeOK
  <2>2. /\ vantage'   = [a \in DOMAIN vantage \cup {w.at} |-> IF a = w.at THEN v ELSE vantage[a]]
        /\ threshold' = [a \in DOMAIN vantage \cup {w.at} |-> IF a = w.at THEN t ELSE threshold[a]]
    BY DEF BuildNode
  <2> QED
    BY <2>1, <2>2
<1>3. /\ work' = Subtree(w.at, "inside", inside)
                   \o Subtree(w.at, "outside", outside) \o Tail(work)
      /\ UNCHANGED <<stored, call, at, stage, found, reply>>
  BY DEF BuildNode
<1>4. /\ w.at \in Path /\ w.at \notin DOMAIN vantage /\ w.entries \subseteq DOMAIN stored
      /\ \A e \in w.entries, a \in DOMAIN vantage : vantage[a] # e
      /\ \A a \in Path : IsBelow(w.at, a) =>
           /\ a \in DOMAIN vantage /\ threshold[a] # NoThreshold
           /\ \A e \in w.entries : OnSide(w.at[Len(a) + 1], Between(vantage[a], e), threshold[a])
  BY <1>1 DEF SubtreeOK
<1>5. v \in DOMAIN stored /\ inside \subseteq DOMAIN stored /\ outside \subseteq DOMAIN stored
  BY <1>1, <1>4
<1>6. /\ outside = {} => inside = {} /\ t = NoThreshold
      /\ outside # {} => t \in Nat /\ \E o \in outside : Between(v, o) = t
      /\ \A e \in inside : OnSide("inside", Between(v, e), t)
      /\ \A e \in outside : OnSide("outside", Between(v, e), t)
  <2>1. TypeOK /\ v \in DOMAIN stored /\ inside \subseteq DOMAIN stored /\ outside \subseteq DOMAIN stored
    BY <1>0, <1>5
  <2>2. IsSplit(v, inside, outside) /\ IsThreshold(v, outside, t)
    BY <1>1
  <2>3. outside = {} => inside = {} /\ t = NoThreshold
    BY <2>1, <2>2, SplitSeparates
  <2>4. outside # {} => t \in Nat /\ \E o \in outside : Between(v, o) = t
    BY <2>1, <2>2, SplitSeparates
  <2>5. \A e \in inside : OnSide("inside", Between(v, e), t)
    BY <2>1, <2>2, SplitSeparates
  <2>6. \A e \in outside : OnSide("outside", Between(v, e), t)
    BY <2>1, <2>2, SplitSeparates, SMTT(30)
  <2> QED
    BY <2>3, <2>4, <2>5, <2>6
<1>7. /\ DOMAIN vantage \subseteq Path /\ DOMAIN threshold = DOMAIN vantage
      /\ \A a \in DOMAIN vantage : ~IsBelow(a, w.at)
  BY <1>0, <1>4 DEF PrefixClosed, TypeOK, Path
<1>8. ~IsBelow(w.at, w.at)
  BY <1>4 DEF IsBelow, Path
<1>9. ThresholdsSeparate'
  <2> SUFFICES ASSUME NEW a \in DOMAIN vantage', NEW b \in DOMAIN vantage', IsBelow(b, a)
               PROVE  OnSide(b[Len(a) + 1], Between(vantage'[a], vantage'[b]), threshold'[a])
    BY <1>3 DEF ThresholdsSeparate, OnSide, Between
  <2>1. CASE a \in DOMAIN vantage /\ b \in DOMAIN vantage
    BY <2>1, <1>0, <1>2 DEF ThresholdsSeparate, OnSide
  <2>2. CASE a \in DOMAIN vantage /\ b = w.at
    BY <2>2, <1>1, <1>2, <1>4, <1>7
  <2>3. a # w.at
    BY <1>2, <1>7, <1>8
  <2> QED
    BY <2>1, <2>2, <2>3, <1>2
<1>10. PrefixClosed'
  BY <1>0, <1>2, <1>4 DEF PrefixClosed
<1>11. ThresholdsAreDistances'
  <2>1. t # NoThreshold => \E x, y \in Text : t = Dist(x, y)
    <3> SUFFICES ASSUME t # NoThreshold PROVE \E x, y \in Text : t = Dist(x, y)
      OBVIOUS
    <3>1. PICK o \in outside : Between(v, o) = t
      BY <1>6
    <3>2. stored[v] \in Text /\ stored[o] \in Text
      BY <1>0, <1>5, EntryIsText
    <3> QED
      BY <3>1, <3>2 DEF Between
  <2> QED
    BY <2>1, <1>0, <1>2 DEF ThresholdsAreDistances
<1>12. LeavesHaveNoThreshold'
  BY <1>0, <1>2, <1>4, <1>7, <1>8 DEF LeavesHaveNoThreshold
<1>13. CallOK' /\ WalkOK' /\ FoundIsSettled'
  <2>1. stored # << >>
    BY <1>0, <1>1 DEF CallOK, Idle
  <2> QED
    BY <2>1, <1>0, <1>1, <1>3 DEF CallOK, WalkOK, FoundIsSettled, Idle, Searching
<1> DEFINE R == [at : Path, entries : SUBSET (DOMAIN stored)]
           I == [at |-> Append(w.at, "inside"), entries |-> inside]
           O == [at |-> Append(w.at, "outside"), entries |-> outside]
           S == Subtree(w.at, "inside", inside)
           T == Subtree(w.at, "outside", outside)
<1>14. I \in R /\ O \in R /\ work \in Seq(R)
  <2>1. Append(w.at, "inside") \in Path /\ Append(w.at, "outside") \in Path
    BY <1>4, AppendIsPath DEF Side
  <2> QED
    BY <2>1, <1>0, <1>5 DEF WorkOK
<1> DEFINE i == Len(S)
           k == Len(T)
<1>15. /\ S \in Seq(R) /\ T \in Seq(R) /\ i \in {0, 1} /\ k \in {0, 1}
       /\ (inside # {} <=> i = 1) /\ (i = 1 => S[1] = I)
       /\ (outside # {} <=> k = 1) /\ (k = 1 => T[1] = O)
  <2>1. S = (IF inside = {} THEN << >> ELSE <<I>>) /\ T = (IF outside = {} THEN << >> ELSE <<O>>)
    BY DEF Subtree
  <2> HIDE DEF R, I, O, S, T
  <2> QED
    BY <2>1, <1>14
<1> DEFINE new == S \o T \o Tail(work)
<1>23. work' = new
  BY <1>3
<1>29. S \in Seq(R) /\ T \in Seq(R)
  BY <1>15
<1>30. i \in {0, 1} /\ k \in {0, 1}
  BY <1>15
<1>31. work \in Seq(R) /\ work # << >>
  BY <1>1, <1>14
<1> HIDE DEF R, I, O, S, T
<1>32. Len(S) <= 1 /\ Len(T) <= 1
  <2> HIDE DEF i, k
  <2>1. i <= 1 /\ k <= 1
    BY <1>30
  <2> QED
    BY <2>1 DEF i, k
<1>16. /\ work' \in Seq(R) /\ Len(work') \in Nat /\ Len(work) \in Nat \ {0}
       /\ i = 1 => 1 \in 1 .. Len(work') /\ work'[1] = I
       /\ k = 1 => i + 1 \in 1 .. Len(work') /\ work'[i + 1] = O
       /\ \A m \in 2 .. Len(work) :
             i + k + (m - 1) \in 1 .. Len(work') /\ work'[i + k + (m - 1)] = work[m]
       /\ \A j \in 1 .. Len(work') :
             \/ i = 1 /\ j = 1
             \/ k = 1 /\ j = i + 1
             \/ \E m \in 2 .. Len(work) : j = i + k + (m - 1)
  <2>1. new \in Seq(R) /\ Len(new) \in Nat /\ Len(work) \in Nat \ {0}
    BY <1>29, <1>31, <1>32, HeadReplaced
  <2>2. i = 1 => 1 \in 1 .. Len(new) /\ new[1] = S[1]
    BY <1>29, <1>31, <1>32, HeadReplaced
  <2>3. k = 1 => i + 1 \in 1 .. Len(new) /\ new[i + 1] = T[1]
    BY <1>29, <1>31, <1>32, HeadReplaced
  <2>4. \A m \in 2 .. Len(work) :
           i + k + (m - 1) \in 1 .. Len(new) /\ new[i + k + (m - 1)] = work[m]
    BY <1>29, <1>31, <1>32, HeadReplaced
  <2>6. Len(new) = i + k + (Len(work) - 1)
    BY <1>29, <1>31, <1>32, HeadReplaced
  <2> HIDE DEF new, i, k
  <2>7. Len(work) \in Nat /\ Len(work) # 0
    BY <2>1
  <2>5. ASSUME NEW j \in 1 .. Len(new)
        PROVE  \/ i = 1 /\ j = 1
               \/ k = 1 /\ j = i + 1
               \/ \E m \in 2 .. Len(work) : j = i + k + (m - 1)
    <3>1. CASE j <= i + k
      BY <3>1, <2>6, <1>30
    <3>2. CASE j > i + k
      <4>1. j - (i + k) + 1 \in 2 .. Len(work) /\ j = i + k + ((j - (i + k) + 1) - 1)
        BY <3>2, <2>6, <2>7, <1>30
      <4> QED
        BY <4>1
    <3> QED
      BY <3>1, <3>2, <2>6, <2>7, <1>30
  <2> QED
    BY <2>1, <2>2, <2>3, <2>4, <2>5, <1>15, <1>23
<1> HIDE DEF new, i, k
<1> DEFINE In(j)  == i = 1 /\ j = 1 /\ work'[j] = I
           Out(j) == k = 1 /\ j = i + 1 /\ work'[j] = O
           Old(j) == \E m \in 2 .. Len(work) : j = i + k + (m - 1) /\ work'[j] = work[m]
<1>24. ASSUME NEW j \in 1 .. Len(work')
       PROVE  In(j) \/ Out(j) \/ Old(j)
  BY <1>16
<1>17. ASSUME NEW x, SubtreeOK(x), x.at # w.at, x.entries \cap w.entries = {}
       PROVE  SubtreeOK(x)'
  <2>1. /\ x = [at |-> x.at, entries |-> x.entries] /\ x.at \in Path \ DOMAIN vantage
        /\ x.entries # {} /\ x.entries \subseteq DOMAIN stored
        /\ \A e \in x.entries, a \in DOMAIN vantage : vantage[a] # e
    BY <1>17 DEF SubtreeOK
  <2>2. ASSUME NEW a \in Path, IsBelow(x.at, a)
        PROVE  /\ a \in DOMAIN vantage' /\ threshold'[a] # NoThreshold
               /\ \A e \in x.entries : OnSide(x.at[Len(a) + 1], Between(vantage'[a], e), threshold'[a])
    <3>1. /\ a \in DOMAIN vantage /\ threshold[a] # NoThreshold
          /\ \A e \in x.entries : OnSide(x.at[Len(a) + 1], Between(vantage[a], e), threshold[a])
      BY <1>17, <2>2 DEF SubtreeOK
    <3> QED
      BY <3>1, <1>2
  <2>3. \A e \in x.entries, a \in DOMAIN vantage' : vantage'[a] # e
    BY <2>1, <1>1, <1>2, <1>17
  <2> QED
    BY <2>1, <2>2, <2>3, <1>2, <1>3, <1>17 DEF SubtreeOK, Between
<1> USE DEF I, O
<1>18. ASSUME NEW side \in Side, NEW X, X # {}, X \subseteq w.entries \ {v}, t # NoThreshold,
              \A e \in X : OnSide(side, Between(v, e), t),
              NEW x, x = [at |-> Append(w.at, side), entries |-> X]
       PROVE  SubtreeOK(x)' /\ x.at # w.at /\ x.at = Append(w.at, side) /\ x.entries = X
  <2>1. /\ x.at = Append(w.at, side) /\ x.entries = X /\ x = [at |-> x.at, entries |-> x.entries]
    BY <1>18
  <2>2. /\ x.at \in Path /\ Len(x.at) = Len(w.at) + 1 /\ Len(w.at) \in Nat /\ IsBelow(x.at, w.at)
        /\ x.at[Len(w.at) + 1] = side
    BY <2>1, <1>4, AppendIsPath
  <2>3. x.at # w.at /\ x.at \notin DOMAIN vantage'
    BY <2>2, <1>2, <1>7
  <2>4. \A e \in x.entries, a \in DOMAIN vantage' : vantage'[a] # e
    BY <2>1, <1>2, <1>4, <1>18
  <2>5. ASSUME NEW a \in Path, IsBelow(x.at, a)
        PROVE  /\ a \in DOMAIN vantage' /\ threshold'[a] # NoThreshold
               /\ \A e \in x.entries : OnSide(x.at[Len(a) + 1], Between(vantage'[a], e), threshold'[a])
    <3>1. a = w.at \/ (IsBelow(w.at, a) /\ x.at[Len(a) + 1] = w.at[Len(a) + 1])
      <4>1. IsBelow(Append(w.at, side), a)
        BY <2>1, <2>5
      <4>2. a = w.at \/ (IsBelow(w.at, a) /\ Append(w.at, side)[Len(a) + 1] = w.at[Len(a) + 1])
        BY <4>1, <1>4, AboveAppend
      <4> QED
        BY <4>2, <2>1
    <3>2. CASE a = w.at
      BY <3>2, <2>1, <2>2, <1>2, <1>18
    <3>3. CASE IsBelow(w.at, a) /\ x.at[Len(a) + 1] = w.at[Len(a) + 1]
      <4>1. a \in DOMAIN vantage /\ threshold[a] # NoThreshold
            /\ \A e \in w.entries : OnSide(x.at[Len(a) + 1], Between(vantage[a], e), threshold[a])
        BY <3>3, <1>4
      <4> QED
        BY <4>1, <2>1, <1>2, <1>18
    <3> QED
      BY <3>1, <3>2, <3>3
  <2> QED
    BY <2>1, <2>2, <2>3, <2>4, <2>5, <1>3, <1>4, <1>18 DEF SubtreeOK, Between
<1>19. inside # {} => SubtreeOK(I)' /\ I.at = Append(w.at, "inside") /\ I.entries = inside
  <2> SUFFICES ASSUME inside # {}
               PROVE  SubtreeOK(I)' /\ I.at = Append(w.at, "inside") /\ I.entries = inside
    OBVIOUS
  <2>1. inside \subseteq w.entries \ {v} /\ t # NoThreshold /\ "inside" \in Side
    BY <1>1, <1>6 DEF NoThreshold, Side
  <2>2. I = [at |-> Append(w.at, "inside"), entries |-> inside]
    OBVIOUS
  <2> HIDE DEF I
  <2> QED
    BY <2>1, <2>2, <1>6, <1>18
<1>20. outside # {} => SubtreeOK(O)' /\ O.at = Append(w.at, "outside") /\ O.entries = outside
  <2> SUFFICES ASSUME outside # {}
               PROVE  SubtreeOK(O)' /\ O.at = Append(w.at, "outside") /\ O.entries = outside
    OBVIOUS
  <2>1. outside \subseteq w.entries \ {v} /\ t # NoThreshold /\ "outside" \in Side
    BY <1>6 DEF NoThreshold, Side
  <2>2. O = [at |-> Append(w.at, "outside"), entries |-> outside]
    OBVIOUS
  <2> HIDE DEF O
  <2> QED
    BY <2>1, <2>2, <1>6, <1>18
<1> HIDE DEF I, O
<1>21. /\ Append(w.at, "inside") # Append(w.at, "outside")
       /\ IsBelow(Append(w.at, "inside"), w.at) /\ IsBelow(Append(w.at, "outside"), w.at)
  BY <1>4, AppendIsPath DEF Side
<1>22. ASSUME NEW m \in 2 .. Len(work), NEW x, x = work[m]
       PROVE  SubtreeOK(x)' /\ x.entries \cap w.entries = {} /\ ~IsBelow(x.at, w.at)
  <2>1. SubtreeOK(x) /\ x.at # w.at /\ x.entries \cap w.entries = {}
    BY <1>0, <1>1, <1>22 DEF WorkOK, Apart
  <2>2. SubtreeOK(x)'
    BY <2>1, <1>17
  <2>3. ~IsBelow(x.at, w.at)
    BY <2>1, <1>4 DEF SubtreeOK
  <2> QED
    BY <2>1, <2>2, <2>3
<1>25. ASSUME NEW j \in 1 .. Len(work'), NEW x, x = work'[j]
       PROVE  SubtreeOK(x)'
  <2>1. CASE In(j)
    BY <2>1, <1>15, <1>19, <1>25
  <2>2. CASE Out(j)
    BY <2>2, <1>15, <1>20, <1>25
  <2>3. CASE Old(j)
    BY <2>3, <1>22, <1>25
  <2> QED
    BY <2>1, <2>2, <2>3, <1>24
<1>26. ASSUME NEW j \in 1 .. Len(work'), NEW l \in 1 .. Len(work'), j # l
       PROVE  Apart(work'[j], work'[l])
  <2>1. i = 1 /\ k = 1 => Apart(I, O) /\ Apart(O, I)
    BY <1>1, <1>15, <1>19, <1>20, <1>21, SMTT(30) DEF Apart
  <2>2. ASSUME NEW m \in 2 .. Len(work)
        PROVE  /\ i = 1 => Apart(I, work[m]) /\ Apart(work[m], I)
               /\ k = 1 => Apart(O, work[m]) /\ Apart(work[m], O)
    <3>1. work[m].entries \cap w.entries = {} /\ ~IsBelow(work[m].at, w.at)
      BY <1>22
    <3>2. i = 1 => I.entries \subseteq w.entries /\ IsBelow(I.at, w.at)
      BY <1>1, <1>15, <1>19, <1>21
    <3>3. k = 1 => O.entries \subseteq w.entries /\ IsBelow(O.at, w.at)
      BY <1>15, <1>20, <1>21
    <3> QED
      BY <3>1, <3>2, <3>3 DEF Apart
  <2>3. ASSUME NEW m \in 2 .. Len(work), NEW n \in 2 .. Len(work), m # n
        PROVE  Apart(work[m], work[n])
    <3>1. m \in 1 .. Len(work) /\ n \in 1 .. Len(work)
      BY <1>16
    <3> QED
      BY <3>1, <2>3, <1>0 DEF WorkOK, Apart
  <2>4. Apart(work'[j], work'[l])
    <3>1. In(j) \/ Out(j) \/ Old(j)
      BY <1>24
    <3>2. In(l) \/ Out(l) \/ Old(l)
      BY <1>24
    <3>3. CASE Old(j) /\ Old(l)
      BY <3>3, <2>3, <1>26
    <3>4. CASE Old(j) /\ ~Old(l)
      BY <3>2, <3>4, <2>2
    <3>5. CASE ~Old(j) /\ Old(l)
      BY <3>1, <3>5, <2>2
    <3>6. CASE ~Old(j) /\ ~Old(l)
      BY <3>1, <3>2, <3>6, <2>1, <1>26
    <3> QED
      BY <3>3, <3>4, <3>5, <3>6
  <2> QED
    BY <2>4
<1>27. WorkOK'
  <2>1. R = [at : Path, entries : SUBSET (DOMAIN stored')]
    BY <1>3 DEF R
  <2>2. \A j \in 1 .. Len(work') : SubtreeOK(work[j])'
    <3> SUFFICES ASSUME NEW j \in 1 .. Len(work') PROVE SubtreeOK(work[j])'
      OBVIOUS
    <3> PICK x : x = work'[j]
      OBVIOUS
    <3>1. SubtreeOK(x)'
      BY <1>25
    <3> QED
      BY <3>1
  <2> QED
    BY <2>1, <2>2, <1>16, <1>26 DEF WorkOK, Apart
<1>28. TypeOK'
  <2>1. DOMAIN vantage' \subseteq Path /\ DOMAIN threshold' = DOMAIN vantage'
    BY <1>2, <1>4, <1>7
  <2>2. \A a \in DOMAIN vantage' : vantage'[a] \in DOMAIN stored'
    BY <1>0, <1>2, <1>3, <1>5 DEF TypeOK
  <2>3. \A a \in DOMAIN vantage' : threshold'[a] \in Nat \cup {NoThreshold}
    BY <1>0, <1>2, <1>6, <1>7 DEF TypeOK
  <2>4. \A a, b \in DOMAIN vantage' : vantage'[a] = vantage'[b] => a = b
    BY <1>0, <1>1, <1>2, <1>4 DEF TypeOK
  <2>5. ASSUME NEW e \in DOMAIN stored
        PROVE  \/ \E a \in DOMAIN vantage' : vantage'[a] = e
               \/ \E j \in 1 .. Len(work') : e \in work'[j].entries
    <3>1. CASE \E a \in DOMAIN vantage : vantage[a] = e
      BY <3>1, <1>2
    <3>2. CASE e \in w.entries
      <4>1. CASE e = v
        BY <4>1, <1>2
      <4>2. CASE e \in inside
        <5>1. In(1) /\ 1 \in 1 .. Len(work') /\ I.entries = inside
          BY <4>2, <1>15, <1>16, <1>19
        <5> QED
          BY <5>1, <4>2
      <4>3. CASE e \in outside
        <5>1. Out(i + 1) /\ i + 1 \in 1 .. Len(work') /\ O.entries = outside
          BY <4>3, <1>15, <1>16, <1>20
        <5> QED
          BY <5>1, <4>3
      <4> QED
        BY <3>2, <4>1, <4>2, <4>3
    <3>3. CASE \E m \in 2 .. Len(work) : e \in work[m].entries
      <4> PICK m \in 2 .. Len(work) : e \in work[m].entries
        BY <3>3
      <4>1. i + k + (m - 1) \in 1 .. Len(work')
        BY <1>15, <1>16
      <4> QED
        BY <4>1, <1>16
    <3>4. \/ \E a \in DOMAIN vantage : vantage[a] = e
          \/ \E m \in 1 .. Len(work) : e \in work[m].entries
      BY <1>0, <1>14, LenProperties DEF TypeOK
    <3>5. \A m \in 1 .. Len(work) : m = 1 \/ m \in 2 .. Len(work)
      BY <1>16
    <3> QED
      BY <3>1, <3>2, <3>3, <3>4, <3>5, <1>1
  <2>6. DOMAIN work' = 1 .. Len(work')
    BY <1>16, LenProperties
  <2> QED
    BY <2>1, <2>2, <2>3, <2>4, <2>5, <2>6, <1>0, <1>1, <1>3 DEF TypeOK, Path
<1> QED
  BY <1>9, <1>10, <1>11, <1>12, <1>13, <1>27, <1>28 DEF IInv

\* With nothing left to build, every entry has a node, and so the root.
LEMMA RootIsThere ==
    ASSUME TypeOK, PrefixClosed, work = << >>, stored # << >>
    PROVE  Root \in DOMAIN vantage
<1>1. 1 \in DOMAIN stored /\ DOMAIN work = {}
  BY EmptySeq, LenProperties DEF TypeOK
<1>2. PICK a \in DOMAIN vantage : vantage[a] = 1
  BY <1>1 DEF TypeOK
<1>3. a \in Path
  BY DEF TypeOK, Path
<1> QED
  BY <1>3, RootIsAbove DEF PrefixClosed

LEMMA StepBuilt == ASSUME IInv, Built PROVE IInv'
<1>1. IInv /\ call.op = "build" /\ work = << >> /\ call' = Idle
      /\ UNCHANGED <<stored, vantage, threshold, work, at, stage, found, reply>>
  BY DEF Built, tree
<1>2. /\ stored # << >> /\ at = Root /\ stage = Visiting /\ found = {}
  BY <1>1 DEF IInv, CallOK, Idle, Searching
<1>3. Root \in DOMAIN vantage
  BY <1>1, <1>2, RootIsThere DEF IInv
<1>4. TypeOK'
  BY <1>1, <1>2, <1>3 DEF IInv, TypeOK, Between
<1>5. /\ ThresholdsSeparate' /\ PrefixClosed' /\ ThresholdsAreDistances'
      /\ LeavesHaveNoThreshold' /\ WorkOK'
  BY <1>1 DEF IInv, ThresholdsSeparate, PrefixClosed, ThresholdsAreDistances,
              LeavesHaveNoThreshold, WorkOK, SubtreeOK, Between
<1>6. CallOK' /\ WalkOK' /\ FoundIsSettled'
  BY <1>1, <1>2 DEF IInv, CallOK, WalkOK, FoundIsSettled, Idle, Searching
<1> QED
  BY <1>4, <1>5, <1>6 DEF IInv

-----------------------------------------------------------------------------
(* insert *)

\* Between two calls of build_bulk or of a search, the tree stays as it is.
LEMMA TreeKept ==
    ASSUME IInv, UNCHANGED <<stored, vantage, threshold, work>>
    PROVE  /\ ThresholdsSeparate' /\ PrefixClosed' /\ ThresholdsAreDistances'
           /\ LeavesHaveNoThreshold' /\ WorkOK'
BY DEF IInv, ThresholdsSeparate, PrefixClosed, ThresholdsAreDistances,
       LeavesHaveNoThreshold, WorkOK, SubtreeOK, Between

LEMMA StepInsertRoot == ASSUME IInv, NEW x \in Items, InsertRoot(x) PROVE IInv'
<1>1. /\ IInv /\ call = Idle /\ call' = Idle /\ stored' = <<x>> /\ x \in Text
      /\ DOMAIN vantage' = {Root} /\ DOMAIN threshold' = {Root}
      /\ vantage'[Root] = 1 /\ threshold'[Root] = NoThreshold
      /\ UNCHANGED <<work, at, stage, found>>
  BY MetricAssumption DEF InsertRoot
<1>2. work = << >> /\ at = Root /\ stage = Visiting /\ found = {}
  BY <1>1 DEF IInv, CallOK, Idle, Searching
<1>3. Root \in Path /\ \A a \in Path : ~IsBelow(Root, a)
  BY RootIsAbove, EmptySeq DEF Root, Path
<1>4. stored' \in Seq(Text) /\ stored' # << >> /\ DOMAIN stored' = {1}
  BY <1>1
<1>5. TypeOK'
  BY <1>1, <1>2, <1>3, <1>4 DEF TypeOK, Path, Visiting, Over, Idle
<1>6. /\ ThresholdsSeparate' /\ PrefixClosed' /\ ThresholdsAreDistances'
      /\ LeavesHaveNoThreshold'
  BY <1>1, <1>3 DEF ThresholdsSeparate, PrefixClosed, ThresholdsAreDistances,
                    LeavesHaveNoThreshold
<1>7. WorkOK'
  BY <1>1, <1>2 DEF WorkOK
<1>8. CallOK' /\ WalkOK' /\ FoundIsSettled'
  BY <1>1, <1>2, <1>4 DEF CallOK, WalkOK, FoundIsSettled, Idle, Searching
<1> QED
  BY <1>5, <1>6, <1>7, <1>8 DEF IInv

LEMMA StepBeginInsert == ASSUME IInv, NEW x \in Items, BeginInsert(x) PROVE IInv'
<1>1. /\ IInv /\ call = Idle /\ stored # << >> /\ x \in Text /\ reply' = NoReply
      /\ call' = [op |-> "insert", text |-> x]
      /\ UNCHANGED <<stored, vantage, threshold, work, at, stage, found>>
  BY MetricAssumption DEF BeginInsert, tree
<1>2. work = << >> /\ at = Root /\ stage = Visiting /\ found = {}
  BY <1>1 DEF IInv, CallOK, Idle, Searching
<1>3. TypeOK'
  BY <1>1 DEF IInv, TypeOK, Idle
<1>4. CallOK' /\ FoundIsSettled'
  BY <1>1, <1>2 DEF CallOK, FoundIsSettled, Idle, Searching
<1>5. WalkOK'
  <2>1. \A a \in DOMAIN vantage : ~IsBelow(Root, a)
    BY <1>1, RootIsAbove DEF IInv, TypeOK, Path
  <2> QED
    BY <2>1, <1>1, <1>2 DEF WalkOK
<1> QED
  BY <1>1, <1>3, <1>4, <1>5, TreeKept DEF IInv

\* The slot is on the text's side of its node, and of every node above that.
LEMMA SlotIsOnSide ==
    ASSUME IInv, call.op = "insert"
    PROVE  /\ at \in DOMAIN vantage /\ at \in Path /\ Slot \in Path /\ IsBelow(Slot, at)
           /\ call.text \in Text /\ Here(at) \in Nat
           /\ OnSide(Slot[Len(at) + 1], Here(at),
                     IF threshold[at] = NoThreshold THEN Here(at) ELSE threshold[at])
           /\ \A a \in Path : IsBelow(Slot, a) =>
                 \/ a = at
                 \/ IsBelow(at, a) /\ OnSide(Slot[Len(a) + 1], Here(a), threshold[a])
<1>1. /\ at \in DOMAIN vantage /\ call.text \in Text /\ vantage[at] \in DOMAIN stored
      /\ threshold[at] \in Nat \cup {NoThreshold} /\ DOMAIN vantage \subseteq Path
  BY DEF IInv, TypeOK, CallOK, Idle, Path
<1>2. Here(at) \in Nat
  BY <1>1, EntryIsText, DistanceIsNat DEF IInv, Here, Away
<1> DEFINE side == IF threshold[at] = NoThreshold \/ Here(at) <= threshold[at]
                   THEN "inside" ELSE "outside"
<1>3. Slot = Append(at, side)
  BY DEF Slot
<1>4. side \in Side
  BY DEF Side
<1>5. OnSide(side, Here(at), IF threshold[at] = NoThreshold THEN Here(at) ELSE threshold[at])
  BY <1>1, <1>2 DEF OnSide
<1> HIDE DEF side
<1>6. /\ Slot \in Path /\ Slot[Len(at) + 1] = side /\ IsBelow(Slot, at)
  BY <1>1, <1>3, <1>4, AppendIsPath
<1>7. ASSUME NEW a \in Path, IsBelow(Slot, a)
      PROVE  \/ a = at
             \/ IsBelow(at, a) /\ OnSide(Slot[Len(a) + 1], Here(a), threshold[a])
  <2>1. IsBelow(Append(at, side), a)
    BY <1>3, <1>7
  <2>2. at \in Path /\ side \in Side
    BY <1>1, <1>4
  <2>3. a = at \/ (IsBelow(at, a) /\ Append(at, side)[Len(a) + 1] = at[Len(a) + 1])
    BY <2>1, <2>2, AboveAppend
  <2>4. IsBelow(at, a) => a \in DOMAIN vantage
    BY <1>1 DEF IInv, PrefixClosed
  <2>5. IsBelow(at, a) => OnSide(at[Len(a) + 1], Here(a), threshold[a])
    BY <2>4 DEF IInv, WalkOK
  <2> QED
    BY <2>3, <2>5, <1>3
<1> QED
  BY <1>1, <1>2, <1>5, <1>6, <1>7

LEMMA StepDescend == ASSUME IInv, Descend PROVE IInv'
<1>1. /\ IInv /\ call.op = "insert" /\ Slot \in DOMAIN vantage /\ at' = Slot
      /\ UNCHANGED <<stored, vantage, threshold, work, call, stage, found, reply>>
  BY DEF Descend, tree
<1>2. TypeOK' /\ CallOK' /\ FoundIsSettled'
  BY <1>1 DEF IInv, TypeOK, CallOK, FoundIsSettled, Searching, Idle
<1>3. at \in DOMAIN vantage /\ threshold[at] # NoThreshold
  BY <1>1, SlotIsOnSide DEF IInv, LeavesHaveNoThreshold
<1>4. WalkOK'
  <2> SUFFICES ASSUME NEW a \in DOMAIN vantage, IsBelow(Slot, a)
               PROVE  OnSide(Slot[Len(a) + 1], Here(a), threshold[a])
    BY <1>1 DEF WalkOK, Here, Away
  <2>1. a \in Path
    BY <1>1 DEF IInv, TypeOK, Path
  <2> QED
    BY <2>1, <1>1, <1>3, SlotIsOnSide
<1> QED
  BY <1>1, <1>2, <1>4, TreeKept DEF IInv

\* The new leaf is on its side of the nodes above it, and nothing is below it.
LEMMA StepAttach == ASSUME IInv, Attach PROVE IInv'
<1>0. /\ TypeOK /\ ThresholdsSeparate /\ PrefixClosed /\ ThresholdsAreDistances
      /\ LeavesHaveNoThreshold /\ CallOK
  BY DEF IInv
<1> DEFINE t == IF threshold[at] = NoThreshold THEN Here(at) ELSE threshold[at]
           n == Len(stored) + 1
<1>1. /\ call.op = "insert" /\ Slot \notin DOMAIN vantage
      /\ stored' = Append(stored, call.text) /\ call' = Idle /\ at' = Root
      /\ DOMAIN vantage' = DOMAIN vantage \cup {Slot}
      /\ DOMAIN threshold' = DOMAIN vantage \cup {Slot}
      /\ vantage'[Slot] = n /\ \A a \in DOMAIN vantage : vantage'[a] = vantage[a]
      /\ UNCHANGED <<work, stage, found, reply>>
  BY DEF Attach
<1>2. /\ at \in DOMAIN vantage /\ at \in Path /\ Slot \in Path /\ IsBelow(Slot, at)
      /\ call.text \in Text /\ Here(at) \in Nat
      /\ OnSide(Slot[Len(at) + 1], Here(at), t)
      /\ \A a \in Path : IsBelow(Slot, a) =>
            \/ a = at
            \/ IsBelow(at, a) /\ OnSide(Slot[Len(a) + 1], Here(a), threshold[a])
  BY <1>1, SlotIsOnSide
<1>3. /\ threshold'[Slot] = NoThreshold /\ threshold'[at] = t
      /\ \A a \in DOMAIN vantage : a # at => threshold'[a] = threshold[a]
  <2>1. threshold' = [a \in DOMAIN vantage \cup {Slot} |->
                        CASE a = Slot -> NoThreshold
                          [] a = at /\ threshold[at] = NoThreshold -> Here(at)
                          [] OTHER -> threshold[a]]
    BY DEF Attach
  <2> HIDE DEF t
  <2>2. at # Slot
    BY <1>1, <1>2
  <2>3. threshold'[Slot] = NoThreshold
    BY <2>1, <2>2
  <2>4. ASSUME NEW a \in DOMAIN vantage, a # at
        PROVE  threshold'[a] = threshold[a]
    BY <2>1, <2>4, <1>1
  <2>5. threshold'[at] = t
    BY <2>1, <2>2, <1>2 DEF t
  <2> QED
    BY <2>3, <2>4, <2>5
<1>4. /\ work = << >> /\ stored # << >> /\ reply = NoReply /\ stage = Visiting /\ found = {}
  BY <1>0, <1>1 DEF CallOK, Idle, Searching
<1>5. /\ stored \in Seq(Text) /\ Len(stored) \in Nat /\ n \in Nat
      /\ stored' \in Seq(Text) /\ stored' # << >>
      /\ (\A e \in 1 .. Len(stored) : stored'[e] = stored[e]) /\ stored'[n] = call.text
      /\ DOMAIN stored = 1 .. Len(stored) /\ DOMAIN stored' = 1 .. n
  <2>1. stored \in Seq(Text) /\ DOMAIN stored = 1 .. Len(stored) /\ Len(stored) \in Nat
    BY <1>0, LenProperties DEF TypeOK
  <2>2. stored' \in Seq(Text) /\ Len(stored') = n /\ stored' # << >>
        /\ (\A e \in 1 .. Len(stored) : stored'[e] = stored[e]) /\ stored'[n] = call.text
    BY <2>1, <1>1, <1>2, AppendProperties
  <2>3. DOMAIN stored' = 1 .. n
    BY <2>2, LenProperties
  <2> QED
    BY <2>1, <2>2, <2>3
<1> HIDE DEF t, n
<1>6. /\ DOMAIN vantage \subseteq Path /\ DOMAIN threshold = DOMAIN vantage
      /\ \A a \in DOMAIN vantage : vantage[a] \in 1 .. Len(stored) /\ ~IsBelow(a, Slot)
  BY <1>0, <1>1, <1>2, <1>5 DEF TypeOK, PrefixClosed, Path
<1>7. ~IsBelow(Slot, Slot) /\ ~IsBelow(at, at)
  BY <1>2 DEF IsBelow, Path
<1>8. \A a \in DOMAIN vantage : IsBelow(Slot, a) => OnSide(Slot[Len(a) + 1], Here(a), threshold'[a])
  BY <1>2, <1>3, <1>6, <1>7
<1>9. \A a, b \in DOMAIN vantage : IsBelow(b, a) => threshold[a] # NoThreshold /\ threshold'[a] = threshold[a]
  BY <1>0, <1>3 DEF LeavesHaveNoThreshold, t
<1>10. ThresholdsSeparate'
  <2> SUFFICES ASSUME NEW a \in DOMAIN vantage', NEW b \in DOMAIN vantage', IsBelow(b, a)
               PROVE  OnSide(b[Len(a) + 1], Dist(stored'[vantage'[a]], stored'[vantage'[b]]), threshold'[a])
    BY DEF ThresholdsSeparate, OnSide, Between
  <2>1. CASE a \in DOMAIN vantage /\ b \in DOMAIN vantage
    <3>1. OnSide(b[Len(a) + 1], Dist(stored[vantage[a]], stored[vantage[b]]), threshold[a])
      BY <2>1, <1>0 DEF ThresholdsSeparate, OnSide, Between
    <3>2. /\ stored'[vantage'[a]] = stored[vantage[a]] /\ stored'[vantage'[b]] = stored[vantage[b]]
          /\ threshold'[a] = threshold[a]
      BY <2>1, <1>1, <1>5, <1>6, <1>9
    <3> QED
      BY <3>1, <3>2
  <2>2. CASE a \in DOMAIN vantage /\ b = Slot
    <3>1. stored'[vantage'[a]] = stored[vantage[a]] /\ stored'[vantage'[b]] = call.text
      BY <2>2, <1>1, <1>5, <1>6
    <3>2. OnSide(b[Len(a) + 1], Dist(stored[vantage[a]], call.text), threshold'[a])
      BY <2>2, <1>8 DEF Here, Away
    <3> QED
      BY <3>1, <3>2
  <2>3. a # Slot
    BY <1>1, <1>6, <1>7
  <2> QED
    BY <2>1, <2>2, <2>3, <1>1
<1>11. PrefixClosed'
  <2> SUFFICES ASSUME NEW p \in DOMAIN vantage', NEW a \in Path, IsBelow(p, a)
               PROVE  a \in DOMAIN vantage'
    BY DEF PrefixClosed
  <2> QED
    BY <1>0, <1>1, <1>2 DEF PrefixClosed
<1>12. ThresholdsAreDistances'
  <2>1. \E x, y \in Text : Here(at) = Dist(x, y)
    BY <1>0, <1>2, EntryIsText DEF Here, Away, TypeOK
  <2>2. t # NoThreshold => \E x, y \in Text : t = Dist(x, y)
    BY <2>1, <1>0, <1>2 DEF ThresholdsAreDistances, t
  <2> SUFFICES ASSUME NEW a \in DOMAIN vantage', threshold'[a] # NoThreshold
               PROVE  \E x, y \in Text : threshold'[a] = Dist(x, y)
    BY DEF ThresholdsAreDistances
  <2> QED
    BY <2>2, <1>0, <1>1, <1>3 DEF ThresholdsAreDistances
<1>13. LeavesHaveNoThreshold'
  <2> SUFFICES ASSUME NEW a \in DOMAIN vantage', NEW p \in DOMAIN vantage', IsBelow(p, a)
               PROVE  threshold'[a] # NoThreshold
    BY DEF LeavesHaveNoThreshold
  <2>1. t # NoThreshold
    BY <1>2 DEF t, NoThreshold
  <2>2. CASE p \in DOMAIN vantage
    BY <2>2, <1>1, <1>6, <1>9
  <2>3. CASE p = Slot
    <3>1. a = at \/ (IsBelow(at, a) /\ a \in DOMAIN vantage /\ a # at)
      BY <2>3, <1>1, <1>2, <1>6, <1>7
    <3> QED
      BY <3>1, <2>1, <1>2, <1>3, <1>9
  <2> QED
    BY <2>2, <2>3, <1>1
<1>14. TypeOK'
  <2>1. Root \in DOMAIN vantage
    BY <1>0, <1>4, RootIsThere
  <2>2. \A a \in DOMAIN vantage' : vantage'[a] \in DOMAIN stored'
    BY <1>1, <1>5, <1>6 DEF n
  <2>3. \A a \in DOMAIN vantage' : threshold'[a] \in Nat \cup {NoThreshold}
    BY <1>0, <1>1, <1>2, <1>3 DEF TypeOK, t
  <2>4. \A a, b \in DOMAIN vantage' : vantage'[a] = vantage'[b] => a = b
    BY <1>0, <1>1, <1>5, <1>6 DEF TypeOK, n
  <2>5. ASSUME NEW e \in DOMAIN stored'
        PROVE  \E a \in DOMAIN vantage' : vantage'[a] = e
    <3>1. CASE e = n
      BY <3>1, <1>1
    <3>2. CASE e # n
      <4>1. e \in DOMAIN stored /\ DOMAIN work = {}
        BY <3>2, <2>5, <1>4, <1>5 DEF n
      <4>2. PICK a \in DOMAIN vantage : vantage[a] = e
        BY <4>1, <1>0 DEF TypeOK
      <4> QED
        BY <4>2, <1>1
    <3> QED
      BY <3>1, <3>2
  <2>6. DOMAIN vantage' \subseteq Seq(Side) /\ DOMAIN threshold' = DOMAIN vantage'
    BY <1>1, <1>2, <1>6 DEF Path
  <2> QED
    BY <2>1, <2>2, <2>3, <2>4, <2>5, <2>6, <1>1, <1>4, <1>5 DEF TypeOK, Visiting, Over
<1>15. WorkOK'
  BY <1>1, <1>4 DEF WorkOK
<1>16. CallOK' /\ WalkOK' /\ FoundIsSettled'
  BY <1>1, <1>4, <1>5 DEF CallOK, WalkOK, FoundIsSettled, Idle, Searching
<1> QED
  BY <1>10, <1>11, <1>12, <1>13, <1>14, <1>15, <1>16 DEF IInv

-----------------------------------------------------------------------------
(* Where the search is *)

LEMMA SidesAreTwo ==
    ASSUME NEW a
    PROVE  /\ SideOf(a, First) \in Side /\ SideOf(a, Second) \in Side
           /\ SideOf(a, First) # SideOf(a, Second)
           /\ \A s \in Side : s = SideOf(a, First) \/ s = SideOf(a, Second)
BY DEF SideOf, Side, First, Second

\* A search that enters a subtree has settled what its caller had.
LEMMA EnteringSettlesNothing ==
    ASSUME NEW n \in DOMAIN vantage, NEW g \in {First, Second}, NEW p \in Path,
           DOMAIN vantage \subseteq Path, NEW c, c = Append(n, SideOf(n, g))
    PROVE  Settled(p, c, Visiting) <=> Settled(p, n, g)
<1>1. n \in Path /\ SideOf(n, g) \in Side
  BY SidesAreTwo
<1>2. c \in Path /\ c[Len(n) + 1] = SideOf(n, g) /\ IsBelow(c, n)
  BY <1>1, AppendIsPath
<1>3. \A a \in Path : IsBelow(c, a) => a = n \/ (IsBelow(n, a) /\ c[Len(a) + 1] = n[Len(a) + 1])
  BY <1>1, AboveAppend
<1>4. \A a \in Path : IsBelow(n, a) => IsBelow(c, a) /\ c[Len(a) + 1] = n[Len(a) + 1]
  BY <1>1, BelowAppend
<1>5. g # Visiting /\ g # Over /\ Visiting # Over /\ Visiting # Second
  BY DEF First, Second, Visiting, Over
<1>6. Visited(p, c, Visiting) <=> Visited(p, n, g)
  BY <1>1, <1>2, <1>3, <1>4, <1>5 DEF Visited
<1>7. ~PassedHere(p, c, Visiting)
  BY <1>5 DEF PassedHere
<1>8. ASSUME PassedAbove(p, c) PROVE PassedAbove(p, n) \/ PassedHere(p, n, g)
  <2>1. PICK a \in DOMAIN vantage : /\ IsBelow(p, a) /\ p[Len(a) + 1] = SideOf(a, First)
                                    /\ IsBelow(c, a) /\ c[Len(a) + 1] = SideOf(a, Second)
    BY <1>8 DEF PassedAbove
  <2>2. CASE a = n
    <3>1. g = Second
      BY <2>1, <2>2, <1>2, SidesAreTwo
    <3> QED
      BY <3>1, <2>1, <2>2 DEF PassedHere
  <2>3. CASE IsBelow(n, a) /\ c[Len(a) + 1] = n[Len(a) + 1]
    BY <2>1, <2>3 DEF PassedAbove
  <2> QED
    BY <2>1, <2>2, <2>3, <1>3
<1>9. PassedAbove(p, n) => PassedAbove(p, c)
  BY <1>4 DEF PassedAbove
<1>10. ASSUME PassedHere(p, n, g) PROVE PassedAbove(p, c)
  <2>1. g = Second /\ IsBelow(p, n) /\ p[Len(n) + 1] = SideOf(n, First)
    BY <1>5, <1>10 DEF PassedHere
  <2> QED
    BY <2>1, <1>2 DEF PassedAbove
<1> QED
  BY <1>6, <1>7, <1>8, <1>9, <1>10 DEF Settled

\* A search that returns from a subtree leaves it settled, and nothing more.
LEMMA LeavingSettlesNothing ==
    ASSUME NEW n \in DOMAIN vantage, NEW s \in Side, NEW p \in Path,
           DOMAIN vantage \subseteq Path, NEW c, c = Append(n, s),
           NEW g, g = IF SideOf(n, First) = s THEN Second ELSE Over
    PROVE  Settled(p, n, g) <=> Settled(p, c, Over)
<1>1. n \in Path /\ (s = SideOf(n, First) \/ s = SideOf(n, Second))
  BY SidesAreTwo
<1>2. c \in Path /\ c[Len(n) + 1] = s /\ IsBelow(c, n)
  BY <1>1, AppendIsPath
<1>3. \A a \in Path : IsBelow(c, a) => a = n \/ (IsBelow(n, a) /\ c[Len(a) + 1] = n[Len(a) + 1])
  BY <1>1, AboveAppend
<1>4. \A a \in Path : IsBelow(n, a) => IsBelow(c, a) /\ c[Len(a) + 1] = n[Len(a) + 1]
  BY <1>1, BelowAppend
<1>5. g # Visiting /\ Over # Visiting /\ Over # Second
  BY DEF Second, Visiting, Over
<1>6. g = Over <=> s = SideOf(n, Second)
  BY <1>1, <1>5, SidesAreTwo
<1>7. g = Second <=> s = SideOf(n, First)
  BY <1>5
<1>8. ASSUME IsBelow(p, n), p[Len(n) + 1] = s
      PROVE  p = c \/ IsBelow(p, c)
  BY <1>1, <1>8, TowardChild
<1>9. ASSUME p = c \/ IsBelow(p, c)
      PROVE  IsBelow(p, n) /\ p[Len(n) + 1] = s
  <2>1. CASE p = c
    BY <2>1, <1>2
  <2>2. CASE IsBelow(p, c)
    <3>1. IsBelow(p, n) /\ p[Len(n) + 1] = c[Len(n) + 1]
      BY <2>2, <1>1, <1>2, BelowIsTransitive, ZenonT(40)
    <3> QED
      BY <3>1, <1>2
  <2> QED
    BY <2>1, <2>2, <1>9
<1>10. ASSUME Settled(p, n, g) PROVE Settled(p, c, Over)
  <2>1. CASE Visited(p, n, g)
    BY <2>1, <1>2, <1>4 DEF Settled, Visited
  <2>2. CASE PassedAbove(p, n)
    BY <2>2, <1>4 DEF Settled, PassedAbove
  <2>3. CASE PassedHere(p, n, g)
    <3>1. IsBelow(p, n) /\ p[Len(n) + 1] \in Side
      BY <2>3, <1>1, BelowIsPath DEF PassedHere
    <3>2. CASE p[Len(n) + 1] = s
      BY <3>1, <3>2, <1>5, <1>8 DEF Settled, Visited, PassedHere
    <3>3. CASE p[Len(n) + 1] # s
      <4>1. p[Len(n) + 1] = SideOf(n, First) /\ s = SideOf(n, Second)
        BY <3>1, <3>3, <2>3, <1>1, <1>6, <1>7, SidesAreTwo DEF PassedHere
      <4> QED
        BY <4>1, <3>1, <1>2 DEF Settled, PassedAbove
    <3> QED
      BY <3>2, <3>3
  <2> QED
    BY <2>1, <2>2, <2>3, <1>10 DEF Settled
<1>11. ASSUME Settled(p, c, Over) PROVE Settled(p, n, g)
  <2>1. CASE IsBelow(c, p)
    BY <2>1, <1>3, <1>5 DEF Settled, Visited
  <2>2. CASE p = c \/ IsBelow(p, c)
    BY <2>2, <1>1, <1>6, <1>7, <1>9 DEF Settled, PassedHere
  <2>3. CASE PassedAbove(p, c)
    <3>1. PICK a \in DOMAIN vantage : /\ IsBelow(p, a) /\ p[Len(a) + 1] = SideOf(a, First)
                                      /\ IsBelow(c, a) /\ c[Len(a) + 1] = SideOf(a, Second)
      BY <2>3 DEF PassedAbove
    <3>2. CASE a = n
      BY <3>1, <3>2, <1>2, <1>6 DEF Settled, PassedHere
    <3>3. CASE IsBelow(n, a) /\ c[Len(a) + 1] = n[Len(a) + 1]
      BY <3>1, <3>3 DEF Settled, PassedAbove
    <3> QED
      BY <3>1, <3>2, <3>3, <1>3
  <2> QED
    BY <2>1, <2>2, <2>3, <1>11 DEF Settled, Visited, PassedHere
<1> QED
  BY <1>10, <1>11

\* Passing a subtree settles what is on its side of the node.
LEMMA PassingSettlesASide ==
    ASSUME NEW n \in Path, NEW g \in {First, Second}, NEW p \in Path
    PROVE  /\ Settled(p, n, g) => Settled(p, n, g + 1)
           /\ Settled(p, n, g + 1) =>
                 \/ Settled(p, n, g)
                 \/ IsBelow(p, n) /\ p[Len(n) + 1] = SideOf(n, g)
<1>1. /\ First # Visiting /\ Second # Visiting /\ Over # Visiting /\ First # Second
      /\ First # Over /\ Second # Over /\ First + 1 = Second /\ Second + 1 = Over
  BY DEF First, Second, Visiting, Over
<1>2. Visited(p, n, g) <=> Visited(p, n, g + 1)
  BY <1>1 DEF Visited
<1>3. CASE g = First
  BY <1>1, <1>2, <1>3 DEF Settled, PassedHere
<1>4. CASE g = Second
  <2>1. IsBelow(p, n) => p[Len(n) + 1] = SideOf(n, First) \/ p[Len(n) + 1] = SideOf(n, Second)
    BY BelowIsPath, SidesAreTwo
  <2> QED
    BY <2>1, <1>1, <1>2, <1>4 DEF Settled, PassedHere
<1> QED
  BY <1>3, <1>4

\* The search's node is settled by the visit, and by nothing before it.
LEMMA VisitSettlesTheNode ==
    ASSUME NEW n \in Path, NEW p \in Path
    PROVE  /\ ~Settled(n, n, Visiting)
           /\ Settled(p, n, First) <=> Settled(p, n, Visiting) \/ p = n
<1>1. First # Visiting /\ First # Over /\ First # Second /\ Visiting # Over /\ Visiting # Second
  BY DEF First, Second, Visiting, Over
<1>2. ~IsBelow(n, n)
  BY DEF IsBelow, Path
<1>3. ~PassedAbove(n, n)
  BY SidesAreTwo DEF PassedAbove
<1> QED
  BY <1>1, <1>2, <1>3 DEF Settled, Visited, PassedHere

-----------------------------------------------------------------------------
(* The steps of a search *)

LEMMA SearchFacts ==
    ASSUME IInv, Searching
    PROVE  /\ stored # << >> /\ reply = NoReply /\ work = << >> /\ call.text \in Text
           /\ call.op = "within" \/ call.op = "nearest"
           /\ call.op = "within" => call.bound \in Radii
           /\ call.op = "nearest" => call.bound \in Ks /\ call.bound # 0
           /\ at \in DOMAIN vantage /\ at \in Path /\ DOMAIN vantage \subseteq Path
           /\ \A p \in DOMAIN vantage : vantage[p] \in DOMAIN stored /\ Here(p) \in Nat
           /\ \A e \in DOMAIN stored : Away(e) \in Nat
<1>1. /\ stored # << >> /\ reply = NoReply /\ work = << >> /\ call.text \in Text
      /\ call.op = "within" \/ call.op = "nearest"
      /\ call.op = "within" => call.bound \in Radii
      /\ call.op = "nearest" => call.bound \in Ks /\ call.bound # 0
  BY DEF IInv, CallOK, Searching, Idle
<1>2. /\ at \in DOMAIN vantage /\ DOMAIN vantage \subseteq Path
      /\ \A p \in DOMAIN vantage : vantage[p] \in DOMAIN stored
  BY <1>1 DEF IInv, TypeOK, Path
<1>3. \A e \in DOMAIN stored : Away(e) \in Nat
  BY <1>1, EntryIsText, DistanceIsNat DEF IInv, Away
<1>4. \A p \in DOMAIN vantage : Here(p) \in Nat
  BY <1>2, <1>3 DEF Here
<1> QED
  BY <1>1, <1>2, <1>3, <1>4

\* A step that only moves the search keeps everything but what it has found.
LEMMA MoveKeeps ==
    ASSUME IInv, Searching, UNCHANGED <<stored, vantage, threshold, work, call, reply>>,
           at' \in DOMAIN vantage, stage' \in Visiting .. Over, found' \subseteq DOMAIN stored
    PROVE  /\ TypeOK' /\ ThresholdsSeparate' /\ PrefixClosed' /\ ThresholdsAreDistances'
           /\ LeavesHaveNoThreshold' /\ CallOK' /\ WorkOK' /\ WalkOK'
<1>1. TypeOK'
  BY DEF IInv, TypeOK
<1>2. CallOK' /\ WalkOK'
  BY DEF IInv, CallOK, WalkOK, Searching, Idle
<1> QED
  BY <1>1, <1>2, TreeKept

LEMMA SettledKept ==
    ASSUME UNCHANGED <<stored, vantage, threshold, call>>, NEW p
    PROVE  Settled(p, at, stage)' <=> Settled(p, at', stage')
BY DEF Settled, Visited, PassedAbove, PassedHere, SideOf, Here, Away

\* A step that finds nothing may settle the nodes it may leave out.
LEMMA NothingFound ==
    ASSUME IInv, Searching, UNCHANGED <<stored, vantage, threshold, call, found>>,
           \A p \in DOMAIN vantage : Settled(p, at, stage) => Settled(p, at', stage'),
           \A p \in DOMAIN vantage :
              Settled(p, at', stage') => Settled(p, at, stage) \/ MayOmit(p)
    PROVE  FoundIsSettled'
<1>1. \A p \in DOMAIN vantage : Settled(p, at, stage)' <=> Settled(p, at', stage')
  BY SettledKept
<1>2. \A p \in DOMAIN vantage : MayOmit(p)' <=> MayOmit(p)
  BY DEF MayOmit, Here, Away
<1>3. FoundIsSettled
  BY DEF IInv
<1>4. \A e \in found' : \E p \in DOMAIN vantage' : vantage'[p] = e /\ Settled(p, at, stage)'
  BY <1>1, <1>3 DEF FoundIsSettled
<1>5. \A p \in DOMAIN vantage' : Settled(p, at, stage)' => vantage'[p] \in found' \/ MayOmit(p)'
  BY <1>1, <1>2, <1>3 DEF FoundIsSettled
<1> QED
  BY <1>3, <1>4, <1>5 DEF FoundIsSettled, Away

LEMMA StepFindNothing ==
    ASSUME IInv, NEW op, NEW q, NEW bound, FindNothing(op, q, bound)
    PROVE  IInv'
<1>1. /\ IInv /\ call = Idle
      /\ UNCHANGED <<stored, vantage, threshold, work, call, at, stage, found>>
  BY DEF FindNothing, tree
<1>2. TypeOK'
  BY <1>1 DEF IInv, TypeOK
<1>3. CallOK' /\ WalkOK' /\ FoundIsSettled'
  BY <1>1 DEF IInv, CallOK, WalkOK, FoundIsSettled, Idle, Searching
<1> QED
  BY <1>1, <1>2, <1>3, TreeKept DEF IInv

LEMMA StepBeginFind ==
    ASSUME IInv, NEW op \in {"within", "nearest"}, NEW q \in Queries, NEW bound,
           op = "within" => bound \in Radii, op = "nearest" => bound \in Ks,
           BeginFind(op, q, bound)
    PROVE  IInv'
<1>1. /\ IInv /\ call = Idle /\ stored # << >> /\ ~(op = "nearest" /\ bound = 0)
      /\ call' = [op |-> op, text |-> q, bound |-> bound] /\ reply' = NoReply
      /\ UNCHANGED <<stored, vantage, threshold, work, at, stage, found>>
  BY DEF BeginFind, tree
<1>2. work = << >> /\ at = Root /\ stage = Visiting /\ found = {} /\ q \in Text
  BY <1>1, MetricAssumption DEF IInv, CallOK, Idle, Searching
<1>3. TypeOK'
  BY <1>1 DEF IInv, TypeOK, Idle
<1>4. CallOK' /\ WalkOK'
  BY <1>1, <1>2 DEF CallOK, WalkOK, Idle, Searching
<1>5. FoundIsSettled'
  <2>1. \A p \in DOMAIN vantage : ~IsBelow(Root, p)
    BY <1>1, RootIsAbove DEF IInv, TypeOK, Path
  <2>2. ASSUME NEW p \in DOMAIN vantage PROVE ~Settled(p, at, stage)'
    BY <2>1, <1>1, <1>2 DEF Settled, Visited, PassedAbove, PassedHere, Visiting, Second, Over
  <2>3. found' = {} /\ DOMAIN vantage' = DOMAIN vantage /\ Cardinality(found') = 0
    BY <1>1, <1>2, FS_EmptySet
  <2>4. call'.op = "nearest" => call'.bound \in Nat
    BY <1>1, VpAssumption
  <2> QED
    BY <2>2, <2>3, <2>4 DEF FoundIsSettled
<1> QED
  BY <1>1, <1>3, <1>4, <1>5, TreeKept DEF IInv

LEMMA StepEnter == ASSUME IInv, Enter PROVE IInv'
<1>1. /\ Searching /\ stage \in {First, Second} /\ Child \in DOMAIN vantage
      /\ at' = Child /\ stage' = Visiting
      /\ UNCHANGED <<stored, vantage, threshold, work, call, found, reply>>
  BY DEF Enter, tree
<1>2. at \in DOMAIN vantage /\ DOMAIN vantage \subseteq Path /\ found \subseteq DOMAIN stored
  BY <1>1, SearchFacts DEF IInv, TypeOK
<1>3. \A p \in DOMAIN vantage : Settled(p, at', stage') <=> Settled(p, at, stage)
  <2> SUFFICES ASSUME NEW p \in DOMAIN vantage
               PROVE  Settled(p, Child, Visiting) <=> Settled(p, at, stage)
    BY <1>1
  <2> QED
    BY <1>1, <1>2, EnteringSettlesNothing DEF Child
<1>4. FoundIsSettled'
  BY <1>1, <1>3, NothingFound
<1>5. stage' \in Visiting .. Over
  BY <1>1 DEF Visiting, Over
<1> QED
  BY <1>1, <1>2, <1>4, <1>5, MoveKeeps DEF IInv

LEMMA StepLeave == ASSUME IInv, Leave PROVE IInv'
<1> DEFINE n == Parent(at)
           s == at[Len(at)]
<1>1. /\ Searching /\ stage = Over /\ at # Root /\ at' = n
      /\ stage' = (IF SideOf(n, First) = s THEN Second ELSE Over)
      /\ UNCHANGED <<stored, vantage, threshold, work, call, found, reply>>
  BY DEF Leave, tree
<1>2. /\ at \in DOMAIN vantage /\ at \in Path /\ DOMAIN vantage \subseteq Path
      /\ found \subseteq DOMAIN stored
  BY <1>1, SearchFacts DEF IInv, TypeOK
<1>3. n \in Path /\ s \in Side /\ at = Append(n, s) /\ IsBelow(at, n)
  BY <1>1, <1>2, ParentIsAbove
<1> HIDE DEF n, s
<1>4. n \in DOMAIN vantage
  BY <1>2, <1>3 DEF IInv, PrefixClosed
<1>5. \A p \in DOMAIN vantage : Settled(p, at', stage') <=> Settled(p, at, stage)
  <2> SUFFICES ASSUME NEW p \in DOMAIN vantage
               PROVE  Settled(p, n, stage') <=> Settled(p, at, Over)
    BY <1>1
  <2> QED
    BY <1>1, <1>2, <1>3, <1>4, LeavingSettlesNothing
<1>6. FoundIsSettled'
  BY <1>1, <1>5, NothingFound
<1>7. stage' \in Visiting .. Over
  BY <1>1 DEF Visiting, Over, Second
<1> QED
  BY <1>1, <1>2, <1>4, <1>6, <1>7, MoveKeeps DEF IInv

LEMMA FarthestExists ==
    ASSUME IInv, Searching, found # {}
    PROVE  Farthest # {}
<1>1. /\ call.text \in Text /\ found \subseteq DOMAIN stored /\ Modulus \in Nat
      /\ \A f \in found : Away(f) \in Nat
  BY SearchFacts, MetricAssumption DEF IInv, TypeOK
<1>2. ASSUME NEW f \in found PROVE Modulus - Away(f) \in Nat
  <2>1. stored[f] \in Text
    BY <1>1, EntryIsText DEF IInv
  <2>2. Away(f) + Away(f) < Modulus
    BY <2>1, <1>1, MetricAssumption DEF Away
  <2> QED
    BY <2>2, <1>1
<1> DEFINE T == { Modulus - Away(f) : f \in found }
<1>3. T \subseteq Nat /\ T # {}
  BY <1>2
<1> HIDE DEF T
<1>4. PICK x \in T : \A y \in T : x <= y
  BY <1>3, LeastNatural
<1>5. PICK w \in found : x = Modulus - Away(w)
  BY DEF T
<1>6. ASSUME NEW f \in found PROVE Away(f) <= Away(w)
  <2>1. x <= Modulus - Away(f)
    BY <1>4 DEF T
  <2> QED
    BY <2>1, <1>1, <1>5
<1> QED
  BY <1>6 DEF Farthest

\* A subtree that is not promising holds nothing the answer lacks.
LEMMA UnpromisingMayBeOmitted ==
    ASSUME IInv, Searching, NEW side \in Side, ~IsPromising(side),
           NEW p \in DOMAIN vantage, IsBelow(p, at), p[Len(at) + 1] = side
    PROVE  MayOmit(p)
<1>0. IInv
  OBVIOUS
<1>1. /\ call.text \in Text /\ at \in DOMAIN vantage /\ Here(p) \in Nat
      /\ call.op = "within" \/ call.op = "nearest"
      /\ call.op = "within" => call.bound \in Radii
      /\ call.op = "nearest" => call.bound \in Nat /\ call.bound # 0
      /\ stored[vantage[at]] \in Text /\ stored[vantage[p]] \in Text
  BY SearchFacts, EntryIsText, VpAssumption DEF IInv
<1> DEFINE v == stored[vantage[at]]
           y == stored[vantage[p]]
           q == call.text
           t == threshold[at]
<1>2. v \in Text /\ y \in Text /\ q \in Text
  BY <1>1
<1>3. t \in Nat /\ OnSide(side, Dist(v, y), t)
  <2>1. t # NoThreshold /\ t \in Nat \cup {NoThreshold}
    BY <1>0, <1>1 DEF IInv, LeavesHaveNoThreshold, TypeOK
  <2>2. OnSide(side, Dist(v, y), t)
    BY <1>0, <1>1 DEF IInv, ThresholdsSeparate, OnSide, Between
  <2> QED
    BY <2>1, <2>2
<1>4. PICK x, z \in Text : t = Dist(x, z)
  BY <1>0, <1>1, <1>3 DEF IInv, ThresholdsAreDistances, NoThreshold
<1>5. \A r \in Nat : MayHold(side, r) <=>
         (IF side = "inside" THEN Dist(v, q) <= Plus(t, r) ELSE Plus(Dist(v, q), r) >= t)
  BY DEF MayHold, Here, Away
<1>6. Here(p) = Dist(y, q)
  BY DEF Here, Away
<1>7. ASSUME NEW r \in Nat, t + r < Modulus, Dist(v, q) + r < Modulus, ~MayHold(side, r)
      PROVE  r < Here(p)
  <2> HIDE DEF v, y, q, t
  <2> QED
    BY <1>2, <1>3, <1>5, <1>6, <1>7, PruningIsSound
<1>8. CASE call.op = "within"
  <2>1. call.bound \in Nat /\ call.bound \in Radii /\ ~MayHold(side, call.bound)
    BY <1>1, <1>8, MetricAssumption DEF IsPromising
  <2>2. t + call.bound < Modulus /\ Dist(v, q) + call.bound < Modulus
    BY <2>1, <1>2, <1>4, MetricAssumption
  <2>3. call.bound < Here(p)
    BY <2>1, <2>2, <1>7
  <2> QED
    BY <2>1, <2>3, <1>1, <1>8 DEF MayOmit
<1>9. CASE call.op = "nearest"
  <2>1. /\ ~(Cardinality(found) < call.bound) /\ \A w \in Farthest : ~MayHold(side, Away(w))
    BY <1>9 DEF IsPromising
  <2>2. /\ Cardinality(found) <= call.bound /\ found \subseteq DOMAIN stored
    BY <1>0, <1>9 DEF IInv, FoundIsSettled, TypeOK
  <2>3. Cardinality(found) \in Nat /\ \A f \in found : Away(f) \in Nat
    <3>1. IsFiniteSet(DOMAIN stored)
      <4>1. DOMAIN stored = 1 .. Len(stored) /\ Len(stored) \in Nat
        BY <1>0, LenProperties DEF IInv, TypeOK
      <4> QED
        BY <4>1, FS_Interval
    <3> QED
      BY <3>1, <2>2, <1>0, FS_Subset, FS_CardinalityType, SearchFacts
  <2>4. Cardinality(found) = call.bound
    BY <2>1, <2>2, <2>3, <1>1, <1>9
  <2>5. found # {}
    BY <2>4, <1>1, <1>9, FS_EmptySet
  <2>6. PICK w \in Farthest : TRUE
    BY <2>5, <1>0, FarthestExists
  <2>7. w \in found /\ \A f \in found : Away(f) <= Away(w)
    BY <2>6 DEF Farthest
  <2>8. t + Away(w) < Modulus /\ Dist(v, q) + Away(w) < Modulus
    <3>1. stored[w] \in Text
      BY <2>2, <2>7, <1>0, EntryIsText DEF IInv
    <3> QED
      BY <3>1, <1>2, <1>4, MetricAssumption DEF Away
  <2>9. Away(w) < Here(p)
    BY <2>1, <2>3, <2>6, <2>7, <2>8, <1>7
  <2>10. \A f \in found : Away(f) <= Here(p)
    BY <2>3, <2>7, <2>9, <1>1
  <2> QED
    BY <2>4, <2>10, <1>9 DEF MayOmit
<1> QED
  BY <1>1, <1>8, <1>9

LEMMA StepPass == ASSUME IInv, Pass PROVE IInv'
<1>0. IInv
  OBVIOUS
<1>1. /\ Searching /\ stage \in {First, Second} /\ stage' = stage + 1
      /\ ~(Child \in DOMAIN vantage /\ IsPromising(SideOf(at, stage)))
      /\ UNCHANGED <<stored, vantage, threshold, work, call, at, found, reply>>
  BY DEF Pass, tree
<1>2. at \in DOMAIN vantage /\ at \in Path /\ DOMAIN vantage \subseteq Path
      /\ found \subseteq DOMAIN stored
  BY <1>0, <1>1, SearchFacts DEF IInv, TypeOK
<1>3. ASSUME NEW p \in DOMAIN vantage
      PROVE  /\ Settled(p, at, stage) => Settled(p, at', stage')
             /\ Settled(p, at', stage') => Settled(p, at, stage) \/ MayOmit(p)
  <2>1. p \in Path
    BY <1>2
  <2>2. /\ Settled(p, at, stage) => Settled(p, at, stage + 1)
        /\ Settled(p, at, stage + 1) =>
              \/ Settled(p, at, stage)
              \/ IsBelow(p, at) /\ p[Len(at) + 1] = SideOf(at, stage)
    BY <2>1, <1>1, <1>2, PassingSettlesASide
  <2>3. ASSUME IsBelow(p, at), p[Len(at) + 1] = SideOf(at, stage)
        PROVE  MayOmit(p)
    <3>1. p = Child \/ IsBelow(p, Child)
      BY <2>1, <2>3, <1>2, TowardChild DEF Child
    <3>2. SideOf(at, stage) \in Side
      BY <1>1, SidesAreTwo
    <3>3. Child \in Path
      BY <3>2, <1>2, AppendIsPath DEF Child
    <3>4. Child \in DOMAIN vantage
      BY <3>1, <3>3, <1>0 DEF IInv, PrefixClosed
    <3>5. ~IsPromising(SideOf(at, stage))
      BY <3>4, <1>1
    <3> QED
      BY <3>2, <3>5, <2>3, <1>0, <1>1, UnpromisingMayBeOmitted
  <2> QED
    BY <2>2, <2>3, <1>1
<1>4. FoundIsSettled'
  BY <1>0, <1>1, <1>3, NothingFound
<1>5. stage' \in Visiting .. Over
  BY <1>1 DEF Visiting, First, Second, Over
<1> QED
  BY <1>0, <1>1, <1>2, <1>4, <1>5, MoveKeeps DEF IInv

LEMMA FoundIsFinite ==
    ASSUME IInv
    PROVE  /\ IsFiniteSet(DOMAIN stored) /\ Cardinality(DOMAIN stored) = Len(stored)
           /\ IsFiniteSet(found) /\ Cardinality(found) \in Nat
           /\ Cardinality(found) <= Len(stored) /\ Len(stored) \in Nat
           /\ found # DOMAIN stored => Cardinality(found) < Len(stored)
<1>1. DOMAIN stored = 1 .. Len(stored) /\ Len(stored) \in Nat /\ found \subseteq DOMAIN stored
  BY LenProperties DEF IInv, TypeOK
<1>2. IsFiniteSet(DOMAIN stored) /\ Cardinality(DOMAIN stored) = Len(stored)
  <2>1. IsFiniteSet(1 .. Len(stored)) /\ Cardinality(1 .. Len(stored)) = Len(stored)
    BY <1>1, FS_Interval
  <2> QED
    BY <2>1, <1>1
<1>3. IsFiniteSet(found) /\ Cardinality(found) <= Len(stored)
      /\ (found # DOMAIN stored => Cardinality(found) < Len(stored))
  <2>1. found \in SUBSET DOMAIN stored
    BY <1>1
  <2>2. /\ IsFiniteSet(found) /\ Cardinality(found) <= Cardinality(DOMAIN stored)
        /\ Cardinality(DOMAIN stored) = Cardinality(found) => DOMAIN stored = found
    BY <2>1, <1>2, FS_Subset
  <2>3. Cardinality(found) \in Nat
    BY <2>2, FS_CardinalityType
  <2> QED
    BY <2>2, <2>3, <1>1, <1>2
<1> QED
  BY <1>1, <1>2, <1>3, FS_CardinalityType

\* The visit of a k-nearest search: what it displaces, or turns away, is no
\* nearer than what it keeps.
LEMMA AdmittedIsRight ==
    ASSUME IInv, Searching, call.op = "nearest", stage = Visiting, NEW F,
           F \in Admitted(vantage[at])
    PROVE  /\ F \subseteq found \cup {vantage[at]} /\ Cardinality(F) <= call.bound
           /\ \A p \in DOMAIN vantage :
                 Settled(p, at, Visiting) \/ p = at =>
                    \/ vantage[p] \in F
                    \/ Cardinality(F) = call.bound /\ \A f \in F : Away(f) <= Here(p)
<1>0. IInv
  OBVIOUS
<1> DEFINE e == vantage[at]
<1>1. /\ at \in DOMAIN vantage /\ at \in Path /\ e \in DOMAIN stored /\ Here(at) = Away(e)
      /\ call.bound \in Nat /\ call.bound # 0
      /\ \A f \in DOMAIN stored : Away(f) \in Nat
      /\ \A p \in DOMAIN vantage : Here(p) \in Nat /\ Here(p) = Away(vantage[p])
  BY SearchFacts, VpAssumption DEF Here
<1>2. /\ IsFiniteSet(found) /\ Cardinality(found) \in Nat /\ found \subseteq DOMAIN stored
      /\ Cardinality(found) <= call.bound
  BY FoundIsFinite DEF IInv, TypeOK, FoundIsSettled
<1>3. \A p \in DOMAIN vantage : Settled(p, at, Visiting) =>
         \/ vantage[p] \in found
         \/ Cardinality(found) = call.bound /\ \A f \in found : Away(f) <= Here(p)
  BY DEF IInv, FoundIsSettled, MayOmit
<1>4. e \notin found
  <2> SUFFICES ASSUME e \in found PROVE FALSE
    OBVIOUS
  <2>1. PICK p \in DOMAIN vantage : vantage[p] = e /\ Settled(p, at, Visiting)
    BY <1>0 DEF IInv, FoundIsSettled
  <2>2. p = at
    BY <2>1, <1>1, <1>0 DEF IInv, TypeOK
  <2> QED
    BY <2>1, <2>2, <1>1, VisitSettlesTheNode
<1> HIDE DEF e
<1>5. CASE Cardinality(found) < call.bound
  <2>1. F = found \cup {e}
    BY <1>5 DEF Admitted, e
  <2>2. Cardinality(F) = Cardinality(found) + 1
    BY <2>1, <1>2, <1>4, FS_AddElement
  <2>3. F \subseteq found \cup {e} /\ Cardinality(F) <= call.bound
    BY <2>1, <2>2, <1>1, <1>2, <1>5
  <2>4. ASSUME NEW p \in DOMAIN vantage, Settled(p, at, Visiting) \/ p = at
        PROVE  vantage[p] \in F
    <3>1. CASE p = at
      BY <3>1, <2>1 DEF e
    <3>2. CASE Settled(p, at, Visiting)
      BY <3>2, <2>1, <1>1, <1>2, <1>3, <1>5
    <3> QED
      BY <3>1, <3>2, <2>4
  <2> QED
    BY <2>3, <2>4 DEF e
<1>6. CASE ~(Cardinality(found) < call.bound)
  <2>1. PICK w \in Farthest : F = IF Away(e) < Away(w) THEN (found \ {w}) \cup {e} ELSE found
    BY <1>6 DEF Admitted, e
  <2>2. /\ w \in found /\ Cardinality(found) = call.bound /\ Away(w) \in Nat
        /\ \A f \in found : Away(f) \in Nat /\ Away(f) <= Away(w)
    BY <2>1, <1>1, <1>2, <1>6 DEF Farthest
  <2>3. CASE Away(e) < Away(w)
    <3>1. F = (found \ {w}) \cup {e}
      BY <2>1, <2>3
    <3>2. Cardinality(F) = call.bound
      <4>1. IsFiniteSet(found \ {w}) /\ Cardinality(found \ {w}) = Cardinality(found) - 1
        BY <2>2, <1>2, FS_RemoveElement
      <4>2. Cardinality(F) = Cardinality(found \ {w}) + 1
        BY <4>1, <3>1, <1>4, FS_AddElement
      <4> QED
        BY <4>1, <4>2, <2>2, <1>1
    <3>3. \A f \in F : Away(f) \in Nat /\ Away(f) <= Away(w)
      BY <3>1, <2>2, <2>3, <1>1 DEF e
    <3>4. ASSUME NEW p \in DOMAIN vantage, Settled(p, at, Visiting) \/ p = at, vantage[p] \notin F
          PROVE  \A f \in F : Away(f) <= Here(p)
      <4>1. p # at /\ Settled(p, at, Visiting)
        BY <3>1, <3>4 DEF e
      <4>2. Here(p) \in Nat /\ Here(p) = Away(vantage[p])
        BY <1>1
      <4>3. Away(w) <= Here(p)
        <5>1. CASE vantage[p] \in found
          <6>1. vantage[p] = w
            BY <5>1, <3>1, <3>4
          <6> QED
            BY <6>1, <4>2
        <5>2. CASE vantage[p] \notin found
          BY <5>2, <4>1, <2>2, <1>3
        <5> QED
          BY <5>1, <5>2
      <4> QED
        BY <4>2, <4>3, <3>3, <2>2
    <3> QED
      BY <3>1, <3>2, <3>4, <1>1 DEF e
  <2>4. CASE ~(Away(e) < Away(w))
    <3>1. F = found
      BY <2>1, <2>4
    <3>2. ASSUME NEW p \in DOMAIN vantage, Settled(p, at, Visiting) \/ p = at, vantage[p] \notin F
          PROVE  \A f \in F : Away(f) <= Here(p)
      <4>1. CASE p = at
        <5>1. Away(w) <= Away(e) /\ Here(p) = Away(e)
          BY <4>1, <2>2, <2>4, <1>1 DEF e
        <5> QED
          BY <5>1, <3>1, <2>2, <1>1 DEF e
      <4>2. CASE Settled(p, at, Visiting)
        BY <4>2, <3>1, <3>2, <1>3
      <4> QED
        BY <4>1, <4>2, <3>2
    <3> QED
      BY <3>1, <3>2, <2>2, <1>1
  <2> QED
    BY <2>3, <2>4
<1> QED
  BY <1>5, <1>6

LEMMA StepVisit == ASSUME IInv, Visit PROVE IInv'
<1>0. IInv
  OBVIOUS
<1>1. /\ Searching /\ stage = Visiting /\ stage' = First /\ at' = at
      /\ UNCHANGED <<stored, vantage, threshold, work, call, reply>>
  BY DEF Visit, tree
<1>2. /\ at \in DOMAIN vantage /\ at \in Path /\ DOMAIN vantage \subseteq Path
      /\ vantage[at] \in DOMAIN stored /\ found \subseteq DOMAIN stored
      /\ call.op = "within" \/ call.op = "nearest"
  BY <1>0, <1>1, SearchFacts DEF IInv, TypeOK
<1>3. ASSUME NEW p \in DOMAIN vantage
      PROVE  Settled(p, at, stage)' <=> Settled(p, at, Visiting) \/ p = at
  <2>1. Settled(p, at, stage)' <=> Settled(p, at, First)
    BY <1>1, SettledKept
  <2>2. p \in Path
    BY <1>2
  <2> QED
    BY <2>1, <2>2, <1>2, VisitSettlesTheNode
<1>4. /\ found' \subseteq found \cup {vantage[at]}
      /\ call.op = "within" => \A e \in found' : Away(e) <= call.bound
      /\ call.op = "nearest" => Cardinality(found') <= call.bound
      /\ \A p \in DOMAIN vantage :
            Settled(p, at, Visiting) \/ p = at => vantage[p] \in found' \/ MayOmit(p)'
  <2>1. CASE call.op = "within"
    <3>1. found' = IF Here(at) <= call.bound THEN found \cup {vantage[at]} ELSE found
      BY <2>1 DEF Visit
    <3>2. \A e \in found : Away(e) <= call.bound
      BY <2>1, <1>0, <1>1 DEF IInv, FoundIsSettled
    <3>3. ASSUME NEW p \in DOMAIN vantage, Settled(p, at, Visiting) \/ p = at
          PROVE  vantage[p] \in found' \/ ~(Here(p) <= call.bound)
      <4>1. CASE p = at
        BY <4>1, <3>1
      <4>2. CASE Settled(p, at, Visiting)
        <5>1. vantage[p] \in found \/ ~(Here(p) <= call.bound)
          BY <4>2, <2>1, <1>0, <1>1 DEF IInv, FoundIsSettled, MayOmit
        <5> QED
          BY <5>1, <3>1
      <4> QED
        BY <4>1, <4>2, <3>3
    <3>4. \A p \in DOMAIN vantage : MayOmit(p)' <=> ~(Here(p) <= call.bound)
      BY <2>1, <1>1 DEF MayOmit, Here, Away
    <3>5. \A e \in found' : Away(e) <= call.bound
      BY <3>1, <3>2 DEF Here
    <3> QED
      BY <3>1, <3>3, <3>4, <3>5, <2>1
  <2>2. CASE call.op = "nearest"
    <3>1. found' \in Admitted(vantage[at])
      BY <2>2 DEF Visit
    <3>2. /\ found' \subseteq found \cup {vantage[at]} /\ Cardinality(found') <= call.bound
          /\ \A p \in DOMAIN vantage :
                Settled(p, at, Visiting) \/ p = at =>
                   \/ vantage[p] \in found'
                   \/ Cardinality(found') = call.bound /\ \A f \in found' : Away(f) <= Here(p)
      BY <3>1, <2>2, <1>0, <1>1, AdmittedIsRight
    <3>3. \A p \in DOMAIN vantage :
            MayOmit(p)' <=>
              Cardinality(found') = call.bound /\ \A f \in found' : Away(f) <= Here(p)
      BY <2>2, <1>1 DEF MayOmit, Here, Away
    <3> QED
      BY <3>2, <3>3, <2>2
  <2> QED
    BY <2>1, <2>2, <1>2
<1>5. FoundIsSettled'
  <2>1. ASSUME NEW e \in found'
        PROVE  \E p \in DOMAIN vantage' : vantage'[p] = e /\ Settled(p, at, stage)'
    <3>1. CASE e = vantage[at]
      BY <3>1, <1>1, <1>2, <1>3
    <3>2. CASE e \in found
      <4>1. PICK p \in DOMAIN vantage : vantage[p] = e /\ Settled(p, at, Visiting)
        BY <3>2, <1>0, <1>1 DEF IInv, FoundIsSettled
      <4> QED
        BY <4>1, <1>1, <1>3
    <3> QED
      BY <3>1, <3>2, <2>1, <1>4
  <2>2. \A p \in DOMAIN vantage' : Settled(p, at, stage)' => vantage'[p] \in found' \/ MayOmit(p)'
    BY <1>1, <1>3, <1>4
  <2>3. call'.op = "within" => \A e \in found' : Away(e)' <= call'.bound
    BY <1>1, <1>4 DEF Away
  <2>4. call'.op = "nearest" => Cardinality(found') <= call'.bound
    BY <1>1, <1>4
  <2> QED
    BY <2>1, <2>2, <2>3, <2>4 DEF FoundIsSettled
<1>6. found' \subseteq DOMAIN stored /\ stage' \in Visiting .. Over
  BY <1>1, <1>2, <1>4 DEF Visiting, Over, First
<1> QED
  BY <1>0, <1>1, <1>2, <1>5, <1>6, MoveKeeps DEF IInv

LEMMA StepReturn == ASSUME IInv, Return PROVE IInv'
<1>1. /\ IInv /\ Searching /\ at = Root /\ at \in DOMAIN vantage
      /\ call' = Idle /\ stage' = Visiting /\ found' = {}
      /\ UNCHANGED <<stored, vantage, threshold, work, at>>
  BY SearchFacts DEF Return, tree
<1>2. TypeOK'
  BY <1>1 DEF IInv, TypeOK, Visiting, Over
<1>3. CallOK' /\ WalkOK' /\ FoundIsSettled'
  BY <1>1, SearchFacts DEF CallOK, WalkOK, FoundIsSettled, Idle, Searching
<1> QED
  BY <1>1, <1>2, <1>3, TreeKept DEF IInv

\* Back at the root, the search has settled every entry.
LEMMA ReturnSettlesAll ==
    ASSUME IInv, Return, NEW e \in DOMAIN stored
    PROVE  \E p \in DOMAIN vantage :
              vantage[p] = e /\ Here(p) = Away(e) /\ (e \in found \/ MayOmit(p))
<1>1. Searching /\ stage = Over /\ at = Root /\ work = << >>
  BY SearchFacts DEF Return
<1>2. PICK p \in DOMAIN vantage : vantage[p] = e
  BY <1>1 DEF IInv, TypeOK
<1>3. p = Root \/ IsBelow(p, Root)
  BY RootIsAbove DEF IInv, TypeOK, Path
<1>4. Settled(p, at, stage)
  BY <1>1, <1>3 DEF Settled, Visited, PassedHere, Over, Visiting
<1> QED
  BY <1>1, <1>2, <1>4 DEF IInv, FoundIsSettled, Here

-----------------------------------------------------------------------------
LEMMA NextIInv == IInv /\ [Next]_vars => IInv'
<1> SUFFICES ASSUME IInv, [Next]_vars PROVE IInv'
  OBVIOUS
<1>1. CASE \E x \in Items : Insert(x)
  BY <1>1, StepInsertRoot, StepBeginInsert DEF Insert
<1>2. CASE \E q \in Queries, r \in Radii : Find("within", q, r)
  <2>1. PICK q \in Queries, r \in Radii : Find("within", q, r)
    BY <1>2
  <2> QED
    BY <2>1, StepFindNothing, StepBeginFind DEF Find
<1>3. CASE \E q \in Queries, k \in Ks : Find("nearest", q, k)
  <2>1. PICK q \in Queries, k \in Ks : Find("nearest", q, k)
    BY <1>3
  <2> QED
    BY <2>1, StepFindNothing, StepBeginFind DEF Find
<1>4. CASE Build
  <2>1. \E v, inside, t : BuildNode(v, inside, t)
    BY <1>4 DEF Build
  <2> QED
    BY <2>1, StepBuildNode
<1>5. CASE Built \/ Descend \/ Attach
  BY <1>5, StepBuilt, StepDescend, StepAttach
<1>6. CASE Search
  BY <1>6, StepVisit, StepEnter, StepPass, StepLeave, StepReturn DEF Search
<1>7. CASE UNCHANGED vars
  BY <1>7 DEF IInv, vars, tree, TypeOK, ThresholdsSeparate, PrefixClosed, ThresholdsAreDistances,
              LeavesHaveNoThreshold, CallOK, WorkOK, SubtreeOK, WalkOK, FoundIsSettled, Searching,
              Settled, Visited, PassedAbove, PassedHere, SideOf, MayOmit, Here, Away, Between
<1> QED
  BY <1>1, <1>2, <1>3, <1>4, <1>5, <1>6, <1>7 DEF Next, Step

\* The tree and the subtrees still to build hold every item once.
THEOREM TypeCorrect == Spec => []TypeOK
<1>1. Init => IInv
  BY InitIInv
<1>2. IInv /\ [Next]_vars => IInv'
  BY NextIInv
<1>3. IInv => TypeOK
  BY DEF IInv
<1> QED
  BY <1>1, <1>2, <1>3, PTL DEF Spec

\* Whatever corpus the tree is built from, by whichever strategy, and whatever
\* is inserted after, a node's threshold separates what is below it.
THEOREM ThresholdsCorrect == Spec => []ThresholdsSeparate
<1>1. Init => IInv
  BY InitIInv
<1>2. IInv /\ [Next]_vars => IInv'
  BY NextIInv
<1>3. IInv => ThresholdsSeparate
  BY DEF IInv
<1> QED
  BY <1>1, <1>2, <1>3, PTL DEF Spec

-----------------------------------------------------------------------------
(* Balance *)

\* A subtree of 2^-n of the items, or less, is n nodes down.
BalanceInv ==
    call.op = "build" =>
        /\ \A a \in DOMAIN vantage : TwoTo[Len(a)] <= Len(stored)
        /\ \A j \in 1 .. Len(work) :
              TwoTo[Len(work[j].at)] * Cardinality(work[j].entries) <= Len(stored)

LEMMA ProductGrows ==
    ASSUME NEW p \in Nat, NEW x \in Nat, NEW y \in Nat, x <= y
    PROVE  p * x <= p * y /\ p * x \in Nat
<1>1. PICK d \in Nat : y = x + d
  <2>1. y - x \in Nat /\ y = x + (y - x)
    OBVIOUS
  <2> QED
    BY <2>1
<1>2. p * y = p * x + p * d /\ p * d \in Nat /\ p * x \in Nat
  BY <1>1
<1> QED
  BY <1>2

\* What is left to build after a step: the two parts, and the rest as it was.
Replaces(a, inside, outside) ==
    \A j \in 1 .. Len(work') :
        \/ work'[j] = [at |-> Append(a, "inside"), entries |-> inside]
        \/ work'[j] = [at |-> Append(a, "outside"), entries |-> outside]
        \/ \E m \in 1 .. Len(work) : work'[j] = work[m]

LEMMA BuildReplaces ==
    ASSUME IInv, NEW v, NEW inside, NEW t, BuildNode(v, inside, t)
    PROVE  Replaces(Head(work).at, inside, Head(work).entries \ ({v} \cup inside))
<1> DEFINE w == Head(work)
           outside == w.entries \ ({v} \cup inside)
<1> DEFINE R == [at : Path, entries : SUBSET (DOMAIN stored)]
           I == [at |-> Append(w.at, "inside"), entries |-> inside]
           O == [at |-> Append(w.at, "outside"), entries |-> outside]
           S == Subtree(w.at, "inside", inside)
           T == Subtree(w.at, "outside", outside)
           V == Tail(work)
<1>1. /\ work \in Seq(R) /\ work # << >> /\ w = work[1] /\ 1 \in 1 .. Len(work)
      /\ inside \subseteq w.entries
  BY EmptySeq DEF IInv, WorkOK, BuildNode
<1>2. w.at \in Path /\ w.entries \subseteq DOMAIN stored
  BY <1>1 DEF IInv, WorkOK, SubtreeOK
<1>3. I \in R /\ O \in R
  <2>1. Append(w.at, "inside") \in Path /\ Append(w.at, "outside") \in Path
    BY <1>2, AppendIsPath DEF Side
  <2> QED
    BY <2>1, <1>1, <1>2
<1>4. S = (IF inside = {} THEN << >> ELSE <<I>>) /\ T = (IF outside = {} THEN << >> ELSE <<O>>)
  BY DEF Subtree
<1>5. work' = S \o T \o V
  BY DEF BuildNode
<1> HIDE DEF I, O, S, T, R
<1>6. /\ S \in Seq(R) /\ \A n \in 1 .. Len(S) : S[n] = I
      /\ T \in Seq(R) /\ \A n \in 1 .. Len(T) : T[n] = O
  <2>1. S \in Seq(R) /\ \A n \in 1 .. Len(S) : S[n] = I
    BY <1>3, <1>4
  <2>2. T \in Seq(R) /\ \A n \in 1 .. Len(T) : T[n] = O
    BY <1>3, <1>4
  <2> QED
    BY <2>1, <2>2
<1>7. /\ V \in Seq(R) /\ Len(work) \in Nat
      /\ \A n \in 1 .. Len(V) : n + 1 \in 1 .. Len(work) /\ V[n] = work[n + 1]
  BY <1>1
<1> HIDE DEF V
<1> DEFINE i == Len(S)
           k == Len(T)
           l == Len(V)
<1>8. /\ i \in Nat /\ k \in Nat /\ l \in Nat /\ Len(work') = i + k + l
      /\ \A n \in 1 .. i : work'[n] = S[n]
      /\ \A n \in 1 .. k : work'[i + n] = T[n]
      /\ \A n \in 1 .. l : work'[i + k + n] = V[n]
  BY <1>5, <1>6, <1>7, ConcatOfThree
<1> HIDE DEF i, k, l
<1>9. ASSUME NEW j \in 1 .. Len(work')
      PROVE  work'[j] = I \/ work'[j] = O \/ \E m \in 1 .. Len(work) : work'[j] = work[m]
  <2>1. CASE j <= i
    <3>1. j \in 1 .. i
      BY <2>1, <1>8
    <3> QED
      BY <3>1, <1>6, <1>8 DEF i
  <2>2. CASE i < j /\ j <= i + k
    <3>1. j - i \in 1 .. k /\ i + (j - i) = j
      BY <2>2, <1>8
    <3>2. work'[j] = T[j - i]
      BY <3>1, <1>8
    <3> QED
      BY <3>1, <3>2, <1>6 DEF k
  <2>3. CASE i + k < j
    <3>1. j - (i + k) \in 1 .. l /\ i + k + (j - (i + k)) = j
      BY <2>3, <1>8
    <3>2. work'[j] = V[j - (i + k)]
      BY <3>1, <1>8
    <3> QED
      BY <3>1, <3>2, <1>7 DEF l
  <2> QED
    BY <2>1, <2>2, <2>3, <1>8
<1> QED
  BY <1>9 DEF I, O, Replaces

\* Neither part of a split has more than half of the entries.
LEMMA SplitHalves ==
    ASSUME NEW E, IsFiniteSet(E), NEW v \in E, NEW inside \in SUBSET (E \ {v}),
           NEW outside, outside = E \ ({v} \cup inside), IsSplit(v, inside, outside)
    PROVE  /\ Cardinality(E) \in Nat \ {0}
           /\ Cardinality(inside) \in Nat /\ 2 * Cardinality(inside) <= Cardinality(E)
           /\ Cardinality(outside) \in Nat /\ 2 * Cardinality(outside) <= Cardinality(E)
<1> DEFINE rest == E \ {v}
           n == Cardinality(E)
           m == Cardinality(rest)
           i == Cardinality(inside)
           o == Cardinality(outside)
<1>1. IsFiniteSet(rest) /\ m = n - 1 /\ n \in Nat
  BY FS_RemoveElement, FS_CardinalityType
<1>2. m \in Nat
  BY <1>1, FS_CardinalityType
<1>3. inside \cup outside = rest /\ outside = rest \ inside /\ rest \cap inside = inside
  OBVIOUS
<1> HIDE DEF rest
<1>4. IsFiniteSet(inside) /\ i \in Nat
  <2>1. inside \subseteq rest
    BY <1>3
  <2> QED
    BY <2>1, <1>1, FS_Subset, FS_CardinalityType
<1>5. o = m - i
  <2>1. IsFiniteSet(rest) /\ IsFiniteSet(inside)
    BY <1>1, <1>4
  <2>2. Cardinality(rest \ inside) = Cardinality(rest) - Cardinality(rest \cap inside)
    BY <2>1, FS_Difference
  <2> QED
    BY <1>3, <2>2
<1>6. i = m \div 2
  BY <1>3 DEF IsSplit
<1> HIDE DEF n, m, i, o
<1>7. n \in Nat \ {0} /\ 2 * i <= n /\ o \in Nat /\ 2 * o <= n
  BY <1>1, <1>2, <1>4, <1>5, <1>6
<1> QED
  BY <1>4, <1>7 DEF n, i, o

LEMMA InitBalance == Init => BalanceInv
<1> SUFFICES ASSUME Init PROVE BalanceInv
  OBVIOUS
<1>1. stored \in Seq(Text) /\ DOMAIN stored = 1 .. Len(stored) /\ Len(stored) \in Nat /\ DOMAIN vantage = {}
  BY VpAssumption DEF Init
<1>2. CASE stored = << >>
  BY <1>2 DEF Init, BalanceInv, Idle
<1>3. CASE stored # << >>
  <2>1. work = <<[at |-> Root, entries |-> 1 .. Len(stored)]>> /\ Len(Root) = 0
    BY <1>1, <1>3 DEF Init, Root
  <2>2. Cardinality(1 .. Len(stored)) = Len(stored)
    <3> DEFINE a == 1
               b == Len(stored)
    <3>1. a \in Int /\ b \in Int /\ b \in Nat /\ a = 1
      BY <1>1
    <3> HIDE DEF a, b
    <3>2. Cardinality(a .. b) = IF a > b THEN 0 ELSE b - a + 1
      BY <3>1, FS_Interval
    <3>3. Cardinality(a .. b) = b
      BY <3>1, <3>2
    <3> QED
      BY <3>3 DEF a, b
  <2>3. \A j \in 1 .. Len(work) : work[j].at = Root /\ work[j].entries = 1 .. Len(stored)
    BY <2>1
  <2>4. TwoTo[0] * Len(stored) = Len(stored)
    <3> DEFINE n == Len(stored)
               one == TwoTo[0]
    <3>1. n \in Int /\ one = 1
      BY <1>1, TwoToIs
    <3> HIDE DEF n, one
    <3>2. one * n = n
      BY <3>1
    <3> QED
      BY <3>2 DEF n, one
  <2>5. \A j \in 1 .. Len(work) :
           TwoTo[Len(work[j].at)] * Cardinality(work[j].entries) <= Len(stored)
    BY <1>1, <2>1, <2>2, <2>3, <2>4
  <2> QED
    BY <1>1, <2>5 DEF BalanceInv
<1> QED
  BY <1>2, <1>3

LEMMA BuildKeepsBalance ==
    ASSUME IInv, BalanceInv, NEW v, NEW inside, NEW t, BuildNode(v, inside, t)
    PROVE  BalanceInv'
<1> DEFINE w == Head(work)
           outside == w.entries \ ({v} \cup inside)
           L == Len(stored)
           p == TwoTo[Len(w.at)]
           n == Cardinality(w.entries)
<1>1. /\ call.op = "build" /\ work # << >> /\ w = work[1] /\ 1 \in 1 .. Len(work)
      /\ SubtreeOK(w) /\ v \in w.entries /\ inside \subseteq w.entries \ {v}
      /\ IsSplit(v, inside, outside) /\ stored' = stored /\ call' = call
      /\ stored \in Seq(Text)
  <2>1. /\ work # << >> /\ call.op = "build" /\ v \in w.entries /\ inside \subseteq w.entries \ {v}
        /\ IsSplit(v, inside, outside) /\ stored' = stored /\ call' = call
    BY DEF BuildNode, MayBeVantage
  <2>2. Head(work) = work[1] /\ 1 \in 1 .. Len(work)
    BY <2>1, EmptySeq DEF IInv, WorkOK
  <2> QED
    BY <2>1, <2>2 DEF IInv, WorkOK, TypeOK
<1>2. w.at \in Path /\ w.entries \subseteq 1 .. L /\ L \in Nat
  BY <1>1 DEF SubtreeOK
<1>3. IsFiniteSet(w.entries)
  <2> DEFINE a == 1
             I == a .. L
  <2>1. a \in Int /\ L \in Int
    BY <1>2
  <2>2. IsFiniteSet(I)
    <3> HIDE DEF a, L
    <3> QED
      BY <2>1, FS_Interval
  <2> QED
    BY <1>2, <2>2, FS_Subset
<1> HIDE DEF w
<1>4. /\ n \in Nat \ {0}
      /\ Cardinality(inside) \in Nat /\ 2 * Cardinality(inside) <= n
      /\ Cardinality(outside) \in Nat /\ 2 * Cardinality(outside) <= n
  BY <1>1, <1>3, SplitHalves
<1>5. p \in Nat /\ TwoTo[Len(w.at) + 1] = 2 * p /\ Len(w.at) \in Nat
  <2> DEFINE m == Len(w.at)
  <2>1. m \in Nat
    BY <1>2 DEF Path
  <2> HIDE DEF m
  <2>2. TwoTo[m] \in Nat /\ TwoTo[m + 1] = 2 * TwoTo[m]
    BY <2>1, TwoToIs
  <2> QED
    BY <2>1, <2>2 DEF m
<1>6. p * n <= L
  BY <1>1 DEF BalanceInv
<1>7. ASSUME NEW side \in Side, NEW X, Cardinality(X) \in Nat, 2 * Cardinality(X) <= n
      PROVE  TwoTo[Len(Append(w.at, side))] * Cardinality(X) <= L
  <2> DEFINE c == Cardinality(X)
  <2>1. Len(Append(w.at, side)) = Len(w.at) + 1
    BY <1>2 DEF Path
  <2>2. c \in Nat /\ 2 * c \in Nat /\ 2 * c <= n /\ n \in Nat
    BY <1>4, <1>7
  <2> HIDE DEF c, n, p
  <2>3. p * (2 * c) <= p * n /\ p * (2 * c) \in Nat /\ p * n \in Nat
    BY <1>5, <2>2, ProductGrows
  <2>4. (2 * p) * c = p * (2 * c)
    BY <1>5, <2>2
  <2>5. (2 * p) * c <= L
    BY <1>2, <1>6, <2>3, <2>4
  <2> QED
    BY <1>5, <2>1, <2>5 DEF c
<1>8. p <= L
  <2> DEFINE one == 1
  <2>1. one \in Nat /\ n \in Nat /\ one <= n
    BY <1>4
  <2> HIDE DEF one, n, p
  <2>2. p * one <= p * n
    BY <1>5, <2>1, ProductGrows
  <2>3. p * n \in Nat
    BY <1>5, <2>1
  <2> QED
    BY <1>2, <1>5, <1>6, <2>2, <2>3 DEF one
<1>9. ASSUME NEW a \in DOMAIN vantage' PROVE TwoTo[Len(a)] <= Len(stored')
  <2>1. a \in DOMAIN vantage \/ a = w.at
    BY DEF BuildNode, w
  <2> QED
    BY <2>1, <1>1, <1>8 DEF BalanceInv
<1>10. ASSUME NEW j \in 1 .. Len(work')
       PROVE  TwoTo[Len(work'[j].at)] * Cardinality(work'[j].entries) <= Len(stored')
  <2>1. \/ work'[j] = [at |-> Append(w.at, "inside"), entries |-> inside]
        \/ work'[j] = [at |-> Append(w.at, "outside"), entries |-> outside]
        \/ \E m \in 1 .. Len(work) : work'[j] = work[m]
    <3>1. Replaces(w.at, inside, outside)
      BY BuildReplaces DEF w
    <3> QED
      BY <3>1 DEF Replaces
  <2>2. CASE work'[j] = [at |-> Append(w.at, "inside"), entries |-> inside]
    BY <2>2, <1>1, <1>4, <1>7 DEF Side
  <2>3. CASE work'[j] = [at |-> Append(w.at, "outside"), entries |-> outside]
    BY <2>3, <1>1, <1>4, <1>7 DEF Side
  <2>4. CASE \E m \in 1 .. Len(work) : work'[j] = work[m]
    BY <2>4, <1>1 DEF BalanceInv
  <2> QED
    BY <2>1, <2>2, <2>3, <2>4
<1> QED
  BY <1>9, <1>10 DEF BalanceInv

\* Nothing else happens while a tree is built.
LEMMA OthersKeepBalance ==
    ASSUME IInv, [Next]_vars, ~Build, BalanceInv PROVE BalanceInv'
<1>1. CASE call.op = "build"
  <2>1. call # Idle /\ call.op \notin {"insert", "within", "nearest"}
    BY <1>1 DEF Idle
  <2>2. Built \/ UNCHANGED vars
    BY <2>1 DEF Next, Insert, InsertRoot, BeginInsert, Find, FindNothing, BeginFind, Step,
                Descend, Attach, Search, Searching, Visit, Enter, Pass, Leave, Return
  <2>3. CASE Built
    BY <2>3 DEF Built, BalanceInv, Idle
  <2>4. CASE UNCHANGED vars
    BY <2>4 DEF BalanceInv, vars, tree
  <2> QED
    BY <2>2, <2>3, <2>4
<1>2. CASE call.op # "build"
  <2>1. call'.op # "build"
    BY <1>2 DEF Next, Insert, InsertRoot, BeginInsert, Find, FindNothing, BeginFind, Step, Built,
                Descend, Attach, Search, Searching, Visit, Enter, Pass, Leave, Return, Idle, vars
  <2> QED
    BY <2>1 DEF BalanceInv
<1> QED
  BY <1>1, <1>2

LEMMA BalanceInvariance == Spec => []BalanceInv
<1>1. IInv /\ BalanceInv /\ [Next]_vars => BalanceInv'
  <2> SUFFICES ASSUME IInv, BalanceInv, [Next]_vars PROVE BalanceInv'
    OBVIOUS
  <2>1. CASE Build
    <3>1. PICK v \in DOMAIN stored, inside \in SUBSET Head(work).entries :
             \E t \in {NoThreshold} \cup { Between(v, e) : e \in DOMAIN stored } :
                BuildNode(v, inside, t)
      BY <2>1 DEF Build
    <3>2. PICK t : BuildNode(v, inside, t)
      BY <3>1
    <3> QED
      BY <3>2, BuildKeepsBalance
  <2>2. CASE ~Build
    BY <2>2, OthersKeepBalance
  <2> QED
    BY <2>1, <2>2
<1> QED
  BY InitBalance, InitIInv, NextIInv, <1>1, PTL DEF Spec

\* While a tree is built in bulk, no node is deeper than the logarithm of the
\* number of items, however many of them are equal or as far away.
THEOREM BalanceCorrect == Spec => []BulkIsBalanced
<1>1. BalanceInv => BulkIsBalanced
  BY DEF BalanceInv, BulkIsBalanced
<1> QED
  BY BalanceInvariance, <1>1, PTL

-----------------------------------------------------------------------------
(* The index it implements *)

LEMMA SameCardinality == ASSUME NEW S PROVE Index!Cardinality(S) = Cardinality(S)
BY DEF Index!Cardinality, Cardinality

LEMMA InitIsIndexInit == Init => Index!Init
BY VpAssumption DEF Init, Index!Init, NoReply, Index!NoReply

LEMMA InsertIsIndexStep ==
    ASSUME IInv, NEW x \in Items, Insert(x)
    PROVE  [Index!Next]_Index!vars
<1>1. x \in Text
  BY MetricAssumption
<1>2. CASE InsertRoot(x)
  <2>1. stored' = Append(stored, x) /\ reply' = Index!NoReply
    BY <1>2 DEF InsertRoot, NoReply, Index!NoReply
  <2> QED
    BY <2>1, <1>1 DEF Index!Next, Index!Insert
<1>3. CASE BeginInsert(x)
  BY <1>3 DEF BeginInsert, NoReply, Index!NoReply, Index!Next, Index!Call
<1> QED
  BY <1>2, <1>3 DEF Insert

LEMMA BeginFindIsIndexStep ==
    ASSUME NEW op, NEW q, NEW bound, BeginFind(op, q, bound)
    PROVE  [Index!Next]_Index!vars
BY DEF BeginFind, NoReply, Index!NoReply, Index!Next, Index!Call

LEMMA FindNothingIsIndexStep ==
    ASSUME IInv, NEW op \in {"within", "nearest"}, NEW q, NEW bound \in Nat,
           FindNothing(op, q, bound)
    PROVE  [Index!Next]_Index!vars
<1>1. /\ UNCHANGED stored /\ reply' = [op |-> op, text |-> q, bound |-> bound, found |-> {}]
      /\ stored = << >> \/ (op = "nearest" /\ bound = 0)
  BY DEF FindNothing, Answer
<1>2. /\ reply'.op = op /\ reply'.text = q /\ reply'.bound = bound /\ reply'.found = {}
  BY <1>1
<1>3. CASE op = "within"
  <2>1. DOMAIN stored = {}
    BY <1>1, <1>3
  <2>2. Index!Within(q, bound) = {}
    BY <2>1 DEF Index!Within, Index!Entries
  <2> QED
    BY <2>2, <1>1, <1>2, <1>3 DEF Index!Next, Index!Return, Index!IsAnswer
<1>4. CASE op = "nearest"
  <2>1. Len(stored) \in Nat /\ (stored = << >> => Len(stored) = 0)
    BY LenProperties DEF IInv, TypeOK
  <2>2. (IF bound <= Len(stored) THEN bound ELSE Len(stored)) = 0
    BY <2>1, <1>1, <1>4
  <2>3. Cardinality({}) = 0
    BY FS_EmptySet
  <2>4. Index!IsNearest({}, q, bound)
    BY <2>2, <2>3, SameCardinality, Zenon DEF Index!IsNearest
  <2> QED
    BY <2>4, <1>1, <1>2, <1>4 DEF Index!Next, Index!Return, Index!IsAnswer
<1> QED
  BY <1>3, <1>4

LEMMA ReturnIsIndexStep ==
    ASSUME IInv, Return
    PROVE  [Index!Next]_Index!vars
<1>1. /\ UNCHANGED stored /\ Searching /\ found \subseteq DOMAIN stored
      /\ reply' = [op |-> call.op, text |-> call.text, bound |-> call.bound, found |-> found]
      /\ call.op = "within" \/ call.op = "nearest"
      /\ call.op = "nearest" => call.bound \in Nat
      /\ \A e \in DOMAIN stored : Away(e) \in Nat
  BY SearchFacts, VpAssumption DEF Return, Answer, IInv, TypeOK
<1>2. /\ reply'.op = call.op /\ reply'.text = call.text /\ reply'.bound = call.bound
      /\ reply'.found = found
  BY <1>1
<1>3. \A e \in DOMAIN stored : Index!Away(e, call.text) = Away(e)
  BY Zenon DEF Index!Away, Away, Dist
<1>4. CASE call.op = "within"
  <2>1. \A e \in found : Away(e) <= call.bound
    BY <1>1, <1>4 DEF IInv, FoundIsSettled
  <2>2. ASSUME NEW e \in DOMAIN stored, Away(e) <= call.bound
        PROVE  e \in found
    BY <2>2, <1>4, ReturnSettlesAll DEF MayOmit
  <2>3. found = Index!Within(call.text, call.bound)
    BY <2>1, <2>2, <1>1, <1>3 DEF Index!Within, Index!Entries
  <2> QED
    BY <2>3, <1>1, <1>2, <1>4 DEF Index!Next, Index!Return, Index!IsAnswer
<1>5. CASE call.op = "nearest"
  <2>1. ASSUME NEW e \in (DOMAIN stored) \ found
        PROVE  Cardinality(found) = call.bound /\ \A f \in found : Away(f) <= Away(e)
    <3>1. PICK p \in DOMAIN vantage : Here(p) = Away(e) /\ (e \in found \/ MayOmit(p))
      BY ReturnSettlesAll
    <3> QED
      BY <3>1, <1>5 DEF MayOmit
  <2>2. Cardinality(found) <= call.bound
    BY <1>1, <1>5 DEF IInv, FoundIsSettled
  <2>3. /\ Cardinality(found) \in Nat /\ Cardinality(found) <= Len(stored) /\ Len(stored) \in Nat
        /\ Cardinality(DOMAIN stored) = Len(stored)
        /\ found # DOMAIN stored => Cardinality(found) < Len(stored)
    BY FoundIsFinite
  <2>4. Cardinality(found) = IF call.bound <= Len(stored) THEN call.bound ELSE Len(stored)
    <3>1. CASE found = DOMAIN stored
      BY <3>1, <2>2, <2>3, <1>1, <1>5
    <3>2. CASE found # DOMAIN stored
      <4>1. Cardinality(found) = call.bound
        BY <3>2, <2>1, <1>1
      <4> QED
        BY <4>1, <2>3, <1>1, <1>5
    <3> QED
      BY <3>1, <3>2
  <2>5. \A e \in found, other \in DOMAIN stored \ found :
           Index!Away(e, call.text) <= Index!Away(other, call.text)
    BY <2>1, <1>1, <1>3
  <2>6. Index!IsNearest(found, call.text, call.bound)
    BY <2>4, <2>5, <1>1, SameCardinality, Zenon DEF Index!IsNearest, Index!Entries
  <2> QED
    BY <2>6, <1>1, <1>2, <1>5 DEF Index!Next, Index!Return, Index!IsAnswer
<1> QED
  BY <1>1, <1>4, <1>5

LEMMA NextIsIndexStep == IInv /\ [Next]_vars => [Index!Next]_Index!vars
<1> SUFFICES ASSUME IInv, [Next]_vars PROVE [Index!Next]_Index!vars
  OBVIOUS
<1>1. CASE \E x \in Items : Insert(x)
  BY <1>1, InsertIsIndexStep
<1>2. CASE \E q \in Queries, r \in Radii : Find("within", q, r)
  <2>1. PICK q \in Queries, r \in Radii : Find("within", q, r)
    BY <1>2
  <2>2. r \in Nat
    BY MetricAssumption
  <2> QED
    BY <2>1, <2>2, FindNothingIsIndexStep, BeginFindIsIndexStep DEF Find
<1>3. CASE \E q \in Queries, k \in Ks : Find("nearest", q, k)
  <2>1. PICK q \in Queries, k \in Ks : Find("nearest", q, k)
    BY <1>3
  <2>2. k \in Nat
    BY VpAssumption
  <2> QED
    BY <2>1, <2>2, FindNothingIsIndexStep, BeginFindIsIndexStep DEF Find
<1>4. CASE Build
  BY <1>4 DEF Build, BuildNode, Index!vars
<1>5. CASE Built \/ Descend
  BY <1>5 DEF Built, Descend, Index!vars
<1>6. CASE Attach
  <2>1. call.text \in Text /\ call # Idle /\ reply = NoReply
    BY <1>6 DEF Attach, IInv, CallOK, Idle
  <2>2. stored' = Append(stored, call.text) /\ reply' = Index!NoReply
    BY <2>1, <1>6 DEF Attach, NoReply, Index!NoReply
  <2> QED
    BY <2>1, <2>2 DEF Index!Next, Index!Insert
<1>7. CASE Visit \/ Enter \/ Pass \/ Leave
  BY <1>7 DEF Visit, Enter, Pass, Leave, Index!vars
<1>8. CASE Return
  BY <1>8, ReturnIsIndexStep
<1>9. CASE UNCHANGED vars
  BY <1>9 DEF vars, Index!vars
<1> QED
  BY <1>1, <1>2, <1>3, <1>4, <1>5, <1>6, <1>7, <1>8, <1>9 DEF Next, Step, Search

\* find_within and find_k_nearest answer as a linear scan over the items
\* would, for every metric, every corpus and strategy, every insertion after
\* the build, every radius and every count: what is pruned is outside the
\* radius, or no nearer than the k entries kept.
THEOREM VpRefinesIndex == Spec => VpImplementsIndex
<1>1. Init => IInv /\ Index!Init
  BY InitIInv, InitIsIndexInit
<1>2. IInv /\ [Next]_vars => IInv'
  BY NextIInv
<1>3. IInv /\ [Next]_vars => [Index!Next]_Index!vars
  BY NextIsIndexStep
<1> QED
  BY <1>1, <1>2, <1>3, PTL DEF Spec, VpImplementsIndex, Index!Spec

-----------------------------------------------------------------------------
(* The BK-tree *)

Agree(p, q, n) == \A m \in 1 .. n : p[m] = q[m]

\* The frames of the recursion, and of insert's descent, are nodes.
BkPrefixClosed ==
    \A p \in DOMAIN bkTree, n \in Nat : n <= Len(p) =>
        \E a \in DOMAIN bkTree : Len(a) = n /\ Agree(p, a, n)

\* What a call keeps.
BkCallOK ==
    /\ \/ bkCall = Bk!Idle
       \/ bkCall \in [op : {"insert"}, text : Text]
       \/ bkCall \in [op : {"within"}, text : Text, bound : Radii]
    /\ bkCall # Bk!Idle => bkStored # << >> /\ bkReply = Bk!NoReply
    /\ bkCall.op # "within" => bkDone = Bk!NoKey
    /\ bkCall = Bk!Idle => bkAt = Bk!Root
    /\ bkStored = << >> => DOMAIN bkTree = {}

\* insert's descent takes the key of the distance at every node it passes.
BkWalkFollowsKeys ==
    bkCall.op = "insert" =>
        \A a \in DOMAIN bkTree :
            Len(a) < Len(bkAt) /\ Agree(bkAt, a, Len(a)) => Bk!Here(a) = bkAt[Len(a) + 1]

\* The search has been at p, or at a later sibling of one of p's prefixes, or
\* has tried the child that leads to p.
BkOnPath(p) == Len(p) <= Len(bkAt) /\ Agree(p, bkAt, Len(p))
BkLeftOf(p) ==
    \E n \in 1 .. Len(p) : n <= Len(bkAt) /\ Agree(p, bkAt, n - 1) /\ p[n] < bkAt[n]
BkTried(p)  == Len(p) > Len(bkAt) /\ Agree(p, bkAt, Len(bkAt)) /\ p[Len(bkAt) + 1] <= bkDone

BkSettled(p) == BkOnPath(p) \/ BkLeftOf(p) \/ BkTried(p)

BkFoundIsSettled ==
    bkCall.op = "within" =>
        /\ \A e \in bkFound : Bk!Dist(bkStored[e], bkCall.text) <= bkCall.bound
        /\ \A p \in DOMAIN bkTree :
              BkSettled(p) /\ Bk!Here(p) <= bkCall.bound => bkTree[p] \in bkFound

BkIInv ==
    /\ Bk!TypeOK
    /\ Bk!LabelsAreDistances
    /\ BkPrefixClosed
    /\ BkCallOK
    /\ BkWalkFollowsKeys
    /\ BkFoundIsSettled

-----------------------------------------------------------------------------
(* The BK-tree: the metric *)

\* The two trees are over one metric.
LEMMA SameMetric ==
    ASSUME NEW x, NEW y
    PROVE  Bk!Dist(x, y) = Dist(x, y) /\ Bk!Plus(x, y) = Plus(x, y)
BY DEF Bk!Dist, Dist, Bk!Plus, Plus

LEMMA BkDistanceIsNat == ASSUME NEW x \in Text, NEW y \in Text PROVE Bk!Dist(x, y) \in Nat
BY SameMetric, DistanceIsNat

\* What the pruning test leaves out is outside the radius.
LEMMA BkPruningIsSound ==
    ASSUME NEW x \in Text, NEW y \in Text, NEW q \in Text, NEW r \in Radii,
           ~( /\ Bk!Dist(x, q) <= Bk!Plus(Bk!Dist(x, y), r)
              /\ Bk!Dist(x, y) <= Bk!Plus(Bk!Dist(x, q), r) )
    PROVE  ~(Bk!Dist(y, q) <= r)
<1>1. /\ Bk!Dist(x, q) = Dist(x, q) /\ Bk!Dist(x, y) = Dist(x, y)
      /\ Bk!Dist(y, q) = Dist(y, q)
      /\ Dist(x, q) \in Nat /\ Dist(x, y) \in Nat /\ Dist(y, q) \in Nat /\ r \in Nat
  BY SameMetric, DistanceIsNat, MetricAssumption
<1>2. /\ Bk!Plus(Dist(x, y), r) = Dist(x, y) + r
      /\ Bk!Plus(Dist(x, q), r) = Dist(x, q) + r
  <2>1. Dist(x, y) + r < Modulus /\ Dist(x, q) + r < Modulus
    BY MetricAssumption
  <2>2. QED
    BY <1>1, <2>1, SameMetric, PlusIsSum
<1>3. Dist(x, q) <= Dist(x, y) + Dist(y, q)
  BY MetricAssumption
<1>4. Dist(x, y) <= Dist(x, q) + Dist(q, y) /\ Dist(q, y) = Dist(y, q)
  BY MetricAssumption
<1> QED
  BY <1>1, <1>2, <1>3, <1>4

-----------------------------------------------------------------------------
(* The BK-tree: where the search is *)

\* A tree of stored texts has their positions.
LEMMA BkEntryIsText ==
    ASSUME Bk!TypeOK, NEW p \in DOMAIN bkTree
    PROVE  bkStored[bkTree[p]] \in Text
BY DEF Bk!TypeOK

LEMMA BkAddressesAreSeqs ==
    ASSUME Bk!TypeOK, NEW p \in DOMAIN bkTree
    PROVE  /\ p \in Seq(Nat) /\ Len(p) \in Nat
           /\ \A n \in 1 .. Len(p) : p[n] \in Nat
BY DEF Bk!TypeOK

\* Below the node the search is at, a path leads through one of its children.
LEMMA BkChildToward ==
    ASSUME Bk!TypeOK, BkPrefixClosed, bkStored # << >>,
           NEW p \in DOMAIN bkTree, Len(p) > Len(bkAt), Agree(p, bkAt, Len(bkAt))
    PROVE  \E o \in DOMAIN bkTree :
              /\ Len(o) = Len(bkAt) + 1 /\ (\A n \in 1 .. Len(bkAt) : o[n] = bkAt[n])
              /\ o[Len(o)] = p[Len(bkAt) + 1] /\ p[Len(bkAt) + 1] \in Nat
<1>1. bkAt \in DOMAIN bkTree
  BY DEF Bk!TypeOK
<1>2. Len(bkAt) \in Nat /\ Len(p) \in Nat /\ \A n \in 1 .. Len(p) : p[n] \in Nat
  BY <1>1, BkAddressesAreSeqs
<1>3. Len(bkAt) + 1 \in Nat /\ Len(bkAt) + 1 <= Len(p)
  BY <1>2
<1>4. PICK o \in DOMAIN bkTree : Len(o) = Len(bkAt) + 1 /\ Agree(p, o, Len(bkAt) + 1)
  BY <1>3 DEF BkPrefixClosed
<1>5. \A n \in 1 .. Len(bkAt) : o[n] = bkAt[n]
  BY <1>2, <1>4 DEF Agree
<1>6. o[Len(o)] = p[Len(bkAt) + 1]
  BY <1>2, <1>4 DEF Agree
<1> QED
  BY <1>2, <1>4, <1>5, <1>6

\* The loop's next child is the first after the ones it has tried.
LEMMA BkNextChildIsNext ==
    ASSUME Bk!TypeOK, BkPrefixClosed, bkStored # << >>, NEW c, Bk!IsNext(c),
           NEW p \in DOMAIN bkTree, Len(p) > Len(bkAt), Agree(p, bkAt, Len(bkAt))
    PROVE  p[Len(bkAt) + 1] <= bkDone \/ c[Len(bkAt) + 1] <= p[Len(bkAt) + 1]
<1>1. PICK o \in DOMAIN bkTree :
        /\ Len(o) = Len(bkAt) + 1 /\ (\A n \in 1 .. Len(bkAt) : o[n] = bkAt[n])
        /\ o[Len(o)] = p[Len(bkAt) + 1] /\ p[Len(bkAt) + 1] \in Nat
  BY BkChildToward
<1>2. o \in Bk!Remaining => c[Len(bkAt) + 1] <= p[Len(bkAt) + 1]
  BY <1>1 DEF Bk!IsNext, Bk!Remaining
<1>3. o \notin Bk!Remaining => p[Len(bkAt) + 1] <= bkDone
  BY <1>1, SMTT(30) DEF Bk!Remaining, Bk!TypeOK, Bk!NoKey
<1> QED
  BY <1>2, <1>3

\* With no child left the loop has tried every one.
LEMMA BkNoneRemainingIsAllTried ==
    ASSUME Bk!TypeOK, BkPrefixClosed, bkStored # << >>, Bk!Remaining = {},
           NEW p \in DOMAIN bkTree, Len(p) > Len(bkAt), Agree(p, bkAt, Len(bkAt))
    PROVE  BkTried(p)
<1>1. PICK o \in DOMAIN bkTree :
        /\ Len(o) = Len(bkAt) + 1 /\ (\A n \in 1 .. Len(bkAt) : o[n] = bkAt[n])
        /\ o[Len(o)] = p[Len(bkAt) + 1] /\ p[Len(bkAt) + 1] \in Nat
  BY BkChildToward
<1>2. ~(o[Len(o)] > bkDone)
  BY <1>1 DEF Bk!Remaining
<1>3. bkDone \in Nat \cup {-1}
  BY DEF Bk!TypeOK, Bk!NoKey
<1> QED
  BY <1>1, <1>2, <1>3 DEF BkTried

-----------------------------------------------------------------------------
(* The BK-tree: the initial states, and insert *)

LEMMA BkInitIInv == Bk!Init => BkIInv
<1> SUFFICES ASSUME Bk!Init PROVE BkIInv
  OBVIOUS
<1>1. bkStored = << >> /\ DOMAIN bkTree = {} /\ bkCall = Bk!Idle /\ bkAt = Bk!Root /\ bkDone = Bk!NoKey /\ bkFound = {}
  BY DEF Bk!Init, Bk!Root
<1>2. bkStored \in Seq(Text) /\ DOMAIN bkStored = {}
  BY <1>1
<1>3. Bk!TypeOK
  BY <1>1, <1>2 DEF Bk!TypeOK
<1>4. Bk!LabelsAreDistances /\ BkPrefixClosed
  BY <1>1 DEF Bk!LabelsAreDistances, BkPrefixClosed
<1>5. BkCallOK /\ BkWalkFollowsKeys /\ BkFoundIsSettled
  BY <1>1 DEF BkCallOK, BkWalkFollowsKeys, BkFoundIsSettled, Bk!Idle
<1> QED
  BY <1>3, <1>4, <1>5 DEF BkIInv

LEMMA BkStepInsertRoot ==
    ASSUME BkIInv, NEW x \in Text, Bk!InsertRoot(x)
    PROVE  BkIInv'
<1> USE DEF BkIInv, Bk!InsertRoot
<1>1. x \in Text /\ bkStored' = <<x>> /\ bkCall' = Bk!Idle /\ bkCall = Bk!Idle
  BY MetricAssumption
<1>2. DOMAIN bkTree' = {Bk!Root} /\ bkTree'[Bk!Root] = 1 /\ Len(Bk!Root) = 0 /\ Bk!Root \in Seq(Nat)
  BY DEF Bk!Root
<1>3. bkAt' = Bk!Root /\ bkDone' = Bk!NoKey /\ bkFound' = {}
  <2>1. bkAt = Bk!Root /\ bkDone = Bk!NoKey
    BY DEF BkCallOK, Bk!Idle
  <2>2. bkFound = {}
    BY <1>1 DEF Bk!TypeOK
  <2> QED
    BY <2>1, <2>2
<1>4. Bk!TypeOK'
  BY <1>1, <1>2, <1>3 DEF Bk!TypeOK
<1>5. Bk!LabelsAreDistances' /\ BkPrefixClosed'
  BY <1>2 DEF Bk!LabelsAreDistances, BkPrefixClosed, Agree
<1>6. BkCallOK' /\ BkWalkFollowsKeys' /\ BkFoundIsSettled'
  BY <1>1, <1>3 DEF BkCallOK, BkWalkFollowsKeys, BkFoundIsSettled, Bk!Idle
<1> QED
  BY <1>4, <1>5, <1>6

LEMMA BkStepBeginInsert ==
    ASSUME BkIInv, NEW x \in Text, Bk!BeginInsert(x)
    PROVE  BkIInv'
<1> USE DEF BkIInv, Bk!BeginInsert
<1>1. Bk!TypeOK' /\ Bk!LabelsAreDistances' /\ BkPrefixClosed'
  BY DEF Bk!TypeOK, Bk!LabelsAreDistances, BkPrefixClosed
<1>2. x \in Text /\ bkCall = Bk!Idle /\ bkCall'.op = "insert"
  BY MetricAssumption
<1>3. BkCallOK'
  BY <1>2 DEF BkCallOK, Bk!Idle
<1>4. bkAt' = Bk!Root /\ Len(Bk!Root) = 0
  BY DEF BkCallOK, Bk!Root
<1>5. BkWalkFollowsKeys'
  <2> SUFFICES ASSUME NEW a \in DOMAIN bkTree' PROVE ~(Len(a) < Len(bkAt)')
    BY DEF BkWalkFollowsKeys
  <2> QED
    BY <1>4, BkAddressesAreSeqs
<1>6. BkFoundIsSettled'
  BY <1>2 DEF BkFoundIsSettled
<1> QED
  BY <1>1, <1>3, <1>5, <1>6

\* The new address is at the node's distance, and so are the ones above it.
LEMMA BkSlotFollowsKeys ==
    ASSUME BkIInv, bkCall.op = "insert"
    PROVE  /\ bkAt \in DOMAIN bkTree /\ bkCall.text \in Text
           /\ Bk!Slot \in Seq(Nat) /\ Len(Bk!Slot) = Len(bkAt) + 1 /\ Agree(Bk!Slot, bkAt, Len(bkAt))
           /\ Len(bkAt) \in Nat
           /\ \A a \in DOMAIN bkTree :
                 Len(a) < Len(Bk!Slot) /\ Agree(Bk!Slot, a, Len(a)) => Bk!Here(a) = Bk!Slot[Len(a) + 1]
<1> USE DEF BkIInv
<1>1. bkAt \in DOMAIN bkTree /\ bkCall.text \in Text
  BY DEF BkCallOK, Bk!TypeOK, Bk!Idle
<1>2. bkAt \in Seq(Nat) /\ Len(bkAt) \in Nat
  BY <1>1, BkAddressesAreSeqs
<1>3. Bk!Here(bkAt) \in Nat
  BY <1>1, BkEntryIsText, BkDistanceIsNat DEF Bk!Here
<1>4. /\ Bk!Slot \in Seq(Nat) /\ Len(Bk!Slot) = Len(bkAt) + 1
      /\ (\A n \in 1 .. Len(bkAt) : Bk!Slot[n] = bkAt[n]) /\ Bk!Slot[Len(bkAt) + 1] = Bk!Here(bkAt)
  BY <1>2, <1>3, AppendProperties DEF Bk!Slot
<1>5. ASSUME NEW a \in DOMAIN bkTree, Len(a) < Len(Bk!Slot), Agree(Bk!Slot, a, Len(a))
      PROVE  Bk!Here(a) = Bk!Slot[Len(a) + 1]
  <2>1. a \in Seq(Nat) /\ Len(a) \in Nat
    BY BkAddressesAreSeqs
  <2>2. Agree(bkAt, a, Len(a))
    BY <2>1, <1>2, <1>4, <1>5 DEF Agree
  <2>3. CASE Len(a) = Len(bkAt)
    <3>1. \A n \in 1 .. Len(bkAt) : a[n] = bkAt[n]
      BY <2>2, <2>3 DEF Agree
    <3>2. a = bkAt
      BY <3>1, <2>1, <1>2, <2>3, SeqEqual
    <3> QED
      BY <3>2, <1>4, <2>3
  <2>4. CASE Len(a) < Len(bkAt)
    <3>1. Bk!Here(a) = bkAt[Len(a) + 1]
      BY <2>2, <2>4 DEF BkWalkFollowsKeys
    <3>2. Len(a) + 1 \in 1 .. Len(bkAt)
      BY <2>1, <2>4, <1>2
    <3> QED
      BY <3>1, <3>2, <1>4
  <2> QED
    BY <2>1, <2>3, <2>4, <1>2, <1>4, <1>5
<1> QED
  BY <1>1, <1>2, <1>4, <1>5 DEF Agree

LEMMA BkStepDescend ==
    ASSUME BkIInv, Bk!Descend
    PROVE  BkIInv'
<1> USE DEF BkIInv, Bk!Descend
<1>1. Bk!TypeOK' /\ Bk!LabelsAreDistances' /\ BkPrefixClosed'
  BY DEF Bk!TypeOK, Bk!LabelsAreDistances, BkPrefixClosed
<1>2. BkCallOK'
  BY DEF BkCallOK, Bk!Idle
<1>3. BkWalkFollowsKeys'
  BY BkSlotFollowsKeys DEF BkWalkFollowsKeys, Bk!Here
<1>4. BkFoundIsSettled'
  BY DEF BkFoundIsSettled
<1> QED
  BY <1>1, <1>2, <1>3, <1>4

\* The new leaf is the only address at or below it.
LEMMA BkStepAttach ==
    ASSUME BkIInv, Bk!Attach
    PROVE  BkIInv'
<1> USE DEF BkIInv
<1>0. /\ bkCall.op = "insert" /\ Bk!Slot \notin DOMAIN bkTree
      /\ bkStored' = Append(bkStored, bkCall.text)
      /\ DOMAIN bkTree' = DOMAIN bkTree \cup {Bk!Slot}
      /\ bkTree'[Bk!Slot] = Len(bkStored) + 1 /\ \A a \in DOMAIN bkTree : bkTree'[a] = bkTree[a]
      /\ bkCall' = Bk!Idle /\ bkAt' = Bk!Root /\ UNCHANGED <<bkDone, bkFound, bkReply>>
  BY DEF Bk!Attach
<1>1. /\ bkAt \in DOMAIN bkTree /\ bkCall.text \in Text /\ Len(bkAt) \in Nat
      /\ Bk!Slot \in Seq(Nat) /\ Len(Bk!Slot) = Len(bkAt) + 1 /\ Agree(Bk!Slot, bkAt, Len(bkAt))
      /\ \A a \in DOMAIN bkTree :
            Len(a) < Len(Bk!Slot) /\ Agree(Bk!Slot, a, Len(a)) => Bk!Here(a) = Bk!Slot[Len(a) + 1]
  BY <1>0, BkSlotFollowsKeys
<1>2. bkStored # << >> /\ bkReply = Bk!NoReply /\ bkDone = Bk!NoKey
  BY <1>0 DEF BkCallOK, Bk!Idle
<1>3. /\ bkStored \in Seq(Text) /\ Len(bkStored) \in Nat
      /\ bkStored' \in Seq(Text) /\ bkStored' # << >> /\ Len(bkStored') = Len(bkStored) + 1
      /\ \A e \in 1 .. Len(bkStored) : bkStored'[e] = bkStored[e]
      /\ bkStored'[Len(bkStored) + 1] = bkCall.text
      /\ DOMAIN bkStored = 1 .. Len(bkStored) /\ DOMAIN bkStored' = 1 .. Len(bkStored) + 1
  <2>1. bkStored \in Seq(Text)
    BY DEF Bk!TypeOK
  <2>2. bkStored' \in Seq(Text) /\ bkStored' # << >> /\ Len(bkStored') = Len(bkStored) + 1
        /\ (\A e \in 1 .. Len(bkStored) : bkStored'[e] = bkStored[e])
        /\ bkStored'[Len(bkStored) + 1] = bkCall.text
    BY <2>1, <1>0, <1>1, AppendProperties
  <2> QED
    BY <2>1, <2>2, LenProperties
<1>4. \A a \in DOMAIN bkTree : bkTree[a] \in 1 .. Len(bkStored)
  BY <1>3 DEF Bk!TypeOK
<1>5. Bk!Root \in DOMAIN bkTree
  <2>1. PICK a \in DOMAIN bkTree : Len(a) = 0 /\ Agree(bkAt, a, 0)
    BY <1>1 DEF BkPrefixClosed
  <2>2. a = << >>
    BY <2>1, BkAddressesAreSeqs, EmptySeq
  <2> QED
    BY <2>1, <2>2 DEF Bk!Root
<1>6. Bk!TypeOK'
  <2>1. \A e \in 1 .. Len(bkStored) + 1 : \E a \in DOMAIN bkTree' : bkTree'[a] = e
    <3> SUFFICES ASSUME NEW e \in 1 .. Len(bkStored) + 1
                 PROVE  \E a \in DOMAIN bkTree' : bkTree'[a] = e
      OBVIOUS
    <3>1. CASE e = Len(bkStored) + 1
      BY <3>1, <1>0
    <3>2. CASE e \in DOMAIN bkStored
      <4>1. PICK a \in DOMAIN bkTree : bkTree[a] = e
        BY <3>2 DEF Bk!TypeOK
      <4> QED
        BY <4>1, <1>0
    <3> QED
      BY <3>1, <3>2, <1>3
  <2>2. \A a, b \in DOMAIN bkTree' : bkTree'[a] = bkTree'[b] => a = b
    BY <1>0, <1>3, <1>4 DEF Bk!TypeOK
  <2>3. DOMAIN bkTree' \subseteq Seq(Nat) /\ bkFound' \subseteq DOMAIN bkStored'
    BY <1>0, <1>1, <1>3 DEF Bk!TypeOK
  <2>4. \A a \in DOMAIN bkTree' : bkTree'[a] \in DOMAIN bkStored'
    BY <1>0, <1>3, <1>4
  <2> QED
    BY <2>1, <2>2, <2>3, <2>4, <1>0, <1>2, <1>3, <1>5 DEF Bk!TypeOK
<1>7. Bk!LabelsAreDistances'
  <2> SUFFICES ASSUME NEW a \in DOMAIN bkTree', NEW b \in DOMAIN bkTree', Len(a) < Len(b),
                      Agree(b, a, Len(a))
               PROVE  Bk!Dist(bkStored'[bkTree'[a]], bkStored'[bkTree'[b]]) = b[Len(a) + 1]
    BY DEF Bk!LabelsAreDistances, Agree
  <2>1. CASE a \in DOMAIN bkTree /\ b \in DOMAIN bkTree
    <3>1. Bk!Dist(bkStored[bkTree[a]], bkStored[bkTree[b]]) = b[Len(a) + 1]
      BY <2>1 DEF Bk!LabelsAreDistances, Agree
    <3> QED
      BY <3>1, <2>1, <1>0, <1>3, <1>4
  <2>2. CASE a \in DOMAIN bkTree /\ b = Bk!Slot
    <3>1. Bk!Here(a) = Bk!Slot[Len(a) + 1]
      BY <2>2, <1>1
    <3> QED
      BY <3>1, <2>2, <1>0, <1>3, <1>4 DEF Bk!Here
  <2>3. CASE a = Bk!Slot /\ b \in DOMAIN bkTree
    <3>1. Len(Bk!Slot) \in Nat /\ Len(Bk!Slot) <= Len(b) /\ b \in Seq(Nat)
      BY <2>3, <1>1, BkAddressesAreSeqs
    <3>2. PICK o \in DOMAIN bkTree : Len(o) = Len(Bk!Slot) /\ Agree(b, o, Len(Bk!Slot))
      BY <3>1, <2>3 DEF BkPrefixClosed
    <3>3. o \in Seq(Nat) /\ \A n \in 1 .. Len(o) : o[n] = Bk!Slot[n]
      BY <3>2, <2>3, BkAddressesAreSeqs DEF Agree
    <3>4. o = Bk!Slot
      BY <3>2, <3>3, <1>1, SeqEqual
    <3> QED
      BY <3>4, <1>0
  <2>4. CASE a = Bk!Slot /\ b = Bk!Slot
    BY <2>4, <1>1
  <2> QED
    BY <2>1, <2>2, <2>3, <2>4, <1>0
<1>8. BkPrefixClosed'
  <2> SUFFICES ASSUME NEW p \in DOMAIN bkTree', NEW n \in Nat, n <= Len(p)
               PROVE  \E a \in DOMAIN bkTree' : Len(a) = n /\ Agree(p, a, n)
    BY DEF BkPrefixClosed
  <2>1. CASE p \in DOMAIN bkTree
    BY <2>1, <1>0 DEF BkPrefixClosed
  <2>2. CASE p = Bk!Slot /\ n = Len(Bk!Slot)
    BY <2>2, <1>0 DEF Agree
  <2>3. CASE p = Bk!Slot /\ n # Len(Bk!Slot)
    <3>1. n <= Len(bkAt)
      BY <2>3, <1>1
    <3>2. PICK a \in DOMAIN bkTree : Len(a) = n /\ Agree(bkAt, a, n)
      BY <3>1, <1>1 DEF BkPrefixClosed
    <3>3. Agree(p, a, n)
      BY <3>1, <3>2, <2>3, <1>1, SMTT(30) DEF Agree
    <3> QED
      BY <3>2, <3>3, <1>0
  <2> QED
    BY <2>1, <2>2, <2>3, <1>0
<1>9. BkCallOK' /\ BkWalkFollowsKeys' /\ BkFoundIsSettled'
  BY <1>0, <1>2, <1>3 DEF BkCallOK, BkWalkFollowsKeys, BkFoundIsSettled, Bk!Idle
<1> QED
  BY <1>6, <1>7, <1>8, <1>9

-----------------------------------------------------------------------------
(* The BK-tree: find_within *)

LEMMA BkStepFindInEmpty ==
    ASSUME BkIInv, NEW q \in Queries, NEW r \in Radii, Bk!FindInEmpty(q, r)
    PROVE  BkIInv'
<1> USE DEF BkIInv, Bk!FindInEmpty
<1>1. Bk!TypeOK' /\ Bk!LabelsAreDistances' /\ BkPrefixClosed'
  BY DEF Bk!TypeOK, Bk!LabelsAreDistances, BkPrefixClosed
<1>2. BkCallOK' /\ BkWalkFollowsKeys' /\ BkFoundIsSettled'
  BY DEF BkCallOK, BkWalkFollowsKeys, BkFoundIsSettled, Bk!Idle
<1> QED
  BY <1>1, <1>2

\* At the start only the root is settled.
LEMMA BkStepBeginFind ==
    ASSUME BkIInv, NEW q \in Queries, NEW r \in Radii, Bk!BeginFind(q, r)
    PROVE  BkIInv'
<1> USE DEF BkIInv, Bk!BeginFind
<1>1. /\ q \in Text /\ bkCall = Bk!Idle /\ bkCall' = [op |-> "within", text |-> q, bound |-> r]
      /\ bkAt = Bk!Root /\ Bk!Root \in DOMAIN bkTree /\ bkDone = Bk!NoKey /\ Len(Bk!Root) = 0
  BY MetricAssumption DEF BkCallOK, Bk!TypeOK, Bk!Idle, Bk!Root
<1>2. Bk!TypeOK'
  BY <1>1 DEF Bk!TypeOK
<1>3. Bk!LabelsAreDistances' /\ BkPrefixClosed'
  BY DEF Bk!LabelsAreDistances, BkPrefixClosed
<1>4. BkCallOK' /\ BkWalkFollowsKeys'
  BY <1>1 DEF BkCallOK, BkWalkFollowsKeys, Bk!Idle
<1>5. \A e \in bkFound' : Bk!Dist(bkStored[e], q) <= r
  OBVIOUS
<1>6. ASSUME NEW p \in DOMAIN bkTree, BkSettled(p)'
      PROVE  p = Bk!Root
  <2>1. p \in Seq(Nat) /\ Len(p) \in Nat /\ \A n \in 1 .. Len(p) : p[n] \in Nat
    BY BkAddressesAreSeqs
  <2>2. ~BkLeftOf(p)'
    BY <1>1, <2>1 DEF BkLeftOf
  <2>3. ~BkTried(p)'
    BY <1>1, <2>1 DEF BkTried, Bk!NoKey
  <2>4. Len(p) <= 0
    BY <1>1, <1>6, <2>2, <2>3 DEF BkSettled, BkOnPath
  <2> QED
    BY <2>1, <2>4, EmptySeq DEF Bk!Root
<1>7. BkFoundIsSettled'
  BY <1>1, <1>5, <1>6 DEF BkFoundIsSettled, Bk!Here
<1> QED
  BY <1>2, <1>3, <1>4, <1>7

\* The facts of a running search.
LEMMA BkSearchFacts ==
    ASSUME BkIInv, bkCall.op = "within"
    PROVE  /\ bkStored # << >> /\ bkReply = Bk!NoReply
           /\ bkAt \in DOMAIN bkTree /\ bkAt \in Seq(Nat) /\ Len(bkAt) \in Nat
           /\ (\A n \in 1 .. Len(bkAt) : bkAt[n] \in Nat)
           /\ bkCall = [op |-> "within", text |-> bkCall.text, bound |-> bkCall.bound]
           /\ bkCall.text \in Text /\ bkCall.bound \in Radii
           /\ bkDone \in Nat \cup {-1}
<1> USE DEF BkIInv
<1>1. bkCall \in [op : {"within"}, text : Text, bound : Radii] /\ bkStored # << >> /\ bkReply = Bk!NoReply
  BY DEF BkCallOK, Bk!Idle
<1>2. bkAt \in DOMAIN bkTree /\ bkDone \in Nat \cup {-1}
  BY <1>1 DEF Bk!TypeOK, Bk!NoKey
<1>3. bkCall = [op |-> "within", text |-> bkCall.text, bound |-> bkCall.bound]
  BY <1>1
<1> QED
  BY <1>1, <1>2, <1>3, BkAddressesAreSeqs

\* What changes when the search moves: found and the settled addresses.
LEMMA BkMoveKeeps ==
    ASSUME BkIInv, bkCall.op = "within", UNCHANGED <<bkStored, bkTree, bkCall, bkReply>>,
           bkAt' \in DOMAIN bkTree, bkDone' \in Nat \cup {Bk!NoKey}, bkFound' \subseteq DOMAIN bkStored
    PROVE  Bk!TypeOK' /\ Bk!LabelsAreDistances' /\ BkPrefixClosed' /\ BkCallOK' /\ BkWalkFollowsKeys'
<1> USE DEF BkIInv
<1>1. Bk!TypeOK'
  BY DEF Bk!TypeOK
<1>2. Bk!LabelsAreDistances' /\ BkPrefixClosed'
  BY DEF Bk!LabelsAreDistances, BkPrefixClosed
<1>3. BkCallOK' /\ BkWalkFollowsKeys'
  BY DEF BkCallOK, BkWalkFollowsKeys, Bk!Idle
<1> QED
  BY <1>1, <1>2, <1>3

\* Entering a child settles that child and nothing else.
LEMMA BkStepEnter ==
    ASSUME BkIInv, NEW c \in DOMAIN bkTree, Bk!Enter(c)
    PROVE  BkIInv'
<1> USE DEF BkIInv
<1>0. /\ bkCall.op = "within" /\ Bk!IsNext(c) /\ bkAt' = c /\ bkDone' = Bk!NoKey
      /\ bkFound' = IF Bk!Here(c) <= bkCall.bound THEN bkFound \cup {bkTree[c]} ELSE bkFound
      /\ UNCHANGED <<bkStored, bkTree, bkCall, bkReply>>
  BY DEF Bk!Enter
<1>1. /\ bkStored # << >> /\ bkAt \in DOMAIN bkTree /\ Len(bkAt) \in Nat /\ bkDone \in Nat \cup {-1}
      /\ \A n \in 1 .. Len(bkAt) : bkAt[n] \in Nat
  BY <1>0, BkSearchFacts
<1>2. Len(c) = Len(bkAt) + 1 /\ (\A n \in 1 .. Len(bkAt) : c[n] = bkAt[n]) /\ c[Len(bkAt) + 1] \in Nat
  BY <1>0, <1>1, BkAddressesAreSeqs DEF Bk!IsNext, Bk!Remaining
<1>3. Bk!TypeOK' /\ Bk!LabelsAreDistances' /\ BkPrefixClosed' /\ BkCallOK' /\ BkWalkFollowsKeys'
  <2>1. bkFound' \subseteq DOMAIN bkStored
    BY <1>0 DEF Bk!TypeOK
  <2> QED
    BY <2>1, <1>0, BkMoveKeeps
<1>4. ASSUME NEW p \in DOMAIN bkTree, BkSettled(p)', p # c
      PROVE  BkSettled(p)
  <2>1. p \in Seq(Nat) /\ Len(p) \in Nat /\ \A n \in 1 .. Len(p) : p[n] \in Nat
    BY BkAddressesAreSeqs
  <2>2. CASE BkOnPath(p)'
    <3>1. Len(p) <= Len(c) /\ \A n \in 1 .. Len(p) : p[n] = c[n]
      BY <2>2, <1>0 DEF BkOnPath, Agree
    <3>2. CASE Len(p) = Len(c)
      BY <3>1, <3>2, <2>1, <1>4, BkAddressesAreSeqs, SeqEqual
    <3>3. CASE Len(p) <= Len(bkAt)
      BY <3>1, <3>3, <2>1, <1>1, <1>2 DEF BkSettled, BkOnPath, Agree
    <3> QED
      BY <3>1, <3>2, <3>3, <2>1, <1>1, <1>2
  <2>3. CASE BkLeftOf(p)'
    <3>1. PICK n \in 1 .. Len(p) : n <= Len(c) /\ Agree(p, c, n - 1) /\ p[n] < c[n]
      BY <2>3, <1>0 DEF BkLeftOf, Agree
    <3>2. CASE n <= Len(bkAt)
      <4>1. Agree(p, bkAt, n - 1) /\ p[n] < bkAt[n]
        BY <3>1, <3>2, <2>1, <1>1, <1>2 DEF Agree
      <4> QED
        BY <4>1, <3>2 DEF BkSettled, BkLeftOf
    <3>3. CASE n = Len(bkAt) + 1
      <4>1. Len(p) > Len(bkAt) /\ Agree(p, bkAt, Len(bkAt))
        BY <3>1, <3>3, <2>1, <1>1, <1>2 DEF Agree
      <4>2. p[Len(bkAt) + 1] <= bkDone \/ c[Len(bkAt) + 1] <= p[Len(bkAt) + 1]
        BY <4>1, <1>0, <1>1, BkNextChildIsNext
      <4>3. p[Len(bkAt) + 1] <= bkDone
        BY <4>1, <4>2, <3>1, <3>3, <2>1, <1>1, <1>2
      <4> QED
        BY <4>1, <4>3 DEF BkSettled, BkTried
    <3> QED
      BY <3>1, <3>2, <3>3, <2>1, <1>1, <1>2
  <2>4. ~BkTried(p)'
    <3>1. Len(c) + 1 \in 1 .. Len(p) => ~(p[Len(c) + 1] <= Bk!NoKey)
      BY <2>1 DEF Bk!NoKey
    <3> QED
      BY <3>1, <2>1, <1>0, <1>1, <1>2 DEF BkTried
  <2> QED
    BY <2>2, <2>3, <2>4, <1>4 DEF BkSettled
<1>5. BkFoundIsSettled'
  <2>1. \A e \in bkFound' : Bk!Dist(bkStored[e], bkCall.text) <= bkCall.bound
    BY <1>0 DEF BkFoundIsSettled, Bk!Here
  <2>2. ASSUME NEW p \in DOMAIN bkTree, BkSettled(p)', Bk!Here(p) <= bkCall.bound
        PROVE  bkTree[p] \in bkFound'
    <3>1. CASE p = c
      BY <3>1, <2>2, <1>0
    <3>2. CASE p # c
      <4>1. BkSettled(p)
        BY <2>2, <3>2, <1>4
      <4> QED
        BY <4>1, <2>2, <1>0 DEF BkFoundIsSettled
    <3> QED
      BY <3>1, <3>2
  <2> QED
    BY <2>1, <2>2, <1>0 DEF BkFoundIsSettled, Bk!Here
<1> QED
  BY <1>3, <1>5

\* Pruning a child settles what is below it, and none of that is within the
\* radius: all of it is at the child's key from this node.
LEMMA BkStepPrune ==
    ASSUME BkIInv, NEW c \in DOMAIN bkTree, Bk!Prune(c)
    PROVE  BkIInv'
<1> USE DEF BkIInv
<1>0. /\ bkCall.op = "within" /\ Bk!IsNext(c) /\ ~Bk!Reaches(c[Len(c)]) /\ bkDone' = c[Len(c)]
      /\ UNCHANGED <<bkStored, bkTree, bkCall, bkAt, bkFound, bkReply>>
  BY DEF Bk!Prune
<1>1. /\ bkStored # << >> /\ bkAt \in DOMAIN bkTree /\ Len(bkAt) \in Nat /\ bkDone \in Nat \cup {-1}
      /\ bkCall.text \in Text /\ bkCall.bound \in Radii
  BY <1>0, BkSearchFacts
<1>2. Len(c) = Len(bkAt) + 1 /\ (\A n \in 1 .. Len(bkAt) : c[n] = bkAt[n]) /\ c[Len(bkAt) + 1] \in Nat
  BY <1>0, <1>1, BkAddressesAreSeqs DEF Bk!IsNext, Bk!Remaining
<1>3. Bk!TypeOK' /\ Bk!LabelsAreDistances' /\ BkPrefixClosed' /\ BkCallOK' /\ BkWalkFollowsKeys'
  <2>1. bkFound' \subseteq DOMAIN bkStored /\ bkDone' \in Nat \cup {Bk!NoKey}
    BY <1>0, <1>2 DEF Bk!TypeOK
  <2> QED
    BY <2>1, <1>0, <1>1, BkMoveKeeps
<1>4. ASSUME NEW p \in DOMAIN bkTree, BkSettled(p)', ~BkSettled(p)
      PROVE  ~(Bk!Here(p) <= bkCall.bound)
  <2>1. p \in Seq(Nat) /\ Len(p) \in Nat /\ \A n \in 1 .. Len(p) : p[n] \in Nat
    BY BkAddressesAreSeqs
  <2>2. BkTried(p)'
    BY <1>0, <1>4 DEF BkSettled, BkOnPath, BkLeftOf, Agree
  <2>3. Len(p) > Len(bkAt) /\ Agree(p, bkAt, Len(bkAt)) /\ p[Len(bkAt) + 1] <= c[Len(bkAt) + 1]
    BY <2>2, <1>0, <1>2 DEF BkTried, Agree
  <2>4. ~(p[Len(bkAt) + 1] <= bkDone)
    BY <2>3, <1>4 DEF BkSettled, BkTried
  <2>5. c[Len(bkAt) + 1] <= p[Len(bkAt) + 1]
    BY <2>3, <2>4, <1>0, <1>1, BkNextChildIsNext
  <2>6. p[Len(bkAt) + 1] = c[Len(bkAt) + 1]
    BY <2>1, <2>3, <2>5, <1>1, <1>2
  <2>7. Bk!Dist(bkStored[bkTree[bkAt]], bkStored[bkTree[p]]) = c[Len(c)]
    BY <2>3, <2>6, <1>1, <1>2 DEF Bk!LabelsAreDistances, Agree
  <2>8. /\ bkStored[bkTree[bkAt]] \in Text /\ bkStored[bkTree[p]] \in Text
    BY <1>1, BkEntryIsText
  <2>9. ~( /\ Bk!Dist(bkStored[bkTree[bkAt]], bkCall.text) <= Bk!Plus(c[Len(c)], bkCall.bound)
           /\ c[Len(c)] <= Bk!Plus(Bk!Dist(bkStored[bkTree[bkAt]], bkCall.text), bkCall.bound) )
    BY <1>0 DEF Bk!Reaches, Bk!Here
  <2> QED
    BY <2>7, <2>8, <2>9, <1>1, BkPruningIsSound DEF Bk!Here
<1>5. BkFoundIsSettled'
  BY <1>0, <1>4 DEF BkFoundIsSettled, Bk!Here
<1> QED
  BY <1>3, <1>5

\* Behind the last child, everything below the node is settled.
LEMMA BkStepLeave ==
    ASSUME BkIInv, Bk!Leave
    PROVE  BkIInv'
<1> USE DEF BkIInv
<1>0. /\ bkCall.op = "within" /\ Bk!Remaining = {} /\ bkAt # Bk!Root
      /\ bkAt' = SubSeq(bkAt, 1, Len(bkAt) - 1) /\ bkDone' = bkAt[Len(bkAt)]
      /\ UNCHANGED <<bkStored, bkTree, bkCall, bkFound, bkReply>>
  BY DEF Bk!Leave
<1>1. /\ bkStored # << >> /\ bkAt \in DOMAIN bkTree /\ bkAt \in Seq(Nat) /\ Len(bkAt) \in Nat
      /\ \A n \in 1 .. Len(bkAt) : bkAt[n] \in Nat
  BY <1>0, BkSearchFacts
<1>2. Len(bkAt) \in Nat \ {0}
  BY <1>0, <1>1, EmptySeq DEF Bk!Root
<1>3. /\ bkAt' \in Seq(Nat) /\ Len(bkAt') = Len(bkAt) - 1
      /\ \A n \in 1 .. Len(bkAt) - 1 : bkAt'[n] = bkAt[n]
  <2>1. Len(bkAt) - 1 \in Nat /\ Len(bkAt) - 1 <= Len(bkAt)
    BY <1>2
  <2> QED
    BY <2>1, <1>0, <1>1, PrefixOfSeq
<1>4. bkAt' \in DOMAIN bkTree
  <2>1. Len(bkAt) - 1 \in Nat /\ Len(bkAt) - 1 <= Len(bkAt)
    BY <1>2
  <2>2. PICK a \in DOMAIN bkTree : Len(a) = Len(bkAt) - 1 /\ Agree(bkAt, a, Len(bkAt) - 1)
    BY <2>1, <1>1 DEF BkPrefixClosed
  <2>3. a \in Seq(Nat) /\ Len(a) = Len(bkAt') /\ \A n \in 1 .. Len(a) : a[n] = bkAt'[n]
    BY <2>2, <1>3, BkAddressesAreSeqs DEF Agree
  <2>4. a = bkAt'
    BY <2>3, <1>3, SeqEqual
  <2> QED
    BY <2>4
<1>5. Bk!TypeOK' /\ Bk!LabelsAreDistances' /\ BkPrefixClosed' /\ BkCallOK' /\ BkWalkFollowsKeys'
  <2>1. bkFound' \subseteq DOMAIN bkStored /\ bkDone' \in Nat \cup {Bk!NoKey}
    BY <1>0, <1>1, <1>2 DEF Bk!TypeOK
  <2> QED
    BY <2>1, <1>0, <1>4, BkMoveKeeps
<1>6. ASSUME NEW p \in DOMAIN bkTree, BkSettled(p)'
      PROVE  BkSettled(p)
  <2>1. p \in Seq(Nat) /\ Len(p) \in Nat /\ \A n \in 1 .. Len(p) : p[n] \in Nat
    BY BkAddressesAreSeqs
  <2>2. CASE BkOnPath(p)'
    <3>1. Len(p) <= Len(bkAt) - 1 /\ \A n \in 1 .. Len(p) : p[n] = bkAt'[n]
      BY <2>2, <1>3 DEF BkOnPath, Agree
    <3> QED
      BY <3>1, <2>1, <1>2, <1>3 DEF BkSettled, BkOnPath, Agree
  <2>3. CASE BkLeftOf(p)'
    <3>1. PICK n \in 1 .. Len(p) : n <= Len(bkAt) - 1 /\ (\A m \in 1 .. n - 1 : p[m] = bkAt'[m]) /\ p[n] < bkAt'[n]
      BY <2>3, <1>3 DEF BkLeftOf, Agree
    <3>2. n <= Len(bkAt) /\ n \in 1 .. Len(bkAt) - 1 /\ \A m \in 1 .. n - 1 : m \in 1 .. Len(bkAt) - 1
      BY <3>1, <2>1, <1>2
    <3>3. Agree(p, bkAt, n - 1) /\ p[n] < bkAt[n]
      BY <3>1, <3>2, <1>3 DEF Agree
    <3> QED
      BY <3>2, <3>3 DEF BkSettled, BkLeftOf
  <2>4. CASE BkTried(p)'
    <3>1. Len(p) > Len(bkAt) - 1 /\ (\A n \in 1 .. Len(bkAt) - 1 : p[n] = bkAt'[n]) /\ p[Len(bkAt)] <= bkAt[Len(bkAt)]
      <4>1. Len(bkAt') + 1 = Len(bkAt)
        BY <1>2, <1>3
      <4>2. Len(p) > Len(bkAt') /\ (\A n \in 1 .. Len(bkAt') : p[n] = bkAt'[n]) /\ p[Len(bkAt') + 1] <= bkDone'
        BY <2>4 DEF BkTried, Agree
      <4> QED
        BY <4>1, <4>2, <1>0, <1>3
    <3>2. Agree(p, bkAt, Len(bkAt) - 1) /\ Len(p) >= Len(bkAt) /\ Len(bkAt) \in 1 .. Len(p)
      BY <3>1, <2>1, <1>2, <1>3 DEF Agree
    <3>3. CASE p[Len(bkAt)] < bkAt[Len(bkAt)]
      BY <3>2, <3>3, <1>2 DEF BkSettled, BkLeftOf
    <3>4. CASE p[Len(bkAt)] = bkAt[Len(bkAt)]
      <4>1. Agree(p, bkAt, Len(bkAt))
        BY <3>2, <3>4, <1>2 DEF Agree
      <4>2. CASE Len(p) = Len(bkAt)
        BY <4>1, <4>2, <1>2 DEF BkSettled, BkOnPath
      <4>3. CASE Len(p) > Len(bkAt)
        BY <4>1, <4>3, <1>0, <1>1, BkNoneRemainingIsAllTried DEF BkSettled
      <4> QED
        BY <4>2, <4>3, <3>2, <2>1, <1>2
    <3> QED
      BY <3>1, <3>2, <3>3, <3>4, <2>1, <1>1, <1>2
  <2> QED
    BY <2>2, <2>3, <2>4, <1>6 DEF BkSettled
<1>7. BkFoundIsSettled'
  BY <1>0, <1>6 DEF BkFoundIsSettled, Bk!Here
<1> QED
  BY <1>5, <1>7

LEMMA BkStepReturn ==
    ASSUME BkIInv, Bk!Return
    PROVE  BkIInv'
<1> USE DEF BkIInv, Bk!Return
<1>1. Bk!TypeOK' /\ Bk!LabelsAreDistances' /\ BkPrefixClosed'
  BY DEF Bk!TypeOK, Bk!LabelsAreDistances, BkPrefixClosed
<1>2. BkCallOK' /\ BkWalkFollowsKeys' /\ BkFoundIsSettled'
  BY BkSearchFacts DEF BkCallOK, BkWalkFollowsKeys, BkFoundIsSettled, Bk!Idle
<1> QED
  BY <1>1, <1>2

\* Back at the root with no child left, the answer is a scan's.
LEMMA BkReturnIsScan ==
    ASSUME BkIInv, Bk!Return
    PROVE  bkFound = { e \in DOMAIN bkStored : Bk!Dist(bkStored[e], bkCall.text) <= bkCall.bound }
<1> USE DEF BkIInv
<1>0. bkCall.op = "within" /\ Bk!Remaining = {} /\ bkAt = Bk!Root /\ bkStored # << >> /\ Len(Bk!Root) = 0
  BY BkSearchFacts DEF Bk!Return, Bk!Root
<1>1. ASSUME NEW p \in DOMAIN bkTree
      PROVE  BkSettled(p)
  <2>1. p \in Seq(Nat) /\ Len(p) \in Nat
    BY BkAddressesAreSeqs
  <2>2. Agree(p, bkAt, 0)
    BY DEF Agree
  <2>3. CASE Len(p) = 0
    BY <2>2, <2>3, <1>0 DEF BkSettled, BkOnPath
  <2>4. CASE Len(p) > 0
    BY <2>2, <2>4, <1>0, BkNoneRemainingIsAllTried DEF BkSettled
  <2> QED
    BY <2>1, <2>3, <2>4
<1>2. ASSUME NEW e \in DOMAIN bkStored, Bk!Dist(bkStored[e], bkCall.text) <= bkCall.bound
      PROVE  e \in bkFound
  <2>1. PICK p \in DOMAIN bkTree : bkTree[p] = e
    BY DEF Bk!TypeOK
  <2> QED
    BY <2>1, <1>0, <1>1, <1>2 DEF BkFoundIsSettled, Bk!Here
<1>3. bkFound \subseteq DOMAIN bkStored /\ \A e \in bkFound : Bk!Dist(bkStored[e], bkCall.text) <= bkCall.bound
  BY <1>0 DEF Bk!TypeOK, BkFoundIsSettled
<1> QED
  BY <1>2, <1>3

-----------------------------------------------------------------------------
LEMMA BkNextIInv == BkIInv /\ [Bk!Next]_(Bk!vars) => BkIInv'
<1> SUFFICES ASSUME BkIInv, [Bk!Next]_(Bk!vars) PROVE BkIInv'
  OBVIOUS
<1>1. CASE \E x \in Text : Bk!Insert(x)
  BY <1>1, BkStepInsertRoot, BkStepBeginInsert DEF Bk!Insert
<1>2. CASE \E q \in Queries, r \in Radii : Bk!Find(q, r)
  BY <1>2, BkStepFindInEmpty, BkStepBeginFind DEF Bk!Find
<1>3. CASE Bk!Step
  BY <1>3, BkStepDescend, BkStepAttach, BkStepEnter, BkStepPrune, BkStepLeave, BkStepReturn DEF Bk!Step
<1>4. CASE UNCHANGED Bk!vars
  BY <1>4 DEF BkIInv, Bk!vars, Bk!TypeOK, Bk!LabelsAreDistances, BkPrefixClosed, BkCallOK, BkWalkFollowsKeys,
              BkFoundIsSettled, Bk!Here, BkSettled, BkOnPath, BkLeftOf, BkTried
<1> QED
  BY <1>1, <1>2, <1>3, <1>4 DEF Bk!Next

\* The tree holds every item once, at an address of the keys on its path.
THEOREM BkTypeCorrect == Bk!Spec => []Bk!TypeOK
<1>1. Bk!Init => BkIInv
  BY BkInitIInv
<1>2. BkIInv /\ [Bk!Next]_(Bk!vars) => BkIInv'
  BY BkNextIInv
<1>3. BkIInv => Bk!TypeOK
  BY DEF BkIInv
<1> QED
  BY <1>1, <1>2, <1>3, PTL DEF Bk!Spec

\* Whatever is inserted, what lies below a child is at the child's key.
THEOREM BkLabelsCorrect == Bk!Spec => []Bk!LabelsAreDistances
<1>1. Bk!Init => BkIInv
  BY BkInitIInv
<1>2. BkIInv /\ [Bk!Next]_(Bk!vars) => BkIInv'
  BY BkNextIInv
<1>3. BkIInv => Bk!LabelsAreDistances
  BY DEF BkIInv
<1> QED
  BY <1>1, <1>2, <1>3, PTL DEF Bk!Spec

-----------------------------------------------------------------------------
(* The BK-tree: the index it implements *)

LEMMA BkInitIsIndexInit == Bk!Init => Bk!Index!Init
BY DEF Bk!Init, Bk!Index!Init, Bk!NoReply, Bk!Index!NoReply

LEMMA BkInsertIsIndexStep ==
    ASSUME BkIInv, NEW x \in Text, Bk!Insert(x)
    PROVE  [Bk!Index!Next]_(Bk!Index!vars)
<1>1. x \in Text
  BY MetricAssumption
<1>2. CASE Bk!InsertRoot(x)
  <2>1. bkStored' = Append(bkStored, x) /\ bkReply' = Bk!Index!NoReply
    BY <1>2 DEF Bk!InsertRoot, Bk!NoReply, Bk!Index!NoReply
  <2> QED
    BY <2>1, <1>1 DEF Bk!Index!Next, Bk!Index!Insert
<1>3. CASE Bk!BeginInsert(x)
  BY <1>3 DEF Bk!BeginInsert, Bk!NoReply, Bk!Index!NoReply, Bk!Index!Next, Bk!Index!Call
<1> QED
  BY <1>2, <1>3 DEF Bk!Insert

LEMMA BkFindIsIndexStep ==
    ASSUME BkIInv, NEW q \in Queries, NEW r \in Radii, Bk!Find(q, r)
    PROVE  [Bk!Index!Next]_(Bk!Index!vars)
<1>1. CASE Bk!FindInEmpty(q, r)
  <2>1. DOMAIN bkStored = {} /\ UNCHANGED bkStored
    BY <1>1 DEF Bk!FindInEmpty
  <2>2. bkReply' = [op |-> "within", text |-> q, bound |-> r, found |-> {}]
    BY <1>1 DEF Bk!FindInEmpty
  <2>3. Bk!Index!Within(q, r) = {}
    BY <2>1 DEF Bk!Index!Within, Bk!Index!Entries
  <2>4. bkReply'.found = Bk!Index!Within(bkReply'.text, bkReply'.bound) /\ bkReply'.op = "within"
    BY <2>1, <2>2, <2>3 DEF Bk!Index!Within, Bk!Index!Entries, Bk!Index!Away
  <2> QED
    BY <2>1, <2>4 DEF Bk!Index!Next, Bk!Index!Return, Bk!Index!IsAnswer
<1>2. CASE Bk!BeginFind(q, r)
  BY <1>2 DEF Bk!BeginFind, Bk!NoReply, Bk!Index!NoReply, Bk!Index!Next, Bk!Index!Call
<1> QED
  BY <1>1, <1>2 DEF Bk!Find

LEMMA BkReturnIsIndexStep ==
    ASSUME BkIInv, Bk!Return
    PROVE  [Bk!Index!Next]_(Bk!Index!vars)
<1>1. UNCHANGED bkStored
      /\ bkReply' = [op |-> "within", text |-> bkCall.text, bound |-> bkCall.bound, found |-> bkFound]
  BY DEF Bk!Return
<1>2. bkFound = { e \in DOMAIN bkStored : Bk!Dist(bkStored[e], bkCall.text) <= bkCall.bound }
  BY BkReturnIsScan
<1>3. bkReply'.found = { e \in DOMAIN bkStored : Distance[bkStored[e], bkReply'.text] <= bkReply'.bound }
  BY <1>1, <1>2, Zenon DEF Bk!Dist
<1>4. bkReply'.found = Bk!Index!Within(bkReply'.text, bkReply'.bound) /\ bkReply'.op = "within"
  BY <1>1, <1>3, Zenon DEF Bk!Index!Within, Bk!Index!Entries, Bk!Index!Away
<1> QED
  BY <1>1, <1>4 DEF Bk!Index!Next, Bk!Index!Return, Bk!Index!IsAnswer

LEMMA BkNextIsIndexStep == BkIInv /\ [Bk!Next]_(Bk!vars) => [Bk!Index!Next]_(Bk!Index!vars)
<1> SUFFICES ASSUME BkIInv, [Bk!Next]_(Bk!vars) PROVE [Bk!Index!Next]_(Bk!Index!vars)
  OBVIOUS
<1>1. CASE \E x \in Text : Bk!Insert(x)
  BY <1>1, BkInsertIsIndexStep
<1>2. CASE \E q \in Queries, r \in Radii : Bk!Find(q, r)
  BY <1>2, BkFindIsIndexStep
<1>3. CASE Bk!Descend
  BY <1>3 DEF Bk!Descend, Bk!Index!vars
<1>4. CASE Bk!Attach
  <2>1. bkCall.text \in Text /\ bkCall # Bk!Idle /\ bkReply = Bk!NoReply
    BY <1>4 DEF Bk!Attach, BkIInv, BkCallOK, Bk!Idle
  <2>2. bkStored' = Append(bkStored, bkCall.text) /\ bkReply' = Bk!Index!NoReply
    BY <2>1, <1>4 DEF Bk!Attach, Bk!NoReply, Bk!Index!NoReply
  <2> QED
    BY <2>1, <2>2 DEF Bk!Index!Next, Bk!Index!Insert
<1>5. CASE \E c \in DOMAIN bkTree : Bk!Enter(c) \/ Bk!Prune(c)
  BY <1>5 DEF Bk!Enter, Bk!Prune, Bk!Index!vars
<1>6. CASE Bk!Leave
  BY <1>6 DEF Bk!Leave, Bk!Index!vars
<1>7. CASE Bk!Return
  BY <1>7, BkReturnIsIndexStep
<1>8. CASE UNCHANGED Bk!vars
  BY <1>8 DEF Bk!vars, Bk!Index!vars
<1> QED
  BY <1>1, <1>2, <1>3, <1>4, <1>5, <1>6, <1>7, <1>8 DEF Bk!Next, Bk!Step

\* find_within answers as a linear scan over the items inserted would, for
\* every metric, every tree that insert can build and every radius: no entry
\* within the radius is pruned, none is reported twice, none is outside.
THEOREM BkRefinesIndex == Bk!Spec => Bk!BkImplementsIndex
<1>1. Bk!Init => BkIInv /\ Bk!Index!Init
  BY BkInitIInv, BkInitIsIndexInit
<1>2. BkIInv /\ [Bk!Next]_(Bk!vars) => BkIInv'
  BY BkNextIInv
<1>3. BkIInv /\ [Bk!Next]_(Bk!vars) => [Bk!Index!Next]_(Bk!Index!vars)
  BY BkNextIsIndexStep
<1> QED
  BY <1>1, <1>2, <1>3, PTL DEF Bk!Spec, Bk!BkImplementsIndex, Bk!Index!Spec

-----------------------------------------------------------------------------
(* The pair: the VP-tree *)

LEMMA StepsOfVp == [BothNext]_allVars => [Next]_vars
BY DEF BothNext, allVars, Start, FollowInsert, BkStep, VpStep, Next

LEMMA VpRuns == BothSpec => Spec
<1>1. BothInit => Init
  BY DEF BothInit
<1>2. QED
  BY <1>1, StepsOfVp, PTL DEF BothSpec, Spec

\* Whatever is built, inserted and asked for, find_within and find_k_nearest of
\* the VP-tree answer as a scan would, with a BK-tree following it.
THEOREM VpAnswersAsScan == BothSpec => VpImplementsIndex
BY VpRuns, VpRefinesIndex, PTL

-----------------------------------------------------------------------------
(* The pair: the BK-tree *)

\* The item the BK-tree is given is one of the VP-tree's, and so a text.
LEMMA StepsOfBk ==
    ASSUME stored \in Seq(Text), bkStored \in Seq(Text), [BothNext]_allVars
    PROVE  [Bk!Next]_bkVars
<1>1. CASE FollowInsert
  <2>1. Len(bkStored) + 1 \in 1 .. Len(stored)
    BY <1>1 DEF FollowInsert
  <2>2. stored[Len(bkStored) + 1] \in Text
    BY <2>1
  <2>3. QED
    BY <1>1, <2>2 DEF FollowInsert, Bk!Next
<1>2. CASE Start
  BY <1>2 DEF Start, Bk!Next
<1>3. CASE BkStep \/ VpStep \/ UNCHANGED allVars
  BY <1>3 DEF BkStep, VpStep, allVars, Bk!Next
<1>4. QED
  BY <1>1, <1>2, <1>3 DEF BothNext

LEMMA BkTypes == BkIInv => bkStored \in Seq(Text)
BY DEF BkIInv, Bk!TypeOK

LEMMA BkKeepsInvariant ==
    ASSUME IInv, BkIInv, [BothNext]_allVars
    PROVE  BkIInv' /\ [Bk!Next]_(Bk!vars)
<1>1. stored \in Seq(Text)
  BY DEF IInv, TypeOK
<1>2. [Bk!Next]_bkVars
  BY <1>1, BkTypes, StepsOfBk
<1>3. bkVars = Bk!vars
  BY DEF bkVars, Bk!vars
<1>4. [Bk!Next]_(Bk!vars)
  BY <1>2, <1>3 DEF bkVars, Bk!vars
<1>5. QED
  BY <1>4, BkNextIInv

\* The BK-tree that is given a VP-tree's items answers as a scan would.
THEOREM BkAnswersAsScan == BothSpec => BkImplementsIndex
<1>1. BothSpec => []IInv
  <2>1. Init => IInv
    BY InitIInv
  <2>2. IInv /\ [Next]_vars => IInv'
    BY NextIInv
  <2>3. QED
    BY <2>1, <2>2, VpRuns, PTL DEF Spec
<1>2. BothInit => BkIInv /\ Bk!Index!Init
  BY BkInitIInv, BkInitIsIndexInit DEF BothInit
<1>3. IInv /\ BkIInv /\ [BothNext]_allVars => BkIInv'
  BY BkKeepsInvariant
<1>4. IInv /\ BkIInv /\ [BothNext]_allVars => [Bk!Index!Next]_(Bk!Index!vars)
  BY BkKeepsInvariant, BkNextIsIndexStep
<1>5. QED
  BY <1>1, <1>2, <1>3, <1>4, PTL
  DEF BothSpec, BkImplementsIndex, Bk!BkImplementsIndex, Bk!Index!Spec
=============================================================================
