--------------------------- MODULE KmpSearch_proofs ---------------------------
(***************************************************************************)
(* The invariants of KmpSearch and of RabinKarpStream, the refinement of   *)
(* OccurrenceStream by each, and that the two agree, for every alphabet,   *)
(* every set of patterns, every length of stream and, for Rabin-Karp,      *)
(* every base and modulus that the code's arithmetic admits.               *)
(***************************************************************************)
EXTENDS SinglePatternSearch, SequenceTheorems, Foundations

(* The loop invariants.  k (or j) is a candidate: the text read so far ends
   with that prefix of the pattern, and no longer prefix that does can be
   extended by the byte at hand. *)

BuildLoop ==
    pc = "build" /\ i < m =>
        /\ Border(k, i)
        /\ \A l \in 0 .. m - 1 : Border(l, i) /\ At(l) = At(i) => l <= k

ByteLoop ==
    pc = "byte" =>
        /\ PrefixEnds(j, fed)
        /\ \A l \in 0 .. m - 1 : PrefixEnds(l, fed) /\ At(l) = byte => l <= j

\* The table is complete, or the stream has not been opened.
Phases ==
    IF pc = "build"
    THEN j = 0 /\ fed = << >> /\ hops = 0
    ELSE i >= m

IInv ==
    /\ TypeOK
    /\ FailureIsLongestBorder
    /\ StateIsLongestPrefix
    /\ LinearWork
    /\ BuildLoop
    /\ ByteLoop
    /\ Phases

-----------------------------------------------------------------------------
(* Facts about borders.  They speak of the current pattern only. *)

\* Borders compose downwards: of two borders of a prefix the shorter is a
\* border of the longer.
LEMMA BorderOfBorder ==
    ASSUME pattern \in Seq(Byte),
           NEW q \in 0 .. m, NEW n \in Nat, NEW l \in Nat,
           Border(n, q), Border(l, q), l < n
    PROVE  Border(l, n)
<1> SUFFICES ASSUME NEW x \in 1 .. l
             PROVE  pattern[x] = pattern[n - l + x]
    BY DEF Border
<1>1. pattern[x] = pattern[q - l + x]
    BY DEF Border
<1>2. n - l + x \in 1 .. n
    OBVIOUS
<1>3. pattern[n - l + x] = pattern[q - n + (n - l + x)]
    BY <1>2 DEF Border
<1>4. q - n + (n - l + x) = q - l + x
    BY DEF Border, m
<1> QED BY <1>1, <1>3, <1>4

\* ... and a border of a border is a border.
LEMMA BorderTransitive ==
    ASSUME pattern \in Seq(Byte),
           NEW q \in 0 .. m, NEW n \in Nat, NEW l \in Nat,
           Border(n, q), Border(l, n)
    PROVE  Border(l, q)
<1>1. l < q
    BY DEF Border, m
<1> SUFFICES ASSUME NEW x \in 1 .. l
             PROVE  pattern[x] = pattern[q - l + x]
    BY <1>1 DEF Border
<1>2. pattern[x] = pattern[n - l + x]
    BY DEF Border
<1>3. n - l + x \in 1 .. n
    BY DEF Border
<1>4. pattern[n - l + x] = pattern[q - n + (n - l + x)]
    BY <1>3 DEF Border
<1>5. q - n + (n - l + x) = q - l + x
    BY DEF m
<1> QED BY <1>2, <1>4, <1>5

\* A border of the prefix of length q + 1 is one byte more than a border of
\* the prefix of length q that the byte q extends.
LEMMA BorderExtend ==
    ASSUME pattern \in Seq(Byte),
           NEW q \in 1 .. m - 1, NEW n \in Nat
    PROVE  Border(n + 1, q + 1) <=> Border(n, q) /\ At(n) = At(q)
<1>1. ASSUME Border(n + 1, q + 1)
      PROVE  Border(n, q) /\ At(n) = At(q)
  <2>1. \A x \in 1 .. n + 1 : pattern[x] = pattern[(q + 1) - (n + 1) + x]
      BY <1>1 DEF Border
  <2>2. \A x \in 1 .. n : (q + 1) - (n + 1) + x = q - n + x /\ x \in 1 .. n + 1
      OBVIOUS
  <2>3. pattern[n + 1] = pattern[(q + 1) - (n + 1) + (n + 1)]
      BY <2>1
  <2>4. (q + 1) - (n + 1) + (n + 1) = q + 1
      BY DEF m
  <2> QED BY <1>1, <2>1, <2>2, <2>3, <2>4 DEF Border, At, m
<1>2. ASSUME Border(n, q), At(n) = At(q)
      PROVE  Border(n + 1, q + 1)
  <2>1. ASSUME NEW x \in 1 .. n + 1
        PROVE  pattern[x] = pattern[(q + 1) - (n + 1) + x]
    <3>0. (q + 1) - (n + 1) + x = q - n + x
        BY DEF m
    <3>1. CASE x = n + 1
        BY <1>2, <3>0, <3>1 DEF At, m
    <3>2. CASE x \in 1 .. n
        BY <1>2, <3>0, <3>2 DEF Border
    <3> QED BY <3>1, <3>2
  <2> QED BY <1>2, <2>1 DEF Border, m
<1> QED BY <1>1, <1>2

-----------------------------------------------------------------------------
(* Facts about the prefixes of the pattern that a text ends with. *)

\* Of two such prefixes the shorter is a border of the longer.
LEMMA PrefixIsBorder ==
    ASSUME pattern \in Seq(Byte), NEW t \in Seq(Byte),
           NEW n \in Nat, NEW l \in Nat,
           PrefixEnds(n, t), PrefixEnds(l, t), l < n
    PROVE  Border(l, n)
<1> SUFFICES ASSUME NEW x \in 1 .. l
             PROVE  pattern[x] = pattern[n - l + x]
    BY DEF Border
<1>1. pattern[x] = t[Len(t) - l + x]
    BY DEF PrefixEnds
<1>2. n - l + x \in 1 .. n
    OBVIOUS
<1>3. pattern[n - l + x] = t[Len(t) - n + (n - l + x)]
    BY <1>2 DEF PrefixEnds
<1>4. Len(t) - n + (n - l + x) = Len(t) - l + x
    OBVIOUS
<1> QED BY <1>1, <1>3, <1>4

\* A border of such a prefix is one too.
LEMMA BorderIsPrefix ==
    ASSUME pattern \in Seq(Byte), NEW t \in Seq(Byte),
           NEW n \in Nat, NEW l \in Nat,
           PrefixEnds(n, t), Border(l, n)
    PROVE  PrefixEnds(l, t)
<1>1. l <= Len(t)
    BY DEF PrefixEnds, Border
<1> SUFFICES ASSUME NEW x \in 1 .. l
             PROVE  pattern[x] = t[Len(t) - l + x]
    BY <1>1 DEF PrefixEnds
<1>2. pattern[x] = pattern[n - l + x]
    BY DEF Border
<1>3. n - l + x \in 1 .. n
    BY DEF Border
<1>4. pattern[n - l + x] = t[Len(t) - n + (n - l + x)]
    BY <1>3 DEF PrefixEnds
<1>5. Len(t) - n + (n - l + x) = Len(t) - l + x
    OBVIOUS
<1> QED BY <1>2, <1>4, <1>5

\* A text with one more byte ends with a non-empty prefix iff the text ended
\* with that prefix less its last byte, which is the new byte.
LEMMA PrefixExtend ==
    ASSUME pattern \in Seq(Byte), NEW t \in Seq(Byte), NEW b \in Byte,
           NEW n \in Nat
    PROVE  PrefixEnds(n + 1, Append(t, b)) <=> PrefixEnds(n, t) /\ At(n) = b
<1> DEFINE u == Append(t, b)
<1>0. /\ u \in Seq(Byte) /\ Len(u) = Len(t) + 1
      /\ u[Len(t) + 1] = b
      /\ \A x \in 1 .. Len(t) : u[x] = t[x]
    OBVIOUS
<1> HIDE DEF u
<1>1. ASSUME PrefixEnds(n + 1, u)
      PROVE  PrefixEnds(n, t) /\ At(n) = b
  <2>1. n <= Len(t)
      BY <1>0, <1>1 DEF PrefixEnds
  <2>2. pattern[n + 1] = u[Len(u) - (n + 1) + (n + 1)]
    <3>1. n + 1 \in 1 .. n + 1
        OBVIOUS
    <3>2. \A x \in 1 .. n + 1 : pattern[x] = u[Len(u) - (n + 1) + x]
        BY <1>1 DEF PrefixEnds
    <3> QED BY <3>1, <3>2
  <2>3. Len(u) - (n + 1) + (n + 1) = Len(t) + 1
      BY <1>0
  <2>4. ASSUME NEW x \in 1 .. n
        PROVE  pattern[x] = t[Len(t) - n + x]
    <3>1. pattern[x] = u[Len(u) - (n + 1) + x]
        BY <1>1 DEF PrefixEnds
    <3>2. Len(u) - (n + 1) + x = Len(t) - n + x /\ Len(t) - n + x \in 1 .. Len(t)
        BY <1>0, <2>1, SMTT(30)
    <3> QED BY <1>0, <3>1, <3>2
  <2> QED BY <1>0, <2>1, <2>2, <2>3, <2>4 DEF PrefixEnds, At
<1>2. ASSUME PrefixEnds(n, t), At(n) = b
      PROVE  PrefixEnds(n + 1, u)
  <2>1. n + 1 <= Len(u)
      BY <1>0, <1>2 DEF PrefixEnds
  <2>2. ASSUME NEW x \in 1 .. n + 1
        PROVE  pattern[x] = u[Len(u) - (n + 1) + x]
    <3>1. Len(u) - (n + 1) + x = Len(t) - n + x
        BY <1>0
    <3>2. CASE x = n + 1
        BY <1>0, <1>2, <3>1, <3>2 DEF At
    <3>3. CASE x \in 1 .. n
      <4>1. pattern[x] = t[Len(t) - n + x]
          BY <1>2, <3>3 DEF PrefixEnds
      <4>2. Len(t) - n + x \in 1 .. Len(t)
          BY <1>2, <3>3 DEF PrefixEnds
      <4> QED BY <1>0, <3>1, <4>1, <4>2
    <3> QED BY <3>2, <3>3
  <2> QED BY <2>1, <2>2 DEF PrefixEnds
<1> QED BY <1>1, <1>2 DEF u

-----------------------------------------------------------------------------
(* Following a failure link keeps the candidate the longest one. *)

LEMMA FollowBorder ==
    ASSUME pattern \in Seq(Byte),
           NEW q \in 1 .. m - 1, NEW n \in 1 .. m - 1, NEW f \in Nat,
           Border(n, q), At(n) # At(q),
           \A l \in 0 .. m - 1 : Border(l, q) /\ At(l) = At(q) => l <= n,
           Border(f, n), \A l \in 0 .. m - 1 : Border(l, n) => l <= f
    PROVE  /\ Border(f, q)
           /\ \A l \in 0 .. m - 1 : Border(l, q) /\ At(l) = At(q) => l <= f
<1>1. Border(f, q)
    BY BorderTransitive DEF m
<1>2. ASSUME NEW l \in 0 .. m - 1, Border(l, q), At(l) = At(q)
      PROVE  l <= f
  <2>1. l < n
      BY <1>2
  <2>2. Border(l, n)
      BY <1>2, <2>1, BorderOfBorder DEF m
  <2> QED BY <2>2
<1> QED BY <1>1, <1>2

LEMMA FollowPrefix ==
    ASSUME pattern \in Seq(Byte), NEW t \in Seq(Byte), NEW b \in Byte,
           NEW n \in 1 .. m - 1, NEW f \in Nat,
           PrefixEnds(n, t), At(n) # b,
           \A l \in 0 .. m - 1 : PrefixEnds(l, t) /\ At(l) = b => l <= n,
           Border(f, n), \A l \in 0 .. m - 1 : Border(l, n) => l <= f
    PROVE  /\ PrefixEnds(f, t)
           /\ \A l \in 0 .. m - 1 : PrefixEnds(l, t) /\ At(l) = b => l <= f
<1>1. PrefixEnds(f, t)
    BY BorderIsPrefix DEF m
<1>2. ASSUME NEW l \in 0 .. m - 1, PrefixEnds(l, t), At(l) = b
      PROVE  l <= f
  <2>1. l < n
      BY <1>2
  <2>2. Border(l, n)
      BY <1>2, <2>1, PrefixIsBorder DEF m
  <2> QED BY <2>2
<1> QED BY <1>1, <1>2

\* The candidate the inner loop of build_failure ends with gives the longest
\* border of the next prefix.
LEMMA WriteBorder ==
    ASSUME pattern \in Seq(Byte),
           NEW q \in 1 .. m - 1, NEW n \in 0 .. m - 1, Border(n, q),
           \A l \in 0 .. m - 1 : Border(l, q) /\ At(l) = At(q) => l <= n,
           n = 0 \/ At(n) = At(q),
           NEW f, f = IF At(n) = At(q) THEN n + 1 ELSE n
    PROVE  /\ Border(f, q + 1)
           /\ \A l \in 0 .. m - 1 : Border(l, q + 1) => l <= f
<1>1. Border(f, q + 1)
  <2>1. CASE At(n) = At(q)
      BY <2>1, BorderExtend
  <2>2. CASE At(n) # At(q)
      BY <2>2 DEF Border
  <2> QED BY <2>1, <2>2
<1>2. ASSUME NEW l \in 0 .. m - 1, Border(l, q + 1)
      PROVE  l <= f
  <2>1. CASE l = 0
      BY <2>1
  <2>2. CASE l # 0
    <3>1. l - 1 \in Nat /\ l - 1 \in 0 .. m - 1 /\ (l - 1) + 1 = l
        BY <2>2 DEF m
    <3>2. Border(l - 1, q) /\ At(l - 1) = At(q)
        BY <1>2, <3>1, BorderExtend
    <3>3. l - 1 <= n
        BY <3>1, <3>2
    <3>4. CASE At(n) = At(q)
        BY <3>1, <3>3, <3>4
    <3>5. CASE At(n) # At(q)
        BY <3>1, <3>2, <3>3, <3>5
    <3> QED BY <3>4, <3>5
  <2> QED BY <2>1, <2>2
<1> QED BY <1>1, <1>2

\* The candidate that feed's loop ends with, extended by the byte, is the
\* longest prefix of the pattern that the text now ends with.
LEMMA ExtendPrefix ==
    ASSUME pattern \in Seq(Byte), m > 0, NEW t \in Seq(Byte), NEW b \in Byte,
           NEW n \in 0 .. m - 1, PrefixEnds(n, t), At(n) = b,
           \A l \in 0 .. m - 1 : PrefixEnds(l, t) /\ At(l) = b => l <= n
    PROVE  /\ PrefixEnds(n + 1, Append(t, b))
           /\ \A l \in 0 .. m : PrefixEnds(l, Append(t, b)) => l <= n + 1
<1>1. PrefixEnds(n + 1, Append(t, b))
    BY PrefixExtend
<1>2. ASSUME NEW l \in 0 .. m, PrefixEnds(l, Append(t, b))
      PROVE  l <= n + 1
  <2>1. CASE l = 0
      BY <2>1
  <2>2. CASE l # 0
    <3>1. l - 1 \in Nat /\ l - 1 \in 0 .. m - 1 /\ (l - 1) + 1 = l
        BY <2>2 DEF m
    <3>2. PrefixEnds(l - 1, t) /\ At(l - 1) = b
        BY <1>2, <3>1, PrefixExtend
    <3> QED BY <3>1, <3>2
  <2> QED BY <2>1, <2>2
<1> QED BY <1>1, <1>2

\* ... and when there is no such candidate it is the empty one.
LEMMA MissPrefix ==
    ASSUME pattern \in Seq(Byte), m > 0, NEW t \in Seq(Byte), NEW b \in Byte,
           At(0) # b,
           \A l \in 0 .. m - 1 : PrefixEnds(l, t) /\ At(l) = b => l <= 0
    PROVE  \A l \in 0 .. m : PrefixEnds(l, Append(t, b)) => l = 0
<1> SUFFICES ASSUME NEW l \in 0 .. m, PrefixEnds(l, Append(t, b)), l # 0
             PROVE  FALSE
    OBVIOUS
<1>1. l - 1 \in Nat /\ l - 1 \in 0 .. m - 1 /\ (l - 1) + 1 = l
    BY DEF m
<1>2. PrefixEnds(l - 1, t) /\ At(l - 1) = b
    BY <1>1, PrefixExtend
<1> QED BY <1>1, <1>2

\* After a full match the longest proper border of the pattern is the longest
\* proper prefix that the text ends with.
LEMMA AfterMatch ==
    ASSUME pattern \in Seq(Byte), m > 0, NEW t \in Seq(Byte), NEW f \in Nat,
           PrefixEnds(m, t),
           Border(f, m), \A l \in 0 .. m - 1 : Border(l, m) => l <= f
    PROVE  /\ PrefixEnds(f, t)
           /\ \A l \in 0 .. m - 1 : PrefixEnds(l, t) => l <= f
<1>1. PrefixEnds(f, t)
    BY BorderIsPrefix DEF m
<1>2. ASSUME NEW l \in 0 .. m - 1, PrefixEnds(l, t)
      PROVE  l <= f
    BY <1>2, PrefixIsBorder DEF m
<1> QED BY <1>1, <1>2

-----------------------------------------------------------------------------
(* The inductive invariant. *)

LEMMA InitIInv == Init => IInv
<1> SUFFICES ASSUME Init PROVE IInv
    OBVIOUS
<1> USE KmpAssumption
<1>1. pattern \in Seq(Byte) /\ m \in Nat
    BY DEF Init, m
<1>2. TypeOK
    BY <1>1 DEF Init, TypeOK, m
<1>3. \A q \in Nat : q > 0 => Border(0, q)
    BY DEF Border
<1>4. FailureIsLongestBorder
  <2> SUFFICES ASSUME NEW n \in Built \cap (0 .. m - 1)
               PROVE  /\ Border(failure[n], n + 1)
                      /\ \A l \in 0 .. m - 1 : Border(l, n + 1) => l <= failure[n]
      BY DEF FailureIsLongestBorder
  <2>1. n = 0 /\ failure[n] = 0
      BY <1>1 DEF Init, Built
  <2> QED BY <1>1, <1>3, <2>1 DEF Border
<1>5. StateIsLongestPrefix /\ ByteLoop /\ Phases /\ LinearWork
    BY DEF Init, StateIsLongestPrefix, ByteLoop, Phases, LinearWork
<1>6. BuildLoop
    BY <1>1 DEF Init, BuildLoop, Border
<1> QED BY <1>2, <1>4, <1>5, <1>6 DEF IInv

\* The entry a loop follows from a candidate n, as the lemmas want it.
LEMMA LinkOf ==
    ASSUME TypeOK, FailureIsLongestBorder,
           NEW n \in 1 .. m, n - 1 \in Built
    PROVE  /\ failure[n - 1] \in Nat /\ failure[n - 1] < n
           /\ Border(failure[n - 1], n)
           /\ \A l \in 0 .. m - 1 : Border(l, n) => l <= failure[n - 1]
<1>1. n - 1 \in Built \cap (0 .. m - 1) /\ (n - 1) + 1 = n
    BY DEF m
<1>2. /\ Border(failure[n - 1], n)
      /\ \A l \in 0 .. m - 1 : Border(l, n) => l <= failure[n - 1]
    BY <1>1 DEF FailureIsLongestBorder
<1> QED BY <1>1, <1>2 DEF TypeOK, Border

LEMMA StepBuildFollow == IInv /\ BuildFollow => IInv'
<1> SUFFICES ASSUME IInv, BuildFollow PROVE IInv'
    OBVIOUS
<1> USE KmpAssumption
<1>1. /\ pattern \in Seq(Byte) /\ m \in Nat /\ i \in 1 .. m - 1 /\ k \in 1 .. i - 1
      /\ TypeOK /\ FailureIsLongestBorder /\ pattern' = pattern /\ m' = m
    BY DEF IInv, TypeOK, BuildFollow, m
<1>2. /\ k' \in Nat /\ k' < k
      /\ Border(k', k) /\ \A l \in 0 .. m - 1 : Border(l, k) => l <= k'
    BY <1>1, LinkOf DEF Built, BuildFollow
<1>3. /\ Border(k', i)
      /\ \A l \in 0 .. m - 1 : Border(l, i) /\ At(l) = At(i) => l <= k'
  <2>1. /\ Border(k, i) /\ At(k) # At(i)
        /\ \A l \in 0 .. m - 1 : Border(l, i) /\ At(l) = At(i) => l <= k
      BY DEF IInv, BuildLoop, BuildFollow
  <2>2. k \in 1 .. m - 1
      BY <1>1
  <2> QED BY <1>1, <1>2, <2>1, <2>2, FollowBorder
<1>4. TypeOK'
    BY <1>1, <1>2 DEF IInv, TypeOK, BuildFollow, stream, history, m
<1>5. FailureIsLongestBorder'
    BY <1>1 DEF FailureIsLongestBorder, BuildFollow, Built, Border, m
<1>6. BuildLoop'
    BY <1>1, <1>3 DEF BuildLoop, BuildFollow, Border, At, m
<1>7. StateIsLongestPrefix' /\ ByteLoop' /\ Phases' /\ LinearWork'
    BY DEF IInv, BuildFollow, StateIsLongestPrefix, ByteLoop, Phases, LinearWork,
           stream, history
<1> QED BY <1>4, <1>5, <1>6, <1>7 DEF IInv

LEMMA StepBuildWrite == IInv /\ BuildWrite => IInv'
<1> SUFFICES ASSUME IInv, BuildWrite PROVE IInv'
    OBVIOUS
<1> USE KmpAssumption
<1>1. /\ pattern \in Seq(Byte) /\ m \in Nat /\ i \in 1 .. m - 1 /\ k \in 0 .. i - 1
      /\ TypeOK /\ FailureIsLongestBorder /\ pattern' = pattern /\ m' = m
      /\ failure \in [0 .. m - 1 -> Nat]
    BY DEF IInv, TypeOK, BuildWrite, m
<1>2. /\ Border(k', i + 1)
      /\ \A l \in 0 .. m - 1 : Border(l, i + 1) => l <= k'
  <2>1. /\ Border(k, i)
        /\ k = 0 \/ At(k) = At(i)
        /\ \A l \in 0 .. m - 1 : Border(l, i) /\ At(l) = At(i) => l <= k
        /\ k' = IF At(k) = At(i) THEN k + 1 ELSE k
      BY DEF IInv, BuildLoop, BuildWrite
  <2>2. k \in 0 .. m - 1
      BY <1>1
  <2> QED BY <1>1, <2>1, <2>2, WriteBorder
<1>3. k' \in Nat /\ k' < i' /\ i' = i + 1
    BY <1>1 DEF BuildWrite
<1>4. TypeOK'
    BY <1>1, <1>3 DEF IInv, TypeOK, BuildWrite, stream, history, m
<1>5. FailureIsLongestBorder'
  <2>1. ASSUME NEW n \in 0 .. i
        PROVE  /\ Border(failure'[n], n + 1)
               /\ \A l \in 0 .. m - 1 : Border(l, n + 1) => l <= failure'[n]
    <3>1. CASE n = i
        BY <1>1, <1>2, <3>1 DEF BuildWrite
    <3>2. CASE n \in 0 .. i - 1
      <4>1. failure'[n] = failure[n]
          BY <1>1, <3>2 DEF BuildWrite
      <4>2. n \in Built \cap (0 .. m - 1)
          BY <1>1, <3>2 DEF Built, BuildWrite
      <4> QED BY <1>1, <4>1, <4>2 DEF FailureIsLongestBorder
    <3> QED BY <1>1, <3>1, <3>2
  <2>2. (Built \cap (0 .. m - 1))' = 0 .. i
      BY <1>1, <1>3 DEF Built, BuildWrite
  <2> SUFFICES ASSUME NEW n \in 0 .. i
               PROVE  (/\ Border(failure[n], n + 1)
                       /\ \A l \in 0 .. m - 1 : Border(l, n + 1) => l <= failure[n])'
      BY <2>2 DEF FailureIsLongestBorder
  <2> QED BY <1>1, <2>1 DEF Border
<1>6. BuildLoop'
    BY <1>1, <1>2, <1>3 DEF BuildLoop, Border, At, m
<1>7. StateIsLongestPrefix' /\ ByteLoop' /\ Phases' /\ LinearWork'
    BY DEF IInv, BuildWrite, StateIsLongestPrefix, ByteLoop, Phases, LinearWork,
           stream, history
<1> QED BY <1>4, <1>5, <1>6, <1>7 DEF IInv

LEMMA StepBuildDone == IInv /\ BuildDone => IInv'
<1> SUFFICES ASSUME IInv, BuildDone PROVE IInv'
    OBVIOUS
<1> USE KmpAssumption
<1>1. /\ pattern \in Seq(Byte) /\ m \in Nat /\ i \in Nat /\ i >= m
      /\ TypeOK /\ FailureIsLongestBorder
      /\ pattern' = pattern /\ m' = m /\ failure' = failure /\ fed' = fed
      /\ j' = j /\ j = 0 /\ fed = << >> /\ pc' = "idle"
    BY DEF IInv, TypeOK, BuildDone, Phases, prepared, stream, history, m
<1>2. TypeOK'
    BY <1>1 DEF IInv, TypeOK, BuildDone, prepared, stream, history, m
<1>3. FailureIsLongestBorder'
    BY <1>1 DEF TypeOK, FailureIsLongestBorder, BuildDone, Built, Border, m
<1>4. StateIsLongestPrefix'
    BY <1>1 DEF StateIsLongestPrefix, PrefixEnds
<1>5. BuildLoop' /\ ByteLoop' /\ Phases' /\ LinearWork'
    BY <1>1 DEF IInv, BuildDone, BuildLoop, ByteLoop, Phases, LinearWork,
           prepared, stream, history
<1> QED BY <1>2, <1>3, <1>4, <1>5 DEF IInv

\* A step that keeps the table keeps what it says.
LEMMA TableKept ==
    ASSUME FailureIsLongestBorder, pc # "build", pc' # "build",
           UNCHANGED prepared
    PROVE  FailureIsLongestBorder'
BY DEF FailureIsLongestBorder, Built, Border, prepared, m

LEMMA StepFeedSlice == IInv /\ FeedSlice => IInv'
<1> SUFFICES ASSUME IInv, FeedSlice PROVE IInv'
    OBVIOUS
<1>1. TypeOK'
    BY DEF IInv, TypeOK, FeedSlice, prepared, m
<1>2. FailureIsLongestBorder'
    BY TableKept DEF IInv, FeedSlice
<1>3. StateIsLongestPrefix'
    BY DEF IInv, FeedSlice, StateIsLongestPrefix, PrefixEnds, prepared, m
<1>4. BuildLoop' /\ ByteLoop' /\ Phases' /\ LinearWork'
    BY DEF IInv, FeedSlice, BuildLoop, ByteLoop, Phases, LinearWork, prepared, m
<1> QED BY <1>1, <1>2, <1>3, <1>4 DEF IInv

\* One more byte and one more answer.
LEMMA Answered ==
    ASSUME TypeOK, NEW b \in Byte, NEW answer \in SUBSET (Nat \X {0})
    PROVE  /\ Append(fed, b) \in Seq(Byte)
           /\ Append(answers, answer) \in Seq(SUBSET (Nat \X {0}))
           /\ Len(Append(fed, b)) = Len(fed) + 1
           /\ Len(Append(answers, answer)) = Len(fed) + 1
<1> DEFINE Answer == SUBSET (Nat \X {0})
<1>1. answers \in Seq(Answer) /\ Len(answers) = Len(fed) /\ fed \in Seq(Byte)
    BY DEF TypeOK
<1> HIDE DEF Answer
<1>2. answer \in Answer => /\ Append(answers, answer) \in Seq(Answer)
                           /\ Len(Append(answers, answer)) = Len(answers) + 1
    BY <1>1
<1> QED BY <1>1, <1>2 DEF Answer

LEMMA StepFeed == ASSUME NEW b \in Byte PROVE IInv /\ Feed(b) => IInv'
<1> SUFFICES ASSUME IInv, Feed(b) PROVE IInv'
    OBVIOUS
<1> USE KmpAssumption
<1>0. /\ TypeOK /\ pc = "idle" /\ UNCHANGED prepared /\ m' = m /\ m \in Nat
      /\ fed \in Seq(Byte) /\ bytes_fed = Len(fed) /\ Len(fed) < MaxFed
      /\ j' = j /\ byte' = b /\ bytes_fed' = bytes_fed + 1
    BY DEF IInv, TypeOK, Feed, prepared, m
<1>1. FailureIsLongestBorder'
    BY TableKept DEF IInv, Feed
<1>2. BuildLoop' /\ Phases' /\ LinearWork'
    BY <1>0 DEF IInv, TypeOK, Feed, BuildLoop, Phases, LinearWork, prepared
<1>3. CASE m = 0
  <2>1. /\ fed' = Append(fed, b) /\ answers' = Append(answers, {})
        /\ pc' = "idle" /\ UNCHANGED <<j, initial, hops>>
      BY <1>0, <1>3 DEF Feed
  <2>2. TypeOK'
    <3>1. {} \in SUBSET (Nat \X {0})
        OBVIOUS
    <3>2. /\ fed' \in Seq(Byte) /\ answers' \in Seq(SUBSET (Nat \X {0}))
          /\ Len(fed') = Len(fed) + 1 /\ Len(answers') = Len(fed) + 1
        BY <1>0, <2>1, <3>1, Answered
    <3> QED BY <1>0, <1>3, <2>1, <3>2 DEF TypeOK, prepared
  <2>3. StateIsLongestPrefix' /\ ByteLoop'
      BY <1>0, <1>3, <2>1 DEF StateIsLongestPrefix, ByteLoop
  <2> QED BY <1>1, <1>2, <2>2, <2>3 DEF IInv
<1>4. CASE m > 0
  <2>1. pc' = "byte" /\ UNCHANGED <<fed, answers, j, initial, hops>>
      BY <1>0, <1>4 DEF Feed
  <2>2. TypeOK'
      BY <1>0, <1>4, <2>1 DEF TypeOK, prepared
  <2>3. StateIsLongestPrefix'
      BY <2>1 DEF StateIsLongestPrefix
  <2>4. ByteLoop'
      BY <1>0, <1>4, <2>1
      DEF IInv, StateIsLongestPrefix, ByteLoop, PrefixEnds, At, prepared
  <2> QED BY <1>1, <1>2, <2>2, <2>3, <2>4 DEF IInv
<1> QED BY <1>0, <1>3, <1>4

\* What holds inside feed's loop.
LEMMA InByte ==
    ASSUME IInv, pc = "byte"
    PROVE  /\ pattern \in Seq(Byte) /\ m \in Nat /\ m > 0 /\ j \in 0 .. m - 1
           /\ byte \in Byte /\ fed \in Seq(Byte) /\ bytes_fed = Len(fed) + 1
           /\ TypeOK /\ FailureIsLongestBorder /\ i >= m
           /\ PrefixEnds(j, fed)
           /\ \A l \in 0 .. m - 1 : PrefixEnds(l, fed) /\ At(l) = byte => l <= j
BY KmpAssumption DEF IInv, TypeOK, ByteLoop, Phases, m

LEMMA StepFollow == IInv /\ Follow => IInv'
<1> SUFFICES ASSUME IInv, Follow PROVE IInv'
    OBVIOUS
<1> USE KmpAssumption
<1>0. pc = "byte" /\ j > 0 /\ At(j) # byte
    BY DEF Follow
<1>1. /\ pattern \in Seq(Byte) /\ m \in Nat /\ m > 0 /\ j \in 0 .. m - 1
      /\ byte \in Byte /\ fed \in Seq(Byte)
      /\ TypeOK /\ FailureIsLongestBorder /\ i >= m
    BY <1>0, InByte
<1>2. /\ PrefixEnds(j, fed)
      /\ \A l \in 0 .. m - 1 : PrefixEnds(l, fed) /\ At(l) = byte => l <= j
    BY <1>0, InByte
<1>3. /\ j' \in Nat /\ j' < j
      /\ Border(j', j) /\ \A l \in 0 .. m - 1 : Border(l, j) => l <= j'
    BY <1>0, <1>1, LinkOf DEF Built, Follow
<1>4. /\ PrefixEnds(j', fed)
      /\ \A l \in 0 .. m - 1 : PrefixEnds(l, fed) /\ At(l) = byte => l <= j'
  <2>1. j \in 1 .. m - 1
      BY <1>0, <1>1
  <2> QED BY <1>0, <1>1, <1>2, <1>3, <2>1, FollowPrefix
<1>5. TypeOK'
    BY <1>1, <1>3 DEF IInv, TypeOK, Follow, prepared, m
<1>6. FailureIsLongestBorder'
    BY TableKept DEF IInv, Follow
<1>7. ByteLoop'
    BY <1>4 DEF Follow, ByteLoop, PrefixEnds, At, prepared, m
<1>8. LinearWork'
    BY <1>1, <1>3, SMTT(30) DEF IInv, TypeOK, Follow, LinearWork
<1>9. StateIsLongestPrefix' /\ BuildLoop' /\ Phases'
    BY DEF IInv, Follow, StateIsLongestPrefix, BuildLoop, Phases, prepared, m
<1> QED BY <1>5, <1>6, <1>7, <1>8, <1>9 DEF IInv

\* feed returns `answer` and leaves the stream at `next`, which is the longest
\* proper prefix of the pattern that the text now ends with.
LEMMA StepReturn ==
    ASSUME IInv, pc = "byte",
           NEW next \in 0 .. m - 1, NEW answer \in SUBSET (Nat \X {0}),
           Return(next, answer),
           next <= j + 1,
           PrefixEnds(next, Append(fed, byte)),
           \A l \in 0 .. m - 1 : PrefixEnds(l, Append(fed, byte)) => l <= next
    PROVE  IInv'
<1>1. /\ TypeOK /\ m \in Nat /\ m > 0 /\ byte \in Byte /\ bytes_fed = Len(fed) + 1
      /\ fed \in Seq(Byte) /\ j \in Nat /\ i >= m
    BY InByte
<1>2. /\ j' = next /\ fed' = Append(fed, byte) /\ answers' = Append(answers, answer)
      /\ pc' = "idle" /\ UNCHANGED prepared /\ m' = m
      /\ UNCHANGED <<bytes_fed, initial, byte, empties, hops>>
    BY DEF Return, prepared, m
<1>3. /\ fed' \in Seq(Byte) /\ answers' \in Seq(SUBSET (Nat \X {0}))
      /\ Len(fed') = Len(fed) + 1 /\ Len(answers') = Len(fed) + 1
    BY <1>1, <1>2, Answered
<1>4. TypeOK'
    BY <1>1, <1>2, <1>3 DEF TypeOK, prepared
<1>5. FailureIsLongestBorder'
    BY <1>2, TableKept DEF IInv
<1>6. StateIsLongestPrefix'
    BY <1>2 DEF StateIsLongestPrefix, PrefixEnds, prepared
<1>7. LinearWork'
  <2>1. hops + j <= Len(fed) /\ hops \in Nat
      BY <1>1 DEF IInv, LinearWork, TypeOK
  <2> QED BY <1>1, <1>2, <1>3, <2>1 DEF LinearWork
<1>8. BuildLoop' /\ ByteLoop' /\ Phases'
    BY <1>1, <1>2 DEF BuildLoop, ByteLoop, Phases, prepared
<1> QED BY <1>4, <1>5, <1>6, <1>7, <1>8 DEF IInv

LEMMA StepMiss == IInv /\ Miss => IInv'
<1> SUFFICES ASSUME IInv, Miss PROVE IInv'
    OBVIOUS
<1>1. pc = "byte" /\ j = 0 /\ At(0) # byte /\ Return(0, {})
    BY DEF Miss
<1>2. /\ pattern \in Seq(Byte) /\ m \in Nat /\ m > 0
      /\ byte \in Byte /\ fed \in Seq(Byte)
      /\ \A l \in 0 .. m - 1 : PrefixEnds(l, fed) /\ At(l) = byte => l <= 0
    BY <1>1, InByte
<1>3. \A l \in 0 .. m : PrefixEnds(l, Append(fed, byte)) => l = 0
    BY <1>1, <1>2, MissPrefix
<1>4. PrefixEnds(0, Append(fed, byte))
    BY <1>2 DEF PrefixEnds
<1>5. /\ 0 \in 0 .. m - 1 /\ {} \in SUBSET (Nat \X {0}) /\ 0 <= j + 1
      /\ \A l \in 0 .. m - 1 : PrefixEnds(l, Append(fed, byte)) => l <= 0
    BY <1>1, <1>2, <1>3
<1> QED BY <1>1, <1>4, <1>5, StepReturn

\* Both ways of extending the candidate start here.
LEMMA Extended ==
    ASSUME IInv, pc = "byte", At(j) = byte
    PROVE  /\ PrefixEnds(j + 1, Append(fed, byte))
           /\ \A l \in 0 .. m : PrefixEnds(l, Append(fed, byte)) => l <= j + 1
BY InByte, ExtendPrefix

LEMMA StepExtend == IInv /\ Extend => IInv'
<1> SUFFICES ASSUME IInv, Extend PROVE IInv'
    OBVIOUS
<1>1. pc = "byte" /\ At(j) = byte /\ j + 1 # m /\ Return(j + 1, {})
    BY DEF Extend
<1>2. m \in Nat /\ j \in 0 .. m - 1
    BY <1>1, InByte
<1>3. /\ PrefixEnds(j + 1, Append(fed, byte))
      /\ \A l \in 0 .. m : PrefixEnds(l, Append(fed, byte)) => l <= j + 1
    BY <1>1, Extended
<1>4. /\ j + 1 \in 0 .. m - 1 /\ {} \in SUBSET (Nat \X {0}) /\ j + 1 <= j + 1
      /\ \A l \in 0 .. m - 1 : PrefixEnds(l, Append(fed, byte)) => l <= j + 1
    BY <1>1, <1>2, <1>3
<1> QED BY <1>1, <1>3, <1>4, StepReturn

LEMMA StepReport == IInv /\ Report => IInv'
<1> SUFFICES ASSUME IInv, Report PROVE IInv'
    OBVIOUS
<1> DEFINE f == failure[m - 1]
<1>1. /\ pc = "byte" /\ At(j) = byte /\ j + 1 = m
      /\ Return(f, {<<bytes_fed - m, 0>>})
    BY DEF Report
<1>2. /\ pattern \in Seq(Byte) /\ m \in Nat /\ m > 0 /\ j \in 0 .. m - 1
      /\ byte \in Byte /\ fed \in Seq(Byte) /\ bytes_fed = Len(fed) + 1
      /\ TypeOK /\ FailureIsLongestBorder /\ PrefixEnds(j, fed)
    BY <1>1, InByte
<1>3. /\ f \in Nat /\ f < m /\ Border(f, m)
      /\ \A l \in 0 .. m - 1 : Border(l, m) => l <= f
    BY <1>1, <1>2, LinkOf DEF Built
<1> HIDE DEF f
<1>4. PrefixEnds(m, Append(fed, byte)) /\ Append(fed, byte) \in Seq(Byte)
    BY <1>1, <1>2, Extended
<1>5. /\ PrefixEnds(f, Append(fed, byte))
      /\ \A l \in 0 .. m - 1 : PrefixEnds(l, Append(fed, byte)) => l <= f
    BY <1>2, <1>3, <1>4, AfterMatch
<1>6. {<<bytes_fed - m, 0>>} \in SUBSET (Nat \X {0})
  <2>1. bytes_fed - m \in Nat
      BY <1>1, <1>2 DEF PrefixEnds
  <2> QED BY <2>1
<1>7. f \in 0 .. m - 1 /\ f <= j + 1
    BY <1>1, <1>2, <1>3
<1> QED BY <1>1, <1>5, <1>6, <1>7, StepReturn

LEMMA StepStutter == IInv /\ UNCHANGED vars => IInv'
BY DEF IInv, TypeOK, FailureIsLongestBorder, StateIsLongestPrefix, LinearWork,
       BuildLoop, ByteLoop, Phases, Built, Border, PrefixEnds, At,
       vars, prepared, stream, history, m

\* The invariants of the runs hold of every pattern, stream and alphabet.
THEOREM Invariance == Spec => []IInv
<1>1. Init => IInv
    BY InitIInv
<1>2. IInv /\ [Next]_vars => IInv'
  <2> SUFFICES ASSUME IInv, [Next]_vars PROVE IInv'
      OBVIOUS
  <2>1. CASE BuildFollow
      BY <2>1, StepBuildFollow
  <2>2. CASE BuildWrite
      BY <2>2, StepBuildWrite
  <2>3. CASE BuildDone
      BY <2>3, StepBuildDone
  <2>4. CASE FeedSlice
      BY <2>4, StepFeedSlice
  <2>5. ASSUME NEW b \in Byte, Feed(b) PROVE IInv'
      BY <2>5, StepFeed
  <2>6. CASE Follow
      BY <2>6, StepFollow
  <2>7. CASE Miss
      BY <2>7, StepMiss
  <2>8. CASE Extend
      BY <2>8, StepExtend
  <2>9. CASE Report
      BY <2>9, StepReport
  <2>10. CASE UNCHANGED vars
      BY <2>10, StepStutter
  <2> QED BY <2>1, <2>2, <2>3, <2>4, <2>5, <2>6, <2>7, <2>8, <2>9, <2>10
          DEF Next, Build, OnByte
<1> QED BY <1>1, <1>2, PTL DEF Spec

\* No index the code computes from the stream's state can be out of range.
THEOREM TypeCorrect == Spec => []TypeOK
<1>1. IInv => TypeOK
    BY DEF IInv
<1> QED BY <1>1, Invariance, PTL

\* The failure table is the border table of its pattern.
THEOREM FailureTableCorrect == Spec => []FailureIsLongestBorder
<1>1. IInv => FailureIsLongestBorder
    BY DEF IInv
<1> QED BY <1>1, Invariance, PTL

\* The stream forgets no partial match and invents none.
THEOREM StreamStateCorrect == Spec => []StateIsLongestPrefix
<1>1. IInv => StateIsLongestPrefix
    BY DEF IInv
<1> QED BY <1>1, Invariance, PTL

\* The links followed never outnumber the bytes answered.
THEOREM WorkIsLinear == Spec => []LinearWork
<1>1. IInv => LinearWork
    BY DEF IInv
<1> QED BY <1>1, Invariance, PTL

-----------------------------------------------------------------------------
(* KmpSearch implements OccurrenceStream. *)

\* The abstract answer for one pattern, in this module's terms.
LEMMA EndingOfOne ==
    ASSUME pattern \in Seq(Byte), NEW t \in Seq(Byte)
    PROVE  Occurrences!EndingAt(<<pattern>>, t) =
               IF m > 0 /\ PrefixEnds(m, t) THEN {<<Len(t) - m, 0>>} ELSE {}
<1> DEFINE ps == <<pattern>>
           Found(q) == /\ 0 < Len(ps[q]) /\ Len(ps[q]) <= Len(t)
                       /\ Occurrences!Occurs(ps[q], t, Len(t) - Len(ps[q]))
<1>1. DOMAIN ps = {1} /\ ps[1] = pattern
    OBVIOUS
<1>2. Found(1) <=> m > 0 /\ PrefixEnds(m, t)
  <2>1. m \in Nat /\ Len(t) \in Nat
      BY DEF m
  <2> QED BY <1>1, <2>1 DEF PrefixEnds, Occurrences!Occurs, m
<1>3. { Occurrences!Match(Len(t) - Len(ps[p]), p) :
          p \in { q \in DOMAIN ps : Found(q) } } =
      IF Found(1) THEN {Occurrences!Match(Len(t) - Len(ps[1]), 1)} ELSE {}
  <2> HIDE DEF Found
  <2> QED BY <1>1
<1>4. Occurrences!Match(Len(t) - Len(ps[1]), 1) = <<Len(t) - m, 0>>
    BY <1>1 DEF Occurrences!Match, m
<1> QED BY <1>2, <1>3, <1>4 DEF Occurrences!EndingAt

LEMMA EmptyOfOne ==
    Occurrences!EmptyMatches(<<pattern>>) = IF m = 0 THEN {<<0, 0>>} ELSE {}
<1> DEFINE ps == <<pattern>>
<1>1. DOMAIN ps = {1} /\ ps[1] = pattern
    OBVIOUS
<1>2. Occurrences!Match(0, 1) = <<0, 0>>
    BY DEF Occurrences!Match
<1> HIDE DEF ps
<1>3. { Occurrences!Match(0, p) : p \in { q \in DOMAIN ps : Len(ps[q]) = 0 } } =
      IF Len(ps[1]) = 0 THEN {Occurrences!Match(0, 1)} ELSE {}
    BY <1>1
<1> QED BY <1>1, <1>2, <1>3 DEF Occurrences!EmptyMatches, ps, m

\* The first feed_slice finds nothing reported of an empty pattern.
Fresh == initial => empties = {}

LEMMA FreshInvariant == Spec => []Fresh
<1>1. Init => Fresh
    BY DEF Init, Fresh
<1>2. Fresh /\ [Next]_vars => Fresh'
    BY DEF Fresh, Next, Build, OnByte, BuildFollow, BuildWrite, BuildDone, FeedSlice,
           Feed, Follow, Miss, Extend, Report, Return, vars, stream, history
<1> QED BY <1>1, <1>2, PTL DEF Spec

\* A feed that returns is one step of the abstract stream.
LEMMA ReturnIsFeedByte ==
    ASSUME IInv, pc = "byte", NEW next, NEW answer, Return(next, answer),
           answer = Occurrences!EndingAt(<<pattern>>, Append(fed, byte))
    PROVE  Occurrences!Next
<1>1. byte \in Byte
    BY DEF IInv, TypeOK
<1>2. Occurrences!FeedByte(byte)
    BY DEF Return, Occurrences!FeedByte, prepared
<1> QED BY <1>1, <1>2 DEF Occurrences!Next

LEMMA StepRefines ==
    ASSUME IInv, Fresh, [Next]_vars
    PROVE  [Occurrences!Next]_Occurrences!vars
<1> USE KmpAssumption
<1>0. pattern \in Seq(Byte) /\ fed \in Seq(Byte) /\ byte \in Byte /\ m \in Nat
    BY DEF IInv, TypeOK, m
<1>1. CASE Build \/ Follow \/ UNCHANGED vars
    BY <1>1 DEF Build, BuildFollow, BuildWrite, BuildDone, Follow, vars, prepared,
           stream, history, Occurrences!vars
<1>2. CASE FeedSlice
  <2>1. CASE initial
      BY <1>0, <1>2, <2>1, EmptyOfOne
      DEF FeedSlice, Fresh, Occurrences!Next, Occurrences!FirstSlice, prepared
  <2>2. CASE ~initial
      BY <1>2, <2>2 DEF IInv, TypeOK, FeedSlice, Occurrences!vars, prepared
  <2> QED BY <2>1, <2>2
<1>3. ASSUME NEW b \in Byte, Feed(b)
      PROVE  [Occurrences!Next]_Occurrences!vars
  <2>1. CASE m = 0
    <3>0. Append(fed, b) \in Seq(Byte) /\ ~(m > 0)
        BY <1>0, <2>1
    <3>1. Occurrences!EndingAt(<<pattern>>, Append(fed, b)) = {}
        BY <1>0, <3>0, EndingOfOne
    <3>2. Occurrences!FeedByte(b)
        BY <1>3, <2>1, <3>1 DEF Feed, Occurrences!FeedByte, prepared
    <3> QED BY <3>2 DEF Occurrences!Next
  <2>2. CASE m # 0
      BY <1>3, <2>2 DEF Feed, Occurrences!vars, prepared
  <2> QED BY <2>1, <2>2
<1>4. CASE Miss
  <2>1. pc = "byte" /\ j = 0 /\ At(0) # byte /\ Return(0, {})
      BY <1>4 DEF Miss
  <2>2. m > 0 /\ \A l \in 0 .. m : PrefixEnds(l, Append(fed, byte)) => l = 0
      BY <1>0, <2>1, InByte, MissPrefix
  <2>3. ~PrefixEnds(m, Append(fed, byte))
      BY <1>0, <2>2
  <2>4. Append(fed, byte) \in Seq(Byte)
      BY <1>0
  <2>5. Occurrences!EndingAt(<<pattern>>, Append(fed, byte)) = {}
      BY <1>0, <2>3, <2>4, EndingOfOne
  <2> QED BY <2>1, <2>5, ReturnIsFeedByte
<1>5. CASE Extend
  <2>1. pc = "byte" /\ At(j) = byte /\ j + 1 # m /\ Return(j + 1, {})
      BY <1>5 DEF Extend
  <2>2. /\ j \in 0 .. m - 1
        /\ \A l \in 0 .. m : PrefixEnds(l, Append(fed, byte)) => l <= j + 1
      BY <2>1, InByte, Extended
  <2>3. ~PrefixEnds(m, Append(fed, byte))
      BY <1>0, <2>1, <2>2
  <2>4. Append(fed, byte) \in Seq(Byte)
      BY <1>0
  <2>5. Occurrences!EndingAt(<<pattern>>, Append(fed, byte)) = {}
      BY <1>0, <2>3, <2>4, EndingOfOne
  <2> QED BY <2>1, <2>5, ReturnIsFeedByte
<1>6. CASE Report
  <2>1. /\ pc = "byte" /\ At(j) = byte /\ j + 1 = m
        /\ Return(failure[m - 1], {<<bytes_fed - m, 0>>})
      BY <1>6 DEF Report
  <2>2. m > 0 /\ bytes_fed = Len(fed) + 1 /\ PrefixEnds(m, Append(fed, byte))
      BY <2>1, InByte, Extended
  <2>3. Append(fed, byte) \in Seq(Byte) /\ Len(Append(fed, byte)) = bytes_fed
      BY <1>0, <2>2
  <2>4. Occurrences!EndingAt(<<pattern>>, Append(fed, byte)) = {<<bytes_fed - m, 0>>}
      BY <1>0, <2>2, <2>3, EndingOfOne
  <2> QED BY <2>1, <2>4, ReturnIsFeedByte
<1> QED BY <1>1, <1>2, <1>3, <1>4, <1>5, <1>6 DEF Next, OnByte

\* Every behaviour of the code's loops, seen at the bytes they answer, is one
\* the abstract stream allows: exactly the occurrences, each at its last byte.
THEOREM Refinement == Spec => ImplementsOccurrences
<1>1. Init => Occurrences!Init
  <2> SUFFICES ASSUME Init PROVE Occurrences!Init
      OBVIOUS
  <2>1. <<pattern>> \in Seq(Seq(Byte))
      BY KmpAssumption DEF Init
  <2> QED BY <2>1 DEF Init, Occurrences!Init
<1>2. IInv /\ Fresh /\ [Next]_vars => [Occurrences!Next]_Occurrences!vars
    BY StepRefines
<1> QED BY <1>1, <1>2, Invariance, FreshInvariant, PTL
        DEF Spec, ImplementsOccurrences, Occurrences!Spec
-----------------------------------------------------------------------------
(* find_all of kmp.rs: the same automaton, written as a loop over a slice. *)

\* An open stream's table is complete: every link leads to the longest border.
TableBuilt ==
    \A n \in 1 .. m :
        /\ failure[n - 1] \in 0 .. n - 1
        /\ Border(failure[n - 1], n)
        /\ \A l \in 0 .. m - 1 : Border(l, n) => l <= failure[n - 1]

\* The state of the scan over t, at most m.
Longest(n, t) ==
    /\ PrefixEnds(n, t)
    /\ \A l \in 0 .. m : PrefixEnds(l, t) => l <= n

\* The state it goes on from, less than m.
LongestShort(n, t) ==
    /\ PrefixEnds(n, t)
    /\ \A l \in 0 .. m - 1 : PrefixEnds(l, t) => l <= n

\* The inner while ends at a prefix that b extends, or at the empty one.
LEMMA FallenIs ==
    ASSUME pattern \in Seq(Byte), m > 0, TableBuilt,
           NEW t \in Seq(Byte), NEW b \in Byte, NEW n \in 0 .. m - 1
    PROVE  /\ Fallen(n, b) \in 0 .. m - 1
           /\ LongestShort(n, t) =>
                /\ PrefixEnds(Fallen(n, b), t)
                /\ Fallen(n, b) = 0 \/ At(Fallen(n, b)) = b
                /\ \A l \in 0 .. m - 1 :
                     PrefixEnds(l, t) /\ At(l) = b => l <= Fallen(n, b)
<1> DEFINE X == 0 .. m - 1
           Stop == { x \in X : ~(x > 0 /\ At(x) # b) }
           Value == [x \in X |-> x]
           Succ == [x \in X |-> IF x > 0 THEN failure[x - 1] ELSE x]
           body(f) == [x \in X |-> IF x > 0 /\ At(x) # b THEN f[failure[x - 1]] ELSE x]
<1>0. m \in Nat
  BY DEF m
<1>1. \A x \in X : x > 0 => failure[x - 1] \in X /\ failure[x - 1] < x
  <2>1. SUFFICES ASSUME NEW x \in X, x > 0 PROVE failure[x - 1] \in X /\ failure[x - 1] < x
    OBVIOUS
  <2>2. x \in 1 .. m
    BY <1>0, <2>1
  <2>3. failure[x - 1] \in 0 .. x - 1
    BY <2>2 DEF TableBuilt
  <2>4. QED
    BY <1>0, <2>2, <2>3
<1>2. Value \in [X -> X] /\ Succ \in [X -> X] /\ Value \in [X -> Nat]
  <2>1. \A x \in X : (IF x > 0 THEN failure[x - 1] ELSE x) \in X
    BY <1>1
  <2>2. X \subseteq Nat
    BY <1>0
  <2> HIDE DEF X
  <2>3. QED
    BY <2>1, <2>2
<1>3. Descends(X, Stop, Succ, Value)
  BY <1>1 DEF Descends
<1>4. PICK f \in [X -> X] : \A x \in X : f[x] = IF x \in Stop THEN Value[x] ELSE f[Succ[x]]
  <2> HIDE DEF X, Stop, Value, Succ
  <2>1. Chains(X, X, Stop, Value, Succ) # {}
    BY <1>2, <1>3, ChainHasValue
  <2>2. QED
    BY <2>1 DEF Chains
<1>5. \A x \in X : f[x] = IF x > 0 /\ At(x) # b THEN f[failure[x - 1]] ELSE x
  BY <1>1, <1>4
<1>6. f = body(f)
  <2>1. f = [x \in X |-> f[x]]
    BY <1>4
  <2>2. QED
    BY <1>5, <2>1
<1> DEFINE G == CHOOSE g : g = body(g)
<1>7. G = body(G)
  BY <1>6, Zenon
<1>8. Fallen(n, b) = G[n]
  BY DEF Fallen
<1> HIDE DEF G
<1>9. \A x \in X : G[x] = IF x > 0 /\ At(x) # b THEN G[failure[x - 1]] ELSE x
  BY <1>7
<1> DEFINE Good(x, y) ==
             /\ PrefixEnds(y, t) /\ (y = 0 \/ At(y) = b)
             /\ \A l \in X : PrefixEnds(l, t) /\ At(l) = b => l <= y
           Start(x) ==
             /\ PrefixEnds(x, t)
             /\ \A l \in X : PrefixEnds(l, t) /\ At(l) = b => l <= x
           Bad == { x \in X : ~(G[x] \in X /\ (Start(x) => Good(x, G[x]))) }
<1>10. Bad = {}
  <2>1. SUFFICES ASSUME Bad # {} PROVE FALSE
    OBVIOUS
  <2>2. Bad \subseteq Nat
    BY <1>0
  <2>3. PICK x \in Bad : \A y \in Bad : x <= y
    <3> HIDE DEF Bad
    <3>1. QED
      BY <2>1, <2>2, LeastNatural
  <2>4. x \in X /\ ~(G[x] \in X /\ (Start(x) => Good(x, G[x])))
    OBVIOUS
  <2>5. CASE ~(x > 0 /\ At(x) # b)
    <3>1. G[x] = x
      BY <1>9, <2>4, <2>5
    <3>2. x = 0 \/ At(x) = b
      BY <1>0, <2>4, <2>5
    <3>3. QED
      BY <2>4, <3>1, <3>2
  <2>6. CASE x > 0 /\ At(x) # b
    <3>1. /\ failure[x - 1] \in X /\ failure[x - 1] < x /\ Border(failure[x - 1], x)
          /\ \A l \in 0 .. m - 1 : Border(l, x) => l <= failure[x - 1]
      BY <1>0, <1>1, <2>4, <2>6 DEF TableBuilt
    <3>2. x \in 1 .. m - 1 /\ failure[x - 1] \in Nat
      BY <1>0, <2>4, <2>6, <3>1
    <3>3. Start(x) => Start(failure[x - 1])
      BY <2>6, <3>1, <3>2, FollowPrefix
    <3>4. G[x] = G[failure[x - 1]]
      BY <1>9, <2>4, <2>6
    <3>5. failure[x - 1] \in Bad
      BY <2>4, <3>1, <3>3, <3>4
    <3>6. x <= failure[x - 1]
      BY <2>3, <3>5
    <3>7. QED
      BY <3>1, <3>2, <3>6
  <2>7. QED
    BY <2>5, <2>6
<1>11. n \in X /\ (LongestShort(n, t) => Start(n))
  BY DEF LongestShort
<1>12. G[n] \in X /\ (Start(n) => Good(n, G[n]))
  BY <1>10, <1>11
<1>13. QED
  BY <1>8, <1>11, <1>12

\* One byte takes the scan from the longest prefix that t ends with, short of
\* the whole pattern, to the longest that t and the byte end with.
LEMMA MatchedIs ==
    ASSUME pattern \in Seq(Byte), m > 0, TableBuilt,
           NEW t \in Seq(Byte), NEW b \in Byte, NEW n \in 0 .. m - 1
    PROVE  /\ Matched(n, b) \in 0 .. m
           /\ LongestShort(n, t) => Longest(Matched(n, b), Append(t, b))
<1> DEFINE x == Fallen(n, b)
<1>0. m \in Nat
  BY DEF m
<1>2. Matched(n, b) = IF At(x) = b THEN x + 1 ELSE x
  BY DEF Matched
<1>5. x \in 0 .. m - 1
  BY FallenIs
<1>6. SUFFICES ASSUME LongestShort(n, t) PROVE Longest(Matched(n, b), Append(t, b))
  BY <1>0, <1>2, <1>5
<1>1. /\ x \in 0 .. m - 1 /\ PrefixEnds(x, t) /\ (x = 0 \/ At(x) = b)
      /\ \A l \in 0 .. m - 1 : PrefixEnds(l, t) /\ At(l) = b => l <= x
  BY <1>6, FallenIs
<1> HIDE DEF x
<1>3. CASE At(x) = b
  BY <1>0, <1>1, <1>2, <1>3, ExtendPrefix DEF Longest
<1>4. CASE At(x) # b
  <2>1. x = 0
    BY <1>1, <1>4
  <2>2. \A l \in 0 .. m : PrefixEnds(l, Append(t, b)) => l = 0
    BY <1>1, <1>4, <2>1, MissPrefix
  <2>3. PrefixEnds(0, Append(t, b))
    BY DEF PrefixEnds
  <2>4. QED
    BY <1>0, <1>2, <1>4, <2>1, <2>2, <2>3 DEF Longest
<1> QED
  BY <1>3, <1>4

\* A match is left for the longest border of the pattern.
LEMMA ContinueIs ==
    ASSUME pattern \in Seq(Byte), m > 0, TableBuilt,
           NEW t \in Seq(Byte), NEW n \in 0 .. m
    PROVE  /\ Continue(n) \in 0 .. m - 1
           /\ Longest(n, t) => LongestShort(Continue(n), t)
<1>0. m \in Nat /\ m \in 1 .. m
  BY DEF m
<1>1. CASE n = m
  <2>1. /\ failure[m - 1] \in 0 .. m - 1 /\ Border(failure[m - 1], m)
        /\ \A l \in 0 .. m - 1 : Border(l, m) => l <= failure[m - 1]
    BY <1>0 DEF TableBuilt
  <2>2. Continue(n) = failure[m - 1]
    BY <1>1 DEF Continue
  <2>3. PrefixEnds(m, t) => LongestShort(failure[m - 1], t)
    BY <2>1, AfterMatch DEF LongestShort
  <2>4. QED
    BY <1>1, <2>1, <2>2, <2>3 DEF Longest
<1>2. CASE n # m
  BY <1>0, <1>2 DEF Continue, Longest, LongestShort
<1>3. QED
  BY <1>1, <1>2

Upto(t, n) == SubSeq(t, 1, n)

LEMMA UptoExtends ==
    ASSUME NEW t \in Seq(Byte), NEW n \in 1 .. Len(t)
    PROVE  /\ Upto(t, n - 1) \in Seq(Byte) /\ Upto(t, n) \in Seq(Byte) /\ t[n] \in Byte
           /\ Len(Upto(t, n)) = n
           /\ Upto(t, n) = Append(Upto(t, n - 1), t[n])
<1>1. t[n] \in Byte /\ n \in Nat /\ n <= Len(t) /\ Len(t) \in Nat
  BY ElementOfSeq
<1>2. ASSUME NEW q \in 0 .. n
      PROVE  Upto(t, q) \in Seq(Byte) /\ Len(Upto(t, q)) = q
  <2>1. \A x \in 1 .. q : t[x] \in Byte
    BY <1>1
  <2>2. q \in Int /\ 1 \in Int
    OBVIOUS
  <2>3. /\ SubSeq(t, 1, q) \in Seq(Byte)
        /\ Len(SubSeq(t, 1, q)) = IF 1 <= q THEN q - 1 + 1 ELSE 0
    BY <2>1, <2>2, SubSeqProperties
  <2>4. QED
    BY <2>3 DEF Upto
<1>3. SubSeq(t, 1, n) = SubSeq(t, 1, n - 1) \o << t[n] >>
  <2>1. 1 \in 1 .. Len(t)
    BY <1>1
  <2>2. QED
    BY <2>1, SubSeqRecursiveSecond
<1>4. Upto(t, n - 1) \in Seq(Byte) /\ Upto(t, n) \in Seq(Byte) /\ Len(Upto(t, n)) = n
  BY <1>1, <1>2
<1>5. Append(Upto(t, n - 1), t[n]) = Upto(t, n - 1) \o << t[n] >>
  BY <1>1, <1>4, AppendIsConcat
<1>6. QED
  BY <1>1, <1>3, <1>4, <1>5 DEF Upto

\* matched, the scan's state behind each byte.
IsMatched(g, t) ==
    g = [n \in 1 .. Len(t) |->
           Matched(IF n = 1 THEN 0 ELSE Continue(g[n - 1]), t[n])]

LEMMA MatchedExists ==
    ASSUME pattern \in Seq(Byte), m > 0, TableBuilt, NEW t \in Seq(Byte)
    PROVE  \E g : IsMatched(g, t)
<1> DEFINE S == 0 .. m
           N == Len(t)
           base == IF N = 0 THEN 0 ELSE Matched(0, t[1])
           Step == [p \in (1 .. N) \X S |-> Matched(Continue(p[2]), t[p[1]])]
<1>0. m \in Nat /\ N \in Nat /\ 0 \in 0 .. m - 1
  BY DEF m
<1>1. \A n \in 1 .. N : t[n] \in Byte
  BY ElementOfSeq
<1>2. \A n \in 1 .. N, v \in 0 .. m - 1 : Matched(v, t[n]) \in S
  BY <1>1, MatchedIs
<1>3. base \in S
  BY <1>0, <1>2
<1>4. \A v \in S : Continue(v) \in 0 .. m - 1
  BY ContinueIs
<1>5. Step \in [(1 .. N) \X S -> S]
  BY <1>2, <1>4
<1>6. \A n \in 1 .. N, v \in S : Step[<<n, v>>] = Matched(Continue(v), t[n])
  OBVIOUS
<1> HIDE DEF S, Step, base, N
<1>7. Countings(1, N, S, base, Step) # {}
  <2>1. 1 \in Int /\ N \in Int
    BY <1>0
  <2>2. QED
    BY <2>1, <1>3, <1>5, CountingHasValue
<1>8. PICK g \in [1 .. N -> S] :
        \A n \in 1 .. N : g[n] = IF n = 1 THEN base ELSE Step[<<n, g[n - 1]>>]
  BY <1>7 DEF Countings
<1>9. ASSUME NEW n \in 1 .. N
      PROVE  g[n] = Matched(IF n = 1 THEN 0 ELSE Continue(g[n - 1]), t[n])
  <2>1. CASE n = 1
    <3>0. 1 \in 1 .. N /\ N # 0
      BY <1>0, <2>1
    <3>1. g[1] = base /\ N # 0
      BY <3>0, <1>8
    <3>2. base = Matched(0, t[1])
      BY <3>1 DEF base
    <3>3. QED
      BY <2>1, <3>1, <3>2
  <2>2. CASE n # 1
    <3>1. n - 1 \in 1 .. N
      BY <1>0, <2>2
    <3>2. g[n - 1] \in S
      BY <1>8, <3>1
    <3>3. QED
      BY <1>6, <1>8, <2>2, <3>2
  <2>3. QED
    BY <2>1, <2>2
<1>10. g = [n \in 1 .. N |-> g[n]]
  BY <1>8
<1>11. IsMatched(g, t)
  BY <1>9, <1>10 DEF IsMatched, N
<1>12. QED
  BY <1>11

\* The scan remembers the longest prefix that the bytes read end with, a whole
\* match included.
LEMMA MatchedIsLongest ==
    ASSUME pattern \in Seq(Byte), m > 0, TableBuilt, NEW t \in Seq(Byte),
           NEW g, IsMatched(g, t), NEW n \in 1 .. Len(t)
    PROVE  g[n] \in 0 .. m /\ Longest(g[n], Upto(t, n))
<1> DEFINE Good(x) == g[x] \in 0 .. m /\ Longest(g[x], Upto(t, x))
           Bad == { x \in 1 .. Len(t) : ~Good(x) }
<1>0. m \in Nat /\ Len(t) \in Nat /\ 0 \in 0 .. m - 1
  BY DEF m
<1>1. SUFFICES ASSUME Bad # {} PROVE FALSE
  OBVIOUS
<1>2. Bad \subseteq Nat
  BY <1>0
<1>3. PICK x \in Bad : \A y \in Bad : x <= y
  <2> HIDE DEF Bad
  <2>1. QED
    BY <1>1, <1>2, LeastNatural
<1>4. x \in 1 .. Len(t) /\ ~Good(x) /\ x - 1 \notin Bad
  BY <1>0, <1>3
<1>5. /\ Upto(t, x - 1) \in Seq(Byte) /\ t[x] \in Byte
      /\ Upto(t, x) = Append(Upto(t, x - 1), t[x])
  BY <1>4, UptoExtends
<1> DEFINE v == IF x = 1 THEN 0 ELSE Continue(g[x - 1])
<1>6. g[x] = Matched(v, t[x])
  BY <1>4 DEF IsMatched
<1>7. v \in 0 .. m - 1 /\ LongestShort(v, Upto(t, x - 1))
  <2>1. CASE x = 1
    <3>1. Len(Upto(t, 0)) = 0
      BY SubSeqEmpty DEF Upto
    <3>2. QED
      BY <1>0, <2>1, <3>1 DEF LongestShort, PrefixEnds
  <2>2. CASE x # 1
    <3>1. x - 1 \in 1 .. Len(t)
      BY <1>0, <1>4, <2>2
    <3>2. Good(x - 1)
      BY <1>4, <3>1
    <3>3. QED
      BY <1>5, <2>2, <3>2, ContinueIs
  <2>3. QED
    BY <2>1, <2>2
<1> HIDE DEF v
<1>8. Good(x)
  BY <1>5, <1>6, <1>7, MatchedIs
<1>9. QED
  BY <1>4, <1>8

\* A match ends behind byte n.
EndsAt(t, n) == PrefixEnds(m, Upto(t, n))

\* s lists, in order, where the matches begin that end within the first n bytes.
Lists(s, t, n) ==
    /\ s \in Seq(Int)
    /\ \A x \in 1 .. Len(s) - 1 : s[x] < s[x + 1]
    /\ { s[x] : x \in 1 .. Len(s) } = { q - m : q \in { r \in 1 .. n : EndsAt(t, r) } }

\* out, the positions pushed behind each byte.
IsOut(h, g, t) ==
    h = [n \in 0 .. Len(t) |->
           IF n = 0 THEN << >>
           ELSE IF g[n] = m THEN Append(h[n - 1], n - m) ELSE h[n - 1]]

LEMMA OutExists ==
    ASSUME pattern \in Seq(Byte), NEW t \in Seq(Byte), NEW g
    PROVE  \E h : IsOut(h, g, t)
<1> DEFINE S == Seq(Int)
           N == Len(t)
           Step == [p \in (0 .. N) \X S |->
                      IF g[p[1]] = m THEN Append(p[2], p[1] - m) ELSE p[2]]
<1>0. m \in Nat /\ N \in Nat
  BY DEF m
<1>1. \A n \in 0 .. N, s \in S : Append(s, n - m) \in S
  BY <1>0
<1>2. Step \in [(0 .. N) \X S -> S]
  BY <1>1
<1>3. \A n \in 0 .. N, s \in S :
        Step[<<n, s>>] = IF g[n] = m THEN Append(s, n - m) ELSE s
  OBVIOUS
<1>4. << >> \in S
  OBVIOUS
<1> HIDE DEF S, Step, N
<1>5. Countings(0, N, S, << >>, Step) # {}
  <2>1. 0 \in Int /\ N \in Int
    BY <1>0
  <2>2. QED
    BY <2>1, <1>2, <1>4, CountingHasValue
<1>6. PICK h \in [0 .. N -> S] :
        \A n \in 0 .. N : h[n] = IF n = 0 THEN << >> ELSE Step[<<n, h[n - 1]>>]
  BY <1>5 DEF Countings
<1>7. ASSUME NEW n \in 0 .. N
      PROVE  h[n] = IF n = 0 THEN << >>
                    ELSE IF g[n] = m THEN Append(h[n - 1], n - m) ELSE h[n - 1]
  <2>1. CASE n = 0
    BY <1>6, <2>1
  <2>2. CASE n # 0
    <3>1. n - 1 \in 0 .. N
      BY <1>0, <2>2
    <3>2. h[n - 1] \in S
      BY <1>6, <3>1
    <3>3. QED
      BY <1>3, <1>6, <2>2, <3>2
  <2>3. QED
    BY <2>1, <2>2
<1>8. h = [n \in 0 .. N |-> h[n]]
  BY <1>6
<1>9. IsOut(h, g, t)
  BY <1>7, <1>8 DEF IsOut, N
<1>10. QED
  BY <1>9

LEMMA ListsStep ==
    ASSUME pattern \in Seq(Byte), NEW t \in Seq(Byte), NEW n \in Nat \ {0},
           NEW s, Lists(s, t, n - 1)
    PROVE  Lists(IF EndsAt(t, n) THEN Append(s, n - m) ELSE s, t, n)
<1> DEFINE Q(p) == { r \in 1 .. p : EndsAt(t, r) }
           F(p) == { q - m : q \in Q(p) }
<1>0. m \in Nat /\ s \in Seq(Int) /\ Len(s) \in Nat
      /\ (\A x \in 1 .. Len(s) - 1 : s[x] < s[x + 1])
      /\ { s[x] : x \in 1 .. Len(s) } = F(n - 1)
  <2>1. m \in Nat /\ s \in Seq(Int) /\ Len(s) \in Nat
    BY DEF m, Lists
  <2>2. QED
    BY <2>1 DEF Lists
<1>1. CASE ~EndsAt(t, n)
  <2>1. Q(n) = Q(n - 1)
    BY <1>1
  <2>2. QED
    BY <1>0, <1>1, <2>1 DEF Lists
<1>2. CASE EndsAt(t, n)
  <2> DEFINE u == Append(s, n - m)
  <2>1. Q(n) = Q(n - 1) \cup {n}
    BY <1>2
  <2>2. /\ u \in Seq(Int) /\ Len(u) = Len(s) + 1
        /\ \A x \in 1 .. Len(s) : u[x] = s[x]
        /\ u[Len(s) + 1] = n - m
    BY <1>0
  <2> HIDE DEF u
  <2>3. \A x \in 1 .. Len(s) : s[x] \in Int /\ s[x] < n - m
    <3>1. SUFFICES ASSUME NEW x \in 1 .. Len(s) PROVE s[x] \in Int /\ s[x] < n - m
      OBVIOUS
    <3>2. s[x] \in F(n - 1)
      BY <1>0
    <3>3. PICK q \in 1 .. n - 1 : s[x] = q - m
      BY <3>2
    <3>4. QED
      BY <1>0, <3>3
  <2>4. \A x \in 1 .. Len(u) - 1 : u[x] < u[x + 1]
    <3>1. SUFFICES ASSUME NEW x \in 1 .. Len(s) PROVE u[x] < u[x + 1]
      BY <1>0, <2>2
    <3>2. CASE x = Len(s)
      BY <2>2, <2>3, <3>2
    <3>3. CASE x # Len(s)
      <4>1. x \in 1 .. Len(s) - 1 /\ x + 1 \in 1 .. Len(s)
        BY <1>0, <3>3
      <4>2. QED
        BY <1>0, <2>2, <4>1
    <3>4. QED
      BY <3>2, <3>3
  <2>5. { u[x] : x \in 1 .. Len(u) } = F(n)
    <3>1. 1 .. Len(u) = (1 .. Len(s)) \cup {Len(s) + 1}
      BY <1>0, <2>2
    <3>2. { u[x] : x \in 1 .. Len(u) } = { s[x] : x \in 1 .. Len(s) } \cup {n - m}
      BY <2>2, <3>1, ZenonT(40)
    <3>3. F(n) = F(n - 1) \cup {n - m}
      <4> HIDE DEF Q
      <4>1. QED
        BY <2>1
    <3>4. QED
      BY <1>0, <3>2, <3>3
  <2>6. Lists(u, t, n)
    BY <2>2, <2>4, <2>5 DEF Lists
  <2>7. QED
    BY <1>2, <2>6 DEF u
<1>3. QED
  BY <1>1, <1>2

LEMMA OutLists ==
    ASSUME pattern \in Seq(Byte), m > 0, TableBuilt, NEW t \in Seq(Byte),
           NEW g, IsMatched(g, t), NEW h, IsOut(h, g, t), NEW n \in 0 .. Len(t)
    PROVE  Lists(h[n], t, n)
<1> DEFINE Bad == { x \in 0 .. Len(t) : ~Lists(h[x], t, x) }
<1>0. m \in Nat /\ Len(t) \in Nat
  BY DEF m
<1>1. SUFFICES ASSUME Bad # {} PROVE FALSE
  OBVIOUS
<1>2. Bad \subseteq Nat
  BY <1>0
<1>3. PICK x \in Bad : \A y \in Bad : x <= y
  <2> HIDE DEF Bad
  <2>1. QED
    BY <1>1, <1>2, LeastNatural
<1>4. x \in 0 .. Len(t) /\ ~Lists(h[x], t, x) /\ x - 1 \notin Bad
  BY <1>0, <1>3
<1>5. CASE x = 0
  <2>1. h[0] = << >>
    BY <1>0 DEF IsOut
  <2>2. Lists(<< >>, t, 0)
    BY DEF Lists
  <2>3. QED
    BY <1>4, <1>5, <2>1, <2>2
<1>6. CASE x # 0
  <2>1. x \in Nat \ {0} /\ x \in 1 .. Len(t) /\ x - 1 \in 0 .. Len(t)
    BY <1>0, <1>4, <1>6
  <2>2. Lists(h[x - 1], t, x - 1)
    BY <1>4, <2>1
  <2>3. g[x] = m <=> EndsAt(t, x)
    <3>1. g[x] \in 0 .. m /\ Longest(g[x], Upto(t, x))
      BY <2>1, MatchedIsLongest
    <3>2. m \in 0 .. m
      BY <1>0
    <3>3. QED
      BY <1>0, <3>1, <3>2 DEF Longest, EndsAt
  <2>4. h[x] = IF g[x] = m THEN Append(h[x - 1], x - m) ELSE h[x - 1]
    BY <1>4, <1>6 DEF IsOut
  <2>5. Lists(h[x], t, x)
    BY <2>1, <2>2, <2>3, <2>4, ListsStep, SMTT(30)
  <2>6. QED
    BY <1>4, <2>5
<1>7. QED
  BY <1>5, <1>6

\* find_all finds every occurrence, each once, in ascending order.
LEMMA FindAllLists ==
    ASSUME pattern \in Seq(Byte), m > 0, TableBuilt, NEW t \in Seq(Byte)
    PROVE  Lists(FindAll(t), t, Len(t))
<1> DEFINE G == CHOOSE g : IsMatched(g, t)
           H == CHOOSE h : IsOut(h, G, t)
<1>1. IsMatched(G, t)
  BY MatchedExists
<1>2. IsOut(H, G, t)
  BY OutExists
<1>3. FindAll(t) = H[Len(t)]
  <2>1. m # 0
    BY DEF m
  <2>2. QED
    BY <2>1 DEF FindAll, IsMatched, IsOut
<1> HIDE DEF G, H
<1>4. Len(t) \in 0 .. Len(t)
  OBVIOUS
<1>5. QED
  BY <1>1, <1>2, <1>3, <1>4, OutLists

\* What the stream answered is what ends at each byte.
AnswersAreEnds ==
    \A n \in 1 .. Len(fed) :
        answers[n] = IF m > 0 /\ EndsAt(fed, n) THEN {<<n - m, 0>>} ELSE {}

LEMMA StepAnswers ==
    ASSUME TypeOK, TypeOK', AnswersAreEnds, [Occurrences!Next]_Occurrences!vars
    PROVE  AnswersAreEnds'
<1>0. /\ pattern \in Seq(Byte) /\ fed \in Seq(Byte) /\ fed' \in Seq(Byte)
      /\ Len(answers) = Len(fed) /\ answers \in Seq(SUBSET (Nat \X {0}))
  BY KmpAssumption DEF TypeOK
<1>1. pattern' = pattern
  <2>1. <<pattern>>' = <<pattern>>
    BY DEF Occurrences!Next, Occurrences!FirstSlice, Occurrences!FeedByte, Occurrences!vars
  <2>2. QED
    BY <2>1
<1>2. CASE UNCHANGED <<fed, answers>>
  BY <1>1, <1>2 DEF AnswersAreEnds, EndsAt, PrefixEnds, m
<1>3. CASE \E b \in Byte : Occurrences!FeedByte(b)
  <2>1. PICK b \in Byte : /\ fed' = Append(fed, b)
                          /\ answers' = Append(answers, Occurrences!EndingAt(<<pattern>>, fed'))
    BY <1>3 DEF Occurrences!FeedByte
  <2> DEFINE N == Len(fed) + 1
             last == Occurrences!EndingAt(<<pattern>>, fed')
  <2>2. last = IF m > 0 /\ PrefixEnds(m, fed') THEN {<<Len(fed') - m, 0>>} ELSE {}
    BY <1>0, EndingOfOne
  <2>3. Len(fed') = N /\ answers'[N] = last /\ \A n \in 1 .. Len(fed) : answers'[n] = answers[n]
    <3>1. Len(fed') = N /\ Len(fed') \in Nat
      BY <1>0, <2>1
    <3>2. last \in SUBSET (Nat \X {0})
      <4>1. CASE m > 0 /\ PrefixEnds(m, fed')
        <5>1. Len(fed') - m \in Nat
          BY <3>1, <4>1 DEF PrefixEnds, m
        <5>2. last = {<<Len(fed') - m, 0>>}
          BY <2>2, <4>1
        <5> HIDE DEF last
        <5>3. QED
          BY <5>1, <5>2
      <4>2. CASE ~(m > 0 /\ PrefixEnds(m, fed'))
        BY <2>2, <4>2
      <4>3. QED
        BY <4>1, <4>2
    <3>3. answers' = Append(answers, last)
      BY <2>1
    <3> HIDE DEF last
    <3>4. QED
      BY <1>0, <3>1, <3>2, <3>3, AppendProperties
  <2>4. Upto(fed', N) = fed'
    BY <1>0, <2>3, SubSeqFull DEF Upto
  <2>5. ASSUME NEW n \in 1 .. Len(fed) PROVE Upto(fed', n) = Upto(fed, n)
    BY <1>0, <2>1 DEF Upto
  <2>6. ASSUME NEW n \in 1 .. N
        PROVE  answers'[n] = IF m > 0 /\ EndsAt(fed', n) THEN {<<n - m, 0>>} ELSE {}
    <3>1. CASE n = N
      BY <2>2, <2>3, <2>4, <3>1 DEF EndsAt
    <3>2. CASE n # N
      <4>1. n \in 1 .. Len(fed)
        BY <1>0, <3>2
      <4>2. QED
        BY <2>3, <2>5, <4>1 DEF AnswersAreEnds, EndsAt
    <3>3. QED
      BY <3>1, <3>2
  <2>7. m' = m
    BY <1>1 DEF m
  <2>8. \A n \in 1 .. Len(fed') :
          answers'[n] = IF m > 0 /\ EndsAt(fed', n) THEN {<<n - m, 0>>} ELSE {}
    BY <2>3, <2>6
  <2>9. QED
    BY <1>1, <2>7, <2>8 DEF AnswersAreEnds, EndsAt, PrefixEnds
<1>4. QED
  BY <1>2, <1>3 DEF Occurrences!Next, Occurrences!FirstSlice, Occurrences!vars

LEMMA BatchIsStream ==
    ASSUME IInv, AnswersAreEnds
    PROVE  BatchFindsStreamed
<1> DEFINE found == FindAll(fed)
<1>0. /\ pattern \in Seq(Byte) /\ fed \in Seq(Byte) /\ m \in Nat /\ Len(fed) \in Nat
      /\ answers \in Seq(SUBSET (Nat \X {0})) /\ Len(answers) = Len(fed)
  BY KmpAssumption DEF IInv, TypeOK, m
<1>1. SUFFICES ASSUME pc = "idle"
               PROVE  /\ \A x \in 1 .. Len(found) - 1 : found[x] < found[x + 1]
                      /\ { <<found[x], 0>> : x \in DOMAIN found }
                           = IF m = 0 THEN {<<0, 0>>}
                             ELSE UNION { answers[n] : n \in DOMAIN answers }
  BY DEF BatchFindsStreamed
<1>2. CASE m = 0
  <2>1. found = <<0>>
    BY <1>2 DEF FindAll
  <2>2. DOMAIN found = {1} /\ Len(found) = 1 /\ found[1] = 0
    BY <2>1
  <2> HIDE DEF found
  <2>3. QED
    BY <1>2, <2>2
<1>3. CASE m # 0
  <2>1. TableBuilt
    <3>1. SUFFICES ASSUME NEW n \in 1 .. m
                   PROVE  /\ failure[n - 1] \in 0 .. n - 1
                          /\ Border(failure[n - 1], n)
                          /\ \A l \in 0 .. m - 1 : Border(l, n) => l <= failure[n - 1]
      BY DEF TableBuilt
    <3>2. n - 1 \in Built
      BY <1>0, <1>1 DEF Built
    <3>3. TypeOK /\ FailureIsLongestBorder
      BY DEF IInv
    <3>4. QED
      BY <1>0, <3>2, <3>3, LinkOf
  <2>2. Lists(found, fed, Len(fed))
    BY <1>0, <1>3, <2>1, FindAllLists
  <2> DEFINE Q == { r \in 1 .. Len(fed) : EndsAt(fed, r) }
  <2>3. /\ found \in Seq(Int)
        /\ \A x \in 1 .. Len(found) - 1 : found[x] < found[x + 1]
        /\ { found[x] : x \in 1 .. Len(found) } = { q - m : q \in Q }
    BY <2>2 DEF Lists
  <2>4. DOMAIN found = 1 .. Len(found) /\ DOMAIN answers = 1 .. Len(fed)
    BY <1>0, <2>3
  <2> HIDE DEF found
  <2>5. { <<found[x], 0>> : x \in DOMAIN found } = { <<q - m, 0>> : q \in Q }
    <3> DEFINE A == { found[x] : x \in 1 .. Len(found) }
               B == { q - m : q \in Q }
    <3>1. { <<found[x], 0>> : x \in DOMAIN found } = { <<a, 0>> : a \in A }
      BY <2>4
    <3>2. { <<q - m, 0>> : q \in Q } = { <<a, 0>> : a \in B }
      <4> HIDE DEF Q
      <4>1. QED
        OBVIOUS
    <3>3. QED
      BY <2>3, <3>1, <3>2
  <2>6. UNION { answers[n] : n \in DOMAIN answers } = { <<q - m, 0>> : q \in Q }
    <3>0. m > 0
      BY <1>0, <1>3
    <3>1. \A n \in 1 .. Len(fed) : answers[n] = IF n \in Q THEN {<<n - m, 0>>} ELSE {}
      BY <3>0 DEF AnswersAreEnds
    <3>2. Q \subseteq 1 .. Len(fed)
      OBVIOUS
    <3> HIDE DEF Q
    <3>3. QED
      BY <2>4, <3>1, <3>2
  <2>7. QED
    BY <1>3, <2>3, <2>5, <2>6
<1>4. QED
  BY <1>2, <1>3

LEMMA AnswersInvariant == Spec => []AnswersAreEnds
<1>1. Init => AnswersAreEnds
  BY DEF Init, AnswersAreEnds
<1>2. IInv /\ IInv' /\ Fresh /\ AnswersAreEnds /\ [Next]_vars => AnswersAreEnds'
  BY StepRefines, StepAnswers DEF IInv
<1>3. QED
  BY <1>1, <1>2, Invariance, FreshInvariant, PTL DEF Spec

\* kmp.rs and stream.rs, one automaton written twice: for every pattern and
\* every text the batch search finds, once and in order, what the stream
\* answered.
THEOREM BatchCorrect == Spec => []BatchFindsStreamed
<1>1. IInv /\ AnswersAreEnds => BatchFindsStreamed
  BY BatchIsStream
<1>2. QED
  BY <1>1, Invariance, AnswersInvariant, PTL

-----------------------------------------------------------------------------
(* The polynomial hash of rabin_karp.rs *)

\* The powers of the base.
PowerOf[n \in Nat] == IF n = 0 THEN 1 ELSE Base * PowerOf[n - 1]

Residue == 0 .. Modulus - 1

\* What SearchAssumption says of numbers.
LEMMA HashNumbers ==
    /\ Base \in Nat /\ Modulus \in Nat /\ Modulus \in Int /\ Modulus > 0
    /\ \A b \in Byte : b \in Nat /\ b < Modulus
    /\ 0 \in Byte
    /\ Patterns \subseteq Seq(Byte)
BY SearchAssumption DEF Rk!RabinKarpAssumption

LEMMA PowerOfIs ==
    /\ PowerOf \in [Nat -> Nat]
    /\ PowerOf[0] = 1
    /\ \A n \in Nat : PowerOf[n + 1] = Base * PowerOf[n]
<1> DEFINE Value == [n \in Nat |-> 1]
           Succ == [n \in Nat |-> IF n = 0 THEN 0 ELSE n - 1]
           Step == [p \in Nat \X Nat |-> Base * p[2]]
           Measure == [n \in Nat |-> n]
           body(f) == [n \in Nat |-> IF n = 0 THEN 1 ELSE Base * f[n - 1]]
<1>0. Base \in Nat
  BY HashNumbers
<1>1. /\ Value \in [Nat -> Nat] /\ Succ \in [Nat -> Nat] /\ Step \in [Nat \X Nat -> Nat]
      /\ Measure \in [Nat -> Nat]
  BY <1>0
<1>2. Descends(Nat, {0}, Succ, Measure)
  BY DEF Descends
<1>3. /\ \A n \in Nat : Value[n] = 1 /\ (n # 0 => Succ[n] = n - 1 /\ n - 1 \in Nat)
      /\ \A n \in Nat, v \in Nat : Step[<<n, v>>] = Base * v
  OBVIOUS
<1> HIDE DEF Value, Succ, Step, Measure
<1>4. Solutions(Nat, Nat, {0}, Value, Succ, Step) # {}
  BY <1>1, <1>2, RecursionHasValue
<1>5. PICK f \in [Nat -> Nat] :
        \A n \in Nat : f[n] = IF n \in {0} THEN Value[n] ELSE Step[<<n, f[Succ[n]]>>]
  BY <1>4 DEF Solutions
<1>6. ASSUME NEW n \in Nat PROVE f[n] = IF n = 0 THEN 1 ELSE Base * f[n - 1]
  <2>1. CASE n = 0
    BY <1>3, <1>5, <2>1
  <2>2. CASE n # 0
    <3>1. Succ[n] = n - 1 /\ n - 1 \in Nat /\ f[n - 1] \in Nat
      BY <1>3, <1>5, <2>2
    <3>2. f[n] = Step[<<n, f[n - 1]>>]
      BY <1>5, <2>2, <3>1
    <3>3. QED
      BY <1>3, <2>2, <3>1, <3>2
  <2>3. QED
    BY <2>1, <2>2
<1>7. f = body(f)
  <2>1. f = [n \in Nat |-> f[n]]
    BY <1>5
  <2>2. QED
    BY <1>6, <2>1
<1> DEFINE G == CHOOSE g : g = body(g)
<1>8. G = body(G)
  BY <1>7, Zenon
<1>9. PowerOf = G
  BY DEF PowerOf
<1> HIDE DEF G
<1>10. \A n \in Nat : PowerOf[n] = IF n = 0 THEN 1 ELSE Base * PowerOf[n - 1]
  BY <1>8, <1>9
<1>11. \A n \in Nat : PowerOf[n + 1] = Base * PowerOf[n]
  BY <1>10
<1>12. \A n \in Nat : PowerOf[n] \in Nat
  <2> DEFINE T == { n \in Nat : PowerOf[n] \in Nat }
  <2>1. 0 \in T
    BY <1>10
  <2>2. \A n \in T : n + 1 \in T
    BY <1>0, <1>11
  <2>3. T \subseteq Nat
    OBVIOUS
  <2> HIDE DEF T
  <2>4. T = Nat
    BY <2>1, <2>2, <2>3, NatSetInduction
  <2>5. QED
    BY <2>4 DEF T
<1>13. PowerOf = [n \in Nat |-> PowerOf[n]]
  BY <1>8, <1>9
<1>14. QED
  BY <1>10, <1>11, <1>12, <1>13

LEMMA PowerOfSum ==
    ASSUME NEW a \in Nat, NEW b \in Nat
    PROVE  PowerOf[a + b] = PowerOf[a] * PowerOf[b]
<1> DEFINE T == { n \in Nat : PowerOf[a + n] = PowerOf[a] * PowerOf[n] }
<1>0. \A n \in Nat : PowerOf[n] \in Nat /\ PowerOf[n + 1] = Base * PowerOf[n]
  BY PowerOfIs
<1>1. 0 \in T
  BY <1>0, PowerOfIs
<1>2. ASSUME NEW n \in T PROVE n + 1 \in T
  <2>1. n \in Nat /\ n + 1 \in Nat /\ a + n \in Nat /\ a + (n + 1) = (a + n) + 1
    OBVIOUS
  <2>2. PowerOf[a + (n + 1)] = Base * PowerOf[a + n] /\ PowerOf[a + n] = PowerOf[a] * PowerOf[n]
    BY <1>0, <2>1
  <2>3. PowerOf[a] \in Int /\ PowerOf[n] \in Int /\ PowerOf[n + 1] = Base * PowerOf[n] /\ Base \in Int
    <3>1. Base \in Nat
      BY HashNumbers
    <3>2. QED
      BY <1>0, <2>1, <3>1
  <2>4. Base * (PowerOf[a] * PowerOf[n]) = PowerOf[a] * (Base * PowerOf[n])
    BY <2>3
  <2>5. QED
    BY <2>1, <2>2, <2>3, <2>4
<1>3. T \subseteq Nat
  OBVIOUS
<1> HIDE DEF T
<1>4. T = Nat
  BY <1>1, <1>2, <1>3, NatSetInduction
<1>5. QED
  BY <1>4 DEF T

\* The one subtraction suffices.
LEMMA ReduceIsMod ==
    ASSUME NEW x \in 0 .. 2 * Modulus - 1
    PROVE  Rk!reduce_mod(x) = x % Modulus /\ x % Modulus \in Residue
<1>0. Modulus \in Int /\ Modulus > 0
  BY HashNumbers
<1>1. CASE x < Modulus
  <2>1. x \in 0 .. Modulus - 1 /\ x = Modulus * 0 + x /\ x \in Int
    BY <1>0, <1>1
  <2>2. x % Modulus = x
    BY <1>0, <2>1, DivisionUnique
  <2>3. QED
    BY <1>0, <1>1, <2>1, <2>2 DEF Rk!reduce_mod, Residue
<1>2. CASE ~(x < Modulus)
  <2>1. x - Modulus \in 0 .. Modulus - 1 /\ x = Modulus * 1 + (x - Modulus) /\ x \in Int
    BY <1>0, <1>2
  <2>2. x % Modulus = x - Modulus
    <3> DEFINE r == x - Modulus
               q == 1
    <3>1. r \in 0 .. Modulus - 1 /\ q \in Int /\ x = Modulus * q + r /\ x \in Int
      BY <2>1
    <3> HIDE DEF r, q
    <3>2. x % Modulus = r
      BY <1>0, <3>1, DivisionUnique
    <3>3. QED
      BY <3>2 DEF r
  <2>3. QED
    BY <1>0, <1>2, <2>1, <2>2 DEF Rk!reduce_mod, Residue
<1>3. QED
  BY <1>1, <1>2

\* ... so that a round of the hash loop is one multiplication and one sum.
LEMMA AbsorbIs ==
    ASSUME NEW h \in Nat, NEW b \in Byte
    PROVE  /\ Rk!Absorb(h, b) = (h * Base + b) % Modulus
           /\ Rk!Absorb(h, b) \in Residue
<1>0. Modulus \in Int /\ Modulus > 0 /\ Base \in Nat /\ b \in Nat /\ b < Modulus
  BY HashNumbers
<1> DEFINE r == (h * Base) % Modulus
<1>1. h * Base \in Int
  BY <1>0
<1>2. r \in 0 .. Modulus - 1
  <2> DEFINE a == h * Base
  <2>1. a \in Int
    BY <1>1
  <2> HIDE DEF a
  <2>2. a % Modulus \in 0 .. Modulus - 1
    BY <1>0, <2>1, Division
  <2>3. QED
    BY <2>2 DEF a
<1>3. (r + b) % Modulus = (h * Base + b) % Modulus
  <2> DEFINE a == h * Base
  <2>1. a \in Int /\ b \in Int
    BY <1>0, <1>1
  <2> HIDE DEF a
  <2>2. ((a % Modulus) + b) % Modulus = (a + b) % Modulus
    BY <1>0, <2>1, ModAdd
  <2>3. QED
    BY <2>2 DEF a, r
<1>4. Rk!Absorb(h, b) = Rk!reduce_mod(r + b)
  BY DEF Rk!Absorb, Rk!mul_mod
<1> HIDE DEF r
<1>5. r + b \in 0 .. 2 * Modulus - 1
  BY <1>0, <1>2
<1>6. QED
  BY <1>3, <1>4, <1>5, ReduceIsMod

-----------------------------------------------------------------------------
(* The hash of a text, and what a byte at either end of it adds *)

\* The hashes of a text's prefixes.
PrefixHashes(h, text) ==
    /\ h \in [0 .. Len(text) -> Residue]
    /\ \A n \in 0 .. Len(text) : h[n] = IF n = 0 THEN 0 ELSE Rk!Absorb(h[n - 1], text[n])

LEMMA ZeroIsResidue == 0 \in Residue /\ Residue \subseteq Nat /\ Residue \subseteq Int
BY HashNumbers DEF Residue

LEMMA HashExists ==
    ASSUME NEW text \in Seq(Byte)
    PROVE  \E h : PrefixHashes(h, text) /\ Rk!HashOf(text) = h[Len(text)]
<1> DEFINE X == 0 .. Len(text)
           Step == [p \in X \X Residue |-> IF p[1] = 0 THEN 0 ELSE Rk!Absorb(p[2], text[p[1]])]
           body(f) == [n \in 0 .. Len(text) |->
                         IF n = 0 THEN 0 ELSE Rk!Absorb(f[n - 1], text[n])]
<1>0. Len(text) \in Int
  OBVIOUS
<1>1. ASSUME NEW p \in X \X Residue PROVE (IF p[1] = 0 THEN 0 ELSE Rk!Absorb(p[2], text[p[1]])) \in Residue
  <2>1. CASE p[1] = 0
    BY <2>1, ZeroIsResidue
  <2>2. CASE p[1] # 0
    <3>1. p[1] \in 1 .. Len(text) /\ p[2] \in Residue
      BY <2>2
    <3>2. p[2] \in Nat
      BY <3>1, ZeroIsResidue
    <3>3. text[p[1]] \in Byte
      BY <3>1
    <3>4. QED
      BY <2>2, <3>2, <3>3, AbsorbIs
  <2>3. QED
    BY <2>1, <2>2
<1>2. Step \in [X \X Residue -> Residue]
  BY <1>1
<1>3. \A n \in X, v \in Residue : n # 0 => Step[<<n, v>>] = Rk!Absorb(v, text[n])
  OBVIOUS
<1> HIDE DEF Step
<1>4. Countings(0, Len(text), Residue, 0, Step) # {}
  BY <1>0, <1>2, ZeroIsResidue, CountingHasValue
<1>5. PICK f \in [X -> Residue] : \A n \in X : f[n] = IF n = 0 THEN 0 ELSE Step[<<n, f[n - 1]>>]
  BY <1>4 DEF Countings
<1>6. ASSUME NEW n \in X PROVE f[n] = IF n = 0 THEN 0 ELSE Rk!Absorb(f[n - 1], text[n])
  <2>1. CASE n = 0
    BY <1>5, <2>1
  <2>2. CASE n # 0
    <3>1. n - 1 \in X /\ f[n - 1] \in Residue
      BY <1>5, <2>2
    <3>2. QED
      BY <1>3, <1>5, <2>2, <3>1
  <2>3. QED
    BY <2>1, <2>2
<1>7. f = body(f)
  <2>1. f = [n \in X |-> f[n]]
    BY <1>5
  <2>2. QED
    BY <1>6, <2>1
<1> DEFINE G == CHOOSE g : g = body(g)
<1>8. G = body(G)
  BY <1>7, Zenon
<1>9. Rk!HashOf(text) = G[Len(text)]
  BY DEF Rk!HashOf
<1> HIDE DEF G
<1>10. DOMAIN G = X /\ \A n \in X : G[n] = IF n = 0 THEN 0 ELSE Rk!Absorb(G[n - 1], text[n])
  BY <1>8
<1>11. \A n \in X : G[n] \in Residue
  <2> DEFINE T == { n \in Nat : n \in X => G[n] \in Residue }
  <2>1. 0 \in T
    BY <1>10, ZeroIsResidue
  <2>2. ASSUME NEW n \in T PROVE n + 1 \in T
    <3>1. SUFFICES ASSUME n + 1 \in X PROVE G[n + 1] \in Residue
      OBVIOUS
    <3>2. n \in X /\ G[n] \in Nat /\ n + 1 # 0 /\ (n + 1) - 1 = n /\ text[n + 1] \in Byte
      BY <3>1, ZeroIsResidue
    <3>3. G[n + 1] = Rk!Absorb(G[n], text[n + 1])
      BY <1>10, <3>1, <3>2
    <3>4. QED
      BY <3>2, <3>3, AbsorbIs
  <2>3. T \subseteq Nat
    OBVIOUS
  <2> HIDE DEF T
  <2>4. T = Nat
    BY <2>1, <2>2, <2>3, NatSetInduction
  <2>5. X \subseteq Nat
    OBVIOUS
  <2>6. QED
    BY <2>4, <2>5 DEF T
<1>12. G = [n \in X |-> G[n]]
  BY <1>8
<1>13. PrefixHashes(G, text)
  BY <1>10, <1>11, <1>12 DEF PrefixHashes
<1>14. QED
  BY <1>9, <1>13

\* Texts that agree so far have the same hashes so far.
LEMMA PrefixHashesAgree ==
    ASSUME NEW s \in Seq(Byte), NEW t \in Seq(Byte), NEW g, NEW h,
           PrefixHashes(g, s), PrefixHashes(h, t),
           NEW z \in 0 .. Len(s), z <= Len(t), \A n \in 1 .. z : s[n] = t[n]
    PROVE  g[z] = h[z]
<1> DEFINE T == { n \in Nat : n <= z => g[n] = h[n] }
<1>1. 0 \in T
  BY DEF PrefixHashes
<1>2. ASSUME NEW n \in T PROVE n + 1 \in T
  <2>1. SUFFICES ASSUME n + 1 <= z PROVE g[n + 1] = h[n + 1]
    OBVIOUS
  <2>2. n \in Nat /\ n <= z /\ g[n] = h[n] /\ n + 1 \in 1 .. z
    BY <2>1
  <2>3. n + 1 \in 0 .. Len(s) /\ n + 1 \in 0 .. Len(t) /\ n + 1 # 0 /\ (n + 1) - 1 = n
    BY <2>1
  <2>4. s[n + 1] = t[n + 1]
    BY <2>2
  <2>5. g[n + 1] = Rk!Absorb(g[n], s[n + 1]) /\ h[n + 1] = Rk!Absorb(h[n], t[n + 1])
    BY <2>3 DEF PrefixHashes
  <2>6. QED
    BY <2>2, <2>4, <2>5
<1>3. T \subseteq Nat
  OBVIOUS
<1> HIDE DEF T
<1>4. T = Nat
  BY <1>1, <1>2, <1>3, NatSetInduction
<1>5. z \in Nat /\ z <= z
  OBVIOUS
<1>6. QED
  BY <1>4, <1>5 DEF T

\* The hash of nothing is where every loop starts.
LEMMA HashOfEmpty == Rk!HashOf(<< >>) = 0
<1>1. << >> \in Seq(Byte) /\ Len(<< >>) = 0
  OBVIOUS
<1>2. PICK h : PrefixHashes(h, << >>) /\ Rk!HashOf(<< >>) = h[Len(<< >>)]
  BY <1>1, HashExists
<1>3. QED
  BY <1>1, <1>2 DEF PrefixHashes

LEMMA HashIsResidue ==
    ASSUME NEW text \in Seq(Byte)
    PROVE  Rk!HashOf(text) \in Residue
<1>1. PICK h : PrefixHashes(h, text) /\ Rk!HashOf(text) = h[Len(text)]
  BY HashExists
<1>2. Len(text) \in 0 .. Len(text)
  OBVIOUS
<1>3. QED
  BY <1>1, <1>2 DEF PrefixHashes

\* A byte at the end is absorbed.
LEMMA HashOfAppend ==
    ASSUME NEW t \in Seq(Byte), NEW b \in Byte
    PROVE  Rk!HashOf(Append(t, b)) = Rk!Absorb(Rk!HashOf(t), b)
<1> DEFINE s == Append(t, b)
<1>1. s \in Seq(Byte) /\ Len(s) = Len(t) + 1 /\ s[Len(t) + 1] = b /\ \A n \in 1 .. Len(t) : s[n] = t[n]
  OBVIOUS
<1> HIDE DEF s
<1>2. PICK g : PrefixHashes(g, s) /\ Rk!HashOf(s) = g[Len(s)]
  BY <1>1, HashExists
<1>3. PICK h : PrefixHashes(h, t) /\ Rk!HashOf(t) = h[Len(t)]
  BY HashExists
<1>4. Len(t) \in 0 .. Len(s) /\ Len(t) <= Len(t) /\ Len(t) \in Nat
  BY <1>1
<1>5. g[Len(t)] = h[Len(t)]
  BY <1>1, <1>2, <1>3, <1>4, PrefixHashesAgree
<1>6. Len(s) \in 0 .. Len(s) /\ Len(s) # 0 /\ Len(s) - 1 = Len(t)
  BY <1>1, <1>4
<1>7. g[Len(s)] = Rk!Absorb(g[Len(t)], s[Len(s)])
  BY <1>2, <1>6 DEF PrefixHashes
<1>8. Rk!HashOf(s) = Rk!Absorb(Rk!HashOf(t), b)
  BY <1>1, <1>2, <1>3, <1>5, <1>7
<1>9. QED
  BY <1>8 DEF s

Affine(u, a, x, y) == u = a * x + y
Same(a, b) == a % Modulus = b % Modulus

\* Remainders of products and sums depend on the remainders alone.
LEMMA ModCongruent ==
    ASSUME NEW a \in Int, NEW b \in Int, Same(a, b), NEW x \in Int, NEW y \in Int,
           NEW u, NEW v, Affine(u, a, x, y), Affine(v, b, x, y)
    PROVE  Same(u, v)
<1>0. Modulus \in Int /\ Modulus > 0
  BY HashNumbers
<1>1. ((a % Modulus) * x) % Modulus = (a * x) % Modulus
  BY <1>0, ModMul
<1>2. ((b % Modulus) * x) % Modulus = (b * x) % Modulus
  BY <1>0, ModMul
<1> DEFINE p == a * x
           q == b * x
<1>3. p \in Int /\ q \in Int /\ p % Modulus = q % Modulus
  BY <1>1, <1>2 DEF Same
<1> HIDE DEF p, q
<1>4. ((p % Modulus) + y) % Modulus = (p + y) % Modulus
  BY <1>0, <1>3, ModAdd
<1>5. ((q % Modulus) + y) % Modulus = (q + y) % Modulus
  BY <1>0, <1>3, ModAdd
<1>6. (p + y) % Modulus = (q + y) % Modulus
  BY <1>3, <1>4, <1>5
<1>7. u = p + y /\ v = q + y
  BY DEF p, q, Affine
<1>8. QED
  BY <1>6, <1>7 DEF Same

\* A remainder is its own remainder.
LEMMA ModMod ==
    ASSUME NEW d \in Int, d > 0, NEW a \in Int
    PROVE  (a % d) % d = a % d /\ a % d \in Nat /\ a % d \in Int
<1> DEFINE r == a % d
<1>1. r \in 0 .. d - 1
  BY Division
<1> HIDE DEF r
<1>2. r = d * 0 + r /\ r \in Int /\ 0 \in Int
  BY <1>1
<1>3. r % d = r
  BY <1>1, <1>2, DivisionUnique
<1>4. QED
  BY <1>1, <1>3 DEF r

\* A byte in front weighs the power of the base that the others have raised it to.
LEMMA HashOfFront ==
    ASSUME NEW a \in Byte, NEW text \in Seq(Byte)
    PROVE  Rk!HashOf(<<a>> \o text)
             = (a * PowerOf[Len(text)] + Rk!HashOf(text)) % Modulus
<1>0. Modulus \in Int /\ Modulus > 0 /\ Base \in Nat /\ Base \in Int /\ a \in Nat /\ a \in Int
      /\ a < Modulus
  BY HashNumbers
<1> DEFINE T == { n \in Nat : \A t \in Seq(Byte) : Len(t) = n =>
                    Rk!HashOf(<<a>> \o t) = (a * PowerOf[n] + Rk!HashOf(t)) % Modulus }
<1>1. 0 \in T
  <2> SUFFICES ASSUME NEW t \in Seq(Byte), Len(t) = 0
               PROVE  Rk!HashOf(<<a>> \o t) = (a * PowerOf[0] + Rk!HashOf(t)) % Modulus
    OBVIOUS
  <2>1. t = << >> /\ <<a>> \o t = Append(t, a)
    OBVIOUS
  <2>2. Rk!HashOf(t) = 0
    BY <2>1, HashOfEmpty
  <2>3. Rk!HashOf(<<a>> \o t) = Rk!Absorb(0, a)
    BY <2>1, <2>2, HashOfAppend
  <2>4. Rk!Absorb(0, a) = (0 * Base + a) % Modulus
    BY AbsorbIs
  <2>5. PowerOf[0] = 1
    BY PowerOfIs
  <2>6. 0 * Base + a = a * 1 + 0
    BY <1>0
  <2>7. QED
    BY <2>2, <2>3, <2>4, <2>5, <2>6
<1>2. ASSUME NEW n \in T PROVE n + 1 \in T
  <2>0. n \in Nat /\ \A t \in Seq(Byte) : Len(t) = n =>
           Rk!HashOf(<<a>> \o t) = (a * PowerOf[n] + Rk!HashOf(t)) % Modulus
    OBVIOUS
  <2> HIDE DEF T
  <2>1. SUFFICES ASSUME NEW t \in Seq(Byte), Len(t) = n + 1
                 PROVE  Rk!HashOf(<<a>> \o t) = (a * PowerOf[n + 1] + Rk!HashOf(t)) % Modulus
    BY <2>0 DEF T
  <2> DEFINE s == SubSeq(t, 1, n)
             b == t[n + 1]
             front == <<a>> \o s
  <2>2. s \in Seq(Byte) /\ Len(s) = n /\ b \in Byte /\ t = Append(s, b)
    BY <2>0, <2>1
  <2>3. front \in Seq(Byte) /\ <<a>> \o t = Append(front, b)
    <3>1. <<a>> \in Seq(Byte)
      OBVIOUS
    <3> HIDE DEF s, b
    <3>2. <<a>> \o Append(s, b) = Append(<<a>> \o s, b)
      BY <2>2, <3>1
    <3>3. QED
      BY <2>2, <3>1, <3>2
  <2>4. Rk!HashOf(front) = (a * PowerOf[n] + Rk!HashOf(s)) % Modulus
    BY <2>0, <2>2
  <2> HIDE DEF s, b, front
  <2> DEFINE hs == Rk!HashOf(s)
             p == PowerOf[n]
             x == a * p + hs
             y == hs * Base + b
             z == a * (Base * p)
  <2>5. p \in Nat /\ hs \in Nat /\ b \in Nat /\ PowerOf[n + 1] = Base * p
    BY <2>0, <2>2, PowerOfIs, HashIsResidue, ZeroIsResidue, HashNumbers
  <2>6. x \in Int /\ y \in Int /\ z \in Int /\ x * Base + b = z + y
    <3> HIDE DEF hs, p
    <3>1. x \in Int /\ y \in Int /\ z \in Int
      BY <1>0, <2>5
    <3> DEFINE u == a * p
               v == u * Base
    <3>2. v = a * (Base * p) /\ u \in Int
      BY <1>0, <2>5
    <3> HIDE DEF u
    <3>3. (u + hs) * Base = v + hs * Base /\ v \in Int
      BY <1>0, <2>5, <3>2
    <3> HIDE DEF v
    <3>4. (u + hs) * Base + b = v + (hs * Base + b)
      BY <1>0, <2>5, <3>3
    <3>5. QED
      BY <3>1, <3>2, <3>4 DEF u
  <2>7. Rk!HashOf(front) \in Nat /\ Rk!HashOf(front) = x % Modulus
    BY <2>3, <2>4, HashIsResidue, ZeroIsResidue
  <2>8. Rk!HashOf(<<a>> \o t) = ((x % Modulus) * Base + b) % Modulus
    <3>1. Rk!HashOf(<<a>> \o t) = Rk!Absorb(Rk!HashOf(front), b)
      BY <2>2, <2>3, HashOfAppend
    <3>2. Rk!Absorb(Rk!HashOf(front), b) = (Rk!HashOf(front) * Base + b) % Modulus
      BY <2>2, <2>7, AbsorbIs
    <3>3. QED
      BY <2>7, <3>1, <3>2
  <2>9. Rk!HashOf(t) = y % Modulus
    BY <2>2, <2>5, HashOfAppend, AbsorbIs
  <2> HIDE DEF hs, p, x, y, z
  <2>10. (x % Modulus) % Modulus = x % Modulus /\ x % Modulus \in Int
    BY <1>0, <2>6, ModMod
  <2>11. ((x % Modulus) * Base + b) % Modulus = (x * Base + b) % Modulus
    <3>1. b \in Int
      BY <2>5
    <3> DEFINE r == x % Modulus
           u == r * Base + b
           v == x * Base + b
    <3>2. r \in Int /\ Same(r, x)
      BY <2>10 DEF Same
    <3> HIDE DEF r
    <3>3. u \in Int /\ v \in Int
      BY <1>0, <2>6, <3>1, <3>2
    <3>4. Affine(u, r, Base, b) /\ Affine(v, x, Base, b)
      BY DEF Affine
    <3> HIDE DEF u, v
    <3>5. Same(u, v)
      <4>1. x \in Int /\ Base \in Int /\ Modulus \in Int /\ Modulus > 0
        BY <1>0, <2>6
      <4>2. QED
        BY <3>1, <3>2, <3>3, <3>4, <4>1, ModCongruent
    <3>6. QED
      BY <3>5 DEF r, u, v, Same
  <2>12. (y % Modulus) \in Int /\ ((y % Modulus) + z) % Modulus = (y + z) % Modulus
    BY <1>0, <2>6, ModAdd, ModMod, ZenonT(40)
  <2>13. Rk!HashOf(<<a>> \o t) = (z + Rk!HashOf(t)) % Modulus
    BY <2>6, <2>8, <2>9, <2>11, <2>12
  <2>14. z = a * PowerOf[n + 1]
    BY <2>5 DEF z
  <2>15. QED
    BY <2>13, <2>14
<1>3. T \subseteq Nat
  OBVIOUS
<1>4. T = Nat
  <2> HIDE DEF T
  <2>1. QED
    BY <1>1, <1>2, <1>3, NatSetInduction
<1>5. Len(text) \in T
  BY <1>4
<1>6. QED
  BY <1>5

-----------------------------------------------------------------------------
(* The power by squarings *)

Product(u, a, x) == u = a * x

LEMMA ProductSame ==
    ASSUME NEW a \in Int, NEW b \in Int, Same(a, b), NEW x \in Int,
           NEW u, NEW v, Product(u, a, x), Product(v, b, x)
    PROVE  Same(u, v)
<1>1. Affine(u, a, x, 0) /\ Affine(v, b, x, 0) /\ 0 \in Int
  BY DEF Affine, Product
<1>2. QED
  BY <1>1, ModCongruent

LEMMA RestSame ==
    ASSUME NEW a \in Int
    PROVE  /\ a % Modulus \in Nat /\ a % Modulus \in Int /\ a % Modulus \in Residue
           /\ Same(a % Modulus, a)
<1>0. Modulus \in Int /\ Modulus > 0
  BY HashNumbers
<1>1. (a % Modulus) % Modulus = a % Modulus /\ a % Modulus \in Nat /\ a % Modulus \in Int
  BY <1>0, ModMod
<1>2. a % Modulus \in Residue
  BY <1>0, Division DEF Residue
<1>3. QED
  BY <1>1, <1>2 DEF Same

\* The function pow_mod recurs on: exponent, base, result.
Powers(f, exponent) ==
    \A e \in 0 .. exponent, b \in Nat, r \in Nat :
       f[<<e, b, r>>] =
         IF e = 0 THEN r
         ELSE f[<<e \div 2, Rk!mul_mod(b, b), IF e % 2 = 1 THEN Rk!mul_mod(r, b) ELSE r>>]

LEMMA MulModIs ==
    ASSUME NEW a \in Nat, NEW b \in Nat
    PROVE  Rk!mul_mod(a, b) \in Nat /\ Same(Rk!mul_mod(a, b), a * b)
<1>1. a * b \in Int
  OBVIOUS
<1> DEFINE p == a * b
<1> HIDE DEF p
<1>2. p % Modulus \in Nat /\ Same(p % Modulus, p)
  BY <1>1, RestSame DEF p
<1>3. QED
  BY <1>2 DEF Rk!mul_mod, p

LEMMA Halves ==
    ASSUME NEW e \in Nat
    PROVE  /\ e \div 2 \in Nat /\ e \div 2 <= e /\ (e # 0 => e \div 2 < e)
           /\ e % 2 = 1 => e = (e \div 2) + (e \div 2) + 1
           /\ e % 2 # 1 => e = (e \div 2) + (e \div 2)
OBVIOUS

LEMMA PowersExist ==
    ASSUME NEW base, NEW exponent \in Nat, base % Modulus \in Nat
    PROVE  \E f : Powers(f, exponent) /\ Rk!pow_mod(base, exponent) = f[<<exponent, base % Modulus, 1>>]
<1> DEFINE X == (0 .. exponent) \X Nat \X Nat
           Next3(e, b, r) == <<e \div 2, Rk!mul_mod(b, b),
                               IF e % 2 = 1 THEN Rk!mul_mod(r, b) ELSE r>>
           Stop == { x \in X : x[1] = 0 }
           Value == [x \in X |-> x[3]]
           Succ == [x \in X |-> Next3(x[1], x[2], x[3])]
           Measure == [x \in X |-> x[1]]
           body(f) == [s \in (0 .. exponent) \X Nat \X Nat |->
                         IF s[1] = 0 THEN s[3]
                         ELSE f[<<s[1] \div 2, Rk!mul_mod(s[2], s[2]),
                                  IF s[1] % 2 = 1 THEN Rk!mul_mod(s[3], s[2]) ELSE s[3]>>]]
<1>1. ASSUME NEW e \in 0 .. exponent, NEW b \in Nat, NEW r \in Nat
      PROVE  Next3(e, b, r) \in X
  <2>1. e \div 2 \in 0 .. exponent
    BY Halves
  <2>2. Rk!mul_mod(b, b) \in Nat /\ Rk!mul_mod(r, b) \in Nat
    BY MulModIs
  <2>3. QED
    BY <2>1, <2>2
<1>2. Value \in [X -> Nat] /\ Measure \in [X -> Nat]
  OBVIOUS
<1> HIDE DEF Next3
<1>3. Succ \in [X -> X]
  BY <1>1
<1>4. \A e \in 0 .. exponent, b \in Nat, r \in Nat :
        /\ Value[<<e, b, r>>] = r /\ Measure[<<e, b, r>>] = e
        /\ Succ[<<e, b, r>>] = Next3(e, b, r)
        /\ <<e, b, r>> \in Stop <=> e = 0
  OBVIOUS
<1>5. ASSUME NEW e \in 0 .. exponent, NEW b \in Nat, NEW r \in Nat, e # 0
      PROVE  Measure[Next3(e, b, r)] < e
  <2>1. Next3(e, b, r)[1] = e \div 2
    BY DEF Next3
  <2>2. Measure[Next3(e, b, r)] = e \div 2
    BY <1>1, <2>1
  <2>3. e \div 2 < e
    BY <1>5, Halves
  <2>4. QED
    BY <2>2, <2>3
<1> HIDE DEF Value, Measure, Succ, Stop
<1>6. Descends(X, Stop, Succ, Measure)
  <2> SUFFICES ASSUME NEW x \in X \ Stop PROVE Measure[Succ[x]] < Measure[x]
    BY DEF Descends
  <2>1. PICK e \in 0 .. exponent, b \in Nat, r \in Nat : x = <<e, b, r>>
    OBVIOUS
  <2>2. e # 0
    BY <1>4, <2>1
  <2>3. QED
    BY <1>4, <1>5, <2>1, <2>2
<1>7. Chains(X, Nat, Stop, Value, Succ) # {}
  BY <1>2, <1>3, <1>6, ChainHasValue
<1>8. PICK f \in [X -> Nat] : \A x \in X : f[x] = IF x \in Stop THEN Value[x] ELSE f[Succ[x]]
  BY <1>7 DEF Chains
<1>9. ASSUME NEW e \in 0 .. exponent, NEW b \in Nat, NEW r \in Nat
      PROVE  f[<<e, b, r>>] = IF e = 0 THEN r ELSE f[Next3(e, b, r)]
  <2>1. <<e, b, r>> \in X
    OBVIOUS
  <2>2. QED
    BY <1>4, <1>8, <2>1
<1>10. f = body(f)
  <2>1. f = [s \in X |-> f[s]]
    BY <1>8
  <2>2. ASSUME NEW s \in X
        PROVE  f[s] = IF s[1] = 0 THEN s[3] ELSE f[Next3(s[1], s[2], s[3])]
    <3>1. PICK e \in 0 .. exponent, b \in Nat, r \in Nat : s = <<e, b, r>>
      OBVIOUS
    <3>2. s[1] = e /\ s[2] = b /\ s[3] = r
      BY <3>1
    <3>3. QED
      BY <1>9, <3>1, <3>2
  <2>3. QED
    BY <2>1, <2>2 DEF Next3
<1> DEFINE G == CHOOSE g : g = body(g)
<1>11. G = body(G)
  BY <1>10, Zenon
<1>12. Rk!pow_mod(base, exponent) = G[<<exponent, base % Modulus, 1>>]
  BY DEF Rk!pow_mod
<1> HIDE DEF G
<1>13. Powers(G, exponent)
  BY <1>11 DEF Powers
<1>14. QED
  BY <1>12, <1>13

\* What the squarings compute: result times base to the exponent.
LEMMA PowersAre ==
    ASSUME NEW f, NEW exponent \in Nat, Powers(f, exponent),
           NEW base \in Nat, Same(base, Base)
    PROVE  f[<<exponent, base, 1>>] \in Nat /\ Same(f[<<exponent, base, 1>>], PowerOf[exponent])
<1> DEFINE Right(e, b, r, q) ==
             f[<<e, b, r>>] \in Nat /\ Same(f[<<e, b, r>>], r * PowerOf[q * e])
           T == { n \in Nat : \A e \in 0 .. exponent : e < n =>
                    \A b, r, q \in Nat : Same(b, PowerOf[q]) => Right(e, b, r, q) }
<1>0. PowerOf \in [Nat -> Nat] /\ PowerOf[0] = 1 /\ \A a, b \in Nat : PowerOf[a + b] = PowerOf[a] * PowerOf[b]
  BY PowerOfIs, PowerOfSum
<1>1. 0 \in T
  OBVIOUS
<1>2. ASSUME NEW n \in T PROVE n + 1 \in T
  <2>0. n \in Nat /\ \A e \in 0 .. exponent : e < n =>
           \A b, r, q \in Nat : Same(b, PowerOf[q]) => Right(e, b, r, q)
    OBVIOUS
  <2> HIDE DEF T
  <2>1. SUFFICES ASSUME NEW e \in 0 .. exponent, e < n + 1,
                        NEW b \in Nat, NEW r \in Nat, NEW q \in Nat, Same(b, PowerOf[q])
                 PROVE  Right(e, b, r, q)
    BY <2>0 DEF T
  <2>2. CASE e = 0
    <3>1. f[<<e, b, r>>] = r
      BY <2>2 DEF Powers
    <3>2. q * e = 0
      BY <2>2
    <3>3. PowerOf[q * e] = 1
      BY <1>0, <3>2
    <3>4. r * PowerOf[q * e] = r
      BY <3>3
    <3>5. QED
      BY <3>1, <3>4 DEF Same
  <2>3. CASE e # 0
    <3> DEFINE d == e \div 2
               b2 == Rk!mul_mod(b, b)
               r2 == IF e % 2 = 1 THEN Rk!mul_mod(r, b) ELSE r
               y == PowerOf[q]
               w == PowerOf[(q + q) * d]
    <3>1. f[<<e, b, r>>] = f[<<d, b2, r2>>]
      BY <2>3 DEF Powers
    <3>2. d \in 0 .. exponent /\ d < n /\ d \in Nat
      BY <2>0, <2>1, <2>3, Halves
    <3>3. b2 \in Nat /\ Same(b2, b * b)
      BY MulModIs
    <3>4. r2 \in Nat
      BY MulModIs
    <3>5. y \in Nat /\ y \in Int /\ Same(b, y)
      BY <1>0, <2>1
    <3>6. w \in Nat
      <4> HIDE DEF d
      <4>1. (q + q) * d \in Nat
        BY <3>2
      <4>2. QED
        BY <1>0, <4>1
    <3> HIDE DEF y
    <3>7. Same(b2, PowerOf[q + q])
      <4>1. Same(b * b, y * b)
        BY <3>5, ProductSame DEF Product
      <4>2. Same(b * y, y * y)
        BY <3>5, ProductSame DEF Product
      <4>3. b * y = y * b
        BY <3>5
      <4>4. PowerOf[q + q] = y * y
        BY <1>0 DEF y
      <4>5. QED
        BY <3>3, <4>1, <4>2, <4>3, <4>4 DEF Same
    <3> HIDE DEF b2, r2, w
    <3>8. Right(d, b2, r2, q + q)
      BY <2>0, <3>2, <3>3, <3>4, <3>7
    <3>9. f[<<e, b, r>>] \in Nat /\ Same(f[<<e, b, r>>], r2 * w)
      BY <3>1, <3>8 DEF w
    <3>10. CASE e % 2 = 1
      <4>1. e = d + d + 1
        BY <3>10, Halves
      <4>2. q * e = q + (q + q) * d
        <5> HIDE DEF d
        <5>1. QED
          BY <3>2, <4>1
      <4>3. (q + q) * d \in Nat
        BY <3>2
      <4>4. PowerOf[q * e] = y * w
        <5> DEFINE z == (q + q) * d
        <5> HIDE DEF z
        <5>1. PowerOf[q + z] = PowerOf[q] * PowerOf[z]
          BY <1>0, <4>3 DEF z
        <5>2. QED
          BY <4>2, <5>1 DEF z, w, y
      <4>5. r2 \in Nat /\ Same(r2, r * b)
        BY <3>10, MulModIs DEF r2
      <4> DEFINE rb == r * b
                 rw == r * w
      <4>6. rb \in Int /\ rw \in Int
        BY <3>6
      <4>7. Same(r2 * w, rb * w)
        <5>1. r2 \in Int /\ w \in Int /\ Same(r2, rb)
          BY <3>6, <4>5
        <5> HIDE DEF rb, rw
        <5>2. Product(r2 * w, r2, w) /\ Product(rb * w, rb, w)
          BY DEF Product
        <5>3. QED
          BY <4>6, <5>1, <5>2, ProductSame
      <4>8. Same(b * rw, y * rw)
        <5> HIDE DEF rb, rw
        <5>1. QED
          BY <3>5, <4>6, ProductSame DEF Product
      <4>9. rb * w = b * rw
        BY <3>6
      <4>10. y * rw = r * (y * w)
        BY <3>5, <3>6
      <4> HIDE DEF rb, rw
      <4>11. Same(f[<<e, b, r>>], r * PowerOf[q * e])
        BY <3>9, <4>4, <4>7, <4>8, <4>9, <4>10 DEF Same
      <4>12. QED
        BY <3>9, <4>11
    <3>11. CASE e % 2 # 1
      <4>1. e = d + d
        BY <3>11, Halves
      <4>2. q * e = (q + q) * d
        <5> HIDE DEF d
        <5>1. QED
          BY <3>2, <4>1
      <4>3. r2 = r
        BY <3>11 DEF r2
      <4>4. QED
        BY <3>9, <4>2, <4>3 DEF w
    <3>12. QED
      BY <3>10, <3>11
  <2>4. QED
    BY <2>2, <2>3
<1>3. T \subseteq Nat
  OBVIOUS
<1>4. T = Nat
  <2> HIDE DEF T
  <2>1. QED
    BY <1>1, <1>2, <1>3, NatSetInduction
<1>5. \A b, r, q \in Nat : Same(b, PowerOf[q]) => Right(exponent, b, r, q)
  <2>1. exponent + 1 \in T
    <3> HIDE DEF T
    <3>1. exponent + 1 \in Nat
      OBVIOUS
    <3>2. QED
      BY <1>4, <3>1
  <2>2. exponent \in 0 .. exponent /\ exponent < exponent + 1
    OBVIOUS
  <2> HIDE DEF Right
  <2>3. QED
    BY <2>1, <2>2
<1>6. PowerOf[1] = Base
  BY PowerOfIs, HashNumbers
<1>7. Right(exponent, base, 1, 1)
  <2> DEFINE one == 1
  <2>1. one \in Nat /\ Same(base, PowerOf[one])
    BY <1>6
  <2> HIDE DEF one
  <2>2. Right(exponent, base, one, one)
    BY <1>5, <2>1
  <2>3. QED
    BY <2>2 DEF one
<1>8. 1 * exponent = exponent /\ 1 * PowerOf[exponent] = PowerOf[exponent]
  BY <1>0
<1>9. QED
  BY <1>7, <1>8

LEMMA LeadingFactorIs ==
    ASSUME pattern \in Seq(Byte), Len(pattern) > 0
    PROVE  Rk!leading_factor \in Nat /\ Same(Rk!leading_factor, PowerOf[Len(pattern) - 1])
<1>0. Base \in Nat /\ Base \in Int /\ Len(pattern) - 1 \in Nat /\ Rk!m = Len(pattern)
  BY HashNumbers DEF Rk!m
<1> DEFINE e == Len(pattern) - 1
           b == Base % Modulus
<1>1. b \in Nat /\ Same(b, Base) /\ e \in Nat
  BY <1>0, RestSame
<1> HIDE DEF e
<1>2. PICK f : Powers(f, e) /\ Rk!pow_mod(Base, e) = f[<<e, b, 1>>]
  BY <1>1, PowersExist
<1> HIDE DEF b
<1>3. f[<<e, b, 1>>] \in Nat /\ Same(f[<<e, b, 1>>], PowerOf[e])
  BY <1>1, <1>2, PowersAre
<1>4. Rk!leading_factor = Rk!pow_mod(Base, e)
  BY <1>0 DEF Rk!leading_factor, e
<1>5. QED
  BY <1>2, <1>3, <1>4 DEF e

-----------------------------------------------------------------------------
(* Rolling the hash *)

\* One subtraction takes what was added.
LEMMA TakenBack ==
    ASSUME NEW d \in Int, d > 0, NEW x \in 0 .. d - 1, NEW h \in 0 .. d - 1
    PROVE  (((x + h) % d) + d - x) % d = h
<1> DEFINE s == x + h
<1>1. CASE s < d
  <2>1. s = d * 0 + s /\ s \in 0 .. d - 1 /\ s \in Int
    BY <1>1
  <2>2. s % d = s
    BY <2>1, DivisionUnique
  <2>3. (s % d) + d - x = d + h
    BY <2>2
  <2>4. (d + h) % d = h
    <3> DEFINE w == d + h
               q == 1
    <3>1. w \in Int /\ q \in Int /\ w = d * q + h
      OBVIOUS
    <3> HIDE DEF w, q
    <3>2. w % d = h
      BY <3>1, DivisionUnique
    <3>3. QED
      BY <3>2 DEF w
  <2>5. QED
    BY <2>3, <2>4
<1>2. CASE ~(s < d)
  <2>1. s % d = s - d
    <3> DEFINE r == s - d
               q == 1
               w == s
    <3>1. w \in Int /\ q \in Int /\ w = d * q + r /\ r \in 0 .. d - 1
      BY <1>2
    <3> HIDE DEF w, q, r
    <3>2. w % d = r
      BY <3>1, DivisionUnique
    <3>3. QED
      BY <3>2 DEF w, r
  <2>2. (s % d) + d - x = h
    BY <2>1
  <2>3. h = d * 0 + h /\ h \in Int
    OBVIOUS
  <2>4. h % d = h
    BY <2>3, DivisionUnique
  <2>5. QED
    BY <2>2, <2>4
<1>3. QED
  BY <1>1, <1>2

\* The leaving byte's contribution is what it added.
LEMMA WithoutIs ==
    ASSUME pattern \in Seq(Byte), NEW a \in Byte, NEW t \in Seq(Byte),
           Len(pattern) = Len(t) + 1
    PROVE  Rk!Without(Rk!HashOf(<<a>> \o t), a) = Rk!HashOf(t)
<1>0. Modulus \in Int /\ Modulus > 0 /\ a \in Nat /\ a \in Int
  BY HashNumbers
<1> DEFINE lead == Rk!leading_factor
           p == PowerOf[Len(t)]
           x == Rk!mul_mod(a, lead)
           h == Rk!HashOf(t)
           g == Rk!HashOf(<<a>> \o t)
<1>1. lead \in Nat /\ lead \in Int /\ Same(lead, p)
  <2>1. Len(pattern) > 0 /\ Len(pattern) - 1 = Len(t)
    OBVIOUS
  <2>2. QED
    BY <2>1, LeadingFactorIs
<1>2. p \in Nat /\ h \in Residue
  BY PowerOfIs, HashIsResidue
<1>3. g = (a * p + h) % Modulus
  BY HashOfFront
<1> HIDE DEF lead, p, h, g
<1>4. x = (a * lead) % Modulus
  BY DEF Rk!mul_mod
<1>5. x \in Residue /\ x = (a * p) % Modulus
  <2> DEFINE u == a * lead
             v == a * p
  <2>1. u \in Int /\ v \in Int
    BY <1>0, <1>1, <1>2
  <2>2. Product(u, lead, a) /\ Product(v, p, a) /\ p \in Int
    BY <1>0, <1>1, <1>2 DEF Product
  <2> HIDE DEF u, v
  <2>3. Same(u, v)
    BY <1>0, <1>1, <2>2, ProductSame
  <2>4. u % Modulus \in Residue
    BY <2>1, RestSame
  <2>5. QED
    BY <1>4, <2>3, <2>4 DEF Same, u, v
<1> HIDE DEF x
<1>6. g = (x + h) % Modulus
  <2> DEFINE v == a * p
  <2>1. v \in Int /\ h \in Int
    BY <1>0, <1>2, ZeroIsResidue
  <2>2. x = v % Modulus /\ g = (v + h) % Modulus
    BY <1>3, <1>5
  <2> HIDE DEF v
  <2>3. ((v % Modulus) + h) % Modulus = (v + h) % Modulus
    BY <1>0, <2>1, ModAdd
  <2>4. QED
    BY <2>2, <2>3
<1>7. x \in 0 .. Modulus - 1 /\ h \in 0 .. Modulus - 1
  BY <1>2, <1>5 DEF Residue
<1>8. (g + Modulus - x) % Modulus = h
  BY <1>0, <1>6, <1>7, TakenBack
<1>9. g \in 0 .. Modulus - 1
  <2>1. x + h \in Int
    BY <1>7
  <2>2. QED
    BY <1>6, <2>1, RestSame DEF Residue
<1>10. g + Modulus - x \in 0 .. 2 * Modulus - 1
  BY <1>0, <1>7, <1>9
<1>11. Rk!reduce_mod(g + Modulus - x) = (g + Modulus - x) % Modulus
  BY <1>10, ReduceIsMod
<1>12. Rk!Without(g, a) = Rk!reduce_mod(g + Modulus - x)
  BY DEF Rk!Without, x, lead
<1>13. QED
  BY <1>8, <1>11, <1>12 DEF g, h

\* Rolling is hashing anew.
LEMMA RollIsHash ==
    ASSUME pattern \in Seq(Byte), NEW a \in Byte, NEW b \in Byte, NEW t \in Seq(Byte),
           Len(pattern) = Len(t) + 1
    PROVE  Rk!Absorb(Rk!Without(Rk!HashOf(<<a>> \o t), a), b) = Rk!HashOf(Append(t, b))
BY WithoutIs, HashOfAppend

-----------------------------------------------------------------------------
(* The ring *)

\* The ring w holds the last bytes of t, each in the slot of its position.
RingOf(w, t) ==
    \A x \in 0 .. Len(t) - 1 : Len(t) - m <= x => w[x % m] = t[x + 1]

\* Positions less than a turn apart have different slots.
LEMMA SlotsDiffer ==
    ASSUME NEW d \in Int, d > 0, NEW x \in Int, NEW y \in Int, x < y, y - x < d
    PROVE  x % d # y % d
<1> SUFFICES ASSUME x % d = y % d PROVE FALSE
  OBVIOUS
<1> DEFINE p == x \div d
           q == y \div d
           r == x % d
<1>1. p \in Int /\ q \in Int /\ r \in Int /\ x = d * p + r /\ y = d * q + r
  BY Division
<1> HIDE DEF p, q, r
<1>2. y - x = d * (q - p)
  BY <1>1
<1> DEFINE z == q - p
<1>3. z \in Int /\ d * z > 0 /\ d * z < d
  BY <1>1, <1>2
<1> HIDE DEF z
<1>4. z >= 1
  BY <1>3
<1>5. QED
  BY <1>3, <1>4

\* A turn later the slot is the same.
LEMMA TurnSame ==
    ASSUME NEW d \in Int, d > 0, NEW x \in Int
    PROVE  (x + d) % d = x % d
<1> DEFINE q == x \div d
           r == x % d
           y == x + d
<1>1. q \in Int /\ r \in 0 .. d - 1 /\ x = d * q + r
  BY Division
<1> HIDE DEF q, r
<1>2. y = d * (q + 1) + r /\ y \in Int /\ q + 1 \in Int
  BY <1>1
<1> HIDE DEF y
<1>3. y % d = r
  BY <1>1, <1>2, DivisionUnique
<1>4. QED
  BY <1>3 DEF y, r

\* The next byte takes the oldest one's slot.
LEMMA RingWrite ==
    ASSUME pattern \in Seq(Byte), m > 0, NEW w \in [0 .. m - 1 -> Byte],
           NEW t \in Seq(Byte), NEW b \in Byte, RingOf(w, t)
    PROVE  LET v == [w EXCEPT ![Len(t) % m] = b]
           IN  /\ v \in [0 .. m - 1 -> Byte]
               /\ RingOf(v, Append(t, b))
<1> DEFINE v == [w EXCEPT ![Len(t) % m] = b]
           s == Append(t, b)
           L == Len(t)
<1>0. m \in Int /\ L \in Int /\ L >= 0
  BY DEF m
<1>1. Len(s) = L + 1 /\ s[L + 1] = b /\ \A x \in 1 .. L : s[x] = t[x]
  OBVIOUS
<1>2. L % m \in 0 .. m - 1
  <2> HIDE DEF L
  <2>1. QED
    BY <1>0, Division
<1>3. v \in [0 .. m - 1 -> Byte]
  OBVIOUS
<1>4. v[L % m] = b
  BY <1>2
<1>5. \A y \in 0 .. m - 1 : y # L % m => v[y] = w[y]
  OBVIOUS
<1> HIDE DEF v, s, L
<1>6. ASSUME NEW x \in 0 .. Len(s) - 1, Len(s) - m <= x
      PROVE  v[x % m] = s[x + 1]
  <2>1. CASE x = L
    BY <1>1, <1>4, <2>1
  <2>2. CASE x # L
    <3>1. x \in 0 .. L - 1 /\ L - m <= x /\ x < L /\ L - x < m /\ x \in Int
      BY <1>0, <1>1, <1>6, <2>2
    <3>2. x % m # L % m
      BY <1>0, <3>1, SlotsDiffer
    <3>3. x % m \in 0 .. m - 1
      BY <1>0, <3>1, Division
    <3>4. v[x % m] = w[x % m]
      BY <1>5, <3>2, <3>3
    <3>5. w[x % m] = t[x + 1]
      BY <3>1 DEF RingOf, L
    <3>6. x + 1 \in 1 .. L
      BY <1>0, <3>1
    <3>7. QED
      BY <1>1, <3>4, <3>5, <3>6
  <2>3. QED
    BY <2>1, <2>2
<1>7. RingOf(v, s)
  BY <1>6 DEF RingOf
<1>8. QED
  BY <1>3, <1>7 DEF v, s, L

\* A full ring, read from its oldest byte, is the last bytes in order.
LEMMA RingRead ==
    ASSUME pattern \in Seq(Byte), m > 0, NEW w, NEW t \in Seq(Byte),
           Len(t) >= m, RingOf(w, t), NEW n \in 0 .. m - 1
    PROVE  /\ w[((Len(t) % m) + n) % m] = t[Len(t) - m + n + 1]
           /\ Len(t) - m + n + 1 \in 1 .. Len(t)
<1> DEFINE L == Len(t)
           x == L - m + n
<1>0. m \in Int /\ L \in Int /\ L >= m /\ n \in Int
  BY DEF m
<1> HIDE DEF L
<1>1. ((L % m) + n) % m = (L + n) % m
  BY <1>0, ModAdd
<1>2. (x + m) % m = x % m
  <2>1. x \in Int
    BY <1>0
  <2> HIDE DEF x
  <2>2. QED
    BY <1>0, <2>1, TurnSame
<1>3. x + m = L + n
  BY <1>0
<1>4. x \in 0 .. L - 1 /\ L - m <= x /\ x + 1 = L - m + n + 1 /\ x + 1 \in 1 .. L
  BY <1>0
<1> HIDE DEF x
<1>5. w[x % m] = t[x + 1]
  BY <1>4 DEF RingOf, L
<1>6. w[((L % m) + n) % m] = t[x + 1]
  BY <1>1, <1>2, <1>3, <1>5
<1>7. QED
  BY <1>4, <1>6 DEF L

\* The last bytes of a text, a window of them at most.
LastOf(t) == SubSeq(t, (IF Len(t) < m THEN 0 ELSE Len(t) - m) + 1, Len(t))

\* While the ring fills, the last bytes are all of them.
LEMMA LastWhileFilling ==
    ASSUME pattern \in Seq(Byte), NEW t \in Seq(Byte), Len(t) <= m
    PROVE  LastOf(t) = t
<1>1. (IF Len(t) < m THEN 0 ELSE Len(t) - m) = 0
  BY DEF m
<1>2. LastOf(t) = SubSeq(t, 1, Len(t))
  BY <1>1 DEF LastOf
<1>3. QED
  BY <1>2

\* Then one byte leaves for each that enters.
LEMMA LastWhileRolling ==
    ASSUME pattern \in Seq(Byte), m > 0, NEW t \in Seq(Byte), NEW b \in Byte, Len(t) >= m
    PROVE  LET a == t[Len(t) - m + 1]
               s == SubSeq(t, Len(t) - m + 2, Len(t))
           IN  /\ a \in Byte /\ s \in Seq(Byte) /\ Len(pattern) = Len(s) + 1
               /\ LastOf(t) = <<a>> \o s
               /\ LastOf(Append(t, b)) = Append(s, b)
<1> DEFINE L == Len(t)
           a == t[L - m + 1]
           s == SubSeq(t, L - m + 2, L)
<1>0. m \in Int /\ L \in Int /\ L >= m /\ m = Len(pattern)
  BY DEF m
<1>1. a \in Byte
  BY <1>0
<1>2. s \in Seq(Byte) /\ Len(s) = m - 1 /\ \A x \in 1 .. m - 1 : s[x] = t[L - m + 1 + x]
  BY <1>0
<1>3. LastOf(t) = SubSeq(t, L - m + 1, L)
  <2>1. (IF L < m THEN 0 ELSE L - m) = L - m
    BY <1>0
  <2>2. QED
    BY <2>1 DEF LastOf
<1>4. SubSeq(t, L - m + 1, L) = <<a>> \o s
  <2> DEFINE u == SubSeq(t, L - m + 1, L)
             v == <<a>> \o s
  <2>1. u \in Seq(Byte) /\ Len(u) = m /\ \A x \in 1 .. m : u[x] = t[L - m + x]
    BY <1>0
  <2>2. v \in Seq(Byte) /\ Len(v) = m /\ v[1] = a /\ \A x \in 2 .. m : v[x] = s[x - 1]
    <3> HIDE DEF a, s
    <3>1. QED
      BY <1>0, <1>1, <1>2
  <2> HIDE DEF u, v, s
  <2>3. \A x \in 1 .. m : u[x] = v[x]
    <3> SUFFICES ASSUME NEW x \in 1 .. m PROVE u[x] = v[x]
      OBVIOUS
    <3>1. CASE x = 1
      BY <1>0, <2>1, <2>2, <3>1
    <3>2. CASE x # 1
      <4>1. x \in 2 .. m /\ x - 1 \in 1 .. m - 1 /\ L - m + 1 + (x - 1) = L - m + x
        BY <1>0, <3>2
      <4>2. QED
        BY <1>2, <2>1, <2>2, <4>1
    <3>3. QED
      BY <3>1, <3>2
  <2>4. u = v
    BY <1>0, <2>1, <2>2, <2>3, SeqEqual
  <2>5. QED
    BY <2>4 DEF u, v
<1>5. LastOf(Append(t, b)) = Append(s, b)
  <2> DEFINE z == Append(t, b)
             u == LastOf(z)
             v == Append(s, b)
  <2>1. z \in Seq(Byte) /\ Len(z) = L + 1 /\ z[L + 1] = b /\ \A x \in 1 .. L : z[x] = t[x]
    BY <1>0
  <2> HIDE DEF z, s
  <2>2. u = SubSeq(z, L - m + 2, L + 1)
    <3>1. (IF Len(z) < m THEN 0 ELSE Len(z) - m) + 1 = L - m + 2
      BY <1>0, <2>1
    <3>2. QED
      BY <2>1, <3>1 DEF LastOf
  <2>3. u \in Seq(Byte) /\ Len(u) = m /\ \A x \in 1 .. m : u[x] = z[L - m + 1 + x]
    <3> HIDE DEF u
    <3>1. QED
      BY <1>0, <2>1, <2>2
  <2>4. v \in Seq(Byte) /\ Len(v) = m /\ v[m] = b /\ \A x \in 1 .. m - 1 : v[x] = s[x]
    BY <1>0, <1>2
  <2> HIDE DEF u, v
  <2>5. ASSUME NEW x \in 1 .. m PROVE u[x] = v[x]
    <3>1. CASE x = m
      <4>1. L - m + 1 + x = L + 1
        BY <1>0, <3>1
      <4>2. QED
        BY <2>1, <2>3, <2>4, <3>1, <4>1
    <3>2. CASE x # m
      <4>1. x \in 1 .. m - 1 /\ L - m + 1 + x \in 1 .. L
        BY <1>0, <3>2
      <4>2. QED
        BY <1>2, <2>1, <2>3, <2>4, <4>1
    <3>3. QED
      BY <3>1, <3>2
  <2>6. u = v
    BY <1>0, <2>3, <2>4, <2>5, SeqEqual
  <2>7. QED
    BY <2>6 DEF u, v, z
<1>6. QED
  BY <1>0, <1>1, <1>2, <1>3, <1>4, <1>5

-----------------------------------------------------------------------------
(* The answers *)

LEMMA RkPattern == Rk!m = m /\ m = Len(pattern) /\ Rk!pattern_hash = Rk!HashOf(pattern)
BY DEF Rk!m, m, Rk!pattern_hash

\* The match that ends where t ends, if one does.
Ends(t) == IF m > 0 /\ PrefixEnds(m, t) THEN {<<Len(t) - m, 0>>} ELSE {}

\* The ring is compared with the pattern as the last bytes are.
LEMMA WindowMatches ==
    ASSUME pattern \in Seq(Byte), m > 0, NEW w, NEW t \in Seq(Byte),
           Len(t) >= m, RingOf(w, t)
    PROVE  Rk!window_matches(w, Len(t) % m) <=> PrefixEnds(m, t)
<1>0. m \in Int /\ Len(t) \in Int
  BY RkPattern
<1>1. Rk!window_matches(w, Len(t) % m)
        <=> \A n \in 0 .. m - 1 : w[((Len(t) % m) + n) % m] = pattern[n + 1]
  BY RkPattern DEF Rk!window_matches
<1>2. \A n \in 0 .. m - 1 : w[((Len(t) % m) + n) % m] = t[Len(t) - m + n + 1]
  BY RingRead
<1>3. ASSUME \A n \in 0 .. m - 1 : w[((Len(t) % m) + n) % m] = pattern[n + 1]
      PROVE  PrefixEnds(m, t)
  <2> SUFFICES ASSUME NEW x \in 1 .. m PROVE pattern[x] = t[Len(t) - m + x]
    BY <1>0 DEF PrefixEnds
  <2>1. x - 1 \in 0 .. m - 1 /\ (x - 1) + 1 = x /\ Len(t) - m + (x - 1) + 1 = Len(t) - m + x
    BY <1>0
  <2>2. QED
    BY <1>2, <1>3, <2>1
<1>4. ASSUME PrefixEnds(m, t), NEW n \in 0 .. m - 1
      PROVE  w[((Len(t) % m) + n) % m] = pattern[n + 1]
  <2>1. n + 1 \in 1 .. m /\ Len(t) - m + (n + 1) = Len(t) - m + n + 1
    BY <1>0
  <2>2. pattern[n + 1] = t[Len(t) - m + n + 1]
    BY <1>4, <2>1 DEF PrefixEnds
  <2>3. QED
    BY <1>2, <2>2
<1>5. QED
  BY <1>1, <1>3, <1>4

LEMMA LastIsPattern ==
    ASSUME pattern \in Seq(Byte), m > 0, NEW t \in Seq(Byte), PrefixEnds(m, t)
    PROVE  LastOf(t) = pattern
<1>0. m \in Int /\ Len(t) \in Int /\ m <= Len(t) /\ m = Len(pattern)
  BY RkPattern DEF PrefixEnds
<1>1. (IF Len(t) < m THEN 0 ELSE Len(t) - m) = Len(t) - m
  BY <1>0
<1>2. LastOf(t) = SubSeq(t, Len(t) - m + 1, Len(t))
  BY <1>1 DEF LastOf
<1> DEFINE s == SubSeq(t, Len(t) - m + 1, Len(t))
<1>3. s \in Seq(Byte) /\ Len(s) = m /\ \A x \in 1 .. m : s[x] = t[Len(t) - m + x]
  BY <1>0
<1> HIDE DEF s
<1>4. \A x \in 1 .. m : s[x] = pattern[x]
  BY <1>3 DEF PrefixEnds
<1>5. s = pattern
  BY <1>0, <1>3, <1>4, SeqEqual
<1>6. QED
  BY <1>2, <1>5 DEF s

\* Equal hashes, verified: equal windows have equal hashes, and others that do
\* are told apart by their bytes.
LEMMA AnswerIs ==
    ASSUME pattern \in Seq(Byte), m > 0, NEW t \in Seq(Byte), Len(t) >= m,
           RingOf(window', t), write_pos' = Len(t) % m, hash' = Rk!HashOf(LastOf(t))
    PROVE  Rk!Answer(Len(t) - m) = Ends(t)
<1>1. Rk!window_matches(window', write_pos') <=> PrefixEnds(m, t)
  BY WindowMatches
<1>2. PrefixEnds(m, t) => hash' = Rk!pattern_hash
  BY LastIsPattern, RkPattern
<1>3. QED
  BY <1>1, <1>2 DEF Rk!Answer, Ends

-----------------------------------------------------------------------------
(* The invariant of the Rabin-Karp stream *)

RkIInv ==
    /\ Rk!TypeOK
    /\ rkFed \in Seq(Byte) /\ rkAnswers \in Seq(SUBSET (Nat \X {0}))
    /\ m > 0 => /\ write_pos = Len(rkFed) % m
                /\ RingOf(window, rkFed)
                /\ hash = Rk!HashOf(LastOf(rkFed))
    /\ \A n \in 1 .. Len(rkFed) : rkAnswers[n] = Ends(SubSeq(rkFed, 1, n))
    /\ rkEmpties = IF rkInitial \/ m # 0 THEN {} ELSE {<<0, 0>>}

LEMMA RkInit == Rk!Init => RkIInv
<1> SUFFICES ASSUME Rk!Init PROVE RkIInv
  OBVIOUS
<1> USE DEF Rk!Init
<1>1. pattern \in Patterns /\ pattern \in Seq(Byte) /\ m = Len(pattern) /\ m \in Nat /\ Rk!m = m
  BY HashNumbers, RkPattern
<1>2. rkFed = << >> /\ rkAnswers = << >> /\ Len(rkFed) = 0 /\ Len(rkAnswers) = 0
  OBVIOUS
<1>3. Rk!TypeOK
  <2>1. hash \in 0 .. Modulus - 1 /\ window \in [0 .. m - 1 -> Byte]
    BY <1>1, HashNumbers
  <2>2. m # 0 => 0 \in 0 .. m - 1
    BY <1>1
  <2>3. 0 \in 0 .. MaxFed
    BY SearchAssumption DEF Rk!RabinKarpAssumption
  <2>4. QED
    BY <1>1, <1>2, <2>1, <2>2, <2>3 DEF Rk!TypeOK
<1>4. rkFed \in Seq(Byte) /\ rkAnswers \in Seq(SUBSET (Nat \X {0}))
  BY <1>2
<1>5. ASSUME m > 0
      PROVE  write_pos = Len(rkFed) % m /\ RingOf(window, rkFed) /\ hash = Rk!HashOf(LastOf(rkFed))
  <2>1. 0 % m = 0
    BY <1>1, <1>5
  <2>2. RingOf(window, rkFed)
    BY <1>2 DEF RingOf
  <2>3. LastOf(rkFed) = << >>
    BY <1>1, <1>2, <1>4, <1>5, LastWhileFilling, SMTT(30)
  <2>4. QED
    BY <1>2, <2>1, <2>2, <2>3, HashOfEmpty
<1>6. \A n \in 1 .. Len(rkFed) : rkAnswers[n] = Ends(SubSeq(rkFed, 1, n))
  BY <1>2
<1>7. QED
  BY <1>3, <1>4, <1>5, <1>6 DEF RkIInv

\* What one more answer keeps.
LEMMA AnswerKept ==
    ASSUME RkIInv, NEW b \in Byte, Rk!Fed(b), NEW answer,
           rkAnswers' = Append(rkAnswers, answer), answer = Ends(Append(rkFed, b))
    PROVE  /\ rkFed' \in Seq(Byte) /\ rkAnswers' \in Seq(SUBSET (Nat \X {0}))
           /\ Len(rkFed') = Len(rkFed) + 1 /\ Len(rkAnswers') = Len(rkFed')
           /\ \A n \in 1 .. Len(rkFed') : rkAnswers'[n] = Ends(SubSeq(rkFed', 1, n))
           /\ rkBytesFed' \in 0 .. MaxFed /\ rkBytesFed' = Len(rkFed')
<1> DEFINE L == Len(rkFed)
           s == Append(rkFed, b)
<1>1. rkFed \in Seq(Byte) /\ rkAnswers \in Seq(SUBSET (Nat \X {0})) /\ Len(rkAnswers) = L
      /\ L \in Nat /\ rkBytesFed = L /\ rkBytesFed \in 0 .. MaxFed
  BY DEF RkIInv, Rk!TypeOK
<1>2. rkFed' = s /\ rkBytesFed < MaxFed /\ rkBytesFed' = rkBytesFed + 1
  BY DEF Rk!Fed
<1>3. s \in Seq(Byte) /\ Len(s) = L + 1 /\ SubSeq(s, 1, L + 1) = s
      /\ \A n \in 1 .. L : SubSeq(s, 1, n) = SubSeq(rkFed, 1, n)
  <2>1. s \in Seq(Byte) /\ Len(s) = L + 1
    BY <1>1
  <2>2. SubSeq(s, 1, L + 1) = s
    BY <1>1
  <2>3. ASSUME NEW n \in 1 .. L PROVE SubSeq(s, 1, n) = SubSeq(rkFed, 1, n)
    BY <1>1
  <2>4. QED
    BY <2>1, <2>2, <2>3
<1>4. Ends(s) \in SUBSET (Nat \X {0})
  <2>1. pattern \in Seq(Byte) /\ m \in Nat
    BY HashNumbers, RkPattern DEF RkIInv, Rk!TypeOK
  <2>2. m > 0 /\ PrefixEnds(m, s) => Len(s) - m \in Nat
    BY <1>3, <2>1 DEF PrefixEnds
  <2>3. QED
    BY <2>2 DEF Ends
<1>5. rkAnswers' \in Seq(SUBSET (Nat \X {0})) /\ Len(rkAnswers') = L + 1
      /\ rkAnswers'[L + 1] = Ends(s) /\ \A n \in 1 .. L : rkAnswers'[n] = rkAnswers[n]
  BY <1>1, <1>4
<1>6. ASSUME NEW n \in 1 .. L + 1 PROVE rkAnswers'[n] = Ends(SubSeq(s, 1, n))
  <2>1. CASE n = L + 1
    BY <1>3, <1>5, <2>1
  <2>2. CASE n # L + 1
    <3>1. n \in 1 .. L
      BY <1>1, <2>2
    <3>2. rkAnswers[n] = Ends(SubSeq(rkFed, 1, n))
      BY <3>1 DEF RkIInv
    <3>3. QED
      BY <1>3, <1>5, <3>1, <3>2
  <2>3. QED
    BY <2>1, <2>2
<1> HIDE DEF s, L
<1>7. rkBytesFed' \in 0 .. MaxFed
  BY <1>1, <1>2, KmpAssumption
<1>8. rkFed' \in Seq(Byte) /\ Len(rkFed') = L + 1 /\ rkBytesFed' = L + 1
  BY <1>1, <1>2, <1>3
<1>9. \A n \in 1 .. Len(rkFed') : rkAnswers'[n] = Ends(SubSeq(rkFed', 1, n))
  BY <1>2, <1>6, <1>8
<1>10. QED
  BY <1>5, <1>7, <1>8, <1>9 DEF L

LEMMA RkFeedEmpty ==
    ASSUME RkIInv, NEW b \in Byte, Rk!FeedEmpty(b)
    PROVE  RkIInv'
<1>1. m = 0 /\ Rk!m = 0 /\ Rk!Fed(b) /\ rkAnswers' = Append(rkAnswers, {})
      /\ hash' = hash /\ window' = window /\ write_pos' = write_pos
  BY RkPattern DEF Rk!FeedEmpty
<1>2. pattern' = pattern /\ m' = m /\ (Rk!m)' = Rk!m /\ rkInitial' = rkInitial /\ rkEmpties' = rkEmpties
  BY <1>1 DEF Rk!Fed, m, Rk!m
<1>3. {} = Ends(Append(rkFed, b))
  BY <1>1 DEF Ends
<1>4. /\ rkFed' \in Seq(Byte) /\ rkAnswers' \in Seq(SUBSET (Nat \X {0}))
      /\ Len(rkFed') = Len(rkFed) + 1 /\ Len(rkAnswers') = Len(rkFed')
      /\ \A n \in 1 .. Len(rkFed') : rkAnswers'[n] = Ends(SubSeq(rkFed', 1, n))
      /\ rkBytesFed' \in 0 .. MaxFed /\ rkBytesFed' = Len(rkFed')
  BY <1>1, <1>3, AnswerKept
<1>5. \A n \in 1 .. Len(rkFed') : rkAnswers'[n] = (Ends(SubSeq(rkFed, 1, n)))'
  BY <1>2, <1>4 DEF Ends, PrefixEnds
<1>6. (Rk!TypeOK)'
  BY <1>1, <1>2, <1>4 DEF RkIInv, Rk!TypeOK
<1>7. QED
  BY <1>1, <1>2, <1>4, <1>5, <1>6 DEF RkIInv

\* What Fill and Roll have in common, once the hash is right.
LEMMA RkFeedKept ==
    ASSUME RkIInv, m > 0, NEW b \in Byte, Rk!Fed(b), Rk!WriteByte(b),
           hash' = Rk!HashOf(LastOf(Append(rkFed, b))),
           rkAnswers' = Append(rkAnswers, IF Len(rkFed) + 1 >= m
                                          THEN Rk!Answer(Len(rkFed) + 1 - m) ELSE {})
    PROVE  RkIInv'
<1> DEFINE s == Append(rkFed, b)
<1>0. pattern \in Seq(Byte) /\ m \in Nat /\ m \in Int /\ Rk!m = m /\ rkFed \in Seq(Byte)
      /\ window \in [0 .. m - 1 -> Byte]
      /\ write_pos = Len(rkFed) % m /\ RingOf(window, rkFed)
  BY HashNumbers, RkPattern, SMTT(30) DEF RkIInv, Rk!TypeOK
<1>1. s \in Seq(Byte) /\ Len(s) = Len(rkFed) + 1 /\ rkFed' = s /\ Len(rkFed) \in Int
  BY <1>0 DEF Rk!Fed
<1>2. pattern' = pattern /\ m' = m /\ (Rk!m)' = Rk!m /\ rkInitial' = rkInitial /\ rkEmpties' = rkEmpties
  BY DEF Rk!Fed, m, Rk!m
<1>3. window' = [window EXCEPT ![Len(rkFed) % m] = b]
  BY <1>0 DEF Rk!WriteByte
<1>4. window' \in [0 .. m - 1 -> Byte] /\ RingOf(window', s)
  BY <1>0, <1>3, RingWrite
<1>5. write_pos' = Len(s) % m /\ write_pos' \in 0 .. m - 1
  <2>1. write_pos' = ((Len(rkFed) % m) + 1) % m
    BY <1>0 DEF Rk!WriteByte
  <2> DEFINE L == Len(rkFed)
  <2>2. ((L % m) + 1) % m = (L + 1) % m /\ (L + 1) % m \in 0 .. m - 1
    <3> DEFINE one == 1
    <3>1. one \in Int /\ L \in Int /\ L + one \in Int
      BY <1>1
    <3> HIDE DEF L, one
    <3>2. ((L % m) + one) % m = (L + one) % m
      BY <1>0, <3>1, ModAdd
    <3>3. (L + one) % m \in 0 .. m - 1
      BY <1>0, <3>1, Division
    <3>4. QED
      BY <3>2, <3>3 DEF one
  <2>3. QED
    BY <1>1, <2>1, <2>2
<1> HIDE DEF s
<1>6. (IF Len(rkFed) + 1 >= m THEN Rk!Answer(Len(rkFed) + 1 - m) ELSE {}) = Ends(s)
  <2>1. CASE Len(s) >= m
    <3>1. Rk!Answer(Len(s) - m) = Ends(s)
      BY <1>0, <1>1, <1>4, <1>5, <2>1, AnswerIs DEF s
    <3>2. QED
      <4> DEFINE p == Len(s) - m
                 q == Len(rkFed) + 1 - m
      <4>1. p = q /\ Len(rkFed) + 1 >= m
        BY <1>0, <1>1, <2>1
      <4>2. Rk!Answer(p) = Ends(s)
        BY <3>1
      <4> HIDE DEF p, q
      <4>3. Rk!Answer(q) = Ends(s)
        BY <4>1, <4>2 DEF Rk!Answer
      <4>4. QED
        BY <4>1, <4>3 DEF q
  <2>2. CASE ~(Len(s) >= m)
    <3>1. ~(m <= Len(s))
      BY <2>2
    <3>2. Ends(s) = {}
      BY <3>1 DEF Ends, PrefixEnds
    <3>3. QED
      BY <1>1, <2>2, <3>2
  <2>3. QED
    BY <2>1, <2>2
<1>7. /\ rkFed' \in Seq(Byte) /\ rkAnswers' \in Seq(SUBSET (Nat \X {0}))
      /\ Len(rkFed') = Len(rkFed) + 1 /\ Len(rkAnswers') = Len(rkFed')
      /\ \A n \in 1 .. Len(rkFed') : rkAnswers'[n] = Ends(SubSeq(rkFed', 1, n))
      /\ rkBytesFed' \in 0 .. MaxFed /\ rkBytesFed' = Len(rkFed')
  BY <1>6, AnswerKept DEF s
<1>8. \A n \in 1 .. Len(rkFed') : rkAnswers'[n] = (Ends(SubSeq(rkFed, 1, n)))'
  BY <1>2, <1>7 DEF Ends, PrefixEnds
<1>9. (RingOf(window, rkFed))' /\ (LastOf(rkFed))' = LastOf(s)
  BY <1>1, <1>2, <1>4 DEF RingOf, LastOf
<1>10. hash' \in 0 .. Modulus - 1
  <2>1. LastOf(s) \in Seq(Byte)
    BY <1>0, <1>1, SMTT(30) DEF LastOf
  <2>2. QED
    BY <2>1, HashIsResidue DEF Residue, s
<1>11. (Rk!TypeOK)'
  <2>1. m # 0 /\ pattern' \in Patterns /\ rkInitial' \in BOOLEAN
    BY <1>0, <1>2 DEF RkIInv, Rk!TypeOK
  <2>2. QED
    BY <1>0, <1>2, <1>4, <1>5, <1>7, <1>10, <2>1 DEF Rk!TypeOK
<1>12. write_pos' = Len(rkFed') % m' /\ hash' = (Rk!HashOf(LastOf(rkFed)))'
  <2>1. hash' = Rk!HashOf(LastOf(s))
    BY DEF s
  <2>2. (Rk!HashOf(LastOf(rkFed)))' = Rk!HashOf((LastOf(rkFed))')
    BY DEF Rk!HashOf, Rk!Absorb, Rk!reduce_mod, Rk!mul_mod
  <2>3. QED
    BY <1>1, <1>2, <1>5, <1>9, <2>1, <2>2
<1>13. rkEmpties' = IF rkInitial' \/ m' # 0 THEN {} ELSE {<<0, 0>>}
  BY <1>2 DEF RkIInv
<1>14. QED
  BY <1>7, <1>8, <1>9, <1>11, <1>12, <1>13 DEF RkIInv

LEMMA RkFill ==
    ASSUME RkIInv, NEW b \in Byte, Rk!Fed(b), Rk!Fill(b)
    PROVE  RkIInv'
<1>0. pattern \in Seq(Byte) /\ m \in Nat /\ Rk!m = m /\ rkFed \in Seq(Byte) /\ Len(rkFed) \in Nat
      /\ rkBytesFed = Len(rkFed)
  BY HashNumbers, RkPattern DEF RkIInv, Rk!TypeOK
<1>1. m > 0 /\ rkBytesFed' = Len(rkFed) + 1 /\ Len(rkFed) + 1 <= m
  BY <1>0 DEF Rk!Fill, Rk!Fed
<1>2. hash' = Rk!HashOf(LastOf(Append(rkFed, b)))
  <2>1. LastOf(rkFed) = rkFed
    BY <1>0, <1>1, LastWhileFilling
  <2>2. LastOf(Append(rkFed, b)) = Append(rkFed, b)
    <3> DEFINE s == Append(rkFed, b)
    <3>1. s \in Seq(Byte) /\ Len(s) <= m
      BY <1>0, <1>1
    <3> HIDE DEF s
    <3>2. LastOf(s) = s
      BY <1>0, <3>1, LastWhileFilling
    <3>3. QED
      BY <3>2 DEF s
  <2>3. hash = Rk!HashOf(rkFed)
    BY <1>1, <2>1 DEF RkIInv
  <2>4. hash' = Rk!Absorb(hash, b)
    BY DEF Rk!Fill
  <2>5. QED
    BY <1>0, <2>2, <2>3, <2>4, HashOfAppend
<1>3. rkAnswers' = Append(rkAnswers, IF Len(rkFed) + 1 >= m
                                     THEN Rk!Answer(Len(rkFed) + 1 - m) ELSE {})
  <2>1. rkAnswers' = Append(rkAnswers, IF rkBytesFed' = m THEN Rk!Answer(0) ELSE {})
    BY <1>0 DEF Rk!Fill
  <2>2. CASE Len(rkFed) + 1 = m
    <3>1. Len(rkFed) + 1 - m = 0
      BY <1>0, <2>2
    <3>2. QED
      BY <1>0, <1>1, <2>1, <2>2, <3>1
  <2>3. CASE Len(rkFed) + 1 # m
    <3>1. ~(Len(rkFed) + 1 >= m) /\ rkBytesFed' # m
      BY <1>0, <1>1, <2>3
    <3>2. QED
      BY <2>1, <3>1
  <2>4. QED
    BY <2>2, <2>3
<1>4. Rk!WriteByte(b)
  BY DEF Rk!Fill
<1>5. QED
  BY <1>1, <1>2, <1>3, <1>4, RkFeedKept

LEMMA RkRoll ==
    ASSUME RkIInv, NEW b \in Byte, Rk!Fed(b), Rk!Roll(b)
    PROVE  RkIInv'
<1>0. pattern \in Seq(Byte) /\ m \in Nat /\ m \in Int /\ Rk!m = m /\ rkFed \in Seq(Byte)
      /\ Len(rkFed) \in Nat /\ rkBytesFed = Len(rkFed)
  BY HashNumbers, RkPattern DEF RkIInv, Rk!TypeOK
<1>1. m > 0 /\ rkBytesFed' = Len(rkFed) + 1 /\ Len(rkFed) >= m
  BY <1>0 DEF Rk!Roll, Rk!Fed
<1>2. hash' = Rk!HashOf(LastOf(Append(rkFed, b)))
  <2> DEFINE a == rkFed[Len(rkFed) - m + 1]
             s == SubSeq(rkFed, Len(rkFed) - m + 2, Len(rkFed))
  <2>1. /\ a \in Byte /\ s \in Seq(Byte) /\ Len(pattern) = Len(s) + 1
        /\ LastOf(rkFed) = <<a>> \o s
        /\ LastOf(Append(rkFed, b)) = Append(s, b)
    BY <1>0, <1>1, LastWhileRolling
  <2>2. window[write_pos] = a
    <3> DEFINE n == 0
               L == Len(rkFed)
    <3>1. n \in 0 .. m - 1
      BY <1>0, <1>1
    <3>2. write_pos = L % m /\ RingOf(window, rkFed)
      BY <1>1 DEF RkIInv
    <3>3. window[((L % m) + n) % m] = rkFed[L - m + n + 1]
      <4> HIDE DEF n
      <4>1. QED
        BY <1>0, <1>1, <3>1, <3>2, RingRead
    <3>4. L % m \in 0 .. m - 1 /\ L \in Int
      BY <1>0, <1>1
    <3> HIDE DEF L
    <3>5. ((L % m) + n) % m = L % m
      <4>1. (L % m) + n = L % m
        BY <3>4
      <4>2. (L % m) % m = L % m
        BY <1>0, <1>1, <3>4, ModMod
      <4>3. QED
        BY <4>1, <4>2
    <3>6. L - m + n + 1 = L - m + 1
      BY <1>0, <3>4
    <3>7. QED
      BY <3>2, <3>3, <3>5, <3>6 DEF L
  <2>3. hash = Rk!HashOf(<<a>> \o s)
    BY <1>1, <2>1 DEF RkIInv
  <2>4. hash' = Rk!Absorb(Rk!Without(hash, window[write_pos]), b)
    BY DEF Rk!Roll
  <2> HIDE DEF a, s
  <2>5. hash' = Rk!HashOf(Append(s, b))
    BY <1>0, <2>1, <2>2, <2>3, <2>4, RollIsHash
  <2>6. QED
    BY <2>1, <2>5
<1>3. rkAnswers' = Append(rkAnswers, IF Len(rkFed) + 1 >= m
                                     THEN Rk!Answer(Len(rkFed) + 1 - m) ELSE {})
  <2>1. rkAnswers' = Append(rkAnswers, Rk!Answer(rkBytesFed' - m))
    BY <1>0 DEF Rk!Roll
  <2>2. Len(rkFed) + 1 >= m
    BY <1>0, <1>1
  <2>3. QED
    <3> DEFINE p == rkBytesFed' - m
               q == Len(rkFed) + 1 - m
    <3>1. p = q
      BY <1>0, <1>1
    <3> HIDE DEF p, q
    <3>2. Rk!Answer(p) = Rk!Answer(q)
      BY <3>1 DEF Rk!Answer
    <3>3. rkAnswers' = Append(rkAnswers, Rk!Answer(q))
      BY <2>1, <3>2 DEF p
    <3>4. QED
      BY <2>2, <3>3 DEF q
<1>4. Rk!WriteByte(b)
  BY DEF Rk!Roll
<1>5. QED
  BY <1>1, <1>2, <1>3, <1>4, RkFeedKept

LEMMA RkFeedSlice ==
    ASSUME RkIInv, Rk!FeedSlice
    PROVE  RkIInv'
<1>1. pattern' = pattern /\ m' = m /\ (Rk!m)' = Rk!m /\ Rk!m = m /\ rkFed' = rkFed
      /\ rkAnswers' = rkAnswers /\ hash' = hash /\ window' = window /\ write_pos' = write_pos
      /\ rkBytesFed' = rkBytesFed /\ rkInitial' = FALSE
  BY RkPattern DEF Rk!FeedSlice, m, Rk!m
<1>2. (Rk!TypeOK)'
  BY <1>1 DEF RkIInv, Rk!TypeOK
<1>3. (RingOf(window, rkFed))' <=> RingOf(window, rkFed)
  BY <1>1 DEF RingOf
<1>4. (Rk!HashOf(LastOf(rkFed)))' = Rk!HashOf(LastOf(rkFed))
  BY <1>1 DEF Rk!HashOf, Rk!Absorb, Rk!reduce_mod, Rk!mul_mod, LastOf
<1>5. \A n \in 1 .. Len(rkFed) : (Ends(SubSeq(rkFed, 1, n)))' = Ends(SubSeq(rkFed, 1, n))
  BY <1>1 DEF Ends, PrefixEnds
<1>6. rkEmpties' = IF rkInitial' \/ m' # 0 THEN {} ELSE {<<0, 0>>}
  BY <1>1 DEF RkIInv, Rk!FeedSlice
<1>7. QED
  BY <1>1, <1>2, <1>3, <1>4, <1>5, <1>6 DEF RkIInv

LEMMA RkStutter ==
    ASSUME RkIInv, UNCHANGED Rk!vars
    PROVE  RkIInv'
<1>1. pattern' = pattern /\ m' = m /\ (Rk!m)' = Rk!m /\ rkFed' = rkFed
      /\ rkAnswers' = rkAnswers /\ hash' = hash /\ window' = window /\ write_pos' = write_pos
      /\ rkBytesFed' = rkBytesFed /\ rkInitial' = rkInitial /\ rkEmpties' = rkEmpties
  BY DEF Rk!vars, m, Rk!m
<1>2. (Rk!TypeOK)'
  BY <1>1 DEF RkIInv, Rk!TypeOK
<1>3. (RingOf(window, rkFed))' <=> RingOf(window, rkFed)
  BY <1>1 DEF RingOf
<1>4. (Rk!HashOf(LastOf(rkFed)))' = Rk!HashOf(LastOf(rkFed))
  BY <1>1 DEF Rk!HashOf, Rk!Absorb, Rk!reduce_mod, Rk!mul_mod, LastOf
<1>5. \A n \in 1 .. Len(rkFed) : (Ends(SubSeq(rkFed, 1, n)))' = Ends(SubSeq(rkFed, 1, n))
  BY <1>1 DEF Ends, PrefixEnds
<1>6. QED
  BY <1>1, <1>2, <1>3, <1>4, <1>5 DEF RkIInv

LEMMA RkFeed ==
    ASSUME RkIInv, NEW b \in Byte, Rk!Feed(b)
    PROVE  RkIInv'
BY RkFeedEmpty, RkFill, RkRoll DEF Rk!Feed

\* The invariant of every Rabin-Karp stream, whoever drives it.
THEOREM RkInvariance == Rk!Spec => []RkIInv
<1>1. Rk!Init => RkIInv
  BY RkInit
<1>2. ASSUME RkIInv, [Rk!Next]_Rk!vars PROVE RkIInv'
  BY <1>2, RkFeedSlice, RkFeed, RkStutter DEF Rk!Next
<1>3. QED
  BY <1>1, <1>2, PTL DEF Rk!Spec

\* The invariant is what the run checks, and more.
LEMMA RkInvariantSays == RkIInv => Rk!WindowIsLastBytes
<1> SUFFICES ASSUME RkIInv PROVE Rk!WindowIsLastBytes
  OBVIOUS
<1>0. pattern \in Seq(Byte) /\ m \in Nat /\ m \in Int /\ Rk!m = m /\ rkFed \in Seq(Byte)
      /\ Len(rkFed) \in Nat
  BY HashNumbers, RkPattern DEF RkIInv, Rk!TypeOK
<1>1. ASSUME m > 0
      PROVE  hash = Rk!HashOf(Rk!LastFed(IF Len(rkFed) < m THEN Len(rkFed) ELSE m))
  <2> DEFINE z == IF Len(rkFed) < m THEN Len(rkFed) ELSE m
             o == IF Len(rkFed) < m THEN 0 ELSE Len(rkFed) - m
  <2>1. Len(rkFed) - z + 1 = o + 1
    BY <1>0
  <2>2. Rk!LastFed(z) = LastOf(rkFed)
    BY <2>1 DEF Rk!LastFed, LastOf
  <2>3. hash = Rk!HashOf(LastOf(rkFed))
    BY <1>1 DEF RkIInv
  <2>4. QED
    BY <2>2, <2>3
<1>2. ASSUME m > 0, Len(rkFed) >= m, NEW n \in 0 .. m - 1
      PROVE  window[(write_pos + n) % m] = Rk!LastFed(m)[n + 1]
  <2>1. write_pos = Len(rkFed) % m /\ RingOf(window, rkFed)
    BY <1>2 DEF RkIInv
  <2>2. window[(write_pos + n) % m] = rkFed[Len(rkFed) - m + n + 1]
    BY <1>0, <1>2, <2>1, RingRead
  <2>3. Rk!LastFed(m)[n + 1] = rkFed[Len(rkFed) - m + n + 1]
    <3>1. Rk!LastFed(m) = SubSeq(rkFed, Len(rkFed) - m + 1, Len(rkFed))
      BY DEF Rk!LastFed
    <3>2. n + 1 \in 1 .. m /\ Len(rkFed) - m + 1 + (n + 1) - 1 = Len(rkFed) - m + n + 1
      BY <1>0
    <3>3. QED
      BY <1>0, <1>2, <3>1, <3>2
  <2>4. QED
    BY <2>2, <2>3
<1>3. QED
  BY <1>0, <1>1, <1>2 DEF RkIInv, Rk!WindowIsLastBytes

-----------------------------------------------------------------------------
(* RabinKarpStream implements OccurrenceStream. *)

LEMMA RkEndingOfOne ==
    ASSUME pattern \in Seq(Byte), NEW t \in Seq(Byte)
    PROVE  Rk!Occurrences!EndingAt(<<pattern>>, t) = Ends(t)
<1>1. Rk!Occurrences!EndingAt(<<pattern>>, t) = Occurrences!EndingAt(<<pattern>>, t)
  BY DEF Rk!Occurrences!EndingAt, Occurrences!EndingAt, Rk!Occurrences!Occurs, Occurrences!Occurs,
         Rk!Occurrences!Match, Occurrences!Match
<1>2. QED
  BY <1>1, EndingOfOne DEF Ends

LEMMA RkEmptyOfOne ==
    Rk!Occurrences!EmptyMatches(<<pattern>>) = IF m = 0 THEN {<<0, 0>>} ELSE {}
<1>1. Rk!Occurrences!EmptyMatches(<<pattern>>) = Occurrences!EmptyMatches(<<pattern>>)
  BY DEF Rk!Occurrences!EmptyMatches, Occurrences!EmptyMatches,
         Rk!Occurrences!Match, Occurrences!Match
<1>2. QED
  BY <1>1, EmptyOfOne

\* A feed answers as the abstract stream does.
LEMMA RkFeedRefines ==
    ASSUME RkIInv, RkIInv', NEW b \in Byte, Rk!Feed(b)
    PROVE  Rk!Occurrences!FeedByte(b)
<1>0. pattern \in Seq(Byte) /\ rkFed \in Seq(Byte) /\ Len(rkFed) \in Nat
      /\ rkAnswers \in Seq(SUBSET (Nat \X {0})) /\ Len(rkAnswers) = Len(rkFed)
  BY HashNumbers DEF RkIInv, Rk!TypeOK
<1>1. Rk!Fed(b) /\ \E answer : rkAnswers' = Append(rkAnswers, answer)
  BY DEF Rk!Feed, Rk!FeedEmpty, Rk!Fill, Rk!Roll
<1>2. PICK answer : rkAnswers' = Append(rkAnswers, answer)
  BY <1>1
<1>3. rkFed' = Append(rkFed, b) /\ pattern' = pattern /\ m' = m /\ rkInitial' = rkInitial
      /\ rkEmpties' = rkEmpties
  BY <1>1 DEF Rk!Fed, m
<1>4. Len(rkFed') = Len(rkFed) + 1 /\ SubSeq(rkFed', 1, Len(rkFed) + 1) = rkFed'
  BY <1>0, <1>3
<1>5. rkAnswers'[Len(rkFed) + 1] = answer
  BY <1>0, <1>2
<1>6. \A n \in 1 .. Len(rkFed') : rkAnswers'[n] = Ends(SubSeq(rkFed', 1, n))
  BY <1>3, ZenonT(40) DEF RkIInv, Ends, PrefixEnds
<1>7. answer = Ends(rkFed')
  <2> DEFINE n == Len(rkFed) + 1
  <2>1. n \in 1 .. Len(rkFed') /\ SubSeq(rkFed', 1, n) = rkFed' /\ rkAnswers'[n] = answer
    BY <1>0, <1>4, <1>5
  <2> HIDE DEF n
  <2>2. rkAnswers'[n] = Ends(SubSeq(rkFed', 1, n))
    BY <1>6, <2>1
  <2>3. QED
    BY <2>1, <2>2
<1>8. answer = Rk!Occurrences!EndingAt(<<pattern>>, rkFed')
  <2>1. Append(rkFed, b) \in Seq(Byte)
    BY <1>0
  <2>2. QED
    BY <1>0, <1>3, <1>7, <2>1, RkEndingOfOne
<1>9. QED
  BY <1>2, <1>3, <1>8 DEF Rk!Occurrences!FeedByte

LEMMA RkStepRefines ==
    ASSUME RkIInv, RkIInv', [Rk!Next]_Rk!vars
    PROVE  [Rk!Occurrences!Next]_Rk!Occurrences!vars
<1>1. CASE UNCHANGED Rk!vars
  BY <1>1 DEF Rk!vars, Rk!Occurrences!vars
<1>2. CASE Rk!FeedSlice
  <2>1. CASE rkInitial
    BY <1>2, <2>1, RkEmptyOfOne, RkPattern
    DEF RkIInv, Rk!FeedSlice, Rk!Occurrences!Next, Rk!Occurrences!FirstSlice
  <2>2. CASE ~rkInitial
    BY <1>2, <2>2 DEF RkIInv, Rk!TypeOK, Rk!FeedSlice, Rk!Occurrences!vars
  <2>3. QED
    BY <2>1, <2>2
<1>3. ASSUME NEW b \in Byte, Rk!Feed(b)
      PROVE  Rk!Occurrences!Next
  BY <1>3, RkFeedRefines DEF Rk!Occurrences!Next
<1>4. QED
  BY <1>1, <1>2, <1>3 DEF Rk!Next

\* One feed is one byte answered, with exactly the occurrences that end at it:
\* no collision shows, and no window is lost when the ring turns.
THEOREM RkRefinement == Rk!Spec => Rk!ImplementsOccurrences
<1>1. Rk!Init => Rk!Occurrences!Init
  <2> SUFFICES ASSUME Rk!Init PROVE Rk!Occurrences!Init
    OBVIOUS
  <2>1. <<pattern>> \in Seq(Seq(Byte))
    BY HashNumbers DEF Rk!Init
  <2>2. QED
    BY <2>1 DEF Rk!Init, Rk!Occurrences!Init
<1>2. RkIInv /\ RkIInv' /\ [Rk!Next]_Rk!vars => [Rk!Occurrences!Next]_Rk!Occurrences!vars
  BY RkStepRefines
<1>3. QED
  BY <1>1, <1>2, RkInvariance, PTL
  DEF Rk!Spec, Rk!ImplementsOccurrences, Rk!Occurrences!Spec

-----------------------------------------------------------------------------
(* find_all of rabin_karp.rs: the hash rolls over the haystack itself. *)

Window(t, n) == SubSeq(t, n + 1, n + m)

\* One roll over the haystack.
LEMMA WindowRolls ==
    ASSUME pattern \in Seq(Byte), m > 0, NEW t \in Seq(Byte), NEW n \in Nat,
           n # 0, n + m <= Len(t)
    PROVE  Rk!Absorb(Rk!Without(Rk!HashOf(Window(t, n - 1)), t[n]), t[n + m])
             = Rk!HashOf(Window(t, n))
<1> DEFINE u == SubSeq(t, 1, n + m - 1)
           b == t[n + m]
<1>0. m \in Nat /\ m \in Int /\ Len(t) \in Nat
  BY RkPattern
<1>1. u \in Seq(Byte) /\ Len(u) = n + m - 1 /\ b \in Byte /\ Len(u) >= m
      /\ \A x \in 1 .. n + m - 1 : u[x] = t[x]
  BY <1>0
<1> DEFINE a == u[Len(u) - m + 1]
           s == SubSeq(u, Len(u) - m + 2, Len(u))
<1>2. /\ a \in Byte /\ s \in Seq(Byte) /\ Len(pattern) = Len(s) + 1
      /\ LastOf(u) = <<a>> \o s
      /\ LastOf(Append(u, b)) = Append(s, b)
  <2> HIDE DEF u, b
  <2>1. QED
    BY <1>1, LastWhileRolling
<1> HIDE DEF s
<1>3. Rk!Absorb(Rk!Without(Rk!HashOf(LastOf(u)), a), b) = Rk!HashOf(LastOf(Append(u, b)))
  <2> HIDE DEF a, b
  <2>1. QED
    BY <1>1, <1>2, RollIsHash
<1>4. a = t[n]
  <2>1. Len(u) - m + 1 = n /\ n \in 1 .. n + m - 1
    BY <1>0, <1>1
  <2> HIDE DEF u
  <2>2. QED
    BY <1>1, <2>1
<1>5. LastOf(u) = Window(t, n - 1)
  <2>1. (IF Len(u) < m THEN 0 ELSE Len(u) - m) + 1 = (n - 1) + 1 /\ Len(u) = (n - 1) + m
    BY <1>0, <1>1
  <2>2. LastOf(u) = SubSeq(u, (n - 1) + 1, (n - 1) + m)
    BY <2>1 DEF LastOf
  <2> DEFINE v == SubSeq(u, (n - 1) + 1, (n - 1) + m)
             w == SubSeq(t, (n - 1) + 1, (n - 1) + m)
  <2>3. w \in Seq(Byte) /\ Len(w) = m /\ \A x \in 1 .. m : w[x] = t[n - 1 + x]
    BY <1>0
  <2> HIDE DEF u
  <2>4. v \in Seq(Byte) /\ Len(v) = m /\ \A x \in 1 .. m : v[x] = u[n - 1 + x]
    BY <1>0, <1>1
  <2> HIDE DEF v, w
  <2>5. \A x \in 1 .. m : v[x] = w[x]
    <3> SUFFICES ASSUME NEW x \in 1 .. m PROVE v[x] = w[x]
      OBVIOUS
    <3>1. n - 1 + x \in 1 .. n + m - 1
      BY <1>0
    <3>2. QED
      BY <1>1, <2>3, <2>4, <3>1
  <2>6. v = w
    BY <1>0, <2>3, <2>4, <2>5, SeqEqual
  <2>7. QED
    BY <2>2, <2>6 DEF v, w, Window
<1>6. LastOf(Append(u, b)) = Window(t, n)
  <2> DEFINE z == Append(u, b)
  <2>1. z \in Seq(Byte) /\ Len(z) = n + m /\ \A x \in 1 .. n + m : z[x] = t[x]
    <3> HIDE DEF u
    <3>1. z \in Seq(Byte) /\ Len(z) = n + m
      BY <1>0, <1>1
    <3>2. ASSUME NEW x \in 1 .. n + m PROVE z[x] = t[x]
      <4>1. CASE x = n + m
        BY <1>0, <1>1, <4>1
      <4>2. CASE x # n + m
        <5>1. x \in 1 .. n + m - 1
          BY <1>0, <4>2
        <5>2. QED
          BY <1>0, <1>1, <5>1
      <4>3. QED
        BY <4>1, <4>2
    <3>3. QED
      BY <3>1, <3>2
  <2> HIDE DEF z
  <2>2. (IF Len(z) < m THEN 0 ELSE Len(z) - m) + 1 = n + 1
    BY <1>0, <2>1
  <2>3. LastOf(z) = SubSeq(z, n + 1, n + m)
    BY <2>1, <2>2 DEF LastOf
  <2> DEFINE v == SubSeq(z, n + 1, n + m)
             w == SubSeq(t, n + 1, n + m)
  <2>4. w \in Seq(Byte) /\ Len(w) = m /\ \A x \in 1 .. m : w[x] = t[n + x]
    BY <1>0, SMTT(30)
  <2>5. v \in Seq(Byte) /\ Len(v) = m /\ \A x \in 1 .. m : v[x] = z[n + x]
    BY <1>0, <2>1
  <2> HIDE DEF v, w
  <2>6. \A x \in 1 .. m : v[x] = w[x]
    <3> SUFFICES ASSUME NEW x \in 1 .. m PROVE v[x] = w[x]
      OBVIOUS
    <3>1. n + x \in 1 .. n + m
      BY <1>0
    <3>2. QED
      BY <2>1, <2>4, <2>5, <3>1
  <2>7. v = w
    BY <1>0, <2>4, <2>5, <2>6, SeqEqual
  <2>8. QED
    BY <2>3, <2>7 DEF v, w, z, Window
<1>7. QED
  BY <1>3, <1>4, <1>5, <1>6 DEF b

\* The hashes find_all rolls through are those of the windows.
IsRolled(g, t) ==
    g = [n \in Rk!Windows(t) |->
           IF n = 0 THEN Rk!HashOf(SubSeq(t, 1, m))
           ELSE Rk!Absorb(Rk!Without(g[n - 1], t[n]), t[n + m])]

LEMMA RolledAre ==
    ASSUME pattern \in Seq(Byte), m > 0, NEW t \in Seq(Byte)
    PROVE  /\ \E g : IsRolled(g, t)
           /\ \A g : IsRolled(g, t) => \A n \in 0 .. Len(t) - m : g[n] = Rk!HashOf(Window(t, n))
<1>0. m \in Nat /\ m \in Int /\ Len(t) \in Nat /\ Rk!Windows(t) = 0 .. Len(t) - m
  BY RkPattern DEF Rk!Windows
<1> DEFINE f == [n \in 0 .. Len(t) - m |-> Rk!HashOf(Window(t, n))]
           Roll(h, n) == Rk!Absorb(Rk!Without(h, t[n]), t[n + m])
<1>1. Window(t, 0) = SubSeq(t, 1, m)
  <2>1. 0 + 1 = 1 /\ 0 + m = m
    BY <1>0
  <2>2. QED
    BY <2>1 DEF Window
<1>2. ASSUME NEW n \in 0 .. Len(t) - m, n # 0
      PROVE  n \in Nat /\ n - 1 \in 0 .. Len(t) - m /\ Roll(Rk!HashOf(Window(t, n - 1)), n) = Rk!HashOf(Window(t, n))
  <2>1. n \in Nat /\ n + m <= Len(t)
    BY <1>0
  <2>2. Roll(Rk!HashOf(Window(t, n - 1)), n) = Rk!HashOf(Window(t, n))
    BY <1>2, <2>1, WindowRolls
  <2>3. n - 1 \in 0 .. Len(t) - m
    BY <1>0, <1>2
  <2> HIDE DEF Roll
  <2>4. QED
    BY <2>1, <2>2, <2>3
<1> HIDE DEF Roll
<1>3. IsRolled(f, t)
  <2>1. ASSUME NEW n \in 0 .. Len(t) - m
        PROVE  f[n] = IF n = 0 THEN Rk!HashOf(SubSeq(t, 1, m)) ELSE Roll(f[n - 1], n)
    <3>1. CASE n = 0
      BY <1>1, <3>1
    <3>2. CASE n # 0
      <4>1. f[n] = Rk!HashOf(Window(t, n)) /\ f[n - 1] = Rk!HashOf(Window(t, n - 1))
        BY <1>2, <3>2
      <4> HIDE DEF f
      <4>2. QED
        BY <1>2, <3>2, <4>1
    <3>3. QED
      BY <3>1, <3>2
  <2>2. f = [n \in 0 .. Len(t) - m |-> f[n]]
    OBVIOUS
  <2> HIDE DEF f
  <2>3. f = [n \in 0 .. Len(t) - m |-> IF n = 0 THEN Rk!HashOf(SubSeq(t, 1, m)) ELSE Roll(f[n - 1], n)]
    BY <2>1, <2>2
  <2>4. QED
    BY <1>0, <2>3 DEF IsRolled, Roll
<1>4. ASSUME NEW g, IsRolled(g, t)
      PROVE  \A n \in 0 .. Len(t) - m : g[n] = Rk!HashOf(Window(t, n))
  <2> DEFINE T == { n \in Nat : n <= Len(t) - m => g[n] = Rk!HashOf(Window(t, n)) }
  <2>1. \A n \in 0 .. Len(t) - m :
          g[n] = IF n = 0 THEN Rk!HashOf(SubSeq(t, 1, m)) ELSE Roll(g[n - 1], n)
    BY <1>0, <1>4 DEF IsRolled, Roll
  <2>2. 0 \in T
    <3> SUFFICES ASSUME 0 <= Len(t) - m PROVE g[0] = Rk!HashOf(Window(t, 0))
      OBVIOUS
    <3>1. 0 \in 0 .. Len(t) - m
      BY <1>0
    <3>2. QED
      BY <1>1, <2>1, <3>1
  <2>3. ASSUME NEW n \in T PROVE n + 1 \in T
    <3>1. SUFFICES ASSUME n + 1 <= Len(t) - m PROVE g[n + 1] = Rk!HashOf(Window(t, n + 1))
      OBVIOUS
    <3>2. n \in Nat /\ g[n] = Rk!HashOf(Window(t, n))
      BY <1>0, <3>1
    <3> DEFINE z == n + 1
    <3>3. z \in 0 .. Len(t) - m /\ z # 0 /\ z - 1 = n
      BY <1>0, <3>1, <3>2
    <3> HIDE DEF z
    <3>4. g[z] = Roll(g[n], z)
      BY <2>1, <3>3
    <3>5. Roll(Rk!HashOf(Window(t, n)), z) = Rk!HashOf(Window(t, z))
      BY <1>2, <3>3
    <3>6. QED
      BY <3>2, <3>4, <3>5 DEF z
  <2>4. T \subseteq Nat
    OBVIOUS
  <2>5. T = Nat
    <3> HIDE DEF T
    <3>1. QED
      BY <2>2, <2>3, <2>4, NatSetInduction
  <2>6. QED
    BY <1>0, <2>5
<1>5. QED
  BY <1>3, <1>4

LEMMA WindowIsPattern ==
    ASSUME pattern \in Seq(Byte), m > 0, NEW t \in Seq(Byte), NEW n \in 0 .. Len(t) - m
    PROVE  Window(t, n) = pattern <=> EndsAt(t, n + m)
<1>0. m \in Nat /\ m \in Int /\ Len(t) \in Nat /\ m = Len(pattern) /\ n \in Nat /\ n + m <= Len(t)
  BY RkPattern
<1> DEFINE v == Window(t, n)
           u == Upto(t, n + m)
<1>1. v \in Seq(Byte) /\ Len(v) = m /\ \A x \in 1 .. m : v[x] = t[n + x]
  BY <1>0 DEF Window
<1>2. Len(u) = n + m /\ \A x \in 1 .. m : u[n + x] = t[n + x]
  BY <1>0 DEF Upto
<1> HIDE DEF v, u
<1>3. PrefixEnds(m, u) <=> \A x \in 1 .. m : pattern[x] = t[n + x]
  <2>1. m <= Len(u) /\ \A x \in 1 .. m : Len(u) - m + x = n + x
    BY <1>0, <1>2
  <2>2. QED
    BY <1>2, <2>1 DEF PrefixEnds
<1>4. v = pattern <=> \A x \in 1 .. m : v[x] = pattern[x]
  BY <1>0, <1>1, SeqEqual
<1>5. QED
  BY <1>1, <1>3, <1>4 DEF v, u, EndsAt

\* The windows whose hash and whose bytes are the pattern's are the occurrences.
LEMMA RkFindAllIs ==
    ASSUME pattern \in Seq(Byte), m > 0, NEW t \in Seq(Byte)
    PROVE  Rk!FindAll(t) = { n \in 0 .. Len(t) - m : EndsAt(t, n + m) }
<1>0. Rk!m = m /\ Rk!m # 0 /\ m \in Nat
  BY RkPattern
<1> DEFINE G == CHOOSE g : IsRolled(g, t)
<1>1. IsRolled(G, t)
  BY RolledAre, Zenon
<1>2. Rk!FindAll(t) = { n \in Rk!Windows(t) :
                          G[n] = Rk!pattern_hash /\ SubSeq(t, n + 1, n + m) = pattern }
  BY <1>0 DEF Rk!FindAll, IsRolled
<1> HIDE DEF G
<1>3. Rk!Windows(t) = 0 .. Len(t) - m
  BY <1>0 DEF Rk!Windows
<1>4. ASSUME NEW n \in 0 .. Len(t) - m
      PROVE  (G[n] = Rk!pattern_hash /\ SubSeq(t, n + 1, n + m) = pattern) <=> EndsAt(t, n + m)
  <2>1. G[n] = Rk!HashOf(Window(t, n))
    BY <1>1, RolledAre
  <2>2. Window(t, n) = pattern => G[n] = Rk!pattern_hash
    BY <2>1, RkPattern
  <2>3. SubSeq(t, n + 1, n + m) = Window(t, n)
    BY DEF Window
  <2>4. Window(t, n) = pattern <=> EndsAt(t, n + m)
    BY WindowIsPattern
  <2>5. QED
    BY <2>2, <2>3, <2>4
<1>5. QED
  BY <1>2, <1>3, <1>4

\* rabin_karp.rs and stream.rs: the batch search finds what the stream answered.
LEMMA RkBatchIsStream ==
    ASSUME RkIInv
    PROVE  { <<n, 0>> : n \in Rk!FindAll(rkFed) }
             = IF m = 0 THEN {<<0, 0>>} ELSE UNION { rkAnswers[n] : n \in DOMAIN rkAnswers }
<1>0. pattern \in Seq(Byte) /\ m \in Nat /\ Rk!m = m /\ rkFed \in Seq(Byte)
      /\ Len(rkFed) \in Nat /\ DOMAIN rkAnswers = 1 .. Len(rkFed)
  BY HashNumbers, RkPattern DEF RkIInv, Rk!TypeOK
<1>1. CASE m = 0
  <2>1. Rk!FindAll(rkFed) = {0}
    BY <1>0, <1>1 DEF Rk!FindAll
  <2>2. QED
    BY <1>1, <2>1
<1>2. CASE m # 0
  <2> DEFINE Q == { r \in 1 .. Len(rkFed) : EndsAt(rkFed, r) }
  <2>1. m > 0
    BY <1>0, <1>2
  <2>2. ASSUME NEW r \in 1 .. Len(rkFed), EndsAt(rkFed, r)
        PROVE  r - m \in 0 .. Len(rkFed) - m /\ (r - m) + m = r
    <3>1. Len(Upto(rkFed, r)) = r
      BY <1>0 DEF Upto
    <3>2. m <= r
      BY <2>2, <3>1 DEF EndsAt, PrefixEnds
    <3>3. QED
      BY <1>0, <3>2
  <2>3. ASSUME NEW n \in 0 .. Len(rkFed) - m
        PROVE  n + m \in 1 .. Len(rkFed) /\ (n + m) - m = n
    BY <1>0, <2>1
  <2>4. Rk!FindAll(rkFed) = { n \in 0 .. Len(rkFed) - m : EndsAt(rkFed, n + m) }
    BY <1>0, <2>1, RkFindAllIs
  <2>5. { <<n, 0>> : n \in Rk!FindAll(rkFed) } = { <<q - m, 0>> : q \in Q }
    <3>1. ASSUME NEW n \in Rk!FindAll(rkFed) PROVE \E q \in Q : q - m = n
      <4>1. n \in 0 .. Len(rkFed) - m /\ EndsAt(rkFed, n + m)
        BY <2>4
      <4>2. n + m \in Q /\ (n + m) - m = n
        BY <2>3, <4>1
      <4>3. QED
        BY <4>2
    <3>2. ASSUME NEW q \in Q PROVE q - m \in Rk!FindAll(rkFed)
      <4>1. q \in 1 .. Len(rkFed) /\ EndsAt(rkFed, q)
        OBVIOUS
      <4>2. q - m \in 0 .. Len(rkFed) - m /\ EndsAt(rkFed, (q - m) + m)
        BY <2>2, <4>1
      <4>3. QED
        BY <2>4, <4>2
    <3> HIDE DEF Q
    <3>3. QED
      BY <3>1, <3>2
  <2>6. UNION { rkAnswers[n] : n \in DOMAIN rkAnswers } = { <<q - m, 0>> : q \in Q }
    <3>1. ASSUME NEW n \in 1 .. Len(rkFed)
          PROVE  rkAnswers[n] = IF n \in Q THEN {<<n - m, 0>>} ELSE {}
      <4>1. rkAnswers[n] = Ends(SubSeq(rkFed, 1, n))
        BY DEF RkIInv
      <4>2. Len(SubSeq(rkFed, 1, n)) = n
        BY <1>0
      <4>3. n \in Q <=> PrefixEnds(m, SubSeq(rkFed, 1, n))
        BY DEF EndsAt, Upto
      <4> HIDE DEF Q
      <4>4. QED
        BY <2>1, <4>1, <4>2, <4>3 DEF Ends
    <3>2. Q \subseteq 1 .. Len(rkFed)
      OBVIOUS
    <3> HIDE DEF Q
    <3>3. QED
      BY <1>0, <3>1, <3>2
  <2>7. QED
    BY <1>2, <2>5, <2>6
<1>3. QED
  BY <1>1, <1>2

-----------------------------------------------------------------------------
(* The two streams side by side *)

\* The Rabin-Karp stream is behind, by the byte KMP has just answered.
Follows ==
    /\ rkFed \in Seq(Byte) /\ Len(rkFed) <= Len(fed)
    /\ \A n \in 1 .. Len(rkFed) : rkFed[n] = fed[n]
    /\ rkInitial = initial
    /\ empties = IF initial \/ m # 0 THEN {} ELSE {<<0, 0>>}

LEMMA BothRunKmp == BothSpec => Spec
<1>1. BothInit => Init
  BY DEF BothInit
<1>2. [BothNext]_bothVars => [Next]_vars
  BY DEF BothNext, SliceBoth, FeedKmp, KmpStep, FeedRabinKarp, bothVars, Next
<1>3. QED
  BY <1>1, <1>2, PTL DEF BothSpec, Spec

LEMMA PatternKept == [Next]_vars => pattern' = pattern /\ m' = m
BY DEF Next, Build, OnByte, BuildFollow, BuildWrite, BuildDone, FeedSlice, Feed, Follow,
       Miss, Extend, Report, Return, vars, prepared, m

\* KMP's stream only grows, and reports of an empty pattern only at a feed_slice.
LEMMA KmpGrows ==
    ASSUME IInv, [Next]_vars
    PROVE  /\ Len(fed) <= Len(fed') /\ \A n \in 1 .. Len(fed) : fed'[n] = fed[n]
           /\ ~FeedSlice => initial' = initial /\ empties' = empties
<1>0. fed \in Seq(Byte) /\ byte \in Byte
  BY DEF IInv, TypeOK
<1>1. \/ fed' = fed
      \/ \E b \in Byte : fed' = Append(fed, b)
  BY <1>0 DEF Next, Build, OnByte, BuildFollow, BuildWrite, BuildDone, FeedSlice, Feed, Follow,
       Miss, Extend, Report, Return, vars, prepared, history
<1>2. Len(fed) <= Len(fed') /\ \A n \in 1 .. Len(fed) : fed'[n] = fed[n]
  BY <1>0, <1>1
<1>3. ~FeedSlice => initial' = initial /\ empties' = empties
  BY DEF Next, Build, OnByte, BuildFollow, BuildWrite, BuildDone, Feed, Follow,
       Miss, Extend, Report, Return, vars, stream, history
<1>4. QED
  BY <1>2, <1>3

LEMMA FollowsInit == BothInit => Follows
<1> SUFFICES ASSUME BothInit PROVE Follows
  OBVIOUS
<1>1. rkFed = << >> /\ fed = << >> /\ rkInitial = TRUE /\ initial = TRUE /\ empties = {}
  BY DEF BothInit, Init, Rk!Init
<1>2. QED
  BY <1>1 DEF Follows

LEMMA FollowsStep ==
    ASSUME IInv, Follows, [BothNext]_bothVars
    PROVE  Follows'
<1>0. [Next]_vars
  BY DEF BothNext, SliceBoth, FeedKmp, KmpStep, FeedRabinKarp, bothVars, Next
<1>1. m' = m /\ Len(fed) <= Len(fed') /\ \A n \in 1 .. Len(fed) : fed'[n] = fed[n]
  BY <1>0, PatternKept, KmpGrows
<1>2. rkFed \in Seq(Byte) /\ Len(rkFed) \in Nat /\ fed \in Seq(Byte) /\ Len(fed) \in Nat
  BY DEF Follows, IInv, TypeOK
<1>3. CASE FeedRabinKarp
  <2> DEFINE b == fed[Len(rkFed) + 1]
  <2>1. UNCHANGED vars /\ Len(rkFed) < Len(fed) /\ Rk!Feed(b)
    BY <1>3 DEF FeedRabinKarp
  <2>2. fed' = fed /\ initial' = initial /\ empties' = empties
    BY <2>1 DEF vars, stream, history
  <2>3. b \in Byte
    BY <1>2, <2>1
  <2>4. rkFed' = Append(rkFed, b) /\ rkInitial' = rkInitial
    BY <2>1 DEF Rk!Feed, Rk!FeedEmpty, Rk!Fed
  <2>5. rkFed' \in Seq(Byte) /\ Len(rkFed') = Len(rkFed) + 1 /\ rkFed'[Len(rkFed) + 1] = b
        /\ \A n \in 1 .. Len(rkFed) : rkFed'[n] = rkFed[n]
    BY <1>2, <2>3, <2>4
  <2>6. ASSUME NEW n \in 1 .. Len(rkFed') PROVE rkFed'[n] = fed'[n]
    BY <1>2, <2>2, <2>5 DEF Follows
  <2>7. Len(rkFed') <= Len(fed')
    BY <1>2, <2>1, <2>2, <2>5
  <2>8. QED
    BY <1>1, <2>2, <2>4, <2>5, <2>6, <2>7 DEF Follows
<1>4. CASE SliceBoth
  <2>1. FeedSlice /\ Rk!FeedSlice
    BY <1>4 DEF SliceBoth
  <2>2. rkFed' = rkFed /\ fed' = fed /\ rkInitial' = FALSE /\ initial' = FALSE
    BY <2>1 DEF FeedSlice, Rk!FeedSlice
  <2>3. empties' = IF initial' \/ m' # 0 THEN {} ELSE {<<0, 0>>}
    BY <1>1, <2>1, <2>2 DEF FeedSlice, Follows
  <2>4. ASSUME NEW n \in 1 .. Len(rkFed') PROVE rkFed'[n] = fed'[n]
    BY <1>1, <1>2, <2>2 DEF Follows
  <2>5. rkFed' \in Seq(Byte) /\ Len(rkFed') <= Len(fed') /\ rkInitial' = initial'
    BY <1>2, <2>2 DEF Follows
  <2>6. QED
    BY <2>3, <2>4, <2>5 DEF Follows
<1>5. CASE FeedKmp \/ KmpStep \/ UNCHANGED bothVars
  <2>1. rkFed' = rkFed /\ rkInitial' = rkInitial
    BY <1>5 DEF FeedKmp, KmpStep, bothVars, ownVars
  <2>2. initial' = initial /\ empties' = empties
    BY <1>5 DEF FeedKmp, KmpStep, bothVars, vars, stream, history, Feed, Build, OnByte,
                BuildFollow, BuildWrite, BuildDone, Follow, Miss, Extend, Report, Return
  <2>3. ASSUME NEW n \in 1 .. Len(rkFed') PROVE rkFed'[n] = fed'[n]
    BY <1>1, <1>2, <2>1 DEF Follows
  <2>4. QED
    BY <1>1, <1>2, <2>1, <2>2, <2>3 DEF Follows
<1>6. QED
  BY <1>3, <1>4, <1>5 DEF BothNext

LEMMA FollowsInvariance == BothSpec => []Follows
<1>1. IInv /\ Follows /\ [BothNext]_bothVars => Follows'
  BY FollowsStep
<1>2. QED
  BY <1>1, FollowsInit, BothRunKmp, Invariance, PTL DEF BothSpec

LEMMA BothRunRabinKarp == BothSpec => Rk!Spec
<1>1. BothInit => Rk!Init
  BY DEF BothInit
<1>2. ASSUME IInv, Follows, [BothNext]_bothVars PROVE [Rk!Next]_Rk!vars
  <2>1. ASSUME UNCHANGED ownVars, pattern' = pattern PROVE UNCHANGED Rk!vars
    BY <2>1 DEF ownVars, Rk!vars
  <2>2. CASE SliceBoth
    BY <2>2 DEF SliceBoth, Rk!Next
  <2>3. CASE FeedKmp
    <3>1. UNCHANGED ownVars /\ pattern' = pattern
      BY <2>3 DEF FeedKmp, Feed, prepared
    <3>2. QED
      BY <2>1, <3>1
  <2>4. CASE KmpStep
    <3>1. UNCHANGED ownVars /\ pattern' = pattern
      BY <2>4 DEF KmpStep, Build, OnByte, BuildFollow, BuildWrite, BuildDone, Follow,
                  Miss, Extend, Report, Return, prepared
    <3>2. QED
      BY <2>1, <3>1
  <2>5. CASE FeedRabinKarp
    <3>1. fed \in Seq(Byte) /\ Len(rkFed) < Len(fed) /\ Rk!Feed(fed[Len(rkFed) + 1])
      BY <1>2, <2>5 DEF FeedRabinKarp, IInv, TypeOK
    <3>2. fed[Len(rkFed) + 1] \in Byte
      BY <1>2, <3>1 DEF Follows
    <3>3. QED
      BY <3>1, <3>2 DEF Rk!Next
  <2>6. CASE UNCHANGED bothVars
    <3>1. UNCHANGED ownVars /\ pattern' = pattern
      BY <2>6 DEF bothVars, vars, prepared
    <3>2. QED
      BY <2>1, <3>1
  <2>7. QED
    BY <1>2, <2>2, <2>3, <2>4, <2>5, <2>6 DEF BothNext
<1>3. QED
  BY <1>1, <1>2, BothRunKmp, Invariance, FollowsInvariance, PTL DEF BothSpec, Rk!Spec

\* The ring and the rolled hash are those of the last bytes, whoever feeds them.
THEOREM RingCorrect == BothSpec => []RkWindowIsLastBytes
<1>1. RkIInv => RkWindowIsLastBytes
  BY RkInvariantSays DEF RkWindowIsLastBytes
<1>2. QED
  BY <1>1, RkInvariance, BothRunRabinKarp, PTL

\* The hash decides nothing: the Rabin-Karp stream reports the occurrences.
THEOREM RabinKarpRefines == BothSpec => RkImplementsOccurrences
BY RkRefinement, BothRunRabinKarp, PTL DEF RkImplementsOccurrences

LEMMA SameAnswers ==
    ASSUME IInv, AnswersAreEnds, RkIInv, Follows, InStep
    PROVE  rkFed = fed /\ rkAnswers = answers /\ rkEmpties = empties
<1>1. fed \in Seq(Byte) /\ rkFed \in Seq(Byte) /\ Len(rkFed) = Len(fed) /\ Len(fed) \in Nat
  BY DEF Follows, IInv, TypeOK, InStep
<1>2. rkFed = fed
  BY <1>1, SeqEqual DEF Follows
<1>3. /\ answers \in Seq(SUBSET (Nat \X {0})) /\ Len(answers) = Len(fed)
      /\ rkAnswers \in Seq(SUBSET (Nat \X {0})) /\ Len(rkAnswers) = Len(fed)
  BY <1>1 DEF IInv, TypeOK, RkIInv, Rk!TypeOK
<1>4. ASSUME NEW n \in 1 .. Len(fed) PROVE rkAnswers[n] = answers[n]
  <2>1. rkAnswers[n] = Ends(SubSeq(fed, 1, n))
    BY <1>1, <1>2 DEF RkIInv
  <2>2. Len(SubSeq(fed, 1, n)) = n
    BY <1>1
  <2>3. answers[n] = IF m > 0 /\ PrefixEnds(m, SubSeq(fed, 1, n)) THEN {<<n - m, 0>>} ELSE {}
    BY DEF AnswersAreEnds, EndsAt, Upto
  <2>4. QED
    BY <2>1, <2>2, <2>3 DEF Ends
<1>5. rkAnswers = answers
  BY <1>3, <1>4, SeqEqual
<1>6. rkEmpties = empties
  BY DEF RkIInv, Follows
<1>7. QED
  BY <1>2, <1>5, <1>6

\* The star property: for every pattern, every text and every base and modulus
\* that the code's arithmetic admits, both find the same.
THEOREM AlgorithmsCorrect == BothSpec => []AlgorithmsAgree
<1>1. ASSUME IInv, AnswersAreEnds, RkIInv, Follows
      PROVE  AlgorithmsAgree
  <2> DEFINE found == FindAll(fed)
             A == { found[x] : x \in DOMAIN found }
             B == Rk!FindAll(fed)
  <2>1. SUFFICES ASSUME InStep
                 PROVE  A = B /\ rkAnswers = answers /\ rkEmpties = empties
    BY DEF AlgorithmsAgree
  <2>2. rkFed = fed /\ rkAnswers = answers /\ rkEmpties = empties
    BY <1>1, <2>1, SameAnswers
  <2>3. { <<found[x], 0>> : x \in DOMAIN found }
          = IF m = 0 THEN {<<0, 0>>} ELSE UNION { answers[n] : n \in DOMAIN answers }
    BY <1>1, <2>1, BatchIsStream DEF BatchFindsStreamed, InStep
  <2>4. { <<n, 0>> : n \in B }
          = IF m = 0 THEN {<<0, 0>>} ELSE UNION { answers[n] : n \in DOMAIN answers }
    BY <1>1, <2>2, RkBatchIsStream
  <2> HIDE DEF found, B
  <2>5. { <<a, 0>> : a \in A } = { <<n, 0>> : n \in B }
    <3>1. { <<a, 0>> : a \in A } = { <<found[x], 0>> : x \in DOMAIN found }
      OBVIOUS
    <3>2. QED
      BY <2>3, <2>4, <3>1
  <2> HIDE DEF A
  <2>6. ASSUME NEW a PROVE a \in A <=> a \in B
    <3>1. a \in A <=> <<a, 0>> \in { <<x, 0>> : x \in A }
      OBVIOUS
    <3>2. a \in B <=> <<a, 0>> \in { <<x, 0>> : x \in B }
      OBVIOUS
    <3>3. QED
      BY <2>5, <3>1, <3>2
  <2>7. A = B
    BY <2>6
  <2>8. QED
    BY <2>2, <2>7
<1>2. QED
  BY <1>1, Invariance, AnswersInvariant, BothRunKmp, RkInvariance, BothRunRabinKarp,
     FollowsInvariance, PTL
=============================================================================
