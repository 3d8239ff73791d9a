------------------------- MODULE AhoCorasick_proofs -------------------------
(***************************************************************************)
(* The Aho-Corasick automaton is what its documentation says, its stream   *)
(* loses and repeats nothing, and its batch scan finds every occurrence,   *)
(* for every alphabet and every list of patterns.                          *)
(*                                                                         *)
(* The inductive invariant needs what the code does not store: a word W[s] *)
(* for each state s, the bytes on the path from the root.  It says that    *)
(*   - the states spell, each once, the prefixes inserted so far (Spells,  *)
(*     Holds, Cursor);                                                     *)
(*   - a state that no queued state is above has its failure link and its  *)
(*     outputs, the others have only their own (Links);                    *)
(*   - the queue holds states of two neighbouring depths at most, shallow  *)
(*     ones first, none below another (Levels), so that what Link reads of *)
(*     a shallower state is final;                                         *)
(*   - the stream's state is the longest that the bytes end with (Reads),  *)
(*     and each match is in one of reported, out and pending (Reports).    *)
(* The theorems follow the steps that keep the parts they need.            *)
(***************************************************************************)
EXTENDS AhoCorasick, SequenceTheorems, FiniteSetTheorems, Foundations

Word == Seq(Byte)

-----------------------------------------------------------------------------
(* Words and their ends *)

\* v is what t ends with; v is what t begins with.
Ends(v, t)   == Len(v) <= Len(t) /\ \A i \in 1 .. Len(v) : v[i] = t[Len(t) - Len(v) + i]
Begins(v, t) == Len(v) <= Len(t) /\ \A i \in 1 .. Len(v) : v[i] = t[i]

LEMMA WordProperties ==
    ASSUME NEW v \in Word
    PROVE  /\ Len(v) \in Nat /\ DOMAIN v = 1 .. Len(v)
           /\ \A i \in 1 .. Len(v) : v[i] \in Byte
           /\ Len(v) = 0 <=> v = << >>
BY DEF Word

LEMMA AppendWord ==
    ASSUME NEW v \in Word, NEW b \in Byte
    PROVE  /\ Append(v, b) \in Word /\ Len(Append(v, b)) = Len(v) + 1
           /\ Append(v, b)[Len(v) + 1] = b
           /\ \A i \in 1 .. Len(v) : Append(v, b)[i] = v[i]
BY DEF Word

LEMMA EqualWords ==
    ASSUME NEW v \in Word, NEW w \in Word, Len(v) = Len(w), \A i \in 1 .. Len(v) : v[i] = w[i]
    PROVE  v = w
BY SeqEqual DEF Word

LEMMA PrefixWord ==
    ASSUME NEW v \in Word, NEW n \in 0 .. Len(v)
    PROVE  /\ SubSeq(v, 1, n) \in Word /\ Len(SubSeq(v, 1, n)) = n
           /\ \A i \in 1 .. n : SubSeq(v, 1, n)[i] = v[i]
<1>1. Len(v) \in Nat /\ \A i \in 1 .. n : v[i] \in Byte
  BY WordProperties
<1>2. n - 1 + 1 = n /\ \A i \in 1 .. n : 1 + i - 1 = i
  OBVIOUS
<1>3. QED
  BY <1>1, <1>2, SubSeqProperties DEF Word

LEMMA WholePrefix == ASSUME NEW v \in Word PROVE SubSeq(v, 1, Len(v)) = v
<1>1. Len(v) \in 0 .. Len(v)
  BY WordProperties
<1>2. QED
  BY <1>1, PrefixWord, EqualWords

LEMMA PrefixAppended ==
    ASSUME NEW v \in Word, NEW n \in Nat, n < Len(v)
    PROVE  SubSeq(v, 1, n + 1) = Append(SubSeq(v, 1, n), v[n + 1]) /\ v[n + 1] \in Byte
<1>1. n \in 0 .. Len(v) /\ n + 1 \in 0 .. Len(v) /\ n + 1 \in 1 .. Len(v)
  BY WordProperties
<1> DEFINE x == SubSeq(v, 1, n)
           y == SubSeq(v, 1, n + 1)
           b == v[n + 1]
<1>2. x \in Word /\ Len(x) = n /\ \A i \in 1 .. n : x[i] = v[i]
  BY <1>1, PrefixWord
<1>3. y \in Word /\ Len(y) = n + 1 /\ \A i \in 1 .. n + 1 : y[i] = v[i]
  BY <1>1, PrefixWord
<1>4. b \in Byte
  BY <1>1, WordProperties
<1> HIDE DEF x, y
<1>5. /\ Append(x, b) \in Word /\ Len(Append(x, b)) = n + 1
      /\ Append(x, b)[n + 1] = b /\ \A i \in 1 .. n : Append(x, b)[i] = x[i]
  BY <1>2, <1>4, AppendWord
<1>6. \A i \in 1 .. n + 1 : Append(x, b)[i] = y[i]
  BY <1>2, <1>3, <1>5
<1>7. Append(x, b) = y
  BY <1>3, <1>5, <1>6, EqualWords
<1>8. QED
  BY <1>4, <1>7 DEF x, y

LEMMA SuffixIsEnd ==
    ASSUME NEW v \in Word, NEW t \in Word
    PROVE  IsSuffix(v, t) <=> Ends(v, t)
<1> DEFINE m == Len(v)
           n == Len(t)
           x == Reverse(v)
           y == Reverse(t)
<1>1. m \in Nat /\ n \in Nat
  BY WordProperties
<1>2. /\ x \in Word /\ Len(x) = m /\ \A i \in 1 .. m : x[i] = v[m - i + 1]
  BY WordProperties DEF Reverse, Word
<1>3. /\ y \in Word /\ Len(y) = n /\ \A i \in 1 .. n : y[i] = t[n - i + 1]
  BY WordProperties DEF Reverse, Word
<1>4. IsSuffix(v, t) <=> m <= n /\ SubSeq(x, 1, m) = SubSeq(y, 1, m)
  BY <1>2, <1>3 DEF IsSuffix, IsPrefix
<1> HIDE DEF x, y
<1>5. SUFFICES ASSUME m <= n
               PROVE  SubSeq(x, 1, m) = SubSeq(y, 1, m) <=> \A i \in 1 .. m : v[i] = t[n - m + i]
  BY <1>4 DEF Ends
<1>6. m \in 0 .. m /\ m \in 0 .. n
  BY <1>1, <1>5
<1>7. /\ SubSeq(x, 1, m) \in Word /\ Len(SubSeq(x, 1, m)) = m
      /\ \A i \in 1 .. m : SubSeq(x, 1, m)[i] = x[i]
  BY <1>2, <1>6, PrefixWord
<1>8. /\ SubSeq(y, 1, m) \in Word /\ Len(SubSeq(y, 1, m)) = m
      /\ \A i \in 1 .. m : SubSeq(y, 1, m)[i] = y[i]
  BY <1>3, <1>6, PrefixWord
<1>9. SubSeq(x, 1, m) = SubSeq(y, 1, m) <=> \A i \in 1 .. m : x[i] = y[i]
  BY <1>7, <1>8, EqualWords
<1> HIDE DEF m, n
<1>10. ASSUME NEW i \in 1 .. m
       PROVE  m - i + 1 \in 1 .. m /\ i \in 1 .. n /\ n - i + 1 = n - m + (m - i + 1) /\ m - (m - i + 1) + 1 = i
  BY <1>1, <1>5
<1>11. ASSUME \A i \in 1 .. m : x[i] = y[i], NEW i \in 1 .. m
       PROVE  v[i] = t[n - m + i]
  <2> DEFINE j == m - i + 1
  <2>1. j \in 1 .. m /\ m - j + 1 = i /\ j \in 1 .. n /\ n - j + 1 = n - m + i
    BY <1>1, <1>5
  <2>2. x[j] = v[i] /\ y[j] = t[n - m + i]
    BY <1>2, <1>3, <2>1
  <2>3. QED
    BY <1>11, <2>1, <2>2
<1>12. ASSUME \A i \in 1 .. m : v[i] = t[n - m + i], NEW i \in 1 .. m
       PROVE  x[i] = y[i]
  <2>1. x[i] = v[m - i + 1] /\ y[i] = t[n - i + 1] /\ v[m - i + 1] = t[n - m + (m - i + 1)]
    BY <1>2, <1>3, <1>10, <1>12
  <2>2. QED
    BY <1>10, <2>1
<1>13. QED
  BY <1>9, <1>11, <1>12

LEMMA EmptyEnds == ASSUME NEW t \in Word PROVE Ends(<< >>, t) /\ << >> \in Word /\ Len(<< >>) = 0
BY WordProperties DEF Ends, Word

LEMMA SelfEnds == ASSUME NEW t \in Word PROVE Ends(t, t)
BY WordProperties DEF Ends

LEMMA EndsTransitive ==
    ASSUME NEW u \in Word, NEW v \in Word, NEW t \in Word, Ends(u, v), Ends(v, t)
    PROVE  Ends(u, t)
<1>1. Len(u) \in Nat /\ Len(v) \in Nat /\ Len(t) \in Nat /\ Len(u) <= Len(v) /\ Len(v) <= Len(t)
  BY WordProperties DEF Ends
<1>2. ASSUME NEW i \in 1 .. Len(u) PROVE u[i] = t[Len(t) - Len(u) + i]
  <2>1. Len(v) - Len(u) + i \in 1 .. Len(v)
        /\ Len(t) - Len(v) + (Len(v) - Len(u) + i) = Len(t) - Len(u) + i
    BY <1>1
  <2>2. QED
    BY <2>1 DEF Ends
<1>3. QED
  BY <1>1, <1>2 DEF Ends

\* Of two ends the shorter is an end of the longer.
LEMMA EndsNested ==
    ASSUME NEW u \in Word, NEW v \in Word, NEW t \in Word, Ends(u, t), Ends(v, t), Len(u) <= Len(v)
    PROVE  Ends(u, v)
<1>1. Len(u) \in Nat /\ Len(v) \in Nat /\ Len(t) \in Nat /\ Len(v) <= Len(t)
  BY WordProperties DEF Ends
<1>2. ASSUME NEW i \in 1 .. Len(u) PROVE u[i] = v[Len(v) - Len(u) + i]
  <2> DEFINE j == Len(v) - Len(u) + i
  <2>1. j \in 1 .. Len(v) /\ Len(t) - Len(v) + j = Len(t) - Len(u) + i
    BY <1>1
  <2>2. v[j] = t[Len(t) - Len(v) + j] /\ u[i] = t[Len(t) - Len(u) + i]
    BY <2>1 DEF Ends
  <2>3. QED
    BY <2>1, <2>2
<1>3. QED
  BY <1>2 DEF Ends

LEMMA LongestEndIsAll ==
    ASSUME NEW u \in Word, NEW t \in Word, Ends(u, t), Len(u) = Len(t)
    PROVE  u = t
<1>1. Len(u) \in Nat /\ Len(t) \in Nat /\ \A i \in 1 .. Len(u) : Len(t) - Len(u) + i = i
  BY WordProperties
<1>2. \A i \in 1 .. Len(u) : u[i] = t[i]
  BY <1>1 DEF Ends
<1>3. QED
  BY <1>2, EqualWords

LEMMA SameLengthEnds ==
    ASSUME NEW u \in Word, NEW v \in Word, NEW t \in Word, Ends(u, t), Ends(v, t), Len(u) = Len(v)
    PROVE  u = v
<1>1. Ends(u, v)
  BY EndsNested, WordProperties
<1>2. QED
  BY <1>1, LongestEndIsAll

LEMMA EndsAppend ==
    ASSUME NEW u \in Word, NEW t \in Word, NEW b \in Byte, Ends(u, t)
    PROVE  Ends(Append(u, b), Append(t, b))
<1> DEFINE x == Append(u, b)
           y == Append(t, b)
<1>1. /\ Len(u) \in Nat /\ Len(t) \in Nat /\ Len(u) <= Len(t)
      /\ Len(x) = Len(u) + 1 /\ Len(y) = Len(t) + 1
      /\ x[Len(u) + 1] = b /\ y[Len(t) + 1] = b
      /\ \A i \in 1 .. Len(u) : x[i] = u[i]
      /\ \A i \in 1 .. Len(t) : y[i] = t[i]
  BY WordProperties, AppendWord DEF Ends
<1> HIDE DEF x, y
<1>2. ASSUME NEW i \in 1 .. Len(x) PROVE x[i] = y[Len(y) - Len(x) + i]
  <2>1. Len(y) - Len(x) + i = Len(t) - Len(u) + i
    BY <1>1
  <2>2. CASE i = Len(u) + 1
    <3>1. Len(t) - Len(u) + i = Len(t) + 1
      BY <1>1, <2>2
    <3>2. QED
      BY <1>1, <2>1, <2>2, <3>1
  <2>3. CASE i # Len(u) + 1
    <3>1. i \in 1 .. Len(u) /\ Len(t) - Len(u) + i \in 1 .. Len(t)
      BY <1>1, <2>3
    <3>2. u[i] = t[Len(t) - Len(u) + i]
      BY <3>1 DEF Ends
    <3>3. QED
      BY <1>1, <2>1, <3>1, <3>2
  <2>4. QED
    BY <2>2, <2>3
<1>3. Ends(x, y)
  BY <1>1, <1>2 DEF Ends
<1>4. QED
  BY <1>3 DEF x, y

\* An end of a longer text that is not empty is an end of the text, and its byte.
LEMMA EndsOfAppend ==
    ASSUME NEW w \in Word, NEW t \in Word, NEW b \in Byte, Ends(w, Append(t, b)), Len(w) # 0
    PROVE  \E u \in Word : w = Append(u, b) /\ Ends(u, t) /\ Len(w) = Len(u) + 1
<1> DEFINE y == Append(t, b)
           n == Len(w) - 1
           u == SubSeq(w, 1, n)
<1>1. /\ Len(w) \in Nat /\ Len(t) \in Nat /\ n \in Nat /\ n < Len(w) /\ n + 1 = Len(w)
      /\ n \in 0 .. Len(w)
  BY WordProperties
<1>2. /\ Len(y) = Len(t) + 1 /\ y[Len(t) + 1] = b
      /\ \A i \in 1 .. Len(t) : y[i] = t[i]
  BY WordProperties, AppendWord
<1>3. u \in Word /\ Len(u) = n /\ \A i \in 1 .. n : u[i] = w[i]
  BY <1>1, PrefixWord
<1>4. w = Append(u, w[n + 1])
  BY <1>1, PrefixAppended, WholePrefix
<1>5. Len(w) <= Len(y) /\ \A i \in 1 .. Len(w) : w[i] = y[Len(y) - Len(w) + i]
  BY DEF Ends
<1> HIDE DEF y, u, n
<1>6. w[n + 1] = b
  <2>1. Len(w) \in 1 .. Len(w) /\ Len(y) - Len(w) + Len(w) = Len(t) + 1
    BY <1>1, <1>2
  <2>2. QED
    BY <1>1, <1>2, <1>5, <2>1
<1>7. Ends(u, t)
  <2>1. n <= Len(t)
    BY <1>1, <1>2, <1>5
  <2>2. ASSUME NEW i \in 1 .. n PROVE u[i] = t[Len(t) - n + i]
    <3>1. i \in 1 .. Len(w) /\ Len(y) - Len(w) + i = Len(t) - n + i /\ Len(t) - n + i \in 1 .. Len(t)
      BY <1>1, <1>2, <2>1
    <3>2. QED
      BY <1>2, <1>3, <1>5, <3>1
  <2>3. QED
    BY <1>3, <2>1, <2>2 DEF Ends
<1>8. QED
  BY <1>1, <1>3, <1>4, <1>6, <1>7

-----------------------------------------------------------------------------
(* Orders *)

\* R puts the elements of S one behind the other.
Orders(R, S) ==
    /\ \A x \in S : <<x, x>> \notin R
    /\ \A x, y \in S : <<x, y>> \in R \/ <<y, x>> \in R \/ x = y
    /\ \A x, y, z \in S : <<x, y>> \in R /\ <<y, z>> \in R => <<x, z>> \in R

\* An element's rank is how many are before it: each rank is taken once.
LEMMA InOrderIs ==
    ASSUME NEW S, IsFiniteSet(S), NEW R, Orders(R, S)
    PROVE  /\ Cardinality(S) \in Nat
           /\ InOrder(S, R) \in [1 .. Cardinality(S) -> S]
           /\ \A x \in S : \E k \in 1 .. Cardinality(S) : InOrder(S, R)[k] = x
           /\ \A i, j \in 1 .. Cardinality(S) :
                 i < j => <<InOrder(S, R)[i], InOrder(S, R)[j]>> \in R
<1> DEFINE n == Cardinality(S)
           q == InOrder(S, R)
           Before(x) == { y \in S : <<y, x>> \in R }
           rank == [x \in S |-> Cardinality(Before(x))]
<1>1. n \in Nat
  BY FS_CardinalityType
<1>2. ASSUME NEW x \in S
      PROVE  rank[x] \in 0 .. n - 1 /\ IsFiniteSet(Before(x)) /\ rank[x] = Cardinality(Before(x))
  <2>1. Before(x) \in SUBSET S /\ x \notin Before(x)
    BY DEF Orders
  <2>2. IsFiniteSet(Before(x)) /\ Cardinality(Before(x)) <= n /\ Cardinality(Before(x)) # n
    BY <2>1, FS_Subset
  <2>3. Cardinality(Before(x)) \in Nat
    BY <2>2, FS_CardinalityType
  <2> HIDE DEF Before
  <2>4. QED
    BY <1>1, <2>2, <2>3
<1>3. ASSUME NEW x \in S, NEW y \in S, <<x, y>> \in R
      PROVE  rank[x] < rank[y]
  <2>1. Before(x) \in SUBSET Before(y) /\ x \in Before(y) /\ x \notin Before(x)
    BY <1>3 DEF Orders
  <2>2. IsFiniteSet(Before(y))
    BY <1>2
  <2>3. Cardinality(Before(x)) <= Cardinality(Before(y)) /\ Cardinality(Before(x)) # Cardinality(Before(y))
    BY <2>1, <2>2, FS_Subset
  <2>4. rank[x] \in Int /\ rank[y] \in Int /\ rank[x] = Cardinality(Before(x)) /\ rank[y] = Cardinality(Before(y))
    BY <1>2
  <2> HIDE DEF Before, rank
  <2>5. QED
    BY <2>3, <2>4
<1>4. rank = [x \in S |-> rank[x]]
  OBVIOUS
<1> HIDE DEF rank
<1>5. ASSUME NEW x \in S, NEW y \in S, rank[x] = rank[y] PROVE x = y
  <2>0. rank[x] \in 0 .. n - 1 /\ rank[y] \in 0 .. n - 1
    BY <1>2
  <2>1. rank[x] \in Int /\ rank[y] \in Int
    BY <2>0
  <2>2. ~(<<x, y>> \in R) /\ ~(<<y, x>> \in R)
    BY <1>3, <1>5, <2>1
  <2>3. QED
    BY <2>2 DEF Orders
<1>6. rank \in Injection(S, 0 .. n - 1)
  <2>1. rank \in [S -> 0 .. n - 1]
    BY <1>2, <1>4
  <2>2. IsInjective(rank)
    BY <1>5, <2>1 DEF IsInjective
  <2>3. QED
    BY <2>1, <2>2 DEF Injection
<1>7. IsFiniteSet(0 .. n - 1) /\ Cardinality(0 .. n - 1) = n
  BY <1>1, FS_Interval, SMTT(30)
<1>8. rank \in Surjection(S, 0 .. n - 1)
  BY <1>6, <1>7, FS_Injection
<1>9. \A k \in 0 .. n - 1 : \E x \in S : rank[x] = k
  BY <1>8 DEF Surjection
<1>10. ASSUME NEW k \in 1 .. n
       PROVE  q[k] \in S /\ rank[q[k]] = k - 1
  <2>1. q[k] = CHOOSE x \in S : Cardinality(Before(x)) = k - 1
    BY DEF InOrder
  <2>2. k - 1 \in 0 .. n - 1
    BY <1>1
  <2>3. \E x \in S : Cardinality(Before(x)) = k - 1
    BY <1>2, <1>9, <2>2
  <2> HIDE DEF q, Before
  <2>4. q[k] \in S /\ Cardinality(Before(q[k])) = k - 1
    BY <2>1, <2>3
  <2>5. QED
    BY <1>2, <2>4
<1>11. q \in [1 .. n -> S]
  <2> DEFINE G(k) == CHOOSE x \in S : Cardinality(Before(x)) = k - 1
  <2>1. q = [k \in 1 .. n |-> G(k)]
    BY DEF InOrder
  <2> HIDE DEF q, G
  <2>2. \A k \in 1 .. n : q[k] = G(k)
    BY <2>1
  <2>3. \A k \in 1 .. n : G(k) \in S
    BY <1>10, <2>2
  <2>4. QED
    BY <2>1, <2>3
<1> HIDE DEF q, Before
<1>12. ASSUME NEW x \in S PROVE \E k \in 1 .. n : q[k] = x
  <2> DEFINE k == rank[x] + 1
  <2>1. k \in 1 .. n /\ k - 1 = rank[x]
    BY <1>1, <1>2
  <2> HIDE DEF k
  <2>2. q[k] \in S /\ rank[q[k]] = rank[x]
    BY <1>10, <2>1
  <2>3. q[k] = x
    BY <1>5, <2>2
  <2>4. QED
    BY <2>1, <2>3
<1>13. ASSUME NEW i \in 1 .. n, NEW j \in 1 .. n, i < j
       PROVE  <<q[i], q[j]>> \in R
  <2>1. q[i] \in S /\ q[j] \in S /\ rank[q[i]] = i - 1 /\ rank[q[j]] = j - 1
    BY <1>10
  <2>2. q[i] # q[j]
    BY <1>1, <1>13, <2>1
  <2>3. ~(<<q[j], q[i]>> \in R)
    <3>1. SUFFICES ASSUME <<q[j], q[i]>> \in R PROVE FALSE
      OBVIOUS
    <3>2. j - 1 < i - 1
      BY <1>3, <2>1, <3>1
    <3>3. QED
      BY <1>1, <1>13, <3>2
  <2>4. QED
    BY <2>1, <2>2, <2>3 DEF Orders
<1>14. QED
  BY <1>1, <1>11, <1>12, <1>13 DEF q

LEMMA AscendingIs ==
    ASSUME NEW S, S \subseteq Int, IsFiniteSet(S)
    PROVE  /\ Cardinality(S) \in Nat
           /\ Ascending(S) \in [1 .. Cardinality(S) -> S]
           /\ \A x \in S : \E k \in 1 .. Cardinality(S) : Ascending(S)[k] = x
           /\ \A i, j \in 1 .. Cardinality(S) : i < j => Ascending(S)[i] < Ascending(S)[j]
<1> DEFINE R == { p \in S \X S : p[1] < p[2] }
<1>1. \A x, y \in S : <<x, y>> \in R <=> x < y
  OBVIOUS
<1>2. Ascending(S) = InOrder(S, R)
  BY DEF Ascending
<1> HIDE DEF R
<1>3. Orders(R, S)
  BY <1>1 DEF Orders
<1>4. /\ Cardinality(S) \in Nat
      /\ InOrder(S, R) \in [1 .. Cardinality(S) -> S]
      /\ \A x \in S : \E k \in 1 .. Cardinality(S) : InOrder(S, R)[k] = x
      /\ \A i, j \in 1 .. Cardinality(S) :
            i < j => <<InOrder(S, R)[i], InOrder(S, R)[j]>> \in R
  BY <1>3, InOrderIs
<1>5. \A i, j \in 1 .. Cardinality(S) : i < j => InOrder(S, R)[i] < InOrder(S, R)[j]
  BY <1>1, <1>4
<1>6. QED
  BY <1>2, <1>4, <1>5

Pairs == Int \X Int

LEMMA PrecedesOrders ==
    /\ \A x \in Pairs : ~Precedes(x, x)
    /\ \A x, y \in Pairs : Precedes(x, y) \/ Precedes(y, x) \/ x = y
    /\ \A x, y, z \in Pairs : Precedes(x, y) /\ Precedes(y, z) => Precedes(x, z)
    /\ \A x, y \in Pairs : ~(Precedes(x, y) /\ Precedes(y, x))
BY DEF Precedes, Pairs

Enumerates(s, S) == IsInjective(s) /\ Range(s) = S

\* The sort keeps what it sorts, and leaves no two equal elements out of order.
LEMMA SortMatchesIs ==
    ASSUME NEW s \in Seq(Pairs)
    PROVE  /\ SortMatches(s) \in Seq(Pairs)
           /\ Range(SortMatches(s)) = Range(s)
           /\ IsInjective(s) =>
                /\ IsInjective(SortMatches(s))
                /\ \A i, j \in DOMAIN SortMatches(s) :
                      i < j => Precedes(SortMatches(s)[i], SortMatches(s)[j])
<1> DEFINE n == Len(s)
           D == DOMAIN s
           R == { p \in D \X D : \/ Precedes(s[p[1]], s[p[2]])
                                 \/ s[p[1]] = s[p[2]] /\ p[1] < p[2] }
           q == InOrder(D, R)
           t == [k \in D |-> s[q[k]]]
<1>1. n \in Nat /\ D = 1 .. n /\ \A i \in D : s[i] \in Pairs
  OBVIOUS
<1>2. \A i, j \in D : <<i, j>> \in R <=> Precedes(s[i], s[j]) \/ (s[i] = s[j] /\ i < j)
  OBVIOUS
<1>3. SortMatches(s) = t
  BY DEF SortMatches
<1>4. IsFiniteSet(D) /\ Cardinality(D) = n
  BY <1>1, FS_Interval, SMTT(30)
<1>5. t = [k \in D |-> t[k]] /\ \A k \in D : t[k] = s[q[k]]
  OBVIOUS
<1> HIDE DEF R, t, D
<1>6. Orders(R, D)
  <2>1. \A i \in D : <<i, i>> \notin R
    BY <1>1, <1>2, PrecedesOrders
  <2>2. \A i, j \in D : <<i, j>> \in R \/ <<j, i>> \in R \/ i = j
    <3>1. TAKE i, j \in D
    <3>2. s[i] \in Pairs /\ s[j] \in Pairs /\ (i < j \/ j < i \/ i = j)
      BY <1>1
    <3>3. Precedes(s[i], s[j]) \/ Precedes(s[j], s[i]) \/ s[i] = s[j]
      BY <3>2, PrecedesOrders
    <3>4. QED
      BY <1>2, <3>2, <3>3
  <2>3. \A i, j, k \in D : <<i, j>> \in R /\ <<j, k>> \in R => <<i, k>> \in R
    <3>1. TAKE i, j, k \in D
    <3>2. s[i] \in Pairs /\ s[j] \in Pairs /\ s[k] \in Pairs /\ (i < j /\ j < k => i < k)
      BY <1>1
    <3>3. Precedes(s[i], s[j]) /\ Precedes(s[j], s[k]) => Precedes(s[i], s[k])
      BY <3>2, PrecedesOrders
    <3>4. QED
      BY <1>2, <3>2, <3>3
  <2>4. QED
    BY <2>1, <2>2, <2>3 DEF Orders
<1>7. /\ q \in [1 .. n -> D]
      /\ \A x \in D : \E k \in 1 .. n : q[k] = x
      /\ \A i, j \in 1 .. n : i < j => <<q[i], q[j]>> \in R
  BY <1>4, <1>6, InOrderIs
<1> HIDE DEF q
<1>8. t \in Seq(Pairs)
  <2>1. \A k \in D : t[k] \in Pairs
    BY <1>1, <1>5, <1>7
  <2>2. t \in [1 .. n -> Pairs]
    BY <1>1, <1>5, <2>1
  <2>3. QED
    BY <1>1, <2>2
<1>9. DOMAIN t = D
  BY <1>5
<1>10. Range(t) = Range(s)
  <2>1. \A x \in Range(t) : x \in Range(s)
    BY <1>1, <1>5, <1>7, <1>9, SMTT(30) DEF Range, D
  <2>2. \A x \in Range(s) : x \in Range(t)
    <3>1. SUFFICES ASSUME NEW i \in D PROVE s[i] \in Range(t)
      BY DEF Range, D
    <3>2. PICK k \in D : q[k] = i
      BY <1>1, <1>7
    <3>3. t[k] = s[i]
      BY <1>5, <3>2
    <3>4. QED
      BY <1>9, <3>3 DEF Range
  <2>3. QED
    BY <2>1, <2>2
<1>11. ASSUME IsInjective(s), NEW i \in D, NEW j \in D, i < j
       PROVE  Precedes(t[i], t[j])
  <2>1. q[i] \in D /\ q[j] \in D /\ <<q[i], q[j]>> \in R
    BY <1>1, <1>7, <1>11
  <2>2. q[i] # q[j]
    BY <1>6, <2>1 DEF Orders
  <2>3. s[q[i]] # s[q[j]]
    BY <1>11, <2>1, <2>2 DEF IsInjective, D
  <2>4. QED
    BY <1>2, <1>5, <2>1, <2>3
<1>12. ASSUME IsInjective(s) PROVE IsInjective(t)
  <2>1. SUFFICES ASSUME NEW i \in D, NEW j \in D, i < j PROVE t[i] # t[j]
    BY <1>1, <1>9 DEF IsInjective
  <2>2. Precedes(t[i], t[j]) /\ t[i] \in Pairs
    BY <1>1, <1>5, <1>7, <1>11, <1>12, <2>1
  <2>3. QED
    BY <2>2, PrecedesOrders
<1>13. QED
  BY <1>3, <1>8, <1>9, <1>10, <1>11, <1>12

\* There is one ascending sequence of a set of matches.
Increases(s) == \A i, j \in DOMAIN s : i < j => Precedes(s[i], s[j])

LEMMA IncreasingIsPrefix ==
    ASSUME NEW u \in Seq(Pairs), NEW v \in Seq(Pairs), Increases(u), Increases(v),
           Range(u) = Range(v)
    PROVE  /\ Len(u) <= Len(v)
           /\ \A n \in 1 .. Len(u) : u[n] = v[n]
<1> DEFINE Bad == { n \in 1 .. Len(u) : n > Len(v) \/ u[n] # v[n] }
<1>1. /\ Len(u) \in Nat /\ Len(v) \in Nat /\ DOMAIN u = 1 .. Len(u) /\ DOMAIN v = 1 .. Len(v)
      /\ \A i \in 1 .. Len(u) : u[i] \in Pairs
      /\ \A i \in 1 .. Len(v) : v[i] \in Pairs
  OBVIOUS
<1>2. SUFFICES ASSUME Bad # {} PROVE FALSE
  <2>1. SUFFICES ASSUME Bad = {} PROVE Len(u) <= Len(v) /\ \A n \in 1 .. Len(u) : u[n] = v[n]
    BY <1>2
  <2>2. \A n \in 1 .. Len(u) : n <= Len(v) /\ u[n] = v[n]
    BY <1>1, <2>1
  <2>3. Len(u) # 0 => Len(u) \in 1 .. Len(u)
    BY <1>1
  <2> HIDE DEF Bad
  <2>4. QED
    BY <1>1, <2>2, <2>3
<1>3. PICK n \in Bad : \A y \in Bad : n <= y
  <2>1. Bad \subseteq Nat
    BY <1>1
  <2> HIDE DEF Bad
  <2>2. QED
    BY <1>2, <2>1, LeastNatural
<1>4. n \in 1 .. Len(u) /\ (n > Len(v) \/ u[n] # v[n])
      /\ \A i \in 1 .. n - 1 : i <= Len(v) /\ u[i] = v[i]
  BY <1>1, <1>3
<1> HIDE DEF Bad
<1>5. PICK j \in 1 .. Len(v) : v[j] = u[n]
  BY <1>1, <1>4 DEF Range
<1>6. ~(j < n)
  <2>1. SUFFICES ASSUME j < n PROVE FALSE
    OBVIOUS
  <2>2. j \in 1 .. n - 1 /\ j \in 1 .. Len(u)
    BY <1>1, <1>4, <2>1
  <2>3. u[j] = u[n]
    BY <1>4, <1>5, <2>2
  <2>4. Precedes(u[j], u[n])
    BY <1>1, <1>4, <2>1, <2>2 DEF Increases
  <2>5. QED
    BY <1>1, <1>4, <2>3, <2>4, PrecedesOrders
<1>7. n < j /\ n \in 1 .. Len(v) /\ u[n] # v[n]
  BY <1>1, <1>4, <1>5, <1>6
<1>8. Precedes(v[n], u[n])
  BY <1>1, <1>5, <1>7 DEF Increases
<1>9. PICK k \in 1 .. Len(u) : u[k] = v[n]
  BY <1>1, <1>7 DEF Range
<1>10. ~(k < n)
  <2>1. SUFFICES ASSUME k < n PROVE FALSE
    OBVIOUS
  <2>2. k \in 1 .. n - 1 /\ k \in 1 .. Len(v)
    BY <1>1, <1>4, <1>7, <2>1
  <2>3. v[k] = v[n]
    BY <1>4, <1>9, <2>2
  <2>4. Precedes(v[k], v[n])
    BY <1>1, <1>7, <2>1, <2>2 DEF Increases
  <2>5. QED
    BY <1>1, <1>7, <2>3, <2>4, PrecedesOrders
<1>11. n < k
  BY <1>1, <1>4, <1>7, <1>9, <1>10
<1>12. Precedes(u[n], v[n])
  BY <1>1, <1>4, <1>9, <1>11 DEF Increases
<1>13. QED
  BY <1>1, <1>4, <1>7, <1>8, <1>12, PrecedesOrders

LEMMA IncreasingIsUnique ==
    ASSUME NEW u \in Seq(Pairs), NEW v \in Seq(Pairs), Increases(u), Increases(v),
           Range(u) = Range(v)
    PROVE  u = v
<1>1. Len(u) <= Len(v) /\ \A n \in 1 .. Len(u) : u[n] = v[n]
  BY IncreasingIsPrefix
<1>2. Len(v) <= Len(u)
  BY IncreasingIsPrefix
<1>3. Len(u) = Len(v)
  BY <1>1, <1>2
<1>4. QED
  BY <1>1, <1>3, SeqEqual

LEMMA SortedIsUnique ==
    ASSUME NEW s \in Seq(Pairs), NEW t \in Seq(Pairs), IsInjective(s), IsInjective(t),
           Range(s) = Range(t)
    PROVE  SortMatches(s) = SortMatches(t)
BY SortMatchesIs, IncreasingIsUnique DEF Increases

LEMMA SortingTwice ==
    ASSUME NEW s \in Seq(Pairs), IsInjective(s)
    PROVE  SortMatches(SortMatches(s)) = SortMatches(s)
<1> DEFINE t == SortMatches(s)
<1>1. t \in Seq(Pairs) /\ IsInjective(t) /\ Range(t) = Range(s) /\ Increases(t)
  BY SortMatchesIs DEF Increases
<1> HIDE DEF t
<1>2. SortMatches(t) \in Seq(Pairs) /\ Increases(SortMatches(t)) /\ Range(SortMatches(t)) = Range(t)
  BY <1>1, SortMatchesIs DEF Increases
<1>3. QED
  BY <1>1, <1>2, IncreasingIsUnique DEF t

-----------------------------------------------------------------------------
(* Sequences without repetition *)

Apart(u, v) == Range(u) \cap Range(v) = {}

LEMMA ConcatInjects ==
    ASSUME NEW S, NEW u \in Seq(S), NEW v \in Seq(S)
    PROVE  /\ Range(u \o v) = Range(u) \cup Range(v)
           /\ IsInjective(u) /\ IsInjective(v) /\ Apart(u, v) => IsInjective(u \o v)
<1> DEFINE m == Len(u)
           n == Len(v)
           w == u \o v
<1>1. /\ m \in Nat /\ n \in Nat /\ DOMAIN u = 1 .. m /\ DOMAIN v = 1 .. n
      /\ w \in Seq(S) /\ Len(w) = m + n
      /\ \A i \in 1 .. m + n : w[i] = IF i <= m THEN u[i] ELSE v[i - m]
  BY ConcatProperties, LenProperties
<1>2. DOMAIN w = 1 .. m + n
  BY <1>1
<1> HIDE DEF m, n, w
<1>3. /\ \A i \in 1 .. m : i \in 1 .. m + n /\ w[i] = u[i]
      /\ \A i \in 1 .. n : m + i \in 1 .. m + n /\ w[m + i] = v[i]
  BY <1>1
<1>4. \A i \in 1 .. m + n : \/ i \in 1 .. m /\ w[i] = u[i]
                            \/ i - m \in 1 .. n /\ w[i] = v[i - m]
  BY <1>1
<1>5. Range(w) = Range(u) \cup Range(v)
  <2>1. \A x : x \in Range(w) <=> \E i \in 1 .. m + n : w[i] = x
    BY <1>2 DEF Range
  <2>2. \A x : x \in Range(u) <=> \E i \in 1 .. m : u[i] = x
    BY <1>1 DEF Range
  <2>3. \A x : x \in Range(v) <=> \E i \in 1 .. n : v[i] = x
    BY <1>1 DEF Range
  <2>4. ASSUME NEW x \in Range(w) PROVE x \in Range(u) \cup Range(v)
    BY <1>4, <2>1, <2>2, <2>3
  <2>5. \A x \in Range(u) \cup Range(v) : x \in Range(w)
    BY <1>3, <2>1, <2>2, <2>3
  <2>6. QED
    BY <2>4, <2>5
<1>6. ASSUME IsInjective(u), IsInjective(v), Apart(u, v), NEW i \in 1 .. m + n, NEW j \in 1 .. m + n,
             w[i] = w[j]
      PROVE  i = j
  <2>1. \A k \in 1 .. m, l \in 1 .. n : u[k] # v[l]
    BY <1>1, <1>6 DEF Apart, Range
  <2>2. CASE i \in 1 .. m /\ j \in 1 .. m /\ w[i] = u[i] /\ w[j] = u[j]
    BY <1>1, <1>6, <2>2 DEF IsInjective
  <2>3. CASE i - m \in 1 .. n /\ j - m \in 1 .. n /\ w[i] = v[i - m] /\ w[j] = v[j - m]
    <3>1. i - m = j - m
      BY <1>1, <1>6, <2>3 DEF IsInjective
    <3>2. QED
      BY <1>1, <3>1
  <2>4. QED
    BY <1>4, <1>6, <2>1, <2>2, <2>3
<1>7. QED
  BY <1>2, <1>5, <1>6 DEF IsInjective, w

LEMMA AppendInjects ==
    ASSUME NEW S, NEW u \in Seq(S), NEW x \in S
    PROVE  /\ Range(Append(u, x)) = Range(u) \cup {x}
           /\ IsInjective(u) /\ x \notin Range(u) => IsInjective(Append(u, x))
<1>1. /\ <<x>> \in Seq(S) /\ Append(u, x) = u \o <<x>>
  BY AppendIsConcat
<1>2. Range(<<x>>) = {x} /\ IsInjective(<<x>>)
  BY DEF Range, IsInjective
<1>3. /\ Range(u \o <<x>>) = Range(u) \cup Range(<<x>>)
      /\ IsInjective(u) /\ IsInjective(<<x>>) /\ Apart(u, <<x>>) => IsInjective(u \o <<x>>)
  BY <1>1, ConcatInjects
<1>4. QED
  BY <1>1, <1>2, <1>3 DEF Apart

-----------------------------------------------------------------------------
(* The inductive invariant *)

Nodes   == DOMAIN states
Indices == 0 .. pattern_count - 1
Maps    == UNION { [K -> Nat] : K \in SUBSET Byte }
StateRecord == [goto : Maps, failure : Nat, outputs : Seq(Nat)]

\* What the code keeps, whatever the words are.
Shape ==
    /\ patterns \in Seq(Word)
    /\ pattern_index \in 0 .. pattern_count /\ offset \in Nat /\ node \in Nodes
    /\ pc \in {"insert", "link", "idle", "slice"}
    /\ \E k \in Nat \ {0} : Nodes = 0 .. k - 1
    /\ states \in [Nodes -> StateRecord]
    /\ \A s \in Nodes :
         /\ IsFiniteSet(Keys(s)) /\ Failure(s) \in Nodes
         /\ \A b \in Keys(s) : NextState(s, b) \in Nodes

\* W[s] is the word that the transitions from the root to s spell.
Spells(W) ==
    /\ W \in [Nodes -> Word] /\ W[0] = << >>
    /\ \A s \in Nodes : \A b \in Keys(s) : W[NextState(s, b)] = Append(W[s], b)
    /\ \A s, t \in Nodes : W[s] = W[t] => s = t
    /\ \A s \in Nodes \ {0} : \E r \in Nodes : \E b \in Keys(r) : s = NextState(r, b)

\* How much of pattern p is in the trie, and what it holds therefore.
InsertedLength(p) ==
    IF p < pattern_index THEN pattern_length(p)
    ELSE IF p = pattern_index THEN offset ELSE 0

Inserted(w) ==
    w = << >> \/ \E p \in Indices : Len(w) <= InsertedLength(p) /\ Begins(w, Pattern(p))

Holds(W) == \A w \in Word : Inserted(w) <=> \E s \in Nodes : W[s] = w

\* node spells the part of the current pattern that is in.
Cursor(W) ==
    /\ Len(W[node]) = offset
    /\ IF pattern_index < pattern_count THEN Begins(W[node], Pattern(pattern_index))
                                        ELSE offset = 0
    /\ pc # "insert" => pattern_index = pattern_count

\* f is the longest state that t ends with, of those shorter than bound.
LongestEnd(W, f, t, bound) ==
    /\ f \in Nodes /\ Ends(W[f], t) /\ Len(W[f]) < bound
    /\ \A s \in Nodes : Ends(W[s], t) /\ Len(W[s]) < bound => Len(W[s]) <= Len(W[f])

\* A state below one in the queue awaits its links; the others have them.
Awaits(W, s) ==
    \/ pc = "insert"
    \/ \E i \in DOMAIN queue : Len(W[queue[i]]) < Len(W[s]) /\ Begins(W[queue[i]], W[s])

Unlinked(W, s) ==
    /\ Failure(s) = 0
    /\ Range(states[s].outputs) =
         { p \in Indices : p < pattern_index /\ pattern_length(p) > 0 /\ Pattern(p) = W[s] }

EndingIn(t) == { p \in Indices : pattern_length(p) > 0 /\ Ends(Pattern(p), t) }

Linked(W, s) ==
    /\ LongestEnd(W, Failure(s), W[s], Len(W[s]))
    /\ Range(states[s].outputs) = EndingIn(W[s])

Links(W) ==
    /\ Failure(0) = 0 /\ states[0].outputs = << >>
    /\ \A s \in Nodes \ {0} :
         /\ IsInjective(states[s].outputs)
         /\ IF Awaits(W, s) THEN Unlinked(W, s) ELSE Linked(W, s)

\* The queue: no state below another, and no two depths but neighbouring ones.
Levels(W) ==
    /\ queue \in Seq(Nodes \ {0})
    /\ pc # "link" => queue = << >>
    /\ \A i, j \in DOMAIN queue :
         /\ i # j => ~Begins(W[queue[i]], W[queue[j]])
         /\ i < j => /\ Len(W[queue[i]]) <= Len(W[queue[j]])
                     /\ Len(W[queue[j]]) <= Len(W[queue[i]]) + 1

\* The stream's state is the longest that the bytes fed end with.
Reads(W) ==
    /\ fed \in Word /\ bytes_fed = Len(fed)
    /\ LongestEnd(W, current, fed, Len(fed) + 1)
    /\ ~Built => current = 0 /\ fed = << >>

\* Each match is in one of the three places, once.
Empties == IF initial THEN {} ELSE Range(EmptyMatches)

Reports ==
    /\ initial \in BOOLEAN
    /\ reported \in Seq(Pairs) /\ out \in Seq(Pairs) /\ pending \in Seq(Pairs)
    /\ IsInjective(reported) /\ IsInjective(out) /\ IsInjective(pending)
    /\ Apart(reported, out) /\ Apart(reported, pending) /\ Apart(out, pending)
    /\ Range(reported) \cup Range(out) \cup Range(pending) = Occurrences(fed) \cup Empties
    /\ reported = << >> => pending = << >>
    /\ pc # "slice" => out = << >>
    /\ pc = "slice" => ~initial
    /\ ~Built => initial

-----------------------------------------------------------------------------
(* The trie *)

LEMMA NodeFacts ==
    ASSUME NEW W, Shape, Spells(W)
    PROVE  /\ 0 \in Nodes /\ Nodes \subseteq Nat /\ IsFiniteSet(Nodes)
           /\ Cardinality(Nodes) \in Nat \ {0} /\ Nodes = 0 .. Cardinality(Nodes) - 1
           /\ \A s \in Nodes : W[s] \in Word /\ Len(W[s]) \in Nat
           /\ \A s \in Nodes : Len(W[s]) = 0 <=> s = 0
<1>1. PICK k \in Nat \ {0} : Nodes = 0 .. k - 1
  BY DEF Shape
<1>2. IsFiniteSet(Nodes) /\ Cardinality(Nodes) = k
  BY <1>1, FS_Interval
<1>3. \A s \in Nodes : W[s] \in Word /\ Len(W[s]) \in Nat
  BY WordProperties DEF Spells
<1>4. 0 \in Nodes
  BY <1>1
<1>5. ASSUME NEW s \in Nodes PROVE Len(W[s]) = 0 <=> s = 0
  BY <1>3, <1>4, WordProperties DEF Spells
<1>6. QED
  BY <1>1, <1>2, <1>3, <1>4, <1>5

LEMMA ChildFacts ==
    ASSUME NEW W, Shape, Spells(W), NEW s \in Nodes, NEW b \in Keys(s)
    PROVE  /\ NextState(s, b) \in Nodes \ {0} /\ b \in Byte
           /\ W[NextState(s, b)] = Append(W[s], b)
           /\ Len(W[NextState(s, b)]) = Len(W[s]) + 1
<1>1. NextState(s, b) \in Nodes
  BY DEF Shape
<1>2. b \in Byte
  BY DEF Shape, StateRecord, Maps, Nodes, Keys
<1>3. W[NextState(s, b)] = Append(W[s], b)
  BY DEF Spells
<1>4. Len(W[NextState(s, b)]) = Len(W[s]) + 1
  BY <1>2, <1>3, NodeFacts, AppendWord
<1>5. NextState(s, b) # 0
  BY <1>1, <1>4, NodeFacts
<1>6. QED
  BY <1>1, <1>2, <1>3, <1>4, <1>5

LEMMA ParentFacts ==
    ASSUME NEW W, Shape, Spells(W), NEW s \in Nodes \ {0}
    PROVE  \E r \in Nodes : \E b \in Keys(r) :
              /\ s = NextState(r, b) /\ b \in Byte /\ W[s] = Append(W[r], b)
              /\ Len(W[s]) = Len(W[r]) + 1
<1>1. PICK r \in Nodes : \E b \in Keys(r) : s = NextState(r, b)
  BY DEF Spells
<1>2. PICK b \in Keys(r) : s = NextState(r, b)
  BY <1>1
<1>3. b \in Byte /\ W[s] = Append(W[r], b) /\ Len(W[s]) = Len(W[r]) + 1
  BY <1>2, ChildFacts
<1>4. QED
  BY <1>2, <1>3

\* The transitions of a state lead to different states.
LEMMA KeyIsUnique ==
    ASSUME NEW W, Shape, Spells(W), NEW r \in Nodes, NEW a \in Keys(r), NEW s \in Nodes, NEW b \in Keys(s),
           NextState(r, a) = NextState(s, b)
    PROVE  r = s /\ a = b
<1>1. Append(W[r], a) = Append(W[s], b) /\ a \in Byte /\ b \in Byte
  BY ChildFacts
<1>2. W[r] \in Word /\ W[s] \in Word
  BY NodeFacts
<1>3. W[r] = W[s] /\ a = b
  BY <1>1, <1>2, AppendInjective DEF Word
<1>4. QED
  BY <1>3 DEF Spells

\* What a text with one more byte ends with is a child of what it ended with.
LEMMA EndIsChild ==
    ASSUME NEW W, Shape, Spells(W), NEW x \in Nodes \ {0}, NEW t \in Word, NEW b \in Byte,
           Ends(W[x], Append(t, b))
    PROVE  \E u \in Nodes : /\ b \in Keys(u) /\ x = NextState(u, b) /\ Ends(W[u], t)
                            /\ Len(W[x]) = Len(W[u]) + 1
<1>1. W[x] \in Word /\ Len(W[x]) # 0
  BY NodeFacts
<1>2. PICK v \in Word : W[x] = Append(v, b) /\ Ends(v, t)
  BY <1>1, EndsOfAppend
<1>3. PICK u \in Nodes : \E a \in Keys(u) :
              /\ x = NextState(u, a) /\ a \in Byte /\ W[x] = Append(W[u], a)
              /\ Len(W[x]) = Len(W[u]) + 1
  BY ParentFacts
<1>4. PICK a \in Keys(u) :
              /\ x = NextState(u, a) /\ a \in Byte /\ W[x] = Append(W[u], a)
              /\ Len(W[x]) = Len(W[u]) + 1
  BY <1>3
<1>5. W[u] \in Word
  BY NodeFacts
<1>6. W[u] = v /\ a = b
  <2> DEFINE y == W[u]
  <2>1. Append(y, a) = Append(v, b) /\ y \in Seq(Byte) /\ v \in Seq(Byte) /\ a \in Byte
    BY <1>2, <1>4, <1>5 DEF Word
  <2> HIDE DEF y
  <2>2. y = v /\ a = b
    BY <2>1, AppendInjective
  <2>3. QED
    BY <2>2 DEF y
<1>7. QED
  BY <1>2, <1>4, <1>6

LEMMA BeginsAppend ==
    ASSUME NEW v \in Word, NEW b \in Byte, NEW t \in Word, Begins(Append(v, b), t)
    PROVE  Begins(v, t)
<1>1. /\ Len(v) \in Nat /\ Len(t) \in Nat /\ Len(Append(v, b)) = Len(v) + 1
      /\ \A i \in 1 .. Len(v) : Append(v, b)[i] = v[i]
  BY WordProperties, AppendWord
<1>2. \A i \in 1 .. Len(v) : v[i] = t[i]
  BY <1>1 DEF Begins
<1>3. QED
  BY <1>1, <1>2 DEF Begins

LEMMA SameLengthBegins ==
    ASSUME NEW u \in Word, NEW v \in Word, NEW t \in Word, Begins(u, t), Begins(v, t), Len(u) = Len(v)
    PROVE  u = v
<1>1. \A i \in 1 .. Len(u) : u[i] = v[i]
  BY DEF Begins
<1>2. QED
  BY <1>1, EqualWords

\* From a state that a word begins with, a transition leads further along it.
LEMMA ChildOnPath ==
    ASSUME NEW W, Shape, Spells(W), NEW s \in Nodes, NEW t \in Nodes,
           Begins(W[s], W[t]), Len(W[s]) < Len(W[t])
    PROVE  \E b \in Keys(s) : Begins(W[NextState(s, b)], W[t])
<1> DEFINE T == { Len(W[u]) : u \in { u \in Nodes : Begins(W[u], W[t]) /\ Len(W[s]) < Len(W[u]) } }
<1>1. \A u \in Nodes : W[u] \in Word /\ Len(W[u]) \in Nat
  BY NodeFacts
<1>2. Begins(W[t], W[t])
  BY <1>1 DEF Begins
<1>3. T \subseteq Nat /\ T # {}
  BY <1>1, <1>2
<1>4. PICK n \in T : \A m \in T : n <= m
  <2> HIDE DEF T
  <2>1. QED
    BY <1>3, LeastNatural
<1>5. PICK u \in Nodes : Begins(W[u], W[t]) /\ Len(W[s]) < Len(W[u]) /\ n = Len(W[u])
  BY <1>4
<1>6. u # 0
  BY <1>1, <1>5, NodeFacts
<1>7. PICK r \in Nodes : \E b \in Keys(r) :
              /\ u = NextState(r, b) /\ b \in Byte /\ W[u] = Append(W[r], b)
              /\ Len(W[u]) = Len(W[r]) + 1
  BY <1>6, ParentFacts
<1>8. PICK b \in Keys(r) :
              /\ u = NextState(r, b) /\ b \in Byte /\ W[u] = Append(W[r], b)
              /\ Len(W[u]) = Len(W[r]) + 1
  BY <1>7
<1>9. Begins(W[r], W[t])
  BY <1>1, <1>5, <1>8, BeginsAppend
<1>10. ~(Len(W[s]) < Len(W[r]))
  <2>1. SUFFICES ASSUME Len(W[s]) < Len(W[r]) PROVE FALSE
    OBVIOUS
  <2>2. Len(W[r]) \in T
    BY <1>9, <2>1
  <2>3. n <= Len(W[r])
    BY <1>4, <2>2
  <2>4. QED
    BY <1>1, <1>5, <1>8, <2>3
<1>11. Len(W[r]) = Len(W[s])
  BY <1>1, <1>5, <1>8, <1>10
<1>12. W[r] = W[s]
  BY <1>1, <1>9, <1>11, SameLengthBegins
<1>13. r = s
  BY <1>12 DEF Spells
<1>14. QED
  BY <1>5, <1>8, <1>13

-----------------------------------------------------------------------------
(* Following failure links *)

\* Failure links lead to shorter states, so that following them ends.
Falls(W) == \A x \in Nodes \ {0} : Len(W[Failure(x)]) < Len(W[x])

LEMMA ChaseEquation ==
    ASSUME NEW W, Shape, Spells(W), Falls(W), NEW b
    PROVE  \A x \in Nodes :
             /\ Chase(x, b) \in Nodes
             /\ Chase(x, b) = IF x = 0 \/ b \in Keys(x) THEN x ELSE Chase(Failure(x), b)
<1> DEFINE X == Nodes
           Stop == { x \in X : x = 0 \/ b \in Keys(x) }
           Value == [x \in X |-> x]
           Succ == [x \in X |-> Failure(x)]
           Measure == [x \in X |-> Len(W[x])]
           body(f) == [x \in DOMAIN states |-> IF x = 0 \/ b \in Keys(x) THEN x ELSE f[Failure(x)]]
<1>1. Value \in [X -> X] /\ Succ \in [X -> X] /\ Measure \in [X -> Nat]
  BY NodeFacts DEF Shape
<1>2. Descends(X, Stop, Succ, Measure)
  BY DEF Descends, Falls, Shape
<1>3. PICK f \in [X -> X] : \A x \in X : f[x] = IF x \in Stop THEN Value[x] ELSE f[Succ[x]]
  <2> HIDE DEF X, Stop, Value, Succ, Measure
  <2>1. Chains(X, X, Stop, Value, Succ) # {}
    BY <1>1, <1>2, ChainHasValue
  <2>2. QED
    BY <2>1 DEF Chains
<1>4. \A x \in X : f[x] = IF x = 0 \/ b \in Keys(x) THEN x ELSE f[Failure(x)]
  BY <1>3
<1>5. f = body(f)
  <2>1. f = [x \in X |-> f[x]]
    BY <1>3
  <2>2. QED
    BY <1>4, <2>1 DEF Nodes
<1> DEFINE G == CHOOSE g : g = body(g)
<1>6. G = body(G)
  BY <1>5, Zenon
<1>7. \A x : Chase(x, b) = G[x]
  BY DEF Chase
<1> HIDE DEF G
<1>8. \A x \in X : G[x] = IF x = 0 \/ b \in Keys(x) THEN x ELSE G[Failure(x)]
  BY <1>6 DEF Nodes
<1> DEFINE Bad == { x \in X : G[x] \notin X }
           T == { Len(W[x]) : x \in Bad }
<1>9. Bad = {}
  <2>1. SUFFICES ASSUME Bad # {} PROVE FALSE
    OBVIOUS
  <2>2. T \subseteq Nat /\ T # {}
    BY <2>1, NodeFacts
  <2>3. PICK n \in T : \A m \in T : n <= m
    <3> HIDE DEF T
    <3>1. QED
      BY <2>2, LeastNatural
  <2>4. PICK x \in Bad : n = Len(W[x])
    BY <2>3
  <2>5. x \in X /\ G[x] \notin X
    BY <2>4
  <2>6. x # 0 /\ G[x] = G[Failure(x)] /\ Failure(x) \in X
    BY <1>8, <2>5 DEF Shape
  <2>7. Failure(x) \in Bad /\ Len(W[Failure(x)]) < Len(W[x])
    BY <2>5, <2>6 DEF Falls
  <2>8. n <= Len(W[Failure(x)])
    BY <2>3, <2>7
  <2>9. QED
    BY <2>4, <2>6, <2>7, <2>8, NodeFacts
<1>10. \A x \in X : G[x] \in X
  BY <1>9
<1>11. QED
  BY <1>7, <1>8, <1>10

\* The failure links of the states no longer than m are right.
LinkedTo(W, m) ==
    \A x \in Nodes \ {0} : Len(W[x]) <= m => LongestEnd(W, Failure(x), W[x], Len(W[x]))

\* g is the longest end of s that has a transition on b, or the root.
ChaseEnds(W, s, b, g) ==
    /\ g \in Nodes /\ (g = 0 \/ b \in Keys(g)) /\ Ends(W[g], W[s])
    /\ \A t \in Nodes : Ends(W[t], W[s]) /\ b \in Keys(t) => Len(W[t]) <= Len(W[g])

LEMMA ChaseIs ==
    ASSUME NEW W, Shape, Spells(W), Falls(W), NEW b, NEW m \in Nat, LinkedTo(W, m)
    PROVE  \A s \in Nodes : Len(W[s]) <= m => ChaseEnds(W, s, b, Chase(s, b))
<1> DEFINE Bad == { s \in Nodes : Len(W[s]) <= m /\ ~ChaseEnds(W, s, b, Chase(s, b)) }
           T == { Len(W[x]) : x \in Bad }
<1>1. SUFFICES ASSUME Bad # {} PROVE FALSE
  OBVIOUS
<1>2. \A u \in Nodes : W[u] \in Word /\ Len(W[u]) \in Nat
  BY NodeFacts
<1>3. T \subseteq Nat /\ T # {}
  BY <1>1, <1>2
<1>4. PICK n \in T : \A k \in T : n <= k
  <2> HIDE DEF T
  <2>1. QED
    BY <1>3, LeastNatural
<1>5. PICK s \in Bad : n = Len(W[s])
  BY <1>4
<1>6. s \in Nodes /\ Len(W[s]) <= m /\ ~ChaseEnds(W, s, b, Chase(s, b))
  BY <1>5
<1>7. /\ Chase(s, b) \in Nodes
      /\ Chase(s, b) = IF s = 0 \/ b \in Keys(s) THEN s ELSE Chase(Failure(s), b)
  BY <1>6, ChaseEquation
<1>8. CASE s = 0 \/ b \in Keys(s)
  <2>1. Chase(s, b) = s /\ Ends(W[s], W[s])
    BY <1>2, <1>6, <1>7, <1>8, SelfEnds
  <2>2. \A t \in Nodes : Ends(W[t], W[s]) => Len(W[t]) <= Len(W[s])
    BY DEF Ends
  <2>3. QED
    BY <1>6, <1>8, <2>1, <2>2 DEF ChaseEnds
<1>9. CASE ~(s = 0 \/ b \in Keys(s))
  <2> DEFINE f == Failure(s)
             g == Chase(f, b)
  <2>1. Chase(s, b) = g /\ s \in Nodes \ {0} /\ b \notin Keys(s)
    BY <1>6, <1>7, <1>9
  <2>2. LongestEnd(W, f, W[s], Len(W[s]))
    BY <1>6, <2>1 DEF LinkedTo
  <2>3. f \in Nodes /\ Ends(W[f], W[s]) /\ Len(W[f]) < Len(W[s])
    BY <2>2 DEF LongestEnd
  <2> HIDE DEF f
  <2>4. f \notin Bad
    <3>1. SUFFICES ASSUME f \in Bad PROVE FALSE
      OBVIOUS
    <3>2. n <= Len(W[f])
      BY <1>4, <3>1
    <3>3. QED
      BY <1>2, <1>5, <1>6, <2>3, <3>2
  <2>5. Len(W[f]) <= m
    BY <1>2, <1>6, <2>3
  <2>6. ChaseEnds(W, f, b, g)
    BY <2>3, <2>4, <2>5
  <2> HIDE DEF g
  <2>7. g \in Nodes /\ (g = 0 \/ b \in Keys(g)) /\ Ends(W[g], W[s])
    BY <1>2, <1>6, <2>3, <2>6, EndsTransitive DEF ChaseEnds
  <2>8. ASSUME NEW t \in Nodes, Ends(W[t], W[s]), b \in Keys(t) PROVE Len(W[t]) <= Len(W[g])
    <3>1. t # s
      BY <2>1, <2>8
    <3>2. Len(W[t]) # Len(W[s])
      <4>1. SUFFICES ASSUME Len(W[t]) = Len(W[s]) PROVE FALSE
        OBVIOUS
      <4>2. W[t] = W[s]
        BY <1>2, <1>6, <2>8, <4>1, LongestEndIsAll
      <4>3. QED
        BY <1>6, <3>1, <4>2 DEF Spells
    <3>3. Len(W[t]) < Len(W[s])
      BY <1>2, <1>6, <2>8, <3>2 DEF Ends
    <3>4. Len(W[t]) <= Len(W[f])
      BY <2>2, <2>8, <3>3 DEF LongestEnd
    <3>5. Ends(W[t], W[f])
      BY <1>2, <1>6, <2>3, <2>8, <3>4, EndsNested
    <3>6. QED
      BY <2>6, <2>8, <3>5 DEF ChaseEnds
  <2>9. ChaseEnds(W, s, b, g)
    BY <2>7, <2>8 DEF ChaseEnds
  <2>10. QED
    BY <1>6, <2>1, <2>9
<1>10. QED
  BY <1>8, <1>9

\* The transition from there leads to the longest end of a text with b added.
StepFrom(g, b) == IF b \in Keys(g) THEN NextState(g, b) ELSE 0

LEMMA StepIs ==
    ASSUME NEW W, Shape, Spells(W), NEW t \in Word, NEW b \in Byte, NEW m \in Nat, NEW s,
           LongestEnd(W, s, t, m), NEW g, ChaseEnds(W, s, b, g)
    PROVE  LongestEnd(W, StepFrom(g, b), Append(t, b), m + 1)
<1> DEFINE e == StepFrom(g, b)
<1>1. \A u \in Nodes : W[u] \in Word /\ Len(W[u]) \in Nat
  BY NodeFacts
<1>2. /\ s \in Nodes /\ Ends(W[s], t) /\ Len(W[s]) < m
      /\ g \in Nodes /\ Ends(W[g], W[s]) /\ (g = 0 \/ b \in Keys(g))
  BY DEF LongestEnd, ChaseEnds
<1>3. Append(t, b) \in Word
  BY AppendWord
<1>4. /\ e \in Nodes /\ Ends(W[e], Append(t, b)) /\ Len(W[e]) < m + 1
      /\ b \in Keys(g) => Len(W[e]) = Len(W[g]) + 1
  <2>1. CASE b \in Keys(g)
    <3>1. e = NextState(g, b)
      BY <2>1 DEF StepFrom
    <3>2. e \in Nodes /\ W[e] = Append(W[g], b) /\ Len(W[e]) = Len(W[g]) + 1
      BY <1>2, <2>1, <3>1, ChildFacts
    <3>3. Ends(W[g], t)
      BY <1>1, <1>2, EndsTransitive
    <3>4. Ends(W[e], Append(t, b))
      BY <1>1, <1>2, <3>2, <3>3, EndsAppend
    <3>5. Len(W[g]) <= Len(W[s])
      BY <1>2 DEF Ends
    <3>6. Len(W[e]) < m + 1
      BY <1>1, <1>2, <3>2, <3>5
    <3>7. QED
      BY <3>2, <3>4, <3>6
  <2>2. CASE b \notin Keys(g)
    <3>1. e = 0
      BY <2>2 DEF StepFrom
    <3>2. e \in Nodes /\ W[e] = << >> /\ Len(W[e]) = 0
      BY <3>1, NodeFacts, EmptyEnds DEF Spells
    <3>3. QED
      BY <1>3, <2>2, <3>2, EmptyEnds
  <2>3. QED
    BY <2>1, <2>2
<1> HIDE DEF e
<1>5. ASSUME NEW x \in Nodes, Ends(W[x], Append(t, b)), Len(W[x]) < m + 1
      PROVE  Len(W[x]) <= Len(W[e])
  <2>1. CASE x = 0
    BY <1>1, <1>4, <2>1, NodeFacts
  <2>2. CASE x # 0
    <3>1. PICK u \in Nodes : /\ b \in Keys(u) /\ x = NextState(u, b) /\ Ends(W[u], t)
                            /\ Len(W[x]) = Len(W[u]) + 1
      BY <1>5, <2>2, EndIsChild
    <3>2. Len(W[u]) < m
      BY <1>1, <1>5, <3>1
    <3>3. Len(W[u]) <= Len(W[s])
      BY <3>1, <3>2 DEF LongestEnd
    <3>4. Ends(W[u], W[s])
      BY <1>1, <1>2, <3>1, <3>3, EndsNested
    <3>5. Len(W[u]) <= Len(W[g])
      BY <3>1, <3>4 DEF ChaseEnds
    <3>6. b \in Keys(g)
      <4>1. SUFFICES ASSUME g = 0 PROVE b \in Keys(g)
        BY <1>2
      <4>2. Len(W[u]) = 0
        BY <1>1, <1>2, <3>5, <4>1, NodeFacts
      <4>3. u = 0
        BY <4>2, NodeFacts
      <4>4. QED
        BY <3>1, <4>1, <4>3
    <3>7. QED
      BY <1>1, <1>2, <1>4, <3>1, <3>5, <3>6
  <2>3. QED
    BY <2>1, <2>2
<1>6. QED
  BY <1>4, <1>5 DEF LongestEnd, e

-----------------------------------------------------------------------------
(* The build keeps the trie *)

USE DEF pattern_count, pattern_length

BuildInv(W) ==
    /\ Shape /\ Spells(W) /\ Holds(W) /\ Cursor(W) /\ Links(W) /\ Levels(W)

\* Nothing but the build touches the automaton.
LEMMA BuildUnchanged ==
    ASSUME NEW W, BuildInv(W), UNCHANGED build_vars,
           pc' = pc \/ (Built /\ pc' \in {"idle", "slice"})
    PROVE  BuildInv(W)'
<1> USE DEF build_vars, Built
<1>1. Shape' /\ Spells(W)'
  <2>1. Shape'
    BY DEF BuildInv, Shape, Nodes, Keys, NextState, Failure
  <2>2. Spells(W)'
    BY DEF BuildInv, Spells, Nodes, Keys, NextState
  <2>3. QED
    BY <2>1, <2>2
<1>2. Holds(W)'
  <2>1. \A w : Inserted(w)' <=> Inserted(w)
    BY DEF Inserted, InsertedLength, Indices, Pattern
  <2>2. QED
    BY <2>1 DEF BuildInv, Holds, Nodes
<1>3. Cursor(W)'
  BY DEF BuildInv, Cursor, Pattern
<1>4. Levels(W)'
  BY DEF BuildInv, Levels, Nodes
<1>5. \A s \in Nodes : /\ (Awaits(W, s))' <=> Awaits(W, s)
                       /\ (Unlinked(W, s))' <=> Unlinked(W, s)
                       /\ (Linked(W, s))' <=> Linked(W, s)
  BY DEF Awaits, Unlinked, Linked, LongestEnd, EndingIn, Nodes, Indices, Failure, Pattern
<1>6. Links(W)'
  BY <1>5 DEF BuildInv, Links, Nodes, Failure
<1>7. QED
  BY <1>1, <1>2, <1>3, <1>4, <1>6 DEF BuildInv

\* The state the current byte leads from.
LEMMA CursorFacts ==
    ASSUME NEW W, BuildInv(W), Inserting
    PROVE  /\ pc = "insert" /\ pattern_index \in Indices /\ Pattern(pattern_index) \in Word
           /\ node \in Nodes /\ Len(W[node]) = offset
           /\ Begins(W[node], Pattern(pattern_index))
           /\ offset <= pattern_length(pattern_index)
<1>1. pattern_count \in Nat /\ pattern_index \in Nat /\ pattern_index < pattern_count
  BY DEF BuildInv, Shape, Inserting
<1>2. pattern_index \in Indices
  BY <1>1 DEF Indices
<1>3. Pattern(pattern_index) \in Word
  BY <1>1, ElementOfSeq DEF BuildInv, Shape, Pattern
<1>4. Len(W[node]) = offset /\ Begins(W[node], Pattern(pattern_index))
  BY <1>1 DEF BuildInv, Cursor
<1>5. offset <= pattern_length(pattern_index)
  BY <1>4 DEF Begins
<1>6. QED
  BY <1>2, <1>3, <1>4, <1>5 DEF BuildInv, Shape, Inserting

\* One more byte of the current pattern is in the trie.
LEMMA OneMoreInserted ==
    ASSUME NEW W, BuildInv(W), InsertByte, NEW v \in Word,
           v = Append(W[node], Pattern(pattern_index)[offset + 1])
    PROVE  /\ \A w \in Word : Inserted(w)' <=> Inserted(w) \/ w = v
           /\ Begins(v, Pattern(pattern_index)) /\ Len(v) = offset + 1
<1> DEFINE b == Pattern(pattern_index)[offset + 1]
<1>1. /\ pattern_index \in Indices /\ Pattern(pattern_index) \in Word
      /\ node \in Nodes /\ Len(W[node]) = offset
      /\ Begins(W[node], Pattern(pattern_index)) /\ offset < pattern_length(pattern_index)
      /\ offset \in Nat
  BY CursorFacts DEF InsertByte, BuildInv, Shape
<1>2. W[node] \in Word
  BY <1>1, NodeFacts DEF BuildInv
<1>3. b \in Byte
  <2>1. offset + 1 \in 1 .. Len(Pattern(pattern_index))
    BY <1>1, WordProperties
  <2>2. QED
    BY <1>1, <2>1, WordProperties
<1>4. /\ Len(v) = offset + 1 /\ v[offset + 1] = b
      /\ \A i \in 1 .. offset : v[i] = W[node][i]
  BY <1>1, <1>2, <1>3, AppendWord
<1>5. Begins(v, Pattern(pattern_index))
  <2>1. \A i \in 1 .. offset : v[i] = Pattern(pattern_index)[i]
    BY <1>1, <1>4 DEF Begins
  <2>2. Len(v) <= Len(Pattern(pattern_index))
    BY <1>1, <1>4, WordProperties
  <2>3. \A i \in 1 .. Len(v) : v[i] = Pattern(pattern_index)[i]
    BY <1>1, <1>4, <2>1
  <2>4. QED
    BY <2>2, <2>3 DEF Begins
<1>6. /\ UNCHANGED <<patterns, pattern_index>> /\ offset' = offset + 1
      /\ \A p \in Indices : p \in Int /\ pattern_length(p) \in Nat
      /\ Indices' = Indices /\ \A p : Pattern(p)' = Pattern(p)
  BY WordProperties, SMTT(30) DEF InsertByte, BuildInv, Shape, Indices, Pattern
<1>7. /\ \A p \in Indices : p # pattern_index => InsertedLength(p)' = InsertedLength(p)
      /\ InsertedLength(pattern_index) = offset
      /\ \A p \in Indices : p = pattern_index => InsertedLength(p)' = offset + 1
  BY <1>1, <1>6 DEF InsertedLength, Pattern
<1>8. ASSUME NEW w \in Word PROVE Inserted(w)' <=> Inserted(w) \/ w = v
  <2>1. Len(w) \in Nat
    BY WordProperties
  <2>2. ASSUME Inserted(w) PROVE Inserted(w)'
    BY <1>1, <1>6, <1>7, <2>1, <2>2 DEF Inserted
  <2>3. ASSUME w = v PROVE Inserted(w)'
    <3>1. Len(w) <= InsertedLength(pattern_index)'
      BY <1>1, <1>4, <1>6, <1>7, <2>3
    <3>2. \E p \in Indices' : Len(w) <= InsertedLength(p)' /\ Begins(w, Pattern(p)')
      BY <1>1, <1>5, <1>4, <1>6, <1>7, <2>3
    <3>3. QED
      BY <3>2 DEF Inserted
  <2>4. ASSUME Inserted(w)', ~Inserted(w) PROVE w = v
    <3>1. w # << >> /\ \E p \in Indices : Len(w) <= InsertedLength(p)' /\ Begins(w, Pattern(p))
      BY <1>6, <2>4 DEF Inserted
    <3>2. PICK p \in Indices : Len(w) <= InsertedLength(p)' /\ Begins(w, Pattern(p))
      BY <3>1
    <3>3. ~(Len(w) <= InsertedLength(p))
      BY <2>4, <3>2 DEF Inserted
    <3>4. p = pattern_index
      BY <1>7, <3>2, <3>3
    <3>5. Len(w) = offset + 1
      BY <1>1, <1>7, <2>1, <3>2, <3>3, <3>4
    <3>6. QED
      BY <1>1, <1>4, <1>5, <3>2, <3>4, <3>5, SameLengthBegins
  <2>5. QED
    BY <2>2, <2>3, <2>4
<1>9. QED
  BY <1>4, <1>5, <1>8

\* While patterns are inserted no state has its links.
LEMMA UnlinkedWhileInserting ==
    ASSUME NEW W, BuildInv(W), pc = "insert"
    PROVE  /\ queue = << >> /\ Failure(0) = 0 /\ states[0].outputs = << >>
           /\ \A s \in Nodes \ {0} : IsInjective(states[s].outputs) /\ Unlinked(W, s)
BY DEF BuildInv, Links, Levels, Awaits

\* The byte's transition is there already.
LEMMA InsertFollows ==
    ASSUME NEW W, BuildInv(W), InsertByte, Pattern(pattern_index)[offset + 1] \in Keys(node)
    PROVE  BuildInv(W)'
<1> DEFINE b == Pattern(pattern_index)[offset + 1]
           v == Append(W[node], b)
<1>1. /\ pc = "insert" /\ pattern_index \in Indices /\ Pattern(pattern_index) \in Word
      /\ node \in Nodes /\ offset < pattern_length(pattern_index) /\ offset \in Nat
      /\ Shape /\ Spells(W)
  BY CursorFacts DEF InsertByte, BuildInv, Shape
<1>2. /\ node' = NextState(node, b) /\ states' = states /\ offset' = offset + 1
      /\ UNCHANGED <<patterns, pattern_index, queue, pc>>
  BY DEF InsertByte
<1>3. node' \in Nodes /\ W[node'] = v /\ v \in Word
  <2>1. b \in Keys(node)
    OBVIOUS
  <2> HIDE DEF b
  <2>2. /\ NextState(node, b) \in Nodes /\ b \in Byte /\ W[NextState(node, b)] = v
        /\ W[node] \in Word
    BY <1>1, <2>1, ChildFacts, NodeFacts
  <2>3. QED
    BY <1>2, <2>2, AppendWord
<1>4. /\ \A w \in Word : Inserted(w)' <=> Inserted(w) \/ w = v
      /\ Begins(v, Pattern(pattern_index)) /\ Len(v) = offset + 1
  BY <1>3, OneMoreInserted
<1>5. Shape'
  BY <1>1, <1>2, <1>3, SMTT(30) DEF Shape, Nodes, Keys, NextState, Failure
<1>6. Spells(W)'
  BY <1>1, <1>2 DEF Spells, Nodes, Keys, NextState
<1>7. Holds(W)'
  BY <1>2, <1>3, <1>4 DEF BuildInv, Holds, Nodes
<1>8. Cursor(W)'
  <2>1. Len(W[node']) = offset' /\ Begins(W[node'], Pattern(pattern_index)')
    BY <1>2, <1>3, <1>4 DEF Pattern
  <2>2. pattern_index' < pattern_count'
    BY <1>2 DEF InsertByte, Inserting
  <2>3. QED
    BY <1>1, <1>2, <2>1, <2>2 DEF Cursor, Pattern
<1>9. Links(W)' /\ Levels(W)'
  <2>1. \A s \in Nodes : Unlinked(W, s) => Unlinked(W, s)'
    BY <1>2 DEF Unlinked, Failure, Indices, Pattern
  <2>2. Links(W)'
    BY <1>1, <1>2, <2>1, UnlinkedWhileInserting DEF Links, Awaits, Nodes, Failure
  <2>3. Levels(W)'
    <3>1. queue' = << >> /\ << >> \in Seq(Nodes' \ {0}) /\ DOMAIN << >> = {}
      BY <1>1, <1>2, UnlinkedWhileInserting, EmptySeq
    <3>2. QED
      BY <3>1 DEF Levels
  <2>4. QED
    BY <2>2, <2>3
<1>10. QED
  BY <1>5, <1>6, <1>7, <1>8, <1>9 DEF BuildInv

\* The byte needs a state of its own.
LEMMA InsertGrows ==
    ASSUME NEW W, BuildInv(W), InsertByte, Pattern(pattern_index)[offset + 1] \notin Keys(node)
    PROVE  \E V : BuildInv(V)'
<1>0. PICK n, b, k, v, V :
        /\ n = node /\ b = Pattern(pattern_index)[offset + 1] /\ k = Cardinality(Nodes)
        /\ v = Append(W[node], b) /\ V = Extended(W, k, v)
  OBVIOUS
<1>1. /\ pc = "insert" /\ pattern_index \in Indices /\ Pattern(pattern_index) \in Word
      /\ offset < pattern_length(pattern_index) /\ offset \in Nat
      /\ node \in Nodes /\ Begins(W[node], Pattern(pattern_index))
      /\ Shape /\ Spells(W) /\ offset + 1 \in 1 .. Len(Pattern(pattern_index))
  <2>1. Len(Pattern(pattern_index)) \in Nat
    BY CursorFacts, WordProperties DEF InsertByte
  <2>2. QED
    BY <2>1, CursorFacts DEF InsertByte, BuildInv, Shape
<1>3. /\ n \in Nodes /\ b \in Byte /\ b \notin Keys(n) /\ W[n] \in Word /\ v = Append(W[n], b)
  BY <1>0, <1>1, NodeFacts, WordProperties
<1>4. v \in Word /\ Len(v) = Len(W[n]) + 1
  BY <1>3, AppendWord
<1>5. /\ \A w \in Word : Inserted(w)' <=> Inserted(w) \/ w = v
      /\ Begins(v, Pattern(pattern_index)) /\ Len(v) = offset + 1
  BY <1>0, <1>4, OneMoreInserted
<1>6. /\ k \in Nat \ {0} /\ Nodes = 0 .. k - 1 /\ 0 \in Nodes
      /\ \A s \in Nodes : W[s] \in Word /\ Len(W[s]) \in Nat
      /\ \A s \in Nodes : Len(W[s]) = 0 <=> s = 0
  BY <1>0, <1>1, NodeFacts
<1>7. /\ states' = Extended([states EXCEPT ![n].goto = Extended(@, b, k)], k, EmptyState)
      /\ node' = k /\ offset' = offset + 1
      /\ UNCHANGED <<patterns, pattern_index, queue, pc>>
  BY <1>0, <1>3 DEF InsertByte, Nodes
<1>8. k \notin Nodes /\ Nodes \cup {k} = 0 .. k /\ k + 1 \in Nat \ {0} /\ 0 .. (k + 1) - 1 = 0 .. k
  BY <1>6
<1>9. /\ Nodes' = Nodes \cup {k}
      /\ states'[k] = EmptyState
      /\ \A s \in Nodes : s # n => states'[s] = states[s]
      /\ states'[n] = [goto |-> Extended(states[n].goto, b, k),
                       failure |-> states[n].failure, outputs |-> states[n].outputs]
  BY <1>1, <1>3, <1>7, <1>8 DEF Extended, Nodes, Shape, StateRecord
<1>10. /\ \A s \in Nodes : s # n => (Keys(s))' = Keys(s)
       /\ (Keys(n))' = Keys(n) \cup {b} /\ (Keys(k))' = {}
       /\ \A s \in Nodes : \A a \in Keys(s) : (NextState(s, a))' = NextState(s, a)
       /\ (NextState(n, b))' = k
       /\ \A s \in Nodes : (Failure(s))' = Failure(s) /\ states'[s].outputs = states[s].outputs
       /\ (Failure(k))' = 0 /\ states'[k].outputs = << >>
  <2>1. /\ \A s \in Nodes : s # n => (Keys(s))' = Keys(s)
        /\ \A s \in Nodes : s # n => \A a \in Keys(s) : (NextState(s, a))' = NextState(s, a)
    BY <1>9 DEF Keys, NextState
  <2>2. states'[n].goto = Extended(states[n].goto, b, k)
    BY <1>9
  <2>3. /\ (Keys(n))' = Keys(n) \cup {b}
        /\ \A a \in Keys(n) : (NextState(n, a))' = NextState(n, a)
        /\ (NextState(n, b))' = k
    BY <1>3, <2>2 DEF Keys, NextState, Extended
  <2>4. (Keys(k))' = {} /\ (Failure(k))' = 0 /\ states'[k].outputs = << >>
    BY <1>9 DEF Keys, Failure, EmptyState
  <2>5. \A s \in Nodes : (Failure(s))' = Failure(s) /\ states'[s].outputs = states[s].outputs
    BY <1>9 DEF Failure
  <2>6. QED
    BY <2>1, <2>3, <2>4, <2>5
<1>11. /\ DOMAIN V = Nodes' /\ V[k] = v /\ \A s \in Nodes : V[s] = W[s]
  BY <1>0, <1>1, <1>8, <1>9 DEF Extended, Spells
<1>12. V \in [Nodes' -> Word]
  <2>1. V = [y \in DOMAIN V |-> V[y]]
    BY <1>0 DEF Extended
  <2>2. \A y \in Nodes' : V[y] \in Word
    BY <1>4, <1>6, <1>9, <1>11
  <2>3. QED
    BY <1>11, <2>1, <2>2
<1>13. \A t \in Nodes : W[t] # v
  <2>1. SUFFICES ASSUME NEW t \in Nodes, W[t] = v PROVE FALSE
    OBVIOUS
  <2>2. t # 0
    BY <1>4, <1>3, <1>6, <2>1
  <2>3. PICK r \in Nodes : \E a \in Keys(r) :
              /\ t = NextState(r, a) /\ a \in Byte /\ W[t] = Append(W[r], a)
              /\ Len(W[t]) = Len(W[r]) + 1
    BY <1>1, <2>2, ParentFacts
  <2>4. PICK a \in Keys(r) : a \in Byte /\ W[t] = Append(W[r], a)
    BY <2>3
  <2> DEFINE x == W[r]
             y == W[n]
  <2>5. x \in Seq(Byte) /\ y \in Seq(Byte) /\ Append(x, a) = Append(y, b) /\ a \in Byte
    BY <1>3, <1>6, <2>1, <2>4 DEF Word
  <2>6. x = y /\ a = b
    <3> HIDE DEF x, y
    <3>1. QED
      BY <1>3, <2>5, AppendInjective
  <2>7. r = n
    BY <1>1, <1>3, <2>6 DEF Spells
  <2>8. QED
    BY <1>3, <2>6, <2>7
<1>14. Shape'
  <2>1. states' \in [Nodes' -> StateRecord]
    <3>1. \A y \in Nodes : y # n => states'[y] \in StateRecord
      BY <1>1, <1>9 DEF Shape
    <3>2. EmptyState \in StateRecord
      <4>1. [a \in {} |-> 0] \in Maps
        <5>1. [a \in {} |-> 0] \in [{} -> Nat] /\ {} \in SUBSET Byte
          OBVIOUS
        <5>2. QED
          BY <5>1 DEF Maps
      <4>2. QED
        BY <4>1 DEF EmptyState, StateRecord
    <3>3. states'[n] \in StateRecord
      <4>1. states[n] \in StateRecord
        BY <1>1, <1>3 DEF Shape
      <4>2. Extended(states[n].goto, b, k) \in Maps
        <5>1. PICK K \in SUBSET Byte : states[n].goto \in [K -> Nat]
          BY <4>1 DEF StateRecord, Maps
        <5>2. Extended(states[n].goto, b, k) \in [K \cup {b} -> Nat] /\ K \cup {b} \in SUBSET Byte
          BY <1>3, <1>6, <5>1 DEF Extended
        <5>3. QED
          BY <5>2 DEF Maps
      <4>3. QED
        BY <1>9, <4>1, <4>2 DEF StateRecord
    <3>4. \A y \in Nodes' : states'[y] \in StateRecord
      BY <1>9, <3>1, <3>2, <3>3
    <3>5. states' = [y \in Nodes' |-> states'[y]]
      BY <1>7 DEF Extended, Nodes
    <3>6. QED
      BY <3>4, <3>5
  <2>2. \A s \in Nodes' : /\ IsFiniteSet((Keys(s))') /\ (Failure(s))' \in Nodes'
                          /\ \A a \in (Keys(s))' : (NextState(s, a))' \in Nodes'
    <3>1. /\ \A s \in Nodes : IsFiniteSet(Keys(s)) /\ Failure(s) \in Nodes
          /\ \A s \in Nodes : \A a \in Keys(s) : NextState(s, a) \in Nodes
      BY <1>1 DEF Shape
    <3>2. IsFiniteSet(Keys(n) \cup {b}) /\ IsFiniteSet({})
      BY <1>3, <3>1, FS_AddElement, FS_EmptySet
    <3>3. \A s \in Nodes : s # n =>
            /\ IsFiniteSet((Keys(s))') /\ (Failure(s))' \in Nodes'
            /\ \A a \in (Keys(s))' : (NextState(s, a))' \in Nodes'
      BY <1>9, <1>10, <3>1
    <3>4. /\ IsFiniteSet((Keys(n))') /\ (Failure(n))' \in Nodes'
          /\ \A a \in (Keys(n))' : (NextState(n, a))' \in Nodes'
      BY <1>3, <1>9, <1>10, <3>1, <3>2
    <3>5. /\ IsFiniteSet((Keys(k))') /\ (Failure(k))' \in Nodes'
          /\ \A a \in (Keys(k))' : (NextState(k, a))' \in Nodes'
      BY <1>6, <1>9, <1>10, <3>2
    <3>6. QED
      BY <1>9, <3>3, <3>4, <3>5
  <2>3. /\ Nodes' = 0 .. (k + 1) - 1 /\ k + 1 \in Nat \ {0} /\ node' \in Nodes' /\ offset' \in Nat
    BY <1>1, <1>7, <1>8, <1>9
  <2>4. \E m \in Nat \ {0} : Nodes' = 0 .. m - 1
    BY <2>3
  <2>5. /\ patterns' \in Seq(Word) /\ pattern_index' \in 0 .. pattern_count'
        /\ pc' \in {"insert", "link", "idle", "slice"}
    BY <1>1, <1>7 DEF Shape
  <2>6. QED
    BY <2>1, <2>2, <2>3, <2>4, <2>5 DEF Shape
<1>15. Spells(V)'
  <2>1. V[0] = << >>
    BY <1>1, <1>6, <1>11 DEF Spells
  <2>2. ASSUME NEW s \in Nodes', NEW a \in (Keys(s))'
        PROVE  V[(NextState(s, a))'] = Append(V[s], a)
    <3>1. CASE s \in Nodes /\ a \in Keys(s)
      <4>1. NextState(s, a) \in Nodes /\ W[NextState(s, a)] = Append(W[s], a)
        BY <1>1, <3>1 DEF Shape, Spells
      <4>2. QED
        BY <1>10, <1>11, <3>1, <4>1
    <3>2. CASE ~(s \in Nodes /\ a \in Keys(s))
      <4>1. s = n /\ a = b
        BY <1>9, <1>10, <3>2, <2>2
      <4>2. QED
        BY <1>3, <1>10, <1>11, <4>1
    <3>3. QED
      BY <3>1, <3>2
  <2>3. \A s, t \in Nodes' : V[s] = V[t] => s = t
    <3>1. \A s, t \in Nodes : W[s] = W[t] => s = t
      BY <1>1 DEF Spells
    <3>2. QED
      BY <1>9, <1>11, <1>13, <3>1
  <2>4. ASSUME NEW s \in Nodes' \ {0}
        PROVE  \E r \in Nodes' : \E a \in (Keys(r))' : s = (NextState(r, a))'
    <3>1. CASE s \in Nodes
      <4>1. PICK r \in Nodes : \E a \in Keys(r) : s = NextState(r, a)
        BY <1>1, <3>1 DEF Spells
      <4>2. PICK a \in Keys(r) : s = NextState(r, a)
        BY <4>1
      <4>3. a \in (Keys(r))' /\ s = (NextState(r, a))' /\ r \in Nodes'
        BY <1>9, <1>10, <4>2
      <4>4. QED
        BY <4>3
    <3>2. CASE s = k
      BY <1>3, <1>9, <1>10, <3>2
    <3>3. QED
      BY <1>9, <3>1, <3>2
  <2>5. QED
    BY <1>12, <2>1, <2>2, <2>3, <2>4 DEF Spells
<1>16. Holds(V)'
  <2>1. \A w \in Word : Inserted(w) <=> \E s \in Nodes : W[s] = w
    BY DEF BuildInv, Holds
  <2>2. \A w : (\E s \in Nodes' : V[s] = w) <=> (\E s \in Nodes : W[s] = w) \/ w = v
    BY <1>9, <1>11
  <2>3. \A w \in Word : Inserted(w)' <=> \E s \in Nodes' : V[s] = w
    BY <1>5, <2>1, <2>2
  <2>4. QED
    BY <2>3 DEF Holds
<1>17. Cursor(V)'
  <2>1. Len(V[node']) = offset' /\ Begins(V[node'], (Pattern(pattern_index))')
    BY <1>5, <1>7, <1>11 DEF Pattern
  <2>2. pattern_index' < pattern_count'
    BY <1>7 DEF InsertByte, Inserting
  <2>3. QED
    BY <1>1, <1>7, <2>1, <2>2 DEF Cursor, Pattern
<1>18. Links(V)' /\ Levels(V)'
  <2>1. ASSUME NEW s \in Nodes' \ {0} PROVE IsInjective(states'[s].outputs) /\ Unlinked(V, s)'
    <3>1. CASE s \in Nodes
      <4>1. IsInjective(states[s].outputs) /\ Unlinked(W, s)
        BY <1>1, <3>1, UnlinkedWhileInserting
      <4>2. QED
        BY <1>7, <1>10, <1>11, <3>1, <4>1, ZenonT(40) DEF Unlinked, Failure, Indices, Pattern
    <3>2. CASE s = k
      <4>1. IsInjective(<< >>) /\ Range(<< >>) = {}
        BY DEF IsInjective, Range
      <4>2. \A p \in Indices : p < pattern_index /\ Len(Pattern(p)) > 0 => Pattern(p) # v
        <5>1. SUFFICES ASSUME NEW p \in Indices, p < pattern_index, Pattern(p) = v PROVE FALSE
          OBVIOUS
        <5>2. InsertedLength(p) = Len(v) /\ Begins(v, Pattern(p))
          BY <1>4, <5>1, WordProperties DEF InsertedLength, Begins
        <5>3. Inserted(v)
          BY <1>4, <5>2, WordProperties DEF Inserted
        <5>4. QED
          BY <1>4, <1>13, <5>3 DEF BuildInv, Holds
      <4>3. Unlinked(V, s)'
        <5>1. { p \in Indices' : p < pattern_index' /\ (pattern_length(p))' > 0
                                 /\ (Pattern(p))' = V[s] } = {}
          BY <1>7, <1>11, <3>2, <4>2 DEF Indices, Pattern
        <5>2. (Failure(s))' = 0 /\ Range(states'[s].outputs) = {}
          BY <1>10, <3>2, <4>1
        <5>3. QED
          BY <5>1, <5>2 DEF Unlinked
      <4>4. QED
        BY <1>10, <3>2, <4>1, <4>3
    <3>3. QED
      BY <1>9, <3>1, <3>2
  <2>2. (Failure(0))' = 0 /\ states'[0].outputs = << >>
    BY <1>1, <1>6, <1>10, UnlinkedWhileInserting
  <2>3. Links(V)'
    BY <1>1, <1>7, <2>1, <2>2 DEF Links, Awaits
  <2>4. Levels(V)'
    <3>1. queue' = << >> /\ << >> \in Seq(Nodes' \ {0}) /\ DOMAIN << >> = {}
      BY <1>1, <1>7, UnlinkedWhileInserting, EmptySeq
    <3>2. QED
      BY <3>1 DEF Levels
  <2>5. QED
    BY <2>3, <2>4
<1>19. QED
  BY <1>14, <1>15, <1>16, <1>17, <1>18 DEF BuildInv

LEMMA InsertByteKeeps ==
    ASSUME NEW W, BuildInv(W), InsertByte
    PROVE  \E V : BuildInv(V)'
BY InsertFollows, InsertGrows

\* A pattern is in.
LEMMA InsertDoneKeeps ==
    ASSUME NEW W, BuildInv(W), InsertDone
    PROVE  BuildInv(W)'
<1>1. /\ pc = "insert" /\ pattern_index \in Indices /\ Pattern(pattern_index) \in Word
      /\ offset = pattern_length(pattern_index)
      /\ node \in Nodes /\ Len(W[node]) = offset /\ Begins(W[node], Pattern(pattern_index))
      /\ Shape /\ Spells(W) /\ patterns \in Seq(Word)
  BY CursorFacts DEF InsertDone, BuildInv, Shape
<1>2. PICK n, q : n = node /\ q = pattern_index
  OBVIOUS
<1>3. /\ states' = IF offset = 0 THEN states
                   ELSE [states EXCEPT ![n].outputs = Append(@, q)]
      /\ pattern_index' = q + 1 /\ offset' = 0 /\ node' = 0
      /\ UNCHANGED <<patterns, queue, pc>>
  BY <1>2 DEF InsertDone
<1>4. /\ 0 \in Nodes /\ \A s \in Nodes : W[s] \in Word /\ Len(W[s]) \in Nat
      /\ \A s \in Nodes : Len(W[s]) = 0 <=> s = 0
  BY <1>1, NodeFacts
<1>5. W[n] = Pattern(q)
  <2>1. Len(W[n]) = Len(Pattern(q)) /\ \A i \in 1 .. Len(W[n]) : W[n][i] = Pattern(q)[i]
    BY <1>1, <1>2 DEF Begins
  <2>2. QED
    BY <1>1, <1>2, <1>4, <2>1, EqualWords
<1>6. offset = 0 <=> n = 0
  BY <1>1, <1>2, <1>4
<1>7. /\ pattern_count \in Nat /\ q \in Nat /\ q < pattern_count /\ q + 1 \in 0 .. pattern_count
      /\ \A p \in Indices : p \in Nat /\ Len(Pattern(p)) \in Nat
  <2>1. pattern_count \in Nat /\ q \in Nat /\ q < pattern_count
    BY <1>1, <1>2 DEF Indices
  <2>2. \A p \in Indices : p \in Nat /\ p + 1 \in 1 .. Len(patterns)
    BY <2>1 DEF Indices
  <2>3. \A p \in Indices : Pattern(p) \in Word
    BY <1>1, <2>2, ElementOfSeq DEF Pattern
  <2>4. QED
    BY <2>1, <2>2, <2>3, WordProperties
<1>8. /\ Nodes' = Nodes
      /\ \A s \in Nodes : /\ (Keys(s))' = Keys(s) /\ (Failure(s))' = Failure(s)
                          /\ \A a : (NextState(s, a))' = NextState(s, a)
                          /\ s # n => states'[s].outputs = states[s].outputs
      /\ n = 0 => states'[n].outputs = states[n].outputs
      /\ n # 0 => states'[n].outputs = Append(states[n].outputs, q)
      /\ states' \in [Nodes -> StateRecord]
  <2>1. CASE n = 0
    BY <1>1, <1>3, <1>6, <2>1 DEF Shape, Nodes, Keys, Failure, NextState
  <2>2. CASE n # 0
    <3>1. states' = [states EXCEPT ![n].outputs = Append(@, q)]
      BY <1>3, <1>6, <2>2
    <3>2. /\ states \in [Nodes -> StateRecord] /\ n \in Nodes
      BY <1>1, <1>2 DEF Shape
    <3>3. Append(states[n].outputs, q) \in Seq(Nat)
      BY <1>7, <3>2 DEF StateRecord
    <3>4. /\ states' \in [Nodes -> StateRecord]
          /\ \A s \in Nodes : s # n => states'[s] = states[s]
          /\ states'[n] = [goto |-> states[n].goto, failure |-> states[n].failure,
                           outputs |-> Append(states[n].outputs, q)]
      BY <3>1, <3>2, <3>3 DEF StateRecord
    <3>5. Nodes' = Nodes
      BY <3>2, <3>4 DEF Nodes
    <3>6. \A s \in Nodes : /\ states'[s].goto = states[s].goto
                           /\ states'[s].failure = states[s].failure
                           /\ s # n => states'[s].outputs = states[s].outputs
      BY <3>4
    <3>7. QED
      BY <2>2, <3>4, <3>5, <3>6 DEF Keys, Failure, NextState
  <2>3. QED
    BY <2>1, <2>2
<1>9. Shape'
  <2>1. \E k \in Nat \ {0} : Nodes' = 0 .. k - 1
    BY <1>1, <1>8 DEF Shape
  <2>2. \A s \in Nodes' : /\ IsFiniteSet((Keys(s))') /\ (Failure(s))' \in Nodes'
                          /\ \A a \in (Keys(s))' : (NextState(s, a))' \in Nodes'
    BY <1>1, <1>8, ZenonT(40) DEF Shape
  <2>3. /\ patterns' \in Seq(Word) /\ pattern_index' \in 0 .. pattern_count'
        /\ pc' \in {"insert", "link", "idle", "slice"} /\ offset' \in Nat /\ node' \in Nodes'
    BY <1>1, <1>3, <1>4, <1>7, <1>8 DEF Shape
  <2>4. QED
    BY <1>8, <2>1, <2>2, <2>3 DEF Shape
<1>10. Spells(W)'
  BY <1>1, <1>8 DEF Spells
<1>11. Holds(W)'
  <2>1. \A p \in Indices : InsertedLength(p)' = InsertedLength(p)
    BY <1>1, <1>2, <1>3, <1>7 DEF InsertedLength, Pattern
  <2>2. \A w : Inserted(w)' <=> Inserted(w)
    BY <1>3, <2>1 DEF Inserted, Indices, Pattern
  <2>3. QED
    BY <1>8, <2>2 DEF BuildInv, Holds
<1>12. Cursor(W)'
  <2>1. Len(W[node']) = offset' /\ W[node'] = << >>
    BY <1>1, <1>3, <1>4 DEF Spells
  <2>2. \A p \in Indices : Begins(<< >>, Pattern(p))
    <3>1. Len(<< >>) = 0
      OBVIOUS
    <3>2. QED
      BY <1>7, <3>1 DEF Begins
  <2>3. pattern_index' < pattern_count' => Begins(W[node'], (Pattern(pattern_index))')
    BY <1>3, <1>7, <2>1, <2>2 DEF Indices, Pattern
  <2>4. QED
    BY <1>1, <1>3, <2>1, <2>3 DEF Cursor, Pattern
<1>13. Links(W)'
  <2>1. ASSUME NEW s \in Nodes \ {0} PROVE IsInjective(states'[s].outputs) /\ Unlinked(W, s)'
    <3> DEFINE o == states[s].outputs
    <3>1. /\ IsInjective(o) /\ Failure(s) = 0
          /\ Range(o) = { p \in Indices : p < q /\ pattern_length(p) > 0 /\ Pattern(p) = W[s] }
          /\ o \in Seq(Nat)
      <4>1. IsInjective(o) /\ Unlinked(W, s)
        BY <1>1, UnlinkedWhileInserting
      <4>2. o \in Seq(Nat)
        BY <1>1 DEF Shape, StateRecord
      <4>3. QED
        BY <1>2, <4>1, <4>2 DEF Unlinked
    <3>2. \A p \in Indices : p < q + 1 <=> p < q \/ p = q
      BY <1>7
    <3>3. q \in Indices /\ (Pattern(q) = W[s] <=> s = n)
      BY <1>1, <1>2, <1>5 DEF Spells
    <3>4. CASE s = n
      <4>1. states'[s].outputs = Append(o, q) /\ q \notin Range(o)
        BY <1>7, <1>8, <3>1, <3>4
      <4>2. pattern_length(q) > 0
        BY <1>1, <1>2, <1>6, <1>7, <3>4
      <4> HIDE DEF o
      <4>3. IsInjective(Append(o, q)) /\ Range(Append(o, q)) = Range(o) \cup {q}
        BY <1>7, <3>1, <4>1, AppendInjects, SMTT(30)
      <4>4. Range(states'[s].outputs) = { p \in Indices : p < q + 1 /\ pattern_length(p) > 0 /\ Pattern(p) = W[s] }
        BY <3>1, <3>2, <3>3, <3>4, <4>1, <4>2, <4>3
      <4>5. QED
        BY <1>3, <1>8, <3>1, <4>1, <4>3, <4>4 DEF Unlinked, Indices, Pattern
    <3>5. CASE s # n
      <4>1. states'[s].outputs = o
        BY <1>8, <3>5
      <4> HIDE DEF o
      <4>2. Range(o) = { p \in Indices : p < q + 1 /\ pattern_length(p) > 0 /\ Pattern(p) = W[s] }
        BY <3>1, <3>2, <3>3, <3>5
      <4>3. QED
        BY <1>3, <1>8, <3>1, <4>1, <4>2 DEF Unlinked, Indices, Pattern
    <3>6. QED
      BY <3>4, <3>5
  <2>2. (Failure(0))' = 0 /\ states'[0].outputs = << >>
    BY <1>1, <1>4, <1>8, UnlinkedWhileInserting
  <2>3. QED
    BY <1>1, <1>3, <1>8, <2>1, <2>2 DEF Links, Awaits
<1>14. Levels(W)'
  <2>1. queue' = << >> /\ << >> \in Seq(Nodes' \ {0}) /\ DOMAIN << >> = {}
    BY <1>1, <1>3, UnlinkedWhileInserting, EmptySeq
  <2>2. QED
    BY <2>1 DEF Levels
<1>15. QED
  BY <1>9, <1>10, <1>11, <1>12, <1>13, <1>14 DEF BuildInv

LEMMA BeginsNested ==
    ASSUME NEW u \in Word, NEW v \in Word, NEW t \in Word, Begins(u, t), Begins(v, t), Len(u) <= Len(v)
    PROVE  Begins(u, v)
<1>1. \A i \in 1 .. Len(u) : i \in 1 .. Len(v)
  BY WordProperties
<1>2. QED
  BY <1>1 DEF Begins

LEMMA PatternFacts ==
    ASSUME Shape
    PROVE  \A p \in Indices : p \in Nat /\ Pattern(p) \in Word /\ Len(Pattern(p)) \in Nat
<1>1. patterns \in Seq(Word)
  BY DEF Shape
<1>2. \A p \in Indices : p \in Nat /\ p + 1 \in 1 .. Len(patterns)
  BY <1>1 DEF Indices
<1>3. \A p \in Indices : Pattern(p) \in Word
  BY <1>1, <1>2, ElementOfSeq DEF Pattern
<1>4. QED
  BY <1>2, <1>3, WordProperties

\* Once all patterns are in, each is spelled by a state.
LEMMA PatternHasState ==
    ASSUME NEW W, BuildInv(W), pc # "insert", NEW p \in Indices
    PROVE  \E s \in Nodes : W[s] = Pattern(p)
<1>1. pattern_index = pattern_count
  BY DEF BuildInv, Cursor
<1>2. Pattern(p) \in Word /\ Len(Pattern(p)) \in Nat
  BY PatternFacts DEF BuildInv
<1>3. InsertedLength(p) = Len(Pattern(p)) /\ Begins(Pattern(p), Pattern(p))
  BY <1>1, <1>2 DEF InsertedLength, Begins, Indices, BuildInv, Shape
<1>4. Inserted(Pattern(p))
  BY <1>2, <1>3 DEF Inserted
<1>5. QED
  BY <1>2, <1>4 DEF BuildInv, Holds

\* The children of a state, each once.
LEMMA ChildrenIs ==
    ASSUME NEW W, Shape, Spells(W), NEW s \in Nodes
    PROVE  /\ Children(s) \in Seq(Nodes \ {0})
           /\ \A i \in DOMAIN Children(s) : \E b \in Keys(s) : Children(s)[i] = NextState(s, b)
           /\ \A b \in Keys(s) : \E i \in DOMAIN Children(s) : Children(s)[i] = NextState(s, b)
           /\ \A i, j \in DOMAIN Children(s) : Children(s)[i] = Children(s)[j] => i = j
<1> DEFINE K == Keys(s)
           n == Cardinality(K)
           a == Ascending(K)
<1>1. K \subseteq Int /\ IsFiniteSet(K)
  <2>1. \A b \in Keys(s) : b \in Byte
    BY ChildFacts
  <2>2. \A b \in Byte : b \in Int
    BY AhoCorasickAssumption
  <2>3. IsFiniteSet(Keys(s))
    BY DEF Shape
  <2>4. \A b \in Keys(s) : b \in Int
    BY <2>1, <2>2
  <2>5. QED
    BY <2>3, <2>4
<1>2. /\ n \in Nat /\ a \in [1 .. n -> K]
      /\ \A x \in K : \E k \in 1 .. n : a[k] = x
      /\ \A i, j \in 1 .. n : i < j => a[i] < a[j]
  <2> HIDE DEF K
  <2>1. QED
    BY <1>1, AscendingIs
<1>3. Children(s) = [k \in 1 .. n |-> NextState(s, a[k])]
  BY <1>2 DEF Children
<1>4. \A x \in K : NextState(s, x) \in Nodes \ {0}
  BY ChildFacts
<1> HIDE DEF K, n, a
<1>5. Children(s) \in Seq(Nodes \ {0}) /\ DOMAIN Children(s) = 1 .. n
  BY <1>2, <1>3, <1>4
<1>6. \A i \in 1 .. n : a[i] \in K /\ Children(s)[i] = NextState(s, a[i])
  BY <1>2, <1>3
<1>7. ASSUME NEW i \in 1 .. n, NEW j \in 1 .. n, Children(s)[i] = Children(s)[j]
      PROVE  i = j
  <2>1. a[i] = a[j]
    BY <1>6, <1>7, KeyIsUnique DEF K
  <2>2. ~(i < j) /\ ~(j < i)
    <3>1. a[i] \in Int /\ a[j] \in Int
      BY <1>1, <1>6
    <3>2. QED
      BY <1>2, <2>1, <3>1
  <2>3. QED
    BY <1>2, <2>2
<1>8. QED
  BY <1>2, <1>5, <1>6, <1>7 DEF K

\* The links of the states of one byte are those they were built with.
LEMMA StartLinkingKeeps ==
    ASSUME NEW W, BuildInv(W), StartLinking
    PROVE  BuildInv(W)'
<1>1. /\ pc = "insert" /\ pattern_index = pattern_count /\ queue' = Children(0) /\ pc' = "link"
      /\ UNCHANGED <<patterns, states, pattern_index, offset, node>>
      /\ Shape /\ Spells(W)
  BY DEF StartLinking, BuildInv
<1>2. /\ 0 \in Nodes /\ W[0] = << >> /\ Len(W[0]) = 0
      /\ \A s \in Nodes : W[s] \in Word /\ Len(W[s]) \in Nat
      /\ \A s \in Nodes : Len(W[s]) = 0 <=> s = 0
  BY <1>1, NodeFacts DEF Spells
<1>3. PICK c : c = Children(0)
  OBVIOUS
<1>4. /\ c \in Seq(Nodes \ {0})
      /\ \A i \in DOMAIN c : \E b \in Keys(0) : c[i] = NextState(0, b)
      /\ \A b \in Keys(0) : \E i \in DOMAIN c : c[i] = NextState(0, b)
      /\ \A i, j \in DOMAIN c : c[i] = c[j] => i = j
  BY <1>1, <1>2, <1>3, ChildrenIs
<1>5. \A i \in DOMAIN c : c[i] \in Nodes /\ Len(W[c[i]]) = 1
  <2>1. \A b \in Keys(0) : NextState(0, b) \in Nodes /\ Len(W[NextState(0, b)]) = Len(W[0]) + 1
    BY <1>1, <1>2, ChildFacts, ZenonT(40)
  <2>2. QED
    BY <1>2, <1>4, <2>1
<1>6. Shape' /\ Spells(W)' /\ Holds(W)' /\ Cursor(W)'
  <2>1. Shape'
    BY <1>1 DEF Shape, Nodes, Keys, NextState, Failure
  <2>2. Spells(W)'
    BY <1>1 DEF Spells, Nodes, Keys, NextState
  <2>3. Holds(W)'
    <3>1. \A w : Inserted(w)' <=> Inserted(w)
      BY <1>1 DEF Inserted, InsertedLength, Indices, Pattern
    <3>2. QED
      BY <1>1, <3>1 DEF BuildInv, Holds, Nodes
  <2>4. Cursor(W)'
    BY <1>1 DEF BuildInv, Cursor, Pattern
  <2>5. QED
    BY <2>1, <2>2, <2>3, <2>4
<1>7. Levels(W)'
  <2>1. ASSUME NEW i \in DOMAIN c, NEW j \in DOMAIN c, i # j, Begins(W[c[i]], W[c[j]]) PROVE FALSE
    <3>1. Begins(W[c[j]], W[c[j]])
      BY <1>2, <1>5 DEF Begins
    <3>2. W[c[i]] = W[c[j]]
      BY <1>2, <1>5, <2>1, <3>1, SameLengthBegins
    <3>3. c[i] = c[j]
      BY <1>1, <1>5, <3>2 DEF Spells
    <3>4. QED
      BY <1>4, <2>1, <3>3
  <2>2. \A i, j \in DOMAIN c : Len(W[c[i]]) <= Len(W[c[j]]) /\ Len(W[c[j]]) <= Len(W[c[i]]) + 1
    BY <1>5
  <2>3. Nodes' = Nodes /\ queue' = c /\ pc' = "link"
    BY <1>1, <1>3 DEF Nodes
  <2>4. QED
    BY <1>4, <2>1, <2>2, <2>3 DEF Levels
<1>8. Links(W)'
  <2>1. ASSUME NEW s \in Nodes \ {0}, ~Awaits(W, s)' PROVE Linked(W, s)
    <3>1. Begins(W[0], W[s]) /\ Len(W[0]) < Len(W[s])
      BY <1>2 DEF Begins
    <3>2. PICK b \in Keys(0) : Begins(W[NextState(0, b)], W[s])
      BY <1>1, <1>2, <3>1, ChildOnPath
    <3>3. PICK i \in DOMAIN c : c[i] = NextState(0, b)
      BY <1>4
    <3>4. ~(Len(W[c[i]]) < Len(W[s]))
      BY <1>1, <1>3, <2>1, <3>2, <3>3 DEF Awaits
    <3>5. Len(W[s]) = 1
      <4> DEFINE n == Len(W[s])
      <4>1. n \in Nat /\ n # 0 /\ ~(1 < n)
        BY <1>2, <1>5, <3>4
      <4> HIDE DEF n
      <4>2. n = 1
        BY <4>1
      <4>3. QED
        BY <4>2 DEF n
    <3>6. Failure(s) = 0
      BY <1>1, UnlinkedWhileInserting DEF Unlinked
    <3>7. LongestEnd(W, Failure(s), W[s], Len(W[s]))
      <4>1. Ends(W[0], W[s])
        BY <1>2, EmptyEnds
      <4>2. \A u \in Nodes : Len(W[u]) < 1 => Len(W[u]) <= Len(W[0])
        BY <1>2
      <4>3. QED
        BY <1>2, <3>5, <3>6, <4>1, <4>2 DEF LongestEnd
    <3>8. \A p \in Indices : p < pattern_index /\ pattern_length(p) > 0 /\ Pattern(p) = W[s]
                              <=> pattern_length(p) > 0 /\ Ends(Pattern(p), W[s])
      <4>1. SUFFICES ASSUME NEW p \in Indices
                     PROVE  p < pattern_index /\ pattern_length(p) > 0 /\ Pattern(p) = W[s]
                              <=> pattern_length(p) > 0 /\ Ends(Pattern(p), W[s])
        OBVIOUS
      <4>2. p < pattern_index /\ Pattern(p) \in Word /\ Len(Pattern(p)) \in Nat
        <5>1. Len(patterns) \in Nat
          BY <1>1 DEF Shape
        <5>2. p < pattern_index
          BY <1>1, <5>1 DEF Indices
        <5>3. QED
          BY <1>1, <5>2, PatternFacts
      <4>3. ASSUME Len(Pattern(p)) > 0, Ends(Pattern(p), W[s]) PROVE Pattern(p) = W[s]
        <5>1. Len(Pattern(p)) = Len(W[s])
          <6> DEFINE n == Len(Pattern(p))
          <6>1. n \in Nat /\ n > 0 /\ n <= Len(W[s])
            BY <4>2, <4>3 DEF Ends
          <6>2. n <= 1
            BY <3>5, <6>1
          <6> HIDE DEF n
          <6>3. n = 1
            BY <6>1, <6>2
          <6>4. QED
            BY <3>5, <6>3 DEF n
        <5>2. QED
          BY <1>2, <4>2, <4>3, <5>1, LongestEndIsAll
      <4>4. Ends(W[s], W[s])
        BY <1>2, SelfEnds
      <4>5. QED
        BY <4>2, <4>3, <4>4
    <3>9. Range(states[s].outputs) = EndingIn(W[s])
      <4>1. Unlinked(W, s)
        BY <1>1, UnlinkedWhileInserting
      <4>2. QED
        BY <3>8, <4>1 DEF Unlinked, EndingIn
    <3>10. QED
      BY <3>7, <3>9 DEF Linked
  <2>2. \A s \in Nodes : Unlinked(W, s) => Unlinked(W, s)'
    BY <1>1 DEF Unlinked, Failure, Indices, Pattern
  <2>3. \A s \in Nodes : Linked(W, s) => Linked(W, s)'
    BY <1>1 DEF Linked, EndingIn, LongestEnd, Nodes, Failure, Indices, Pattern
  <2>4. /\ Nodes' = Nodes /\ (Failure(0))' = 0 /\ states'[0].outputs = << >>
        /\ \A s \in Nodes \ {0} : IsInjective(states'[s].outputs) /\ Unlinked(W, s)
    BY <1>1, UnlinkedWhileInserting DEF Nodes, Failure
  <2>5. QED
    BY <2>1, <2>2, <2>3, <2>4 DEF Links
<1>9. QED
  BY <1>6, <1>7, <1>8 DEF BuildInv

\* Each link leads to a shorter state, before and after it is set.
LEMMA LinksFall ==
    ASSUME NEW W, BuildInv(W)
    PROVE  Falls(W)
<1>1. ASSUME NEW x \in Nodes \ {0} PROVE Len(W[Failure(x)]) < Len(W[x])
  <2>1. CASE Awaits(W, x)
    <3>1. Failure(x) = 0
      BY <2>1 DEF BuildInv, Links, Unlinked
    <3>2. Len(W[0]) = 0 /\ Len(W[x]) \in Nat /\ Len(W[x]) # 0
      BY NodeFacts DEF BuildInv
    <3>3. QED
      BY <3>1, <3>2
  <2>2. CASE ~Awaits(W, x)
    BY <2>2 DEF BuildInv, Links, Linked, LongestEnd
  <2>3. QED
    BY <2>1, <2>2
<1>2. QED
  BY <1>1 DEF Falls

\* What the longest end of a text reports is all that ends there.
LEMMA ReportedByLongest ==
    ASSUME NEW W, BuildInv(W), pc # "insert", NEW t \in Word, NEW m \in Nat, NEW f,
           LongestEnd(W, f, t, m), NEW p \in Indices, Len(Pattern(p)) < m
    PROVE  Ends(Pattern(p), t) <=> Ends(Pattern(p), W[f])
<1>1. PICK s \in Nodes : W[s] = Pattern(p)
  BY PatternHasState
<1>2. f \in Nodes /\ Ends(W[f], t)
  BY DEF LongestEnd
<1>3. W[s] \in Word /\ W[f] \in Word
  BY <1>2, NodeFacts DEF BuildInv
<1>4. ASSUME Ends(W[s], t) PROVE Ends(W[s], W[f])
  <2>1. Len(W[s]) <= Len(W[f])
    BY <1>1, <1>4 DEF LongestEnd
  <2>2. QED
    BY <1>2, <1>3, <1>4, <2>1, EndsNested
<1>5. ASSUME Ends(W[s], W[f]) PROVE Ends(W[s], t)
  BY <1>2, <1>3, <1>5, EndsTransitive
<1>6. QED
  BY <1>1, <1>4, <1>5

\* The state r at the head of the queue, where the links of its children are set.
Heads(W, r) ==
    /\ BuildInv(W) /\ pc = "link" /\ pattern_index = pattern_count /\ queue # << >>
    /\ r = Head(queue)

LEMMA HeadFacts ==
    ASSUME NEW W, NEW r, Heads(W, r)
    PROVE  /\ r \in Nodes \ {0} /\ W[r] \in Word /\ Len(W[r]) \in Nat
           /\ Len(queue) \in Nat \ {0} /\ DOMAIN queue = 1 .. Len(queue) /\ queue[1] = r
           /\ Tail(queue) \in Seq(Nodes \ {0}) /\ Len(Tail(queue)) = Len(queue) - 1
           /\ \A i \in 1 .. Len(queue) - 1 : Tail(queue)[i] = queue[i + 1]
           /\ \A i \in DOMAIN queue :
                /\ queue[i] \in Nodes \ {0} /\ W[queue[i]] \in Word /\ Len(W[queue[i]]) \in Nat
                /\ Len(W[r]) <= Len(W[queue[i]]) /\ Len(W[queue[i]]) <= Len(W[r]) + 1
                /\ i # 1 => ~Begins(W[queue[i]], W[r]) /\ ~Begins(W[r], W[queue[i]])
<1>1. queue \in Seq(Nodes \ {0}) /\ queue # << >> /\ Levels(W) /\ r = Head(queue)
  BY DEF Heads, BuildInv, Levels
<1>2. Len(queue) \in Nat \ {0} /\ DOMAIN queue = 1 .. Len(queue) /\ queue[1] = r
  BY <1>1, EmptySeq
<1>3. /\ Tail(queue) \in Seq(Nodes \ {0}) /\ Len(Tail(queue)) = Len(queue) - 1
      /\ \A i \in 1 .. Len(queue) - 1 : Tail(queue)[i] = queue[i + 1]
  BY <1>1, HeadTailProperties
<1>4. \A i \in DOMAIN queue : queue[i] \in Nodes \ {0}
  BY <1>1, <1>2
<1>5. \A s \in Nodes : W[s] \in Word /\ Len(W[s]) \in Nat
  BY NodeFacts DEF Heads, BuildInv
<1>6. 1 \in DOMAIN queue /\ \A i \in DOMAIN queue : i # 1 => 1 < i
  BY <1>2
<1>7. ASSUME NEW i \in DOMAIN queue
      PROVE  /\ Len(W[r]) <= Len(W[queue[i]]) /\ Len(W[queue[i]]) <= Len(W[r]) + 1
             /\ i # 1 => ~Begins(W[queue[i]], W[r]) /\ ~Begins(W[r], W[queue[i]])
  <2>1. CASE i = 1
    BY <1>2, <1>4, <1>5, <1>6, <2>1
  <2>2. CASE i # 1
    BY <1>1, <1>2, <1>6, <2>2 DEF Levels
  <2>3. QED
    BY <2>1, <2>2
<1>8. QED
  BY <1>2, <1>3, <1>4, <1>5, <1>6, <1>7

\* The states no deeper than the head of the queue are linked, its children not.
LEMMA HeadDivides ==
    ASSUME NEW W, NEW r, Heads(W, r)
    PROVE  /\ \A x \in Nodes \ {0} : Len(W[x]) <= Len(W[r]) => ~Awaits(W, x) /\ Linked(W, x)
           /\ LinkedTo(W, Len(W[r]))
           /\ \A b \in Keys(r) : Awaits(W, NextState(r, b)) /\ Unlinked(W, NextState(r, b))
<1>1. \A s \in Nodes : W[s] \in Word /\ Len(W[s]) \in Nat
  BY NodeFacts DEF Heads, BuildInv
<1>2. ASSUME NEW x \in Nodes \ {0}, Len(W[x]) <= Len(W[r])
      PROVE  ~Awaits(W, x) /\ Linked(W, x)
  <2>1. ~Awaits(W, x)
    <3>1. SUFFICES ASSUME Awaits(W, x) PROVE FALSE
      OBVIOUS
    <3>2. PICK i \in DOMAIN queue : Len(W[queue[i]]) < Len(W[x])
      BY <3>1 DEF Awaits, Heads
    <3>3. Len(W[r]) <= Len(W[queue[i]]) /\ Len(W[queue[i]]) \in Nat /\ Len(W[r]) \in Nat
      BY HeadFacts
    <3>4. QED
      BY <1>1, <1>2, <3>2, <3>3
  <2>2. QED
    BY <2>1 DEF Heads, BuildInv, Links
<1>3. LinkedTo(W, Len(W[r]))
  BY <1>2 DEF LinkedTo, Linked
<1>4. ASSUME NEW b \in Keys(r) PROVE Awaits(W, NextState(r, b)) /\ Unlinked(W, NextState(r, b))
  <2>1. r \in Nodes /\ queue[1] = r /\ 1 \in DOMAIN queue
    BY HeadFacts
  <2>2. /\ NextState(r, b) \in Nodes \ {0} /\ b \in Byte
        /\ W[NextState(r, b)] = Append(W[r], b) /\ Len(W[NextState(r, b)]) = Len(W[r]) + 1
    BY <2>1, ChildFacts DEF Heads, BuildInv
  <2>3. Begins(Append(W[r], b), Append(W[r], b))
    BY <1>1, <2>1, <2>2, AppendWord DEF Begins
  <2>4. Begins(W[r], W[NextState(r, b)])
    BY <1>1, <2>1, <2>2, <2>3, AppendWord, BeginsAppend
  <2>5. Len(W[r]) < Len(W[NextState(r, b)])
    BY <1>1, <2>1, <2>2
  <2>6. Awaits(W, NextState(r, b))
    BY <2>1, <2>4, <2>5 DEF Awaits
  <2>7. QED
    BY <2>2, <2>6 DEF Heads, BuildInv, Links
<1>5. QED
  BY <1>2, <1>3, <1>4

\* A linked state, and the root, reports all that ends with its word.
LEMMA OutputsAre ==
    ASSUME NEW W, BuildInv(W), NEW x \in Nodes, x = 0 \/ Linked(W, x)
    PROVE  IsInjective(states[x].outputs) /\ Range(states[x].outputs) = EndingIn(W[x])
<1>1. CASE x = 0
  <2>1. states[x].outputs = << >> /\ IsInjective(<< >>) /\ Range(<< >>) = {}
    BY <1>1 DEF BuildInv, Links, IsInjective, Range
  <2>2. Len(W[x]) = 0
    BY <1>1, NodeFacts DEF BuildInv
  <2>3. EndingIn(W[x]) = {}
    <3>1. SUFFICES ASSUME NEW p \in EndingIn(W[x]) PROVE FALSE
      OBVIOUS
    <3>2. Len(Pattern(p)) > 0 /\ Len(Pattern(p)) <= Len(W[x]) /\ p \in Indices
      BY <3>1 DEF EndingIn, Ends
    <3>3. Len(Pattern(p)) \in Nat
      BY <3>2, PatternFacts DEF BuildInv
    <3>4. QED
      BY <2>2, <3>2, <3>3
  <2>4. QED
    BY <2>1, <2>3
<1>2. CASE x # 0
  BY <1>2 DEF BuildInv, Links, Linked
<1>3. QED
  BY <1>1, <1>2

\* The failure the code computes for a child, and the outputs it gives it.
Computes(r, b, c, f, o) ==
    /\ c = NextState(r, b) /\ f = FailureFor(r, b, c)
    /\ o = states[c].outputs \o states[f].outputs

LEMMA ChildLinks ==
    ASSUME NEW W, NEW r, Heads(W, r), NEW b \in Keys(r), NEW c, NEW f, NEW o, Computes(r, b, c, f, o)
    PROVE  /\ LongestEnd(W, f, W[c], Len(W[c]))
           /\ o \in Seq(Nat) /\ IsInjective(o) /\ Range(o) = EndingIn(W[c])
<1>0. /\ c = NextState(r, b) /\ f = FailureFor(r, b, c)
      /\ o = states[c].outputs \o states[f].outputs
  BY DEF Computes
<1>1. /\ BuildInv(W) /\ Shape /\ Spells(W) /\ pc # "insert" /\ pattern_index = pattern_count
  BY DEF Heads, BuildInv
<1>2. /\ 0 \in Nodes /\ \A s \in Nodes : W[s] \in Word /\ Len(W[s]) \in Nat
      /\ \A s \in Nodes : Len(W[s]) = 0 <=> s = 0
  BY <1>1, NodeFacts
<1>3. r \in Nodes \ {0} /\ W[r] \in Word /\ Len(W[r]) \in Nat
  BY HeadFacts
<1>4. c \in Nodes \ {0} /\ b \in Byte /\ W[c] = Append(W[r], b) /\ Len(W[c]) = Len(W[r]) + 1
  BY <1>0, <1>1, <1>3, ChildFacts
<1>5. Falls(W) /\ LinkedTo(W, Len(W[r]))
  BY <1>1, LinksFall, HeadDivides
<1>6. PICK g : g = Chase(Failure(r), b)
  OBVIOUS
<1>7. LongestEnd(W, Failure(r), W[r], Len(W[r]))
  BY <1>3, <1>5 DEF LinkedTo
<1>8. Failure(r) \in Nodes /\ Len(W[Failure(r)]) < Len(W[r]) /\ Len(W[Failure(r)]) <= Len(W[r])
  BY <1>2, <1>3, <1>7 DEF LongestEnd
<1>9. ChaseEnds(W, Failure(r), b, g)
  BY <1>1, <1>3, <1>5, <1>6, <1>8, ChaseIs
<1>10. f = StepFrom(g, b)
  <2>1. g \in Nodes /\ Len(W[g]) <= Len(W[Failure(r)])
    BY <1>9 DEF ChaseEnds, Ends
  <2>2. ASSUME b \in Keys(g) PROVE NextState(g, b) # c
    <3>1. Len(W[NextState(g, b)]) = Len(W[g]) + 1
      BY <1>1, <2>1, <2>2, ChildFacts
    <3>2. Len(W[g]) \in Nat /\ Len(W[Failure(r)]) \in Nat
      BY <1>2, <1>8, <2>1
    <3>3. QED
      BY <1>3, <1>4, <1>8, <2>1, <3>1, <3>2
  <2>3. QED
    BY <1>0, <1>6, <2>2 DEF FailureFor, StepFrom
<1>11. LongestEnd(W, f, W[c], Len(W[c]))
  BY <1>1, <1>3, <1>4, <1>7, <1>9, <1>10, StepIs
<1>12. f \in Nodes /\ Ends(W[f], W[c]) /\ Len(W[f]) < Len(W[c])
  BY <1>11 DEF LongestEnd
<1>13. IsInjective(states[f].outputs) /\ Range(states[f].outputs) = EndingIn(W[f])
  <2>1. ASSUME f # 0 PROVE Linked(W, f)
    <3>1. Len(W[f]) <= Len(W[r])
      BY <1>2, <1>3, <1>4, <1>12
    <3>2. QED
      BY <1>12, <2>1, <3>1, HeadDivides
  <2>2. QED
    BY <1>1, <1>12, <2>1, OutputsAre
<1>14. /\ IsInjective(states[c].outputs)
       /\ Range(states[c].outputs) = { p \in Indices : pattern_length(p) > 0 /\ Pattern(p) = W[c] }
  <2>1. Unlinked(W, c) /\ IsInjective(states[c].outputs)
    BY <1>0, <1>1, <1>4, HeadDivides DEF BuildInv, Links
  <2>2. \A p \in Indices : p < pattern_index
    <3>1. Len(patterns) \in Nat
      BY <1>1 DEF Shape
    <3>2. QED
      BY <1>1, <3>1 DEF Indices
  <2>3. QED
    BY <2>1, <2>2 DEF Unlinked
<1>15. states[c].outputs \in Seq(Nat) /\ states[f].outputs \in Seq(Nat)
  BY <1>1, <1>4, <1>12 DEF Shape, StateRecord
<1>16. ASSUME NEW p \in Indices, Len(Pattern(p)) > 0
       PROVE  /\ Ends(Pattern(p), W[c]) <=> Pattern(p) = W[c] \/ Ends(Pattern(p), W[f])
              /\ ~(Pattern(p) = W[c] /\ Ends(Pattern(p), W[f]))
  <2>1. Pattern(p) \in Word /\ Len(Pattern(p)) \in Nat
    BY <1>1, PatternFacts
  <2>2. Ends(Pattern(p), W[f]) => Len(Pattern(p)) <= Len(W[f])
    BY DEF Ends
  <2>3. CASE Len(Pattern(p)) < Len(W[c])
    <3>1. Ends(Pattern(p), W[c]) <=> Ends(Pattern(p), W[f])
      BY <1>1, <1>2, <1>4, <1>11, <2>3, ReportedByLongest
    <3>2. Pattern(p) # W[c]
      BY <1>2, <1>4, <2>3
    <3>3. QED
      BY <3>1, <3>2
  <2>4. CASE ~(Len(Pattern(p)) < Len(W[c]))
    <3>1. ~Ends(Pattern(p), W[f])
      BY <1>2, <1>4, <1>12, <2>1, <2>2, <2>4
    <3>2. Ends(Pattern(p), W[c]) => Pattern(p) = W[c]
      <4>1. Ends(Pattern(p), W[c]) => Len(Pattern(p)) = Len(W[c])
        BY <1>2, <1>4, <2>1, <2>4 DEF Ends
      <4>2. QED
        BY <1>2, <1>4, <2>1, <4>1, LongestEndIsAll
    <3>3. Ends(W[c], W[c])
      BY <1>2, <1>4, SelfEnds
    <3>4. QED
      BY <3>1, <3>2, <3>3
  <2>5. QED
    BY <2>3, <2>4
<1>17. /\ Range(states[c].outputs) \cup Range(states[f].outputs) = EndingIn(W[c])
       /\ Apart(states[c].outputs, states[f].outputs)
  BY <1>13, <1>14, <1>16 DEF EndingIn, Apart
<1>18. /\ o \in Seq(Nat) /\ IsInjective(o)
       /\ Range(o) = Range(states[c].outputs) \cup Range(states[f].outputs)
  BY <1>0, <1>13, <1>14, <1>15, <1>17, ConcatInjects, ConcatProperties
<1>19. QED
  BY <1>11, <1>17, <1>18

\* What Link writes: the links of the children of r, and no other.
LEMMA LinkWrites ==
    ASSUME NEW W, NEW r, Heads(W, r), Link
    PROVE  /\ \A b \in Keys(r) :
                states'[NextState(r, b)] =
                  [goto |-> states[NextState(r, b)].goto,
                   failure |-> FailureFor(r, b, NextState(r, b)),
                   outputs |-> states[NextState(r, b)].outputs
                               \o states[FailureFor(r, b, NextState(r, b))].outputs]
           /\ \A s \in Nodes : (\A b \in Keys(r) : s # NextState(r, b)) => states'[s] = states[s]
           /\ states' = [s \in Nodes |-> states'[s]]
           /\ queue' = Tail(queue) \o Children(r)
           /\ UNCHANGED <<patterns, pattern_index, offset, node, pc>>
<1> DEFINE h == Head(queue)
           byteTo(c) == CHOOSE a \in Keys(h) : NextState(h, a) = c
           linked(c) == [states[c] EXCEPT !.failure = FailureFor(h, byteTo(c), c),
                                          !.outputs = @ \o states[FailureFor(h, byteTo(c), c)].outputs]
<1>1. r = h /\ Shape /\ Spells(W) /\ r \in Nodes
  BY HeadFacts DEF Heads, BuildInv
<1>2. /\ states' = [c \in Nodes |-> IF c \in Range(states[h].goto) THEN linked(c) ELSE states[c]]
      /\ queue' = Tail(queue) \o Children(h)
      /\ UNCHANGED <<patterns, pattern_index, offset, node, pc>>
  BY Zenon DEF Link, Nodes
<1> HIDE DEF h
<1>3. \A s : s \in Range(states[h].goto) <=> \E b \in Keys(h) : s = NextState(h, b)
  BY DEF Range, Keys, NextState
<1>4. ASSUME NEW b \in Keys(h)
      PROVE  byteTo(NextState(h, b)) = b /\ NextState(h, b) \in Nodes
  BY <1>1, KeyIsUnique, ChildFacts
<1>5. ASSUME NEW b \in Keys(h), NEW c, c = NextState(h, b)
      PROVE  linked(c) = [goto |-> states[c].goto, failure |-> FailureFor(h, b, c),
                          outputs |-> states[c].outputs \o states[FailureFor(h, b, c)].outputs]
  <2> DEFINE f == FailureFor(h, b, c)
  <2>1. byteTo(c) = b /\ states[c] \in StateRecord
    BY <1>1, <1>4, <1>5 DEF Shape
  <2>2. linked(c) = [states[c] EXCEPT !.failure = f, !.outputs = @ \o states[f].outputs]
    <3> HIDE DEF byteTo
    <3>1. QED
      BY <2>1
  <2> HIDE DEF f, linked
  <2>3. QED
    BY <2>1, <2>2 DEF StateRecord, f
<1> HIDE DEF linked
<1>6. ASSUME NEW b \in Keys(h) PROVE states'[NextState(h, b)] = linked(NextState(h, b))
  BY <1>2, <1>3, <1>4
<1>7. \A s \in Nodes : (\A b \in Keys(h) : s # NextState(h, b)) => states'[s] = states[s]
  BY <1>2, <1>3
<1>8. states' = [s \in Nodes |-> states'[s]]
  BY <1>2
<1>9. ASSUME NEW b \in Keys(r)
      PROVE  states'[NextState(r, b)] =
                  [goto |-> states[NextState(r, b)].goto,
                   failure |-> FailureFor(r, b, NextState(r, b)),
                   outputs |-> states[NextState(r, b)].outputs
                               \o states[FailureFor(r, b, NextState(r, b))].outputs]
  <2>1. b \in Keys(h) /\ h = r
    BY <1>1, <1>9
  <2>2. PICK c : c = NextState(h, b)
    OBVIOUS
  <2>3. states'[c] = [goto |-> states[c].goto, failure |-> FailureFor(h, b, c),
                      outputs |-> states[c].outputs \o states[FailureFor(h, b, c)].outputs]
    BY <1>5, <1>6, <2>1, <2>2
  <2>4. QED
    BY <2>1, <2>2, <2>3
<1>10. QED
  BY <1>1, <1>2, <1>7, <1>8, <1>9

\* The queue is left to the rest of it and the children of r.
LEMMA LinkQueue ==
    ASSUME NEW W, NEW r, Heads(W, r), Link
    PROVE  /\ Levels(W)'
           /\ \A s \in Nodes :
                Awaits(W, s)' <=> Awaits(W, s) /\ \A b \in Keys(r) : s # NextState(r, b)
<1> DEFINE n == Len(queue) - 1
<1>0. PICK t, c, q : t = Tail(queue) /\ c = Children(r) /\ q = t \o c
  OBVIOUS
<1>1. /\ BuildInv(W) /\ Shape /\ Spells(W) /\ pc = "link" /\ r \in Nodes \ {0}
      /\ W[r] \in Word /\ Len(W[r]) \in Nat
  BY HeadFacts DEF Heads, BuildInv
<1>2. /\ queue' = q /\ Nodes' = Nodes /\ pc' = "link"
  <2>1. queue' = q /\ pc' = "link"
    BY <1>0, <1>1, LinkWrites
  <2>2. states' = [s \in Nodes |-> states'[s]]
    BY LinkWrites
  <2>3. QED
    BY <2>1, <2>2 DEF Nodes
<1>3. \A s \in Nodes : W[s] \in Word /\ Len(W[s]) \in Nat
  BY <1>1, NodeFacts
<1>4. /\ t \in Seq(Nodes \ {0}) /\ Len(t) = n /\ n \in Nat /\ DOMAIN queue = 1 .. n + 1
      /\ queue[1] = r
      /\ \A i \in 1 .. n : t[i] = queue[i + 1] /\ i + 1 \in DOMAIN queue /\ i + 1 # 1
  BY <1>0, HeadFacts
<1>5. /\ c \in Seq(Nodes \ {0})
      /\ \A i \in DOMAIN c : \E b \in Keys(r) : c[i] = NextState(r, b)
      /\ \A b \in Keys(r) : \E i \in DOMAIN c : c[i] = NextState(r, b)
      /\ \A i, j \in DOMAIN c : c[i] = c[j] => i = j
  BY <1>0, <1>1, ChildrenIs
<1>6. Len(c) \in Nat /\ DOMAIN c = 1 .. Len(c)
  BY <1>5
<1>7. /\ q \in Seq(Nodes \ {0}) /\ Len(q) = n + Len(c) /\ DOMAIN q = 1 .. n + Len(c)
      /\ \A i \in 1 .. n + Len(c) : q[i] = IF i <= n THEN t[i] ELSE c[i - n]
  BY <1>0, <1>4, <1>5, <1>6, ConcatProperties
<1> HIDE DEF n
<1>8. /\ \A i \in DOMAIN q : \/ i \in 1 .. n /\ q[i] = t[i]
                             \/ i - n \in DOMAIN c /\ q[i] = c[i - n] /\ n < i
      /\ \A i \in 1 .. n : i \in DOMAIN q /\ q[i] = t[i]
      /\ \A i \in DOMAIN c : n + i \in DOMAIN q /\ q[n + i] = c[i]
  BY <1>4, <1>6, <1>7
\* An element of the rest, and a child.
<1>9. ASSUME NEW i \in 1 .. n
      PROVE  /\ t[i] \in Nodes /\ W[t[i]] \in Word /\ Len(W[t[i]]) \in Nat
             /\ Len(W[r]) <= Len(W[t[i]]) /\ Len(W[t[i]]) <= Len(W[r]) + 1
             /\ ~Begins(W[t[i]], W[r]) /\ ~Begins(W[r], W[t[i]])
  <2>1. i + 1 \in DOMAIN queue /\ t[i] = queue[i + 1] /\ i + 1 # 1
    BY <1>4
  <2>2. QED
    BY <2>1, HeadFacts
<1>10. ASSUME NEW i \in DOMAIN c
       PROVE  /\ c[i] \in Nodes /\ W[c[i]] \in Word /\ Len(W[c[i]]) = Len(W[r]) + 1
              /\ \A w \in Word : Begins(W[c[i]], w) => Begins(W[r], w)
              /\ Begins(W[r], W[c[i]])
  <2>1. PICK b \in Keys(r) : c[i] = NextState(r, b)
    BY <1>5
  <2>2. /\ c[i] \in Nodes /\ b \in Byte /\ W[c[i]] = Append(W[r], b) /\ Len(W[c[i]]) = Len(W[r]) + 1
    BY <1>1, <2>1, ChildFacts
  <2>3. W[c[i]] \in Word
    BY <1>3, <2>2
  <2>4. \A w \in Word : Begins(W[c[i]], w) => Begins(W[r], w)
    BY <1>1, <2>2, BeginsAppend
  <2>5. Begins(W[c[i]], W[c[i]])
    BY <2>3, WordProperties DEF Begins
  <2>6. QED
    BY <2>2, <2>3, <2>4, <2>5
<1>11. ASSUME NEW i \in 1 .. n, NEW j \in DOMAIN c
       PROVE  ~Begins(W[t[i]], W[c[j]]) /\ ~Begins(W[c[j]], W[t[i]])
  <2>1. ~Begins(W[c[j]], W[t[i]])
    BY <1>9, <1>10
  <2>2. ASSUME Begins(W[t[i]], W[c[j]]) PROVE FALSE
    <3>1. CASE Len(W[t[i]]) <= Len(W[r])
      <4>1. Begins(W[t[i]], W[r])
        BY <1>1, <1>9, <1>10, <2>2, <3>1, BeginsNested
      <4>2. QED
        BY <1>9, <4>1
    <3>2. CASE ~(Len(W[t[i]]) <= Len(W[r]))
      <4>1. Len(W[t[i]]) = Len(W[c[j]])
        BY <1>1, <1>9, <1>10, <3>2
      <4>2. Begins(W[c[j]], W[c[j]])
        BY <1>10, WordProperties DEF Begins
      <4>3. W[t[i]] = W[c[j]]
        BY <1>9, <1>10, <2>2, <4>1, <4>2, SameLengthBegins
      <4>4. Begins(W[r], W[t[i]])
        BY <1>10, <4>3
      <4>5. QED
        BY <1>9, <4>4
    <3>3. QED
      BY <3>1, <3>2
  <2>3. QED
    BY <2>1, <2>2
<1>12. ASSUME NEW i \in DOMAIN c, NEW j \in DOMAIN c, i # j
       PROVE  ~Begins(W[c[i]], W[c[j]])
  <2>1. SUFFICES ASSUME Begins(W[c[i]], W[c[j]]) PROVE FALSE
    OBVIOUS
  <2>2. Begins(W[c[j]], W[c[j]]) /\ Len(W[c[i]]) = Len(W[c[j]])
    BY <1>10, WordProperties DEF Begins
  <2>3. W[c[i]] = W[c[j]]
    BY <1>10, <2>1, <2>2, SameLengthBegins
  <2>4. c[i] = c[j]
    BY <1>1, <1>10, <2>3 DEF Spells
  <2>5. QED
    BY <1>5, <1>12, <2>4
<1>13. ASSUME NEW i \in 1 .. n, NEW j \in 1 .. n
       PROVE  /\ i # j => ~Begins(W[t[i]], W[t[j]])
              /\ i < j => /\ Len(W[t[i]]) <= Len(W[t[j]])
                          /\ Len(W[t[j]]) <= Len(W[t[i]]) + 1
  <2>1. /\ i + 1 \in DOMAIN queue /\ t[i] = queue[i + 1] /\ j + 1 \in DOMAIN queue /\ t[j] = queue[j + 1]
    BY <1>4
  <2>2. (i # j => i + 1 # j + 1) /\ (i < j => i + 1 < j + 1)
    BY <1>4
  <2>3. QED
    BY <1>1, <2>1, <2>2 DEF BuildInv, Levels
<1>14. ASSUME NEW i \in DOMAIN q, NEW j \in DOMAIN q
       PROVE  /\ i # j => ~Begins(W[q[i]], W[q[j]])
              /\ i < j => /\ Len(W[q[i]]) <= Len(W[q[j]])
                          /\ Len(W[q[j]]) <= Len(W[q[i]]) + 1
  <2>1. CASE i \in 1 .. n /\ q[i] = t[i] /\ j \in 1 .. n /\ q[j] = t[j]
    BY <1>13, <2>1
  <2>2. CASE i \in 1 .. n /\ q[i] = t[i] /\ j - n \in DOMAIN c /\ q[j] = c[j - n]
    <3>1. ~Begins(W[q[i]], W[q[j]])
      BY <1>11, <2>2
    <3>2. /\ Len(W[q[i]]) \in Nat /\ Len(W[r]) <= Len(W[q[i]]) /\ Len(W[q[i]]) <= Len(W[r]) + 1
          /\ Len(W[q[j]]) = Len(W[r]) + 1
      BY <1>9, <1>10, <2>2
    <3>3. QED
      BY <1>1, <3>1, <3>2
  <2>3. CASE i - n \in DOMAIN c /\ q[i] = c[i - n] /\ n < i /\ j \in 1 .. n /\ q[j] = t[j]
    <3>1. ~Begins(W[q[i]], W[q[j]])
      BY <1>11, <2>3
    <3>2. ~(i < j)
      BY <1>4, <1>6, <1>7, <2>3
    <3>3. QED
      BY <3>1, <3>2
  <2>4. CASE i - n \in DOMAIN c /\ q[i] = c[i - n] /\ j - n \in DOMAIN c /\ q[j] = c[j - n]
    <3>1. i # j => i - n # j - n
      BY <1>4, <1>6, <1>7
    <3>2. Len(W[q[i]]) = Len(W[r]) + 1 /\ Len(W[q[j]]) = Len(W[r]) + 1
      BY <1>10, <2>4
    <3>3. QED
      BY <1>1, <1>12, <2>4, <3>1, <3>2
  <2>5. QED
    BY <1>8, <2>1, <2>2, <2>3, <2>4
<1>15. Levels(W)'
  BY <1>2, <1>7, <1>14 DEF Levels
<1>16. ASSUME NEW s \in Nodes
       PROVE  Awaits(W, s)' <=> Awaits(W, s) /\ \A b \in Keys(r) : s # NextState(r, b)
  <2>1. Awaits(W, s)' <=> \E i \in DOMAIN q : Len(W[q[i]]) < Len(W[s]) /\ Begins(W[q[i]], W[s])
    BY <1>2 DEF Awaits
  <2>2. Awaits(W, s) <=> \E i \in DOMAIN queue : Len(W[queue[i]]) < Len(W[s]) /\ Begins(W[queue[i]], W[s])
    BY <1>1 DEF Awaits
  <2>3. ASSUME NEW b \in Keys(r), s = NextState(r, b), Awaits(W, s)' PROVE FALSE
    <3>1. PICK i \in DOMAIN q : Len(W[q[i]]) < Len(W[s]) /\ Begins(W[q[i]], W[s])
      BY <2>1, <2>3
    <3>2. PICK j \in DOMAIN c : c[j] = s
      BY <1>5, <2>3
    <3>3. CASE i \in 1 .. n /\ q[i] = t[i]
      BY <1>11, <3>1, <3>2, <3>3
    <3>4. CASE i - n \in DOMAIN c /\ q[i] = c[i - n]
      BY <1>1, <1>10, <3>1, <3>2, <3>4
    <3>5. QED
      BY <1>8, <3>3, <3>4
  <2>4. ASSUME Awaits(W, s)' PROVE Awaits(W, s)
    <3>1. PICK i \in DOMAIN q : Len(W[q[i]]) < Len(W[s]) /\ Begins(W[q[i]], W[s])
      BY <2>1, <2>4
    <3>2. CASE i \in 1 .. n /\ q[i] = t[i]
      BY <1>4, <2>2, <3>1, <3>2
    <3>3. CASE i - n \in DOMAIN c /\ q[i] = c[i - n]
      <4>1. Begins(W[r], W[s]) /\ Len(W[r]) < Len(W[s])
        BY <1>1, <1>3, <1>10, <3>1, <3>3
      <4>2. 1 \in DOMAIN queue /\ queue[1] = r
        BY <1>4
      <4>3. QED
        BY <2>2, <4>1, <4>2
    <3>4. QED
      BY <1>8, <3>2, <3>3
  <2>5. ASSUME Awaits(W, s), \A b \in Keys(r) : s # NextState(r, b) PROVE Awaits(W, s)'
    <3>1. PICK i \in DOMAIN queue : Len(W[queue[i]]) < Len(W[s]) /\ Begins(W[queue[i]], W[s])
      BY <2>2, <2>5
    <3>2. CASE i = 1
      <4>1. Begins(W[r], W[s]) /\ Len(W[r]) < Len(W[s])
        BY <1>4, <3>1, <3>2
      <4>2. PICK b \in Keys(r) : Begins(W[NextState(r, b)], W[s])
        BY <1>1, <4>1, ChildOnPath
      <4>3. PICK j \in DOMAIN c : c[j] = NextState(r, b)
        BY <1>5
      <4>4. Len(W[c[j]]) # Len(W[s])
        <5>1. SUFFICES ASSUME Len(W[c[j]]) = Len(W[s]) PROVE FALSE
          OBVIOUS
        <5>2. Begins(W[s], W[s])
          BY <1>3 DEF Begins
        <5>3. W[c[j]] = W[s]
          BY <1>3, <1>10, <4>2, <4>3, <5>1, <5>2, SameLengthBegins
        <5>4. c[j] = s
          BY <1>1, <1>10, <5>3 DEF Spells
        <5>5. QED
          BY <2>5, <4>3, <5>4
      <4>5. Len(W[c[j]]) <= Len(W[s])
        BY <4>2, <4>3 DEF Begins
      <4>6. Len(W[c[j]]) < Len(W[s])
        BY <1>3, <1>10, <4>4, <4>5
      <4>7. n + j \in DOMAIN q /\ q[n + j] = c[j]
        BY <1>8
      <4>8. QED
        BY <2>1, <4>2, <4>3, <4>6, <4>7
    <3>3. CASE i # 1
      <4>1. i - 1 \in 1 .. n /\ (i - 1) + 1 = i
        BY <1>4, <3>3
      <4>2. i - 1 \in DOMAIN q /\ q[i - 1] = queue[i]
        BY <1>4, <1>8, <4>1
      <4>3. QED
        BY <2>1, <3>1, <4>2
    <3>4. QED
      BY <3>2, <3>3
  <2>6. QED
    BY <2>3, <2>4, <2>5
<1>17. QED
  BY <1>15, <1>16

LEMMA LinkKeeps ==
    ASSUME NEW W, BuildInv(W), Link
    PROVE  BuildInv(W)'
<1>1. PICK r : r = Head(queue)
  OBVIOUS
<1>2. /\ Heads(W, r) /\ Shape /\ Spells(W) /\ Holds(W) /\ Cursor(W) /\ Links(W)
      /\ r \in Nodes \ {0} /\ W[r] \in Word /\ Len(W[r]) \in Nat
  <2>1. pc = "link" /\ queue # << >>
    BY Zenon DEF Link
  <2>2. pattern_index = pattern_count
    BY <2>1 DEF BuildInv, Cursor
  <2>3. Heads(W, r)
    BY <1>1, <2>1, <2>2 DEF Heads
  <2>4. QED
    BY <2>3, HeadFacts DEF BuildInv
<1>3. /\ \A b \in Keys(r) :
           states'[NextState(r, b)] =
             [goto |-> states[NextState(r, b)].goto,
              failure |-> FailureFor(r, b, NextState(r, b)),
              outputs |-> states[NextState(r, b)].outputs
                          \o states[FailureFor(r, b, NextState(r, b))].outputs]
      /\ \A s \in Nodes : (\A b \in Keys(r) : s # NextState(r, b)) => states'[s] = states[s]
      /\ states' = [s \in Nodes |-> states'[s]]
      /\ UNCHANGED <<patterns, pattern_index, offset, node, pc>>
  <2>1. Heads(W, r)
    BY <1>2
  <2>2. QED
    BY <2>1, LinkWrites, ZenonT(40)
<1>4. /\ Nodes' = Nodes /\ pc = "link" /\ pattern_index = pattern_count
      /\ 0 \in Nodes /\ Nodes \subseteq Nat
  <2>1. Nodes' = Nodes
    BY <1>3 DEF Nodes
  <2>2. QED
    BY <1>2, <2>1, NodeFacts DEF Heads
\* A child has the failure and the outputs it should have.
<1>5. ASSUME NEW b \in Keys(r), NEW c, c = NextState(r, b)
      PROVE  /\ c \in Nodes \ {0} /\ states'[c] \in StateRecord
             /\ states'[c].goto = states[c].goto
             /\ LongestEnd(W, states'[c].failure, W[c], Len(W[c])) /\ states'[c].failure \in Nodes
             /\ IsInjective(states'[c].outputs) /\ Range(states'[c].outputs) = EndingIn(W[c])
  <2>1. PICK f, o : f = FailureFor(r, b, c) /\ o = states[c].outputs \o states[f].outputs
    OBVIOUS
  <2>2. /\ LongestEnd(W, f, W[c], Len(W[c]))
        /\ o \in Seq(Nat) /\ IsInjective(o) /\ Range(o) = EndingIn(W[c])
    <3>1. Heads(W, r)
      BY <1>2
    <3>2. /\ LongestEnd(W, f, W[c], Len(W[c]))
          /\ o \in Seq(Nat) /\ IsInjective(o) /\ Range(o) = EndingIn(W[c])
      <4>1. Computes(r, b, c, f, o)
        BY <1>5, <2>1 DEF Computes
      <4>2. QED
        BY <1>5, <3>1, <4>1, ChildLinks
    <3>3. QED
      BY <3>2
  <2>3. f \in Nodes
    BY <2>2 DEF LongestEnd
  <2>4. c \in Nodes \ {0}
    BY <1>2, <1>5, ChildFacts
  <2>5. states'[c] = [goto |-> states[c].goto, failure |-> f, outputs |-> o]
    BY <1>3, <1>5, <2>1
  <2>6. states[c] \in StateRecord
    BY <1>2, <2>4 DEF Shape
  <2>7. states'[c] \in StateRecord /\ states'[c].failure = f /\ states'[c].outputs = o
        /\ states'[c].goto = states[c].goto
    BY <1>4, <2>2, <2>3, <2>5, <2>6 DEF StateRecord
  <2>8. QED
    BY <2>2, <2>3, <2>4, <2>7
<1>6. /\ \A s \in Nodes : (Keys(s))' = Keys(s) /\ states'[s].goto = states[s].goto
      /\ \A s \in Nodes : \A b \in Keys(s) : (NextState(s, b))' = NextState(s, b)
  <2>1. \A s \in Nodes : states'[s].goto = states[s].goto
    BY <1>3, <1>5
  <2>2. QED
    BY <2>1 DEF Keys, NextState
<1>7. Shape'
  <2>1. \A s \in Nodes : states'[s] \in StateRecord /\ (Failure(s))' \in Nodes
    <3>1. \A s \in Nodes : states[s] \in StateRecord /\ states[s].failure \in Nodes
      BY <1>2 DEF Shape, Failure
    <3>2. QED
      BY <1>3, <1>5, <3>1 DEF Failure
  <2>2. states' \in [Nodes -> StateRecord]
    BY <1>3, <2>1
  <2>3. \A s \in Nodes : /\ IsFiniteSet((Keys(s))')
                         /\ \A b \in (Keys(s))' : (NextState(s, b))' \in Nodes
    BY <1>2, <1>6 DEF Shape
  <2>4. \E k \in Nat \ {0} : Nodes' = 0 .. k - 1
    BY <1>2, <1>4 DEF Shape
  <2>5. /\ patterns' \in Seq(Word) /\ pattern_index' \in 0 .. pattern_count'
        /\ offset' \in Nat /\ node' \in Nodes' /\ pc' \in {"insert", "link", "idle", "slice"}
    BY <1>2, <1>3, <1>4 DEF Shape
  <2>6. QED
    BY <1>4, <2>1, <2>2, <2>3, <2>4, <2>5 DEF Shape
<1>8. Spells(W)'
  <2>1. /\ W \in [Nodes -> Word] /\ W[0] = << >>
        /\ \A s \in Nodes : \A b \in Keys(s) : W[NextState(s, b)] = Append(W[s], b)
        /\ \A s, t \in Nodes : W[s] = W[t] => s = t
        /\ \A s \in Nodes \ {0} : \E u \in Nodes : \E b \in Keys(u) : s = NextState(u, b)
    BY <1>2 DEF Spells
  <2>2. \A s \in Nodes \ {0} : \E u \in Nodes : \E b \in (Keys(u))' : s = (NextState(u, b))'
    BY <1>6, <2>1
  <2>3. \A s \in Nodes : \A b \in (Keys(s))' : W[(NextState(s, b))'] = Append(W[s], b)
    BY <1>6, <2>1
  <2>4. QED
    BY <1>4, <2>1, <2>2, <2>3 DEF Spells
<1>9. Holds(W)' /\ Cursor(W)'
  <2>1. \A w : Inserted(w)' <=> Inserted(w)
    BY <1>3 DEF Inserted, InsertedLength, Indices, Pattern
  <2>2. Holds(W)'
    BY <1>2, <1>4, <2>1 DEF Holds
  <2>3. Cursor(W)'
    BY <1>2, <1>3 DEF Cursor, Pattern
  <2>4. QED
    BY <2>2, <2>3
<1>10. /\ Levels(W)'
       /\ \A s \in Nodes :
            Awaits(W, s)' <=> Awaits(W, s) /\ \A b \in Keys(r) : s # NextState(r, b)
  BY <1>2, LinkQueue
<1>11. Links(W)'
  <2>1. ASSUME NEW s \in Nodes \ {0}
        PROVE  /\ IsInjective(states'[s].outputs)
               /\ IF Awaits(W, s)' THEN Unlinked(W, s)' ELSE Linked(W, s)'
    <3>1. CASE \E b \in Keys(r) : s = NextState(r, b)
      <4>1. PICK b \in Keys(r) : s = NextState(r, b)
        BY <3>1
      <4>2. /\ LongestEnd(W, (Failure(s))', W[s], Len(W[s]))
            /\ IsInjective(states'[s].outputs) /\ Range(states'[s].outputs) = EndingIn(W[s])
        BY <1>5, <4>1 DEF Failure
      <4>3. Linked(W, s)'
        BY <1>3, <1>4, <4>2 DEF Linked, LongestEnd, EndingIn, Indices, Pattern
      <4>4. QED
        BY <1>10, <3>1, <4>2, <4>3
    <3>2. CASE \A b \in Keys(r) : s # NextState(r, b)
      <4>1. states'[s] = states[s]
        BY <1>3, <3>2
      <4>2. Unlinked(W, s) => Unlinked(W, s)'
        BY <1>3, <4>1 DEF Unlinked, Failure, Indices, Pattern
      <4>3. Linked(W, s) => Linked(W, s)'
        BY <1>3, <1>4, <4>1 DEF Linked, LongestEnd, EndingIn, Failure, Indices, Pattern
      <4>4. IsInjective(states[s].outputs) /\ IF Awaits(W, s) THEN Unlinked(W, s) ELSE Linked(W, s)
        BY <1>2 DEF Links
      <4>5. QED
        BY <1>10, <3>2, <4>1, <4>2, <4>3, <4>4
    <3>3. QED
      BY <3>1, <3>2
  <2>2. (Failure(0))' = 0 /\ states'[0].outputs = << >>
    <3>1. states'[0] = states[0]
      BY <1>3, <1>4, <1>5
    <3>2. QED
      BY <1>2, <3>1 DEF Links, Failure
  <2>3. QED
    BY <1>4, <2>1, <2>2 DEF Links
<1>12. QED
  BY <1>7, <1>8, <1>9, <1>10, <1>11 DEF BuildInv

\* The queue is empty, so that no state awaits its links.
LEMMA BuildDoneKeeps ==
    ASSUME NEW W, BuildInv(W), BuildDone
    PROVE  BuildInv(W)'
<1>1. pc = "link" /\ queue = << >> /\ pc' = "idle" /\ UNCHANGED build_vars
  BY DEF BuildDone
<1>2. UNCHANGED <<patterns, states, pattern_index, offset, node, queue>>
  BY <1>1 DEF build_vars
<1>3. Shape' /\ Spells(W)'
  <2>1. Shape'
    BY <1>1, <1>2 DEF BuildInv, Shape, Nodes, Keys, NextState, Failure
  <2>2. Spells(W)'
    BY <1>2 DEF BuildInv, Spells, Nodes, Keys, NextState
  <2>3. QED
    BY <2>1, <2>2
<1>4. Holds(W)'
  <2>1. \A w : Inserted(w)' <=> Inserted(w)
    BY <1>2 DEF Inserted, InsertedLength, Indices, Pattern
  <2>2. QED
    BY <1>2, <2>1 DEF BuildInv, Holds, Nodes
<1>5. Cursor(W)'
  BY <1>1, <1>2 DEF BuildInv, Cursor, Pattern
<1>6. Levels(W)'
  BY <1>1, <1>2 DEF BuildInv, Levels, Nodes
<1>7. \A s \in Nodes : /\ (Awaits(W, s))' <=> Awaits(W, s)
                       /\ (Unlinked(W, s))' <=> Unlinked(W, s)
                       /\ (Linked(W, s))' <=> Linked(W, s)
  BY <1>1, <1>2 DEF Awaits, Unlinked, Linked, LongestEnd, EndingIn, Nodes, Indices, Failure, Pattern
<1>8. Links(W)'
  BY <1>2, <1>7 DEF BuildInv, Links, Nodes, Failure
<1>9. QED
  BY <1>3, <1>4, <1>5, <1>6, <1>8 DEF BuildInv

LEMMA BuildKeeps ==
    ASSUME NEW W, BuildInv(W), Build
    PROVE  \E V : BuildInv(V)'
BY InsertByteKeeps, InsertDoneKeeps, StartLinkingKeeps, LinkKeeps, BuildDoneKeeps DEF Build

\* Before anything is inserted the root is all there is.
LEMMA BuildBegins ==
    ASSUME Init
    PROVE  \E W : BuildInv(W)
<1> DEFINE W == [s \in {0} |-> << >>]
<1>1. /\ patterns \in Seq(Word) /\ states = [s \in {0} |-> EmptyState]
      /\ pattern_index = 0 /\ offset = 0 /\ node = 0 /\ queue = << >> /\ pc = "insert"
  BY AhoCorasickAssumption DEF Init, Word
<1>2. Len(patterns) \in Nat /\ Nodes = {0} /\ {0} = 0 .. 1 - 1
  BY <1>1 DEF Nodes
<1>3. states[0] = EmptyState /\ Keys(0) = {} /\ Failure(0) = 0 /\ states[0].outputs = << >>
  BY <1>1 DEF Keys, Failure, EmptyState
<1>4. W[0] = << >> /\ << >> \in Word /\ Len(<< >>) = 0 /\ W \in [{0} -> Word]
  BY EmptySeq DEF Word
<1> HIDE DEF W
<1>5. Shape
  <2>1. EmptyState \in StateRecord
    <3>1. [a \in {} |-> 0] \in [{} -> Nat] /\ {} \in SUBSET Byte
      OBVIOUS
    <3>2. [a \in {} |-> 0] \in Maps
      BY <3>1 DEF Maps
    <3>3. QED
      BY <3>2 DEF EmptyState, StateRecord
  <2>2. states \in [Nodes -> StateRecord]
    BY <1>1, <1>2, <2>1
  <2>3. \E k \in Nat \ {0} : Nodes = 0 .. k - 1
    BY <1>2
  <2>4. IsFiniteSet({})
    BY FS_EmptySet
  <2>5. QED
    BY <1>1, <1>2, <1>3, <2>2, <2>3, <2>4, SMTT(30) DEF Shape
<1>6. Spells(W)
  BY <1>2, <1>3, <1>4 DEF Spells
<1>7. \A p \in Indices : p \in Nat /\ Pattern(p) \in Word /\ Len(Pattern(p)) \in Nat
  BY <1>5, PatternFacts
<1>8. Holds(W)
  <2>1. ASSUME NEW w \in Word, Inserted(w) PROVE w = << >>
    <3>1. SUFFICES ASSUME NEW p \in Indices, Len(w) <= InsertedLength(p) PROVE w = << >>
      BY <2>1 DEF Inserted
    <3>2. InsertedLength(p) = 0
      BY <1>1, <1>7 DEF InsertedLength
    <3>3. Len(w) = 0
      BY <3>1, <3>2, WordProperties
    <3>4. QED
      BY <3>3, WordProperties
  <2>2. QED
    BY <1>2, <1>4, <2>1 DEF Holds, Inserted
<1>9. Cursor(W)
  <2>1. \A p \in Indices : Begins(<< >>, Pattern(p))
    BY <1>4, <1>7 DEF Begins
  <2>2. pattern_index < pattern_count => Begins(W[node], Pattern(pattern_index))
    BY <1>1, <1>2, <1>4, <2>1 DEF Indices
  <2>3. QED
    BY <1>1, <1>4, <2>2 DEF Cursor
<1>10. Links(W)
  BY <1>2, <1>3 DEF Links
<1>11. Levels(W)
  <2>1. << >> \in Seq(Nodes \ {0}) /\ DOMAIN << >> = {}
    BY EmptySeq
  <2>2. QED
    BY <1>1, <2>1 DEF Levels
<1>12. QED
  BY <1>5, <1>6, <1>8, <1>9, <1>10, <1>11 DEF BuildInv

-----------------------------------------------------------------------------
(* The matches of a scan *)

\* When the build is done each state is linked.
LEMMA AllLinked ==
    ASSUME NEW W, BuildInv(W), Built
    PROVE  /\ \A x \in Nodes \ {0} : Linked(W, x)
           /\ \A m \in Nat : LinkedTo(W, m)
<1>1. queue = << >> /\ pc # "insert" /\ DOMAIN << >> = {}
  BY DEF BuildInv, Levels, Built
<1>2. \A x : ~Awaits(W, x)
  BY <1>1 DEF Awaits
<1>3. \A x \in Nodes \ {0} : Linked(W, x)
  BY <1>2 DEF BuildInv, Links
<1>4. QED
  BY <1>3 DEF Linked, LinkedTo

\* One byte: the state after it is the longest end of the text with the byte.
LEMMA GotoIs ==
    ASSUME NEW W, BuildInv(W), Built, NEW t \in Word, NEW s, LongestEnd(W, s, t, Len(t) + 1),
           NEW b \in Byte
    PROVE  LongestEnd(W, Goto(s, b), Append(t, b), Len(Append(t, b)) + 1)
<1>1. s \in Nodes /\ Shape /\ Spells(W) /\ Falls(W)
  BY LinksFall DEF BuildInv, LongestEnd
<1>2. Len(W[s]) \in Nat /\ Len(t) \in Nat /\ Len(Append(t, b)) = Len(t) + 1
  BY <1>1, NodeFacts, WordProperties, AppendWord
<1>3. PICK g : g = Chase(s, b)
  OBVIOUS
<1>4. ChaseEnds(W, s, b, g)
  <2>1. LinkedTo(W, Len(W[s])) /\ Len(W[s]) <= Len(W[s])
    BY <1>2, AllLinked
  <2>2. QED
    BY <1>1, <1>2, <1>3, <2>1, ChaseIs
<1>5. Goto(s, b) = StepFrom(g, b)
  BY <1>3, <1>4 DEF Goto, StepFrom, ChaseEnds
<1>6. Len(t) + 1 \in Nat
  BY <1>2
<1>7. LongestEnd(W, StepFrom(g, b), Append(t, b), (Len(t) + 1) + 1)
  BY <1>1, <1>4, <1>6, StepIs
<1>8. QED
  BY <1>2, <1>5, <1>7

\* The matches that end with a text, in terms of the patterns from 0.
LEMMA EndingAtIs ==
    ASSUME Shape, NEW t \in Word
    PROVE  /\ Occurrence!EndingAt(patterns, t) = { <<Len(t) - Len(Pattern(p)), p>> : p \in EndingIn(t) }
           /\ \A x \in Occurrence!EndingAt(patterns, t) :
                /\ x \in Pairs /\ x[2] \in Indices /\ x[1] >= 0
                /\ Len(Pattern(x[2])) \in Nat /\ Len(Pattern(x[2])) > 0
                /\ x[1] + Len(Pattern(x[2])) = Len(t)
<1>1. /\ patterns \in Seq(Word) /\ Len(patterns) \in Nat /\ DOMAIN patterns = 1 .. Len(patterns)
      /\ Len(t) \in Nat
  BY WordProperties DEF Shape
<1>2. \A p \in Indices : p \in Nat /\ Pattern(p) \in Word /\ Len(Pattern(p)) \in Nat
  BY PatternFacts
<1> DEFINE D == { q \in DOMAIN patterns :
                  /\ 0 < Len(patterns[q]) /\ Len(patterns[q]) <= Len(t)
                  /\ Occurrence!Occurs(patterns[q], t, Len(t) - Len(patterns[q])) }
<1>3. Occurrence!EndingAt(patterns, t) = { <<Len(t) - Len(patterns[p]), p - 1>> : p \in D }
  BY DEF Occurrence!EndingAt, Occurrence!Match
<1>4. ASSUME NEW p \in D PROVE p - 1 \in EndingIn(t) /\ Pattern(p - 1) = patterns[p]
  <2>1. p \in 1 .. Len(patterns) /\ p - 1 \in Indices /\ (p - 1) + 1 = p
    BY <1>1 DEF Indices
  <2>2. Pattern(p - 1) = patterns[p]
    BY <2>1 DEF Pattern
  <2>3. Ends(patterns[p], t)
    BY DEF Occurrence!Occurs, Ends
  <2>4. QED
    BY <2>1, <2>2, <2>3 DEF EndingIn
<1>5. ASSUME NEW p \in EndingIn(t) PROVE p + 1 \in D /\ Pattern(p) = patterns[p + 1] /\ (p + 1) - 1 = p
  <2>1. p \in Indices /\ p \in Nat /\ p + 1 \in 1 .. Len(patterns) /\ (p + 1) - 1 = p
    BY <1>1, <1>2 DEF EndingIn, Indices
  <2>2. Pattern(p) = patterns[p + 1]
    BY DEF Pattern
  <2>3. Len(Pattern(p)) > 0 /\ Ends(Pattern(p), t)
    BY DEF EndingIn
  <2>4. Occurrence!Occurs(patterns[p + 1], t, Len(t) - Len(patterns[p + 1]))
    BY <2>2, <2>3 DEF Occurrence!Occurs, Ends
  <2>5. QED
    BY <1>1, <1>2, <2>1, <2>2, <2>3, <2>4 DEF Ends
<1> HIDE DEF D
<1>6. Occurrence!EndingAt(patterns, t) = { <<Len(t) - Len(Pattern(p)), p>> : p \in EndingIn(t) }
  <2>1. ASSUME NEW x \in Occurrence!EndingAt(patterns, t)
        PROVE  x \in { <<Len(t) - Len(Pattern(p)), p>> : p \in EndingIn(t) }
    <3>1. PICK p \in D : x = <<Len(t) - Len(patterns[p]), p - 1>>
      BY <1>3
    <3>2. QED
      BY <1>4, <3>1
  <2>2. ASSUME NEW p \in EndingIn(t)
        PROVE  <<Len(t) - Len(Pattern(p)), p>> \in Occurrence!EndingAt(patterns, t)
    BY <1>3, <1>5
  <2>3. QED
    BY <2>1, <2>2
<1>7. ASSUME NEW x \in Occurrence!EndingAt(patterns, t)
      PROVE  /\ x \in Pairs /\ x[2] \in Indices /\ x[1] >= 0
             /\ Len(Pattern(x[2])) \in Nat /\ Len(Pattern(x[2])) > 0
             /\ x[1] + Len(Pattern(x[2])) = Len(t)
  <2>1. PICK p \in EndingIn(t) : x = <<Len(t) - Len(Pattern(p)), p>>
    BY <1>6
  <2>2. p \in Indices /\ Len(Pattern(p)) > 0 /\ Len(Pattern(p)) <= Len(t)
    BY DEF EndingIn, Ends
  <2>3. Len(Pattern(p)) \in Nat /\ p \in Nat
    BY <1>2, <2>2
  <2>4. x[1] = Len(t) - Len(Pattern(p)) /\ x[2] = p
    BY <2>1
  <2>5. x \in Pairs
    BY <1>1, <2>1, <2>3 DEF Pairs
  <2>6. QED
    BY <1>1, <2>2, <2>3, <2>4, <2>5
<1>8. QED
  BY <1>6, <1>7

\* The matches the scan lists at a state are those that end there.
LEMMA MatchesAre ==
    ASSUME NEW W, BuildInv(W), Built, NEW t \in Word, NEW s, LongestEnd(W, s, t, Len(t) + 1)
    PROVE  /\ MatchesAt(s, Len(t)) \in Seq(Pairs) /\ IsInjective(MatchesAt(s, Len(t)))
           /\ Range(MatchesAt(s, Len(t))) = Occurrence!EndingAt(patterns, t)
<1>1. s \in Nodes /\ Shape /\ Spells(W) /\ pc # "insert" /\ Len(t) \in Nat /\ Len(t) + 1 \in Nat
  BY WordProperties DEF BuildInv, LongestEnd, Built
<1>2. IsInjective(states[s].outputs) /\ Range(states[s].outputs) = EndingIn(W[s])
  <2>1. s = 0 \/ Linked(W, s)
    BY <1>1, AllLinked
  <2>2. QED
    BY <1>1, <2>1, OutputsAre
<1>3. \A p \in Indices : p \in Nat /\ Pattern(p) \in Word /\ Len(Pattern(p)) \in Nat
  BY <1>1, PatternFacts
<1>4. ASSUME NEW p \in Indices
      PROVE  Ends(Pattern(p), t) <=> Ends(Pattern(p), W[s])
  <2>1. Len(W[s]) <= Len(t) /\ Len(W[s]) \in Nat
    BY <1>1, NodeFacts DEF LongestEnd, Ends
  <2>2. Ends(Pattern(p), t) \/ Ends(Pattern(p), W[s]) => Len(Pattern(p)) < Len(t) + 1
    <3>1. Ends(Pattern(p), t) => Len(Pattern(p)) <= Len(t)
      BY DEF Ends
    <3>2. Ends(Pattern(p), W[s]) => Len(Pattern(p)) <= Len(W[s])
      BY DEF Ends
    <3>3. QED
      BY <1>1, <1>3, <2>1, <3>1, <3>2
  <2>3. QED
    BY <1>1, <2>2, ReportedByLongest
<1>5. EndingIn(W[s]) = EndingIn(t)
  BY <1>4 DEF EndingIn
<1> DEFINE o == states[s].outputs
           M == MatchesAt(s, Len(t))
<1>6. o \in Seq(Nat) /\ Len(o) \in Nat /\ DOMAIN o = 1 .. Len(o)
  <2>1. o \in Seq(Nat)
    BY <1>1 DEF Shape, StateRecord
  <2> HIDE DEF o
  <2>2. QED
    BY <2>1
<1>7. M = [x \in 1 .. Len(o) |-> <<Len(t) - Len(Pattern(o[x])), o[x]>>]
  BY <1>6 DEF MatchesAt
<1> HIDE DEF o, M
<1>8. \A x \in 1 .. Len(o) : o[x] \in EndingIn(t)
  BY <1>2, <1>5, <1>6 DEF Range, o
<1>9. \A p \in EndingIn(t) : \E x \in 1 .. Len(o) : o[x] = p
  BY <1>2, <1>5, <1>6 DEF Range, o
<1>10. \A p \in EndingIn(t) : p \in Indices
  BY DEF EndingIn
<1>11. M \in Seq(Pairs) /\ DOMAIN M = 1 .. Len(o)
  <2>1. \A x \in 1 .. Len(o) : <<Len(t) - Len(Pattern(o[x])), o[x]>> \in Pairs
    BY <1>1, <1>3, <1>8, <1>10 DEF Pairs
  <2>2. M \in [1 .. Len(o) -> Pairs]
    BY <1>7, <2>1
  <2>3. QED
    BY <1>6, <2>2
<1>12. \A x \in 1 .. Len(o) : M[x] = <<Len(t) - Len(Pattern(o[x])), o[x]>>
  BY <1>7
<1>13. IsInjective(M)
  <2>1. ASSUME NEW x \in 1 .. Len(o), NEW y \in 1 .. Len(o), M[x] = M[y] PROVE x = y
    <3>1. o[x] = o[y]
      BY <1>12, <2>1
    <3>2. QED
      BY <1>2, <1>6, <3>1 DEF IsInjective, o
  <2>2. QED
    BY <1>11, <2>1 DEF IsInjective
<1>14. Range(M) = { <<Len(t) - Len(Pattern(p)), p>> : p \in EndingIn(t) }
  <2>1. \A x : x \in Range(M) <=> \E i \in 1 .. Len(o) : M[i] = x
    BY <1>11 DEF Range
  <2>2. ASSUME NEW x \in Range(M)
        PROVE  x \in { <<Len(t) - Len(Pattern(p)), p>> : p \in EndingIn(t) }
    <3>1. PICK i \in 1 .. Len(o) : M[i] = x
      BY <2>1
    <3>2. o[i] \in EndingIn(t) /\ x = <<Len(t) - Len(Pattern(o[i])), o[i]>>
      BY <1>8, <1>12, <3>1
    <3>3. QED
      BY <3>2
  <2>3. ASSUME NEW p \in EndingIn(t)
        PROVE  <<Len(t) - Len(Pattern(p)), p>> \in Range(M)
    <3>1. PICK i \in 1 .. Len(o) : o[i] = p
      BY <1>9
    <3>2. M[i] = <<Len(t) - Len(Pattern(p)), p>>
      BY <1>12, <3>1
    <3>3. QED
      BY <2>1, <3>2
  <2>4. QED
    BY <2>2, <2>3
<1>15. QED
  BY <1>1, <1>11, <1>13, <1>14, EndingAtIs DEF M

\* The matches in a text, and how they grow with it.
LEMMA OccurrencesOfEmpty == Occurrences(<< >>) = {}
BY DEF Occurrences

LEMMA OccurrencesAre ==
    ASSUME Shape, NEW t \in Word
    PROVE  \A x \in Occurrences(t) :
              /\ x \in Pairs /\ x[2] \in Indices /\ x[1] >= 0
              /\ Len(Pattern(x[2])) \in Nat /\ Len(Pattern(x[2])) > 0
              /\ x[1] + Len(Pattern(x[2])) <= Len(t)
<1>1. SUFFICES ASSUME NEW x \in Occurrences(t)
               PROVE  /\ x \in Pairs /\ x[2] \in Indices /\ x[1] >= 0
                      /\ Len(Pattern(x[2])) \in Nat /\ Len(Pattern(x[2])) > 0
                      /\ x[1] + Len(Pattern(x[2])) <= Len(t)
  OBVIOUS
<1>2. PICK n \in 1 .. Len(t) : x \in Occurrence!EndingAt(patterns, SubSeq(t, 1, n))
  BY DEF Occurrences
<1>3. Len(t) \in Nat /\ n \in 0 .. Len(t) /\ n <= Len(t)
  BY WordProperties
<1>4. SubSeq(t, 1, n) \in Word /\ Len(SubSeq(t, 1, n)) = n
  BY <1>3, PrefixWord
<1>5. QED
  BY <1>2, <1>3, <1>4, EndingAtIs

LEMMA OccurrencesGrow ==
    ASSUME NEW t \in Word, NEW b \in Byte
    PROVE  Occurrences(Append(t, b)) = Occurrences(t) \cup Occurrence!EndingAt(patterns, Append(t, b))
<1> DEFINE y == Append(t, b)
<1>1. y \in Word /\ Len(y) = Len(t) + 1 /\ Len(t) \in Nat /\ \A i \in 1 .. Len(t) : y[i] = t[i]
  BY AppendWord, WordProperties
<1> HIDE DEF y
<1>2. SubSeq(y, 1, Len(y)) = y
  BY <1>1, WholePrefix
<1>3. ASSUME NEW n \in 1 .. Len(t) PROVE SubSeq(y, 1, n) = SubSeq(t, 1, n)
  <2>1. n \in 0 .. Len(t) /\ n \in 0 .. Len(y)
    BY <1>1
  <2>2. /\ SubSeq(y, 1, n) \in Word /\ Len(SubSeq(y, 1, n)) = n /\ \A i \in 1 .. n : SubSeq(y, 1, n)[i] = y[i]
        /\ SubSeq(t, 1, n) \in Word /\ Len(SubSeq(t, 1, n)) = n /\ \A i \in 1 .. n : SubSeq(t, 1, n)[i] = t[i]
    BY <1>1, <2>1, PrefixWord
  <2>3. \A i \in 1 .. n : SubSeq(y, 1, n)[i] = SubSeq(t, 1, n)[i]
    BY <1>1, <2>2
  <2>4. QED
    BY <2>2, <2>3, EqualWords
<1>4. /\ \A n \in 1 .. Len(y) : n \in 1 .. Len(t) \/ n = Len(y)
      /\ \A n \in 1 .. Len(t) : n \in 1 .. Len(y)
      /\ Len(y) \in 1 .. Len(y)
  BY <1>1
<1>5. \A x : x \in Occurrences(y) <=> \E n \in 1 .. Len(y) : x \in Occurrence!EndingAt(patterns, SubSeq(y, 1, n))
  BY DEF Occurrences
<1>6. \A x : x \in Occurrences(t) <=> \E n \in 1 .. Len(t) : x \in Occurrence!EndingAt(patterns, SubSeq(t, 1, n))
  BY DEF Occurrences
<1>7. ASSUME NEW x PROVE x \in Occurrences(y) <=> x \in Occurrences(t) \cup Occurrence!EndingAt(patterns, y)
  <2>1. ASSUME x \in Occurrences(y) PROVE x \in Occurrences(t) \cup Occurrence!EndingAt(patterns, y)
    BY <1>2, <1>3, <1>4, <1>5, <1>6, <2>1, Zenon
  <2>2. ASSUME x \in Occurrences(t) PROVE x \in Occurrences(y)
    BY <1>3, <1>4, <1>5, <1>6, <2>2
  <2>3. ASSUME x \in Occurrence!EndingAt(patterns, y) PROVE x \in Occurrences(y)
    BY <1>2, <1>4, <1>5, <2>3, Zenon
  <2>4. QED
    BY <2>1, <2>2, <2>3, SMTT(30)
<1>8. QED
  BY <1>7 DEF y

LEMMA EmptyMatchesAre ==
    ASSUME Shape
    PROVE  /\ EmptyMatches \in Seq(Pairs) /\ IsInjective(EmptyMatches)
           /\ Range(EmptyMatches) = { <<0, p>> : p \in { p \in Indices : Len(Pattern(p)) = 0 } }
<1> DEFINE E == { p \in Indices : Len(Pattern(p)) = 0 }
           n == Cardinality(E)
           a == Ascending(E)
<1>1. E \subseteq Int /\ IsFiniteSet(E)
  <2>1. Len(patterns) \in Nat
    BY DEF Shape
  <2>2. IsFiniteSet(Indices)
    BY <2>1, FS_Interval DEF Indices
  <2>3. IsFiniteSet(E)
    BY <2>2, FS_Subset
  <2>4. QED
    BY <2>3 DEF Indices
<1>2. /\ n \in Nat /\ a \in [1 .. n -> E]
      /\ \A x \in E : \E k \in 1 .. n : a[k] = x
      /\ \A i, j \in 1 .. n : i < j => a[i] < a[j]
  <2> HIDE DEF E
  <2>1. QED
    BY <1>1, AscendingIs
<1>3. EmptyMatches = [k \in 1 .. n |-> <<0, a[k]>>]
  BY <1>2 DEF EmptyMatches, Indices
<1> DEFINE M == EmptyMatches
<1> HIDE DEF E, n, a, M
<1>4. /\ M = [k \in 1 .. n |-> <<0, a[k]>>]
      /\ \A k \in 1 .. n : M[k] = <<0, a[k]>> /\ a[k] \in E /\ a[k] \in Int
  BY <1>1, <1>2, <1>3 DEF M
<1>5. M \in Seq(Pairs) /\ DOMAIN M = 1 .. n
  <2>1. \A k \in 1 .. n : <<0, a[k]>> \in Pairs
    BY <1>4 DEF Pairs
  <2>2. M \in [1 .. n -> Pairs]
    BY <1>4, <2>1
  <2>3. QED
    BY <1>2, <2>2
<1>6. IsInjective(M)
  <2>1. ASSUME NEW i \in 1 .. n, NEW j \in 1 .. n, M[i] = M[j] PROVE i = j
    <3>1. a[i] = a[j] /\ a[i] \in Int
      BY <1>4, <2>1
    <3>2. ~(i < j) /\ ~(j < i)
      BY <1>2, <1>4, <3>1
    <3>3. QED
      BY <1>2, <3>2
  <2>2. QED
    BY <1>5, <2>1 DEF IsInjective
<1>7. Range(M) = { <<0, p>> : p \in E }
  <2>1. \A x : x \in Range(M) <=> \E k \in 1 .. n : M[k] = x
    BY <1>5 DEF Range
  <2>2. ASSUME NEW x \in Range(M) PROVE x \in { <<0, p>> : p \in E }
    BY <1>4, <2>1
  <2>3. ASSUME NEW p \in E PROVE <<0, p>> \in Range(M)
    <3>1. PICK k \in 1 .. n : a[k] = p
      BY <1>2
    <3>2. QED
      BY <1>4, <2>1, <3>1
  <2>4. QED
    BY <2>2, <2>3
<1>8. QED
  BY <1>5, <1>6, <1>7 DEF M, E

\* A byte's matches are new.
LEMMA MatchesAreNew ==
    ASSUME Shape, NEW t \in Word, NEW b \in Byte
    PROVE  Occurrence!EndingAt(patterns, Append(t, b)) \cap (Occurrences(t) \cup Range(EmptyMatches)) = {}
<1>1. SUFFICES ASSUME NEW x \in Occurrence!EndingAt(patterns, Append(t, b)),
                      x \in Occurrences(t) \/ x \in Range(EmptyMatches)
               PROVE  FALSE
  OBVIOUS
<1>2. Append(t, b) \in Word /\ Len(Append(t, b)) = Len(t) + 1 /\ Len(t) \in Nat
  BY AppendWord, WordProperties
<1>3. /\ x[1] >= 0 /\ x[1] + Len(Pattern(x[2])) = Len(t) + 1 /\ Len(Pattern(x[2])) > 0
      /\ Len(Pattern(x[2])) \in Nat
  BY <1>2, EndingAtIs
<1>4. CASE x \in Occurrences(t)
  <2>1. x[1] + Len(Pattern(x[2])) <= Len(t)
    BY <1>4, OccurrencesAre
  <2>2. QED
    BY <1>2, <1>3, <2>1
<1>5. CASE x \in Range(EmptyMatches)
  <2>1. PICK p \in { p \in Indices : Len(Pattern(p)) = 0 } : x = <<0, p>>
    BY <1>5, EmptyMatchesAre
  <2>2. QED
    BY <1>3, <2>1
<1>6. QED
  BY <1>1, <1>4, <1>5

LEMMA HeadTailInjects ==
    ASSUME NEW S, NEW q \in Seq(S), q # << >>, IsInjective(q)
    PROVE  /\ Head(q) \in S /\ Tail(q) \in Seq(S) /\ IsInjective(Tail(q))
           /\ Range(q) = {Head(q)} \cup Range(Tail(q)) /\ Head(q) \notin Range(Tail(q))
<1> DEFINE t == Tail(q)
<1>1. /\ Head(q) \in S /\ t \in Seq(S) /\ Len(t) = Len(q) - 1 /\ Len(q) \in Nat \ {0}
      /\ Head(q) = q[1] /\ \A i \in 1 .. Len(t) : t[i] = q[i + 1]
  BY HeadTailProperties, EmptySeq
<1>2. DOMAIN t = 1 .. Len(t) /\ DOMAIN q = 1 .. Len(q)
  BY <1>1
<1> HIDE DEF t
<1>3. /\ \A i \in 1 .. Len(t) : i + 1 \in 1 .. Len(q) /\ i + 1 # 1
      /\ \A i \in 1 .. Len(q) : i = 1 \/ (i - 1 \in 1 .. Len(t) /\ (i - 1) + 1 = i)
      /\ 1 \in 1 .. Len(q)
  BY <1>1
<1>4. \A x : x \in Range(t) <=> \E i \in 1 .. Len(t) : t[i] = x
  BY <1>2 DEF Range
<1>5. \A x : x \in Range(q) <=> \E i \in 1 .. Len(q) : q[i] = x
  BY <1>2 DEF Range
<1>6. \A i, j \in 1 .. Len(q) : q[i] = q[j] => i = j
  BY <1>2 DEF IsInjective
<1>7. \A i, j \in 1 .. Len(t) : t[i] = t[j] => i = j
  <2>1. ASSUME NEW i \in 1 .. Len(t), NEW j \in 1 .. Len(t), t[i] = t[j] PROVE i = j
    <3>1. i + 1 = j + 1
      BY <1>1, <1>3, <1>6, <2>1
    <3>2. QED
      BY <3>1
  <2>2. QED
    BY <2>1
<1>8. Head(q) \notin Range(t)
  <2>1. SUFFICES ASSUME NEW i \in 1 .. Len(t), t[i] = Head(q) PROVE FALSE
    BY <1>4
  <2>2. QED
    BY <1>1, <1>3, <1>6, <2>1
<1>9. ASSUME NEW x \in Range(q) PROVE x = Head(q) \/ x \in Range(t)
  <2>1. PICK i \in 1 .. Len(q) : q[i] = x
    BY <1>5
  <2>2. QED
    BY <1>1, <1>3, <1>4, <2>1
<1>10. Head(q) \in Range(q) /\ \A x \in Range(t) : x \in Range(q)
  BY <1>1, <1>3, <1>4, <1>5
<1>11. QED
  BY <1>1, <1>2, <1>7, <1>8, <1>9, <1>10 DEF IsInjective, t

-----------------------------------------------------------------------------
(* The stream *)

StreamInv == Reports /\ \E W : BuildInv(W) /\ Reads(W)

\* What may be reported depends on the patterns alone.
LEMMA SamePatterns ==
    ASSUME patterns' = patterns
    PROVE  /\ \A t : Occurrences(t)' = Occurrences(t)
           /\ EmptyMatches' = EmptyMatches
<1>1. \A t : Occurrences(t)' = Occurrences(t)
  BY DEF Occurrences
<1> DEFINE E == { p \in 0 .. pattern_count - 1 : pattern_length(p) = 0 }
<1>2. E' = E
  BY DEF Pattern
<1>3. EmptyMatches = LET a == Ascending(E) IN [x \in DOMAIN a |-> <<0, a[x]>>]
  BY DEF EmptyMatches
<1>4. EmptyMatches' = LET a == Ascending(E') IN [x \in DOMAIN a |-> <<0, a[x]>>]
  BY DEF EmptyMatches
<1>5. QED
  <2> HIDE DEF E
  <2>1. QED
    BY <1>1, <1>2, <1>3, <1>4

LEMMA StreamBegins ==
    ASSUME Init
    PROVE  StreamInv
<1>1. PICK W : BuildInv(W)
  BY BuildBegins
<1>2. /\ current = 0 /\ bytes_fed = 0 /\ pending = << >> /\ initial = TRUE
      /\ out = << >> /\ fed = << >> /\ reported = << >> /\ pc = "insert"
  BY DEF Init
<1>3. /\ << >> \in Word /\ << >> \in Seq(Pairs) /\ Len(<< >>) = 0
      /\ IsInjective(<< >>) /\ Range(<< >>) = {}
  BY EmptySeq DEF Word, IsInjective, Range
<1>4. Reads(W)
  <2>1. /\ 0 \in Nodes /\ W[0] = << >> /\ \A s \in Nodes : Len(W[s]) \in Nat
    BY <1>1, NodeFacts DEF BuildInv, Spells
  <2>2. Ends(W[0], << >>)
    BY <1>3, <2>1, EmptyEnds
  <2>3. LongestEnd(W, 0, << >>, 0 + 1)
    BY <1>3, <2>1, <2>2 DEF LongestEnd
  <2>4. QED
    BY <1>2, <1>3, <2>3 DEF Reads
<1>5. Reports
  BY <1>2, <1>3, OccurrencesOfEmpty DEF Reports, Apart, Empties, Built
<1>6. QED
  BY <1>1, <1>4, <1>5 DEF StreamInv

\* While the automaton is built the stream has not begun.
LEMMA BuildStep ==
    ASSUME StreamInv, Build
    PROVE  StreamInv'
<1>1. PICK W : BuildInv(W) /\ Reads(W)
  BY DEF StreamInv
<1>2. PICK V : BuildInv(V)'
  BY <1>1, BuildKeeps, SMTT(30)
<1>3. /\ ~Built /\ UNCHANGED stream_vars /\ patterns' = patterns /\ pc' # "slice" /\ pc # "slice"
  BY Zenon DEF Build, InsertByte, InsertDone, StartLinking, Link, BuildDone, Inserting, Built, build_vars
<1>4. /\ current' = 0 /\ fed = << >> /\ fed' = << >> /\ bytes_fed' = Len(fed')
      /\ reported' = reported /\ out' = out /\ pending' = pending /\ initial' = initial
      /\ initial = TRUE
  BY <1>1, <1>3 DEF Reads, Reports, StreamInv, stream_vars
<1>5. Reads(V)'
  <2>1. 0 \in Nodes'
    <3>1. PICK k \in Nat \ {0} : Nodes' = 0 .. k - 1
      BY <1>2 DEF BuildInv, Shape
    <3>2. QED
      BY <3>1
  <2>2. V[0] = << >> /\ \A s \in Nodes' : V[s] \in Word
    BY <1>2 DEF BuildInv, Spells
  <2>3. Ends(V[0], << >>) /\ Len(<< >>) = 0 /\ << >> \in Word
    <3>1. << >> \in Word
      BY EmptySeq DEF Word
    <3>2. Ends(<< >>, << >>) /\ Len(<< >>) = 0
      BY <3>1, EmptyEnds
    <3>3. QED
      BY <2>2, <3>1, <3>2
  <2>4. \A s \in Nodes' : Len(V[s]) \in Nat
    BY <2>2, WordProperties
  <2>5. LongestEnd(V, 0, << >>, 0 + 1)'
    BY <2>1, <2>2, <2>3, <2>4 DEF LongestEnd
  <2>6. QED
    BY <1>4, <2>3, <2>5 DEF Reads
<1>6. Reports'
  <2>1. Reports /\ Empties = {} /\ Empties' = {} /\ out = << >>
    BY <1>3, <1>4 DEF Empties, StreamInv, Reports
  <2>2. Occurrences(fed) = {} /\ (Occurrences(fed))' = {}
    BY <1>4, OccurrencesOfEmpty DEF Occurrences
  <2>3. QED
    BY <1>3, <1>4, <2>1, <2>2 DEF Reports
<1>7. QED
  BY <1>2, <1>5, <1>6 DEF StreamInv

\* A byte: the next state, and the matches that end there.
LEMMA AdvanceIs ==
    ASSUME StreamInv, Built, NEW b \in Byte, Advance(b), UNCHANGED build_vars,
           pc' \in {"idle", "slice"}
    PROVE  \E M : /\ M \in Seq(Pairs) /\ IsInjective(M) /\ MatchesAt(current', bytes_fed') = M
                  /\ Range(M) \cap (Occurrences(fed) \cup Empties) = {}
                  /\ (Occurrences(fed))' = Occurrences(fed) \cup Range(M)
                  /\ \E W : BuildInv(W)' /\ Reads(W)'
<1>1. PICK W : BuildInv(W) /\ Reads(W)
  BY DEF StreamInv
<1>2. /\ fed \in Word /\ bytes_fed = Len(fed) /\ LongestEnd(W, current, fed, Len(fed) + 1)
      /\ Shape
  BY <1>1 DEF Reads, BuildInv
<1>3. PICK t, s : t = Append(fed, b) /\ s = Goto(current, b)
  OBVIOUS
<1>4. /\ t \in Word /\ Len(t) = Len(fed) + 1
      /\ fed' = t /\ current' = s /\ bytes_fed' = Len(t)
  BY <1>2, <1>3, AppendWord DEF Advance
<1>5. LongestEnd(W, s, t, Len(t) + 1)
  BY <1>1, <1>2, <1>3, GotoIs
<1>6. PICK M : M = MatchesAt(s, Len(t))
  OBVIOUS
<1>7. M \in Seq(Pairs) /\ IsInjective(M) /\ Range(M) = Occurrence!EndingAt(patterns, t)
  BY <1>1, <1>4, <1>5, <1>6, MatchesAre
<1>8. Range(M) \cap (Occurrences(fed) \cup Empties) = {}
  <2>1. Range(M) \cap (Occurrences(fed) \cup Range(EmptyMatches)) = {}
    BY <1>2, <1>3, <1>7, MatchesAreNew
  <2>2. Empties \subseteq Range(EmptyMatches)
    BY DEF Empties
  <2>3. QED
    BY <2>1, <2>2
<1>9. (Occurrences(fed))' = Occurrences(fed) \cup Range(M)
  <2>1. Occurrences(t) = Occurrences(fed) \cup Range(M)
    BY <1>2, <1>3, <1>7, OccurrencesGrow
  <2>2. patterns' = patterns
    BY DEF build_vars
  <2>3. (Occurrences(fed))' = Occurrences(t)
    BY <1>4, <2>2 DEF Occurrences
  <2>4. QED
    BY <2>1, <2>3
<1>10. BuildInv(W)' /\ Reads(W)'
  <2>1. BuildInv(W)'
    BY <1>1, BuildUnchanged
  <2>2. Nodes' = Nodes
    BY DEF build_vars, Nodes
  <2>3. LongestEnd(W, current, fed, Len(fed) + 1)'
    BY <1>4, <1>5, <2>2 DEF LongestEnd
  <2>4. QED
    BY <1>4, <2>1, <2>3 DEF Reads, Built
<1>11. MatchesAt(current', bytes_fed') = M
  BY <1>4, <1>6
<1>12. QED
  BY <1>7, <1>8, <1>9, <1>10, <1>11

LEMMA FeedStep ==
    ASSUME StreamInv, NEW b \in Byte, Feed(b)
    PROVE  StreamInv'
<1>1. /\ pc = "idle" /\ pc' = "idle" /\ Built /\ Advance(b) /\ UNCHANGED build_vars
      /\ initial' = initial /\ out' = out /\ patterns' = patterns
  BY DEF Feed, Built, build_vars
<1>2. PICK M : /\ M \in Seq(Pairs) /\ IsInjective(M) /\ MatchesAt(current', bytes_fed') = M
               /\ Range(M) \cap (Occurrences(fed) \cup Empties) = {}
               /\ (Occurrences(fed))' = Occurrences(fed) \cup Range(M)
               /\ \E W : BuildInv(W)' /\ Reads(W)'
  BY <1>1, AdvanceIs
<1>3. Empties' = Empties
  BY <1>1, SamePatterns DEF Empties
<1>4. PICK q : q = pending \o M
  OBVIOUS
<1>5. /\ q = << >> => pending' = << >> /\ reported' = reported
      /\ q # << >> => pending' = Tail(q) /\ reported' = Append(reported, Head(q))
  BY <1>2, <1>4 DEF Feed, Queued
<1>6. /\ initial \in BOOLEAN /\ Reports /\ out = << >>
      /\ reported \in Seq(Pairs) /\ pending \in Seq(Pairs)
      /\ IsInjective(reported) /\ IsInjective(pending) /\ Apart(reported, pending)
      /\ Range(reported) \cup Range(pending) = Occurrences(fed) \cup Empties
  <2>1. Reports /\ out = << >> /\ Range(<< >>) = {}
    BY <1>1 DEF StreamInv, Reports, Range
  <2>2. QED
    BY <2>1 DEF Reports
<1>7. /\ q \in Seq(Pairs) /\ IsInjective(q) /\ Range(q) = Range(pending) \cup Range(M)
      /\ Range(reported) \cap Range(q) = {}
      /\ Range(reported) \cup Range(q) = (Occurrences(fed))' \cup Empties'
  <2>1. Apart(pending, M) /\ Range(reported) \cap Range(M) = {}
    BY <1>2, <1>6 DEF Apart
  <2>2. q \in Seq(Pairs) /\ IsInjective(q) /\ Range(q) = Range(pending) \cup Range(M)
    BY <1>2, <1>4, <1>6, <2>1, ConcatInjects, ConcatProperties
  <2>3. QED
    BY <1>2, <1>3, <1>6, <2>1, <2>2 DEF Apart
<1>8. /\ reported' \in Seq(Pairs) /\ pending' \in Seq(Pairs)
      /\ IsInjective(reported') /\ IsInjective(pending')
      /\ Range(reported') \cap Range(pending') = {}
      /\ Range(reported') \cup Range(pending') = (Occurrences(fed))' \cup Empties'
      /\ reported' = << >> => pending' = << >>
  <2>1. CASE q = << >>
    <3>1. Range(<< >>) = {} /\ IsInjective(<< >>) /\ << >> \in Seq(Pairs)
      BY EmptySeq DEF Range, IsInjective
    <3>2. QED
      BY <1>5, <1>6, <1>7, <2>1, <3>1
  <2>2. CASE q # << >>
    <3>1. PICK x, r : x = Head(q) /\ r = Tail(q)
      OBVIOUS
    <3>2. /\ x \in Pairs /\ r \in Seq(Pairs) /\ IsInjective(r)
          /\ Range(q) = {x} \cup Range(r) /\ x \notin Range(r)
      BY <1>7, <2>2, <3>1, HeadTailInjects
    <3>3. pending' = r /\ reported' = Append(reported, x)
      BY <1>5, <2>2, <3>1
    <3>4. /\ Append(reported, x) \in Seq(Pairs) /\ Append(reported, x) # << >>
          /\ IsInjective(Append(reported, x)) /\ Range(Append(reported, x)) = Range(reported) \cup {x}
      BY <1>6, <1>7, <3>2, AppendInjects, AppendProperties
    <3>5. QED
      BY <1>7, <3>2, <3>3, <3>4
  <2>3. QED
    BY <2>1, <2>2
<1>9. Reports'
  <2>1. out' = << >> /\ Range(<< >>) = {} /\ IsInjective(<< >>) /\ << >> \in Seq(Pairs)
    BY <1>1, <1>6, EmptySeq DEF Range, IsInjective
  <2>2. QED
    BY <1>1, <1>6, <1>8, <2>1 DEF Reports, Apart, Built
<1>10. QED
  BY <1>2, <1>9 DEF StreamInv

LEMMA BeginSliceStep ==
    ASSUME StreamInv, BeginSlice
    PROVE  StreamInv'
<1>1. /\ pc = "idle" /\ pc' = "slice" /\ Built /\ UNCHANGED build_vars /\ patterns' = patterns
      /\ out' = (IF initial THEN EmptyMatches ELSE << >>) /\ initial' = FALSE
      /\ UNCHANGED <<current, bytes_fed, pending, fed, reported>>
  BY DEF BeginSlice, Built, build_vars
<1>2. PICK W : BuildInv(W) /\ Reads(W)
  BY DEF StreamInv
<1>3. BuildInv(W)' /\ Reads(W)'
  <2>1. BuildInv(W)'
    BY <1>1, <1>2, BuildUnchanged
  <2>2. Nodes' = Nodes
    BY <1>1 DEF build_vars, Nodes
  <2>3. LongestEnd(W, current, fed, Len(fed) + 1)'
    BY <1>1, <1>2, <2>2 DEF LongestEnd, Reads
  <2>4. QED
    BY <1>1, <1>2, <2>1, <2>3 DEF Reads, Built
<1>4. /\ EmptyMatches \in Seq(Pairs) /\ IsInjective(EmptyMatches)
      /\ Range(EmptyMatches) \cap Occurrences(fed) = {}
  <2>1. Shape /\ fed \in Word
    BY <1>2 DEF BuildInv, Reads
  <2>2. ASSUME NEW x \in Occurrences(fed), x \in Range(EmptyMatches) PROVE FALSE
    <3>1. Len(Pattern(x[2])) > 0
      BY <2>1, OccurrencesAre
    <3>2. PICK p \in { p \in Indices : Len(Pattern(p)) = 0 } : x = <<0, p>>
      BY <2>1, <2>2, EmptyMatchesAre
    <3>3. QED
      BY <3>1, <3>2
  <2>3. QED
    BY <2>1, <2>2, EmptyMatchesAre
<1>5. (Occurrences(fed))' = Occurrences(fed) /\ Empties' = Range(EmptyMatches)
  <2>1. (Occurrences(fed))' = Occurrences(fed)
    BY <1>1 DEF Occurrences
  <2>2. QED
    BY <1>1, <2>1, SamePatterns DEF Empties
<1>6. Reports /\ out = << >> /\ Range(<< >>) = {} /\ IsInjective(<< >>) /\ << >> \in Seq(Pairs)
  BY <1>1, EmptySeq DEF StreamInv, Reports, Range, IsInjective
<1>7. Range(out') = (IF initial THEN Range(EmptyMatches) ELSE {})
  BY <1>1, <1>6
<1>8. out' \in Seq(Pairs) /\ IsInjective(out')
  BY <1>1, <1>4, <1>6
<1>9. /\ Range(reported) \cup Range(pending) = Occurrences(fed) \cup Empties
      /\ Empties = (IF initial THEN {} ELSE Range(EmptyMatches))
  BY <1>6 DEF Reports, Empties
<1>10. /\ Apart(reported, out') /\ Apart(out', pending)
       /\ Range(reported) \cup Range(out') \cup Range(pending) = Occurrences(fed) \cup Range(EmptyMatches)
  BY <1>4, <1>7, <1>9 DEF Apart
<1>11. Reports'
  <2>1. Apart(reported, out)' /\ Apart(out, pending)' /\ Apart(reported, pending)'
    BY <1>1, <1>6, <1>10 DEF Apart, Reports
  <2>2. QED
    BY <1>1, <1>5, <1>6, <1>8, <1>10, <2>1 DEF Reports, Built
<1>12. QED
  BY <1>3, <1>11 DEF StreamInv

LEMMA SliceByteStep ==
    ASSUME StreamInv, NEW b \in Byte, SliceByte(b)
    PROVE  StreamInv'
<1>1. /\ pc = "slice" /\ pc' = "slice" /\ Built /\ Advance(b) /\ UNCHANGED build_vars
      /\ initial' = initial /\ reported' = reported /\ patterns' = patterns
      /\ pending' = << >> /\ out' = out \o Queued
  BY DEF SliceByte, Built, build_vars
<1>2. PICK M : /\ M \in Seq(Pairs) /\ IsInjective(M) /\ MatchesAt(current', bytes_fed') = M
               /\ Range(M) \cap (Occurrences(fed) \cup Empties) = {}
               /\ (Occurrences(fed))' = Occurrences(fed) \cup Range(M)
               /\ \E W : BuildInv(W)' /\ Reads(W)'
  BY <1>1, AdvanceIs
<1>3. Empties' = Empties
  BY <1>1, SamePatterns DEF Empties
<1>4. PICK q : q = pending \o M
  OBVIOUS
<1>5. out' = out \o q
  BY <1>1, <1>2, <1>4 DEF Queued
<1>6. /\ initial = FALSE /\ reported \in Seq(Pairs) /\ out \in Seq(Pairs) /\ pending \in Seq(Pairs)
      /\ IsInjective(reported) /\ IsInjective(out) /\ IsInjective(pending)
      /\ Apart(reported, out) /\ Apart(reported, pending) /\ Apart(out, pending)
      /\ Range(reported) \cup Range(out) \cup Range(pending) = Occurrences(fed) \cup Empties
  BY <1>1 DEF StreamInv, Reports
<1>7. /\ q \in Seq(Pairs) /\ IsInjective(q) /\ Range(q) = Range(pending) \cup Range(M)
  <2>1. Apart(pending, M)
    BY <1>2, <1>6 DEF Apart
  <2>2. QED
    BY <1>2, <1>4, <1>6, <2>1, ConcatInjects, ConcatProperties
<1>8. /\ Apart(out, q) /\ Range(reported) \cap Range(q) = {}
  BY <1>2, <1>6, <1>7 DEF Apart
<1>9. PICK o : o = out \o q
  OBVIOUS
<1>10. /\ o \in Seq(Pairs) /\ IsInjective(o) /\ Range(o) = Range(out) \cup Range(q)
  BY <1>6, <1>7, <1>8, <1>9, ConcatInjects, ConcatProperties
<1>11. /\ Apart(reported, o) /\ Range(reported) \cup Range(o) = (Occurrences(fed))' \cup Empties'
  BY <1>2, <1>3, <1>6, <1>7, <1>8, <1>10 DEF Apart
<1>12. Reports'
  <2>1. Range(<< >>) = {} /\ IsInjective(<< >>) /\ << >> \in Seq(Pairs)
    BY EmptySeq DEF Range, IsInjective
  <2>2. out' = o
    BY <1>5, <1>9
  <2>3. QED
    BY <1>1, <1>6, <1>10, <1>11, <2>1, <2>2 DEF Reports, Apart, Built
<1>13. QED
  BY <1>2, <1>12 DEF StreamInv

\* A step that neither builds nor reads a byte.
LEMMA ReadsUnchanged ==
    ASSUME NEW W, BuildInv(W), Reads(W), UNCHANGED build_vars, UNCHANGED <<current, bytes_fed, fed>>,
           pc' = pc \/ (Built /\ pc' \in {"idle", "slice"})
    PROVE  /\ BuildInv(W)' /\ Reads(W)'
           /\ (Occurrences(fed))' = Occurrences(fed)
           /\ initial' = initial => Empties' = Empties
<1>1. BuildInv(W)'
  BY BuildUnchanged
<1>2. Nodes' = Nodes /\ patterns' = patterns
  BY DEF build_vars, Nodes
<1>3. LongestEnd(W, current, fed, Len(fed) + 1)'
  BY <1>2 DEF LongestEnd, Reads
<1>4. Reads(W)'
  BY <1>3 DEF Reads, Built
<1>5. (Occurrences(fed))' = Occurrences(fed)
  BY <1>2 DEF Occurrences
<1>6. QED
  BY <1>1, <1>2, <1>4, <1>5, SamePatterns DEF Empties

LEMMA EndSliceStep ==
    ASSUME StreamInv, EndSlice
    PROVE  StreamInv'
<1>1. /\ pc = "slice" /\ pc' = "idle" /\ Built /\ UNCHANGED build_vars
      /\ out' = << >> /\ reported' = reported \o SortMatches(out)
      /\ UNCHANGED <<current, bytes_fed, pending, initial, fed>>
  BY DEF EndSlice, Built
<1>2. PICK W : BuildInv(W) /\ Reads(W)
  BY DEF StreamInv
<1>3. /\ BuildInv(W)' /\ Reads(W)'
      /\ (Occurrences(fed))' = Occurrences(fed) /\ Empties' = Empties
  BY <1>1, <1>2, ReadsUnchanged
<1>4. /\ initial = FALSE /\ reported \in Seq(Pairs) /\ out \in Seq(Pairs) /\ pending \in Seq(Pairs)
      /\ IsInjective(reported) /\ IsInjective(out) /\ IsInjective(pending)
      /\ Apart(reported, out) /\ Apart(reported, pending) /\ Apart(out, pending)
      /\ Range(reported) \cup Range(out) \cup Range(pending) = Occurrences(fed) \cup Empties
      /\ reported = << >> => pending = << >>
  BY <1>1 DEF StreamInv, Reports
<1>5. PICK s : s = SortMatches(out)
  OBVIOUS
<1>6. s \in Seq(Pairs) /\ Range(s) = Range(out) /\ IsInjective(s)
  BY <1>4, <1>5, SortMatchesIs
<1>7. Apart(reported, s)
  BY <1>4, <1>6 DEF Apart
<1>8. PICK r : r = reported \o s
  OBVIOUS
<1>9. r \in Seq(Pairs) /\ IsInjective(r) /\ Range(r) = Range(reported) \cup Range(s)
  BY <1>4, <1>6, <1>7, <1>8, ConcatInjects, ConcatProperties
<1>10. r = << >> => pending = << >>
  <2>1. Len(r) = Len(reported) + Len(s) /\ Len(reported) \in Nat /\ Len(s) \in Nat
    BY <1>4, <1>6, <1>8, ConcatProperties
  <2>2. r = << >> => Len(r) = 0
    OBVIOUS
  <2>3. Len(reported) = 0 => reported = << >>
    BY <1>4, EmptySeq
  <2>4. QED
    BY <1>4, <2>1, <2>2, <2>3
<1>11. /\ Apart(r, pending)
       /\ Range(r) \cup Range(pending) = Occurrences(fed) \cup Empties
  BY <1>4, <1>6, <1>9 DEF Apart
<1>12. Reports'
  <2>1. Range(<< >>) = {} /\ IsInjective(<< >>) /\ << >> \in Seq(Pairs)
    BY EmptySeq DEF Range, IsInjective
  <2>2. reported' = r /\ pending' = pending /\ out' = << >> /\ initial' = initial
    BY <1>1, <1>5, <1>8
  <2>3. QED
    BY <1>1, <1>3, <1>4, <1>9, <1>10, <1>11, <2>1, <2>2 DEF Reports, Apart, Built
<1>13. QED
  BY <1>3, <1>12 DEF StreamInv

LEMMA StreamStutters ==
    ASSUME StreamInv, UNCHANGED vars
    PROVE  StreamInv'
<1>1. PICK W : BuildInv(W) /\ Reads(W)
  BY DEF StreamInv
<1>2. /\ BuildInv(W)' /\ Reads(W)'
      /\ (Occurrences(fed))' = Occurrences(fed) /\ Empties' = Empties
  BY <1>1, ReadsUnchanged DEF vars, stream_vars
<1>3. Reports'
  BY <1>2 DEF StreamInv, Reports, Built, Apart, vars, stream_vars
<1>4. QED
  BY <1>2, <1>3 DEF StreamInv

\* The automaton and its stream keep the invariant.
LEMMA StreamInvariant == Spec => []StreamInv
<1>1. Init => StreamInv
  BY StreamBegins
<1>2. StreamInv /\ [Next]_vars => StreamInv'
  <2>1. SUFFICES ASSUME StreamInv, [Next]_vars PROVE StreamInv'
    OBVIOUS
  <2>2. CASE Build
    BY <2>1, <2>2, BuildStep
  <2>3. CASE BeginSlice
    BY <2>1, <2>3, BeginSliceStep
  <2>4. ASSUME NEW b \in Byte, SliceByte(b) PROVE StreamInv'
    BY <2>1, <2>4, SliceByteStep
  <2>5. CASE EndSlice
    BY <2>1, <2>5, EndSliceStep
  <2>6. ASSUME NEW b \in Byte, Feed(b) PROVE StreamInv'
    BY <2>1, <2>6, FeedStep
  <2>7. CASE UNCHANGED vars
    BY <2>1, <2>7, StreamStutters
  <2>8. QED
    BY <2>1, <2>2, <2>3, <2>4, <2>5, <2>6, <2>7 DEF Next, Slicing
<1>3. QED
  BY <1>1, <1>2, PTL DEF Spec

-----------------------------------------------------------------------------
(* Type correctness, and where each match is *)

\* The outputs of a state, linked or not, are indices of patterns.
LEMMA OutputsAreIndices ==
    ASSUME NEW W, BuildInv(W), NEW s \in Nodes
    PROVE  Range(states[s].outputs) \subseteq Indices
<1>1. CASE s = 0
  <2>1. states[s].outputs = << >>
    BY <1>1 DEF BuildInv, Links
  <2>2. QED
    BY <2>1 DEF Range
<1>2. CASE s # 0
  <2>1. Unlinked(W, s) \/ Linked(W, s)
    BY <1>2 DEF BuildInv, Links
  <2>2. QED
    BY <2>1 DEF Unlinked, Linked, EndingIn
<1>3. QED
  BY <1>1, <1>2

\* No match lies before the first byte.
LEMMA MatchesAreNatural ==
    ASSUME StreamInv
    PROVE  \A x \in Occurrences(fed) \cup Empties : x[1] >= 0
<1>1. Shape /\ fed \in Word
  BY DEF StreamInv, BuildInv, Reads
<1>2. \A x \in Occurrences(fed) : x[1] >= 0
  BY <1>1, OccurrencesAre
<1>3. ASSUME NEW x \in Range(EmptyMatches) PROVE x[1] >= 0
  <2>1. PICK p \in { p \in Indices : Len(Pattern(p)) = 0 } : x = <<0, p>>
    BY <1>1, EmptyMatchesAre
  <2>2. QED
    BY <2>1
<1>4. Empties \subseteq Range(EmptyMatches)
  BY DEF Empties
<1>5. QED
  BY <1>2, <1>3, <1>4

LEMMA InvariantIsTyped == ASSUME StreamInv PROVE TypeOK
<1>1. PICK W : BuildInv(W) /\ Reads(W)
  BY DEF StreamInv
<1>2. Shape /\ Spells(W)
  BY <1>1 DEF BuildInv
<1>3. DOMAIN states = 0 .. Cardinality(DOMAIN states) - 1
  BY <1>2, NodeFacts DEF Nodes
<1>4. ASSUME NEW s \in DOMAIN states
      PROVE  /\ Keys(s) \subseteq Byte /\ Range(states[s].goto) \subseteq DOMAIN states
             /\ Failure(s) \in DOMAIN states
             /\ Range(states[s].outputs) \subseteq 0 .. pattern_count - 1
  <2>1. s \in Nodes
    BY DEF Nodes
  <2>2. Keys(s) \subseteq Byte
    BY <1>2, <2>1, ChildFacts
  <2>3. Range(states[s].goto) \subseteq DOMAIN states
    BY <1>2, <2>1 DEF Shape, Nodes, Keys, NextState, Range
  <2>4. Failure(s) \in DOMAIN states
    BY <1>2, <2>1 DEF Shape, Nodes
  <2>5. Range(states[s].outputs) \subseteq 0 .. pattern_count - 1
    BY <1>1, <2>1, OutputsAreIndices DEF Indices
  <2>6. QED
    BY <2>2, <2>3, <2>4, <2>5
<1>5. node \in DOMAIN states /\ current \in DOMAIN states
  BY <1>1, <1>2 DEF Shape, Reads, LongestEnd, Nodes
<1>6. bytes_fed = Len(fed) /\ initial \in BOOLEAN
  BY <1>1 DEF Reads, StreamInv, Reports
<1>7. ASSUME NEW x \in Range(pending \o out) PROVE x[1] >= 0
  <2>1. pending \in Seq(Pairs) /\ out \in Seq(Pairs)
    BY DEF StreamInv, Reports
  <2>2. Range(pending \o out) = Range(pending) \cup Range(out)
    BY <2>1, ConcatInjects
  <2>3. x \in Occurrences(fed) \cup Empties
    BY <2>2 DEF StreamInv, Reports
  <2>4. QED
    BY <2>3, MatchesAreNatural
<1>8. QED
  BY <1>3, <1>4, <1>5, <1>6, <1>7 DEF TypeOK

\* Every index that the build and the stream follow is the number of a state,
\* every output the index of a pattern, and no match begins before the stream:
\* states[next], a failure link, or patterns[index] is never out of bounds.
THEOREM TypeCorrect == Spec => []TypeOK
<1>1. StreamInv => TypeOK
  BY InvariantIsTyped
<1>2. QED
  BY <1>1, StreamInvariant, PTL

LEMMA InvariantCounts == ASSUME StreamInv PROVE NothingLostOrRepeated
<1>1. /\ reported \in Seq(Pairs) /\ out \in Seq(Pairs) /\ pending \in Seq(Pairs)
      /\ IsInjective(reported) /\ IsInjective(out) /\ IsInjective(pending)
      /\ Apart(reported, out) /\ Apart(reported, pending) /\ Apart(out, pending)
      /\ Range(reported) \cup Range(out) \cup Range(pending) = Occurrences(fed) \cup Empties
  BY DEF StreamInv, Reports
<1>2. PICK u : u = reported \o out
  OBVIOUS
<1>3. u \in Seq(Pairs) /\ Range(u) = Range(reported) \cup Range(out) /\ IsInjective(u)
  BY <1>1, <1>2, ConcatInjects, ConcatProperties
<1>4. Apart(u, pending)
  BY <1>1, <1>3 DEF Apart
<1>5. PICK v : v = u \o pending
  OBVIOUS
<1>6. Range(v) = Range(u) \cup Range(pending) /\ IsInjective(v)
  BY <1>1, <1>3, <1>4, <1>5, ConcatInjects
<1>7. Range(v) = Occurrences(fed) \cup (IF initial THEN {} ELSE Range(EmptyMatches))
  BY <1>1, <1>3, <1>6 DEF Empties
<1>8. QED
  BY <1>2, <1>5, <1>6, <1>7 DEF NothingLostOrRepeated

\* However calls of feed and feed_slice alternate, the matches returned, the
\* ones pending and the ones collected are together the occurrences in the bytes
\* fed, and the empty patterns once a slice was begun: none lost, none twice.
THEOREM NothingLost == Spec => []NothingLostOrRepeated
<1>1. StreamInv => NothingLostOrRepeated
  BY InvariantCounts
<1>2. QED
  BY <1>1, StreamInvariant, PTL

-----------------------------------------------------------------------------
(* The automaton *)

\* A prefix of what is in the trie is in the trie.
LEMMA PrefixIsInserted ==
    ASSUME NEW w \in Word, Inserted(w), Shape, NEW n \in 0 .. Len(w)
    PROVE  Inserted(SubSeq(w, 1, n))
<1>1. Len(w) \in Nat /\ n \in Nat /\ n <= Len(w)
  BY WordProperties
<1> DEFINE v == SubSeq(w, 1, n)
<1>2. v \in Word /\ Len(v) = n /\ \A i \in 1 .. n : v[i] = w[i]
  BY PrefixWord
<1> HIDE DEF v
<1>3. CASE w = << >>
  <2>1. n = 0
    BY <1>1, <1>3, WordProperties
  <2>2. v = << >>
    BY <1>2, <2>1, WordProperties
  <2>3. QED
    BY <2>2 DEF Inserted, v
<1>4. CASE w # << >>
  <2>1. PICK p \in Indices : Len(w) <= InsertedLength(p) /\ Begins(w, Pattern(p))
    BY <1>4 DEF Inserted
  <2>2. Pattern(p) \in Word /\ Len(Pattern(p)) \in Nat
    BY PatternFacts
  <2>3. InsertedLength(p) \in Nat
    BY <2>2 DEF InsertedLength, Shape, Indices
  <2>4. n <= InsertedLength(p)
    BY <1>1, <2>1, <2>3
  <2>5. Begins(v, Pattern(p))
    BY <1>1, <1>2, <2>1, <2>2 DEF Begins
  <2>6. QED
    BY <1>2, <2>1, <2>4, <2>5 DEF Inserted, v
<1>5. QED
  BY <1>3, <1>4

LEMMA WordIsPrefix ==
    \A w : w \in Words <=>
        w = << >> \/ \E p \in Indices : \E n \in 0 .. Len(Pattern(p)) : w = SubSeq(Pattern(p), 1, n)
<1> DEFINE Of(p) == { SubSeq(Pattern(p), 1, n) : n \in 0 .. Len(Pattern(p)) }
<1>1. Words = (UNION { Of(p) : p \in Indices }) \cup {<< >>}
  BY DEF Words, Indices
<1>2. \A p, w : w \in Of(p) <=> \E n \in 0 .. Len(Pattern(p)) : w = SubSeq(Pattern(p), 1, n)
  OBVIOUS
<1> DEFINE All == { Of(p) : p \in Indices }
<1> HIDE DEF Of
<1>3. ASSUME NEW w PROVE w \in Words <=> w = << >> \/ \E p \in Indices : w \in Of(p)
  <2>1. w \in UNION All <=> \E S \in All : w \in S
    <3> HIDE DEF All
    <3>1. QED
      OBVIOUS
  <2>2. (\E S \in All : w \in S) <=> \E p \in Indices : w \in Of(p)
    OBVIOUS
  <2>3. Words = (UNION All) \cup {<< >>}
    BY <1>1
  <2>4. w \in Words <=> w \in UNION All \/ w = << >>
    <3> HIDE DEF All
    <3>1. QED
      BY <2>3, Zenon
  <2>5. QED
    BY <2>1, <2>2, <2>4, Zenon
<1>4. QED
  BY <1>2, <1>3

\* Once the patterns are in, the states spell the prefixes of the patterns.
LEMMA WordsAre ==
    ASSUME NEW W, BuildInv(W), pc # "insert"
    PROVE  Words = { W[s] : s \in Nodes }
<1>1. Shape /\ Spells(W) /\ Holds(W) /\ pattern_index = pattern_count
  BY DEF BuildInv, Cursor
<1>2. \A p \in Indices : Pattern(p) \in Word /\ Len(Pattern(p)) \in Nat /\ InsertedLength(p) = Len(Pattern(p))
  <2>1. ASSUME NEW p \in Indices PROVE InsertedLength(p) = Len(Pattern(p))
    BY <1>1 DEF InsertedLength, Indices, Shape
  <2>2. QED
    BY <1>1, <2>1, PatternFacts
<1>3. ASSUME NEW w \in Words PROVE \E s \in Nodes : w = W[s]
  <2>1. CASE w = << >>
    BY <1>1, <2>1, NodeFacts DEF Spells
  <2>2. CASE w # << >>
    <3>1. PICK p \in Indices : \E n \in 0 .. Len(Pattern(p)) : w = SubSeq(Pattern(p), 1, n)
      BY <2>2, WordIsPrefix
    <3>2. PICK n \in 0 .. Len(Pattern(p)) : w = SubSeq(Pattern(p), 1, n)
      BY <3>1
    <3>3. PICK t : t = Pattern(p)
      OBVIOUS
    <3>4. t \in Word /\ Len(t) \in Nat /\ InsertedLength(p) = Len(t) /\ n \in 0 .. Len(t) /\ n <= Len(t)
      BY <1>2, <3>2, <3>3
    <3>5. w = SubSeq(t, 1, n)
      BY <3>2, <3>3
    <3>6. w \in Word /\ Len(w) = n /\ \A i \in 1 .. n : w[i] = t[i]
      BY <3>4, <3>5, PrefixWord
    <3>7. Begins(w, t) /\ Len(w) <= InsertedLength(p)
      BY <3>4, <3>6 DEF Begins
    <3>8. Inserted(w)
      BY <3>3, <3>7 DEF Inserted
    <3>9. QED
      BY <1>1, <3>6, <3>8 DEF Holds
  <2>3. QED
    BY <2>1, <2>2
<1>4. ASSUME NEW s \in Nodes PROVE W[s] \in Words
  <2>1. PICK w : w = W[s]
    OBVIOUS
  <2>2. w \in Word /\ Len(w) \in Nat
    BY <1>1, <2>1, NodeFacts
  <2>3. Inserted(w)
    BY <1>1, <2>1, <2>2 DEF Holds
  <2>4. CASE w = << >>
    BY <2>1, <2>4, WordIsPrefix
  <2>5. CASE w # << >>
    <3>1. PICK p \in Indices : Len(w) <= InsertedLength(p) /\ Begins(w, Pattern(p))
      BY <2>3, <2>5 DEF Inserted
    <3>2. PICK t : t = Pattern(p)
      OBVIOUS
    <3>3. t \in Word /\ Len(t) \in Nat /\ Len(w) <= Len(t) /\ \A i \in 1 .. Len(w) : w[i] = t[i]
      BY <1>2, <3>1, <3>2 DEF Begins
    <3>4. Len(w) \in 0 .. Len(t)
      BY <2>2, <3>3
    <3>5. /\ SubSeq(t, 1, Len(w)) \in Word /\ Len(SubSeq(t, 1, Len(w))) = Len(w)
          /\ \A i \in 1 .. Len(w) : SubSeq(t, 1, Len(w))[i] = t[i]
      BY <3>3, <3>4, PrefixWord
    <3>6. w = SubSeq(t, 1, Len(w))
      BY <2>2, <3>3, <3>5, EqualWords
    <3>7. \E n \in 0 .. Len(Pattern(p)) : w = SubSeq(Pattern(p), 1, n)
      BY <3>2, <3>4, <3>6, Zenon
    <3>8. QED
      BY <2>1, <3>7, WordIsPrefix
  <2>6. QED
    BY <2>4, <2>5
<1>5. QED
  BY <1>3, <1>4

\* The walk that spells a state's word ends in that state.
LEMMA StateOfIs ==
    ASSUME NEW W, BuildInv(W), NEW s \in Nodes
    PROVE  StateOf(W[s]) = s
<1> DEFINE w == W[s]
           N == Len(w)
           body(g) == [n \in 0 .. N |-> IF n = 0 THEN 0 ELSE NextState(g[n - 1], w[n])]
           h == [n \in 0 .. N |-> CHOOSE x \in Nodes : W[x] = SubSeq(w, 1, n)]
<1>1. Shape /\ Spells(W) /\ Holds(W)
  BY DEF BuildInv
<1>2. w \in Word /\ N \in Nat
  BY <1>1, NodeFacts
<1>3. ASSUME NEW n \in 0 .. N PROVE h[n] \in Nodes /\ W[h[n]] = SubSeq(w, 1, n)
  <2>1. Inserted(w)
    BY <1>1, <1>2 DEF Holds
  <2>2. SubSeq(w, 1, n) \in Word /\ Inserted(SubSeq(w, 1, n))
    <3> HIDE DEF w
    <3>1. QED
      BY <1>1, <1>2, <2>1, PrefixWord, PrefixIsInserted
  <2>3. \E x \in Nodes : W[x] = SubSeq(w, 1, n)
    BY <1>1, <2>2 DEF Holds
  <2>4. QED
    BY <2>3
<1>4. h[N] = s
  <2>1. SubSeq(w, 1, N) = w
    BY <1>2, WholePrefix
  <2>2. N \in 0 .. N
    BY <1>2
  <2>3. h[N] \in Nodes /\ W[h[N]] = W[s]
    BY <1>3, <2>1, <2>2
  <2>4. QED
    BY <1>1, <2>3 DEF Spells
<1>5. h = [n \in 0 .. N |-> h[n]]
  OBVIOUS
<1> HIDE DEF h
<1>6. h[0] = 0
  <2>1. 0 \in 0 .. N
    BY <1>2
  <2>2. Len(SubSeq(w, 1, 0)) = 0
    <3> HIDE DEF w
    <3>1. QED
      BY <1>2, <2>1, PrefixWord
  <2>3. h[0] \in Nodes /\ Len(W[h[0]]) = 0
    BY <1>3, <2>1, <2>2
  <2>4. QED
    BY <1>1, <2>3, NodeFacts
<1>7. ASSUME NEW n \in 1 .. N PROVE h[n] = NextState(h[n - 1], w[n])
  <2>1. PICK m : m = n - 1
    OBVIOUS
  <2>2. m \in Nat /\ m + 1 = n /\ m < N /\ m \in 0 .. N /\ n \in 0 .. N
    BY <1>2, <2>1
  <2>3. PICK x : x = h[m]
    OBVIOUS
  <2>4. x \in Nodes /\ W[x] = SubSeq(w, 1, m)
    BY <1>3, <2>2, <2>3
  <2>5. /\ Len(W[x]) = m /\ \A i \in 1 .. m : W[x][i] = w[i]
        /\ SubSeq(w, 1, n) = Append(W[x], w[n]) /\ w[n] \in Byte /\ W[x] \in Word
    <3> HIDE DEF w
    <3>1. QED
      BY <1>2, <2>2, <2>4, PrefixWord, PrefixAppended
  <2>6. Begins(W[x], W[s]) /\ Len(W[x]) < Len(W[s])
    BY <2>2, <2>5 DEF Begins
  <2>7. PICK b \in Keys(x) : Begins(W[NextState(x, b)], W[s])
    BY <1>1, <2>4, <2>6, ChildOnPath
  <2>8. PICK y : y = NextState(x, b)
    OBVIOUS
  <2>9. y \in Nodes /\ W[y] = Append(W[x], b) /\ b \in Byte /\ Len(W[y]) = m + 1
    <3>1. y \in Nodes \ {0} /\ b \in Byte /\ W[y] = Append(W[x], b) /\ Len(W[y]) = Len(W[x]) + 1
      BY <1>1, <2>4, <2>7, <2>8, ChildFacts, ZenonT(40)
    <3>2. QED
      BY <2>5, <3>1
  <2>10. W[y][n] = b
    BY <2>2, <2>5, <2>9, AppendWord
  <2>11. W[y][n] = w[n]
    BY <2>2, <2>7, <2>8, <2>9 DEF Begins
  <2>12. W[y] = W[h[n]] /\ h[n] \in Nodes
    BY <1>3, <2>2, <2>5, <2>9, <2>10, <2>11
  <2>13. y = h[n]
    BY <1>1, <2>9, <2>12 DEF Spells
  <2>14. b = w[n] /\ x = h[n - 1]
    BY <2>1, <2>3, <2>10, <2>11
  <2>15. QED
    BY <2>8, <2>13, <2>14
<1>8. h = body(h)
  <2>1. \A n \in 0 .. N : h[n] = IF n = 0 THEN 0 ELSE NextState(h[n - 1], w[n])
    BY <1>2, <1>6, <1>7
  <2>2. QED
    BY <1>5, <2>1
<1> DEFINE G == CHOOSE g : g = body(g)
<1>9. G = body(G)
  BY <1>8, Zenon
<1>10. StateOf(w) = G[N]
  BY DEF StateOf
<1> HIDE DEF G
<1>11. \A n \in 0 .. N : G[n] = IF n = 0 THEN 0 ELSE NextState(G[n - 1], w[n])
  BY <1>9
<1> HIDE DEF w, N, body
<1> DEFINE T == { n \in Nat : n <= N => G[n] = h[n] }
<1>12. 0 \in T
  BY <1>2, <1>6, <1>11
<1>13. ASSUME NEW n \in T PROVE n + 1 \in T
  <2>1. SUFFICES ASSUME n + 1 <= N PROVE G[n + 1] = h[n + 1]
    OBVIOUS
  <2>2. n + 1 \in 0 .. N /\ n + 1 \in 1 .. N /\ n <= N /\ n + 1 # 0 /\ (n + 1) - 1 = n
    BY <1>2, <2>1
  <2>3. G[n] = h[n]
    BY <2>2
  <2>4. G[n + 1] = NextState(G[n], w[n + 1]) /\ h[n + 1] = NextState(h[n], w[n + 1])
    BY <1>7, <1>11, <2>2
  <2>5. QED
    BY <2>3, <2>4
<1>14. N \in T
  <2>1. T \subseteq Nat
    OBVIOUS
  <2> HIDE DEF T
  <2>2. QED
    BY <1>2, <1>12, <1>13, <2>1, NatSetInduction
<1>15. G[N] = h[N] /\ G[N] = s
  BY <1>2, <1>4, <1>14
<1>16. QED
  BY <1>10, <1>15 DEF w

\* The longest word that a text ends with is that of the longest state.
LEMMA LongestEndingIs ==
    ASSUME NEW W, BuildInv(W), pc # "insert", NEW t \in Word, NEW m, NEW f, LongestEnd(W, f, t, m)
    PROVE  LongestEnding(t, m) = W[f]
<1>1. Shape /\ Spells(W) /\ Words = { W[s] : s \in Nodes } /\ \A s \in Nodes : W[s] \in Word /\ Len(W[s]) \in Nat
  BY WordsAre, NodeFacts DEF BuildInv
<1> DEFINE ends == { w \in Words : Len(w) < m /\ IsSuffix(w, t) }
<1>2. \A s \in Nodes : IsSuffix(W[s], t) <=> Ends(W[s], t)
  BY <1>1, SuffixIsEnd
<1>3. f \in Nodes /\ W[f] \in ends
  BY <1>1, <1>2 DEF LongestEnd
<1>4. ASSUME NEW v \in ends PROVE Len(v) <= Len(W[f])
  <2>1. PICK s \in Nodes : v = W[s]
    BY <1>1
  <2>2. QED
    BY <1>2, <2>1 DEF LongestEnd
<1>5. ASSUME NEW v \in ends, \A u \in ends : Len(u) <= Len(v) PROVE v = W[f]
  <2>1. PICK s \in Nodes : v = W[s]
    BY <1>1
  <2>2. Ends(v, t) /\ Ends(W[f], t)
    BY <1>2, <2>1 DEF LongestEnd
  <2>3. Len(v) <= Len(W[f]) /\ Len(W[f]) <= Len(v) /\ Len(v) \in Nat /\ Len(W[f]) \in Nat
    BY <1>1, <1>3, <1>4, <1>5, <2>1
  <2>4. QED
    BY <1>1, <1>3, <2>1, <2>2, <2>3, SameLengthEnds
<1>6. LongestEnding(t, m) = CHOOSE w \in ends : \A v \in ends : Len(v) <= Len(w)
  BY DEF LongestEnding
<1> HIDE DEF ends
<1>7. QED
  BY <1>3, <1>4, <1>5, <1>6

LEMMA InvariantLinks == ASSUME StreamInv PROVE AutomatonIsCorrect
<1>1. SUFFICES ASSUME Built, NEW w \in Words \ {<< >>}
               PROVE  /\ Failure(StateOf(w)) = StateOf(LongestEnding(w, Len(w)))
                      /\ Range(states[StateOf(w)].outputs) =
                           { p \in 0 .. pattern_count - 1 :
                               pattern_length(p) > 0 /\ IsSuffix(Pattern(p), w) }
                      /\ IsInjective(states[StateOf(w)].outputs)
  BY DEF AutomatonIsCorrect
<1>2. PICK W : BuildInv(W)
  BY DEF StreamInv
<1>3. pc # "insert" /\ Shape /\ Spells(W)
  BY <1>1, <1>2 DEF Built, BuildInv
<1>4. PICK s \in Nodes : w = W[s]
  BY <1>1, <1>2, <1>3, WordsAre
<1>5. s # 0 /\ w \in Word
  BY <1>1, <1>3, <1>4, NodeFacts DEF Spells
<1>6. Linked(W, s) /\ IsInjective(states[s].outputs)
  BY <1>1, <1>2, <1>5, AllLinked DEF BuildInv, Links
<1>7. StateOf(w) = s
  BY <1>2, <1>4, StateOfIs
<1>8. PICK f : f = Failure(s)
  OBVIOUS
<1>9. f \in Nodes /\ LongestEnd(W, f, w, Len(w))
  BY <1>4, <1>6, <1>8 DEF Linked, LongestEnd
<1>10. LongestEnding(w, Len(w)) = W[f]
  BY <1>2, <1>3, <1>5, <1>9, LongestEndingIs
<1>11. Failure(StateOf(w)) = StateOf(LongestEnding(w, Len(w)))
  BY <1>2, <1>7, <1>8, <1>9, <1>10, StateOfIs
<1>12. Range(states[s].outputs) =
         { p \in 0 .. pattern_count - 1 : pattern_length(p) > 0 /\ IsSuffix(Pattern(p), w) }
  <2>1. \A p \in Indices : IsSuffix(Pattern(p), w) <=> Ends(Pattern(p), w)
    BY <1>3, <1>5, PatternFacts, SuffixIsEnd
  <2>2. QED
    BY <1>4, <1>6, <2>1 DEF Linked, EndingIn, Indices
<1>13. QED
  BY <1>6, <1>7, <1>11, <1>12

\* Once built, the failure link of every state leads to the longest proper
\* suffix that is a prefix of some pattern, and its outputs are the patterns that
\* end there, each once, also those that end inside a longer one.
THEOREM AutomatonCorrect == Spec => []AutomatonIsCorrect
<1>1. StreamInv => AutomatonIsCorrect
  BY InvariantLinks
<1>2. QED
  BY <1>1, StreamInvariant, PTL

LEMMA InvariantReads == ASSUME StreamInv PROVE StateIsLongestSuffix
<1>1. TypeOK
  BY InvariantIsTyped
<1>2. ASSUME Built PROVE current = StateOf(LongestEnding(fed, Len(fed) + 1))
  <2>1. PICK W : BuildInv(W) /\ Reads(W)
    BY DEF StreamInv
  <2>2. fed \in Word /\ LongestEnd(W, current, fed, Len(fed) + 1) /\ pc # "insert"
    BY <1>2, <2>1 DEF Reads, Built
  <2>3. LongestEnding(fed, Len(fed) + 1) = W[current] /\ current \in Nodes
    BY <2>1, <2>2, LongestEndingIs DEF LongestEnd
  <2>4. QED
    BY <2>1, <2>3, StateOfIs
<1>3. QED
  BY <1>1, <1>2 DEF StateIsLongestSuffix

\* Whichever calls fed them, the stream's state spells the longest prefix of a
\* pattern that the bytes fed so far end with.
THEOREM StreamStateCorrect == Spec => []StateIsLongestSuffix
<1>1. StreamInv => StateIsLongestSuffix
  BY InvariantReads
<1>2. QED
  BY <1>1, StreamInvariant, PTL

-----------------------------------------------------------------------------
(* The batch scan *)

\* state and found, the recursions of find_all.
IsState(g, t) ==
    g = [n \in 0 .. Len(t) |-> IF n = 0 THEN 0 ELSE Goto(g[n - 1], t[n])]

IsFound(h, g, t) ==
    h = [n \in 0 .. Len(t) |-> IF n = 0 THEN EmptyMatches ELSE h[n - 1] \o MatchesAt(g[n], n)]

LEMMA StateExists ==
    ASSUME NEW W, BuildInv(W), NEW t \in Word
    PROVE  \E g : IsState(g, t)
<1> DEFINE N == Len(t)
           S == Nodes
           Step == [p \in (0 .. N) \X S |-> IF p[1] = 0 THEN 0 ELSE Goto(p[2], t[p[1]])]
<1>0. N \in Nat /\ 0 \in S /\ Shape /\ Spells(W) /\ Falls(W)
  BY WordProperties, NodeFacts, LinksFall DEF BuildInv
<1>1. ASSUME NEW s \in S, NEW b PROVE Goto(s, b) \in S
  <2>1. Chase(s, b) \in Nodes
    BY <1>0, ChaseEquation
  <2>2. QED
    BY <1>0, <2>1 DEF Goto, Shape
<1>2. Step \in [(0 .. N) \X S -> S]
  BY <1>0, <1>1
<1>3. \A n \in 0 .. N, s \in S : n # 0 => Step[<<n, s>>] = Goto(s, t[n])
  OBVIOUS
<1> HIDE DEF S, Step, N
<1>4. Countings(0, N, S, 0, Step) # {}
  <2>1. 0 \in Int /\ N \in Int
    BY <1>0
  <2>2. QED
    BY <1>0, <1>2, <2>1, CountingHasValue
<1>5. PICK g \in [0 .. N -> S] :
        \A n \in 0 .. N : g[n] = IF n = 0 THEN 0 ELSE Step[<<n, g[n - 1]>>]
  BY <1>4 DEF Countings
<1>6. ASSUME NEW n \in 0 .. N PROVE g[n] = IF n = 0 THEN 0 ELSE Goto(g[n - 1], t[n])
  <2>1. CASE n = 0
    BY <1>5, <2>1
  <2>2. CASE n # 0
    <3>1. n - 1 \in 0 .. N
      BY <1>0, <2>2
    <3>2. g[n - 1] \in S
      BY <1>5, <3>1
    <3>3. QED
      BY <1>3, <1>5, <2>2, <3>2
  <2>3. QED
    BY <2>1, <2>2
<1>7. g = [n \in 0 .. N |-> g[n]]
  BY <1>5
<1>8. IsState(g, t)
  BY <1>6, <1>7 DEF IsState, N
<1>9. QED
  BY <1>8

\* The scan's state is the longest that the bytes read end with.
LEMMA StateIs ==
    ASSUME NEW W, BuildInv(W), Built, NEW t \in Word, NEW g, IsState(g, t), NEW n \in 0 .. Len(t)
    PROVE  LongestEnd(W, g[n], SubSeq(t, 1, n), n + 1)
<1> DEFINE T == { k \in Nat : k <= Len(t) => LongestEnd(W, g[k], SubSeq(t, 1, k), k + 1) }
<1>0. Len(t) \in Nat /\ Shape /\ Spells(W)
  BY WordProperties DEF BuildInv
<1>1. 0 \in T
  <2>1. 0 \in 0 .. Len(t)
    BY <1>0
  <2>2. PICK v : v = SubSeq(t, 1, 0)
    OBVIOUS
  <2>3. v \in Word /\ Len(v) = 0
    BY <2>1, <2>2, PrefixWord
  <2>4. /\ 0 \in Nodes /\ W[0] = << >> /\ \A s \in Nodes : Len(W[s]) \in Nat
    BY <1>0, NodeFacts DEF Spells
  <2>5. Ends(W[0], v) /\ Len(W[0]) = 0
    BY <2>3, <2>4, EmptyEnds
  <2>6. LongestEnd(W, 0, v, 0 + 1)
    BY <2>4, <2>5 DEF LongestEnd
  <2>7. g[0] = 0
    BY <2>1 DEF IsState
  <2>8. QED
    BY <2>2, <2>6, <2>7
<1>2. ASSUME NEW k \in T PROVE k + 1 \in T
  <2>1. SUFFICES ASSUME k + 1 <= Len(t)
                 PROVE  LongestEnd(W, g[k + 1], SubSeq(t, 1, k + 1), (k + 1) + 1)
    OBVIOUS
  <2>2. k \in Nat /\ k < Len(t) /\ k \in 0 .. Len(t) /\ k + 1 \in 0 .. Len(t) /\ k + 1 # 0 /\ (k + 1) - 1 = k
    BY <1>0, <2>1
  <2>3. LongestEnd(W, g[k], SubSeq(t, 1, k), k + 1)
    BY <1>0, <2>2
  <2>4. PICK v, b, s : v = SubSeq(t, 1, k) /\ b = t[k + 1] /\ s = g[k]
    OBVIOUS
  <2>5. v \in Word /\ Len(v) = k /\ b \in Byte /\ SubSeq(t, 1, k + 1) = Append(v, b)
    BY <2>2, <2>4, PrefixWord, PrefixAppended
  <2>6. LongestEnd(W, s, v, Len(v) + 1)
    BY <2>3, <2>4, <2>5
  <2>7. LongestEnd(W, Goto(s, b), Append(v, b), Len(Append(v, b)) + 1)
    BY <2>5, <2>6, GotoIs
  <2>8. g[k + 1] = Goto(s, b)
    BY <2>2, <2>4 DEF IsState
  <2>9. Len(Append(v, b)) = k + 1
    BY <2>5, AppendWord
  <2>10. QED
    BY <2>5, <2>7, <2>8, <2>9
<1>3. T \subseteq Nat
  OBVIOUS
<1>4. T = Nat
  <2> HIDE DEF T
  <2>1. QED
    BY <1>1, <1>2, <1>3, NatSetInduction
<1>5. QED
  BY <1>0, <1>4

LEMMA ScanMatches ==
    ASSUME NEW W, BuildInv(W), Built, NEW t \in Word, NEW g, IsState(g, t), NEW n \in 0 .. Len(t)
    PROVE  /\ MatchesAt(g[n], n) \in Seq(Pairs) /\ IsInjective(MatchesAt(g[n], n))
           /\ Range(MatchesAt(g[n], n)) = Occurrence!EndingAt(patterns, SubSeq(t, 1, n))
<1>1. PICK v, s : v = SubSeq(t, 1, n) /\ s = g[n]
  OBVIOUS
<1>2. v \in Word /\ Len(v) = n
  BY <1>1, PrefixWord
<1>3. LongestEnd(W, s, v, Len(v) + 1)
  BY <1>1, <1>2, StateIs
<1>4. QED
  BY <1>1, <1>2, <1>3, MatchesAre

LEMMA FoundExists ==
    ASSUME NEW W, BuildInv(W), Built, NEW t \in Word, NEW g, IsState(g, t)
    PROVE  \E h : IsFound(h, g, t)
<1> DEFINE N == Len(t)
           S == Seq(Pairs)
           Step == [p \in (0 .. N) \X S |-> p[2] \o MatchesAt(g[p[1]], p[1])]
<1>0. N \in Nat /\ EmptyMatches \in S
  BY WordProperties, EmptyMatchesAre DEF BuildInv
<1>1. \A n \in 0 .. N : MatchesAt(g[n], n) \in S
  BY ScanMatches
<1>2. Step \in [(0 .. N) \X S -> S]
  <2>1. \A u, v \in S : u \o v \in S
    BY ConcatProperties
  <2> HIDE DEF S
  <2>2. QED
    BY <1>1, <2>1
<1>3. \A n \in 0 .. N, s \in S : Step[<<n, s>>] = s \o MatchesAt(g[n], n)
  OBVIOUS
<1> HIDE DEF S, Step, N
<1>4. Countings(0, N, S, EmptyMatches, Step) # {}
  <2>1. 0 \in Int /\ N \in Int
    BY <1>0
  <2>2. QED
    BY <1>0, <1>2, <2>1, CountingHasValue
<1>5. PICK h \in [0 .. N -> S] :
        \A n \in 0 .. N : h[n] = IF n = 0 THEN EmptyMatches ELSE Step[<<n, h[n - 1]>>]
  BY <1>4 DEF Countings
<1>6. ASSUME NEW n \in 0 .. N
      PROVE  h[n] = IF n = 0 THEN EmptyMatches ELSE h[n - 1] \o MatchesAt(g[n], n)
  <2>1. CASE n = 0
    BY <1>5, <2>1
  <2>2. CASE n # 0
    <3>1. n - 1 \in 0 .. N
      BY <1>0, <2>2
    <3>2. h[n - 1] \in S
      BY <1>5, <3>1
    <3>3. QED
      BY <1>3, <1>5, <2>2, <3>2
  <2>3. QED
    BY <2>1, <2>2
<1>7. h = [n \in 0 .. N |-> h[n]]
  BY <1>5
<1>8. IsFound(h, g, t)
  BY <1>6, <1>7 DEF IsFound, N
<1>9. QED
  BY <1>8

\* What the scan has found after n bytes.
FoundAll(s, t) ==
    /\ s \in Seq(Pairs) /\ IsInjective(s)
    /\ Range(s) = Occurrences(t) \cup Range(EmptyMatches)

LEMMA FoundIs ==
    ASSUME NEW W, BuildInv(W), Built, NEW t \in Word, NEW g, IsState(g, t), NEW h, IsFound(h, g, t),
           NEW n \in 0 .. Len(t)
    PROVE  FoundAll(h[n], SubSeq(t, 1, n))
<1> DEFINE T == { k \in Nat : k <= Len(t) => FoundAll(h[k], SubSeq(t, 1, k)) }
<1>0. Len(t) \in Nat /\ Shape
  BY WordProperties DEF BuildInv
<1>1. 0 \in T
  <2>1. 0 \in 0 .. Len(t)
    BY <1>0
  <2>2. SubSeq(t, 1, 0) \in Word /\ Len(SubSeq(t, 1, 0)) = 0
    BY <2>1, PrefixWord
  <2>3. SubSeq(t, 1, 0) = << >>
    BY <2>2, WordProperties
  <2>4. h[0] = EmptyMatches
    BY <2>1 DEF IsFound
  <2>5. FoundAll(EmptyMatches, << >>)
    BY <1>0, EmptyMatchesAre, OccurrencesOfEmpty DEF FoundAll
  <2>6. QED
    BY <2>3, <2>4, <2>5
<1>2. ASSUME NEW k \in T PROVE k + 1 \in T
  <2>1. SUFFICES ASSUME k + 1 <= Len(t) PROVE FoundAll(h[k + 1], SubSeq(t, 1, k + 1))
    OBVIOUS
  <2>2. k \in Nat /\ k < Len(t) /\ k \in 0 .. Len(t) /\ k + 1 \in 0 .. Len(t) /\ k + 1 # 0 /\ (k + 1) - 1 = k
    BY <1>0, <2>1
  <2>3. FoundAll(h[k], SubSeq(t, 1, k))
    BY <1>0, <2>2
  <2>4. PICK v, b, s, M : v = SubSeq(t, 1, k) /\ b = t[k + 1] /\ s = h[k] /\ M = MatchesAt(g[k + 1], k + 1)
    OBVIOUS
  <2>5. v \in Word /\ b \in Byte /\ SubSeq(t, 1, k + 1) = Append(v, b)
    BY <2>2, <2>4, PrefixWord, PrefixAppended
  <2>6. M \in Seq(Pairs) /\ IsInjective(M) /\ Range(M) = Occurrence!EndingAt(patterns, Append(v, b))
    BY <2>2, <2>4, <2>5, ScanMatches
  <2>7. h[k + 1] = s \o M
    BY <2>2, <2>4 DEF IsFound
  <2>8. s \in Seq(Pairs) /\ IsInjective(s) /\ Range(s) = Occurrences(v) \cup Range(EmptyMatches)
    BY <2>3, <2>4 DEF FoundAll
  <2>9. Apart(s, M)
    <3>1. Occurrence!EndingAt(patterns, Append(v, b)) \cap (Occurrences(v) \cup Range(EmptyMatches)) = {}
      BY <1>0, <2>5, MatchesAreNew
    <3>2. QED
      BY <2>6, <2>8, <3>1 DEF Apart
  <2>10. s \o M \in Seq(Pairs) /\ IsInjective(s \o M) /\ Range(s \o M) = Range(s) \cup Range(M)
    BY <2>6, <2>8, <2>9, ConcatInjects, ConcatProperties
  <2>11. Occurrences(Append(v, b)) = Occurrences(v) \cup Range(M)
    BY <2>5, <2>6, OccurrencesGrow
  <2>12. FoundAll(s \o M, Append(v, b))
    BY <2>8, <2>10, <2>11 DEF FoundAll
  <2>13. QED
    BY <2>5, <2>7, <2>12
<1>3. T \subseteq Nat
  OBVIOUS
<1>4. T = Nat
  <2> HIDE DEF T
  <2>1. QED
    BY <1>1, <1>2, <1>3, NatSetInduction
<1>5. QED
  BY <1>0, <1>4

\* find_all sorts all the matches of its haystack.
LEMMA FindAllIs ==
    ASSUME NEW W, BuildInv(W), Built, NEW t \in Word
    PROVE  \E s : FoundAll(s, t) /\ FindAll(t) = SortMatches(s)
<1> DEFINE G == CHOOSE g : IsState(g, t)
           H == CHOOSE h : IsFound(h, G, t)
<1>1. IsState(G, t)
  BY StateExists
<1>2. IsFound(H, G, t)
  <2> HIDE DEF G
  <2>1. QED
    BY <1>1, FoundExists
<1>3. FindAll(t) = SortMatches(H[Len(t)])
  BY DEF FindAll, IsState, IsFound
<1> HIDE DEF G, H
<1>4. Len(t) \in 0 .. Len(t) /\ SubSeq(t, 1, Len(t)) = t
  BY WordProperties, WholePrefix
<1>5. FoundAll(H[Len(t)], t)
  BY <1>1, <1>2, <1>4, FoundIs
<1>6. QED
  BY <1>3, <1>5

LEMMA InvariantFinds == ASSUME StreamInv PROVE BatchIsSortedOccurrences
<1>1. SUFFICES ASSUME Built
               PROVE  /\ Range(FindAll(fed)) = Occurrences(fed) \cup Range(EmptyMatches)
                      /\ IsInjective(FindAll(fed)) /\ FindAll(fed) = SortMatches(FindAll(fed))
  BY DEF BatchIsSortedOccurrences
<1>2. PICK W : BuildInv(W) /\ Reads(W)
  BY DEF StreamInv
<1>3. PICK s : FoundAll(s, fed) /\ FindAll(fed) = SortMatches(s)
  BY <1>1, <1>2, FindAllIs DEF Reads
<1>4. QED
  BY <1>3, SortMatchesIs, SortingTwice DEF FoundAll

\* find_all finds each occurrence once, and each empty pattern once, sorted by
\* position and then by pattern index.
THEOREM BatchCorrect == Spec => []BatchIsSortedOccurrences
<1>1. StreamInv => BatchIsSortedOccurrences
  BY InvariantFinds
<1>2. QED
  BY <1>1, StreamInvariant, PTL

LEMMA FirstSliceSorts ==
    ASSUME StreamInv, EndSlice, reported = << >>
    PROVE  reported' = FindAll(fed)
<1>1. pc = "slice" /\ Built /\ ~initial /\ pending = << >> /\ reported' = << >> \o SortMatches(out)
  BY DEF EndSlice, Built, StreamInv, Reports
<1>2. PICK W : BuildInv(W) /\ Reads(W)
  BY DEF StreamInv
<1>3. PICK s : FoundAll(s, fed) /\ FindAll(fed) = SortMatches(s)
  BY <1>1, <1>2, FindAllIs DEF Reads
<1>4. out \in Seq(Pairs) /\ IsInjective(out)
  BY DEF StreamInv, Reports
<1>5. Range(out) = Occurrences(fed) \cup Range(EmptyMatches)
  <2>1. Range(<< >>) = {}
    BY DEF Range
  <2>2. Range(reported) \cup Range(out) \cup Range(pending) = Occurrences(fed) \cup Empties
    BY DEF StreamInv, Reports
  <2>3. Empties = Range(EmptyMatches)
    BY <1>1 DEF Empties
  <2>4. QED
    BY <1>1, <2>1, <2>2, <2>3
<1>6. SortMatches(out) = SortMatches(s)
  BY <1>3, <1>4, <1>5, SortedIsUnique DEF FoundAll
<1>7. SortMatches(out) \in Seq(Pairs)
  BY <1>4, SortMatchesIs
<1>8. << >> \o SortMatches(out) = SortMatches(out)
  BY <1>7, ConcatEmptySeq
<1>9. QED
  BY <1>1, <1>3, <1>6, <1>8

\* The feed_slice that returns a stream's first matches returns what find_all
\* returns for the bytes so far, match by match and in the same order.
THEOREM SliceCorrect == Spec => FirstSliceIsBatch
<1>1. StreamInv /\ [Next]_vars => [EndSlice /\ reported = << >> => reported' = FindAll(fed)]_vars
  BY FirstSliceSorts
<1>2. QED
  BY <1>1, StreamInvariant, PTL DEF Spec, FirstSliceIsBatch

=============================================================================
