---------------------------- MODULE Foundations ----------------------------
(***************************************************************************)
(* What the proofs about the components share: induction and recursion     *)
(* over data, division with remainders, powers of two, parts of sequences. *)
(*                                                                         *)
(* Induction is the least element of a set of counterexamples.  A          *)
(* recursive function is some function that satisfies its equation; that   *)
(* there is one has to be shown, and is, for recursions in which a natural *)
(* measure of the argument falls from one call to the next.                *)
(***************************************************************************)
EXTENDS Integers, PowersOfTwo, SequenceTheorems, WellFoundedInduction, TLAPS

-----------------------------------------------------------------------------
(* Induction *)

\* A set of natural numbers has a least one.
LEMMA LeastNatural ==
    ASSUME NEW T, T \subseteq Nat, T # {}
    PROVE  \E x \in T : \A y \in T : x <= y
<1> DEFINE R == OpToRel(<, Nat)
<1>1. IsWellFoundedOn(R, Nat)
  BY NatLessThanWellFounded
<1>2. \A y, x \in Nat : y < x => <<y, x>> \in R
  BY DEF OpToRel
<1> HIDE DEF R
<1>3. PICK x \in T : \A y \in T : ~(<<y, x>> \in R)
  BY <1>1, WFMin
<1>4. \A y \in T : ~(y < x)
  BY <1>2, <1>3
<1> QED
  BY <1>3, <1>4

\* Induction on a set of numbers that is closed upwards.
LEMMA NatSetInduction ==
    ASSUME NEW T, T \subseteq Nat, 0 \in T, \A x \in T : x + 1 \in T
    PROVE  T = Nat
<1> DEFINE C == Nat \ T
<1>1. SUFFICES ASSUME C # {} PROVE FALSE
  OBVIOUS
<1>2. PICK x \in C : \A y \in C : x <= y
  BY <1>1, LeastNatural
<1>3. x \in Nat /\ x # 0 /\ x - 1 \in Nat /\ ~(x <= x - 1)
  BY <1>2
<1>4. x - 1 \in T
  BY <1>2, <1>3
<1>5. (x - 1) + 1 = x
  BY <1>3
<1>6. QED
  BY <1>2, <1>4, <1>5

-----------------------------------------------------------------------------
(* Recursion *)

\* The functions that a recursion defines: Value where it stops, and otherwise
\* Step of the argument and the value at the next argument.
Solutions(X, S, Stop, Value, Succ, Step) ==
    { f \in [X -> S] :
        \A x \in X : f[x] = IF x \in Stop THEN Value[x] ELSE Step[<<x, f[Succ[x]]>>] }

\* The same where Step passes the value on.
Chains(X, S, Stop, Value, Succ) ==
    { f \in [X -> S] : \A x \in X : f[x] = IF x \in Stop THEN Value[x] ELSE f[Succ[x]] }

\* Those of a recursion that counts up from a to b.
Countings(a, b, S, base, Step) ==
    { f \in [a .. b -> S] :
        \A x \in a .. b : f[x] = IF x = a THEN base ELSE Step[<<x, f[x - 1]>>] }

\* A measure falls from each argument to the next.
Descends(X, Stop, Succ, Measure) ==
    \A x \in X \ Stop : Measure[Succ[x]] < Measure[x]

\* A recursion in which a measure falls from a call to the one it makes has a
\* value for each argument.
LEMMA RecursionHasValue ==
    ASSUME NEW X, NEW S, NEW Stop, NEW Value \in [X -> S], NEW Succ \in [X -> X],
           NEW Step \in [X \X S -> S], NEW Measure \in [X -> Nat],
           Descends(X, Stop, Succ, Measure)
    PROVE  Solutions(X, S, Stop, Value, Succ, Step) # {}
<1> USE DEF Descends
<1> DEFINE Below(n) == { x \in X : Measure[x] < n }
           Solves(g, n) ==
             /\ g \in [Below(n) -> S]
             /\ \A x \in Below(n) : g[x] = IF x \in Stop THEN Value[x] ELSE Step[<<x, g[Succ[x]]>>]
           T == { n \in Nat : \E g : Solves(g, n) }
<1>1. 0 \in T
  <2>1. Below(0) = {}
    OBVIOUS
  <2>2. Solves([x \in Below(0) |-> 0], 0)
    BY <2>1
  <2>3. QED
    BY <2>2
<1>2. ASSUME NEW n \in T PROVE n + 1 \in T
  <2>1. PICK g : Solves(g, n)
    BY <1>2
  <2> DEFINE h == [x \in Below(n + 1) |-> IF x \in Stop THEN Value[x] ELSE Step[<<x, g[Succ[x]]>>]]
  <2>2. \A x \in Below(n) : x \in Below(n + 1) /\ h[x] = g[x]
    BY <2>1
  <2>3. \A x \in Below(n + 1) \ Stop : Succ[x] \in Below(n)
    OBVIOUS
  <2>4. ASSUME NEW x \in Below(n + 1)
        PROVE  /\ h[x] \in S
               /\ h[x] = IF x \in Stop THEN Value[x] ELSE Step[<<x, h[Succ[x]]>>]
    <3>1. x \notin Stop => Succ[x] \in Below(n) /\ g[Succ[x]] \in S /\ h[Succ[x]] = g[Succ[x]]
      BY <2>1, <2>2, <2>3
    <3>2. h[x] = IF x \in Stop THEN Value[x] ELSE Step[<<x, g[Succ[x]]>>]
      OBVIOUS
    <3>3. x \in X /\ Value[x] \in S
      OBVIOUS
    <3> HIDE DEF h, Below
    <3>4. QED
      BY <3>1, <3>2, <3>3
  <2>5. h = [x \in Below(n + 1) |-> h[x]]
    OBVIOUS
  <2>6. n + 1 \in Nat
    BY <1>2
  <2> HIDE DEF h, Below
  <2>7. h \in [Below(n + 1) -> S]
    BY <2>4, <2>5
  <2>8. Solves(h, n + 1)
    BY <2>4, <2>7
  <2> HIDE DEF Solves
  <2>9. QED
    BY <2>8, <2>6
<1>3. T = Nat
  BY <1>1, <1>2, NatSetInduction
<1>4. ASSUME NEW a \in Nat, NEW b \in Nat, NEW g, Solves(g, a), NEW h, Solves(h, b),
             NEW z \in Below(a) \cap Below(b)
      PROVE  g[z] = h[z]
  <2> DEFINE Differ == { x \in Below(a) \cap Below(b) : g[x] # h[x] }
             Measures == { Measure[x] : x \in Differ }
  <2>1. SUFFICES ASSUME Differ # {} PROVE FALSE
    OBVIOUS
  <2>2. Measures \subseteq Nat /\ Measures # {}
    BY <2>1
  <2>3. PICK least \in Measures : \A y \in Measures : least <= y
    BY <2>2, LeastNatural
  <2>4. PICK x \in Differ : Measure[x] = least
    OBVIOUS
  <2>5. x \in Below(a) /\ x \in Below(b) /\ g[x] # h[x]
    OBVIOUS
  <2>6. CASE x \in Stop
    BY <1>4, <2>5, <2>6
  <2>7. CASE x \notin Stop
    <3>1. Measure[Succ[x]] < Measure[x] /\ Measure[x] \in Nat /\ Measure[Succ[x]] \in Nat /\ Succ[x] \in X
      BY <2>7
    <3>2. Succ[x] \in Below(a) /\ Succ[x] \in Below(b)
      BY <2>5, <3>1
    <3>3. g[x] = Step[<<x, g[Succ[x]]>>] /\ h[x] = Step[<<x, h[Succ[x]]>>]
      BY <1>4, <2>5, <2>7
    <3>4. Succ[x] \in Differ
      BY <2>5, <3>2, <3>3
    <3>5. least <= Measure[Succ[x]]
      BY <3>4, <2>3
    <3>6. QED
      BY <3>5, <3>1, <2>4
  <2>8. QED
    BY <2>6, <2>7
<1>5. \A n \in Nat : \E g : Solves(g, n)
  BY <1>3
<1> DEFINE G(n) == CHOOSE g : Solves(g, n)
           f == [x \in X |-> G(Measure[x] + 1)[x]]
<1>6. \A n \in Nat : Solves(G(n), n)
  BY <1>5, Zenon
<1>7. ASSUME NEW x \in X
      PROVE  /\ f[x] \in S
             /\ f[x] = IF x \in Stop THEN Value[x] ELSE Step[<<x, f[Succ[x]]>>]
  <2> DEFINE n == Measure[x] + 1
             p == Measure[Succ[x]] + 1
  <2>1. n \in Nat /\ p \in Nat /\ Succ[x] \in X /\ x \in Below(n) /\ Succ[x] \in Below(p)
    OBVIOUS
  <2>2. Solves(G(n), n) /\ Solves(G(p), p)
    BY <2>1, <1>6
  <2>3. G(n)[x] \in S /\ G(n)[x] = IF x \in Stop THEN Value[x] ELSE Step[<<x, G(n)[Succ[x]]>>]
    BY <2>1, <2>2
  <2>4. x \notin Stop => Succ[x] \in Below(n)
    OBVIOUS
  <2> HIDE DEF G, Solves, Below, n, p
  <2>5. x \notin Stop => G(n)[Succ[x]] = G(p)[Succ[x]]
    BY <2>1, <2>2, <2>4, <1>4
  <2>6. f[x] = G(n)[x] /\ f[Succ[x]] = G(p)[Succ[x]]
    BY <2>1 DEF n, p
  <2>7. QED
    BY <2>3, <2>5, <2>6
<1>8. f = [x \in X |-> f[x]]
  OBVIOUS
<1> HIDE DEF f
<1>9. f \in [X -> S]
  BY <1>7, <1>8
<1>10. f \in Solutions(X, S, Stop, Value, Succ, Step)
  BY <1>7, <1>9 DEF Solutions
<1>11. QED
  BY <1>10

\* In particular one whose calls pass the value on.
LEMMA ChainHasValue ==
    ASSUME NEW X, NEW S, NEW Stop, NEW Value \in [X -> S], NEW Succ \in [X -> X],
           NEW Measure \in [X -> Nat],
           Descends(X, Stop, Succ, Measure)
    PROVE  Chains(X, S, Stop, Value, Succ) # {}
<1> DEFINE Step == [p \in X \X S |-> p[2]]
<1>1. Step \in [X \X S -> S]
  OBVIOUS
<1>2. \A x \in X, s \in S : Step[<<x, s>>] = s
  OBVIOUS
<1> HIDE DEF Step
<1>3. Solutions(X, S, Stop, Value, Succ, Step) # {}
  BY <1>1, RecursionHasValue
<1>4. PICK f \in [X -> S] :
        \A x \in X : f[x] = IF x \in Stop THEN Value[x] ELSE Step[<<x, f[Succ[x]]>>]
  BY <1>3 DEF Solutions
<1>5. \A x \in X : Step[<<x, f[Succ[x]]>>] = f[Succ[x]]
  BY <1>2
<1>6. f \in Chains(X, S, Stop, Value, Succ)
  BY <1>4, <1>5 DEF Chains
<1>7. QED
  BY <1>6

\* And one that counts up from its first argument.
LEMMA CountingHasValue ==
    ASSUME NEW a \in Int, NEW b \in Int, NEW S, NEW base \in S,
           NEW Step \in [(a .. b) \X S -> S]
    PROVE  Countings(a, b, S, base, Step) # {}
<1> DEFINE X == a .. b
           Value == [x \in X |-> base]
           Succ == [x \in X |-> IF x = a THEN a ELSE x - 1]
           Measure == [x \in X |-> x - a]
<1>1. Value \in [X -> S] /\ Succ \in [X -> X] /\ Measure \in [X -> Nat]
  OBVIOUS
<1>2. Descends(X, {a}, Succ, Measure)
  BY DEF Descends
<1>3. \A x \in X : Value[x] = base /\ (x # a => Succ[x] = x - 1) /\ (x \in {a} <=> x = a)
  OBVIOUS
<1> HIDE DEF X, Value, Succ, Measure
<1>4. Step \in [X \X S -> S]
  BY DEF X
<1>5. Solutions(X, S, {a}, Value, Succ, Step) # {}
  BY <1>1, <1>2, <1>4, RecursionHasValue
<1>6. PICK f \in [X -> S] :
        \A x \in X : f[x] = IF x \in {a} THEN Value[x] ELSE Step[<<x, f[Succ[x]]>>]
  BY <1>5 DEF Solutions
<1>7. f \in Countings(a, b, S, base, Step)
  BY <1>3, <1>6 DEF X, Countings
<1>8. QED
  BY <1>7

-----------------------------------------------------------------------------
(* Division *)

\* Division with a remainder, by any positive number.
LEMMA Division ==
    ASSUME NEW d \in Int, d > 0, NEW a \in Int
    PROVE  /\ a \div d \in Int /\ a % d \in 0 .. d - 1
           /\ a = d * (a \div d) + (a % d)
<1>1. a \div d \in Int
  OBVIOUS
<1>2. a % d \in Int /\ 0 <= a % d /\ a % d < d
  OBVIOUS
<1>3. a = d * (a \div d) + (a % d)
  OBVIOUS
<1>4. QED
  BY <1>1, <1>2, <1>3

\* ... and there is only one way to divide.
LEMMA DivisionUnique ==
    ASSUME NEW d \in Int, d > 0, NEW a \in Int, NEW q \in Int, NEW r \in 0 .. d - 1,
           a = d * q + r
    PROVE  a \div d = q /\ a % d = r
OBVIOUS

\* A remainder may be taken early.
LEMMA ModAdd ==
  ASSUME NEW d \in Int, d > 0, NEW a \in Int, NEW b \in Int
  PROVE  ((a % d) + b) % d = (a + b) % d
<1> DEFINE q == a \div d
           r == a % d
           p == (r + b) \div d
           s == (r + b) % d
<1>1. q \in Int /\ r \in Int /\ a = d * q + r
  BY Division
<1>2. p \in Int /\ s \in 0 .. d - 1 /\ r + b = d * p + s
  <2>1. r + b \in Int
    BY <1>1
  <2> HIDE DEF r
  <2>2. QED
    BY <2>1, Division
<1> HIDE DEF q, r, p, s
<1>3. a + b = d * (q + p) + s /\ q + p \in Int /\ a + b \in Int
  BY <1>1, <1>2
<1>4. (a + b) % d = s
  BY <1>2, <1>3, DivisionUnique
<1>5. QED
  BY <1>4 DEF s, r

LEMMA ModMul ==
  ASSUME NEW d \in Int, d > 0, NEW a \in Int, NEW b \in Int
  PROVE  ((a % d) * b) % d = (a * b) % d
<1> DEFINE q == a \div d
           r == a % d
           p == (r * b) \div d
           s == (r * b) % d
<1>1. q \in Int /\ r \in Int /\ a = d * q + r
  BY Division
<1>2. p \in Int /\ s \in 0 .. d - 1 /\ r * b = d * p + s
  <2>1. r * b \in Int
    BY <1>1
  <2> HIDE DEF r
  <2>2. QED
    BY <2>1, Division
<1> HIDE DEF q, r, p, s
<1>3. a * b = d * (q * b + p) + s /\ q * b + p \in Int /\ a * b \in Int
  BY <1>1, <1>2
<1>4. (a * b) % d = s
  BY <1>2, <1>3, DivisionUnique
<1>5. QED
  BY <1>4 DEF s, r

LEMMA ModDouble ==
  ASSUME NEW d \in Int, d > 0, NEW a \in Int
  PROVE  (2 * (a % d)) % d = (2 * a) % d
<1> DEFINE q == a \div d
           r == a % d
           p == (2 * r) \div d
           s == (2 * r) % d
<1>1. q \in Int /\ r \in Int /\ a = d * q + r
  BY Division
<1>2. p \in Int /\ s \in 0 .. d - 1 /\ 2 * r = d * p + s
  <2>1. 2 * r \in Int
    BY <1>1
  <2> HIDE DEF r
  <2>2. QED
    BY <2>1, Division
<1> HIDE DEF q, r, p, s
<1>3. 2 * a = d * (2 * q + p) + s /\ 2 * q + p \in Int /\ 2 * a \in Int
  BY <1>1, <1>2
<1>4. (2 * a) % d = s
  BY <1>2, <1>3, DivisionUnique
<1>5. QED
  BY <1>4 DEF s, r

\* A multiple of the divisor moves the quotient.
LEMMA DivMinus ==
    ASSUME NEW d \in Int, d > 0, NEW a \in Int, NEW q \in Int
    PROVE  (a - d * q) \div d = (a \div d) - q
<1> DEFINE p == a \div d
           r == a % d
<1>1. p \in Int /\ r \in 0 .. d - 1 /\ a = d * p + r
  BY Division
<1> HIDE DEF p, r
<1>2. a - d * q = d * (p - q) + r /\ p - q \in Int /\ a - d * q \in Int
  BY <1>1
<1>3. (a - d * q) \div d = p - q
  BY <1>1, <1>2, DivisionUnique
<1>4. QED
  BY <1>3 DEF p

LEMMA DivDouble ==
    ASSUME NEW d \in Int, d > 0, NEW a \in Int
    PROVE  (2 * a) \div (2 * d) = a \div d
<1> DEFINE p == a \div d
           r == a % d
<1>1. p \in Int /\ r \in 0 .. d - 1 /\ a = d * p + r
  BY Division
<1> HIDE DEF p, r
<1>2. 2 * a = (2 * d) * p + 2 * r /\ 2 * r \in 0 .. 2 * d - 1 /\ 2 * a \in Int /\ 2 * d \in Int /\ 2 * d > 0
  BY <1>1
<1>3. (2 * a) \div (2 * d) = p
  BY <1>1, <1>2, DivisionUnique
<1>4. QED
  BY <1>3 DEF p

-----------------------------------------------------------------------------
(* Powers of two *)

\* The powers of two are what they are defined to be.
LEMMA TwoToIs ==
    /\ TwoTo \in [Nat -> Nat \ {0}]
    /\ TwoTo[0] = 1
    /\ \A n \in Nat : TwoTo[n + 1] = 2 * TwoTo[n]
<1> DEFINE S == Nat \ {0}
           Value == [n \in Nat |-> 1]
           Succ == [n \in Nat |-> IF n = 0 THEN 0 ELSE n - 1]
           Step == [p \in Nat \X S |-> 2 * p[2]]
           Measure == [n \in Nat |-> n]
           body(f) == [n \in Nat |-> IF n = 0 THEN 1 ELSE 2 * f[n - 1]]
<1>1. /\ Value \in [Nat -> S] /\ Succ \in [Nat -> Nat] /\ Step \in [Nat \X S -> S]
      /\ Measure \in [Nat -> Nat]
  OBVIOUS
<1>2. Descends(Nat, {0}, Succ, Measure)
  BY DEF Descends
<1>3. /\ \A n \in Nat : Value[n] = 1 /\ (n # 0 => Succ[n] = n - 1 /\ n - 1 \in Nat)
      /\ \A n \in Nat, v \in S : Step[<<n, v>>] = 2 * v
  OBVIOUS
<1> HIDE DEF S, Value, Succ, Step, Measure
<1>4. Solutions(Nat, S, {0}, Value, Succ, Step) # {}
  BY <1>1, <1>2, RecursionHasValue
<1>5. PICK f \in [Nat -> S] :
        \A n \in Nat : f[n] = IF n \in {0} THEN Value[n] ELSE Step[<<n, f[Succ[n]]>>]
  BY <1>4 DEF Solutions
<1>6. ASSUME NEW n \in Nat PROVE f[n] = IF n = 0 THEN 1 ELSE 2 * f[n - 1]
  <2>1. CASE n = 0
    BY <1>3, <1>5, <2>1
  <2>2. CASE n # 0
    <3>1. Succ[n] = n - 1 /\ n - 1 \in Nat /\ f[n - 1] \in S
      BY <1>3, <1>5, <2>2
    <3>2. f[n] = Step[<<n, f[n - 1]>>]
      BY <1>5, <2>2, <3>1
    <3>3. QED
      BY <1>3, <2>2, <3>1, <3>2
  <2>3. QED
    BY <2>1, <2>2
<1>7. f = body(f)
  <2>1. f = [n \in Nat |-> f[n]]
    BY <1>5
  <2>2. QED
    BY <1>6, <2>1
<1> DEFINE G == CHOOSE g : g = body(g)
<1>8. G = body(G)
  BY <1>7, Zenon
<1>9. TwoTo = G
  BY DEF TwoTo
<1> HIDE DEF G
<1>10. \A n \in Nat : TwoTo[n] = IF n = 0 THEN 1 ELSE 2 * TwoTo[n - 1]
  BY <1>8, <1>9
<1>11. \A n \in Nat : TwoTo[n + 1] = 2 * TwoTo[n]
  BY <1>10
<1>12. \A n \in Nat : TwoTo[n] \in Nat \ {0}
  <2> DEFINE T == { n \in Nat : TwoTo[n] \in Nat \ {0} }
  <2>1. 0 \in T
    BY <1>10
  <2>2. \A n \in T : n + 1 \in T
    BY <1>11
  <2>3. T \subseteq Nat
    OBVIOUS
  <2> HIDE DEF T
  <2>4. T = Nat
    BY <2>1, <2>2, <2>3, NatSetInduction
  <2>5. QED
    BY <2>4 DEF T
<1>13. TwoTo = [n \in Nat |-> TwoTo[n]]
  BY <1>8, <1>9
<1>14. QED
  BY <1>10, <1>11, <1>12, <1>13

LEMMA TwoToAdd ==
    ASSUME NEW a \in Nat, NEW b \in Nat
    PROVE  TwoTo[a + b] = TwoTo[a] * TwoTo[b]
<1> DEFINE T == { n \in Nat : TwoTo[a + n] = TwoTo[a] * TwoTo[n] }
<1>0. \A n \in Nat : TwoTo[n] \in Nat \ {0} /\ TwoTo[n + 1] = 2 * TwoTo[n]
  BY TwoToIs
<1>1. 0 \in T
  BY <1>0, TwoToIs
<1>2. ASSUME NEW n \in T PROVE n + 1 \in T
  <2>1. n \in Nat /\ n + 1 \in Nat /\ a + n \in Nat /\ a + (n + 1) = (a + n) + 1
    OBVIOUS
  <2>2. TwoTo[a + (n + 1)] = 2 * TwoTo[a + n] /\ TwoTo[a + n] = TwoTo[a] * TwoTo[n]
    BY <1>0, <2>1
  <2>3. TwoTo[a] \in Int /\ TwoTo[n] \in Int /\ TwoTo[n + 1] = 2 * TwoTo[n]
    BY <1>0, <2>1
  <2>4. 2 * (TwoTo[a] * TwoTo[n]) = TwoTo[a] * (2 * TwoTo[n])
    BY <2>3
  <2>5. QED
    BY <2>1, <2>2, <2>3, <2>4
<1>3. T \subseteq Nat
  OBVIOUS
<1> HIDE DEF T
<1>4. T = Nat
  BY <1>1, <1>2, <1>3, NatSetInduction
<1>5. QED
  BY <1>4 DEF T

-----------------------------------------------------------------------------
(* Parts of sequences *)

\* A part of a sequence is a sequence of its length.
LEMMA PartTyped ==
    ASSUME NEW S, NEW s \in Seq(S), NEW a \in Nat, NEW b \in Nat, a <= b, b <= Len(s)
    PROVE  /\ SubSeq(s, a + 1, b) \in Seq(S) /\ Len(SubSeq(s, a + 1, b)) = b - a
           /\ \A i \in 1 .. b - a : SubSeq(s, a + 1, b)[i] = s[a + i]
OBVIOUS

\* Two adjacent parts of a sequence are one part.
LEMMA Adjacent ==
    ASSUME NEW S, NEW s \in Seq(S), NEW a \in Nat, NEW b \in Nat, NEW c \in Nat,
           a <= b, b <= c, c <= Len(s)
    PROVE  SubSeq(s, a + 1, b) \o SubSeq(s, b + 1, c) = SubSeq(s, a + 1, c)
OBVIOUS

\* A part of one element.
LEMMA OnePart ==
    ASSUME NEW S, NEW s \in Seq(S), NEW b \in Nat, b < Len(s)
    PROVE  SubSeq(s, b + 1, b + 1) = <<s[b + 1]>>
<1>1. b + 1 \in 1 .. Len(s)
  OBVIOUS
<1> DEFINE c == b + 1
<1>2. c \in 1 .. Len(s)
  BY <1>1
<1> HIDE DEF c
<1>3. SubSeq(s, c, c) \in Seq(S) /\ Len(SubSeq(s, c, c)) = 1 /\ SubSeq(s, c, c)[1] = s[c] /\ s[c] \in S
  BY <1>2
<1> DEFINE q == SubSeq(s, c, c)
<1>5. q \in Seq(S) /\ Len(q) = 1 /\ q[1] = s[c] /\ s[c] \in S
  BY <1>3
<1> HIDE DEF q
<1>6. q = <<s[c]>>
  BY <1>5
<1>7. QED
  BY <1>6 DEF c, q

\* A part of a sequence and the element behind it.
LEMMA PartGrows ==
    ASSUME NEW S, NEW s \in Seq(S), NEW a \in Nat, NEW b \in Nat, a <= b, b < Len(s)
    PROVE  SubSeq(s, a + 1, b + 1) = Append(SubSeq(s, a + 1, b), s[b + 1])
<1> DEFINE c == b + 1
<1>1. c \in Nat /\ b <= c /\ c <= Len(s) /\ c \in 1 .. Len(s) /\ b <= Len(s)
  OBVIOUS
<1>2. SubSeq(s, c, c) = <<s[c]>>
  BY OnePart
<1>3. SubSeq(s, a + 1, b) \in Seq(S) /\ s[c] \in S
  BY <1>1, PartTyped
<1> HIDE DEF c
<1>4. SubSeq(s, a + 1, b) \o SubSeq(s, b + 1, c) = SubSeq(s, a + 1, c)
  BY <1>1, Adjacent
<1>5. b + 1 = c
  BY DEF c
<1>6. SubSeq(s, a + 1, b) \o <<s[c]>> = Append(SubSeq(s, a + 1, b), s[c])
  BY <1>3, AppendIsConcat
<1>7. QED
  BY <1>2, <1>4, <1>5, <1>6

\* Three pieces behind one another.
LEMMA ThreePieces ==
    ASSUME NEW S, NEW a \in Seq(S), NEW h \in S, NEW b \in Seq(S), NEW A \in Nat, A = Len(a)
    PROVE  /\ a \o <<h>> \o b \in Seq(S) /\ Len(a \o <<h>> \o b) = A + 1 + Len(b)
           /\ \A p \in 1 .. A : (a \o <<h>> \o b)[p] = a[p]
           /\ (a \o <<h>> \o b)[A + 1] = h
           /\ \A p \in 1 .. Len(b) : (a \o <<h>> \o b)[A + 1 + p] = b[p]
<1> DEFINE c == a \o <<h>>
<1>1. /\ c \in Seq(S) /\ Len(c) = A + 1 /\ c[A + 1] = h
      /\ \A p \in 1 .. A : c[p] = a[p]
  OBVIOUS
<1> HIDE DEF c
<1>2. /\ c \o b \in Seq(S) /\ Len(c \o b) = A + 1 + Len(b)
      /\ \A p \in 1 .. A + 1 : (c \o b)[p] = c[p]
      /\ \A p \in 1 .. Len(b) : (c \o b)[A + 1 + p] = b[p]
  <2>1. c \o b \in Seq(S)
    BY <1>1
  <2>2. Len(c \o b) = A + 1 + Len(b)
    BY <1>1
  <2>3. \A p \in 1 .. A + 1 : (c \o b)[p] = c[p]
    BY <1>1
  <2>4. \A p \in 1 .. Len(b) : (c \o b)[A + 1 + p] = b[p]
    BY <1>1
  <2>5. QED
    BY <2>1, <2>2, <2>3, <2>4
<1>3. A + 1 \in 1 .. A + 1 /\ \A p \in 1 .. A : p \in 1 .. A + 1
  OBVIOUS
<1>4. QED
  BY <1>1, <1>2, <1>3 DEF c
=============================================================================
