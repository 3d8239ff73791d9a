------------------------- MODULE UnifiedPatch_proofs -------------------------
(***************************************************************************)
(* Of stringcheese-diff, for all texts and lines: the script Myers' search *)
(* leads to is one from old to new with as few changes as any script has,  *)
(* and the anchors the patience diff keeps are as many as can stand in one *)
(* order on both sides.  A written diff that is cut or loses a line yields *)
(* no hunk nobody wrote, apply_hunks does what splicing hunk by hunk does, *)
(* and a diff that arrives whole makes the new text of the old.            *)
(*                                                                         *)
(*  1. What a script says of its two sides, and how that adds up.          *)
(*  2. The patience sort: every anchor has a rank, the length of the       *)
(*     longest chain it ends, and ranks bound every chain.                 *)
(*  3. The distance of two texts, from the table of CommonLength: a line   *)
(*     costs one change, an equal pair none, and no way leads on cheaper.  *)
(*  4. Myers' lemma: diagonal g, entered after r changes where the array   *)
(*     says, is followed to the farthest point within distance r.          *)
(*  5. The trace: snapshot r holds such points for every diagonal of round *)
(*     r, and the end is reached in the round of its distance.             *)
(*  6. The way back: from a point at distance r the snapshot of round      *)
(*     r - 1 leads to one at distance r - 1, over one change and the equal *)
(*     lines behind it.                                                    *)
(*  7. The hunks of a script lie behind one another and hold its changes.  *)
(*  8. What is written has a header and a body for each; what arrives is   *)
(*     carried there line by line, whole or with one line lost.            *)
(*  9. The reader is outside a hunk, or inside one with the edits it has   *)
(*     read; a hunk that lacks an edit falls short of its header's counts. *)
(* 10. apply_hunks is between two hunks or within one, and what is behind  *)
(*     its cursor is what the hunks done make of it.                       *)
(* 11. Its end is what splicing leads to from behind; hunks of the diff    *)
(*     fit the old text, and what lies between them is on both sides.      *)
(***************************************************************************)
EXTENDS UnifiedPatch, SequenceTheorems, FiniteSetTheorems, Foundations

-----------------------------------------------------------------------------
(* Edit scripts *)

EditSet == [kind : {"keep", "delete", "insert"}, line : Lines]

\* Counting up from zero.
LEMMA UpTo ==
    ASSUME NEW N \in Nat, NEW T, 0 \in T, \A i \in 1 .. N : i - 1 \in T => i \in T
    PROVE  \A i \in 0 .. N : i \in T
<1> DEFINE U == { i \in Nat : i <= N => i \in T }
<1>1. 0 \in U /\ U \subseteq Nat
  OBVIOUS
<1>2. \A i \in U : i + 1 \in U
  <2>1. SUFFICES ASSUME NEW i \in U, i + 1 <= N PROVE i + 1 \in T
    OBVIOUS
  <2>2. i \in Nat /\ i \in T /\ i + 1 \in 1 .. N /\ (i + 1) - 1 = i
    BY <2>1
  <2>3. QED BY <2>2
<1> HIDE DEF U
<1>3. U = Nat
  BY <1>1, <1>2, NatSetInduction
<1>4. QED BY <1>3 DEF U

\* LinesOf takes the edits one by one.
TakesLines(f, s, kinds) ==
    /\ f \in [0 .. Len(s) -> Seq(Lines)]
    /\ f[0] = << >>
    /\ \A i \in 1 .. Len(s) :
         f[i] = IF s[i].kind \in kinds THEN Append(f[i - 1], s[i].line) ELSE f[i - 1]

\* LinesOf is the count along the script that its recursion describes.
LEMMA LinesOfIs ==
    ASSUME NEW s \in Seq(EditSet), NEW kinds
    PROVE  \E f : TakesLines(f, s, kinds) /\ LinesOf(s, kinds) = f[Len(s)]
<1> DEFINE X == 0 .. Len(s)
           S == Seq(Lines)
           At(i) == IF i \in 1 .. Len(s) THEN s[i] ELSE s[1]
           Step == [p \in X \X S |->
                     IF p[1] = 0 THEN << >>
                     ELSE IF s[p[1]].kind \in kinds THEN Append(p[2], s[p[1]].line) ELSE p[2]]
           body(f) == [i \in X |->
                         IF i = 0 THEN << >>
                         ELSE IF s[i].kind \in kinds THEN Append(f[i - 1], s[i].line)
                         ELSE f[i - 1]]
<1>1. Len(s) \in Nat /\ << >> \in S
  OBVIOUS
<1>2. \A i \in X \ {0} : s[i].line \in Lines
  <2>1. \A i \in X \ {0} : s[i] \in EditSet
    BY <1>1
  <2>2. QED BY <2>1 DEF EditSet
<1>3. Step \in [X \X S -> S]
  <2>1. \A p \in X \X S : p[1] # 0 => Append(p[2], s[p[1]].line) \in S
    BY <1>2
  <2>2. QED BY <2>1
<1>4. \A i \in X, w \in S : i # 0 =>
         Step[<<i, w>>] = IF s[i].kind \in kinds THEN Append(w, s[i].line) ELSE w
  OBVIOUS
<1> HIDE DEF Step, S
<1>5. Countings(0, Len(s), S, << >>, Step) # {}
  <2>1. 0 \in Int /\ Len(s) \in Int
    BY <1>1
  <2> HIDE DEF X
  <2>2. X = 0 .. Len(s)
    BY DEF X
  <2>3. QED BY <1>1, <1>3, <2>1, <2>2, CountingHasValue
<1>6. PICK f \in [X -> S] :
        \A i \in X : f[i] = IF i = 0 THEN << >> ELSE Step[<<i, f[i - 1]>>]
  BY <1>5 DEF Countings
<1>7. \A i \in X \ {0} : f[i - 1] \in S /\ f[i] = Step[<<i, f[i - 1]>>]
  BY <1>1, <1>6
<1>8. f = body(f)
  <2>1. f = [i \in X |-> f[i]]
    BY <1>6
  <2>2. \A i \in X : f[i] = IF i = 0 THEN << >>
                            ELSE IF s[i].kind \in kinds THEN Append(f[i - 1], s[i].line)
                            ELSE f[i - 1]
    BY <1>4, <1>6, <1>7
  <2>3. QED BY <2>1, <2>2
<1> DEFINE G == CHOOSE g : g = body(g)
<1>9. G = body(G)
  BY <1>8, Zenon
<1>10. LinesOf(s, kinds) = G[Len(s)]
  BY DEF LinesOf
<1> HIDE DEF G
<1>11. /\ G[0] = << >>
       /\ \A i \in 1 .. Len(s) :
            G[i] = IF s[i].kind \in kinds THEN Append(G[i - 1], s[i].line) ELSE G[i - 1]
  <2>1. 0 \in X /\ \A i \in 1 .. Len(s) : i \in X /\ i # 0
    BY <1>1
  <2>2. \A i \in X : body(G)[i] = IF i = 0 THEN << >>
                                  ELSE IF s[i].kind \in kinds THEN Append(G[i - 1], s[i].line)
                                  ELSE G[i - 1]
    OBVIOUS
  <2> HIDE DEF body, X
  <2>3. QED BY <1>9, <2>1, <2>2
<1>12. \A i \in X : G[i] \in S
  <2> DEFINE T == { i \in X : G[i] \in S }
  <2>1. 0 \in T
    BY <1>1, <1>11
  <2>2. \A i \in 1 .. Len(s) : i - 1 \in T => i \in T
    <3>1. SUFFICES ASSUME NEW i \in 1 .. Len(s), G[i - 1] \in Seq(Lines) PROVE G[i] \in Seq(Lines)
      BY <1>1 DEF S
    <3>2. s[i].line \in Lines
      BY <1>1, <1>2
    <3>3. Append(G[i - 1], s[i].line) \in Seq(Lines)
      BY <3>1, <3>2
    <3>4. QED BY <1>11, <3>1, <3>3
  <2> HIDE DEF T
  <2>3. \A i \in 0 .. Len(s) : i \in T
    BY <1>1, <2>1, <2>2, UpTo
  <2>4. QED BY <2>3 DEF T
<1>13. G \in [X -> S]
  BY <1>9, <1>12
<1>14. TakesLines(G, s, kinds)
  BY <1>11, <1>13 DEF TakesLines, S
<1>15. QED BY <1>10, <1>14

\* Two scripts that begin alike have the same lines so far.
LEMMA TakesLinesAlike ==
    ASSUME NEW s \in Seq(EditSet), NEW t \in Seq(EditSet), NEW kinds,
           NEW f, NEW g, TakesLines(f, s, kinds), TakesLines(g, t, kinds),
           NEW N \in Nat, N <= Len(s), N <= Len(t), \A i \in 1 .. N : s[i] = t[i]
    PROVE  f[N] = g[N]
<1> DEFINE T == { i \in 0 .. N : f[i] = g[i] }
<1>1. 0 \in T
  BY DEF TakesLines
<1>2. \A i \in 1 .. N : i - 1 \in T => i \in T
  <2>1. SUFFICES ASSUME NEW i \in 1 .. N, f[i - 1] = g[i - 1] PROVE f[i] = g[i]
    OBVIOUS
  <2>2. i \in 1 .. Len(s) /\ i \in 1 .. Len(t) /\ s[i] = t[i]
    OBVIOUS
  <2>3. QED BY <2>1, <2>2 DEF TakesLines
<1> HIDE DEF T
<1>3. \A i \in 0 .. N : i \in T
  BY <1>1, <1>2, UpTo
<1>4. N \in T
  BY <1>3
<1>5. QED BY <1>4 DEF T

\* The empty script has no lines.
LEMMA LinesOfEmpty == \A kinds : LinesOf(<< >>, kinds) = << >>
<1>1. ASSUME NEW kinds PROVE LinesOf(<< >>, kinds) = << >>
  <2>1. << >> \in Seq(EditSet) /\ Len(<< >>) = 0
    OBVIOUS
  <2>2. PICK f : TakesLines(f, << >>, kinds) /\ LinesOf(<< >>, kinds) = f[Len(<< >>)]
    BY <2>1, LinesOfIs
  <2>3. QED BY <2>1, <2>2 DEF TakesLines
<1>2. QED BY <1>1

\* What a script holds are lines, no more than it has edits.
LEMMA LinesOfType ==
    ASSUME NEW s \in Seq(EditSet), NEW kinds
    PROVE  LinesOf(s, kinds) \in Seq(Lines)
<1>1. PICK f : TakesLines(f, s, kinds) /\ LinesOf(s, kinds) = f[Len(s)]
  BY LinesOfIs
<1>2. QED BY <1>1 DEF TakesLines

\* One more edit adds its line, if it is of the kinds.
LEMMA LinesOfAppend ==
    ASSUME NEW s \in Seq(EditSet), NEW e \in EditSet, NEW kinds
    PROVE  LinesOf(Append(s, e), kinds) =
             IF e.kind \in kinds THEN Append(LinesOf(s, kinds), e.line) ELSE LinesOf(s, kinds)
<1> DEFINE t == Append(s, e)
<1>1. /\ t \in Seq(EditSet) /\ Len(t) = Len(s) + 1 /\ t[Len(s) + 1] = e /\ Len(s) \in Nat
      /\ \A i \in 1 .. Len(s) : t[i] = s[i]
  BY AppendProperties
<1> HIDE DEF t
<1>2. PICK f : TakesLines(f, s, kinds) /\ LinesOf(s, kinds) = f[Len(s)]
  BY LinesOfIs
<1>3. PICK g : TakesLines(g, t, kinds) /\ LinesOf(t, kinds) = g[Len(t)]
  BY <1>1, LinesOfIs
<1>4. f[Len(s)] = g[Len(s)]
  BY <1>1, <1>2, <1>3, TakesLinesAlike
<1>5. g[Len(s) + 1] = IF e.kind \in kinds THEN Append(g[Len(s)], e.line) ELSE g[Len(s)]
  <2>1. Len(s) + 1 \in 1 .. Len(t) /\ (Len(s) + 1) - 1 = Len(s)
    BY <1>1
  <2>2. QED BY <1>1, <1>3, <2>1 DEF TakesLines
<1>6. QED BY <1>1, <1>2, <1>3, <1>4, <1>5 DEF t

\* A sequence that is not empty is a shorter one and its last element.
LEMMA LastOff ==
    ASSUME NEW S, NEW s \in Seq(S), NEW N \in Nat, Len(s) = N + 1
    PROVE  \E q \in Seq(S), e \in S : Len(q) = N /\ s = Append(q, e)
<1>1. s = Append(SubSeq(s, 1, N), s[N + 1])
  OBVIOUS
<1>2. SubSeq(s, 1, N) \in Seq(S) /\ Len(SubSeq(s, 1, N)) = N /\ s[N + 1] \in S
  OBVIOUS
<1>3. QED BY <1>1, <1>2

Divides(s, t, kinds) == LinesOf(s \o t, kinds) = LinesOf(s, kinds) \o LinesOf(t, kinds)

\* Appending to the second part keeps the lines of two parts together.
LEMMA DividesAppend ==
    ASSUME NEW s \in Seq(EditSet), NEW q \in Seq(EditSet), NEW e \in EditSet, NEW kinds,
           Divides(s, q, kinds)
    PROVE  Divides(s, Append(q, e), kinds)
<1> DEFINE u == s \o q
           a == LinesOf(s, kinds)
           b == LinesOf(q, kinds)
           l == e.line
<1>1. u \in Seq(EditSet)
  OBVIOUS
<1>2. s \o Append(q, e) = Append(u, e)
  OBVIOUS
<1>3. a \in Seq(Lines) /\ b \in Seq(Lines)
  BY LinesOfType
<1>4. l \in Lines
  BY DEF EditSet
<1>5. LinesOf(u, kinds) = a \o b
  BY DEF Divides
<1> HIDE DEF u, a, b
<1>6. LinesOf(Append(u, e), kinds) =
        IF e.kind \in kinds THEN Append(LinesOf(u, kinds), l) ELSE LinesOf(u, kinds)
  BY <1>1, LinesOfAppend
<1>7. LinesOf(Append(q, e), kinds) = IF e.kind \in kinds THEN Append(b, l) ELSE b
  BY LinesOfAppend DEF b
<1> HIDE DEF l
<1>8. Append(a \o b, l) = a \o Append(b, l)
  <2>1. a \o b \in Seq(Lines) /\ <<l>> \in Seq(Lines)
    BY <1>3, <1>4
  <2>2. Append(a \o b, l) = (a \o b) \o <<l>> /\ Append(b, l) = b \o <<l>>
    BY <1>3, <1>4, <2>1, AppendIsConcat
  <2>3. (a \o b) \o <<l>> = a \o (b \o <<l>>)
    BY <1>3, <2>1, ConcatAssociative
  <2>4. QED BY <2>2, <2>3
<1>9. LinesOf(Append(u, e), kinds) = a \o LinesOf(Append(q, e), kinds)
  BY <1>5, <1>6, <1>7, <1>8
<1>10. QED BY <1>2, <1>9 DEF a, Divides

\* The lines of two scripts are those of one behind the other.
LEMMA LinesOfConcat ==
    ASSUME NEW s \in Seq(EditSet), NEW t \in Seq(EditSet), NEW kinds
    PROVE  LinesOf(s \o t, kinds) = LinesOf(s, kinds) \o LinesOf(t, kinds)
<1> DEFINE T == { N \in Nat : \A r \in Seq(EditSet) : Len(r) = N => Divides(s, r, kinds) }
<1>1. 0 \in T
  <2>1. SUFFICES ASSUME NEW r \in Seq(EditSet), Len(r) = 0 PROVE Divides(s, r, kinds)
    OBVIOUS
  <2>2. r = << >> /\ s \o << >> = s
    BY <2>1
  <2>3. LinesOf(s, kinds) \o << >> = LinesOf(s, kinds)
    BY LinesOfType
  <2>4. QED BY <2>2, <2>3, LinesOfEmpty DEF Divides
<1>2. \A N \in T : N + 1 \in T
  <2>1. SUFFICES ASSUME NEW N \in T, NEW r \in Seq(EditSet), Len(r) = N + 1
                 PROVE  Divides(s, r, kinds)
    OBVIOUS
  <2>2. N \in Nat /\ \A q \in Seq(EditSet) : Len(q) = N => Divides(s, q, kinds)
    OBVIOUS
  <2> HIDE DEF T
  <2>3. PICK q \in Seq(EditSet), e \in EditSet : Len(q) = N /\ r = Append(q, e)
    BY <2>1, <2>2, LastOff, SMTT(60)
  <2>4. Divides(s, q, kinds)
    BY <2>2, <2>3
  <2>5. Divides(s, Append(q, e), kinds)
    BY <2>4, DividesAppend
  <2>6. QED BY <2>3, <2>5
<1>3. T \subseteq Nat
  OBVIOUS
<1> HIDE DEF T
<1>4. T = Nat
  BY <1>1, <1>2, <1>3, NatSetInduction
<1>5. Len(t) \in T
  BY <1>4
<1>6. QED BY <1>5 DEF T, Divides

\* A script of one edit.
LEMMA LinesOfOne ==
    ASSUME NEW e \in EditSet, NEW kinds
    PROVE  LinesOf(<<e>>, kinds) = IF e.kind \in kinds THEN <<e.line>> ELSE << >>
<1>1. <<e>> = Append(<< >>, e) /\ << >> \in Seq(EditSet)
  OBVIOUS
<1>2. <<e.line>> = Append(<< >>, e.line)
  OBVIOUS
<1>3. LinesOf(<< >>, kinds) = << >>
  BY LinesOfEmpty
<1>4. LinesOf(Append(<< >>, e), kinds) =
        IF e.kind \in kinds THEN Append(LinesOf(<< >>, kinds), e.line) ELSE LinesOf(<< >>, kinds)
  BY <1>1, LinesOfAppend
<1>5. QED BY <1>1, <1>2, <1>3, <1>4

\* The three views of a script at once.
LEMMA SidesType ==
    ASSUME NEW s \in Seq(EditSet)
    PROVE  /\ OldSide(s) \in Seq(Lines) /\ NewSide(s) \in Seq(Lines) /\ Changes(s) \in Seq(Lines)
           /\ Len(OldSide(s)) \in Nat /\ Len(NewSide(s)) \in Nat /\ Len(Changes(s)) \in Nat
<1>1. OldSide(s) \in Seq(Lines) /\ NewSide(s) \in Seq(Lines) /\ Changes(s) \in Seq(Lines)
  BY LinesOfType DEF OldSide, NewSide, Changes
<1>2. QED BY <1>1

\* The three views of the empty script.
LEMMA SidesEmpty == OldSide(<< >>) = << >> /\ NewSide(<< >>) = << >> /\ Changes(<< >>) = << >>
BY LinesOfEmpty DEF OldSide, NewSide, Changes

\* The three views of two scripts behind one another.
LEMMA SidesConcat ==
    ASSUME NEW s \in Seq(EditSet), NEW t \in Seq(EditSet)
    PROVE  /\ OldSide(s \o t) = OldSide(s) \o OldSide(t)
           /\ NewSide(s \o t) = NewSide(s) \o NewSide(t)
           /\ Changes(s \o t) = Changes(s) \o Changes(t)
           /\ Len(Changes(s \o t)) = Len(Changes(s)) + Len(Changes(t))
<1>1. /\ OldSide(s \o t) = OldSide(s) \o OldSide(t)
      /\ NewSide(s \o t) = NewSide(s) \o NewSide(t)
      /\ Changes(s \o t) = Changes(s) \o Changes(t)
  BY LinesOfConcat, Zenon DEF OldSide, NewSide, Changes
<1>2. QED BY <1>1, SidesType, ConcatProperties

\* The three views of a script with one more edit.
LEMMA SidesAppend ==
    ASSUME NEW s \in Seq(EditSet), NEW e \in EditSet
    PROVE  /\ OldSide(Append(s, e)) = IF InOld(e) THEN Append(OldSide(s), e.line) ELSE OldSide(s)
           /\ NewSide(Append(s, e)) = IF InNew(e) THEN Append(NewSide(s), e.line) ELSE NewSide(s)
           /\ Changes(Append(s, e)) = IF IsChange(e) THEN Append(Changes(s), e.line) ELSE Changes(s)
<1>1. e.kind # "keep" <=> e.kind \in {"delete", "insert"}
  BY DEF EditSet
<1>2. QED
  BY <1>1, LinesOfAppend DEF OldSide, NewSide, Changes, InOld, InNew, IsChange

\* What the three constructors make.
LEMMA EditsAre ==
    /\ \A l \in Lines : Keep(l) \in EditSet /\ Delete(l) \in EditSet /\ Insert(l) \in EditSet
    /\ \A l : /\ Keep(l).kind = "keep" /\ Delete(l).kind = "delete" /\ Insert(l).kind = "insert"
              /\ Keep(l).line = l /\ Delete(l).line = l /\ Insert(l).line = l
    /\ \A e \in EditSet : e.kind \in {"keep", "delete", "insert"} /\ e.line \in Lines
    /\ \A e \in EditSet : e = [kind |-> e.kind, line |-> e.line]
BY DEF EditSet, Keep, Delete, Insert

\* A script of one kind.
LEMMA SidesOfRun ==
    ASSUME NEW t \in Seq(Lines), NEW s \in Seq(EditSet), Len(s) = Len(t),
           NEW kind \in {"keep", "delete", "insert"},
           \A i \in 1 .. Len(t) : s[i] = [kind |-> kind, line |-> t[i]]
    PROVE  /\ OldSide(s) = IF kind = "insert" THEN << >> ELSE t
           /\ NewSide(s) = IF kind = "delete" THEN << >> ELSE t
           /\ Len(Changes(s)) = IF kind = "keep" THEN 0 ELSE Len(t)
<1> DEFINE Holds(kinds) == LinesOf(s, kinds) = IF kind \in kinds THEN t ELSE << >>
<1>1. ASSUME NEW kinds PROVE Holds(kinds)
  <2>1. PICK f : TakesLines(f, s, kinds) /\ LinesOf(s, kinds) = f[Len(s)]
    BY LinesOfIs
  <2> DEFINE Part(i) == IF kind \in kinds THEN SubSeq(t, 1, i) ELSE << >>
             T == { i \in 0 .. Len(t) : f[i] = Part(i) }
  <2>2. 0 \in T
    <3>1. SubSeq(t, 1, 0) = << >> /\ Len(t) \in Nat
      OBVIOUS
    <3>2. QED BY <2>1, <3>1 DEF TakesLines
  <2>3. \A i \in 1 .. Len(t) : i - 1 \in T => i \in T
    <3>1. SUFFICES ASSUME NEW i \in 1 .. Len(t), f[i - 1] = Part(i - 1) PROVE f[i] = Part(i)
      OBVIOUS
    <3>2. f[i] = IF kind \in kinds THEN Append(f[i - 1], t[i]) ELSE f[i - 1]
      <4>1. i \in 1 .. Len(s) /\ s[i] = [kind |-> kind, line |-> t[i]]
        OBVIOUS
      <4>3. s[i].kind = kind /\ s[i].line = t[i]
        BY <4>1
      <4>2. QED BY <2>1, <4>1, <4>3 DEF TakesLines
    <3>3. SubSeq(t, 1, i) = Append(SubSeq(t, 1, i - 1), t[i])
      <4>1. 1 \in 1 .. Len(t) /\ i \in 1 .. Len(t)
        OBVIOUS
      <4>2. SubSeq(t, 1, i) = SubSeq(t, 1, i - 1) \o <<t[i]>>
        BY <4>1, SubSeqRecursiveSecond
      <4>3. SubSeq(t, 1, i - 1) \in Seq(Lines) /\ t[i] \in Lines
        OBVIOUS
      <4>4. QED BY <4>2, <4>3, AppendIsConcat
    <3>4. QED BY <3>1, <3>2, <3>3
  <2> HIDE DEF T
  <2>4. \A i \in 0 .. Len(t) : i \in T
    <3>1. Len(t) \in Nat
      OBVIOUS
    <3>2. QED BY <2>2, <2>3, <3>1, UpTo
  <2>5. Len(t) \in T
    BY <2>4
  <2>6. SubSeq(t, 1, Len(t)) = t
    BY SubSeqFull
  <2>7. QED BY <2>1, <2>5, <2>6 DEF T
<1> HIDE DEF Holds
<1>2. Holds({"keep", "delete"}) /\ Holds({"keep", "insert"}) /\ Holds({"delete", "insert"})
  BY <1>1
<1>3. Len(<< >>) = 0
  OBVIOUS
<1>4. QED BY <1>2, <1>3 DEF Holds, OldSide, NewSide, Changes

-----------------------------------------------------------------------------
(* The longest chain of anchors *)

\* In the order of the old text; no two share a line of the new one.
Climbs(A) ==
    /\ A \in Seq(Nat \X Nat)
    /\ \A i, j \in 1 .. Len(A) : i < j => A[i][1] < A[j][1] /\ A[i][2] # A[j][2]

\* Every anchor has a rank, the length of the chain it ends; of one rank the
\* later stands further ahead in the new text, and the last of them is the tail.
Ranked(A, i, P, r) ==
    /\ P.tails \in Seq(1 .. i) /\ P.prev \in Seq(0 .. i) /\ Len(P.prev) = i
    /\ r \in [1 .. i -> 1 .. Len(P.tails)]
    /\ \A a, b \in 1 .. Len(P.tails) : a < b => A[P.tails[a]][2] < A[P.tails[b]][2]
    /\ \A a \in 1 .. Len(P.tails) : r[P.tails[a]] = a
    /\ \A j \in 1 .. i : A[P.tails[r[j]]][2] <= A[j][2]
    /\ \A j \in 1 .. i :
         IF r[j] = 1 THEN P.prev[j] = 0
         ELSE /\ P.prev[j] \in 1 .. j - 1
              /\ r[P.prev[j]] = r[j] - 1 /\ A[P.prev[j]][2] < A[j][2]
    /\ \A j, l \in 1 .. i : j < l /\ r[j] = r[l] => A[l][2] < A[j][2]

\* The tails before an anchor are the first ones.
LEMMA FirstOnes ==
    ASSUME NEW N \in Nat, NEW f \in [1 .. N -> Nat], NEW c \in Nat,
           \A a, b \in 1 .. N : a < b => f[a] < f[b]
    PROVE  \E h \in 0 .. N : \A a \in 1 .. N : f[a] < c <=> a <= h
<1> DEFINE T == { a \in 1 .. N + 1 : a = N + 1 \/ ~(f[a] < c) }
<1>1. T \subseteq Nat /\ N + 1 \in T
  OBVIOUS
<1>2. PICK z \in T : \A a \in T : z <= a
  <2> HIDE DEF T
  <2>1. QED BY <1>1, LeastNatural
<1>3. z \in 1 .. N + 1 /\ (z = N + 1 \/ ~(f[z] < c))
  OBVIOUS
<1>4. ASSUME NEW a \in 1 .. N PROVE f[a] < c <=> a <= z - 1
  <2>1. CASE a < z
    <3>1. a \notin T
      BY <1>2, <1>3, <2>1
    <3>2. QED BY <1>3, <2>1, <3>1
  <2>2. CASE z <= a
    <3>1. z \in 1 .. N /\ ~(f[z] < c) /\ f[z] \in Nat /\ f[a] \in Nat
      BY <1>3, <2>2
    <3>2. CASE z = a
      BY <3>1, <3>2
    <3>3. CASE z < a
      <4>1. f[z] < f[a]
        BY <3>1, <3>3
      <4>2. QED BY <3>1, <3>3, <4>1
    <3>4. QED BY <1>3, <2>2, <3>2, <3>3
  <2>3. QED BY <1>3, <2>1, <2>2
<1>5. z - 1 \in 0 .. N
  BY <1>3
<1>6. QED BY <1>4, <1>5

\* The tails an anchor can be put behind are the first ones.
LEMMA PrecedesIs ==
    ASSUME NEW A, NEW i, NEW P, NEW N \in Nat, NEW f \in [1 .. N -> Nat], A[i][2] \in Nat,
           DOMAIN P.tails = 1 .. N,
           \A a \in 1 .. N : A[P.tails[a]][2] = f[a],
           \A a, b \in 1 .. N : a < b => f[a] < f[b]
    PROVE  /\ Cardinality(Precedes(P, A, i)) \in 0 .. N
           /\ \A a \in 1 .. N : f[a] < A[i][2] <=> a <= Cardinality(Precedes(P, A, i))
<1>1. PICK h \in 0 .. N : \A a \in 1 .. N : f[a] < A[i][2] <=> a <= h
  <2> DEFINE c == A[i][2]
  <2>1. c \in Nat
    OBVIOUS
  <2> HIDE DEF c
  <2>2. \E h \in 0 .. N : \A a \in 1 .. N : f[a] < c <=> a <= h
    BY <2>1, FirstOnes
  <2>3. QED BY <2>2 DEF c
<1>2. Precedes(P, A, i) = { a \in 1 .. N : f[a] < A[i][2] }
  BY DEF Precedes
<1>3. Precedes(P, A, i) = 1 .. h
  BY <1>1, <1>2
<1>4. Cardinality(1 .. h) = h
  BY FS_Interval
<1>5. QED BY <1>1, <1>3, <1>4

\* One more anchor has a rank.
LEMMA PlaceRanks ==
    ASSUME NEW A, Climbs(A), NEW i \in Nat, i < Len(A), NEW P, NEW r,
           Ranked(A, i, P, r)
    PROVE  \E z : Ranked(A, i + 1, Place(P, A, i + 1), z)
<1> DEFINE N == Len(P.tails)
           tl == P.tails
           pr == P.prev
           h == Cardinality(Precedes(P, A, i + 1))
           Q == Place(P, A, i + 1)
           z == [j \in 1 .. i + 1 |-> IF j = i + 1 THEN h + 1 ELSE r[j]]
           e == [j \in 1 .. Len(A) |-> A[j][2]]
<1>0. Len(A) \in Nat /\ \A j \in 1 .. i + 1 : j \in 1 .. Len(A)
  <2>1. Len(A) \in Nat
    BY DEF Climbs
  <2>2. QED BY <2>1
<1>1. e \in [1 .. Len(A) -> Nat]
  <2>1. \A j \in 1 .. Len(A) : A[j] \in Nat \X Nat
    BY DEF Climbs
  <2>2. QED BY <2>1
<1>2. \A j \in 1 .. i + 1 : e[j] = A[j][2] /\ e[j] \in Nat
  BY <1>0, <1>1
<1>3. \A j, l \in 1 .. i + 1 : j < l => e[j] # e[l]
  BY <1>0 DEF Climbs
<1>4. tl \in Seq(1 .. i) /\ pr \in Seq(0 .. i) /\ Len(pr) = i
  BY DEF Ranked
<1>5. N \in Nat /\ DOMAIN tl = 1 .. N /\ \A a \in 1 .. N : tl[a] \in 1 .. i
  <2>1. Len(tl) \in Nat /\ DOMAIN tl = 1 .. Len(tl) /\ \A a \in 1 .. Len(tl) : tl[a] \in 1 .. i
    BY <1>4
  <2>2. QED BY <2>1
<1>6. \A a, b \in 1 .. N : a < b => e[tl[a]] < e[tl[b]]
  <2>1. \A a, b \in 1 .. N : a < b => A[tl[a]][2] < A[tl[b]][2]
    BY DEF Ranked
  <2>2. \A a \in 1 .. N : tl[a] \in 1 .. i + 1
    BY <1>5
  <2>3. \A a \in 1 .. N : e[tl[a]] = A[tl[a]][2]
    BY <1>2, <2>2
  <2> HIDE DEF e, tl, N
  <2>4. QED BY <2>1, <2>3
<1>7. \A a \in 1 .. N : r[tl[a]] = a
  BY DEF Ranked
<1>8. \A j \in 1 .. i : r[j] \in 1 .. N /\ e[tl[r[j]]] <= e[j]
  <2>1. \A j \in 1 .. i : r[j] \in 1 .. N /\ A[tl[r[j]]][2] <= A[j][2]
    BY DEF Ranked
  <2>2. \A j \in 1 .. i : tl[r[j]] \in 1 .. i
    BY <1>5, <2>1
  <2>3. \A j \in 1 .. i : e[tl[r[j]]] = A[tl[r[j]]][2] /\ e[j] = A[j][2]
    BY <1>2, <2>2
  <2> HIDE DEF e, tl, N
  <2>4. QED BY <2>1, <2>3
<1>9. \A j \in 1 .. i :
        IF r[j] = 1 THEN pr[j] = 0
        ELSE pr[j] \in 1 .. j - 1 /\ r[pr[j]] = r[j] - 1 /\ e[pr[j]] < e[j]
  <2>1. \A j \in 1 .. i : r[j] # 1 =>
           pr[j] \in 1 .. j - 1 /\ r[pr[j]] = r[j] - 1 /\ A[pr[j]][2] < A[j][2]
    BY DEF Ranked
  <2>2. \A j \in 1 .. i : r[j] = 1 => pr[j] = 0
    BY DEF Ranked
  <2> HIDE DEF e, pr
  <2>3. SUFFICES ASSUME NEW j \in 1 .. i, r[j] # 1 PROVE e[pr[j]] < e[j]
    BY <2>1, <2>2
  <2>4. pr[j] \in 1 .. j - 1 /\ A[pr[j]][2] < A[j][2]
    BY <2>1, <2>3
  <2>5. pr[j] \in 1 .. i + 1 /\ j \in 1 .. i + 1
    BY <2>4
  <2>6. QED BY <1>2, <2>4, <2>5
<1>10. \A j, l \in 1 .. i : j < l /\ r[j] = r[l] => e[l] < e[j]
  BY <1>2 DEF Ranked
<1>11. h \in 0 .. N /\ \A a \in 1 .. N : e[tl[a]] < e[i + 1] <=> a <= h
  <2> DEFINE f == [a \in 1 .. N |-> e[tl[a]]]
  <2>1. f \in [1 .. N -> Nat] /\ A[i + 1][2] \in Nat /\ e[i + 1] = A[i + 1][2]
    <3>1. \A a \in 1 .. N : tl[a] \in 1 .. i + 1
      BY <1>5
    <3>2. \A a \in 1 .. N : e[tl[a]] \in Nat
      BY <1>2, <3>1
    <3>3. i + 1 \in 1 .. i + 1
      OBVIOUS
    <3> HIDE DEF e, tl, N
    <3>4. QED BY <1>2, <3>2, <3>3
  <2>2. \A a \in 1 .. N : A[P.tails[a]][2] = f[a] /\ f[a] = e[tl[a]]
    BY <1>2, <1>5
  <2>3. \A a, b \in 1 .. N : a < b => f[a] < f[b]
    BY <1>6
  <2> HIDE DEF N, f
  <2>4. /\ h \in 0 .. N /\ \A a \in 1 .. N : f[a] < A[i + 1][2] <=> a <= h
    BY <1>5, <2>1, <2>2, <2>3, PrecedesIs
  <2>5. QED BY <2>1, <2>2, <2>4
<1>12. /\ Q.tails = IF h = N THEN Append(tl, i + 1) ELSE [tl EXCEPT ![h + 1] = i + 1]
       /\ Q.prev = Append(pr, IF h = 0 THEN 0 ELSE tl[h])
  BY DEF Place
<1>13. Len(tl) = N
  OBVIOUS
<1> HIDE DEF Q, h, N, tl, pr, e
<1> DEFINE M == IF h = N THEN N + 1 ELSE N
<1>14. /\ Q.tails \in Seq(1 .. i + 1) /\ Len(Q.tails) = M /\ M \in Nat /\ h + 1 \in 1 .. M
       /\ Q.tails[h + 1] = i + 1
       /\ \A a \in 1 .. M : a # h + 1 => a \in 1 .. N /\ Q.tails[a] = tl[a]
  <2>1. tl \in Seq(1 .. i + 1)
    BY <1>4
  <2>2. CASE h = N
    <3>1. Q.tails = Append(tl, i + 1)
      BY <1>12, <2>2
    <3>2. /\ Append(tl, i + 1) \in Seq(1 .. i + 1) /\ Len(Append(tl, i + 1)) = N + 1
          /\ Append(tl, i + 1)[N + 1] = i + 1
          /\ \A a \in 1 .. N : Append(tl, i + 1)[a] = tl[a]
      BY <1>13, <2>1
    <3>3. QED BY <1>5, <1>11, <2>2, <3>1, <3>2
  <2>3. CASE h # N
    <3>1. Q.tails = [tl EXCEPT ![h + 1] = i + 1]
      BY <1>12, <2>3
    <3>2. h + 1 \in 1 .. N
      BY <1>5, <1>11, <2>3
    <3>3. Q.tails \in Seq(1 .. i + 1) /\ Len(Q.tails) = N
      BY <1>13, <2>1, <3>1, <3>2
    <3>4. QED BY <1>5, <1>11, <2>3, <3>1, <3>2, <3>3
  <2>4. QED BY <2>2, <2>3
<1>15. /\ Q.prev \in Seq(0 .. i + 1) /\ Len(Q.prev) = i + 1
       /\ Q.prev[i + 1] = IF h = 0 THEN 0 ELSE tl[h]
       /\ \A j \in 1 .. i : Q.prev[j] = pr[j]
  <2> DEFINE w == IF h = 0 THEN 0 ELSE tl[h]
  <2>1. w \in 0 .. i + 1
    <3>1. CASE h = 0
      BY <3>1
    <3>2. CASE h # 0
      <4>1. h \in 1 .. N
        BY <1>5, <1>11, <3>2
      <4>2. QED BY <1>5, <3>2, <4>1
    <3>3. QED BY <3>1, <3>2
  <2>2. pr \in Seq(0 .. i + 1) /\ Len(pr) = i
    BY <1>4
  <2>3. Q.prev = Append(pr, w)
    BY <1>12
  <2> HIDE DEF w
  <2>4. /\ Append(pr, w) \in Seq(0 .. i + 1) /\ Len(Append(pr, w)) = i + 1
        /\ Append(pr, w)[i + 1] = w /\ \A j \in 1 .. i : Append(pr, w)[j] = pr[j]
    BY <2>1, <2>2
  <2>5. QED BY <2>3, <2>4 DEF w
<1>16. z[i + 1] = h + 1 /\ \A j \in 1 .. i : z[j] = r[j] /\ r[j] \in 1 .. N
  BY <1>8
<1>17. z \in [1 .. i + 1 -> 1 .. M]
  <2>1. \A j \in 1 .. i + 1 : j # i + 1 => j \in 1 .. i
    OBVIOUS
  <2>2. \A a \in 1 .. N : a \in 1 .. M
    BY <1>5, <1>11
  <2> HIDE DEF M
  <2>3. \A j \in 1 .. i + 1 : z[j] \in 1 .. M
    BY <1>14, <1>16, <2>1, <2>2
  <2>4. QED BY <2>3
<1> HIDE DEF z, M
<1>18. \A j \in 1 .. i + 1 : j = i + 1 \/ j \in 1 .. i
  OBVIOUS
<1>19. ASSUME NEW a \in 1 .. M, NEW b \in 1 .. M, a < b PROVE e[Q.tails[a]] < e[Q.tails[b]]
  <2>1. CASE a = h + 1
    <3>1. b \in 1 .. N /\ Q.tails[b] = tl[b] /\ Q.tails[a] = i + 1 /\ ~(b <= h)
      BY <1>11, <1>14, <1>19, <2>1
    <3>2. ~(e[tl[b]] < e[i + 1])
      BY <1>11, <3>1
    <3>3. tl[b] \in 1 .. i
      BY <1>5, <3>1
    <3>4. e[tl[b]] \in Nat /\ e[i + 1] \in Nat /\ e[tl[b]] # e[i + 1]
      BY <1>2, <1>3, <3>3
    <3>5. QED BY <3>1, <3>2, <3>4
  <2>2. CASE b = h + 1
    <3>1. a # h + 1 /\ a <= h
      BY <1>11, <1>19, <2>2
    <3>2. a \in 1 .. N /\ Q.tails[a] = tl[a] /\ Q.tails[b] = i + 1
      BY <1>14, <2>2, <3>1
    <3>3. QED BY <1>11, <3>1, <3>2
  <2>3. CASE a # h + 1 /\ b # h + 1
    BY <1>6, <1>14, <1>19, <2>3
  <2>4. QED BY <2>1, <2>2, <2>3
<1>20. ASSUME NEW a \in 1 .. M PROVE z[Q.tails[a]] = a
  <2>1. CASE a = h + 1
    BY <1>14, <1>16, <2>1
  <2>2. CASE a # h + 1
    <3>1. a \in 1 .. N /\ Q.tails[a] = tl[a] /\ tl[a] \in 1 .. i
      BY <1>5, <1>14, <2>2
    <3>2. QED BY <1>7, <1>16, <3>1
  <2>3. QED BY <2>1, <2>2
<1>21. ASSUME NEW j \in 1 .. i, r[j] = h + 1 PROVE e[i + 1] < e[j]
  <2>1. r[j] \in 1 .. N /\ e[tl[r[j]]] <= e[j] /\ ~(r[j] <= h) /\ tl[r[j]] \in 1 .. i
    BY <1>5, <1>8, <1>11, <1>21
  <2>2. ~(e[tl[r[j]]] < e[i + 1])
    BY <1>11, <2>1
  <2>3. e[tl[r[j]]] \in Nat /\ e[i + 1] \in Nat /\ e[j] \in Nat /\ e[j] # e[i + 1]
    BY <1>2, <1>3, <2>1
  <2>4. QED BY <2>1, <2>2, <2>3
<1>22. ASSUME NEW j \in 1 .. i + 1 PROVE e[Q.tails[z[j]]] <= e[j]
  <2>1. CASE j = i + 1
    <3>1. Q.tails[z[j]] = j /\ e[j] \in Nat
      BY <1>2, <1>14, <1>16, <2>1
    <3>2. QED BY <3>1
  <2>2. CASE j # i + 1 /\ r[j] = h + 1
    <3>1. j \in 1 .. i /\ Q.tails[z[j]] = i + 1 /\ e[i + 1] \in Nat /\ e[j] \in Nat
      BY <1>2, <1>14, <1>16, <1>18, <2>2
    <3>2. e[i + 1] < e[j]
      BY <1>21, <2>2, <3>1
    <3>3. QED BY <3>1, <3>2
  <2>3. CASE j # i + 1 /\ r[j] # h + 1
    <3>1. j \in 1 .. i /\ z[j] = r[j]
      BY <1>16, <1>18, <2>3
    <3>2. z[j] \in 1 .. M
      BY <1>17
    <3>3. Q.tails[z[j]] = tl[r[j]]
      BY <1>14, <2>3, <3>1, <3>2
    <3>4. QED BY <1>8, <3>1, <3>3
  <2>4. QED BY <2>1, <2>2, <2>3
<1>23. ASSUME NEW j \in 1 .. i + 1
       PROVE  IF z[j] = 1 THEN Q.prev[j] = 0
              ELSE Q.prev[j] \in 1 .. j - 1 /\ z[Q.prev[j]] = z[j] - 1 /\ e[Q.prev[j]] < e[j]
  <2>1. CASE j = i + 1
    <3>1. CASE h = 0
      BY <1>15, <1>16, <2>1, <3>1
    <3>2. CASE h # 0
      <4>1. h \in 1 .. N /\ Q.prev[j] = tl[h] /\ z[j] = h + 1
        BY <1>5, <1>11, <1>15, <1>16, <2>1, <3>2
      <4>2. tl[h] \in 1 .. i /\ r[tl[h]] = h
        BY <1>5, <1>7, <4>1
      <4>3. e[tl[h]] < e[i + 1]
        BY <1>11, <4>1
      <4>4. z[tl[h]] = h
        BY <1>16, <4>2
      <4>5. QED BY <2>1, <4>1, <4>2, <4>3, <4>4
    <3>3. QED BY <3>1, <3>2
  <2>2. CASE j # i + 1
    <3>1. j \in 1 .. i /\ z[j] = r[j] /\ Q.prev[j] = pr[j] /\ r[j] \in 1 .. N
      BY <1>15, <1>16, <1>18, <2>2
    <3>2. CASE r[j] = 1
      BY <1>9, <3>1, <3>2
    <3>3. CASE r[j] # 1
      <4>1. pr[j] \in 1 .. j - 1 /\ r[pr[j]] = r[j] - 1 /\ e[pr[j]] < e[j]
        BY <1>9, <3>1, <3>3
      <4>2. pr[j] \in 1 .. i
        BY <3>1, <4>1
      <4>3. z[pr[j]] = r[pr[j]]
        BY <1>16, <4>2
      <4>4. QED BY <3>1, <3>3, <4>1, <4>3
    <3>4. QED BY <3>2, <3>3
  <2>3. QED BY <2>1, <2>2
<1>24. ASSUME NEW j \in 1 .. i + 1, NEW l \in 1 .. i + 1, j < l, z[j] = z[l] PROVE e[l] < e[j]
  <2>1. j \in 1 .. i /\ z[j] = r[j]
    BY <1>16, <1>18, <1>24
  <2>2. CASE l = i + 1
    BY <1>16, <1>21, <1>24, <2>1, <2>2
  <2>3. CASE l # i + 1
    BY <1>10, <1>16, <1>18, <1>24, <2>1, <2>3
  <2>4. QED BY <2>2, <2>3
<1>25. \A a \in 1 .. M : Q.tails[a] \in 1 .. i + 1
  BY <1>14
<1>26. \A a, b \in 1 .. M : a < b => A[Q.tails[a]][2] < A[Q.tails[b]][2]
  <2>1. SUFFICES ASSUME NEW a \in 1 .. M, NEW b \in 1 .. M, a < b
                 PROVE  A[Q.tails[a]][2] < A[Q.tails[b]][2]
    OBVIOUS
  <2>2. e[Q.tails[a]] < e[Q.tails[b]]
    BY <1>19, <2>1
  <2>3. e[Q.tails[a]] = A[Q.tails[a]][2] /\ e[Q.tails[b]] = A[Q.tails[b]][2]
    BY <1>2, <1>25
  <2>4. QED BY <2>2, <2>3
<1>27. \A j \in 1 .. i + 1 : A[Q.tails[z[j]]][2] <= A[j][2]
  <2>1. SUFFICES ASSUME NEW j \in 1 .. i + 1 PROVE A[Q.tails[z[j]]][2] <= A[j][2]
    OBVIOUS
  <2>2. Q.tails[z[j]] \in 1 .. i + 1
    BY <1>17, <1>25
  <2>3. e[Q.tails[z[j]]] = A[Q.tails[z[j]]][2] /\ e[j] = A[j][2]
    BY <1>2, <2>2
  <2>4. QED BY <1>22, <2>3
<1>28. \A j \in 1 .. i + 1 :
         IF z[j] = 1 THEN Q.prev[j] = 0
         ELSE Q.prev[j] \in 1 .. j - 1 /\ z[Q.prev[j]] = z[j] - 1 /\ A[Q.prev[j]][2] < A[j][2]
  <2>1. SUFFICES ASSUME NEW j \in 1 .. i + 1, z[j] # 1
                 PROVE  /\ Q.prev[j] \in 1 .. j - 1 /\ z[Q.prev[j]] = z[j] - 1
                        /\ A[Q.prev[j]][2] < A[j][2]
    BY <1>23
  <2>2. Q.prev[j] \in 1 .. j - 1 /\ z[Q.prev[j]] = z[j] - 1 /\ e[Q.prev[j]] < e[j]
    BY <1>23, <2>1
  <2>3. Q.prev[j] \in 1 .. i + 1
    BY <2>2
  <2>4. e[Q.prev[j]] = A[Q.prev[j]][2] /\ e[j] = A[j][2]
    BY <1>2, <2>3
  <2>5. QED BY <2>2, <2>4
<1>29. \A j, l \in 1 .. i + 1 : j < l /\ z[j] = z[l] => A[l][2] < A[j][2]
  BY <1>2, <1>24
<1>30. Ranked(A, i + 1, Q, z)
  BY <1>14, <1>15, <1>17, <1>20, <1>26, <1>27, <1>28, <1>29 DEF Ranked
<1>31. QED BY <1>30 DEF Q

Placings(L) == [tails : Seq(0 .. L), prev : Seq(0 .. L)]

\* A placed anchor leaves positions in both lists.
LEMMA PlaceType ==
    ASSUME NEW A, NEW L \in Nat, NEW i \in 0 .. L, NEW w, w \in Placings(L)
    PROVE  Place(w, A, i) \in Placings(L)
<1> DEFINE h == Cardinality(Precedes(w, A, i))
           tl == w.tails
           p == IF h = 0 THEN 0 ELSE tl[h]
<1>1. tl \in Seq(0 .. L) /\ w.prev \in Seq(0 .. L)
  BY DEF Placings
<1>2. Len(tl) \in Nat /\ DOMAIN tl = 1 .. Len(tl) /\ \A a \in 1 .. Len(tl) : tl[a] \in 0 .. L
  BY <1>1
<1>3. h \in 0 .. Len(tl)
  <2>1. Precedes(w, A, i) \in SUBSET (1 .. Len(tl))
    BY <1>2 DEF Precedes
  <2> DEFINE I == 1 .. Len(tl)
  <2>2. IsFiniteSet(I) /\ Cardinality(I) = Len(tl)
    <3>1. 1 \in Int /\ Len(tl) \in Int /\ (1 > Len(tl) => Len(tl) = 0)
      BY <1>2
    <3> HIDE DEF tl
    <3>2. IsFiniteSet(I) /\ Cardinality(I) = IF 1 > Len(tl) THEN 0 ELSE Len(tl) - 1 + 1
      BY <3>1, FS_Interval
    <3>3. QED BY <3>1, <3>2
  <2>3. Precedes(w, A, i) \in SUBSET I
    BY <2>1
  <2> HIDE DEF I
  <2>4. IsFiniteSet(Precedes(w, A, i)) /\ h <= Len(tl)
    BY <2>2, <2>3, FS_Subset
  <2>5. h \in Nat
    BY <2>4, FS_CardinalityType
  <2> HIDE DEF h
  <2>6. QED BY <1>2, <2>4, <2>5
<1>4. /\ Place(w, A, i).tails = IF h = Len(tl) THEN Append(tl, i) ELSE [tl EXCEPT ![h + 1] = i]
      /\ Place(w, A, i).prev = Append(w.prev, p)
      /\ Place(w, A, i) = [tails |-> Place(w, A, i).tails, prev |-> Place(w, A, i).prev]
  BY DEF Place
<1> HIDE DEF h, tl
<1>5. p \in 0 .. L
  <2>1. CASE h = 0
    BY <2>1
  <2>2. CASE h # 0
    <3>1. h \in 1 .. Len(tl)
      BY <1>2, <1>3, <2>2
    <3>2. QED BY <1>2, <2>2, <3>1
  <2>3. QED BY <2>1, <2>2
<1> HIDE DEF p
<1>6. Append(w.prev, p) \in Seq(0 .. L)
  BY <1>1, <1>5
<1>7. Append(tl, i) \in Seq(0 .. L)
  BY <1>1
<1>8. h # Len(tl) => [tl EXCEPT ![h + 1] = i] \in Seq(0 .. L)
  <2>1. SUFFICES ASSUME h # Len(tl) PROVE [tl EXCEPT ![h + 1] = i] \in Seq(0 .. L)
    OBVIOUS
  <2>2. h + 1 \in 1 .. Len(tl)
    <3>1. Len(tl) \in Nat /\ h \in 0 .. Len(tl) /\ h # Len(tl)
      BY <1>2, <1>3, <2>1, Zenon
    <3> DEFINE len == Len(tl)
    <3>2. len \in Nat /\ h \in 0 .. len /\ h # len
      BY <3>1
    <3> HIDE DEF len
    <3>3. h + 1 \in 1 .. len
      BY <3>2
    <3>4. QED BY <3>3, SMTT(30) DEF len
  <2>3. QED BY <1>1, <2>2, ExceptSeq
<1>9. Place(w, A, i).tails \in Seq(0 .. L) /\ Place(w, A, i).prev \in Seq(0 .. L)
  BY <1>4, <1>6, <1>7, <1>8
<1>10. QED BY <1>4, <1>9 DEF Placings

\* Placed goes through the anchors one by one.
LEMMA PlacedIs ==
    ASSUME NEW A, Climbs(A)
    PROVE  \E r : Ranked(A, Len(A), Placed(A), r)
<1> DEFINE L == Len(A)
           X == 0 .. L
           S == Placings(L)
           none == [tails |-> << >>, prev |-> << >>]
           Step == [p \in X \X S |-> Place(p[2], A, p[1])]
           body(f) == [i \in X |-> IF i = 0 THEN none ELSE Place(f[i - 1], A, i)]
<1>1. L \in Nat
  BY DEF Climbs
<1>2. none \in S
  BY DEF Placings
<1> HIDE DEF none
<1>3. Step \in [X \X S -> S]
  <2>1. \A i \in X, w \in S : Place(w, A, i) \in S
    <3> HIDE DEF L
    <3>1. QED BY <1>1, PlaceType
  <2> HIDE DEF S
  <2>2. QED BY <2>1
<1>4. \A i \in X, w \in S : Step[<<i, w>>] = Place(w, A, i)
  <2> HIDE DEF S
  <2>1. QED OBVIOUS
<1> HIDE DEF Step, S
<1>5. Countings(0, L, S, none, Step) # {}
  <2>1. 0 \in Int /\ L \in Int
    BY <1>1
  <2> HIDE DEF L
  <2>2. QED BY <1>2, <1>3, <2>1, CountingHasValue
<1>6. PICK f \in [X -> S] :
        \A i \in X : f[i] = IF i = 0 THEN none ELSE Step[<<i, f[i - 1]>>]
  BY <1>5 DEF Countings
<1>7. f = body(f)
  <2>1. f = [i \in X |-> f[i]]
    BY <1>6
  <2>2. \A i \in X : i # 0 => i - 1 \in X
    BY <1>1
  <2>3. \A i \in X : f[i] = IF i = 0 THEN none ELSE Place(f[i - 1], A, i)
    BY <1>4, <1>6, <2>2
  <2>4. QED BY <2>1, <2>3
<1> DEFINE G == CHOOSE g : g = body(g)
<1>8. G = body(G)
  BY <1>7, Zenon
<1>9. Placed(A) = G[L]
  BY DEF Placed, none
<1> HIDE DEF G
<1>10. G[0] = none /\ \A i \in X : i # 0 => G[i] = Place(G[i - 1], A, i)
  <2>1. 0 \in X
    BY <1>1
  <2>2. \A i \in X : body(G)[i] = IF i = 0 THEN none ELSE Place(G[i - 1], A, i)
    OBVIOUS
  <2> HIDE DEF body, X
  <2>3. QED BY <1>8, <2>1, <2>2
<1> DEFINE T == { i \in Nat : i <= L => \E r : Ranked(A, i, G[i], r) }
<1>11. 0 \in T
  <2> DEFINE r == [i \in {} |-> i]
  <2>1. 1 .. 0 = {} /\ Len(<< >>) = 0 /\ << >> \in Seq(1 .. 0) /\ << >> \in Seq(0 .. 0)
    OBVIOUS
  <2>2. none.tails = << >> /\ none.prev = << >>
    BY DEF none
  <2>3. r \in [1 .. 0 -> 1 .. 0]
    BY <2>1
  <2> HIDE DEF r
  <2>4. Ranked(A, 0, none, r)
    BY <2>1, <2>2, <2>3 DEF Ranked
  <2>5. QED BY <1>10, <2>4
<1>12. ASSUME NEW i \in T PROVE i + 1 \in T
  <2>1. SUFFICES ASSUME i \in Nat, i + 1 <= L PROVE \E z : Ranked(A, i + 1, G[i + 1], z)
    OBVIOUS
  <2>2. PICK r : Ranked(A, i, G[i], r)
    BY <1>1, <2>1
  <2>3. \E z : Ranked(A, i + 1, Place(G[i], A, i + 1), z)
    <3>1. i < Len(A)
      BY <1>1, <2>1
    <3>2. QED BY <2>1, <2>2, <3>1, PlaceRanks
  <2>4. G[i + 1] = Place(G[i], A, i + 1)
    <3>1. i + 1 \in X /\ i + 1 # 0 /\ (i + 1) - 1 = i
      BY <1>1, <2>1
    <3>2. QED BY <1>10, <3>1
  <2>5. QED BY <2>3, <2>4
<1>13. T \subseteq Nat
  OBVIOUS
<1> HIDE DEF T
<1>14. T = Nat
  BY <1>11, <1>12, <1>13, NatSetInduction
<1>15. L \in T
  BY <1>1, <1>14
<1>16. QED BY <1>1, <1>9, <1>15 DEF T

\* A chain of anchors: each stands ahead of the one before on both sides.
IsChain(c, A) ==
    /\ c \in Seq(Nat \X Nat)
    /\ \A a \in 1 .. Len(c) : \E j \in 1 .. Len(A) : c[a] = A[j]
    /\ \A a, b \in 1 .. Len(c) : a < b => c[a][1] < c[b][1] /\ c[a][2] < c[b][2]

\* An anchor further ahead on both sides continues a chain.
LEMMA ChainAppend ==
    ASSUME NEW A, Climbs(A), NEW c, IsChain(c, A), NEW i \in 1 .. Len(A),
           \A a \in 1 .. Len(c) : c[a][1] < A[i][1] /\ c[a][2] < A[i][2]
    PROVE  IsChain(Append(c, A[i]), A) /\ Len(Append(c, A[i])) = Len(c) + 1
<1> DEFINE q == Append(c, A[i])
           N == Len(c)
<1>1. c \in Seq(Nat \X Nat) /\ A[i] \in Nat \X Nat
  BY DEF Climbs, IsChain
<1>2. N \in Nat /\ q \in Seq(Nat \X Nat) /\ Len(q) = N + 1 /\ q[N + 1] = A[i]
      /\ \A a \in 1 .. N : q[a] = c[a]
  BY <1>1, AppendProperties
<1> HIDE DEF q
<1>3. \A a \in 1 .. N + 1 : a = N + 1 \/ a \in 1 .. N
  BY <1>2
<1>4. \A a \in 1 .. N : \E j \in 1 .. Len(A) : c[a] = A[j]
  BY DEF IsChain
<1>5. \A a, b \in 1 .. N : a < b => c[a][1] < c[b][1] /\ c[a][2] < c[b][2]
  BY DEF IsChain
<1> HIDE DEF N
<1>6. \A a \in 1 .. N + 1 : \E j \in 1 .. Len(A) : q[a] = A[j]
  BY <1>2, <1>3, <1>4
<1>7. ASSUME NEW a \in 1 .. N + 1, NEW b \in 1 .. N + 1, a < b
      PROVE  q[a][1] < q[b][1] /\ q[a][2] < q[b][2]
  <2>0. a # N + 1
    <3>1. N \in Nat
      BY <1>2
    <3>2. QED BY <1>7, <3>1
  <2>1. a \in 1 .. N /\ q[a] = c[a]
    BY <1>2, <1>3, <2>0
  <2>2. CASE b = N + 1
    <3>1. c[a][1] < A[i][1] /\ c[a][2] < A[i][2]
      BY <2>1 DEF N
    <3>2. QED BY <1>2, <2>1, <2>2, <3>1
  <2>3. CASE b # N + 1
    <3>1. b \in 1 .. N /\ q[b] = c[b]
      BY <1>2, <1>3, <2>3
    <3>2. QED BY <1>5, <1>7, <2>1, <3>1
  <2>4. QED BY <2>2, <2>3
<1>8. IsChain(q, A)
  BY <1>2, <1>6, <1>7 DEF IsChain
<1>9. QED BY <1>2, <1>8 DEF q, N

\* The chain that ends in an anchor has the length of its rank.
LEMMA EndingIs ==
    ASSUME NEW A, Climbs(A), NEW P, NEW r, Ranked(A, Len(A), P, r), NEW g,
           g[0] = << >>,
           \A i \in 1 .. Len(A) : g[i] = Append(g[P.prev[i]], A[i])
    PROVE  \A i \in 1 .. Len(A) :
             /\ IsChain(g[i], A) /\ Len(g[i]) = r[i]
             /\ \A a \in 1 .. Len(g[i]) : g[i][a][1] <= A[i][1] /\ g[i][a][2] <= A[i][2]
<1> DEFINE L == Len(A)
           Good(i) ==
             /\ IsChain(g[i], A) /\ Len(g[i]) = r[i]
             /\ \A a \in 1 .. Len(g[i]) : g[i][a][1] <= A[i][1] /\ g[i][a][2] <= A[i][2]
           Bad == { i \in 1 .. L : ~Good(i) }
<1>1. L \in Nat /\ \A i \in 1 .. L : A[i] \in Nat \X Nat
  BY DEF Climbs
<1>2. \A i, j \in 1 .. L : i < j => A[i][1] < A[j][1]
  BY DEF Climbs
<1>3. \A i \in 1 .. L : A[i][1] \in Nat /\ A[i][2] \in Nat
  BY <1>1
<1>4. \A i \in 1 .. L :
        IF r[i] = 1 THEN P.prev[i] = 0
        ELSE P.prev[i] \in 1 .. i - 1 /\ r[P.prev[i]] = r[i] - 1 /\ A[P.prev[i]][2] < A[i][2]
  BY DEF Ranked
<1>5. \A i \in 1 .. L : r[i] \in Nat
  <2>1. r \in [1 .. L -> 1 .. Len(P.tails)]
    BY DEF Ranked
  <2>2. QED BY <2>1
<1> HIDE DEF L
<1>6. SUFFICES ASSUME Bad # {} PROVE FALSE
  BY DEF L
<1>7. PICK i \in Bad : \A j \in Bad : i <= j
  <2>1. Bad \subseteq Nat
    OBVIOUS
  <2> HIDE DEF Bad
  <2>2. QED BY <1>6, <2>1, LeastNatural
<1>8. i \in 1 .. L /\ ~Good(i) /\ i \in Nat
  OBVIOUS
<1>9. \A j \in 1 .. i - 1 : Good(j)
  <2>1. \A j \in 1 .. i - 1 : j \in 1 .. L /\ j \notin Bad
    <3> HIDE DEF Bad
    <3>1. QED BY <1>1, <1>7, <1>8
  <2>2. QED BY <2>1
<1> HIDE DEF Bad
<1> DEFINE c == g[P.prev[i]]
<1>10. g[i] = Append(c, A[i])
  BY <1>8 DEF L
<1>11. /\ IsChain(c, A) /\ Len(c) + 1 = r[i]
       /\ \A a \in 1 .. Len(c) : c[a][1] < A[i][1] /\ c[a][2] < A[i][2]
  <2>1. CASE r[i] = 1
    <3>1. c = << >>
      BY <1>4, <1>8, <2>1
    <3>2. IsChain(<< >>, A) /\ Len(<< >>) = 0
      BY DEF IsChain
    <3>3. QED BY <2>1, <3>1, <3>2
  <2>2. CASE r[i] # 1
    <3> DEFINE p == P.prev[i]
    <3>1. p \in 1 .. i - 1 /\ r[p] = r[i] - 1 /\ A[p][2] < A[i][2]
      BY <1>4, <1>8, <2>2
    <3> HIDE DEF p
    <3>2. p \in 1 .. L /\ p < i
      BY <1>1, <1>8, <3>1
    <3>3. Good(p)
      BY <1>9, <3>1
    <3>4. A[p][1] < A[i][1]
      BY <1>2, <1>8, <3>2
    <3>5. c = g[p]
      BY DEF p
    <3> HIDE DEF c
    <3>6. IsChain(c, A) /\ Len(c) = r[p] /\ \A a \in 1 .. Len(c) : c[a][1] <= A[p][1] /\ c[a][2] <= A[p][2]
      BY <3>3, <3>5
    <3>7. \A a \in 1 .. Len(c) : c[a] \in Nat \X Nat
      BY <3>6 DEF IsChain
    <3>8. ASSUME NEW a \in 1 .. Len(c) PROVE c[a][1] < A[i][1] /\ c[a][2] < A[i][2]
      <4>1. c[a][1] \in Nat /\ c[a][2] \in Nat
        BY <3>7
      <4>2. c[a][1] <= A[p][1] /\ c[a][2] <= A[p][2]
        BY <3>6
      <4>3. A[p][1] \in Nat /\ A[p][2] \in Nat /\ A[i][1] \in Nat /\ A[i][2] \in Nat
        BY <1>3, <1>8, <3>2
      <4>4. A[p][2] < A[i][2]
        BY <3>1
      <4>5. QED BY <3>4, <4>1, <4>2, <4>3, <4>4, SMTT(30)
    <3>9. r[i] \in Nat
      BY <1>5, <1>8
    <3>10. QED BY <3>1, <3>6, <3>8, <3>9
  <2>3. QED BY <2>1, <2>2
<1> HIDE DEF c
<1>12. IsChain(g[i], A) /\ Len(g[i]) = r[i]
  BY <1>8, <1>10, <1>11, ChainAppend DEF L
<1>13. \A a \in 1 .. Len(g[i]) : g[i][a][1] <= A[i][1] /\ g[i][a][2] <= A[i][2]
  <2>1. c \in Seq(Nat \X Nat) /\ A[i] \in Nat \X Nat
    BY <1>1, <1>8, <1>11 DEF IsChain
  <2>2. /\ Len(c) \in Nat /\ Len(g[i]) = Len(c) + 1 /\ g[i][Len(c) + 1] = A[i]
        /\ \A a \in 1 .. Len(c) : g[i][a] = c[a] /\ c[a] \in Nat \X Nat
    BY <1>10, <2>1
  <2>3. SUFFICES ASSUME NEW a \in 1 .. Len(g[i])
                 PROVE  g[i][a][1] <= A[i][1] /\ g[i][a][2] <= A[i][2]
    OBVIOUS
  <2>4. A[i][1] \in Nat /\ A[i][2] \in Nat
    BY <1>3, <1>8
  <2>5. CASE a = Len(c) + 1
    BY <2>2, <2>4, <2>5
  <2>6. CASE a # Len(c) + 1
    <3>1. a \in 1 .. Len(c) /\ g[i][a] = c[a] /\ c[a] \in Nat \X Nat
      BY <2>2, <2>6
    <3>2. c[a][1] < A[i][1] /\ c[a][2] < A[i][2] /\ c[a][1] \in Nat /\ c[a][2] \in Nat
      BY <1>11, <3>1
    <3>3. QED BY <2>4, <3>1, <3>2
  <2>7. QED BY <2>5, <2>6
<1>14. QED BY <1>8, <1>12, <1>13

\* Ranks up to the length of a chain, each falling in the new text.
RanksFor(A, c, r) ==
    /\ r \in [1 .. Len(A) -> 1 .. Len(c)]
    /\ \A j, l \in 1 .. Len(A) : j < l /\ r[j] = r[l] => A[l][2] < A[j][2]

\* The chain kept is a chain, and every anchor has a rank no higher than its
\* length.
LEMMA ChainKept ==
    ASSUME NEW A, Climbs(A)
    PROVE  /\ IsChain(longest_increasing_subsequence(A), A)
           /\ \E r : RanksFor(A, longest_increasing_subsequence(A), r)
<1> DEFINE L == Len(A)
           P == Placed(A)
           X == 0 .. L
           S == Seq(Nat \X Nat)
           Value == [i \in X |-> << >>]
           Succ == [i \in X |-> IF i = 0 THEN 0 ELSE P.prev[i]]
           Step == [p \in X \X S |-> IF p[1] = 0 THEN << >> ELSE Append(p[2], A[p[1]])]
           Measure == [i \in X |-> i]
           body(f) == [i \in X |-> IF i = 0 THEN << >> ELSE Append(f[P.prev[i]], A[i])]
<1>1. L \in Nat /\ A \in S /\ \A i \in 1 .. L : A[i] \in Nat \X Nat
  BY DEF Climbs
<1>2. PICK r : Ranked(A, L, P, r)
  BY PlacedIs
<1>3. CASE A = << >>
  <2>1. longest_increasing_subsequence(A) = << >> /\ L = 0
    BY <1>3 DEF longest_increasing_subsequence
  <2>2. IsChain(<< >>, A) /\ 1 .. 0 = {} /\ Len(<< >>) = 0
    BY DEF IsChain
  <2> DEFINE z == [i \in {} |-> i]
  <2>3. z \in [1 .. 0 -> 1 .. 0]
    BY <2>2
  <2> HIDE DEF z
  <2>4. RanksFor(A, << >>, z)
    BY <2>1, <2>2, <2>3 DEF RanksFor
  <2>5. QED BY <2>1, <2>2, <2>4
<1>4. CASE A # << >>
  <2>1. \A i \in 1 .. L : P.prev[i] \in 0 .. i - 1
    <3>1. \A i \in 1 .. L : IF r[i] = 1 THEN P.prev[i] = 0 ELSE P.prev[i] \in 1 .. i - 1
      BY <1>2 DEF Ranked
    <3> HIDE DEF P, L
    <3>2. \A i \in 1 .. L : P.prev[i] = 0 \/ P.prev[i] \in 1 .. i - 1
      BY <3>1
    <3>3. QED BY <1>1, <3>2
  <2>2. Value \in [X -> S] /\ Measure \in [X -> Nat]
    OBVIOUS
  <2>3. Succ \in [X -> X] /\ \A i \in X : Succ[i] = IF i = 0 THEN 0 ELSE P.prev[i]
    <3> HIDE DEF P, L
    <3>1. \A i \in X : (IF i = 0 THEN 0 ELSE P.prev[i]) \in X
      BY <1>1, <2>1
    <3>2. QED BY <3>1
  <2>4. Descends(X, {0}, Succ, Measure)
    <3> HIDE DEF P, L, Succ
    <3>0. L \in Nat
      BY <1>1
    <3>1. ASSUME NEW i \in X, i # 0 PROVE Succ[i] \in X /\ Succ[i] < i
      <4>1. i \in 1 .. L /\ i \in Nat
        BY <3>0, <3>1
      <4>2. Succ[i] \in 0 .. i - 1
        BY <2>1, <2>3, <3>1, <4>1
      <4>3. QED BY <3>0, <4>1, <4>2
    <3>2. QED BY <3>1 DEF Descends
  <2>5. Step \in [X \X S -> S]
    <3>1. \A i \in X, w \in S : i # 0 => Append(w, A[i]) \in S
      BY <1>1
    <3>2. << >> \in S
      OBVIOUS
    <3> HIDE DEF S
    <3>3. QED BY <3>1, <3>2
  <2>6. \A i \in X, w \in S : i # 0 => Step[<<i, w>>] = Append(w, A[i])
    <3> HIDE DEF S
    <3>1. QED OBVIOUS
  <2>7. \A i \in X : Value[i] = << >>
    OBVIOUS
  <2> HIDE DEF Step, S, Value, Succ, Measure
  <2>8. Solutions(X, S, {0}, Value, Succ, Step) # {}
    <3> HIDE DEF X
    <3>1. QED BY <2>2, <2>3, <2>4, <2>5, RecursionHasValue
  <2>9. PICK f \in [X -> S] :
          \A i \in X : f[i] = IF i \in {0} THEN Value[i] ELSE Step[<<i, f[Succ[i]]>>]
    BY <2>8 DEF Solutions
  <2>10. f = body(f)
    <3>1. f = [i \in X |-> f[i]]
      BY <2>9
    <3>2. \A i \in X : f[i] = IF i = 0 THEN << >> ELSE Append(f[P.prev[i]], A[i])
      <4>1. SUFFICES ASSUME NEW i \in X, i # 0 PROVE f[i] = Append(f[P.prev[i]], A[i])
        BY <2>7, <2>9
      <4>2. Succ[i] = P.prev[i] /\ f[Succ[i]] \in S
        BY <2>3, <2>9, <4>1
      <4>3. f[i] = Step[<<i, f[Succ[i]]>>]
        BY <2>9, <4>1
      <4> HIDE DEF P, X
      <4>4. QED BY <2>6, <4>1, <4>2, <4>3
    <3> HIDE DEF P, X
    <3>3. QED BY <3>1, <3>2
  <2> DEFINE G == CHOOSE g : g = body(g)
             M == Len(P.tails)
  <2>11. G = body(G)
    BY <2>10, Zenon
  <2>12. longest_increasing_subsequence(A) = G[P.tails[M]]
    BY <1>4 DEF longest_increasing_subsequence, Last
  <2> HIDE DEF G
  <2>13. G[0] = << >> /\ \A i \in 1 .. L : G[i] = Append(G[P.prev[i]], A[i])
    <3>1. 0 \in X /\ \A i \in 1 .. L : i \in X /\ i # 0
      BY <1>1
    <3>2. \A i \in X : body(G)[i] = IF i = 0 THEN << >> ELSE Append(G[P.prev[i]], A[i])
      OBVIOUS
    <3> HIDE DEF body, X, P, L
    <3>3. QED BY <2>11, <3>1, <3>2
  <2> HIDE DEF body
  <2>14. \A i \in 1 .. L : IsChain(G[i], A) /\ Len(G[i]) = r[i]
    <3> HIDE DEF P
    <3>1. QED BY <1>2, <2>13, EndingIs
  <2>15. M \in Nat /\ M # 0 /\ P.tails[M] \in 1 .. L
    <3>1. P.tails \in Seq(1 .. L)
      BY <1>2 DEF Ranked
    <3>2. M \in Nat /\ (M # 0 => P.tails[M] \in 1 .. L)
      BY <3>1
    <3>3. L # 0
      BY <1>1, <1>4
    <3>4. 1 \in 1 .. L
      BY <1>1, <3>3
    <3>5. r \in [1 .. L -> 1 .. M]
      BY <1>2 DEF Ranked
    <3> HIDE DEF M, L, P
    <3>6. r[1] \in 1 .. M
      BY <3>4, <3>5
    <3>7. QED BY <3>2, <3>6
  <2>16. r[P.tails[M]] = M
    <3>1. \A a \in 1 .. M : r[P.tails[a]] = a
      BY <1>2 DEF Ranked
    <3> HIDE DEF M, P
    <3>2. QED BY <2>15, <3>1
  <2> DEFINE c == longest_increasing_subsequence(A)
  <2>17. IsChain(c, A) /\ Len(c) = M
    <3> HIDE DEF M, P
    <3>1. QED BY <2>12, <2>14, <2>15, <2>16
  <2>18. RanksFor(A, c, r)
    <3>1. r \in [1 .. L -> 1 .. M] /\ \A j, l \in 1 .. L : j < l /\ r[j] = r[l] => A[l][2] < A[j][2]
      BY <1>2 DEF Ranked
    <3> HIDE DEF M, P, c
    <3>2. QED BY <2>17, <3>1 DEF RanksFor
  <2>19. QED BY <2>17, <2>18
<1>5. QED BY <1>3, <1>4

\* No ordered set of anchors is longer than the chain.
LEMMA ChainLongest ==
    ASSUME NEW A, Climbs(A), NEW c, NEW r, RanksFor(A, c, r), Len(c) \in Nat,
           NEW C, C \subseteq Range(A), \A p, q \in C : p[1] < q[1] => p[2] < q[2]
    PROVE  Cardinality(C) <= Len(c)
<1> DEFINE N == Len(c)
           L == Len(A)
           At(p) == CHOOSE j \in 1 .. L : A[j] = p
           f == [p \in C |-> r[At(p)]]
<1>1. \A p \in C : At(p) \in 1 .. L /\ A[At(p)] = p
  <2>1. DOMAIN A = 1 .. L
    BY DEF Climbs
  <2>2. \A p \in C : \E j \in 1 .. L : A[j] = p
    BY <2>1 DEF Range
  <2>3. QED BY <2>2
<1>2. \A p \in C : p[1] \in Nat /\ p[2] \in Nat
  <2>1. \A j \in 1 .. L : A[j][1] \in Nat /\ A[j][2] \in Nat
    <3>1. \A j \in 1 .. L : A[j] \in Nat \X Nat
      BY DEF Climbs
    <3>2. QED BY <3>1
  <2> HIDE DEF At
  <2>2. QED BY <1>1, <2>1
<1>3. \A j, l \in 1 .. L : j < l => A[j][1] < A[l][1]
  BY DEF Climbs
<1>4. /\ r \in [1 .. L -> 1 .. N]
      /\ \A j, l \in 1 .. L : j < l /\ r[j] = r[l] => A[l][2] < A[j][2]
  BY DEF RanksFor
<1>5. L \in Nat
  BY DEF Climbs
<1> HIDE DEF At, L
<1>6. f \in [C -> 1 .. N] /\ \A p \in C : f[p] = r[At(p)]
  BY <1>1, <1>4
<1> HIDE DEF f
<1>7. ASSUME NEW p \in C, NEW q \in C, r[At(p)] = r[At(q)], At(p) < At(q) PROVE FALSE
  <2>1. p[1] < q[1]
    BY <1>1, <1>3, <1>7
  <2>2. p[2] < q[2]
    BY <2>1
  <2>3. q[2] < p[2]
    BY <1>1, <1>4, <1>7
  <2>4. QED BY <1>2, <2>2, <2>3
<1>8. ASSUME NEW p \in C, NEW q \in C, f[p] = f[q] PROVE p = q
  <2>1. r[At(p)] = r[At(q)]
    BY <1>6, <1>8
  <2>2. ~(At(p) < At(q)) /\ ~(At(q) < At(p))
    BY <1>7, <2>1
  <2>3. At(p) \in Nat /\ At(q) \in Nat
    BY <1>1, <1>5
  <2>4. At(p) = At(q)
    BY <2>2, <2>3
  <2>5. QED BY <1>1, <2>4
<1> DEFINE I == 1 .. N
<1>9. IsFiniteSet(I) /\ Cardinality(I) = N
  <2>1. 1 \in Int /\ N \in Int /\ (1 > N => N = 0)
    OBVIOUS
  <2> HIDE DEF N
  <2>2. IsFiniteSet(I) /\ Cardinality(I) = IF 1 > N THEN 0 ELSE N - 1 + 1
    BY <2>1, FS_Interval
  <2>3. QED BY <2>1, <2>2
<1> HIDE DEF I
<1>10. f \in [C -> I]
  BY <1>6 DEF I
<1>11. f \in Injection(C, I)
  BY <1>8, <1>10 DEF Injection, IsInjective
<1>12. Cardinality(C) <= Cardinality(I)
  BY <1>9, <1>11, FS_Injection
<1>13. QED BY <1>9, <1>12

\* Anchors up to the i-th line of s, each where its line is in t.
Paired(s, t, w, i) ==
    /\ w \in Seq(Nat \X Nat)
    /\ \A a \in 1 .. Len(w) : w[a][1] \in 1 .. i /\ w[a][2] \in Mates(s, t, w[a][1])
    /\ \A a, b \in 1 .. Len(w) : a < b => w[a][1] < w[b][1]

\* One more pair stands behind the others.
LEMMA PairedGrows ==
    ASSUME NEW s, NEW t, NEW w, NEW i \in Nat, i > 0, Paired(s, t, w, i - 1)
    PROVE  /\ Paired(s, t, w, i)
           /\ \A j \in Mates(s, t, i) : j \in Nat => Paired(s, t, Append(w, <<i, j>>), i)
<1> DEFINE N == Len(w)
<1>1. w \in Seq(Nat \X Nat) /\ N \in Nat
  BY DEF Paired
<1>2. \A a \in 1 .. N : w[a][1] \in 1 .. i - 1 /\ w[a][2] \in Mates(s, t, w[a][1])
  BY DEF Paired
<1>3. \A a, b \in 1 .. N : a < b => w[a][1] < w[b][1]
  BY DEF Paired
<1>4. \A a \in 1 .. N : w[a][1] \in 1 .. i /\ w[a][1] < i
  <2> HIDE DEF N
  <2>1. QED BY <1>2
<1>5. Paired(s, t, w, i)
  BY <1>1, <1>2, <1>3, <1>4 DEF Paired
<1>6. ASSUME NEW j \in Mates(s, t, i), j \in Nat PROVE Paired(s, t, Append(w, <<i, j>>), i)
  <2> DEFINE q == Append(w, <<i, j>>)
  <2>1. <<i, j>> \in Nat \X Nat
    BY <1>6
  <2>2. /\ q \in Seq(Nat \X Nat) /\ Len(q) = N + 1 /\ q[N + 1] = <<i, j>>
        /\ \A a \in 1 .. N : q[a] = w[a]
    BY <1>1, <2>1, AppendProperties
  <2> HIDE DEF q
  <2>3. q[N + 1][1] = i /\ q[N + 1][2] = j
    BY <2>2
  <2>4. N \in Nat
    BY <1>1
  <2> HIDE DEF N
  <2>5. \A a \in 1 .. N + 1 : a = N + 1 \/ a \in 1 .. N
    BY <2>4
  <2>6. \A a \in 1 .. N + 1 : q[a][1] \in 1 .. i /\ q[a][2] \in Mates(s, t, q[a][1])
    <3>1. i \in 1 .. i
      OBVIOUS
    <3>2. QED BY <1>2, <1>4, <1>6, <2>2, <2>3, <2>5, <3>1
  <2>7. ASSUME NEW a \in 1 .. N + 1, NEW b \in 1 .. N + 1, a < b PROVE q[a][1] < q[b][1]
    <3>1. a \in 1 .. N
      BY <2>4, <2>7
    <3>2. CASE b = N + 1
      BY <1>4, <2>2, <2>3, <3>1, <3>2
    <3>3. CASE b # N + 1
      <4>1. b \in 1 .. N
        BY <2>5, <3>3
      <4>2. QED BY <1>3, <2>2, <2>7, <3>1, <4>1
    <3>4. QED BY <3>2, <3>3
  <2>8. Paired(s, t, q, i)
    BY <2>2, <2>6, <2>7 DEF Paired
  <2>9. QED BY <2>8 DEF q
<1>7. QED BY <1>5, <1>6

\* Anchors lists the lines that occur once on both sides.
LEMMA AnchorsArePaired ==
    ASSUME NEW s, NEW t, Len(s) \in Nat, DOMAIN t \subseteq Nat
    PROVE  Paired(s, t, Anchors(s, t), Len(s))
<1> DEFINE L == Len(s)
           X == 0 .. L
           S == Seq(Nat \X Nat)
           mate(i) == CHOOSE j \in Mates(s, t, i) : TRUE
           with(i, w) == IF Mates(s, t, i) = {} THEN w ELSE Append(w, <<i, mate(i)>>)
           Step == [p \in X \X S |-> with(p[1], p[2])]
           body(f) == [i \in X |->
                         IF i = 0 THEN << >>
                         ELSE IF Mates(s, t, i) = {} THEN f[i - 1]
                         ELSE Append(f[i - 1], <<i, CHOOSE j \in Mates(s, t, i) : TRUE>>)]
<1>1. \A i : Mates(s, t, i) # {} => mate(i) \in Mates(s, t, i) /\ mate(i) \in Nat
  <2>1. \A i : Mates(s, t, i) \subseteq Nat
    BY DEF Mates
  <2>2. QED BY <2>1
<1> HIDE DEF mate
<1>2. \A i \in X, w \in S : with(i, w) \in S
  <2>1. ASSUME NEW i \in X, NEW w \in S, Mates(s, t, i) # {} PROVE Append(w, <<i, mate(i)>>) \in S
    <3>1. i \in Nat /\ mate(i) \in Nat
      BY <1>1, <2>1
    <3>2. <<i, mate(i)>> \in Nat \X Nat
      BY <3>1
    <3>3. QED BY <3>2
  <2> HIDE DEF S
  <2>2. QED BY <2>1
<1>3. << >> \in S
  OBVIOUS
<1> HIDE DEF S
<1>4. Step \in [X \X S -> S] /\ \A i \in X, w \in S : Step[<<i, w>>] = with(i, w)
  <2> HIDE DEF with
  <2>1. QED BY <1>2
<1> HIDE DEF Step
<1>5. PICK f \in [X -> S] : \A i \in X : f[i] = IF i = 0 THEN << >> ELSE Step[<<i, f[i - 1]>>]
  <2>1. 0 \in Int /\ L \in Int
    OBVIOUS
  <2> HIDE DEF L
  <2>2. Countings(0, L, S, << >>, Step) # {}
    BY <1>3, <1>4, <2>1, CountingHasValue
  <2>3. QED BY <2>2 DEF Countings
<1>6. f = body(f)
  <2>1. f = [i \in X |-> f[i]]
    BY <1>5
  <2>2. \A i \in X : i # 0 => i - 1 \in X
    OBVIOUS
  <2>3. \A i \in X : i # 0 => f[i] = with(i, f[i - 1])
    <3> HIDE DEF with, X
    <3>1. QED BY <1>4, <1>5, <2>2
  <2>4. \A i \in X : f[i] = IF i = 0 THEN << >>
                            ELSE IF Mates(s, t, i) = {} THEN f[i - 1]
                            ELSE Append(f[i - 1], <<i, CHOOSE j \in Mates(s, t, i) : TRUE>>)
    BY <1>5, <2>3 DEF mate
  <2> HIDE DEF X
  <2>5. QED BY <2>1, <2>4
<1> DEFINE G == CHOOSE g : g = body(g)
<1>7. G = body(G)
  BY <1>6, Zenon
<1>8. Anchors(s, t) = G[L]
  BY DEF Anchors
<1> HIDE DEF G
<1>9. G[0] = << >> /\ \A i \in X : i # 0 => G[i] = with(i, G[i - 1])
  <2>1. 0 \in X
    OBVIOUS
  <2>2. body(G)[0] = << >> /\ \A i \in X : i # 0 => body(G)[i] = with(i, G[i - 1])
    BY <2>1 DEF mate
  <2> HIDE DEF body, X, with
  <2>3. QED BY <1>7, <2>1, <2>2
<1> HIDE DEF body
<1> DEFINE T == { i \in X : Paired(s, t, G[i], i) }
<1>10. 0 \in T
  <2>1. Paired(s, t, << >>, 0) /\ 0 \in X
    BY DEF Paired
  <2>2. QED BY <1>9, <2>1
<1>11. \A i \in 1 .. L : i - 1 \in T => i \in T
  <2>1. SUFFICES ASSUME NEW i \in 1 .. L, Paired(s, t, G[i - 1], i - 1) PROVE Paired(s, t, G[i], i)
    OBVIOUS
  <2>2. i \in Nat /\ i > 0 /\ i \in X
    OBVIOUS
  <2>3. /\ Paired(s, t, G[i - 1], i)
        /\ \A j \in Mates(s, t, i) : j \in Nat => Paired(s, t, Append(G[i - 1], <<i, j>>), i)
    BY <2>1, <2>2, PairedGrows
  <2>4. G[i] = with(i, G[i - 1])
    BY <1>9, <2>2
  <2>5. QED BY <1>1, <2>3, <2>4
<1>12. L \in T
  <2>1. L \in Nat /\ L \in 0 .. L
    OBVIOUS
  <2> HIDE DEF T, L
  <2>2. QED BY <1>10, <1>11, <2>1, UpTo
<1>13. QED BY <1>8, <1>12

\* Anchors rise in the old text and are at distinct lines of the new.
LEMMA AnchorsClimb ==
    ASSUME NEW s, NEW t, Len(s) \in Nat, DOMAIN s = 1 .. Len(s), DOMAIN t \subseteq Nat
    PROVE  Climbs(Anchors(s, t))
<1> DEFINE w == Anchors(s, t)
<1>1. Paired(s, t, w, Len(s))
  BY AnchorsArePaired
<1> HIDE DEF w
<1>2. w \in Seq(Nat \X Nat) /\ \A i, j \in 1 .. Len(w) : i < j => w[i][1] < w[j][1]
  BY <1>1 DEF Paired
<1>3. \A a \in 1 .. Len(w) : w[a][1] \in DOMAIN s /\ w[a][2] \in Mates(s, t, w[a][1])
  BY <1>1 DEF Paired
<1>4. ASSUME NEW i \in 1 .. Len(w), NEW j \in 1 .. Len(w), i < j, w[i][2] = w[j][2] PROVE FALSE
  <2>1. s[w[i][1]] = s[w[j][1]] /\ Once(s, w[i][1])
    BY <1>3, <1>4 DEF Mates
  <2>2. w[i][1] = w[j][1]
    BY <1>3, <2>1 DEF Once
  <2>3. w[i][1] < w[j][1]
    BY <1>2, <1>4
  <2>4. w[i][1] \in Nat
    BY <1>3
  <2>5. QED BY <2>2, <2>3, <2>4
<1>5. Climbs(w)
  BY <1>2, <1>4 DEF Climbs
<1>6. QED BY <1>5 DEF w

\* No step changes the texts, the algorithm or the chain.
LEMMA TextsStay == [Next]_vars => UNCHANGED <<old, new, algorithm, chain>>
<1>1. SUFFICES ASSUME [Next]_vars PROVE UNCHANGED <<old, new, algorithm, chain>>
  BY SMTT(30)
<1>2. CASE Diff
  BY <1>2, Zenon DEF Diff, DiffStep, OneSided, StartTrace, Forward, ReachEnd, Backtrack
<1>3. CASE Send
  BY <1>3 DEF Send, diffVars
<1>4. CASE ApplyDirectly
  BY <1>4 DEF ApplyDirectly, diffVars
<1>5. CASE Parse
  BY <1>5 DEF Parse, Commentary, ReadHeader, ReadBody, ReadEdit, ReadOn, CloseHunk, Truncated, BadLine,
              EndParse, diffVars
<1>6. CASE Apply
  BY <1>6 DEF Apply, StartHunk, ApplyEdit, EndHunk, Refuse, Finish, diffVars
<1>7. CASE UNCHANGED vars
  BY <1>7 DEF vars, diffVars
<1>8. QED BY <1>1, <1>2, <1>3, <1>4, <1>5, <1>6, <1>7 DEF Next

\* The texts are an input, and the chain is what patience computes from them.
Given ==
    /\ <<old, new>> \in Inputs
    /\ algorithm \in {"myers", "patience"}
    /\ chain = IF algorithm = "patience" THEN longest_increasing_subsequence(Anchors(old, new)) ELSE << >>

\* What was given stays so through the diff, the journey and the patch.
THEOREM GivenThroughout == Spec => []Given
<1>1. Init => Given
  <2>1. SUFFICES ASSUME Init PROVE Given
    OBVIOUS
  <2>2. PICK input \in Inputs : old = input[1] /\ new = input[2]
    BY <2>1 DEF Init, DiffInit
  <2>3. input = <<input[1], input[2]>>
    BY DiffAssumption
  <2>4. QED BY <2>1, <2>2, <2>3 DEF Init, DiffInit, Given
<1>2. Given /\ [Next]_vars => Given'
  BY TextsStay DEF Given
<1>3. QED BY <1>1, <1>2, PTL DEF Spec

\* The texts are sequences of lines.
LEMMA TextsTyped == Given => old \in Seq(Lines) /\ new \in Seq(Lines)
<1>1. SUFFICES ASSUME Given PROVE old \in Seq(Lines) /\ new \in Seq(Lines)
  OBVIOUS
<1>2. <<old, new>> \in Seq(Lines) \X Seq(Lines)
  BY <1>1, DiffAssumption DEF Given
<1>3. QED BY <1>2

\* The patience diff's chain is ordered, repeats nothing, and no ordered set
\* of unique common lines is larger: what longest_increasing_subsequence
\* leaves when its tails were overwritten again and again.
THEOREM LongestAnchors == Spec => []AnchorsAreLongest
<1>1. Given => AnchorsAreLongest
  <2>1. SUFFICES ASSUME Given, algorithm = "patience"
                 PROVE  /\ \A p, q \in Range(chain) : p[1] < q[1] => p[2] < q[2]
                        /\ IsInjective(chain)
                        /\ \A C \in SUBSET Range(Anchors(old, new)) :
                             (\A p, q \in C : p[1] < q[1] => p[2] < q[2]) => Cardinality(C) <= Len(chain)
    BY DEF AnchorsAreLongest
  <2> DEFINE A == Anchors(old, new)
             c == longest_increasing_subsequence(A)
  <2>2. chain = c
    BY <2>1 DEF Given
  <2>3. Climbs(A)
    <3>1. Len(old) \in Nat /\ DOMAIN old = 1 .. Len(old) /\ DOMAIN new \subseteq Nat
      BY <2>1, TextsTyped
    <3>2. QED BY <3>1, AnchorsClimb
  <2> HIDE DEF A
  <2>4. IsChain(c, A)
    BY <2>3, ChainKept
  <2>5. PICK r : RanksFor(A, c, r)
    BY <2>3, ChainKept
  <2> HIDE DEF c
  <2>6. Len(c) \in Nat /\ DOMAIN c = 1 .. Len(c) /\ \A a \in 1 .. Len(c) : c[a] \in Nat \X Nat
    BY <2>4 DEF IsChain
  <2>7. \A a \in 1 .. Len(c) : c[a][1] \in Nat /\ c[a][2] \in Nat
    BY <2>6
  <2>8. \A a, b \in 1 .. Len(c) : a < b => c[a][1] < c[b][1] /\ c[a][2] < c[b][2]
    BY <2>4 DEF IsChain
  <2> DEFINE N == Len(c)
  <2>9. N \in Nat /\ DOMAIN c = 1 .. N
    BY <2>6
  <2>10. \A a \in 1 .. N : c[a][1] \in Nat /\ c[a][2] \in Nat
    BY <2>7
  <2>11. \A a, b \in 1 .. N : a < b => c[a][1] < c[b][1] /\ c[a][2] < c[b][2]
    BY <2>8
  <2> HIDE DEF N
  <2>12. \A a, b \in 1 .. N : a < b \/ b < a \/ a = b
    BY <2>9
  <2>13. ASSUME NEW p \in Range(c), NEW q \in Range(c), p[1] < q[1] PROVE p[2] < q[2]
    <3>1. PICK a \in 1 .. N : p = c[a]
      BY <2>9, <2>13 DEF Range
    <3>2. PICK b \in 1 .. N : q = c[b]
      BY <2>9, <2>13 DEF Range
    <3>3. ~(b < a) /\ a # b
      <4>1. ~(c[b][1] < c[a][1]) /\ c[a][1] # c[b][1]
        BY <2>10, <2>13, <3>1, <3>2
      <4>2. QED BY <2>11, <4>1
    <3>4. QED BY <2>11, <2>12, <3>1, <3>2, <3>3
  <2>14. IsInjective(c)
    <3>1. ASSUME NEW a \in 1 .. N, NEW b \in 1 .. N, c[a] = c[b] PROVE a = b
      <4>1. ~(c[a][1] < c[b][1]) /\ ~(c[b][1] < c[a][1])
        BY <2>10, <3>1
      <4>2. QED BY <2>11, <2>12, <4>1
    <3>2. QED BY <2>9, <3>1 DEF IsInjective
  <2>15. ASSUME NEW C, C \subseteq Range(A), \A p, q \in C : p[1] < q[1] => p[2] < q[2]
         PROVE  Cardinality(C) <= Len(c)
    BY <2>3, <2>5, <2>6, <2>15, ChainLongest
  <2>16. QED BY <2>2, <2>13, <2>14, <2>15 DEF A
<1>2. QED BY <1>1, GivenThroughout, PTL

\* The larger of two numbers.
LEMMA MaxOfTwo ==
    ASSUME NEW a \in Int, NEW b \in Int
    PROVE  Max({a, b}) = IF a >= b THEN a ELSE b
<1> DEFINE z == IF a >= b THEN a ELSE b
<1>1. z \in {a, b} /\ \A w \in {a, b} : z >= w
  OBVIOUS
<1>2. \A w \in {a, b} : (\A u \in {a, b} : w >= u) => w = z
  OBVIOUS
<1> HIDE DEF z
<1>3. (CHOOSE w \in {a, b} : \A u \in {a, b} : w >= u) = z
  BY <1>1, <1>2
<1>4. QED BY <1>3 DEF Max, z

\* A row of the table from the one before it.
IsRow(q, p, s, t, i) ==
    /\ q \in [0 .. Len(t) -> Nat]
    /\ q[0] = 0
    /\ \A j \in 1 .. Len(t) :
         q[j] = IF s[i] = t[j] THEN p[j - 1] + 1
                ELSE IF p[j] >= q[j - 1] THEN p[j] ELSE q[j - 1]

\* Each row of the table can be filled from the row before.
LEMMA RowExists ==
    ASSUME NEW s, NEW t, NEW i, Len(t) \in Nat, NEW p \in [0 .. Len(t) -> Nat]
    PROVE  \E q : IsRow(q, p, s, t, i)
<1> DEFINE M == Len(t)
           X == 0 .. M
           next1(j, w) == IF j = 0 THEN 0
                          ELSE IF s[i] = t[j] THEN p[j - 1] + 1
                          ELSE IF p[j] >= w THEN p[j] ELSE w
           Step == [c \in X \X Nat |-> next1(c[1], c[2])]
<1>1. M \in Nat
  OBVIOUS
<1>2. \A j \in X : p[j] \in Nat /\ (j # 0 => j - 1 \in X /\ p[j - 1] \in Nat)
  OBVIOUS
<1> HIDE DEF M
<1>3. \A j \in X, w \in Nat : next1(j, w) \in Nat
  BY <1>2
<1> HIDE DEF next1
<1>4. Step \in [X \X Nat -> Nat] /\ \A j \in X, w \in Nat : Step[<<j, w>>] = next1(j, w)
  BY <1>3
<1> HIDE DEF Step
<1>5. Countings(0, M, Nat, 0, Step) # {}
  <2>1. 0 \in Int /\ M \in Int /\ 0 \in Nat
    BY <1>1
  <2>2. Step \in [(0 .. M) \X Nat -> Nat]
    BY <1>4
  <2> HIDE DEF X
  <2>3. QED BY <2>1, <2>2, CountingHasValue
<1>6. PICK q \in [X -> Nat] : \A j \in X : q[j] = IF j = 0 THEN 0 ELSE Step[<<j, q[j - 1]>>]
  BY <1>5 DEF Countings
<1>7. q[0] = 0
  <2>1. 0 \in X
    BY <1>1
  <2> HIDE DEF X
  <2>2. QED BY <1>6, <2>1
<1>8. ASSUME NEW j \in 1 .. M
      PROVE  q[j] = IF s[i] = t[j] THEN p[j - 1] + 1
                    ELSE IF p[j] >= q[j - 1] THEN p[j] ELSE q[j - 1]
  <2>1. j \in X /\ j - 1 \in X /\ j # 0
    BY <1>1
  <2>2. q[j - 1] \in Nat
    BY <1>6, <2>1
  <2>3. q[j] = next1(j, q[j - 1])
    BY <1>4, <1>6, <2>1, <2>2
  <2>4. QED BY <2>1, <2>3 DEF next1
<1>9. QED BY <1>6, <1>7, <1>8 DEF IsRow, M

\* The lengths of the longest common subsequences of the prefixes.
IsTable(f, s, t) ==
    /\ f \in [(0 .. Len(s)) \X (0 .. Len(t)) -> Nat]
    /\ \A i \in 0 .. Len(s) : f[<<i, 0>>] = 0
    /\ \A j \in 0 .. Len(t) : f[<<0, j>>] = 0
    /\ \A i \in 1 .. Len(s), j \in 1 .. Len(t) :
         f[<<i, j>>] = IF s[i] = t[j] THEN f[<<i - 1, j - 1>>] + 1
                       ELSE IF f[<<i - 1, j>>] >= f[<<i, j - 1>>] THEN f[<<i - 1, j>>]
                       ELSE f[<<i, j - 1>>]

\* The table can be filled row by row.
LEMMA TableExists ==
    ASSUME NEW s, NEW t, Len(s) \in Nat, Len(t) \in Nat
    PROVE  \E f : IsTable(f, s, t)
<1> DEFINE N == Len(s)
           M == Len(t)
           S == [0 .. M -> Nat]
           zero == [j \in 0 .. M |-> 0]
           row(i, p) == CHOOSE q : IsRow(q, p, s, t, i)
           Step == [c \in (0 .. N) \X S |-> row(c[1], c[2])]
<1>1. N \in Nat /\ M \in Nat
  OBVIOUS
<1>2. zero \in S /\ \A j \in 0 .. M : zero[j] = 0
  OBVIOUS
<1>3. \A i \in 0 .. N, p \in S : IsRow(row(i, p), p, s, t, i)
  <2>1. SUFFICES ASSUME NEW i \in 0 .. N, NEW p \in S PROVE \E q : IsRow(q, p, s, t, i)
    OBVIOUS
  <2>2. QED BY RowExists
<1> HIDE DEF row, zero
<1>4. \A i \in 0 .. N, p \in S : row(i, p) \in S
  BY <1>3 DEF IsRow
<1> HIDE DEF S
<1>5. Step \in [(0 .. N) \X S -> S] /\ \A i \in 0 .. N, p \in S : Step[<<i, p>>] = row(i, p)
  BY <1>4
<1> HIDE DEF Step, N
<1>6. Countings(0, N, S, zero, Step) # {}
  <2>1. 0 \in Int /\ N \in Int
    BY <1>1
  <2>2. QED BY <1>2, <1>5, <2>1, CountingHasValue
<1>7. PICK g \in [0 .. N -> S] : \A i \in 0 .. N : g[i] = IF i = 0 THEN zero ELSE Step[<<i, g[i - 1]>>]
  BY <1>6 DEF Countings
<1>8. g[0] = zero
  <2>1. 0 \in 0 .. N
    BY <1>1
  <2>2. QED BY <1>7, <2>1
<1>9. ASSUME NEW i \in 1 .. N PROVE IsRow(g[i], g[i - 1], s, t, i)
  <2>1. i \in 0 .. N /\ i - 1 \in 0 .. N /\ i # 0
    BY <1>1
  <2>2. g[i - 1] \in S
    BY <1>7, <2>1
  <2>3. g[i] = row(i, g[i - 1])
    BY <1>5, <1>7, <2>1, <2>2
  <2>4. QED BY <1>3, <2>1, <2>2, <2>3
<1> DEFINE f == [c \in (0 .. N) \X (0 .. M) |-> g[c[1]][c[2]]]
<1>10. \A i \in 0 .. N, j \in 0 .. M : f[<<i, j>>] = g[i][j] /\ g[i][j] \in Nat
  <2>1. \A i \in 0 .. N : g[i] \in [0 .. M -> Nat]
    BY <1>7 DEF S
  <2> HIDE DEF M
  <2>2. QED BY <2>1
<1>11. f \in [(0 .. N) \X (0 .. M) -> Nat]
  <2> HIDE DEF M
  <2>1. QED BY <1>10
<1> HIDE DEF f
<1>12. \A i \in 0 .. N : f[<<i, 0>>] = 0
  <2>1. SUFFICES ASSUME NEW i \in 0 .. N PROVE g[i][0] = 0
    BY <1>1, <1>10
  <2>2. CASE i = 0
    BY <1>1, <1>2, <1>8, <2>2
  <2>3. CASE i # 0
    <3>1. i \in 1 .. N
      BY <1>1, <2>3
    <3>2. QED BY <1>9, <3>1 DEF IsRow
  <2>4. QED BY <2>2, <2>3
<1>13. \A j \in 0 .. M : f[<<0, j>>] = 0
  <2>1. 0 \in 0 .. N
    BY <1>1
  <2>2. QED BY <1>2, <1>8, <1>10, <2>1
<1>14. ASSUME NEW i \in 1 .. N, NEW j \in 1 .. M
       PROVE  f[<<i, j>>] = IF s[i] = t[j] THEN f[<<i - 1, j - 1>>] + 1
                            ELSE IF f[<<i - 1, j>>] >= f[<<i, j - 1>>] THEN f[<<i - 1, j>>]
                            ELSE f[<<i, j - 1>>]
  <2>1. i \in 0 .. N /\ i - 1 \in 0 .. N /\ j \in 0 .. M /\ j - 1 \in 0 .. M
    BY <1>1
  <2>2. /\ f[<<i, j>>] = g[i][j] /\ f[<<i - 1, j - 1>>] = g[i - 1][j - 1]
        /\ f[<<i - 1, j>>] = g[i - 1][j] /\ f[<<i, j - 1>>] = g[i][j - 1]
    BY <1>10, <2>1
  <2>3. IsRow(g[i], g[i - 1], s, t, i)
    BY <1>9
  <2>4. QED BY <2>2, <2>3 DEF IsRow
<1>15. IsTable(f, s, t)
  BY <1>11, <1>12, <1>13, <1>14 DEF IsTable, N
<1>16. QED BY <1>15

\* CommonLength is an entry of the table of its own recursion.
LEMMA CommonIs ==
    ASSUME NEW s, NEW t, Len(s) \in Nat, Len(t) \in Nat
    PROVE  \E f : IsTable(f, s, t) /\ CommonLength(s, t) = f[<<Len(s), Len(t)>>]
<1> DEFINE N == Len(s)
           M == Len(t)
           X == (0 .. N) \X (0 .. M)
           body(f) == [c \in X |->
                         IF c[1] = 0 \/ c[2] = 0 THEN 0
                         ELSE IF s[c[1]] = t[c[2]] THEN f[<<c[1] - 1, c[2] - 1>>] + 1
                         ELSE Max({f[<<c[1] - 1, c[2]>>], f[<<c[1], c[2] - 1>>]})]
           Fits1(g) == \A i \in 0 .. N, j \in 0 .. M :
                         g[<<i, j>>] = IF i = 0 \/ j = 0 THEN 0
                                       ELSE IF s[i] = t[j] THEN g[<<i - 1, j - 1>>] + 1
                                       ELSE Max({g[<<i - 1, j>>], g[<<i, j - 1>>]})
<1>1. PICK f : IsTable(f, s, t)
  BY TableExists
<1>2. N \in Nat /\ M \in Nat
  OBVIOUS
<1>3. f \in [X -> Nat]
  BY <1>1 DEF IsTable
<1>4. Fits1(f)
  <2>1. SUFFICES ASSUME NEW i \in 0 .. N, NEW j \in 0 .. M
                 PROVE  f[<<i, j>>] = IF i = 0 \/ j = 0 THEN 0
                                      ELSE IF s[i] = t[j] THEN f[<<i - 1, j - 1>>] + 1
                                      ELSE Max({f[<<i - 1, j>>], f[<<i, j - 1>>]})
    BY Zenon
  <2>2. CASE i = 0 \/ j = 0
    BY <1>1, <2>2 DEF IsTable
  <2>3. CASE i # 0 /\ j # 0
    <3>1. i \in 1 .. N /\ j \in 1 .. M /\ <<i - 1, j>> \in X /\ <<i, j - 1>> \in X
      BY <1>2, <2>3
    <3>2. f[<<i - 1, j>>] \in Int /\ f[<<i, j - 1>>] \in Int
      BY <1>3, <3>1
    <3>3. Max({f[<<i - 1, j>>], f[<<i, j - 1>>]}) =
            IF f[<<i - 1, j>>] >= f[<<i, j - 1>>] THEN f[<<i - 1, j>>] ELSE f[<<i, j - 1>>]
      BY <3>2, MaxOfTwo
    <3>4. f[<<i, j>>] = IF s[i] = t[j] THEN f[<<i - 1, j - 1>>] + 1
                        ELSE IF f[<<i - 1, j>>] >= f[<<i, j - 1>>] THEN f[<<i - 1, j>>]
                        ELSE f[<<i, j - 1>>]
      BY <1>1, <3>1 DEF IsTable
    <3>5. QED BY <2>3, <3>3, <3>4
  <2>4. QED BY <2>2, <2>3
<1>5. f = body(f)
  <2>1. f = [c \in X |-> f[c]]
    BY <1>3
  <2>2. ASSUME NEW c \in X
        PROVE  f[c] = IF c[1] = 0 \/ c[2] = 0 THEN 0
                      ELSE IF s[c[1]] = t[c[2]] THEN f[<<c[1] - 1, c[2] - 1>>] + 1
                      ELSE Max({f[<<c[1] - 1, c[2]>>], f[<<c[1], c[2] - 1>>]})
    <3>1. PICK i \in 0 .. N, j \in 0 .. M : c = <<i, j>>
      OBVIOUS
    <3>2. c[1] = i /\ c[2] = j
      BY <3>1
    <3>3. f[<<i, j>>] = IF i = 0 \/ j = 0 THEN 0
                        ELSE IF s[i] = t[j] THEN f[<<i - 1, j - 1>>] + 1
                        ELSE Max({f[<<i - 1, j>>], f[<<i, j - 1>>]})
      BY <1>4
    <3>4. QED BY <3>1, <3>2, <3>3
  <2> HIDE DEF X
  <2>3. QED BY <2>1, <2>2
<1> DEFINE G == CHOOSE g : g = body(g)
<1>6. G = body(G)
  BY <1>5, Zenon
<1>7. CommonLength(s, t) = G[<<N, M>>]
  BY DEF CommonLength
<1> HIDE DEF G
<1>8. G = [c \in X |-> G[c]]
  <2>1. body(G) = [c \in X |-> body(G)[c]]
    OBVIOUS
  <2> HIDE DEF body, X
  <2>2. QED BY <1>6, <2>1
<1>9. Fits1(G)
  <2>1. SUFFICES ASSUME NEW i \in 0 .. N, NEW j \in 0 .. M
                 PROVE  G[<<i, j>>] = IF i = 0 \/ j = 0 THEN 0
                                      ELSE IF s[i] = t[j] THEN G[<<i - 1, j - 1>>] + 1
                                      ELSE Max({G[<<i - 1, j>>], G[<<i, j - 1>>]})
    BY Zenon
  <2>2. body(G)[<<i, j>>] = IF i = 0 \/ j = 0 THEN 0
                            ELSE IF s[i] = t[j] THEN G[<<i - 1, j - 1>>] + 1
                            ELSE Max({G[<<i - 1, j>>], G[<<i, j - 1>>]})
    OBVIOUS
  <2> HIDE DEF body
  <2>3. QED BY <1>6, <2>2
<1> HIDE DEF body
\* The equation has one solution.
<1> DEFINE T == { w \in Nat : \A i \in 0 .. N, j \in 0 .. M : i + j <= w => f[<<i, j>>] = G[<<i, j>>] }
<1>10. 0 \in T
  <2>1. \A i \in 0 .. N, j \in 0 .. M : i + j <= 0 => i = 0
    BY <1>2
  <2>2. \A i \in 0 .. N, j \in 0 .. M : i = 0 => f[<<i, j>>] = 0 /\ G[<<i, j>>] = 0
    BY <1>4, <1>9
  <2> HIDE DEF Fits1, X
  <2>3. QED BY <2>1, <2>2
<1>11. ASSUME NEW w \in T PROVE w + 1 \in T
  <2>1. SUFFICES ASSUME NEW i \in 0 .. N, NEW j \in 0 .. M, i + j <= w + 1
                 PROVE  f[<<i, j>>] = G[<<i, j>>]
    OBVIOUS
  <2>2. CASE i = 0 \/ j = 0
    BY <1>4, <1>9, <2>2, ZenonT(40)
  <2>3. CASE i # 0 /\ j # 0
    <3>1. i - 1 \in 0 .. N /\ j - 1 \in 0 .. M /\ w \in Nat
          /\ (i - 1) + (j - 1) <= w /\ (i - 1) + j <= w /\ i + (j - 1) <= w
      BY <1>2, <2>1, <2>3
    <3>2. /\ f[<<i - 1, j - 1>>] = G[<<i - 1, j - 1>>] /\ f[<<i - 1, j>>] = G[<<i - 1, j>>]
          /\ f[<<i, j - 1>>] = G[<<i, j - 1>>]
      BY <3>1
    <3>3. f[<<i, j>>] = IF s[i] = t[j] THEN f[<<i - 1, j - 1>>] + 1
                        ELSE Max({f[<<i - 1, j>>], f[<<i, j - 1>>]})
      BY <1>4, <2>3
    <3>4. G[<<i, j>>] = IF s[i] = t[j] THEN G[<<i - 1, j - 1>>] + 1
                        ELSE Max({G[<<i - 1, j>>], G[<<i, j - 1>>]})
      BY <1>9, <2>3
    <3>5. QED BY <3>2, <3>3, <3>4
  <2>4. QED BY <2>2, <2>3
<1>12. T \subseteq Nat
  OBVIOUS
<1> HIDE DEF T
<1>13. T = Nat
  BY <1>10, <1>11, <1>12, NatSetInduction
<1>14. f[<<N, M>>] = G[<<N, M>>]
  <2>1. N + M \in T /\ N \in 0 .. N /\ M \in 0 .. M /\ N + M <= N + M
    BY <1>2, <1>13
  <2>2. QED BY <2>1 DEF T
<1>15. QED BY <1>1, <1>7, <1>14

\* From a cell of the table to the next, the length grows by at most one.
LEMMA TableSteps ==
    ASSUME NEW s, NEW t, NEW f, NEW N \in Nat, NEW M \in Nat, N = Len(s), M = Len(t), IsTable(f, s, t)
    PROVE  \A i \in 0 .. N, j \in 0 .. M :
             /\ f[<<i, j>>] \in Nat /\ f[<<i, j>>] <= i /\ f[<<i, j>>] <= j
             /\ i > 0 => f[<<i - 1, j>>] <= f[<<i, j>>] /\ f[<<i, j>>] <= f[<<i - 1, j>>] + 1
             /\ j > 0 => f[<<i, j - 1>>] <= f[<<i, j>>] /\ f[<<i, j>>] <= f[<<i, j - 1>>] + 1
<1> DEFINE Good(i, j) ==
             /\ f[<<i, j>>] <= i /\ f[<<i, j>>] <= j
             /\ i > 0 => f[<<i - 1, j>>] <= f[<<i, j>>] /\ f[<<i, j>>] <= f[<<i - 1, j>>] + 1
             /\ j > 0 => f[<<i, j - 1>>] <= f[<<i, j>>] /\ f[<<i, j>>] <= f[<<i, j - 1>>] + 1
           T == { w \in Nat : \A i \in 0 .. N, j \in 0 .. M : i + j <= w => Good(i, j) }
<1>1. \A i \in 0 .. N, j \in 0 .. M : f[<<i, j>>] \in Nat
  BY Zenon DEF IsTable
<1>2. \A i \in 0 .. N, j \in 0 .. M : i = 0 \/ j = 0 => f[<<i, j>>] = 0
  BY DEF IsTable
<1>3. \A i \in 1 .. N, j \in 1 .. M :
        f[<<i, j>>] = IF s[i] = t[j] THEN f[<<i - 1, j - 1>>] + 1
                      ELSE IF f[<<i - 1, j>>] >= f[<<i, j - 1>>] THEN f[<<i - 1, j>>]
                      ELSE f[<<i, j - 1>>]
  BY Zenon DEF IsTable
<1>4. \A i \in 0 .. N, j \in 0 .. M : i = 0 \/ j = 0 => Good(i, j)
  <2>1. \A i \in 0 .. N : i > 0 => i - 1 \in 0 .. N
    OBVIOUS
  <2>2. \A j \in 0 .. M : j > 0 => j - 1 \in 0 .. M
    OBVIOUS
  <2>3. SUFFICES ASSUME NEW i \in 0 .. N, NEW j \in 0 .. M, i = 0 \/ j = 0 PROVE Good(i, j)
    OBVIOUS
  <2>4. f[<<i, j>>] = 0
    BY <1>2, <2>3
  <2>5. i > 0 => f[<<i - 1, j>>] = 0
    BY <1>2, <2>1, <2>3
  <2>6. j > 0 => f[<<i, j - 1>>] = 0
    BY <1>2, <2>2, <2>3
  <2>7. QED BY <2>4, <2>5, <2>6
<1>5. 0 \in T
  <2>1. \A i \in 0 .. N, j \in 0 .. M : i + j <= 0 => i = 0
    OBVIOUS
  <2> HIDE DEF Good
  <2>2. QED BY <1>4, <2>1
<1>6. ASSUME NEW w \in T PROVE w + 1 \in T
  <2>1. SUFFICES ASSUME NEW i \in 0 .. N, NEW j \in 0 .. M, i + j <= w + 1, i # 0, j # 0 PROVE Good(i, j)
    <3> HIDE DEF Good
    <3>1. QED BY <1>4
  <2>2. i - 1 \in 0 .. N /\ j - 1 \in 0 .. M /\ w \in Nat /\ i \in 1 .. N /\ j \in 1 .. M
    BY <2>1
  <2>3. (i - 1) + (j - 1) <= w /\ (i - 1) + j <= w /\ i + (j - 1) <= w
    BY <2>1, <2>2
  <2>4. Good(i - 1, j) /\ Good(i, j - 1)
    <3> HIDE DEF Good
    <3>1. QED BY <2>2, <2>3
  <2>5. PICK a \in Nat, b \in Nat, c \in Nat, e \in Nat :
          a = f[<<i - 1, j - 1>>] /\ b = f[<<i - 1, j>>] /\ c = f[<<i, j - 1>>] /\ e = f[<<i, j>>]
    BY <1>1, <2>1, <2>2
  <2>6. /\ b <= i - 1 /\ b <= j /\ a <= b /\ b <= a + 1
        /\ c <= i /\ c <= j - 1 /\ a <= c /\ c <= a + 1
    BY <2>2, <2>4, <2>5
  <2>7. e = a + 1 \/ (e = b /\ b >= c) \/ (e = c /\ ~(b >= c))
    BY <1>3, <2>2, <2>5
  <2>8. e <= i /\ e <= j /\ b <= e /\ e <= b + 1 /\ c <= e /\ e <= c + 1
    BY <2>2, <2>6, <2>7
  <2>9. QED BY <2>5, <2>8
<1>7. T \subseteq Nat
  OBVIOUS
<1>8. T = Nat
  <2> HIDE DEF T
  <2>1. QED BY <1>5, <1>6, <1>7, NatSetInduction
<1>9. SUFFICES ASSUME NEW i \in 0 .. N, NEW j \in 0 .. M PROVE Good(i, j)
  BY <1>1, Zenon
<1>10. i + j \in Nat /\ i + j <= i + j
  OBVIOUS
<1>11. i + j \in T
  BY <1>8, <1>10
<1> HIDE DEF Good
<1>12. QED BY <1>10, <1>11

\* The i-th line of s and the j-th of t are there, and equal.
Meets(s, t, i, j) == i <= Len(s) /\ j <= Len(t) /\ s[i] = t[j]

\* D[<<i, j>>] is how many changes lead from the first i lines of s to the
\* first j of t; beyond their ends stand lines that meet nothing.
IsDistance(D, s, t) ==
    /\ \A i, j \in Nat : D[<<i, j>>] \in Nat /\ D[<<i, j>>] <= i + j
    /\ \A i \in Nat : D[<<i, 0>>] = i /\ D[<<0, i>>] = i
    /\ \A i, j \in Nat :
         /\ D[<<i + 1, j>>] = D[<<i, j>>] - 1 \/ D[<<i + 1, j>>] = D[<<i, j>>] + 1
         /\ D[<<i, j + 1>>] = D[<<i, j>>] - 1 \/ D[<<i, j + 1>>] = D[<<i, j>>] + 1
    /\ \A i, j \in Nat :
         IF Meets(s, t, i + 1, j + 1) THEN D[<<i + 1, j + 1>>] = D[<<i, j>>]
         ELSE \/ D[<<i + 1, j + 1>>] = D[<<i, j + 1>>] + 1
              \/ D[<<i + 1, j + 1>>] = D[<<i + 1, j>>] + 1
    /\ \A i, j \in Nat : i >= Len(s) /\ j >= Len(t) =>
         D[<<i, j>>] = D[<<Len(s), Len(t)>>] + (i - Len(s)) + (j - Len(t))

\* The distance table exists, and its corner is what CommonLength leaves.
LEMMA DistanceExists ==
    ASSUME NEW s, NEW t, NEW N \in Nat, NEW M \in Nat, N = Len(s), M = Len(t)
    PROVE  \E D : IsDistance(D, s, t) /\ D[<<N, M>>] = N + M - 2 * CommonLength(s, t)
<1> DEFINE row(i) == IF i <= N THEN i ELSE N
           col(j) == IF j <= M THEN j ELSE M
<1>1. PICK f : IsTable(f, s, t) /\ CommonLength(s, t) = f[<<N, M>>]
  BY CommonIs
<1>2. \A i \in 0 .. N, j \in 0 .. M :
             /\ f[<<i, j>>] \in Nat /\ f[<<i, j>>] <= i /\ f[<<i, j>>] <= j
             /\ i > 0 => f[<<i - 1, j>>] <= f[<<i, j>>] /\ f[<<i, j>>] <= f[<<i - 1, j>>] + 1
             /\ j > 0 => f[<<i, j - 1>>] <= f[<<i, j>>] /\ f[<<i, j>>] <= f[<<i, j - 1>>] + 1
  BY <1>1, TableSteps, Zenon
<1> DEFINE F == [c \in Nat \X Nat |-> f[<<row(c[1]), col(c[2])>>]]
           D == [c \in Nat \X Nat |-> c[1] + c[2] - 2 * F[c]]
<1>3. \A i, j \in Nat : F[<<i, j>>] = f[<<row(i), col(j)>>] /\ D[<<i, j>>] = i + j - 2 * F[<<i, j>>]
  OBVIOUS
<1>4. \A i \in Nat : /\ row(i) \in 0 .. N /\ row(i) <= i /\ (i <= N => row(i) = i)
                     /\ IF i + 1 <= N THEN row(i + 1) = i + 1 /\ row(i) = i ELSE row(i + 1) = N /\ row(i) = N
  OBVIOUS
<1>5. \A j \in Nat : /\ col(j) \in 0 .. M /\ col(j) <= j /\ (j <= M => col(j) = j)
                     /\ IF j + 1 <= M THEN col(j + 1) = j + 1 /\ col(j) = j ELSE col(j + 1) = M /\ col(j) = M
  OBVIOUS
<1> HIDE DEF F, D, row, col
<1>6. \A i, j \in Nat : F[<<i, j>>] \in Nat /\ F[<<i, j>>] <= i /\ F[<<i, j>>] <= j
  <2>1. SUFFICES ASSUME NEW i \in Nat, NEW j \in Nat
                 PROVE F[<<i, j>>] \in Nat /\ F[<<i, j>>] <= i /\ F[<<i, j>>] <= j
    BY Zenon
  <2>2. row(i) \in 0 .. N /\ row(i) <= i /\ col(j) \in 0 .. M /\ col(j) <= j
    BY <1>4, <1>5
  <2>3. F[<<i, j>>] = f[<<row(i), col(j)>>]
    BY <1>3
  <2>4. f[<<row(i), col(j)>>] \in Nat /\ f[<<row(i), col(j)>>] <= row(i) /\ f[<<row(i), col(j)>>] <= col(j)
    BY <1>2, <2>2
  <2>5. QED BY <2>2, <2>3, <2>4
<1>7. ASSUME NEW i \in Nat, NEW j \in Nat
      PROVE  /\ F[<<i, j>>] <= F[<<i + 1, j>>] /\ F[<<i + 1, j>>] <= F[<<i, j>>] + 1
             /\ F[<<i, j>>] <= F[<<i, j + 1>>] /\ F[<<i, j + 1>>] <= F[<<i, j>>] + 1
  <2>0. i + 1 \in Nat /\ j + 1 \in Nat
    OBVIOUS
  <2>1. F[<<i, j>>] <= F[<<i + 1, j>>] /\ F[<<i + 1, j>>] <= F[<<i, j>>] + 1
    <3>1. F[<<i, j>>] = f[<<row(i), col(j)>>] /\ F[<<i + 1, j>>] = f[<<row(i + 1), col(j)>>]
      BY <1>3, <2>0
    <3>2. col(j) \in 0 .. M
      BY <1>5
    <3>3. CASE i + 1 <= N
      <4>1. row(i + 1) = i + 1 /\ row(i) = i /\ i + 1 \in 0 .. N /\ i + 1 > 0 /\ (i + 1) - 1 = i
        BY <1>4, <3>3
      <4>2. f[<<i, col(j)>>] <= f[<<i + 1, col(j)>>] /\ f[<<i + 1, col(j)>>] <= f[<<i, col(j)>>] + 1
        BY <1>2, <3>2, <4>1
      <4>3. QED BY <3>1, <4>1, <4>2
    <3>4. CASE ~(i + 1 <= N)
      <4>1. F[<<i, j>>] = F[<<i + 1, j>>] /\ F[<<i, j>>] \in Nat
        BY <1>4, <1>6, <3>1, <3>4
      <4>2. QED BY <4>1
    <3>5. QED BY <3>3, <3>4
  <2>2. F[<<i, j>>] <= F[<<i, j + 1>>] /\ F[<<i, j + 1>>] <= F[<<i, j>>] + 1
    <3>1. F[<<i, j>>] = f[<<row(i), col(j)>>] /\ F[<<i, j + 1>>] = f[<<row(i), col(j + 1)>>]
      BY <1>3, <2>0
    <3>2. row(i) \in 0 .. N
      BY <1>4
    <3>3. CASE j + 1 <= M
      <4>1. col(j + 1) = j + 1 /\ col(j) = j /\ j + 1 \in 0 .. M /\ j + 1 > 0 /\ (j + 1) - 1 = j
        BY <1>5, <3>3
      <4>2. f[<<row(i), j>>] <= f[<<row(i), j + 1>>] /\ f[<<row(i), j + 1>>] <= f[<<row(i), j>>] + 1
        BY <1>2, <3>2, <4>1
      <4>3. QED BY <3>1, <4>1, <4>2
    <3>4. CASE ~(j + 1 <= M)
      <4>1. F[<<i, j>>] = F[<<i, j + 1>>] /\ F[<<i, j>>] \in Nat
        BY <1>5, <1>6, <3>1, <3>4
      <4>2. QED BY <4>1
    <3>5. QED BY <3>3, <3>4
  <2>3. QED BY <2>1, <2>2
<1>8. ASSUME NEW i \in Nat, NEW j \in Nat
      PROVE  IF Meets(s, t, i + 1, j + 1) THEN F[<<i + 1, j + 1>>] = F[<<i, j>>] + 1
             ELSE F[<<i + 1, j + 1>>] = F[<<i, j + 1>>] \/ F[<<i + 1, j + 1>>] = F[<<i + 1, j>>]
  <2>1. /\ F[<<i + 1, j + 1>>] = f[<<row(i + 1), col(j + 1)>>] /\ F[<<i, j>>] = f[<<row(i), col(j)>>]
        /\ F[<<i, j + 1>>] = f[<<row(i), col(j + 1)>>] /\ F[<<i + 1, j>>] = f[<<row(i + 1), col(j)>>]
    <3>1. i + 1 \in Nat /\ j + 1 \in Nat
      OBVIOUS
    <3>2. QED BY <1>3, <3>1
  <2>2. CASE ~(i + 1 <= N)
    <3>1. row(i + 1) = row(i) /\ ~Meets(s, t, i + 1, j + 1)
      BY <1>4, <2>2 DEF Meets
    <3>2. QED BY <2>1, <3>1
  <2>3. CASE ~(j + 1 <= M)
    <3>1. col(j + 1) = col(j) /\ ~Meets(s, t, i + 1, j + 1)
      BY <1>5, <2>3 DEF Meets
    <3>2. QED BY <2>1, <3>1
  <2>4. CASE i + 1 <= N /\ j + 1 <= M
    <3>1. row(i + 1) = i + 1 /\ row(i) = i /\ col(j + 1) = j + 1 /\ col(j) = j
      BY <1>4, <1>5, <2>4
    <3>0. (i + 1) - 1 = i /\ (j + 1) - 1 = j
      OBVIOUS
    <3>2. i + 1 \in 1 .. N /\ j + 1 \in 1 .. M
      BY <2>4
    <3>3. f[<<i + 1, j + 1>>] = IF s[i + 1] = t[j + 1] THEN f[<<i, j>>] + 1
                      ELSE IF f[<<i, j + 1>>] >= f[<<i + 1, j>>] THEN f[<<i, j + 1>>]
                      ELSE f[<<i + 1, j>>]
      <4> DEFINE a == i + 1
                 b == j + 1
      <4>1. f[<<a, b>>] = IF s[a] = t[b] THEN f[<<a - 1, b - 1>>] + 1
                      ELSE IF f[<<a - 1, b>>] >= f[<<a, b - 1>>] THEN f[<<a - 1, b>>]
                      ELSE f[<<a, b - 1>>]
        <5> HIDE DEF a, b
        <5>1. a \in 1 .. Len(s) /\ b \in 1 .. Len(t)
          BY <3>2 DEF a, b
        <5>2. QED BY <1>1, <5>1 DEF IsTable
      <4>2. a - 1 = i /\ b - 1 = j
        BY <3>0
      <4> HIDE DEF a, b
      <4>3. f[<<a, b>>] = IF s[a] = t[b] THEN f[<<i, j>>] + 1
                      ELSE IF f[<<i, b>>] >= f[<<a, j>>] THEN f[<<i, b>>]
                      ELSE f[<<a, j>>]
        BY <4>1, <4>2
      <4>4. QED BY <4>3 DEF a, b
    <3>4. Meets(s, t, i + 1, j + 1) <=> s[i + 1] = t[j + 1]
      BY <2>4 DEF Meets
    <3>5. QED BY <2>1, <3>1, <3>3, <3>4
  <2>5. QED BY <2>2, <2>3, <2>4
<1>9. \A i \in Nat : F[<<i, 0>>] = 0 /\ F[<<0, i>>] = 0
  <2>1. SUFFICES ASSUME NEW i \in Nat PROVE F[<<i, 0>>] = 0 /\ F[<<0, i>>] = 0
    BY Zenon
  <2>2. F[<<i, 0>>] \in Nat /\ F[<<i, 0>>] <= 0 /\ F[<<0, i>>] \in Nat /\ F[<<0, i>>] <= 0
    BY <1>6
  <2>3. QED BY <2>2
<1>10. \A i, j \in Nat : i >= N /\ j >= M => F[<<i, j>>] = F[<<N, M>>]
  <2>1. SUFFICES ASSUME NEW i \in Nat, NEW j \in Nat, i >= N, j >= M PROVE F[<<i, j>>] = F[<<N, M>>]
    OBVIOUS
  <2>2. row(i) = row(N) /\ col(j) = col(M)
    BY <2>1 DEF row, col
  <2>3. F[<<i, j>>] = f[<<row(i), col(j)>>] /\ F[<<N, M>>] = f[<<row(N), col(M)>>]
    BY <1>3
  <2>4. QED BY <2>2, <2>3
<1>11. IsDistance(D, s, t)
  <2>1. \A i, j \in Nat : D[<<i, j>>] \in Nat /\ D[<<i, j>>] <= i + j
    <3>1. SUFFICES ASSUME NEW i \in Nat, NEW j \in Nat PROVE D[<<i, j>>] \in Nat /\ D[<<i, j>>] <= i + j
      BY Zenon
    <3>2. D[<<i, j>>] = i + j - 2 * F[<<i, j>>] /\ F[<<i, j>>] \in Nat /\ F[<<i, j>>] <= i /\ F[<<i, j>>] <= j
      BY <1>3, <1>6
    <3>3. QED BY <3>2
  <2>2. \A i \in Nat : D[<<i, 0>>] = i /\ D[<<0, i>>] = i
    <3>1. SUFFICES ASSUME NEW i \in Nat PROVE D[<<i, 0>>] = i /\ D[<<0, i>>] = i
      BY Zenon
    <3>2. D[<<i, 0>>] = i + 0 - 2 * F[<<i, 0>>] /\ D[<<0, i>>] = 0 + i - 2 * F[<<0, i>>]
      BY <1>3
    <3>3. QED BY <1>9, <3>2
  <2>0. \A i \in Nat : i + 1 \in Nat
    OBVIOUS
  <2>3. ASSUME NEW i \in Nat, NEW j \in Nat
        PROVE  /\ D[<<i + 1, j>>] = D[<<i, j>>] - 1 \/ D[<<i + 1, j>>] = D[<<i, j>>] + 1
               /\ D[<<i, j + 1>>] = D[<<i, j>>] - 1 \/ D[<<i, j + 1>>] = D[<<i, j>>] + 1
    <3>1. PICK a \in Nat, b \in Nat, c \in Nat : a = F[<<i, j>>] /\ b = F[<<i + 1, j>>] /\ c = F[<<i, j + 1>>]
      BY <1>6, <2>0
    <3>2. (b = a \/ b = a + 1) /\ (c = a \/ c = a + 1)
      <4>1. a <= b /\ b <= a + 1 /\ a <= c /\ c <= a + 1
        BY <1>7, <3>1
      <4>2. QED BY <4>1
    <3>3. /\ D[<<i, j>>] = i + j - 2 * a /\ D[<<i + 1, j>>] = (i + 1) + j - 2 * b
          /\ D[<<i, j + 1>>] = i + (j + 1) - 2 * c
      BY <1>3, <2>0, <3>1, ZenonT(40)
    <3>4. QED BY <3>2, <3>3
  <2>4. ASSUME NEW i \in Nat, NEW j \in Nat
        PROVE  IF Meets(s, t, i + 1, j + 1) THEN D[<<i + 1, j + 1>>] = D[<<i, j>>]
               ELSE \/ D[<<i + 1, j + 1>>] = D[<<i, j + 1>>] + 1
                    \/ D[<<i + 1, j + 1>>] = D[<<i + 1, j>>] + 1
    <3>1. PICK a \in Nat, b \in Nat, c \in Nat, e \in Nat :
            /\ a = F[<<i, j>>] /\ b = F[<<i + 1, j>>] /\ c = F[<<i, j + 1>>] /\ e = F[<<i + 1, j + 1>>]
      BY <1>6, <2>0
    <3>2. IF Meets(s, t, i + 1, j + 1) THEN e = a + 1 ELSE e = c \/ e = b
      BY <1>8, <3>1
    <3>3. /\ D[<<i, j>>] = i + j - 2 * a /\ D[<<i + 1, j>>] = (i + 1) + j - 2 * b
          /\ D[<<i, j + 1>>] = i + (j + 1) - 2 * c /\ D[<<i + 1, j + 1>>] = (i + 1) + (j + 1) - 2 * e
      <4>1. D[<<i, j>>] = i + j - 2 * F[<<i, j>>]
        BY <1>3
      <4>2. D[<<i + 1, j>>] = (i + 1) + j - 2 * F[<<i + 1, j>>]
        BY <1>3, <2>0
      <4>3. D[<<i, j + 1>>] = i + (j + 1) - 2 * F[<<i, j + 1>>]
        BY <1>3, <2>0
      <4>4. i + 1 \in Nat /\ j + 1 \in Nat
        BY <2>0
      <4>5. D[<<i + 1, j + 1>>] = (i + 1) + (j + 1) - 2 * F[<<i + 1, j + 1>>]
        BY <1>3, <4>4
      <4>6. QED BY <3>1, <4>1, <4>2, <4>3, <4>5
    <3>4. QED BY <3>2, <3>3
  <2>5. \A i, j \in Nat : i >= N /\ j >= M => D[<<i, j>>] = D[<<N, M>>] + (i - N) + (j - M)
    <3>1. SUFFICES ASSUME NEW i \in Nat, NEW j \in Nat, i >= N, j >= M
                   PROVE  D[<<i, j>>] = D[<<N, M>>] + (i - N) + (j - M)
      OBVIOUS
    <3>2. PICK a \in Nat : a = F[<<N, M>>] /\ a = F[<<i, j>>]
      BY <1>6, <1>10, <3>1
    <3>3. D[<<i, j>>] = i + j - 2 * a /\ D[<<N, M>>] = N + M - 2 * a
      <4>1. D[<<i, j>>] = i + j - 2 * F[<<i, j>>] /\ D[<<N, M>>] = N + M - 2 * F[<<N, M>>]
        BY <1>3
      <4>2. QED BY <3>2, <4>1
    <3>4. QED BY <3>3
  <2>6. QED BY <2>1, <2>2, <2>3, <2>4, <2>5, ZenonT(40) DEF IsDistance
<1>12. D[<<N, M>>] = N + M - 2 * CommonLength(s, t)
  <2>1. row(N) = N /\ col(M) = M
    BY DEF row, col
  <2>2. F[<<N, M>>] = f[<<N, M>>] /\ D[<<N, M>>] = N + M - 2 * F[<<N, M>>]
    BY <1>3, <2>1
  <2>3. QED BY <1>1, <2>2
<1>13. QED BY <1>11, <1>12

\* Along a diagonal the distance never falls.
LEMMA DiagonalsRise ==
    ASSUME NEW D, NEW s, NEW t, IsDistance(D, s, t), NEW i \in Nat, NEW j \in Nat, NEW a \in Nat
    PROVE  D[<<i, j>>] <= D[<<i + a, j + a>>]
<1> DEFINE T == { w \in Nat : D[<<i, j>>] <= D[<<i + w, j + w>>] }
<1>1. \A p, q \in Nat : D[<<p, q>>] \in Nat
  BY Zenon DEF IsDistance
<1>2. ASSUME NEW p \in Nat, NEW q \in Nat PROVE D[<<p, q>>] <= D[<<p + 1, q + 1>>]
  <2>0. p + 1 \in Nat /\ q + 1 \in Nat
    OBVIOUS
  <2>1. PICK z \in Nat, b \in Nat, c \in Nat, e \in Nat :
          /\ z = D[<<p, q>>] /\ b = D[<<p + 1, q>>] /\ c = D[<<p, q + 1>>] /\ e = D[<<p + 1, q + 1>>]
    BY <1>1, <2>0
  <2>2. (b = z - 1 \/ b = z + 1) /\ (c = z - 1 \/ c = z + 1)
    BY <2>1, SMTT(30) DEF IsDistance
  <2>3. e = z \/ e = c + 1 \/ e = b + 1
    BY <2>1, SMTT(30) DEF IsDistance
  <2>4. z <= e
    BY <2>2, <2>3
  <2>5. QED BY <2>1, <2>4
<1>3. 0 \in T
  <2>1. i + 0 = i /\ j + 0 = j /\ D[<<i, j>>] \in Nat
    BY <1>1
  <2>2. QED BY <2>1
<1>4. ASSUME NEW w \in T PROVE w + 1 \in T
  <2>1. w \in Nat /\ i + w \in Nat /\ j + w \in Nat /\ i + (w + 1) = (i + w) + 1 /\ j + (w + 1) = (j + w) + 1
    OBVIOUS
  <2>2. D[<<i + w, j + w>>] <= D[<<(i + w) + 1, (j + w) + 1>>]
    BY <1>2, <2>1
  <2>3. D[<<i, j>>] <= D[<<i + w, j + w>>]
    OBVIOUS
  <2>4. D[<<i, j>>] \in Nat /\ D[<<i + w, j + w>>] \in Nat
    BY <1>1, <2>1
  <2>5. (i + w) + 1 \in Nat /\ (j + w) + 1 \in Nat
    BY <2>1
  <2>6. D[<<(i + w) + 1, (j + w) + 1>>] \in Nat
    BY <1>1, <2>5
  <2>7. D[<<i, j>>] <= D[<<(i + w) + 1, (j + w) + 1>>]
    BY <2>2, <2>3, <2>4, <2>6
  <2>8. QED BY <2>1, <2>7
<1>5. T \subseteq Nat
  OBVIOUS
<1> HIDE DEF T
<1>6. a \in T
  BY <1>3, <1>4, <1>5, NatSetInduction
<1>7. QED BY <1>6 DEF T

\* At least the difference of the lengths, and even or odd as it is.
LEMMA DistanceBounds ==
    ASSUME NEW D, NEW s, NEW t, IsDistance(D, s, t), NEW i \in Nat, NEW j \in Nat
    PROVE  /\ i - j <= D[<<i, j>>] /\ j - i <= D[<<i, j>>]
           /\ D[<<i, j>>] \in Nat /\ \E h \in Int : D[<<i, j>>] = i - j + 2 * h
<1>1. \A p, q \in Nat : D[<<p, q>>] \in Nat
  BY Zenon DEF IsDistance
<1>2. \A p \in Nat : D[<<p, 0>>] = p /\ D[<<0, p>>] = p
  BY Zenon DEF IsDistance
<1>3. \A p, q \in Nat :
         /\ D[<<p + 1, q>>] = D[<<p, q>>] - 1 \/ D[<<p + 1, q>>] = D[<<p, q>>] + 1
         /\ D[<<p, q + 1>>] = D[<<p, q>>] - 1 \/ D[<<p, q + 1>>] = D[<<p, q>>] + 1
  BY Zenon DEF IsDistance
<1> DEFINE T == { w \in Nat : i - w <= D[<<i, w>>] /\ \E h \in Int : D[<<i, w>>] = i - w + 2 * h }
           U == { w \in Nat : j - w <= D[<<w, j>>] }
<1>4. 0 \in T
  <2>1. D[<<i, 0>>] = i
    BY <1>2
  <2>2. i - 0 <= i /\ i = i - 0 + 2 * 0 /\ 0 \in Int /\ 0 \in Nat
    OBVIOUS
  <2>3. \E h \in Int : i = i - 0 + 2 * h
    BY <2>2
  <2>4. QED BY <2>1, <2>2, <2>3
<1>5. ASSUME NEW w \in T PROVE w + 1 \in T
  <2>1. PICK h \in Int : D[<<i, w>>] = i - w + 2 * h
    OBVIOUS
  <2>2. w \in Nat /\ i - w <= D[<<i, w>>]
    OBVIOUS
  <2>3. PICK z \in Nat : z = D[<<i, w>>]
    BY <1>1, <2>2
  <2>4. D[<<i, w + 1>>] = z - 1 \/ D[<<i, w + 1>>] = z + 1
    BY <1>3, <2>2, <2>3
  <2> DEFINE e == D[<<i, w + 1>>]
  <2>5. e = z - 1 \/ e = z + 1
    BY <2>4
  <2> HIDE DEF e
  <2>6. i - (w + 1) <= e
    BY <2>2, <2>3, <2>5
  <2>7. e = i - (w + 1) + 2 * h \/ e = i - (w + 1) + 2 * (h + 1)
    BY <2>1, <2>2, <2>3, <2>5
  <2>8. \E c \in Int : e = i - (w + 1) + 2 * c
    <3>1. h + 1 \in Int
      OBVIOUS
    <3>2. QED BY <2>7, <3>1
  <2>9. w + 1 \in Nat
    BY <2>2
  <2>10. QED BY <2>6, <2>8, <2>9 DEF e
<1>6. 0 \in U
  <2>1. D[<<0, j>>] = j
    BY <1>2
  <2>2. QED BY <2>1
<1>7. ASSUME NEW w \in U PROVE w + 1 \in U
  <2>1. w \in Nat /\ j - w <= D[<<w, j>>] /\ D[<<w, j>>] \in Nat
    BY <1>1
  <2>2. D[<<w + 1, j>>] = D[<<w, j>>] - 1 \/ D[<<w + 1, j>>] = D[<<w, j>>] + 1
    BY <1>3, <2>1
  <2>3. j - (w + 1) <= D[<<w + 1, j>>]
    BY <2>1, <2>2
  <2>4. QED BY <2>1, <2>3
<1>8. T \subseteq Nat /\ U \subseteq Nat
  OBVIOUS
<1> HIDE DEF T, U
<1>9. j \in T /\ i \in U
  BY <1>4, <1>5, <1>6, <1>7, <1>8, NatSetInduction
<1>10. QED BY <1>1, <1>9 DEF T, U

\* w is the last position on diagonal g that r changes reach.
Far(D, w, g, r) ==
    /\ w \in Nat /\ w - g \in Nat
    /\ D[<<w, w - g>>] <= r /\ r < D[<<w + 1, w - g + 1>>]

\* From w on, r changes lead no further on diagonal g than equal lines do.
Starts(D, s, t, w, g, r) ==
    /\ w \in Nat /\ w - g \in Nat
    /\ D[<<w, w - g>>] <= r
    /\ \A i \in Nat : i >= w /\ D[<<i + 1, i - g + 1>>] <= r => Meets(s, t, i + 1, i - g + 1)

\* The farthest point of one change less on a diagonal is behind every point
\* that takes more.
LEMMA FarBounds ==
    ASSUME NEW D, NEW s, NEW t, IsDistance(D, s, t), NEW w, NEW g \in Int, NEW r \in Int, Far(D, w, g, r),
           NEW i \in Nat, i - g \in Nat, D[<<i, i - g>>] <= r
    PROVE  i <= w
<1>1. w \in Nat /\ w - g \in Nat /\ r < D[<<w + 1, w - g + 1>>]
  BY DEF Far
<1>2. SUFFICES ASSUME w < i PROVE FALSE
  BY <1>1
<1> DEFINE a == i - (w + 1)
           p == w + 1
           q == w - g + 1
<1>3. a \in Nat /\ p \in Nat /\ q \in Nat /\ p + a = i /\ q + a = i - g
  BY <1>1, <1>2
<1>4. r < D[<<p, q>>]
  BY <1>1
<1> HIDE DEF a, p, q
<1>5. D[<<p, q>>] <= D[<<p + a, q + a>>]
  BY <1>3, DiagonalsRise
<1>6. D[<<p, q>>] \in Nat /\ D[<<i, i - g>>] \in Nat
  BY <1>3 DEF IsDistance
<1>7. D[<<p, q>>] <= D[<<i, i - g>>]
  BY <1>3, <1>5
<1>8. QED BY <1>4, <1>6, <1>7

\* The greedy choice: of the points one change away from the farthest of the
\* round before, the farther one.
LEMMA StartsFrom ==
    ASSUME NEW D, NEW s, NEW t, IsDistance(D, s, t), NEW r \in Nat, r > 0, NEW g \in -r .. r,
           NEW a, NEW b, g # -r => Far(D, a, g - 1, r - 1), g # r => Far(D, b, g + 1, r - 1)
    PROVE  Starts(D, s, t, IF g = -r \/ (g # r /\ a < b) THEN b ELSE a + 1, g, r)
<1> DEFINE down == g = -r \/ (g # r /\ a < b)
           F == IF down THEN b ELSE a + 1
<1>1. \A p, q \in Nat : D[<<p, q>>] \in Nat
  BY Zenon DEF IsDistance
<1>2. \A p, q \in Nat :
         /\ D[<<p + 1, q>>] = D[<<p, q>>] - 1 \/ D[<<p + 1, q>>] = D[<<p, q>>] + 1
         /\ D[<<p, q + 1>>] = D[<<p, q>>] - 1 \/ D[<<p, q + 1>>] = D[<<p, q>>] + 1
  BY Zenon DEF IsDistance
<1>3. \A p, q \in Nat :
         Meets(s, t, p + 1, q + 1) \/ D[<<p + 1, q + 1>>] = D[<<p, q + 1>>] + 1
                                   \/ D[<<p + 1, q + 1>>] = D[<<p + 1, q>>] + 1
  BY Zenon DEF IsDistance
<1>4. ASSUME g # r PROVE b \in Nat /\ b - (g + 1) \in Nat /\ D[<<b, b - (g + 1)>>] <= r - 1
  BY <1>4 DEF Far
<1>5. ASSUME g # -r PROVE a \in Nat /\ a - (g - 1) \in Nat /\ D[<<a, a - (g - 1)>>] <= r - 1
  BY <1>5 DEF Far
<1>6. down => g # r
  OBVIOUS
<1>7. ~down => g # -r
  OBVIOUS
<1>8. F \in Nat /\ F - g \in Nat /\ D[<<F, F - g>>] <= r
  <2>1. CASE down
    <3>0. F = b /\ g # r
      BY <1>6, <2>1
    <3>1. b \in Nat /\ b - (g + 1) \in Nat /\ D[<<b, b - (g + 1)>>] <= r - 1
      BY <1>4, <3>0
    <3> HIDE DEF F, down
    <3>2. b - g \in Nat /\ (b - (g + 1)) + 1 = b - g
      BY <3>1
    <3> DEFINE q == b - (g + 1)
    <3>3. q \in Nat /\ D[<<b, q>>] <= r - 1
      BY <3>1
    <3> HIDE DEF q
    <3>4. D[<<b, q>>] \in Nat /\ (D[<<b, q + 1>>] = D[<<b, q>>] - 1 \/ D[<<b, q + 1>>] = D[<<b, q>>] + 1)
      BY <1>1, <1>2, <3>1, <3>3
    <3>5. D[<<b, q + 1>>] <= r
      BY <3>3, <3>4
    <3>6. q + 1 = b - g
      BY <3>2 DEF q
    <3>7. D[<<b, b - g>>] <= r
      BY <3>5, <3>6
    <3>8. QED BY <3>0, <3>1, <3>2, <3>7
  <2>2. CASE ~down
    <3>0. F = a + 1 /\ g # -r
      BY <1>7, <2>2
    <3>1. a \in Nat /\ a - (g - 1) \in Nat /\ D[<<a, a - (g - 1)>>] <= r - 1
      BY <1>5, <3>0
    <3> HIDE DEF F, down
    <3>2. a + 1 \in Nat /\ (a + 1) - g = a - (g - 1)
      BY <3>1
    <3> DEFINE q == a - (g - 1)
    <3>3. q \in Nat /\ D[<<a, q>>] <= r - 1
      BY <3>1
    <3> HIDE DEF q
    <3>4. D[<<a, q>>] \in Nat /\ (D[<<a + 1, q>>] = D[<<a, q>>] - 1 \/ D[<<a + 1, q>>] = D[<<a, q>>] + 1)
      BY <1>1, <1>2, <3>1, <3>3
    <3>5. D[<<a + 1, q>>] <= r
      BY <3>3, <3>4
    <3>6. q = (a + 1) - g
      BY <3>2 DEF q
    <3>7. D[<<a + 1, (a + 1) - g>>] <= r /\ (a + 1) - g \in Nat
      BY <3>3, <3>5, <3>6
    <3>8. QED BY <3>0, <3>2, <3>7
  <2>3. QED BY <2>1, <2>2
<1>9. ASSUME NEW i \in Nat, i >= F, D[<<i + 1, i - g + 1>>] <= r, ~Meets(s, t, i + 1, i - g + 1)
      PROVE  FALSE
  <2>1. i - g \in Nat
    <3> HIDE DEF F
    <3>1. QED BY <1>8, <1>9
  <2>2. PICK q \in Nat : q = i - g
    BY <2>1
  <2>3. D[<<i + 1, q + 1>>] <= r /\ ~Meets(s, t, i + 1, q + 1)
    BY <1>9, <2>2
  <2>4. D[<<i, q + 1>>] <= r - 1 \/ D[<<i + 1, q>>] <= r - 1
    <3>0. i + 1 \in Nat /\ q + 1 \in Nat
      OBVIOUS
    <3>1. D[<<i + 1, q + 1>>] = D[<<i, q + 1>>] + 1 \/ D[<<i + 1, q + 1>>] = D[<<i + 1, q>>] + 1
      BY <1>3, <2>3
    <3>2. D[<<i, q + 1>>] \in Nat /\ D[<<i + 1, q>>] \in Nat
      BY <1>1, <3>0
    <3>3. QED BY <2>3, <3>1, <3>2
  <2>5. ASSUME D[<<i, q + 1>>] <= r - 1 PROVE g # -r /\ i <= a
    <3>1. q + 1 \in Nat /\ q + 1 = i - (g - 1) /\ g - 1 \in Int /\ r - 1 \in Int
      BY <2>2
    <3>2. (q + 1) - i <= D[<<i, q + 1>>]
      BY <3>1, DistanceBounds
    <3>3. D[<<i, q + 1>>] \in Nat
      BY <1>1, <3>1
    <3>4. g # -r
      BY <2>2, <2>5, <3>2, <3>3
    <3>5. i - (g - 1) \in Nat /\ D[<<i, i - (g - 1)>>] <= r - 1
      BY <2>5, <3>1
    <3> DEFINE e == g - 1
               z == r - 1
    <3>6. e \in Int /\ z \in Int /\ Far(D, a, e, z) /\ i - e \in Nat /\ D[<<i, i - e>>] <= z
      BY <3>1, <3>4, <3>5
    <3> HIDE DEF e, z
    <3>7. i <= a
      BY <3>6, FarBounds
    <3>8. QED BY <3>4, <3>7
  <2>6. ASSUME D[<<i + 1, q>>] <= r - 1 PROVE g # r /\ i + 1 <= b
    <3>1. i + 1 \in Nat /\ q = (i + 1) - (g + 1) /\ g + 1 \in Int /\ r - 1 \in Int
      BY <2>2
    <3>2. (i + 1) - q <= D[<<i + 1, q>>]
      BY <3>1, DistanceBounds
    <3>3. D[<<i + 1, q>>] \in Nat
      BY <1>1, <3>1
    <3>4. g # r
      BY <2>2, <2>6, <3>2, <3>3
    <3> DEFINE e == g + 1
               z == r - 1
               p == i + 1
    <3>6. p \in Nat /\ e \in Int /\ z \in Int /\ Far(D, b, e, z) /\ p - e \in Nat /\ D[<<p, p - e>>] <= z
      BY <2>6, <3>1, <3>4
    <3> HIDE DEF e, z, p
    <3>7. p <= b
      BY <3>6, FarBounds
    <3>8. QED BY <3>4, <3>7 DEF p
  <2>7. CASE D[<<i, q + 1>>] <= r - 1
    <3>1. g # -r /\ i <= a /\ a \in Nat
      BY <1>5, <2>5, <2>7
    <3>2. CASE down
      <4>1. b \in Nat /\ a < b /\ i >= b
        BY <1>4, <1>9, <3>1, <3>2
      <4>2. QED BY <3>1, <4>1
    <3>3. CASE ~down
      <4>1. i >= a + 1
        BY <1>9, <3>3
      <4>2. QED BY <3>1, <4>1
    <3>4. QED BY <3>2, <3>3
  <2>8. CASE D[<<i + 1, q>>] <= r - 1
    <3>1. g # r /\ i + 1 <= b /\ b \in Nat
      BY <1>4, <2>6, <2>8
    <3>2. CASE down
      <4>1. i >= b
        BY <1>9, <3>2
      <4>2. QED BY <3>1, <4>1
    <3>3. CASE ~down
      <4>1. a \in Nat /\ ~(a < b) /\ i >= a + 1
        BY <1>5, <1>9, <3>1, <3>3
      <4>2. QED BY <3>1, <4>1
    <3>4. QED BY <3>2, <3>3
  <2>9. QED BY <2>4, <2>7, <2>8
<1> HIDE DEF F
<1>10. Starts(D, s, t, F, g, r)
  BY <1>8, <1>9 DEF Starts
<1>11. QED BY <1>10 DEF F

\* At the origin, at distance 0, everything that is reached is ahead.
LEMMA StartsAtFirst ==
    ASSUME NEW D, NEW s, NEW t, IsDistance(D, s, t)
    PROVE  Starts(D, s, t, 0, 0, 0)
<1>1. D[<<0, 0>>] = 0 /\ 0 - 0 = 0
  BY DEF IsDistance
<1>2. ASSUME NEW i \in Nat, D[<<i + 1, i - 0 + 1>>] <= 0, ~Meets(s, t, i + 1, i - 0 + 1) PROVE FALSE
  <2>1. i - 0 = i /\ i + 1 \in Nat
    OBVIOUS
  <2>2. D[<<i + 1, i + 1>>] <= 0 /\ ~Meets(s, t, i + 1, i + 1)
    BY <1>2, <2>1
  <2>3. D[<<i + 1, i + 1>>] = D[<<i, i + 1>>] + 1 \/ D[<<i + 1, i + 1>>] = D[<<i + 1, i>>] + 1
    BY <2>2 DEF IsDistance
  <2>4. D[<<i, i + 1>>] \in Nat /\ D[<<i + 1, i>>] \in Nat
    BY <2>1 DEF IsDistance
  <2>5. QED BY <2>2, <2>3, <2>4
<1>3. QED BY <1>1, <1>2 DEF Starts

\* Equal lines lead from there to the farthest point.
LEMMA SlidesFar ==
    ASSUME NEW D, NEW s, NEW t, IsDistance(D, s, t), NEW w, NEW g \in Int, NEW r \in Nat,
           Starts(D, s, t, w, g, r), NEW e \in Nat,
           \A i \in 1 .. e : Meets(s, t, w + i, w - g + i),
           ~Meets(s, t, w + e + 1, w - g + e + 1)
    PROVE  Far(D, w + e, g, r)
<1>1. w \in Nat /\ w - g \in Nat /\ D[<<w, w - g>>] <= r
  BY DEF Starts
<1>2. PICK q \in Nat : q = w - g
  BY <1>1
<1> DEFINE T == { i \in 0 .. e : D[<<w + i, q + i>>] = D[<<w, q>>] }
<1>3. 0 \in T
  <2>1. w + 0 = w /\ q + 0 = q
    BY <1>1
  <2>2. QED BY <2>1
<1>4. \A i \in 1 .. e : i - 1 \in T => i \in T
  <2>1. SUFFICES ASSUME NEW i \in 1 .. e, D[<<w + (i - 1), q + (i - 1)>>] = D[<<w, q>>]
                 PROVE  D[<<w + i, q + i>>] = D[<<w, q>>]
    OBVIOUS
  <2> DEFINE b == w + (i - 1)
             c == q + (i - 1)
  <2>2. b \in Nat /\ c \in Nat /\ b + 1 = w + i /\ c + 1 = q + i
    BY <1>1
  <2>3. Meets(s, t, b + 1, c + 1)
    BY <1>2, <2>2
  <2> HIDE DEF b, c
  <2>4. D[<<b + 1, c + 1>>] = D[<<b, c>>]
    BY <2>2, <2>3 DEF IsDistance
  <2>5. D[<<b, c>>] = D[<<w, q>>]
    BY <2>1 DEF b, c
  <2>6. QED BY <2>2, <2>4, <2>5
<1> HIDE DEF T
<1>5. e \in T
  <2>1. e \in 0 .. e
    OBVIOUS
  <2>2. QED BY <1>3, <1>4, <2>1, UpTo
<1>6. D[<<w + e, q + e>>] <= r
  BY <1>1, <1>2, <1>5 DEF T
<1>7. w + e \in Nat /\ (w + e) - g = q + e /\ q + e \in Nat /\ w + e >= w
  BY <1>1, <1>2
<1>8. ~Meets(s, t, (w + e) + 1, (w + e) - g + 1)
  <2>1. ~Meets(s, t, w + e + 1, q + e + 1)
    BY <1>2
  <2>2. QED BY <1>7, <2>1
<1>9. ~(D[<<(w + e) + 1, (w + e) - g + 1>>] <= r)
  BY <1>7, <1>8 DEF Starts
<1>10. D[<<(w + e) + 1, (w + e) - g + 1>>] \in Nat
  <2>1. (w + e) + 1 \in Nat /\ (w + e) - g + 1 \in Nat
    BY <1>7
  <2>2. QED BY <2>1 DEF IsDistance
<1>11. QED BY <1>6, <1>7, <1>9, <1>10 DEF Far

\* And there are only equal lines between the two.
LEMMA FarAhead ==
    ASSUME NEW D, NEW s, NEW t, IsDistance(D, s, t), NEW w, NEW g \in Int, NEW r \in Nat,
           Starts(D, s, t, w, g, r), NEW u, Far(D, u, g, r)
    PROVE  /\ w \in Nat /\ w <= u
           /\ \A i \in w + 1 .. u : Meets(s, t, i, i - g)
<1>1. w \in Nat /\ w - g \in Nat /\ D[<<w, w - g>>] <= r
  BY DEF Starts
<1>2. w <= u
  BY <1>1, FarBounds
<1>3. u \in Nat /\ u - g \in Nat /\ D[<<u, u - g>>] <= r
  BY DEF Far
<1>4. ASSUME NEW i \in w + 1 .. u PROVE Meets(s, t, i, i - g)
  <2> DEFINE p == i - 1
             a == u - i
  <2>1. p \in Nat /\ p >= w /\ p + 1 = i /\ p - g + 1 = i - g /\ i \in Nat /\ i - g \in Nat
        /\ a \in Nat /\ i + a = u /\ (i - g) + a = u - g
    BY <1>1, <1>3
  <2> HIDE DEF p, a
  <2>2. D[<<i, i - g>>] <= D[<<i + a, (i - g) + a>>]
    <3> DEFINE c == i - g
    <3>1. c \in Nat
      BY <2>1
    <3> HIDE DEF c
    <3>2. D[<<i, c>>] <= D[<<i + a, c + a>>]
      BY <2>1, <3>1, DiagonalsRise
    <3>3. QED BY <3>2 DEF c
  <2>3. D[<<i, i - g>>] <= D[<<u, u - g>>]
    BY <2>1, <2>2
  <2>4. D[<<i, i - g>>] \in Nat /\ D[<<u, u - g>>] \in Nat
    BY <1>3, <2>1 DEF IsDistance
  <2>5. D[<<i, i - g>>] <= r
    BY <1>3, <2>3, <2>4
  <2>6. D[<<p + 1, p - g + 1>>] <= r => Meets(s, t, p + 1, p - g + 1)
    BY <2>1 DEF Starts
  <2>7. QED BY <2>1, <2>5, <2>6
<1>5. QED BY <1>1, <1>2, <1>4

-----------------------------------------------------------------------------
(* Parts of sequences *)

\* The part from the first element to the last is the sequence.
LEMMA WholePart ==
    ASSUME NEW S, NEW s \in Seq(S)
    PROVE  /\ SubSeq(s, 1, Len(s)) = s /\ SubSeq(s, 1, 0) = << >> /\ SubSeq(s, Len(s) + 1, Len(s)) = << >>
           /\ \A a \in Nat : SubSeq(s, a + 1, a) = << >>
OBVIOUS

-----------------------------------------------------------------------------
(* The regions between the anchors *)

\* What the proof needs of the chain: pairs of equal lines, ascending.
Anchored(c, s, t) ==
    /\ Len(c) \in Nat
    /\ \A a \in 1 .. Len(c) : /\ c[a][1] \in 1 .. Len(s) /\ c[a][2] \in 1 .. Len(t)
                              /\ s[c[a][1]] = t[c[a][2]]
    /\ \A a, b \in 1 .. Len(c) : a < b => c[a][1] < c[b][1] /\ c[a][2] < c[b][2]

\* The anchors kept are equal lines, ahead of one another on both sides.
LEMMA ChainAnchored == Given => Anchored(chain, old, new)
<1>1. SUFFICES ASSUME Given PROVE Anchored(chain, old, new)
  OBVIOUS
<1>2. old \in Seq(Lines) /\ new \in Seq(Lines)
  BY <1>1, TextsTyped
<1>3. CASE algorithm = "patience"
  <2> DEFINE A == Anchors(old, new)
             c == longest_increasing_subsequence(A)
  <2>1. chain = c
    BY <1>1, <1>3 DEF Given
  <2>2. /\ Len(old) \in Nat /\ DOMAIN old = 1 .. Len(old) /\ DOMAIN new = 1 .. Len(new)
        /\ DOMAIN new \subseteq Nat
    BY <1>2
  <2>3. Climbs(A) /\ Paired(old, new, A, Len(old))
    BY <2>2, AnchorsClimb, AnchorsArePaired
  <2> HIDE DEF A
  <2>4. IsChain(c, A)
    BY <2>3, ChainKept
  <2> HIDE DEF c
  <2>5. Len(c) \in Nat
    BY <2>4 DEF IsChain
  <2>6. \A j \in 1 .. Len(A) : A[j][1] \in 1 .. Len(old) /\ A[j][2] \in Mates(old, new, A[j][1])
    BY <2>3 DEF Paired
  <2>7. \A j \in 1 .. Len(A) : A[j][2] \in 1 .. Len(new) /\ old[A[j][1]] = new[A[j][2]]
    BY <2>2, <2>6 DEF Mates
  <2>8. \A a \in 1 .. Len(c) : \E j \in 1 .. Len(A) : c[a] = A[j]
    BY <2>4 DEF IsChain
  <2>9. \A a, b \in 1 .. Len(c) : a < b => c[a][1] < c[b][1] /\ c[a][2] < c[b][2]
    BY <2>4 DEF IsChain
  <2>10. Anchored(c, old, new)
    BY <2>5, <2>6, <2>7, <2>8, <2>9 DEF Anchored
  <2>11. QED BY <2>1, <2>10
<1>4. CASE algorithm = "myers"
  <2>1. chain = << >>
    BY <1>1, <1>4 DEF Given
  <2>2. Anchored(<< >>, old, new)
    BY DEF Anchored
  <2>3. QED BY <2>1, <2>2
<1>5. QED BY <1>1, <1>3, <1>4 DEF Given

\* How many lines of a side lie behind the anchor before the region, and how
\* many before the one after it.
Behind(side) == IF next = 1 THEN 0 ELSE chain[next - 1][side]
Ahead(text1, side) == IF next > Len(chain) THEN Len(text1) ELSE chain[next][side] - 1

\* The region at work lies between the anchor behind and the one ahead.
LEMMA RegionIs ==
    ASSUME Given, next \in 1 .. Len(chain) + 1
    PROVE  /\ Behind(1) \in Nat /\ Ahead(old, 1) \in Nat
           /\ Behind(1) <= Ahead(old, 1) /\ Ahead(old, 1) <= Len(old)
           /\ Behind(2) \in Nat /\ Ahead(new, 2) \in Nat
           /\ Behind(2) <= Ahead(new, 2) /\ Ahead(new, 2) <= Len(new)
           /\ Old = SubSeq(old, Behind(1) + 1, Ahead(old, 1)) /\ Old \in Seq(Lines) /\ n \in Nat
           /\ New = SubSeq(new, Behind(2) + 1, Ahead(new, 2)) /\ New \in Seq(Lines) /\ m \in Nat
<1>1. Anchored(chain, old, new) /\ old \in Seq(Lines) /\ new \in Seq(Lines)
  BY ChainAnchored, TextsTyped
<1> DEFINE c == chain
           L == Len(c)
           i == next
           N == Len(old)
           M == Len(new)
<1>2. L \in Nat /\ N \in Nat /\ M \in Nat /\ i \in 1 .. L + 1
  BY <1>1 DEF Anchored
<1>3. \A a \in 1 .. L : c[a][1] \in 1 .. N /\ c[a][2] \in 1 .. M
  BY <1>1 DEF Anchored
<1>4. \A a, b \in 1 .. L : a < b => c[a][1] < c[b][1] /\ c[a][2] < c[b][2]
  BY <1>1 DEF Anchored
<1>5. Old = SubSeq(old, Behind(1) + 1, Ahead(old, 1)) /\ New = SubSeq(new, Behind(2) + 1, Ahead(new, 2))
  <2>1. Old = SubSeq(old, IF next = 1 THEN 1 ELSE chain[next - 1][1] + 1, Ahead(old, 1))
    BY DEF Old, Region, Ahead
  <2>2. New = SubSeq(new, IF next = 1 THEN 1 ELSE chain[next - 1][2] + 1, Ahead(new, 2))
    BY DEF New, Region, Ahead
  <2>3. ASSUME NEW side PROVE (IF next = 1 THEN 1 ELSE chain[next - 1][side] + 1) = Behind(side) + 1
    BY DEF Behind
  <2>4. QED BY <2>1, <2>2, <2>3
<1>6. Behind(1) = (IF i = 1 THEN 0 ELSE c[i - 1][1]) /\ Behind(2) = (IF i = 1 THEN 0 ELSE c[i - 1][2])
  BY DEF Behind
<1>7. Ahead(old, 1) = (IF i > L THEN N ELSE c[i][1] - 1) /\ Ahead(new, 2) = (IF i > L THEN M ELSE c[i][2] - 1)
  BY DEF Ahead
<1> HIDE DEF c, L, i, N, M
<1>8. i # 1 => i - 1 \in 1 .. L
  BY <1>2
<1>9. ~(i > L) => i \in 1 .. L
  BY <1>2
<1>10. i # 1 /\ ~(i > L) => i - 1 < i
  BY <1>2
<1>11. /\ Behind(1) \in Nat /\ Ahead(old, 1) \in Nat /\ Behind(1) <= Ahead(old, 1) /\ Ahead(old, 1) <= N
  <2>1. Behind(1) \in 0 .. N
    BY <1>2, <1>3, <1>6, <1>8
  <2>2. Ahead(old, 1) \in 0 .. N
    BY <1>2, <1>3, <1>7, <1>9
  <2>3. CASE i = 1 \/ i > L
    BY <1>2, <1>6, <1>7, <2>1, <2>2, <2>3
  <2>4. CASE i # 1 /\ ~(i > L)
    <3>1. c[i - 1][1] < c[i][1]
      BY <1>4, <1>8, <1>9, <1>10, <2>4
    <3>2. c[i - 1][1] \in 1 .. N /\ c[i][1] \in 1 .. N
      BY <1>3, <1>8, <1>9, <2>4
    <3>3. QED BY <1>2, <1>6, <1>7, <2>1, <2>2, <2>4, <3>1, <3>2
  <2>5. QED BY <1>2, <2>1, <2>2, <2>3, <2>4
<1>12. /\ Behind(2) \in Nat /\ Ahead(new, 2) \in Nat /\ Behind(2) <= Ahead(new, 2) /\ Ahead(new, 2) <= M
  BY <1>2, <1>3, <1>4, <1>6, <1>7, <1>8, <1>9, <1>10, SMTT(30)
<1>13. Old \in Seq(Lines) /\ n \in Nat
  <2>1. SubSeq(old, Behind(1) + 1, Ahead(old, 1)) \in Seq(Lines)
    BY <1>1, <1>11, PartTyped DEF N
  <2>2. QED BY <1>5, <2>1 DEF n
<1>14. New \in Seq(Lines) /\ m \in Nat
  <2>1. SubSeq(new, Behind(2) + 1, Ahead(new, 2)) \in Seq(Lines)
    BY <1>1, <1>12, PartTyped DEF M
  <2>2. QED BY <1>5, <2>1 DEF m
<1>15. QED BY <1>5, <1>11, <1>12, <1>13, <1>14 DEF N, M

-----------------------------------------------------------------------------
(* The shortest way from s to t *)

Shortest(s, t) == Len(s) + Len(t) - 2 * CommonLength(s, t)
Distance(s, t) == CHOOSE D : IsDistance(D, s, t) /\ D[<<Len(s), Len(t)>>] = Shortest(s, t)

\* The table chosen is one of distances.
LEMMA DistanceIs ==
    ASSUME NEW s, NEW t, Len(s) \in Nat, Len(t) \in Nat
    PROVE  /\ IsDistance(Distance(s, t), s, t)
           /\ Distance(s, t)[<<Len(s), Len(t)>>] = Shortest(s, t)
<1>1. \E D : IsDistance(D, s, t) /\ D[<<Len(s), Len(t)>>] = Shortest(s, t)
  BY DistanceExists DEF Shortest
<1>2. QED BY <1>1 DEF Distance

\* Slide counts the equal lines up to the first that are not.
LEMMA SlideIs ==
    ASSUME n \in Nat, m \in Nat, NEW a \in Nat, NEW b \in Nat
    PROVE  /\ Slide(a, b) \in 0 .. n
           /\ \A i \in 1 .. Slide(a, b) : Meets(Old, New, a + i, b + i)
           /\ ~Meets(Old, New, a + Slide(a, b) + 1, b + Slide(a, b) + 1)
<1> DEFINE Meet(i) == a + i <= n /\ b + i <= m /\ Old[a + i] = New[b + i]
           Stuck(s) == ~(a + s < n /\ b + s < m /\ Old[a + s + 1] = New[b + s + 1])
           T == { w \in Nat : ~Meet(w + 1) }
<1>1. T \subseteq Nat
  OBVIOUS
<1>2. n \in T
  <2>1. ~(a + (n + 1) <= n)
    OBVIOUS
  <2>2. QED BY <2>1
<1>3. PICK s \in T : \A w \in T : s <= w
  <2> HIDE DEF T
  <2>1. QED BY <1>1, <1>2, LeastNatural
<1>4. s \in Nat /\ s <= n
  BY <1>2, <1>3
<1>5. Stuck(s)
  <2>1. ~(a + (s + 1) <= n /\ b + (s + 1) <= m /\ Old[a + (s + 1)] = New[b + (s + 1)])
    BY <1>3
  <2>2. a + (s + 1) = a + s + 1 /\ b + (s + 1) = b + s + 1
    BY <1>4
  <2>3. (a + s < n <=> a + s + 1 <= n) /\ (b + s < m <=> b + s + 1 <= m)
    BY <1>4
  <2>4. QED BY <2>1, <2>2, <2>3
<1>6. ASSUME NEW i \in 1 .. s PROVE Meet(i)
  <2>1. i - 1 \in Nat /\ ~(s <= i - 1) /\ (i - 1) + 1 = i
    BY <1>4
  <2>2. i - 1 \notin T
    BY <1>3, <2>1
  <2>3. QED BY <2>1, <2>2
<1>7. s \in 0 .. n
  BY <1>4
<1> HIDE DEF T, Stuck, Meet
<1>8. \E z \in 0 .. n : (\A i \in 1 .. z : Meet(i)) /\ Stuck(z)
  BY <1>5, <1>6, <1>7
<1>9. Slide(a, b) = CHOOSE z \in 0 .. n : (\A i \in 1 .. z : Meet(i)) /\ Stuck(z)
  BY DEF Slide, Meet, Stuck
<1> DEFINE e == Slide(a, b)
<1>10. e \in 0 .. n /\ (\A i \in 1 .. e : Meet(i)) /\ Stuck(e)
  BY <1>8, <1>9
<1> HIDE DEF e
<1>11. \A i \in 1 .. e : Meets(Old, New, a + i, b + i)
  BY <1>10 DEF Meet, Meets, n, m
<1>12. ~Meets(Old, New, a + e + 1, b + e + 1)
  <2>1. (a + e < n <=> a + e + 1 <= n) /\ (b + e < m <=> b + e + 1 <= m)
    BY <1>10
  <2>2. ~(a + e + 1 <= n /\ b + e + 1 <= m /\ Old[a + e + 1] = New[b + e + 1])
    BY <1>10, <2>1 DEF Stuck
  <2>3. QED BY <2>2 DEF Meets, n, m
<1>13. QED BY <1>10, <1>11, <1>12 DEF e

\* A prefix and the next element are the longer prefix.
LEMMA PrefixGrows ==
    ASSUME NEW S, NEW s \in Seq(S), NEW a \in Nat, NEW b \in Nat, a <= b, b <= Len(s)
    PROVE  /\ SubSeq(s, 1, a) \o SubSeq(s, a + 1, b) = SubSeq(s, 1, b)
           /\ b < Len(s) => SubSeq(s, 1, b) \o <<s[b + 1]>> = SubSeq(s, 1, b + 1)
<1>1. SubSeq(s, 1, a) \o SubSeq(s, a + 1, b) = SubSeq(s, 1, b)
  OBVIOUS
<1>2. ASSUME b < Len(s) PROVE SubSeq(s, 1, b) \o <<s[b + 1]>> = SubSeq(s, 1, b + 1)
  <2> DEFINE c == b + 1
  <2>1. c \in Nat /\ b <= c /\ c <= Len(s)
    BY <1>2
  <2>2. SubSeq(s, b + 1, c) = <<s[b + 1]>>
    BY <1>2, OnePart
  <2> HIDE DEF c
  <2>3. SubSeq(s, 1, b) \o SubSeq(s, b + 1, c) = SubSeq(s, 1, c)
    BY <2>1
  <2>4. QED BY <2>2, <2>3 DEF c
<1>3. QED BY <1>1, <1>2

-----------------------------------------------------------------------------
(* The script of the regions behind *)

Regions ==
    /\ next \in 1 .. Len(chain) + 2
    /\ script \in Seq(EditSet)
    /\ next <= Len(chain) + 1 =>
         OldSide(script) = SubSeq(old, 1, Behind(1)) /\ NewSide(script) = SubSeq(new, 1, Behind(2))
    /\ next = Len(chain) + 2 => OldSide(script) = old /\ NewSide(script) = new
    /\ next = 1 => script = << >>
    /\ algorithm = "myers" /\ next = 2 => Len(Changes(script)) = Shortest(old, new)
    /\ phase \in {"region", "forward", "back"}
    /\ phase # "region" => next <= Len(chain) + 1

\* A script of the region at work, and the anchor, lead to the next region.
LEMMA RegionEnds ==
    ASSUME Given, Regions, next <= Len(chain) + 1, UNCHANGED <<old, new, algorithm, chain>>,
           NEW part \in Seq(EditSet), OldSide(part) = Old, NewSide(part) = New,
           Len(Changes(part)) = Shortest(Old, New), EndRegion(part)
    PROVE  Regions'
<1> DEFINE N == Len(old)
           M == Len(new)
           L == Len(chain)
           tail == IF next > L THEN << >> ELSE <<Keep(old[chain[next][1]])>>
<1>1. Anchored(chain, old, new) /\ old \in Seq(Lines) /\ new \in Seq(Lines)
  BY ChainAnchored, TextsTyped
<1>2. L \in Nat /\ N \in Nat /\ M \in Nat
  BY <1>1 DEF Anchored
<1>3. next \in 1 .. L + 2 /\ next <= L + 1
  BY DEF Regions
<1>4. next \in 1 .. L + 1
  <2> HIDE DEF L
  <2>1. QED BY <1>2, <1>3
<1>5. PICK a \in Nat, b \in Nat, c \in Nat, e \in Nat :
        a = Behind(1) /\ b = Ahead(old, 1) /\ c = Behind(2) /\ e = Ahead(new, 2)
  BY <1>4, RegionIs
<1>6. /\ a <= b /\ b <= N /\ Old = SubSeq(old, a + 1, b)
      /\ c <= e /\ e <= M /\ New = SubSeq(new, c + 1, e)
  BY <1>4, <1>5, RegionIs
<1>7. OldSide(script) = SubSeq(old, 1, a) /\ NewSide(script) = SubSeq(new, 1, c) /\ script \in Seq(EditSet)
  BY <1>3, <1>5 DEF Regions
<1>8. script' = script \o part \o tail /\ next' = next + 1 /\ phase' = "region"
  BY DEF EndRegion
<1>9. /\ b = IF next > L THEN N ELSE chain[next][1] - 1
      /\ e = IF next > L THEN M ELSE chain[next][2] - 1
  BY <1>5 DEF Ahead
<1>10. ~(next > L) => /\ chain[next][1] \in 1 .. N /\ chain[next][2] \in 1 .. M
                      /\ old[chain[next][1]] = new[chain[next][2]]
  <2>1. ~(next > L) => next \in 1 .. L
    <3> HIDE DEF L
    <3>1. QED BY <1>2, <1>4
  <2>2. QED BY <1>1, <2>1 DEF Anchored
<1>11. tail \in Seq(EditSet) /\
       IF next > L THEN OldSide(tail) = << >> /\ NewSide(tail) = << >> /\ Len(Changes(tail)) = 0
       ELSE OldSide(tail) = <<old[b + 1]>> /\ NewSide(tail) = <<new[e + 1]>> /\ b < N /\ e < M
            /\ b + 1 = chain[next][1] /\ e + 1 = chain[next][2]
  <2>1. CASE next > L
    <3>1. tail = << >> /\ << >> \in Seq(EditSet) /\ Len(<< >>) = 0
      BY <2>1
    <3> HIDE DEF tail
    <3>2. QED BY <2>1, <3>1, SidesEmpty
  <2>2. CASE ~(next > L)
    <3> DEFINE l == old[chain[next][1]]
    <3>1. b + 1 = chain[next][1] /\ e + 1 = chain[next][2] /\ b < N /\ e < M
      <4>1. b = chain[next][1] - 1 /\ e = chain[next][2] - 1
        BY <1>9, <2>2
      <4>2. chain[next][1] \in 1 .. N /\ chain[next][2] \in 1 .. M
        BY <1>10, <2>2
      <4> DEFINE p == chain[next][1]
                 q == chain[next][2]
      <4>3. b = p - 1 /\ e = q - 1 /\ p \in 1 .. N /\ q \in 1 .. M
        BY <4>1, <4>2
      <4> HIDE DEF N, M, p, q
      <4>4. b + 1 = p /\ e + 1 = q /\ b < N /\ e < M
        BY <1>2, <4>3
      <4>5. QED BY <4>4 DEF p, q
    <3>2. l \in Lines /\ l = old[b + 1] /\ l = new[e + 1]
      BY <1>1, <1>10, <2>2, <3>1, SMTT(30)
    <3>3. tail = <<Keep(l)>>
      BY <2>2
    <3> HIDE DEF tail, l
    <3>4. Keep(l) \in EditSet /\ Keep(l).kind = "keep" /\ Keep(l).line = l
      BY <3>2, EditsAre
    <3>5. /\ LinesOf(<<Keep(l)>>, {"keep", "delete"}) = <<l>>
          /\ LinesOf(<<Keep(l)>>, {"keep", "insert"}) = <<l>>
      BY <3>4, LinesOfOne
    <3>6. <<Keep(l)>> \in Seq(EditSet)
      BY <3>4
    <3>7. QED BY <2>2, <3>1, <3>2, <3>3, <3>5, <3>6 DEF OldSide, NewSide
  <2>3. QED BY <2>1, <2>2
<1> HIDE DEF tail
<1>12. script \o part \in Seq(EditSet) /\ script' \in Seq(EditSet)
  BY <1>7, <1>8, <1>11
<1>13. OldSide(script \o part) = SubSeq(old, 1, b) /\ NewSide(script \o part) = SubSeq(new, 1, e)
  <2>1. OldSide(script \o part) = SubSeq(old, 1, a) \o SubSeq(old, a + 1, b)
    BY <1>6, <1>7, SidesConcat
  <2>2. NewSide(script \o part) = SubSeq(new, 1, c) \o SubSeq(new, c + 1, e)
    BY <1>6, <1>7, SidesConcat
  <2>3. QED BY <1>1, <1>6, <2>1, <2>2, PrefixGrows
<1>14. /\ OldSide(script') = SubSeq(old, 1, b) \o OldSide(tail)
       /\ NewSide(script') = SubSeq(new, 1, e) \o NewSide(tail)
       /\ Len(Changes(script')) = Len(Changes(script \o part)) + Len(Changes(tail))
  <2> DEFINE u == script \o part
  <2>1. u \in Seq(EditSet) /\ tail \in Seq(EditSet) /\ script' = u \o tail
    BY <1>8, <1>11, <1>12
  <2>2. OldSide(u) = SubSeq(old, 1, b) /\ NewSide(u) = SubSeq(new, 1, e)
    BY <1>13
  <2> HIDE DEF u
  <2>3. /\ OldSide(u \o tail) = OldSide(u) \o OldSide(tail)
        /\ NewSide(u \o tail) = NewSide(u) \o NewSide(tail)
        /\ Len(Changes(u \o tail)) = Len(Changes(u)) + Len(Changes(tail))
    BY <2>1, SidesConcat
  <2>4. QED BY <2>1, <2>2, <2>3 DEF u
<1>15. CASE next > L
  <2>1. next = L + 1 /\ next' = L + 2 /\ b = N /\ e = M
    <3> HIDE DEF L
    <3>1. QED BY <1>2, <1>4, <1>8, <1>9, <1>15
  <2>2. OldSide(script') = old /\ NewSide(script') = new
    <3>1. OldSide(script') = SubSeq(old, 1, N) \o << >> /\ NewSide(script') = SubSeq(new, 1, M) \o << >>
      BY <1>11, <1>14, <1>15, <2>1
    <3>2. SubSeq(old, 1, N) = old /\ SubSeq(new, 1, M) = new
      BY <1>1, WholePart
    <3>3. old \o << >> = old /\ new \o << >> = new
      BY <1>1
    <3>4. QED BY <3>1, <3>2, <3>3
  <2>3. ASSUME algorithm = "myers" PROVE Len(Changes(script')) = Shortest(old, new)
    <3>1. chain = << >>
      BY <2>3 DEF Given
    <3>2. L = 0 /\ next = 1
      BY <2>1, <3>1
    <3>3. script = << >> /\ a = 0 /\ c = 0
      BY <1>5, <3>2 DEF Regions, Behind
    <3>4. Old = old /\ New = new
      <4>1. Old = SubSeq(old, 1, N) /\ New = SubSeq(new, 1, M)
        BY <1>6, <2>1, <3>3
      <4>2. QED BY <1>1, <4>1, WholePart
    <3>5. script \o part = part
      BY <3>3
    <3>6. Len(Changes(tail)) = 0
      BY <1>11, <1>15
    <3>7. Len(Changes(part)) \in Nat
      BY SidesType
    <3>8. Len(Changes(script')) = Len(Changes(part)) + 0
      BY <1>14, <3>5, <3>6
    <3>9. Len(Changes(script')) = Len(Changes(part))
      <4> DEFINE p == Len(Changes(part))
                 q == Len(Changes(script'))
      <4>1. p \in Nat /\ q = p + 0
        BY <3>7, <3>8
      <4> HIDE DEF p, q
      <4>2. q = p
        BY <4>1
      <4>3. QED BY <4>2 DEF p, q
    <3>10. QED BY <3>4, <3>9
  <2> HIDE DEF L
  <2>4. next' \in 1 .. L + 2 /\ ~(next' <= L + 1) /\ next' # 1
    BY <1>2, <2>1
  <2>5. QED BY <1>8, <1>12, <2>1, <2>2, <2>3, <2>4 DEF Regions, L
<1>16. CASE ~(next > L)
  <2>1. next \in 1 .. L /\ next' \in 1 .. L + 2 /\ next' # L + 2 /\ next' # 1 /\ next' - 1 = next
    <3> HIDE DEF L
    <3>1. QED BY <1>2, <1>4, <1>8, <1>16
  <2>2. Behind(1)' = b + 1 /\ Behind(2)' = e + 1
    <3>1. Behind(1)' = chain[next][1] /\ Behind(2)' = chain[next][2]
      BY <2>1 DEF Behind
    <3>2. QED BY <1>11, <1>16, <3>1
  <2>3. OldSide(script') = SubSeq(old, 1, b + 1)
    <3>1. OldSide(script') = SubSeq(old, 1, b) \o <<old[b + 1]>> /\ b < N
      BY <1>11, <1>14, <1>16
    <3>2. QED BY <1>1, <1>6, <3>1, PrefixGrows
  <2>4. NewSide(script') = SubSeq(new, 1, e + 1)
    <3>1. NewSide(script') = SubSeq(new, 1, e) \o <<new[e + 1]>> /\ e < M
      BY <1>11, <1>14, <1>16
    <3>2. QED BY <1>1, <1>6, <3>1, PrefixGrows
  <2>5. algorithm = "patience"
    <3>1. L # 0
      <4> HIDE DEF L
      <4>1. QED BY <1>2, <2>1
    <3>2. algorithm # "myers"
      BY <3>1 DEF Given
    <3>3. QED BY <3>2 DEF Given
  <2>6. QED BY <1>8, <1>12, <2>1, <2>2, <2>3, <2>4, <2>5 DEF Regions, L
<1>17. QED BY <1>15, <1>16

-----------------------------------------------------------------------------
(* What the arrays of the trace hold *)

\* An array when round r begins: on the diagonals of the other parity, the
\* farthest positions of the round before.
Before(D, w, r) ==
    /\ r = 0 => w[1] = 0
    /\ \A g \in -(r - 1) .. r - 1 : (g + r) % 2 = 1 => Far(D, w[g], g, r - 1)

\* The position a diagonal is entered at in round r.
Entry(w, r, g) == IF ComesDown(w, r, g) THEN w[g + 1] ELSE w[g - 1] + 1

\* Where a diagonal is entered is one change from where the array leads.
LEMMA EntryStarts ==
    ASSUME NEW D, NEW s, NEW t, IsDistance(D, s, t), NEW w, NEW r \in Nat, NEW g \in -r .. r,
           (g + r) % 2 = 0, Before(D, w, r)
    PROVE  /\ Starts(D, s, t, Entry(w, r, g), g, r)
           /\ r = 0 => g = 0 /\ ComesDown(w, r, g) /\ Entry(w, r, g) = 0
           /\ r > 0 /\ ComesDown(w, r, g) => Far(D, Entry(w, r, g), g + 1, r - 1)
           /\ r > 0 /\ ~ComesDown(w, r, g) => Far(D, Entry(w, r, g) - 1, g - 1, r - 1)
           /\ ~ComesDown(w, r, g) => w[g - 1] = Entry(w, r, g) - 1
<1>1. CASE r = 0
  <2>1. g = 0 /\ g = -r /\ g + 1 = 1
    <3>1. -r <= g /\ g <= r /\ g \in Int
      OBVIOUS
    <3>2. g = 0
      BY <1>1, <3>1
    <3>3. g = -r
      <4>1. -r = 0 - r
        OBVIOUS
      <4>2. 0 - r = 0
        BY <1>1
      <4>3. QED BY <3>2, <4>1, <4>2
    <3>4. g + 1 = 1
      BY <3>2
    <3>5. QED BY <3>2, <3>3, <3>4
  <2>2. ComesDown(w, r, g)
    BY <2>1 DEF ComesDown
  <2>3. w[1] = 0
    BY <1>1, Zenon DEF Before
  <2>4. Entry(w, r, g) = 0
    BY <2>1, <2>2, <2>3 DEF Entry
  <2>5. Starts(D, s, t, Entry(w, r, g), g, r)
    BY <1>1, <2>1, <2>4, StartsAtFirst
  <2>6. ~(r > 0)
    BY <1>1
  <2>7. QED BY <2>1, <2>2, <2>4, <2>5, <2>6
<1>2. CASE r # 0
  <2>1. r > 0
    BY <1>2
  <2> DEFINE a == w[g - 1]
             b == w[g + 1]
             e == g - 1
             z == g + 1
  <2>2. ASSUME g # -r PROVE Far(D, a, g - 1, r - 1)
    <3>1. e \in -(r - 1) .. r - 1 /\ (e + r) % 2 = 1
      BY <2>1, <2>2
    <3> HIDE DEF e
    <3>2. Far(D, w[e], e, r - 1)
      BY <3>1 DEF Before
    <3>3. QED BY <3>2 DEF e
  <2>3. ASSUME g # r PROVE Far(D, b, g + 1, r - 1)
    <3>1. z \in -(r - 1) .. r - 1 /\ (z + r) % 2 = 1
      BY <2>1, <2>3
    <3> HIDE DEF z
    <3>2. Far(D, w[z], z, r - 1)
      BY <3>1 DEF Before
    <3>3. QED BY <3>2 DEF z
  <2>4. Entry(w, r, g) = IF g = -r \/ (g # r /\ a < b) THEN b ELSE a + 1
    BY DEF Entry, ComesDown
  <2>5. ComesDown(w, r, g) <=> g = -r \/ (g # r /\ a < b)
    BY DEF ComesDown
  <2> HIDE DEF a, b
  <2>6. Starts(D, s, t, Entry(w, r, g), g, r)
    BY <2>1, <2>2, <2>3, <2>4, StartsFrom
  <2>7. ComesDown(w, r, g) => g # r /\ Entry(w, r, g) = b
    BY <2>1, <2>4, <2>5
  <2>8. ASSUME ~ComesDown(w, r, g) PROVE Far(D, Entry(w, r, g) - 1, g - 1, r - 1) /\ a = Entry(w, r, g) - 1
    <3>1. g # -r /\ Entry(w, r, g) = a + 1
      BY <2>4, <2>5, <2>8
    <3>2. Far(D, a, g - 1, r - 1)
      BY <2>2, <3>1
    <3>3. a \in Nat
      BY <3>2 DEF Far
    <3>4. (a + 1) - 1 = a
      BY <3>3
    <3>5. QED BY <3>1, <3>2, <3>4
  <2>9. QED BY <1>2, <2>3, <2>6, <2>7, <2>8 DEF a
<1>3. QED BY <1>1, <1>2

\* An array keeps what it held of the other parity.
LEMMA BeforeStays ==
    ASSUME NEW D, NEW r \in Nat, NEW B \in Nat, r <= B, B > 0, NEW w, DOMAIN w = -B .. B, Before(D, w, r),
           NEW g \in Int, (g + r) % 2 = 0, NEW u
    PROVE  Before(D, [w EXCEPT ![g] = u], r)
<1> DEFINE q == [w EXCEPT ![g] = u]
<1>1. \A h \in -B .. B : h # g => q[h] = w[h]
  OBVIOUS
<1> HIDE DEF q
<1>2. ASSUME r = 0 PROVE q[1] = 0
  <2>1. 1 \in -B .. B /\ 1 # g
    BY <1>2
  <2>2. w[1] = 0
    BY <1>2, Zenon DEF Before
  <2>3. QED BY <1>1, <2>1, <2>2
<1>3. ASSUME NEW h \in -(r - 1) .. r - 1, (h + r) % 2 = 1 PROVE Far(D, q[h], h, r - 1)
  <2>1. h \in -B .. B /\ h # g
    BY <1>3
  <2>2. Far(D, w[h], h, r - 1)
    BY <1>3 DEF Before
  <2>3. QED BY <1>1, <2>1, <2>2
<1>4. Before(D, q, r)
  BY <1>2, <1>3 DEF Before
<1>5. QED BY <1>4 DEF q

\* Sequences with the same elements are equal.
LEMMA SameSequence ==
    ASSUME NEW S, NEW s \in Seq(S), NEW t \in Seq(S), Len(s) = Len(t), \A i \in 1 .. Len(s) : s[i] = t[i]
    PROVE  s = t
OBVIOUS

\* Two parts of s make the whole from a on.
Joins(s, a, b, c) == SubSeq(s, a + 1, b) \o SubSeq(s, b + 1, c) = SubSeq(s, a + 1, c)

\* AdjacentRun is Adjacent with its parts named.
LEMMA AdjacentRun ==
    ASSUME NEW S, NEW s \in Seq(S), NEW N \in Nat, N = Len(s), NEW a \in Nat, NEW z \in Nat, a + z <= N
    PROVE  Joins(s, a, a + z, N)
<1> DEFINE c == a + z
<1>1. c \in Nat /\ a <= c /\ c <= N /\ N <= Len(s)
  OBVIOUS
<1> HIDE DEF c
<1>2. SubSeq(s, a + 1, c) \o SubSeq(s, c + 1, N) = SubSeq(s, a + 1, N)
  BY <1>1, Adjacent, ZenonT(40)
<1>3. QED BY <1>2 DEF c, Joins

\* Lines kept before the edits e make a script from u to w.
LeadsOn(kept, e, u, w) ==
    /\ kept \in Seq(EditSet) /\ kept \o e \in Seq(EditSet)
    /\ OldSide(kept \o e) = u /\ NewSide(kept \o e) = w
    /\ Len(Changes(kept \o e)) = Len(Changes(e))

\* The lines kept between two points of a diagonal.
LEMMA KeptRun ==
    ASSUME NEW s \in Seq(Lines), NEW t \in Seq(Lines), NEW N \in Nat, NEW M \in Nat, N = Len(s), M = Len(t),
           NEW a \in Nat, NEW b \in Nat, NEW z \in Nat, a + z <= N, b + z <= M,
           \A i \in 1 .. z : s[a + i] = t[b + i],
           NEW e \in Seq(EditSet),
           OldSide(e) = SubSeq(s, a + z + 1, N), NewSide(e) = SubSeq(t, b + z + 1, M)
    PROVE  LeadsOn([i \in 1 .. z |-> Keep(s[a + i])], e, SubSeq(s, a + 1, N), SubSeq(t, b + 1, M))
<1> DEFINE kept == [i \in 1 .. z |-> Keep(s[a + i])]
           p == SubSeq(s, a + 1, a + z)
           q == SubSeq(t, b + 1, b + z)
<1>1. p \in Seq(Lines) /\ Len(p) = z /\ \A i \in 1 .. z : p[i] = s[a + i]
  <2> DEFINE c == a + z
  <2>1. c \in Nat /\ a <= c /\ c <= Len(s) /\ c - a = z
    OBVIOUS
  <2> HIDE DEF c
  <2>2. /\ SubSeq(s, a + 1, c) \in Seq(Lines) /\ Len(SubSeq(s, a + 1, c)) = c - a
        /\ \A i \in 1 .. c - a : SubSeq(s, a + 1, c)[i] = s[a + i]
    BY <2>1, PartTyped
  <2>3. QED BY <2>1, <2>2 DEF c
<1>2. q \in Seq(Lines) /\ Len(q) = z /\ \A i \in 1 .. z : q[i] = t[b + i]
  <2> DEFINE c == b + z
  <2>1. c \in Nat /\ b <= c /\ c <= Len(t) /\ c - b = z
    OBVIOUS
  <2> HIDE DEF c
  <2>2. /\ SubSeq(t, b + 1, c) \in Seq(Lines) /\ Len(SubSeq(t, b + 1, c)) = c - b
        /\ \A i \in 1 .. c - b : SubSeq(t, b + 1, c)[i] = t[b + i]
    BY <2>1, PartTyped
  <2>3. QED BY <2>1, <2>2 DEF c
<1> HIDE DEF p, q
<1>3. p = q
  <2>1. Len(p) = Len(q) /\ \A i \in 1 .. Len(p) : p[i] = q[i]
    BY <1>1, <1>2
  <2>2. QED BY <1>1, <1>2, <2>1, SameSequence
<1>4. kept \in Seq(EditSet) /\ Len(kept) = z /\ \A i \in 1 .. z : kept[i] = Keep(p[i])
  <2>1. \A i \in 1 .. z : p[i] \in Lines
    BY <1>1
  <2>2. \A i \in 1 .. z : Keep(s[a + i]) \in EditSet
    BY <1>1, <2>1, EditsAre
  <2>3. kept \in [1 .. z -> EditSet]
    BY <2>2
  <2> HIDE DEF kept
  <2>4. kept \in Seq(EditSet) /\ Len(kept) = z
    <3>1. kept \in Seq(EditSet)
      BY <2>3, SeqDef
    <3>2. DOMAIN kept = 1 .. z
      BY <2>3
    <3>3. QED BY <3>1, <3>2, LenProperties
  <2>5. QED BY <1>1, <2>4 DEF kept
<1> HIDE DEF kept
<1>5. OldSide(kept) = p /\ NewSide(kept) = p /\ Len(Changes(kept)) = 0
  <2>1. \A i \in 1 .. Len(p) : kept[i] = [kind |-> "keep", line |-> p[i]]
    BY <1>1, <1>4 DEF Keep
  <2>2. /\ "keep" \in {"keep", "delete", "insert"} /\ Len(kept) = Len(p)
        /\ "keep" # "insert" /\ "keep" # "delete"
    BY <1>1, <1>4
  <2>3. /\ OldSide(kept) = IF "keep" = "insert" THEN << >> ELSE p
        /\ NewSide(kept) = IF "keep" = "delete" THEN << >> ELSE p
        /\ Len(Changes(kept)) = IF "keep" = "keep" THEN 0 ELSE Len(p)
    BY <1>1, <1>4, <2>1, <2>2, SidesOfRun
  <2>4. QED BY <2>2, <2>3
<1>6. /\ OldSide(kept \o e) = p \o SubSeq(s, a + z + 1, N)
      /\ NewSide(kept \o e) = q \o SubSeq(t, b + z + 1, M)
      /\ Len(Changes(kept \o e)) = 0 + Len(Changes(e))
  BY <1>3, <1>4, <1>5, SidesConcat, Zenon
<1>7. p \o SubSeq(s, a + z + 1, N) = SubSeq(s, a + 1, N)
  <2>1. Joins(s, a, a + z, N)
    BY AdjacentRun
  <2>2. QED BY <2>1 DEF Joins, p
<1>8. q \o SubSeq(t, b + z + 1, M) = SubSeq(t, b + 1, M)
  <2>1. Joins(t, b, b + z, M)
    BY AdjacentRun
  <2>2. QED BY <2>1 DEF Joins, q
<1>9. Len(Changes(kept \o e)) = Len(Changes(e))
  <2> DEFINE c == Len(Changes(e))
             f == Len(Changes(kept \o e))
  <2>1. c \in Nat /\ f = 0 + c
    BY <1>6, SidesType
  <2> HIDE DEF c, f
  <2>2. f = c
    BY <2>1
  <2>3. QED BY <2>2 DEF c, f
<1>10. kept \o e \in Seq(EditSet)
  BY <1>4
<1>11. QED BY <1>4, <1>6, <1>7, <1>8, <1>9, <1>10, Zenon DEF kept, LeadsOn

\* One change more, at the front.
LEMMA ChangeBefore ==
    ASSUME NEW s \in Seq(Lines), NEW N \in Nat, N = Len(s), NEW b \in Nat, b < N, NEW e \in Seq(EditSet)
    PROVE  /\ <<Insert(s[b + 1])>> \o e \in Seq(EditSet) /\ <<Delete(s[b + 1])>> \o e \in Seq(EditSet)
           /\ OldSide(<<Insert(s[b + 1])>> \o e) = OldSide(e)
           /\ NewSide(<<Delete(s[b + 1])>> \o e) = NewSide(e)
           /\ Len(Changes(<<Insert(s[b + 1])>> \o e)) = 1 + Len(Changes(e))
           /\ Len(Changes(<<Delete(s[b + 1])>> \o e)) = 1 + Len(Changes(e))
           /\ NewSide(e) = SubSeq(s, b + 2, N) =>
                NewSide(<<Insert(s[b + 1])>> \o e) = SubSeq(s, b + 1, N)
           /\ OldSide(e) = SubSeq(s, b + 2, N) =>
                OldSide(<<Delete(s[b + 1])>> \o e) = SubSeq(s, b + 1, N)
<1> DEFINE l == s[b + 1]
           i == <<Insert(l)>>
           d1 == <<Delete(l)>>
<1>1. l \in Lines
  OBVIOUS
<1>2. <<l>> \o SubSeq(s, b + 2, N) = SubSeq(s, b + 1, N)
  <2> DEFINE c == b + 1
  <2>1. c \in Nat /\ b <= c /\ c <= Len(s) /\ c + 1 = b + 2 /\ c <= N /\ N <= Len(s)
    OBVIOUS
  <2>2. SubSeq(s, b + 1, c) = <<l>>
    BY OnePart
  <2> HIDE DEF c, l
  <2>3. SubSeq(s, b + 1, c) \o SubSeq(s, c + 1, N) = SubSeq(s, b + 1, N)
    BY <2>1, Adjacent, ZenonT(40)
  <2>4. QED BY <2>1, <2>2, <2>3
<1> HIDE DEF l
<1>3. /\ Insert(l) \in EditSet /\ Insert(l).kind = "insert" /\ Insert(l).line = l
      /\ Delete(l) \in EditSet /\ Delete(l).kind = "delete" /\ Delete(l).line = l
  BY <1>1, EditsAre
<1>4. i \in Seq(EditSet) /\ d1 \in Seq(EditSet)
  BY <1>3
<1>5. /\ OldSide(i) = << >> /\ NewSide(i) = <<l>> /\ Changes(i) = <<l>>
      /\ OldSide(d1) = <<l>> /\ NewSide(d1) = << >> /\ Changes(d1) = <<l>>
  BY <1>3, LinesOfOne DEF OldSide, NewSide, Changes
<1>6. Len(<<l>>) = 1
  OBVIOUS
<1>7. OldSide(e) \in Seq(Lines) /\ NewSide(e) \in Seq(Lines)
  BY SidesType
<1>8. << >> \o OldSide(e) = OldSide(e) /\ << >> \o NewSide(e) = NewSide(e)
  BY <1>7
<1> HIDE DEF i, d1
<1>9. i \o e \in Seq(EditSet) /\ d1 \o e \in Seq(EditSet)
  BY <1>4
<1>10. /\ OldSide(i \o e) = OldSide(e) /\ NewSide(i \o e) = <<l>> \o NewSide(e)
       /\ Len(Changes(i \o e)) = 1 + Len(Changes(e))
  BY <1>4, <1>5, <1>6, <1>8, SidesConcat, ZenonT(40)
<1>11. /\ OldSide(d1 \o e) = <<l>> \o OldSide(e) /\ NewSide(d1 \o e) = NewSide(e)
       /\ Len(Changes(d1 \o e)) = 1 + Len(Changes(e))
  BY <1>4, <1>5, <1>6, <1>8, SidesConcat, ZenonT(40)
<1>12. QED BY <1>2, <1>9, <1>10, <1>11 DEF i, d1, l

\* The edits e1 lead from u to w, with a change more than e.
LeadsBy(e1, e, u, w) ==
    /\ e1 \in Seq(EditSet) /\ OldSide(e1) = u /\ NewSide(e1) = w
    /\ Len(Changes(e1)) = 1 + Len(Changes(e))

\* An insertion in front of what leads on.
LEMMA InsertBefore ==
    ASSUME NEW s \in Seq(Lines), NEW N \in Nat, N = Len(s), NEW b \in Nat, b < N, NEW e \in Seq(EditSet),
           NewSide(e) = SubSeq(s, b + 2, N)
    PROVE  LeadsBy(<<Insert(s[b + 1])>> \o e, e, OldSide(e), SubSeq(s, b + 1, N))
<1> DEFINE u == <<Insert(s[b + 1])>> \o e
<1>1. /\ u \in Seq(EditSet) /\ OldSide(u) = OldSide(e) /\ NewSide(u) = SubSeq(s, b + 1, N)
      /\ Len(Changes(u)) = 1 + Len(Changes(e))
  BY ChangeBefore, ZenonT(40)
<1> HIDE DEF u
<1>2. LeadsBy(u, e, OldSide(e), SubSeq(s, b + 1, N))
  BY <1>1 DEF LeadsBy
<1>3. QED BY <1>2 DEF u

\* A deletion in front of what leads on.
LEMMA DeleteBefore ==
    ASSUME NEW s \in Seq(Lines), NEW N \in Nat, N = Len(s), NEW b \in Nat, b < N, NEW e \in Seq(EditSet),
           OldSide(e) = SubSeq(s, b + 2, N)
    PROVE  LeadsBy(<<Delete(s[b + 1])>> \o e, e, SubSeq(s, b + 1, N), NewSide(e))
<1> DEFINE u == <<Delete(s[b + 1])>> \o e
<1>1. /\ u \in Seq(EditSet) /\ NewSide(u) = NewSide(e) /\ OldSide(u) = SubSeq(s, b + 1, N)
      /\ Len(Changes(u)) = 1 + Len(Changes(e))
  <2>1. u \in Seq(EditSet) /\ NewSide(u) = NewSide(e)
    BY ChangeBefore, ZenonT(40)
  <2>2. Len(Changes(u)) = 1 + Len(Changes(e))
    BY ChangeBefore
  <2>3. OldSide(u) = SubSeq(s, b + 1, N)
    BY ChangeBefore, ZenonT(40)
  <2>4. QED BY <2>1, <2>2, <2>3
<1> HIDE DEF u
<1>2. LeadsBy(u, e, SubSeq(s, b + 1, N), NewSide(e))
  BY <1>1 DEF LeadsBy
<1>3. QED BY <1>2 DEF u

\* How many equal lines the walk back takes.
Slips(p, q, back, low) == Max({ s \in 0 .. p : p - s >= back /\ q - s >= low })

Stops(p, q, F, back, low) ==
    /\ p \in Nat /\ q \in Nat /\ F \in Nat /\ F <= p /\ back \in Int /\ low \in Int
    /\ \/ back = F /\ low = q - (p - F) - 1
       \/ back = F - 1 /\ low = q - (p - F)

\* How far the walk back slides is how far it can before the change.
LEMMA SlidIs ==
    ASSUME NEW p, NEW q, NEW F, NEW back, NEW low, Stops(p, q, F, back, low)
    PROVE  Slips(p, q, back, low) = p - F
<1> DEFINE T == { s \in 0 .. p : p - s >= back /\ q - s >= low }
           z == p - F
<1>1. z \in T /\ \A w \in T : z >= w
  BY DEF Stops
<1>2. T \subseteq Int /\ z \in Int
  BY DEF Stops
<1> HIDE DEF T, z
<1>3. \A w \in T : (\A u \in T : w >= u) => w = z
  BY <1>1, <1>2
<1>4. (CHOOSE w \in T : \A u \in T : w >= u) = z
  BY <1>1, <1>3
<1>5. QED BY <1>4 DEF Slips, Max, T, z

-----------------------------------------------------------------------------
(* Myers' search and its way back *)

Dist   == Distance(Old, New)
Arrays == [-(n + m) .. n + m -> Nat]

\* In the forward search: every array kept holds the farthest positions of
\* its rounds, and the end has not been passed.
Tracing ==
    /\ n > 0 /\ m > 0
    /\ d \in Nat /\ k \in -d .. d /\ (k + d) % 2 = 0
    /\ d <= Dist[<<n, m>>] /\ (d = Dist[<<n, m>>] => k <= n - m)
    /\ v \in Arrays /\ Before(Dist, v, d)
    /\ \A g \in -d .. k - 1 : (g + d) % 2 = 0 => Far(Dist, v[g], g, d)
    /\ snapshots \in Seq(Arrays) /\ Len(snapshots) = d
    /\ \A r \in 0 .. d - 1 : Before(Dist, snapshots[r + 1], r)

\* On the way back: the point is the farthest of its round, and the edits lead
\* from there to the end with the changes that the rounds behind leave.
WalkingBack ==
    /\ snapshots \in Seq(Arrays) /\ Len(snapshots) > 0
    /\ \A r \in 0 .. Len(snapshots) - 1 : Before(Dist, snapshots[r + 1], r)
    /\ x \in 0 .. n /\ y \in 0 .. m
    /\ (x - y + Len(snapshots) - 1) % 2 = 0
    /\ Far(Dist, x, x - y, Len(snapshots) - 1)
    /\ edits \in Seq(EditSet)
    /\ OldSide(edits) = SubSeq(Old, x + 1, n) /\ NewSide(edits) = SubSeq(New, y + 1, m)
    /\ Len(Changes(edits)) + (Len(snapshots) - 1) = Dist[<<n, m>>]

Searching ==
    /\ Given /\ Regions
    /\ phase = "forward" => Tracing
    /\ phase = "back" => WalkingBack

\* Distance is a table of distances for the region at work.
LEMMA DistIs ==
    ASSUME Given, next \in 1 .. Len(chain) + 1
    PROVE  /\ n \in Nat /\ m \in Nat /\ Old \in Seq(Lines) /\ New \in Seq(Lines)
           /\ IsDistance(Dist, Old, New) /\ Dist[<<n, m>>] = Shortest(Old, New)
           /\ Dist[<<n, m>>] \in Nat /\ Dist[<<n, m>>] <= n + m
           /\ n - m <= Dist[<<n, m>>] /\ m - n <= Dist[<<n, m>>]
           /\ \E h \in Int : Dist[<<n, m>>] = n - m + 2 * h
<1>1. n \in Nat /\ m \in Nat /\ Old \in Seq(Lines) /\ New \in Seq(Lines)
  BY RegionIs
<1>2. Len(Old) \in Nat /\ Len(New) \in Nat
  BY <1>1 DEF n, m
<1>3. IsDistance(Dist, Old, New) /\ Dist[<<n, m>>] = Shortest(Old, New)
  BY <1>2, DistanceIs DEF Dist, n, m
<1> HIDE DEF n, m, Old, New, Dist
<1>4. Dist[<<n, m>>] \in Nat /\ Dist[<<n, m>>] <= n + m
  BY <1>1, <1>3 DEF IsDistance
<1>5. /\ n - m <= Dist[<<n, m>>] /\ m - n <= Dist[<<n, m>>]
      /\ \E h \in Int : Dist[<<n, m>>] = n - m + 2 * h
  BY <1>1, <1>3, DistanceBounds
<1>6. QED BY <1>1, <1>3, <1>4, <1>5

\* Where the region and what it is cut from stay, its parts stay.
LEMMA SameRegion ==
    ASSUME UNCHANGED <<old, new, algorithm, chain, next>>
    PROVE  /\ Old' = Old /\ New' = New /\ n' = n /\ m' = m /\ Dist' = Dist /\ Arrays' = Arrays
           /\ Given => Given'
           /\ Regions /\ UNCHANGED script /\ phase' \in {"region", "forward", "back"}
                /\ (phase' # "region" => next <= Len(chain) + 1) => Regions'
<1>1. Old' = Old /\ New' = New
  BY DEF Old, New, Region
<1>2. n' = n /\ m' = m
  BY <1>1 DEF n, m
<1>3. Dist' = Dist
  BY <1>1 DEF Dist
<1>4. Arrays' = Arrays
  BY <1>2 DEF Arrays
<1>5. Given => Given'
  BY DEF Given
<1>6. ASSUME Regions, UNCHANGED script, phase' \in {"region", "forward", "back"},
             phase' # "region" => next <= Len(chain) + 1
      PROVE  Regions'
  <2>1. Behind(1)' = Behind(1) /\ Behind(2)' = Behind(2)
    BY DEF Behind
  <2>2. QED BY <1>6, <2>1 DEF Regions
<1>7. QED BY <1>1, <1>2, <1>3, <1>4, <1>5, <1>6

\* The forward search finds the farthest position of its round.
LEMMA ReachedFar ==
    ASSUME Given, next \in 1 .. Len(chain) + 1, Tracing
    PROVE  Far(Dist, Reached, k, d)
<1>1. n \in Nat /\ m \in Nat /\ IsDistance(Dist, Old, New)
  BY DistIs
<1>2. d \in Nat /\ k \in -d .. d /\ (k + d) % 2 = 0 /\ Before(Dist, v, d)
  BY DEF Tracing
<1> DEFINE a == Entry(v, d, k)
           e == Slide(a, a - k)
<1>3. Reached = a + e
  BY DEF Reached, Entry
<1> HIDE DEF a
<1>4. Starts(Dist, Old, New, a, k, d)
  BY <1>1, <1>2, EntryStarts DEF a
<1>5. a \in Nat /\ a - k \in Nat
  BY <1>4 DEF Starts
<1>6. /\ e \in 0 .. n
      /\ \A i \in 1 .. e : Meets(Old, New, a + i, a - k + i)
      /\ ~Meets(Old, New, a + e + 1, a - k + e + 1)
  <2> DEFINE b == a - k
  <2>1. b \in Nat
    BY <1>5
  <2> HIDE DEF b
  <2>2. /\ Slide(a, b) \in 0 .. n
        /\ \A i \in 1 .. Slide(a, b) : Meets(Old, New, a + i, b + i)
        /\ ~Meets(Old, New, a + Slide(a, b) + 1, b + Slide(a, b) + 1)
    BY <1>1, <1>5, <2>1, SlideIs
  <2>3. QED BY <2>2 DEF b
<1> HIDE DEF e
<1>7. e \in Nat /\ k \in Int
  BY <1>1, <1>2, <1>6
<1>8. Far(Dist, a + e, k, d)
  BY <1>1, <1>2, <1>4, <1>6, <1>7, SlidesFar
<1>9. QED BY <1>3, <1>8

\* A trace begins with nothing to account for.
LEMMA TraceStarts ==
    ASSUME Searching, StartTrace
    PROVE  Tracing' /\ Regions' /\ Given'
<1>1. /\ phase = "region" /\ next <= Len(chain) + 1 /\ n > 0 /\ m > 0
      /\ v' = [i \in -(n + m) .. n + m |-> 0]
      /\ d' = 0 /\ k' = 0 /\ snapshots' = << >> /\ phase' = "forward"
      /\ UNCHANGED <<old, new, algorithm, chain, next>> /\ UNCHANGED script
  BY DEF StartTrace, InRegion
<1>2. next \in 1 .. Len(chain) + 1
  <2>1. next \in 1 .. Len(chain) + 2 /\ Anchored(chain, old, new)
    BY ChainAnchored DEF Searching, Regions
  <2>2. Len(chain) \in Nat
    BY <2>1 DEF Anchored
  <2> DEFINE L == Len(chain)
  <2>3. L \in Nat /\ next \in 1 .. L + 2 /\ next <= L + 1
    BY <1>1, <2>1, <2>2
  <2> HIDE DEF L
  <2>4. next \in 1 .. L + 1
    BY <2>3
  <2>5. QED BY <2>4 DEF L
<1>3. /\ n \in Nat /\ m \in Nat /\ Dist[<<n, m>>] \in Nat /\ m - n <= Dist[<<n, m>>]
  BY <1>2, DistIs DEF Searching
<1>4. /\ n' = n /\ m' = m /\ Dist' = Dist /\ Arrays' = Arrays /\ Regions' /\ Given'
  <2>1. phase' \in {"region", "forward", "back"} /\ (phase' # "region" => next <= Len(chain) + 1)
    BY <1>1
  <2>2. QED BY <1>1, <2>1, SameRegion DEF Searching
<1> HIDE DEF n, m, Dist
<1>5. v' \in Arrays /\ v'[1] = 0
  <2>1. 1 \in -(n + m) .. n + m
    BY <1>1, <1>3
  <2>2. QED BY <1>1, <2>1 DEF Arrays
<1>6. Before(Dist, v', 0)
  <2>1. \A g \in -(0 - 1) .. 0 - 1 : FALSE
    <3>1. \A a \in Int : a < 0 => -a .. a = {}
      OBVIOUS
    <3>2. 0 - 1 \in Int /\ 0 - 1 < 0
      OBVIOUS
    <3>3. QED BY <3>1, <3>2, Zenon
  <2>2. QED BY <1>5, <2>1, Zenon DEF Before
<1>7. 0 <= Dist[<<n, m>>] /\ (0 = Dist[<<n, m>>] => 0 <= n - m)
  BY <1>3
<1>8. << >> \in Seq(Arrays) /\ Len(<< >>) = 0
  OBVIOUS
<1>9. 0 \in -0 .. 0 /\ (0 + 0) % 2 = 0 /\ -0 .. 0 - 1 = {} /\ 0 .. 0 - 1 = {}
  OBVIOUS
<1>10. Tracing'
  BY <1>1, <1>4, <1>5, <1>6, <1>7, <1>8, <1>9 DEF Tracing
<1>11. QED BY <1>4, <1>10

\* A snapshot more leaves the earlier ones where they are.
LEMMA SnapshotsGrow ==
    ASSUME NEW D, NEW S, NEW q \in Seq(S), NEW w \in S, NEW c \in Nat, Len(q) = c,
           \A r \in 0 .. c - 1 : Before(D, q[r + 1], r), Before(D, w, c)
    PROVE  /\ Append(q, w) \in Seq(S) /\ Len(Append(q, w)) = c + 1
           /\ \A r \in 0 .. c : Before(D, Append(q, w)[r + 1], r)
<1>1. Append(q, w) \in Seq(S) /\ Len(Append(q, w)) = c + 1 /\ Append(q, w)[c + 1] = w
      /\ \A r \in 0 .. c - 1 : Append(q, w)[r + 1] = q[r + 1]
  OBVIOUS
<1>2. ASSUME NEW r \in 0 .. c PROVE Before(D, Append(q, w)[r + 1], r)
  <2>1. r = c \/ r \in 0 .. c - 1
    OBVIOUS
  <2>2. CASE r = c
    BY <1>1, <2>2
  <2>3. CASE r \in 0 .. c - 1
    BY <1>1, <2>3
  <2>4. QED BY <2>1, <2>2, <2>3
<1>3. QED BY <1>1, <1>2

\* A diagonal more keeps what the trace knows.
LEMMA ForwardTraces ==
    ASSUME Searching, Forward
    PROVE  Tracing' /\ Regions' /\ Given'
<1>1. /\ phase = "forward" /\ ~AtEnd /\ v' = [v EXCEPT ![k] = Reached]
      /\ UNCHANGED <<old, new, algorithm, chain, next>> /\ UNCHANGED script /\ UNCHANGED phase
      /\ \/ k + 2 <= d /\ k' = k + 2 /\ d' = d /\ snapshots' = snapshots
         \/ ~(k + 2 <= d) /\ d' = d + 1 /\ k' = -(d + 1) /\ snapshots' = Append(snapshots, v')
  BY DEF Forward
<1>2. next \in 1 .. Len(chain) + 1
  <2>1. next \in 1 .. Len(chain) + 2 /\ next <= Len(chain) + 1 /\ Anchored(chain, old, new)
    BY <1>1, ChainAnchored DEF Searching, Regions
  <2> DEFINE L == Len(chain)
  <2>2. L \in Nat /\ next \in 1 .. L + 2 /\ next <= L + 1
    BY <2>1 DEF Anchored
  <2> HIDE DEF L
  <2>3. next \in 1 .. L + 1
    BY <2>2
  <2>4. QED BY <2>3 DEF L
<1>3. /\ n \in Nat /\ m \in Nat /\ IsDistance(Dist, Old, New)
      /\ Dist[<<n, m>>] \in Nat /\ Dist[<<n, m>>] <= n + m
      /\ n - m <= Dist[<<n, m>>] /\ m - n <= Dist[<<n, m>>]
      /\ \E h \in Int : Dist[<<n, m>>] = n - m + 2 * h
  BY <1>2, DistIs DEF Searching
<1>4. Tracing /\ Given /\ Regions
  BY <1>1 DEF Searching
<1>5. Far(Dist, Reached, k, d)
  BY <1>2, <1>4, ReachedFar
<1>6. /\ n' = n /\ m' = m /\ Dist' = Dist /\ Arrays' = Arrays /\ Regions' /\ Given'
  <2>1. phase' \in {"region", "forward", "back"} /\ (phase' # "region" => next <= Len(chain) + 1)
    BY <1>1, <1>4 DEF Regions
  <2>2. QED BY <1>1, <1>4, <2>1, SameRegion
<1>7. ~(Reached >= n /\ Reached - k >= m)
  BY <1>1 DEF AtEnd
<1> DEFINE R == Reached
           D == Dist
           T == D[<<n, m>>]
<1>8. /\ d \in Nat /\ k \in -d .. d /\ (k + d) % 2 = 0 /\ d <= T /\ (d = T => k <= n - m)
      /\ v \in Arrays /\ Before(D, v, d)
      /\ \A g \in -d .. k - 1 : (g + d) % 2 = 0 => Far(D, v[g], g, d)
      /\ snapshots \in Seq(Arrays) /\ Len(snapshots) = d
      /\ \A r \in 0 .. d - 1 : Before(D, snapshots[r + 1], r)
  BY <1>4 DEF Tracing
<1>9. R \in Nat
  BY <1>5 DEF Far
<1> HIDE DEF R, n, m, D, T
<1>10. T \in Nat /\ T <= n + m /\ n - m <= T /\ m - n <= T /\ \E h \in Int : T = n - m + 2 * h
  BY <1>3 DEF T, D
<1>11. d = T => k + 2 <= n - m
  <2>1. SUFFICES ASSUME d = T PROVE k + 2 <= n - m
    OBVIOUS
  <2>2. k # n - m
    <3>1. SUFFICES ASSUME k = n - m PROVE FALSE
      OBVIOUS
    <3>2. n - k = m /\ k \in Int /\ d \in Int
      BY <1>3, <1>8, <3>1
    <3>3. D[<<n, n - k>>] <= d /\ n - k \in Nat
      <4>1. D[<<n, n - k>>] = T
        BY <3>2 DEF T
      <4>2. QED BY <1>3, <1>8, <2>1, <3>2, <4>1
    <3>4. n <= R
      BY <1>3, <1>5, <3>2, <3>3, FarBounds DEF D, R
    <3>5. R >= n /\ R - k >= m
      BY <1>3, <1>9, <3>1, <3>4
    <3>6. QED BY <1>7, <3>5 DEF R
  <2>3. PICK h \in Int : T = n - m + 2 * h
    BY <1>10
  <2>4. d = n - m + 2 * h /\ k <= n - m /\ k # n - m /\ (k + d) % 2 = 0 /\ k \in Int /\ d \in Int
    BY <1>8, <2>1, <2>2, <2>3
  <2>5. QED
    <3>1. PICK e \in Int : e = n - m
      BY <1>3
    <3>2. k < e /\ d = e + 2 * h /\ (k + d) % 2 = 0
      BY <2>4, <3>1
    <3>3. (k + e) % 2 = 0
      BY <2>4, <3>2
    <3>4. k + 2 <= e
      BY <2>4, <3>2, <3>3
    <3>5. QED BY <3>1, <3>4
<1>12. k \in -(n + m) .. n + m /\ n + m \in Nat /\ d <= n + m /\ n + m > 0
  <2>1. n > 0 /\ m > 0
    BY <1>4 DEF Tracing
  <2>2. QED BY <1>3, <1>8, <1>10, <2>1
<1>13. v' \in Arrays /\ v'[k] = R /\ \A g \in -(n + m) .. n + m : g # k => v'[g] = v[g]
  BY <1>1, <1>8, <1>9, <1>12 DEF R, Arrays
<1>14. Before(D, v', d)
  <2> DEFINE B == n + m
  <2>1. B \in Nat /\ d <= B /\ B > 0
    BY <1>12
  <2>2. DOMAIN v = -B .. B
    BY <1>8 DEF Arrays
  <2> HIDE DEF B
  <2>3. k \in Int /\ (k + d) % 2 = 0 /\ d \in Nat
    BY <1>8
  <2>4. Before(D, [v EXCEPT ![k] = R], d)
    BY <1>8, <2>1, <2>2, <2>3, BeforeStays
  <2>5. QED BY <1>1, <2>4 DEF R
<1>15. \A g \in -d .. k : (g + d) % 2 = 0 => Far(D, v'[g], g, d)
  <2>1. SUFFICES ASSUME NEW g \in -d .. k, (g + d) % 2 = 0 PROVE Far(D, v'[g], g, d)
    OBVIOUS
  <2>2. CASE g = k
    BY <1>5, <1>13, <2>2 DEF R, D
  <2>3. CASE g # k
    <3>1. g \in -d .. k - 1 /\ g \in -(n + m) .. n + m
      BY <1>3, <1>8, <1>12, <2>1, <2>3
    <3>2. Far(D, v[g], g, d)
      BY <1>8, <2>1, <3>1
    <3>3. v'[g] = v[g]
      BY <1>13, <2>3, <3>1
    <3>4. QED BY <3>2, <3>3
  <2>4. QED BY <2>2, <2>3
<1>16. n' > 0 /\ m' > 0
  BY <1>4, <1>6 DEF Tracing
<1>17. T = Dist'[<<n', m'>>]
  BY <1>6 DEF T, D
<1>18. CASE k + 2 <= d
  <2>1. k' = k + 2 /\ d' = d /\ snapshots' = snapshots
    BY <1>1, <1>18, <1>8
  <2>2. k' \in -d' .. d' /\ (k' + d') % 2 = 0 /\ d' \in Nat /\ d' <= T /\ (d' = T => k' <= n - m)
    BY <1>3, <1>8, <1>11, <1>18, <2>1
  <2>3. \A g \in -d' .. k' - 1 : (g + d') % 2 = 0 => Far(D, v'[g], g, d')
    <3>1. \A g \in -d .. (k + 2) - 1 : (g + d) % 2 = 0 => g \in -d .. k
      BY <1>8
    <3>2. QED BY <1>15, <2>1, <3>1
  <2>4. /\ snapshots' \in Seq(Arrays) /\ Len(snapshots') = d'
        /\ \A r \in 0 .. d' - 1 : Before(D, snapshots'[r + 1], r)
    BY <1>8, <2>1
  <2>5. Before(D, v', d')
    BY <1>14, <2>1
  <2>6. Tracing'
    BY <1>6, <1>13, <1>16, <1>17, <2>2, <2>3, <2>4, <2>5 DEF Tracing, D
  <2>7. QED BY <1>6, <2>6
<1>19. CASE ~(k + 2 <= d)
  <2>1. k' = -(d + 1) /\ d' = d + 1 /\ snapshots' = Append(snapshots, v')
    BY <1>1, <1>19
  <2>2. k = d
    BY <1>8, <1>19
  <2>3. d < T
    <3>1. d = T => FALSE
      BY <1>3, <1>8, <1>10, <1>11, <2>2
    <3>2. QED BY <1>8, <1>10, <3>1
  <2>4. d' \in Nat /\ k' \in -d' .. d' /\ (k' + d') % 2 = 0 /\ d' <= T /\ (d' = T => k' <= n - m)
    <3>1. -(d + 1) \in -(d + 1) .. d + 1 /\ (-(d + 1) + (d + 1)) % 2 = 0 /\ d + 1 \in Nat
      BY <1>8
    <3>2. d + 1 <= T
      BY <1>8, <1>10, <2>3
    <3>3. d + 1 = T => -(d + 1) <= n - m
      BY <1>3, <1>8, <1>10
    <3>4. QED BY <2>1, <3>1, <3>2, <3>3
  <2>5. Before(D, v', d')
    <3> DEFINE r == d + 1
    <3>1. r # 0 /\ r - 1 = d
      BY <1>8
    <3>2. \A g \in -d .. d : (g + r) % 2 = 1 => (g + d) % 2 = 0
      BY <1>8
    <3> HIDE DEF r
    <3>3. \A g \in -(r - 1) .. r - 1 : (g + r) % 2 = 1 => Far(D, v'[g], g, r - 1)
      BY <1>15, <2>2, <3>1, <3>2
    <3>4. Before(D, v', r)
      BY <3>1, <3>3 DEF Before
    <3>5. QED BY <2>1, <3>4 DEF r
  <2>6. \A g \in -d' .. k' - 1 : FALSE
    BY <1>8, <2>1
  <2>7. /\ snapshots' \in Seq(Arrays) /\ Len(snapshots') = d'
        /\ \A r \in 0 .. d' - 1 : Before(D, snapshots'[r + 1], r)
    <3> DEFINE w == v'
               q == snapshots
               S == Arrays
    <3>1. q \in Seq(S) /\ w \in S /\ Len(q) = d /\ snapshots' = Append(q, w) /\ d \in Nat
      BY <1>8, <1>13, <2>1
    <3>2. (\A r \in 0 .. d - 1 : Before(D, q[r + 1], r)) /\ Before(D, w, d)
      BY <1>8, <1>14
    <3> HIDE DEF w, q, S
    <3>3. /\ Append(q, w) \in Seq(S) /\ Len(Append(q, w)) = d + 1
          /\ \A r \in 0 .. d : Before(D, Append(q, w)[r + 1], r)
      BY <3>1, <3>2, SnapshotsGrow
    <3>4. d' - 1 = d
      BY <2>1, <3>1
    <3>5. QED BY <2>1, <3>1, <3>3, <3>4 DEF S, w
  <2>8. Tracing'
    BY <1>6, <1>13, <1>16, <1>17, <2>4, <2>5, <2>6, <2>7 DEF Tracing, D
  <2>9. QED BY <1>6, <2>8
<1>20. QED BY <1>18, <1>19

\* The search ends after as many rounds as the shortest way has changes.
LEMMA EndReached ==
    ASSUME Searching, ReachEnd
    PROVE  WalkingBack' /\ Regions' /\ Given'
<1>1. /\ phase = "forward" /\ AtEnd
      /\ snapshots' = Append(snapshots, [v EXCEPT ![k] = Reached])
      /\ x' = n /\ y' = m /\ edits' = << >> /\ phase' = "back"
      /\ UNCHANGED <<old, new, algorithm, chain, next>> /\ UNCHANGED script
  BY DEF ReachEnd
<1>2. next \in 1 .. Len(chain) + 1
  <2>1. next \in 1 .. Len(chain) + 2 /\ next <= Len(chain) + 1 /\ Anchored(chain, old, new)
    BY <1>1, ChainAnchored DEF Searching, Regions
  <2> DEFINE L == Len(chain)
  <2>2. L \in Nat /\ next \in 1 .. L + 2 /\ next <= L + 1
    BY <2>1 DEF Anchored
  <2> HIDE DEF L
  <2>3. next \in 1 .. L + 1
    BY <2>2
  <2>4. QED BY <2>3 DEF L
<1>3. /\ n \in Nat /\ m \in Nat /\ IsDistance(Dist, Old, New) /\ Dist[<<n, m>>] \in Nat
      /\ Dist[<<n, m>>] <= n + m /\ Old \in Seq(Lines) /\ New \in Seq(Lines)
  BY <1>2, DistIs DEF Searching
<1>4. Tracing /\ Given /\ Regions
  BY <1>1 DEF Searching
<1>5. Far(Dist, Reached, k, d)
  BY <1>2, <1>4, ReachedFar
<1>6. /\ n' = n /\ m' = m /\ Dist' = Dist /\ Arrays' = Arrays /\ Regions' /\ Given'
      /\ Old' = Old /\ New' = New
  <2>1. phase' \in {"region", "forward", "back"} /\ (phase' # "region" => next <= Len(chain) + 1)
    BY <1>1, <1>4 DEF Regions
  <2>2. QED BY <1>1, <1>4, <2>1, SameRegion
<1> DEFINE R == Reached
           D == Dist
           T == D[<<n, m>>]
<1>7. R >= n /\ R - k >= m
  BY <1>1 DEF AtEnd
<1>8. /\ d \in Nat /\ k \in -d .. d /\ (k + d) % 2 = 0 /\ d <= T
      /\ v \in Arrays /\ Before(D, v, d)
      /\ snapshots \in Seq(Arrays) /\ Len(snapshots) = d
      /\ \A r \in 0 .. d - 1 : Before(D, snapshots[r + 1], r)
      /\ n > 0 /\ m > 0
  BY <1>4 DEF Tracing
<1>9. R \in Nat /\ R - k \in Nat /\ D[<<R, R - k>>] <= d
  BY <1>5 DEF Far
<1>10. \A i, j \in Nat : i >= n /\ j >= m => D[<<i, j>>] = T + (i - n) + (j - m)
  BY <1>3 DEF IsDistance, n, m, D, T
<1> HIDE DEF R, n, m, D
<1>11. D[<<R, R - k>>] = T + (R - n) + ((R - k) - m)
  BY <1>7, <1>9, <1>10
<1>12. T \in Nat /\ T <= n + m
  BY <1>3 DEF D
<1> HIDE DEF T
<1>13. R = n /\ k = n - m /\ T = d
  <2> DEFINE e == R - k
             c == D[<<R, e>>]
  <2>1. e \in Nat /\ e >= m /\ c <= d /\ c = T + (R - n) + (e - m) /\ k = R - e
    BY <1>7, <1>8, <1>9, <1>11
  <2> HIDE DEF c, e
  <2>2. R = n /\ e = m /\ T = d
    BY <1>3, <1>7, <1>8, <1>9, <1>12, <2>1
  <2>3. QED BY <2>1, <2>2
<1> DEFINE w == [v EXCEPT ![k] = R]
<1>14. w \in Arrays /\ Before(D, w, d)
  <2>0. k \in -(n + m) .. n + m /\ n + m \in Nat /\ d <= n + m /\ n + m > 0
    BY <1>3, <1>8, <1>12
  <2>1. w \in Arrays
    BY <1>8, <1>9, <2>0 DEF Arrays
  <2> DEFINE B == n + m
  <2>2. B \in Nat /\ d <= B /\ B > 0
    BY <2>0
  <2>3. DOMAIN v = -B .. B
    BY <1>8 DEF Arrays
  <2> HIDE DEF B
  <2>4. k \in Int /\ (k + d) % 2 = 0 /\ d \in Nat
    BY <1>8
  <2>5. Before(D, [v EXCEPT ![k] = R], d)
    BY <1>8, <2>2, <2>3, <2>4, BeforeStays
  <2>6. QED BY <2>1, <2>5
<1>15. snapshots' = Append(snapshots, w)
  BY <1>1 DEF R
<1> HIDE DEF w
<1>16. /\ snapshots' \in Seq(Arrays) /\ Len(snapshots') = d + 1
       /\ \A r \in 0 .. d : Before(D, snapshots'[r + 1], r)
  <2> DEFINE q == snapshots
             S == Arrays
  <2>1. q \in Seq(S) /\ w \in S /\ Len(q) = d /\ d \in Nat /\ Before(D, w, d)
    BY <1>8, <1>14
  <2>2. \A r \in 0 .. d - 1 : Before(D, q[r + 1], r)
    BY <1>8
  <2> HIDE DEF q, S
  <2>3. /\ Append(q, w) \in Seq(S) /\ Len(Append(q, w)) = d + 1
        /\ \A r \in 0 .. d : Before(D, Append(q, w)[r + 1], r)
    BY <2>1, <2>2, SnapshotsGrow
  <2>4. QED BY <1>15, <2>3 DEF q, S
<1>17. Far(D, n, n - m, d)
  BY <1>5, <1>13 DEF R, D
<1>18. << >> \in Seq(EditSet) /\ OldSide(<< >>) = SubSeq(Old, n + 1, n)
       /\ NewSide(<< >>) = SubSeq(New, m + 1, m) /\ Len(Changes(<< >>)) = 0
  <2>1. SubSeq(Old, n + 1, n) = << >> /\ SubSeq(New, m + 1, m) = << >>
    BY <1>3, WholePart
  <2>2. << >> \in Seq(EditSet) /\ Len(<< >>) = 0
    OBVIOUS
  <2>3. Len(Changes(<< >>)) = 0
    BY <2>2, SidesEmpty
  <2>4. OldSide(<< >>) = << >> /\ NewSide(<< >>) = << >>
    BY SidesEmpty
  <2>5. QED BY <2>1, <2>2, <2>3, <2>4, Zenon
<1>19. (d + 1) - 1 = d /\ 0 + d = T /\ d + 1 > 0
  BY <1>8, <1>13
<1>20. ((n - m) + d) % 2 = 0 /\ (n - m) + d = (n - m) + (d + 1) - 1 /\ n \in 0 .. n /\ m \in 0 .. m
  BY <1>3, <1>8, <1>13
<1> DEFINE z == Len(snapshots')
<1>21. z = d + 1 /\ z > 0 /\ z - 1 = d /\ (x' - y' + z - 1) % 2 = 0
  <2>1. z = d + 1
    BY <1>16
  <2> HIDE DEF z
  <2>2. x' - y' + z - 1 = (n - m) + (d + 1) - 1
    BY <1>1, <2>1
  <2>3. QED BY <1>19, <1>20, <2>1, <2>2
<1>22. /\ z > 0 /\ \A r \in 0 .. z - 1 : Before(Dist', snapshots'[r + 1], r)
       /\ x' \in 0 .. n' /\ y' \in 0 .. m' /\ Far(Dist', x', x' - y', z - 1)
       /\ Len(Changes(edits')) + (z - 1) = Dist'[<<n', m'>>]
  <2>1. Dist' = D /\ D[<<n', m'>>] = T
    BY <1>6 DEF D, T
  <2>2. Len(Changes(edits')) = 0
    BY <1>1, <1>18
  <2> HIDE DEF z
  <2>3. QED BY <1>1, <1>6, <1>16, <1>17, <1>19, <1>20, <1>21, <2>1, <2>2
<1> HIDE DEF z
<1>23. /\ edits' \in Seq(EditSet) /\ OldSide(edits') = SubSeq(Old', x' + 1, n')
       /\ NewSide(edits') = SubSeq(New', y' + 1, m')
  BY <1>1, <1>6, <1>18
<1>24. WalkingBack'
  BY <1>6, <1>16, <1>21, <1>22, <1>23 DEF WalkingBack, z
<1>25. QED BY <1>6, <1>24

\* Where the walk back enters the diagonal it stands on.
Round1    == Len(snapshots) - 1
Diagonal1 == x - y
Entered   == Entry(Last(snapshots), Round1, Diagonal1)
Down      == ComesDown(Last(snapshots), Round1, Diagonal1)

\* Where the walk back is, and where the last snapshot leads from there.
LEMMA BackAt ==
    ASSUME Given, WalkingBack, next \in 1 .. Len(chain) + 1
    PROVE  /\ Round1 \in Nat /\ Diagonal1 \in Int /\ (Diagonal1 + Round1) % 2 = 0
           /\ Entered \in Nat /\ Entered <= x /\ Entered - Diagonal1 \in Nat
           /\ \A i \in 1 .. x - Entered : Old[Entered + i] = New[Entered - Diagonal1 + i]
           /\ Round1 = 0 => Diagonal1 = 0 /\ Entered = 0 /\ Down
           /\ Round1 > 0 /\ Down => Far(Dist, Entered, Diagonal1 + 1, Round1 - 1)
           /\ Round1 > 0 /\ ~Down => Far(Dist, Entered - 1, Diagonal1 - 1, Round1 - 1)
           /\ ~Down => Last(snapshots)[Diagonal1 - 1] = Entered - 1
<1> DEFINE L == Len(snapshots)
           r == Round1
           g == Diagonal1
           w == Last(snapshots)
           F == Entered
           D == Dist
<1>1. n \in Nat /\ m \in Nat /\ IsDistance(D, Old, New)
  BY DistIs
<1>2. L \in Nat /\ L > 0 /\ w = snapshots[L] /\ r = L - 1
  BY DEF WalkingBack, Last, Round1
<1>3. Before(D, w, r)
  <2>1. \A c \in 0 .. L - 1 : Before(D, snapshots[c + 1], c)
    BY DEF WalkingBack
  <2> HIDE DEF L
  <2>2. r \in 0 .. L - 1 /\ r + 1 = L
    BY <1>2
  <2>3. QED BY <1>2, <2>1, <2>2
<1>4. x \in 0 .. n /\ y \in 0 .. m /\ (x - y + L - 1) % 2 = 0 /\ Far(D, x, x - y, L - 1)
  BY DEF WalkingBack
<1> HIDE DEF L, n, m
<1>5. /\ r \in Nat /\ g \in Int /\ (g + r) % 2 = 0 /\ Far(D, x, g, r) /\ x \in Nat /\ y \in Nat
      /\ g = x - y /\ y = x - g
  <2>1. x \in Nat /\ y \in Nat /\ L \in Nat
    BY <1>1, <1>2, <1>4
  <2>2. g = x - y
    BY DEF Diagonal1
  <2>3. x - y + L - 1 = g + r
    BY <1>2, <2>1, <2>2
  <2>4. r \in Nat /\ g \in Int /\ y = x - g
    BY <1>2, <2>1, <2>2
  <2>5. QED BY <1>2, <1>4, <2>1, <2>2, <2>3, <2>4
<1> HIDE DEF r, g, w, F, D
<1>6. g \in -r .. r
  <2>1. D[<<x, y>>] <= r
    BY <1>5 DEF Far
  <2>2. x - y <= D[<<x, y>>] /\ y - x <= D[<<x, y>>] /\ D[<<x, y>>] \in Nat
    BY <1>1, <1>5, DistanceBounds
  <2>3. QED BY <1>5, <2>1, <2>2
<1>7. F = Entry(w, r, g) /\ (Down <=> ComesDown(w, r, g))
  BY DEF F, Entered, Down, w, r, g
<1>8. /\ Starts(D, Old, New, F, g, r)
      /\ r = 0 => g = 0 /\ Down /\ F = 0
      /\ r > 0 /\ Down => Far(D, F, g + 1, r - 1)
      /\ r > 0 /\ ~Down => Far(D, F - 1, g - 1, r - 1)
      /\ ~Down => w[g - 1] = F - 1
  BY <1>1, <1>3, <1>5, <1>6, <1>7, EntryStarts
<1>9. F \in Nat /\ F <= x /\ \A i \in F + 1 .. x : Meets(Old, New, i, i - g)
  BY <1>1, <1>5, <1>8, FarAhead
<1>10. F - g \in Nat
  BY <1>8 DEF Starts
<1>11. ASSUME NEW i \in 1 .. x - F PROVE Old[F + i] = New[F - g + i]
  <2> DEFINE p == F + i
  <2>1. p \in F + 1 .. x /\ p - g = F - g + i
    BY <1>5, <1>9
  <2> HIDE DEF p
  <2>2. Meets(Old, New, p, p - g)
    BY <1>9, <2>1
  <2>3. Old[p] = New[F - g + i]
    BY <2>1, <2>2 DEF Meets
  <2>4. QED BY <2>3 DEF p
<1>12. QED BY <1>5, <1>8, <1>9, <1>10, <1>11 DEF r, g, F, D, w

\* What Backtrack computes there.
Slid(px1, py1) == Slips(x, y, px1, py1)
Kept1(count) == [i \in 1 .. count |-> Keep(Old[x - count + i])]

\* What one snapshot of the walk adds to the script.
LEMMA BackTakes ==
    ASSUME Given, WalkingBack, next \in 1 .. Len(chain) + 1,
           NEW px1, NEW py1,
           px1 = Last(snapshots)[IF Down THEN Diagonal1 + 1 ELSE Diagonal1 - 1],
           py1 = px1 - (IF Down THEN Diagonal1 + 1 ELSE Diagonal1 - 1)
    PROVE  /\ Slid(px1, py1) = x - Entered /\ x - Slid(px1, py1) = Entered
           /\ y - Slid(px1, py1) = Entered - Diagonal1
           /\ x - Slid(px1, py1) = px1 <=> Down
           /\ Kept1(Slid(px1, py1)) \o edits \in Seq(EditSet)
           /\ Kept1(Slid(px1, py1)) \in Seq(EditSet)
           /\ OldSide(Kept1(Slid(px1, py1)) \o edits) = SubSeq(Old, Entered + 1, n)
           /\ NewSide(Kept1(Slid(px1, py1)) \o edits) = SubSeq(New, Entered - Diagonal1 + 1, m)
           /\ Len(Changes(Kept1(Slid(px1, py1)) \o edits)) = Len(Changes(edits))
<1> DEFINE g == Diagonal1
           F == Entered
           w == Last(snapshots)
           a == w[g - 1]
           b == w[g + 1]
           z == x - F
           c == F - g
           s == Slid(px1, py1)
<1>1. /\ g \in Int /\ F \in Nat /\ F <= x /\ c \in Nat
      /\ \A i \in 1 .. x - F : Old[F + i] = New[c + i]
      /\ ~Down => a = F - 1
  BY BackAt
<1>2. /\ x \in 0 .. n /\ y \in 0 .. m /\ edits \in Seq(EditSet)
      /\ OldSide(edits) = SubSeq(Old, x + 1, n) /\ NewSide(edits) = SubSeq(New, y + 1, m)
      /\ g = x - y
  BY DEF WalkingBack, Diagonal1
<1>3. n \in Nat /\ m \in Nat /\ Old \in Seq(Lines) /\ New \in Seq(Lines)
  BY DistIs
<1>4. Down => b = F
  BY DEF Entered, Entry, Down
<1>5. /\ px1 = IF Down THEN b ELSE a
      /\ py1 = IF Down THEN px1 - (g + 1) ELSE px1 - (g - 1)
  OBVIOUS
<1>6. n = Len(Old) /\ m = Len(New)
  BY DEF n, m
<1> HIDE DEF n, m, g, F, w, a, b
<1>7. /\ x \in Nat /\ y \in Nat /\ z \in Nat /\ F + z = x /\ c + z = y
      /\ F + z <= n /\ c + z <= m /\ F - 1 \in Int
  BY <1>1, <1>2, <1>3
<1>8. /\ px1 \in Int /\ py1 \in Int
      /\ \/ px1 = F /\ py1 = y - (x - F) - 1
         \/ px1 = F - 1 /\ py1 = y - (x - F)
      /\ px1 = F <=> Down
  <2>1. CASE Down
    <3>1. px1 = F /\ py1 = F - (g + 1)
      BY <1>4, <1>5, <2>1
    <3>2. F - (g + 1) = y - (x - F) - 1 /\ F - (g + 1) \in Int /\ F \in Int
      BY <1>1, <1>2, <1>7
    <3>3. QED BY <2>1, <3>1, <3>2
  <2>2. CASE ~Down
    <3>1. px1 = F - 1 /\ py1 = (F - 1) - (g - 1)
      BY <1>1, <1>5, <2>2
    <3>2. (F - 1) - (g - 1) = y - (x - F) /\ (F - 1) - (g - 1) \in Int /\ F - 1 # F
      BY <1>1, <1>2, <1>7
    <3>3. QED BY <1>7, <2>2, <3>1, <3>2
  <2>3. QED BY <2>1, <2>2
<1>9. s = x - F
  <2>1. F \in Nat /\ F <= x /\ x \in Nat /\ y \in Nat
    BY <1>1, <1>7
  <2>2. Slips(x, y, px1, py1) = x - F
    <3>1. Stops(x, y, F, px1, py1)
      BY <1>8, <2>1 DEF Stops
    <3>2. QED BY <3>1, SlidIs
  <2>3. QED BY <2>2 DEF Slid
<1>10. x - s = F /\ y - s = c /\ s = z
  <2>1. F \in Nat /\ x \in Nat /\ y \in Nat /\ g = x - y /\ c = F - g /\ z = x - F
    BY <1>1, <1>2, <1>7
  <2> HIDE DEF s, z, c
  <2>2. QED BY <1>9, <2>1
<1>11. Kept1(s) = [i \in 1 .. z |-> Keep(Old[F + i])]
  BY <1>10 DEF Kept1
<1>12. /\ OldSide(edits) = SubSeq(Old, F + z + 1, n)
       /\ NewSide(edits) = SubSeq(New, c + z + 1, m)
  BY <1>2, <1>7
<1>13. \A i \in 1 .. z : Old[F + i] = New[c + i]
  BY <1>1
<1> DEFINE kept == Kept1(s)
           N == n
           M == m
<1> HIDE DEF s, z, c, N, M
<1>14. OldSide(edits) = SubSeq(Old, F + z + 1, N) /\ NewSide(edits) = SubSeq(New, c + z + 1, M)
        /\ N \in Nat /\ M \in Nat /\ N = Len(Old) /\ M = Len(New) /\ F + z <= N /\ c + z <= M
  BY <1>3, <1>6, <1>7, <1>12 DEF N, M
<1>15. /\ F \in Nat /\ c \in Nat /\ z \in Nat
       /\ Old \in Seq(Lines) /\ New \in Seq(Lines) /\ edits \in Seq(EditSet)
  BY <1>1, <1>2, <1>3, <1>7
<1> HIDE DEF kept
<1>16. /\ kept \in Seq(EditSet) /\ kept \o edits \in Seq(EditSet)
       /\ OldSide(kept \o edits) = SubSeq(Old, F + 1, N) /\ NewSide(kept \o edits) = SubSeq(New, c + 1, M)
       /\ Len(Changes(kept \o edits)) = Len(Changes(edits))
  <2>1. kept = [i \in 1 .. z |-> Keep(Old[F + i])]
    BY <1>11 DEF kept
  <2>2. QED
    <3>1. LeadsOn([i \in 1 .. z |-> Keep(Old[F + i])], edits, SubSeq(Old, F + 1, N), SubSeq(New, c + 1, M))
      BY <1>13, <1>14, <1>15, KeptRun, Zenon
    <3>2. QED BY <2>1, <3>1, Zenon DEF LeadsOn
<1>17. x - s = px1 <=> Down
  BY <1>8, <1>10
<1>18. QED BY <1>9, <1>10, <1>16, <1>17 DEF s, c, F, g, N, M, kept

\* The snapshots but for the last.
Trail(D, S, q, c) == q \in Seq(S) /\ Len(q) = c /\ \A r \in 0 .. c - 1 : Before(D, q[r + 1], r)

\* Dropping the last snapshot leaves the others.
LEMMA SnapshotsShrink ==
    ASSUME NEW D, NEW S, NEW q, NEW c \in Nat, Trail(D, S, q, c + 1)
    PROVE  Trail(D, S, Front(q), c)
<1>1. q \in Seq(S) /\ Len(q) = c + 1 /\ \A r \in 0 .. (c + 1) - 1 : Before(D, q[r + 1], r)
  BY DEF Trail
<1>2. Front(q) \in Seq(S) /\ Len(Front(q)) = c /\ \A i \in 1 .. c : Front(q)[i] = q[i]
  BY <1>1 DEF Front
<1>3. ASSUME NEW r \in 0 .. c - 1 PROVE Before(D, Front(q)[r + 1], r)
  <2>1. r + 1 \in 1 .. c /\ r \in 0 .. (c + 1) - 1
    OBVIOUS
  <2>2. QED BY <1>1, <1>2, <2>1
<1>4. QED BY <1>2, <1>3 DEF Trail

\* Every step back leaves the point farthest in its round, and the edits lead
\* on from it.
LEMMA WalksBack ==
    ASSUME Searching, Backtrack
    PROVE  /\ Regions' /\ Given' /\ phase' \in {"back", "region"}
           /\ phase' = "back" => WalkingBack'
<1> DEFINE r == Round1
           g == Diagonal1
           F == Entered
           pa == Last(snapshots)[IF Down THEN g + 1 ELSE g - 1]
           pb == pa - (IF Down THEN g + 1 ELSE g - 1)
           s == Slid(pa, pb)
           kept == Kept1(s)
<1>1. /\ phase = "back" /\ snapshots' = Front(snapshots)
      /\ \/ /\ r > 0 /\ x - s = pa
            /\ x' = x - s /\ y' = y - s - 1
            /\ edits' = <<Insert(New[y - s])>> \o kept \o edits
            /\ UNCHANGED <<next, phase, script>>
         \/ /\ r > 0 /\ x - s # pa
            /\ x' = x - s - 1 /\ y' = y - s
            /\ edits' = <<Delete(Old[x - s])>> \o kept \o edits
            /\ UNCHANGED <<next, phase, script>>
         \/ /\ r = 0
            /\ EndRegion(kept \o edits)
            /\ x' = 0 /\ y' = 0 /\ edits' = << >>
      /\ UNCHANGED <<old, new, algorithm, chain, v, d, k>>
  BY ZenonT(40) DEF Backtrack, Round1, Diagonal1, Down, Slid, Slips, Kept1
<1>2. WalkingBack /\ Given /\ Regions
  BY <1>1, SMTT(30) DEF Searching
<1>3. next \in 1 .. Len(chain) + 1
  <2>1. next \in 1 .. Len(chain) + 2 /\ next <= Len(chain) + 1 /\ Anchored(chain, old, new)
    BY <1>1, <1>2, ChainAnchored DEF Regions
  <2> DEFINE L == Len(chain)
  <2>2. L \in Nat /\ next \in 1 .. L + 2 /\ next <= L + 1
    BY <2>1 DEF Anchored
  <2> HIDE DEF L
  <2>3. next \in 1 .. L + 1
    BY <2>2
  <2>4. QED BY <2>3 DEF L
<1> DEFINE e == kept \o edits
           c == F - g
<1>4. /\ x - s = F /\ y - s = c /\ (x - s = pa <=> Down)
      /\ e \in Seq(EditSet) /\ kept \in Seq(EditSet)
      /\ OldSide(e) = SubSeq(Old, F + 1, n) /\ NewSide(e) = SubSeq(New, c + 1, m)
      /\ Len(Changes(e)) = Len(Changes(edits))
  BY <1>2, <1>3, BackTakes
<1>5. /\ r \in Nat /\ g \in Int /\ (g + r) % 2 = 0
      /\ F \in Nat /\ F <= x /\ c \in Nat
      /\ r = 0 => g = 0 /\ F = 0 /\ Down
      /\ r > 0 /\ Down => Far(Dist, F, g + 1, r - 1)
      /\ r > 0 /\ ~Down => Far(Dist, F - 1, g - 1, r - 1)
  BY <1>2, <1>3, BackAt
<1>6. /\ x \in 0 .. n /\ y \in 0 .. m /\ edits \in Seq(EditSet) /\ g = x - y
      /\ Len(Changes(edits)) + r = Dist[<<n, m>>]
      /\ snapshots \in Seq(Arrays) /\ Len(snapshots) = r + 1
      /\ \A i \in 0 .. r : Before(Dist, snapshots[i + 1], i)
  <2>1. r = Len(snapshots) - 1 /\ Len(snapshots) \in Nat
    BY <1>2 DEF WalkingBack, Round1
  <2> DEFINE L == Len(snapshots)
  <2>2. L = r + 1 /\ r = L - 1
    <3> HIDE DEF L, r
    <3>1. QED BY <2>1 DEF L
  <2>3. QED BY <1>2, <2>1, <2>2 DEF WalkingBack, Diagonal1
<1>7. /\ n \in Nat /\ m \in Nat /\ Old \in Seq(Lines) /\ New \in Seq(Lines)
      /\ Dist[<<n, m>>] = Shortest(Old, New)
  BY <1>2, <1>3, DistIs
<1>8. n = Len(Old) /\ m = Len(New)
  BY DEF n, m
<1> DEFINE D == Dist
           T == D[<<n, m>>]
           b == Len(Changes(edits))
<1>9. b \in Nat /\ b + r = T
  BY <1>6, SidesType
<1> HIDE DEF r, g, F, pa, pb, s, kept, e, c, n, m, D, T, b
<1>10. CASE r > 0
  <2>1. UNCHANGED <<old, new, algorithm, chain, next, script, phase>>
    BY <1>1, <1>10, <1>5
  <2>2. /\ n' = n /\ m' = m /\ Dist' = Dist /\ Arrays' = Arrays /\ Regions' /\ Given'
        /\ Old' = Old /\ New' = New
    <3>1. phase' \in {"region", "forward", "back"} /\ (phase' # "region" => next <= Len(chain) + 1)
      BY <1>2, <2>1 DEF Regions
    <3>2. QED BY <1>2, <2>1, <3>1, SameRegion
  <2>3. /\ snapshots' \in Seq(Arrays) /\ Len(snapshots') = r
        /\ \A i \in 0 .. r - 1 : Before(Dist, snapshots'[i + 1], i)
    <3>1. r \in Nat /\ (r + 1) - 1 = r
      BY <1>5
    <3>2. Trail(Dist, Arrays, snapshots, r + 1)
      BY <1>6, <3>1 DEF Trail
    <3>3. Trail(Dist, Arrays, Front(snapshots), r)
      BY <3>1, <3>2, SnapshotsShrink
    <3>4. QED BY <1>1, <3>3 DEF Trail
  <2>4. ASSUME NEW p \in Nat, NEW h \in Nat, p <= n, h <= m, x' = p, y' = h,
               Far(Dist, p, p - h, r - 1), ((p - h) + (r - 1)) % 2 = 0,
               edits' \in Seq(EditSet), OldSide(edits') = SubSeq(Old, p + 1, n),
               NewSide(edits') = SubSeq(New, h + 1, m), Len(Changes(edits')) = 1 + b
        PROVE  WalkingBack'
    <3> DEFINE z == Len(snapshots')
    <3>1. z = r /\ z > 0 /\ p - h + z - 1 = (p - h) + (r - 1)
      BY <1>5, <1>10, <2>3, <2>4
    <3> HIDE DEF z
    <3>2. (1 + b) + (z - 1) = T
      BY <1>5, <1>9, <3>1
    <3>3. /\ snapshots' \in Seq(Arrays') /\ z > 0
          /\ \A i \in 0 .. z - 1 : Before(Dist', snapshots'[i + 1], i)
      BY <2>2, <2>3, <3>1
    <3>4. x' \in 0 .. n' /\ y' \in 0 .. m' /\ (x' - y' + z - 1) % 2 = 0 /\ Far(Dist', x', x' - y', z - 1)
      BY <1>7, <2>2, <2>4, <3>1
    <3>5. /\ edits' \in Seq(EditSet) /\ OldSide(edits') = SubSeq(Old', x' + 1, n')
          /\ NewSide(edits') = SubSeq(New', y' + 1, m')
      BY <2>2, <2>4
    <3>6. Len(Changes(edits')) + (z - 1) = Dist'[<<n', m'>>]
      BY <2>2, <2>4, <3>2 DEF T, D
    <3>7. QED BY <3>3, <3>4, <3>5, <3>6 DEF WalkingBack, z
  <2>5. x \in Nat /\ y \in Nat /\ x <= n /\ y <= m /\ c = F - g /\ c <= y /\ F <= n
    <3>1. x \in Nat /\ y \in Nat /\ x <= n /\ y <= m
      BY <1>6, <1>7
    <3>2. c = F - g
      BY DEF c
    <3>3. g = x - y /\ g \in Int /\ F \in Nat /\ F <= x /\ n \in Nat
      BY <1>5, <1>6, <1>7
    <3> HIDE DEF c
    <3>4. QED BY <3>1, <3>2, <3>3
  <2>6. CASE Down
    <3> DEFINE h == c - 1
    <3>1. x' = F /\ y' = c - 1 /\ edits' = <<Insert(New[c])>> \o kept \o edits
      BY <1>1, <1>4, <1>10, <1>5, <2>6, SMTT(30)
    <3>2. Far(Dist, F, g + 1, r - 1)
      BY <1>5, <1>10, <2>6
    <3>3. h \in Nat /\ h + 1 = c /\ h + 2 = c + 1 /\ h <= m /\ h < m /\ F - h = g + 1
      <4>1. F - (g + 1) \in Nat
        BY <3>2 DEF Far
      <4>2. QED BY <1>5, <1>7, <2>5, <4>1
    <3>4. (F - h) + (r - 1) = g + r
      BY <1>5, <3>3
    <3> HIDE DEF h
    <3>5. edits' = <<Insert(New[h + 1])>> \o e
      <4>1. New[c] \in Lines
        BY <1>7, <1>8, <3>3
      <4>2. <<Insert(New[c])>> \in Seq(EditSet)
        <5>1. Insert(New[c]) \in EditSet
          BY <4>1, EditsAre
        <5>2. QED BY <5>1
      <4>3. (<<Insert(New[c])>> \o kept) \o edits = <<Insert(New[c])>> \o (kept \o edits)
        BY <1>4, <1>6, <4>2, ConcatAssociative
      <4>4. QED BY <3>1, <3>3, <4>3 DEF e
    <3>6. /\ edits' \in Seq(EditSet) /\ OldSide(edits') = OldSide(e)
          /\ NewSide(edits') = SubSeq(New, h + 1, m) /\ Len(Changes(edits')) = 1 + Len(Changes(e))
      <4>1. NewSide(e) = SubSeq(New, h + 2, m)
        BY <1>4, <3>3
      <4>2. QED
        <5>1. LeadsBy(<<Insert(New[h + 1])>> \o e, e, OldSide(e), SubSeq(New, h + 1, m))
          BY <1>4, <1>7, <1>8, <3>3, <4>1, InsertBefore
        <5>2. QED BY <3>5, <5>1 DEF LeadsBy
    <3>7. OldSide(edits') = SubSeq(Old, F + 1, n) /\ Len(Changes(edits')) = 1 + b
      BY <1>4, <3>6 DEF b
    <3>8. WalkingBack'
      BY <1>5, <2>4, <2>5, <3>1, <3>2, <3>3, <3>4, <3>6, <3>7 DEF h
    <3>9. QED BY <1>1, <2>1, <2>2, <3>8
  <2>7. CASE ~Down
    <3> DEFINE p == F - 1
    <3>1. x' = F - 1 /\ y' = c /\ edits' = <<Delete(Old[F])>> \o kept \o edits
      BY <1>1, <1>4, <1>10, <1>5, <2>7
    <3>2. Far(Dist, p, g - 1, r - 1)
      BY <1>5, <1>10, <2>7
    <3>3. p \in Nat /\ p + 1 = F /\ p + 2 = F + 1 /\ p <= n /\ p < n /\ p - c = g - 1 /\ F \in 1 .. n
      <4>1. p \in Nat
        BY <3>2 DEF Far
      <4>2. QED BY <1>5, <1>7, <2>5, <4>1
    <3>4. (p - c) + (r - 1) = g + r - 2 /\ (g + r - 2) % 2 = 0
      BY <1>5, <3>3
    <3> HIDE DEF p
    <3>5. edits' = <<Delete(Old[p + 1])>> \o e
      <4>1. Old[F] \in Lines
        BY <1>7, <1>8, <3>3
      <4>2. <<Delete(Old[F])>> \in Seq(EditSet)
        <5>1. Delete(Old[F]) \in EditSet
          BY <4>1, EditsAre
        <5>2. QED BY <5>1
      <4>3. (<<Delete(Old[F])>> \o kept) \o edits = <<Delete(Old[F])>> \o (kept \o edits)
        BY <1>4, <1>6, <4>2, ConcatAssociative, SMTT(30)
      <4>4. QED BY <3>1, <3>3, <4>3 DEF e
    <3>6. /\ edits' \in Seq(EditSet) /\ NewSide(edits') = NewSide(e)
          /\ OldSide(edits') = SubSeq(Old, p + 1, n) /\ Len(Changes(edits')) = 1 + Len(Changes(e))
      <4>1. OldSide(e) = SubSeq(Old, p + 2, n)
        BY <1>4, <3>3
      <4>2. QED
        <5>1. LeadsBy(<<Delete(Old[p + 1])>> \o e, e, SubSeq(Old, p + 1, n), NewSide(e))
          BY <1>4, <1>7, <1>8, <3>3, <4>1, DeleteBefore
        <5>2. QED BY <3>5, <5>1 DEF LeadsBy
    <3>7. NewSide(edits') = SubSeq(New, c + 1, m) /\ Len(Changes(edits')) = 1 + b
      BY <1>4, <3>6 DEF b
    <3>8. WalkingBack'
      <4>1. x' = p /\ y' = c /\ c <= m
        BY <1>5, <1>7, <2>5, <3>1, SMTT(30) DEF p
      <4>2. QED BY <1>5, <2>4, <2>5, <3>2, <3>3, <3>4, <3>6, <3>7, <4>1
    <3>9. QED BY <1>1, <2>1, <2>2, <3>8
  <2>8. QED BY <2>6, <2>7
<1>11. CASE r = 0
  <2>1. EndRegion(e) /\ phase' = "region"
    <3>1. ~(r > 0)
      BY <1>11
    <3>2. EndRegion(kept \o edits)
      BY <1>1, <3>1
    <3>3. QED BY <3>2 DEF EndRegion, e
  <2>2. F = 0 /\ c = 0
    <3>1. g = 0 /\ F = 0
      BY <1>5, <1>11
    <3>2. QED BY <3>1 DEF c
  <2>3. OldSide(e) = Old /\ NewSide(e) = New
    <3>1. SubSeq(Old, 1, Len(Old)) = Old /\ SubSeq(New, 1, Len(New)) = New
      BY <1>7, WholePart
    <3>2. 0 + 1 = 1
      OBVIOUS
    <3>3. QED BY <1>4, <1>8, <2>2, <3>1, <3>2
  <2>4. Len(Changes(e)) = Shortest(Old, New)
    <3>1. b = T
      BY <1>9, <1>11
    <3>2. QED BY <1>4, <1>7, <3>1 DEF b, T, D
  <2>5. UNCHANGED <<old, new, algorithm, chain>> /\ next <= Len(chain) + 1
    BY <1>1, <1>2 DEF Regions
  <2>6. Regions'
    BY <1>2, <1>4, <2>1, <2>3, <2>4, <2>5, RegionEnds
  <2>7. Given'
    BY <1>2, <2>5 DEF Given
  <2>8. QED BY <2>1, <2>6, <2>7
<1>12. QED BY <1>5, <1>10, <1>11, SMTT(30)

\* A region with nothing on one side: everything goes, or everything comes.
LEMMA OneSidedEnds ==
    ASSUME Given, Regions, OneSided
    PROVE  Regions' /\ Given' /\ phase' = "region"
<1> DEFINE ins == [i \in 1 .. m |-> Insert(New[i])]
           del == [i \in 1 .. n |-> Delete(Old[i])]
<1>1. /\ next <= Len(chain) + 1 /\ (n = 0 \/ m = 0) /\ EndRegion(ins \o del)
      /\ UNCHANGED <<old, new, algorithm, chain>>
  BY DEF OneSided, InRegion
<1>2. next \in 1 .. Len(chain) + 1
  <2>1. next \in 1 .. Len(chain) + 2 /\ Anchored(chain, old, new)
    BY ChainAnchored DEF Regions
  <2> DEFINE L == Len(chain)
  <2>2. L \in Nat /\ next \in 1 .. L + 2 /\ next <= L + 1
    BY <1>1, <2>1 DEF Anchored
  <2> HIDE DEF L
  <2>3. next \in 1 .. L + 1
    BY <2>2
  <2>4. QED BY <2>3 DEF L
<1>3. /\ n \in Nat /\ m \in Nat /\ Old \in Seq(Lines) /\ New \in Seq(Lines)
      /\ IsDistance(Dist, Old, New) /\ Dist[<<n, m>>] = Shortest(Old, New)
  BY <1>2, DistIs
<1>4. n = Len(Old) /\ m = Len(New)
  BY DEF n, m
<1>5. ins \in Seq(EditSet) /\ Len(ins) = m
  <2>1. \A i \in 1 .. m : New[i] \in Lines
    BY <1>3, <1>4
  <2>2. \A i \in 1 .. m : Insert(New[i]) \in EditSet
    BY <2>1, EditsAre
  <2>3. ins \in [1 .. m -> EditSet]
    BY <2>2
  <2> HIDE DEF ins
  <2>4. QED BY <1>3, <2>3
<1>6. del \in Seq(EditSet) /\ Len(del) = n
  <2>1. \A i \in 1 .. n : Old[i] \in Lines
    BY <1>3, <1>4
  <2>2. \A i \in 1 .. n : Delete(Old[i]) \in EditSet
    BY <2>1, EditsAre
  <2>3. del \in [1 .. n -> EditSet]
    BY <2>2
  <2> HIDE DEF del
  <2>4. QED BY <1>3, <2>3
<1>7. \A i \in 1 .. Len(New) : ins[i] = [kind |-> "insert", line |-> New[i]]
  BY <1>4 DEF Insert
<1>8. \A i \in 1 .. Len(Old) : del[i] = [kind |-> "delete", line |-> Old[i]]
  BY <1>4 DEF Delete
<1> HIDE DEF ins, del, n, m
<1>9. OldSide(ins) = << >> /\ NewSide(ins) = New /\ Len(Changes(ins)) = m
  <2>1. "insert" \in {"keep", "delete", "insert"} /\ "insert" # "delete" /\ "insert" # "keep"
    OBVIOUS
  <2>2. /\ OldSide(ins) = IF "insert" = "insert" THEN << >> ELSE New
        /\ NewSide(ins) = IF "insert" = "delete" THEN << >> ELSE New
        /\ Len(Changes(ins)) = IF "insert" = "keep" THEN 0 ELSE Len(New)
    BY <1>3, <1>4, <1>5, <1>7, <2>1, SidesOfRun
  <2>3. QED BY <1>4, <2>1, <2>2
<1>10. OldSide(del) = Old /\ NewSide(del) = << >> /\ Len(Changes(del)) = n
  <2>1. "delete" \in {"keep", "delete", "insert"} /\ "insert" # "delete" /\ "delete" # "keep"
    OBVIOUS
  <2>2. /\ OldSide(del) = IF "delete" = "insert" THEN << >> ELSE Old
        /\ NewSide(del) = IF "delete" = "delete" THEN << >> ELSE Old
        /\ Len(Changes(del)) = IF "delete" = "keep" THEN 0 ELSE Len(Old)
    BY <1>3, <1>4, <1>6, <1>8, <2>1, SidesOfRun
  <2>3. QED BY <1>4, <2>1, <2>2
<1> DEFINE part == ins \o del
<1>11. part \in Seq(EditSet)
  BY <1>5, <1>6
<1>12. /\ OldSide(part) = << >> \o Old /\ NewSide(part) = New \o << >>
       /\ Len(Changes(part)) = m + n
  BY <1>5, <1>6, <1>9, <1>10, SidesConcat
<1>13. << >> \o Old = Old /\ New \o << >> = New
  BY <1>3
<1>14. EndRegion(part)
  BY <1>1
<1> HIDE DEF part
<1>15. Dist[<<n, m>>] = m + n
  <2>1. \A i \in Nat : Dist[<<i, 0>>] = i /\ Dist[<<0, i>>] = i
    BY <1>3, Zenon DEF IsDistance
  <2>2. CASE m = 0
    <3>1. Dist[<<n, m>>] = n
      BY <1>3, <2>1, <2>2
    <3>2. m + n = n /\ n \in Nat
      BY <1>3, <2>2
    <3>3. QED BY <3>1, <3>2
  <2>3. CASE n = 0
    <3>1. Dist[<<n, m>>] = m
      BY <1>3, <2>1, <2>3
    <3>2. m + n = m /\ m \in Nat
      BY <1>3, <2>3
    <3>3. QED BY <3>1, <3>2
  <2>4. QED BY <1>1, <2>2, <2>3
<1>16. OldSide(part) = Old /\ NewSide(part) = New /\ Len(Changes(part)) = Shortest(Old, New)
  BY <1>3, <1>12, <1>13, <1>15
<1>17. Regions'
  BY <1>1, <1>11, <1>14, <1>16, RegionEnds
<1>18. phase' = "region"
  BY <1>14 DEF EndRegion
<1>19. QED BY <1>1, <1>17, <1>18 DEF Given

\* Nothing is searched yet.
LEMMA SearchingStarts == Init => Searching
<1>1. SUFFICES ASSUME Init PROVE Searching
  OBVIOUS
<1>2. Given
  <2>1. PICK input \in Inputs : old = input[1] /\ new = input[2]
    BY <1>1 DEF Init, DiffInit
  <2>2. input = <<input[1], input[2]>>
    BY DiffAssumption
  <2>3. QED BY <1>1, <2>1, <2>2 DEF Init, DiffInit, Given
<1>3. next = 1 /\ phase = "region" /\ script = << >>
  BY <1>1 DEF Init, DiffInit
<1>4. Len(chain) \in Nat /\ old \in Seq(Lines) /\ new \in Seq(Lines)
  BY <1>2, ChainAnchored, TextsTyped DEF Anchored
<1>5. 1 \in 1 .. Len(chain) + 2 /\ 1 # Len(chain) + 2 /\ 1 <= Len(chain) + 1
  <2> DEFINE L == Len(chain)
  <2>1. L \in Nat
    BY <1>4
  <2> HIDE DEF L
  <2>2. 1 \in 1 .. L + 2 /\ 1 # L + 2 /\ 1 <= L + 1
    BY <2>1
  <2>3. QED BY <2>2 DEF L
<1>6. Behind(1) = 0 /\ Behind(2) = 0
  BY <1>3 DEF Behind
<1>7. OldSide(script) = SubSeq(old, 1, 0) /\ NewSide(script) = SubSeq(new, 1, 0) /\ script \in Seq(EditSet)
  <2>1. SubSeq(old, 1, 0) = << >> /\ SubSeq(new, 1, 0) = << >>
    BY <1>4, WholePart
  <2>2. << >> \in Seq(EditSet)
    OBVIOUS
  <2>3. QED BY <1>3, <2>1, <2>2, SidesEmpty
<1>8. Regions
  BY <1>3, <1>5, <1>6, <1>7 DEF Regions
<1>9. QED BY <1>2, <1>3, <1>8 DEF Searching

\* Every step keeps the invariant.
LEMMA SearchingStays ==
    ASSUME Searching, UNCHANGED diffVars
    PROVE  Searching'
<1>1. /\ UNCHANGED <<old, new, algorithm, chain, next>> /\ UNCHANGED script /\ UNCHANGED phase
      /\ v' = v /\ d' = d /\ k' = k /\ snapshots' = snapshots /\ x' = x /\ y' = y /\ edits' = edits
  BY DEF diffVars
<1>2. Given /\ Regions
  BY DEF Searching
<1>3. phase' \in {"region", "forward", "back"} /\ (phase' # "region" => next <= Len(chain) + 1)
  BY <1>1, <1>2 DEF Regions
<1>4. /\ Old' = Old /\ New' = New /\ n' = n /\ m' = m /\ Dist' = Dist /\ Arrays' = Arrays
      /\ Given' /\ Regions'
  BY <1>1, <1>2, <1>3, SameRegion
<1>5. Tracing => Tracing'
  BY <1>1, <1>4 DEF Tracing
<1>6. WalkingBack => WalkingBack'
  BY <1>1, <1>4 DEF WalkingBack
<1>7. QED BY <1>1, <1>4, <1>5, <1>6 DEF Searching

\* The invariant of the diff: what the regions behind gave, what the search
\* of the region at work has found, and what the way back has retraced.
THEOREM SearchingThroughout == Spec => []Searching
<1>1. Init => Searching
  BY SearchingStarts
<1>2. Searching /\ [Next]_vars => Searching'
  <2>1. SUFFICES ASSUME Searching, [Next]_vars PROVE Searching'
    OBVIOUS
  <2>2. CASE Diff
    <3>1. DiffStep
      BY <2>2 DEF Diff
    <3>2. CASE OneSided
      BY <2>1, <3>2, OneSidedEnds DEF Searching
    <3>3. CASE StartTrace
      <4>1. phase' = "forward"
        BY <3>3 DEF StartTrace
      <4>2. QED BY <2>1, <3>3, <4>1, TraceStarts DEF Searching
    <3>4. CASE Forward
      <4>1. phase' = "forward"
        BY <3>4 DEF Forward
      <4>2. QED BY <2>1, <3>4, <4>1, ForwardTraces DEF Searching
    <3>5. CASE ReachEnd
      <4>1. phase' = "back"
        BY <3>5 DEF ReachEnd
      <4>2. QED BY <2>1, <3>5, <4>1, EndReached DEF Searching
    <3>6. CASE Backtrack
      BY <2>1, <3>6, WalksBack DEF Searching
    <3>7. QED BY <3>1, <3>2, <3>3, <3>4, <3>5, <3>6 DEF DiffStep
  <2>3. CASE ~Diff
    <3>1. UNCHANGED diffVars
      <4>1. CASE Send
        BY <4>1 DEF Send
      <4>2. CASE ApplyDirectly
        BY <4>2 DEF ApplyDirectly
      <4>3. CASE Parse
        BY <4>3 DEF Parse, Commentary, ReadHeader, ReadBody, ReadEdit, ReadOn, CloseHunk, Truncated, BadLine,
                    EndParse
      <4>4. CASE Apply
        BY <4>4 DEF Apply, StartHunk, ApplyEdit, EndHunk, Refuse, Finish
      <4>5. CASE UNCHANGED vars
        BY <4>5 DEF vars
      <4>6. QED BY <2>1, <2>3, <4>1, <4>2, <4>3, <4>4, <4>5 DEF Next
    <3>2. QED BY <2>1, <3>1, SearchingStays
  <2>4. QED BY <2>2, <2>3
<1>3. QED BY <1>1, <1>2, PTL DEF Spec

\* The script leads from the one text to the other, and Myers' has as many
\* changes as a longest common subsequence leaves.
THEOREM MinimalScript == Spec => []ScriptIsMinimal
<1>1. Searching => ScriptIsMinimal
  <2>1. SUFFICES ASSUME Given, Regions, Diffed
                 PROVE  /\ OldSide(script) = old /\ NewSide(script) = new
                        /\ algorithm = "myers" =>
                             Len(Changes(script)) = Len(old) + Len(new) - 2 * CommonLength(old, new)
    BY DEF Searching, ScriptIsMinimal
  <2>2. next = Len(chain) + 2
    BY <2>1 DEF Diffed
  <2>3. OldSide(script) = old /\ NewSide(script) = new
    BY <2>1, <2>2 DEF Regions
  <2>4. ASSUME algorithm = "myers"
        PROVE  Len(Changes(script)) = Len(old) + Len(new) - 2 * CommonLength(old, new)
    <3>1. chain = << >>
      BY <2>1, <2>4 DEF Given
    <3>2. next = 2
      BY <2>2, <3>1
    <3>3. QED BY <2>1, <2>4, <3>2 DEF Regions, Shortest
  <2>5. QED BY <2>3, <2>4
<1>2. QED BY <1>1, SearchingThroughout, PTL

-----------------------------------------------------------------------------
(* No script has fewer changes *)

\* The lines of u are the first of s.
Begins(u, s) == Len(u) <= Len(s) /\ \A i \in 1 .. Len(u) : u[i] = s[i]

\* What a text begins with, a line shorter, and the line behind it.
LEMMA BeginsShorter ==
    ASSUME NEW u \in Seq(Lines), NEW l \in Lines, NEW s, Len(s) \in Nat, Begins(Append(u, l), s)
    PROVE  Begins(u, s) /\ Len(u) + 1 <= Len(s) /\ s[Len(u) + 1] = l
<1>1. /\ Len(Append(u, l)) = Len(u) + 1 /\ Append(u, l)[Len(u) + 1] = l /\ Len(u) \in Nat
      /\ \A i \in 1 .. Len(u) : Append(u, l)[i] = u[i]
  OBVIOUS
<1>2. Len(u) + 1 \in 1 .. Len(u) + 1 /\ \A i \in 1 .. Len(u) : i \in 1 .. Len(u) + 1
  BY <1>1
<1> DEFINE z == Append(u, l)
           N == Len(u)
<1> HIDE DEF z
<1>3. N + 1 <= Len(s) /\ \A i \in 1 .. N + 1 : z[i] = s[i]
  BY <1>1 DEF Begins, z
<1>4. s[N + 1] = l /\ \A i \in 1 .. N : u[i] = s[i]
  BY <1>1, <1>2, <1>3 DEF z
<1>5. N <= Len(s)
  <2> DEFINE M == Len(s)
  <2>1. N \in Nat /\ M \in Nat /\ N + 1 <= M
    BY <1>1, <1>3
  <2> HIDE DEF N, M
  <2>2. N <= M
    BY <2>1
  <2>3. QED BY <2>2 DEF M
<1>6. QED BY <1>3, <1>4, <1>5 DEF Begins

\* How far a script has come never takes more changes than it has.
LEMMA ChangesCover ==
    ASSUME NEW D, NEW s, NEW t, IsDistance(D, s, t), Len(s) \in Nat, Len(t) \in Nat, NEW r \in Seq(EditSet),
           Begins(OldSide(r), s), Begins(NewSide(r), t)
    PROVE  D[<<Len(OldSide(r)), Len(NewSide(r))>>] <= Len(Changes(r))
<1> DEFINE Good(q) == Begins(OldSide(q), s) /\ Begins(NewSide(q), t)
                        => D[<<Len(OldSide(q)), Len(NewSide(q))>>] <= Len(Changes(q))
           T == { N \in Nat : \A q \in Seq(EditSet) : Len(q) = N => Good(q) }
<1>1. 0 \in T
  <2>1. SUFFICES ASSUME NEW q \in Seq(EditSet), Len(q) = 0 PROVE Good(q)
    OBVIOUS
  <2>2. q = << >> /\ Len(<< >>) = 0
    BY <2>1
  <2>3. OldSide(q) = << >> /\ NewSide(q) = << >> /\ Changes(q) = << >>
    BY <2>2, SidesEmpty
  <2>4. D[<<0, 0>>] = 0
    BY DEF IsDistance
  <2>5. QED BY <2>2, <2>3, <2>4
<1>2. \A N \in T : N + 1 \in T
  <2> HIDE DEF Good
  <2>0. SUFFICES ASSUME NEW N \in T, NEW p \in Seq(EditSet), Len(p) = N + 1
                 PROVE  Good(p)
    OBVIOUS
  <2>1. SUFFICES ASSUME Begins(OldSide(p), s), Begins(NewSide(p), t)
                 PROVE  D[<<Len(OldSide(p)), Len(NewSide(p))>>] <= Len(Changes(p))
    BY DEF Good
  <2>2. N \in Nat /\ \A q \in Seq(EditSet) : Len(q) = N => Good(q)
    OBVIOUS
  <2> HIDE DEF T
  <2>3. PICK q \in Seq(EditSet), e \in EditSet : Len(q) = N /\ p = Append(q, e)
    BY <2>0, <2>2, LastOff, SMTT(60)
  <2>4. Good(q)
    BY <2>2, <2>3
  <2> DEFINE u == OldSide(q)
             w == NewSide(q)
             c == Changes(q)
             l == e.line
             a == Len(u)
             b == Len(w)
             z == Len(c)
  <2>5. u \in Seq(Lines) /\ w \in Seq(Lines) /\ c \in Seq(Lines) /\ l \in Lines
    BY SidesType, EditsAre
  <2>6. a \in Nat /\ b \in Nat /\ z \in Nat
    BY <2>5
  <2>7. /\ OldSide(p) = IF InOld(e) THEN Append(u, l) ELSE u
        /\ NewSide(p) = IF InNew(e) THEN Append(w, l) ELSE w
        /\ Changes(p) = IF IsChange(e) THEN Append(c, l) ELSE c
    BY <2>3, SidesAppend
  <2>8. Begins(u, s) /\ Begins(w, t) => D[<<a, b>>] <= z
    BY <2>4 DEF Good
  <2> HIDE DEF u, w, c, l
  <2>9. /\ Len(Append(u, l)) = a + 1 /\ Len(Append(w, l)) = b + 1 /\ Len(Append(c, l)) = z + 1
    BY <2>5
  <2>10. e.kind \in {"keep", "delete", "insert"}
    BY EditsAre
  <2>11. InOld(e) => Begins(u, s) /\ a + 1 <= Len(s) /\ s[a + 1] = l
    BY <2>1, <2>5, <2>7, BeginsShorter
  <2>12. InNew(e) => Begins(w, t) /\ b + 1 <= Len(t) /\ t[b + 1] = l
    BY <2>1, <2>5, <2>7, BeginsShorter
  <2>13. Begins(u, s) /\ Begins(w, t)
    BY <2>1, <2>7, <2>11, <2>12
  <2>14. D[<<a, b>>] <= z
    BY <2>8, <2>13
  <2> HIDE DEF a, b, z
  <2>15. /\ D[<<a, b>>] \in Nat /\ D[<<a + 1, b>>] \in Nat /\ D[<<a, b + 1>>] \in Nat
         /\ D[<<a + 1, b>>] <= D[<<a, b>>] + 1 /\ D[<<a, b + 1>>] <= D[<<a, b>>] + 1
    <3>1. a + 1 \in Nat /\ b + 1 \in Nat
      BY <2>6
    <3>2. D[<<a, b>>] \in Nat /\ D[<<a + 1, b>>] \in Nat /\ D[<<a, b + 1>>] \in Nat
      BY <2>6, <3>1 DEF IsDistance
    <3>3. /\ D[<<a + 1, b>>] = D[<<a, b>>] - 1 \/ D[<<a + 1, b>>] = D[<<a, b>>] + 1
          /\ D[<<a, b + 1>>] = D[<<a, b>>] - 1 \/ D[<<a, b + 1>>] = D[<<a, b>>] + 1
      BY <2>6 DEF IsDistance
    <3>4. QED BY <3>2, <3>3
  <2>16. CASE e.kind = "keep"
    <3>1. InOld(e) /\ InNew(e) /\ ~IsChange(e)
      BY <2>16 DEF InOld, InNew, IsChange
    <3>2. Meets(s, t, a + 1, b + 1)
      BY <2>11, <2>12, <3>1 DEF Meets
    <3>3. D[<<a + 1, b + 1>>] = D[<<a, b>>]
      BY <2>6, <3>2 DEF IsDistance
    <3>4. Len(OldSide(p)) = a + 1 /\ Len(NewSide(p)) = b + 1 /\ Len(Changes(p)) = z
      BY <2>7, <2>9, <3>1 DEF a, b, z
    <3>5. QED BY <2>14, <3>3, <3>4
  <2>17. CASE e.kind = "delete"
    <3>1. InOld(e) /\ ~InNew(e) /\ IsChange(e)
      BY <2>17 DEF InOld, InNew, IsChange
    <3>2. Len(OldSide(p)) = a + 1 /\ Len(NewSide(p)) = b /\ Len(Changes(p)) = z + 1
      BY <2>7, <2>9, <3>1 DEF a, b, z
    <3>3. QED BY <2>6, <2>14, <2>15, <3>2, SMTT(30)
  <2>18. CASE e.kind = "insert"
    <3>1. ~InOld(e) /\ InNew(e) /\ IsChange(e)
      BY <2>18 DEF InOld, InNew, IsChange
    <3>2. Len(OldSide(p)) = a /\ Len(NewSide(p)) = b + 1 /\ Len(Changes(p)) = z + 1
      BY <2>7, <2>9, <3>1 DEF a, b, z
    <3>3. QED BY <2>6, <2>14, <2>15, <3>2, SMTT(30)
  <2>19. QED BY <2>10, <2>16, <2>17, <2>18
<1>3. T \subseteq Nat
  OBVIOUS
<1> HIDE DEF T
<1>4. T = Nat
  BY <1>1, <1>2, <1>3, NatSetInduction
<1>5. Len(r) \in T
  BY <1>4
<1>6. QED BY <1>5 DEF T

\* Every script between two texts has at least as many changes as their
\* longest common subsequence leaves.
LEMMA NoneShorter ==
    ASSUME NEW r \in Seq(EditSet)
    PROVE  Shortest(OldSide(r), NewSide(r)) <= Len(Changes(r))
<1> DEFINE s == OldSide(r)
           t == NewSide(r)
           D == Distance(s, t)
<1>1. Len(s) \in Nat /\ Len(t) \in Nat
  BY SidesType
<1>2. IsDistance(D, s, t) /\ D[<<Len(s), Len(t)>>] = Shortest(s, t)
  BY <1>1, DistanceIs
<1>3. Begins(s, s) /\ Begins(t, t)
  BY <1>1 DEF Begins
<1> HIDE DEF D
<1>4. QED BY <1>1, <1>2, <1>3, ChangesCover

\* Whatever script leads from the old text to the new, Myers' has no more
\* changes.
THEOREM NoScriptIsShorter ==
    Spec => [](Diffed /\ algorithm = "myers" =>
                 \A r \in Seq(EditSet) :
                   OldSide(r) = old /\ NewSide(r) = new => Len(Changes(script)) <= Len(Changes(r)))
<1> DEFINE Least == Diffed /\ algorithm = "myers" =>
                      \A r \in Seq(EditSet) :
                        OldSide(r) = old /\ NewSide(r) = new => Len(Changes(script)) <= Len(Changes(r))
<1>1. ScriptIsMinimal => Least
  <2>1. SUFFICES ASSUME ScriptIsMinimal, Diffed, algorithm = "myers", NEW r \in Seq(EditSet),
                        OldSide(r) = old, NewSide(r) = new
                 PROVE  Len(Changes(script)) <= Len(Changes(r))
    OBVIOUS
  <2>2. Len(Changes(script)) = Shortest(old, new)
    BY <2>1 DEF ScriptIsMinimal, Shortest
  <2>3. Shortest(OldSide(r), NewSide(r)) <= Len(Changes(r))
    BY NoneShorter
  <2>4. QED BY <2>1, <2>2, <2>3
<1>2. QED BY <1>1, MinimalScript, PTL

-----------------------------------------------------------------------------
(* The groups of changes *)

\* After the first p edits: groups from change to change, too far apart to
\* join, with every change in one of them.
Grouped(G, p) ==
    /\ G \in Seq(Nat \X Nat)
    /\ \A i \in 1 .. Len(G) :
         /\ 1 <= G[i][1] /\ G[i][1] <= G[i][2] /\ G[i][2] <= p
         /\ IsChange(script[G[i][1]])
    /\ \A i, j \in 1 .. Len(G) : i < j => G[i][2] + 2 * context + 1 < G[j][1]
    /\ \A q \in 1 .. p :
         IsChange(script[q]) => \E i \in 1 .. Len(G) : G[i][1] <= q /\ q <= G[i][2]

\* Joined groups are pairs of positions.
LEMMA JoinType ==
    ASSUME context \in Nat, NEW G \in Seq(Nat \X Nat), NEW p \in Nat
    PROVE  /\ Join(G, p) \in Seq(Nat \X Nat)
           /\ \/ /\ G # << >> /\ p <= G[Len(G)][2] + 2 * context + 1
                 /\ Len(Join(G, p)) = Len(G)
                 /\ \A i \in 1 .. Len(G) : i < Len(G) => Join(G, p)[i] = G[i]
                 /\ Join(G, p)[Len(G)] = <<G[Len(G)][1], p>>
              \/ /\ G # << >> => p > G[Len(G)][2] + 2 * context + 1
                 /\ Len(Join(G, p)) = Len(G) + 1
                 /\ \A i \in 1 .. Len(G) : Join(G, p)[i] = G[i]
                 /\ Join(G, p)[Len(G) + 1] = <<p, p>>
<1>1. CASE G # << >> /\ p <= G[Len(G)][2] + 2 * context + 1
  <2> DEFINE F == SubSeq(G, 1, Len(G) - 1)
             e == <<G[Len(G)][1], p>>
  <2>1. Len(G) \in Nat \ {0} /\ G[Len(G)] \in Nat \X Nat
    BY <1>1
  <2>2. e \in Nat \X Nat
    BY <2>1
  <2>3. /\ F \in Seq(Nat \X Nat) /\ Len(F) = Len(G) - 1
        /\ \A i \in 1 .. Len(G) : i < Len(G) => F[i] = G[i]
    <3>1. F \in Seq(Nat \X Nat)
      BY <2>1
    <3>2. Len(F) = Len(G) - 1
      <4> DEFINE M == Len(G) - 1
      <4>1. M \in Nat /\ M <= Len(G)
        BY <2>1
      <4> HIDE DEF M
      <4>2. Len(SubSeq(G, 1, M)) = M
        BY <4>1
      <4>3. QED BY <4>2 DEF M
    <3>3. \A i \in 1 .. Len(G) : i < Len(G) => F[i] = G[i]
      BY <2>1
    <3>4. QED BY <3>1, <3>2, <3>3
  <2>4. Join(G, p) = Append(F, e)
    BY <1>1 DEF Join, Last, Front
  <2> HIDE DEF F, e
  <2>5. /\ Append(F, e) \in Seq(Nat \X Nat) /\ Len(Append(F, e)) = Len(F) + 1
        /\ \A i \in 1 .. Len(F) : Append(F, e)[i] = F[i]
        /\ Append(F, e)[Len(F) + 1] = e
    BY <2>2, <2>3, AppendProperties
  <2>6. Len(F) + 1 = Len(G) /\ \A i \in 1 .. Len(G) : i < Len(G) => i \in 1 .. Len(F)
    BY <2>1, <2>3
  <2>7. QED BY <1>1, <2>3, <2>4, <2>5, <2>6 DEF e
<1>2. CASE ~(G # << >> /\ p <= G[Len(G)][2] + 2 * context + 1)
  <2>1. Join(G, p) = Append(G, <<p, p>>)
    BY <1>2 DEF Join, Last
  <2>2. <<p, p>> \in Nat \X Nat
    OBVIOUS
  <2>3. /\ Append(G, <<p, p>>) \in Seq(Nat \X Nat) /\ Len(Append(G, <<p, p>>)) = Len(G) + 1
        /\ \A i \in 1 .. Len(G) : Append(G, <<p, p>>)[i] = G[i]
        /\ Append(G, <<p, p>>)[Len(G) + 1] = <<p, p>>
    BY <2>2, AppendProperties
  <2>4. G # << >> => p > G[Len(G)][2] + 2 * context + 1
    <3>1. SUFFICES ASSUME G # << >> PROVE p > G[Len(G)][2] + 2 * context + 1
      OBVIOUS
    <3>2. G[Len(G)] \in Nat \X Nat
      BY <3>1
    <3>3. G[Len(G)][2] \in Nat
      BY <3>2
    <3>4. QED BY <1>2, <3>1, <3>3
  <2>5. QED BY <2>1, <2>3, <2>4
<1>3. QED BY <1>1, <1>2

\* The next edit, if it is a change, joins the last group or opens one.
LEMMA GroupsGrow ==
    ASSUME context \in Nat, NEW p \in Nat \ {0}, NEW G, Grouped(G, p - 1)
    PROVE  Grouped(IF IsChange(script[p]) THEN Join(G, p) ELSE G, p)
<1>1. /\ G \in Seq(Nat \X Nat) /\ Len(G) \in Nat
      /\ \A i \in 1 .. Len(G) :
           /\ 1 <= G[i][1] /\ G[i][1] <= G[i][2] /\ G[i][2] <= p - 1
           /\ IsChange(script[G[i][1]]) /\ G[i][1] \in Nat /\ G[i][2] \in Nat
      /\ \A i, j \in 1 .. Len(G) : i < j => G[i][2] + 2 * context + 1 < G[j][1]
      /\ \A q \in 1 .. p - 1 :
           IsChange(script[q]) => \E i \in 1 .. Len(G) : G[i][1] <= q /\ q <= G[i][2]
  <2>1. G \in Seq(Nat \X Nat)
    BY DEF Grouped
  <2>2. \A i \in 1 .. Len(G) : G[i] \in Nat \X Nat
    BY <2>1
  <2>3. QED BY <2>1, <2>2 DEF Grouped
<1>2. CASE ~IsChange(script[p])
  <2>1. \A q \in 1 .. p : q # p => q \in 1 .. p - 1
    OBVIOUS
  <2>2. \A i \in 1 .. Len(G) : G[i][2] <= p
    BY <1>1
  <2>3. QED BY <1>1, <1>2, <2>1, <2>2 DEF Grouped
<1>3. CASE IsChange(script[p])
  <2> DEFINE J == Join(G, p)
             N == Len(G)
  <2>0. N \in Nat /\ p \in Nat
    BY <1>1
  <2>1. CASE /\ G # << >> /\ Len(J) = N
             /\ \A i \in 1 .. N : i < N => J[i] = G[i]
             /\ J[N] = <<G[N][1], p>>
    <3>1. N \in 1 .. N
      BY <1>1, <2>1
    <3>2. J[N][1] = G[N][1] /\ J[N][2] = p
      BY <2>1
    <3>3. J \in Seq(Nat \X Nat)
      BY <1>1, JoinType
    <3> HIDE DEF J, N
    <3>4. ASSUME NEW i \in 1 .. N
          PROVE  1 <= J[i][1] /\ J[i][1] <= J[i][2] /\ J[i][2] <= p /\ IsChange(script[J[i][1]])
      <4>1. CASE i = N
        <5>1. 1 <= G[N][1] /\ G[N][1] <= G[N][2] /\ G[N][2] <= p - 1 /\ IsChange(script[G[N][1]])
          BY <1>1, <3>1 DEF N
        <5>2. G[N][1] \in Nat /\ G[N][2] \in Nat
          BY <1>1, <3>1 DEF N
        <5>3. G[N][1] <= p
          BY <5>1, <5>2
        <5>4. QED BY <3>2, <4>1, <5>1, <5>3
      <4>2. CASE i # N
        <5>1. i < N /\ J[i] = G[i]
          BY <2>0, <2>1, <4>2
        <5>2. 1 <= G[i][1] /\ G[i][1] <= G[i][2] /\ G[i][2] <= p - 1 /\ IsChange(script[G[i][1]])
          BY <1>1 DEF N
        <5>3. G[i][2] \in Nat
          BY <1>1 DEF N
        <5>4. QED BY <5>1, <5>2, <5>3
      <4>3. QED BY <4>1, <4>2
    <3>5. ASSUME NEW i \in 1 .. N, NEW j \in 1 .. N, i < j
          PROVE  J[i][2] + 2 * context + 1 < J[j][1]
      <4>1. J[i] = G[i] /\ J[j][1] = G[j][1]
        BY <2>0, <2>1, <3>2, <3>5
      <4>2. G[i][2] + 2 * context + 1 < G[j][1]
        BY <1>1, <3>5 DEF N
      <4>3. QED BY <4>1, <4>2
    <3>6. ASSUME NEW q \in 1 .. p, IsChange(script[q])
          PROVE  \E i \in 1 .. N : J[i][1] <= q /\ q <= J[i][2]
      <4>1. CASE q = p
        <5>1. G[N][1] <= G[N][2] /\ G[N][2] <= p - 1 /\ G[N][1] \in Nat /\ G[N][2] \in Nat
          BY <1>1, <3>1 DEF N
        <5>2. G[N][1] <= p
          BY <5>1
        <5>3. QED BY <3>1, <3>2, <4>1, <5>2
      <4>2. CASE q # p
        <5>1. q \in 1 .. p - 1
          BY <4>2
        <5>2. PICK i \in 1 .. N : G[i][1] <= q /\ q <= G[i][2]
          BY <1>1, <3>6, <5>1 DEF N
        <5>3. CASE i = N
          BY <3>1, <3>2, <5>2, <5>3
        <5>4. CASE i # N
          <6>1. J[i] = G[i]
            BY <2>0, <2>1, <5>4
          <6>2. QED BY <5>2, <6>1
        <5>5. QED BY <5>3, <5>4
      <4>3. QED BY <4>1, <4>2
    <3>7. Len(J) = N
      BY <2>1
    <3>8. Grouped(J, p)
      BY <3>3, <3>4, <3>5, <3>6, <3>7 DEF Grouped
    <3>9. QED BY <1>3, <3>8 DEF J
  <2>2. CASE /\ G # << >> => p > G[N][2] + 2 * context + 1
             /\ Len(J) = N + 1
             /\ \A i \in 1 .. N : J[i] = G[i]
             /\ J[N + 1] = <<p, p>>
    <3>2. J[N + 1][1] = p /\ J[N + 1][2] = p
      BY <2>2
    <3>3. J \in Seq(Nat \X Nat)
      BY <1>1, JoinType
    <3>10. G # << >> <=> N > 0
      BY <1>1
    <3> HIDE DEF J, N
    <3>4. ASSUME NEW i \in 1 .. N + 1
          PROVE  1 <= J[i][1] /\ J[i][1] <= J[i][2] /\ J[i][2] <= p /\ IsChange(script[J[i][1]])
      <4>1. CASE i = N + 1
        BY <1>3, <3>2, <4>1
      <4>2. CASE i # N + 1
        <5>1. i \in 1 .. N /\ J[i] = G[i]
          BY <2>0, <2>2, <4>2
        <5>2. 1 <= G[i][1] /\ G[i][1] <= G[i][2] /\ G[i][2] <= p - 1 /\ IsChange(script[G[i][1]])
          BY <1>1, <5>1 DEF N
        <5>3. G[i][2] \in Nat
          BY <1>1, <5>1 DEF N
        <5>4. QED BY <5>1, <5>2, <5>3
      <4>3. QED BY <4>1, <4>2
    <3>5. ASSUME NEW i \in 1 .. N + 1, NEW j \in 1 .. N + 1, i < j
          PROVE  J[i][2] + 2 * context + 1 < J[j][1]
      <4>1. i \in 1 .. N /\ J[i] = G[i]
        BY <2>0, <2>2, <3>5
      <4>2. CASE j = N + 1
        <5>1. N \in 1 .. N /\ N > 0
          BY <2>0, <4>1
        <5>2. p > G[N][2] + 2 * context + 1
          BY <2>2, <3>10, <5>1
        <5>3. G[i][2] <= G[N][2]
          <6>1. CASE i = N
            <7>1. G[N][2] \in Nat
              BY <1>1, <5>1 DEF N
            <7>2. QED BY <6>1, <7>1
          <6>2. CASE i # N
            <7>1. i < N
              BY <2>0, <4>1, <6>2
            <7>2. G[i][2] + 2 * context + 1 < G[N][1]
              BY <1>1, <4>1, <5>1, <7>1 DEF N
            <7>3. G[N][1] <= G[N][2] /\ G[N][1] \in Nat /\ G[N][2] \in Nat
              BY <1>1, <5>1 DEF N
            <7>4. G[i][2] \in Nat
              BY <1>1, <4>1 DEF N
            <7>5. QED BY <7>2, <7>3, <7>4
          <6>3. QED BY <6>1, <6>2
        <5>4. G[i][2] \in Nat /\ G[N][2] \in Nat
          BY <1>1, <4>1, <5>1 DEF N
        <5>5. G[i][2] + 2 * context + 1 < p
          BY <5>2, <5>3, <5>4
        <5>6. QED BY <3>2, <4>1, <4>2, <5>5
      <4>3. CASE j # N + 1
        <5>1. j \in 1 .. N /\ J[j] = G[j]
          BY <2>0, <2>2, <4>3
        <5>2. G[i][2] + 2 * context + 1 < G[j][1]
          BY <1>1, <3>5, <4>1, <5>1 DEF N
        <5>3. QED BY <4>1, <5>1, <5>2
      <4>4. QED BY <4>2, <4>3
    <3>6. ASSUME NEW q \in 1 .. p, IsChange(script[q])
          PROVE  \E i \in 1 .. N + 1 : J[i][1] <= q /\ q <= J[i][2]
      <4>0. N + 1 \in 1 .. N + 1 /\ \A i \in 1 .. N : i \in 1 .. N + 1
        BY <2>0
      <4>1. CASE q = p
        BY <3>2, <4>0, <4>1
      <4>2. CASE q # p
        <5>1. q \in 1 .. p - 1
          BY <4>2
        <5>2. PICK i \in 1 .. N : G[i][1] <= q /\ q <= G[i][2]
          BY <1>1, <3>6, <5>1 DEF N
        <5>3. J[i] = G[i]
          BY <2>2
        <5>4. QED BY <4>0, <5>2, <5>3
      <4>3. QED BY <4>1, <4>2
    <3>7. Len(J) = N + 1
      BY <2>2
    <3>8. Grouped(J, p)
      BY <3>3, <3>4, <3>5, <3>6, <3>7 DEF Grouped
    <3>9. QED BY <1>3, <3>8 DEF J
  <2>3. \/ /\ G # << >> /\ p <= G[Len(G)][2] + 2 * context + 1
           /\ Len(Join(G, p)) = Len(G)
           /\ \A i \in 1 .. Len(G) : i < Len(G) => Join(G, p)[i] = G[i]
           /\ Join(G, p)[Len(G)] = <<G[Len(G)][1], p>>
        \/ /\ G # << >> => p > G[Len(G)][2] + 2 * context + 1
           /\ Len(Join(G, p)) = Len(G) + 1
           /\ \A i \in 1 .. Len(G) : Join(G, p)[i] = G[i]
           /\ Join(G, p)[Len(G) + 1] = <<p, p>>
    <3>1. G \in Seq(Nat \X Nat) /\ p \in Nat
      BY <1>1
    <3>2. QED BY <3>1, JoinType, Zenon
  <2>4. QED BY <2>1, <2>2, <2>3
<1>4. QED BY <1>2, <1>3

\* Groups goes through the script edit by edit.
LEMMA GroupsAre ==
    ASSUME context \in Nat, Len(script) \in Nat
    PROVE  Grouped(Groups, Len(script))
<1> DEFINE L == Len(script)
           X == 0 .. L
           S == Seq(Nat \X Nat)
           Step == [p \in X \X S |-> IF IsChange(script[p[1]]) THEN Join(p[2], p[1]) ELSE p[2]]
           body(f) == [p \in X |-> IF p = 0 THEN << >>
                                   ELSE IF IsChange(script[p]) THEN Join(f[p - 1], p)
                                   ELSE f[p - 1]]
<1>1. L \in Nat /\ << >> \in S
  OBVIOUS
<1>2. Step \in [X \X S -> S]
  <2>1. \A i \in X, w \in S : Join(w, i) \in S
    BY <1>1, JoinType
  <2> HIDE DEF S
  <2>2. QED BY <2>1
<1>3. \A i \in X, w \in S : Step[<<i, w>>] = IF IsChange(script[i]) THEN Join(w, i) ELSE w
  <2> HIDE DEF S
  <2>1. QED OBVIOUS
<1> HIDE DEF Step, S
<1>4. Countings(0, L, S, << >>, Step) # {}
  <2>1. 0 \in Int /\ L \in Int
    BY <1>1
  <2> HIDE DEF L
  <2>2. QED BY <1>1, <1>2, <2>1, CountingHasValue
<1>5. PICK f \in [X -> S] :
        \A i \in X : f[i] = IF i = 0 THEN << >> ELSE Step[<<i, f[i - 1]>>]
  BY <1>4 DEF Countings
<1>6. f = body(f)
  <2>1. f = [i \in X |-> f[i]]
    BY <1>5
  <2>2. \A i \in X : i # 0 => i - 1 \in X
    BY <1>1
  <2>3. \A i \in X : f[i] = IF i = 0 THEN << >>
                            ELSE IF IsChange(script[i]) THEN Join(f[i - 1], i)
                            ELSE f[i - 1]
    BY <1>3, <1>5, <2>2
  <2>4. QED BY <2>1, <2>3
<1> DEFINE G == CHOOSE g : g = body(g)
<1>7. G = body(G)
  BY <1>6, Zenon
<1>8. Groups = G[L]
  BY DEF Groups
<1> HIDE DEF G
<1>9. G[0] = << >> /\ \A i \in X : i # 0 => G[i] = IF IsChange(script[i]) THEN Join(G[i - 1], i)
                                                   ELSE G[i - 1]
  <2>1. 0 \in X
    BY <1>1
  <2>2. \A i \in X : body(G)[i] = IF i = 0 THEN << >>
                                  ELSE IF IsChange(script[i]) THEN Join(G[i - 1], i)
                                  ELSE G[i - 1]
    OBVIOUS
  <2> HIDE DEF body, X
  <2>3. QED BY <1>7, <2>1, <2>2
<1> DEFINE T == { i \in X : Grouped(G[i], i) }
<1>10. 0 \in T
  <2>1. << >> \in Seq(Nat \X Nat) /\ Len(<< >>) = 0 /\ 1 .. 0 = {}
    OBVIOUS
  <2>2. Grouped(<< >>, 0)
    BY <2>1 DEF Grouped
  <2>3. QED BY <1>1, <1>9, <2>2
<1>11. \A i \in 1 .. L : i - 1 \in T => i \in T
  <2>1. SUFFICES ASSUME NEW i \in 1 .. L, Grouped(G[i - 1], i - 1) PROVE Grouped(G[i], i)
    BY <1>1
  <2>2. i \in X /\ i # 0 /\ i \in Nat \ {0}
    BY <1>1
  <2>3. Grouped(IF IsChange(script[i]) THEN Join(G[i - 1], i) ELSE G[i - 1], i)
    BY <2>1, <2>2, GroupsGrow
  <2>4. QED BY <1>9, <2>2, <2>3
<1> HIDE DEF T
<1>12. \A i \in 0 .. L : i \in T
  BY <1>1, <1>10, <1>11, UpTo
<1>13. L \in T
  BY <1>1, <1>12
<1>14. QED BY <1>8, <1>13 DEF T

\* The smaller of two numbers.
LEMMA MinOfTwo ==
    ASSUME NEW a \in Int, NEW b \in Int
    PROVE  Min({a, b}) = IF a <= b THEN a ELSE b
<1> DEFINE z == IF a <= b THEN a ELSE b
<1>1. z \in {a, b} /\ \A w \in {a, b} : z <= w
  OBVIOUS
<1>2. \A w \in {a, b} : (\A u \in {a, b} : w <= u) => w = z
  OBVIOUS
<1> HIDE DEF z
<1>3. (CHOOSE w \in {a, b} : \A u \in {a, b} : w <= u) = z
  BY <1>1, <1>2
<1>4. QED BY <1>3 DEF Min, z

-----------------------------------------------------------------------------
(* Hunks *)

HunkSet == [oldStart : Nat, oldLen : Nat, newStart : Nat, newLen : Nat, edits : Seq(EditSet)]

\* The hunk of the edits behind the first a, up to the b-th.
HunkAt(a, b) ==
    [oldStart |-> Len(OldSide(SubSeq(script, 1, a))), oldLen |-> Len(OldSide(SubSeq(script, a + 1, b))),
     newStart |-> Len(NewSide(SubSeq(script, 1, a))), newLen |-> Len(NewSide(SubSeq(script, a + 1, b))),
     edits    |-> SubSeq(script, a + 1, b)]

\* How many edits are before the i-th hunk, and with it.
From(i) == Max({1, Groups[i][1] - context}) - 1
Upto(i) == Min({Len(script), Groups[i][2] + context})

\* Hunks lie behind one another and hold every change.
HunksLie ==
    /\ hunks \in Seq(HunkSet)
    /\ \A i \in 1 .. Len(hunks) :
         /\ From(i) \in Nat /\ Upto(i) \in Nat /\ From(i) < Upto(i) /\ Upto(i) <= Len(script)
         /\ hunks[i] = HunkAt(From(i), Upto(i))
    /\ \A i, j \in 1 .. Len(hunks) : i < j => Upto(i) <= From(j)
    /\ \A q \in 1 .. Len(script) :
         IsChange(script[q]) => \E i \in 1 .. Len(hunks) : From(i) < q /\ q <= Upto(i)
    /\ \A i \in 1 .. Len(hunks) :
         context > 0 /\ From(i) > 0 => ~IsChange(script[From(i) + 1])

\* Hunks of parts of the script are hunks.
LEMMA HunkTyped ==
    ASSUME script \in Seq(EditSet), NEW a \in Nat, NEW b \in Nat, a <= b, b <= Len(script)
    PROVE  /\ HunkAt(a, b) \in HunkSet
           /\ SubSeq(script, 1, a) \in Seq(EditSet) /\ SubSeq(script, a + 1, b) \in Seq(EditSet)
<1> DEFINE q == SubSeq(script, 1, a)
           w == SubSeq(script, a + 1, b)
<1>1. q \in Seq(EditSet) /\ w \in Seq(EditSet)
  OBVIOUS
<1> HIDE DEF q, w
<1>2. /\ Len(OldSide(q)) \in Nat /\ Len(NewSide(q)) \in Nat
      /\ Len(OldSide(w)) \in Nat /\ Len(NewSide(w)) \in Nat
  BY <1>1, SidesType
<1>3. HunkAt(a, b) \in HunkSet
  BY <1>1, <1>2 DEF HunkAt, HunkSet, q, w
<1>4. QED BY <1>1, <1>3 DEF q, w

\* What hunks gives.
LEMMA HunksAre ==
    ASSUME script \in Seq(EditSet), context \in Nat
    PROVE  HunksLie
<1> DEFINE G == Groups
           N == Len(Groups)
           L == Len(script)
<1>1. L \in Nat /\ Grouped(G, L)
  BY GroupsAre
<1>2. /\ G \in Seq(Nat \X Nat) /\ N \in Nat /\ DOMAIN G = 1 .. N
      /\ \A i \in 1 .. N : /\ G[i][1] \in Nat /\ G[i][2] \in Nat
                           /\ 1 <= G[i][1] /\ G[i][1] <= G[i][2] /\ G[i][2] <= L
  <2>1. G \in Seq(Nat \X Nat)
    BY <1>1 DEF Grouped
  <2>2. N \in Nat /\ DOMAIN G = 1 .. N /\ \A i \in 1 .. N : G[i] \in Nat \X Nat
    BY <2>1
  <2>3. \A i \in 1 .. N : G[i][1] \in Nat /\ G[i][2] \in Nat
    BY <2>2
  <2>4. QED BY <1>1, <2>1, <2>2, <2>3 DEF Grouped
<1>3. ASSUME NEW i \in 1 .. N
      PROVE  /\ From(i) = IF G[i][1] > context THEN G[i][1] - context - 1 ELSE 0
             /\ Upto(i) = IF G[i][2] + context <= L THEN G[i][2] + context ELSE L
             /\ From(i) \in Nat /\ Upto(i) \in Nat /\ Upto(i) <= L
             /\ From(i) < G[i][1] /\ G[i][2] <= Upto(i) /\ From(i) < Upto(i)
  <2> DEFINE lo == G[i][1]
             hi == G[i][2]
  <2>1. lo \in Nat /\ hi \in Nat /\ 1 <= lo /\ lo <= hi /\ hi <= L
    BY <1>2
  <2> HIDE DEF lo, hi, L
  <2>2. L \in Nat
    BY <1>1
  <2>3. Max({1, lo - context}) = IF 1 >= lo - context THEN 1 ELSE lo - context
    <3>1. 1 \in Int /\ lo - context \in Int
      BY <2>1
    <3>2. QED BY <3>1, MaxOfTwo
  <2>4. Min({L, hi + context}) = IF L <= hi + context THEN L ELSE hi + context
    <3>1. L \in Int /\ hi + context \in Int
      BY <2>1, <2>2
    <3>2. QED BY <3>1, MinOfTwo
  <2>5. From(i) = Max({1, lo - context}) - 1 /\ Upto(i) = Min({L, hi + context})
    BY DEF From, Upto, lo, hi, L
  <2>6. /\ From(i) = IF lo > context THEN lo - context - 1 ELSE 0
        /\ Upto(i) = IF hi + context <= L THEN hi + context ELSE L
    BY <2>1, <2>2, <2>3, <2>4, <2>5
  <2>7. /\ From(i) \in Nat /\ Upto(i) \in Nat /\ Upto(i) <= L
        /\ From(i) < lo /\ hi <= Upto(i) /\ From(i) < Upto(i)
    BY <2>1, <2>2, <2>6
  <2>8. QED BY <2>6, <2>7 DEF lo, hi
<1>4. \A i \in 1 .. N : hunks[i] = HunkAt(From(i), Upto(i))
  <2>1. SUFFICES ASSUME NEW i \in 1 .. N PROVE hunks[i] = HunkAt(From(i), Upto(i))
    OBVIOUS
  <2>2. hunks[i] = HunkOf(G[i])
    BY <1>2 DEF hunks
  <2>3. From(i) + 1 = Max({1, G[i][1] - context})
    <3>1. Max({1, G[i][1] - context}) \in Int
      <4>1. G[i][1] - context \in Int /\ 1 \in Int
        BY <1>2
      <4>2. QED BY <4>1, MaxOfTwo
    <3>2. QED BY <3>1 DEF From
  <2>4. QED BY <2>2, <2>3 DEF HunkOf, HunkAt, Upto, From
<1>5. hunks \in Seq(HunkSet) /\ Len(hunks) = N
  <2>1. DOMAIN hunks = 1 .. N
    BY <1>2 DEF hunks
  <2>2. \A i \in 1 .. N : hunks[i] \in HunkSet
    BY <1>3, <1>4, HunkTyped
  <2>3. hunks = [i \in 1 .. N |-> hunks[i]]
    BY <2>1 DEF hunks
  <2>4. hunks \in [1 .. N -> HunkSet]
    BY <2>2, <2>3
  <2>5. hunks \in Seq(HunkSet)
    BY <1>2, <2>4, SeqDef
  <2> HIDE DEF N
  <2>6. QED BY <1>2, <2>1, <2>5, LenProperties
<1> HIDE DEF N, L
<1>6. \A i, j \in 1 .. N : i < j => Upto(i) <= From(j)
  <2>1. SUFFICES ASSUME NEW i \in 1 .. N, NEW j \in 1 .. N, i < j PROVE Upto(i) <= From(j)
    OBVIOUS
  <2> DEFINE hi == G[i][2]
             lo == G[j][1]
             e == From(j)
             u == Upto(i)
  <2>2. hi + 2 * context + 1 < lo
    BY <1>1, <2>1 DEF Grouped, N
  <2>3. hi \in Nat /\ lo \in Nat /\ u \in Nat /\ L \in Nat
    BY <1>1, <1>2, <1>3
  <2>4. /\ u = IF hi + context <= L THEN hi + context ELSE L
        /\ e = IF lo > context THEN lo - context - 1 ELSE 0
    BY <1>3
  <2> HIDE DEF hi, lo, e, u
  <2>5. u <= hi + context
    BY <2>3, <2>4
  <2>6. lo > context
    BY <2>2, <2>3
  <2>7. e = lo - context - 1
    BY <2>4, <2>6
  <2>8. u <= e
    BY <2>2, <2>3, <2>5, <2>7
  <2>9. QED BY <2>8 DEF e, u
<1>7. \A q \in 1 .. L : IsChange(script[q]) => \E i \in 1 .. N : From(i) < q /\ q <= Upto(i)
  <2>1. SUFFICES ASSUME NEW q \in 1 .. L, IsChange(script[q])
                 PROVE  \E i \in 1 .. N : From(i) < q /\ q <= Upto(i)
    OBVIOUS
  <2>2. PICK i \in 1 .. N : G[i][1] <= q /\ q <= G[i][2]
    BY <1>1, <2>1 DEF Grouped, N
  <2>3. /\ From(i) < G[i][1] /\ G[i][2] <= Upto(i) /\ From(i) \in Nat /\ Upto(i) \in Nat
        /\ G[i][1] \in Nat /\ G[i][2] \in Nat
    BY <1>2, <1>3
  <2>4. From(i) < q /\ q <= Upto(i)
    BY <1>1, <2>2, <2>3
  <2>5. QED BY <2>4
<1>8. \A i \in 1 .. N : context > 0 /\ From(i) > 0 => ~IsChange(script[From(i) + 1])
  <2>1. SUFFICES ASSUME NEW i \in 1 .. N, context > 0, From(i) > 0, IsChange(script[From(i) + 1])
                 PROVE  FALSE
    OBVIOUS
  <2> DEFINE q == From(i) + 1
  <2>2. G[i][1] \in Nat /\ G[i][2] \in Nat /\ G[i][1] <= G[i][2] /\ G[i][2] <= L /\ L \in Nat
    BY <1>1, <1>2
  <2>3. q = G[i][1] - context
    <3>1. From(i) = IF G[i][1] > context THEN G[i][1] - context - 1 ELSE 0
      BY <1>3
    <3>2. QED BY <2>1, <2>2, <3>1
  <2>4. q \in 1 .. L /\ q < G[i][1]
    BY <1>3, <2>1, <2>2, <2>3, SMTT(30)
  <2> HIDE DEF q
  <2>5. IsChange(script[q])
    BY <2>1 DEF q
  <2>6. PICK j \in 1 .. N : G[j][1] <= q /\ q <= G[j][2]
    BY <1>1, <2>4, <2>5 DEF Grouped, N, L
  <2>7. G[j][1] \in Nat /\ G[j][2] \in Nat /\ G[j][1] <= G[j][2]
    BY <1>2
  <2>8. j < i
    <3>1. j # i
      BY <2>2, <2>4, <2>6
    <3>2. ASSUME i < j PROVE FALSE
      <4>1. G[i][2] + 2 * context + 1 < G[j][1]
        BY <1>1, <3>2 DEF Grouped, N
      <4>2. QED BY <2>2, <2>4, <2>6, <2>7, <4>1, SMTT(30)
    <3>3. QED BY <1>2, <3>1, <3>2
  <2>9. G[j][2] + 2 * context + 1 < G[i][1]
    BY <1>1, <2>8 DEF Grouped, N
  <2>10. QED BY <2>2, <2>3, <2>4, <2>6, <2>7, <2>9, SMTT(30)
<1>9. QED BY <1>3, <1>4, <1>5, <1>6, <1>7, <1>8 DEF HunksLie, L

-----------------------------------------------------------------------------
(* The written diff *)

HeaderSet == [kind : {"header"}, oldStart : Nat, oldLen : Nat, newStart : Nat, newLen : Nat]
LineSet == {Name} \cup HeaderSet \cup EditSet

\* B[j] is how many lines are written when j hunks are.
Offsets(hs, B) ==
    /\ B \in [0 .. Len(hs) -> Nat] /\ B[0] = 2
    /\ \A i \in 1 .. Len(hs) : B[i] = B[i - 1] + 1 + Len(hs[i].edits)

\* w is the diff of the first j hunks: two names, then header and body of each.
LaidOut(hs, B, w, j) ==
    /\ w \in Seq(LineSet) /\ Len(w) = B[j]
    /\ w[1] = Name /\ w[2] = Name
    /\ \A i \in 1 .. j :
         /\ w[B[i - 1] + 1] = Header(hs[i])
         /\ \A q \in 1 .. Len(hs[i].edits) : w[B[i - 1] + 1 + q] = hs[i].edits[q]
    /\ \A p \in 1 .. Len(w) : p <= 2 \/ \E i \in 1 .. j : B[i - 1] < p /\ p <= B[i]

\* What a hunk and its header are made of.
LEMMA HunkParts ==
    ASSUME NEW hs \in Seq(HunkSet), NEW j \in 1 .. Len(hs)
    PROVE  /\ hs[j] \in HunkSet /\ hs[j].edits \in Seq(EditSet) /\ Len(hs[j].edits) \in Nat
           /\ Header(hs[j]) \in LineSet /\ Header(hs[j]).kind = "header"
<1>1. hs[j] \in HunkSet
  OBVIOUS
<1>2. hs[j].edits \in Seq(EditSet)
  BY <1>1 DEF HunkSet
<1>3. /\ hs[j].oldStart \in Nat /\ hs[j].oldLen \in Nat
      /\ hs[j].newStart \in Nat /\ hs[j].newLen \in Nat
  BY <1>1 DEF HunkSet
<1>4. Header(hs[j]) \in HeaderSet
  BY <1>3 DEF Header, HeaderSet, Shown
<1>5. QED BY <1>1, <1>2, <1>4 DEF LineSet, Header

\* The more hunks, the more lines.
LEMMA OffsetsRise ==
    ASSUME NEW hs, Len(hs) \in Nat, NEW B, Offsets(hs, B),
           \A i \in 1 .. Len(hs) : Len(hs[i].edits) \in Nat
    PROVE  \A i, j \in 0 .. Len(hs) : i <= j => B[i] <= B[j] /\ 2 <= B[i]
<1> DEFINE N == Len(hs)
           T == { j \in 0 .. N : \A i \in 0 .. j : B[i] <= B[j] /\ 2 <= B[i] }
<1>0. B \in [0 .. N -> Nat] /\ B[0] = 2
  BY DEF Offsets
<1>1. 0 \in T
  BY <1>0
<1>2. \A j \in 1 .. N : j - 1 \in T => j \in T
  <2>1. SUFFICES ASSUME NEW j \in 1 .. N, \A i \in 0 .. j - 1 : B[i] <= B[j - 1] /\ 2 <= B[i],
                        NEW i \in 0 .. j
                 PROVE  B[i] <= B[j] /\ 2 <= B[i]
    OBVIOUS
  <2>2. B[j] = B[j - 1] + 1 + Len(hs[j].edits) /\ Len(hs[j].edits) \in Nat
    BY DEF Offsets
  <2>3. B[j] \in Nat /\ B[j - 1] \in Nat /\ B[i] \in Nat /\ B[j - 1] <= B[j]
    <3>1. j - 1 \in 0 .. N /\ i \in 0 .. N /\ j \in 0 .. N
      OBVIOUS
    <3>2. B[j] \in Nat /\ B[j - 1] \in Nat /\ B[i] \in Nat
      BY <1>0, <3>1
    <3>3. QED BY <2>2, <3>2
  <2>4. CASE i = j
    <3>1. 2 <= B[j - 1]
      BY <2>1
    <3>2. QED BY <2>3, <2>4, <3>1
  <2>5. CASE i # j
    <3>1. i \in 0 .. j - 1
      BY <2>5
    <3>2. B[i] <= B[j - 1] /\ 2 <= B[i]
      BY <2>1, <3>1
    <3>3. QED BY <2>3, <3>2
  <2>6. QED BY <2>4, <2>5
<1> HIDE DEF T
<1>3. \A j \in 0 .. N : j \in T
  BY <1>1, <1>2, UpTo
<1>4. QED BY <1>3 DEF T

\* A hunk more is laid out behind those before.
LEMMA LaidGrows ==
    ASSUME NEW hs \in Seq(HunkSet), NEW B, Offsets(hs, B), NEW j \in 1 .. Len(hs),
           NEW w, LaidOut(hs, B, w, j - 1)
    PROVE  LaidOut(hs, B, w \o <<Header(hs[j])>> \o hs[j].edits, j)
<1> DEFINE N == Len(hs)
           A == B[j - 1]
           h == Header(hs[j])
           b == hs[j].edits
           u == w \o <<h>> \o b
<1>1. N \in Nat /\ \A i \in 1 .. N : Len(hs[i].edits) \in Nat
  BY HunkParts
<1>2. h \in LineSet /\ b \in Seq(LineSet) /\ Len(b) \in Nat
  <2>1. hs[j].edits \in Seq(EditSet)
    BY HunkParts
  <2>2. \A i \in 1 .. Len(b) : b[i] \in LineSet
    BY <2>1 DEF LineSet
  <2>3. b \in Seq(LineSet)
    BY <2>1, <2>2
  <2>4. QED BY <2>1, <2>3, HunkParts
<1>3. w \in Seq(LineSet) /\ A = Len(w) /\ A \in Nat
  BY DEF LaidOut
<1>4. B[j] = A + 1 + Len(b) /\ B \in [0 .. N -> Nat]
  BY DEF Offsets
<1> HIDE DEF A, h, b
<1>5. /\ u \in Seq(LineSet) /\ Len(u) = A + 1 + Len(b)
      /\ \A p \in 1 .. A : u[p] = w[p]
      /\ u[A + 1] = h
      /\ \A p \in 1 .. Len(b) : u[A + 1 + p] = b[p]
  BY <1>2, <1>3, ThreePieces
<1> HIDE DEF u, N
<1>6. \A i \in 0 .. j - 1 : B[i] <= A /\ 2 <= B[i] /\ B[i] \in Nat
  <2>1. \A i \in 0 .. j - 1 : i \in 0 .. Len(hs) /\ j - 1 \in 0 .. Len(hs) /\ i <= j - 1
    BY <1>1 DEF N
  <2>2. \A i \in 0 .. j - 1 : B[i] <= B[j - 1] /\ 2 <= B[i]
    BY <1>1, <2>1, OffsetsRise DEF N
  <2>3. QED BY <1>4, <2>1, <2>2 DEF A, N
<1>7. u[1] = Name /\ u[2] = Name
  <2>1. w[1] = Name /\ w[2] = Name
    BY DEF LaidOut
  <2>2. 0 \in 0 .. j - 1
    BY <1>1 DEF N
  <2>3. 2 <= A
    BY <1>3, <1>6, <2>2
  <2>4. 1 \in 1 .. A /\ 2 \in 1 .. A
    BY <1>3, <2>3
  <2>5. QED BY <1>5, <2>1, <2>4
<1>8. ASSUME NEW i \in 1 .. j
      PROVE  /\ u[B[i - 1] + 1] = Header(hs[i])
             /\ \A q \in 1 .. Len(hs[i].edits) : u[B[i - 1] + 1 + q] = hs[i].edits[q]
  <2>1. CASE i = j
    <3>1. B[i - 1] = A /\ hs[i].edits = b /\ Header(hs[i]) = h
      BY <2>1 DEF A, b, h
    <3>2. QED BY <1>5, <3>1
  <2>2. CASE i # j
    <3>1. i \in 1 .. j - 1 /\ i \in 0 .. j - 1 /\ i - 1 \in 0 .. j - 1 /\ i \in 1 .. N
      BY <1>1, <2>2 DEF N
    <3> DEFINE c == B[i - 1]
               e == hs[i].edits
    <3>2. w[c + 1] = Header(hs[i]) /\ \A q \in 1 .. Len(e) : w[c + 1 + q] = e[q]
      BY <3>1 DEF LaidOut
    <3>3. B[i] = c + 1 + Len(e) /\ B[i] <= A /\ c \in Nat /\ Len(e) \in Nat
      <4>1. B[i] = c + 1 + Len(e)
        BY <3>1 DEF Offsets, N
      <4>2. QED BY <1>1, <1>6, <3>1, <4>1
    <3> HIDE DEF c, e
    <3>4. c + 1 \in 1 .. A /\ \A q \in 1 .. Len(e) : c + 1 + q \in 1 .. A
      BY <1>3, <3>3
    <3>5. u[c + 1] = w[c + 1] /\ \A q \in 1 .. Len(e) : u[c + 1 + q] = w[c + 1 + q]
      BY <1>5, <3>4
    <3>6. QED BY <3>2, <3>5 DEF c, e
  <2>3. QED BY <2>1, <2>2
<1>9. ASSUME NEW p \in 1 .. Len(u), ~(p <= 2) PROVE \E i \in 1 .. j : B[i - 1] < p /\ p <= B[i]
  <2>1. CASE p > A
    <3>1. j \in 1 .. j
      BY <1>1 DEF N
    <3>2. B[j - 1] < p /\ p <= B[j]
      BY <1>4, <1>5, <2>1 DEF A
    <3>3. QED BY <3>1, <3>2
  <2>2. CASE ~(p > A)
    <3>1. p \in 1 .. Len(w)
      BY <1>3, <2>2
    <3>2. PICK i \in 1 .. j - 1 : B[i - 1] < p /\ p <= B[i]
      BY <1>9, <3>1 DEF LaidOut
    <3>3. i \in 1 .. j
      BY <1>1 DEF N
    <3>4. QED BY <3>2, <3>3
  <2>3. QED BY <2>1, <2>2
<1>10. Len(u) = B[j]
  BY <1>4, <1>5
<1>11. LaidOut(hs, B, u, j)
  BY <1>5, <1>7, <1>8, <1>9, <1>10 DEF LaidOut
<1>12. QED BY <1>11 DEF u, h, b

\* What write gives, if there is something to write.
LEMMA WriteIs ==
    ASSUME hunks \in Seq(HunkSet), hunks # << >>
    PROVE  \E B : Offsets(hunks, B) /\ LaidOut(hunks, B, write, Len(hunks))
<1> DEFINE hs == hunks
           N == Len(hs)
           X == 0 .. N
           S == Seq(LineSet)
           none == <<Name, Name>>
           At(i) == IF i \in 1 .. N THEN <<Header(hs[i])>> \o hs[i].edits ELSE << >>
           Step == [p \in X \X S |-> IF p[1] \in 1 .. N THEN p[2] \o <<Header(hs[p[1]])>> \o hs[p[1]].edits
                                     ELSE p[2]]
           body(f) == [i \in X |-> IF i = 0 THEN <<Name, Name>>
                                   ELSE f[i - 1] \o <<Header(hs[i])>> \o hs[i].edits]
<1>1. N \in Nat /\ none \in S
  BY DEF LineSet
<1>0. hs \in Seq(HunkSet)
  OBVIOUS
<1>2. ASSUME NEW i \in 1 .. N, NEW w \in S
      PROVE  /\ w \o <<Header(hs[i])>> \o hs[i].edits \in S
             /\ Len(w \o <<Header(hs[i])>> \o hs[i].edits) = Len(w) + 1 + Len(hs[i].edits)
  <2>1. Header(hs[i]) \in LineSet /\ hs[i].edits \in Seq(EditSet)
    BY <1>0, HunkParts
  <2> DEFINE e == hs[i].edits
             h == Header(hs[i])
  <2>2. h \in LineSet /\ e \in Seq(EditSet)
    BY <2>1
  <2> HIDE DEF e, h
  <2>3. e \in Seq(LineSet)
    <3>1. \A q \in 1 .. Len(e) : e[q] \in LineSet
      BY <2>2 DEF LineSet
    <3>2. QED BY <2>2, <3>1
  <2>4. Len(w) \in Nat
    OBVIOUS
  <2>5. w \o <<h>> \o e \in Seq(LineSet) /\ Len(w \o <<h>> \o e) = Len(w) + 1 + Len(e)
    BY <2>2, <2>3, <2>4, ThreePieces
  <2>6. QED BY <2>5 DEF e, h
<1> HIDE DEF hs
<1>3. Step \in [X \X S -> S]
  <2> HIDE DEF S
  <2>1. QED BY <1>2
<1>4. \A i \in 1 .. N, w \in S : Step[<<i, w>>] = w \o <<Header(hs[i])>> \o hs[i].edits
  <2> HIDE DEF S
  <2>1. \A i \in 1 .. N : i \in X
    BY <1>1
  <2>2. QED BY <2>1
<1> HIDE DEF Step, S, none
<1>5. Countings(0, N, S, none, Step) # {}
  <2>1. 0 \in Int /\ N \in Int
    BY <1>1
  <2> HIDE DEF N
  <2>2. QED BY <1>1, <1>3, <2>1, CountingHasValue
<1>6. PICK f \in [X -> S] :
        \A i \in X : f[i] = IF i = 0 THEN none ELSE Step[<<i, f[i - 1]>>]
  BY <1>5 DEF Countings
<1>7. f = body(f)
  <2>1. f = [i \in X |-> f[i]]
    BY <1>6
  <2>2. \A i \in X : i # 0 => i - 1 \in X /\ i \in 1 .. N
    BY <1>1
  <2>3. \A i \in X : f[i] = IF i = 0 THEN <<Name, Name>>
                            ELSE f[i - 1] \o <<Header(hs[i])>> \o hs[i].edits
    BY <1>4, <1>6, <2>2 DEF none
  <2>4. QED BY <2>1, <2>3
<1> DEFINE G == CHOOSE g : g = body(g)
<1>8. G = body(G)
  BY <1>7, Zenon
<1>9. write = G[N]
  BY DEF write, hs
<1> HIDE DEF G
<1>10. G[0] = none /\ \A i \in X : i # 0 => G[i] = G[i - 1] \o <<Header(hs[i])>> \o hs[i].edits
  <2>1. 0 \in X
    BY <1>1
  <2>2. \A i \in X : body(G)[i] = IF i = 0 THEN <<Name, Name>>
                                  ELSE G[i - 1] \o <<Header(hs[i])>> \o hs[i].edits
    OBVIOUS
  <2> HIDE DEF body, X
  <2>3. QED BY <1>8, <2>1, <2>2 DEF none
<1>11. \A i \in X : G[i] \in S
  <2> DEFINE T == { i \in X : G[i] \in S }
  <2>1. 0 \in T
    BY <1>1, <1>10
  <2>2. \A i \in 1 .. N : i - 1 \in T => i \in T
    <3>1. SUFFICES ASSUME NEW i \in 1 .. N, G[i - 1] \in S PROVE G[i] \in S
      BY <1>1
    <3>2. i \in X /\ i # 0
      BY <1>1
    <3>3. QED BY <1>2, <1>10, <3>1, <3>2
  <2> HIDE DEF T
  <2>3. \A i \in 0 .. N : i \in T
    BY <1>1, <2>1, <2>2, UpTo
  <2>4. QED BY <2>3 DEF T
<1> DEFINE B == [i \in X |-> Len(G[i])]
<1>12. Offsets(hs, B)
  <2>1. B \in [0 .. N -> Nat]
    BY <1>11 DEF S
  <2>2. B[0] = 2
    BY <1>1, <1>10, SMTT(30) DEF none
  <2>3. ASSUME NEW i \in 1 .. N PROVE B[i] = B[i - 1] + 1 + Len(hs[i].edits)
    <3>1. i \in X /\ i # 0 /\ i - 1 \in X
      BY <1>1
    <3>2. G[i] = G[i - 1] \o <<Header(hs[i])>> \o hs[i].edits /\ G[i - 1] \in S
      BY <1>10, <1>11, <3>1
    <3>3. Len(G[i]) = Len(G[i - 1]) + 1 + Len(hs[i].edits)
      BY <1>2, <3>2
    <3>4. QED BY <3>1, <3>3
  <2> HIDE DEF B
  <2>4. QED BY <2>1, <2>2, <2>3 DEF Offsets
<1>13. B[0] = 2
  BY <1>12 DEF Offsets
<1> HIDE DEF B
<1> DEFINE T == { i \in X : LaidOut(hs, B, G[i], i) }
<1>14. 0 \in T
  <2>1. none \in Seq(LineSet) /\ Len(none) = 2 /\ none[1] = Name /\ none[2] = Name
    BY <1>1 DEF none, S
  <2>2. 1 .. 0 = {}
    OBVIOUS
  <2>3. LaidOut(hs, B, none, 0)
    BY <1>13, <2>1, <2>2 DEF LaidOut
  <2>4. QED BY <1>1, <1>10, <2>3
<1>15. \A i \in 1 .. N : i - 1 \in T => i \in T
  <2>1. SUFFICES ASSUME NEW i \in 1 .. N, LaidOut(hs, B, G[i - 1], i - 1) PROVE LaidOut(hs, B, G[i], i)
    BY <1>1
  <2>2. i \in X /\ i # 0
    BY <1>1
  <2>3. LaidOut(hs, B, G[i - 1] \o <<Header(hs[i])>> \o hs[i].edits, i)
    BY <1>0, <1>12, <2>1, LaidGrows
  <2>4. QED BY <1>10, <2>2, <2>3
<1> HIDE DEF T
<1>16. \A i \in 0 .. N : i \in T
  BY <1>1, <1>14, <1>15, UpTo
<1>17. N \in T
  BY <1>1, <1>16
<1>18. LaidOut(hs, B, write, N)
  BY <1>9, <1>17 DEF T
<1>19. QED BY <1>12, <1>18 DEF hs

-----------------------------------------------------------------------------
(* What arrives *)

\* A line as it was written, or a stripped empty one.
Shows(a, b) == a = b \/ (a = Blank /\ b = Keep(EmptyLine))

\* The line that arrives at p is the src[p]-th written, or a note behind it.
Carried(src, t, w) ==
    /\ Len(t) \in Nat
    /\ src \in [0 .. Len(t) -> 0 .. Len(w)] /\ src[0] = 0
    /\ \A p \in 1 .. Len(t) :
         \/ t[p] = Note /\ src[p] = src[p - 1]
         \/ src[p] > src[p - 1] /\ Shows(t[p], w[src[p]])

\* All lines arrive, and a note only behind the last header.
Whole(src, t, w) ==
    /\ src[Len(t)] = Len(w)
    /\ \A p \in 1 .. Len(t) :
         /\ src[p] <= src[p - 1] + 1
         /\ t[p] = Note => \A q \in src[p] .. Len(w) : w[q].kind # "header"

\* At most one line before the end is missing.
OneLost(src, t) ==
    \A p \in 1 .. Len(t) : t[p] # Note /\ (src[p] = p \/ src[p] = p + 1)

\* No written line is a note.
LEMMA LinesAreNoNotes ==
    ASSUME NEW e \in LineSet
    PROVE  e.kind \in {"name", "header", "keep", "delete", "insert"} /\ e # Note
<1>1. CASE e = Name
  BY <1>1 DEF Name, Note
<1>2. CASE e \in HeaderSet
  BY <1>2 DEF HeaderSet, Note
<1>3. CASE e \in EditSet
  BY <1>3 DEF EditSet, Note
<1>4. QED BY <1>1, <1>2, <1>3 DEF LineSet

\* An untouched diff arrives whole.
LEMMA IntactArrives ==
    ASSUME NEW w \in Seq(LineSet)
    PROVE  \E src : Carried(src, w, w) /\ Whole(src, w, w)
<1> DEFINE src == [p \in 0 .. Len(w) |-> p]
<1>1. Len(w) \in Nat /\ \A p \in 1 .. Len(w) : w[p] \in LineSet
  OBVIOUS
<1>2. Carried(src, w, w)
  <2>1. /\ src \in [0 .. Len(w) -> 0 .. Len(w)] /\ src[0] = 0
        /\ \A p \in 1 .. Len(w) : src[p] = p /\ src[p - 1] = p - 1 /\ p > p - 1
    BY <1>1
  <2> HIDE DEF src
  <2>2. \A p \in 1 .. Len(w) : src[p] > src[p - 1] /\ Shows(w[p], w[src[p]])
    BY <2>1 DEF Shows
  <2>3. QED BY <1>1, <2>1, <2>2 DEF Carried
<1>3. Whole(src, w, w)
  <2>1. src[Len(w)] = Len(w) /\ \A p \in 1 .. Len(w) : src[p] <= src[p - 1] + 1
    BY <1>1
  <2>2. \A p \in 1 .. Len(w) : w[p] # Note
    BY <1>1, LinesAreNoNotes
  <2> HIDE DEF src
  <2>3. QED BY <2>1, <2>2 DEF Whole
<1> HIDE DEF src
<1>4. QED BY <1>2, <1>3

\* What mail and git leave arrives whole.
LEMMA MailedArrives ==
    ASSUME NEW w \in Seq(LineSet), NEW t \in Mailed(w)
    PROVE  \E src : Carried(src, t, w) /\ Whole(src, t, w)
<1> DEFINE s == [i \in DOMAIN w |-> IF w[i] = Keep(EmptyLine) THEN Blank ELSE w[i]]
           L == Len(w)
<1>1. L \in Nat /\ DOMAIN w = 1 .. L /\ \A p \in 1 .. L : w[p] \in LineSet
  OBVIOUS
<1>2. PICK i \in DOMAIN w : (\A j \in i .. Len(w) : w[j].kind # "header") /\ t = InsertAt(s, i + 1, Note)
  BY Zenon DEF Mailed
<1>3. /\ Len(s) = L /\ \A p \in 1 .. L : Shows(s[p], w[p])
  <2>1. s \in [1 .. L -> LineSet \cup {Blank}]
    BY <1>1
  <2>2. s \in Seq(LineSet \cup {Blank}) /\ DOMAIN s = 1 .. L
    BY <1>1, <2>1, SeqDef
  <2>3. Len(s) = L
    <3> HIDE DEF s, L
    <3>1. QED BY <1>1, <2>2, LenProperties
  <2>4. QED BY <1>1, <2>3 DEF Shows
<1>4. i \in 1 .. L
  BY <1>1, <1>2
<1> HIDE DEF s, L
<1> DEFINE S == LineSet \cup {Blank, Note}
           a == SubSeq(s, 1, i)
           b == SubSeq(s, i + 1, L)
<1>5. /\ a \in Seq(S) /\ b \in Seq(S) /\ Len(a) = i /\ Len(b) = L - i
      /\ \A p \in 1 .. i : a[p] = s[p]
      /\ \A p \in 1 .. L - i : b[p] = s[i + p]
  <2>1. s \in Seq(S)
    <3>1. \A p \in 1 .. L : s[p] \in S
      BY <1>1, <1>3 DEF Shows
    <3>2. s = [p \in 1 .. L |-> s[p]]
      BY <1>1 DEF s
    <3> HIDE DEF S
    <3>3. s \in [1 .. L -> S]
      BY <3>1, <3>2
    <3>4. QED BY <1>1, <3>3, SeqDef
  <2> HIDE DEF S
  <2>2. 0 \in Nat /\ i \in Nat /\ 0 <= i /\ i <= Len(s) /\ L \in Nat /\ L <= Len(s) /\ i <= L
    BY <1>1, <1>3, <1>4
  <2>3. a \in Seq(S) /\ b \in Seq(S)
    BY <2>1, <2>2
  <2>4. Len(a) = i /\ \A p \in 1 .. i : a[p] = s[p]
    BY <2>1, <2>2
  <2>5. Len(b) = L - i
    BY <2>1, <2>2, PartTyped
  <2>6. \A p \in 1 .. L - i : b[p] = s[i + p]
    BY <2>1, <2>2, PartTyped
  <2>7. QED BY <2>3, <2>4, <2>5, <2>6
<1>6. /\ Len(t) = L + 1
      /\ \A p \in 1 .. L + 1 : t[p] = IF p <= i THEN s[p] ELSE IF p = i + 1 THEN Note ELSE s[p - 1]
  <2>1. t = a \o <<Note>> \o b
    <3>1. i \in Nat /\ (i + 1) - 1 = i /\ Len(s) = L
      BY <1>1, <1>3, <1>4
    <3>2. t = SubSeq(s, 1, (i + 1) - 1) \o <<Note>> \o SubSeq(s, i + 1, Len(s))
      BY <1>2, Zenon DEF InsertAt
    <3>3. QED BY <3>1, <3>2
  <2>2. Note \in S
    OBVIOUS
  <2> HIDE DEF S, a, b
  <2>3. i \in Nat /\ i = Len(a)
    BY <1>1, <1>4, <1>5
  <2>4. /\ Len(a \o <<Note>> \o b) = i + 1 + Len(b)
        /\ \A p \in 1 .. i : (a \o <<Note>> \o b)[p] = a[p]
        /\ (a \o <<Note>> \o b)[i + 1] = Note
        /\ \A p \in 1 .. Len(b) : (a \o <<Note>> \o b)[i + 1 + p] = b[p]
    <3> DEFINE h == Note
               u == a \o <<h>> \o b
    <3>1. a \in Seq(S) /\ b \in Seq(S) /\ h \in S /\ i \in Nat /\ i = Len(a)
      BY <1>5, <2>2, <2>3
    <3> HIDE DEF h
    <3>2. /\ u \in Seq(S) /\ Len(u) = i + 1 + Len(b)
          /\ \A p \in 1 .. i : u[p] = a[p]
          /\ u[i + 1] = h
          /\ \A p \in 1 .. Len(b) : u[i + 1 + p] = b[p]
      BY <3>1, ThreePieces
    <3>3. QED BY <3>2 DEF h
  <2>5. Len(t) = L + 1
    BY <1>1, <1>4, <1>5, <2>1, <2>4
  <2>6. ASSUME NEW p \in 1 .. L + 1
        PROVE  t[p] = IF p <= i THEN s[p] ELSE IF p = i + 1 THEN Note ELSE s[p - 1]
    <3>1. CASE p <= i
      <4>1. p \in 1 .. i
        BY <2>3, <3>1
      <4>2. a[p] = s[p]
        BY <1>5, <4>1
      <4>3. QED BY <2>1, <2>4, <3>1, <4>1, <4>2
    <3>2. CASE p = i + 1
      BY <2>1, <2>3, <2>4, <3>2
    <3>3. CASE p > i + 1
      <4> DEFINE z == p - (i + 1)
      <4>1. z \in 1 .. L - i /\ i + 1 + z = p /\ i + z = p - 1
        BY <1>1, <1>4, <3>3
      <4> HIDE DEF z
      <4>2. t[p] = b[z]
        BY <1>5, <2>1, <2>4, <4>1
      <4>3. b[z] = s[p - 1]
        BY <1>5, <4>1
      <4>4. QED BY <2>3, <3>3, <4>2, <4>3
    <3>4. QED BY <2>3, <3>1, <3>2, <3>3
  <2>7. QED BY <2>5, <2>6
<1> HIDE DEF S, a, b
<1> DEFINE src == [p \in 0 .. Len(t) |-> IF p <= i THEN p ELSE p - 1]
<1>7. src \in [0 .. Len(t) -> 0 .. L] /\ src[0] = 0 /\ src[Len(t)] = L
  BY <1>1, <1>4, <1>6
<1>8. ASSUME NEW p \in 1 .. Len(t)
      PROVE  /\ src[p] <= src[p - 1] + 1
             /\ \/ p = i + 1 /\ t[p] = Note /\ src[p] = src[p - 1] /\ src[p] = i
                \/ p # i + 1 /\ src[p] > src[p - 1] /\ src[p] \in 1 .. L /\ t[p] = s[src[p]]
  <2>1. p \in 1 .. L + 1 /\ p - 1 \in 0 .. Len(t) /\ p \in 0 .. Len(t)
    BY <1>1, <1>6
  <2>2. src[p] = (IF p <= i THEN p ELSE p - 1) /\ src[p - 1] = IF p - 1 <= i THEN p - 1 ELSE (p - 1) - 1
    BY <2>1
  <2>3. t[p] = IF p <= i THEN s[p] ELSE IF p = i + 1 THEN Note ELSE s[p - 1]
    BY <1>6, <2>1
  <2> HIDE DEF src
  <2>4. CASE p <= i
    BY <1>1, <1>4, <2>1, <2>2, <2>3, <2>4
  <2>5. CASE p = i + 1
    BY <1>1, <1>4, <2>1, <2>2, <2>3, <2>5
  <2>6. CASE p > i + 1
    BY <1>1, <1>4, <2>1, <2>2, <2>3, <2>6
  <2>7. QED BY <1>4, <2>1, <2>4, <2>5, <2>6
<1> HIDE DEF src
<1>9. Carried(src, t, w)
  <2>1. \A p \in 1 .. Len(t) : \/ t[p] = Note /\ src[p] = src[p - 1]
                               \/ src[p] > src[p - 1] /\ Shows(t[p], w[src[p]])
    BY <1>3, <1>8
  <2>2. Len(t) \in Nat
    BY <1>1, <1>6
  <2>3. QED BY <1>7, <2>1, <2>2 DEF Carried, L
<1>10. Whole(src, t, w)
  <2>1. ASSUME NEW p \in 1 .. Len(t), t[p] = Note PROVE \A q \in src[p] .. L : w[q].kind # "header"
    <3>1. CASE p = i + 1
      <4>1. src[p] = i
        BY <1>8, <3>1
      <4>2. QED BY <1>2, <4>1 DEF L
    <3>2. CASE p # i + 1
      <4>1. src[p] \in 1 .. L /\ t[p] = s[src[p]]
        BY <1>8, <3>2
      <4>2. Shows(Note, w[src[p]]) /\ w[src[p]] \in LineSet
        BY <1>1, <1>3, <2>1, <4>1
      <4>3. FALSE
        BY <4>2, LinesAreNoNotes DEF Shows, Note, Blank
      <4>4. QED BY <4>3
    <3>3. QED BY <3>1, <3>2
  <2>2. QED BY <1>7, <1>8, <2>1 DEF Whole, L
<1>11. QED BY <1>9, <1>10

\* Of a damaged diff no more than one line before its end is missing.
LEMMA DamagedArrives ==
    ASSUME NEW w \in Seq(LineSet), NEW t \in Damaged(w)
    PROVE  \E src : Carried(src, t, w) /\ OneLost(src, t)
<1> DEFINE L == Len(w)
<1>1. L \in Nat /\ DOMAIN w = 1 .. L /\ \A p \in 1 .. L : w[p] \in LineSet
  OBVIOUS
<1>2. ASSUME NEW i \in 0 .. L - 1, t = SubSeq(w, 1, i)
      PROVE  \E src : Carried(src, t, w) /\ OneLost(src, t)
  <2>1. Len(t) = i /\ \A p \in 1 .. i : t[p] = w[p]
    BY <1>1, <1>2
  <2> DEFINE src == [p \in 0 .. Len(t) |-> p]
  <2>2. /\ Len(t) \in Nat /\ src \in [0 .. Len(t) -> 0 .. L] /\ src[0] = 0
        /\ \A p \in 1 .. Len(t) : src[p] = p /\ src[p] > src[p - 1]
    BY <1>1, <2>1
  <2> HIDE DEF src, L
  <2>3. ASSUME NEW p \in 1 .. Len(t)
        PROVE  src[p] > src[p - 1] /\ Shows(t[p], w[src[p]]) /\ t[p] # Note /\ src[p] = p
    <3>1. src[p] = p /\ t[p] = w[p] /\ p \in 1 .. L
      BY <1>1, <2>1, <2>2
    <3>2. w[p] # Note
      BY <1>1, <3>1, LinesAreNoNotes
    <3>3. QED BY <2>2, <3>1, <3>2 DEF Shows
  <2>4. Carried(src, t, w) /\ OneLost(src, t)
    BY <2>2, <2>3 DEF Carried, OneLost, L
  <2>5. QED BY <2>4
<1>3. ASSUME NEW i \in 1 .. L, t = RemoveAt(w, i)
      PROVE  \E src : Carried(src, t, w) /\ OneLost(src, t)
  <2> DEFINE a == SubSeq(w, 1, i - 1)
             b == SubSeq(w, i + 1, L)
  <2>1. /\ a \in Seq(LineSet) /\ b \in Seq(LineSet)
        /\ Len(a) = i - 1 /\ Len(b) = L - i
        /\ \A p \in 1 .. i - 1 : a[p] = w[p]
        /\ \A p \in 1 .. L - i : b[p] = w[i + p]
    <3>1. a \in Seq(LineSet) /\ b \in Seq(LineSet)
      BY <1>1
    <3>2. Len(a) = i - 1 /\ \A p \in 1 .. i - 1 : a[p] = w[p]
      BY <1>1, SMTT(30)
    <3>3. Len(b) = L - i
      <4>1. i \in Nat /\ i <= L /\ L <= Len(w)
        BY <1>1
      <4>2. QED BY <1>1, <4>1, PartTyped, ZenonT(40)
    <3>4. \A p \in 1 .. L - i : b[p] = w[i + p]
      <4>1. i \in Nat /\ i <= L /\ L <= Len(w)
        BY <1>1
      <4>2. QED BY <1>1, <4>1, PartTyped
    <3>5. QED BY <3>1, <3>2, <3>3, <3>4
  <2>2. t = a \o b
    BY <1>3 DEF RemoveAt
  <2> HIDE DEF a, b, L
  <2>3. Len(t) = L - 1
    <3>1. Len(a \o b) = Len(a) + Len(b)
      BY <2>1
    <3>2. QED BY <1>1, <2>1, <2>2, <3>1
  <2>4. ASSUME NEW p \in 1 .. L - 1 PROVE t[p] = IF p < i THEN w[p] ELSE w[p + 1]
    <3>1. CASE p < i
      <4>1. p \in 1 .. Len(a)
        BY <1>1, <2>1, <3>1
      <4>2. (a \o b)[p] = a[p]
        BY <2>1, <4>1
      <4>3. p \in 1 .. i - 1
        BY <3>1
      <4>4. QED BY <2>1, <2>2, <3>1, <4>2, <4>3
    <3>2. CASE ~(p < i)
      <4> DEFINE z == p - (i - 1)
      <4>1. z \in 1 .. L - i /\ i + z = p + 1 /\ p = (i - 1) + z
        BY <1>1, <3>2
      <4> HIDE DEF z
      <4>2. (a \o b)[Len(a) + z] = b[z]
        <5>1. z \in 1 .. Len(b)
          BY <2>1, <4>1
        <5>2. QED BY <2>1, <5>1
      <4>3. Len(a) + z = p
        BY <2>1, <4>1
      <4>4. b[z] = w[i + z]
        BY <2>1, <4>1
      <4>5. QED BY <2>2, <3>2, <4>1, <4>2, <4>3, <4>4
    <3>3. QED BY <3>1, <3>2
  <2> DEFINE src == [p \in 0 .. Len(t) |-> IF p < i THEN p ELSE p + 1]
  <2>5. /\ Len(t) \in Nat /\ src \in [0 .. Len(t) -> 0 .. L] /\ src[0] = 0
        /\ \A p \in 1 .. Len(t) : src[p] = (IF p < i THEN p ELSE p + 1) /\ src[p] > src[p - 1]
    BY <1>1, <2>3
  <2> HIDE DEF src
  <2>6. ASSUME NEW p \in 1 .. Len(t)
        PROVE  /\ src[p] > src[p - 1] /\ Shows(t[p], w[src[p]]) /\ t[p] # Note
               /\ src[p] = p \/ src[p] = p + 1
    <3>1. p \in 1 .. L - 1
      BY <2>3
    <3>2. t[p] = w[src[p]] /\ src[p] \in 1 .. L
      BY <1>1, <2>4, <2>5, <3>1
    <3>3. w[src[p]] # Note
      BY <1>1, <3>2, LinesAreNoNotes
    <3>4. QED BY <2>5, <3>2, <3>3 DEF Shows
  <2>7. Carried(src, t, w) /\ OneLost(src, t)
    BY <2>5, <2>6 DEF Carried, OneLost, L
  <2>8. QED BY <2>7
<1>4. (\E i \in 0 .. L - 1 : t = SubSeq(w, 1, i)) \/ (\E i \in 1 .. L : t = RemoveAt(w, i))
  BY <1>1 DEF Damaged
<1>5. QED BY <1>2, <1>3, <1>4

-----------------------------------------------------------------------------
(* What is read *)

\* What the reader makes of the edits it reads.
AsEdit(e) == [kind |-> e.kind, line |-> Chomp[e.line]]
AsEdits(s) == [i \in DOMAIN s |-> AsEdit(s[i])]

\* A line read is a line.
LEMMA AsEditTyped ==
    ASSUME NEW e \in EditSet
    PROVE  AsEdit(e) \in EditSet /\ AsEdit(e).kind = e.kind
<1>1. e.kind \in {"keep", "delete", "insert"} /\ e.line \in Lines
  BY DEF EditSet
<1>2. Chomp[e.line] \in Lines
  BY <1>1, PatchAssumption
<1>3. QED BY <1>1, <1>2 DEF AsEdit, EditSet

\* Edits are read one by one.
LEMMA AsEditsIs ==
    ASSUME NEW s \in Seq(EditSet)
    PROVE  /\ AsEdits(s) \in Seq(EditSet) /\ Len(AsEdits(s)) = Len(s)
           /\ \A i \in 1 .. Len(s) : AsEdits(s)[i] = AsEdit(s[i]) /\ AsEdits(s)[i].kind = s[i].kind
<1> DEFINE N == Len(s)
           q == AsEdits(s)
<1>1. N \in Nat /\ DOMAIN s = 1 .. N /\ \A i \in 1 .. N : s[i] \in EditSet
  OBVIOUS
<1>2. q = [i \in 1 .. N |-> AsEdit(s[i])]
  BY <1>1 DEF AsEdits
<1>3. \A i \in 1 .. N : q[i] = AsEdit(s[i])
  BY <1>2
<1>4. \A i \in 1 .. N : AsEdit(s[i]) \in EditSet /\ AsEdit(s[i]).kind = s[i].kind
  BY <1>1, AsEditTyped
<1>5. q \in [1 .. N -> EditSet]
  BY <1>2, <1>4
<1> HIDE DEF q, N
<1>6. q \in Seq(EditSet) /\ DOMAIN q = 1 .. N
  BY <1>1, <1>5, SeqDef
<1>7. Len(q) = N
  BY <1>1, <1>6, LenProperties
<1>8. QED BY <1>3, <1>4, <1>6, <1>7 DEF q, N

\* One more.
LEMMA AsEditsAppend ==
    ASSUME NEW s \in Seq(EditSet), NEW e \in EditSet
    PROVE  Append(AsEdits(s), AsEdit(e)) = AsEdits(Append(s, e))
<1> DEFINE t == Append(s, e)
           a == AsEdits(s)
           b == AsEdits(t)
           f == AsEdit(e)
           c == Append(a, f)
           N == Len(s)
<1>1. /\ t \in Seq(EditSet) /\ N \in Nat /\ Len(t) = N + 1 /\ t[N + 1] = e
      /\ \A i \in 1 .. N : t[i] = s[i]
  BY AppendProperties
<1>2. /\ a \in Seq(EditSet) /\ Len(a) = N /\ \A i \in 1 .. N : a[i] = AsEdit(s[i])
  BY AsEditsIs
<1>3. f \in EditSet
  BY AsEditTyped
<1> HIDE DEF t, N
<1>4. /\ b \in Seq(EditSet) /\ Len(b) = N + 1 /\ \A i \in 1 .. N + 1 : b[i] = AsEdit(t[i])
  BY <1>1, AsEditsIs
<1> HIDE DEF a, b
<1>5. /\ c \in Seq(EditSet) /\ Len(c) = N + 1 /\ c[N + 1] = f
      /\ \A i \in 1 .. N : c[i] = a[i]
  <2> HIDE DEF f
  <2>1. QED BY <1>2, <1>3, AppendProperties
<1> HIDE DEF c
<1>6. \A i \in 1 .. N + 1 : c[i] = b[i]
  <2>1. SUFFICES ASSUME NEW i \in 1 .. N + 1 PROVE c[i] = b[i]
    OBVIOUS
  <2>2. CASE i = N + 1
    BY <1>1, <1>4, <1>5, <2>2
  <2>3. CASE i # N + 1
    <3>1. i \in 1 .. N
      BY <1>1, <2>3
    <3>2. QED BY <1>1, <1>2, <1>4, <1>5, <3>1
  <2>4. QED BY <2>2, <2>3
<1>7. c = b
  BY <1>1, <1>4, <1>5, <1>6, SameSequence
<1>8. QED BY <1>7 DEF c, a, b, t

\* How many lines a side has is a matter of kinds.
LEMMA SidesByKind ==
    ASSUME NEW s \in Seq(EditSet), NEW t \in Seq(EditSet), Len(s) = Len(t),
           \A i \in 1 .. Len(s) : s[i].kind = t[i].kind
    PROVE  Len(OldSide(s)) = Len(OldSide(t)) /\ Len(NewSide(s)) = Len(NewSide(t))
<1> DEFINE N == Len(s)
           Same(i) == /\ Len(OldSide(SubSeq(s, 1, i))) = Len(OldSide(SubSeq(t, 1, i)))
                      /\ Len(NewSide(SubSeq(s, 1, i))) = Len(NewSide(SubSeq(t, 1, i)))
           T == { i \in 0 .. N : Same(i) }
<1>0. N \in Nat /\ N = Len(t)
  OBVIOUS
<1>1. 0 \in T
  <2>1. SubSeq(s, 1, 0) = << >> /\ SubSeq(t, 1, 0) = << >>
    OBVIOUS
  <2>2. Same(0)
    BY <2>1
  <2>3. 0 \in 0 .. N
    BY <1>0
  <2>4. QED BY <2>2, <2>3
<1>2. \A i \in 1 .. N : i - 1 \in T => i \in T
  <2>1. SUFFICES ASSUME NEW i \in 1 .. N, Same(i - 1) PROVE Same(i)
    OBVIOUS
  <2> DEFINE a == SubSeq(s, 1, i - 1)
             b == SubSeq(t, 1, i - 1)
             e == s[i]
             f == t[i]
  <2>2. /\ a \in Seq(EditSet) /\ b \in Seq(EditSet) /\ e \in EditSet /\ f \in EditSet
        /\ e.kind = f.kind
    BY <1>0
  <2>3. SubSeq(s, 1, i) = Append(a, e) /\ SubSeq(t, 1, i) = Append(b, f)
    <3> DEFINE c == i - 1
    <3>1. /\ c \in Nat /\ c <= Len(s) /\ c < Len(s) /\ c <= Len(t) /\ c < Len(t)
          /\ c + 1 = i /\ 0 <= c
      BY <1>0
    <3> HIDE DEF c
    <3>2. SubSeq(s, 1, c) \o <<s[c + 1]>> = SubSeq(s, 1, c + 1)
      BY <3>1, PrefixGrows
    <3>3. SubSeq(t, 1, c) \o <<t[c + 1]>> = SubSeq(t, 1, c + 1)
      BY <3>1, PrefixGrows
    <3>4. a = SubSeq(s, 1, c) /\ b = SubSeq(t, 1, c)
      BY DEF c, a, b
    <3>5. a \o <<e>> = SubSeq(s, 1, i) /\ b \o <<f>> = SubSeq(t, 1, i)
      BY <3>1, <3>2, <3>3, <3>4 DEF e, f
    <3> HIDE DEF a, b, e, f
    <3>6. a \o <<e>> = Append(a, e)
      BY <2>2, AppendIsConcat
    <3>7. b \o <<f>> = Append(b, f)
      BY <2>2, AppendIsConcat
    <3>8. QED BY <3>5, <3>6, <3>7
  <2>4. Len(OldSide(a)) = Len(OldSide(b)) /\ Len(NewSide(a)) = Len(NewSide(b))
    BY <2>1
  <2> HIDE DEF a, b, e, f
  <2>5. (InOld(e) <=> InOld(f)) /\ (InNew(e) <=> InNew(f)) /\ e.line \in Lines /\ f.line \in Lines
    BY <2>2 DEF InOld, InNew, EditSet
  <2>6. /\ OldSide(a) \in Seq(Lines) /\ OldSide(b) \in Seq(Lines)
        /\ NewSide(a) \in Seq(Lines) /\ NewSide(b) \in Seq(Lines)
    BY <2>2, SidesType
  <2>7. /\ OldSide(Append(a, e)) = IF InOld(e) THEN Append(OldSide(a), e.line) ELSE OldSide(a)
        /\ OldSide(Append(b, f)) = IF InOld(f) THEN Append(OldSide(b), f.line) ELSE OldSide(b)
        /\ NewSide(Append(a, e)) = IF InNew(e) THEN Append(NewSide(a), e.line) ELSE NewSide(a)
        /\ NewSide(Append(b, f)) = IF InNew(f) THEN Append(NewSide(b), f.line) ELSE NewSide(b)
    BY <2>2, SidesAppend
  <2>8. /\ \A l : Len(Append(OldSide(a), l)) = Len(OldSide(a)) + 1
        /\ \A l : Len(Append(OldSide(b), l)) = Len(OldSide(b)) + 1
        /\ \A l : Len(Append(NewSide(a), l)) = Len(NewSide(a)) + 1
        /\ \A l : Len(Append(NewSide(b), l)) = Len(NewSide(b)) + 1
    BY <2>6
  <2>9. QED BY <2>3, <2>4, <2>5, <2>7, <2>8, Zenon
<1> HIDE DEF T
<1>3. \A i \in 0 .. N : i \in T
  BY <1>0, <1>1, <1>2, UpTo
<1>4. N \in T
  BY <1>0, <1>3
<1>5. SubSeq(s, 1, N) = s /\ SubSeq(t, 1, N) = t
  BY <1>0, WholePart
<1>6. QED BY <1>4, <1>5 DEF T

\* What reading makes of a script has as many lines on each side.
LEMMA AsEditsSides ==
    ASSUME NEW s \in Seq(EditSet)
    PROVE  /\ Len(OldSide(AsEdits(s))) = Len(OldSide(s))
           /\ Len(NewSide(AsEdits(s))) = Len(NewSide(s))
<1>1. /\ AsEdits(s) \in Seq(EditSet) /\ Len(AsEdits(s)) = Len(s)
      /\ \A i \in 1 .. Len(s) : AsEdits(s)[i].kind = s[i].kind
  BY AsEditsIs
<1> DEFINE q == AsEdits(s)
<1>2. q \in Seq(EditSet) /\ Len(q) = Len(s) /\ \A i \in 1 .. Len(q) : q[i].kind = s[i].kind
  BY <1>1
<1> HIDE DEF q
<1>3. Len(OldSide(q)) = Len(OldSide(s)) /\ Len(NewSide(q)) = Len(NewSide(s))
  BY <1>2, SidesByKind
<1>4. QED BY <1>3 DEF q

\* The edits up to the c-th without the l-th.
Lacking(s, l, c) == SubSeq(s, 1, l - 1) \o SubSeq(s, l + 1, c)

\* Where an edit is missing, a side has not all its lines.
LEMMA LackingFallsShort ==
    ASSUME NEW s \in Seq(EditSet), NEW l \in 1 .. Len(s), NEW c \in l .. Len(s)
    PROVE  /\ Lacking(s, l, c) \in Seq(EditSet)
           /\ \/ Len(OldSide(Lacking(s, l, c))) < Len(OldSide(s))
              \/ Len(NewSide(Lacking(s, l, c))) < Len(NewSide(s))
<1> DEFINE N == Len(s)
           p == SubSeq(s, 1, l - 1)
           e == s[l]
           q == SubSeq(s, l + 1, c)
           r == SubSeq(s, c + 1, N)
<1>1. N \in Nat /\ l \in Nat /\ c \in Nat /\ l <= c /\ c <= N /\ 1 <= l /\ e \in EditSet
  OBVIOUS
<1>2. p \in Seq(EditSet) /\ q \in Seq(EditSet) /\ r \in Seq(EditSet) /\ <<e>> \in Seq(EditSet)
  BY <1>1
<1>3. s = ((p \o <<e>>) \o q) \o r
  <2>1. p \o <<e>> = SubSeq(s, 1, l)
    <3> DEFINE b == l - 1
    <3>1. b \in Nat /\ b <= Len(s) /\ b < Len(s) /\ b + 1 = l /\ 0 <= b
      BY <1>1
    <3> HIDE DEF b
    <3>2. SubSeq(s, 1, b) \o <<s[b + 1]>> = SubSeq(s, 1, b + 1)
      BY <3>1, PrefixGrows
    <3>3. QED BY <3>1, <3>2 DEF b
  <2>2. SubSeq(s, 1, l) \o q = SubSeq(s, 1, c)
    BY <1>1, PrefixGrows
  <2>3. SubSeq(s, 1, c) \o r = SubSeq(s, 1, N)
    <3>1. N \in Nat /\ N <= Len(s) /\ c <= N /\ c \in Nat
      BY <1>1
    <3> HIDE DEF N
    <3>2. SubSeq(s, 1, c) \o SubSeq(s, c + 1, N) = SubSeq(s, 1, N)
      BY <3>1, PrefixGrows
    <3>3. QED BY <3>2
  <2>4. QED BY <2>1, <2>2, <2>3, WholePart
<1> HIDE DEF p, e, q, r
<1> DEFINE a == p \o <<e>>
           b == a \o q
<1>4. a \in Seq(EditSet) /\ b \in Seq(EditSet) /\ p \o q \in Seq(EditSet)
  BY <1>2
<1>5. /\ OldSide(a) = OldSide(p) \o OldSide(<<e>>) /\ NewSide(a) = NewSide(p) \o NewSide(<<e>>)
      /\ OldSide(p \o q) = OldSide(p) \o OldSide(q) /\ NewSide(p \o q) = NewSide(p) \o NewSide(q)
  BY <1>2, SidesConcat
<1> HIDE DEF a
<1>6. OldSide(b) = OldSide(a) \o OldSide(q) /\ NewSide(b) = NewSide(a) \o NewSide(q)
  BY <1>2, <1>4, SidesConcat
<1> HIDE DEF b
<1>7. OldSide(s) = OldSide(b) \o OldSide(r) /\ NewSide(s) = NewSide(b) \o NewSide(r)
  <2>1. s = b \o r
    BY <1>3 DEF a, b
  <2>2. OldSide(b \o r) = OldSide(b) \o OldSide(r) /\ NewSide(b \o r) = NewSide(b) \o NewSide(r)
    BY <1>2, <1>4, SidesConcat
  <2>3. QED BY <2>1, <2>2
<1>8. Len(OldSide(<<e>>)) >= 1 \/ Len(NewSide(<<e>>)) >= 1
  <2>1. /\ OldSide(<<e>>) = IF e.kind \in {"keep", "delete"} THEN <<e.line>> ELSE << >>
        /\ NewSide(<<e>>) = IF e.kind \in {"keep", "insert"} THEN <<e.line>> ELSE << >>
    BY <1>1, LinesOfOne DEF OldSide, NewSide
  <2>2. e.kind \in {"keep", "delete", "insert"}
    BY <1>1, EditsAre
  <2>3. Len(<<e.line>>) = 1
    OBVIOUS
  <2>4. CASE e.kind = "insert"
    <3>1. NewSide(<<e>>) = <<e.line>>
      BY <2>1, <2>4
    <3>2. Len(NewSide(<<e>>)) = 1
      BY ONLY <2>3, <3>1
    <3>3. 1 >= 1
      OBVIOUS
    <3>4. QED BY <3>2, <3>3, Zenon
  <2>5. CASE e.kind \in {"keep", "delete"}
    <3>1. OldSide(<<e>>) = <<e.line>>
      BY <2>1, <2>5
    <3>2. Len(OldSide(<<e>>)) = 1
      BY ONLY <2>3, <3>1
    <3>3. 1 >= 1
      OBVIOUS
    <3>4. QED BY <3>2, <3>3, Zenon
  <2>6. QED BY <2>2, <2>4, <2>5
<1> DEFINE lo(u) == Len(OldSide(u))
           ln(u) == Len(NewSide(u))
<1>9. /\ OldSide(p) \in Seq(Lines) /\ OldSide(<<e>>) \in Seq(Lines) /\ OldSide(q) \in Seq(Lines)
      /\ OldSide(r) \in Seq(Lines) /\ OldSide(a) \in Seq(Lines) /\ OldSide(b) \in Seq(Lines)
      /\ NewSide(p) \in Seq(Lines) /\ NewSide(<<e>>) \in Seq(Lines) /\ NewSide(q) \in Seq(Lines)
      /\ NewSide(r) \in Seq(Lines) /\ NewSide(a) \in Seq(Lines) /\ NewSide(b) \in Seq(Lines)
  BY <1>2, <1>4, SidesType
<1>10. /\ lo(a) = lo(p) + lo(<<e>>) /\ lo(b) = lo(a) + lo(q) /\ lo(s) = lo(b) + lo(r)
       /\ lo(p \o q) = lo(p) + lo(q)
  BY <1>5, <1>6, <1>7, <1>9, ConcatProperties
<1>11. /\ ln(a) = ln(p) + ln(<<e>>) /\ ln(b) = ln(a) + ln(q) /\ ln(s) = ln(b) + ln(r)
       /\ ln(p \o q) = ln(p) + ln(q)
  BY <1>5, <1>6, <1>7, <1>9, ConcatProperties
<1>12. /\ lo(p) \in Nat /\ lo(<<e>>) \in Nat /\ lo(q) \in Nat /\ lo(r) \in Nat
       /\ ln(p) \in Nat /\ ln(<<e>>) \in Nat /\ ln(q) \in Nat /\ ln(r) \in Nat
  BY <1>9
<1>13. lo(p \o q) < lo(s) \/ ln(p \o q) < ln(s)
  <2> HIDE DEF lo, ln
  <2>1. lo(<<e>>) >= 1 \/ ln(<<e>>) >= 1
    BY <1>8 DEF lo, ln
  <2>2. lo(<<e>>) >= 1 => lo(p \o q) < lo(s)
    BY <1>10, <1>12, SMTT(30)
  <2>3. ln(<<e>>) >= 1 => ln(p \o q) < ln(s)
    BY <1>11, <1>12
  <2>4. QED BY <2>1, <2>2, <2>3, Zenon
<1>14. Lacking(s, l, c) = p \o q
  BY DEF Lacking, p, q
<1>15. QED BY <1>4, <1>13, <1>14

\* And so where the end is.
LEMMA PrefixFallsShort ==
    ASSUME NEW s \in Seq(EditSet), NEW c \in 0 .. Len(s) - 1
    PROVE  /\ SubSeq(s, 1, c) \in Seq(EditSet)
           /\ \/ Len(OldSide(SubSeq(s, 1, c))) < Len(OldSide(s))
              \/ Len(NewSide(SubSeq(s, 1, c))) < Len(NewSide(s))
<1> DEFINE l == c + 1
<1>1. l \in 1 .. Len(s) /\ l \in l .. Len(s) /\ l - 1 = c /\ l \in Nat
  OBVIOUS
<1> HIDE DEF l
<1>2. /\ Lacking(s, l, l) \in Seq(EditSet)
      /\ \/ Len(OldSide(Lacking(s, l, l))) < Len(OldSide(s))
         \/ Len(NewSide(Lacking(s, l, l))) < Len(NewSide(s))
  BY <1>1, LackingFallsShort
<1>3. Lacking(s, l, l) = SubSeq(s, 1, c)
  <2>1. SubSeq(s, l + 1, l) = << >>
    BY <1>1, WholePart
  <2>2. SubSeq(s, 1, c) \in Seq(EditSet)
    OBVIOUS
  <2>3. SubSeq(s, 1, c) \o << >> = SubSeq(s, 1, c)
    BY <2>2
  <2>4. QED BY <1>1, <2>1, <2>3 DEF Lacking
<1>4. QED BY <1>2, <1>3

-----------------------------------------------------------------------------
(* The reader *)

\* While the diff stays, so do its hunks, and what is written.
LEMMA DiffStays ==
    ASSUME UNCHANGED <<diffVars, context>>
    PROVE  hunks' = hunks /\ write' = write /\ (Diffed <=> Diffed')
<1>1. script' = script /\ context' = context
  BY DEF diffVars
<1>2. Groups' = Groups
  BY <1>1 DEF Groups, Join
<1>3. \A g : HunkOf(g)' = HunkOf(g)
  BY <1>1 DEF HunkOf
<1>4. hunks' = hunks
  BY <1>1, <1>2, <1>3 DEF hunks, HunkOf
<1>5. write' = write
  BY <1>4 DEF write
<1>6. Diffed <=> Diffed'
  BY DEF Diffed, diffVars
<1>7. QED BY <1>4, <1>5, <1>6

\* A hunk as the reader has it open, with the edits r read so far.
Opened(h, r) ==
    [oldStart |-> IF h.oldLen = 0 THEN 0 ELSE h.oldStart, oldLen |-> h.oldLen,
     newStart |-> IF h.newLen = 0 THEN 0 ELSE h.newStart, newLen |-> h.newLen,
     edits    |-> AsEdits(r)]

\* What has been read of a hunk is a hunk, and never NoHunk.
LEMMA OpenedTyped ==
    ASSUME NEW h \in HunkSet, NEW r \in Seq(EditSet)
    PROVE  /\ Opened(h, r) \in HunkSet /\ Opened(h, r) # NoHunk
           /\ Opened(h, r).oldLen = h.oldLen /\ Opened(h, r).newLen = h.newLen
           /\ Opened(h, r).edits = AsEdits(r)
<1>1. h.oldStart \in Nat /\ h.oldLen \in Nat /\ h.newStart \in Nat /\ h.newLen \in Nat
  BY DEF HunkSet
<1>2. AsEdits(r) \in Seq(EditSet)
  BY AsEditsIs
<1>3. Opened(h, r) \in HunkSet
  BY <1>1, <1>2 DEF Opened, HunkSet
<1>4. DOMAIN Opened(h, r) # DOMAIN NoHunk
  <2>1. "edits" \in DOMAIN Opened(h, r)
    BY DEF Opened
  <2>2. "edits" \notin DOMAIN NoHunk
    BY DEF NoHunk
  <2>3. QED BY <2>1, <2>2
<1>5. Opened(h, r) # NoHunk
  BY <1>4
<1>6. QED BY <1>3, <1>5 DEF Opened

\* A hunk read to its end is as AsRead has it.
LEMMA OpenedWhole ==
    ASSUME NEW h \in HunkSet
    PROVE  Opened(h, h.edits) = AsRead(h) /\ AsRead(h) \in HunkSet
<1>1. /\ h.oldStart \in Nat /\ h.oldLen \in Nat /\ h.newStart \in Nat /\ h.newLen \in Nat
      /\ h.edits \in Seq(EditSet)
      /\ h = [oldStart |-> h.oldStart, oldLen |-> h.oldLen, newStart |-> h.newStart,
              newLen |-> h.newLen, edits |-> h.edits]
  BY DEF HunkSet
<1> DEFINE E == h.edits
           q == [i \in DOMAIN E |-> [E[i] EXCEPT !.line = Chomp[@]]]
<1>2. \A i \in DOMAIN E : [E[i] EXCEPT !.line = Chomp[@]] = AsEdit(E[i])
  <2>1. SUFFICES ASSUME NEW i \in DOMAIN E PROVE [E[i] EXCEPT !.line = Chomp[@]] = AsEdit(E[i])
    OBVIOUS
  <2>2. E[i] \in EditSet
    BY <1>1
  <2> DEFINE e == E[i]
  <2>3. e = [kind |-> e.kind, line |-> e.line]
    BY <2>2, EditsAre
  <2> HIDE DEF e
  <2>4. [e EXCEPT !.line = Chomp[@]] = AsEdit(e)
    BY <2>3 DEF AsEdit
  <2>5. QED BY <2>4 DEF e
<1>3. q = AsEdits(E)
  BY <1>2 DEF AsEdits
<1>4. AsRead(h) = [h EXCEPT !.oldStart = IF h.oldLen = 0 THEN 0 ELSE @,
                            !.newStart = IF h.newLen = 0 THEN 0 ELSE @, !.edits = q]
  BY DEF AsRead
<1> HIDE DEF q
<1>5. [h EXCEPT !.oldStart = IF h.oldLen = 0 THEN 0 ELSE @,
                !.newStart = IF h.newLen = 0 THEN 0 ELSE @, !.edits = q]
        = [oldStart |-> IF h.oldLen = 0 THEN 0 ELSE h.oldStart, oldLen |-> h.oldLen,
           newStart |-> IF h.newLen = 0 THEN 0 ELSE h.newStart, newLen |-> h.newLen, edits |-> q]
  <2> DEFINE b1 == IF h.oldLen = 0 THEN 0 ELSE h.oldStart
             b3 == IF h.newLen = 0 THEN 0 ELSE h.newStart
             g == [h EXCEPT !.oldStart = b1, !.newStart = b3, !.edits = q]
  <2>1. [h EXCEPT !.oldStart = IF h.oldLen = 0 THEN 0 ELSE @,
                  !.newStart = IF h.newLen = 0 THEN 0 ELSE @, !.edits = q] = g
    BY <1>1
  <2>2. b1 \in Nat /\ b3 \in Nat /\ q \in Seq(EditSet)
    BY <1>1, <1>3, AsEditsIs
  <2> HIDE DEF b1, b3
  <2>3. g \in HunkSet
    BY <2>2 DEF HunkSet
  <2>4. /\ g.oldLen = h.oldLen /\ g.newLen = h.newLen
        /\ g.oldStart = b1 /\ g.newStart = b3 /\ g.edits = q
    BY <2>2 DEF HunkSet
  <2> HIDE DEF g
  <2>5. g = [oldStart |-> b1, oldLen |-> h.oldLen, newStart |-> b3, newLen |-> h.newLen, edits |-> q]
    BY <2>3, <2>4 DEF HunkSet
  <2>6. QED BY <2>1, <2>5 DEF b1, b3
<1>6. QED BY <1>1, <1>3, <1>4, <1>5, OpenedTyped DEF Opened

\* What is read of the first c edits of e: all of them, or all but one.
Has(r, e, c, lost) ==
    \/ r = SubSeq(e, 1, c)
    \/ lost /\ \E l \in 1 .. c : r = Lacking(e, l, c)

\* One edit more, or one more behind a lost one.
LEMMA HasMore ==
    ASSUME NEW e \in Seq(EditSet), NEW c \in 0 .. Len(e), NEW lost \in BOOLEAN, NEW r,
           Has(r, e, c, lost)
    PROVE  /\ r \in Seq(EditSet)
           /\ c < Len(e) => Has(Append(r, e[c + 1]), e, c + 1, lost)
           /\ ~lost /\ c + 1 < Len(e) => Has(Append(r, e[c + 2]), e, c + 2, TRUE)
<1>1. c \in Nat /\ c <= Len(e) /\ Len(e) \in Nat
  OBVIOUS
<1>2. ASSUME c < Len(e)
      PROVE  /\ SubSeq(e, 1, c) \in Seq(EditSet) /\ e[c + 1] \in EditSet
             /\ Append(SubSeq(e, 1, c), e[c + 1]) = SubSeq(e, 1, c + 1)
  <2>1. SubSeq(e, 1, c) \in Seq(EditSet) /\ e[c + 1] \in EditSet
    BY <1>1, <1>2
  <2>2. SubSeq(e, 1, c) \o <<e[c + 1]>> = SubSeq(e, 1, c + 1)
    BY <1>1, <1>2, PrefixGrows
  <2>3. QED BY <2>1, <2>2, AppendIsConcat
<1>3. ASSUME NEW l \in 1 .. c
      PROVE  /\ Lacking(e, l, c) \in Seq(EditSet)
             /\ c < Len(e) => Append(Lacking(e, l, c), e[c + 1]) = Lacking(e, l, c + 1)
  <2> DEFINE a == SubSeq(e, 1, l - 1)
             b == SubSeq(e, l + 1, c)
             f == e[c + 1]
  <2>1. l \in Nat /\ 1 <= l /\ l <= c /\ l <= Len(e)
    BY <1>1
  <2>2. a \in Seq(EditSet) /\ b \in Seq(EditSet)
    BY <1>1, <2>1
  <2>3. ASSUME c < Len(e) PROVE Append(Lacking(e, l, c), e[c + 1]) = Lacking(e, l, c + 1)
    <3>1. f \in EditSet /\ <<f>> \in Seq(EditSet)
      BY <1>1, <2>3
    <3>2. b \o <<f>> = SubSeq(e, l + 1, c + 1)
      <4> DEFINE g == c + 1
      <4>1. g \in Nat /\ c <= g /\ g <= Len(e) /\ c + 1 = g
        BY <1>1, <2>3
      <4>2. <<f>> = SubSeq(e, g, g)
        BY <1>1, <4>1
      <4> HIDE DEF g
      <4>3. SubSeq(e, l + 1, c) \o SubSeq(e, c + 1, g) = SubSeq(e, l + 1, g)
        BY <1>1, <2>1, <4>1, Adjacent
      <4>4. SubSeq(e, c + 1, g) = <<f>>
        BY <4>1, <4>2
      <4>5. QED BY <4>1, <4>3, <4>4
    <3> HIDE DEF a, b, f
    <3>3. (a \o b) \o <<f>> = a \o (b \o <<f>>)
      BY <2>2, <3>1, ConcatAssociative
    <3>4. Append(a \o b, f) = (a \o b) \o <<f>>
      BY <2>2, <3>1, AppendIsConcat
    <3>5. QED BY <3>2, <3>3, <3>4 DEF Lacking, a, b, f
  <2>4. QED BY <2>2, <2>3 DEF Lacking
<1>4. r \in Seq(EditSet)
  <2>1. SubSeq(e, 1, c) \in Seq(EditSet)
    BY <1>1
  <2>2. QED BY <1>3, <2>1 DEF Has
<1>5. ASSUME c < Len(e) PROVE Has(Append(r, e[c + 1]), e, c + 1, lost)
  <2>1. CASE r = SubSeq(e, 1, c)
    BY <1>2, <1>5, <2>1 DEF Has
  <2>2. CASE lost /\ \E l \in 1 .. c : r = Lacking(e, l, c)
    <3>1. PICK l \in 1 .. c : r = Lacking(e, l, c)
      BY <2>2
    <3>2. Append(r, e[c + 1]) = Lacking(e, l, c + 1)
      BY <1>3, <1>5, <3>1
    <3>3. l \in 1 .. c + 1
      BY <1>1
    <3>4. QED BY <2>2, <3>2, <3>3 DEF Has
  <2>3. QED BY <2>1, <2>2 DEF Has
<1>6. ASSUME ~lost, c + 1 < Len(e) PROVE Has(Append(r, e[c + 2]), e, c + 2, TRUE)
  <2> DEFINE l == c + 1
  <2>1. r = SubSeq(e, 1, c)
    BY <1>6 DEF Has
  <2>2. /\ l \in Nat /\ l <= Len(e) /\ l < Len(e) /\ l - 1 = c /\ l + 1 = c + 2 /\ l \in 1 .. c + 2
        /\ c + 2 \in 1 .. Len(e)
    BY <1>1, <1>6
  <2>3. SubSeq(e, l + 1, c + 2) = <<e[c + 2]>>
    <3> DEFINE g == c + 2
    <3>1. g \in 1 .. Len(e) /\ l + 1 = g
      BY <2>2
    <3> HIDE DEF g, l
    <3>2. /\ l \in Nat /\ l < Len(e)
      BY <2>2
    <3>3. SubSeq(e, l + 1, l + 1) = <<e[l + 1]>>
      BY <3>2, OnePart
    <3>4. QED BY <3>1, <3>3 DEF g
  <2>4. Lacking(e, l, c + 2) = r \o <<e[c + 2]>>
    BY <2>1, <2>2, <2>3 DEF Lacking
  <2>5. Append(r, e[c + 2]) = r \o <<e[c + 2]>>
    BY <1>4, <2>2, AppendIsConcat
  <2>6. QED BY <2>2, <2>4, <2>5 DEF Has
<1>7. QED BY <1>4, <1>5, <1>6

\* Only a hunk that is there to its last edit has all its lines.
LEMMA HasAll ==
    ASSUME NEW h \in HunkSet, h.oldLen = Len(OldSide(h.edits)), h.newLen = Len(NewSide(h.edits)),
           NEW c \in 0 .. Len(h.edits), NEW lost \in BOOLEAN, NEW r \in Seq(EditSet),
           Has(r, h.edits, c, lost)
    PROVE  LET full == /\ ~(Len(OldSide(Opened(h, r).edits)) < Opened(h, r).oldLen)
                       /\ ~(Len(NewSide(Opened(h, r).edits)) < Opened(h, r).newLen)
           IN  full <=> c = Len(h.edits) /\ r = h.edits
<1> DEFINE E == h.edits
<1>0. E \in Seq(EditSet) /\ Len(E) \in Nat
  BY DEF HunkSet
<1>1. /\ Len(OldSide(Opened(h, r).edits)) = Len(OldSide(r))
      /\ Len(NewSide(Opened(h, r).edits)) = Len(NewSide(r))
      /\ Opened(h, r).oldLen = Len(OldSide(E)) /\ Opened(h, r).newLen = Len(NewSide(E))
  BY AsEditsSides, OpenedTyped
<1>2. /\ Len(OldSide(r)) \in Nat /\ Len(NewSide(r)) \in Nat
      /\ Len(OldSide(E)) \in Nat /\ Len(NewSide(E)) \in Nat
  BY <1>0, SidesType
<1> DEFINE full == ~(Len(OldSide(r)) < Len(OldSide(E))) /\ ~(Len(NewSide(r)) < Len(NewSide(E)))
<1> HIDE DEF E
<1>3. ASSUME r = E PROVE full
  <2>1. \A z \in Nat : ~(z < z)
    OBVIOUS
  <2>2. QED BY <1>2, <1>3, <2>1
<1>4. ASSUME full PROVE c = Len(E) /\ r = E
  <2>1. CASE \E l \in 1 .. c : r = Lacking(E, l, c)
    <3>1. PICK l \in 1 .. c : r = Lacking(E, l, c)
      BY <2>1
    <3>2. l \in 1 .. Len(E) /\ c \in l .. Len(E)
      BY <1>0 DEF E
    <3>3. Len(OldSide(r)) < Len(OldSide(E)) \/ Len(NewSide(r)) < Len(NewSide(E))
      BY <1>0, <3>1, <3>2, LackingFallsShort
    <3>4. QED BY <1>4, <3>3
  <2>2. CASE r = SubSeq(E, 1, c)
    <3>1. c = Len(E)
      <4>1. SUFFICES ASSUME c # Len(E) PROVE FALSE
        OBVIOUS
      <4>2. c \in 0 .. Len(E) - 1
        BY <1>0, <4>1 DEF E
      <4>3. Len(OldSide(r)) < Len(OldSide(E)) \/ Len(NewSide(r)) < Len(NewSide(E))
        BY <1>0, <2>2, <4>2, PrefixFallsShort
      <4>4. QED BY <1>4, <4>3
    <3>2. QED BY <1>0, <2>2, <3>1, WholePart
  <2>3. QED BY <2>1, <2>2 DEF Has, E
<1>5. QED BY <1>1, <1>3, <1>4 DEF E

\* Where the header and the edits of a hunk begin and end.
LEMMA RowsRise ==
    ASSUME NEW hs \in Seq(HunkSet), NEW B, Offsets(hs, B)
    PROVE  /\ \A i \in 0 .. Len(hs) : B[i] \in Nat /\ 2 <= B[i]
           /\ \A i, j \in 0 .. Len(hs) : i < j => B[i] < B[j]
           /\ \A i \in 1 .. Len(hs) : /\ i - 1 \in 0 .. Len(hs) /\ i \in 0 .. Len(hs)
                                      /\ Len(hs[i].edits) \in Nat
                                      /\ B[i] = B[i - 1] + 1 + Len(hs[i].edits)
<1> DEFINE N == Len(hs)
<1>1. N \in Nat /\ \A i \in 1 .. N : Len(hs[i].edits) \in Nat
  BY HunkParts
<1>2. \A i, j \in 0 .. N : i <= j => B[i] <= B[j] /\ 2 <= B[i]
  BY <1>1, OffsetsRise
<1>3. \A i \in 0 .. N : B[i] \in Nat
  BY DEF Offsets
<1>4. \A i \in 1 .. N : /\ i - 1 \in 0 .. N /\ i \in 0 .. N
                        /\ B[i] = B[i - 1] + 1 + Len(hs[i].edits)
  BY <1>1 DEF Offsets
<1>5. ASSUME NEW i \in 0 .. N, NEW j \in 0 .. N, i < j PROVE B[i] < B[j]
  <2> DEFINE e == Len(hs[j].edits)
             c == B[j - 1]
  <2>1. j \in 1 .. N /\ i <= j - 1 /\ j - 1 \in 0 .. N
    BY <1>1, <1>5
  <2>2. B[i] <= c /\ c \in Nat /\ B[i] \in Nat /\ e \in Nat /\ B[j] = c + 1 + e
    BY <1>1, <1>2, <1>3, <1>4, <2>1
  <2> HIDE DEF e, c
  <2> DEFINE b == B[i]
             z == B[j]
  <2>3. b <= c /\ c \in Nat /\ b \in Nat /\ e \in Nat /\ z = c + 1 + e
    BY <2>2
  <2> HIDE DEF b, z
  <2>4. b < z
    BY <2>3
  <2>5. QED BY <2>4 DEF b, z
<1>6. QED
  <2>1. \A i \in 0 .. N : i <= i
    BY <1>1
  <2>2. QED BY <1>1, <1>2, <1>3, <1>4, <1>5, <2>1

\* A position in a stretch is its first or a later one.
LEMMA FirstOrBehind ==
    ASSUME NEW p \in Nat, NEW a \in Nat, NEW z, NEW b \in Nat, z = a + 1 + b, a < p, p <= z
    PROVE  p = a + 1 \/ (p - a - 1 \in 1 .. b /\ p = a + 1 + (p - a - 1))
OBVIOUS

\* What a written line can be.
LEMMA LineAt ==
    ASSUME NEW hs \in Seq(HunkSet), NEW B, Offsets(hs, B), NEW w, LaidOut(hs, B, w, Len(hs)),
           NEW p \in 1 .. Len(w)
    PROVE  \/ p <= 2 /\ w[p].kind = "name"
           \/ \E j \in 1 .. Len(hs) : p = B[j - 1] + 1 /\ w[p] = Header(hs[j]) /\ w[p].kind = "header"
           \/ \E j \in 1 .. Len(hs) : \E q \in 1 .. Len(hs[j].edits) :
                 /\ p = B[j - 1] + 1 + q /\ w[p] = hs[j].edits[q]
                 /\ w[p] \in EditSet /\ w[p].kind \in {"keep", "delete", "insert"}
<1> DEFINE N == Len(hs)
<1>0. N \in Nat /\ Len(w) \in Nat
  BY DEF LaidOut
<1>1. CASE p <= 2
  <2>1. p = 1 \/ p = 2
    BY <1>0, <1>1
  <2>2. w[p] = Name
    BY <2>1 DEF LaidOut
  <2>3. QED BY <1>1, <2>2 DEF Name
<1>2. CASE ~(p <= 2)
  <2>1. PICK j \in 1 .. N : B[j - 1] < p /\ p <= B[j]
    BY <1>2 DEF LaidOut
  <2> DEFINE e == hs[j].edits
             c == B[j - 1]
             z == B[j]
             q == p - c - 1
  <2>2. e \in Seq(EditSet) /\ Len(e) \in Nat /\ Header(hs[j]).kind = "header"
    BY HunkParts
  <2>3. c \in Nat /\ z = c + 1 + Len(e)
    BY RowsRise
  <2>4. /\ w[c + 1] = Header(hs[j])
        /\ \A i \in 1 .. Len(e) : w[c + 1 + i] = e[i]
    BY DEF LaidOut
  <2>5. c < p /\ p <= z
    BY <2>1
  <2> DEFINE E == Len(e)
  <2>6. E \in Nat /\ z = c + 1 + E
    BY <2>2, <2>3
  <2> HIDE DEF E, c, z
  <2>7. p \in Nat
    BY <1>0
  <2>8. p = c + 1 \/ (q \in 1 .. E /\ p = c + 1 + q)
    BY <2>3, <2>5, <2>6, <2>7, FirstOrBehind
  <2>9. CASE p = c + 1
    BY <2>2, <2>4, <2>9 DEF c
  <2>10. CASE q \in 1 .. E /\ p = c + 1 + q
    <3> HIDE DEF q
    <3>1. w[p] = e[q]
      BY <2>4, <2>10 DEF E
    <3>2. e[q] \in EditSet
      BY <2>2, <2>10 DEF E
    <3>3. e[q].kind \in {"keep", "delete", "insert"}
      BY <3>2, EditsAre
    <3>4. QED BY <2>10, <3>1, <3>2, <3>3 DEF E, c
  <2>11. QED BY <2>8, <2>9, <2>10
<1>3. QED BY <1>1, <1>2

\* A header is where a hunk begins, an edit nowhere else than in its hunk.
LEMMA HeaderAt ==
    ASSUME NEW hs \in Seq(HunkSet), NEW B, Offsets(hs, B), NEW w, LaidOut(hs, B, w, Len(hs)),
           NEW p \in 1 .. Len(w), w[p].kind = "header"
    PROVE  \E j \in 1 .. Len(hs) : p = B[j - 1] + 1 /\ w[p] = Header(hs[j])
<1>1. ~(w[p].kind = "name") /\ ~(w[p].kind \in {"keep", "delete", "insert"})
  OBVIOUS
<1>2. QED BY <1>1, LineAt, SMTT(30)

\* What arrives at p tells what was written there.
LEMMA Arrives ==
    ASSUME NEW w \in Seq(LineSet), NEW t, NEW src, Carried(src, t, w), NEW p \in 1 .. Len(t)
    PROVE  /\ src[p - 1] \in 0 .. Len(w) /\ src[p] \in 0 .. Len(w) /\ src[p - 1] <= src[p]
           /\ t[p].kind = "note" => t[p] = Note /\ src[p] = src[p - 1]
           /\ t[p].kind # "note" => src[p] > src[p - 1] /\ src[p] \in 1 .. Len(w)
           /\ t[p].kind \in {"header", "keep", "delete", "insert", "name"} => t[p] = w[src[p]]
           /\ t[p].kind = "blank" => w[src[p]] = Keep(EmptyLine)
           /\ t[p].kind \in {"note", "blank", "header", "keep", "delete", "insert", "name"}
<1>1. src[p - 1] \in 0 .. Len(w) /\ src[p] \in 0 .. Len(w)
  BY SMTT(30) DEF Carried
<1>2. \/ t[p] = Note /\ src[p] = src[p - 1]
      \/ src[p] > src[p - 1] /\ Shows(t[p], w[src[p]])
  BY DEF Carried
<1> DEFINE a == src[p - 1]
           z == src[p]
<1>3. CASE t[p] = Note /\ z = a
  <2>1. t[p].kind = "note"
    BY <1>3 DEF Note
  <2>2. a <= z
    BY <1>1, <1>3
  <2>3. QED BY <1>1, <1>3, <2>1, <2>2
<1>4. CASE z > a /\ Shows(t[p], w[z])
  <2>1. z \in 1 .. Len(w) /\ a <= z
    BY <1>1, <1>4
  <2>2. w[z].kind \in {"name", "header", "keep", "delete", "insert"}
    <3>1. w[z] \in LineSet
      BY <2>1
    <3>2. QED BY <3>1, LinesAreNoNotes
  <2>3. CASE t[p] = w[z]
    BY <1>1, <1>4, <2>1, <2>2, <2>3
  <2>4. CASE t[p] = Blank /\ w[z] = Keep(EmptyLine)
    <3>1. t[p].kind = "blank"
      BY <2>4 DEF Blank
    <3>2. QED BY <1>1, <1>4, <2>1, <2>4, <3>1
  <2>5. QED BY <1>4, <2>3, <2>4 DEF Shows
<1>5. QED BY <1>2, <1>3, <1>4

\* How far one line takes the reader.
LEMMA Strides ==
    ASSUME NEW w \in Seq(LineSet), NEW t, NEW src, Carried(src, t, w), NEW p \in 1 .. Len(t)
    PROVE  /\ Whole(src, t, w) => src[p] <= src[p - 1] + 1
           /\ OneLost(src, t) => \/ src[p] <= src[p - 1] + 1
                                 \/ src[p - 1] = p - 1 /\ src[p] = p + 1
           /\ OneLost(src, t) /\ src[p - 1] = p /\ src[p] <= src[p - 1] + 1 => src[p] = p + 1
<1>1. Whole(src, t, w) => src[p] <= src[p - 1] + 1
  BY DEF Whole
<1>2. p \in Nat /\ 1 <= p /\ p <= Len(t) /\ Len(t) \in Nat
  BY DEF Carried
<1> DEFINE a == src[p - 1]
           z == src[p]
<1>3. ASSUME OneLost(src, t)
      PROVE  /\ z <= a + 1 \/ (a = p - 1 /\ z = p + 1)
             /\ (a = p /\ z <= a + 1 => z = p + 1)
  <2>1. a \in Nat /\ z \in Nat /\ z > a
    <3>1. t[p] # Note
      BY <1>3 DEF OneLost
    <3>2. src[p] > src[p - 1]
      BY <3>1 DEF Carried
    <3>3. src[p - 1] \in 0 .. Len(w) /\ src[p] \in 0 .. Len(w)
      BY DEF Carried
    <3>4. QED BY <3>2, <3>3
  <2>2. z = p \/ z = p + 1
    BY <1>3 DEF OneLost
  <2>3. a = p - 1 \/ a = p
    <3>1. CASE p = 1
      BY <3>1 DEF Carried
    <3>2. CASE p # 1
      <4> DEFINE q == p - 1
      <4>1. q \in 1 .. Len(t)
        BY <1>2, <3>2
      <4>2. src[q] = q \/ src[q] = q + 1
        BY <1>3, <4>1 DEF OneLost
      <4>3. q + 1 = p
        BY <1>2
      <4>4. QED BY <4>2, <4>3
    <3>3. QED BY <3>1, <3>2
  <2> HIDE DEF a, z
  <2>4. QED BY <1>2, <2>1, <2>2, <2>3
<1>4. QED BY <1>1, <1>3

\* src and B tell how the lines of text come from those of write.
Comes(src, B) ==
    /\ Offsets(hunks, B) /\ LaidOut(hunks, B, write, Len(hunks))
    /\ Carried(src, text, write)
    /\ IF travelled = "damaged" THEN OneLost(src, text) ELSE Whole(src, text, write)

\* Between two hunks the reader is behind the last it has.
Outside(src, B) ==
    /\ open = NoHunk
    /\ travelled # "damaged" =>
         IF hunkList = << >> THEN src[pos] <= 2 ELSE src[pos] = B[Len(hunkList)]

Lost(src) == travelled = "damaged" /\ src[pos] = pos + 1

\* In the j-th hunk it has come to the c-th edit, and has r of them.
Inside(src, B, j, c, r) ==
    /\ open = Opened(hunks[j], r)
    /\ src[pos] = B[j - 1] + 1 + c
    /\ Has(r, hunks[j].edits, c, Lost(src))
    /\ travelled # "damaged" => j = Len(hunkList) + 1

\* The hunks read so far are hunks that were written, and the first ones of a
\* diff that is not damaged.
Listed ==
    /\ hunkList \in Seq(HunkSet)
    /\ \A i \in 1 .. Len(hunkList) : \E j \in 1 .. Len(hunks) :
         hunkList[i] = AsRead(hunks[j]) /\ (travelled # "damaged" => i = j)

\* Where the reader is.
ReaderAt(src, B) ==
    /\ hunks # << >> /\ Comes(src, B) /\ Listed /\ pos \in 0 .. Len(text)
    /\ \/ Outside(src, B)
       \/ \E j \in 1 .. Len(hunks) : \E c \in 0 .. Len(hunks[j].edits) : \E r : Inside(src, B, j, c, r)

\* What a hunk of the diff is.
LEMMA HunkIs ==
    ASSUME HunksLie, script \in Seq(EditSet)
    PROVE  \A j \in 1 .. Len(hunks) :
             /\ hunks[j] \in HunkSet /\ hunks[j].edits \in Seq(EditSet) /\ Len(hunks[j].edits) \in Nat
             /\ hunks[j].oldLen = Len(OldSide(hunks[j].edits))
             /\ hunks[j].newLen = Len(NewSide(hunks[j].edits))
<1>1. SUFFICES ASSUME NEW j \in 1 .. Len(hunks)
               PROVE  /\ hunks[j] \in HunkSet
                      /\ hunks[j].edits \in Seq(EditSet) /\ Len(hunks[j].edits) \in Nat
                      /\ hunks[j].oldLen = Len(OldSide(hunks[j].edits))
                      /\ hunks[j].newLen = Len(NewSide(hunks[j].edits))
  OBVIOUS
<1>2. hunks[j] \in HunkSet /\ hunks[j] = HunkAt(From(j), Upto(j))
  BY DEF HunksLie
<1> DEFINE h == hunks[j]
<1> HIDE DEF h
<1>3. h \in HunkSet /\ h = HunkAt(From(j), Upto(j))
  BY <1>2 DEF h
<1>4. h.oldLen = Len(OldSide(h.edits)) /\ h.newLen = Len(NewSide(h.edits))
  BY <1>3 DEF HunkAt
<1>5. h.edits \in Seq(EditSet)
  BY <1>3 DEF HunkSet
<1>6. Len(h.edits) \in Nat
  BY <1>5
<1>7. QED BY <1>3, <1>4, <1>5, <1>6 DEF h

\* Reading changes neither the diff nor what arrived of it.
LEMMA ReadFrame ==
    ASSUME UNCHANGED <<diffVars, context, travelled, text>>, NEW src, NEW B
    PROVE  /\ hunks' = hunks /\ write' = write
           /\ Comes(src, B) => Comes(src, B)'
           /\ Listed /\ UNCHANGED hunkList => Listed'
<1>1. hunks' = hunks /\ write' = write
  BY DiffStays
<1>2. Comes(src, B) => Comes(src, B)'
  BY <1>1 DEF Comes
<1>3. Listed /\ UNCHANGED hunkList => Listed'
  BY <1>1 DEF Listed
<1>4. QED BY <1>1, <1>2, <1>3

\* What Comes says of where lines and hunks are.
LEMMA ComesFacts ==
    ASSUME hunks \in Seq(HunkSet), NEW src, NEW B, Comes(src, B)
    PROVE  /\ write \in Seq(LineSet) /\ Len(write) = B[Len(hunks)] /\ Len(hunks) \in Nat
           /\ \A i \in 0 .. Len(hunks) : B[i] \in Nat /\ 2 <= B[i]
           /\ \A i, j \in 0 .. Len(hunks) : i < j => B[i] < B[j]
           /\ \A i \in 1 .. Len(hunks) : /\ i - 1 \in 0 .. Len(hunks) /\ i \in 0 .. Len(hunks)
                                         /\ Len(hunks[i].edits) \in Nat
                                         /\ B[i] = B[i - 1] + 1 + Len(hunks[i].edits)
           /\ B[0] = 2 /\ Len(text) \in Nat
           /\ \A p \in 0 .. Len(text) : src[p] \in 0 .. Len(write) /\ src[p] \in Nat
<1>1. Offsets(hunks, B) /\ LaidOut(hunks, B, write, Len(hunks)) /\ Carried(src, text, write)
  BY DEF Comes
<1>2. write \in Seq(LineSet) /\ Len(write) = B[Len(hunks)] /\ Len(hunks) \in Nat
  BY <1>1 DEF LaidOut
<1>3. B[0] = 2
  BY <1>1 DEF Offsets
<1>4. Len(text) \in Nat /\ \A p \in 0 .. Len(text) : src[p] \in 0 .. Len(write) /\ src[p] \in Nat
  <2>1. Len(text) \in Nat /\ src \in [0 .. Len(text) -> 0 .. Len(write)]
    BY <1>1 DEF Carried
  <2>2. \A i \in 0 .. Len(write) : i \in Nat
    BY <1>2
  <2>3. QED BY <2>1, <2>2
<1>5. \A i \in 0 .. Len(hunks) : B[i] \in Nat /\ 2 <= B[i]
  BY <1>1, RowsRise
<1>6. \A i, j \in 0 .. Len(hunks) : i < j => B[i] < B[j]
  BY <1>1, RowsRise
<1>7. \A i \in 1 .. Len(hunks) : /\ i - 1 \in 0 .. Len(hunks) /\ i \in 0 .. Len(hunks)
                                 /\ Len(hunks[i].edits) \in Nat
                                 /\ B[i] = B[i - 1] + 1 + Len(hunks[i].edits)
  BY <1>1, RowsRise
<1>8. QED BY <1>2, <1>3, <1>4, <1>5, <1>6, <1>7

\* Only one hunk ends at a line.
LEMMA SameRow ==
    ASSUME hunks \in Seq(HunkSet), NEW src, NEW B, Comes(src, B),
           NEW i \in 0 .. Len(hunks), NEW j \in 0 .. Len(hunks), B[i] = B[j]
    PROVE  i = j
<1>1. /\ \A a, b \in 0 .. Len(hunks) : a < b => B[a] < B[b]
      /\ \A a \in 0 .. Len(hunks) : B[a] \in Nat
      /\ Len(hunks) \in Nat
  BY ComesFacts
<1>2. \A z \in Nat : ~(z < z)
  OBVIOUS
<1>3. ~(i < j) /\ ~(j < i)
  BY <1>1, <1>2
<1>4. i \in Nat /\ j \in Nat
  BY <1>1
<1>5. QED BY <1>3, <1>4

\* Where the line behind the k-th hunk arrives, there is another hunk, and
\* that line is its header.
LEMMA NextHeader ==
    ASSUME hunks \in Seq(HunkSet), NEW src, NEW B, Comes(src, B),
           NEW p \in 1 .. Len(text), NEW k0 \in 0 .. Len(hunks), src[p] = B[k0] + 1, src[p] > src[p - 1]
    PROVE  k0 < Len(hunks) /\ text[p] = Header(hunks[k0 + 1]) /\ text[p].kind = "header"
<1>1. /\ write \in Seq(LineSet) /\ Len(write) = B[Len(hunks)] /\ Len(hunks) \in Nat
      /\ \A i \in 0 .. Len(hunks) : B[i] \in Nat
      /\ \A q \in 0 .. Len(text) : src[q] \in Nat
      /\ Len(text) \in Nat
  BY ComesFacts
<1>2. Carried(src, text, write) /\ LaidOut(hunks, B, write, Len(hunks))
  BY DEF Comes
<1>3. p - 1 \in 0 .. Len(text) /\ p \in 0 .. Len(text)
  BY <1>1
<1>4. src[p] \in Nat /\ src[p - 1] \in Nat
  BY <1>1, <1>3
<1>5. text[p].kind # "note" /\ src[p] \in 1 .. Len(write)
  <2>1. src[p] # src[p - 1]
    BY <1>4
  <2>2. text[p].kind # "note"
    BY <1>1, <1>2, <2>1, Arrives
  <2>3. QED BY <1>1, <1>2, <2>2, Arrives
<1>6. k0 < Len(hunks)
  <2>1. B[k0] + 1 <= B[Len(hunks)] /\ B[k0] \in Nat
    BY <1>1, <1>5
  <2>2. k0 # Len(hunks)
    <3>1. \A z \in Nat : ~(z + 1 <= z)
      OBVIOUS
    <3>2. QED BY <2>1, <3>1
  <2>3. QED BY <1>1, <2>2
<1> DEFINE j == k0 + 1
<1>7. j \in 1 .. Len(hunks) /\ j - 1 = k0
  BY <1>1, <1>6
<1>8. write[src[p]] = Header(hunks[j])
  <2> HIDE DEF j
  <2>1. write[B[j - 1] + 1] = Header(hunks[j])
    BY <1>2, <1>7 DEF LaidOut
  <2>2. QED BY <1>7, <2>1
<1>9. write[src[p]].kind = "header"
  BY <1>8 DEF Header
<1>10. text[p].kind # "blank"
  <2>1. Keep(EmptyLine).kind # "header"
    BY DEF Keep
  <2>2. text[p].kind = "blank" => write[src[p]] = Keep(EmptyLine)
    BY <1>1, <1>2, Arrives
  <2>3. QED BY <1>9, <2>1, <2>2
<1>11. text[p] = write[src[p]]
  <2>1. /\ text[p].kind \in {"note", "blank", "header", "keep", "delete", "insert", "name"}
        /\ text[p].kind \in {"header", "keep", "delete", "insert", "name"} => text[p] = write[src[p]]
    BY <1>1, <1>2, Arrives
  <2>2. QED BY <1>5, <1>10, <2>1
<1>12. QED BY <1>6, <1>8, <1>9, <1>11

\* The line that is next.
LEMMA NextLine ==
    ASSUME hunks \in Seq(HunkSet), NEW src, NEW B, Comes(src, B), pos \in 0 .. Len(text), ~AtEOF
    PROVE  /\ pos + 1 \in 1 .. Len(text) /\ pos \in Nat /\ pos + 1 \in 0 .. Len(text)
           /\ (pos + 1) - 1 = pos /\ Line = text[pos + 1]
           /\ src[pos] \in Nat /\ src[pos + 1] \in Nat /\ src[pos] <= src[pos + 1]
           /\ Line.kind = "note" => src[pos + 1] = src[pos]
           /\ Line.kind # "note" => src[pos + 1] > src[pos] /\ src[pos + 1] \in 1 .. Len(write)
           /\ travelled # "damaged" => src[pos + 1] <= src[pos] + 1
<1>1. Len(text) \in Nat /\ write \in Seq(LineSet) /\ \A q \in 0 .. Len(text) : src[q] \in Nat
  BY ComesFacts
<1> DEFINE p == pos + 1
<1>2. p \in 1 .. Len(text) /\ pos \in Nat /\ p \in 0 .. Len(text) /\ p - 1 = pos
  BY <1>1 DEF AtEOF
<1>3. Carried(src, text, write)
  BY DEF Comes
<1>4. Line = text[p]
  BY DEF Line
<1>5. src[pos] \in Nat /\ src[p] \in Nat
  BY <1>1, <1>2
<1> HIDE DEF p
<1>6. /\ src[p - 1] <= src[p]
      /\ text[p].kind = "note" => src[p] = src[p - 1]
      /\ text[p].kind # "note" => src[p] > src[p - 1] /\ src[p] \in 1 .. Len(write)
  BY <1>1, <1>2, <1>3, Arrives
<1>7. travelled # "damaged" => src[p] <= src[p - 1] + 1
  <2>1. travelled # "damaged" => Whole(src, text, write)
    BY DEF Comes
  <2>2. QED BY <1>1, <1>2, <1>3, <2>1, Strides
<1>8. QED BY <1>2, <1>4, <1>5, <1>6, <1>7 DEF p

\* Commentary is not part of a hunk.
LEMMA CommentarySteps ==
    ASSUME hunks \in Seq(HunkSet), NEW src, NEW B, ReaderAt(src, B), Outside(src, B), Commentary
    PROVE  ReaderAt(src, B)'
<1>1. /\ Comes(src, B) /\ Listed /\ pos \in 0 .. Len(text) /\ hunks # << >>
  BY DEF ReaderAt
<1>2. /\ ~AtEOF /\ Line.kind # "header" /\ hunkList = << >> /\ pos' = pos + 1 /\ open' = NoHunk
      /\ UNCHANGED <<diffVars, context, travelled, text>> /\ UNCHANGED hunkList /\ UNCHANGED travelled
      /\ UNCHANGED text
  BY DEF Commentary, ReadOn
<1> DEFINE p == pos + 1
<1>3. /\ p \in 1 .. Len(text) /\ p \in 0 .. Len(text) /\ p - 1 = pos /\ Line = text[p]
      /\ src[pos] \in Nat /\ src[p] \in Nat /\ src[pos] <= src[p]
      /\ travelled # "damaged" => src[p] <= src[pos] + 1
  BY <1>1, <1>2, NextLine
<1> HIDE DEF p
<1>4. ASSUME travelled # "damaged" PROVE src[p] <= 2
  <2> DEFINE a == src[pos]
             z == src[p]
  <2>1. a <= 2
    BY <1>2, <1>4 DEF Outside
  <2>2. a \in Nat /\ z \in Nat /\ z <= a + 1
    BY <1>3, <1>4
  <2>3. z # 3
    <3>1. SUFFICES ASSUME z = 3 PROVE FALSE
      OBVIOUS
    <3>2. B[0] = 2 /\ 0 \in 0 .. Len(hunks)
      BY <1>1, ComesFacts
    <3>3. src[p] = B[0] + 1
      BY <3>1, <3>2
    <3>4. src[p] > src[p - 1]
      BY <1>3, <2>1, <2>2, <3>1
    <3>5. text[p].kind = "header"
      BY <1>1, <1>3, <3>2, <3>3, <3>4, NextHeader
    <3>6. QED BY <1>2, <1>3, <3>5
  <2> HIDE DEF a, z
  <2>4. z <= 2
    BY <2>1, <2>2, <2>3
  <2>5. QED BY <2>4 DEF z
<1>5. Outside(src, B)'
  BY <1>2, <1>4 DEF Outside, p
<1>6. /\ hunks' = hunks /\ Comes(src, B)' /\ Listed'
  BY <1>1, <1>2, ReadFrame
<1>7. pos' \in 0 .. Len(text')
  BY <1>2, <1>3 DEF p
<1>8. QED BY <1>1, <1>5, <1>6, <1>7 DEF ReaderAt

\* What a header says is what the reader opens a hunk with.
LEMMA HeaderOpens ==
    ASSUME NEW h \in HunkSet, NEW l, l = Header(h)
    PROVE  [oldStart |-> IF l.oldLen = 0 THEN 0 ELSE Max({1, l.oldStart}) - 1,
            oldLen   |-> l.oldLen,
            newStart |-> IF l.newLen = 0 THEN 0 ELSE Max({1, l.newStart}) - 1,
            newLen   |-> l.newLen,
            edits    |-> << >>] = Opened(h, << >>)
<1>1. h.oldStart \in Nat /\ h.oldLen \in Nat /\ h.newStart \in Nat /\ h.newLen \in Nat
  BY DEF HunkSet
<1>2. /\ l.oldStart = Shown(h.oldStart, h.oldLen) /\ l.oldLen = h.oldLen
      /\ l.newStart = Shown(h.newStart, h.newLen) /\ l.newLen = h.newLen
  BY DEF Header
<1>3. \A s, e \in Nat : (IF e = 0 THEN 0 ELSE Max({1, Shown(s, e)}) - 1) = IF e = 0 THEN 0 ELSE s
  <2>1. SUFFICES ASSUME NEW s \in Nat, NEW e \in Nat, e # 0 PROVE Max({1, Shown(s, e)}) - 1 = s
    OBVIOUS
  <2>2. Shown(s, e) = s + 1 /\ s + 1 \in Int /\ 1 \in Int
    BY <2>1 DEF Shown
  <2>3. Max({1, s + 1}) = IF 1 >= s + 1 THEN 1 ELSE s + 1
    BY <2>2, MaxOfTwo
  <2>4. Max({1, s + 1}) = s + 1
    BY <2>1, <2>3
  <2>5. QED BY <2>2, <2>4
<1>4. AsEdits(<< >>) = << >>
  BY DEF AsEdits
<1>5. /\ (IF l.oldLen = 0 THEN 0 ELSE Max({1, l.oldStart}) - 1) = IF h.oldLen = 0 THEN 0 ELSE h.oldStart
      /\ (IF l.newLen = 0 THEN 0 ELSE Max({1, l.newStart}) - 1) = IF h.newLen = 0 THEN 0 ELSE h.newStart
  BY <1>1, <1>2, <1>3
<1>6. QED BY <1>2, <1>4, <1>5 DEF Opened

\* A header opens the hunk it is of; if nothing was damaged, the next one.
LEMMA ReadHeaderSteps ==
    ASSUME hunks \in Seq(HunkSet), NEW src, NEW B, ReaderAt(src, B), Outside(src, B), ReadHeader
    PROVE  ReaderAt(src, B)'
<1>1. /\ Comes(src, B) /\ Listed /\ pos \in 0 .. Len(text) /\ hunks # << >>
  BY DEF ReaderAt
<1> DEFINE o == [oldStart |-> IF Line.oldLen = 0 THEN 0 ELSE Max({1, Line.oldStart}) - 1,
                 oldLen   |-> Line.oldLen,
                 newStart |-> IF Line.newLen = 0 THEN 0 ELSE Max({1, Line.newStart}) - 1,
                 newLen   |-> Line.newLen,
                 edits    |-> << >>]
<1>2. /\ ~AtEOF /\ Line.kind = "header" /\ pos' = pos + 1 /\ open' = o
      /\ UNCHANGED <<diffVars, context, travelled, text>> /\ UNCHANGED hunkList /\ UNCHANGED travelled
      /\ UNCHANGED text
  BY DEF ReadHeader, ReadOn
<1> HIDE DEF o
<1> DEFINE p == pos + 1
<1>3. /\ p \in 1 .. Len(text) /\ p \in 0 .. Len(text) /\ p - 1 = pos /\ Line = text[p]
      /\ src[pos] \in Nat /\ src[p] \in Nat /\ src[p] > src[pos] /\ src[p] \in 1 .. Len(write)
      /\ travelled # "damaged" => src[p] <= src[pos] + 1
  BY <1>1, <1>2, NextLine
<1> HIDE DEF p
<1>4. Offsets(hunks, B) /\ LaidOut(hunks, B, write, Len(hunks)) /\ Carried(src, text, write)
  BY <1>1 DEF Comes
<1>5. write \in Seq(LineSet) /\ text[p].kind = "header" /\ Line = write[src[p]]
  <2>1. write \in Seq(LineSet)
    BY <1>1, ComesFacts
  <2>2. text[p].kind = "header"
    BY <1>2, <1>3
  <2>3. text[p] = write[src[p]]
    BY <1>3, <1>4, <2>1, <2>2, Arrives
  <2>4. QED BY <1>3, <2>1, <2>2, <2>3
<1>6. PICK j \in 1 .. Len(hunks) : src[p] = B[j - 1] + 1 /\ write[src[p]] = Header(hunks[j])
  <2>1. write[src[p]].kind = "header"
    BY <1>2, <1>5
  <2> DEFINE q == src[p]
  <2>2. q \in 1 .. Len(write) /\ write[q].kind = "header"
    BY <1>3, <2>1
  <2> HIDE DEF q
  <2>3. \E j \in 1 .. Len(hunks) : q = B[j - 1] + 1 /\ write[q] = Header(hunks[j])
    BY <1>4, <2>2, HeaderAt
  <2>4. QED BY <2>3 DEF q
<1>7. hunks[j] \in HunkSet /\ Len(hunks[j].edits) \in Nat /\ hunks[j].edits \in Seq(EditSet)
  BY HunkParts
<1>8. open' = Opened(hunks[j], << >>)
  <2>1. Line = Header(hunks[j])
    BY <1>5, <1>6
  <2> DEFINE l == Line
             h == hunks[j]
  <2> HIDE DEF l, h
  <2>2. h \in HunkSet /\ l = Header(h)
    BY <1>7, <2>1 DEF l, h
  <2>3. [oldStart |-> IF l.oldLen = 0 THEN 0 ELSE Max({1, l.oldStart}) - 1,
         oldLen   |-> l.oldLen,
         newStart |-> IF l.newLen = 0 THEN 0 ELSE Max({1, l.newStart}) - 1,
         newLen   |-> l.newLen,
         edits    |-> << >>] = Opened(h, << >>)
    BY <2>2, HeaderOpens
  <2>4. QED BY <1>2, <2>3 DEF o, l, h
<1>9. ASSUME travelled # "damaged" PROVE j = Len(hunkList) + 1
  <2> DEFINE K == Len(hunkList)
             a == src[pos]
             b == B[j - 1]
  <2>1. /\ j - 1 \in 0 .. Len(hunks) /\ b \in Nat /\ 2 <= b /\ B[0] = 2 /\ Len(hunks) \in Nat
    BY <1>1, ComesFacts
  <2>2. a = b
    <3>1. a \in Nat /\ src[p] \in Nat /\ src[p] > a /\ src[p] <= a + 1 /\ src[p] = b + 1
      BY <1>3, <1>6, <1>9
    <3> HIDE DEF a, b
    <3>2. QED BY <2>1, <3>1
  <2>3. CASE hunkList = << >>
    <3>1. a <= 2
      BY <1>9, <2>3 DEF Outside
    <3>2. b = 2
      <4> HIDE DEF a, b
      <4>1. QED BY <2>1, <2>2, <3>1
    <3>3. 0 \in 0 .. Len(hunks) /\ B[j - 1] = B[0]
      BY <2>1, <3>2
    <3>4. j - 1 = 0
      BY <1>1, <2>1, <3>3, SameRow
    <3>5. K = 0
      BY <2>3
    <3>6. QED BY <3>4, <3>5
  <2>4. CASE hunkList # << >>
    <3>1. a = B[K]
      BY <1>9, <2>4 DEF Outside
    <3>2. K \in 0 .. Len(hunks)
      <4>1. hunkList \in Seq(HunkSet)
        BY <1>1 DEF Listed
      <4>2. K \in Nat /\ K \in 1 .. K
        BY <2>4, <4>1
      <4>3. K \in 1 .. Len(hunks)
        BY <1>1, <1>9, <4>2 DEF Listed
      <4>4. QED BY <2>1, <4>3
    <3>3. B[j - 1] = B[K]
      BY <2>2, <3>1
    <3>4. j - 1 = K
      BY <1>1, <2>1, <3>2, <3>3, SameRow
    <3> HIDE DEF K
    <3>5. j = K + 1
      BY <3>4
    <3>6. QED BY <3>5 DEF K
  <2>5. QED BY <2>3, <2>4
<1>10. Has(<< >>, hunks[j].edits, 0, Lost(src)')
  <2>1. SubSeq(hunks[j].edits, 1, 0) = << >>
    BY <1>7, WholePart
  <2>2. QED BY <2>1 DEF Has
<1>11. /\ hunks' = hunks /\ Comes(src, B)' /\ Listed'
  BY <1>1, <1>2, ReadFrame
<1>12. pos' = p /\ src[p] = B[j - 1] + 1 + 0 /\ 0 \in 0 .. Len(hunks[j].edits)
  <2>1. B[j - 1] \in Nat
    BY <1>1, ComesFacts
  <2>2. QED BY <1>2, <1>6, <1>7, <2>1 DEF p
<1>13. Inside(src, B, j, 0, << >>)'
  BY <1>2, <1>8, <1>9, <1>10, <1>11, <1>12 DEF Inside, Opened
<1>14. pos' \in 0 .. Len(text')
  BY <1>2, <1>3, <1>12
<1>15. QED BY <1>1, <1>11, <1>12, <1>13, <1>14 DEF ReaderAt

\* The reader of a diff that is not damaged stops behind its last hunk.
LEMMA EndParseSteps ==
    ASSUME hunks \in Seq(HunkSet), NEW src, NEW B, ReaderAt(src, B), Outside(src, B), EndParse,
           travelled # "damaged"
    PROVE  Len(hunkList) = Len(hunks)
<1>1. /\ Comes(src, B) /\ Listed /\ pos \in 0 .. Len(text) /\ hunks # << >>
  BY DEF ReaderAt
<1> DEFINE K == Len(hunkList)
           N == Len(hunks)
<1>2. /\ N \in Nat /\ N # 0 /\ Len(write) = B[N] /\ B[0] = 2 /\ Len(text) \in Nat
      /\ \A i \in 0 .. N : B[i] \in Nat /\ 2 <= B[i]
      /\ \A i, j \in 0 .. N : i < j => B[i] < B[j]
  <2>1. N # 0
    BY <1>1
  <2>2. QED BY <1>1, <2>1, ComesFacts
<1>3. hunkList \in Seq(HunkSet)
  BY <1>1 DEF Listed
<1>4. ASSUME hunkList # << >> PROVE K \in 0 .. N /\ src[pos] = B[K] /\ K # 0
  <2>1. K \in Nat /\ K \in 1 .. K /\ K # 0
    BY <1>3, <1>4
  <2>2. K \in 1 .. N
    BY <1>1, <2>1 DEF Listed
  <2>3. QED BY <1>2, <1>4, <2>1, <2>2 DEF Outside
<1>5. Whole(src, text, write) /\ Carried(src, text, write)
  BY <1>1 DEF Comes
<1>6. CASE AtEOF
  <2>1. src[pos] = B[N]
    BY <1>2, <1>5, <1>6 DEF AtEOF, Whole
  <2>2. hunkList # << >>
    <3>1. SUFFICES ASSUME hunkList = << >> PROVE FALSE
      OBVIOUS
    <3>2. src[pos] <= 2
      BY <3>1 DEF Outside
    <3>3. 0 \in 0 .. N /\ N \in 0 .. N /\ 0 < N
      BY <1>2
    <3>4. 2 < B[N] /\ B[N] \in Nat
      BY <1>2, <3>3
    <3>5. QED BY <2>1, <3>2, <3>4
  <2>3. B[K] = B[N] /\ K \in 0 .. N /\ N \in 0 .. N
    BY <1>2, <1>4, <2>1, <2>2
  <2>4. QED BY <1>1, <2>3, SameRow
<1>7. CASE ~AtEOF /\ Line.kind # "header" /\ hunkList # << >>
  <2> DEFINE p == pos + 1
  <2>1. /\ p \in 1 .. Len(text) /\ p \in 0 .. Len(text) /\ p - 1 = pos /\ Line = text[p]
        /\ src[pos] \in Nat /\ src[p] \in Nat
        /\ Line.kind = "note" => src[p] = src[pos]
        /\ Line.kind # "note" => src[p] > src[pos]
        /\ src[p] <= src[pos] + 1
    BY <1>1, <1>7, NextLine
  <2> HIDE DEF p
  <2>2. SUFFICES ASSUME K # N PROVE FALSE
    OBVIOUS
  <2>3. K \in 0 .. N /\ K < N /\ src[pos] = B[K] /\ B[K] \in Nat
    BY <1>2, <1>4, <1>7, <2>2
  <2>4. CASE Line.kind = "note"
    <3>1. text[p] = Note
      <4>1. write \in Seq(LineSet)
        BY <1>1, ComesFacts
      <4>2. QED BY <1>5, <2>1, <2>4, <4>1, Arrives
    <3> DEFINE j == K + 1
    <3>2. j \in 1 .. N /\ j - 1 = K /\ N \in 0 .. N
      BY <1>2, <2>3
    <3> HIDE DEF j
    <3>3. write[B[K] + 1] = Header(hunks[j])
      <4>1. LaidOut(hunks, B, write, Len(hunks))
        BY <1>1 DEF Comes
      <4>2. QED BY <3>2, <4>1 DEF LaidOut
    <3>4. B[K] < B[N] /\ B[N] \in Nat
      BY <1>2, <2>3, <3>2
    <3>5. B[K] + 1 \in src[p] .. Len(write)
      <4>1. src[p] = B[K]
        BY <2>1, <2>3, <2>4
      <4> DEFINE b == B[K]
                 z == B[N]
      <4>2. b < z /\ b \in Nat /\ z \in Nat /\ src[p] = b /\ Len(write) = z
        BY <1>2, <2>3, <3>4, <4>1
      <4> HIDE DEF b, z
      <4>3. b + 1 \in src[p] .. Len(write)
        BY <4>2
      <4>4. QED BY <4>3 DEF b
    <3>6. write[B[K] + 1].kind # "header"
      BY <1>5, <2>1, <3>1, <3>5 DEF Whole
    <3>7. QED BY <3>3, <3>6 DEF Header
  <2>5. CASE Line.kind # "note"
    <3>1. src[p] = B[K] + 1 /\ src[p] > src[p - 1]
      <4> DEFINE b == B[K]
                 a == src[p]
                 c == src[pos]
      <4>1. b \in Nat /\ a \in Nat /\ c = b /\ a > c /\ a <= c + 1
        BY <2>1, <2>3, <2>5
      <4> HIDE DEF a, b, c
      <4>2. a = b + 1 /\ a > c
        BY <4>1
      <4>3. QED BY <2>1, <4>2 DEF a, b, c
    <3>2. text[p].kind = "header"
      BY <1>1, <2>1, <2>3, <3>1, NextHeader
    <3>3. QED BY <1>7, <2>1, <3>2
  <2>6. QED BY <2>4, <2>5
<1>8. QED BY <1>6, <1>7 DEF EndParse

\* What Inside says of the hunk at work.
LEMMA InsideFacts ==
    ASSUME HunksLie, script \in Seq(EditSet), NEW src, NEW B, Comes(src, B),
           NEW j \in 1 .. Len(hunks), NEW c \in 0 .. Len(hunks[j].edits), NEW r, Inside(src, B, j, c, r)
    PROVE  /\ hunks[j] \in HunkSet /\ hunks[j].edits \in Seq(EditSet) /\ Len(hunks[j].edits) \in Nat
           /\ c \in Nat /\ c <= Len(hunks[j].edits) /\ r \in Seq(EditSet)
           /\ B[j - 1] \in Nat /\ B[j] = B[j - 1] + 1 + Len(hunks[j].edits)
           /\ src[pos] = B[j - 1] + 1 + c
           /\ ~Unread <=> c = Len(hunks[j].edits) /\ r = hunks[j].edits
           /\ ~Lost(src) => r = SubSeq(hunks[j].edits, 1, c)
           /\ Unread /\ ~Lost(src) => c < Len(hunks[j].edits)
<1> DEFINE h == hunks[j]
           E == h.edits
<1>1. /\ h \in HunkSet /\ E \in Seq(EditSet) /\ Len(E) \in Nat
      /\ h.oldLen = Len(OldSide(E)) /\ h.newLen = Len(NewSide(E))
  BY HunkIs
<1>2. c \in Nat /\ c <= Len(E)
  BY <1>1
<1>3. Lost(src) \in BOOLEAN /\ Has(r, E, c, Lost(src)) /\ open = Opened(h, r)
  BY DEF Inside, Lost
<1>4. r \in Seq(EditSet)
  <2> HIDE DEF h
  <2>1. c \in 0 .. Len(E)
    BY <1>1, <1>2
  <2> DEFINE lost == Lost(src)
  <2> HIDE DEF E, lost
  <2>2. lost \in BOOLEAN /\ Has(r, E, c, lost)
    BY <1>3 DEF lost
  <2>3. QED BY <1>1, <2>1, <2>2, HasMore
<1>5. ~Unread <=> c = Len(E) /\ r = E
  <2> DEFINE lost == Lost(src)
  <2>1. lost \in BOOLEAN /\ Has(r, h.edits, c, lost) /\ c \in 0 .. Len(h.edits)
    BY <1>1, <1>2, <1>3
  <2> HIDE DEF lost, h
  <2>2. LET full == /\ ~(Len(OldSide(Opened(h, r).edits)) < Opened(h, r).oldLen)
                    /\ ~(Len(NewSide(Opened(h, r).edits)) < Opened(h, r).newLen)
        IN  full <=> c = Len(h.edits) /\ r = h.edits
    BY <1>1, <1>4, <2>1, HasAll
  <2>3. QED BY <1>3, <2>2 DEF Unread
<1>6. ~Lost(src) => r = SubSeq(E, 1, c)
  BY <1>3 DEF Has
<1>7. Unread /\ ~Lost(src) => c < Len(E)
  <2>1. SUFFICES ASSUME Unread, ~Lost(src) PROVE c < Len(E)
    OBVIOUS
  <2>2. c # Len(E)
    <3>1. SUFFICES ASSUME c = Len(E) PROVE FALSE
      OBVIOUS
    <3>2. r = E
      BY <1>1, <1>6, <2>1, <3>1, WholePart
    <3>3. QED BY <1>5, <2>1, <3>1, <3>2
  <2>3. QED BY <1>1, <1>2, <2>2
<1>8. B[j - 1] \in Nat /\ B[j] = B[j - 1] + 1 + Len(E)
  <2>1. hunks \in Seq(HunkSet)
    BY DEF HunksLie
  <2>2. QED BY <2>1, ComesFacts
<1>9. src[pos] = B[j - 1] + 1 + c
  BY DEF Inside
<1>10. QED BY <1>1, <1>2, <1>4, <1>5, <1>6, <1>7, <1>8, <1>9

\* A hunk read to its end is in the list.
LEMMA CloseHunkSteps ==
    ASSUME HunksLie, script \in Seq(EditSet), NEW src, NEW B, ReaderAt(src, B), CloseHunk
    PROVE  ReaderAt(src, B)'
<1>1. /\ Comes(src, B) /\ Listed /\ pos \in 0 .. Len(text) /\ hunks # << >> /\ ~Outside(src, B)
  BY DEF ReaderAt, CloseHunk, Outside
<1>21. PICK j \in 1 .. Len(hunks) : \E c \in 0 .. Len(hunks[j].edits) : \E r : Inside(src, B, j, c, r)
  BY <1>1 DEF ReaderAt
<1>22. PICK c \in 0 .. Len(hunks[j].edits) : \E r : Inside(src, B, j, c, r)
  BY <1>21
<1>2. PICK r : Inside(src, B, j, c, r)
  BY <1>22
<1>3. /\ hunkList' = Append(hunkList, open) /\ open' = NoHunk /\ ~Unread
      /\ UNCHANGED <<diffVars, context, travelled, text>> /\ UNCHANGED travelled
      /\ UNCHANGED text /\ UNCHANGED pos
  BY DEF CloseHunk
<1>4. /\ hunks[j] \in HunkSet /\ c = Len(hunks[j].edits) /\ r = hunks[j].edits
      /\ src[pos] = B[j]
  <2>1. /\ hunks[j] \in HunkSet /\ B[j] = B[j - 1] + 1 + Len(hunks[j].edits)
        /\ src[pos] = B[j - 1] + 1 + c
    BY <1>1, <1>2, InsideFacts
  <2>2. ~Unread <=> c = Len(hunks[j].edits) /\ r = hunks[j].edits
    BY <1>1, <1>2, InsideFacts
  <2>3. QED BY <1>3, <2>1, <2>2
<1>5. open = AsRead(hunks[j]) /\ open \in HunkSet
  <2>1. open = Opened(hunks[j], r)
    BY <1>2 DEF Inside
  <2>2. Opened(hunks[j], hunks[j].edits) = AsRead(hunks[j]) /\ AsRead(hunks[j]) \in HunkSet
    BY <1>4, OpenedWhole
  <2>3. QED BY <1>4, <2>1, <2>2
<1> DEFINE K == Len(hunkList)
<1>6. /\ hunkList \in Seq(HunkSet) /\ K \in Nat
      /\ \A i \in 1 .. K : \E g \in 1 .. Len(hunks) :
           hunkList[i] = AsRead(hunks[g]) /\ (travelled # "damaged" => i = g)
  BY <1>1 DEF Listed
<1> DEFINE l == hunkList'
<1>7. /\ l \in Seq(HunkSet) /\ Len(l) = K + 1 /\ l[K + 1] = open
      /\ \A i \in 1 .. K : l[i] = hunkList[i]
  BY <1>3, <1>5, <1>6, AppendProperties
<1> HIDE DEF l
<1>8. travelled # "damaged" => j = K + 1
  BY <1>2 DEF Inside
<1>9. /\ hunks' = hunks /\ Comes(src, B)'
  BY <1>1, <1>3, ReadFrame, SMTT(30)
<1>10. Listed'
  <2>1. ASSUME NEW i \in 1 .. K + 1
        PROVE  \E g \in 1 .. Len(hunks) : l[i] = AsRead(hunks[g]) /\ (travelled # "damaged" => i = g)
    <3>1. CASE i = K + 1
      BY <1>5, <1>7, <1>8, <3>1
    <3>2. CASE i # K + 1
      <4>1. i \in 1 .. K
        BY <1>6, <3>2
      <4>2. QED BY <1>6, <1>7, <4>1
    <3>3. QED BY <3>1, <3>2
  <2>2. \A i \in 1 .. Len(l) : \E g \in 1 .. Len(hunks) :
          l[i] = AsRead(hunks[g]) /\ (travelled # "damaged" => i = g)
    BY <1>7, <2>1
  <2>3. \A i \in 1 .. Len(hunkList') : \E g \in 1 .. Len(hunks') :
          hunkList'[i] = AsRead(hunks'[g]) /\ (travelled' # "damaged" => i = g)
    BY <1>3, <1>9, <2>2 DEF l
  <2>4. hunkList' \in Seq(HunkSet)
    BY <1>7 DEF l
  <2>5. QED BY <2>3, <2>4, Zenon DEF Listed, AsRead
<1>11. Outside(src, B)'
  <2>1. l # << >>
    BY <1>6, <1>7
  <2>2. travelled # "damaged" => src[pos] = B[Len(l)]
    BY <1>4, <1>7, <1>8
  <2>3. QED BY <1>3, <2>1, <2>2 DEF Outside, l
<1>12. QED BY <1>1, <1>3, <1>9, <1>10, <1>11 DEF ReaderAt

\* Of a diff that is not damaged no hunk is cut short.
LEMMA NeverTruncated ==
    ASSUME HunksLie, script \in Seq(EditSet), NEW src, NEW B, ReaderAt(src, B),
           travelled # "damaged"
    PROVE  ~Truncated /\ ~BadLine
<1>1. SUFFICES ASSUME open # NoHunk, Unread, AtEOF \/ (~AtEOF /\ Line.kind = "header") PROVE FALSE
  BY DEF Truncated, BadLine
<1>2. /\ Comes(src, B) /\ pos \in 0 .. Len(text) /\ ~Outside(src, B)
  BY <1>1 DEF ReaderAt, Outside
<1>21. PICK j \in 1 .. Len(hunks) : \E c \in 0 .. Len(hunks[j].edits) : \E r : Inside(src, B, j, c, r)
  BY <1>2 DEF ReaderAt
<1>3. PICK c \in 0 .. Len(hunks[j].edits) : \E r : Inside(src, B, j, c, r)
  BY <1>21
<1>31. PICK r : Inside(src, B, j, c, r)
  BY <1>3
<1> DEFINE N == Len(hunks)
           E == hunks[j].edits
           L == Len(E)
           b == B[j - 1]
           a == src[pos]
<1>4. ~Lost(src)
  BY DEF Lost
<1>5. c < L /\ c \in Nat /\ L \in Nat /\ b \in Nat /\ B[j] = b + 1 + L /\ a = b + 1 + c /\ E \in Seq(EditSet)
  BY <1>1, <1>2, <1>31, <1>4, InsideFacts
<1>6. hunks \in Seq(HunkSet)
  BY DEF HunksLie
<1>7. /\ write \in Seq(LineSet) /\ Len(write) = B[N] /\ N \in Nat
      /\ \A i \in 0 .. N : B[i] \in Nat
      /\ \A i, g \in 0 .. N : i < g => B[i] < B[g]
  BY <1>2, <1>6, ComesFacts
<1>8. Whole(src, text, write) /\ Carried(src, text, write) /\ LaidOut(hunks, B, write, N)
  BY <1>2 DEF Comes
<1>9. CASE AtEOF
  <2> DEFINE z == B[N]
             u == B[j]
  <2>1. a = z
    BY <1>7, <1>8, <1>9 DEF AtEOF, Whole
  <2>2. u = z \/ u < z
    <3>1. j \in 0 .. N /\ N \in 0 .. N /\ (j = N \/ j < N)
      BY <1>7
    <3>2. QED BY <1>7, <3>1
  <2>3. u \in Nat /\ z \in Nat
    <3>1. j \in 0 .. N /\ N \in 0 .. N
      BY <1>7
    <3>2. QED BY <1>7, <3>1
  <2>4. u = b + 1 + L
    BY <1>5
  <2> HIDE DEF z, u, a, b, L
  <2>5. QED BY <1>5, <2>1, <2>2, <2>3, <2>4
<1>10. CASE ~AtEOF /\ Line.kind = "header"
  <2> DEFINE p == pos + 1
             z == src[p]
  <2>1. /\ p \in 1 .. Len(text) /\ p - 1 = pos /\ Line = text[p]
        /\ z \in Nat /\ z > a /\ z \in 1 .. Len(write) /\ z <= a + 1
    BY <1>2, <1>6, <1>10, NextLine
  <2>2. Line = write[z]
    <3> HIDE DEF p
    <3>1. text[p].kind = "header" /\ write \in Seq(LineSet)
      BY <1>7, <1>10, <2>1
    <3>2. text[p] = write[src[p]]
      BY <1>8, <2>1, <3>1, Arrives
    <3>3. QED BY <2>1, <3>2
  <2> DEFINE q == c + 1
  <2>3. z = b + 1 + q /\ q \in 1 .. L
    <3> HIDE DEF z, a, b, L
    <3>1. QED BY <1>5, <2>1
  <2>4. write[z] = E[q]
    <3> HIDE DEF q, z
    <3>1. write[B[j - 1] + 1 + q] = hunks[j].edits[q]
      BY <1>8, <2>3 DEF LaidOut
    <3>2. QED BY <2>3, <3>1
  <2> HIDE DEF q, z, E
  <2>5. E[q] \in EditSet
    BY <1>5, <2>3
  <2>6. E[q].kind # "header"
    BY <2>5, EditsAre
  <2>7. QED BY <1>10, <2>2, <2>4, <2>6
<1>11. QED BY <1>1, <1>9, <1>10

\* The edit read from a line of the body is what the reader makes of the one
\* written there.
LEMMA EditArrives ==
    ASSUME hunks \in Seq(HunkSet), NEW src, NEW B, Comes(src, B), pos \in 0 .. Len(text), ~AtEOF,
           Line.kind \in {"keep", "delete", "insert", "blank"}
    PROVE  /\ write[src[pos + 1]] \in EditSet
           /\ Line.kind = "blank" => Keep(EmptyLine) = AsEdit(write[src[pos + 1]])
           /\ Line.kind # "blank" =>
                [kind |-> Line.kind, line |-> Chomp[Line.line]] = AsEdit(write[src[pos + 1]])
<1> DEFINE p == pos + 1
           z == src[p]
<1>1. p \in 1 .. Len(text) /\ Line = text[p] /\ (Line.kind # "note" => z \in 1 .. Len(write))
  BY NextLine
<1>2. Carried(src, text, write) /\ write \in Seq(LineSet)
  BY ComesFacts DEF Comes
<1> HIDE DEF p
<1>3. CASE Line.kind = "blank"
  <2>1. write[z] = Keep(EmptyLine)
    BY <1>1, <1>2, <1>3, Arrives
  <2>2. Keep(EmptyLine) \in EditSet /\ Keep(EmptyLine).kind = "keep" /\ Keep(EmptyLine).line = EmptyLine
    BY EditsAre, PatchAssumption
  <2>3. AsEdit(Keep(EmptyLine)) = Keep(EmptyLine)
    <3>1. Chomp[EmptyLine] = EmptyLine
      BY PatchAssumption
    <3>2. QED BY <3>1 DEF AsEdit, Keep
  <2>4. QED BY <1>3, <2>1, <2>2, <2>3 DEF p
<1>4. CASE Line.kind # "blank"
  <2>1. Line = write[z]
    BY <1>1, <1>2, <1>4, Arrives
  <2>2. z \in 1 .. Len(write)
    BY <1>1, <1>4
  <2> HIDE DEF z
  <2>3. write[z] \in LineSet
    BY <1>2, <2>2
  <2>4. write[z].kind \notin {"name", "header"}
    BY <1>4, <2>1
  <2>5. write[z] \in EditSet
    BY <2>3, <2>4 DEF LineSet, HeaderSet, Name
  <2>6. QED BY <1>4, <2>1, <2>5 DEF AsEdit, z, p
<1>5. QED BY <1>3, <1>4

\* One edit more is in the hunk.
LEMMA OpenedGrows ==
    ASSUME NEW h \in HunkSet, NEW r \in Seq(EditSet), NEW e \in EditSet, NEW o, o = Opened(h, r)
    PROVE  [o EXCEPT !.edits = Append(@, AsEdit(e))] = Opened(h, Append(r, e))
<1>1. Append(AsEdits(r), AsEdit(e)) = AsEdits(Append(r, e))
  BY AsEditsAppend
<1> DEFINE a1 == IF h.oldLen = 0 THEN 0 ELSE h.oldStart
           a2 == h.oldLen
           a3 == IF h.newLen = 0 THEN 0 ELSE h.newStart
           a4 == h.newLen
           a5 == AsEdits(r)
           b5 == AsEdits(Append(r, e))
<1>2. /\ o = [oldStart |-> a1, oldLen |-> a2, newStart |-> a3, newLen |-> a4, edits |-> a5]
      /\ Opened(h, Append(r, e)) =
           [oldStart |-> a1, oldLen |-> a2, newStart |-> a3, newLen |-> a4, edits |-> b5]
  BY DEF Opened
<1>3. Append(a5, AsEdit(e)) = b5
  BY <1>1
<1> HIDE DEF a1, a2, a3, a4, a5, b5
<1>4. [o EXCEPT !.edits = Append(@, AsEdit(e))] = [o EXCEPT !.edits = b5]
  <2>1. o.edits = a5
    BY <1>2
  <2>2. Append(o.edits, AsEdit(e)) = b5
    BY <1>3, <2>1
  <2>3. QED BY <2>2
<1>5. [o EXCEPT !.edits = b5] =
        [oldStart |-> a1, oldLen |-> a2, newStart |-> a3, newLen |-> a4, edits |-> b5]
  BY <1>2
<1>6. QED BY <1>2, <1>4, <1>5

\* A line of the body takes the reader further in its hunk, in a damaged diff
\* maybe by two.
LEMMA BodyGrows ==
    ASSUME HunksLie, script \in Seq(EditSet), NEW src, NEW B, Comes(src, B), pos \in 0 .. Len(text),
           NEW j \in 1 .. Len(hunks), NEW c \in 0 .. Len(hunks[j].edits), NEW r, Inside(src, B, j, c, r),
           Unread, ~AtEOF, Line.kind \in {"keep", "delete", "insert", "blank"}
    PROVE  \E q \in 0 .. Len(hunks[j].edits) :
             /\ src[pos + 1] = B[j - 1] + 1 + q
             /\ Has(Append(r, write[src[pos + 1]]), hunks[j].edits, q,
                    travelled = "damaged" /\ src[pos + 1] = (pos + 1) + 1)
<1> DEFINE p == pos + 1
           E == hunks[j].edits
           L == Len(E)
           b == B[j - 1]
           a == src[pos]
           z == src[p]
           N == Len(hunks)
<1>1. hunks \in Seq(HunkSet)
  BY DEF HunksLie
<1>2. /\ E \in Seq(EditSet) /\ L \in Nat /\ c \in Nat /\ c <= L /\ r \in Seq(EditSet)
      /\ b \in Nat /\ B[j] = b + 1 + L /\ a = b + 1 + c
      /\ ~Lost(src) => r = SubSeq(E, 1, c)
      /\ ~Lost(src) => c < L
  BY InsideFacts
<1>3. /\ p \in 1 .. Len(text) /\ p - 1 = pos /\ Line = text[p] /\ pos \in Nat
      /\ z \in Nat /\ z > a /\ z \in 1 .. Len(write)
  BY <1>1, NextLine
<1>4. Carried(src, text, write) /\ LaidOut(hunks, B, write, N) /\ write \in Seq(LineSet)
  BY <1>1, ComesFacts DEF Comes
<1>5. z # B[j] + 1
  <2>1. SUFFICES ASSUME z = B[j] + 1 PROVE FALSE
    OBVIOUS
  <2>2. j \in 0 .. N /\ src[p] > src[p - 1]
    <3>1. N \in Nat
      BY <1>1, ComesFacts
    <3>2. QED BY <1>3, <3>1
  <2> HIDE DEF p
  <2>3. text[p].kind = "header"
    BY <1>1, <1>3, <2>1, <2>2, NextHeader
  <2>4. QED BY <1>3, <2>3
<1>6. ASSUME NEW q \in 1 .. L, z = b + 1 + q PROVE write[z] = E[q]
  <2> HIDE DEF z
  <2>1. write[B[j - 1] + 1 + q] = hunks[j].edits[q]
    BY <1>4 DEF LaidOut
  <2>2. QED BY <1>6, <2>1
<1> DEFINE lost == Lost(src)
<1>7. lost \in BOOLEAN /\ Has(r, E, c, lost) /\ c \in 0 .. L /\ (lost <=> travelled = "damaged" /\ a = p)
  BY DEF Inside, Lost
<1>8. \/ z <= a + 1 /\ (lost => z = p + 1)
      \/ travelled = "damaged" /\ ~lost /\ z = p + 1 /\ z = a + 2
  <2>1. CASE travelled # "damaged"
    <3>1. z <= a + 1
      BY <1>1, <2>1, NextLine
    <3>2. QED BY <1>7, <2>1, <3>1
  <2>2. CASE travelled = "damaged"
    <3>1. OneLost(src, text)
      BY <2>2 DEF Comes
    <3> HIDE DEF p
    <3>2. /\ z <= src[p - 1] + 1 \/ (src[p - 1] = p - 1 /\ z = p + 1)
          /\ src[p - 1] = p /\ z <= src[p - 1] + 1 => z = p + 1
      BY <1>3, <1>4, <3>1, Strides
    <3>3. src[p - 1] = a /\ p \in Nat
      BY <1>3
    <3> HIDE DEF a, z
    <3>4. z <= a + 1 \/ (a = p - 1 /\ z = p + 1)
      BY <3>2, <3>3
    <3>5. a = p /\ z <= a + 1 => z = p + 1
      BY <3>2, <3>3
    <3>6. a = p - 1 => a # p /\ a + 2 = p + 1
      BY <3>3
    <3>7. QED BY <1>7, <2>2, <3>4, <3>5, <3>6
  <2>3. QED BY <2>1, <2>2
<1> DEFINE after == travelled = "damaged" /\ z = p + 1
<1> SUFFICES \E q \in 0 .. L : z = b + 1 + q /\ Has(Append(r, write[z]), E, q, after)
  OBVIOUS
<1> HIDE DEF p, E, L, b, a, z, lost
<1>9. /\ c < L => Has(Append(r, E[c + 1]), E, c + 1, lost)
      /\ ~lost /\ c + 1 < L => Has(Append(r, E[c + 2]), E, c + 2, TRUE)
  BY <1>2, <1>7, HasMore DEF L
<1>10. CASE z <= a + 1 /\ (lost => z = p + 1)
  <2>1. z = b + 1 + (c + 1) /\ c < L
    <3>1. z = a + 1
      BY <1>2, <1>3, <1>10
    <3>2. c # L
      <4>1. SUFFICES ASSUME c = L PROVE FALSE
        OBVIOUS
      <4>2. z = B[j] + 1
        BY <1>2, <3>1, <4>1
      <4>3. QED BY <1>5, <4>2
    <3>3. QED BY <1>2, <3>1, <3>2
  <2>2. c + 1 \in 1 .. L /\ c + 1 \in 0 .. L
    BY <1>2, <2>1
  <2>3. write[z] = E[c + 1]
    BY <1>6, <2>1, <2>2
  <2>4. Has(Append(r, write[z]), E, c + 1, lost)
    BY <1>9, <2>1, <2>3
  <2>5. lost => after
    BY <1>7, <1>10
  <2>6. Has(Append(r, write[z]), E, c + 1, after)
    BY <2>4, <2>5 DEF Has
  <2>7. QED BY <2>1, <2>2, <2>6
<1>11. CASE travelled = "damaged" /\ ~lost /\ z = p + 1 /\ z = a + 2
  <2>1. c < L
    BY <1>2, <1>11 DEF lost
  <2>2. c + 1 # L
    <3>1. SUFFICES ASSUME c + 1 = L PROVE FALSE
      OBVIOUS
    <3>2. z = B[j] + 1
      BY <1>2, <1>11, <3>1, SMTT(30)
    <3>3. QED BY <1>5, <3>2
  <2>3. c + 1 < L /\ c + 2 \in 1 .. L /\ c + 2 \in 0 .. L /\ z = b + 1 + (c + 2)
    <3>1. c \in Nat /\ L \in Nat /\ b \in Nat /\ a = b + 1 + c /\ z = a + 2
      BY <1>2, <1>11
    <3>2. c + 1 < L
      BY <2>1, <2>2, <3>1
    <3>3. c + 2 \in 1 .. L /\ c + 2 \in 0 .. L
      BY <3>1, <3>2
    <3>4. z = b + 1 + (c + 2)
      BY ONLY <3>1
    <3>5. QED BY <3>2, <3>3, <3>4
  <2>4. write[z] = E[c + 2]
    BY <1>6, <2>3
  <2>5. Has(Append(r, write[z]), E, c + 2, TRUE)
    BY <1>9, <1>11, <2>3, <2>4
  <2>6. after
    BY <1>11
  <2>7. Has(Append(r, write[z]), E, c + 2, after)
    BY <2>5, <2>6 DEF Has
  <2>8. QED BY <2>3, <2>7
<1>12. QED BY <1>8, <1>10, <1>11

\* A line of the body leaves the reader in its hunk.
LEMMA ReadBodySteps ==
    ASSUME HunksLie, script \in Seq(EditSet), NEW src, NEW B, ReaderAt(src, B), ReadBody
    PROVE  ReaderAt(src, B)'
<1>1. /\ Comes(src, B) /\ Listed /\ pos \in 0 .. Len(text) /\ hunks # << >> /\ ~Outside(src, B)
      /\ open # NoHunk /\ Unread /\ ~AtEOF
  BY DEF ReaderAt, ReadBody, Outside
<1>21. PICK j \in 1 .. Len(hunks) : \E c \in 0 .. Len(hunks[j].edits) : \E r : Inside(src, B, j, c, r)
  BY <1>1 DEF ReaderAt
<1>22. PICK c \in 0 .. Len(hunks[j].edits) : \E r : Inside(src, B, j, c, r)
  BY <1>21
<1>2. PICK r : Inside(src, B, j, c, r)
  BY <1>22
<1>3. hunks \in Seq(HunkSet)
  BY DEF HunksLie
<1>4. /\ pos' = pos + 1
      /\ UNCHANGED <<diffVars, context, travelled, text>> /\ UNCHANGED hunkList /\ UNCHANGED travelled
      /\ UNCHANGED text
  BY DEF ReadBody, ReadEdit, ReadOn
<1>5. hunks' = hunks /\ Comes(src, B)' /\ Listed'
  BY <1>1, <1>4, ReadFrame
<1>6. pos' \in 0 .. Len(text')
  BY <1>1, <1>3, <1>4, NextLine
<1>7. /\ hunks[j] \in HunkSet /\ hunks[j].edits \in Seq(EditSet) /\ r \in Seq(EditSet)
      /\ open = Opened(hunks[j], r)
  BY <1>1, <1>2, InsideFacts DEF Inside
<1>8. CASE Line.kind = "note"
  <2>1. open' = open
    BY <1>8 DEF ReadBody, ReadEdit, ReadOn
  <2>2. src[pos + 1] = src[pos]
    BY <1>1, <1>3, <1>8, NextLine
  <2>3. travelled # "damaged"
    <3>1. SUFFICES ASSUME travelled = "damaged" PROVE FALSE
      OBVIOUS
    <3>2. OneLost(src, text)
      BY <1>1, <3>1 DEF Comes
    <3>3. pos + 1 \in 1 .. Len(text) /\ Line = text[pos + 1]
      BY <1>1, <1>3, NextLine
    <3>4. Carried(src, text, write) /\ write \in Seq(LineSet)
      BY <1>1, <1>3, ComesFacts DEF Comes
    <3>5. text[pos + 1] = Note
      BY <1>8, <3>3, <3>4, Arrives
    <3>6. QED BY <3>2, <3>3, <3>5 DEF OneLost
  <2>4. Has(r, hunks[j].edits, c, Lost(src)')
    BY <1>2, <2>3 DEF Inside, Has, Lost
  <2>5. Inside(src, B, j, c, r)'
    BY <1>2, <1>4, <1>5, <2>1, <2>2, <2>4 DEF Inside, Opened
  <2>6. QED BY <1>1, <1>5, <1>6, <2>5 DEF ReaderAt
<1>9. CASE Line.kind \in {"keep", "delete", "insert", "blank"}
  <2>0. PICK e : e = write[src[pos + 1]]
    OBVIOUS
  <2>1. /\ e \in EditSet
        /\ Line.kind = "blank" => Keep(EmptyLine) = AsEdit(e)
        /\ Line.kind # "blank" => [kind |-> Line.kind, line |-> Chomp[Line.line]] = AsEdit(e)
    BY <1>1, <1>3, <1>9, <2>0, EditArrives
  <2>2. PICK q \in 0 .. Len(hunks[j].edits) :
          /\ src[pos + 1] = B[j - 1] + 1 + q
          /\ Has(Append(r, e), hunks[j].edits, q, travelled = "damaged" /\ src[pos + 1] = (pos + 1) + 1)
    BY <1>1, <1>2, <1>9, <2>0, BodyGrows
  <2>3. open' = [open EXCEPT !.edits = Append(@, AsEdit(e))]
    BY <1>9, <2>1 DEF ReadBody, ReadEdit, ReadOn
  <2>4. open' = Opened(hunks[j], Append(r, e))
    BY <1>7, <2>1, <2>3, OpenedGrows
  <2>5. Has(Append(r, e), hunks[j].edits, q, Lost(src)')
    BY <1>4, <2>2 DEF Lost
  <2>6. Inside(src, B, j, q, Append(r, e))'
    BY <1>2, <1>4, <1>5, <2>2, <2>4, <2>5 DEF Inside, Opened
  <2>7. QED BY <1>1, <1>5, <1>6, <2>6 DEF ReaderAt
<1>10. QED BY <1>8, <1>9 DEF ReadBody

-----------------------------------------------------------------------------
(* The invariant of reading *)

\* What the reader has, if anything was written.
Reader ==
    \/ hunks = << >> /\ text = << >> /\ pos = 0 /\ open = NoHunk /\ hunkList = << >> /\ travelled = "intact"
    \/ \E src, B : ReaderAt(src, B)

\* What there is to apply: the hunks themselves, or what was read of them.
Held ==
    /\ hunkList \in Seq(HunkSet)
    /\ travelled = "direct" => hunkList = hunks
    /\ travelled \in {"intact", "mailed"} =>
         /\ Len(hunkList) = Len(hunks)
         /\ \A i \in 1 .. Len(hunkList) : hunkList[i] = AsRead(hunks[i])
    /\ travelled = "damaged" =>
         \A i \in 1 .. Len(hunkList) : \E j \in 1 .. Len(hunks) : hunkList[i] = AsRead(hunks[j])

\* Nothing has been read or applied yet.
Fresh == hunk = 1 /\ edit = 0 /\ cursor = 0 /\ out = << >>

Stages ==
    /\ stage \in {"diff", "read", "apply", "applied", "refused"}
    /\ travelled \in {"direct", "intact", "mailed", "damaged"}
    /\ context \in Contexts
    /\ stage # "diff" => Diffed
    /\ stage \in {"diff", "read"} => Fresh
    /\ stage = "diff" => text = << >> /\ pos = 0 /\ open = NoHunk /\ hunkList = << >> /\ travelled = "direct"
    /\ stage = "read" => Reader /\ travelled # "direct"
    /\ stage \in {"apply", "applied", "refused"} => Held
    /\ stage \in {"apply", "applied"} \/ travelled # "damaged" => stage = "read" \/ open = NoHunk

\* The hunks of a script are hunks.
LEMMA StagesHunks ==
    ASSUME Stages, Regions
    PROVE  HunksLie /\ script \in Seq(EditSet) /\ context \in Nat /\ hunks \in Seq(HunkSet)
<1>1. script \in Seq(EditSet) /\ context \in Nat
  BY PatchAssumption DEF Stages, Regions
<1>2. HunksLie
  BY <1>1, HunksAre
<1>3. QED BY <1>1, <1>2 DEF HunksLie

\* A diff that is sent can be read from its beginning.
LEMMA SendSteps ==
    ASSUME Stages, Regions, Send
    PROVE  Stages'
<1>1. /\ stage = "diff" /\ Diffed /\ stage' = "read" /\ pos' = 0
      /\ \/ text' = write /\ travelled' = "intact"
         \/ text' \in Mailed(write) /\ travelled' = "mailed"
         \/ text' \in Damaged(write) /\ travelled' = "damaged"
      /\ UNCHANGED <<diffVars, context>> /\ UNCHANGED context /\ UNCHANGED open /\ UNCHANGED hunkList
      /\ UNCHANGED <<hunk, edit, cursor, out>>
  BY DEF Send
<1>2. /\ context \in Contexts /\ Fresh /\ open = NoHunk /\ hunkList = << >>
  BY <1>1 DEF Stages
<1>3. hunks' = hunks /\ write' = write /\ Diffed'
  BY <1>1, DiffStays
<1>4. hunks \in Seq(HunkSet)
  BY StagesHunks
<1>5. ASSUME hunks = << >> PROVE Reader'
  <2>1. write = << >>
    BY <1>5 DEF write
  <2>2. Mailed(<< >>) = {} /\ Damaged(<< >>) = {}
    BY DEF Mailed, Damaged
  <2>3. text' = << >> /\ travelled' = "intact"
    BY <1>1, <2>1, <2>2
  <2>4. QED BY <1>1, <1>2, <1>3, <1>5, <2>3 DEF Reader
<1>6. ASSUME hunks # << >> PROVE Reader'
  <2>1. PICK B : Offsets(hunks, B) /\ LaidOut(hunks, B, write, Len(hunks))
    BY <1>4, <1>6, WriteIs
  <2>2. write \in Seq(LineSet)
    BY <2>1 DEF LaidOut
  <2>3. \E src : /\ Carried(src, text', write)
                 /\ IF travelled' = "damaged" THEN OneLost(src, text') ELSE Whole(src, text', write)
    <3>1. CASE text' = write /\ travelled' = "intact"
      <4>1. \E src : Carried(src, write, write) /\ Whole(src, write, write)
        BY <2>2, IntactArrives
      <4>2. QED BY <3>1, <4>1
    <3>2. CASE text' \in Mailed(write) /\ travelled' = "mailed"
      <4>1. \E src : Carried(src, text', write) /\ Whole(src, text', write)
        BY <2>2, <3>2, MailedArrives
      <4>2. QED BY <3>2, <4>1
    <3>3. CASE text' \in Damaged(write) /\ travelled' = "damaged"
      <4>1. \E src : Carried(src, text', write) /\ OneLost(src, text')
        BY <2>2, <3>3, DamagedArrives
      <4>2. QED BY <3>3, <4>1
    <3>4. QED BY <1>1, <3>1, <3>2, <3>3
  <2>4. PICK src : /\ Carried(src, text', write)
                   /\ IF travelled' = "damaged" THEN OneLost(src, text') ELSE Whole(src, text', write)
    BY <2>3
  <2>5. Comes(src, B)'
    BY <1>3, <2>1, <2>4 DEF Comes
  <2>6. src[0] = 0 /\ Len(text') \in Nat
    BY <2>4 DEF Carried
  <2>7. Outside(src, B)'
    BY <1>1, <1>2, <2>6 DEF Outside
  <2>8. Listed'
    <3>1. hunkList' = << >> /\ Len(<< >>) = 0
      BY <1>1, <1>2
    <3>2. QED BY <3>1 DEF Listed
  <2>9. pos' \in 0 .. Len(text')
    BY <1>1, <2>6
  <2>10. ReaderAt(src, B)'
    BY <1>3, <1>6, <2>5, <2>7, <2>8, <2>9 DEF ReaderAt
  <2>11. QED BY <2>10 DEF Reader
<1>7. Reader'
  BY <1>5, <1>6
<1>8. travelled' \in {"intact", "mailed", "damaged"}
  BY <1>1
<1>9. Fresh'
  BY <1>1, <1>2 DEF Fresh
<1>10. QED BY <1>1, <1>2, <1>3, <1>7, <1>8, <1>9 DEF Stages

\* What is held stays while the hunks do.
LEMMA HeldStays ==
    ASSUME Held, UNCHANGED <<diffVars, context, travelled, hunkList>>
    PROVE  Held'
<1>1. hunks' = hunks
  BY DiffStays
<1>2. UNCHANGED hunkList /\ UNCHANGED travelled
  OBVIOUS
<1>3. QED BY <1>1, <1>2 DEF Held

\* Hunks that are applied as they are.
LEMMA DirectSteps ==
    ASSUME Stages, Regions, ApplyDirectly
    PROVE  Stages'
<1>1. /\ stage = "diff" /\ Diffed /\ hunkList' = hunks /\ stage' = "apply"
      /\ UNCHANGED <<diffVars, context>> /\ UNCHANGED context /\ UNCHANGED open /\ UNCHANGED travelled
  BY DEF ApplyDirectly
<1>2. /\ context \in Contexts /\ open = NoHunk /\ travelled = "direct"
  BY <1>1 DEF Stages
<1>3. hunks' = hunks /\ Diffed'
  BY <1>1, DiffStays
<1>4. hunks \in Seq(HunkSet)
  BY StagesHunks
<1>5. Held'
  BY <1>1, <1>2, <1>3, <1>4 DEF Held
<1>6. QED BY <1>1, <1>2, <1>3, <1>5 DEF Stages

\* What the reader has at the end of a diff is there to apply.
LEMMA ReadingEnds ==
    ASSUME Stages, Regions, EndParse
    PROVE  Held'
<1>1. /\ stage = "read" /\ open = NoHunk /\ UNCHANGED <<diffVars, context, travelled, hunkList>>
  BY DEF EndParse, Reading
<1>2. /\ hunks \in Seq(HunkSet) /\ HunksLie /\ script \in Seq(EditSet)
  BY StagesHunks
<1>3. Reader /\ travelled # "direct"
  BY <1>1 DEF Stages
<1>4. SUFFICES Held
  BY <1>1, HeldStays
<1>5. CASE hunks = << >> /\ hunkList = << >> /\ travelled = "intact"
  <2>1. Len(hunkList) = 0 /\ Len(hunks) = 0 /\ hunkList \in Seq(HunkSet)
    BY <1>5
  <2>2. QED BY <1>5, <2>1 DEF Held
<1>6. CASE \E src, B : ReaderAt(src, B)
  <2>1. PICK src, B : ReaderAt(src, B)
    BY <1>6
  <2>2. Outside(src, B)
    <3>1. SUFFICES ASSUME ~Outside(src, B) PROVE FALSE
      OBVIOUS
    <3>2. PICK j \in 1 .. Len(hunks) : \E c \in 0 .. Len(hunks[j].edits) : \E r : Inside(src, B, j, c, r)
      BY <2>1, <3>1 DEF ReaderAt
    <3>3. PICK c \in 0 .. Len(hunks[j].edits) : \E r : Inside(src, B, j, c, r)
      BY <3>2
    <3>4. PICK r : Inside(src, B, j, c, r)
      BY <3>3
    <3>5. Comes(src, B)
      BY <2>1 DEF ReaderAt
    <3>6. hunks[j] \in HunkSet /\ r \in Seq(EditSet)
      BY <1>2, <3>4, <3>5, InsideFacts
    <3>7. open # NoHunk
      BY <3>4, <3>6, OpenedTyped DEF Inside
    <3>8. QED BY <1>1, <3>7
  <2>3. Listed
    BY <2>1 DEF ReaderAt
  <2>4. travelled # "damaged" => Len(hunkList) = Len(hunks)
    BY <1>2, <2>1, <2>2, EndParseSteps
  <2>5. travelled # "damaged" => \A i \in 1 .. Len(hunkList) : hunkList[i] = AsRead(hunks[i])
    BY <2>3 DEF Listed
  <2>6. \A i \in 1 .. Len(hunkList) : \E j \in 1 .. Len(hunks) : hunkList[i] = AsRead(hunks[j])
    BY <2>3 DEF Listed
  <2>7. hunkList \in Seq(HunkSet)
    BY <2>3 DEF Listed
  <2>8. QED BY <1>3, <2>4, <2>5, <2>6, <2>7 DEF Held
<1>7. QED BY <1>3, <1>5, <1>6 DEF Reader

\* Reading on, the reader stays a reader.
LEMMA ReaderStays ==
    ASSUME Stages, Regions, Commentary \/ ReadHeader \/ ReadBody \/ CloseHunk
    PROVE  Reader'
<1>1. stage = "read"
  BY DEF Commentary, ReadHeader, ReadBody, CloseHunk, Reading
<1>2. /\ hunks \in Seq(HunkSet) /\ HunksLie /\ script \in Seq(EditSet)
  BY StagesHunks
<1>3. Reader
  BY <1>1 DEF Stages
<1>4. ~(text = << >> /\ pos = 0 /\ open = NoHunk)
  <2>1. SUFFICES ASSUME text = << >>, pos = 0, open = NoHunk PROVE FALSE
    OBVIOUS
  <2>2. AtEOF
    BY <2>1 DEF AtEOF
  <2>3. QED BY <2>1, <2>2 DEF Commentary, ReadHeader, ReadBody, CloseHunk
<1>5. PICK src, B : ReaderAt(src, B)
  BY <1>3, <1>4 DEF Reader
<1>6. ASSUME open = NoHunk PROVE Outside(src, B)
  <2>1. SUFFICES ASSUME ~Outside(src, B) PROVE FALSE
    OBVIOUS
  <2>2. PICK j \in 1 .. Len(hunks) : \E c \in 0 .. Len(hunks[j].edits) : \E r : Inside(src, B, j, c, r)
    BY <1>5, <2>1 DEF ReaderAt
  <2>3. PICK c \in 0 .. Len(hunks[j].edits) : \E r : Inside(src, B, j, c, r)
    BY <2>2
  <2>4. PICK r : Inside(src, B, j, c, r)
    BY <2>3
  <2>5. Comes(src, B)
    BY <1>5 DEF ReaderAt
  <2>6. hunks[j] \in HunkSet /\ r \in Seq(EditSet)
    BY <1>2, <2>4, <2>5, InsideFacts
  <2>7. open # NoHunk
    BY <2>4, <2>6, OpenedTyped DEF Inside
  <2>8. QED BY <1>6, <2>7
<1>7. ReaderAt(src, B)'
  <2>1. CASE Commentary
    <3>1. Outside(src, B)
      BY <1>6, <2>1 DEF Commentary
    <3>2. QED BY <1>2, <1>5, <2>1, <3>1, CommentarySteps
  <2>2. CASE ReadHeader
    <3>1. Outside(src, B)
      BY <1>6, <2>2 DEF ReadHeader
    <3>2. QED BY <1>2, <1>5, <2>2, <3>1, ReadHeaderSteps
  <2>3. CASE ReadBody
    BY <1>2, <1>5, <2>3, ReadBodySteps
  <2>4. CASE CloseHunk
    BY <1>2, <1>5, <2>4, CloseHunkSteps
  <2>5. QED BY <2>1, <2>2, <2>3, <2>4
<1>8. QED BY <1>7 DEF Reader

\* The reader refuses only a damaged diff, and has its hunks from it.
LEMMA ReadingRefused ==
    ASSUME Stages, Regions, Truncated \/ BadLine
    PROVE  Held' /\ travelled = "damaged"
<1>1. /\ stage = "read" /\ open # NoHunk /\ UNCHANGED <<diffVars, context, travelled, hunkList>>
  BY DEF Truncated, BadLine, Reading
<1>2. /\ hunks \in Seq(HunkSet) /\ HunksLie /\ script \in Seq(EditSet)
  BY StagesHunks
<1>3. Reader /\ travelled # "direct"
  BY <1>1 DEF Stages
<1>4. PICK src, B : ReaderAt(src, B)
  BY <1>1, <1>3 DEF Reader
<1>5. travelled = "damaged"
  BY <1>2, <1>4, NeverTruncated
<1>6. Listed
  BY <1>4 DEF ReaderAt
<1>7. Held
  BY <1>5, <1>6 DEF Listed, Held
<1>8. QED BY <1>1, <1>5, <1>7, HeldStays

\* What a step of the reader leaves to the stages.
LEMMA ParseSteps ==
    ASSUME Stages, Regions, Parse
    PROVE  Stages'
<1>1. /\ stage = "read" /\ UNCHANGED context /\ UNCHANGED travelled /\ UNCHANGED <<diffVars, context>>
      /\ UNCHANGED <<hunk, edit, cursor, out>>
  BY DEF Parse, Commentary, ReadHeader, ReadBody, ReadEdit, ReadOn, CloseHunk, Truncated, BadLine,
         EndParse, Reading
<1>2. /\ context \in Contexts /\ Diffed /\ Fresh /\ travelled \in {"intact", "mailed", "damaged"}
  BY <1>1 DEF Stages
<1>3. Diffed' /\ context' \in Contexts /\ travelled' \in {"intact", "mailed", "damaged"}
  BY <1>1, <1>2, DiffStays
<1>4. Fresh'
  BY <1>1, <1>2 DEF Fresh
<1>5. CASE Commentary \/ ReadHeader \/ ReadBody \/ CloseHunk
  <2>1. Reader'
    BY <1>5, ReaderStays
  <2>2. stage' = "read"
    BY <1>1, <1>5 DEF Commentary, ReadHeader, ReadBody, ReadEdit, ReadOn, CloseHunk
  <2>3. QED BY <1>3, <1>4, <2>1, <2>2 DEF Stages
<1>6. CASE Truncated \/ BadLine
  <2>1. Held' /\ travelled = "damaged"
    BY <1>6, ReadingRefused
  <2>2. stage' = "refused"
    BY <1>6 DEF Truncated, BadLine
  <2>3. QED BY <1>1, <1>3, <1>4, <2>1, <2>2 DEF Stages
<1>7. CASE EndParse
  <2>1. Held'
    BY <1>7, ReadingEnds
  <2>2. stage' = "apply" /\ open' = NoHunk
    BY <1>7 DEF EndParse
  <2>3. QED BY <1>3, <1>4, <2>1, <2>2 DEF Stages
<1>8. QED BY <1>5, <1>6, <1>7 DEF Parse

\* Applying changes nothing of what is applied.
LEMMA ApplySteps ==
    ASSUME Stages, Apply
    PROVE  Stages'
<1>1. /\ stage = "apply" /\ stage' \in {"apply", "applied", "refused"}
      /\ UNCHANGED context /\ UNCHANGED travelled /\ UNCHANGED open
      /\ UNCHANGED <<diffVars, context>> /\ UNCHANGED <<diffVars, context, travelled, hunkList>>
  BY DEF Apply, StartHunk, ApplyEdit, EndHunk, Refuse, Finish, Applying
<1>2. /\ context \in Contexts /\ Diffed /\ Held /\ open = NoHunk
      /\ travelled \in {"direct", "intact", "mailed", "damaged"}
  BY <1>1 DEF Stages
<1>3. Diffed' /\ Held'
  BY <1>1, <1>2, DiffStays, HeldStays
<1>4. QED BY <1>1, <1>2, <1>3 DEF Stages

\* While the diff is made, the rest waits.
LEMMA DiffingSteps ==
    ASSUME Stages, Diff
    PROVE  Stages'
<1>1. stage = "diff" /\ UNCHANGED patchVars
  BY DEF Diff
<1>2. QED BY <1>1 DEF Stages, patchVars, Fresh

\* A step that changes nothing.
LEMMA StagesStutter ==
    ASSUME Stages, UNCHANGED vars
    PROVE  Stages'
<1>1. /\ UNCHANGED <<diffVars, context>> /\ UNCHANGED <<diffVars, context, travelled, text>>
      /\ UNCHANGED <<diffVars, context, travelled, hunkList>>
      /\ UNCHANGED <<stage, context, travelled, text, pos, open, hunkList, hunk, edit, cursor, out>>
  BY DEF vars, patchVars
<1>2. hunks' = hunks /\ (Diffed => Diffed') /\ (Held => Held')
  BY <1>1, DiffStays, HeldStays
<1>3. ASSUME Reader PROVE Reader'
  <2>1. CASE hunks = << >> /\ text = << >> /\ pos = 0 /\ open = NoHunk /\ hunkList = << >>
               /\ travelled = "intact"
    BY <1>1, <1>2, <2>1 DEF Reader
  <2>2. CASE \E src, B : ReaderAt(src, B)
    <3>1. PICK src, B : ReaderAt(src, B)
      BY <2>2
    <3>2. Comes(src, B)' /\ Listed'
      BY <1>1, <3>1, ReadFrame DEF ReaderAt
    <3>3. Outside(src, B) => Outside(src, B)'
      BY <1>1 DEF Outside
    <3>4. ASSUME NEW j \in 1 .. Len(hunks), NEW c \in 0 .. Len(hunks[j].edits), NEW r,
                 Inside(src, B, j, c, r)
          PROVE  Inside(src, B, j, c, r)'
      <4>1. Lost(src)' <=> Lost(src)
        BY <1>1 DEF Lost
      <4>2. Has(r, hunks[j].edits, c, Lost(src)')
        BY <3>4, <4>1 DEF Inside, Has
      <4>3. QED BY <1>1, <1>2, <3>4, <4>2 DEF Inside, Opened
    <3>5. ReaderAt(src, B)'
      BY <1>1, <1>2, <3>1, <3>2, <3>3, <3>4 DEF ReaderAt
    <3>6. QED BY <3>5 DEF Reader
  <2>3. QED BY <1>3, <2>1, <2>2 DEF Reader
<1>4. Fresh => Fresh'
  BY <1>1 DEF Fresh
<1>5. QED BY <1>1, <1>2, <1>3, <1>4 DEF Stages

\* The stages of a diff's journey: what arrives is what was written but for
\* the damage, what the reader has is what it has read, and what is applied
\* are hunks of the diff.
THEOREM StagesThroughout == Spec => []Stages
<1>1. Init => Stages
  <2>1. SUFFICES ASSUME Init PROVE Stages
    OBVIOUS
  <2>2. QED BY <2>1 DEF Init, Stages, Fresh
<1>2. Regions /\ Stages /\ [Next]_vars => Stages'
  <2>1. SUFFICES ASSUME Regions, Stages, [Next]_vars PROVE Stages'
    OBVIOUS
  <2>2. QED
    BY <2>1, DiffingSteps, SendSteps, DirectSteps, ParseSteps, ApplySteps, StagesStutter DEF Next
<1>3. Spec => []Regions
  <2>1. Searching => Regions
    BY DEF Searching
  <2>2. QED BY <2>1, SearchingThroughout, PTL
<1>4. QED BY <1>1, <1>2, <1>3, PTL DEF Spec

\* The hunks of a damaged diff are hunks that were written.
LEMMA HeldWasWritten ==
    ASSUME Held, NEW h \in Range(hunkList), travelled \in {"direct", "intact", "mailed", "damaged"},
           hunks \in Seq(HunkSet)
    PROVE  \E w \in Range(hunks) : h = w \/ h = AsRead(w)
<1>1. hunkList \in Seq(HunkSet)
  BY DEF Held
<1>2. PICK i \in 1 .. Len(hunkList) : h = hunkList[i]
  BY <1>1 DEF Range
<1>3. ASSUME NEW j \in 1 .. Len(hunks) PROVE hunks[j] \in Range(hunks)
  BY <1>3 DEF Range
<1>4. CASE travelled = "direct"
  BY <1>2, <1>3, <1>4 DEF Held
<1>5. CASE travelled \in {"intact", "mailed"}
  BY <1>2, <1>3, <1>5 DEF Held
<1>6. CASE travelled = "damaged"
  BY <1>2, <1>3, <1>6 DEF Held
<1>7. QED BY <1>4, <1>5, <1>6

\* However a written diff is cut, and whichever line it loses, the reader
\* yields no hunk that was not written.
THEOREM DamageNoticed == Spec => []DamageIsNoticed
<1>1. Regions /\ Stages => DamageIsNoticed
  <2>1. SUFFICES ASSUME Regions, Stages, stage \in {"apply", "applied"}, NEW h \in Range(hunkList)
                 PROVE  \E w \in Range(hunks) : h = w \/ h = AsRead(w)
    BY DEF DamageIsNoticed
  <2>2. Held /\ travelled \in {"direct", "intact", "mailed", "damaged"}
    BY <2>1 DEF Stages
  <2>3. hunks \in Seq(HunkSet)
    BY <2>1, StagesHunks
  <2>4. QED BY <2>2, <2>3, HeldWasWritten
<1>2. Spec => []Regions
  <2>1. Searching => Regions
    BY DEF Searching
  <2>2. QED BY <2>1, SearchingThroughout, PTL
<1>3. QED BY <1>1, <1>2, StagesThroughout, PTL

-----------------------------------------------------------------------------
(* Applying hunks *)

\* Where the i-th hunk ends in the text, and what is between it and the last.
EndOf(i) == IF i = 0 THEN 0 ELSE hunkList[i].oldStart + hunkList[i].oldLen
Gap(i) == SubSeq(target, EndOf(i - 1) + 1, hunkList[i].oldStart)

\* F[i] is what the first i hunks make of the text before the end of the i-th;
\* the first k hunks fit and are in order.
Walked(F, c) ==
    /\ F \in [0 .. Len(hunkList) -> Seq(Lines)] /\ F[0] = << >>
    /\ \A i \in 1 .. c : /\ F[i] = (F[i - 1] \o Gap(i)) \o NewSide(hunkList[i].edits)
                         /\ Fits(hunkList[i]) /\ EndOf(i - 1) <= hunkList[i].oldStart

\* apply_hunks is between two hunks: i - 1 are done.
BetweenHunks(F, i) ==
    /\ hunk = i /\ edit = 0 /\ Walked(F, i - 1)
    /\ cursor = EndOf(i - 1) /\ out = F[i - 1]

\* apply_hunks is in the i-th hunk, at its q-th edit.
WithinHunk(F, i, q) ==
    /\ hunk = i /\ edit = q /\ Walked(F, i - 1)
    /\ EndOf(i - 1) <= hunkList[i].oldStart /\ EndOf(i) <= Len(target)
    /\ cursor = hunkList[i].oldStart + Len(OldSide(SubSeq(hunkList[i].edits, 1, q - 1)))
    /\ SubSeq(target, hunkList[i].oldStart + 1, cursor) = OldSide(SubSeq(hunkList[i].edits, 1, q - 1))
    /\ out = (F[i - 1] \o Gap(i)) \o NewSide(SubSeq(hunkList[i].edits, 1, q - 1))

\* Every hunk fits, and none overlaps the one before.
AllFit ==
    /\ \A i \in DOMAIN hunkList : Fits(hunkList[i])
    /\ \A i \in 1 .. Len(hunkList) - 1 : InOrder(hunkList[i], hunkList[i + 1])

Patching ==
    /\ target \in Seq(Lines)
    /\ stage = "apply" =>
         \E F : \/ \E i \in 1 .. Len(hunkList) + 1 : BetweenHunks(F, i)
                \/ \E i \in 1 .. Len(hunkList) : \E q \in 1 .. Len(hunkList[i].edits) + 1 :
                     WithinHunk(F, i, q)
    /\ stage = "refused" /\ open = NoHunk => ~AllFit
    /\ stage = "applied" =>
         \E F : /\ Walked(F, Len(hunkList))
                /\ out = F[Len(hunkList)] \o SubSeq(target, EndOf(Len(hunkList)) + 1, Len(target))

\* The declared length of a hunk is that of its old side.
Sound ==
    /\ hunkList \in Seq(HunkSet)
    /\ \A i \in 1 .. Len(hunkList) : hunkList[i].oldLen = Len(OldSide(hunkList[i].edits))

\* What is held is sound.
LEMMA HeldIsSound ==
    ASSUME Stages, Regions, Held
    PROVE  Sound
<1>1. HunksLie /\ script \in Seq(EditSet) /\ hunks \in Seq(HunkSet)
  BY StagesHunks
<1>2. hunkList \in Seq(HunkSet) /\ travelled \in {"direct", "intact", "mailed", "damaged"}
  BY DEF Held, Stages
<1>3. ASSUME NEW h \in Range(hunks) PROVE h \in HunkSet /\ h.oldLen = Len(OldSide(h.edits))
  <2>1. PICK j \in 1 .. Len(hunks) : h = hunks[j]
    BY <1>1 DEF Range
  <2>2. QED BY <1>1, <2>1, HunkIs
<1>4. ASSUME NEW h \in Range(hunks) PROVE AsRead(h).oldLen = Len(OldSide(AsRead(h).edits))
  <2>1. /\ h \in HunkSet /\ h.oldLen = Len(OldSide(h.edits)) /\ h.edits \in Seq(EditSet)
    BY <1>3 DEF HunkSet
  <2>2. /\ AsRead(h).oldLen = h.oldLen /\ AsRead(h).edits = AsEdits(h.edits)
    <3>1. Opened(h, h.edits) = AsRead(h)
      BY <2>1, OpenedWhole
    <3>2. QED BY <2>1, <3>1, OpenedTyped
  <2>3. Len(OldSide(AsEdits(h.edits))) = Len(OldSide(h.edits))
    BY <2>1, AsEditsSides
  <2>4. QED BY <2>1, <2>2, <2>3
<1>5. ASSUME NEW i \in 1 .. Len(hunkList) PROVE hunkList[i].oldLen = Len(OldSide(hunkList[i].edits))
  <2>1. hunkList[i] \in Range(hunkList)
    BY <1>2 DEF Range
  <2>2. PICK w \in Range(hunks) : hunkList[i] = w \/ hunkList[i] = AsRead(w)
    BY <1>1, <1>2, <2>1, HeldWasWritten
  <2>3. QED BY <1>3, <1>4, <2>2
<1>6. QED BY <1>2, <1>5 DEF Sound

\* What a hunk to apply is made of.
LEMMA SoundParts ==
    ASSUME Sound, NEW i \in 1 .. Len(hunkList)
    PROVE  /\ hunkList[i] \in HunkSet /\ hunkList[i].edits \in Seq(EditSet)
           /\ hunkList[i].oldStart \in Nat /\ hunkList[i].oldLen \in Nat
           /\ hunkList[i].oldLen = Len(OldSide(hunkList[i].edits))
           /\ Len(hunkList[i].edits) \in Nat /\ Len(hunkList) \in Nat /\ i \in Nat
           /\ EndOf(i) = hunkList[i].oldStart + hunkList[i].oldLen
<1>1. hunkList \in Seq(HunkSet)
  BY DEF Sound
<1>2. hunkList[i] \in HunkSet /\ Len(hunkList) \in Nat /\ i \in Nat /\ i # 0
  BY <1>1
<1>3. hunkList[i].oldLen = Len(OldSide(hunkList[i].edits))
  BY DEF Sound
<1> DEFINE h == hunkList[i]
<1> HIDE DEF h
<1>4. h \in HunkSet
  BY <1>2 DEF h
<1>5. h.edits \in Seq(EditSet) /\ h.oldStart \in Nat /\ h.oldLen \in Nat
  BY <1>4 DEF HunkSet
<1>6. Len(h.edits) \in Nat
  BY <1>5
<1>7. QED BY <1>2, <1>3, <1>5, <1>6 DEF EndOf, h

\* Where a hunk ends is a number.
LEMMA EndTyped ==
    ASSUME Sound, NEW i \in 0 .. Len(hunkList)
    PROVE  EndOf(i) \in Nat
<1>1. hunkList \in Seq(HunkSet)
  BY DEF Sound
<1>2. CASE i = 0
  BY <1>2 DEF EndOf
<1>3. CASE i # 0
  <2>1. i \in 1 .. Len(hunkList)
    BY <1>1, <1>3
  <2>2. hunkList[i].oldStart \in Nat /\ hunkList[i].oldLen \in Nat
        /\ EndOf(i) = hunkList[i].oldStart + hunkList[i].oldLen
    BY <2>1, SoundParts
  <2>3. QED BY <2>2
<1>4. QED BY <1>2, <1>3

\* While text and hunks stay, so does what was done of them.
LEMMA WalkStays ==
    ASSUME UNCHANGED hunkList, UNCHANGED target
    PROVE  /\ \A F, c : Walked(F, c) => Walked(F, c)'
           /\ \A i : EndOf(i)' = EndOf(i) /\ Gap(i)' = Gap(i)
           /\ AllFit' <=> AllFit
           /\ Sound => Sound'
<1>1. \A i : EndOf(i)' = EndOf(i)
  BY DEF EndOf
<1>2. \A i : Gap(i)' = Gap(i)
  BY <1>1 DEF Gap
<1>3. ASSUME NEW F, NEW c, Walked(F, c) PROVE Walked(F, c)'
  BY <1>1, <1>2, <1>3 DEF Walked, Fits
<1>4. AllFit' <=> AllFit
  BY DEF AllFit, Fits
<1>5. Sound => Sound'
  BY DEF Sound
<1>6. QED BY <1>1, <1>2, <1>3, <1>4, <1>5

\* What the q-th edit adds to the sides of those before.
LEMMA SidesUpto ==
    ASSUME NEW e \in Seq(EditSet), NEW q \in 1 .. Len(e)
    PROVE  LET a == SubSeq(e, 1, q - 1)
               b == SubSeq(e, 1, q)
               l == e[q].line
           IN  /\ a \in Seq(EditSet) /\ b \in Seq(EditSet) /\ e[q] \in EditSet /\ l \in Lines
               /\ OldSide(b) = IF InOld(e[q]) THEN Append(OldSide(a), l) ELSE OldSide(a)
               /\ NewSide(b) = IF InNew(e[q]) THEN Append(NewSide(a), l) ELSE NewSide(a)
               /\ OldSide(a) \in Seq(Lines) /\ NewSide(a) \in Seq(Lines)
               /\ Len(OldSide(a)) \in Nat
<1> DEFINE c == q - 1
           a == SubSeq(e, 1, c)
           f == e[q]
<1>1. c \in Nat /\ c <= Len(e) /\ c < Len(e) /\ c + 1 = q /\ f \in EditSet /\ c <= c
  OBVIOUS
<1>2. a \in Seq(EditSet) /\ SubSeq(e, 1, q) \in Seq(EditSet)
  BY <1>1
<1> HIDE DEF c
<1>3. SubSeq(e, 1, c) \o <<e[c + 1]>> = SubSeq(e, 1, c + 1)
  BY <1>1, PrefixGrows
<1>4. a \o <<f>> = SubSeq(e, 1, q)
  BY <1>1, <1>3
<1> HIDE DEF a, f
<1>5. Append(a, f) = SubSeq(e, 1, q)
  BY <1>1, <1>2, <1>4, AppendIsConcat
<1>6. /\ OldSide(Append(a, f)) = IF InOld(f) THEN Append(OldSide(a), f.line) ELSE OldSide(a)
      /\ NewSide(Append(a, f)) = IF InNew(f) THEN Append(NewSide(a), f.line) ELSE NewSide(a)
  BY <1>1, <1>2, SidesAppend
<1>7. OldSide(a) \in Seq(Lines) /\ NewSide(a) \in Seq(Lines) /\ Len(OldSide(a)) \in Nat
  BY <1>2, SidesType
<1>8. f.line \in Lines
  BY <1>1, EditsAre
<1>9. QED BY <1>1, <1>2, <1>5, <1>6, <1>7, <1>8 DEF a, c, f

\* What is put first is the beginning of the whole.
LEMMA Beginning ==
    ASSUME NEW u \in Seq(Lines), NEW w \in Seq(Lines)
    PROVE  /\ u \o w \in Seq(Lines) /\ Len(u) \in Nat /\ Len(u \o w) \in Nat
           /\ Len(u) <= Len(u \o w) /\ \A i \in 1 .. Len(u) : (u \o w)[i] = u[i]
<1>1. /\ u \o w \in Seq(Lines) /\ Len(u \o w) = Len(u) + Len(w)
      /\ \A i \in 1 .. Len(u) : (u \o w)[i] = u[i]
  BY ConcatProperties
<1> DEFINE x1 == Len(u)
           x2 == Len(w)
           x3 == Len(u \o w)
<1>2. x1 \in Nat /\ x2 \in Nat /\ x3 = x1 + x2
  BY <1>1
<1> HIDE DEF x1, x2, x3
<1>3. x1 <= x3 /\ x3 \in Nat
  BY <1>2
<1>4. QED BY <1>1, <1>2, <1>3 DEF x1, x3

\* The sides of the first edits are the beginnings of the whole sides.
LEMMA SidesBegin ==
    ASSUME NEW e \in Seq(EditSet), NEW c \in 0 .. Len(e), NEW r, r = SubSeq(e, c + 1, Len(e))
    PROVE  /\ OldSide(e) = OldSide(SubSeq(e, 1, c)) \o OldSide(r)
           /\ NewSide(e) = NewSide(SubSeq(e, 1, c)) \o NewSide(r)
           /\ OldSide(SubSeq(e, 1, c)) \in Seq(Lines) /\ OldSide(r) \in Seq(Lines)
           /\ NewSide(SubSeq(e, 1, c)) \in Seq(Lines) /\ NewSide(r) \in Seq(Lines)
<1> DEFINE N == Len(e)
           a == SubSeq(e, 1, c)
           b == SubSeq(e, c + 1, N)
<1>1. N \in Nat /\ c \in Nat /\ c <= N /\ N <= Len(e)
  OBVIOUS
<1>2. a \in Seq(EditSet) /\ b \in Seq(EditSet)
  BY <1>1
<1> HIDE DEF N
<1>3. SubSeq(e, 1, c) \o SubSeq(e, c + 1, N) = SubSeq(e, 1, N)
  BY <1>1, PrefixGrows
<1>4. a \o b = e
  BY <1>3, WholePart DEF N
<1> HIDE DEF a, b
<1>5. OldSide(e) = OldSide(a) \o OldSide(b) /\ NewSide(e) = NewSide(a) \o NewSide(b)
  BY <1>2, <1>4, SidesConcat
<1>6. /\ OldSide(a) \in Seq(Lines) /\ OldSide(b) \in Seq(Lines)
      /\ NewSide(a) \in Seq(Lines) /\ NewSide(b) \in Seq(Lines)
  BY <1>2, SidesType
<1>7. QED BY <1>5, <1>6 DEF a, b, N

\* So for the old side: no longer, and alike as far as it goes.
LEMMA OldSideBegins ==
    ASSUME NEW e \in Seq(EditSet), NEW c \in 0 .. Len(e)
    PROVE  /\ OldSide(SubSeq(e, 1, c)) \in Seq(Lines) /\ OldSide(e) \in Seq(Lines)
           /\ Len(OldSide(SubSeq(e, 1, c))) \in Nat /\ Len(OldSide(e)) \in Nat
           /\ Len(OldSide(SubSeq(e, 1, c))) <= Len(OldSide(e))
           /\ \A i \in 1 .. Len(OldSide(SubSeq(e, 1, c))) : OldSide(e)[i] = OldSide(SubSeq(e, 1, c))[i]
<1> DEFINE r == SubSeq(e, c + 1, Len(e))
           b == OldSide(SubSeq(e, 1, c))
<1>1. OldSide(e) = b \o OldSide(r) /\ b \in Seq(Lines) /\ OldSide(r) \in Seq(Lines)
  <2> HIDE DEF b
  <2>1. r = SubSeq(e, c + 1, Len(e))
    OBVIOUS
  <2> HIDE DEF r
  <2>2. QED BY <2>1, SidesBegin DEF b
<1> HIDE DEF r, b
<1>2. /\ b \in Seq(Lines) /\ OldSide(e) \in Seq(Lines) /\ Len(b) \in Nat /\ Len(OldSide(e)) \in Nat
      /\ Len(b) <= Len(OldSide(e)) /\ \A i \in 1 .. Len(b) : OldSide(e)[i] = b[i]
  BY <1>1, Beginning
<1>3. QED BY <1>2 DEF b

\* And for the new side.
LEMMA NewSideBegins ==
    ASSUME NEW e \in Seq(EditSet), NEW c \in 0 .. Len(e)
    PROVE  /\ NewSide(SubSeq(e, 1, c)) \in Seq(Lines) /\ NewSide(e) \in Seq(Lines)
           /\ Len(NewSide(SubSeq(e, 1, c))) \in Nat /\ Len(NewSide(e)) \in Nat
           /\ Len(NewSide(SubSeq(e, 1, c))) <= Len(NewSide(e))
           /\ \A i \in 1 .. Len(NewSide(SubSeq(e, 1, c))) : NewSide(e)[i] = NewSide(SubSeq(e, 1, c))[i]
<1> DEFINE r == SubSeq(e, c + 1, Len(e))
           b == NewSide(SubSeq(e, 1, c))
<1>1. NewSide(e) = b \o NewSide(r) /\ b \in Seq(Lines) /\ NewSide(r) \in Seq(Lines)
  <2> HIDE DEF b
  <2>1. r = SubSeq(e, c + 1, Len(e))
    OBVIOUS
  <2> HIDE DEF r
  <2>2. QED BY <2>1, SidesBegin DEF b
<1> HIDE DEF r, b
<1>2. /\ b \in Seq(Lines) /\ NewSide(e) \in Seq(Lines) /\ Len(b) \in Nat /\ Len(NewSide(e)) \in Nat
      /\ Len(b) <= Len(NewSide(e)) /\ \A i \in 1 .. Len(b) : NewSide(e)[i] = b[i]
  BY <1>1, Beginning
<1>3. QED BY <1>2 DEF b

\* A hunk that is not misplaced is begun.
LEMMA StartSteps ==
    ASSUME Sound, target \in Seq(Lines), NEW F, NEW i \in 1 .. Len(hunkList) + 1,
           BetweenHunks(F, i), StartHunk
    PROVE  i \in 1 .. Len(hunkList) /\ WithinHunk(F, i, 1)'
<1>1. /\ hunk = i /\ edit = 0 /\ Walked(F, i - 1) /\ cursor = EndOf(i - 1) /\ out = F[i - 1]
  BY DEF BetweenHunks
<1>2. /\ hunk <= Len(hunkList) /\ ~Misplaced /\ H = hunkList[i]
      /\ out' = out \o SubSeq(target, cursor + 1, hunkList[i].oldStart)
      /\ cursor' = hunkList[i].oldStart /\ edit' = 1 /\ hunk' = i
      /\ UNCHANGED hunkList /\ UNCHANGED target
  BY <1>1 DEF StartHunk, H
<1>3. i \in 1 .. Len(hunkList) /\ i - 1 \in 0 .. Len(hunkList)
  <2>1. Len(hunkList) \in Nat
    BY DEF Sound
  <2>2. QED BY <1>1, <1>2, <2>1
<1>4. /\ hunkList[i].edits \in Seq(EditSet) /\ hunkList[i].oldStart \in Nat /\ hunkList[i].oldLen \in Nat
      /\ EndOf(i) = hunkList[i].oldStart + hunkList[i].oldLen /\ EndOf(i - 1) \in Nat
  BY <1>3, SoundParts, EndTyped
<1> DEFINE h == hunkList[i]
           s == h.oldStart
           e == h.edits
           T == Len(target)
<1>5. /\ ~(s < cursor) /\ ~(h.oldStart + h.oldLen > T)
  BY <1>2 DEF Misplaced
<1>6. EndOf(i - 1) <= s /\ EndOf(i) <= T
  <2> DEFINE a == EndOf(i - 1)
             b == EndOf(i)
  <2>1. a \in Nat /\ s \in Nat /\ T \in Nat /\ b \in Nat /\ ~(s < a) /\ ~(b > T)
    BY <1>1, <1>4, <1>5
  <2> HIDE DEF a, b, s, T
  <2>2. QED BY <2>1 DEF a, b
<1>7. SubSeq(e, 1, 0) = << >> /\ OldSide(<< >>) = << >> /\ NewSide(<< >>) = << >>
  BY <1>4, WholePart, SidesEmpty
<1>8. SubSeq(target, s + 1, s) = << >>
  BY <1>4, WholePart
<1>9. /\ F[i - 1] \in Seq(Lines) /\ Gap(i) \in Seq(Lines)
  <2>1. F[i - 1] \in Seq(Lines)
    BY <1>1, <1>3 DEF Walked
  <2>2. Gap(i) \in Seq(Lines)
    <3> DEFINE a == EndOf(i - 1)
    <3>1. a \in Nat /\ s \in Nat /\ s <= T
      <4> DEFINE o == h.oldLen
      <4>1. s \in Nat /\ o \in Nat /\ T \in Nat /\ ~(s + o > T)
        BY <1>4, <1>5
      <4> HIDE DEF s, o, T
      <4>2. s <= T
        BY <4>1
      <4>3. QED BY <1>4, <4>2 DEF s, T
    <3> HIDE DEF a, s
    <3>2. SubSeq(target, a + 1, s) \in Seq(Lines)
      BY <3>1, PartTyped
    <3>3. QED BY <3>2 DEF Gap, a, s
  <2>3. QED BY <2>1, <2>2
<1>10. out' = (F[i - 1] \o Gap(i)) \o << >>
  <2>1. out' = F[i - 1] \o Gap(i)
    BY <1>1, <1>2 DEF Gap
  <2>2. F[i - 1] \o Gap(i) \in Seq(Lines)
    BY <1>9
  <2>3. (F[i - 1] \o Gap(i)) \o << >> = F[i - 1] \o Gap(i)
    BY <2>2
  <2>4. QED BY <2>1, <2>3
<1>11. cursor' = s + 0 /\ Len(<< >>) = 0
  BY <1>2, <1>4
<1>12. /\ Walked(F, i - 1)' /\ EndOf(i - 1)' = EndOf(i - 1) /\ EndOf(i)' = EndOf(i) /\ Gap(i)' = Gap(i)
  BY <1>1, <1>2, WalkStays
<1>13. 1 - 1 = 0
  OBVIOUS
<1>14. WithinHunk(F, i, 1)'
  BY <1>2, <1>6, <1>7, <1>8, <1>10, <1>11, <1>12, <1>13 DEF WithinHunk
<1>15. QED BY <1>3, <1>14

\* A line behind the second of two sequences.
LEMMA AppendBehind ==
    ASSUME NEW a \in Seq(Lines), NEW b \in Seq(Lines), NEW l \in Lines
    PROVE  Append(a \o b, l) = a \o Append(b, l)
<1>1. /\ <<l>> \in Seq(Lines) /\ a \o b \in Seq(Lines)
  OBVIOUS
<1>2. b \o <<l>> = Append(b, l)
  BY AppendIsConcat
<1>3. (a \o b) \o <<l>> = Append(a \o b, l)
  BY <1>1, AppendIsConcat
<1>4. (a \o b) \o <<l>> = a \o (b \o <<l>>)
  BY <1>1, ConcatAssociative
<1>5. QED BY <1>2, <1>3, <1>4

\* An edit that matches is applied.
LEMMA EditSteps ==
    ASSUME Sound, target \in Seq(Lines), NEW F, NEW i \in 1 .. Len(hunkList),
           NEW q \in 1 .. Len(hunkList[i].edits) + 1, WithinHunk(F, i, q), ApplyEdit
    PROVE  q \in 1 .. Len(hunkList[i].edits) /\ WithinHunk(F, i, q + 1)'
<1> DEFINE h == hunkList[i]
           e == h.edits
           s == h.oldStart
           T == Len(target)
           f == e[q]
           l == f.line
           a == SubSeq(e, 1, q - 1)
           b == SubSeq(e, 1, q)
           G == F[i - 1] \o Gap(i)
<1>1. /\ hunk = i /\ edit = q /\ Walked(F, i - 1) /\ EndOf(i - 1) <= s /\ EndOf(i) <= T
      /\ cursor = s + Len(OldSide(a)) /\ SubSeq(target, s + 1, cursor) = OldSide(a)
      /\ out = G \o NewSide(a)
  BY DEF WithinHunk
<1>2. /\ e \in Seq(EditSet) /\ Len(e) \in Nat /\ s \in Nat /\ h.oldLen = Len(OldSide(e))
      /\ EndOf(i) = s + h.oldLen /\ h.oldLen \in Nat
  BY SoundParts
<1>3. /\ edit <= Len(e) /\ ~Mismatch /\ H = h /\ Edit = f
      /\ out' = (IF InNew(f) THEN Append(out, l) ELSE out)
      /\ cursor' = (IF InOld(f) THEN cursor + 1 ELSE cursor)
      /\ edit' = q + 1 /\ hunk' = i /\ UNCHANGED hunkList /\ UNCHANGED target
  BY <1>1 DEF ApplyEdit, H, Edit
<1>4. q \in 1 .. Len(e)
  BY <1>1, <1>2, <1>3
<1>5. /\ a \in Seq(EditSet) /\ b \in Seq(EditSet) /\ f \in EditSet /\ l \in Lines
      /\ OldSide(b) = (IF InOld(f) THEN Append(OldSide(a), l) ELSE OldSide(a))
      /\ NewSide(b) = (IF InNew(f) THEN Append(NewSide(a), l) ELSE NewSide(a))
      /\ OldSide(a) \in Seq(Lines) /\ NewSide(a) \in Seq(Lines) /\ Len(OldSide(a)) \in Nat
  BY <1>2, <1>4, SidesUpto
<1>6. Len(OldSide(b)) <= h.oldLen /\ Len(OldSide(b)) \in Nat
  <2>1. q \in 0 .. Len(e)
    BY <1>2, <1>4
  <2>2. QED BY <1>2, <2>1, OldSideBegins
<1>7. (q + 1) - 1 = q
  BY <1>4
<1>8. /\ Walked(F, i - 1)' /\ EndOf(i - 1)' = EndOf(i - 1) /\ EndOf(i)' = EndOf(i) /\ Gap(i)' = Gap(i)
  BY <1>1, <1>3, WalkStays
<1>9. G \in Seq(Lines)
  <2>1. F[i - 1] \in Seq(Lines)
    <3>1. i - 1 \in 0 .. Len(hunkList)
      BY SoundParts
    <3>2. QED BY <1>1, <3>1 DEF Walked
  <2>2. Gap(i) \in Seq(Lines)
    <3> DEFINE u == EndOf(i - 1)
               o == h.oldLen
    <3>1. u \in Nat
      <4>1. i - 1 \in 0 .. Len(hunkList)
        BY SoundParts
      <4>2. QED BY <4>1, EndTyped
    <3>2. s \in Nat /\ o \in Nat /\ T \in Nat /\ s + o <= T /\ u <= s
      BY <1>1, <1>2
    <3> HIDE DEF u, s, T, o
    <3>3. s <= T
      BY <3>2
    <3>4. SubSeq(target, u + 1, s) \in Seq(Lines)
      BY <3>1, <3>2, <3>3, PartTyped DEF T
    <3>5. QED BY <3>4 DEF Gap, u, s
  <2>3. QED BY <2>1, <2>2
<1> HIDE DEF a, b, f, G
<1>10. out' = G \o NewSide(b)
  <2>1. Append(G \o NewSide(a), l) = G \o Append(NewSide(a), l)
    <3> DEFINE w == NewSide(a)
    <3>1. w \in Seq(Lines) /\ l \in Lines
      BY <1>5
    <3> HIDE DEF w, l
    <3>2. Append(G \o w, l) = G \o Append(w, l)
      BY <1>9, <3>1, AppendBehind
    <3>3. QED BY <3>2 DEF w
  <2>2. QED BY <1>1, <1>3, <1>5, <2>1
<1>11. cursor' = s + Len(OldSide(b)) /\ SubSeq(target, s + 1, cursor') = OldSide(b)
  <2>1. CASE ~InOld(f)
    BY <1>1, <1>3, <1>5, <2>1
  <2>2. CASE InOld(f)
    <3> DEFINE u == OldSide(a)
               x1 == Len(u)
               x2 == Len(OldSide(b))
               o == h.oldLen
    <3>1. u \in Seq(Lines) /\ l \in Lines /\ OldSide(b) = Append(u, l)
      BY <1>5, <2>2
    <3>2. x2 = x1 + 1
      <4> HIDE DEF u, l
      <4>1. QED BY <3>1 DEF u
    <3>3. /\ x1 \in Nat /\ x2 \in Nat /\ x2 <= o /\ o \in Nat /\ s \in Nat /\ T \in Nat
          /\ s + o <= T /\ cursor = s + x1 /\ cursor' = cursor + 1
      BY <1>1, <1>2, <1>3, <1>5, <1>6, <2>2
    <3> HIDE DEF u, x1, x2, o, s, T, l
    <3>4. cursor \in Nat /\ s <= cursor /\ cursor < T /\ cursor' = s + x2
      BY <3>2, <3>3
    <3>5. target[cursor + 1] = l
      BY <1>3, <2>2 DEF Mismatch, l
    <3>6. SubSeq(target, s + 1, cursor + 1) = Append(SubSeq(target, s + 1, cursor), target[cursor + 1])
      BY <3>3, <3>4, PartGrows, SMTT(30) DEF T
    <3>7. SubSeq(target, s + 1, cursor) = u
      BY <1>1 DEF u
    <3>8. QED BY <3>1, <3>3, <3>4, <3>5, <3>6, <3>7 DEF x2
  <2>3. QED BY <2>1, <2>2
<1>12. WithinHunk(F, i, q + 1)'
  BY <1>1, <1>3, <1>7, <1>8, <1>10, <1>11 DEF WithinHunk, G, b
<1>13. QED BY <1>4, <1>12

\* A hunk all of whose edits are applied is done.
LEMMA EndSteps ==
    ASSUME Sound, target \in Seq(Lines), NEW F, NEW i \in 1 .. Len(hunkList),
           NEW q \in 1 .. Len(hunkList[i].edits) + 1, WithinHunk(F, i, q), EndHunk
    PROVE  \E E : BetweenHunks(E, i + 1)'
<1> DEFINE h == hunkList[i]
           e == h.edits
           s == h.oldStart
           N == Len(hunkList)
           G == F[i - 1] \o Gap(i)
           z == G \o NewSide(e)
           E == [F EXCEPT ![i] = z]
<1>1. /\ hunk = i /\ edit = q /\ Walked(F, i - 1) /\ EndOf(i - 1) <= s /\ EndOf(i) <= Len(target)
      /\ cursor = s + Len(OldSide(SubSeq(e, 1, q - 1)))
      /\ SubSeq(target, s + 1, cursor) = OldSide(SubSeq(e, 1, q - 1))
      /\ out = G \o NewSide(SubSeq(e, 1, q - 1))
  BY DEF WithinHunk
<1>2. /\ e \in Seq(EditSet) /\ Len(e) \in Nat /\ s \in Nat /\ h.oldLen = Len(OldSide(e))
      /\ EndOf(i) = s + h.oldLen /\ h.oldLen \in Nat /\ N \in Nat /\ i \in Nat
  BY SoundParts
<1>3. /\ edit > Len(e) /\ edit' = 0 /\ hunk' = i + 1 /\ cursor' = cursor /\ out' = out
      /\ UNCHANGED hunkList /\ UNCHANGED target
  BY <1>1 DEF EndHunk, H
<1>4. q - 1 = Len(e)
  <2> DEFINE L == Len(e)
  <2>1. L \in Nat /\ q \in 1 .. L + 1 /\ q > L
    BY <1>1, <1>2, <1>3
  <2> HIDE DEF L
  <2>2. q - 1 = L
    BY ONLY <2>1
  <2>3. QED BY <2>2 DEF L
<1>5. SubSeq(e, 1, q - 1) = e
  BY <1>2, <1>4, WholePart
<1>6. out = z /\ cursor = EndOf(i) /\ Fits(h)
  <2>1. out = z
    BY <1>1, <1>5
  <2>2. cursor = s + h.oldLen
    BY <1>1, <1>2, <1>5
  <2>3. SubSeq(target, s + 1, s + h.oldLen) = OldSide(e)
    BY <1>1, <1>5, <2>2
  <2>4. s + h.oldLen <= Len(target)
    BY <1>1, <1>2
  <2>5. QED BY <1>2, <2>1, <2>2, <2>3, <2>4 DEF Fits
<1>7. z \in Seq(Lines)
  <2>1. F[i - 1] \in Seq(Lines)
    <3>1. i - 1 \in 0 .. N
      BY <1>2
    <3>2. QED BY <1>1, <3>1 DEF Walked
  <2>2. Gap(i) \in Seq(Lines)
    <3> DEFINE u == EndOf(i - 1)
               o == h.oldLen
               T == Len(target)
    <3>1. u \in Nat
      <4>1. i - 1 \in 0 .. N
        BY <1>2
      <4>2. QED BY <4>1, EndTyped
    <3>2. s \in Nat /\ o \in Nat /\ T \in Nat /\ s + o <= T /\ u <= s
      BY <1>1, <1>2
    <3> HIDE DEF u, s, T, o
    <3>3. s <= T
      BY <3>2
    <3>4. SubSeq(target, u + 1, s) \in Seq(Lines)
      BY <3>1, <3>2, <3>3, PartTyped DEF T
    <3>5. QED BY <3>4 DEF Gap, u, s
  <2>3. NewSide(e) \in Seq(Lines)
    BY <1>2, SidesType
  <2>4. QED BY <2>1, <2>2, <2>3
<1> HIDE DEF z
<1>8. /\ E \in [0 .. N -> Seq(Lines)] /\ E[i] = z /\ \A g \in 0 .. N : g # i => E[g] = F[g]
  <2>1. F \in [0 .. N -> Seq(Lines)] /\ i \in 0 .. N
    BY <1>1, <1>2 DEF Walked
  <2>2. QED BY <1>7, <2>1
<1> HIDE DEF E
<1>9. Walked(E, i)
  <2>1. E[0] = << >>
    <3>1. 0 # i /\ 0 \in 0 .. N
      BY <1>2
    <3>2. QED BY <1>1, <1>8, <3>1 DEF Walked
  <2>2. ASSUME NEW g \in 1 .. i
        PROVE  /\ E[g] = (E[g - 1] \o Gap(g)) \o NewSide(hunkList[g].edits)
               /\ Fits(hunkList[g]) /\ EndOf(g - 1) <= hunkList[g].oldStart
    <3>1. g - 1 \in 0 .. N /\ g - 1 # i /\ g \in 0 .. N /\ g \in Nat
      BY <1>2
    <3>2. E[g - 1] = F[g - 1]
      BY <1>8, <3>1
    <3>3. CASE g = i
      BY <1>1, <1>6, <1>8, <3>2, <3>3 DEF z
    <3>4. CASE g # i
      <4>1. g \in 1 .. i - 1
        BY <1>2, <3>1, <3>4
      <4>2. E[g] = F[g]
        BY <1>8, <3>1, <3>4
      <4>3. QED BY <1>1, <3>2, <4>1, <4>2 DEF Walked
    <3>5. QED BY <3>3, <3>4
  <2>3. QED BY <1>8, <2>1, <2>2 DEF Walked
<1>10. PICK K : K = E
  OBVIOUS
<1>11. Walked(K, i)' /\ EndOf(i)' = EndOf(i)
  BY <1>3, <1>9, <1>10, WalkStays
<1>12. (i + 1) - 1 = i
  BY <1>2
<1>13. out' = K[i]
  BY <1>3, <1>6, <1>8, <1>10
<1>14. BetweenHunks(K, i + 1)'
  BY <1>3, <1>6, <1>11, <1>12, <1>13 DEF BetweenHunks
<1>15. QED BY <1>14

\* What is refused does not fit, or is not in order.
LEMMA RefuseSteps ==
    ASSUME Sound, target \in Seq(Lines), NEW F, Refuse,
           \/ \E i \in 1 .. Len(hunkList) + 1 : BetweenHunks(F, i)
           \/ \E i \in 1 .. Len(hunkList) : \E q \in 1 .. Len(hunkList[i].edits) + 1 : WithinHunk(F, i, q)
    PROVE  ~AllFit
<1> DEFINE N == Len(hunkList)
           T == Len(target)
<1>0. N \in Nat /\ T \in Nat /\ DOMAIN hunkList = 1 .. N
  BY DEF Sound
<1>1. ASSUME NEW i \in 1 .. N + 1, BetweenHunks(F, i), AllFit PROVE FALSE
  <2>1. hunk = i /\ edit = 0 /\ cursor = EndOf(i - 1)
    BY <1>1 DEF BetweenHunks
  <2>2. i \in 1 .. N /\ Misplaced /\ H = hunkList[i]
    <3>1. hunk <= N /\ Misplaced
      BY <2>1 DEF Refuse, InHunk
    <3>2. QED BY <1>0, <2>1, <3>1 DEF H
  <2> DEFINE h == hunkList[i]
             s == h.oldStart
             o == h.oldLen
  <2>3. s \in Nat /\ o \in Nat /\ i \in Nat /\ 1 <= i
    BY <2>2, SoundParts
  <2>4. s + o <= T
    BY <1>0, <1>1, <2>2 DEF AllFit, Fits
  <2>5. s < cursor
    <3>1. s < cursor \/ s > T \/ s + o > T
      BY <2>2 DEF Misplaced
    <3> HIDE DEF s, o, T
    <3>2. ~(s > T) /\ ~(s + o > T)
      BY <1>0, <2>3, <2>4
    <3>3. QED BY <3>1, <3>2
  <2>6. i # 1
    <3>1. SUFFICES ASSUME i = 1 PROVE FALSE
      OBVIOUS
    <3>2. cursor = 0
      BY <2>1, <3>1 DEF EndOf
    <3>3. QED BY <2>3, <2>5, <3>2
  <2> DEFINE g == i - 1
  <2>7. g \in 1 .. N - 1 /\ g + 1 = i /\ g \in 1 .. N
    BY <1>0, <2>2, <2>6
  <2> HIDE DEF g
  <2>8. InOrder(hunkList[g], h)
    BY <1>1, <2>7 DEF AllFit
  <2>9. EndOf(g) <= s
    <3>1. EndOf(g) = hunkList[g].oldStart + hunkList[g].oldLen
      BY <2>7, SoundParts
    <3>2. QED BY <2>8, <3>1 DEF InOrder
  <2>10. EndOf(g) \in Nat
    <3>1. g \in 0 .. N
      BY <1>0, <2>7
    <3>2. QED BY <3>1, EndTyped
  <2>11. cursor = EndOf(g)
    BY <2>1 DEF g
  <2>12. QED BY <2>3, <2>5, <2>9, <2>10, <2>11
<1>2. ASSUME NEW i \in 1 .. N, NEW q \in 1 .. Len(hunkList[i].edits) + 1, WithinHunk(F, i, q), AllFit
      PROVE  FALSE
  <2> DEFINE h == hunkList[i]
             e == h.edits
             s == h.oldStart
             o == h.oldLen
             f == e[q]
             l == f.line
             a == SubSeq(e, 1, q - 1)
  <2>1. /\ hunk = i /\ edit = q /\ EndOf(i) <= T /\ cursor = s + Len(OldSide(a))
    BY <1>2 DEF WithinHunk
  <2>2. /\ e \in Seq(EditSet) /\ Len(e) \in Nat /\ s \in Nat /\ o = Len(OldSide(e))
        /\ o \in Nat
    BY SoundParts
  <2>3. q <= Len(e) /\ InOld(f) /\ target[cursor + 1] # l
    <3>1. edit > 0
      BY <2>1, <2>2
    <3>2. edit <= Len(H.edits) /\ Mismatch
      BY <3>1 DEF Refuse, InHunk
    <3>3. QED BY <2>1, <3>2 DEF Mismatch, Edit, H
  <2>4. q \in 1 .. Len(e)
    BY <2>2, <2>3
  <2>5. /\ OldSide(SubSeq(e, 1, q)) = Append(OldSide(a), l)
        /\ OldSide(a) \in Seq(Lines) /\ Len(OldSide(a)) \in Nat /\ l \in Lines
    <3>1. /\ OldSide(SubSeq(e, 1, q)) = (IF InOld(f) THEN Append(OldSide(a), l) ELSE OldSide(a))
          /\ OldSide(a) \in Seq(Lines) /\ Len(OldSide(a)) \in Nat /\ l \in Lines
      BY <2>2, <2>4, SidesUpto
    <3>2. QED BY <2>3, <3>1
  <2> DEFINE c == Len(OldSide(a))
             u == OldSide(a)
             w == OldSide(e)
  <2>6. Len(Append(u, l)) = c + 1 /\ Append(u, l)[c + 1] = l
    <3> HIDE DEF l, u
    <3>1. QED BY <2>5 DEF u
  <2>7. c + 1 <= o /\ w[c + 1] = l
    <3>1. q \in 0 .. Len(e)
      BY <2>2, <2>4
    <3>2. /\ Len(OldSide(SubSeq(e, 1, q))) <= Len(w)
          /\ \A x1 \in 1 .. Len(OldSide(SubSeq(e, 1, q))) : w[x1] = OldSide(SubSeq(e, 1, q))[x1]
      BY <2>2, <3>1, OldSideBegins
    <3>3. Len(OldSide(SubSeq(e, 1, q))) = c + 1 /\ OldSide(SubSeq(e, 1, q))[c + 1] = l
      BY <2>5, <2>6
    <3> HIDE DEF c, w
    <3>4. c + 1 \in 1 .. c + 1
      BY <2>5 DEF c
    <3>5. QED BY <2>2, <3>2, <3>3, <3>4 DEF w
  <2>8. SubSeq(target, s + 1, s + o) = w /\ s + o <= T
    BY <1>0, <1>2 DEF AllFit, Fits
  <2> HIDE DEF s, o, c, w, l
  <2>9. SubSeq(target, s + 1, s + o)[c + 1] = target[s + (c + 1)]
    <3> DEFINE b == s + o
               x2 == c + 1
    <3>1. b \in Nat /\ s \in Nat /\ s <= b /\ b <= Len(target) /\ x2 \in 1 .. b - s
      BY <1>0, <2>2, <2>5, <2>7, <2>8, SMTT(30) DEF c
    <3> HIDE DEF b, x2
    <3>2. SubSeq(target, s + 1, b)[x2] = target[s + x2]
      BY <3>1, PartTyped
    <3>3. QED BY <3>2 DEF b, x2
  <2>10. s + (c + 1) = cursor + 1
    BY <2>1, <2>2, <2>5, SMTT(30) DEF c, s
  <2>11. QED BY <2>3, <2>7, <2>8, <2>9, <2>10, ZenonT(40) DEF l
<1>3. QED BY <1>1, <1>2

\* The text at the end of the walk.
LEMMA FinishSteps ==
    ASSUME Sound, target \in Seq(Lines), NEW F, NEW i \in 1 .. Len(hunkList) + 1,
           BetweenHunks(F, i), Finish
    PROVE  /\ Walked(F, Len(hunkList))'
           /\ out' = F[Len(hunkList)] \o SubSeq(target, EndOf(Len(hunkList)) + 1, Len(target))
<1> DEFINE N == Len(hunkList)
<1>1. hunk = i /\ Walked(F, i - 1) /\ cursor = EndOf(i - 1) /\ out = F[i - 1]
  BY DEF BetweenHunks
<1>2. /\ hunk > N /\ out' = out \o SubSeq(target, cursor + 1, Len(target))
      /\ UNCHANGED hunkList /\ UNCHANGED target
  BY DEF Finish
<1>3. i - 1 = N
  <2>1. N \in Nat
    BY DEF Sound
  <2>2. QED BY <1>1, <1>2, <2>1
<1>4. Walked(F, N)'
  BY <1>1, <1>2, <1>3, WalkStays
<1>5. QED BY <1>1, <1>2, <1>3, <1>4

\* A text the hunks may meet is a text.
LEMMA TargetTyped ==
    ASSUME Given, NEW t \in Targets
    PROVE  t \in Seq(Lines)
<1>1. /\ <<old, new>> \in Inputs /\ old \in Seq(Lines) /\ new \in Seq(Lines)
  BY DiffAssumption DEF Given
<1>2. old # << >>
  BY <1>1, PatchAssumption
<1>3. Head(old) \in Lines /\ Tail(old) \in Seq(Lines)
  BY <1>1, <1>2
<1>4. <<Head(old)>> \o old \in Seq(Lines)
  BY <1>1, <1>3
<1>5. QED BY <1>1, <1>3, <1>4 DEF Targets

\* A step of apply_hunks walks on.
LEMMA WalkSteps ==
    ASSUME Stages, Regions, Patching, Apply
    PROVE  Patching'
<1>1. stage = "apply" /\ Held /\ target \in Seq(Lines) /\ UNCHANGED target /\ UNCHANGED hunkList
  BY DEF Apply, StartHunk, ApplyEdit, EndHunk, Refuse, Finish, Applying, Stages, Patching
<1>2. Sound
  BY <1>1, HeldIsSound
<1>3. PICK F : \/ \E i \in 1 .. Len(hunkList) + 1 : BetweenHunks(F, i)
               \/ \E i \in 1 .. Len(hunkList) : \E q \in 1 .. Len(hunkList[i].edits) + 1 :
                    WithinHunk(F, i, q)
  BY <1>1 DEF Patching
<1>4. ASSUME NEW i \in 1 .. Len(hunkList) + 1, BetweenHunks(F, i) PROVE ~InHunk
  BY <1>4 DEF BetweenHunks, InHunk
<1>5. ASSUME NEW i \in 1 .. Len(hunkList), NEW q \in 1 .. Len(hunkList[i].edits) + 1, WithinHunk(F, i, q)
      PROVE  InHunk
  <2>1. edit = q /\ Len(hunkList[i].edits) \in Nat
    BY <1>2, <1>5, SoundParts DEF WithinHunk
  <2>2. QED BY <2>1 DEF InHunk
<1>6. CASE StartHunk
  <2>1. PICK i \in 1 .. Len(hunkList) + 1 : BetweenHunks(F, i)
    BY <1>3, <1>5, <1>6 DEF StartHunk
  <2>2. i \in 1 .. Len(hunkList) /\ WithinHunk(F, i, 1)'
    BY <1>1, <1>2, <1>6, <2>1, StartSteps
  <2>3. Len(hunkList[i].edits) \in Nat
    BY <1>2, <2>2, SoundParts
  <2>4. 1 \in 1 .. Len(hunkList[i].edits) + 1
    BY <2>3
  <2>5. stage' = "apply"
    BY <1>1, <1>6 DEF StartHunk
  <2>6. \E q \in 1 .. Len(hunkList'[i].edits) + 1 : WithinHunk(F, i, q)'
    BY <1>1, <2>2, <2>4
  <2>7. \E g \in 1 .. Len(hunkList') : \E q \in 1 .. Len(hunkList'[g].edits) + 1 : WithinHunk(F, g, q)'
    BY <1>1, <2>2, <2>6
  <2>8. QED BY <1>1, <2>5, <2>7 DEF Patching
<1>7. CASE ApplyEdit
  <2>1. PICK i \in 1 .. Len(hunkList) : \E q \in 1 .. Len(hunkList[i].edits) + 1 : WithinHunk(F, i, q)
    BY <1>3, <1>4, <1>7 DEF ApplyEdit
  <2>2. PICK q \in 1 .. Len(hunkList[i].edits) + 1 : WithinHunk(F, i, q)
    BY <2>1
  <2>3. q \in 1 .. Len(hunkList[i].edits) /\ WithinHunk(F, i, q + 1)'
    BY <1>1, <1>2, <1>7, <2>2, EditSteps
  <2>4. Len(hunkList[i].edits) \in Nat
    BY <1>2, SoundParts
  <2>5. q + 1 \in 1 .. Len(hunkList[i].edits) + 1
    BY <2>3, <2>4
  <2>6. stage' = "apply"
    BY <1>1, <1>7 DEF ApplyEdit
  <2>7. \E g \in 1 .. Len(hunkList'[i].edits) + 1 : WithinHunk(F, i, g)'
    BY <1>1, <2>3, <2>5
  <2>8. \E g \in 1 .. Len(hunkList') : \E r \in 1 .. Len(hunkList'[g].edits) + 1 : WithinHunk(F, g, r)'
    BY <1>1, <2>7
  <2>9. QED BY <1>1, <2>6, <2>8 DEF Patching
<1>8. CASE EndHunk
  <2>1. PICK i \in 1 .. Len(hunkList) : \E q \in 1 .. Len(hunkList[i].edits) + 1 : WithinHunk(F, i, q)
    BY <1>3, <1>4, <1>8 DEF EndHunk
  <2>2. PICK q \in 1 .. Len(hunkList[i].edits) + 1 : WithinHunk(F, i, q)
    BY <2>1
  <2>3. PICK E : BetweenHunks(E, i + 1)'
    BY <1>1, <1>2, <1>8, <2>2, EndSteps
  <2>4. i + 1 \in 1 .. Len(hunkList) + 1
    BY <1>2 DEF Sound
  <2>5. stage' = "apply"
    BY <1>1, <1>8 DEF EndHunk
  <2>6. \E g \in 1 .. Len(hunkList') + 1 : BetweenHunks(E, g)'
    BY <1>1, <2>3, <2>4
  <2>7. QED BY <1>1, <2>5, <2>6 DEF Patching
<1>9. CASE Refuse
  <2>1. ~AllFit
    BY <1>1, <1>2, <1>3, <1>9, RefuseSteps
  <2>2. ~AllFit'
    BY <1>1, <2>1, WalkStays
  <2>3. stage' = "refused"
    BY <1>9 DEF Refuse
  <2>4. QED BY <1>1, <2>2, <2>3 DEF Patching
<1>10. CASE Finish
  <2>1. PICK i \in 1 .. Len(hunkList) + 1 : BetweenHunks(F, i)
    BY <1>3, <1>5, <1>10 DEF Finish
  <2>2. /\ Walked(F, Len(hunkList))'
        /\ out' = F[Len(hunkList)] \o SubSeq(target, EndOf(Len(hunkList)) + 1, Len(target))
    BY <1>1, <1>2, <1>10, <2>1, FinishSteps
  <2>3. stage' = "applied"
    BY <1>10 DEF Finish
  <2>4. EndOf(Len(hunkList))' = EndOf(Len(hunkList))
    BY <1>1 DEF EndOf
  <2>5. QED BY <1>1, <2>2, <2>3, <2>4 DEF Patching
<1>11. QED BY <1>6, <1>7, <1>8, <1>9, <1>10 DEF Apply

\* apply_hunks begins at the first hunk and the first line.
LEMMA WalkBegins ==
    ASSUME Given, Stages, Regions, ApplyDirectly \/ EndParse
    PROVE  Patching'
<1>1. /\ stage' = "apply" /\ target' \in Targets /\ UNCHANGED <<old, new>>
      /\ stage \in {"diff", "read"} /\ UNCHANGED <<hunk, edit, cursor, out>>
  BY DEF ApplyDirectly, EndParse, Reading, diffVars
<1>2. target' \in Seq(Lines)
  BY <1>1, TargetTyped
<1>3. hunk' = 1 /\ edit' = 0 /\ cursor' = 0 /\ out' = << >>
  BY <1>1 DEF Stages, Fresh
<1>4. hunkList' \in Seq(HunkSet)
  <2>1. Stages'
    BY DirectSteps, ParseSteps DEF Parse
  <2>2. QED BY <1>1, <2>1 DEF Stages, Held
<1>5. PICK F : F = [i \in 0 .. Len(hunkList') |-> << >>]
  OBVIOUS
<1>6. F \in [0 .. Len(hunkList') -> Seq(Lines)] /\ F[0] = << >> /\ Len(hunkList') \in Nat
  BY <1>4, <1>5
<1>7. 1 - 1 = 0 /\ 1 .. 0 = {}
  OBVIOUS
<1>8. Walked(F, 0)'
  BY <1>6, <1>7 DEF Walked
<1>9. EndOf(0)' = 0
  BY DEF EndOf
<1>10. BetweenHunks(F, 1)'
  BY <1>3, <1>6, <1>7, <1>8, <1>9 DEF BetweenHunks
<1>11. 1 \in 1 .. Len(hunkList') + 1
  BY <1>6
<1>12. QED BY <1>1, <1>2, <1>10, <1>11 DEF Patching

\* Other steps leave the walk alone.
LEMMA WalkWaits ==
    ASSUME Stages, Patching,
           Diff \/ Send \/ Commentary \/ ReadHeader \/ ReadBody \/ CloseHunk \/ Truncated \/ BadLine
    PROVE  Patching'
<1>1. /\ stage' \in {"diff", "read", "refused"} /\ UNCHANGED target
      /\ stage' = "refused" => open # NoHunk /\ UNCHANGED open
  BY DEF Diff, Send, Commentary, ReadHeader, ReadBody, ReadEdit, ReadOn, CloseHunk, Truncated, BadLine,
         patchVars, Reading
<1>2. NoHunk' = NoHunk
  BY DEF NoHunk
<1>3. QED BY <1>1, <1>2 DEF Patching

\* A step that changes nothing.
LEMMA WalkStutters ==
    ASSUME Patching, UNCHANGED vars
    PROVE  Patching'
<1>1. /\ UNCHANGED target /\ UNCHANGED hunkList /\ UNCHANGED stage /\ UNCHANGED open
      /\ UNCHANGED <<hunk, edit, cursor, out>>
  BY DEF vars, patchVars
<1>2. /\ \A F, c : Walked(F, c) => Walked(F, c)'
      /\ \A i : EndOf(i)' = EndOf(i) /\ Gap(i)' = Gap(i)
      /\ AllFit' <=> AllFit
  BY <1>1, WalkStays
<1>3. ASSUME NEW F, NEW i, BetweenHunks(F, i) PROVE BetweenHunks(F, i)'
  BY <1>1, <1>2, <1>3 DEF BetweenHunks
<1>4. ASSUME NEW F, NEW i, NEW q, WithinHunk(F, i, q) PROVE WithinHunk(F, i, q)'
  BY <1>1, <1>2, <1>4 DEF WithinHunk
<1>5. NoHunk' = NoHunk
  BY DEF NoHunk
<1>6. target' \in Seq(Lines)
  BY <1>1 DEF Patching
<1>7. ASSUME stage' = "apply"
      PROVE  \E F : \/ \E i \in 1 .. Len(hunkList') + 1 : BetweenHunks(F, i)'
                    \/ \E i \in 1 .. Len(hunkList') : \E q \in 1 .. Len(hunkList'[i].edits) + 1 :
                         WithinHunk(F, i, q)'
  <2>1. PICK F : \/ \E i \in 1 .. Len(hunkList) + 1 : BetweenHunks(F, i)
                 \/ \E i \in 1 .. Len(hunkList) : \E q \in 1 .. Len(hunkList[i].edits) + 1 :
                      WithinHunk(F, i, q)
    BY <1>1, <1>7 DEF Patching
  <2>2. QED BY <1>1, <1>3, <1>4, <2>1
<1>8. stage' = "refused" /\ open' = NoHunk' => ~AllFit'
  BY <1>1, <1>2, <1>5 DEF Patching
<1>9. ASSUME stage' = "applied"
      PROVE  \E F : /\ Walked(F, Len(hunkList))'
                    /\ (out = F[Len(hunkList)] \o SubSeq(target, EndOf(Len(hunkList)) + 1, Len(target)))'
  <2>1. PICK F : /\ Walked(F, Len(hunkList))
                 /\ out = F[Len(hunkList)] \o SubSeq(target, EndOf(Len(hunkList)) + 1, Len(target))
    BY <1>1, <1>9 DEF Patching
  <2>2. Walked(F, Len(hunkList))' /\ EndOf(Len(hunkList))' = EndOf(Len(hunkList))
    BY <1>1, <1>2, <2>1
  <2>3. QED BY <1>1, <2>1, <2>2
<1>10. QED BY <1>6, <1>7, <1>8, <1>9 DEF Patching

\* Where apply_hunks is: behind i whole hunks, all of which fit, or within
\* the next one, whose edits so far do; what it refuses does not fit.
THEOREM PatchingThroughout == Spec => []Patching
<1>1. Init => Patching
  BY DEF Init, Patching
<1>2. Given /\ Regions /\ Stages /\ Patching /\ [Next]_vars => Patching'
  <2>1. SUFFICES ASSUME Given, Regions, Stages, Patching, [Next]_vars PROVE Patching'
    OBVIOUS
  <2>2. QED
    BY <2>1, WalkSteps, WalkBegins, WalkWaits, WalkStutters DEF Next, Parse
<1>3. Spec => []Regions
  <2>1. Searching => Regions
    BY DEF Searching
  <2>2. QED BY <2>1, SearchingThroughout, PTL
<1>4. QED BY <1>1, <1>2, <1>3, GivenThroughout, StagesThroughout, PTL DEF Spec

-----------------------------------------------------------------------------
(* Hunk by hunk from the last to the first *)

\* What is behind the first of two sequences, and what is in front within it.
LEMMA TwoParts ==
    ASSUME NEW a \in Seq(Lines), NEW b \in Seq(Lines), NEW c \in Nat, c <= Len(a)
    PROVE  /\ SubSeq(a \o b, Len(a) + 1, Len(a \o b)) = b
           /\ SubSeq(a \o b, 1, c) = SubSeq(a, 1, c)
           /\ a \o b \in Seq(Lines) /\ Len(a \o b) = Len(a) + Len(b)
<1> DEFINE w == a \o b
           M == Len(a)
           N == Len(b)
           L == Len(w)
<1>1. /\ M \in Nat /\ N \in Nat /\ w \in Seq(Lines) /\ L = M + N
      /\ \A i \in 1 .. M + N : w[i] = IF i <= M THEN a[i] ELSE b[i - M]
  BY ConcatProperties
<1> HIDE DEF w
<1>2. SubSeq(w, M + 1, L) = b
  <2>1. M <= L /\ L <= Len(w) /\ L \in Nat /\ L - M = N
    BY <1>1
  <2>2. /\ SubSeq(w, M + 1, L) \in Seq(Lines) /\ Len(SubSeq(w, M + 1, L)) = L - M
        /\ \A i \in 1 .. L - M : SubSeq(w, M + 1, L)[i] = w[M + i]
    <3> HIDE DEF M, L
    <3>1. w \in Seq(Lines) /\ M \in Nat
      BY <1>1
    <3>2. QED BY ONLY <2>1, <3>1, PartTyped
  <2>3. \A i \in 1 .. N : w[M + i] = b[i]
    <3>1. SUFFICES ASSUME NEW i \in 1 .. N PROVE w[M + i] = b[i]
      OBVIOUS
    <3> HIDE DEF M, N, L
    <3>2. M + i \in 1 .. M + N /\ ~(M + i <= M) /\ (M + i) - M = i
      BY <1>1
    <3>3. QED BY <1>1, <3>2
  <2>4. QED
    <3> DEFINE q == SubSeq(w, M + 1, L)
    <3>1. q \in Seq(Lines) /\ Len(q) = Len(b) /\ \A i \in 1 .. Len(q) : q[i] = b[i]
      BY <2>1, <2>2, <2>3
    <3> HIDE DEF q
    <3>2. q = b
      BY <3>1, SameSequence
    <3>3. QED BY <3>2 DEF q
<1>3. SubSeq(w, 1, c) = SubSeq(a, 1, c)
  <2> DEFINE p == SubSeq(w, 1, c)
             q == SubSeq(a, 1, c)
  <2>0. 0 + 1 = 1 /\ 0 <= c /\ c <= L /\ c - 0 = c /\ \A i \in 1 .. c : 0 + i = i
    BY <1>1
  <2>1. p \in Seq(Lines) /\ Len(p) = c /\ \A i \in 1 .. c : p[i] = w[i]
    <3>1. /\ SubSeq(w, 0 + 1, c) \in Seq(Lines) /\ Len(SubSeq(w, 0 + 1, c)) = c - 0
          /\ \A i \in 1 .. c - 0 : SubSeq(w, 0 + 1, c)[i] = w[0 + i]
      BY <1>1, <2>0, PartTyped
    <3>2. QED BY <2>0, <3>1
  <2>2. q \in Seq(Lines) /\ Len(q) = c /\ \A i \in 1 .. c : q[i] = a[i]
    <3>1. /\ SubSeq(a, 0 + 1, c) \in Seq(Lines) /\ Len(SubSeq(a, 0 + 1, c)) = c - 0
          /\ \A i \in 1 .. c - 0 : SubSeq(a, 0 + 1, c)[i] = a[0 + i]
      BY <2>0, PartTyped
    <3>2. QED BY <2>0, <3>1
  <2>3. \A i \in 1 .. c : w[i] = a[i]
    <3>1. SUFFICES ASSUME NEW i \in 1 .. c PROVE w[i] = a[i]
      OBVIOUS
    <3> HIDE DEF M, N, L
    <3>2. i \in 1 .. M + N /\ i <= M
      BY <1>1 DEF M
    <3>3. QED BY <1>1, <3>2
  <2> HIDE DEF p, q
  <2>4. p = q
    BY <2>1, <2>2, <2>3, SameSequence
  <2>5. QED BY <2>4 DEF p, q
<1>4. QED BY <1>1, <1>2, <1>3 DEF w

\* Three sequences of lines behind one another.
LEMMA ThreeParts ==
    ASSUME NEW a \in Seq(Lines), NEW b \in Seq(Lines), NEW c \in Seq(Lines)
    PROVE  (a \o b) \o c = a \o (b \o c)
BY ConcatAssociative

\* Four sequences behind one another, whichever are put together first.
Regroups(a, b, c, f) == ((a \o b) \o c) \o f = a \o ((b \o c) \o f)

\* Four sequences of lines do.
LEMMA FourParts ==
    ASSUME NEW a \in Seq(Lines), NEW b \in Seq(Lines), NEW c \in Seq(Lines), NEW f \in Seq(Lines)
    PROVE  Regroups(a, b, c, f)
<1>1. (a \o b) \o c = a \o (b \o c)
  BY ThreeParts, ZenonT(40)
<1>2. b \o c \in Seq(Lines)
  OBVIOUS
<1>3. (a \o (b \o c)) \o f = a \o ((b \o c) \o f)
  BY <1>2, ThreeParts, ZenonT(40)
<1>4. QED BY <1>1, <1>3 DEF Regroups

\* The hunk h, at s to z, replaces its part of t where everything behind it
\* already is, and p is somewhere before it.
SplicesAt(h, t, p, s, z, r) ==
    Splice(h, SubSeq(t, 1, z) \o r) = SubSeq(t, 1, p) \o ((SubSeq(t, p + 1, s) \o NewSide(h.edits)) \o r)

\* A hunk replaced where everything behind it already is.
LEMMA SpliceOne ==
    ASSUME NEW h, NEW t \in Seq(Lines), NEW s \in Nat, NEW z \in Nat, NEW p \in Nat, NEW r \in Seq(Lines),
           h.oldStart = s, h.oldStart + h.oldLen = z, p <= s, s <= z, z <= Len(t),
           NewSide(h.edits) \in Seq(Lines)
    PROVE  SplicesAt(h, t, p, s, z, r)
<1> DEFINE u == NewSide(h.edits)
           a == SubSeq(t, 1, z)
           b == SubSeq(t, 1, p)
           c == SubSeq(t, p + 1, s)
<1>1. a \in Seq(Lines) /\ Len(a) = z /\ b \in Seq(Lines) /\ c \in Seq(Lines) /\ s <= Len(t)
  <2>1. p <= Len(t) /\ s <= Len(t) /\ 0 + 1 = 1 /\ 0 <= z /\ 0 <= p /\ z - 0 = z
    OBVIOUS
  <2>2. SubSeq(t, 0 + 1, z) \in Seq(Lines) /\ Len(SubSeq(t, 0 + 1, z)) = z - 0
        /\ SubSeq(t, 0 + 1, p) \in Seq(Lines) /\ SubSeq(t, p + 1, s) \in Seq(Lines)
    BY <2>1, PartTyped
  <2>3. QED BY <2>1, <2>2
<1>2. /\ SubSeq(a \o r, z + 1, Len(a \o r)) = r
      /\ SubSeq(a \o r, 1, s) = SubSeq(a, 1, s)
  <2> HIDE DEF a
  <2>1. QED BY <1>1, TwoParts
<1>3. SubSeq(a, 1, s) = SubSeq(t, 1, s)
  <2>1. SubSeq(t, 1, z) = a /\ SubSeq(t, 1, s) \o SubSeq(t, s + 1, z) = a
    BY PrefixGrows
  <2>2. SubSeq(t, 0 + 1, s) \in Seq(Lines) /\ Len(SubSeq(t, 0 + 1, s)) = s - 0
        /\ SubSeq(t, s + 1, z) \in Seq(Lines)
    BY <1>1, PartTyped
  <2>3. 0 + 1 = 1 /\ s - 0 = s
    OBVIOUS
  <2> DEFINE x1 == SubSeq(t, 1, s)
             x2 == SubSeq(t, s + 1, z)
  <2>4. x1 \in Seq(Lines) /\ x2 \in Seq(Lines) /\ Len(x1) = s /\ x1 \o x2 = a
    BY <2>1, <2>2, <2>3
  <2> HIDE DEF x1, x2, a
  <2>5. SubSeq(x1 \o x2, 1, s) = SubSeq(x1, 1, s)
    BY <2>4, TwoParts
  <2>6. SubSeq(x1, 1, s) = x1
    BY <2>4, WholePart
  <2>7. QED BY <2>4, <2>5, <2>6 DEF x1
<1>4. b \o c = SubSeq(t, 1, s)
  BY <1>1, PrefixGrows
<1>5. Splice(h, a \o r) = SubSeq(a \o r, 1, s) \o u \o SubSeq(a \o r, z + 1, Len(a \o r))
  <2>1. h.oldStart + h.oldLen + 1 = z + 1
    OBVIOUS
  <2>2. QED BY <2>1 DEF Splice
<1> HIDE DEF a, b, c, u
<1>6. Splice(h, a \o r) = ((b \o c) \o u) \o r
  BY <1>2, <1>3, <1>4, <1>5
<1>7. u \in Seq(Lines) /\ b \in Seq(Lines) /\ c \in Seq(Lines)
  BY <1>1 DEF u
<1>8. Regroups(b, c, u, r)
  BY <1>7, FourParts, Zenon
<1>9. QED BY <1>6, <1>8 DEF Regroups, SplicesAt, a, b, c, u

\* What the walk says of one hunk.
LEMMA WalkedParts ==
    ASSUME Sound, target \in Seq(Lines), NEW F, Walked(F, Len(hunkList)), NEW i \in 1 .. Len(hunkList)
    PROVE  /\ F[i] = (F[i - 1] \o Gap(i)) \o NewSide(hunkList[i].edits)
           /\ F[i] \in Seq(Lines) /\ F[i - 1] \in Seq(Lines)
           /\ Gap(i) \in Seq(Lines) /\ NewSide(hunkList[i].edits) \in Seq(Lines)
           /\ EndOf(i - 1) \in Nat /\ hunkList[i].oldStart \in Nat /\ EndOf(i) \in Nat /\ Len(target) \in Nat
           /\ EndOf(i - 1) <= hunkList[i].oldStart /\ hunkList[i].oldStart <= EndOf(i)
           /\ EndOf(i) <= Len(target)
           /\ EndOf(i) = hunkList[i].oldStart + hunkList[i].oldLen
           /\ i - 1 \in 0 .. Len(hunkList) /\ i \in 0 .. Len(hunkList) /\ i \in Nat
<1> DEFINE h == hunkList[i]
           s == h.oldStart
           o == h.oldLen
           p == EndOf(i - 1)
           T == Len(target)
<1>1. /\ h.edits \in Seq(EditSet) /\ s \in Nat /\ o \in Nat /\ EndOf(i) = s + o
      /\ Len(hunkList) \in Nat /\ i \in Nat
  BY SoundParts
<1>2. i - 1 \in 0 .. Len(hunkList) /\ i \in 0 .. Len(hunkList)
  BY <1>1
<1>3. p \in Nat /\ T \in Nat
  BY <1>2, EndTyped
<1>4. /\ F[i] = (F[i - 1] \o Gap(i)) \o NewSide(h.edits)
      /\ F[i] \in Seq(Lines) /\ F[i - 1] \in Seq(Lines)
  BY <1>2 DEF Walked
<1>5. p <= s /\ s + o <= T
  BY DEF Walked, Fits
<1> HIDE DEF s, o, p, T
<1>6. s <= T /\ s <= s + o /\ s + o \in Nat
  BY <1>1, <1>3, <1>5
<1>7. SubSeq(target, p + 1, s) \in Seq(Lines)
  <2>1. s <= Len(target)
    BY <1>6 DEF T
  <2>2. QED BY <1>1, <1>3, <1>5, <2>1, PartTyped
<1>8. Gap(i) \in Seq(Lines)
  BY <1>7 DEF Gap, p, s
<1>9. NewSide(h.edits) \in Seq(Lines)
  BY <1>1, SidesType
<1>10. QED BY <1>1, <1>2, <1>3, <1>4, <1>5, <1>6, <1>8, <1>9 DEF s, o, p, T

\* The text behind the last hunk.
LEMMA Remainder ==
    ASSUME Sound, target \in Seq(Lines), NEW F, Walked(F, Len(hunkList))
    PROVE  /\ SubSeq(target, EndOf(Len(hunkList)) + 1, Len(target)) \in Seq(Lines)
           /\ SubSeq(target, 1, EndOf(Len(hunkList))) \o SubSeq(target, EndOf(Len(hunkList)) + 1, Len(target))
                = target
           /\ F[Len(hunkList)] \in Seq(Lines) /\ F[0] = << >> /\ Len(hunkList) \in Nat
<1> DEFINE N == Len(hunkList)
           z == EndOf(N)
           T == Len(target)
<1>1. N \in Nat /\ T \in Nat /\ N \in 0 .. N
  BY DEF Sound
<1>2. z \in Nat /\ z <= T
  <2>1. CASE N = 0
    BY <1>1, <2>1 DEF EndOf
  <2>2. CASE N # 0
    <3>1. N \in 1 .. N
      BY <1>1, <2>2
    <3>2. QED BY <3>1, WalkedParts
  <2>3. QED BY <2>1, <2>2
<1> HIDE DEF z
<1>3. SubSeq(target, z + 1, T) \in Seq(Lines)
  BY <1>1, <1>2, PartTyped
<1>4. SubSeq(target, 1, z) \o SubSeq(target, z + 1, T) = SubSeq(target, 1, T)
  <2>1. T <= Len(target)
    BY <1>1
  <2> HIDE DEF T
  <2>2. QED BY <1>1, <1>2, <2>1, PrefixGrows
<1>5. SubSeq(target, 1, T) = target
  BY WholePart
<1>6. F[N] \in Seq(Lines) /\ F[0] = << >>
  BY <1>1 DEF Walked
<1>7. QED BY <1>1, <1>3, <1>4, <1>5, <1>6 DEF z

\* R[i] is what the hunks behind the i-th make of the text from its end on.
IsRest(R, W) ==
    /\ R \in [0 .. Len(hunkList) -> Seq(Lines)]
    /\ R[0] = W
    /\ R[Len(hunkList)] = SubSeq(target, EndOf(Len(hunkList)) + 1, Len(target))
    /\ \A i \in 1 .. Len(hunkList) : R[i - 1] = (Gap(i) \o NewSide(hunkList[i].edits)) \o R[i]

\* What the walk makes can be told from its end.
LEMMA RestIs ==
    ASSUME Sound, target \in Seq(Lines), NEW F, Walked(F, Len(hunkList)), NEW W,
           W = F[Len(hunkList)] \o SubSeq(target, EndOf(Len(hunkList)) + 1, Len(target))
    PROVE  \E R : IsRest(R, W)
<1> DEFINE N == Len(hunkList)
           z == SubSeq(target, EndOf(N) + 1, Len(target))
           Follows(i, r) == r \in Seq(Lines) /\ W = F[i] \o r
           T == { i \in 0 .. N : \E r : Follows(N - i, r) }
<1>1. N \in Nat /\ z \in Seq(Lines) /\ F[N] \in Seq(Lines) /\ F[0] = << >> /\ W = F[N] \o z
  BY Remainder
<1>2. W \in Seq(Lines)
  <2> HIDE DEF z
  <2>1. F[N] \o z \in Seq(Lines)
    BY <1>1
  <2>2. QED BY <1>1, <2>1
<1> HIDE DEF z
<1>3. ASSUME NEW i \in 1 .. N, NEW r, Follows(i, r)
      PROVE  Follows(i - 1, (Gap(i) \o NewSide(hunkList[i].edits)) \o r)
  <2> DEFINE a == F[i - 1]
             b == Gap(i)
             c == NewSide(hunkList[i].edits)
  <2>1. F[i] = (a \o b) \o c /\ a \in Seq(Lines) /\ b \in Seq(Lines) /\ c \in Seq(Lines)
    BY WalkedParts
  <2>2. r \in Seq(Lines) /\ W = F[i] \o r
    BY <1>3
  <2> HIDE DEF a, b, c, Follows
  <2>3. Regroups(a, b, c, r)
    BY <2>1, <2>2, FourParts, Zenon
  <2>4. W = a \o ((b \o c) \o r)
    BY <2>1, <2>2, <2>3 DEF Regroups
  <2>5. (b \o c) \o r \in Seq(Lines)
    <3>1. b \o c \in Seq(Lines)
      BY <2>1
    <3>2. QED BY <2>2, <3>1
  <2>6. QED BY <2>4, <2>5 DEF a, b, c, Follows
<1>4. 0 \in T
  <2>1. N - 0 = N /\ 0 \in 0 .. N
    BY <1>1
  <2>2. Follows(N, z)
    BY <1>1
  <2> HIDE DEF Follows
  <2>3. QED BY <2>1, <2>2
<1>5. \A i \in 1 .. N : i - 1 \in T => i \in T
  <2>1. SUFFICES ASSUME NEW i \in 1 .. N, i - 1 \in T PROVE i \in T
    OBVIOUS
  <2> DEFINE g == N - (i - 1)
  <2>2. PICK r : Follows(g, r)
    BY <2>1
  <2>3. g \in 1 .. N /\ g - 1 = N - i /\ i \in 0 .. N
    BY <1>1
  <2> HIDE DEF g, Follows
  <2>4. \E q : Follows(g - 1, q)
    BY <1>3, <2>2, <2>3
  <2>5. \E q : Follows(N - i, q)
    BY <2>3, <2>4
  <2>6. QED BY <2>3, <2>5
<1> HIDE DEF T, N
<1>6. \A i \in 0 .. N : i \in T
  BY <1>1, <1>4, <1>5, UpTo
<1> DEFINE R == [i \in 0 .. N |-> SubSeq(W, Len(F[i]) + 1, Len(W))]
<1>7. ASSUME NEW i \in 0 .. N, NEW r, Follows(i, r), F[i] \in Seq(Lines) PROVE R[i] = r
  <2> DEFINE a == F[i]
  <2>1. a \in Seq(Lines) /\ r \in Seq(Lines) /\ W = a \o r
    BY <1>7
  <2> HIDE DEF a
  <2>0. Len(a) \in Nat /\ Len(a) <= Len(a)
    BY <2>1
  <2>2. SubSeq(a \o r, Len(a) + 1, Len(a \o r)) = r
    BY <2>0, <2>1, TwoParts
  <2>3. SubSeq(W, Len(a) + 1, Len(W)) = r
    BY <2>1, <2>2
  <2>4. QED BY <2>3 DEF a
<1> HIDE DEF R
<1>8. ASSUME NEW i \in 0 .. N PROVE F[i] \in Seq(Lines) /\ \E r : Follows(i, r)
  <2>1. F[i] \in Seq(Lines)
    BY DEF Walked, N
  <2>2. N - i \in 0 .. N /\ N - (N - i) = i
    BY <1>1
  <2>3. N - i \in T
    BY <1>6, <2>2
  <2> HIDE DEF Follows
  <2>4. \E r : Follows(N - (N - i), r)
    BY <2>3 DEF T
  <2>5. QED BY <2>1, <2>2, <2>4
<1>9. ASSUME NEW i \in 0 .. N PROVE Follows(i, R[i])
  <2> HIDE DEF Follows
  <2>1. PICK r : Follows(i, r)
    BY <1>8
  <2>2. R[i] = r
    BY <1>7, <1>8, <2>1
  <2>3. QED BY <2>1, <2>2
<1>10. R \in [0 .. N -> Seq(Lines)]
  <2>1. \A i \in 0 .. N : R[i] \in Seq(Lines)
    BY <1>9
  <2>2. R = [i \in 0 .. N |-> R[i]]
    BY DEF R
  <2>3. QED BY <2>1, <2>2
<1>11. R[0] = W
  <2>1. << >> \o W = W
    BY <1>2
  <2>2. Follows(0, W) /\ 0 \in 0 .. N
    BY <1>1, <1>2, <2>1
  <2>3. QED BY <1>7, <1>8, <2>2
<1>12. R[N] = z
  <2>1. Follows(N, z)
    BY <1>1
  <2> HIDE DEF Follows
  <2>2. N \in 0 .. N /\ F[N] \in Seq(Lines)
    BY <1>1
  <2>3. QED BY <1>7, <2>1, <2>2
<1>13. ASSUME NEW i \in 1 .. N PROVE R[i - 1] = (Gap(i) \o NewSide(hunkList[i].edits)) \o R[i]
  <2> HIDE DEF Follows
  <2>1. i \in 0 .. N /\ i - 1 \in 0 .. N
    BY <1>1
  <2>2. Follows(i - 1, (Gap(i) \o NewSide(hunkList[i].edits)) \o R[i])
    BY <1>3, <1>9, <2>1
  <2>3. QED BY <1>7, <1>8, <2>1, <2>2
<1>14. IsRest(R, W)
  BY <1>10, <1>11, <1>12, <1>13 DEF IsRest, N, z
<1>15. QED BY <1>14

\* Where the walk leads, replacing the hunks from the last to the first does.
LEMMA AllSplicedIs ==
    ASSUME Sound, target \in Seq(Lines), NEW F, Walked(F, Len(hunkList)), NEW W,
           W = F[Len(hunkList)] \o SubSeq(target, EndOf(Len(hunkList)) + 1, Len(target))
    PROVE  AllSpliced = W
<1> DEFINE N == Len(hunkList)
           X == 0 .. Len(hunkList)
           At(g) == SubSeq(target, 1, EndOf(g))
           body(f) == [i \in 0 .. Len(hunkList) |->
                         IF i = 0 THEN target ELSE Splice(hunkList[Len(hunkList) + 1 - i], f[i - 1])]
<1>1. PICK R : IsRest(R, W)
  BY RestIs
<1>2. /\ R \in [0 .. N -> Seq(Lines)] /\ R[0] = W
      /\ R[N] = SubSeq(target, EndOf(N) + 1, Len(target))
      /\ \A i \in 1 .. N : R[i - 1] = (Gap(i) \o NewSide(hunkList[i].edits)) \o R[i]
  BY <1>1 DEF IsRest
<1>3. At(N) \o R[N] = target /\ N \in Nat
  BY <1>2, Remainder
<1> DEFINE E == [i \in X |-> At(N - i) \o R[N - i]]
<1>4. ASSUME NEW g \in 1 .. N PROVE Splice(hunkList[g], At(g) \o R[g]) = At(g - 1) \o R[g - 1]
  <2> DEFINE h == hunkList[g]
             s == h.oldStart
             p == EndOf(g - 1)
             z == EndOf(g)
             r == R[g]
  <2>1. /\ s \in Nat /\ p \in Nat /\ z \in Nat /\ p <= s /\ s <= z /\ z <= Len(target)
        /\ h.oldStart + h.oldLen = z /\ NewSide(h.edits) \in Seq(Lines) /\ g \in 0 .. N
    BY WalkedParts
  <2>2. r \in Seq(Lines)
    BY <1>2, <2>1
  <2>3. R[g - 1] = (SubSeq(target, p + 1, s) \o NewSide(h.edits)) \o r
    BY <1>2 DEF Gap
  <2>4. h.oldStart = s
    OBVIOUS
  <2> HIDE DEF s, p, z, r, h
  <2>5. SplicesAt(h, target, p, s, z, r)
    BY <2>1, <2>2, <2>4, SpliceOne, Zenon
  <2>6. Splice(h, SubSeq(target, 1, z) \o r) = SubSeq(target, 1, p) \o R[g - 1]
    BY <2>3, <2>5 DEF SplicesAt
  <2>7. QED BY <2>6 DEF p, z, r, h
<1> HIDE DEF At
<1>5. E = body(E)
  <2>1. ASSUME NEW i \in X
        PROVE  E[i] = IF i = 0 THEN target ELSE Splice(hunkList[Len(hunkList) + 1 - i], E[i - 1])
    <3>1. CASE i = 0
      <4>1. N - 0 = N /\ 0 \in X
        BY <1>3
      <4>2. E[0] = At(N) \o R[N]
        BY <4>1
      <4>3. QED BY <1>3, <3>1, <4>2
    <3>2. CASE i # 0
      <4> DEFINE g == N + 1 - i
      <4>1. g \in 1 .. N /\ g - 1 = N - i /\ N - (i - 1) = g /\ i - 1 \in X
        BY <1>3, <3>2
      <4>2. E[i] = At(g - 1) \o R[g - 1]
        BY <4>1
      <4>3. E[i - 1] = At(g) \o R[g]
        BY <4>1
      <4> HIDE DEF g, E
      <4>4. Splice(hunkList[g], E[i - 1]) = E[i]
        BY <1>4, <4>1, <4>2, <4>3
      <4>5. g = Len(hunkList) + 1 - i
        BY DEF g
      <4>6. QED BY <3>2, <4>4, <4>5
    <3>3. QED BY <3>1, <3>2
  <2>2. E = [i \in X |-> E[i]]
    OBVIOUS
  <2> HIDE DEF E
  <2>3. QED BY <2>1, <2>2
<1> DEFINE G == CHOOSE f : f = body(f)
<1>6. G = body(G)
  BY <1>5, Zenon
<1>7. AllSpliced = G[N]
  BY DEF AllSpliced
<1> HIDE DEF G
<1> DEFINE T == { i \in X : G[i] = E[i] }
<1>8. \A i \in X : /\ G[i] = IF i = 0 THEN target ELSE Splice(hunkList[Len(hunkList) + 1 - i], G[i - 1])
                   /\ E[i] = IF i = 0 THEN target ELSE Splice(hunkList[Len(hunkList) + 1 - i], E[i - 1])
  <2>1. \A f : \A i \in X : body(f)[i] = IF i = 0 THEN target
                                         ELSE Splice(hunkList[Len(hunkList) + 1 - i], f[i - 1])
    OBVIOUS
  <2> HIDE DEF body, E, X
  <2>2. \A i \in X : G[i] = IF i = 0 THEN target ELSE Splice(hunkList[Len(hunkList) + 1 - i], G[i - 1])
    BY <1>6, <2>1
  <2>3. \A i \in X : E[i] = IF i = 0 THEN target ELSE Splice(hunkList[Len(hunkList) + 1 - i], E[i - 1])
    BY <1>5, <2>1
  <2>4. QED BY <2>2, <2>3
<1> HIDE DEF body, E
<1>9. 0 \in T
  <2>1. 0 \in X
    BY <1>3
  <2>2. QED BY <1>8, <2>1
<1>10. \A i \in 1 .. N : i - 1 \in T => i \in T
  <2>1. SUFFICES ASSUME NEW i \in 1 .. N, G[i - 1] = E[i - 1] PROVE G[i] = E[i]
    BY <1>3
  <2>2. i \in X /\ i # 0
    BY <1>3
  <2>3. QED BY <1>8, <2>1, <2>2
<1> HIDE DEF T
<1>11. \A i \in 0 .. N : i \in T
  BY <1>3, <1>9, <1>10, UpTo
<1>12. G[N] = E[N]
  <2>1. N \in T
    BY <1>3, <1>11
  <2>2. QED BY <2>1 DEF T
<1>13. E[N] = W
  <2>1. N - N = 0 /\ N \in X
    BY <1>3
  <2>2. E[N] = At(0) \o R[0]
    BY <2>1 DEF E
  <2>3. At(0) = << >>
    BY WholePart DEF At, EndOf
  <2>4. R[0] \in Seq(Lines)
    <3>1. 0 \in 0 .. N
      BY <1>3
    <3>2. QED BY <1>2, <3>1
  <2>5. << >> \o R[0] = R[0]
    BY <2>4
  <2>6. QED BY <1>2, <2>2, <2>3, <2>5
<1>14. QED BY <1>7, <1>12, <1>13

\* A walk to the end is over hunks that all fit.
LEMMA WalkedFits ==
    ASSUME Sound, NEW F, Walked(F, Len(hunkList))
    PROVE  AllFit
<1>1. DOMAIN hunkList = 1 .. Len(hunkList) /\ Len(hunkList) \in Nat
  BY DEF Sound
<1>2. \A i \in DOMAIN hunkList : Fits(hunkList[i])
  BY <1>1 DEF Walked
<1>3. ASSUME NEW i \in 1 .. Len(hunkList) - 1 PROVE InOrder(hunkList[i], hunkList[i + 1])
  <2>1. i + 1 \in 1 .. Len(hunkList) /\ i \in 1 .. Len(hunkList) /\ (i + 1) - 1 = i
    BY <1>1
  <2>2. EndOf(i) <= hunkList[i + 1].oldStart
    BY <2>1 DEF Walked
  <2>3. EndOf(i) = hunkList[i].oldStart + hunkList[i].oldLen
    BY <2>1, SoundParts
  <2>4. QED BY <2>2, <2>3 DEF InOrder
<1>4. QED BY <1>2, <1>3 DEF AllFit

\* What is applied is what replacing hunk by hunk gives.
LEMMA AppliedIs ==
    ASSUME Stages, Regions, Patching, stage = "applied"
    PROVE  Sound /\ target \in Seq(Lines) /\ out = AllSpliced /\ AllFit
<1>1. Held /\ target \in Seq(Lines)
  BY DEF Stages, Patching
<1>2. Sound
  BY <1>1, HeldIsSound
<1>3. PICK F : /\ Walked(F, Len(hunkList))
               /\ out = F[Len(hunkList)] \o SubSeq(target, EndOf(Len(hunkList)) + 1, Len(target))
  BY DEF Patching
<1>4. out = AllSpliced
  BY <1>1, <1>2, <1>3, AllSplicedIs
<1>5. QED BY <1>1, <1>2, <1>3, <1>4, WalkedFits

\* apply_hunks, walking forwards with one cursor, makes what replacing each
\* hunk in the text from the last to the first makes, and accepts just the
\* hunks that fit and do not overlap.
THEOREM AppliedIsSpliced == Spec => []ApplyIsSplice
<1>1. Regions /\ Stages /\ Patching => ApplyIsSplice
  <2>1. SUFFICES ASSUME Regions, Stages, Patching PROVE ApplyIsSplice
    OBVIOUS
  <2>2. stage = "applied" => out = AllSpliced
    BY <2>1, AppliedIs
  <2>3. ASSUME Over, open = NoHunk PROVE stage = "applied" <=> AllFit
    <3>1. CASE stage = "applied"
      BY <2>1, <3>1, AppliedIs
    <3>2. CASE stage = "refused"
      BY <2>1, <2>3, <3>2 DEF Patching
    <3>3. QED BY <2>3, <3>1, <3>2 DEF Over
  <2>4. QED BY <2>2, <2>3 DEF ApplyIsSplice, AllFit
<1>2. Spec => []Regions
  <2>1. Searching => Regions
    BY DEF Searching
  <2>2. QED BY <2>1, SearchingThroughout, PTL
<1>3. QED BY <1>1, <1>2, StagesThroughout, PatchingThroughout, PTL

-----------------------------------------------------------------------------
(* The hunks of a script make new of old *)

\* The first of two sequences of lines.
LEMMA FirstPart ==
    ASSUME NEW a \in Seq(Lines), NEW b \in Seq(Lines)
    PROVE  SubSeq(a \o b, 1, Len(a)) = a
<1>1. Len(a) \in Nat /\ Len(a) <= Len(a)
  OBVIOUS
<1>2. SubSeq(a \o b, 1, Len(a)) = SubSeq(a, 1, Len(a))
  BY <1>1, TwoParts, Zenon
<1>3. QED BY <1>2, WholePart

\* The middle of three sequences of lines.
LEMMA MiddlePart ==
    ASSUME NEW a \in Seq(Lines), NEW b \in Seq(Lines), NEW c \in Seq(Lines)
    PROVE  SubSeq((a \o b) \o c, Len(a) + 1, Len(a \o b)) = b /\ Len(a \o b) = Len(a) + Len(b)
           /\ Len(a \o b) <= Len((a \o b) \o c) /\ Len(a) <= Len(a \o b)
<1> DEFINE w == a \o b
           u == w \o c
<1>1. /\ SubSeq(w, Len(a) + 1, Len(w)) = b /\ w \in Seq(Lines) /\ Len(w) = Len(a) + Len(b)
      /\ Len(a) \in Nat /\ Len(b) \in Nat /\ Len(w) \in Nat
  <2>1. Len(a) \in Nat /\ Len(a) <= Len(a) /\ Len(b) \in Nat
    OBVIOUS
  <2>2. SubSeq(w, Len(a) + 1, Len(w)) = b
    <3>1. SubSeq(a \o b, Len(a) + 1, Len(a \o b)) = b
      BY <2>1, TwoParts, Zenon
    <3>2. QED BY <3>1
  <2>3. w \in Seq(Lines) /\ Len(w) = Len(a) + Len(b)
    BY ConcatProperties
  <2> HIDE DEF w
  <2>4. Len(w) \in Nat
    BY <2>3
  <2>5. QED BY <2>1, <2>2, <2>3, <2>4
<1> HIDE DEF w
<1>2. u \in Seq(Lines) /\ Len(u) = Len(w) + Len(c) /\ Len(c) \in Nat
  <2>1. w \in Seq(Lines)
    BY <1>1
  <2>2. w \o c \in Seq(Lines) /\ Len(w \o c) = Len(w) + Len(c)
    BY <2>1, ConcatProperties
  <2>3. Len(c) \in Nat
    OBVIOUS
  <2>4. QED BY <2>2, <2>3
<1>3. SubSeq(u, 1, Len(w)) = w
  BY <1>1, FirstPart
<1> HIDE DEF u
<1> DEFINE M == Len(a)
           N == Len(w)
<1>4. M \in Nat /\ N \in Nat /\ M <= N /\ N <= Len(u)
  BY <1>1, <1>2
<1>5. SubSeq(u, M + 1, N) = SubSeq(w, M + 1, N)
  <2>1. /\ SubSeq(u, M + 1, N) \in Seq(Lines) /\ Len(SubSeq(u, M + 1, N)) = N - M
        /\ \A i \in 1 .. N - M : SubSeq(u, M + 1, N)[i] = u[M + i]
    <3> HIDE DEF M, N
    <3>1. QED BY <1>2, <1>4, PartTyped
  <2>2. /\ SubSeq(w, M + 1, N) \in Seq(Lines) /\ Len(SubSeq(w, M + 1, N)) = N - M
        /\ \A i \in 1 .. N - M : SubSeq(w, M + 1, N)[i] = w[M + i]
    <3>1. N <= Len(w)
      BY <1>4
    <3> HIDE DEF M, N
    <3>2. QED BY <1>1, <1>4, <3>1, PartTyped
  <2>3. \A i \in 1 .. N - M : u[M + i] = w[M + i]
    <3>1. SUFFICES ASSUME NEW i \in 1 .. N - M PROVE u[M + i] = w[M + i]
      OBVIOUS
    <3> HIDE DEF M, N
    <3>2. M + i \in 1 .. N - 0 /\ 0 + (M + i) = M + i /\ 0 + 1 = 1 /\ 0 <= N
      BY <1>4
    <3>3. \A g \in 1 .. N - 0 : SubSeq(u, 0 + 1, N)[g] = u[0 + g]
      BY <1>2, <1>4, <3>2, PartTyped
    <3>4. SubSeq(u, 1, N) = w
      BY <1>3 DEF N
    <3>5. QED BY <3>2, <3>3, <3>4
  <2> DEFINE x1 == SubSeq(u, M + 1, N)
             x2 == SubSeq(w, M + 1, N)
             K == N - M
  <2>4. x1 \in Seq(Lines) /\ x2 \in Seq(Lines) /\ Len(x1) = K /\ Len(x2) = K
        /\ \A i \in 1 .. K : x1[i] = x2[i]
    BY <2>1, <2>2, <2>3
  <2> HIDE DEF x1, x2, K
  <2>5. x1 = x2
    BY <2>4, SameSequence
  <2>6. QED BY <2>5 DEF x1, x2
<1>6. QED BY <1>1, <1>4, <1>5 DEF w, u

\* The sides of a part of a script, within the sides of the whole.
LEMMA SideParts ==
    ASSUME NEW s \in Seq(EditSet), NEW a \in Nat, NEW b \in Nat, a <= b, b <= Len(s)
    PROVE  /\ SubSeq(s, 1, a) \in Seq(EditSet) /\ SubSeq(s, 1, b) \in Seq(EditSet)
           /\ SubSeq(s, a + 1, b) \in Seq(EditSet)
           /\ NewSide(SubSeq(s, 1, b)) = NewSide(SubSeq(s, 1, a)) \o NewSide(SubSeq(s, a + 1, b))
           /\ Len(OldSide(SubSeq(s, 1, a))) \in Nat /\ Len(OldSide(SubSeq(s, a + 1, b))) \in Nat
           /\ Len(OldSide(SubSeq(s, 1, b)))
                = Len(OldSide(SubSeq(s, 1, a))) + Len(OldSide(SubSeq(s, a + 1, b)))
           /\ Len(OldSide(SubSeq(s, 1, b))) <= Len(OldSide(s))
           /\ Len(OldSide(SubSeq(s, 1, a))) <= Len(OldSide(SubSeq(s, 1, b)))
           /\ SubSeq(OldSide(s), Len(OldSide(SubSeq(s, 1, a))) + 1, Len(OldSide(SubSeq(s, 1, b))))
                = OldSide(SubSeq(s, a + 1, b))
<1> DEFINE p == SubSeq(s, 1, a)
           w == SubSeq(s, a + 1, b)
           q == SubSeq(s, 1, b)
           r == SubSeq(s, b + 1, Len(s))
<1>1. Len(s) \in Nat /\ Len(s) <= Len(s) /\ a <= Len(s)
  OBVIOUS
<1>2. p \in Seq(EditSet) /\ q \in Seq(EditSet) /\ w \in Seq(EditSet) /\ r \in Seq(EditSet)
  BY <1>1
<1>3. p \o w = q
  BY PrefixGrows, SMTT(30)
<1>4. q \o r = s
  <2> DEFINE L == Len(s)
  <2>1. L \in Nat /\ L <= Len(s) /\ b <= L
    BY <1>1
  <2> HIDE DEF L
  <2>2. SubSeq(s, 1, b) \o SubSeq(s, b + 1, L) = SubSeq(s, 1, L)
    BY <2>1, PrefixGrows
  <2>3. SubSeq(s, 1, Len(s)) = s
    BY WholePart
  <2>4. QED BY <2>2, <2>3, Zenon DEF L
<1> HIDE DEF p, w, q, r
<1>5. /\ OldSide(p \o w) = OldSide(p) \o OldSide(w) /\ NewSide(p \o w) = NewSide(p) \o NewSide(w)
  BY <1>2, SidesConcat
<1>6. OldSide(q \o r) = OldSide(q) \o OldSide(r)
  BY <1>2, SidesConcat
<1> DEFINE x1 == OldSide(p)
           x2 == OldSide(w)
           x3 == OldSide(r)
<1>7. x1 \in Seq(Lines) /\ x2 \in Seq(Lines) /\ x3 \in Seq(Lines) /\ Len(x1) \in Nat /\ Len(x2) \in Nat
  BY <1>2, SidesType
<1>8. OldSide(q) = x1 \o x2 /\ OldSide(s) = (x1 \o x2) \o x3
  BY <1>3, <1>4, <1>5, <1>6
<1> HIDE DEF x1, x2, x3
<1>9. /\ SubSeq((x1 \o x2) \o x3, Len(x1) + 1, Len(x1 \o x2)) = x2 /\ Len(x1 \o x2) = Len(x1) + Len(x2)
      /\ Len(x1 \o x2) <= Len((x1 \o x2) \o x3) /\ Len(x1) <= Len(x1 \o x2)
  BY <1>7, MiddlePart
<1>10. NewSide(q) = NewSide(p) \o NewSide(w)
  BY <1>3, <1>5
<1>11. /\ Len(x1) \in Nat /\ Len(x2) \in Nat /\ Len(OldSide(q)) = Len(x1) + Len(x2)
       /\ Len(OldSide(q)) <= Len(OldSide(s)) /\ Len(x1) <= Len(OldSide(q))
       /\ SubSeq(OldSide(s), Len(x1) + 1, Len(OldSide(q))) = x2
  BY <1>7, <1>8, <1>9
<1>12. QED BY <1>2, <1>10, <1>11 DEF p, q, w, x1, x2

\* A script that changes nothing has one text on both sides.
LEMMA UnchangedSides ==
    ASSUME NEW s \in Seq(EditSet), \A i \in 1 .. Len(s) : ~IsChange(s[i])
    PROVE  OldSide(s) = NewSide(s) /\ OldSide(s) \in Seq(Lines)
<1> DEFINE t == [i \in 1 .. Len(s) |-> s[i].line]
<1>1. Len(s) \in Nat /\ \A i \in 1 .. Len(s) : s[i] \in EditSet
  OBVIOUS
<1>2. \A i \in 1 .. Len(s) : s[i].line \in Lines /\ s[i] = [kind |-> "keep", line |-> s[i].line]
  <2>1. SUFFICES ASSUME NEW i \in 1 .. Len(s)
                 PROVE  s[i].line \in Lines /\ s[i] = [kind |-> "keep", line |-> s[i].line]
    OBVIOUS
  <2>2. s[i].kind = "keep"
    BY DEF IsChange
  <2>3. s[i].line \in Lines /\ s[i] = [kind |-> s[i].kind, line |-> s[i].line]
    BY <1>1, EditsAre
  <2>4. QED BY <2>2, <2>3
<1>3. t \in Seq(Lines) /\ Len(t) = Len(s) /\ \A i \in 1 .. Len(t) : s[i] = [kind |-> "keep", line |-> t[i]]
  <2>1. t \in Seq(Lines) /\ Len(t) = Len(s)
    <3> DEFINE N == Len(s)
    <3>1. N \in Nat /\ \A i \in 1 .. N : s[i].line \in Lines
      BY <1>1, <1>2
    <3>2. t = [i \in 1 .. N |-> s[i].line]
      OBVIOUS
    <3> HIDE DEF N, t
    <3>3. t \in Seq(Lines) /\ Len(t) = N
      BY <3>1, <3>2
    <3>4. QED BY <3>3 DEF N
  <2>2. \A i \in 1 .. Len(s) : t[i] = s[i].line
    OBVIOUS
  <2> HIDE DEF t
  <2>3. QED BY <1>2, <2>1, <2>2
<1> HIDE DEF t
<1>4. /\ OldSide(s) = (IF "keep" = "insert" THEN << >> ELSE t)
      /\ NewSide(s) = (IF "keep" = "delete" THEN << >> ELSE t)
  BY <1>3, SidesOfRun
<1>5. QED BY <1>3, <1>4

\* The last of appended lines is where it was appended.
LEMMA AppendedLast ==
    ASSUME NEW u \in Seq(Lines), NEW l \in Lines
    PROVE  Append(u, l)[Len(u) + 1] = l /\ Len(Append(u, l)) = Len(u) + 1 /\ Len(u) \in Nat
OBVIOUS

\* A line appended to the beginning of a sequence is held by it.
LEMMA AppendedHeld ==
    ASSUME NEW u \in Seq(Lines), NEW l \in Lines, NEW w, NEW t \in Seq(Lines), w = Append(u, l),
           Len(w) <= Len(t), \A z \in 1 .. Len(w) : t[z] = w[z]
    PROVE  l \in Range(t) /\ Len(t) > 0
<1> DEFINE g == Len(u) + 1
<1>1. w[g] = l /\ Len(w) = g /\ g \in Nat /\ g > 0
  BY AppendedLast
<1>2. Len(t) \in Nat
  OBVIOUS
<1> HIDE DEF g
<1>3. t[g] = l /\ g \in 1 .. Len(t) /\ Len(t) > 0
  BY <1>1, <1>2
<1>4. g \in DOMAIN t
  BY <1>3
<1>5. QED BY <1>3, <1>4 DEF Range

\* The line of an edit is a line of the old side or of the new.
LEMMA LineBelongs ==
    ASSUME NEW s \in Seq(EditSet), NEW i \in 1 .. Len(s)
    PROVE  /\ InOld(s[i]) => s[i].line \in Range(OldSide(s)) /\ Len(OldSide(s)) > 0
           /\ s[i].line \in Range(OldSide(s)) \cup Range(NewSide(s))
<1> DEFINE l == s[i].line
           a == SubSeq(s, 1, i - 1)
           b == SubSeq(s, 1, i)
<1>1. /\ s[i] \in EditSet /\ l \in Lines /\ OldSide(a) \in Seq(Lines) /\ NewSide(a) \in Seq(Lines)
      /\ OldSide(b) = (IF InOld(s[i]) THEN Append(OldSide(a), l) ELSE OldSide(a))
      /\ NewSide(b) = (IF InNew(s[i]) THEN Append(NewSide(a), l) ELSE NewSide(a))
  BY SidesUpto
<1>2. i \in 0 .. Len(s)
  OBVIOUS
<1>3. /\ OldSide(s) \in Seq(Lines) /\ Len(OldSide(b)) \in Nat /\ Len(OldSide(s)) \in Nat
      /\ Len(OldSide(b)) <= Len(OldSide(s))
      /\ \A g \in 1 .. Len(OldSide(b)) : OldSide(s)[g] = OldSide(b)[g]
  BY <1>2, OldSideBegins
<1>4. /\ NewSide(s) \in Seq(Lines) /\ Len(NewSide(b)) \in Nat /\ Len(NewSide(s)) \in Nat
      /\ Len(NewSide(b)) <= Len(NewSide(s))
      /\ \A g \in 1 .. Len(NewSide(b)) : NewSide(s)[g] = NewSide(b)[g]
  BY <1>2, NewSideBegins
<1> HIDE DEF l, a, b
<1>5. ASSUME InOld(s[i]) PROVE l \in Range(OldSide(s)) /\ Len(OldSide(s)) > 0
  BY <1>1, <1>3, <1>5, AppendedHeld
<1>6. ASSUME InNew(s[i]) PROVE l \in Range(NewSide(s))
  BY <1>1, <1>4, <1>6, AppendedHeld
<1>7. InOld(s[i]) \/ InNew(s[i])
  BY <1>1 DEF InOld, InNew, EditSet
<1>8. QED BY <1>5, <1>6, <1>7 DEF l

\* A hunk without a line that a text file would not give back is read as it is.
LEMMA ReadSame ==
    ASSUME NEW h \in HunkSet, \A i \in 1 .. Len(h.edits) : Chomp[h.edits[i].line] = h.edits[i].line
    PROVE  /\ AsRead(h).edits = h.edits /\ AsRead(h).oldLen = h.oldLen
           /\ AsRead(h).oldStart = IF h.oldLen = 0 THEN 0 ELSE h.oldStart
<1> DEFINE e == h.edits
           q == AsEdits(e)
<1>1. e \in Seq(EditSet)
  BY DEF HunkSet
<1>2. AsRead(h) = Opened(h, e)
  BY OpenedWhole
<1>3. /\ q \in Seq(EditSet) /\ Len(q) = Len(e) /\ \A i \in 1 .. Len(e) : q[i] = AsEdit(e[i])
  BY <1>1, AsEditsIs
<1>4. ASSUME NEW i \in 1 .. Len(e) PROVE AsEdit(e[i]) = e[i]
  <2>1. e[i] \in EditSet /\ Chomp[e[i].line] = e[i].line
    BY <1>1
  <2>2. e[i] = [kind |-> e[i].kind, line |-> e[i].line]
    BY <2>1, EditsAre
  <2>3. QED BY <2>1, <2>2 DEF AsEdit
<1> HIDE DEF e, q
<1>5. q = e
  BY <1>1, <1>3, <1>4, SameSequence
<1>6. QED BY <1>2, <1>5 DEF Opened, q, e

\* The script leads from the old text to the new.
Leads ==
    /\ script \in Seq(EditSet) /\ old \in Seq(Lines) /\ new \in Seq(Lines)
    /\ OldSide(script) = old /\ NewSide(script) = new

\* Nothing is lost in the text form.
Legible == context > 0 /\ ~HasCarriageReturn

\* Of each hunk, apply_hunks has what the diff made of it.
AsMade ==
    /\ Len(hunkList) = Len(hunks)
    /\ \A i \in 1 .. Len(hunkList) :
         /\ hunkList[i].oldStart = hunks[i].oldStart
         /\ hunkList[i].oldLen = hunks[i].oldLen
         /\ hunkList[i].edits = hunks[i].edits

\* What a hunk of the script is made of.
LEMMA HunkLies ==
    ASSUME HunksLie, script \in Seq(EditSet), NEW j \in 1 .. Len(hunks)
    PROVE  /\ From(j) \in Nat /\ Upto(j) \in Nat /\ From(j) < Upto(j) /\ From(j) <= Upto(j)
           /\ Upto(j) <= Len(script) /\ From(j) <= Len(script) /\ Len(script) \in Nat
           /\ hunks[j].oldStart = Len(OldSide(SubSeq(script, 1, From(j))))
           /\ hunks[j].oldLen = Len(OldSide(SubSeq(script, From(j) + 1, Upto(j))))
           /\ hunks[j].edits = SubSeq(script, From(j) + 1, Upto(j))
           /\ hunks[j].oldStart + hunks[j].oldLen = Len(OldSide(SubSeq(script, 1, Upto(j))))
<1> DEFINE a == From(j)
           b == Upto(j)
           h == hunks[j]
           L == Len(script)
<1>1. a \in Nat /\ b \in Nat /\ a < b /\ b <= L /\ h = HunkAt(a, b) /\ L \in Nat
  BY DEF HunksLie
<1> HIDE DEF a, b, h, L
<1>2. a <= b /\ a <= L
  BY <1>1
<1>3. /\ h.oldStart = Len(OldSide(SubSeq(script, 1, a)))
      /\ h.oldLen = Len(OldSide(SubSeq(script, a + 1, b)))
      /\ h.edits = SubSeq(script, a + 1, b)
  BY <1>1 DEF HunkAt
<1>4. Len(OldSide(SubSeq(script, 1, b)))
        = Len(OldSide(SubSeq(script, 1, a))) + Len(OldSide(SubSeq(script, a + 1, b)))
  <2>1. b <= Len(script)
    BY <1>1 DEF L
  <2>2. QED BY <1>1, <1>2, <2>1, SideParts
<1>5. h.oldStart + h.oldLen = Len(OldSide(SubSeq(script, 1, b)))
  BY <1>3, <1>4
<1>6. QED BY <1>1, <1>2, <1>3, <1>5 DEF a, b, h, L

\* Where something of a hunk's context is shown, or its beginning is that of
\* the text, its position survives the text form.
LEMMA StartKept ==
    ASSUME HunksLie, script \in Seq(EditSet), context > 0, NEW j \in 1 .. Len(hunks), hunks[j].oldLen = 0
    PROVE  hunks[j].oldStart = 0
<1> DEFINE a == From(j)
           b == Upto(j)
           w == SubSeq(script, a + 1, b)
<1>1. /\ a \in Nat /\ b \in Nat /\ a < b /\ a <= b /\ b <= Len(script)
      /\ hunks[j].oldStart = Len(OldSide(SubSeq(script, 1, a)))
      /\ hunks[j].oldLen = Len(OldSide(w))
  BY HunkLies
<1>2. CASE a = 0
  <2>1. SubSeq(script, 1, 0) = << >> /\ OldSide(<< >>) = << >> /\ Len(<< >>) = 0
    BY WholePart, SidesEmpty
  <2>2. QED BY <1>1, <1>2, <2>1
<1>3. CASE a # 0
  <2>1. ~IsChange(script[a + 1])
    <3>1. From(j) > 0
      BY <1>1, <1>3
    <3>2. QED BY <3>1 DEF HunksLie
  <2> HIDE DEF a, b
  <2>2. w \in Seq(EditSet) /\ Len(w) = b - a /\ \A i \in 1 .. b - a : w[i] = script[a + i]
    BY <1>1, PartTyped
  <2>3. 1 \in 1 .. b - a
    BY <1>1
  <2>4. w[1] = script[a + 1] /\ 1 \in 1 .. Len(w)
    BY <2>2, <2>3
  <2> HIDE DEF w
  <2>5. InOld(w[1])
    BY <2>1, <2>4 DEF IsChange, InOld
  <2>6. Len(OldSide(w)) > 0
    BY <2>2, <2>4, <2>5, LineBelongs
  <2>7. QED BY <1>1, <2>6 DEF a, b, w
<1>4. QED BY <1>2, <1>3

\* Lines that the text form keeps are read as they were written.
LEMMA LinesKept ==
    ASSUME Leads, ~HasCarriageReturn, NEW i \in 1 .. Len(script)
    PROVE  Chomp[script[i].line] = script[i].line
<1>1. script[i].line \in Range(OldSide(script)) \cup Range(NewSide(script))
  BY LineBelongs DEF Leads
<1>2. script[i].line \in Range(old) \cup Range(new)
  BY <1>1 DEF Leads
<1>3. QED BY <1>2 DEF HasCarriageReturn

\* What apply_hunks has of a diff that was never written, or arrived whole.
LEMMA HeldAsMade ==
    ASSUME Held, HunksLie, Leads,
           travelled = "direct" \/ (travelled \in {"intact", "mailed"} /\ Legible)
    PROVE  AsMade
<1>1. hunks \in Seq(HunkSet) /\ script \in Seq(EditSet)
  BY DEF HunksLie, Leads
<1>2. CASE travelled = "direct"
  BY <1>2 DEF Held, AsMade
<1>3. CASE travelled \in {"intact", "mailed"} /\ Legible
  <2>1. Len(hunkList) = Len(hunks) /\ \A i \in 1 .. Len(hunkList) : hunkList[i] = AsRead(hunks[i])
    BY <1>3 DEF Held
  <2>2. ASSUME NEW i \in 1 .. Len(hunks)
        PROVE  /\ AsRead(hunks[i]).edits = hunks[i].edits /\ AsRead(hunks[i]).oldLen = hunks[i].oldLen
               /\ AsRead(hunks[i]).oldStart = hunks[i].oldStart
    <3> DEFINE h == hunks[i]
               a == From(i)
               b == Upto(i)
    <3>1. /\ a \in Nat /\ b \in Nat /\ a <= b /\ b <= Len(script) /\ h.edits = SubSeq(script, a + 1, b)
      BY <1>1, HunkLies
    <3>2. h \in HunkSet
      BY <1>1
    <3>3. h.oldLen = 0 => h.oldStart = 0
      BY <1>1, <1>3, StartKept DEF Legible
    <3>4. ASSUME NEW g \in 1 .. Len(h.edits) PROVE Chomp[h.edits[g].line] = h.edits[g].line
      <4> HIDE DEF a, b
      <4>1. /\ Len(SubSeq(script, a + 1, b)) = b - a
            /\ \A q \in 1 .. b - a : SubSeq(script, a + 1, b)[q] = script[a + q]
        BY <1>1, <3>1, PartTyped
      <4>2. g \in 1 .. b - a /\ h.edits[g] = script[a + g]
        BY <3>1, <4>1
      <4>3. a + g \in 1 .. Len(script)
        BY <1>1, <3>1, <4>2
      <4>4. QED BY <1>3, <4>2, <4>3, LinesKept DEF Legible
    <3> HIDE DEF h
    <3>5. /\ AsRead(h).edits = h.edits /\ AsRead(h).oldLen = h.oldLen
          /\ AsRead(h).oldStart = IF h.oldLen = 0 THEN 0 ELSE h.oldStart
      BY <3>2, <3>4, ReadSame
    <3>6. QED BY <3>3, <3>5 DEF h
  <2>3. QED BY <2>1, <2>2 DEF AsMade
<1>4. QED BY <1>2, <1>3

\* The hunks fit the text they were made from.
LEMMA MadeFits ==
    ASSUME Leads, HunksLie, AsMade, target = old, DOMAIN hunkList = 1 .. Len(hunkList),
           Len(hunkList) \in Nat
    PROVE  AllFit
<1>1. script \in Seq(EditSet)
  BY DEF Leads
<1>2. ASSUME NEW i \in 1 .. Len(hunkList) PROVE Fits(hunkList[i])
  <2> DEFINE a == From(i)
             b == Upto(i)
             h == hunkList[i]
             g == hunks[i]
  <2>1. i \in 1 .. Len(hunks) /\ h.oldStart = g.oldStart /\ h.oldLen = g.oldLen /\ h.edits = g.edits
    BY DEF AsMade
  <2>2. /\ a \in Nat /\ b \in Nat /\ a <= b /\ b <= Len(script)
        /\ g.oldStart = Len(OldSide(SubSeq(script, 1, a)))
        /\ g.oldStart + g.oldLen = Len(OldSide(SubSeq(script, 1, b)))
        /\ g.edits = SubSeq(script, a + 1, b)
    BY <1>1, <2>1, HunkLies
  <2> HIDE DEF a, b, g
  <2>3. /\ Len(OldSide(SubSeq(script, 1, b))) <= Len(OldSide(script))
        /\ SubSeq(OldSide(script), Len(OldSide(SubSeq(script, 1, a))) + 1, Len(OldSide(SubSeq(script, 1, b))))
             = OldSide(SubSeq(script, a + 1, b))
    BY <1>1, <2>2, SideParts
  <2>4. OldSide(script) = target
    BY DEF Leads
  <2>5. g.oldStart + g.oldLen <= Len(target)
    BY <2>2, <2>3, <2>4
  <2>6. SubSeq(target, g.oldStart + 1, g.oldStart + g.oldLen) = OldSide(g.edits)
    BY <2>2, <2>3, <2>4
  <2>7. h.oldStart + h.oldLen = g.oldStart + g.oldLen
    BY <2>1
  <2>8. QED BY <2>1, <2>5, <2>6, <2>7 DEF Fits
<1>3. ASSUME NEW i \in 1 .. Len(hunkList) - 1 PROVE InOrder(hunkList[i], hunkList[i + 1])
  <2> DEFINE j == i + 1
             b == Upto(i)
             a == From(j)
  <2>1. i \in 1 .. Len(hunks) /\ j \in 1 .. Len(hunks) /\ i < j
        /\ i \in 1 .. Len(hunkList) /\ j \in 1 .. Len(hunkList)
    BY DEF AsMade
  <2>2. hunkList[i].oldStart + hunkList[i].oldLen = Len(OldSide(SubSeq(script, 1, b))) /\ b \in Nat
    <3>1. hunkList[i].oldStart = hunks[i].oldStart /\ hunkList[i].oldLen = hunks[i].oldLen
      BY <2>1 DEF AsMade
    <3>2. hunks[i].oldStart + hunks[i].oldLen = Len(OldSide(SubSeq(script, 1, b))) /\ b \in Nat
      BY <1>1, <2>1, HunkLies
    <3>3. QED BY <3>1, <3>2
  <2> HIDE DEF j
  <2>3. hunkList[j].oldStart = Len(OldSide(SubSeq(script, 1, a))) /\ a \in Nat /\ a <= Len(script)
    <3>1. hunkList[j].oldStart = hunks[j].oldStart
      BY <2>1 DEF AsMade
    <3>2. hunks[j].oldStart = Len(OldSide(SubSeq(script, 1, a))) /\ a \in Nat /\ a <= Len(script)
      BY <1>1, <2>1, HunkLies
    <3>3. QED BY <3>1, <3>2
  <2>4. b <= a
    BY <2>1 DEF HunksLie
  <2> HIDE DEF a, b
  <2>5. Len(OldSide(SubSeq(script, 1, b))) <= Len(OldSide(SubSeq(script, 1, a)))
    BY <1>1, <2>2, <2>3, <2>4, SideParts
  <2>6. QED BY <2>2, <2>3, <2>5 DEF InOrder, j
<1>4. QED BY <1>2, <1>3 DEF AllFit

\* How many edits are done with the i-th hunk, and how many before it or,
\* behind the last, in all.
Done(i) == IF i = 0 THEN 0 ELSE Upto(i)
Coming(i) == IF i = Len(hunks) + 1 THEN Len(script) ELSE From(i)

\* Between two hunks nothing is changed.
LEMMA NothingBetween ==
    ASSUME HunksLie, script \in Seq(EditSet), NEW i \in 1 .. Len(hunks) + 1
    PROVE  /\ Done(i - 1) \in Nat /\ Coming(i) \in Nat /\ Done(i - 1) <= Coming(i)
           /\ Coming(i) <= Len(script)
           /\ \A q \in 1 .. Len(script) : Done(i - 1) < q /\ q <= Coming(i) => ~IsChange(script[q])
<1> DEFINE N == Len(hunks)
           L == Len(script)
           a == Done(i - 1)
           b == Coming(i)
           g == i - 1
<1>1. N \in Nat /\ L \in Nat /\ i \in Nat
  BY DEF HunksLie
<1>2. \A j \in 1 .. N : From(j) \in Nat /\ Upto(j) \in Nat /\ From(j) < Upto(j) /\ Upto(j) <= L
  BY HunkLies
<1>3. \A c, j \in 1 .. N : c < j => Upto(c) <= From(j)
  BY DEF HunksLie
<1>4. i - 1 # 0 => g \in 1 .. N /\ a = Upto(g)
  BY <1>1 DEF Done
<1>5. i - 1 = 0 => a = 0
  BY DEF Done
<1>6. i # N + 1 => i \in 1 .. N /\ b = From(i)
  BY <1>1 DEF Coming
<1>7. i = N + 1 => b = L
  BY DEF Coming
<1>8. a \in Nat /\ a <= L
  BY <1>1, <1>2, <1>4, <1>5
<1>9. b \in Nat /\ b <= L
  <2>1. CASE i = N + 1
    BY <1>1, <1>7, <2>1
  <2>2. CASE i # N + 1
    <3>1. b \in Nat /\ b < Upto(i) /\ Upto(i) <= L /\ Upto(i) \in Nat
      BY <1>2, <1>6, <2>2
    <3> HIDE DEF b
    <3>2. QED BY <1>1, <3>1
  <2>3. QED BY <2>1, <2>2
<1> HIDE DEF a, b
<1>10. a <= b
  <2>1. CASE i - 1 = 0
    BY <1>5, <1>9, <2>1
  <2>2. CASE i = N + 1
    BY <1>7, <1>8, <2>2
  <2>3. CASE i - 1 # 0 /\ i # N + 1
    <3>1. g < i
      BY <1>1
    <3> HIDE DEF g
    <3>2. g \in 1 .. N /\ i \in 1 .. N /\ a = Upto(g) /\ b = From(i)
      BY <1>4, <1>6, <2>3 DEF g
    <3>3. QED BY <1>3, <3>1, <3>2
  <2>4. QED BY <2>1, <2>2, <2>3
<1>11. ASSUME NEW q \in 1 .. L, a < q, q <= b, IsChange(script[q]) PROVE FALSE
  <2>1. PICK j \in 1 .. N : From(j) < q /\ q <= Upto(j)
    BY <1>11 DEF HunksLie
  <2>2. From(j) \in Nat /\ Upto(j) \in Nat /\ From(j) < Upto(j) /\ j \in Nat /\ q \in Nat
    BY <1>1, <1>2
  <2>3. CASE j < i
    <3>1. i - 1 # 0 /\ (j = g \/ j < g)
      BY <1>1, <2>2, <2>3
    <3> HIDE DEF g
    <3>2. g \in 1 .. N /\ a = Upto(g)
      BY <1>4, <3>1 DEF g
    <3>3. CASE j = g
      BY <1>8, <1>11, <2>1, <2>2, <3>2, <3>3
    <3>4. CASE j < g
      <4>1. Upto(j) <= From(g)
        BY <1>3, <3>2, <3>4
      <4>2. From(g) \in Nat /\ Upto(g) \in Nat /\ From(g) < Upto(g)
        BY <1>2, <3>2
      <4> DEFINE x1 == Upto(j)
                 x2 == From(g)
      <4>3. x1 \in Nat /\ x2 \in Nat /\ x1 <= x2 /\ x2 < a /\ q <= x1
        BY <2>1, <2>2, <3>2, <4>1, <4>2
      <4> HIDE DEF x1, x2
      <4>4. QED BY <1>8, <1>11, <2>2, <4>3
    <3>5. QED BY <3>1, <3>3, <3>4
  <2>4. CASE ~(j < i)
    <3>1. i # N + 1 /\ (j = i \/ i < j)
      BY <1>1, <2>2, <2>4
    <3>2. i \in 1 .. N /\ b = From(i)
      BY <1>6, <3>1
    <3>3. CASE j = i
      BY <1>9, <1>11, <2>1, <2>2, <3>2, <3>3
    <3>4. CASE i < j
      <4>1. Upto(i) <= From(j)
        BY <1>3, <3>2, <3>4
      <4>2. Upto(i) \in Nat /\ b < Upto(i)
        BY <1>2, <3>2
      <4> DEFINE x1 == Upto(i)
                 x2 == From(j)
      <4>3. x1 \in Nat /\ x2 \in Nat /\ x1 <= x2 /\ b < x1 /\ x2 < q
        BY <2>1, <2>2, <4>1, <4>2
      <4> HIDE DEF x1, x2
      <4>4. QED BY <1>9, <1>11, <2>2, <4>3
    <3>5. QED BY <3>1, <3>3, <3>4
  <2>5. QED BY <2>3, <2>4
<1>12. QED BY <1>8, <1>9, <1>10, <1>11 DEF a, b

\* So what is between two hunks is the same in both texts.
LEMMA SameBetween ==
    ASSUME HunksLie, Leads, NEW i \in 1 .. Len(hunks) + 1
    PROVE  NewSide(SubSeq(script, 1, Coming(i)))
             = NewSide(SubSeq(script, 1, Done(i - 1))) \o
               SubSeq(old, Len(OldSide(SubSeq(script, 1, Done(i - 1)))) + 1,
                           Len(OldSide(SubSeq(script, 1, Coming(i)))))
<1> DEFINE a == Done(i - 1)
           b == Coming(i)
           w == SubSeq(script, a + 1, b)
<1>1. script \in Seq(EditSet) /\ OldSide(script) = old
  BY DEF Leads
<1>2. /\ a \in Nat /\ b \in Nat /\ a <= b /\ b <= Len(script)
      /\ \A q \in 1 .. Len(script) : a < q /\ q <= b => ~IsChange(script[q])
  BY <1>1, NothingBetween
<1> HIDE DEF a, b
<1>3. /\ NewSide(SubSeq(script, 1, b)) = NewSide(SubSeq(script, 1, a)) \o NewSide(w)
      /\ SubSeq(OldSide(script), Len(OldSide(SubSeq(script, 1, a))) + 1,
                                 Len(OldSide(SubSeq(script, 1, b)))) = OldSide(w)
  BY <1>1, <1>2, SideParts
<1>4. w \in Seq(EditSet) /\ Len(w) = b - a /\ \A q \in 1 .. b - a : w[q] = script[a + q]
  BY <1>1, <1>2, PartTyped
<1>5. ASSUME NEW q \in 1 .. Len(w) PROVE ~IsChange(w[q])
  <2>1. q \in 1 .. b - a /\ w[q] = script[a + q]
    BY <1>4
  <2>2. a + q \in 1 .. Len(script) /\ a < a + q /\ a + q <= b
    BY <1>1, <1>2, <2>1
  <2>3. ~IsChange(script[a + q])
    BY <1>2, <2>2
  <2>4. QED BY <2>1, <2>3
<1> HIDE DEF w
<1>6. OldSide(w) = NewSide(w)
  BY <1>4, <1>5, UnchangedSides
<1>7. QED BY <1>1, <1>3, <1>6 DEF a, b

\* After the i-th hunk the walk is at the end of its old side and has made
\* the new side of the script so far.
LEMMA WalkMakes ==
    ASSUME Leads, HunksLie, AsMade, Sound, target = old, NEW F, Walked(F, Len(hunkList))
    PROVE  \A i \in 0 .. Len(hunkList) :
             /\ EndOf(i) = Len(OldSide(SubSeq(script, 1, Done(i))))
             /\ F[i] = NewSide(SubSeq(script, 1, Done(i)))
<1> DEFINE N == Len(hunkList)
           T == { i \in 0 .. N : F[i] = NewSide(SubSeq(script, 1, Done(i))) }
<1>1. /\ N \in Nat /\ N = Len(hunks) /\ script \in Seq(EditSet) /\ target \in Seq(Lines)
      /\ F[0] = << >>
  BY DEF Sound, AsMade, Leads, Walked
<1>2. SubSeq(script, 1, 0) = << >> /\ OldSide(<< >>) = << >> /\ NewSide(<< >>) = << >> /\ Len(<< >>) = 0
  BY <1>1, WholePart, SidesEmpty
<1>3. ASSUME NEW i \in 0 .. N PROVE EndOf(i) = Len(OldSide(SubSeq(script, 1, Done(i))))
  <2>1. CASE i = 0
    BY <1>2, <2>1 DEF EndOf, Done
  <2>2. CASE i # 0
    <3>1. i \in 1 .. Len(hunks) /\ i \in 1 .. N
      BY <1>1, <2>2
    <3>2. hunks[i].oldStart + hunks[i].oldLen = Len(OldSide(SubSeq(script, 1, Upto(i))))
      BY <1>1, <3>1, HunkLies
    <3>3. hunkList[i].oldStart = hunks[i].oldStart /\ hunkList[i].oldLen = hunks[i].oldLen
      BY <3>1 DEF AsMade
    <3>4. QED BY <2>2, <3>2, <3>3 DEF EndOf, Done
  <2>3. QED BY <2>1, <2>2
<1>4. 0 \in T
  <2>1. Done(0) = 0 /\ 0 \in 0 .. N
    BY <1>1 DEF Done
  <2>2. F[0] = NewSide(SubSeq(script, 1, 0))
    BY <1>1, <1>2
  <2>3. QED BY <2>1, <2>2
<1>5. \A i \in 1 .. N : i - 1 \in T => i \in T
  <2>1. SUFFICES ASSUME NEW i \in 1 .. N, F[i - 1] = NewSide(SubSeq(script, 1, Done(i - 1)))
                 PROVE  F[i] = NewSide(SubSeq(script, 1, Done(i)))
    BY <1>1
  <2> DEFINE a == From(i)
             b == Upto(i)
  <2>2. i \in 1 .. Len(hunks) /\ i \in 1 .. Len(hunks) + 1 /\ i # 0 /\ i # Len(hunks) + 1 /\ i - 1 \in 0 .. N
    BY <1>1
  <2>3. /\ F[i] = (F[i - 1] \o Gap(i)) \o NewSide(hunkList[i].edits)
    BY DEF Walked
  <2>4. /\ a \in Nat /\ b \in Nat /\ a <= b /\ b <= Len(script)
        /\ hunks[i].oldStart = Len(OldSide(SubSeq(script, 1, a)))
        /\ hunks[i].edits = SubSeq(script, a + 1, b)
    BY <1>1, <2>2, HunkLies
  <2>5. Coming(i) = a /\ Done(i) = b
    BY <2>2 DEF Coming, Done
  <2>6. hunkList[i].oldStart = hunks[i].oldStart /\ hunkList[i].edits = hunks[i].edits
    BY DEF AsMade
  <2>7. NewSide(SubSeq(script, 1, a))
          = NewSide(SubSeq(script, 1, Done(i - 1))) \o
            SubSeq(old, Len(OldSide(SubSeq(script, 1, Done(i - 1)))) + 1, Len(OldSide(SubSeq(script, 1, a))))
    BY <2>2, <2>5, SameBetween
  <2>8. Gap(i) = SubSeq(old, Len(OldSide(SubSeq(script, 1, Done(i - 1)))) + 1,
                             Len(OldSide(SubSeq(script, 1, a))))
    <3>1. EndOf(i - 1) = Len(OldSide(SubSeq(script, 1, Done(i - 1))))
      BY <1>3, <2>2
    <3>2. QED BY <2>4, <2>6, <3>1 DEF Gap
  <2>9. F[i - 1] \o Gap(i) = NewSide(SubSeq(script, 1, a))
    BY <2>1, <2>7, <2>8
  <2> HIDE DEF a, b
  <2>10. NewSide(SubSeq(script, 1, b)) = NewSide(SubSeq(script, 1, a)) \o NewSide(SubSeq(script, a + 1, b))
    BY <1>1, <2>4, SideParts
  <2>11. F[i] = NewSide(SubSeq(script, 1, a)) \o NewSide(SubSeq(script, a + 1, b))
    BY <2>3, <2>4, <2>6, <2>9
  <2>12. QED BY <2>5, <2>10, <2>11
<1> HIDE DEF T, N
<1>6. \A i \in 0 .. N : i \in T
  BY <1>1, <1>4, <1>5, UpTo
<1>7. QED BY <1>3, <1>6 DEF T, N

\* What apply_hunks makes of the old text is the new one.
LEMMA WalkReproduces ==
    ASSUME Leads, HunksLie, AsMade, Sound, target = old, NEW F, Walked(F, Len(hunkList))
    PROVE  F[Len(hunkList)] \o SubSeq(target, EndOf(Len(hunkList)) + 1, Len(target)) = new
<1> DEFINE N == Len(hunkList)
           i == Len(hunks) + 1
           a == Done(N)
<1>1. N \in Nat /\ N = Len(hunks) /\ script \in Seq(EditSet) /\ OldSide(script) = old /\ NewSide(script) = new
  BY DEF Sound, AsMade, Leads
<1>2. i \in 1 .. Len(hunks) + 1 /\ i - 1 = N /\ N \in 0 .. N /\ Coming(i) = Len(script)
  BY <1>1 DEF Coming
<1>3. EndOf(N) = Len(OldSide(SubSeq(script, 1, a))) /\ F[N] = NewSide(SubSeq(script, 1, a))
  BY <1>2, WalkMakes
<1>4. NewSide(SubSeq(script, 1, Len(script)))
        = NewSide(SubSeq(script, 1, a)) \o
          SubSeq(old, Len(OldSide(SubSeq(script, 1, a))) + 1, Len(OldSide(SubSeq(script, 1, Len(script)))))
  BY <1>2, SameBetween
<1>5. SubSeq(script, 1, Len(script)) = script
  BY <1>1, WholePart
<1>6. QED BY <1>1, <1>3, <1>4, <1>5

\* A diff, applied to the old text as it is or after it was written and read
\* whole, with some context and without carriage returns, makes the new one.
THEOREM PatchMakesNew == Spec => []PatchReproduces
<1>1. Given /\ Regions /\ Stages /\ Patching => PatchReproduces
  <2>1. SUFFICES ASSUME Given, Regions, Stages, Patching, Over, target = old,
                        \/ travelled = "direct"
                        \/ travelled \in {"intact", "mailed"} /\ Legible
                 PROVE  stage = "applied" /\ out = new
    BY DEF PatchReproduces, Legible
  <2>2. Held /\ Diffed
    BY <2>1 DEF Stages, Over
  <2>3. Sound /\ HunksLie /\ script \in Seq(EditSet)
    BY <2>1, <2>2, HeldIsSound, StagesHunks
  <2>4. Leads
    <3>1. OldSide(script) = old /\ NewSide(script) = new
      BY <2>1, <2>2 DEF Regions, Diffed
    <3>2. old \in Seq(Lines) /\ new \in Seq(Lines)
      BY <2>1, DiffAssumption DEF Given
    <3>3. QED BY <2>3, <3>1, <3>2 DEF Leads
  <2>5. AsMade
    BY <2>1, <2>2, <2>3, <2>4, HeldAsMade
  <2>6. DOMAIN hunkList = 1 .. Len(hunkList) /\ Len(hunkList) \in Nat
    BY <2>3 DEF Sound
  <2>7. AllFit
    BY <2>1, <2>3, <2>4, <2>5, <2>6, MadeFits
  <2>8. stage # "refused"
    <3>1. SUFFICES ASSUME stage = "refused" PROVE FALSE
      OBVIOUS
    <3>2. travelled # "damaged"
      BY <2>1
    <3>3. open = NoHunk
      BY <2>1, <3>1, <3>2 DEF Stages
    <3>4. QED BY <2>1, <2>7, <3>1, <3>3 DEF Patching
  <2>9. stage = "applied"
    BY <2>1, <2>8 DEF Over
  <2>10. PICK F : /\ Walked(F, Len(hunkList))
                  /\ out = F[Len(hunkList)] \o SubSeq(target, EndOf(Len(hunkList)) + 1, Len(target))
    BY <2>1, <2>9 DEF Patching
  <2>11. out = new
    BY <2>1, <2>3, <2>4, <2>5, <2>10, WalkReproduces
  <2>12. QED BY <2>9, <2>11
<1>2. Spec => []Regions
  <2>1. Searching => Regions
    BY DEF Searching
  <2>2. QED BY <2>1, SearchingThroughout, PTL
<1>3. QED
  BY <1>1, <1>2, GivenThroughout, StagesThroughout, PatchingThroughout, PTL
==============================================================================
