----------------------------- MODULE EditScript -----------------------------
(***************************************************************************)
(* Edit scripts of stringcheese-diff (src/lib.rs), and what a script says  *)
(* of the two texts it stands between.                                     *)
(***************************************************************************)
EXTENDS Naturals, Sequences

Keep(l)   == [kind |-> "keep",   line |-> l]
Delete(l) == [kind |-> "delete", line |-> l]
Insert(l) == [kind |-> "insert", line |-> l]

InOld(e)    == e.kind \in {"keep", "delete"}
InNew(e)    == e.kind \in {"keep", "insert"}
IsChange(e) == e.kind # "keep"

\* The lines of the edits of some kinds, in their order.
LinesOf(script, kinds) ==
    LET lines[i \in 0 .. Len(script)] ==
          IF i = 0 THEN << >>
          ELSE IF script[i].kind \in kinds THEN Append(lines[i - 1], script[i].line)
          ELSE lines[i - 1]
    IN  lines[Len(script)]

OldSide(script) == LinesOf(script, {"keep", "delete"})
NewSide(script) == LinesOf(script, {"keep", "insert"})
Changes(script) == LinesOf(script, {"delete", "insert"})
=============================================================================
