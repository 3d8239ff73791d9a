---------------------------- MODULE UnifiedPatch ----------------------------
(***************************************************************************)
(* What becomes of a line diff in stringcheese-diff: its changes grouped   *)
(* into hunks (src/hunks.rs), written as a unified diff and read again     *)
(* (src/unified.rs), and applied to a text (src/patch.rs).                 *)
(*                                                                         *)
(* A line of the written diff is a name, a header, or an edit.  Between    *)
(* the writer and the reader the diff travels: it may arrive cut short,    *)
(* with a line missing, or as mail programs and git leave it.  The text it *)
(* is applied to may have changed meanwhile, or have the change already.   *)
(***************************************************************************)
EXTENDS LineDiff

CONSTANTS
    Contexts,          \* the lines of context asked for
    EmptyLine,         \* the line without a character
    Chomp              \* a line |-> what str::lines makes of it: no trailing \r

\* A text split at its line ends has at least one line.
ASSUME PatchAssumption ==
    /\ \A input \in Inputs : input[1] # << >> /\ input[2] # << >>
    /\ Contexts \subseteq Nat
    /\ EmptyLine \in Lines
    /\ Chomp \in [Lines -> Lines] /\ Chomp[EmptyLine] = EmptyLine

VARIABLES
    stage,             \* "diff", "read", "apply", "applied" or "refused"
    context,           \* opts.context
    travelled,         \* "direct" (hunks, never text), "intact", "mailed" or "damaged"
    text, pos,         \* the diff as it arrives, and how far parse has read
    open,              \* the hunk parse is in, or NoHunk
    hunkList,          \* hunks_out, or the hunks given to apply_hunks
    target,            \* the text the hunks are applied to
    hunk, edit,        \* apply_hunks: the hunk, and how many of its edits are done
    cursor,            \* how many lines of target are behind
    out                \* out_lines

patchVars == <<stage, context, travelled, text, pos, open, hunkList, target, hunk, edit, cursor, out>>
vars == <<diffVars, patchVars>>

NoHunk == [oldStart |-> 0]

Init ==
    /\ DiffInit
    /\ context \in Contexts
    /\ stage = "diff" /\ travelled = "direct"
    /\ text = << >> /\ pos = 0 /\ open = NoHunk /\ hunkList = << >>
    /\ target = << >> /\ hunk = 1 /\ edit = 0 /\ cursor = 0 /\ out = << >>

-----------------------------------------------------------------------------
(* hunks *)

\* Mutant: changes merge only if their gap is no longer than one context.
JoinNearer(groups, p) ==
    IF groups # << >> /\ p <= Last(groups)[2] + context + 1
    THEN Append(Front(groups), <<Last(groups)[1], p>>)
    ELSE Append(groups, <<p, p>>)

\* A change joins the group before it if their contexts would touch.
Join(groups, p) ==
    IF groups # << >> /\ p <= Last(groups)[2] + 2 * context + 1
    THEN Append(Front(groups), <<Last(groups)[1], p>>)
    ELSE Append(groups, <<p, p>>)

Groups ==
    LET grouped[p \in 0 .. Len(script)] ==
          IF p = 0 THEN << >>
          ELSE IF IsChange(script[p]) THEN Join(grouped[p - 1], p)
          ELSE grouped[p - 1]
    IN  grouped[Len(script)]

HunkOf(group) ==
    LET start  == Max({1, group[1] - context})
        before == SubSeq(script, 1, start - 1)
        within == SubSeq(script, start, Min({Len(script), group[2] + context}))
    IN  [oldStart |-> Len(OldSide(before)), oldLen |-> Len(OldSide(within)),
         newStart |-> Len(NewSide(before)), newLen |-> Len(NewSide(within)),
         edits    |-> within]

hunks == [i \in DOMAIN Groups |-> HunkOf(Groups[i])]

-----------------------------------------------------------------------------
(* write, and the way to the reader *)

Name == [kind |-> "name"]
Note == [kind |-> "note"]
Blank == [kind |-> "blank"]

\* Positions are written from 1, and as 0 where a side has no lines.
Shown(start, len) == IF len = 0 THEN 0 ELSE start + 1

Header(h) ==
    [kind |-> "header",
     oldStart |-> Shown(h.oldStart, h.oldLen), oldLen |-> h.oldLen,
     newStart |-> Shown(h.newStart, h.newLen), newLen |-> h.newLen]

write ==
    LET written[j \in 0 .. Len(hunks)] ==
          IF j = 0 THEN <<Name, Name>>
          ELSE written[j - 1] \o <<Header(hunks[j])>> \o hunks[j].edits
    IN  IF hunks = << >> THEN << >> ELSE written[Len(hunks)]

\* Trailing blanks stripped, and git's note on a missing last newline behind
\* a line of the last hunk.
Mailed(t) ==
    LET stripped == [i \in DOMAIN t |-> IF t[i] = Keep(EmptyLine) THEN Blank ELSE t[i]]
        last     == { i \in DOMAIN t : \A j \in i .. Len(t) : t[j].kind # "header" }
    IN  { InsertAt(stripped, i + 1, Note) : i \in last }

Damaged(t) ==
    { SubSeq(t, 1, i) : i \in 0 .. Len(t) - 1 } \cup { RemoveAt(t, i) : i \in DOMAIN t }

Send ==
    /\ stage = "diff" /\ Diffed
    /\ \/ text' = write /\ travelled' = "intact"
       \/ text' \in Mailed(write) /\ travelled' = "mailed"
       \/ text' \in Damaged(write) /\ travelled' = "damaged"
    /\ stage' = "read" /\ pos' = 0
    /\ UNCHANGED <<diffVars, context, open, hunkList, target, hunk, edit, cursor, out>>

\* The texts the hunks may meet: the one they were made from, the one they
\* make, and the first with its first line gone or doubled.
Targets == {old, new, Tail(old), <<Head(old)>> \o old} \ {<< >>}

\* apply_hunks on the hunks of a diff run, never written down.
ApplyDirectly ==
    /\ stage = "diff" /\ Diffed
    /\ hunkList' = hunks
    /\ target' \in Targets
    /\ stage' = "apply"
    /\ UNCHANGED <<diffVars, context, travelled, text, pos, open, hunk, edit, cursor, out>>

-----------------------------------------------------------------------------
(* parse *)

Reading == stage = "read"
Line    == text[pos + 1]
AtEOF   == pos = Len(text)

Unread ==
    \/ Len(OldSide(open.edits)) < open.oldLen
    \/ Len(NewSide(open.edits)) < open.newLen

ReadOn(o) ==
    /\ pos' = pos + 1 /\ open' = o
    /\ UNCHANGED <<diffVars, stage, context, travelled, text, hunkList, target, hunk, edit, cursor, out>>

Commentary ==
    /\ Reading /\ open = NoHunk /\ ~AtEOF
    /\ Line.kind # "header" /\ hunkList = << >>
    /\ ReadOn(NoHunk)

\* A start that is shown as 0, or belongs to an empty side, is read as 0.
ReadHeader ==
    /\ Reading /\ open = NoHunk /\ ~AtEOF
    /\ Line.kind = "header"
    /\ ReadOn([oldStart |-> IF Line.oldLen = 0 THEN 0 ELSE Max({1, Line.oldStart}) - 1,
               oldLen   |-> Line.oldLen,
               newStart |-> IF Line.newLen = 0 THEN 0 ELSE Max({1, Line.newStart}) - 1,
               newLen   |-> Line.newLen,
               edits    |-> << >>])

ReadEdit(e) == ReadOn([open EXCEPT !.edits = Append(@, e)])

ReadBody ==
    /\ Reading /\ open # NoHunk /\ Unread /\ ~AtEOF
    /\ \/ /\ Line.kind \in {"keep", "delete", "insert"}
          /\ ReadEdit([kind |-> Line.kind, line |-> Chomp[Line.line]])
       \/ /\ Line.kind = "blank"
          /\ ReadEdit(Keep(EmptyLine))
       \/ /\ Line.kind = "note"
          /\ ReadOn(open)

CloseHunk ==
    /\ Reading /\ open # NoHunk /\ ~Unread
    /\ hunkList' = Append(hunkList, open) /\ open' = NoHunk
    /\ UNCHANGED <<diffVars, stage, context, travelled, text, pos, target, hunk, edit, cursor, out>>

\* Mutant: a hunk that ends early is taken as it is.
TruncatedKept ==
    /\ Reading /\ open # NoHunk /\ Unread /\ AtEOF
    /\ hunkList' = Append(hunkList, open) /\ open' = NoHunk
    /\ UNCHANGED <<diffVars, stage, context, travelled, text, pos, target, hunk, edit, cursor, out>>

\* TruncatedHunk.
Truncated ==
    /\ Reading /\ open # NoHunk /\ Unread /\ AtEOF
    /\ stage' = "refused"
    /\ UNCHANGED <<diffVars, context, travelled, text, pos, open, hunkList, target, hunk, edit, cursor, out>>

\* BadContentLine: the next header, where the body of a hunk should go on.
BadLine ==
    /\ Reading /\ open # NoHunk /\ Unread /\ ~AtEOF
    /\ Line.kind = "header"
    /\ stage' = "refused"
    /\ UNCHANGED <<diffVars, context, travelled, text, pos, open, hunkList, target, hunk, edit, cursor, out>>

\* The end of the text, or of what looks like a diff.
EndParse ==
    /\ Reading /\ open = NoHunk
    /\ AtEOF \/ (~AtEOF /\ Line.kind # "header" /\ hunkList # << >>)
    /\ target' \in Targets
    /\ stage' = "apply"
    /\ UNCHANGED <<diffVars, context, travelled, text, pos, open, hunkList, hunk, edit, cursor, out>>

Parse == Commentary \/ ReadHeader \/ ReadBody \/ CloseHunk \/ Truncated \/ BadLine \/ EndParse

-----------------------------------------------------------------------------
(* apply_hunks *)

Applying == stage = "apply"
InHunk   == edit > 0
H        == hunkList[hunk]
Edit     == H.edits[edit]

\* OverlappingHunks, HunkOutOfBounds or HunkExtendsPastEnd.
Misplaced ==
    \/ H.oldStart < cursor
    \/ H.oldStart > Len(target)
    \/ H.oldStart + H.oldLen > Len(target)

\* ContextMismatch.
Mismatch == InOld(Edit) /\ target[cursor + 1] # Edit.line

StartHunk ==
    /\ Applying /\ ~InHunk /\ hunk <= Len(hunkList) /\ ~Misplaced
    /\ out' = out \o SubSeq(target, cursor + 1, H.oldStart)
    /\ cursor' = H.oldStart /\ edit' = 1
    /\ UNCHANGED <<diffVars, stage, context, travelled, text, pos, open, hunkList, target, hunk>>

\* Mutant: a kept line does not move the cursor.
ApplyEditStuck ==
    /\ Applying /\ InHunk /\ edit <= Len(H.edits) /\ ~Mismatch
    /\ out' = IF InNew(Edit) THEN Append(out, Edit.line) ELSE out
    /\ cursor' = IF Edit.kind = "delete" THEN cursor + 1 ELSE cursor
    /\ edit' = edit + 1
    /\ UNCHANGED <<diffVars, stage, context, travelled, text, pos, open, hunkList, target, hunk>>

ApplyEdit ==
    /\ Applying /\ InHunk /\ edit <= Len(H.edits) /\ ~Mismatch
    /\ out' = IF InNew(Edit) THEN Append(out, Edit.line) ELSE out
    /\ cursor' = IF InOld(Edit) THEN cursor + 1 ELSE cursor
    /\ edit' = edit + 1
    /\ UNCHANGED <<diffVars, stage, context, travelled, text, pos, open, hunkList, target, hunk>>

EndHunk ==
    /\ Applying /\ InHunk /\ edit > Len(H.edits)
    /\ hunk' = hunk + 1 /\ edit' = 0
    /\ UNCHANGED <<diffVars, stage, context, travelled, text, pos, open, hunkList, target, cursor, out>>

Refuse ==
    /\ Applying
    /\ \/ ~InHunk /\ hunk <= Len(hunkList) /\ Misplaced
       \/ InHunk /\ edit <= Len(H.edits) /\ Mismatch
    /\ stage' = "refused"
    /\ UNCHANGED <<diffVars, context, travelled, text, pos, open, hunkList, target, hunk, edit, cursor, out>>

Finish ==
    /\ Applying /\ ~InHunk /\ hunk > Len(hunkList)
    /\ out' = out \o SubSeq(target, cursor + 1, Len(target))
    /\ stage' = "applied"
    /\ UNCHANGED <<diffVars, context, travelled, text, pos, open, hunkList, target, hunk, edit, cursor>>

Apply == StartHunk \/ ApplyEdit \/ EndHunk \/ Refuse \/ Finish

-----------------------------------------------------------------------------
Diff == stage = "diff" /\ DiffStep /\ UNCHANGED patchVars

Next == Diff \/ Send \/ ApplyDirectly \/ Parse \/ Apply

Spec == Init /\ [][Next]_vars

-----------------------------------------------------------------------------
(* Properties *)

Over == stage \in {"applied", "refused"}

\* A line that str::lines does not give back: the text ends it with \r\n.
HasCarriageReturn == \E l \in Range(old) \cup Range(new) : Chomp[l] # l

\* The hunks of a diff, applied to the old text, make the new one, whatever
\* the context; and so they do when they were written, sent and read, given
\* some context and lines that the text form can hold.
PatchReproduces ==
    Over /\ target = old /\
    (travelled = "direct"
       \/ (travelled \in {"intact", "mailed"} /\ context > 0 /\ ~HasCarriageReturn))
        => stage = "applied" /\ out = new

\* A hunk as the reader has it when it lacks nothing.
AsRead(h) ==
    [h EXCEPT !.oldStart = IF h.oldLen = 0 THEN 0 ELSE @,
              !.newStart = IF h.newLen = 0 THEN 0 ELSE @,
              !.edits = [i \in DOMAIN h.edits |->
                           [h.edits[i] EXCEPT !.line = Chomp[@]]]]

\* A diff that was cut or has lost a line never yields a hunk nobody wrote:
\* the reader has whole hunks, or an error.
DamageIsNoticed ==
    stage \in {"apply", "applied"} =>
        \A h \in Range(hunkList) : \E w \in Range(hunks) : h = w \/ h = AsRead(w)

Fits(h) ==
    /\ h.oldStart + h.oldLen <= Len(target)
    /\ SubSeq(target, h.oldStart + 1, h.oldStart + h.oldLen) = OldSide(h.edits)

InOrder(h, g) == h.oldStart + h.oldLen <= g.oldStart

Splice(h, t) ==
    SubSeq(t, 1, h.oldStart) \o NewSide(h.edits) \o
    SubSeq(t, h.oldStart + h.oldLen + 1, Len(t))

AllSpliced ==
    LET spliced[i \in 0 .. Len(hunkList)] ==
          IF i = 0 THEN target ELSE Splice(hunkList[Len(hunkList) + 1 - i], spliced[i - 1])
    IN  spliced[Len(hunkList)]

\* apply_hunks, walking forwards with one cursor, does what replacing each
\* hunk in the text from the last to the first would, and does it just when
\* every hunk fits the text and none overlaps the one before.
ApplyIsSplice ==
    /\ stage = "applied" => out = AllSpliced
    /\ Over /\ open = NoHunk =>
          (stage = "applied" <=>
             /\ \A i \in DOMAIN hunkList : Fits(hunkList[i])
             /\ \A i \in 1 .. Len(hunkList) - 1 : InOrder(hunkList[i], hunkList[i + 1]))

\* unified.rs:8-11: what was written, parsed and applied "reconstruct[s] the
\* new-side string", "on every well-formed diff".
RoundTrips ==
    Over /\ target = old /\ travelled = "intact" => stage = "applied" /\ out = new
=============================================================================
