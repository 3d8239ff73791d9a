----------------------------- MODULE AhoCorasick -----------------------------
(***************************************************************************)
(* The Aho-Corasick automaton of search/aho_corasick.rs, from `build` to   *)
(* the batch find_all, and AhoCorasickStream of search/stream.rs over it.  *)
(*                                                                         *)
(* build inserts the patterns byte by byte (a step per byte) and then      *)
(* links the states in breadth-first order (a step per dequeued state: the *)
(* children of one state write only themselves and read shallower states). *)
(* A caller then mixes feed and feed_slice as it likes.  States count from *)
(* 0, the root, as in the code; a match is <<position, pattern_index>>.    *)
(***************************************************************************)
EXTENDS Integers, SequencesExt

CONSTANTS
    Byte,              \* the alphabet, a set of numbers (a BTreeMap key)
    PatternLists,      \* the slices of patterns that build may be given
    MaxFed             \* bound on the bytes fed to the stream

ASSUME AhoCorasickAssumption ==
    /\ Byte \subseteq Nat
    /\ PatternLists \subseteq Seq(Seq(Byte))
    /\ MaxFed \in Nat

VARIABLES
    patterns,          \* build's argument
    states,            \* AhoCorasick.states, by state number
    pattern_index,     \* build, phase 1: the pattern being inserted, from 0
    offset, node,      \* ... how much of it is in the trie, and the state there
    queue,             \* build, phase 2: states whose children are not linked
    pc,                \* "insert" | "link" | "idle" | "slice" (inside feed_slice)
    current,           \* AhoCorasickStream.current
    bytes_fed,         \* AhoCorasickStream.bytes_fed
    pending,           \* AhoCorasickStream.pending
    initial,           \* AhoCorasickStream.initial
    out,               \* feed_slice's local `out`
    fed,               \* history: the bytes fed
    reported           \* history: every match returned to the caller, in order

build_vars  == <<patterns, states, pattern_index, offset, node, queue>>
stream_vars == <<current, bytes_fed, pending, initial, out, fed, reported>>
vars        == <<build_vars, pc, stream_vars>>

pattern_count     == Len(patterns)
Pattern(p)        == patterns[p + 1]
pattern_length(p) == Len(Pattern(p))

\* The bytes with a goto transition from s, and the states they lead to.
Keys(s)       == DOMAIN states[s].goto
NextState(s, b) == states[s].goto[b]
Failure(s)    == states[s].failure

\* A map, or a vector, with one more entry.
Extended(f, x, v) == [y \in DOMAIN f \cup {x} |-> IF y = x THEN v ELSE f[y]]

\* The elements of a finite set in the order of a relation on it.
InOrder(S, before) ==
    [k \in 1 .. Cardinality(S) |->
        CHOOSE x \in S : Cardinality({ y \in S : <<y, x>> \in before }) = k - 1]

Ascending(S) == InOrder(S, { p \in S \X S : p[1] < p[2] })

EmptyState == [goto |-> [b \in {} |-> 0], failure |-> 0, outputs |-> << >>]

Init ==
    /\ patterns \in PatternLists
    /\ states = [s \in {0} |-> EmptyState]
    /\ pattern_index = 0 /\ offset = 0 /\ node = 0
    /\ queue = << >>
    /\ pc = "insert"
    /\ current = 0 /\ bytes_fed = 0 /\ pending = << >> /\ initial = TRUE
    /\ out = << >> /\ fed = << >> /\ reported = << >>

-----------------------------------------------------------------------------
(* build, phase 1: the trie *)

Inserting == pc = "insert" /\ pattern_index < pattern_count

\* The next byte of the pattern: follow its transition, or add a state for it.
InsertByte ==
    /\ Inserting /\ offset < pattern_length(pattern_index)
    /\ LET b == Pattern(pattern_index)[offset + 1] IN
         IF b \in Keys(node)
         THEN node' = NextState(node, b) /\ UNCHANGED states
         ELSE LET next == Cardinality(DOMAIN states) IN
                /\ states' = Extended([states EXCEPT ![node].goto = Extended(@, b, next)],
                                      next, EmptyState)
                /\ node' = next
    /\ offset' = offset + 1
    /\ UNCHANGED <<patterns, pattern_index, queue, pc, stream_vars>>

\* Mutant: empty patterns are not skipped, and attach an output to the root.
InsertDoneRootOutput ==
    /\ Inserting /\ offset = pattern_length(pattern_index)
    /\ states' = [states EXCEPT ![node].outputs = Append(@, pattern_index)]
    /\ pattern_index' = pattern_index + 1 /\ offset' = 0 /\ node' = 0
    /\ UNCHANGED <<patterns, queue, pc, stream_vars>>

\* The pattern is in: its last state reports it.  An empty one is skipped.
InsertDone ==
    /\ Inserting /\ offset = pattern_length(pattern_index)
    /\ states' = IF offset = 0 THEN states
                 ELSE [states EXCEPT ![node].outputs = Append(@, pattern_index)]
    /\ pattern_index' = pattern_index + 1 /\ offset' = 0 /\ node' = 0
    /\ UNCHANGED <<patterns, queue, pc, stream_vars>>

-----------------------------------------------------------------------------
(* build, phase 2: failure links and outputs *)

\* The children of s in the order of their bytes, as a BTreeMap yields them.
Children(s) ==
    LET bytes == Ascending(Keys(s))
    IN  [n \in DOMAIN bytes |-> NextState(s, bytes[n])]

\* The children of the root keep the root as their failure.
StartLinking ==
    /\ pc = "insert" /\ pattern_index = pattern_count
    /\ queue' = Children(0)
    /\ pc' = "link"
    /\ UNCHANGED <<patterns, states, pattern_index, offset, node, stream_vars>>

\* Follow failure links from s until a state has a transition on b, or the root.
Chase(s, b) ==
    LET chase[x \in DOMAIN states] ==
            IF x = 0 \/ b \in Keys(x) THEN x ELSE chase[Failure(x)]
    IN  chase[s]

\* The failure of the child c of r on byte a.
FailureFor(r, a, c) ==
    LET state == Chase(Failure(r), a) IN
      IF a \in Keys(state) /\ NextState(state, a) # c THEN NextState(state, a) ELSE 0

\* Mutant: only one failure link is tried.
LinkShallow ==
    /\ pc = "link" /\ queue # << >>
    /\ LET r == Head(queue)
           fail(a) == IF a \in Keys(Failure(r)) /\ NextState(Failure(r), a) # NextState(r, a)
                      THEN NextState(Failure(r), a) ELSE 0
           byteTo(c) == CHOOSE a \in Keys(r) : NextState(r, a) = c
       IN  /\ states' = [c \in DOMAIN states |->
                 IF c \in Range(states[r].goto)
                 THEN [states[c] EXCEPT !.failure = fail(byteTo(c)),
                                        !.outputs = @ \o states[fail(byteTo(c))].outputs]
                 ELSE states[c]]
           /\ queue' = Tail(queue) \o Children(r)
    /\ UNCHANGED <<patterns, pattern_index, offset, node, pc, stream_vars>>

\* Mutant: a child does not inherit the outputs of its failure state.
LinkNoOutputs ==
    /\ pc = "link" /\ queue # << >>
    /\ LET r == Head(queue)
           byteTo(c) == CHOOSE a \in Keys(r) : NextState(r, a) = c
       IN  /\ states' = [c \in DOMAIN states |->
                 IF c \in Range(states[r].goto)
                 THEN [states[c] EXCEPT !.failure = FailureFor(r, byteTo(c), c)]
                 ELSE states[c]]
           /\ queue' = Tail(queue) \o Children(r)
    /\ UNCHANGED <<patterns, pattern_index, offset, node, pc, stream_vars>>

\* Dequeue a state and link each of its children.
Link ==
    /\ pc = "link" /\ queue # << >>
    /\ LET r == Head(queue)
           byteTo(c) == CHOOSE a \in Keys(r) : NextState(r, a) = c
           linked(c) == LET fail == FailureFor(r, byteTo(c), c) IN
               [states[c] EXCEPT !.failure = fail, !.outputs = @ \o states[fail].outputs]
       IN  /\ states' = [c \in DOMAIN states |->
                 IF c \in Range(states[r].goto) THEN linked(c) ELSE states[c]]
           /\ queue' = Tail(queue) \o Children(r)
    /\ UNCHANGED <<patterns, pattern_index, offset, node, pc, stream_vars>>

BuildDone ==
    /\ pc = "link" /\ queue = << >>
    /\ pc' = "idle"
    /\ UNCHANGED <<build_vars, stream_vars>>

Build == InsertByte \/ InsertDone \/ StartLinking \/ Link \/ BuildDone

-----------------------------------------------------------------------------
(* Scanning *)

\* The state after byte b in state s.
Goto(s, b) ==
    LET state == Chase(s, b) IN IF b \in Keys(state) THEN NextState(state, b) ELSE state

\* The matches of state s when n bytes have been read.
MatchesAt(s, n) ==
    LET outputs == states[s].outputs
    IN  [x \in DOMAIN outputs |-> <<n - pattern_length(outputs[x]), outputs[x]>>]

EmptyMatches ==
    LET empty == Ascending({ p \in 0 .. pattern_count - 1 : pattern_length(p) = 0 })
    IN  [x \in DOMAIN empty |-> <<0, empty[x]>>]

\* The derived order of (position, pattern_index).
Precedes(x, y) == x[1] < y[1] \/ (x[1] = y[1] /\ x[2] < y[2])

\* sort_by_key on (position, pattern_index), which is stable.
SortMatches(s) ==
    LET before == { p \in (DOMAIN s) \X (DOMAIN s) :
                      \/ Precedes(s[p[1]], s[p[2]])
                      \/ s[p[1]] = s[p[2]] /\ p[1] < p[2] }
        order == InOrder(DOMAIN s, before)
    IN  [k \in DOMAIN s |-> s[order[k]]]

\* find_all: the batch scan of a whole haystack.
FindAll(haystack) ==
    LET state[n \in 0 .. Len(haystack)] ==
            IF n = 0 THEN 0 ELSE Goto(state[n - 1], haystack[n])
        found[n \in 0 .. Len(haystack)] ==
            IF n = 0 THEN EmptyMatches ELSE found[n - 1] \o MatchesAt(state[n], n)
    IN  SortMatches(found[Len(haystack)])

-----------------------------------------------------------------------------
(* AhoCorasickStream *)

\* Mutant: the state is taken from the goto table alone.
AdvanceNoFailure(b) ==
    /\ bytes_fed < MaxFed
    /\ bytes_fed' = bytes_fed + 1
    /\ current' = IF b \in Keys(current) THEN NextState(current, b) ELSE 0
    /\ fed' = Append(fed, b)

\* advance, up to the queueing of the matches.
Advance(b) ==
    /\ bytes_fed < MaxFed
    /\ bytes_fed' = bytes_fed + 1
    /\ current' = Goto(current, b)
    /\ fed' = Append(fed, b)

\* Mutant: what is pending from earlier bytes is dropped.
QueuedAnew == MatchesAt(current', bytes_fed')

\* pending once the byte's matches are queued.
Queued == pending \o MatchesAt(current', bytes_fed')

\* feed: advance, then hand out the oldest pending match.
Feed(b) ==
    /\ pc = "idle"
    /\ Advance(b)
    /\ IF Queued = << >>
       THEN pending' = << >> /\ UNCHANGED reported
       ELSE pending' = Tail(Queued) /\ reported' = Append(reported, Head(Queued))
    /\ UNCHANGED <<build_vars, pc, initial, out>>

\* feed_slice: its prologue,
BeginSlice ==
    /\ pc = "idle"
    /\ pc' = "slice"
    /\ out' = IF initial THEN EmptyMatches ELSE << >>
    /\ initial' = FALSE
    /\ UNCHANGED <<build_vars, current, bytes_fed, pending, fed, reported>>

\* a byte of the slice, with everything pending drained,
SliceByte(b) ==
    /\ pc = "slice"
    /\ Advance(b)
    /\ out' = out \o Queued
    /\ pending' = << >>
    /\ UNCHANGED <<build_vars, pc, initial, reported>>

\* Mutant: the slice is returned as it was found.
EndSliceUnsorted ==
    /\ pc = "slice"
    /\ reported' = reported \o out
    /\ out' = << >> /\ pc' = "idle"
    /\ UNCHANGED <<build_vars, current, bytes_fed, pending, initial, fed>>

\* and the sort of the whole slice's matches.
EndSlice ==
    /\ pc = "slice"
    /\ reported' = reported \o SortMatches(out)
    /\ out' = << >> /\ pc' = "idle"
    /\ UNCHANGED <<build_vars, current, bytes_fed, pending, initial, fed>>

Slicing == BeginSlice \/ (\E b \in Byte : SliceByte(b)) \/ EndSlice

Next == Build \/ Slicing \/ \E b \in Byte : Feed(b)
Spec == Init /\ [][Next]_vars

\* A caller that never calls feed.
SliceSpec == Init /\ [][Build \/ Slicing]_vars

-----------------------------------------------------------------------------
(* Properties *)

Built == pc \in {"idle", "slice"}

\* Every prefix of a pattern, and the state that spells it.
Words == (UNION { { SubSeq(Pattern(p), 1, n) : n \in 0 .. pattern_length(p) } :
                    p \in 0 .. pattern_count - 1 }) \cup {<< >>}

StateOf(word) ==
    LET walk[n \in 0 .. Len(word)] ==
            IF n = 0 THEN 0 ELSE NextState(walk[n - 1], word[n])
    IN  walk[Len(word)]

\* The longest of the words that text ends with, shorter than bound bytes.
LongestEnding(text, bound) ==
    LET ends == { w \in Words : Len(w) < bound /\ IsSuffix(w, text) }
    IN  CHOOSE w \in ends : \A v \in ends : Len(v) <= Len(w)

\* All that OccurrenceStream would have answered for text.
Occurrence == INSTANCE OccurrenceStream WITH
                  answers <- << >>, empties <- {}
Occurrences(text) ==
    UNION { Occurrence!EndingAt(patterns, SubSeq(text, 1, n)) : n \in 1 .. Len(text) }

\* All indices the code follows are states, in the build and in the stream.
TypeOK ==
    /\ DOMAIN states = 0 .. Cardinality(DOMAIN states) - 1
    /\ \A s \in DOMAIN states :
         /\ Keys(s) \subseteq Byte /\ Range(states[s].goto) \subseteq DOMAIN states
         /\ Failure(s) \in DOMAIN states
         /\ Range(states[s].outputs) \subseteq 0 .. pattern_count - 1
    /\ node \in DOMAIN states /\ current \in DOMAIN states
    /\ bytes_fed = Len(fed) /\ initial \in BOOLEAN
    /\ \A x \in Range(pending \o out) : x[1] >= 0

\* aho_corasick.rs, doc of State: the failure link is the longest proper suffix
\* that is a prefix of some pattern, and the outputs are the patterns that end
\* there, each once, also those that end inside a longer one.
AutomatonIsCorrect ==
    Built => \A w \in Words \ {<< >>} :
        LET s == StateOf(w) IN
          /\ Failure(s) = StateOf(LongestEnding(w, Len(w)))
          /\ Range(states[s].outputs) =
               { p \in 0 .. pattern_count - 1 :
                   pattern_length(p) > 0 /\ IsSuffix(Pattern(p), w) }
          /\ IsInjective(states[s].outputs)

\* The stream's state spells the longest prefix of a pattern that the bytes fed
\* so far end with, whichever calls fed them.
StateIsLongestSuffix ==
    /\ TypeOK
    /\ Built => current = StateOf(LongestEnding(fed, Len(fed) + 1))

\* Returned, pending and collected matches together are the occurrences in the
\* bytes fed and the empty patterns once feed_slice was called: however feed and
\* feed_slice alternate, no match is lost or returned twice.
NothingLostOrRepeated ==
    LET all == reported \o out \o pending IN
      /\ Range(all) = Occurrences(fed)
                      \cup (IF initial THEN {} ELSE Range(EmptyMatches))
      /\ IsInjective(all)

\* find_all finds each occurrence once, by position and then pattern index.
BatchIsSortedOccurrences ==
    Built => LET found == FindAll(fed) IN
        /\ Range(found) = Occurrences(fed) \cup Range(EmptyMatches)
        /\ IsInjective(found) /\ found = SortMatches(found)

\* The feed_slice that returns a stream's first matches returns what find_all
\* returns for the bytes so far, in the same order.
FirstSliceIsBatch ==
    [][EndSlice /\ reported = << >> => reported' = FindAll(fed)]_vars

\* stream.rs, doc of SearchStream::feed: it returns Some(Match) iff a match ends
\* at the byte just fed.
FeedAnswersItsByte ==
    [][\A b \in Byte : Feed(b) =>
         LET answer == SubSeq(reported', Len(reported) + 1, Len(reported')) IN
           /\ answer = << >> <=> Occurrence!EndingAt(patterns, fed') = {}
           /\ Range(answer) \subseteq Occurrence!EndingAt(patterns, fed')]_vars

\* stream.rs, doc of SearchStream::feed_slice: any split of the input into calls
\* yields the match sequence of a single call.
SplitInvariance ==
    pc = "idle" /\ ~initial => reported = FindAll(fed)
=============================================================================
