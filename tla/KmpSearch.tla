------------------------------ MODULE KmpSearch ------------------------------
(***************************************************************************)
(* Knuth-Morris-Pratt as a stream: build_failure (search/kmp.rs) followed  *)
(* by KmpStream (search/stream.rs).  Every iteration of a `while` or `for` *)
(* of the code is one step here.                                           *)
(*                                                                         *)
(* Pattern indices of the code count from 0, those of a TLA+ sequence from *)
(* 1: At(n) is the code's pattern[n].  `failure` keeps the code's indices. *)
(* feed_slice is its prologue (FeedSlice) followed by calls of `feed`, so  *)
(* a stream driven by any mixture of the two, split anywhere, is a         *)
(* behaviour of this module.                                               *)
(***************************************************************************)
EXTENDS Integers, Sequences

CONSTANTS
    Byte,              \* the alphabet
    Patterns,          \* the patterns that may be prepared
    MaxFed             \* bound on the bytes fed to the stream

ASSUME KmpAssumption ==
    /\ Patterns \subseteq Seq(Byte)
    /\ MaxFed \in Nat

VARIABLES
    pattern,           \* KmpPrepared.pattern
    failure,           \* KmpPrepared.failure
    i, k,              \* the locals of build_failure
    j,                 \* KmpStream.j
    bytes_fed,         \* KmpStream.bytes_fed
    initial,           \* KmpStream.initial
    pc,                \* "build" | "idle" | "byte" (inside feed's while loop)
    byte,              \* feed's argument, while pc = "byte"
    fed,               \* history: the bytes feed has returned for
    answers,           \* history: what feed returned for each of them
    empties,           \* history: the empty-pattern matches reported
    hops               \* history: failure links followed by the stream

prepared == <<pattern, failure, i, k>>
stream   == <<j, bytes_fed, initial>>
history  == <<fed, answers, empties, hops>>
vars     == <<prepared, stream, pc, byte, history>>

m     == Len(pattern)
At(n) == pattern[n + 1]

Init ==
    /\ pattern \in Patterns
    /\ failure = [n \in 0 .. m - 1 |-> 0]
    /\ i = 1 /\ k = 0
    /\ j = 0 /\ bytes_fed = 0 /\ initial = TRUE
    /\ pc = "build" /\ byte \in Byte
    /\ fed = << >> /\ answers = << >> /\ empties = {} /\ hops = 0

-----------------------------------------------------------------------------
(* build_failure *)

\* Mutant: the border of the wrong prefix is taken, one byte too long.
BuildFollowOffByOne ==
    /\ pc = "build" /\ i < m
    /\ k > 0 /\ At(k) # At(i)
    /\ k' = failure[k]
    /\ UNCHANGED <<pattern, failure, i, stream, pc, byte, history>>

\* One round of the inner while.
BuildFollow ==
    /\ pc = "build" /\ i < m
    /\ k > 0 /\ At(k) # At(i)
    /\ k' = failure[k - 1]
    /\ UNCHANGED <<pattern, failure, i, stream, pc, byte, history>>

\* The inner while ends; the entry is written and the for loop goes on.
BuildWrite ==
    /\ pc = "build" /\ i < m
    /\ k = 0 \/ At(k) = At(i)
    /\ k' = IF At(k) = At(i) THEN k + 1 ELSE k
    /\ failure' = [failure EXCEPT ![i] = k']
    /\ i' = i + 1
    /\ UNCHANGED <<pattern, stream, pc, byte, history>>

\* The table is complete and a stream is opened over it.
BuildDone ==
    /\ pc = "build" /\ i >= m
    /\ pc' = "idle"
    /\ UNCHANGED <<prepared, stream, byte, history>>

-----------------------------------------------------------------------------
(* KmpStream *)

\* The prologue of feed_slice.
FeedSlice ==
    /\ pc = "idle"
    /\ initial' = FALSE
    /\ empties' = IF initial /\ m = 0 THEN empties \cup {<<0, 0>>} ELSE empties
    /\ UNCHANGED <<prepared, j, bytes_fed, pc, byte, fed, answers, hops>>

\* feed up to its while loop; an empty pattern returns None at once.
Feed(b) ==
    /\ pc = "idle" /\ Len(fed) < MaxFed
    /\ bytes_fed' = bytes_fed + 1
    /\ byte' = b
    /\ IF m = 0
       THEN /\ fed' = Append(fed, b) /\ answers' = Append(answers, {})
            /\ UNCHANGED pc
       ELSE /\ pc' = "byte"
            /\ UNCHANGED <<fed, answers>>
    /\ UNCHANGED <<prepared, j, initial, empties, hops>>

\* Mutant: the partial match is thrown away on a mismatch.
FollowToRoot ==
    /\ pc = "byte"
    /\ j > 0 /\ At(j) # byte
    /\ j' = 0
    /\ hops' = hops + 1
    /\ UNCHANGED <<prepared, bytes_fed, initial, pc, byte, fed, answers, empties>>

\* Mutant: the entry of the next prefix, failure[j] for failure[j - 1].
FollowOffByOne ==
    /\ pc = "byte"
    /\ j > 0 /\ At(j) # byte
    /\ j' = failure[j]
    /\ hops' = hops + 1
    /\ UNCHANGED <<prepared, bytes_fed, initial, pc, byte, fed, answers, empties>>

\* Mutant: the same link, which may be j itself.  `hops` counts only the links
\* that shorten the match, so that the endless loop is a finite graph.
FollowUnshrinking ==
    /\ pc = "byte"
    /\ j > 0 /\ At(j) # byte
    /\ j' = failure[j]
    /\ hops' = IF failure[j] < j THEN hops + 1 ELSE hops
    /\ UNCHANGED <<prepared, bytes_fed, initial, pc, byte, fed, answers, empties>>

\* One round of feed's while.
Follow ==
    /\ pc = "byte"
    /\ j > 0 /\ At(j) # byte
    /\ j' = failure[j - 1]
    /\ hops' = hops + 1
    /\ UNCHANGED <<prepared, bytes_fed, initial, pc, byte, fed, answers, empties>>

\* feed returns `answer` and leaves the stream at `next`.
Return(next, answer) ==
    /\ j' = next
    /\ fed' = Append(fed, byte)
    /\ answers' = Append(answers, answer)
    /\ pc' = "idle"
    /\ UNCHANGED <<prepared, bytes_fed, initial, byte, empties, hops>>

\* Mutant: the state of a full match is kept.
ReportKeepsState == /\ pc = "byte" /\ At(j) = byte /\ j + 1 = m
                    /\ Return(m, {<<bytes_fed - m, 0>>})

\* Mutant: a match is the end of the partial match, so overlaps are lost.
ReportNoOverlap == /\ pc = "byte" /\ At(j) = byte /\ j + 1 = m
                   /\ Return(0, {<<bytes_fed - m, 0>>})

Miss   == pc = "byte" /\ j = 0 /\ At(0) # byte /\ Return(0, {})
Extend == pc = "byte" /\ At(j) = byte /\ j + 1 # m /\ Return(j + 1, {})
Report == /\ pc = "byte" /\ At(j) = byte /\ j + 1 = m
          /\ Return(failure[m - 1], {<<bytes_fed - m, 0>>})

-----------------------------------------------------------------------------
(* The batch search of kmp.rs *)

\* The inner while of find_all, entered with n bytes matched.
Fallen(n, b) ==
    LET fall[x \in 0 .. m - 1] == IF x > 0 /\ At(x) # b THEN fall[failure[x - 1]] ELSE x
    IN  fall[n]

\* The bytes matched once b is read, from n < m.
Matched(n, b) ==
    LET x == Fallen(n, b) IN IF At(x) = b THEN x + 1 ELSE x

\* Mutant: the scan starts afresh after a match.
ContinueFresh(n) == IF n = m THEN 0 ELSE n

\* A match is left along its failure link, so that overlaps are found.
Continue(n) == IF n = m THEN failure[m - 1] ELSE n

\* find_all: the positions in `out`, in the order they are pushed.
FindAll(haystack) ==
    LET matched[n \in 1 .. Len(haystack)] ==
            Matched(IF n = 1 THEN 0 ELSE Continue(matched[n - 1]), haystack[n])
        out[n \in 0 .. Len(haystack)] ==
            IF n = 0 THEN << >>
            ELSE IF matched[n] = m THEN Append(out[n - 1], n - m) ELSE out[n - 1]
    IN  IF m = 0 THEN <<0>> ELSE out[Len(haystack)]

-----------------------------------------------------------------------------
Build  == BuildFollow \/ BuildWrite \/ BuildDone
OnByte == Follow \/ Miss \/ Extend \/ Report
Next   == Build \/ FeedSlice \/ (\E b \in Byte : Feed(b)) \/ OnByte

Spec == Init /\ [][Next]_vars

\* The loops are sequential code: once entered they keep running.  Nothing
\* obliges the caller to feed.
FairSpec == Spec /\ WF_vars(Build) /\ WF_vars(OnByte)

-----------------------------------------------------------------------------
(* Properties *)

\* The prefix of the pattern of length n ends the text t.
PrefixEnds(n, t) ==
    n <= Len(t) /\ \A x \in 1 .. n : pattern[x] = t[Len(t) - n + x]

\* n is a border of the pattern's prefix of length q: that prefix begins and
\* ends with the same n < q bytes.
Border(n, q) == n < q /\ \A x \in 1 .. n : pattern[x] = pattern[q - n + x]

\* Entries of the failure table that are final.
Built == IF pc = "build" THEN 0 .. i - 1 ELSE 0 .. m - 1

\* The fields stay in the ranges the code indexes with: a stream state of m
\* would make pattern[j] panic.
TypeOK ==
    /\ pattern \in Patterns
    /\ failure \in [0 .. m - 1 -> Nat]
    /\ i \in Nat \ {0} /\ k \in Nat /\ (m > 0 => i <= m)
    /\ k < i
    /\ j \in Nat /\ (m > 0 => j < m) /\ (m = 0 => j = 0)
    /\ bytes_fed \in 0 .. MaxFed
    /\ initial \in BOOLEAN
    /\ pc \in {"build", "idle", "byte"} /\ (pc = "byte" => m > 0)
    /\ byte \in Byte
    /\ fed \in Seq(Byte)
    /\ answers \in Seq(SUBSET (Nat \X {0})) /\ Len(answers) = Len(fed)
    /\ bytes_fed = Len(fed) + (IF pc = "byte" THEN 1 ELSE 0)
    /\ hops \in Nat

\* kmp.rs, doc of build_failure: failure[n] is the length of the longest
\* proper prefix of pattern[..=n] that is also a suffix of it.
FailureIsLongestBorder ==
    \A n \in Built \cap (0 .. m - 1) :
        /\ Border(failure[n], n + 1)
        /\ \A l \in 0 .. m - 1 : Border(l, n + 1) => l <= failure[n]

\* Between calls the stream remembers exactly the longest proper prefix of
\* the pattern that the fed bytes end with: no partial match is forgotten,
\* also not right after a match (overlaps), and none is invented.
StateIsLongestPrefix ==
    pc = "idle" /\ m > 0 =>
        /\ PrefixEnds(j, fed)
        /\ \A l \in 0 .. m - 1 : PrefixEnds(l, fed) => l <= j

\* The amortised bound behind "naturally streaming": over any stream the
\* failure links followed never outnumber the bytes answered, however the
\* work is spread over single bytes.
LinearWork == hops + j <= Len(fed)

\* kmp.rs and stream.rs, one automaton written twice: the batch find_all of the
\* bytes fed finds what the stream answered, in order; the empty pattern once.
BatchFindsStreamed ==
    pc = "idle" =>
      LET found == FindAll(fed) IN
        /\ \A x \in 1 .. Len(found) - 1 : found[x] < found[x + 1]
        /\ { <<found[x], 0>> : x \in DOMAIN found }
             = IF m = 0 THEN {<<0, 0>>} ELSE UNION { answers[n] : n \in DOMAIN answers }

\* Every byte gets its answer: the failure chain cannot cycle.
FeedReturns == pc # "idle" ~> pc = "idle"

\* KmpStream is an occurrence stream of its one pattern: per byte exactly the
\* match that ends there, however the bytes are split into calls, and the
\* empty pattern's match once, from feed_slice.
Occurrences ==
    INSTANCE OccurrenceStream WITH patterns <- <<pattern>>

ImplementsOccurrences == Occurrences!Spec
=============================================================================
