# A verification project for stringcheese

stringcheese is a Rust workspace of about a hundred crates for text: comparison
and search algorithms, content-defined chunking, tokenizers, metric indexes,
diffs, language packs and ICU-style engines, most of them pure functions and
some of them packaged as WebAssembly components.  This directory holds TLA+
modules of the parts that keep *state between calls* or share it between
threads, TLC runs over small instances, and TLAPS proofs for every instance.

Paths below are relative to `src/crates/`.

## 1. Inventory

### Components with state, and what makes them correct

| component | state | operations | what is hard | correct when |
|---|---|---|---|---|
| `Kmp` / `KmpStream` (`stringcheese-compare/src/search/{kmp,stream}.rs`) | failure table; `j`, `bytes_fed`, `initial` | `prepare`, `feed`, `feed_slice`, `find_all` | input split anywhere; overlaps; termination and amortised cost of the failure chain | each occurrence is reported once, at its last byte |
| `RabinKarp` / `RabinKarpStream` (`rabin_karp.rs`, `stream.rs`) | rolling hash, ring buffer, `write_pos` | same | modular arithmetic with one conditional subtraction; ring rotation; collisions too rare to test | rolling equals hashing anew; the ring is the last bytes |
| `AhoCorasick` / `AhoCorasickStream` (`aho_corasick.rs`, `stream.rs`) | trie with failure links and outputs; current state, `pending` queue | `build`, `find_all`, `feed`, `feed_slice` | links computed breadth first from other links; several matches per byte; calls mixed | every occurrence of every pattern once |
| `shared_engine` (`stringcheese-icu-{case,collation,segment,linebreak,datetime}-component/src/wit.rs`) | a static `AtomicPtr` | `shared_engine()` by any thread | a race to publish, memory orderings, the loser's free | one engine, never freed, never seen half built |
| `FastCdcStream`, `FastCdcIter` (`stringcheese-cdc/src/cdc/fastcdc.rs`) | hash and size of the open chunk; cursor | `feed`, `feed_slice`, `finish`; `next` | a batch search two bytes at a time that must cut where the stream does | both cut at the first byte that meets the condition; chunks tile the input |
| `BpeTokenizer` (`stringcheese-tokenizer-hf/src/bpe.rs`) | merge table, vocabulary; per call: pieces, cached ranks, heap | `encode`, `decode`, `count` | three merge loops over three data structures that must agree; stale cache entries | each merge is the leftmost pair of lowest rank; the tokens are the word |
| `Winnower` / `Selected` (`stringcheese-winnowing/src/lib.rs`) | monotonic deque, last position yielded | `next` | ties, expiry, windows that share a minimum | the rightmost minimum of every window, once |
| `VpTree`, `BkTree` (`stringcheese-index/src/{vp_tree,bk_tree}.rs`) | a tree of items with thresholds or distances; per search: the path, the heap of the best so far | bulk build, `insert`, `find_within`, `find_k_nearest` | pruning bounds that must hold for two kinds of build; a cutoff that changes between the two subtrees of a node; ties and duplicates | a query returns what a linear scan returns |
| diff (`stringcheese-diff/src/algo.rs`) | the trace array, one snapshot of it per round; the chain of anchors | `myers_diff`, `patience_diff_hashed` | a walk back over an array that later rounds overwrote; regions between anchors | a script leads from old to new, with as few changes as can be |
| hunks, unified, patch (`stringcheese-diff/src/{hunks,unified,patch}.rs`) | the reader's open hunk; cursor in the text patched | `hunks`, `write`, `parse`, `apply_hunks` | offsets of grouped changes; a diff that arrives damaged; a text that has changed since | applying the diff of old and new to old gives new, and nothing is applied that was not written |
| `TiktokenPack` (`stringcheese-tokenizer-tiktoken/src/lib.rs`) | a `OnceLock` | `get`, `try_get` | two loads racing; a load that fails | one tokenizer for all callers |

Interaction is by plain calls.  A prepared pattern or automaton is borrowed
immutably by any number of streams, so streams do not interfere; the WIT
functions of the ICU components all reach their engine through `shared_engine`;
the tokenizer components wrap `BpeTokenizer`; the tokenizer and the language
packs read SCUD packs, which are immutable bytes.  Nothing is persisted and no
messages are exchanged: there are no crashes or lost messages to model.  The
only shared mutable state is the lazily initialised statics.

### Components without state, not modelled

Edit distances and similarities, alignment, sketches, the remaining exact
searches, WordPiece and the HuggingFace loaders, normalisers and pre-tokenizers,
patterns, text manipulation, language packs and detection, the ICU engines
themselves, SCUD, candidate filters, statistics and the facade crates.  They are pure functions of
their arguments (tables, dynamic programs, parsers), and the reference
definitions a model would check them against are the differential tests beside
them.  `PROJECT.json` lists each group with its reason.

## 2. Modules

    OccurrenceStream        what a search stream promises
      <- KmpSearch            KMP: build_failure, KmpStream, find_all
           MCKmpSearch
      <- RabinKarpStream      Rabin-Karp: prepare, RabinKarpStream, find_all
         SinglePatternSearch  both, given the same pattern and bytes
           MCSinglePatternSearch, KmpSearch_proofs    (of all three)
         AhoCorasick          build, find_all, AhoCorasickStream
           MCAhoCorasick, AhoCorasick_proofs    (uses EndingAt of OccurrenceStream)
    OnceValue               a value settled once for all callers
      <- SharedEngine         shared_engine() under the Rust memory model
           SharedEngine_proofs
    FastCdc                 the stream and the batch iterator over its bytes
           MCFastCdc
    BpePieces               the pieces of a word, used by the next two
    BpeMerge                leftmost pair of lowest rank
      <- BpeEncode            encode_word_bpe with its three merge loops
           MCBpeEncode, BpeEncode_proofs
    Winnowing               Selected
         ContentDefined_proofs    (of FastCdc and of Winnowing)
    Metric                  the wrapped metric and the bounds of its output type
    MetricIndex             a linear scan over what was inserted
      <- VpTree               bulk build, insert, both searches
      <- BkTree               insert, range search
         MetricTrees          both, given the same calls
           MCMetricTrees, MetricTrees_proofs
    EditScript              scripts, and the two texts one stands between
         LineDiff             Myers' diff and the patience diff
         UnifiedPatch         LineDiff, then hunks, write, parse and apply
           MCUnifiedPatch, UnifiedPatch_proofs    (of LineDiff too)
    PowersOfTwo             as a function: hash widths, depths of balanced trees
    Foundations             lemmas that the proof modules share

`A <- B` reads "B is shown to implement A" (an `INSTANCE A WITH` mapping whose
`Spec` is a PROPERTY of B's run).

**KmpSearch.**  `BuildFollow`/`BuildWrite` are the iterations of
`build_failure`'s loops; `Feed`, `Follow` and `Miss`/`Extend`/`Report` are
`KmpStream::feed` before, in and after its `while`.  `feed_slice` is its prologue
(`FeedSlice`) followed by feeds, so a behaviour is any sequence of either call
with the input split anywhere.  `FindAll` is the batch scan as a recursive
function.  `fed`, `answers`, `empties` and `hops` are history variables.

**RabinKarpStream.**  One step per `feed`: `FeedEmpty`, `Fill`, `Roll` are its
three branches.  `reduce_mod` is the code's single conditional subtraction, so a
value that needed two would show.  Base and modulus are constants.

**SinglePatternSearch** composes the two as `search/property_tests.rs` compares them: both
are prepared with one pattern, and each byte the KMP stream has answered is fed to the
Rabin-Karp stream next (`FeedRabinKarp`); a `feed_slice` reaches both.  When both have
answered the same bytes, `AlgorithmsAgree` compares their answers, and what the two
`find_all` return for the same text.

**AhoCorasick.**  `InsertByte`/`InsertDone` build the trie; `Link` dequeues one
state and links its children, reading links computed before, as the code does.
Scanning is shared by the stream (`Advance`, `Queued`, `Feed`, `BeginSlice`,
`SliceByte`, `EndSlice`) and the batch (`FindAll`).  `InOrder` lists a finite set in
the order of a relation: the entries of a `BTreeMap` by key, the matches of a stable
sort by `(position, pattern_index)` and then by where they stood.

**SharedEngine.**  One action per access to shared memory.  A thread that has not
yet read the published pointer may still load null (coherence allows it);
`visible[c]` is what happens-before makes thread c see, transferred by an Acquire
that reads a Release.  A freed address may be allocated again, and then no
other thread sees its contents.  The five `wit.rs` files contain the same
function; the map cites the one of the case component.

**FastCdc.**  `Feed` and `Finish` are the stream, `IterNext` the iterator over the
bytes fed since the last finish, and `Resume` feeds the finished stream again.
Hashes wrap at `2^Width`; a mask is a set of bits, and shifting it loses the top
bit, as in the code.  `NextCut` contains the choice between the two-byte loop and
the scalar fallback.

**BpeEncode.**  A text is its bytes and the pieces that `char_indices` cuts it into;
`Seed` chooses between those and single bytes.  Each merge loop is one step per
iteration over its own structure (`pieces`; `parts` with cached ranks and a sentinel;
`nodes` and `heap`), and `CallReturns` is the early return of all three.  `Collect`
is the walk along the links, a slot per step, that turns the list back into pieces;
that it never meets a dead slot is the `debug_assert` of `merge_loop_nlogn` and a part
of `PairsAreTracked`.  `Emit`/`EmitFails` look up one piece per step, with byte
fallback; `emitted` counts them.  The heap is a set: equal entries of the binary heap
are identical, and after the first is popped the others are stale.

**Winnowing.**  One step per push of the iterator, with the expiry before it and
the fingerprint after it.  `Kept` and `Expired` say where the two `while` loops
over the deque stop.

**MetricIndex, BkTree, VpTree.**  The abstract index is a sequence of texts; an answer
is a set of positions in it, since a text stored twice is found twice.  A tree is a
function from addresses: in the BK-tree an address is the sequence of labels that
lead to a node, in the VP-tree the sequence of sides.  A descent or a search is one
step per node.  `BuildNode` takes one subtree off the list of those to build (the
recursion of `build_bulk`), for any vantage point the strategy may choose; a median
split is any split into halves that `select_nth_unstable` may leave.  A search of
the VP-tree is at a node in a `stage`: before it (`Visit`), before its first or its
second subtree (`Enter` or `Pass`, by the pruning bound at that moment), or done
(`Leave`).  `Admitted` is what the bounded heap holds after a push and a pop.  Sums
wrap at `Modulus`, as the metric's output type does.

**MetricTrees** composes the two as the crate's property tests do: every item goes
into both, and every range search is asked of both.

**LineDiff, UnifiedPatch.**  `Forward` is one diagonal of one round of
`build_myers_trace`, `Backtrack` one snapshot of the walk back.  The patience diff,
`patience_diff_hashed` (`algo.rs:291`), computes its chain and hands each region to the
same steps; the function named `patience_diff` (`algo.rs:277`), which `Patience::diff`
calls, only calls `myers_diff`.  A finished script goes
either directly to `apply_hunks`, or is written, *travels* (intact, as mail and git
leave it, or cut or with a line missing), is parsed a line per step, and is applied
an edit per step to one of several texts.  A line is a model value, the empty line
and lines that end in a carriage return being the only ones with a property.

## 3. Runs

Every property has a mutant, a changed definition under which TLC finds it
violated, named in `PROJECT.json` and kept beside the original.

| run | instance | shows |
|---|---|---|
| `kmp` | patterns up to 5 bytes over 2, streams up to 7 | table entries are longest borders; the state between calls is the longest prefix the input ends with; failure links followed never exceed bytes answered; `find_all` equals the stream; refinement of `OccurrenceStream`; `feed` returns |
| `rabin_karp` | patterns up to 3 over {0,1,2}, base 4, modulus 7, streams up to 6 | values stay reduced; hash and ring are those of the last m bytes; refinement of `OccurrenceStream`; the streams and the batch searches of KMP and Rabin-Karp agree |
| `aho_corasick` | all pairs of patterns up to 3 bytes over 2 (empty and equal ones included), two nested lists, streams up to 5 | links and outputs are the defined ones; the state is the longest suffix; returned, collected and pending matches are each occurrence once, however the calls are mixed; `find_all` is sorted and complete; a first slice is the batch |
| `ac_feed` | as above, non-empty patterns | **violated**, see findings |
| `ac_split` | as above, feed_slice only | **violated**, see findings |
| `shared_engine` | 3 threads, 4 addresses, unbounded calls | no dangling or half-built reference; no leak; a served thread never builds; every call returns; refinement of `OnceValue` |
| `fastcdc` | 3-bit hashes, all 64 mask pairs, 6 size triples, up to 6 bytes | hash is that of the open chunk alone; chunks tile the input within the size limits; each cut is at the first byte that meets the documented condition; the iterator yields the stream's chunks |
| `bpe` | all words up to 4 bytes over 2 and two with a 2-byte char, all tables over 4 keys with ranks 0, 1, two vocabularies | cached ranks and heap are in step with the table; the list leads from live slot to live slot; every merge of every loop is the reference merge; the tokens tile and spell the word; the call returns |
| `winnowing` | up to 7 hashes over 3 values, windows 1 to 4 | the deque is the window's suffix minima; the fingerprints are the rightmost minima of all windows so far |
| `metric_trees` | words of three bits under the Hamming distance; an empty corpus, and two with ties at the median and a duplicate; radii and counts 0 to 2; up to 5 items | both trees answer every search as a scan would (refinements of `MetricIndex`); the bulk build is balanced; every build, insertion and search returns |
| `diff_patch` | all texts of up to 3 lines over two, one of them empty; permutations of four unique lines; seven-line texts with changes apart; contexts 0 to 2 | Myers' scripts are minimal; the patience chain is longest; a diff applied to its old text gives the new one, sent or not; a damaged diff never yields a hunk nobody wrote; applying is splicing, and succeeds exactly when every hunk fits |
| `unified_roundtrip` | as above, context 0 | **violated**, see findings |

A component's type invariant is listed in its cfg or is a conjunct of the first invariant
there; those of the two trees are proved (section 4), and not checked by a run.  The
types of the diff modules are parts of the invariants their proofs rest on.

### Why the bounds are enough

- KMP: five bytes over two symbols contain all the shapes of border structure
  (periodic, nested borders, none), and seven bytes of input let a match overlap
  another after a failed partial match.  The proofs remove the bound.
- Rabin-Karp: with modulus 7 about six of seven equal-hash windows are collisions;
  six bytes rotate a ring of three twice.  The proofs remove the bound.
- Aho-Corasick: three-byte pairs and the two lists reach failure chains of length
  two, outputs inherited through several states, equal patterns, and a pending
  queue of two.  The proofs remove the bound.
- SharedEngine: three threads allow two losers at once, and a fourth address lets
  a thread build while the loser's address is free or reused.  The proofs remove
  the bound.
- FastCDC: with three bits an old byte leaves the hash within a chunk, the top bit
  occurs in masks, and the sizes make each region empty, odd and even.  The proofs
  remove the bound.
- BPE: four bytes and overlapping keys make a candidate stale in each way the code
  distinguishes (dead end, no longer adjacent, changed rank).  The proofs remove the
  bound.
- Winnowing: seven hashes slide each window past its own length, with ties.  The
  proofs remove the bound.
- Metric trees: three bits give four distances, so that ties at the threshold and
  items equal to the vantage point are the normal case; five items make a bulk tree
  of three levels and let insertions hang below it.  The proofs remove the bound.
- Diff: three lines over two contain every alignment of repeated lines; seven lines
  with three removable ones make one, two or three hunks at each context.  The proofs
  remove the bound.

### Fairness and stopping

Only run-to-completion is assumed: code that has entered a loop or a call is
scheduled again (`WF` on the loop's steps in KmpSearch, on a thread's own steps in
SharedEngine, on the encoder in BpeEncode, on the steps of a running call in
MetricTrees).  No caller is ever obliged to call.
`bpe`, `winnowing` and the runs of the diff do not check deadlock: an encoder call
returns, an iterator ends with its input, and a patch is applied or refused.

### Findings

1. `ac_feed`: `AhoCorasickStream::feed` (`stream.rs:337`) pops the *oldest* pending
   match, which can end at an earlier byte; the trait's doc (`stream.rs:124`) says
   `Some` iff a match ends at the byte just fed.  The struct's own doc
   (`stream.rs:259`) describes the draining.  With `feed` alone a match is thus
   reported late, and stays pending if the input ends; `NothingLostOrRepeated`
   shows that none is lost or repeated.
2. `ac_split`: `feed_slice` sorts within a call by start position
   (`stream.rs:363`), so two calls can return the matches in another order than
   one, against `stream.rs:140`, and one call does not return them "in ascending order
   by end position" (`stream.rs:137`) when a long match starts before a shorter one
   that ends earlier.  The *sets* agree (`NothingLostOrRepeated`), and the first call
   that returns matches agrees with `find_all` in order (`FirstSliceIsBatch`), as the
   module's doc says (`stream.rs:40`): the two docs ask for different orders.
3. `unified_roundtrip`: with no context a hunk that only inserts is written with
   start 0 (`unified.rs:93`), and applied where it then says, at the top of the file
   (`patch.rs:149`), against the promise of a round trip (`unified.rs:8`).  With
   context, and for hunks that are not written at all, `PatchReproduces` holds.

Met while modelling, and kept out of the properties by a named condition or not
stated: `parse` reads by `str::lines`, which drops a carriage return at a line's end
(`unified.rs:248`, `HasCarriageReturn`); the pruning adds a caller's radius to a
distance, which overflows for a radius near the type's maximum (`bk_tree.rs:271`,
`MetricAssumption`); `find_k_nearest` says that ties are broken in insertion order
(`vp_tree.rs:480`), while which of several equally distant items are returned, and
in which order, depends on the tree and the heap (`IsNearest` leaves it open); and
`from_corpus` says that ties at the median unbalance the tree (`vp_tree.rs:341`),
which `BulkIsBalanced` and the module's own doc (`vp_tree.rs:42`) deny; and a comment in `patience_diff`
(`algo.rs:280`) says that it reaches for `patience_diff_hashed` when the lines can be
hashed, while it calls `myers_diff` for all.

## 4. Proofs

The proof modules show, for every value of the constants, what the runs check on
small ones; what they leave to TLC is listed at the end of this section.

**Foundations.**  Three things the provers do not know.  *Induction*: the library's
induction theorems take an operator as a parameter, which no prover here instantiates,
so `LeastNatural` (a set of naturals has a least) and `NatSetInduction` state it for
sets, and a proof names the set of the counterexamples or of the good cases.
*Recursion*: a recursive function `f[x] == ...` is a `CHOOSE` of some function that
meets its equation, and says nothing until there is one.  `RecursionHasValue` gives it
to every recursion along which a measure falls, `ChainHasValue` and `CountingHasValue`
to tail calls and to loops that count; the proofs use them for the batch scans, the
hash sums, the walk along failure links and the powers of two.  *Division*: `Division`,
`DivisionUnique` and the laws of `%` that modular hashing needs.  Besides, what the parts
of a sequence hold and how they join (`PartTyped`, `Adjacent`, `PartGrows`).

**KMP.**  Assumption: patterns are finite sequences of bytes (`KmpAssumption`).  The
invariant `IInv` (theorem `Invariance`) adds to the checked properties what holds
*inside* the loops, where they say nothing: during the construction, that `k` is a
border of the prefix before `i` and that every longer border of it fails at `i`;
during a `feed`, that `j` is a prefix the input ended with before this byte and
that every longer one is refuted by this byte; and that the failure links followed
plus `j` are bounded by the bytes answered.  The lemmas are about borders: a border
of a border is a border, and a shorter border of the same text is a border of the
longer one.  With them, following `failure[j - 1]` skips exactly the candidates
already refuted.  From the invariant follow `TypeCorrect`, `FailureTableCorrect`,
`StreamStateCorrect`, `WorkIsLinear` and `Refinement`: the step that answers a byte
is a `FeedByte` of `OccurrenceStream` because `j + 1 = m` holds exactly when the
pattern ends the input, and all other steps are `FirstSlice` or stutters.  The batch
scan is a loop of its own: its state behind byte n is the longest prefix that the first
n bytes end with, whole matches included (`MatchedIsLongest`), and what it has pushed is
the occurrences among them in order (`OutLists`), so that `BatchCorrect` finds what the
stream has answered.

**Rabin-Karp.**  Assumption: bytes are numbers below the base and below the modulus
(`SearchAssumption`), as 257 and 2^61 - 1 give them; nothing is assumed of the hash, which
may collide on every window.  Arithmetic first: one subtraction is a remainder where the
code subtracts (`ReduceIsMod`), the squarings of `pow_mod` are a power (`PowersAre`: result
times base to the exponent stays the same), and a byte in front of a text weighs that power
(`HashOfFront`).  So to take the leaving byte out and the entering one in is to hash the next
window (`RollIsHash`).  The ring is an invariant about slots: each of the last m positions is
in the slot that is its remainder by m, and `write_pos` is that of the next (`RingOf`); that
positions less than a turn apart have different slots (`SlotsDiffer`) is why a write
replaces the leaving byte and no other.  Together they give `RkIInv` (`RkInvariance`), from
which `RingCorrect` follows.  Equal windows have equal hashes, and other windows with the
pattern's hash are told apart by the bytes in the ring (`AnswerIs`); hence
`RabinKarpRefines`.  The batch search rolls over the haystack itself, through the hashes of
all windows in turn (`RolledAre`).  The two algorithms meet in `AlgorithmsCorrect`: one
stream follows the other (`Follows`), and each answers a byte with the occurrences that end
there, so their answers are the same, and so is what their batch searches find.

**AhoCorasick.**  Assumption: the alphabet is a set of numbers and the patterns are
finite sequences over it (`AhoCorasickAssumption`).  The states do not say what they
stand for, so the invariant `StreamInv` gives each a word: there *is* a labelling `W` such
that `W[s]` is what the transitions from the root to `s` spell (`Spells`; a new state
extends the labelling).  About it the invariant says
- that the states are the prefixes inserted so far, each once (`Holds`, `Cursor`);
- that a state no queued state is above is *linked*: its failure is the longest state
  its word properly ends with and its outputs are the patterns its word ends with; the
  others have no link and their own output only (`Links`);
- that no queued state is above another, and that depths in the queue rise by one at most
  (`Levels`), so that everything shallower than the head is linked when `Link` reads it.

`ChaseIs` is the heart: following failure links from a linked state reaches the longest
suffix with a transition on the byte, skipping none.  `Link` uses it for the children of
the head, whose own links then are right (`ChildLinks`), and both scans use it for the next
state (`GotoIs`).  The matches of a state are then those that end at the byte
(`MatchesAre`) and are new (`MatchesAreNew`), wherever they wait: in `pending`, in `out`, or
returned (`Reports`).  Results: `TypeCorrect`, `AutomatonCorrect`, `StreamStateCorrect`,
`NothingLost`, `BatchCorrect`, and, since a sort without duplicates is determined by its
set (`SortedIsUnique`), `SliceCorrect`: a first slice returns exactly the batch.

**SharedEngine.**  Assumption: null is no address.  The invariant says who owns which
box: the published engine or one caller between building and publishing or
freeing; that whoever may read the published pointer by an Acquire then sees its
contents; and that references held are to the published engine.  It is needed
because the freedom of `Build` to reuse an address would otherwise allow a held
reference to be overwritten.  Results: `TypeCorrect`, `NoDanglingReference`,
`Singleton`, `NoLeak`, `BuildsOnlyWithoutEngine`, `Refinement`.

**BkTree.**  Assumption: the metric's axioms and room in its output type for the sums
that the pruning forms (`MetricAssumption`).  A search visits the addresses in
lexicographic order.  So an address is *settled* when the search is at or below it
(`OnPath`), has passed it on the left (`LeftOf`), or has tried the child that leads
to it (`Tried`), and the invariant says that `found` is right about the settled ones.
A step settles one more node, or skips a child, which the triangle inequality allows
because labels are distances (`LabelsCorrect`): everything below the child is as far
from the parent as its label says.  That the descent of an insertion has followed
the keys of its text (`WalkFollowsKeys`) is what keeps labels right.  `BkRefinesIndex`:
when the call returns, every address is settled, and the answer is the scan's.

**VpTree.**  The same assumption.  `ThresholdsCorrect` says that the inside of a node
lies within its threshold and the outside at or beyond it.  Its invariant needs to
speak of the entries that are not placed yet: those of a subtree still to build are
on its side of every node above (`SubtreeOK`), no two subtrees share one (`WorkOK`), and
the text being inserted is on the side its descent took (`WalkOK`).  For a search, a
node is settled when it was visited, or passed by above or here.  Entering or leaving
a subtree settles nothing new; passing by one settles all of it, and the bound
(`PruningIsSound`) lets each of its items be omitted: from a range search because it is
too far, from a k-nearest search because k items no farther are found already
(`MayOmit`, which a later, smaller cutoff only confirms).  `AdmittedIsRight` is the
bounded heap.  `VpRefinesIndex` follows for both searches.  `BalanceCorrect` is about the
build alone: n nodes below the root there is at most a 2^-n part of the items, placed or
still to place (`BalanceInv`), since each build step halves a subtree, ties or not.

**MetricTrees.**  The steps of the composition are steps of each tree alone or leave it
as it is.  For the BK-tree this needs that what it is given, the VP-tree's next item,
is there and is a text.  `VpAnswersAsScan` and `BkAnswersAsScan` then state for every
metric what the run `metric_trees` checks of both under its own specification.

**FastCdc.**  Assumption: the configurations are valid, as both constructors assert
(`FastCdcAssumption`).  That the chunks tile the input does not depend on where the
stream cuts, so the first invariant is about boundaries alone: each begins where the one
before it ended, is of a size within the limits unless `finish` emitted it, and
the open chunk begins where the last one ended (`TypeCorrect`, `TilingCorrect`, through
any number of finishes).  The second, `CutInv`, says what the stream's hash is: the
weighted sum over the open chunk, whose old bytes have been shifted out of its width
(`HashCorrect`).  So the stream's condition is one on the chunk's own bytes, and a chunk
ends where they first meet it (`CutsCorrect`).  `FastCdcIter` searches the same bytes in
two other ways.  For each of its loops the proof relates the position reached to the sum
over the bytes behind it: a byte at a time, and two at a time with the shifted gear table
and the shifted mask, where a hash between two bytes is tested with its bits one place
up, and where a mask with the top bit set would lose it and is sent to the fallback.
Both find the first cut or the end, which the stream's chunk is too (`IterCorrect`).

**Winnowing.**  Assumption: hashes are natural numbers and windows are positive
(`WinnowingAssumption`).  `UnexpiredKeepsMinima` and `PushedKeepsMinima` say what the
two `while` loops do to a deque that is the suffix minima of *any* range of positions:
drop a front of the range, and extend it by one.  They serve the first window and the
sliding ones alike.  The strengthening that makes them go through is that every
position of the range is *covered*: an entry at or behind it is no greater.  With it the
front of the deque is the rightmost minimum of the window (`FrontIsMin`).  Rightmost
minima never go back (`RightmostAdvances`), so comparing with the last one yielded
(`LastIsCurrent`) is enough to yield each once.  Results: `DequeTypeCorrect`,
`DequeCorrect`, `SelectionCorrect`, in the module that holds the proofs about FastCdc too
(the two models share no state; the operators of Winnowing are named after `select`).

**BpeEncode.**  Assumption: the ranks of a table are below `u32::MAX`, and the chars of
a text tile it (`BpeAssumption`).  Throughout, the pieces tile the word, in whichever
structure the loop keeps them.  For the flat loop the invariant says that the parts rise
and that each cached rank is that of the pair beginning there, so the lowest cached
rank is the naive loop's pair (`MinPartIsNext`).  For the list it says that the live
slots in ascending order are the path along the links, in both directions (`ListOK`;
`EnumerationIsUnique`: a set of numbers has one ascending enumeration, so `Spliced`
leads to that of the set without the merged slot), and that every pair of neighbours that
can be merged has its candidate in the heap (`HeapOK`).  A popped candidate that is not
skipped is then the leftmost pair of lowest rank (`PoppedIsNext`), and an empty heap means
that nothing is left to merge.  `EveryStep` proves at once that the invariant is kept and
that a step merges as `BpeMerge` does or leaves the pieces alone (`MergesOrStays`).
Results: `TypeCorrect`, `PairsTracked`, `EncodingCorrect`, `LoopsRefineMerge`.

**LineDiff.**  Assumptions: texts are finite sequences of lines (`DiffAssumption`), and,
for the composition, not empty, contexts are natural numbers and taking a carriage return
off a line makes a line (`PatchAssumption`).  First, what scripts say of their two sides is
additive: the sides of two scripts behind one another are the sides put together, and so
are their changes (`SidesConcat`).

*The patience sort.*  Every anchor placed gets a rank, the length of the longest chain that
ends with it, and the tails are the least ends of chains of each length (`PlaceRanks`).  So
the chain read back along `prev` is as long as there are ranks, and a chain that were longer
would need two anchors of one rank in order, which `Ranked` excludes: `LongestAnchors`.

*Myers.*  The distance of two prefixes is told by the table of `CommonLength`
(`DistanceExists`): a change of one line alters it by one, an equal pair of lines by
nothing.  `Far` says what the array holds for diagonal g in round r: the farthest position
on it within distance r.  Entering the diagonal from the neighbour that the code picks and
following the equal lines arrives there (`StartsFrom`, `SlidesFar`), because a farther
point would have a neighbour that the round before would have gone past.  The invariant
`Searching` (theorem `SearchingThroughout`) has four parts: the texts and anchors (`Given`),
what the finished regions have put into `script`, with their total of changes (`Regions`),
that each snapshot holds such farthest points (`Tracing`), and that in the walk back the
point reached is at distance `d` of the region's beginning, while the edits collected lead
from there to its end with the changes the distance leaves (`WalkingBack`).  One snapshot
gives back one change and the equal lines behind it (`WalksBack`).  At the end the script
has as many changes as the distance of the texts (`MinimalScript`), and no script from the
old to the new has fewer, by induction over its edits (`NoScriptIsShorter`).

**UnifiedPatch.**  The same assumptions.  *Hunks* are cut from the script: `HunksLie` says
that they lie behind one another, start where the sides of the edits before them end, and
that each change of the script is in one of them.

*What travels.*  `LaidOut` says at which line each header and each body of the written
diff stands, and `Carried` names, for each line that arrives, the written one it is or
follows.  Of a diff sent whole each line arrives, and a note only behind the last header
(`Whole`); of a damaged one at most one line before its end is missing (`OneLost`).

*What is read.*  The invariant `Stages` (`StagesThroughout`) says that the reader is
either outside a hunk or in the c-th edit of the j-th one, with the edits up to there, or
all but one of them if the diff is damaged (`Reader`); and that what it has finished are
hunks that were written, as the text form can give them back (`Listed`).  The step that
matters is the end of a hunk: one that lacks an edit has fewer lines on one of its sides
than its header says (`LackingFallsShort`), so the reader refuses it.  Hence `DamageNoticed`.

*What is applied.*  `Patching` (`PatchingThroughout`) holds for any hunks whose declared
length is that of their old side (`Sound`, which written and read hunks are) and any target:
`apply_hunks` is between two hunks or within one; behind its cursor is what the hunks so
far make of the text there, and each of them fits and begins behind the one before.  It is
refused only where one does not.  `ApplyIsSplice` speaks of the other direction, splicing from the
last hunk to the first; `IsRest` tells what the hunks behind the i-th make of the text from
its end on, and `AllSplicedIs` that both ways meet: `AppliedIsSpliced`.

*What comes out.*  If the target is the old text and nothing was lost in the text form
(`Legible`), the hunks held are those of the diff (`AsMade`).  Each fits, since its old side
is where it says in the old text, and between two hunks there are only lines that both
texts have (`NothingBetween`, `SameBetween`).  So the walk makes, hunk by hunk, the new
side of the script up to there, at the end the new text: `PatchMakesNew`.

Apart from finding 3 and from lines that end in a carriage return this is the round trip
that `unified.rs` promises, for every two texts that are not empty and every context.

**Only model-checked.**  Liveness (`FeedReturns`, `CallReturns`, `EncodeReturns`,
`CallsReturn`), because the prover does not handle fairness.  Every safety invariant and
every refinement that a passing run checks is proved.

## 5. Plan

To model: more of `BpeTokenizer` around `encode_word_bpe` (special tokens, `decode` and
`count`).

Not modelled: `TiktokenPack`, whose `OnceLock` does the work that `SharedEngine`
does by hand; the other rolling fingerprints of the CDC crate, which have no state
beyond a hash; the splitting of texts into lines or other units before a diff; and
the components without state listed in section 1.  Left out for good: the
statistical quality of sketches and detectors, Unicode data, parsing of pack and
model files, and the wording of errors.
