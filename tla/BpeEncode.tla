----------------------------- MODULE BpeEncode -----------------------------
(***************************************************************************)
(* BpeTokenizer::encode_word_bpe (stringcheese-tokenizer-hf/src/bpe.rs):   *)
(* the word is cut into seed pieces, the merge loop it is handed runs over *)
(* them, and what is left is looked up in the vocabulary.  The three merge *)
(* loops of the code are modelled, each a step per iteration: the naive    *)
(* rescan, the production loop over cached ranks (merge_loop_flat), and    *)
(* the linked list with a lazily cleaned heap (merge_loop_nlogn).          *)
(***************************************************************************)
EXTENDS BpePieces, SequencesExt

CONSTANTS
    Texts,             \* the words: their bytes, and the pieces char_indices cuts
    Tables,            \* the merge tables: ranks by merged bytes
    Vocabularies,      \* the sets of byte strings that have a token
    MaxRank            \* u32::MAX

\* A table's ranks are those of its merges' lines, well below u32::MAX, and a
\* vocabulary never has a token for no bytes.
ASSUME BpeAssumption ==
    /\ MaxRank \in Nat
    /\ \A t \in Texts :
         /\ t \in [bytes : Seq(Nat), chars : Seq([start : Nat, len : Nat])]
         /\ Tile(t.chars, t.bytes)
    /\ \A table \in Tables : \A key \in DOMAIN table : table[key] \in 0 .. MaxRank - 1

VARIABLES
    text,              \* word_text
    merges, vocab,     \* BpeTokenizer.merges, the surfaces of BpeTokenizer.vocab
    byte_level,        \* pre_tokenizer_pattern contains a ByteLevel stage
    byte_fallback,     \* BpeTokenizer.byte_fallback is set
    merge_fn,          \* "naive" | "flat" | "nlogn"
    pc,                \* "seed" | "call" | "merge" | "collect" | "emit" | "done"
                       \* | "error"
    pieces,            \* encode_word_bpe's and the loops' `pieces`
    parts,             \* merge_loop_flat: [start, rank], and a sentinel
    nodes, heap,       \* merge_loop_nlogn: the list by slot from 0, the candidates
    cursor,            \* merge_loop_nlogn: the slot to collect next
    emitted,           \* the number of pieces that are tokens
    out                \* the tokens: [bytes, start, end]

input == <<text, merges, vocab, byte_level, byte_fallback, merge_fn>>
vars  == <<input, pc, pieces, parts, nodes, heap, cursor, emitted, out>>

word == text.bytes

None == -1

Init ==
    /\ text \in Texts /\ merges \in Tables /\ vocab \in Vocabularies
    /\ byte_level \in BOOLEAN /\ byte_fallback \in BOOLEAN
    /\ merge_fn \in {"naive", "flat", "nlogn"}
    /\ pc = "seed"
    /\ pieces = << >> /\ parts = << >> /\ nodes = << >> /\ heap = {}
    /\ cursor = None /\ emitted = 0 /\ out = << >>

\* The merge table's rank of the bytes from start up to end; MaxRank for none.
RankOf(start, end) ==
    LET key == Slice(word, start, end) IN IF key \in DOMAIN merges THEN merges[key] ELSE MaxRank

-----------------------------------------------------------------------------
(* Seeding *)

SeedPerChar == byte_level \/ byte_fallback
IsAscii     == \A x \in DOMAIN text.chars : text.chars[x].len = 1

BytePieces == [x \in DOMAIN word |-> [start |-> x - 1, len |-> 1]]
SeedPieces == IF SeedPerChar /\ ~IsAscii THEN text.chars ELSE BytePieces

Seed ==
    /\ pc = "seed"
    /\ pieces' = SeedPieces
    /\ pc' = "call"
    /\ UNCHANGED <<input, parts, nodes, heap, cursor, emitted, out>>

\* Every merge loop returns at once when there is nothing to merge.
CallReturns ==
    /\ pc = "call" /\ Len(pieces) < 2
    /\ pc' = "emit"
    /\ UNCHANGED <<input, pieces, parts, nodes, heap, cursor, emitted, out>>

Calls(fn) == pc = "call" /\ Len(pieces) >= 2 /\ merge_fn = fn /\ pc' = "merge"

-----------------------------------------------------------------------------
(* merge_loop_naive *)

CallNaive == Calls("naive") /\ UNCHANGED <<input, pieces, parts, nodes, heap, cursor, emitted, out>>

PairRank(x) == RankOf(pieces[x].start, End(pieces[x + 1]))

\* The pair of lowest rank, the first if there are several.
BestPair ==
    CHOOSE x \in 1 .. Len(pieces) - 1 :
        /\ \A y \in 1 .. Len(pieces) - 1 : PairRank(x) <= PairRank(y)
        /\ \A y \in 1 .. x - 1 : PairRank(x) < PairRank(y)

NaiveMerge ==
    /\ pc = "merge" /\ merge_fn = "naive"
    /\ \E x \in 1 .. Len(pieces) - 1 : PairRank(x) < MaxRank
    /\ pieces' = Merged(pieces, BestPair)
    /\ UNCHANGED <<input, pc, parts, nodes, heap, cursor, emitted, out>>

NaiveDone ==
    /\ pc = "merge" /\ merge_fn = "naive"
    /\ \A x \in 1 .. Len(pieces) - 1 : PairRank(x) >= MaxRank
    /\ pc' = "emit"
    /\ UNCHANGED <<input, pieces, parts, nodes, heap, cursor, emitted, out>>

-----------------------------------------------------------------------------
(* merge_loop_flat *)

\* The rank of the pair that begins at part x of ps, if a pair begins there.
PartRank(ps, x) ==
    IF x + 2 <= Len(ps) THEN RankOf(ps[x].start, ps[x + 2].start) ELSE MaxRank

CallFlat ==
    /\ Calls("flat")
    /\ LET starts == Append([x \in DOMAIN pieces |-> [start |-> pieces[x].start, rank |-> MaxRank]],
                            [start |-> Len(word), rank |-> MaxRank])
       IN  parts' = [x \in DOMAIN starts |-> [starts[x] EXCEPT !.rank = PartRank(starts, x)]]
    /\ UNCHANGED <<input, pieces, nodes, heap, cursor, emitted, out>>

\* The part of lowest cached rank, the first if there are several.
MinPart ==
    CHOOSE x \in 1 .. Len(parts) - 1 :
        /\ \A y \in 1 .. Len(parts) - 1 : parts[x].rank <= parts[y].rank
        /\ \A y \in 1 .. x - 1 : parts[x].rank < parts[y].rank

FlatIterates == pc = "merge" /\ merge_fn = "flat" /\ Len(parts) > 2

\* Mutant: the pair to the left of the merged piece keeps its cached rank.
RerankedHere(ps, x) == [ps EXCEPT ![x].rank = PartRank(ps, x)]

\* The parts ps once x has been merged with its neighbour: the pairs on both
\* sides of the merged piece are ranked anew.
Reranked(ps, x) ==
    [y \in DOMAIN ps |->
       IF y = x \/ y = x - 1 THEN [ps[y] EXCEPT !.rank = PartRank(ps, y)] ELSE ps[y]]

FlatMerge ==
    /\ FlatIterates /\ parts[MinPart].rank # MaxRank
    /\ parts' = Reranked(RemoveAt(parts, MinPart + 1), MinPart)
    /\ UNCHANGED <<input, pc, pieces, nodes, heap, cursor, emitted, out>>

\* The pieces that parts stand for.
PiecesOfParts ==
    [x \in 1 .. Len(parts) - 1 |->
       [start |-> parts[x].start, len |-> parts[x + 1].start - parts[x].start]]

FlatDone ==
    /\ pc = "merge" /\ merge_fn = "flat"
    /\ Len(parts) <= 2 \/ parts[MinPart].rank = MaxRank
    /\ pieces' = PiecesOfParts
    /\ pc' = "emit" /\ parts' = << >>
    /\ UNCHANGED <<input, nodes, heap, cursor, emitted, out>>

-----------------------------------------------------------------------------
(* merge_loop_nlogn *)

\* The candidate of slots l and r of ns, if their bytes form a merge.  (Equal
\* entries of the heap are one here: all but the first popped are stale.)
Candidate(ns, l, r) ==
    LET rank == RankOf(ns[l].start, End(ns[r]))
    IN  IF rank < MaxRank THEN {[rank |-> rank, left |-> l, right |-> r]} ELSE {}

CallHeap ==
    /\ Calls("nlogn")
    /\ LET n  == Len(pieces)
           ns == [s \in 0 .. n - 1 |->
                    [start |-> pieces[s + 1].start, len |-> pieces[s + 1].len,
                     prev |-> s - 1, next |-> IF s + 1 = n THEN None ELSE s + 1,
                     alive |-> TRUE]]
       IN  /\ nodes' = ns
           /\ heap' = UNION { Candidate(ns, s, s + 1) : s \in 0 .. n - 2 }
    /\ UNCHANGED <<input, pieces, parts, cursor, emitted, out>>

\* HeapEntry's Ord: by rank, then by the left slot, then by the right one.
Before(a, b) ==
    \/ a.rank < b.rank
    \/ a.rank = b.rank /\ a.left < b.left
    \/ a.rank = b.rank /\ a.left = b.left /\ a.right <= b.right

Popped == CHOOSE e \in heap : \A f \in heap : Before(e, f)

HeapIterates == pc = "merge" /\ merge_fn = "nlogn" /\ heap # {}

\* Mutant: a candidate between live nodes is taken to be current.
IsCurrentIfAlive(e) == nodes[e.left].alive /\ nodes[e.right].alive

\* Both ends alive, still neighbours, and of the rank they were pushed with.
IsCurrent(e) ==
    /\ nodes[e.left].alive /\ nodes[e.right].alive
    /\ nodes[e.left].next = e.right
    /\ RankOf(nodes[e.left].start, End(nodes[e.right])) = e.rank

\* Mutant: a stale candidate is looked at, and left in the heap.
HeapSkipPeeks ==
    /\ HeapIterates /\ ~IsCurrent(Popped)
    /\ UNCHANGED vars

HeapSkip ==
    /\ HeapIterates /\ ~IsCurrent(Popped)
    /\ heap' = heap \ {Popped}
    /\ UNCHANGED <<input, pc, pieces, parts, nodes, cursor, emitted, out>>

\* The list once the slots l and r of ns are merged.
Spliced(l, r) ==
    [s \in DOMAIN nodes |->
       CASE s = l -> [nodes[l] EXCEPT !.len = @ + nodes[r].len, !.next = nodes[r].next]
         [] s = r -> [nodes[r] EXCEPT !.alive = FALSE]
         [] s = nodes[r].next -> [nodes[s] EXCEPT !.prev = l]
         [] OTHER -> nodes[s]]

\* The pairs a merged slot l now forms with its neighbours.
Candidates(ns, l) ==
    (IF ns[l].prev = None THEN {} ELSE Candidate(ns, ns[l].prev, l))
    \cup (IF ns[l].next = None THEN {} ELSE Candidate(ns, l, ns[l].next))

HeapMerge ==
    /\ HeapIterates /\ IsCurrent(Popped)
    /\ nodes' = Spliced(Popped.left, Popped.right)
    /\ heap' = (heap \ {Popped}) \cup Candidates(nodes', Popped.left)
    /\ UNCHANGED <<input, pc, pieces, parts, cursor, emitted, out>>

\* Slot 0 is never the right one of a pair: the list begins with it.
HeapDone ==
    /\ pc = "merge" /\ merge_fn = "nlogn" /\ heap = {}
    /\ pieces' = << >> /\ cursor' = 0
    /\ pc' = "collect"
    /\ UNCHANGED <<input, parts, nodes, heap, emitted, out>>

PieceAt(slot) == [start |-> nodes[slot].start, len |-> nodes[slot].len]

Collect ==
    /\ pc = "collect" /\ cursor # None
    /\ pieces' = Append(pieces, PieceAt(cursor))
    /\ cursor' = nodes[cursor].next
    /\ UNCHANGED <<input, pc, parts, nodes, heap, emitted, out>>

CollectDone ==
    /\ pc = "collect" /\ cursor = None
    /\ pc' = "emit" /\ nodes' = << >>
    /\ UNCHANGED <<input, pieces, parts, heap, cursor, emitted, out>>

-----------------------------------------------------------------------------
(* Emission *)

Known(piece) == Slice(word, piece.start, End(piece)) \in vocab

\* Mutant: the bytes of an unknown piece all get the piece's first position.
FallbackTokensAtStart(piece) ==
    [x \in 1 .. piece.len |->
       [bytes |-> <<word[piece.start + x]>>, start |-> piece.start, end |-> piece.start + 1]]

\* The reserved token of each byte of a piece.
FallbackTokens(piece) ==
    [x \in 1 .. piece.len |->
       [bytes |-> <<word[piece.start + x]>>,
        start |-> piece.start + x - 1, end |-> piece.start + x]]

\* What a piece is emitted as: its own token, or a token per byte.
TokensOf(piece) ==
    IF Known(piece)
    THEN <<[bytes |-> Slice(word, piece.start, End(piece)),
            start |-> piece.start, end |-> End(piece)]>>
    ELSE FallbackTokens(piece)

Emitting == pc = "emit" /\ emitted < Len(pieces)

Emit ==
    /\ Emitting
    /\ byte_fallback \/ Known(pieces[emitted + 1])
    /\ out' = out \o TokensOf(pieces[emitted + 1])
    /\ emitted' = emitted + 1
    /\ UNCHANGED <<input, pc, pieces, parts, nodes, heap, cursor>>

\* Err(UnknownToken): the tokens of the pieces before it stay in out.
EmitFails ==
    /\ Emitting
    /\ ~byte_fallback /\ ~Known(pieces[emitted + 1])
    /\ pc' = "error"
    /\ UNCHANGED <<input, pieces, parts, nodes, heap, cursor, emitted, out>>

EmitDone ==
    /\ pc = "emit" /\ emitted = Len(pieces)
    /\ pc' = "done"
    /\ UNCHANGED <<input, pieces, parts, nodes, heap, cursor, emitted, out>>

-----------------------------------------------------------------------------
Naive  == CallNaive \/ NaiveMerge \/ NaiveDone
Flat   == CallFlat \/ FlatMerge \/ FlatDone
Heap   == CallHeap \/ HeapSkip \/ HeapMerge \/ HeapDone \/ Collect \/ CollectDone
Tokens == Emit \/ EmitFails \/ EmitDone

Next == Seed \/ CallReturns \/ Naive \/ Flat \/ Heap \/ Tokens
Spec == Init /\ [][Next]_vars

\* Sequential code: it keeps running until it returns.
FairSpec == Spec /\ WF_vars(Next)

-----------------------------------------------------------------------------
(* Properties *)

\* The slots that are not merged away, in the order of their positions.
Live == { s \in DOMAIN nodes : nodes[s].alive }
Ascending(S) ==
    CHOOSE path \in [1 .. Cardinality(S) -> S] :
        \A x, y \in DOMAIN path : x < y => path[x] < path[y]
LiveSlots == Ascending(Live)

PiecesOfNodes == [x \in DOMAIN LiveSlots |-> PieceAt(LiveSlots[x])]

\* The pieces of the word, in whichever structure the running loop keeps them.
CurrentPieces ==
    IF pc = "seed" THEN SeedPieces
    ELSE IF pc = "merge" /\ merge_fn = "flat" THEN PiecesOfParts
    ELSE IF pc \in {"merge", "collect"} /\ merge_fn = "nlogn" THEN PiecesOfNodes
    ELSE pieces

\* The indices that the loops follow stay inside their vectors.
TypeOK ==
    /\ pc \in {"seed", "call", "merge", "collect", "emit", "done", "error"}
    /\ \A x \in DOMAIN parts :
         parts[x].start \in 0 .. Len(word) /\ parts[x].rank \in 0 .. MaxRank
    /\ pc = "merge" /\ merge_fn = "flat" => Len(parts) >= 2
    /\ \A s \in DOMAIN nodes :
         /\ {nodes[s].prev, nodes[s].next} \subseteq DOMAIN nodes \cup {None}
         /\ End(nodes[s]) \in 1 .. Len(word)
    /\ \A e \in heap : {e.left, e.right} \subseteq DOMAIN nodes /\ e.rank < MaxRank
    /\ cursor \in DOMAIN nodes \cup {None}
    /\ emitted \in 0 .. Len(pieces)

\* What the fast loops remember about pairs is what the table says of them now:
\* each cached rank of the flat loop, its sentinel's included, and a live
\* candidate in the heap for every pair of neighbours that can be merged.  The
\* list never leads to a slot that was merged away.
PairsAreTracked ==
    /\ TypeOK
    /\ pc = "merge" =>
         /\ \A x \in DOMAIN parts : parts[x].rank = PartRank(parts, x)
         /\ \A s \in Live :
              nodes[s].next # None =>
                /\ nodes[nodes[s].next].alive /\ nodes[nodes[s].next].prev = s
                /\ Candidate(nodes, s, nodes[s].next) \subseteq heap
    /\ pc = "collect" /\ cursor # None => nodes[cursor].alive

\* The tokens lie end to end over the word from its first byte, and each stands
\* for the bytes of its span.  A word that is encoded is encoded whole and was
\* merged as far as it can be.
EncodingIsWhole ==
    /\ \A x \in DOMAIN out :
         /\ out[x].start = IF x = 1 THEN 0 ELSE out[x - 1].end
         /\ out[x].start < out[x].end
         /\ out[x].bytes = Slice(word, out[x].start, out[x].end)
    /\ pc = "done" =>
         /\ Len(word) = IF out = << >> THEN 0 ELSE out[Len(out)].end
         /\ \A x \in 1 .. Len(pieces) - 1 : PairRank(x) = MaxRank

\* encode_word_bpe returns.
EncodeReturns == <>(pc \in {"done", "error"})

Merging == INSTANCE BpeMerge WITH pieces <- CurrentPieces

\* docs/design/tokenizers.md: the fast loops agree with the naive one.  Each of
\* their merges is the naive loop's next merge.
ImplementsMerge == Merging!Spec
=============================================================================
