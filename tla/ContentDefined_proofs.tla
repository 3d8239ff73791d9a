----------------------- MODULE ContentDefined_proofs ------------------------
(***************************************************************************)
(* What is chosen by content alone.                                        *)
(*                                                                         *)
(* FastCdc: the chunks of a stream tile what is fed to it, its hash is the *)
(* sum over its open chunk, it cuts where a chunk's own bytes first meet   *)
(* the documented condition, and the iterator, by either of its searches,  *)
(* cuts a slice in the same places: for every input, gear table, hash      *)
(* width and valid configuration, and through any number of finishes.      *)
(*                                                                         *)
(* Winnowing: for every input and window, the deque is the suffix minima   *)
(* of the current window, and the fingerprints are the rightmost minima of *)
(* all windows so far.  The two while loops over the deque are one lemma   *)
(* each: dropping what lies before a position leaves the suffix minima     *)
(* from that position on, and pushing a hash leaves those of a range that  *)
(* is longer by one.  Both are about any range of positions, so they serve *)
(* fill_first_window and slide_one alike.                                  *)
(***************************************************************************)
EXTENDS FastCdc, Winnowing, SequenceTheorems, Foundations

-----------------------------------------------------------------------------
(* FastCdc: what the proof knows of a state *)

Boundary == [offset : Nat, size : Nat]

\* Where the chunk after the first n boundaries begins.
EndOf(n) == IF n = 0 THEN start ELSE emitted[n].offset

Shape ==
    /\ input \in Seq(Byte)
    /\ emitted \in Seq(Boundary)

\* A boundary follows the one before it; before finish no chunk is short.
BoundaryOK(n) ==
    /\ emitted[n].offset - emitted[n].size = EndOf(n - 1)
    /\ emitted[n].size \in 1 .. config.max_size
    /\ n < Len(emitted) \/ ~finished => emitted[n].size >= config.min_size

IInv ==
    /\ Shape
    /\ TypeOK
    /\ \A n \in 1 .. Len(emitted) : BoundaryOK(n)
    /\ total_bytes - bytes_in_chunk = EndOf(Len(emitted))

LEMMA ConfigIs ==
    ASSUME TypeOK
    PROVE  /\ config.min_size \in Nat /\ config.max_size \in Nat
           /\ 0 < config.min_size /\ config.min_size <= config.max_size
<1>1. config \in Configs
  BY DEF TypeOK
<1>2. /\ config.min_size \in Nat /\ config.avg_size \in Nat /\ config.max_size \in Nat
      /\ IsValid(config)
  BY <1>1, FastCdcAssumption
<1>3. QED
  BY <1>2 DEF IsValid

LEMMA ModulusIs == Modulus \in Nat \ {0}
BY TwoToIs, FastCdcAssumption DEF Modulus

LEMMA RolledIsHash ==
    ASSUME NEW h \in Hashes, NEW b \in Byte
    PROVE  Rolled(h, b) \in Hashes
<1>1. Modulus \in Nat \ {0}
  BY ModulusIs
<1>2. GEAR_TABLE[b] \in Int /\ h \in Int
  BY <1>1, FastCdcAssumption DEF Hashes
<1> HIDE DEF Modulus
<1>3. (2 * h) % Modulus \in Int
  BY <1>1, <1>2
<1>4. (((2 * h) % Modulus) + GEAR_TABLE[b]) % Modulus \in 0 .. Modulus - 1
  BY <1>1, <1>2, <1>3
<1>5. QED
  BY <1>4 DEF Rolled, ShiftLeft, Hashes

LEMMA InitIInv == Init => IInv
<1>1. SUFFICES ASSUME Init PROVE IInv
  OBVIOUS
<1>2. 0 \in Hashes
  BY ModulusIs DEF Hashes
<1>3. config \in Configs
  BY <1>1 DEF Init
<1>4. config.max_size \in Nat /\ 0 < config.max_size
  <2>1. config.min_size \in Nat /\ config.avg_size \in Nat /\ config.max_size \in Nat /\ IsValid(config)
    BY <1>3, FastCdcAssumption
  <2>2. QED
    BY <2>1 DEF IsValid
<1>5. TypeOK
  BY <1>1, <1>2, <1>3, <1>4 DEF Init, TypeOK
<1>6. QED
  BY <1>1, <1>5 DEF Init, IInv, Shape, EndOf

\* A chunk that is emitted where the last one ended.
LEMMA EmitKeeps ==
    ASSUME IInv,
           NEW size \in 1 .. config.max_size, NEW end \in Nat,
           end - size = EndOf(Len(emitted)),
           finished' \/ size >= config.min_size, ~finished,
           UNCHANGED <<config, start>>,
           EmitCut(size, end)
    PROVE  /\ emitted' \in Seq(Boundary)
           /\ \A n \in 1 .. Len(emitted') : BoundaryOK(n)'
           /\ EndOf(Len(emitted))' = end
<1> DEFINE new == [offset |-> end, size |-> size]
<1>1. emitted \in Seq(Boundary) /\ TypeOK
  BY DEF IInv, Shape
<1>2. new \in Boundary
  BY ConfigIs, <1>1 DEF Boundary
<1>3. emitted' = Append(emitted, new)
  BY DEF EmitCut
<1>4. /\ emitted' \in Seq(Boundary) /\ Len(emitted') = Len(emitted) + 1
      /\ \A n \in 1 .. Len(emitted) : emitted'[n] = emitted[n]
      /\ emitted'[Len(emitted) + 1] = new
  BY <1>1, <1>2, <1>3
<1>5. EndOf(Len(emitted))' = end
  BY <1>1, <1>4 DEF EndOf
<1>6. \A n \in 0 .. Len(emitted) : EndOf(n)' = EndOf(n)
  BY <1>1, <1>4 DEF EndOf
<1>7. ASSUME NEW n \in 1 .. Len(emitted') PROVE BoundaryOK(n)'
  <2>1. CASE n \in 1 .. Len(emitted)
    <3>1. emitted'[n] = emitted[n] /\ n - 1 \in 0 .. Len(emitted) /\ EndOf(n - 1)' = EndOf(n - 1)
      BY <2>1, <1>1, <1>4, <1>6
    <3>2. BoundaryOK(n)
      BY <2>1 DEF IInv
    <3>3. QED
      BY <3>1, <3>2 DEF BoundaryOK
  <2>2. CASE n = Len(emitted) + 1
    <3>1. emitted'[n].offset = end /\ emitted'[n].size = size
      BY <2>2, <1>4
    <3>2. EndOf(n - 1)' = EndOf(Len(emitted))
      BY <2>2, <1>1, <1>6
    <3>3. QED
      BY <3>1, <3>2, <2>2, <1>4 DEF BoundaryOK
  <2>3. QED
    BY <2>1, <2>2, <1>1, <1>4
<1>8. QED
  BY <1>4, <1>5, <1>7

\* Nothing is emitted.
LEMMA BoundariesKept ==
    ASSUME IInv, UNCHANGED <<config, start, emitted>>, finished' <=> finished
    PROVE  /\ \A n \in 1 .. Len(emitted') : BoundaryOK(n)'
           /\ EndOf(Len(emitted))' = EndOf(Len(emitted))
BY DEF IInv, BoundaryOK, EndOf

LEMMA StepFeed == ASSUME NEW b \in Byte PROVE IInv /\ Feed(b) => IInv'
<1>1. SUFFICES ASSUME IInv, Feed(b) PROVE IInv'
  OBVIOUS
<1> DEFINE size == bytes_in_chunk + 1
           h    == Rolled(hash, b)
<1>2. /\ TypeOK /\ Shape /\ ~finished /\ ~finished'
      /\ config.min_size \in Nat /\ config.max_size \in Nat
      /\ 0 < config.min_size /\ config.min_size <= config.max_size
      /\ start \in Nat /\ total_bytes \in Nat
      /\ bytes_in_chunk \in 0 .. config.max_size - 1 /\ size \in 1 .. config.max_size
      /\ UNCHANGED <<config, start>> /\ total_bytes' = total_bytes + 1
  BY <1>1, ConfigIs, SMTT(30) DEF IInv, TypeOK, Shape, Feed
<1>3. h \in Hashes /\ hash \in Hashes
  BY <1>2, RolledIsHash DEF TypeOK
<1>4. input' \in Seq(Byte) /\ total_bytes' = start' + Len(input')
  BY <1>1, <1>2 DEF Feed, TypeOK, Shape
<1> HIDE DEF h
<1>5. CASE size >= config.min_size /\ Cuts(h, size)
  <2>1. EmitCut(size, total_bytes')
    BY <1>1, <1>5 DEF Feed, h
  <2>2. total_bytes' - size = EndOf(Len(emitted)) /\ total_bytes' \in Nat
    BY <1>1, <1>2 DEF IInv
  <2>3. /\ emitted' \in Seq(Boundary)
        /\ \A n \in 1 .. Len(emitted') : BoundaryOK(n)'
        /\ EndOf(Len(emitted))' = total_bytes'
    BY <2>1, <2>2, <1>1, <1>2, <1>5, EmitKeeps
  <2>4. bytes_in_chunk' = 0 /\ hash' = 0 /\ 0 \in Hashes
    BY <2>1, ModulusIs DEF EmitCut, Hashes
  <2>5. TypeOK'
    BY <2>4, <1>2, <1>4 DEF TypeOK
  <2>6. QED
    BY <2>3, <2>4, <2>5, <1>2, <1>4 DEF IInv, Shape
<1>6. CASE ~(size >= config.min_size /\ Cuts(h, size))
  <2>1. /\ bytes_in_chunk' = size /\ UNCHANGED emitted
        /\ hash' = (IF size < config.min_size THEN hash ELSE h)
    BY <1>1, <1>6 DEF Feed, h
  <2>2. size < config.max_size
    BY <1>2, <1>6 DEF Cuts
  <2>3. hash' \in Hashes
    BY <2>1, <1>3
  <2>4. TypeOK'
    BY <2>1, <2>2, <2>3, <1>2, <1>4 DEF TypeOK
  <2>5. /\ \A n \in 1 .. Len(emitted') : BoundaryOK(n)'
        /\ EndOf(Len(emitted))' = EndOf(Len(emitted))
    BY <2>1, <1>1, <1>2, BoundariesKept
  <2>6. total_bytes' - bytes_in_chunk' = EndOf(Len(emitted))
    BY <2>1, <1>1, <1>2 DEF IInv
  <2>7. QED
    BY <2>1, <2>4, <2>5, <2>6, <1>2, <1>4 DEF IInv, Shape
<1>7. QED
  BY <1>5, <1>6

LEMMA StepFinish == IInv /\ Finish => IInv'
<1>1. SUFFICES ASSUME IInv, Finish PROVE IInv'
  OBVIOUS
<1>2. /\ TypeOK /\ Shape /\ ~finished /\ finished' /\ config.max_size \in Nat
      /\ start \in Nat /\ total_bytes \in Nat /\ bytes_in_chunk \in 0 .. config.max_size - 1
      /\ UNCHANGED <<config, start, total_bytes, input>>
  BY <1>1, ConfigIs DEF IInv, TypeOK, Shape, Finish
<1>3. CASE bytes_in_chunk > 0
  <2>1. EmitCut(bytes_in_chunk, total_bytes) /\ bytes_in_chunk \in 1 .. config.max_size
    BY <1>1, <1>2, <1>3 DEF Finish
  <2>2. /\ emitted' \in Seq(Boundary)
        /\ \A n \in 1 .. Len(emitted') : BoundaryOK(n)'
        /\ EndOf(Len(emitted))' = total_bytes
    BY <2>1, <1>1, <1>2, EmitKeeps DEF IInv
  <2>3. bytes_in_chunk' = 0 /\ hash' = 0 /\ 0 \in Hashes
    BY <2>1, ModulusIs DEF EmitCut, Hashes
  <2>4. TypeOK'
    BY <2>1, <2>3, <1>2 DEF TypeOK
  <2>5. QED
    BY <2>2, <2>3, <2>4, <1>2 DEF IInv, Shape
<1>4. CASE ~(bytes_in_chunk > 0)
  <2>1. UNCHANGED <<hash, bytes_in_chunk, emitted>> /\ bytes_in_chunk = 0
    BY <1>1, <1>2, <1>4 DEF Finish
  <2>2. TypeOK'
    BY <2>1, <1>2 DEF TypeOK
  <2>3. \A n \in 1 .. Len(emitted') : BoundaryOK(n)'
    BY <2>1, <1>1, <1>2 DEF IInv, BoundaryOK, EndOf
  <2>4. total_bytes' - bytes_in_chunk' = EndOf(Len(emitted))'
    BY <2>1, <1>1, <1>2 DEF IInv, EndOf
  <2>5. QED
    BY <2>1, <2>2, <2>3, <2>4, <1>2 DEF IInv, Shape
<1>5. QED
  BY <1>3, <1>4

\* The iterator only reads what the stream has left.
LEMMA StepIterNext == IInv /\ IterNext => IInv'
BY DEF IInv, Shape, TypeOK, BoundaryOK, EndOf, IterNext, stream_vars

LEMMA StepResume == IInv /\ Resume => IInv'
<1>1. SUFFICES ASSUME IInv, Resume PROVE IInv'
  OBVIOUS
<1>2. /\ TypeOK /\ finished /\ ~finished' /\ bytes_in_chunk = 0
      /\ UNCHANGED <<config, hash, bytes_in_chunk, total_bytes>>
      /\ input' = << >> /\ emitted' = << >> /\ start' = total_bytes
      /\ input \in Seq(Byte)
  BY <1>1 DEF IInv, TypeOK, Shape, Resume, stream_vars
<1>3. total_bytes \in Nat /\ Len(input') = 0 /\ Len(emitted') = 0
  BY <1>2 DEF TypeOK
<1>4. TypeOK'
  BY <1>2, <1>3 DEF TypeOK
<1>5. Shape'
  BY <1>2 DEF Shape
<1>6. (\A n \in 1 .. Len(emitted') : BoundaryOK(n)') /\ EndOf(Len(emitted))' = start'
  BY <1>3 DEF EndOf
<1>7. QED
  BY <1>2, <1>3, <1>4, <1>5, <1>6 DEF IInv

LEMMA StepStutter == IInv /\ UNCHANGED vars => IInv'
BY DEF IInv, Shape, TypeOK, BoundaryOK, EndOf, vars, stream_vars

\* The strengthened invariant of the stream, its iterator and its reuse.
THEOREM Invariance == Spec => []IInv
<1>1. IInv /\ [Next]_vars => IInv'
  BY StepFeed, StepFinish, StepIterNext, StepResume, StepStutter DEF Next
<1>2. QED
  BY InitIInv, <1>1, PTL DEF Spec

\* An open chunk is shorter than max_size, and none is open after finish.
THEOREM TypeCorrect == Spec => []TypeOK
<1>1. IInv => TypeOK
  BY DEF IInv
<1>2. QED
  BY Invariance, <1>1, PTL

\* The boundaries a stream emits lie end to end over all that it was fed, and
\* only the chunk that finish ends is shorter than min_size.
THEOREM TilingCorrect == Spec => []ChunksTile
<1>1. IInv => ChunksTile
  <2>1. SUFFICES ASSUME IInv PROVE ChunksTile
    OBVIOUS
  <2>2. DOMAIN emitted = 1 .. Len(emitted) /\ Len(emitted) \in Nat /\ TypeOK
    BY <2>1 DEF IInv, Shape
  <2>3. \A n \in DOMAIN emitted : BoundaryOK(n)
    BY <2>1, <2>2 DEF IInv
  <2>4. \A n \in DOMAIN emitted : EndOf(n - 1) = IF n = 1 THEN start ELSE emitted[n - 1].offset
    BY <2>2 DEF EndOf
  <2>5. EndOf(Len(emitted)) = IF emitted = << >> THEN start ELSE emitted[Len(emitted)].offset
    BY <2>1, <2>2 DEF EndOf, IInv, Shape
  <2>6. QED
    BY <2>1, <2>2, <2>3, <2>4, <2>5 DEF ChunksTile, BoundaryOK, IInv
<1>2. QED
  BY Invariance, <1>1, PTL
-----------------------------------------------------------------------------
(* The rolled hash is the sum that it abbreviates. *)

LEMMA ConfigSizes ==
    ASSUME config \in Configs
    PROVE  /\ config.min_size \in Nat /\ config.avg_size \in Nat /\ config.max_size \in Nat
           /\ 0 < config.min_size /\ config.min_size <= config.avg_size
           /\ config.avg_size <= config.max_size
           /\ config.mask_small \in SUBSET Bits /\ config.mask_large \in SUBSET Bits
<1>1. /\ config.min_size \in Nat /\ config.avg_size \in Nat /\ config.max_size \in Nat
      /\ config.mask_small \in SUBSET Bits /\ config.mask_large \in SUBSET Bits
      /\ IsValid(config)
  BY FastCdcAssumption
<1>2. QED
  BY <1>1 DEF IsValid

LEMMA GearIs == ASSUME NEW b \in Byte PROVE GEAR_TABLE[b] \in Nat
BY ModulusIs, FastCdcAssumption DEF Hashes

\* The sums over the first n bytes of a chunk, weighted as in the whole chunk.
IsSum(s, chunk) ==
    s = [n \in 0 .. Len(chunk) |->
           IF n < config.min_size THEN 0
           ELSE s[n - 1] + TwoTo[Len(chunk) - n] * GEAR_TABLE[chunk[n]]]

LEMMA SumExists ==
    ASSUME config \in Configs, NEW c \in Seq(Byte)
    PROVE  \E s : IsSum(s, c)
<1> DEFINE N == Len(c)
           Weighted(n) == TwoTo[N - n] * GEAR_TABLE[c[n]]
           Step == [p \in (0 .. N) \X Nat |->
                      IF p[1] < config.min_size THEN 0 ELSE p[2] + Weighted(p[1])]
<1>0. N \in Nat /\ config.min_size \in Nat /\ 0 < config.min_size
  BY ConfigSizes
<1>1. \A n \in 1 .. N : Weighted(n) \in Nat
  <2>1. SUFFICES ASSUME NEW n \in 1 .. N PROVE Weighted(n) \in Nat
    OBVIOUS
  <2>2. TwoTo[N - n] \in Nat /\ GEAR_TABLE[c[n]] \in Nat
    <3>1. N - n \in Nat /\ c[n] \in Byte
      BY <1>0, ElementOfSeq
    <3>2. QED
      BY <3>1, TwoToIs, GearIs
  <2>3. QED
    BY <2>2
<1>2. \A n \in 0 .. N, v \in Nat : ~(n < config.min_size) => v + Weighted(n) \in Nat
  BY <1>0, <1>1
<1> HIDE DEF Weighted, N
<1>3. Step \in [(0 .. N) \X Nat -> Nat]
  BY <1>2
<1>4. \A n \in 0 .. N, v \in Nat :
        Step[<<n, v>>] = IF n < config.min_size THEN 0 ELSE v + Weighted(n)
  OBVIOUS
<1> HIDE DEF Step
<1>5. Countings(0, N, Nat, 0, Step) # {}
  <2>1. 0 \in Int /\ N \in Int /\ 0 \in Nat
    BY <1>0
  <2>2. QED
    BY <2>1, <1>3, CountingHasValue
<1>6. PICK s \in [0 .. N -> Nat] :
        \A n \in 0 .. N : s[n] = IF n = 0 THEN 0 ELSE Step[<<n, s[n - 1]>>]
  BY <1>5 DEF Countings
<1>7. ASSUME NEW n \in 0 .. N
      PROVE  s[n] = IF n < config.min_size THEN 0 ELSE s[n - 1] + Weighted(n)
  <2>1. CASE n = 0
    BY <1>0, <1>6, <2>1
  <2>2. CASE n # 0
    <3>1. n - 1 \in 0 .. N
      BY <1>0, <2>2
    <3>2. s[n - 1] \in Nat
      BY <1>6, <3>1
    <3>3. s[n] = Step[<<n, s[n - 1]>>]
      BY <1>6, <2>2
    <3>4. QED
      BY <1>4, <3>2, <3>3
  <2>3. QED
    BY <2>1, <2>2
<1>8. s = [n \in 0 .. N |-> s[n]]
  BY <1>6
<1>9. IsSum(s, c)
  BY <1>7, <1>8 DEF IsSum, N, Weighted
<1>10. QED
  BY <1>9

LEMMA SumIsNumber ==
    ASSUME config \in Configs, NEW c \in Seq(Byte), NEW s, IsSum(s, c),
           NEW n \in 0 .. Len(c)
    PROVE  s[n] \in Nat
<1> DEFINE Bad == { x \in 0 .. Len(c) : s[x] \notin Nat }
<1>1. SUFFICES ASSUME Bad # {} PROVE FALSE
  OBVIOUS
<1>2. PICK x \in Bad : \A y \in Bad : x <= y
  <2>1. Bad \subseteq Nat
    OBVIOUS
  <2> HIDE DEF Bad
  <2>2. QED
    BY <1>1, <2>1, LeastNatural
<1>3. x \in 0 .. Len(c) /\ s[x] \notin Nat /\ x - 1 \notin Bad
  BY <1>2
<1>4. s[x] = IF x < config.min_size THEN 0
             ELSE s[x - 1] + TwoTo[Len(c) - x] * GEAR_TABLE[c[x]]
  BY <1>3 DEF IsSum
<1>5. ~(x < config.min_size) /\ config.min_size \in Nat /\ 0 < config.min_size
  BY <1>3, <1>4, ConfigSizes
<1>6. x \in 1 .. Len(c) /\ x - 1 \in 0 .. Len(c) /\ Len(c) - x \in Nat
  BY <1>3, <1>5
<1>7. s[x - 1] \in Nat
  BY <1>3, <1>6
<1>8. TwoTo[Len(c) - x] \in Nat /\ GEAR_TABLE[c[x]] \in Nat
  BY <1>6, TwoToIs, GearIs, ElementOfSeq
<1>9. TwoTo[Len(c) - x] * GEAR_TABLE[c[x]] \in Nat
  BY <1>8
<1>10. QED
  BY <1>3, <1>4, <1>5, <1>7, <1>9

LEMMA HashOfIs ==
    ASSUME config \in Configs, NEW c \in Seq(Byte)
    PROVE  \E s : IsSum(s, c) /\ HashOf(c) = s[Len(c)] % Modulus
<1> DEFINE G == CHOOSE s : IsSum(s, c)
<1>1. IsSum(G, c)
  BY SumExists
<1>2. HashOf(c) = G[Len(c)] % Modulus
  BY DEF HashOf, IsSum
<1> HIDE DEF G
<1>3. QED
  BY <1>1, <1>2

LEMMA HashOfIsHash ==
    ASSUME config \in Configs, NEW c \in Seq(Byte)
    PROVE  HashOf(c) \in Hashes
<1>1. PICK s : IsSum(s, c) /\ HashOf(c) = s[Len(c)] % Modulus
  BY HashOfIs
<1>2. s[Len(c)] \in Nat /\ Modulus \in Nat \ {0}
  BY <1>1, SumIsNumber, ModulusIs
<1>3. s[Len(c)] % Modulus \in 0 .. Modulus - 1
  BY <1>2, Division
<1>4. QED
  BY <1>1, <1>3 DEF Hashes

\* Bytes before the min_size-th do not count.
LEMMA HashOfShort ==
    ASSUME config \in Configs, NEW c \in Seq(Byte), Len(c) < config.min_size
    PROVE  HashOf(c) = 0
<1>1. PICK s : IsSum(s, c) /\ HashOf(c) = s[Len(c)] % Modulus
  BY HashOfIs
<1>2. s[Len(c)] = 0
  <2>1. Len(c) \in 0 .. Len(c)
    OBVIOUS
  <2>2. QED
    BY <1>1, <2>1 DEF IsSum
<1>3. Modulus \in Nat \ {0}
  BY ModulusIs
<1>4. 0 % Modulus = 0
  <2>1. 0 = Modulus * 0 + 0 /\ 0 \in 0 .. Modulus - 1
    BY <1>3
  <2>2. QED
    BY <1>3, <2>1, DivisionUnique
<1>5. QED
  BY <1>1, <1>2, <1>4

\* A byte more doubles the weight of every byte before it.
LEMMA HashOfAppend ==
    ASSUME config \in Configs, NEW c \in Seq(Byte), NEW b \in Byte,
           Len(c) + 1 >= config.min_size
    PROVE  HashOf(Append(c, b)) = Rolled(HashOf(c), b)
<1> DEFINE d == Append(c, b)
           N == Len(c)
<1>0. /\ d \in Seq(Byte) /\ Len(d) = N + 1 /\ d[N + 1] = b /\ N \in Nat
      /\ \A n \in 1 .. N : d[n] = c[n]
      /\ config.min_size \in Nat /\ 0 < config.min_size
  BY ConfigSizes
<1> HIDE DEF d
<1>1. PICK s : IsSum(s, c) /\ HashOf(c) = s[N] % Modulus
  BY HashOfIs
<1>2. PICK u : IsSum(u, d) /\ HashOf(d) = u[Len(d)] % Modulus
  BY <1>0, HashOfIs
<1>3. \A n \in 0 .. N : s[n] \in Nat
  BY <1>1, SumIsNumber
<1>4. \A n \in 0 .. N : u[n] = 2 * s[n]
  <2> DEFINE Bad == { x \in 0 .. N : u[x] # 2 * s[x] }
  <2>1. SUFFICES ASSUME Bad # {} PROVE FALSE
    OBVIOUS
  <2>2. PICK x \in Bad : \A y \in Bad : x <= y
    <3>1. Bad \subseteq Nat
      OBVIOUS
    <3> HIDE DEF Bad
    <3>2. QED
      BY <2>1, <3>1, LeastNatural
  <2>3. x \in 0 .. N /\ u[x] # 2 * s[x] /\ x - 1 \notin Bad /\ x \in 0 .. Len(d)
    BY <1>0, <2>2
  <2>4. s[x] = IF x < config.min_size THEN 0
               ELSE s[x - 1] + TwoTo[N - x] * GEAR_TABLE[c[x]]
    BY <1>1, <2>3 DEF IsSum
  <2>5. u[x] = IF x < config.min_size THEN 0
               ELSE u[x - 1] + TwoTo[Len(d) - x] * GEAR_TABLE[d[x]]
    BY <1>2, <2>3 DEF IsSum
  <2>6. ~(x < config.min_size)
    BY <2>3, <2>4, <2>5
  <2>7. x \in 1 .. N /\ x - 1 \in 0 .. N /\ N - x \in Nat /\ Len(d) - x = (N - x) + 1
    BY <1>0, <2>3, <2>6
  <2>8. u[x - 1] = 2 * s[x - 1] /\ s[x - 1] \in Nat /\ d[x] = c[x]
    BY <1>0, <1>3, <2>3, <2>7
  <2>9. TwoTo[Len(d) - x] = 2 * TwoTo[N - x] /\ TwoTo[N - x] \in Nat
    BY <2>7, TwoToIs
  <2>10. GEAR_TABLE[c[x]] \in Nat
    BY <2>7, GearIs, ElementOfSeq
  <2> DEFINE w == TwoTo[N - x]
             g == GEAR_TABLE[c[x]]
  <2>11. w \in Nat /\ g \in Nat /\ u[x] = 2 * s[x - 1] + (2 * w) * g /\ s[x] = s[x - 1] + w * g
    BY <2>4, <2>5, <2>6, <2>8, <2>9, <2>10
  <2> HIDE DEF w, g
  <2>12. (2 * w) * g = 2 * (w * g) /\ w * g \in Nat
    BY <2>11
  <2>13. u[x] = 2 * s[x]
    BY <2>8, <2>11, <2>12, SMTT(30)
  <2>14. QED
    BY <2>3, <2>13
<1>5. u[N + 1] = 2 * s[N] + GEAR_TABLE[b]
  <2>1. N + 1 \in 0 .. Len(d) /\ ~(N + 1 < config.min_size) /\ (N + 1) - 1 = N
    BY <1>0
  <2>2. u[N + 1] = u[(N + 1) - 1] + TwoTo[Len(d) - (N + 1)] * GEAR_TABLE[d[N + 1]]
    BY <1>2, <2>1 DEF IsSum
  <2>3. Len(d) - (N + 1) = 0 /\ TwoTo[0] = 1 /\ GEAR_TABLE[b] \in Nat
    BY <1>0, TwoToIs, GearIs
  <2>4. u[N] = 2 * s[N]
    BY <1>0, <1>4
  <2>5. QED
    BY <1>0, <2>1, <2>2, <2>3, <2>4
<1> DEFINE t == s[N]
           g == GEAR_TABLE[b]
           M == Modulus
<1>6. t \in Int /\ g \in Int /\ M \in Int /\ M > 0
  BY <1>0, <1>3, ModulusIs, GearIs
<1>7. HashOf(d) = (2 * t + g) % M /\ HashOf(c) = t % M
  BY <1>0, <1>1, <1>2, <1>5
<1>8. Rolled(t % M, b) = (((2 * (t % M)) % M) + g) % M
  BY DEF Rolled, ShiftLeft
<1> HIDE DEF t, g, M
<1>9. (2 * (t % M)) % M = (2 * t) % M
  BY <1>6, ModDouble
<1>10. 2 * t \in Int
  BY <1>6
<1>11. (((2 * t) % M) + g) % M = (2 * t + g) % M
  BY <1>6, <1>10, ModAdd
<1>12. QED
  BY <1>7, <1>8, <1>9, <1>10, <1>11 DEF d

-----------------------------------------------------------------------------
(* The chunks as slices of the input *)

\* The bytes of s from x (from 0) up to y.
Part(s, x, y) == SubSeq(s, x + 1, y)

LEMMA PartIs ==
    ASSUME NEW s \in Seq(Byte), NEW x \in 0 .. Len(s), NEW y \in x .. Len(s)
    PROVE  /\ Part(s, x, y) \in Seq(Byte) /\ Len(Part(s, x, y)) = y - x
           /\ \A n \in 1 .. y - x : Part(s, x, y)[n] = s[x + n]
<1>0. Len(s) \in Nat /\ x \in Nat /\ y \in Nat /\ x <= y /\ y <= Len(s)
  OBVIOUS
<1>1. \A n \in x + 1 .. y : s[n] \in Byte
  <2>1. SUFFICES ASSUME NEW n \in x + 1 .. y PROVE s[n] \in Byte
    OBVIOUS
  <2>2. n \in 1 .. Len(s)
    BY <1>0
  <2>3. QED
    BY <2>2, ElementOfSeq
<1>2. x + 1 \in Int /\ y \in Int
  BY <1>0
<1> DEFINE c == SubSeq(s, x + 1, y)
<1>3. /\ c \in Seq(Byte)
      /\ Len(c) = IF x + 1 <= y THEN y - (x + 1) + 1 ELSE 0
      /\ \A n \in 1 .. y - (x + 1) + 1 : c[n] = s[(x + 1) + n - 1]
  BY <1>1, <1>2, SubSeqProperties
<1> HIDE DEF c
<1>4. Len(c) = y - x /\ y - (x + 1) + 1 = y - x
  BY <1>0, <1>3
<1>5. \A n \in 1 .. y - x : c[n] = s[x + n]
  <2>1. \A n \in 1 .. y - x : (x + 1) + n - 1 = x + n
    BY <1>0
  <2>2. QED
    BY <1>3, <1>4, <2>1
<1>6. QED
  BY <1>3, <1>4, <1>5 DEF c, Part

\* A part up to the end grows with s; the others stay.
LEMMA PartOfAppend ==
    ASSUME NEW s \in Seq(Byte), NEW b \in Byte, NEW x \in 0 .. Len(s)
    PROVE  /\ Part(Append(s, b), x, Len(s) + 1) = Append(Part(s, x, Len(s)), b)
           /\ \A y \in x .. Len(s) : Part(Append(s, b), x, y) = Part(s, x, y)
<1> DEFINE u == Append(s, b)
           N == Len(s)
<1>0. /\ u \in Seq(Byte) /\ Len(u) = N + 1 /\ u[N + 1] = b /\ N \in Nat
      /\ \A n \in 1 .. N : u[n] = s[n]
      /\ x \in 0 .. Len(u) /\ N \in x .. N
  OBVIOUS
<1> HIDE DEF u
<1>1. ASSUME NEW y \in x .. N PROVE Part(u, x, y) = Part(s, x, y)
  <2>1. y \in x .. Len(u)
    BY <1>0
  <2>2. /\ Part(u, x, y) \in Seq(Byte) /\ Len(Part(u, x, y)) = y - x
        /\ \A n \in 1 .. y - x : Part(u, x, y)[n] = u[x + n]
    BY <1>0, <2>1, PartIs
  <2>3. /\ Part(s, x, y) \in Seq(Byte) /\ Len(Part(s, x, y)) = y - x
        /\ \A n \in 1 .. y - x : Part(s, x, y)[n] = s[x + n]
    BY PartIs
  <2>4. \A n \in 1 .. y - x : x + n \in 1 .. N
    BY <1>0
  <2>5. \A n \in 1 .. y - x : Part(u, x, y)[n] = Part(s, x, y)[n]
    BY <1>0, <2>2, <2>3, <2>4
  <2>6. QED
    BY <2>2, <2>3, <2>5, SeqEqual
<1>2. Part(u, x, N + 1) = Append(Part(s, x, N), b)
  <2> DEFINE c == Part(s, x, N)
             d == Part(u, x, N + 1)
             e == Append(c, b)
  <2>1. c \in Seq(Byte) /\ Len(c) = N - x /\ \A n \in 1 .. N - x : c[n] = s[x + n]
    BY <1>0, PartIs
  <2>2. /\ d \in Seq(Byte) /\ Len(d) = (N + 1) - x
        /\ \A n \in 1 .. (N + 1) - x : d[n] = u[x + n]
    <3>1. N + 1 \in x .. Len(u)
      BY <1>0
    <3>2. QED
      BY <1>0, <3>1, PartIs
  <2> HIDE DEF c, d
  <2>3. /\ e \in Seq(Byte) /\ Len(e) = (N - x) + 1 /\ e[(N - x) + 1] = b
        /\ \A n \in 1 .. N - x : e[n] = c[n]
    BY <2>1, AppendProperties
  <2> HIDE DEF e
  <2>4. ASSUME NEW n \in 1 .. (N + 1) - x PROVE d[n] = e[n]
    <3>1. CASE n = (N - x) + 1
      <4>1. x + n = N + 1
        BY <1>0, <3>1
      <4>2. QED
        BY <1>0, <2>2, <2>3, <3>1, <4>1
    <3>2. CASE n # (N - x) + 1
      <4>1. n \in 1 .. N - x /\ x + n \in 1 .. N
        BY <1>0, <3>2
      <4>2. QED
        BY <1>0, <2>1, <2>2, <2>3, <4>1
    <3>3. QED
      BY <3>1, <3>2
  <2>5. Len(d) = Len(e)
    BY <1>0, <2>2, <2>3
  <2>6. QED
    BY <2>2, <2>3, <2>4, <2>5, SeqEqual DEF c, d, e
<1>3. QED
  BY <1>1, <1>2 DEF u

-----------------------------------------------------------------------------
(* Hash and cuts of the stream *)

\* The open chunk began while this input was fed.
OpenIsHere == bytes_in_chunk <= Len(input)

\* No byte of the open chunk could have ended it.
OpenIsUncut ==
    \A x \in 1 .. bytes_in_chunk :
        ~IsCut(Part(input, Len(input) - bytes_in_chunk, Len(input) - bytes_in_chunk + x))

\* What CutsAreFirst says of one chunk, in offsets of the input.
CutOK(n) ==
    LET end   == emitted[n].offset - start
        begin == end - emitted[n].size
    IN  /\ 0 <= begin /\ end <= Len(input)
        /\ \A x \in begin + 1 .. end - 1 : ~IsCut(Part(input, begin, x))
        /\ IsCut(Part(input, begin, end)) \/ (finished /\ n = Len(emitted) /\ end = Len(input))

HashIs == hash = HashOf(Part(input, Len(input) - bytes_in_chunk, Len(input)))

CutInv ==
    /\ OpenIsHere
    /\ HashIs
    /\ OpenIsUncut
    /\ \A n \in 1 .. Len(emitted) : CutOK(n)

\* What a feed decides is the condition on the chunk's own bytes.
LEMMA CutsIsCut ==
    ASSUME config \in Configs, NEW c \in Seq(Byte), NEW b \in Byte,
           Len(c) + 1 <= config.max_size
    PROVE  IsCut(Append(c, b)) <=>
             Len(c) + 1 >= config.min_size /\ Cuts(Rolled(HashOf(c), b), Len(c) + 1)
<1>0. /\ config.min_size \in Nat /\ config.avg_size \in Nat /\ config.max_size \in Nat
      /\ Len(Append(c, b)) = Len(c) + 1 /\ Len(c) \in Nat
  BY ConfigSizes
<1>1. CASE Len(c) + 1 >= config.min_size
  <2>1. HashOf(Append(c, b)) = Rolled(HashOf(c), b)
    BY <1>1, HashOfAppend
  <2>2. QED
    BY <1>0, <1>1, <2>1 DEF IsCut, Cuts
<1>2. CASE ~(Len(c) + 1 >= config.min_size)
  BY <1>0, <1>2 DEF IsCut
<1>3. QED
  BY <1>1, <1>2

LEMMA InitCutInv == Init => CutInv
<1>1. SUFFICES ASSUME Init PROVE CutInv
  OBVIOUS
<1>2. config \in Configs /\ input = << >> /\ Len(input) = 0 /\ bytes_in_chunk = 0 /\ hash = 0
      /\ emitted = << >>
  BY <1>1 DEF Init
<1>3. HashOf(Part(input, 0, 0)) = 0
  <2> DEFINE z == 0
  <2>1. input \in Seq(Byte) /\ z \in 0 .. Len(input) /\ z \in z .. Len(input) /\ z - z = 0
    BY <1>2
  <2>2. Part(input, z, z) \in Seq(Byte) /\ Len(Part(input, z, z)) = 0
    <3> HIDE DEF z
    <3>1. QED
      BY <2>1, PartIs
  <2>3. QED
    BY <1>2, <2>2, HashOfShort, ConfigSizes
<1>4. QED
  BY <1>2, <1>3 DEF CutInv, HashIs, OpenIsHere, OpenIsUncut

\* A byte more, cut or not.
LEMMA FeedKeepsCuts == ASSUME NEW b \in Byte PROVE IInv /\ CutInv /\ Feed(b) => CutInv'
<1>1. SUFFICES ASSUME IInv, CutInv, Feed(b) PROVE CutInv'
  OBVIOUS
<1> DEFINE size == bytes_in_chunk + 1
           N == Len(input)
           x == N - bytes_in_chunk
           c == Part(input, x, N)
           h == Rolled(hash, b)
<1>2. /\ TypeOK /\ input \in Seq(Byte) /\ emitted \in Seq(Boundary) /\ ~finished /\ ~finished'
      /\ config \in Configs /\ config' = config /\ start' = start /\ start \in Nat
      /\ total_bytes = start + N /\ total_bytes' = total_bytes + 1 /\ N \in Nat
      /\ bytes_in_chunk \in 0 .. config.max_size - 1 /\ bytes_in_chunk <= N
      /\ input' = Append(input, b) /\ Len(input') = N + 1
      /\ config.min_size \in Nat /\ config.max_size \in Nat
  BY <1>1, ConfigSizes DEF IInv, TypeOK, Shape, Feed, CutInv, OpenIsHere
<1>3. x \in 0 .. N /\ N \in x .. N
  BY <1>2
<1>4. c \in Seq(Byte) /\ Len(c) = bytes_in_chunk
  <2>1. Len(c) = N - x /\ c \in Seq(Byte)
    BY <1>2, <1>3, PartIs
  <2>2. QED
    BY <1>2, <2>1
<1>5. /\ Part(input', x, N + 1) = Append(c, b)
      /\ \A y \in x .. N : Part(input', x, y) = Part(input, x, y)
  BY <1>2, <1>3, PartOfAppend
<1>6. hash = HashOf(c)
  BY <1>1 DEF CutInv, HashIs
<1>7. \A s : IsCut(s)' <=> IsCut(s)
  BY <1>2 DEF IsCut, HashOf
<1>8. \A s : HashOf(s)' = HashOf(s)
  BY <1>2 DEF HashOf
<1>9. IsCut(Append(c, b)) <=> size >= config.min_size /\ Cuts(h, size)
  <2>1. Len(c) + 1 <= config.max_size
    BY <1>2, <1>4
  <2>2. QED
    BY <1>2, <1>4, <1>6, <2>1, CutsIsCut
<1>10. \A y \in 1 .. bytes_in_chunk : ~IsCut(Part(input', x, x + y))
  <2>1. SUFFICES ASSUME NEW y \in 1 .. bytes_in_chunk PROVE ~IsCut(Part(input', x, x + y))
    OBVIOUS
  <2>2. x + y \in x .. N
    BY <1>2
  <2>3. ~IsCut(Part(input, x, x + y))
    BY <1>1 DEF CutInv, OpenIsUncut
  <2>4. QED
    BY <1>5, <2>2, <2>3
\* The chunks emitted before keep their bytes.
<1>11. ASSUME NEW n \in 1 .. Len(emitted), emitted'[n] = emitted[n]
       PROVE  CutOK(n)'
  <2> DEFINE end == emitted[n].offset - start
             begin == end - emitted[n].size
  <2>1. CutOK(n)
    BY <1>1 DEF CutInv
  <2>2. /\ 0 <= begin /\ end <= N /\ (\A y \in begin + 1 .. end - 1 : ~IsCut(Part(input, begin, y)))
        /\ IsCut(Part(input, begin, end))
    BY <1>2, <2>1 DEF CutOK
  <2>3. emitted[n].offset \in Nat /\ emitted[n].size \in 1 .. config.max_size
    <3>1. BoundaryOK(n)
      BY <1>1 DEF IInv
    <3>2. emitted[n] \in Boundary
      BY <1>2, ElementOfSeq
    <3>3. QED
      BY <3>1, <3>2 DEF BoundaryOK, Boundary
  <2>4. begin \in 0 .. N /\ end \in begin .. N /\ end \in Int
    <3> DEFINE size0 == emitted[n].size
    <3>0. start \in Nat
      BY <1>2
    <3>1. end \in Int /\ size0 \in Nat /\ begin = end - size0
      BY <2>3, <3>0
    <3> HIDE DEF begin, end, size0
    <3>2. QED
      BY <1>2, <2>2, <3>1
  <2> HIDE DEF begin, end
  <2>5. \A y \in begin .. N : Part(input', begin, y) = Part(input, begin, y)
    BY <1>2, <2>4, PartOfAppend
  <2>6. \A y \in begin + 1 .. end - 1 : y \in begin .. N
    BY <1>2, <2>4
  <2>7. /\ \A y \in begin + 1 .. end - 1 : ~IsCut(Part(input', begin, y))
        /\ IsCut(Part(input', begin, end))
    BY <2>2, <2>4, <2>5, <2>6
  <2>8. end <= Len(input')
    BY <1>2, <2>4
  <2>9. emitted'[n].offset - start' = end /\ (emitted'[n].offset - start') - emitted'[n].size = begin
    BY <1>2, <1>11 DEF end, begin
  <2>10. QED
    BY <1>7, <2>2, <2>7, <2>8, <2>9 DEF CutOK
<1> HIDE DEF h, c
<1>12. CASE size >= config.min_size /\ Cuts(h, size)
  <2> DEFINE new == [offset |-> total_bytes', size |-> size]
  <2>1. emitted' = Append(emitted, new) /\ bytes_in_chunk' = 0 /\ hash' = 0
    BY <1>1, <1>12 DEF Feed, EmitCut, h
  <2>2. /\ Len(emitted') = Len(emitted) + 1
        /\ \A n \in 1 .. Len(emitted) : emitted'[n] = emitted[n]
        /\ emitted'[Len(emitted) + 1] = new /\ Len(emitted) \in Nat
    <3>1. new \in Boundary
      BY <1>2 DEF Boundary
    <3> HIDE DEF new
    <3>2. QED
      BY <1>2, <2>1, <3>1, AppendProperties
  <2>3. ASSUME NEW n \in 1 .. Len(emitted') PROVE CutOK(n)'
    <3>1. CASE n \in 1 .. Len(emitted)
      BY <2>2, <3>1, <1>11
    <3>2. CASE n = Len(emitted) + 1
      <4>1. emitted'[n].offset = total_bytes' /\ emitted'[n].size = size
        BY <2>2, <3>2
      <4>2. emitted'[n].offset - start' = N + 1 /\ (emitted'[n].offset - start') - emitted'[n].size = x
        BY <1>2, <4>1
      <4>3. \A y \in x + 1 .. (N + 1) - 1 : ~IsCut(Part(input', x, y))
        <5>1. SUFFICES ASSUME NEW y \in x + 1 .. (N + 1) - 1 PROVE ~IsCut(Part(input', x, y))
          OBVIOUS
        <5>2. y - x \in 1 .. bytes_in_chunk /\ x + (y - x) = y
          BY <1>2, <1>3
        <5>3. QED
          BY <1>10, <5>2
      <4>4. IsCut(Part(input', x, N + 1))
        BY <1>5, <1>9, <1>12
      <4>5. 0 <= x /\ N + 1 <= Len(input')
        BY <1>2, <1>3
      <4>6. QED
        BY <1>7, <4>2, <4>3, <4>4, <4>5 DEF CutOK
    <3>3. QED
      BY <2>2, <3>1, <3>2
  <2>4. OpenIsHere' /\ OpenIsUncut'
    BY <1>2, <2>1 DEF OpenIsHere, OpenIsUncut
  <2>5. HashIs'
    <3> DEFINE z == N + 1
    <3>1. z \in 0 .. Len(input') /\ z \in z .. Len(input') /\ z - z = 0 /\ input' \in Seq(Byte)
      BY <1>2
    <3>2. Part(input', z, z) \in Seq(Byte) /\ Len(Part(input', z, z)) = 0
      <4> HIDE DEF z
      <4>1. QED
        BY <3>1, PartIs
    <3>3. HashOf(Part(input', z, z)) = 0
      BY <1>2, <3>2, HashOfShort, ConfigSizes
    <3>4. Len(input') = z /\ Len(input') - bytes_in_chunk' = z
      BY <1>2, <2>1
    <3> HIDE DEF z
    <3>5. QED
      BY <1>8, <2>1, <3>3, <3>4 DEF HashIs
  <2>6. QED
    BY <2>3, <2>4, <2>5 DEF CutInv
<1>13. CASE ~(size >= config.min_size /\ Cuts(h, size))
  <2>1. /\ emitted' = emitted /\ bytes_in_chunk' = size
        /\ hash' = IF size < config.min_size THEN hash ELSE h
    BY <1>1, <1>13 DEF Feed, h
  <2>2. Len(input') - bytes_in_chunk' = x
    BY <1>2, <2>1
  <2>3. HashIs'
    <3>1. HashOf(Part(input', x, N + 1)) = hash'
      <4>1. CASE size < config.min_size
        <5>1. Append(c, b) \in Seq(Byte) /\ Len(Append(c, b)) = size /\ Len(c) < config.min_size
          BY <1>2, <1>4, <4>1, SMTT(30)
        <5>2. HashOf(Append(c, b)) = 0 /\ HashOf(c) = 0
          BY <1>2, <1>4, <4>1, <5>1, HashOfShort
        <5>3. QED
          BY <1>5, <1>6, <2>1, <4>1, <5>2 DEF c
      <4>2. CASE ~(size < config.min_size)
        <5>1. Len(c) + 1 >= config.min_size
          BY <1>2, <1>4, <4>2
        <5>2. HashOf(Append(c, b)) = Rolled(HashOf(c), b)
          BY <1>2, <1>4, <5>1, HashOfAppend
        <5>3. QED
          BY <1>5, <1>6, <2>1, <4>2, <5>2 DEF c, h
      <4>3. QED
        BY <4>1, <4>2
    <3>2. QED
      BY <1>2, <1>8, <2>2, <3>1 DEF HashIs
  <2>4. OpenIsHere'
    BY <1>2, <2>1 DEF OpenIsHere
  <2>5. ASSUME NEW y \in 1 .. size PROVE ~IsCut(Part(input', x, x + y))
    <3>1. CASE y \in 1 .. bytes_in_chunk
      BY <1>10, <3>1
    <3>2. CASE y = size
      <4>1. x + y = N + 1
        BY <1>2, <3>2
      <4>2. QED
        BY <1>5, <1>9, <1>13, <4>1
    <3>3. QED
      BY <1>2, <3>1, <3>2
  <2>6. OpenIsUncut'
    BY <1>7, <2>1, <2>2, <2>5 DEF OpenIsUncut
  <2>7. \A n \in 1 .. Len(emitted') : CutOK(n)'
    BY <1>11, <2>1
  <2>8. QED
    BY <2>3, <2>4, <2>6, <2>7 DEF CutInv
<1>14. QED
  BY <1>12, <1>13

\* The rest of the input is a last chunk, if there is any.
LEMMA FinishKeepsCuts == IInv /\ CutInv /\ Finish => CutInv'
<1>1. SUFFICES ASSUME IInv, CutInv, Finish PROVE CutInv'
  OBVIOUS
<1> DEFINE N == Len(input)
           x == N - bytes_in_chunk
<1>2. /\ TypeOK /\ input \in Seq(Byte) /\ emitted \in Seq(Boundary) /\ ~finished /\ finished'
      /\ config \in Configs /\ config' = config /\ start' = start /\ start \in Nat
      /\ total_bytes = start + N /\ N \in Nat /\ input' = input
      /\ bytes_in_chunk \in 0 .. config.max_size - 1 /\ bytes_in_chunk <= N
      /\ config.min_size \in Nat /\ config.max_size \in Nat /\ 0 < config.min_size
  BY <1>1, ConfigSizes DEF IInv, TypeOK, Shape, Finish, CutInv, OpenIsHere
<1>3. \A s : (IsCut(s)' <=> IsCut(s)) /\ HashOf(s)' = HashOf(s)
  BY <1>2 DEF IsCut, HashOf
<1>4. ASSUME NEW n \in 1 .. Len(emitted), emitted'[n] = emitted[n] PROVE CutOK(n)'
  <2>1. CutOK(n)
    BY <1>1 DEF CutInv
  <2>2. QED
    BY <1>2, <1>3, <1>4, <2>1 DEF CutOK
<1>5. bytes_in_chunk' = 0 /\ hash' = HashOf(Part(input, N, N))
  <2> DEFINE z == N
  <2>1. z \in 0 .. Len(input) /\ z \in z .. Len(input) /\ z - z = 0
    BY <1>2
  <2>2. Part(input, z, z) \in Seq(Byte) /\ Len(Part(input, z, z)) = 0
    <3> HIDE DEF z
    <3>1. QED
      BY <1>2, <2>1, PartIs
  <2>3. HashOf(Part(input, z, z)) = 0
    BY <1>2, <2>2, HashOfShort
  <2>4. CASE bytes_in_chunk > 0
    BY <1>1, <2>3, <2>4 DEF Finish, EmitCut
  <2>5. CASE ~(bytes_in_chunk > 0)
    <3>1. UNCHANGED <<hash, bytes_in_chunk>> /\ bytes_in_chunk = 0
      BY <1>1, <1>2, <2>5 DEF Finish
    <3>2. N - bytes_in_chunk = N
      BY <1>2, <3>1
    <3>3. QED
      BY <1>1, <3>1, <3>2 DEF CutInv, HashIs
  <2>6. QED
    BY <2>4, <2>5
<1>6. OpenIsHere' /\ OpenIsUncut' /\ HashIs'
  <2>1. Len(input') - bytes_in_chunk' = N /\ Len(input') = N
    BY <1>2, <1>5
  <2>2. HashIs'
    BY <1>2, <1>3, <1>5, <2>1 DEF HashIs
  <2>3. QED
    BY <1>2, <1>5, <2>2 DEF OpenIsHere, OpenIsUncut
<1>7. CASE bytes_in_chunk > 0
  <2> DEFINE new == [offset |-> total_bytes, size |-> bytes_in_chunk]
  <2>1. emitted' = Append(emitted, new)
    BY <1>1, <1>7 DEF Finish, EmitCut
  <2>2. /\ Len(emitted') = Len(emitted) + 1
        /\ \A n \in 1 .. Len(emitted) : emitted'[n] = emitted[n]
        /\ emitted'[Len(emitted) + 1] = new /\ Len(emitted) \in Nat
    <3>1. new \in Boundary
      BY <1>2 DEF Boundary
    <3> HIDE DEF new
    <3>2. QED
      BY <1>2, <2>1, <3>1, AppendProperties
  <2>3. ASSUME NEW n \in 1 .. Len(emitted'), n = Len(emitted) + 1 PROVE CutOK(n)'
    <3>1. emitted'[n].offset = total_bytes /\ emitted'[n].size = bytes_in_chunk
      BY <2>2, <2>3
    <3>2. emitted'[n].offset - start' = N /\ (emitted'[n].offset - start') - emitted'[n].size = x
      BY <1>2, <3>1
    <3>3. \A y \in x + 1 .. N - 1 : ~IsCut(Part(input, x, y))
      <4>1. SUFFICES ASSUME NEW y \in x + 1 .. N - 1 PROVE ~IsCut(Part(input, x, y))
        OBVIOUS
      <4>2. y - x \in 1 .. bytes_in_chunk /\ x + (y - x) = y
        BY <1>2
      <4>3. QED
        BY <1>1, <4>2 DEF CutInv, OpenIsUncut
    <3>4. 0 <= x /\ N <= Len(input')
      BY <1>2
    <3>5. QED
      BY <1>2, <1>3, <2>2, <2>3, <3>2, <3>3, <3>4 DEF CutOK
  <2>4. \A n \in 1 .. Len(emitted') : n \in 1 .. Len(emitted) \/ n = Len(emitted) + 1
    BY <2>2
  <2>5. QED
    BY <1>4, <1>6, <2>2, <2>3, <2>4 DEF CutInv
<1>8. CASE ~(bytes_in_chunk > 0)
  <2>1. emitted' = emitted
    BY <1>1, <1>8 DEF Finish
  <2>2. QED
    BY <1>4, <1>6, <2>1 DEF CutInv
<1>9. QED
  BY <1>7, <1>8

\* The iterator leaves the stream alone.
LEMMA StreamKeepsCuts ==
    CutInv /\ UNCHANGED <<stream_vars, finished, input, start, emitted>> => CutInv'
<1>1. SUFFICES ASSUME CutInv, UNCHANGED <<stream_vars, finished, input, start, emitted>> PROVE CutInv'
  OBVIOUS
<1>2. UNCHANGED <<config, hash, bytes_in_chunk, total_bytes>>
  BY <1>1 DEF stream_vars
<1>3. \A s : (IsCut(s)' <=> IsCut(s)) /\ HashOf(s)' = HashOf(s)
  BY <1>2 DEF IsCut, HashOf
<1>4. ASSUME NEW n \in 1 .. Len(emitted) PROVE CutOK(n)'
  <2>1. CutOK(n)
    BY <1>1 DEF CutInv
  <2>2. QED
    BY <1>1, <1>3, <2>1 DEF CutOK
<1>5. OpenIsHere' /\ OpenIsUncut' /\ HashIs'
  BY <1>1, <1>2, <1>3 DEF CutInv, OpenIsHere, OpenIsUncut, HashIs
<1>6. QED
  BY <1>1, <1>4, <1>5 DEF CutInv

\* A finished stream starts again with an empty input.
LEMMA ResumeKeepsCuts == IInv /\ CutInv /\ Resume => CutInv'
<1>1. SUFFICES ASSUME IInv, CutInv, Resume PROVE CutInv'
  OBVIOUS
<1>2. /\ config \in Configs /\ config' = config /\ bytes_in_chunk = 0 /\ bytes_in_chunk' = 0
      /\ hash' = hash /\ input' = << >> /\ emitted' = << >> /\ input \in Seq(Byte)
      /\ config.min_size \in Nat /\ 0 < config.min_size
  BY <1>1, ConfigSizes DEF IInv, TypeOK, Shape, Resume, stream_vars
<1>3. \A s : HashOf(s)' = HashOf(s)
  BY <1>2 DEF HashOf
<1>4. ASSUME NEW s \in Seq(Byte) PROVE HashOf(Part(s, Len(s), Len(s))) = 0
  <2> DEFINE z == Len(s)
  <2>1. z \in 0 .. Len(s) /\ z \in z .. Len(s) /\ z - z = 0
    OBVIOUS
  <2>2. Part(s, z, z) \in Seq(Byte) /\ Len(Part(s, z, z)) = 0
    <3> HIDE DEF z
    <3>1. QED
      BY <2>1, PartIs
  <2>3. QED
    BY <1>2, <2>2, HashOfShort
<1>5. hash = 0
  <2>1. Len(input) - bytes_in_chunk = Len(input)
    BY <1>2
  <2>2. QED
    BY <1>1, <1>2, <1>4, <2>1 DEF CutInv, HashIs
<1>6. HashIs'
  <2>1. input' \in Seq(Byte) /\ Len(input') - bytes_in_chunk' = Len(input')
    BY <1>2
  <2>2. QED
    BY <1>2, <1>3, <1>4, <1>5, <2>1 DEF HashIs
<1>7. QED
  BY <1>2, <1>6 DEF CutInv, OpenIsHere, OpenIsUncut

LEMMA CutInvariance == Spec => []CutInv
<1>1. IInv /\ CutInv /\ [Next]_vars => CutInv'
  <2>1. IterNext => UNCHANGED <<stream_vars, finished, input, start, emitted>>
    BY DEF IterNext
  <2>2. UNCHANGED vars => UNCHANGED <<stream_vars, finished, input, start, emitted>>
    BY DEF vars
  <2>3. QED
    BY <2>1, <2>2, FeedKeepsCuts, FinishKeepsCuts, StreamKeepsCuts, ResumeKeepsCuts DEF Next
<1>2. QED
  BY InitCutInv, Invariance, <1>1, PTL DEF Spec

\* The hash that a stream rolls is the sum over the bytes of its open chunk from
\* the min_size-th on, whatever was fed and emitted before.
THEOREM HashCorrect == Spec => []HashIsOfChunk
<1>1. IInv /\ CutInv => HashIsOfChunk
  <2>1. SUFFICES ASSUME IInv, CutInv PROVE HashIsOfChunk
    OBVIOUS
  <2>2. /\ start \in Nat /\ total_bytes = start + Len(input) /\ input \in Seq(Byte)
        /\ config.max_size \in Nat /\ bytes_in_chunk \in 0 .. config.max_size - 1
    BY <2>1, ConfigIs DEF IInv, TypeOK, Shape
  <2>3. /\ (total_bytes - bytes_in_chunk) - start + 1 = (Len(input) - bytes_in_chunk) + 1
        /\ total_bytes - start = Len(input)
    BY <2>2
  <2>4. QED
    BY <2>1, <2>3 DEF HashIsOfChunk, Bytes, Part, CutInv, HashIs
<1>2. QED
  BY Invariance, CutInvariance, <1>1, PTL

\* Every chunk of a stream ends at the first byte at which its own bytes meet the
\* documented condition, and only the one that finish ends may end before.
THEOREM CutsCorrect == Spec => []CutsAreFirst
<1>1. IInv /\ CutInv => CutsAreFirst
  <2>1. SUFFICES ASSUME IInv, CutInv, NEW n \in 1 .. Len(emitted)
                 PROVE  LET end   == emitted[n].offset
                            begin == end - emitted[n].size
                        IN  /\ \A x \in begin + 1 .. end - 1 : ~IsCut(Bytes(begin, x))
                            /\ IsCut(Bytes(begin, end)) \/ (finished /\ n = Len(emitted))
    BY DEF CutsAreFirst, IInv, Shape
  <2> DEFINE end   == emitted[n].offset
             size  == emitted[n].size
             begin == end - size
             e == end - start
             b == e - size
  <2>2. CutOK(n) /\ start \in Nat
    BY <2>1 DEF CutInv, IInv, TypeOK
  <2>3. end \in Nat /\ size \in Nat
    <3>1. emitted[n] \in Boundary
      BY <2>1, ElementOfSeq DEF IInv, Shape
    <3>2. QED
      BY <3>1 DEF Boundary
  <2>4. /\ \A x \in b + 1 .. e - 1 : ~IsCut(Part(input, b, x))
        /\ IsCut(Part(input, b, e)) \/ (finished /\ n = Len(emitted))
    BY <2>2 DEF CutOK
  <2> HIDE DEF end, size
  <2>5. /\ begin - start + 1 = b + 1 /\ begin \in Int
        /\ \A x \in begin + 1 .. end - 1 : x - start \in b + 1 .. e - 1
    BY <2>2, <2>3
  <2>6. \A x : Bytes(begin, x) = Part(input, b, x - start)
    BY <2>5 DEF Bytes, Part
  <2> HIDE DEF begin, b, e
  <2>7. Bytes(begin, end) = Part(input, b, e)
    BY <2>6 DEF e
  <2>8. QED
    BY <2>4, <2>5, <2>6, <2>7 DEF begin, end, size
<1>2. QED
  BY Invariance, CutInvariance, <1>1, PTL

-----------------------------------------------------------------------------
(* The searches of the iterator *)

\* The hash of a prefix.
Prefix(s, k) == HashOf(Part(s, 0, k))

\* Where a search stands after k bytes.
At(s, k) == [i |-> k, hash |-> Prefix(s, k)]

\* What a search from i up to end is for: the first prefix whose hash is clear.
Found(s, mask, i, end, r) ==
    \/ /\ r.cut = 0 /\ r.stop = At(s, end)
       /\ \A k \in i + 1 .. end : ~Clear(Prefix(s, k), mask)
    \/ /\ r.cut \in i + 1 .. end /\ Clear(Prefix(s, r.cut), mask)
       /\ \A k \in i + 1 .. r.cut - 1 : ~Clear(Prefix(s, k), mask)

LEMMA PrefixIs ==
    ASSUME config \in Configs, NEW s \in Seq(Byte), NEW k \in 0 .. Len(s)
    PROVE  Prefix(s, k) \in Hashes /\ (k < config.min_size => Prefix(s, k) = 0)
<1> DEFINE z == 0
           c == Part(s, z, k)
<1>1. z \in 0 .. Len(s) /\ k \in z .. Len(s) /\ k - z = k
  OBVIOUS
<1>2. c \in Seq(Byte) /\ Len(c) = k
  <2> HIDE DEF z
  <2>1. QED
    BY <1>1, PartIs
<1>3. Prefix(s, k) = HashOf(c)
  BY DEF Prefix
<1> HIDE DEF c
<1>4. HashOf(c) \in Hashes /\ (k < config.min_size => HashOf(c) = 0)
  BY <1>2, HashOfIsHash, HashOfShort
<1>5. QED
  BY <1>3, <1>4

LEMMA PrefixNext ==
    ASSUME config \in Configs, NEW s \in Seq(Byte), NEW k \in 0 .. Len(s),
           k < Len(s), k + 1 >= config.min_size
    PROVE  s[k + 1] \in Byte /\ Prefix(s, k + 1) = Rolled(Prefix(s, k), s[k + 1])
<1> DEFINE z == 0
           j == k + 1
           b == s[j]
           c == Part(s, z, k)
           d == Part(s, z, j)
           e == Append(c, b)
<1>1. /\ z \in 0 .. Len(s) /\ k \in z .. Len(s) /\ k - z = k /\ k \in Nat
      /\ j \in z .. Len(s) /\ j - z = j /\ j \in 1 .. Len(s)
      /\ \A n \in 1 .. j : z + n = n
  OBVIOUS
<1>2. b \in Byte
  BY <1>1, ElementOfSeq
<1>3. /\ c \in Seq(Byte) /\ Len(c) = k /\ \A n \in 1 .. k : c[n] = s[z + n]
      /\ d \in Seq(Byte) /\ Len(d) = j /\ \A n \in 1 .. j : d[n] = s[z + n]
  <2> HIDE DEF z, j
  <2>1. /\ c \in Seq(Byte) /\ Len(c) = k - z
        /\ \A n \in 1 .. k - z : c[n] = s[z + n]
    BY <1>1, PartIs
  <2>2. /\ d \in Seq(Byte) /\ Len(d) = j - z
        /\ \A n \in 1 .. j - z : d[n] = s[z + n]
    BY <1>1, PartIs
  <2> HIDE DEF c, d
  <2>3. QED
    BY <1>1, <2>1, <2>2
<1>4. Prefix(s, k + 1) = HashOf(d) /\ Prefix(s, k) = HashOf(c)
  BY DEF Prefix
<1> HIDE DEF b, c, d, z
<1>5. e \in Seq(Byte) /\ Len(e) = k + 1 /\ e[k + 1] = b /\ \A n \in 1 .. k : e[n] = c[n]
  BY <1>2, <1>3, AppendProperties
<1> HIDE DEF e
<1>6. ASSUME NEW n \in 1 .. j PROVE d[n] = e[n]
  <2>1. CASE n = k + 1
    BY <1>1, <1>3, <1>5, <2>1 DEF b
  <2>2. CASE n # k + 1
    <3>1. n \in 1 .. k
      BY <1>1, <2>2
    <3>2. QED
      BY <1>1, <1>3, <1>5, <3>1
  <2>3. QED
    BY <2>1, <2>2
<1>7. d = e
  BY <1>3, <1>5, <1>6, SeqEqual
<1>8. HashOf(e) = Rolled(HashOf(c), b)
  BY <1>2, <1>3, HashOfAppend DEF e
<1>9. QED
  BY <1>2, <1>4, <1>7, <1>8 DEF b

LEMMA FoundEarlier ==
    ASSUME NEW s, NEW mask, NEW i \in Nat, NEW end \in Nat, i < end,
           ~Clear(Prefix(s, i + 1), mask), NEW r, Found(s, mask, i + 1, end, r)
    PROVE  Found(s, mask, i, end, r)
<1>1. \A m \in Int : \A k \in i + 1 .. m : k = i + 1 \/ k \in (i + 1) + 1 .. m
  OBVIOUS
<1>2. r.cut \in (i + 1) + 1 .. end => r.cut \in i + 1 .. end /\ r.cut - 1 \in Int
  OBVIOUS
<1> HIDE DEF Prefix, Clear
<1>3. CASE /\ r.cut = 0 /\ r.stop = At(s, end)
           /\ \A k \in (i + 1) + 1 .. end : ~Clear(Prefix(s, k), mask)
  <2>1. \A k \in i + 1 .. end : ~Clear(Prefix(s, k), mask)
    BY <1>1, <1>3
  <2>2. QED
    BY <1>3, <2>1 DEF Found
<1>4. CASE /\ r.cut \in (i + 1) + 1 .. end /\ Clear(Prefix(s, r.cut), mask)
           /\ \A k \in (i + 1) + 1 .. r.cut - 1 : ~Clear(Prefix(s, k), mask)
  <2>1. \A k \in i + 1 .. r.cut - 1 : ~Clear(Prefix(s, k), mask)
    BY <1>1, <1>2, <1>4
  <2>2. QED
    BY <1>2, <1>4, <2>1 DEF Found
<1>5. QED
  BY <1>3, <1>4 DEF Found

\* A clear prefix right after i.
LEMMA FoundHere ==
    ASSUME NEW s, NEW mask, NEW i \in Nat, NEW end \in Nat, i < end,
           Clear(Prefix(s, i + 1), mask), NEW r, r.cut = i + 1
    PROVE  Found(s, mask, i, end, r)
<1>1. i + 1 \in i + 1 .. end /\ \A k \in i + 1 .. (i + 1) - 1 : FALSE
  OBVIOUS
<1>2. QED
  BY <1>1 DEF Found

\* No byte left.
LEMMA FoundNone ==
    ASSUME NEW s, NEW mask, NEW i \in Nat, NEW r, r.cut = 0, r.stop = At(s, i)
    PROVE  Found(s, mask, i, i, r)
BY DEF Found

IsSearchBytes(f, s, mask, end) ==
    f = [p \in Positions(end) |->
           IF p.i = end THEN [cut |-> 0, stop |-> p]
           ELSE LET next == Rolled(p.hash, s[p.i + 1]) IN
                  IF Clear(next, mask)
                  THEN [cut |-> p.i + 1, stop |-> [i |-> p.i, hash |-> next]]
                  ELSE f[[i |-> p.i + 1, hash |-> next]]]

LEMMA SearchBytesExists ==
    ASSUME NEW s \in Seq(Byte), NEW mask, NEW end \in 0 .. Len(s)
    PROVE  \E f : IsSearchBytes(f, s, mask, end)
<1> DEFINE X == Positions(end)
           Rolls(p) == Rolled(p.hash, s[p.i + 1])
           Stop == { p \in X : p.i = end \/ Clear(Rolls(p), mask) }
           ValueOf(p) == IF p.i = end THEN [cut |-> 0, stop |-> p]
                         ELSE [cut |-> p.i + 1, stop |-> [i |-> p.i, hash |-> Rolls(p)]]
           S == { ValueOf(p) : p \in X }
           Value == [p \in X |-> ValueOf(p)]
           Succ == [p \in X |-> IF p \in Stop THEN p ELSE [i |-> p.i + 1, hash |-> Rolls(p)]]
           Measure == [p \in X |-> end - p.i]
<1>1. \A p \in X : p.i \in 0 .. end /\ p.hash \in Hashes
  BY DEF Positions
<1>2. \A p \in X : p.i # end => Rolls(p) \in Hashes /\ p.i + 1 \in 0 .. end
  <2>1. SUFFICES ASSUME NEW p \in X, p.i # end
                 PROVE  Rolls(p) \in Hashes /\ p.i + 1 \in 0 .. end
    OBVIOUS
  <2>2. p.i \in 0 .. end /\ p.hash \in Hashes /\ p.i + 1 \in 0 .. end /\ p.i + 1 \in 1 .. Len(s)
    BY <1>1, <2>1
  <2>3. s[p.i + 1] \in Byte
    BY <2>2, ElementOfSeq
  <2>4. QED
    BY <2>2, <2>3, RolledIsHash
<1> HIDE DEF Rolls
<1>3. Value \in [X -> S]
  OBVIOUS
<1>4. ASSUME NEW p \in X, p \notin Stop
      PROVE  [i |-> p.i + 1, hash |-> Rolls(p)] \in X
  BY <1>2, <1>4 DEF Positions
<1>5. Succ \in [X -> X]
  BY <1>4
<1>6. Measure \in [X -> Nat]
  BY <1>1
<1>7. Descends(X, Stop, Succ, Measure)
  <2>1. SUFFICES ASSUME NEW p \in X \ Stop PROVE Measure[Succ[p]] < Measure[p]
    BY DEF Descends
  <2> DEFINE q == [i |-> p.i + 1, hash |-> Rolls(p)]
  <2>2. q \in X /\ Succ[p] = q /\ q.i = p.i + 1 /\ p.i \in 0 .. end
    BY <1>1, <1>4
  <2>3. Measure[q] = end - q.i /\ Measure[p] = end - p.i
    BY <2>2
  <2> HIDE DEF q, Measure, Succ
  <2>4. QED
    BY <2>2, <2>3
<1>8. /\ \A p \in X : Value[p] = ValueOf(p)
      /\ \A p \in X \ Stop : Succ[p] = [i |-> p.i + 1, hash |-> Rolls(p)]
      /\ \A p \in X : p \in Stop <=> (p.i = end \/ Clear(Rolls(p), mask))
  OBVIOUS
<1> HIDE DEF S, Value, Succ, Measure, Stop, X
<1>9. Chains(X, S, Stop, Value, Succ) # {}
  BY <1>3, <1>5, <1>6, <1>7, ChainHasValue
<1>10. PICK f \in [X -> S] : \A p \in X : f[p] = IF p \in Stop THEN Value[p] ELSE f[Succ[p]]
  BY <1>9 DEF Chains
<1>11. \A p \in X : f[p] = IF p.i = end THEN [cut |-> 0, stop |-> p]
                           ELSE IF Clear(Rolls(p), mask)
                           THEN [cut |-> p.i + 1, stop |-> [i |-> p.i, hash |-> Rolls(p)]]
                           ELSE f[[i |-> p.i + 1, hash |-> Rolls(p)]]
  BY <1>8, <1>10
<1>12. f = [p \in X |-> f[p]]
  BY <1>10
<1>13. IsSearchBytes(f, s, mask, end)
  BY <1>11, <1>12 DEF IsSearchBytes, X, Rolls
<1>14. QED
  BY <1>13

LEMMA SearchBytesIs ==
    ASSUME config \in Configs, NEW s \in Seq(Byte), NEW mask, NEW end \in 0 .. Len(s),
           NEW from \in 0 .. end, from + 1 >= config.min_size
    PROVE  Found(s, mask, from, end, SearchBytes(s, mask, At(s, from), end))
<1> DEFINE G == CHOOSE f : IsSearchBytes(f, s, mask, end)
<1>1. IsSearchBytes(G, s, mask, end)
  BY SearchBytesExists
<1>2. SearchBytes(s, mask, At(s, from), end) = G[At(s, from)]
  BY DEF SearchBytes, IsSearchBytes
<1> HIDE DEF G
<1> DEFINE Bad == { m \in 0 .. end - from : ~Found(s, mask, end - m, end, G[At(s, end - m)]) }
<1>3. SUFFICES ASSUME Bad # {} PROVE FALSE
  <2>1. SUFFICES ASSUME Bad = {} PROVE Found(s, mask, from, end, G[At(s, from)])
    BY <1>2, <1>3
  <2>2. end - from \in 0 .. end - from /\ end - (end - from) = from
    OBVIOUS
  <2>3. QED
    BY <2>1, <2>2
<1>4. PICK m \in Bad : \A y \in Bad : m <= y
  <2>1. Bad \subseteq Nat
    OBVIOUS
  <2> HIDE DEF Bad
  <2>2. QED
    BY <1>3, <2>1, LeastNatural
<1> DEFINE k == end - m
<1>5. /\ m \in 0 .. end - from /\ ~Found(s, mask, k, end, G[At(s, k)]) /\ m - 1 \notin Bad
      /\ k \in from .. end /\ k \in 0 .. Len(s) /\ k \in Nat /\ end \in Nat /\ Len(s) \in Nat
  BY <1>4
<1>6. At(s, k) \in Positions(end)
  BY <1>5, PrefixIs DEF At, Positions
<1> DEFINE next == Rolled(At(s, k).hash, s[At(s, k).i + 1])
<1>7. G[At(s, k)] = IF At(s, k).i = end THEN [cut |-> 0, stop |-> At(s, k)]
                    ELSE IF Clear(next, mask)
                    THEN [cut |-> At(s, k).i + 1, stop |-> [i |-> At(s, k).i, hash |-> next]]
                    ELSE G[[i |-> At(s, k).i + 1, hash |-> next]]
  BY <1>1, <1>6 DEF IsSearchBytes
<1>8. At(s, k).i = k /\ At(s, k).hash = Prefix(s, k)
  BY DEF At
<1> HIDE DEF Bad, k
<1>9. CASE k = end
  <2>1. G[At(s, k)].cut = 0 /\ G[At(s, k)].stop = At(s, k)
    BY <1>7, <1>8, <1>9
  <2>2. QED
    BY <1>5, <1>9, <2>1, FoundNone
<1>10. CASE k # end
  <2>1. k < end /\ k < Len(s) /\ k + 1 >= config.min_size
    BY <1>5, <1>10, ConfigSizes
  <2>2. next = Prefix(s, k + 1)
    BY <1>5, <1>8, <2>1, PrefixNext
  <2> HIDE DEF next
  <2>3. CASE Clear(next, mask)
    <3>1. G[At(s, k)].cut = k + 1
      BY <1>7, <1>8, <1>10, <2>3
    <3>2. QED
      BY <1>5, <2>1, <2>2, <2>3, <3>1, FoundHere
  <2>4. CASE ~Clear(next, mask)
    <3>1. G[At(s, k)] = G[At(s, k + 1)]
      BY <1>7, <1>8, <1>10, <2>2, <2>4 DEF At
    <3>2. Found(s, mask, k + 1, end, G[At(s, k + 1)])
      <4>1. m - 1 \in 0 .. end - from /\ end - (m - 1) = k + 1
        BY <1>5, <2>1 DEF k
      <4>2. QED
        BY <1>5, <4>1 DEF Bad
    <3>3. QED
      BY <1>5, <2>1, <2>2, <2>4, <3>1, <3>2, FoundEarlier
  <2>5. QED
    BY <2>3, <2>4
<1>11. QED
  BY <1>9, <1>10

\* A bit below the top moves up by one.
LEMMA ShiftedBit ==
    ASSUME NEW h \in Hashes, NEW bit \in Bits, bit # Width - 1
    PROVE  (ShiftLeft(h) \div TwoTo[bit + 1]) % 2 = (h \div TwoTo[bit]) % 2
<1> DEFINE d == TwoTo[bit]
           e == TwoTo[Width - 2 - bit]
           M == Modulus
           g == 2 * h
           q == g \div M
           r == g % M
           D == TwoTo[bit + 1]
<1>1. /\ Width \in Nat /\ bit \in Nat /\ bit + 1 \in Nat /\ Width - 2 - bit \in Nat
      /\ (bit + 1) + (Width - 1 - bit) = Width /\ Width - 1 - bit = (Width - 2 - bit) + 1
      /\ Width - 1 - bit \in Nat
  BY FastCdcAssumption DEF Bits
<1>2. M \in Int /\ M > 0 /\ h \in Int /\ g \in Int
  BY ModulusIs DEF Hashes
<1>3. d \in Int /\ d > 0 /\ e \in Int /\ D = 2 * d /\ TwoTo[Width - 1 - bit] = 2 * e
  BY <1>1, TwoToIs
<1>4. M = D * (2 * e)
  BY <1>1, <1>3, TwoToAdd DEF Modulus
<1>5. ShiftLeft(h) = r
  BY DEF ShiftLeft
<1> HIDE DEF d, e, M, D
<1>6. q \in Int /\ g = M * q + r
  <2> HIDE DEF g
  <2>1. QED
    BY <1>2, Division
<1>7. g \div D = h \div d
  BY <1>2, <1>3, DivDouble
<1> HIDE DEF g, q, r
<1>8. r \in Int
  BY <1>2 DEF r
<1> DEFINE z == e * q
           t == 2 * z
<1>9. z \in Int /\ t \in Int
  BY <1>3, <1>6
<1>10. r = g - D * t
  <2>1. M * q = D * t
    <3>1. M * q = (D * (2 * e)) * q
      BY <1>4
    <3>2. D \in Int
      BY <1>3
    <3>3. (D * (2 * e)) * q = D * (2 * (e * q))
      BY <3>2, <1>3, <1>6
    <3>4. QED
      BY <3>1, <3>3
  <2>2. M * q \in Int /\ g = M * q + r
    BY <1>2, <1>6
  <2> HIDE DEF t
  <2>3. QED
    BY <1>8, <1>2, <2>1, <2>2
<1>11. D \in Int /\ D > 0
  BY <1>3
<1> HIDE DEF t, z
<1>12. (g - D * t) \div D = (g \div D) - t
  BY <1>2, <1>9, <1>11, DivMinus
<1> DEFINE y == h \div d
<1>13. y \in Int
  BY <1>2, <1>3
<1> HIDE DEF y
<1>14. (y - t) % 2 = y % 2
  BY <1>9, <1>13 DEF t
<1>15. QED
  BY <1>5, <1>7, <1>10, <1>12, <1>14 DEF y, D, d

\* A mask without the top bit may be tested a bit further up.
LEMMA ShiftedClear ==
    ASSUME NEW h \in Hashes, NEW mask \in SUBSET Bits, Width - 1 \notin mask
    PROVE  Clear(ShiftLeft(h), ShiftMask(mask)) <=> Clear(h, mask)
<1> DEFINE up == ShiftLeft(h)
<1>1. \A bit \in mask : (up \div TwoTo[bit + 1]) % 2 = (h \div TwoTo[bit]) % 2
  BY ShiftedBit
<1>2. \A bit \in mask : bit + 1 \in ShiftMask(mask)
  BY FastCdcAssumption DEF ShiftMask, Bits
<1>3. \A top \in ShiftMask(mask) : \E bit \in mask : top = bit + 1
  BY DEF ShiftMask
<1> HIDE DEF up
<1>4. Clear(up, ShiftMask(mask)) <=> \A top \in ShiftMask(mask) : (up \div TwoTo[top]) % 2 = 0
  BY DEF Clear
<1>5. (\A top \in ShiftMask(mask) : (up \div TwoTo[top]) % 2 = 0)
        <=> \A bit \in mask : (h \div TwoTo[bit]) % 2 = 0
  <2>1. ASSUME \A top \in ShiftMask(mask) : (up \div TwoTo[top]) % 2 = 0, NEW bit \in mask
        PROVE  (h \div TwoTo[bit]) % 2 = 0
    BY <1>1, <1>2, <2>1
  <2>2. ASSUME \A bit \in mask : (h \div TwoTo[bit]) % 2 = 0, NEW top \in ShiftMask(mask)
        PROVE  (up \div TwoTo[top]) % 2 = 0
    <3>1. PICK bit \in mask : top = bit + 1
      BY <1>3
    <3>2. QED
      BY <1>1, <2>2, <3>1
  <2>3. QED
    BY <2>1, <2>2
<1>6. QED
  BY <1>4, <1>5 DEF up, Clear

\* The hash of the first byte of a pair, shifted before it is needed.
LEMMA PairShifted ==
    ASSUME NEW h \in Hashes, NEW b \in Byte
    PROVE  (4 * h + GEAR_TABLE_LS1[b]) % Modulus = ShiftLeft(Rolled(h, b))
<1> DEFINE M == Modulus
           g == GEAR_TABLE[b]
           two == 2 * h
           t == two + g
           gg == 2 * g
           f == 4 * h
<1>1. M \in Int /\ M > 0 /\ h \in Int /\ g \in Int
  BY ModulusIs, GearIs DEF Hashes
<1>2. GEAR_TABLE_LS1[b] = gg % M
  BY DEF GEAR_TABLE_LS1, ShiftLeft
<1>3. ShiftLeft(Rolled(h, b)) = (2 * (((two % M) + g) % M)) % M
  BY DEF ShiftLeft, Rolled
<1> HIDE DEF M, g
<1>4. two \in Int /\ t \in Int /\ gg \in Int /\ f \in Int /\ gg + f = 2 * t
  BY <1>1
<1> HIDE DEF two
<1>5. ((two % M) + g) % M = t % M
  BY <1>1, <1>4, ModAdd
<1> HIDE DEF t, gg, f
<1>6. (2 * (t % M)) % M = (2 * t) % M
  BY <1>1, <1>4, ModDouble
<1>7. ((gg % M) + f) % M = (gg + f) % M
  BY <1>1, <1>4, ModAdd
<1>8. gg % M \in Int
  BY <1>1, <1>4
<1>9. f + (gg % M) = (gg % M) + f
  BY <1>4, <1>8
<1>10. QED
  BY <1>2, <1>3, <1>4, <1>5, <1>6, <1>7, <1>9 DEF f, M

IsSearchPairs(f, s, mask, end) ==
    f = [p \in Positions(end) |->
           IF p.i + 1 >= end THEN SearchBytes(s, mask, p, end)
           ELSE LET shifted == (4 * p.hash + GEAR_TABLE_LS1[s[p.i + 1]]) % Modulus
                    next    == (shifted + GEAR_TABLE[s[p.i + 2]]) % Modulus
                IN  IF Clear(shifted, ShiftMask(mask)) THEN [cut |-> p.i + 1, stop |-> p]
                    ELSE IF Clear(next, mask)
                    THEN [cut |-> p.i + 2, stop |-> [i |-> p.i, hash |-> next]]
                    ELSE f[[i |-> p.i + 2, hash |-> next]]]

LEMMA SearchPairsExists ==
    ASSUME NEW s \in Seq(Byte), NEW mask, NEW end \in 0 .. Len(s)
    PROVE  \E f : IsSearchPairs(f, s, mask, end)
<1> DEFINE X == Positions(end)
           First(p) == (4 * p.hash + GEAR_TABLE_LS1[s[p.i + 1]]) % Modulus
           Second(p) == (First(p) + GEAR_TABLE[s[p.i + 2]]) % Modulus
           Stop == { p \in X : p.i + 1 >= end \/ Clear(First(p), ShiftMask(mask))
                                 \/ Clear(Second(p), mask) }
           ValueOf(p) == IF p.i + 1 >= end THEN SearchBytes(s, mask, p, end)
                         ELSE IF Clear(First(p), ShiftMask(mask)) THEN [cut |-> p.i + 1, stop |-> p]
                         ELSE [cut |-> p.i + 2, stop |-> [i |-> p.i, hash |-> Second(p)]]
           S == { ValueOf(p) : p \in X }
           Value == [p \in X |-> ValueOf(p)]
           Succ == [p \in X |-> IF p \in Stop THEN p ELSE [i |-> p.i + 2, hash |-> Second(p)]]
           Measure == [p \in X |-> end - p.i]
<1>1. \A p \in X : p.i \in 0 .. end /\ p.hash \in Hashes
  BY DEF Positions
<1>2. \A p \in X : ~(p.i + 1 >= end) => Second(p) \in Hashes /\ p.i + 2 \in 0 .. end
  <2>1. SUFFICES ASSUME NEW p \in X, ~(p.i + 1 >= end)
                 PROVE  Second(p) \in Hashes /\ p.i + 2 \in 0 .. end
    OBVIOUS
  <2>2. /\ p.i \in 0 .. end /\ p.hash \in Hashes /\ p.i + 2 \in 0 .. end
        /\ p.i + 1 \in 1 .. Len(s) /\ p.i + 2 \in 1 .. Len(s)
    BY <1>1, <2>1
  <2>3. s[p.i + 1] \in Byte /\ s[p.i + 2] \in Byte
    BY <2>2, ElementOfSeq
  <2>4. Rolled(p.hash, s[p.i + 1]) \in Hashes
    BY <2>2, <2>3, RolledIsHash
  <2>5. Second(p) = Rolled(Rolled(p.hash, s[p.i + 1]), s[p.i + 2])
    <3>1. First(p) = ShiftLeft(Rolled(p.hash, s[p.i + 1]))
      BY <2>2, <2>3, PairShifted
    <3> HIDE DEF First
    <3>2. QED
      BY <3>1 DEF Rolled
  <2>6. Rolled(Rolled(p.hash, s[p.i + 1]), s[p.i + 2]) \in Hashes
    BY <2>3, <2>4, RolledIsHash
  <2>7. QED
    BY <2>2, <2>5, <2>6
<1> HIDE DEF First, Second
<1>3. Value \in [X -> S]
  OBVIOUS
<1>4. ASSUME NEW p \in X, p \notin Stop
      PROVE  [i |-> p.i + 2, hash |-> Second(p)] \in X
  BY <1>2, <1>4 DEF Positions
<1>5. Succ \in [X -> X]
  BY <1>4
<1>6. Measure \in [X -> Nat]
  BY <1>1
<1>7. Descends(X, Stop, Succ, Measure)
  <2>1. SUFFICES ASSUME NEW p \in X \ Stop PROVE Measure[Succ[p]] < Measure[p]
    BY DEF Descends
  <2> DEFINE q == [i |-> p.i + 2, hash |-> Second(p)]
  <2>2. q \in X /\ Succ[p] = q /\ q.i = p.i + 2 /\ p.i \in 0 .. end
    BY <1>1, <1>4
  <2>3. Measure[q] = end - q.i /\ Measure[p] = end - p.i
    BY <2>2
  <2> HIDE DEF q, Measure, Succ
  <2>4. QED
    BY <2>2, <2>3
<1>8. /\ \A p \in X : Value[p] = ValueOf(p)
      /\ \A p \in X \ Stop : Succ[p] = [i |-> p.i + 2, hash |-> Second(p)]
      /\ \A p \in X : p \in Stop <=> \/ p.i + 1 >= end \/ Clear(First(p), ShiftMask(mask))
                                     \/ Clear(Second(p), mask)
  OBVIOUS
<1> HIDE DEF S, Value, Succ, Measure, Stop, X
<1>9. Chains(X, S, Stop, Value, Succ) # {}
  BY <1>3, <1>5, <1>6, <1>7, ChainHasValue
<1>10. PICK f \in [X -> S] : \A p \in X : f[p] = IF p \in Stop THEN Value[p] ELSE f[Succ[p]]
  BY <1>9 DEF Chains
<1>11. \A p \in X : f[p] = IF p.i + 1 >= end THEN SearchBytes(s, mask, p, end)
                           ELSE IF Clear(First(p), ShiftMask(mask)) THEN [cut |-> p.i + 1, stop |-> p]
                           ELSE IF Clear(Second(p), mask)
                           THEN [cut |-> p.i + 2, stop |-> [i |-> p.i, hash |-> Second(p)]]
                           ELSE f[[i |-> p.i + 2, hash |-> Second(p)]]
  BY <1>8, <1>10
<1>12. f = [p \in X |-> f[p]]
  BY <1>10
<1>13. IsSearchPairs(f, s, mask, end)
  BY <1>11, <1>12 DEF IsSearchPairs, X, First, Second
<1>14. QED
  BY <1>13

LEMMA SearchPairsIs ==
    ASSUME config \in Configs, NEW s \in Seq(Byte), NEW mask \in SUBSET Bits, Width - 1 \notin mask,
           NEW end \in 0 .. Len(s), NEW from \in 0 .. end, from + 1 >= config.min_size
    PROVE  Found(s, mask, from, end, SearchPairs(s, mask, At(s, from), end))
<1> DEFINE G == CHOOSE f : IsSearchPairs(f, s, mask, end)
<1>1. IsSearchPairs(G, s, mask, end)
  BY SearchPairsExists
<1>2. SearchPairs(s, mask, At(s, from), end) = G[At(s, from)]
  BY DEF SearchPairs, IsSearchPairs
<1> HIDE DEF G
<1> DEFINE Bad == { m \in 0 .. end - from : ~Found(s, mask, end - m, end, G[At(s, end - m)]) }
<1>3. SUFFICES ASSUME Bad # {} PROVE FALSE
  <2>1. SUFFICES ASSUME Bad = {} PROVE Found(s, mask, from, end, G[At(s, from)])
    BY <1>2, <1>3
  <2>2. end - from \in 0 .. end - from /\ end - (end - from) = from
    OBVIOUS
  <2>3. QED
    BY <2>1, <2>2
<1>4. PICK m \in Bad : \A y \in Bad : m <= y
  <2>1. Bad \subseteq Nat
    OBVIOUS
  <2> HIDE DEF Bad
  <2>2. QED
    BY <1>3, <2>1, LeastNatural
<1> DEFINE k == end - m
<1>5. /\ m \in 0 .. end - from /\ ~Found(s, mask, k, end, G[At(s, k)]) /\ m - 2 \notin Bad
      /\ k \in from .. end /\ k \in 0 .. end /\ k \in 0 .. Len(s) /\ k \in Nat
      /\ end \in Nat /\ Len(s) \in Nat /\ k + 1 >= config.min_size
  BY <1>4, ConfigSizes, SMTT(30)
<1>6. At(s, k) \in Positions(end)
  BY <1>5, PrefixIs DEF At, Positions
<1>7. At(s, k).i = k /\ At(s, k).hash = Prefix(s, k)
  BY DEF At
<1> DEFINE shifted == (4 * Prefix(s, k) + GEAR_TABLE_LS1[s[k + 1]]) % Modulus
           next == (shifted + GEAR_TABLE[s[k + 2]]) % Modulus
<1>8. G[At(s, k)] = IF k + 1 >= end THEN SearchBytes(s, mask, At(s, k), end)
                    ELSE IF Clear(shifted, ShiftMask(mask))
                    THEN [cut |-> k + 1, stop |-> At(s, k)]
                    ELSE IF Clear(next, mask)
                    THEN [cut |-> k + 2, stop |-> [i |-> k, hash |-> next]]
                    ELSE G[[i |-> k + 2, hash |-> next]]
  <2> DEFINE p == At(s, k)
             first == (4 * p.hash + GEAR_TABLE_LS1[s[p.i + 1]]) % Modulus
             second == (first + GEAR_TABLE[s[p.i + 2]]) % Modulus
  <2>1. G[p] = IF p.i + 1 >= end THEN SearchBytes(s, mask, p, end)
               ELSE IF Clear(first, ShiftMask(mask)) THEN [cut |-> p.i + 1, stop |-> p]
               ELSE IF Clear(second, mask)
               THEN [cut |-> p.i + 2, stop |-> [i |-> p.i, hash |-> second]]
               ELSE G[[i |-> p.i + 2, hash |-> second]]
    <3> HIDE DEF p
    <3>1. p \in Positions(end)
      BY <1>6 DEF p
    <3> HIDE DEF k
    <3>2. QED
      BY <1>1, <3>1, ZenonT(60) DEF IsSearchPairs
  <2>2. p.i = k /\ p.hash = Prefix(s, k)
    BY <1>7
  <2> HIDE DEF p, k
  <2>3. first = shifted
    BY <2>2
  <2>4. second = next
    BY <2>2
  <2> HIDE DEF first, second, shifted, next
  <2>5. QED
    BY <2>1, <2>2, <2>3, <2>4, SMTT(30) DEF p
<1> HIDE DEF Bad, k
<1>9. CASE k + 1 >= end
  <2>1. G[At(s, k)] = SearchBytes(s, mask, At(s, k), end)
    BY <1>8, <1>9
  <2>2. QED
    BY <1>5, <2>1, SearchBytesIs
<1>10. CASE ~(k + 1 >= end)
  <2> DEFINE j == k + 1
  <2>1. /\ k < end /\ k < Len(s) /\ j \in 0 .. Len(s) /\ j < Len(s) /\ j + 1 >= config.min_size
        /\ j \in Nat /\ j < end /\ j + 1 = k + 2
    BY <1>5, <1>10, ConfigSizes, SMTT(30)
  <2>2. Prefix(s, j) = Rolled(Prefix(s, k), s[j]) /\ s[j] \in Byte
    BY <1>5, <2>1, PrefixNext
  <2>3. Prefix(s, k) \in Hashes /\ Prefix(s, j) \in Hashes
    BY <1>5, <2>1, PrefixIs
  <2>4. shifted = ShiftLeft(Prefix(s, j))
    BY <2>2, <2>3, PairShifted
  <2>5. next = Prefix(s, k + 2)
    <3>1. Prefix(s, j + 1) = Rolled(Prefix(s, j), s[j + 1])
      <4> HIDE DEF j
      <4>1. QED
        BY <2>1, PrefixNext
    <3> HIDE DEF shifted
    <3>2. QED
      BY <2>1, <2>4, <3>1 DEF Rolled
  <2> HIDE DEF shifted, next
  <2>6. Clear(shifted, ShiftMask(mask)) <=> Clear(Prefix(s, j), mask)
    BY <2>3, <2>4, ShiftedClear
  <2>7. CASE Clear(shifted, ShiftMask(mask))
    <3>1. G[At(s, k)].cut = k + 1
      BY <1>8, <1>10, <2>7
    <3>2. QED
      BY <1>5, <2>1, <2>6, <2>7, <3>1, FoundHere
  <2>8. CASE ~Clear(shifted, ShiftMask(mask)) /\ Clear(next, mask)
    <3>1. G[At(s, k)].cut = j + 1
      BY <1>8, <1>10, <2>1, <2>8
    <3>2. Clear(Prefix(s, j + 1), mask)
      BY <2>1, <2>5, <2>8
    <3> HIDE DEF j
    <3>3. Found(s, mask, j, end, G[At(s, k)])
      BY <1>5, <2>1, <3>1, <3>2, FoundHere
    <3>4. ~Clear(Prefix(s, k + 1), mask)
      BY <2>6, <2>8 DEF j
    <3>5. Found(s, mask, k + 1, end, G[At(s, k)])
      BY <3>3 DEF j
    <3>6. QED
      BY <1>5, <2>1, <3>4, <3>5, FoundEarlier
  <2>9. CASE ~Clear(shifted, ShiftMask(mask)) /\ ~Clear(next, mask)
    <3>1. G[At(s, k)] = G[At(s, j + 1)]
      <4>1. [i |-> k + 2, hash |-> next] = At(s, k + 2)
        BY <2>5 DEF At
      <4>2. QED
        BY <1>8, <1>10, <2>1, <2>9, <4>1
    <3>2. Found(s, mask, j + 1, end, G[At(s, j + 1)])
      <4>1. m - 2 \in 0 .. end - from /\ end - (m - 2) = j + 1
        BY <1>5, <2>1 DEF k
      <4>2. QED
        BY <1>5, <4>1 DEF Bad
    <3>3. ~Clear(Prefix(s, j + 1), mask)
      BY <2>1, <2>5, <2>9
    <3>4. Found(s, mask, j, end, G[At(s, k)])
      <4> HIDE DEF j
      <4>1. QED
        BY <1>5, <2>1, <3>1, <3>2, <3>3, FoundEarlier
    <3>5. ~Clear(Prefix(s, k + 1), mask)
      BY <2>6, <2>9
    <3>6. QED
      BY <1>5, <2>1, <3>4, <3>5, FoundEarlier
  <2>10. QED
    BY <2>7, <2>8, <2>9
<1>11. QED
  BY <1>9, <1>10

\* The cut condition on a prefix.
LEMMA PrefixIsCut ==
    ASSUME config \in Configs, NEW s \in Seq(Byte), NEW k \in 0 .. Len(s)
    PROVE  IsCut(Part(s, 0, k)) <=>
             /\ k >= config.min_size
             /\ \/ k = config.max_size
                \/ k <= config.avg_size /\ Clear(Prefix(s, k), config.mask_small)
                \/ k > config.avg_size /\ Clear(Prefix(s, k), config.mask_large)
<1> DEFINE z == 0
           c == Part(s, z, k)
<1>1. z \in 0 .. Len(s) /\ k \in z .. Len(s) /\ k - z = k
  OBVIOUS
<1>2. Len(c) = k
  <2> HIDE DEF z
  <2>1. QED
    BY <1>1, PartIs
<1>3. HashOf(c) = Prefix(s, k)
  BY DEF Prefix
<1>4. Part(s, 0, k) = c
  OBVIOUS
<1> HIDE DEF c
<1>5. QED
  BY <1>2, <1>3, <1>4 DEF IsCut

\* The search that the masks allow.
Search(s, mask, from, end) ==
    IF Width - 1 \in config.mask_small \cup config.mask_large
    THEN SearchBytes(s, mask, from, end)
    ELSE SearchPairs(s, mask, from, end)

LEMMA SearchIs ==
    ASSUME config \in Configs, NEW s \in Seq(Byte),
           NEW mask \in {config.mask_small, config.mask_large},
           NEW end \in 0 .. Len(s), NEW from \in 0 .. end, from + 1 >= config.min_size
    PROVE  Found(s, mask, from, end, Search(s, mask, At(s, from), end))
<1>1. mask \in SUBSET Bits
  BY ConfigSizes
<1>2. CASE Width - 1 \in config.mask_small \cup config.mask_large
  BY <1>2, SearchBytesIs DEF Search
<1>3. CASE Width - 1 \notin config.mask_small \cup config.mask_large
  <2>1. Width - 1 \notin mask
    BY <1>3
  <2>2. QED
    BY <1>1, <1>3, <2>1, SearchPairsIs DEF Search
<1>4. QED
  BY <1>2, <1>3

\* The iterator's next cut is the first place where the slice may be cut, or its
\* end.
LEMMA NextCutIs ==
    ASSUME config \in Configs, NEW s \in Seq(Byte), Len(s) > 0
    PROVE  /\ NextCut(s) \in 1 .. Len(s)
           /\ \A x \in 1 .. NextCut(s) - 1 : ~IsCut(Part(s, 0, x))
           /\ IsCut(Part(s, 0, NextCut(s))) \/ NextCut(s) = Len(s)
<1> DEFINE n == Len(s)
           cap == Smaller(n, config.max_size)
           center == Smaller(cap, config.avg_size)
           low == config.min_size - 1
           strict == Search(s, config.mask_small, [i |-> low, hash |-> 0], center)
           loose == Search(s, config.mask_large, strict.stop, cap)
           c == NextCut(s)
           Small(k) == Clear(Prefix(s, k), config.mask_small)
           Large(k) == Clear(Prefix(s, k), config.mask_large)
           MayCut(k) == IsCut(Part(s, 0, k))
<1>1. /\ config.min_size \in Nat /\ config.avg_size \in Nat /\ config.max_size \in Nat
      /\ 0 < config.min_size /\ config.min_size <= config.avg_size
      /\ config.avg_size <= config.max_size /\ n \in Nat /\ n > 0
  BY ConfigSizes
<1>2. c = IF n < config.min_size THEN n
          ELSE IF strict.cut # 0 THEN strict.cut
          ELSE IF loose.cut # 0 THEN loose.cut ELSE cap
  BY DEF NextCut, Search
<1>3. \A k \in 0 .. n : MayCut(k) <=>
        /\ k >= config.min_size
        /\ k = config.max_size \/ (k <= config.avg_size /\ Small(k)) \/ (k > config.avg_size /\ Large(k))
  BY PrefixIsCut
<1> SUFFICES /\ c \in 1 .. n
             /\ \A x \in 1 .. c - 1 : ~MayCut(x)
             /\ MayCut(c) \/ c = n
  OBVIOUS
<1> HIDE DEF c, MayCut
<1>4. CASE n < config.min_size
  <2>1. c = n
    BY <1>2, <1>4
  <2>2. \A x \in 1 .. c - 1 : x \in 0 .. n /\ ~(x >= config.min_size)
    BY <1>1, <1>4, <2>1
  <2>3. QED
    BY <1>1, <1>3, <2>1, <2>2
<1>5. CASE ~(n < config.min_size)
  <2>1. /\ low \in 0 .. center /\ low + 1 = config.min_size /\ center \in 0 .. n
        /\ cap \in 0 .. n /\ center \in 0 .. cap /\ low \in 0 .. n /\ low < config.min_size
        /\ center >= config.min_size /\ center <= config.avg_size
        /\ cap <= config.max_size /\ (center < cap => center = config.avg_size)
        /\ cap = n \/ cap = config.max_size
    BY <1>1, <1>5 DEF Smaller
  <2>2. [i |-> low, hash |-> 0] = At(s, low)
    BY <2>1, PrefixIs DEF At
  <2>3. Found(s, config.mask_small, low, center, strict)
    <3>1. config.mask_small \in {config.mask_small, config.mask_large}
      OBVIOUS
    <3> HIDE DEF low, center
    <3>2. QED
      BY <1>1, <2>1, <2>2, <3>1, SearchIs
  <2>4. \A x \in 1 .. n : x < config.min_size => ~MayCut(x)
    BY <1>1, <1>3
  <2> HIDE DEF strict, loose, low, cap, center, n
  <2>5. \/ /\ strict.cut = 0 /\ strict.stop = At(s, center)
           /\ \A k \in config.min_size .. center : ~Small(k)
        \/ /\ strict.cut \in config.min_size .. center /\ Small(strict.cut)
           /\ \A k \in config.min_size .. strict.cut - 1 : ~Small(k)
    BY <2>1, <2>3 DEF Found
  <2>6. CASE strict.cut # 0
    <3>1. /\ c = strict.cut /\ c \in config.min_size .. center /\ Small(c)
          /\ \A k \in config.min_size .. c - 1 : ~Small(k)
      BY <1>2, <1>5, <2>5, <2>6
    <3> HIDE DEF Small, Large
    <3>2. c \in 1 .. n /\ c <= config.avg_size /\ c >= config.min_size
      BY <1>1, <2>1, <3>1
    <3>3. MayCut(c)
      BY <1>1, <1>3, <3>1, <3>2
    <3>4. ASSUME NEW x \in 1 .. c - 1 PROVE ~MayCut(x)
      <4>1. x \in 1 .. n /\ x \in 0 .. n /\ x < config.avg_size /\ x # config.max_size /\ ~(x > config.avg_size)
        BY <1>1, <3>2
      <4>2. x >= config.min_size => ~Small(x)
        BY <1>1, <3>1, <3>2, <4>1
      <4>3. QED
        BY <1>3, <4>1, <4>2
    <3>5. QED
      BY <3>2, <3>3, <3>4
  <2>7. CASE strict.cut = 0
    <3>1. /\ strict.stop = At(s, center) /\ \A k \in config.min_size .. center : ~Small(k)
      BY <1>1, <2>5, <2>7
    <3>2. Found(s, config.mask_large, center, cap, loose)
      <4>1. config.mask_large \in {config.mask_small, config.mask_large}
        OBVIOUS
      <4>2. cap \in 0 .. Len(s) /\ center + 1 >= config.min_size
        BY <1>1, <2>1 DEF n
      <4>3. Found(s, config.mask_large, center, cap, Search(s, config.mask_large, At(s, center), cap))
        BY <2>1, <4>1, <4>2, SearchIs
      <4>4. QED
        BY <3>1, <4>3 DEF loose
    <3>3. \/ /\ loose.cut = 0 /\ \A k \in center + 1 .. cap : ~Large(k)
          \/ /\ loose.cut \in center + 1 .. cap /\ Large(loose.cut)
             /\ \A k \in center + 1 .. loose.cut - 1 : ~Large(k)
      BY <3>2 DEF Found
    <3> HIDE DEF Small, Large
    <3>4. /\ c \in center .. cap /\ c \in Nat /\ cap \in Nat /\ center \in Nat
          /\ \A k \in center + 1 .. c - 1 : ~Large(k)
          /\ c = cap \/ (c \in center + 1 .. cap /\ Large(c))
      <4>1. CASE loose.cut = 0
        <5>1. c = cap /\ \A k \in center + 1 .. cap : ~Large(k)
          BY <1>2, <1>5, <2>1, <2>7, <3>3, <4>1
        <5>2. QED
          BY <2>1, <5>1
      <4>2. CASE loose.cut # 0
        <5>1. c = loose.cut
          BY <1>2, <1>5, <2>7, <4>2
        <5>2. QED
          BY <2>1, <3>3, <4>2, <5>1
      <4>3. QED
        BY <4>1, <4>2
    <3>5. c \in 1 .. n /\ c <= config.max_size /\ c \in 0 .. n /\ c >= config.min_size
      BY <1>1, <2>1, <3>4
    <3>6. ASSUME NEW x \in 1 .. c - 1 PROVE ~MayCut(x)
      <4>1. x \in 0 .. n /\ x \in 1 .. n /\ x # config.max_size /\ x < cap
        BY <1>1, <2>1, <3>4, <3>5
      <4>2. CASE x \in config.min_size .. center
        <5>1. ~Small(x) /\ x <= config.avg_size
          BY <1>1, <2>1, <3>1, <4>1, <4>2
        <5>2. QED
          BY <1>1, <1>3, <4>1, <5>1
      <4>3. CASE x \in center + 1 .. c - 1
        <5>1. ~Large(x) /\ ~(x <= config.avg_size)
          BY <1>1, <2>1, <3>4, <4>1, <4>3
        <5>2. QED
          BY <1>1, <1>3, <4>1, <5>1
      <4>4. CASE x < config.min_size
        BY <2>4, <4>1, <4>4
      <4>5. QED
        BY <1>1, <2>1, <4>2, <4>3, <4>4
    <3>7. MayCut(c) \/ c = n
      <4>1. CASE c = cap
        BY <1>3, <2>1, <3>5, <4>1
      <4>2. CASE c \in center + 1 .. cap /\ Large(c)
        <5>1. c > config.avg_size
          BY <1>1, <2>1, <4>2
        <5>2. QED
          BY <1>3, <3>5, <4>2, <5>1
      <4>3. QED
        BY <3>4, <4>1, <4>2
    <3>8. QED
      BY <3>5, <3>6, <3>7
  <2>8. QED
    BY <2>6, <2>7
<1>6. QED
  BY <1>4, <1>5

\* A prefix of what is left is a slice of the whole.
LEMMA PartOfPart ==
    ASSUME NEW s \in Seq(Byte), NEW p \in 0 .. Len(s), NEW x \in 0 .. Len(s) - p
    PROVE  Part(Part(s, p, Len(s)), 0, x) = Part(s, p, p + x)
<1> DEFINE N == Len(s)
           z == 0
           u == Part(s, p, N)
           c == Part(u, z, x)
           y == p + x
           d == Part(s, p, y)
<1>1. N \in p .. Len(s) /\ y \in p .. Len(s) /\ y - p = x /\ N \in Nat /\ p \in Nat /\ x \in Nat
  OBVIOUS
<1> HIDE DEF N, y
<1>2. u \in Seq(Byte) /\ Len(u) = N - p /\ \A n \in 1 .. N - p : u[n] = s[p + n]
  BY <1>1, PartIs
<1>3. z \in 0 .. Len(u) /\ x \in z .. Len(u) /\ x - z = x /\ \A n \in 1 .. x : z + n = n
  BY <1>1, <1>2 DEF N
<1> HIDE DEF u, z
<1>4. c \in Seq(Byte) /\ Len(c) = x /\ \A n \in 1 .. x : c[n] = u[z + n]
  <2>1. /\ c \in Seq(Byte) /\ Len(c) = x - z
        /\ \A n \in 1 .. x - z : c[n] = u[z + n]
    <3>1. u \in Seq(Byte) /\ z \in 0 .. Len(u) /\ x \in z .. Len(u)
      BY <1>2, <1>3
    <3>2. QED
      BY <3>1, PartIs
  <2>2. QED
    BY <1>3, <2>1
<1>5. d \in Seq(Byte) /\ Len(d) = x /\ \A n \in 1 .. x : d[n] = s[p + n]
  BY <1>1, PartIs
<1>6. \A n \in 1 .. x : n \in 1 .. N - p
  BY <1>1, <1>2, <1>3 DEF z
<1> HIDE DEF c, d
<1>7. \A n \in 1 .. x : c[n] = d[n]
  BY <1>2, <1>3, <1>4, <1>5, <1>6
<1>8. c = d
  BY <1>4, <1>5, <1>7, SeqEqual
<1>9. QED
  BY <1>8 DEF c, d, u, y, z, N

-----------------------------------------------------------------------------
(* The iterator follows the stream *)

\* The stream's boundary as the iterator, which counts from its slice, has it.
Local(n) == [emitted[n] EXCEPT !.offset = @ - start]

\* What is yielded is the beginning of what was emitted, and ends where pos is.
YInv ==
    /\ pos \in 0 .. Len(input)
    /\ yielded \in Seq(Boundary)
    /\ ~finished => yielded = << >> /\ pos = 0
    /\ finished => /\ Len(yielded) <= Len(emitted)
                   /\ \A n \in 1 .. Len(yielded) : yielded[n] = Local(n)
                   /\ pos = EndOf(Len(yielded)) - start

\* A chunk of the stream in offsets of the input.
LEMMA ChunkIs ==
    ASSUME IInv, CutInv, NEW n \in 1 .. Len(emitted),
           NEW b, b = EndOf(n - 1) - start, NEW e, e = EndOf(n) - start
    PROVE  /\ b \in 0 .. Len(input) /\ e \in b + 1 .. Len(input)
           /\ Local(n) = [offset |-> e, size |-> e - b]
           /\ \A x \in b + 1 .. e - 1 : ~IsCut(Part(input, b, x))
           /\ IsCut(Part(input, b, e)) \/ e = Len(input)
<1> DEFINE end == emitted[n].offset
           size == emitted[n].size
<1>1. /\ BoundaryOK(n) /\ CutOK(n) /\ emitted \in Seq(Boundary) /\ input \in Seq(Byte)
      /\ start \in Nat /\ Len(input) \in Nat /\ n \in Nat /\ n # 0
  BY DEF IInv, CutInv, Shape, TypeOK
<1>2. emitted[n] \in Boundary
  BY <1>1, ElementOfSeq
<1>3. /\ end \in Nat /\ size \in Nat /\ emitted[n] = [offset |-> end, size |-> size]
      /\ Local(n) = [offset |-> end - start, size |-> size]
  BY <1>2 DEF Boundary, Local
<1>4. end - size = EndOf(n - 1) /\ size > 0
  BY <1>1, <1>3 DEF BoundaryOK
<1>5. EndOf(n) = end
  BY <1>1 DEF EndOf
<1>6. /\ 0 <= end - start - size /\ end - start <= Len(input)
      /\ \A x \in (end - start - size) + 1 .. end - start - 1 : ~IsCut(Part(input, end - start - size, x))
      /\ IsCut(Part(input, end - start - size, end - start)) \/ end - start = Len(input)
  BY <1>1 DEF CutOK
<1> HIDE DEF end, size
<1>7. e = end - start /\ b = end - start - size /\ e - b = size /\ b \in Int /\ e \in Int /\ b < e
  BY <1>1, <1>3, <1>4, <1>5, SMTT(30)
<1>8. b \in 0 .. Len(input) /\ e \in b + 1 .. Len(input)
  BY <1>1, <1>6, <1>7, SMTT(30)
<1>9. QED
  BY <1>3, <1>6, <1>7, <1>8

\* When the stream is finished its chunks cover the input.
LEMMA ChunksCover ==
    ASSUME IInv, finished
    PROVE  EndOf(Len(emitted)) - start = Len(input)
<1>1. /\ bytes_in_chunk = 0 /\ start \in Nat /\ total_bytes = start + Len(input)
      /\ total_bytes - bytes_in_chunk = EndOf(Len(emitted)) /\ Len(input) \in Nat
  BY DEF IInv, TypeOK, Shape
<1>2. QED
  BY <1>1

LEMMA InitYInv == Init => YInv
BY DEF Init, YInv

LEMMA FeedYInv == ASSUME NEW b \in Byte PROVE IInv /\ YInv /\ Feed(b) => YInv'
<1>1. SUFFICES ASSUME IInv, YInv, Feed(b) PROVE YInv'
  OBVIOUS
<1>2. /\ ~finished /\ ~finished' /\ pos = 0 /\ pos' = pos /\ yielded' = yielded
      /\ input' = Append(input, b) /\ input \in Seq(Byte) /\ yielded \in Seq(Boundary)
      /\ yielded = << >>
  BY <1>1 DEF Feed, YInv, IInv, Shape
<1>3. Len(input') \in Nat
  BY <1>2
<1>4. QED
  BY <1>2, <1>3 DEF YInv

LEMMA FinishYInv == IInv /\ YInv /\ Finish => YInv'
<1>1. SUFFICES ASSUME IInv, YInv, Finish PROVE YInv'
  OBVIOUS
<1>2. /\ ~finished /\ pos = 0 /\ pos' = pos /\ yielded' = yielded /\ start' = start
      /\ input' = input /\ input \in Seq(Byte) /\ yielded = << >> /\ start \in Nat
      /\ emitted \in Seq(Boundary) /\ pos \in 0 .. Len(input) /\ yielded \in Seq(Boundary)
  BY <1>1 DEF Finish, YInv, IInv, Shape, TypeOK
<1>3. Len(yielded') = 0 /\ EndOf(0)' = start'
  BY <1>2 DEF EndOf
<1>4. Len(emitted') \in Nat
  <2>1. IInv'
    BY <1>1, StepFinish
  <2>2. QED
    BY <2>1 DEF IInv, Shape
<1>5. EndOf(Len(yielded))' = start'
  BY <1>3 DEF EndOf
<1>6. QED
  BY <1>2, <1>3, <1>4, <1>5 DEF YInv

LEMMA ResumeYInv == IInv /\ YInv /\ Resume => YInv'
<1>1. SUFFICES ASSUME Resume PROVE YInv'
  OBVIOUS
<1>2. input' = << >> /\ yielded' = << >> /\ pos' = 0 /\ ~finished'
  BY <1>1 DEF Resume
<1>3. QED
  BY <1>2 DEF YInv

\* The next cut is the end of the stream's next chunk.
LEMMA IterNextYInv == IInv /\ CutInv /\ YInv /\ IterNext => YInv'
<1>1. SUFFICES ASSUME IInv, CutInv, YInv, IterNext PROVE YInv'
  OBVIOUS
<1> DEFINE N == Len(input)
           rest == Part(input, pos, N)
           c == NextCut(rest)
           k == Len(yielded)
           n == k + 1
           e == EndOf(n) - start
<1>2. /\ input \in Seq(Byte) /\ emitted \in Seq(Boundary) /\ yielded \in Seq(Boundary)
      /\ finished /\ pos \in 0 .. N /\ pos < N /\ k \in Nat /\ k <= Len(emitted)
      /\ start \in Nat /\ pos = EndOf(k) - start /\ N \in Nat /\ Len(emitted) \in Nat
      /\ config \in Configs /\ \A m \in 1 .. k : yielded[m] = Local(m)
  BY <1>1 DEF IInv, Shape, TypeOK, YInv, IterNext
<1>3. /\ pos' = pos + c /\ yielded' = Append(yielded, [offset |-> pos', size |-> pos' - pos])
      /\ input' = input /\ emitted' = emitted /\ start' = start /\ finished' = finished
  BY <1>1 DEF IterNext, Part
<1>4. k < Len(emitted)
  <2>1. k # Len(emitted)
    BY <1>1, <1>2, ChunksCover
  <2>2. QED
    BY <1>2, <2>1
<1>5. n \in 1 .. Len(emitted) /\ n - 1 = k
  BY <1>2, <1>4
<1> DEFINE b == EndOf(n - 1) - start
<1>6. /\ b \in 0 .. N /\ e \in b + 1 .. N
      /\ Local(n) = [offset |-> e, size |-> e - b]
      /\ \A x \in b + 1 .. e - 1 : ~IsCut(Part(input, b, x))
      /\ IsCut(Part(input, b, e)) \/ e = N
  <2> HIDE DEF n
  <2>1. QED
    BY <1>1, <1>5, ChunkIs
<1>7. b = pos
  BY <1>2, <1>5
<1> HIDE DEF b, e
<1>8. rest \in Seq(Byte) /\ Len(rest) = N - pos
  <2>1. N \in pos .. Len(input)
    BY <1>2
  <2>2. QED
    BY <1>2, <2>1, PartIs
<1>9. Len(rest) > 0
  BY <1>2, <1>8
<1> HIDE DEF rest
<1>10. /\ c \in 1 .. Len(rest)
       /\ \A x \in 1 .. c - 1 : ~IsCut(Part(rest, 0, x))
       /\ IsCut(Part(rest, 0, c)) \/ c = Len(rest)
  BY <1>2, <1>8, <1>9, NextCutIs
<1>11. \A x \in 0 .. N - pos : Part(rest, 0, x) = Part(input, pos, pos + x)
  BY <1>2, PartOfPart DEF rest
<1> HIDE DEF c
<1>12. /\ c \in 1 .. N - pos /\ c \in 0 .. N - pos
       /\ \A x \in 1 .. c - 1 : ~IsCut(Part(input, pos, pos + x))
       /\ IsCut(Part(input, pos, pos + c)) \/ c = N - pos
  <2>1. c \in 1 .. N - pos /\ c \in 0 .. N - pos
    BY <1>2, <1>8, <1>10
  <2>2. \A x \in 1 .. c - 1 : x \in 0 .. N - pos
    BY <1>2, <2>1
  <2>3. QED
    BY <1>8, <1>10, <1>11, <2>1, <2>2
<1>13. pos + c = e
  <2>0. /\ pos \in Int /\ c \in Int /\ e \in Int /\ N \in Int /\ c > 0 /\ pos + c <= N
        /\ pos < e /\ e <= N /\ b = pos
    <3>1. e \in pos + 1 .. N
      BY <1>6, <1>7
    <3> HIDE DEF N
    <3>2. QED
      BY <1>2, <1>7, <1>12, <3>1, SMTT(30)
  <2> HIDE DEF N
  <2>1. CASE pos + c < e
    <3>1. pos + c \in b + 1 .. e - 1
      BY <2>0, <2>1
    <3>2. ~IsCut(Part(input, pos, pos + c))
      BY <1>6, <1>7, <3>1
    <3>3. c = N - pos
      BY <1>12, <3>2
    <3>4. QED
      BY <2>0, <2>1, <3>3
  <2>2. CASE pos + c > e
    <3>1. e - pos \in 1 .. c - 1 /\ pos + (e - pos) = e
      BY <2>0, <2>2
    <3>2. ~IsCut(Part(input, pos, e))
      BY <1>12, <3>1
    <3>3. e = N
      BY <1>6, <1>7, <3>2
    <3>4. QED
      BY <2>0, <2>2, <3>3
  <2>3. QED
    BY <2>0, <2>1, <2>2
<1> DEFINE new == [offset |-> pos', size |-> pos' - pos]
<1>14. pos' = e /\ new = Local(n)
  BY <1>3, <1>6, <1>7, <1>13
<1>15. new \in Boundary /\ pos' \in 0 .. N
  BY <1>2, <1>6, <1>7, <1>14, SMTT(30) DEF Boundary
<1>16. \A m : Local(m)' = Local(m) /\ EndOf(m)' = EndOf(m)
  BY <1>3 DEF Local, EndOf
<1>17. yielded' = Append(yielded, new)
  BY <1>3
<1> HIDE DEF new
<1>18. /\ yielded' \in Seq(Boundary) /\ Len(yielded') = n
       /\ \A m \in 1 .. k : yielded'[m] = yielded[m]
       /\ yielded'[n] = new
  BY <1>2, <1>15, <1>17, AppendProperties
<1>19. \A m \in 1 .. Len(yielded') : yielded'[m] = Local(m)'
  <2>1. \A m \in 1 .. n : m = n \/ m \in 1 .. k
    BY <1>2
  <2>2. QED
    BY <1>2, <1>14, <1>16, <1>18, <2>1
<1>20. pos' = EndOf(Len(yielded))' - start'
  <2>1. ASSUME NEW m, m = Len(yielded') PROVE EndOf(Len(yielded))' = EndOf(m)
    BY <1>3, <2>1 DEF EndOf
  <2>2. EndOf(Len(yielded))' = EndOf(n)
    BY <1>18, <2>1
  <2>3. QED
    BY <1>3, <1>14, <2>2 DEF e
<1>21. Len(yielded') <= Len(emitted')
  BY <1>2, <1>3, <1>4, <1>18
<1>22. QED
  BY <1>2, <1>3, <1>15, <1>18, <1>19, <1>20, <1>21 DEF YInv

LEMMA StutterYInv == YInv /\ UNCHANGED vars => YInv'
BY DEF YInv, EndOf, Local, vars

LEMMA YInvariance == Spec => []YInv
<1>1. IInv /\ CutInv /\ YInv /\ [Next]_vars => YInv'
  BY FeedYInv, FinishYInv, IterNextYInv, ResumeYInv, StutterYInv DEF Next
<1>2. QED
  BY InitYInv, Invariance, CutInvariance, <1>1, PTL DEF Spec

\* FastCdcIter, two bytes at a time where the masks allow it, yields over a slice
\* what a FastCdcStream that was fed the slice byte by byte emits, in the same
\* order and none left out.
THEOREM IterCorrect == Spec => []IterFollowsStream
<1>1. IInv /\ CutInv /\ YInv => IterFollowsStream
  <2>1. SUFFICES ASSUME IInv, CutInv, YInv PROVE IterFollowsStream
    OBVIOUS
  <2>2. /\ pos \in 0 .. Len(input) /\ yielded \in Seq(Boundary) /\ emitted \in Seq(Boundary)
        /\ DOMAIN yielded = 1 .. Len(yielded) /\ Len(yielded) \in Nat /\ Len(emitted) \in Nat
        /\ Len(input) \in Nat
    BY <2>1 DEF YInv, IInv, Shape
  <2>3. ASSUME finished
        PROVE  /\ Len(yielded) <= Len(emitted)
               /\ \A n \in DOMAIN yielded : yielded[n] = [emitted[n] EXCEPT !.offset = @ - start]
               /\ pos = EndOf(Len(yielded)) - start
    BY <2>1, <2>2, <2>3 DEF YInv, Local
  <2>4. ASSUME finished, pos = Len(input) PROVE Len(yielded) = Len(emitted)
    <3> DEFINE k == Len(yielded)
               n == k + 1
               b == EndOf(n - 1) - start
               e == EndOf(n) - start
    <3>1. SUFFICES ASSUME k < Len(emitted) PROVE FALSE
      BY <2>2, <2>3, <2>4
    <3>2. n \in 1 .. Len(emitted) /\ n - 1 = k
      BY <2>2, <3>1
    <3>3. b = pos
      BY <2>3, <2>4, <3>2
    <3>4. b \in 0 .. Len(input) /\ e \in b + 1 .. Len(input)
      <4> HIDE DEF n
      <4>1. QED
        BY <2>1, <3>2, ChunkIs
    <3> HIDE DEF b, e
    <3>5. QED
      BY <2>2, <2>4, <3>3, <3>4
  <2>5. QED
    BY <2>2, <2>3, <2>4 DEF IterFollowsStream
<1>2. QED
  BY Invariance, CutInvariance, YInvariance, <1>1, PTL

-----------------------------------------------------------------------------
(* Winnowing: what the proof knows of a state *)

Entry == [position : Nat, hash : Nat]

\* The first position of the window that ends before n.
Start(n) == IF n <= window THEN 0 ELSE n - window

Within(d, s, n) ==
    \A x \in 1 .. Len(d) :
        d[x].position \in s .. n - 1 /\ d[x].hash = HashAt(d[x].position)

Ascending(d) == \A x, y \in 1 .. Len(d) : x < y => d[x].position < d[y].position

Holds(d, place) == \E x \in 1 .. Len(d) : d[x].position = place

BelowAllAfter(place, n) == \A later \in place + 1 .. n - 1 : HashAt(place) < HashAt(later)

\* An entry at place or behind it is no greater than the hash there.
Covers(d, place) ==
    \E x \in 1 .. Len(d) : d[x].position >= place /\ d[x].hash <= HashAt(place)

\* The deque d is the suffix minima of the positions from s up to n.  That
\* each position is covered follows, and is what makes the front a minimum.
SuffixMinima(d, s, n) ==
    /\ d \in Seq(Entry)
    /\ Within(d, s, n)
    /\ Ascending(d)
    /\ \A place \in s .. n - 1 : Holds(d, place) <=> BelowAllAfter(place, n)
    /\ \A place \in s .. n - 1 : Covers(d, place)

\* The minimum of the last completed window is the one yielded last.
LastIsCurrent ==
    next_pos >= window => selected # << >> /\ IsRightmostMin(last_emitted, next_pos)

SelectShape ==
    /\ hashes \in Seq(Nat)
    /\ window \in Nat \ {0}
    /\ selected \in Seq(Entry)

SelectInv ==
    /\ SelectShape
    /\ DequeOK
    /\ SuffixMinima(deque, Start(next_pos), next_pos)
    /\ SelectsRightmostMinima
    /\ LastIsCurrent

-----------------------------------------------------------------------------
(* Where the loops stop *)

LEMMA EntryFields ==
    ASSUME NEW d \in Seq(Entry), NEW x \in 1 .. Len(d)
    PROVE  d[x] \in Entry /\ d[x].position \in Nat /\ d[x].hash \in Nat
<1>1. d[x] \in Entry
  OBVIOUS
<1>2. QED
  BY <1>1 DEF Entry

\* The loop that pops the back stops.
LEMMA KeptExists ==
    ASSUME NEW d \in Seq(Entry), NEW h \in Nat
    PROVE  /\ Kept(d, h) \in 0 .. Len(d)
           /\ Kept(d, h) = 0 \/ d[Kept(d, h)].hash < h
           /\ \A x \in Kept(d, h) + 1 .. Len(d) : d[x].hash >= h
<1> DEFINE T == { k \in 0 .. Len(d) : \A x \in k + 1 .. Len(d) : d[x].hash >= h }
<1>1. Len(d) \in T /\ T \subseteq Nat
  OBVIOUS
<1>2. PICK k \in T : \A y \in T : k <= y
  BY <1>1, LeastNatural
<1>3. k = 0 \/ d[k].hash < h
  <2>1. SUFFICES ASSUME k # 0 PROVE d[k].hash < h
    OBVIOUS
  <2>2. k - 1 \notin T /\ k - 1 \in 0 .. Len(d)
    BY <2>1, <1>2
  <2>3. PICK x \in k .. Len(d) : ~(d[x].hash >= h)
    BY <2>2
  <2>4. x = k
    BY <2>3
  <2>5. d[k].hash \in Nat
    BY <2>1, EntryFields
  <2>6. QED
    BY <2>3, <2>4, <2>5
<1>4. \E j \in 0 .. Len(d) :
         /\ j = 0 \/ d[j].hash < h
         /\ \A x \in j + 1 .. Len(d) : d[x].hash >= h
  BY <1>3
<1>5. QED
  BY <1>4, Zenon DEF Kept

\* The loop that pops the front stops.
LEMMA ExpiredExists ==
    ASSUME NEW d \in Seq(Entry), NEW first \in Nat
    PROVE  /\ Expired(d, first) \in 0 .. Len(d)
           /\ Expired(d, first) = Len(d) \/ d[Expired(d, first) + 1].position >= first
           /\ \A x \in 1 .. Expired(d, first) : d[x].position < first
<1> DEFINE T == { k \in 0 .. Len(d) : k = Len(d) \/ d[k + 1].position >= first }
<1>1. Len(d) \in T /\ T \subseteq Nat
  OBVIOUS
<1>2. PICK k \in T : \A y \in T : k <= y
  BY <1>1, LeastNatural
<1>3. ASSUME NEW x \in 1 .. k PROVE d[x].position < first
  <2>1. k \in 0 .. Len(d) /\ x - 1 \in 0 .. Len(d) /\ x \in 1 .. Len(d)
    BY <1>2
  <2>2. x - 1 \notin T
    <3> HIDE DEF T
    <3> QED
      BY <2>1, <1>2
  <2>3. ~(d[x].position >= first) /\ d[x].position \in Nat
    BY <2>1, <2>2, EntryFields
  <2>4. QED
    BY <2>3
<1>4. \E j \in 0 .. Len(d) :
         /\ j = Len(d) \/ d[j + 1].position >= first
         /\ \A x \in 1 .. j : d[x].position < first
  BY <1>2, <1>3
<1>5. QED
  BY <1>4, Zenon DEF Expired

-----------------------------------------------------------------------------
(* The deque *)

\* What is left when the entries before t are popped.
LEMMA UnexpiredIs ==
    ASSUME NEW d \in Seq(Entry), NEW t \in Nat
    PROVE  /\ Unexpired(d, t) \in Seq(Entry)
           /\ Len(Unexpired(d, t)) = Len(d) - Expired(d, t)
           /\ \A x \in 1 .. Len(Unexpired(d, t)) : Unexpired(d, t)[x] = d[x + Expired(d, t)]
<1> DEFINE e == Expired(d, t)
<1>1. e \in 0 .. Len(d)
  BY ExpiredExists
<1> HIDE DEF e
<1>2. SubSeq(d, e + 1, Len(d)) = [x \in 1 .. Len(d) - e |-> d[x + e]]
  BY <1>1
<1>3. QED
  BY <1>1, <1>2, SMTT(30) DEF Unexpired, e

\* Popping the front leaves the suffix minima of a range that starts later.
LEMMA UnexpiredKeepsMinima ==
    ASSUME NEW d, NEW s \in Nat, NEW t \in Nat, NEW n \in Nat, s <= t, t <= n,
           hashes \in Seq(Nat), n <= Len(hashes),
           SuffixMinima(d, s, n)
    PROVE  SuffixMinima(Unexpired(d, t), t, n)
<1> DEFINE e == Expired(d, t)
           u == Unexpired(d, t)
<1>0. d \in Seq(Entry) /\ Within(d, s, n) /\ Ascending(d)
  BY DEF SuffixMinima
<1>1. /\ e \in 0 .. Len(d)
      /\ e = Len(d) \/ d[e + 1].position >= t
      /\ \A x \in 1 .. e : d[x].position < t
  BY <1>0, ExpiredExists
<1>2. /\ u \in Seq(Entry) /\ Len(u) = Len(d) - e
      /\ \A x \in 1 .. Len(u) : u[x] = d[x + e]
  BY <1>0, UnexpiredIs
<1> HIDE DEF e, u
<1>3. \A x \in 1 .. Len(d) : d[x].position \in s .. n - 1 /\ d[x].position \in Nat
  BY <1>0 DEF Within
<1>4. ASSUME NEW x \in e + 1 .. Len(d) PROVE d[x].position >= t
  <2>1. e + 1 \in 1 .. Len(d) /\ x \in 1 .. Len(d) /\ e # Len(d)
    BY <1>1
  <2>2. x = e + 1 \/ d[e + 1].position < d[x].position
    BY <2>1, <1>0 DEF Ascending
  <2>3. d[e + 1].position \in Nat /\ d[x].position \in Nat
    BY <2>1, <1>3
  <2>4. QED
    BY <2>1, <2>2, <2>3, <1>1, SMTT(30)
<1>5. Within(u, t, n)
  <2>1. SUFFICES ASSUME NEW x \in 1 .. Len(u)
                 PROVE  u[x].position \in t .. n - 1 /\ u[x].hash = HashAt(u[x].position)
    BY DEF Within
  <2>2. x + e \in e + 1 .. Len(d) /\ x + e \in 1 .. Len(d)
    BY <1>1, <1>2
  <2>3. u[x] = d[x + e] /\ d[x + e].position >= t
    BY <2>2, <1>2, <1>4
  <2>4. d[x + e].position \in s .. n - 1 /\ d[x + e].hash = HashAt(d[x + e].position)
    BY <2>2, <1>0 DEF Within
  <2>5. QED
    BY <2>3, <2>4
<1>6. Ascending(u)
  <2>1. SUFFICES ASSUME NEW x \in 1 .. Len(u), NEW y \in 1 .. Len(u), x < y
                 PROVE  u[x].position < u[y].position
    BY DEF Ascending
  <2>2. x + e \in 1 .. Len(d) /\ y + e \in 1 .. Len(d) /\ x + e < y + e
    BY <2>1, <1>1, <1>2, SMTT(30)
  <2>3. QED
    BY <2>2, <1>0, <1>2 DEF Ascending
\* An entry of d at a position from t on is an entry of u.
<1>7. ASSUME NEW x \in 1 .. Len(d), d[x].position >= t
      PROVE  x - e \in 1 .. Len(u) /\ u[x - e] = d[x]
  <2>1. x > e
    BY <1>1, <1>3, <1>7
  <2>2. QED
    BY <2>1, <1>1, <1>2
<1>8. ASSUME NEW place \in t .. n - 1 PROVE Holds(u, place) <=> BelowAllAfter(place, n)
  <2>1. Holds(u, place) <=> Holds(d, place)
    <3>1. ASSUME Holds(u, place) PROVE Holds(d, place)
      <4>1. PICK x \in 1 .. Len(u) : u[x].position = place
        BY <3>1 DEF Holds
      <4>2. x + e \in 1 .. Len(d) /\ d[x + e].position = place
        BY <4>1, <1>1, <1>2
      <4>3. QED
        BY <4>2 DEF Holds
    <3>2. ASSUME Holds(d, place) PROVE Holds(u, place)
      <4>1. PICK x \in 1 .. Len(d) : d[x].position = place
        BY <3>2 DEF Holds
      <4>2. QED
        BY <4>1, <1>7, SMTT(30) DEF Holds
    <3>3. QED
      BY <3>1, <3>2
  <2>2. place \in s .. n - 1
    OBVIOUS
  <2>3. QED
    BY <2>1, <2>2 DEF SuffixMinima
<1>9. ASSUME NEW place \in t .. n - 1 PROVE Covers(u, place)
  <2>1. place \in s .. n - 1
    OBVIOUS
  <2>2. PICK x \in 1 .. Len(d) : d[x].position >= place /\ d[x].hash <= HashAt(place)
    BY <2>1 DEF SuffixMinima, Covers
  <2>3. d[x].position >= t
    BY <2>2, <1>3
  <2>4. QED
    BY <2>2, <2>3, <1>7 DEF Covers
<1>10. QED
  BY <1>2, <1>5, <1>6, <1>8, <1>9 DEF SuffixMinima, u

\* What push makes of the deque.
LEMMA PushedIs ==
    ASSUME NEW d \in Seq(Entry), NEW place \in Nat, NEW h \in Nat
    PROVE  /\ Pushed(d, place, h) \in Seq(Entry)
           /\ Len(Pushed(d, place, h)) = Kept(d, h) + 1
           /\ \A x \in 1 .. Kept(d, h) : Pushed(d, place, h)[x] = d[x]
           /\ Pushed(d, place, h)[Kept(d, h) + 1] = [position |-> place, hash |-> h]
<1> DEFINE k == Kept(d, h)
           new == [position |-> place, hash |-> h]
<1>1. k \in 0 .. Len(d)
  BY KeptExists
<1>2. new \in Entry
  BY DEF Entry
<1> HIDE DEF k, new
<1>3. SubSeq(d, 1, k) \in Seq(Entry) /\ Len(SubSeq(d, 1, k)) = k
  BY <1>1
<1>4. \A x \in 1 .. k : SubSeq(d, 1, k)[x] = d[x]
  BY <1>1
<1>5. Pushed(d, place, h) = Append(SubSeq(d, 1, k), new)
  BY DEF Pushed, k, new
<1> HIDE DEF Pushed
<1>6. QED
  <2>1. Append(SubSeq(d, 1, k), new) \in Seq(Entry)
    BY <1>2, <1>3
  <2>2. Len(Append(SubSeq(d, 1, k), new)) = k + 1
    BY <1>2, <1>3
  <2>3. \A x \in 1 .. k : Append(SubSeq(d, 1, k), new)[x] = d[x]
    BY <1>1, <1>2, <1>3, <1>4
  <2>4. Append(SubSeq(d, 1, k), new)[k + 1] = new
    BY <1>2, <1>3
  <2>5. QED
    BY <2>1, <2>2, <2>3, <2>4, <1>5 DEF k, new

\* The suffix minima rise from the front to the back.
LEMMA HashesRise ==
    ASSUME NEW d, NEW s \in Nat, NEW n \in Nat, SuffixMinima(d, s, n),
           NEW x \in 1 .. Len(d), NEW y \in 1 .. Len(d), x < y
    PROVE  d[x].hash < d[y].hash
<1>1. d[x].position \in s .. n - 1 /\ d[y].position \in s .. n - 1
  BY DEF SuffixMinima, Within
<1>2. d[x].position < d[y].position
  BY DEF SuffixMinima, Ascending
<1>3. Holds(d, d[x].position)
  BY DEF Holds
<1>4. BelowAllAfter(d[x].position, n)
  BY <1>1, <1>3 DEF SuffixMinima
<1>5. d[y].position \in d[x].position + 1 .. n - 1
  BY <1>1, <1>2
<1>6. HashAt(d[x].position) < HashAt(d[y].position)
  BY <1>4, <1>5 DEF BelowAllAfter
<1>7. QED
  BY <1>6 DEF SuffixMinima, Within

LEMMA HashIsNat ==
    ASSUME hashes \in Seq(Nat), NEW place \in 0 .. Len(hashes) - 1
    PROVE  HashAt(place) \in Nat
BY DEF HashAt

\* Pushing the hash at n makes the suffix minima of a range longer by one.
LEMMA PushedKeepsMinima ==
    ASSUME NEW d, NEW s \in Nat, NEW n \in Nat, s <= n,
           hashes \in Seq(Nat), n < Len(hashes),
           SuffixMinima(d, s, n)
    PROVE  SuffixMinima(Pushed(d, n, HashAt(n)), s, n + 1)
<1> DEFINE h == HashAt(n)
           k == Kept(d, h)
           p == Pushed(d, n, h)
<1>0. d \in Seq(Entry) /\ Within(d, s, n) /\ Ascending(d) /\ h \in Nat
  BY HashIsNat DEF SuffixMinima
<1>1. /\ k \in 0 .. Len(d)
      /\ k = 0 \/ d[k].hash < h
      /\ \A x \in k + 1 .. Len(d) : d[x].hash >= h
  BY <1>0, KeptExists
<1>2. /\ p \in Seq(Entry) /\ Len(p) = k + 1
      /\ \A x \in 1 .. k : p[x] = d[x]
      /\ p[k + 1] = [position |-> n, hash |-> h]
  BY <1>0, PushedIs, SMTT(30)
<1> HIDE DEF k, p
<1>3. \A x \in 1 .. Len(d) : d[x].position \in s .. n - 1 /\ d[x].hash = HashAt(d[x].position)
  BY <1>0 DEF Within
<1>4. \A x \in 1 .. Len(d) : d[x].hash \in Nat /\ d[x].position \in Nat
  BY <1>0, EntryFields
<1>5. p[k + 1].position = n /\ p[k + 1].hash = h
  BY <1>2
<1>6. ASSUME NEW x \in 1 .. k PROVE x \in 1 .. Len(d) /\ p[x] = d[x]
  BY <1>1, <1>2
<1>7. ASSUME NEW x \in 1 .. Len(p) PROVE x \in 1 .. k \/ x = k + 1
  BY <1>1, <1>2
<1>8. Within(p, s, n + 1)
  <2>1. SUFFICES ASSUME NEW x \in 1 .. Len(p)
                 PROVE  p[x].position \in s .. n /\ p[x].hash = HashAt(p[x].position)
    BY DEF Within
  <2>2. CASE x \in 1 .. k
    BY <2>2, <1>3, <1>6, SMTT(30)
  <2>3. CASE x = k + 1
    BY <2>3, <1>5
  <2>4. QED
    BY <2>2, <2>3, <1>7
<1>9. Ascending(p)
  <2>1. SUFFICES ASSUME NEW x \in 1 .. Len(p), NEW y \in 1 .. Len(p), x < y
                 PROVE  p[x].position < p[y].position
    BY DEF Ascending
  <2>2. x \in 1 .. k
    BY <2>1, <1>1, <1>2
  <2>3. CASE y \in 1 .. k
    BY <2>1, <2>2, <2>3, <1>0, <1>6 DEF Ascending
  <2>4. CASE y = k + 1
    BY <2>2, <2>4, <1>3, <1>4, <1>5, <1>6, SMTT(30)
  <2>5. QED
    BY <2>3, <2>4, <1>7
\* What was kept lies below the new hash.
<1>10. ASSUME NEW x \in 1 .. k PROVE d[x].hash < h
  <2>1. k \in 1 .. Len(d) /\ d[k].hash < h
    BY <1>1
  <2>2. x = k \/ d[x].hash < d[k].hash
    BY <2>1, <1>6, HashesRise, SMTT(30)
  <2>3. QED
    BY <2>1, <2>2, <1>4, <1>6, <1>0, SMTT(30)
<1>11. ASSUME NEW place \in s .. n PROVE Holds(p, place) <=> BelowAllAfter(place, n + 1)
  <2>1. CASE place = n
    BY <2>1, <1>1, <1>2, <1>5 DEF Holds, BelowAllAfter
  <2>2. CASE place # n
    <3>0. place \in s .. n - 1
      BY <2>2
    <3>1. ASSUME Holds(p, place) PROVE BelowAllAfter(place, n + 1)
      <4>1. PICK x \in 1 .. Len(p) : p[x].position = place
        BY <3>1 DEF Holds
      <4>2. x \in 1 .. k
        BY <4>1, <2>2, <1>5, <1>7
      <4>3. Holds(d, place) /\ d[x].position = place /\ x \in 1 .. Len(d)
        BY <4>1, <4>2, <1>6 DEF Holds
      <4>4. BelowAllAfter(place, n)
        BY <4>3, <3>0 DEF SuffixMinima
      <4>5. HashAt(place) < HashAt(n)
        BY <4>2, <4>3, <1>3, <1>10
      <4>6. \A later \in place + 1 .. n : later = n \/ later \in place + 1 .. n - 1
        BY <3>0
      <4>7. QED
        BY <4>4, <4>5, <4>6 DEF BelowAllAfter
    <3>2. ASSUME BelowAllAfter(place, n + 1) PROVE Holds(p, place)
      <4>1. BelowAllAfter(place, n) /\ HashAt(place) < h
        BY <3>0, <3>2 DEF BelowAllAfter
      <4>2. PICK x \in 1 .. Len(d) : d[x].position = place
        BY <4>1, <3>0 DEF SuffixMinima, Holds
      <4>3. d[x].hash < h
        BY <4>1, <4>2, <1>3
      <4>4. x \in 1 .. k
        BY <4>3, <1>0, <1>1, <1>4
      <4>5. x \in 1 .. Len(p) /\ p[x].position = place
        BY <4>2, <4>4, <1>1, <1>2
      <4>6. QED
        BY <4>5 DEF Holds
    <3>3. QED
      BY <3>1, <3>2
  <2>3. QED
    BY <2>1, <2>2
<1>12. ASSUME NEW place \in s .. n PROVE Covers(p, place)
  <2>0. HashAt(place) \in Nat
    BY HashIsNat, SMTT(30)
  <2>1. CASE place = n
    BY <2>1, <1>0, <1>1, <1>2, <1>5, SMTT(30) DEF Covers
  <2>2. CASE place # n
    <3>1. PICK x \in 1 .. Len(d) : d[x].position >= place /\ d[x].hash <= HashAt(place)
      BY <2>2, SMTT(30) DEF SuffixMinima, Covers
    <3>2. CASE x \in 1 .. k
      BY <3>1, <3>2, <1>1, <1>2, <1>6 DEF Covers
    <3>3. CASE x \notin 1 .. k
      <4>1. d[x].hash >= h
        BY <3>3, <1>1
      <4>2. h <= HashAt(place)
        BY <4>1, <3>1, <2>0, <1>0, <1>4
      <4>3. k + 1 \in 1 .. Len(p) /\ p[k + 1].position >= place /\ p[k + 1].hash <= HashAt(place)
        BY <4>2, <1>1, <1>2, <1>5
      <4>4. QED
        BY <4>3 DEF Covers
    <3>4. QED
      BY <3>2, <3>3
  <2>3. QED
    BY <2>1, <2>2
<1>13. QED
  BY <1>2, <1>8, <1>9, <1>11, <1>12 DEF SuffixMinima, p

-----------------------------------------------------------------------------
(* The minimum of a window *)

LEMMA WindowIs ==
    ASSUME window \in Nat \ {0}, NEW n \in Nat
    PROVE  WindowBefore(n) = Start(n) .. n - 1 /\ Start(n) \in Nat /\ Start(n) <= n
BY DEF WindowBefore, Start

\* The front of the deque is the rightmost minimum.
LEMMA FrontIsMin ==
    ASSUME window \in Nat \ {0}, hashes \in Seq(Nat),
           NEW n \in 1 .. Len(hashes), NEW d, SuffixMinima(d, Start(n), n)
    PROVE  d # << >> /\ IsRightmostMin(d[1].position, n)
<1> DEFINE s == Start(n)
<1>0. WindowBefore(n) = s .. n - 1 /\ s \in Nat /\ s <= n /\ s < n
  BY WindowIs DEF Start
<1> HIDE DEF s
<1>1. d \in Seq(Entry) /\ Within(d, s, n) /\ Ascending(d)
  BY DEF SuffixMinima, s
<1>2. \A place \in s .. n - 1 : Covers(d, place) /\ (Holds(d, place) <=> BelowAllAfter(place, n))
  BY DEF SuffixMinima, s
<1>3. 1 \in 1 .. Len(d)
  <2>1. Covers(d, n - 1)
    BY <1>0, <1>2
  <2>2. QED
    BY <2>1, <1>1 DEF Covers
<1>4. d[1].position \in s .. n - 1 /\ d[1].hash = HashAt(d[1].position)
  BY <1>1, <1>3 DEF Within
<1>5. ASSUME NEW other \in s .. n - 1, other > d[1].position
      PROVE  HashAt(d[1].position) < HashAt(other)
  <2>1. BelowAllAfter(d[1].position, n)
    BY <1>2, <1>3, <1>4 DEF Holds
  <2>2. other \in d[1].position + 1 .. n - 1
    BY <1>4, <1>5, <1>0
  <2>3. QED
    BY <2>1, <2>2 DEF BelowAllAfter
<1>6. ASSUME NEW other \in s .. n - 1 PROVE HashAt(d[1].position) <= HashAt(other)
  <2>1. PICK x \in 1 .. Len(d) : d[x].position >= other /\ d[x].hash <= HashAt(other)
    BY <1>2 DEF Covers
  <2>2. x = 1 \/ d[1].hash < d[x].hash
    BY <1>0, <1>3, HashesRise DEF s
  <2>3. d[1].hash \in Nat /\ d[x].hash \in Nat /\ HashAt(other) \in Nat
    BY <1>0, <1>1, <1>3, EntryFields, HashIsNat, SMTT(30)
  <2>4. QED
    BY <2>1, <2>2, <2>3, <1>4, SMTT(30)
<1>7. QED
  BY <1>0, <1>3, <1>4, <1>5, <1>6 DEF IsRightmostMin

\* A window has one rightmost minimum.
LEMMA RightmostIsUnique ==
    ASSUME window \in Nat \ {0}, hashes \in Seq(Nat), NEW n \in 1 .. Len(hashes),
           NEW p, IsRightmostMin(p, n), NEW q, IsRightmostMin(q, n)
    PROVE  p = q
<1>1. p \in 0 .. Len(hashes) - 1 /\ q \in 0 .. Len(hashes) - 1
  BY DEF IsRightmostMin, WindowBefore
<1>2. HashAt(p) \in Nat /\ HashAt(q) \in Nat
  BY <1>1, HashIsNat
<1>3. QED
  BY <1>1, <1>2, SMTT(30) DEF IsRightmostMin

\* As the window slides, its rightmost minimum never goes back.
LEMMA RightmostAdvances ==
    ASSUME window \in Nat \ {0}, hashes \in Seq(Nat),
           NEW n \in 1 .. Len(hashes), n + 1 <= Len(hashes),
           NEW p, IsRightmostMin(p, n), NEW q, IsRightmostMin(q, n + 1)
    PROVE  p <= q
<1>1. /\ p \in 0 .. n - 1 /\ p >= n - window
      /\ q \in 0 .. n /\ q >= n + 1 - window
  BY DEF IsRightmostMin, WindowBefore
<1>2. HashAt(p) \in Nat /\ HashAt(q) \in Nat
  BY <1>1, HashIsNat
<1>3. SUFFICES ASSUME q < p PROVE FALSE
  BY <1>1
<1>4. q \in WindowBefore(n) /\ p \in WindowBefore(n + 1)
  BY <1>1, <1>3 DEF WindowBefore
<1>5. HashAt(p) <= HashAt(q)
  BY <1>1, <1>3, <1>4 DEF IsRightmostMin
<1>6. HashAt(q) < HashAt(p)
  BY <1>1, <1>3, <1>4 DEF IsRightmostMin
<1>7. QED
  BY <1>2, <1>5, <1>6

-----------------------------------------------------------------------------
(* The invariant *)

LEMMA SelectInitInv == SelectInit => SelectInv
<1>1. SUFFICES ASSUME SelectInit PROVE SelectInv
  OBVIOUS
<1>2. hashes \in Seq(Nat) /\ window \in Nat \ {0}
  <2>0. hashes \in UNION { [1 .. n -> HashValues] : n \in 0 .. MaxHashes }
    BY <1>1 DEF SelectInit
  <2>1. PICK n \in 0 .. MaxHashes : hashes \in [1 .. n -> HashValues]
    BY <2>0
  <2>2. n \in Nat /\ HashValues \subseteq Nat
    BY WinnowingAssumption
  <2>3. hashes \in [1 .. n -> Nat]
    BY <2>1, <2>2
  <2>4. QED
    BY <2>2, <2>3, <1>1, WinnowingAssumption DEF SelectInit
<1>3. deque = << >> /\ next_pos = 0 /\ last_emitted = None /\ selected = << >>
  BY <1>1 DEF SelectInit
<1>4. SelectShape
  BY <1>2, <1>3 DEF SelectShape
<1>5. DequeOK
  BY <1>2, <1>3 DEF DequeOK
<1>6. SuffixMinima(deque, Start(next_pos), next_pos)
  <2>1. Start(next_pos) .. next_pos - 1 = {}
    BY <1>2, <1>3 DEF Start
  <2>2. deque \in Seq(Entry) /\ 1 .. Len(deque) = {}
    BY <1>3
  <2>3. QED
    BY <2>1, <2>2 DEF SuffixMinima, Within, Ascending
<1>7. SelectsRightmostMinima
  BY <1>3 DEF SelectsRightmostMinima
<1>8. LastIsCurrent
  BY <1>2, <1>3 DEF LastIsCurrent
<1>9. QED
  BY <1>4, <1>5, <1>6, <1>7, <1>8 DEF SelectInv

\* What a step leaves of the input, and says of the deque in the next state.
LEMMA NextState ==
    ASSUME UNCHANGED <<hashes, window>>, next_pos' = next_pos + 1
    PROVE  /\ SuffixMinima(deque', Start(next_pos + 1), next_pos + 1)
                => SuffixMinima(deque, Start(next_pos), next_pos)'
           /\ \A place, n : IsRightmostMin(place, n)' <=> IsRightmostMin(place, n)
           /\ \A n : WindowBefore(n)' = WindowBefore(n)
           /\ \A place : HashAt(place)' = HashAt(place)
<1>1. \A place : HashAt(place)' = HashAt(place)
  BY DEF HashAt
<1>2. \A n : WindowBefore(n)' = WindowBefore(n)
  BY DEF WindowBefore
<1>3. \A place, n : IsRightmostMin(place, n)' <=> IsRightmostMin(place, n)
  BY <1>1, <1>2 DEF IsRightmostMin
<1>4. Start(next_pos)' = Start(next_pos + 1)
  BY DEF Start
<1>5. SuffixMinima(deque', Start(next_pos + 1), next_pos + 1)
        => SuffixMinima(deque, Start(next_pos), next_pos)'
  BY <1>1, <1>4 DEF SuffixMinima, Within, Ascending, Holds, Covers, BelowAllAfter
<1>6. QED
  BY <1>1, <1>2, <1>3, <1>5

\* The deque's part of the type invariant.
LEMMA DequeTyped ==
    ASSUME SelectShape, NEW n \in Nat, NEW d, SuffixMinima(d, Start(n), n)
    PROVE  \A x \in DOMAIN d :
             d[x].position \in WindowBefore(n) /\ d[x].hash = HashAt(d[x].position)
<1>1. d \in Seq(Entry) /\ DOMAIN d = 1 .. Len(d)
  BY DEF SuffixMinima
<1>2. WindowBefore(n) = Start(n) .. n - 1
  BY WindowIs DEF SelectShape
<1>3. QED
  BY <1>1, <1>2 DEF SuffixMinima, Within

\* Before the first window is full nothing is yielded.
LEMMA StepWithoutWindow ==
    ASSUME SelectInv, UNCHANGED <<hashes, window, last_emitted, selected>>,
           next_pos' = next_pos + 1, next_pos + 1 < window, next_pos < Len(hashes),
           SuffixMinima(deque', Start(next_pos + 1), next_pos + 1)
    PROVE  SelectInv'
<1>0. SelectShape /\ DequeOK /\ SelectsRightmostMinima /\ next_pos \in Nat /\ next_pos + 1 \in 0 .. Len(hashes)
  BY DEF SelectInv, DequeOK, SelectShape
<1>1. SelectShape'
  BY <1>0 DEF SelectShape
<1>2. DequeOK'
  <2>1. \A x \in DOMAIN deque' :
          deque'[x].position \in WindowBefore(next_pos + 1) /\ deque'[x].hash = HashAt(deque'[x].position)
    BY <1>0, DequeTyped
  <2>2. \A x \in DOMAIN deque' :
          /\ deque'[x].position \in WindowBefore(next_pos)'
          /\ deque'[x].hash = HashAt(deque[x].position)'
    BY <2>1 DEF WindowBefore, HashAt
  <2>3. QED
    BY <1>0, <2>2 DEF DequeOK
<1>3. SuffixMinima(deque, Start(next_pos), next_pos)'
  BY NextState
<1>4. SelectsRightmostMinima'
  <2>1. /\ { place \in 0 .. next_pos - 1 : \E n \in window .. next_pos : IsRightmostMin(place, n) } = {}
        /\ { place \in 0 .. next_pos' - 1 : \E n \in window' .. next_pos' : IsRightmostMin(place, n)' } = {}
    BY <1>0 DEF SelectShape
  <2>2. \A x \in DOMAIN selected : HashAt(selected[x].position)' = HashAt(selected[x].position)
    BY DEF HashAt
  <2>3. QED
    BY <1>0, <2>1, <2>2 DEF SelectsRightmostMinima
<1>5. LastIsCurrent'
  BY <1>0 DEF LastIsCurrent, SelectShape
<1>6. QED
  BY <1>1, <1>2, <1>3, <1>4, <1>5 DEF SelectInv

\* With a completed window its minimum is yielded, unless it was the last time.
LEMMA StepWithWindow ==
    ASSUME SelectInv, UNCHANGED <<hashes, window>>,
           next_pos' = next_pos + 1, next_pos + 1 >= window, next_pos < Len(hashes),
           SuffixMinima(deque', Start(next_pos + 1), next_pos + 1),
           Emit(deque')
    PROVE  SelectInv'
<1> DEFINE n == next_pos + 1
           f == deque'[1]
           Minima(j) == { place \in 0 .. j - 1 : \E i \in window .. j : IsRightmostMin(place, i) }
<1>0. /\ SelectShape /\ DequeOK /\ SelectsRightmostMinima /\ LastIsCurrent
      /\ next_pos \in Nat /\ n \in 1 .. Len(hashes)
      /\ hashes \in Seq(Nat) /\ window \in Nat \ {0} /\ selected \in Seq(Entry)
  BY DEF SelectInv, DequeOK, SelectShape
<1>1. deque' # << >> /\ IsRightmostMin(f.position, n)
  BY <1>0, FrontIsMin
<1>2. f \in Entry /\ f.hash = HashAt(f.position) /\ f.position \in 0 .. n - 1
  <2>1. deque' \in Seq(Entry) /\ 1 \in 1 .. Len(deque') /\ 1 \in DOMAIN deque'
    BY <1>1 DEF SuffixMinima
  <2>2. f.position \in WindowBefore(n) /\ f.hash = HashAt(f.position)
    BY <1>0, <2>1, DequeTyped
  <2>3. QED
    BY <2>1, <2>2, EntryFields DEF WindowBefore
<1>3. Minima(n) = Minima(next_pos) \cup {f.position}
  <2>1. ASSUME NEW place \in Minima(n) PROVE place \in Minima(next_pos) \cup {f.position}
    <3>1. PICK i \in window .. n : IsRightmostMin(place, i)
      OBVIOUS
    <3>2. CASE i = n
      BY <3>1, <3>2, <1>0, <1>1, RightmostIsUnique
    <3>3. CASE i # n
      <4>1. i \in window .. next_pos /\ place \in 0 .. i - 1
        BY <3>1, <3>3, <1>0 DEF IsRightmostMin, WindowBefore
      <4>2. QED
        BY <4>1, <3>1, <1>0, SMTT(30)
    <3>4. QED
      BY <3>2, <3>3
  <2>2. ASSUME NEW place \in Minima(next_pos) PROVE place \in Minima(n)
    <3>1. place \in 0 .. n - 1 /\ window .. next_pos \subseteq window .. n
      BY <1>0
    <3>2. QED
      BY <3>1
  <2>3. f.position \in Minima(n)
    BY <1>0, <1>1, <1>2
  <2>4. QED
    BY <2>1, <2>2, <2>3
\* The new minimum is the last one yielded, or lies behind all that were.
<1>4. ASSUME NEW x \in 1 .. Len(selected)
      PROVE  /\ next_pos >= window
             /\ selected[x].position <= last_emitted
             /\ last_emitted <= f.position
  <2>1. selected[x].position \in Minima(next_pos)
    <3>1. { selected[y].position : y \in DOMAIN selected } = Minima(next_pos)
      BY <1>0 DEF SelectsRightmostMinima
    <3>2. x \in DOMAIN selected
      BY <1>0
    <3>3. QED
      BY <3>1, <3>2
  <2>2. next_pos >= window /\ next_pos \in 1 .. Len(hashes)
    <3>1. PICK i \in window .. next_pos : IsRightmostMin(selected[x].position, i)
      BY <2>1
    <3>2. i \in window .. next_pos /\ window \in Nat \ {0} /\ next_pos \in Nat
      BY <1>0
    <3>3. Len(hashes) \in Nat /\ next_pos + 1 <= Len(hashes)
      BY <1>0
    <3>4. QED
      BY <3>2, <3>3
  <2>3. IsRightmostMin(last_emitted, next_pos)
    BY <2>2, <1>0 DEF LastIsCurrent
  <2>4. last_emitted <= f.position
    BY <2>2, <2>3, <1>0, <1>1, RightmostAdvances
  <2>5. last_emitted = selected[Len(selected)].position /\ Len(selected) \in 1 .. Len(selected)
    BY <1>0 DEF DequeOK
  <2>6. selected[x].position <= last_emitted
    <3>1. x = Len(selected) \/ selected[x].position < selected[Len(selected)].position
      BY <2>5, <1>0 DEF SelectsRightmostMinima
    <3>2. selected[x].position \in Nat /\ selected[Len(selected)].position \in Nat
      BY <2>5, <1>0, EntryFields
    <3>3. QED
      BY <3>1, <3>2, <2>5
  <2>7. QED
    BY <2>2, <2>4, <2>6
<1> HIDE DEF f, Minima
<1>5. /\ SelectShape'
      /\ last_emitted' = f.position
      /\ selected' # << >> /\ selected'[Len(selected')].position = f.position
      /\ { selected'[x].position : x \in DOMAIN selected' } = Minima(n)
      /\ \A x, y \in DOMAIN selected' : x < y => selected'[x].position < selected'[y].position
      /\ \A x \in DOMAIN selected' : selected'[x].hash = HashAt(selected'[x].position)
  <2>0. /\ { selected[x].position : x \in DOMAIN selected } = Minima(next_pos)
        /\ \A x, y \in DOMAIN selected : x < y => selected[x].position < selected[y].position
        /\ \A x \in DOMAIN selected : selected[x].hash = HashAt(selected[x].position)
    BY <1>0 DEF SelectsRightmostMinima, Minima
  <2>1. CASE f.position = last_emitted
    <3>1. last_emitted' = last_emitted /\ selected' = selected
      BY <2>1 DEF Emit, f
    <3>2. selected # << >>
      BY <2>1, <1>0, <1>2 DEF DequeOK, None
    <3>3. last_emitted = selected[Len(selected)].position /\ Len(selected) \in DOMAIN selected
      BY <3>2, <1>0 DEF DequeOK
    <3>4. f.position \in Minima(next_pos)
      BY <2>0, <2>1, <3>3
    <3>5. Minima(n) = Minima(next_pos)
      BY <3>4, <1>3
    <3>6. QED
      BY <3>1, <3>2, <3>3, <3>5, <2>0, <2>1, <1>0 DEF SelectShape
  <2>2. CASE f.position # last_emitted
    <3>1. last_emitted' = f.position /\ selected' = Append(selected, f)
      BY <2>2 DEF Emit, f
    <3>2. /\ selected' \in Seq(Entry) /\ Len(selected') = Len(selected) + 1
          /\ DOMAIN selected' = 1 .. Len(selected) + 1
          /\ \A x \in 1 .. Len(selected) : selected'[x] = selected[x]
          /\ selected'[Len(selected) + 1] = f
      BY <3>1, <1>0, <1>2
    <3>3. DOMAIN selected = 1 .. Len(selected) /\ Len(selected) \in Nat
      BY <1>0
    <3>4. ASSUME NEW x \in 1 .. Len(selected) PROVE selected[x].position < f.position
      <4>1. selected[x].position \in Nat /\ last_emitted \in 0 .. Len(hashes) /\ f.position \in Nat
        <5>1. IsRightmostMin(last_emitted, next_pos)
          BY <1>0, <1>4 DEF LastIsCurrent
        <5>2. last_emitted \in 0 .. next_pos - 1
          BY <5>1 DEF IsRightmostMin, WindowBefore
        <5>3. QED
          BY <5>2, <1>0, <1>2, EntryFields
      <4>2. QED
        BY <4>1, <1>4, <2>2
    <3>5. { selected'[x].position : x \in DOMAIN selected' } = Minima(next_pos) \cup {f.position}
      BY <3>2, <3>3, <2>0
    <3>6. ASSUME NEW x \in DOMAIN selected', NEW y \in DOMAIN selected', x < y
          PROVE  selected'[x].position < selected'[y].position
      <4>1. x \in 1 .. Len(selected)
        BY <3>2, <3>3, <3>6
      <4>2. CASE y \in 1 .. Len(selected)
        BY <4>1, <4>2, <3>2, <3>3, <3>6, <2>0
      <4>3. CASE y = Len(selected) + 1
        BY <4>1, <4>3, <3>2, <3>4
      <4>4. QED
        BY <4>2, <4>3, <3>2, <3>3
    <3>7. \A x \in DOMAIN selected' : selected'[x].hash = HashAt(selected'[x].position)
      BY <3>2, <3>3, <2>0, <1>2
    <3>8. selected' # << >> /\ selected'[Len(selected')].position = f.position
      BY <3>2, <3>3
    <3>9. SelectShape'
      BY <3>2, <1>0 DEF SelectShape
    <3>10. QED
      BY <3>1, <3>5, <3>6, <3>7, <3>8, <3>9, <1>3
  <2>3. QED
    BY <2>1, <2>2
<1>6. DequeOK'
  <2>1. \A x \in DOMAIN deque' :
          deque'[x].position \in WindowBefore(n) /\ deque'[x].hash = HashAt(deque'[x].position)
    BY <1>0, DequeTyped
  <2>2. \A x \in DOMAIN deque' :
          /\ deque'[x].position \in WindowBefore(next_pos)'
          /\ deque'[x].hash = HashAt(deque[x].position)'
    BY <2>1 DEF WindowBefore, HashAt
  <2>3. QED
    BY <1>0, <1>5, <2>2 DEF DequeOK
<1>7. SuffixMinima(deque, Start(next_pos), next_pos)'
  BY NextState
<1>8. SelectsRightmostMinima'
  <2>1. Minima(n) = { place \in 0 .. next_pos' - 1 :
                        \E i \in window' .. next_pos' : IsRightmostMin(place, i)' }
    BY NextState DEF Minima
  <2>2. \A x \in DOMAIN selected' : selected'[x].hash = HashAt(selected[x].position)'
    BY <1>5 DEF HashAt
  <2>3. QED
    BY <1>5, <2>1, <2>2 DEF SelectsRightmostMinima
<1>9. LastIsCurrent'
  BY <1>1, <1>5, NextState DEF LastIsCurrent, f
<1>10. QED
  BY <1>5, <1>6, <1>7, <1>8, <1>9 DEF SelectInv

LEMMA StepFill == SelectInv /\ Fill => SelectInv'
<1>1. SUFFICES ASSUME SelectInv, Fill PROVE SelectInv'
  OBVIOUS
<1>2. /\ hashes \in Seq(Nat) /\ window \in Nat \ {0} /\ next_pos \in Nat
      /\ next_pos < window /\ next_pos < Len(hashes)
      /\ UNCHANGED <<hashes, window>> /\ next_pos' = next_pos + 1
      /\ deque' = Pushed(deque, next_pos, HashAt(next_pos))
  BY <1>1 DEF SelectInv, SelectShape, DequeOK, Fill
<1>3. Start(next_pos) = 0 /\ Start(next_pos + 1) = 0
  BY <1>2 DEF Start
<1>4. SuffixMinima(deque, 0, next_pos)
  <2>1. SuffixMinima(deque, Start(next_pos), next_pos)
    BY <1>1 DEF SelectInv
  <2>2. QED
    BY <2>1, <1>3, Zenon
<1>5. SuffixMinima(deque', Start(next_pos + 1), next_pos + 1)
  <2>1. SuffixMinima(Pushed(deque, next_pos, HashAt(next_pos)), 0, next_pos + 1)
    BY <1>2, <1>4, PushedKeepsMinima, SMTT(30)
  <2>2. QED
    BY <2>1, <1>2, <1>3, Zenon
<1>6. CASE next_pos' = window
  <2>1. Emit(deque')
    BY <1>1, <1>6 DEF Fill
  <2>2. QED
    BY <2>1, <1>1, <1>2, <1>5, <1>6, StepWithWindow
<1>7. CASE next_pos' # window
  <2>1. UNCHANGED <<last_emitted, selected>>
    BY <1>1, <1>7 DEF Fill
  <2>2. next_pos + 1 < window
    BY <1>2, <1>7
  <2>3. QED
    BY <2>1, <2>2, <1>1, <1>2, <1>5, StepWithoutWindow
<1>8. QED
  BY <1>6, <1>7

LEMMA StepSlide == SelectInv /\ Slide => SelectInv'
<1>1. SUFFICES ASSUME SelectInv, Slide PROVE SelectInv'
  OBVIOUS
<1> DEFINE t == next_pos + 1 - window
<1>2. /\ hashes \in Seq(Nat) /\ window \in Nat \ {0} /\ next_pos \in Nat
      /\ next_pos >= window /\ next_pos < Len(hashes)
      /\ UNCHANGED <<hashes, window>> /\ next_pos' = next_pos + 1
      /\ deque' = Pushed(Unexpired(deque, t), next_pos, HashAt(next_pos))
      /\ Emit(deque')
  BY <1>1 DEF SelectInv, SelectShape, DequeOK, Slide
<1>3. /\ Start(next_pos) \in Nat /\ t \in Nat /\ Start(next_pos) <= t /\ t <= next_pos
      /\ Start(next_pos + 1) = t
  BY <1>2 DEF Start
<1>4. SuffixMinima(deque, Start(next_pos), next_pos)
  BY <1>1 DEF SelectInv
<1> HIDE DEF t
<1>5. SuffixMinima(Unexpired(deque, t), t, next_pos)
  BY <1>2, <1>3, <1>4, UnexpiredKeepsMinima
<1>6. SuffixMinima(deque', Start(next_pos + 1), next_pos + 1)
  BY <1>2, <1>3, <1>5, PushedKeepsMinima
<1>7. QED
  BY <1>1, <1>2, <1>6, StepWithWindow

LEMMA SelectStutter == SelectInv /\ UNCHANGED selectVars => SelectInv'
<1>1. SUFFICES ASSUME SelectInv, UNCHANGED selectVars PROVE SelectInv'
  OBVIOUS
<1>2. \A place : HashAt(place)' = HashAt(place)
  BY <1>1 DEF HashAt, selectVars
<1>3. \A n : WindowBefore(n)' = WindowBefore(n) /\ Start(n)' = Start(n)
  BY <1>1 DEF WindowBefore, Start, selectVars
<1>4. \A place, n : IsRightmostMin(place, n)' <=> IsRightmostMin(place, n)
  BY <1>2, <1>3 DEF IsRightmostMin
<1>5. SelectShape' /\ DequeOK'
  BY <1>1, <1>2, <1>3 DEF SelectInv, SelectShape, DequeOK, selectVars
<1>6. SuffixMinima(deque, Start(next_pos), next_pos)'
  BY <1>1, <1>2, <1>3
     DEF SelectInv, SuffixMinima, Within, Ascending, Holds, Covers, BelowAllAfter, Start, selectVars
<1>7. SelectsRightmostMinima'
  BY <1>1, <1>2, <1>4 DEF SelectInv, SelectsRightmostMinima, selectVars
<1>8. LastIsCurrent'
  BY <1>1, <1>4 DEF SelectInv, LastIsCurrent, selectVars
<1>9. QED
  BY <1>5, <1>6, <1>7, <1>8 DEF SelectInv

\* The strengthened invariant of the whole iterator.
THEOREM SelectInvariance == SelectSpec => []SelectInv
<1>1. SelectInv /\ [SelectNext]_selectVars => SelectInv'
  BY StepFill, StepSlide, SelectStutter DEF SelectNext
<1>2. QED
  BY SelectInitInv, <1>1, PTL DEF SelectSpec

\* The deque holds positions of the current window with their hashes.
THEOREM DequeTypeCorrect == SelectSpec => []DequeOK
<1>1. SelectInv => DequeOK
  BY DEF SelectInv
<1>2. QED
  BY SelectInvariance, <1>1, PTL

\* The deque is, at every moment, the suffix minima of the current window.
THEOREM DequeCorrect == SelectSpec => []DequeIsSuffixMinima
<1>1. SelectInv => DequeIsSuffixMinima
  <2>1. SUFFICES ASSUME SelectInv PROVE DequeIsSuffixMinima
    OBVIOUS
  <2>2. next_pos \in Nat /\ DequeOK /\ SuffixMinima(deque, Start(next_pos), next_pos)
    BY <2>1 DEF SelectInv, DequeOK
  <2>3. WindowBefore(next_pos) = Start(next_pos) .. next_pos - 1
    BY <2>1, <2>2, WindowIs DEF SelectInv, SelectShape
  <2>4. DOMAIN deque = 1 .. Len(deque)
    BY <2>2 DEF SuffixMinima
  <2>5. QED
    BY <2>2, <2>3, <2>4
       DEF DequeIsSuffixMinima, SuffixMinima, Holds, BelowAllAfter, Ascending
<1>2. QED
  BY SelectInvariance, <1>1, PTL

\* What select yields is the rightmost minimum of every completed window, each
\* once and in stream order.
THEOREM SelectionCorrect == SelectSpec => []SelectsRightmostMinima
<1>1. SelectInv => SelectsRightmostMinima
  BY DEF SelectInv
<1>2. QED
  BY SelectInvariance, <1>1, PTL
=============================================================================
