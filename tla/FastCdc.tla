------------------------------ MODULE FastCdc ------------------------------
(***************************************************************************)
(* Content-defined chunking: FastCdcStream, which is fed a byte at a time, *)
(* and FastCdcIter, which searches a whole slice two bytes at a time, of   *)
(* stringcheese-cdc/src/cdc/fastcdc.rs.                                    *)
(*                                                                         *)
(* A caller feeds a stream and finishes it; an iterator then goes over the *)
(* same bytes; and the stream, which finish leaves usable, may be fed      *)
(* again.  Hashes have Width bits, as the code's have 64; a mask is the    *)
(* set of its bits.  A boundary is [offset, size].                         *)
(***************************************************************************)
EXTENDS Integers, Sequences, PowersOfTwo

CONSTANTS
    Byte,
    Width,             \* the bits of a hash
    GEAR_TABLE,        \* the random number of each byte
    Configs,           \* the FastCdcConfigs in use
    MaxTotal           \* bound on the bytes fed to the stream

Modulus == TwoTo[Width]
Bits    == 0 .. Width - 1
Hashes  == 0 .. Modulus - 1

\* FastCdcConfig::is_valid, which both constructors assert.
IsValid(c) == 0 < c.min_size /\ c.min_size <= c.avg_size /\ c.avg_size <= c.max_size

ASSUME FastCdcAssumption ==
    /\ Width \in Nat \ {0}
    /\ GEAR_TABLE \in [Byte -> Hashes]
    /\ Configs \subseteq [min_size : Nat, avg_size : Nat, max_size : Nat,
                          mask_small : SUBSET Bits, mask_large : SUBSET Bits]
    /\ \A c \in Configs : IsValid(c)
    /\ MaxTotal \in Nat

VARIABLES
    config,
    hash,              \* FastCdcStream.hash
    bytes_in_chunk,    \* FastCdcStream.bytes_in_chunk
    total_bytes,       \* FastCdcStream.total_bytes
    pos,               \* FastCdcIter.pos
    finished,          \* finish was called: the iterator may run
    input,             \* history: the bytes fed since the stream was last
                       \* finished, which are the slice of the iterator
    start,             \* history: total_bytes when the first of them was fed
    emitted,           \* history: the boundaries the stream emitted for them
    yielded            \* history: the boundaries the iterator yielded for them

stream_vars == <<config, hash, bytes_in_chunk, total_bytes>>
vars == <<stream_vars, pos, finished, input, start, emitted, yielded>>

Init ==
    /\ config \in Configs
    /\ hash = 0 /\ bytes_in_chunk = 0 /\ total_bytes = 0
    /\ pos = 0 /\ finished = FALSE
    /\ input = << >> /\ start = 0 /\ emitted = << >> /\ yielded = << >>

\* (h & mask) == 0
Clear(h, mask) == \A bit \in mask : (h \div TwoTo[bit]) % 2 = 0

\* mask << 1, and a value << 1: the top bit is lost.
ShiftMask(mask) == { bit + 1 : bit \in mask } \cap Bits
ShiftLeft(h)    == (2 * h) % Modulus
GEAR_TABLE_LS1  == [b \in Byte |-> ShiftLeft(GEAR_TABLE[b])]

\* The gear hash after byte b.
Rolled(h, b) == (ShiftLeft(h) + GEAR_TABLE[b]) % Modulus

-----------------------------------------------------------------------------
(* FastCdcStream *)

\* Mutant: the hash is carried into the next chunk.
EmitCutKeepsHash(size, end) ==
    /\ emitted' = Append(emitted, [offset |-> end, size |-> size])
    /\ bytes_in_chunk' = 0
    /\ UNCHANGED hash

\* emit_cut, of a chunk of this size that ends at this offset.
EmitCut(size, end) ==
    /\ emitted' = Append(emitted, [offset |-> end, size |-> size])
    /\ bytes_in_chunk' = 0
    /\ hash' = 0

\* Mutant: the strict mask is dropped a byte early.
CutsLooseEarly(h, size) ==
    \/ size >= config.max_size
    \/ Clear(h, IF size < config.avg_size THEN config.mask_small ELSE config.mask_large)

\* Whether a chunk of this size and hash is cut.
Cuts(h, size) ==
    \/ size >= config.max_size
    \/ Clear(h, IF size <= config.avg_size THEN config.mask_small ELSE config.mask_large)

\* feed: the bytes before the min_size-th of a chunk are not hashed.
Feed(b) ==
    LET size == bytes_in_chunk + 1
        h    == Rolled(hash, b)
    IN
      /\ ~finished /\ total_bytes < MaxTotal
      /\ total_bytes' = total_bytes + 1
      /\ input' = Append(input, b)
      /\ IF size >= config.min_size /\ Cuts(h, size)
         THEN EmitCut(size, total_bytes')
         ELSE /\ bytes_in_chunk' = size
              /\ hash' = IF size < config.min_size THEN hash ELSE h
              /\ UNCHANGED emitted
      /\ UNCHANGED <<config, pos, finished, start, yielded>>

\* Mutant: the last chunk is emitted and stays in the stream.
FinishKeepsRemainder ==
    /\ ~finished
    /\ finished' = TRUE
    /\ IF bytes_in_chunk > 0
       THEN /\ emitted' = Append(emitted, [offset |-> total_bytes, size |-> bytes_in_chunk])
            /\ UNCHANGED <<hash, bytes_in_chunk>>
       ELSE UNCHANGED <<hash, bytes_in_chunk, emitted>>
    /\ UNCHANGED <<config, total_bytes, pos, input, start, yielded>>

\* finish: what is left is a last chunk, of any size.
Finish ==
    /\ ~finished
    /\ finished' = TRUE
    /\ IF bytes_in_chunk > 0
       THEN EmitCut(bytes_in_chunk, total_bytes)
       ELSE UNCHANGED <<hash, bytes_in_chunk, emitted>>
    /\ UNCHANGED <<config, total_bytes, pos, input, start, yielded>>

-----------------------------------------------------------------------------
(* FastCdcIter *)

\* The loop variables of a search: an index (from 0) and the hash so far.
Positions(end) == [i : 0 .. end, hash : Hashes]

\* The search of one region of source, from a position up to end, byte by byte:
\* the cut it finds, or 0, and the position it stops at.
SearchBytes(source, mask, from, end) ==
    LET search[p \in Positions(end)] ==
            IF p.i = end THEN [cut |-> 0, stop |-> p]
            ELSE LET next == Rolled(p.hash, source[p.i + 1]) IN
                   IF Clear(next, mask)
                   THEN [cut |-> p.i + 1, stop |-> [i |-> p.i, hash |-> next]]
                   ELSE search[[i |-> p.i + 1, hash |-> next]]
    IN  search[from]

\* The same, two bytes at a time: the first byte of a pair is tested on a hash
\* and a mask that are both shifted, and an odd last byte on its own.
SearchPairs(source, mask, from, end) ==
    LET search[p \in Positions(end)] ==
            IF p.i + 1 >= end THEN SearchBytes(source, mask, p, end)
            ELSE LET shifted == (4 * p.hash + GEAR_TABLE_LS1[source[p.i + 1]]) % Modulus
                     next    == (shifted + GEAR_TABLE[source[p.i + 2]]) % Modulus
                 IN  IF Clear(shifted, ShiftMask(mask)) THEN [cut |-> p.i + 1, stop |-> p]
                     ELSE IF Clear(next, mask)
                     THEN [cut |-> p.i + 2, stop |-> [i |-> p.i, hash |-> next]]
                     ELSE search[[i |-> p.i + 2, hash |-> next]]
    IN  search[from]

Smaller(x, y) == IF x <= y THEN x ELSE y

\* Mutant: pairs whatever the masks.
NextCutAlwaysPairs(source) ==
    LET n      == Len(source)
        cap    == Smaller(n, config.max_size)
        center == Smaller(cap, config.avg_size)
        from   == [i |-> config.min_size - 1, hash |-> 0]
        strict == SearchPairs(source, config.mask_small, from, center)
        loose  == SearchPairs(source, config.mask_large, strict.stop, cap)
    IN  IF n < config.min_size THEN n
        ELSE IF strict.cut # 0 THEN strict.cut
        ELSE IF loose.cut # 0 THEN loose.cut ELSE cap

\* next_cut, and next_cut_scalar for a mask with the top bit: the strict mask up
\* to avg_size, the loose one up to max_size or the end of the slice.
NextCut(source) ==
    LET n      == Len(source)
        cap    == Smaller(n, config.max_size)
        center == Smaller(cap, config.avg_size)
        Search(mask, from, end) ==
            IF Width - 1 \in config.mask_small \cup config.mask_large
            THEN SearchBytes(source, mask, from, end)
            ELSE SearchPairs(source, mask, from, end)
        strict == Search(config.mask_small, [i |-> config.min_size - 1, hash |-> 0], center)
        loose  == Search(config.mask_large, strict.stop, cap)
    IN  IF n < config.min_size THEN n
        ELSE IF strict.cut # 0 THEN strict.cut
        ELSE IF loose.cut # 0 THEN loose.cut ELSE cap

\* next: the cut of what is left of the slice.
IterNext ==
    /\ finished /\ pos < Len(input)
    /\ pos' = pos + NextCut(SubSeq(input, pos + 1, Len(input)))
    /\ yielded' = Append(yielded, [offset |-> pos', size |-> pos' - pos])
    /\ UNCHANGED <<stream_vars, finished, input, start, emitted>>

\* The caller feeds the finished stream anew, and iterates over what follows.
Resume ==
    /\ finished /\ pos = Len(input)
    /\ finished' = FALSE /\ pos' = 0
    /\ input' = << >> /\ start' = total_bytes
    /\ emitted' = << >> /\ yielded' = << >>
    /\ UNCHANGED stream_vars

Next == (\E b \in Byte : Feed(b)) \/ Finish \/ IterNext \/ Resume
Spec == Init /\ [][Next]_vars

-----------------------------------------------------------------------------
(* Properties *)

\* The bytes from offset x up to offset y of all that was fed.
Bytes(x, y) == SubSeq(input, x - start + 1, y - start)

\* The gear hash of a chunk as a sum: its first min_size - 1 bytes do not count,
\* and each later one has moved up a bit for every byte after it.
HashOf(chunk) ==
    LET sum[n \in 0 .. Len(chunk)] ==
            IF n < config.min_size THEN 0
            ELSE sum[n - 1] + TwoTo[Len(chunk) - n] * GEAR_TABLE[chunk[n]]
    IN  sum[Len(chunk)] % Modulus

\* The documented cut condition, on a chunk's bytes alone.
IsCut(chunk) ==
    /\ Len(chunk) >= config.min_size
    /\ \/ Len(chunk) = config.max_size
       \/ Len(chunk) <= config.avg_size /\ Clear(HashOf(chunk), config.mask_small)
       \/ Len(chunk) > config.avg_size /\ Clear(HashOf(chunk), config.mask_large)

\* No chunk is open with max_size bytes, nor after finish.
TypeOK ==
    /\ config \in Configs
    /\ hash \in Hashes
    /\ bytes_in_chunk \in 0 .. config.max_size - 1
    /\ finished => bytes_in_chunk = 0
    /\ start \in Nat /\ total_bytes = start + Len(input)

\* The rolled hash is the hash of the open chunk: no byte of an earlier chunk,
\* and none before the min_size-th, has left a trace in it.
HashIsOfChunk ==
    hash = HashOf(Bytes(total_bytes - bytes_in_chunk, total_bytes))

\* The chunks emitted and the open one lie end to end over the bytes fed, and
\* all but a chunk that finish cut short have between min_size and max_size.
ChunksTile ==
    /\ TypeOK
    /\ \A n \in DOMAIN emitted :
         /\ emitted[n].offset - emitted[n].size
              = IF n = 1 THEN start ELSE emitted[n - 1].offset
         /\ emitted[n].size \in 1 .. config.max_size
         /\ n < Len(emitted) \/ ~finished => emitted[n].size >= config.min_size
    /\ total_bytes - bytes_in_chunk
         = IF emitted = << >> THEN start ELSE emitted[Len(emitted)].offset

\* A chunk ends where its own bytes first meet the cut condition, wherever it
\* lies in the stream; only finish ends one earlier.
CutsAreFirst ==
    \A n \in DOMAIN emitted :
      LET end   == emitted[n].offset
          begin == end - emitted[n].size
      IN  /\ \A x \in begin + 1 .. end - 1 : ~IsCut(Bytes(begin, x))
          /\ IsCut(Bytes(begin, end)) \/ (finished /\ n = Len(emitted))

\* The batch search yields what the stream emitted for the same bytes, however
\* they were split, with masks that use the top bit and with those that do not.
IterFollowsStream ==
    /\ pos \in 0 .. Len(input)
    /\ finished =>
      /\ Len(yielded) <= Len(emitted)
      /\ \A n \in DOMAIN yielded :
           yielded[n] = [emitted[n] EXCEPT !.offset = @ - start]
      /\ pos = Len(input) => Len(yielded) = Len(emitted)
=============================================================================
