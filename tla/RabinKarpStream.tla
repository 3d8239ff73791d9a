--------------------------- MODULE RabinKarpStream ---------------------------
(***************************************************************************)
(* Rabin-Karp as a stream: the rolling hash and the ring buffer of         *)
(* RabinKarpStream (search/stream.rs) over the tables RabinKarp::prepare   *)
(* builds (search/rabin_karp.rs).  Bytes are numbers here because the hash *)
(* computes with them.  The code's modulus 2^61 - 1 and base 257 are the   *)
(* constants Modulus and Base, small enough in the runs for windows to     *)
(* collide, which the code's own values make too rare to test.             *)
(*                                                                         *)
(* A call of `feed` has no loop but the verification, and is one step.     *)
(* The ring keeps the code's indices, from 0.                              *)
(***************************************************************************)
EXTENDS Integers, Sequences

CONSTANTS
    Byte,              \* the alphabet, a set of numbers
    Patterns,          \* the patterns that may be prepared
    Base, Modulus,     \* of the polynomial hash
    MaxFed             \* bound on the bytes fed to the stream

\* As in the code: a byte is below the base, and adding one to a reduced value
\* needs at most one subtraction of the modulus.
RabinKarpAssumption ==
    /\ Base \in Nat /\ Modulus \in Nat \ {0} /\ MaxFed \in Nat
    /\ \A b \in Byte : b \in Nat /\ b < Base /\ b < Modulus
    /\ 0 \in Byte
    /\ Patterns \subseteq Seq(Byte)

VARIABLES
    pattern,           \* RabinKarpPrepared.pattern
    hash,              \* RabinKarpStream.hash
    window,            \* RabinKarpStream.window
    write_pos,         \* RabinKarpStream.write_pos
    bytes_fed,         \* RabinKarpStream.bytes_fed
    initial,           \* RabinKarpStream.initial
    fed,               \* history: the bytes fed
    answers,           \* history: what feed returned for each of them
    empties            \* history: the empty-pattern matches reported

vars == <<pattern, hash, window, write_pos, bytes_fed, initial,
          fed, answers, empties>>

m == Len(pattern)

-----------------------------------------------------------------------------
(* Arithmetic and the prepared tables *)

mul_mod(a, b) == (a * b) % Modulus

reduce_mod(x) == IF x >= Modulus THEN x - Modulus ELSE x

\* One round of the hash loops of prepare and of the filling stream.
Absorb(h, b) == reduce_mod(mul_mod(h, Base) + b)

\* The hash of a text, byte by byte from 0.
HashOf(text) ==
    LET h[n \in 0 .. Len(text)] == IF n = 0 THEN 0 ELSE Absorb(h[n - 1], text[n])
    IN  h[Len(text)]

pattern_hash == HashOf(pattern)

\* By squarings, over the loop's exponent, base and result: the exponent's bits
\* choose the powers to multiply.
pow_mod(base, exponent) ==
    LET power[s \in (0 .. exponent) \X Nat \X Nat] ==
            IF s[1] = 0 THEN s[3]
            ELSE power[<<s[1] \div 2, mul_mod(s[2], s[2]),
                         IF s[1] % 2 = 1 THEN mul_mod(s[3], s[2]) ELSE s[3]>>]
    IN  power[<<exponent, base % Modulus, 1>>]

leading_factor == IF m = 0 THEN 0 ELSE pow_mod(Base, m - 1)

\* A window's hash without its leaving byte.
Without(h, leaving) == reduce_mod(h + Modulus - mul_mod(leaving, leading_factor))

-----------------------------------------------------------------------------
Init ==
    /\ pattern \in Patterns
    /\ hash = 0
    /\ window = [n \in 0 .. m - 1 |-> 0]
    /\ write_pos = 0 /\ bytes_fed = 0 /\ initial = TRUE
    /\ fed = << >> /\ answers = << >> /\ empties = {}

\* The prologue of feed_slice.
FeedSlice ==
    /\ initial' = FALSE
    /\ empties' = IF initial /\ m = 0 THEN empties \cup {<<0, 0>>} ELSE empties
    /\ UNCHANGED <<pattern, hash, window, write_pos, bytes_fed, fed, answers>>

\* Mutant: the window is read from the start of the ring.
MatchesFromZero(ring, oldest) == \A n \in 0 .. m - 1 : ring[n] = pattern[n + 1]

\* window_matches: the ring, read from its oldest byte, is the pattern.
window_matches(ring, oldest) ==
    \A n \in 0 .. m - 1 : ring[(oldest + n) % m] = pattern[n + 1]

\* Mutant: the byte goes to the slot after the oldest.
WriteAhead(b) ==
    /\ write_pos' = (write_pos + 1) % m
    /\ window' = [window EXCEPT ![write_pos'] = b]

\* The oldest byte's slot takes the new one.
WriteByte(b) ==
    /\ window' = [window EXCEPT ![write_pos] = b]
    /\ write_pos' = (write_pos + 1) % m

\* Mutant: equal hashes are taken for equal windows.
UnverifiedAnswer(position) ==
    IF hash' = pattern_hash THEN {<<position, 0>>} ELSE {}

\* Equal hashes are verified against the bytes before a match is reported.
Answer(position) ==
    IF hash' = pattern_hash /\ window_matches(window', write_pos')
    THEN {<<position, 0>>} ELSE {}

Fed(b) ==
    /\ bytes_fed < MaxFed
    /\ bytes_fed' = bytes_fed + 1
    /\ fed' = Append(fed, b)
    /\ UNCHANGED <<pattern, initial, empties>>

\* feed on an empty pattern: no byte is ever a match.
FeedEmpty(b) ==
    /\ m = 0
    /\ Fed(b)
    /\ answers' = Append(answers, {})
    /\ UNCHANGED <<hash, window, write_pos>>

\* feed while the window is not full: bytes_fed <= m, counting this byte.
Fill(b) ==
    /\ m > 0 /\ bytes_fed' <= m
    /\ hash' = Absorb(hash, b)
    /\ WriteByte(b)
    /\ answers' = Append(answers, IF bytes_fed' = m THEN Answer(0) ELSE {})

\* Mutant: the entering byte's contribution is what is subtracted.
RollEntering(b) ==
    /\ m > 0 /\ bytes_fed' > m
    /\ hash' = Absorb(Without(hash, b), b)
    /\ WriteByte(b)
    /\ answers' = Append(answers, Answer(bytes_fed' - m))

\* feed on a full window: the oldest byte leaves the hash, the new one enters.
Roll(b) ==
    /\ m > 0 /\ bytes_fed' > m
    /\ hash' = Absorb(Without(hash, window[write_pos]), b)
    /\ WriteByte(b)
    /\ answers' = Append(answers, Answer(bytes_fed' - m))

Feed(b) == FeedEmpty(b) \/ (Fed(b) /\ Fill(b)) \/ (Fed(b) /\ Roll(b))

Next == FeedSlice \/ \E b \in Byte : Feed(b)

Spec == Init /\ [][Next]_vars

-----------------------------------------------------------------------------
(* The batch search of rabin_karp.rs *)

\* Mutant: the last window is not looked at.
WindowsButLast(haystack) == 0 .. Len(haystack) - m - 1

\* The positions of the haystack's windows.
Windows(haystack) == 0 .. Len(haystack) - m

\* find_all: the windows whose rolled hash and whose bytes are the pattern's.
FindAll(haystack) ==
    LET rolled[n \in Windows(haystack)] ==
            IF n = 0 THEN HashOf(SubSeq(haystack, 1, m))
            ELSE Absorb(Without(rolled[n - 1], haystack[n]), haystack[n + m])
    IN  IF m = 0 THEN {0}
        ELSE { n \in Windows(haystack) :
                 rolled[n] = pattern_hash /\ SubSeq(haystack, n + 1, n + m) = pattern }

-----------------------------------------------------------------------------
(* Properties *)

\* The last n bytes fed.
LastFed(n) == SubSeq(fed, Len(fed) - n + 1, Len(fed))

\* The hash stays reduced and the ring index in the ring, as the one-subtraction
\* reductions and the indexing need.
TypeOK ==
    /\ pattern \in Patterns
    /\ hash \in 0 .. Modulus - 1
    /\ window \in [0 .. m - 1 -> Byte]
    /\ IF m = 0 THEN write_pos = 0 ELSE write_pos \in 0 .. m - 1
    /\ bytes_fed \in 0 .. MaxFed /\ bytes_fed = Len(fed)
    /\ initial \in BOOLEAN
    /\ Len(answers) = Len(fed)

\* Rolling is hashing anew: after any number of bytes the hash is that of the
\* last m bytes (of all of them, while there are fewer), and a full ring, read
\* from write_pos, is those bytes in the order fed.  Without this a match is
\* silently missed.
WindowIsLastBytes ==
    /\ TypeOK
    /\ m > 0 => hash = HashOf(LastFed(IF Len(fed) < m THEN Len(fed) ELSE m))
    /\ m > 0 /\ Len(fed) >= m =>
         \A n \in 0 .. m - 1 : window[(write_pos + n) % m] = LastFed(m)[n + 1]

\* Collisions change nothing: the stream reports the occurrences of its pattern
\* and only them, each at its last byte, and the empty pattern once.
Occurrences ==
    INSTANCE OccurrenceStream WITH patterns <- <<pattern>>

ImplementsOccurrences == Occurrences!Spec
=============================================================================
