----------------------------- MODULE Winnowing -----------------------------
(***************************************************************************)
(* Winnower::select (stringcheese-winnowing/src/lib.rs): one fingerprint   *)
(* per window of hashes, the rightmost of its minima, none twice.  The     *)
(* iterator keeps a monotonic deque, from whose front the minimum is read. *)
(*                                                                         *)
(* A step is one push of the iterator, with the window's fingerprint that  *)
(* follows it; the boundaries of the calls to next() lie between steps and *)
(* change nothing.  Positions count from 0.                                *)
(***************************************************************************)
EXTENDS Integers, Sequences

CONSTANTS
    HashValues,        \* the values of a hash, a u64
    MaxHashes,         \* bound on the input
    Windows            \* the windows a Winnower is made with

\* Winnower::new refuses an empty window.
ASSUME WinnowingAssumption ==
    /\ HashValues \subseteq Nat /\ MaxHashes \in Nat
    /\ Windows \subseteq Nat \ {0}

VARIABLES
    hashes, window,    \* Selected.hashes and .window
    deque,             \* entries [position, hash]
    next_pos,          \* hashes pushed; fill_first_window's pos while it runs
    last_emitted,      \* a position, or None
    selected           \* the fingerprints yielded so far

selectVars == <<hashes, window, deque, next_pos, last_emitted, selected>>

None == -1

SelectInit ==
    /\ hashes \in UNION { [1 .. n -> HashValues] : n \in 0 .. MaxHashes }
    /\ window \in Windows
    /\ deque = << >> /\ next_pos = 0 /\ last_emitted = None /\ selected = << >>

HashAt(place) == hashes[place + 1]

\* Mutant: of equal hashes the earlier one stays.
KeptTies(d, h) ==
    CHOOSE k \in 0 .. Len(d) :
        /\ k = 0 \/ d[k].hash <= h
        /\ \A x \in k + 1 .. Len(d) : d[x].hash > h

\* How many entries are left when every one at the back that is not below h
\* has been popped.
Kept(d, h) ==
    CHOOSE k \in 0 .. Len(d) :
        /\ k = 0 \/ d[k].hash < h
        /\ \A x \in k + 1 .. Len(d) : d[x].hash >= h

\* push
Pushed(d, place, h) ==
    Append(SubSeq(d, 1, Kept(d, h)), [position |-> place, hash |-> h])

\* How many entries at the front lie before the window that begins at first.
Expired(d, first) ==
    CHOOSE k \in 0 .. Len(d) :
        /\ k = Len(d) \/ d[k + 1].position >= first
        /\ \A x \in 1 .. k : d[x].position < first

\* slide_one's first loop: those entries are popped.
Unexpired(d, first) == SubSeq(d, Expired(d, first) + 1, Len(d))

\* Mutant: the window's minimum is yielded again.
EmitAgain(d) ==
    /\ last_emitted' = d[1].position
    /\ selected' = Append(selected, d[1])

\* emit_current_window_min, over the deque as it now is.
Emit(d) ==
    IF d[1].position = last_emitted
    THEN UNCHANGED <<last_emitted, selected>>
    ELSE /\ last_emitted' = d[1].position
         /\ selected' = Append(selected, d[1])

\* fill_first_window's iterations.  An input shorter than the window has none.
Fill ==
    /\ Len(hashes) >= window /\ next_pos < window
    /\ deque' = Pushed(deque, next_pos, HashAt(next_pos))
    /\ next_pos' = next_pos + 1
    /\ IF next_pos' = window THEN Emit(deque') ELSE UNCHANGED <<last_emitted, selected>>
    /\ UNCHANGED <<hashes, window>>

\* slide_one
Slide ==
    /\ next_pos >= window /\ next_pos < Len(hashes)
    /\ deque' = Pushed(Unexpired(deque, next_pos + 1 - window), next_pos, HashAt(next_pos))
    /\ next_pos' = next_pos + 1
    /\ Emit(deque')
    /\ UNCHANGED <<hashes, window>>

SelectNext == Fill \/ Slide
SelectSpec == SelectInit /\ [][SelectNext]_selectVars

-----------------------------------------------------------------------------
(* Properties *)

\* The positions of the window that ends before position n.
WindowBefore(n) == { place \in 0 .. n - 1 : place >= n - window }

\* The deque holds positions of the current window, and what was yielded last
\* is among the fingerprints.
DequeOK ==
    /\ next_pos \in 0 .. Len(hashes)
    /\ \A x \in DOMAIN deque :
         /\ deque[x].position \in WindowBefore(next_pos)
         /\ deque[x].hash = HashAt(deque[x].position)
    /\ IF selected = << >> THEN last_emitted = None
       ELSE last_emitted = selected[Len(selected)].position

\* The deque is exactly the positions of the window that are below everything
\* behind them, in order: what each later window's minimum can still be.
DequeIsSuffixMinima ==
    /\ DequeOK
    /\ \A place \in WindowBefore(next_pos) :
         (\E x \in DOMAIN deque : deque[x].position = place)
           <=> \A later \in place + 1 .. next_pos - 1 : HashAt(place) < HashAt(later)
    /\ \A x, y \in DOMAIN deque : x < y => deque[x].position < deque[y].position

\* place is the rightmost of the least hashes of the window that ends before n.
IsRightmostMin(place, n) ==
    /\ place \in WindowBefore(n)
    /\ \A other \in WindowBefore(n) :
         IF other > place THEN HashAt(place) < HashAt(other) ELSE HashAt(place) <= HashAt(other)

\* select's doc: the fingerprints are the rightmost minima of the windows that
\* have been completed, every one of them, none twice and in stream order.
SelectsRightmostMinima ==
    /\ { selected[x].position : x \in DOMAIN selected }
         = { place \in 0 .. next_pos - 1 :
               \E n \in window .. next_pos : IsRightmostMin(place, n) }
    /\ \A x, y \in DOMAIN selected : x < y => selected[x].position < selected[y].position
    /\ \A x \in DOMAIN selected : selected[x].hash = HashAt(selected[x].position)
=============================================================================
