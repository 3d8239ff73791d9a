---------------------------- MODULE SharedEngine ----------------------------
(***************************************************************************)
(* shared_engine(), the singleton that every ICU component's wit.rs builds *)
(* on first use behind an AtomicPtr: a load, a boxed engine built on the   *)
(* side, a compare_exchange, and the loser's box dropped.  Any number of   *)
(* threads call it.  One action per access to memory that others can see.  *)
(*                                                                         *)
(* The Rust memory model is kept as far as the orderings matter.  A thread *)
(* may read the pointer's initial null until it has seen the published     *)
(* one, and `visible` is what each thread's reads are bound to find        *)
(* written: an engine built by another thread is visible only through a    *)
(* Release of the pointer that an Acquire has read.  A freed box may be    *)
(* allocated again.                                                        *)
(***************************************************************************)
CONSTANTS
    Caller,            \* the threads
    Box,               \* the addresses the allocator may return
    null

ASSUME SharedEngineAssumption == null \notin Box

VARIABLES
    engine_ptr,        \* ENGINE_PTR: its latest value
    released,          \* the boxes visible to a thread that acquires engine_ptr
    allocated,         \* the boxes allocated and not yet freed
    pc,                \* "idle" | "build" | "exchange" | "drop" | "return"
    raw,               \* shared_engine's local `raw`, null when it owns no box
    result,            \* the pointer it is going to return
    observed,          \* whether the thread has read a non-null ENGINE_PTR
    visible,           \* the boxes whose contents the thread is bound to see
    held               \* the references ever returned to the thread

locals == <<pc, raw, result, observed>>
vars   == <<engine_ptr, released, allocated, locals, visible, held>>

Init ==
    /\ engine_ptr = null /\ released = {} /\ allocated = {}
    /\ pc = [c \in Caller |-> "idle"]
    /\ raw = [c \in Caller |-> null]
    /\ result = [c \in Caller |-> null]
    /\ observed = [c \in Caller |-> FALSE]
    /\ visible = [c \in Caller |-> {}]
    /\ held = [c \in Caller |-> {}]

Goto(c, label) == pc' = [pc EXCEPT ![c] = label]

\* What an atomic read of ENGINE_PTR by c may return.
Readable(c) == IF observed[c] THEN {engine_ptr} ELSE {engine_ptr, null}

\* Mutant: a Relaxed read.  Nothing the writer did becomes visible.
AcquireRelaxed(c) ==
    /\ observed' = [observed EXCEPT ![c] = TRUE]
    /\ UNCHANGED visible

\* An Acquire read of the published pointer.
Acquire(c) ==
    /\ observed' = [observed EXCEPT ![c] = TRUE]
    /\ visible' = [visible EXCEPT ![c] = @ \cup released]

\* ENGINE_PTR.load(Acquire) finds an engine,
LoadFound(c) ==
    /\ pc[c] = "idle"
    /\ \E existing \in Readable(c) \ {null} : result' = [result EXCEPT ![c] = existing]
    /\ Acquire(c)
    /\ Goto(c, "return")
    /\ UNCHANGED <<engine_ptr, released, allocated, raw, held>>

\* Mutant: the pointer is not looked at before building.
LoadAlwaysNull(c) ==
    /\ pc[c] = "idle"
    /\ Goto(c, "build")
    /\ UNCHANGED <<engine_ptr, released, allocated, raw, result, observed, visible, held>>

\* or none.
LoadNull(c) ==
    /\ pc[c] = "idle"
    /\ null \in Readable(c)
    /\ Goto(c, "build")
    /\ UNCHANGED <<engine_ptr, released, allocated, raw, result, observed, visible, held>>

\* Box::into_raw(Box::new(reference_engine())): at a new or a reused address,
\* whose contents no other thread has seen.
Build(c) ==
    /\ pc[c] = "build"
    /\ \E b \in Box \ allocated :
         /\ allocated' = allocated \cup {b}
         /\ raw' = [raw EXCEPT ![c] = b]
         /\ visible' = [d \in Caller |->
                          IF d = c THEN visible[d] \cup {b} ELSE visible[d] \ {b}]
         /\ released' = released \ {b}
    /\ Goto(c, "exchange")
    /\ UNCHANGED <<engine_ptr, result, observed, held>>

\* Mutant: a plain store instead of the compare_exchange.
ExchangeUnchecked(c) ==
    /\ pc[c] = "exchange"
    /\ engine_ptr' = raw[c]
    /\ released' = visible[c]
    /\ result' = [result EXCEPT ![c] = raw[c]]
    /\ raw' = [raw EXCEPT ![c] = null]
    /\ observed' = [observed EXCEPT ![c] = TRUE]
    /\ Goto(c, "return")
    /\ UNCHANGED <<allocated, visible, held>>

\* compare_exchange(null, raw, AcqRel, Acquire) succeeds: raw is published,
\* with all that this thread has written.
ExchangeWon(c) ==
    /\ pc[c] = "exchange" /\ engine_ptr = null
    /\ engine_ptr' = raw[c]
    /\ released' = visible[c]
    /\ result' = [result EXCEPT ![c] = raw[c]]
    /\ raw' = [raw EXCEPT ![c] = null]
    /\ observed' = [observed EXCEPT ![c] = TRUE]
    /\ Goto(c, "return")
    /\ UNCHANGED <<allocated, visible, held>>

\* Mutant: the loser returns the box it built, not the winner's.
ExchangeLostOwn(c) ==
    /\ pc[c] = "exchange" /\ engine_ptr # null
    /\ result' = [result EXCEPT ![c] = raw[c]]
    /\ Acquire(c)
    /\ Goto(c, "drop")
    /\ UNCHANGED <<engine_ptr, released, allocated, raw, held>>

\* Mutant: the loser returns the expected value of the exchange.
ExchangeLostNull(c) ==
    /\ pc[c] = "exchange" /\ engine_ptr # null
    /\ result' = [result EXCEPT ![c] = null]
    /\ Acquire(c)
    /\ Goto(c, "drop")
    /\ UNCHANGED <<engine_ptr, released, allocated, raw, held>>

\* Mutant: a thread that lost tries the exchange again.
ExchangeLostRetry(c) ==
    /\ pc[c] = "exchange" /\ engine_ptr # null
    /\ result' = [result EXCEPT ![c] = engine_ptr]
    /\ Acquire(c)
    /\ Goto(c, "exchange")
    /\ UNCHANGED <<engine_ptr, released, allocated, raw, held>>

\* It fails: the winner's engine is the one to return.
ExchangeLost(c) ==
    /\ pc[c] = "exchange" /\ engine_ptr # null
    /\ result' = [result EXCEPT ![c] = engine_ptr]
    /\ Acquire(c)
    /\ Goto(c, "drop")
    /\ UNCHANGED <<engine_ptr, released, allocated, raw, held>>

\* Mutant: the loser forgets its box.
DropForgotten(c) ==
    /\ pc[c] = "drop"
    /\ raw' = [raw EXCEPT ![c] = null]
    /\ Goto(c, "return")
    /\ UNCHANGED <<engine_ptr, released, allocated, result, observed, visible, held>>

\* drop(Box::from_raw(raw))
Drop(c) ==
    /\ pc[c] = "drop"
    /\ allocated' = allocated \ {raw[c]}
    /\ raw' = [raw EXCEPT ![c] = null]
    /\ Goto(c, "return")
    /\ UNCHANGED <<engine_ptr, released, result, observed, visible, held>>

\* The reference is the caller's, who may use it from here on.
Return(c) ==
    /\ pc[c] = "return"
    /\ held' = [held EXCEPT ![c] = @ \cup {result[c]}]
    /\ result' = [result EXCEPT ![c] = null]
    /\ Goto(c, "idle")
    /\ UNCHANGED <<engine_ptr, released, allocated, raw, observed, visible>>

\* The steps of a call after its first.
Continue(c) ==
    Build(c) \/ ExchangeWon(c) \/ ExchangeLost(c) \/ Drop(c) \/ Return(c)

Next == \E c \in Caller : LoadFound(c) \/ LoadNull(c) \/ Continue(c)

\* A thread inside shared_engine is scheduled again.
Fairness == \A c \in Caller : WF_vars(Continue(c))

Spec     == Init /\ [][Next]_vars
FairSpec == Spec /\ Fairness

-----------------------------------------------------------------------------
(* Properties *)

\* What a pointer is in each step of a call: a box to publish or to drop, a box
\* to return, null where the code has none.
TypeOK ==
    /\ engine_ptr \in Box \cup {null}
    /\ released \subseteq Box /\ allocated \subseteq Box
    /\ pc \in [Caller -> {"idle", "build", "exchange", "drop", "return"}]
    /\ raw \in [Caller -> Box \cup {null}]
    /\ result \in [Caller -> Box \cup {null}]
    /\ observed \in [Caller -> BOOLEAN]
    /\ visible \in [Caller -> SUBSET Box]
    /\ held \in [Caller -> SUBSET Box]
    /\ \A c \in Caller :
         /\ raw[c] # null <=> pc[c] \in {"exchange", "drop"}
         /\ result[c] # null <=> pc[c] \in {"drop", "return"}

\* Every reference a caller was ever given points to an engine that is still
\* allocated and whose construction that caller is bound to see: no use after
\* free by the loser's drop, no read of a half-written engine.
ReferencesAreValid ==
    \A c \in Caller : held[c] \subseteq allocated \cap visible[c]

\* All callers, however they raced, were given the same engine.
OneEngine ==
    \A c, d \in Caller : \A x \in held[c], y \in held[d] : x = y

\* Only the published engine and the boxes of the calls still inside the
\* exchange are allocated, each by one owner: no loser's box leaks, and none is
\* shared before it is published.
EveryBoxIsOwned ==
    /\ allocated = ({engine_ptr} \cup {raw[c] : c \in Caller}) \ {null}
    /\ \A c \in Caller : raw[c] # null => raw[c] # engine_ptr
    /\ \A c, d \in Caller : raw[c] = raw[d] /\ raw[c] # null => c = d

\* A thread that was once given the engine never builds another.
BuildsBeforeFirstReturn == [][\A c \in Caller : Build(c) => held[c] = {}]_vars

\* Every call returns, whatever the other threads do.
CallReturns == \A c \in Caller : pc[c] # "idle" ~> pc[c] = "idle"

Once == INSTANCE OnceValue WITH Value <- Box, value <- engine_ptr

\* The races of the calls implement a value that is settled once.
ImplementsOnceValue == Once!Spec
=============================================================================
