----------------------------- MODULE OnceValue -----------------------------
(***************************************************************************)
(* What a lazily built, process-wide value promises its callers: it takes  *)
(* a value once, and every caller that gets a reference gets that one.     *)
(* `held` is what each caller was ever given: the references are 'static,  *)
(* so none is ever taken back.                                             *)
(***************************************************************************)
CONSTANTS Caller, Value, null
VARIABLES value, held

Init ==
    /\ value = null
    /\ held = [c \in Caller |-> {}]

\* Some caller's construction becomes the value, for good.
Settle ==
    /\ value = null
    /\ value' \in Value
    /\ UNCHANGED held

Get(c) ==
    /\ value # null
    /\ held' = [held EXCEPT ![c] = @ \cup {value}]
    /\ UNCHANGED value

Next == Settle \/ \E c \in Caller : Get(c)
Spec == Init /\ [][Next]_<<value, held>>
=============================================================================
