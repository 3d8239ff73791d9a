---------------------------- MODULE PowersOfTwo ----------------------------
(* The powers of two, as a function: the width of a hash, the weight of a bit
   and the number of nodes at a depth of a binary tree are all such powers. *)
EXTENDS Integers

TwoTo[n \in Nat] == IF n = 0 THEN 1 ELSE 2 * TwoTo[n - 1]
=============================================================================
