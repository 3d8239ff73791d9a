------------------------------- MODULE Metric -------------------------------
(***************************************************************************)
(* The metric that the trees of stringcheese-index wrap, and the bounds    *)
(* under which both are used.                                              *)
(***************************************************************************)
EXTENDS Integers

CONSTANTS
    Text,              \* the values the metric compares
    Distance,          \* the metric
    Items, Queries,    \* the texts inserted and asked for
    Radii,             \* the radii asked for
    MaxStored,         \* bound on the items stored
    Modulus            \* 2^width of the metric's output type

Dist(x, y) == Distance[x, y]

\* try_new refuses a metric that does not declare itself one.  The output
\* type has room for two distances, and for a distance beside a radius.
ASSUME MetricAssumption ==
    /\ Items \subseteq Text /\ Queries \subseteq Text
    /\ Radii \subseteq Nat /\ MaxStored \in Nat /\ Modulus \in Nat
    /\ Distance \in [Text \X Text -> Nat]
    /\ \A x \in Text : Dist(x, x) = 0
    /\ \A x, y \in Text : Dist(x, y) = Dist(y, x)
    /\ \A x, y, z \in Text : Dist(x, z) <= Dist(x, y) + Dist(y, z)
    /\ \A x, y \in Text, r \in Radii : Dist(x, y) + r < Modulus
    /\ \A x, y, u, v \in Text : Dist(x, y) + Dist(u, v) < Modulus

\* A sum in the output type.
Plus(x, y) == (x + y) % Modulus
=============================================================================
