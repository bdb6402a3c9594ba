------------------------------ MODULE MCSorting ------------------------------
(* Sorting on every short sequence of three keys, on every longer one of two, *)
(* and on some that are long enough for several tiers of merges.              *)
EXTENDS Sorting

MCInputs ==
    UNION {[1 .. n -> 0 .. 2] : n \in 0 .. 6}
        \cup UNION {[1 .. n -> 0 .. 1] : n \in 7 .. 9}
        \cup {[i \in 1 .. n |-> (i * a + b) % 5] : n \in 10 .. 18, a \in 1 .. 4, b \in 0 .. 2}
=============================================================================
