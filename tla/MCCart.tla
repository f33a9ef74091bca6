------------------------------- MODULE MCCart -------------------------------
(* Small instances of Cart for TLC. *)
EXTENDS Cart, TLC

CONSTANTS r1, r2, v1, v2

\* Stock that is sold out, owed, and more than a line may have.
Stock == {-1, 1, 3}

Interchangeable == Permutations(Request) \cup Permutations(Variant)
=============================================================================
