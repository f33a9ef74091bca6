----------------------------- MODULE MCShipping -----------------------------
(* Small instances of Shipping for TLC. *)
EXTENDS Shipping, TLC

CONSTANTS c1, c2, h1, h2

Interchangeable == Permutations(Call) \cup Permutations(Hook)
=============================================================================
