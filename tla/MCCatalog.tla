----------------------------- MODULE MCCatalog -----------------------------
(* Small instances of Catalog for TLC. *)
EXTENDS Catalog, TLC

CONSTANTS c1, b1, p1, v1, q1, q2

Interchangeable == Permutations(Request)
=============================================================================
