---------------------------- MODULE MCInventory ----------------------------
(* Small instances of Inventory for TLC. *)
EXTENDS Inventory, TLC

CONSTANTS v1, v2

Interchangeable == Permutations(Variant)
=============================================================================
