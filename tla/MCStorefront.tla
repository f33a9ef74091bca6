---------------------------- MODULE MCStorefront ----------------------------
(* Small instances of Storefront for TLC. *)
EXTENDS Storefront, TLC

CONSTANTS lamp, bulb, r1, r2

\* Two units of the one, one unit of the other: a basket of both may find the
\* lamp and miss the bulb, and two reservations of the lamp stand beside each other.
Shelf == [v \in Variant |-> IF v = lamp THEN 2 ELSE 1]

Corrections == {-1}

\* bound: an order is followed until it is cancelled or leaves PAID; the checkout
\* never looks at its status.
Followed ==
  \A s \in Session : orderStatus[s] \in {"NONE", "PENDING_PAYMENT", "PAID"}

Interchangeable == Permutations(Request)
=============================================================================
