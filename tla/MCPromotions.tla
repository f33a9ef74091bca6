---------------------------- MODULE MCPromotions ----------------------------
(* Small instances of Promotions for TLC. *)
EXTENDS Promotions, TLC

CONSTANTS a1, a2

\* A promotion of each kind: alone and stackable, of a part of the cart, over a
\* hundred percent, with a maximum, with a minimum it meets or not, out of its
\* time or scope.
Plain == [type |-> "PERCENTAGE", stackable |-> FALSE, open |-> TRUE, base |-> 200,
          value |-> 50, minimum |-> 0, maximum |-> NoMaximum]

Kinds ==
  { Plain,
    [Plain EXCEPT !.stackable = TRUE, !.value = 150, !.maximum = 150],
    [Plain EXCEPT !.minimum = 100, !.base = 50],
    [Plain EXCEPT !.type = "FIXED_AMOUNT", !.stackable = TRUE, !.value = 120],
    [Plain EXCEPT !.type = "FIXED_AMOUNT", !.open = FALSE],
    [Plain EXCEPT !.type = "FLASH_SALE", !.stackable = TRUE],
    [Plain EXCEPT !.type = "FLASH_SALE", !.base = 0],
    [Plain EXCEPT !.type = "FREE_SHIPPING", !.value = 30],
    [Plain EXCEPT !.type = "FREE_SHIPPING", !.stackable = TRUE, !.base = 0, !.value = 30] }

Interchangeable == Permutations(Admin)
=============================================================================
