------------------------------ MODULE StockRow ------------------------------
(***************************************************************************)
(* One row of the table "inventory": the units of one variant on hand, the *)
(* units of them that are promised to somebody, and the units a customer   *)
(* may still take.  The code never computes `available`; every UPDATE      *)
(* moves the columns by hand, so that the three can drift apart.           *)
(*                                                                         *)
(* The operators are the UPDATE statements of inventory.repository.ts and  *)
(* of checkout/service.ts, as functions from the old row to the new one,   *)
(* each with the WHERE clause that decides whether the statement hits the  *)
(* row.  MaxInt is the largest value of the INTEGER columns: PostgreSQL    *)
(* refuses a statement that would pass it.  The definitions that nothing   *)
(* uses are mutants: the definition after each, with a plausible bug.      *)
(***************************************************************************)
EXTENDS Amounts

CONSTANTS
  Variant,   \* product variants, each with one row at most
  MaxInt

ASSUME MaxIntAssumption == MaxInt \in Nat

Row == [onHand : Int, reserved : Int, available : Int]

NewRow(onHand, reserved) ==
  [onHand |-> onHand, reserved |-> reserved, available |-> onHand - reserved]

\* reserveStock: WHERE available >= q, reserved + q, available - q.
CanReserveOnHand(row, q) == row.onHand >= q
CanReserve(row, q) == row.available >= q

ReserveRow(row, q) ==
  [onHand |-> row.onHand,
   reserved |-> row.reserved + q,
   available |-> row.available - q]

\* releaseStock: both columns are clamped, reserved at 0, available at on_hand.
ReleaseRowUnclamped(row, q) ==
  [onHand |-> row.onHand,
   reserved |-> Greatest(row.reserved - q, 0),
   available |-> row.available + q]
ReleaseRow(row, q) ==
  [onHand |-> row.onHand,
   reserved |-> Greatest(row.reserved - q, 0),
   available |-> Least(row.available + q, row.onHand)]

\* adjustStock: WHERE on_hand >= |delta| for a withdrawal; an arrival always hits.
CanAdjust(row, delta) ==
  /\ row.onHand + delta >= 0
  /\ row.onHand + delta <= MaxInt

AdjustRowOnHandOnly(row, delta) == [row EXCEPT !.onHand = @ + delta]
AdjustRow(row, delta) ==
  [onHand |-> row.onHand + delta,
   reserved |-> row.reserved,
   available |-> row.available + delta]

\* restoreStock: on_hand + q, available + q.
RestoreRow(row, q) ==
  [onHand |-> row.onHand + q,
   reserved |-> row.reserved,
   available |-> row.available + q]

\* confirmSale: takes the units off on_hand, off reserved and off available.
CanConfirmSale(row, q) ==
  /\ row.onHand >= q
  /\ row.reserved >= q

ConfirmSaleRow(row, q) ==
  [onHand |-> row.onHand - q,
   reserved |-> Greatest(row.reserved - q, 0),
   available |-> row.available - q]

-----------------------------------------------------------------------------
\* The equation the columns' updates are written to maintain.
Balanced(row) == row.available = row.onHand - row.reserved
=============================================================================
