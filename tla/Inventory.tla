------------------------------ MODULE Inventory ------------------------------
(***************************************************************************)
(* InventoryService: the rows of "inventory" and the movements of units on *)
(* hand that stock_movement records for them (IMPORT, EXPORT, SALE and     *)
(* RETURN; a RESERVATION or RELEASE moves nothing on or off the shelf).    *)
(*                                                                         *)
(* Every operation but one is one transaction around one UPDATE, whose row *)
(* lock holds until the movement is written: one step.  createInventory is *)
(* two transactions, the row and then its IMPORT movement; anything may    *)
(* come in between, and a process that dies there never takes the second.  *)
(* An operation that is refused changes nothing and is no step.            *)
(*                                                                         *)
(* reserveStock, releaseStock, confirmSale and restoreStock are the        *)
(* contract the service exports for other modules.  Nobody calls them yet, *)
(* so every order of calls is modelled.                                    *)
(***************************************************************************)
EXTENDS StockRow

CONSTANT
  Quantities    \* what a call may move: positive numbers of units

ASSUME InventoryAssumption == Quantities \subseteq Nat \ {0}

VARIABLES
  rows,       \* the row of each variant that has one
  logged,     \* the sum of the quantities of a variant's movements
  unlogged    \* initial stock whose movement is not written yet

inventoryVars == <<rows, logged, unlogged>>

Stocked == DOMAIN rows

InventoryTypeOK ==
  /\ Stocked \subseteq Variant
  /\ rows \in [Stocked -> Row]
  /\ \A v \in Stocked : /\ rows[v].onHand \in 0 .. MaxInt
                        /\ rows[v].reserved \in 0 .. MaxInt
  /\ logged \in [Variant -> Int]
  /\ unlogged \in [Variant -> Nat]

\* A variant the catalogue made without a row has none.
InventoryInit ==
  /\ rows = [v \in {} |-> NewRow(0, 0)]
  /\ logged = [v \in Variant |-> 0]
  /\ unlogged = [v \in Variant |-> 0]

-----------------------------------------------------------------------------
\* PostgreSQL refuses a value that an INTEGER column cannot hold.
Fits(row) ==
  /\ row.onHand <= MaxInt
  /\ row.reserved <= MaxInt
  /\ row.available >= -MaxInt - 1

Insert(v, row) ==
  /\ v \notin Stocked
  /\ Fits(row)
  /\ rows' = [w \in Stocked \cup {v} |-> IF w = v THEN row ELSE rows[w]]

Update(v, row) ==
  /\ Fits(row)
  /\ rows' = [rows EXCEPT ![v] = row]

\* createMovement of `moved` units, in the transaction of the update.
LogWithSign(v, moved) == logged' = [logged EXCEPT ![v] = @ - moved]
Log(v, moved) == logged' = [logged EXCEPT ![v] = @ + moved]

\* createInventory: the row, with any number of units reserved ...
CreateInventory(v, initialStock, reserved) ==
  /\ Insert(v, NewRow(initialStock, reserved))
  /\ unlogged' = [unlogged EXCEPT ![v] = initialStock]
  /\ UNCHANGED logged

\* ... and in a transaction of its own the movement of the initial stock.
LogInitialStock(v) ==
  /\ unlogged[v] > 0
  /\ Log(v, unlogged[v])
  /\ unlogged' = [unlogged EXCEPT ![v] = 0]
  /\ UNCHANGED rows

ImportStock(v, q) ==
  /\ \/ Insert(v, NewRow(q, 0))
     \/ v \in Stocked /\ CanAdjust(rows[v], q) /\ Update(v, AdjustRow(rows[v], q))
  /\ Log(v, q)
  /\ UNCHANGED unlogged

\* bulkAdjust is a loop of these, each in its own transaction.
AdjustStock(v, delta) ==
  /\ v \in Stocked
  /\ CanAdjust(rows[v], delta)
  /\ Update(v, AdjustRow(rows[v], delta))
  /\ Log(v, delta)
  /\ UNCHANGED unlogged

ReserveStock(v, q) ==
  /\ v \in Stocked
  /\ CanReserve(rows[v], q)
  /\ Update(v, ReserveRow(rows[v], q))
  /\ UNCHANGED <<logged, unlogged>>

\* The sum inside LEAST has to fit as well.
ReleaseStock(v, q) ==
  /\ v \in Stocked
  /\ rows[v].available + q <= MaxInt
  /\ Update(v, ReleaseRow(rows[v], q))
  /\ UNCHANGED <<logged, unlogged>>

ConfirmSale(v, q) ==
  /\ v \in Stocked
  /\ CanConfirmSale(rows[v], q)
  /\ Update(v, ConfirmSaleRow(rows[v], q))
  /\ Log(v, -q)
  /\ UNCHANGED unlogged

RestoreStock(v, q) ==
  /\ v \in Stocked
  /\ Update(v, RestoreRow(rows[v], q))
  /\ Log(v, q)
  /\ UNCHANGED unlogged

-----------------------------------------------------------------------------
InventoryNext ==
  \E v \in Variant :
    \/ \E n, r \in Quantities \cup {0} : CreateInventory(v, n, r)
    \/ LogInitialStock(v)
    \/ \E q \in Quantities : \/ ImportStock(v, q)
                             \/ AdjustStock(v, -q)
                             \/ AdjustStock(v, q)
                             \/ ReserveStock(v, q)
                             \/ ReleaseStock(v, q)
                             \/ ConfirmSale(v, q)
                             \/ RestoreStock(v, q)

InventorySpec == InventoryInit /\ [][InventoryNext]_inventoryVars

-----------------------------------------------------------------------------
(* The properties. *)

\* What is on hand is what the movements add up to, but for an initial stock
\* whose movement is still to be written: no operation forgets its movement,
\* writes it twice or with the wrong sign.
StockIsSumOfMovements ==
  \A v \in Stocked : rows[v].onHand = logged[v] + unlogged[v]

\* confirmSale leaves `available` too low, taking off it what reserveStock took
\* off before, but it never promises a unit that is reserved or gone, in
\* whichever order the operations come.
NeverOverstated ==
  \A v \in Stocked : rows[v].available <= rows[v].onHand - rows[v].reserved

\* BR-INV-001 and 002: no reservation takes more units than are on hand.
NeverOverReserved ==
  [][\A v \in Stocked : rows'[v].reserved > rows[v].reserved =>
       rows'[v].reserved <= rows'[v].onHand]_inventoryVars
=============================================================================
