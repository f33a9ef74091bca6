----------------------------- MODULE Storefront -----------------------------
(***************************************************************************)
(* The checkout together with what becomes of its orders: every step of    *)
(* Checkout, and beside it the moves of the orders placed so far.  The     *)
(* two halves share the database and never call each other: OrdersService  *)
(* and PaymentsService move an order without a look at its reservation or  *)
(* at the stock, and the checkout closes sessions without a look at the    *)
(* order.                                                                  *)
(***************************************************************************)
EXTENDS Checkout, OrderStatus

VARIABLE orderStatus    \* order.status of the order a session became

storeVars == <<vars, orderStatus>>

StoreInit ==
  /\ Init
  /\ orderStatus = [s \in Session |-> "NONE"]

\* createOrder, its last steps: the order begins unpaid.
CreateOrder(r) ==
  /\ PlaceOrder(r)
  /\ orderStatus' = [orderStatus EXCEPT ![drawn[r].session] = "PENDING_PAYMENT"]

\* transitionStatus for a customer or an administrator; applyCallback makes
\* one of the same moves, PENDING_PAYMENT to PAID.
MoveOrder(s, to) ==
  /\ MayMove(orderStatus[s], to)
  /\ orderStatus' = [orderStatus EXCEPT ![s] = to]
  /\ UNCHANGED vars

\* Every other step of the checkout.
CheckoutStep == SessionStep /\ UNCHANGED orderStatus

StoreNext ==
  \/ \E r \in Request : CreateOrder(r)
  \/ \E s \in Session : \E to \in Status : MoveOrder(s, to)
  \/ CheckoutStep

StoreSpec == StoreInit /\ [][StoreNext]_storeVars

-----------------------------------------------------------------------------
(* The properties. *)

\* An order's units are still to be handed over.
Owed(s) ==
  orderStatus[s] \in {"PENDING_PAYMENT", "PAID", "PROCESSING", "PACKED"}

UnitsOwed(v) == [s \in Session |-> IF Owed(s) THEN items[s][v] ELSE 0]

\* The goods of the orders still to be shipped are set aside, all of them at
\* once, although the session behind an order may be cancelled, swept or
\* retried at any time after the order was placed.
OwedUnitsSetAside ==
  \A v \in Variant :
    \E n \in 0 .. inv[v].reserved : IsTotal(n, UnitsOwed(v), NumSessions, MaxInt)
=============================================================================
