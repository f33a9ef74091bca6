------------------------------ MODULE Checkout ------------------------------
(***************************************************************************)
(* The checkout: CheckoutService, the creation of an order from a session  *)
(* (OrdersService.createOrder), and the inventory rows both work on, with  *)
(* the administrator who moves stock under them.                           *)
(*                                                                         *)
(* The transactions of CheckoutService and OrdersService are SERIALIZABLE, *)
(* so a transaction is one action; one that PostgreSQL aborts leaves no    *)
(* trace and is not retried by the code.  What the code does OUTSIDE the   *)
(* transaction is an action of its own: the look at the session that opens *)
(* expireCheckout, and generateOrderNumber, which reads the last number    *)
(* through another connection while the transaction of createOrder is      *)
(* open.                                                                   *)
(*                                                                         *)
(* Sessions are numbered so that the totals over them can be written down  *)
(* (see Totals).  Who owns a session, prices, addresses and the idempotency*)
(* key (a replay only returns the session it finds) are left out.          *)
(*                                                                         *)
(* Definitions that no action uses (CloseAnyHold, CanCommitStale, ...) are *)
(* the mutants the properties are tested with: each is the definition after*)
(* it with a plausible bug.                                                *)
(***************************************************************************)
EXTENDS Integers, FiniteSets, StockRow, Totals

CONSTANTS
  NumSessions,   \* sessions 1 .. NumSessions may be opened
  Request,       \* createOrder requests that may be in flight together
  InitialStock,  \* Variant -> units on hand when the shop opens
  MaxQuantity,   \* most units of one variant a cart line holds
  Deltas,        \* the stock corrections an administrator may enter
  Sweeping       \* is there a job that calls expireCheckout?

Session == 1 .. NumSessions

ASSUME CheckoutAssumption ==
  /\ NumSessions \in Nat \ {0}
  /\ MaxQuantity \in Nat \ {0}
  /\ InitialStock \in [Variant -> 0 .. MaxInt]
  /\ Deltas \subseteq Int
  /\ Sweeping \in BOOLEAN

VARIABLES
  inv,        \* inventory: the row of each variant
  listed,     \* variants a customer may buy (PUBLISHED product, ACTIVE variant)
  status,     \* checkout_session.status, "NONE" before the session exists
  items,      \* checkout_item: the quantity of each variant in the session
  late,       \* sessions whose expires_at has passed
  hold,       \* stock_reservation.status of the session, "NONE" without one
  orderNo,    \* order.order_number made from the session, 0 without an order
  drawn,      \* createOrder in flight: the session and the number it drew
  sweep       \* sessions expireCheckout found open and has not yet closed

vars == <<inv, listed, status, items, late, hold, orderNo, drawn, sweep>>

SessionStatus == {"NONE", "CREATED", "RESERVED", "EXPIRED", "CANCELLED", "COMPLETED"}
HoldStatus == {"NONE", "ACTIVE", "RELEASED", "CONFIRMED", "EXPIRED"}

Idle == [session |-> 0, number |-> 0]
Basket == [Variant -> 0 .. MaxQuantity]
EmptyBasket == [v \in Variant |-> 0]

TypeOK ==
  /\ inv \in [Variant -> Row]
  /\ \A v \in Variant : inv[v].onHand \in 0 .. MaxInt
  /\ listed \subseteq Variant
  /\ status \in [Session -> SessionStatus]
  /\ items \in [Session -> Basket]
  /\ late \subseteq Session
  /\ hold \in [Session -> HoldStatus]
  /\ orderNo \in [Session -> Nat]
  /\ drawn \in [Request -> [session : Session \cup {0}, number : Nat]]
  /\ sweep \subseteq Session

Init ==
  /\ inv = [v \in Variant |-> NewRow(InitialStock[v], 0)]
  /\ listed = Variant
  /\ status = [s \in Session |-> "NONE"]
  /\ items = [s \in Session |-> EmptyBasket]
  /\ late = {}
  /\ hold = [s \in Session |-> "NONE"]
  /\ orderNo = [s \in Session |-> 0]
  /\ drawn = [r \in Request |-> Idle]
  /\ sweep = {}

-----------------------------------------------------------------------------
\* The checks createCheckout and reserveInventory make of every line.
Sellable(basket) ==
  \A v \in Variant : basket[v] > 0 =>
    /\ v \in listed
    /\ CanReserve(inv[v], basket[v])

\* assertSessionNotExpired lets a COMPLETED session pass whatever its age.
PastExpiry(s) == s \in late /\ status[s] # "COMPLETED"

ReserveAll(basket) == [v \in Variant |-> ReserveRow(inv[v], basket[v])]
ReleaseAll(basket) == [v \in Variant |-> ReleaseRow(inv[v], basket[v])]

Opened(s) == status[s] # "NONE"

CreateCheckout(s, basket) ==
  /\ ~Opened(s)
  /\ basket # EmptyBasket
  /\ Sellable(basket)
  /\ status' = [status EXCEPT ![s] = "CREATED"]
  /\ items' = [items EXCEPT ![s] = basket]
  /\ UNCHANGED <<inv, listed, late, hold, orderNo, drawn, sweep>>

ReserveInventory(s) ==
  /\ Opened(s)
  /\ ~PastExpiry(s)
  /\ status[s] = "CREATED"
  /\ Sellable(items[s])
  /\ inv' = ReserveAll(items[s])
  /\ hold' = [hold EXCEPT ![s] = "ACTIVE"]
  /\ status' = [status EXCEPT ![s] = "RESERVED"]
  /\ UNCHANGED <<listed, items, late, orderNo, drawn, sweep>>

\* What cancelCheckout and expireCheckout share: give the stock of an ACTIVE
\* reservation back and close it as `closed`; the session becomes `final`.
GiveBack(s, closed) ==
  /\ inv' = ReleaseAll(items[s])
  /\ hold' = [hold EXCEPT ![s] = closed]

CloseAnyHold(s, closed, final) ==
  /\ IF hold[s] # "NONE" THEN GiveBack(s, closed) ELSE UNCHANGED <<inv, hold>>
  /\ status' = [status EXCEPT ![s] = final]

CloseKeepHold(s, closed, final) ==
  /\ UNCHANGED <<inv, hold>>
  /\ status' = [status EXCEPT ![s] = final]

CloseSession(s, closed, final) ==
  /\ IF hold[s] = "ACTIVE" THEN GiveBack(s, closed) ELSE UNCHANGED <<inv, hold>>
  /\ status' = [status EXCEPT ![s] = final]

\* No condition on the status of the session.
CancelCheckout(s) ==
  /\ Opened(s)
  /\ CloseSession(s, "RELEASED", "CANCELLED")
  /\ UNCHANGED <<listed, items, late, orderNo, drawn, sweep>>

\* expireCheckout, outside its transaction.  No code of the repository calls
\* it, so nothing is owed here: the action says what a sweeper may do beside
\* the rest, and `late` is the condition it would select sessions by.
ExpireCheck(s) ==
  /\ Sweeping
  /\ Opened(s)
  /\ s \in late
  /\ status[s] \notin {"EXPIRED", "COMPLETED"}
  /\ sweep' = sweep \cup {s}
  /\ UNCHANGED <<inv, listed, status, items, late, hold, orderNo, drawn>>

\* expireCheckout, the transaction: the status is not looked at again.
ExpireCommit(s) ==
  /\ s \in sweep
  /\ CloseSession(s, "EXPIRED", "EXPIRED")
  /\ sweep' = sweep \ {s}
  /\ UNCHANGED <<listed, items, late, orderNo, drawn>>

-----------------------------------------------------------------------------
\* OrdersService.createOrder.  The age of the session is not looked at.
ReadyToOrder(s) ==
  /\ status[s] = "RESERVED"
  /\ hold[s] = "ACTIVE"
  /\ items[s] # EmptyBasket

OrderNumbers == {orderNo[s] : s \in Session} \ {0}

IsLastNumber(n) == \A m \in OrderNumbers : m <= n

\* Steps 1 to 4: the session is checked and generateOrderNumber reads the
\* highest number any committed order of the day has.
DrawNumber(r, s) ==
  /\ drawn[r] = Idle
  /\ orderNo[s] = 0
  /\ ReadyToOrder(s)
  /\ \E last \in OrderNumbers \cup {0} :
       /\ IsLastNumber(last)
       /\ drawn' = [drawn EXCEPT ![r] = [session |-> s, number |-> last + 1]]
  /\ UNCHANGED <<inv, listed, status, items, late, hold, orderNo, sweep>>

\* A transaction whose session or reservation was changed since its snapshot
\* does not serialize, and order_number and checkout_session_id are unique:
\* each of them aborts it.
CanCommitStale(s, n) == orderNo[s] = 0 /\ n \notin OrderNumbers
CanCommitAnyNumber(s, n) == ReadyToOrder(s) /\ orderNo[s] = 0
CanCommit(s, n) == ReadyToOrder(s) /\ orderNo[s] = 0 /\ n \notin OrderNumbers

\* Steps 5 to 9 and COMMIT.
PlaceOrder(r) ==
  LET s == drawn[r].session
  IN  /\ drawn[r] # Idle
      /\ CanCommit(s, drawn[r].number)
      /\ orderNo' = [orderNo EXCEPT ![s] = drawn[r].number]
      /\ hold' = [hold EXCEPT ![s] = "CONFIRMED"]
      /\ status' = [status EXCEPT ![s] = "COMPLETED"]
      /\ drawn' = [drawn EXCEPT ![r] = Idle]
      /\ UNCHANGED <<inv, listed, items, late, sweep>>

\* The transaction aborts or times out; the customer gets an error.
AbortOrder(r) ==
  /\ drawn[r] # Idle
  /\ drawn' = [drawn EXCEPT ![r] = Idle]
  /\ UNCHANGED <<inv, listed, status, items, late, hold, orderNo, sweep>>

-----------------------------------------------------------------------------
\* The environment: time passes a session's expires_at, the administrator
\* corrects the stock of a variant or takes a variant off sale and back.
Elapse(s) ==
  /\ Opened(s)
  /\ s \notin late
  /\ late' = late \cup {s}
  /\ UNCHANGED <<inv, listed, status, items, hold, orderNo, drawn, sweep>>

CorrectStock(v, delta) ==
  /\ delta # 0
  /\ CanAdjust(inv[v], delta)
  /\ inv' = [inv EXCEPT ![v] = AdjustRow(@, delta)]
  /\ UNCHANGED <<listed, status, items, late, hold, orderNo, drawn, sweep>>

Relist(v) ==
  /\ listed' = IF v \in listed THEN listed \ {v} ELSE listed \cup {v}
  /\ UNCHANGED <<inv, status, items, late, hold, orderNo, drawn, sweep>>

\* Every step that makes no order.
SessionStep ==
  \/ \E s \in Session : \E basket \in Basket : CreateCheckout(s, basket)
  \/ \E s \in Session :
       \/ ReserveInventory(s)
       \/ CancelCheckout(s)
       \/ ExpireCheck(s)
       \/ ExpireCommit(s)
       \/ Elapse(s)
  \/ \E r \in Request : \/ \E s \in Session : DrawNumber(r, s)
                        \/ AbortOrder(r)
  \/ \E v \in Variant : \/ \E delta \in Deltas : CorrectStock(v, delta)
                        \/ Relist(v)

Next == SessionStep \/ \E r \in Request : PlaceOrder(r)

Spec == Init /\ [][Next]_vars

-----------------------------------------------------------------------------
(* The properties. *)

\* The units of variant v that session s keeps from other customers.
Held(v) ==
  [s \in Session |-> IF hold[s] \in {"ACTIVE", "CONFIRMED"} THEN items[s][v] ELSE 0]

\* The columns of a row never drift apart, whatever reserves, releases and
\* corrects them: available is what is on hand and not reserved.
LedgerEquation == \A v \in Variant : Balanced(inv[v])

\* `reserved` is a counter kept by hand.  It is, at every moment, the sum of
\* the units in the reservations that are ACTIVE or belong to an order: none
\* is counted twice, released twice or forgotten when sessions are cancelled,
\* expire and turn into orders in any order.
ReservedIsSumOfHolds ==
  \A v \in Variant : IsTotal(inv[v].reserved, Held(v), NumSessions, MaxInt)

\* A reservation holds stock exactly while its session is RESERVED: closing
\* a session by any path also closes its reservation.
HoldFollowsSession ==
  \A s \in Session : hold[s] = "ACTIVE" <=> status[s] = "RESERVED"

\* Every order owns a CONFIRMED reservation and every CONFIRMED reservation an
\* order, also after the session behind the order is cancelled or expires.
OrderOwnsHold ==
  \A s \in Session : orderNo[s] # 0 <=> hold[s] = "CONFIRMED"

\* Orders placed at the same time draw their numbers from the same last order,
\* yet the committed orders of a day are numbered 1, 2, ..., n.
OrderNumbersGapFree ==
  OrderNumbers = 1 .. Cardinality({s \in Session : orderNo[s] # 0})

\* BR-INV-003: customers racing for the last units never get more of them
\* than there are.  Units are promised only out of those on hand.
NeverOversold ==
  [][\A v \in Variant : inv'[v].reserved > inv[v].reserved
       => inv'[v].reserved <= inv'[v].onHand]_vars

\* A reservation that was released, that expired or that an order took over
\* stays so: no late cancel, sweep or order gives its stock back again.
ClosedHoldIsFinal ==
  [][\A s \in Session : hold[s] \in {"RELEASED", "EXPIRED", "CONFIRMED"}
       => hold'[s] = hold[s]]_vars

\* The checkout implements the promise: a claim is a reservation.
ClaimOf(h) ==
  CASE h = "NONE" -> "none"
    [] h = "ACTIVE" -> "held"
    [] h = "CONFIRMED" -> "sold"
    [] h \in {"RELEASED", "EXPIRED"} -> "dropped"

Abstract ==
  INSTANCE StockPromise WITH
    stock <- [v \in Variant |-> inv[v].onHand],
    claim <- [s \in Session |-> ClaimOf(hold[s])],
    want <- [s \in Session |-> IF hold[s] = "NONE" THEN EmptyBasket ELSE items[s]]

ImplementsPromise == Abstract!Promise
=============================================================================
