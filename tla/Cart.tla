-------------------------------- MODULE Cart --------------------------------
(***************************************************************************)
(* The carts of one customer: CartService with its repository.             *)
(*                                                                         *)
(* Whatever changes lines is one SERIALIZABLE transaction that ends by     *)
(* computing the cart's totals anew.  But which cart it is about was read  *)
(* on another connection, and a cart that was missing was created there:   *)
(* neither is part of the transaction.  deleteCart is a READ COMMITTED     *)
(* transaction of two statements: the lines that are live at the first one *)
(* are deleted, and locked until it ends.                                  *)
(*                                                                         *)
(* What a variant costs, has in stock, and whether it is sold is the       *)
(* catalogue's: each operation sees some values.  Names, notes, discounts, *)
(* taxes and dates are left out.  Definitions no action uses are mutants:  *)
(* the definition after each, with a plausible bug.                        *)
(***************************************************************************)
EXTENDS Amounts, FiniteSets, Functions, SequencesExt

CONSTANTS
  Request,    \* requests of the customer handled at the same time
  Variant,
  NumCarts,   \* bound: carts ever created; a cart is the number it came as
  Price,      \* prices of variants
  Available,  \* values of inventory.available
  MaxQty,     \* MAX_QUANTITY_PER_ITEM
  MaxLines,   \* MAX_ITEMS_PER_CART
  MaxMerge    \* bound: lines of a cart that is merged in

CartId == 1 .. NumCarts
NoCart == 0

ASSUME CartAssumption ==
  /\ NumCarts \in Nat \ {0}
  /\ IsFiniteSet(Request)
  /\ IsFiniteSet(Variant)
  /\ Price \subseteq Nat
  /\ Available \subseteq Int
  /\ MaxQty \in Nat \ {0}
  /\ MaxLines \in Nat \ {0}
  /\ MaxMerge \in Nat

VARIABLES
  status,    \* cart.status, "NONE" before it is created
  lines,     \* cart_item of each cart and variant
  totals,    \* item_count, selected_item_count and subtotal of each cart
  request    \* how far each request is, its cart, the lines it deletes

vars == <<status, lines, totals, request>>

\* A line that was never there, and one that was deleted: (cart, variant) is
\* unique among both, and whatever else a deleted line has is never read.
NoLine == [state |-> "none"]
Deleted == [state |-> "deleted"]
Line ==
  {NoLine, Deleted} \cup
  [state : {"live"}, qty : 1 .. MaxQty, price : Nat, subtotal : Nat,
   selected : BOOLEAN, stockAtAdd : 0 .. MaxQty]

Phase == {"idle", "creating", "created", "found", "deleting"}
AtRest == [phase |-> "idle", cart |-> NoCart, locked |-> {}]

TypeOK ==
  /\ status \in [CartId -> {"NONE", "ACTIVE", "ABANDONED"}]
  /\ lines \in [CartId -> [Variant -> Line]]
  /\ totals \in [CartId -> [items : Nat, selected : Nat, subtotal : Nat]]
  /\ request \in [Request -> [phase : Phase, cart : CartId \cup {NoCart},
                              locked : SUBSET Variant]]

NoTotals == [items |-> 0, selected |-> 0, subtotal |-> 0]

Init ==
  /\ status = [c \in CartId |-> "NONE"]
  /\ lines = [c \in CartId |-> [v \in Variant |-> NoLine]]
  /\ totals = [c \in CartId |-> NoTotals]
  /\ request = [r \in Request |-> AtRest]

-----------------------------------------------------------------------------
(* The active cart. *)

Active == {c \in CartId : status[c] = "ACTIVE"}

\* findActiveCartByUserId: the newest of them.
Found(c) == c \in Active /\ \A d \in Active : d <= c
NoneFoundYet == \E c \in CartId : status[c] = "NONE"
NoneFound == Active = {}

FindCart(r) ==
  /\ request[r] = AtRest
  /\ \E c \in CartId :
       /\ Found(c)
       /\ request' = [request EXCEPT ![r].phase = "found", ![r].cart = c]
  /\ UNCHANGED <<status, lines, totals>>

\* Nobody but addItem and getOrCreateActiveCart goes on without one.
FindNoCart(r) ==
  /\ request[r] = AtRest
  /\ NoneFound
  /\ request' = [request EXCEPT ![r].phase = "creating"]
  /\ UNCHANGED <<status, lines, totals>>

CreateCart(r) ==
  /\ request[r].phase = "creating"
  /\ \E c \in CartId :
       /\ status[c] = "NONE"
       /\ \A d \in CartId : status[d] = "NONE" => c <= d
       /\ status' = [status EXCEPT ![c] = "ACTIVE"]
       /\ request' = [request EXCEPT ![r].phase = "created", ![r].cart = c]
  /\ UNCHANGED <<lines, totals>>

\* A request ends without changing lines: getOrCreateActiveCart, and whatever
\* is refused or does not serialize.  A cart it created stays.
EndRequest(r) ==
  /\ request[r].phase \in {"creating", "created", "found"}
  /\ request' = [request EXCEPT ![r] = AtRest]
  /\ UNCHANGED <<status, lines, totals>>

-----------------------------------------------------------------------------
(* Lines. *)

IsLive(l) == l.state = "live"
Live(ls) == {v \in Variant : IsLive(ls[v])}
Locked(c) ==
  UNION {request[r].locked : r \in {q \in Request : request[q].cart = c}}

\* availableStock: what a customer is shown of the stock, which may be negative
\* or more than a line may have.
AvailableStockRaw(available) == available
AvailableStock(available) ==
  IF available < 0 THEN 0 ELSE Least(available, MaxQty)

Shown == {AvailableStock(available) : available \in Available}

MakeLine(qty, price, selected, shown) ==
  [state |-> "live", qty |-> qty, price |-> price, subtotal |-> price * qty,
   selected |-> selected, stockAtAdd |-> shown]

\* recomputeAndPersistTotals.
Subtotal(ls) == SumFunction([v \in Live(ls) |-> ls[v].subtotal])
TotalsOf(ls) ==
  [items |-> Cardinality(Live(ls)),
   selected |-> Cardinality({v \in Live(ls) : ls[v].selected}),
   subtotal |-> Subtotal(ls)]

\* A transaction that turns the lines of the request's cart into ls.  Of a line
\* that deleteCart has locked it must not change anything.
Commit(r, ls) ==
  LET c == request[r].cart IN
  /\ \A v \in Locked(c) : ls[v] = lines[c][v]
  /\ lines' = [lines EXCEPT ![c] = ls]
  /\ totals' = [totals EXCEPT ![c] = TotalsOf(ls)]
  /\ request' = [request EXCEPT ![r] = AtRest]
  /\ UNCHANGED status

LinesOf(r) == lines[request[r].cart]

RoomFor(ls, v) ==
  IF IsLive(ls[v]) THEN Cardinality(Live(ls)) <= MaxLines
  ELSE Cardinality(Live(ls)) + 1 <= MaxLines

\* The quantity a line has with qty more of it.
More(ls, v, qty) == IF IsLive(ls[v]) THEN ls[v].qty + qty ELSE qty

\* addItem refuses what the stock does not cover, reprices the line, and revives
\* a deleted one.
CoveredAlone(ls, v, qty, stock) == qty <= stock
Covered(ls, v, qty, stock) == More(ls, v, qty) <= stock

AddItem(r) ==
  /\ request[r].phase \in {"created", "found"}
  /\ \E v \in Variant, qty \in 1 .. MaxQty, stock \in Shown, price \in Price,
        selected \in BOOLEAN :
       LET ls == LinesOf(r) IN
       /\ RoomFor(ls, v)
       /\ Covered(ls, v, qty, stock)
       /\ More(ls, v, qty) <= MaxQty
       /\ Commit(r, [ls EXCEPT ![v] =
                      MakeLine(More(ls, v, qty), price, selected, stock)])

\* updateItem sets the quantity at the price the line has.
UpdateItem(r) ==
  /\ request[r].phase = "found"
  /\ \E v \in Live(LinesOf(r)), qty \in 1 .. MaxQty, stock \in Shown,
        selected \in BOOLEAN :
       /\ qty <= stock
       /\ Commit(r, [LinesOf(r) EXCEPT ![v] =
                      MakeLine(qty, @.price, selected, stock)])

\* removeItem, bulkRemoveItems
RemoveItems(r) ==
  /\ request[r].phase = "found"
  /\ \E gone \in SUBSET Live(LinesOf(r)) :
       Commit(r, [v \in Variant |-> IF v \in gone THEN Deleted ELSE LinesOf(r)[v]])

\* clearCart that forgets a counter.
ClearCartKeepSelected(r) ==
  LET c == request[r].cart IN
  /\ request[r].phase = "found"
  /\ Locked(c) = {}
  /\ lines' = [lines EXCEPT ![c] =
                [v \in Variant |-> IF IsLive(@[v]) THEN Deleted ELSE @[v]]]
  /\ totals' = [totals EXCEPT ![c] = [NoTotals EXCEPT !.selected = totals[c].selected]]
  /\ request' = [request EXCEPT ![r] = AtRest]
  /\ UNCHANGED status

\* clearCart deletes every line and writes the totals of no line.
ClearCart(r) ==
  LET c == request[r].cart IN
  /\ request[r].phase = "found"
  /\ Locked(c) = {}
  /\ lines' = [lines EXCEPT ![c] =
                [v \in Variant |-> IF IsLive(@[v]) THEN Deleted ELSE @[v]]]
  /\ totals' = [totals EXCEPT ![c] = NoTotals]
  /\ request' = [request EXCEPT ![r] = AtRest]
  /\ UNCHANGED status

SelectItems(r) ==
  /\ request[r].phase = "found"
  /\ \E chosen \in SUBSET Live(LinesOf(r)), selected \in BOOLEAN :
       Commit(r, [v \in Variant |->
                   IF v \in chosen THEN [LinesOf(r)[v] EXCEPT !.selected = selected]
                   ELSE LinesOf(r)[v]])

-----------------------------------------------------------------------------
(* mergeCart takes the lines of another cart one by one: it clamps to the stock,
   never looks whether the variant is sold, and skips what does not fit.  Where
   the line was deleted it inserts a second one, which the unique index refuses:
   the whole merge is lost then. *)

Incoming ==
  [variant : Variant, qty : 1 .. MaxQty, stock : Shown, price : Price,
   selected : BOOLEAN]

Merge(ls, in) ==
  LET v == in.variant
      qty == Least(More(ls, v, in.qty), in.stock)
  IN  IF qty = 0 \/ (~IsLive(ls[v]) /\ ~RoomFor(ls, v)) THEN ls
      ELSE [ls EXCEPT ![v] =
             MakeLine(qty, IF IsLive(@) THEN @.price ELSE in.price, in.selected,
                      in.stock)]

MergeCart(r) ==
  /\ request[r].phase = "found"
  /\ \E items \in BoundedSeq(Incoming, MaxMerge) :
       LET ls == LinesOf(r)
           merged == FoldLeft(Merge, ls, items)
       IN  /\ \A v \in Variant : ls[v] = Deleted => merged[v] = Deleted
           /\ Commit(r, merged)

-----------------------------------------------------------------------------
(* deleteCart, in its two statements. *)

DeleteLines(r) ==
  LET c == request[r].cart IN
  /\ request[r].phase = "found"
  /\ Locked(c) = {}
  /\ request' = [request EXCEPT ![r].phase = "deleting",
                                ![r].locked = Live(lines[c])]
  /\ UNCHANGED <<status, lines, totals>>

DeleteCart(r) ==
  LET c == request[r].cart IN
  /\ request[r].phase = "deleting"
  /\ lines' = [lines EXCEPT ![c] =
                [v \in Variant |-> IF v \in request[r].locked THEN Deleted ELSE @[v]]]
  /\ status' = [status EXCEPT ![c] = "ABANDONED"]
  /\ request' = [request EXCEPT ![r] = AtRest]
  /\ UNCHANGED totals

-----------------------------------------------------------------------------
Next ==
  \E r \in Request :
    \/ FindCart(r)
    \/ FindNoCart(r)
    \/ CreateCart(r)
    \/ EndRequest(r)
    \/ AddItem(r)
    \/ UpdateItem(r)
    \/ RemoveItems(r)
    \/ ClearCart(r)
    \/ SelectItems(r)
    \/ MergeCart(r)
    \/ DeleteLines(r)
    \/ DeleteCart(r)

Spec == Init /\ [][Next]_vars

-----------------------------------------------------------------------------
(* Properties. *)

\* The totals written on an active cart are those of its lines, whichever
\* requests change it in turns and whatever deleteCart has begun meanwhile.
TotalsMatchLines ==
  \A c \in Active : totals[c] = TotalsOf(lines[c])

\* No line has more than the stock shown when it was last changed, whether it was
\* added to, set, merged or revived: the clamps of mergeCart and the refusals of
\* addItem and updateItem agree.
LinesCovered ==
  \A c \in CartId : \A v \in Live(lines[c]) :
    lines[c][v].qty <= lines[c][v].stockAtAdd

\* The header of service.ts: "enforce single active cart per user".  A customer has
\* one active cart, or as many as requests that looked for it at the same time,
\* those that are about to create one included: who finds a cart makes none.
Creating == {r \in Request : request[r].phase = "creating"}
ActiveCartsBounded ==
  Cardinality(Active) + Cardinality(Creating) <= Cardinality(Request)
=============================================================================
