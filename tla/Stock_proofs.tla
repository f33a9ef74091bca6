---------------------------- MODULE Stock_proofs ----------------------------
(***************************************************************************)
(* Proofs about the stock, for any number of sessions, variants, requests  *)
(* and units: Checkout, Storefront, which adds the orders, and Inventory.  *)
(*                                                                         *)
(* Checkout.  The inductive invariant joins the ledger equation with the   *)
(* conservation of reserved units: neither is inductive alone, because a   *)
(* release is clamped (GREATEST, LEAST) and only conservation shows that   *)
(* the clamps never bite, while a reservation is guarded by `available`    *)
(* and only the equation turns that into room among the reserved units.    *)
(* The numbers of the orders, the promise Checkout implements and the      *)
(* goods Storefront owes rest on it.                                       *)
(*                                                                         *)
(* Inventory, at the end of the module.  A reservation looks at            *)
(* `available` alone and writes `reserved`; that it fits the column, and   *)
(* takes no unit twice, follows from NeverOverstated, which every UPDATE   *)
(* keeps.                                                                  *)
(***************************************************************************)
EXTENDS Storefront, Inventory, FiniteSetTheorems, WellFoundedInduction, TLAPS

-----------------------------------------------------------------------------
(* What one UPDATE does to a row whose columns agree. *)

\* Reserving moves units from `available` to `reserved`.
LEMMA ReserveKeepsBalance ==
  ASSUME NEW row \in Row, Balanced(row), NEW q \in Nat
  PROVE  /\ ReserveRow(row, q) \in Row
         /\ Balanced(ReserveRow(row, q))
         /\ ReserveRow(row, q).onHand = row.onHand
         /\ ReserveRow(row, q).reserved = row.reserved + q
BY DEF ReserveRow, Row, Balanced

\* A release of no more than is reserved meets neither of its clamps.
LEMMA ReleaseMeetsNoClamp ==
  ASSUME NEW row \in Row, Balanced(row), NEW q \in Nat, q <= row.reserved
  PROVE  /\ ReleaseRow(row, q) \in Row
         /\ Balanced(ReleaseRow(row, q))
         /\ ReleaseRow(row, q).onHand = row.onHand
         /\ ReleaseRow(row, q).reserved = row.reserved - q
<1>1. /\ Greatest(row.reserved - q, 0) = row.reserved - q
      /\ Least(row.available + q, row.onHand) = row.available + q
  BY DEF Row, Balanced, Least, Greatest
<1> QED BY <1>1 DEF ReleaseRow, Row, Balanced

\* A correction moves `on_hand` and `available` together.
LEMMA AdjustKeepsBalance ==
  ASSUME NEW row \in Row, Balanced(row), NEW delta \in Int
  PROVE  /\ AdjustRow(row, delta) \in Row
         /\ Balanced(AdjustRow(row, delta))
         /\ AdjustRow(row, delta).onHand = row.onHand + delta
         /\ AdjustRow(row, delta).reserved = row.reserved
BY DEF AdjustRow, Row, Balanced

-----------------------------------------------------------------------------
(* How a total (module Totals) follows a change of one of its terms, for every
   number of terms.  The witness is the old running total, shifted from the
   changed term on; no induction is needed. *)

\* A total of zeros is zero.
LEMMA TotalOfZeros ==
  ASSUME NEW N \in Nat, NEW Max \in Nat
  PROVE  IsTotal(0, [i \in 1 .. N |-> 0], N, Max)
<1> DEFINE zero == [i \in 0 .. N |-> 0]
<1>1. zero \in [0 .. N -> 0 .. Max]
  OBVIOUS
<1>2. RunningTotal(zero, [i \in 1 .. N |-> 0], N)
  BY DEF RunningTotal
<1>3. zero[N] = 0
  OBVIOUS
<1> QED BY <1>1, <1>2, <1>3 DEF IsTotal

\* Every term is at most the total.
LEMMA TermBelowTotal ==
  ASSUME NEW N \in Nat, NEW Max \in Nat, NEW f \in [1 .. N -> Nat],
         NEW n, IsTotal(n, f, N, Max), NEW s \in 1 .. N
  PROVE  /\ n \in 0 .. Max
         /\ f[s] <= n
<1>1. PICK t \in [0 .. N -> 0 .. Max] : RunningTotal(t, f, N) /\ t[N] = n
  BY DEF IsTotal
<1>2. t[s] = t[s - 1] + f[s] /\ t[s] <= t[N]
  BY <1>1 DEF RunningTotal
<1>3. t[s - 1] \in Nat /\ t[N] \in 0 .. Max /\ t[s] \in Nat
  BY <1>1
<1> QED BY <1>1, <1>2, <1>3

\* Raising one term raises the total by as much.
LEMMA TotalGrows ==
  ASSUME NEW N \in Nat, NEW Max \in Nat, NEW f \in [1 .. N -> Nat],
         NEW n, IsTotal(n, f, N, Max), NEW s \in 1 .. N,
         NEW q \in Nat, n + q <= Max
  PROVE  IsTotal(n + q, [f EXCEPT ![s] = @ + q], N, Max)
<1> DEFINE g == [f EXCEPT ![s] = @ + q]
<1>1. PICK t \in [0 .. N -> 0 .. Max] : RunningTotal(t, f, N) /\ t[N] = n
  BY DEF IsTotal
<1> DEFINE u == [i \in 0 .. N |-> IF i >= s THEN t[i] + q ELSE t[i]]
<1>2. \A i \in 0 .. N : t[i] \in 0 .. Max /\ t[i] <= n
  BY <1>1 DEF RunningTotal
<1>3. u \in [0 .. N -> 0 .. Max]
  <2>1. ASSUME NEW i \in 0 .. N PROVE (IF i >= s THEN t[i] + q ELSE t[i]) \in 0 .. Max
    <3>1. t[i] \in 0 .. Max /\ t[i] <= n /\ n \in 0 .. Max
      BY <1>1, <1>2
    <3> QED BY <3>1
  <2> QED BY <2>1
<1>4. u[0] = 0
  BY <1>1 DEF RunningTotal
<1>5. ASSUME NEW i \in 1 .. N PROVE u[i] = u[i - 1] + g[i]
  <2>1. t[i] = t[i - 1] + f[i] /\ t[i] \in Nat /\ t[i - 1] \in Nat
    BY <1>1 DEF RunningTotal
  <2>2. i - 1 \in 0 .. N /\ i \in 0 .. N
    OBVIOUS
  <2>3. CASE i = s
    BY <2>1, <2>2, <2>3
  <2>4. CASE i # s
    BY <2>1, <2>2, <2>4
  <2> QED BY <2>3, <2>4
<1>6. ASSUME NEW i \in 0 .. N, NEW j \in 0 .. N, i <= j PROVE u[i] <= u[j]
  <2>1. t[i] <= t[j] /\ t[i] \in Nat /\ t[j] \in Nat
    BY <1>1, <1>6 DEF RunningTotal
  <2> QED BY <2>1, <1>6
<1>7. u[N] = n + q
  BY <1>1
<1>8. RunningTotal(u, g, N)
  BY <1>4, <1>5, <1>6 DEF RunningTotal
<1> QED BY <1>3, <1>7, <1>8 DEF IsTotal

\* Lowering one term lowers the total by as much.
LEMMA TotalShrinks ==
  ASSUME NEW N \in Nat, NEW Max \in Nat, NEW f \in [1 .. N -> Nat],
         NEW n, IsTotal(n, f, N, Max), NEW s \in 1 .. N,
         NEW q \in Nat, q <= f[s]
  PROVE  IsTotal(n - q, [f EXCEPT ![s] = @ - q], N, Max)
<1> DEFINE g == [f EXCEPT ![s] = @ - q]
<1>1. PICK t \in [0 .. N -> 0 .. Max] : RunningTotal(t, f, N) /\ t[N] = n
  BY DEF IsTotal
<1> DEFINE u == [i \in 0 .. N |-> IF i >= s THEN t[i] - q ELSE t[i]]
<1>2. t[s] = t[s - 1] + f[s] /\ t[s - 1] \in 0 .. Max
  BY <1>1 DEF RunningTotal
<1>3. \A i \in 0 .. N : /\ t[i] \in 0 .. Max
                        /\ i >= s => t[i] >= t[s - 1] + f[s]
                        /\ i < s => t[i] <= t[s - 1]
  BY <1>1, <1>2 DEF RunningTotal
<1>4. u \in [0 .. N -> 0 .. Max]
  <2>1. ASSUME NEW i \in 0 .. N PROVE (IF i >= s THEN t[i] - q ELSE t[i]) \in 0 .. Max
    <3>1. t[i] \in 0 .. Max /\ (i >= s => t[i] >= t[s - 1] + f[s]) /\ f[s] \in Nat
      BY <1>3
    <3> QED BY <1>2, <3>1
  <2> QED BY <2>1
<1>5. u[0] = 0
  BY <1>1 DEF RunningTotal
<1>6. ASSUME NEW i \in 1 .. N PROVE u[i] = u[i - 1] + g[i]
  <2>1. t[i] = t[i - 1] + f[i] /\ t[i] \in Nat /\ t[i - 1] \in Nat
    BY <1>1 DEF RunningTotal
  <2>2. i - 1 \in 0 .. N /\ i \in 0 .. N
    OBVIOUS
  <2>3. CASE i = s
    BY <2>1, <2>2, <2>3
  <2>4. CASE i # s
    BY <2>1, <2>2, <2>4
  <2> QED BY <2>3, <2>4
<1>7. ASSUME NEW i \in 0 .. N, NEW j \in 0 .. N, i <= j PROVE u[i] <= u[j]
  <2>1. t[i] <= t[j] /\ t[i] \in Nat /\ t[j] \in Nat
    BY <1>1, <1>7 DEF RunningTotal
  <2> QED BY <2>1, <1>2, <1>3, <1>7
<1>8. u[N] = n - q
  BY <1>1
<1>9. RunningTotal(u, g, N)
  BY <1>5, <1>6, <1>7 DEF RunningTotal
<1> QED BY <1>4, <1>8, <1>9 DEF IsTotal

-----------------------------------------------------------------------------
(* Totals of smaller terms. *)

\* A nonempty set of numbers up to N has a least one: the least number i is the
\* one of the smallest interval 0..i.
LEMMA LeastIndex ==
  ASSUME NEW N \in Nat, NEW B \in SUBSET (0 .. N), B # {}
  PROVE  \E i \in B : \A j \in B : i <= j
<1> DEFINE all == 0 .. N
           upTo == {0 .. i : i \in B}
<1>1. IsFiniteSet(all)
  <2>1. 0 \in Int /\ N \in Int
    OBVIOUS
  <2>2. \A a, b \in Int : IsFiniteSet(a .. b)
    BY FS_Interval, Zenon
  <2> QED BY <2>1, <2>2
<1>2. IsWellFoundedOn(StrictSubsetOrdering(all), SUBSET all)
  BY <1>1, FS_StrictSubsetOrderingWellFounded, FS_FiniteSubsetsOfFinite
<1>3. upTo \subseteq SUBSET all /\ upTo # {}
  <2>1. ASSUME NEW i \in B PROVE 0 .. i \subseteq all
    OBVIOUS
  <2>2. upTo \subseteq SUBSET all
    BY <2>1
  <2>3. PICK i \in B : TRUE
    OBVIOUS
  <2>4. (0 .. i) \in upTo
    BY <2>3
  <2> QED BY <2>2, <2>4
<1>4. \E x \in upTo : \A y \in upTo : ~(<<y, x>> \in StrictSubsetOrdering(all))
  <2> HIDE DEF all, upTo
  <2> QED BY <1>2, <1>3, WFMin
<1>5. PICK x \in upTo : \A y \in upTo : ~(<<y, x>> \in StrictSubsetOrdering(all))
  BY <1>4
<1>6. PICK i \in B : x = 0 .. i
  BY <1>5
<1>7. ASSUME NEW j \in B, ~(i <= j) PROVE FALSE
  <2>1. (0 .. j) \in upTo /\ (0 .. j) \subseteq x /\ (0 .. j) # x
    <3>1. i \in x /\ i \notin 0 .. j
      BY <1>6, <1>7
    <3> QED BY <1>6, <1>7, <3>1
  <2>2. (0 .. j) \in SUBSET all /\ x \in SUBSET all
    BY <1>3, <2>1
  <2>3. <<0 .. j, x>> \in StrictSubsetOrdering(all)
    BY <2>1, <2>2 DEF StrictSubsetOrdering
  <2> QED BY <1>5, <2>1, <2>3
<1> QED BY <1>7

\* t is the running total of the first i terms of f, and not above u.
Begins(t, i, f, u, Max) ==
  /\ t \in [0 .. i -> 0 .. Max]
  /\ RunningTotal(t, f, i)
  /\ t[i] <= u[i]

\* It goes on while there is room for the next term.
LEMMA OneTermMore ==
  ASSUME NEW Max \in Nat, NEW f, NEW u, NEW i \in Nat \ {0}, f[i] \in Nat,
         NEW t, Begins(t, i - 1, f, u, Max),
         u[i] \in 0 .. Max, t[i - 1] + f[i] <= u[i]
  PROVE  \E s : Begins(s, i, f, u, Max)
<1> DEFINE next == t[i - 1] + f[i]
           s == [k \in 0 .. i |-> IF k = i THEN next ELSE t[k]]
<1>1. t \in [0 .. i - 1 -> 0 .. Max] /\ RunningTotal(t, f, i - 1)
  BY DEF Begins
<1>2. \A k \in 0 .. i : k # i => k \in 0 .. i - 1
  OBVIOUS
<1>3. t[i - 1] \in 0 .. Max /\ next \in 0 .. Max /\ t[i - 1] <= next
  BY <1>1
<1>4. s \in [0 .. i -> 0 .. Max]
  <2> HIDE DEF next
  <2>1. ASSUME NEW k \in 0 .. i
        PROVE (IF k = i THEN next ELSE t[k]) \in 0 .. Max
    BY <1>1, <1>2, <1>3
  <2> QED BY <2>1
<1>5. RunningTotal(s, f, i)
  <2>1. s[0] = 0
    BY <1>1 DEF RunningTotal
  <2>2. ASSUME NEW k \in 1 .. i PROVE s[k] = s[k - 1] + f[k]
    BY <1>1, <1>2 DEF RunningTotal
  <2>3. ASSUME NEW j \in 0 .. i, NEW k \in 0 .. i, j <= k PROVE s[j] <= s[k]
    <3>1. CASE k = i /\ j # i
      <4>1. t[j] <= t[i - 1] /\ t[j] \in 0 .. Max
        BY <1>1, <1>2, <3>1 DEF RunningTotal
      <4> HIDE DEF next
      <4> QED BY <1>3, <3>1, <4>1
    <3>2. CASE k = i /\ j = i
      BY <1>3, <3>2
    <3>3. CASE k # i
      BY <1>1, <1>2, <2>3, <3>3 DEF RunningTotal
    <3> QED BY <3>1, <3>2, <3>3
  <2> QED BY <2>1, <2>2, <2>3 DEF RunningTotal
<1>6. Begins(s, i, f, u, Max)
  BY <1>4, <1>5 DEF Begins
<1> QED BY <1>6

\* Terms that are at most those of a total have a total too, at most as large.
LEMMA TotalBelow ==
  ASSUME NEW N \in Nat, NEW Max \in Nat, NEW f \in [1 .. N -> Nat],
         NEW g \in [1 .. N -> Nat], \A i \in 1 .. N : f[i] <= g[i],
         NEW n, IsTotal(n, g, N, Max)
  PROVE  \E m \in 0 .. n : IsTotal(m, f, N, Max)
<1>1. PICK u \in [0 .. N -> 0 .. Max] : RunningTotal(u, g, N) /\ u[N] = n
  BY DEF IsTotal
<1> DEFINE bad == {i \in 0 .. N : ~ \E t : Begins(t, i, f, u, Max)}
<1>2. bad = {}
  <2> SUFFICES ASSUME bad # {} PROVE FALSE
    OBVIOUS
  <2>1. PICK i \in bad : \A j \in bad : i <= j
    <3>1. bad \in SUBSET (0 .. N)
      OBVIOUS
    <3> HIDE DEF bad
    <3> QED BY <3>1, LeastIndex
  <2>a. i \in 0 .. N /\ \A t : ~Begins(t, i, f, u, Max)
    BY <2>1
  <2>b. \A j \in 0 .. N : j < i => \E t : Begins(t, j, f, u, Max)
    <3> SUFFICES ASSUME NEW j \in 0 .. N, j < i PROVE \E t : Begins(t, j, f, u, Max)
      OBVIOUS
    <3>1. j \notin bad
      <4> HIDE DEF bad
      <4>1. i \in Nat /\ j \in Nat
        BY <2>a
      <4> QED BY <2>1, <4>1
    <3> QED BY <3>1
  <2> HIDE DEF bad
  <2>2. CASE i = 0
    <3> DEFINE t == [k \in 0 .. 0 |-> 0]
    <3>1. t \in [0 .. 0 -> 0 .. Max] /\ RunningTotal(t, f, 0) /\ t[0] = 0
      BY DEF RunningTotal
    <3>2. u[0] = 0
      BY <1>1 DEF RunningTotal
    <3>3. Begins(t, 0, f, u, Max)
      BY <3>1, <3>2 DEF Begins
    <3> HIDE DEF t
    <3> QED BY <2>a, <2>2, <3>3
  <2>3. CASE i > 0
    <3>1. i \in 1 .. N /\ i - 1 \in 0 .. N /\ i - 1 < i
      BY <2>a, <2>3
    <3>2. PICK t : Begins(t, i - 1, f, u, Max)
      BY <2>b, <3>1
    <3>3. u[i] = u[i - 1] + g[i] /\ u[i] \in 0 .. Max /\ u[i - 1] \in 0 .. Max
      BY <1>1, <3>1 DEF RunningTotal
    <3>4. /\ t \in [0 .. i - 1 -> 0 .. Max] /\ t[i - 1] \in 0 .. Max
          /\ RunningTotal(t, f, i - 1) /\ t[i - 1] <= u[i - 1]
      BY <3>1, <3>2 DEF Begins
    <3>5. f[i] \in Nat /\ g[i] \in Nat /\ f[i] <= g[i]
      BY <3>1
    <3>6. i \in Nat \ {0} /\ t[i - 1] + f[i] <= u[i]
      BY <3>1, <3>3, <3>4, <3>5
    <3>7. \E s : Begins(s, i, f, u, Max)
      BY <3>2, <3>3, <3>5, <3>6, OneTermMore
    <3> QED BY <2>a, <3>7
  <2> QED BY <2>a, <2>2, <2>3
<1>3. PICK t : Begins(t, N, f, u, Max)
  <2>1. N \in 0 .. N
    OBVIOUS
  <2> QED BY <1>2, <2>1
<1>4. /\ t \in [0 .. N -> 0 .. Max] /\ RunningTotal(t, f, N)
      /\ t[N] \in 0 .. Max /\ t[N] <= n /\ n \in 0 .. Max
  BY <1>1, <1>3 DEF Begins
<1>5. t[N] \in 0 .. n
  BY <1>4
<1>6. IsTotal(t[N], f, N, Max)
  BY <1>4 DEF IsTotal
<1> QED BY <1>5, <1>6

-----------------------------------------------------------------------------
(* The inductive invariant. *)

\* A session that has not reserved yet has no reservation.
FreshHoldsNothing ==
  \A s \in Session : status[s] \in {"NONE", "CREATED"} => hold[s] = "NONE"

\* A request in flight works on a session and holds a proper order number.
DrawnForSession ==
  \A r \in Request : drawn[r] # Idle =>
    drawn[r].session \in Session /\ drawn[r].number # 0

IInv ==
  /\ TypeOK
  /\ LedgerEquation
  /\ ReservedIsSumOfHolds
  /\ HoldFollowsSession
  /\ OrderOwnsHold
  /\ FreshHoldsNothing
  /\ DrawnForSession

-----------------------------------------------------------------------------
(* What is reserved and what the sessions hold. *)

\* The units a session keeps are natural numbers, and at most what is reserved.
LEMMA HeldIsNatural ==
  ASSUME TypeOK, NEW v \in Variant
  PROVE  Held(v) \in [1 .. NumSessions -> Nat]
BY CheckoutAssumption DEF TypeOK, Held, Session, Basket

LEMMA HeldBelowReserved ==
  ASSUME TypeOK, ReservedIsSumOfHolds, NEW v \in Variant, NEW s \in Session
  PROVE  /\ inv[v].reserved \in 0 .. MaxInt
         /\ Held(v)[s] <= inv[v].reserved
<1>1. IsTotal(inv[v].reserved, Held(v), NumSessions, MaxInt)
  BY DEF ReservedIsSumOfHolds
<1>2. NumSessions \in Nat /\ MaxInt \in Nat
  BY CheckoutAssumption, MaxIntAssumption
<1> QED BY <1>1, <1>2, HeldIsNatural, TermBelowTotal DEF Session

-----------------------------------------------------------------------------
(* Initial states. *)

LEMMA InitIInv == Init => IInv
<1> SUFFICES ASSUME Init PROVE IInv
  OBVIOUS
<1> USE CheckoutAssumption, MaxIntAssumption DEF Init
<1>1. TypeOK
  <2>1. inv \in [Variant -> Row] /\ \A v \in Variant : inv[v].onHand \in 0 .. MaxInt
    BY DEF NewRow, Row
  <2>2. items \in [Session -> Basket]
    BY DEF EmptyBasket, Basket
  <2>3. drawn \in [Request -> [session : Session \cup {0}, number : Nat]]
    BY DEF Idle
  <2> QED BY <2>1, <2>2, <2>3 DEF TypeOK, SessionStatus, HoldStatus
<1>2. LedgerEquation
  BY DEF LedgerEquation, Balanced, NewRow
<1>3. ReservedIsSumOfHolds
  <2> SUFFICES ASSUME NEW v \in Variant
               PROVE  IsTotal(inv[v].reserved, Held(v), NumSessions, MaxInt)
    BY DEF ReservedIsSumOfHolds
  <2>1. inv[v].reserved = 0
    BY DEF NewRow
  <2>2. Held(v) = [i \in 1 .. NumSessions |-> 0]
    BY DEF Held, Session
  <2> QED BY <2>1, <2>2, TotalOfZeros
<1>4. HoldFollowsSession /\ OrderOwnsHold /\ FreshHoldsNothing /\ DrawnForSession
  BY DEF HoldFollowsSession, OrderOwnsHold, FreshHoldsNothing, DrawnForSession
<1> QED BY <1>1, <1>2, <1>3, <1>4 DEF IInv

-----------------------------------------------------------------------------
(* The two ways the reserved units change. *)

\* Reserving a session's lines keeps every row typed, balanced and counted.
LEMMA ReserveStep ==
  ASSUME IInv, TypeOK', NEW s \in Session, ReserveInventory(s)
  PROVE  LedgerEquation' /\ ReservedIsSumOfHolds'
<1> SUFFICES ASSUME NEW v \in Variant
             PROVE  /\ Balanced(inv'[v])
                    /\ IsTotal(inv'[v].reserved, Held(v)', NumSessions, MaxInt)
  BY DEF LedgerEquation, ReservedIsSumOfHolds
<1> DEFINE q == items[s][v]
<1>1. /\ inv[v] \in Row /\ Balanced(inv[v]) /\ inv[v].onHand \in 0 .. MaxInt
      /\ q \in Nat
  BY CheckoutAssumption DEF IInv, TypeOK, LedgerEquation, Basket
<1>2. inv'[v] = ReserveRow(inv[v], q)
  BY DEF ReserveInventory, ReserveAll
<1>3. Balanced(inv'[v]) /\ inv'[v].reserved = inv[v].reserved + q
  <2> HIDE DEF q
  <2>1. /\ Balanced(ReserveRow(inv[v], q))
        /\ ReserveRow(inv[v], q).reserved = inv[v].reserved + q
    BY <1>1, ReserveKeepsBalance
  <2> QED BY <1>2, <2>1
<1>4. q > 0 => inv[v].available >= q
  BY DEF ReserveInventory, Sellable, CanReserve
<1>5. inv[v].reserved \in 0 .. MaxInt
  BY HeldBelowReserved DEF IInv
<1>6. inv[v].reserved + q <= MaxInt
  BY <1>1, <1>4, <1>5, MaxIntAssumption DEF Balanced, Row
<1>7. hold[s] = "NONE" /\ hold' = [hold EXCEPT ![s] = "ACTIVE"] /\ items' = items
  BY DEF IInv, FreshHoldsNothing, ReserveInventory
<1>8. Held(v) \in [1 .. NumSessions -> Nat] /\ Held(v)[s] = 0
  BY <1>7, HeldIsNatural DEF IInv, Held
<1>9. Held(v)' = [Held(v) EXCEPT ![s] = @ + q]
  <2>1. ASSUME NEW t \in Session
        PROVE  Held(v)'[t] = [Held(v) EXCEPT ![s] = @ + q][t]
    BY <1>1, <1>7, <1>8 DEF IInv, TypeOK, Held, Session
  <2> QED BY <2>1, <1>8 DEF Held, Session
<1>10. IsTotal(inv[v].reserved, Held(v), NumSessions, MaxInt)
  BY DEF IInv, ReservedIsSumOfHolds
<1>11. IsTotal(inv[v].reserved + q, [Held(v) EXCEPT ![s] = @ + q], NumSessions, MaxInt)
  BY <1>1, <1>6, <1>8, <1>10, TotalGrows, CheckoutAssumption, MaxIntAssumption DEF Session
<1> QED BY <1>3, <1>9, <1>11

\* Closing a session keeps every row typed, balanced and counted, whether its
\* reservation is ACTIVE and released, or is none of its business any more.
LEMMA CloseStep ==
  ASSUME IInv, NEW s \in Session, NEW closed \in {"RELEASED", "EXPIRED"}, NEW final,
         CloseSession(s, closed, final), items' = items
  PROVE  /\ inv' \in [Variant -> Row]
         /\ \A v \in Variant : inv'[v].onHand = inv[v].onHand
         /\ LedgerEquation'
         /\ ReservedIsSumOfHolds'
<1>1. CASE hold[s] # "ACTIVE"
  <2>1. inv' = inv /\ hold' = hold
    BY <1>1 DEF CloseSession
  <2>2. \A v \in Variant : Held(v)' = Held(v)
    BY <2>1 DEF Held
  <2> QED BY <2>1, <2>2 DEF IInv, TypeOK, LedgerEquation, ReservedIsSumOfHolds
<1>2. CASE hold[s] = "ACTIVE"
  <2>1. inv' = ReleaseAll(items[s]) /\ hold' = [hold EXCEPT ![s] = closed]
    BY <1>2 DEF CloseSession, GiveBack
  <2>2. ASSUME NEW v \in Variant
        PROVE  /\ inv'[v] \in Row /\ Balanced(inv'[v])
               /\ inv'[v].onHand = inv[v].onHand
               /\ IsTotal(inv'[v].reserved, Held(v)', NumSessions, MaxInt)
    <3> DEFINE q == items[s][v]
    <3>1. inv[v] \in Row /\ Balanced(inv[v]) /\ q \in Nat
      BY CheckoutAssumption DEF IInv, TypeOK, LedgerEquation, Basket
    <3>2. Held(v)[s] = q /\ Held(v) \in [1 .. NumSessions -> Nat]
      BY <1>2, HeldIsNatural DEF IInv, Held
    <3>3. q <= inv[v].reserved
      BY <3>2, HeldBelowReserved DEF IInv
    <3>4. inv'[v] = ReleaseRow(inv[v], q)
      BY <2>1 DEF ReleaseAll
    <3>5. /\ inv'[v] \in Row /\ Balanced(inv'[v])
          /\ inv'[v].onHand = inv[v].onHand
          /\ inv'[v].reserved = inv[v].reserved - q
      BY <3>1, <3>3, <3>4, ReleaseMeetsNoClamp
    <3>6. Held(v)' = [Held(v) EXCEPT ![s] = @ - q]
      <4>1. ASSUME NEW t \in Session
            PROVE  Held(v)'[t] = [Held(v) EXCEPT ![s] = @ - q][t]
        BY <2>1, <3>1, <3>2 DEF IInv, TypeOK, Held, Session
      <4> QED BY <4>1, <3>2 DEF Held, Session
    <3>7. IsTotal(inv[v].reserved, Held(v), NumSessions, MaxInt)
      BY DEF IInv, ReservedIsSumOfHolds
    <3>8. IsTotal(inv[v].reserved - q, [Held(v) EXCEPT ![s] = @ - q], NumSessions, MaxInt)
      <4>1. NumSessions \in Nat /\ MaxInt \in Nat /\ s \in 1 .. NumSessions
        BY CheckoutAssumption, MaxIntAssumption DEF Session
      <4>2. q <= Held(v)[s]
        BY <3>1, <3>2
      <4> HIDE DEF q
      <4> QED BY <3>1, <3>2, <3>7, <4>1, <4>2, TotalShrinks
    <3> QED BY <3>5, <3>6, <3>8
  <2>3. inv' \in [Variant -> Row]
    BY <2>1, <2>2 DEF ReleaseAll
  <2> QED BY <2>2, <2>3 DEF LedgerEquation, ReservedIsSumOfHolds
<1> QED BY <1>1, <1>2

\* Rows and holdings that stand still stay balanced and counted.
LEMMA SameHoldings ==
  ASSUME IInv, inv' = inv, \A v \in Variant : Held(v)' = Held(v)
  PROVE  LedgerEquation' /\ ReservedIsSumOfHolds'
BY DEF IInv, LedgerEquation, ReservedIsSumOfHolds

\* A stock correction moves what is on hand and available, not what is reserved.
LEMMA AdjustStep ==
  ASSUME IInv, NEW v \in Variant, NEW delta \in Deltas, CorrectStock(v, delta)
  PROVE  /\ inv' \in [Variant -> Row]
         /\ \A w \in Variant : inv'[w].onHand \in 0 .. MaxInt
         /\ \A w \in Variant : inv'[w].reserved = inv[w].reserved
         /\ LedgerEquation'
         /\ ReservedIsSumOfHolds'
<1> DEFINE row == AdjustRow(inv[v], delta)
<1>1. inv[v] \in Row /\ Balanced(inv[v]) /\ delta \in Int
  BY CheckoutAssumption DEF IInv, TypeOK, LedgerEquation
<1>2. /\ row \in Row /\ Balanced(row)
      /\ row.onHand = inv[v].onHand + delta /\ row.reserved = inv[v].reserved
  BY <1>1, AdjustKeepsBalance
<1>3. row.onHand \in 0 .. MaxInt
  BY <1>1, <1>2, MaxIntAssumption DEF CorrectStock, CanAdjust, Row
<1>4. inv' = [inv EXCEPT ![v] = row]
  BY DEF CorrectStock
<1>5. \A w \in Variant : Held(w)' = Held(w)
  BY DEF CorrectStock, Held
<1> HIDE DEF row
<1>6. inv' \in [Variant -> Row] /\ \A w \in Variant : inv'[w].onHand \in 0 .. MaxInt
  BY <1>2, <1>3, <1>4 DEF IInv, TypeOK
<1>7. \A w \in Variant : inv'[w].reserved = inv[w].reserved /\ Balanced(inv'[w])
  BY <1>2, <1>4 DEF IInv, TypeOK, LedgerEquation
<1> QED BY <1>5, <1>6, <1>7 DEF IInv, LedgerEquation, ReservedIsSumOfHolds

-----------------------------------------------------------------------------
(* Every action preserves the invariant. *)

LEMMA CreateCheckoutStep ==
  ASSUME IInv, NEW s \in Session, NEW basket \in Basket, CreateCheckout(s, basket)
  PROVE  IInv'
<1>1. hold[s] = "NONE"
  BY DEF IInv, FreshHoldsNothing, CreateCheckout, Opened
<1>2. TypeOK'
  BY DEF IInv, TypeOK, CreateCheckout, SessionStatus
<1>3. \A v \in Variant : Held(v)' = Held(v)
  BY <1>1 DEF IInv, TypeOK, CreateCheckout, Held
<1>4. LedgerEquation' /\ ReservedIsSumOfHolds'
  BY <1>3, SameHoldings DEF CreateCheckout
<1>5. HoldFollowsSession' /\ OrderOwnsHold' /\ FreshHoldsNothing' /\ DrawnForSession'
  BY <1>1 DEF IInv, TypeOK, CreateCheckout, HoldFollowsSession, OrderOwnsHold,
              FreshHoldsNothing, DrawnForSession
<1> QED BY <1>2, <1>4, <1>5 DEF IInv

LEMMA ReserveInventoryStep ==
  ASSUME IInv, NEW s \in Session, ReserveInventory(s)
  PROVE  IInv'
<1>1. TypeOK'
  <2>1. ASSUME NEW v \in Variant
        PROVE  inv'[v] \in Row /\ inv'[v].onHand = inv[v].onHand
    <3> DEFINE q == items[s][v]
    <3>1. inv[v] \in Row /\ Balanced(inv[v]) /\ q \in Nat
      BY CheckoutAssumption DEF IInv, TypeOK, LedgerEquation, Basket
    <3>2. inv'[v] = ReserveRow(inv[v], q)
      BY DEF ReserveInventory, ReserveAll
    <3> HIDE DEF q
    <3>3. ReserveRow(inv[v], q) \in Row /\ ReserveRow(inv[v], q).onHand = inv[v].onHand
      BY <3>1, ReserveKeepsBalance
    <3> QED BY <3>2, <3>3
  <2>2. inv' \in [Variant -> Row] /\ \A v \in Variant : inv'[v].onHand \in 0 .. MaxInt
    BY <2>1 DEF IInv, TypeOK, ReserveInventory, ReserveAll
  <2> QED BY <2>2 DEF IInv, TypeOK, ReserveInventory, SessionStatus, HoldStatus
<1>2. LedgerEquation' /\ ReservedIsSumOfHolds'
  BY <1>1, ReserveStep
<1>3. HoldFollowsSession' /\ OrderOwnsHold' /\ FreshHoldsNothing' /\ DrawnForSession'
  BY DEF IInv, TypeOK, ReserveInventory, HoldFollowsSession, OrderOwnsHold,
         FreshHoldsNothing, DrawnForSession
<1> QED BY <1>1, <1>2, <1>3 DEF IInv

\* Cancelling and expiring differ in the two statuses they write.
LEMMA ClosingStep ==
  ASSUME IInv, NEW s \in Session, NEW closed \in {"RELEASED", "EXPIRED"},
         NEW final \in {"CANCELLED", "EXPIRED"},
         CloseSession(s, closed, final),
         sweep' \subseteq Session,
         UNCHANGED <<listed, items, late, orderNo, drawn>>
  PROVE  IInv'
<1>1. /\ inv' \in [Variant -> Row]
      /\ \A v \in Variant : inv'[v].onHand = inv[v].onHand
      /\ LedgerEquation' /\ ReservedIsSumOfHolds'
  BY CloseStep
<1>2. /\ status' = [status EXCEPT ![s] = final]
      /\ hold' = IF hold[s] = "ACTIVE" THEN [hold EXCEPT ![s] = closed] ELSE hold
  BY DEF CloseSession, GiveBack
<1>3. TypeOK'
  BY <1>1, <1>2 DEF IInv, TypeOK, SessionStatus, HoldStatus
<1>4. HoldFollowsSession' /\ OrderOwnsHold' /\ FreshHoldsNothing' /\ DrawnForSession'
  BY <1>2 DEF IInv, TypeOK, HoldFollowsSession, OrderOwnsHold, FreshHoldsNothing,
              DrawnForSession
<1> QED BY <1>1, <1>3, <1>4 DEF IInv

LEMMA DrawNumberStep ==
  ASSUME IInv, NEW r \in Request, NEW s \in Session, DrawNumber(r, s)
  PROVE  IInv'
<1>1. PICK last \in OrderNumbers \cup {0} :
        drawn' = [drawn EXCEPT ![r] = [session |-> s, number |-> last + 1]]
  BY DEF DrawNumber
<1>2. last \in Nat
  BY <1>1 DEF OrderNumbers, IInv, TypeOK
<1>3. TypeOK'
  BY <1>1, <1>2 DEF IInv, TypeOK, DrawNumber
<1>4. \A v \in Variant : Held(v)' = Held(v)
  BY DEF DrawNumber, Held
<1>5. LedgerEquation' /\ ReservedIsSumOfHolds'
  BY <1>4, SameHoldings DEF DrawNumber
<1>6. DrawnForSession'
  BY <1>1, <1>2 DEF IInv, TypeOK, DrawnForSession
<1>7. HoldFollowsSession' /\ OrderOwnsHold' /\ FreshHoldsNothing'
  BY DEF IInv, DrawNumber, HoldFollowsSession, OrderOwnsHold, FreshHoldsNothing
<1> QED BY <1>3, <1>5, <1>6, <1>7 DEF IInv

LEMMA PlaceOrderStep ==
  ASSUME IInv, NEW r \in Request, PlaceOrder(r)
  PROVE  IInv'
<1> DEFINE s == drawn[r].session
           n == drawn[r].number
<1>1. s \in Session /\ n \in Nat \ {0}
  BY DEF IInv, TypeOK, DrawnForSession, PlaceOrder
<1>2. /\ status[s] = "RESERVED" /\ hold[s] = "ACTIVE"
      /\ orderNo' = [orderNo EXCEPT ![s] = n]
      /\ hold' = [hold EXCEPT ![s] = "CONFIRMED"]
      /\ status' = [status EXCEPT ![s] = "COMPLETED"]
      /\ drawn' = [drawn EXCEPT ![r] = Idle]
      /\ UNCHANGED <<inv, listed, items, late, sweep>>
  BY DEF PlaceOrder, CanCommit, ReadyToOrder
<1> HIDE DEF s, n
<1>3. TypeOK'
  BY <1>1, <1>2 DEF IInv, TypeOK, SessionStatus, HoldStatus, Idle
<1>4. \A v \in Variant : Held(v)' = Held(v)
  BY <1>1, <1>2 DEF IInv, TypeOK, Held
<1>5. LedgerEquation' /\ ReservedIsSumOfHolds'
  BY <1>2, <1>4, SameHoldings
<1>6. HoldFollowsSession' /\ OrderOwnsHold' /\ FreshHoldsNothing'
  BY <1>1, <1>2 DEF IInv, TypeOK, HoldFollowsSession, OrderOwnsHold, FreshHoldsNothing
<1>7. DrawnForSession'
  BY <1>2 DEF IInv, TypeOK, DrawnForSession
<1> QED BY <1>3, <1>5, <1>6, <1>7 DEF IInv

\* Steps that leave stock, sessions, reservations and orders alone.
LEMMA QuietStep ==
  ASSUME IInv, TypeOK', DrawnForSession', UNCHANGED <<inv, status, items, hold, orderNo>>
  PROVE  IInv'
<1>1. \A v \in Variant : Held(v)' = Held(v)
  BY DEF Held
<1>2. LedgerEquation' /\ ReservedIsSumOfHolds'
  BY <1>1, SameHoldings
<1> QED BY <1>2 DEF IInv, HoldFollowsSession, OrderOwnsHold, FreshHoldsNothing

LEMMA NextIInv == IInv /\ [Next]_vars => IInv'
<1> SUFFICES ASSUME IInv, [Next]_vars PROVE IInv'
  OBVIOUS
<1>1. ASSUME NEW s \in Session, NEW basket \in Basket, CreateCheckout(s, basket)
      PROVE  IInv'
  BY <1>1, CreateCheckoutStep
<1>2. ASSUME NEW s \in Session, ReserveInventory(s) PROVE IInv'
  BY <1>2, ReserveInventoryStep
<1>3. ASSUME NEW s \in Session, CancelCheckout(s) PROVE IInv'
  BY <1>3, ClosingStep DEF CancelCheckout, IInv, TypeOK
<1>4. ASSUME NEW s \in Session, ExpireCommit(s) PROVE IInv'
  BY <1>4, ClosingStep DEF ExpireCommit, IInv, TypeOK
<1>5. ASSUME NEW s \in Session, ExpireCheck(s) \/ Elapse(s) PROVE IInv'
  BY <1>5, QuietStep DEF ExpireCheck, Elapse, IInv, TypeOK, DrawnForSession
<1>6. ASSUME NEW r \in Request, NEW s \in Session, DrawNumber(r, s) PROVE IInv'
  BY <1>6, DrawNumberStep
<1>7. ASSUME NEW r \in Request, PlaceOrder(r) PROVE IInv'
  BY <1>7, PlaceOrderStep
<1>8. ASSUME NEW r \in Request, AbortOrder(r) PROVE IInv'
  BY <1>8, QuietStep DEF AbortOrder, IInv, TypeOK, DrawnForSession, Idle
<1>9. ASSUME NEW v \in Variant, NEW delta \in Deltas, CorrectStock(v, delta) PROVE IInv'
  <2>1. TypeOK' /\ LedgerEquation' /\ ReservedIsSumOfHolds'
    BY <1>9, AdjustStep DEF CorrectStock, IInv, TypeOK
  <2> QED BY <1>9, <2>1 DEF CorrectStock, IInv, HoldFollowsSession, OrderOwnsHold,
                            FreshHoldsNothing, DrawnForSession
<1>10. ASSUME NEW v \in Variant, Relist(v) PROVE IInv'
  BY <1>10, QuietStep DEF Relist, IInv, TypeOK, DrawnForSession
<1>11. CASE UNCHANGED vars
  BY <1>11, QuietStep DEF vars, IInv, TypeOK, DrawnForSession
<1> QED BY <1>1, <1>2, <1>3, <1>4, <1>5, <1>6, <1>7, <1>8, <1>9, <1>10, <1>11
        DEF Next, SessionStep

-----------------------------------------------------------------------------
(* The theorems. *)

\* The invariant holds in every state the checkout can reach.
THEOREM Inductive == Spec => []IInv
BY InitIInv, NextIInv, PTL DEF Spec

\* No interleaving of checkouts, orders, sweeps and corrections leaves a
\* column, a status or a request outside its type.
THEOREM TypeCorrect == Spec => []TypeOK
<1>1. IInv => TypeOK
  BY DEF IInv
<1> QED BY <1>1, Inductive, PTL

\* available = on_hand - reserved in every row, for any number of sessions:
\* the clamps of releaseStock never hide a release of more than is reserved.
THEOREM LedgerHolds == Spec => []LedgerEquation
<1>1. IInv => LedgerEquation
  BY DEF IInv
<1> QED BY <1>1, Inductive, PTL

\* The counter inventory.reserved is the sum of the reservations that stand.
THEOREM ReservedConserved == Spec => []ReservedIsSumOfHolds
<1>1. IInv => ReservedIsSumOfHolds
  BY DEF IInv
<1> QED BY <1>1, Inductive, PTL

\* A session is RESERVED exactly while its reservation is ACTIVE.
THEOREM HoldFollows == Spec => []HoldFollowsSession
<1>1. IInv => HoldFollowsSession
  BY DEF IInv
<1> QED BY <1>1, Inductive, PTL

\* An order and its CONFIRMED reservation come and stay together.
THEOREM OrderOwns == Spec => []OrderOwnsHold
<1>1. IInv => OrderOwnsHold
  BY DEF IInv
<1> QED BY <1>1, Inductive, PTL

-----------------------------------------------------------------------------
\* A reservation out of the ACTIVE state is never touched again.
LEMMA ClosedHoldStep ==
  ASSUME IInv, [Next]_vars, NEW s \in Session,
         hold[s] \in {"RELEASED", "EXPIRED", "CONFIRMED"}
  PROVE  hold'[s] = hold[s]
<1> USE DEF IInv, TypeOK
<1>1. ASSUME NEW t \in Session, ReserveInventory(t) PROVE hold'[s] = hold[s]
  <2>1. hold[t] = "NONE"
    BY <1>1 DEF ReserveInventory, FreshHoldsNothing
  <2> QED BY <1>1, <2>1 DEF ReserveInventory
<1>2. ASSUME NEW t \in Session, CancelCheckout(t) \/ ExpireCommit(t) PROVE hold'[s] = hold[s]
  BY <1>2 DEF CancelCheckout, ExpireCommit, CloseSession, GiveBack
<1>3. ASSUME NEW r \in Request, PlaceOrder(r) PROVE hold'[s] = hold[s]
  BY <1>3 DEF PlaceOrder, CanCommit, ReadyToOrder
<1>4. CASE UNCHANGED hold
  BY <1>4
<1> QED BY <1>1, <1>2, <1>3, <1>4
        DEF Next, SessionStep, vars, CreateCheckout, ExpireCheck, Elapse, DrawNumber, AbortOrder,
            CorrectStock, Relist

\* No late cancel, sweep or order gives the stock of a closed reservation back.
THEOREM ClosedHoldStays == Spec => ClosedHoldIsFinal
<1>1. IInv /\ [Next]_vars =>
        [\A s \in Session : hold[s] \in {"RELEASED", "EXPIRED", "CONFIRMED"}
           => hold'[s] = hold[s]]_vars
  BY ClosedHoldStep
<1> QED BY <1>1, Inductive, PTL DEF Spec, ClosedHoldIsFinal

\* A step that promises more units of a variant promises units on hand.
LEMMA OversellStep ==
  ASSUME IInv, [Next]_vars, NEW v \in Variant, inv'[v].reserved > inv[v].reserved
  PROVE  inv'[v].reserved <= inv'[v].onHand
<1>1. ASSUME NEW s \in Session, ReserveInventory(s)
      PROVE  inv'[v].reserved <= inv'[v].onHand
  <2> DEFINE q == items[s][v]
  <2>1. inv[v] \in Row /\ Balanced(inv[v]) /\ q \in Nat
    BY CheckoutAssumption DEF IInv, TypeOK, LedgerEquation, Basket
  <2>2. inv'[v] = ReserveRow(inv[v], q)
    BY <1>1 DEF ReserveInventory, ReserveAll
  <2>3. q > 0 => inv[v].available >= q
    BY <1>1 DEF ReserveInventory, Sellable, CanReserve
  <2> HIDE DEF q
  <2>4. /\ ReserveRow(inv[v], q).onHand = inv[v].onHand
        /\ ReserveRow(inv[v], q).reserved = inv[v].reserved + q
    BY <2>1, ReserveKeepsBalance
  <2>5. q > 0
    BY <2>1, <2>2, <2>4 DEF Row
  <2> QED BY <2>1, <2>2, <2>3, <2>4, <2>5 DEF Row, Balanced
<1>2. ASSUME NEW s \in Session, NEW closed \in {"RELEASED", "EXPIRED"}, NEW final,
             CloseSession(s, closed, final)
      PROVE  FALSE
  <2>1. inv'[v] = ReleaseRow(inv[v], items[s][v]) /\ hold[s] = "ACTIVE"
    <3>1. inv' # inv
      BY DEF IInv, TypeOK, Row
    <3> QED BY <1>2, <3>1 DEF CloseSession, GiveBack, ReleaseAll
  <2>2. inv[v] \in Row /\ Balanced(inv[v]) /\ items[s][v] \in Nat
    BY CheckoutAssumption DEF IInv, TypeOK, LedgerEquation, Basket
  <2>3. items[s][v] <= inv[v].reserved
    BY <2>1, HeldBelowReserved DEF IInv, Held
  <2>4. ReleaseRow(inv[v], items[s][v]).reserved = inv[v].reserved - items[s][v]
    BY <2>2, <2>3, ReleaseMeetsNoClamp
  <2> QED BY <2>1, <2>2, <2>4 DEF Row
<1>3. ASSUME NEW w \in Variant, NEW delta \in Deltas, CorrectStock(w, delta) PROVE FALSE
  <2>1. inv'[v].reserved = inv[v].reserved /\ inv[v] \in Row
    BY <1>3, AdjustStep DEF IInv, TypeOK
  <2> QED BY <2>1 DEF Row
<1>4. CASE UNCHANGED inv
  BY <1>4 DEF IInv, TypeOK, Row
<1>5. ASSUME NEW s \in Session, CancelCheckout(s) \/ ExpireCommit(s) PROVE FALSE
  BY <1>2, <1>5 DEF CancelCheckout, ExpireCommit
<1> QED BY <1>1, <1>3, <1>4, <1>5
        DEF Next, SessionStep, vars, CreateCheckout, ExpireCheck, Elapse, DrawNumber, PlaceOrder,
            AbortOrder, Relist

\* BR-INV-003 for any number of customers: nobody is promised what is not there.
THEOREM NothingOversold == Spec => NeverOversold
<1>1. IInv /\ [Next]_vars =>
        [\A v \in Variant : inv'[v].reserved > inv[v].reserved
           => inv'[v].reserved <= inv'[v].onHand]_vars
  BY OversellStep
<1> QED BY <1>1, Inductive, PTL DEF Spec, NeverOversold

-----------------------------------------------------------------------------
(* Order numbers.  A request may draw a number long before its order is placed
   and others may place theirs meanwhile; what it drew is never more than one
   past the orders there are. *)

Ordered == {s \in Session : orderNo[s] # 0}

DrawnWithinReach ==
  \A r \in Request : drawn[r] # Idle => drawn[r].number <= Cardinality(Ordered) + 1

NumbersInv == IInv /\ OrderNumbersGapFree /\ DrawnWithinReach

LEMMA OrderedFinite == IsFiniteSet(Ordered) /\ Cardinality(Ordered) \in Nat
<1>1. NumSessions \in Int /\ 1 \in Int
  BY CheckoutAssumption
<1>2. \A a, b \in Int : IsFiniteSet(a .. b)
  BY FS_Interval, Zenon
<1>3. IsFiniteSet(Session)
  BY <1>1, <1>2 DEF Session
<1>4. IsFiniteSet(Ordered)
  BY <1>3, FS_Subset DEF Ordered
<1> QED BY <1>4, FS_CardinalityType

\* The number a new order brings is the next one: it is within reach, and the
\* unique index refuses the ones taken.
LEMMA PlaceOrderNumber ==
  ASSUME NumbersInv, NEW r \in Request, PlaceOrder(r)
  PROVE  OrderNumbersGapFree' /\ DrawnWithinReach'
<1> DEFINE s == drawn[r].session
           n == drawn[r].number
           count == Cardinality(Ordered)
<1>1. s \in Session /\ n \in Nat \ {0} /\ n <= count + 1 /\ n \notin OrderNumbers
  BY DEF NumbersInv, IInv, TypeOK, DrawnForSession, DrawnWithinReach, PlaceOrder, CanCommit
<1>2. /\ orderNo[s] = 0
      /\ orderNo' = [orderNo EXCEPT ![s] = n]
      /\ drawn' = [drawn EXCEPT ![r] = Idle]
      /\ orderNo \in [Session -> Nat]
  BY DEF PlaceOrder, CanCommit, NumbersInv, IInv, TypeOK
<1>3. count \in Nat /\ OrderNumbers = 1 .. count
  BY OrderedFinite DEF NumbersInv, OrderNumbersGapFree, Ordered
<1>4. n = count + 1
  <2> HIDE DEF n, count
  <2> QED BY <1>1, <1>3
<1> HIDE DEF s, n
<1>5. Ordered' = Ordered \cup {s} /\ s \notin Ordered
  BY <1>1, <1>2 DEF Ordered
<1>6. Cardinality(Ordered') = count + 1
  BY <1>5, OrderedFinite, FS_AddElement
<1>7. OrderNumbers' = OrderNumbers \cup {n}
  <2>1. ASSUME NEW m \in OrderNumbers' PROVE m \in OrderNumbers \cup {n}
    <3>1. PICK t \in Session : m = orderNo'[t] /\ m # 0
      BY <2>1 DEF OrderNumbers
    <3> QED BY <1>1, <1>2, <3>1 DEF OrderNumbers
  <2>2. ASSUME NEW m \in OrderNumbers PROVE m \in OrderNumbers'
    <3>1. PICK t \in Session : m = orderNo[t] /\ m # 0
      BY <2>2 DEF OrderNumbers
    <3>2. orderNo'[t] = m
      BY <1>2, <3>1
    <3> QED BY <3>1, <3>2 DEF OrderNumbers
  <2>3. n \in OrderNumbers'
    <3>1. orderNo'[s] = n /\ n # 0
      BY <1>1, <1>2
    <3> QED BY <1>1, <3>1 DEF OrderNumbers
  <2> QED BY <2>1, <2>2, <2>3
<1>8. OrderNumbers' = 1 .. count + 1
  <2> HIDE DEF count
  <2> QED BY <1>3, <1>4, <1>7
<1>9. OrderNumbersGapFree'
  BY <1>6, <1>8 DEF OrderNumbersGapFree, Ordered
<1>10. DrawnWithinReach'
  <2> SUFFICES ASSUME NEW q \in Request, drawn'[q] # Idle
               PROVE  drawn'[q].number <= Cardinality(Ordered') + 1
    BY DEF DrawnWithinReach
  <2>1. drawn'[q] = drawn[q] /\ drawn[q] # Idle /\ drawn[q].number \in Nat
    BY <1>2 DEF NumbersInv, IInv, TypeOK
  <2>2. drawn[q].number <= count + 1
    BY <2>1 DEF NumbersInv, DrawnWithinReach
  <2> HIDE DEF count
  <2> QED BY <1>3, <1>6, <2>1, <2>2
<1> QED BY <1>9, <1>10

\* A request draws one more than a number in use, or 1.
LEMMA DrawNumberReach ==
  ASSUME NumbersInv, NEW r \in Request, NEW s \in Session, DrawNumber(r, s)
  PROVE  DrawnWithinReach'
<1>1. PICK last \in OrderNumbers \cup {0} :
        drawn' = [drawn EXCEPT ![r] = [session |-> s, number |-> last + 1]]
  BY DEF DrawNumber
<1>2. last \in Nat /\ last <= Cardinality(Ordered)
  BY <1>1, OrderedFinite DEF NumbersInv, OrderNumbersGapFree, Ordered
<1>3. Ordered' = Ordered
  BY DEF DrawNumber, Ordered
<1> SUFFICES ASSUME NEW q \in Request, drawn'[q] # Idle
             PROVE  drawn'[q].number <= Cardinality(Ordered) + 1
  BY <1>3 DEF DrawnWithinReach
<1>4. CASE q = r
  <2>1. drawn'[q].number = last + 1
    BY <1>1, <1>4 DEF NumbersInv, IInv, TypeOK
  <2> QED BY <1>2, <2>1, OrderedFinite
<1>5. CASE q # r
  BY <1>1, <1>5 DEF NumbersInv, IInv, TypeOK, DrawnWithinReach
<1> QED BY <1>4, <1>5

LEMMA NextNumbers == NumbersInv /\ [Next]_vars => NumbersInv'
<1> SUFFICES ASSUME NumbersInv, [Next]_vars PROVE NumbersInv'
  OBVIOUS
<1>1. IInv'
  BY NextIInv DEF NumbersInv
<1>2. ASSUME NEW r \in Request, PlaceOrder(r) PROVE NumbersInv'
  BY <1>1, <1>2, PlaceOrderNumber DEF NumbersInv
<1>3. ASSUME NEW r \in Request, NEW s \in Session, DrawNumber(r, s) PROVE NumbersInv'
  <2>1. DrawnWithinReach'
    BY <1>3, DrawNumberReach
  <2>2. orderNo' = orderNo
    BY <1>3 DEF DrawNumber
  <2>3. OrderNumbersGapFree'
    BY <2>2 DEF NumbersInv, OrderNumbersGapFree, OrderNumbers
  <2> QED BY <1>1, <2>1, <2>3 DEF NumbersInv
<1>4. ASSUME NEW r \in Request, AbortOrder(r) PROVE NumbersInv'
  BY <1>1, <1>4 DEF NumbersInv, OrderNumbersGapFree, OrderNumbers, DrawnWithinReach,
                    Ordered, AbortOrder, IInv, TypeOK
<1>5. CASE UNCHANGED <<orderNo, drawn>>
  BY <1>1, <1>5 DEF NumbersInv, OrderNumbersGapFree, OrderNumbers, DrawnWithinReach, Ordered
<1> QED BY <1>2, <1>3, <1>4, <1>5
        DEF Next, SessionStep, vars, CreateCheckout, ReserveInventory, CancelCheckout, ExpireCheck,
            ExpireCommit, Elapse, CorrectStock, Relist

LEMMA InitNumbers == Init => NumbersInv
<1> SUFFICES ASSUME Init PROVE NumbersInv
  OBVIOUS
<1>1. {s \in Session : orderNo[s] # 0} = {} /\ OrderNumbers = {}
  BY DEF Init, OrderNumbers
<1>2. Cardinality({}) = 0
  BY FS_EmptySet
<1>3. OrderNumbersGapFree
  BY <1>1, <1>2 DEF OrderNumbersGapFree
<1> QED BY <1>3, InitIInv DEF Init, NumbersInv, DrawnWithinReach

\* However many requests draw at once, the day's orders are numbered 1, 2, ..., n.
THEOREM NumbersGapFree == Spec => []OrderNumbersGapFree
<1>1. NumbersInv => OrderNumbersGapFree
  BY DEF NumbersInv
<1> QED BY <1>1, InitNumbers, NextNumbers, PTL DEF Spec

-----------------------------------------------------------------------------
(* The refinement of StockPromise. *)

\* Both modules mean the same by a total.
LEMMA SameTotal ==
  ASSUME NEW n, NEW f, NEW N, NEW Max
  PROVE  Abstract!IsTotal(n, f, N, Max) <=> IsTotal(n, f, N, Max)
BY DEF Abstract!IsTotal, IsTotal, Abstract!RunningTotal, RunningTotal

\* A claim is held or sold exactly while its reservation keeps units.
LEMMA StandingIsHeld ==
  ASSUME TypeOK, NEW v \in Variant
  PROVE  Abstract!Standing(v) = Held(v)
BY DEF TypeOK, HoldStatus, Abstract!Standing, Abstract!Claimant, ClaimOf, Held, Session

\* The three variables of the promise as the instance sees them.
Stock == [v \in Variant |-> inv[v].onHand]
Claim == [s \in Session |-> ClaimOf(hold[s])]
Want == [s \in Session |-> IF hold[s] = "NONE" THEN EmptyBasket ELSE items[s]]

\* A reservation that changes its status changes one claim.
LEMMA ClaimMoves ==
  ASSUME TypeOK, NEW s \in Session, NEW h, hold' = [hold EXCEPT ![s] = h]
  PROVE  Claim[s] = ClaimOf(hold[s]) /\ Claim' = [Claim EXCEPT ![s] = ClaimOf(h)]
<1>1. ASSUME NEW t \in Session PROVE hold'[t] = IF t = s THEN h ELSE hold[t]
  BY DEF TypeOK
<1>2. Claim' = [t \in Session |-> ClaimOf(IF t = s THEN h ELSE hold[t])]
  <2>1. Claim' = [t \in Session |-> ClaimOf(hold'[t])]
    BY Zenon DEF Claim, ClaimOf
  <2>2. ASSUME NEW t \in Session
        PROVE  ClaimOf(hold'[t]) = ClaimOf(IF t = s THEN h ELSE hold[t])
    BY <1>1
  <2> QED BY <2>1, <2>2
<1>3. [Claim EXCEPT ![s] = ClaimOf(h)]
        = [t \in Session |-> ClaimOf(IF t = s THEN h ELSE hold[t])]
  BY DEF Claim
<1> QED BY <1>2, <1>3 DEF Claim

LEMMA PromiseInitially == Init => Abstract!PromiseInit
<1> SUFFICES ASSUME Init PROVE Abstract!PromiseInit
  OBVIOUS
<1>1. Stock \in [Variant -> 0 .. MaxInt]
  BY CheckoutAssumption DEF Init, Stock, NewRow
<1>2. Claim = [c \in Session |-> "none"] /\ Want = [c \in Session |-> EmptyBasket]
  BY DEF Init, Claim, Want, ClaimOf
<1> QED BY <1>1, <1>2
        DEF Abstract!PromiseInit, Abstract!Claimant, Stock, Claim, Want, Session, EmptyBasket

\* reserveInventory grants the claim: what stands already is what is reserved,
\* and the units available are those on hand that are not.
LEMMA ReserveGrants ==
  ASSUME IInv, NEW s \in Session, ReserveInventory(s)
  PROVE  Abstract!Grant(s)
<1>1. hold[s] = "NONE" /\ hold' = [hold EXCEPT ![s] = "ACTIVE"] /\ items' = items
  BY DEF IInv, FreshHoldsNothing, ReserveInventory
<1>2. hold \in [Session -> HoldStatus] /\ items \in [Session -> Basket]
  BY DEF IInv, TypeOK
<1>3. Claim[s] = "none" /\ Claim' = [Claim EXCEPT ![s] = "held"]
  BY <1>1, ClaimMoves DEF IInv, ClaimOf
<1>4. Want' = [Want EXCEPT ![s] = items[s]]
  BY <1>1, <1>2 DEF Want
<1>5. ASSUME NEW v \in Variant
      PROVE  /\ inv[v] \in Row /\ Balanced(inv[v]) /\ inv[v].onHand \in 0 .. MaxInt
             /\ items[s][v] \in Nat /\ inv[v].reserved \in 0 .. MaxInt
             /\ items[s][v] > 0 => inv[v].available >= items[s][v]
  <2>1. /\ inv[v] \in Row /\ Balanced(inv[v]) /\ inv[v].onHand \in 0 .. MaxInt
        /\ items[s][v] \in Nat
    BY CheckoutAssumption DEF IInv, TypeOK, LedgerEquation, Basket
  <2>2. inv[v].reserved \in 0 .. MaxInt
    BY HeldBelowReserved DEF IInv
  <2>3. items[s][v] > 0 => inv[v].available >= items[s][v]
    BY DEF ReserveInventory, Sellable, CanReserve
  <2> QED BY <2>1, <2>2, <2>3
<1>6. items[s] \in [Variant -> 0 .. MaxInt]
  <2>1. ASSUME NEW v \in Variant PROVE items[s][v] \in 0 .. MaxInt
    BY <1>5, MaxIntAssumption DEF Row, Balanced
  <2> QED BY <1>2, <2>1 DEF Basket
<1>7. Stock' = Stock
  <2>1. ASSUME NEW v \in Variant PROVE inv'[v].onHand = inv[v].onHand
    BY DEF ReserveInventory, ReserveAll, ReserveRow
  <2> QED BY <2>1 DEF Stock
<1>8. ASSUME NEW v \in Variant, items[s][v] > 0
      PROVE  \E n \in 0 .. MaxInt :
               /\ Abstract!IsTotal(n, Abstract!Standing(v), NumSessions, MaxInt)
               /\ n + items[s][v] <= Stock[v]
  <2>1. IsTotal(inv[v].reserved, Held(v), NumSessions, MaxInt)
    BY DEF IInv, ReservedIsSumOfHolds
  <2>2. Abstract!IsTotal(inv[v].reserved, Abstract!Standing(v), NumSessions, MaxInt)
    BY <2>1, SameTotal, StandingIsHeld DEF IInv
  <2>3. inv[v].reserved + items[s][v] <= Stock[v]
    BY <1>5, <1>8 DEF Row, Balanced, Stock
  <2> QED BY <1>5, <2>2, <2>3
<1>9. Abstract!Covered(items[s])
  BY <1>8 DEF Abstract!Covered, Stock
<1>10. Want'[s] = items[s]
  BY <1>4 DEF Want
<1> QED BY <1>3, <1>4, <1>6, <1>7, <1>9, <1>10 DEF Abstract!Grant, Stock, Claim, Want

LEMMA PlaceSettles ==
  ASSUME IInv, NEW r \in Request, PlaceOrder(r)
  PROVE  Abstract!Settle(drawn[r].session, "sold") /\ drawn[r].session \in Session
<1> DEFINE s == drawn[r].session
<1>1. s \in Session
  BY DEF IInv, TypeOK, DrawnForSession, PlaceOrder
<1>2. /\ hold[s] = "ACTIVE" /\ hold' = [hold EXCEPT ![s] = "CONFIRMED"]
      /\ UNCHANGED <<inv, items>>
  BY DEF PlaceOrder, CanCommit, ReadyToOrder
<1> HIDE DEF s
<1>3. Claim[s] = "held" /\ Claim' = [Claim EXCEPT ![s] = "sold"]
  BY <1>1, <1>2, ClaimMoves DEF IInv, ClaimOf
<1>4. Stock' = Stock /\ Want' = Want
  BY <1>1, <1>2 DEF IInv, TypeOK, Stock, Want
<1>5. Abstract!Settle(s, "sold")
  BY <1>3, <1>4 DEF Abstract!Settle, Stock, Claim, Want
<1> QED BY <1>1, <1>5 DEF s

\* Closing a session drops the claim it holds and leaves any other alone.
LEMMA CloseSettles ==
  ASSUME IInv, NEW s \in Session, NEW closed \in {"RELEASED", "EXPIRED"}, NEW final,
         CloseSession(s, closed, final), items' = items
  PROVE  Abstract!Settle(s, "dropped") \/ UNCHANGED <<Stock, Claim, Want>>
<1>1. CASE hold[s] # "ACTIVE"
  BY <1>1 DEF CloseSession, Stock, Claim, Want
<1>2. CASE hold[s] = "ACTIVE"
  <2>1. hold' = [hold EXCEPT ![s] = closed]
    BY <1>2 DEF CloseSession, GiveBack
  <2>2. Claim[s] = "held" /\ Claim' = [Claim EXCEPT ![s] = "dropped"]
    BY <1>2, <2>1, ClaimMoves DEF IInv, ClaimOf
  <2>3. Want' = Want
    BY <1>2, <2>1 DEF IInv, TypeOK, Want
  <2>4. Stock' = Stock
    BY CloseStep DEF Stock
  <2> QED BY <2>2, <2>3, <2>4 DEF Abstract!Settle, Stock, Claim, Want
<1> QED BY <1>1, <1>2

LEMMA AdjustRecounts ==
  ASSUME IInv, NEW v \in Variant, NEW delta \in Deltas, CorrectStock(v, delta)
  PROVE  Abstract!Recount(v)
<1>1. \A w \in Variant : inv'[w].onHand \in 0 .. MaxInt
  BY AdjustStep
<1>2. \A w \in Variant : w # v => inv'[w] = inv[w]
  BY DEF CorrectStock, IInv, TypeOK
<1>3. Stock' = [Stock EXCEPT ![v] = inv'[v].onHand]
  BY <1>2 DEF Stock
<1>4. Claim' = Claim /\ Want' = Want
  BY DEF CorrectStock, Claim, Want
<1> QED BY <1>1, <1>3, <1>4 DEF Abstract!Recount, Stock, Claim, Want

LEMMA StepKeepsPromise ==
  ASSUME IInv, [Next]_vars
  PROVE  [Abstract!PromiseNext]_(Abstract!promise)
<1> SUFFICES Abstract!PromiseNext \/ UNCHANGED <<Stock, Claim, Want>>
  BY DEF Abstract!promise, Stock, Claim, Want
<1>1. ASSUME NEW s \in Session, NEW basket \in Basket, CreateCheckout(s, basket)
      PROVE  UNCHANGED <<Stock, Claim, Want>>
  <2>1. hold[s] = "NONE"
    BY <1>1 DEF IInv, FreshHoldsNothing, CreateCheckout, Opened
  <2>2. Want' = Want
    BY <1>1, <2>1 DEF CreateCheckout, IInv, TypeOK, Want
  <2> QED BY <1>1, <2>2 DEF CreateCheckout, Stock, Claim
<1>2. ASSUME NEW s \in Session, ReserveInventory(s) PROVE Abstract!PromiseNext
  BY <1>2, ReserveGrants DEF Abstract!PromiseNext, Abstract!Claimant, Session
<1>3. ASSUME NEW s \in Session, CancelCheckout(s) \/ ExpireCommit(s)
      PROVE  Abstract!PromiseNext \/ UNCHANGED <<Stock, Claim, Want>>
  <2>1. Abstract!Settle(s, "dropped") \/ UNCHANGED <<Stock, Claim, Want>>
    BY <1>3, CloseSettles DEF CancelCheckout, ExpireCommit
  <2> QED BY <2>1 DEF Abstract!PromiseNext, Abstract!Claimant, Session
<1>4. ASSUME NEW r \in Request, PlaceOrder(r) PROVE Abstract!PromiseNext
  BY <1>4, PlaceSettles DEF Abstract!PromiseNext, Abstract!Claimant, Session
<1>5. ASSUME NEW v \in Variant, NEW delta \in Deltas, CorrectStock(v, delta)
      PROVE  Abstract!PromiseNext
  BY <1>5, AdjustRecounts DEF Abstract!PromiseNext
<1>6. CASE UNCHANGED <<inv, items, hold>>
  BY <1>6 DEF Stock, Claim, Want
<1> QED BY <1>1, <1>2, <1>3, <1>4, <1>5, <1>6
        DEF Next, SessionStep, vars, ExpireCheck, Elapse, DrawNumber, AbortOrder, Relist

\* The rows, reservations and sweeps of the checkout implement the promise.
THEOREM PromiseImplemented == Spec => ImplementsPromise
<1>1. IInv /\ [Next]_vars => [Abstract!PromiseNext]_(Abstract!promise)
  BY StepKeepsPromise
<1> QED BY <1>1, PromiseInitially, Inductive, PTL DEF Spec, ImplementsPromise, Abstract!Promise

-----------------------------------------------------------------------------
(* The store front: the checkout's invariant, and an order behind every status
   an order has. *)

StatusNeedsOrder ==
  /\ orderStatus \in [Session -> Status \cup {"NONE"}]
  /\ \A s \in Session : orderStatus[s] # "NONE" => orderNo[s] # 0

StoreInv == IInv /\ StatusNeedsOrder

\* createOrder gives the session its order in the step that gives it a status.
LEMMA CreateOrderKeepsStatus ==
  ASSUME StoreInv, NEW r \in Request, CreateOrder(r)
  PROVE  StatusNeedsOrder'
<1> DEFINE s == drawn[r].session
           n == drawn[r].number
<1>1. s \in Session /\ n \in Nat \ {0}
  BY DEF StoreInv, IInv, TypeOK, DrawnForSession, CreateOrder, PlaceOrder
<1>2. /\ orderNo' = [orderNo EXCEPT ![s] = n]
      /\ orderStatus' = [orderStatus EXCEPT ![s] = "PENDING_PAYMENT"]
  BY DEF CreateOrder, PlaceOrder
<1> HIDE DEF s, n
<1> QED BY <1>1, <1>2 DEF StoreInv, IInv, TypeOK, StatusNeedsOrder, Status

\* Only an order that exists is moved.
LEMMA MoveOrderKeepsStatus ==
  ASSUME StatusNeedsOrder, NEW s \in Session, NEW to \in Status, MoveOrder(s, to)
  PROVE  StatusNeedsOrder'
<1>1. orderStatus[s] # "NONE"
  BY DEF MoveOrder, MayMove, AdminAllowed, CustomerAllowed
<1> QED BY <1>1 DEF MoveOrder, vars, StatusNeedsOrder

\* Only createOrder gives a session an order.
LEMMA SessionStepMakesNoOrder == SessionStep => orderNo' = orderNo
BY DEF SessionStep, CreateCheckout, ReserveInventory, CancelCheckout, ExpireCheck,
       ExpireCommit, Elapse, DrawNumber, AbortOrder, CorrectStock, Relist

LEMMA StoreNextInv == StoreInv /\ [StoreNext]_storeVars => StoreInv'
<1> SUFFICES ASSUME StoreInv, [StoreNext]_storeVars PROVE StoreInv'
  OBVIOUS
<1>1. ASSUME NEW r \in Request, CreateOrder(r) PROVE StoreInv'
  <2>1. [Next]_vars
    BY <1>1 DEF CreateOrder, Next
  <2> QED BY <1>1, <2>1, NextIInv, CreateOrderKeepsStatus DEF StoreInv
<1>2. ASSUME NEW s \in Session, NEW to \in Status, MoveOrder(s, to) PROVE StoreInv'
  <2>1. [Next]_vars
    BY <1>2 DEF MoveOrder
  <2> QED BY <1>2, <2>1, NextIInv, MoveOrderKeepsStatus DEF StoreInv
<1>3. CASE CheckoutStep
  <2>1. [Next]_vars /\ orderNo' = orderNo /\ orderStatus' = orderStatus
    BY <1>3, SessionStepMakesNoOrder DEF CheckoutStep, Next
  <2> QED BY <2>1, NextIInv DEF StoreInv, StatusNeedsOrder
<1>4. CASE UNCHANGED storeVars
  <2>1. [Next]_vars /\ orderNo' = orderNo /\ orderStatus' = orderStatus
    BY <1>4 DEF storeVars, vars
  <2> QED BY <2>1, NextIInv DEF StoreInv, StatusNeedsOrder
<1> QED BY <1>1, <1>2, <1>3, <1>4 DEF StoreNext

LEMMA StoreInitInv == StoreInit => StoreInv
BY InitIInv DEF StoreInit, StoreInv, StatusNeedsOrder

\* An order still owed has its session's CONFIRMED reservation, so what is owed
\* of a variant is at most what is held of it, session by session.
LEMMA StoreInvSetsAside == StoreInv => OwedUnitsSetAside
<1> SUFFICES ASSUME StoreInv, NEW v \in Variant
             PROVE  \E n \in 0 .. inv[v].reserved :
                      IsTotal(n, UnitsOwed(v), NumSessions, MaxInt)
  BY DEF OwedUnitsSetAside
<1>1. NumSessions \in Nat /\ MaxInt \in Nat
  BY CheckoutAssumption, MaxIntAssumption
<1>2. \A s \in Session : Owed(s) => hold[s] = "CONFIRMED"
  BY DEF StoreInv, IInv, StatusNeedsOrder, OrderOwnsHold, Owed
<1>3. Held(v) \in [1 .. NumSessions -> Nat]
  BY HeldIsNatural DEF StoreInv, IInv
<1>4. \A s \in Session : items[s][v] \in Nat
  BY CheckoutAssumption DEF StoreInv, IInv, TypeOK, Basket
<1>5. UnitsOwed(v) \in [1 .. NumSessions -> Nat]
  BY <1>4 DEF UnitsOwed, Session
<1>6. \A s \in 1 .. NumSessions : UnitsOwed(v)[s] <= Held(v)[s]
  BY <1>2, <1>4 DEF UnitsOwed, Held, Session
<1>7. IsTotal(inv[v].reserved, Held(v), NumSessions, MaxInt)
  BY DEF StoreInv, IInv, ReservedIsSumOfHolds
<1> QED BY <1>1, <1>3, <1>5, <1>6, <1>7, TotalBelow

\* The goods of every order still to be shipped are reserved, for any number of
\* sessions, variants and units, whatever becomes of the sessions.
THEOREM OwedSetAside == StoreSpec => []OwedUnitsSetAside
BY StoreInitInv, StoreNextInv, StoreInvSetsAside, PTL DEF StoreSpec

\* What becomes of an order disturbs no step of the checkout.
LEMMA StoreStepIsCheckoutStep == [StoreNext]_storeVars => [Next]_vars
<1> SUFFICES ASSUME [StoreNext]_storeVars PROVE [Next]_vars
  OBVIOUS
<1>1. ASSUME NEW r \in Request, CreateOrder(r) PROVE Next
  BY <1>1 DEF CreateOrder, Next
<1>2. ASSUME NEW s \in Session, NEW to \in Status, MoveOrder(s, to) PROVE UNCHANGED vars
  BY <1>2 DEF MoveOrder
<1>3. ASSUME CheckoutStep PROVE Next
  BY <1>3 DEF CheckoutStep, Next
<1>4. ASSUME UNCHANGED storeVars PROVE UNCHANGED vars
  BY <1>4 DEF storeVars
<1> QED BY <1>1, <1>2, <1>3, <1>4 DEF StoreNext

\* The store front implements the checkout: OrdersService and PaymentsService
\* move an order without touching what CheckoutService keeps, so each theorem
\* about the checkout is one about the store front.
THEOREM StorefrontIsCheckout == StoreSpec => Spec
<1>1. StoreInit => Init
  BY DEF StoreInit
<1> QED BY <1>1, StoreStepIsCheckoutStep, PTL DEF StoreSpec, Spec

\* The shop as a whole keeps the promise about its stock: no claim beyond the
\* units on hand, none settled twice, none sold and taken back, whatever is
\* done with the orders.
THEOREM StorefrontKeepsPromise == StoreSpec => ImplementsPromise
BY StorefrontIsCheckout, PromiseImplemented

\* What a call of expireCheckout would find at a late reservation.
SweepDue(s) ==
  Sweeping /\ s \in late /\ hold[s] = "ACTIVE" =>
    /\ Opened(s)
    /\ status[s] \notin {"EXPIRED", "COMPLETED"}

\* Nothing in the repository calls expireCheckout, so a late reservation may
\* hold its stock for ever.  It would not be expireCheckout's early returns
\* that keep it: whatever path led there, they let a late reservation through.
THEOREM LateHoldIsSweepable == StoreSpec => [](\A s \in Session : SweepDue(s))
<1>1. StoreInv => \A s \in Session : SweepDue(s)
  BY DEF StoreInv, IInv, HoldFollowsSession, SweepDue, Opened
<1> QED BY <1>1, StoreInitInv, StoreNextInv, PTL DEF StoreSpec

-----------------------------------------------------------------------------
(* InventoryService. *)

\* A variant without a row has no movements.
NothingWithoutRow ==
  \A v \in Variant \ Stocked : logged[v] = 0 /\ unlogged[v] = 0

InventoryInv ==
  /\ InventoryTypeOK
  /\ StockIsSumOfMovements
  /\ NeverOverstated
  /\ NothingWithoutRow

\* What InventoryInv asks of a row.
Sound(row) ==
  /\ row \in Row
  /\ row.onHand \in 0 .. MaxInt
  /\ row.reserved \in 0 .. MaxInt
  /\ row.available <= row.onHand - row.reserved

LEMMA RowsAreSound ==
  ASSUME InventoryInv, NEW v \in Stocked
  PROVE  Sound(rows[v])
BY DEF InventoryInv, InventoryTypeOK, NeverOverstated, Sound, Stocked

-----------------------------------------------------------------------------
(* The UPDATE statements. *)

LEMMA AdjustIsSound ==
  ASSUME NEW row, Sound(row), NEW d \in Int, CanAdjust(row, d)
  PROVE  /\ Sound(AdjustRow(row, d))
         /\ AdjustRow(row, d).onHand = row.onHand + d
         /\ AdjustRow(row, d).reserved = row.reserved
BY MaxIntAssumption DEF Sound, CanAdjust, AdjustRow, Row

LEMMA ReserveIsSound ==
  ASSUME NEW row, Sound(row), NEW q \in Nat, CanReserve(row, q)
  PROVE  /\ Sound(ReserveRow(row, q))
         /\ ReserveRow(row, q).onHand = row.onHand
         /\ ReserveRow(row, q).reserved <= row.onHand
BY MaxIntAssumption DEF Sound, CanReserve, ReserveRow, Row

LEMMA ReleaseIsSound ==
  ASSUME NEW row, Sound(row), NEW q \in Nat
  PROVE  /\ Sound(ReleaseRow(row, q))
         /\ ReleaseRow(row, q).onHand = row.onHand
         /\ ReleaseRow(row, q).reserved <= row.reserved
BY MaxIntAssumption DEF Sound, ReleaseRow, Row, Greatest, Least

LEMMA SaleIsSound ==
  ASSUME NEW row, Sound(row), NEW q \in Nat, CanConfirmSale(row, q)
  PROVE  /\ Sound(ConfirmSaleRow(row, q))
         /\ ConfirmSaleRow(row, q).onHand = row.onHand - q
         /\ ConfirmSaleRow(row, q).reserved <= row.reserved
BY MaxIntAssumption DEF Sound, CanConfirmSale, ConfirmSaleRow, Row, Greatest

LEMMA RestoreIsSound ==
  ASSUME NEW row, Sound(row), NEW q \in Nat, Fits(RestoreRow(row, q))
  PROVE  /\ Sound(RestoreRow(row, q))
         /\ RestoreRow(row, q).onHand = row.onHand + q
         /\ RestoreRow(row, q).reserved = row.reserved
BY MaxIntAssumption DEF Sound, RestoreRow, Row, Fits

LEMMA NewIsSound ==
  ASSUME NEW n \in Nat, NEW r \in Nat, Fits(NewRow(n, r))
  PROVE  Sound(NewRow(n, r)) /\ NewRow(n, r).onHand = n
BY MaxIntAssumption DEF Sound, NewRow, Row, Fits

-----------------------------------------------------------------------------
(* The two ways a row is written, with the movement written beside it. *)

LEMMA InsertStep ==
  ASSUME InventoryInv, NEW v \in Variant, NEW row, Sound(row), Insert(v, row),
         NEW n \in Nat, NEW m \in Nat, row.onHand = n + m,
         logged' = [logged EXCEPT ![v] = @ + n],
         unlogged' = [unlogged EXCEPT ![v] = m]
  PROVE  InventoryInv'
<1> USE DEF InventoryInv, Stocked, Insert
<1>1. /\ DOMAIN rows' = DOMAIN rows \cup {v}
      /\ rows'[v] = row
      /\ \A w \in DOMAIN rows : w # v /\ rows'[w] = rows[w]
  OBVIOUS
<1>2. \A w \in DOMAIN rows' : Sound(rows'[w])
  BY <1>1, RowsAreSound
<1>3. rows' \in [DOMAIN rows' -> Row]
  BY <1>2 DEF Sound
<1>4. logged[v] = 0
  BY DEF NothingWithoutRow
<1>5. InventoryTypeOK'
  BY <1>1, <1>2, <1>3 DEF InventoryTypeOK, Sound
<1>6. StockIsSumOfMovements'
  BY <1>1, <1>4 DEF StockIsSumOfMovements, InventoryTypeOK
<1>7. NeverOverstated'
  BY <1>2 DEF NeverOverstated, Sound
<1>8. NothingWithoutRow'
  BY <1>1 DEF NothingWithoutRow, InventoryTypeOK
<1> QED BY <1>5, <1>6, <1>7, <1>8

LEMMA UpdateStep ==
  ASSUME InventoryInv, NEW v \in Stocked, NEW row, Sound(row), Update(v, row),
         NEW n \in Int, row.onHand = rows[v].onHand + n,
         logged' = [logged EXCEPT ![v] = @ + n] \/ (n = 0 /\ logged' = logged),
         unlogged' = unlogged
  PROVE  InventoryInv'
<1> USE DEF InventoryInv, Stocked, Update
<1>1. /\ DOMAIN rows' = DOMAIN rows
      /\ rows'[v] = row
      /\ \A w \in DOMAIN rows \ {v} : rows'[w] = rows[w]
  OBVIOUS
<1>2. \A w \in DOMAIN rows' : Sound(rows'[w])
  BY <1>1, RowsAreSound
<1>3. rows' \in [DOMAIN rows' -> Row]
  BY <1>2 DEF Sound, InventoryTypeOK
<1>4. /\ logged' \in [Variant -> Int] /\ logged'[v] = logged[v] + n
      /\ \A w \in Variant \ {v} : logged'[w] = logged[w]
  BY DEF InventoryTypeOK
<1>5. InventoryTypeOK'
  BY <1>1, <1>2, <1>3, <1>4 DEF InventoryTypeOK, Sound
<1>6. StockIsSumOfMovements'
  <2>1. ASSUME NEW w \in DOMAIN rows
        PROVE  rows'[w].onHand = logged'[w] + unlogged'[w]
    <3>1. rows[w].onHand = logged[w] + unlogged[w] /\ w \in Variant
      BY DEF StockIsSumOfMovements, InventoryTypeOK
    <3>2. logged[w] \in Int /\ unlogged[w] \in Int
      BY <3>1 DEF InventoryTypeOK
    <3>3. CASE w = v
      BY <1>1, <1>4, <3>1, <3>2, <3>3
    <3>4. CASE w # v
      BY <1>1, <1>4, <3>1, <3>4
    <3> QED BY <3>3, <3>4
  <2> QED BY <1>1, <2>1 DEF StockIsSumOfMovements
<1>7. NeverOverstated'
  BY <1>2 DEF NeverOverstated, Sound
<1>8. NothingWithoutRow'
  BY <1>1, <1>4 DEF NothingWithoutRow, InventoryTypeOK
<1> QED BY <1>5, <1>6, <1>7, <1>8

-----------------------------------------------------------------------------
LEMMA InitInventoryInv == InventoryInit => InventoryInv
BY DEF InventoryInit, InventoryInv, InventoryTypeOK, Stocked, StockIsSumOfMovements, NeverOverstated,
       NothingWithoutRow

LEMMA InitialStockStep ==
  ASSUME InventoryInv, NEW v \in Variant, LogInitialStock(v)
  PROVE  InventoryInv'
<1> USE DEF InventoryInv, Stocked, LogInitialStock, Log
<1>1. /\ v \in DOMAIN rows
      /\ logged[v] \in Int /\ unlogged[v] \in Nat
  BY DEF NothingWithoutRow, InventoryTypeOK
<1>2. /\ logged' \in [Variant -> Int] /\ unlogged' \in [Variant -> Nat]
      /\ logged'[v] = logged[v] + unlogged[v] /\ unlogged'[v] = 0
      /\ \A w \in Variant \ {v} : logged'[w] = logged[w] /\ unlogged'[w] = unlogged[w]
  BY <1>1 DEF InventoryTypeOK
<1>3. InventoryTypeOK' /\ NeverOverstated'
  BY <1>2 DEF InventoryTypeOK, NeverOverstated
<1>4. StockIsSumOfMovements'
  BY <1>1, <1>2 DEF StockIsSumOfMovements, InventoryTypeOK
<1>5. NothingWithoutRow'
  BY <1>1, <1>2 DEF NothingWithoutRow
<1> QED BY <1>3, <1>4, <1>5

LEMMA ImportStep ==
  ASSUME InventoryInv, NEW v \in Variant, NEW q \in Quantities, ImportStock(v, q)
  PROVE  InventoryInv'
<1>1. q \in Nat /\ logged' = [logged EXCEPT ![v] = @ + q] /\ unlogged' = unlogged
  BY InventoryAssumption DEF ImportStock, Log
<1>2. CASE Insert(v, NewRow(q, 0))
  <2>1. Sound(NewRow(q, 0)) /\ NewRow(q, 0).onHand = q
    BY <1>1, <1>2, NewIsSound DEF Insert
  <2>2. unlogged' = [unlogged EXCEPT ![v] = 0]
    <3>1. unlogged[v] = 0
      BY <1>2 DEF Insert, InventoryInv, NothingWithoutRow
    <3> QED BY <1>1, <3>1 DEF InventoryInv, InventoryTypeOK
  <2>3. q = q + 0
    BY <1>1
  <2> QED BY <1>1, <1>2, <2>1, <2>2, <2>3, InsertStep
<1>3. CASE v \in Stocked /\ CanAdjust(rows[v], q) /\ Update(v, AdjustRow(rows[v], q))
  <2>1. /\ Sound(AdjustRow(rows[v], q))
        /\ AdjustRow(rows[v], q).onHand = rows[v].onHand + q
        /\ q \in Int
    BY <1>1, <1>3, RowsAreSound, AdjustIsSound
  <2> QED BY <1>1, <1>3, <2>1, UpdateStep
<1> QED BY <1>2, <1>3 DEF ImportStock

\* The invariant holds in every reachable state.
THEOREM InventoryInductive == InventorySpec => []InventoryInv
<1>1. InventoryInv /\ [InventoryNext]_inventoryVars => InventoryInv'
  <2> SUFFICES ASSUME InventoryInv, [InventoryNext]_inventoryVars PROVE InventoryInv'
    OBVIOUS
  <2> USE InventoryAssumption
  <2>1. ASSUME NEW v \in Variant, NEW n \in Quantities \cup {0}, NEW r \in Quantities \cup {0},
               CreateInventory(v, n, r)
        PROVE  InventoryInv'
    <3>1. n \in Nat /\ r \in Nat
      OBVIOUS
    <3>2. Sound(NewRow(n, r)) /\ NewRow(n, r).onHand = n
      BY <2>1, <3>1, NewIsSound DEF CreateInventory, Insert
    <3>3. n = 0 + n /\ logged' = [logged EXCEPT ![v] = @ + 0]
      BY <2>1, <3>1 DEF CreateInventory, InventoryInv, InventoryTypeOK
    <3> QED BY <2>1, <3>1, <3>2, <3>3, InsertStep DEF CreateInventory
  <2>2. ASSUME NEW v \in Variant, LogInitialStock(v) PROVE InventoryInv'
    BY <2>2, InitialStockStep
  <2>3. ASSUME NEW v \in Variant, NEW q \in Quantities, ImportStock(v, q) PROVE InventoryInv'
    BY <2>3, ImportStep
  <2>4. ASSUME NEW v \in Variant, NEW d \in Int, AdjustStock(v, d) PROVE InventoryInv'
    <3> HIDE InventoryAssumption
    <3>1. /\ Sound(AdjustRow(rows[v], d))
          /\ AdjustRow(rows[v], d).onHand = rows[v].onHand + d
      BY <2>4, RowsAreSound, AdjustIsSound DEF AdjustStock
    <3> QED BY <2>4, <3>1, UpdateStep DEF AdjustStock, Log
  <2>5. ASSUME NEW v \in Variant, NEW q \in Quantities, ReserveStock(v, q) PROVE InventoryInv'
    <3>1. Sound(rows[v]) /\ CanReserve(rows[v], q) /\ q \in Nat
      BY <2>5, RowsAreSound DEF ReserveStock
    <3>2. rows[v].onHand \in Int
      BY <3>1 DEF Sound
    <3>3. /\ Sound(ReserveRow(rows[v], q))
          /\ ReserveRow(rows[v], q).onHand = rows[v].onHand + 0
      BY <3>1, <3>2, ReserveIsSound
    <3> QED BY <2>5, <3>3, UpdateStep DEF ReserveStock
  <2>6. ASSUME NEW v \in Variant, NEW q \in Quantities, ReleaseStock(v, q) PROVE InventoryInv'
    <3>1. Sound(rows[v]) /\ q \in Nat
      BY <2>6, RowsAreSound DEF ReleaseStock
    <3>2. rows[v].onHand \in Int
      BY <3>1 DEF Sound
    <3>3. /\ Sound(ReleaseRow(rows[v], q))
          /\ ReleaseRow(rows[v], q).onHand = rows[v].onHand + 0
      BY <3>1, <3>2, ReleaseIsSound
    <3> QED BY <2>6, <3>3, UpdateStep DEF ReleaseStock
  <2>7. ASSUME NEW v \in Variant, NEW q \in Quantities, ConfirmSale(v, q) PROVE InventoryInv'
    <3>1. Sound(rows[v]) /\ CanConfirmSale(rows[v], q) /\ q \in Nat
      BY <2>7, RowsAreSound DEF ConfirmSale
    <3>2. rows[v].onHand \in Int /\ -q \in Int
      BY <3>1 DEF Sound
    <3>3. /\ Sound(ConfirmSaleRow(rows[v], q))
          /\ ConfirmSaleRow(rows[v], q).onHand = rows[v].onHand + (-q)
      BY <3>1, <3>2, SaleIsSound
    <3> QED BY <2>7, <3>2, <3>3, UpdateStep DEF ConfirmSale, Log
  <2>8. ASSUME NEW v \in Variant, NEW q \in Quantities, RestoreStock(v, q) PROVE InventoryInv'
    <3>1. /\ Sound(RestoreRow(rows[v], q))
          /\ RestoreRow(rows[v], q).onHand = rows[v].onHand + q
          /\ q \in Int
      BY <2>8, RowsAreSound, RestoreIsSound DEF RestoreStock, Update
    <3> QED BY <2>8, <3>1, UpdateStep DEF RestoreStock, Log
  <2>9. CASE UNCHANGED inventoryVars
    BY <2>9 DEF inventoryVars, InventoryInv, InventoryTypeOK, Stocked, StockIsSumOfMovements, NeverOverstated,
              NothingWithoutRow
  <2>10. \A q \in Quantities : q \in Int /\ -q \in Int
    OBVIOUS
  <2> QED BY <2>1, <2>2, <2>3, <2>4, <2>5, <2>6, <2>7, <2>8, <2>9, <2>10 DEF InventoryNext
<1> QED BY <1>1, InitInventoryInv, PTL DEF InventorySpec

\* Every variable keeps its type: no stock column goes below zero.
THEOREM InventoryTypeCorrect == InventorySpec => []InventoryTypeOK
<1>1. InventoryInv => InventoryTypeOK
  BY DEF InventoryInv
<1> QED BY <1>1, InventoryInductive, PTL

\* The stock on hand is the sum of the movements, but for unlogged initial stock.
THEOREM StockIsLogged == InventorySpec => []StockIsSumOfMovements
<1>1. InventoryInv => StockIsSumOfMovements
  BY DEF InventoryInv
<1> QED BY <1>1, InventoryInductive, PTL

\* `available` never promises a unit that is reserved or gone.
THEOREM Understated == InventorySpec => []NeverOverstated
<1>1. InventoryInv => NeverOverstated
  BY DEF InventoryInv
<1> QED BY <1>1, InventoryInductive, PTL

\* No reservation takes more units than are on hand.
THEOREM NothingOverReserved == InventorySpec => NeverOverReserved
<1> DEFINE Fair(v) == rows'[v].reserved > rows[v].reserved => rows'[v].reserved <= rows'[v].onHand
<1>1. InventoryInv /\ [InventoryNext]_inventoryVars => [\A v \in Stocked : Fair(v)]_inventoryVars
  <2> SUFFICES ASSUME InventoryInv, InventoryNext, NEW w \in Stocked PROVE Fair(w)
    OBVIOUS
  <2> USE InventoryAssumption
  <2>1. Sound(rows[w])
    BY RowsAreSound
  <2>2. ASSUME rows'[w].reserved = rows[w].reserved PROVE Fair(w)
    BY <2>1, <2>2 DEF Sound, Row
  <2>3. ASSUME NEW v \in Stocked, NEW row, Update(v, row), Sound(row),
               row.reserved <= rows[v].reserved \/ row.reserved <= row.onHand
        PROVE  Fair(w)
    <3>1. rows'[w] = IF w = v THEN row ELSE rows[w]
      BY <2>3 DEF Update, InventoryInv, InventoryTypeOK, Stocked
    <3> QED BY <2>1, <2>2, <2>3, <3>1 DEF Sound, Row
  <2>4. ASSUME NEW v \in Variant, NEW row, Insert(v, row) PROVE Fair(w)
    BY <2>1, <2>2, <2>4 DEF Insert, Stocked, Sound
  <2>5. ASSUME NEW v \in Variant, NEW d \in Int, v \in Stocked, CanAdjust(rows[v], d),
               Update(v, AdjustRow(rows[v], d))
        PROVE  Fair(w)
    <3>1. Sound(AdjustRow(rows[v], d)) /\ AdjustRow(rows[v], d).reserved = rows[v].reserved
      BY <2>5, RowsAreSound, AdjustIsSound
    <3> QED BY <2>3, <2>5, <3>1 DEF Sound
  <2>6. ASSUME NEW v \in Variant, NEW n, NEW r, CreateInventory(v, n, r) PROVE Fair(w)
    BY <2>4, <2>6 DEF CreateInventory
  <2>7. ASSUME NEW v \in Variant, LogInitialStock(v) PROVE Fair(w)
    BY <2>1, <2>2, <2>7 DEF LogInitialStock, Sound
  <2>8. ASSUME NEW v \in Variant, NEW q \in Quantities, ImportStock(v, q) PROVE Fair(w)
    <3>1. q \in Int
      OBVIOUS
    <3> QED BY <2>4, <2>5, <2>8, <3>1 DEF ImportStock
  <2>9. ASSUME NEW v \in Variant, NEW d \in Int, AdjustStock(v, d) PROVE Fair(w)
    BY <2>5, <2>9 DEF AdjustStock
  <2>10. ASSUME NEW v \in Variant, NEW q \in Quantities, ReserveStock(v, q) PROVE Fair(w)
    <3>1. /\ Sound(ReserveRow(rows[v], q))
          /\ ReserveRow(rows[v], q).reserved <= ReserveRow(rows[v], q).onHand
      BY <2>10, RowsAreSound, ReserveIsSound DEF ReserveStock
    <3> QED BY <2>3, <2>10, <3>1 DEF ReserveStock
  <2>11. ASSUME NEW v \in Variant, NEW q \in Quantities, ReleaseStock(v, q) PROVE Fair(w)
    <3>1. /\ Sound(ReleaseRow(rows[v], q))
          /\ ReleaseRow(rows[v], q).reserved <= rows[v].reserved
      BY <2>11, RowsAreSound, ReleaseIsSound DEF ReleaseStock
    <3> QED BY <2>3, <2>11, <3>1 DEF ReleaseStock
  <2>12. ASSUME NEW v \in Variant, NEW q \in Quantities, ConfirmSale(v, q) PROVE Fair(w)
    <3>1. /\ Sound(ConfirmSaleRow(rows[v], q))
          /\ ConfirmSaleRow(rows[v], q).reserved <= rows[v].reserved
      BY <2>12, RowsAreSound, SaleIsSound DEF ConfirmSale
    <3> QED BY <2>3, <2>12, <3>1 DEF ConfirmSale
  <2>13. ASSUME NEW v \in Variant, NEW q \in Quantities, RestoreStock(v, q) PROVE Fair(w)
    <3>1. /\ Sound(RestoreRow(rows[v], q))
          /\ RestoreRow(rows[v], q).reserved = rows[v].reserved
      BY <2>13, RowsAreSound, RestoreIsSound DEF RestoreStock, Update
    <3> QED BY <2>3, <2>13, <3>1 DEF RestoreStock, Sound
  <2>14. \A q \in Quantities : q \in Int /\ -q \in Int
    OBVIOUS
  <2> HIDE DEF Fair
  <2> QED BY <2>6, <2>7, <2>8, <2>9, <2>10, <2>11, <2>12, <2>13, <2>14 DEF InventoryNext
<1> QED BY <1>1, InventoryInductive, PTL DEF InventorySpec, NeverOverReserved
=============================================================================
