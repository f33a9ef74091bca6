---------------------------- MODULE StockPromise ----------------------------
(***************************************************************************)
(* What the shop promises about stock, without rows, counters, sessions or *)
(* sweepers: a customer's claim is granted only while the units on hand    *)
(* cover it together with every claim still standing (one customer wins    *)
(* the last unit, the others are refused), a granted claim is either sold  *)
(* or dropped, once, and a sold claim is never taken back.                 *)
(***************************************************************************)
EXTENDS Integers, Totals

CONSTANTS NumSessions, Variant, MaxInt

Claimant == 1 .. NumSessions

VARIABLES
  stock,   \* units on hand of each variant
  claim,   \* "none", "held", "sold" or "dropped"
  want     \* the units of each variant a claimant was granted

promise == <<stock, claim, want>>

Standing(v) ==
  [c \in Claimant |-> IF claim[c] \in {"held", "sold"} THEN want[c][v] ELSE 0]

PromiseInit ==
  /\ stock \in [Variant -> 0 .. MaxInt]
  /\ claim = [c \in Claimant |-> "none"]
  /\ want = [c \in Claimant |-> [v \in Variant |-> 0]]

Covered(basket) ==
  \A v \in Variant : basket[v] > 0 =>
    \E n \in 0 .. MaxInt : /\ IsTotal(n, Standing(v), NumSessions, MaxInt)
                           /\ n + basket[v] <= stock[v]

Grant(c) ==
  /\ claim[c] = "none"
  /\ claim' = [claim EXCEPT ![c] = "held"]
  /\ want' \in {[want EXCEPT ![c] = basket] : basket \in [Variant -> 0 .. MaxInt]}
  /\ Covered(want'[c])
  /\ UNCHANGED stock

Settle(c, end) ==
  /\ claim[c] = "held"
  /\ claim' = [claim EXCEPT ![c] = end]
  /\ UNCHANGED <<stock, want>>

\* Goods arrive, are lost or are counted again; claims are not consulted.
Recount(v) ==
  /\ UNCHANGED <<claim, want>>
  /\ \E n \in 0 .. MaxInt : stock' = [stock EXCEPT ![v] = n]

PromiseNext ==
  \/ \E c \in Claimant : Grant(c) \/ Settle(c, "sold") \/ Settle(c, "dropped")
  \/ \E v \in Variant : Recount(v)

Promise == PromiseInit /\ [][PromiseNext]_promise
=============================================================================
