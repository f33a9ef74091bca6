------------------------------ MODULE Vouchers ------------------------------
(***************************************************************************)
(* The usage counters of PromotionsService: used_count of a voucher and of *)
(* its promotion, the limits they are held against, and the rows of        *)
(* voucher_usage that say which order used which voucher.                  *)
(*                                                                         *)
(* incrementUsage and rollbackUsage are SERIALIZABLE transactions.  Both   *)
(* update the row of the voucher, so two of them for one voucher never     *)
(* overlap, and the earlier uses incrementUsage counts on another          *)
(* connection stay as they are while it holds that row: one step each.     *)
(* What throws inside the transaction is rolled back and is no step.       *)
(*                                                                         *)
(* No module calls the two yet.  They may be called for any order, in any  *)
(* sequence, again and again; `void` counts the roll-backs that found no   *)
(* use to delete.                                                          *)
(***************************************************************************)
EXTENDS Integers, FiniteSets

CONSTANTS
  Voucher, Promotion, Order, User,
  PromotionOf,   \* voucher.promotion_id
  BuyerOf,       \* the customer who placed an order
  MaxLimit,      \* largest limit an administrator sets
  MaxVoid        \* bound on the roll-backs that delete nothing

ASSUME VouchersAssumption ==
  /\ PromotionOf \in [Voucher -> Promotion]
  /\ BuyerOf \in [Order -> User]
  /\ MaxLimit \in Nat \ {0}
  /\ MaxVoid \in Nat

VARIABLES
  live,        \* vouchers that have a row
  voucher,     \* the row of each of them
  promotion,   \* the row of each promotion
  uses,        \* the rows of voucher_usage
  void,        \* roll-backs of a voucher that deleted nothing
  voidIn       \* the same for a promotion

vars == <<live, voucher, promotion, uses, void, voidIn>>

-----------------------------------------------------------------------------
(* The columns and the UPDATE statements. *)

\* NULL in a limit column; the DTOs ask for at least 1 of any other limit.
NoLimit == 0
Limit == 0 .. MaxLimit

\* `unlimited` is usage_limit_type = 'UNLIMITED'.
VoucherRow ==
  [used : Nat, limit : Limit, perUser : Limit, unlimited : BOOLEAN]
PromotionRow == [used : Nat, limit : Limit, unlimited : BOOLEAN]

NewVoucher(limit, perUser, unlimited) ==
  [used |-> 0, limit |-> limit, perUser |-> perUser, unlimited |-> unlimited]

Blank == NewVoucher(NoLimit, NoLimit, FALSE)

Limited(row) == ~row.unlimited /\ row.limit # NoLimit

\* As it would be with the comparison one too far.
CanIncrementOnceMore(row) == Limited(row) => row.used <= row.limit
CanIncrement(row) == Limited(row) => row.used < row.limit

Increment(row) == [row EXCEPT !.used = @ + 1]

\* As it would be without GREATEST(used_count - 1, 0).
DecrementUnclamped(row) == [row EXCEPT !.used = @ - 1]
Decrement(row) == [row EXCEPT !.used = IF @ > 0 THEN @ - 1 ELSE 0]

Use == [voucher : Voucher, order : Order]

UsesOf(v) == {u \in uses : u.voucher = v}
UsesIn(p) == {u \in uses : PromotionOf[u.voucher] = p}
UsesBy(v, c) == {u \in UsesOf(v) : BuyerOf[u.order] = c}

TypeOK ==
  /\ live \subseteq Voucher
  /\ voucher \in [Voucher -> VoucherRow]
  /\ promotion \in [Promotion -> PromotionRow]
  /\ uses \subseteq Use
  /\ void \in [Voucher -> Nat]
  /\ voidIn \in [Promotion -> Nat]

\* Promotions of any limit, none of them used.
Init ==
  /\ live = {}
  /\ voucher = [v \in Voucher |-> Blank]
  /\ promotion \in [Promotion -> [used : {0}, limit : Limit, unlimited : BOOLEAN]]
  /\ uses = {}
  /\ void = [v \in Voucher |-> 0]
  /\ voidIn = [p \in Promotion |-> 0]

-----------------------------------------------------------------------------
(* What an order calls. *)

\* incrementUsage compares the earlier uses of the customer with `>`.
WithinPerUserLimit(v, o) ==
  \/ voucher[v].perUser = NoLimit
  \/ Cardinality(UsesBy(v, BuyerOf[o])) <= voucher[v].perUser

\* The unique index on (voucher_id, order_id) admits one use per order.
IncrementUsage(v, o) ==
  LET p == PromotionOf[v]
      use == [voucher |-> v, order |-> o]
  IN  /\ v \in live
      /\ CanIncrement(voucher[v])
      /\ WithinPerUserLimit(v, o)
      /\ CanIncrement(promotion[p])
      /\ use \notin uses
      /\ uses' = uses \cup {use}
      /\ voucher' = [voucher EXCEPT ![v] = Increment(@)]
      /\ promotion' = [promotion EXCEPT ![p] = Increment(@)]
      /\ UNCHANGED <<live, void, voidIn>>

\* An UPDATE of a voucher that was deleted meets no row.
DecrementVoucher(v) ==
  voucher' = IF v \in live THEN [voucher EXCEPT ![v] = Decrement(@)] ELSE voucher

DecrementPromotion(p) ==
  promotion' = [promotion EXCEPT ![p] = Decrement(@)]

\* As it would be if the promotion were forgotten.
RollbackVoucherOnly(v, o) ==
  /\ [voucher |-> v, order |-> o] \in uses
  /\ uses' = uses \ {[voucher |-> v, order |-> o]}
  /\ DecrementVoucher(v)
  /\ UNCHANGED <<live, promotion, void, voidIn>>

\* rollbackUsage decrements both counters whatever deleteMany deleted.
RollbackUsage(v, o) ==
  LET p == PromotionOf[v]
      use == [voucher |-> v, order |-> o]
  IN  /\ DecrementVoucher(v)
      /\ DecrementPromotion(p)
      /\ \/ /\ use \in uses
            /\ uses' = uses \ {use}
            /\ UNCHANGED <<void, voidIn>>
         \/ /\ use \notin uses
            /\ voidIn[p] < MaxVoid
            /\ void' = [void EXCEPT ![v] = @ + 1]
            /\ voidIn' = [voidIn EXCEPT ![p] = @ + 1]
            /\ UNCHANGED uses
      /\ UNCHANGED live

-----------------------------------------------------------------------------
(* What an administrator calls. *)

CreateVoucher(v, limit, perUser, unlimited) ==
  /\ v \notin live
  /\ live' = live \cup {v}
  /\ voucher' = [voucher EXCEPT ![v] = NewVoucher(limit, perUser, unlimited)]
  /\ void' = [void EXCEPT ![v] = 0]
  /\ UNCHANGED <<promotion, uses, voidIn>>

\* Limits may be lowered below what is used already.
UpdateVoucher(v, limit, perUser) ==
  /\ v \in live
  /\ voucher' = [voucher EXCEPT ![v].limit = limit, ![v].perUser = perUser]
  /\ UNCHANGED <<live, promotion, uses, void, voidIn>>

\* The foreign key of voucher_usage refuses to delete a voucher in use.
DeleteVoucher(v) ==
  /\ v \in live
  /\ UsesOf(v) = {}
  /\ live' = live \ {v}
  /\ voucher' = [voucher EXCEPT ![v] = Blank]
  /\ UNCHANGED <<promotion, uses, void, voidIn>>

UpdatePromotion(p, limit) ==
  /\ promotion' = [promotion EXCEPT ![p].limit = limit]
  /\ UNCHANGED <<live, voucher, uses, void, voidIn>>

Next ==
  \/ \E v \in Voucher, o \in Order : IncrementUsage(v, o) \/ RollbackUsage(v, o)
  \/ \E v \in Voucher, l, k \in Limit, b \in BOOLEAN : CreateVoucher(v, l, k, b)
  \/ \E v \in Voucher, l, k \in Limit : UpdateVoucher(v, l, k)
  \/ \E v \in Voucher : DeleteVoucher(v)
  \/ \E p \in Promotion, l \in Limit : UpdatePromotion(p, l)

Spec == Init /\ [][Next]_vars

-----------------------------------------------------------------------------
(* The properties. *)

\* The counters and the rows of voucher_usage, which are written apart, agree
\* but for the roll-backs that deleted nothing.  A counter is never ahead of
\* the rows, so nobody is refused while uses are left; it is behind them by
\* at most one for each void roll-back.
CountersExplained ==
  /\ \A v \in live :
       /\ voucher[v].used <= Cardinality(UsesOf(v))
       /\ Cardinality(UsesOf(v)) <= voucher[v].used + void[v]
  /\ \A p \in Promotion :
       /\ promotion[p].used <= Cardinality(UsesIn(p))
       /\ Cardinality(UsesIn(p)) <= promotion[p].used + voidIn[p]

\* BR-PRM-003, total limit: no step adds a use beyond the limit of the voucher
\* or of its promotion, counted by the uses themselves, whichever vouchers of
\* the promotion the other uses were of; only void roll-backs make room.
TotalLimitsKept ==
  [][/\ \A v \in live :
          Limited(voucher[v]) /\ Cardinality(UsesOf(v)') > Cardinality(UsesOf(v))
            => Cardinality(UsesOf(v)') <= voucher[v].limit + void[v]
     /\ \A p \in Promotion :
          Limited(promotion[p]) /\ Cardinality(UsesIn(p)') > Cardinality(UsesIn(p))
            => Cardinality(UsesIn(p)') <= promotion[p].limit + voidIn[p]]_vars
=============================================================================
