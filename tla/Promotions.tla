----------------------------- MODULE Promotions -----------------------------
(***************************************************************************)
(* The status of promotions, and the discount PromotionEngine makes of     *)
(* several of them, in PromotionsService.                                  *)
(*                                                                         *)
(* publishPromotion, archivePromotion and deletePromotion read the status  *)
(* on another connection than the one of their SERIALIZABLE transaction,   *)
(* which begins with the write: what they have read may be stale by then.  *)
(* Nothing writes another status than ACTIVE and ARCHIVED: createPromotion *)
(* reads the row it has just inserted on that other connection, finds      *)
(* none, and is rolled back.  Promotions are those somebody has seeded.    *)
(*                                                                         *)
(* A promotion is its place in the order of evaluation, by priority and    *)
(* then by age.  What it offers stays as it is; the limits of its vouchers *)
(* are in Vouchers.  Definitions no action uses are mutants: the           *)
(* definition after each, with a plausible bug.                            *)
(***************************************************************************)
EXTENDS Amounts, Functions

CONSTANTS
  NumPromotions,
  Admin,         \* requests of administrators handled at the same time
  Offers,        \* what promotions may offer
  CartSubtotal,  \* of the cart
  ShippingFee

Promotion == 1 .. NumPromotions
NoPromotion == 0

Type == {"PERCENTAGE", "FIXED_AMOUNT", "FREE_SHIPPING", "FLASH_SALE"}
NoMaximum == -1

\* `open` is the window of time, `base` what of the cart the scope of the
\* promotion covers.
Offer ==
  [type : Type, stackable : BOOLEAN, open : BOOLEAN, base : 0 .. CartSubtotal,
   value : Nat, minimum : Nat, maximum : Nat \cup {NoMaximum}]

ASSUME PromotionsAssumption ==
  /\ NumPromotions \in Nat \ {0}
  /\ CartSubtotal \in Nat
  /\ ShippingFee \in Nat
  /\ Offers \subseteq Offer

VARIABLES
  statusOf, \* promotion.status
  offer,    \* the other columns
  admin,    \* what each request of an administrator is about to write
  apply     \* a request of a customer: applyPromotion

promotionsVars == <<statusOf, offer, admin, apply>>

Status == {"DRAFT", "SCHEDULED", "ACTIVE", "EXPIRED", "DISABLED", "ARCHIVED"}
ApplyPhase == {"idle", "loading", "evaluating", "done"}

NotWriting == [promotion |-> NoPromotion, to |-> "DRAFT", stale |-> FALSE]
NotApplying == [phase |-> "idle", wanted |-> {}, loaded |-> {}, next |-> 1,
                applied |-> {}, subtotal |-> CartSubtotal, shipping |-> 0]

PromotionsTypeOK ==
  /\ statusOf \in [Promotion -> Status]
  /\ offer \in [Promotion -> Offers]
  /\ admin \in [Admin -> [promotion : Promotion \cup {NoPromotion},
                          to : Status, stale : BOOLEAN]]
  /\ apply \in [phase : ApplyPhase, wanted : SUBSET Promotion,
                loaded : SUBSET Promotion, next : 1 .. NumPromotions + 1,
                applied : SUBSET Promotion, subtotal : 0 .. CartSubtotal,
                shipping : Nat]

PromotionsInit ==
  /\ statusOf \in [Promotion -> {"DRAFT", "ACTIVE"}]
  /\ offer \in [Promotion -> Offers]
  /\ admin = [a \in Admin |-> NotWriting]
  /\ apply = NotApplying

-----------------------------------------------------------------------------
(* Administrators. *)

Terminal == {"ARCHIVED", "EXPIRED", "DISABLED"}

PublishableUnlessExpired(p) == statusOf[p] \notin Terminal \ {"ARCHIVED"}
Publishable(p) == statusOf[p] \notin Terminal

\* deletePromotion archives, unless the promotion is ACTIVE; archivePromotion
\* archives whatever it is.
Deletable(p) == statusOf[p] # "ACTIVE"

ReadStatus(a, p, to) ==
  /\ admin[a] = NotWriting
  /\ admin' = [admin EXCEPT ![a] = [promotion |-> p, to |-> to, stale |-> FALSE]]
  /\ UNCHANGED <<statusOf, offer, apply>>

PublishPromotion(a) == \E p \in Promotion : Publishable(p) /\ ReadStatus(a, p, "ACTIVE")
ArchivePromotion(a) == \E p \in Promotion : ReadStatus(a, p, "ARCHIVED")
DeletePromotion(a) == \E p \in Promotion : Deletable(p) /\ ReadStatus(a, p, "ARCHIVED")

\* The write does not look at the status again.
WriteStatus(a) ==
  LET p == admin[a].promotion IN
  /\ admin[a] # NotWriting
  /\ statusOf' = [statusOf EXCEPT ![p] = admin[a].to]
  /\ admin' = [b \in Admin |->
       IF b = a THEN NotWriting
       ELSE [admin[b] EXCEPT !.stale = @ \/ admin[b].promotion = p]]
  /\ UNCHANGED <<offer, apply>>

-----------------------------------------------------------------------------
(* applyPromotion: the promotions it is about. *)

Begin(phase, wanted, loaded) ==
  /\ apply.phase = "idle"
  /\ apply' = [NotApplying EXCEPT !.phase = phase, !.wanted = wanted, !.loaded = loaded]
  /\ UNCHANGED <<statusOf, offer, admin>>

\* What a promotion needs of the cart, alone or with others.
Fits(o) ==
  /\ o.open
  /\ o.base # 0 \/ o.type = "FREE_SHIPPING"
  /\ o.minimum > 0 => o.base >= o.minimum

\* With a voucher, the promotion of the voucher, if it fits: validateVoucher
\* does not ask for its status.  A voucher that is not valid leaves nothing.
ApplyVoucher ==
  \E p \in Promotion : Begin("evaluating", {}, IF Fits(offer[p]) THEN {p} ELSE {})

\* With ids, those that are ACTIVE when they are read, one by one.
ApplyIds == \E wanted \in SUBSET Promotion \ {{}} : Begin("loading", wanted, {})

LoadId ==
  /\ apply.phase = "loading"
  /\ apply.wanted # {}
  /\ \E p \in apply.wanted :
       apply' = [apply EXCEPT
                  !.wanted = @ \ {p},
                  !.loaded = IF statusOf[p] = "ACTIVE" THEN @ \cup {p} ELSE @]
  /\ UNCHANGED <<statusOf, offer, admin>>

Loaded ==
  /\ apply.phase = "loading"
  /\ apply.wanted = {}
  /\ apply' = [apply EXCEPT !.phase = "evaluating"]
  /\ UNCHANGED <<statusOf, offer, admin>>

\* With neither, all that are ACTIVE; those whose time is over do not matter.
ApplyAll == Begin("evaluating", {}, {p \in Promotion : statusOf[p] = "ACTIVE"})

-----------------------------------------------------------------------------
(* evaluate: a step per promotion. *)

Category(o) == IF o.type = "FREE_SHIPPING" THEN "SHIPPING" ELSE "ORDER"

\* computeDiscount.
Raw(o) ==
  CASE o.type \in {"PERCENTAGE", "FLASH_SALE"} -> (o.base * Least(o.value, 100)) \div 100
    [] o.type = "FIXED_AMOUNT" -> Least(o.value, o.base)
    [] o.type = "FREE_SHIPPING" -> o.value

Discount(o) ==
  Least(o.base, IF o.maximum = NoMaximum THEN Raw(o) ELSE Least(Raw(o), o.maximum))

\* Another of its category was applied before, and it may not come on top.
CrowdedByAny(p) == ~offer[p].stackable /\ apply.applied # {}
Crowded(p) ==
  /\ ~offer[p].stackable
  /\ \E q \in apply.applied : Category(offer[q]) = Category(offer[p])

\* A flash sale gives way to a percentage, also to one that is refused itself.
GivesWayToApplied(p, loaded) ==
  /\ offer[p].type = "FLASH_SALE"
  /\ \E q \in apply.applied : offer[q].type = "PERCENTAGE"
GivesWay(p, loaded) ==
  /\ offer[p].type = "FLASH_SALE"
  /\ \E q \in loaded \ {p} : offer[q].type = "PERCENTAGE"

\* What is left of the subtotal.
LeftUnclamped(left, discount) == left - discount
LeftOfSubtotal(left, discount) == IF CartSubtotal < discount THEN 0 ELSE CartSubtotal - discount
Left(left, discount) == IF left < discount THEN 0 ELSE left - discount

Apply(p) ==
  LET o == offer[p] IN
  apply' = IF Category(o) = "SHIPPING"
           THEN [apply EXCEPT !.next = p + 1, !.applied = @ \cup {p},
                              !.shipping = @ + Least(Raw(o), ShippingFee)]
           ELSE [apply EXCEPT !.next = p + 1, !.applied = @ \cup {p},
                              !.subtotal = Left(@, Discount(o))]

Evaluate ==
  LET p == apply.next IN
  /\ apply.phase = "evaluating"
  /\ p \in Promotion
  /\ IF /\ p \in apply.loaded
        /\ ~Crowded(p)
        /\ ~GivesWay(p, apply.loaded)
        /\ Fits(offer[p])
     THEN Apply(p)
     ELSE apply' = [apply EXCEPT !.next = p + 1]
  /\ UNCHANGED <<statusOf, offer, admin>>

\* The answer.
Answer ==
  /\ apply.phase = "evaluating"
  /\ apply.next \notin Promotion
  /\ apply' = [apply EXCEPT !.phase = "done"]
  /\ UNCHANGED <<statusOf, offer, admin>>

AnswerTaken ==
  /\ apply.phase = "done"
  /\ apply' = NotApplying
  /\ UNCHANGED <<statusOf, offer, admin>>

-----------------------------------------------------------------------------
PromotionsNext ==
  \/ \E a \in Admin :
       \/ PublishPromotion(a)
       \/ ArchivePromotion(a)
       \/ DeletePromotion(a)
       \/ WriteStatus(a)
  \/ ApplyVoucher
  \/ ApplyIds
  \/ LoadId
  \/ Loaded
  \/ ApplyAll
  \/ Evaluate
  \/ Answer
  \/ AnswerTaken

PromotionsSpec == PromotionsInit /\ [][PromotionsNext]_promotionsVars

-----------------------------------------------------------------------------
(* Properties. *)

\* promotion.constants.ts:81: "Flash Sale -> cannot stack with PERCENTAGE", whichever
\* of the two the loop comes to first.
FlashSaleNotWithPercentage ==
  \A p, q \in apply.applied :
    offer[p].type = "FLASH_SALE" => offer[q].type # "PERCENTAGE"

\* promotion.constants.ts:83: "Higher priority promotion executes first".  A promotion
\* that fits is refused only for one of its category that goes before it and is
\* applied, and of two of a category that are applied the later is stackable.
\* promotion.constants.ts:80 and promotion.engine.ts:98 ("ONE order promotion at most")
\* ask for more, and so does BR-PRM-005 ("Exclusive promotions cannot combine with any
\* other"): the engine lets a stackable promotion come on top of any other.
Eligible(loaded) == {p \in loaded : Fits(offer[p]) /\ ~GivesWay(p, loaded)}
SameCategory(p, q) == Category(offer[p]) = Category(offer[q])

HigherPriorityFirst ==
  apply.phase = "done" =>
    /\ \A p \in Eligible(apply.loaded) \ apply.applied :
         ~offer[p].stackable /\ \E q \in apply.applied : q < p /\ SameCategory(p, q)
    /\ \A p, q \in apply.applied : q < p /\ SameCategory(p, q) => offer[p].stackable

\* However many discounts come on top of each other, what is left of the subtotal
\* is what their sum leaves of it, and never negative: clamping after each is as
\* good as clamping at the end.
OrderDiscount ==
  SumFunctionOnSet([p \in Promotion |-> Discount(offer[p])],
                   {p \in apply.applied : Category(offer[p]) = "ORDER"})

TotalsAddUp == apply.subtotal = Left(CartSubtotal, OrderDiscount)

\* An archived or deleted promotion comes back by a publishPromotion only that had
\* read its status before it was written.
ArchivedStays ==
  [][\A p \in Promotion : statusOf[p] = "ARCHIVED" /\ statusOf'[p] # "ARCHIVED" =>
       \E a \in Admin :
         admin[a].promotion = p /\ admin[a].stale /\ admin'[a] = NotWriting]_promotionsVars

=============================================================================
