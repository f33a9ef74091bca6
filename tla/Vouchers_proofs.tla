-------------------------- MODULE Vouchers_proofs --------------------------
(***************************************************************************)
(* Proofs about Vouchers for any vouchers, orders, customers and limits.   *)
(* Counters and rows are written apart; what keeps them together is that   *)
(* every step adds to, or takes from, the sets of uses of one voucher and  *)
(* of its promotion the same one element.                                  *)
(***************************************************************************)
EXTENDS Vouchers, FiniteSetTheorems, TLAPS

\* The foreign key: a use is of a voucher that has a row.
NoOrphans == \A u \in uses : u.voucher \in live

IInv ==
  /\ TypeOK
  /\ IsFiniteSet(uses)
  /\ NoOrphans
  /\ CountersExplained

-----------------------------------------------------------------------------
(* Sets of uses. *)

\* The uses of a voucher and of a promotion are finitely many.
LEMMA UsesAreFinite ==
  ASSUME IsFiniteSet(uses)
  PROVE  /\ \A v \in Voucher : /\ IsFiniteSet(UsesOf(v))
                               /\ Cardinality(UsesOf(v)) \in Nat
         /\ \A p \in Promotion : /\ IsFiniteSet(UsesIn(p))
                                 /\ Cardinality(UsesIn(p)) \in Nat
<1>1. ASSUME NEW v \in Voucher
      PROVE  IsFiniteSet(UsesOf(v)) /\ Cardinality(UsesOf(v)) \in Nat
  <2>1. UsesOf(v) \subseteq uses
    BY DEF UsesOf
  <2>2. IsFiniteSet(UsesOf(v))
    BY <2>1, FS_Subset
  <2> QED
    BY <2>2, FS_CardinalityType
<1>2. ASSUME NEW p \in Promotion
      PROVE  IsFiniteSet(UsesIn(p)) /\ Cardinality(UsesIn(p)) \in Nat
  <2>1. UsesIn(p) \subseteq uses
    BY DEF UsesIn
  <2>2. IsFiniteSet(UsesIn(p))
    BY <2>1, FS_Subset
  <2> QED
    BY <2>2, FS_CardinalityType
<1> QED
  BY <1>1, <1>2

\* A new use counts once for its voucher and once for its promotion, and
\* for no other.
LEMMA UseAdded ==
  ASSUME IsFiniteSet(uses),
         NEW v \in Voucher, NEW o \in Order,
         [voucher |-> v, order |-> o] \notin uses,
         uses' = uses \cup {[voucher |-> v, order |-> o]}
  PROVE  /\ IsFiniteSet(uses')
         /\ Cardinality(UsesOf(v)') = Cardinality(UsesOf(v)) + 1
         /\ \A w \in Voucher \ {v} : UsesOf(w)' = UsesOf(w)
         /\ Cardinality(UsesIn(PromotionOf[v])') = Cardinality(UsesIn(PromotionOf[v])) + 1
         /\ \A p \in Promotion \ {PromotionOf[v]} : UsesIn(p)' = UsesIn(p)
<1> DEFINE use == [voucher |-> v, order |-> o]
<1>1. use.voucher = v
  OBVIOUS
<1>2. IsFiniteSet(uses')
  BY FS_AddElement
<1>3. Cardinality(UsesOf(v)') = Cardinality(UsesOf(v)) + 1
  <2>1. UsesOf(v)' = UsesOf(v) \cup {use} /\ use \notin UsesOf(v)
    BY <1>1 DEF UsesOf
  <2>2. IsFiniteSet(UsesOf(v))
    BY UsesAreFinite
  <2> HIDE DEF use
  <2> QED
    BY <2>1, <2>2, FS_AddElement
<1>4. \A w \in Voucher \ {v} : UsesOf(w)' = UsesOf(w)
  BY <1>1 DEF UsesOf
<1>5. Cardinality(UsesIn(PromotionOf[v])') = Cardinality(UsesIn(PromotionOf[v])) + 1
  <2>1. /\ UsesIn(PromotionOf[v])' = UsesIn(PromotionOf[v]) \cup {use}
        /\ use \notin UsesIn(PromotionOf[v])
    BY <1>1 DEF UsesIn
  <2>2. PromotionOf[v] \in Promotion
    BY VouchersAssumption
  <2>3. IsFiniteSet(UsesIn(PromotionOf[v]))
    BY <2>2, UsesAreFinite
  <2> HIDE DEF use
  <2> QED
    BY <2>1, <2>3, FS_AddElement
<1>6. \A p \in Promotion \ {PromotionOf[v]} : UsesIn(p)' = UsesIn(p)
  BY <1>1 DEF UsesIn
<1> QED
  BY <1>2, <1>3, <1>4, <1>5, <1>6

\* The same for a use that is deleted.
LEMMA UseRemoved ==
  ASSUME IsFiniteSet(uses),
         NEW v \in Voucher, NEW o \in Order,
         [voucher |-> v, order |-> o] \in uses,
         uses' = uses \ {[voucher |-> v, order |-> o]}
  PROVE  /\ IsFiniteSet(uses')
         /\ Cardinality(UsesOf(v)') = Cardinality(UsesOf(v)) - 1
         /\ \A w \in Voucher \ {v} : UsesOf(w)' = UsesOf(w)
         /\ Cardinality(UsesIn(PromotionOf[v])') = Cardinality(UsesIn(PromotionOf[v])) - 1
         /\ \A p \in Promotion \ {PromotionOf[v]} : UsesIn(p)' = UsesIn(p)
<1> DEFINE use == [voucher |-> v, order |-> o]
<1>1. use.voucher = v
  OBVIOUS
<1>2. IsFiniteSet(uses')
  BY FS_RemoveElement
<1>3. Cardinality(UsesOf(v)') = Cardinality(UsesOf(v)) - 1
  <2>1. UsesOf(v)' = UsesOf(v) \ {use} /\ use \in UsesOf(v)
    BY <1>1 DEF UsesOf
  <2>2. IsFiniteSet(UsesOf(v))
    BY UsesAreFinite
  <2> HIDE DEF use
  <2> QED
    BY <2>1, <2>2, FS_RemoveElement
<1>4. \A w \in Voucher \ {v} : UsesOf(w)' = UsesOf(w)
  BY <1>1 DEF UsesOf
<1>5. Cardinality(UsesIn(PromotionOf[v])') = Cardinality(UsesIn(PromotionOf[v])) - 1
  <2>1. /\ UsesIn(PromotionOf[v])' = UsesIn(PromotionOf[v]) \ {use}
        /\ use \in UsesIn(PromotionOf[v])
    BY <1>1 DEF UsesIn
  <2>2. PromotionOf[v] \in Promotion
    BY VouchersAssumption
  <2>3. IsFiniteSet(UsesIn(PromotionOf[v]))
    BY <2>2, UsesAreFinite
  <2> HIDE DEF use
  <2> QED
    BY <2>1, <2>3, FS_RemoveElement
<1>6. \A p \in Promotion \ {PromotionOf[v]} : UsesIn(p)' = UsesIn(p)
  BY <1>1 DEF UsesIn
<1> QED
  BY <1>2, <1>3, <1>4, <1>5, <1>6

\* Nothing changes for anyone where no use is written.
LEMMA UsesUntouched ==
  ASSUME UNCHANGED uses
  PROVE  /\ \A v \in Voucher : UsesOf(v)' = UsesOf(v)
         /\ \A p \in Promotion : UsesIn(p)' = UsesIn(p)
BY DEF UsesOf, UsesIn

-----------------------------------------------------------------------------
(* Rows. *)

\* A statement that counts keeps the other columns and stays above zero.
LEMMA CountersCount ==
  ASSUME NEW row, row \in VoucherRow \/ row \in PromotionRow
  PROVE  /\ row.used \in Nat
         /\ Increment(row).used = row.used + 1
         /\ Decrement(row).used = IF row.used > 0 THEN row.used - 1 ELSE 0
BY DEF VoucherRow, PromotionRow, Increment, Decrement

LEMMA RowsStayRows ==
  /\ \A row \in VoucherRow : Increment(row) \in VoucherRow /\ Decrement(row) \in VoucherRow
  /\ \A row \in PromotionRow :
       Increment(row) \in PromotionRow /\ Decrement(row) \in PromotionRow
BY DEF VoucherRow, PromotionRow, Increment, Decrement

LEMMA NewRows ==
  ASSUME NEW l \in Limit, NEW k \in Limit, NEW b \in BOOLEAN
  PROVE  /\ NewVoucher(l, k, b) \in VoucherRow
         /\ NewVoucher(l, k, b).used = 0
BY DEF NewVoucher, VoucherRow

LEMMA BlankIsRow == Blank \in VoucherRow
<1>1. NoLimit \in Limit
  BY VouchersAssumption DEF NoLimit, Limit
<1> QED
  BY <1>1, NewRows DEF Blank

-----------------------------------------------------------------------------
(* The inductive invariant. *)

LEMMA InitSound == Init => IInv
<1> SUFFICES ASSUME Init PROVE IInv
  OBVIOUS
<1>1. TypeOK
  <2>1. promotion \in [Promotion -> PromotionRow]
    BY DEF Init, PromotionRow
  <2> QED
    BY <2>1, BlankIsRow DEF Init, TypeOK
<1>2. IsFiniteSet(uses) /\ NoOrphans
  BY FS_EmptySet DEF Init, NoOrphans
<1>3. CountersExplained
  <2>1. ASSUME NEW p \in Promotion
        PROVE  /\ promotion[p].used <= Cardinality(UsesIn(p))
               /\ Cardinality(UsesIn(p)) <= promotion[p].used + voidIn[p]
    <3>1. promotion[p].used = 0 /\ voidIn[p] = 0
      BY DEF Init
    <3>2. UsesIn(p) = {}
      BY DEF Init, UsesIn
    <3> QED
      BY <3>1, <3>2, FS_EmptySet
  <2> QED
    BY <2>1 DEF CountersExplained, Init
<1> QED
  BY <1>1, <1>2, <1>3 DEF IInv

\* incrementUsage adds one to the counters and one to the sets.
LEMMA IncrementSound ==
  ASSUME IInv, NEW v \in Voucher, NEW o \in Order, IncrementUsage(v, o)
  PROVE  IInv'
<1> DEFINE q == PromotionOf[v]
<1>1. /\ q \in Promotion
      /\ voucher[v] \in VoucherRow
      /\ promotion[q] \in PromotionRow
  BY VouchersAssumption DEF IInv, TypeOK
<1>2. /\ voucher' = [voucher EXCEPT ![v] = Increment(@)]
      /\ promotion' = [promotion EXCEPT ![q] = Increment(@)]
      /\ v \in live /\ UNCHANGED <<live, void, voidIn>>
  BY DEF IncrementUsage
<1>3. /\ IsFiniteSet(uses')
      /\ Cardinality(UsesOf(v)') = Cardinality(UsesOf(v)) + 1
      /\ \A w \in Voucher \ {v} : UsesOf(w)' = UsesOf(w)
      /\ Cardinality(UsesIn(q)') = Cardinality(UsesIn(q)) + 1
      /\ \A p \in Promotion \ {q} : UsesIn(p)' = UsesIn(p)
  BY UseAdded DEF IncrementUsage, IInv
<1>4. TypeOK'
  <2>1. uses' \subseteq Use
    BY DEF IncrementUsage, IInv, TypeOK, Use
  <2> QED
    BY <1>1, <1>2, <2>1, RowsStayRows DEF IInv, TypeOK
<1>5. NoOrphans'
  BY <1>2 DEF IncrementUsage, IInv, NoOrphans
<1>6. ASSUME NEW w \in live
      PROVE  /\ voucher'[w].used <= Cardinality(UsesOf(w)')
             /\ Cardinality(UsesOf(w)') <= voucher'[w].used + void'[w]
  <2>1. w \in Voucher /\ void[w] \in Nat /\ voucher[w] \in VoucherRow
    BY DEF IInv, TypeOK
  <2>2. /\ voucher[w].used <= Cardinality(UsesOf(w))
        /\ Cardinality(UsesOf(w)) <= voucher[w].used + void[w]
    BY DEF IInv, CountersExplained
  <2>3. CASE w = v
    <3>1. voucher'[v].used = voucher[v].used + 1 /\ voucher[v].used \in Nat
      BY <1>1, <1>2, CountersCount DEF IInv, TypeOK
    <3>2. Cardinality(UsesOf(v)) \in Nat
      BY UsesAreFinite DEF IInv
    <3> QED
      BY <1>2, <1>3, <2>1, <2>2, <2>3, <3>1, <3>2
  <2>4. CASE w # v
    <3>1. voucher'[w] = voucher[w] /\ UsesOf(w)' = UsesOf(w)
      BY <1>2, <1>3, <2>1, <2>4 DEF IInv, TypeOK
    <3> QED
      BY <1>2, <2>2, <3>1
  <2> QED
    BY <2>3, <2>4
<1>7. ASSUME NEW p \in Promotion
      PROVE  /\ promotion'[p].used <= Cardinality(UsesIn(p)')
             /\ Cardinality(UsesIn(p)') <= promotion'[p].used + voidIn'[p]
  <2>1. voidIn[p] \in Nat /\ promotion[p] \in PromotionRow
    BY DEF IInv, TypeOK
  <2>2. /\ promotion[p].used <= Cardinality(UsesIn(p))
        /\ Cardinality(UsesIn(p)) <= promotion[p].used + voidIn[p]
    BY DEF IInv, CountersExplained
  <2>3. CASE p = q
    <3>1. promotion'[q].used = promotion[q].used + 1 /\ promotion[q].used \in Nat
      BY <1>1, <1>2, CountersCount DEF IInv, TypeOK
    <3>2. Cardinality(UsesIn(q)) \in Nat
      BY <1>1, UsesAreFinite DEF IInv
    <3> QED
      BY <1>2, <1>3, <2>1, <2>2, <2>3, <3>1, <3>2
  <2>4. CASE p # q
    <3>1. promotion'[p] = promotion[p] /\ UsesIn(p)' = UsesIn(p)
      BY <1>2, <1>3, <2>4 DEF IInv, TypeOK
    <3> QED
      BY <1>2, <2>2, <3>1
  <2> QED
    BY <2>3, <2>4
<1>8. CountersExplained'
  BY <1>2, <1>6, <1>7 DEF CountersExplained
<1> QED
  BY <1>3, <1>4, <1>5, <1>8 DEF IInv

\* rollbackUsage takes one from the counters; where it takes none from the
\* sets, it is counted as void.
LEMMA RollbackSound ==
  ASSUME IInv, NEW v \in Voucher, NEW o \in Order, RollbackUsage(v, o)
  PROVE  IInv'
<1> DEFINE q == PromotionOf[v]
           gone == IF [voucher |-> v, order |-> o] \in uses THEN 1 ELSE 0
<1>1. q \in Promotion
  BY VouchersAssumption
<1>2. /\ voucher' = IF v \in live THEN [voucher EXCEPT ![v] = Decrement(@)] ELSE voucher
      /\ promotion' = [promotion EXCEPT ![q] = Decrement(@)]
      /\ live' = live
  BY DEF RollbackUsage, DecrementVoucher, DecrementPromotion
<1>3. /\ uses' \subseteq uses
      /\ IsFiniteSet(uses')
      /\ Cardinality(UsesOf(v)') = Cardinality(UsesOf(v)) - gone
      /\ \A w \in Voucher \ {v} : UsesOf(w)' = UsesOf(w)
      /\ Cardinality(UsesIn(q)') = Cardinality(UsesIn(q)) - gone
      /\ \A p \in Promotion \ {q} : UsesIn(p)' = UsesIn(p)
      /\ void' = [void EXCEPT ![v] = @ + (1 - gone)]
      /\ voidIn' = [voidIn EXCEPT ![q] = @ + (1 - gone)]
  <2>1. IsFiniteSet(uses)
    BY DEF IInv
  <2>2. CASE [voucher |-> v, order |-> o] \in uses
    <3>1. gone = 1
      BY <2>2
    <3>2. uses' = uses \ {[voucher |-> v, order |-> o]} /\ UNCHANGED <<void, voidIn>>
      BY <2>2 DEF RollbackUsage
    <3>3. void' = [void EXCEPT ![v] = @ + (1 - gone)]
      BY <3>1, <3>2 DEF IInv, TypeOK
    <3>4. voidIn' = [voidIn EXCEPT ![q] = @ + (1 - gone)]
      BY <1>1, <3>1, <3>2 DEF IInv, TypeOK
    <3> QED
      BY <2>1, <2>2, <3>1, <3>2, <3>3, <3>4, UseRemoved
  <2>3. CASE [voucher |-> v, order |-> o] \notin uses
    <3>1. gone = 0
      BY <2>3
    <3>2. /\ uses' = uses
          /\ void' = [void EXCEPT ![v] = @ + 1]
          /\ voidIn' = [voidIn EXCEPT ![q] = @ + 1]
      BY <2>3 DEF RollbackUsage
    <3>3. /\ Cardinality(UsesOf(v)) \in Nat
          /\ Cardinality(UsesIn(q)) \in Nat
      BY <1>1, <2>1, UsesAreFinite
    <3>4. /\ \A w \in Voucher : UsesOf(w)' = UsesOf(w)
          /\ \A p \in Promotion : UsesIn(p)' = UsesIn(p)
      BY <3>2, UsesUntouched
    <3>5. 1 - gone = 1
      BY <3>1
    <3>6. /\ void' = [void EXCEPT ![v] = @ + (1 - gone)]
          /\ voidIn' = [voidIn EXCEPT ![q] = @ + (1 - gone)]
      BY <3>2, <3>5, Zenon
    <3>7. /\ Cardinality(UsesOf(v)') = Cardinality(UsesOf(v)) - gone
          /\ Cardinality(UsesIn(q)') = Cardinality(UsesIn(q)) - gone
      BY <1>1, <3>1, <3>3, <3>4
    <3> HIDE DEF gone
    <3> QED
      BY <2>1, <3>2, <3>4, <3>6, <3>7
  <2> QED
    BY <2>2, <2>3
<1>4. gone \in {0, 1}
  OBVIOUS
<1> HIDE DEF gone
<1>5. TypeOK'
  <2>1. uses' \subseteq Use
    BY <1>3 DEF IInv, TypeOK
  <2>2. void' \in [Voucher -> Nat] /\ voidIn' \in [Promotion -> Nat]
    BY <1>1, <1>3, <1>4 DEF IInv, TypeOK
  <2>3. voucher' \in [Voucher -> VoucherRow] /\ promotion' \in [Promotion -> PromotionRow]
    BY <1>1, <1>2, RowsStayRows DEF IInv, TypeOK
  <2> QED
    BY <1>2, <2>1, <2>2, <2>3 DEF IInv, TypeOK
<1>6. NoOrphans'
  BY <1>2, <1>3 DEF IInv, NoOrphans
<1>7. ASSUME NEW w \in live
      PROVE  /\ voucher'[w].used <= Cardinality(UsesOf(w)')
             /\ Cardinality(UsesOf(w)') <= voucher'[w].used + void'[w]
  <2>1. w \in Voucher /\ void[w] \in Nat /\ voucher[w] \in VoucherRow
    BY DEF IInv, TypeOK
  <2>2. /\ voucher[w].used <= Cardinality(UsesOf(w))
        /\ Cardinality(UsesOf(w)) <= voucher[w].used + void[w]
    BY DEF IInv, CountersExplained
  <2>3. CASE w = v
    <3>1. /\ voucher[v].used \in Nat
          /\ voucher'[v].used = IF voucher[v].used > 0 THEN voucher[v].used - 1 ELSE 0
      BY <1>2, <2>1, <2>3, CountersCount DEF IInv, TypeOK
    <3>2. Cardinality(UsesOf(v)) \in Nat /\ Cardinality(UsesOf(v)') \in Nat
      <4>1. IsFiniteSet(uses) /\ IsFiniteSet(uses')
        BY <1>3 DEF IInv
      <4>2. UsesOf(v)' \subseteq uses'
        BY DEF UsesOf
      <4>3. IsFiniteSet(UsesOf(v)')
        BY <4>1, <4>2, FS_Subset
      <4> QED
        BY <4>1, <4>3, UsesAreFinite, FS_CardinalityType
    <3>3. void'[v] = void[v] + (1 - gone)
      BY <1>3 DEF IInv, TypeOK
    <3> QED
      BY <1>3, <1>4, <2>1, <2>2, <2>3, <3>1, <3>2, <3>3
  <2>4. CASE w # v
    <3>1. voucher'[w] = voucher[w] /\ void'[w] = void[w] /\ UsesOf(w)' = UsesOf(w)
      BY <1>2, <1>3, <2>1, <2>4 DEF IInv, TypeOK
    <3> QED
      BY <2>2, <3>1
  <2> QED
    BY <2>3, <2>4
<1>8. ASSUME NEW p \in Promotion
      PROVE  /\ promotion'[p].used <= Cardinality(UsesIn(p)')
             /\ Cardinality(UsesIn(p)') <= promotion'[p].used + voidIn'[p]
  <2>1. voidIn[p] \in Nat /\ promotion[p] \in PromotionRow
    BY DEF IInv, TypeOK
  <2>2. /\ promotion[p].used <= Cardinality(UsesIn(p))
        /\ Cardinality(UsesIn(p)) <= promotion[p].used + voidIn[p]
    BY DEF IInv, CountersExplained
  <2>3. CASE p = q
    <3>1. /\ promotion[q].used \in Nat
          /\ promotion'[q].used = IF promotion[q].used > 0 THEN promotion[q].used - 1 ELSE 0
      BY <1>2, <2>1, <2>3, CountersCount DEF IInv, TypeOK
    <3>2. Cardinality(UsesIn(q)) \in Nat /\ Cardinality(UsesIn(q)') \in Nat
      <4>1. IsFiniteSet(uses) /\ IsFiniteSet(uses')
        BY <1>3 DEF IInv
      <4>2. UsesIn(q)' \subseteq uses'
        BY DEF UsesIn
      <4>3. IsFiniteSet(UsesIn(q)')
        BY <4>1, <4>2, FS_Subset
      <4> QED
        BY <1>1, <4>1, <4>3, UsesAreFinite, FS_CardinalityType
    <3>3. voidIn'[q] = voidIn[q] + (1 - gone)
      BY <1>1, <1>3 DEF IInv, TypeOK
    <3> QED
      BY <1>3, <1>4, <2>1, <2>2, <2>3, <3>1, <3>2, <3>3
  <2>4. CASE p # q
    <3>1. promotion'[p] = promotion[p] /\ voidIn'[p] = voidIn[p] /\ UsesIn(p)' = UsesIn(p)
      BY <1>2, <1>3, <2>4 DEF IInv, TypeOK
    <3> QED
      BY <2>2, <3>1
  <2> QED
    BY <2>3, <2>4
<1>9. CountersExplained'
  BY <1>2, <1>7, <1>8 DEF CountersExplained
<1> QED
  BY <1>3, <1>5, <1>6, <1>9 DEF IInv

\* An administrator writes limits; only a new voucher starts to count anew,
\* and it has no uses, because one that had was never deleted.
LEMMA AdminSound ==
  ASSUME IInv, UNCHANGED uses, live' \subseteq Voucher,
         NoOrphans',
         voucher' \in [Voucher -> VoucherRow],
         promotion' \in [Promotion -> PromotionRow],
         void' \in [Voucher -> Nat],
         UNCHANGED voidIn,
         \A v \in live' : IF v \in live
                          THEN voucher'[v].used = voucher[v].used /\ void'[v] = void[v]
                          ELSE voucher'[v].used = 0 /\ void'[v] = 0,
         \A p \in Promotion : promotion'[p].used = promotion[p].used
  PROVE  IInv'
<1>1. TypeOK'
  BY DEF IInv, TypeOK
<1>2. ASSUME NEW v \in live'
      PROVE  /\ voucher'[v].used <= Cardinality(UsesOf(v)')
             /\ Cardinality(UsesOf(v)') <= voucher'[v].used + void'[v]
  <2>1. CASE v \in live
    BY <2>1, UsesUntouched DEF IInv, TypeOK, CountersExplained
  <2>2. CASE v \notin live
    <3>1. UsesOf(v)' = {}
      BY <2>2 DEF IInv, NoOrphans, UsesOf
    <3> QED
      BY <2>2, <3>1, FS_EmptySet
  <2> QED
    BY <2>1, <2>2
<1>3. CountersExplained'
  BY <1>2, UsesUntouched DEF IInv, CountersExplained
<1> QED
  BY <1>1, <1>3 DEF IInv

LEMMA CreateSound ==
  ASSUME IInv, NEW v \in Voucher, NEW l \in Limit, NEW k \in Limit, NEW b \in BOOLEAN,
         CreateVoucher(v, l, k, b)
  PROVE  IInv'
<1>1. NewVoucher(l, k, b) \in VoucherRow /\ NewVoucher(l, k, b).used = 0
  BY NewRows
<1>2. /\ voucher' \in [Voucher -> VoucherRow]
      /\ void' \in [Voucher -> Nat]
      /\ live' \subseteq Voucher
  BY <1>1 DEF CreateVoucher, IInv, TypeOK
<1>3. \A w \in live' : IF w \in live
                       THEN voucher'[w].used = voucher[w].used /\ void'[w] = void[w]
                       ELSE voucher'[w].used = 0 /\ void'[w] = 0
  BY <1>1 DEF CreateVoucher, IInv, TypeOK
<1>4. NoOrphans'
  BY DEF CreateVoucher, IInv, NoOrphans
<1> QED
  BY <1>2, <1>3, <1>4, AdminSound DEF CreateVoucher, IInv, TypeOK

LEMMA UpdateVoucherSound ==
  ASSUME IInv, NEW v \in Voucher, NEW l \in Limit, NEW k \in Limit,
         UpdateVoucher(v, l, k)
  PROVE  IInv'
<1>1. /\ voucher' \in [Voucher -> VoucherRow]
      /\ \A w \in Voucher : voucher'[w].used = voucher[w].used
  BY DEF UpdateVoucher, IInv, TypeOK, VoucherRow
<1>2. NoOrphans'
  BY DEF UpdateVoucher, IInv, NoOrphans
<1> QED
  BY <1>1, <1>2, AdminSound DEF UpdateVoucher, IInv, TypeOK

LEMMA DeleteSound ==
  ASSUME IInv, NEW v \in Voucher, DeleteVoucher(v)
  PROVE  IInv'
<1>1. /\ voucher' \in [Voucher -> VoucherRow]
      /\ live' \subseteq live
      /\ \A w \in live' : voucher'[w].used = voucher[w].used
  BY BlankIsRow DEF DeleteVoucher, IInv, TypeOK
<1>2. NoOrphans'
  BY DEF DeleteVoucher, IInv, NoOrphans, UsesOf
<1> QED
  BY <1>1, <1>2, AdminSound DEF DeleteVoucher, IInv, TypeOK

LEMMA UpdatePromotionSound ==
  ASSUME IInv, NEW p \in Promotion, NEW l \in Limit, UpdatePromotion(p, l)
  PROVE  IInv'
<1>1. /\ promotion' \in [Promotion -> PromotionRow]
      /\ \A q \in Promotion : promotion'[q].used = promotion[q].used
  BY DEF UpdatePromotion, IInv, TypeOK, PromotionRow
<1>2. NoOrphans'
  BY DEF UpdatePromotion, IInv, NoOrphans
<1> QED
  BY <1>1, <1>2, AdminSound DEF UpdatePromotion, IInv, TypeOK

LEMMA StutterSound == IInv /\ UNCHANGED vars => IInv'
BY DEF vars, IInv, TypeOK, NoOrphans, CountersExplained, UsesOf, UsesIn

LEMMA NextSound == IInv /\ [Next]_vars => IInv'
BY IncrementSound, RollbackSound, CreateSound, UpdateVoucherSound, DeleteSound,
   UpdatePromotionSound, StutterSound DEF Next

LEMMA InvariantHolds == Spec => []IInv
BY InitSound, NextSound, PTL DEF Spec

-----------------------------------------------------------------------------
(* The theorems. *)

\* Counters stay natural numbers and limits stay limits, whatever is rolled
\* back how often.
THEOREM TypeCorrect == Spec => []TypeOK
<1>1. IInv => TypeOK
  BY DEF IInv
<1> QED
  BY <1>1, InvariantHolds, PTL

\* used_count of a voucher and of its promotion is the number of rows of
\* voucher_usage, less at most one for each roll-back that deleted nothing.
THEOREM CountersAreUses == Spec => []CountersExplained
<1>1. IInv => CountersExplained
  BY DEF IInv
<1> QED
  BY <1>1, InvariantHolds, PTL

\* A step that adds a use is an incrementUsage below both limits, and the
\* counters it looked at were short of the uses by void roll-backs only.
THEOREM TotalLimits == Spec => TotalLimitsKept
<1> DEFINE Kept ==
      /\ \A v \in live :
           Limited(voucher[v]) /\ Cardinality(UsesOf(v)') > Cardinality(UsesOf(v))
             => Cardinality(UsesOf(v)') <= voucher[v].limit + void[v]
      /\ \A p \in Promotion :
           Limited(promotion[p]) /\ Cardinality(UsesIn(p)') > Cardinality(UsesIn(p))
             => Cardinality(UsesIn(p)') <= promotion[p].limit + voidIn[p]
<1>1. ASSUME IInv, NEW v \in Voucher, NEW o \in Order, IncrementUsage(v, o)
      PROVE  Kept
  <2>1. /\ Cardinality(UsesOf(v)') = Cardinality(UsesOf(v)) + 1
        /\ \A w \in Voucher \ {v} : UsesOf(w)' = UsesOf(w)
        /\ Cardinality(UsesIn(PromotionOf[v])') = Cardinality(UsesIn(PromotionOf[v])) + 1
        /\ \A p \in Promotion \ {PromotionOf[v]} : UsesIn(p)' = UsesIn(p)
    BY <1>1, UseAdded DEF IncrementUsage, IInv
  <2>2. /\ \A w \in Voucher : Cardinality(UsesOf(w)) \in Nat
        /\ \A p \in Promotion : Cardinality(UsesIn(p)) \in Nat
    BY <1>1, UsesAreFinite DEF IInv
  <2>3. ASSUME NEW w \in live, Limited(voucher[w]),
               Cardinality(UsesOf(w)') > Cardinality(UsesOf(w))
        PROVE  Cardinality(UsesOf(w)') <= voucher[w].limit + void[w]
    <3>1. w \in Voucher /\ voucher[w] \in VoucherRow /\ void[w] \in Nat
      BY <1>1 DEF IInv, TypeOK
    <3>2. w = v
      BY <2>1, <2>2, <2>3, <3>1
    <3>3. voucher[v].used < voucher[v].limit
      BY <1>1, <2>3, <3>2 DEF IncrementUsage, CanIncrement
    <3>4. Cardinality(UsesOf(v)) <= voucher[v].used + void[v]
      BY <1>1, <3>2 DEF IInv, CountersExplained
    <3>5. voucher[v].used \in Nat /\ voucher[v].limit \in Nat /\ void[v] \in Nat
      BY <3>1, <3>2, VouchersAssumption DEF VoucherRow, Limit
    <3> QED
      BY <2>1, <2>2, <3>2, <3>3, <3>4, <3>5
  <2>4. ASSUME NEW p \in Promotion, Limited(promotion[p]),
               Cardinality(UsesIn(p)') > Cardinality(UsesIn(p))
        PROVE  Cardinality(UsesIn(p)') <= promotion[p].limit + voidIn[p]
    <3>1. promotion[p] \in PromotionRow /\ voidIn[p] \in Nat
      BY <1>1 DEF IInv, TypeOK
    <3>2. p = PromotionOf[v]
      BY <2>1, <2>2, <2>4
    <3>3. promotion[p].used < promotion[p].limit
      BY <1>1, <2>4, <3>2 DEF IncrementUsage, CanIncrement
    <3>4. Cardinality(UsesIn(p)) <= promotion[p].used + voidIn[p]
      BY <1>1 DEF IInv, CountersExplained
    <3>5. promotion[p].used \in Nat /\ promotion[p].limit \in Nat
      BY <3>1, VouchersAssumption DEF PromotionRow, Limit
    <3> QED
      BY <2>1, <2>2, <3>1, <3>2, <3>3, <3>4, <3>5
  <2> QED
    BY <2>3, <2>4
<1>2. ASSUME IInv, uses' \subseteq uses
      PROVE  Kept
  <2>1. ASSUME NEW S, NEW T, IsFiniteSet(S), T \subseteq S
        PROVE  ~(Cardinality(T) > Cardinality(S))
    <3>1. /\ IsFiniteSet(T)
          /\ Cardinality(T) <= Cardinality(S)
      BY <2>1, FS_Subset
    <3>2. Cardinality(S) \in Nat /\ Cardinality(T) \in Nat
      BY <2>1, <3>1, FS_CardinalityType
    <3> QED
      BY <3>1, <3>2
  <2>2. ASSUME NEW v \in live
        PROVE  ~(Cardinality(UsesOf(v)') > Cardinality(UsesOf(v)))
    <3>1. UsesOf(v)' \subseteq UsesOf(v)
      BY <1>2 DEF UsesOf
    <3>2. IsFiniteSet(UsesOf(v))
      BY <1>2, UsesAreFinite DEF IInv, TypeOK
    <3> QED
      BY <2>1, <3>1, <3>2
  <2>3. ASSUME NEW p \in Promotion
        PROVE  ~(Cardinality(UsesIn(p)') > Cardinality(UsesIn(p)))
    <3>1. UsesIn(p)' \subseteq UsesIn(p)
      BY <1>2 DEF UsesIn
    <3>2. IsFiniteSet(UsesIn(p))
      BY <1>2, UsesAreFinite DEF IInv
    <3> QED
      BY <2>1, <3>1, <3>2
  <2> QED
    BY <2>2, <2>3
<1>3. IInv /\ [Next]_vars => [Kept]_vars
  <2>1. ASSUME Next PROVE \/ \E v \in Voucher, o \in Order : IncrementUsage(v, o)
                          \/ uses' \subseteq uses
    BY <2>1 DEF Next, RollbackUsage, CreateVoucher, UpdateVoucher, DeleteVoucher,
       UpdatePromotion
  <2> QED
    BY <1>1, <1>2, <2>1
<1> QED
  BY <1>3, InvariantHolds, PTL DEF Spec, TotalLimitsKept
=============================================================================
