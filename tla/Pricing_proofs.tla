--------------------------- MODULE Pricing_proofs ---------------------------
(***************************************************************************)
(* What a cart holds and costs, and what promotions take off it: theorems  *)
(* about Cart and Promotions, for any number of requests, variants, carts  *)
(* and promotions.                                                         *)
(*                                                                         *)
(* Sums and the merging of lines are folds.  What a fold computes is shown *)
(* by induction over the subsets of a finite set: the property to be shown *)
(* is the set of the subsets that have it.                                 *)
(***************************************************************************)
EXTENDS Cart, Promotions, FiniteSetTheorems, WellFoundedInduction, TLAPS

-----------------------------------------------------------------------------
(* Induction over finite sets, and sums. *)

\* What holds of a set as soon as it holds of its proper subsets holds of every
\* finite set.
LEMMA SubsetInduction ==
  ASSUME NEW S, IsFiniteSet(S), NEW Good,
         \A T \in SUBSET S : (\A U \in SUBSET T : U # T => U \in Good) => T \in Good
  PROVE  S \in Good
<1> DEFINE bad == {T \in SUBSET S : T \notin Good}
<1>1. SUFFICES ASSUME S \notin Good PROVE FALSE
  OBVIOUS
<1>2. IsWellFoundedOn(StrictSubsetOrdering(S), SUBSET S)
  BY FS_StrictSubsetOrderingWellFounded, FS_FiniteSubsetsOfFinite
<1>3. bad \subseteq SUBSET S /\ bad # {}
  BY <1>1
<1>4. PICK T \in bad : \A U \in bad : ~(<<U, T>> \in StrictSubsetOrdering(S))
  <2> HIDE DEF bad
  <2> QED BY <1>2, <1>3, WFMin
<1>5. ASSUME NEW U \in SUBSET T, U # T PROVE U \in Good
  BY <1>4, <1>5 DEF StrictSubsetOrdering
<1> QED BY <1>4, <1>5

\* `it` are the sums of f over the subsets of S, each from a smaller one.
Summing(f, S, it) ==
  it = [s \in SUBSET S |-> IF s = {} THEN 0
                           ELSE f[CHOOSE x \in s : TRUE] + it[s \ {CHOOSE x \in s : TRUE}]]

\* SumFunctionOnSet is a fold: some such partial sums, at S.
LEMMA SumDef ==
  ASSUME NEW f, NEW S
  PROVE  SumFunctionOnSet(f, S) = (CHOOSE it : Summing(f, S, it))[S]
BY DEF SumFunctionOnSet, FoldFunctionOnSet, MapThenFoldSet, Summing

\* There is one way to sum.
LEMMA SummingUnique ==
  ASSUME NEW f, NEW S, IsFiniteSet(S), NEW it1, NEW it2,
         Summing(f, S, it1), Summing(f, S, it2)
  PROVE  it1 = it2
<1> DEFINE Same == {T \in SUBSET S : it1[T] = it2[T]}
<1>1. ASSUME NEW T \in SUBSET S PROVE it1[T] = it2[T]
  <2>1. IsFiniteSet(T)
    BY FS_Subset
  <2>2. ASSUME NEW A \in SUBSET T, \A U \in SUBSET A : U # A => U \in Same
        PROVE  A \in Same
    <3>1. CASE A = {}
      BY <3>1 DEF Summing
    <3>2. CASE A # {}
      <4> DEFINE x == CHOOSE y \in A : TRUE
      <4>1. x \in A /\ A \ {x} \in SUBSET A /\ A \ {x} # A
        BY <3>2
      <4>2. it1[A \ {x}] = it2[A \ {x}]
        BY <4>1, <2>2
      <4>3. it1[A] = f[x] + it1[A \ {x}] /\ it2[A] = f[x] + it2[A \ {x}]
        BY <3>2 DEF Summing
      <4> QED BY <4>2, <4>3
    <3> QED BY <3>1, <3>2
  <2>3. T \in Same
    <3> HIDE DEF Same
    <3> QED BY <2>1, <2>2, SubsetInduction
  <2> QED BY <2>3
<1> QED BY <1>1 DEF Summing

\* There is one at all, and SumFunctionOnSet is it.
LEMMA SummingExists ==
  ASSUME NEW f, NEW S, IsFiniteSet(S)
  PROVE  Summing(f, S, [s \in SUBSET S |-> SumFunctionOnSet(f, s)])
<1> DEFINE Val(s) == SumFunctionOnSet(f, s)
           Known == {T \in SUBSET S : Summing(f, T, [s \in SUBSET T |-> Val(s)])}
<1> HIDE DEF Val
<1>1. ASSUME NEW T \in SUBSET S, \A U \in SUBSET T : U # T => U \in Known
      PROVE  T \in Known
  <2> DEFINE X(s) == CHOOSE x \in s : TRUE
             Rhs(s) == IF s = {} THEN 0 ELSE f[X(s)] + Val(s \ {X(s)})
             it == [s \in SUBSET T |-> IF s = T THEN Rhs(T) ELSE Val(s)]
             J == CHOOSE j : Summing(f, T, j)
  <2>0. IsFiniteSet(T)
    BY FS_Subset
  <2>1. ASSUME NEW s \in SUBSET T, s # T PROVE Val(s) = Rhs(s)
    <3> s \in Known
      BY <1>1, <2>1
    <3> QED BY DEF Summing
  <2>2. Summing(f, T, it)
    <3>1. ASSUME NEW s \in SUBSET T
          PROVE  it[s] = IF s = {} THEN 0 ELSE f[X(s)] + it[s \ {X(s)}]
      <4>1. ASSUME s # {} PROVE X(s) \in s /\ s \ {X(s)} \in SUBSET T /\ s \ {X(s)} # T
        BY <4>1
      <4>2. it[s] = Rhs(s)
        <5>1. CASE s = T
          BY <5>1
        <5>2. CASE s # T
          <6>1. Val(s) = Rhs(s)
            BY <2>1, <5>2
          <6> HIDE DEF Rhs
          <6> QED BY <5>2, <6>1
        <5> QED BY <5>1, <5>2
      <4> QED BY <4>1, <4>2
    <3> QED BY <3>1 DEF Summing
  <2>3. Summing(f, T, J)
    BY <2>2
  <2>4. J = it
    BY <2>0, <2>2, <2>3, SummingUnique
  <2>5. Val(T) = Rhs(T)
    <3>1. Val(T) = J[T]
      BY SumDef DEF Val
    <3> QED BY <3>1, <2>4
  <2>6. it = [s \in SUBSET T |-> Val(s)]
    BY <2>5
  <2> QED BY <2>2, <2>6
<1>2. S \in Known
  <2> HIDE DEF Known
  <2> QED BY <1>1, SubsetInduction
<1> QED BY <1>2 DEF Val

\* The sum over no element.
LEMMA SumEmpty ==
  ASSUME NEW f PROVE SumFunctionOnSet(f, {}) = 0
<1> IsFiniteSet({})
  BY FS_EmptySet
<1> QED BY SummingExists DEF Summing

\* The sum takes out the element it chooses.
LEMMA SumChosen ==
  ASSUME NEW f, NEW S, IsFiniteSet(S), S # {}
  PROVE  LET c == CHOOSE x \in S : TRUE IN
         c \in S /\ SumFunctionOnSet(f, S) = f[c] + SumFunctionOnSet(f, S \ {c})
<1> DEFINE c == CHOOSE x \in S : TRUE
           it == [s \in SUBSET S |-> SumFunctionOnSet(f, s)]
<1>1. c \in S /\ S \ {c} \in SUBSET S
  OBVIOUS
<1>2. Summing(f, S, it)
  BY SummingExists
<1>3. it[S] = f[c] + it[S \ {c}]
  <2> HIDE DEF it
  <2> QED BY <1>2 DEF Summing
<1> QED BY <1>1, <1>3

\* Amounts that are natural numbers add up to one.
LEMMA SumNat ==
  ASSUME NEW S, IsFiniteSet(S), NEW f, \A x \in S : f[x] \in Nat
  PROVE  SumFunctionOnSet(f, S) \in Nat
<1> DEFINE Good == {T \in SUBSET S : SumFunctionOnSet(f, T) \in Nat}
<1>1. ASSUME NEW T \in SUBSET S, \A U \in SUBSET T : U # T => U \in Good
      PROVE  T \in Good
  <2>1. CASE T = {}
    BY <2>1, SumEmpty
  <2>2. CASE T # {}
    <3> DEFINE c == CHOOSE x \in T : TRUE
    <3>1. IsFiniteSet(T)
      BY FS_Subset
    <3>2. c \in T /\ SumFunctionOnSet(f, T) = f[c] + SumFunctionOnSet(f, T \ {c})
      BY <2>2, <3>1, SumChosen
    <3>3. T \ {c} \in Good
      BY <1>1, <3>2
    <3> HIDE DEF c
    <3> QED BY <3>2, <3>3
  <2> QED BY <2>1, <2>2
<1>2. S \in Good
  <2> HIDE DEF Good
  <2> QED BY <1>1, SubsetInduction
<1> QED BY <1>2

\* Any element may be taken out first, whichever one the fold chooses.
LEMMA SumWithout ==
  ASSUME NEW S, IsFiniteSet(S), NEW f, \A y \in S : f[y] \in Nat, NEW x \in S
  PROVE  SumFunctionOnSet(f, S) = f[x] + SumFunctionOnSet(f, S \ {x})
<1> DEFINE Sum(T) == SumFunctionOnSet(f, T)
           Good == {T \in SUBSET S : \A y \in T : Sum(T) = f[y] + Sum(T \ {y})}
<1>0. ASSUME NEW T \in SUBSET S PROVE Sum(T) \in Nat /\ IsFiniteSet(T)
  BY SumNat, FS_Subset
<1>1. ASSUME NEW T \in SUBSET S, \A U \in SUBSET T : U # T => U \in Good
      PROVE  T \in Good
  <2>1. SUFFICES ASSUME NEW y \in T PROVE Sum(T) = f[y] + Sum(T \ {y})
    OBVIOUS
  <2> DEFINE c == CHOOSE z \in T : TRUE
  <2>2. c \in T /\ Sum(T) = f[c] + Sum(T \ {c})
    BY <1>0, SumChosen
  <2> HIDE DEF c, Sum
  <2>3. CASE y = c
    BY <2>2, <2>3
  <2>4. CASE y # c
    <3>1. Sum(T \ {c}) = f[y] + Sum((T \ {c}) \ {y})
      <4> T \ {c} \in Good
        BY <1>1, <2>2
      <4> QED BY <2>4
    <3>2. Sum(T \ {y}) = f[c] + Sum((T \ {y}) \ {c})
      <4> T \ {y} \in Good
        BY <1>1
      <4> QED BY <2>2, <2>4
    <3>3. (T \ {c}) \ {y} = (T \ {y}) \ {c}
      OBVIOUS
    <3>4. Sum((T \ {c}) \ {y}) \in Nat /\ f[y] \in Nat /\ f[c] \in Nat
      BY <1>0, <2>2
    <3> QED BY <2>2, <3>1, <3>2, <3>3, <3>4
  <2> QED BY <2>3, <2>4
<1>2. S \in Good
  <2> HIDE DEF Good
  <2> QED BY <1>1, SubsetInduction
<1> QED BY <1>2

-----------------------------------------------------------------------------
(* The lines of a cart. *)

\* Lines as they should be: of the right type, and covered by the stock shown.
SoundLines ==
  {ls \in [Variant -> Line] : \A v \in Live(ls) : ls[v].qty <= ls[v].stockAtAdd}

\* A line that is in the cart has all its columns.
LEMMA LiveLine ==
  ASSUME NEW l \in Line, IsLive(l)
  PROVE  l \in [state : {"live"}, qty : 1 .. MaxQty, price : Nat, subtotal : Nat,
                selected : BOOLEAN, stockAtAdd : 0 .. MaxQty]
BY DEF Line, IsLive, NoLine, Deleted

\* What a customer is shown is a quantity a line may have, or none.
LEMMA ShownBounded ==
  ASSUME NEW stock \in Shown
  PROVE  stock \in 0 .. MaxQty
BY CartAssumption DEF Shown, AvailableStock, Least

\* What an operation writes is a line.
LEMMA MadeLine ==
  ASSUME NEW qty \in 1 .. MaxQty, NEW price \in Nat, NEW selected \in BOOLEAN,
         NEW shown \in 0 .. MaxQty
  PROVE  MakeLine(qty, price, selected, shown) \in Line
<1>1. price * qty \in Nat
  BY CartAssumption
<1> QED BY <1>1 DEF MakeLine, Line

\* A line may be replaced by one that the stock covers.
LEMMA LineReplaced ==
  ASSUME NEW ls \in SoundLines, NEW v \in Variant, NEW qty \in 1 .. MaxQty,
         NEW price \in Nat, NEW selected \in BOOLEAN, NEW shown \in 0 .. MaxQty,
         qty <= shown
  PROVE  [ls EXCEPT ![v] = MakeLine(qty, price, selected, shown)] \in SoundLines
<1> DEFINE l == MakeLine(qty, price, selected, shown)
           new == [ls EXCEPT ![v] = l]
<1>1. l \in Line /\ l.qty <= l.stockAtAdd
  BY MadeLine DEF MakeLine
<1> HIDE DEF l
<1>2. new \in [Variant -> Line]
  BY <1>1 DEF SoundLines
<1>3. ASSUME NEW w \in Live(new) PROVE new[w].qty <= new[w].stockAtAdd
  <2>1. CASE w = v
    BY <1>1, <2>1 DEF SoundLines, Live
  <2>2. CASE w # v
    BY <2>2 DEF SoundLines, Live
  <2> QED BY <2>1, <2>2
<1>4. new \in SoundLines
  <2> HIDE DEF new
  <2> QED BY <1>2, <1>3 DEF SoundLines
<1> QED BY <1>4 DEF l

\* Deleting lines leaves sound ones.
LEMMA LinesDeleted ==
  ASSUME NEW ls \in SoundLines, NEW gone
  PROVE  [v \in Variant |-> IF v \in gone THEN Deleted ELSE ls[v]] \in SoundLines
<1> DEFINE new == [v \in Variant |-> IF v \in gone THEN Deleted ELSE ls[v]]
<1>1. new \in [Variant -> Line]
  BY DEF SoundLines, Line
<1>2. ASSUME NEW w \in Live(new) PROVE w \in Live(ls) /\ new[w] = ls[w]
  BY DEF Live, IsLive, Deleted
<1> QED BY <1>1, <1>2 DEF SoundLines

\* Merging one line of another cart, clamped to the stock, leaves sound ones.
LEMMA MergeSound ==
  ASSUME NEW ls \in SoundLines, NEW in \in Incoming
  PROVE  Merge(ls, in) \in SoundLines
<1> DEFINE v == in.variant
           qty == Least(More(ls, v, in.qty), in.stock)
           price == IF IsLive(ls[v]) THEN ls[v].price ELSE in.price
<1>1. /\ v \in Variant /\ in.qty \in 1 .. MaxQty /\ in.stock \in 0 .. MaxQty
      /\ in.price \in Nat /\ in.selected \in BOOLEAN
  BY ShownBounded, CartAssumption DEF Incoming
<1>2. More(ls, v, in.qty) \in Nat \ {0} /\ price \in Nat
  <2>1. CASE IsLive(ls[v])
    <3>1. ls[v].qty \in 1 .. MaxQty /\ ls[v].price \in Nat
      BY <1>1, <2>1, LiveLine DEF SoundLines
    <3> QED BY <1>1, <2>1, <3>1, CartAssumption DEF More
  <2>2. CASE ~IsLive(ls[v])
    BY <1>1, <2>2, CartAssumption DEF More
  <2> QED BY <2>1, <2>2
<1>3. qty \in 0 .. MaxQty /\ qty <= in.stock
  BY <1>1, <1>2, CartAssumption DEF Least
<1>4. CASE qty = 0 \/ (~IsLive(ls[v]) /\ ~RoomFor(ls, v))
  BY <1>4 DEF Merge
<1>5. CASE ~(qty = 0 \/ (~IsLive(ls[v]) /\ ~RoomFor(ls, v)))
  <2>1. Merge(ls, in) = [ls EXCEPT ![v] = MakeLine(qty, price, in.selected, in.stock)]
    BY <1>5 DEF Merge
  <2>2. qty \in 1 .. MaxQty
    BY <1>3, <1>5, CartAssumption
  <2>3. [ls EXCEPT ![v] = MakeLine(qty, price, in.selected, in.stock)] \in SoundLines
    <3> HIDE DEF qty, price, v
    <3> QED BY <1>1, <1>2, <1>3, <2>2, LineReplaced
  <2> QED BY <2>1, <2>3
<1> QED BY <1>4, <1>5

-----------------------------------------------------------------------------
(* Merging a cart is a fold over its lines, the last of which is taken last. *)

\* A finite set of numbers that is not empty has a greatest one.
LEMMA MaxIsIn ==
  ASSUME NEW S \in SUBSET Int, IsFiniteSet(S), S # {}
  PROVE  Max(S) \in S
<1> DEFINE Bounded == {T \in SUBSET S : T = {} \/ \E x \in T : \A y \in T : x >= y}
<1>1. ASSUME NEW T \in SUBSET S, \A U \in SUBSET T : U # T => U \in Bounded
      PROVE  T \in Bounded
  <2>1. CASE T = {}
    BY <2>1
  <2>2. CASE T # {}
    <3>1. PICK a \in T : TRUE
      BY <2>2
    <3>2. T \ {a} \in Bounded
      BY <1>1, <3>1
    <3>3. CASE T \ {a} = {}
      BY <3>1, <3>3
    <3>4. CASE \E x \in T \ {a} : \A y \in T \ {a} : x >= y
      <4>1. PICK b \in T \ {a} : \A y \in T \ {a} : b >= y
        BY <3>4
      <4>2. a \in Int /\ b \in Int /\ T \subseteq Int
        BY <3>1, <4>1
      <4>3. CASE b >= a
        <5>1. \A y \in T : b >= y
          BY <4>1, <4>3
        <5> QED BY <4>1, <5>1
      <4>4. CASE ~(b >= a)
        <5>1. \A y \in T : a >= y
          BY <4>1, <4>2, <4>4
        <5> QED BY <3>1, <5>1
      <4> QED BY <4>3, <4>4
    <3> QED BY <3>2, <3>3, <3>4
  <2> QED BY <2>1, <2>2
<1>2. S \in Bounded
  <2> HIDE DEF Bounded
  <2> QED BY <1>1, SubsetInduction
<1> QED BY <1>2 DEF Max

\* `it` are the lines after some of the items, each from those before the last.
Merging(ls, items, S, it) ==
  it = [s \in SUBSET S |-> IF s = {} THEN ls
                           ELSE Merge(it[s \ {Max(s)}], items[Max(s)])]

\* There is one way to merge.
LEMMA MergingUnique ==
  ASSUME NEW ls, NEW items, NEW S \in SUBSET Int, IsFiniteSet(S), NEW it1, NEW it2,
         Merging(ls, items, S, it1), Merging(ls, items, S, it2)
  PROVE  it1 = it2
<1> DEFINE Same == {T \in SUBSET S : it1[T] = it2[T]}
<1>1. ASSUME NEW T \in SUBSET S PROVE it1[T] = it2[T]
  <2>1. IsFiniteSet(T)
    BY FS_Subset
  <2>2. ASSUME NEW A \in SUBSET T, \A U \in SUBSET A : U # A => U \in Same
        PROVE  A \in Same
    <3>1. CASE A = {}
      BY <3>1 DEF Merging
    <3>2. CASE A # {}
      <4>1. Max(A) \in A /\ A \ {Max(A)} \in SUBSET A /\ A \ {Max(A)} # A
        BY <2>1, <3>2, MaxIsIn, FS_Subset
      <4>2. it1[A \ {Max(A)}] = it2[A \ {Max(A)}]
        BY <4>1, <2>2
      <4>3. /\ it1[A] = Merge(it1[A \ {Max(A)}], items[Max(A)])
            /\ it2[A] = Merge(it2[A \ {Max(A)}], items[Max(A)])
        BY <3>2 DEF Merging
      <4> QED BY <4>2, <4>3
    <3> QED BY <3>1, <3>2
  <2>3. T \in Same
    <3> HIDE DEF Same
    <3> QED BY <2>1, <2>2, SubsetInduction
  <2> QED BY <2>3
<1> QED BY <1>1 DEF Merging

\* The lines after the items in S.
Merged(ls, items, S) == (CHOOSE it : Merging(ls, items, S, it))[S]

\* There is one at all, and Merged is it.
LEMMA MergingExists ==
  ASSUME NEW ls, NEW items, NEW S \in SUBSET Int, IsFiniteSet(S)
  PROVE  Merging(ls, items, S, [s \in SUBSET S |-> Merged(ls, items, s)])
<1> DEFINE Val(s) == Merged(ls, items, s)
           Known == {T \in SUBSET S :
                      Merging(ls, items, T, [s \in SUBSET T |-> Val(s)])}
<1> HIDE DEF Val
<1>1. ASSUME NEW T \in SUBSET S, \A U \in SUBSET T : U # T => U \in Known
      PROVE  T \in Known
  <2> DEFINE Rhs(s) == IF s = {} THEN ls ELSE Merge(Val(s \ {Max(s)}), items[Max(s)])
             it == [s \in SUBSET T |-> IF s = T THEN Rhs(T) ELSE Val(s)]
             J == CHOOSE j : Merging(ls, items, T, j)
  <2>0. IsFiniteSet(T) /\ T \in SUBSET Int
    BY FS_Subset
  <2>1. ASSUME NEW s \in SUBSET T, s # T PROVE Val(s) = Rhs(s)
    <3> s \in Known
      BY <1>1, <2>1
    <3> QED BY DEF Merging
  <2>2. Merging(ls, items, T, it)
    <3>1. ASSUME NEW s \in SUBSET T
          PROVE  it[s] = IF s = {} THEN ls ELSE Merge(it[s \ {Max(s)}], items[Max(s)])
      <4>1. ASSUME s # {}
            PROVE  Max(s) \in s /\ s \ {Max(s)} \in SUBSET T /\ s \ {Max(s)} # T
        BY <2>0, <4>1, MaxIsIn, FS_Subset
      <4>2. it[s] = Rhs(s)
        <5>1. CASE s = T
          BY <5>1
        <5>2. CASE s # T
          <6>1. Val(s) = Rhs(s)
            BY <2>1, <5>2
          <6> HIDE DEF Rhs
          <6> QED BY <5>2, <6>1
        <5> QED BY <5>1, <5>2
      <4> QED BY <4>1, <4>2
    <3> QED BY <3>1 DEF Merging
  <2>3. Merging(ls, items, T, J)
    BY <2>2
  <2>4. J = it
    BY <2>0, <2>2, <2>3, MergingUnique
  <2>5. Val(T) = Rhs(T)
    <3>1. Val(T) = J[T]
      BY DEF Val, Merged
    <3> QED BY <3>1, <2>4
  <2>6. it = [s \in SUBSET T |-> Val(s)]
    BY <2>5
  <2> QED BY <2>2, <2>6
<1>2. S \in Known
  <2> HIDE DEF Known
  <2> QED BY <1>1, SubsetInduction
<1> QED BY <1>2 DEF Val

\* However many lines are merged into a cart, each is covered by its stock.
LEMMA FoldSound ==
  ASSUME NEW ls \in SoundLines, NEW items \in BoundedSeq(Incoming, MaxMerge)
  PROVE  FoldLeft(Merge, ls, items) \in SoundLines
<1> DEFINE S == DOMAIN items
           Sound == {T \in SUBSET S : Merged(ls, items, T) \in SoundLines}
<1>1. PICK n \in 0 .. MaxMerge : items \in [1 .. n -> Incoming]
  BY DEF BoundedSeq, SeqOf
<1>2. S = 1 .. n /\ IsFiniteSet(S) /\ S \in SUBSET Int
  BY <1>1, FS_Interval
<1>3. ASSUME NEW T \in SUBSET S, \A U \in SUBSET T : U # T => U \in Sound
      PROVE  T \in Sound
  <2> DEFINE it == [s \in SUBSET T |-> Merged(ls, items, s)]
  <2>1. IsFiniteSet(T) /\ T \in SUBSET Int
    BY <1>2, FS_Subset
  <2>2. Merging(ls, items, T, it)
    BY <2>1, MergingExists
  <2>3. it[T] = IF T = {} THEN ls ELSE Merge(it[T \ {Max(T)}], items[Max(T)])
    <3> HIDE DEF it
    <3> QED BY <2>2 DEF Merging
  <2>4. CASE T = {}
    BY <2>3, <2>4
  <2>5. CASE T # {}
    <3>1. Max(T) \in T /\ T \ {Max(T)} # T
      BY <2>1, <2>5, MaxIsIn
    <3>2. T \ {Max(T)} \in Sound
      BY <1>3, <3>1
    <3>3. items[Max(T)] \in Incoming
      BY <1>1, <1>2, <3>1
    <3>4. Merged(ls, items, T) = Merge(Merged(ls, items, T \ {Max(T)}), items[Max(T)])
      BY <2>3, <2>5
    <3> QED BY <3>2, <3>3, <3>4, MergeSound
  <2> QED BY <2>4, <2>5
<1>4. S \in Sound
  <2>1. IsFiniteSet(S)
    BY <1>2
  <2> HIDE DEF Sound, S
  <2> QED BY <2>1, <1>3, SubsetInduction
<1>5. FoldLeft(Merge, ls, items) = Merged(ls, items, S)
  BY DEF FoldLeft, MapThenFoldSet, Merged, Merging
<1> QED BY <1>4, <1>5

-----------------------------------------------------------------------------
(* Theorems about Cart. *)

\* A cart that is still to be made has no line, and who is past finding or
\* making one has one that was made.
NewCartsEmpty ==
  \A c \in CartId : status[c] = "NONE" =>
    lines[c] = [v \in Variant |-> NoLine] /\ totals[c] = NoTotals
KnownCarts ==
  \A r \in Request : request[r].phase \in {"created", "found", "deleting"} =>
    request[r].cart \in CartId /\ status[request[r].cart] # "NONE"

CartInv ==
  /\ TypeOK
  /\ NewCartsEmpty
  /\ KnownCarts
  /\ TotalsMatchLines
  /\ LinesCovered
  /\ ActiveCartsBounded

\* The invariant says of each cart that its lines are sound.
LEMMA LinesAreSound ==
  ASSUME CartInv, NEW c \in CartId
  PROVE  lines[c] \in SoundLines
BY DEF CartInv, TypeOK, LinesCovered, SoundLines

\* The totals of whatever lines are counts and an amount.
LEMMA TotalsAreCounts ==
  ASSUME NEW ls \in [Variant -> Line]
  PROVE  TotalsOf(ls) \in [items : Nat, selected : Nat, subtotal : Nat]
<1> DEFINE f == [v \in Live(ls) |-> ls[v].subtotal]
<1>1. IsFiniteSet(Live(ls)) /\ IsFiniteSet({v \in Live(ls) : ls[v].selected})
  BY CartAssumption, FS_Subset DEF Live
<1>2. Cardinality(Live(ls)) \in Nat /\ Cardinality({v \in Live(ls) : ls[v].selected}) \in Nat
  BY <1>1, FS_CardinalityType
<1>3. Subtotal(ls) \in Nat
  <2>1. ASSUME NEW v \in Live(ls) PROVE f[v] \in Nat
    BY LiveLine DEF Live
  <2>2. SumFunctionOnSet(f, Live(ls)) \in Nat
    <3> HIDE DEF f
    <3> QED BY <1>1, <2>1, SumNat
  <2> QED BY <2>2 DEF Subtotal, SumFunction
<1> QED BY <1>2, <1>3 DEF TotalsOf

\* A cart without a line is worth nothing.
LEMMA TotalsOfNoLine ==
  ASSUME NEW ls, Live(ls) = {}
  PROVE  TotalsOf(ls) = NoTotals
<1>1. {v \in Live(ls) : ls[v].selected} = {} /\ DOMAIN [v \in Live(ls) |-> ls[v].subtotal] = {}
  OBVIOUS
<1>2. Cardinality({}) = 0
  BY FS_EmptySet
<1>3. Subtotal(ls) = 0
  BY <1>1, SumEmpty DEF Subtotal, SumFunction
<1> QED BY <1>1, <1>2, <1>3 DEF TotalsOf, NoTotals

\* A step that makes no cart active and sends nobody to create one keeps the bound.
LEMMA NoMoreCarts ==
  ASSUME CartInv, Active' \subseteq Active, Creating' \subseteq Creating
  PROVE  ActiveCartsBounded'
<1>1. IsFiniteSet(Active) /\ IsFiniteSet(Creating)
  BY CartAssumption, FS_Interval, FS_Subset DEF Active, Creating, CartId
<1>2. /\ Cardinality(Active') <= Cardinality(Active) /\ Cardinality(Active') \in Nat
      /\ Cardinality(Creating') <= Cardinality(Creating) /\ Cardinality(Creating') \in Nat
  BY <1>1, FS_Subset, FS_CardinalityType
<1>3. Cardinality(Active) \in Nat /\ Cardinality(Creating) \in Nat /\ Cardinality(Request) \in Nat
  BY <1>1, CartAssumption, FS_CardinalityType
<1> QED BY <1>2, <1>3 DEF CartInv, ActiveCartsBounded

\* A request that ends leaves fewer at work.
LEMMA RequestEnds ==
  ASSUME CartInv, NEW r \in Request, request' = [request EXCEPT ![r] = AtRest]
  PROVE  /\ request' \in [Request -> [phase : Phase, cart : CartId \cup {NoCart},
                                       locked : SUBSET Variant]]
         /\ Creating' \subseteq Creating
         /\ \A q \in Request : request'[q].phase # "idle" =>
              q # r /\ request'[q] = request[q]
BY DEF CartInv, TypeOK, AtRest, Phase, Creating

\* Whatever operation writes sound lines and their totals, and ends, is fine.
LEMMA LinesWritten ==
  ASSUME CartInv, NEW r \in Request, NEW c \in CartId, status[c] # "NONE",
         NEW ls \in SoundLines,
         lines' = [lines EXCEPT ![c] = ls],
         totals' = [totals EXCEPT ![c] = TotalsOf(ls)],
         request' = [request EXCEPT ![r] = AtRest],
         status' = status
  PROVE  CartInv'
<1>1. ls \in [Variant -> Line]
  BY DEF SoundLines
<1>2. TypeOK'
  <2>1. TotalsOf(ls) \in [items : Nat, selected : Nat, subtotal : Nat]
    BY <1>1, TotalsAreCounts
  <2> QED BY <1>1, <2>1, RequestEnds DEF CartInv, TypeOK
<1>3. NewCartsEmpty'
  BY DEF CartInv, TypeOK, NewCartsEmpty
<1>4. KnownCarts'
  BY RequestEnds DEF CartInv, KnownCarts
<1>5. TotalsMatchLines'
  <2> SUFFICES ASSUME NEW d \in Active' PROVE totals'[d] = TotalsOf(lines'[d])
    BY DEF TotalsMatchLines, TotalsOf, Live, Subtotal
  <2>1. d \in CartId /\ d \in Active
    BY DEF Active
  <2>2. CASE d = c
    <3>1. totals'[d] = TotalsOf(ls) /\ lines'[d] = ls
      BY <2>1, <2>2 DEF CartInv, TypeOK
    <3> QED BY <3>1
  <2>3. CASE d # c
    <3>1. totals'[d] = totals[d] /\ lines'[d] = lines[d]
      BY <2>1, <2>3 DEF CartInv, TypeOK
    <3> QED BY <2>1, <3>1 DEF CartInv, TotalsMatchLines
  <2> QED BY <2>2, <2>3
<1>6. LinesCovered'
  <2> SUFFICES ASSUME NEW d \in CartId PROVE lines'[d] \in SoundLines
    BY DEF LinesCovered, SoundLines, Live
  <2>1. lines'[d] = ls \/ lines'[d] = lines[d]
    BY DEF CartInv, TypeOK
  <2> QED BY <2>1, LinesAreSound
<1>7. ActiveCartsBounded'
  <2>1. Active' \subseteq Active
    BY DEF Active
  <2> QED BY <2>1, RequestEnds, NoMoreCarts
<1> QED BY <1>2, <1>3, <1>4, <1>5, <1>6, <1>7 DEF CartInv

\* So is whatever commits sound lines.
LEMMA Committed ==
  ASSUME CartInv, NEW r \in Request, request[r].phase \in {"created", "found"},
         NEW ls \in SoundLines, Commit(r, ls)
  PROVE  CartInv'
<1>1. request[r].cart \in CartId /\ status[request[r].cart] # "NONE"
  BY DEF CartInv, KnownCarts
<1> QED BY <1>1, LinesWritten DEF Commit

\* The lines of the cart a request is about.
LEMMA OwnLines ==
  ASSUME CartInv, NEW r \in Request, request[r].phase \in {"created", "found", "deleting"}
  PROVE  LinesOf(r) \in SoundLines
BY LinesAreSound DEF LinesOf, CartInv, KnownCarts

\* No cart, no request.
LEMMA InitCartInv == Init => CartInv
<1> SUFFICES ASSUME Init PROVE CartInv
  OBVIOUS
<1>1. TypeOK
  BY DEF Init, TypeOK, NoLine, NoTotals, Line, AtRest, Phase
<1>2. NewCartsEmpty /\ KnownCarts
  BY DEF Init, NewCartsEmpty, KnownCarts, AtRest
<1>3. Active = {} /\ Creating = {}
  BY DEF Init, Active, Creating, AtRest
<1>4. TotalsMatchLines
  BY <1>3 DEF TotalsMatchLines
<1>5. LinesCovered
  BY DEF Init, LinesCovered, Live, IsLive, NoLine
<1>6. ActiveCartsBounded
  BY <1>3, FS_EmptySet, FS_CardinalityType, CartAssumption DEF ActiveCartsBounded
<1> QED BY <1>1, <1>2, <1>4, <1>5, <1>6 DEF CartInv

\* The steps, one action each.
LEMMA FindCartStep == ASSUME CartInv, NEW r \in Request, FindCart(r) PROVE CartInv'
<1>1. PICK c \in CartId :
        /\ status[c] = "ACTIVE"
        /\ request' = [request EXCEPT ![r].phase = "found", ![r].cart = c]
  BY DEF FindCart, Found, Active
<1>2. UNCHANGED <<status, lines, totals>>
  BY DEF FindCart
<1>3. TypeOK'
  BY <1>1, <1>2 DEF CartInv, TypeOK, Phase
<1>4. NewCartsEmpty' /\ LinesCovered'
  BY <1>2 DEF CartInv, NewCartsEmpty, LinesCovered, Live
<1>5. KnownCarts'
  BY <1>1, <1>2 DEF CartInv, TypeOK, KnownCarts
<1>6. TotalsMatchLines'
  BY <1>2 DEF CartInv, TotalsMatchLines, Active, TotalsOf, Live, Subtotal
<1>7. ActiveCartsBounded'
  <2>1. Active' \subseteq Active /\ Creating' \subseteq Creating
    BY <1>1, <1>2 DEF CartInv, TypeOK, Active, Creating
  <2> QED BY <2>1, NoMoreCarts
<1> QED BY <1>3, <1>4, <1>5, <1>6, <1>7 DEF CartInv

\* Who finds no active cart, when there is none, is one of the requests.
LEMMA FindNoCartStep == ASSUME CartInv, NEW r \in Request, FindNoCart(r) PROVE CartInv'
<1>1. /\ request' = [request EXCEPT ![r].phase = "creating"]
      /\ UNCHANGED <<status, lines, totals>> /\ Active = {}
  BY DEF FindNoCart, NoneFound
<1>2. TypeOK'
  BY <1>1 DEF CartInv, TypeOK, Phase
<1>3. NewCartsEmpty' /\ LinesCovered'
  BY <1>1 DEF CartInv, NewCartsEmpty, LinesCovered, Live
<1>4. KnownCarts'
  BY <1>1 DEF CartInv, TypeOK, KnownCarts
<1>5. TotalsMatchLines'
  BY <1>1 DEF CartInv, TotalsMatchLines, Active, TotalsOf, Live, Subtotal
<1>6. ActiveCartsBounded'
  <2>1. Active' = {} /\ Creating' \subseteq Request
    BY <1>1 DEF Active, Creating
  <2>2. Cardinality(Creating') <= Cardinality(Request) /\ Cardinality(Creating') \in Nat
    BY <2>1, CartAssumption, FS_Subset, FS_CardinalityType
  <2>3. Cardinality(Active') = 0
    BY <2>1, FS_EmptySet
  <2> QED BY <2>2, <2>3 DEF ActiveCartsBounded
<1> QED BY <1>2, <1>3, <1>4, <1>5, <1>6 DEF CartInv

\* One more active cart, one request less that is about to make one.
LEMMA CreateCartStep == ASSUME CartInv, NEW r \in Request, CreateCart(r) PROVE CartInv'
<1>1. PICK c \in CartId :
        /\ status[c] = "NONE"
        /\ status' = [status EXCEPT ![c] = "ACTIVE"]
        /\ request' = [request EXCEPT ![r].phase = "created", ![r].cart = c]
  BY DEF CreateCart
<1>2. request[r].phase = "creating" /\ UNCHANGED <<lines, totals>>
  BY DEF CreateCart
<1>3. TypeOK'
  BY <1>1, <1>2 DEF CartInv, TypeOK, Phase
<1>4. NewCartsEmpty' /\ LinesCovered'
  BY <1>1, <1>2 DEF CartInv, TypeOK, NewCartsEmpty, LinesCovered, Live
<1>5. KnownCarts'
  BY <1>1, <1>2 DEF CartInv, TypeOK, KnownCarts
<1>6. TotalsMatchLines'
  <2> SUFFICES ASSUME NEW d \in Active' PROVE totals[d] = TotalsOf(lines[d])
    BY <1>2 DEF TotalsMatchLines, TotalsOf, Live, Subtotal
  <2>1. CASE d = c
    <3>1. lines[c] = [v \in Variant |-> NoLine] /\ totals[c] = NoTotals
      BY <1>1 DEF CartInv, NewCartsEmpty
    <3>2. Live(lines[c]) = {}
      BY <3>1 DEF Live, IsLive, NoLine
    <3> QED BY <2>1, <3>1, <3>2, TotalsOfNoLine
  <2>2. CASE d # c
    <3>1. d \in Active
      BY <1>1, <2>2 DEF Active, CartInv, TypeOK
    <3> QED BY <3>1 DEF CartInv, TotalsMatchLines
  <2> QED BY <2>1, <2>2
<1>7. ActiveCartsBounded'
  <2>1. IsFiniteSet(Active) /\ IsFiniteSet(Creating)
    BY CartAssumption, FS_Interval, FS_Subset DEF Active, Creating, CartId
  <2>2. Active' = Active \cup {c} /\ c \notin Active
    BY <1>1 DEF Active, CartInv, TypeOK
  <2>3. Creating' = Creating \ {r} /\ r \in Creating
    BY <1>1, <1>2 DEF Creating, CartInv, TypeOK
  <2>4. Cardinality(Active') = Cardinality(Active) + 1
    BY <2>1, <2>2, FS_AddElement
  <2>5. Cardinality(Creating') = Cardinality(Creating) - 1
    BY <2>1, <2>3, FS_RemoveElement
  <2>6. Cardinality(Active) \in Nat /\ Cardinality(Creating) \in Nat
    BY <2>1, FS_CardinalityType
  <2> QED BY <2>4, <2>5, <2>6 DEF CartInv, ActiveCartsBounded
<1> QED BY <1>3, <1>4, <1>5, <1>6, <1>7 DEF CartInv

LEMMA EndRequestStep == ASSUME CartInv, NEW r \in Request, EndRequest(r) PROVE CartInv'
<1>1. request' = [request EXCEPT ![r] = AtRest] /\ UNCHANGED <<status, lines, totals>>
  BY DEF EndRequest
<1>2. TypeOK' /\ NewCartsEmpty' /\ LinesCovered'
  BY <1>1, RequestEnds DEF CartInv, TypeOK, NewCartsEmpty, LinesCovered, Live
<1>3. KnownCarts'
  BY <1>1, RequestEnds DEF CartInv, KnownCarts
<1>4. TotalsMatchLines'
  BY <1>1 DEF CartInv, TotalsMatchLines, Active, TotalsOf, Live, Subtotal
<1>5. ActiveCartsBounded'
  <2>1. Active' = Active
    BY <1>1 DEF Active
  <2> QED BY <1>1, <2>1, RequestEnds, NoMoreCarts
<1> QED BY <1>2, <1>3, <1>4, <1>5 DEF CartInv

LEMMA AddItemStep == ASSUME CartInv, NEW r \in Request, AddItem(r) PROVE CartInv'
<1> DEFINE ls == LinesOf(r)
<1>1. PICK v \in Variant, qty \in 1 .. MaxQty, stock \in Shown, price \in Price,
           selected \in BOOLEAN :
        /\ More(ls, v, qty) <= stock
        /\ More(ls, v, qty) <= MaxQty
        /\ Commit(r, [ls EXCEPT ![v] = MakeLine(More(ls, v, qty), price, selected, stock)])
  BY DEF AddItem, Covered
<1>2. request[r].phase \in {"created", "found"}
  BY DEF AddItem
<1>3. ls \in SoundLines
  BY <1>2, OwnLines
<1>4. More(ls, v, qty) \in 1 .. MaxQty
  <2>1. CASE IsLive(ls[v])
    <3>1. ls[v].qty \in 1 .. MaxQty
      BY <1>3, <2>1, LiveLine DEF SoundLines
    <3> QED BY <1>1, <2>1, <3>1, CartAssumption DEF More
  <2>2. CASE ~IsLive(ls[v])
    BY <2>2 DEF More
  <2> QED BY <2>1, <2>2
<1>5. stock \in 0 .. MaxQty /\ price \in Nat
  BY ShownBounded, CartAssumption
<1> DEFINE new == [ls EXCEPT ![v] = MakeLine(More(ls, v, qty), price, selected, stock)]
<1>6. new \in SoundLines
  <2> HIDE DEF ls
  <2> QED BY <1>1, <1>3, <1>4, <1>5, LineReplaced
<1> QED BY <1>1, <1>2, <1>6, Committed

LEMMA UpdateItemStep == ASSUME CartInv, NEW r \in Request, UpdateItem(r) PROVE CartInv'
<1> DEFINE ls == LinesOf(r)
<1>1. PICK v \in Live(ls), qty \in 1 .. MaxQty, stock \in Shown, selected \in BOOLEAN :
        /\ qty <= stock
        /\ Commit(r, [ls EXCEPT ![v] = MakeLine(qty, @.price, selected, stock)])
  BY DEF UpdateItem
<1>2. request[r].phase \in {"created", "found"}
  BY DEF UpdateItem
<1>3. ls \in SoundLines
  BY <1>2, OwnLines
<1>4. v \in Variant /\ ls[v].price \in Nat
  BY <1>3, LiveLine DEF SoundLines, Live
<1>5. stock \in 0 .. MaxQty
  BY ShownBounded
<1> DEFINE new == [ls EXCEPT ![v] = MakeLine(qty, ls[v].price, selected, stock)]
<1>6. new \in SoundLines
  <2> HIDE DEF ls
  <2> QED BY <1>1, <1>3, <1>4, <1>5, LineReplaced
<1> QED BY <1>1, <1>2, <1>6, Committed

LEMMA RemoveItemsStep == ASSUME CartInv, NEW r \in Request, RemoveItems(r) PROVE CartInv'
<1>1. PICK gone :
        Commit(r, [v \in Variant |-> IF v \in gone THEN Deleted ELSE LinesOf(r)[v]])
  BY DEF RemoveItems
<1>2. request[r].phase \in {"created", "found"}
  BY DEF RemoveItems
<1> QED BY <1>1, <1>2, OwnLines, LinesDeleted, Committed

LEMMA ClearCartStep == ASSUME CartInv, NEW r \in Request, ClearCart(r) PROVE CartInv'
<1> DEFINE c == request[r].cart
           gone == Live(lines[c])
           ls == [v \in Variant |-> IF v \in gone THEN Deleted ELSE lines[c][v]]
<1>1. c \in CartId /\ status[c] # "NONE" /\ lines[c] \in SoundLines
  BY LinesAreSound DEF ClearCart, CartInv, KnownCarts
<1>2. ls \in SoundLines
  BY <1>1, LinesDeleted
<1>3. Live(ls) = {}
  BY DEF Live, IsLive, Deleted
<1>4. TotalsOf(ls) = NoTotals
  BY <1>3, TotalsOfNoLine
<1>5. [v \in Variant |-> IF IsLive(lines[c][v]) THEN Deleted ELSE lines[c][v]] = ls
  BY DEF Live
<1>6. /\ lines' = [lines EXCEPT ![c] = ls]
      /\ totals' = [totals EXCEPT ![c] = TotalsOf(ls)]
      /\ request' = [request EXCEPT ![r] = AtRest]
      /\ status' = status
  BY <1>4, <1>5 DEF ClearCart
<1> HIDE DEF c, ls
<1> QED BY <1>1, <1>2, <1>6, LinesWritten

LEMMA SelectItemsStep == ASSUME CartInv, NEW r \in Request, SelectItems(r) PROVE CartInv'
<1> DEFINE ls == LinesOf(r)
<1>1. PICK chosen \in SUBSET Live(ls), selected \in BOOLEAN :
        Commit(r, [v \in Variant |->
                    IF v \in chosen THEN [ls[v] EXCEPT !.selected = selected] ELSE ls[v]])
  BY DEF SelectItems
<1>2. request[r].phase \in {"created", "found"}
  BY DEF SelectItems
<1>3. ls \in SoundLines
  BY <1>2, OwnLines
<1> DEFINE new == [v \in Variant |->
                    IF v \in chosen THEN [ls[v] EXCEPT !.selected = selected] ELSE ls[v]]
<1>4. new \in SoundLines
  <2> HIDE DEF ls
  <2>1. ASSUME NEW v \in Variant
        PROVE  /\ new[v] \in Line
               /\ IsLive(new[v]) => new[v].qty <= new[v].stockAtAdd
    <3>1. CASE v \in chosen
      <4>1. IsLive(ls[v]) /\ ls[v] \in Line /\ ls[v].qty <= ls[v].stockAtAdd
        BY <1>3, <3>1 DEF SoundLines, Live
      <4>2. ls[v] \in [state : {"live"}, qty : 1 .. MaxQty, price : Nat, subtotal : Nat,
                       selected : BOOLEAN, stockAtAdd : 0 .. MaxQty]
        BY <4>1, LiveLine
      <4>3. new[v] \in [state : {"live"}, qty : 1 .. MaxQty, price : Nat, subtotal : Nat,
                       selected : BOOLEAN, stockAtAdd : 0 .. MaxQty]
            /\ new[v].qty = ls[v].qty /\ new[v].stockAtAdd = ls[v].stockAtAdd
        BY <3>1, <4>2
      <4> QED BY <4>1, <4>3 DEF Line
    <3>2. CASE v \notin chosen
      BY <1>3, <3>2 DEF SoundLines, Live
    <3> QED BY <3>1, <3>2
  <2>2. new \in [Variant -> Line]
    BY <2>1
  <2> HIDE DEF new
  <2> QED BY <2>1, <2>2 DEF SoundLines, Live
<1> QED BY <1>1, <1>2, <1>4, Committed

LEMMA MergeCartStep == ASSUME CartInv, NEW r \in Request, MergeCart(r) PROVE CartInv'
<1>1. PICK items \in BoundedSeq(Incoming, MaxMerge) :
        Commit(r, FoldLeft(Merge, LinesOf(r), items))
  BY DEF MergeCart
<1>2. request[r].phase \in {"created", "found"}
  BY DEF MergeCart
<1>3. FoldLeft(Merge, LinesOf(r), items) \in SoundLines
  BY <1>2, OwnLines, FoldSound
<1> QED BY <1>1, <1>2, <1>3, Committed

LEMMA DeleteLinesStep == ASSUME CartInv, NEW r \in Request, DeleteLines(r) PROVE CartInv'
<1>1. /\ request' = [request EXCEPT ![r].phase = "deleting",
                                    ![r].locked = Live(lines[request[r].cart])]
      /\ UNCHANGED <<status, lines, totals>> /\ request[r].phase = "found"
  BY DEF DeleteLines
<1>2. TypeOK'
  BY <1>1 DEF CartInv, TypeOK, Phase, Live
<1>3. NewCartsEmpty' /\ LinesCovered'
  BY <1>1 DEF CartInv, NewCartsEmpty, LinesCovered, Live
<1>4. KnownCarts'
  BY <1>1 DEF CartInv, TypeOK, KnownCarts
<1>5. TotalsMatchLines'
  BY <1>1 DEF CartInv, TotalsMatchLines, Active, TotalsOf, Live, Subtotal
<1>6. ActiveCartsBounded'
  <2>1. Active' \subseteq Active /\ Creating' \subseteq Creating
    BY <1>1 DEF CartInv, TypeOK, Active, Creating
  <2> QED BY <2>1, NoMoreCarts
<1> QED BY <1>2, <1>3, <1>4, <1>5, <1>6 DEF CartInv

\* The totals of the cart are not written: it is not active any more.
LEMMA DeleteCartStep == ASSUME CartInv, NEW r \in Request, DeleteCart(r) PROVE CartInv'
<1> DEFINE c == request[r].cart
           ls == [v \in Variant |-> IF v \in request[r].locked THEN Deleted ELSE lines[c][v]]
<1>1. c \in CartId /\ status[c] # "NONE" /\ lines[c] \in SoundLines
  BY LinesAreSound DEF DeleteCart, CartInv, KnownCarts
<1>2. ls \in SoundLines
  BY <1>1, LinesDeleted
<1>3. /\ lines' = [lines EXCEPT ![c] = ls]
      /\ status' = [status EXCEPT ![c] = "ABANDONED"]
      /\ request' = [request EXCEPT ![r] = AtRest]
      /\ totals' = totals
  BY DEF DeleteCart
<1> HIDE DEF c, ls
<1>4. TypeOK'
  BY <1>1, <1>2, <1>3, RequestEnds DEF CartInv, TypeOK, SoundLines
<1>5. NewCartsEmpty'
  BY <1>1, <1>3 DEF CartInv, TypeOK, NewCartsEmpty
<1>6. KnownCarts'
  BY <1>1, <1>3, RequestEnds DEF CartInv, TypeOK, KnownCarts
<1>7. Active' \subseteq Active \ {c}
  BY <1>1, <1>3 DEF Active, CartInv, TypeOK
<1>8. TotalsMatchLines'
  <2> SUFFICES ASSUME NEW d \in Active' PROVE totals'[d] = TotalsOf(lines'[d])
    BY DEF TotalsMatchLines, TotalsOf, Live, Subtotal
  <2>1. d \in Active /\ d # c /\ d \in CartId
    BY <1>7 DEF Active
  <2>2. totals'[d] = totals[d] /\ lines'[d] = lines[d]
    BY <1>3, <2>1 DEF CartInv, TypeOK
  <2> QED BY <2>1, <2>2 DEF CartInv, TotalsMatchLines
<1>9. LinesCovered'
  <2> SUFFICES ASSUME NEW d \in CartId PROVE lines'[d] \in SoundLines
    BY DEF LinesCovered, SoundLines, Live
  <2>1. lines'[d] = ls \/ lines'[d] = lines[d]
    BY <1>3 DEF CartInv, TypeOK
  <2> QED BY <1>2, <2>1, LinesAreSound
<1>10. ActiveCartsBounded'
  BY <1>3, <1>7, RequestEnds, NoMoreCarts
<1> QED BY <1>4, <1>5, <1>6, <1>8, <1>9, <1>10 DEF CartInv

LEMMA CartInductive == CartInv /\ [Next]_vars => CartInv'
<1> SUFFICES ASSUME CartInv, [Next]_vars PROVE CartInv'
  OBVIOUS
<1>1. ASSUME NEW r \in Request, FindCart(r) PROVE CartInv'
  BY <1>1, FindCartStep
<1>2. ASSUME NEW r \in Request, FindNoCart(r) PROVE CartInv'
  BY <1>2, FindNoCartStep
<1>3. ASSUME NEW r \in Request, CreateCart(r) PROVE CartInv'
  BY <1>3, CreateCartStep
<1>4. ASSUME NEW r \in Request, EndRequest(r) PROVE CartInv'
  BY <1>4, EndRequestStep
<1>5. ASSUME NEW r \in Request, AddItem(r) PROVE CartInv'
  BY <1>5, AddItemStep
<1>6. ASSUME NEW r \in Request, UpdateItem(r) PROVE CartInv'
  BY <1>6, UpdateItemStep
<1>7. ASSUME NEW r \in Request, RemoveItems(r) PROVE CartInv'
  BY <1>7, RemoveItemsStep
<1>8. ASSUME NEW r \in Request, ClearCart(r) PROVE CartInv'
  BY <1>8, ClearCartStep
<1>9. ASSUME NEW r \in Request, SelectItems(r) PROVE CartInv'
  BY <1>9, SelectItemsStep
<1>10. ASSUME NEW r \in Request, MergeCart(r) PROVE CartInv'
  BY <1>10, MergeCartStep
<1>11. ASSUME NEW r \in Request, DeleteLines(r) PROVE CartInv'
  BY <1>11, DeleteLinesStep
<1>12. ASSUME NEW r \in Request, DeleteCart(r) PROVE CartInv'
  BY <1>12, DeleteCartStep
<1>13. CASE UNCHANGED vars
  <2>1. TypeOK' /\ NewCartsEmpty' /\ KnownCarts' /\ LinesCovered'
    BY <1>13 DEF vars, CartInv, TypeOK, NewCartsEmpty, KnownCarts, LinesCovered, Live
  <2>2. TotalsMatchLines' /\ ActiveCartsBounded'
    BY <1>13 DEF vars, CartInv, TotalsMatchLines, TotalsOf, Live, Subtotal, Active,
                 ActiveCartsBounded, Creating
  <2> QED BY <2>1, <2>2 DEF CartInv
<1> QED BY <1>1, <1>2, <1>3, <1>4, <1>5, <1>6, <1>7, <1>8, <1>9, <1>10, <1>11, <1>12,
           <1>13 DEF Next

LEMMA CartInvAlways == Spec => []CartInv
BY InitCartInv, CartInductive, PTL DEF Spec

\* Every variable of the carts keeps its type: quantities stay within
\* MAX_QUANTITY_PER_ITEM however lines are added, set and merged.
THEOREM CartTypeCorrect == Spec => []TypeOK
<1>1. CartInv => TypeOK
  BY DEF CartInv
<1> QED BY <1>1, CartInvAlways, PTL

\* The totals of an active cart are those of its lines.
THEOREM TotalsMatch == Spec => []TotalsMatchLines
<1>1. CartInv => TotalsMatchLines
  BY DEF CartInv
<1> QED BY <1>1, CartInvAlways, PTL

\* No line has more than the stock shown when it was last changed.
THEOREM LinesAreCovered == Spec => []LinesCovered
<1>1. CartInv => LinesCovered
  BY DEF CartInv
<1> QED BY <1>1, CartInvAlways, PTL

\* A customer has no more active carts than requests that looked for one at once.
THEOREM ActiveCartsAreBounded == Spec => []ActiveCartsBounded
<1>1. CartInv => ActiveCartsBounded
  BY DEF CartInv
<1> QED BY <1>1, CartInvAlways, PTL

-----------------------------------------------------------------------------
(* Theorems about Promotions. *)

\* What the loop makes of the promotions it is given, told without its counters: of
\* those that fit and give way to nothing, the first of each category and all that are
\* stackable.
Chosen(loaded) ==
  {p \in Eligible(loaded) :
    \/ offer[p].stackable
    \/ \A q \in Eligible(loaded) : q < p => Category(offer[q]) # Category(offer[p])}

\* What the engine has applied so far is what is chosen of the promotions it has come
\* to, and a request still at loading has applied none.
AppliedSoFar ==
  /\ apply.phase \in {"idle", "loading"} => apply.applied = {} /\ apply.next = 1
  /\ apply.phase \in {"evaluating", "done"} =>
       apply.applied = {p \in Chosen(apply.loaded) : p < apply.next}
  /\ apply.phase = "done" => apply.next \notin Promotion

\* What an administrator's request is about to write is what it was asked to, and
\* a promotion nobody has written since it was read can still be published.
WritesWhatItRead ==
  \A a \in Admin :
    \/ admin[a] = NotWriting
    \/ /\ admin[a].promotion \in Promotion
       /\ admin[a].to \in {"ACTIVE", "ARCHIVED"}
       /\ admin[a].to = "ACTIVE" /\ ~admin[a].stale => Publishable(admin[a].promotion)

PromotionsInv ==
  /\ PromotionsTypeOK
  /\ AppliedSoFar
  /\ TotalsAddUp
  /\ WritesWhatItRead

\* A discount is an amount, whatever the promotion offers.
LEMMA DiscountsAreAmounts ==
  ASSUME NEW o \in Offer
  PROVE  Discount(o) \in Nat /\ Raw(o) \in Nat
<1> USE PromotionsAssumption
<1>1. /\ o.base \in Nat /\ o.value \in Nat /\ o.type \in Type
      /\ o.maximum = NoMaximum \/ o.maximum \in Nat
  BY DEF Offer
<1>2. Raw(o) \in Nat
  <2>1. o.base * Least(o.value, 100) \in Nat
    <3>1. Least(o.value, 100) \in Nat
      BY <1>1 DEF Least
    <3> HIDE DEF Least
    <3> QED BY <1>1, <3>1
  <2>2. (o.base * Least(o.value, 100)) \div 100 \in Nat
    <3> DEFINE n == o.base * Least(o.value, 100)
    <3> HIDE DEF n
    <3>1. n \in Nat => n \div 100 \in Nat
      OBVIOUS
    <3> QED BY <2>1, <3>1 DEF n
  <2>3. CASE o.type \in {"PERCENTAGE", "FLASH_SALE"}
    BY <2>2, <2>3 DEF Raw
  <2>4. CASE o.type = "FIXED_AMOUNT"
    BY <1>1, <2>4 DEF Raw, Least
  <2>5. CASE o.type = "FREE_SHIPPING"
    BY <1>1, <2>5 DEF Raw
  <2> QED BY <1>1, <2>3, <2>4, <2>5 DEF Type
<1> HIDE DEF Raw
<1>3. Discount(o) \in Nat
  BY <1>1, <1>2 DEF Discount, Least, NoMaximum
<1> QED BY <1>2, <1>3

\* What a promotion offers is one of the offers.
LEMMA OfferedType ==
  ASSUME PromotionsTypeOK, NEW p \in Promotion
  PROVE  offer[p] \in Offer
BY PromotionsAssumption DEF PromotionsTypeOK

\* Clamping after each discount is as good as clamping at the end.
LEMMA LeftTwice ==
  ASSUME NEW total \in Nat, NEW before \in Nat, NEW more \in Nat
  PROVE  Left(Left(total, before), more) = Left(total, more + before)
BY DEF Left

\* The first promotion of those that have something in common.
LEMMA First ==
  ASSUME NEW S \in SUBSET Nat, S # {}
  PROVE  \E p \in S : \A q \in S : ~(q < p)
<1>1. PICK p \in S : \A q \in S : ~(<<q, p>> \in OpToRel(<, Nat))
  BY NatLessThanWellFounded, WFMin
<1>2. ASSUME NEW q \in S PROVE ~(q < p)
  BY <1>1, <1>2 DEF OpToRel
<1> QED BY <1>2

\* Whoever is not chosen comes after one of its category that is.
LEMMA FirstOfCategory ==
  ASSUME PromotionsTypeOK, NEW loaded \in SUBSET Promotion,
         NEW p \in Eligible(loaded), p \notin Chosen(loaded)
  PROVE  \E q \in Chosen(loaded) : q < p /\ SameCategory(p, q)
<1> DEFINE Same == {q \in Eligible(loaded) : q < p /\ Category(offer[q]) = Category(offer[p])}
<1>1. Eligible(loaded) \subseteq Nat
  <2>1. Promotion \subseteq Nat
    BY PromotionsAssumption DEF Promotion
  <2>2. Eligible(loaded) \subseteq loaded
    BY DEF Eligible
  <2> QED BY <2>1, <2>2
<1>2. \E q \in Eligible(loaded) : q < p /\ Category(offer[q]) = Category(offer[p])
  BY DEF Chosen
<1>3. Same # {} /\ Same \in SUBSET Nat
  BY <1>1, <1>2
<1>4. \E q \in Same : \A s \in Same : ~(s < q)
  <2> HIDE DEF Same
  <2> QED BY <1>3, First
<1>5. PICK q \in Same : \A s \in Same : ~(s < q)
  BY <1>4
<1>6. ASSUME NEW s \in Eligible(loaded), s < q
      PROVE  Category(offer[s]) # Category(offer[q])
  <2>1. s \in Nat /\ q \in Nat /\ p \in Nat
    BY <1>1, <1>5
  <2>2. s < p
    BY <1>5, <1>6, <2>1
  <2> QED BY <1>5, <1>6, <2>2
<1>7. q \in Chosen(loaded)
  BY <1>5, <1>6 DEF Chosen
<1> QED BY <1>5, <1>7 DEF SameCategory

\* What the loop sees crowded by what it has applied is what is not chosen: somebody
\* eligible of that category comes before.
LEMMA CrowdedIsNotChosen ==
  ASSUME PromotionsTypeOK,
         apply.applied = {p \in Chosen(apply.loaded) : p < apply.next},
         NEW p, p = apply.next, p \in Eligible(apply.loaded)
  PROVE  ~Crowded(p) <=> p \in Chosen(apply.loaded)
<1>1. ASSUME p \notin Chosen(apply.loaded) PROVE Crowded(p)
  <2>1. \E q \in Chosen(apply.loaded) : q < p /\ SameCategory(p, q)
    BY <1>1, FirstOfCategory DEF PromotionsTypeOK
  <2>2. ~offer[p].stackable
    BY <1>1 DEF Chosen
  <2> QED BY <2>1, <2>2 DEF Crowded, SameCategory
<1>2. ASSUME p \in Chosen(apply.loaded) PROVE ~Crowded(p)
  BY <1>2 DEF Chosen, Crowded
<1> QED BY <1>1, <1>2

\* Neither the administrators' steps nor the loading of promotions matter to what
\* a promotion offers and the loop makes of it.
LEMMA ChoiceKept ==
  ASSUME offer' = offer
  PROVE  /\ \A loaded : Chosen(loaded)' = Chosen(loaded)
         /\ \A loaded : Eligible(loaded)' = Eligible(loaded)
BY DEF Chosen, Eligible, GivesWay

\* Nothing applied, nothing taken off.
LEMMA NothingTakenOff ==
  ASSUME apply.applied = {}
  PROVE  OrderDiscount = 0
<1>1. {p \in apply.applied : Category(offer[p]) = "ORDER"} = {}
  OBVIOUS
<1> QED BY <1>1, SumEmpty DEF OrderDiscount

\* Nothing is applied or about to be written.
LEMMA InitPromotionsInv == PromotionsInit => PromotionsInv
<1> SUFFICES ASSUME PromotionsInit PROVE PromotionsInv
  OBVIOUS
<1> USE PromotionsAssumption
<1>1. PromotionsTypeOK
  BY DEF PromotionsInit, PromotionsTypeOK, Status, ApplyPhase, NotApplying, NotWriting, Promotion
<1>2. AppliedSoFar
  BY DEF PromotionsInit, AppliedSoFar, NotApplying
<1>3. TotalsAddUp
  BY NothingTakenOff DEF PromotionsInit, TotalsAddUp, NotApplying, Left
<1>4. WritesWhatItRead
  BY DEF PromotionsInit, WritesWhatItRead
<1> QED BY <1>1, <1>2, <1>3, <1>4 DEF PromotionsInv

\* A step that leaves the customer's request alone.
LEMMA ApplyKept ==
  ASSUME PromotionsInv, UNCHANGED <<offer, apply>>
  PROVE  AppliedSoFar' /\ TotalsAddUp'
<1>1. AppliedSoFar'
  BY ChoiceKept DEF PromotionsInv, AppliedSoFar
<1>2. OrderDiscount' = OrderDiscount
  BY DEF OrderDiscount
<1> QED BY <1>1, <1>2 DEF PromotionsInv, TotalsAddUp

\* A step that leaves the administrators alone.
LEMMA WritersKept ==
  ASSUME PromotionsInv, UNCHANGED <<statusOf, admin>>
  PROVE  WritesWhatItRead'
BY DEF PromotionsInv, WritesWhatItRead, Publishable

\* A status just read is there.
LEMMA ReadStatusStep ==
  ASSUME PromotionsInv, NEW a \in Admin, NEW p \in Promotion,
         NEW to \in {"ACTIVE", "ARCHIVED"}, to = "ACTIVE" => Publishable(p),
         ReadStatus(a, p, to)
  PROVE  PromotionsInv'
<1>1. /\ admin' = [admin EXCEPT ![a] = [promotion |-> p, to |-> to, stale |-> FALSE]]
      /\ UNCHANGED <<statusOf, offer, apply>>
  BY DEF ReadStatus
<1>2. PromotionsTypeOK'
  BY <1>1 DEF PromotionsInv, PromotionsTypeOK, Status
<1>3. WritesWhatItRead'
  BY <1>1 DEF PromotionsInv, PromotionsTypeOK, WritesWhatItRead, Publishable
<1> QED BY <1>1, <1>2, <1>3, ApplyKept DEF PromotionsInv

\* A write makes stale what others have read of the promotion.
LEMMA WriteStatusStep ==
  ASSUME PromotionsInv, NEW a \in Admin, WriteStatus(a)
  PROVE  PromotionsInv'
<1> DEFINE p == admin[a].promotion
<1>1. /\ statusOf' = [statusOf EXCEPT ![p] = admin[a].to]
      /\ admin' = [b \in Admin |->
           IF b = a THEN NotWriting
           ELSE [admin[b] EXCEPT !.stale = @ \/ admin[b].promotion = p]]
      /\ UNCHANGED <<offer, apply>>
  BY DEF WriteStatus
<1>2. p \in Promotion /\ admin[a].to \in Status
  BY DEF WriteStatus, PromotionsInv, WritesWhatItRead, Status
<1>3. PromotionsTypeOK'
  <2>1. admin' \in [Admin -> [promotion : Promotion \cup {NoPromotion},
                              to : Status, stale : BOOLEAN]]
    <3> SUFFICES ASSUME NEW b \in Admin
                 PROVE  admin'[b] \in [promotion : Promotion \cup {NoPromotion},
                                       to : Status, stale : BOOLEAN]
      BY <1>1
    <3>1. CASE b = a
      BY <1>1, <3>1 DEF NotWriting, Status
    <3>2. CASE b # a
      BY <1>1, <3>2 DEF PromotionsInv, PromotionsTypeOK
    <3> QED BY <3>1, <3>2
  <2> QED BY <1>1, <1>2, <2>1 DEF PromotionsInv, PromotionsTypeOK
<1>4. WritesWhatItRead'
  <2> SUFFICES ASSUME NEW b \in Admin, admin'[b] # NotWriting
               PROVE  /\ admin'[b].promotion \in Promotion
                      /\ admin'[b].to \in {"ACTIVE", "ARCHIVED"}
                      /\ admin'[b].to = "ACTIVE" /\ ~admin'[b].stale =>
                           statusOf'[admin'[b].promotion] \notin Terminal
    BY DEF WritesWhatItRead, Publishable
  <2> DEFINE s == admin[b].stale \/ admin[b].promotion = p
  <2>1. b # a /\ admin'[b] = [admin[b] EXCEPT !.stale = s]
    BY <1>1
  <2>2. /\ admin'[b].promotion = admin[b].promotion
        /\ admin'[b].to = admin[b].to /\ admin'[b].stale = s
    BY <2>1 DEF PromotionsInv, PromotionsTypeOK
  <2>3. admin[b] # NotWriting
    <3> SUFFICES ASSUME admin[b] = NotWriting PROVE FALSE
      OBVIOUS
    <3>1. s = admin[b].stale
      <4>1. s = FALSE
        BY <1>2, PromotionsAssumption DEF NotWriting, NoPromotion, Promotion
      <4>2. admin[b].stale = FALSE
        BY DEF NotWriting
      <4> QED BY <4>1, <4>2, Zenon
    <3>2. admin'[b] = [admin[b] EXCEPT !.stale = admin[b].stale]
      BY <2>1, <3>1, Zenon
    <3>3. [admin[b] EXCEPT !.stale = admin[b].stale] = admin[b]
      BY DEF PromotionsInv, PromotionsTypeOK
    <3> QED BY <3>2, <3>3
  <2>4. /\ admin[b].promotion \in Promotion /\ admin[b].to \in {"ACTIVE", "ARCHIVED"}
        /\ admin[b].to = "ACTIVE" /\ ~admin[b].stale =>
             statusOf[admin[b].promotion] \notin Terminal
    BY <2>3 DEF PromotionsInv, WritesWhatItRead, Publishable
  <2>5. ~s => statusOf'[admin[b].promotion] = statusOf[admin[b].promotion]
    BY <1>1, <2>4 DEF PromotionsInv, PromotionsTypeOK
  <2> QED BY <2>2, <2>4, <2>5
<1> QED BY <1>1, <1>3, <1>4, ApplyKept DEF PromotionsInv

\* A request that begins, and one whose answer was taken.
LEMMA Restarted ==
  ASSUME PromotionsInv, UNCHANGED <<statusOf, offer, admin>>,
         NEW phase \in {"idle", "loading", "evaluating"}, NEW wanted \in SUBSET Promotion,
         NEW loaded \in SUBSET Promotion,
         apply' = [phase |-> phase, wanted |-> wanted, loaded |-> loaded, next |-> 1,
                   applied |-> {}, subtotal |-> CartSubtotal, shipping |-> 0]
  PROVE  PromotionsInv'
<1> USE PromotionsAssumption
<1>1. /\ apply'.phase \in {"idle", "loading", "evaluating"} /\ apply'.next = 1
      /\ apply'.applied = {} /\ apply'.subtotal = CartSubtotal /\ apply'.loaded = loaded
  OBVIOUS
<1>2. PromotionsTypeOK'
  BY DEF PromotionsInv, PromotionsTypeOK, ApplyPhase, Promotion
<1>3. AppliedSoFar'
  <2>1. {p \in Chosen(apply.loaded)' : p < 1} = {}
    <3>1. Chosen(apply.loaded)' \subseteq Promotion
      BY <1>1 DEF Chosen, Eligible
    <3> QED BY <3>1 DEF Promotion
  <2> QED BY <1>1, <2>1 DEF AppliedSoFar
<1>4. TotalsAddUp'
  <2>1. {p \in apply'.applied : Category(offer'[p]) = "ORDER"} = {}
    <3>1. apply'.applied = {}
      BY <1>1
    <3> QED BY <3>1, Zenon
  <2>2. OrderDiscount' = 0
    BY <2>1, SumEmpty DEF OrderDiscount
  <2> QED BY <1>1, <2>2 DEF TotalsAddUp, Left
<1> QED BY <1>2, <1>3, <1>4, WritersKept DEF PromotionsInv

\* A step that changes neither what is applied nor the totals.
LEMMA TotalsKept ==
  ASSUME PromotionsInv, offer' = offer, apply'.applied = apply.applied,
         apply'.subtotal = apply.subtotal
  PROVE  TotalsAddUp'
<1>1. OrderDiscount' = OrderDiscount
  BY DEF OrderDiscount
<1> QED BY <1>1 DEF PromotionsInv, TotalsAddUp

\* The steps of a customer's request.
LEMMA LoadIdStep == ASSUME PromotionsInv, LoadId PROVE PromotionsInv'
<1>1. PICK p \in apply.wanted :
        apply' = [apply EXCEPT
                   !.wanted = @ \ {p},
                   !.loaded = IF statusOf[p] = "ACTIVE" THEN @ \cup {p} ELSE @]
  BY DEF LoadId
<1>2. UNCHANGED <<statusOf, offer, admin>> /\ apply.phase = "loading"
  BY DEF LoadId
<1>3. PromotionsTypeOK'
  BY <1>1, <1>2 DEF PromotionsInv, PromotionsTypeOK
<1>4. /\ apply'.phase = "loading" /\ apply'.applied = apply.applied
      /\ apply'.next = apply.next /\ apply'.subtotal = apply.subtotal
  BY <1>1, <1>2 DEF PromotionsInv, PromotionsTypeOK
<1>5. AppliedSoFar'
  BY <1>2, <1>4 DEF PromotionsInv, AppliedSoFar
<1> QED BY <1>2, <1>3, <1>4, <1>5, TotalsKept, WritersKept DEF PromotionsInv

LEMMA LoadedStep == ASSUME PromotionsInv, Loaded PROVE PromotionsInv'
<1>1. /\ apply' = [apply EXCEPT !.phase = "evaluating"] /\ apply.phase = "loading"
      /\ UNCHANGED <<statusOf, offer, admin>>
  BY DEF Loaded
<1>2. PromotionsTypeOK'
  BY <1>1 DEF PromotionsInv, PromotionsTypeOK, ApplyPhase
<1>3. /\ apply'.phase = "evaluating" /\ apply'.applied = {} /\ apply'.next = 1
      /\ apply'.subtotal = apply.subtotal /\ apply.applied = {}
  BY <1>1 DEF PromotionsInv, PromotionsTypeOK, AppliedSoFar
<1>4. AppliedSoFar'
  <2>1. Chosen(apply.loaded)' \subseteq Promotion
    BY <1>2 DEF PromotionsTypeOK, Chosen, Eligible
  <2>2. {p \in Chosen(apply.loaded)' : p < 1} = {}
    BY <2>1, PromotionsAssumption DEF Promotion
  <2> QED BY <1>3, <2>2 DEF AppliedSoFar
<1> QED BY <1>1, <1>2, <1>3, <1>4, TotalsKept, WritersKept DEF PromotionsInv

LEMMA AnswerStep == ASSUME PromotionsInv, Answer PROVE PromotionsInv'
<1>1. /\ apply' = [apply EXCEPT !.phase = "done"] /\ apply.phase = "evaluating"
      /\ apply.next \notin Promotion
      /\ UNCHANGED <<statusOf, offer, admin>>
  BY DEF Answer
<1>2. PromotionsTypeOK'
  BY <1>1 DEF PromotionsInv, PromotionsTypeOK, ApplyPhase
<1>3. /\ apply'.phase = "done" /\ apply'.applied = apply.applied /\ apply'.next = apply.next
      /\ apply'.subtotal = apply.subtotal /\ apply'.loaded = apply.loaded
  BY <1>1 DEF PromotionsInv, PromotionsTypeOK
<1>4. AppliedSoFar'
  <2>1. Chosen(apply.loaded)' = Chosen(apply.loaded)
    BY <1>1, <1>3, ChoiceKept DEF Chosen, Eligible, GivesWay
  <2> QED BY <1>1, <1>3, <2>1 DEF PromotionsInv, AppliedSoFar
<1> QED BY <1>1, <1>2, <1>3, <1>4, TotalsKept, WritersKept DEF PromotionsInv

\* A discount on the order that comes on top of those applied is taken off what
\* they have left.
LEMMA OrderDiscountAdded ==
  ASSUME PromotionsTypeOK, NEW p \in Promotion, p \notin apply.applied, offer' = offer,
         apply'.applied = apply.applied \cup {p}
  PROVE  /\ OrderDiscount \in Nat
         /\ Category(offer[p]) = "ORDER" =>
              OrderDiscount' = Discount(offer[p]) + OrderDiscount
         /\ Category(offer[p]) # "ORDER" => OrderDiscount' = OrderDiscount
<1> DEFINE f == [q \in Promotion |-> Discount(offer[q])]
           S == {q \in apply.applied : Category(offer[q]) = "ORDER"}
           T == {q \in apply.applied \cup {p} : Category(offer[q]) = "ORDER"}
<1>1. /\ OrderDiscount = SumFunctionOnSet(f, S)
      /\ OrderDiscount' = SumFunctionOnSet(f, T)
  BY DEF OrderDiscount
<1>2. S \subseteq Promotion /\ T \subseteq Promotion
  BY DEF PromotionsTypeOK
<1>3. IsFiniteSet(Promotion) /\ IsFiniteSet(S) /\ IsFiniteSet(T)
  <2>1. IsFiniteSet(Promotion)
    BY PromotionsAssumption, FS_Interval DEF Promotion
  <2> HIDE DEF S, T
  <2> QED BY <1>2, <2>1, FS_Subset
<1>4. \A q \in Promotion : f[q] \in Nat
  BY OfferedType, DiscountsAreAmounts
<1>5. SumFunctionOnSet(f, S) \in Nat
  <2> HIDE DEF f, S
  <2> QED BY <1>2, <1>3, <1>4, SumNat
<1>6. CASE Category(offer[p]) = "ORDER"
  <2>1. p \in T /\ T \ {p} = S
    BY <1>6
  <2>2. SumFunctionOnSet(f, T) = f[p] + SumFunctionOnSet(f, T \ {p})
    <3> HIDE DEF f, T, S
    <3> QED BY <1>2, <1>3, <1>4, <2>1, SumWithout
  <2>3. f[p] = Discount(offer[p])
    OBVIOUS
  <2> QED BY <1>1, <1>5, <1>6, <2>1, <2>2, <2>3
<1>7. CASE Category(offer[p]) # "ORDER"
  <2>1. T = S
    BY <1>7
  <2> QED BY <1>1, <1>5, <1>7, <2>1
<1> QED BY <1>6, <1>7

\* The engine comes to the next promotion, and applies it or goes on.
LEMMA EvaluateStep == ASSUME PromotionsInv, Evaluate PROVE PromotionsInv'
<1> DEFINE p == apply.next
           o == offer[p]
           wanted == p \in apply.loaded /\ ~Crowded(p) /\ ~GivesWay(p, apply.loaded) /\ Fits(o)
<1> USE PromotionsAssumption
<1>1. /\ apply.phase = "evaluating" /\ p \in Promotion
      /\ IF wanted THEN Apply(p) ELSE apply' = [apply EXCEPT !.next = p + 1]
      /\ UNCHANGED <<statusOf, offer, admin>>
  BY DEF Evaluate
<1>2. PromotionsTypeOK /\ apply.applied = {q \in Chosen(apply.loaded) : q < p}
  BY <1>1 DEF PromotionsInv, AppliedSoFar
<1>3. wanted <=> p \in Chosen(apply.loaded)
  <2>1. p \in Eligible(apply.loaded) <=>
          p \in apply.loaded /\ ~GivesWay(p, apply.loaded) /\ Fits(o)
    BY DEF Eligible
  <2>2. p \in Chosen(apply.loaded) => p \in Eligible(apply.loaded)
    BY DEF Chosen
  <2>3. p \in Eligible(apply.loaded) => (~Crowded(p) <=> p \in Chosen(apply.loaded))
    BY <1>2, CrowdedIsNotChosen
  <2> QED BY <2>1, <2>2, <2>3
<1>4. p \in Nat /\ p + 1 \in 1 .. NumPromotions + 1 /\ p \notin apply.applied
  BY <1>1, <1>2 DEF Promotion
<1>5. o \in Offer /\ Discount(o) \in Nat /\ Raw(o) \in Nat
  BY <1>1, <1>2, OfferedType, DiscountsAreAmounts
<1>6. /\ apply.subtotal \in 0 .. CartSubtotal /\ apply.shipping \in Nat
      /\ apply.subtotal = Left(CartSubtotal, OrderDiscount)
  BY <1>2 DEF PromotionsTypeOK, PromotionsInv, TotalsAddUp
<1>7. /\ apply'.phase = "evaluating" /\ apply'.loaded = apply.loaded
      /\ apply'.next = p + 1
      /\ apply'.applied = IF wanted THEN apply.applied \cup {p} ELSE apply.applied
  <2>1. CASE wanted
    BY <1>1, <1>2, <2>1 DEF Apply, PromotionsTypeOK
  <2>2. CASE ~wanted
    BY <1>1, <1>2, <2>2 DEF PromotionsTypeOK
  <2> QED BY <2>1, <2>2
<1>8. AppliedSoFar'
  <2>1. Chosen(apply.loaded)' = Chosen(apply.loaded)
    BY <1>1, <1>7 DEF Chosen, Eligible, GivesWay
  <2>2. Chosen(apply.loaded) \subseteq Nat
    BY <1>2 DEF PromotionsTypeOK, Chosen, Eligible, Promotion
  <2>3. {q \in Chosen(apply.loaded) : q < p + 1} =
          {q \in Chosen(apply.loaded) : q < p} \cup {q \in {p} : q \in Chosen(apply.loaded)}
    <3> HIDE DEF p
    <3> QED BY <1>4, <2>2
  <2>4. apply'.applied = {q \in Chosen(apply.loaded) : q < p + 1}
    BY <1>2, <1>3, <1>7, <2>3
  <2>5. apply'.applied = {q \in Chosen(apply.loaded)' : q < apply'.next}
    BY <1>7, <2>1, <2>4
  <2> QED BY <1>7, <2>5 DEF AppliedSoFar
<1>9. PromotionsTypeOK' /\ TotalsAddUp'
  <2>1. CASE ~wanted
    <3>1. apply' = [apply EXCEPT !.next = p + 1]
      BY <1>1, <2>1
    <3>2. PromotionsTypeOK'
      BY <1>1, <1>2, <1>4, <3>1 DEF PromotionsTypeOK
    <3>3. apply'.applied = apply.applied /\ apply'.subtotal = apply.subtotal
      BY <1>2, <3>1 DEF PromotionsTypeOK
    <3> QED BY <1>1, <3>2, <3>3, TotalsKept
  <2>2. CASE wanted /\ Category(o) = "SHIPPING"
    <3>1. apply' = [apply EXCEPT !.next = p + 1, !.applied = @ \cup {p},
                                 !.shipping = @ + Least(Raw(o), ShippingFee)]
      BY <1>1, <2>2 DEF Apply
    <3>2. apply.shipping + Least(Raw(o), ShippingFee) \in Nat
      BY <1>5, <1>6 DEF Least
    <3>3. PromotionsTypeOK'
      BY <1>1, <1>2, <1>4, <3>1, <3>2 DEF PromotionsTypeOK
    <3>4. apply'.applied = apply.applied \cup {p} /\ apply'.subtotal = apply.subtotal
      BY <1>2, <3>1 DEF PromotionsTypeOK
    <3>5. OrderDiscount' = OrderDiscount
      BY <1>1, <1>2, <1>4, <2>2, <3>4, OrderDiscountAdded
    <3> QED BY <1>6, <3>3, <3>4, <3>5 DEF TotalsAddUp
  <2>3. CASE wanted /\ Category(o) # "SHIPPING"
    <3>0. Category(o) = "ORDER"
      BY <2>3 DEF Category
    <3>1. apply' = [apply EXCEPT !.next = p + 1, !.applied = @ \cup {p},
                                 !.subtotal = Left(@, Discount(o))]
      BY <1>1, <2>3 DEF Apply
    <3>2. Left(apply.subtotal, Discount(o)) \in 0 .. CartSubtotal
      BY <1>5, <1>6 DEF Left
    <3>3. PromotionsTypeOK'
      BY <1>1, <1>2, <1>4, <3>1, <3>2 DEF PromotionsTypeOK
    <3>4. /\ apply'.applied = apply.applied \cup {p}
          /\ apply'.subtotal = Left(apply.subtotal, Discount(o))
      BY <1>2, <3>1 DEF PromotionsTypeOK
    <3>5. OrderDiscount \in Nat /\ OrderDiscount' = Discount(o) + OrderDiscount
      BY <1>1, <1>2, <1>4, <3>0, <3>4, OrderDiscountAdded
    <3>6. apply'.subtotal = Left(CartSubtotal, Discount(o) + OrderDiscount)
      BY <1>5, <1>6, <3>4, <3>5, LeftTwice
    <3> QED BY <3>3, <3>5, <3>6 DEF TotalsAddUp
  <2> QED BY <2>1, <2>2, <2>3
<1> QED BY <1>1, <1>8, <1>9, WritersKept DEF PromotionsInv

\* A request that begins has applied nothing.
LEMMA Begins ==
  ASSUME NEW phase, NEW wanted, NEW loaded, Begin(phase, wanted, loaded)
  PROVE  /\ apply' = [phase |-> phase, wanted |-> wanted, loaded |-> loaded, next |-> 1,
                      applied |-> {}, subtotal |-> CartSubtotal, shipping |-> 0]
         /\ UNCHANGED <<statusOf, offer, admin>>
BY DEF Begin, NotApplying

LEMMA PromotionsInductive == PromotionsInv /\ [PromotionsNext]_promotionsVars => PromotionsInv'
<1> SUFFICES ASSUME PromotionsInv, [PromotionsNext]_promotionsVars PROVE PromotionsInv'
  OBVIOUS
<1>1. ASSUME NEW a \in Admin, PublishPromotion(a) PROVE PromotionsInv'
  BY <1>1, ReadStatusStep DEF PublishPromotion
<1>2. ASSUME NEW a \in Admin, ArchivePromotion(a) PROVE PromotionsInv'
  BY <1>2, ReadStatusStep DEF ArchivePromotion
<1>3. ASSUME NEW a \in Admin, DeletePromotion(a) PROVE PromotionsInv'
  BY <1>3, ReadStatusStep DEF DeletePromotion
<1>4. ASSUME NEW a \in Admin, WriteStatus(a) PROVE PromotionsInv'
  BY <1>4, WriteStatusStep
<1>5. CASE ApplyVoucher
  <2>1. PICK p \in Promotion : Begin("evaluating", {}, IF Fits(offer[p]) THEN {p} ELSE {})
    BY <1>5 DEF ApplyVoucher
  <2> DEFINE loaded == IF Fits(offer[p]) THEN {p} ELSE {}
  <2>2. loaded \in SUBSET Promotion
    OBVIOUS
  <2> HIDE DEF loaded
  <2> QED BY <2>1, <2>2, Begins, Restarted
<1>6. CASE ApplyIds
  BY <1>6, Begins, Restarted DEF ApplyIds
<1>7. CASE LoadId
  BY <1>7, LoadIdStep
<1>8. CASE Loaded
  BY <1>8, LoadedStep
<1>9. CASE ApplyAll
  <2> DEFINE loaded == {p \in Promotion : statusOf[p] = "ACTIVE"}
  <2>1. Begin("evaluating", {}, loaded) /\ loaded \in SUBSET Promotion
    BY <1>9 DEF ApplyAll
  <2> HIDE DEF loaded
  <2> QED BY <2>1, Begins, Restarted
<1>10. CASE Evaluate
  BY <1>10, EvaluateStep
<1>11. CASE Answer
  BY <1>11, AnswerStep
<1>12. CASE AnswerTaken
  BY <1>12, Restarted DEF AnswerTaken, NotApplying
<1>13. CASE UNCHANGED promotionsVars
  <2>1. PromotionsTypeOK'
    BY <1>13 DEF promotionsVars, PromotionsInv, PromotionsTypeOK
  <2> QED BY <1>13, <2>1, ApplyKept, WritersKept DEF promotionsVars, PromotionsInv
<1> QED BY <1>1, <1>2, <1>3, <1>4, <1>5, <1>6, <1>7, <1>8, <1>9, <1>10, <1>11, <1>12,
           <1>13 DEF PromotionsNext

LEMMA PromotionsInvAlways == PromotionsSpec => []PromotionsInv
BY InitPromotionsInv, PromotionsInductive, PTL DEF PromotionsSpec

\* Every variable keeps its type: what is left of the subtotal is never negative.
THEOREM PromotionsTypeCorrect == PromotionsSpec => []PromotionsTypeOK
<1>1. PromotionsInv => PromotionsTypeOK
  BY DEF PromotionsInv
<1> QED BY <1>1, PromotionsInvAlways, PTL

\* When the loop is over, what is applied is what is chosen.
LEMMA AppliedIsChosen ==
  ASSUME PromotionsInv, apply.phase = "done"
  PROVE  apply.applied = Chosen(apply.loaded) /\ apply.loaded \subseteq Promotion
<1>1. /\ apply.applied = {p \in Chosen(apply.loaded) : p < apply.next}
      /\ apply.next \notin Promotion /\ apply.next \in 1 .. NumPromotions + 1
  BY DEF PromotionsInv, AppliedSoFar, PromotionsTypeOK
<1>2. Chosen(apply.loaded) \subseteq Promotion /\ apply.loaded \subseteq Promotion
  BY DEF PromotionsInv, PromotionsTypeOK, Chosen, Eligible
<1>3. \A p \in Promotion : p < apply.next
  BY <1>1, PromotionsAssumption DEF Promotion
<1> QED BY <1>1, <1>2, <1>3

\* However many promotions there are and in whatever order the loop comes to them, no
\* flash sale is applied together with a percentage.
THEOREM FlashSaleAlone == PromotionsSpec => []FlashSaleNotWithPercentage
<1>1. PromotionsInv => FlashSaleNotWithPercentage
  <2> SUFFICES ASSUME PromotionsInv, NEW p \in apply.applied, NEW q \in apply.applied,
                      offer[p].type = "FLASH_SALE", offer[q].type = "PERCENTAGE"
               PROVE  FALSE
    BY DEF FlashSaleNotWithPercentage
  <2>1. apply.applied \subseteq Chosen(apply.loaded)
    BY DEF PromotionsInv, AppliedSoFar, PromotionsTypeOK, ApplyPhase
  <2>2. p \in Eligible(apply.loaded) /\ q \in apply.loaded
    BY <2>1 DEF Chosen, Eligible
  <2>3. p # q
    OBVIOUS
  <2> QED BY <2>2, <2>3 DEF Eligible, GivesWay
<1> QED BY <1>1, PromotionsInvAlways, PTL

\* However many promotions there are, one that fits is refused only for one of its
\* category that goes before it, and only a stackable one comes on top of another.
THEOREM PriorityDecides == PromotionsSpec => []HigherPriorityFirst
<1>1. PromotionsInv => HigherPriorityFirst
  <2> SUFFICES ASSUME PromotionsInv, apply.phase = "done" PROVE HigherPriorityFirst
    BY DEF HigherPriorityFirst
  <2>1. apply.applied = Chosen(apply.loaded) /\ apply.loaded \subseteq Promotion
    BY AppliedIsChosen
  <2>2. ASSUME NEW p \in Eligible(apply.loaded) \ apply.applied
        PROVE  ~offer[p].stackable /\ \E q \in apply.applied : q < p /\ SameCategory(p, q)
    <3>1. ~offer[p].stackable
      BY <2>1, <2>2 DEF Chosen
    <3>2. \E q \in Chosen(apply.loaded) : q < p /\ SameCategory(p, q)
      BY <2>1, <2>2, FirstOfCategory DEF PromotionsInv
    <3> QED BY <2>1, <3>1, <3>2
  <2>3. ASSUME NEW p \in apply.applied, NEW q \in apply.applied, q < p, SameCategory(p, q)
        PROVE  offer[p].stackable
    <3>1. q \in Eligible(apply.loaded) /\ p \in Chosen(apply.loaded)
      BY <2>1 DEF Chosen
    <3> QED BY <2>3, <3>1 DEF Chosen, SameCategory
  <2> QED BY <2>2, <2>3 DEF HigherPriorityFirst
<1> QED BY <1>1, PromotionsInvAlways, PTL

\* However many discounts come on top of each other, clamping what is left after
\* each is as good as clamping at the end.
THEOREM SubtotalsAddUp == PromotionsSpec => []TotalsAddUp
<1>1. PromotionsInv => TotalsAddUp
  BY DEF PromotionsInv
<1> QED BY <1>1, PromotionsInvAlways, PTL

\* An archived promotion comes back by a stale publishPromotion only.
THEOREM ArchivedPromotionsStay == PromotionsSpec => ArchivedStays
<1> DEFINE Stays ==
      \A p \in Promotion : statusOf[p] = "ARCHIVED" /\ statusOf'[p] # "ARCHIVED" =>
        \E a \in Admin :
          admin[a].promotion = p /\ admin[a].stale /\ admin'[a] = NotWriting
<1>1. PromotionsInv /\ [PromotionsNext]_promotionsVars => [Stays]_promotionsVars
  <2> SUFFICES ASSUME PromotionsInv, PromotionsNext,
                      NEW p \in Promotion, statusOf[p] = "ARCHIVED", statusOf'[p] # "ARCHIVED"
               PROVE  \E a \in Admin :
                        admin[a].promotion = p /\ admin[a].stale /\ admin'[a] = NotWriting
    OBVIOUS
  <2>1. PICK a \in Admin : WriteStatus(a)
    <3>1. statusOf' # statusOf
      OBVIOUS
    <3> QED BY <3>1 DEF PromotionsNext, PublishPromotion, ArchivePromotion, DeletePromotion,
                        ReadStatus, ApplyVoucher, ApplyIds, LoadId, Loaded, ApplyAll, Begin,
                        Evaluate, Answer, AnswerTaken
  <2>2. statusOf' = [statusOf EXCEPT ![admin[a].promotion] = admin[a].to]
    BY <2>1 DEF WriteStatus
  <2>3. admin[a].promotion = p /\ admin[a].to # "ARCHIVED"
    BY <2>2 DEF PromotionsInv, PromotionsTypeOK
  <2>4. admin[a].stale
    BY <2>1, <2>3 DEF WriteStatus, PromotionsInv, WritesWhatItRead, Publishable, Terminal
  <2>5. admin'[a] = NotWriting
    BY <2>1 DEF WriteStatus
  <2> QED BY <2>3, <2>4, <2>5
<1> QED BY <1>1, PromotionsInvAlways, PTL DEF PromotionsSpec, ArchivedStays
=============================================================================
