--------------------------- MODULE Catalog_proofs ---------------------------
(***************************************************************************)
(* What a read of deleted_at, and a count of products, are worth once the  *)
(* row is written: for any number of categories, brands, products,         *)
(* variants and requests.                                                  *)
(*                                                                         *)
(* The properties speak of rows only, and a row is written from what a     *)
(* request has read, so none of them is inductive.  The strengthening says *)
(* of each request what still holds of the things it has read and no other *)
(* has written since (Sound).                                              *)
(***************************************************************************)
EXTENDS Catalog, TLAPS

Asked ==
  [op : Op, product : Product \cup {NoProduct}, group : Group \cup {NoGroup},
   variant : Variant \cup {NoVariant}, status : Status \cup {Same},
   into : SUBSET Group, leaves : SUBSET Group,
   stale : SUBSET (Product \cup Group)]

\* A request names what it is about.
Aimed(a) ==
  /\ a.op \in {"create", "update", "delete", "restore", "createVariant"}
       => a.product \in Product
  /\ a.op = "create" => a.status \in Status
  /\ a.op = "deleteGroup" => a.group \in Group
  /\ a.op \in {"createVariant", "deleteVariant"} => a.variant \in Variant

\* What it has read holds as long as nobody has written it.
ReadLive(a) ==
  a.op = "update" /\ a.product \notin a.stale => LiveProduct(a.product)
IntoLive(a) == \A g \in a.into \ a.stale : LiveGroup(g)
CountHolds(a) ==
  a.op = "deleteGroup" /\ a.group \notin a.stale => Empty(a.group)
KnownVariant(a) == a.op = "deleteVariant" => variant[a.variant].life # "none"

Sound(a) == Aimed(a) /\ ReadLive(a) /\ IntoLive(a) /\ CountHolds(a) /\ KnownVariant(a)

RequestsSound == \A q \in Request : Sound(request[q])

IInv ==
  /\ TypeOK
  /\ RequestsSound
  /\ DeletedStaysDown
  /\ GroupsKeepProducts
  /\ VariantsStocked

-----------------------------------------------------------------------------

\* A request that has just read changes nothing but itself.
LEMMA AskKeeps ==
  ASSUME IInv, NEW q \in Request, NEW a \in Asked, Sound(a), Ask(q, a)
  PROVE  IInv'
<1>1. TypeOK'
  BY DEF IInv, TypeOK, Ask, Asked, history
<1>2. RequestsSound'
  <2> SUFFICES ASSUME NEW r \in Request PROVE Sound(request[r])'
    BY DEF RequestsSound
  <2>1. request[r]' = IF r = q THEN a ELSE request[r]
    BY DEF Ask, IInv, TypeOK
  <2>2. Sound(request[r]')
    BY <2>1 DEF IInv, RequestsSound
  <2> QED
    BY <2>2 DEF Ask, Sound, Aimed, ReadLive, IntoLive, CountHolds, KnownVariant,
                LiveProduct, LiveGroup, Empty
<1>3. DeletedStaysDown' /\ GroupsKeepProducts' /\ VariantsStocked'
  BY DEF IInv, Ask, history, DeletedStaysDown, GroupsKeepProducts, VariantsStocked,
         LiveProduct, LiveGroup
<1> QED BY <1>1, <1>2, <1>3 DEF IInv

LEMMA IdleSound == Idle \in Asked /\ Sound(Idle)
  BY CatalogAssumption
     DEF Idle, Asked, Op, Same, Sound, Aimed, ReadLive, IntoLive, CountHolds, KnownVariant

\* Every read finds what the request then relies on.
LEMMA ReadKeeps ==
  ASSUME IInv, NEW q \in Request, Read(q)
  PROVE  IInv'
<1> USE CatalogAssumption
<1>1. CASE ReadToCreate(q)
  <2>1. PICK p \in Product, c \in Category, b \in AtMostOne(Brand),
             given \in {"draft", "published", "unpublished", "archived"} :
          /\ \A g \in {c} \cup b : LiveGroup(g)
          /\ Ask(q, [Idle EXCEPT !.op = "create", !.product = p,
                                 !.status = Mapped(given), !.into = {c} \cup b])
    BY <1>1 DEF ReadToCreate
  <2> DEFINE a == [Idle EXCEPT !.op = "create", !.product = p,
                               !.status = Mapped(given), !.into = {c} \cup b]
  <2>2. Mapped(given) \in Status /\ b \in SUBSET Brand
    BY DEF Mapped, Status, AtMostOne
  <2>3. a \in Asked
    BY <2>2 DEF Idle, Asked, Op, Group
  <2>4. Sound(a)
    BY <2>1, <2>2
       DEF Idle, Sound, Aimed, ReadLive, IntoLive, CountHolds, KnownVariant
  <2> QED BY <2>1, <2>3, <2>4, AskKeeps
<1>2. CASE ReadToUpdate(q)
  <2>1. PICK p \in Product, s \in Settable \cup {Same},
             c \in AtMostOne(Category), b \in AtMostOne(Brand), unbranded \in BOOLEAN :
          /\ LiveProduct(p)
          /\ \A g \in c \cup b : LiveGroup(g)
          /\ Ask(q, [Idle EXCEPT !.op = "update", !.product = p, !.status = s,
                                 !.into = c \cup b, !.leaves = Moved(c, b, unbranded)])
    BY <1>2 DEF ReadToUpdate
  <2> DEFINE a == [Idle EXCEPT !.op = "update", !.product = p, !.status = s,
                               !.into = c \cup b, !.leaves = Moved(c, b, unbranded)]
  <2>2. c \cup b \in SUBSET Group /\ Moved(c, b, unbranded) \in SUBSET Group
    BY DEF AtMostOne, Moved, Group
  <2>3. s \in Status \cup {Same}
    OBVIOUS
  <2>4. a \in Asked
    BY <2>2, <2>3 DEF Idle, Asked, Op
  <2>5. Sound(a)
    BY <2>1 DEF Idle, Sound, Aimed, ReadLive, IntoLive, CountHolds, KnownVariant
  <2> QED BY <2>1, <2>4, <2>5, AskKeeps
<1>3. CASE ReadToPublish(q)
  <2>1. PICK p \in Product, s \in {"PUBLISHED", "UNPUBLISHED"} :
          /\ LiveProduct(p)
          /\ Ask(q, [Idle EXCEPT !.op = "update", !.product = p, !.status = s])
    BY <1>3 DEF ReadToPublish, MayPublish
  <2> DEFINE a == [Idle EXCEPT !.op = "update", !.product = p, !.status = s]
  <2>2. a \in Asked
    BY DEF Idle, Asked, Op, Status
  <2>3. Sound(a)
    BY <2>1 DEF Idle, Sound, Aimed, ReadLive, IntoLive, CountHolds, KnownVariant
  <2> QED BY <2>1, <2>2, <2>3, AskKeeps
<1>4. CASE ReadToDelete(q)
  <2>1. PICK p \in Product : Ask(q, [Idle EXCEPT !.op = "delete", !.product = p])
    BY <1>4 DEF ReadToDelete
  <2> DEFINE a == [Idle EXCEPT !.op = "delete", !.product = p]
  <2>2. a \in Asked /\ Sound(a)
    BY DEF Idle, Asked, Op, Sound, Aimed, ReadLive, IntoLive, CountHolds, KnownVariant
  <2> QED BY <2>1, <2>2, AskKeeps
<1>5. CASE ReadToRestore(q)
  <2>1. PICK p \in Product : Ask(q, [Idle EXCEPT !.op = "restore", !.product = p])
    BY <1>5 DEF ReadToRestore
  <2> DEFINE a == [Idle EXCEPT !.op = "restore", !.product = p]
  <2>2. a \in Asked /\ Sound(a)
    BY DEF Idle, Asked, Op, Sound, Aimed, ReadLive, IntoLive, CountHolds, KnownVariant
  <2> QED BY <2>1, <2>2, AskKeeps
<1>6. CASE ReadToDeleteGroup(q)
  <2>1. PICK g \in Group : Empty(g) /\ Ask(q, [Idle EXCEPT !.op = "deleteGroup", !.group = g])
    BY <1>6 DEF ReadToDeleteGroup
  <2> DEFINE a == [Idle EXCEPT !.op = "deleteGroup", !.group = g]
  <2>2. a \in Asked
    BY DEF Idle, Asked, Op
  <2>3. Sound(a)
    BY <2>1 DEF Idle, Sound, Aimed, ReadLive, IntoLive, CountHolds, KnownVariant
  <2> QED BY <2>1, <2>2, <2>3, AskKeeps
<1>7. CASE ReadToCreateVariant(q)
  <2>1. PICK p \in Product, v \in Variant :
          Ask(q, [Idle EXCEPT !.op = "createVariant", !.product = p, !.variant = v])
    BY <1>7 DEF ReadToCreateVariant
  <2> DEFINE a == [Idle EXCEPT !.op = "createVariant", !.product = p, !.variant = v]
  <2>2. a \in Asked /\ Sound(a)
    BY DEF Idle, Asked, Op, Sound, Aimed, ReadLive, IntoLive, CountHolds, KnownVariant
  <2> QED BY <2>1, <2>2, AskKeeps
<1>8. CASE ReadToDeleteVariant(q)
  <2>1. PICK p \in Product, v \in Variant :
          /\ LiveVariant(p, v)
          /\ Ask(q, [Idle EXCEPT !.op = "deleteVariant", !.variant = v])
    BY <1>8 DEF ReadToDeleteVariant
  <2> DEFINE a == [Idle EXCEPT !.op = "deleteVariant", !.variant = v]
  <2>2. a \in Asked
    BY DEF Idle, Asked, Op
  <2>3. Sound(a)
    BY <2>1 DEF Idle, Sound, Aimed, ReadLive, IntoLive, CountHolds, KnownVariant, LiveVariant
  <2> QED BY <2>1, <2>2, <2>3, AskKeeps
<1> QED BY <1>1, <1>2, <1>3, <1>4, <1>5, <1>6, <1>7, <1>8 DEF Read

-----------------------------------------------------------------------------
(* A write tells the others that what they have read holds no longer. *)

\* The requests after End: what the others have asked is the same, but for `stale`.
LEMMA EndOfRequest ==
  ASSUME TypeOK, NEW q \in Request,
         NEW written \in SUBSET Product, NEW filled \in SUBSET Group,
         NEW deleted \in SUBSET Group,
         End(q, written, filled, deleted)
  PROVE  /\ request' \in [Request -> Asked]
         /\ request'[q] = Idle
         /\ \A r \in Request \ {q} :
              /\ request'[r].op = request[r].op
              /\ request'[r].product = request[r].product
              /\ request'[r].group = request[r].group
              /\ request'[r].variant = request[r].variant
              /\ request'[r].status = request[r].status
              /\ request'[r].into = request[r].into
              /\ request'[r].stale = request[r].stale
                   \cup ({request[r].product} \cap written)
                   \cup ({request[r].group} \cap filled)
                   \cup (request[r].into \cap deleted)
<1> DEFINE after(r) ==
      request[r].stale \cup ({request[r].product} \cap written)
                       \cup ({request[r].group} \cap filled)
                       \cup (request[r].into \cap deleted)
<1>1. \A r \in Request : request[r] \in Asked
  BY DEF TypeOK, Asked
<1>2. \A r \in Request : after(r) \in SUBSET (Product \cup Group)
  BY <1>1 DEF Asked
<1>3. \A r \in Request : [request[r] EXCEPT !.stale = after(r)] \in Asked
  BY <1>1, <1>2 DEF Asked
<1>4. request' = [r \in Request |-> IF r = q THEN Idle ELSE [request[r] EXCEPT !.stale = after(r)]]
  BY DEF End
<1>5. request' \in [Request -> Asked]
  BY <1>3, <1>4, IdleSound
<1>6. request'[q] = Idle
  BY <1>4
<1>7. ASSUME NEW r \in Request \ {q}
      PROVE  /\ request'[r].op = request[r].op
             /\ request'[r].product = request[r].product
             /\ request'[r].group = request[r].group
             /\ request'[r].variant = request[r].variant
             /\ request'[r].status = request[r].status
             /\ request'[r].into = request[r].into
             /\ request'[r].stale = after(r)
  <2>1. request'[r] = [request[r] EXCEPT !.stale = after(r)]
    BY <1>4
  <2> QED BY <1>1, <2>1 DEF Asked
<1> HIDE DEF after
<1> QED BY <1>5, <1>6, <1>7 DEF after

LEMMA EndTyped ==
  ASSUME IInv, NEW q \in Request,
         NEW written \in SUBSET Product, NEW filled \in SUBSET Group,
         NEW deleted \in SUBSET Group,
         End(q, written, filled, deleted)
  PROVE  request' \in [Request -> Asked]
  BY EndOfRequest DEF IInv

\* What a request may rely on after another's write: the write told it of every
\* product it wrote, every group it put a live product in or deleted, and no
\* variant disappears.
LEMMA OthersSound ==
  ASSUME IInv, NEW q \in Request,
         NEW written \in SUBSET Product, NEW filled \in SUBSET Group,
         NEW deleted \in SUBSET Group,
         End(q, written, filled, deleted),
         \A p \in Product \ written : LiveProduct(p) => LiveProduct(p)',
         \A g \in Group \ deleted : LiveGroup(g) => LiveGroup(g)',
         \A g \in Group \ filled : Empty(g) => Empty(g)',
         \A v \in Variant : variant[v].life # "none" => variant'[v].life # "none"
  PROVE  RequestsSound'
<1> SUFFICES ASSUME NEW r \in Request PROVE Sound(request[r])'
  BY DEF RequestsSound
<1> TypeOK
  BY DEF IInv
<1>1. CASE r = q
  <2>1. request'[r] = Idle
    BY <1>1, EndOfRequest DEF IInv
  <2> QED
    BY <2>1, CatalogAssumption
       DEF Idle, Sound, Aimed, ReadLive, IntoLive, CountHolds, KnownVariant
<1>2. CASE r # q
  <2>1. /\ request'[r].op = request[r].op
        /\ request'[r].product = request[r].product
        /\ request'[r].group = request[r].group
        /\ request'[r].variant = request[r].variant
        /\ request'[r].status = request[r].status
        /\ request'[r].into = request[r].into
        /\ request'[r].stale = request[r].stale
                   \cup ({request[r].product} \cap written)
                   \cup ({request[r].group} \cap filled)
                   \cup (request[r].into \cap deleted)
    <3>1. r \in Request \ {q}
      BY <1>2
    <3> QED BY <3>1, EndOfRequest, SMTT(60)
  <2>2. Sound(request[r])
    BY DEF IInv, RequestsSound
  <2>3. request[r].into \in SUBSET Group
    BY DEF IInv, TypeOK
  <2>4. Aimed(request[r])'
    BY <2>1, <2>2 DEF Sound, Aimed
  <2>5. ReadLive(request[r])'
    BY <2>1, <2>2 DEF Sound, Aimed, ReadLive
  <2>6. IntoLive(request[r])'
    BY <2>1, <2>2, <2>3 DEF Sound, IntoLive
  <2>7. CountHolds(request[r])'
    BY <2>1, <2>2 DEF Sound, Aimed, CountHolds
  <2>8. KnownVariant(request[r])'
    BY <2>1, <2>2 DEF Sound, Aimed, KnownVariant
  <2> QED BY <2>4, <2>5, <2>6, <2>7, <2>8 DEF Sound
<1> QED BY <1>1, <1>2

-----------------------------------------------------------------------------
(* One lemma for each write. *)

\* createProduct: nobody had a product of this slug, and the groups it has read
\* as live and nobody deleted are live.
LEMMA InsertProductKeeps ==
  ASSUME IInv, NEW q \in Request, InsertProduct(q)
  PROVE  IInv'
<1> DEFINE p == request[q].product
           into == request[q].into
<1>0. Sound(request[q]) /\ request[q] \in Asked
  BY DEF IInv, RequestsSound, TypeOK, Asked
<1>1. /\ p \in Product /\ into \in SUBSET Group /\ request[q].status \in Status
      /\ \A g \in into \ request[q].stale : LiveGroup(g)
  BY <1>0 DEF InsertProduct, Sound, Aimed, IntoLive, Asked
<1>2. /\ product[p].life = "none"
      /\ product' = [product EXCEPT ![p] =
                       [life |-> "live", status |-> request[q].status, groups |-> into]]
      /\ unchecked' = [unchecked EXCEPT ![p] = into \cap request[q].stale]
      /\ End(q, {p}, into, {})
      /\ UNCHANGED <<group, triggered, overtaken, miscounted>>
  BY DEF InsertProduct
<1>3. PICK vs \in SUBSET {v \in Variant : variant[v].life = "none"} :
        /\ variant' = [v \in Variant |->
             IF v \in vs THEN [life |-> "live", of |-> p] ELSE variant[v]]
        /\ stocked' = Ensured(vs)
  BY DEF InsertProduct
<1> HIDE DEF p, into
<1>4. /\ product'[p] = [life |-> "live", status |-> request[q].status, groups |-> into]
      /\ \A x \in Product \ {p} : product'[x] = product[x]
      /\ unchecked'[p] = into \cap request[q].stale
      /\ \A x \in Product \ {p} : unchecked'[x] = unchecked[x]
  BY <1>1, <1>2 DEF IInv, TypeOK
<1>5. TypeOK'
  <2>1. request' \in [Request -> Asked]
    <3>1. {p} \in SUBSET Product /\ {} \in SUBSET Group
      BY <1>1
    <3> QED BY <1>1, <1>2, <3>1, EndTyped
  <2>2. product' \in [Product -> [life : Life, status : Status, groups : SUBSET Group]]
    BY <1>1, <1>2 DEF IInv, TypeOK, Life
  <2>3. variant' \in [Variant -> [life : Life, of : Product \cup {NoProduct}]]
    BY <1>1, <1>3 DEF IInv, TypeOK, Life
  <2>4. stocked' \subseteq Variant
    BY <1>3 DEF IInv, TypeOK, Ensured
  <2>5. unchecked' \in [Product -> SUBSET Group]
    BY <1>1, <1>2 DEF IInv, TypeOK
  <2> QED BY <1>2, <2>1, <2>2, <2>3, <2>4, <2>5 DEF IInv, TypeOK, Asked
<1>6. RequestsSound'
  <2>1. \A x \in Product \ {p} : LiveProduct(x) => LiveProduct(x)'
    BY <1>4 DEF LiveProduct
  <2>2. \A g \in Group : LiveGroup(g) => LiveGroup(g)'
    BY <1>2 DEF LiveGroup
  <2>3. \A g \in Group \ into : Empty(g) => Empty(g)'
    BY <1>4 DEF Empty, LiveProduct
  <2>4. \A v \in Variant : variant[v].life # "none" => variant'[v].life # "none"
    BY <1>3
  <2> QED BY <1>1, <1>2, <2>1, <2>2, <2>3, <2>4, OthersSound
<1>7. DeletedStaysDown'
  BY <1>2, <1>4 DEF IInv, DeletedStaysDown
<1>8. GroupsKeepProducts'
  BY <1>1, <1>2, <1>4 DEF IInv, GroupsKeepProducts, LiveProduct, LiveGroup
<1>9. VariantsStocked'
  BY <1>2, <1>3 DEF IInv, VariantsStocked, Ensured
<1> QED BY <1>5, <1>6, <1>7, <1>8, <1>9 DEF IInv

\* updateProduct, publishProduct and unpublishProduct: a product that is deleted
\* by now was so after the request had read it.
LEMMA UpdateProductKeeps ==
  ASSUME IInv, NEW q \in Request, UpdateProduct(q)
  PROVE  IInv'
<1> DEFINE p == request[q].product
           into == request[q].into
           leaves == request[q].leaves
           status == request[q].status
           row == [product[p] EXCEPT
                    !.status = IF status = Same THEN @ ELSE status,
                    !.groups = (@ \ leaves) \cup into]
<1>0. Sound(request[q]) /\ request[q] \in Asked
  BY DEF IInv, RequestsSound, TypeOK, Asked
<1>1. /\ p \in Product /\ into \in SUBSET Group /\ status \in Status \cup {Same}
      /\ p \notin request[q].stale => LiveProduct(p)
      /\ \A g \in into \ request[q].stale : LiveGroup(g)
  BY <1>0 DEF UpdateProduct, Sound, Aimed, ReadLive, IntoLive, Asked
<1>2. /\ product' = [product EXCEPT ![p] = row]
      /\ overtaken' = IF p \in request[q].stale THEN overtaken \cup {p} ELSE overtaken \ {p}
      /\ unchecked' = [unchecked EXCEPT ![p] =
                         (@ \ leaves) \cup (into \cap request[q].stale)]
      /\ End(q, {p}, into, {})
      /\ UNCHANGED <<group, variant, stocked, triggered, miscounted>>
  BY DEF UpdateProduct, WriteProduct
<1> HIDE DEF p, into, leaves, status
<1>3. /\ row.life = product[p].life
      /\ row.groups = (product[p].groups \ leaves) \cup into
      /\ row \in [life : Life, status : Status, groups : SUBSET Group]
  BY <1>1 DEF IInv, TypeOK
<1> HIDE DEF row
<1>4. /\ product'[p] = row
      /\ \A x \in Product \ {p} : product'[x] = product[x]
      /\ unchecked'[p] = (unchecked[p] \ leaves) \cup (into \cap request[q].stale)
      /\ \A x \in Product \ {p} : unchecked'[x] = unchecked[x]
  BY <1>1, <1>2 DEF IInv, TypeOK
<1>5. TypeOK'
  <2>1. request' \in [Request -> Asked]
    <3>1. {p} \in SUBSET Product /\ {} \in SUBSET Group
      BY <1>1
    <3> QED BY <1>1, <1>2, <3>1, EndTyped
  <2>2. product' \in [Product -> [life : Life, status : Status, groups : SUBSET Group]]
    BY <1>1, <1>2, <1>3 DEF IInv, TypeOK
  <2>3. unchecked' \in [Product -> SUBSET Group]
    BY <1>1, <1>2 DEF IInv, TypeOK
  <2> QED BY <1>1, <1>2, <2>1, <2>2, <2>3 DEF IInv, TypeOK, Asked
<1>6. RequestsSound'
  <2>1. \A x \in Product \ {p} : LiveProduct(x) => LiveProduct(x)'
    BY <1>4 DEF LiveProduct
  <2>2. \A g \in Group : LiveGroup(g) => LiveGroup(g)'
    BY <1>2 DEF LiveGroup
  <2>3. \A g \in Group \ into : Empty(g) => Empty(g)'
    BY <1>1, <1>3, <1>4 DEF Empty, LiveProduct
  <2>4. \A v \in Variant : variant[v].life # "none" => variant'[v].life # "none"
    BY <1>2
  <2> QED BY <1>1, <1>2, <2>1, <2>2, <2>3, <2>4, OthersSound
<1>7. DeletedStaysDown'
  BY <1>1, <1>2, <1>3, <1>4 DEF IInv, DeletedStaysDown, LiveProduct
<1>8. GroupsKeepProducts'
  <2>1. \A g \in row.groups \ unchecked'[p] :
          \/ g \in into \ request[q].stale
          \/ g \in product[p].groups \ unchecked[p]
    BY <1>3, <1>4
  <2> QED
    BY <1>1, <1>2, <1>3, <1>4, <2>1 DEF IInv, GroupsKeepProducts, LiveProduct, LiveGroup
<1>9. VariantsStocked'
  BY <1>2 DEF IInv, VariantsStocked
<1> QED BY <1>5, <1>6, <1>7, <1>8, <1>9 DEF IInv

\* A write of a product's life: to deleted and ARCHIVED, or to live.
LEMMA LifeKeeps ==
  ASSUME IInv, NEW q \in Request, NEW p \in Product, request[q].product = p,
         NEW status \in Status, NEW filled \in SUBSET Group,
         NEW alive \in {"live", "deleted"},
         WriteProduct(q, [product[p] EXCEPT !.life = alive, !.status = status]),
         End(q, {p}, filled, {}),
         alive = "deleted" => status = "ARCHIVED" /\ UNCHANGED unchecked,
         alive = "live" =>
           /\ filled = product[p].groups
           /\ unchecked' = [unchecked EXCEPT ![p] = filled]
  PROVE  IInv'
<1> DEFINE row == [product[p] EXCEPT !.life = alive, !.status = status]
<1>1. {p} \in SUBSET Product /\ {} \in SUBSET Group
  OBVIOUS
<1>2. /\ product' = [product EXCEPT ![p] = row]
      /\ overtaken' = IF p \in request[q].stale THEN overtaken \cup {p} ELSE overtaken \ {p}
      /\ End(q, {p}, filled, {})
      /\ UNCHANGED <<group, variant, stocked, triggered, miscounted>>
  BY DEF WriteProduct
<1>3. /\ alive = "deleted" => status = "ARCHIVED" /\ unchecked' = unchecked
      /\ alive = "live" =>
           /\ filled = product[p].groups
           /\ unchecked' = [unchecked EXCEPT ![p] = filled]
  OBVIOUS
<1>4. /\ row.life = alive /\ row.status = status
      /\ row.groups = product[p].groups
      /\ row \in [life : Life, status : Status, groups : SUBSET Group]
  <2>1. product[p] \in [life : Life, status : Status, groups : SUBSET Group]
    BY DEF IInv, TypeOK
  <2>2. alive \in Life
    BY DEF Life
  <2> QED BY <2>1, <2>2
<1> HIDE DEF row
<1>5. product'[p] = row /\ \A x \in Product \ {p} : product'[x] = product[x]
  BY <1>1, <1>2 DEF IInv, TypeOK
<1>6. unchecked' \in [Product -> SUBSET Group]
  BY <1>1, <1>3 DEF IInv, TypeOK
<1>7. TypeOK'
  <2>1. request' \in [Request -> Asked]
    BY <1>1, <1>2, EndTyped
  <2>2. product' \in [Product -> [life : Life, status : Status, groups : SUBSET Group]]
    BY <1>1, <1>2, <1>4 DEF IInv, TypeOK
  <2> QED BY <1>1, <1>2, <1>6, <2>1, <2>2 DEF IInv, TypeOK, Asked
<1>8. RequestsSound'
  <2>1. \A x \in Product \ {p} : LiveProduct(x) => LiveProduct(x)'
    BY <1>5 DEF LiveProduct
  <2>2. \A g \in Group : LiveGroup(g) => LiveGroup(g)'
    BY <1>2 DEF LiveGroup
  <2>3. \A g \in Group \ filled : Empty(g) => Empty(g)'
    BY <1>3, <1>4, <1>5 DEF Empty, LiveProduct
  <2>4. \A v \in Variant : variant[v].life # "none" => variant'[v].life # "none"
    BY <1>2
  <2> QED BY <1>1, <1>2, <2>1, <2>2, <2>3, <2>4, OthersSound
<1>9. DeletedStaysDown'
  BY <1>2, <1>3, <1>4, <1>5 DEF IInv, DeletedStaysDown
<1>10. GroupsKeepProducts'
  <2>1. ASSUME NEW x \in Product \ {p}, LiveProduct(x)'
        PROVE  \A g \in product'[x].groups \ (unchecked'[x] \cup miscounted') : LiveGroup(g)'
    <3>1. unchecked'[x] = unchecked[x]
      BY <1>1, <1>3 DEF IInv, TypeOK
    <3> QED BY <1>2, <1>5, <2>1, <3>1 DEF IInv, GroupsKeepProducts, LiveProduct, LiveGroup
  <2>2. ASSUME LiveProduct(p)'
        PROVE  \A g \in product'[p].groups \ (unchecked'[p] \cup miscounted') : LiveGroup(g)'
    <3>1. alive = "live"
      BY <1>4, <1>5, <2>2 DEF LiveProduct
    <3>2. unchecked'[p] = product[p].groups
      BY <1>1, <1>3, <3>1 DEF IInv, TypeOK
    <3> QED BY <1>4, <1>5, <3>2
  <2> QED BY <2>1, <2>2 DEF GroupsKeepProducts
<1>11. VariantsStocked'
  BY <1>2 DEF IInv, VariantsStocked
<1> QED BY <1>7, <1>8, <1>9, <1>10, <1>11 DEF IInv

\* deleteCategory and deleteBrand: no live product is in the group, unless one
\* came in after it was counted.
LEMMA DeleteGroupKeeps ==
  ASSUME IInv, NEW q \in Request, DeleteGroup(q)
  PROVE  IInv'
<1>0. Sound(request[q]) /\ request[q] \in Asked
  BY DEF IInv, RequestsSound, TypeOK, Asked
<1>1. PICK g \in Group : g = request[q].group
  BY <1>0 DEF DeleteGroup, Sound, Aimed
<1>2. g \notin request[q].stale => Empty(g)
  BY <1>0, <1>1 DEF DeleteGroup, Sound, CountHolds
<1>3. /\ group' = [group EXCEPT ![g] = "deleted"]
      /\ miscounted' = IF g \in request[q].stale THEN miscounted \cup {g}
                       ELSE miscounted \ {g}
      /\ End(q, {}, {}, {g})
      /\ UNCHANGED <<product, variant, stocked, triggered, overtaken, unchecked>>
  BY <1>1 DEF DeleteGroup
<1>4. {g} \in SUBSET Group /\ {} \in SUBSET Product /\ {} \in SUBSET Group
  OBVIOUS
<1>5. TypeOK'
  <2>1. request' \in [Request -> Asked]
    BY <1>3, <1>4, EndTyped
  <2> QED BY <1>3, <2>1 DEF IInv, TypeOK, Asked, Life
<1>6. RequestsSound'
  <2>1. \A x \in Product : LiveProduct(x) => LiveProduct(x)'
    BY <1>3 DEF LiveProduct
  <2>2. \A h \in Group \ {g} : LiveGroup(h) => LiveGroup(h)'
    BY <1>3 DEF LiveGroup, IInv, TypeOK
  <2>3. \A h \in Group : Empty(h) => Empty(h)'
    BY <1>3 DEF Empty, LiveProduct
  <2>4. \A v \in Variant : variant[v].life # "none" => variant'[v].life # "none"
    BY <1>3
  <2> QED BY <1>3, <1>4, <2>1, <2>2, <2>3, <2>4, OthersSound
<1>7. DeletedStaysDown' /\ VariantsStocked'
  BY <1>3 DEF IInv, DeletedStaysDown, VariantsStocked
<1>8. GroupsKeepProducts'
  <2> SUFFICES ASSUME NEW x \in Product, LiveProduct(x)',
                      NEW h \in product'[x].groups, h \notin unchecked'[x],
                      h \notin miscounted'
               PROVE  LiveGroup(h)'
    BY DEF GroupsKeepProducts
  <2>1. h \in Group
    BY <1>3 DEF IInv, TypeOK
  <2>2. LiveProduct(x) /\ h \in product[x].groups /\ h \notin unchecked[x]
    BY <1>3 DEF LiveProduct
  <2>3. h # g
    BY <1>2, <1>3, <2>2 DEF Empty
  <2>4. h \notin miscounted
    BY <1>3, <2>3
  <2>5. LiveGroup(h)
    BY <2>2, <2>4 DEF IInv, GroupsKeepProducts
  <2> QED BY <1>3, <2>1, <2>3, <2>5 DEF LiveGroup, IInv, TypeOK
<1> QED BY <1>5, <1>6, <1>7, <1>8 DEF IInv

\* createVariant, deleteVariant, and a request that fails: of products and groups
\* nothing changes, and a variant that comes to be has its inventory row.
LEMMA VariantKeeps ==
  ASSUME IInv, NEW q \in Request, End(q, {}, {}, {}),
         UNCHANGED <<group, product, triggered, history>>,
         variant' \in [Variant -> [life : Life, of : Product \cup {NoProduct}]],
         stocked' \in SUBSET Variant, stocked \subseteq stocked',
         \A v \in Variant : variant[v].life # "none" => variant'[v].life # "none",
         \A v \in Variant : variant'[v].life # "none" =>
           variant[v].life # "none" \/ v \in stocked'
  PROVE  IInv'
<1>1. {} \in SUBSET Group /\ {} \in SUBSET Product
  OBVIOUS
<1>2. request' \in [Request -> Asked]
  BY <1>1, EndTyped
<1>3. TypeOK'
  BY <1>2 DEF IInv, TypeOK, Asked, history
<1>4. RequestsSound'
  <2>1. \A x \in Product : LiveProduct(x) => LiveProduct(x)'
    BY DEF LiveProduct
  <2>2. \A h \in Group : LiveGroup(h) => LiveGroup(h)'
    BY DEF LiveGroup
  <2>3. \A h \in Group : Empty(h) => Empty(h)'
    BY DEF Empty, LiveProduct
  <2> QED BY <1>1, <2>1, <2>2, <2>3, OthersSound
<1>5. DeletedStaysDown' /\ GroupsKeepProducts'
  BY DEF IInv, history, DeletedStaysDown, GroupsKeepProducts, LiveProduct, LiveGroup
<1>6. VariantsStocked'
  BY DEF IInv, VariantsStocked
<1> QED BY <1>3, <1>4, <1>5, <1>6 DEF IInv

LEMMA WriteKeeps ==
  ASSUME IInv, NEW q \in Request, Write(q)
  PROVE  IInv'
<1>0. Sound(request[q]) /\ request[q] \in Asked
  BY DEF IInv, RequestsSound, TypeOK, Asked
<1>1. CASE DeleteProduct(q)
  <2>1. PICK p \in Product : p = request[q].product
    BY <1>0, <1>1 DEF DeleteProduct, Sound, Aimed
  <2>2. /\ WriteProduct(q, [product[p] EXCEPT !.life = "deleted", !.status = "ARCHIVED"])
        /\ End(q, {p}, {}, {})
        /\ UNCHANGED unchecked
    BY <1>1, <2>1 DEF DeleteProduct
  <2>3. "ARCHIVED" \in Status /\ {} \in SUBSET Group /\ "deleted" # "live"
        /\ "deleted" \in {"live", "deleted"}
    BY DEF Status
  <2> QED BY <2>1, <2>2, <2>3, LifeKeeps
<1>2. CASE RestoreProduct(q)
  <2>1. PICK p \in Product : p = request[q].product
    BY <1>0, <1>2 DEF RestoreProduct, Sound, Aimed
  <2>2. /\ WriteProduct(q, [product[p] EXCEPT !.life = "live", !.status = "DRAFT"])
        /\ unchecked' = [unchecked EXCEPT ![p] = product[p].groups]
        /\ End(q, {p}, product[p].groups, {})
    BY <1>2, <2>1 DEF RestoreProduct
  <2>3. "DRAFT" \in Status /\ product[p].groups \in SUBSET Group /\ "live" # "deleted"
        /\ "live" \in {"live", "deleted"}
    BY DEF Status, IInv, TypeOK
  <2> QED BY <2>1, <2>2, <2>3, LifeKeeps
<1>3. CASE CreateVariant(q)
  <2>1. request[q].variant \in Variant /\ request[q].product \in Product
    BY <1>0, <1>3 DEF CreateVariant, Sound, Aimed
  <2>2. variant' \in [Variant -> [life : Life, of : Product \cup {NoProduct}]]
    BY <1>3, <2>1 DEF CreateVariant, IInv, TypeOK, Life
  <2>3. stocked' \in SUBSET Variant /\ stocked \subseteq stocked'
    BY <1>3, <2>1 DEF CreateVariant, IInv, TypeOK
  <2>4. \A v \in Variant : v # request[q].variant => variant'[v] = variant[v]
    BY <1>3, <2>1 DEF CreateVariant, IInv, TypeOK
  <2>5. /\ variant[request[q].variant].life = "none"
        /\ request[q].variant \in stocked'
    BY <1>3, <2>1 DEF CreateVariant
  <2> QED BY <1>3, <2>2, <2>3, <2>4, <2>5, VariantKeeps DEF CreateVariant
<1>4. CASE DeleteVariant(q)
  <2>1. PICK v \in Variant : v = request[q].variant /\ variant[v].life # "none"
    BY <1>0, <1>4 DEF DeleteVariant, Sound, Aimed, KnownVariant
  <2>2. variant' = [variant EXCEPT ![v] = [variant[v] EXCEPT !.life = "deleted"]]
    BY <1>4, <2>1 DEF DeleteVariant
  <2>3. variant[v] \in [life : Life, of : Product \cup {NoProduct}]
    BY DEF IInv, TypeOK
  <2>4. /\ [variant[v] EXCEPT !.life = "deleted"] \in [life : Life, of : Product \cup {NoProduct}]
        /\ [variant[v] EXCEPT !.life = "deleted"].life = "deleted"
    BY <2>3 DEF Life
  <2>5. /\ variant' \in [Variant -> [life : Life, of : Product \cup {NoProduct}]]
        /\ \A u \in Variant : u # v => variant'[u] = variant[u]
        /\ variant'[v].life = "deleted"
    BY <2>2, <2>4 DEF IInv, TypeOK
  <2>6. \A u \in Variant : variant[u].life # "none" <=> variant'[u].life # "none"
    BY <2>1, <2>5
  <2>7. stocked' \in SUBSET Variant /\ stocked \subseteq stocked'
    BY <1>4 DEF DeleteVariant, IInv, TypeOK
  <2> QED BY <1>4, <2>5, <2>6, <2>7, VariantKeeps DEF DeleteVariant
<1>5. CASE Fail(q)
  <2>1. UNCHANGED variant /\ UNCHANGED stocked
    BY <1>5 DEF Fail
  <2>2. /\ variant' \in [Variant -> [life : Life, of : Product \cup {NoProduct}]]
        /\ stocked' \in SUBSET Variant /\ stocked \subseteq stocked'
    BY <2>1 DEF IInv, TypeOK
  <2> QED BY <1>5, <2>1, <2>2, VariantKeeps DEF Fail
<1> QED
  BY <1>1, <1>2, <1>3, <1>4, <1>5, InsertProductKeeps, UpdateProductKeeps, DeleteGroupKeeps
     DEF Write

\* A category or brand that comes to be, or comes back: more groups are live.
LEMMA GroupComes ==
  ASSUME IInv, NEW g \in Group, group' = [group EXCEPT ![g] = "live"],
         UNCHANGED <<product, variant, stocked, triggered, request, history>>
  PROVE  IInv'
<1>1. TypeOK'
  BY DEF IInv, TypeOK, Life, history
<1>2. \A h \in Group : LiveGroup(h) => LiveGroup(h)'
  BY DEF IInv, TypeOK, LiveGroup
<1>3. RequestsSound'
  <2> SUFFICES ASSUME NEW r \in Request PROVE Sound(request[r])'
    BY DEF RequestsSound
  <2>1. Sound(request[r]) /\ request[r].into \in SUBSET Group
    BY DEF IInv, RequestsSound, TypeOK
  <2> QED
    BY <1>2, <2>1 DEF Sound, Aimed, ReadLive, IntoLive, CountHolds, KnownVariant,
                      LiveProduct, Empty
<1>4. DeletedStaysDown' /\ VariantsStocked'
  BY DEF IInv, history, DeletedStaysDown, VariantsStocked
<1>5. GroupsKeepProducts'
  BY <1>2 DEF IInv, TypeOK, history, GroupsKeepProducts, LiveProduct
<1> QED BY <1>1, <1>3, <1>4, <1>5 DEF IInv

LEMMA InstallKeeps ==
  ASSUME IInv, InstallTriggers
  PROVE  IInv'
<1>1. TypeOK'
  BY DEF IInv, TypeOK, InstallTriggers, Backfilled, history
<1>2. RequestsSound'
  BY DEF IInv, RequestsSound, InstallTriggers, Sound, Aimed, ReadLive, IntoLive, CountHolds,
         KnownVariant, LiveProduct, LiveGroup, Empty
<1>3. DeletedStaysDown' /\ GroupsKeepProducts'
  BY DEF IInv, InstallTriggers, history, DeletedStaysDown, GroupsKeepProducts, LiveProduct,
         LiveGroup
<1>4. VariantsStocked'
  BY DEF VariantsStocked, InstallTriggers, Backfilled
<1> QED BY <1>1, <1>2, <1>3, <1>4 DEF IInv

LEMMA StutterKeeps == IInv /\ UNCHANGED vars => IInv'
  BY DEF vars, history, IInv, TypeOK, RequestsSound, Sound, Aimed, ReadLive, IntoLive,
         CountHolds, KnownVariant, LiveProduct, LiveGroup, Empty, DeletedStaysDown,
         GroupsKeepProducts, VariantsStocked

-----------------------------------------------------------------------------

LEMMA Initially == Init => IInv
<1> SUFFICES ASSUME Init PROVE IInv
  OBVIOUS
<1>1. TypeOK
  <2>1. \A q \in Request : request[q] = Idle
    BY DEF Init
  <2>2. request \in [Request -> Asked]
    BY IdleSound DEF Init
  <2> QED BY <2>2 DEF Init, TypeOK, Asked, Life, Status
<1>2. RequestsSound
  BY IdleSound DEF Init, RequestsSound
<1>3. DeletedStaysDown /\ GroupsKeepProducts /\ VariantsStocked
  BY DEF Init, DeletedStaysDown, GroupsKeepProducts, VariantsStocked, LiveProduct
<1> QED BY <1>1, <1>2, <1>3 DEF IInv

LEMMA StepKeeps == IInv /\ [Next]_vars => IInv'
<1> SUFFICES ASSUME IInv, [Next]_vars PROVE IInv'
  OBVIOUS
<1>1. ASSUME NEW q \in Request, Read(q) PROVE IInv'
  BY <1>1, ReadKeeps
<1>2. ASSUME NEW q \in Request, Write(q) PROVE IInv'
  BY <1>2, WriteKeeps
<1>3. ASSUME NEW g \in Group, CreateGroup(g) PROVE IInv'
  BY <1>3, GroupComes DEF CreateGroup
<1>4. ASSUME NEW c \in Category, RestoreCategory(c) PROVE IInv'
  BY <1>4, GroupComes DEF RestoreCategory, Group
<1>5. CASE InstallTriggers
  BY <1>5, InstallKeeps
<1>6. CASE UNCHANGED vars
  BY <1>6, StutterKeeps
<1> QED BY <1>1, <1>2, <1>3, <1>4, <1>5, <1>6 DEF Next

LEMMA Invariance == Spec => []IInv
<1> QED BY Initially, StepKeeps, PTL DEF Spec

\* Every variable of the catalog keeps its type.
THEOREM TypeCorrect == Spec => []TypeOK
<1>1. IInv => TypeOK BY DEF IInv
<1> QED BY <1>1, Invariance, PTL

\* For any number of products and requests, a deleted product is ARCHIVED unless
\* a request that had read it earlier wrote to it.
THEOREM DeletedDown == Spec => []DeletedStaysDown
<1>1. IInv => DeletedStaysDown BY DEF IInv
<1> QED BY <1>1, Invariance, PTL

\* For any categories and brands, no product is live in a deleted one, but for a
\* restored product and for the race of an arrival with the deletion.
THEOREM GroupsKeep == Spec => []GroupsKeepProducts
<1>1. IInv => GroupsKeepProducts BY DEF IInv
<1> QED BY <1>1, Invariance, PTL

\* Once the triggers are installed, every variant has its inventory row, whenever
\* and by whatever path it came.
THEOREM AllStocked == Spec => []VariantsStocked
<1>1. IInv => VariantsStocked BY DEF IInv
<1> QED BY <1>1, Invariance, PTL
=============================================================================
