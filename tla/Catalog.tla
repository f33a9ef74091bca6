------------------------------ MODULE Catalog ------------------------------
(***************************************************************************)
(* Products, the categories and brands they are in, and their variants:    *)
(* CatalogService with the triggers of prisma/sql/triggers.sql.            *)
(*                                                                         *)
(* Only the insertions of a product and of a variant are transactions, and *)
(* their checks come before.  Everything else reads, awaits, and updates   *)
(* by id whatever the row has become: each operation is a step that reads  *)
(* (Read...) and one that writes.                                          *)
(*                                                                         *)
(* A product is known by its slug and a variant by its sku, which are      *)
(* unique among deleted rows too.  Prices, texts, images and attributes    *)
(* are left out, and so are the paths of categories: parent_id is never    *)
(* written, so there are no children for deleteCategory to count.          *)
(* Definitions no action uses are mutants: the definition after each, with *)
(* a plausible bug.                                                        *)
(***************************************************************************)
EXTENDS Naturals

CONSTANTS
  Category, Brand, Product, Variant,
  Request,     \* requests of administrators handled at the same time
  Settable,    \* bound: statuses updateProduct is asked to set
  NoProduct, NoVariant, NoGroup

Group == Category \cup Brand
Status == {"DRAFT", "PUBLISHED", "UNPUBLISHED", "ARCHIVED"}

ASSUME CatalogAssumption ==
  /\ Category \cap Brand = {}
  /\ NoGroup \notin Group
  /\ NoProduct \notin Product
  /\ NoVariant \notin Variant
  /\ Settable \subseteq Status

VARIABLES
  group,       \* is there a row of each category and brand, and is it deleted?
  product,     \* the row of each product
  variant,     \* the row of each variant
  stocked,     \* variants with a row in inventory
  triggered,   \* are the triggers installed?
  request,     \* what each request has read and is about to write
  overtaken,   \* history: products whose last write came from a request that
               \* had read them before another write
  unchecked,   \* history: the groups each product came into without a check of
               \* them that still held
  miscounted   \* history: groups deleted on a count that no longer held

history == <<overtaken, unchecked, miscounted>>
vars == <<group, product, variant, stocked, triggered, request, history>>

Life == {"none", "live", "deleted"}
Same == "same"     \* an update that leaves the status as it is

Op == {"idle", "create", "update", "delete", "restore", "deleteGroup",
       "createVariant", "deleteVariant"}

\* `into` are the groups it puts a product in, `leaves` those it takes it out of,
\* `stale` what it has read that was written since.
Idle == [op |-> "idle", product |-> NoProduct, group |-> NoGroup,
         variant |-> NoVariant, status |-> Same, into |-> {}, leaves |-> {}, stale |-> {}]

TypeOK ==
  /\ group \in [Group -> Life]
  /\ product \in [Product -> [life : Life, status : Status, groups : SUBSET Group]]
  /\ variant \in [Variant -> [life : Life, of : Product \cup {NoProduct}]]
  /\ stocked \subseteq Variant
  /\ triggered \in BOOLEAN
  /\ request \in
       [Request -> [op : Op, product : Product \cup {NoProduct},
                    group : Group \cup {NoGroup},
                    variant : Variant \cup {NoVariant},
                    status : Status \cup {Same}, into : SUBSET Group,
                    leaves : SUBSET Group, stale : SUBSET (Product \cup Group)]]
  /\ overtaken \subseteq Product
  /\ unchecked \in [Product -> SUBSET Group]
  /\ miscounted \subseteq Group

Init ==
  /\ group = [g \in Group |-> "none"]
  /\ product = [p \in Product |-> [life |-> "none", status |-> "DRAFT", groups |-> {}]]
  /\ variant = [v \in Variant |-> [life |-> "none", of |-> NoProduct]]
  /\ stocked = {}
  /\ triggered = FALSE
  /\ request = [q \in Request |-> Idle]
  /\ overtaken = {}
  /\ unchecked = [p \in Product |-> {}]
  /\ miscounted = {}

-----------------------------------------------------------------------------
(* Reading: `deletedAt: null` is in every query but that of restoreProduct. *)

LiveGroup(g) == group[g] = "live"
ExistingProduct(p) == product[p].life # "none"
LiveProduct(p) == product[p].life = "live"
LiveVariant(p, v) == variant[v] = [life |-> "live", of |-> p]

\* The request has read what it needs, and goes on with what it will write.
Ask(q, asked) ==
  /\ request[q] = Idle
  /\ request' = [request EXCEPT ![q] = asked]
  /\ UNCHANGED <<group, product, variant, stocked, triggered, history>>

\* createProduct takes the status in either case.
Mapped(given) ==
  CASE given \in {"PUBLISHED", "published"} -> "PUBLISHED"
    [] given \in {"UNPUBLISHED", "unpublished"} -> "UNPUBLISHED"
    [] given \in {"ARCHIVED", "archived"} -> "ARCHIVED"
    [] OTHER -> "DRAFT"

AtMostOne(S) == {{}} \cup {{x} : x \in S}

ReadToCreate(q) ==
  \E p \in Product, c \in Category, b \in AtMostOne(Brand),
     given \in {"draft", "published", "unpublished", "archived"} :
    /\ \A g \in {c} \cup b : LiveGroup(g)
    /\ product[p].life = "none"
    /\ Ask(q, [Idle EXCEPT !.op = "create", !.product = p,
                           !.status = Mapped(given), !.into = {c} \cup b])

\* updateProduct sets a status, moves the product to another category, and to
\* another brand or to none, each of them or not.
Moved(c, b, unbranded) ==
  (IF c = {} THEN {} ELSE Category) \cup (IF b = {} /\ ~unbranded THEN {} ELSE Brand)

ReadToUpdate(q) ==
  \E p \in Product, s \in Settable \cup {Same},
     c \in AtMostOne(Category), b \in AtMostOne(Brand), unbranded \in BOOLEAN :
    /\ LiveProduct(p)
    /\ \A g \in c \cup b : LiveGroup(g)
    /\ Ask(q, [Idle EXCEPT !.op = "update", !.product = p, !.status = s,
                           !.into = c \cup b, !.leaves = Moved(c, b, unbranded)])

\* publishProduct, unpublishProduct, and each id of their bulk versions.
MayPublishDeleted(p) == ExistingProduct(p)
MayPublish(p) == LiveProduct(p)
ReadToPublish(q) ==
  \E p \in Product, s \in {"PUBLISHED", "UNPUBLISHED"} :
    /\ MayPublish(p)
    /\ Ask(q, [Idle EXCEPT !.op = "update", !.product = p, !.status = s])

ReadToDelete(q) ==
  \E p \in Product :
    /\ LiveProduct(p)
    /\ Ask(q, [Idle EXCEPT !.op = "delete", !.product = p])

ReadToRestore(q) ==
  \E p \in Product :
    /\ ExistingProduct(p)
    /\ Ask(q, [Idle EXCEPT !.op = "restore", !.product = p])

\* deleteCategory and deleteBrand count the products that are not deleted.
EmptyOfPublished(g) ==
  ~ \E p \in Product : g \in product[p].groups /\ product[p].status = "PUBLISHED"
Empty(g) == ~ \E p \in Product : g \in product[p].groups /\ LiveProduct(p)

ReadToDeleteGroup(q) ==
  \E g \in Group :
    /\ LiveGroup(g)
    /\ Empty(g)
    /\ Ask(q, [Idle EXCEPT !.op = "deleteGroup", !.group = g])

ReadToCreateVariant(q) ==
  \E p \in Product, v \in Variant :
    /\ LiveProduct(p)
    /\ variant[v].life = "none"
    /\ Ask(q, [Idle EXCEPT !.op = "createVariant", !.product = p, !.variant = v])

ReadToDeleteVariant(q) ==
  \E p \in Product, v \in Variant :
    /\ LiveProduct(p)
    /\ LiveVariant(p, v)
    /\ Ask(q, [Idle EXCEPT !.op = "deleteVariant", !.variant = v])

-----------------------------------------------------------------------------
(* Writing. *)

\* Request q ends.  What the others have read of the products it wrote, of the
\* groups it put one in, or of the group it deleted, holds no longer.
End(q, written, filled, deleted) ==
  request' = [r \in Request |->
    IF r = q THEN Idle
    ELSE [request[r] EXCEPT
           !.stale = @ \cup ({request[r].product} \cap written)
                       \cup ({request[r].group} \cap filled)
                       \cup (request[r].into \cap deleted)]]

\* An update of a product: is it one that the request has not read so?
WriteProduct(q, row) ==
  LET p == request[q].product IN
  /\ product' = [product EXCEPT ![p] = row]
  /\ overtaken' = IF p \in request[q].stale THEN overtaken \cup {p} ELSE overtaken \ {p}
  /\ UNCHANGED <<group, variant, stocked, triggered, miscounted>>

\* The trigger of an inserted variant, which leaves a row alone that is there.
NotEnsured(vs) == stocked
Ensured(vs) == IF triggered THEN stocked \cup vs ELSE stocked

\* The slug and every sku must still be unused.  No inventory row is inserted.
InsertProduct(q) ==
  LET p == request[q].product
      into == request[q].into
  IN  /\ request[q].op = "create"
      /\ product[p].life = "none"
      /\ \E vs \in SUBSET {v \in Variant : variant[v].life = "none"} :
           /\ variant' = [v \in Variant |->
                IF v \in vs THEN [life |-> "live", of |-> p] ELSE variant[v]]
           /\ stocked' = Ensured(vs)
      /\ product' = [product EXCEPT ![p] =
                       [life |-> "live", status |-> request[q].status, groups |-> into]]
      /\ unchecked' = [unchecked EXCEPT ![p] = into \cap request[q].stale]
      /\ End(q, {p}, into, {})
      /\ UNCHANGED <<group, triggered, overtaken, miscounted>>

UpdateProduct(q) ==
  LET p == request[q].product
      into == request[q].into
      leaves == request[q].leaves
      status == request[q].status
  IN  /\ request[q].op = "update"
      /\ WriteProduct(q, [product[p] EXCEPT
                           !.status = IF status = Same THEN @ ELSE status,
                           !.groups = (@ \ leaves) \cup into])
      /\ unchecked' = [unchecked EXCEPT ![p] =
                         (@ \ leaves) \cup (into \cap request[q].stale)]
      /\ End(q, {p}, into, {})

DeleteProduct(q) ==
  LET p == request[q].product IN
  /\ request[q].op = "delete"
  /\ WriteProduct(q, [product[p] EXCEPT !.life = "deleted", !.status = "ARCHIVED"])
  /\ End(q, {p}, {}, {})
  /\ UNCHANGED unchecked

\* restoreProduct does not look at the category or the brand.
RestoreProduct(q) ==
  LET p == request[q].product IN
  /\ request[q].op = "restore"
  /\ WriteProduct(q, [product[p] EXCEPT !.life = "live", !.status = "DRAFT"])
  /\ unchecked' = [unchecked EXCEPT ![p] = product[p].groups]
  /\ End(q, {p}, product[p].groups, {})

DeleteGroup(q) ==
  LET g == request[q].group IN
  /\ request[q].op = "deleteGroup"
  /\ group' = [group EXCEPT ![g] = "deleted"]
  /\ miscounted' = IF g \in request[q].stale THEN miscounted \cup {g}
                   ELSE miscounted \ {g}
  /\ End(q, {}, {}, {g})
  /\ UNCHANGED <<product, variant, stocked, triggered, overtaken, unchecked>>

\* createVariant inserts an inventory row itself, which the trigger's row is in
\* the way of: where the triggers are installed, it always fails.
CreateVariant(q) ==
  LET v == request[q].variant IN
  /\ request[q].op = "createVariant"
  /\ variant[v].life = "none"
  /\ ~triggered
  /\ variant' = [variant EXCEPT ![v] = [life |-> "live", of |-> request[q].product]]
  /\ stocked' = stocked \cup {v}
  /\ End(q, {}, {}, {})
  /\ UNCHANGED <<group, product, triggered, history>>

DeleteVariant(q) ==
  /\ request[q].op = "deleteVariant"
  /\ variant' = [variant EXCEPT ![request[q].variant].life = "deleted"]
  /\ End(q, {}, {}, {})
  /\ UNCHANGED <<group, product, stocked, triggered, history>>

\* A request that fails leaves no trace.
Fail(q) ==
  /\ request[q] # Idle
  /\ End(q, {}, {}, {})
  /\ UNCHANGED <<group, product, variant, stocked, triggered, history>>

-----------------------------------------------------------------------------
(* One step each: createCategory and createBrand, restoreCategory. *)

CreateGroup(g) ==
  /\ group[g] = "none"
  /\ group' = [group EXCEPT ![g] = "live"]
  /\ UNCHANGED <<product, variant, stocked, triggered, request, history>>

RestoreCategory(c) ==
  /\ group[c] = "deleted"
  /\ group' = [group EXCEPT ![c] = "live"]
  /\ UNCHANGED <<product, variant, stocked, triggered, request, history>>

\* triggers.sql may be run at any time, and again: it first sees to the variants
\* that are there.
Backfilled == {v \in Variant : variant[v].life # "none"}
InstallTriggers ==
  /\ triggered' = TRUE
  /\ stocked' = stocked \cup Backfilled
  /\ UNCHANGED <<group, product, variant, request, history>>

Read(q) ==
  \/ ReadToCreate(q)
  \/ ReadToUpdate(q)
  \/ ReadToPublish(q)
  \/ ReadToDelete(q)
  \/ ReadToRestore(q)
  \/ ReadToDeleteGroup(q)
  \/ ReadToCreateVariant(q)
  \/ ReadToDeleteVariant(q)

Write(q) ==
  \/ InsertProduct(q)
  \/ UpdateProduct(q)
  \/ DeleteProduct(q)
  \/ RestoreProduct(q)
  \/ DeleteGroup(q)
  \/ CreateVariant(q)
  \/ DeleteVariant(q)
  \/ Fail(q)

Next ==
  \/ \E q \in Request : Read(q) \/ Write(q)
  \/ \E g \in Group : CreateGroup(g)
  \/ \E c \in Category : RestoreCategory(c)
  \/ InstallTriggers

Spec == Init /\ [][Next]_vars

-----------------------------------------------------------------------------
(* Properties. *)

\* A deleted product is ARCHIVED and so never listed, unless a request that had
\* read it before wrote to it after: whatever order the operations come in, their
\* reads of deleted_at are enough but for that.
DeletedStaysDown ==
  \A p \in Product \ overtaken :
    product[p].life = "deleted" => product[p].status = "ARCHIVED"

\* A product that is not deleted is in no category and no brand that is, unless
\* it was restored there, or came in while the other was being deleted: the check
\* of createProduct and updateProduct and the count of deleteCategory and
\* deleteBrand leave no other gap.
GroupsKeepProducts ==
  \A p \in Product : LiveProduct(p) =>
    \A g \in product[p].groups \ (unchecked[p] \cup miscounted) : LiveGroup(g)

\* triggers.sql makes "variant without inventory row" an impossible state,
\* though createProduct inserts none: also for variants that were there before,
\* and for requests in flight when it is run.
VariantsStocked ==
  triggered => \A v \in Variant : variant[v].life # "none" => v \in stocked
=============================================================================
