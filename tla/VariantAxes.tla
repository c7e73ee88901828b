----------------------------- MODULE VariantAxes -----------------------------
(***************************************************************************)
(* The SKUs of one product as variants: the values they have on the sales  *)
(* axes (commerce_product_sku_attribute), the variant_signature computed   *)
(* from them, and the unique index that makes it one sellable unit per     *)
(* combination.                                                            *)
(*                                                                         *)
(* create_sku and update_sku read the product's category, then the axes    *)
(* the category declares, then check the signature, then write, one        *)
(* statement each under READ COMMITTED; bindings and the product's         *)
(* category change meanwhile.  update_sku holds the row's lock, create_sku *)
(* holds nothing.  What a transaction has written is its request until it  *)
(* commits: others notice it only by waiting in the unique index.          *)
(*                                                                         *)
(* A signature is the set of terms it is rendered from, so it is a         *)
(* function of the axis set as the code's sort makes it.  If-Match, prices *)
(* and the life of the product are other modules: a request they refuse    *)
(* is an Abort here.  MaxRebindings bounds the changes to the bindings.    *)
(***************************************************************************)
EXTENDS Naturals

CONSTANTS
    Skus,           \* SKU numbers ever minted
    Attributes,     \* attributes of the dictionary
    Values,         \* their live, active dictionary values
    AttributeOf,    \* AttributeOf[v]: the attribute value v belongs to
    Categories,
    Workers,        \* request handlers, one request at a time each
    None,           \* the SKU or category of a worker that has none
    MaxRebindings   \* bound: changes of category bindings

ASSUME AttributeOfAssumption == AttributeOf \in [Values -> Attributes]
ASSUME NoneAssumption == None \notin Skus \cup Categories
ASSUME MaxRebindingsAssumption == MaxRebindings \in Nat

VARIABLES
    sku,        \* sku[s]: the committed row of SKU s and its axis rows
    category,   \* the category of the product
    axesOf,     \* axesOf[k]: the active sales axes category k declares
    declared,   \* every axis set any category ever declared (history variable)
    rebindings, \* changes of bindings so far
    phase,      \* phase[w]: where w's request is
    op,         \* op[w]: the operation
    item,       \* item[w]: the SKU it is about, or None
    submitted,  \* submitted[w]: its attributeValueIds
    seen,       \* seen[w]: the category it read and has not used, or None
    answer      \* answer[w]: signature and axes of its response

catalog == <<category, axesOf, declared, rebindings>>
request == <<op, item, submitted>>
vars == <<sku, category, axesOf, declared, rebindings, phase, op, item,
          submitted, seen, answer>>

Ops == {"none", "create", "replace", "keep", "read"}
Phases == {"idle", "open", "placed", "resolved", "available", "written",
           "loading", "answered"}
Signatures == (SUBSET (Skus \cup Values)) \ {{}}
Row == [life : {"unborn", "live", "retired"}, signature : Signatures,
        axes : SUBSET Values]

TypeOK ==
    /\ sku \in [Skus -> Row]
    /\ category \in Categories
    /\ axesOf \in [Categories -> SUBSET Attributes]
    /\ declared \subseteq SUBSET Attributes
    /\ rebindings \in 0..MaxRebindings
    /\ phase \in [Workers -> Phases]
    /\ op \in [Workers -> Ops]
    /\ item \in [Workers -> Skus \cup {None}]
    /\ submitted \in [Workers -> SUBSET Values]
    /\ seen \in [Workers -> Categories \cup {None}]
    /\ answer \in [Workers -> [signature : Signatures \cup {{}}, axes : SUBSET Values]]

-------------------------------------------------------------------------------
(* Axes and signatures.                                                    *)

AttributesOf(values) == {AttributeOf[v] : v \in values}

(* build_variant_signature: one term per axis, the sku_no without axes.    *)
Signature(s, axes) == IF axes = {} THEN {s} ELSE axes

NoAnswer == [signature |-> {}, axes |-> {}]
Unborn(s) == [life |-> "unborn", signature |-> {s}, axes |-> {}]

Init ==
    /\ sku = [s \in Skus |-> Unborn(s)]
    /\ category \in Categories
    /\ axesOf \in [Categories -> SUBSET Attributes]
    /\ declared = {axesOf[k] : k \in Categories}
    /\ rebindings = 0
    /\ phase = [w \in Workers |-> "idle"]
    /\ op = [w \in Workers |-> "none"]
    /\ item = [w \in Workers |-> None]
    /\ submitted = [w \in Workers |-> {}]
    /\ seen = [w \in Workers |-> None]
    /\ answer = [w \in Workers |-> NoAnswer]

Live(s) == sku[s].life = "live"

(* uk_commerce_product_sku_attribute_axis: one value per axis of a SKU.    *)
OneValueEach(values) ==
    \A u, v \in values : AttributeOf[u] = AttributeOf[v] => u = v

(* Another live SKU of the product carries the signature.                  *)
Taken(s, signature) ==
    \E t \in Skus \ {s} : Live(t) /\ sku[t].signature = signature

(* What w has written, or is about to write, into the unique index.        *)
Claim(w) == Signature(item[w], submitted[w])
Claimed(w) ==
    \E v \in Workers \ {w} : phase[v] = "written" /\ Claim(v) = Claim(w)

Locked(s) ==
    \E w \in Workers :
        /\ phase[w] \in {"open", "placed", "resolved", "available", "written"}
        /\ op[w] \in {"replace", "keep"}
        /\ item[w] = s

-------------------------------------------------------------------------------
(* The category template and the product's place in it.                    *)

(* A binding of role sales is created, activated or given that role, or    *)
(* the reverse.                                                            *)
Rebind(k, a) ==
    /\ rebindings < MaxRebindings
    /\ rebindings' = rebindings + 1
    /\ axesOf' = [axesOf EXCEPT ![k] = IF a \in @ THEN @ \ {a} ELSE @ \cup {a}]
    /\ declared' = declared \cup {axesOf'[k]}
    /\ UNCHANGED <<sku, category, phase, request, seen, answer>>

(* update_spu with a category_id.                                          *)
MoveProduct(k) ==
    /\ category' = k
    /\ UNCHANGED <<sku, axesOf, declared, rebindings, phase, request, seen, answer>>

-------------------------------------------------------------------------------
(* Writing a variant.                                                      *)

Begin(w, operation, s, values) ==
    /\ phase[w] = "idle"
    /\ phase' = [phase EXCEPT ![w] = "open"]
    /\ op' = [op EXCEPT ![w] = operation]
    /\ item' = [item EXCEPT ![w] = s]
    /\ submitted' = [submitted EXCEPT ![w] = values]
    /\ UNCHANGED <<sku, catalog, seen, answer>>

(* create_sku mints the row; nothing is locked.                            *)
BeginCreate(w, s, values) ==
    /\ sku[s].life = "unborn"
    /\ \A v \in Workers : phase[v] # "idle" /\ op[v] = "create" => item[v] # s
    /\ Begin(w, "create", s, values)

(* Mutant: the row is read without FOR UPDATE.                             *)
ReadSku(w, operation, s, values) ==
    /\ Live(s)
    /\ Begin(w, operation, s, values)

(* update_sku: LOCK_SKU_SQL waits for the row and needs it live.           *)
LockSku(w, operation, s, values) ==
    /\ Live(s) /\ ~Locked(s)
    /\ Begin(w, operation, s, values)

Advance(w, from, to) ==
    /\ phase[w] = from
    /\ phase' = [phase EXCEPT ![w] = to]

(* resolve_sku_axes, first statement: the product's category.              *)
ReadCategory(w) ==
    /\ op[w] \in {"create", "replace"}
    /\ Advance(w, "open", "placed")
    /\ seen' = [seen EXCEPT ![w] = category]
    /\ UNCHANGED <<sku, catalog, request, answer>>

(* Mutant: any subset of the declared axes will do.                        *)
ResolveSomeAxes(w) ==
    /\ Advance(w, "placed", "resolved")
    /\ AttributesOf(submitted[w]) \subseteq axesOf[seen[w]]
    /\ seen' = [seen EXCEPT ![w] = None]
    /\ UNCHANGED <<sku, catalog, request, answer>>

(* Its second: the submitted values cover the declared axes exactly.  Two  *)
(* values of one axis pass, because the attributes are deduplicated.       *)
ResolveAxes(w) ==
    /\ Advance(w, "placed", "resolved")
    /\ AttributesOf(submitted[w]) = axesOf[seen[w]]
    /\ seen' = [seen EXCEPT ![w] = None]
    /\ UNCHANGED <<sku, catalog, request, answer>>

(* ensure_variant_available, on what is committed now.                     *)
CheckVariant(w) ==
    /\ Advance(w, "resolved", "available")
    /\ ~Taken(item[w], Claim(w))
    /\ UNCHANGED <<sku, catalog, request, seen, answer>>

(* Mutants: no unique index behind the check; no index on the axis rows.   *)
WriteVariantUnindexed(w) ==
    /\ Advance(w, "available", "written")
    /\ OneValueEach(submitted[w])
    /\ UNCHANGED <<sku, catalog, request, seen, answer>>
WriteVariantTwoValues(w) ==
    /\ Advance(w, "available", "written")
    /\ ~Taken(item[w], Claim(w)) /\ ~Claimed(w)
    /\ UNCHANGED <<sku, catalog, request, seen, answer>>

(* The row, its signature and its axis rows are written.  Both unique      *)
(* indexes are asked: an uncommitted writer of the signature is waited     *)
(* for, a committed one, or a second value of an axis, fails the statement *)
(* (23505, see Abort).                                                     *)
WriteVariant(w) ==
    /\ Advance(w, "available", "written")
    /\ OneValueEach(submitted[w])
    /\ ~Taken(item[w], Claim(w)) /\ ~Claimed(w)
    /\ UNCHANGED <<sku, catalog, request, seen, answer>>

(* Mutant: the axes are replaced, the signature is not.                    *)
CommitAxesOnly(w) ==
    LET row == [sku[item[w]] EXCEPT !.life = "live", !.axes = submitted[w]]
    IN  /\ Advance(w, "written", "answered")
        /\ sku' = [sku EXCEPT ![item[w]] = row]
        /\ answer' = [answer EXCEPT ![w] = [signature |-> row.signature,
                                            axes |-> submitted[w]]]
        /\ UNCHANGED <<catalog, request, seen>>

(* COMMIT: the answer has the signature RETURNING handed back and the axes *)
(* the request resolved to.                                                *)
CommitVariant(w) ==
    /\ Advance(w, "written", "answered")
    /\ sku' = [sku EXCEPT ![item[w]] =
                  [life |-> "live", signature |-> Claim(w), axes |-> submitted[w]]]
    /\ answer' = [answer EXCEPT ![w] = [signature |-> Claim(w),
                                        axes |-> submitted[w]]]
    /\ UNCHANGED <<catalog, request, seen>>

-------------------------------------------------------------------------------
(* Keeping, reading and retiring a variant.                                *)

(* The row as a statement handed it back; its axes are still to be loaded. *)
RowRead(w, s) ==
    answer' = [answer EXCEPT ![w] = [signature |-> sku[s].signature, axes |-> {}]]

(* An update without attributeValueIds commits; the lock is gone.          *)
CommitKept(w) ==
    /\ op[w] = "keep"
    /\ Advance(w, "open", "loading")
    /\ RowRead(w, item[w])
    /\ UNCHANGED <<sku, catalog, request, seen>>

(* retrieve_sku, and list_skus for each row of its page.                   *)
RetrieveSku(w, s) ==
    /\ Live(s)
    /\ Advance(w, "idle", "loading")
    /\ op' = [op EXCEPT ![w] = "read"]
    /\ item' = [item EXCEPT ![w] = s]
    /\ RowRead(w, s)
    /\ UNCHANGED <<sku, catalog, submitted, seen>>

(* attach_sku_axes, a statement of its own on the pool.                    *)
AttachAxes(w) ==
    /\ Advance(w, "loading", "answered")
    /\ answer' = [answer EXCEPT ![w].axes = sku[item[w]].axes]
    /\ UNCHANGED <<sku, catalog, request, seen>>

(* The request is over and what it knew is gone.                           *)
Forget(w) ==
    /\ phase' = [phase EXCEPT ![w] = "idle"]
    /\ op' = [op EXCEPT ![w] = "none"]
    /\ item' = [item EXCEPT ![w] = None]
    /\ submitted' = [submitted EXCEPT ![w] = {}]
    /\ seen' = [seen EXCEPT ![w] = None]
    /\ answer' = [answer EXCEPT ![w] = NoAnswer]

(* The response is out.                                                    *)
Respond(w) ==
    /\ phase[w] = "answered"
    /\ Forget(w)
    /\ UNCHANGED <<sku, catalog>>

(* delete_sku, or the cascade of delete_spu.  The axis rows stay.          *)
DeleteSku(s) ==
    /\ Live(s) /\ ~Locked(s)
    /\ sku' = [sku EXCEPT ![s].life = "retired"]
    /\ UNCHANGED <<catalog, phase, request, seen, answer>>

(* A refused submission, a stale version, a taken combination, a unique    *)
(* violation or a failing statement: the transaction is dropped.           *)
Abort(w) ==
    /\ phase[w] \notin {"idle", "answered"}
    /\ Forget(w)
    /\ UNCHANGED <<sku, catalog>>

Next ==
    \/ \E k \in Categories :
        \/ MoveProduct(k)
        \/ \E a \in Attributes : Rebind(k, a)
    \/ \E s \in Skus : DeleteSku(s)
    \/ \E w \in Workers :
        \/ ReadCategory(w)
        \/ ResolveAxes(w)
        \/ CheckVariant(w)
        \/ WriteVariant(w)
        \/ CommitVariant(w)
        \/ CommitKept(w)
        \/ AttachAxes(w)
        \/ Respond(w)
        \/ Abort(w)
        \/ \E s \in Skus :
            \/ RetrieveSku(w, s)
            \/ LockSku(w, "keep", s, {})
            \/ \E values \in SUBSET Values :
                \/ BeginCreate(w, s, values)
                \/ LockSku(w, "replace", s, values)

Spec == Init /\ [][Next]_vars

-------------------------------------------------------------------------------
(* Properties.                                                             *)

(* One sellable unit per axis combination: no two live SKUs of the product *)
(* occupy the same position, also when both were written at once, each     *)
(* having found the combination free (create_sku, update_sku).             *)
OneSkuPerCombination ==
    \A s, t \in Skus :
        Live(s) /\ Live(t) /\ s # t /\ sku[s].axes # {} =>
            sku[s].axes # sku[t].axes

(* The stored signature is the one the stored axis rows give, after any    *)
(* replacement, also one that was aborted: the unique index enforces what  *)
(* it is there for (build_variant_signature).                              *)
SignatureDescribesAxes ==
    \A s \in Skus : Live(s) => sku[s].signature = Signature(s, sku[s].axes)

(* A live SKU has one position on each of its axes: a request with two     *)
(* values of one axis passes every check of the code, never the index.     *)
OneValuePerAxis == \A s \in Skus : Live(s) => OneValueEach(sku[s].axes)

(* No SKU is ever stored with part of a combination: its axes are a set    *)
(* some category declared at some time, although bindings and category     *)
(* change between the statements that read them (resolve_sku_axes).        *)
NeverPartial == \A s \in Skus : Live(s) => AttributesOf(sku[s].axes) \in declared

(* What the live SKUs of the product are to someone who compares them,     *)
(* whatever the interleaving of submissions, rebindings and deletions:     *)
(* every SKU at a whole position of its own, placed or moved in one step,  *)
(* and never back once it is gone (create_sku, update_sku, delete_sku).    *)
Positions == INSTANCE VariantPositions
    WITH position <- [s \in {t \in Skus : Live(t)} |-> sku[s].axes],
         gone <- {s \in Skus : sku[s].life = "retired"},
         templates <- declared
PositionsSpec == Positions!Spec

(* A response shows one state of the SKU: variantSignature carries the     *)
(* same information as its attributeValues (SkuAxisView).                  *)
AnswerIsWhole ==
    \A w \in Workers : phase[w] = "answered" =>
        answer[w].signature = Signature(item[w], answer[w].axes)

-------------------------------------------------------------------------------
(* The inductive invariant of the proofs, in parts.                        *)

Writing == {"open", "placed", "resolved", "available", "written"}

(* A request is about a SKU; a row under update is live and has one        *)
(* updater, a row being created is unborn and has one creator.             *)
HoldInv ==
    /\ \A w \in Workers : phase[w] # "idle" => item[w] \in Skus
    /\ \A w \in Workers : phase[w] \in Writing =>
          /\ op[w] \in {"create", "replace", "keep"}
          /\ sku[item[w]].life = IF op[w] = "create" THEN "unborn" ELSE "live"
    /\ \A v, w \in Workers :
          phase[v] \in Writing /\ phase[w] \in Writing /\ item[v] = item[w] => v = w

(* A submission that was resolved covers an axis set once declared.        *)
ResolvedInv ==
    \A w \in Workers :
        /\ phase[w] = "placed" => seen[w] \in Categories
        /\ op[w] = "keep" => phase[w] \notin (Writing \ {"open"})
        /\ phase[w] \in {"resolved", "available", "written"} =>
              AttributesOf(submitted[w]) \in declared

(* What is written but not committed conflicts with nothing.               *)
ClaimInv ==
    \A w \in Workers : phase[w] = "written" =>
        /\ OneValueEach(submitted[w])
        /\ ~Taken(item[w], Claim(w))
        /\ ~Claimed(w)

(* The unique index over the live rows.                                    *)
UniqueInv ==
    \A s, t \in Skus :
        Live(s) /\ Live(t) /\ s # t => sku[s].signature # sku[t].signature

DeclaredInv == \A k \in Categories : axesOf[k] \in declared

IInv == TypeOK /\ HoldInv /\ ResolvedInv /\ ClaimInv /\ UniqueInv
            /\ DeclaredInv /\ SignatureDescribesAxes /\ OneValuePerAxis
            /\ NeverPartial
===============================================================================
