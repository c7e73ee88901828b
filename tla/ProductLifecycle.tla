-------------------------- MODULE ProductLifecycle --------------------------
(***************************************************************************)
(* The life of products (SPUs) and their sellable units (SKUs): draft,     *)
(* published, archived, retired, one SQL statement per step under READ     *)
(* COMMITTED.                                                              *)
(*                                                                         *)
(* Creating, updating and archiving a product and deleting a SKU are one   *)
(* auto-committed statement each.  Publishing and deleting a product and   *)
(* creating and updating a SKU are transactions of several statements; a   *)
(* worker runs one of them at a time.  A transaction's uncommitted writes  *)
(* are invisible to the others, so its row locks are what they can notice: *)
(* they are read off the phases of the workers.                            *)
(*                                                                         *)
(* ConditionalWrite is about the version guard.  Here it is only whether a *)
(* request still names its row's version; a statement that misses its row  *)
(* changes nothing.                                                        *)
(***************************************************************************)
EXTENDS Naturals

CONSTANTS
    Products,   \* SPU ids ever minted
    Skus,       \* SKU ids ever minted
    Workers     \* request handlers, one transaction at a time each

VARIABLES
    spu,        \* spu[p]: the committed row of product p
    sku,        \* sku[s]: the committed row of SKU s
    owner,      \* owner[s]: the product SKU s belongs to
    phase,      \* phase[w]: where w's transaction is
    product,    \* product[w]: the product it is about
    item,       \* item[w]: the SKU it is about
    fresh,      \* fresh[w]: its If-Match still names the product's version
    victims,    \* victims[w]: the SKUs its cascade found
    late        \* history: the SKUs no cascade over their product can have found

rows == <<spu, sku, owner>>
request == <<product, item, fresh, victims>>
vars == <<spu, sku, owner, phase, product, item, fresh, victims, late>>

Statuses == {"draft", "active", "inactive", "archived"}
Row == [life : {"unborn", "live", "retired"}, status : Statuses,
        sales : {"active", "inactive"}, published : BOOLEAN]
Phases == {"idle", "counted", "retiring", "cascading", "resolved", "editing"}

TypeOK ==
    /\ spu \in [Products -> Row]
    /\ sku \in [Skus -> Row]
    /\ owner \in [Skus -> Products]
    /\ phase \in [Workers -> Phases]
    /\ product \in [Workers -> Products]
    /\ item \in [Workers -> Skus]
    /\ fresh \in [Workers -> BOOLEAN]
    /\ victims \in [Workers -> SUBSET Skus]
    /\ late \subseteq Skus

Unborn == [life |-> "unborn", status |-> "draft",
           sales |-> "inactive", published |-> FALSE]

Init ==
    /\ spu = [p \in Products |-> Unborn]
    /\ sku = [s \in Skus |-> Unborn]
    /\ owner \in [Skus -> Products]
    /\ phase = [w \in Workers |-> "idle"]
    /\ product \in [Workers -> Products]
    /\ item \in [Workers -> Skus]
    /\ fresh = [w \in Workers |-> FALSE]
    /\ victims = [w \in Workers |-> {}]
    /\ late = {}

-------------------------------------------------------------------------------
(* Rows.                                                                   *)

(* INSERT ... VALUES (..., 'draft', 'inactive'); published_at is NULL.     *)
Inserted == [life |-> "live", status |-> "draft",
             sales |-> "inactive", published |-> FALSE]

(* Mutant: the sales state is kept, not derived.                           *)
WithStatusOnly(row, status) ==
    [row EXCEPT !.status = status, !.published = @ \/ status = "active"]

(* Both UPDATEs derive the sales state and the first publication from the  *)
(* status; a request that does not name a status keeps the row's.          *)
WithStatus(row, status) ==
    [row EXCEPT !.status = status,
                !.sales = IF status = "active" THEN "active" ELSE "inactive",
                !.published = @ \/ status = "active"]

(* SET deleted_at = NOW(), status = 'inactive', sales_status = 'inactive'. *)
Retired(row) ==
    [row EXCEPT !.life = "retired", !.status = "inactive", !.sales = "inactive"]

(* Mutant: the CHECK on published_at is not there.                         *)
ChecksWithoutPublishedAt(row) == row.sales = "active" => row.status # "draft"

(* The CHECKs on status, sales status and published_at of both tables.     *)
Checks(row) ==
    /\ row.sales = "active" => row.status # "draft"
    /\ row.published => row.status # "draft"

LiveSkus(p) == {s \in Skus : owner[s] = p /\ sku[s].life = "live"}

(* An UPDATE or FOR UPDATE of the row waits for its transaction.           *)
ProductLocked(p) ==
    \E w \in Workers : phase[w] \in {"retiring", "cascading"} /\ product[w] = p
SkuLocked(s) == \E w \in Workers : phase[w] = "editing" /\ item[w] = s

(* Product p is committed as row, one version later: a request that named  *)
(* its version names an old one from now on.                               *)
CommitProduct(p, row) ==
    /\ spu' = [spu EXCEPT ![p] = row]
    /\ fresh' = [w \in Workers |-> fresh[w] /\ product[w] # p]

-------------------------------------------------------------------------------
(* Single statements.                                                      *)

CreateSpu(p) ==
    /\ spu[p].life = "unborn"
    /\ spu' = [spu EXCEPT ![p] = Inserted]
    /\ UNCHANGED <<sku, owner, phase, request, late>>

UpdateSpu(p, status) ==
    /\ spu[p].life = "live"
    /\ ~ProductLocked(p)
    /\ Checks(WithStatus(spu[p], status))
    /\ CommitProduct(p, WithStatus(spu[p], status))
    /\ UNCHANGED <<sku, owner, phase, product, item, victims, late>>

ArchiveSpu(p) ==
    /\ spu[p].life = "live"
    /\ ~ProductLocked(p)
    /\ CommitProduct(p, [spu[p] EXCEPT !.status = "archived", !.sales = "inactive"])
    /\ UNCHANGED <<sku, owner, phase, product, item, victims, late>>

DeleteSku(s) ==
    /\ sku[s].life = "live"
    /\ ~SkuLocked(s)
    /\ sku' = [sku EXCEPT ![s] = Retired(@)]
    /\ UNCHANGED <<spu, owner, phase, request, late>>

-------------------------------------------------------------------------------
(* Transactions.                                                           *)

(* publish_spu counts the live SKUs and refuses when there is none.  The   *)
(* client's version is the product's or an older one.                      *)
CountSkus(w, p) ==
    /\ phase[w] = "idle"
    /\ LiveSkus(p) # {}
    /\ phase' = [phase EXCEPT ![w] = "counted"]
    /\ product' = [product EXCEPT ![w] = p]
    /\ \E current \in BOOLEAN : fresh' = [fresh EXCEPT ![w] = current]
    /\ UNCHANGED <<rows, item, victims, late>>

(* Its guarded statement, with the commit.                                 *)
PublishSpu(w) ==
    LET p == product[w] IN
    /\ phase[w] = "counted"
    /\ ~ProductLocked(p)
    /\ phase' = [phase EXCEPT ![w] = "idle"]
    /\ IF spu[p].life = "live" /\ fresh[w]
       THEN CommitProduct(p, WithStatus(spu[p], "active"))
       ELSE UNCHANGED <<spu, fresh>>
    /\ UNCHANGED <<sku, owner, product, item, victims, late>>

(* delete_spu retires the product, uncommitted: the row is locked by it.   *)
RetireSpu(w, p) ==
    /\ phase[w] = "idle"
    /\ spu[p].life = "live"
    /\ ~ProductLocked(p)
    /\ phase' = [phase EXCEPT ![w] = "retiring"]
    /\ product' = [product EXCEPT ![w] = p]
    /\ UNCHANGED <<rows, item, fresh, victims, late>>

(* Mutant: a cascade that only takes the SKUs on sale.                     *)
StartCascadeOnSale(w) ==
    /\ phase[w] = "retiring"
    /\ phase' = [phase EXCEPT ![w] = "cascading"]
    /\ victims' = [victims EXCEPT ![w] =
                      {s \in LiveSkus(product[w]) : sku[s].sales = "active"}]
    /\ late' = {s \in late : owner[s] # product[w]}
    /\ UNCHANGED <<rows, product, item, fresh>>

(* The cascade statement starts: its snapshot holds the committed SKUs.    *)
StartCascade(w) ==
    /\ phase[w] = "retiring"
    /\ phase' = [phase EXCEPT ![w] = "cascading"]
    /\ victims' = [victims EXCEPT ![w] = LiveSkus(product[w])]
    /\ late' = {s \in late : owner[s] # product[w]}
    /\ UNCHANGED <<rows, product, item, fresh>>

(* Mutant: the cascade skips the SKUs another transaction has locked.      *)
DeleteSpuSkippingLocked(w) ==
    /\ phase[w] = "cascading"
    /\ phase' = [phase EXCEPT ![w] = "idle"]
    /\ victims' = [victims EXCEPT ![w] = {}]
    /\ sku' = [s \in Skus |->
                  IF s \in victims[w] /\ sku[s].life = "live" /\ ~SkuLocked(s)
                  THEN Retired(sku[s]) ELSE sku[s]]
    /\ CommitProduct(product[w], Retired(spu[product[w]]))
    /\ UNCHANGED <<owner, product, item, late>>

(* It waited for every victim that was locked, rechecked each and retired  *)
(* those still live; with the commit the product is retired too.           *)
DeleteSpu(w) ==
    /\ phase[w] = "cascading"
    /\ \A s \in victims[w] : ~SkuLocked(s)
    /\ phase' = [phase EXCEPT ![w] = "idle"]
    /\ victims' = [victims EXCEPT ![w] = {}]
    /\ sku' = [s \in Skus |->
                  IF s \in victims[w] /\ sku[s].life = "live"
                  THEN Retired(sku[s]) ELSE sku[s]]
    /\ CommitProduct(product[w], Retired(spu[product[w]]))
    /\ UNCHANGED <<owner, product, item, late>>

(* Mutant: the product is looked up without deleted_at IS NULL.            *)
ResolveProductAnyhow(w, p, s) ==
    /\ phase[w] = "idle"
    /\ spu[p].life # "unborn"
    /\ sku[s].life = "unborn"
    /\ \A v \in Workers : phase[v] = "resolved" => item[v] # s
    /\ phase' = [phase EXCEPT ![w] = "resolved"]
    /\ product' = [product EXCEPT ![w] = p]
    /\ item' = [item EXCEPT ![w] = s]
    /\ UNCHANGED <<rows, fresh, victims, late>>

(* create_sku mints an id and reads the category of the live product,      *)
(* without locking the product.                                            *)
ResolveProduct(w, p, s) ==
    /\ phase[w] = "idle"
    /\ spu[p].life = "live"
    /\ sku[s].life = "unborn"
    /\ \A v \in Workers : phase[v] = "resolved" => item[v] # s
    /\ phase' = [phase EXCEPT ![w] = "resolved"]
    /\ product' = [product EXCEPT ![w] = p]
    /\ item' = [item EXCEPT ![w] = s]
    /\ UNCHANGED <<rows, fresh, victims, late>>

(* The deletion of product p has taken its snapshot of the SKUs, or is over. *)
Missable(p) ==
    \/ spu[p].life = "retired"
    \/ \E w \in Workers : phase[w] = "cascading" /\ product[w] = p

(* The INSERT with its commit.  The foreign key asks for a product row,    *)
(* retired or not, and does not wait for an UPDATE of its other columns.   *)
CreateSku(w) ==
    /\ phase[w] = "resolved"
    /\ phase' = [phase EXCEPT ![w] = "idle"]
    /\ sku' = [sku EXCEPT ![item[w]] = Inserted]
    /\ owner' = [owner EXCEPT ![item[w]] = product[w]]
    /\ late' = IF Missable(product[w]) THEN late \cup {item[w]} ELSE late
    /\ UNCHANGED <<spu, request>>

(* Mutant: the row is read without FOR UPDATE.                             *)
ReadSku(w, s) ==
    /\ phase[w] = "idle"
    /\ sku[s].life = "live"
    /\ phase' = [phase EXCEPT ![w] = "editing"]
    /\ item' = [item EXCEPT ![w] = s]
    /\ UNCHANGED <<rows, product, fresh, victims, late>>

(* update_sku: SELECT ... FOR UPDATE of the live row.                      *)
LockSku(w, s) ==
    /\ phase[w] = "idle"
    /\ sku[s].life = "live"
    /\ ~SkuLocked(s)
    /\ phase' = [phase EXCEPT ![w] = "editing"]
    /\ item' = [item EXCEPT ![w] = s]
    /\ UNCHANGED <<rows, product, fresh, victims, late>>

(* Mutant: the product's row is locked too, after the SKU's.               *)
UpdateSkuThenProduct(w, status) ==
    LET row == WithStatus(sku[item[w]], status) IN
    /\ phase[w] = "editing"
    /\ ~ProductLocked(owner[item[w]])
    /\ Checks(row)
    /\ phase' = [phase EXCEPT ![w] = "idle"]
    /\ sku' = [sku EXCEPT ![item[w]] = row]
    /\ UNCHANGED <<spu, owner, request, late>>

(* Its guarded statement, with the commit.                                 *)
UpdateSku(w, status) ==
    LET row == WithStatus(sku[item[w]], status) IN
    /\ phase[w] = "editing"
    /\ Checks(row)
    /\ phase' = [phase EXCEPT ![w] = "idle"]
    /\ sku' = [sku EXCEPT ![item[w]] = row]
    /\ UNCHANGED <<spu, owner, request, late>>

(* A stale version, a refused request, a violated CHECK or a failing       *)
(* statement drops the transaction: nothing of it is committed.            *)
Abort(w) ==
    /\ phase[w] # "idle"
    /\ phase' = [phase EXCEPT ![w] = "idle"]
    /\ victims' = [victims EXCEPT ![w] = {}]
    /\ UNCHANGED <<rows, product, item, fresh, late>>

Progress(w) ==
    \/ PublishSpu(w)
    \/ StartCascade(w)
    \/ DeleteSpu(w)
    \/ CreateSku(w)
    \/ \E status \in Statuses : UpdateSku(w, status)

Next ==
    \/ \E p \in Products :
        \/ CreateSpu(p)
        \/ \E status \in Statuses : UpdateSpu(p, status)
        \/ ArchiveSpu(p)
    \/ \E s \in Skus : DeleteSku(s)
    \/ \E w \in Workers :
        \/ Progress(w)
        \/ Abort(w)
        \/ \E s \in Skus : LockSku(w, s)
        \/ \E p \in Products :
            \/ CountSkus(w, p)
            \/ RetireSpu(w, p)
            \/ \E s \in Skus : ResolveProduct(w, p, s)

Spec == Init /\ [][Next]_vars

(* A handler runs its transaction on: none waits for a client, and         *)
(* PostgreSQL queues the waiters of a row lock.                            *)
FairSpec == Spec /\ \A w \in Workers : SF_vars(Progress(w))

-------------------------------------------------------------------------------
(* Properties.                                                             *)

(* Deleting a product retires every SKU under it, so that no row stays in  *)
(* the sellable index whose product is invisible (delete_spu).             *)
NoLiveSkuUnderRetiredProduct ==
    \A s \in Skus : sku[s].life = "live" => spu[owner[s]].life = "live"

(* What someone who browses the catalog sees of it: SKUs appear under      *)
(* products that are there, go on and off sale, and a product disappears   *)
(* in one step with all its SKUs, whatever statements its deletion takes   *)
(* (create_sku, update_spu, delete_spu).                                   *)
Shelf == INSTANCE ProductShelf
    WITH shelf <- {p \in Products : spu[p].life = "live"},
         under <- [s \in {t \in Skus : sku[t].life = "live"} |-> owner[s]],
         offered <- {p \in Products : spu[p].sales = "active"},
         buyable <- {s \in Skus : sku[s].sales = "active"},
         endedSpus <- {p \in Products : spu[p].life = "retired"},
         endedSkus <- {s \in Skus : sku[s].life = "retired"}
ShelfSpec == Shelf!Spec

(* A retired product on which no create_sku is running any more.           *)
Closed(p) ==
    /\ spu[p].life = "retired"
    /\ \A w \in Workers : phase[w] = "resolved" => product[w] # p

(* What remains of it when transactions overlap: once a product is retired *)
(* and the creations that had found it live are over, it gains no SKU and  *)
(* no creation ever starts on it again (create_sku, delete_spu).           *)
RetiredProductIsClosed ==
    [][\A p \in Products :
          Closed(p) => Closed(p)' /\ LiveSkus(p)' \subseteq LiveSkus(p)]_vars

(* How much can stay behind, whatever overlaps: a live SKU under a retired *)
(* product was inserted after the cascade of its deletion had taken its    *)
(* snapshot.  Every other one is gone with the product, however it was     *)
(* edited, deleted or waited for in between (delete_spu, update_sku).      *)
OrphansAreLate ==
    \A s \in Skus :
        sku[s].life = "live" /\ spu[owner[s]].life = "retired" => s \in late

(* Publishing is a one-way transition with a recorded instant, for both    *)
(* tables: the instant stays and the row never returns to draft.           *)
PublishingIsOneWay ==
    [][/\ \A p \in Products : spu[p].published =>
             spu'[p].published /\ spu'[p].status # "draft"
       /\ \A s \in Skus : sku[s].published =>
             sku'[s].published /\ sku'[s].status # "draft"]_vars

(* What the sellable indexes serve: a row is on sale exactly when it is    *)
(* live, active and published, whichever of the six operations wrote it.   *)
OnSaleMeansActive ==
    /\ \A p \in Products :
          spu[p].sales = "active" <=> spu[p].life = "live" /\ spu[p].status = "active"
    /\ \A s \in Skus :
          sku[s].sales = "active" <=> sku[s].life = "live" /\ sku[s].status = "active"
    /\ \A p \in Products : spu[p].sales = "active" => spu[p].published
    /\ \A s \in Skus : sku[s].sales = "active" => sku[s].published

(* No transaction waits forever: the locks are taken product first, and a  *)
(* transaction that holds a SKU waits for nothing.                         *)
EveryTransactionEnds == \A w \in Workers : phase[w] # "idle" ~> phase[w] = "idle"

-------------------------------------------------------------------------------
(* The inductive invariants of the proofs, in parts.                       *)

(* What a transaction has locked is live; what it is creating is not born. *)
HoldInv ==
    \A w \in Workers :
        /\ phase[w] \in {"retiring", "cascading"} => spu[product[w]].life = "live"
        /\ phase[w] = "editing" => sku[item[w]].life = "live"
        /\ phase[w] = "resolved" => sku[item[w]].life = "unborn"
        /\ \A s \in victims[w] : sku[s].life # "unborn"

(* Row locks, and ids being created, exclude one another.                  *)
ExclusionInv ==
    \A v, w \in Workers :
        /\ phase[v] \in {"retiring", "cascading"}
              /\ phase[w] \in {"retiring", "cascading"} /\ product[v] = product[w]
              => v = w
        /\ phase[v] = "editing" /\ phase[w] = "editing" /\ item[v] = item[w] => v = w
        /\ phase[v] = "resolved" /\ phase[w] = "resolved" /\ item[v] = item[w] => v = w

(* Every row satisfies the CHECKs; an unborn one was never published.      *)
Proper(row) == Checks(row) /\ (row.life = "unborn" => ~row.published)
RowInv == (\A p \in Products : Proper(spu[p])) /\ (\A s \in Skus : Proper(sku[s]))

(* A cascade under way will find every live SKU of its product but the     *)
(* late ones, and no row is of a product that was never inserted.          *)
CascadeInv ==
    /\ \A w \in Workers :
          /\ phase[w] = "resolved" => spu[product[w]].life # "unborn"
          /\ phase[w] = "cascading" => LiveSkus(product[w]) \ late \subseteq victims[w]
    /\ \A s \in Skus : sku[s].life = "live" => spu[owner[s]].life # "unborn"
    /\ OrphansAreLate

IInv ==
    /\ TypeOK /\ HoldInv /\ ExclusionInv
    /\ RowInv /\ OnSaleMeansActive /\ CascadeInv

(* No creation of a SKU overlaps the deletion of its product.              *)
CreationsApart ==
    \A v, w \in Workers :
        phase[v] = "resolved" /\ phase[w] \in {"retiring", "cascading"}
        => product[v] # product[w]

(* Then a resolved product stays live, and a cascade finds every live SKU  *)
(* of its product and no SKU of another.                                   *)
DeletionInv ==
    /\ IInv
    /\ \A w \in Workers :
          /\ phase[w] = "resolved" => spu[product[w]].life = "live"
          /\ phase[w] = "cascading" =>
                /\ LiveSkus(product[w]) \subseteq victims[w]
                /\ \A s \in victims[w] : owner[s] = product[w]
    /\ NoLiveSkuUnderRetiredProduct
=============================================================================
