---------------------------- MODULE OwnerReferences ----------------------------
(***************************************************************************)
(* References to catalog rows that are only soft-deleted: products to      *)
(* their category, and media to the category, product or attribute value   *)
(* that owns them.                                                         *)
(*                                                                         *)
(* A product's category is a foreign key: PostgreSQL takes a share lock on *)
(* the category row, which waits for a transaction that locked the row FOR *)
(* UPDATE, and accepts a retired row as well as a live one.  A media owner *)
(* is no foreign key: create_media looks once, without a lock, and inserts *)
(* in a later statement.  SKUs own media the way products do.              *)
(*                                                                         *)
(* The version guards of these writes are ConditionalWrite's; here a write *)
(* that is refused by its guard changes nothing.                           *)
(***************************************************************************)
EXTENDS Integers, FiniteSets

CONSTANTS
    Editors,        \* API clients, one transaction in flight each
    Categories, Products, AttributeValues,
    Attachments,    \* create_media bodies: [owner, role, order, snapshot]
    Changes,        \* update_media bodies: [role, order, snapshot], or Same
    Same,           \* a field the body leaves out
    Resource,       \* Resource[s]: the identity a snapshot carries, 0 if none
    NoEditor,       \* the holder of a lock nobody holds
    MaxMedia        \* bound: media rows ever written

Owners == Categories \cup Products \cup AttributeValues
Snapshots == DOMAIN Resource
MediaIds == 1..MaxMedia
MediaRoles == {"main_image", "gallery_image", "detail_image", "sku_image",
               "video", "manual", "certificate"}

ASSUME MediaAssumption ==
    /\ Attachments \subseteq [owner : Owners, role : MediaRoles, order : Int,
                              snapshot : Snapshots]
    /\ Changes \subseteq [role : MediaRoles \cup {Same}, order : Int \cup {Same},
                          snapshot : Snapshots \cup {Same}]
    /\ MaxMedia \in Nat /\ NoEditor \notin Editors

VARIABLES
    category,       \* category[k]: "live" or "retired"
    product,        \* product[p]: "absent", "live" or "retired"
    home,           \* home[p]: the category of product p
    media,          \* media[i]: the row written with the i-th id
    categoryLock,   \* categoryLock[k]: who locked the row FOR UPDATE
    mediaLock,      \* mediaLock[i]: the same for a media row
    doing           \* doing[e]: where e's transaction is, and on what

ownerVars == <<category, product, home, media, categoryLock, mediaLock, doing>>

NotWritten == [live |-> FALSE, owner |-> NoEditor, role |-> "main_image",
               order |-> 0, snapshot |-> Same, resource |-> 0]
Resting == [step |-> "rest"]

OwnerInit ==
    /\ category = [k \in Categories |-> "live"]
    /\ product = [p \in Products |-> "absent"]
    /\ home = [p \in Products |-> NoEditor]     \* of no category until created
    /\ media = [i \in MediaIds |-> NotWritten]
    /\ categoryLock = [k \in Categories |-> NoEditor]
    /\ mediaLock = [i \in MediaIds |-> NoEditor]
    /\ doing = [e \in Editors |-> Resting]

Do(e, work) == doing[e] = Resting /\ doing' = [doing EXCEPT ![e] = work]
Rest(e) == doing' = [doing EXCEPT ![e] = Resting]

-------------------------------------------------------------------------------
(* Products.                                                               *)

LiveProductsIn(k) == {p \in Products : product[p] = "live" /\ home[p] = k}

(* Mutant: delete_category locks its row in a mode that lets foreign keys  *)
(* through, or not at all.                                                 *)
KeyShareIgnoresLock(k) == k \in Categories
(* The foreign key's share lock on the category row.                       *)
KeyShareGranted(k) == categoryLock[k] = NoEditor

(* create_spu: one statement.  The category may be retired.                *)
CreateSpu(p, k) ==
    /\ product[p] = "absent" /\ KeyShareGranted(k)
    /\ product' = [product EXCEPT ![p] = "live"]
    /\ home' = [home EXCEPT ![p] = k]
    /\ UNCHANGED <<category, media, categoryLock, mediaLock, doing>>

(* update_spu with a category.                                             *)
MoveSpu(p, k) ==
    /\ product[p] = "live" /\ k # home[p] /\ KeyShareGranted(k)
    /\ home' = [home EXCEPT ![p] = k]
    /\ UNCHANGED <<category, product, media, categoryLock, mediaLock, doing>>

(* delete_spu leaves the media of the product as they are.                 *)
DeleteSpu(p) ==
    /\ product[p] = "live"
    /\ product' = [product EXCEPT ![p] = "retired"]
    /\ UNCHANGED <<category, home, media, categoryLock, mediaLock, doing>>

-------------------------------------------------------------------------------
(* delete_category: lock, count, retire and commit.                        *)

LockCategory(e, k) ==
    /\ category[k] = "live" /\ categoryLock[k] = NoEditor
    /\ Do(e, [step |-> "locked", category |-> k])
    /\ categoryLock' = [categoryLock EXCEPT ![k] = e]
    /\ UNCHANGED <<category, product, home, media, mediaLock>>

ReleaseCategory(e) ==
    categoryLock' = [categoryLock EXCEPT ![doing[e].category] = NoEditor]

(* A category with live products is a conflict.                            *)
CountProducts(e) ==
    /\ doing[e].step = "locked"
    /\ IF LiveProductsIn(doing[e].category) = {}
       THEN doing' = [doing EXCEPT ![e].step = "counted"] /\ UNCHANGED categoryLock
       ELSE Rest(e) /\ ReleaseCategory(e)
    /\ UNCHANGED <<category, product, home, media, mediaLock>>

RetireCategory(e) ==
    /\ doing[e].step = "counted"
    /\ category' = [category EXCEPT ![doing[e].category] = "retired"]
    /\ Rest(e) /\ ReleaseCategory(e)
    /\ UNCHANGED <<product, home, media, mediaLock>>

-------------------------------------------------------------------------------
(* Media.                                                                  *)

(* A snapshot is a document of declared keys; the addresses in it are      *)
(* reduced to their scheme.                                                *)
RequiredKeys == {"id", "kind", "source"}
OptionalKeys ==
    {"url", "publicUrl", "uri", "objectBlobId", "fileName", "mimeType", "sizeBytes",
     "checksum", "width", "height", "durationSeconds", "altText", "title", "poster",
     "thumbnails", "variants", "access", "ai", "metadata"}

(* media_resource_identity: the id of a well-formed snapshot, or 0.        *)
MediaResourceIdentity(document) ==
    IF /\ RequiredKeys \subseteq DOMAIN document
       /\ DOMAIN document \subseteq RequiredKeys \cup OptionalKeys
       /\ document.id > 0
       /\ document.source = "drive" => "uri" \in DOMAIN document /\ document.uri = "drive"
    THEN document.id ELSE 0

(* Nothing retires an attribute value.                                     *)
IsLive(o) ==
    /\ o \in Categories => category[o] = "live"
    /\ o \in Products => product[o] = "live"

(* admits_role, also a CHECK of the table.                                 *)
AdmitsRole(o, role) ==
    o \in AttributeValues => role \in {"main_image", "sku_image", "gallery_image"}

LiveMediaOf(o) == {i \in MediaIds : media[i].live /\ media[i].owner = o}

(* The unique indexes over live rows: one row per slot of an owner, and    *)
(* one main image per owner.                                               *)
SlotIsFree(i, row) ==
    \A j \in LiveMediaOf(row.owner) \ {i} :
        media[j].role = row.role =>
            row.role # "main_image" /\ media[j].order # row.order

(* Mutant: the owner's deleted_at is not looked at.                        *)
OwnerWasWritten(o) == o \in Products => product[o] # "absent"
(* ensure_media_owner.                                                     *)
OwnerVerified(o) == IsLive(o)

(* create_media: the body is validated, then the owner is looked up.       *)
VerifyOwner(e, body) ==
    /\ body.order >= 0 /\ AdmitsRole(body.owner, body.role)
    /\ Resource[body.snapshot] # 0
    /\ OwnerVerified(body.owner)
    /\ \E i \in MediaIds : media[i] = NotWritten
    /\ Do(e, [step |-> "verified", body |-> body])
    /\ UNCHANGED <<category, product, home, media, categoryLock, mediaLock>>

(* The INSERT and the commit, or a conflict with a live row.               *)
InsertMedia(e) ==
    LET body == doing[e].body
        row == [live |-> TRUE, owner |-> body.owner, role |-> body.role,
                order |-> body.order, snapshot |-> body.snapshot,
                resource |-> Resource[body.snapshot]]
    IN  /\ doing[e].step = "verified"
        /\ \/ /\ SlotIsFree(0, row)
              /\ \E i \in MediaIds :
                     /\ media[i] = NotWritten
                     /\ \A j \in 1..(i - 1) : media[j] # NotWritten
                     /\ media' = [media EXCEPT ![i] = row]
           \/ ~SlotIsFree(0, row) /\ UNCHANGED media
           \/ (\A i \in MediaIds : media[i] # NotWritten) /\ UNCHANGED media
        /\ Rest(e)
        /\ UNCHANGED <<category, product, home, categoryLock, mediaLock>>

Coalesce(new, old) == IF new = Same THEN old ELSE new

(* Mutant: a replaced snapshot keeps the identity of the one before.       *)
RewrittenSnapshotOnly(row, body) ==
    [row EXCEPT !.role = Coalesce(body.role, @), !.order = Coalesce(body.order, @),
                !.snapshot = Coalesce(body.snapshot, @)]
(* What update_media stores: identity and snapshot change together.        *)
Rewritten(row, body) ==
    [row EXCEPT !.role = Coalesce(body.role, @), !.order = Coalesce(body.order, @),
                !.snapshot = Coalesce(body.snapshot, @),
                !.resource = IF body.snapshot = Same THEN @
                             ELSE Resource[body.snapshot]]

(* update_media locks the row to check the role against its stored owner.  *)
LockMedia(e, i, body) ==
    /\ body.snapshot # Same => Resource[body.snapshot] # 0
    /\ body.order # Same => body.order >= 0
    /\ media[i].live /\ mediaLock[i] = NoEditor
    /\ body.role # Same => AdmitsRole(media[i].owner, body.role)
    /\ Do(e, [step |-> "rewriting", id |-> i, body |-> body])
    /\ mediaLock' = [mediaLock EXCEPT ![i] = e]
    /\ UNCHANGED <<category, product, home, media, categoryLock>>

(* The guarded UPDATE and the commit, or a conflict with a live row.       *)
UpdateMedia(e) ==
    LET i == doing[e].id
        row == Rewritten(media[i], doing[e].body)
    IN  /\ doing[e].step = "rewriting"
        /\ media' = IF SlotIsFree(i, row) THEN [media EXCEPT ![i] = row] ELSE media
        /\ mediaLock' = [mediaLock EXCEPT ![i] = NoEditor]
        /\ Rest(e)
        /\ UNCHANGED <<category, product, home, categoryLock>>

(* delete_media frees the slot; it waits for the row lock.                 *)
DeleteMedia(i) ==
    /\ media[i].live /\ mediaLock[i] = NoEditor
    /\ media' = [media EXCEPT ![i].live = FALSE]
    /\ UNCHANGED <<category, product, home, categoryLock, mediaLock, doing>>

(* A guard that does not match, or a failing statement: rolled back.       *)
Refuse(e) ==
    /\ doing[e] # Resting
    /\ categoryLock' = [k \in Categories |->
            IF categoryLock[k] = e THEN NoEditor ELSE categoryLock[k]]
    /\ mediaLock' = [i \in MediaIds |->
            IF mediaLock[i] = e THEN NoEditor ELSE mediaLock[i]]
    /\ Rest(e)
    /\ UNCHANGED <<category, product, home, media>>

OwnerNext ==
    \/ \E p \in Products, k \in Categories : CreateSpu(p, k) \/ MoveSpu(p, k)
    \/ \E p \in Products : DeleteSpu(p)
    \/ \E i \in MediaIds : DeleteMedia(i)
    \/ \E e \in Editors :
           \/ \E k \in Categories : LockCategory(e, k)
           \/ CountProducts(e) \/ RetireCategory(e)
           \/ \E body \in Attachments : VerifyOwner(e, body)
           \/ InsertMedia(e)
           \/ \E i \in MediaIds, body \in Changes : LockMedia(e, i, body)
           \/ UpdateMedia(e) \/ Refuse(e)

OwnerSpec == OwnerInit /\ [][OwnerNext]_ownerVars

-------------------------------------------------------------------------------
(* Properties.                                                             *)

Works ==
    {Resting}
    \cup [step : {"locked", "counted"}, category : Categories]
    \cup [step : {"verified"}, body : Attachments]
    \cup [step : {"rewriting"}, id : MediaIds, body : Changes]
MediaRows ==
    [live : BOOLEAN, owner : Owners \cup {NoEditor}, role : MediaRoles, order : Int,
     snapshot : Snapshots \cup {Same}, resource : {Resource[s] : s \in Snapshots} \cup {0}]

OwnerTypeOK ==
    /\ category \in [Categories -> {"live", "retired"}]
    /\ product \in [Products -> {"absent", "live", "retired"}]
    /\ home \in [Products -> Categories \cup {NoEditor}]
    /\ media \in [MediaIds -> MediaRows]
    /\ categoryLock \in [Categories -> Editors \cup {NoEditor}]
    /\ mediaLock \in [MediaIds -> Editors \cup {NoEditor}]
    /\ doing \in [Editors -> Works]

(* Live media of one owner occupy different slots and at most one of them  *)
(* is its main image, whichever row was inserted, moved or retired; each   *)
(* row has a role its stored owner admits and points at the very resource  *)
(* its snapshot was taken of.                                              *)
MediaRowsConsistent ==
    \A i \in MediaIds :
        media[i].live =>
            /\ SlotIsFree(i, media[i])
            /\ AdmitsRole(media[i].owner, media[i].role)
            /\ media[i].resource = Resource[media[i].snapshot]
            /\ media[i].resource # 0 /\ media[i].order >= 0

(* A row lock belongs to the transaction that needs it.                    *)
LocksOwned ==
    /\ \A k \in Categories, e \in Editors :
           categoryLock[k] = e <=>
               doing[e].step \in {"locked", "counted"} /\ doing[e].category = k
    /\ \A i \in MediaIds, e \in Editors :
           mediaLock[i] = e <=> doing[e].step = "rewriting" /\ doing[e].id = i

(* A category that delete_category is about to retire has no live product. *)
CountStands ==
    \A e \in Editors :
        doing[e].step = "counted" => LiveProductsIn(doing[e].category) = {}

(* What was checked of a body still holds when its statement runs.         *)
BodiesAdmitted ==
    \A e \in Editors :
        LET body == doing[e].body
            row == media[doing[e].id]
        IN  /\ doing[e].step = "verified" =>
                   /\ body.order >= 0 /\ AdmitsRole(body.owner, body.role)
                   /\ Resource[body.snapshot] # 0
            /\ doing[e].step = "rewriting" =>
                   /\ row.live
                   /\ body.order # Same => body.order >= 0
                   /\ body.role # Same => AdmitsRole(row.owner, body.role)
                   /\ body.snapshot # Same => Resource[body.snapshot] # 0

(* The inductive invariant.                                                *)
ReferencesIInv ==
    /\ OwnerTypeOK /\ LocksOwned /\ CountStands
    /\ BodiesAdmitted /\ MediaRowsConsistent

(* At the commit that retires a category no live product is assigned to    *)
(* it: products created or moved while delete_category runs wait for its   *)
(* row lock, and those before it are counted.                              *)
RetiredCategoryWasEmpty ==
    [][\A k \in Categories :
           category[k] = "live" /\ category'[k] = "retired" =>
               LiveProductsIn(k) = {}]_ownerVars

(* A retired owner that no creation in flight has verified.               *)
Closed(o) ==
    /\ o \in Categories => category[o] = "retired"
    /\ o \in Products => product[o] = "retired"
    /\ o \notin AttributeValues
    /\ \A e \in Editors :
           doing[e].step = "verified" => doing[e].body.owner # o

(* Once an owner is retired and the creations that saw it live are through, *)
(* it stays so and gains no media: nothing revives an owner, and what a    *)
(* retired owner can still receive is bounded by what was in flight.       *)
RetiredOwnerIsClosed ==
    [][\A o \in Owners :
           Closed(o) => Closed(o)' /\ LiveMediaOf(o)' \subseteq LiveMediaOf(o)]_ownerVars
===============================================================================
