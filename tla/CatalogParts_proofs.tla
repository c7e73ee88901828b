-------------------------- MODULE CatalogParts_proofs --------------------------
(***************************************************************************)
(* Proofs about the references to owners, the attribute dictionary, the    *)
(* category templates and the price lists, for any editors, owners, media, *)
(* clerks, values, planners and instants.                                  *)
(*                                                                         *)
(* That a category is empty when it is retired rests on the row lock: a    *)
(* transaction that counted still holds it (LocksOwned), so the foreign    *)
(* key check of a product that would join has to wait (CountStands).  That *)
(* a retired owner gains no media rests on the order in create_media: the  *)
(* owner is looked up before the row is written, never after.              *)
(***************************************************************************)
EXTENDS OwnerReferences, CategoryTemplates, PriceLists, TLAPS

-------------------------------------------------------------------------------
(* References to owners.                                                   *)


(* What an editor is doing, by its step.                                   *)
LEMMA WorkFacts ==
    ASSUME OwnerTypeOK, NEW e \in Editors
    PROVE  /\ doing[e].step \in {"rest", "locked", "counted", "verified", "rewriting"}
           /\ doing[e] = Resting <=> doing[e].step = "rest"
           /\ doing[e].step \in {"locked", "counted"} => doing[e].category \in Categories
           /\ doing[e].step = "verified" => doing[e].body \in Attachments
           /\ doing[e].step = "rewriting" =>
                  doing[e].id \in MediaIds /\ doing[e].body \in Changes
  BY DEF OwnerTypeOK, Works, Resting

(* The bodies the validation admits.                                       *)
LEMMA BodyFacts ==
    /\ \A body \in Attachments :
           /\ body.owner \in Owners /\ body.role \in MediaRoles
           /\ body.order \in Int /\ body.snapshot \in Snapshots
    /\ \A body \in Changes :
           /\ body.role \in MediaRoles \cup {Same} /\ body.order \in Int \cup {Same}
           /\ body.snapshot \in Snapshots \cup {Same}
  BY MediaAssumption

(* Rewriting a row keeps it a row of the same owner.                       *)
LEMMA RewriteFacts ==
    ASSUME NEW row \in MediaRows, NEW body \in Changes
    PROVE  /\ Rewritten(row, body) \in MediaRows
           /\ Rewritten(row, body).owner = row.owner
           /\ Rewritten(row, body).live = row.live
<1>1. /\ Coalesce(body.role, row.role) \in MediaRoles
      /\ Coalesce(body.order, row.order) \in Int
      /\ Coalesce(body.snapshot, row.snapshot) \in Snapshots \cup {Same}
      /\ (IF body.snapshot = Same THEN row.resource ELSE Resource[body.snapshot])
             \in {Resource[s] : s \in Snapshots} \cup {0}
  BY BodyFacts DEF Coalesce, MediaRows
<1> QED
  BY <1>1 DEF Rewritten, MediaRows

(* The work an editor starts or continues.                                 *)
LEMMA DoFacts ==
    ASSUME OwnerTypeOK, NEW e \in Editors, NEW work \in Works, Do(e, work)
    PROVE  /\ doing' \in [Editors -> Works] /\ doing'[e] = work
           /\ doing[e].step = "rest"
           /\ \A d \in Editors \ {e} : doing'[d] = doing[d]
  BY DEF Do, OwnerTypeOK, Resting

(* Ending a transaction changes nobody else's.                             *)
LEMMA RestFacts ==
    ASSUME OwnerTypeOK, NEW e \in Editors, Rest(e)
    PROVE  /\ doing' \in [Editors -> Works] /\ doing'[e] = Resting
           /\ doing'[e].step = "rest"
           /\ \A d \in Editors \ {e} : doing'[d] = doing[d]
  BY DEF Rest, OwnerTypeOK, Works, Resting

(* The count of delete_category, when it finds no product.                 *)
LEMMA CountFacts ==
    ASSUME OwnerTypeOK, NEW e \in Editors, doing[e].step = "locked",
           doing' = [doing EXCEPT ![e].step = "counted"]
    PROVE  /\ doing' \in [Editors -> Works] /\ doing'[e].step = "counted"
           /\ doing'[e].category = doing[e].category
           /\ \A d \in Editors \ {e} : doing'[d] = doing[d]
<1>1. doing[e] \in [step : {"locked", "counted"}, category : Categories]
  BY DEF OwnerTypeOK, Works, Resting
<1>2. /\ [doing[e] EXCEPT !.step = "counted"] \in Works
      /\ [doing[e] EXCEPT !.step = "counted"].step = "counted"
      /\ [doing[e] EXCEPT !.step = "counted"].category = doing[e].category
  BY <1>1 DEF Works
<1>3. doing \in [Editors -> Works]
  BY DEF OwnerTypeOK
<1> QED
  BY <1>2, <1>3

(* Every step keeps the types.                                             *)
LEMMA OwnerTypeStep ==
    ASSUME OwnerTypeOK, [OwnerNext]_ownerVars
    PROVE  OwnerTypeOK'
<1>0. CASE UNCHANGED ownerVars
  BY <1>0 DEF ownerVars, OwnerTypeOK
<1>1. ASSUME NEW p \in Products, NEW k \in Categories, CreateSpu(p, k) \/ MoveSpu(p, k)
      PROVE  OwnerTypeOK'
  BY <1>1 DEF CreateSpu, MoveSpu, OwnerTypeOK
<1>2. ASSUME NEW p \in Products, DeleteSpu(p) PROVE OwnerTypeOK'
  BY <1>2 DEF DeleteSpu, OwnerTypeOK
<1>3. ASSUME NEW i \in MediaIds, DeleteMedia(i) PROVE OwnerTypeOK'
  <2>1. [media[i] EXCEPT !.live = FALSE] \in MediaRows
    BY DEF OwnerTypeOK, MediaRows
  <2> QED
    BY <1>3, <2>1 DEF DeleteMedia, OwnerTypeOK
<1>4. ASSUME NEW e \in Editors, NEW k \in Categories, LockCategory(e, k)
      PROVE  OwnerTypeOK'
  <2>1. [step |-> "locked", category |-> k] \in Works
    BY DEF Works
  <2> QED
    BY <1>4, <2>1, DoFacts DEF LockCategory, OwnerTypeOK
<1>5. ASSUME NEW e \in Editors, CountProducts(e) PROVE OwnerTypeOK'
  <2>1. doing[e].category \in Categories
    BY <1>5, WorkFacts DEF CountProducts
  <2>2. categoryLock' \in [Categories -> Editors \cup {NoEditor}]
    BY <1>5, <2>1 DEF CountProducts, ReleaseCategory, OwnerTypeOK
  <2> QED
    BY <1>5, <2>2, RestFacts, CountFacts DEF CountProducts, OwnerTypeOK
<1>6. ASSUME NEW e \in Editors, RetireCategory(e) PROVE OwnerTypeOK'
  <2>1. doing[e].category \in Categories
    BY <1>6, WorkFacts DEF RetireCategory
  <2> QED
    BY <1>6, <2>1, RestFacts DEF RetireCategory, ReleaseCategory, OwnerTypeOK
<1>7. ASSUME NEW e \in Editors, NEW body \in Attachments, VerifyOwner(e, body)
      PROVE  OwnerTypeOK'
  <2>1. [step |-> "verified", body |-> body] \in Works
    BY DEF Works
  <2> QED
    BY <1>7, <2>1, DoFacts DEF VerifyOwner, OwnerTypeOK
<1>8. ASSUME NEW e \in Editors, InsertMedia(e) PROVE OwnerTypeOK'
  <2> DEFINE body == doing[e].body
             row == [live |-> TRUE, owner |-> body.owner, role |-> body.role,
                     order |-> body.order, snapshot |-> body.snapshot,
                     resource |-> Resource[body.snapshot]]
  <2>1. body \in Attachments
    BY <1>8, WorkFacts DEF InsertMedia
  <2>2. row \in MediaRows
    BY <2>1, BodyFacts DEF MediaRows
  <2>3. media' = media \/ (\E i \in MediaIds : media' = [media EXCEPT ![i] = row])
    BY <1>8 DEF InsertMedia
  <2> QED
    BY <1>8, <2>2, <2>3, RestFacts DEF InsertMedia, OwnerTypeOK
<1>9. ASSUME NEW e \in Editors, NEW i \in MediaIds, NEW body \in Changes,
             LockMedia(e, i, body)
      PROVE  OwnerTypeOK'
  <2>1. [step |-> "rewriting", id |-> i, body |-> body] \in Works
    BY DEF Works
  <2> QED
    BY <1>9, <2>1, DoFacts DEF LockMedia, OwnerTypeOK
<1>10. ASSUME NEW e \in Editors, UpdateMedia(e) PROVE OwnerTypeOK'
  <2> DEFINE i == doing[e].id
             row == Rewritten(media[i], doing[e].body)
  <2>1. i \in MediaIds /\ doing[e].body \in Changes
    BY <1>10, WorkFacts DEF UpdateMedia
  <2>2. row \in MediaRows
    BY <2>1, RewriteFacts DEF OwnerTypeOK
  <2>3. media' = media \/ media' = [media EXCEPT ![i] = row]
    BY <1>10 DEF UpdateMedia
  <2> QED
    BY <1>10, <2>1, <2>2, <2>3, RestFacts DEF UpdateMedia, OwnerTypeOK
<1>11. ASSUME NEW e \in Editors, Refuse(e) PROVE OwnerTypeOK'
  BY <1>11, RestFacts DEF Refuse, OwnerTypeOK
<1> QED
  BY <1>0, <1>1, <1>2, <1>3, <1>4, <1>5, <1>6, <1>7, <1>8, <1>9, <1>10, <1>11
     DEF OwnerNext

-------------------------------------------------------------------------------
(* The row locks.                                                          *)

(* A lock passes only between nobody and the editor whose step it is.      *)
LEMMA LocksOwnedStep ==
    ASSUME OwnerTypeOK, LocksOwned, [OwnerNext]_ownerVars
    PROVE  LocksOwned'
<1>0. CASE UNCHANGED ownerVars
  BY <1>0 DEF ownerVars, LocksOwned
<1>1. ASSUME NEW p \in Products, NEW k \in Categories, CreateSpu(p, k) \/ MoveSpu(p, k)
      PROVE  LocksOwned'
  BY <1>1 DEF CreateSpu, MoveSpu, LocksOwned
<1>2. ASSUME NEW p \in Products, DeleteSpu(p) PROVE LocksOwned'
  BY <1>2 DEF DeleteSpu, LocksOwned
<1>3. ASSUME NEW i \in MediaIds, DeleteMedia(i) PROVE LocksOwned'
  BY <1>3 DEF DeleteMedia, LocksOwned
<1>4. ASSUME NEW e \in Editors, NEW k \in Categories, LockCategory(e, k)
      PROVE  LocksOwned'
  <2>1. [step |-> "locked", category |-> k] \in Works
    BY DEF Works
  <2>2. /\ doing'[e] = [step |-> "locked", category |-> k] /\ doing[e].step = "rest"
        /\ \A d \in Editors \ {e} : doing'[d] = doing[d]
    BY <1>4, <2>1, DoFacts DEF LockCategory
  <2>3. /\ categoryLock' = [categoryLock EXCEPT ![k] = e] /\ mediaLock' = mediaLock
        /\ categoryLock[k] = NoEditor
    BY <1>4 DEF LockCategory
  <2> QED
    BY <2>2, <2>3, MediaAssumption DEF LocksOwned, OwnerTypeOK
<1>5. ASSUME NEW e \in Editors, CountProducts(e) PROVE LocksOwned'
  <2>1. /\ doing[e].category \in Categories /\ doing[e].step = "locked"
        /\ mediaLock' = mediaLock
    BY <1>5, WorkFacts DEF CountProducts
  <2>2. CASE doing' = [doing EXCEPT ![e].step = "counted"] /\ UNCHANGED categoryLock
    BY <2>1, <2>2, CountFacts DEF LocksOwned
  <2>3. CASE Rest(e) /\ ReleaseCategory(e)
    BY <2>1, <2>3, RestFacts, MediaAssumption DEF LocksOwned, ReleaseCategory, OwnerTypeOK
  <2> QED
    BY <1>5, <2>2, <2>3 DEF CountProducts
<1>6. ASSUME NEW e \in Editors, RetireCategory(e) PROVE LocksOwned'
  <2>1. /\ doing[e].category \in Categories /\ doing[e].step = "counted"
        /\ mediaLock' = mediaLock /\ Rest(e) /\ ReleaseCategory(e)
    BY <1>6, WorkFacts DEF RetireCategory
  <2> QED
    BY <2>1, RestFacts, MediaAssumption DEF LocksOwned, ReleaseCategory, OwnerTypeOK
<1>7. ASSUME NEW e \in Editors, NEW body \in Attachments, VerifyOwner(e, body)
      PROVE  LocksOwned'
  <2>1. [step |-> "verified", body |-> body] \in Works
    BY DEF Works
  <2> QED
    BY <1>7, <2>1, DoFacts DEF VerifyOwner, LocksOwned
<1>8. ASSUME NEW e \in Editors, InsertMedia(e) PROVE LocksOwned'
  BY <1>8, RestFacts DEF InsertMedia, LocksOwned
<1>9. ASSUME NEW e \in Editors, NEW i \in MediaIds, NEW body \in Changes,
             LockMedia(e, i, body)
      PROVE  LocksOwned'
  <2>1. [step |-> "rewriting", id |-> i, body |-> body] \in Works
    BY DEF Works
  <2>2. /\ doing'[e] = [step |-> "rewriting", id |-> i, body |-> body]
        /\ doing[e].step = "rest"
        /\ \A d \in Editors \ {e} : doing'[d] = doing[d]
    BY <1>9, <2>1, DoFacts DEF LockMedia
  <2>3. /\ mediaLock' = [mediaLock EXCEPT ![i] = e] /\ categoryLock' = categoryLock
        /\ mediaLock[i] = NoEditor
    BY <1>9 DEF LockMedia
  <2> QED
    BY <2>2, <2>3, MediaAssumption DEF LocksOwned, OwnerTypeOK
<1>10. ASSUME NEW e \in Editors, UpdateMedia(e) PROVE LocksOwned'
  <2>1. /\ doing[e].id \in MediaIds /\ doing[e].step = "rewriting" /\ Rest(e)
        /\ mediaLock' = [mediaLock EXCEPT ![doing[e].id] = NoEditor]
        /\ categoryLock' = categoryLock
    BY <1>10, WorkFacts DEF UpdateMedia
  <2> QED
    BY <2>1, RestFacts, MediaAssumption DEF LocksOwned, OwnerTypeOK
<1>11. ASSUME NEW e \in Editors, Refuse(e) PROVE LocksOwned'
  BY <1>11, RestFacts, MediaAssumption DEF Refuse, LocksOwned, OwnerTypeOK
<1> QED
  BY <1>0, <1>1, <1>2, <1>3, <1>4, <1>5, <1>6, <1>7, <1>8, <1>9, <1>10, <1>11
     DEF OwnerNext

-------------------------------------------------------------------------------
(* The count of delete_category.                                           *)

(* The products of a category, when a step leaves products alone.          *)
LEMMA ProductsKept ==
    ASSUME UNCHANGED <<product, home>>, NEW k
    PROVE  LiveProductsIn(k)' = LiveProductsIn(k)
  BY DEF LiveProductsIn

(* While a counted category is locked no live product gets into it: the    *)
(* foreign keys of create_spu and update_spu wait for the lock.            *)
LEMMA CountStep ==
    ASSUME OwnerTypeOK, LocksOwned, CountStands, [OwnerNext]_ownerVars
    PROVE  CountStands'
<1>0. CASE UNCHANGED ownerVars
  BY <1>0 DEF ownerVars, CountStands, LiveProductsIn
<1>1. ASSUME NEW p \in Products, NEW k \in Categories, CreateSpu(p, k) \/ MoveSpu(p, k)
      PROVE  CountStands'
  <2>1. /\ doing' = doing /\ home' = [home EXCEPT ![p] = k]
        /\ \A q \in Products \ {p} : product'[q] = product[q]
        /\ categoryLock[k] = NoEditor
    BY <1>1 DEF CreateSpu, MoveSpu, KeyShareGranted, OwnerTypeOK
  <2>2. ASSUME NEW e \in Editors, doing[e].step = "counted"
        PROVE  LiveProductsIn(doing[e].category)' \subseteq
                   LiveProductsIn(doing[e].category)
    <3>1. doing[e].category \in Categories /\ categoryLock[doing[e].category] = e
      BY <2>2, WorkFacts DEF LocksOwned
    <3>2. doing[e].category # k
      BY <2>1, <3>1, MediaAssumption
    <3> QED
      BY <2>1, <3>2 DEF LiveProductsIn, OwnerTypeOK
  <2> QED
    BY <2>1, <2>2 DEF CountStands
<1>2. ASSUME NEW p \in Products, DeleteSpu(p) PROVE CountStands'
  <2>1. \A k : LiveProductsIn(k)' \subseteq LiveProductsIn(k)
    BY <1>2 DEF DeleteSpu, LiveProductsIn, OwnerTypeOK
  <2> QED
    BY <1>2, <2>1 DEF DeleteSpu, CountStands
<1>3. ASSUME NEW i \in MediaIds, DeleteMedia(i) PROVE CountStands'
  BY <1>3, ProductsKept DEF DeleteMedia, CountStands
<1>4. ASSUME NEW e \in Editors, NEW k \in Categories, LockCategory(e, k)
      PROVE  CountStands'
  <2>1. [step |-> "locked", category |-> k] \in Works
    BY DEF Works
  <2> QED
    BY <1>4, <2>1, DoFacts, ProductsKept DEF LockCategory, CountStands
<1>5. ASSUME NEW e \in Editors, CountProducts(e) PROVE CountStands'
  <2>1. CASE /\ LiveProductsIn(doing[e].category) = {}
             /\ doing' = [doing EXCEPT ![e].step = "counted"]
    BY <1>5, <2>1, CountFacts, ProductsKept DEF CountProducts, CountStands
  <2>2. CASE Rest(e)
    BY <1>5, <2>2, RestFacts, ProductsKept DEF CountProducts, CountStands
  <2> QED
    BY <1>5, <2>1, <2>2 DEF CountProducts
<1>6. ASSUME NEW e \in Editors, RetireCategory(e) PROVE CountStands'
  BY <1>6, RestFacts, ProductsKept DEF RetireCategory, CountStands
<1>7. ASSUME NEW e \in Editors, NEW body \in Attachments, VerifyOwner(e, body)
      PROVE  CountStands'
  <2>1. [step |-> "verified", body |-> body] \in Works
    BY DEF Works
  <2> QED
    BY <1>7, <2>1, DoFacts, ProductsKept DEF VerifyOwner, CountStands
<1>8. ASSUME NEW e \in Editors, InsertMedia(e) PROVE CountStands'
  BY <1>8, RestFacts, ProductsKept DEF InsertMedia, CountStands
<1>9. ASSUME NEW e \in Editors, NEW i \in MediaIds, NEW body \in Changes,
             LockMedia(e, i, body)
      PROVE  CountStands'
  <2>1. [step |-> "rewriting", id |-> i, body |-> body] \in Works
    BY DEF Works
  <2> QED
    BY <1>9, <2>1, DoFacts, ProductsKept DEF LockMedia, CountStands
<1>10. ASSUME NEW e \in Editors, UpdateMedia(e) PROVE CountStands'
  BY <1>10, RestFacts, ProductsKept DEF UpdateMedia, CountStands
<1>11. ASSUME NEW e \in Editors, Refuse(e) PROVE CountStands'
  BY <1>11, RestFacts, ProductsKept DEF Refuse, CountStands
<1> QED
  BY <1>0, <1>1, <1>2, <1>3, <1>4, <1>5, <1>6, <1>7, <1>8, <1>9, <1>10, <1>11
     DEF OwnerNext

-------------------------------------------------------------------------------
(* The media rows.                                                         *)

(* A row under FOR UPDATE is its holder's to change.                       *)
LEMMA LockedRowKept ==
    ASSUME OwnerTypeOK, LocksOwned, BodiesAdmitted, [OwnerNext]_ownerVars,
           NEW e \in Editors, doing[e].step = "rewriting", doing'[e] = doing[e]
    PROVE  media'[doing[e].id] = media[doing[e].id]
<1> DEFINE n == doing[e].id
<1>1. n \in MediaIds /\ mediaLock[n] = e /\ media[n].live /\ e # NoEditor
  BY WorkFacts, MediaAssumption DEF LocksOwned, BodiesAdmitted
<1>2. CASE UNCHANGED media
  BY <1>2
<1>3. ASSUME NEW i \in MediaIds, DeleteMedia(i) PROVE media'[n] = media[n]
  BY <1>1, <1>3 DEF DeleteMedia, OwnerTypeOK
<1>4. ASSUME NEW d \in Editors, InsertMedia(d) PROVE media'[n] = media[n]
  <2>1. media[n] # NotWritten
    BY <1>1 DEF NotWritten
  <2> QED
    BY <1>1, <1>4, <2>1 DEF InsertMedia, OwnerTypeOK
<1>5. ASSUME NEW d \in Editors, UpdateMedia(d) PROVE media'[n] = media[n]
  <2>1. doing[d].id \in MediaIds /\ mediaLock[doing[d].id] = d
    BY <1>5, WorkFacts DEF UpdateMedia, LocksOwned
  <2>2. d # e
    BY <1>5, RestFacts DEF UpdateMedia
  <2> QED
    BY <1>1, <1>5, <2>1, <2>2 DEF UpdateMedia, OwnerTypeOK
<1> QED
  BY <1>2, <1>3, <1>4, <1>5
     DEF OwnerNext, ownerVars, CreateSpu, MoveSpu, DeleteSpu, LockCategory,
         CountProducts, RetireCategory, VerifyOwner, LockMedia, Refuse

(* Who begins a create_media or an update_media, and with what.            *)
LEMMA NewWork ==
    ASSUME OwnerTypeOK, [OwnerNext]_ownerVars, NEW e \in Editors,
           doing'[e] # doing[e], doing'[e].step \in {"verified", "rewriting"}
    PROVE  /\ UNCHANGED media
           /\ \/ \E body \in Attachments :
                     VerifyOwner(e, body)
                     /\ doing'[e] = [step |-> "verified", body |-> body]
              \/ \E i \in MediaIds, body \in Changes :
                     LockMedia(e, i, body)
                     /\ doing'[e] = [step |-> "rewriting", id |-> i, body |-> body]
<1>1. ASSUME NEW d \in Editors, Rest(d) PROVE FALSE
  BY <1>1, RestFacts
<1>2. ASSUME NEW d \in Editors, NEW k \in Categories, LockCategory(d, k) PROVE FALSE
  <2>1. [step |-> "locked", category |-> k] \in Works
    BY DEF Works
  <2> QED
    BY <1>2, <2>1, DoFacts DEF LockCategory
<1>3. ASSUME NEW d \in Editors, CountProducts(d) PROVE FALSE
  BY <1>1, <1>3, CountFacts DEF CountProducts
<1>4. ASSUME NEW d \in Editors, NEW body \in Attachments, VerifyOwner(d, body)
      PROVE  e = d /\ UNCHANGED media
             /\ doing'[e] = [step |-> "verified", body |-> body]
  <2>1. [step |-> "verified", body |-> body] \in Works
    BY DEF Works
  <2> QED
    BY <1>4, <2>1, DoFacts DEF VerifyOwner
<1>5. ASSUME NEW d \in Editors, NEW i \in MediaIds, NEW body \in Changes,
             LockMedia(d, i, body)
      PROVE  e = d /\ UNCHANGED media
             /\ doing'[e] = [step |-> "rewriting", id |-> i, body |-> body]
  <2>1. [step |-> "rewriting", id |-> i, body |-> body] \in Works
    BY DEF Works
  <2> QED
    BY <1>5, <2>1, DoFacts DEF LockMedia
<1>6. \/ \E d \in Editors, body \in Attachments : VerifyOwner(d, body)
      \/ \E d \in Editors, i \in MediaIds, body \in Changes : LockMedia(d, i, body)
  BY <1>1, <1>2, <1>3
     DEF OwnerNext, ownerVars, CreateSpu, MoveSpu, DeleteSpu, DeleteMedia,
         RetireCategory, InsertMedia, UpdateMedia, Refuse
<1>7. CASE \E d \in Editors, body \in Attachments : VerifyOwner(d, body)
  <2>1. PICK d \in Editors, body \in Attachments : VerifyOwner(d, body)
    BY <1>7
  <2>2. e = d /\ UNCHANGED media /\ doing'[e] = [step |-> "verified", body |-> body]
    BY <1>4, <2>1
  <2> QED
    BY <2>1, <2>2
<1>8. CASE \E d \in Editors, i \in MediaIds, body \in Changes : LockMedia(d, i, body)
  <2>1. PICK d \in Editors, i \in MediaIds, body \in Changes : LockMedia(d, i, body)
    BY <1>8
  <2>2. /\ e = d /\ UNCHANGED media
        /\ doing'[e] = [step |-> "rewriting", id |-> i, body |-> body]
    BY <1>5, <2>1
  <2> QED
    BY <2>1, <2>2
<1> QED
  BY <1>6, <1>7, <1>8

(* What BodiesAdmitted says of an editor's work w over the rows m.         *)
Sound(w, m) ==
    /\ w.step = "verified" =>
           /\ w.body.order >= 0 /\ AdmitsRole(w.body.owner, w.body.role)
           /\ Resource[w.body.snapshot] # 0
    /\ w.step = "rewriting" =>
           /\ m[w.id].live
           /\ w.body.order # Same => w.body.order >= 0
           /\ w.body.role # Same => AdmitsRole(m[w.id].owner, w.body.role)
           /\ w.body.snapshot # Same => Resource[w.body.snapshot] # 0

(* A checked body stays admitted: its row changes only under its own lock. *)
LEMMA BodiesStep ==
    ASSUME OwnerTypeOK, LocksOwned, BodiesAdmitted, [OwnerNext]_ownerVars
    PROVE  BodiesAdmitted'
<1>1. SUFFICES ASSUME NEW e \in Editors PROVE Sound(doing'[e], media')
  BY DEF BodiesAdmitted, Sound, AdmitsRole
<1>2. Sound(doing[e], media)
  BY DEF BodiesAdmitted, Sound
<1>3. CASE doing'[e].step \notin {"verified", "rewriting"}
  BY <1>3 DEF Sound
<1>4. CASE doing'[e] = doing[e] /\ doing[e].step = "verified"
  BY <1>2, <1>4 DEF Sound
<1>5. CASE doing'[e] = doing[e] /\ doing[e].step = "rewriting"
  <2>1. media'[doing[e].id] = media[doing[e].id]
    BY <1>5, LockedRowKept
  <2> QED
    BY <1>2, <1>5, <2>1 DEF Sound
<1>6. CASE doing'[e] # doing[e] /\ doing'[e].step \in {"verified", "rewriting"}
  <2>1. UNCHANGED media
    BY <1>6, NewWork
  <2>2. ASSUME NEW body \in Attachments, VerifyOwner(e, body),
               doing'[e] = [step |-> "verified", body |-> body]
        PROVE  Sound(doing'[e], media')
    BY <2>2 DEF VerifyOwner, Sound
  <2>3. ASSUME NEW i \in MediaIds, NEW body \in Changes, LockMedia(e, i, body),
               doing'[e] = [step |-> "rewriting", id |-> i, body |-> body]
        PROVE  Sound(doing'[e], media')
    BY <2>1, <2>3 DEF LockMedia, Sound
  <2> QED
    BY <1>6, <2>2, <2>3, NewWork
<1> QED
  BY <1>3, <1>4, <1>5, <1>6

-------------------------------------------------------------------------------
(* The media rows.                                                         *)

(* A written media row fits its owner's slots, and the others keep theirs. *)
LEMMA SlotsStep ==
    ASSUME OwnerTypeOK, BodiesAdmitted, MediaRowsConsistent, [OwnerNext]_ownerVars
    PROVE  MediaRowsConsistent'
<1>0. CASE UNCHANGED media
  BY <1>0 DEF MediaRowsConsistent, SlotIsFree, LiveMediaOf
<1>1. ASSUME NEW n \in MediaIds, NEW row \in MediaRows, media' = [media EXCEPT ![n] = row],
             row.live =>
                 /\ SlotIsFree(n, row)
                 /\ AdmitsRole(row.owner, row.role) /\ row.resource = Resource[row.snapshot]
                 /\ row.resource # 0 /\ row.order >= 0
      PROVE  MediaRowsConsistent'
  <2>1. media'[n] = row /\ \A i \in MediaIds \ {n} : media'[i] = media[i]
    BY <1>1 DEF OwnerTypeOK
  <2>2. ASSUME NEW i \in MediaIds, media'[i].live PROVE SlotIsFree(i, media[i])'
    <3>1. SUFFICES ASSUME NEW j \in MediaIds, j # i, media'[j].live,
                          media'[j].owner = media'[i].owner,
                          media'[j].role = media'[i].role
                   PROVE  /\ media'[i].role # "main_image"
                          /\ media'[j].order # media'[i].order
      BY DEF SlotIsFree, LiveMediaOf
    <3>2. CASE i = n
      BY <1>1, <2>1, <2>2, <3>1, <3>2 DEF SlotIsFree, LiveMediaOf
    <3>3. CASE i # n /\ j = n
      BY <1>1, <2>1, <2>2, <3>1, <3>3 DEF SlotIsFree, LiveMediaOf
    <3>4. CASE i # n /\ j # n
      BY <2>1, <2>2, <3>1, <3>4 DEF MediaRowsConsistent, SlotIsFree, LiveMediaOf
    <3> QED
      BY <3>2, <3>3, <3>4
  <2> QED
    BY <1>1, <2>1, <2>2 DEF MediaRowsConsistent, AdmitsRole
<1>2. ASSUME NEW i \in MediaIds, DeleteMedia(i) PROVE MediaRowsConsistent'
  <2>1. [media[i] EXCEPT !.live = FALSE] \in MediaRows
        /\ ~[media[i] EXCEPT !.live = FALSE].live
    BY DEF OwnerTypeOK, MediaRows
  <2>2. media' = [media EXCEPT ![i] = [media[i] EXCEPT !.live = FALSE]]
    BY <1>2 DEF DeleteMedia
  <2> QED
    BY <1>1, <2>1, <2>2
<1>3. ASSUME NEW e \in Editors, InsertMedia(e) PROVE MediaRowsConsistent'
  <2> DEFINE body == doing[e].body
             row == [live |-> TRUE, owner |-> body.owner, role |-> body.role,
                     order |-> body.order, snapshot |-> body.snapshot,
                     resource |-> Resource[body.snapshot]]
  <2>1. body \in Attachments /\ body.order >= 0 /\ AdmitsRole(body.owner, body.role)
        /\ Resource[body.snapshot] # 0
    BY <1>3, WorkFacts DEF InsertMedia, BodiesAdmitted
  <2>2. row \in MediaRows
    BY <2>1, BodyFacts DEF MediaRows
  <2>3. SUFFICES ASSUME NEW n \in MediaIds, media' = [media EXCEPT ![n] = row],
                        SlotIsFree(0, row)
                 PROVE  MediaRowsConsistent'
    BY <1>0, <1>3 DEF InsertMedia
  <2>4. SlotIsFree(n, row)
    BY <2>3 DEF SlotIsFree, MediaIds, LiveMediaOf
  <2>5. /\ AdmitsRole(row.owner, row.role) /\ row.resource = Resource[row.snapshot]
        /\ row.resource # 0 /\ row.order >= 0
    BY <2>1
  <2> QED
    BY <1>1, <2>2, <2>3, <2>4, <2>5
<1>4. ASSUME NEW e \in Editors, UpdateMedia(e) PROVE MediaRowsConsistent'
  <2> DEFINE n == doing[e].id
             body == doing[e].body
             row == Rewritten(media[n], body)
  <2>1. /\ n \in MediaIds /\ body \in Changes /\ media[n] \in MediaRows
        /\ media[n].live
        /\ body.order # Same => body.order >= 0
        /\ body.role # Same => AdmitsRole(media[n].owner, body.role)
        /\ body.snapshot # Same => Resource[body.snapshot] # 0
    BY <1>4, WorkFacts DEF UpdateMedia, BodiesAdmitted, OwnerTypeOK
  <2>2. /\ AdmitsRole(media[n].owner, media[n].role)
        /\ media[n].resource = Resource[media[n].snapshot]
        /\ media[n].resource # 0 /\ media[n].order >= 0
    BY <2>1 DEF MediaRowsConsistent
  <2>3. row \in MediaRows /\ row.owner = media[n].owner
    BY <2>1, RewriteFacts
  <2>4. /\ row.role = Coalesce(body.role, media[n].role)
        /\ row.order = Coalesce(body.order, media[n].order)
        /\ row.snapshot = Coalesce(body.snapshot, media[n].snapshot)
        /\ row.resource = IF body.snapshot = Same THEN media[n].resource
                          ELSE Resource[body.snapshot]
    BY <2>1 DEF Rewritten, MediaRows
  <2>5. /\ AdmitsRole(row.owner, row.role) /\ row.resource = Resource[row.snapshot]
        /\ row.resource # 0 /\ row.order >= 0
    BY <2>1, <2>2, <2>3, <2>4 DEF Coalesce
  <2>6. media' = media \/ (media' = [media EXCEPT ![n] = row] /\ SlotIsFree(n, row))
    BY <1>4 DEF UpdateMedia
  <2> QED
    BY <1>0, <1>1, <2>1, <2>3, <2>5, <2>6
<1> QED
  BY <1>0, <1>2, <1>3, <1>4
     DEF OwnerNext, ownerVars, CreateSpu, MoveSpu, DeleteSpu, LockCategory,
         CountProducts, RetireCategory, VerifyOwner, LockMedia, Refuse

-------------------------------------------------------------------------------
(* The theorems.                                                           *)

(* Nothing is locked, under way or attached initially.                     *)
LEMMA OwnerInitially == OwnerInit => ReferencesIInv
<1> SUFFICES ASSUME OwnerInit PROVE ReferencesIInv
  OBVIOUS
<1>1. /\ \A e \in Editors : doing[e] = Resting /\ doing[e].step = "rest"
      /\ \A i \in MediaIds : ~media[i].live
  BY DEF OwnerInit, Resting, NotWritten
<1>2. OwnerTypeOK
  <2>1. Resting \in Works /\ NotWritten \in MediaRows
    BY DEF Works, NotWritten, MediaRows, MediaRoles
  <2> QED
    BY <2>1 DEF OwnerInit, OwnerTypeOK
<1>3. LocksOwned
  BY <1>1, MediaAssumption DEF OwnerInit, LocksOwned
<1> QED
  BY <1>1, <1>2, <1>3
     DEF ReferencesIInv, CountStands, BodiesAdmitted, MediaRowsConsistent

(* The inductive invariant: locks belong to the transactions that need     *)
(* them, counted categories stay empty, checked bodies stay admissible,    *)
(* and the live media of an owner are consistent.                          *)
THEOREM ReferencesInvariance == OwnerSpec => []ReferencesIInv
<1>1. ReferencesIInv /\ [OwnerNext]_ownerVars => ReferencesIInv'
  BY OwnerTypeStep, LocksOwnedStep, CountStep, BodiesStep, SlotsStep
     DEF ReferencesIInv
<1> QED
  BY <1>1, OwnerInitially, PTL DEF OwnerSpec

(* delete_category retires a category only while no live product is in it. *)
THEOREM CategoriesRetireEmpty == OwnerSpec => RetiredCategoryWasEmpty
<1>1. ASSUME ReferencesIInv, [OwnerNext]_ownerVars
      PROVE  [\A k \in Categories :
                  category[k] = "live" /\ category'[k] = "retired" =>
                      LiveProductsIn(k) = {}]_ownerVars
  <2>1. SUFFICES ASSUME NEW k \in Categories, category[k] = "live",
                        category'[k] = "retired"
                 PROVE  LiveProductsIn(k) = {}
    OBVIOUS
  <2>2. PICK e \in Editors : RetireCategory(e)
    BY <1>1, <2>1
       DEF OwnerNext, ownerVars, CreateSpu, MoveSpu, DeleteSpu, DeleteMedia,
           LockCategory, CountProducts, VerifyOwner, InsertMedia, LockMedia,
           UpdateMedia, Refuse
  <2>3. doing[e].step = "counted" /\ doing[e].category = k
    BY <1>1, <2>1, <2>2, WorkFacts DEF RetireCategory, ReferencesIInv, OwnerTypeOK
  <2> QED
    BY <1>1, <2>3 DEF ReferencesIInv, CountStands
<1> QED
  BY <1>1, ReferencesInvariance, PTL DEF OwnerSpec, RetiredCategoryWasEmpty

(* What a step may add to the live media of an owner.                      *)
LEMMA NewMedia ==
    ASSUME OwnerTypeOK, BodiesAdmitted, [OwnerNext]_ownerVars, NEW o \in Owners,
           ~(LiveMediaOf(o)' \subseteq LiveMediaOf(o))
    PROVE  \E e \in Editors : doing[e].step = "verified" /\ doing[e].body.owner = o
<1>1. PICK n \in MediaIds : /\ media'[n].live /\ media'[n].owner = o
                            /\ ~(media[n].live /\ media[n].owner = o)
  BY DEF LiveMediaOf
<1>2. ASSUME NEW i \in MediaIds, DeleteMedia(i) PROVE FALSE
  <2>1. media' = [media EXCEPT ![i] = [media[i] EXCEPT !.live = FALSE]]
    BY <1>2 DEF DeleteMedia
  <2>2. media[i] \in MediaRows /\ ~[media[i] EXCEPT !.live = FALSE].live
    BY DEF OwnerTypeOK, MediaRows
  <2> QED
    BY <1>1, <2>1, <2>2 DEF OwnerTypeOK
<1>3. ASSUME NEW e \in Editors, UpdateMedia(e) PROVE FALSE
  <2>1. /\ doing[e].id \in MediaIds /\ doing[e].body \in Changes
        /\ media[doing[e].id] \in MediaRows
    BY <1>3, WorkFacts DEF UpdateMedia, OwnerTypeOK
  <2>2. LET row == Rewritten(media[doing[e].id], doing[e].body)
        IN  row.owner = media[doing[e].id].owner /\ row.live = media[doing[e].id].live
    BY <2>1, RewriteFacts
  <2> QED
    BY <1>1, <1>3, <2>1, <2>2 DEF UpdateMedia, OwnerTypeOK
<1>4. PICK e \in Editors : InsertMedia(e)
  BY <1>1, <1>2, <1>3
     DEF OwnerNext, ownerVars, CreateSpu, MoveSpu, DeleteSpu, LockCategory,
         CountProducts, RetireCategory, VerifyOwner, LockMedia, Refuse
<1>5. doing[e].body.owner = o
  BY <1>1, <1>4 DEF InsertMedia, OwnerTypeOK
<1> QED
  BY <1>4, <1>5 DEF InsertMedia

(* Once an owner is retired and the creations that saw it live are         *)
(* through, it stays retired and gains no media.                           *)
THEOREM RetiredOwnersGainNothing == OwnerSpec => RetiredOwnerIsClosed
<1>1. ASSUME ReferencesIInv, [OwnerNext]_ownerVars
      PROVE  [\A o \in Owners :
                  Closed(o) =>
                      Closed(o)' /\ LiveMediaOf(o)' \subseteq LiveMediaOf(o)]_ownerVars
  <2>1. SUFFICES ASSUME NEW o \in Owners, Closed(o)
                 PROVE  Closed(o)' /\ LiveMediaOf(o)' \subseteq LiveMediaOf(o)
    OBVIOUS
  <2>2. LiveMediaOf(o)' \subseteq LiveMediaOf(o)
    BY <1>1, <2>1, NewMedia DEF ReferencesIInv, Closed
  <2>3. /\ o \in Categories => category'[o] = "retired"
        /\ o \in Products => product'[o] = "retired"
    BY <1>1, <2>1
       DEF ReferencesIInv, OwnerTypeOK, Closed, OwnerNext, ownerVars, CreateSpu, MoveSpu,
           DeleteSpu, DeleteMedia, LockCategory, CountProducts, RetireCategory,
           VerifyOwner, InsertMedia, LockMedia, UpdateMedia, Refuse
  <2>4. ASSUME NEW e \in Editors, doing'[e].step = "verified"
        PROVE  doing'[e].body.owner # o
    <3>1. CASE doing'[e] = doing[e]
      BY <2>1, <2>4, <3>1 DEF Closed
    <3>2. CASE doing'[e] # doing[e]
      <4>1. PICK body \in Attachments :
                VerifyOwner(e, body) /\ doing'[e] = [step |-> "verified", body |-> body]
        <5>1. \A i \in MediaIds, b \in Changes :
                  doing'[e] # [step |-> "rewriting", id |-> i, body |-> b]
          BY <2>4
        <5>2. OwnerTypeOK
          BY <1>1 DEF ReferencesIInv
        <5>3. doing'[e].step \in {"verified", "rewriting"}
          BY <2>4
        <5> QED
          BY <1>1, <3>2, <5>1, <5>2, <5>3, NewWork
      <4>2. IsLive(body.owner)
        BY <4>1 DEF VerifyOwner, OwnerVerified
      <4>3. ~IsLive(o)
        BY <2>1 DEF Closed, IsLive, Owners
      <4> QED
        BY <4>1, <4>2, <4>3
    <3> QED
      BY <3>1, <3>2
  <2> QED
    BY <2>1, <2>2, <2>3, <2>4 DEF Closed
<1> QED
  BY <1>1, ReferencesInvariance, PTL DEF OwnerSpec, RetiredOwnerIsClosed

-------------------------------------------------------------------------------
(* The dictionary, the templates and the price lists.                      *)


BindingRows == [live : BOOLEAN, template : Templates, attribute : AttributeNos,
                role : Roles, source : Templates \cup {Omitted},
                status : BindingStatuses]
ValueRows == [code : ValueCodes, order : Int]
Drafts == [no : AttributeNos \cup {Omitted}, values : Seq(ValueCodes),
           next : Nat \ {0}, rows : SUBSET ValueRows]

TemplatesTypeOK ==
    /\ dictionary \in [AttributeNos -> SUBSET ValueRows]
    /\ entered \subseteq AttributeNos
    /\ submission \in [AttributeNos -> Seq(ValueCodes)]
    /\ draft \in [Clerks -> Drafts]
    /\ bindings \in Seq(BindingRows)

(* Each of the first k values has a first occurrence among them.           *)
Covered(values, k) ==
    \A i \in 1..k : \E j \in FirstsOf(values, k) : values[j] = values[i]

(* An open creation has stored the first occurrences of what it has got    *)
(* through, and only one that has a number gets to its commit.             *)
DraftsFollow ==
    \A c \in Clerks :
        /\ draft[c].next <= Len(draft[c].values) + 1
        /\ draft[c].rows = RowsOf(draft[c].values, draft[c].next - 1)
        /\ Covered(draft[c].values, draft[c].next - 1)
        /\ draft[c].no = Omitted => draft[c] = NoDraft

(* What a binding names is in the dictionary.                              *)
BoundToEntered ==
    \A i \in DOMAIN bindings : bindings[i].attribute \in entered

PairsDiffer ==
    \A i, j \in DOMAIN bindings :
        /\ bindings[i].live /\ bindings[j].live
        /\ bindings[i].template = bindings[j].template
        /\ bindings[i].attribute = bindings[j].attribute
        => i = j

TemplatesIInv ==
    /\ TemplatesTypeOK /\ DraftsFollow /\ BoundToEntered /\ PairsDiffer
    /\ DictionaryIsWhole

-------------------------------------------------------------------------------
(* The rows of no values are none.                                         *)
LEMMA NoRows ==
    ASSUME NEW values PROVE RowsOf(values, 0) = {} /\ Covered(values, 0)
BY DEF RowsOf, FirstsOf, Covered

(* One more value is stored when it is the first of its kind, and only     *)
(* then: what ON CONFLICT DO NOTHING does, stated of the whole list.       *)
LEMMA OneMoreRow ==
    ASSUME NEW values \in Seq(ValueCodes), NEW k \in Nat, k + 1 <= Len(values),
           Covered(values, k)
    PROVE  /\ RowsOf(values, k + 1) = StoredFirst(RowsOf(values, k), values[k + 1], k)
           /\ Covered(values, k + 1)
<1>1. FirstsOf(values, k) \subseteq 1..k
    BY DEF FirstsOf
<1>2. CASE \E i \in 1..k : values[i] = values[k + 1]
    <2>1. FirstsOf(values, k + 1) = FirstsOf(values, k)
        BY <1>2 DEF FirstsOf
    <2>2. \E j \in FirstsOf(values, k) : values[j] = values[k + 1]
        BY <1>2 DEF Covered
    <2>3. \E r \in RowsOf(values, k) : r.code = values[k + 1]
        <3>1. PICK j \in FirstsOf(values, k) : values[j] = values[k + 1]
            BY <2>2
        <3>2. [code |-> values[j], order |-> j - 1] \in RowsOf(values, k)
            BY DEF RowsOf
        <3> QED BY <3>1, <3>2
    <2>4. RowsOf(values, k + 1) = StoredFirst(RowsOf(values, k), values[k + 1], k)
        BY <2>1, <2>3 DEF RowsOf, StoredFirst
    <2>5. Covered(values, k + 1)
        BY <2>1, <2>2 DEF Covered
    <2> QED BY <2>4, <2>5
<1>3. CASE \A i \in 1..k : values[i] # values[k + 1]
    <2>1. FirstsOf(values, k + 1) = FirstsOf(values, k) \cup {k + 1}
        BY <1>3 DEF FirstsOf
    <2>2. \A r \in RowsOf(values, k) : r.code # values[k + 1]
        BY <1>1, <1>3 DEF RowsOf
    <2>3. RowsOf(values, k + 1)
              = RowsOf(values, k) \cup {[code |-> values[k + 1], order |-> k]}
        BY <2>1 DEF RowsOf
    <2>4. Covered(values, k + 1)
        BY <2>1 DEF Covered
    <2> QED BY <2>2, <2>3, <2>4 DEF StoredFirst
<1> QED BY <1>2, <1>3

(* Rows are of the type of the column list.                                *)
LEMMA RowsTyped ==
    ASSUME NEW values \in Seq(ValueCodes), NEW k \in Nat, k <= Len(values)
    PROVE  RowsOf(values, k) \subseteq ValueRows
BY DEF RowsOf, FirstsOf, ValueRows

-------------------------------------------------------------------------------
(* An idle clerk has stored nothing.                                       *)
LEMMA EmptyDraft ==
    /\ NoDraft.next <= Len(NoDraft.values) + 1
    /\ NoDraft.rows = RowsOf(NoDraft.values, NoDraft.next - 1)
    /\ Covered(NoDraft.values, NoDraft.next - 1)
<1>1. NoDraft.next = 1 /\ NoDraft.values = <<>> /\ NoDraft.rows = {} /\ 1 - 1 = 0
    BY DEF NoDraft, Draft
<1>2. RowsOf(<<>>, 0) = {} /\ Covered(<<>>, 0)
    BY NoRows
<1>3. Len(<<>>) = 0
    OBVIOUS
<1> QED BY <1>1, <1>2, <1>3

(* The templates start empty.                                              *)
LEMMA TemplatesInitially == TemplatesInit => TemplatesIInv
<1> SUFFICES ASSUME TemplatesInit PROVE TemplatesIInv
    OBVIOUS
<1>1. TemplatesTypeOK
    BY DEF TemplatesInit, TemplatesTypeOK, NoDraft, Draft, Drafts
<1>2. DraftsFollow
    BY EmptyDraft DEF TemplatesInit, DraftsFollow
<1>3. BoundToEntered /\ PairsDiffer
    BY DEF TemplatesInit, BoundToEntered, PairsDiffer
<1>4. DictionaryIsWhole
    BY NoRows DEF TemplatesInit, DictionaryIsWhole
<1> QED BY <1>1, <1>2, <1>3, <1>4 DEF TemplatesIInv

(* The INSERT of an entry opens a draft with no rows.                      *)
LEMMA InsertAttributeStep ==
    ASSUME TemplatesIInv, NEW c \in Clerks, NEW n \in AttributeNos,
           NEW values \in ValueLists, InsertAttribute(c, n, values)
    PROVE  TemplatesIInv'
<1> DEFINE d == Draft(n, values, 1, {})
<1>1. values \in Seq(ValueCodes)
    BY TemplatesAssumption
<1>2. d = [no |-> n, values |-> values, next |-> 1, rows |-> {}]
    BY DEF Draft
<1>3. d \in Drafts
    BY <1>1, <1>2 DEF Drafts
<1>4. draft' = [draft EXCEPT ![c] = d]
    BY DEF InsertAttribute
<1> HIDE DEF d
<1>5. TemplatesTypeOK'
    BY <1>3, <1>4 DEF TemplatesIInv, TemplatesTypeOK, InsertAttribute
<1>6. DraftsFollow'
    <2>1. /\ d.next <= Len(d.values) + 1 /\ d.no # Omitted
          /\ d.rows = RowsOf(d.values, d.next - 1) /\ Covered(d.values, d.next - 1)
        <3>1. d.next - 1 = 0 /\ d.rows = {} /\ d.no = n /\ d.values = values
            BY <1>2
        <3>2. n # Omitted /\ 1 <= Len(values) + 1 /\ d.next = 1
            BY <1>1, <1>2, TemplatesAssumption
        <3> QED BY <3>1, <3>2, NoRows
    <2> QED BY <1>4, <2>1 DEF TemplatesIInv, TemplatesTypeOK, DraftsFollow
<1>7. (BoundToEntered /\ PairsDiffer /\ DictionaryIsWhole)'
    BY DEF TemplatesIInv, InsertAttribute, BoundToEntered, PairsDiffer, DictionaryIsWhole
<1> QED BY <1>5, <1>6, <1>7 DEF TemplatesIInv

(* The INSERT of one value.                                                *)
LEMMA InsertValueStep ==
    ASSUME TemplatesIInv, NEW c \in Clerks, InsertAttributeValue(c)
    PROVE  TemplatesIInv'
<1> DEFINE d == draft[c]
           rows == StoredFirst(d.rows, d.values[d.next], d.next - 1)
           e == Draft(d.no, d.values, d.next + 1, rows)
<1>1. d \in Drafts
    BY DEF TemplatesIInv, TemplatesTypeOK
<1>2. /\ d.next <= Len(d.values)
      /\ d.rows = RowsOf(d.values, d.next - 1) /\ Covered(d.values, d.next - 1)
      /\ d.no = Omitted => d = NoDraft
      /\ d # NoDraft
    BY DEF TemplatesIInv, DraftsFollow, InsertAttributeValue
<1>3. draft' = [draft EXCEPT ![c] = e]
    BY DEF InsertAttributeValue, TemplatesIInv, TemplatesTypeOK
<1>4. e = [no |-> d.no, values |-> d.values, next |-> d.next + 1, rows |-> rows]
    BY DEF Draft
<1>5. rows = RowsOf(d.values, d.next) /\ Covered(d.values, d.next)
    <2>1. d.values \in Seq(ValueCodes) /\ d.next - 1 \in Nat /\ d.next \in Nat
        BY <1>1 DEF Drafts
    <2>2. d.next - 1 + 1 = d.next
        BY <2>1
    <2> HIDE DEF d
    <2>3. /\ RowsOf(d.values, d.next - 1 + 1)
                = StoredFirst(RowsOf(d.values, d.next - 1), d.values[d.next - 1 + 1], d.next - 1)
          /\ Covered(d.values, d.next - 1 + 1)
        BY <2>1, <1>2, <2>2, OneMoreRow
    <2> QED BY <2>2, <2>3, <1>2
<1> HIDE DEF d, e, rows
<1>6. e \in Drafts
    BY <1>1, <1>2, <1>4, <1>5, RowsTyped DEF Drafts
<1>7. TemplatesTypeOK'
    BY <1>3, <1>6 DEF TemplatesIInv, TemplatesTypeOK, InsertAttributeValue
<1>8. e.next <= Len(e.values) + 1 /\ e.rows = RowsOf(e.values, e.next - 1)
      /\ Covered(e.values, e.next - 1) /\ e.no # Omitted
    BY <1>1, <1>2, <1>4, <1>5 DEF Drafts
<1>9. DraftsFollow'
    BY <1>3, <1>8 DEF TemplatesIInv, TemplatesTypeOK, DraftsFollow
<1>10. (BoundToEntered /\ PairsDiffer /\ DictionaryIsWhole)'
    BY DEF TemplatesIInv, InsertAttributeValue, BoundToEntered, PairsDiffer, DictionaryIsWhole
<1> QED BY <1>7, <1>9, <1>10 DEF TemplatesIInv

(* The commit publishes a draft that has got through all its values.       *)
LEMMA CommitAttributeStep ==
    ASSUME TemplatesIInv, NEW c \in Clerks, CommitAttribute(c)
    PROVE  TemplatesIInv'
<1> DEFINE d == draft[c]
<1>1. d \in Drafts /\ d.no # Omitted /\ d # NoDraft /\ d.next > Len(d.values)
    BY DEF TemplatesIInv, TemplatesTypeOK, DraftsFollow, CommitAttribute
<1>2. d.next - 1 = Len(d.values) /\ d.rows = RowsOf(d.values, Len(d.values))
    BY <1>1 DEF TemplatesIInv, DraftsFollow, Drafts
<1>3. /\ dictionary' = [dictionary EXCEPT ![d.no] = d.rows]
      /\ entered' = entered \cup {d.no}
      /\ submission' = [submission EXCEPT ![d.no] = d.values]
      /\ draft' = [draft EXCEPT ![c] = NoDraft]
      /\ bindings' = bindings
    BY DEF CommitAttribute
<1>4. NoDraft \in Drafts
    BY DEF NoDraft, Draft, Drafts
<1> HIDE DEF d
<1>5. TemplatesTypeOK'
    BY <1>1, <1>3, <1>4 DEF TemplatesIInv, TemplatesTypeOK, Drafts
<1>6. DraftsFollow'
    BY <1>3, EmptyDraft DEF TemplatesIInv, TemplatesTypeOK, DraftsFollow
<1>7. (BoundToEntered /\ PairsDiffer)'
    BY <1>3 DEF TemplatesIInv, BoundToEntered, PairsDiffer
<1>8. DictionaryIsWhole'
    BY <1>2, <1>3 DEF TemplatesIInv, TemplatesTypeOK, DictionaryIsWhole
<1> QED BY <1>5, <1>6, <1>7, <1>8 DEF TemplatesIInv

(* A rollback leaves nothing.                                              *)
LEMMA FailAttributeStep ==
    ASSUME TemplatesIInv, NEW c \in Clerks, FailAttribute(c)
    PROVE  TemplatesIInv'
<1>1. NoDraft \in Drafts
    BY DEF NoDraft, Draft, Drafts
<1>2. TemplatesTypeOK'
    BY <1>1 DEF TemplatesIInv, TemplatesTypeOK, FailAttribute
<1>3. DraftsFollow'
    BY EmptyDraft DEF TemplatesIInv, TemplatesTypeOK, DraftsFollow, FailAttribute
<1>4. (BoundToEntered /\ PairsDiffer /\ DictionaryIsWhole)'
    BY DEF TemplatesIInv, FailAttribute, BoundToEntered, PairsDiffer, DictionaryIsWhole
<1> QED BY <1>2, <1>3, <1>4 DEF TemplatesIInv

(* A new binding is of a pair that no live binding has.                    *)
LEMMA CreateBindingStep ==
    ASSUME TemplatesIInv, NEW t \in Templates, NEW n \in AttributeNos,
           NEW role \in Roles, NEW source \in Templates \cup {Omitted},
           CreateBinding(t, n, role, source)
    PROVE  TemplatesIInv'
<1> DEFINE b == [live |-> TRUE, template |-> t, attribute |-> n, role |-> role,
                 source |-> source, status |-> "active"]
<1>1. b \in BindingRows
    BY DEF BindingRows, BindingStatuses
<1>2. bindings \in Seq(BindingRows) /\ bindings' = Append(bindings, b)
    BY DEF TemplatesIInv, TemplatesTypeOK, CreateBinding
<1>3. /\ DOMAIN bindings' = 1..(Len(bindings) + 1)
      /\ DOMAIN bindings = 1..Len(bindings) /\ Len(bindings) \in Nat
      /\ \A i \in 1..Len(bindings) : bindings'[i] = bindings[i]
      /\ bindings'[Len(bindings) + 1] = b
    BY <1>1, <1>2
<1>4. \A i \in DOMAIN bindings :
          bindings[i].live => ~(bindings[i].template = t /\ bindings[i].attribute = n)
    BY DEF CreateBinding, Bound, LiveBindings
<1>5. b.live /\ b.template = t /\ b.attribute = n
    OBVIOUS
<1> HIDE DEF b
<1>6. TemplatesTypeOK'
    BY <1>1, <1>2 DEF TemplatesIInv, TemplatesTypeOK, CreateBinding
<1>7. BoundToEntered'
    BY <1>3, <1>5 DEF TemplatesIInv, BoundToEntered, CreateBinding
<1>8. PairsDiffer'
    <2> SUFFICES ASSUME NEW i \in DOMAIN bindings', NEW j \in DOMAIN bindings',
                        bindings'[i].live, bindings'[j].live,
                        bindings'[i].template = bindings'[j].template,
                        bindings'[i].attribute = bindings'[j].attribute
                 PROVE  i = j
        BY DEF PairsDiffer
    <2>1. CASE i \in DOMAIN bindings /\ j \in DOMAIN bindings
        BY <2>1, <1>3 DEF TemplatesIInv, PairsDiffer
    <2>2. CASE i \notin DOMAIN bindings \/ j \notin DOMAIN bindings
        BY <2>2, <1>3, <1>4, <1>5
    <2> QED BY <2>1, <2>2
<1>9. DraftsFollow' /\ DictionaryIsWhole'
    BY DEF TemplatesIInv, CreateBinding, DraftsFollow, DictionaryIsWhole
<1> QED BY <1>6, <1>7, <1>8, <1>9 DEF TemplatesIInv

(* A statement on one binding that keeps what it binds and revives nothing. *)
LEMMA RewriteBindingStep ==
    ASSUME TemplatesIInv, NEW i \in DOMAIN bindings, NEW b \in BindingRows,
           bindings' = [bindings EXCEPT ![i] = b], bindings[i].live,
           b.template = bindings[i].template, b.attribute = bindings[i].attribute,
           UNCHANGED <<dictionary, entered, submission, draft>>
    PROVE  TemplatesIInv'
<1>1. bindings \in Seq(BindingRows)
    BY DEF TemplatesIInv, TemplatesTypeOK
<1>2. bindings' \in Seq(BindingRows) /\ DOMAIN bindings' = DOMAIN bindings
    BY <1>1
<1>3. \A j \in DOMAIN bindings : bindings'[j] = IF j = i THEN b ELSE bindings[j]
    BY <1>1
<1>4. TemplatesTypeOK'
    BY <1>2 DEF TemplatesIInv, TemplatesTypeOK
<1>5. BoundToEntered' /\ PairsDiffer'
    BY <1>2, <1>3 DEF TemplatesIInv, BoundToEntered, PairsDiffer
<1>6. DraftsFollow' /\ DictionaryIsWhole'
    BY DEF TemplatesIInv, DraftsFollow, DictionaryIsWhole
<1> QED BY <1>4, <1>5, <1>6 DEF TemplatesIInv

(* Every step preserves the invariant.                                     *)
LEMMA TemplatesStep == TemplatesIInv /\ [TemplatesNext]_templateVars => TemplatesIInv'
<1> SUFFICES ASSUME TemplatesIInv, [TemplatesNext]_templateVars PROVE TemplatesIInv'
    OBVIOUS
<1> USE DEF TemplatesNext
<1>1. ASSUME NEW c \in Clerks, NEW n \in AttributeNos, NEW values \in ValueLists,
             InsertAttribute(c, n, values)
      PROVE  TemplatesIInv'
    BY <1>1, InsertAttributeStep
<1>2. ASSUME NEW c \in Clerks, InsertAttributeValue(c) PROVE TemplatesIInv'
    BY <1>2, InsertValueStep
<1>3. ASSUME NEW c \in Clerks, CommitAttribute(c) PROVE TemplatesIInv'
    BY <1>3, CommitAttributeStep
<1>4. ASSUME NEW c \in Clerks, FailAttribute(c) PROVE TemplatesIInv'
    BY <1>4, FailAttributeStep
<1>5. ASSUME NEW t \in Templates, NEW n \in AttributeNos, NEW role \in Roles,
             NEW source \in Templates \cup {Omitted}, CreateBinding(t, n, role, source)
      PROVE  TemplatesIInv'
    BY <1>5, CreateBindingStep
<1>6. ASSUME NEW i \in DOMAIN bindings, NEW role \in Roles \cup {Omitted},
             NEW status \in BindingStatuses \cup {Omitted},
             UpdateBinding(i, role, status)
      PROVE  TemplatesIInv'
    <2> DEFINE b == [bindings[i] EXCEPT
                        !.role = IF role = Omitted THEN @ ELSE role,
                        !.status = IF status = Omitted THEN @ ELSE status]
    <2>1. bindings[i] \in BindingRows
        BY DEF TemplatesIInv, TemplatesTypeOK
    <2>2. /\ b \in BindingRows
          /\ b.template = bindings[i].template /\ b.attribute = bindings[i].attribute
        BY <2>1 DEF BindingRows
    <2>3. bindings' = [bindings EXCEPT ![i] = b] /\ bindings[i].live
          /\ UNCHANGED <<dictionary, entered, submission, draft>>
        BY <1>6 DEF UpdateBinding
    <2> HIDE DEF b
    <2> QED BY <2>2, <2>3, RewriteBindingStep
<1>7. ASSUME NEW i \in DOMAIN bindings, DeleteBinding(i) PROVE TemplatesIInv'
    <2> DEFINE b == [bindings[i] EXCEPT !.live = FALSE]
    <2>1. bindings[i] \in BindingRows
        BY DEF TemplatesIInv, TemplatesTypeOK
    <2>2. /\ b \in BindingRows
          /\ b.template = bindings[i].template /\ b.attribute = bindings[i].attribute
        BY <2>1 DEF BindingRows
    <2>3. bindings' = [bindings EXCEPT ![i] = b] /\ bindings[i].live
          /\ UNCHANGED <<dictionary, entered, submission, draft>>
        BY <1>7 DEF DeleteBinding
    <2> HIDE DEF b
    <2> QED BY <2>2, <2>3, RewriteBindingStep
<1>8. CASE UNCHANGED templateVars
    BY <1>8 DEF templateVars, TemplatesIInv, TemplatesTypeOK, DraftsFollow,
                BoundToEntered, PairsDiffer, DictionaryIsWhole
<1> QED BY <1>1, <1>2, <1>3, <1>4, <1>5, <1>6, <1>7, <1>8

(* The inductive invariant of the dictionary and the templates.            *)
THEOREM TemplatesInvariance == TemplatesSpec => []TemplatesIInv
BY TemplatesInitially, TemplatesStep, PTL DEF TemplatesSpec

(* create_attribute leaves all rows of a request or none, in its order.    *)
THEOREM CreationsAreWhole == TemplatesSpec => []DictionaryIsWhole
<1>1. TemplatesIInv => DictionaryIsWhole
    BY DEF TemplatesIInv
<1> QED BY <1>1, TemplatesInvariance, PTL

(* A category uses an attribute in one role, and only one it has.          *)
THEOREM RolesAreUnique == TemplatesSpec => []OneRoleEach
<1>1. TemplatesIInv => OneRoleEach
    BY DEF TemplatesIInv, PairsDiffer, BoundToEntered, OneRoleEach, LiveBindings,
           ActiveSalesAxes
<1> QED BY <1>1, TemplatesInvariance, PTL

-------------------------------------------------------------------------------
(* Price lists: a copy that names the row's version is the row, because    *)
(* every update advances it.                                               *)
PriceListWindows == [starts : Instants \cup {Unset}, ends : Instants \cup {Unset}]
PriceListRows == [currency : ListCurrencies \cup {Unset}, status : {"active", "inactive"},
                  version : Nat,
                  starts : Instants \cup {Unset}, ends : Instants \cup {Unset}]
ListsTypeOK ==
    /\ registered \subseteq ListCurrencies
    /\ lists \in [ListNos -> PriceListRows]
    /\ copies \in [Planners -> [ListNos -> PriceListRows]]
    /\ intended \in [ListNos -> PriceListWindows]

(* A copy that names the row's version is the row.                         *)
CopiesInv ==
    \A c \in Planners, n \in ListNos :
        copies[c][n] # NotCreated =>
            /\ copies[c][n].version <= lists[n].version
            /\ copies[c][n].version = lists[n].version => copies[c][n] = lists[n]

ListsInv == ListsTypeOK /\ CopiesInv /\ WindowsAreMeant

(* What an update makes of a row.                                          *)
LEMMA RescheduledFacts ==
    ASSUME NEW row \in PriceListRows, NEW body \in WindowBodies
    PROVE  LET r == Rescheduled(row, body)
               w == WindowOf(row, body)
           IN  /\ r \in PriceListRows /\ w \in PriceListWindows
               /\ r.version = row.version + 1
               /\ r.starts = w.starts /\ r.ends = w.ends
<1> DEFINE w == WindowOf(row, body)
           st == Merged(body.status, row.status)
           r == Rescheduled(row, body)
<1>1. st \in {"active", "inactive"}
    BY DEF Merged, PriceListRows, WindowBodies
<1>2. w \in PriceListWindows
    BY DEF WindowOf, Merged, PriceListRows, PriceListWindows, WindowBodies
<1>3. r = [currency |-> row.currency, status |-> st, version |-> row.version + 1,
           starts |-> w.starts, ends |-> w.ends]
    BY DEF Rescheduled
<1> HIDE DEF w, st, r
<1>4. row.currency \in ListCurrencies \cup {Unset} /\ row.version + 1 \in Nat
      /\ w.starts \in Instants \cup {Unset} /\ w.ends \in Instants \cup {Unset}
    BY <1>2 DEF PriceListRows, PriceListWindows
<1>5. /\ r \in PriceListRows /\ r.version = row.version + 1
      /\ r.starts = w.starts /\ r.ends = w.ends
    BY <1>1, <1>3, <1>4 DEF PriceListRows
<1> QED BY <1>2, <1>5 DEF w, r

(* Committing a new row, or one a version later, leaves older copies.      *)
LEMMA CommittedCopies ==
    ASSUME ListsTypeOK, CopiesInv, NEW c \in Planners, NEW n \in ListNos,
           NEW row \in PriceListRows, Commit(c, n, row),
           lists[n] = NotCreated \/ row.version = lists[n].version + 1
    PROVE  /\ lists' \in [ListNos -> PriceListRows]
           /\ copies' \in [Planners -> [ListNos -> PriceListRows]]
           /\ CopiesInv'
<1> USE DEF ListsTypeOK
<1>1. lists' = [lists EXCEPT ![n] = row] /\ lists' \in [ListNos -> PriceListRows]
    BY DEF Commit
<1>2. copies' \in [Planners -> [ListNos -> PriceListRows]]
      /\ \A d \in Planners, m \in ListNos :
             copies'[d][m] \in {copies[d][m], lists'[m]}
    BY <1>1 DEF Commit, Received
<1>3. ASSUME NEW d \in Planners, NEW m \in ListNos, copies'[d][m] # NotCreated
      PROVE  /\ copies'[d][m].version <= lists'[m].version
             /\ copies'[d][m].version = lists'[m].version => copies'[d][m] = lists'[m]
    <2>1. lists'[m] \in PriceListRows /\ lists[m] \in PriceListRows
          /\ copies[d][m] \in PriceListRows
        BY <1>1
    <2>2. CASE copies'[d][m] = lists'[m]
        BY <2>1, <2>2 DEF PriceListRows
    <2>3. CASE copies'[d][m] = copies[d][m]
        <3>1. /\ copies[d][m].version <= lists[m].version
              /\ copies[d][m].version = lists[m].version => copies[d][m] = lists[m]
            BY <1>3, <2>3 DEF CopiesInv
        <3>2. CASE m # n
            BY <1>1, <2>3, <3>1, <3>2
        <3>3. CASE m = n /\ lists[n] = NotCreated
            <4>1. copies[d][m].version \in Nat /\ lists[m].version = 0
                BY <2>1, <3>3 DEF PriceListRows, NotCreated
            <4>2. copies[d][m] = NotCreated
                BY <3>1, <3>3, <4>1
            <4> QED BY <1>3, <2>3, <4>2
        <3>4. CASE m = n /\ row.version = lists[n].version + 1
            <4>1. copies[d][m].version \in Nat /\ lists[m].version \in Nat
                  /\ lists'[m].version = lists[m].version + 1
                BY <1>1, <2>1, <3>4 DEF PriceListRows
            <4>2. copies[d][m].version < lists'[m].version
                BY <3>1, <4>1
            <4> QED BY <2>3, <4>1, <4>2
        <3> QED BY <3>2, <3>3, <3>4
    <2> QED BY <1>2, <2>2, <2>3
<1> QED BY <1>1, <1>2, <1>3 DEF CopiesInv

(* An update from a copy of the row's version writes the window its client *)
(* had in view: the ends it leaves out are those of the copy.              *)
LEMMA UpdateStep ==
    ASSUME ListsInv, NEW c \in Planners, NEW n \in ListNos,
           NEW body \in WindowBodies, UpdatePriceList(c, n, body)
    PROVE  ListsInv'
<1> DEFINE row == Rescheduled(lists[n], body)
           window == WindowOf(lists[n], body)
<1>1. lists[n] \in PriceListRows /\ copies[c][n] = lists[n]
    BY DEF ListsInv, ListsTypeOK, CopiesInv, UpdatePriceList
<1>2. /\ row \in PriceListRows /\ row.version = lists[n].version + 1
      /\ window \in PriceListWindows
      /\ row.starts = window.starts /\ row.ends = window.ends
    BY <1>1, RescheduledFacts
<1>3. /\ Commit(c, n, row) /\ intended' = [intended EXCEPT ![n] = window]
      /\ UNCHANGED registered
    BY <1>1 DEF UpdatePriceList
<1> HIDE DEF row, window
<1>4. /\ lists' \in [ListNos -> PriceListRows] /\ CopiesInv'
      /\ copies' \in [Planners -> [ListNos -> PriceListRows]]
    BY <1>2, <1>3, CommittedCopies DEF ListsInv
<1>5. intended' \in [ListNos -> PriceListWindows]
    BY <1>2, <1>3 DEF ListsInv, ListsTypeOK
<1>6. [starts |-> row.starts, ends |-> row.ends] = window
    BY <1>2 DEF PriceListWindows
<1>7. lists' = [lists EXCEPT ![n] = row]
    BY <1>3 DEF Commit
<1>8. ASSUME NEW m \in ListNos
      PROVE  [starts |-> lists'[m].starts, ends |-> lists'[m].ends] = intended'[m]
    <2>1. CASE m = n
        BY <1>3, <1>6, <1>7, <2>1 DEF ListsInv, ListsTypeOK
    <2>2. CASE m # n
        BY <1>3, <1>7, <2>2 DEF ListsInv, ListsTypeOK, WindowsAreMeant
    <2> QED BY <2>1, <2>2
<1> QED BY <1>3, <1>4, <1>5, <1>8 DEF ListsInv, ListsTypeOK, WindowsAreMeant

(* A created list has no window, and nobody has a copy of an earlier one.  *)
LEMMA CreateStep ==
    ASSUME ListsInv, NEW c \in Planners, NEW n \in ListNos,
           NEW code \in ListCurrencies, CreatePriceList(c, n, code)
    PROVE  ListsInv'
<1> DEFINE row == [NotCreated EXCEPT !.currency = code, !.status = "active"]
<1>1. row \in PriceListRows /\ row.starts = Unset /\ row.ends = Unset
    BY DEF NotCreated, PriceListRows
<1>2. lists[n] = NotCreated /\ Commit(c, n, row) /\ UNCHANGED <<registered, intended>>
    BY DEF CreatePriceList
<1> HIDE DEF row
<1>3. /\ lists' \in [ListNos -> PriceListRows] /\ CopiesInv'
      /\ copies' \in [Planners -> [ListNos -> PriceListRows]]
    BY <1>1, <1>2, CommittedCopies DEF ListsInv
<1>4. lists' = [lists EXCEPT ![n] = row]
    BY <1>2 DEF Commit
<1>5. ASSUME NEW m \in ListNos
      PROVE  [starts |-> lists'[m].starts, ends |-> lists'[m].ends] = intended'[m]
    <2>1. lists'[m].starts = lists[m].starts /\ lists'[m].ends = lists[m].ends
        BY <1>1, <1>2, <1>4 DEF ListsInv, ListsTypeOK, NotCreated
    <2> QED BY <1>2, <2>1 DEF ListsInv, WindowsAreMeant
<1> QED BY <1>2, <1>3, <1>5 DEF ListsInv, ListsTypeOK, WindowsAreMeant

(* No price list ever applies in a window that its last writer did not     *)
(* have in view, for any number of clients, lists and lost answers.        *)
THEOREM WindowsStayMeant == ListsSpec => []WindowsAreMeant
<1>1. ListsInit => ListsInv
    BY DEF ListsInit, ListsInv, ListsTypeOK, CopiesInv, NotCreated, NoWindow,
           PriceListRows, PriceListWindows, WindowsAreMeant
<1>2. ListsInv /\ [ListsNext]_listVars => ListsInv'
    <2> SUFFICES ASSUME ListsInv, [ListsNext]_listVars PROVE ListsInv'
        OBVIOUS
    <2>1. ASSUME NEW code \in ListCurrencies, RegisterCurrency(code) PROVE ListsInv'
        BY <2>1 DEF ListsInv, ListsTypeOK, CopiesInv, RegisterCurrency, WindowsAreMeant
    <2>2. ASSUME NEW c \in Planners, NEW n \in ListNos, ReadPriceList(c, n)
          PROVE  ListsInv'
        <3>1. /\ UNCHANGED <<registered, lists, intended>>
              /\ copies' = [copies EXCEPT ![c][n] = lists[n]]
            BY <2>2 DEF ReadPriceList, Received
        <3>2. copies' \in [Planners -> [ListNos -> PriceListRows]]
              /\ \A d \in Planners, m \in ListNos :
                     copies'[d][m] \in {copies[d][m], lists[m]}
            BY <3>1 DEF ListsInv, ListsTypeOK
        <3>3. \A m \in ListNos : lists[m].version \in Nat
            BY DEF ListsInv, ListsTypeOK, PriceListRows
        <3>4. CopiesInv'
            BY <3>1, <3>2, <3>3 DEF ListsInv, CopiesInv
        <3> QED BY <3>1, <3>2, <3>4 DEF ListsInv, ListsTypeOK, WindowsAreMeant
    <2>3. CASE UNCHANGED listVars
        BY <2>3 DEF listVars, ListsInv, ListsTypeOK, CopiesInv, WindowsAreMeant
    <2> QED BY <2>1, <2>2, <2>3, CreateStep, UpdateStep DEF ListsNext
<1>3. ListsInv => WindowsAreMeant
    BY DEF ListsInv
<1> QED BY <1>1, <1>2, <1>3, PTL DEF ListsSpec
===============================================================================
