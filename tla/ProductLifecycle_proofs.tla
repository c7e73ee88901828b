----------------------- MODULE ProductLifecycle_proofs -----------------------
(***************************************************************************)
(* Proofs about ProductLifecycle, for any products, SKUs and workers.      *)
(*                                                                         *)
(* IInv is inductive: it says who holds which row, that a held row cannot  *)
(* change under its holder, that every row satisfies its CHECKs, and that  *)
(* a cascade misses no SKU but the late ones.  The action properties       *)
(* follow from it.  While creations and deletions stay                     *)
(* apart, DeletionInv is inductive as well, and by it every step is a step *)
(* of ProductShelf or changes nothing there; without that hypothesis both  *)
(* are false.                                                              *)
(***************************************************************************)
EXTENDS ProductLifecycle, TLAPS

USE DEF rows, request

(* The rows the statements write are rows, and which of them are proper.   *)
LEMMA RowFacts ==
    /\ Unborn \in Row /\ Proper(Unborn)
    /\ Inserted \in Row /\ Proper(Inserted)
    /\ \A row \in Row : Retired(row) \in Row /\ Proper(Retired(row))
    /\ \A row \in Row, status \in Statuses : WithStatus(row, status) \in Row
  BY DEF Unborn, Inserted, Retired, WithStatus, Row, Statuses, Proper, Checks

(* An archived row is a row, and proper.                                   *)
LEMMA ArchivedFacts ==
    ASSUME NEW row \in Row, row.life = "live"
    PROVE  LET r == [row EXCEPT !.status = "archived", !.sales = "inactive"]
           IN  r \in Row /\ Proper(r) /\ r.life = "live" /\ r.published = row.published
  BY DEF Row, Statuses, Proper, Checks

(* What retiring a row leaves of it.                                       *)
LEMMA RetiredFacts ==
    ASSUME NEW row \in Row
    PROVE  LET r == Retired(row)
           IN  /\ r \in Row /\ Proper(r) /\ r.life = "retired"
               /\ r.sales = "inactive" /\ r.status = "inactive"
               /\ r.published = row.published
  BY DEF Retired, Row, Statuses, Proper, Checks

(* What a status written by the UPDATEs derives.                           *)
LEMMA WithStatusFacts ==
    ASSUME NEW row \in Row, NEW st \in Statuses
    PROVE  LET r == WithStatus(row, st)
           IN  /\ r.life = row.life /\ (row.published => r.published)
               /\ (r.sales = "active" <=> r.status = "active")
               /\ (r.sales = "active" => r.published)
  BY DEF WithStatus, Row, Statuses

(* A step keeps every row, and every worker's request, of its type.        *)
LEMMA TypeStep ==
    ASSUME TypeOK, [Next]_vars
    PROVE  TypeOK'
<1> USE DEF TypeOK
<1>1. ASSUME NEW p \in Products, CreateSpu(p) PROVE TypeOK'
  BY <1>1, RowFacts DEF CreateSpu
<1>2. ASSUME NEW p \in Products, NEW st \in Statuses, UpdateSpu(p, st) PROVE TypeOK'
  BY <1>2, RowFacts DEF UpdateSpu, CommitProduct
<1>3. ASSUME NEW p \in Products, ArchiveSpu(p) PROVE TypeOK'
  BY <1>3, ArchivedFacts DEF ArchiveSpu, CommitProduct
<1>4. ASSUME NEW s \in Skus, DeleteSku(s) PROVE TypeOK'
  BY <1>4, RowFacts DEF DeleteSku
<1>5. ASSUME NEW w \in Workers, PublishSpu(w) PROVE TypeOK'
  <2>1. WithStatus(spu[product[w]], "active") \in Row
    BY RowFacts DEF Statuses
  <2>2. CASE spu[product[w]].life = "live" /\ fresh[w]
    BY <1>5, <2>1, <2>2 DEF PublishSpu, CommitProduct, Phases
  <2>3. CASE ~(spu[product[w]].life = "live" /\ fresh[w])
    BY <1>5, <2>3 DEF PublishSpu, Phases
  <2> QED
    BY <2>2, <2>3
<1>6. ASSUME NEW w \in Workers, StartCascade(w) PROVE TypeOK'
  BY <1>6 DEF StartCascade, Phases, LiveSkus
<1>7. ASSUME NEW w \in Workers, DeleteSpu(w) PROVE TypeOK'
  BY <1>7, RowFacts DEF DeleteSpu, CommitProduct, Phases
<1>8. ASSUME NEW w \in Workers, CreateSku(w) PROVE TypeOK'
  BY <1>8, RowFacts DEF CreateSku, Phases
<1>9. ASSUME NEW w \in Workers, NEW st \in Statuses, UpdateSku(w, st) PROVE TypeOK'
  BY <1>9, RowFacts DEF UpdateSku, Phases
<1>10. ASSUME NEW w \in Workers, Abort(w) PROVE TypeOK'
  BY <1>10 DEF Abort, Phases
<1>11. ASSUME NEW w \in Workers, NEW s \in Skus, LockSku(w, s) PROVE TypeOK'
  BY <1>11 DEF LockSku, Phases
<1>12. ASSUME NEW w \in Workers, NEW p \in Products, CountSkus(w, p) \/ RetireSpu(w, p)
       PROVE  TypeOK'
  BY <1>12 DEF CountSkus, RetireSpu, Phases
<1>13. ASSUME NEW w \in Workers, NEW p \in Products, NEW s \in Skus,
              ResolveProduct(w, p, s)
       PROVE  TypeOK'
  BY <1>13 DEF ResolveProduct, Phases
<1>14. CASE UNCHANGED vars
  BY <1>14 DEF vars
<1> QED
  BY <1>1, <1>2, <1>3, <1>4, <1>5, <1>6, <1>7, <1>8, <1>9, <1>10, <1>11, <1>12,
     <1>13, <1>14 DEF Next, Progress

-------------------------------------------------------------------------------
(* What one step can do to a product, to a SKU and to the workers.         *)

Deleting == {"retiring", "cascading"}

ProductKept(p) == spu'[p] = spu[p]
ProductCreated(p) == spu[p].life = "unborn" /\ spu'[p] = Inserted
ProductChanged(p) ==
    /\ spu[p].life = "live" /\ spu'[p].life = "live"
    /\ spu[p].published => spu'[p].published
    /\ Proper(spu'[p])
    /\ spu'[p].sales = "active" <=> spu'[p].status = "active"
    /\ spu'[p].sales = "active" => spu'[p].published
ProductRetired(p, w) ==
    /\ phase[w] = "cascading" /\ product[w] = p
    /\ \A s \in victims[w] : ~SkuLocked(s)
    /\ spu'[p] = Retired(spu[p])
    /\ sku' = [s \in Skus |->
                  IF s \in victims[w] /\ sku[s].life = "live"
                  THEN Retired(sku[s]) ELSE sku[s]]
    /\ phase' = [phase EXCEPT ![w] = "idle"]
    /\ UNCHANGED <<owner, product, item>>

(* A step keeps, inserts, changes or retires a product.                    *)
LEMMA ProductStep ==
    ASSUME TypeOK, OnSaleMeansActive, [Next]_vars, NEW p \in Products
    PROVE  \/ ProductKept(p)
           \/ ProductCreated(p)
           \/ ProductChanged(p)
           \/ \E w \in Workers : ProductRetired(p, w)
<1> DEFINE Claim == \/ ProductKept(p) \/ ProductCreated(p) \/ ProductChanged(p)
                    \/ \E w \in Workers : ProductRetired(p, w)
<1> USE DEF TypeOK
<1>1. ASSUME NEW q \in Products, CreateSpu(q) PROVE Claim
  BY <1>1 DEF CreateSpu, ProductKept, ProductCreated
<1>2. ASSUME NEW row \in Row, NEW st \in Statuses, Checks(WithStatus(row, st)),
             row.life = "live"
      PROVE  LET r == WithStatus(row, st)
             IN  /\ r.life = "live" /\ (row.published => r.published) /\ Proper(r)
                 /\ (r.sales = "active" <=> r.status = "active")
                 /\ (r.sales = "active" => r.published)
  BY <1>2, WithStatusFacts DEF Proper
<1>3. ASSUME NEW q \in Products, NEW st \in Statuses, UpdateSpu(q, st) PROVE Claim
  BY <1>2, <1>3 DEF UpdateSpu, CommitProduct, ProductKept, ProductChanged
<1>4. ASSUME NEW q \in Products, ArchiveSpu(q) PROVE Claim
  <2>1. CASE p = q
    BY <1>4, <2>1, ArchivedFacts DEF ArchiveSpu, CommitProduct, ProductChanged, Row
  <2>2. CASE p # q
    BY <1>4, <2>2 DEF ArchiveSpu, CommitProduct, ProductKept
  <2> QED
    BY <2>1, <2>2
<1>5. ASSUME NEW w \in Workers, PublishSpu(w) PROVE Claim
  <2>1. Checks(WithStatus(spu[product[w]], "active"))
    BY DEF Checks, WithStatus, Row
  <2>2. CASE spu[product[w]].life = "live" /\ fresh[w]
    BY <1>2, <1>5, <2>1, <2>2 DEF PublishSpu, CommitProduct, ProductKept,
       ProductChanged, Statuses
  <2>3. CASE ~(spu[product[w]].life = "live" /\ fresh[w])
    BY <1>5, <2>3 DEF PublishSpu, ProductKept
  <2> QED
    BY <2>2, <2>3
<1>6. ASSUME NEW w \in Workers, DeleteSpu(w) PROVE Claim
  BY <1>6 DEF DeleteSpu, CommitProduct, ProductKept, ProductRetired
<1>7. CASE UNCHANGED spu
  BY <1>7 DEF ProductKept
<1> QED
  BY <1>1, <1>3, <1>4, <1>5, <1>6, <1>7 DEF Next, Progress, vars, DeleteSku,
     StartCascade, CreateSku, UpdateSku, Abort, LockSku, CountSkus, RetireSpu,
     ResolveProduct

SkuKept(s) == sku'[s] = sku[s] /\ owner'[s] = owner[s]
SkuCreated(s, w) ==
    /\ phase[w] = "resolved" /\ item[w] = s
    /\ sku'[s] = Inserted /\ owner'[s] = product[w]
    /\ phase' = [phase EXCEPT ![w] = "idle"]
    /\ late' = IF Missable(product[w]) THEN late \cup {s} ELSE late
    /\ UNCHANGED <<spu, product, item, victims>>
SkuChanged(s, w) ==
    /\ phase[w] = "editing" /\ item[w] = s
    /\ sku'[s].life = sku[s].life
    /\ sku[s].published => sku'[s].published
    /\ Checks(sku'[s])
    /\ sku'[s].sales = "active" <=> sku'[s].status = "active"
    /\ sku'[s].sales = "active" => sku'[s].published
    /\ UNCHANGED <<spu, owner>>
    /\ phase' = [phase EXCEPT ![w] = "idle"]
SkuRetired(s) ==
    /\ sku[s].life = "live" /\ ~SkuLocked(s)
    /\ sku'[s] = Retired(sku[s]) /\ owner'[s] = owner[s]

(* A step keeps, retires, inserts or changes a SKU.                        *)
LEMMA SkuStep ==
    ASSUME TypeOK, [Next]_vars, NEW s \in Skus
    PROVE  \/ SkuKept(s)
           \/ SkuRetired(s)
           \/ \E w \in Workers : SkuCreated(s, w) \/ SkuChanged(s, w)
<1> DEFINE Claim == \/ SkuKept(s) \/ SkuRetired(s)
                    \/ \E w \in Workers : SkuCreated(s, w) \/ SkuChanged(s, w)
<1> USE DEF TypeOK
<1>1. ASSUME NEW t \in Skus, DeleteSku(t) PROVE Claim
  BY <1>1 DEF DeleteSku, SkuKept, SkuRetired
<1>2. ASSUME NEW w \in Workers, DeleteSpu(w) PROVE Claim
  BY <1>2 DEF DeleteSpu, SkuKept, SkuRetired
<1>3. ASSUME NEW w \in Workers, CreateSku(w) PROVE Claim
  BY <1>3 DEF CreateSku, SkuKept, SkuCreated
<1>4. ASSUME NEW w \in Workers, NEW st \in Statuses, UpdateSku(w, st) PROVE Claim
  <2>1. CASE item[w] # s
    BY <1>4, <2>1 DEF UpdateSku, SkuKept
  <2>2. CASE item[w] = s
    <3>1. sku'[s] = WithStatus(sku[s], st) /\ Checks(sku'[s])
      BY <1>4, <2>2 DEF UpdateSku
    <3>2. /\ sku'[s].life = sku[s].life /\ (sku[s].published => sku'[s].published)
          /\ (sku'[s].sales = "active" <=> sku'[s].status = "active")
          /\ (sku'[s].sales = "active" => sku'[s].published)
      BY <3>1, WithStatusFacts
    <3> QED
      BY <1>4, <2>2, <3>1, <3>2 DEF UpdateSku, SkuChanged
  <2> QED
    BY <2>1, <2>2
<1>5. CASE UNCHANGED <<sku, owner>>
  BY <1>5 DEF SkuKept
<1> QED
  BY <1>1, <1>2, <1>3, <1>4, <1>5 DEF Next, Progress, vars, CreateSpu, UpdateSpu,
     ArchiveSpu, PublishSpu, StartCascade, Abort, LockSku, CountSkus, RetireSpu,
     ResolveProduct

WorkerKept(v) ==
    phase'[v] = phase[v] /\ product'[v] = product[v] /\ item'[v] = item[v]
        /\ victims'[v] = victims[v]
WorkerMoved(w) ==
    \/ phase'[w] = "idle" /\ victims'[w] \subseteq victims[w]
    \/ phase'[w] = "counted" /\ victims'[w] = victims[w]
    \/ /\ phase'[w] = "retiring" /\ victims'[w] = victims[w] /\ UNCHANGED rows
       /\ spu[product'[w]].life = "live" /\ ~ProductLocked(product'[w])
    \/ /\ phase'[w] = "cascading" /\ UNCHANGED rows /\ phase[w] = "retiring"
       /\ product'[w] = product[w] /\ victims'[w] = LiveSkus(product[w])
    \/ /\ phase'[w] = "resolved" /\ victims'[w] = victims[w] /\ UNCHANGED rows
       /\ spu[product'[w]].life = "live" /\ sku[item'[w]].life = "unborn"
       /\ \A v \in Workers : phase[v] = "resolved" => item[v] # item'[w]
    \/ /\ phase'[w] = "editing" /\ victims'[w] = victims[w] /\ UNCHANGED rows
       /\ sku[item'[w]].life = "live" /\ ~SkuLocked(item'[w])

(* At most one worker moves in a step.                                     *)
LEMMA WorkerStep ==
    ASSUME TypeOK, [Next]_vars
    PROVE  \/ \A v \in Workers : WorkerKept(v)
           \/ \E w \in Workers :
                 WorkerMoved(w) /\ \A v \in Workers \ {w} : WorkerKept(v)
<1> DEFINE Claim(w) == WorkerMoved(w) /\ \A v \in Workers \ {w} : WorkerKept(v)
<1> USE DEF TypeOK, WorkerMoved, WorkerKept
<1>1. ASSUME NEW w \in Workers, PublishSpu(w) \/ CreateSku(w) PROVE Claim(w)
  BY <1>1 DEF PublishSpu, CreateSku
<1>2. ASSUME NEW w \in Workers, StartCascade(w) PROVE Claim(w)
  BY <1>2 DEF StartCascade
<1>3. ASSUME NEW w \in Workers, DeleteSpu(w) \/ Abort(w) PROVE Claim(w)
  BY <1>3 DEF DeleteSpu, Abort
<1>4. ASSUME NEW w \in Workers, NEW st \in Statuses, UpdateSku(w, st) PROVE Claim(w)
  BY <1>4 DEF UpdateSku
<1>5. ASSUME NEW w \in Workers, NEW s \in Skus, LockSku(w, s) PROVE Claim(w)
  BY <1>5 DEF LockSku
<1>6. ASSUME NEW w \in Workers, NEW p \in Products, CountSkus(w, p) PROVE Claim(w)
  BY <1>6 DEF CountSkus
<1>7. ASSUME NEW w \in Workers, NEW p \in Products, RetireSpu(w, p) PROVE Claim(w)
  BY <1>7 DEF RetireSpu
<1>8. ASSUME NEW w \in Workers, NEW p \in Products, NEW s \in Skus,
             ResolveProduct(w, p, s)
      PROVE  Claim(w)
  BY <1>8 DEF ResolveProduct
<1>9. CASE UNCHANGED <<phase, product, item, victims>>
  BY <1>9
<1> HIDE DEF WorkerMoved, WorkerKept
<1> QED
  BY <1>1, <1>2, <1>3, <1>4, <1>5, <1>6, <1>7, <1>8, <1>9 DEF Next, Progress,
     vars, CreateSpu, UpdateSpu, ArchiveSpu, DeleteSku

-------------------------------------------------------------------------------
(* The invariant is inductive.                                             *)

(* A born row stays born, a retired one retired.                           *)
LEMMA LifeStep ==
    ASSUME TypeOK, HoldInv, [Next]_vars, NEW s \in Skus
    PROVE  /\ sku[s].life # "unborn" => sku'[s].life # "unborn"
           /\ sku[s].life = "retired" => sku'[s].life = "retired"
<1>1. sku[s] \in Row
  BY DEF TypeOK
<1>2. CASE SkuRetired(s)
  BY <1>1, <1>2, RetiredFacts DEF SkuRetired
<1>3. ASSUME NEW w \in Workers, SkuCreated(s, w)
      PROVE  sku[s].life = "unborn" /\ sku'[s].life = "live"
  BY <1>3 DEF SkuCreated, HoldInv, Inserted
<1>4. ASSUME NEW w \in Workers, SkuChanged(s, w) PROVE sku'[s].life = sku[s].life
  BY <1>4 DEF SkuChanged
<1> QED
  BY <1>2, <1>3, <1>4, SkuStep DEF SkuKept

(* Nobody else changes what a transaction has locked or is creating.       *)
LEMMA HoldStep ==
    ASSUME IInv, TypeOK', [Next]_vars
    PROVE  HoldInv'
<1> USE DEF IInv
<1>1. SUFFICES ASSUME NEW w \in Workers
      PROVE  /\ phase'[w] \in Deleting => spu'[product'[w]].life = "live"
             /\ phase'[w] = "editing" => sku'[item'[w]].life = "live"
             /\ phase'[w] = "resolved" => sku'[item'[w]].life = "unborn"
             /\ \A s \in victims'[w] : sku'[s].life # "unborn"
  BY DEF HoldInv, Deleting
<1>2. victims[w] \subseteq Skus /\ item[w] \in Skus /\ product[w] \in Products
  BY DEF TypeOK
<1>3. \A s \in victims[w] : sku'[s].life # "unborn"
  BY <1>2, LifeStep DEF HoldInv
<1>4. CASE WorkerMoved(w)
  BY <1>3, <1>4 DEF WorkerMoved, Deleting, HoldInv, LiveSkus
<1>5. CASE WorkerKept(w)
  <2>1. ASSUME phase[w] \in Deleting PROVE spu'[product[w]].life = "live"
    <3>1. ~ProductCreated(product[w])
      BY <2>1 DEF ProductCreated, HoldInv, Deleting
    <3>2. ASSUME NEW v \in Workers, ProductRetired(product[w], v) PROVE FALSE
      BY <1>5, <2>1, <3>2 DEF ProductRetired, ExclusionInv, WorkerKept, Deleting,
         TypeOK
    <3> QED
      BY <1>2, <2>1, <3>1, <3>2, ProductStep DEF ProductKept, ProductChanged,
         HoldInv, Deleting
  <2>2. ASSUME phase[w] = "editing" PROVE sku'[item[w]].life = "live"
    BY <1>2, <2>2, SkuStep DEF SkuKept, SkuRetired, SkuCreated, SkuChanged,
       SkuLocked, HoldInv
  <2>3. ASSUME phase[w] = "resolved" PROVE sku'[item[w]].life = "unborn"
    <3>1. ASSUME NEW v \in Workers, SkuCreated(item[w], v) PROVE FALSE
      BY <1>5, <2>3, <3>1 DEF SkuCreated, ExclusionInv, WorkerKept, TypeOK
    <3> QED
      BY <1>2, <2>3, <3>1, SkuStep DEF SkuKept, SkuRetired, SkuChanged, HoldInv
  <2> QED
    BY <1>3, <1>5, <2>1, <2>2, <2>3 DEF WorkerKept
<1> QED
  BY <1>4, <1>5, WorkerStep

(* A lock, or a fresh id, is only taken when nobody has it.                *)
LEMMA ExclusionStep ==
    ASSUME IInv, [Next]_vars
    PROVE  ExclusionInv'
<1> USE DEF IInv
<1>1. CASE \A v \in Workers : WorkerKept(v)
  BY <1>1 DEF WorkerKept, ExclusionInv
<1>2. ASSUME NEW w \in Workers, WorkerMoved(w),
             \A v \in Workers \ {w} : WorkerKept(v)
      PROVE  ExclusionInv'
  <2>1. ASSUME NEW v \in Workers, v # w
        PROVE  /\ ~(phase'[v] \in Deleting /\ phase'[w] \in Deleting
                      /\ product'[v] = product'[w])
               /\ ~(phase'[v] = "editing" /\ phase'[w] = "editing" /\ item'[v] = item'[w])
               /\ ~(phase'[v] = "resolved" /\ phase'[w] = "resolved" /\ item'[v] = item'[w])
    <3>1. WorkerKept(v)
      BY <1>2, <2>1
    <3> QED
      BY <1>2, <2>1, <3>1 DEF WorkerKept, WorkerMoved, ExclusionInv, Deleting,
         ProductLocked, SkuLocked
  <2>2. ASSUME NEW u \in Workers \ {w}, NEW v \in Workers \ {w}
        PROVE  WorkerKept(u) /\ WorkerKept(v)
    BY <1>2
  <2> QED
    BY <2>1, <2>2 DEF ExclusionInv, WorkerKept, Deleting
<1> QED
  BY <1>1, <1>2, WorkerStep

(* Every statement leaves proper rows, on sale exactly when active.        *)
LEMMA RowStep ==
    ASSUME IInv, TypeOK', [Next]_vars
    PROVE  RowInv' /\ OnSaleMeansActive'
<1> USE DEF IInv
<1>1. ASSUME NEW p \in Products
      PROVE  /\ Proper(spu'[p])
             /\ spu'[p].sales = "active" <=>
                   spu'[p].life = "live" /\ spu'[p].status = "active"
             /\ spu'[p].sales = "active" => spu'[p].published
  <2>1. CASE ProductKept(p)
    BY <2>1 DEF ProductKept, RowInv, OnSaleMeansActive
  <2>2. CASE ProductCreated(p)
    BY <2>2, RowFacts DEF ProductCreated, Inserted
  <2>3. CASE ProductChanged(p)
    BY <2>3 DEF ProductChanged
  <2>4. ASSUME NEW w \in Workers, ProductRetired(p, w)
        PROVE  /\ Proper(spu'[p]) /\ spu'[p].sales = "inactive"
               /\ spu'[p].life = "retired"
    BY <2>4, RetiredFacts DEF ProductRetired, TypeOK
  <2> QED
    BY <2>1, <2>2, <2>3, <2>4, ProductStep
<1>2. ASSUME NEW s \in Skus
      PROVE  /\ Proper(sku'[s])
             /\ sku'[s].sales = "active" <=>
                   sku'[s].life = "live" /\ sku'[s].status = "active"
             /\ sku'[s].sales = "active" => sku'[s].published
  <2>1. CASE SkuKept(s)
    BY <2>1 DEF SkuKept, RowInv, OnSaleMeansActive
  <2>2. CASE SkuRetired(s)
    BY <2>2, RetiredFacts DEF SkuRetired, TypeOK
  <2>3. ASSUME NEW w \in Workers, SkuCreated(s, w)
        PROVE  Proper(sku'[s]) /\ sku'[s].sales = "inactive" /\ sku'[s].status = "draft"
    BY <2>3, RowFacts DEF SkuCreated, Inserted
  <2>4. ASSUME NEW w \in Workers, SkuChanged(s, w)
        PROVE  /\ Checks(sku'[s]) /\ sku'[s].life = "live"
               /\ sku'[s].sales = "active" <=> sku'[s].status = "active"
               /\ sku'[s].sales = "active" => sku'[s].published
    BY <2>4 DEF SkuChanged, HoldInv
  <2> QED
    BY <2>1, <2>2, <2>3, <2>4, SkuStep DEF Proper
<1> QED
  BY <1>1, <1>2 DEF RowInv, OnSaleMeansActive

(* A born product stays born.                                              *)
LEMMA BornStep ==
    ASSUME TypeOK, OnSaleMeansActive, [Next]_vars, NEW p \in Products
    PROVE  spu[p].life # "unborn" => spu'[p].life # "unborn"
<1>1. ASSUME NEW w \in Workers, ProductRetired(p, w) PROVE spu'[p].life = "retired"
  BY <1>1, RetiredFacts DEF ProductRetired, TypeOK
<1> QED
  BY <1>1, ProductStep DEF ProductKept, ProductCreated, ProductChanged

(* A SKU is late no more only when a new cascade over its product starts.  *)
LEMMA LateStep ==
    ASSUME TypeOK, [Next]_vars, NEW s \in late, s \notin late'
    PROVE  \E w \in Workers :
               phase[w] = "retiring" /\ product[w] = owner[s] /\ UNCHANGED rows
<1>1. ASSUME NEW w \in Workers, StartCascade(w)
      PROVE  phase[w] = "retiring" /\ product[w] = owner[s] /\ UNCHANGED rows
  BY <1>1 DEF StartCascade
<1>2. ASSUME NEW w \in Workers, CreateSku(w) PROVE FALSE
  BY <1>2 DEF CreateSku
<1>3. late' # late
  OBVIOUS
<1> QED
  BY <1>1, <1>2, <1>3 DEF Next, Progress, vars, CreateSpu, UpdateSpu, ArchiveSpu,
     DeleteSku, PublishSpu, DeleteSpu, UpdateSku, Abort, LockSku, CountSkus,
     RetireSpu, ResolveProduct

(* What a cascade will not find is late, and stays so until the next one.  *)
LEMMA CascadeStep ==
    ASSUME IInv, [Next]_vars
    PROVE  CascadeInv'
<1> USE DEF IInv
<1>1. ASSUME NEW w \in Workers, phase'[w] = "resolved"
      PROVE  spu'[product'[w]].life # "unborn"
  <2>1. CASE WorkerMoved(w)
    BY <1>1, <2>1 DEF WorkerMoved
  <2>2. CASE WorkerKept(w)
    <3>1. product[w] \in Products /\ spu[product[w]].life # "unborn"
      BY <1>1, <2>2 DEF WorkerKept, CascadeInv, TypeOK
    <3> QED
      BY <2>2, <3>1, BornStep DEF WorkerKept
  <2> QED
    BY <2>1, <2>2, WorkerStep
<1>2. ASSUME NEW w \in Workers, phase'[w] = "cascading",
             NEW s \in LiveSkus(product[w])' \ late'
      PROVE  s \in victims'[w]
  <2>1. CASE WorkerMoved(w)
    BY <1>2, <2>1 DEF WorkerMoved, LiveSkus
  <2>2. CASE WorkerKept(w)
    <3>1. s \in Skus /\ sku'[s].life = "live" /\ owner'[s] = product[w]
          /\ phase[w] = "cascading" /\ product[w] \in Products
      BY <1>2, <2>2 DEF WorkerKept, LiveSkus, TypeOK
    <3>2. ASSUME NEW v \in Workers, SkuCreated(s, v) PROVE FALSE
      BY <1>2, <3>1, <3>2 DEF SkuCreated, Missable
    <3>3. ~SkuRetired(s)
      BY <3>1, RetiredFacts DEF SkuRetired, TypeOK
    <3>4. s \in LiveSkus(product[w]) /\ owner[s] = product[w]
      BY <3>1, <3>2, <3>3, SkuStep DEF SkuKept, SkuChanged, LiveSkus
    <3>5. s \notin late
      BY <1>2, <3>1, <3>4, LateStep DEF ExclusionInv
    <3> QED
      BY <2>2, <3>1, <3>4, <3>5 DEF WorkerKept, CascadeInv
  <2> QED
    BY <2>1, <2>2, WorkerStep
<1>3. ASSUME NEW s \in Skus, sku'[s].life = "live"
      PROVE  /\ spu'[owner'[s]].life # "unborn"
             /\ spu'[owner'[s]].life = "retired" => s \in late'
  <2>1. ASSUME NEW w \in Workers, SkuCreated(s, w)
        PROVE  /\ spu'[owner'[s]].life # "unborn"
               /\ spu'[owner'[s]].life = "retired" => s \in late'
    BY <2>1 DEF SkuCreated, Missable, CascadeInv
  <2>2. CASE ~\E w \in Workers : SkuCreated(s, w)
    <3>1. ~SkuRetired(s)
      BY <1>3, RetiredFacts DEF SkuRetired, TypeOK
    <3>2. sku[s].life = "live" /\ owner'[s] = owner[s]
      BY <1>3, <2>2, <3>1, SkuStep DEF SkuKept, SkuChanged
    <3>3. owner[s] \in Products
      BY DEF TypeOK
    <3>4. spu[owner[s]].life # "unborn" /\ spu'[owner[s]].life # "unborn"
      BY <3>2, <3>3, BornStep DEF CascadeInv
    <3>5. ASSUME spu[owner[s]].life = "retired" PROVE s \in late'
      <4>1. s \in late
        BY <3>2, <3>5 DEF CascadeInv, OrphansAreLate
      <4> QED
        BY <3>5, <4>1, LateStep DEF HoldInv
    <3>6. ASSUME NEW w \in Workers, ProductRetired(owner[s], w) PROVE s \in late'
      <4>1. spu[owner[s]].life = "live" /\ spu'[owner[s]].life = "retired"
        BY <3>3, <3>6, RetiredFacts DEF ProductRetired, HoldInv, TypeOK
      <4>2. s \notin victims[w]
        BY <1>3, <3>2, <3>6, RetiredFacts DEF ProductRetired, TypeOK
      <4>3. s \in late
        BY <3>2, <3>6, <4>2 DEF ProductRetired, CascadeInv, LiveSkus
      <4>4. spu' # spu
        BY <4>1
      <4> QED
        BY <4>3, <4>4, LateStep
    <3> QED
      BY <3>2, <3>3, <3>4, <3>5, <3>6, ProductStep DEF ProductKept, ProductCreated,
         ProductChanged
  <2> QED
    BY <2>1, <2>2
<1> QED
  BY <1>1, <1>2, <1>3 DEF CascadeInv, OrphansAreLate

(* The invariant holds of the empty catalog.                               *)
LEMMA InitIInv == Init => IInv
<1> SUFFICES ASSUME Init PROVE IInv
  OBVIOUS
<1>1. TypeOK
  BY RowFacts DEF Init, TypeOK, Phases
<1> QED
  BY <1>1, RowFacts DEF Init, IInv, HoldInv, ExclusionInv, RowInv,
     OnSaleMeansActive, CascadeInv, OrphansAreLate, Unborn

(* Every step preserves the invariant: its parts, one lemma each.          *)
LEMMA NextIInv == IInv /\ [Next]_vars => IInv'
<1> SUFFICES ASSUME IInv, [Next]_vars PROVE IInv'
  OBVIOUS
<1>1. TypeOK'
  BY TypeStep DEF IInv
<1> QED
  BY <1>1, HoldStep, ExclusionStep, RowStep, CascadeStep DEF IInv

(* Type correctness, row locks, CHECKs and sales states, for any numbers   *)
(* of products, SKUs and overlapping transactions.                         *)
THEOREM Invariance == Spec => []IInv
  BY InitIInv, NextIInv, PTL DEF Spec

(* The sellable indexes only serve live, active, published rows.           *)
THEOREM OnSale == Spec => []OnSaleMeansActive
<1>1. IInv => OnSaleMeansActive
  BY DEF IInv
<1> QED
  BY <1>1, Invariance, PTL

(* Whatever overlaps, a live SKU under a retired product was inserted      *)
(* after the cascade that retired the product had taken its snapshot.      *)
THEOREM OnlyLateSkusStay == Spec => []OrphansAreLate
<1>1. IInv => OrphansAreLate
  BY DEF IInv, CascadeInv
<1> QED
  BY <1>1, Invariance, PTL

-------------------------------------------------------------------------------
(* Action properties.                                                      *)

(* Publishing is one-way in both tables: no operation, and no order of     *)
(* operations, clears published_at or takes a published row back to draft. *)
THEOREM PublishedForGood == Spec => PublishingIsOneWay
<1> DEFINE Kept == /\ \A p \in Products : spu[p].published =>
                         spu'[p].published /\ spu'[p].status # "draft"
                   /\ \A s \in Skus : sku[s].published =>
                         sku'[s].published /\ sku'[s].status # "draft"
<1>1. ASSUME IInv, IInv', [Next]_vars PROVE Kept
  <2>1. ASSUME NEW p \in Products, spu[p].published PROVE spu'[p].published
    <3>1. spu[p] \in Row /\ spu[p].life # "unborn"
      BY <1>1, <2>1 DEF IInv, TypeOK, RowInv, Proper
    <3>2. ASSUME NEW w \in Workers, ProductRetired(p, w) PROVE spu'[p].published
      BY <2>1, <3>1, <3>2, RetiredFacts DEF ProductRetired
    <3> QED
      BY <1>1, <2>1, <3>1, <3>2, ProductStep DEF IInv, ProductKept,
         ProductCreated, ProductChanged
  <2>2. ASSUME NEW s \in Skus, sku[s].published PROVE sku'[s].published
    <3>1. sku[s] \in Row /\ sku[s].life # "unborn"
      BY <1>1, <2>2 DEF IInv, TypeOK, RowInv, Proper
    <3>2. CASE SkuRetired(s)
      BY <2>2, <3>1, <3>2, RetiredFacts DEF SkuRetired
    <3>3. ASSUME NEW w \in Workers, SkuCreated(s, w) PROVE FALSE
      BY <1>1, <3>1, <3>3 DEF SkuCreated, IInv, HoldInv
    <3> QED
      BY <1>1, <2>2, <3>2, <3>3, SkuStep DEF IInv, SkuKept, SkuChanged
  <2> QED
    BY <1>1, <2>1, <2>2 DEF IInv, RowInv, Proper, Checks
<1>2. IInv /\ IInv' /\ [Next]_vars => [Kept]_vars
  BY <1>1
<1> QED
  BY <1>2, Invariance, PTL DEF Spec, PublishingIsOneWay

(* Once a product is retired and the creations that had found it live have *)
(* ended, it stays so, and no SKU is ever added to it.                     *)
THEOREM RetiredIsClosed == Spec => RetiredProductIsClosed
<1> DEFINE StaysClosed ==
        \A p \in Products :
           Closed(p) => Closed(p)' /\ LiveSkus(p)' \subseteq LiveSkus(p)
<1>1. ASSUME IInv, [Next]_vars PROVE StaysClosed
  <2>1. SUFFICES ASSUME NEW p \in Products, Closed(p)
        PROVE  Closed(p)' /\ LiveSkus(p)' \subseteq LiveSkus(p)
    OBVIOUS
  <2>2. spu'[p].life = "retired"
    <3>1. ASSUME NEW w \in Workers, ProductRetired(p, w) PROVE FALSE
      BY <1>1, <2>1, <3>1 DEF ProductRetired, Closed, IInv, HoldInv
    <3> QED
      BY <1>1, <2>1, <3>1, ProductStep DEF IInv, Closed, ProductKept,
         ProductCreated, ProductChanged
  <2>3. ASSUME NEW w \in Workers, phase'[w] = "resolved", product'[w] = p
        PROVE  FALSE
    <3>1. CASE WorkerKept(w)
      BY <2>1, <2>3, <3>1 DEF WorkerKept, Closed
    <3>2. CASE WorkerMoved(w)
      BY <2>1, <2>3, <3>2 DEF WorkerMoved, Closed
    <3> QED
      BY <1>1, <3>1, <3>2, WorkerStep DEF IInv
  <2>4. ASSUME NEW s \in Skus, owner'[s] = p, sku'[s].life = "live"
        PROVE  owner[s] = p /\ sku[s].life = "live"
    <3>1. CASE SkuRetired(s)
      BY <1>1, <2>4, <3>1, RetiredFacts DEF SkuRetired, IInv, TypeOK
    <3>2. ASSUME NEW w \in Workers, SkuCreated(s, w) PROVE FALSE
      BY <2>1, <2>4, <3>2 DEF SkuCreated, Closed
    <3>3. ASSUME NEW w \in Workers, SkuChanged(s, w)
          PROVE  owner[s] = p /\ sku[s].life = "live"
      BY <2>4, <3>3 DEF SkuChanged
    <3> QED
      BY <1>1, <2>4, <3>1, <3>2, <3>3, SkuStep DEF IInv, SkuKept
  <2> QED
    BY <2>2, <2>3, <2>4 DEF Closed, LiveSkus
<1>2. IInv /\ [Next]_vars => [StaysClosed]_vars
  BY <1>1
<1> QED
  BY <1>2, Invariance, PTL DEF Spec, RetiredProductIsClosed

-------------------------------------------------------------------------------
(* While creations and deletions stay apart.                               *)

(* A resolved product stays live until its SKU is inserted, and a cascade  *)
(* finds every live SKU of its product.                                    *)
LEMMA DeletionStep ==
    ASSUME CreationsApart, DeletionInv, IInv', [Next]_vars
    PROVE  DeletionInv'
<1> USE DEF DeletionInv
<1>1. TypeOK /\ HoldInv /\ ExclusionInv /\ OnSaleMeansActive
  BY DEF IInv
<1>2. ASSUME NEW w \in Workers, phase'[w] = "resolved"
      PROVE  spu'[product'[w]].life = "live"
  <2>1. CASE WorkerMoved(w)
    BY <1>2, <2>1 DEF WorkerMoved
  <2>2. CASE WorkerKept(w)
    <3>1. product[w] \in Products /\ spu[product[w]].life = "live"
      BY <1>1, <1>2, <2>2 DEF TypeOK, WorkerKept
    <3>2. ASSUME NEW v \in Workers, ProductRetired(product[w], v) PROVE FALSE
      BY <1>2, <2>2, <3>2 DEF ProductRetired, CreationsApart, WorkerKept
    <3> QED
      BY <1>1, <2>2, <3>1, <3>2, ProductStep DEF ProductKept, ProductCreated,
         ProductChanged, WorkerKept
  <2> QED
    BY <1>1, <2>1, <2>2, WorkerStep
<1>3. ASSUME NEW w \in Workers, phase'[w] = "cascading"
      PROVE  /\ LiveSkus(product[w])' \subseteq victims'[w]
             /\ \A s \in victims'[w] : owner'[s] = product'[w]
  <2>1. CASE WorkerMoved(w)
    BY <1>3, <2>1 DEF WorkerMoved, LiveSkus
  <2>2. CASE WorkerKept(w)
    <3>1. ASSUME NEW s \in Skus, sku'[s].life = "live", owner'[s] = product[w]
          PROVE  s \in LiveSkus(product[w])
      <4>1. ASSUME NEW v \in Workers, SkuCreated(s, v) PROVE FALSE
        BY <1>3, <2>2, <3>1, <4>1 DEF SkuCreated, CreationsApart, WorkerKept
      <4>2. ASSUME NEW v \in Workers, SkuChanged(s, v)
            PROVE  s \in LiveSkus(product[w])
        BY <3>1, <4>2 DEF SkuChanged, LiveSkus
      <4>3. ~SkuRetired(s)
        BY <1>1, <3>1, RetiredFacts DEF SkuRetired, TypeOK
      <4> QED
        BY <1>1, <3>1, <4>1, <4>2, <4>3, SkuStep DEF SkuKept, LiveSkus
    <3>2. ASSUME NEW s \in victims[w] PROVE owner'[s] = product[w]
      <4>1. s \in Skus /\ sku[s].life # "unborn" /\ owner[s] = product[w]
        BY <1>1, <1>3, <2>2, <3>2 DEF TypeOK, HoldInv, WorkerKept
      <4>2. ASSUME NEW v \in Workers, SkuCreated(s, v) PROVE FALSE
        BY <1>1, <4>1, <4>2 DEF SkuCreated, HoldInv
      <4> QED
        BY <1>1, <4>1, <4>2, SkuStep DEF SkuKept, SkuRetired, SkuChanged
    <3> QED
      BY <1>3, <2>2, <3>1, <3>2 DEF WorkerKept, LiveSkus
  <2> QED
    BY <1>1, <2>1, <2>2, WorkerStep
<1>4. ASSUME NEW s \in Skus, sku'[s].life = "live" PROVE spu'[owner'[s]].life = "live"
  <2>1. CASE SkuRetired(s)
    BY <1>1, <1>4, <2>1, RetiredFacts DEF SkuRetired, TypeOK
  <2>2. ASSUME NEW w \in Workers, SkuCreated(s, w) PROVE spu'[owner'[s]].life = "live"
    BY <1>4, <2>2 DEF SkuCreated
  <2>3. ASSUME NEW w \in Workers, SkuChanged(s, w) PROVE spu'[owner'[s]].life = "live"
    BY <1>4, <2>3 DEF SkuChanged, NoLiveSkuUnderRetiredProduct
  <2>4. CASE SkuKept(s)
    <3>1. owner[s] \in Products /\ spu[owner[s]].life = "live"
      BY <1>1, <1>4, <2>4 DEF SkuKept, TypeOK, NoLiveSkuUnderRetiredProduct
    <3>2. ASSUME NEW w \in Workers, ProductRetired(owner[s], w) PROVE FALSE
      <4>1. sku[s].life = "live" /\ s \in victims[w]
        BY <1>1, <1>4, <2>4, <3>2 DEF SkuKept, ProductRetired, LiveSkus
      <4>2. sku'[s] = Retired(sku[s])
        BY <3>2, <4>1 DEF ProductRetired
      <4> QED
        BY <1>1, <1>4, <4>2, RetiredFacts DEF TypeOK
    <3> QED
      BY <1>1, <2>4, <3>1, <3>2, ProductStep DEF SkuKept, ProductKept,
         ProductCreated, ProductChanged
  <2> QED
    BY <1>1, <2>1, <2>2, <2>3, <2>4, SkuStep
<1> QED
  BY <1>2, <1>3, <1>4 DEF NoLiveSkuUnderRetiredProduct

(* A product that create_sku has found live stays so until the SKU is in,  *)
(* and the SKUs a deletion retires are exactly the live ones of its        *)
(* product, as long as no creation overlaps the deletion of its product.   *)
THEOREM DeletionInvariance == Spec /\ []CreationsApart => []DeletionInv
<1>1. Init => DeletionInv
  BY InitIInv DEF Init, DeletionInv, NoLiveSkuUnderRetiredProduct, Unborn
<1>2. CreationsApart /\ IInv' /\ DeletionInv /\ [Next]_vars => DeletionInv'
  BY DeletionStep
<1> QED
  BY <1>1, <1>2, Invariance, PTL DEF Spec

(* delete_spu keeps its promise for any numbers of products, SKUs and      *)
(* overlapping transactions, but for creations under the product: with one *)
(* of those TLC finds the promise broken.                                  *)
THEOREM DeletionsAreComplete ==
    Spec /\ []CreationsApart => []NoLiveSkuUnderRetiredProduct
<1>1. DeletionInv => NoLiveSkuUnderRetiredProduct
  BY DEF DeletionInv
<1> QED
  BY <1>1, DeletionInvariance, PTL

-------------------------------------------------------------------------------
(* The shelf.                                                              *)

(* Products and SKUs as the abstract specification has them.               *)
OnShelf == {p \in Products : spu[p].life = "live"}
LiveSku == {t \in Skus : sku[t].life = "live"}
Under == [s \in LiveSku |-> owner[s]]
Offered == {p \in Products : spu[p].sales = "active"}
Buyable == {s \in Skus : sku[s].sales = "active"}
EndedSpus == {p \in Products : spu[p].life = "retired"}
EndedSkus == {s \in Skus : sku[s].life = "retired"}
productsAsSeen == <<OnShelf, Offered, EndedSpus>>
skusAsSeen == <<Under, Buyable, EndedSkus>>

LEMMA UnderIs == DOMAIN Under = LiveSku /\ \A s \in LiveSku : Under[s] = owner[s]
  BY DEF Under

(* A committed row of a live product that stays live: on sale or not.      *)
LEMMA CommitSwitchesProduct ==
    ASSUME NEW p \in Products, spu[p].life = "live", spu'[p].life = "live",
           \A q \in Products \ {p} : spu'[q] = spu[q], UNCHANGED <<sku, owner>>
    PROVE  Shelf!SwitchProduct(p)
<1>1. p \in OnShelf /\ OnShelf' = OnShelf /\ EndedSpus' = EndedSpus
  BY DEF OnShelf, EndedSpus
<1>2. UNCHANGED skusAsSeen
  BY DEF skusAsSeen, Under, LiveSku, Buyable, EndedSkus
<1>3. CASE spu'[p].sales = "active"
  <2>1. Offered' = Offered \cup {p}
    BY <1>3 DEF Offered
  <2> QED
    BY <1>1, <1>2, <2>1 DEF Shelf!SwitchProduct, OnShelf, skusAsSeen, Under, LiveSku,
       Offered, Buyable, EndedSpus, EndedSkus
<1>4. CASE spu'[p].sales # "active"
  <2>1. Offered' = Offered \ {p}
    BY <1>4 DEF Offered
  <2> QED
    BY <1>1, <1>2, <2>1 DEF Shelf!SwitchProduct, OnShelf, skusAsSeen, Under, LiveSku,
       Offered, Buyable, EndedSpus, EndedSkus
<1> QED
  BY <1>3, <1>4

(* A committed row of a live SKU that stays live: on sale or not.          *)
LEMMA CommitSwitchesSku ==
    ASSUME NEW s \in Skus, sku[s].life = "live", sku'[s].life = "live",
           \A t \in Skus \ {s} : sku'[t] = sku[t], UNCHANGED <<spu, owner>>
    PROVE  Shelf!SwitchSku(s)
<1>1. s \in LiveSku /\ LiveSku' = LiveSku /\ EndedSkus' = EndedSkus
  BY DEF LiveSku, EndedSkus
<1>2. UNCHANGED productsAsSeen
  BY DEF productsAsSeen, OnShelf, Offered, EndedSpus
<1>3. Under' = Under
  BY <1>1 DEF Under
<1>4. Buyable' \in {Buyable \cup {s}, Buyable \ {s}}
  <2>1. CASE sku'[s].sales = "active"
    BY <2>1 DEF Buyable
  <2>2. CASE sku'[s].sales # "active"
    BY <2>2 DEF Buyable
  <2> QED
    BY <2>1, <2>2
<1>5. s \in DOMAIN Under
  BY <1>1, UnderIs
<1> QED
  BY <1>1, <1>2, <1>3, <1>4, <1>5 DEF Shelf!SwitchSku, OnShelf, productsAsSeen, Under,
     LiveSku, Offered, Buyable, EndedSpus, EndedSkus

(* Retiring live SKUs takes them away, and nothing else of the SKUs.       *)
LEMMA RetiringTakesSkus ==
    ASSUME NEW S \in SUBSET Skus, S \subseteq LiveSku, UNCHANGED owner,
           \A s \in S : sku'[s].life = "retired" /\ sku'[s].sales = "inactive",
           \A s \in Skus \ S : sku'[s] = sku[s]
    PROVE  Shelf!TakeSkus(S)
<1>1. LiveSku' = LiveSku \ S
  BY DEF LiveSku
<1>2. Under' = [s \in DOMAIN Under \ S |-> Under[s]]
  <2>1. Under' = [s \in LiveSku \ S |-> owner[s]]
    BY <1>1 DEF Under
  <2> QED
    BY <2>1, UnderIs
<1>3. Buyable' = Buyable \ S
  BY DEF Buyable, LiveSku
<1>4. EndedSkus' = EndedSkus \cup S
  BY DEF EndedSkus, LiveSku
<1> QED
  BY <1>2, <1>3, <1>4 DEF Shelf!TakeSkus, Under, LiveSku, Buyable, EndedSkus

(* An inserted product is on the shelf, not on sale.                       *)
LEMMA InsertionAddsProduct ==
    ASSUME IInv, NEW p \in Products, CreateSpu(p)
    PROVE  Shelf!AddProduct(p)
<1>1. /\ spu[p].life = "unborn" /\ spu'[p] = Inserted
      /\ \A q \in Products \ {p} : spu'[q] = spu[q]
      /\ UNCHANGED <<sku, owner>>
  BY DEF CreateSpu, IInv, TypeOK
<1>2. spu[p].sales # "active"
  BY <1>1 DEF IInv, OnSaleMeansActive
<1>3. p \notin OnShelf \cup EndedSpus /\ OnShelf' = OnShelf \cup {p}
      /\ EndedSpus' = EndedSpus /\ Offered' = Offered
  BY <1>1, <1>2 DEF OnShelf, EndedSpus, Offered, Inserted
<1>4. UNCHANGED skusAsSeen
  BY <1>1 DEF skusAsSeen, Under, LiveSku, Buyable, EndedSkus
<1> QED
  BY <1>3, <1>4 DEF Shelf!AddProduct, OnShelf, skusAsSeen, Under, LiveSku, Offered,
     Buyable, EndedSpus, EndedSkus

(* An inserted SKU stands under the product its creator had resolved,      *)
(* which is still there.                                                   *)
LEMMA InsertionAddsSku ==
    ASSUME DeletionInv, NEW w \in Workers, CreateSku(w),
           NEW s \in Skus, s = item[w], NEW p \in Products, p = product[w]
    PROVE  Shelf!AddSku(s, p)
<1>1. /\ phase[w] = "resolved" /\ sku'[s] = Inserted /\ owner'[s] = p
      /\ \A t \in Skus \ {s} : sku'[t] = sku[t] /\ owner'[t] = owner[t]
      /\ UNCHANGED spu
  BY DEF CreateSku, DeletionInv, IInv, TypeOK
<1>2. sku[s].life = "unborn" /\ spu[p].life = "live"
  BY <1>1 DEF DeletionInv, IInv, HoldInv
<1>3. sku[s].sales # "active"
  BY <1>2 DEF DeletionInv, IInv, OnSaleMeansActive
<1>4. LiveSku' = LiveSku \cup {s} /\ EndedSkus' = EndedSkus /\ Buyable' = Buyable
  BY <1>1, <1>2, <1>3 DEF LiveSku, EndedSkus, Buyable, Inserted
<1>5. s \notin LiveSku \cup EndedSkus /\ p \in OnShelf
  BY <1>2 DEF LiveSku, EndedSkus, OnShelf
<1>6. Under' = [t \in DOMAIN Under \cup {s} |-> IF t = s THEN p ELSE Under[t]]
  <2>1. Under' = [t \in LiveSku \cup {s} |-> owner'[t]]
    BY <1>4 DEF Under
  <2>2. \A t \in LiveSku \cup {s} : owner'[t] = IF t = s THEN p ELSE Under[t]
    BY <1>1, UnderIs DEF LiveSku
  <2> QED
    BY <2>1, <2>2, UnderIs
<1>7. s \notin DOMAIN Under \cup EndedSkus
  BY <1>5, UnderIs
<1>8. UNCHANGED productsAsSeen
  BY <1>1 DEF productsAsSeen, OnShelf, Offered, EndedSpus
<1> QED
  BY <1>4, <1>5, <1>6, <1>7, <1>8 DEF Shelf!AddSku, OnShelf, productsAsSeen, Under,
     LiveSku, Offered, Buyable, EndedSpus, EndedSkus

(* A deleted SKU is taken away.                                            *)
LEMMA DeletionTakesSku ==
    ASSUME IInv, NEW s \in Skus, DeleteSku(s)
    PROVE  Shelf!RemoveSku(s)
<1>1. /\ sku[s].life = "live" /\ sku'[s] = Retired(sku[s]) /\ UNCHANGED <<spu, owner>>
      /\ \A t \in Skus \ {s} : sku'[t] = sku[t]
  BY DEF DeleteSku, IInv, TypeOK
<1>2. sku'[s].life = "retired" /\ sku'[s].sales = "inactive"
  BY <1>1, RetiredFacts DEF IInv, TypeOK
<1>3. s \in LiveSku
  BY <1>1 DEF LiveSku
<1>4. Shelf!TakeSkus({s})
  BY <1>1, <1>2, <1>3, RetiringTakesSkus
<1>5. UNCHANGED productsAsSeen
  BY <1>1 DEF productsAsSeen, OnShelf, Offered, EndedSpus
<1>6. s \in DOMAIN Under
  BY <1>3, UnderIs
<1> QED
  BY <1>4, <1>5, <1>6 DEF Shelf!RemoveSku, productsAsSeen, OnShelf, Offered, EndedSpus,
     Under, LiveSku

(* The commit of delete_spu takes the product and every SKU under it.      *)
LEMMA DeletionTakesProduct ==
    ASSUME DeletionInv, NEW w \in Workers, DeleteSpu(w),
           NEW p \in Products, p = product[w]
    PROVE  Shelf!RemoveProduct(p)
<1>0. PICK S \in SUBSET Skus : S = {s \in DOMAIN Under : Under[s] = p}
  BY UnderIs DEF LiveSku
<1>1. /\ phase[w] = "cascading" /\ UNCHANGED owner
      /\ spu'[p] = Retired(spu[p]) /\ \A q \in Products \ {p} : spu'[q] = spu[q]
      /\ \A s \in Skus : sku'[s] = IF s \in victims[w] /\ sku[s].life = "live"
                                   THEN Retired(sku[s]) ELSE sku[s]
  BY DEF DeleteSpu, CommitProduct, DeletionInv, IInv, TypeOK
<1>2. /\ spu[p].life = "live" /\ spu'[p].life = "retired" /\ spu'[p].sales = "inactive"
  BY <1>1, RetiredFacts DEF DeletionInv, IInv, HoldInv, TypeOK
<1>3. S = LiveSkus(p)
  BY <1>0, UnderIs DEF LiveSkus, LiveSku
<1>4. S \subseteq LiveSku /\ \A s \in S : s \in victims[w] /\ sku[s].life = "live"
  BY <1>1, <1>3 DEF DeletionInv, LiveSkus, LiveSku
<1>5. ASSUME NEW s \in S
      PROVE  sku'[s].life = "retired" /\ sku'[s].sales = "inactive"
  <2>1. s \in Skus /\ sku'[s] = Retired(sku[s])
    BY <1>1, <1>4 DEF LiveSku
  <2> QED
    BY <2>1, RetiredFacts DEF DeletionInv, IInv, TypeOK
<1>6. ASSUME NEW s \in Skus \ S PROVE sku'[s] = sku[s]
  BY <1>1, <1>3, <1>6 DEF DeletionInv, LiveSkus
<1>7. Shelf!TakeSkus(S)
  BY <1>1, <1>4, <1>5, <1>6, RetiringTakesSkus
<1>8. p \in OnShelf /\ OnShelf' = OnShelf \ {p} /\ Offered' = Offered \ {p}
      /\ EndedSpus' = EndedSpus \cup {p}
  BY <1>1, <1>2 DEF OnShelf, Offered, EndedSpus
<1> QED
  BY <1>0, <1>7, <1>8 DEF Shelf!RemoveProduct, Shelf!TakeSkus, OnShelf,
     Offered, EndedSpus, Under, LiveSku

(* Every step is a step of the shelf, or leaves it as it is.               *)
LEMMA StepIsShelfStep ==
    ASSUME DeletionInv, [Next]_vars
    PROVE  [Shelf!Next]_(Shelf!vars)
<1>0. TypeOK /\ HoldInv /\ IInv
  BY DEF DeletionInv, IInv
<1>1. ASSUME NEW p \in Products, CreateSpu(p) PROVE Shelf!Next
  BY <1>0, <1>1, InsertionAddsProduct DEF Shelf!Next
<1>2. ASSUME NEW p \in Products, NEW st \in Statuses, UpdateSpu(p, st)
      PROVE  Shelf!Next
  <2>1. spu'[p] = WithStatus(spu[p], st) /\ spu[p] \in Row
    BY <1>0, <1>2 DEF UpdateSpu, CommitProduct, TypeOK
  <2>2. Shelf!SwitchProduct(p)
    BY <1>0, <1>2, <2>1, WithStatusFacts, CommitSwitchesProduct DEF UpdateSpu,
       CommitProduct, TypeOK
  <2> QED
    BY <2>2 DEF Shelf!Next
<1>3. ASSUME NEW p \in Products, ArchiveSpu(p) PROVE Shelf!Next
  <2>1. spu[p].life = "live" /\ spu'[p].life = "live"
    BY <1>0, <1>3, ArchivedFacts DEF ArchiveSpu, CommitProduct, TypeOK
  <2>2. Shelf!SwitchProduct(p)
    BY <1>0, <1>3, <2>1, CommitSwitchesProduct DEF ArchiveSpu, CommitProduct, TypeOK
  <2> QED
    BY <2>2 DEF Shelf!Next
<1>4. ASSUME NEW s \in Skus, DeleteSku(s) PROVE Shelf!Next
  BY <1>0, <1>4, DeletionTakesSku DEF Shelf!Next
<1>5. ASSUME NEW w \in Workers, PublishSpu(w), spu' # spu
      PROVE  Shelf!Next
  <2>1. PICK p \in Products : p = product[w]
    BY <1>0 DEF TypeOK
  <2>2. /\ spu[p].life = "live" /\ UNCHANGED <<sku, owner>>
        /\ spu' = [spu EXCEPT ![p] = WithStatus(spu[p], "active")]
    BY <1>5, <2>1 DEF PublishSpu, CommitProduct
  <2>3. spu'[p] = WithStatus(spu[p], "active") /\ spu[p] \in Row /\ "active" \in Statuses
        /\ \A q \in Products \ {p} : spu'[q] = spu[q]
    BY <1>0, <2>2 DEF TypeOK, Statuses
  <2>4. Shelf!SwitchProduct(p)
    BY <2>2, <2>3, WithStatusFacts, CommitSwitchesProduct
  <2> QED
    BY <2>4 DEF Shelf!Next
<1>6. ASSUME NEW w \in Workers, DeleteSpu(w) PROVE Shelf!Next
  <2>1. PICK p \in Products : p = product[w]
    BY <1>0 DEF TypeOK
  <2>2. Shelf!RemoveProduct(p)
    BY <1>6, <2>1, DeletionTakesProduct
  <2> QED
    BY <2>2 DEF Shelf!Next
<1>7. ASSUME NEW w \in Workers, CreateSku(w) PROVE Shelf!Next
  <2>1. PICK s \in Skus, p \in Products : s = item[w] /\ p = product[w]
    BY <1>0 DEF TypeOK
  <2>2. Shelf!AddSku(s, p)
    BY <1>7, <2>1, InsertionAddsSku
  <2> QED
    BY <2>2 DEF Shelf!Next
<1>8. ASSUME NEW w \in Workers, NEW st \in Statuses, UpdateSku(w, st) PROVE Shelf!Next
  <2>1. PICK s \in Skus : s = item[w]
    BY <1>0 DEF TypeOK
  <2>2. /\ sku[s].life = "live" /\ sku[s] \in Row /\ UNCHANGED <<spu, owner>>
        /\ sku'[s] = WithStatus(sku[s], st) /\ \A t \in Skus \ {s} : sku'[t] = sku[t]
    BY <1>0, <1>8, <2>1 DEF UpdateSku, TypeOK, HoldInv
  <2>3. Shelf!SwitchSku(s)
    BY <2>2, WithStatusFacts, CommitSwitchesSku
  <2> QED
    BY <2>3 DEF Shelf!Next
<1>9. CASE UNCHANGED rows
  BY <1>9 DEF Shelf!vars
<1> QED
  BY <1>1, <1>2, <1>3, <1>4, <1>5, <1>6, <1>7, <1>8, <1>9 DEF Next, Progress, vars,
     PublishSpu, StartCascade, Abort, LockSku, CountSkus, RetireSpu, ResolveProduct

(* ShelfSpec: whatever statements, locks and cascades it takes, someone    *)
(* who browses sees products come and go in one step with all their SKUs   *)
(* and for good, as long as no creation overlaps the deletion of its       *)
(* product (create_sku, delete_spu, delete_sku, update_spu, update_sku).   *)
THEOREM ImplementsShelf == Spec /\ []CreationsApart => ShelfSpec
<1>1. Init => Shelf!Init
  <2> SUFFICES ASSUME Init PROVE Shelf!Init
    OBVIOUS
  <2>1. /\ \A p \in Products : spu[p].life = "unborn" /\ spu[p].sales = "inactive"
        /\ \A s \in Skus : sku[s].life = "unborn" /\ sku[s].sales = "inactive"
    BY DEF Init, Unborn
  <2>2. OnShelf = {} /\ Offered = {} /\ EndedSpus = {} /\ LiveSku = {} /\ Buyable = {}
        /\ EndedSkus = {}
    BY <2>1 DEF OnShelf, Offered, EndedSpus, LiveSku, Buyable, EndedSkus
  <2>3. Under = [s \in {} |-> {}]
    BY <2>2 DEF Under
  <2> QED
    BY <2>2, <2>3 DEF Shelf!Init, OnShelf, Offered, EndedSpus, LiveSku, Under, Buyable,
       EndedSkus
<1>2. DeletionInv /\ [Next]_vars => [Shelf!Next]_(Shelf!vars)
  BY StepIsShelfStep
<1> QED
  BY <1>1, <1>2, DeletionInvariance, PTL DEF Spec, ShelfSpec, Shelf!Spec
===============================================================================
