------------------------- MODULE VariantAxes_proofs -------------------------
(***************************************************************************)
(* Proofs about VariantAxes, for any SKUs, dictionary, categories and      *)
(* workers.                                                                *)
(*                                                                         *)
(* The pre-check plays no part in them.  Uniqueness rests on ClaimInv: a   *)
(* written signature conflicts with no committed row and with no other     *)
(* written one, because the index made its writer wait; HoldInv keeps the  *)
(* row it is written to from changing until the commit.                    *)
(***************************************************************************)
EXTENDS VariantAxes, TLAPS

USE DEF catalog, request

(* Signatures are never empty, and a row built from a claim is a row.      *)
LEMMA SignatureFacts ==
    ASSUME NEW s \in Skus, NEW axes \in SUBSET Values
    PROVE  /\ Signature(s, axes) \in Signatures
           /\ [life |-> "live", signature |-> Signature(s, axes), axes |-> axes] \in Row
           /\ Unborn(s) \in Row
  BY DEF Signature, Signatures, Row, Unborn

-------------------------------------------------------------------------------
(* What one step can do to a SKU and to the workers.                       *)

SkuKept(s) == sku'[s] = sku[s]
SkuRetired(s) ==
    /\ Live(s) /\ ~Locked(s)
    /\ sku'[s] = [sku[s] EXCEPT !.life = "retired"]
    /\ UNCHANGED <<phase, op, item, submitted>>
SkuWritten(s, w) ==
    /\ phase[w] = "written" /\ item[w] = s
    /\ sku'[s] = [life |-> "live", signature |-> Claim(w), axes |-> submitted[w]]
    /\ phase' = [phase EXCEPT ![w] = "answered"]
    /\ UNCHANGED <<op, item, submitted, declared>>

(* A step keeps, retires or writes a SKU, and only one SKU changes.        *)
LEMMA SkuStep ==
    ASSUME TypeOK, [Next]_vars
    PROVE  \/ \A s \in Skus : SkuKept(s)
           \/ \E s \in Skus :
                 /\ SkuRetired(s) \/ \E w \in Workers : SkuWritten(s, w)
                 /\ \A t \in Skus \ {s} : SkuKept(t)
<1> DEFINE Changed(s) == /\ SkuRetired(s) \/ \E w \in Workers : SkuWritten(s, w)
                         /\ \A t \in Skus \ {s} : SkuKept(t)
<1>1. ASSUME NEW s \in Skus, DeleteSku(s) PROVE Changed(s)
  BY <1>1 DEF DeleteSku, SkuKept, SkuRetired, TypeOK
<1>2. ASSUME NEW w \in Workers, CommitVariant(w), item[w] \in Skus
      PROVE  Changed(item[w])
  BY <1>2 DEF CommitVariant, Advance, SkuKept, SkuWritten, TypeOK
<1>3. ASSUME NEW w \in Workers, CommitVariant(w), item[w] \notin Skus
      PROVE  \A s \in Skus : SkuKept(s)
  BY <1>3 DEF CommitVariant, SkuKept, TypeOK
<1>4. CASE UNCHANGED sku
  BY <1>4 DEF SkuKept
<1> QED
  BY <1>1, <1>2, <1>3, <1>4 DEF Next, vars, Rebind, MoveProduct, ReadCategory,
     ResolveAxes, CheckVariant, WriteVariant, CommitKept, AttachAxes, Respond,
     Abort, RetrieveSku, LockSku, BeginCreate, Begin

WorkerKept(v) ==
    /\ phase'[v] = phase[v] /\ op'[v] = op[v] /\ item'[v] = item[v]
    /\ submitted'[v] = submitted[v] /\ seen'[v] = seen[v]
Onward(w, from, to) ==
    /\ phase[w] = from /\ phase'[w] = to
    /\ op'[w] = op[w] /\ item'[w] = item[w] /\ submitted'[w] = submitted[w]
    /\ UNCHANGED <<sku, declared>>
WorkerEnded(w) ==
    /\ phase'[w] \notin Writing
    /\ phase'[w] # "idle" =>
          item'[w] \in Skus \/ (phase[w] # "idle" /\ item'[w] = item[w])
WorkerBegan(w) ==
    /\ phase[w] = "idle" /\ phase'[w] = "open" /\ item'[w] \in Skus
    /\ \/ /\ op'[w] = "create" /\ sku[item'[w]].life = "unborn"
          /\ \A v \in Workers : phase[v] # "idle" /\ op[v] = "create"
                                    => item[v] # item'[w]
       \/ op'[w] \in {"replace", "keep"} /\ Live(item'[w]) /\ ~Locked(item'[w])
    /\ UNCHANGED <<sku, declared>>
WorkerAdvanced(w) ==
    \/ Onward(w, "open", "placed") /\ op[w] # "keep" /\ seen'[w] = category
    \/ /\ Onward(w, "placed", "resolved")
       /\ AttributesOf(submitted[w]) = axesOf[seen[w]]
    \/ Onward(w, "resolved", "available")
    \/ /\ Onward(w, "available", "written") /\ OneValueEach(submitted[w])
       /\ ~Taken(item[w], Claim(w)) /\ ~Claimed(w)
WorkerMoved(w) == WorkerEnded(w) \/ WorkerBegan(w) \/ WorkerAdvanced(w)

(* At most one worker moves in a step.                                     *)
LEMMA WorkerStep ==
    ASSUME TypeOK, [Next]_vars
    PROVE  \/ \A v \in Workers : WorkerKept(v)
           \/ \E w \in Workers :
                 WorkerMoved(w) /\ \A v \in Workers \ {w} : WorkerKept(v)
<1> DEFINE Moved(w) == WorkerMoved(w) /\ \A v \in Workers \ {w} : WorkerKept(v)
<1> USE DEF TypeOK, WorkerKept, WorkerMoved
<1>1. ASSUME NEW w \in Workers, Respond(w) \/ Abort(w) PROVE Moved(w)
  BY <1>1 DEF Respond, Abort, Forget, WorkerEnded, Writing
<1>2. ASSUME NEW w \in Workers, CommitVariant(w) \/ AttachAxes(w) \/ CommitKept(w)
      PROVE  Moved(w)
  <2>1. CASE CommitVariant(w)
    BY <2>1 DEF CommitVariant, Advance, WorkerEnded, Writing
  <2>2. CASE AttachAxes(w)
    BY <2>2 DEF AttachAxes, Advance, WorkerEnded, Writing
  <2>3. CASE CommitKept(w)
    BY <2>3 DEF CommitKept, Advance, WorkerEnded, Writing
  <2> QED
    BY <1>2, <2>1, <2>2, <2>3
<1>3. ASSUME NEW w \in Workers, NEW s \in Skus, RetrieveSku(w, s) PROVE Moved(w)
  <2>1. phase' = [phase EXCEPT ![w] = "loading"] /\ item' = [item EXCEPT ![w] = s]
    BY <1>3 DEF RetrieveSku, Advance
  <2>2. WorkerEnded(w)
    BY <2>1 DEF WorkerEnded, Writing
  <2> QED
    BY <1>3, <2>1, <2>2 DEF RetrieveSku
<1>4. ASSUME NEW w \in Workers, NEW s \in Skus, NEW values \in SUBSET Values,
             BeginCreate(w, s, values)
      PROVE  Moved(w)
  BY <1>4 DEF BeginCreate, Begin, WorkerBegan
<1>5. ASSUME NEW w \in Workers, NEW s \in Skus, NEW values \in SUBSET Values,
             NEW operation \in {"replace", "keep"}, LockSku(w, operation, s, values)
      PROVE  Moved(w)
  BY <1>5 DEF LockSku, Begin, WorkerBegan
<1>6. ASSUME NEW w \in Workers, ReadCategory(w) PROVE Moved(w)
  BY <1>6 DEF ReadCategory, Advance, WorkerAdvanced, Onward
<1>7. ASSUME NEW w \in Workers, ResolveAxes(w) PROVE Moved(w)
  BY <1>7 DEF ResolveAxes, Advance, WorkerAdvanced, Onward
<1>8. ASSUME NEW w \in Workers, CheckVariant(w) PROVE Moved(w)
  BY <1>8 DEF CheckVariant, Advance, WorkerAdvanced, Onward
<1>9. ASSUME NEW w \in Workers, WriteVariant(w) PROVE Moved(w)
  BY <1>9 DEF WriteVariant, Advance, WorkerAdvanced, Onward
<1>10. CASE UNCHANGED <<phase, op, item, submitted, seen>>
  BY <1>10
<1>11. {} \in SUBSET Values
  OBVIOUS
<1> HIDE DEF WorkerKept, WorkerMoved
<1> QED
  BY <1>1, <1>2, <1>3, <1>4, <1>5, <1>6, <1>7, <1>8, <1>9, <1>10, <1>11
     DEF Next, vars, DeleteSku, Rebind, MoveProduct

(* No axis set is ever forgotten, and every category declares one of them. *)
LEMMA DeclaredStep ==
    ASSUME TypeOK, DeclaredInv, [Next]_vars
    PROVE  declared \subseteq declared' /\ DeclaredInv'
<1>1. ASSUME NEW k \in Categories, NEW a \in Attributes, Rebind(k, a)
      PROVE  declared \subseteq declared' /\ DeclaredInv'
  BY <1>1 DEF Rebind, DeclaredInv, TypeOK
<1>2. CASE UNCHANGED <<axesOf, declared>>
  BY <1>2 DEF DeclaredInv
<1> QED
  BY <1>1, <1>2 DEF Next, vars, MoveProduct, DeleteSku, ReadCategory,
     ResolveAxes, CheckVariant, WriteVariant, CommitVariant, CommitKept,
     AttachAxes, Respond, Abort, RetrieveSku, LockSku, BeginCreate, Begin

-------------------------------------------------------------------------------
(* The invariant is inductive.                                             *)

(* A step keeps every variable of its type.                                *)
LEMMA TypeStep ==
    ASSUME IInv, [Next]_vars
    PROVE  TypeOK'
<1> USE DEF IInv, TypeOK
<1>1. ASSUME NEW k \in Categories, NEW a \in Attributes, Rebind(k, a) PROVE TypeOK'
  <2>1. axesOf' \in [Categories -> SUBSET Attributes]
    BY <1>1 DEF Rebind
  <2>2. declared' \subseteq SUBSET Attributes
    BY <1>1, <2>1 DEF Rebind
  <2>3. rebindings' \in 0..MaxRebindings
    BY <1>1, MaxRebindingsAssumption DEF Rebind
  <2> QED
    BY <1>1, <2>1, <2>2, <2>3 DEF Rebind
<1>2. ASSUME NEW k \in Categories, MoveProduct(k) PROVE TypeOK'
  BY <1>2 DEF MoveProduct
<1>3. ASSUME NEW s \in Skus, DeleteSku(s) PROVE TypeOK'
  BY <1>3 DEF DeleteSku, Row
<1>4. ASSUME NEW w \in Workers, ReadCategory(w) PROVE TypeOK'
  BY <1>4 DEF ReadCategory, Advance, Phases
<1>5. ASSUME NEW w \in Workers, ResolveAxes(w) PROVE TypeOK'
  BY <1>5 DEF ResolveAxes, Advance, Phases
<1>6. ASSUME NEW w \in Workers, CheckVariant(w) \/ WriteVariant(w) PROVE TypeOK'
  BY <1>6 DEF CheckVariant, WriteVariant, Advance, Phases
<1>7. ASSUME NEW w \in Workers, CommitVariant(w) PROVE TypeOK'
  <2>1. item[w] \in Skus /\ submitted[w] \in SUBSET Values
    BY <1>7 DEF CommitVariant, Advance, HoldInv
  <2>2. Claim(w) \in Signatures
    BY <2>1, SignatureFacts DEF Claim
  <2>3. sku' \in [Skus -> Row]
    BY <1>7, <2>1, <2>2 DEF CommitVariant, Row
  <2>4. answer' \in [Workers -> [signature : Signatures \cup {{}}, axes : SUBSET Values]]
    BY <1>7, <2>1, <2>2 DEF CommitVariant
  <2> QED
    BY <1>7, <2>3, <2>4 DEF CommitVariant, Advance, Phases
<1>8. ASSUME NEW w \in Workers, NEW s \in Skus, RowRead(w, s)
      PROVE  answer' \in [Workers -> [signature : Signatures \cup {{}}, axes : SUBSET Values]]
  BY <1>8 DEF RowRead, Row
<1>9. ASSUME NEW w \in Workers, CommitKept(w) PROVE TypeOK'
  <2>1. item[w] \in Skus
    BY <1>9 DEF CommitKept, Advance, HoldInv
  <2> QED
    BY <1>8, <1>9, <2>1 DEF CommitKept, Advance, Phases
<1>10. ASSUME NEW w \in Workers, NEW s \in Skus, RetrieveSku(w, s) PROVE TypeOK'
  BY <1>8, <1>10 DEF RetrieveSku, Advance, Phases, Ops
<1>11. ASSUME NEW w \in Workers, AttachAxes(w) PROVE TypeOK'
  <2>1. sku[item[w]].axes \in SUBSET Values
    BY <1>11 DEF AttachAxes, Advance, HoldInv, Row
  <2>2. answer' \in [Workers -> [signature : Signatures \cup {{}}, axes : SUBSET Values]]
    BY <1>11, <2>1 DEF AttachAxes
  <2> QED
    BY <1>11, <2>2 DEF AttachAxes, Advance, Phases
<1>12. ASSUME NEW w \in Workers, Respond(w) \/ Abort(w) PROVE TypeOK'
  <2>1. NoAnswer \in [signature : Signatures \cup {{}}, axes : SUBSET Values]
    BY DEF NoAnswer
  <2>2. Forget(w) /\ UNCHANGED <<sku, catalog>>
    BY <1>12 DEF Respond, Abort
  <2>3. /\ answer' \in [Workers -> [signature : Signatures \cup {{}},
                                    axes : SUBSET Values]]
        /\ item' \in [Workers -> Skus \cup {None}]
        /\ submitted' \in [Workers -> SUBSET Values]
    BY <2>1, <2>2 DEF Forget
  <2> QED
    BY <2>2, <2>3 DEF Forget, Phases, Ops
<1>13. ASSUME NEW w \in Workers, NEW s \in Skus, NEW values \in SUBSET Values,
              NEW operation \in Ops, Begin(w, operation, s, values), UNCHANGED sku
       PROVE  TypeOK'
  BY <1>13 DEF Begin, Phases
<1>14. CASE UNCHANGED vars
  BY <1>14 DEF vars
<1>15. {} \in SUBSET Values /\ {"create", "replace", "keep"} \subseteq Ops
  BY DEF Ops
<1>16. ASSUME NEW w \in Workers, NEW s \in Skus, NEW values \in SUBSET Values,
              BeginCreate(w, s, values)
       PROVE  TypeOK'
  BY <1>13, <1>15, <1>16 DEF BeginCreate, Begin
<1>17. ASSUME NEW w \in Workers, NEW s \in Skus, NEW values \in SUBSET Values,
              NEW operation \in Ops, LockSku(w, operation, s, values)
       PROVE  TypeOK'
  BY <1>13, <1>17 DEF LockSku, Begin
<1> HIDE DEF IInv, TypeOK
<1> QED
  BY <1>1, <1>2, <1>3, <1>4, <1>5, <1>6, <1>7, <1>9, <1>10, <1>11, <1>12, <1>14,
     <1>15, <1>16, <1>17 DEF Next

(* A row that is being written does not change under its writer, and is    *)
(* never given to a second one.                                            *)
LEMMA HoldStep ==
    ASSUME IInv, [Next]_vars
    PROVE  HoldInv'
<1> USE DEF IInv
<1>1. \A v \in Workers : phase'[v] # "idle" => item'[v] \in Skus
  BY WorkerStep DEF WorkerKept, WorkerMoved, WorkerEnded, WorkerBegan,
     WorkerAdvanced, Onward, HoldInv
<1>2. ASSUME NEW w \in Workers, phase'[w] \in Writing
      PROVE  /\ op'[w] \in {"create", "replace", "keep"}
             /\ sku'[item'[w]].life = IF op'[w] = "create" THEN "unborn" ELSE "live"
  <2>1. CASE WorkerBegan(w)
    BY <2>1 DEF WorkerBegan, Live
  <2>2. CASE WorkerAdvanced(w)
    BY <2>2 DEF WorkerAdvanced, Onward, HoldInv, Writing
  <2>3. CASE WorkerKept(w)
    <3>1. /\ phase[w] \in Writing /\ item[w] \in Skus
          /\ op[w] \in {"create", "replace", "keep"}
          /\ sku[item[w]].life = IF op[w] = "create" THEN "unborn" ELSE "live"
      BY <1>2, <2>3 DEF WorkerKept, HoldInv, Writing
    <3>2. ASSUME SkuRetired(item[w]) PROVE FALSE
      BY <3>1, <3>2, <2>3 DEF SkuRetired, Locked, Live, Writing, TypeOK, Ops
    <3>3. ASSUME NEW v \in Workers, SkuWritten(item[w], v) PROVE FALSE
      BY <1>2, <2>3, <3>1, <3>3 DEF SkuWritten, WorkerKept, HoldInv, Writing, TypeOK
    <3>4. sku'[item[w]] = sku[item[w]]
      BY <3>1, <3>2, <3>3, SkuStep DEF SkuKept
    <3> QED
      BY <2>3, <3>1, <3>4 DEF WorkerKept
  <2>4. CASE WorkerEnded(w)
    BY <1>2, <2>4 DEF WorkerEnded
  <2> QED
    BY <2>1, <2>2, <2>3, <2>4, WorkerStep DEF WorkerMoved
<1>3. ASSUME NEW v \in Workers, NEW w \in Workers, v # w,
             phase'[v] \in Writing, phase'[w] \in Writing, item'[v] = item'[w]
      PROVE  FALSE
  <2>1. ASSUME NEW x \in Workers, NEW y \in Workers, x # y, WorkerKept(y),
               phase[y] \in Writing, WorkerBegan(x), item'[x] = item[y]
        PROVE  FALSE
    BY <2>1 DEF WorkerBegan, HoldInv, Live, Locked, Writing, TypeOK, Ops
  <2>2. ASSUME NEW x \in Workers, NEW y \in Workers, x # y, WorkerKept(y),
               WorkerMoved(x), phase'[x] \in Writing, phase'[y] \in Writing,
               item'[x] = item'[y]
        PROVE  FALSE
    <3>1. phase[y] \in Writing /\ item'[x] = item[y]
      BY <2>2 DEF WorkerKept
    <3>2. CASE WorkerAdvanced(x)
      BY <2>2, <3>1, <3>2 DEF WorkerAdvanced, Onward, HoldInv, Writing
    <3> QED
      BY <2>1, <2>2, <3>1, <3>2 DEF WorkerMoved, WorkerEnded
  <2> QED
    BY <1>3, <2>2, WorkerStep DEF WorkerKept, HoldInv
<1> QED
  BY <1>1, <1>2, <1>3 DEF HoldInv

(* What was resolved was declared, and a declared set is never forgotten.  *)
LEMMA ResolvedStep ==
    ASSUME IInv, TypeOK', [Next]_vars
    PROVE  ResolvedInv'
<1> USE DEF IInv
<1>1. SUFFICES ASSUME NEW w \in Workers
      PROVE  /\ phase'[w] = "placed" => seen'[w] \in Categories
             /\ op'[w] = "keep" => phase'[w] \notin (Writing \ {"open"})
             /\ phase'[w] \in {"resolved", "available", "written"} =>
                   AttributesOf(submitted'[w]) \in declared'
  BY DEF ResolvedInv, AttributesOf
<1>2. declared \subseteq declared' /\ category \in Categories
  BY DeclaredStep DEF TypeOK
<1>3. CASE WorkerKept(w)
  BY <1>2, <1>3 DEF WorkerKept, ResolvedInv
<1>4. CASE WorkerEnded(w) \/ WorkerBegan(w)
  BY <1>4 DEF WorkerEnded, WorkerBegan, Writing
<1>5. CASE WorkerAdvanced(w)
  <2>1. ASSUME Onward(w, "placed", "resolved"),
               AttributesOf(submitted[w]) = axesOf[seen[w]]
        PROVE  AttributesOf(submitted[w]) \in declared
    BY <2>1 DEF Onward, ResolvedInv, DeclaredInv
  <2> QED
    BY <1>2, <1>5, <2>1 DEF WorkerAdvanced, Onward, ResolvedInv, Writing
<1> QED
  BY <1>3, <1>4, <1>5, WorkerStep DEF WorkerMoved

(* A claim that conflicts with nothing when it is written conflicts with   *)
(* nothing until it is committed: others had to wait for it.               *)
LEMMA ClaimStep ==
    ASSUME IInv, [Next]_vars
    PROVE  ClaimInv'
<1> USE DEF IInv
<1>1. SUFFICES ASSUME NEW w \in Workers, phase'[w] = "written"
      PROVE  OneValueEach(submitted'[w]) /\ ~Taken(item[w], Claim(w))' /\ ~Claimed(w)'
  BY DEF ClaimInv, OneValueEach, Taken
<1>2. /\ item'[w] = item[w] /\ submitted'[w] = submitted[w]
      /\ OneValueEach(submitted[w]) /\ ~Taken(item[w], Claim(w)) /\ ~Claimed(w)
  <2>1. CASE WorkerKept(w)
    BY <1>1, <2>1 DEF WorkerKept, ClaimInv
  <2>2. CASE WorkerMoved(w)
    BY <1>1, <2>2 DEF WorkerMoved, WorkerEnded, WorkerBegan, WorkerAdvanced,
       Onward, Writing
  <2> QED
    BY <2>1, <2>2, WorkerStep
<1>3. Claim(w)' = Claim(w)
  BY <1>2 DEF Claim, Signature
<1>4. ~Taken(item[w], Claim(w))'
  <2>1. ASSUME NEW t \in Skus \ {item[w]}, sku'[t].life = "live",
               sku'[t].signature = Claim(w)
        PROVE  FALSE
    <3>1. CASE SkuKept(t)
      BY <1>2, <2>1, <3>1 DEF SkuKept, Taken, Live
    <3>2. CASE SkuRetired(t)
      BY <2>1, <3>2 DEF SkuRetired, TypeOK, Row
    <3>3. ASSUME NEW v \in Workers, SkuWritten(t, v) PROVE FALSE
      <4>1. v # w /\ Claim(v) = Claim(w)
        BY <2>1, <3>3 DEF SkuWritten
      <4>2. phase[w] = "written"
        BY <1>1, <3>3, <4>1 DEF SkuWritten, TypeOK
      <4> QED
        BY <1>2, <3>3, <4>1, <4>2 DEF SkuWritten, Claimed
    <3> QED
      BY <2>1, <3>1, <3>2, <3>3, SkuStep
  <2> QED
    BY <1>2, <1>3, <2>1 DEF Taken, Live
<1>5. ~Claimed(w)'
  <2>1. ASSUME NEW v \in Workers \ {w}, phase'[v] = "written", Claim(v)' = Claim(w)
        PROVE  FALSE
    <3>1. CASE WorkerKept(v)
      <4>1. phase[v] = "written" /\ Claim(v) = Claim(w)
        BY <2>1, <3>1 DEF WorkerKept, Claim, Signature
      <4> QED
        BY <1>2, <4>1 DEF Claimed
    <3>2. CASE WorkerMoved(v) /\ WorkerKept(w)
      <4>1. Onward(v, "available", "written") /\ ~Claimed(v) /\ phase[w] = "written"
        BY <1>1, <2>1, <3>2 DEF WorkerMoved, WorkerKept, WorkerEnded, WorkerBegan,
           WorkerAdvanced, Onward, Writing
      <4>2. Claim(v) = Claim(w)
        BY <2>1, <4>1 DEF Onward, Claim, Signature
      <4> QED
        BY <4>1, <4>2 DEF Claimed
    <3> QED
      BY <2>1, <3>1, <3>2, WorkerStep
  <2> QED
    BY <1>3, <2>1 DEF Claimed
<1> QED
  BY <1>2, <1>4, <1>5

(* What a step leaves live is what was live, or a commit of a claim.       *)
LEMMA LiveStep ==
    ASSUME IInv, [Next]_vars, NEW s \in Skus, Live(s)'
    PROVE  SkuKept(s) \/ \E w \in Workers : SkuWritten(s, w)
  BY SkuStep DEF Live, SkuRetired, IInv, TypeOK, Row

(* The live rows keep distinct signatures.                                 *)
LEMMA UniqueStep ==
    ASSUME IInv, [Next]_vars
    PROVE  UniqueInv'
<1> USE DEF IInv
<1>1. ASSUME NEW s \in Skus, NEW t \in Skus, s # t, Live(s)', Live(t)', SkuKept(t),
             sku'[s].signature = sku'[t].signature
      PROVE  FALSE
  <2>1. CASE SkuKept(s)
    BY <1>1, <2>1 DEF SkuKept, UniqueInv, Live
  <2>2. ASSUME NEW w \in Workers, SkuWritten(s, w) PROVE FALSE
    BY <1>1, <2>2 DEF SkuWritten, SkuKept, ClaimInv, Taken, Live
  <2> QED
    BY <1>1, <2>1, <2>2, LiveStep
<1>2. ASSUME NEW s \in Skus, NEW t \in Skus, s # t PROVE SkuKept(s) \/ SkuKept(t)
  BY <1>2, SkuStep
<1>3. ASSUME NEW s \in Skus, NEW t \in Skus, s # t, Live(s)', Live(t)'
      PROVE  sku'[s].signature # sku'[t].signature
  BY <1>1, <1>2, <1>3
<1> QED
  BY <1>3 DEF UniqueInv, Live

(* A committed row is what its claim was: whole, and with one value each.  *)
LEMMA RowStep ==
    ASSUME IInv, [Next]_vars
    PROVE  SignatureDescribesAxes' /\ OneValuePerAxis' /\ NeverPartial'
<1> USE DEF IInv
<1>1. SUFFICES ASSUME NEW s \in Skus, Live(s)'
      PROVE  /\ sku'[s].signature = Signature(s, sku'[s].axes)
             /\ OneValueEach(sku'[s].axes)
             /\ AttributesOf(sku'[s].axes) \in declared'
  BY DEF SignatureDescribesAxes, OneValuePerAxis, NeverPartial, Live, Signature,
     OneValueEach, AttributesOf
<1>2. declared \subseteq declared'
  BY DeclaredStep
<1>3. CASE SkuKept(s)
  BY <1>1, <1>2, <1>3 DEF SkuKept, SignatureDescribesAxes, OneValuePerAxis,
     NeverPartial, Live
<1>4. ASSUME NEW w \in Workers, SkuWritten(s, w)
      PROVE  /\ sku'[s].signature = Signature(s, sku'[s].axes)
             /\ OneValueEach(sku'[s].axes)
             /\ AttributesOf(sku'[s].axes) \in declared'
  BY <1>2, <1>4 DEF SkuWritten, Claim, ClaimInv, ResolvedInv
<1> QED
  BY <1>1, <1>3, <1>4, LiveStep

(* The initial states satisfy the invariant.                               *)
LEMMA InitIInv == Init => IInv
<1> SUFFICES ASSUME Init PROVE IInv
  OBVIOUS
<1> USE DEF Init
<1>1. TypeOK
  <2>1. sku \in [Skus -> Row]
    BY SignatureFacts
  <2>2. NoAnswer \in [signature : Signatures \cup {{}}, axes : SUBSET Values]
    BY DEF NoAnswer
  <2> QED
    BY <2>1, <2>2, MaxRebindingsAssumption DEF TypeOK, Phases, Ops
<1>2. \A s \in Skus : ~Live(s)
  BY DEF Live, Unborn
<1> QED
  BY <1>1, <1>2 DEF IInv, HoldInv, ResolvedInv, ClaimInv, UniqueInv, DeclaredInv,
     SignatureDescribesAxes, OneValuePerAxis, NeverPartial, Writing

(* Every step keeps it.                                                    *)
LEMMA NextIInv == IInv /\ [Next]_vars => IInv'
  BY TypeStep, HoldStep, ResolvedStep, ClaimStep, UniqueStep, RowStep, DeclaredStep
     DEF IInv

-------------------------------------------------------------------------------
(* The theorems.                                                           *)

(* The inductive invariant: held rows do not change, written signatures    *)
(* conflict with nothing, live rows have distinct signatures that describe *)
(* their axes (create_sku, update_sku and the two unique indexes).         *)
THEOREM Invariance == Spec => []IInv
  BY InitIInv, NextIInv, PTL DEF Spec

(* One live SKU per axis combination (uk_commerce_product_sku_variant).    *)
THEOREM OnePerCombination == Spec => []OneSkuPerCombination
<1>1. IInv => OneSkuPerCombination
  <2>1. ASSUME IInv, NEW s \in Skus, NEW t \in Skus, Live(s), Live(t), s # t,
               sku[s].axes # {}, sku[s].axes = sku[t].axes
        PROVE  FALSE
    <3>1. /\ sku[s].signature = Signature(s, sku[s].axes)
          /\ sku[t].signature = Signature(t, sku[t].axes)
          /\ sku[s].signature # sku[t].signature
      BY <2>1 DEF IInv, SignatureDescribesAxes, UniqueInv
    <3> QED
      BY <2>1, <3>1 DEF Signature
  <2> QED
    BY <2>1 DEF OneSkuPerCombination
<1> QED
  BY <1>1, Invariance, PTL

(* Every variable keeps its type; a signature is never empty.              *)
THEOREM TypeCorrect == Spec => []TypeOK
<1>1. IInv => TypeOK
  BY DEF IInv
<1> QED
  BY <1>1, Invariance, PTL

(* The stored signature is the one the stored axes give, whatever was      *)
(* replaced or aborted meanwhile (build_variant_signature).                *)
THEOREM SignaturesDescribe == Spec => []SignatureDescribesAxes
<1>1. IInv => SignatureDescribesAxes
  BY DEF IInv
<1> QED
  BY <1>1, Invariance, PTL

(* No live SKU has two values on one axis: the index on the axis rows holds *)
(* although the submission is deduplicated before it is compared.          *)
THEOREM OneValueOfAnAxis == Spec => []OneValuePerAxis
<1>1. IInv => OneValuePerAxis
  BY DEF IInv
<1> QED
  BY <1>1, Invariance, PTL

(* No live SKU has an incomplete or a double position (resolve_sku_axes).  *)
THEOREM WholePositions == Spec => [](OneValuePerAxis /\ NeverPartial)
<1>1. IInv => OneValuePerAxis /\ NeverPartial
  BY DEF IInv
<1> QED
  BY <1>1, Invariance, PTL

-------------------------------------------------------------------------------
(* The positions.                                                          *)

(* The live SKUs and those that are gone, as the abstract specification    *)
(* has them.                                                               *)
Position == [s \in {t \in Skus : Live(t)} |-> sku[s].axes]
Gone == {s \in Skus : sku[s].life = "retired"}

(* Values that cover a declared axis set, one on each axis, are a position. *)
LEMMA CoverIsPosition ==
    ASSUME NEW values \in SUBSET Values, AttributesOf(values) \in declared,
           OneValueEach(values)
    PROVE  Positions!IsPosition(values)
<1> DEFINE axes == AttributesOf(values)
<1>1. \A v \in values : AttributeOf[v] \in axes
  BY DEF AttributesOf
<1>2. ASSUME NEW a \in axes
      PROVE  \E v \in values : \A u \in values : AttributeOf[u] = a <=> u = v
  <2>1. PICK v \in values : AttributeOf[v] = a
    BY DEF AttributesOf
  <2>2. \A u \in values : AttributeOf[u] = a <=> u = v
    BY <2>1 DEF OneValueEach
  <2> QED
    BY <2>2
<1> HIDE DEF axes
<1>3. axes \in declared
  BY DEF axes
<1> QED
  BY <1>1, <1>2, <1>3 DEF Positions!IsPosition

(* A signature nobody has taken is a position at which no other SKU is.    *)
LEMMA UntakenIsFree ==
    ASSUME SignatureDescribesAxes, NEW s \in Skus, NEW values \in SUBSET Values,
           ~Taken(s, Signature(s, values))
    PROVE  Positions!Free(s, values)
<1>1. DOMAIN Position = {t \in Skus : Live(t)}
      /\ \A t \in DOMAIN Position : Position[t] = sku[t].axes
  BY DEF Position
<1>2. ASSUME values # {}, NEW t \in DOMAIN Position \ {s}, Position[t] = values
      PROVE  FALSE
  <2>1. t \in Skus \ {s} /\ Live(t) /\ sku[t].axes = values
    BY <1>1, <1>2
  <2>2. sku[t].signature = Signature(s, values)
    BY <1>2, <2>1 DEF SignatureDescribesAxes, Signature
  <2> QED
    BY <2>1, <2>2 DEF Taken
<1>3. values # {} => \A t \in DOMAIN Position \ {s} : Position[t] # values
  BY <1>2
<1> QED
  BY <1>3 DEF Positions!Free, Position

(* A commit puts its SKU at the submitted position and disturbs no other.  *)
LEMMA CommitPlaces ==
    ASSUME IInv, NEW w \in Workers, CommitVariant(w)
    PROVE  \E s \in Skus, values \in SUBSET Values : Positions!Place(s, values)
<1>1. PICK s \in Skus, values \in SUBSET Values : s = item[w] /\ values = submitted[w]
  BY DEF CommitVariant, Advance, IInv, HoldInv, TypeOK
<1>2. phase[w] = "written"
  BY DEF CommitVariant, Advance
<1>3. sku[s].life # "retired"
  BY <1>1, <1>2 DEF IInv, HoldInv, Writing
<1>4. Positions!IsPosition(values)
  BY <1>1, <1>2, CoverIsPosition DEF IInv, ResolvedInv, ClaimInv
<1>5. Positions!Free(s, values)
  BY <1>1, <1>2, UntakenIsFree DEF IInv, ClaimInv, Claim
<1>6. /\ sku'[s].life = "live" /\ sku'[s].axes = values
      /\ \A t \in Skus \ {s} : sku'[t] = sku[t]
      /\ declared' = declared
  BY <1>1 DEF CommitVariant, IInv, TypeOK
<1>7. /\ DOMAIN Position = {t \in Skus : Live(t)}
      /\ \A t \in DOMAIN Position : Position[t] = sku[t].axes
  BY DEF Position
<1>8. Position' = [t \in {u \in Skus : sku'[u].life = "live"} |-> sku'[t].axes]
  BY DEF Position, Live
<1>9. {u \in Skus : sku'[u].life = "live"} = DOMAIN Position \cup {s}
  BY <1>6, <1>7 DEF Live
<1>10. Position' = [t \in DOMAIN Position \cup {s} |->
                       IF t = s THEN values ELSE Position[t]]
  BY <1>6, <1>7, <1>8, <1>9
<1>11. Gone' = Gone /\ s \notin Gone
  BY <1>3, <1>6 DEF Gone
<1>12. Positions!Place(s, values)
  BY <1>4, <1>5, <1>6, <1>10, <1>11 DEF Positions!Place, Position, Gone
<1> QED
  BY <1>12

(* A deletion withdraws its SKU.                                           *)
LEMMA DeletionWithdraws ==
    ASSUME IInv, NEW s \in Skus, DeleteSku(s)
    PROVE  Positions!Withdraw(s)
<1>1. /\ Live(s) /\ sku'[s].life = "retired" /\ declared' = declared
      /\ \A t \in Skus \ {s} : sku'[t] = sku[t]
  BY DEF DeleteSku, IInv, TypeOK
<1>2. /\ DOMAIN Position = {t \in Skus : Live(t)}
      /\ \A t \in DOMAIN Position : Position[t] = sku[t].axes
  BY DEF Position
<1>3. Position' = [t \in {u \in Skus : sku'[u].life = "live"} |-> sku'[t].axes]
  BY DEF Position, Live
<1>4. {u \in Skus : sku'[u].life = "live"} = DOMAIN Position \ {s}
  BY <1>1, <1>2 DEF Live
<1>5. Position' = [t \in DOMAIN Position \ {s} |-> Position[t]]
  BY <1>1, <1>2, <1>3, <1>4
<1>6. Gone' = Gone \cup {s}
  BY <1>1 DEF Gone
<1>7. s \in DOMAIN Position
  BY <1>1, <1>2
<1> QED
  BY <1>1, <1>5, <1>6, <1>7 DEF Positions!Withdraw, Position, Gone

(* Every step is a step of the positions, or leaves them as they are.      *)
LEMMA StepIsPositionStep ==
    ASSUME IInv, [Next]_vars
    PROVE  [Positions!Next]_(Positions!vars)
<1>1. ASSUME NEW k \in Categories, NEW a \in Attributes, Rebind(k, a)
      PROVE  Positions!Next
  <2>1. PICK axes \in SUBSET Attributes : axes = axesOf'[k]
    BY <1>1 DEF Rebind, IInv, TypeOK
  <2>2. declared' = declared \cup {axes} /\ sku' = sku
    BY <1>1, <2>1 DEF Rebind
  <2>3. Positions!Declare(axes)
    BY <2>2 DEF Positions!Declare, Live
  <2> QED
    BY <2>3 DEF Positions!Next
<1>2. ASSUME NEW w \in Workers, CommitVariant(w) PROVE Positions!Next
  BY <1>2, CommitPlaces DEF Positions!Next
<1>3. ASSUME NEW s \in Skus, DeleteSku(s) PROVE Positions!Next
  BY <1>3, DeletionWithdraws DEF Positions!Next
<1>4. CASE UNCHANGED <<sku, declared>>
  BY <1>4 DEF Positions!vars, Live
<1> QED
  BY <1>1, <1>2, <1>3, <1>4 DEF Next, vars, MoveProduct, ReadCategory, ResolveAxes,
     CheckVariant, WriteVariant, CommitKept, AttachAxes, Respond, Abort, RetrieveSku,
     LockSku, BeginCreate, Begin

(* PositionsSpec: whatever overlaps, the live SKUs are at whole positions  *)
(* of their own, are placed or moved in one step and never come back; the  *)
(* two unique indexes and the row lock carry it, not the pre-check.        *)
THEOREM ImplementsPositions == Spec => PositionsSpec
<1>1. Init => Positions!Init
  <2> SUFFICES ASSUME Init PROVE Positions!Init
    OBVIOUS
  <2>1. \A s \in Skus : sku[s].life = "unborn"
    BY DEF Init, Unborn
  <2>2. {s \in Skus : Live(s)} = {} /\ Gone = {}
    BY <2>1 DEF Live, Gone
  <2>3. Position = [s \in {} |-> {}]
    BY <2>2 DEF Position
  <2>4. declared \in SUBSET SUBSET Attributes
    BY DEF Init
  <2> QED
    BY <2>2, <2>3, <2>4 DEF Positions!Init, Position, Gone
<1>2. IInv /\ [Next]_vars => [Positions!Next]_(Positions!vars)
  BY StepIsPositionStep
<1> QED
  BY <1>1, <1>2, Invariance, PTL DEF Spec, PositionsSpec, Positions!Spec

===============================================================================
