--------------------------- MODULE SkuPricing_proofs ---------------------------
(***************************************************************************)
(* Proofs about SkuPricing, for any writers, registry, amounts and pool.   *)
(*                                                                         *)
(* That no amount is reinterpreted rests on two facts that meet at the     *)
(* guarded UPDATE: the locked copy is still the row (LockedCopyIsRow), so  *)
(* the rules were checked against what is being replaced, and a reading of *)
(* the row's present version saw its present currency (ReadingIsPast), so  *)
(* an edit that names no currency means the row's.                         *)
(***************************************************************************)
EXTENDS SkuPricing, TLAPS

(* What a successful lookup in the registry says.                          *)
LEMMA UnitFacts ==
    ASSUME NEW code \in Codes, FromRegistry(Registry[code]).ok
    PROVE  /\ ScaleOf(code) = Registry[code].scale
           /\ ScaleOf(code) \in 0..MaxScale
<1>1. FromRegistry(Registry[code]) =
          [ok |-> TRUE, unit |-> [code |-> Registry[code].code,
                                  scale |-> Registry[code].scale,
                                  rounding |-> Registry[code].rounding]]
  BY DEF FromRegistry, Failed
<1>2. Registry[code].scale \in Nat /\ Registry[code].scale <= MaxScale
  BY RegistryAssumption DEF FromRegistry, Failed, MaxScale
<1> QED
  BY <1>1, <1>2 DEF ScaleOf, MaxScale

(* A body that passed validation names amounts the columns admit.          *)
LEMMA BodyFacts ==
    ASSUME NEW body \in Edits, NonNegative(body)
    PROVE  body \in Bodies
<1>1. /\ body \in [sale : Amounts \cup {Keep}, list : Amounts \cup {Keep, NoAmount},
                   currency : Codes \cup {Keep}, axes : BOOLEAN]
      /\ \A a \in {body.sale, body.list} : a \in {Keep, NoAmount} \/ a \in Nat
  BY EditsAssumption DEF NonNegative
<1>2. body.sale \in Stored \cup {Keep}
  BY <1>1, MarkersAssumption DEF Stored
<1>3. body.list \in StoredOrNull \cup {Keep}
  BY <1>1 DEF Stored, StoredOrNull
<1> QED
  BY <1>1, <1>2, <1>3 DEF Bodies, CodesOrKeep

(* The values of a writer at rest have their types.                        *)
LEMMA ConstantFacts ==
    /\ NoEdit \in Bodies /\ Unborn \in PriceRows
    /\ Nothing \in [row : Nat, version : Nat, currency : CodesOrKeep]
  BY DEF NoEdit, Bodies, Unborn, PriceRows, Nothing, CodesOrKeep, StoredOrNull, MaxScale

(* The writers' variables after a reply keep their types.                  *)
LEMMA ReplyFacts ==
    ASSUME PricingTypeOK, NEW c \in Writers, NEW status \in Statuses, Reply(c, status)
    PROVE  /\ stage' \in [Writers -> Stages] /\ edit' \in [Writers -> Bodies]
           /\ copy' \in [Writers -> PriceRows] /\ reply' \in [Writers -> Statuses]
           /\ stage'[c] = "replied"
           /\ \A d \in Writers \ {c} :
                  stage'[d] = stage[d] /\ edit'[d] = edit[d] /\ copy'[d] = copy[d]
<1>1. "replied" \in Stages /\ NoEdit \in Bodies /\ Unborn \in PriceRows
  BY ConstantFacts DEF Stages
<1> QED
  BY <1>1 DEF Reply, PricingTypeOK

(* A change of stage keeps its type and concerns one writer.               *)
LEMMA GotoFacts ==
    ASSUME PricingTypeOK, NEW c \in Writers, NEW s \in Stages, Goto(c, s)
    PROVE  /\ stage' \in [Writers -> Stages] /\ stage'[c] = s
           /\ \A d \in Writers \ {c} : stage'[d] = stage[d]
  BY DEF Goto, PricingTypeOK

-------------------------------------------------------------------------------
(* What one writer's step does to the others and to the row.               *)

(* What an admitted edit leaves in a coherent row.                         *)
LEMMA EditFacts ==
    ASSUME NEW row \in PriceRows, row.currency \in Codes, row.sale \in Stored,
           NEW body \in Bodies, Restated(row, body)
    PROVE  /\ CurrencyAfter(row, body) \in Codes
           /\ SaleAfter(row, body) \in Stored
           /\ ListAfter(row, body) \in StoredOrNull
           /\ body.sale = Keep => CurrencyAfter(row, body) = row.currency
           /\ body.list = Keep =>
                  \/ ListAfter(row, body) = NoAmount
                  \/ /\ CurrencyAfter(row, body) = row.currency
                     /\ ListAfter(row, body) = row.list
           /\ body.currency # Keep => CurrencyAfter(row, body) = body.currency
           /\ body.currency = Keep => CurrencyAfter(row, body) = row.currency
<1>1. /\ body.sale \in Stored \cup {Keep} /\ body.list \in StoredOrNull \cup {Keep}
      /\ body.currency \in Codes \cup {Keep} /\ row.list \in StoredOrNull
  BY DEF Bodies, PriceRows, CodesOrKeep
<1> QED
  BY <1>1 DEF CurrencyAfter, SaleAfter, ListAfter, Restated, CurrencyChanges

(* Every step keeps the types.                                              *)
LEMMA TypeStep ==
    ASSUME PricingIInv, [PricingNext]_pricingVars
    PROVE  PricingTypeOK'
<1> USE DEF PricingIInv
<1>0. CASE UNCHANGED pricingVars
  BY <1>0 DEF pricingVars, PricingTypeOK
<1>1. ASSUME NEW code \in Codes, SwitchCurrency(code) PROVE PricingTypeOK'
  BY <1>1 DEF SwitchCurrency, PricingTypeOK
<1>2. ASSUME NEW c \in Writers, ReadPrice(c) PROVE PricingTypeOK'
  <2>1. [row |-> price.row, version |-> price.version, currency |-> price.currency]
            \in [row : Nat, version : Nat, currency : CodesOrKeep]
    BY DEF PricingTypeOK, PriceRows
  <2> QED
    BY <1>2, <2>1, GotoFacts DEF ReadPrice, PricingTypeOK, Stages
<1>3. ASSUME NEW c \in Writers, NEW body \in Edits,
             SubmitUpdate(c, body) \/ SubmitCreate(c, body)
      PROVE  PricingTypeOK'
  <2>1. CASE \E status \in Statuses : Reply(c, status)
    BY <1>3, <2>1, ReplyFacts DEF SubmitUpdate, SubmitCreate, PricingTypeOK
  <2>2. CASE /\ NonNegative(body) /\ (Goto(c, "sent") \/ Goto(c, "creating"))
             /\ edit' = [edit EXCEPT ![c] = body] /\ UNCHANGED <<copy, reply>>
    BY <1>3, <2>2, GotoFacts, BodyFacts
       DEF SubmitUpdate, SubmitCreate, PricingTypeOK, Stages
  <2> QED
    BY <1>3, <2>1, <2>2 DEF SubmitUpdate, SubmitCreate, Statuses
<1>4. ASSUME NEW c \in Writers, ReceiveReply(c) PROVE PricingTypeOK'
  BY <1>4, GotoFacts, ConstantFacts DEF ReceiveReply, PricingTypeOK, Stages, Statuses
<1>5. ASSUME NEW c \in Writers, ResolveForCreate(c) PROVE PricingTypeOK'
  BY <1>5, GotoFacts, ReplyFacts DEF ResolveForCreate, PricingTypeOK, Stages, Statuses
<1>6. ASSUME NEW c \in Writers, InsertSku(c) PROVE PricingTypeOK'
  <2>1. /\ edit[c] \in Bodies /\ edit[c].sale # Keep /\ edit[c].list # Keep
        /\ edit[c].currency # Keep /\ FromRegistry(Registry[edit[c].currency]).ok
    BY <1>6 DEF InsertSku, PricingTypeOK, DecisionStands
  <2>2. /\ edit[c].sale \in StoredOrNull /\ edit[c].list \in StoredOrNull
        /\ edit[c].currency \in Codes
    BY <2>1 DEF Bodies, StoredOrNull, CodesOrKeep
  <2>3. price' \in PriceRows
    <3>1. ScaleOf(edit[c].currency) \in 0..MaxScale
      BY <2>1, <2>2, UnitFacts
    <3>2. price.row + 1 \in Nat /\ edit[c].currency \in CodesOrKeep
      BY <2>2 DEF PriceRows, PricingTypeOK, CodesOrKeep
    <3> DEFINE new == [row |-> price.row + 1, live |-> TRUE, version |-> 0,
                       currency |-> edit[c].currency,
                       scale |-> ScaleOf(edit[c].currency),
                       sale |-> edit[c].sale, list |-> edit[c].list]
    <3>3. new \in PriceRows
      BY <2>2, <3>1, <3>2 DEF PriceRows
    <3>4. price' = new \/ price' = price
      BY <1>6 DEF InsertSku
    <3> QED
      BY <3>3, <3>4 DEF PricingTypeOK
  <2>4. meant' \in [sale : CodesOrKeep, list : CodesOrKeep]
    BY <1>6, <2>2 DEF InsertSku, MeansIn, PricingTypeOK, CodesOrKeep
  <2> QED
    BY <1>6, <2>3, <2>4, ReplyFacts DEF InsertSku, PricingTypeOK, Statuses
<1>7. ASSUME NEW c \in Writers, BeginUpdate(c) PROVE PricingTypeOK'
  BY <1>7, GotoFacts DEF BeginUpdate, PricingTypeOK, Stages
<1>8. ASSUME NEW c \in Writers, LockSku(c) PROVE PricingTypeOK'
  BY <1>8, GotoFacts, ReplyFacts DEF LockSku, PricingTypeOK, Stages, Statuses
<1>9. ASSUME NEW c \in Writers, ResolveForUpdate(c) PROVE PricingTypeOK'
  BY <1>9, GotoFacts, ReplyFacts DEF ResolveForUpdate, PricingTypeOK, Stages, Statuses
<1>10. ASSUME NEW c \in Writers, WritePrice(c) PROVE PricingTypeOK'
  <2>1. /\ copy[c] = price /\ price.live /\ Restated(price, edit[c])
        /\ FromRegistry(Registry[CurrencyAfter(price, edit[c])]).ok
    BY <1>10 DEF WritePrice, LockedCopyIsRow, DecisionStands
  <2>2. /\ CurrencyAfter(price, edit[c]) \in Codes
        /\ SaleAfter(price, edit[c]) \in Stored
        /\ ListAfter(price, edit[c]) \in StoredOrNull
    BY <2>1, EditFacts DEF PricesAreCoherent, PricingTypeOK
  <2>3. price' \in PriceRows
    <3>1. ScaleOf(CurrencyAfter(price, edit[c])) \in 0..MaxScale
      BY <2>1, <2>2, UnitFacts
    <3>2. /\ price.row \in Nat /\ price.version + 1 \in Nat
          /\ CurrencyAfter(price, edit[c]) \in CodesOrKeep
          /\ SaleAfter(price, edit[c]) \in StoredOrNull
      BY <2>2 DEF PriceRows, PricingTypeOK, CodesOrKeep, StoredOrNull
    <3> DEFINE code == CurrencyAfter(price, edit[c])
               new == [row |-> price.row, live |-> TRUE,
                       version |-> price.version + 1, currency |-> code,
                       scale |-> ScaleOf(code), sale |-> SaleAfter(price, edit[c]),
                       list |-> ListAfter(price, edit[c])]
    <3>3. new \in PriceRows
      BY <2>2, <3>1, <3>2 DEF PriceRows
    <3>4. price' = new \/ price' = price
      BY <1>10, <2>1 DEF WritePrice
    <3> QED
      BY <3>3, <3>4 DEF PricingTypeOK
  <2>4. MeansIn(c) \in CodesOrKeep
    BY DEF MeansIn, PricingTypeOK, Bodies
  <2>5. meant' \in [sale : CodesOrKeep, list : CodesOrKeep]
    BY <1>10, <2>4 DEF WritePrice, PricingTypeOK
  <2> QED
    BY <1>10, <2>3, <2>5, GotoFacts, ReplyFacts
       DEF WritePrice, PricingTypeOK, Stages, Statuses
<1>11. ASSUME NEW c \in Writers, AttachAxes(c) PROVE PricingTypeOK'
  BY <1>11, ReplyFacts DEF AttachAxes, PricingTypeOK, Statuses
<1>12. ASSUME NEW c \in Writers, DeleteSku(c) PROVE PricingTypeOK'
  <2>1. price' \in PriceRows
    <3>1. /\ price.row \in Nat /\ price.version + 1 \in Nat
          /\ price.currency \in CodesOrKeep /\ price.scale \in 0..MaxScale
          /\ price.sale \in StoredOrNull /\ price.list \in StoredOrNull
      BY DEF PriceRows, PricingTypeOK
    <3>2. Retired(price) \in PriceRows
      BY <3>1 DEF Retired, PriceRows
    <3>3. price' = Retired(price) \/ price' = price
      BY <1>12 DEF DeleteSku
    <3> QED
      BY <3>2, <3>3 DEF PricingTypeOK
  <2> QED
    BY <1>12, <2>1, ReplyFacts DEF DeleteSku, PricingTypeOK, Statuses
<1>13. ASSUME NEW c \in Writers, AcquireTimeout(c) PROVE PricingTypeOK'
  BY <1>13, ReplyFacts DEF AcquireTimeout, PricingTypeOK, Statuses
<1> QED
  BY <1>0, <1>1, <1>2, <1>3, <1>4, <1>5, <1>6, <1>7, <1>8, <1>9, <1>10, <1>11,
     <1>12, <1>13 DEF PricingNext, PricingStep

-------------------------------------------------------------------------------
(* The row lock.                                                           *)

(* A step of c that touches neither the row nor the lock, and before and   *)
(* after which c does not hold it.                                         *)
LEMMA LockKept ==
    ASSUME LockedCopyIsRow, NEW c \in Writers,
           stage[c] \notin {"locked", "priced"}, stage'[c] \notin {"locked", "priced"},
           \A d \in Writers \ {c} :
               stage'[d] = stage[d] /\ edit'[d] = edit[d] /\ copy'[d] = copy[d],
           price' = price, skuLock' = skuLock
    PROVE  LockedCopyIsRow'
  BY DEF LockedCopyIsRow, Restated, CurrencyChanges, CurrencyAfter

(* A step of c after which nobody holds the lock.                          *)
LEMMA LockReleased ==
    ASSUME LockedCopyIsRow, NEW c \in Writers, stage'[c] \notin {"locked", "priced"},
           \A d \in Writers \ {c} : stage'[d] = stage[d] /\ skuLock # d,
           skuLock' = NoWriter
    PROVE  LockedCopyIsRow'
  BY NoWriterAssumption DEF LockedCopyIsRow

(* The row changes only under its lock, so the holder's copy stays the row.*)
LEMMA LockStep ==
    ASSUME PricingIInv, [PricingNext]_pricingVars
    PROVE  LockedCopyIsRow'
<1> USE DEF PricingIInv
<1>0. CASE UNCHANGED pricingVars
  BY <1>0 DEF pricingVars, LockedCopyIsRow, Restated, CurrencyChanges, CurrencyAfter
<1>1. ASSUME NEW code \in Codes, SwitchCurrency(code) PROVE LockedCopyIsRow'
  BY <1>1 DEF SwitchCurrency, LockedCopyIsRow, Restated, CurrencyChanges, CurrencyAfter
<1>2. ASSUME NEW c \in Writers, ReadPrice(c) PROVE LockedCopyIsRow'
  BY <1>2, GotoFacts, LockKept DEF ReadPrice, Stages
<1>3. ASSUME NEW c \in Writers, NEW body \in Edits,
             SubmitUpdate(c, body) \/ SubmitCreate(c, body)
      PROVE  LockedCopyIsRow'
  <2>1. CASE \E status \in Statuses : Reply(c, status)
    BY <1>3, <2>1, ReplyFacts, LockKept DEF SubmitUpdate, SubmitCreate
  <2>2. CASE /\ Goto(c, "sent") \/ Goto(c, "creating")
             /\ edit' = [edit EXCEPT ![c] = body] /\ UNCHANGED <<copy, reply>>
    <3>1. \A d \in Writers \ {c} :
              stage'[d] = stage[d] /\ edit'[d] = edit[d] /\ copy'[d] = copy[d]
      BY <2>2, GotoFacts DEF Stages, PricingTypeOK
    <3>2. stage'[c] \in {"sent", "creating"}
      BY <2>2, GotoFacts DEF Stages
    <3> QED
      BY <1>3, <3>1, <3>2, LockKept DEF SubmitUpdate, SubmitCreate
  <2> QED
    BY <1>3, <2>1, <2>2 DEF SubmitUpdate, SubmitCreate, Statuses
<1>4. ASSUME NEW c \in Writers, ReceiveReply(c) PROVE LockedCopyIsRow'
  BY <1>4, GotoFacts, LockKept DEF ReceiveReply, Stages
<1>5. ASSUME NEW c \in Writers, ResolveForCreate(c) PROVE LockedCopyIsRow'
  BY <1>5, GotoFacts, ReplyFacts, LockKept DEF ResolveForCreate, Stages, Statuses
<1>6. ASSUME NEW c \in Writers, InsertSku(c) PROVE LockedCopyIsRow'
  <2>1. stage[c] = "inserting" /\ Reply(c, IF price.live THEN 409 ELSE 201)
    BY <1>6 DEF InsertSku
  <2>2. CASE price.live
    BY <1>6, <2>1, <2>2, ReplyFacts, LockKept DEF InsertSku, Statuses
  <2>3. CASE ~price.live
    <3>1. skuLock = NoWriter
      BY <2>3 DEF LockedCopyIsRow, PricingTypeOK
    <3> QED
      BY <1>6, <2>1, <2>3, <3>1, ReplyFacts, LockReleased, NoWriterAssumption
         DEF InsertSku, Statuses
  <2> QED
    BY <2>2, <2>3
<1>7. ASSUME NEW c \in Writers, BeginUpdate(c) PROVE LockedCopyIsRow'
  BY <1>7, GotoFacts, LockKept DEF BeginUpdate, Stages
<1>8. ASSUME NEW c \in Writers, LockSku(c) PROVE LockedCopyIsRow'
  <2>1. CASE Finds(c) /\ Restated(price, edit[c])
    <3>1. /\ stage'[c] = "locked" /\ skuLock' = c /\ copy'[c] = price
          /\ price' = price /\ edit' = edit /\ price.live
          /\ \A d \in Writers \ {c} : stage'[d] = stage[d] /\ skuLock # d
      BY <1>8, <2>1, GotoFacts, NoWriterAssumption
         DEF LockSku, Finds, Stages, PricingTypeOK
    <3> QED
      BY <2>1, <3>1
         DEF LockedCopyIsRow, Restated, CurrencyChanges, CurrencyAfter
  <2>2. CASE ~(Finds(c) /\ Restated(price, edit[c]))
    BY <1>8, <2>2, ReplyFacts, LockKept DEF LockSku, Statuses
  <2> QED
    BY <2>1, <2>2
<1>9. ASSUME NEW c \in Writers, ResolveForUpdate(c) PROVE LockedCopyIsRow'
  <2>1. skuLock = c /\ \A d \in Writers \ {c} : skuLock # d
    BY <1>9 DEF ResolveForUpdate, LockedCopyIsRow
  <2>2. CASE Goto(c, "priced") /\ UNCHANGED <<skuLock, edit, copy, reply>>
    BY <1>9, <2>1, <2>2, GotoFacts
       DEF ResolveForUpdate, Stages, LockedCopyIsRow, Restated, CurrencyChanges,
           CurrencyAfter
  <2>3. CASE Reply(c, 400) /\ skuLock' = NoWriter
    BY <2>1, <2>3, ReplyFacts, LockReleased DEF Statuses
  <2> QED
    BY <1>9, <2>2, <2>3 DEF ResolveForUpdate
<1>10. ASSUME NEW c \in Writers, WritePrice(c) PROVE LockedCopyIsRow'
  <2>1. /\ skuLock' = NoWriter /\ \A d \in Writers \ {c} : skuLock # d
    BY <1>10 DEF WritePrice, LockedCopyIsRow
  <2>2. stage'[c] \in {"replied", "attaching"}
        /\ \A d \in Writers \ {c} : stage'[d] = stage[d]
    BY <1>10, GotoFacts, ReplyFacts DEF WritePrice, Stages, Statuses
  <2> QED
    BY <2>1, <2>2, LockReleased
<1>11. ASSUME NEW c \in Writers, AttachAxes(c) PROVE LockedCopyIsRow'
  BY <1>11, ReplyFacts, LockKept DEF AttachAxes, Statuses
<1>12. ASSUME NEW c \in Writers, DeleteSku(c) PROVE LockedCopyIsRow'
  <2>1. skuLock = NoWriter /\ skuLock' = NoWriter
        /\ \E status \in Statuses : Reply(c, status)
    BY <1>12 DEF DeleteSku, Statuses
  <2> QED
    BY <2>1, ReplyFacts, LockReleased, NoWriterAssumption
<1>13. ASSUME NEW c \in Writers, AcquireTimeout(c) PROVE LockedCopyIsRow'
  <2>1. CASE skuLock = c
    BY <1>13, <2>1, ReplyFacts, LockReleased DEF AcquireTimeout, Statuses
  <2>2. CASE skuLock # c
    BY <1>13, <2>2, ReplyFacts, LockKept DEF AcquireTimeout, Statuses, LockedCopyIsRow
  <2> QED
    BY <2>1, <2>2
<1> QED
  BY <1>0, <1>1, <1>2, <1>3, <1>4, <1>5, <1>6, <1>7, <1>8, <1>9, <1>10, <1>11,
     <1>12, <1>13 DEF PricingNext, PricingStep

-------------------------------------------------------------------------------
(* What a writer has decided.                                              *)

(* A step of c that leaves c without a decision, and the row alone unless  *)
(* no other writer holds its lock.                                         *)
LEMMA DecisionsKept ==
    ASSUME LockedCopyIsRow, DecisionStands, NEW c \in Writers,
           stage'[c] \notin {"creating", "inserting", "priced"},
           \A d \in Writers \ {c} : stage'[d] = stage[d] /\ edit'[d] = edit[d],
           price' = price \/ (\A d \in Writers \ {c} : skuLock # d)
    PROVE  DecisionStands'
<1>1. ASSUME NEW d \in Writers \ {c}, stage'[d] = "priced" PROVE price' = price
  BY <1>1 DEF LockedCopyIsRow
<1>2. ASSUME NEW d \in Writers \ {c}, stage[d] = "priced", price' = price
      PROVE  /\ CurrencyAfter(price', edit'[d]) = CurrencyAfter(price, edit[d])
             /\ SaleAfter(price', edit'[d]) = SaleAfter(price, edit[d])
             /\ ListAfter(price', edit'[d]) = ListAfter(price, edit[d])
  BY <1>2 DEF CurrencyAfter, SaleAfter, ListAfter, CurrencyChanges
<1> QED
  BY <1>1, <1>2 DEF DecisionStands

(* c's locked row gained a decision; nobody else's is disturbed.           *)
LEMMA DecisionStep ==
    ASSUME PricingIInv, [PricingNext]_pricingVars
    PROVE  DecisionStands'
<1> USE DEF PricingIInv
<1>0. CASE UNCHANGED pricingVars
  BY <1>0 DEF pricingVars, DecisionStands, CurrencyAfter, SaleAfter, ListAfter,
              CurrencyChanges
<1>1. ASSUME NEW code \in Codes, SwitchCurrency(code) PROVE DecisionStands'
  BY <1>1 DEF SwitchCurrency, DecisionStands, CurrencyAfter, SaleAfter, ListAfter,
              CurrencyChanges
<1>2. ASSUME NEW c \in Writers, ReadPrice(c) PROVE DecisionStands'
  BY <1>2, GotoFacts, DecisionsKept DEF ReadPrice, Stages
<1>3. ASSUME NEW c \in Writers, NEW body \in Edits, SubmitUpdate(c, body)
      PROVE  DecisionStands'
  <2>1. CASE \E status \in Statuses : Reply(c, status)
    BY <1>3, <2>1, ReplyFacts, DecisionsKept DEF SubmitUpdate
  <2>2. CASE Goto(c, "sent") /\ edit' = [edit EXCEPT ![c] = body]
    <3>1. \A d \in Writers \ {c} : stage'[d] = stage[d] /\ edit'[d] = edit[d]
      BY <2>2, GotoFacts DEF Stages, PricingTypeOK
    <3>2. stage'[c] = "sent"
      BY <2>2, GotoFacts DEF Stages
    <3> QED
      BY <1>3, <3>1, <3>2, DecisionsKept DEF SubmitUpdate
  <2> QED
    BY <1>3, <2>1, <2>2 DEF SubmitUpdate, Statuses
<1>4. ASSUME NEW c \in Writers, NEW body \in Edits, SubmitCreate(c, body)
      PROVE  DecisionStands'
  <2>1. CASE \E status \in Statuses : Reply(c, status)
    BY <1>4, <2>1, ReplyFacts, DecisionsKept DEF SubmitCreate
  <2>2. CASE Goto(c, "creating") /\ edit' = [edit EXCEPT ![c] = body]
    <3>1. /\ stage'[c] = "creating" /\ edit'[c] = body /\ price' = price
          /\ \A d \in Writers \ {c} : stage'[d] = stage[d] /\ edit'[d] = edit[d]
      BY <1>4, <2>2, GotoFacts DEF SubmitCreate, Stages, PricingTypeOK
    <3>2. body.sale # Keep /\ body.list # Keep /\ body.currency # Keep
      BY <1>4 DEF SubmitCreate
    <3> QED
      BY <3>1, <3>2
         DEF DecisionStands, CurrencyAfter, SaleAfter, ListAfter, CurrencyChanges
  <2> QED
    BY <1>4, <2>1, <2>2 DEF SubmitCreate, Statuses
<1>5. ASSUME NEW c \in Writers, ReceiveReply(c) PROVE DecisionStands'
  BY <1>5, GotoFacts, DecisionsKept DEF ReceiveReply, Stages
<1>6. ASSUME NEW c \in Writers, ResolveForCreate(c) PROVE DecisionStands'
  <2>1. CASE \E status \in Statuses : Reply(c, status)
    BY <1>6, <2>1, ReplyFacts, DecisionsKept DEF ResolveForCreate
  <2>2. CASE /\ Resolves(edit[c].currency) /\ SaleWithinList(edit[c].sale, edit[c].list)
             /\ Goto(c, "inserting") /\ UNCHANGED edit
    <3>1. /\ stage'[c] = "inserting" /\ edit' = edit /\ price' = price
          /\ \A d \in Writers \ {c} : stage'[d] = stage[d]
      BY <1>6, <2>2, GotoFacts DEF ResolveForCreate, Stages
    <3> QED
      BY <1>6, <2>2, <3>1
         DEF ResolveForCreate, Resolves, DecisionStands, CurrencyAfter, SaleAfter,
             ListAfter, CurrencyChanges
  <2> QED
    BY <1>6, <2>1, <2>2 DEF ResolveForCreate, Statuses
<1>7. ASSUME NEW c \in Writers, InsertSku(c) PROVE DecisionStands'
  <2>1. stage'[c] = "replied"
        /\ \A d \in Writers \ {c} : stage'[d] = stage[d] /\ edit'[d] = edit[d]
    BY <1>7, ReplyFacts DEF InsertSku, Statuses
  <2>2. price' = price \/ (\A d \in Writers \ {c} : skuLock # d)
    BY <1>7 DEF InsertSku, LockedCopyIsRow
  <2> QED
    BY <2>1, <2>2, DecisionsKept
<1>8. ASSUME NEW c \in Writers, BeginUpdate(c) PROVE DecisionStands'
  BY <1>8, GotoFacts, DecisionsKept DEF BeginUpdate, Stages
<1>9. ASSUME NEW c \in Writers, LockSku(c) PROVE DecisionStands'
  BY <1>9, GotoFacts, ReplyFacts, DecisionsKept DEF LockSku, Stages, Statuses
<1>10. ASSUME NEW c \in Writers, ResolveForUpdate(c) PROVE DecisionStands'
  <2>1. CASE \E status \in Statuses : Reply(c, status)
    BY <1>10, <2>1, ReplyFacts, DecisionsKept DEF ResolveForUpdate
  <2>2. CASE /\ Admitted(copy[c], edit[c])
             /\ Goto(c, "priced") /\ UNCHANGED edit
    <3>1. /\ stage'[c] = "priced" /\ edit' = edit /\ price' = price
          /\ \A d \in Writers \ {c} : stage'[d] = stage[d]
          /\ Admitted(price, edit[c])
      BY <1>10, <2>2, GotoFacts DEF ResolveForUpdate, Stages, LockedCopyIsRow
    <3> QED
      BY <3>1
         DEF Admitted, Resolves, DecisionStands, CurrencyAfter, SaleAfter,
             ListAfter, CurrencyChanges
  <2> QED
    BY <1>10, <2>1, <2>2 DEF ResolveForUpdate, Statuses
<1>11. ASSUME NEW c \in Writers, WritePrice(c) PROVE DecisionStands'
  <2>1. stage'[c] \in {"replied", "attaching"}
        /\ \A d \in Writers \ {c} : stage'[d] = stage[d] /\ edit'[d] = edit[d]
    BY <1>11, GotoFacts, ReplyFacts DEF WritePrice, Stages, Statuses
  <2>2. \A d \in Writers \ {c} : skuLock # d
    BY <1>11 DEF WritePrice, LockedCopyIsRow
  <2> QED
    BY <2>1, <2>2, DecisionsKept
<1>12. ASSUME NEW c \in Writers, AttachAxes(c) PROVE DecisionStands'
  BY <1>12, ReplyFacts, DecisionsKept DEF AttachAxes, Statuses
<1>13. ASSUME NEW c \in Writers, DeleteSku(c) PROVE DecisionStands'
  <2>1. skuLock = NoWriter /\ \E status \in Statuses : Reply(c, status)
    BY <1>13 DEF DeleteSku, Statuses
  <2> QED
    BY <2>1, ReplyFacts, DecisionsKept, NoWriterAssumption
<1>14. ASSUME NEW c \in Writers, AcquireTimeout(c) PROVE DecisionStands'
  BY <1>14, ReplyFacts, DecisionsKept DEF AcquireTimeout, Statuses
<1> QED
  BY <1>0, <1>1, <1>2, <1>3, <1>4, <1>5, <1>6, <1>7, <1>8, <1>9, <1>10, <1>11,
     <1>12, <1>13, <1>14 DEF PricingNext, PricingStep

-------------------------------------------------------------------------------
(* The row and what was read of it.                                        *)

(* The steps that write the row, and what each makes of it.                *)
LEMMA RowStep ==
    ASSUME PricingIInv, [PricingNext]_pricingVars
    PROVE  \/ UNCHANGED <<price, meant>>
           \/ \E c \in Writers : InsertSku(c) /\ ~price.live
           \/ \E c \in Writers : WritePrice(c) /\ GuardHolds(c)
           \/ \E c \in Writers : DeleteSku(c) /\ GuardHolds(c)
  BY DEF PricingNext, PricingStep, pricingVars, SwitchCurrency, ReadPrice,
         SubmitUpdate, SubmitCreate, ReceiveReply, ResolveForCreate, InsertSku,
         BeginUpdate, LockSku, ResolveForUpdate, WritePrice, AttachAxes, DeleteSku,
         AcquireTimeout

(* What InsertSku writes.                                                  *)
LEMMA InsertFacts ==
    ASSUME PricingIInv, NEW c \in Writers, InsertSku(c), ~price.live
    PROVE  /\ price'.row = price.row + 1 /\ price'.currency = edit[c].currency
           /\ price'.currency \in Codes /\ price'.sale \in Stored
           /\ SaleWithinList(price'.sale, price'.list)
           /\ FromRegistry(Registry[price'.currency]).ok
           /\ price'.scale = Registry[price'.currency].scale
           /\ meant'.sale = price'.currency /\ meant'.list = price'.currency
           /\ UNCHANGED seen
<1>1. /\ edit[c] \in Bodies /\ edit[c].sale # Keep /\ edit[c].list # Keep
      /\ edit[c].currency # Keep /\ FromRegistry(Registry[edit[c].currency]).ok
      /\ SaleWithinList(edit[c].sale, edit[c].list)
  BY DEF InsertSku, PricingIInv, PricingTypeOK, DecisionStands
<1>2. edit[c].currency \in Codes /\ edit[c].sale \in Stored
  BY <1>1 DEF Bodies, CodesOrKeep
<1> QED
  BY <1>1, <1>2, UnitFacts DEF InsertSku, MeansIn

(* What WritePrice writes when its guard holds.                            *)
LEMMA WriteFacts ==
    ASSUME PricingIInv, NEW c \in Writers, WritePrice(c), GuardHolds(c)
    PROVE  /\ price.live /\ price'.row = price.row
           /\ price'.version = price.version + 1
           /\ price'.currency \in Codes /\ price'.sale \in Stored
           /\ SaleWithinList(price'.sale, price'.list)
           /\ FromRegistry(Registry[price'.currency]).ok
           /\ price'.scale = Registry[price'.currency].scale
           /\ meant'.sale = price'.currency
           /\ price'.list # NoAmount => meant'.list = price'.currency
           /\ UNCHANGED seen
<1> DEFINE code == CurrencyAfter(price, edit[c])
<1>1. /\ copy[c] = price /\ price.live /\ Restated(price, edit[c])
      /\ FromRegistry(Registry[code]).ok
      /\ SaleWithinList(SaleAfter(price, edit[c]), ListAfter(price, edit[c]))
  BY DEF WritePrice, PricingIInv, LockedCopyIsRow, DecisionStands
<1>2. price \in PriceRows /\ price.currency \in Codes /\ price.sale \in Stored
      /\ edit[c] \in Bodies
  BY <1>1 DEF PricingIInv, PricingTypeOK, PricesAreCoherent
<1>3. /\ code \in Codes
      /\ SaleAfter(price, edit[c]) \in Stored
      /\ edit[c].sale = Keep => code = price.currency
      /\ edit[c].list = Keep => \/ ListAfter(price, edit[c]) = NoAmount
                                \/ /\ code = price.currency
                                   /\ ListAfter(price, edit[c]) = price.list
      /\ edit[c].currency # Keep => code = edit[c].currency
      /\ edit[c].currency = Keep => code = price.currency
  BY <1>1, <1>2, EditFacts
<1>4. /\ price' = [row |-> price.row, live |-> TRUE, version |-> price.version + 1,
                   currency |-> code, scale |-> ScaleOf(code),
                   sale |-> SaleAfter(price, edit[c]),
                   list |-> ListAfter(price, edit[c])]
      /\ meant' = [sale |-> IF edit[c].sale = Keep THEN meant.sale ELSE MeansIn(c),
                   list |-> IF edit[c].list = Keep THEN meant.list ELSE MeansIn(c)]
      /\ UNCHANGED seen
  BY <1>1 DEF WritePrice
<1>5. MeansIn(c) = code
  <2>1. seen[c].currency = price.currency
    BY DEF PricingIInv, ReadingIsPast, GuardHolds, Finds
  <2> QED
    BY <1>3, <2>1 DEF MeansIn
<1>6. meant.sale = price.currency /\ (price.list # NoAmount => meant.list = price.currency)
  BY <1>1 DEF PricingIInv, AmountsInCurrency
<1>7. ScaleOf(code) = Registry[code].scale
  BY <1>1, <1>3, UnitFacts
<1>8. /\ price'.row = price.row /\ price'.version = price.version + 1
      /\ price'.currency = code /\ price'.scale = ScaleOf(code)
      /\ price'.sale = SaleAfter(price, edit[c])
      /\ price'.list = ListAfter(price, edit[c])
  BY <1>4
<1>9. /\ meant'.sale = code
      /\ price'.list # NoAmount => meant'.list = code
  BY <1>3, <1>4, <1>5, <1>6, <1>8
<1> QED
  BY <1>1, <1>3, <1>4, <1>7, <1>8, <1>9

(* A live row is coherent after every step.                                *)
LEMMA CoherentStep ==
    ASSUME PricingIInv, [PricingNext]_pricingVars
    PROVE  PricesAreCoherent'
<1>1. CASE UNCHANGED <<price, meant>>
  BY <1>1 DEF PricingIInv, PricesAreCoherent, SaleWithinList
<1>2. ASSUME NEW c \in Writers, InsertSku(c), ~price.live PROVE PricesAreCoherent'
  BY <1>2, InsertFacts DEF PricesAreCoherent
<1>3. ASSUME NEW c \in Writers, WritePrice(c), GuardHolds(c) PROVE PricesAreCoherent'
  BY <1>3, WriteFacts DEF PricesAreCoherent
<1>4. ASSUME NEW c \in Writers, DeleteSku(c), GuardHolds(c) PROVE PricesAreCoherent'
  BY <1>4 DEF DeleteSku, Retired, PricesAreCoherent
<1> QED
  BY <1>1, <1>2, <1>3, <1>4, RowStep

(* No step reinterprets a stored amount.                                   *)
LEMMA CurrencyStep ==
    ASSUME PricingIInv, [PricingNext]_pricingVars
    PROVE  AmountsInCurrency'
<1>1. CASE UNCHANGED <<price, meant>>
  BY <1>1 DEF PricingIInv, AmountsInCurrency
<1>2. ASSUME NEW c \in Writers, InsertSku(c), ~price.live PROVE AmountsInCurrency'
  BY <1>2, InsertFacts DEF AmountsInCurrency
<1>3. ASSUME NEW c \in Writers, WritePrice(c), GuardHolds(c) PROVE AmountsInCurrency'
  BY <1>3, WriteFacts DEF AmountsInCurrency
<1>4. ASSUME NEW c \in Writers, DeleteSku(c), GuardHolds(c) PROVE AmountsInCurrency'
  BY <1>4 DEF DeleteSku, Retired, AmountsInCurrency
<1> QED
  BY <1>1, <1>2, <1>3, <1>4, RowStep

(* A reading stays in the past: a write passes its version, a new row its  *)
(* row.                                                                    *)
LEMMA PastStep ==
    ASSUME PricingIInv, [PricingNext]_pricingVars
    PROVE  ReadingIsPast'
<1> USE DEF PricingIInv
<1>0. /\ price.row \in Nat /\ price.version \in Nat
      /\ \A c \in Writers : seen[c].row \in Nat /\ seen[c].version \in Nat
  BY DEF PricingTypeOK, PriceRows
<1>1. CASE UNCHANGED <<price, meant>>
  <2>1. UNCHANGED seen \/ (\E c \in Writers : ReadPrice(c) \/ ReceiveReply(c))
    BY DEF PricingNext, PricingStep, pricingVars, SwitchCurrency, SubmitUpdate,
           SubmitCreate, ResolveForCreate, InsertSku, BeginUpdate, LockSku,
           ResolveForUpdate, WritePrice, AttachAxes, DeleteSku, AcquireTimeout
  <2>2. CASE UNCHANGED seen
    BY <1>1, <2>2 DEF ReadingIsPast
  <2>3. ASSUME NEW c \in Writers, ReadPrice(c) PROVE ReadingIsPast'
    BY <1>0, <1>1, <2>3 DEF ReadPrice, ReadingIsPast, PricingTypeOK
  <2>4. ASSUME NEW c \in Writers, ReceiveReply(c) PROVE ReadingIsPast'
    BY <1>0, <1>1, <2>4 DEF ReceiveReply, ReadingIsPast, PricingTypeOK, Nothing, Unborn
  <2> QED
    BY <2>1, <2>2, <2>3, <2>4
<1>2. ASSUME NEW c \in Writers, InsertSku(c), ~price.live PROVE ReadingIsPast'
  BY <1>0, <1>2, InsertFacts DEF ReadingIsPast
<1>3. ASSUME NEW c \in Writers, WritePrice(c), GuardHolds(c) PROVE ReadingIsPast'
  <2>1. price.row # 0
    BY <1>3, WriteFacts DEF ReadingIsPast, Unborn
  <2> QED
    BY <1>0, <1>3, <2>1, WriteFacts DEF ReadingIsPast
<1>4. ASSUME NEW c \in Writers, DeleteSku(c), GuardHolds(c) PROVE ReadingIsPast'
  <2>1. /\ price'.row = price.row /\ price'.version = price.version + 1
        /\ price.live /\ UNCHANGED seen
    BY <1>4 DEF DeleteSku, Retired, GuardHolds, Finds
  <2>2. price.row # 0
    BY <2>1 DEF ReadingIsPast, Unborn
  <2> QED
    BY <1>0, <2>1, <2>2 DEF ReadingIsPast
<1> QED
  BY <1>1, <1>2, <1>3, <1>4, RowStep

-------------------------------------------------------------------------------
(* The theorems.                                                           *)

(* No row and no request initially.                                        *)
LEMMA PricingInitially == PricingInit => PricingIInv
<1> SUFFICES ASSUME PricingInit PROVE PricingIInv
  OBVIOUS
<1>1. PricingTypeOK
  BY ConstantFacts DEF PricingInit, PricingTypeOK, Stages, Statuses, CodesOrKeep
<1>2. LockedCopyIsRow /\ DecisionStands
  BY NoWriterAssumption DEF PricingInit, LockedCopyIsRow, DecisionStands
<1>3. ReadingIsPast
  BY DEF PricingInit, ReadingIsPast, Nothing, Unborn
<1>4. PricesAreCoherent /\ AmountsInCurrency
  BY DEF PricingInit, PricesAreCoherent, AmountsInCurrency, Unborn
<1> QED
  BY <1>1, <1>2, <1>3, <1>4 DEF PricingIInv

(* The inductive invariant: the transaction that holds the row lock merges *)
(* with the row as it is, what it decided stands when it writes, and a     *)
(* client's reading is of the past.                                        *)
THEOREM PricingInvariance == PricingSpec => []PricingIInv
<1>1. PricingIInv /\ [PricingNext]_pricingVars => PricingIInv'
  BY TypeStep, LockStep, DecisionStep, PastStep, CoherentStep, CurrencyStep
     DEF PricingIInv
<1> QED
  BY <1>1, PricingInitially, PTL DEF PricingSpec

(* update_sku and create_sku leave no live SKU whose sale amount exceeds   *)
(* its reference amount, or whose scale is not its currency's.             *)
THEOREM CoherentPrices == PricingSpec => []PricesAreCoherent
<1>1. PricingIInv => PricesAreCoherent
  BY DEF PricingIInv
<1> QED
  BY <1>1, PricingInvariance, PTL

(* No stored amount is counted in another currency than its client meant,  *)
(* however edits that name a currency and edits that do not interleave.    *)
THEOREM NothingReinterpreted == PricingSpec => []AmountsInCurrency
<1>1. PricingIInv => AmountsInCurrency
  BY DEF PricingIInv
<1> QED
  BY <1>1, PricingInvariance, PTL
===============================================================================
