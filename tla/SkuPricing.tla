------------------------------ MODULE SkuPricing -------------------------------
(***************************************************************************)
(* The price of one SKU: a sale amount, an optional reference (list)       *)
(* amount, the currency both are counted in, and the scale copied from the *)
(* currency registry when the row was last written.                        *)
(*                                                                         *)
(* An amount is stored as an integer of minor units, so it means something *)
(* only together with the row's currency.  A client that sends an amount   *)
(* means it in the currency it names or, when it names none, in the one it *)
(* last read.  `meant` remembers that currency for each stored amount.     *)
(*                                                                         *)
(* A transaction holds one pooled connection; resolving the currency and   *)
(* loading the axes of the answer each borrow another one for a statement. *)
(***************************************************************************)
EXTENDS Money

CONSTANTS
    Writers,        \* API clients, one request in flight each
    Registry,       \* the currency registry: a row per code, see FromRegistry
    Amounts,        \* minor counts clients send
    Edits,          \* bodies of update requests
    NoWriter,       \* the holder of a row lock nobody holds
    Keep,           \* a field the body leaves out
    NoAmount,       \* a reference amount that is null
    MaxConnections, \* connections of the pool
    MaxEdits        \* bound: the version up to which clients send updates

Codes == DOMAIN Registry
Stored == Amounts \cap Nat      \* the amounts the columns admit

ASSUME NoWriterAssumption == NoWriter \notin Writers
ASSUME AmountsAssumption == Amounts \subseteq Int
ASSUME MarkersAssumption ==
    /\ Keep \notin Amounts \cup Codes \cup {NoAmount}
    /\ NoAmount \notin Amounts
ASSUME EditsAssumption ==
    Edits \subseteq [sale : Amounts \cup {Keep},
                     list : Amounts \cup {Keep, NoAmount},
                     currency : Codes \cup {Keep}, axes : BOOLEAN]
ASSUME BoundsAssumption == MaxConnections \in Nat \ {0} /\ MaxEdits \in Nat
ASSUME RegistryAssumption ==
    \A code \in Codes : Registry[code].code = code /\ Registry[code].scale \in Nat

VARIABLES
    price,      \* the row of the SKU number: see Unborn; `row` is its identity
    meant,      \* meant.sale, meant.list: the currency each was stated in
    active,     \* the codes whose registry row is active
    skuLock,    \* the writer whose transaction locked the row
    stage,      \* stage[c]: where c's request is
    seen,       \* seen[c]: the row, version and currency c last read
    edit,       \* edit[c]: the body of c's request
    copy,       \* copy[c]: the row as locked by c's transaction
    reply       \* reply[c]: the status of the response

pricingVars == <<price, meant, active, skuLock, stage, seen, edit, copy, reply>>

Stages == {"idle", "read", "creating", "inserting", "sent", "open", "locked",
           "priced", "attaching", "replied"}
Statuses == {0, 200, 201, 204, 400, 404, 409, 412, 428, 503}

Unborn == [row |-> 0, live |-> FALSE, version |-> 0, currency |-> Keep, scale |-> 0,
           sale |-> NoAmount, list |-> NoAmount]
NoEdit == [sale |-> Keep, list |-> Keep, currency |-> Keep, axes |-> FALSE]
Nothing == [row |-> 0, version |-> 0, currency |-> Keep]

PricingInit ==
    /\ price = Unborn
    /\ meant = [sale |-> Keep, list |-> Keep]
    /\ active = Codes
    /\ skuLock = NoWriter
    /\ stage = [c \in Writers |-> "idle"]
    /\ seen = [c \in Writers |-> Nothing]
    /\ edit = [c \in Writers |-> NoEdit]
    /\ copy = [c \in Writers |-> Unborn]
    /\ reply = [c \in Writers |-> 0]

-------------------------------------------------------------------------------
(* The pool and the registry.                                              *)

Connected == {c \in Writers : stage[c] \in {"inserting", "open", "locked", "priced"}}
HasFreeConnection == Cardinality(Connected) < MaxConnections

(* resolve_currency: an active registry row the kernel makes a unit of.    *)
Resolves(code) == code \in active /\ FromRegistry(Registry[code]).ok
(* Mutant: every currency has cents.                                       *)
ScaleAssumed(code) == IF code \in Codes THEN 2 ELSE 0
(* The exponent a price row copies.                                        *)
ScaleOf(code) == FromRegistry(Registry[code]).unit.scale

(* The operator of the registry; codes are never removed.                  *)
SwitchCurrency(code) ==
    /\ active' = IF code \in active THEN active \ {code} ELSE active \cup {code}
    /\ UNCHANGED <<price, meant, skuLock, stage, seen, edit, copy, reply>>

-------------------------------------------------------------------------------
(* What a write stores.                                                    *)

(* ensure_sale_not_above_list, also a CHECK of the table.                  *)
SaleWithinList(sale, list) == list # NoAmount => sale <= list

CurrencyAfter(row, body) ==
    IF body.currency = Keep THEN row.currency ELSE body.currency
CurrencyChanges(row, body) == CurrencyAfter(row, body) # row.currency

(* A new currency needs the sale amount restated, and the stored reference *)
(* amount restated or cleared.                                             *)
Restated(row, body) ==
    CurrencyChanges(row, body) =>
        body.sale # Keep /\ (row.list # NoAmount => body.list # Keep)

SaleAfter(row, body) == IF body.sale = Keep THEN row.sale ELSE body.sale
ListAfter(row, body) ==
    CASE body.list # Keep -> body.list
      [] body.list = Keep /\ CurrencyChanges(row, body) -> NoAmount
      [] OTHER -> row.list

(* Mutant: checks only a pair of amounts that the same body states.        *)
AdmittedWhenBothSent(row, body) ==
    /\ Restated(row, body)
    /\ Resolves(CurrencyAfter(row, body))
    /\ body.sale # Keep /\ body.list # Keep => SaleWithinList(body.sale, body.list)

(* The rules update_sku checks on the locked row, in the code's order.     *)
Admitted(row, body) ==
    /\ Restated(row, body)
    /\ Resolves(CurrencyAfter(row, body))
    /\ SaleWithinList(SaleAfter(row, body), ListAfter(row, body))

(* The row c's request names is live.                                      *)
Finds(c) == price.live /\ price.row = seen[c].row

(* Mutant: the UPDATE forgets the version the caller read.                 *)
GuardHoldsForAnyVersion(c) == Finds(c)
(* The WHERE clause of the UPDATE.                                         *)
GuardHolds(c) == Finds(c) /\ price.version = seen[c].version

(* validate(): amounts are not negative.                                   *)
NonNegative(body) == {body.sale, body.list} \ {Keep, NoAmount} \subseteq Nat

(* The currency a client means by the amounts of its body.                 *)
MeansIn(c) == IF edit[c].currency = Keep THEN seen[c].currency
                                         ELSE edit[c].currency
-------------------------------------------------------------------------------
(* The client.                                                             *)

Goto(c, s) == stage' = [stage EXCEPT ![c] = s]
Reply(c, status) ==
    /\ stage' = [stage EXCEPT ![c] = "replied"]
    /\ reply' = [reply EXCEPT ![c] = status]
    /\ edit' = [edit EXCEPT ![c] = NoEdit]
    /\ copy' = [copy EXCEPT ![c] = Unborn]

(* retrieve_sku: the ETag and the currency of one committed row.           *)
ReadPrice(c) ==
    /\ stage[c] = "idle" /\ price.live
    /\ seen' = [seen EXCEPT ![c] = [row |-> price.row, version |-> price.version,
                                    currency |-> price.currency]]
    /\ Goto(c, "read")
    /\ UNCHANGED <<price, meant, active, skuLock, edit, copy, reply>>

(* If-Match is looked at first: absent is 428, not a version is 400.  Then *)
(* the body is validated, and the request goes to the store.               *)
SubmitUpdate(c, body) ==
    /\ stage[c] = "read" /\ seen[c].version < MaxEdits
    /\ \/ Reply(c, 428) \/ Reply(c, 400)
       \/ ~NonNegative(body) /\ Reply(c, 400)
       \/ /\ NonNegative(body)
          /\ Goto(c, "sent") /\ edit' = [edit EXCEPT ![c] = body]
          /\ UNCHANGED <<copy, reply>>
    /\ UNCHANGED <<price, meant, active, skuLock, seen>>

(* create_sku resolves the currency before it opens its transaction.       *)
SubmitCreate(c, body) ==
    /\ stage[c] = "idle" /\ price.row = 0
    /\ body.sale # Keep /\ body.list # Keep /\ body.currency # Keep
    /\ IF NonNegative(body)
       THEN Goto(c, "creating") /\ edit' = [edit EXCEPT ![c] = body]
            /\ UNCHANGED <<copy, reply>>
       ELSE Reply(c, 400)
    /\ UNCHANGED <<price, meant, active, skuLock, seen>>

ReceiveReply(c) ==
    /\ stage[c] = "replied"
    /\ Goto(c, "idle")
    /\ reply' = [reply EXCEPT ![c] = 0]
    /\ seen' = [seen EXCEPT ![c] = Nothing]
    /\ UNCHANGED <<price, meant, active, skuLock, edit, copy>>
-------------------------------------------------------------------------------
(* create_sku.                                                             *)

ResolveForCreate(c) ==
    /\ stage[c] = "creating" /\ HasFreeConnection
    /\ IF Resolves(edit[c].currency) /\ SaleWithinList(edit[c].sale, edit[c].list)
       THEN Goto(c, "inserting") /\ UNCHANGED <<edit, copy, reply>>
       ELSE Reply(c, 400)
    /\ UNCHANGED <<price, meant, active, skuLock, seen>>

(* The INSERT and the commit; the unique number admits one live row.       *)
InsertSku(c) ==
    /\ stage[c] = "inserting"
    /\ IF ~price.live
       THEN /\ price' = [row |-> price.row + 1, live |-> TRUE, version |-> 0,
                         currency |-> edit[c].currency,
                         scale |-> ScaleOf(edit[c].currency),
                         sale |-> edit[c].sale, list |-> edit[c].list]
            /\ meant' = [sale |-> MeansIn(c), list |-> MeansIn(c)]
            /\ Reply(c, 201)
       ELSE Reply(c, 409) /\ UNCHANGED <<price, meant>>
    /\ UNCHANGED <<active, skuLock, seen>>
-------------------------------------------------------------------------------
(* update_sku and delete_sku.                                              *)

BeginUpdate(c) ==
    /\ stage[c] = "sent" /\ HasFreeConnection
    /\ Goto(c, "open")
    /\ UNCHANGED <<price, meant, active, skuLock, seen, edit, copy, reply>>

(* SELECT ... FOR UPDATE waits for the holder of the row lock.  The rules  *)
(* that need no statement refuse before the currency is resolved.          *)
LockSku(c) ==
    /\ stage[c] = "open" /\ skuLock = NoWriter
    /\ IF Finds(c) /\ Restated(price, edit[c])
       THEN /\ skuLock' = c
            /\ copy' = [copy EXCEPT ![c] = price]
            /\ Goto(c, "locked")
            /\ UNCHANGED <<edit, reply>>
       ELSE Reply(c, IF Finds(c) THEN 400 ELSE 404) /\ UNCHANGED skuLock
    /\ UNCHANGED <<price, meant, active, seen>>

(* The currency is resolved on a second connection.                        *)
ResolveForUpdate(c) ==
    /\ stage[c] = "locked" /\ HasFreeConnection
    /\ IF Admitted(copy[c], edit[c])
       THEN Goto(c, "priced") /\ UNCHANGED <<skuLock, edit, copy, reply>>
       ELSE Reply(c, 400) /\ skuLock' = NoWriter
    /\ UNCHANGED <<price, meant, active, seen>>

(* The guarded UPDATE and the commit, or 412.  It rewrites the scale.      *)
WritePrice(c) ==
    LET body == edit[c]
        code == CurrencyAfter(copy[c], body)
    IN  /\ stage[c] = "priced"
        /\ skuLock' = NoWriter
        /\ IF GuardHolds(c)
           THEN /\ price' = [row |-> price.row, live |-> TRUE,
                             version |-> price.version + 1,
                             currency |-> code, scale |-> ScaleOf(code),
                             sale |-> SaleAfter(copy[c], body),
                             list |-> ListAfter(copy[c], body)]
                /\ meant' = [sale |-> IF body.sale = Keep THEN meant.sale
                                                          ELSE MeansIn(c),
                             list |-> IF body.list = Keep THEN meant.list
                                                          ELSE MeansIn(c)]
                /\ IF body.axes THEN Reply(c, 200)
                   ELSE Goto(c, "attaching") /\ UNCHANGED <<edit, copy, reply>>
           ELSE Reply(c, 412) /\ UNCHANGED <<price, meant>>
        /\ UNCHANGED <<active, seen>>

(* attach_sku_axes loads the axes of the answer after the commit.          *)
AttachAxes(c) ==
    /\ stage[c] = "attaching" /\ HasFreeConnection
    /\ Reply(c, 200)
    /\ UNCHANGED <<price, meant, active, skuLock, seen>>

Retired(r) == [row |-> r.row, live |-> FALSE, version |-> r.version + 1,
               currency |-> r.currency, scale |-> r.scale, sale |-> r.sale,
               list |-> r.list]

(* delete_sku: one statement, which waits for the row lock like any write. *)
DeleteSku(c) ==
    /\ stage[c] = "read" /\ HasFreeConnection /\ skuLock = NoWriter
    /\ IF GuardHolds(c)
       THEN /\ price' = Retired(price)
            /\ Reply(c, 204)
       ELSE /\ Reply(c, IF Finds(c) THEN 412 ELSE 404)
            /\ UNCHANGED price
    /\ UNCHANGED <<meant, active, skuLock, seen>>

-------------------------------------------------------------------------------
(* The pool's acquire timeout.                                             *)

(* Mutant: a request waits for a connection for as long as it takes.       *)
WaitsForever(c) == stage[c] = "none" /\ UNCHANGED pricingVars

(* Waiting for a connection ends in an error; the transaction, if one was  *)
(* open, rolls back and its lock goes.  After the commit it only costs the *)
(* answer.                                                                 *)
AcquireTimeout(c) ==
    /\ stage[c] \in {"creating", "sent", "locked", "attaching"}
    /\ ~HasFreeConnection
    /\ Reply(c, 503)
    /\ skuLock' = IF skuLock = c THEN NoWriter ELSE skuLock
    /\ UNCHANGED <<price, meant, active, seen>>

PricingStep(c) ==
    \/ ResolveForCreate(c) \/ InsertSku(c) \/ BeginUpdate(c)
    \/ ResolveForUpdate(c) \/ WritePrice(c) \/ AttachAxes(c) \/ AcquireTimeout(c)

PricingNext ==
    \/ \E code \in Codes : SwitchCurrency(code)
    \/ \E c \in Writers :
           \/ \E body \in Edits : SubmitUpdate(c, body) \/ SubmitCreate(c, body)
           \/ ReadPrice(c) \/ DeleteSku(c) \/ ReceiveReply(c)
           \/ LockSku(c) \/ PricingStep(c)

(* A request makes progress while it can: a step of the server is taken or *)
(* the acquire timeout fires.  PostgreSQL queues the waiters of a row lock, *)
(* so a waiter that finds the lock free again and again gets it.           *)
PricingFairness ==
    \A c \in Writers : WF_pricingVars(PricingStep(c)) /\ SF_pricingVars(LockSku(c))

PricingSpec == PricingInit /\ [][PricingNext]_pricingVars /\ PricingFairness
-------------------------------------------------------------------------------
(* Invariants.                                                             *)

CodesOrKeep == Codes \cup {Keep}
StoredOrNull == Stored \cup {NoAmount}
PriceRows == [row : Nat, live : BOOLEAN, version : Nat, currency : CodesOrKeep,
              scale : 0..MaxScale, sale : StoredOrNull, list : StoredOrNull]
Bodies == [sale : Stored \cup {Keep}, list : StoredOrNull \cup {Keep},
           currency : CodesOrKeep, axes : BOOLEAN]

PricingTypeOK ==
    /\ price \in PriceRows
    /\ meant \in [sale : CodesOrKeep, list : CodesOrKeep]
    /\ active \subseteq Codes
    /\ skuLock \in Writers \cup {NoWriter}
    /\ stage \in [Writers -> Stages]
    /\ seen \in [Writers -> [row : Nat, version : Nat, currency : CodesOrKeep]]
    /\ edit \in [Writers -> Bodies]
    /\ copy \in [Writers -> PriceRows]
    /\ reply \in [Writers -> Statuses]

(* The row lock is held exactly by the transactions between the locking    *)
(* SELECT and the commit, and what they merge with is still the row.       *)
LockedCopyIsRow ==
    \A c \in Writers :
        /\ stage[c] \in {"locked", "priced"} <=> skuLock = c
        /\ skuLock = c => copy[c] = price /\ price.live /\ Restated(price, edit[c])

(* What a transaction decided to write is still right when it writes.      *)
DecisionStands ==
    \A c \in Writers :
        /\ stage[c] \in {"creating", "inserting"} =>
               edit[c].sale # Keep /\ edit[c].list # Keep /\ edit[c].currency # Keep
        /\ stage[c] = "inserting" =>
               /\ FromRegistry(Registry[edit[c].currency]).ok
               /\ SaleWithinList(edit[c].sale, edit[c].list)
        /\ stage[c] = "priced" =>
               /\ FromRegistry(Registry[CurrencyAfter(price, edit[c])]).ok
               /\ SaleWithinList(SaleAfter(price, edit[c]), ListAfter(price, edit[c]))

(* A client's reading is of the past: of an earlier row of the number, an  *)
(* earlier version of this one, or of the row as it is.                    *)
ReadingIsPast ==
    /\ price.row = 0 => price = Unborn
    /\ \A c \in Writers :
           /\ seen[c].row <= price.row
           /\ seen[c].row = price.row => seen[c].version <= price.version
           /\ seen[c].row = price.row /\ seen[c].version = price.version =>
                  seen[c].currency = price.currency

(* A live SKU has a currency and a sale amount; the sale amount does not   *)
(* exceed the reference amount, and the scale is the exponent of the row's *)
(* own currency, whichever of them a write restated.                       *)
PricesAreCoherent ==
    price.live =>
        /\ price.currency \in Codes /\ price.sale \in Stored
        /\ SaleWithinList(price.sale, price.list)
        /\ FromRegistry(Registry[price.currency]).ok
        /\ price.scale = Registry[price.currency].scale

(* Each stored amount is counted in the currency its client meant: no      *)
(* interleaving of a currency change with an edit that names no currency   *)
(* reinterprets a stored amount or one on its way.                         *)
AmountsInCurrency ==
    price.live => /\ meant.sale = price.currency
                  /\ price.list # NoAmount => meant.list = price.currency

(* The inductive invariant.                                                *)
PricingIInv ==
    /\ PricingTypeOK /\ LockedCopyIsRow /\ DecisionStands /\ ReadingIsPast
    /\ PricesAreCoherent /\ AmountsInCurrency

(* Every request is answered, even when the pool's connections are all     *)
(* held by transactions that wait for one more.                            *)
PricedRequestsEnd ==
    \A c \in Writers :
        stage[c] \in {"creating", "sent", "open"} ~> stage[c] = "replied"
===============================================================================
