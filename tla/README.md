# Verification of the merchandise catalog

TLA+ models of the SDKWork merchandise service, the TLC configurations that
check them on small instances, and TLAPS proofs of what matters most for every
instance. The reference is the repository's code; paths below are relative to
its root. `postgres_catalog.rs` stands for
`crates/sdkwork-merchandise-repository-sqlx/src/postgres_catalog.rs`, *the
baseline* for `database/ddl/baseline/postgres/0001_merchandise_baseline.sql`.

## 1. The system

The service keeps a product catalog: a category tree, attributes and which of
them a category uses, products (SPUs), their sellable units (SKUs), media and
price lists. Requests come in over HTTP, are parsed and validated in the
service crate and end in hand-written SQL against PostgreSQL. The process keeps
no catalog state of its own: all of it is rows, and everything concurrent
happens between transactions under READ COMMITTED, several per process and
several processes per database.

    client --HTTP--> backend / open routers --> catalog store --> service ports
      (If-Match, ETag)   (web-support)            (conversion)      (validation)
                                                                        |
                                            PostgresMerchandiseCatalog (SQL)
                                                                        |
                             connection pool --> PostgreSQL (locks, CHECKs, unique indexes)

### Components

| component | where | state | operations | what makes it correct |
|---|---|---|---|---|
| optimistic concurrency | `postgres_catalog.rs` 3140-3181, every `*_SQL` with `version = $n`; `backend_catalog_router.rs`, `http_envelope.rs` | `version`, `deleted_at` of each row; the client's copy | guarded UPDATE, probe, locking transaction | no lost update; a version names one document; a 412 or 404 tells the truth |
| category tree | 984-1203, 160-210, 2461-2512 | `parent_id`, `path`, `depth`, `is_leaf` | create, update (move), delete | live parents; path, depth and leaf agree with the parents |
| product lifecycle | 1592-1885, 461-546 | `status`, `sales_status`, `published_at` of products | create, update, publish, archive, delete | on sale means live, active, published; publishing is one-way; no live SKU under a retired product |
| SKU lifecycle | 1886-2255, 580-635 | the same columns of SKUs | create, update, delete, cascade | the same |
| variant axes | 657-735, 2600-2866; baseline 535-690 | `variant_signature`, axis rows, bindings of role sales | create/replace/keep/read | one SKU per combination; signature and axis rows agree; complete positions |
| attributes and bindings | 1219-1588 | dictionary, category templates | create, guarded update, guarded delete | an attribute is entered whole; one role per category and attribute |
| category assignment | 1171, 1662, 1688 | `category_id` of products | create, move, delete category | a category has no live product when it is retired |
| SKU pricing | 2097-2131, 2541-2600 | currency, scale, list and sale price | create, update, delete | a currency change restates the amounts; sale never above list |
| media | 2259-2455, 2870-2990 | attachments of an owner | create, update, delete | a retired owner gains no more; one main image, one row per slot |
| price lists | 1312-1425 | price lists | create, guarded update | the window is never empty or reversed |
| lists and pages | `queries/mod.rs`, the `LIST_*`/`COUNT_*` statements | none | list, count | a walk misses only as many rows as left meanwhile; a listed row carries what an edit needs |
| money kernel | `sdkwork-commerce-money/src/lib.rs` | none | parse, format, convert, round | exact minor units, no silent overflow |
| HTTP envelope | `http_envelope.rs` | none | If-Match parsing, problem answers | a missing or malformed precondition is never taken for one |
| validation, commands | `service/src/validation`, `commands` | none | checks of one request | the CHECKs of the baseline are not reached by accident |
| connection pool | `sqlx::PgPool`, `config/host/postgres.env.example` | connections | acquire, release, time out | a request that waits for a connection is answered, whatever it holds |
| identity, ids | `service-host/src/identity.rs` | worker id, snowflake clock | resolve, next id | two processes never mint one id |
| subject, assembly, gateway, database host | their crates | configuration | start-up | composition only |
| contracts, SDKs, console, scripts, docs | `apis`, `sdks`, `apps`, `scripts`, `tools`, `docs` | none | none | generated or static |

### How they interact

- A write of any row is a guarded write; what differs is what runs before the
  guard in the same transaction: subtree rewrites and leaf refreshes for
  categories, axis rows and the signature for SKUs, nothing for the others.
- Some statements write rows nobody named: the cascade of `delete_spu`, the
  subtree statement, the leaf refresh. They advance the versions they touch.
- `create_sku` reads the product and its category, then the category's
  bindings; none of these is locked. `delete_category` counts children and
  products. These cross-table reads are where the components meet.
- The unique indexes and CHECKs of the baseline are the last line: the modules
  that write a table have them as guards of the writing statement.

### What is hard here

Interleavings of statements of two transactions: what a statement saw before it
waited for a row lock is used after the wait; a check in one statement is stale
in the next. Lost responses and retries with an old version. Unguarded
statements before a guarded one, and the early return between them. Lock order.
A read of one row in two statements. `PROJECT.json` lists each hazard at its
line with the properties that cover it, or why none does.

## 2. The modules

| module | models | extends |
|---|---|---|
| `VersionedDocument` | what optimistic concurrency promises an editor, without versions or locks | |
| `ConditionalWrite` | the guarded-write protocol on rows of any table | instantiates `VersionedDocument` |
| `ProductShelf` | what someone who browses sees, without statuses, cascades or locks | |
| `ProductLifecycle` | products and their SKUs | instantiates `ProductShelf` |
| `CategoryForest` | what the tree promises a reader of the parents alone, without paths or locks | |
| `CategoryTree` | path, depth and leaf under moves | instantiates `CategoryForest` |
| `VariantPositions` | SKUs at positions of declared axes, without signatures or indexes | |
| `VariantAxes` | the SKUs of one product as variants | instantiates `VariantPositions` |
| `OwnerReferences` | the category of a product, and media with their owners | |
| `SkuPricing` | the price of a SKU, its currency, the connection pool | `Money` |
| `ListPages` | the seven lists, their counts, and a walk over the pages | |
| `CategoryTemplates` | the attribute dictionary and the bindings of categories | |
| `PriceLists` | price lists and their windows | |
| `Money` | the operators of the money kernel | |
| `MoneyCalc` | a caller of the kernel, and the reference definitions | `Money` |
| `MCCatalog` | the last six parts on one instance | all six |
| other `MC...` | symmetry sets and small constants for TLC | each its module |
| `ConditionalWrite_proofs`, `ProductLifecycle_proofs`, `CategoryTree_proofs`, `VariantAxes_proofs`, `SkuPricing_proofs`, `ListPages_proofs` | theorems and proofs | each its module, TLAPS |
| `CatalogParts_proofs` | theorems and proofs | `OwnerReferences`, `CategoryTemplates`, `PriceLists`, TLAPS |
| `Money_proofs` | theorems and proofs | `MoneyCalc`, TLAPS |

All follow one way of modelling PostgreSQL under READ COMMITTED. One action is
one statement, or several when nothing another transaction may do can come
between them. A statement that waits for a row lock is not enabled while the
lock is held. What a transaction has written is not in the committed rows
before its commit; other transactions notice it through locks and unique
indexes only. A statement that scans (a subtree, a cascade, a `NOT EXISTS`)
takes its snapshot in one action and finishes in another, after its waits,
rechecking the rows it writes but not what it read of others. Any transaction
may fail at any point (`Fail`, `Abort`, `Refuse`, `FailAttribute`): that stands
for refused input, stale versions where versions are not modelled, constraint
violations, broken connections, and a deadlock victim.

**ConditionalWrite.** A row is a version, a liveness flag and a document. A
document is a fresh number per write (a *ticket*), so two documents are equal
only when they are the same write. A client has the copy it last received and
one request in flight; `phase` says where. `Lock`/`Rewrite`/`Apply`/
`LockedMiss` are the transactional form (`update_sku`, `update_category`,
`publish_spu`...), `Apply` from `sent` with `Miss` and `Probe` the one-statement
form (`update_spu`, `delete_sku`...). `Classified` is `classify_guarded_miss`.
`Cascade` is any other row's transaction that advances this one. `ListedVersion`
is the projection of a list. The reparenting update is the one operation that
leaves the protocol; it is in `CategoryTree`.

**ProductLifecycle.** The rows carry life, status, sales status and whether
`published_at` is set; the locks are read off the workers' phases. `fresh` is
all that is left of the version: whether a publishing request still names the
product's version when its guarded statement runs. `victims` is the snapshot of
the cascade. `late` is a history variable: the SKUs that no cascade over their
product can have found, because they were inserted after its snapshot.

**CategoryTree.** Paths are sequences of ids; a path in the code is `/` with each id
followed by `/`, so prefix of text and prefix of sequence agree. `draft`
holds a transaction's uncommitted rows, `snap` what the subtree statement found,
`leafView` what the leaf refresh saw. `claim` says whether the request's version
is the one its row has when it is locked, that one plus one (`ahead`), or
another. Products in a category are only a reason to abort here; they are
counted in `OwnerReferences`.

**VariantAxes.** One product, since the signature index is per product. A
signature is the set of terms it is rendered from (`attribute_no=value_code`,
sorted, joined); two combinations are taken to read differently. `Claim` is the
signature a request is writing. `declared` is a history variable. The life of
the product, prices and versions belong to the other modules.

**OwnerReferences.** Two kinds of reference to rows that are only soft-deleted.
A product's category is a foreign key, so `CreateSpu` and `MoveSpu` wait for a
`delete_category` that holds the row (`KeyShareGranted`), and then go through:
the key is satisfied by a retired row. A media owner is no foreign key:
`VerifyOwner` looks, `InsertMedia` inserts later. A media row has the columns
the two partial unique indexes and the role check look at, and the identity
taken from its snapshot by `MediaResourceIdentity`.

**SkuPricing.** One SKU number and the rows that bear it one after the other.
`Restated`, `SaleAfter`, `ListAfter` and `Admitted` are the rules of
`update_sku`, `GuardHolds` the WHERE clause. `Connected` counts the connections
that open transactions hold; a step that asks for another one is enabled when
`HasFreeConnection`, and `AcquireTimeout` when it is not. An answer of 503 after
the commit (`attaching`) is an applied write whose client does not know. `meant`
is a history variable: the currency a client meant by each stored amount.

**ListPages.** A row has the columns the seven statements filter and order by;
each list has its own filter and order (`ListCategories`, `CountCategories`,
...). A walk is a client that asks for one page after the other as `HasMore`
tells it; `ListItems` and `CountItems` are the two statements behind a page,
and other clients insert, edit and retire rows at any point. An ORDER BY is a
relation on rows (`Pairs`); a list has each row at the place its `Rank`, the
number of rows before it, gives it (`InOrder`). `FirstPageAssumption`: a walk
starts with the first page. `RowsAssumption`: columns that are ordered by are
integers.

**CategoryTemplates.** `create_attribute` statement by statement, with the
unique number as what a second creation waits for, and the bindings of a
category with the index over live rows. `submission` is a history variable.

**PriceLists.** The creation against the currency registry, and the window that
`update_price_list` merges from the body and the row under the version guard.
`copies` is what each client last received, in the answer of a write or on a
list page, and it sends that copy's version; an answer may be lost (`Commit`).
A client that takes the version out of a 412 without reading the row again is
not among them. `intended` is a history variable: the window the last writer had
in view, the ends it stated and, for the others, those of its copy.

**Money, MoneyCalc.** `Money` translates the kernel: units, the six rounding
modes over floored division, checked arithmetic, rates, conversion,
largest-remainder allocation, parsing and printing over digit sequences.
`MaxMinor` stands for 2^127-1. `MoneyCalc` is a caller that takes each result
as its next amount; its reference definitions state what a result must be
(`IsRounding` by distance, not by quotient and remainder).

## 3. The runs

| run | instance | shows |
|---|---|---|
| `conditional_write` | 2 clients, 1 row, 4 tickets; 118 thousand states | all properties of the protocol, the refinement of `VersionedDocument`, and `EveryRequestEnds` |
| `conditional_write_listed` | the row is listed without its version | violation, see 5 |
| `product_lifecycle` | 1 product, 1 SKU, 3 workers; 45 thousand states | sales state, one-way publishing, what a deletion can leave behind, and `EveryTransactionEnds` |
| `product_lifecycle_apart` | 1 product, 2 SKUs, 3 workers; 196 thousand (up to symmetry) | deletion finds every SKU (`DeletionInv`), the refinement of `ProductShelf`; no creation of a SKU overlaps the deletion of its product (`ApartSpec`) |
| `product_lifecycle_orphan` | two workers | violation, see 5 |
| `category_tree` | 4 categories, 2 workers; 151 thousand (up to symmetry) | `TreeIInv` (with `DepthMatchesPath`), `LiveParent` under overlap |
| `category_tree_serial` | 5 categories, 1 worker; 82 thousand | `PathFollowsParent`, `LeafIffChildless`, the refinement of `CategoryForest`, one at a time |
| `category_tree_cycle` | two workers | `NoneDetached`, violation, see 5 |
| `category_tree_stale` | one worker | violation, see 5 |
| `variant_axes` | 2 SKUs, 2 attributes, 3 values, 2 categories, 2 workers, 1 rebinding; 258 thousand (up to symmetry) | uniqueness, signature and completeness, the refinement of `VariantPositions` |
| `variant_axes_torn` | 1 SKU, 2 workers | violation, see 5 |
| `catalog_parts` | the six parts of `MCCatalog`; 228 thousand | money, pricing, owners, pages, templates, price lists |

The six parts of `catalog_parts` share no state. `part` is chosen initially and
never changes, and a behaviour takes the steps of its part alone, so TLC
explores the sum of their state spaces and not the product. Nothing is lost by
that: no action of one reads a variable of another.

Properties, by module:

- `ConditionalWrite`: `NoLostUpdate` (a write is committed only over the
  document its client last received), `EveryChangeAdvances` (a change of a row
  is one version), `RefusalIsTruthful` (a 412 names a later version the row has
  reached, a 404 a retired row, although the probe is a statement later),
  `RefusalMeansChange` (a 412 is never an accident), `PromiseSpec`,
  `EveryRequestEnds`.
- `ProductLifecycle`: `OnSaleMeansActive`, `PublishingIsOneWay`,
  `OrphansAreLate` (whatever overlaps, a live SKU under a retired product was
  inserted after the cascade over it had taken its snapshot),
  `RetiredProductIsClosed`, `EveryTransactionEnds`; while
  creations and deletions stay apart, `ShelfSpec` (a product disappears in one
  step with all its SKUs) and, in `DeletionInv`, `NoLiveSkuUnderRetiredProduct`.
- `CategoryTree`: `LiveParent`, and in `TreeIInv` `DepthMatchesPath`; serially
  `PathFollowsParent`, `LeafIffChildless` and `ForestSpec` (the parents of the
  live rows are a forest and change as `CategoryForest` says); and
  `NoneDetached` (from every live category the parents lead to a root). The
  last two fail under overlap (5) and are proved for moves that do not overlap
  (4).
- `VariantAxes`: `OneSkuPerCombination`, `SignatureDescribesAxes`,
  `NeverPartial`, and `PositionsSpec` (live SKUs change as `VariantPositions`
  says), which has `OneValuePerAxis` in it: a position has one value an axis.
- `OwnerReferences`: `RetiredCategoryWasEmpty` (the count of `delete_category`
  still stands at its commit), `RetiredOwnerIsClosed` (a retired owner gains
  media only from creations that had already seen it live), and
  `MediaRowsConsistent` inside `ReferencesIInv`.
- `SkuPricing`: `PricesAreCoherent` (sale within list, the scale of the row's own
  currency), `AmountsInCurrency` (no interleaving reinterprets an amount in
  another currency), `PricedRequestsEnd` (the second connection starves nobody).
- `ListPages`: `MissesAreDepartures` (a walk misses no more stable rows than
  rows that left; an unchanged list is read whole and in order), `WalkEnds`.
- `CategoryTemplates`: `DictionaryIsWhole`, `OneRoleEach`.
- `PriceLists`: `WindowsAreMeant` (a list never applies in a window its last
  writer had not in view, although a body may state one end of it).
- `MoneyCalc`: `RoundsAsDeclared`, `AllocationIsExact`, `TextRoundTrips`.

The type invariants are conjuncts of the inductive invariants the runs check
(`IInv`, `DeletionInv`, `TreeIInv`, `PricingIInv`, `ReferencesIInv`).

### Bounds

`MaxTickets` = 4: a lost update takes two writes over one copy, a truthful
refusal a write in between, and a retry of a lost answer one more. `Cats` = 4
with two workers: a moved row with a child, an old and a new parent; 5 serially,
for a move of a subtree of depth two between two branches. Two workers: each
hazard listed is a race of two; the lifecycle has three, for a cycle through
a product and a SKU with a third queued. `MaxRebindings` = 1 and both
categories start with colour alone (`MCInit`): with one rebinding the two
categories differ, or one declares nothing. Two SKUs and values are enough for
one conflict, one replacement and one free combination.

In `catalog_parts`: `MaxMinor` = 40 is small so that sums, products and doubled
remainders overflow and the least integer is an operand; units have scales 0, 1
and 2 and every rounding mode, and operands are of either sign.
`MaxConnections` = 2 with two `Writers`: both may hold a connection and wait for
another, which is everyone waiting on everyone. `MaxEdits` = 1 lets an edit
follow an edit of the other writer. `MaxMedia` = 2: two rows dispute a slot.
`DefaultSize` = `MaxSize` = 2 (20 and 200 in the code) with `MaxListed` = 4 rows
and `MaxDepartures` = 2: walks of one to four pages, with rows leaving before,
on and after the page being read. Two `Clerks` enter two numbers, from a list
with a repeated value, one value, and a blank one; `MaxBindings` = 2 is a
binding, its deletion and a second one. Two instants order a window in every
way, equal ends included; two `Planners` and `MaxRevisions` = 2 are an update by
each from one copy, which is what would pair two ends nobody saw together.

Each property is violated under these bounds by a mutation of the code it is
about (`PROJECT.json`, mutants), so none is beyond their reach.

`CHECK_DEADLOCK FALSE` is set where the system may really stop: ids and tickets
run out, walks are over, and a retired catalog has nothing left to do.

### Fairness

`ConditionalWrite` has strong fairness on serving a request and weak fairness on
the client's reading or dropping the answer; `ProductLifecycle` strong fairness
on the progress of a transaction. Handlers run to the end without waiting for
the client, and PostgreSQL queues the waiters of a row lock, so a request whose
row is free again and again gets it. The statements are deterministic about
what they lock; nothing is assumed about failures, which may but need not occur.

`SkuPricing` has weak fairness on the steps of a request (`PricingStep`) and
strong fairness on `LockSku` for the same reason. `AcquireTimeout` is one of
those steps: the pool comes from a library whose acquire timeout nothing in the
repository changes, so a wait for a connection ends. `PricedRequestsEnd` rests on it: two updates
that hold the pool's two connections are freed by nothing else. `ListPages` has
weak fairness on the steps of a walk and none on other clients' writes: rows
may be inserted, edited and retired under the walk, as far as the bounds allow.

`CategoryTree`, `VariantAxes` and `OwnerReferences` have no liveness property:
their waits may end in PostgreSQL's deadlock detector, which is outside the code.

## 4. What is proved

For any clients, rows, products, SKUs, workers, dictionary, registry and bounds,
from the named assumptions of the modules only (that a marker such as `None` is
no client or row, that bounds are naturals, that constants have the shape of
the requests and rows they stand for).

- `ConditionalWrite_proofs`: `IInv` is inductive. Its heart is `CopyInv`: every
  copy a client holds was committed, at a version the row has reached, and
  while the row is at that version the copy is the row's document. Without it
  nothing ties the number in If-Match to what the client saw. `MissInv` says
  that a request that missed can only be refused for a later version or a
  retired row, which makes the gap before the probe harmless. From it:
  `RefusalsAreTruthful`, `NoUpdateIsLost`, `ChangesAdvance`, and `Refinement`:
  each step is a step of `VersionedDocument` or a stutter. `RefusalsMeanChange`
  takes two more conjuncts. `FreshInv`: the document a request underway will
  write has never been any row's and is no other request's. `DatedInv`: a copy whose version is behind the row's has another
  document (`StaleCopiesDiffer`). It assumes `Unlisted = {}`, that every list
  carries the version; the list of products does not (5).
- `ProductLifecycle_proofs`: `IInv` (locks exclude one another, locked rows are
  live, ids under creation unborn, rows satisfy the CHECKs), `OnSale`,
  `PublishedForGood`, `RetiredIsClosed`, `OnlyLateSkusStay`. The last rests on
  `CascadeInv`: a cascade under way has among its victims every live SKU of its
  product but those inserted since its snapshot, and no edit, deletion or commit
  of another transaction takes one from it; a SKU stops being late only when a
  new cascade over its product starts (`LateStep`). This is all the code
  guarantees of a deletion when anything may overlap it.

  What a deletion promises needs one thing the code does not provide: that no
  `create_sku` is between its look-up and its insert while the product is being
  deleted. `[]CreationsApart` says that and no more; other creations, other
  deletions, edits and publications overlap everything. Under it `DeletionInv`
  is inductive: a product a creation has found live is still live, and a cascade
  has found every live SKU of its product and no other's. From it
  `DeletionsAreComplete`, and `ImplementsShelf`: each statement maps to one step
  of `ProductShelf` or to none. The products and SKUs there are the live rows,
  those on sale the active ones. The statements of a deletion before its commit
  are stutters, and the commit takes the product with everything under it
  because the victims are all there is (`DeletionTakesProduct`); an inserted SKU
  has a product to stand under because a resolved product stays live
  (`InsertionAddsSku`). Without the hypothesis all of it is false (5).
- `CategoryTree_proofs`: `TreeIInv` is inductive. `LocksAreLive`: a locked row is
  live and has one holder; `MintsDiffer`: two creations never share an id;
  `Holds` and `Fits`: the uncommitted rows of a transaction are locked by it or
  are its own new row, keep their place in the tree and end in themselves at
  their depth; a category being retired stays childless because its creators
  need its lock. `OthersKeep` says once that what a transaction publishes
  disturbs none of this for the others, and `MovedPath` is the arithmetic on the
  cut of a path. From it: `ParentsAreLive`, `DepthsMatchPaths`.

  Paths and leaf flags take more than row locks, and their theorems say how much
  more in a temporal hypothesis. Under `[]MovesAlone` (a move overlaps no other
  move and no creation under a parent; edits, deletions and new roots overlap
  everything) `PathInv` is inductive: `MovesSubtree` says that the target is
  outside the subtree, that the snapshot has all of it, and that what was
  written is the moved form of what is committed; the argument is what a prefix
  and a rebased path are (`PrefixFacts`, `RebasedFacts`, `SubtreeFacts`,
  `MovedPaths`). From it `PathsFollowParents`, and `NoneIsDetached`: where paths
  follow parents a row is one deeper than its parent, so the shallowest of a set
  of live rows has its parent outside (`PathsDetachNobody`, with the library's
  theorem on well-founded relations). Under `[]WritesAlone` (creations, moves
  and deletions do not overlap) `LeafInv` is inductive: what a refresh saw is
  what its commit publishes (`SeesLeaf`); from it `LeavesAreChildless`. With one
  worker both hypotheses hold in every state, so the theorems cover the serial
  run for any number of categories. With two, each of the four properties is
  false without its hypothesis; with `CONSTRAINT MovesAlone` TLC finds
  `NoneDetached` and `ForestSpec` true for two workers as well.

  `ImplementsForest` is the refinement of `CategoryForest` under `[]MovesAlone`.
  Its rows are mapped to `above`, the parents of the live ones, and `gone`, the
  retired ones. A creation is an `Add`, a committed move a `Move`, a committed
  deletion a `Remove`; every other step, the subtree statement and the refreshes
  included, is a stutter (`StepIsForestStep`). The step that takes an argument is
  the guard of `Move`: `update_category` compares two paths, `CategoryForest`
  knows only parents. Where paths follow parents the rows that a path names are
  a part of the forest closed under parents (`PrefixDown`); when the moved row is
  not among them, the target is not below it (`PathsTellBelow`).
- `VariantAxes_proofs`: `IInv` is inductive. `ClaimInv` (a written, uncommitted
  signature conflicts with no live row and no other written one) is what the
  unique index gives; `HoldInv` keeps the row from changing under its writer;
  `ResolvedInv` carries a resolved submission's declaration to the commit. The
  pre-check `CheckVariant` is not used: `OnePerCombination` rests on the index
  alone. Also `SignaturesDescribe`, `OneValueOfAnAxis`, `WholePositions`.

  `ImplementsPositions` is the refinement of `VariantPositions`, without a
  hypothesis. The position of a live SKU is its set of values, an axis set is
  declared by the rebinding that makes it, and the commit of a write is the only
  step that places or moves a SKU. That it takes a whole position is
  `ResolvedInv` (`CoverIsPosition`); that the position is free is `ClaimInv`,
  read through the signatures of the other rows (`UntakenIsFree`).
- `SkuPricing_proofs`: `PricingIInv` is inductive. `LockedCopyIsRow`: what an
  update merges with is still the row; `DecisionStands`: what it checked holds
  when it writes; `ReadingIsPast`: a reading with the row's identity and version
  has the row's currency. The last is why `NothingReinterpreted` holds: an edit
  that names no currency is applied only at the version whose currency its
  client read. Also `CoherentPrices`.
- `ListPages_proofs`: `PagesIInv`, an invariant that is not a property of the
  runs, is inductive. `MissInv` is the argument: of the rows that matched all
  along and stand before the place where the next page starts, at most one was
  missed for every row retired or edited; and of all of them, once the count
  says that no page follows. A write moves a row that stays at most one place
  towards the front, and an insertion moves none (`RankShift`); no two rows have
  one rank, so at most one row of rank b comes to the first b
  (`FewComeFirst`). That the seven orders are strict and total
  (`OrderIsStrict`), because each ends in the id, gives every row a rank of its
  own and the list every row (`RankedFacts`). `NextOffset` and `LastPage` are
  the arithmetic of offset, limit and page count; they need the page size
  between 1 and the maximum, which `SizeAccepted` checks. `QuietInv` says what
  the pages are when nothing is written. From it: `MissesAreFew`.
- `CatalogParts_proofs`, owners: `ReferencesIInv` is inductive. `LocksOwned` and
  `CountStands`: while a deletion holds the category's row nothing enters it;
  `BodiesAdmitted` and `MediaRowsConsistent`: what was checked of a body is
  what is stored. From it: `CategoriesRetireEmpty`, `RetiredOwnersGainNothing`.
- `CatalogParts_proofs`, dictionary: `TemplatesInvariance`, an invariant that is not a property
  of the runs: an open creation has the rows of what it has submitted so far
  (`DraftsFollow`), no two open creations have one number (`PairsDiffer`), and
  only committed attributes are bound (`BoundToEntered`). From it:
  `CreationsAreWhole` and `RolesAreUnique`.
- `CatalogParts_proofs`, price lists: `CopiesInv`, an invariant that is not a
  property of the runs: no copy is of a later version than the row, and one of
  the row's version is the row, because every update advances it. So an update
  that passes the guard merges with what its client saw: `WindowsStayMeant`.
- `Money_proofs`: `RatiosAreRounded`: `RoundsAsDeclared` for divisions, rates and
  conversions, whatever the signs, the mode and the width. `FloorFacts` is the
  floored division, `ModeFacts` the six modes with each product as a number of
  its own (the solver is given no product of two variables), `DivRoundFacts`
  puts them together for a divisor of either sign. `ResultsAlwaysFit`: an amount
  that is a result fits the integer. Both assume `PowersArePositive`
  (`\A k \in Nat : 10 ^ k > 0`): the installed provers know nothing of a power
  whose exponent is a variable.

Only model-checked: `AllocationIsExact`, `TextRoundTrips` and the rounding of
parsed text (`RoundsAsDeclared` for `parse`), which are sums over weights and
digits: all of them are induction over data. And the liveness properties, which are out
of the prover's reach: `EveryRequestEnds`, `EveryTransactionEnds`,
`PricedRequestsEnd`, `WalkEnds`.

## 5. Where code and documents disagree

Each is a run that TLC ends with a counterexample.

1. **Reparenting always answers 412** (`category_tree_stale`). The subtree
   statement advances the version of the moved row itself, and the guarded
   statement that follows compares the version the client read. The answer
   names a version that is then rolled back; a retry with it succeeds.
2. **Products in a list carry version 0** (`conditional_write_listed`). The list
   projection has no version column and the row mapper reads a missing column
   as 0, so an edit from a list is refused unless the product is at version 0.
3. **A live SKU under a retired product** (`product_lifecycle_orphan`).
   `create_sku` looks the product up without a lock and inserts after
   `delete_spu` has committed.
4. **A cycle of parents** (`category_tree_cycle`). A child committed while the
   subtree statement waits is not in its snapshot and keeps its old path:
   `PathFollowsParent` is false with two workers. `update_category` then decides
   by that path whether a new parent is a descendant, and lets the ancestor be
   moved under the stale child: the rows are each other's ancestors and no root
   leads to them, which the comment on the check says it prevents.
5. **A response with the signature of one state and the axes of the next**
   (`variant_axes_torn`). Row and axes are read in two statements.

More that no run of their own records:

- With two workers `LeafIffChildless` is false too: the refresh evaluates
  `NOT EXISTS` before it waits for the parent.
- A published product may have no live SKU: `update_spu` publishes without
  counting, `delete_sku` may take the last one.
- A product may be created in, or moved to, a category that is already retired:
  the foreign key accepts the row and no statement looks at `deleted_at`.
  `RetiredCategoryWasEmpty` is about the commit that retires, and only that holds.
- The baseline (lines 321-323) says creating a child category materializes its
  parent's bindings; `create_category` writes none. The bindings of a retired
  category stay live.
- `MediaListQuery` documents that an owner type without an owner id lists the
  whole tenant's attachments; `LIST_MEDIA_SQL` narrows by each filter on its own.
- `create_price_list` looks a currency up without asking whether it is active;
  `resolve_currency`, for SKUs, asks.

## 6. What is not modelled

- The text of headers, ids and problem documents, and the presence and length
  checks of single requests. The status a request is answered with, and every
  check a property depends on, are modelled.
- The worker id and the snowflake clock: one decision at start-up from
  configuration; the lease and the generator are external crates.
- The subject of a request, the assembly of routers, the gateway: composition
  without state. Migrations: an external library runs them; the constraints of
  the baseline are guards of the statements that write the tables.
- Contracts, generated clients, the console, scripts: generated or static.
- Translations, SPU attribute values and price list items: tables that no code
  writes.
- The `SMALLINT` of a category's depth and the 64-bit product behind an offset:
  the models' bounds keep both far from their limits.

## 7. Plan

Done, in this order: `ConditionalWrite` (everything else relies on it),
`ProductLifecycle`, `CategoryTree`, `VariantAxes` with their proofs; then
`SkuPricing` over `Money`, `OwnerReferences`, `ListPages`, `MoneyCalc`,
`CategoryTemplates` and `PriceLists`, and the proofs of `SkuPricing`,
`OwnerReferences`, the dictionary and `CategoryTree`.

Then the proofs of `RefusalMeansChange`, `DeletionInv`, the paths, the roots and
the leaf flags of the tree, of the kernel's rounding, of the walks, and of the refinements of
`CategoryForest`, `ProductShelf` and `VariantPositions`.

What could still come: the parsing of If-Match; the choice of a worker id.
