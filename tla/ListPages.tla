------------------------------- MODULE ListPages -------------------------------
(***************************************************************************)
(* A client walking one of the seven paginated lists of the catalog while  *)
(* rows are written, edited and retired.                                   *)
(*                                                                         *)
(* A page is served by two statements, the window of rows and then the     *)
(* count of all of them, with no transaction around them; whether another  *)
(* page follows is computed from the count.  Each list has a statement of  *)
(* its own for either, which filter and order by its own columns.          *)
(*                                                                         *)
(* A row is the columns a list looks at.  `parent` is the category of a    *)
(* category, a product or a binding, the product of a SKU, the owner of a  *)
(* media row, the currency of a price list; `group` is the product type,   *)
(* the media role, the market, or the attribute of a binding; `tags` are   *)
(* the axis values of a SKU and the search texts a product answers to;     *)
(* `rank` is the sort order, the priority of a price list, and the least   *)
(* price of a product's sellable SKUs.  Rows of other tenants and          *)
(* organizations, which no list of the caller reads, are left out.         *)
(***************************************************************************)
EXTENDS Integers, Sequences, FiniteSets
Seqs == INSTANCE SequencesExt   \* ToSet

CONSTANTS
    Walks,          \* [kind, filter, size, page]: the first requests of walks
    Absent,         \* a query parameter left out
    DefaultSize,    \* 20 in the code
    MaxSize,        \* 200 in the code
    RowBodies,         \* the columns a write may give a row
    FirstRows,      \* the rows before the walk, by id
    Unpriced,       \* the rank of a product without a sellable SKU
    MaxListed,      \* bound: rows ever written
    MaxDepartures   \* bound: rows retired or edited during the walk

ASSUME SizesAssumption ==
    /\ MaxSize \in Nat \ {0} /\ DefaultSize \in 1..MaxSize
    /\ MaxListed \in Nat /\ MaxDepartures \in Nat

(* The filters each list takes.                                            *)
FieldsOf ==
    [categories |-> {"parent", "status"},
     attributes |-> {"status"},
     priceLists |-> {"parent", "group", "status"},
     bindings   |-> {"parent", "group", "status"},
     products   |-> {"parent", "group", "status", "tag", "sort"},
     skus       |-> {"parent", "status", "tag"},
     media      |-> {"parent", "group", "status"}]
ASSUME WalksAssumption ==
    \A w \in Walks : \A field \in DOMAIN w.filter \ FieldsOf[w.kind] :
        w.filter[field] = Absent
(* A walk starts with the first page: any other is another walk's page.    *)
ASSUME FirstPageAssumption ==
    /\ Absent \notin Int
    /\ \A w \in Walks : /\ w.size \in Int \cup {Absent}
                        /\ w.page \in Int \cup {Absent}
                        /\ w.page # Absent => w.page <= 1

VARIABLES
    rows,           \* rows[i]: the i-th row written, with its `live`
    walk,           \* "idle", "ready", "items", "total", "over" or "refused"
    asked,          \* the first request of the walk
    page,           \* the page parameter of the current request
    items,          \* the window read for this page, as ids
    totalItems,     \* the count read for this page
    served,         \* the ids received so far, page after page
    stable,         \* rows matched ever since the walk began (history variable)
    departures      \* rows retired or edited since then (history variable)

pageVars == <<rows, walk, asked, page, items, totalItems, served, stable, departures>>

NoWalk == [kind |-> "none"]

PagesInit ==
    /\ rows = FirstRows
    /\ walk = "idle" /\ asked = NoWalk /\ page = Absent
    /\ items = <<>> /\ totalItems = 0 /\ served = <<>>
    /\ stable = {} /\ departures = 0

-------------------------------------------------------------------------------
(* The filters of the statements: a parameter left out filters nothing.    *)

Narrows(filter, column) == filter = Absent \/ filter = column
AnyOf(filter, values) == filter = Absent \/ filter \in values

CategoryMatches(f, row) == Narrows(f.parent, row.parent) /\ Narrows(f.status, row.status)
AttributeMatches(f, row) == Narrows(f.status, row.status)
PriceListMatches(f, row) ==
    Narrows(f.parent, row.parent) /\ Narrows(f.group, row.group) /\ Narrows(f.status, row.status)
BindingMatches(f, row) ==
    Narrows(f.parent, row.parent) /\ Narrows(f.group, row.group) /\ Narrows(f.status, row.status)
(* Free-text search, without regard to case, over the number and the names. *)
SearchMatches(f, row) == AnyOf(f.tag, row.tags)
ProductMatches(f, row) ==
    /\ SearchMatches(f, row)
    /\ Narrows(f.parent, row.parent) /\ Narrows(f.group, row.group) /\ Narrows(f.status, row.status)
SkuMatches(f, row) ==
    /\ Narrows(f.parent, row.parent) /\ Narrows(f.status, row.status)
    /\ AnyOf(f.tag, row.tags)
MediaMatches(f, row) ==
    Narrows(f.parent, row.parent) /\ Narrows(f.group, row.group) /\ Narrows(f.status, row.status)

LiveRows(Matches(_, _), f) == {i \in DOMAIN rows : rows[i].live /\ Matches(f, rows[i])}

-------------------------------------------------------------------------------
(* The orders of the statements.  Every one ends in the id.                *)

(* a before b, or else by what follows in the ORDER BY.                    *)
Ordered(a, b, otherwise) == a < b \/ (a = b /\ otherwise)

ById(i, j) == i < j
ByRank(i, j) == Ordered(rows[i].rank, rows[j].rank, i < j)
ByPriority(i, j) == Ordered(-rows[i].rank, -rows[j].rank, i < j)
ByCategory(i, j) == Ordered(rows[i].parent, rows[j].parent, ByRank(i, j))
ByOwnerAndRole(i, j) ==
    Ordered(rows[i].parent, rows[j].parent,
            Ordered(rows[i].group, rows[j].group, ByRank(i, j)))

(* Products: by least price, the unpriced last either way, or newest first. *)
IsUnpriced(i) == IF rows[i].rank = Unpriced THEN 1 ELSE 0
ByPriceUp(i, j) == Ordered(IsUnpriced(i), IsUnpriced(j), ByRank(i, j))
ByPriceDown(i, j) == Ordered(IsUnpriced(i), IsUnpriced(j), ByPriority(i, j))
ProductOrder(sort, i, j) ==
    CASE sort = "price-asc"  -> ByPriceUp(i, j)
      [] sort = "price-desc" -> ByPriceDown(i, j)
      [] OTHER -> j < i

-------------------------------------------------------------------------------
(* Limits.                                                                 *)

OrElse(option, default) == IF option = Absent THEN default ELSE option

(* Mutant: no upper bound on the page size.                                *)
SizeAcceptedFromOne(s) == s # Absent => s >= 1
(* Query::new.                                                             *)
SizeAccepted(s) == s # Absent => s \in 1..MaxSize
PageAccepted(p) == p # Absent => p >= 1

(* Every list function: LIMIT and OFFSET.                                  *)
Limit(s) ==
    LET size == OrElse(s, DefaultSize) IN IF size > MaxSize THEN MaxSize ELSE size
Offset(p, s) ==
    LET before == OrElse(p, 1) - 1 IN (IF before > 0 THEN before ELSE 0) * Limit(s)
Window(list) ==
    LET last == Offset(page, asked.size) + Limit(asked.size)
    IN  SubSeq(list, Offset(page, asked.size) + 1, IF last < Len(list) THEN last ELSE Len(list))

(* Mutant: another page is promised as long as the list is not empty.      *)
HasMoreWhileListed(p, s, total) == total > 0
(* offset_page_info over the echoed page and size.                         *)
HasMore(p, s, total) ==
    LET perPage == OrElse(s, DefaultSize)
        totalPages == IF total = 0 THEN 0 ELSE (total + perPage - 1) \div perPage
    IN  OrElse(p, 1) < totalPages

-------------------------------------------------------------------------------
(* The seven lists and their counts.                                       *)

(* An ORDER BY as a relation.                                              *)
Pairs(Before(_, _)) == {p \in (DOMAIN rows) \X (DOMAIN rows) : Before(p[1], p[2])}

(* The k-th row of a list is the one that k - 1 others come before.        *)
Rank(S, order, i) == Cardinality({j \in S : <<j, i>> \in order})
InOrder(S, order) ==
    [k \in 1..Cardinality(S) |-> CHOOSE i \in S : Rank(S, order, i) = k - 1]

ListCategories(f) == InOrder(LiveRows(CategoryMatches, f), Pairs(ByRank))
ListAttributes(f) == InOrder(LiveRows(AttributeMatches, f), Pairs(ByRank))
ListPriceLists(f) == InOrder(LiveRows(PriceListMatches, f), Pairs(ByPriority))
ListCategoryAttributes(f) == InOrder(LiveRows(BindingMatches, f), Pairs(ByCategory))
ListSpus(f) ==
    LET Before(i, j) == ProductOrder(f.sort, i, j)
    IN  InOrder(LiveRows(ProductMatches, f), Pairs(Before))
ListSkus(f) == InOrder(LiveRows(SkuMatches, f), Pairs(ById))
ListMedia(f) == InOrder(LiveRows(MediaMatches, f), Pairs(ByOwnerAndRole))

CountCategories(f) == Cardinality(LiveRows(CategoryMatches, f))
CountAttributes(f) == Cardinality(LiveRows(AttributeMatches, f))
CountPriceLists(f) == Cardinality(LiveRows(PriceListMatches, f))
CountCategoryAttributes(f) == Cardinality(LiveRows(BindingMatches, f))
CountSpus(f) == Cardinality(LiveRows(ProductMatches, f))
CountSkus(f) == Cardinality(LiveRows(SkuMatches, f))
CountMedia(f) == Cardinality(LiveRows(MediaMatches, f))

Listed ==
    LET f == asked.filter
    IN  CASE asked.kind = "categories" -> ListCategories(f)
          [] asked.kind = "attributes" -> ListAttributes(f)
          [] asked.kind = "priceLists" -> ListPriceLists(f)
          [] asked.kind = "bindings"   -> ListCategoryAttributes(f)
          [] asked.kind = "products"   -> ListSpus(f)
          [] asked.kind = "skus"       -> ListSkus(f)
          [] asked.kind = "media"      -> ListMedia(f)
          [] OTHER -> <<>>
Counted ==
    LET f == asked.filter
    IN  CASE asked.kind = "categories" -> CountCategories(f)
          [] asked.kind = "attributes" -> CountAttributes(f)
          [] asked.kind = "priceLists" -> CountPriceLists(f)
          [] asked.kind = "bindings"   -> CountCategoryAttributes(f)
          [] asked.kind = "products"   -> CountSpus(f)
          [] asked.kind = "skus"       -> CountSkus(f)
          [] asked.kind = "media"      -> CountMedia(f)

-------------------------------------------------------------------------------
(* A client begins a walk: one action per route.  Page and size may be out *)
(* of range.                                                               *)
Browse(kind) ==
    /\ walk = "idle"
    /\ \E w \in Walks : w.kind = kind /\ asked' = w /\ page' = w.page
    /\ walk' = "ready"
    /\ UNCHANGED <<rows, items, totalItems, served, departures>>
    /\ stable' = Seqs!ToSet(Listed')

BrowseCategories == Browse("categories")
BrowseAttributes == Browse("attributes")
BrowsePriceLists == Browse("priceLists")
BrowseCategoryAttributes == Browse("bindings")
BrowseProducts == Browse("products")
BrowseSkus == Browse("skus")
BrowseMedia == Browse("media")

(* list_*_page: the rows of the page, then the count.                      *)
ListItems ==
    /\ walk = "ready"
    /\ IF PageAccepted(page) /\ SizeAccepted(asked.size)
       THEN walk' = "items" /\ items' = Window(Listed)
       ELSE walk' = "refused" /\ UNCHANGED items
    /\ UNCHANGED <<rows, asked, page, totalItems, served, stable, departures>>

CountItems ==
    /\ walk = "items"
    /\ walk' = "total" /\ totalItems' = Counted
    /\ UNCHANGED <<rows, asked, page, items, served, stable, departures>>

(* The client takes the page and asks for the next one if there is one.    *)
(* No walk reaches the page after as many as rows were ever listed.        *)
TakePage ==
    /\ walk = "total" /\ OrElse(page, 1) <= MaxListed
    /\ served' = served \o items
    /\ items' = <<>> /\ totalItems' = 0
    /\ IF HasMore(page, asked.size, totalItems)
       THEN walk' = "ready" /\ page' = OrElse(page, 1) + 1
       ELSE walk' = "over" /\ UNCHANGED page
    /\ UNCHANGED <<rows, asked, stable, departures>>

-------------------------------------------------------------------------------
(* Other clients' writes, as the lists see them.                           *)
RowAs(live, columns) ==
    [live |-> live, parent |-> columns.parent, group |-> columns.group,
     status |-> columns.status, tags |-> columns.tags, rank |-> columns.rank]
Row(body) == RowAs(TRUE, body)

(* What rows hold: a write's columns, or those of a row that was there.    *)
Contents == RowBodies \cup {FirstRows[i] : i \in DOMAIN FirstRows}
RowType == {RowAs(TRUE, c) : c \in Contents} \cup {RowAs(FALSE, c) : c \in Contents}
ASSUME RowsAssumption ==
    /\ FirstRows \in Seq(RowType)
    /\ \A c \in Contents : c.parent \in Int /\ c.group \in Int /\ c.rank \in Int

InsertRow(body) ==
    /\ Len(rows) < MaxListed
    /\ rows' = Append(rows, Row(body))
    /\ UNCHANGED <<walk, asked, page, items, totalItems, served, stable, departures>>

Rewrite(i, row) ==
    /\ rows[i].live /\ departures < MaxDepartures
    /\ rows' = [rows EXCEPT ![i] = row]
    /\ departures' = departures + 1
    /\ stable' = stable \ {i}
    /\ UNCHANGED <<walk, asked, page, items, totalItems, served>>

EditRow(i, body) == rows[i] # Row(body) /\ Rewrite(i, Row(body))
RemoveRow(i) == Rewrite(i, RowAs(FALSE, rows[i]))

WalkStep == ListItems \/ CountItems \/ TakePage
Walking == walk \in {"ready", "items", "total"}
PagesNext ==
    \/ BrowseCategories \/ BrowseAttributes \/ BrowsePriceLists
    \/ BrowseCategoryAttributes \/ BrowseProducts \/ BrowseSkus \/ BrowseMedia
    \/ WalkStep
    \/ /\ Walking
       /\ \/ \E body \in RowBodies : InsertRow(body) \/ \E i \in DOMAIN rows : EditRow(i, body)
          \/ \E i \in DOMAIN rows : RemoveRow(i)

(* The client and the server go on; nothing is assumed of other writers.   *)
PagesSpec == PagesInit /\ [][PagesNext]_pageVars /\ WF_pageVars(WalkStep)

-------------------------------------------------------------------------------
(* Properties.                                                             *)

(* When a walk is over, the rows it missed although they matched its       *)
(* filter all along are no more than the rows that were retired or edited  *)
(* meanwhile: an insertion, wherever it lands and also between a page and  *)
(* its count, never makes a walk miss a row, and each departure pushes at  *)
(* most one row across the page boundary.  If nothing was written, the     *)
(* pages put together are the list, each row once and in order.            *)
MissesAreDepartures ==
    walk = "over" =>
        /\ Cardinality(stable \ Seqs!ToSet(served)) <= departures
        /\ departures = 0 /\ rows = FirstRows => served = Listed

(* Every walk comes to a last page (or is refused), with rows inserted,    *)
(* edited and retired as it goes.                                          *)
WalkEnds == Walking ~> walk \in {"over", "refused"}
===============================================================================
