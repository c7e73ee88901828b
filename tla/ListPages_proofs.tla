--------------------------- MODULE ListPages_proofs ---------------------------
(***************************************************************************)
(* Proofs about ListPages, for any lists, requests, rows and bounds.       *)
(*                                                                         *)
(* A row's rank is the number of rows its statement puts before it.  A     *)
(* write changes every other rank by at most one and an insertion lowers   *)
(* none, and ranks differ, so each retired or edited row lets at most one  *)
(* row slip from behind the next page to before it (FewComeFirst).         *)
(***************************************************************************)
EXTENDS ListPages, FiniteSetTheorems, SequenceTheorems, TLAPS

-------------------------------------------------------------------------------
(* The inductive invariant, in parts.                                      *)

PagesTypeOK ==
    /\ rows \in Seq(RowType) /\ Len(rows) >= Len(FirstRows)
    /\ walk \in {"idle", "ready", "items", "total", "over", "refused"}
    /\ page \in Int \cup {Absent}
    /\ items \in Seq(Nat) /\ served \in Seq(Nat)
    /\ totalItems \in Nat /\ departures \in Nat
    /\ walk = "idle" => rows = FirstRows /\ departures = 0 /\ served = <<>> /\ items = <<>>
    /\ walk # "idle" => asked \in Walks /\ asked.kind \in DOMAIN FieldsOf

(* Where the next page starts; until then the request is a served one.     *)
Boundary ==
    IF walk = "ready" THEN Offset(page, asked.size)
                      ELSE Offset(page, asked.size) + Limit(asked.size)
Upto(b) == {Listed[k] : k \in DOMAIN Listed \cap 1..b}
Received == Seqs!ToSet(served) \cup Seqs!ToSet(items)

PageInv ==
    /\ walk = "ready" => items = <<>> /\ (OrElse(page, 1) <= 1 \/ SizeAccepted(asked.size))
    /\ walk \in {"items", "total"} => PageAccepted(page) /\ SizeAccepted(asked.size)

(* Of the stable rows before the boundary at most one was missed for every *)
(* departure, and of all of them when the count ends the walk.             *)
MissInv ==
    /\ Walking => /\ stable \subseteq Seqs!ToSet(Listed)
                  /\ Cardinality((stable \cap Upto(Boundary)) \ Received) <= departures
    /\ walk = "total" /\ ~HasMore(page, asked.size, totalItems)
          => Cardinality(stable \ Received) <= departures

(* Without a write, what was received is the list up to the boundary.      *)
QuietInv ==
    departures = 0 /\ rows = FirstRows /\ Walking
    => /\ served \o items =
             SubSeq(Listed, 1, IF Boundary < Len(Listed) THEN Boundary ELSE Len(Listed))
       /\ walk = "total" => totalItems = Counted

PagesIInv == PagesTypeOK /\ PageInv /\ MissInv /\ QuietInv /\ MissesAreDepartures

-------------------------------------------------------------------------------
(* Ranks in a finite set under a strict order, and the list they make.     *)

StrictOrder(S, R) ==
    /\ \A i \in S : <<i, i>> \notin R
    /\ \A i, j, k \in S : <<i, j>> \in R /\ <<j, k>> \in R => <<i, k>> \in R
    /\ \A i, j \in S : i # j => <<i, j>> \in R \/ <<j, i>> \in R

Ahead(S, R, i) == {j \in S : <<j, i>> \in R}

LEMMA RankIs == \A S, R, i : Rank(S, R, i) = Cardinality(Ahead(S, R, i))
  BY DEF Rank, Ahead

(* A rank is less than the number of rows.                                 *)
LEMMA RankType ==
    ASSUME NEW S, NEW R, IsFiniteSet(S), StrictOrder(S, R), NEW i \in S
    PROVE  /\ IsFiniteSet(Ahead(S, R, i)) /\ Cardinality(S) \in Nat
           /\ Rank(S, R, i) \in Nat /\ Rank(S, R, i) < Cardinality(S)
<1>1. Ahead(S, R, i) \in SUBSET (S \ {i})
  BY DEF Ahead, StrictOrder
<1>2. IsFiniteSet(S \ {i}) /\ Cardinality(S \ {i}) = Cardinality(S) - 1
  BY FS_RemoveElement
<1>3. IsFiniteSet(Ahead(S, R, i)) /\ Cardinality(Ahead(S, R, i)) <= Cardinality(S) - 1
  BY <1>1, <1>2, FS_Subset
<1>4. Cardinality(S) \in Nat /\ Cardinality(Ahead(S, R, i)) \in Nat
  BY <1>3, FS_CardinalityType
<1> QED
  BY <1>3, <1>4, RankIs

(* A row that comes before another has the lower rank.                     *)
LEMMA RankGrows ==
    ASSUME NEW S, NEW R, IsFiniteSet(S), StrictOrder(S, R), NEW i \in S, NEW j \in S,
           <<i, j>> \in R
    PROVE  Rank(S, R, i) < Rank(S, R, j)
<1>1. Ahead(S, R, i) \cup {i} \in SUBSET Ahead(S, R, j) /\ i \notin Ahead(S, R, i)
  BY DEF Ahead, StrictOrder
<1>2. Cardinality(Ahead(S, R, i) \cup {i}) = Rank(S, R, i) + 1
  BY <1>1, RankType, FS_AddElement, RankIs
<1>3. Cardinality(Ahead(S, R, i) \cup {i}) <= Rank(S, R, j)
  BY <1>1, RankType, FS_Subset, RankIs
<1> QED
  BY <1>2, <1>3, RankType

(* No two rows have one rank.                                              *)
LEMMA RanksDiffer ==
    ASSUME NEW S, NEW R, IsFiniteSet(S), StrictOrder(S, R), NEW i \in S, NEW j \in S,
           Rank(S, R, i) = Rank(S, R, j)
    PROVE  i = j
<1>1. ASSUME i # j PROVE <<i, j>> \in R \/ <<j, i>> \in R
  BY <1>1 DEF StrictOrder
<1>2. Rank(S, R, i) \in Nat /\ Rank(S, R, j) \in Nat
  BY RankType
<1>3. ~(Rank(S, R, i) < Rank(S, R, j)) /\ ~(Rank(S, R, j) < Rank(S, R, i))
  BY <1>2
<1>4. <<i, j>> \notin R /\ <<j, i>> \notin R
  BY <1>3, RankGrows
<1> QED
  BY <1>1, <1>4

(* Every rank below the number of rows is taken.                           *)
LEMMA RanksAreTaken ==
    ASSUME NEW S, NEW R, IsFiniteSet(S), StrictOrder(S, R),
           NEW k \in 0..(Cardinality(S) - 1)
    PROVE  \E i \in S : Rank(S, R, i) = k
<1> DEFINE n == Cardinality(S)
           T == (0..(n - 1)) \ {k}
           f == [i \in S |-> Rank(S, R, i)]
<1>1. n \in Nat
  BY FS_CardinalityType
<1>2. IsFiniteSet(0..(n - 1)) /\ Cardinality(0..(n - 1)) = n
  <2>1. IsFiniteSet(0..(n - 1))
        /\ Cardinality(0..(n - 1)) = IF 0 > n - 1 THEN 0 ELSE (n - 1) - 0 + 1
    <3>1. \A m \in Int : IsFiniteSet(0..m)
                        /\ Cardinality(0..m) = IF 0 > m THEN 0 ELSE m - 0 + 1
      BY FS_Interval
    <3>2. n - 1 \in Int
      BY <1>1
    <3> HIDE DEF n
    <3> QED
      BY <3>1, <3>2
  <2>2. CASE n = 0
    BY <2>1, <2>2
  <2>3. CASE n > 0
    <3>1. ~(0 > n - 1) /\ (n - 1) - 0 + 1 = n
      BY <1>1, <2>3
    <3> QED
      BY <2>1, <3>1
  <2> QED
    BY <1>1, <2>2, <2>3
<1>3. IsFiniteSet(T) /\ Cardinality(T) = n - 1
  BY <1>2, FS_RemoveElement
<1>4. SUFFICES ASSUME \A i \in S : Rank(S, R, i) # k PROVE FALSE
  OBVIOUS
<1>5. f \in [S -> T]
  BY <1>1, <1>4, RankType
<1>6. Cardinality(T) < Cardinality(S)
  BY <1>1, <1>3
<1> HIDE DEF T
<1>7. PICK x, y \in S : x # y /\ f[x] = f[y]
  <2> HIDE DEF f
  <2> QED
    BY <1>3, <1>5, <1>6, FS_PigeonHole
<1> QED
  BY <1>7, RanksDiffer

(* The list has the row of each rank at its place, and every row.          *)
LEMMA RankedFacts ==
    ASSUME NEW S, NEW R, IsFiniteSet(S), StrictOrder(S, R)
    PROVE  /\ InOrder(S, R) \in Seq(S) /\ Len(InOrder(S, R)) = Cardinality(S)
           /\ Cardinality(S) \in Nat
           /\ \A k \in 1..Cardinality(S) :
                 InOrder(S, R)[k] \in S /\ Rank(S, R, InOrder(S, R)[k]) = k - 1
           /\ \A i \in S : Rank(S, R, i) + 1 \in 1..Cardinality(S)
                           /\ InOrder(S, R)[Rank(S, R, i) + 1] = i
<1> DEFINE L == InOrder(S, R)
<1>1. Cardinality(S) \in Nat
  BY FS_CardinalityType
<1>2. ASSUME NEW k \in 1..Cardinality(S)
      PROVE  L[k] \in S /\ Rank(S, R, L[k]) = k - 1
  <2>1. k - 1 \in 0..(Cardinality(S) - 1)
    BY <1>1
  <2>2. \E i \in S : Rank(S, R, i) = k - 1
    BY <2>1, RanksAreTaken
  <2> QED
    BY <2>2 DEF InOrder
<1>3. ASSUME NEW i \in S PROVE Rank(S, R, i) + 1 \in 1..Cardinality(S)
                              /\ L[Rank(S, R, i) + 1] = i
  <2>1. Rank(S, R, i) + 1 \in 1..Cardinality(S)
    BY <1>1, RankType
  <2>2. /\ L[Rank(S, R, i) + 1] \in S
        /\ Rank(S, R, L[Rank(S, R, i) + 1]) = Rank(S, R, i)
    BY <1>2, <2>1, RankType
  <2> QED
    BY <2>1, <2>2, RanksDiffer
<1>4. L \in [1..Cardinality(S) -> S] /\ Len(L) = Cardinality(S)
  BY <1>1, <1>2 DEF InOrder
<1>5. L \in Seq(S)
  BY <1>1, <1>4
<1> QED
  BY <1>1, <1>2, <1>3, <1>4, <1>5

-------------------------------------------------------------------------------
(* What a write moves in a list: S under R becomes T under Q, and d is the *)
(* row written.                                                            *)

(* The first b rows of a list.                                             *)
First(S, R, b) == {i \in S : Rank(S, R, i) < b}

Rewritten(S, R, T, Q, d) ==
    /\ S \ {d} \subseteq T
    /\ \A i, j \in S \ {d} : <<i, j>> \in Q <=> <<i, j>> \in R

(* A row that stays comes at most one place earlier, and none if the row   *)
(* written was not listed before.                                          *)
LEMMA RankShift ==
    ASSUME NEW S, NEW R, NEW T, NEW Q, NEW d, IsFiniteSet(S), StrictOrder(S, R),
           IsFiniteSet(T), StrictOrder(T, Q), Rewritten(S, R, T, Q, d), NEW i \in S \ {d}
    PROVE  /\ i \in T /\ Rank(S, R, i) \in Nat /\ Rank(T, Q, i) \in Nat
           /\ Rank(S, R, i) <= Rank(T, Q, i) + 1
           /\ d \notin S => Rank(S, R, i) <= Rank(T, Q, i)
<1> DEFINE A == Ahead(S, R, i)
           B == Ahead(T, Q, i)
<1>1. i \in T /\ A \ {d} \in SUBSET B
  BY DEF Rewritten, Ahead
<1>2. IsFiniteSet(A) /\ IsFiniteSet(B) /\ Cardinality(A) \in Nat /\ Cardinality(B) \in Nat
  BY <1>1, RankType, FS_CardinalityType
<1>3. Cardinality(A \ {d}) <= Cardinality(B)
  BY <1>1, <1>2, FS_Subset
<1>4. Cardinality(A) <= Cardinality(A \ {d}) + 1
  <2> HIDE DEF A
  <2>1. CASE d \in A
    <3>1. Cardinality(A \ {d}) = Cardinality(A) - 1
      BY <1>2, <2>1, FS_RemoveElement
    <3> QED
      BY <1>2, <3>1
  <2>2. CASE d \notin A
    <3>1. A \ {d} = A
      BY <2>2
    <3> QED
      BY <1>2, <3>1
  <2> QED
    BY <2>1, <2>2
<1>5. d \notin S => A \ {d} = A
  BY DEF Ahead
<1>6. Cardinality(A \ {d}) \in Nat
  BY <1>2, FS_RemoveElement, FS_CardinalityType
<1>7. Rank(S, R, i) = Cardinality(A) /\ Rank(T, Q, i) = Cardinality(B)
  BY RankIs
<1>8. d \notin S => Cardinality(A) = Cardinality(A \ {d})
  BY <1>5
<1> DEFINE a == Cardinality(A)
           b == Cardinality(B)
           c == Cardinality(A \ {d})
<1>9. /\ a \in Nat /\ b \in Nat /\ c \in Nat /\ c <= b /\ a <= c + 1
      /\ d \notin S => a = c
      /\ Rank(S, R, i) = a /\ Rank(T, Q, i) = b
  BY <1>2, <1>3, <1>4, <1>6, <1>7, <1>8
<1> HIDE DEF a, b, c
<1> QED
  BY <1>1, <1>9

(* Of a set X of rows other than G, at most one comes to the first b by a  *)
(* write, and none by an insertion.                                        *)
LEMMA FewComeFirst ==
    ASSUME NEW S, NEW R, NEW T, NEW Q, NEW d, IsFiniteSet(S), StrictOrder(S, R),
           IsFiniteSet(T), StrictOrder(T, Q), Rewritten(S, R, T, Q, d),
           NEW X \in SUBSET S, NEW G, NEW b \in Int
    PROVE  LET before == (X \cap First(S, R, b)) \ G
               after  == ((X \ {d}) \cap First(T, Q, b)) \ G
           IN  /\ IsFiniteSet(before) /\ IsFiniteSet(after)
               /\ Cardinality(before) \in Nat /\ Cardinality(after) \in Nat
               /\ Cardinality(after) <= Cardinality(before) + 1
               /\ d \notin S => Cardinality(after) <= Cardinality(before)
<1> DEFINE before == (X \cap First(S, R, b)) \ G
           after  == ((X \ {d}) \cap First(T, Q, b)) \ G
<1>1. IsFiniteSet(before) /\ IsFiniteSet(after)
  <2>1. before \in SUBSET S /\ after \in SUBSET S
    OBVIOUS
  <2> HIDE DEF before, after
  <2> QED
    BY <2>1, FS_Subset
<1>2. Cardinality(before) \in Nat /\ Cardinality(after) \in Nat
  BY <1>1, FS_CardinalityType
<1>3. ASSUME NEW i \in after, i \notin before PROVE Rank(S, R, i) = b /\ d \in S
  <2>1. i \in S \ {d} /\ Rank(T, Q, i) < b
    BY DEF First
  <2>2. ~(Rank(S, R, i) < b)
    BY <1>3 DEF First
  <2> QED
    BY <2>1, <2>2, RankShift
<1>4. CASE after \subseteq before
  <2>1. Cardinality(after) <= Cardinality(before)
    BY <1>1, <1>4, FS_Subset
  <2> QED
    BY <1>1, <1>2, <2>1
<1>5. CASE ~(after \subseteq before)
  <2>1. PICK e \in after : e \notin before
    BY <1>5
  <2>2. \A i \in after : i \in before \/ i = e
    <3>1. ASSUME NEW i \in after, i \notin before PROVE i = e
      <4>1. Rank(S, R, i) = Rank(S, R, e) /\ i \in S /\ e \in S
        BY <1>3, <2>1, <3>1
      <4> QED
        BY <4>1, RanksDiffer
    <3> QED
      BY <3>1
  <2>3. d \in S
    BY <1>3, <2>1
  <2>4. after \in SUBSET (before \cup {e})
    BY <2>2
  <2>5. IsFiniteSet(before \cup {e}) /\ Cardinality(before \cup {e}) = Cardinality(before) + 1
    BY <1>1, <2>1, FS_AddElement
  <2>6. Cardinality(after) <= Cardinality(before) + 1
    BY <2>4, <2>5, FS_Subset
  <2> QED
    BY <1>1, <1>2, <2>3, <2>6
<1> QED
  BY <1>4, <1>5

-------------------------------------------------------------------------------
(* The list of the walk: the rows it matches, in its order.                *)

Matched ==
    LET f == asked.filter
    IN  CASE asked.kind = "categories" -> LiveRows(CategoryMatches, f)
          [] asked.kind = "attributes" -> LiveRows(AttributeMatches, f)
          [] asked.kind = "priceLists" -> LiveRows(PriceListMatches, f)
          [] asked.kind = "bindings"   -> LiveRows(BindingMatches, f)
          [] asked.kind = "products"   -> LiveRows(ProductMatches, f)
          [] asked.kind = "skus"       -> LiveRows(SkuMatches, f)
          [] asked.kind = "media"      -> LiveRows(MediaMatches, f)
Precedes(i, j) ==
    CASE asked.kind \in {"categories", "attributes"} -> ByRank(i, j)
      [] asked.kind = "priceLists" -> ByPriority(i, j)
      [] asked.kind = "bindings"   -> ByCategory(i, j)
      [] asked.kind = "products"   -> ProductOrder(asked.filter.sort, i, j)
      [] asked.kind = "skus"       -> ById(i, j)
      [] asked.kind = "media"      -> ByOwnerAndRole(i, j)
Order == {p \in (DOMAIN rows) \X (DOMAIN rows) : Precedes(p[1], p[2])}
Kinds == {"categories", "attributes", "priceLists", "bindings", "products", "skus", "media"}

LEMMA KindsAre == DOMAIN FieldsOf = Kinds
  BY DEF FieldsOf, Kinds

(* The list and its count are those of the matching rows.                  *)
LEMMA ListedIs ==
    ASSUME asked.kind \in Kinds
    PROVE  Listed = InOrder(Matched, Order) /\ Counted = Cardinality(Matched)
<1>1. CASE asked.kind = "categories"
  <2>1. Matched = LiveRows(CategoryMatches, asked.filter) /\ Order = Pairs(ByRank)
    BY <1>1 DEF Matched, Order, Precedes, Pairs
  <2> QED
    BY <1>1, <2>1 DEF Listed, Counted, ListCategories, CountCategories
<1>2. CASE asked.kind = "attributes"
  <2>1. Matched = LiveRows(AttributeMatches, asked.filter) /\ Order = Pairs(ByRank)
    BY <1>2 DEF Matched, Order, Precedes, Pairs
  <2> QED
    BY <1>2, <2>1 DEF Listed, Counted, ListAttributes, CountAttributes
<1>3. CASE asked.kind = "priceLists"
  <2>1. Matched = LiveRows(PriceListMatches, asked.filter) /\ Order = Pairs(ByPriority)
    BY <1>3 DEF Matched, Order, Precedes, Pairs
  <2> QED
    BY <1>3, <2>1 DEF Listed, Counted, ListPriceLists, CountPriceLists
<1>4. CASE asked.kind = "bindings"
  <2>1. Matched = LiveRows(BindingMatches, asked.filter) /\ Order = Pairs(ByCategory)
    BY <1>4 DEF Matched, Order, Precedes, Pairs
  <2> QED
    BY <1>4, <2>1 DEF Listed, Counted, ListCategoryAttributes, CountCategoryAttributes
<1>5. CASE asked.kind = "products"
  <2>1. Matched = LiveRows(ProductMatches, asked.filter)
        /\ Order = {p \in (DOMAIN rows) \X (DOMAIN rows) :
                       ProductOrder(asked.filter.sort, p[1], p[2])}
    BY <1>5 DEF Matched, Order, Precedes
  <2> QED
    BY <1>5, <2>1 DEF Listed, Counted, ListSpus, CountSpus, Pairs
<1>6. CASE asked.kind = "skus"
  <2>1. Matched = LiveRows(SkuMatches, asked.filter) /\ Order = Pairs(ById)
    BY <1>6 DEF Matched, Order, Precedes, Pairs
  <2> QED
    BY <1>6, <2>1 DEF Listed, Counted, ListSkus, CountSkus
<1>7. CASE asked.kind = "media"
  <2>1. Matched = LiveRows(MediaMatches, asked.filter) /\ Order = Pairs(ByOwnerAndRole)
    BY <1>7 DEF Matched, Order, Precedes, Pairs
  <2> QED
    BY <1>7, <2>1 DEF Listed, Counted, ListMedia, CountMedia
<1> QED
  BY <1>1, <1>2, <1>3, <1>4, <1>5, <1>6, <1>7 DEF Kinds

(* The columns of rows of the right type.                                  *)
LEMMA RowFacts ==
    ASSUME NEW r \in RowType
    PROVE  /\ r.live \in BOOLEAN /\ r.parent \in Int /\ r.group \in Int /\ r.rank \in Int
           /\ RowAs(FALSE, r) \in RowType /\ ~RowAs(FALSE, r).live
<1>1. PICK c \in Contents : r = RowAs(TRUE, c) \/ r = RowAs(FALSE, c)
  BY DEF RowType
<1>2. c.parent \in Int /\ c.group \in Int /\ c.rank \in Int
  BY RowsAssumption
<1>3. /\ r.parent = c.parent /\ r.group = c.group /\ r.status = c.status
      /\ r.tags = c.tags /\ r.rank = c.rank /\ r.live \in BOOLEAN
  <2>1. CASE r = RowAs(TRUE, c)
    BY <2>1 DEF RowAs
  <2>2. CASE r = RowAs(FALSE, c)
    BY <2>2 DEF RowAs
  <2> QED
    BY <1>1, <2>1, <2>2
<1>5. RowAs(FALSE, r) = RowAs(FALSE, c) /\ ~RowAs(FALSE, r).live
  BY <1>3 DEF RowAs
<1>4. RowAs(FALSE, r) \in RowType
  BY <1>5 DEF RowType
<1> QED
  BY <1>2, <1>3, <1>4, <1>5

(* The row a write gives is of the right type.                             *)
LEMMA WrittenRow == ASSUME NEW body \in RowBodies PROVE Row(body) \in RowType
  BY DEF Row, RowType, Contents

LEMMA ColumnFacts ==
    ASSUME rows \in Seq(RowType)
    PROVE  /\ DOMAIN rows = 1..Len(rows) /\ Len(rows) \in Nat
           /\ \A i \in DOMAIN rows :
                 /\ rows[i] \in RowType /\ rows[i].live \in BOOLEAN /\ rows[i].parent \in Int
                 /\ rows[i].group \in Int /\ rows[i].rank \in Int /\ IsUnpriced(i) \in 0..1
<1>1. DOMAIN rows = 1..Len(rows) /\ Len(rows) \in Nat
      /\ \A i \in DOMAIN rows : rows[i] \in RowType
  OBVIOUS
<1>2. ASSUME NEW i \in DOMAIN rows
      PROVE  /\ rows[i].live \in BOOLEAN /\ rows[i].parent \in Int
             /\ rows[i].group \in Int /\ rows[i].rank \in Int
  <2>1. rows[i] \in RowType
    BY <1>1
  <2> QED
    BY <2>1, RowFacts
<1>3. \A i : IsUnpriced(i) \in 0..1
  BY DEF IsUnpriced
<1> QED
  BY <1>1, <1>2, <1>3

(* An order by a column, and else by a strict order, is strict.            *)
LEMMA OrderedIsStrict ==
    ASSUME NEW S, NEW R, NEW Q, NEW f, StrictOrder(S, R), \A i \in S : f[i] \in Int,
           \A i, j \in S : <<i, j>> \in Q <=> Ordered(f[i], f[j], <<i, j>> \in R)
    PROVE  StrictOrder(S, Q)
<1>1. \A i, j \in S : <<i, j>> \in Q <=> f[i] < f[j] \/ (f[i] = f[j] /\ <<i, j>> \in R)
  BY DEF Ordered
<1>2. ASSUME NEW i \in S PROVE <<i, i>> \notin Q
  <2>1. ~(f[i] < f[i])
    OBVIOUS
  <2>2. <<i, i>> \notin R
    BY DEF StrictOrder
  <2> QED
    BY <1>1, <2>1, <2>2
<1>3. ASSUME NEW i \in S, NEW j \in S, NEW k \in S, <<i, j>> \in Q, <<j, k>> \in Q
      PROVE  <<i, k>> \in Q
  <2>1. CASE f[i] = f[j] /\ f[j] = f[k]
    BY <1>1, <1>3, <2>1 DEF StrictOrder
  <2>2. CASE ~(f[i] = f[j] /\ f[j] = f[k])
    <3>1. f[i] < f[k]
      BY <1>1, <1>3, <2>2
    <3> QED
      BY <1>1, <3>1
  <2> QED
    BY <2>1, <2>2
<1>4. ASSUME NEW i \in S, NEW j \in S, i # j PROVE <<i, j>> \in Q \/ <<j, i>> \in Q
  <2>1. f[i] < f[j] \/ f[i] = f[j] \/ f[j] < f[i]
    OBVIOUS
  <2> QED
    BY <1>1, <1>4, <2>1 DEF StrictOrder
<1> QED
  BY <1>2, <1>3, <1>4 DEF StrictOrder

(* The ORDER BY of every statement is strict and total, because it ends in *)
(* the id.                                                                 *)
LEMMA OrderIsStrict ==
    ASSUME rows \in Seq(RowType), asked.kind \in Kinds
    PROVE  StrictOrder(DOMAIN rows, Order)
<1> DEFINE D == DOMAIN rows
           Rel(P(_, _)) == {p \in D \X D : P(p[1], p[2])}
<1>1. \A i \in D : i \in Int
  BY ColumnFacts
<1>2. StrictOrder(D, Rel(ById))
  BY <1>1 DEF StrictOrder, ById
<1>3. StrictOrder(D, Rel(ByRank))
  <2> DEFINE f == [i \in D |-> rows[i].rank]
  <2>1. \A i \in D : f[i] \in Int
    BY ColumnFacts
  <2>2. \A i, j \in D : <<i, j>> \in Rel(ByRank)
                         <=> Ordered(f[i], f[j], <<i, j>> \in Rel(ById))
    BY DEF ByRank, ById, Ordered
  <2> HIDE DEF f, Rel, D
  <2> QED
    BY <1>2, <2>1, <2>2, OrderedIsStrict
<1>4. StrictOrder(D, Rel(ByPriority))
  <2> DEFINE f == [i \in D |-> -rows[i].rank]
  <2>1. \A i \in D : f[i] \in Int
    BY ColumnFacts
  <2>2. \A i, j \in D : <<i, j>> \in Rel(ByPriority)
                         <=> Ordered(f[i], f[j], <<i, j>> \in Rel(ById))
    BY DEF ByPriority, ById, Ordered
  <2> HIDE DEF f, Rel, D
  <2> QED
    BY <1>2, <2>1, <2>2, OrderedIsStrict
<1>5. StrictOrder(D, Rel(ByCategory))
  <2> DEFINE f == [i \in D |-> rows[i].parent]
  <2>1. \A i \in D : f[i] \in Int
    BY ColumnFacts
  <2>2. \A i, j \in D : <<i, j>> \in Rel(ByCategory)
                         <=> Ordered(f[i], f[j], <<i, j>> \in Rel(ByRank))
    BY DEF ByCategory, Ordered
  <2> HIDE DEF f, Rel, D
  <2> QED
    BY <1>3, <2>1, <2>2, OrderedIsStrict
<1>6. StrictOrder(D, Rel(ByOwnerAndRole))
  <2> DEFINE f == [i \in D |-> rows[i].parent]
             g == [i \in D |-> rows[i].group]
             ByRole == {p \in D \X D : Ordered(g[p[1]], g[p[2]], p \in Rel(ByRank))}
  <2>1. \A i \in D : f[i] \in Int /\ g[i] \in Int
    BY ColumnFacts
  <2>2. \A i, j \in D : <<i, j>> \in ByRole
                         <=> Ordered(g[i], g[j], <<i, j>> \in Rel(ByRank))
    BY DEF Ordered
  <2>3. \A i, j \in D : <<i, j>> \in Rel(ByOwnerAndRole)
                         <=> Ordered(f[i], f[j], <<i, j>> \in ByRole)
    BY DEF ByOwnerAndRole, Ordered
  <2>4. StrictOrder(D, ByRole)
    <3> HIDE DEF f, g, Rel, D, ByRole
    <3> QED
      BY <1>3, <2>1, <2>2, OrderedIsStrict
  <2> HIDE DEF f, g, Rel, D, ByRole
  <2> QED
    BY <2>1, <2>3, <2>4, OrderedIsStrict
<1>7. StrictOrder(D, Rel(ByPriceUp)) /\ StrictOrder(D, Rel(ByPriceDown))
  <2> DEFINE f == [i \in D |-> IsUnpriced(i)]
  <2>1. \A i \in D : f[i] \in Int
    BY ColumnFacts
  <2>2. \A i, j \in D : <<i, j>> \in Rel(ByPriceUp)
                         <=> Ordered(f[i], f[j], <<i, j>> \in Rel(ByRank))
    BY DEF ByPriceUp, Ordered
  <2>3. \A i, j \in D : <<i, j>> \in Rel(ByPriceDown)
                         <=> Ordered(f[i], f[j], <<i, j>> \in Rel(ByPriority))
    BY DEF ByPriceDown, Ordered
  <2> HIDE DEF f, Rel, D
  <2> QED
    BY <1>3, <1>4, <2>1, <2>2, <2>3, OrderedIsStrict
<1>8. CASE asked.kind \in {"categories", "attributes"}
  <2>1. Order = Rel(ByRank)
    BY <1>8 DEF Order, Precedes
  <2> QED
    BY <1>3, <2>1
<1>9. CASE asked.kind = "priceLists"
  <2>1. Order = Rel(ByPriority)
    BY <1>9 DEF Order, Precedes
  <2> QED
    BY <1>4, <2>1
<1>10. CASE asked.kind = "bindings"
  <2>1. Order = Rel(ByCategory)
    BY <1>10 DEF Order, Precedes
  <2> QED
    BY <1>5, <2>1
<1>11. CASE asked.kind = "products"
  <2>1. CASE asked.filter.sort = "price-asc"
    <3>1. Order = Rel(ByPriceUp)
      BY <1>11, <2>1 DEF Order, Precedes, ProductOrder
    <3> QED
      BY <1>7, <3>1
  <2>2. CASE asked.filter.sort = "price-desc"
    <3>1. Order = Rel(ByPriceDown)
      BY <1>11, <2>2 DEF Order, Precedes, ProductOrder
    <3> QED
      BY <1>7, <3>1
  <2>3. CASE asked.filter.sort \notin {"price-asc", "price-desc"}
    <3>1. \A i, j \in D : <<i, j>> \in Order <=> j < i
      BY <1>11, <2>3 DEF Order, Precedes, ProductOrder
    <3> QED
      BY <1>1, <3>1 DEF StrictOrder
  <2> QED
    BY <2>1, <2>2, <2>3
<1>12. CASE asked.kind = "skus"
  <2>1. Order = Rel(ById)
    BY <1>12 DEF Order, Precedes
  <2> QED
    BY <1>2, <2>1
<1>13. CASE asked.kind = "media"
  <2>1. Order = Rel(ByOwnerAndRole)
    BY <1>13 DEF Order, Precedes
  <2> QED
    BY <1>6, <2>1
<1> QED
  BY <1>8, <1>9, <1>10, <1>11, <1>12, <1>13 DEF Kinds

LEMMA MatchedFacts ==
    ASSUME rows \in Seq(RowType), asked.kind \in Kinds
    PROVE  /\ Matched \subseteq DOMAIN rows /\ IsFiniteSet(Matched)
           /\ StrictOrder(Matched, Order)
<1>1. Matched \subseteq DOMAIN rows
  BY DEF Matched, LiveRows, Kinds
<1>2. IsFiniteSet(DOMAIN rows)
  BY ColumnFacts, FS_Interval
<1>3. IsFiniteSet(Matched)
  BY <1>1, <1>2, FS_Subset
<1> QED
  BY <1>1, <1>3, OrderIsStrict DEF StrictOrder

(* Whether a row is listed, and which of two comes first, is a matter of   *)
(* these rows alone.                                                       *)
LEMMA RowsDecide ==
    ASSUME asked.kind \in Kinds, asked' = asked
    PROVE  /\ \A i \in DOMAIN rows \cap DOMAIN rows' :
                 rows'[i] = rows[i] => (i \in Matched' <=> i \in Matched)
           /\ \A i, j \in DOMAIN rows \cap DOMAIN rows' :
                 rows'[i] = rows[i] /\ rows'[j] = rows[j]
                 => (<<i, j>> \in Order' <=> <<i, j>> \in Order)
<1>1. ASSUME NEW i \in DOMAIN rows \cap DOMAIN rows', rows'[i] = rows[i]
      PROVE  i \in Matched' <=> i \in Matched
  BY <1>1 DEF Matched, LiveRows, Kinds, CategoryMatches, AttributeMatches,
     PriceListMatches, BindingMatches, ProductMatches, SearchMatches, SkuMatches,
     MediaMatches
<1>2. ASSUME NEW i \in DOMAIN rows \cap DOMAIN rows', NEW j \in DOMAIN rows \cap DOMAIN rows',
             rows'[i] = rows[i], rows'[j] = rows[j]
      PROVE  <<i, j>> \in Order' <=> <<i, j>> \in Order
  <2>1. Precedes(i, j)' <=> Precedes(i, j)
    BY <1>2 DEF Precedes, Kinds, ById, ByRank, ByPriority, ByCategory, ByOwnerAndRole,
       ProductOrder, ByPriceUp, ByPriceDown, IsUnpriced, Ordered
  <2> QED
    BY <2>1 DEF Order
<1> QED
  BY <1>1, <1>2

-------------------------------------------------------------------------------
(* Pages: where they start, and when the count says that one is the last.  *)

Parameter == Int \cup {Absent}

LEMMA OffsetType ==
    ASSUME NEW p \in Parameter, NEW s \in Parameter
    PROVE  /\ OrElse(p, 1) \in Int /\ Limit(s) \in Int /\ Offset(p, s) \in Int
           /\ OrElse(p, 1) <= 1 => Offset(p, s) = 0
<1>1. OrElse(p, 1) \in Int /\ Limit(s) \in Int
  BY SizesAssumption DEF Parameter, OrElse, Limit
<1>2. Offset(p, s) = (IF OrElse(p, 1) - 1 > 0 THEN OrElse(p, 1) - 1 ELSE 0) * Limit(s)
  BY DEF Offset
<1> DEFINE l == Limit(s)
           n == OrElse(p, 1)
<1> HIDE DEF l, n
<1>3. (IF n - 1 > 0 THEN n - 1 ELSE 0) * l \in Int
      /\ (n <= 1 => (IF n - 1 > 0 THEN n - 1 ELSE 0) * l = 0)
  <2>1. l \in Int /\ n \in Int
    BY <1>1 DEF l, n
  <2>2. 0 * l = 0 /\ (n - 1) * l \in Int
    BY <2>1
  <2> QED
    BY <2>1, <2>2
<1> QED
  BY <1>1, <1>2, <1>3 DEF l, n

(* An accepted page starts where the one before it ended.                  *)
LEMMA NextOffset ==
    ASSUME NEW p \in Parameter, NEW s \in Parameter, PageAccepted(p), SizeAccepted(s)
    PROVE  /\ Limit(s) \in Nat \ {0} /\ Limit(s) = OrElse(s, DefaultSize)
           /\ OrElse(p, 1) \in Nat \ {0} /\ OrElse(p, 1) + 1 \in Parameter
           /\ Offset(p, s) = (OrElse(p, 1) - 1) * Limit(s) /\ Offset(p, s) \in Nat
           /\ OrElse(OrElse(p, 1) + 1, 1) = OrElse(p, 1) + 1
           /\ Offset(OrElse(p, 1) + 1, s) = Offset(p, s) + Limit(s)
<1> DEFINE l == Limit(s)
           n == OrElse(p, 1)
<1>1. l \in Nat \ {0} /\ l = OrElse(s, DefaultSize)
  BY SizesAssumption, FirstPageAssumption DEF Parameter, OrElse, Limit, SizeAccepted
<1>2. n \in Nat \ {0}
  BY FirstPageAssumption DEF Parameter, OrElse, PageAccepted
<1>3. n + 1 \in Parameter /\ OrElse(n + 1, 1) = n + 1
  BY <1>2, FirstPageAssumption DEF Parameter, OrElse
<1>4. Offset(p, s) = (IF n - 1 > 0 THEN n - 1 ELSE 0) * l
      /\ Offset(n + 1, s) = (IF (n + 1) - 1 > 0 THEN (n + 1) - 1 ELSE 0) * l
  BY <1>3 DEF Offset
<1> HIDE DEF l, n
<1>5. /\ (IF n - 1 > 0 THEN n - 1 ELSE 0) = n - 1 /\ n - 1 \in Nat
      /\ (IF (n + 1) - 1 > 0 THEN (n + 1) - 1 ELSE 0) = n
  BY <1>2
<1>6. (n - 1) * l \in Nat /\ n * l = (n - 1) * l + l
  <2>1. \A x, y \in Nat : x * y \in Nat /\ (x + 1) * y = x * y + y
    OBVIOUS
  <2>2. n - 1 \in Nat /\ l \in Nat /\ (n - 1) + 1 = n
    BY <1>1, <1>2
  <2> QED
    BY <2>1, <2>2
<1>7. Offset(p, s) = (n - 1) * l /\ Offset(n + 1, s) = n * l
  BY <1>4, <1>5
<1> QED
  BY <1>1, <1>2, <1>3, <1>6, <1>7 DEF l, n

(* A page that the count says is the last reaches the end.                 *)
LEMMA LastPage ==
    ASSUME NEW p \in Parameter, NEW s \in Parameter, PageAccepted(p), SizeAccepted(s),
           NEW total \in Nat, ~HasMore(p, s, total)
    PROVE  total <= Offset(p, s) + Limit(s)
<1> DEFINE l == Limit(s)
           n == OrElse(p, 1)
           q == (total + l - 1) \div l
           m == (total + l - 1) % l
<1>1. l \in Nat \ {0} /\ n \in Nat \ {0} /\ Offset(p, s) = (n - 1) * l
  BY NextOffset
<1>2. total = 0 \/ ~(n < q)
  BY NextOffset DEF HasMore
<1> HIDE DEF l, n
<1>3. q \in Int /\ m \in 0..(l - 1) /\ total + l - 1 = l * q + m
  BY <1>1, SMT
<1> HIDE DEF q, m
<1>4. (n - 1) * l \in Nat /\ n * l = (n - 1) * l + l
  <2>1. \A x, y \in Nat : x * y \in Nat /\ (x + 1) * y = x * y + y
    OBVIOUS
  <2>2. n - 1 \in Nat /\ l \in Nat /\ (n - 1) + 1 = n
    BY <1>1
  <2> QED
    BY <2>1, <2>2
<1>5. CASE total = 0
  BY <1>1, <1>4, <1>5 DEF l
<1>6. CASE q <= n
  <2>1. l * q <= n * l /\ l * q \in Int
    BY <1>1, <1>3, <1>6, SMT
  <2>2. total <= l * q
    BY <1>1, <1>3, <2>1
  <2> QED
    BY <1>1, <1>4, <2>1, <2>2 DEF l
<1> QED
  BY <1>1, <1>2, <1>3, <1>5, <1>6

-------------------------------------------------------------------------------
(* The parts of the list of the walk.                                      *)

LEMMA ListFacts ==
    ASSUME rows \in Seq(RowType), asked.kind \in Kinds
    PROVE  /\ Listed \in Seq(Nat) /\ Len(Listed) = Counted /\ Counted \in Nat
           /\ Seqs!ToSet(Listed) = Matched /\ DOMAIN Listed = 1..Counted
           /\ \A k \in 1..Counted : /\ Listed[k] \in Matched
                                    /\ Rank(Matched, Order, Listed[k]) = k - 1
           /\ \A i \in Matched : /\ Rank(Matched, Order, i) + 1 \in 1..Counted
                                 /\ Listed[Rank(Matched, Order, i) + 1] = i
<1>1. IsFiniteSet(Matched) /\ StrictOrder(Matched, Order) /\ Matched \subseteq Nat
  BY MatchedFacts, ColumnFacts
<1>2. Listed = InOrder(Matched, Order) /\ Counted = Cardinality(Matched)
  BY ListedIs
<1>3. /\ Listed \in Seq(Matched) /\ Len(Listed) = Counted /\ Counted \in Nat
      /\ \A k \in 1..Counted : /\ Listed[k] \in Matched
                               /\ Rank(Matched, Order, Listed[k]) = k - 1
      /\ \A i \in Matched : /\ Rank(Matched, Order, i) + 1 \in 1..Counted
                            /\ Listed[Rank(Matched, Order, i) + 1] = i
  BY <1>1, <1>2, RankedFacts
<1>4. Listed \in Seq(Nat) /\ DOMAIN Listed = 1..Counted
  <2>1. DOMAIN Listed = 1..Counted /\ Listed = [k \in 1..Counted |-> Listed[k]]
    BY <1>3
  <2>2. \A k \in 1..Counted : Listed[k] \in Nat
    BY <1>1, <1>3
  <2>3. Listed \in [1..Counted -> Nat]
    BY <2>1, <2>2
  <2> QED
    BY <1>3, <2>1, <2>3
<1>5. Seqs!ToSet(Listed) = Matched
  BY <1>3, <1>4 DEF Seqs!ToSet
<1> QED
  BY <1>3, <1>4, <1>5

(* The list up to a place holds the rows of lower rank.                    *)
LEMMA UptoIs ==
    ASSUME rows \in Seq(RowType), asked.kind \in Kinds, NEW b \in Int
    PROVE  Upto(b) = First(Matched, Order, b)
<1>1. ASSUME NEW i \in Upto(b) PROVE i \in First(Matched, Order, b)
  <2>1. PICK k \in 1..Counted : k <= b /\ i = Listed[k]
    BY <1>1, ListFacts DEF Upto
  <2> QED
    BY <2>1, ListFacts DEF First
<1>2. ASSUME NEW i \in First(Matched, Order, b) PROVE i \in Upto(b)
  <2>1. i \in Matched /\ Rank(Matched, Order, i) < b
    BY DEF First
  <2> DEFINE k == Rank(Matched, Order, i) + 1
  <2>2. k \in 1..Counted /\ Listed[k] = i
    BY <2>1, ListFacts
  <2>3. k \in DOMAIN Listed \cap 1..b
    BY <2>1, <2>2, ListFacts
  <2> QED
    BY <2>2, <2>3 DEF Upto
<1> QED
  BY <1>1, <1>2

LEMMA PartHolds ==
    ASSUME NEW L \in Seq(Nat), NEW a \in Nat, NEW b \in Nat, b <= Len(L), NEW k \in (a + 1)..b
    PROVE  k - a \in DOMAIN SubSeq(L, a + 1, b) /\ SubSeq(L, a + 1, b)[k - a] = L[k]
<1> DEFINE j == k - a
<1>1. a + 1 \in Int /\ b \in Int /\ a + 1 <= b /\ b - (a + 1) + 1 = b - a
  OBVIOUS
<1>2. j \in 1..(b - a) /\ (a + 1) + j - 1 = k
  OBVIOUS
<1>3. \A i \in (a + 1)..b : L[i] \in Nat
  <2> TAKE i \in (a + 1)..b
  <2>1. i \in 1..Len(L)
    OBVIOUS
  <2> QED
    BY <2>1
<1>4. /\ SubSeq(L, a + 1, b) \in Seq(Nat) /\ Len(SubSeq(L, a + 1, b)) = b - a
      /\ \A i \in 1..(b - a) : SubSeq(L, a + 1, b)[i] = L[(a + 1) + i - 1]
  BY <1>1, <1>3, SubSeqProperties
<1> HIDE DEF j
<1>5. j \in DOMAIN SubSeq(L, a + 1, b) /\ SubSeq(L, a + 1, b)[j] = L[k]
  BY <1>2, <1>4
<1> QED
  BY <1>5 DEF j

(* The window is the part of the list between two places.                  *)
LEMMA WindowFacts ==
    ASSUME NEW L \in Seq(Nat), NEW o \in Nat, NEW l \in Nat,
           o = Offset(page, asked.size), l = Limit(asked.size)
    PROVE  /\ Window(L) \in Seq(Nat)
           /\ \A k \in DOMAIN L \cap 1..(o + l) : k \in 1..o \/ L[k] \in Seqs!ToSet(Window(L))
           /\ SubSeq(L, 1, IF o < Len(L) THEN o ELSE Len(L)) \o Window(L)
                = SubSeq(L, 1, IF o + l < Len(L) THEN o + l ELSE Len(L))
<1> DEFINE last == IF o + l < Len(L) THEN o + l ELSE Len(L)
           W == SubSeq(L, o + 1, last)
<1>1. Window(L) = W
  BY DEF Window
<1>2. last \in Nat /\ last <= Len(L) /\ Len(L) \in Nat
  OBVIOUS
<1>3. W \in Seq(Nat) /\ Len(W) = IF o + 1 <= last THEN last - o ELSE 0
  BY <1>2
<1>4. ASSUME NEW k \in DOMAIN L \cap 1..(o + l), k \notin 1..o PROVE L[k] \in Seqs!ToSet(W)
  <2>1. k \in (o + 1)..last /\ o + 1 <= last
    BY <1>2, <1>4
  <2> HIDE DEF last
  <2>2. k - o \in DOMAIN W /\ W[k - o] = L[k]
    BY <1>2, <2>1, PartHolds
  <2> QED
    BY <2>2 DEF Seqs!ToSet
<1>5. SubSeq(L, 1, IF o < Len(L) THEN o ELSE Len(L)) \o W = SubSeq(L, 1, last)
  <2>1. CASE o < Len(L)
    <3>1. o <= last
      BY <1>2, <2>1
    <3> HIDE DEF last
    <3>3. 1 \in 1..(Len(L) + 1) /\ o \in (1 - 1)..Len(L) /\ last \in o..Len(L)
      BY <1>2, <2>1, <3>1
    <3>2. SubSeq(L, 1, o) \o SubSeq(L, o + 1, last) = SubSeq(L, 1, last)
      BY <3>3, ConcatAdjacentSubSeq
    <3> QED
      BY <2>1, <3>2
  <2>2. CASE ~(o < Len(L))
    <3>1. last = Len(L) /\ ~(o + 1 <= last)
      BY <1>2, <2>2
    <3>2. W = <<>>
      BY <1>3, <3>1
    <3>3. SubSeq(L, 1, Len(L)) = L
      BY SubSeqFull
    <3> QED
      BY <2>2, <3>1, <3>2, <3>3, ConcatEmptySeq
  <2> QED
    BY <2>1, <2>2
<1> QED
  BY <1>1, <1>3, <1>4, <1>5

(* A step that leaves rows and request alone leaves the list alone.        *)
LEMMA SameList ==
    ASSUME rows \in Seq(RowType), asked.kind \in Kinds, UNCHANGED <<rows, asked>>
    PROVE  Listed' = Listed /\ Counted' = Counted
<1>1. Matched' = Matched /\ Order' = Order
  <2>1. Matched' = Matched
    BY DEF Matched, LiveRows, Kinds, CategoryMatches, AttributeMatches,
       PriceListMatches, BindingMatches, ProductMatches, SearchMatches, SkuMatches,
       MediaMatches
  <2>2. \A p \in (DOMAIN rows) \X (DOMAIN rows) : p \in Order' <=> p \in Order
    BY RowsDecide
  <2> QED
    BY <2>1, <2>2 DEF Order
<1>2. (asked.kind \in Kinds)' => (Listed = InOrder(Matched, Order) /\ Counted = Cardinality(Matched))'
  BY ListedIs, PTL
<1> QED
  BY <1>1, <1>2, ListedIs

-------------------------------------------------------------------------------
(* The inductive invariant.                                                *)

(* What the invariant says of a walk that has begun.                       *)
LEMMA WalkFacts ==
    ASSUME PagesTypeOK, walk # "idle"
    PROVE  /\ rows \in Seq(RowType) /\ asked.kind \in Kinds
           /\ page \in Parameter /\ asked.size \in Parameter
           /\ Offset(page, asked.size) \in Int /\ Limit(asked.size) \in Int
           /\ Boundary \in Int
<1>1. /\ rows \in Seq(RowType) /\ asked.kind \in Kinds
      /\ page \in Parameter /\ asked.size \in Parameter
  BY KindsAre, FirstPageAssumption DEF PagesTypeOK, Parameter
<1>2. Offset(page, asked.size) \in Int /\ Limit(asked.size) \in Int
  BY <1>1, OffsetType
<1> QED
  BY <1>1, <1>2 DEF Boundary

(* MissInv over ranks.                                                     *)
MissForm ==
    /\ Walking => /\ stable \subseteq Matched
                  /\ Cardinality((stable \cap First(Matched, Order, Boundary)) \ Received)
                        <= departures
    /\ walk = "total" /\ ~HasMore(page, asked.size, totalItems)
          => Cardinality(stable \ Received) <= departures

LEMMA MissIs == PagesTypeOK => (MissInv <=> MissForm)
<1> SUFFICES ASSUME PagesTypeOK PROVE MissInv <=> MissForm
  OBVIOUS
<1>1. Walking => Seqs!ToSet(Listed) = Matched /\ Upto(Boundary) = First(Matched, Order, Boundary)
  BY WalkFacts, ListFacts, UptoIs DEF Walking
<1> QED
  BY <1>1 DEF MissInv, MissForm

LEMMA PagesInitially == PagesInit => PagesIInv
<1> SUFFICES ASSUME PagesInit PROVE PagesIInv
  OBVIOUS
<1>1. PagesTypeOK
  BY RowsAssumption DEF PagesInit, PagesTypeOK
<1>2. PageInv /\ MissInv /\ QuietInv /\ MissesAreDepartures
  BY DEF PagesInit, PageInv, MissInv, QuietInv, MissesAreDepartures, Walking
<1> QED
  BY <1>1, <1>2 DEF PagesIInv

LEMMA BrowseStep ==
    ASSUME PagesIInv, NEW kind \in Kinds, Browse(kind)
    PROVE  PagesIInv'
<1>1. PICK w \in Walks : w.kind = kind /\ asked' = w /\ page' = w.page
  BY DEF Browse
<1>2. /\ walk = "idle" /\ walk' = "ready" /\ stable' = Seqs!ToSet(Listed')
      /\ rows' = rows /\ items' = items /\ totalItems' = totalItems
      /\ served' = served /\ departures' = departures
  BY DEF Browse
<1>3. /\ rows = FirstRows /\ departures = 0 /\ served = <<>> /\ items = <<>>
      /\ totalItems \in Nat /\ rows \in Seq(RowType) /\ Len(rows) >= Len(FirstRows)
  BY <1>2 DEF PagesIInv, PagesTypeOK
<1>4. PagesTypeOK'
  BY <1>1, <1>2, <1>3, KindsAre, FirstPageAssumption DEF PagesTypeOK
<1>5. page' \in Parameter /\ asked'.size \in Parameter /\ OrElse(page', 1) <= 1
  BY <1>1, FirstPageAssumption DEF Parameter, OrElse
<1>6. PageInv'
  BY <1>2, <1>3, <1>5 DEF PageInv
<1>7. Boundary' = 0
  <2>1. Offset(page', asked'.size) = 0
    BY <1>5, OffsetType
  <2> QED
    BY <1>2, <2>1 DEF Boundary
<1>8. (rows \in Seq(RowType) /\ asked.kind \in Kinds)'
  BY <1>1, <1>2, <1>3
<1>9. (/\ Listed \in Seq(Nat) /\ Seqs!ToSet(Listed) = Matched
       /\ IsFiniteSet(Matched) /\ StrictOrder(Matched, Order))'
  BY <1>8, ListFacts, MatchedFacts, PTL
<1>10. MissInv'
  <2>1. First(Matched', Order', 0) = {}
    <3>1. \A i \in Matched' : ~(Rank(Matched', Order', i) < 0)
      BY <1>9, RankType
    <3> QED
      BY <3>1 DEF First
  <2>2. Cardinality((stable' \cap First(Matched', Order', 0)) \ Received') = 0
    BY <2>1, FS_EmptySet
  <2>3. MissForm'
    BY <1>2, <1>3, <1>7, <1>9, <2>2 DEF MissForm, Walking
  <2>4. (PagesTypeOK => (MissInv <=> MissForm))'
    BY MissIs, PTL
  <2> QED
    BY <1>4, <2>3, <2>4
<1>11. QuietInv'
  <2>1. Len(Listed') \in Nat
    BY <1>9
  <2>2. SubSeq(Listed', 1, 0) = <<>>
    BY SubSeqEmpty
  <2>3. <<>> \o <<>> = <<>>
    OBVIOUS
  <2>4. (IF 0 < Len(Listed') THEN 0 ELSE Len(Listed')) = 0
    BY <2>1
  <2> QED
    BY <1>2, <1>3, <1>7, <2>2, <2>3, <2>4 DEF QuietInv
<1>12. MissesAreDepartures'
  BY <1>2 DEF MissesAreDepartures
<1> QED
  BY <1>4, <1>6, <1>10, <1>11, <1>12 DEF PagesIInv

(* The window read moves the boundary past it.                             *)
LEMMA ItemsStep ==
    ASSUME PagesIInv, ListItems
    PROVE  PagesIInv'
<1>1. /\ walk = "ready"
      /\ \/ /\ PageAccepted(page) /\ SizeAccepted(asked.size)
            /\ walk' = "items" /\ items' = Window(Listed)
         \/ walk' = "refused" /\ items' = items
      /\ rows' = rows /\ asked' = asked /\ page' = page /\ totalItems' = totalItems
      /\ served' = served /\ stable' = stable /\ departures' = departures
  BY DEF ListItems
<1>2. PagesTypeOK /\ PageInv /\ MissInv /\ QuietInv
  BY DEF PagesIInv
<1>3. CASE walk' = "refused"
  <2>1. PagesTypeOK'
    BY <1>1, <1>2, <1>3 DEF PagesTypeOK
  <2>2. PageInv' /\ MissInv' /\ QuietInv' /\ MissesAreDepartures'
    BY <1>3 DEF PageInv, MissInv, QuietInv, MissesAreDepartures, Walking
  <2> QED
    BY <2>1, <2>2 DEF PagesIInv
<1>4. CASE walk' # "refused"
  <2>1. /\ PageAccepted(page) /\ SizeAccepted(asked.size)
        /\ walk' = "items" /\ items' = Window(Listed) /\ items = <<>>
    BY <1>1, <1>2, <1>4 DEF PageInv
  <2>2. /\ rows \in Seq(RowType) /\ asked.kind \in Kinds
        /\ page \in Parameter /\ asked.size \in Parameter
    BY <1>1, <1>2, WalkFacts
  <2>3. PICK o \in Nat, l \in Nat : o = Offset(page, asked.size) /\ l = Limit(asked.size)
    BY <2>1, <2>2, NextOffset
  <2>4. PICK L \in Seq(Nat) : L = Listed
    BY <2>2, ListFacts
  <2>5. /\ Window(L) \in Seq(Nat)
        /\ \A k \in DOMAIN L \cap 1..(o + l) : k \in 1..o \/ L[k] \in Seqs!ToSet(Window(L))
        /\ SubSeq(L, 1, IF o < Len(L) THEN o ELSE Len(L)) \o Window(L)
             = SubSeq(L, 1, IF o + l < Len(L) THEN o + l ELSE Len(L))
    BY <2>3, WindowFacts
  <2>6. PagesTypeOK'
    BY <1>1, <1>2, <2>1, <2>4, <2>5 DEF PagesTypeOK
  <2>7. PageInv'
    BY <1>1, <2>1 DEF PageInv
  <2>8. Boundary = o /\ Boundary' = o + l
    BY <1>1, <2>1, <2>3 DEF Boundary
  <2>9. Listed' = L
    BY <1>1, <2>2, <2>4, SameList
  <2>10. MissInv'
    <3> DEFINE before == {L[k] : k \in DOMAIN L \cap 1..o}
               after  == {L[k] : k \in DOMAIN L \cap 1..(o + l)}
               missed == (stable \cap before) \ Received
               left   == (stable \cap after) \ Received'
    <3>1. Upto(Boundary) = before /\ Upto(Boundary)' = after
      BY <2>4, <2>8, <2>9 DEF Upto
    <3>2. Received' = Received \cup Seqs!ToSet(Window(L))
      BY <1>1, <2>1, <2>4 DEF Received, Seqs!ToSet
    <3>3. left \in SUBSET missed
      <4>1. \A i \in after : i \in before \/ i \in Seqs!ToSet(Window(L))
        BY <2>5
      <4> QED
        BY <3>2, <4>1
    <3>4. /\ stable \subseteq Seqs!ToSet(L) /\ IsFiniteSet(Seqs!ToSet(L))
          /\ Cardinality(missed) <= departures
      BY <1>1, <1>2, <2>2, <2>4, <3>1, ListFacts, MatchedFacts DEF MissInv, Walking
    <3> HIDE DEF before, after
    <3>5. IsFiniteSet(missed)
      BY <3>4, FS_Subset
    <3>6. Cardinality(left) <= Cardinality(missed)
          /\ Cardinality(missed) \in Nat /\ Cardinality(left) \in Nat
      BY <3>3, <3>5, FS_Subset, FS_CardinalityType
    <3>7. Cardinality(left) <= departures
      BY <1>2, <3>4, <3>6 DEF PagesTypeOK
    <3> QED
      BY <1>1, <2>1, <2>9, <3>1, <3>4, <3>7 DEF MissInv, Walking
  <2>11. QuietInv'
    <3> SUFFICES ASSUME departures = 0, rows = FirstRows
                 PROVE  served \o Window(L)
                          = SubSeq(L, 1, IF o + l < Len(L) THEN o + l ELSE Len(L))
      BY <1>1, <2>1, <2>4, <2>8, <2>9 DEF QuietInv
    <3>1. served \o <<>> = SubSeq(L, 1, IF o < Len(L) THEN o ELSE Len(L))
      BY <1>1, <1>2, <2>1, <2>4, <2>8 DEF QuietInv, Walking
    <3>2. served \o <<>> = served
      BY <1>2, ConcatEmptySeq DEF PagesTypeOK
    <3> QED
      BY <2>5, <3>1, <3>2
  <2>12. MissesAreDepartures'
    BY <2>1 DEF MissesAreDepartures
  <2> QED
    BY <2>6, <2>7, <2>10, <2>11, <2>12 DEF PagesIInv
<1> QED
  BY <1>3, <1>4

(* A count that leaves no page puts the boundary past the list.            *)
LEMMA CountStep ==
    ASSUME PagesIInv, CountItems
    PROVE  PagesIInv'
<1>1. /\ walk = "items" /\ walk' = "total" /\ totalItems' = Counted
      /\ rows' = rows /\ asked' = asked /\ page' = page /\ items' = items
      /\ served' = served /\ stable' = stable /\ departures' = departures
  BY DEF CountItems
<1>2. PagesTypeOK /\ PageInv /\ MissInv /\ QuietInv
  BY DEF PagesIInv
<1>3. /\ rows \in Seq(RowType) /\ asked.kind \in Kinds /\ Boundary \in Int
      /\ page \in Parameter /\ asked.size \in Parameter
      /\ PageAccepted(page) /\ SizeAccepted(asked.size)
  BY <1>1, <1>2, WalkFacts DEF PageInv
<1>4. Counted \in Nat /\ Len(Listed) = Counted /\ Listed' = Listed /\ Counted' = Counted
  BY <1>1, <1>3, ListFacts, SameList
<1>5. PagesTypeOK'
  BY <1>1, <1>2, <1>4 DEF PagesTypeOK
<1>6. PageInv'
  BY <1>1, <1>3 DEF PageInv
<1>7. Boundary' = Boundary /\ Received' = Received
  BY <1>1 DEF Boundary, Received, Seqs!ToSet
<1>8. Upto(Boundary)' = Upto(Boundary)
  BY <1>4, <1>7 DEF Upto
<1>9. ~HasMore(page, asked.size, Counted) => stable \cap Upto(Boundary) = stable
  <2>1. SUFFICES ASSUME ~HasMore(page, asked.size, Counted) PROVE stable \cap Upto(Boundary) = stable
    OBVIOUS
  <2>2. Counted <= Boundary
    BY <1>1, <1>3, <1>4, <2>1, LastPage DEF Boundary
  <2>3. \A k \in DOMAIN Listed : k \in 1..Boundary
    BY <1>3, <1>4, <2>2, ListFacts
  <2>4. Seqs!ToSet(Listed) \subseteq Upto(Boundary)
    BY <2>3 DEF Seqs!ToSet, Upto
  <2>5. stable \subseteq Seqs!ToSet(Listed)
    BY <1>1, <1>2 DEF MissInv, Walking
  <2> QED
    BY <2>4, <2>5
<1>10. MissInv'
  BY <1>1, <1>2, <1>4, <1>7, <1>8, <1>9 DEF MissInv, Walking
<1>11. QuietInv'
  BY <1>1, <1>2, <1>4, <1>7 DEF QuietInv, Walking
<1>12. MissesAreDepartures'
  BY <1>1 DEF MissesAreDepartures
<1> QED
  BY <1>5, <1>6, <1>10, <1>11, <1>12 DEF PagesIInv

LEMMA ConcatHolds ==
    ASSUME NEW s \in Seq(Nat), NEW t \in Seq(Nat)
    PROVE  Seqs!ToSet(s \o t) = Seqs!ToSet(s) \cup Seqs!ToSet(t)
<1>1. Len(s) \in Nat /\ Len(t) \in Nat /\ DOMAIN s = 1..Len(s) /\ DOMAIN t = 1..Len(t)
  OBVIOUS
<1>2. /\ DOMAIN (s \o t) = 1..(Len(s) + Len(t))
      /\ \A k \in 1..(Len(s) + Len(t)) :
            (s \o t)[k] = IF k <= Len(s) THEN s[k] ELSE t[k - Len(s)]
  BY <1>1
<1>3. ASSUME NEW k \in DOMAIN (s \o t)
      PROVE  (s \o t)[k] \in Seqs!ToSet(s) \cup Seqs!ToSet(t)
  <2>1. CASE k <= Len(s)
    <3>1. k \in DOMAIN s /\ (s \o t)[k] = s[k]
      BY <1>1, <1>2, <2>1
    <3> QED
      BY <3>1 DEF Seqs!ToSet
  <2>2. CASE ~(k <= Len(s))
    <3>1. k - Len(s) \in DOMAIN t /\ (s \o t)[k] = t[k - Len(s)]
      BY <1>1, <1>2, <2>2
    <3> QED
      BY <3>1 DEF Seqs!ToSet
  <2> QED
    BY <2>1, <2>2
<1>4. ASSUME NEW k \in DOMAIN s PROVE s[k] \in Seqs!ToSet(s \o t)
  <2>1. k \in DOMAIN (s \o t) /\ (s \o t)[k] = s[k]
    BY <1>1, <1>2
  <2> QED
    BY <2>1 DEF Seqs!ToSet
<1>5. ASSUME NEW k \in DOMAIN t PROVE t[k] \in Seqs!ToSet(s \o t)
  <2> DEFINE j == k + Len(s)
  <2>2. j \in 1..(Len(s) + Len(t)) /\ ~(j <= Len(s)) /\ j - Len(s) = k
    BY <1>1
  <2> HIDE DEF j
  <2>1. j \in DOMAIN (s \o t) /\ (s \o t)[j] = t[k]
    BY <1>2, <2>2
  <2> QED
    BY <2>1 DEF Seqs!ToSet
<1> QED
  BY <1>3, <1>4, <1>5 DEF Seqs!ToSet

(* The next page starts where this one ended; a walk that ends had reached *)
(* the end of the list.                                                    *)
LEMMA TakeStep ==
    ASSUME PagesIInv, TakePage
    PROVE  PagesIInv'
<1>1. /\ walk = "total" /\ served' = served \o items /\ items' = <<>> /\ totalItems' = 0
      /\ rows' = rows /\ asked' = asked /\ stable' = stable /\ departures' = departures
      /\ \/ /\ HasMore(page, asked.size, totalItems)
            /\ walk' = "ready" /\ page' = OrElse(page, 1) + 1
         \/ /\ ~HasMore(page, asked.size, totalItems)
            /\ walk' = "over" /\ page' = page
  BY DEF TakePage
<1>2. PagesTypeOK /\ PageInv /\ MissInv /\ QuietInv
  BY DEF PagesIInv
<1>3. /\ rows \in Seq(RowType) /\ asked.kind \in Kinds /\ Boundary \in Int
      /\ page \in Parameter /\ asked.size \in Parameter
      /\ PageAccepted(page) /\ SizeAccepted(asked.size)
      /\ served \in Seq(Nat) /\ items \in Seq(Nat) /\ totalItems \in Nat
  BY <1>1, <1>2, WalkFacts DEF PageInv, PagesTypeOK
<1>4. /\ Listed \in Seq(Nat) /\ Len(Listed) = Counted /\ Counted \in Nat
      /\ Listed' = Listed
  BY <1>1, <1>3, ListFacts, SameList
<1>5. served' \in Seq(Nat) /\ served' \o <<>> = served'
      /\ items' \in Seq(Nat) /\ totalItems' \in Nat
  <2>1. PICK s \in Seq(Nat), t \in Seq(Nat) : s = served /\ t = items
    BY <1>3
  <2>2. s \o t \in Seq(Nat)
    BY ConcatProperties
  <2>3. (s \o t) \o <<>> = s \o t
    BY <2>2, ConcatEmptySeq
  <2> QED
    BY <1>1, <2>1, <2>2, <2>3
<1>6. page' \in Parameter
  BY <1>1, <1>3, NextOffset
<1>7. PagesTypeOK'
  BY <1>1, <1>2, <1>5, <1>6 DEF PagesTypeOK, Parameter
<1>8. PageInv'
  BY <1>1, <1>3 DEF PageInv
<1>9. Received' = Received /\ Received' = Seqs!ToSet(served')
  <2>1. PICK s \in Seq(Nat), t \in Seq(Nat) : s = served /\ t = items
    BY <1>3
  <2>2. Seqs!ToSet(s \o t) = Seqs!ToSet(s) \cup Seqs!ToSet(t)
    BY ConcatHolds
  <2>3. Seqs!ToSet(<<>>) = {}
    BY DEF Seqs!ToSet
  <2> QED
    BY <1>1, <2>1, <2>2, <2>3 DEF Received
<1>10. Boundary = Offset(page, asked.size) + Limit(asked.size)
  BY <1>1 DEF Boundary
<1>11. CASE walk' = "ready"
  <2>1. Boundary' = Boundary
    BY <1>1, <1>3, <1>10, <1>11, NextOffset DEF Boundary
  <2>2. Upto(Boundary)' = Upto(Boundary)
    BY <1>4, <2>1 DEF Upto
  <2>3. MissInv'
    BY <1>1, <1>2, <1>4, <1>9, <1>11, <2>2 DEF MissInv, Walking
  <2>4. QuietInv'
    BY <1>1, <1>2, <1>4, <1>5, <1>11, <2>1 DEF QuietInv, Walking
  <2>5. MissesAreDepartures'
    BY <1>11 DEF MissesAreDepartures
  <2> QED
    BY <1>7, <1>8, <2>3, <2>4, <2>5 DEF PagesIInv
<1>12. CASE walk' = "over"
  <2>1. MissInv' /\ QuietInv'
    BY <1>12 DEF MissInv, QuietInv, Walking
  <2>2. Cardinality(stable' \ Seqs!ToSet(served')) <= departures'
    BY <1>1, <1>2, <1>9, <1>12 DEF MissInv
  <2>3. ASSUME departures = 0, rows = FirstRows PROVE served' = Listed
    <3>1. totalItems <= Boundary
      BY <1>1, <1>3, <1>10, <1>12, LastPage
    <3>2. /\ totalItems = Counted
          /\ served' = SubSeq(Listed, 1, IF Boundary < Len(Listed) THEN Boundary ELSE Len(Listed))
      BY <1>1, <1>2, <2>3 DEF QuietInv, Walking
    <3>3. (IF Boundary < Len(Listed) THEN Boundary ELSE Len(Listed)) = Len(Listed)
      BY <1>3, <1>4, <3>1, <3>2
    <3>4. SubSeq(Listed, 1, Len(Listed)) = Listed
      BY <1>4, SubSeqFull
    <3> QED
      BY <3>2, <3>3, <3>4
  <2>4. MissesAreDepartures'
    BY <1>1, <1>4, <2>2, <2>3 DEF MissesAreDepartures
  <2> QED
    BY <1>7, <1>8, <2>1, <2>4 DEF PagesIInv
<1> QED
  BY <1>1, <1>11, <1>12

(* A write of one row, while a walk goes on.                               *)
LEMMA WriteMoves ==
    ASSUME PagesIInv, Walking, PagesTypeOK', NEW d,
           UNCHANGED <<walk, asked, page, items, totalItems, served>>,
           \A i \in DOMAIN rows \ {d} : i \in DOMAIN rows' /\ rows'[i] = rows[i],
           stable' = stable \ {d},
           \/ d \notin Matched /\ departures' = departures
           \/ departures' = departures + 1
    PROVE  MissInv'
<1> DEFINE before == (stable \cap First(Matched, Order, Boundary)) \ Received
           after  == ((stable \ {d}) \cap First(Matched', Order', Boundary)) \ Received
<1>1. PagesTypeOK /\ MissInv /\ departures \in Nat
  BY DEF PagesIInv, PagesTypeOK
<1>2. walk # "idle" /\ walk' # "idle"
  BY DEF Walking
<1>3. MissForm
  BY <1>1, MissIs
<1>4. /\ rows \in Seq(RowType) /\ asked.kind \in Kinds /\ Boundary \in Int
      /\ (rows \in Seq(RowType) /\ asked.kind \in Kinds)'
  BY <1>1, <1>2, WalkFacts DEF PagesTypeOK
<1>5. /\ Matched \subseteq DOMAIN rows /\ IsFiniteSet(Matched) /\ StrictOrder(Matched, Order)
  BY <1>4, MatchedFacts
<1>6. (IsFiniteSet(Matched) /\ StrictOrder(Matched, Order))'
  BY <1>4, MatchedFacts, PTL
<1>7. Rewritten(Matched, Order, Matched', Order', d)
  <2>1. \A i \in Matched \ {d} : i \in DOMAIN rows \cap DOMAIN rows' /\ rows'[i] = rows[i]
    BY <1>5
  <2> QED
    BY <1>4, <2>1, RowsDecide DEF Rewritten
<1>8. stable \in SUBSET Matched
  BY <1>3 DEF MissForm
<1>9. /\ Cardinality(before) \in Nat /\ Cardinality(after) \in Nat
      /\ Cardinality(after) <= Cardinality(before) + 1
      /\ d \notin Matched => Cardinality(after) <= Cardinality(before)
  BY <1>4, <1>5, <1>6, <1>7, <1>8, FewComeFirst
<1>10. Boundary' = Boundary /\ Received' = Received
  BY DEF Boundary, Received, Seqs!ToSet
<1>11. Cardinality(before) <= departures
  BY <1>3 DEF MissForm
<1>12. Cardinality(after) <= departures'
  <2> HIDE DEF before, after
  <2> QED
    BY <1>1, <1>9, <1>11
<1>13. stable' \subseteq Matched'
  BY <1>7, <1>8 DEF Rewritten
<1>14. ASSUME walk = "total", ~HasMore(page, asked.size, totalItems)
       PROVE  Cardinality(stable' \ Received') <= departures'
  <2>1. Cardinality(stable \ Received) <= departures
    BY <1>3, <1>14 DEF MissForm
  <2>2. IsFiniteSet(stable \ Received)
    BY <1>5, <1>8, FS_Subset
  <2>3. stable' \ Received' \in SUBSET (stable \ Received)
    BY <1>10
  <2>4. /\ Cardinality(stable' \ Received') <= Cardinality(stable \ Received)
        /\ Cardinality(stable' \ Received') \in Nat /\ Cardinality(stable \ Received) \in Nat
    BY <2>2, <2>3, FS_Subset, FS_CardinalityType
  <2> QED
    BY <1>1, <2>1, <2>4
<1>15. MissForm'
  BY <1>10, <1>12, <1>13, <1>14 DEF MissForm, Walking
<1>16. (PagesTypeOK => (MissInv <=> MissForm))'
  BY MissIs, PTL
<1> QED
  BY <1>15, <1>16

LEMMA InsertStep ==
    ASSUME PagesIInv, Walking, NEW body \in RowBodies, InsertRow(body)
    PROVE  PagesIInv'
<1>1. /\ rows' = Append(rows, Row(body)) /\ walk' = walk /\ asked' = asked /\ page' = page
      /\ items' = items /\ totalItems' = totalItems /\ served' = served
      /\ stable' = stable /\ departures' = departures
  BY DEF InsertRow
<1>2. PagesTypeOK /\ PageInv /\ MissInv /\ walk # "idle"
  BY DEF PagesIInv, Walking
<1>3. /\ rows \in Seq(RowType) /\ asked.kind \in Kinds /\ Len(rows) >= Len(FirstRows)
      /\ Len(FirstRows) \in Nat
  BY <1>2, WalkFacts, RowsAssumption DEF PagesTypeOK
<1> DEFINE d == Len(rows) + 1
<1>4. /\ rows' \in Seq(RowType) /\ Len(rows') = Len(rows) + 1 /\ Len(rows) \in Nat
      /\ d \notin DOMAIN rows /\ DOMAIN rows \subseteq DOMAIN rows'
      /\ \A i \in DOMAIN rows : rows'[i] = rows[i]
  BY <1>1, <1>3, WrittenRow
<1>5. PagesTypeOK'
  BY <1>1, <1>2, <1>3, <1>4 DEF PagesTypeOK
<1>6. PageInv'
  BY <1>1, <1>2 DEF PageInv
<1>7. d \notin Matched /\ stable' = stable \ {d}
  <2>1. Matched \subseteq DOMAIN rows
    BY <1>3, MatchedFacts
  <2>2. stable \subseteq Matched
    BY <1>2, MissIs DEF MissForm
  <2> QED
    BY <1>1, <1>4, <2>1, <2>2
<1>8. MissInv'
  <2>1. PICK e : e = d
    OBVIOUS
  <2>2. /\ \A i \in DOMAIN rows \ {e} : i \in DOMAIN rows' /\ rows'[i] = rows[i]
        /\ e \notin Matched /\ stable' = stable \ {e}
    BY <1>4, <1>7, <2>1
  <2> QED
    BY <1>1, <1>5, <2>2, WriteMoves
<1>9. rows' # FirstRows
  BY <1>3, <1>4
<1>10. QuietInv' /\ MissesAreDepartures'
  BY <1>1, <1>9 DEF QuietInv, MissesAreDepartures, Walking
<1> QED
  BY <1>5, <1>6, <1>8, <1>10 DEF PagesIInv

LEMMA RewriteStep ==
    ASSUME PagesIInv, Walking, NEW i \in DOMAIN rows, NEW row \in RowType, Rewrite(i, row)
    PROVE  PagesIInv'
<1>1. /\ rows' = [rows EXCEPT ![i] = row] /\ departures' = departures + 1
      /\ stable' = stable \ {i} /\ walk' = walk /\ asked' = asked /\ page' = page
      /\ items' = items /\ totalItems' = totalItems /\ served' = served
  BY DEF Rewrite
<1>2. PagesTypeOK /\ PageInv /\ walk # "idle" /\ departures \in Nat
  BY DEF PagesIInv, PagesTypeOK, Walking
<1>3. rows \in Seq(RowType) /\ Len(rows) >= Len(FirstRows)
  BY <1>2 DEF PagesTypeOK
<1>4. /\ rows' \in Seq(RowType) /\ Len(rows') = Len(rows) /\ DOMAIN rows' = DOMAIN rows
      /\ \A j \in DOMAIN rows \ {i} : rows'[j] = rows[j]
  BY <1>1, <1>3
<1>5. PagesTypeOK'
  BY <1>1, <1>2, <1>3, <1>4 DEF PagesTypeOK
<1>6. PageInv'
  BY <1>1, <1>2 DEF PageInv
<1>7. MissInv'
  <2>1. \A j \in DOMAIN rows \ {i} : j \in DOMAIN rows' /\ rows'[j] = rows[j]
    BY <1>4
  <2> QED
    BY <1>1, <1>5, <2>1, WriteMoves
<1>8. departures' # 0
  BY <1>1, <1>2
<1>9. QuietInv' /\ MissesAreDepartures'
  BY <1>1, <1>8 DEF QuietInv, MissesAreDepartures, Walking
<1> QED
  BY <1>5, <1>6, <1>7, <1>9 DEF PagesIInv

LEMMA PagesStuttering == PagesIInv /\ UNCHANGED pageVars => PagesIInv'
<1> SUFFICES ASSUME PagesIInv, UNCHANGED pageVars PROVE PagesIInv'
  OBVIOUS
<1>1. /\ rows' = rows /\ walk' = walk /\ asked' = asked /\ page' = page /\ items' = items
      /\ totalItems' = totalItems /\ served' = served /\ stable' = stable
      /\ departures' = departures
  BY DEF pageVars
<1>2. PagesTypeOK /\ PageInv /\ MissInv /\ QuietInv /\ MissesAreDepartures
  BY DEF PagesIInv
<1>3. PagesTypeOK' /\ PageInv'
  BY <1>1, <1>2 DEF PagesTypeOK, PageInv
<1>4. CASE walk = "idle"
  BY <1>1, <1>4, <1>3 DEF PagesIInv, MissInv, QuietInv, MissesAreDepartures, Walking
<1>5. CASE walk # "idle"
  <2>1. Listed' = Listed /\ Counted' = Counted
    BY <1>1, <1>2, <1>5, WalkFacts, SameList
  <2>2. Boundary' = Boundary /\ Received' = Received
    BY <1>1 DEF Boundary, Received, Seqs!ToSet
  <2>3. Upto(Boundary)' = Upto(Boundary)
    BY <2>1, <2>2 DEF Upto
  <2>4. MissInv'
    BY <1>1, <1>2, <2>1, <2>2, <2>3 DEF MissInv, Walking
  <2>5. QuietInv'
    BY <1>1, <1>2, <2>1, <2>2 DEF QuietInv, Walking
  <2>6. MissesAreDepartures'
    BY <1>1, <1>2, <2>1 DEF MissesAreDepartures
  <2> QED
    BY <1>3, <2>4, <2>5, <2>6 DEF PagesIInv
<1> QED
  BY <1>4, <1>5

LEMMA PagesStep == PagesIInv /\ [PagesNext]_pageVars => PagesIInv'
<1> SUFFICES ASSUME PagesIInv, [PagesNext]_pageVars PROVE PagesIInv'
  OBVIOUS
<1>1. ASSUME NEW kind \in Kinds, Browse(kind) PROVE PagesIInv'
  BY <1>1, BrowseStep
<1>2. ASSUME WalkStep PROVE PagesIInv'
  BY <1>2, ItemsStep, CountStep, TakeStep DEF WalkStep
<1>3. ASSUME Walking, NEW body \in RowBodies, InsertRow(body) PROVE PagesIInv'
  BY <1>3, InsertStep
<1>4. ASSUME Walking, NEW body \in RowBodies, NEW i \in DOMAIN rows, EditRow(i, body)
      PROVE  PagesIInv'
  <2>1. PICK row \in RowType : row = Row(body)
    BY WrittenRow
  <2>2. Rewrite(i, row)
    BY <1>4, <2>1 DEF EditRow
  <2> QED
    BY <1>4, <2>2, RewriteStep
<1>5. ASSUME Walking, NEW i \in DOMAIN rows, RemoveRow(i) PROVE PagesIInv'
  <2>1. rows[i] \in RowType
    BY ColumnFacts DEF PagesIInv, PagesTypeOK
  <2>2. PICK row \in RowType : row = RowAs(FALSE, rows[i])
    BY <2>1, RowFacts
  <2>3. Rewrite(i, row)
    BY <1>5, <2>2 DEF RemoveRow
  <2> QED
    BY <1>5, <2>3, RewriteStep
<1>6. ASSUME UNCHANGED pageVars PROVE PagesIInv'
  BY <1>6, PagesStuttering
<1>7. PagesNext \/ UNCHANGED pageVars
  OBVIOUS
<1>8. \/ \E kind \in Kinds : Browse(kind)
      \/ WalkStep
      \/ Walking /\ \E body \in RowBodies : InsertRow(body)
      \/ Walking /\ \E body \in RowBodies : \E i \in DOMAIN rows : EditRow(i, body)
      \/ Walking /\ \E i \in DOMAIN rows : RemoveRow(i)
      \/ UNCHANGED pageVars
  BY <1>7 DEF PagesNext, Kinds, BrowseCategories, BrowseAttributes, BrowsePriceLists,
     BrowseCategoryAttributes, BrowseProducts, BrowseSkus, BrowseMedia
<1> QED
  BY <1>1, <1>2, <1>3, <1>4, <1>5, <1>6, <1>8

(* What a walk received, how far it came, and what it missed so far.        *)
THEOREM PagesInvariance == PagesSpec => []PagesIInv
  BY PagesInitially, PagesStep, PTL DEF PagesSpec

(* A walk misses no more of the rows that matched all along than were       *)
(* retired or edited meanwhile; without a write its pages are the list.     *)
THEOREM MissesAreFew == PagesSpec => []MissesAreDepartures
<1>1. PagesIInv => MissesAreDepartures
  BY DEF PagesIInv
<1> QED
  BY <1>1, PagesInvariance, PTL
===============================================================================
