-------------------------- MODULE CategoryTree_proofs --------------------------
(***************************************************************************)
(* Proofs about CategoryTree, for any categories and workers.              *)
(*                                                                         *)
(* The argument is the row locks: a transaction publishes rows it holds,   *)
(* plus the leaf flag of a parent nobody else holds, so what another       *)
(* transaction knows of the rows it holds stays true (OthersKeep).  That a *)
(* moved row still ends in itself at its depth is arithmetic on the cut of *)
(* its path (MovedPath).  The paths of whole subtrees and the leaf flags   *)
(* need more than locks: that moves, or all three writes, do not overlap   *)
(* (PathInvariance, LeafInvariance).  That no category is detached from    *)
(* the roots follows from the paths (PathsDetachNobody).                   *)
(***************************************************************************)
EXTENDS CategoryTree, SequenceTheorems, WellFoundedInduction, TLAPS

(* The path of a moved row: the new prefix and what follows the old one.   *)
LEMMA MovedPath ==
    ASSUME NEW old \in Seq(Cats), NEW p \in Seq(Cats), NEW new \in Seq(Cats),
           Len(old) > 0, Len(new) > 0, StartsWith(p, old),
           old[Len(old)] = new[Len(new)]
    PROVE  LET moved == new \o SubSeq(p, Len(old) + 1, Len(p))
           IN  /\ moved \in Seq(Cats)
               /\ Len(moved) = Len(new) + Len(p) - Len(old)
               /\ moved[Len(moved)] = p[Len(p)]
<1> DEFINE cut == SubSeq(p, Len(old) + 1, Len(p))
<1> DEFINE moved == new \o cut
<1>1. Len(old) \in Nat /\ Len(p) \in Nat /\ Len(new) \in Nat /\ Len(old) <= Len(p)
  BY LenProperties DEF StartsWith
<1>2. cut \in Seq(Cats) /\ Len(cut) = Len(p) - Len(old)
      /\ \A i \in 1..Len(cut) : cut[i] = p[Len(old) + i]
  <2>1. CASE Len(old) = Len(p)
    BY <1>1, <2>1, SubSeqProperties
  <2>2. CASE Len(old) < Len(p)
    BY <1>1, <2>2, SubSeqProperties
  <2> QED
    BY <1>1, <2>1, <2>2
<1>3. moved \in Seq(Cats) /\ Len(moved) = Len(new) + Len(cut)
  BY <1>2, ConcatProperties
<1>4. /\ \A i \in 1..Len(new) : moved[i] = new[i]
      /\ \A i \in 1..Len(cut) : moved[Len(new) + i] = cut[i]
  <2>1. \A i \in 1..(Len(new) + Len(cut)) :
            moved[i] = IF i <= Len(new) THEN new[i] ELSE cut[i - Len(new)]
    BY <1>2, ConcatProperties
  <2>2. ASSUME NEW i \in 1..Len(new) PROVE moved[i] = new[i]
    <3>1. i \in 1..(Len(new) + Len(cut)) /\ i <= Len(new)
      BY <1>1, <1>2
    <3> QED
      BY <2>1, <3>1
  <2>3. ASSUME NEW i \in 1..Len(cut) PROVE moved[Len(new) + i] = cut[i]
    <3>1. /\ Len(new) + i \in 1..(Len(new) + Len(cut))
          /\ ~(Len(new) + i <= Len(new)) /\ (Len(new) + i) - Len(new) = i
      BY <1>1, <1>2
    <3> QED
      BY <2>1, <3>1
  <2> QED
    BY <2>2, <2>3
<1> HIDE DEF moved, cut
<1>5. moved[Len(moved)] = p[Len(p)]
  <2>1. CASE Len(old) = Len(p)
    <3>1. p[Len(p)] = SubSeq(p, 1, Len(old))[Len(old)]
      <4>1. /\ 1 \in Int /\ Len(old) \in Int
            /\ \A i \in 1..Len(old) : p[i] \in Cats
            /\ Len(old) \in 1..(Len(old) - 1 + 1) /\ 1 + Len(old) - 1 = Len(p)
        BY <1>1, <2>1
      <4>2. \A i \in 1..(Len(old) - 1 + 1) : SubSeq(p, 1, Len(old))[i] = p[1 + i - 1]
        BY <4>1, SubSeqProperties
      <4> QED
        BY <4>1, <4>2
    <3>2. p[Len(p)] = new[Len(new)]
      BY <3>1 DEF StartsWith
    <3>3. Len(moved) = Len(new)
      BY <1>1, <1>2, <1>3, <2>1
    <3> QED
      BY <1>1, <1>4, <3>2, <3>3
  <2>2. CASE Len(old) < Len(p)
    <3>1. moved[Len(moved)] = cut[Len(cut)]
      <4>1. Len(cut) \in 1..Len(cut) /\ Len(moved) = Len(new) + Len(cut)
        BY <1>1, <1>2, <1>3, <2>2
      <4> QED
        BY <1>4, <4>1
    <3> QED
      <4>1. Len(cut) \in 1..Len(cut) /\ Len(old) + Len(cut) = Len(p)
        BY <1>1, <1>2, <2>2
      <4> QED
        BY <1>2, <3>1, <4>1
  <2> QED
    BY <1>1, <2>1, <2>2
<1>6. Len(moved) = Len(new) + Len(p) - Len(old)
  BY <1>1, <1>2, <1>3
<1> QED
  BY <1>3, <1>5, <1>6 DEF moved, cut

(* What starts_with says, id by id.                                        *)
LEMMA PrefixByIds ==
    ASSUME NEW p \in Seq(Cats), NEW q \in Seq(Cats)
    PROVE  StartsWith(p, q) <=> /\ Len(q) <= Len(p)
                                /\ \A i \in 1..Len(q) : p[i] = q[i]
<1>1. /\ Len(p) \in Nat /\ Len(q) \in Nat
      /\ \A i \in 1..Len(p) : p[i] \in Cats
  BY LenProperties
<1>2. ASSUME Len(q) <= Len(p)
      PROVE  /\ SubSeq(p, 1, Len(q)) \in Seq(Cats) /\ Len(SubSeq(p, 1, Len(q))) = Len(q)
             /\ \A i \in 1..Len(q) : SubSeq(p, 1, Len(q))[i] = p[i]
  <2> DEFINE n == Len(q)
  <2>1. 1 \in Int /\ n \in Int /\ \A i \in 1..n : p[i] \in Cats
    BY <1>1, <1>2
  <2> HIDE DEF n
  <2>2. /\ SubSeq(p, 1, n) \in Seq(Cats)
        /\ Len(SubSeq(p, 1, n)) = IF 1 <= n THEN n - 1 + 1 ELSE 0
        /\ \A i \in 1 .. n - 1 + 1 : SubSeq(p, 1, n)[i] = p[1 + i - 1]
    BY <2>1, SubSeqProperties
  <2> QED
    BY <1>1, <2>2 DEF n
<1>3. CASE Len(q) <= Len(p)
  <2>1. ASSUME \A i \in 1..Len(q) : p[i] = q[i] PROVE SubSeq(p, 1, Len(q)) = q
    BY <1>2, <1>3, <2>1, SeqEqual
  <2> QED
    BY <1>2, <1>3, <2>1 DEF StartsWith
<1>4. CASE ~(Len(q) <= Len(p))
  BY <1>4 DEF StartsWith
<1> QED
  BY <1>3, <1>4

(* A path starts with itself; what starts with it still does one id later. *)
LEMMA PrefixFacts ==
    ASSUME NEW p \in Seq(Cats), NEW q \in Seq(Cats), NEW c \in Cats
    PROVE  /\ StartsWith(p, p)
           /\ StartsWith(p, q) => StartsWith(Append(p, c), q)
           /\ StartsWith(Append(p, c), q) /\ Len(q) > 0 /\ q[Len(q)] # c
              => StartsWith(p, q)
<1>1. /\ Append(p, c) \in Seq(Cats) /\ Len(Append(p, c)) = Len(p) + 1
      /\ \A i \in 1..Len(p) : Append(p, c)[i] = p[i]
      /\ Append(p, c)[Len(p) + 1] = c
      /\ Len(p) \in Nat /\ Len(q) \in Nat
  BY AppendProperties, LenProperties
<1>2. StartsWith(p, p)
  BY <1>1, PrefixByIds
<1>3. ASSUME StartsWith(p, q) PROVE StartsWith(Append(p, c), q)
  <2>1. Len(q) <= Len(p) /\ \A i \in 1..Len(q) : p[i] = q[i]
    BY <1>3, PrefixByIds
  <2>2. Len(q) <= Len(Append(p, c)) /\ \A i \in 1..Len(q) : Append(p, c)[i] = q[i]
    BY <1>1, <2>1
  <2> QED
    BY <1>1, <2>2, PrefixByIds
<1>4. ASSUME StartsWith(Append(p, c), q), Len(q) > 0, q[Len(q)] # c
      PROVE  StartsWith(p, q)
  <2>1. /\ Len(q) <= Len(Append(p, c))
        /\ \A i \in 1..Len(q) : Append(p, c)[i] = q[i]
    BY <1>1, <1>4, PrefixByIds
  <2>2. Len(q) # Len(p) + 1
    BY <1>1, <1>4, <2>1
  <2>3. Len(q) <= Len(p) /\ \A i \in 1..Len(q) : p[i] = q[i]
    BY <1>1, <2>1, <2>2
  <2> QED
    BY <2>3, PrefixByIds
<1> QED
  BY <1>2, <1>3, <1>4

(* Only a root's own path starts at it.                                    *)
LEMMA RootPrefix ==
    ASSUME NEW c \in Cats, NEW q \in Seq(Cats), Len(q) > 0, StartsWith(<<c>>, q)
    PROVE  q[Len(q)] = c
<1>1. <<>> \in Seq(Cats) /\ Append(<<>>, c) = <<c>>
  OBVIOUS
<1>2. ~StartsWith(<<>>, q)
  <2>1. Len(q) \in Nat /\ Len(<<>>) = 0
    BY LenProperties, EmptySeq
  <2> QED
    BY <2>1 DEF StartsWith
<1> QED
  BY <1>1, <1>2, PrefixFacts

(* What follows the first n ids of a path.                                 *)
LEMMA CutByIds ==
    ASSUME NEW p \in Seq(Cats), NEW n \in Nat, n <= Len(p)
    PROVE  /\ SubSeq(p, n + 1, Len(p)) \in Seq(Cats)
           /\ Len(SubSeq(p, n + 1, Len(p))) = Len(p) - n
           /\ \A i \in 1..(Len(p) - n) : SubSeq(p, n + 1, Len(p))[i] = p[n + i]
<1> DEFINE cut == SubSeq(p, n + 1, Len(p))
<1>1. /\ Len(p) \in Nat /\ \A i \in 1..Len(p) : p[i] \in Cats
  BY LenProperties
<1>2. /\ cut \in Seq(Cats)
      /\ Len(cut) = IF n + 1 <= Len(p) THEN Len(p) - (n + 1) + 1 ELSE 0
      /\ \A i \in 1..(Len(p) - (n + 1) + 1) : cut[i] = p[n + 1 + i - 1]
  <2>1. n + 1 \in Int /\ Len(p) \in Int /\ \A i \in (n + 1)..Len(p) : p[i] \in Cats
    BY <1>1
  <2> QED
    BY <2>1, SubSeqProperties
<1> HIDE DEF cut
<1>3. Len(cut) = Len(p) - n
  BY <1>1, <1>2
<1>4. ASSUME NEW i \in 1..(Len(p) - n) PROVE cut[i] = p[n + i]
  <2>1. i \in 1..(Len(p) - (n + 1) + 1) /\ n + 1 + i - 1 = n + i
    BY <1>1
  <2> QED
    BY <1>2, <2>1
<1> QED
  BY <1>2, <1>3, <1>4 DEF cut

(* The path p with new in the place of its prefix old.                     *)
Rebased(p, old, new) == new \o SubSeq(p, Len(old) + 1, Len(p))

(* The moved row itself gets the new prefix as its path; a child gets the  *)
(* path of its parent and the child.                                       *)
LEMMA RebasedFacts ==
    ASSUME NEW old \in Seq(Cats), NEW new \in Seq(Cats), NEW p \in Seq(Cats),
           NEW c \in Cats
    PROVE  /\ Rebased(old, old, new) = new
           /\ StartsWith(p, old) =>
                Rebased(Append(p, c), old, new) = Append(Rebased(p, old, new), c)
<1>1. Len(old) \in Nat /\ Len(p) \in Nat /\ Len(new) \in Nat
  BY LenProperties
<1>2. new \o SubSeq(old, Len(old) + 1, Len(old)) = new
  <2>1. SubSeq(old, Len(old) + 1, Len(old)) = <<>>
    BY <1>1, SubSeqEmpty
  <2> QED
    BY <2>1, ConcatEmptySeq
<1>3. ASSUME StartsWith(p, old)
      PROVE  new \o SubSeq(Append(p, c), Len(old) + 1, Len(Append(p, c))) =
             Append(new \o SubSeq(p, Len(old) + 1, Len(p)), c)
  <2> DEFINE n == Len(old)
             a == Append(p, c)
             cut == SubSeq(p, n + 1, Len(p))
             longer == SubSeq(a, n + 1, Len(a))
  <2>1. n \in Nat /\ n <= Len(p)
    BY <1>1, <1>3 DEF StartsWith
  <2>2. /\ a \in Seq(Cats) /\ Len(a) = Len(p) + 1 /\ a[Len(p) + 1] = c
        /\ \A i \in 1..Len(p) : a[i] = p[i]
    BY AppendProperties
  <2>3. /\ cut \in Seq(Cats) /\ Len(cut) = Len(p) - n
        /\ \A i \in 1..(Len(p) - n) : cut[i] = p[n + i]
    BY <2>1, CutByIds
  <2>4. /\ longer \in Seq(Cats) /\ Len(longer) = Len(a) - n
        /\ \A i \in 1..(Len(a) - n) : longer[i] = a[n + i]
    <3>1. n <= Len(a)
      BY <1>1, <2>1, <2>2
    <3> HIDE DEF a, n
    <3> QED
      BY <2>1, <2>2, <3>1, CutByIds
  <2> HIDE DEF n, a, cut, longer
  <2>5. longer = Append(cut, c)
    <3> DEFINE b == Append(cut, c)
    <3>1. /\ b \in Seq(Cats) /\ Len(b) = Len(cut) + 1
          /\ \A i \in 1..Len(cut) : b[i] = cut[i]
          /\ b[Len(cut) + 1] = c
      BY <2>3, AppendProperties
    <3> HIDE DEF b
    <3>2. Len(longer) = Len(b) /\ Len(b) = Len(p) - n + 1
      BY <1>1, <2>1, <2>2, <2>3, <2>4, <3>1
    <3>3. ASSUME NEW i \in 1..Len(longer) PROVE longer[i] = b[i]
      <4>1. i \in 1..(Len(p) - n + 1) /\ i \in 1..(Len(a) - n) /\ i \in Nat
        BY <1>1, <2>1, <2>2, <3>2
      <4>2. longer[i] = a[n + i]
        BY <2>4, <4>1
      <4>3. CASE i <= Len(p) - n
        <5>1. i \in 1..(Len(p) - n) /\ i \in 1..Len(cut) /\ n + i \in 1..Len(p)
          BY <1>1, <2>1, <2>3, <4>1, <4>3
        <5> QED
          BY <2>2, <2>3, <3>1, <4>2, <5>1
      <4>4. CASE ~(i <= Len(p) - n)
        <5>1. \A l, m, k \in Nat :
                 k \in 1..(l - m + 1) /\ ~(k <= l - m) => k = l - m + 1 /\ m + k = l + 1
          OBVIOUS
        <5>2. i = Len(p) - n + 1 /\ n + i = Len(p) + 1
          BY <1>1, <2>1, <4>1, <4>4, <5>1
        <5> QED
          BY <2>2, <2>3, <3>1, <4>2, <5>2
      <4> QED
        BY <4>3, <4>4
    <3>4. longer = b
      BY <2>4, <3>1, <3>2, <3>3, SeqEqual
    <3> QED
      BY <3>4 DEF b
  <2>6. new \o Append(cut, c) = Append(new \o cut, c)
    <3>1. <<c>> \in Seq(Cats) /\ new \o cut \in Seq(Cats)
      BY <2>3, ConcatProperties
    <3>2. Append(cut, c) = cut \o <<c>> /\ Append(new \o cut, c) = (new \o cut) \o <<c>>
      BY <2>3, <3>1, AppendIsConcat
    <3> QED
      BY <2>3, <3>1, <3>2, ConcatAssociative
  <2> QED
    BY <2>5, <2>6 DEF n, a, cut, longer
<1> QED
  BY <1>2, <1>3 DEF Rebased
(* The parts of the invariant.                                             *)
LEMMA TreeFacts ==
    ASSUME TreeIInv
    PROVE  /\ TypeOK /\ LocksAreLive /\ MintsDiffer /\ LiveParent /\ DepthMatchesPath
           /\ \A w \in Workers : Holds(w) /\ Fits(w)
  BY DEF TreeIInv

(* Every row a category has is a Row, and a leaf refresh leaves it one.    *)
LEMMA RefreshFacts ==
    ASSUME NEW rows \in [Cats -> Row], NEW p \in Cats, NEW leaf \in BOOLEAN
    PROVE  /\ Refreshed(rows, p, leaf) \in [Cats -> Row]
           /\ \A c \in Cats \ {p} : Refreshed(rows, p, leaf)[c] = rows[c]
           /\ Refreshed(rows, p, leaf)[p].leaf = leaf
           /\ \A c \in Cats : /\ Refreshed(rows, p, leaf)[c].life = rows[c].life
                              /\ Refreshed(rows, p, leaf)[c].parent = rows[c].parent
                              /\ Refreshed(rows, p, leaf)[c].path = rows[c].path
                              /\ Refreshed(rows, p, leaf)[c].depth = rows[c].depth
<1>1. [rows[p] EXCEPT !.leaf = leaf] \in Row
  BY DEF Row
<1>2. /\ [rows[p] EXCEPT !.leaf = leaf].leaf = leaf
      /\ [rows[p] EXCEPT !.leaf = leaf].life = rows[p].life
      /\ [rows[p] EXCEPT !.leaf = leaf].parent = rows[p].parent
      /\ [rows[p] EXCEPT !.leaf = leaf].path = rows[p].path
      /\ [rows[p] EXCEPT !.leaf = leaf].depth = rows[p].depth
  BY DEF Row
<1>3. Refreshed(rows, p, leaf) = [rows EXCEPT ![p] = [rows[p] EXCEPT !.leaf = leaf]]
  BY DEF Refreshed
<1> QED
  BY <1>1, <1>2, <1>3

(* Appending a child's id to the path of a live category.                  *)
LEMMA PathBelow ==
    ASSUME NEW row \in Row, NEW c \in Cats
    PROVE  /\ Append(row.path, c) \in Seq(Cats)
           /\ Len(Append(row.path, c)) = Len(row.path) + 1
           /\ Append(row.path, c)[Len(row.path) + 1] = c
<1>1. row.path \in Seq(Cats)
  BY DEF Row
<1> QED
  BY <1>1, AppendProperties

(* A row of the subtree stays live and still ends in itself when it moves. *)
LEMMA MovedRowFits ==
    ASSUME TypeOK, DepthMatchesPath, NEW w \in Workers, NEW c \in Cats,
           subject[w] \in Cats, target[w] \in Cats,
           Live(subject[w]), Live(target[w]), InSubtree(w, c)
    PROVE  /\ MovedRow(w, c) \in Row
           /\ MovedRow(w, c).life = "live"
           /\ MovedRow(w, c).parent = cat[c].parent
           /\ EndsInItself(MovedRow(w, c), c)
<1> DEFINE s == subject[w]
           t == target[w]
           old == cat[s].path
           p == cat[c].path
           new == Append(cat[t].path, s)
           moved == new \o SubSeq(p, Len(old) + 1, Len(p))
           depth == cat[c].depth + cat[t].depth + 1 - cat[s].depth
<1>1. /\ cat[s] \in Row /\ cat[t] \in Row /\ cat[c] \in Row /\ Live(c)
      /\ StartsWith(p, old)
  BY DEF TypeOK, InSubtree
<1>2. /\ old \in Seq(Cats) /\ p \in Seq(Cats) /\ cat[t].path \in Seq(Cats)
      /\ cat[s].depth \in Nat /\ cat[c].depth \in Nat /\ cat[t].depth \in Nat
  BY <1>1 DEF Row
<1>3. /\ Len(old) = cat[s].depth + 1 /\ old[Len(old)] = s
      /\ Len(p) = cat[c].depth + 1 /\ p[Len(p)] = c
      /\ Len(cat[t].path) = cat[t].depth + 1
  BY <1>1 DEF DepthMatchesPath, EndsInItself
<1>4. new \in Seq(Cats) /\ Len(new) = cat[t].depth + 2 /\ new[Len(new)] = s
  <2>1. /\ new \in Seq(Cats) /\ Len(new) = Len(cat[t].path) + 1
        /\ new[Len(cat[t].path) + 1] = s
    BY <1>1, PathBelow
  <2> QED
    BY <1>2, <1>3, <2>1
<1>5. moved \in Seq(Cats) /\ Len(moved) = Len(new) + Len(p) - Len(old)
      /\ moved[Len(moved)] = c
  <2>1. Len(old) > 0 /\ Len(new) > 0 /\ old[Len(old)] = new[Len(new)]
    BY <1>2, <1>3, <1>4
  <2> HIDE DEF new, old, p
  <2>2. /\ moved \in Seq(Cats) /\ Len(moved) = Len(new) + Len(p) - Len(old)
        /\ moved[Len(moved)] = p[Len(p)]
    BY <1>1, <1>2, <1>4, <2>1, MovedPath
  <2> QED
    BY <1>3, <2>2
<1>6. depth \in Nat /\ Len(moved) = depth + 1
  <2>1. Len(old) <= Len(p)
    BY <1>1 DEF StartsWith
  <2>2. \A a, b, d \in Nat :
            d + 1 <= a + 1 => /\ a + b + 1 - d \in Nat
                              /\ (b + 2) + (a + 1) - (d + 1) = (a + b + 1 - d) + 1
    OBVIOUS
  <2>3. cat[s].depth + 1 <= cat[c].depth + 1
    BY <1>3, <2>1
  <2>4. /\ depth \in Nat
        /\ (cat[t].depth + 2) + (cat[c].depth + 1) - (cat[s].depth + 1) = depth + 1
    BY <1>2, <2>2, <2>3
  <2>5. Len(moved) = (cat[t].depth + 2) + (cat[c].depth + 1) - (cat[s].depth + 1)
    BY <1>3, <1>4, <1>5
  <2> QED
    BY <2>4, <2>5
<1>7. MovedRow(w, c) = [cat[c] EXCEPT !.path = moved, !.depth = depth]
  BY DEF MovedRow
<1> HIDE DEF moved, depth
<1>8. /\ MovedRow(w, c) \in Row /\ MovedRow(w, c).life = cat[c].life
      /\ MovedRow(w, c).parent = cat[c].parent
      /\ MovedRow(w, c).path = moved /\ MovedRow(w, c).depth = depth
  BY <1>1, <1>5, <1>6, <1>7 DEF Row
<1> QED
  BY <1>1, <1>5, <1>6, <1>8 DEF EndsInItself, Live

-------------------------------------------------------------------------------
(* What w may publish: not the rows others hold, no category another is    *)
(* creating, and no child of a row others hold.                            *)
Publishes(w) ==
    /\ \A c \in Cats : lock[c] \notin {None, w} => cat'[c] = cat[c]
    /\ \A c \in Cats : cat[c].life = "unborn" =>
          \/ cat'[c].life = "unborn"
          \/ \A v \in Workers \ {w} : ~(kind[v] = "create" /\ subject[v] = c)
    /\ \A c \in Cats : cat'[c].life = "live" =>
          \/ cat[c].life = "live" /\ cat'[c].parent = cat[c].parent
          \/ cat'[c].parent = None
          \/ cat'[c].parent \in Cats /\ lock[cat'[c].parent] = w

(* A step of w leaves the other transactions and their locks alone.        *)
StepOf(w) ==
    /\ \A v \in Workers \ {w} :
          /\ phase'[v] = phase[v] /\ kind'[v] = kind[v] /\ subject'[v] = subject[v]
          /\ target'[v] = target[v] /\ draft'[v] = draft[v]
    /\ \A c \in Cats : lock[c] \notin {None, w} => lock'[c] = lock[c]
    /\ Publishes(w)

(* Then what they hold and wrote is still as they left it.                 *)
LEMMA OthersKeep ==
    ASSUME TypeOK, NEW w, \A v \in Workers : Holds(v) /\ Fits(v), StepOf(w)
    PROVE  \A v \in Workers \ {w} : Holds(v)' /\ Fits(v)'
<1> SUFFICES ASSUME NEW v \in Workers \ {w}
             PROVE  Holds(v)' /\ Fits(v)'
  OBVIOUS
<1>1. v # None /\ v # w /\ v \in Workers
  BY NoneAssumption
<1>2. /\ phase'[v] = phase[v] /\ kind'[v] = kind[v] /\ subject'[v] = subject[v]
      /\ target'[v] = target[v] /\ draft'[v] = draft[v]
  BY DEF StepOf, Publishes
<1>3. \A c \in Cats : lock[c] = v => lock'[c] = v /\ cat'[c] = cat[c]
  BY <1>1 DEF StepOf, Publishes
<1>4. Holds(v) /\ Fits(v)
  OBVIOUS
<1>5. Holds(v)'
  <2>1. kind[v] = "create" => cat'[subject[v]].life = "unborn"
    BY <1>1, <1>4 DEF Holds, StepOf, Publishes
  <2> QED
    BY <1>2, <1>3, <1>4, <2>1 DEF Holds
<1>6. kind[v] = "delete" /\ phase[v] # "locked" => Childless(cat, subject[v])'
  <2> SUFFICES ASSUME kind[v] = "delete", phase[v] # "locked", NEW d \in Cats,
                      cat'[d].life = "live", cat'[d].parent = subject[v]
               PROVE  FALSE
    BY <1>2 DEF Childless
  <2>1. subject[v] \in Cats /\ lock[subject[v]] = v /\ Childless(cat, subject[v])
    BY <1>4 DEF Holds, Fits
  <2>2. subject[v] # None
    BY <2>1, NoneAssumption
  <2> QED
    BY <1>1, <2>1, <2>2 DEF Childless, StepOf, Publishes
<1>7. Fits(v)'
  <2>1. DOMAIN draft[v] \subseteq Cats
    BY <1>1 DEF TypeOK
  <2> QED
    BY <1>2, <1>3, <1>4, <1>6, <2>1 DEF Fits, EndsInItself
<1> QED
  BY <1>5, <1>7

(* The invariant from its parts, for a step of w.                          *)
LEMMA Assemble ==
    ASSUME TreeIInv, NEW w \in Workers, StepOf(w),
           TypeOK', LocksAreLive', Holds(w)', Fits(w)', LiveParent', DepthMatchesPath',
           kind'[w] = "create" => \A v \in Workers \ {w} :
               ~(kind[v] = "create" /\ subject[v] = subject'[w])
    PROVE  TreeIInv'
<1>1. \A v \in Workers \ {w} : Holds(v)' /\ Fits(v)'
  BY TreeFacts, OthersKeep
<1>2. MintsDiffer'
  BY TreeFacts DEF StepOf, MintsDiffer
<1> QED
  BY <1>1, <1>2 DEF TreeIInv

(* Writing a transaction's rows keeps the drafts' type.                    *)
LEMMA DraftFacts ==
    ASSUME TypeOK, NEW w \in Workers, NEW S \in SUBSET Cats, NEW rows \in [S -> Row],
           draft' = [draft EXCEPT ![w] = rows]
    PROVE  /\ draft' = [v \in Workers |-> draft'[v]]
           /\ \A v \in Workers : /\ DOMAIN draft'[v] \subseteq Cats
                                 /\ draft'[v] \in [DOMAIN draft'[v] -> Row]
           /\ draft'[w] = rows
           /\ \A v \in Workers \ {w} : draft'[v] = draft[v]
<1>1. draft = [v \in Workers |-> draft[v]]
  BY DEF TypeOK
<1>2. draft'[w] = rows /\ \A v \in Workers \ {w} : draft'[v] = draft[v]
  BY <1>1
<1>3. draft' = [v \in Workers |-> draft'[v]]
  BY <1>1
<1>4. ASSUME NEW v \in Workers
      PROVE  DOMAIN draft'[v] \subseteq Cats /\ draft'[v] \in [DOMAIN draft'[v] -> Row]
  BY <1>2 DEF TypeOK
<1> QED
  BY <1>2, <1>3, <1>4

(* A transaction that ends, whatever it publishes that fits.               *)
LEMMA CloseKeeps ==
    ASSUME TreeIInv, NEW w \in Workers, NEW is412 \in BOOLEAN, Close(w, is412),
           cat' \in [Cats -> Row], Publishes(w), LiveParent', DepthMatchesPath'
    PROVE  TreeIInv'
<1> USE TreeFacts
<1>1. NoRows \in [{} -> Row] /\ DOMAIN NoRows = {}
  BY DEF NoRows
<1>2. /\ draft' = [v \in Workers |-> draft'[v]]
      /\ \A v \in Workers : /\ DOMAIN draft'[v] \subseteq Cats
                            /\ draft'[v] \in [DOMAIN draft'[v] -> Row]
      /\ draft'[w] = NoRows
      /\ \A v \in Workers \ {w} : draft'[v] = draft[v]
  BY <1>1, DraftFacts DEF Close
<1>3. TypeOK'
  BY <1>2 DEF Close, TypeOK, Phases, Kinds
<1>4. StepOf(w)
  BY <1>2 DEF Close, StepOf, TypeOK
<1>5. LocksAreLive'
  <2> SUFFICES ASSUME NEW c \in Cats, lock'[c] # None
               PROVE  cat'[c].life = "live"
    BY DEF LocksAreLive, Live
  <2>1. lock[c] \notin {None, w}
    BY DEF Close
  <2> QED
    BY <2>1 DEF Publishes, LocksAreLive, Live
<1>6. phase'[w] = "idle" /\ kind'[w] = "none"
  BY DEF Close, TypeOK
<1>7. Holds(w)' /\ Fits(w)'
  BY <1>1, <1>2, <1>6 DEF Holds, Fits
<1> QED
  BY <1>3, <1>4, <1>5, <1>6, <1>7, Assemble

(* A transaction that ends without a change.                               *)
LEMMA RollbackKeeps ==
    ASSUME TreeIInv, NEW w \in Workers, NEW is412 \in BOOLEAN, Close(w, is412),
           UNCHANGED cat
    PROVE  TreeIInv'
<1>1. cat' \in [Cats -> Row] /\ Publishes(w)
  BY TreeFacts DEF TypeOK, Publishes
<1>2. LiveParent' /\ DepthMatchesPath'
  BY TreeFacts DEF LiveParent, DepthMatchesPath, Live
<1> QED
  BY <1>1, <1>2, CloseKeeps

(* A transaction that goes on, with rows of the tree as they were.         *)
LEMMA GoingOn ==
    ASSUME TreeIInv, NEW w \in Workers, UNCHANGED <<cat, kind, subject, target>>,
           TypeOK', LocksAreLive', Holds(w)', Fits(w)',
           \A v \in Workers \ {w} : phase'[v] = phase[v] /\ draft'[v] = draft[v],
           \A c \in Cats : lock[c] \notin {None, w} => lock'[c] = lock[c]
    PROVE  TreeIInv'
<1>1. StepOf(w)
  BY DEF StepOf, Publishes
<1>2. LiveParent' /\ DepthMatchesPath'
  BY TreeFacts DEF LiveParent, DepthMatchesPath, Live
<1>3. kind'[w] = "create" => \A v \in Workers \ {w} :
          ~(kind[v] = "create" /\ subject[v] = subject'[w])
  BY TreeFacts DEF MintsDiffer
<1> QED
  BY <1>1, <1>2, <1>3, Assemble

(* A transaction that begins by locking a live row.                        *)
LEMMA BeginKeeps ==
    ASSUME TreeIInv, NEW w \in Workers, NEW operation \in Kinds \ {"none"},
           NEW c \in Cats, NEW t \in Cats \cup {None}, NEW version \in Claims \cup {"equal"},
           Begin(w, operation, c, t, version),
           NEW held \in Cats, Live(held), lock[held] = None,
           lock' = [lock EXCEPT ![held] = w],
           IF operation = "create" THEN Mintable(c) /\ held = t ELSE held = c,
           operation = "move" => t \in Cats,
           operation = "delete" => t = None
    PROVE  TreeIInv'
<1> USE TreeFacts
<1>1. TypeOK'
  BY DEF Begin, TypeOK, Phases
<1>2. /\ phase[w] = "idle" /\ phase'[w] = "locked" /\ kind'[w] = operation
      /\ subject'[w] = c /\ target'[w] = t /\ lock'[held] = w
      /\ UNCHANGED <<cat, draft>>
  BY DEF Begin, TypeOK
<1>3. StepOf(w)
  BY <1>2 DEF Begin, StepOf, Publishes, TypeOK
<1>4. LocksAreLive'
  BY <1>2 DEF LocksAreLive, Live, TypeOK
<1>5. Holds(w)'
  BY <1>2 DEF Holds, Mintable, Kinds
<1>6. Fits(w)'
  BY <1>2 DEF Fits
<1>7. LiveParent' /\ DepthMatchesPath'
  BY <1>2 DEF LiveParent, DepthMatchesPath, Live
<1>8. kind'[w] = "create" => \A v \in Workers \ {w} :
          ~(kind[v] = "create" /\ subject[v] = subject'[w])
  BY <1>2 DEF Mintable
<1> QED
  BY <1>1, <1>3, <1>4, <1>5, <1>6, <1>7, <1>8, Assemble

-------------------------------------------------------------------------------
(* The operations.                                                         *)

(* A root is nobody's yet, and no child of a row that is held.             *)
LEMMA CreateRootKeeps ==
    ASSUME TreeIInv, NEW c \in Cats, CreateRoot(c)
    PROVE  TreeIInv'
<1> USE TreeFacts
<1> DEFINE root == [life |-> "live", parent |-> None, path |-> <<c>>, depth |-> 0,
                    leaf |-> TRUE]
<1>1. root \in Row /\ EndsInItself(root, c)
  BY DEF Row, EndsInItself
<1>2. /\ cat[c].life = "unborn" /\ cat' = [cat EXCEPT ![c] = root]
      /\ UNCHANGED <<lock, draft, phase, kind, subject, target>>
      /\ \A w \in Workers : ~(kind[w] = "create" /\ subject[w] = c)
  BY DEF CreateRoot, Mintable, request
<1> HIDE DEF root
<1>3. cat'[c] = root /\ root.life = "live" /\ root.parent = None
  BY <1>2 DEF TypeOK, root
<1>4. \A d \in Cats \ {c} : cat'[d] = cat[d]
  BY <1>2 DEF TypeOK
<1>5. \A d \in Cats : lock[d] # None => d # c
  BY <1>2 DEF LocksAreLive, Live
<1>6. StepOf(None)
  BY <1>2, <1>3, <1>4, <1>5 DEF StepOf, Publishes
<1>7. \A v \in Workers : Holds(v)' /\ Fits(v)'
  BY <1>6, OthersKeep, NoneAssumption
<1>8. TypeOK'
  BY <1>1, <1>2 DEF CreateRoot, TypeOK, request
<1>9. LocksAreLive' /\ MintsDiffer'
  BY <1>2, <1>4, <1>5 DEF LocksAreLive, MintsDiffer, Live
<1>10. LiveParent'
  BY <1>3, <1>4 DEF LiveParent, Live, TypeOK, Row
<1>11. DepthMatchesPath'
  BY <1>1, <1>3, <1>4 DEF DepthMatchesPath, Live, EndsInItself
<1> QED
  BY <1>7, <1>8, <1>9, <1>10, <1>11 DEF TreeIInv

(* A child goes under a parent its transaction holds.                      *)
LEMMA CreateChildKeeps ==
    ASSUME TreeIInv, NEW w \in Workers, CreateChild(w)
    PROVE  TreeIInv'
<1> USE TreeFacts
<1> DEFINE c == subject[w]
           p == target[w]
           child == ChildRow(c, p)
           placed == [cat EXCEPT ![c] = child]
           leaf == Childless(placed, p)
           rows == Refreshed(placed, p, leaf)
<1>1. /\ c \in Cats /\ p \in Cats /\ lock[p] = w /\ cat[c].life = "unborn" /\ Live(p)
      /\ p # c
  BY NoneAssumption DEF CreateChild, Holds, LocksAreLive, Live
<1>2. cat[p] \in Row /\ EndsInItself(cat[p], p)
  BY <1>1 DEF TypeOK, DepthMatchesPath
<1>3. /\ child \in Row /\ EndsInItself(child, c)
      /\ child.life = "live" /\ child.parent = p
  <2>1. /\ Append(cat[p].path, c) \in Seq(Cats)
        /\ Len(Append(cat[p].path, c)) = Len(cat[p].path) + 1
        /\ Append(cat[p].path, c)[Len(cat[p].path) + 1] = c
    BY <1>1, <1>2, PathBelow
  <2>2. cat[p].depth \in Nat /\ Len(cat[p].path) = cat[p].depth + 1
    BY <1>2 DEF Row, EndsInItself
  <2>3. /\ child.life = "live" /\ child.parent = p /\ child.leaf = TRUE
        /\ child.path = Append(cat[p].path, c) /\ child.depth = cat[p].depth + 1
    BY DEF ChildRow
  <2>4. child \in Row
    BY <1>1, <2>1, <2>2 DEF ChildRow, Row
  <2> HIDE DEF child
  <2> QED
    BY <2>1, <2>2, <2>3, <2>4 DEF EndsInItself
<1> HIDE DEF child
<1>4. /\ placed \in [Cats -> Row] /\ placed[c] = child
      /\ \A d \in Cats \ {c} : placed[d] = cat[d]
  BY <1>1, <1>3 DEF TypeOK
<1>5. leaf \in BOOLEAN
  BY DEF Childless
<1> HIDE DEF placed, leaf
<1>6. /\ rows \in [Cats -> Row] /\ \A d \in Cats \ {p} : rows[d] = placed[d]
      /\ \A d \in Cats : /\ rows[d].life = placed[d].life
                         /\ rows[d].parent = placed[d].parent
                         /\ rows[d].path = placed[d].path
                         /\ rows[d].depth = placed[d].depth
  BY <1>1, <1>4, <1>5, RefreshFacts
<1>7. Close(w, FALSE) /\ cat' = rows
  BY DEF CreateChild, CommitRows, placed, leaf, child
<1> HIDE DEF rows
<1>8. Publishes(w)
  <2>1. \A d \in Cats : lock[d] \notin {None, w} => d # c /\ d # p
    BY <1>1 DEF LocksAreLive, Live
  <2>2. \A v \in Workers \ {w} : ~(kind[v] = "create" /\ subject[v] = c)
    BY DEF CreateChild, MintsDiffer
  <2>3. \A d \in Cats \ {c} : cat'[d].life = cat[d].life /\ cat'[d].parent = cat[d].parent
    BY <1>4, <1>6, <1>7
  <2>4. cat'[c].parent = p
    BY <1>1, <1>3, <1>4, <1>6, <1>7
  <2> QED
    BY <1>1, <1>4, <1>6, <1>7, <2>1, <2>2, <2>3, <2>4 DEF Publishes
<1>9. LiveParent'
  <2> SUFFICES ASSUME NEW d \in Cats, cat'[d].life = "live", cat'[d].parent # None
               PROVE  cat'[cat'[d].parent].life = "live"
    BY DEF LiveParent, Live
  <2>1. \A e \in Cats : cat[e].life = "live" => cat'[e].life = "live"
    BY <1>1, <1>3, <1>4, <1>6, <1>7
  <2>2. CASE d = c
    BY <1>1, <1>3, <1>4, <1>6, <1>7, <2>1, <2>2 DEF Live
  <2>3. CASE d # c
    <3>1. cat[d].life = "live" /\ cat[d].parent = cat'[d].parent /\ cat[d].parent \in Cats
      BY <1>4, <1>6, <1>7, <2>3 DEF TypeOK, Row
    <3> QED
      BY <2>1, <3>1 DEF LiveParent, Live
  <2> QED
    BY <2>2, <2>3
<1>10. DepthMatchesPath'
  BY <1>1, <1>3, <1>4, <1>6, <1>7 DEF DepthMatchesPath, Live, EndsInItself
<1> QED
  BY <1>6, <1>7, <1>8, <1>9, <1>10, CloseKeeps

(* An edit, a refusal, a conflict.                                         *)
LEMMA EditKeeps ==
    ASSUME TreeIInv, NEW w \in Workers, Edit(w) \/ Abort(w)
    PROVE  TreeIInv'
<1>1. \E is412 \in BOOLEAN : Close(w, is412) /\ UNCHANGED cat
  BY DEF Edit, Abort, Rollback, RollbackStale, CommitRows
<1> QED
  BY <1>1, RollbackKeeps

(* The new parent is held as well, or the move is refused.                 *)
LEMMA LockTargetKeeps ==
    ASSUME TreeIInv, NEW w \in Workers, LockTarget(w)
    PROVE  TreeIInv'
<1> USE TreeFacts
<1>1. CASE Rollback(w)
  BY <1>1, RollbackKeeps DEF Rollback
<1>2. CASE ~Rollback(w)
  <2>1. /\ phase[w] = "locked" /\ kind[w] = "move" /\ target[w] \in Cats
        /\ Live(target[w]) /\ lock[target[w]] = None
        /\ phase' = [phase EXCEPT ![w] = "placed"]
        /\ lock' = [lock EXCEPT ![target[w]] = w]
        /\ UNCHANGED <<cat, draft, kind, subject, target, claim, snap, leafView, stale>>
    BY <1>2 DEF LockTarget, request, Holds
  <2>2. TypeOK'
    BY <2>1 DEF TypeOK, Phases
  <2>3. LocksAreLive'
    BY <2>1 DEF LocksAreLive, Live, TypeOK
  <2>4. Holds(w)'
    BY <2>1 DEF Holds, TypeOK
  <2>5. Fits(w)'
    BY <2>1 DEF Fits, TypeOK
  <2> QED
    BY <2>1, <2>2, <2>3, <2>4, <2>5, GoingOn DEF TypeOK
<1> QED
  BY <1>1, <1>2

(* The snapshot is taken.                                                  *)
LEMMA StartMoveKeeps ==
    ASSUME TreeIInv, NEW w \in Workers, StartMove(w)
    PROVE  TreeIInv'
<1> USE TreeFacts
<1>1. /\ phase[w] = "placed" /\ phase' = [phase EXCEPT ![w] = "moving"]
      /\ UNCHANGED <<cat, lock, draft, kind, subject, target, claim, leafView, stale>>
      /\ snap' = [snap EXCEPT ![w] = {c \in Cats : InSubtree(w, c)}]
  BY DEF StartMove, store, request
<1>2. TypeOK'
  BY <1>1 DEF TypeOK, Phases
<1>3. LocksAreLive'
  BY <1>1 DEF LocksAreLive, Live
<1>4. Holds(w)' /\ Fits(w)'
  BY <1>1 DEF Holds, Fits, TypeOK
<1> QED
  BY <1>1, <1>2, <1>3, <1>4, GoingOn DEF TypeOK

(* The children of the parent left behind are counted.                     *)
LEMMA StartRefreshKeeps ==
    ASSUME TreeIInv, NEW w \in Workers, StartRefresh(w)
    PROVE  TreeIInv'
<1> USE TreeFacts
<1>1. /\ phase[w] = "written" /\ phase' = [phase EXCEPT ![w] = "refreshing"]
      /\ UNCHANGED <<cat, lock, draft, kind, subject, target, claim, snap, stale>>
      /\ leafView' = [leafView EXCEPT ![w] = Childless(View(w), OldParent(w))]
  BY DEF StartRefresh, store, request
<1>2. Childless(View(w), OldParent(w)) \in BOOLEAN
  BY DEF Childless
<1>3. TypeOK'
  BY <1>1, <1>2 DEF TypeOK, Phases
<1>4. LocksAreLive'
  BY <1>1 DEF LocksAreLive, Live
<1>5. Holds(w)' /\ Fits(w)'
  BY <1>1 DEF Holds, Fits, TypeOK, Childless
<1> QED
  BY <1>1, <1>3, <1>4, <1>5, GoingOn DEF TypeOK

(* The rows of the subtree are rewritten where nobody else holds them.     *)
LEMMA FinishMoveKeeps ==
    ASSUME TreeIInv, NEW w \in Workers, FinishMove(w)
    PROVE  TreeIInv'
<1> USE TreeFacts
<1> DEFINE s == subject[w]
           t == target[w]
           moved == {c \in snap[w] : InSubtree(w, c)}
           wrote == [c \in moved |-> IF c = s THEN [MovedRow(w, c) EXCEPT !.parent = t]
                                              ELSE MovedRow(w, c)]
<1>1. /\ phase[w] = "moving" /\ kind[w] = "move" /\ s \in Cats /\ t \in Cats
      /\ lock[s] = w /\ lock[t] = w /\ Live(s) /\ Live(t)
  <2>1. phase[w] = "moving" /\ kind[w] \in Kinds
    BY DEF FinishMove, TypeOK
  <2>2. kind[w] = "move"
    BY <2>1 DEF Holds, Kinds
  <2>3. s \in Cats /\ t \in Cats /\ lock[s] = w /\ lock[t] = w
    BY <2>1, <2>2 DEF Holds
  <2> QED
    BY <2>1, <2>2, <2>3, NoneAssumption DEF LocksAreLive
<1>2. moved \subseteq Cats /\ \A c \in moved : InSubtree(w, c) /\ Available(w, c)
  BY DEF FinishMove, TypeOK
<1>3. /\ phase' = [phase EXCEPT ![w] = "written"]
      /\ draft' = [draft EXCEPT ![w] = wrote]
      /\ lock' = [c \in Cats |-> IF c \in moved THEN w ELSE lock[c]]
      /\ UNCHANGED <<cat, kind, subject, target, claim, snap, leafView, stale>>
  BY DEF FinishMove, request
<1> HIDE DEF moved
<1>4. ASSUME NEW c \in moved
      PROVE  /\ wrote[c] \in Row /\ wrote[c].life = "live" /\ EndsInItself(wrote[c], c)
             /\ wrote[c].parent \in {cat[c].parent, t}
  <2> DEFINE row == MovedRow(w, c)
  <2>1. /\ row \in Row /\ row.life = "live" /\ row.parent = cat[c].parent
        /\ EndsInItself(row, c)
    BY <1>1, <1>2, MovedRowFits
  <2> HIDE DEF row
  <2>2. /\ [row EXCEPT !.parent = t] \in Row /\ [row EXCEPT !.parent = t].life = row.life
        /\ [row EXCEPT !.parent = t].path = row.path
        /\ [row EXCEPT !.parent = t].depth = row.depth
        /\ [row EXCEPT !.parent = t].parent = t
    BY <1>1, <2>1 DEF Row
  <2>3. wrote[c] = IF c = s THEN [row EXCEPT !.parent = t] ELSE row
    BY DEF row
  <2> HIDE DEF wrote
  <2> QED
    BY <2>1, <2>2, <2>3 DEF EndsInItself
<1>5. wrote \in [moved -> Row] /\ DOMAIN wrote = moved
  BY <1>4
<1> HIDE DEF wrote
<1>6. /\ draft' = [v \in Workers |-> draft'[v]]
      /\ \A v \in Workers : /\ DOMAIN draft'[v] \subseteq Cats
                            /\ draft'[v] \in [DOMAIN draft'[v] -> Row]
      /\ draft'[w] = wrote
      /\ \A v \in Workers \ {w} : draft'[v] = draft[v]
  BY <1>2, <1>3, <1>5, DraftFacts
<1>7. TypeOK'
  BY <1>3, <1>6 DEF TypeOK, Phases
<1>8. LocksAreLive'
  BY <1>2, <1>3 DEF LocksAreLive, Live, InSubtree
<1>9. phase'[w] = "written" /\ \A v \in Workers \ {w} : phase'[v] = phase[v]
  BY <1>3 DEF TypeOK
<1>10. Holds(w)'
  BY <1>1, <1>3, <1>9 DEF Holds
<1>11. Fits(w)'
  BY <1>1, <1>2, <1>3, <1>4, <1>5, <1>6, <1>9 DEF Fits
<1>12. \A c \in Cats : lock[c] \notin {None, w} => lock'[c] = lock[c]
  BY <1>2, <1>3 DEF Available
<1> QED
  BY <1>3, <1>6, <1>7, <1>8, <1>9, <1>10, <1>11, <1>12, GoingOn

(* A childless category is retired, or the deletion is refused.            *)
LEMMA RetireKeeps ==
    ASSUME TreeIInv, NEW w \in Workers, Retire(w)
    PROVE  TreeIInv'
<1> USE TreeFacts
<1>1. CASE Rollback(w) \/ RollbackStale(w)
  BY <1>1, RollbackKeeps DEF Rollback, RollbackStale
<1>2. CASE ~(Rollback(w) \/ RollbackStale(w))
  <2> DEFINE c == subject[w]
             retired == [cat[c] EXCEPT !.life = "retired"]
             wrote == [d \in {c} |-> retired]
  <2>1. /\ phase[w] = "locked" /\ kind[w] = "delete" /\ Childless(cat, c)
        /\ c \in Cats /\ lock[c] = w
        /\ phase' = [phase EXCEPT ![w] = "written"]
        /\ draft' = [draft EXCEPT ![w] = wrote]
        /\ UNCHANGED <<cat, lock, kind, subject, target, claim, snap, leafView, stale>>
    BY <1>2 DEF Retire, request, Holds
  <2>2. retired \in Row /\ retired.life = "retired"
    <3>1. cat[c] \in Row
      BY <2>1 DEF TypeOK
    <3> QED
      BY <3>1 DEF Row
  <2> HIDE DEF retired
  <2>3. wrote \in [{c} -> Row] /\ DOMAIN wrote = {c} /\ wrote[c] = retired
    BY <2>2
  <2> HIDE DEF wrote
  <2>4. /\ draft' = [v \in Workers |-> draft'[v]]
        /\ \A v \in Workers : /\ DOMAIN draft'[v] \subseteq Cats
                              /\ draft'[v] \in [DOMAIN draft'[v] -> Row]
        /\ draft'[w] = wrote
        /\ \A v \in Workers \ {w} : draft'[v] = draft[v]
    BY <2>1, <2>3, DraftFacts
  <2>5. TypeOK'
    BY <2>1, <2>4 DEF TypeOK, Phases
  <2>6. LocksAreLive'
    BY <2>1 DEF LocksAreLive, Live
  <2>7. phase'[w] = "written" /\ \A v \in Workers \ {w} : phase'[v] = phase[v]
    BY <2>1 DEF TypeOK
  <2>8. Holds(w)'
    BY <2>1, <2>7 DEF Holds
  <2>9. Fits(w)'
    BY <2>1, <2>2, <2>3, <2>4, <2>7 DEF Fits, Childless
  <2> QED
    BY <2>1, <2>4, <2>5, <2>6, <2>7, <2>8, <2>9, GoingOn
<1> QED
  BY <1>1, <1>2

(* The rows a commit publishes are those its transaction sees, but for the *)
(* leaf flags of the parent left behind, which is what the refresh saw,    *)
(* and of the new one.                                                     *)
LEMMA CommitFacts ==
    ASSUME TreeIInv, NEW w \in Workers, Commit(w), cat' # cat
    PROVE  /\ Close(w, FALSE) /\ cat' \in [Cats -> Row]
           /\ kind[w] \in {"move", "delete"} /\ phase[w] \in {"written", "refreshing"}
           /\ \A c \in Cats : /\ cat'[c].life = View(w)[c].life
                              /\ cat'[c].parent = View(w)[c].parent
                              /\ cat'[c].path = View(w)[c].path
                              /\ cat'[c].depth = View(w)[c].depth
           /\ \A c \in Cats : lock[c] \notin {None, w} => cat'[c] = View(w)[c]
           /\ \A c \in Cats : cat'[c].leaf =
                 IF c = target[w] THEN Childless(View(w), c)
                 ELSE IF c = OldParent(w) THEN leafView[w] ELSE View(w)[c].leaf
<1> USE TreeFacts
<1> DEFINE p == OldParent(w)
           t == target[w]
           left == IF p = None THEN View(w) ELSE Refreshed(View(w), p, leafView[w])
           rows == IF t = None THEN left ELSE Refreshed(left, t, Childless(left, t))
<1>1. phase[w] \in {"written", "refreshing"} /\ kind[w] \in {"move", "delete"}
  BY DEF Commit, Holds, TypeOK, Kinds
<1>2. Close(w, FALSE) /\ cat' = rows
  BY DEF Commit, CommitRows, RollbackStale
<1>3. View(w) \in [Cats -> Row]
  BY DEF View, TypeOK
<1>4. p \in Cats \cup {None} /\ (p # None => Available(w, p))
  BY <1>1 DEF Commit, OldParent, Holds, TypeOK, Row
<1>5. t \in Cats \cup {None} /\ (t # None => lock[t] = w)
  BY <1>1 DEF Holds, TypeOK
<1>6. leafView[w] \in BOOLEAN /\ Childless(left, t) \in BOOLEAN
  BY DEF TypeOK, Childless
<1>7. /\ left \in [Cats -> Row]
      /\ \A c \in Cats : /\ left[c].life = View(w)[c].life
                         /\ left[c].parent = View(w)[c].parent
                         /\ left[c].path = View(w)[c].path
                         /\ left[c].depth = View(w)[c].depth
      /\ \A c \in Cats \ {p} : left[c] = View(w)[c]
      /\ p # None => left[p].leaf = leafView[w]
  <2>1. CASE p = None
    BY <1>3, <2>1
  <2>2. CASE p # None
    BY <1>3, <1>4, <1>6, <2>2, RefreshFacts
  <2> QED
    BY <2>1, <2>2
<1> HIDE DEF left
<1>8. Childless(left, t) <=> Childless(View(w), t)
  BY <1>7 DEF Childless
<1>9. /\ rows \in [Cats -> Row]
      /\ \A c \in Cats : /\ rows[c].life = left[c].life
                         /\ rows[c].parent = left[c].parent
                         /\ rows[c].path = left[c].path
                         /\ rows[c].depth = left[c].depth
      /\ \A c \in Cats \ {t} : rows[c] = left[c]
      /\ t # None => rows[t].leaf = Childless(left, t)
  <2>1. CASE t = None
    BY <1>7, <2>1
  <2>2. CASE t # None
    BY <1>5, <1>6, <1>7, <2>2, RefreshFacts
  <2> QED
    BY <2>1, <2>2
<1> HIDE DEF rows
<1>10. \A c \in Cats : lock[c] \notin {None, w} => c # p /\ c # t
  BY <1>4, <1>5, NoneAssumption DEF Available
<1>11. \A c \in Cats : lock[c] \notin {None, w} => cat'[c] = View(w)[c]
  BY <1>2, <1>7, <1>9, <1>10
<1>12. ASSUME NEW c \in Cats
       PROVE  cat'[c].leaf =
                 IF c = t THEN Childless(View(w), c)
                 ELSE IF c = p THEN leafView[w] ELSE View(w)[c].leaf
  <2>1. CASE c = t
    <3>1. cat'[c].leaf = Childless(left, t)
      BY <1>2, <1>9, <2>1, NoneAssumption
    <3>2. Childless(left, t) = Childless(View(w), t)
      BY <1>8 DEF Childless
    <3> QED
      BY <2>1, <3>1, <3>2
  <2>2. CASE c # t /\ c = p
    BY <1>2, <1>7, <1>9, <2>2, NoneAssumption
  <2>3. CASE c # t /\ c # p
    BY <1>2, <1>7, <1>9, <2>3
  <2> QED
    BY <2>1, <2>2, <2>3
<1>13. \A c \in Cats : /\ cat'[c].life = View(w)[c].life
                      /\ cat'[c].parent = View(w)[c].parent
                      /\ cat'[c].path = View(w)[c].path
                      /\ cat'[c].depth = View(w)[c].depth
  BY <1>2, <1>7, <1>9
<1> QED
  BY <1>1, <1>2, <1>9, <1>11, <1>12, <1>13

(* What a transaction sees of a row is what it wrote, or what is committed. *)
LEMMA ViewFacts ==
    ASSUME TreeIInv, NEW w \in Workers, NEW c \in Cats
    PROVE  /\ c \in DOMAIN draft[w] => View(w)[c] = draft[w][c] /\ lock[c] = w /\ Live(c)
           /\ c \notin DOMAIN draft[w] => View(w)[c] = cat[c]
  BY TreeFacts, NoneAssumption DEF View, Fits, LocksAreLive

(* A move and a deletion publish rows that are live under live rows.       *)
LEMMA CommitKeeps ==
    ASSUME TreeIInv, NEW w \in Workers, Commit(w)
    PROVE  TreeIInv'
<1> USE TreeFacts
<1>1. CASE cat' = cat
  <2>1. \E is412 \in BOOLEAN : Close(w, is412)
    BY DEF Commit, CommitRows, RollbackStale
  <2> QED
    BY <1>1, <2>1, RollbackKeeps
<1>2. CASE cat' # cat
  <2> DEFINE mine == DOMAIN draft[w]
  <2>1. /\ Close(w, FALSE) /\ cat' \in [Cats -> Row]
        /\ kind[w] \in {"move", "delete"} /\ phase[w] \in {"written", "refreshing"}
        /\ \A c \in Cats : /\ cat'[c].life = View(w)[c].life
                           /\ cat'[c].parent = View(w)[c].parent
                           /\ cat'[c].path = View(w)[c].path
                           /\ cat'[c].depth = View(w)[c].depth
        /\ \A c \in Cats : lock[c] \notin {None, w} => cat'[c] = View(w)[c]
    BY <1>2, CommitFacts
  <2>2. \A c \in Cats : /\ c \in mine => /\ View(w)[c] = draft[w][c]
                                         /\ lock[c] = w /\ Live(c)
                        /\ c \notin mine => View(w)[c] = cat[c]
    BY ViewFacts
  <2>3. \A c \in Cats : cat[c] \in Row
    BY DEF TypeOK
  <2>4. ASSUME NEW c \in Cats, cat'[c].life = "live"
        PROVE  /\ cat[c].life = "live" /\ EndsInItself(cat'[c], c)
               /\ \/ cat'[c].parent = cat[c].parent
                  \/ kind[w] = "move" /\ cat'[c].parent = target[w]
    <3>1. CASE c \in mine
      <4>1. kind[w] = "move"
        BY <2>1, <2>2, <2>4, <3>1 DEF Fits
      <4> QED
        BY <2>1, <2>2, <2>4, <3>1, <4>1 DEF Fits, EndsInItself, Live
    <3>2. CASE c \notin mine
      BY <2>1, <2>2, <2>4, <3>2 DEF DepthMatchesPath, EndsInItself, Live
    <3> QED
      BY <3>1, <3>2
  <2>5. kind[w] = "move" => target[w] \in Cats /\ lock[target[w]] = w /\ Live(target[w])
    BY <2>1, NoneAssumption DEF Holds, LocksAreLive
  <2>6. Publishes(w)
    <3>1. \A c \in Cats : lock[c] \notin {None, w} => cat'[c] = cat[c]
      BY <2>1, <2>2
    <3>2. \A c \in Cats : cat[c].life = "unborn" => cat'[c].life = "unborn"
      BY <2>1, <2>2 DEF Live
    <3> QED
      BY <2>4, <2>5, <3>1, <3>2 DEF Publishes
  <2>7. DepthMatchesPath'
    BY <2>4 DEF DepthMatchesPath, Live
  <2>8. LiveParent'
    <3> SUFFICES ASSUME NEW c \in Cats, cat'[c].life = "live", cat'[c].parent # None
                 PROVE  cat'[cat'[c].parent].life = "live"
      BY DEF LiveParent, Live
    <3> DEFINE q == cat'[c].parent
    <3>1. q \in Cats /\ cat[q].life = "live"
      BY <2>3, <2>4, <2>5 DEF LiveParent, Live, Row
    <3>2. CASE kind[w] = "move"
      BY <2>1, <2>2, <3>1, <3>2 DEF Fits
    <3>3. CASE kind[w] = "delete"
      <4>1. q # subject[w]
        BY <2>1, <2>4, <3>3 DEF Fits, Childless
      <4>2. q \notin mine
        BY <3>3, <4>1 DEF Fits
      <4> QED
        BY <2>1, <2>2, <3>1, <4>2
    <3> QED
      BY <2>1, <3>2, <3>3
  <2> QED
    BY <2>1, <2>6, <2>7, <2>8, CloseKeeps
<1> QED
  BY <1>1, <1>2

(* A request that locks the row it is about, or its parent.                *)
LEMMA BeginsKeep ==
    ASSUME TreeIInv, NEW w \in Workers, NEW c \in Cats,
           \/ \E version \in Claims : BeginEdit(w, c, version)
           \/ \E version \in Claims : BeginDelete(w, c, version)
           \/ \E p \in Cats : BeginCreate(w, c, p)
           \/ \E t \in Cats, version \in Claims : BeginMove(w, c, t, version)
    PROVE  TreeIInv'
<1>1. CASE \E version \in Claims : BeginEdit(w, c, version)
  BY <1>1, BeginKeeps DEF BeginEdit, LockSubject, Kinds
<1>2. CASE \E version \in Claims : BeginDelete(w, c, version)
  BY <1>2, BeginKeeps DEF BeginDelete, LockSubject, Kinds
<1>3. ASSUME NEW p \in Cats, BeginCreate(w, c, p) PROVE TreeIInv'
  <2>1. /\ "create" \in Kinds \ {"none"} /\ Mintable(c) /\ Live(p) /\ lock[p] = None
        /\ Begin(w, "create", c, p, "equal") /\ lock' = [lock EXCEPT ![p] = w]
    BY <1>3 DEF BeginCreate, Kinds
  <2> QED
    BY <2>1, BeginKeeps
<1>4. ASSUME NEW t \in Cats, NEW version \in Claims, BeginMove(w, c, t, version)
      PROVE  TreeIInv'
  <2>1. /\ "move" \in Kinds \ {"none"} /\ Live(c) /\ lock[c] = None
        /\ Begin(w, "move", c, t, version) /\ lock' = [lock EXCEPT ![c] = w]
    BY <1>4 DEF BeginMove, LockSubject, Kinds
  <2> QED
    BY <2>1, BeginKeeps
<1> QED
  BY <1>1, <1>2, <1>3, <1>4

-------------------------------------------------------------------------------
(* The invariant, for every behaviour of the tree.                         *)
LEMMA InitHolds == Init => TreeIInv
<1> SUFFICES ASSUME Init PROVE TreeIInv
  OBVIOUS
<1>1. Unborn \in Row /\ Unborn.life = "unborn"
  BY DEF Unborn, Row
<1>2. NoRows \in [{} -> Row] /\ DOMAIN NoRows = {}
  BY DEF NoRows
<1>3. TypeOK
  BY <1>1, <1>2 DEF Init, TypeOK, Phases, Kinds
<1>4. LocksAreLive /\ LiveParent /\ DepthMatchesPath
  BY <1>1 DEF Init, LocksAreLive, LiveParent, DepthMatchesPath, Live
<1>5. MintsDiffer /\ \A w \in Workers : Holds(w) /\ Fits(w)
  BY <1>2 DEF Init, MintsDiffer, Holds, Fits
<1> QED
  BY <1>3, <1>4, <1>5 DEF TreeIInv

(* The inductive invariant: what transactions hold and wrote stays where   *)
(* they found it, whatever others create, move and retire meanwhile.       *)
THEOREM TreeInvariance == Spec => []TreeIInv
<1>1. TreeIInv /\ [Next]_vars => TreeIInv'
  <2> SUFFICES ASSUME TreeIInv, [Next]_vars
               PROVE  TreeIInv'
    OBVIOUS
  <2>1. CASE UNCHANGED vars
    BY <2>1 DEF vars, TreeIInv, TypeOK, LocksAreLive, MintsDiffer, Holds, Fits, Childless,
                LiveParent, DepthMatchesPath, Live
  <2>2. ASSUME NEW w \in Workers,
               \/ CreateChild(w) \/ Edit(w) \/ LockTarget(w) \/ StartMove(w)
               \/ FinishMove(w) \/ Retire(w) \/ StartRefresh(w) \/ Commit(w) \/ Abort(w)
        PROVE  TreeIInv'
    BY <2>2, CreateChildKeeps, EditKeeps, LockTargetKeeps, StartMoveKeeps,
       FinishMoveKeeps, RetireKeeps, StartRefreshKeeps, CommitKeeps
  <2> QED
    BY <2>1, <2>2, CreateRootKeeps, BeginsKeep DEF Next
<1> QED
  BY <1>1, InitHolds, PTL DEF Spec

(* LiveParent: no interleaving of creations, moves and deletions leaves a  *)
(* live category under one that is not.                                    *)
THEOREM ParentsAreLive == Spec => []LiveParent
<1>1. TreeIInv => LiveParent
  BY DEF TreeIInv
<1> QED
  BY <1>1, TreeInvariance, PTL

(* DepthMatchesPath: the depth and the last id of a path survive every     *)
(* subtree statement, also one whose rows changed while it waited.         *)
THEOREM DepthsMatchPaths == Spec => []DepthMatchesPath
<1>1. TreeIInv => DepthMatchesPath
  BY DEF TreeIInv
<1> QED
  BY <1>1, TreeInvariance, PTL

-------------------------------------------------------------------------------
(* Paths.                                                                  *)

(* Live rows have rows, paths that end in themselves, and live parents.    *)
LEMMA PathFacts ==
    ASSUME TypeOK, LiveParent, DepthMatchesPath, NEW c \in Cats, Live(c)
    PROVE  /\ cat[c].path \in Seq(Cats) /\ Len(cat[c].path) > 0
           /\ cat[c].path[Len(cat[c].path)] = c
           /\ cat[c].parent # None => cat[c].parent \in Cats /\ Live(cat[c].parent)
<1>1. cat[c] \in Row /\ EndsInItself(cat[c], c)
  BY DEF TypeOK, DepthMatchesPath
<1>2. cat[c].path \in Seq(Cats) /\ cat[c].depth \in Nat
  BY <1>1 DEF Row
<1>3. Len(cat[c].path) > 0
  BY <1>1, <1>2 DEF EndsInItself
<1> QED
  BY <1>1, <1>2, <1>3 DEF EndsInItself, LiveParent, Row

(* The tree keeps its shape: no live row gets another parent or path, and  *)
(* the only new rows are roots.                                            *)
SameShape ==
    \A c \in Cats : cat'[c].life = "live" =>
        \/ Live(c) /\ cat'[c].parent = cat[c].parent /\ cat'[c].path = cat[c].path
        \/ cat[c].life = "unborn" /\ cat'[c].parent = None /\ cat'[c].path = <<c>>

(* A new root keeps the shape.                                             *)
LEMMA RootShape ==
    ASSUME TypeOK, NEW c \in Cats, CreateRoot(c)
    PROVE  SameShape
<1>1. /\ cat[c].life = "unborn" /\ cat'[c].parent = None /\ cat'[c].path = <<c>>
      /\ \A d \in Cats \ {c} : cat'[d] = cat[d]
  BY DEF CreateRoot, Mintable, TypeOK
<1> QED
  BY <1>1 DEF SameShape, Live

(* Only creations under a parent and moves change the shape.               *)
LEMMA ShapeStep ==
    ASSUME TreeIInv, [Next]_vars
    PROVE  \/ SameShape
           \/ \E w \in Workers : CreateChild(w) \/ (Commit(w) /\ kind[w] = "move" /\ cat' # cat)
<1> USE TreeFacts
<1>1. CASE cat' = cat
  BY <1>1 DEF SameShape, Live
<1>2. ASSUME NEW c \in Cats, CreateRoot(c) PROVE SameShape
  BY <1>2, RootShape
<1>3. ASSUME NEW w \in Workers, Commit(w), cat' # cat, kind[w] # "move" PROVE SameShape
  <2>1. /\ kind[w] = "delete"
        /\ \A c \in Cats : /\ cat'[c].life = View(w)[c].life
                           /\ cat'[c].parent = View(w)[c].parent
                           /\ cat'[c].path = View(w)[c].path
    BY <1>3, CommitFacts
  <2>2. ASSUME NEW c \in Cats, cat'[c].life = "live"
        PROVE  View(w)[c] = cat[c]
    BY <2>1, <2>2, ViewFacts DEF Fits
  <2> QED
    BY <2>1, <2>2 DEF SameShape, Live
<1>4. ASSUME NEW w \in Workers,
             \/ Edit(w) \/ LockTarget(w) \/ StartMove(w) \/ FinishMove(w) \/ Retire(w)
             \/ StartRefresh(w) \/ Abort(w)
      PROVE  cat' = cat
  BY <1>4 DEF Edit, LockTarget, StartMove, FinishMove, Retire, StartRefresh, Abort,
     Rollback, RollbackStale, CommitRows, store
<1>5. ASSUME NEW w \in Workers, NEW c \in Cats,
             \/ \E version \in Claims : BeginEdit(w, c, version)
             \/ \E version \in Claims : BeginDelete(w, c, version)
             \/ \E p \in Cats : BeginCreate(w, c, p)
             \/ \E t \in Cats, version \in Claims : BeginMove(w, c, t, version)
      PROVE  cat' = cat
  BY <1>5 DEF BeginEdit, BeginDelete, BeginCreate, BeginMove, LockSubject, Begin
<1>6. CASE UNCHANGED vars
  BY <1>1, <1>6 DEF vars
<1> QED
  BY <1>1, <1>2, <1>3, <1>4, <1>5, <1>6 DEF Next

(* A tree that keeps its shape keeps its paths.                            *)
LEMMA SameShapeKeepsPaths ==
    ASSUME TypeOK, LiveParent, DepthMatchesPath, LiveParent', PathFollowsParent, SameShape,
           TypeOK'
    PROVE  PathFollowsParent'
<1> SUFFICES ASSUME NEW c \in Cats, cat'[c].life = "live"
             PROVE  cat'[c].path = IF cat'[c].parent = None THEN <<c>>
                                   ELSE Append(cat'[cat'[c].parent].path, c)
  BY DEF PathFollowsParent, Live
<1>1. CASE cat'[c].parent = None
  BY <1>1 DEF SameShape, PathFollowsParent, Live
<1>2. CASE cat'[c].parent # None
  <2> DEFINE q == cat'[c].parent
  <2>1. Live(c) /\ cat[c].parent = q /\ cat'[c].path = cat[c].path
    BY <1>2 DEF SameShape
  <2>2. q \in Cats /\ Live(q)
    BY <1>2, <2>1, PathFacts
  <2>3. cat'[q].life = "live"
    BY <1>2 DEF LiveParent, Live
  <2>4. cat'[q].path = cat[q].path
    BY <2>2, <2>3 DEF SameShape, Live
  <2> QED
    BY <1>2, <2>1, <2>2, <2>4 DEF PathFollowsParent
<1> QED
  BY <1>1, <1>2

(* A creation under a parent adds its row, marks the parent as no leaf,    *)
(* and changes nothing else.                                               *)
LEMMA CreateChildFacts ==
    ASSUME TreeIInv, NEW w \in Workers, CreateChild(w)
    PROVE  LET c == subject[w]
               p == target[w]
           IN  /\ c \in Cats /\ p \in Cats /\ p # c /\ cat[c].life = "unborn" /\ Live(p)
               /\ cat'[c].life = "live" /\ cat'[c].parent = p
               /\ cat'[c].path = Append(cat[p].path, c) /\ cat'[c].leaf = TRUE
               /\ \A d \in Cats \ {c} : /\ cat'[d].life = cat[d].life
                                        /\ cat'[d].parent = cat[d].parent
                                        /\ cat'[d].path = cat[d].path
               /\ \A d \in Cats \ {c, p} : cat'[d] = cat[d]
               /\ cat'[p].leaf = FALSE
<1> USE TreeFacts
<1> DEFINE c == subject[w]
           p == target[w]
           child == ChildRow(c, p)
           placed == [cat EXCEPT ![c] = child]
           leaf == Childless(placed, p)
<1>1. /\ c \in Cats /\ p \in Cats /\ lock[p] = w /\ cat[c].life = "unborn" /\ Live(p)
      /\ p # c
  BY NoneAssumption DEF CreateChild, Holds, LocksAreLive, Live
<1>2. /\ child.life = "live" /\ child.parent = p
      /\ child.path = Append(cat[p].path, c) /\ child.leaf = TRUE
  BY DEF ChildRow
<1>3. cat' = [placed EXCEPT ![p].leaf = leaf]
  BY DEF CreateChild, CommitRows, Refreshed
<1> HIDE DEF child
<1>4. /\ placed \in [Cats -> {child} \cup Row] /\ placed[c] = child
      /\ \A d \in Cats \ {c} : placed[d] = cat[d]
  BY <1>1 DEF TypeOK
<1>5. leaf = FALSE
  BY <1>1, <1>2, <1>4 DEF Childless
<1> HIDE DEF placed, leaf
<1>6. \A d \in Cats \ {p} : cat'[d] = placed[d]
  BY <1>3, <1>4
<1>7. cat'[p] = [cat[p] EXCEPT !.leaf = leaf] /\ cat[p] \in Row
  BY <1>1, <1>3, <1>4 DEF TypeOK
<1>8. /\ cat'[p].life = cat[p].life /\ cat'[p].parent = cat[p].parent
      /\ cat'[p].path = cat[p].path /\ cat'[p].leaf = leaf
  BY <1>7 DEF Row
<1> QED
  BY <1>1, <1>2, <1>4, <1>5, <1>6, <1>8

(* A new child has its parent's path and itself.                           *)
LEMMA CreateChildKeepsPaths ==
    ASSUME TreeIInv, PathFollowsParent, NEW w \in Workers, CreateChild(w)
    PROVE  PathFollowsParent'
<1> USE TreeFacts
<1> DEFINE c == subject[w]
           p == target[w]
<1>1. /\ c \in Cats /\ p \in Cats /\ p # c /\ cat[c].life = "unborn" /\ Live(p)
      /\ cat'[c].parent = p /\ cat'[c].path = Append(cat[p].path, c)
      /\ \A d \in Cats \ {c} : /\ cat'[d].life = cat[d].life
                               /\ cat'[d].parent = cat[d].parent
                               /\ cat'[d].path = cat[d].path
  BY CreateChildFacts
<1> SUFFICES ASSUME NEW d \in Cats, cat'[d].life = "live"
             PROVE  cat'[d].path = IF cat'[d].parent = None THEN <<d>>
                                   ELSE Append(cat'[cat'[d].parent].path, d)
  BY DEF PathFollowsParent, Live
<1>2. CASE d = c
  BY <1>1, <1>2, NoneAssumption
<1>3. CASE d # c
  <2>1. /\ Live(d) /\ cat'[d].parent = cat[d].parent /\ cat'[d].path = cat[d].path
    BY <1>1, <1>3 DEF Live
  <2>2. cat[d].parent # None => /\ cat[d].parent \in Cats \ {c}
                                /\ cat'[cat[d].parent].path = cat[cat[d].parent].path
    <3>1. cat[d].parent # None => cat[d].parent \in Cats /\ Live(cat[d].parent)
      BY <2>1, PathFacts
    <3> QED
      BY <1>1, <3>1 DEF Live
  <2> QED
    BY <2>1, <2>2 DEF PathFollowsParent
<1> QED
  BY <1>2, <1>3

(* The row of a subtree lies below its root: it is the root, or its parent *)
(* is in the subtree as well and its path goes one id on.                  *)
LEMMA SubtreeFacts ==
    ASSUME TypeOK, LiveParent, DepthMatchesPath, PathFollowsParent,
           NEW w \in Workers, subject[w] \in Cats, Live(subject[w]),
           NEW c \in Cats, Live(c), c # subject[w]
    PROVE  /\ InSubtree(w, c) => cat[c].parent # None
           /\ cat[c].parent # None =>
                (InSubtree(w, c) <=> InSubtree(w, cat[c].parent))
<1> DEFINE s == subject[w]
           old == cat[s].path
           q == cat[c].parent
<1>1. old \in Seq(Cats) /\ Len(old) > 0 /\ old[Len(old)] = s
  BY PathFacts
<1>2. cat[c].path = IF q = None THEN <<c>> ELSE Append(cat[q].path, c)
  BY DEF PathFollowsParent
<1>3. ASSUME q = None, InSubtree(w, c) PROVE FALSE
  BY <1>1, <1>2, <1>3, RootPrefix DEF InSubtree
<1>4. ASSUME q # None PROVE InSubtree(w, c) <=> InSubtree(w, q)
  <2>1. q \in Cats /\ Live(q) /\ cat[q].path \in Seq(Cats)
    BY <1>4, PathFacts
  <2>2. StartsWith(Append(cat[q].path, c), old) <=> StartsWith(cat[q].path, old)
    BY <1>1, <2>1, PrefixFacts
  <2> QED
    BY <1>2, <1>4, <2>1, <2>2 DEF InSubtree
<1> QED
  BY <1>3, <1>4

(* A moved path, of the root of the subtree and of a child in it.          *)
LEMMA MovedPaths ==
    ASSUME TypeOK, LiveParent, DepthMatchesPath, PathFollowsParent,
           NEW w \in Workers, subject[w] \in Cats, target[w] \in Cats,
           Live(subject[w]), Live(target[w]), NEW c \in Cats, InSubtree(w, c)
    PROVE  MovedRow(w, c).path =
               IF c = subject[w] THEN Append(cat[target[w]].path, c)
               ELSE Append(MovedRow(w, cat[c].parent).path, c)
<1> DEFINE s == subject[w]
           old == cat[s].path
           new == Append(cat[target[w]].path, s)
           Path(d) == Rebased(cat[d].path, old, new)
<1>1. /\ old \in Seq(Cats) /\ cat[target[w]].path \in Seq(Cats) /\ Live(c)
      /\ cat[c].path \in Seq(Cats)
  BY PathFacts DEF InSubtree
<1>2. new \in Seq(Cats)
  BY <1>1, AppendProperties
<1>3. ASSUME NEW d \in Cats PROVE MovedRow(w, d).path = Path(d)
  BY DEF MovedRow, Rebased, TypeOK, Row
<1>4. CASE c = s
  BY <1>1, <1>2, <1>3, <1>4, RebasedFacts
<1>5. CASE c # s
  <2> DEFINE q == cat[c].parent
  <2>1. q # None /\ InSubtree(w, q)
    BY <1>1, <1>5, SubtreeFacts
  <2>2. q \in Cats /\ Live(q) /\ cat[q].path \in Seq(Cats)
    BY <1>1, <2>1, PathFacts
  <2>3. StartsWith(cat[q].path, old) /\ cat[c].path = Append(cat[q].path, c)
    BY <1>1, <2>1 DEF InSubtree, PathFollowsParent
  <2>4. Path(c) = Append(Path(q), c)
    <3> DEFINE p == cat[q].path
    <3>1. p \in Seq(Cats) /\ StartsWith(p, old) /\ cat[c].path = Append(p, c)
      BY <2>2, <2>3
    <3> HIDE DEF old, new, p
    <3>2. Rebased(Append(p, c), old, new) = Append(Rebased(p, old, new), c)
      BY <1>1, <1>2, <3>1, RebasedFacts
    <3> QED
      BY <3>1, <3>2 DEF p
  <2> QED
    BY <1>3, <1>5, <2>2, <2>4
<1> QED
  BY <1>4, <1>5

(* A move publishes a tree whose paths follow the parents.                 *)
LEMMA CommitMoveKeepsPaths ==
    ASSUME TreeIInv, TreeIInv', PathFollowsParent, NEW w \in Workers, MovesSubtree(w),
           Commit(w), kind[w] = "move", cat' # cat
    PROVE  PathFollowsParent'
<1> USE TreeFacts
<1> DEFINE s == subject[w]
           t == target[w]
           In(c) == InSubtree(w, c)
<1>1. /\ phase[w] \in {"written", "refreshing"}
      /\ \A c \in Cats : /\ cat'[c].life = View(w)[c].life
                         /\ cat'[c].parent = View(w)[c].parent
                         /\ cat'[c].path = View(w)[c].path
  BY CommitFacts
<1>2. s \in Cats /\ t \in Cats /\ Live(s) /\ Live(t)
  <2>1. s \in Cats /\ t \in Cats /\ lock[s] = w /\ lock[t] = w
    BY <1>1 DEF Holds
  <2> QED
    BY <2>1, NoneAssumption DEF LocksAreLive
<1>3. /\ ~StartsWith(cat[t].path, cat[s].path)
      /\ DOMAIN draft[w] = {c \in Cats : In(c)}
      /\ \A c \in Cats : In(c) =>
            /\ draft[w][c].path = MovedRow(w, c).path
            /\ draft[w][c].parent = IF c = s THEN t ELSE cat[c].parent
  BY <1>1 DEF MovesSubtree
<1>4. ~In(t) /\ In(s)
  BY <1>2, <1>3, PathFacts, PrefixFacts DEF InSubtree
<1>5. \A c \in Cats : In(c) =>
         /\ cat'[c].path = MovedRow(w, c).path
         /\ cat'[c].parent = IF c = s THEN t ELSE cat[c].parent
  BY <1>1, <1>3, ViewFacts
<1>6. \A c \in Cats : ~In(c) =>
         /\ cat'[c].path = cat[c].path /\ cat'[c].parent = cat[c].parent
         /\ cat'[c].life = cat[c].life
  BY <1>1, <1>3, ViewFacts
<1> HIDE DEF In
<1> SUFFICES ASSUME NEW c \in Cats, cat'[c].life = "live"
             PROVE  cat'[c].path = IF cat'[c].parent = None THEN <<c>>
                                   ELSE Append(cat'[cat'[c].parent].path, c)
  BY DEF PathFollowsParent, Live
<1>7. Live(c)
  BY <1>6 DEF In, InSubtree, Live
<1>8. CASE c = s
  <2>1. cat'[c].path = Append(cat[t].path, c)
    BY <1>2, <1>4, <1>5, <1>8, MovedPaths DEF In
  <2> QED
    BY <1>2, <1>4, <1>5, <1>6, <1>8, <2>1, NoneAssumption
<1>9. CASE c # s /\ In(c)
  <2> DEFINE q == cat[c].parent
  <2>1. q # None /\ In(q) /\ q \in Cats
    BY <1>2, <1>7, <1>9, SubtreeFacts, PathFacts DEF In
  <2>2. cat'[c].path = Append(MovedRow(w, q).path, c)
    BY <1>2, <1>5, <1>9, MovedPaths DEF In
  <2> QED
    BY <1>5, <1>9, <2>1, <2>2
<1>10. CASE c # s /\ ~In(c)
  <2> DEFINE q == cat[c].parent
  <2>1. q # None => q \in Cats /\ ~In(q)
    BY <1>2, <1>7, <1>10, SubtreeFacts, PathFacts DEF In
  <2> QED
    BY <1>6, <1>7, <1>10, <2>1 DEF PathFollowsParent
<1> QED
  BY <1>8, <1>9, <1>10

(* What worker w knows of its transaction.                                 *)
Kept(w) ==
    UNCHANGED <<phase[w], kind[w], subject[w], target[w], snap[w], leafView[w], draft[w]>>

(* The steps of worker v.                                                  *)
Step(v) ==
    \/ CreateChild(v) \/ Edit(v) \/ LockTarget(v) \/ StartMove(v) \/ FinishMove(v)
    \/ Retire(v) \/ StartRefresh(v) \/ Commit(v) \/ Abort(v)
    \/ \E c \in Cats :
        \/ \E version \in Claims : BeginEdit(v, c, version)
        \/ \E version \in Claims : BeginDelete(v, c, version)
        \/ \E p \in Cats : BeginCreate(v, c, p)
        \/ \E t \in Cats, version \in Claims : BeginMove(v, c, t, version)

(* A step is a new root's, which no transaction notices, or one worker's.  *)
LEMMA StepCases ==
    ASSUME TypeOK, [Next]_vars
    PROVE  \/ SameShape /\ \A w \in Workers : Kept(w)
           \/ \E v \in Workers : Step(v)
<1>1. ASSUME NEW c \in Cats, CreateRoot(c) PROVE \A w \in Workers : Kept(w)
  BY <1>1 DEF CreateRoot, request, Kept
<1>2. CASE UNCHANGED vars
  BY <1>2 DEF vars, Kept, SameShape, Live
<1>3. CASE \E v \in Workers : Step(v)
  BY <1>3
<1> QED
  BY <1>1, <1>2, <1>3, RootShape DEF Next, Step

(* Another worker's step.                                                  *)
LEMMA OtherKept ==
    ASSUME TypeOK, NEW v \in Workers, NEW w \in Workers \ {v}, Step(v)
    PROVE  Kept(w)
<1>1. draft = [u \in Workers |-> draft[u]]
  BY DEF TypeOK
<1>2. ASSUME NEW a, Close(v, a) PROVE Kept(w)
  BY <1>1, <1>2 DEF Close, Kept, TypeOK
<1>3. ASSUME CreateChild(v) \/ Edit(v) \/ Commit(v) \/ Abort(v) PROVE Kept(w)
  BY <1>2, <1>3 DEF CreateChild, Edit, Commit, Abort, CommitRows, Rollback, RollbackStale
<1>4. ASSUME LockTarget(v) PROVE Kept(w)
  BY <1>2, <1>4 DEF LockTarget, Rollback, request, Kept, TypeOK
<1>5. ASSUME StartMove(v) \/ StartRefresh(v) PROVE Kept(w)
  BY <1>5 DEF StartMove, StartRefresh, store, request, Kept, TypeOK
<1>6. ASSUME FinishMove(v) PROVE Kept(w)
  BY <1>1, <1>6 DEF FinishMove, request, Kept, TypeOK
<1>7. ASSUME Retire(v) PROVE Kept(w)
  BY <1>1, <1>2, <1>7 DEF Retire, Rollback, RollbackStale, request, Kept, TypeOK
<1>8. ASSUME NEW operation, NEW c, NEW t, NEW version, Begin(v, operation, c, t, version)
      PROVE  Kept(w)
  BY <1>8 DEF Begin, Kept, TypeOK
<1> QED
  BY <1>3, <1>4, <1>5, <1>6, <1>7, <1>8
     DEF Step, BeginEdit, BeginDelete, BeginCreate, BeginMove, LockSubject

(* A move underway is not disturbed while the tree keeps its shape.        *)
LEMMA MoveUndisturbed ==
    ASSUME TreeIInv, TreeIInv', SameShape, NEW w \in Workers, Kept(w), MovesSubtree(w)
    PROVE  MovesSubtree(w)'
<1> SUFFICES ASSUME kind[w] = "move", phase[w] # "locked"
             PROVE  MovesSubtree(w)'
  BY DEF MovesSubtree, Kept
<1> USE TreeFacts
<1> DEFINE s == subject[w]
           t == target[w]
<1>1. TypeOK' /\ LocksAreLive' /\ Holds(w)' /\ Fits(w)' /\ DepthMatchesPath' /\ LiveParent'
  BY DEF TreeIInv
<1>2. /\ s \in Cats /\ t \in Cats /\ Live(s) /\ Live(t)
      /\ cat'[s].life = "live" /\ cat'[t].life = "live"
  <2>1. s \in Cats /\ t \in Cats /\ lock[s] = w /\ lock[t] = w
    BY DEF Holds
  <2>2. lock'[s] = w /\ lock'[t] = w
    BY <1>1 DEF Holds, Kept
  <2> QED
    BY <1>1, <2>1, <2>2, NoneAssumption DEF LocksAreLive, Live
<1>3. cat'[s].path = cat[s].path /\ cat'[t].path = cat[t].path
  BY <1>2 DEF SameShape, Live
<1>4. ASSUME NEW c \in Cats, InSubtree(w, c)' PROVE InSubtree(w, c)
  <2>1. cat'[c].life = "live" /\ StartsWith(cat'[c].path, cat[s].path)
    BY <1>3, <1>4 DEF InSubtree, Live, Kept
  <2>2. CASE Live(c) /\ cat'[c].path = cat[c].path
    BY <2>1, <2>2 DEF InSubtree
  <2>3. CASE cat[c].life = "unborn" /\ cat'[c].path = <<c>>
    <3>1. /\ cat[s].path \in Seq(Cats) /\ Len(cat[s].path) > 0
          /\ cat[s].path[Len(cat[s].path)] = s
      BY <1>2, PathFacts
    <3>2. s = c
      BY <2>1, <2>3, <3>1, RootPrefix
    <3> QED
      BY <1>2, <2>3, <3>2 DEF Live
  <2> QED
    BY <2>1, <2>2, <2>3 DEF SameShape
<1>5. ASSUME phase[w] \in {"written", "refreshing"}
      PROVE  /\ DOMAIN draft'[w] = {c \in Cats : InSubtree(w, c)'}
             /\ \A c \in DOMAIN draft'[w] :
                   /\ draft'[w][c].path = MovedRow(w, c)'.path
                   /\ draft'[w][c].parent = IF c = s THEN t ELSE cat'[c].parent
  <2>1. /\ DOMAIN draft[w] = {c \in Cats : InSubtree(w, c)}
        /\ \A c \in DOMAIN draft[w] :
             /\ draft[w][c].path = MovedRow(w, c).path
             /\ draft[w][c].parent = IF c = s THEN t ELSE cat[c].parent
    BY <1>5 DEF MovesSubtree
  <2>2. ASSUME NEW c \in Cats, InSubtree(w, c)
        PROVE  /\ InSubtree(w, c)' /\ cat'[c].parent = cat[c].parent
               /\ MovedRow(w, c)'.path = MovedRow(w, c).path
    <3>1. lock'[c] = w
      BY <1>1, <2>1, <2>2 DEF Fits, Kept
    <3>2. cat'[c].life = "live"
      BY <1>1, <3>1, NoneAssumption DEF LocksAreLive, Live
    <3>3. cat'[c].path = cat[c].path /\ cat'[c].parent = cat[c].parent
      BY <2>2, <3>2 DEF SameShape, InSubtree, Live
    <3>4. cat[c] \in Row /\ cat'[c] \in Row
      BY <1>1 DEF TypeOK
    <3> QED
      BY <1>3, <2>2, <3>2, <3>3, <3>4 DEF InSubtree, MovedRow, Live, Kept, Row
  <2> QED
    BY <1>4, <2>1, <2>2 DEF Kept
<1> QED
  BY <1>3, <1>4, <1>5 DEF MovesSubtree, Kept

(* A worker's own step keeps what it says of its move.                     *)
LEMMA OwnMove ==
    ASSUME TreeIInv, TreeIInv', PathInv, NEW w \in Workers, Step(w)
    PROVE  MovesSubtree(w)'
<1> USE TreeFacts
<1>1. ASSUME NEW a, Close(w, a) PROVE MovesSubtree(w)'
  <2>1. kind'[w] = "none"
    BY <1>1 DEF Close, TypeOK
  <2> QED
    BY <2>1 DEF MovesSubtree
<1>2. ASSUME CreateChild(w) \/ Edit(w) \/ Commit(w) \/ Abort(w) PROVE MovesSubtree(w)'
  BY <1>1, <1>2 DEF CreateChild, Edit, Commit, Abort, CommitRows, Rollback, RollbackStale
<1>3. ASSUME LockTarget(w) PROVE MovesSubtree(w)'
  <2>1. CASE StartsWith(cat[target[w]].path, cat[subject[w]].path)
    BY <1>1, <1>3, <2>1 DEF LockTarget, Rollback
  <2>2. CASE ~StartsWith(cat[target[w]].path, cat[subject[w]].path)
    <3>1. phase'[w] = "placed" /\ cat' = cat /\ subject' = subject /\ target' = target
      BY <1>3, <2>2 DEF LockTarget, request, TypeOK
    <3> QED
      BY <2>2, <3>1 DEF MovesSubtree
  <2> QED
    BY <2>1, <2>2
<1>4. ASSUME StartMove(w) PROVE MovesSubtree(w)'
  <2>1. /\ phase[w] = "placed" /\ phase'[w] = "moving" /\ snap'[w] = {c \in Cats : InSubtree(w, c)}
        /\ cat' = cat /\ subject' = subject /\ target' = target /\ kind' = kind
    BY <1>4 DEF StartMove, store, request, TypeOK
  <2>2. \A c \in Cats : InSubtree(w, c)' <=> InSubtree(w, c)
    BY <2>1 DEF InSubtree, Live
  <2>3. kind[w] = "move" => ~StartsWith(cat[target[w]].path, cat[subject[w]].path)
    BY <2>1 DEF PathInv, MovesSubtree
  <2> QED
    BY <2>1, <2>2, <2>3 DEF MovesSubtree
<1>5. ASSUME FinishMove(w) PROVE MovesSubtree(w)'
  <2> DEFINE s == subject[w]
             t == target[w]
             moved == {c \in snap[w] : InSubtree(w, c)}
             wrote == [c \in moved |-> IF c = s THEN [MovedRow(w, c) EXCEPT !.parent = t]
                                                ELSE MovedRow(w, c)]
  <2>1. /\ phase[w] = "moving" /\ phase'[w] = "written" /\ draft'[w] = wrote
        /\ cat' = cat /\ subject' = subject /\ target' = target /\ kind' = kind
    BY <1>5 DEF FinishMove, request, TypeOK
  <2>2. kind[w] = "move"
    BY <2>1 DEF Holds, TypeOK, Kinds
  <2>3. s \in Cats /\ t \in Cats /\ Live(s) /\ Live(t)
    <3>1. s \in Cats /\ t \in Cats /\ lock[s] = w /\ lock[t] = w
      BY <2>1, <2>2 DEF Holds
    <3> QED
      BY <3>1, NoneAssumption DEF LocksAreLive
  <2>4. /\ ~StartsWith(cat[t].path, cat[s].path)
        /\ moved = {c \in Cats : InSubtree(w, c)}
    BY <2>1, <2>2 DEF PathInv, MovesSubtree, TypeOK
  <2>5. \A c \in Cats : InSubtree(w, c)' <=> InSubtree(w, c)
    BY <2>1 DEF InSubtree, Live
  <2>6. \A c \in Cats : MovedRow(w, c)' = MovedRow(w, c)
    BY <2>1 DEF MovedRow
  <2>7. ASSUME NEW c \in moved
        PROVE  /\ wrote[c].path = MovedRow(w, c).path
               /\ wrote[c].parent = IF c = s THEN t ELSE cat[c].parent
    <3> DEFINE row == MovedRow(w, c)
    <3>1. row \in Row /\ row.parent = cat[c].parent
      BY <2>3, <2>4, MovedRowFits
    <3> HIDE DEF row
    <3>2. [row EXCEPT !.parent = t].path = row.path /\ [row EXCEPT !.parent = t].parent = t
      BY <3>1 DEF Row
    <3>3. wrote[c] = IF c = s THEN [row EXCEPT !.parent = t] ELSE row
      BY DEF row
    <3> HIDE DEF wrote
    <3> QED
      BY <3>1, <3>2, <3>3 DEF row
  <2>8. DOMAIN wrote = moved
    OBVIOUS
  <2> HIDE DEF wrote, moved
  <2> QED
    BY <2>1, <2>4, <2>5, <2>6, <2>7, <2>8 DEF MovesSubtree
<1>6. ASSUME Retire(w) PROVE MovesSubtree(w)'
  BY <1>1, <1>6 DEF Retire, Rollback, RollbackStale, request, MovesSubtree
<1>7. ASSUME StartRefresh(w) PROVE MovesSubtree(w)'
  <2>1. /\ phase[w] = "written" /\ phase'[w] = "refreshing" /\ draft' = draft
        /\ cat' = cat /\ subject' = subject /\ target' = target /\ kind' = kind
    BY <1>7 DEF StartRefresh, store, request, TypeOK
  <2>2. \A c \in Cats : /\ InSubtree(w, c)' <=> InSubtree(w, c)
                        /\ MovedRow(w, c)' = MovedRow(w, c)
    BY <2>1 DEF InSubtree, Live, MovedRow
  <2>3. MovesSubtree(w)
    BY DEF PathInv
  <2>4. kind[w] = "move" =>
           /\ ~StartsWith(cat[target[w]].path, cat[subject[w]].path)
           /\ DOMAIN draft[w] = {c \in Cats : InSubtree(w, c)}
           /\ \A c \in DOMAIN draft[w] :
                 /\ draft[w][c].path = MovedRow(w, c).path
                 /\ draft[w][c].parent = IF c = subject[w] THEN target[w] ELSE cat[c].parent
    BY <2>1, <2>3 DEF MovesSubtree
  <2> HIDE DEF MovesSubtree
  <2> QED
    BY <2>1, <2>2, <2>4 DEF MovesSubtree
<1>8. ASSUME NEW operation, NEW c, NEW t, NEW version, Begin(w, operation, c, t, version)
      PROVE  MovesSubtree(w)'
  BY <1>8 DEF Begin, MovesSubtree, TypeOK
<1> QED
  BY <1>2, <1>3, <1>4, <1>5, <1>6, <1>7, <1>8
     DEF Step, BeginEdit, BeginDelete, BeginCreate, BeginMove, LockSubject

(* Every step keeps the paths, as long as moves are alone.                 *)
LEMMA PathStep ==
    ASSUME TreeIInv, TreeIInv', PathInv, MovesAlone, [Next]_vars
    PROVE  PathInv'
<1> USE TreeFacts
<1>1. TypeOK' /\ LiveParent'
  BY DEF TreeIInv
<1>2. PathFollowsParent'
  <2>1. CASE SameShape
    BY <1>1, <2>1, SameShapeKeepsPaths DEF PathInv
  <2>2. ASSUME NEW w \in Workers, CreateChild(w) PROVE PathFollowsParent'
    BY <2>2, CreateChildKeepsPaths DEF PathInv
  <2>3. ASSUME NEW w \in Workers, Commit(w), kind[w] = "move", cat' # cat
        PROVE  PathFollowsParent'
    BY <2>3, CommitMoveKeepsPaths DEF PathInv
  <2> QED
    BY <2>1, <2>2, <2>3, ShapeStep
<1>3. ASSUME NEW w \in Workers PROVE MovesSubtree(w)'
  <2>1. CASE Step(w)
    BY <2>1, OwnMove
  <2>2. CASE SameShape /\ Kept(w)
    BY <2>2, MoveUndisturbed DEF PathInv
  <2>3. ASSUME NEW v \in Workers \ {w}, Step(v), ~SameShape PROVE MovesSubtree(w)'
    <3>1. Kept(w)
      BY <2>3, OtherKept
    <3>2. PICK u \in Workers : CreateChild(u) \/ (Commit(u) /\ kind[u] = "move")
      BY <2>3, ShapeStep
    <3>3. kind[u] \in {"create", "move"} /\ ~Kept(u)
      <4>1. Close(u, FALSE) \/ Close(u, TRUE)
        BY <3>2 DEF CreateChild, Commit, CommitRows, RollbackStale
      <4>2. phase[u] # "idle" /\ phase'[u] = "idle"
        BY <3>2, <4>1 DEF Close, CreateChild, Commit, TypeOK
      <4> QED
        BY <3>2, <4>2 DEF CreateChild, Kept
    <3>4. kind[w] # "move"
      BY <3>1, <3>3 DEF MovesAlone
    <3> QED
      BY <3>1, <3>4 DEF MovesSubtree, Kept
  <2>4. Kept(w) \/ Step(w)
    BY StepCases, OtherKept
  <2> QED
    BY <2>1, <2>2, <2>3, <2>4, StepCases
<1> QED
  BY <1>2, <1>3 DEF PathInv

-------------------------------------------------------------------------------
(* Leaf flags.                                                             *)

(* Two tables of rows give d the same children.                            *)
LEMMA SameChildren ==
    ASSUME NEW rows, NEW others, NEW d \in Cats,
           \A e \in Cats : rows[e].life = "live" /\ rows[e].parent = d
                           <=> others[e].life = "live" /\ others[e].parent = d
    PROVE  Childless(rows, d) <=> Childless(others, d)
  BY DEF Childless

(* A new root is a leaf, and the child of nobody.                          *)
LEMMA CreateRootKeepsLeaves ==
    ASSUME TreeIInv, LeafIffChildless, NEW c \in Cats, CreateRoot(c)
    PROVE  LeafIffChildless'
<1> USE TreeFacts
<1>1. /\ cat[c].life = "unborn" /\ cat'[c].parent = None /\ cat'[c].leaf = TRUE
      /\ \A d \in Cats \ {c} : cat'[d] = cat[d]
  BY DEF CreateRoot, Mintable, TypeOK
<1> SUFFICES ASSUME NEW d \in Cats, cat'[d].life = "live"
             PROVE  cat'[d].leaf <=> Childless(cat', d)
  BY DEF LeafIffChildless, Live, Childless
<1>2. CASE d = c
  <2>1. \A e \in Cats : cat'[e].life = "live" => cat'[e].parent # c
    BY <1>1, NoneAssumption DEF LiveParent, Live
  <2> QED
    BY <1>1, <1>2, <2>1 DEF Childless
<1>3. CASE d # c
  <2>1. Live(d) /\ cat'[d].leaf = cat[d].leaf
    BY <1>1, <1>3 DEF Live
  <2>2. Childless(cat', d) <=> Childless(cat, d)
    BY <1>1, NoneAssumption, SameChildren
  <2> QED
    BY <2>1, <2>2 DEF LeafIffChildless
<1> QED
  BY <1>2, <1>3

(* A new child is a leaf, and its parent is none.                          *)
LEMMA CreateChildKeepsLeaves ==
    ASSUME TreeIInv, LeafIffChildless, NEW w \in Workers, CreateChild(w)
    PROVE  LeafIffChildless'
<1> USE TreeFacts
<1> DEFINE c == subject[w]
           p == target[w]
<1>1. /\ c \in Cats /\ p \in Cats /\ p # c /\ cat[c].life = "unborn" /\ Live(p)
      /\ cat'[c].life = "live" /\ cat'[c].parent = p /\ cat'[c].leaf = TRUE
      /\ \A d \in Cats \ {c} : cat'[d].life = cat[d].life /\ cat'[d].parent = cat[d].parent
      /\ \A d \in Cats \ {c, p} : cat'[d] = cat[d]
      /\ cat'[p].leaf = FALSE
  BY CreateChildFacts
<1> SUFFICES ASSUME NEW d \in Cats, cat'[d].life = "live"
             PROVE  cat'[d].leaf <=> Childless(cat', d)
  BY DEF LeafIffChildless, Live, Childless
<1>2. CASE d = c
  <2>1. \A e \in Cats : cat'[e].life = "live" => cat'[e].parent # c
    BY <1>1, NoneAssumption DEF LiveParent, Live
  <2> QED
    BY <1>1, <1>2, <2>1 DEF Childless
<1>3. CASE d = p
  BY <1>1, <1>3 DEF Childless
<1>4. CASE d # c /\ d # p
  <2>1. Live(d) /\ cat'[d].leaf = cat[d].leaf
    BY <1>1, <1>4 DEF Live
  <2>2. Childless(cat', d) <=> Childless(cat, d)
    BY <1>1, <1>4, SameChildren
  <2> QED
    BY <2>1, <2>2 DEF LeafIffChildless
<1> QED
  BY <1>2, <1>3, <1>4

(* Both parents of a moved or retired row get the flag they should have.   *)
LEMMA CommitKeepsLeaves ==
    ASSUME TreeIInv, LeafIffChildless, NEW w \in Workers, Commit(w), cat' # cat,
           MovesSubtree(w), SeesLeaf(w)
    PROVE  LeafIffChildless'
<1> USE TreeFacts
<1> DEFINE s == subject[w]
           t == target[w]
           p == OldParent(w)
           mine == DOMAIN draft[w]
<1>1. /\ kind[w] \in {"move", "delete"} /\ phase[w] \in {"written", "refreshing"}
      /\ \A c \in Cats : /\ cat'[c].life = View(w)[c].life
                         /\ cat'[c].parent = View(w)[c].parent
      /\ \A c \in Cats : cat'[c].leaf =
            IF c = t THEN Childless(View(w), c)
            ELSE IF c = p THEN leafView[w] ELSE View(w)[c].leaf
  BY CommitFacts
<1>2. s \in Cats /\ cat[s].parent = p
  BY <1>1 DEF Holds, OldParent
<1>3. \A c \in Cats : /\ c \in mine => View(w)[c] = draft[w][c] /\ Live(c)
                      /\ c \notin mine => View(w)[c] = cat[c]
  BY ViewFacts
<1>4. \A c \in Cats : View(w)[c].leaf = cat[c].leaf
  BY <1>3 DEF SeesLeaf
<1>5. \A c \in Cats \ {s} : View(w)[c].life = cat[c].life /\ View(w)[c].parent = cat[c].parent
  <2> SUFFICES ASSUME NEW c \in Cats \ {s}, c \in mine
               PROVE  View(w)[c].life = cat[c].life /\ View(w)[c].parent = cat[c].parent
    BY <1>3
  <2>1. kind[w] = "move"
    BY <1>1 DEF Fits
  <2>2. draft[w][c].life = "live" /\ cat[c].life = "live"
    BY <1>3, <2>1 DEF Fits, Live
  <2>3. draft[w][c].parent = cat[c].parent
    BY <1>1, <2>1 DEF MovesSubtree
  <2> QED
    BY <1>3, <2>2, <2>3
<1>6. View(w)[s].life = "live" => View(w)[s].parent \in {p, t}
  <2>1. CASE s \in mine
    <3>1. kind[w] = "move" => draft[w][s].parent \in {cat[s].parent, t}
      BY <2>1 DEF Fits
    <3>2. kind[w] = "delete" => draft[w][s].life # "live"
      BY <2>1 DEF Fits
    <3> QED
      BY <1>1, <1>2, <1>3, <2>1, <3>1, <3>2
  <2>2. CASE s \notin mine
    BY <1>2, <1>3, <2>2
  <2> QED
    BY <2>1, <2>2
<1>7. \A d \in Cats : Childless(cat', d) <=> Childless(View(w), d)
  BY <1>1, SameChildren
<1> SUFFICES ASSUME NEW d \in Cats, cat'[d].life = "live"
             PROVE  cat'[d].leaf <=> Childless(cat', d)
  BY DEF LeafIffChildless, Live, Childless
<1>8. CASE d = t
  <2>1. cat'[d].leaf = Childless(View(w), d)
    BY <1>1, <1>8
  <2> QED
    BY <1>7, <2>1
<1>9. CASE d # t /\ d = p
  <2>1. phase[w] = "refreshing"
    BY <1>9, NoneAssumption DEF Commit
  <2>2. leafView[w] = Childless(View(w), d)
    BY <1>9, <2>1 DEF SeesLeaf
  <2>3. cat'[d].leaf = leafView[w]
    BY <1>1, <1>9
  <2> QED
    BY <1>7, <2>2, <2>3
<1>10. CASE d # t /\ d # p
  <2>1. cat'[d].leaf = cat[d].leaf
    BY <1>1, <1>4, <1>10
  <2>2. Live(d)
    BY <1>1, <1>3 DEF Live
  <2>3. Childless(View(w), d) <=> Childless(cat, d)
    <3>1. \A e \in Cats : View(w)[e].life = "live" /\ View(w)[e].parent = d
                          <=> cat[e].life = "live" /\ cat[e].parent = d
      BY <1>2, <1>5, <1>6, <1>10
    <3> QED
      BY <3>1, SameChildren
  <2> QED
    BY <1>7, <2>1, <2>2, <2>3 DEF LeafIffChildless
<1> QED
  BY <1>8, <1>9, <1>10

(* A worker's own step keeps what it says of leaves.                       *)
LEMMA OwnLeaf ==
    ASSUME TreeIInv, TreeIInv', NEW w \in Workers, SeesLeaf(w), Step(w)
    PROVE  SeesLeaf(w)'
<1> USE TreeFacts
<1>1. ASSUME NEW a, Close(w, a) PROVE SeesLeaf(w)'
  <2>1. draft'[w] = NoRows /\ phase'[w] = "idle"
    <3>1. draft = [u \in Workers |-> draft[u]]
      BY DEF TypeOK
    <3> QED
      BY <1>1, <3>1 DEF Close, TypeOK
  <2> QED
    BY <2>1 DEF SeesLeaf, NoRows
<1>2. ASSUME CreateChild(w) \/ Edit(w) \/ Commit(w) \/ Abort(w) PROVE SeesLeaf(w)'
  BY <1>1, <1>2 DEF CreateChild, Edit, Commit, Abort, CommitRows, Rollback, RollbackStale
<1>3. ASSUME cat' = cat, draft' = draft, phase'[w] # "refreshing", kind'[w] = kind[w]
      PROVE  SeesLeaf(w)'
  BY <1>3 DEF SeesLeaf
<1>4. ASSUME LockTarget(w) PROVE SeesLeaf(w)'
  BY <1>1, <1>3, <1>4 DEF LockTarget, Rollback, request, TypeOK
<1>5. ASSUME StartMove(w) PROVE SeesLeaf(w)'
  BY <1>3, <1>5 DEF StartMove, store, request, TypeOK
<1>6. ASSUME FinishMove(w) PROVE SeesLeaf(w)'
  <2> DEFINE moved == {c \in snap[w] : InSubtree(w, c)}
             wrote == [c \in moved |-> IF c = subject[w] THEN [MovedRow(w, c) EXCEPT
                                                                  !.parent = target[w]]
                                                         ELSE MovedRow(w, c)]
  <2>1. /\ phase[w] = "moving" /\ phase'[w] = "written" /\ draft'[w] = wrote
        /\ cat' = cat /\ kind' = kind
    <3>1. draft = [u \in Workers |-> draft[u]]
      BY DEF TypeOK
    <3> QED
      BY <1>6, <3>1 DEF FinishMove, request, TypeOK
  <2>2. kind'[w] = "move"
    BY <2>1 DEF Holds, TypeOK, Kinds
  <2>3. ASSUME NEW c \in moved PROVE wrote[c].leaf = cat[c].leaf
    <3> DEFINE row == MovedRow(w, c)
    <3>1. cat[c] \in Row
      BY DEF TypeOK
    <3>2. row.leaf = cat[c].leaf /\ [row EXCEPT !.parent = target[w]].leaf = cat[c].leaf
      BY <3>1 DEF MovedRow, Row
    <3> QED
      BY <3>2
  <2>4. DOMAIN wrote = moved
    OBVIOUS
  <2> HIDE DEF wrote, moved
  <2> QED
    BY <2>1, <2>2, <2>3, <2>4 DEF SeesLeaf
<1>7. ASSUME Retire(w) PROVE SeesLeaf(w)'
  <2>1. CASE Rollback(w) \/ RollbackStale(w)
    BY <1>1, <2>1 DEF Rollback, RollbackStale
  <2>2. CASE ~(Rollback(w) \/ RollbackStale(w))
    <3> DEFINE c == subject[w]
               retired == [cat[c] EXCEPT !.life = "retired"]
    <3>1. /\ phase'[w] = "written" /\ draft'[w] = [d \in {c} |-> retired]
          /\ cat' = cat /\ c \in Cats
      <4>1. draft = [u \in Workers |-> draft[u]]
        BY DEF TypeOK
      <4> QED
        BY <1>7, <2>2, <4>1 DEF Retire, TypeOK, Holds
    <3>2. cat[c] \in Row
      BY <3>1 DEF TypeOK
    <3>3. retired.leaf = cat[c].leaf /\ retired.parent = cat[c].parent
      BY <3>2 DEF Row
    <3> HIDE DEF retired
    <3> QED
      BY <3>1, <3>3 DEF SeesLeaf
  <2> QED
    BY <2>1, <2>2
<1>8. ASSUME StartRefresh(w) PROVE SeesLeaf(w)'
  <2>1. /\ OldParent(w) # None /\ leafView'[w] = Childless(View(w), OldParent(w))
        /\ draft' = draft /\ cat' = cat /\ subject' = subject /\ kind' = kind
    BY <1>8 DEF StartRefresh, store, request, TypeOK
  <2>2. View(w)' = View(w) /\ OldParent(w)' = OldParent(w)
    BY <2>1 DEF View, OldParent
  <2>3. Childless(View(w), OldParent(w))' = Childless(View(w), OldParent(w))
    BY <2>2 DEF Childless
  <2> QED
    BY <2>1, <2>2, <2>3 DEF SeesLeaf
<1>9. ASSUME NEW operation, NEW c, NEW t, NEW version, Begin(w, operation, c, t, version)
      PROVE  SeesLeaf(w)'
  <2>1. phase[w] = "idle" /\ phase'[w] = "locked" /\ cat' = cat /\ draft' = draft
    BY <1>9 DEF Begin, TypeOK
  <2>2. DOMAIN draft[w] = {}
    BY <2>1 DEF Fits
  <2> QED
    BY <2>1, <2>2 DEF SeesLeaf
<1> QED
  BY <1>2, <1>4, <1>5, <1>6, <1>7, <1>8, <1>9
     DEF Step, BeginEdit, BeginDelete, BeginCreate, BeginMove, LockSubject

(* A transaction that wrote nothing has nothing to say of leaves.          *)
LEMMA NothingWritten ==
    ASSUME TreeIInv, NEW w \in Workers, Kept(w), kind[w] \notin {"create", "move", "delete"}
    PROVE  SeesLeaf(w)'
<1>1. phase[w] \notin {"written", "refreshing"}
  BY TreeFacts DEF Holds, TypeOK, Kinds
<1>2. DOMAIN draft[w] = {}
  BY <1>1, TreeFacts DEF Fits
<1> QED
  BY <1>1, <1>2 DEF SeesLeaf, Kept

(* A new root disturbs no refresh.                                         *)
LEMMA RootUnseen ==
    ASSUME TreeIInv, NEW c \in Cats, CreateRoot(c), NEW w \in Workers, SeesLeaf(w)
    PROVE  SeesLeaf(w)'
<1> USE TreeFacts
<1>1. /\ cat[c].life = "unborn" /\ cat'[c].parent = None
      /\ \A d \in Cats \ {c} : cat'[d] = cat[d]
      /\ UNCHANGED <<draft, phase, kind, subject, leafView>>
  BY DEF CreateRoot, Mintable, request, TypeOK
<1>2. \A d \in DOMAIN draft[w] : d \in Cats /\ d # c
  BY <1>1, ViewFacts DEF Live, TypeOK
<1>3. ASSUME phase[w] = "refreshing"
      PROVE  /\ OldParent(w)' = OldParent(w)
             /\ Childless(View(w), OldParent(w))' = Childless(View(w), OldParent(w))
  <2>1. subject[w] \in Cats /\ Live(subject[w])
    <3>1. kind[w] \in {"move", "delete"}
      BY <1>3 DEF Holds, TypeOK, Kinds
    <3>2. subject[w] \in Cats /\ lock[subject[w]] = w
      BY <3>1 DEF Holds
    <3> QED
      BY <3>2, NoneAssumption DEF LocksAreLive
  <2>2. OldParent(w)' = OldParent(w)
    BY <1>1, <2>1 DEF OldParent, Live
  <2>3. OldParent(w) \in Cats
    BY <1>3, <2>1 DEF SeesLeaf, OldParent, TypeOK, Row
  <2>4. \A d \in Cats \ {c} : View(w)'[d] = View(w)[d]
    BY <1>1 DEF View
  <2>5. View(w)[c].life = "unborn" /\ View(w)'[c].parent = None
    BY <1>1, <1>2 DEF View
  <2>6. Childless(View(w)', OldParent(w)) <=> Childless(View(w), OldParent(w))
    BY <2>3, <2>4, <2>5, NoneAssumption, SameChildren
  <2> QED
    BY <2>2, <2>6 DEF Childless
<1> QED
  BY <1>1, <1>2, <1>3 DEF SeesLeaf

(* Every step keeps the leaves, as long as writes are alone.               *)
LEMMA LeafStep ==
    ASSUME TreeIInv, TreeIInv', PathInv, LeafInv, WritesAlone, [Next]_vars
    PROVE  LeafInv'
<1> USE TreeFacts
<1>1. \A w \in Workers : MovesSubtree(w) /\ SeesLeaf(w)
  BY DEF PathInv, LeafInv
<1>2. CASE cat' = cat
  <2>1. LeafIffChildless'
    BY <1>2 DEF LeafInv, LeafIffChildless, Live, Childless
  <2>2. ASSUME NEW w \in Workers PROVE SeesLeaf(w)'
    <3>1. CASE Step(w)
      BY <1>1, <3>1, OwnLeaf
    <3>2. CASE Kept(w)
      <4>1. View(w)' = View(w) /\ OldParent(w)' = OldParent(w)
        BY <1>2, <3>2 DEF View, OldParent, Kept
      <4>2. Childless(View(w), OldParent(w))' = Childless(View(w), OldParent(w))
        BY <4>1 DEF Childless
      <4> QED
        BY <1>1, <1>2, <3>2, <4>1, <4>2 DEF SeesLeaf, Kept
    <3> QED
      BY <3>1, <3>2, StepCases, OtherKept
  <2> QED
    BY <2>1, <2>2 DEF LeafInv
<1>3. ASSUME NEW c \in Cats, CreateRoot(c) PROVE LeafInv'
  BY <1>1, <1>3, CreateRootKeepsLeaves, RootUnseen DEF LeafInv
<1>4. ASSUME NEW v \in Workers, CreateChild(v) \/ Commit(v), cat' # cat PROVE LeafInv'
  <2>1. LeafIffChildless'
    BY <1>1, <1>4, CreateChildKeepsLeaves, CommitKeepsLeaves DEF LeafInv
  <2>2. kind[v] \in {"create", "move", "delete"} /\ Step(v)
    BY <1>4, CommitFacts DEF CreateChild, Step
  <2>3. ASSUME NEW w \in Workers PROVE SeesLeaf(w)'
    <3>1. CASE w = v
      BY <1>1, <2>2, <3>1, OwnLeaf
    <3>2. CASE w # v
      <4>1. Kept(w)
        BY <2>2, <3>2, OtherKept
      <4>2. kind[w] \notin {"create", "move", "delete"}
        BY <2>2, <3>2 DEF WritesAlone
      <4> QED
        BY <4>1, <4>2, NothingWritten
    <3> QED
      BY <3>1, <3>2
  <2> QED
    BY <2>1, <2>3 DEF LeafInv
<1>5. ASSUME NEW w \in Workers,
             \/ Edit(w) \/ LockTarget(w) \/ StartMove(w) \/ FinishMove(w) \/ Retire(w)
             \/ StartRefresh(w) \/ Abort(w)
      PROVE  cat' = cat
  BY <1>5 DEF Edit, LockTarget, StartMove, FinishMove, Retire, StartRefresh, Abort,
     Rollback, RollbackStale, CommitRows, store
<1>6. ASSUME NEW w \in Workers, NEW c \in Cats,
             \/ \E version \in Claims : BeginEdit(w, c, version)
             \/ \E version \in Claims : BeginDelete(w, c, version)
             \/ \E p \in Cats : BeginCreate(w, c, p)
             \/ \E t \in Cats, version \in Claims : BeginMove(w, c, t, version)
      PROVE  cat' = cat
  BY <1>6 DEF BeginEdit, BeginDelete, BeginCreate, BeginMove, LockSubject, Begin
<1>7. CASE UNCHANGED vars
  BY <1>2, <1>7 DEF vars
<1> QED
  BY <1>2, <1>3, <1>4, <1>5, <1>6, <1>7 DEF Next

(* What a move underway knows of its subtree, and the paths it leaves.     *)
THEOREM PathInvariance == Spec /\ []MovesAlone => []PathInv
<1>1. Init => PathInv
  <2> SUFFICES ASSUME Init PROVE PathInv
    OBVIOUS
  <2>1. \A c \in Cats : ~Live(c)
    BY DEF Init, Live, Unborn
  <2>2. \A w \in Workers : kind[w] = "none"
    BY DEF Init
  <2> QED
    BY <2>1, <2>2 DEF PathInv, PathFollowsParent, MovesSubtree
<1>2. TreeIInv /\ TreeIInv' /\ PathInv /\ MovesAlone /\ [Next]_vars => PathInv'
  BY PathStep
<1> QED
  BY <1>1, <1>2, TreeInvariance, PTL DEF Spec

(* PathFollowsParent: the path of every live category is its parent's path *)
(* and its own id, for any categories and workers, whatever creations,     *)
(* edits and deletions overlap, as long as a move overlaps no other move   *)
(* and no creation under a parent.  The hypothesis cannot be dropped: with *)
(* two workers TLC refutes the property.                                   *)
THEOREM PathsFollowParents == Spec /\ []MovesAlone => []PathFollowsParent
<1>1. PathInv => PathFollowsParent
  BY DEF PathInv
<1> QED
  BY <1>1, PathInvariance, PTL

(* A set of naturals has a least element.                                  *)
LEMMA LeastOf ==
    ASSUME NEW T, T \subseteq Nat, T # {}
    PROVE  \E n \in T : \A m \in T : n <= m
<1> DEFINE R == OpToRel(<, Nat)
<1>1. IsWellFoundedOn(R, Nat)
  BY NatLessThanWellFounded
<1> HIDE DEF R
<1>2. PICK n \in T : \A m \in T : <<m, n>> \notin R
  BY <1>1, WFMin
<1>3. ASSUME NEW m \in T PROVE n <= m
  <2>1. ~(m < n)
    BY <1>2 DEF R, OpToRel
  <2> QED
    BY <2>1
<1> QED
  BY <1>2, <1>3

(* Where the paths follow the parents, a category is one deeper than its   *)
(* parent: the shallowest of a set of live rows has its parent outside.    *)
LEMMA PathsDetachNobody ==
    ASSUME TreeIInv, PathFollowsParent
    PROVE  NoneDetached
<1>1. ASSUME NEW c \in Cats, Live(c), cat[c].parent \in Cats
      PROVE  cat[c].depth = cat[cat[c].parent].depth + 1
  <2> DEFINE q == cat[c].parent
  <2>1. Live(q)
    BY <1>1, NoneAssumption DEF TreeIInv, LiveParent
  <2>2. cat[c].path = Append(cat[q].path, c)
    BY <1>1, NoneAssumption DEF PathFollowsParent
  <2>3. Len(cat[c].path) = cat[c].depth + 1 /\ Len(cat[q].path) = cat[q].depth + 1
    BY <1>1, <2>1 DEF TreeIInv, DepthMatchesPath, EndsInItself
  <2>4. /\ cat[q].path \in Seq(Cats)
        /\ cat[c].depth \in Nat /\ cat[q].depth \in Nat
    BY <1>1 DEF TreeIInv, TypeOK, Row
  <2>5. Len(Append(cat[q].path, c)) = Len(cat[q].path) + 1
    BY <1>1, <2>4, AppendProperties
  <2> QED
    BY <2>2, <2>3, <2>4, <2>5
<1>2. SUFFICES ASSUME NEW S \in SUBSET Cats, S # {}, \A c \in S : Live(c),
                      \A c \in S : cat[c].parent \in S
               PROVE  FALSE
  BY DEF NoneDetached
<1> DEFINE D == {cat[c].depth : c \in S}
<1>3. \A c \in S : cat[c].depth \in Nat
  BY DEF TreeIInv, TypeOK, Row
<1>4. PICK n \in D : \A m \in D : n <= m
  <2>1. D \subseteq Nat /\ D # {}
    BY <1>2, <1>3
  <2> HIDE DEF D
  <2> QED
    BY <2>1, LeastOf
<1>5. PICK c \in S : n = cat[c].depth
  BY <1>4
<1>6. cat[c].parent \in S /\ n <= cat[cat[c].parent].depth
  BY <1>2, <1>4
<1>7. n = cat[cat[c].parent].depth + 1
  BY <1>1, <1>2, <1>5, <1>6
<1> QED
  BY <1>3, <1>5, <1>6, <1>7

(* NoneDetached: as long as a move overlaps no other move and no creation  *)
(* under a parent, update_category's look at the new parent's path keeps   *)
(* every live category below a root.  The hypothesis cannot be dropped:    *)
(* with two workers TLC closes a cycle of parents.                         *)
THEOREM NoneIsDetached == Spec /\ []MovesAlone => []NoneDetached
<1>1. TreeIInv /\ PathFollowsParent => NoneDetached
  BY PathsDetachNobody
<1> QED
  BY <1>1, TreeInvariance, PathsFollowParents, PTL

(* What a refresh underway has seen is what its commit publishes.          *)
THEOREM LeafInvariance == Spec /\ []WritesAlone => []LeafInv
<1>1. Init => LeafInv
  <2> SUFFICES ASSUME Init PROVE LeafInv
    OBVIOUS
  <2>1. \A c \in Cats : ~Live(c)
    BY DEF Init, Live, Unborn
  <2>2. \A w \in Workers : DOMAIN draft[w] = {} /\ phase[w] = "idle"
    BY DEF Init, NoRows
  <2> QED
    BY <2>1, <2>2 DEF LeafInv, LeafIffChildless, SeesLeaf
<1>2. TreeIInv /\ TreeIInv' /\ PathInv /\ LeafInv /\ WritesAlone /\ [Next]_vars => LeafInv'
  BY LeafStep
<1>3. WritesAlone => MovesAlone
  BY DEF WritesAlone, MovesAlone
<1> QED
  BY <1>1, <1>2, <1>3, TreeInvariance, PathInvariance, PTL DEF Spec

(* LeafIffChildless: is_leaf says whether a live category has live         *)
(* children, as long as creations under a parent, moves and deletions do   *)
(* not overlap; roots may be created and categories edited meanwhile.      *)
THEOREM LeavesAreChildless == Spec /\ []WritesAlone => []LeafIffChildless
<1>1. LeafInv => LeafIffChildless
  BY DEF LeafInv
<1> QED
  BY <1>1, LeafInvariance, PTL

-------------------------------------------------------------------------------
(* The forest.                                                             *)

(* The parents of the live rows, as the abstract specification has them.   *)
Above == [c \in {d \in Cats : Live(d)} |-> cat[c].parent]
Gone == {c \in Cats : cat[c].life = "retired"}

(* A path starts with everything a path it extends starts with.            *)
LEMMA PrefixDown ==
    ASSUME NEW p \in Seq(Cats), NEW q \in Seq(Cats), NEW c \in Cats,
           StartsWith(p, Append(q, c))
    PROVE  StartsWith(p, q)
<1>1. /\ Append(q, c) \in Seq(Cats) /\ Len(Append(q, c)) = Len(q) + 1
      /\ \A i \in 1..Len(q) : Append(q, c)[i] = q[i]
      /\ Len(p) \in Nat /\ Len(q) \in Nat
  BY AppendProperties, LenProperties
<1>2. /\ Len(q) + 1 <= Len(p)
      /\ \A i \in 1..(Len(q) + 1) : p[i] = Append(q, c)[i]
  BY <1>1, PrefixByIds
<1>3. Len(q) <= Len(p) /\ \A i \in 1..Len(q) : p[i] = q[i]
  BY <1>1, <1>2
<1> QED
  BY <1>3, PrefixByIds

(* The rows a path names hold their parents: a row whose path does not     *)
(* begin with another's is not below that other one.                       *)
LEMMA PathsTellBelow ==
    ASSUME TreeIInv, PathFollowsParent, NEW c \in Cats, NEW t \in Cats, Live(c), Live(t),
           ~StartsWith(cat[t].path, cat[c].path)
    PROVE  ~Forest!Below(t, c)
<1> USE TreeFacts
<1> DEFINE S == {d \in Cats : Live(d) /\ StartsWith(cat[t].path, cat[d].path)}
<1>1. t \in S
  BY PathFacts, PrefixFacts
<1>2. ASSUME NEW d \in S PROVE cat[d].parent \in S \cup {None}
  <2> DEFINE q == cat[d].parent
  <2>1. CASE q = None
    BY <2>1
  <2>2. CASE q # None
    <3>1. q \in Cats /\ Live(q)
      BY <2>2, PathFacts
    <3>2. cat[t].path \in Seq(Cats) /\ cat[q].path \in Seq(Cats)
      BY <3>1, PathFacts
    <3>3. cat[d].path = Append(cat[q].path, d) /\ StartsWith(cat[t].path, cat[d].path)
      BY <2>2 DEF PathFollowsParent
    <3>4. StartsWith(cat[t].path, cat[q].path)
      BY <3>2, <3>3, PrefixDown
    <3> QED
      BY <3>1, <3>4
  <2> QED
    BY <2>1, <2>2
<1>3. S \in SUBSET Cats /\ c \notin S /\ \A d \in S : Live(d)
  OBVIOUS
<1> HIDE DEF S
<1>4. \A d \in S : d \in DOMAIN Above /\ Above[d] \in S \cup {None}
  BY <1>2, <1>3 DEF Above
<1> QED
  BY <1>1, <1>3, <1>4 DEF Forest!Below, Forest!Upward, Above

(* A new row under a live one, or under none, and nothing else.            *)
LEMMA NewRowIsAdded ==
    ASSUME NEW c \in Cats, NEW p \in Cats \cup {None}, cat[c].life = "unborn",
           p # None => Live(p),
           cat'[c].life = "live", cat'[c].parent = p,
           \A d \in Cats \ {c} : cat'[d].life = cat[d].life /\ cat'[d].parent = cat[d].parent
    PROVE  Forest!Add(c, p)
<1>1. DOMAIN Above = {d \in Cats : Live(d)} /\ \A d \in DOMAIN Above : Above[d] = cat[d].parent
  BY DEF Above
<1>2. Above' = [d \in {e \in Cats : cat'[e].life = "live"} |-> cat'[d].parent]
  BY DEF Above, Live
<1>3. {e \in Cats : cat'[e].life = "live"} = DOMAIN Above \cup {c}
  BY <1>1 DEF Live
<1>4. Above' = [d \in DOMAIN Above \cup {c} |-> IF d = c THEN p ELSE Above[d]]
  BY <1>1, <1>2, <1>3
<1>5. Gone' = Gone
  BY DEF Gone
<1>6. c \notin DOMAIN Above \cup Gone /\ p \in DOMAIN Above \cup {None}
  BY <1>1 DEF Gone, Live
<1> QED
  BY <1>4, <1>5, <1>6 DEF Forest!Add, Above, Gone

(* A committed move gives its row another parent outside the row's own     *)
(* subtree, and nothing else.                                              *)
LEMMA CommittedMoveIsMove ==
    ASSUME TreeIInv, PathFollowsParent, NEW w \in Workers, MovesSubtree(w),
           Commit(w), kind[w] = "move", cat' # cat,
           NEW s \in Cats, NEW t \in Cats, s = subject[w], t = target[w]
    PROVE  Forest!Move(s, t)
<1> USE TreeFacts
<1> DEFINE In(c) == InSubtree(w, c)
<1>1. /\ phase[w] \in {"written", "refreshing"}
      /\ \A c \in Cats : /\ cat'[c].life = View(w)[c].life
                         /\ cat'[c].parent = View(w)[c].parent
  BY CommitFacts
<1>2. Live(s) /\ Live(t)
  <2>1. lock[s] = w /\ lock[t] = w
    BY <1>1 DEF Holds
  <2> QED
    BY <2>1, NoneAssumption DEF LocksAreLive
<1>3. /\ ~StartsWith(cat[t].path, cat[s].path)
      /\ DOMAIN draft[w] = {c \in Cats : In(c)}
      /\ \A c \in Cats : In(c) => draft[w][c].parent = IF c = s THEN t ELSE cat[c].parent
  BY <1>1 DEF MovesSubtree
<1>4. In(s)
  BY <1>2, PathFacts, PrefixFacts DEF InSubtree
<1>5. \A c \in Cats : In(c) =>
         /\ cat'[c].life = "live" /\ Live(c)
         /\ cat'[c].parent = IF c = s THEN t ELSE cat[c].parent
  BY <1>1, <1>3, ViewFacts DEF Fits
<1>6. \A c \in Cats : ~In(c) =>
         cat'[c].life = cat[c].life /\ cat'[c].parent = cat[c].parent
  BY <1>1, <1>3, ViewFacts
<1>7. ~Forest!Below(t, s)
  BY <1>2, <1>3, PathsTellBelow
<1> HIDE DEF In
<1>8. \A c \in Cats : /\ cat'[c].life = cat[c].life
                     /\ cat'[c].parent = IF c = s THEN t ELSE cat[c].parent
  BY <1>4, <1>5, <1>6 DEF Live
<1>9. DOMAIN Above = {d \in Cats : Live(d)} /\ \A d \in DOMAIN Above : Above[d] = cat[d].parent
  BY DEF Above
<1>10. Above' = [d \in {e \in Cats : cat'[e].life = "live"} |-> cat'[d].parent]
  BY DEF Above, Live
<1>11. Above' = [Above EXCEPT ![s] = t]
  <2>1. {e \in Cats : cat'[e].life = "live"} = DOMAIN Above
    BY <1>8, <1>9 DEF Live
  <2>2. Above = [d \in DOMAIN Above |-> Above[d]] /\ s \in DOMAIN Above
    BY <1>2, <1>9 DEF Above
  <2>3. Above' = [d \in DOMAIN Above |-> cat'[d].parent]
    BY <1>10, <2>1
  <2>4. \A d \in DOMAIN Above : cat'[d].parent = IF d = s THEN t ELSE Above[d]
    BY <1>8, <1>9
  <2> HIDE DEF Above
  <2>5. Above' = [d \in DOMAIN Above |-> IF d = s THEN t ELSE Above[d]]
    BY <2>3, <2>4
  <2> QED
    BY <2>2, <2>5
<1>12. Gone' = Gone
  BY <1>8 DEF Gone
<1> QED
  BY <1>2, <1>7, <1>9, <1>11, <1>12 DEF Forest!Move, Above, Gone

(* A committed deletion takes a childless row away, and nothing else.      *)
LEMMA CommittedDeletionIsRemoval ==
    ASSUME TreeIInv, NEW w \in Workers, Commit(w), kind[w] = "delete", cat' # cat,
           NEW s \in Cats, s = subject[w]
    PROVE  Forest!Remove(s) \/ UNCHANGED <<Above, Gone>>
<1> USE TreeFacts
<1>1. /\ phase[w] \in {"written", "refreshing"}
      /\ \A c \in Cats : /\ cat'[c].life = View(w)[c].life
                         /\ cat'[c].parent = View(w)[c].parent
  BY CommitFacts
<1>2. Live(s) /\ Childless(cat, s)
  BY <1>1, NoneAssumption DEF Holds, Fits, LocksAreLive
<1>3. \A c \in Cats \ {s} : cat'[c].life = cat[c].life /\ cat'[c].parent = cat[c].parent
  BY <1>1, ViewFacts DEF Fits
<1>4. DOMAIN Above = {d \in Cats : Live(d)} /\ \A d \in DOMAIN Above : Above[d] = cat[d].parent
  BY DEF Above
<1>5. Above' = [d \in {e \in Cats : cat'[e].life = "live"} |-> cat'[d].parent]
  BY DEF Above, Live
<1>6. CASE s \in DOMAIN draft[w]
  <2>1. cat'[s].life = "retired"
    <3>1. View(w)[s] = draft[w][s]
      BY <1>6, ViewFacts
    <3>2. draft[w][s].life = "retired"
      BY <1>6 DEF Fits
    <3> QED
      BY <1>1, <3>1, <3>2
  <2>2. {e \in Cats : cat'[e].life = "live"} = DOMAIN Above \ {s}
    BY <1>3, <1>4, <2>1 DEF Live
  <2>3. Above' = [d \in DOMAIN Above \ {s} |-> Above[d]]
    BY <1>3, <1>4, <1>5, <2>2
  <2>4. Gone' = Gone \cup {s}
    BY <1>2, <1>3, <2>1 DEF Gone
  <2>5. s \in DOMAIN Above /\ \A d \in DOMAIN Above : Above[d] # s
    BY <1>2, <1>4 DEF Childless, Live
  <2> QED
    BY <1>2, <2>3, <2>4, <2>5 DEF Forest!Remove, Above, Gone
<1>7. CASE s \notin DOMAIN draft[w]
  <2>1. cat'[s].life = cat[s].life /\ cat'[s].parent = cat[s].parent
    BY <1>1, <1>2, <1>7, ViewFacts
  <2>2. {e \in Cats : cat'[e].life = "live"} = DOMAIN Above
    BY <1>3, <1>4, <2>1 DEF Live
  <2>3. Above' = Above
    <3>1. Above' = [d \in DOMAIN Above |-> cat'[d].parent]
      BY <1>5, <2>2
    <3>2. \A d \in DOMAIN Above : cat'[d].parent = Above[d]
      BY <1>3, <1>4, <2>1
    <3>3. Above = [d \in DOMAIN Above |-> Above[d]]
      BY DEF Above
    <3> HIDE DEF Above
    <3> QED
      BY <3>1, <3>2, <3>3
  <2>4. Gone' = Gone
    BY <1>3, <2>1 DEF Gone
  <2> QED
    BY <1>2, <2>3, <2>4
<1> QED
  BY <1>6, <1>7

(* Every step is a step of the forest, or leaves it as it is.              *)
LEMMA StepIsForestStep ==
    ASSUME TreeIInv, PathInv, [Next]_vars
    PROVE  [Forest!Next]_(Forest!vars)
<1> USE TreeFacts
<1>1. CASE cat' = cat
  BY <1>1 DEF Forest!vars, Live
<1>2. ASSUME NEW c \in Cats, CreateRoot(c) PROVE Forest!Next
  <2>1. /\ cat[c].life = "unborn" /\ cat'[c].life = "live" /\ cat'[c].parent = None
        /\ \A d \in Cats \ {c} : cat'[d] = cat[d]
    BY <1>2 DEF CreateRoot, Mintable, TypeOK
  <2>2. Forest!Add(c, None)
    BY <2>1, NewRowIsAdded
  <2> QED
    BY <2>2 DEF Forest!Next
<1>3. ASSUME NEW w \in Workers, CreateChild(w) PROVE Forest!Next
  <2>0. PICK c \in Cats, p \in Cats : c = subject[w] /\ p = target[w]
    BY <1>3, CreateChildFacts
  <2>1. /\ cat[c].life = "unborn" /\ Live(p)
        /\ cat'[c].life = "live" /\ cat'[c].parent = p
        /\ \A d \in Cats \ {c} : cat'[d].life = cat[d].life /\ cat'[d].parent = cat[d].parent
    BY <1>3, <2>0, CreateChildFacts
  <2>2. Forest!Add(c, p)
    BY <2>1, NewRowIsAdded
  <2> QED
    BY <2>1, <2>2 DEF Forest!Next
<1>4. ASSUME NEW w \in Workers, Commit(w), cat' # cat PROVE [Forest!Next]_(Forest!vars)
  <2>1. kind[w] \in {"move", "delete"} /\ phase[w] \in {"written", "refreshing"}
    BY <1>4, CommitFacts
  <2>2. CASE kind[w] = "move"
    <3>1. PICK s \in Cats, t \in Cats : s = subject[w] /\ t = target[w]
      BY <2>2 DEF Holds
    <3>2. Forest!Move(s, t)
      BY <1>4, <2>2, <3>1, CommittedMoveIsMove DEF PathInv
    <3> QED
      BY <3>2 DEF Forest!Next
  <2>3. CASE kind[w] = "delete"
    <3>1. PICK s \in Cats : s = subject[w]
      BY <2>3 DEF Holds
    <3>2. Forest!Remove(s) \/ UNCHANGED <<Above, Gone>>
      BY <1>4, <2>3, <3>1, CommittedDeletionIsRemoval
    <3>3. CASE Forest!Remove(s)
      BY <3>3 DEF Forest!Next
    <3>4. CASE UNCHANGED <<Above, Gone>>
      BY <3>4 DEF Forest!vars, Above, Gone
    <3> QED
      BY <3>2, <3>3, <3>4
  <2> QED
    BY <2>1, <2>2, <2>3
<1>5. ASSUME NEW w \in Workers,
             \/ Edit(w) \/ LockTarget(w) \/ StartMove(w) \/ FinishMove(w) \/ Retire(w)
             \/ StartRefresh(w) \/ Abort(w)
      PROVE  cat' = cat
  BY <1>5 DEF Edit, LockTarget, StartMove, FinishMove, Retire, StartRefresh, Abort,
     Rollback, RollbackStale, CommitRows, store
<1>6. ASSUME NEW w \in Workers, NEW c \in Cats,
             \/ \E version \in Claims : BeginEdit(w, c, version)
             \/ \E version \in Claims : BeginDelete(w, c, version)
             \/ \E p \in Cats : BeginCreate(w, c, p)
             \/ \E t \in Cats, version \in Claims : BeginMove(w, c, t, version)
      PROVE  cat' = cat
  BY <1>6 DEF BeginEdit, BeginDelete, BeginCreate, BeginMove, LockSubject, Begin
<1>7. CASE UNCHANGED vars
  BY <1>1, <1>7 DEF vars
<1> QED
  BY <1>1, <1>2, <1>3, <1>4, <1>5, <1>6, <1>7 DEF Next

(* ForestSpec: with its paths, locks, snapshots and refreshes the category *)
(* tree implements CategoryForest, for any categories and workers, as long *)
(* as a move overlaps no other move and no creation under a parent.        *)
THEOREM ImplementsForest == Spec /\ []MovesAlone => ForestSpec
<1>1. Init => Forest!Init
  <2> SUFFICES ASSUME Init PROVE Forest!Init
    OBVIOUS
  <2>1. \A c \in Cats : cat[c].life = "unborn"
    BY DEF Init, Unborn
  <2>2. {c \in Cats : Live(c)} = {} /\ Gone = {}
    BY <2>1 DEF Live, Gone
  <2>3. Above = [c \in {} |-> None]
    BY <2>2 DEF Above
  <2> QED
    BY <2>2, <2>3 DEF Forest!Init, Above, Gone
<1>2. TreeIInv /\ PathInv /\ [Next]_vars => [Forest!Next]_(Forest!vars)
  BY StepIsForestStep
<1> QED
  BY <1>1, <1>2, TreeInvariance, PathInvariance, PTL DEF Spec, ForestSpec, Forest!Spec
================================================================================
