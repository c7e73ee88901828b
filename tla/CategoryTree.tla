---------------------------- MODULE CategoryTree ----------------------------
(***************************************************************************)
(* The category tree with its derived columns: path (the ids from the root *)
(* to the row itself), depth and is_leaf, maintained by hand-written SQL   *)
(* under READ COMMITTED.                                                   *)
(*                                                                         *)
(* A transaction locks rows as it goes, keeps its uncommitted rows to      *)
(* itself (draft) and gives both up when it ends.  A statement sees what   *)
(* was committed when it started; where it then waits for a row lock it    *)
(* rechecks and rewrites the newest version of that row, but what it read  *)
(* of other rows is as old as its start.  StartMove and StartRefresh take  *)
(* that snapshot, FinishMove and Commit are where the wait is over.        *)
(*                                                                         *)
(* A request's If-Match version is only told apart from the version the    *)
(* row has when the transaction locks it: equal, one ahead, or another.    *)
(* "ahead" is what the 412 of a refused move tells the client to retry     *)
(* with: its probe runs in the transaction whose subtree statement has     *)
(* already advanced the row.                                               *)
(***************************************************************************)
EXTENDS Integers, Sequences

CONSTANTS
    Cats,       \* category ids ever minted
    None,       \* no parent; no lock holder
    Workers,    \* request handlers, one transaction at a time each
    Claims      \* how the If-Match versions of the requests relate to the rows

ASSUME NoneAssumption == None \notin Cats /\ None \notin Workers
ASSUME ClaimsAssumption == Claims \subseteq {"equal", "ahead", "other"}

VARIABLES
    cat,        \* cat[c]: the committed row of category c
    lock,       \* lock[c]: the worker whose transaction locked c, or None
    draft,      \* draft[w]: the rows w's transaction wrote, by id
    phase,      \* phase[w]: where w's transaction is
    kind,       \* kind[w]: the operation
    subject,    \* subject[w]: the category it is about
    target,     \* target[w]: the (new) parent it names, or None
    claim,      \* claim[w]: how its If-Match relates to the locked row
    snap,       \* snap[w]: the rows the subtree statement found
    leafView,   \* leafView[w]: the parent had no child when the refresh began
    stale       \* stale[w]: w's last request was answered 412

store == <<cat, lock, draft>>
request == <<kind, subject, target, claim>>
vars == <<cat, lock, draft, phase, kind, subject, target, claim, snap,
          leafView, stale>>

Kinds == {"none", "create", "edit", "move", "delete"}
Phases == {"idle", "locked", "placed", "moving", "written", "refreshing"}
Row == [life : {"unborn", "live", "retired"}, parent : Cats \cup {None},
        path : Seq(Cats), depth : Nat, leaf : BOOLEAN]

TypeOK ==
    /\ cat \in [Cats -> Row]
    /\ lock \in [Cats -> Workers \cup {None}]
    /\ draft = [w \in Workers |-> draft[w]]
    /\ \A w \in Workers : /\ DOMAIN draft[w] \subseteq Cats
                          /\ draft[w] \in [DOMAIN draft[w] -> Row]
    /\ phase \in [Workers -> Phases]
    /\ kind \in [Workers -> Kinds]
    /\ subject \in [Workers -> Cats \cup {None}]
    /\ target \in [Workers -> Cats \cup {None}]
    /\ claim \in [Workers -> Claims \cup {"equal"}]
    /\ snap \in [Workers -> SUBSET Cats]
    /\ leafView \in [Workers -> BOOLEAN]
    /\ stale \in [Workers -> BOOLEAN]

Unborn == [life |-> "unborn", parent |-> None, path |-> <<>>,
           depth |-> 0, leaf |-> TRUE]
NoRows == [c \in {} |-> Unborn]

Init ==
    /\ cat = [c \in Cats |-> Unborn]
    /\ lock = [c \in Cats |-> None]
    /\ draft = [w \in Workers |-> NoRows]
    /\ phase = [w \in Workers |-> "idle"]
    /\ kind = [w \in Workers |-> "none"]
    /\ subject = [w \in Workers |-> None]
    /\ target = [w \in Workers |-> None]
    /\ claim = [w \in Workers |-> "equal"]
    /\ snap = [w \in Workers |-> {}]
    /\ leafView = [w \in Workers |-> TRUE]
    /\ stale = [w \in Workers |-> FALSE]

-------------------------------------------------------------------------------
(* Reading rows.                                                           *)

Live(c) == cat[c].life = "live"

(* parent_row.path.starts_with(&current.path); left(path, n) = old_path    *)
StartsWith(p, q) == Len(q) <= Len(p) /\ SubSeq(p, 1, Len(q)) = q

(* The rows a statement of w sees: what is committed, and w's own writes.  *)
View(w) == [c \in Cats |-> IF c \in DOMAIN draft[w] THEN draft[w][c] ELSE cat[c]]

(* NOT EXISTS (SELECT 1 ... WHERE child.parent_id = c AND deleted_at IS NULL) *)
Childless(rows, c) ==
    \A d \in Cats : ~(rows[d].life = "live" /\ rows[d].parent = c)

Available(w, c) == lock[c] \in {None, w}

(* The row REFRESH_CATEGORY_LEAF_SQL writes for category c.                *)
Refreshed(rows, c, leaf) == [rows EXCEPT ![c].leaf = leaf]

-------------------------------------------------------------------------------
(* Ending a transaction.                                                   *)

(* The locks are released, the draft is published or dropped, and what the *)
(* transaction knew is forgotten; the answer is a 412 or it is not.        *)
Close(w, is412) ==
    /\ lock' = [c \in Cats |-> IF lock[c] = w THEN None ELSE lock[c]]
    /\ draft' = [draft EXCEPT ![w] = NoRows]
    /\ phase' = [phase EXCEPT ![w] = "idle"]
    /\ kind' = [kind EXCEPT ![w] = "none"]
    /\ subject' = [subject EXCEPT ![w] = None]
    /\ target' = [target EXCEPT ![w] = None]
    /\ snap' = [snap EXCEPT ![w] = {}]
    /\ leafView' = [leafView EXCEPT ![w] = TRUE]
    /\ stale' = [stale EXCEPT ![w] = is412]
    /\ UNCHANGED claim

Rollback(w) == Close(w, FALSE) /\ UNCHANGED cat
RollbackStale(w) == Close(w, TRUE) /\ UNCHANGED cat
CommitRows(w, rows) == Close(w, FALSE) /\ cat' = rows

(* A row is missing, a count of products is not zero, a statement fails,   *)
(* or PostgreSQL picks the transaction to resolve a deadlock.              *)
Abort(w) == phase[w] # "idle" /\ Rollback(w)

-------------------------------------------------------------------------------
(* create_category.                                                        *)

Mintable(c) ==
    /\ cat[c].life = "unborn"
    /\ \A w \in Workers : kind[w] = "create" => subject[w] # c

(* A root needs no other row.                                              *)
CreateRoot(c) ==
    /\ Mintable(c)
    /\ cat' = [cat EXCEPT ![c] = [life |-> "live", parent |-> None,
                                  path |-> <<c>>, depth |-> 0, leaf |-> TRUE]]
    /\ UNCHANGED <<lock, draft, phase, request, snap, leafView, stale>>

Begin(w, operation, c, t, version) ==
    /\ phase[w] = "idle"
    /\ phase' = [phase EXCEPT ![w] = "locked"]
    /\ kind' = [kind EXCEPT ![w] = operation]
    /\ subject' = [subject EXCEPT ![w] = c]
    /\ target' = [target EXCEPT ![w] = t]
    /\ claim' = [claim EXCEPT ![w] = version]
    /\ stale' = [stale EXCEPT ![w] = FALSE]
    /\ UNCHANGED <<cat, draft, snap, leafView>>

(* Mutant: the parent is read without FOR UPDATE.                          *)
BeginCreateUnlocked(w, c, p) ==
    /\ Mintable(c)
    /\ Live(p)
    /\ Begin(w, "create", c, p, "equal")
    /\ UNCHANGED lock

(* A child is placed under a locked live parent.                           *)
BeginCreate(w, c, p) ==
    /\ Mintable(c)
    /\ Live(p) /\ lock[p] = None
    /\ Begin(w, "create", c, p, "equal")
    /\ lock' = [lock EXCEPT ![p] = w]

ChildRow(c, p) ==
    [life |-> "live", parent |-> p, path |-> Append(cat[p].path, c),
     depth |-> cat[p].depth + 1, leaf |-> TRUE]

(* INSERT, leaf refresh of the parent, COMMIT: the parent is locked, so    *)
(* nothing these statements read can change between them.                  *)
CreateChild(w) ==
    LET c == subject[w]
        p == target[w]
        rows == [cat EXCEPT ![c] = ChildRow(c, p)]
    IN  /\ phase[w] = "locked" /\ kind[w] = "create"
        /\ CommitRows(w, Refreshed(rows, p, Childless(rows, p)))

-------------------------------------------------------------------------------
(* update_category.                                                        *)

(* SELECT ... FOR UPDATE of the row itself; it waits for the row's lock.   *)
LockSubject(w, operation, c, t, version) ==
    /\ Live(c) /\ lock[c] = None
    /\ Begin(w, operation, c, t, version)
    /\ lock' = [lock EXCEPT ![c] = w]

BeginEdit(w, c, version) == LockSubject(w, "edit", c, None, version)

(* Without a new parent only columns outside the tree change.              *)
Edit(w) ==
    /\ phase[w] = "locked" /\ kind[w] = "edit"
    /\ IF claim[w] = "equal" THEN CommitRows(w, cat) ELSE RollbackStale(w)

(* The new parent is neither the row nor the parent it has.                *)
BeginMove(w, c, t, version) ==
    /\ t # c /\ t # cat[c].parent
    /\ LockSubject(w, "move", c, t, version)

(* Mutant: any live category is accepted as the new parent.                *)
LockTargetAnywhere(w) ==
    LET t == target[w] IN
    /\ phase[w] = "locked" /\ kind[w] = "move"
    /\ Live(t) /\ lock[t] = None
    /\ phase' = [phase EXCEPT ![w] = "placed"]
    /\ lock' = [lock EXCEPT ![t] = w]
    /\ UNCHANGED <<cat, draft, request, snap, leafView, stale>>

(* The new parent is locked; it must not be one of the row's descendants.  *)
LockTarget(w) ==
    LET t == target[w] IN
    /\ phase[w] = "locked" /\ kind[w] = "move"
    /\ Live(t) /\ lock[t] = None
    /\ IF StartsWith(cat[t].path, cat[subject[w]].path)
       THEN Rollback(w)
       ELSE /\ phase' = [phase EXCEPT ![w] = "placed"]
            /\ lock' = [lock EXCEPT ![t] = w]
            /\ UNCHANGED <<cat, draft, request, snap, leafView, stale>>

(* Mutant: only the row and its children move.                             *)
InFamily(w, c) == Live(c) /\ (c = subject[w] \/ cat[c].parent = subject[w])

(* WHERE deleted_at IS NULL AND left(path, ...) = $old_path                *)
InSubtree(w, c) == Live(c) /\ StartsWith(cat[c].path, cat[subject[w]].path)

(* MOVE_CATEGORY_SUBTREE_SQL starts: its snapshot holds the committed rows.*)
StartMove(w) ==
    /\ phase[w] = "placed"
    /\ phase' = [phase EXCEPT ![w] = "moving"]
    /\ snap' = [snap EXCEPT ![w] = {c \in Cats : InSubtree(w, c)}]
    /\ UNCHANGED <<store, request, leafView, stale>>

(* Mutant: the depth moves the wrong way.                                  *)
MovedRowUpwards(w, c) ==
    LET old == cat[subject[w]].path
        new == Append(cat[target[w]].path, subject[w])
        cut == SubSeq(cat[c].path, Len(old) + 1, Len(cat[c].path))
    IN  [cat[c] EXCEPT !.path = new \o cut,
                       !.depth = @ + cat[subject[w]].depth - 1 - cat[target[w]].depth]

(* SET path = $new_prefix || substring(path FROM ...), depth = depth + $d  *)
MovedRow(w, c) ==
    LET old == cat[subject[w]].path
        new == Append(cat[target[w]].path, subject[w])
        cut == SubSeq(cat[c].path, Len(old) + 1, Len(cat[c].path))
    IN  [cat[c] EXCEPT !.path = new \o cut,
                       !.depth = @ + cat[target[w]].depth + 1 - cat[subject[w]].depth]

(* It waited for the locked rows of its snapshot and rewrote those that    *)
(* still match; REPOINT_CATEGORY_PARENT_SQL follows on the row itself.     *)
FinishMove(w) ==
    LET moved == {c \in snap[w] : InSubtree(w, c)}
        c0 == subject[w]
    IN  /\ phase[w] = "moving"
        /\ \A c \in snap[w] : Available(w, c)
        /\ phase' = [phase EXCEPT ![w] = "written"]
        /\ draft' = [draft EXCEPT ![w] =
                        [c \in moved |-> IF c = c0 THEN [MovedRow(w, c) EXCEPT
                                                            !.parent = target[w]]
                                                   ELSE MovedRow(w, c)]]
        /\ lock' = [c \in Cats |-> IF c \in moved THEN w ELSE lock[c]]
        /\ UNCHANGED <<cat, request, snap, leafView, stale>>

-------------------------------------------------------------------------------
(* delete_category.                                                        *)

BeginDelete(w, c, version) == LockSubject(w, "delete", c, None, version)

(* The counts (products: see Abort) and the guarded statement.             *)
Retire(w) ==
    LET c == subject[w] IN
    /\ phase[w] = "locked" /\ kind[w] = "delete"
    /\ IF ~Childless(cat, c)
       THEN Rollback(w)
       ELSE IF claim[w] # "equal"
       THEN RollbackStale(w)
       ELSE /\ phase' = [phase EXCEPT ![w] = "written"]
            /\ draft' = [draft EXCEPT ![w] =
                            [d \in {c} |-> [cat[c] EXCEPT !.life = "retired"]]]
            /\ UNCHANGED <<cat, lock, request, snap, leafView, stale>>

-------------------------------------------------------------------------------
(* The leaf refresh of the parent left behind, and the end of both.        *)

OldParent(w) == cat[subject[w]].parent

(* Mutant: the children are counted before the transaction's own write.    *)
StartRefreshEarly(w) ==
    /\ phase[w] = "written"
    /\ OldParent(w) # None
    /\ phase' = [phase EXCEPT ![w] = "refreshing"]
    /\ leafView' = [leafView EXCEPT ![w] = Childless(cat, OldParent(w))]
    /\ UNCHANGED <<store, request, snap, stale>>

(* The refresh starts: NOT EXISTS is evaluated on this snapshot.           *)
StartRefresh(w) ==
    /\ phase[w] = "written"
    /\ OldParent(w) # None
    /\ phase' = [phase EXCEPT ![w] = "refreshing"]
    /\ leafView' = [leafView EXCEPT ![w] = Childless(View(w), OldParent(w))]
    /\ UNCHANGED <<store, request, snap, stale>>

(* The old parent's row is free: the refresh writes what it had seen.  A   *)
(* deletion commits.  A move refreshes its new parent, which it holds, and *)
(* runs the guarded UPDATE: the subtree statement has already advanced the *)
(* version of the moved row itself.                                        *)
Guarded(w) == kind[w] = "move" => claim[w] = "ahead"

Commit(w) ==
    LET p == OldParent(w)
        t == target[w]
        left == IF p = None THEN View(w) ELSE Refreshed(View(w), p, leafView[w])
        rows == IF t = None THEN left ELSE Refreshed(left, t, Childless(left, t))
    IN  /\ phase[w] \in {"written", "refreshing"}
        /\ phase[w] = "written" <=> p = None
        /\ p # None => Available(w, p)
        /\ IF Guarded(w) THEN CommitRows(w, rows) ELSE RollbackStale(w)

-------------------------------------------------------------------------------
Next ==
    \/ \E c \in Cats : CreateRoot(c)
    \/ \E w \in Workers :
        \/ CreateChild(w)
        \/ Edit(w)
        \/ LockTarget(w)
        \/ StartMove(w)
        \/ FinishMove(w)
        \/ Retire(w)
        \/ StartRefresh(w)
        \/ Commit(w)
        \/ Abort(w)
        \/ \E c \in Cats :
            \/ \E version \in Claims : BeginEdit(w, c, version)
            \/ \E version \in Claims : BeginDelete(w, c, version)
            \/ \E p \in Cats : BeginCreate(w, c, p)
            \/ \E t \in Cats, version \in Claims : BeginMove(w, c, t, version)

Spec == Init /\ [][Next]_vars

-------------------------------------------------------------------------------
(* Properties.                                                             *)

(* A live category hangs under a live one, whatever interleaving of        *)
(* creations, moves and deletions: a deletion that would leave the tree    *)
(* with an unreachable middle is refused (delete_category).                *)
LiveParent ==
    \A c \in Cats : Live(c) /\ cat[c].parent # None => Live(cat[c].parent)

(* depth counts the ancestors the path names and the path ends in the row, *)
(* also when a subtree statement rewrote a row that changed while it       *)
(* waited: both columns are recomputed from the row's newest version.      *)
EndsInItself(row, c) ==
    Len(row.path) = row.depth + 1 /\ row.path[Len(row.path)] = c

DepthMatchesPath == \A c \in Cats : Live(c) => EndsInItself(cat[c], c)

(* The path is the parent's path and the row's own id.                     *)
PathFollowsParent ==
    \A c \in Cats : Live(c) =>
        cat[c].path = IF cat[c].parent = None THEN <<c>>
                      ELSE Append(cat[cat[c].parent].path, c)

(* No move under one of its own descendants: from every live category the  *)
(* parents lead to a root, so no set of live rows has all its parents in   *)
(* itself (update_category's check of the new parent's path).              *)
NoneDetached ==
    \A S \in SUBSET Cats :
        S # {} /\ (\A c \in S : Live(c)) => \E c \in S : cat[c].parent \notin S

(* is_leaf says whether the category has live children.                    *)
LeafIffChildless == \A c \in Cats : Live(c) => (cat[c].leaf <=> Childless(cat, c))

(* The parents of the live rows are a forest, and change as CategoryForest *)
(* says: roots, children, moves outside one's own subtree, and deletions   *)
(* of childless categories (create_category, update_category,              *)
(* delete_category).                                                       *)
Forest == INSTANCE CategoryForest
    WITH above <- [c \in {d \in Cats : Live(d)} |-> cat[c].parent],
         gone <- {c \in Cats : cat[c].life = "retired"}
ForestSpec == Forest!Spec

(* A 412 means the version moved: a request that names the version its row *)
(* has is never refused as stale.                                          *)
StaleMeansMoved == \A w \in Workers : stale[w] => claim[w] # "equal"

-------------------------------------------------------------------------------
(* The inductive invariant.                                                *)

(* What a transaction is about, and the rows it has locked for it.         *)
Holds(w) ==
    /\ phase[w] = "idle" <=> kind[w] = "none"
    /\ kind[w] = "create" =>
          /\ phase[w] = "locked" /\ subject[w] \in Cats /\ target[w] \in Cats
          /\ lock[target[w]] = w /\ cat[subject[w]].life = "unborn"
    /\ kind[w] \in {"edit", "move", "delete"} =>
          subject[w] \in Cats /\ lock[subject[w]] = w
    /\ kind[w] = "edit" => phase[w] = "locked"
    /\ kind[w] = "move" => target[w] \in Cats
    /\ kind[w] = "move" /\ phase[w] # "locked" => lock[target[w]] = w
    /\ kind[w] = "delete" => /\ target[w] = None
                            /\ phase[w] \in {"locked", "written", "refreshing"}

(* What it wrote: rows it has locked, which fit the tree when they are     *)
(* published.  A category being retired has no children and gets none.     *)
Fits(w) ==
    /\ DOMAIN draft[w] # {} => phase[w] \in {"written", "refreshing"}
    /\ \A c \in DOMAIN draft[w] : lock[c] = w
    /\ kind[w] = "move" => \A c \in DOMAIN draft[w] :
          /\ draft[w][c].life = "live" /\ EndsInItself(draft[w][c], c)
          /\ draft[w][c].parent \in {cat[c].parent, target[w]}
    /\ kind[w] = "delete" => \A c \in DOMAIN draft[w] :
          c = subject[w] /\ draft[w][c].life = "retired"
    /\ kind[w] = "delete" /\ phase[w] # "locked" => Childless(cat, subject[w])

LocksAreLive == \A c \in Cats : lock[c] # None => Live(c)
MintsDiffer ==
    \A v, w \in Workers :
        kind[v] = "create" /\ kind[w] = "create" /\ subject[v] = subject[w] => v = w

(* Every category that transactions hold, write or publish is where the    *)
(* statements that wrote it assumed it to be.                              *)
TreeIInv == /\ TypeOK /\ LocksAreLive /\ MintsDiffer
            /\ \A w \in Workers : Holds(w) /\ Fits(w)
            /\ LiveParent /\ DepthMatchesPath

-------------------------------------------------------------------------------
(* What the paths and the leaf flags take besides the row locks.           *)

(* A move overlaps no other move and no creation under a parent.           *)
MovesAlone ==
    \A v, w \in Workers :
        kind[v] = "move" /\ kind[w] \in {"move", "create"} => v = w

(* Creations under a parent, moves and deletions run one at a time.        *)
WritesAlone ==
    \A v, w \in Workers :
        /\ kind[v] \in {"create", "move", "delete"}
        /\ kind[w] \in {"create", "move", "delete"}
        => v = w

(* A move goes outside the subtree it takes along, takes all of it along,  *)
(* and writes it as it is committed.                                       *)
MovesSubtree(w) ==
    kind[w] = "move" /\ phase[w] # "locked" =>
        /\ ~StartsWith(cat[target[w]].path, cat[subject[w]].path)
        /\ phase[w] = "moving" => {c \in Cats : InSubtree(w, c)} \subseteq snap[w]
        /\ phase[w] \in {"written", "refreshing"} =>
              /\ DOMAIN draft[w] = {c \in Cats : InSubtree(w, c)}
              /\ \A c \in DOMAIN draft[w] :
                    /\ draft[w][c].path = MovedRow(w, c).path
                    /\ draft[w][c].parent =
                          IF c = subject[w] THEN target[w] ELSE cat[c].parent

PathInv == PathFollowsParent /\ \A w \in Workers : MovesSubtree(w)

(* A transaction leaves the leaf flags of its rows alone, a deletion keeps *)
(* its row's parent, and what the refresh saw is what a commit publishes.  *)
SeesLeaf(w) ==
    /\ \A c \in DOMAIN draft[w] : draft[w][c].leaf = cat[c].leaf
    /\ kind[w] = "delete" =>
          \A c \in DOMAIN draft[w] : draft[w][c].parent = cat[c].parent
    /\ phase[w] = "refreshing" =>
          /\ OldParent(w) # None
          /\ leafView[w] = Childless(View(w), OldParent(w))

LeafInv == LeafIffChildless /\ \A w \in Workers : SeesLeaf(w)
=============================================================================
