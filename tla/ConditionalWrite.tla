--------------------------- MODULE ConditionalWrite ---------------------------
(***************************************************************************)
(* Optimistic concurrency on one catalog row: the If-Match precondition of *)
(* the backend API, the guarded UPDATE that compares it inside the writing *)
(* statement, and the follow-up read that tells a 412 from a 404.          *)
(*                                                                         *)
(* Every mutating operation on categories, category attributes, price      *)
(* lists, products, SKUs and media has this shape.  It comes in two forms: *)
(*   - one auto-committed guarded statement, and a probe in a statement of *)
(*     its own when it matched no row (Apply from "sent", Miss, Probe);    *)
(*   - a transaction that first locks the row, may rewrite parts of it     *)
(*     with statements that carry no guard, and ends in the guarded        *)
(*     statement (Lock, Rewrite, Apply from "locked", LockedMiss).         *)
(* A request or an answer may be lost and a transaction may fail.          *)
(* One operation is outside both forms: a category update that changes the *)
(* parent rewrites its own row's version before the guard (CategoryTree).  *)
(*                                                                         *)
(* A document (the content of a row) is a number nobody used before: the   *)
(* ticket the writer drew.  MaxTickets bounds how many are drawn.          *)
(***************************************************************************)
EXTENDS Naturals

CONSTANTS
    Clients,        \* API clients, one request in flight each
    Rows,           \* rows of the guarded tables
    Unlisted,       \* rows whose list projection omits the version column
    None,           \* the holder of a row lock nobody holds
    MaxTickets      \* bound: documents ever written

ASSUME RowsAssumption == Unlisted \subseteq Rows
ASSUME NoneAssumption == None \notin Clients
ASSUME MaxTicketsAssumption == MaxTickets \in Nat

VARIABLES
    version,    \* version[r]: the committed version column
    live,       \* live[r]: deleted_at IS NULL
    content,    \* content[r]: the committed document
    past,       \* past[r]: every document ever committed (history variable)
    lock,       \* lock[r]: the client whose transaction locked r, or None
    held,       \* held[c][r]: the copy of r client c last received
    phase,      \* phase[c]: where c's request is
    target,     \* target[c]: the row c's request names
    deleting,   \* deleting[c]: the request is a DELETE
    payload,    \* payload[c]: the document the request carries
    staged,     \* staged[c]: an unguarded statement ran in c's transaction
    answer,     \* answer[c]: the response
    tickets     \* documents drawn so far

store == <<version, live, content, past>>
request == <<target, deleting, payload, tickets>>
vars == <<version, live, content, past, lock, held, phase, target, deleting,
          payload, staged, answer, tickets>>

Phases == {"idle", "sent", "locked", "missed", "answered"}
Copy == [version : Nat, content : Nat]
AnswerKinds == {"applied", "stale", "notFound", "failed"}
Answer == [kind : AnswerKinds, version : Nat, content : Nat]

TypeOK ==
    /\ version \in [Rows -> Nat]
    /\ live \in [Rows -> BOOLEAN]
    /\ content \in [Rows -> Nat]
    /\ past \in [Rows -> SUBSET Nat]
    /\ lock \in [Rows -> Clients \cup {None}]
    /\ held \in [Clients -> [Rows -> Copy]]
    /\ phase \in [Clients -> Phases]
    /\ target \in [Clients -> Rows]
    /\ deleting \in [Clients -> BOOLEAN]
    /\ payload \in [Clients -> Nat]
    /\ staged \in [Clients -> BOOLEAN]
    /\ answer \in [Clients -> Answer]
    /\ tickets \in Nat

(* Every row was created at version 0, and its create response (or a read  *)
(* before the first edit) gave the clients their first copies.             *)
Init ==
    /\ version = [r \in Rows |-> 0]
    /\ live = [r \in Rows |-> TRUE]
    /\ content = [r \in Rows |-> 0]
    /\ past = [r \in Rows |-> {0}]
    /\ lock = [r \in Rows |-> None]
    /\ held = [c \in Clients |-> [r \in Rows |-> [version |-> 0, content |-> 0]]]
    /\ phase = [c \in Clients |-> "idle"]
    /\ target \in [Clients -> Rows]
    /\ deleting = [c \in Clients |-> FALSE]
    /\ payload = [c \in Clients |-> 0]
    /\ staged = [c \in Clients |-> FALSE]
    /\ answer = [c \in Clients |-> [kind |-> "failed", version |-> 0, content |-> 0]]
    /\ tickets = 0

-------------------------------------------------------------------------------
(* The client.                                                             *)

(* A single-resource read: the document with the version it is at.  A      *)
(* retired row is not found, and the client keeps the copy it had.         *)
Retrieve(c, r) ==
    /\ phase[c] = "idle"
    /\ held' = [held EXCEPT ![c][r] =
                   IF live[r] THEN [version |-> version[r], content |-> content[r]]
                              ELSE @]
    /\ UNCHANGED <<store, lock, phase, request, staged, answer>>

(* Mutant: the column is left out of every list.                           *)
ListedVersionOmitted(r) == 0

(* A list read: a projection without the version column maps it to 0.      *)
ListedVersion(r) == IF r \in Unlisted THEN 0 ELSE version[r]

ListRow(c, r) ==
    /\ phase[c] = "idle"
    /\ held' = [held EXCEPT ![c][r] =
                   IF live[r] THEN [version |-> ListedVersion(r), content |-> content[r]]
                              ELSE @]
    /\ UNCHANGED <<store, lock, phase, request, staged, answer>>

(* PATCH, DELETE or a lifecycle command with the held version as If-Match. *)
Submit(c, r, isDelete) ==
    /\ phase[c] = "idle"
    /\ tickets < MaxTickets
    /\ phase' = [phase EXCEPT ![c] = "sent"]
    /\ target' = [target EXCEPT ![c] = r]
    /\ deleting' = [deleting EXCEPT ![c] = isDelete]
    /\ payload' = [payload EXCEPT ![c] = tickets + 1]
    /\ tickets' = tickets + 1
    /\ UNCHANGED <<store, lock, held, staged, answer>>

(* The response arrives; an applied edit hands back the row's new state,   *)
(* an applied DELETE (204) nothing.                                        *)
Receive(c) ==
    /\ phase[c] = "answered"
    /\ phase' = [phase EXCEPT ![c] = "idle"]
    /\ IF answer[c].kind = "applied" /\ ~deleting[c]
       THEN held' = [held EXCEPT ![c][target[c]] =
                        [version |-> answer[c].version,
                         content |-> answer[c].content]]
       ELSE UNCHANGED held
    /\ UNCHANGED <<store, lock, request, staged, answer>>

(* The response is lost: the client keeps the copy it had and may retry.   *)
LoseAnswer(c) ==
    /\ phase[c] = "answered"
    /\ phase' = [phase EXCEPT ![c] = "idle"]
    /\ UNCHANGED <<store, lock, held, request, staged, answer>>

-------------------------------------------------------------------------------
(* The store.                                                              *)

(* Mutant: the statement does not compare the version.                     *)
GuardHoldsOnLiveness(c) == live[target[c]]

(* WHERE deleted_at IS NULL AND version = $expected                        *)
GuardHolds(c) ==
    /\ live[target[c]]
    /\ version[target[c]] = held[c][target[c]].version

(* Mutant: an early return that leaves the row locked.                     *)
FinishKeepingLock(c, a) ==
    /\ phase' = [phase EXCEPT ![c] = "answered"]
    /\ answer' = [answer EXCEPT ![c] = a]
    /\ staged' = [staged EXCEPT ![c] = FALSE]
    /\ UNCHANGED <<lock, held, request>>

(* The request's transaction ends: its answer is out, its lock released.   *)
Finish(c, a) ==
    /\ phase' = [phase EXCEPT ![c] = "answered"]
    /\ answer' = [answer EXCEPT ![c] = a]
    /\ staged' = [staged EXCEPT ![c] = FALSE]
    /\ lock' = [lock EXCEPT ![target[c]] = IF @ = c THEN None ELSE @]
    /\ UNCHANGED <<held, request>>

(* Mutants: a statement that forgets SET version = version + 1, and one    *)
(* that writes deleted_at back from the request.                           *)
AdvanceWithoutVersion(r, d, survives) ==
    /\ content' = [content EXCEPT ![r] = d]
    /\ past' = [past EXCEPT ![r] = @ \cup {d}]
    /\ live' = [live EXCEPT ![r] = @ /\ survives]
    /\ UNCHANGED version
AdvanceReviving(r, d, survives) ==
    /\ version' = [version EXCEPT ![r] = @ + 1]
    /\ content' = [content EXCEPT ![r] = d]
    /\ past' = [past EXCEPT ![r] = @ \cup {d}]
    /\ live' = [live EXCEPT ![r] = survives]

(* Row r is committed at its next version with document d.                 *)
Advance(r, d, survives) ==
    /\ version' = [version EXCEPT ![r] = @ + 1]
    /\ content' = [content EXCEPT ![r] = d]
    /\ past' = [past EXCEPT ![r] = @ \cup {d}]
    /\ live' = [live EXCEPT ![r] = @ /\ survives]

NoRowAnswer(kind) == [kind |-> kind, version |-> 0, content |-> 0]

(* SELECT ... FOR UPDATE at the head of a transaction; waits for the lock. *)
Lock(c) ==
    /\ phase[c] = "sent"
    /\ lock[target[c]] = None
    /\ live[target[c]]
    /\ phase' = [phase EXCEPT ![c] = "locked"]
    /\ lock' = [lock EXCEPT ![target[c]] = c]
    /\ UNCHANGED <<store, held, request, staged, answer>>

(* The locking read found no live row.                                     *)
LockMiss(c) ==
    /\ phase[c] = "sent"
    /\ ~live[target[c]]
    /\ Finish(c, NoRowAnswer("notFound"))
    /\ UNCHANGED store

(* A statement without a guard writes other columns of the locked row; it  *)
(* does not advance the version and is not committed yet.                  *)
Rewrite(c) ==
    /\ phase[c] = "locked"
    /\ ~staged[c]
    /\ staged' = [staged EXCEPT ![c] = TRUE]
    /\ UNCHANGED <<store, lock, held, phase, request, answer>>

(* The guarded statement matches the row; with its commit the payload and  *)
(* what the transaction staged become the row, one version later.  Outside *)
(* a locking transaction it waits while another transaction has the lock.  *)
Apply(c) ==
    /\ \/ phase[c] = "sent" /\ lock[target[c]] = None
       \/ phase[c] = "locked"
    /\ GuardHolds(c)
    /\ Advance(target[c], payload[c], ~deleting[c])
    /\ Finish(c, [kind |-> "applied", version |-> version[target[c]] + 1,
                  content |-> payload[c]])

(* The guarded statement matches no row; the probe is the next statement.  *)
Miss(c) ==
    /\ phase[c] = "sent"
    /\ ~GuardHolds(c)
    /\ phase' = [phase EXCEPT ![c] = "missed"]
    /\ UNCHANGED <<store, lock, held, request, staged, answer>>

(* Mutant: a missing row classified by the default version.                *)
ClassifiedByDefault(c) ==
    [kind |-> "stale", content |-> 0,
     version |-> IF live[target[c]] THEN version[target[c]] ELSE 0]

(* classify_guarded_miss: by now the row may have moved again.             *)
Classified(c) ==
    IF live[target[c]]
    THEN [kind |-> "stale", version |-> version[target[c]], content |-> 0]
    ELSE NoRowAnswer("notFound")

Probe(c) ==
    /\ phase[c] = "missed"
    /\ Finish(c, Classified(c))
    /\ UNCHANGED store

(* Mutant: the early return commits the transaction instead of dropping it. *)
LockedMissCommitting(c) ==
    /\ phase[c] = "locked"
    /\ ~GuardHolds(c)
    /\ Finish(c, Classified(c))
    /\ content' = [content EXCEPT ![target[c]] =
                      IF staged[c] THEN payload[c] ELSE @]
    /\ past' = [past EXCEPT ![target[c]] = @ \cup {content'[target[c]]}]
    /\ UNCHANGED <<version, live>>

(* In a locking transaction the probe sees what the guard saw, and the     *)
(* early return drops the transaction: what it staged is rolled back.      *)
LockedMiss(c) ==
    /\ phase[c] = "locked"
    /\ ~GuardHolds(c)
    /\ Finish(c, Classified(c))
    /\ UNCHANGED store

(* A statement, the pool or the connection fails; nothing is committed.    *)
Fail(c) ==
    /\ phase[c] \in {"sent", "locked", "missed"}
    /\ Finish(c, NoRowAnswer("failed"))
    /\ UNCHANGED store

(* Another row's transaction rewrites r without a guard of its own: a leaf *)
(* refresh, a subtree move, or a product deletion retiring its SKUs.       *)
Cascade(r, survives) ==
    /\ lock[r] = None
    /\ tickets < MaxTickets
    /\ tickets' = tickets + 1
    /\ Advance(r, tickets + 1, survives)
    /\ UNCHANGED <<lock, held, phase, target, deleting, payload, staged, answer>>

Serve(c) ==
    Lock(c) \/ LockMiss(c) \/ Apply(c) \/ Miss(c) \/ Probe(c) \/ LockedMiss(c)

Next ==
    \/ \E c \in Clients :
        \/ Lock(c)
        \/ LockMiss(c)
        \/ Rewrite(c)
        \/ Apply(c)
        \/ Miss(c)
        \/ Probe(c)
        \/ LockedMiss(c)
        \/ Fail(c)
        \/ Receive(c)
        \/ LoseAnswer(c)
        \/ \E r \in Rows :
            \/ Retrieve(c, r)
            \/ ListRow(c, r)
            \/ \E isDelete \in BOOLEAN : Submit(c, r, isDelete)
    \/ \E r \in Rows, survives \in BOOLEAN : Cascade(r, survives)

Spec == Init /\ [][Next]_vars

(* PostgreSQL queues the waiters of a row lock, so a request that can be   *)
(* served again and again is served; clients read or abandon an answer.    *)
Fairness ==
    \A c \in Clients :
        /\ SF_vars(Serve(c))
        /\ WF_vars(Receive(c) \/ LoseAnswer(c))

FairSpec == Spec /\ Fairness

-------------------------------------------------------------------------------
(* Properties.                                                             *)

(* No lost update: a request's document is committed only over the very    *)
(* document its client had last received, whatever other clients, cascades *)
(* and lost responses did in between (TECH_ARCHITECTURE 9.1: two editors   *)
(* of one row no longer both succeed, the second overwriting the first).   *)
NoLostUpdate ==
    [][\A c \in Clients :
          answer'[c].kind = "applied" /\ phase[c] # "answered"
              /\ phase'[c] = "answered"
          => /\ live[target[c]]
             /\ content[target[c]] = held[c][target[c]].content]_vars

(* Whatever changes a committed row advances its version by one in the     *)
(* same commit, and a retired row stays retired: a copy can be trusted by  *)
(* its version alone, also after a refused write whose transaction had     *)
(* already rewritten part of the row.                                      *)
EveryChangeAdvances ==
    [][\A r \in Rows :
          /\ live'[r] => live[r]
          /\ \/ UNCHANGED <<version[r], content[r], live[r]>>
             \/ version'[r] = version[r] + 1]_vars

(* classify_guarded_miss cannot be fooled by the gap between the guarded   *)
(* statement and the probe: a 412 names a version later than the one the   *)
(* client sent and one the row has reached, a 404 means the row is gone.   *)
RefusalIsTruthful ==
    \A c \in Clients : phase[c] = "answered" =>
        /\ answer[c].kind = "stale" =>
              /\ answer[c].version > held[c][target[c]].version
              /\ answer[c].version <= version[target[c]]
        /\ answer[c].kind = "notFound" => ~live[target[c]]

(* A 412 is never an accident: when a client is told its version is stale, *)
(* the row no longer carries the document the client holds.                *)
RefusalMeansChange ==
    \A c \in Clients :
        phase[c] = "answered" /\ answer[c].kind = "stale" =>
            content[target[c]] # held[c][target[c]].content

(* Every request is answered or abandoned: row locks are always released,  *)
(* also when the guarded statement misses inside a locking transaction.    *)
EveryRequestEnds == \A c \in Clients : phase[c] # "idle" ~> phase[c] = "idle"

(* The editors of a row get what VersionedDocument promises.               *)
Promise == INSTANCE VersionedDocument
    WITH Documents <- 0..MaxTickets, doc <- content, alive <- live,
         seen <- [c \in Clients |-> [r \in Rows |-> held[c][r].content]]
PromiseSpec == Promise!Spec

-------------------------------------------------------------------------------
(* The inductive invariant of the proofs, in parts.                        *)

(* Document d at version v is a faithful copy of row r: it was committed,  *)
(* at or before the row's version, and at the row's version it is the      *)
(* row's document.                                                         *)
Faithful(v, d, r) ==
    /\ d \in past[r]
    /\ v <= version[r]
    /\ v = version[r] => d = content[r]

(* Every copy a client holds is faithful.                                  *)
CopyInv ==
    \A c \in Clients, r \in Rows :
        Faithful(held[c][r].version, held[c][r].content, r)

(* So is the copy an applied write is about to hand back.                  *)
AnswerInv ==
    \A c \in Clients :
        phase[c] = "answered" /\ answer[c].kind = "applied" =>
            Faithful(answer[c].version, answer[c].content, target[c])

(* A locked row belongs to one transaction and stays live under it.        *)
LockInv ==
    \A c \in Clients :
        phase[c] = "locked" => lock[target[c]] = c /\ live[target[c]]

(* A request that missed can only be classified one way or the other.      *)
MissInv ==
    \A c \in Clients :
        phase[c] = "missed" =>
            \/ ~live[target[c]]
            \/ version[target[c]] > held[c][target[c]].version

(* The current document was committed, and every document was drawn.       *)
PastInv ==
    /\ tickets <= MaxTickets
    /\ \A c \in Clients : payload[c] <= tickets
    /\ \A r \in Rows : content[r] \in past[r]

(* A document is written once: no request carries one that was committed,  *)
(* or that another request carries.                                        *)
Underway(c) == phase[c] \in {"sent", "locked", "missed"}
FreshInv ==
    /\ \A r \in Rows : past[r] \subseteq 0..tickets
    /\ \A c \in Clients : Underway(c) =>
          /\ \A r \in Rows : payload[c] \notin past[r]
          /\ \A e \in Clients \ {c} : Underway(e) => payload[e] # payload[c]

(* So the row's document names the row's version: a copy that has it was   *)
(* not taken at an earlier version.  Rows listed without their version are *)
(* the exception: version 0 may come with any of their documents.          *)
Dated(v, d, r) == d = content[r] => v = version[r]
DatedInv ==
    /\ \A c \in Clients, r \in Rows \ Unlisted :
           Dated(held[c][r].version, held[c][r].content, r)
    /\ \A c \in Clients :
           phase[c] = "answered" /\ answer[c].kind = "applied" =>
               Dated(answer[c].version, answer[c].content, target[c])

IInv == TypeOK /\ CopyInv /\ AnswerInv /\ LockInv /\ MissInv /\ PastInv
             /\ FreshInv /\ DatedInv /\ RefusalIsTruthful
===============================================================================
