----------------------- MODULE ConditionalWrite_proofs -----------------------
(***************************************************************************)
(* Proofs about ConditionalWrite, for any number of clients, rows, edits   *)
(* and any set of unversioned list projections.                            *)
(***************************************************************************)
EXTENDS ConditionalWrite, TLAPS

USE DEF store, request

(* Every variable keeps its type: the typing part of the invariant.        *)
LEMMA TypeStep == TypeOK /\ [Next]_vars => TypeOK'
<1> SUFFICES ASSUME TypeOK, [Next]_vars PROVE TypeOK'
  OBVIOUS
<1> USE DEF TypeOK, Phases, Copy, Answer, AnswerKinds
<1>1. ASSUME NEW c \in Clients, NEW r \in Rows, Retrieve(c, r) PROVE TypeOK'
  BY <1>1 DEF Retrieve
<1>2. ASSUME NEW c \in Clients, NEW r \in Rows, ListRow(c, r) PROVE TypeOK'
  BY <1>2 DEF ListRow, ListedVersion
<1>3. ASSUME NEW c \in Clients, NEW r \in Rows, NEW d \in BOOLEAN,
             Submit(c, r, d)
      PROVE  TypeOK'
  BY <1>3 DEF Submit
<1>4. ASSUME NEW c \in Clients, Receive(c) PROVE TypeOK'
  <2>1. answer[c].version \in Nat /\ answer[c].content \in Nat
    OBVIOUS
  <2>2. held' \in [Clients -> [Rows -> Copy]]
    <3>1. CASE answer[c].kind = "applied" /\ ~deleting[c]
      <4> DEFINE copy == [version |-> answer[c].version,
                          content |-> answer[c].content]
      <4>1. copy \in Copy
        BY <2>1
      <4>2. held' = [held EXCEPT ![c][target[c]] = copy]
        BY <1>4, <3>1 DEF Receive
      <4> HIDE DEF copy
      <4> QED
        BY <4>1, <4>2
    <3>2. CASE ~(answer[c].kind = "applied" /\ ~deleting[c])
      BY <1>4, <3>2 DEF Receive
    <3> QED
      BY <3>1, <3>2
  <2> QED
    BY <1>4, <2>2 DEF Receive
<1>5. ASSUME NEW c \in Clients, LoseAnswer(c) PROVE TypeOK'
  BY <1>5 DEF LoseAnswer
<1>6. ASSUME NEW c \in Clients, Lock(c) PROVE TypeOK'
  BY <1>6 DEF Lock
<1>7. ASSUME NEW c \in Clients, LockMiss(c) PROVE TypeOK'
  BY <1>7 DEF LockMiss, Finish, NoRowAnswer
<1>8. ASSUME NEW c \in Clients, Rewrite(c) PROVE TypeOK'
  BY <1>8 DEF Rewrite
<1>9. ASSUME NEW c \in Clients, Apply(c) PROVE TypeOK'
  BY <1>9 DEF Apply, Advance, Finish
<1>10. ASSUME NEW c \in Clients, Miss(c) PROVE TypeOK'
  BY <1>10 DEF Miss
<1>11. ASSUME NEW c \in Clients, Probe(c) PROVE TypeOK'
  BY <1>11 DEF Probe, Finish, Classified, NoRowAnswer
<1>12. ASSUME NEW c \in Clients, LockedMiss(c) PROVE TypeOK'
  BY <1>12 DEF LockedMiss, Finish, Classified, NoRowAnswer
<1>13. ASSUME NEW c \in Clients, Fail(c) PROVE TypeOK'
  BY <1>13 DEF Fail, Finish, NoRowAnswer
<1>14. ASSUME NEW r \in Rows, NEW s \in BOOLEAN, Cascade(r, s) PROVE TypeOK'
  BY <1>14 DEF Cascade, Advance
<1>15. CASE UNCHANGED vars
  BY <1>15 DEF vars
<1> QED
  BY <1>1, <1>2, <1>3, <1>4, <1>5, <1>6, <1>7, <1>8, <1>9, <1>10, <1>11,
     <1>12, <1>13, <1>14, <1>15 DEF Next

-------------------------------------------------------------------------------
(* What a step can do to a row, and to a copy a client holds.              *)

(* A step leaves a row alone or commits it one version later; it forgets   *)
(* no document and revives no retired row.                                 *)
LEMMA RowStep ==
    ASSUME TypeOK, [Next]_vars, NEW r \in Rows
    PROVE  \/ UNCHANGED <<version[r], content[r], live[r], past[r]>>
           \/ /\ version'[r] = version[r] + 1
              /\ content'[r] \in past'[r]
              /\ past[r] \subseteq past'[r]
              /\ live'[r] => live[r]
<1> DEFINE Goal ==
        \/ UNCHANGED <<version[r], content[r], live[r], past[r]>>
        \/ /\ version'[r] = version[r] + 1
           /\ content'[r] \in past'[r]
           /\ past[r] \subseteq past'[r]
           /\ live'[r] => live[r]
<1>1. ASSUME NEW q \in Rows, NEW d \in Nat, NEW s \in BOOLEAN, Advance(q, d, s)
      PROVE  Goal
  BY <1>1 DEF Advance, TypeOK
<1>2. ASSUME NEW c \in Clients, Apply(c) PROVE Goal
  BY <1>1, <1>2 DEF Apply, TypeOK
<1>3. ASSUME NEW q \in Rows, NEW s \in BOOLEAN, Cascade(q, s) PROVE Goal
  <2>1. tickets + 1 \in Nat
    BY DEF TypeOK
  <2> QED
    BY <1>1, <1>3, <2>1 DEF Cascade
<1>4. CASE UNCHANGED store
  BY <1>4
<1> QED
  BY <1>2, <1>3, <1>4 DEF Next, vars, Lock, LockMiss, Rewrite, Miss, Probe,
     LockedMiss, Fail, Receive, LoseAnswer, Retrieve, ListRow, Submit

(* A copy changes only by a read of the row or by an applied answer.       *)
LEMMA HeldStep ==
    ASSUME TypeOK, [Next]_vars, NEW c \in Clients, NEW r \in Rows
    PROVE  \/ held'[c][r] = held[c][r]
           \/ held'[c][r] = [version |-> version[r], content |-> content[r]]
           \/ /\ r \in Unlisted
              /\ held'[c][r] = [version |-> 0, content |-> content[r]]
           \/ /\ phase[c] = "answered" /\ answer[c].kind = "applied"
              /\ target[c] = r
              /\ held'[c][r] = [version |-> answer[c].version,
                                content |-> answer[c].content]
<1> DEFINE Goal ==
           \/ held'[c][r] = held[c][r]
           \/ held'[c][r] = [version |-> version[r], content |-> content[r]]
           \/ /\ r \in Unlisted
              /\ held'[c][r] = [version |-> 0, content |-> content[r]]
           \/ /\ phase[c] = "answered" /\ answer[c].kind = "applied"
              /\ target[c] = r
              /\ held'[c][r] = [version |-> answer[c].version,
                                content |-> answer[c].content]
<1>1. ASSUME NEW e \in Clients, NEW q \in Rows, Retrieve(e, q) PROVE Goal
  BY <1>1 DEF Retrieve, TypeOK
<1>2. ASSUME NEW e \in Clients, NEW q \in Rows, ListRow(e, q) PROVE Goal
  BY <1>2 DEF ListRow, ListedVersion, TypeOK
<1>3. ASSUME NEW e \in Clients, Receive(e) PROVE Goal
  <2>1. CASE answer[e].kind = "applied" /\ ~deleting[e]
    <3> DEFINE copy == [version |-> answer[e].version,
                        content |-> answer[e].content]
    <3>1. held' = [held EXCEPT ![e][target[e]] = copy]
      BY <1>3, <2>1 DEF Receive
    <3>2. target[e] \in Rows
      BY DEF TypeOK
    <3>3. held'[c][r] = IF c = e /\ r = target[e] THEN copy ELSE held[c][r]
      BY <3>1, <3>2 DEF TypeOK
    <3> QED
      BY <3>3, <2>1, <1>3 DEF Receive
  <2>2. CASE ~(answer[e].kind = "applied" /\ ~deleting[e])
    BY <1>3, <2>2 DEF Receive
  <2> QED
    BY <2>1, <2>2
<1>4. CASE UNCHANGED held
  BY <1>4
<1> QED
  BY <1>1, <1>2, <1>3, <1>4 DEF Next, vars, Lock, LockMiss, Rewrite, Apply,
     Miss, Probe, LockedMiss, Fail, Finish, LoseAnswer, Submit, Cascade

(* The state of c's request changes only by c's own steps.                 *)
LEMMA RequestStep ==
    ASSUME TypeOK, [Next]_vars, NEW c \in Clients
    PROVE  \/ UNCHANGED <<phase[c], target[c], answer[c], payload[c]>>
           \/ \E r \in Rows, d \in BOOLEAN : Submit(c, r, d)
           \/ Receive(c) \/ LoseAnswer(c) \/ Lock(c) \/ LockMiss(c) \/ Apply(c)
           \/ Miss(c) \/ Probe(c) \/ LockedMiss(c) \/ Fail(c)
<1> DEFINE Same == UNCHANGED <<phase[c], target[c], answer[c], payload[c]>>
<1>1. ASSUME NEW e \in Clients, e # c, NEW r \in Rows, NEW d \in BOOLEAN,
             Submit(e, r, d)
      PROVE  Same
  BY <1>1 DEF Submit, TypeOK
<1>2. ASSUME NEW e \in Clients, e # c, Receive(e) \/ LoseAnswer(e) PROVE Same
  BY <1>2 DEF Receive, LoseAnswer, TypeOK
<1>3. ASSUME NEW e \in Clients, e # c, Lock(e) \/ Miss(e) PROVE Same
  BY <1>3 DEF Lock, Miss, TypeOK
<1>4. ASSUME NEW e \in Clients, e # c, NEW a, Finish(e, a) PROVE Same
  BY <1>4 DEF Finish, TypeOK
<1>5. ASSUME NEW e \in Clients, e # c,
             LockMiss(e) \/ Apply(e) \/ Probe(e) \/ LockedMiss(e) \/ Fail(e)
      PROVE  Same
  BY <1>4, <1>5 DEF LockMiss, Apply, Probe, LockedMiss, Fail
<1>6. ASSUME NEW e \in Clients, Rewrite(e) PROVE Same
  BY <1>6 DEF Rewrite
<1>7. ASSUME NEW e \in Clients, NEW r \in Rows, Retrieve(e, r) \/ ListRow(e, r)
      PROVE  Same
  BY <1>7 DEF Retrieve, ListRow
<1>8. ASSUME NEW r \in Rows, NEW s \in BOOLEAN, Cascade(r, s) PROVE Same
  BY <1>8 DEF Cascade
<1>9. CASE UNCHANGED vars
  BY <1>9 DEF vars
<1> QED
  BY <1>1, <1>2, <1>3, <1>5, <1>6, <1>7, <1>8, <1>9 DEF Next

(* While a client's request is under way its copies stay as they were.     *)
LEMMA BusyKeepsCopies ==
    ASSUME TypeOK, [Next]_vars, NEW c \in Clients, phase'[c] # "idle"
    PROVE  held'[c] = held[c]
<1>1. ASSUME NEW e \in Clients, NEW r \in Rows, Retrieve(e, r) \/ ListRow(e, r)
      PROVE  held'[c] = held[c]
  <2>1. e # c
    BY <1>1 DEF Retrieve, ListRow
  <2> QED
    BY <1>1, <2>1 DEF Retrieve, ListRow, TypeOK
<1>2. ASSUME NEW e \in Clients, Receive(e) PROVE held'[c] = held[c]
  <2>1. e # c
    BY <1>2 DEF Receive, TypeOK
  <2> QED
    BY <1>2, <2>1 DEF Receive, TypeOK
<1>3. CASE UNCHANGED held
  BY <1>3
<1> QED
  BY <1>1, <1>2, <1>3 DEF Next, vars, Lock, LockMiss, Rewrite, Apply, Miss,
     Probe, LockedMiss, Fail, Finish, LoseAnswer, Submit, Cascade

(* A faithful copy stays faithful while the row moves on.                  *)
LEMMA FaithfulPersists ==
    ASSUME TypeOK, [Next]_vars, NEW r \in Rows, NEW v \in Nat, NEW d \in Nat,
           Faithful(v, d, r)
    PROVE  Faithful(v, d, r)'
<1>1. version[r] \in Nat
  BY DEF TypeOK
<1> QED
  BY <1>1, RowStep DEF Faithful

(* A copy of the current row is faithful, and so is one that claims to be  *)
(* version 0: version 0 is never reached again.                            *)
LEMMA ReadIsFaithful ==
    ASSUME TypeOK, PastInv, NEW r \in Rows, NEW v \in {0, version[r]}
    PROVE  Faithful(v, content[r], r) /\ v \in Nat /\ content[r] \in Nat
BY DEF TypeOK, PastInv, Faithful

(* A copy's fields, and the row columns they are compared with, are        *)
(* numbers, and the copy is faithful.                                      *)
LEMMA CopyFacts ==
    ASSUME TypeOK, CopyInv, NEW c \in Clients, NEW r \in Rows
    PROVE  /\ version[r] \in Nat /\ content[r] \in Nat
           /\ held[c][r] \in Copy
           /\ held[c][r].version \in Nat /\ held[c][r].content \in Nat
           /\ Faithful(held[c][r].version, held[c][r].content, r)
<1>1. held[c] \in [Rows -> Copy]
  BY DEF TypeOK
<1>2. held[c][r] \in Copy
  BY <1>1
<1> QED
  BY <1>2 DEF TypeOK, CopyInv, Copy

(* A guard that fails on a live row fails because the row is further on.   *)
LEMMA MissedIsLater ==
    ASSUME TypeOK, CopyInv, NEW c \in Clients, ~GuardHolds(c)
    PROVE  \/ ~live[target[c]]
           \/ version[target[c]] > held[c][target[c]].version
<1>1. target[c] \in Rows
  BY DEF TypeOK
<1>2. \/ ~live[target[c]]
      \/ version[target[c]] # held[c][target[c]].version
  BY DEF GuardHolds
<1>3. /\ version[target[c]] \in Nat
      /\ held[c][target[c]].version \in Nat
      /\ held[c][target[c]].version <= version[target[c]]
  BY <1>1, CopyFacts DEF Faithful
<1> QED
  BY <1>2, <1>3

-------------------------------------------------------------------------------
(* The parts of the invariant, step by step.                               *)

(* Every copy a client holds stays faithful, whoever writes the row.       *)
LEMMA CopyStep ==
    TypeOK /\ CopyInv /\ AnswerInv /\ PastInv /\ [Next]_vars => CopyInv'
<1> SUFFICES ASSUME TypeOK, CopyInv, AnswerInv, PastInv, [Next]_vars,
                    NEW c \in Clients, NEW r \in Rows
             PROVE  Faithful(held[c][r].version, held[c][r].content, r)'
  BY DEF CopyInv
<1>1. CASE held'[c][r] = held[c][r]
  <2> DEFINE v == held[c][r].version
             d == held[c][r].content
  <2>1. PICK w \in Nat, e \in Nat : w = v /\ e = d
    BY CopyFacts
  <2>2. Faithful(w, e, r)
    BY <2>1, CopyFacts
  <2>3. Faithful(w, e, r)'
    BY <2>2, FaithfulPersists
  <2> QED
    BY <1>1, <2>1, <2>3 DEF Faithful
<1>2. CASE \E v \in {0, version[r]} :
              held'[c][r] = [version |-> v, content |-> content[r]]
  <2>1. PICK w \in {0, version[r]}, e \in Nat :
           /\ e = content[r]
           /\ held'[c][r] = [version |-> w, content |-> e]
    BY <1>2, CopyFacts
  <2>2. Faithful(w, e, r) /\ w \in Nat
    BY <2>1, ReadIsFaithful
  <2>3. Faithful(w, e, r)'
    BY <2>2, FaithfulPersists
  <2> QED
    BY <2>1, <2>3 DEF Faithful
<1>3. CASE /\ phase[c] = "answered" /\ answer[c].kind = "applied"
           /\ target[c] = r
           /\ held'[c][r] = [version |-> answer[c].version,
                             content |-> answer[c].content]
  <2>1. answer[c].version \in Nat /\ answer[c].content \in Nat
    BY DEF TypeOK, Answer
  <2>2. PICK w \in Nat, e \in Nat :
           /\ w = answer[c].version /\ e = answer[c].content
           /\ held'[c][r] = [version |-> w, content |-> e]
    BY <1>3, <2>1
  <2>3. Faithful(w, e, r)
    BY <1>3, <2>2 DEF AnswerInv
  <2>4. Faithful(w, e, r)'
    BY <2>3, FaithfulPersists
  <2> QED
    BY <2>2, <2>4 DEF Faithful
<1> QED
  BY <1>1, <1>2, <1>3, HeldStep

(* The copy an applied write hands back is the row it has just committed.  *)
LEMMA AnswerStep == TypeOK /\ AnswerInv /\ [Next]_vars => AnswerInv'
<1> SUFFICES ASSUME TypeOK, AnswerInv, [Next]_vars, NEW c \in Clients,
                    phase'[c] = "answered", answer'[c].kind = "applied"
             PROVE  Faithful(answer[c].version, answer[c].content, target[c])'
  BY DEF AnswerInv
<1>1. CASE Apply(c)
  <2>1. /\ target[c] \in Rows /\ payload[c] \in Nat
        /\ version[target[c]] \in Nat
    BY DEF TypeOK
  <2>2. /\ target' = target
        /\ version'[target[c]] = version[target[c]] + 1
        /\ content'[target[c]] = payload[c]
        /\ payload[c] \in past'[target[c]]
    BY <1>1, <2>1 DEF Apply, Advance, Finish, TypeOK
  <2>3. answer'[c] = [kind |-> "applied", version |-> version[target[c]] + 1,
                      content |-> payload[c]]
    BY <1>1 DEF Apply, Finish, TypeOK
  <2> QED
    BY <2>1, <2>2, <2>3 DEF Faithful
<1>2. CASE ~Apply(c)
  <2>1. /\ phase[c] = "answered" /\ answer'[c] = answer[c]
        /\ target'[c] = target[c]
    BY <1>2, RequestStep DEF TypeOK, Lock, LockMiss, Miss, Probe, LockedMiss,
       Fail, Finish, Classified, NoRowAnswer, Receive, LoseAnswer, Submit
  <2>2. PICK r \in Rows, w \in Nat, e \in Nat :
           r = target[c] /\ w = answer[c].version /\ e = answer[c].content
    BY DEF TypeOK, Answer
  <2>3. Faithful(w, e, r)
    BY <2>1, <2>2 DEF AnswerInv
  <2>4. Faithful(w, e, r)'
    BY <2>3, FaithfulPersists
  <2> QED
    BY <2>1, <2>2, <2>4 DEF Faithful
<1> QED
  BY <1>1, <1>2

(* A row lock is taken only when free and given back only by its holder,   *)
(* and nobody else commits to the row meanwhile.                           *)
LEMMA LockStep == TypeOK /\ LockInv /\ [Next]_vars => LockInv'
<1> SUFFICES ASSUME TypeOK, LockInv, [Next]_vars, NEW c \in Clients,
                    phase'[c] = "locked"
             PROVE  lock'[target'[c]] = c /\ live'[target'[c]]
  BY DEF LockInv
<1> DEFINE r == target[c]
<1>0. r \in Rows /\ c # None
  BY NoneAssumption DEF TypeOK
<1>1. CASE Lock(c)
  BY <1>0, <1>1 DEF Lock, TypeOK
<1>2. CASE ~Lock(c)
  <2>1. phase[c] = "locked" /\ target'[c] = r
    BY <1>2, RequestStep DEF TypeOK, LockMiss, Apply, Miss, Probe, LockedMiss,
       Fail, Finish, Receive, LoseAnswer, Submit
  <2>2. lock[r] = c /\ live[r]
    BY <2>1 DEF LockInv
  <2>3. ASSUME NEW e \in Clients, Lock(e) PROVE lock'[r] = c /\ live'[r]
    BY <2>2, <2>3, <1>0 DEF Lock, TypeOK
  <2>4. ASSUME NEW e \in Clients, e # c,
               LockMiss(e) \/ Probe(e) \/ LockedMiss(e) \/ Fail(e)
        PROVE  lock'[r] = c /\ live'[r]
    BY <2>2, <2>4, <1>0 DEF LockMiss, Probe, LockedMiss, Fail, Finish, TypeOK
  <2>5. ASSUME NEW e \in Clients, e # c, Apply(e)
        PROVE  lock'[r] = c /\ live'[r]
    <3>1. target[e] # r
      BY <2>2, <2>5, <1>0 DEF Apply, LockInv
    <3> QED
      BY <2>2, <2>5, <3>1, <1>0 DEF Apply, Advance, Finish, TypeOK
  <2>6. ASSUME NEW q \in Rows, NEW s \in BOOLEAN, Cascade(q, s)
        PROVE  lock'[r] = c /\ live'[r]
    BY <2>2, <2>6, <1>0 DEF Cascade, Advance, TypeOK
  <2>7. CASE lock' = lock /\ live' = live
    BY <2>1, <2>2, <2>7
  <2>8. ASSUME LockMiss(c) \/ Probe(c) \/ LockedMiss(c) \/ Fail(c) \/ Apply(c)
        PROVE  FALSE
    BY <2>8 DEF LockMiss, Probe, LockedMiss, Fail, Apply, Finish, TypeOK
  <2> QED
    BY <2>1, <2>3, <2>4, <2>5, <2>6, <2>7, <2>8 DEF Next, vars, Rewrite, Miss,
       Receive, LoseAnswer, Retrieve, ListRow, Submit
<1> QED
  BY <1>1, <1>2

(* While a request waits for its probe the row only moves further away.    *)
LEMMA MissStep == TypeOK /\ CopyInv /\ MissInv /\ [Next]_vars => MissInv'
<1> SUFFICES ASSUME TypeOK, CopyInv, MissInv, [Next]_vars, NEW c \in Clients,
                    phase'[c] = "missed"
             PROVE  \/ ~live'[target'[c]]
                    \/ version'[target'[c]] > held'[c][target'[c]].version
  BY DEF MissInv
<1> DEFINE r == target[c]
<1>0. r \in Rows /\ version[r] \in Nat
  BY DEF TypeOK
<1>1. CASE Miss(c)
  <2>1. ~live[r] \/ version[r] > held[c][r].version
    BY <1>1, MissedIsLater DEF Miss
  <2> QED
    BY <1>1, <2>1 DEF Miss
<1>2. CASE ~Miss(c)
  <2>1. phase[c] = "missed" /\ target'[c] = r
    BY <1>2, RequestStep DEF TypeOK, Lock, LockMiss, Apply, Probe, LockedMiss,
       Fail, Finish, Receive, LoseAnswer, Submit
  <2>2. ~live[r] \/ version[r] > held[c][r].version
    BY <2>1 DEF MissInv
  <2>3. held'[c] = held[c]
    BY BusyKeepsCopies
  <2>4. held[c][r].version \in Nat
    BY <1>0, CopyFacts
  <2> QED
    BY <1>0, <2>1, <2>2, <2>3, <2>4, RowStep
<1> QED
  BY <1>1, <1>2

(* Only drawn documents are committed, and each commit is remembered.      *)
LEMMA PastStep == TypeOK /\ PastInv /\ [Next]_vars => PastInv'
<1> SUFFICES ASSUME TypeOK, PastInv, [Next]_vars PROVE PastInv'
  OBVIOUS
<1>1. \A r \in Rows : content'[r] \in past'[r]
  BY RowStep DEF PastInv
<1>2. tickets \in Nat /\ tickets <= MaxTickets /\ MaxTickets \in Nat
  BY MaxTicketsAssumption DEF TypeOK, PastInv
<1>3. \/ UNCHANGED <<tickets, payload>>
      \/ /\ tickets < MaxTickets /\ tickets' = tickets + 1
         /\ \A c \in Clients : payload'[c] \in {payload[c], tickets + 1}
  <2>1. ASSUME NEW c \in Clients, NEW r \in Rows, NEW d \in BOOLEAN,
               Submit(c, r, d)
        PROVE  /\ tickets < MaxTickets /\ tickets' = tickets + 1
               /\ \A e \in Clients : payload'[e] \in {payload[e], tickets + 1}
    BY <2>1 DEF Submit, TypeOK
  <2>2. ASSUME NEW r \in Rows, NEW s \in BOOLEAN, Cascade(r, s)
        PROVE  tickets < MaxTickets /\ tickets' = tickets + 1 /\ payload' = payload
    BY <2>2 DEF Cascade
  <2>3. CASE UNCHANGED <<tickets, payload>>
    BY <2>3
  <2> QED
    BY <2>1, <2>2, <2>3 DEF Next, vars, Lock, LockMiss, Rewrite, Apply, Miss,
       Probe, LockedMiss, Fail, Finish, Receive, LoseAnswer, Retrieve, ListRow
<1>4. \A c \in Clients : payload[c] \in Nat /\ payload[c] <= tickets
  BY DEF TypeOK, PastInv
<1>5. tickets' <= MaxTickets
  BY <1>2, <1>3
<1>6. \A c \in Clients : payload'[c] <= tickets'
  BY <1>2, <1>3, <1>4
<1> QED
  BY <1>1, <1>5, <1>6 DEF PastInv

(* An answer stays true after it was given: versions only grow and retired *)
(* rows stay retired.                                                      *)
LEMMA RefusalStep ==
    /\ TypeOK /\ CopyInv /\ LockInv /\ MissInv /\ RefusalIsTruthful
    /\ [Next]_vars
    => RefusalIsTruthful'
<1> SUFFICES ASSUME TypeOK, CopyInv, LockInv, MissInv, RefusalIsTruthful,
                    [Next]_vars, NEW c \in Clients, phase'[c] = "answered"
             PROVE  /\ answer'[c].kind = "stale" =>
                         /\ answer'[c].version > held'[c][target'[c]].version
                         /\ answer'[c].version <= version'[target'[c]]
                    /\ answer'[c].kind = "notFound" => ~live'[target'[c]]
  BY DEF RefusalIsTruthful
<1> DEFINE r == target[c]
<1>0. /\ r \in Rows /\ version[r] \in Nat /\ held[c][r].version \in Nat
      /\ answer[c].version \in Nat
  BY CopyFacts DEF TypeOK, Answer
<1>1. target'[c] = r /\ held'[c] = held[c]
  BY RequestStep, BusyKeepsCopies DEF TypeOK, Lock, LockMiss, Apply, Miss,
     Probe, LockedMiss, Fail, Finish, Receive, LoseAnswer, Submit
<1>2. ASSUME Finish(c, Classified(c)), UNCHANGED store,
             ~live[r] \/ version[r] > held[c][r].version
      PROVE  /\ answer'[c].kind = "stale" =>
                  /\ answer'[c].version > held[c][r].version
                  /\ answer'[c].version <= version'[r]
             /\ answer'[c].kind = "notFound" => ~live'[r]
  BY <1>0, <1>2 DEF Finish, Classified, NoRowAnswer, TypeOK
<1>3. CASE Probe(c)
  BY <1>1, <1>2, <1>3 DEF Probe, MissInv
<1>4. CASE LockedMiss(c)
  BY <1>1, <1>2, <1>4, MissedIsLater DEF LockedMiss
<1>5. CASE LockMiss(c)
  BY <1>1, <1>5 DEF LockMiss, Finish, NoRowAnswer, TypeOK
<1>6. CASE Fail(c) \/ Apply(c)
  BY <1>6 DEF Fail, Apply, Finish, NoRowAnswer, TypeOK
<1>7. CASE phase[c] = "answered" /\ answer'[c] = answer[c]
  BY <1>0, <1>1, <1>7, RowStep DEF RefusalIsTruthful
<1> QED
  BY <1>3, <1>4, <1>5, <1>6, <1>7, RequestStep DEF TypeOK, Lock, Miss,
     Receive, LoseAnswer, Submit

-------------------------------------------------------------------------------
(* Documents and versions name one another.                                *)

(* A new version comes with a document nobody has seen, by a request of    *)
(* its own or in the wake of another row's, and no client reads meanwhile. *)
LEMMA NewVersion ==
    ASSUME TypeOK, PastInv, FreshInv, [Next]_vars, NEW r \in Rows,
           ~UNCHANGED <<version[r], content[r]>>
    PROVE  content'[r] \notin past[r] /\ held' = held
<1>1. ASSUME NEW c \in Clients, Apply(c) PROVE content'[r] \notin past[r] /\ held' = held
  <2>1. phase[c] \in {"sent", "locked"} /\ Advance(target[c], payload[c], ~deleting[c])
        /\ held' = held
    BY <1>1 DEF Apply, Finish
  <2>2. target[c] = r /\ content'[r] = payload[c]
    BY <2>1 DEF Advance, TypeOK
  <2> QED
    BY <2>1, <2>2 DEF FreshInv, Underway
<1>2. ASSUME NEW q \in Rows, NEW s \in BOOLEAN, Cascade(q, s)
      PROVE  content'[r] \notin past[r] /\ held' = held
  <2>1. Advance(q, tickets + 1, s) /\ held' = held
    BY <1>2 DEF Cascade
  <2>2. content'[r] = tickets + 1
    BY <2>1 DEF Advance, TypeOK
  <2>3. tickets + 1 \notin 0..tickets
    BY DEF TypeOK
  <2> QED
    BY <2>1, <2>2, <2>3 DEF FreshInv
<1> QED
  BY <1>1, <1>2 DEF Next, vars, Lock, LockMiss, Rewrite, Miss, Probe, LockedMiss,
     Fail, Receive, LoseAnswer, Retrieve, ListRow, Submit

(* Drawing and committing documents, one action at a time.                 *)
LEMMA FreshStep == TypeOK /\ PastInv /\ FreshInv /\ [Next]_vars => FreshInv'
<1> SUFFICES ASSUME TypeOK, PastInv, FreshInv, [Next]_vars PROVE FreshInv'
  OBVIOUS
<1>0. /\ tickets \in Nat
      /\ \A c \in Clients : payload[c] \in Nat /\ payload[c] <= tickets
      /\ \A c \in Clients : target[c] \in Rows
  BY DEF TypeOK, PastInv
<1>1. ASSUME NEW c \in Clients, NEW r \in Rows, NEW d \in BOOLEAN, Submit(c, r, d)
      PROVE  FreshInv'
  <2>1. /\ tickets' = tickets + 1 /\ past' = past /\ payload'[c] = tickets + 1
        /\ \A e \in Clients \ {c} : payload'[e] = payload[e] /\ phase'[e] = phase[e]
    BY <1>1 DEF Submit, TypeOK
  <2>2. \A q \in Rows : past'[q] \subseteq 0..tickets' /\ tickets + 1 \notin past'[q]
    BY <1>0, <2>1 DEF FreshInv
  <2>3. \A e \in Clients \ {c} : payload'[e] # tickets + 1
    BY <1>0, <2>1
  <2> QED
    BY <2>1, <2>2, <2>3 DEF FreshInv, Underway
<1>2. ASSUME NEW c \in Clients, Apply(c) PROVE FreshInv'
  <2>1. /\ phase[c] \in {"sent", "locked"} /\ phase'[c] = "answered"
        /\ tickets' = tickets /\ payload' = payload
        /\ \A e \in Clients \ {c} : phase'[e] = phase[e]
        /\ \A q \in Rows : past'[q] \subseteq past[q] \cup {payload[c]}
    BY <1>2 DEF Apply, Advance, Finish, TypeOK
  <2>2. \A q \in Rows : past'[q] \subseteq 0..tickets
    <3>1. payload[c] \in 0..tickets
      BY <1>0
    <3> QED
      BY <2>1, <3>1 DEF FreshInv
  <2> QED
    BY <2>1, <2>2 DEF FreshInv, Underway
<1>3. ASSUME NEW r \in Rows, NEW s \in BOOLEAN, Cascade(r, s) PROVE FreshInv'
  <2>1. /\ tickets' = tickets + 1 /\ payload' = payload /\ phase' = phase
        /\ \A q \in Rows : past'[q] \subseteq past[q] \cup {tickets + 1}
    BY <1>3 DEF Cascade, Advance, TypeOK
  <2>2. /\ \A q \in Rows : past'[q] \subseteq 0..(tickets + 1)
        /\ \A c \in Clients : payload[c] # tickets + 1
    BY <1>0, <2>1 DEF FreshInv
  <2> QED
    BY <2>1, <2>2 DEF FreshInv, Underway
<1>4. CASE /\ UNCHANGED <<past, tickets, payload>>
           /\ \A c \in Clients : Underway(c)' => Underway(c)
  BY <1>4 DEF FreshInv
<1>5. ASSUME NEW c \in Clients,
             \/ Lock(c) \/ LockMiss(c) \/ Rewrite(c) \/ Miss(c) \/ Probe(c)
             \/ LockedMiss(c) \/ Fail(c) \/ Receive(c) \/ LoseAnswer(c)
      PROVE  FreshInv'
  <2>1. UNCHANGED <<past, tickets, payload>>
    BY <1>5 DEF Lock, LockMiss, Rewrite, Miss, Probe, LockedMiss, Fail, Finish,
       Receive, LoseAnswer
  <2>2. \A e \in Clients : Underway(e)' => Underway(e)
    BY <1>5 DEF Underway, Lock, LockMiss, Rewrite, Miss, Probe, LockedMiss, Fail,
       Finish, Receive, LoseAnswer, TypeOK
  <2> QED
    BY <1>4, <2>1, <2>2
<1>6. ASSUME NEW c \in Clients, NEW r \in Rows, Retrieve(c, r) \/ ListRow(c, r)
      PROVE  FreshInv'
  BY <1>4, <1>6 DEF Retrieve, ListRow, Underway
<1>7. CASE UNCHANGED vars
  BY <1>4, <1>7 DEF vars, Underway
<1> QED
  BY <1>1, <1>2, <1>3, <1>5, <1>6, <1>7 DEF Next

(* A copy that falls behind its row never looks current again by content:  *)
(* the document of every later version is new.                             *)
LEMMA DatedStep ==
    /\ TypeOK /\ CopyInv /\ AnswerInv /\ PastInv /\ FreshInv /\ DatedInv
    /\ [Next]_vars
    => DatedInv'
<1> SUFFICES ASSUME TypeOK, CopyInv, AnswerInv, PastInv, FreshInv, DatedInv, [Next]_vars
             PROVE  DatedInv'
  OBVIOUS
<1>1. ASSUME NEW c \in Clients, phase[c] = "answered", answer[c].kind = "applied"
      PROVE  /\ Dated(answer[c].version, answer[c].content, target[c])
             /\ answer[c].version \in Nat /\ answer[c].content \in past[target[c]]
             /\ target[c] \in Rows
  BY <1>1 DEF DatedInv, AnswerInv, Faithful, TypeOK, Answer
<1>2. ASSUME NEW c \in Clients, NEW r \in Rows \ Unlisted
      PROVE  Dated(held[c][r].version, held[c][r].content, r)'
  <2>1. CASE UNCHANGED <<version[r], content[r]>>
    <3>1. CASE held'[c][r] = held[c][r]
      BY <1>2, <2>1, <3>1 DEF Dated, DatedInv
    <3>2. CASE held'[c][r] = [version |-> version[r], content |-> content[r]]
      BY <2>1, <3>2 DEF Dated
    <3>3. CASE /\ phase[c] = "answered" /\ answer[c].kind = "applied"
               /\ target[c] = r
               /\ held'[c][r] = [version |-> answer[c].version,
                                 content |-> answer[c].content]
      BY <1>1, <2>1, <3>3 DEF Dated
    <3>4. r \in Rows /\ r \notin Unlisted
      BY <1>2
    <3>5. \/ held'[c][r] = held[c][r]
          \/ held'[c][r] = [version |-> version[r], content |-> content[r]]
          \/ /\ phase[c] = "answered" /\ answer[c].kind = "applied"
             /\ target[c] = r
             /\ held'[c][r] = [version |-> answer[c].version,
                               content |-> answer[c].content]
      BY <3>4, HeldStep
    <3> QED
      BY <3>1, <3>2, <3>3, <3>5
  <2>2. CASE ~UNCHANGED <<version[r], content[r]>>
    BY <2>2, CopyFacts, NewVersion DEF Dated, Faithful
  <2> QED
    BY <2>1, <2>2
<1>3. ASSUME NEW c \in Clients, phase'[c] = "answered", answer'[c].kind = "applied"
      PROVE  Dated(answer[c].version, answer[c].content, target[c])'
  <2>1. CASE Apply(c)
    <3>1. /\ target[c] \in Rows /\ target' = target
          /\ version'[target[c]] = version[target[c]] + 1
          /\ answer'[c].version = version[target[c]] + 1
      BY <2>1 DEF Apply, Advance, Finish, TypeOK
    <3> QED
      BY <3>1 DEF Dated
  <2>2. CASE ~Apply(c)
    <3>1. /\ phase[c] = "answered" /\ answer'[c] = answer[c]
          /\ target'[c] = target[c]
      BY <1>3, <2>2, RequestStep DEF TypeOK, Lock, LockMiss, Miss, Probe, LockedMiss,
         Fail, Finish, Classified, NoRowAnswer, Receive, LoseAnswer, Submit
    <3>2. /\ Dated(answer[c].version, answer[c].content, target[c])
          /\ answer[c].version \in Nat /\ answer[c].content \in past[target[c]]
          /\ target[c] \in Rows
      BY <1>1, <1>3, <3>1
    <3> QED
      BY <3>1, <3>2, NewVersion DEF Dated
  <2> QED
    BY <2>1, <2>2
<1> QED
  BY <1>2, <1>3 DEF DatedInv

-------------------------------------------------------------------------------
(* The theorems.                                                           *)

(* The invariant holds of freshly created rows.                            *)
LEMMA InitIInv == Init => IInv
<1> SUFFICES ASSUME Init PROVE IInv
  OBVIOUS
<1>1. TypeOK
  BY DEF Init, TypeOK, Phases, Copy, Answer, AnswerKinds
<1>2. CopyInv
  BY DEF Init, CopyInv, Faithful
<1>3. PastInv
  BY MaxTicketsAssumption DEF Init, PastInv
<1>4. AnswerInv /\ LockInv /\ MissInv /\ RefusalIsTruthful
  BY DEF Init, AnswerInv, LockInv, MissInv, RefusalIsTruthful
<1>5. FreshInv
  BY DEF Init, FreshInv, Underway
<1>6. DatedInv
  BY DEF Init, DatedInv, Dated
<1> QED
  BY <1>1, <1>2, <1>3, <1>4, <1>5, <1>6 DEF IInv

(* Every step preserves the invariant: its parts, one lemma each.          *)
LEMMA NextIInv == IInv /\ [Next]_vars => IInv'
BY TypeStep, CopyStep, AnswerStep, LockStep, MissStep, PastStep, FreshStep, DatedStep,
   RefusalStep
   DEF IInv

(* The inductive invariant: every copy any client holds, and every copy an *)
(* applied write is about to hand back, is a document the row really had,  *)
(* and is the row's document whenever it carries the row's version.        *)
THEOREM Invariance == Spec => []IInv
BY InitIInv, NextIInv, PTL DEF Spec

(* Every variable keeps its type.                                          *)
THEOREM TypeCorrect == Spec => []TypeOK
<1>1. IInv => TypeOK
  BY DEF IInv
<1> QED
  BY <1>1, Invariance, PTL

(* A 412 names a later version the row has reached, a 404 a retired row.   *)
THEOREM RefusalsAreTruthful == Spec => []RefusalIsTruthful
<1>1. IInv => RefusalIsTruthful
  BY DEF IInv
<1> QED
  BY <1>1, Invariance, PTL

(* On a row whose lists carry its version, a client that is refused as     *)
(* stale holds a document the row no longer has.                           *)
StaleCopyDiffers ==
    \A c \in Clients :
        phase[c] = "answered" /\ answer[c].kind = "stale" /\ target[c] \notin Unlisted
        => content[target[c]] # held[c][target[c]].content

(* Comparing versions never refuses an edit of the current document of     *)
(* such a row, whichever of the row's lists the client read.               *)
THEOREM StaleCopiesDiffer == Spec => []StaleCopyDiffers
<1>1. IInv => StaleCopyDiffers
  <2> SUFFICES ASSUME IInv, NEW c \in Clients, phase[c] = "answered",
                      answer[c].kind = "stale", target[c] \notin Unlisted
               PROVE  content[target[c]] # held[c][target[c]].content
    BY DEF StaleCopyDiffers
  <2>1. /\ target[c] \in Rows /\ version[target[c]] \in Nat
        /\ held[c][target[c]].version \in Nat /\ answer[c].version \in Nat
    BY CopyFacts DEF IInv, TypeOK, Answer
  <2>2. /\ answer[c].version > held[c][target[c]].version
        /\ answer[c].version <= version[target[c]]
    BY DEF IInv, RefusalIsTruthful
  <2>3. held[c][target[c]].version # version[target[c]]
    BY <2>1, <2>2
  <2> QED
    BY <2>1, <2>3 DEF IInv, DatedInv, Dated
<1> QED
  BY <1>1, Invariance, PTL

(* A 412 is never an accident where every list carries the version; a list *)
(* that leaves it out makes it one (LIST_SPU).                             *)
THEOREM RefusalsMeanChange ==
    ASSUME Unlisted = {}
    PROVE  Spec => []RefusalMeansChange
<1>1. StaleCopyDiffers => RefusalMeansChange
  BY DEF StaleCopyDiffers, RefusalMeansChange
<1> QED
  BY <1>1, StaleCopiesDiffer, PTL

(* A write is committed only over the document its client last received.   *)
THEOREM NoUpdateIsLost == Spec => NoLostUpdate
<1> DEFINE Over(c) ==
        answer'[c].kind = "applied" /\ phase[c] # "answered"
            /\ phase'[c] = "answered"
        => /\ live[target[c]]
           /\ content[target[c]] = held[c][target[c]].content
<1>1. IInv /\ [Next]_vars => [\A c \in Clients : Over(c)]_vars
  <2> SUFFICES ASSUME IInv, [Next]_vars, NEW c \in Clients,
                      answer'[c].kind = "applied", phase[c] # "answered",
                      phase'[c] = "answered"
               PROVE  /\ live[target[c]]
                      /\ content[target[c]] = held[c][target[c]].content
    OBVIOUS
  <2>1. TypeOK /\ CopyInv
    BY DEF IInv
  <2>2. Apply(c)
    BY <2>1, RequestStep DEF TypeOK, Lock, LockMiss, Miss, Probe, LockedMiss,
       Fail, Finish, Classified, NoRowAnswer, Receive, LoseAnswer, Submit
  <2>3. GuardHolds(c)
    BY <2>2 DEF Apply
  <2>4. Faithful(held[c][target[c]].version, held[c][target[c]].content, target[c])
    BY <2>1, CopyFacts DEF TypeOK
  <2> QED
    BY <2>3, <2>4 DEF GuardHolds, Faithful
<1> QED
  BY <1>1, Invariance, PTL DEF Spec, NoLostUpdate

(* Every committed change of a row advances its version by exactly one.    *)
THEOREM ChangesAdvance == Spec => EveryChangeAdvances
<1> DEFINE Moves(r) ==
        /\ live'[r] => live[r]
        /\ \/ UNCHANGED <<version[r], content[r], live[r]>>
           \/ version'[r] = version[r] + 1
<1>1. IInv /\ [Next]_vars => [\A r \in Rows : Moves(r)]_vars
  BY RowStep DEF IInv
<1> QED
  BY <1>1, Invariance, PTL DEF Spec, EveryChangeAdvances

-------------------------------------------------------------------------------
(* ConditionalWrite implements VersionedDocument.                          *)

Seen == [c \in Clients |-> [r \in Rows |-> held[c][r].content]]

(* A read, or the arrival of an applied answer, shows the client some      *)
(* committed document of one row.                                          *)
LEMMA HeldStepSees ==
    ASSUME TypeOK, TypeOK', CopyInv', NEW c \in Clients, NEW r \in Rows,
           NEW k \in Copy, held' = [held EXCEPT ![c][r] = k], UNCHANGED store
    PROVE  Promise!See(c, r)
<1>1. held'[c][r] = k
  BY DEF TypeOK
<1>2. k.content \in past[r]
  BY <1>1 DEF CopyInv, Faithful
<1>3. Seen' = [Seen EXCEPT ![c][r] = k.content]
  <2>1. \A e \in Clients, q \in Rows :
           held'[e][q] = IF e = c /\ q = r THEN k ELSE held[e][q]
    BY DEF TypeOK
  <2>2. ASSUME NEW e \in Clients
        PROVE  Seen'[e] = IF e = c THEN [Seen[c] EXCEPT ![r] = k.content]
                                   ELSE Seen[e]
    BY <2>1 DEF Seen
  <2>3. Seen' = [e \in Clients |-> Seen'[e]] /\ Seen = [e \in Clients |-> Seen[e]]
    BY DEF Seen
  <2> HIDE DEF Seen
  <2> QED
    BY <2>2, <2>3
<1>4. \E d \in past[r] : Seen' = [Seen EXCEPT ![c][r] = d]
  BY <1>2, <1>3
<1>5. UNCHANGED <<content, live, past>>
  OBVIOUS
<1> QED
  BY ONLY <1>4, <1>5 DEF Seen, Promise!See

(* Advancing a row to a document that was drawn carries it.                *)
LEMMA AdvanceCarries ==
    ASSUME TypeOK, NEW r \in Rows, NEW d, NEW s \in BOOLEAN, Advance(r, d, s)
    PROVE  Promise!Carry(r, d)
<1>1. CASE s
  <2>1. live' = live
    BY <1>1 DEF Advance, TypeOK
  <2> QED
    BY <2>1 DEF Advance, Promise!Carry
<1>2. CASE ~s
  <2>1. live' = [live EXCEPT ![r] = FALSE]
    BY <1>2 DEF Advance, TypeOK
  <2> QED
    BY <2>1 DEF Advance, Promise!Carry
<1> QED
  BY <1>1, <1>2

(* Every step is a step of the promise, or leaves its variables alone.     *)
LEMMA StepRefines ==
    ASSUME IInv, IInv', [Next]_vars
    PROVE  [Promise!Next]_(Promise!vars)
<1> USE DEF Promise!vars
<1>0. TypeOK /\ TypeOK' /\ CopyInv /\ CopyInv' /\ PastInv /\ PastInv'
  BY DEF IInv
<1>1. ASSUME NEW c \in Clients, NEW r \in Rows, Retrieve(c, r) \/ ListRow(c, r)
      PROVE  Promise!See(c, r)
  <2>1. held'[c][r] \in Copy
    BY <1>0, CopyFacts DEF TypeOK
  <2>2. held' = [held EXCEPT ![c][r] = held'[c][r]]
    BY <1>0, <1>1 DEF Retrieve, ListRow, TypeOK
  <2> QED
    BY <1>0, <1>1, <2>1, <2>2, HeldStepSees DEF Retrieve, ListRow
<1>2. ASSUME NEW c \in Clients, Receive(c)
      PROVE  [Promise!Next]_(Promise!vars)
  <2>1. CASE answer[c].kind = "applied" /\ ~deleting[c]
    <3>1. UNCHANGED store
      BY <1>2 DEF Receive
    <3>2. PICK r \in Rows, k \in Copy : held' = [held EXCEPT ![c][r] = k]
      BY <1>0, <1>2, <2>1 DEF Receive, TypeOK, Answer, Copy
    <3>3. Promise!See(c, r)
      BY <1>0, <3>1, <3>2, HeldStepSees
    <3>4. Promise!Next
      BY <3>3 DEF Promise!Next
    <3> QED
      BY <3>4
  <2>2. CASE ~(answer[c].kind = "applied" /\ ~deleting[c])
    BY <1>2, <2>2 DEF Receive
  <2> QED
    BY <2>1, <2>2
<1>3. ASSUME NEW c \in Clients, Apply(c) PROVE Promise!Replace(c, target[c])
  <2>1. target[c] \in Rows /\ payload[c] \in 0..MaxTickets
    BY <1>0, MaxTicketsAssumption DEF TypeOK, PastInv
  <2>2. Faithful(held[c][target[c]].version, held[c][target[c]].content, target[c])
    BY <1>0, <2>1, CopyFacts
  <2>3. live[target[c]] /\ content[target[c]] = held[c][target[c]].content
    BY <1>3, <2>2 DEF Apply, GuardHolds, Faithful
  <2>4. Promise!Carry(target[c], payload[c])
    BY <1>0, <1>3, <2>1, AdvanceCarries DEF Apply, TypeOK
  <2> QED
    BY <1>3, <2>1, <2>3, <2>4 DEF Promise!Replace, Apply, Finish
<1>4. ASSUME NEW r \in Rows, NEW s \in BOOLEAN, Cascade(r, s)
      PROVE  Promise!Derive(r)
  <2>1. tickets + 1 \in 0..MaxTickets
    BY <1>0, <1>4, MaxTicketsAssumption DEF Cascade, TypeOK
  <2>2. Promise!Carry(r, tickets + 1)
    BY <1>0, <1>4, AdvanceCarries DEF Cascade
  <2> QED
    BY <1>4, <2>1, <2>2 DEF Promise!Derive, Cascade
<1>5. CASE UNCHANGED <<store, held>>
  BY <1>5
<1> QED
  BY <1>1, <1>2, <1>3, <1>4, <1>5, <1>0 DEF Next, Promise!Next, vars, Lock,
     LockMiss, Rewrite, Miss, Probe, LockedMiss, Fail, Finish, LoseAnswer,
     Submit, TypeOK

(* The versions, entity-tags, guards and probes of the backend API give    *)
(* the editors of a row exactly what VersionedDocument promises.           *)
THEOREM Refinement == Spec => PromiseSpec
<1>1. Init => Promise!Init
  <2> SUFFICES ASSUME Init PROVE Promise!Init
    OBVIOUS
  <2>1. \A r \in Rows : content[r] = 0 /\ past[r] = {content[r]}
    BY DEF Init
  <2> QED
    BY <2>1, MaxTicketsAssumption DEF Init, Promise!Init
<1>2. IInv /\ IInv' /\ [Next]_vars => [Promise!Next]_(Promise!vars)
  BY StepRefines
<1> QED
  BY <1>1, <1>2, Invariance, PTL DEF Spec, PromiseSpec, Promise!Spec
===============================================================================
