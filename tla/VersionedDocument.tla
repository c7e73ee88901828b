-------------------------- MODULE VersionedDocument --------------------------
(***************************************************************************)
(* What the catalog promises to the editors of one row, without versions,  *)
(* entity-tags, locks or transactions: an editor's write replaces exactly  *)
(* the document that editor last saw, or it does not happen at all.        *)
(*                                                                         *)
(* ConditionalWrite implements this specification; see PromiseSpec there.  *)
(***************************************************************************)
CONSTANTS
    Clients,    \* the editors
    Rows,       \* the catalog rows they edit
    Documents   \* what a row can carry

VARIABLES
    doc,        \* doc[r]: the document row r carries
    alive,      \* alive[r]: r has not been retired
    past,       \* past[r]: every document r has ever carried
    seen        \* seen[c][r]: the document of r that client c last received

vars == <<doc, alive, past, seen>>

Init ==
    /\ doc \in [Rows -> Documents]
    /\ alive = [r \in Rows |-> TRUE]
    /\ past = [r \in Rows |-> {doc[r]}]
    /\ seen = [c \in Clients |-> doc]

(* r carries document d from now on; a retired row never comes back.       *)
Carry(r, d) ==
    /\ doc' = [doc EXCEPT ![r] = d]
    /\ past' = [past EXCEPT ![r] = @ \cup {d}]
    /\ \/ UNCHANGED alive
       \/ alive' = [alive EXCEPT ![r] = FALSE]

(* The client receives some committed document of r, not always the last.  *)
See(c, r) ==
    /\ \E d \in past[r] : seen' = [seen EXCEPT ![c][r] = d]
    /\ UNCHANGED <<doc, alive, past>>

(* The client's write: only onto the document it saw, and only when live.  *)
Replace(c, r) ==
    /\ alive[r]
    /\ seen[c][r] = doc[r]
    /\ \E d \in Documents : Carry(r, d)
    /\ UNCHANGED seen

(* A change the catalog makes on its own as part of another row's write.   *)
Derive(r) ==
    /\ \E d \in Documents : Carry(r, d)
    /\ UNCHANGED seen

Next ==
    \E r \in Rows :
        \/ Derive(r)
        \/ \E c \in Clients : See(c, r) \/ Replace(c, r)

Spec == Init /\ [][Next]_vars
=============================================================================
