------------------------------ MODULE PriceLists -------------------------------
(***************************************************************************)
(* Price lists: a currency fixed at creation, and the window in which the  *)
(* list applies, whose two ends may be set together or one at a time.      *)
(*                                                                         *)
(* The end a body leaves out is the row's, merged in by the statement      *)
(* itself: the code never sees it.  The client does, in the copy of the    *)
(* row it edits from, and it is for the version guard that the two are the *)
(* same.  A stale version is a write that changes nothing                  *)
(* (ConditionalWrite), and the answer of an applied one may be lost.       *)
(***************************************************************************)
EXTENDS Integers

CONSTANTS
    ListNos,        \* price list numbers, the business keys
    ListCurrencies, \* currency codes
    Instants,       \* timestamps
    Unset,          \* an end that is null, or a field a body leaves out
    Planners,       \* the clients that edit price lists
    MaxRevisions    \* bound of the model: updates of one list

ASSUME PriceListsAssumption ==
    Instants \subseteq Int /\ Unset \notin Instants /\ MaxRevisions \in Nat

VARIABLES
    registered,     \* the currency codes with a registry row
    lists,          \* lists[n]: the row of price list n
    copies,         \* copies[c][n]: the copy of it client c last received
    intended        \* history: the window its last writer had in view

listVars == <<registered, lists, copies, intended>>

NoWindow == [starts |-> Unset, ends |-> Unset]
NotCreated == [currency |-> Unset, status |-> "inactive", version |-> 0,
               starts |-> Unset, ends |-> Unset]

ListsInit ==
    /\ registered \in SUBSET ListCurrencies
    /\ lists = [n \in ListNos |-> NotCreated]
    /\ copies = [c \in Planners |-> [n \in ListNos |-> NotCreated]]
    /\ intended = [n \in ListNos |-> NoWindow]

(* Currency codes are added and never removed; an inactive one counts too. *)
RegisterCurrency(code) ==
    /\ registered' = registered \cup {code} /\ registered' # registered
    /\ UNCHANGED <<lists, copies, intended>>

(* Client c receives the row, in the answer of a write or on a list page.  *)
Received(c, n) == copies' = [copies EXCEPT ![c][n] = lists'[n]]

(* The row is committed; the answer that carries it may be lost.           *)
Commit(c, n, row) ==
    /\ lists' = [lists EXCEPT ![n] = row]
    /\ Received(c, n) \/ UNCHANGED copies

(* create_price_list: without a window the list applies at once.           *)
CreatePriceList(c, n, code) ==
    /\ lists[n] = NotCreated /\ code \in registered
    /\ Commit(c, n, [NotCreated EXCEPT !.currency = code, !.status = "active"])
    /\ UNCHANGED <<registered, intended>>

ReadPriceList(c, n) ==
    /\ lists[n] # NotCreated
    /\ UNCHANGED lists /\ Received(c, n)
    /\ UNCHANGED <<registered, intended>>

Proper(starts, ends) == Unset \notin {starts, ends} => starts < ends
Merged(field, stored) == IF field = Unset THEN stored ELSE field

(* The window of a row, or a copy, with the ends a body states.            *)
WindowOf(row, body) ==
    [starts |-> Merged(body.starts, row.starts), ends |-> Merged(body.ends, row.ends)]

(* Mutant: the version is left as it was.                                  *)
RescheduledSilently(row, body) ==
    LET w == WindowOf(row, body) IN
    [currency |-> row.currency, status |-> Merged(body.status, row.status),
     version |-> row.version, starts |-> w.starts, ends |-> w.ends]
(* The row after a body: no body clears an end.                            *)
Rescheduled(row, body) ==
    LET w == WindowOf(row, body) IN
    [currency |-> row.currency, status |-> Merged(body.status, row.status),
     version |-> row.version + 1, starts |-> w.starts, ends |-> w.ends]

(* What the handler compares, then ck_commerce_price_list_window on the    *)
(* merged row.                                                             *)
ChecksOfWindow(row, body) ==
    /\ Proper(body.starts, body.ends)
    /\ LET w == WindowOf(row, body) IN Proper(w.starts, w.ends)

(* If-Match is the version of the client's copy.                           *)
UpdatePriceList(c, n, body) ==
    LET row == lists[n]
        copy == copies[c][n]
    IN  /\ copy # NotCreated /\ copy.version = row.version
        /\ row.version < MaxRevisions
        /\ ChecksOfWindow(row, body)
        /\ Commit(c, n, Rescheduled(row, body))
        /\ intended' = [intended EXCEPT ![n] = WindowOf(copy, body)]
        /\ UNCHANGED registered

WindowBodies == [starts : Instants \cup {Unset}, ends : Instants \cup {Unset},
                 status : {"active", "inactive", Unset}]

ListsNext ==
    \/ \E code \in ListCurrencies : RegisterCurrency(code)
    \/ \E c \in Planners, n \in ListNos :
           \/ \E code \in ListCurrencies : CreatePriceList(c, n, code)
           \/ ReadPriceList(c, n)
           \/ \E body \in WindowBodies : UpdatePriceList(c, n, body)

ListsSpec == ListsInit /\ [][ListsNext]_listVars

-------------------------------------------------------------------------------
(* Properties.                                                             *)

(* The window of a price list is always one that its last writer had in    *)
(* view: no end is ever paired with an end that another client has set     *)
(* meanwhile, although a body may state one end and the statement takes    *)
(* the other from whatever row it finds (update_price_list).               *)
WindowsAreMeant ==
    \A n \in ListNos : [starts |-> lists[n].starts, ends |-> lists[n].ends] = intended[n]
===============================================================================
