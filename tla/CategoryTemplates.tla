--------------------------- MODULE CategoryTemplates ---------------------------
(***************************************************************************)
(* The attribute dictionary, and which attributes a category uses in which *)
(* role.                                                                   *)
(*                                                                         *)
(* create_attribute is one transaction of many INSERTs: the entry, then a  *)
(* row per submitted value.  Until its commit the entry is seen by nobody, *)
(* but the unique index on attribute_no makes a second creation of the     *)
(* number wait for it.  A binding is written by one statement at a time;   *)
(* a stale version is a write that changes nothing (ConditionalWrite).     *)
(*                                                                         *)
(* No operation edits or retires an attribute, and none looks at the       *)
(* bindings when a category is retired: a foreign key is satisfied by any  *)
(* row that was ever committed.                                            *)
(***************************************************************************)
EXTENDS Integers, Sequences

CONSTANTS
    Clerks,         \* request handlers that create attributes
    AttributeNos,   \* attribute numbers, the business keys
    ValueCodes,     \* codes of values
    ValueLists,     \* submitted lists of values
    Blank,          \* a value with nothing but white space
    Templates,      \* categories
    Omitted,        \* a field the body leaves out, or no number
    MaxBindings     \* bound: bindings ever created

ASSUME TemplatesAssumption ==
    /\ ValueLists \subseteq Seq(ValueCodes)
    /\ Omitted \notin AttributeNos \cup Templates
    /\ MaxBindings \in Nat

Roles == {"key", "sales", "parameter"}
BindingStatuses == {"active", "inactive"}

VARIABLES
    dictionary,     \* dictionary[n]: the committed values of n, with their order
    entered,        \* numbers committed
    submission,     \* submission[n]: what was submitted for n (history variable)
    draft,          \* draft[c]: c's open transaction
    bindings        \* bindings[i]: the i-th binding created

templateVars == <<dictionary, entered, submission, draft, bindings>>

Draft(no, values, next, rows) ==
    [no |-> no, values |-> values, next |-> next, rows |-> rows]
NoDraft == Draft(Omitted, <<>>, 1, {})

TemplatesInit ==
    /\ dictionary = [n \in AttributeNos |-> {}]
    /\ entered = {}
    /\ submission = [n \in AttributeNos |-> <<>>]
    /\ draft = [c \in Clerks |-> NoDraft]
    /\ bindings = <<>>

-------------------------------------------------------------------------------
(* Attributes.                                                             *)

(* CreateAttributeCommand::validate.                                       *)
ValuesAdmitted(values) == \A k \in DOMAIN values : values[k] # Blank

(* The INSERT of the entry: it waits for an open transaction that wrote    *)
(* the number, and is a conflict once the number is committed.             *)
InsertAttribute(c, n, values) ==
    /\ draft[c] = NoDraft /\ ValuesAdmitted(values)
    /\ \A d \in Clerks : draft[d].no # n
    /\ n \notin entered
    /\ draft' = [draft EXCEPT ![c] = Draft(n, values, 1, {})]
    /\ UNCHANGED <<dictionary, entered, submission, bindings>>

(* Mutant: a repeated value moves to where it was repeated.                *)
StoredLast(rows, code, index) ==
    {r \in rows : r.code # code} \cup {[code |-> code, order |-> index]}
(* ON CONFLICT DO NOTHING: the first of equal values is stored.            *)
StoredFirst(rows, code, index) ==
    IF \E r \in rows : r.code = code THEN rows
    ELSE rows \cup {[code |-> code, order |-> index]}

InsertAttributeValue(c) ==
    LET d == draft[c]
    IN  /\ d # NoDraft /\ d.next <= Len(d.values)
        /\ draft' = [draft EXCEPT ![c] = Draft(d.no, d.values, d.next + 1,
                           StoredFirst(d.rows, d.values[d.next], d.next - 1))]
        /\ UNCHANGED <<dictionary, entered, submission, bindings>>

CommitAttribute(c) ==
    LET d == draft[c]
    IN  /\ d # NoDraft /\ d.next > Len(d.values)
        /\ dictionary' = [dictionary EXCEPT ![d.no] = d.rows]
        /\ entered' = entered \cup {d.no}
        /\ submission' = [submission EXCEPT ![d.no] = d.values]
        /\ draft' = [draft EXCEPT ![c] = NoDraft]
        /\ UNCHANGED bindings

(* Any statement may fail; the transaction is dropped and rolls back.      *)
FailAttribute(c) ==
    /\ draft[c] # NoDraft
    /\ draft' = [draft EXCEPT ![c] = NoDraft]
    /\ UNCHANGED <<dictionary, entered, submission, bindings>>

-------------------------------------------------------------------------------
(* Bindings.                                                               *)

LiveBindings(t, n) ==
    {i \in DOMAIN bindings : /\ bindings[i].live
                             /\ bindings[i].template = t /\ bindings[i].attribute = n}

(* Mutant: the index is over active rows instead of live ones.             *)
BoundWhenActive(t, n) ==
    \E i \in LiveBindings(t, n) : bindings[i].status = "active"
(* uk_commerce_product_category_attribute_binding.                         *)
Bound(t, n) == LiveBindings(t, n) # {}

(* create_category_attribute: a template is not inherited from itself, and *)
(* the attribute is committed.                                             *)
CreateBinding(t, n, role, source) ==
    /\ Len(bindings) < MaxBindings
    /\ source # t
    /\ n \in entered /\ ~Bound(t, n)
    /\ bindings' = Append(bindings,
           [live |-> TRUE, template |-> t, attribute |-> n, role |-> role,
            source |-> source, status |-> "active"])
    /\ UNCHANGED <<dictionary, entered, submission, draft>>

(* update_category_attribute: what it binds to what is not in the body.    *)
UpdateBinding(i, role, status) ==
    /\ bindings[i].live
    /\ bindings' = [bindings EXCEPT
            ![i].role = IF role = Omitted THEN @ ELSE role,
            ![i].status = IF status = Omitted THEN @ ELSE status]
    /\ UNCHANGED <<dictionary, entered, submission, draft>>

(* delete_category_attribute frees the pair for a new binding.             *)
DeleteBinding(i) ==
    /\ bindings[i].live
    /\ bindings' = [bindings EXCEPT ![i].live = FALSE]
    /\ UNCHANGED <<dictionary, entered, submission, draft>>

(* What create_sku takes for the axes of a category.                       *)
ActiveSalesAxes(t) ==
    {n \in AttributeNos :
        \E i \in LiveBindings(t, n) :
            bindings[i].role = "sales" /\ bindings[i].status = "active"}

TemplatesNext ==
    \/ \E c \in Clerks :
           \/ \E n \in AttributeNos, values \in ValueLists : InsertAttribute(c, n, values)
           \/ InsertAttributeValue(c) \/ CommitAttribute(c) \/ FailAttribute(c)
    \/ \E t \in Templates, n \in AttributeNos, role \in Roles,
          source \in Templates \cup {Omitted} : CreateBinding(t, n, role, source)
    \/ \E i \in DOMAIN bindings :
           \/ \E role \in Roles \cup {Omitted}, status \in BindingStatuses \cup {Omitted} :
                  UpdateBinding(i, role, status)
           \/ DeleteBinding(i)

TemplatesSpec == TemplatesInit /\ [][TemplatesNext]_templateVars

-------------------------------------------------------------------------------
(* Properties.                                                             *)

(* The positions among the first k where a value occurs for the first time. *)
FirstsOf(values, k) == {j \in 1..k : \A i \in 1..(j - 1) : values[i] # values[j]}
RowsOf(values, k) == {[code |-> values[j], order |-> j - 1] : j \in FirstsOf(values, k)}

(* An attribute in the dictionary has exactly the values of one request,   *)
(* each once and at the position where it first occurs in it, although     *)
(* they are written by one statement each, any of them may fail and others *)
(* create the same number: a creation leaves all of its rows or none.      *)
DictionaryIsWhole ==
    \A n \in AttributeNos : dictionary[n] = RowsOf(submission[n], Len(submission[n]))

(* A category has an attribute in one role at most, so that an axis of its *)
(* SKUs is never a parameter as well, however often the pair was bound,    *)
(* switched off, unbound and bound again; whatever is an axis is in the    *)
(* dictionary with all its values.                                         *)
OneRoleEach ==
    \A t \in Templates :
        /\ \A n \in AttributeNos : \A i, j \in LiveBindings(t, n) : i = j
        /\ ActiveSalesAxes(t) \subseteq entered
===============================================================================
