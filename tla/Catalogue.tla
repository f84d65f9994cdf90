----------------------------- MODULE Catalogue -----------------------------
(***************************************************************************)
(* The rows that tickets are filed under - categories, their subcategories *)
(* and the branches - and the load shown for a branch.                     *)
(*                                                                         *)
(* A row is created by looking its code up and inserting it later.  What   *)
(* another request inserts between the two is caught by a unique index for *)
(* categories and branches; subcategories have none.  No row is removed,   *)
(* and an inactive one keeps its code: the flag is left out, as are names. *)
(***************************************************************************)
EXTENDS Naturals, FiniteSets

CONSTANTS
    MaxRows,    \* bound: rows that are filed
    Codes,
    Filers,     \* requests that may be under way at the same time
    Filed,      \* tickets that carry a branch
    Absent      \* no row, no request, no ticket

ASSUME CatalogueBounds == MaxRows \in Nat /\ Absent \notin Nat \cup Codes
ASSUME FinitelyMany == IsFiniteSet(Filers) /\ IsFiniteSet(Filed)

\* Rows in the order of their creation.
Rows == 1..MaxRows

Coded == {"category", "branch", "subcategory"}

\* Whether the table has a unique index on its code.
Indexed(kind) == kind # "subcategory"

\* parent: category_id of a subcategory.
Entry == [kind : Coded, code : Codes, parent : Rows \cup {Absent}]

\* What a request is about to write: a new row, or the code of row `at`.
Filing == [at : Rows \cup {Absent}, entry : Entry]

Ticket == [branch : Rows, open : BOOLEAN, late : BOOLEAN]

ASSUME AbsentIsNoRow == Absent \notin Entry /\ Absent \notin Filing /\ Absent \notin Ticket

VARIABLES
    row,        \* the row of an id, or Absent
    filing,     \* what a request that has looked its code up will write
    filed,      \* the tickets' branch_id, whether their status is open, sla_breached
    listing,    \* branches a request has read, before it reads their load
    load        \* [open, late] of the branches last listed

catalogueVars == <<row, filing, filed, listing, load>>

CatalogueInit ==
    /\ row = [i \in Rows |-> Absent]
    /\ filing = [q \in Filers |-> Absent]
    /\ filed = [t \in Filed |-> Absent]
    /\ listing = Absent
    /\ load = <<>>

Present == {i \in Rows : row[i] # Absent}

OfKind(kind) == {i \in Present : row[i].kind = kind}

\* The rows a look-up for a code finds: within its category for a subcategory.
Named(kind, parent, code) ==
    {i \in OfKind(kind) : row[i].code = code /\ row[i].parent = parent}

---------------------------------------------------------------------------
(* Filing.                                                                 *)

\* Mutant: subcategories are not looked up.
LookUp_SkipsSubcategories(q, e) ==
    /\ filing[q] = Absent
    /\ e.kind = "subcategory" \/ Named(e.kind, e.parent, e.code) = {}
    /\ filing' = [filing EXCEPT ![q] = [at |-> Absent, entry |-> e]]
    /\ UNCHANGED <<row, filed, listing, load>>

\* The code is not found.  Found once it is a conflict, and found twice an
\* error of its own (scalar_one_or_none): either way the request is over.
LookUp(q, e) ==
    /\ filing[q] = Absent
    /\ Named(e.kind, e.parent, e.code) = {}
    /\ filing' = [filing EXCEPT ![q] = [at |-> Absent, entry |-> e]]
    /\ UNCHANGED <<row, filed, listing, load>>

CreateCategory(q, code) ==
    LookUp(q, [kind |-> "category", code |-> code, parent |-> Absent])

CreateBranch(q, code) ==
    LookUp(q, [kind |-> "branch", code |-> code, parent |-> Absent])

\* The category must exist; it may be inactive.
CreateSubcategory(q, c, code) ==
    /\ c \in OfKind("category")
    /\ LookUp(q, [kind |-> "subcategory", code |-> code, parent |-> c])

\* update_category, with a code that differs from the row's.
UpdateCategory(q, c, code) ==
    /\ filing[q] = Absent
    /\ c \in OfKind("category") /\ code # row[c].code
    /\ Named("category", Absent, code) = {}
    /\ filing' = [filing EXCEPT ![q] = [at |-> c, entry |-> [row[c] EXCEPT !.code = code]]]
    /\ UNCHANGED <<row, filed, listing, load>>

NextRow == Cardinality(Present) + 1

\* The index, where there is one, lets the row in.
Insert(q) ==
    /\ filing[q] # Absent /\ filing[q].at = Absent /\ NextRow \in Rows
    /\ LET e == filing[q].entry
       IN  /\ Indexed(e.kind) => Named(e.kind, e.parent, e.code) = {}
           /\ row' = [row EXCEPT ![NextRow] = e]
    /\ filing' = [filing EXCEPT ![q] = Absent]
    /\ UNCHANGED <<filed, listing, load>>

\* Of a row that is there only the code is written.
Rewrite(q) ==
    /\ filing[q] # Absent /\ filing[q].at # Absent
    /\ LET i == filing[q].at
           e == filing[q].entry
       IN  /\ Named(e.kind, e.parent, e.code) \subseteq {i}
           /\ row' = [row EXCEPT ![i].code = e.code]
    /\ filing' = [filing EXCEPT ![q] = Absent]
    /\ UNCHANGED <<filed, listing, load>>

\* The index refuses, or the request breaks off: nothing is written.
FilingFails(q) ==
    /\ filing[q] # Absent
    /\ filing' = [filing EXCEPT ![q] = Absent]
    /\ UNCHANGED <<row, filed, listing, load>>

File(q) ==
    \/ \E code \in Codes : CreateCategory(q, code) \/ CreateBranch(q, code)
    \/ \E c \in Rows, code \in Codes : CreateSubcategory(q, c, code) \/ UpdateCategory(q, c, code)
    \/ Insert(q)
    \/ Rewrite(q)
    \/ FilingFails(q)

---------------------------------------------------------------------------
(* The load of a branch.                                                   *)

\* A ticket takes the branch of its reporter, active or not.
Raise(t, b) ==
    /\ filed[t] = Absent /\ b \in OfKind("branch")
    /\ filed' = [filed EXCEPT ![t] = [branch |-> b, open |-> TRUE, late |-> FALSE]]
    /\ UNCHANGED <<row, filing, listing, load>>

\* It leaves the open statuses, or is taken up again, late or not.
Work(t) ==
    /\ filed[t] # Absent
    /\ filed' = [filed EXCEPT ![t].open = ~@]
    /\ UNCHANGED <<row, filing, listing, load>>

\* The worker flags an open ticket.
Flag(t) ==
    /\ filed[t] # Absent /\ filed[t].open
    /\ filed' = [filed EXCEPT ![t].late = TRUE]
    /\ UNCHANGED <<row, filing, listing, load>>

OpenAt(b) == {t \in Filed : filed[t] # Absent /\ filed[t].branch = b /\ filed[t].open}

\* First the branches, ...
Listed(branches) ==
    /\ listing = Absent
    /\ listing' = branches
    /\ UNCHANGED <<row, filing, filed, load>>

\* list_branches: those of a region, a status or a name, or all.
ListBranches == \E branches \in SUBSET OfKind("branch") : Listed(branches)

ExportBranches == Listed(OfKind("branch"))

GetBranch(b) == b \in OfKind("branch") /\ Listed({b})

\* An edit keeps the code; what it writes is committed before the load is read.
UpdateBranch(b) == b \in OfKind("branch") /\ Listed({b})

\* Mutant: the late tickets are counted by a query of their own.
TicketStats_TwoQueries ==
    /\ listing # Absent
    /\ \/ load' = [b \in listing |->
                     [open |-> IF b \in DOMAIN load THEN load[b].open ELSE 0,
                      late |-> Cardinality({t \in OpenAt(b) : filed[t].late})]]
       \/ load' = [b \in listing |->
                     [open |-> Cardinality(OpenAt(b)),
                      late |-> IF b \in DOMAIN load THEN load[b].late ELSE 0]]
    /\ listing' \in {listing, Absent}
    /\ UNCHANGED <<row, filing, filed>>

\* ... then both counts of every branch, in one query.
TicketStats ==
    /\ listing # Absent
    /\ load' = [b \in listing |->
                  [open |-> Cardinality(OpenAt(b)),
                   late |-> Cardinality({t \in OpenAt(b) : filed[t].late})]]
    /\ listing' = Absent
    /\ UNCHANGED <<row, filing, filed>>

CatalogueNext ==
    \/ \E q \in Filers : File(q)
    \/ \E t \in Filed : (\E b \in Rows : Raise(t, b)) \/ Work(t) \/ Flag(t)
    \/ ListBranches \/ ExportBranches \/ \E b \in Rows : GetBranch(b) \/ UpdateBranch(b)
    \/ TicketStats

CatalogueSpec == CatalogueInit /\ [][CatalogueNext]_catalogueVars

---------------------------------------------------------------------------
(* Properties.                                                             *)

CatalogueTypeOK ==
    /\ row \in [Rows -> Entry \cup {Absent}]
    /\ filing \in [Filers -> Filing \cup {Absent}]
    /\ filed \in [Filed -> Ticket \cup {Absent}]
    /\ listing \in SUBSET Rows \cup {Absent}

\* A category or branch is the only one of its code, through creations and
\* changes of code that overlap.  Of a subcategory there may be several, but no
\* more than requests can be under way together: once the code is there,
\* nobody who looks adds another (routes/categories.py and branches.py).
DuplicatesBounded ==
    \A i \in Present :
        Cardinality(Named(row[i].kind, row[i].parent, row[i].code))
            <= IF Indexed(row[i].kind) THEN 1 ELSE Cardinality(Filers)

\* The two figures of a branch belong together: of the tickets shown as open,
\* no more are late than there are, whatever the tickets do while the list is
\* put together (routes/branches.py, _ticket_stats: one query for both).
LateAreOpen == \A b \in DOMAIN load : load[b].late <= load[b].open

=============================================================================
