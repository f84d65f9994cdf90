--------------------------- MODULE TicketCreation ---------------------------
(***************************************************************************)
(* Creating a ticket: its number, its insert and its first assignee.       *)
(*                                                                         *)
(* A ticket of an organisation unit takes the next number of the unit's    *)
(* yearly sequence, whose row is locked from the read to the commit; when  *)
(* there is no row yet, nothing is locked and the first to insert it wins. *)
(* Reporters without a unit and incoming mail get the number of tickets    *)
(* counted so far plus one, read without a lock: two at once clash on the  *)
(* unique index and one of them fails.  The portal then picks the least    *)
(* loaded assignee, from counts of what is committed.                      *)
(***************************************************************************)
EXTENDS Naturals, FiniteSets

CONSTANTS
    Units,        \* organisation units
    Branches,
    Staff,        \* the users that may come up as assignees
    Requests,     \* creations that may be in flight at the same time
    Role,         \* [Staff -> role name]
    Home,         \* [Staff -> branch]
    DaysPerYear,
    MaxDay,       \* bound: the days that pass
    MaxTickets,   \* bound: tickets created
    NoUnit, NoBranch, Nobody, NoTxn

ASSUME BoundsAreNatural ==
    DaysPerYear \in Nat \ {0} /\ MaxDay \in Nat /\ MaxTickets \in Nat
ASSUME FiniteRequests == IsFiniteSet(Requests)
ASSUME StaffHasRoles == Role \in [Staff -> STRING] /\ Nobody \notin Staff

Days == 0..MaxDay
Year(d) == d \div DaysPerYear

\* {code}{YY}{NNNNN}, TKT-{NNNNNN} and TKT-{YYYYMMDD}-{NNNNN}.  Two numbers are
\* the same text when they agree in scheme, unit, period and count; the periods
\* are the year, none and the day.
Count == Nat \ {0}

Number == [scheme: {"unit"}, unit: Units, period: {Year(d) : d \in Days}, n: Count]
    \cup [scheme: {"legacy"}, unit: {NoUnit}, period: {0}, n: Count]
    \cup [scheme: {"mail"}, unit: {NoUnit}, period: Days, n: Count]

Ticket == [number: Number, assignee: Staff \cup {Nobody}, open: BOOLEAN]

\* first: no sequence row was found, so the insert brings one.
Txn == [step: {"numbered", "inserted", "routed"}, number: Number, first: BOOLEAN,
        branch: Branches \cup {NoBranch}, assignee: Staff \cup {Nobody}]

VARIABLES
    today,      \* the date
    lastSeq,    \* ticket_sequences.last_seq by unit and year, 0: no row
    tickets,    \* the committed tickets
    active,     \* users.is_active
    txn,        \* the creations in flight
    disturbed   \* history: loads or staff have changed other than by routing

vars == <<today, lastSeq, tickets, active, txn, disturbed>>

Init ==
    /\ today = 0
    /\ lastSeq = [u \in Units |-> [y \in {Year(d) : d \in Days} |-> 0]]
    /\ tickets = {}
    /\ active = [s \in Staff |-> TRUE]
    /\ txn = [r \in Requests |-> NoTxn]
    /\ disturbed = FALSE

---------------------------------------------------------------------------
(* Numbers.                                                                *)

Taken == {t.number : t \in tickets}

InFlight(r) == txn[r] # NoTxn

\* The row lock of SELECT ... FOR UPDATE, held until the transaction ends.
Locked(u, y) ==
    \E r \in Requests : /\ InFlight(r)
                        /\ txn[r].number.scheme = "unit"
                        /\ txn[r].number.unit = u /\ txn[r].number.period = y
                        /\ ~txn[r].first

Numbered(r, number, first, b) ==
    /\ ~InFlight(r)
    /\ Cardinality(tickets) + Cardinality({q \in Requests : InFlight(q)}) < MaxTickets
    /\ txn' = [txn EXCEPT ![r] = [step |-> "numbered", number |-> number,
                                  first |-> first, branch |-> b, assignee |-> Nobody]]
    /\ UNCHANGED <<today, lastSeq, tickets, active, disturbed>>

\* Mutant: the sequence row is read without locking it.
NextOfUnit_Unlocked(r, u, b) ==
    LET y == Year(today) IN
    /\ lastSeq[u][y] # 0
    /\ Numbered(r, [scheme |-> "unit", unit |-> u, period |-> y, n |-> lastSeq[u][y] + 1],
               FALSE, b)

\* generate_ticket_number, when the row exists: waits for its lock.
NextOfUnit(r, u, b) ==
    LET y == Year(today) IN
    /\ lastSeq[u][y] # 0
    /\ ~Locked(u, y)
    /\ Numbered(r, [scheme |-> "unit", unit |-> u, period |-> y, n |-> lastSeq[u][y] + 1],
               FALSE, b)

\* generate_ticket_number, when there is none: nothing to lock.
FirstOfUnit(r, u, b) ==
    LET y == Year(today) IN
    /\ lastSeq[u][y] = 0
    /\ Numbered(r, [scheme |-> "unit", unit |-> u, period |-> y, n |-> 1], TRUE, b)

\* Mutant: the fallback counts this year's tickets only.
LegacyCount_ThisYear ==
    Cardinality({t \in tickets : t.number.scheme = "unit" => t.number.period = Year(today)})

\* generate_ticket_number_legacy counts every ticket there is.
LegacyCount == Cardinality(tickets)

\* TicketService.generate_ticket_number counts the day's mail tickets.
MailCount(d) ==
    Cardinality({t \in tickets : t.number.scheme = "mail" /\ t.number.period = d})

LegacyNumber == [scheme |-> "legacy", unit |-> NoUnit, period |-> 0, n |-> LegacyCount + 1]

MailNumber(d) == [scheme |-> "mail", unit |-> NoUnit, period |-> d, n |-> MailCount(d) + 1]

NumberLegacy(r, b) == Numbered(r, LegacyNumber, FALSE, b)

NumberMail(r) == Numbered(r, MailNumber(today), FALSE, NoBranch)

---------------------------------------------------------------------------
(* The insert, the routing and the commit.                                 *)

Written(q) == InFlight(q) /\ txn[q].step # "numbered"

\* A unique index makes an insert wait for an uncommitted one of the same key,
\* and fail once that one has committed: Rollback is then all that is left.
NoClash(r) ==
    /\ txn[r].number \notin Taken
    /\ \A q \in Requests : Written(q) => txn[q].number # txn[r].number
    /\ txn[r].first =>
          /\ lastSeq[txn[r].number.unit][txn[r].number.period] = 0
          /\ \A q \in Requests : Written(q) /\ txn[q].first =>
                \/ txn[q].number.unit # txn[r].number.unit
                \/ txn[q].number.period # txn[r].number.period

Insert(r) ==
    /\ InFlight(r) /\ txn[r].step = "numbered"
    /\ NoClash(r)
    /\ txn' = [txn EXCEPT ![r].step = "inserted"]
    /\ UNCHANGED <<today, lastSeq, tickets, active, disturbed>>

Load(s) == Cardinality({t \in tickets : t.open /\ t.assignee = s})

\* ASSIGNABLE_ROLES, the preferred one first.
Eligible(roles) == {s \in Staff : active[s] /\ Role[s] \in roles}

AtBranch(S, b) == {s \in S : b # NoBranch /\ Home[s] = b}

\* Each tier tries the ticket's branch, then anybody.
Candidates(b) ==
    LET agents == Eligible({"agent"})
        all    == Eligible({"agent", "supervisor"})
    IN  CASE AtBranch(agents, b) # {} -> AtBranch(agents, b)
          [] AtBranch(agents, b) = {} /\ agents # {} -> agents
          [] agents = {} /\ AtBranch(all, b) # {} -> AtBranch(all, b)
          [] OTHER -> all

\* Mutant: any candidate will do.
LeastLoaded_Any(S) == S

LeastLoaded(S) == {s \in S : \A o \in S : Load(s) <= Load(o)}

\* auto_route_ticket: from the loads as committed now; nobody, if there is no
\* candidate.
Route(r) ==
    /\ InFlight(r) /\ txn[r].step = "inserted"
    /\ txn[r].number.scheme # "mail"
    /\ \E s \in LeastLoaded(Candidates(txn[r].branch))
            \cup (IF Candidates(txn[r].branch) = {} THEN {Nobody} ELSE {}) :
          txn' = [txn EXCEPT ![r].step = "routed", ![r].assignee = s]
    /\ UNCHANGED <<today, lastSeq, tickets, active, disturbed>>

\* The commit of the ticket, its sequence row and its routing; without routing
\* for mail and for auto_assign=false.
Commit(r) ==
    /\ Written(r)
    /\ tickets' = tickets \cup {[number |-> txn[r].number, assignee |-> txn[r].assignee,
                                 open |-> TRUE]}
    /\ lastSeq' = IF txn[r].number.scheme = "unit"
                  THEN [lastSeq EXCEPT ![txn[r].number.unit][txn[r].number.period] =
                           txn[r].number.n]
                  ELSE lastSeq
    /\ txn' = [txn EXCEPT ![r] = NoTxn]
    /\ UNCHANGED <<today, active, disturbed>>

\* Mutant: the sequence is advanced in a transaction of its own.
Rollback_KeepsSequence(r) ==
    /\ InFlight(r)
    /\ lastSeq' = IF txn[r].number.scheme = "unit" /\ ~txn[r].first
                  THEN [lastSeq EXCEPT ![txn[r].number.unit][txn[r].number.period] =
                           txn[r].number.n]
                  ELSE lastSeq
    /\ txn' = [txn EXCEPT ![r] = NoTxn]
    /\ UNCHANGED <<today, tickets, active, disturbed>>

\* A clash, a failed check or a lost client.
Rollback(r) ==
    /\ InFlight(r)
    /\ txn' = [txn EXCEPT ![r] = NoTxn]
    /\ UNCHANGED <<today, lastSeq, tickets, active, disturbed>>

---------------------------------------------------------------------------
(* Meanwhile.                                                              *)

NextDay ==
    /\ today < MaxDay
    /\ today' = today + 1
    /\ UNCHANGED <<lastSeq, tickets, active, txn, disturbed>>

\* Another request closes, reopens or reassigns a ticket.
Rework(t, t2) ==
    /\ t \in tickets
    /\ t2.number = t.number
    /\ tickets' = (tickets \ {t}) \cup {t2}
    /\ disturbed' = TRUE
    /\ UNCHANGED <<today, lastSeq, active, txn>>

SetActive(s, b) ==
    /\ active' = [active EXCEPT ![s] = b]
    /\ disturbed' = TRUE
    /\ UNCHANGED <<today, lastSeq, tickets, txn>>

Create(r) ==
    \/ \E u \in Units, b \in Branches \cup {NoBranch} : FirstOfUnit(r, u, b) \/ NextOfUnit(r, u, b)
    \/ \E b \in Branches \cup {NoBranch} : NumberLegacy(r, b)
    \/ NumberMail(r)
    \/ Insert(r)
    \/ Route(r)
    \/ Commit(r)
    \/ Rollback(r)

Meanwhile ==
    \/ NextDay
    \/ \E t \in tickets, s \in Staff \cup {Nobody}, b \in BOOLEAN :
          Rework(t, [t EXCEPT !.assignee = s, !.open = b])
    \/ \E s \in Staff, b \in BOOLEAN : SetActive(s, b)

Next == (\E r \in Requests : Create(r)) \/ Meanwhile

Spec == Init /\ [][Next]_vars

---------------------------------------------------------------------------

TypeOK ==
    /\ today \in Days
    /\ lastSeq \in [Units -> [{Year(d) : d \in Days} -> Nat]]
    /\ tickets \subseteq Ticket
    /\ active \in [Staff -> BOOLEAN]
    /\ txn \in [Requests -> Txn \cup {NoTxn}]
    /\ disturbed \in BOOLEAN

\* The committed tickets of a unit and year are numbered 1, 2, ... without a gap
\* up to last_seq: a request that fails gives its number back, and two first
\* tickets do not both count (services/ticket_seq_service.py).
SequenceHasNoGaps ==
    \A u \in Units : \A y \in DOMAIN lastSeq[u] :
        {m.n : m \in {k \in Taken : k.scheme = "unit" /\ k.unit = u /\ k.period = y}}
            = 1..lastSeq[u][y]

\* A number taken from an existing sequence row is nobody else's: the creation
\* can not fail on it, whoever else creates tickets of the unit.
LockedNumberIsFree ==
    \A r \in Requests :
        InFlight(r) /\ txn[r].number.scheme = "unit" /\ ~txn[r].first =>
            /\ txn[r].number \notin Taken
            /\ \A q \in Requests \ {r} : InFlight(q) => txn[q].number # txn[r].number

\* Numbers made by counting clash only with creations in flight: whatever has
\* committed, the next number computed is free, so that trying again works.
NextNumberIsFree ==
    /\ LegacyNumber \notin Taken
    /\ \A d \in Days : MailNumber(d) \notin Taken

\* As long as only routing changes loads, no agent is ahead of a colleague of
\* the same branch by more than the creations that can be in flight at once
\* (services/routing_service.py counts before the others commit).
RoutingBalanced ==
    ~disturbed =>
        \A a, b \in {s \in Staff : Role[s] = "agent"} :
            Home[a] = Home[b] => Load(a) <= Load(b) + Cardinality(Requests)

=============================================================================
