--------------------------- MODULE TicketRequests ---------------------------
(***************************************************************************)
(* Ticket rows under concurrent API requests.                              *)
(*                                                                         *)
(* Every mutating ticket endpoint has one shape: load the row, check the   *)
(* request against what was loaded, set attributes, commit.  Nothing locks *)
(* the row between the load and the commit, so two requests in flight work *)
(* from the same loaded row and the second to commit overwrites columns of *)
(* the first.  A transaction here is the row it loaded; the handler runs   *)
(* as one step that ends in the commit, which merges what it wants into    *)
(* the row as it now stands.                                               *)
(***************************************************************************)
EXTENDS Naturals, TicketLifecycle

CONSTANTS
    Tickets,      \* the tickets followed, by id
    Originals,    \* other tickets that exist: what a duplicate may point at
    Requests,     \* requests that may be in flight at the same time
    Unlinked,     \* duplicate_of_id IS NULL
    NoTxn,        \* a request slot with no transaction open
    NotRaised,    \* what the contract shows of a ticket not created yet
    MaxReopens    \* bound: times one loaded row may be reopened

ASSUME UnlinkedIsNoTicket == Unlinked \notin Tickets \cup Originals
ASSUME NotRaisedIsNoStatus == NotRaised \notin Statuses
ASSUME ReopenBound == MaxReopens \in Nat

\* The columns the lifecycle is about.  A timestamp column is abstracted to
\* whether it is set: the handlers only ever test it for being empty.
Row == [status: Statuses,
        responded: BOOLEAN,    \* first_response_at
        resolvedAt: BOOLEAN,   \* resolved_at
        closedAt: BOOLEAN,     \* closed_at
        reopens: Nat,          \* reopen_count
        isDuplicate: BOOLEAN,  \* is_duplicate
        duplicateOf: Tickets \cup Originals \cup {Unlinked}]

NewRow == [status |-> "new", responded |-> FALSE, resolvedAt |-> FALSE,
           closedAt |-> FALSE, reopens |-> 0, isDuplicate |-> FALSE,
           duplicateOf |-> Unlinked]

VARIABLES
    created,  \* tickets whose insert has committed
    row,      \* their committed rows
    txn,      \* the open transaction of each request slot
    worked,   \* history: tickets that have been in progress or escalated
    overtaken \* history: tickets given a status over one the writer never saw

vars == <<created, row, txn, worked, overtaken>>

\* "resolved" is meant to say that the ticket was worked, in one of these.
WorkingStatuses == {"in_progress", "escalated"}

Txn == [ticket: Tickets, loaded: Row]

\* An empty slot is neither a transaction nor what the contract sees of one.
ASSUME SlotIsNoTxn == NoTxn \notin Txn \cup [ticket: Tickets, seen: Statuses]

Init ==
    /\ created = {}
    /\ row = [t \in Tickets |-> NewRow]
    /\ txn = [r \in Requests |-> NoTxn]
    /\ worked = {}
    /\ overtaken = {}

---------------------------------------------------------------------------

\* What the session's flush leaves in the table.
Merge(now, loaded, wanted) ==
    [status      |-> Column(now.status, loaded.status, wanted.status),
     responded   |-> Column(now.responded, loaded.responded, wanted.responded),
     resolvedAt  |-> Column(now.resolvedAt, loaded.resolvedAt, wanted.resolvedAt),
     closedAt    |-> Column(now.closedAt, loaded.closedAt, wanted.closedAt),
     reopens     |-> Column(now.reopens, loaded.reopens, wanted.reopens),
     isDuplicate |-> Column(now.isDuplicate, loaded.isDuplicate, wanted.isDuplicate),
     duplicateOf |-> Column(now.duplicateOf, loaded.duplicateOf, wanted.duplicateOf)]

\* A status is written over a row that another request has moved, or stamped,
\* since this one loaded it.
Overtakes(now, loaded, wanted) ==
    /\ wanted.status # loaded.status
    /\ now.status # loaded.status \/ now.resolvedAt # loaded.resolvedAt

Commit(r, wanted) ==
    LET t == txn[r].ticket
        loaded == txn[r].loaded
        stored == Merge(row[t], loaded, wanted)
    IN  /\ row' = [row EXCEPT ![t] = stored]
        /\ txn' = [txn EXCEPT ![r] = NoTxn]
        /\ worked' = IF stored.status \in WorkingStatuses
                     THEN worked \cup {t} ELSE worked
        /\ overtaken' = IF Overtakes(row[t], loaded, wanted)
                        THEN overtaken \cup {t} ELSE overtaken
        /\ UNCHANGED created

\* POST /tickets, and intake from email.  The insert, the SLA stamps and the
\* routing are one commit; routing, when it finds somebody, also assigns.
CreateTicket(t) ==
    /\ t \notin created
    /\ created' = created \cup {t}
    /\ \E s \in {"new", "assigned"} :
          row' = [row EXCEPT ![t] = [NewRow EXCEPT !.status = s]]
    /\ UNCHANGED <<txn, worked, overtaken>>

\* _get_ticket_or_404: the read every other handler starts from.
LoadTicket(r, t) ==
    /\ txn[r] = NoTxn
    /\ t \in created
    /\ txn' = [txn EXCEPT ![r] = [ticket |-> t, loaded |-> row[t]]]
    /\ UNCHANGED <<created, row, worked, overtaken>>

\* A refused check, a failed statement or a lost client: the session is
\* rolled back and the row keeps what others committed.
Rollback(r) ==
    /\ txn[r] # NoTxn
    /\ txn' = [txn EXCEPT ![r] = NoTxn]
    /\ UNCHANGED <<created, row, worked, overtaken>>

---------------------------------------------------------------------------

\* The columns POST /tickets/{id}/status sets beside the status itself, each
\* from the loaded row and the requested status.
\* Mutant: reopening leaves the old resolution behind.
ResolvedStamp_Kept(loaded, s) == loaded.resolvedAt \/ s = "resolved"

ResolvedStamp(loaded, s) == (loaded.resolvedAt \/ s = "resolved") /\ s # "reopened"

\* Mutant: reopening clears closed_at, as TicketService.transition_status does.
ClosedStamp_Cleared(loaded, s) == (loaded.closedAt \/ s = "closed") /\ s # "reopened"

ClosedStamp(loaded, s) == loaded.closedAt \/ s = "closed"

\* Mutant: acknowledging is not taken for a response.
ResponseStamp_WorkOnly(loaded, s) == loaded.responded \/ s = "in_progress"

ResponseStamp(loaded, s) == loaded.responded \/ s \in {"in_progress", "acknowledged"}

ReopenCount(loaded, s) ==
    IF s = "reopened" THEN loaded.reopens + 1 ELSE loaded.reopens

\* transition_status.  A branch user may only close or reopen; the working
\* roles may make any move the table allows.
TransitionStatus(r, s, branchUser) ==
    LET loaded == txn[r].loaded IN
    /\ txn[r] # NoTxn
    /\ branchUser => s \in {"closed", "reopened"}
    /\ Accepts(loaded.status, s)
    /\ s = "reopened" => loaded.reopens < MaxReopens
    /\ Commit(r, [loaded EXCEPT !.status     = s,
                                 !.resolvedAt = ResolvedStamp(loaded, s),
                                 !.closedAt   = ClosedStamp(loaded, s),
                                 !.responded  = ResponseStamp(loaded, s),
                                 !.reopens    = ReopenCount(loaded, s)])

\* assign_ticket: naming an owner moves a new ticket on, and only a new one.
AssignTicket(r) ==
    LET loaded == txn[r].loaded IN
    /\ txn[r] # NoTxn
    /\ Commit(r, [loaded EXCEPT !.status = IF @ = "new" THEN "assigned" ELSE @])

\* mark_duplicate: closes the ticket from whatever status it has.
MarkDuplicate(r, original) ==
    /\ txn[r] # NoTxn
    /\ original # txn[r].ticket
    /\ original \in created \cup Originals
    /\ Commit(r, [txn[r].loaded EXCEPT !.isDuplicate = TRUE,
                                       !.duplicateOf = original,
                                       !.status = "closed"])

\* add_comment: the first one from anybody but a branch user stops the
\* response clock, an internal note included.
AddComment(r, branchUser) ==
    /\ txn[r] # NoTxn
    /\ Commit(r, [txn[r].loaded EXCEPT !.responded = @ \/ ~branchUser])

\* Mutant: the engine does not look at the status.
EscalateTicket_AnyStatus(r) ==
    /\ txn[r] # NoTxn
    /\ Commit(r, [txn[r].loaded EXCEPT !.status = "escalated"])

\* EscalationService.escalate, for the endpoint and for the SLA worker alike.
\* Suppression by an open event is module Escalation's subject; here it is one
\* more reason for a Rollback.
EscalateTicket(r) ==
    /\ txn[r] # NoTxn
    /\ txn[r].loaded.status \in OpenStatuses
    /\ Commit(r, [txn[r].loaded EXCEPT !.status = "escalated"])

Handle(r) ==
    \/ \E s \in Statuses, branchUser \in BOOLEAN : TransitionStatus(r, s, branchUser)
    \/ AssignTicket(r)
    \/ \E original \in Tickets \cup Originals : MarkDuplicate(r, original)
    \/ \E branchUser \in BOOLEAN : AddComment(r, branchUser)
    \/ EscalateTicket(r)

Next ==
    \/ \E t \in Tickets : CreateTicket(t)
    \/ \E r \in Requests, t \in Tickets : LoadTicket(r, t)
    \/ \E r \in Requests : Rollback(r)
    \/ \E r \in Requests : Handle(r)

Spec == Init /\ [][Next]_vars

---------------------------------------------------------------------------
(***************************************************************************)
(* Properties.                                                             *)
(***************************************************************************)

\* Every committed row, and every row a request holds, is a ticket row.
TypeOK ==
    /\ created \subseteq Tickets
    /\ row \in [Tickets -> Row]
    /\ txn \in [Requests -> Txn \cup {NoTxn}]
    /\ worked \subseteq Tickets
    /\ overtaken \subseteq Tickets

\* A closed ticket says how it was closed: either closed_at is set or it is
\* marked a duplicate.  Two requests that raced, one closing and one working
\* from a row loaded before, must not leave a closed row with neither.
ClosedIsExplained ==
    \A t \in Tickets :
        row[t].status = "closed" => row[t].closedAt \/ row[t].isDuplicate

\* A ticket somebody is working on, or has acknowledged, has its response clock
\* stopped, whatever raced with the request that moved it there.
WorkStopsResponseClock ==
    \A t \in Tickets :
        row[t].status \in {"in_progress", "acknowledged"} => row[t].responded

\* "resolved requires the ticket to have been worked": a resolved ticket has at
\* some time been in progress or escalated, even when the request that resolved
\* it was checked against a row that is no longer there.
ResolvedWasWorked ==
    \A t \in Tickets : row[t].status = "resolved" => t \in worked

\* A reopened ticket is counted: reopen_count is the number reports print.
ReopenedIsCounted ==
    \A t \in Tickets : row[t].status = "reopened" => row[t].reopens > 0

\* The evidence on a row survives later commits: no request in flight, however
\* old the row it loaded, erases the response stamp, the closing stamp or the
\* duplicate mark that another one committed meanwhile.
EvidenceKept ==
    [][\A t \in Tickets :
          /\ row[t].responded => row'[t].responded
          /\ row[t].closedAt => row'[t].closedAt
          /\ row[t].isDuplicate => row'[t].isDuplicate]_vars

\* resolved_at belongs to the current resolution: a resolved ticket has it, and
\* an open one does not, so the resolution averages count the right rows.  Other
\* requests may come and go between a load and its commit; what breaks it is a
\* status written over one its writer never saw, and nothing else.
ResolutionStampCurrent ==
    \A t \in Tickets \ overtaken :
        /\ row[t].status = "resolved" => row[t].resolvedAt
        /\ row[t].resolvedAt => row[t].status \in {"resolved", "closed"}

\* "Illegal jumps are rejected": the stored status of a ticket only ever moves as
\* the table allows, or to escalated from an open one, or to closed.  The check
\* of the status endpoint is against the loaded row, so two requests break it.
StoredMovesAreLegal ==
    [][\A t \in created :
          LET old == row[t].status
              new == row'[t].status
          IN  \/ new \in ValidTransitions[old] \cup {old, "closed"}
              \/ new = "escalated" /\ old \in OpenStatuses]_vars

\* The abstract lifecycle, read off the committed rows and the open sessions.
StatusShown ==
    [t \in Tickets |-> IF t \in created THEN row[t].status ELSE NotRaised]

ViewShown ==
    [r \in Requests |->
        IF txn[r] = NoTxn THEN NoTxn
        ELSE [ticket |-> txn[r].ticket, seen |-> txn[r].loaded.status]]

Contract == INSTANCE LifecycleContract
                WITH Clients <- Requests, NoView <- NoTxn,
                     status <- StatusShown, view <- ViewShown

\* However many requests overlap, each writes at most one status, and one that
\* the table allows from the status it loaded.
ImplementsContract == Contract!Spec

=============================================================================
