-------------------------- MODULE TicketLifecycle --------------------------
(***************************************************************************)
(* The vocabulary every module about tickets shares: the nine statuses,    *)
(* which of them count as open, the transition table the status endpoint   *)
(* consults, and what a database session writes back at its flush.         *)
(***************************************************************************)

\* models/ticket.py, TicketStatus.
Statuses == {"new", "acknowledged", "assigned", "in_progress", "on_hold",
             "escalated", "resolved", "closed", "reopened"}

\* models/ticket.py, OPEN_STATUSES: the work is still outstanding.
OpenStatuses == Statuses \ {"resolved", "closed"}

\* ticket_service.py, VALID_TRANSITIONS: the moves the endpoint accepts.
ValidTransitions ==
    [new          |-> {"acknowledged", "assigned", "closed"},
     acknowledged |-> {"assigned", "closed"},
     assigned     |-> {"in_progress", "on_hold", "escalated", "closed"},
     in_progress  |-> {"on_hold", "escalated", "resolved", "closed"},
     on_hold      |-> {"in_progress", "escalated", "closed"},
     escalated    |-> {"in_progress", "resolved", "closed"},
     resolved     |-> {"closed", "reopened"},
     closed       |-> {"reopened"},
     reopened     |-> {"assigned", "in_progress", "closed"}]

\* Mutant: any open ticket may be resolved.
Accepts_ResolveAnyOpen(old, new) ==
    \/ new = old \/ new \in ValidTransitions[old]
    \/ new = "resolved" /\ old \in OpenStatuses

\* Asking for the status the ticket already has skips the table: the endpoint
\* accepts it and applies the timestamps of that status again.
Accepts(old, new) == new = old \/ new \in ValidTransitions[old]

(***************************************************************************)
(* The object-relational session compares each column with the value it    *)
(* loaded and sends an UPDATE of the columns that differ, keyed by the row *)
(* id alone: there is no version column, and the isolation level is READ   *)
(* COMMITTED, so a column the session did not touch keeps whatever another *)
(* transaction has committed since the load.                               *)
(***************************************************************************)
Column(current, loaded, wanted) == IF wanted # loaded THEN wanted ELSE current

=============================================================================
