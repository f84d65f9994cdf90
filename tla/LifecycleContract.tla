------------------------- MODULE LifecycleContract -------------------------
(***************************************************************************)
(* What the ticket API promises about a ticket's status, with no sessions, *)
(* columns or stamps in it.  A client looks at a ticket and may then move  *)
(* it as far as the status it saw allows, once.  Nothing is promised about *)
(* what others did since it looked: the table is kept between what one     *)
(* client saw and what it writes, not between two stored statuses.         *)
(***************************************************************************)
EXTENDS TicketLifecycle

CONSTANTS Tickets, Clients, NotRaised, NoView

VARIABLES
    status,  \* of every ticket
    view     \* what each client has seen and not acted on yet

vars == <<status, view>>

View == [ticket: Tickets, seen: Statuses]

Init ==
    /\ status = [t \in Tickets |-> NotRaised]
    /\ view = [c \in Clients |-> NoView]

\* A ticket starts new, or assigned when routing found an owner for it.
Raise(t) ==
    /\ status[t] = NotRaised
    /\ \E s \in {"new", "assigned"} : status' = [status EXCEPT ![t] = s]
    /\ UNCHANGED view

Look(c, t) ==
    /\ view[c] = NoView
    /\ status[t] # NotRaised
    /\ view' = [view EXCEPT ![c] = [ticket |-> t, seen |-> status[t]]]
    /\ UNCHANGED status

\* The client is refused, fails, or changes something other than the status.
Forget(c) ==
    /\ view[c] # NoView
    /\ view' = [view EXCEPT ![c] = NoView]
    /\ UNCHANGED status

\* Where a client that saw this status may take the ticket: along the table,
\* to escalated from anything open, and to closed, as a duplicate, from anything.
Reach(seen) ==
    ValidTransitions[seen] \cup {"closed"}
        \cup {s \in {"escalated"} : seen \in OpenStatuses}

Act(c) ==
    /\ view[c] # NoView
    /\ \E s \in Reach(view[c].seen) : status' = [status EXCEPT ![view[c].ticket] = s]
    /\ view' = [view EXCEPT ![c] = NoView]

Next ==
    \/ \E t \in Tickets : Raise(t)
    \/ \E c \in Clients, t \in Tickets : Look(c, t)
    \/ \E c \in Clients : Forget(c)
    \/ \E c \in Clients : Act(c)

Spec == Init /\ [][Next]_vars

=============================================================================
