---------------------------- MODULE MCEscalation ----------------------------
(***************************************************************************)
(* Escalation for TLC: tickets of two deadlines, so that a run may find one *)
(* of them overdue or both.                                                 *)
(***************************************************************************)
EXTENDS Escalation, TLC

CONSTANTS
    Early,   \* the tickets due from the start
    Resumed  \* the tickets whose own deadline a pause has moved by a tick

Deadlines == [t \in Tickets |-> IF t \in Early THEN 0 ELSE 2]

TicketDues == [t \in Tickets |-> IF t \in Resumed THEN Deadlines[t] + 1 ELSE Deadlines[t]]

\* Which of the two a ticket starts in makes no difference to the engine.
StartNew == \A t \in Tickets : status[t] # "assigned"

=============================================================================
