------------------------------ MODULE SlaClock ------------------------------
(***************************************************************************)
(* The resolution clock of a ticket: the deadline stamped at creation, the *)
(* pause and resume endpoints, and the worker that marks a breach.         *)
(*                                                                         *)
(* The deadline is stored twice, on the ticket (what people see) and on    *)
(* the sla_tracking row (what the worker reads).  Pause and resume follow  *)
(* the load / check / commit shape of module TicketRequests, so two of     *)
(* them may work from the same loaded row.                                 *)
(***************************************************************************)
EXTENDS Naturals, TicketLifecycle

CONSTANTS
    Tickets,     \* tickets, all created at time 0
    Requests,    \* pause and resume requests that may be in flight together
    Resolution,  \* resolution minutes of the policy, in ticks
    NotPaused,   \* sla_paused_at IS NULL
    NoTxn,       \* a request slot with no transaction open
    MaxTime      \* bound: last tick of the clock

ASSUME TimeBounds == Resolution \in Nat /\ MaxTime \in Nat
ASSUME NotPausedIsNoTime == NotPaused \notin Nat

VARIABLES
    now,       \* the clock, in ticks
    clock,     \* ticket columns: sla_paused_at and resolution_due_at
    open,      \* tickets whose status is one of OPEN_STATUSES
    breached,  \* tickets flagged sla_breached, on the ticket and its tracking row
    tracking,  \* sla_tracking columns: paused_at and resolution_due_at
    txn,       \* the open transaction of each request slot
    pausedFor,  \* history: ticks each ticket has spent paused
    overlapped  \* history: tickets that two requests have had open at once

history == <<pausedFor, overlapped>>
vars == <<now, clock, open, breached, tracking, txn, history>>

\* Both tables keep a pause time and a deadline.
Timer == [paused: Nat \cup {NotPaused}, due: Nat]

Txn == [ticket: Tickets, loaded: Timer]

\* apply_to_ticket: both deadlines are the creation time plus the policy's.
Stamped == [paused |-> NotPaused, due |-> Resolution]

Init ==
    /\ now = 0
    /\ clock = [t \in Tickets |-> Stamped]
    /\ tracking = [t \in Tickets |-> Stamped]
    /\ open = Tickets
    /\ breached = {}
    /\ txn = [r \in Requests |-> NoTxn]
    /\ pausedFor = [t \in Tickets |-> 0]
    /\ overlapped = {}

---------------------------------------------------------------------------

Tick ==
    /\ now < MaxTime
    /\ now' = now + 1
    /\ pausedFor' = [t \in Tickets |->
                        IF clock[t].paused = NotPaused THEN pausedFor[t]
                        ELSE pausedFor[t] + 1]
    /\ UNCHANGED <<clock, open, breached, tracking, txn, overlapped>>

\* A status change by a request, of which only open or not matters here.
ChangeStatus(t) ==
    /\ open' = IF t \in open THEN open \ {t} ELSE open \cup {t}
    /\ UNCHANGED <<now, clock, breached, tracking, txn, history>>

\* A request works on a ticket.
Holds(r, t) == txn[r] # NoTxn /\ txn[r].ticket = t

\* The read both endpoints start from.
LoadTicket(r, t) ==
    /\ txn[r] = NoTxn
    /\ txn' = [txn EXCEPT ![r] = [ticket |-> t, loaded |-> clock[t]]]
    /\ overlapped' = overlapped \cup
                         {u \in {t} : \E q \in Requests : Holds(q, u)}
    /\ UNCHANGED <<now, clock, open, breached, tracking, pausedFor>>

Commit(r, wanted) ==
    LET loaded == txn[r].loaded IN
    /\ clock' = [clock EXCEPT ![txn[r].ticket] =
                    [paused |-> Column(@.paused, loaded.paused, wanted.paused),
                     due    |-> Column(@.due, loaded.due, wanted.due)]]
    /\ txn' = [txn EXCEPT ![r] = NoTxn]
    /\ UNCHANGED <<now, open, breached, tracking, history>>

\* Mutant: a second pause restarts the pause.
PauseSla_Restarts(r) ==
    /\ txn[r] # NoTxn
    /\ Commit(r, [txn[r].loaded EXCEPT !.paused = now])

\* pause_sla, the endpoint: refuses a loaded row that is paused already, and
\* writes the ticket only.
PauseSla(r) ==
    /\ txn[r] # NoTxn
    /\ txn[r].loaded.paused = NotPaused
    /\ Commit(r, [txn[r].loaded EXCEPT !.paused = now])

\* Mutant: the deadline is extended and the pause left running.
ResumeSla_StillPaused(r) ==
    LET loaded == txn[r].loaded IN
    /\ txn[r] # NoTxn
    /\ loaded.paused # NotPaused
    /\ Commit(r, [loaded EXCEPT !.due = @ + (now - loaded.paused)])

\* resume_sla, the endpoint: extends the loaded deadline by the time since the
\* loaded pause, and writes the ticket only.
ResumeSla(r) ==
    LET loaded == txn[r].loaded IN
    /\ txn[r] # NoTxn
    /\ loaded.paused # NotPaused
    /\ Commit(r, [paused |-> NotPaused,
                  due    |-> loaded.due + (now - loaded.paused)])

Rollback(r) ==
    /\ txn[r] # NoTxn
    /\ txn' = [txn EXCEPT ![r] = NoTxn]
    /\ UNCHANGED <<now, clock, open, breached, tracking, history>>

\* The tracking rows check_sla_breaches_job selects.
Due(t) ==
    /\ t \in open
    /\ t \notin breached
    /\ tracking[t].due <= now
    /\ tracking[t].paused = NotPaused

\* One run of the job as far as the breach flags go; module Escalation has the
\* run's steps and what else it does with the rows it selects.
CheckBreaches ==
    /\ breached' = breached \cup {t \in Tickets : Due(t)}
    /\ UNCHANGED <<now, clock, open, tracking, txn, history>>

Next ==
    \/ Tick
    \/ \E t \in Tickets : ChangeStatus(t)
    \/ \E r \in Requests, t \in Tickets : LoadTicket(r, t)
    \/ \E r \in Requests : PauseSla(r) \/ ResumeSla(r) \/ Rollback(r)
    \/ CheckBreaches

Spec == Init /\ [][Next]_vars

---------------------------------------------------------------------------
(***************************************************************************)
(* Properties.                                                             *)
(***************************************************************************)

\* Times are times, and nothing but a pause endpoint makes a timer paused.
TypeOK ==
    /\ now \in Nat
    /\ clock \in [Tickets -> Timer]
    /\ tracking \in [Tickets -> Timer]
    /\ open \subseteq Tickets
    /\ breached \subseteq Tickets
    /\ txn \in [Requests -> Txn \cup {NoTxn}]
    /\ pausedFor \in [Tickets -> Nat]
    /\ overlapped \subseteq Tickets

\* However pauses and resumes overlap (a resume retried from an old row, two
\* resumes of one pause), nobody gains more time than has passed: the deadline
\* is never later than the original one plus the whole life of the ticket.
ExtensionBounded == \A t \in Tickets : clock[t].due <= Resolution + now

\* As long as no two requests have worked on a ticket at once, its deadline has
\* moved by exactly the time people saw it paused, counting a pause that is
\* still running, however many pauses, resumes and refusals there were.
ExtensionIsPausedTime ==
    \A t \in Tickets \ overlapped :
        LET running == IF clock[t].paused = NotPaused THEN 0
                       ELSE now - clock[t].paused
        IN  clock[t].due + running = Resolution + pausedFor[t]

\* "For each ticket whose resolution deadline has passed", "don't breach paused
\* timers" (the worker): a ticket is flagged after the deadline it carries and
\* not while it is paused.
BreachedWhenDue ==
    [][\A t \in breached' \ breached :
          clock[t].paused = NotPaused /\ clock[t].due <= now]_vars

=============================================================================
