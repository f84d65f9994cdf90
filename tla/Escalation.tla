----------------------------- MODULE Escalation -----------------------------
(***************************************************************************)
(* Escalation of tickets by the SLA worker and by hand.                    *)
(*                                                                         *)
(* The worker's job and the escalate endpoint run the same engine: look    *)
(* for an open event of the same trigger, refuse a ticket that is not      *)
(* open, set the status, add an event; the caller commits and only then    *)
(* sends the mails.  The job does this for a whole batch in one            *)
(* transaction.  Nothing locks an event row that does not exist yet, so    *)
(* two transactions may both find none; the row locks that the engine's    *)
(* flush takes delay the second writer and do not make it look again.      *)
(*                                                                         *)
(* No code ever sets an event's resolved_at, so a committed event stays    *)
(* open and events are kept as counts.                                     *)
(***************************************************************************)
EXTENDS Naturals, FiniteSets, TicketLifecycle

CONSTANTS
    Tickets,      \* tickets, all created before time 0
    Workers,      \* SLA jobs that may run at the same time, one per replica
    Requests,     \* API requests that may be in flight at the same time
    Triggers,     \* values of EscalationTrigger that are followed
    ByHand,       \* the triggers that escalate requests name
    Targets,      \* the statuses that transition requests ask for
    Deadline,     \* tracking.resolution_due_at of each ticket
    TicketDue,    \* ticket.resolution_due_at: resuming moves this one only
    Ruled,        \* tickets that some active SLA_BREACH rule matches
    Grace,        \* trigger_after_minutes of that rule, in ticks
    NoTrigger,    \* a request that has not reached the engine
    NoTxn,        \* a request slot with no transaction open
    MaxTime,      \* bound: last tick of the clock
    MaxCrashes    \* bound: times the process dies

ASSUME DeadlinesAreTimes ==
    Deadline \in [Tickets -> Nat] /\ TicketDue \in [Tickets -> Nat]
ASSUME GraceIsTime == Grace \in Nat
ASSUME BreachIsTrigger == "sla_breach" \in Triggers /\ ByHand \subseteq Triggers
ASSUME FinitelyManyAtWork == IsFiniteSet(Workers) /\ IsFiniteSet(Requests)
ASSUME NamedApart == Workers \cap Requests = {}
ASSUME TargetsAreStatuses == Targets \subseteq Statuses
ASSUME Bounds == MaxTime \in Nat /\ MaxCrashes \in Nat

VARIABLES
    now,      \* the clock
    status,   \* committed status of each ticket
    flagged,  \* tickets whose sla_breached column is set
    tracked,  \* tickets whose tracking row has is_resolution_breached set
    events,   \* number of open escalation events of each ticket and trigger
    mails,    \* notifications sent for each ticket and trigger
    txn,      \* what each request slot is doing
    job,      \* what each worker's current run has done
    crashes   \* times the process has died

stored == <<status, flagged, tracked, events>>
vars == <<now, status, flagged, tracked, events, mails, txn, job, crashes>>

\* A run of the job: the rows still to handle, and the effects its open
\* transaction will commit.  moved are the raised tickets whose status column
\* differs from the one that was loaded.
Job == [pc: {"idle", "marking", "notifying"},
        todo: SUBSET Tickets, marked: SUBSET Tickets,
        raised: SUBSET Tickets, moved: SUBSET Tickets]

Idle == [pc |-> "idle", todo |-> {}, marked |-> {}, raised |-> {}, moved |-> {}]

\* A request: loaded the ticket, passed the engine's checks for a trigger, or
\* committed and about to send the mail.
Txn == [pc: {"loaded", "passed", "notifying"}, ticket: Tickets,
        loaded: Statuses, trigger: Triggers \cup {NoTrigger}]

ASSUME SlotIsNoTxn == NoTxn \notin Txn

\* Events and mails are counted by ticket and trigger.
Counts == [Tickets -> [Triggers -> Nat]]

Init ==
    /\ now = 0
    /\ status \in [Tickets -> {"new", "assigned"}]
    /\ flagged = {}
    /\ tracked = {}
    /\ events = [t \in Tickets |-> [g \in Triggers |-> 0]]
    /\ mails = [t \in Tickets |-> [g \in Triggers |-> 0]]
    /\ txn = [r \in Requests |-> NoTxn]
    /\ job = [w \in Workers |-> Idle]
    /\ crashes = 0

---------------------------------------------------------------------------
(***************************************************************************)
(* The engine.                                                             *)
(***************************************************************************)

\* One more event, or one more mail, of a ticket and a trigger.
OneMore(counts, t, g) == [counts EXCEPT ![t][g] = @ + 1]

\* Mutant: events are looked up for the wrong trigger and never found.
HasOpenEscalation_NeverFound(t, g) == FALSE

\* has_open_escalation, of committed events.
HasOpenEscalation(t, g) == events[t][g] > 0

\* escalate refuses when an event of the trigger is open or when the ticket,
\* as loaded, is resolved or closed.
MayEscalate(t, g, loaded) == ~HasOpenEscalation(t, g) /\ loaded \in OpenStatuses

\* Mutant: the grace period is not looked at.
GraceOver_Ignored(t) == TRUE

\* Mutant: the grace must be exceeded, not reached.
GraceOver_Strict(t) == Grace > 0 => now > TicketDue[t] + Grace

\* trigger_after_minutes, counted from the ticket's own deadline; zero means
\* that the time is not looked at.
GraceOver(t) == Grace > 0 => now >= TicketDue[t] + Grace

\* escalate_breached adds that a rule matches and that its grace is over.
MayEscalateBreached(t, loaded) ==
    /\ t \in Ruled
    /\ GraceOver(t)
    /\ MayEscalate(t, "sla_breach", loaded)

---------------------------------------------------------------------------
(***************************************************************************)
(* The SLA worker.                                                         *)
(***************************************************************************)

\* Mutant: a row due at this very moment is not selected.
Overdue_Strict(t) ==
    /\ status[t] \in OpenStatuses
    /\ t \notin tracked
    /\ Deadline[t] < now

\* The tracking rows the job selects.
Overdue(t) ==
    /\ status[t] \in OpenStatuses
    /\ t \notin tracked
    /\ Deadline[t] <= now

\* check_sla_breaches_job selects its batch; with nothing to do it ends.
SelectBatch(w) ==
    LET batch == {t \in Tickets : Overdue(t)} IN
    /\ job[w].pc = "idle"
    /\ batch # {}
    /\ job' = [job EXCEPT ![w] = [Idle EXCEPT !.pc = "marking", !.todo = batch]]
    /\ UNCHANGED <<now, stored, mails, txn, crashes>>

\* One turn of the loop: load the ticket, flag it, apply the rules.
MarkTicket(w, t) ==
    /\ job[w].pc = "marking"
    /\ t \in job[w].todo
    /\ LET escalated == {u \in {t} : MayEscalateBreached(u, status[u])}
       IN  job' = [job EXCEPT ![w] =
                      [pc     |-> "marking",
                       todo   |-> @.todo \ {t},
                       marked |-> @.marked \cup {t},
                       raised |-> @.raised \cup escalated,
                       moved  |-> @.moved \cup {u \in escalated : status[u] # "escalated"}]]
    /\ UNCHANGED <<now, stored, mails, txn, crashes>>

\* Mutant: the ticket's flag is set only where a rule escalated.
FlagsAfter_RaisedOnly(w) == flagged \cup job[w].raised

\* The sla_breached column after the run's commit.
FlagsAfter(w) == flagged \cup job[w].marked

\* The one commit of the run.
CommitRun(w) ==
    /\ job[w].pc = "marking"
    /\ job[w].todo = {}
    /\ tracked' = tracked \cup job[w].marked
    /\ flagged' = FlagsAfter(w)
    /\ status' = [t \in Tickets |->
                     IF t \in job[w].moved THEN "escalated" ELSE status[t]]
    /\ events' = [t \in Tickets |->
                     IF t \in job[w].raised
                     THEN [events[t] EXCEPT !["sla_breach"] = @ + 1]
                     ELSE events[t]]
    /\ job' = [job EXCEPT ![w] = [Idle EXCEPT !.pc = "notifying",
                                              !.raised = job[w].raised]]
    /\ UNCHANGED <<now, mails, txn, crashes>>

\* Mutant: a ticket stays on the list after its mail is sent.
NotifyRun_Resends(w) ==
    /\ job[w].pc = "notifying"
    /\ \E t \in job[w].raised : mails' = OneMore(mails, t, "sla_breach")
    /\ UNCHANGED <<now, stored, txn, job, crashes>>

\* notify_escalation_outcome for one pending ticket; delivery may fail, which
\* is logged and swallowed.
NotifyRun(w) ==
    /\ job[w].pc = "notifying"
    /\ \E t \in job[w].raised :
          /\ job' = [job EXCEPT ![w].raised = @ \ {t}]
          /\ \/ mails' = OneMore(mails, t, "sla_breach")
             \/ mails' = mails
    /\ UNCHANGED <<now, stored, txn, crashes>>

EndRun(w) ==
    /\ job[w].pc = "notifying"
    /\ job[w].raised = {}
    /\ job' = [job EXCEPT ![w] = Idle]
    /\ UNCHANGED <<now, stored, mails, txn, crashes>>

Run(w) ==
    \/ SelectBatch(w)
    \/ \E t \in Tickets : MarkTicket(w, t)
    \/ CommitRun(w)
    \/ NotifyRun(w)
    \/ EndRun(w)

---------------------------------------------------------------------------
(***************************************************************************)
(* API requests.                                                           *)
(***************************************************************************)

LoadTicket(r, t) ==
    /\ txn[r] = NoTxn
    /\ txn' = [txn EXCEPT ![r] = [pc |-> "loaded", ticket |-> t,
                                  loaded |-> status[t],
                                  trigger |-> NoTrigger]]
    /\ UNCHANGED <<now, stored, mails, job, crashes>>

\* transition_status, as in TicketRequests.
TransitionStatus(r, s) ==
    /\ txn[r] # NoTxn
    /\ txn[r].pc = "loaded"
    /\ Accepts(txn[r].loaded, s)
    /\ status' = [status EXCEPT ![txn[r].ticket] = Column(@, txn[r].loaded, s)]
    /\ txn' = [txn EXCEPT ![r] = NoTxn]
    /\ UNCHANGED <<now, flagged, tracked, events, mails, job, crashes>>

\* escalate_ticket: the engine looks for an open event and checks the status.
PassChecks(r, g) ==
    /\ txn[r] # NoTxn
    /\ txn[r].pc = "loaded"
    /\ MayEscalate(txn[r].ticket, g, txn[r].loaded)
    /\ txn' = [txn EXCEPT ![r].pc = "passed", ![r].trigger = g]
    /\ UNCHANGED <<now, stored, mails, job, crashes>>

\* The endpoint commits the status and the event together.
CommitEscalation(r) ==
    LET t == txn[r].ticket
        g == txn[r].trigger
    IN  /\ txn[r] # NoTxn
        /\ txn[r].pc = "passed"
        /\ status' = [status EXCEPT ![t] = Column(@, txn[r].loaded, "escalated")]
        /\ events' = OneMore(events, t, g)
        /\ txn' = [txn EXCEPT ![r].pc = "notifying"]
        /\ UNCHANGED <<now, flagged, tracked, mails, job, crashes>>

NotifyEscalation(r) ==
    /\ txn[r] # NoTxn
    /\ txn[r].pc = "notifying"
    /\ \/ mails' = OneMore(mails, txn[r].ticket, txn[r].trigger)
       \/ mails' = mails
    /\ txn' = [txn EXCEPT ![r] = NoTxn]
    /\ UNCHANGED <<now, stored, job, crashes>>

\* A refused check, a failed statement or a dead process before the commit.
\* After it there is only the mail to lose, which NotifyEscalation allows.
Rollback(r) ==
    /\ txn[r] # NoTxn
    /\ txn[r].pc # "notifying"
    /\ txn' = [txn EXCEPT ![r] = NoTxn]
    /\ UNCHANGED <<now, stored, mails, job, crashes>>

Request(r) ==
    \/ \E t \in Tickets : LoadTicket(r, t)
    \/ \E s \in Targets : TransitionStatus(r, s)
    \/ \E g \in ByHand : PassChecks(r, g)
    \/ CommitEscalation(r)
    \/ NotifyEscalation(r)
    \/ Rollback(r)

---------------------------------------------------------------------------

Tick ==
    /\ now < MaxTime
    /\ now' = now + 1
    /\ UNCHANGED <<stored, mails, txn, job, crashes>>

\* A run that raises is logged and its transaction rolled back; the process
\* dying does the same to a run in any phase.
AbandonRun(w) ==
    /\ job[w].pc # "idle"
    /\ crashes < MaxCrashes
    /\ crashes' = crashes + 1
    /\ job' = [job EXCEPT ![w] = Idle]
    /\ UNCHANGED <<now, stored, mails, txn>>

Next ==
    \/ \E w \in Workers : Run(w) \/ AbandonRun(w)
    \/ \E r \in Requests : Request(r)
    \/ Tick

\* The scheduler starts the job every five minutes and the event loop runs
\* what is started; time passes.  Requests come when people send them.
Fairness == WF_vars(Tick) /\ \A w \in Workers : WF_vars(Run(w))

Spec == Init /\ [][Next]_vars

FairSpec == Spec /\ Fairness

---------------------------------------------------------------------------
(***************************************************************************)
(* Properties.                                                             *)
(***************************************************************************)

\* Committed state, open transactions and runs have the shape of the code's.
TypeOK ==
    /\ now \in Nat /\ crashes \in Nat
    /\ status \in [Tickets -> Statuses]
    /\ flagged \subseteq Tickets
    /\ tracked \subseteq Tickets
    /\ events \in Counts
    /\ mails \in Counts
    /\ txn \in [Requests -> Txn \cup {NoTxn}]
    /\ job \in [Workers -> Job]

\* The breach flag lives on the ticket (lists and tiles read it) and on the
\* tracking row (the worker reads it).  A run that dies anywhere must not leave
\* one set without the other, or a breach is shown and never handled.
FlagsAgree == flagged = tracked

\* The workers and requests that can raise a trigger at the same time.
AtOnce(g) ==
    (IF g = "sla_breach" THEN Cardinality(Workers) ELSE 0)
        + (IF g \in ByHand THEN Cardinality(Requests) ELSE 0)

\* "It will not escalate the same ticket twice", as far as the look for an open
\* event goes: only transactions that were open together can raise a trigger
\* twice, so its events never outnumber them, however many runs and requests
\* follow.  One that is alone raises it once.
FewOpenEvents == \A t \in Tickets, g \in Triggers : events[t][g] <= AtOnce(g)

\* Mail follows the commit: nobody is told of an escalation that was rolled
\* back, and no event is announced more than once, whichever step a run or a
\* process died at.
MailsBacked == \A t \in Tickets, g \in Triggers : mails[t][g] <= events[t][g]

\* An escalation the worker made is backed by the breach: the ticket is flagged,
\* a rule matched it and the rule's grace was over.  The event, the flags and
\* the decision come from three different reads of the run.
AutoEscalationJustified ==
    \A t \in Tickets :
        events[t]["sla_breach"] > 0 =>
            /\ t \in tracked /\ t \in Ruled
            /\ Deadline[t] <= now
            /\ Grace > 0 => TicketDue[t] + Grace <= now

\* A ticket past its deadline is flagged, or stops being open, even when runs
\* fail: the next run selects it again.
BreachDetected ==
    \A t \in Tickets :
        (status[t] \in OpenStatuses /\ Deadline[t] <= now)
            ~> (t \in tracked \/ status[t] \notin OpenStatuses)

\* "The worker revisits every overdue ticket each run": a ticket that a rule
\* matches and whose grace is over is escalated, or stops being open.  A ticket
\* that was flagged inside the grace is not selected again, which breaks it.
EscalatedAfterGrace ==
    \A t \in Ruled :
        (status[t] \in OpenStatuses /\ TicketDue[t] + Grace <= now)
            ~> (events[t]["sla_breach"] > 0 \/ status[t] \notin OpenStatuses)

\* What does follow a grace: a ticket that no run has flagged when its grace is
\* over is escalated, or stops being open, even when the run that took it fails
\* and another has to.
EscalatedWhenSeenLate ==
    \A t \in Ruled :
        (/\ status[t] \in OpenStatuses
         /\ Deadline[t] <= now /\ TicketDue[t] + Grace <= now
         /\ t \notin tracked
         /\ \A w \in Workers : t \notin job[w].marked)
            ~> (events[t]["sla_breach"] > 0 \/ status[t] \notin OpenStatuses)

\* A worker or request has passed the look for an open event of this ticket and
\* trigger, and has not committed yet.
Claimed(a, t, g) ==
    \/ /\ a \in Workers /\ job[a].pc = "marking"
       /\ t \in job[a].raised /\ g = "sla_breach"
    \/ /\ a \in Requests /\ txn[a] # NoTxn
       /\ txn[a].pc = "passed" /\ txn[a].ticket = t /\ txn[a].trigger = g

ClaimsShown ==
    {c \in (Workers \cup Requests) \X Tickets \X Triggers : Claimed(c[1], c[2], c[3])}

\* Seen through its events, its mails and what is on the way to a commit, any
\* number of workers and requests together are the contract.
Contract == INSTANCE EscalationContract
                WITH Claimants <- Workers \cup Requests,
                     raised <- events, told <- mails, claims <- ClaimsShown

ImplementsContract == Contract!Spec

=============================================================================
