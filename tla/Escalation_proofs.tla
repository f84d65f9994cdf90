------------------------- MODULE Escalation_proofs -------------------------
(***************************************************************************)
(* For any number of tickets, deadlines, rules, crashes, replicas of the   *)
(* worker and requests in flight: what the escalation engine guarantees.   *)
(* The flags agree, no mail goes out without an event of its own, and a    *)
(* trigger is raised no more often than there are transactions that may    *)
(* look for its event at the same time.                                    *)
(***************************************************************************)
EXTENDS Escalation, FiniteSetTheorems, TLAPS

\* A ticket that the worker was right to escalate.
Justified(t) ==
    /\ t \in Ruled
    /\ Deadline[t] <= now
    /\ Grace > 0 => TicketDue[t] + Grace <= now

\* What a run has decided and not committed yet.
JobOK(w) ==
    job[w].pc = "marking" =>
        /\ job[w].raised \subseteq job[w].marked
        /\ \A t \in job[w].raised : Justified(t)
        /\ \A t \in job[w].todo : Deadline[t] <= now

TriggerOK(r) ==
    txn[r] # NoTxn /\ txn[r].pc # "loaded" => txn[r].trigger \in ByHand

IInv ==
    /\ TypeOK
    /\ FlagsAgree
    /\ \A w \in Workers : JobOK(w)
    /\ \A r \in Requests : TriggerOK(r)

---------------------------------------------------------------------------

\* One count of a line, and one of a table, raised.
LEMMA LineUp ==
    ASSUME NEW line \in [Triggers -> Nat], NEW g \in Triggers
    PROVE  LET up == [line EXCEPT ![g] = @ + 1]
           IN  /\ up \in [Triggers -> Nat]
               /\ up[g] = line[g] + 1
               /\ \A h \in Triggers : h # g => up[h] = line[h]
<1>1. PICK n \in Nat : n = line[g] + 1
  OBVIOUS
<1>2. [line EXCEPT ![g] = @ + 1] = [line EXCEPT ![g] = n]
  BY <1>1
<1> QED
  BY <1>1, <1>2

LEMMA CountUp ==
    ASSUME NEW counts \in Counts, NEW t \in Tickets, NEW g \in Triggers
    PROVE  /\ OneMore(counts, t, g) \in Counts
           /\ OneMore(counts, t, g)[t][g] = counts[t][g] + 1
           /\ \A u \in Tickets, h \in Triggers :
                 u # t \/ h # g => OneMore(counts, t, g)[u][h] = counts[u][h]
<1>1. PICK line : line = [counts[t] EXCEPT ![g] = @ + 1]
  OBVIOUS
<1>2. counts[t] \in [Triggers -> Nat]
  BY DEF Counts
<1>3. /\ line \in [Triggers -> Nat] /\ line[g] = counts[t][g] + 1
      /\ \A h \in Triggers : h # g => line[h] = counts[t][h]
  BY <1>1, <1>2, LineUp
<1>4. OneMore(counts, t, g) = [counts EXCEPT ![t] = line]
  BY <1>1 DEF OneMore
<1> QED
  BY <1>3, <1>4 DEF Counts

LEMMA InitInvariant == Init => IInv
<1> SUFFICES ASSUME Init PROVE IInv
  OBVIOUS
<1>1. TypeOK
  BY DEF Init, TypeOK, Counts, Job, Idle, Statuses
<1>2. FlagsAgree
  BY DEF Init, FlagsAgree
<1>3. \A w \in Workers : JobOK(w)
  BY DEF Init, JobOK, Idle
<1>4. \A r \in Requests : TriggerOK(r)
  BY DEF Init, TriggerOK
<1> QED
  BY <1>1, <1>2, <1>3, <1>4 DEF IInv

\* Marking a ticket, spelled out: the run's record before and after.
LEMMA Marking ==
    ASSUME IInv, NEW w \in Workers, NEW t \in Tickets, MarkTicket(w, t)
    PROVE  /\ job \in [Workers -> Job] /\ job' \in [Workers -> Job]
           /\ \A v \in Workers : v # w => job'[v] = job[v]
           /\ job[w].pc = "marking" /\ job'[w].pc = "marking"
           /\ t \in job[w].todo /\ job'[w].todo = job[w].todo \ {t}
           /\ job'[w].marked = job[w].marked \cup {t}
           /\ job'[w].raised \subseteq job[w].raised \cup {t}
           /\ job[w].raised \subseteq job'[w].raised
           /\ t \in job'[w].raised \ job[w].raised
                => MayEscalateBreached(t, status[t])
<1>1. PICK escalated, moved, new :
         /\ escalated = {u \in {t} : MayEscalateBreached(u, status[u])}
         /\ moved = {u \in escalated : status[u] # "escalated"}
         /\ new = [pc |-> "marking", todo |-> job[w].todo \ {t},
                   marked |-> job[w].marked \cup {t},
                   raised |-> job[w].raised \cup escalated,
                   moved |-> job[w].moved \cup moved]
  OBVIOUS
<1>2. job \in [Workers -> Job] /\ job[w].pc = "marking" /\ t \in job[w].todo
  BY DEF IInv, TypeOK, MarkTicket
<1>3. job' = [job EXCEPT ![w] = new]
  BY <1>1 DEF MarkTicket
<1>4. escalated \subseteq {t} /\ moved \subseteq {t}
  BY <1>1
<1>5. new \in Job
  BY <1>1, <1>2, <1>4 DEF Job
<1>6. job'[w] = new /\ job' \in [Workers -> Job]
  BY <1>2, <1>3, <1>5
<1> QED
  BY <1>1, <1>2, <1>3, <1>4, <1>6
---------------------------------------------------------------------------
(***************************************************************************)
(* Without any assumption about who runs when.                             *)
(***************************************************************************)

\* A step of a run that only changes the run's own record.
LEMMA RunOnly ==
    ASSUME IInv, NEW w \in Workers, NEW new \in Job,
           job' = [job EXCEPT ![w] = new],
           new.pc = "marking" => /\ new.raised \subseteq new.marked
                                 /\ \A t \in new.raised : Justified(t)
                                 /\ \A t \in new.todo : Deadline[t] <= now,
           UNCHANGED <<now, stored, txn>>,
           mails' \in Counts, crashes' \in Nat
    PROVE  IInv'
<1>1. job \in [Workers -> Job]
  BY DEF IInv, TypeOK
<1>2. TypeOK' /\ FlagsAgree'
  BY <1>1 DEF IInv, TypeOK, FlagsAgree, stored
<1>3. ASSUME NEW v \in Workers PROVE JobOK(v)'
  <2>1. CASE v = w
    BY <1>1, <2>1 DEF JobOK, Justified
  <2>2. CASE v # w
    BY <1>1, <2>2 DEF IInv, JobOK, Justified
  <2> QED
    BY <2>1, <2>2
<1>4. \A r \in Requests : TriggerOK(r)'
  BY DEF IInv, TriggerOK
<1> QED
  BY <1>2, <1>3, <1>4 DEF IInv

\* A step of a request that leaves the flags and the runs alone.
LEMMA RequestOnly ==
    ASSUME IInv, NEW r \in Requests, NEW new \in Txn \cup {NoTxn},
           txn' = [txn EXCEPT ![r] = new],
           new # NoTxn /\ new.pc # "loaded" => new.trigger \in ByHand,
           UNCHANGED <<now, flagged, tracked, job, crashes>>,
           status' \in [Tickets -> Statuses],
           events' \in Counts,
           mails' \in Counts
    PROVE  IInv'
<1>1. txn \in [Requests -> Txn \cup {NoTxn}]
  BY DEF IInv, TypeOK
<1>2. TypeOK' /\ FlagsAgree'
  BY <1>1 DEF IInv, TypeOK, FlagsAgree
<1>3. \A v \in Workers : JobOK(v)'
  BY DEF IInv, JobOK, Justified
<1>4. \A q \in Requests : TriggerOK(q)'
  BY <1>1 DEF IInv, TriggerOK
<1> QED
  BY <1>2, <1>3, <1>4 DEF IInv

LEMMA RunStep ==
    ASSUME IInv, NEW w \in Workers, Run(w) \/ AbandonRun(w)
    PROVE  IInv'
<1>1. job \in [Workers -> Job] /\ Idle \in Job /\ Idle.pc = "idle"
      /\ mails \in Counts /\ crashes \in Nat
  BY DEF IInv, TypeOK, Job, Idle
<1>2. CASE SelectBatch(w)
  <2>1. PICK new : new = [Idle EXCEPT !.pc = "marking",
                                      !.todo = {t \in Tickets : Overdue(t)}]
    OBVIOUS
  <2>2. new \in Job /\ new.raised = {} /\ \A t \in new.todo : Deadline[t] <= now
    BY <2>1 DEF Idle, Job, Overdue
  <2>3. job' = [job EXCEPT ![w] = new] /\ UNCHANGED <<now, stored, mails, txn, crashes>>
    BY <1>2, <2>1 DEF SelectBatch
  <2> QED
    BY <1>1, <2>2, <2>3, RunOnly
<1>3. ASSUME NEW t \in Tickets, MarkTicket(w, t) PROVE IInv'
  <2>1. UNCHANGED <<now, stored, mails, txn, crashes>>
    BY <1>3 DEF MarkTicket
  <2>2. TypeOK' /\ FlagsAgree'
    BY <1>3, <2>1, Marking DEF IInv, TypeOK, FlagsAgree, stored
  <2>3. ASSUME NEW v \in Workers PROVE JobOK(v)'
    <3>1. CASE v = w
      <4>1. \A u \in job'[v].raised :
               \/ u \in job[w].raised
               \/ u = t /\ t \in Ruled /\ GraceOver(t)
        BY <1>3, <3>1, Marking DEF MayEscalateBreached
      <4>2. Deadline[t] <= now /\ job[w].pc = "marking"
        BY <1>3, Marking DEF IInv, JobOK
      <4>3. \A u \in job'[v].raised : Justified(u)
        BY <4>1, <4>2 DEF IInv, JobOK, Justified, GraceOver
      <4>4. /\ job'[v].raised \subseteq job'[v].marked
            /\ \A u \in job'[v].todo : Deadline[u] <= now
        BY <1>3, <3>1, <4>2, Marking DEF IInv, JobOK
      <4> QED
        BY <2>1, <4>3, <4>4 DEF JobOK, Justified
    <3>2. CASE v # w
      BY <1>3, <2>1, <3>2, Marking DEF IInv, JobOK, Justified
    <3> QED
      BY <3>1, <3>2
  <2>4. \A r \in Requests : TriggerOK(r)'
    BY <2>1 DEF IInv, TriggerOK
  <2> QED
    BY <2>2, <2>3, <2>4 DEF IInv
<1>4. CASE CommitRun(w)
  <2>1. PICK new : new = [Idle EXCEPT !.pc = "notifying", !.raised = job[w].raised]
    OBVIOUS
  <2>2. new \in Job /\ new.pc = "notifying"
    BY <1>1, <2>1 DEF Idle, Job
  <2>3. /\ job' = [job EXCEPT ![w] = new]
        /\ tracked' = tracked \cup job[w].marked
        /\ flagged' = flagged \cup job[w].marked
        /\ UNCHANGED <<now, mails, txn, crashes>>
    BY <1>4, <2>1 DEF CommitRun, FlagsAfter
  <2>4. status' \in [Tickets -> Statuses]
    BY <1>4 DEF CommitRun, IInv, TypeOK, Statuses
  <2>5. events' \in Counts
    <3>1. events' = [t \in Tickets |->
                        IF t \in job[w].raised
                        THEN [events[t] EXCEPT !["sla_breach"] = @ + 1]
                        ELSE events[t]]
      BY <1>4 DEF CommitRun
    <3>2. ASSUME NEW t \in Tickets
          PROVE  events[t] \in [Triggers -> Nat]
                 /\ [events[t] EXCEPT !["sla_breach"] = @ + 1] \in [Triggers -> Nat]
      <4>1. events[t] \in [Triggers -> Nat]
        BY DEF IInv, TypeOK, Counts
      <4> QED
        BY <4>1, LineUp, BreachIsTrigger
    <3> QED
      BY <3>1, <3>2 DEF Counts
  <2>6. job[w].marked \subseteq Tickets
    BY <1>1 DEF Job
  <2>7. TypeOK' /\ FlagsAgree'
    BY <2>2, <2>3, <2>4, <2>5, <2>6 DEF IInv, TypeOK, FlagsAgree
  <2>8. \A v \in Workers : JobOK(v)'
    BY <1>1, <2>2, <2>3 DEF IInv, JobOK, Justified
  <2>9. \A r \in Requests : TriggerOK(r)'
    BY <2>3 DEF IInv, TriggerOK
  <2> QED
    BY <2>7, <2>8, <2>9 DEF IInv
<1>5. CASE NotifyRun(w)
  <2>1. PICK t \in job[w].raised :
           /\ job' = [job EXCEPT ![w].raised = @ \ {t}]
           /\ \/ mails' = OneMore(mails, t, "sla_breach")
              \/ mails' = mails
    BY <1>5 DEF NotifyRun
  <2>2. PICK new : new = [job[w] EXCEPT !.raised = @ \ {t}]
    OBVIOUS
  <2>3. new \in Job /\ new.pc = job[w].pc /\ job' = [job EXCEPT ![w] = new]
    BY <1>1, <2>1, <2>2 DEF Job
  <2>4. job[w].pc = "notifying" /\ UNCHANGED <<now, stored, txn, crashes>>
    BY <1>5 DEF NotifyRun
  <2>5. mails' \in Counts
    <3>1. t \in Tickets /\ "sla_breach" \in Triggers
      BY <1>1, BreachIsTrigger DEF Job
    <3>2. OneMore(mails, t, "sla_breach") \in Counts
      BY <1>1, <3>1, CountUp
    <3> QED
      BY <1>1, <2>1, <3>2
  <2> QED
    BY <1>1, <2>3, <2>4, <2>5, RunOnly
<1>6. CASE EndRun(w) \/ AbandonRun(w)
  <2>1. job' = [job EXCEPT ![w] = Idle] /\ UNCHANGED <<now, stored, txn, mails>>
        /\ crashes' \in Nat
    BY <1>1, <1>6 DEF EndRun, AbandonRun
  <2> QED
    BY <1>1, <2>1, RunOnly
<1> QED
  BY <1>2, <1>3, <1>4, <1>5, <1>6 DEF Run

LEMMA RequestStep ==
    ASSUME IInv, NEW r \in Requests, Request(r)
    PROVE  IInv'
<1>1. /\ txn \in [Requests -> Txn \cup {NoTxn}] /\ TriggerOK(r)
      /\ status \in [Tickets -> Statuses]
      /\ events \in Counts
      /\ mails \in Counts
  BY DEF IInv, TypeOK
<1>2. txn[r] # NoTxn => txn[r] \in Txn
  BY <1>1
<1>3. ASSUME NEW t \in Tickets, LoadTicket(r, t) PROVE IInv'
  <2>1. PICK new : new = [pc |-> "loaded", ticket |-> t, loaded |-> status[t],
                          trigger |-> NoTrigger]
    OBVIOUS
  <2>2. new \in Txn /\ new.pc = "loaded"
    BY <1>1, <2>1 DEF Txn
  <2>3. txn' = [txn EXCEPT ![r] = new] /\ UNCHANGED <<now, stored, mails, job, crashes>>
    BY <1>3, <2>1 DEF LoadTicket
  <2> QED
    BY <1>1, <2>2, <2>3, RequestOnly DEF stored
<1>4. ASSUME NEW s \in Targets, TransitionStatus(r, s) PROVE IInv'
  <2>1. s \in Statuses
    BY TargetsAreStatuses
  <2>2. status' \in [Tickets -> Statuses]
    BY <1>1, <1>4, <2>1 DEF TransitionStatus, Column
  <2>3. txn' = [txn EXCEPT ![r] = NoTxn]
        /\ UNCHANGED <<now, flagged, tracked, events, mails, job, crashes>>
    BY <1>4 DEF TransitionStatus
  <2> QED
    BY <1>1, <2>2, <2>3, RequestOnly
<1>5. ASSUME NEW g \in ByHand, PassChecks(r, g) PROVE IInv'
  <2>1. PICK new : new = [txn[r] EXCEPT !.pc = "passed", !.trigger = g]
    OBVIOUS
  <2>2. txn[r] # NoTxn /\ UNCHANGED <<now, stored, mails, job, crashes>>
    BY <1>5 DEF PassChecks
  <2>3. txn' = [txn EXCEPT ![r] = new]
    BY <1>1, <1>2, <1>5, <2>1, <2>2 DEF PassChecks, Txn
  <2>4. new \in Txn /\ new.trigger = g
    BY <1>2, <2>1, <2>2, BreachIsTrigger DEF Txn
  <2> QED
    BY <1>1, <2>2, <2>3, <2>4, RequestOnly DEF stored
<1>6. CASE CommitEscalation(r)
  <2>1. PICK new : new = [txn[r] EXCEPT !.pc = "notifying"]
    OBVIOUS
  <2>2. /\ txn[r] # NoTxn /\ txn[r].pc = "passed"
        /\ UNCHANGED <<now, flagged, tracked, mails, job, crashes>>
    BY <1>6 DEF CommitEscalation
  <2>3. txn' = [txn EXCEPT ![r] = new] /\ new \in Txn /\ new.trigger = txn[r].trigger
    BY <1>1, <1>2, <1>6, <2>1, <2>2 DEF CommitEscalation, Txn
  <2>4. status' \in [Tickets -> Statuses]
    BY <1>1, <1>6 DEF CommitEscalation, Column, Statuses
  <2>5. events' \in Counts
    <3>1. txn[r].ticket \in Tickets /\ txn[r].trigger \in Triggers
      BY <1>1, <1>2, <2>2, BreachIsTrigger DEF TriggerOK, Txn
    <3>2. events' = OneMore(events, txn[r].ticket, txn[r].trigger)
      BY <1>6 DEF CommitEscalation
    <3> QED
      BY <1>1, <3>1, <3>2, CountUp
  <2> QED
    BY <1>1, <2>2, <2>3, <2>4, <2>5, RequestOnly DEF TriggerOK
<1>7. CASE NotifyEscalation(r)
  <2>1. txn' = [txn EXCEPT ![r] = NoTxn] /\ UNCHANGED <<now, stored, job, crashes>>
    BY <1>7 DEF NotifyEscalation
  <2>2. mails' \in Counts
    <3>1. txn[r].ticket \in Tickets /\ txn[r].trigger \in Triggers
      BY <1>1, <1>2, <1>7, BreachIsTrigger DEF NotifyEscalation, TriggerOK, Txn
    <3>2. OneMore(mails, txn[r].ticket, txn[r].trigger) \in Counts
      BY <1>1, <3>1, CountUp
    <3> QED
      BY <1>1, <1>7, <3>2 DEF NotifyEscalation
  <2> QED
    BY <1>1, <2>1, <2>2, RequestOnly DEF stored
<1>8. CASE Rollback(r)
  <2>1. txn' = [txn EXCEPT ![r] = NoTxn] /\ UNCHANGED <<now, stored, mails, job, crashes>>
    BY <1>8 DEF Rollback
  <2> QED
    BY <1>1, <2>1, RequestOnly DEF stored
<1> QED
  BY <1>3, <1>4, <1>5, <1>6, <1>7, <1>8 DEF Request

LEMMA StepInvariant == IInv /\ [Next]_vars => IInv'
<1> SUFFICES ASSUME IInv, [Next]_vars PROVE IInv'
  OBVIOUS
<1>1. CASE Tick
  <2>1. now' = now + 1 /\ now \in Nat /\ UNCHANGED <<stored, mails, txn, job, crashes>>
    BY <1>1 DEF Tick, IInv, TypeOK
  <2>2. TypeOK' /\ FlagsAgree'
    BY <2>1 DEF IInv, TypeOK, FlagsAgree, stored
  <2>3. \A t \in Tickets : Deadline[t] \in Nat /\ TicketDue[t] + Grace \in Nat
    BY DeadlinesAreTimes, GraceIsTime
  <2>4. \A t \in Tickets : /\ Justified(t) => Justified(t)'
                           /\ Deadline[t] <= now => Deadline[t] <= now'
    BY <2>1, <2>3 DEF Justified
  <2>5. ASSUME NEW w \in Workers PROVE JobOK(w)'
    <3>1. job[w].raised \subseteq Tickets /\ job[w].todo \subseteq Tickets
      BY DEF IInv, TypeOK, Job
    <3>2. job' = job
      BY <2>1
    <3> QED
      BY <2>4, <3>1, <3>2 DEF IInv, JobOK
  <2>6. \A r \in Requests : TriggerOK(r)'
    BY <2>1 DEF IInv, TriggerOK
  <2> QED
    BY <2>2, <2>5, <2>6 DEF IInv
<1>2. ASSUME NEW w \in Workers, Run(w) \/ AbandonRun(w) PROVE IInv'
  BY <1>2, RunStep
<1>3. ASSUME NEW r \in Requests, Request(r) PROVE IInv'
  BY <1>3, RequestStep
<1>4. CASE UNCHANGED vars
  BY <1>4 DEF vars, stored, IInv, TypeOK, FlagsAgree, JobOK, TriggerOK, Justified
<1> QED
  BY <1>1, <1>2, <1>3, <1>4 DEF Next

\* Whoever runs when, committed state, transactions and runs keep their types.
THEOREM TypeCorrect == Spec => []TypeOK
<1>1. Init => IInv
  BY InitInvariant
<1>2. IInv => TypeOK
  BY DEF IInv
<1> QED
  BY <1>1, <1>2, StepInvariant, PTL DEF Spec

\* However many replicas run check_sla_breaches_job, and whenever a run dies, the
\* ticket's flag and its tracking row's flag are set together or not at all.
THEOREM FlagsAlwaysAgree == Spec => []FlagsAgree
<1>1. Init => IInv
  BY InitInvariant
<1>2. IInv => FlagsAgree
  BY DEF IInv
<1> QED
  BY <1>1, <1>2, StepInvariant, PTL DEF Spec

---------------------------------------------------------------------------
(***************************************************************************)
(* Mail and commit, still without any assumption about who runs when: every *)
(* mail sent, and every mail that a committed run or request still has to   *)
(* send, has a committed event of its own.                                  *)
(***************************************************************************)

RunsToMail(t, g) ==
    {w \in Workers :
        g = "sla_breach" /\ job[w].pc = "notifying" /\ t \in job[w].raised}

RequestsToMail(t, g) ==
    {r \in Requests :
        /\ txn[r] # NoTxn /\ txn[r].pc = "notifying"
        /\ txn[r].ticket = t /\ txn[r].trigger = g}

MailBacked(t, g) ==
    mails[t][g] + Cardinality(RunsToMail(t, g)) + Cardinality(RequestsToMail(t, g))
        <= events[t][g]

MailInv == \A t \in Tickets, g \in Triggers : MailBacked(t, g)

\* What a run's commit does to the counts of events.
LEMMA CommitCounts ==
    ASSUME IInv, NEW w \in Workers, CommitRun(w)
    PROVE  \A t \in Tickets, g \in Triggers :
              events'[t][g] = IF t \in job[w].raised /\ g = "sla_breach"
                              THEN events[t][g] + 1 ELSE events[t][g]
<1> SUFFICES ASSUME NEW t \in Tickets, NEW g \in Triggers
             PROVE  events'[t][g] = IF t \in job[w].raised /\ g = "sla_breach"
                                    THEN events[t][g] + 1 ELSE events[t][g]
  OBVIOUS
<1>1. events[t] \in [Triggers -> Nat]
  BY DEF IInv, TypeOK, Counts
<1>2. events'[t] = IF t \in job[w].raised
                   THEN [events[t] EXCEPT !["sla_breach"] = @ + 1] ELSE events[t]
  BY DEF CommitRun
<1>3. CASE t \in job[w].raised
  <2>1. PICK up : up = [events[t] EXCEPT !["sla_breach"] = @ + 1]
    OBVIOUS
  <2>2. /\ up["sla_breach"] = events[t]["sla_breach"] + 1
        /\ \A h \in Triggers : h # "sla_breach" => up[h] = events[t][h]
    BY <1>1, <2>1, LineUp, BreachIsTrigger
  <2>3. events'[t] = up
    BY <1>2, <1>3, <2>1
  <2> QED
    BY <1>3, <2>2, <2>3
<1>4. CASE t \notin job[w].raised
  BY <1>2, <1>4
<1> QED
  BY <1>3, <1>4

\* What a request's commit does to them.
LEMMA RequestCounts ==
    ASSUME IInv, NEW r \in Requests, CommitEscalation(r)
    PROVE  /\ txn[r].ticket \in Tickets /\ txn[r].trigger \in ByHand
           /\ events \in Counts
           /\ events' = OneMore(events, txn[r].ticket, txn[r].trigger)
BY DEF CommitEscalation, IInv, TypeOK, TriggerOK, Txn

\* How far a set of announcements to make may move in a step.
LEMMA SetSizes ==
    ASSUME NEW S, IsFiniteSet(S), NEW T, NEW x
    PROVE  /\ Cardinality(S) \in Nat
           /\ T \subseteq S \cup {x} =>
                Cardinality(T) \in Nat /\ Cardinality(T) <= Cardinality(S) + 1
           /\ T \subseteq S => Cardinality(T) <= Cardinality(S)
           /\ x \in S /\ T \subseteq S \ {x} => Cardinality(T) + 1 <= Cardinality(S)
<1>1. Cardinality(S) \in Nat
  BY FS_CardinalityType
<1>2. ASSUME T \subseteq S \cup {x}
      PROVE  Cardinality(T) \in Nat /\ Cardinality(T) <= Cardinality(S) + 1
  <2>1. /\ IsFiniteSet(S \cup {x})
        /\ \/ Cardinality(S \cup {x}) = Cardinality(S)
           \/ Cardinality(S \cup {x}) = Cardinality(S) + 1
    BY FS_AddElement
  <2>2. IsFiniteSet(T) /\ Cardinality(T) <= Cardinality(S \cup {x})
    BY <1>2, <2>1, FS_Subset
  <2>3. Cardinality(T) \in Nat
    BY <2>2, FS_CardinalityType
  <2> QED
    BY <1>1, <2>1, <2>2, <2>3
<1>3. T \subseteq S => Cardinality(T) <= Cardinality(S)
  BY FS_Subset
<1>4. ASSUME x \in S, T \subseteq S \ {x}
      PROVE  Cardinality(T) + 1 <= Cardinality(S)
  <2>1. IsFiniteSet(S \ {x}) /\ Cardinality(S \ {x}) = Cardinality(S) - 1
    BY <1>4, FS_RemoveElement
  <2>2. IsFiniteSet(T) /\ Cardinality(T) <= Cardinality(S \ {x})
    BY <1>4, <2>1, FS_Subset
  <2>3. Cardinality(T) \in Nat
    BY <2>2, FS_CardinalityType
  <2> QED
    BY <1>1, <2>1, <2>2, <2>3
<1> QED
  BY <1>1, <1>2, <1>3, <1>4

\* The counts of a ticket and a trigger are numbers, the sets behind them finite.
LEMMA MailNumbers ==
    ASSUME IInv, NEW t \in Tickets, NEW g \in Triggers
    PROVE  /\ events[t][g] \in Nat /\ mails[t][g] \in Nat
           /\ IsFiniteSet(RunsToMail(t, g))
           /\ IsFiniteSet(RequestsToMail(t, g))
<1>1. events \in Counts /\ mails \in Counts
  BY DEF IInv, TypeOK
<1>2. RunsToMail(t, g) \subseteq Workers /\ RequestsToMail(t, g) \subseteq Requests
  BY DEF RunsToMail, RequestsToMail
<1> QED
  BY <1>1, <1>2, FinitelyManyAtWork, FS_Subset DEF Counts

\* A step keeps the balance when nothing is added to what is sent or owed, when
\* one more is owed for one more event, and when one that was owed is sent.
LEMMA Balance ==
    ASSUME IInv, IInv', NEW t \in Tickets, NEW g \in Triggers, MailBacked(t, g), NEW x,
           LET runs == RunsToMail(t, g)
               requests == RequestsToMail(t, g)
               moreEvents == events[t][g] + 1
               moreMails == mails[t][g] + 1
           IN  \/ /\ events[t][g]' = events[t][g]
                  /\ mails[t][g]' = mails[t][g]
                  /\ runs' \subseteq runs /\ requests' \subseteq requests
               \/ /\ events[t][g]' = moreEvents
                  /\ mails[t][g]' = mails[t][g]
                  /\ \/ runs' \subseteq runs \cup {x} /\ requests' \subseteq requests
                     \/ runs' \subseteq runs /\ requests' \subseteq requests \cup {x}
               \/ /\ events[t][g]' = events[t][g]
                  /\ mails[t][g]' \in {mails[t][g], moreMails}
                  /\ \/ /\ x \in runs /\ runs' \subseteq runs \ {x}
                        /\ requests' \subseteq requests
                     \/ /\ x \in requests /\ requests' \subseteq requests \ {x}
                        /\ runs' \subseteq runs
    PROVE  MailBacked(t, g)'
<1> DEFINE runs == RunsToMail(t, g)
           requests == RequestsToMail(t, g)
<1>1. /\ events[t][g] \in Nat /\ mails[t][g] \in Nat
      /\ events[t][g]' \in Nat /\ mails[t][g]' \in Nat
      /\ IsFiniteSet(runs) /\ IsFiniteSet(requests)
  BY MailNumbers
<1>2. PICK a, b, p, q : /\ a = Cardinality(runs) /\ b = Cardinality(requests)
                        /\ p = Cardinality(runs)' /\ q = Cardinality(requests)'
  OBVIOUS
<1>3. PICK e, m, f, n : /\ e = events[t][g] /\ m = mails[t][g]
                        /\ f = events[t][g]' /\ n = mails[t][g]'
  OBVIOUS
<1>4. runs' \subseteq runs \cup {x} /\ requests' \subseteq requests \cup {x}
  OBVIOUS
<1>5. a \in Nat /\ p \in Nat /\ p <= a + 1 /\ (runs' \subseteq runs => p <= a)
      /\ (x \in runs /\ runs' \subseteq runs \ {x} => p + 1 <= a)
  BY <1>1, <1>2, <1>4, SetSizes
<1>6. b \in Nat /\ q \in Nat /\ q <= b + 1 /\ (requests' \subseteq requests => q <= b)
      /\ (x \in requests /\ requests' \subseteq requests \ {x} => q + 1 <= b)
  BY <1>1, <1>2, <1>4, SetSizes
<1>7. e \in Nat /\ m \in Nat /\ f \in Nat /\ n \in Nat /\ m + a + b <= e
  BY <1>1, <1>2, <1>3 DEF MailBacked
<1>8. \/ f = e /\ n = m /\ p <= a /\ q <= b
      \/ /\ f = e + 1 /\ n = m
         /\ \/ p <= a /\ q <= b + 1
            \/ p <= a + 1 /\ q <= b
      \/ /\ f = e /\ n \in {m, m + 1}
         /\ \/ p + 1 <= a /\ q <= b
            \/ p <= a /\ q + 1 <= b
  BY <1>3, <1>5, <1>6
<1>9. n + p + q <= f
  BY <1>5, <1>6, <1>7, <1>8
<1> QED
  BY <1>2, <1>3, <1>9 DEF MailBacked

\* The balance across the steps of a run, and below across those of a request.
LEMMA RunMailStep ==
    ASSUME IInv, IInv', MailInv, NEW w \in Workers, Run(w) \/ AbandonRun(w)
    PROVE  MailInv'
<1> SUFFICES ASSUME NEW t \in Tickets, NEW g \in Triggers
             PROVE  MailBacked(t, g)'
  BY DEF MailInv
<1> DEFINE runs == RunsToMail(t, g)
           requests == RequestsToMail(t, g)
<1>1. MailBacked(t, g) /\ job \in [Workers -> Job]
  BY DEF MailInv, IInv, TypeOK
<1>2. txn' = txn /\ requests' = requests
  BY DEF Run, AbandonRun, SelectBatch, MarkTicket, CommitRun, NotifyRun, EndRun,
         RequestsToMail
<1>3. ASSUME UNCHANGED <<events, mails>>, \A v \in Workers : v # w => job'[v] = job[v],
             job'[w].pc # "notifying"
      PROVE  MailBacked(t, g)'
  <2>1. runs' \subseteq runs
    BY <1>3 DEF RunsToMail
  <2> QED
    BY <1>1, <1>2, <1>3, <2>1, Balance
<1>4. CASE SelectBatch(w)
  <2>1. PICK new : new = [Idle EXCEPT !.pc = "marking",
                                      !.todo = {u \in Tickets : Overdue(u)}]
    OBVIOUS
  <2>2. job' = [job EXCEPT ![w] = new] /\ new.pc = "marking"
        /\ UNCHANGED <<events, mails>>
    BY <1>4, <2>1 DEF SelectBatch, Idle, stored
  <2> QED
    BY <1>1, <1>3, <2>2
<1>5. ASSUME NEW u \in Tickets, MarkTicket(w, u) PROVE MailBacked(t, g)'
  <2>1. UNCHANGED <<events, mails>>
    BY <1>5 DEF MarkTicket, stored
  <2>2. job'[w].pc = "marking" /\ \A v \in Workers : v # w => job'[v] = job[v]
    BY <1>5, Marking
  <2> QED
    BY <1>3, <2>1, <2>2
<1>6. CASE CommitRun(w)
  <2>1. PICK new : new = [Idle EXCEPT !.pc = "notifying", !.raised = job[w].raised]
    OBVIOUS
  <2>2. job' = [job EXCEPT ![w] = new] /\ new.raised = job[w].raised /\ mails' = mails
    BY <1>6, <2>1 DEF CommitRun, Idle
  <2>3. job'[w].raised = job[w].raised /\ \A v \in Workers : v # w => job'[v] = job[v]
    BY <1>1, <2>2
  <2>4. events'[t][g] = IF t \in job[w].raised /\ g = "sla_breach"
                        THEN events[t][g] + 1 ELSE events[t][g]
    BY <1>6, CommitCounts
  <2>5. CASE t \in job[w].raised /\ g = "sla_breach"
    <3>1. runs' \subseteq runs \cup {w}
      BY <2>3 DEF RunsToMail
    <3> QED
      BY <1>1, <1>2, <2>2, <2>4, <2>5, <3>1, Balance
  <2>6. CASE ~(t \in job[w].raised /\ g = "sla_breach")
    <3>1. runs' \subseteq runs
      BY <2>3, <2>6 DEF RunsToMail
    <3> QED
      BY <1>1, <1>2, <2>2, <2>4, <2>6, <3>1, Balance
  <2> QED
    BY <2>5, <2>6
<1>7. CASE NotifyRun(w)
  <2>1. PICK u \in job[w].raised :
           /\ job' = [job EXCEPT ![w].raised = @ \ {u}]
           /\ \/ mails' = OneMore(mails, u, "sla_breach")
              \/ mails' = mails
    BY <1>7 DEF NotifyRun
  <2>2. job[w].pc = "notifying" /\ events' = events
    BY <1>7 DEF NotifyRun, stored
  <2>3. PICK new : new = [job[w] EXCEPT !.raised = @ \ {u}]
    OBVIOUS
  <2>4. new.raised = job[w].raised \ {u} /\ new.pc = job[w].pc
        /\ job' = [job EXCEPT ![w] = new]
    BY <1>1, <2>1, <2>3 DEF Job
  <2>5. /\ job'[w].raised = job[w].raised \ {u} /\ job'[w].pc = job[w].pc
        /\ \A v \in Workers : v # w => job'[v] = job[v]
    BY <1>1, <2>4
  <2>6. u \in Tickets /\ "sla_breach" \in Triggers /\ mails \in Counts
    BY <1>1, BreachIsTrigger DEF Job, IInv, TypeOK
  <2>7. CASE u = t /\ g = "sla_breach"
    <3>1. w \in runs /\ runs' \subseteq runs \ {w}
      BY <2>1, <2>2, <2>5, <2>7 DEF RunsToMail
    <3>2. mails'[t][g] \in {mails[t][g], mails[t][g] + 1}
      BY <2>1, <2>6, <2>7, CountUp
    <3> QED
      BY <1>1, <1>2, <2>2, <3>1, <3>2, Balance
  <2>8. CASE ~(u = t /\ g = "sla_breach")
    <3>1. runs' \subseteq runs
      BY <2>5 DEF RunsToMail
    <3>2. mails'[t][g] = mails[t][g]
      BY <2>1, <2>6, <2>8, CountUp
    <3> QED
      BY <1>1, <1>2, <2>2, <3>1, <3>2, Balance
  <2> QED
    BY <2>7, <2>8
<1>8. CASE EndRun(w) \/ AbandonRun(w)
  <2>1. job' = [job EXCEPT ![w] = Idle] /\ Idle.pc = "idle" /\ UNCHANGED <<events, mails>>
    BY <1>8 DEF EndRun, AbandonRun, stored, Idle
  <2> QED
    BY <1>1, <1>3, <2>1
<1> QED
  BY <1>4, <1>5, <1>6, <1>7, <1>8 DEF Run

LEMMA RequestMailStep ==
    ASSUME IInv, IInv', MailInv, NEW r \in Requests, Request(r)
    PROVE  MailInv'
<1> SUFFICES ASSUME NEW t \in Tickets, NEW g \in Triggers
             PROVE  MailBacked(t, g)'
  BY DEF MailInv
<1> DEFINE runs == RunsToMail(t, g)
           requests == RequestsToMail(t, g)
<1>1. /\ MailBacked(t, g) /\ txn \in [Requests -> Txn \cup {NoTxn}] /\ mails \in Counts
      /\ \A q \in Requests : q # r => txn'[q] = txn[q]
  BY DEF MailInv, IInv, TypeOK, Request, LoadTicket, TransitionStatus, PassChecks,
         CommitEscalation, NotifyEscalation, Rollback
<1>2. job' = job /\ runs' = runs
  BY DEF Request, LoadTicket, TransitionStatus, PassChecks, CommitEscalation,
         NotifyEscalation, Rollback, RunsToMail
<1>3. ASSUME UNCHANGED <<events, mails>>,
             txn'[r] = NoTxn \/ txn'[r].pc # "notifying"
      PROVE  MailBacked(t, g)'
  <2>1. requests' \subseteq requests
    BY <1>1, <1>3 DEF RequestsToMail
  <2> QED
    BY <1>1, <1>2, <1>3, <2>1, Balance
<1>4. ASSUME NEW u \in Tickets, LoadTicket(r, u) PROVE MailBacked(t, g)'
  BY <1>1, <1>3, <1>4 DEF LoadTicket, stored
<1>5. ASSUME NEW s \in Targets, TransitionStatus(r, s) PROVE MailBacked(t, g)'
  BY <1>1, <1>3, <1>5 DEF TransitionStatus
<1>6. ASSUME NEW h \in ByHand, PassChecks(r, h) PROVE MailBacked(t, g)'
  <2>1. PICK new : new = [txn[r] EXCEPT !.pc = "passed", !.trigger = h]
    OBVIOUS
  <2>2. txn[r] \in Txn /\ UNCHANGED <<events, mails>>
    BY <1>1, <1>6 DEF PassChecks, stored
  <2>3. txn'[r] = new /\ new.pc = "passed"
    BY <1>1, <1>6, <2>1, <2>2 DEF PassChecks, Txn
  <2> QED
    BY <1>3, <2>2, <2>3
<1>7. CASE CommitEscalation(r)
  <2>1. PICK new : new = [txn[r] EXCEPT !.pc = "notifying"]
    OBVIOUS
  <2>2. txn[r] \in Txn /\ txn[r] # NoTxn /\ txn[r].pc = "passed" /\ mails' = mails
    BY <1>1, <1>7 DEF CommitEscalation
  <2>3. /\ txn' = [txn EXCEPT ![r] = new]
        /\ new.ticket = txn[r].ticket /\ new.trigger = txn[r].trigger
    BY <1>1, <1>7, <2>1, <2>2 DEF CommitEscalation, Txn
  <2>4. txn'[r].ticket = txn[r].ticket /\ txn'[r].trigger = txn[r].trigger
    BY <1>1, <2>3
  <2>5. /\ txn[r].ticket \in Tickets /\ txn[r].trigger \in Triggers /\ events \in Counts
        /\ events' = OneMore(events, txn[r].ticket, txn[r].trigger)
    BY <1>7, RequestCounts, BreachIsTrigger
  <2>6. CASE txn[r].ticket = t /\ txn[r].trigger = g
    <3>1. requests' \subseteq requests \cup {r}
      BY <1>1 DEF RequestsToMail
    <3>2. events'[t][g] = events[t][g] + 1
      BY <2>5, <2>6, CountUp
    <3> QED
      BY <1>1, <1>2, <2>2, <3>1, <3>2, Balance
  <2>7. CASE ~(txn[r].ticket = t /\ txn[r].trigger = g)
    <3>1. requests' \subseteq requests
      BY <1>1, <2>4, <2>7 DEF RequestsToMail
    <3>2. events'[t][g] = events[t][g]
      BY <2>5, <2>7, CountUp
    <3> QED
      BY <1>1, <1>2, <2>2, <3>1, <3>2, Balance
  <2> QED
    BY <2>6, <2>7
<1>8. CASE NotifyEscalation(r)
  <2>1. /\ txn[r] \in Txn /\ txn[r] # NoTxn /\ txn[r].pc = "notifying"
        /\ events' = events /\ txn'[r] = NoTxn
        /\ \/ mails' = OneMore(mails, txn[r].ticket, txn[r].trigger)
           \/ mails' = mails
    BY <1>1, <1>8 DEF NotifyEscalation, stored
  <2>2. txn[r].ticket \in Tickets /\ txn[r].trigger \in Triggers
    BY <2>1, BreachIsTrigger DEF Txn, IInv, TriggerOK
  <2>3. CASE txn[r].ticket = t /\ txn[r].trigger = g
    <3>1. r \in requests /\ requests' \subseteq requests \ {r}
      BY <1>1, <2>1, <2>3 DEF RequestsToMail
    <3>2. mails'[t][g] \in {mails[t][g], mails[t][g] + 1}
      BY <1>1, <2>1, <2>2, <2>3, CountUp
    <3> QED
      BY <1>1, <1>2, <2>1, <3>1, <3>2, Balance
  <2>4. CASE ~(txn[r].ticket = t /\ txn[r].trigger = g)
    <3>1. requests' \subseteq requests
      BY <1>1, <2>1 DEF RequestsToMail
    <3>2. mails'[t][g] = mails[t][g]
      BY <1>1, <2>1, <2>2, <2>4, CountUp
    <3> QED
      BY <1>1, <1>2, <2>1, <3>1, <3>2, Balance
  <2> QED
    BY <2>3, <2>4
<1>9. CASE Rollback(r)
  BY <1>1, <1>3, <1>9 DEF Rollback, stored
<1> QED
  BY <1>4, <1>5, <1>6, <1>7, <1>8, <1>9 DEF Request

LEMMA MailInit == Init => MailInv
<1> SUFFICES ASSUME Init, NEW t \in Tickets, NEW g \in Triggers
             PROVE  MailBacked(t, g)
  BY DEF MailInv
<1>1. RunsToMail(t, g) = {} /\ RequestsToMail(t, g) = {}
  BY DEF Init, Idle, RunsToMail, RequestsToMail
<1>2. mails[t][g] = 0 /\ events[t][g] = 0
  BY DEF Init
<1> QED
  BY <1>1, <1>2, FS_EmptySet DEF MailBacked

LEMMA MailStep == IInv /\ IInv' /\ MailInv /\ [Next]_vars => MailInv'
<1> SUFFICES ASSUME IInv, IInv', MailInv, [Next]_vars PROVE MailInv'
  OBVIOUS
<1>1. ASSUME Tick \/ UNCHANGED vars PROVE MailInv'
  <2>1. UNCHANGED <<events, mails, txn, job>>
    BY <1>1 DEF Tick, vars, stored
  <2> QED
    BY <2>1 DEF MailInv, MailBacked, RunsToMail, RequestsToMail
<1>2. ASSUME NEW w \in Workers, Run(w) \/ AbandonRun(w) PROVE MailInv'
  BY <1>2, RunMailStep
<1>3. ASSUME NEW r \in Requests, Request(r) PROVE MailInv'
  BY <1>3, RequestMailStep
<1> QED
  BY <1>1, <1>2, <1>3 DEF Next

\* However many replicas and requests run at once, and even where a trigger fires
\* twice: no mail is sent before its event is committed, and none twice for one.
THEOREM MailFollowsCommit == Spec => []MailsBacked
<1>1. Init => IInv /\ MailInv
  BY InitInvariant, MailInit
<1>2. IInv /\ MailInv /\ [Next]_vars => IInv' /\ MailInv'
  BY StepInvariant, MailStep
<1>3. IInv /\ MailInv => MailsBacked
  <2> SUFFICES ASSUME IInv, MailInv, NEW t \in Tickets, NEW g \in Triggers
               PROVE  mails[t][g] <= events[t][g]
    BY DEF MailsBacked
  <2>1. PICK a, b : a = Cardinality(RunsToMail(t, g))
                    /\ b = Cardinality(RequestsToMail(t, g))
    OBVIOUS
  <2>2. a \in Nat /\ b \in Nat
    BY <2>1, MailNumbers, FS_CardinalityType
  <2>3. mails[t][g] + a + b <= events[t][g]
    BY <2>1 DEF MailInv, MailBacked
  <2> QED
    BY <2>2, <2>3, MailNumbers
<1> QED
  BY <1>1, <1>2, <1>3, PTL DEF Spec

---------------------------------------------------------------------------
(***************************************************************************)
(* When nobody names the worker's trigger by hand.                         *)
(***************************************************************************)

LEMMA JustifiedStep ==
    ASSUME IInv, AutoEscalationJustified, [Next]_vars, "sla_breach" \notin ByHand
    PROVE  AutoEscalationJustified'
<1>1. now \in Nat /\ (now' = now \/ now' = now + 1) /\ tracked \subseteq tracked'
  <2>1. now \in Nat
    BY DEF IInv, TypeOK
  <2>2. CASE Tick
    BY <2>1, <2>2 DEF Tick, stored
  <2>3. ASSUME NEW w \in Workers, Run(w) \/ AbandonRun(w)
        PROVE  now' = now /\ tracked \subseteq tracked'
    BY <2>3 DEF Run, AbandonRun, SelectBatch, MarkTicket, CommitRun, NotifyRun,
                EndRun, stored
  <2>4. ASSUME NEW r \in Requests, Request(r)
        PROVE  now' = now /\ tracked \subseteq tracked'
    BY <2>4 DEF Request, LoadTicket, TransitionStatus, PassChecks, CommitEscalation,
                NotifyEscalation, Rollback, stored
  <2> QED
    BY <2>1, <2>2, <2>3, <2>4 DEF Next, vars, stored
<1>2. ASSUME NEW t \in Tickets, events'[t]["sla_breach"] > 0,
             ~(events[t]["sla_breach"] > 0)
      PROVE  t \in tracked' /\ Justified(t)
  <2>1. ASSUME NEW w \in Workers, CommitRun(w) PROVE t \in tracked' /\ Justified(t)
    <3>1. t \in job[w].raised
      BY <1>2, <2>1, CommitCounts, BreachIsTrigger
    <3>2. job[w].pc = "marking" /\ tracked' = tracked \cup job[w].marked
      BY <2>1 DEF CommitRun
    <3> QED
      BY <3>1, <3>2 DEF IInv, JobOK
  <2>2. ASSUME NEW r \in Requests, CommitEscalation(r) PROVE FALSE
    <3>1. txn[r].trigger # "sla_breach" /\ txn[r].trigger \in Triggers
      BY <2>2, RequestCounts, BreachIsTrigger
    <3>2. events'[t]["sla_breach"] = events[t]["sla_breach"]
      BY <2>2, <3>1, RequestCounts, CountUp, BreachIsTrigger
    <3> QED
      BY <1>2, <3>2
  <2>3. \/ events' = events
        \/ \E w \in Workers : CommitRun(w)
        \/ \E r \in Requests : CommitEscalation(r)
    BY DEF Next, vars, stored, Tick, Run, AbandonRun, SelectBatch, MarkTicket,
           NotifyRun, EndRun, Request, LoadTicket, TransitionStatus, PassChecks,
           NotifyEscalation, Rollback
  <2> QED
    BY <1>2, <2>1, <2>2, <2>3
<1>3. ASSUME NEW t \in Tickets, events'[t]["sla_breach"] > 0
      PROVE  /\ t \in tracked' /\ t \in Ruled /\ Deadline[t] <= now'
             /\ Grace > 0 => TicketDue[t] + Grace <= now'
  <2>1. Deadline[t] \in Nat /\ TicketDue[t] + Grace \in Nat
    BY DeadlinesAreTimes, GraceIsTime
  <2>2. t \in tracked' /\ Justified(t)
    BY <1>1, <1>2, <1>3 DEF AutoEscalationJustified, Justified
  <2> QED
    BY <1>1, <2>1, <2>2 DEF Justified
<1> QED
  BY <1>3 DEF AutoEscalationJustified

\* While no request names sla_breach, every escalation of the worker is backed:
\* the ticket flagged, a rule matching, the rule's grace over.
THEOREM AutoEscalationsJustified ==
    ASSUME "sla_breach" \notin ByHand
    PROVE  Spec => []AutoEscalationJustified
<1>1. Init => IInv /\ AutoEscalationJustified
  <2>1. Init => AutoEscalationJustified
    BY BreachIsTrigger DEF Init, AutoEscalationJustified
  <2> QED
    BY <2>1, InitInvariant
<1>2. IInv /\ AutoEscalationJustified /\ [Next]_vars
        => IInv' /\ AutoEscalationJustified'
  BY JustifiedStep, StepInvariant
<1> QED
  BY <1>1, <1>2, PTL DEF Spec

---------------------------------------------------------------------------
(***************************************************************************)
(* How often a trigger fires.  A claim, which is a look that found no      *)
(* event, is only made while there is none; each worker and each request   *)
(* holds at most one for a ticket and a trigger, and commits it as at most *)
(* one event.  So events and claims together never outnumber those who     *)
(* may hold a claim.                                                       *)
(***************************************************************************)

RunClaims(t, g) == {w \in Workers : Claimed(w, t, g)}
RequestClaims(t, g) == {r \in Requests : Claimed(r, t, g)}

FewAtOnce(t, g) ==
    events[t][g] + Cardinality(RunClaims(t, g)) + Cardinality(RequestClaims(t, g))
        <= AtOnce(g)

FewInv == \A t \in Tickets, g \in Triggers : FewAtOnce(t, g)

\* Nobody but x makes or gives up a claim of this ticket and trigger.
ClaimsKept(x, t, g) ==
    \A a \in (Workers \cup Requests) \ {x} : Claimed(a, t, g)' <=> Claimed(a, t, g)

\* Those who may hold a claim of one trigger are few.
LEMMA AtMost ==
    ASSUME NEW g, NEW S \in SUBSET Workers, NEW T \in SUBSET Requests,
           g # "sla_breach" => S = {}, g \notin ByHand => T = {}
    PROVE  /\ IsFiniteSet(S) /\ IsFiniteSet(T)
           /\ AtOnce(g) \in Nat
           /\ Cardinality(S) + Cardinality(T) <= AtOnce(g)
<1>1. /\ IsFiniteSet(S) /\ IsFiniteSet(T)
      /\ Cardinality(S) <= Cardinality(Workers)
      /\ Cardinality(T) <= Cardinality(Requests)
  BY FinitelyManyAtWork, FS_Subset
<1>2. PICK a, b, m, n : /\ a = Cardinality(S) /\ m = Cardinality(Workers)
                        /\ b = Cardinality(T) /\ n = Cardinality(Requests)
  OBVIOUS
<1>3. a \in Nat /\ b \in Nat /\ m \in Nat /\ n \in Nat /\ a <= m /\ b <= n
  BY <1>1, <1>2, FinitelyManyAtWork, FS_CardinalityType
<1>4. (g # "sla_breach" => a = 0) /\ (g \notin ByHand => b = 0)
  BY <1>2, FS_EmptySet
<1>5. AtOnce(g) = (IF g = "sla_breach" THEN m ELSE 0) + (IF g \in ByHand THEN n ELSE 0)
  BY <1>2 DEF AtOnce
<1>6. AtOnce(g) \in Nat /\ a + b <= AtOnce(g)
  BY <1>3, <1>4, <1>5
<1> QED
  BY <1>1, <1>2, <1>6

\* The claims of a ticket and a trigger are such sets.
LEMMA ClaimNumbers ==
    ASSUME IInv, NEW t \in Tickets, NEW g \in Triggers
    PROVE  /\ events[t][g] \in Nat
           /\ IsFiniteSet(RunClaims(t, g)) /\ IsFiniteSet(RequestClaims(t, g))
           /\ AtOnce(g) \in Nat
           /\ Cardinality(RunClaims(t, g)) + Cardinality(RequestClaims(t, g)) <= AtOnce(g)
<1>1. events[t][g] \in Nat
  BY DEF IInv, TypeOK, Counts
<1>2. /\ RunClaims(t, g) \in SUBSET Workers
      /\ g # "sla_breach" => RunClaims(t, g) = {}
      /\ RequestClaims(t, g) \in SUBSET Requests
      /\ g \notin ByHand => RequestClaims(t, g) = {}
  BY NamedApart DEF RunClaims, RequestClaims, Claimed, IInv, TriggerOK
<1> QED
  BY <1>1, <1>2, AtMost

\* A step keeps the bound when it makes no claim, when it turns a claim into an
\* event, and when there is no event yet.
LEMMA ClaimBalance ==
    ASSUME IInv, IInv', NEW t \in Tickets, NEW g \in Triggers, FewAtOnce(t, g),
           NEW x \in Workers \cup Requests,
           ClaimsKept(x, t, g),
           LET more == events[t][g] + 1
           IN  \/ /\ events[t][g]' = events[t][g]
                  /\ Claimed(x, t, g)' => Claimed(x, t, g) \/ events[t][g] = 0
               \/ /\ events[t][g]' = more
                  /\ Claimed(x, t, g) /\ ~Claimed(x, t, g)'
    PROVE  FewAtOnce(t, g)'
<1> DEFINE runs == RunClaims(t, g)
           requests == RequestClaims(t, g)
<1>1. /\ events[t][g] \in Nat /\ events[t][g]' \in Nat
      /\ IsFiniteSet(runs) /\ IsFiniteSet(requests)
      /\ AtOnce(g) \in Nat
      /\ IsFiniteSet(runs') /\ IsFiniteSet(requests')
      /\ Cardinality(runs') + Cardinality(requests') <= AtOnce(g)
  <2>1. events[t][g]' \in Nat
    BY DEF IInv, TypeOK, Counts
  <2>2. /\ runs' \in SUBSET Workers
        /\ g # "sla_breach" => runs' = {}
        /\ requests' \in SUBSET Requests
        /\ g \notin ByHand => requests' = {}
    BY NamedApart DEF RunClaims, RequestClaims, Claimed, IInv, TriggerOK
  <2>3. /\ IsFiniteSet(runs') /\ IsFiniteSet(requests')
        /\ Cardinality(runs') + Cardinality(requests') <= AtOnce(g)
    <3> HIDE DEF runs, requests
    <3> QED
      BY <2>2, AtMost
  <2> QED
    BY <2>1, <2>3, ClaimNumbers
<1>2. PICK a, b, p, q, e, f, most :
        /\ a = Cardinality(runs) /\ b = Cardinality(requests)
        /\ p = Cardinality(runs') /\ q = Cardinality(requests')
        /\ e = events[t][g] /\ f = events[t][g]' /\ most = AtOnce(g)
  OBVIOUS
<1>3. /\ a \in Nat /\ b \in Nat /\ p \in Nat /\ q \in Nat
      /\ e \in Nat /\ f \in Nat /\ most \in Nat
      /\ p + q <= most /\ e + a + b <= most
  BY <1>1, <1>2, FS_CardinalityType DEF FewAtOnce
<1>4. CASE events[t][g]' = events[t][g] /\ (Claimed(x, t, g)' => Claimed(x, t, g))
  <2>1. runs' \subseteq runs /\ requests' \subseteq requests
    BY <1>4 DEF RunClaims, RequestClaims, ClaimsKept
  <2>2. p <= a /\ q <= b
    BY <1>1, <1>2, <2>1, SetSizes
  <2>3. f + p + q <= most
    BY <1>2, <1>3, <1>4, <2>2
  <2> QED
    BY <1>2, <2>3 DEF FewAtOnce, AtOnce
<1>5. CASE events[t][g]' = events[t][g] /\ events[t][g] = 0
  <2>1. f + p + q <= most
    BY <1>2, <1>3, <1>5
  <2> QED
    BY <1>2, <2>1 DEF FewAtOnce, AtOnce
<1>6. CASE events[t][g]' = events[t][g] + 1 /\ Claimed(x, t, g) /\ ~Claimed(x, t, g)'
  <2>1. \/ x \in runs /\ runs' \subseteq runs \ {x} /\ requests' \subseteq requests
        \/ x \in requests /\ requests' \subseteq requests \ {x} /\ runs' \subseteq runs
    BY <1>6, NamedApart DEF RunClaims, RequestClaims, ClaimsKept
  <2>2. \/ p + 1 <= a /\ q <= b
        \/ q + 1 <= b /\ p <= a
    BY <1>1, <1>2, <2>1, SetSizes
  <2>3. f + p + q <= most
    BY <1>2, <1>3, <1>6, <2>2
  <2> QED
    BY <1>2, <2>3 DEF FewAtOnce, AtOnce
<1> QED
  BY <1>4, <1>5, <1>6

---------------------------------------------------------------------------
(***************************************************************************)
(* The same steps, seen as steps of the contract.                          *)
(***************************************************************************)

ContractStep == [Contract!Next]_(Contract!vars)

Claimants == Workers \cup Requests

\* Nothing the contract sees has changed.
LEMMA NothingSeen ==
    ASSUME UNCHANGED <<events, mails>>,
           \A a \in Claimants, t \in Tickets, g \in Triggers :
              Claimed(a, t, g)' <=> Claimed(a, t, g)
    PROVE  ContractStep
<1>1. ClaimsShown' = ClaimsShown
  BY DEF ClaimsShown, Claimants
<1> QED
  BY <1>1 DEF ContractStep, Contract!vars

\* All claims of one claimant are gone.
LEMMA Released ==
    ASSUME NEW x \in Claimants,
           \A a \in Claimants, t \in Tickets, g \in Triggers :
              Claimed(a, t, g)' <=> a # x /\ Claimed(a, t, g)
    PROVE  ClaimsShown' = ClaimsShown \ Contract!ClaimsOf(x)
BY DEF ClaimsShown, Contract!ClaimsOf, Claimants

LEMMA GivenUp ==
    ASSUME NEW x \in Claimants, UNCHANGED <<events, mails>>,
           \A a \in Claimants, t \in Tickets, g \in Triggers :
              Claimed(a, t, g)' <=> a # x /\ Claimed(a, t, g)
    PROVE  ContractStep
<1>1. Contract!GiveUp(x)
  BY Released DEF Contract!GiveUp
<1> QED
  BY <1>1 DEF ContractStep, Contract!Next, Claimants

\* One claim more, of a ticket and a trigger without an event.
LEMMA NewClaim ==
    ASSUME NEW x \in Claimants, NEW u \in Tickets, NEW h \in Triggers,
           events[u][h] = 0, UNCHANGED <<events, mails>>,
           \A a \in Claimants, t \in Tickets, g \in Triggers :
              Claimed(a, t, g)' <=> Claimed(a, t, g) \/ (a = x /\ t = u /\ g = h)
    PROVE  ContractStep
<1>1. ClaimsShown' = ClaimsShown \cup {<<x, u, h>>}
  BY DEF ClaimsShown, Claimants
<1>2. Contract!Claim(x, u, h)
  BY <1>1 DEF Contract!Claim
<1> QED
  BY <1>2 DEF ContractStep, Contract!Next, Claimants

\* The claims of one claimant become events.
LEMMA Raised ==
    ASSUME NEW x \in Claimants, events \in Counts, events' \in Counts, mails' = mails,
           \A t \in Tickets, g \in Triggers :
              events'[t][g] = IF Claimed(x, t, g) THEN events[t][g] + 1 ELSE events[t][g],
           \A a \in Claimants, t \in Tickets, g \in Triggers :
              Claimed(a, t, g)' <=> a # x /\ Claimed(a, t, g)
    PROVE  ContractStep
<1>1. ClaimsShown' = ClaimsShown \ Contract!ClaimsOf(x)
  BY Released
<1>2. \A t \in Tickets, g \in Triggers : <<x, t, g>> \in ClaimsShown <=> Claimed(x, t, g)
  BY DEF ClaimsShown, Claimants
<1>3. events' = [t \in Tickets |-> [g \in Triggers |->
                   IF <<x, t, g>> \in ClaimsShown THEN events[t][g] + 1 ELSE events[t][g]]]
  <2>1. \A t \in Tickets :
           events'[t] = [g \in Triggers |->
                           IF <<x, t, g>> \in ClaimsShown THEN events[t][g] + 1
                           ELSE events[t][g]]
    BY <1>2 DEF Counts
  <2> QED
    BY <2>1 DEF Counts
<1>4. Contract!Raise(x)
  BY <1>1, <1>3 DEF Contract!Raise
<1> QED
  BY <1>4 DEF ContractStep, Contract!Next, Claimants

\* One mail that the balance of mails still allows.
LEMMA Told ==
    ASSUME IInv, MailInv, NEW t \in Tickets, NEW g \in Triggers,
           RunsToMail(t, g) # {} \/ RequestsToMail(t, g) # {},
           mails' = OneMore(mails, t, g) \/ mails' = mails, events' = events,
           \A a \in Claimants, u \in Tickets, h \in Triggers :
              Claimed(a, u, h)' <=> Claimed(a, u, h)
    PROVE  ContractStep
<1>1. CASE mails' = mails
  BY <1>1, NothingSeen
<1>2. CASE mails' = OneMore(mails, t, g)
  <2>1. PICK a, b : a = Cardinality(RunsToMail(t, g))
                    /\ b = Cardinality(RequestsToMail(t, g))
    OBVIOUS
  <2>2. a \in Nat /\ b \in Nat /\ (a # 0 \/ b # 0)
    BY <2>1, MailNumbers, FS_CardinalityType, FS_EmptySet
  <2>3. mails[t][g] + a + b <= events[t][g]
    BY <2>1 DEF MailInv, MailBacked
  <2>4. mails[t][g] < events[t][g]
    BY <2>2, <2>3, MailNumbers
  <2>5. ClaimsShown' = ClaimsShown
    BY DEF ClaimsShown, Claimants
  <2>6. Contract!Tell(t, g)
    BY <1>2, <2>4, <2>5 DEF Contract!Tell, OneMore
  <2> QED
    BY <2>6 DEF ContractStep, Contract!Next
<1> QED
  BY <1>1, <1>2

\* What a step has to show of the worker or request that takes it.
StepOf(x) ==
    /\ ContractStep
    /\ \A t \in Tickets, g \in Triggers :
          /\ ClaimsKept(x, t, g)
          /\ LET more == events[t][g] + 1
             IN  \/ /\ events[t][g]' = events[t][g]
                    /\ Claimed(x, t, g)' => Claimed(x, t, g) \/ events[t][g] = 0
                 \/ /\ events[t][g]' = more
                    /\ Claimed(x, t, g) /\ ~Claimed(x, t, g)'

LEMMA RunClaimStep ==
    ASSUME IInv, IInv', MailInv, NEW w \in Workers, Run(w) \/ AbandonRun(w)
    PROVE  StepOf(w)
<1>1. /\ job \in [Workers -> Job] /\ events \in Counts /\ events' \in Counts
      /\ w \in Claimants /\ w \notin Requests
      /\ txn' = txn
      /\ \A v \in Workers : v # w => job'[v] = job[v]
  BY NamedApart DEF IInv, TypeOK, Claimants, Run, AbandonRun, SelectBatch, MarkTicket,
                    CommitRun, NotifyRun, EndRun
<1>2. \A a \in Claimants \ {w}, t \in Tickets, g \in Triggers :
         Claimed(a, t, g)' <=> Claimed(a, t, g)
  BY <1>1 DEF Claimed
<1>3. \A t \in Tickets, g \in Triggers :
         Claimed(w, t, g) <=> /\ job[w].pc = "marking" /\ t \in job[w].raised
                              /\ g = "sla_breach"
  BY <1>1 DEF Claimed
<1>4. \A t \in Tickets, g \in Triggers :
         Claimed(w, t, g)' <=> /\ job'[w].pc = "marking" /\ t \in job'[w].raised
                               /\ g = "sla_breach"
  BY <1>1 DEF Claimed
<1>5. \A t \in Tickets, g \in Triggers : ClaimsKept(w, t, g)
  BY <1>2 DEF ClaimsKept, Claimants
<1>6. ASSUME UNCHANGED <<events, mails>>,
             job'[w].pc = "marking" => job'[w].raised = {}
      PROVE  StepOf(w)
  <2>1. \A t \in Tickets, g \in Triggers : ~Claimed(w, t, g)'
    BY <1>4, <1>6
  <2>2. ContractStep
    BY <1>1, <1>2, <1>6, <2>1, GivenUp
  <2> QED
    BY <1>5, <1>6, <2>1, <2>2 DEF StepOf
<1>7. CASE SelectBatch(w)
  <2>1. PICK new : new = [Idle EXCEPT !.pc = "marking",
                                      !.todo = {u \in Tickets : Overdue(u)}]
    OBVIOUS
  <2>2. job' = [job EXCEPT ![w] = new] /\ new.raised = {} /\ UNCHANGED <<events, mails>>
    BY <1>7, <2>1 DEF SelectBatch, Idle, stored
  <2> QED
    BY <1>1, <1>6, <2>2
<1>8. ASSUME NEW u \in Tickets, MarkTicket(w, u) PROVE StepOf(w)
  <2>1. UNCHANGED <<events, mails>>
    BY <1>8 DEF MarkTicket, stored
  <2>2. /\ job[w].pc = "marking" /\ job'[w].pc = "marking"
        /\ job[w].raised \subseteq job'[w].raised
        /\ job'[w].raised \subseteq job[w].raised \cup {u}
        /\ u \in job'[w].raised \ job[w].raised => MayEscalateBreached(u, status[u])
    BY <1>8, Marking
  <2>3. MayEscalateBreached(u, status[u]) => events[u]["sla_breach"] = 0
    <3>1. events[u]["sla_breach"] \in Nat
      BY <1>1, BreachIsTrigger DEF Counts
    <3> QED
      BY <3>1 DEF MayEscalateBreached, MayEscalate, HasOpenEscalation
  <2>4. \A t \in Tickets, g \in Triggers :
           Claimed(w, t, g)' => Claimed(w, t, g) \/ events[t][g] = 0
    BY <1>3, <1>4, <2>2, <2>3
  <2>5. CASE job'[w].raised = job[w].raised
    <3>1. ContractStep
      BY <1>2, <1>3, <1>4, <2>1, <2>2, <2>5, NothingSeen
    <3> QED
      BY <1>5, <2>1, <2>4, <3>1 DEF StepOf
  <2>6. CASE job'[w].raised # job[w].raised
    <3>1. u \in job'[w].raised /\ u \notin job[w].raised
      BY <2>2, <2>6
    <3>2. \A a \in Claimants, t \in Tickets, g \in Triggers :
             Claimed(a, t, g)' <=>
                Claimed(a, t, g) \/ (a = w /\ t = u /\ g = "sla_breach")
      BY <1>2, <1>3, <1>4, <2>2, <3>1
    <3>3. ContractStep
      BY <1>1, <2>1, <2>2, <2>3, <3>1, <3>2, NewClaim, BreachIsTrigger
    <3> QED
      BY <1>5, <2>1, <2>4, <3>3 DEF StepOf
  <2> QED
    BY <2>5, <2>6
<1>9. CASE CommitRun(w)
  <2>1. PICK new : new = [Idle EXCEPT !.pc = "notifying", !.raised = job[w].raised]
    OBVIOUS
  <2>2. job' = [job EXCEPT ![w] = new] /\ new.pc = "notifying" /\ mails' = mails
        /\ job[w].pc = "marking"
    BY <1>9, <2>1 DEF CommitRun, Idle
  <2>3. \A t \in Tickets, g \in Triggers : ~Claimed(w, t, g)'
    BY <1>1, <1>4, <2>2
  <2>4. \A t \in Tickets, g \in Triggers :
           events'[t][g] = IF Claimed(w, t, g) THEN events[t][g] + 1 ELSE events[t][g]
    BY <1>3, <1>9, <2>2, CommitCounts
  <2>5. ContractStep
    BY <1>1, <1>2, <2>2, <2>3, <2>4, Raised
  <2> QED
    BY <1>5, <2>3, <2>4, <2>5 DEF StepOf
<1>10. CASE NotifyRun(w)
  <2>1. PICK t \in job[w].raised :
           /\ job' = [job EXCEPT ![w].raised = @ \ {t}]
           /\ mails' = OneMore(mails, t, "sla_breach") \/ mails' = mails
    BY <1>10 DEF NotifyRun
  <2>2. job[w].pc = "notifying" /\ events' = events
    BY <1>10 DEF NotifyRun, stored
  <2>3. job'[w].pc = "notifying" /\ t \in Tickets
    BY <1>1, <2>1, <2>2 DEF Job
  <2>4. \A a \in Claimants, u \in Tickets, h \in Triggers :
           Claimed(a, u, h)' <=> Claimed(a, u, h)
    BY <1>2, <1>3, <1>4, <2>2, <2>3
  <2>5. w \in RunsToMail(t, "sla_breach")
    BY <2>1, <2>2 DEF RunsToMail
  <2>6. ContractStep
    BY <2>1, <2>2, <2>3, <2>4, <2>5, Told, BreachIsTrigger
  <2> QED
    BY <1>1, <1>5, <2>2, <2>4, <2>6 DEF StepOf
<1>11. CASE EndRun(w) \/ AbandonRun(w)
  <2>1. job' = [job EXCEPT ![w] = Idle] /\ Idle.pc = "idle" /\ UNCHANGED <<events, mails>>
    BY <1>11 DEF EndRun, AbandonRun, stored, Idle
  <2> QED
    BY <1>1, <1>6, <2>1
<1> QED
  BY <1>7, <1>8, <1>9, <1>10, <1>11 DEF Run

LEMMA RequestClaimStep ==
    ASSUME IInv, IInv', MailInv, NEW r \in Requests, Request(r)
    PROVE  StepOf(r)
<1>1. /\ txn \in [Requests -> Txn \cup {NoTxn}] /\ events \in Counts /\ events' \in Counts
      /\ r \in Claimants /\ r \notin Workers
      /\ job' = job
      /\ \A q \in Requests : q # r => txn'[q] = txn[q]
  BY NamedApart DEF IInv, TypeOK, Claimants, Request, LoadTicket, TransitionStatus,
                    PassChecks, CommitEscalation, NotifyEscalation, Rollback
<1>2. \A a \in Claimants \ {r}, t \in Tickets, g \in Triggers :
         Claimed(a, t, g)' <=> Claimed(a, t, g)
  BY <1>1 DEF Claimed
<1>3. \A t \in Tickets, g \in Triggers :
         Claimed(r, t, g) <=> /\ txn[r] # NoTxn /\ txn[r].pc = "passed"
                              /\ txn[r].ticket = t /\ txn[r].trigger = g
  BY <1>1 DEF Claimed
<1>4. \A t \in Tickets, g \in Triggers :
         Claimed(r, t, g)' <=> /\ txn'[r] # NoTxn /\ txn'[r].pc = "passed"
                               /\ txn'[r].ticket = t /\ txn'[r].trigger = g
  BY <1>1 DEF Claimed
<1>5. \A t \in Tickets, g \in Triggers : ClaimsKept(r, t, g)
  BY <1>2 DEF ClaimsKept, Claimants
<1>6. ASSUME UNCHANGED <<events, mails>>,
             txn'[r] = NoTxn \/ txn'[r].pc # "passed"
      PROVE  StepOf(r)
  <2>1. \A t \in Tickets, g \in Triggers : ~Claimed(r, t, g)'
    BY <1>4, <1>6
  <2>2. ContractStep
    BY <1>1, <1>2, <1>6, <2>1, GivenUp
  <2> QED
    BY <1>5, <1>6, <2>1, <2>2 DEF StepOf
<1>7. ASSUME NEW u \in Tickets, LoadTicket(r, u) PROVE StepOf(r)
  <2>1. UNCHANGED <<events, mails>> /\ txn'[r].pc = "loaded"
    BY <1>1, <1>7 DEF LoadTicket, stored
  <2> QED
    BY <1>6, <2>1
<1>8. ASSUME NEW s \in Targets, TransitionStatus(r, s) PROVE StepOf(r)
  BY <1>1, <1>6, <1>8 DEF TransitionStatus
<1>9. ASSUME NEW h \in ByHand, PassChecks(r, h) PROVE StepOf(r)
  <2>1. PICK new, u : /\ new = [txn[r] EXCEPT !.pc = "passed", !.trigger = h]
                      /\ u = txn[r].ticket
    OBVIOUS
  <2>2. /\ txn[r] \in Txn /\ txn[r].pc = "loaded" /\ UNCHANGED <<events, mails>>
        /\ u \in Tickets /\ h \in Triggers
        /\ MayEscalate(u, h, txn[r].loaded)
    BY <1>1, <1>9, <2>1, BreachIsTrigger DEF PassChecks, stored, Txn
  <2>3. /\ txn'[r] = new /\ new.pc = "passed" /\ new.ticket = u /\ new.trigger = h
        /\ new \in Txn
    BY <1>1, <1>9, <2>1, <2>2 DEF PassChecks, Txn
  <2>4. events[u][h] = 0
    <3>1. events[u][h] \in Nat
      BY <1>1, <2>2 DEF Counts
    <3> QED
      BY <2>2, <3>1 DEF MayEscalate, HasOpenEscalation
  <2>5. txn'[r] # NoTxn
    BY <1>9, <2>3, SlotIsNoTxn DEF PassChecks
  <2>6. \A t \in Tickets, g \in Triggers :
           Claimed(r, t, g)' <=> Claimed(r, t, g) \/ (t = u /\ g = h)
    BY <1>3, <1>4, <2>2, <2>3, <2>5
  <2>7. \A a \in Claimants, t \in Tickets, g \in Triggers :
           Claimed(a, t, g)' <=> Claimed(a, t, g) \/ (a = r /\ t = u /\ g = h)
    BY <1>2, <2>6
  <2>8. ContractStep
    BY <1>1, <2>2, <2>4, <2>7, NewClaim
  <2> QED
    BY <1>5, <2>2, <2>4, <2>6, <2>8 DEF StepOf
<1>10. CASE CommitEscalation(r)
  <2>1. PICK new, u, h : /\ new = [txn[r] EXCEPT !.pc = "notifying"]
                         /\ u = txn[r].ticket /\ h = txn[r].trigger
    OBVIOUS
  <2>2. /\ txn[r] \in Txn /\ txn[r] # NoTxn /\ txn[r].pc = "passed" /\ mails' = mails
        /\ u \in Tickets /\ h \in Triggers /\ events' = OneMore(events, u, h)
    BY <1>1, <1>10, <2>1, RequestCounts, BreachIsTrigger DEF CommitEscalation
  <2>3. txn'[r].pc = "notifying"
    BY <1>1, <1>10, <2>2 DEF CommitEscalation, Txn
  <2>4. \A t \in Tickets, g \in Triggers : ~Claimed(r, t, g)'
    BY <1>4, <2>3
  <2>5. \A t \in Tickets, g \in Triggers : Claimed(r, t, g) <=> t = u /\ g = h
    BY <1>3, <2>1, <2>2
  <2>6. \A t \in Tickets, g \in Triggers :
           events'[t][g] = IF Claimed(r, t, g) THEN events[t][g] + 1 ELSE events[t][g]
    BY <1>1, <2>2, <2>5, CountUp
  <2>7. ContractStep
    BY <1>1, <1>2, <2>2, <2>4, <2>6, Raised
  <2> QED
    BY <1>5, <2>4, <2>6, <2>7 DEF StepOf
<1>11. CASE NotifyEscalation(r)
  <2>1. PICK u, h : u = txn[r].ticket /\ h = txn[r].trigger
    OBVIOUS
  <2>2. /\ txn[r] \in Txn /\ txn[r] # NoTxn /\ txn[r].pc = "notifying"
        /\ events' = events /\ txn'[r] = NoTxn
        /\ mails' = OneMore(mails, u, h) \/ mails' = mails
    BY <1>1, <1>11, <2>1 DEF NotifyEscalation, stored
  <2>3. u \in Tickets /\ h \in Triggers /\ r \in RequestsToMail(u, h)
    BY <2>1, <2>2, BreachIsTrigger DEF Txn, IInv, TriggerOK, RequestsToMail
  <2>4. \A a \in Claimants, t \in Tickets, g \in Triggers :
           Claimed(a, t, g)' <=> Claimed(a, t, g)
    BY <1>2, <1>3, <1>4, <2>2
  <2>5. ContractStep
    BY <2>2, <2>3, <2>4, Told
  <2> QED
    BY <1>1, <1>5, <2>2, <2>4, <2>5 DEF StepOf
<1>12. CASE Rollback(r)
  BY <1>1, <1>6, <1>12 DEF Rollback, stored
<1> QED
  BY <1>7, <1>8, <1>9, <1>10, <1>11, <1>12 DEF Request

---------------------------------------------------------------------------

EInv == IInv /\ MailInv /\ FewInv

LEMMA EscalationInit == Init => EInv /\ Contract!Init
<1> SUFFICES ASSUME Init PROVE EInv /\ Contract!Init
  OBVIOUS
<1>1. IInv /\ MailInv
  BY InitInvariant, MailInit
<1>2. \A a, t, g : ~Claimed(a, t, g)
  BY DEF Init, Idle, Claimed
<1>3. ASSUME NEW t \in Tickets, NEW g \in Triggers PROVE FewAtOnce(t, g)
  <2>1. RunClaims(t, g) = {} /\ RequestClaims(t, g) = {} /\ events[t][g] = 0
    BY <1>2 DEF RunClaims, RequestClaims, Init
  <2>2. AtOnce(g) \in Nat
    BY <1>1, ClaimNumbers
  <2> QED
    BY <2>1, <2>2, FS_EmptySet DEF FewAtOnce
<1>4. Contract!Init
  BY <1>2 DEF Init, Contract!Init, ClaimsShown
<1> QED
  BY <1>1, <1>3, <1>4 DEF EInv, FewInv

LEMMA EscalationStep ==
    ASSUME EInv, [Next]_vars
    PROVE  EInv' /\ ContractStep
<1>1. IInv /\ MailInv /\ IInv' /\ MailInv'
  BY StepInvariant, MailStep DEF EInv
<1>2. ASSUME NEW x \in Workers \cup Requests, StepOf(x)
      PROVE  FewInv' /\ ContractStep
  <2>1. ASSUME NEW t \in Tickets, NEW g \in Triggers PROVE FewAtOnce(t, g)'
    <3>1. FewAtOnce(t, g)
      BY DEF EInv, FewInv
    <3> QED
      BY <1>1, <1>2, <3>1, ClaimBalance DEF StepOf
  <2> QED
    BY <1>2, <2>1 DEF FewInv, StepOf
<1>3. ASSUME NEW w \in Workers, Run(w) \/ AbandonRun(w) PROVE FewInv' /\ ContractStep
  BY <1>1, <1>2, <1>3, RunClaimStep
<1>4. ASSUME NEW r \in Requests, Request(r) PROVE FewInv' /\ ContractStep
  BY <1>1, <1>2, <1>4, RequestClaimStep
<1>5. ASSUME Tick \/ UNCHANGED vars PROVE FewInv' /\ ContractStep
  <2>1. UNCHANGED <<events, mails, txn, job>>
    BY <1>5 DEF Tick, vars, stored
  <2>2. \A a, t, g : Claimed(a, t, g)' <=> Claimed(a, t, g)
    BY <2>1 DEF Claimed
  <2>3. FewInv'
    BY <2>1, <2>2 DEF EInv, FewInv, FewAtOnce, RunClaims, RequestClaims, AtOnce
  <2> QED
    BY <2>1, <2>2, <2>3, NothingSeen
<1>6. FewInv' /\ ContractStep
  BY <1>3, <1>4, <1>5 DEF Next
<1> QED
  BY <1>1, <1>6 DEF EInv

\* However many replicas run the worker and however many requests overlap, the
\* look for an open event (has_open_escalation) keeps the events of a trigger
\* down to those who can have looked together: with one of them, to one.
THEOREM EscalatedAtMostAtOnce == Spec => []FewOpenEvents
<1>1. EInv /\ [Next]_vars => EInv'
  BY EscalationStep
<1>2. EInv => FewOpenEvents
  <2> SUFFICES ASSUME EInv, NEW t \in Tickets, NEW g \in Triggers
               PROVE  events[t][g] <= AtOnce(g)
    BY DEF FewOpenEvents
  <2>1. PICK a, b : a = Cardinality(RunClaims(t, g))
                    /\ b = Cardinality(RequestClaims(t, g))
    OBVIOUS
  <2>2. a \in Nat /\ b \in Nat /\ events[t][g] \in Nat /\ AtOnce(g) \in Nat
    BY <2>1, ClaimNumbers, FS_CardinalityType DEF EInv
  <2>3. events[t][g] + a + b <= AtOnce(g)
    BY <2>1 DEF EInv, FewInv, FewAtOnce
  <2> QED
    BY <2>2, <2>3
<1> QED
  BY <1>1, <1>2, EscalationInit, PTL DEF Spec

\* However many of them overlap, the workers, the endpoint and their transactions
\* implement the contract: no claim where the trigger has fired, one event for a
\* committed claim, then at most one announcement of it.
THEOREM EscalationImplementsContract == Spec => ImplementsContract
<1>1. EInv /\ [Next]_vars => EInv' /\ [Contract!Next]_(Contract!vars)
  BY EscalationStep DEF ContractStep
<1> QED
  BY <1>1, EscalationInit, PTL DEF Spec, ImplementsContract, Contract!Spec

=============================================================================
