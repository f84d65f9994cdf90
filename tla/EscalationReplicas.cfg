\* Two workers, a request, two tickets, one of them due later and without a rule;
\* a grace, and a run that fails.
SPECIFICATION FairSpec
CONSTANTS
    t1 = t1
    t2 = t2
    w1 = w1
    w2 = w2
    r1 = r1
    Tickets = {t1, t2}
    Workers = {w1, w2}
    Requests = {r1}
    Triggers = {"sla_breach", "manual"}
    ByHand = {"manual"}
    Targets = {"closed"}
    Early = {t1}
    Resumed = {t1}
    Ruled = {t1}
    Grace = 1
    MaxTime = 2
    MaxCrashes = 1
    Deadline <- Deadlines
    TicketDue <- TicketDues
    NoTrigger = NoTrigger
    NoTxn = NoTxn
CONSTRAINT StartNew
INVARIANTS
    FlagsAgree
    MailsBacked
    FewOpenEvents
    AutoEscalationJustified
PROPERTIES
    ImplementsContract
    BreachDetected
    EscalatedWhenSeenLate
