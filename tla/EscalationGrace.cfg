\* One worker, nobody else: a ticket flagged inside its grace.
SPECIFICATION FairSpec
CONSTANTS
    t1 = t1
    w1 = w1
    r1 = r1
    Tickets = {t1}
    Workers = {w1}
    Requests = {r1}
    Triggers = {"sla_breach"}
    ByHand = {}
    Targets = {"resolved"}
    Early = {t1}
    Resumed = {}
    Ruled = {t1}
    Grace = 1
    MaxTime = 2
    MaxCrashes = 0
    Deadline <- Deadlines
    TicketDue <- TicketDues
    NoTrigger = NoTrigger
    NoTxn = NoTxn
PROPERTIES
    EscalatedAfterGrace
