\* Two requests in flight over one ticket, loaded rows arbitrarily old.
SPECIFICATION Spec
CONSTANTS
    t1 = t1
    o1 = o1
    r1 = r1
    r2 = r2
    Tickets = {t1}
    Originals = {o1}
    Requests = {r1, r2}
    Unlinked = Unlinked
    NoTxn = NoTxn
    NotRaised = NotRaised
    MaxReopens = 2
SYMMETRY RequestSymmetry
INVARIANTS
    ClosedIsExplained
    WorkStopsResponseClock
    ResolvedWasWorked
    ResolutionStampCurrent
PROPERTIES
    EvidenceKept
    ImplementsContract
