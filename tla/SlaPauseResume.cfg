\* Three pause or resume requests in flight over one ticket.
SPECIFICATION Spec
CONSTANTS
    t1 = t1
    r1 = r1
    r2 = r2
    r3 = r3
    Tickets = {t1}
    Requests = {r1, r2, r3}
    Resolution = 2
    NotPaused = NotPaused
    NoTxn = NoTxn
    MaxTime = 4
SYMMETRY RequestSymmetry
INVARIANTS
    ExtensionIsPausedTime
    ExtensionBounded
