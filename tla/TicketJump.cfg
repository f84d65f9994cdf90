\* Two requests over one ticket: the table is consulted for a row that is gone.
SPECIFICATION Spec
CONSTANTS
    t1 = t1
    o1 = o1
    r1 = r1
    r2 = r2
    Tickets = {t1}
    Originals = {o1}
    Requests = {r1, r2}
    Unlinked = Unlinked
    NoTxn = NoTxn
    NotRaised = NotRaised
    MaxReopens = 1
PROPERTIES
    StoredMovesAreLegal
