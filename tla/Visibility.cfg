\* A tree of three units and one to come, two levels, one role; a ticket of the
\* branch and one that came by mail; one read at a time, two edits before or
\* during it.  Four rows of two codes, filed by two requests, and two
\* tickets of a branch.
SPECIFICATION AdministrationSpec
CONSTANTS
    h = h
    g = g
    b = b
    n = n
    l1 = l1
    l2 = l2
    tb = tb
    tx = tx
    ro = ro
    r1 = r1
    f1 = f1
    f2 = f2
    d1 = d1
    d2 = d2
    Units = {h, g, b, n}
    Levels = {l1, l2}
    Roles = {ro}
    Tickets = {tb, tx}
    Mine = {tx}
    Requests = {r1}
    MaxRows = 4
    Codes = {d1, d2}
    Filers = {f1, f2}
    Filed = {tb, tx}
    None = None
    Idle = Idle
    Absent = Absent
    MaxEdits = 2
    Seeded <- MCSeeded
    Accounts <- MCAccounts
    Home <- MCHome
CONSTRAINT Scenarios
INVARIANTS
    NothingDangles
    ShownInScope
    NothingMissed
    DuplicatesBounded
    LateAreOpen
PROPERTY
    WalkEnds
