\* Two creations at once, two units, three days in two years.
SPECIFICATION Spec
CONSTANTS
    o1 = o1
    o2 = o2
    r1 = r1
    r2 = r2
    a1 = a1
    a2 = a2
    v1 = v1
    br1 = br1
    Units = {o1, o2}
    Branches = {br1}
    Staff = {a1, a2, v1}
    Requests = {r1, r2}
    Role <- MCRole
    Home <- MCHome
    DaysPerYear = 2
    MaxDay = 2
    MaxTickets = 4
    NoUnit = NoUnit
    NoBranch = NoBranch
    Nobody = Nobody
    NoTxn = NoTxn
SYMMETRY CreationSymmetry
CONSTRAINT FewChanges
CHECK_DEADLOCK FALSE
INVARIANTS
    SequenceHasNoGaps
    LockedNumberIsFree
    NextNumberIsFree
    RoutingBalanced
