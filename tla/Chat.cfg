\* Two users, three calls in any two seconds, one user tracked at ease; two
\* sessions, two questions at once, six stamps.
SPECIFICATION Spec
CONSTANTS
    u1 = u1
    u2 = u2
    n1 = n1
    n2 = n2
    r1 = r1
    r2 = r2
    Users = {u1, u2}
    Limit = 3
    Window = 1
    MaxTracked = 1
    MaxTime = 3
    User = u1
    Sessions = {n1, n2}
    Requests = {r1, r2}
    MaxClock = 6
    NoSession = NoSession
    Idle = Idle
CONSTRAINT Scenarios
SYMMETRY ChatSymmetry
CHECK_DEADLOCK FALSE
INVARIANTS
    WindowBounded
    TurnsAreWhole
    ShownIsInSession
