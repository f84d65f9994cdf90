\* One account, two tabs, three tokens: an overlap of two refreshes, a sign-in
\* by recovery code beside a change of the enrolment.
SPECIFICATION Spec
CONSTANTS
    u1 = u1
    r1 = r1
    r2 = r2
    s1 = s1
    s2 = s2
    c1 = c1
    c2 = c2
    k1 = k1
    k2 = k2
    k3 = k3
    b1 = b1
    b2 = b2
    Users = {u1}
    Requests = {r1, r2}
    Secrets = {s1, s2}
    CodeSets = {c1, c2}
    Tokens = {k1, k2, k3}
    Tabs = {b1, b2}
    NoSecret = NoSecret
    NoCode = NoCode
    NoTxn = NoTxn
    NoToken = NoToken
    NoTab = NoTab
    NoCall = NoCall
CONSTRAINT Scenarios
SYMMETRY AuthSymmetry
INVARIANTS
    ConfirmedSecret
    CodesOfEnrolment
    RotatedIsRevoked
    CodeBuysFewSessions
    HeldTokenWorks
