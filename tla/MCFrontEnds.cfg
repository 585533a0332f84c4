SPECIFICATION Spec
CONSTANTS
    p1 = p1
    p2 = p2
    p3 = p3
    Peer = {p1, p2, p3}
    k1 = k1
    Key = {k1}
    MaxLive = 2
    Patience = 1
    SshTurns = 2
    a1 = a1
    a2 = a2
    App = {a1, a2}
    MaxItem = 2
    MaxSession = 1
    AppTurns = 3
    r1 = r1
    r2 = r2
    Request = {r1, r2}
    Ceiling = 1
    Beat = 1
    c1 = c1
    c2 = c2
    Copy = {c1, c2}
    Forever = {c2}
    MaxOther = 2
INVARIANTS NothingLeaks ItemsKeptApart CeremonyIsWanted
PROPERTIES SignersAnswered CallsAnswered RequestsSettle SecretLeaves
CHECK_DEADLOCK FALSE
