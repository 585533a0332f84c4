SPECIFICATION Spec
CONSTANTS
    p1 = p1
    p2 = p2
    Process = {p1}
    Identified = {p1}
    NoName = NoName
    Name <- MCName
    Login = {}
    Key = {}
    Svc = {}
    Asked = {}
    Reason = {"suspend", "session-lock"}
    LongHolds = FALSE
    Idle = 1
    MaxSession = 2
    MaxSignals = 0
    MaxFaults = 1
    Nonce = {n1}
    Unknown = Unknown
    Cred = {c1}
    NoCred = NoCred
    TTL = 2
    MaxPending = 1
    MaxAttempts = 2
    MaxNow = 3

INVARIANTS ServedRightly StatusTellsTruth
PROPERTIES DeskRefined
