SPECIFICATION FairSpec
CONSTANTS
    p1 = p1
    p2 = p2
    Process = {p1}
    Identified = {p1}
    NoName = NoName
    Name <- MCName
    Login = {}
    Key = {k1}
    Svc = {s1}
    Asked = {}
    Reason = {"suspend"}
    LongHolds = TRUE
    Idle = 1
    MaxSession = 2
    MaxSignals = 1
    MaxFaults = 1
    Nonce = {}
    Unknown = Unknown
    Cred = {}
    NoCred = NoCred
    TTL = 2
    MaxPending = 1
    MaxAttempts = 2
    MaxNow = 3

INVARIANTS LockedHoldsNothing
PROPERTIES SignalLocks CeilingEnds
