SPECIFICATION Spec
CONSTANTS
    p1 = p1
    p2 = p2
    Process = {p1, p2}
    Identified = {p1, p2}
    NoName = NoName
    Name <- MCName
    Login = {i1}
    Key = {}
    Svc = {}
    Asked = {"reveal", "ssh-sign"}
    Reason = {"suspend", "session-lock"}
    LongHolds = FALSE
    Idle = 2
    MaxSession = 3
    MaxSignals = 1
    MaxFaults = 1
    Nonce = {}
    Unknown = Unknown
    Cred = {}
    NoCred = NoCred
    TTL = 2
    MaxPending = 1
    MaxAttempts = 2
    MaxNow = 4

INVARIANTS ServedRightly LockdownServesNoApproval
PROPERTIES ApprovalsRefined
