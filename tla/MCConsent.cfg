SPECIFICATION Spec
CONSTANTS
    c1 = c1
    c2 = c2
    Nonce = {n1, n2}
    Peer = {p1}
    Unknown = Unknown
    Cred = {c1, c2}
    NoCred = NoCred
    Request <- MCRequest
    TTL = 2
    MaxPending = 1
    MaxAttempts = 2
    MaxNow = 5
SYMMETRY Symmetry
INVARIANTS ApprovedIsProved CollectedOnce GuessesRunOut
