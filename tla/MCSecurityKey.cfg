SPECIFICATION FairSpec
CONSTANTS
    c1 = c1
    c2 = c2
    Client = {c1, c2}
    Asks <- MCAsks
    Broadcast = 5
    SeqMod = 2
    MaxOpen = 1
    QueueMax = 1
    MaxMsg = 2
INVARIANTS MessagesFit PromptWithdrawn
PROPERTIES EveryoneAnswered
CHECK_DEADLOCK FALSE
