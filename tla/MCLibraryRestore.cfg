SPECIFICATION LibrarySpec
CONSTANTS
    Parts = {"exchange"}
    Client = {"cli", "deck"}
    Item = {"login", "note"}
    Capability = {"reveal", "copy"}
    NoHead = NoHead
    MaxFacts = 5
    MaxDamage = 2
    v1 = v1
    v2 = v2
    Vault = {v1, v2}
    d1 = d1
    d2 = d2
    Path = {d1, d2}
    b1 = b1
    b2 = b2
    Command = {b1, b2}
    Keep = 1
    MaxEpoch = 2
    MaxTime = 2
    BackupHarm = 1
    s1 = s1
    s2 = s2
    Buf = {s1, s2}
    KeyBuf = kb
    SlabBytes = 3
    Page = 3
    MaxLen = 4
    MaxSlabs = 2
    MaxFailed = 1
    p1 = p1
    p2 = p2
    Passphrase = {p1, p2}
    Label = {"home", "bank"}
    MaxDraw = 5
    FileHarm = 1
    i1 = i1
    i2 = i2
    Id = {i1, i2}
    PadTo = 2
    MinPassphrase = 4
    MinAllDigit = 6
    MinPin = 4
    Width = 3
    MaxLength = 4
    MaxTries = 2
    Records <- KeyRecords
    Hosts <- SomeHosts
    Suffixes <- SomeSuffixes
    Draft <- Drafts
    FieldValue <- Values
    Corpus <- Leaked
    Prefix <- SomePrefixes
INVARIANT RestoreIsWhole
CHECK_DEADLOCK FALSE
