SPECIFICATION Spec
CONSTANTS
    Agent = Agent
    Cli = {c1}
    Nobody = Nobody
    Record = {r1, r2}
    AgentJobs = {"unlock", "read", "add", "remove", "create"}
    CliJobs = {"add", "remove", "rekey"}
    AgentFails = TRUE
    OtherVault = TRUE
    MaxSaves = 2
SYMMETRY Symmetry
INVARIANTS WritesSurvive NoFalseAlarm
PROPERTIES RekeyHolds
