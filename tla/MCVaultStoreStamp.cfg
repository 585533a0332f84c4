SPECIFICATION Spec
CONSTANTS
    Agent = Agent
    Cli = {c1}
    Nobody = Nobody
    Record = {r1, r2}
    AgentJobs = {"unlock", "read", "add"}
    CliJobs = {"add"}
    AgentFails = FALSE
    OtherVault = FALSE
    MaxSaves = 3
SYMMETRY Symmetry
INVARIANT
    Durable
