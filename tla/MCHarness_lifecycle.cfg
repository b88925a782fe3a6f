CONSTANTS
    HarnessIds = {"bare", "agent_instructions", "ralph", "multiagent", "speckit"}
    MaxIterations = 4
    Iterations <- FourIterations
    Roles <- ThreeRoles
    SpecStages <- ThreeStages
    Outputs <- AFewOutputs
    Shipments <- SomeShipments
    Touches = {"CLAUDE.md"}
SPECIFICATION FairSpec
INVARIANTS
    StuckHalts
    OKMeansComplete
    StageChecksAreRight
PROPERTIES
    TeardownKeeps
    InvokeEnds
