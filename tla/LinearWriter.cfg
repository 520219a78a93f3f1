SPECIFICATION Spec
CONSTANTS
    x = x
    y = y
    Items <- MCItems
    Hole = Hole
    MaxSlots = 3
    MaxGeneration = 7
    MaxFaults = 4
    Faults = {"kill", "power", "io"}
CHECK_DEADLOCK FALSE
INVARIANT TypeOK
INVARIANT RecoveryKeepsCommit
INVARIANT CommittedDataDurable
INVARIANT HeadNeverDangles
INVARIANT OneRootSurvives
INVARIANT SameGenerationSameRoot
INVARIANT KilledFileOpens
