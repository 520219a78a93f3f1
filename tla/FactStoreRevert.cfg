SPECIFICATION FactsSpec
CONSTANTS
    Names <- MCNames
    Keys <- MCOneKey
    Values <- MCValues
    MaxDepth = 2
    MaxSegments = 2
    MaxIndices = 4
    MaxBraids = 0
    MaxCommands = 2
    MaxUpdates = 1
    SessionKeys <- MCSessionKeys
    Prefixes <- MCPrefixes
    Bases <- MCBases
    MaxLog = 2
    MaxQueries = 1
    RulesFail = TRUE
INVARIANT RevertRestores
