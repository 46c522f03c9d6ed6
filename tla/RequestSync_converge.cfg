\* One request in four states, two of them failures, one restart
SPECIFICATION RequestFairSpec
CONSTANTS
    Keys = {r1}
    Kinds <- MCKinds
    Gone = Gone
    Possible <- MCPossible
    Crashes = {x1}
INVARIANTS
    TypeOKRequests
    FailuresAlerted
PROPERTIES
    RequestsConverge
