\* Two identifiers, two names: a rename and a reset, a deletion and the
\* registration after it
SPECIFICATION FairSpec
CONSTANTS
    AgentIds = {a1, a2}
    AgentNames = {n1, n2}
    NoId = NoId
    NoName = NoName
    Absent = Absent
    Torn = Torn
    HeartbeatEnabled = TRUE
INVARIANTS
    TypeOK
    IdentityBound
    FileFollowsMemory
PROPERTIES
    PredecessorKept
    ReRegisters
    StopsAfterSignal
    BecomesReady
