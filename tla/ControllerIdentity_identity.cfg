\* Two names and two identifiers: renames, failed saves, lost answers, deletions
SPECIFICATION FairSpec
CONSTANTS
    AgentIds = {i1, i2}
    AgentNames = {n1, n2}
    NoId = NoId
    NoName = NoName
    Absent = Absent
    Torn = Torn
INVARIANTS
    TypeOK
    PairConfirmed
    FileFollowsMemory
PROPERTIES
    Registers
