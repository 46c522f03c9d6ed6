\* The series of a deleted certificate
SPECIFICATION Spec
CONSTANTS
    c1 = c1
    c2 = c2
    issued = issued
    waiting = waiting
    i1 = i1
    i2 = i2
    d1 = d1
    Keys = {c1, c2}
    Kinds <- MCKinds
    Possible <- MCPossible
    Issuer <- MCIssuer
    NotAfter <- MCNotAfter
    Gone = Gone
    NoIssuer = NoIssuer
    NoDate = NoDate
    Crashes = {}
INVARIANTS
    NoSeriesOfDeleted
