\* Two certificates in two states, one restart
SPECIFICATION FairSpec
CONSTANTS
    c1 = c1
    c2 = c2
    issued = issued
    waiting = waiting
    i1 = i1
    i2 = i2
    d1 = d1
    Keys = {c1, c2}
    Kinds <- MCKinds
    Possible <- MCPossible
    Issuer <- MCIssuer
    NotAfter <- MCNotAfter
    Gone = Gone
    NoIssuer = NoIssuer
    NoDate = NoDate
    Crashes = {x1}
INVARIANTS
    AllTypeOK
    CacheCurrent
    SeriesCurrent
PROPERTIES
    CertificatesConverge
