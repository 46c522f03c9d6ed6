\* Chains of one or two of four certificates, half days
SPECIFICATION Spec
CONSTANTS
    Certificates <- SmallCertificates
    MaxChain = 2
    DayLength = 2
    MaxTime = 6
INVARIANTS
    TypeOK
    ChainValidExact
    IssuesExact
