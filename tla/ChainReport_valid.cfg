\* A certificate that expires
SPECIFICATION Spec
CONSTANTS
    Certificates <- OneCertificate
    MaxChain = 1
    DayLength = 2
    MaxTime = 6
INVARIANTS
    ValidMeansUnexpired
