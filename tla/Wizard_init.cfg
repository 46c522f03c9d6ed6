\* Two hosts, at most two certificates; three can be entered
SPECIFICATION Spec
CONSTANTS
    Hosts = {h1, h2}
    MaxCertificates = 2
    NoHost = NoHost
    Absent = Absent
    Foreign = Foreign
    Odd = Odd
    Unset = Unset
    NaN = NaN
INVARIANTS
    TypeOK
    SuccessMeansAccepted
    FormsSuffice
    AcceptedIsChosen
PROPERTIES
    ChangedAfterConsent
