\* Two targets for one token, a renewal, a failure and a cancellation at any time
SPECIFICATION ReportFairSpec
CONSTANTS
    Targets <- MCTargets
    c1 = c1
    c2 = c2
    Servable <- MCServable
    Certificates = {c1, c2}
    Concurrency = 1
INVARIANTS
    ReportTypeOK
    ConnectionsBounded
    NoLateWrites
    NothingCanceledReported
PROPERTIES
    MetricsFirst
    ReportsConverge
    IsScanner
