\* Two failure events, a drain and a restart; the promise of EventDelivery, liveness
\* included
SPECIFICATION FairSpec
CONSTANTS
    Events = {e1, e2}
    Failures = {e1, e2}
    Drains = {d1}
    Crashes = {c1}
    NoEvent = NoEvent
INVARIANTS
    TypeOK
    DebounceExact
    NoLostWakeup
    NothingDroppedUntried
PROPERTIES
    Promise
