SPECIFICATION FairSpec
CONSTANTS
    NoEvent = NoEvent
    Calls = {c1, c2, c3}
    Capacity = 2
INVARIANTS AuditIsExact
PROPERTY ShutdownEnds
