SPECIFICATION FairSearchSpec
CONSTANTS
    Sessions = {s1, s2}
    MaxSessions = 1
    MaxResults = 2
    Limit = 1
    WalkTime = 1
    KeepTime = 3
INVARIANTS WalksBounded DoneIsFinal
PROPERTY SearchEnds
