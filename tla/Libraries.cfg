SPECIFICATION Spec
CONSTANTS
    Chunks <- MCChunks
    Prefix <- MCPrefix
    RingMax = 3
    Limits = {1, 2, 5}
    MaxTotal = 7
    Keys = {k1, k2}
    Cost = 2
    Burst = 4
    Cutoff = 4
    MaxBuckets = 1
    MaxTime = 7
    Writers = {w1, w2}
    Messages <- MCMessages
    Decodes <- MCDecodes
    Masks <- MCMasks
    Echoes <- MCEchoes
    Splits = {0, 4}
    Len7 = 6
    Len16 = 16
    W16 = 1
    W64 = 2
    MaxLen = 16
    MaxWrites = 2
    Root <- MCRoot
    Requests <- MCRequests
    Places <- MCPlaces
    Targets <- MCTargets
    MaxEntries = 3
    MaxDepth = 3
    MaxWalk = 12
    Second = 2
    Ttls = {1, 3}
    Skews <- MCSkews
    Leeway = 1
    Asked <- MCAsked
    LastTick = 5
    MaxMinted = 1
SYMMETRY MCSymmetry
INVARIANTS FollowerIsExact ExactLimit ReadsWhatWasWritten RefusesOnlyBroken MadeIsFound AnswersAreDue FreshTokenWorks
PROPERTIES GrowthIsRecent ToolsStayInside
\* The packages wait for their callers, and each instance is used up.
CHECK_DEADLOCK FALSE
