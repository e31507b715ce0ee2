SPECIFICATION FairSpec
CONSTANTS
    Nobody = Nobody
    Procs = {p1, p2}
    Ops = {o1, o2}
    MaxProcs = 1
    PipeCap = 1
    MaxOut = 2
INVARIANTS ChildrenBounded ExitMeansAllOutput
PROPERTIES SessionEnds CallsReturn
