SPECIFICATION Spec
CONSTANTS
    Names = {a, b}
    Ops = {o1, o2, o3}
    Absent = Absent
    Torn = Torn
SYMMETRY CallSymmetry
INVARIANTS
    AllOrNothing
    LostOnlyToOverlap
    ReplacesOnlyNew
