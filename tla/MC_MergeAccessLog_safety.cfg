CONSTANTS
    r1 = r1
    r2 = r2
    r3 = r3
    a1 = a1
    a2 = a2
    Requests <- MCRequests
    Apis <- MCApis
    MaxQueries = 2
SPECIFICATION Spec
SYMMETRY MCSymmetry
INVARIANTS
    NoLostIncrement
