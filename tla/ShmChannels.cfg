SPECIFICATION Spec
CONSTANTS
    c1 = c1
    c2 = c2
    c3 = c3
    r1 = r1
    Ids <- MCIds
    Readers <- MCOneReader
    Cap = 2
    MaxOps = 3
    MaxSeals = 1
    GenModulus = 8
SYMMETRY MCIdSymmetry
INVARIANT SidesAgree
INVARIANT RegularReads
INVARIANT CacheSound
