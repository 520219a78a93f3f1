SPECIFICATION Spec
CONSTANTS
    c1 = c1
    c2 = c2
    c3 = c3
    r1 = r1
    Ids <- MCTwoIds
    Readers <- MCOneReader
    Cap = 2
    MaxOps = 4
    MaxSeals = 6
    GenModulus = 8
SYMMETRY MCTwoIdSymmetry
INVARIANT SetSeqGrows
