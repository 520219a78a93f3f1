SPECIFICATION Spec
CONSTANTS
    Shapes <- MCShapes
INVARIANT AncestorsExact
INVARIANT LocationFound
INVARIANT BraidDeterministic
INVARIANT SkipsSafe
