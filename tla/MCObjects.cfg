SPECIFICATION Spec
CONSTANTS
    a = a
    b = b
    Cache = {c1, c2}
    Page = {p1, p2}
    PerSlab = 2
    Null = null
    Key = {a, b}
    Size = 2
    Hash <- SmallHash
    MaxItems = 3
INVARIANTS
    SlabsExact
    BucketsExact
SYMMETRY MCSymmetry
PROPERTY ImplementsStore
CHECK_DEADLOCK FALSE
