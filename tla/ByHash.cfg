CONSTANTS
    Index = {i1}
    Digest = {d1, d2, d3, d4}
    Retention = 2
    MaxTime = 8
    None = None
SPECIFICATION Spec
SYMMETRY Symmetry
INVARIANTS Fetchable TwoPreviousKept Collected
