\* Violation run: getTopK against the k nearest.
CONSTANTS
    Distances = {0, 1, 2, 3, 4, 5}
    K = 3
    MaxLen = 5
SPECIFICATION Spec
INVARIANT TopKIsNearest
