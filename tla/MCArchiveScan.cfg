SPECIFICATION Spec
CONSTANTS
    Issues = {i1}
    MergeRequests = {}
    MaxTime = 3
    MaxScans = 1
    MaxMoves = 1
INVARIANT FirstBoundaryIsCreation
