SPECIFICATION Spec
CONSTANTS
    MaxVersion = 2
    MaxQueued = 1
    MaxFaults = 0
INVARIANT UnseenIsShown
