SPECIFICATION FairSpec
CONSTANTS
    PRs = {p}
    Handles = {h1}
    Immediates = {i1}
    Enrollment = Enrollment
    None = None
    NoGeneration = NoGeneration
    NoEnrollment = NoEnrollment
    NoSeal = NoSeal
    MaxHead = 1
    MaxBase = 1
PROPERTY SupersededIsSilent
