\* Two threads, two failures allowed in a window of ages 0 and 1, four remembered.
SPECIFICATION FairSpec
CONSTANTS
    Worker = {w1, w2}
    NoJob = NoJob
    MaxFailures = 2
    Window = 1
    MaxLate = 1
    Failure = {f1, f2, f3, f4}
INVARIANTS TypeOK NoFalseLockout CountedUnlessOverlapped RateLimited
PROPERTY LockoutEnds
