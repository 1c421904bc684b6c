\* The page may be left alone for good: no deadlock check.
SPECIFICATION FairSpec
CONSTANTS
    d1 = d1  d2 = d2  g1 = g1
    NoDevice = NoDevice
    NoJob = NoJob
    Slot = {s1, s2}
    Device = {d1, d2}
    Group = {g1}
    Stock = 1
    Refusals <- Credentials
    MaxActs = 3
    MaxSignIns = 2
    MaxFaults = 1
    MaxPct = 1
INVARIANTS OtaTypeOK UploadedIsWhole DeploymentsAddUp
PROPERTIES SettlesOnTracked SignedOutForAReason
CHECK_DEADLOCK FALSE
