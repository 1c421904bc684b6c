\* One device, whose reports are not retained, and its editor; connections lost on every
\* side, a restart.
SPECIFICATION LoopFairSpec
CONSTANTS
    a1 = a1
    d1 = d1
    k1 = k1  k2 = k2
    v1 = v1  v2 = v2
    Null = Null
    Absent = Absent
    NoJob = NoJob
    GroupId = {default}
    DefaultGroup = default
    Version = {}
    Key = {k1}
    Value = {v1, v2}
    DeviceId = {d1}
    Admin = {a1}
    MayEdit <- Everyone
    MayDelete <- Everyone
    Patches <- TwoValues
    Reports <- OwnAccord
    Retains = {}
    MaxQueue = 1
    MaxLosses = 1
    MaxRestarts = 1
    MaxWire = 1
    MaxInbox = 2
    MaxDrops = 1
INVARIANT LoopTypeOK
PROPERTIES KeepsContract DriftEnds
