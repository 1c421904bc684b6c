\* Two editors PATCH one device at once: who publishes last?
SPECIFICATION Spec
CONSTANTS
    a1 = a1  a2 = a2
    d1 = d1  d2 = d2
    k1 = k1  k2 = k2
    v1 = v1  v2 = v2
    Null = Null
    Absent = Absent
    NoJob = NoJob
    GroupId = {default}
    DefaultGroup = default
    Version = {}
    Key = {k1}
    Value = {v1, v2}
    DeviceId = {d1}
    Admin = {a1, a2}
    MayEdit <- Everyone
    MayDelete <- NoOne
    Patches <- TwoValues
    Reports <- Nothing
    MaxQueue = 2
    MaxLosses = 0
    MaxRestarts = 0
INVARIANT BrokerAgrees
