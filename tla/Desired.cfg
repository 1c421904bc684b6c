\* One device, one editor, two keys, one of them set to null, with every failure.
SPECIFICATION FairSpec
CONSTANTS
    a1 = a1  a2 = a2
    d1 = d1  d2 = d2
    k1 = k1  k2 = k2
    v1 = v1  v2 = v2
    Null = Null
    Absent = Absent
    NoJob = NoJob
    GroupId = {default}
    DefaultGroup = default
    Version = {}
    Key = {k1, k2}
    Value = {v1}
    DeviceId = {d1}
    Admin = {a1}
    MayEdit <- Everyone
    MayDelete <- Everyone
    Patches <- KeyAndNull
    Reports <- OneKey
    MaxQueue = 3
    MaxLosses = 1
    MaxRestarts = 1
INVARIANTS TypeOK BrokerAgrees RetainedWasCommitted DeltaStandsForDesired
PROPERTIES KeyLevelOverwrite DesiredReachesBroker
