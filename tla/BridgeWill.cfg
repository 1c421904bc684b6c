\* An outage of the bridge swallows the last will.
SPECIFICATION Spec
CONSTANTS
    d1 = d1  d2 = d2
    k1 = k1
    w1 = w1  w2 = w2
    fw1 = fw1  fw2 = fw2
    Null = Null
    Absent = Absent
    NoCall = NoCall
    GroupId = {default}
    DefaultGroup = default
    Key = {k1}
    Value = {w1, w2}
    DeviceId = {d1}
    Version = {fw1}
    Reports <- TwoReports
    Chatter = {}
    Retains = {}
    Resends = FALSE
    Contention = FALSE
    MaxInbox = 2
    MaxOutages = 1
    MaxDeploys = 1
INVARIANT WillMarksOffline
