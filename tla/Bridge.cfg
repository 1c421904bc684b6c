\* One device, two versions, two reports that are not retained, an outage or restart,
\* contention, two deployments, reports on an update that are sent again.
SPECIFICATION Spec
CONSTANTS
    d1 = d1  d2 = d2
    k1 = k1
    w1 = w1  w2 = w2
    fw1 = fw1  fw2 = fw2
    Null = Null
    Absent = Absent
    NoCall = NoCall
    GroupId = {default}
    DefaultGroup = default
    Key = {k1}
    Value = {w1, w2}
    DeviceId = {d1}
    Version = {fw1, fw2}
    Reports <- TwoReports
    Chatter = {}
    Retains = {}
    Resends = TRUE
    Contention = TRUE
    MaxInbox = 2
    MaxOutages = 1
    MaxDeploys = 2
INVARIANTS TypeOK TablesShowLastWord VerdictIsTheDevices
