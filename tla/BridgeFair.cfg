\* Two reports, retained, an outage or restart, contention: what was said is shown in the end.
SPECIFICATION FairSpec
CONSTANTS
    d1 = d1  d2 = d2
    k1 = k1
    w1 = w1  w2 = w2
    fw1 = fw1  fw2 = fw2
    Null = Null
    Absent = Absent
    NoCall = NoCall
    GroupId = {default}
    DefaultGroup = default
    Key = {k1}
    Value = {w1, w2}
    DeviceId = {d1}
    Version = {fw1}
    Reports <- TwoReports
    Chatter = {"telemetry", "logs", "dropped"}
    Retains = {d1}
    Resends = FALSE
    Contention = TRUE
    MaxInbox = 2
    MaxOutages = 1
    MaxDeploys = 1
PROPERTIES ReportShownInTheEnd WillShownInTheEnd
