\* Two threads, two ids, a group besides the default one, one restart.
SPECIFICATION Spec
CONSTANTS
    Key = {k1}
    Value = {v1}
    Null = Null
    Absent = Absent
    DeviceId = {d1, d2}
    GroupId = {default, g1}
    DefaultGroup = default
    Version = {}
    Worker = {w1, w2}
    NoJob = NoJob
    MaxRestarts = 1
SYMMETRY WorkerSymmetry
INVARIANTS TypeOK Integrity AnswersBalance ShownWhole
PROPERTY NoMemberLeftBehind
