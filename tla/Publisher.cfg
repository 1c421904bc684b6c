\* Two threads, so at most two clients, and one device; a lost connection or a restart.
SPECIFICATION FairSpec
CONSTANTS
    Worker = {w1, w2}
    DeviceId = {d1}
    NoClient = NoClient
    NoJob = NoJob
    MaxRequests = 3
    MaxFaults = 1
INVARIANTS TypeOK CommandsRunOnce
PROPERTIES OneClientInTheEnd CommandArrives
