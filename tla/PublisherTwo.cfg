\* Two threads, so at most two clients, and one device; no failure is needed.
SPECIFICATION Spec
CONSTANTS
    Worker = {w1, w2}
    DeviceId = {d1}
    NoClient = NoClient
    NoJob = NoJob
    MaxRequests = 3
    MaxFaults = 0
INVARIANT NewestRetained
