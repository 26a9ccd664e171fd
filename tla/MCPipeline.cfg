SPECIFICATION PipelineSpec
CONSTANTS
    Envelopes = {1, 2}
    Subscriptions = {s1}
    Matching <- FirstEvent
    Relays = {r1}
    NoRelay = NoRelay
    Batch = 1
    MaxAttempts = 1
    MaxCrashes = 1
    MaxRedrives = 0
    Workers = {w1}
    Limit = 1
    MaxDeliveryTries = 1
    Malformed = {}
    MaxStalls = 0
    MaxFailures = 0
    MaxRedeliveries = 0
    MaxToggles = 1
    Replicas = {c1, c2}
    PageSize = 1
    MaxSweeps = 1
INVARIANTS PipelineInv
PROPERTIES ConsumerExact 
SYMMETRY ReplicaSymmetry
CHECK_DEADLOCK FALSE
