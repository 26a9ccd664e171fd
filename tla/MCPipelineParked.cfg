SPECIFICATION PipelineSpec
CONSTANTS
    Envelopes = {1}
    Subscriptions = {s1}
    Matching <- EveryEvent
    Relays = {r1, r2}
    NoRelay = NoRelay
    Batch = 1
    MaxAttempts = 1
    MaxCrashes = 0
    MaxRedrives = 0
    Workers = {w1}
    Limit = 1
    MaxDeliveryTries = 1
    Malformed = {}
    MaxStalls = 0
    MaxFailures = 0
    MaxRedeliveries = 0
    MaxToggles = 0
    Replicas = {}
    PageSize = 1
    MaxSweeps = 1
PROPERTY QueuedNeverPruned
CHECK_DEADLOCK FALSE
