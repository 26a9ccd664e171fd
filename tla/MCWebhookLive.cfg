SPECIFICATION FairDeliverySpec
CONSTANTS
    Envelopes = {1}
    Subscriptions = {s1, s2}
    Matching <- EveryEvent
    Workers = {w1, w2}
    Limit = 2
    MaxDeliveryTries = 2
    Malformed = {s2}
    MaxStalls = 1
    MaxFailures = 1
    MaxRedeliveries = 0
    MaxToggles = 1
PROPERTIES EventuallyDelivered
CHECK_DEADLOCK FALSE
