SPECIFICATION DeliverySpec
CONSTANTS
    Envelopes = {1, 2}
    Subscriptions = {s1}
    Matching <- EveryEvent
    Workers = {w1, w2}
    Limit = 2
    MaxDeliveryTries = 2
    Malformed = {}
    MaxStalls = 1
    MaxFailures = 1
    MaxRedeliveries = 1
    MaxToggles = 0
INVARIANTS WebhookInv
PROPERTIES DeliveredIsFinal FirstReceiptInOrder
SYMMETRY WorkerSymmetry
CHECK_DEADLOCK FALSE
