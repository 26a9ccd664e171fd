SPECIFICATION AllActiveSpec
CONSTANTS
    Envelopes = {1, 2}
    Subscriptions = {s1}
    Matching <- Matching12
    Relays = {r1, r2}
    NoRelay = NoRelay
    Batch = 2
    MaxAttempts = 2
    MaxCrashes = 1
    MaxRedrives = 1
INVARIANTS OutboxInv
PROPERTIES FeedAppendOnly ImplementsFeed EventuallySettled
CHECK_DEADLOCK FALSE
