SPECIFICATION FairChangeSetSpec
CHECK_DEADLOCK FALSE
CONSTANTS
    NoActor = NoActor
    alice = alice
    r1 = r1
    r2 = r2
    Callers = {r1, r2}
    Actor <- ActorOf
    Schedulers = {"s1"}
    Mutations = {"m1", "m2"}
    MaxCalls = 4
    MaxFailures = 1
    MaxStalls = 0
    MaxErasures = 1
    MaxVersion = 7
INVARIANTS ChangeSetInv
PROPERTIES ClaimResolves 
