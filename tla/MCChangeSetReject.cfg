SPECIFICATION ChangeSetSpec
CHECK_DEADLOCK FALSE
CONSTANTS
    NoActor = NoActor
    alice = alice
    r1 = r1
    r2 = r2
    Callers = {r1, r2}
    Actor <- ActorOf
    Schedulers = {"s1"}
    Mutations = {"m1"}
    MaxCalls = 5
    MaxFailures = 2
    MaxStalls = 0
    MaxErasures = 0
    MaxVersion = 8
INVARIANTS RejectedUntouched
