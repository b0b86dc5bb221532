CONSTANTS
    Callers = {c1, c2}
    Keys = {vix, gc}
    FailThreshold = 2
    Cooldown = 2
    MaxFailures = 3
SPECIFICATION FairHistSpec
INVARIANTS TypeOK OpenIffThreshold BoundedBurst CooldownFromLastFailure
PROPERTY Recovery
