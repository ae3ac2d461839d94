SPECIFICATION Spec
CONSTANTS
    w1 = w1
    w2 = w2
    x1 = x1
    x2 = x2
    s1 = s1
    File = {x1, x2}
    Pictures = {x1}
    Pushed = {x2}
    Session = {s1}
    Worker = {w1, w2}
    Free = Free
    Deployments <- TreeAndBucket
    Resolution = 2
    MaxClock = 2
    MaxBoots = 1
SYMMETRY Requests
INVARIANT KnownIsKept
PROPERTY ActiveIsSpared
PROPERTY NewerIsKept
PROPERTY SweepIsThorough
PROPERTY KeepsPromise
