\* Two tabs of one browser, a file of two chunks, two picks.
SPECIFICATION Spec
CONSTANTS
    t1 = t1
    t2 = t2
    Tab = {t1, t2}
    Sessions = 2
    Pieces = 2
    Tries = 2
    MaxPicks = 2
    MaxStray = 1
INVARIANT PassedIsHeld
INVARIANT OneCopyPerPick
PROPERTY PicksEnd
CHECK_DEADLOCK FALSE
