SPECIFICATION Spec
CONSTANTS
    t1 = t1
    t2 = t2
    Tab = {t1, t2}
    None = None
    MaxFlights = 3
    MaxKeys = 2
    MaxFaults = 1
CHECK_DEADLOCK FALSE
SYMMETRY Tabs
PROPERTY CookieGoesOnWord
PROPERTY AloneGetsIn
