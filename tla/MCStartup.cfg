\* A row of a counted table and a service key, one release, two faults, one edit.
SPECIFICATION StartupSpec
CONSTANTS
    r1 = r1
    k1 = k1
    None = None
    Row = {r1, k1}
    Table = {"file", "service_key"}
    Counted = {"file"}
    TableOf <- TablesOfRows
    MaxDeploys = 1
    MaxFaults = 2
    Written <- Texts
    MaxEdits = 1
INVARIANT ServedIsWhole
INVARIANT OriginalIsKept
INVARIANT FileSaysWhatRuns
INVARIANT SealedOpens
