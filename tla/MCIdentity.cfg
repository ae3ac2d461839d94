\* Two people, two requests, and one change at im or one fault.
SPECIFICATION Spec
CONSTANTS
    s1 = s1
    s2 = s2
    f = f
    g = g
    Sub = {s1, s2}
    Words <- MCWords
    Limits = {1, 2}
    House = 1
    None = None
    MaxVisits = 2
    MaxUpsets = 1
INVARIANT OneBootstrapAdmin
PROPERTY RowsFollowTheDirectory
PROPERTY CeilingFollowsFamily
