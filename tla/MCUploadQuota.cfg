SPECIFICATION Spec
CONSTANTS
    u1 = u1
    x1 = x1
    x2 = x2
    p1 = p1
    s1 = s1
    s2 = s2
    w1 = w1
    w2 = w2
    User = {u1}
    File = {x1, p1}
    Service = {p1}
    Session = {s1, s2}
    Owner <- OneOwner
    Size <- OneChunk
    Quotas = {1, 2}
    Sizes = {1, 2}
    Worker = {w1, w2}
    Free = Free
    Direct = Direct
    MaxBoots = 1
    MayFail = TRUE
SYMMETRY Ids
INVARIANT UsedIsStored
PROPERTY GrowthFitsQuota
PROPERTY ClaimsFitQuota
