SPECIFICATION FairSpec
CONSTANTS
    u1 = u1
    x1 = x1
    x2 = x2
    p1 = p1
    s1 = s1
    s2 = s2
    w1 = w1
    w2 = w2
    User = {u1}
    File = {x1, x2}
    Service = {}
    Session = {s1}
    Owner <- OneOwner
    Size <- TwoChunks
    Quotas = {1, 4}
    Sizes = {}
    Worker = {w1, w2}
    Free = Free
    Direct = Direct
    MaxBoots = 1
    MayFail = FALSE
INVARIANT OneFilePerSession
PROPERTY AbortIsFinal
PROPERTY ActiveKeepsChunks
PROPERTY RequestsEnd
PROPERTY BootReleasesExpired
