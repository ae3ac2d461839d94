SPECIFICATION Spec
CONSTANTS
    w1 = w1
    w2 = w2
    f1 = f1
    f2 = f2
    f3 = f3
    x1 = x1
    x2 = x2
    u1 = u1
    u2 = u2
    Folder = {f1, f2, f3}
    File = {x1, x2}
    User = {u1, u2}
    Owner <- TwoOwners
    External <- Handles
    Null = Null
    h = h
    Root = Root
    a = a
    Label = {a}
    Wanted <- OneName
    Worker = {w1}
    MaxPostfix = 3
    MaxClock = 1
SYMMETRY Ids
INVARIANT SiblingNamesDiffer
INVARIANT TreeOfOneOwner
INVARIANT NoCycle
