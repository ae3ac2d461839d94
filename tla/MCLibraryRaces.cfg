SPECIFICATION Spec
CONSTANTS
    w1 = w1
    w2 = w2
    f1 = f1
    f2 = f2
    f3 = f3
    x1 = x1
    x2 = x2
    u1 = u1
    u2 = u2
    Folder = {f1, f2}
    File = {x2}
    User = {u1}
    Owner <- OneOwner
    External <- Handles
    Null = Null
    h = h
    Root = Root
    a = a
    Label = {a}
    Wanted <- OneName
    Worker = {w1, w2}
    MaxPostfix = 3
    MaxClock = 2
SYMMETRY Ids
INVARIANT NoLiveUnderTrash
PROPERTY TrashKeepsItsMoment
PROPERTY PurgeTakesOldTrash
PROPERTY LibraryIsATree
PROPERTY RestoreIsExact
