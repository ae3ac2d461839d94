SPECIFICATION SharesSpec
CONSTANTS
    f1 = f1
    f2 = f2
    x1 = x1
    u1 = u1
    u2 = u2
    r1 = r1
    Folder = {f1, f2}
    File = {x1}
    User = {u1, u2}
    Owner <- OneOwner
    Root = Root
    Reader = {r1}
    Free = Free
    Offer <- Offers
CHECK_DEADLOCK FALSE
SYMMETRY Folders
INVARIANT ClimbIsBounded
PROPERTY AnswersAreOfOneMoment
PROPERTY YesNeedsAGrant
