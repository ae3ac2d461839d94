SPECIFICATION LinksSpec
CONSTANTS
    f1 = f1
    f2 = f2
    x1 = x1
    u1 = u1
    l1 = l1
    l2 = l2
    d1 = d1
    v1 = v1
    Folder = {f1, f2}
    File = {x1}
    User = {u1}
    Owner <- OneOwner
    Root = Root
    Link = {l1, l2}
    Deed = {d1}
    Visitor = {v1}
    Offer <- Offers
    Wants = {"card", "download"}
CHECK_DEADLOCK FALSE
SYMMETRY Links2
PROPERTY VisitsAreOfOneMoment
PROPERTY ToldMeansClosed
