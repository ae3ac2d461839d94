\* One tab, two members, one writer, two writes, a buffer of one.
SPECIFICATION Spec
CONSTANTS
    u = u
    a = a
    t1 = t1
    w1 = w1
    User = {u, a}
    Admin = {a}
    Tab = {t1}
    Owner <- OwnerOfTab
    Writer = {w1}
    Page = {"library", "secret"}
    Kinds = {"library", "trash"}
    Capacity = 1
    MaxWrites = 2
    MaxFlights = 2
PROPERTY NewsIsLostOnlyThere
PROPERTY RevokedTabsLeave
CHECK_DEADLOCK FALSE
