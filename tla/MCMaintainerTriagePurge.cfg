SPECIFICATION Spec
CONSTANTS
    Missing = Missing
    Torn = Torn
    Unread = Unread
    Items = {i1}
    Pages = {p1}
    TmpNames = {n1}
    MaxOps = 1
PROPERTY PurgeIsHygiene
