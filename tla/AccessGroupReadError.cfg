SPECIFICATION FairSpec
CONSTANTS
    Resources = {c1}
    NoResource = NoResource
    Names = {n1, n2}
    NoName = NoName
    Members = {m1, m2}
    n1 = n1
    n2 = n2
    m1 = m1
    m2 = m2
    Ids = {1, 2, 3, 4, 5}
    SpecType <- GroupSpec
    DefType <- Group
    NoSpec <- McNoSpec
    NoDef <- McNoDef
    Specs <- McWellFormed
    Foreign = {FALSE}
    Faults = {"read"}
    MaxCreations = 1
    MaxChanges = 0
    MaxFaults = 1
PROPERTIES
    EventuallyEnforced
CHECK_DEADLOCK FALSE
