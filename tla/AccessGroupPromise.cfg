SPECIFICATION FairSpec
CONSTANTS
    Resources = {c1}
    NoResource = NoResource
    Names = {n1, n2}
    NoName = NoName
    Members = {m1, m2}
    n1 = n1
    n2 = n2
    m1 = m1
    m2 = m2
    Ids = {1, 2, 3, 4, 5}
    SpecType <- GroupSpec
    DefType <- Group
    NoSpec <- McNoSpec
    NoDef <- McNoDef
    Specs <- McWellFormed
    Foreign = {FALSE}
    Faults = {"api", "apiLost", "lookup", "find", "create", "update", "resolve", "member", "delete"}
    MaxCreations = 2
    MaxChanges = 2
    MaxFaults = 1
INVARIANTS
    Custody
    EntitiesHaveTheirResource
    OneEntityPerResource
PROPERTIES
    ImplementsManagedEntity
    EventuallyEnforced
    DeletionCompletes
CHECK_DEADLOCK FALSE
