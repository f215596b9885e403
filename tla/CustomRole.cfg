SPECIFICATION FairSpec
CONSTANTS
    Resources = {c1}
    NoResource = NoResource
    RoleNames = {n1, n2}
    NoName = NoName
    Contents = {x1, x2}
    NoContent = NoContent
    n1 = n1
    n2 = n2
    x1 = x1
    x2 = x2
    Ids = {1, 2, 3, 4, 5}
    SpecType <- RoleSpec
    DefType <- RoleSpec
    NoSpec <- McNoSpec
    NoDef <- McNoSpec
    Specs <- McWellFormed
    Foreign = {FALSE}
    Faults = {"api", "apiLost", "find", "create", "update", "delete"}
    MaxCreations = 2
    MaxChanges = 2
    MaxFaults = 1
INVARIANTS
    Custody
    Ownership
    RecordsTheRolesName
PROPERTIES
    ImplementsManagedEntity
    KeepsUsersEdits
    EventuallyEnforced
CHECK_DEADLOCK FALSE
