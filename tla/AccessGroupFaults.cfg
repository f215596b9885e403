SPECIFICATION Spec
CONSTANTS
    Resources = {c1}
    NoResource = NoResource
    Names = {n1, n2}
    NoName = NoName
    Members = {m1, m2}
    n1 = n1
    n2 = n2
    m1 = m1
    m2 = m2
    Ids = {1, 2, 3, 4, 5}
    SpecType <- GroupSpec
    DefType <- Group
    NoSpec <- McNoSpec
    NoDef <- McNoDef
    Specs <- McAllSpecs
    Foreign = {TRUE, FALSE}
    Faults = {"read", "api", "apiLost", "account", "lookup", "find", "create", "createLost", "update", "resolve", "panic", "member", "delete", "undo", "crash"}
    MaxCreations = 2
    MaxChanges = 2
    MaxFaults = 1
INVARIANTS
    TypeOK
    Ownership
    Incarnations
PROPERTIES
    TouchesOnlyOwnEntities
    KeepsRecordedEntities
CHECK_DEADLOCK FALSE
