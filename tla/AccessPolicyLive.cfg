SPECIFICATION FairSpec
CONSTANTS
    Resources = {c1}
    NoResource = NoResource
    Users = {u1}
    Identities = {s1}
    TheGroup = TheGroup
    GroupIds = {1, 2, 3}
    NoGroup = NoGroup
    RoleNames = {viewer, editor}
    RoleRefs = {cr1}
    NoRole = NoRole
    RoleIds = {r1, r2}
    Targets = {t1}
    u1 = u1
    s1 = s1
    viewer = viewer
    editor = editor
    cr1 = cr1
    r1 = r1
    r2 = r2
    t1 = t1
    RoleNamed <- McRoleNamed
    NameIn <- McNameIn
    Ids = {1, 2, 3, 4, 5}
    Subjects <- McSubjects
    SpecType <- PolicySpec
    DefType <- Policy
    NoSpec <- McNoSpec
    NoDef <- McNoDef
    Specs <- McSpecs
    Foreign = {FALSE}
    Faults = {"api", "apiLost", "resolve", "create", "update", "delete"}
    MaxCreations = 1
    MaxChanges = 1
    MaxFaults = 1
INVARIANTS
    Custody
PROPERTIES
    DeletionCompletes
    EventuallyEnforced
    EventuallyFailed
CHECK_DEADLOCK FALSE
