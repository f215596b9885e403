SPECIFICATION FairSpec
CONSTANTS
    Resources = {c1}
    NoResource = NoResource
    Classes = {kms, cos}
    Services = {svc}
    Groups = {grp}
    Parts = {part}
    None = None
    kms = kms
    cos = cos
    svc = svc
    grp = grp
    part = part
    reader = reader
    writer = writer
    RoleIds = {reader, writer}
    Offered <- McOffered
    Ids = {1, 2, 3, 4, 5}
    Subjects <- Info
    Targets <- Info
    SpecType <- AuthorizationSpec
    DefType <- Policy
    NoSpec <- McNoSpec
    NoDef <- McNoDef
    Specs <- McSpecs
    Foreign = {FALSE}
    Faults = {}
    MaxCreations = 1
    MaxChanges = 1
    MaxFaults = 0
PROPERTIES
    DesiredStateEnforced
CHECK_DEADLOCK FALSE
