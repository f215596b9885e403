SPECIFICATION Spec
CONSTANTS
    Namespace = ns
    Default = default
    Missing = Missing
    Keys = {k1, k2}
    Orgs = {o1, o2}
    safe = safe
    k1 = k1
    k2 = k2
    o1 = o1
    o2 = o2
    Managements <- McManagements
    Sees <- McSees
    Faults = {"install"}
    MaxChanges = 0
INVARIANTS
    ContextWasInEffect
