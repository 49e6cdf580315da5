SPECIFICATION Spec
CONSTANTS
    Clients = {ann, bob}
    Sites = {vn, rdc}
    None = None
    FirstVersion = 1
    MaxEdits = 4
    MaxVersion = 4
    ann = ann
    bob = bob
    vn = vn
    rdc = rdc
SYMMETRY Symmetry
INVARIANT TypeOK
PROPERTIES SeenBeforeReplaced UntouchedKept
CHECK_DEADLOCK FALSE
