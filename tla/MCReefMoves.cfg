SPECIFICATION Spec
CONSTANTS
    b1 = b1
    b2 = b2
    r1 = r1
    r2 = r2
    None = None
    Beads = {b1, b2}
    Rigs = {r1, r2}
    Sessions = {"polecat"}
    RigOf <- HomeRig
    P0 = {b2}
    Needs <- NoNeeds
    RenderCap = 0
    Window = 1
    MaxChanges = 0
    MaxLost = 1
INVARIANT NothingIsInvented
