SPECIFICATION Spec
CONSTANTS
    Conns = {c1, c2}
    Ids = {i1, i2}
    Keys = {k1}
    Names = {"admin", "bob"}
    IndexNames = {x1, x2}
    MaxConnections = 2
    MaxCommands = 4
    MaxTime = 1
    MaxRestarts = 1
    None = None
INVARIANTS NoGuest CountsExact DefinitionsKept StuckOnlyInCircle
CHECK_DEADLOCK FALSE
SYMMETRY Symmetry
