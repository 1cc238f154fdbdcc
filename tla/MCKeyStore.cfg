SPECIFICATION Spec
CONSTANTS
    r1 = r1
    r2 = r2
    u1 = u1
    u2 = u2
    k1 = k1
    k2 = k2
    k3 = k3
    Runs = {r1, r2}
    Urls = {u1, u2}
    Keys = {k1, k2, k3}
    MaxCommands = 2
    MaxCopies = 2
    MaxRotations = 1
SYMMETRY Symmetry
INVARIANTS
PROPERTIES
    AutomaticStoresProven
    RecipeKept
CHECK_DEADLOCK FALSE
