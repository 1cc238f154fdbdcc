SPECIFICATION Spec
CONSTANTS
    r1 = r1
    r2 = r2
    tok = tok
    box = box
    Requests = {r1, r2}
    Tokens = {tok}
    Machines = {box}
    TokenOf <- MCTokenOf
    MachineOf <- MCMachineOf
    Registries <- MCRegistries
    Sources <- MCSources
    MaxRegistryWrites = 2
    MaxSourceWrites = 1
PROPERTIES
    DecisionIsCurrent
    UpstreamIsCurrent
CHECK_DEADLOCK FALSE
SYMMETRY Symmetry
