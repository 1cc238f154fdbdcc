SPECIFICATION Spec
CONSTANTS
    r1 = r1
    r2 = r2
    p = p
    q = q
    a = a
    b = b
    u1 = u1
    u2 = u2
    Runs = {r1, r2}
    Projects = {p, q}
    Machines = {a, b}
    Urls = {u1, u2}
    Manifests <- MCManifests
    MaxTokens = 4
    MaxManifestEdits = 1
    MaxOwnerActs = 0
INVARIANTS
    AllowListsExact
CHECK_DEADLOCK FALSE
