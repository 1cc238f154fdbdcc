SPECIFICATION MarkSpec
CONSTANTS
    system = system
    good = good
    bad = bad
    Sources = {system, good, bad}
    SystemSource = system
    VersionOf <- MCVersionOf
    Good = {system, good}
    Keys = {"a", "b"}
    MaxRuns = 3
    MaxKills = 1
    MaxCrashes = 1
INVARIANTS
    LinkNeverDangles
    EndsProvenOrStopped
    StagedStaysPending
PROPERTIES
    RollbackExact
CHECK_DEADLOCK FALSE
