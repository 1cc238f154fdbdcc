SPECIFICATION MarkSpec
CONSTANTS
    system = system
    good = good
    bad = bad
    Sources = {system, good, bad}
    SystemSource = system
    VersionOf <- MCVersionOf
    Good = {system, good}
    Keys = {"a", "b"}
    MaxRuns = 2
    MaxKills = 1
    MaxCrashes = 0
PROPERTIES
    NeverTakenAsUnchanged
CHECK_DEADLOCK FALSE
