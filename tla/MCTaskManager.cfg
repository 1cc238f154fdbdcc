SPECIFICATION Spec
CONSTANTS
    c1 = c1
    c2 = c2
    c3 = c3
    Desktop = Desktop
    Shell = Shell
    Calls = {c1, c2, c3}
    Categories = {Desktop, Shell}
    CategoryOf <- MCCategoryOf
    Limit <- MCLimit
    StaleAfter = 1
    RuntimeOf <- MCRuntimeOf
    MaxHistory = 1
    MaxTime = 3
INVARIANTS
    SlotsConserved
    RepliesAgree
    LiveTasksFindable
PROPERTIES
    KeepsPromise
CHECK_DEADLOCK FALSE
