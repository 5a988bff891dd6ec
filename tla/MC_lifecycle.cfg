\* see README.md, section Runs
SPECIFICATION Spec
CONSTANTS
    c1 = c1
    Clusters = {c1}
    Modes = {"enabled", "disabled", "mcoa", "paused"}
    Lag = {}
    Faults = TRUE
    MaxChanges = 2
PROPERTIES SafeTeardown FinalizerHonoured
CHECK_DEADLOCK FALSE
