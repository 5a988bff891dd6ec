\* see README.md, section Runs
SPECIFICATION FairSpec
CONSTANTS
    c1 = c1
    Clusters = {c1}
    Modes = {"enabled", "mcoa"}
    Lag = {}
    Faults = FALSE
    MaxChanges = 2
PROPERTIES TeardownCompletes DeployCompletes
CHECK_DEADLOCK FALSE
