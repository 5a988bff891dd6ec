\* see README.md, section Runs
SPECIFICATION Spec
CONSTANTS
    c1 = c1
    Clusters = {c1}
    Modes = {"enabled"}
    Lag = {}
    Faults = FALSE
    MaxChanges = 3
INVARIANT NoResidue
CHECK_DEADLOCK FALSE
