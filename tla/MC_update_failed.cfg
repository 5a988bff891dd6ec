\* see README.md, section Runs
SPECIFICATION FairSpec
CONSTANTS
    s1 = s1
    Shards = {s1}
    Capacity = 2
    ResetLevel = 1
    Attempts = 3
    CacheLags = FALSE
    Changes = {}
    Failures = {"update"}
    MaxChanges = 0
    MaxFailures = 1
    MaxFights = 0
    MaxForwards = 0
PROPERTY UpdateRecovers
CHECK_DEADLOCK FALSE
