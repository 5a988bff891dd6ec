\* see README.md, section Runs
SPECIFICATION FairSpec
CONSTANTS
    s1 = s1
    Shards = {s1}
    Capacity = 2
    ResetLevel = 1
    Attempts = 3
    CacheLags = FALSE
    Changes = {"enable", "config"}
    Failures = {"operator", "update"}
    MaxChanges = 1
    MaxFailures = 1
    MaxFights = 2
    MaxForwards = 1
PROPERTIES LoopRecovers DisabledShown
CHECK_DEADLOCK FALSE
