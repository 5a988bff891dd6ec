\* see README.md, section Runs
SPECIFICATION Spec
CONSTANTS
    s1 = s1
    Shards = {s1}
    Capacity = 2
    ResetLevel = 1
    Attempts = 2
    CacheLags = TRUE
    Changes = {"uwl", "prom"}
    Failures = {"report", "worker", "update"}
    MaxChanges = 1
    MaxFailures = 1
    MaxFights = 0
    MaxForwards = 4
PROPERTIES StrictTransitions FailedAfterThree
CHECK_DEADLOCK FALSE
