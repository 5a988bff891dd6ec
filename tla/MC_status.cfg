\* see README.md, section Runs
SPECIFICATION FairSpec
CONSTANTS
    Reporters = {"MetricsCollector", "UwlMetricsCollector"}
    Reports = {"UpdateSuccessful", "ForwardSuccessful", "ForwardFailed"}
    Failures = {"hub", "placement"}
    McaLags = FALSE
    MaxReports = 2
    MaxFailures = 1
    MaxTouches = 1
    MaxOverrides = 1
    MaxRecreations = 0
INVARIANTS WorstComponentShown OneReplicatedConditionTrue
PROPERTY StatusReplicated
CHECK_DEADLOCK FALSE
