\* see README.md, section Runs
SPECIFICATION FairSpec
CONSTANTS
    Reporters = {"MetricsCollector", "UwlMetricsCollector"}
    Reports = {"UpdateSuccessful", "ForwardSuccessful", "ForwardFailed", "UpdateFailed"}
    Failures = {"reload"}
    McaLags = FALSE
    MaxReports = 2
    MaxFailures = 1
    MaxTouches = 0
    MaxOverrides = 0
    MaxRecreations = 0
PROPERTY StatusReplicated
CHECK_DEADLOCK FALSE
