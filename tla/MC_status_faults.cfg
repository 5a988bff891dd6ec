\* see README.md, section Runs
SPECIFICATION Spec
CONSTANTS
    Reporters = {"MetricsCollector", "UwlMetricsCollector"}
    Reports = {"ForwardSuccessful", "ForwardFailed", "UpdateFailed"}
    Failures = {"spoke", "hub", "spokeTerminal", "hubTerminal", "reload", "restart", "placement", "creation"}
    McaLags = TRUE
    MaxReports = 2
    MaxFailures = 1
    MaxTouches = 1
    MaxOverrides = 0
    MaxRecreations = 1
INVARIANT OneStandardConditionTrue
CHECK_DEADLOCK FALSE
