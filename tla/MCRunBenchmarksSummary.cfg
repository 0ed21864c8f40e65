SPECIFICATION ScriptSpec
CONSTANTS
    MaxRuns = 1
INVARIANT
    MetricsFilled
CHECK_DEADLOCK FALSE
