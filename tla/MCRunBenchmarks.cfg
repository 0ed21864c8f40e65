SPECIFICATION ScriptSpec
CONSTANTS
    MaxRuns = 3
INVARIANTS
    NoServerLeft
    MeasuresItsServer
    SummaryIsCurrent
CHECK_DEADLOCK FALSE
