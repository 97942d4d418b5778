CONSTANTS
    RecordSize = 3
    MaxReports = 2
    MaxRecords = 3
SPECIFICATION FairSpec
\* the session stops
CHECK_DEADLOCK FALSE
INVARIANTS WindowHoldsTwo CyclesKept EvaluationFresh
PROPERTY ThreadsEnd
