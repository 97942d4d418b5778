CONSTANTS
    q1 = q1
    s1 = s1
    s2 = s2
    m1 = m1
    m2 = m2
    Queries <- OneQuery
    Starts <- TwoStarts
    Modes <- TwoModes
    MaxOpens = 1
SYMMETRY Same
SPECIFICATION Spec
\* every call comes to an end
CHECK_DEADLOCK FALSE
INVARIANTS OpensWhatWorks FoundRight
