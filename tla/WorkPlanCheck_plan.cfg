SPECIFICATION FairSpec
CONSTANTS
    Items = {w1, w2, w3, w4}
INVARIANTS
    SearchInvariant
    VerdictIsRight
PROPERTIES
    SearchEnds
    SearchAdvances
\* A search that has returned takes no step.
CHECK_DEADLOCK FALSE
