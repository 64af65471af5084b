SPECIFICATION FairSpec
CONSTANTS
    Items = {w1, w2}
    Criteria = {k1}
    Codes = {g1, g2}
    Definitions = {d1}
    NoExecutable = NoExecutable
    CheckIds = {c1}
    Environments = {e1}
    MaxBuilds = 3
    MaxReleases = 2
INVARIANTS
    LegacyInvariant
    StageOffersItsWork
    OfferedIsAccepted
PROPERTIES
    WorkGetsDone
\* A live run accepts no command.
CHECK_DEADLOCK FALSE
