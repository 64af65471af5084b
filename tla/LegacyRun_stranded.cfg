\* Expected to be violated: see the finding on BugsOfferFix.
SPECIFICATION Spec
CONSTANTS
    Items = {w1}
    Criteria = {k1}
    Codes = {g1, g2}
    Definitions = {d1}
    NoExecutable = NoExecutable
    CheckIds = {c1}
    Environments = {e1}
    MaxBuilds = 2
    MaxReleases = 1
INVARIANT
    BugsOfferFix
\* A live run accepts no command.
CHECK_DEADLOCK FALSE
