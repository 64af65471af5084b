\* Expected to be violated: see the finding on TestingOffersQuality.
SPECIFICATION Spec
CONSTANTS
    Revisions = {r1}
    NoRevision = NoRevision
    NumCriteria = 2
    CheckIds = {c1}
    Environments = {e1}
    FailureOwners = {"frontend", "backend", "framework"}
    agent = agent  adapter = adapter  owner = owner  acceptor = acceptor  approver = approver
    Actors <- Solo
    Kind <- SoloKind
    Roles <- SoloRoles
    NoActor = NoActor
    MaxReleases = 1
INVARIANT
    TestingOffersQuality
CHECK_DEADLOCK FALSE
