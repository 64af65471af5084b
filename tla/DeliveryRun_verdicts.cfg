\* Two criteria at two revisions: the order of the verdicts, reopening, verdicts
\* of an earlier revision, and the one Release that stands on them.
SPECIFICATION Spec
SYMMETRY SymmetricRevisions
CONSTANTS
    Revisions = {r1, r2}
    NoRevision = NoRevision
    NumCriteria = 2
    CheckIds = {c1}
    Environments = {e1}
    FailureOwners = {"backend", "framework"}
    agent = agent  adapter = adapter  owner = owner  acceptor = acceptor  approver = approver
    Actors <- Solo
    Kind <- SoloKind
    Roles <- SoloRoles
    NoActor = NoActor
    MaxReleases = 1
INVARIANTS
    EvidenceInvariant
    StageFollowsEvidence
PROPERTIES
    BugsIsTerminal
    ImplementsVerifiedRelease
\* A live run accepts no command.
CHECK_DEADLOCK FALSE
