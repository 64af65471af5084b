\* One criterion at one revision: two checks, two environments, a team in which
\* every role is another person's, a second Release after a failed one, and an
\* adapter and a release approver who do their part.
SPECIFICATION FairSpec
CONSTANTS
    Revisions = {r1}
    NoRevision = NoRevision
    NumCriteria = 1
    CheckIds = {c1, c2}
    Environments = {e1, e2}
    FailureOwners = {"frontend", "backend", "framework"}
    agent = agent  adapter = adapter  owner = owner  acceptor = acceptor  approver = approver
    Actors <- Team
    Kind <- TeamKind
    Roles <- TeamRoles
    NoActor = NoActor
    MaxReleases = 2
INVARIANTS
    ReleasesStand
    LiveIsHumanConfirmed
    LiveIsInstallable
    OfferedIsAccepted
    OpenRunOffersAction
PROPERTIES
    EvidenceFrozenDuringRelease
    ReleaseForward
    ApprovedIsSettled
\* A live run accepts no command.
CHECK_DEADLOCK FALSE
