------------------------------ MODULE LegacyRun ------------------------------
(***************************************************************************)
(* A DeliveryRun stored before DeliveryUnits existed, as the engine still  *)
(* serves it: a plan of WorkItems is worked off, the executable            *)
(* ProductRevision is recorded, builds of its code are deployed to a test  *)
(* environment, tests and business acceptance judge the latest build, each *)
(* failure opens an Issue that is fixed and retested in a later build, and *)
(* a Release of a build that passed everything is prepared, approved,      *)
(* deployed and, when its outcome is unknown, reconciled.                  *)
(*                                                                         *)
(* Each action is one accepted command, one transaction of the store; a    *)
(* refused command changes nothing.  Who may send a command and what a     *)
(* deployment must say about its URL are the same code as for a run with   *)
(* DeliveryUnits and are modelled in DeliveryRun.                          *)
(***************************************************************************)
EXTENDS Integers, Sequences, FiniteSets, WorkDependencies

CONSTANTS
    Items,            \* identifiers a WorkItem can have
    Criteria,         \* acceptance criteria: one TestCase and one AcceptanceCase each
    Codes,            \* Git revisions
    Definitions,      \* evidence references of executable ProductRevisions
    NoExecutable,     \* no executable ProductRevision recorded
    CheckIds,         \* identifiers a ReleaseCheck can have
    Environments,     \* target environments
    MaxBuilds,        \* bound: how many builds are created
    MaxReleases       \* bound: how many Releases are prepared

Executables == [code : Codes, ref : Definitions]

ASSUME LegacyAssumption ==
    /\ Criteria # {}
    /\ NoExecutable \notin Executables
    /\ MaxBuilds \in Nat
    /\ MaxReleases \in Nat

VARIABLES
    planned,      \* whether WorkPlanRevision > 0
    work,         \* the status of each WorkItem of the plan
    dependsOn,    \* and the items it depends on
    executable,   \* ExecutableRevision
    builds,       \* Builds: what each is made of and whether it is deployed to test
    verdicts,     \* latest result of each test and acceptance case on the latest build
    issues,       \* by origin, the Issue that is not closed, or Closed
    checks,       \* ReleaseChecks by identifier
    releases      \* Releases, in order of preparation

development == <<planned, work, dependsOn>>
verification == <<verdicts, issues>>
vars == <<development, executable, builds, verification, checks, releases>>

-----------------------------------------------------------------------------
(* The shape of the state.                                                 *)

WorkStatus == {"todo", "in_progress", "merged"}
Build == [executable : Executables, status : {"generated", "test_deployed"}]

\* The origin of an Issue, and what a verdict is about: a case of either kind.
Origins == {"technical_test", "acceptance"} \X Criteria
Tests == {o \in Origins : o[1] = "technical_test"}
AcceptanceCases == {o \in Origins : o[1] = "acceptance"}
Results == {"pass", "fail", "blocked"}

\* An Issue that failed again is reopened, so an origin has at most one Issue
\* that is not closed, and no command looks at a closed one.
IssueStatus == {"open", "fixing", "ready_retest", "closed"}
NoBuild == 0
Issue == [status : IssueStatus, includedIn : 0..MaxBuilds]
Closed == [status |-> "closed", includedIn |-> NoBuild]
Opened == [status |-> "open", includedIn |-> NoBuild]

ReleaseCheck ==
    [environment : Environments, required : BOOLEAN,
     status : {"pending", "passed", "failed"}]
CheckTables == UNION {[ids -> ReleaseCheck] : ids \in SUBSET CheckIds}

Outcomes == {"success", "failure", "unknown"}
ReleaseStatus == {"draft", "approved", "needs_reconciliation", "live", "failed"}
Release ==
    [build : 1..MaxBuilds, environment : Environments, status : ReleaseStatus]

-----------------------------------------------------------------------------
(* What the run's commands read.                                           *)

LatestBuild == Len(builds)
ReleaseIndex == 1..Len(releases)
RunIsLive == \E i \in ReleaseIndex : releases[i].status = "live"

AllMerged == \A i \in DOMAIN work : work[i] = "merged"
DependenciesMerged(i) == \A d \in dependsOn[i] : work[d] = "merged"

\* There is a build and it is deployed to a test environment.
TestDeployed == LatestBuild > 0 /\ builds[LatestBuild].status = "test_deployed"

AllPass(origins) == \A o \in origins : verdicts[o] = "pass"
AllTechnicalTestsPass == AllPass(Tests)
AllAcceptancePass == AllPass(AcceptanceCases)

InStatus(statuses) == {o \in Origins : issues[o].status \in statuses}
IssuesClosed == InStatus({"open", "fixing", "ready_retest"}) = {}
\* A fix that no build has included yet.
AwaitsBuild(o) == issues[o].status = "ready_retest" /\ issues[o].includedIn = NoBuild

AllRequiredChecksPass ==
    /\ DOMAIN checks # {}
    /\ \A id \in DOMAIN checks : checks[id].required => checks[id].status = "passed"

\* Mutant: a Release awaiting reconciliation leaves the verdicts open.
MutVerificationLocked ==
    \E i \in ReleaseIndex :
        releases[i].build = LatestBuild /\ releases[i].status \in {"draft", "approved", "live"}

\* Verdicts on a build are locked while one of its Releases has not failed.
VerificationLocked ==
    \E i \in ReleaseIndex :
        releases[i].build = LatestBuild /\ releases[i].status # "failed"

\* The stage every command derives and stores at its end.
Stage ==
    CASE RunIsLive -> "live"
      [] ~RunIsLive /\ (\E i \in ReleaseIndex : releases[i].status # "failed") -> "release"
      [] OTHER ->
         IF ~planned \/ ~AllMerged THEN "development"
         ELSE IF \E o \in Origins :
                    \/ issues[o].status \in {"open", "fixing"}
                    \/ issues[o].status = "ready_retest" /\ issues[o].includedIn # LatestBuild
              THEN "bugs"
         ELSE IF LatestBuild = 0 THEN "development"
         ELSE IF ~TestDeployed \/ ~AllTechnicalTestsPass THEN "testing"
         ELSE IF ~AllAcceptancePass THEN "acceptance"
         ELSE "release"

Unjudged == [o \in Origins |-> "none"]
NoEntries == [x \in {} |-> NoBuild]

Init ==
    /\ planned = FALSE
    /\ work = NoEntries
    /\ dependsOn = NoEntries
    /\ executable = NoExecutable
    /\ builds = << >>
    /\ verdicts = Unjudged
    /\ issues = [o \in Origins |-> Closed]
    /\ checks = NoEntries
    /\ releases = << >>

-----------------------------------------------------------------------------
(* The work plan and the WorkItems.                                        *)

\* Mutant: dependencies are checked one by one and never for a cycle.
MutAcceptedPlan(deps) == IsPlan(deps)

\* The plans replaceWorkPlan accepts; WorkPlanCheck has its cycle check.
AcceptedPlan(deps) == IsPlan(deps) /\ Acyclic(deps)

PlanReplaceable ==
    /\ builds = << >>
    /\ \A i \in DOMAIN work : work[i] = "todo"

MayReplaceWorkPlan(deps) == PlanReplaceable /\ AcceptedPlan(deps)

ReplaceWorkPlan(deps) ==
    /\ ~RunIsLive
    /\ MayReplaceWorkPlan(deps)
    /\ planned' = TRUE
    /\ work' = [i \in DOMAIN deps |-> "todo"]
    /\ dependsOn' = deps
    /\ UNCHANGED <<executable, builds, verification, checks, releases>>

SetWork(i, status) ==
    /\ work' = [work EXCEPT ![i] = status]
    /\ UNCHANGED <<planned, dependsOn, executable, builds, verification, checks, releases>>

\* Work may start before what it depends on is merged.
MayStartWork(i) == i \in DOMAIN work /\ work[i] = "todo"
StartWork(i) == ~RunIsLive /\ MayStartWork(i) /\ SetWork(i, "in_progress")

MayCompleteWork(i) == i \in DOMAIN work /\ work[i] = "in_progress" /\ DependenciesMerged(i)
CompleteWork(i) == ~RunIsLive /\ MayCompleteWork(i) /\ SetWork(i, "merged")

-----------------------------------------------------------------------------
(* The executable revision, its builds, and their verdicts.                *)

CanRecordExecutableRevision ==
    /\ planned
    /\ releases = << >>
    /\ AllMerged
    /\ builds = << >> \/ \E o \in Origins : AwaitsBuild(o)

RecordExecutableRevision(revision) ==
    /\ ~RunIsLive
    /\ CanRecordExecutableRevision
    /\ executable' = revision
    /\ UNCHANGED <<development, builds, verification, checks, releases>>

FixesComplete == InStatus({"open", "fixing"}) = {}

MayCreateBuild ==
    /\ planned
    /\ AllMerged
    /\ FixesComplete
    /\ executable # NoExecutable
    /\ builds # << >> => InStatus({"ready_retest"}) # {}
    /\ LatestBuild < MaxBuilds

\* A build includes every fix that awaits a retest, those of an earlier build
\* too; its verdicts are still to come.
CreateBuild ==
    /\ ~RunIsLive
    /\ MayCreateBuild
    /\ builds' = Append(builds, [executable |-> executable, status |-> "generated"])
    /\ verdicts' = Unjudged
    /\ issues' = [o \in Origins |->
                    IF issues[o].status = "ready_retest"
                    THEN [issues[o] EXCEPT !.includedIn = LatestBuild + 1]
                    ELSE issues[o]]
    /\ UNCHANGED <<development, executable, checks, releases>>

MayDeployBuild == LatestBuild > 0 /\ builds[LatestBuild].status = "generated"

DeployBuild ==
    /\ ~RunIsLive
    /\ MayDeployBuild
    /\ builds' = [builds EXCEPT ![LatestBuild].status = "test_deployed"]
    /\ UNCHANGED <<development, executable, verification, checks, releases>>

\* Mutant: a pass closes the Issue whatever its fix is in.
MutRetested(issue) == issue.status = "ready_retest"
\* The Issue of a case that passes is closed when the latest build has its fix.
Retested(issue) == issue.status = "ready_retest" /\ issue.includedIn = LatestBuild

\* The verdict, and the Issue of its case: a pass closes a retested one, a failure
\* opens one or reopens the one there is, which is then in no build any more.
Judge(o, result) ==
    /\ verdicts' = [verdicts EXCEPT ![o] = result]
    /\ issues' =
         CASE result = "pass" /\ Retested(issues[o]) -> [issues EXCEPT ![o] = Closed]
           [] result = "fail" -> [issues EXCEPT ![o] = Opened]
           [] OTHER -> issues
    /\ UNCHANGED <<development, executable, builds, checks, releases>>

MayRecordTest(o) == o \in Tests /\ TestDeployed /\ ~VerificationLocked
RecordTest(o, result) == ~RunIsLive /\ MayRecordTest(o) /\ Judge(o, result)

\* Acceptance may go on with an Issue only of acceptance, with its fix in the build.
OnlyAcceptanceRetests ==
    \A o \in Origins :
        issues[o].status # "closed" => o \in AcceptanceCases /\ Retested(issues[o])

MayRecordAcceptance(o, result) ==
    /\ o \in AcceptanceCases
    /\ result # "blocked"
    /\ TestDeployed
    /\ ~VerificationLocked
    /\ AllTechnicalTestsPass
    /\ OnlyAcceptanceRetests

RecordAcceptance(o, result) ==
    ~RunIsLive /\ MayRecordAcceptance(o, result) /\ Judge(o, result)

SetIssueStatus(o, status) ==
    /\ issues' = [issues EXCEPT ![o].status = status]
    /\ UNCHANGED <<development, executable, builds, verdicts, checks, releases>>

MayStartFix(o) == issues[o].status = "open"
StartFix(o) == ~RunIsLive /\ MayStartFix(o) /\ SetIssueStatus(o, "fixing")

MayCompleteFix(o) == issues[o].status = "fixing"
CompleteFix(o) == ~RunIsLive /\ MayCompleteFix(o) /\ SetIssueStatus(o, "ready_retest")

-----------------------------------------------------------------------------
(* Release checks, releases and their deployment.                          *)

\* Mutant: checks are locked only while a Release has not failed.
MutChecksOpen == \A i \in ReleaseIndex : releases[i].status = "failed"

\* ReleaseChecks are open until the first Release is prepared, at every stage.
ChecksOpen == releases = << >>

ReplaceReleaseChecks(env, required) ==
    /\ ~RunIsLive
    /\ ChecksOpen
    /\ checks' = [id \in DOMAIN required |->
                    [environment |-> env, required |-> required[id], status |-> "pending"]]
    /\ UNCHANGED <<development, executable, builds, verification, releases>>

MayRecordReleaseCheck(id) == ChecksOpen /\ id \in DOMAIN checks

RecordReleaseCheck(id, status) ==
    /\ ~RunIsLive
    /\ MayRecordReleaseCheck(id)
    /\ checks' = [checks EXCEPT ![id].status = status]
    /\ UNCHANGED <<development, executable, builds, verification, releases>>

\* The latest build is made of the revision recorded last.
BuildIsExecutable ==
    LatestBuild > 0 /\ builds[LatestBuild].executable = executable

BuildReleased ==
    \E i \in ReleaseIndex :
        releases[i].build = LatestBuild /\ releases[i].status # "failed"

MayPrepareRelease(env) ==
    /\ TestDeployed
    /\ AllTechnicalTestsPass
    /\ AllAcceptancePass
    /\ BuildIsExecutable
    /\ IssuesClosed
    /\ AllRequiredChecksPass
    /\ \A id \in DOMAIN checks : checks[id].environment = env
    /\ ~BuildReleased
    /\ Len(releases) < MaxReleases

PrepareRelease(env) ==
    /\ ~RunIsLive
    /\ MayPrepareRelease(env)
    /\ releases' = Append(releases,
          [build |-> LatestBuild, environment |-> env, status |-> "draft"])
    /\ UNCHANGED <<development, executable, builds, verification, checks>>

EnsureReleaseStillValid(release) ==
    /\ release.build = LatestBuild
    /\ BuildIsExecutable
    /\ AllTechnicalTestsPass
    /\ AllAcceptancePass
    /\ IssuesClosed
    /\ AllRequiredChecksPass

SetReleaseStatus(i, status) ==
    /\ releases' = [releases EXCEPT ![i].status = status]
    /\ UNCHANGED <<development, executable, builds, verification, checks>>

MayApproveRelease(i) ==
    /\ i \in ReleaseIndex /\ releases[i].status = "draft"
    /\ EnsureReleaseStillValid(releases[i])

ApproveRelease(i) == ~RunIsLive /\ MayApproveRelease(i) /\ SetReleaseStatus(i, "approved")

StatusAfter(outcome) ==
    CASE outcome = "success" -> "live"
      [] outcome = "failure" -> "failed"
      [] outcome = "unknown" -> "needs_reconciliation"

MayRecordDeployment(i) ==
    /\ i \in ReleaseIndex /\ releases[i].status = "approved"
    /\ EnsureReleaseStillValid(releases[i])

RecordDeployment(i, outcome) ==
    ~RunIsLive /\ MayRecordDeployment(i) /\ SetReleaseStatus(i, StatusAfter(outcome))

MayReconcileDeployment(i, outcome) ==
    /\ i \in ReleaseIndex /\ releases[i].status = "needs_reconciliation"
    /\ outcome # "unknown"

ReconcileDeployment(i, outcome) ==
    /\ ~RunIsLive
    /\ MayReconcileDeployment(i, outcome)
    /\ SetReleaseStatus(i, StatusAfter(outcome))

-----------------------------------------------------------------------------
Plans == UNION {[ids -> SUBSET Items] : ids \in SUBSET Items}
CheckLists == UNION {[ids -> BOOLEAN] : ids \in (SUBSET CheckIds) \ {{}}}

WorkStep ==
    \/ \E deps \in Plans : ReplaceWorkPlan(deps)
    \/ \E i \in Items : StartWork(i)
    \/ \E i \in Items : CompleteWork(i)

BuildStep ==
    \/ \E revision \in Executables : RecordExecutableRevision(revision)
    \/ CreateBuild
    \/ DeployBuild

VerdictStep ==
    \E o \in Origins :
        \/ \E result \in Results : RecordTest(o, result)
        \/ \E result \in Results : RecordAcceptance(o, result)
        \/ StartFix(o)
        \/ CompleteFix(o)

ReleaseStep ==
    \/ \E env \in Environments, required \in CheckLists : ReplaceReleaseChecks(env, required)
    \/ \E id \in CheckIds, status \in {"passed", "failed"} : RecordReleaseCheck(id, status)
    \/ \E env \in Environments : PrepareRelease(env)
    \/ \E i \in 1..MaxReleases : ApproveRelease(i)
    \/ \E i \in 1..MaxReleases, outcome \in Outcomes : RecordDeployment(i, outcome)
    \/ \E i \in 1..MaxReleases, outcome \in Outcomes : ReconcileDeployment(i, outcome)

Next == WorkStep \/ BuildStep \/ VerdictStep \/ ReleaseStep

Spec == Init /\ [][Next]_vars

\* The agents work their plan off: of the items that can be started, and of those
\* that can be completed, one eventually is.  Nobody else is obliged to act.
FairSpec ==
    /\ Spec
    /\ WF_vars(\E i \in Items : StartWork(i))
    /\ WF_vars(\E i \in Items : CompleteWork(i))

-----------------------------------------------------------------------------
(* The projection: the actions the server offers for the run.              *)

NoTarget == "none"
Offer(condition, command) == IF condition THEN {<<command, NoTarget>>} ELSE {}
OfferEach(command, targets) == {<<command, x>> : x \in targets}

WorkActions ==
    Offer(PlanReplaceable, "work.plan.replace") \cup
    OfferEach("work.start", {i \in DOMAIN work : work[i] = "todo"}) \cup
    OfferEach("work.complete",
        {i \in DOMAIN work : work[i] = "in_progress" /\ DependenciesMerged(i)})

\* Mutant: the offer does not ask for a new revision.
MutCanCreateBuild ==
    /\ planned /\ executable # NoExecutable /\ AllMerged /\ FixesComplete

CanCreateBuild ==
    /\ planned
    /\ executable # NoExecutable
    /\ AllMerged
    /\ FixesComplete
    /\ \/ builds = << >>
       \/ /\ \E o \in Origins : AwaitsBuild(o)
          /\ builds[LatestBuild].executable.code # executable.code

BuildActions ==
    Offer(CanRecordExecutableRevision, "product_revision.record") \cup
    Offer(CanCreateBuild, "build.create") \cup
    Offer(LatestBuild > 0 /\ builds[LatestBuild].status = "generated",
          "build.deploy_to_test")

VerdictActions ==
    OfferEach("test.record", {o \in Tests : TestDeployed /\ ~VerificationLocked}) \cup
    OfferEach("acceptance.record",
        {o \in AcceptanceCases : /\ TestDeployed /\ ~VerificationLocked
                                 /\ AllTechnicalTestsPass /\ OnlyAcceptanceRetests}) \cup
    OfferEach("issue.start_fix", InStatus({"open"})) \cup
    OfferEach("issue.complete_fix", InStatus({"fixing"}))

\* The gates shown next to the actions, all OK.  The frozen Feature is given.
ReleaseGatesPass ==
    /\ planned /\ AllMerged
    /\ BuildIsExecutable
    /\ AllTechnicalTestsPass
    /\ IssuesClosed
    /\ AllAcceptancePass
    /\ AllRequiredChecksPass

CommandForRelease ==
    [draft |-> "release.approve", approved |-> "release.deploy_result",
     needs_reconciliation |-> "release.reconcile"]

ReleaseActions ==
    Offer(ChecksOpen, "release_checks.replace") \cup
    OfferEach("release_check.record", {id \in DOMAIN checks : ChecksOpen}) \cup
    Offer(ReleaseGatesPass /\ BuildIsExecutable /\ ~BuildReleased, "release.prepare") \cup
    {<<CommandForRelease[releases[i].status], i>> :
        i \in {j \in ReleaseIndex : releases[j].status \in DOMAIN CommandForRelease}}

AvailableActions ==
    IF RunIsLive THEN {} ELSE WorkActions \cup BuildActions \cup VerdictActions \cup ReleaseActions

-----------------------------------------------------------------------------
(* Properties.                                                             *)

TypeOK ==
    /\ planned \in BOOLEAN
    /\ dependsOn \in Plans
    /\ work \in [DOMAIN dependsOn -> WorkStatus]
    /\ executable \in Executables \cup {NoExecutable}
    /\ builds \in Seq(Build) /\ Len(builds) <= MaxBuilds
    /\ verdicts \in [Origins -> Results \cup {"none"}]
    /\ issues \in [Origins -> Issue]
    /\ checks \in CheckTables
    /\ releases \in Seq(Release)

\* A build stands on a finished plan, whose items never wait for each other, and
\* only a build that is deployed to test has verdicts.
BuildStandsOnWork ==
    /\ AcceptedPlan(dependsOn)
    /\ ~planned => DOMAIN dependsOn = {}
    /\ builds # << >> => planned /\ AllMerged /\ executable # NoExecutable
    /\ ~TestDeployed => verdicts = Unjudged

\* A case that failed keeps an Issue that no build has fixed yet, until a later
\* build includes the fix, and such a case cannot count as passed: a new pass on
\* the failed build does not clear it, nor does another verdict, an acceptance, a
\* build for another Issue or a failed Release in between (openIssue,
\* closeRetestedIssues and createBuild keep it together).
FailureIsAccountable ==
    \A o \in Origins :
        /\ issues[o].includedIn \in {NoBuild, LatestBuild}
        /\ verdicts[o] = "fail" => issues[o].status # "closed" /\ issues[o].includedIn = NoBuild
        /\ issues[o].status \in {"closed", "open", "fixing"} => issues[o].includedIn = NoBuild
        /\ issues[o].status # "closed" => builds # << >>
        /\ issues[o].includedIn # NoBuild => verdicts[o] # "pass"

\* A Release that has not failed is of the latest build, made of the revision
\* recorded last, with every test and acceptance case passed, every Issue closed,
\* every required check passed in its environment, and it is the only one: no
\* command accepted after release.prepare takes its ground away, so approval and
\* deployment are never refused as stale.
ReleaseStands ==
    \A i \in ReleaseIndex : releases[i].status # "failed" =>
        /\ EnsureReleaseStillValid(releases[i])
        /\ TestDeployed
        /\ \A id \in DOMAIN checks : checks[id].environment = releases[i].environment
        /\ \A j \in ReleaseIndex : releases[j].status # "failed" => i = j

\* What the stages rely on: a revision recorded after the latest build waits for
\* the build of a fix, and checks that a Release was prepared on stay passed.
StageGround ==
    /\ builds # << >> /\ ~BuildIsExecutable =>
          \E o \in Origins : issues[o].status # "closed" /\ issues[o].includedIn = NoBuild
    /\ releases # << >> => builds # << >> /\ AllRequiredChecksPass

\* The inductive invariant of the run.
LegacyInvariant ==
    TypeOK /\ BuildStandsOnWork /\ FailureIsAccountable /\ ReleaseStands /\ StageGround

\* The commands that move a run out of a stage.
StageWork ==
    [development |-> {"work.plan.replace", "work.start", "work.complete",
                      "product_revision.record", "build.create"},
     bugs        |-> {"issue.start_fix", "issue.complete_fix",
                      "product_revision.record", "build.create"},
     testing     |-> {"build.deploy_to_test", "test.record"},
     acceptance  |-> {"acceptance.record"},
     release     |-> {"release_checks.replace", "release_check.record", "release.prepare",
                      "release.approve", "release.deploy_result", "release.reconcile"}]

OffersStageWork == \E action \in AvailableActions : action[1] \in StageWork[Stage]

\* A fix waits for a build after a Release has failed: then no revision can be
\* recorded for it, and the projection offers no build of the recorded one.
FixIsStranded ==
    /\ releases # << >>
    /\ FixesComplete
    /\ \E o \in Origins : AwaitsBuild(o)

\* At every stage of an open run somebody is offered what that stage is for: work
\* that waits for other work never all waits, verdicts can be given, fixes made and
\* built, and a run that passed everything released (DeriveStage and ProjectionFor
\* read the same lists apart from each other).  One case is left out, see
\* BugsOfferFix.
StageOffersItsWork == Stage # "live" /\ ~FixIsStranded => OffersStageWork

\* As the README promises fix/retest closure: at "bugs", fixing, recording the
\* fixed revision or building it is offered.  The code breaks it once a Release
\* has failed.
BugsOfferFix == Stage = "bugs" => OffersStageWork

\* What the engine asks before it accepts the command of an offered action, with a
\* payload that fits.
Accepted(action) ==
    LET target == action[2]
    IN  /\ ~RunIsLive
        /\ CASE action[1] = "work.plan.replace" ->
                  \E deps \in Plans : MayReplaceWorkPlan(deps)
             [] action[1] = "work.start" -> MayStartWork(target)
             [] action[1] = "work.complete" -> MayCompleteWork(target)
             [] action[1] = "product_revision.record" -> CanRecordExecutableRevision
             [] action[1] = "build.create" -> MayCreateBuild
             [] action[1] = "build.deploy_to_test" -> MayDeployBuild
             [] action[1] = "test.record" -> MayRecordTest(target)
             [] action[1] = "acceptance.record" -> MayRecordAcceptance(target, "pass")
             [] action[1] = "issue.start_fix" -> MayStartFix(target)
             [] action[1] = "issue.complete_fix" -> MayCompleteFix(target)
             [] action[1] = "release_checks.replace" -> ChecksOpen
             [] action[1] = "release_check.record" -> MayRecordReleaseCheck(target)
             [] action[1] = "release.prepare" ->
                  \E env \in Environments : MayPrepareRelease(env)
             [] action[1] = "release.approve" -> MayApproveRelease(target)
             [] action[1] = "release.deploy_result" -> MayRecordDeployment(target)
             [] action[1] = "release.reconcile" -> MayReconcileDeployment(target, "success")

AtBound(command) ==
    \/ command = "build.create" /\ LatestBuild = MaxBuilds
    \/ command = "release.prepare" /\ Len(releases) = MaxReleases

\* Every action the projection offers is one the engine accepts: the two copies
\* of each guard agree, and once its guard holds an action does nothing but give each
\* variable a value.  (Up to the bounds on builds and Releases.)
OfferedIsAccepted ==
    \A action \in AvailableActions : AtBound(action[1]) \/ Accepted(action)

\* Agents who start and complete what they may, in any order, finish every plan:
\* no accepted plan can wait for itself (work.start ignores dependencies,
\* work.complete does not).
WorkGetsDone == planned ~> AllMerged
=============================================================================
