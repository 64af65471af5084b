---------------------------- MODULE DeliveryRun ----------------------------
(***************************************************************************)
(* One DeliveryRun driven by the V3 lifecycle of                           *)
(* internal/domain/delivery: a single DeliveryUnit passes its development  *)
(* gates, QA and the business acceptors judge the Git revision it produced,*)
(* ReleaseChecks are recorded against that revision, and a Release is      *)
(* prepared, approved, deployed and, when its outcome is unknown,          *)
(* reconciled.  A run goes backwards too: a contract gap, a reopened gate  *)
(* or a failed verdict returns the unit to development.                    *)
(*                                                                         *)
(* Each action is one accepted command: the caller holds the run's         *)
(* transaction (sqlite Store.Transact), so a command is one step, and a    *)
(* rejected command leaves the run as it was.  The parameter a is the      *)
(* actor the server resolved for the command, r a Git revision of its      *)
(* payload.                                                                *)
(*                                                                         *)
(* The code keeps every verdict in an append-only list and only ever looks *)
(* up the latest one of a case at a revision; quality and acceptance are   *)
(* those latest verdicts.                                                  *)
(***************************************************************************)
EXTENDS Integers, Sequences, FiniteSets

CONSTANTS
    Revisions,        \* Git revisions that can carry a contract or an implementation
    NoRevision,       \* the empty revision string
    NumCriteria,      \* acceptance criteria of the Feature: one TestCase and one AcceptanceCase each
    CheckIds,         \* identifiers a ReleaseCheck can have
    Environments,     \* target environments
    FailureOwners,    \* those of the code's four failure owners a verdict can name
    Actors,           \* authenticated actors
    Kind,             \* the kind of each actor
    Roles,            \* the DeliveryRun member roles of each actor
    NoActor,
    MaxReleases       \* bound: how many Releases a run prepares

Criteria == 1..NumCriteria

\* A failure names who has to fix it: a gate of the unit, or nobody in the run.
RoutedOwners == {"frontend", "backend"}
UnroutedOwners == {"framework", "unlocated"}
RoleNames == {"product_owner", "business_acceptor", "release_approver"}

ASSUME RunAssumption ==
    /\ NoRevision \notin Revisions
    /\ NumCriteria \in Nat \ {0}
    /\ FailureOwners \subseteq RoutedOwners \cup UnroutedOwners
    /\ Kind \in [Actors -> {"human", "agent", "system"}]
    /\ Roles \in [Actors -> SUBSET RoleNames]
    /\ NoActor \notin Actors
    /\ MaxReleases \in Nat

VARIABLES
    stage,        \* DeliveryRun.Stage
    activeUnit,   \* whether ActiveDeliveryUnitID names the unit (else it is empty)
    unit,         \* the run's only DeliveryUnit
    quality,      \* latest QualityRun of each TestCase at each revision
    acceptance,   \* latest AcceptanceConfirmation of each AcceptanceCase at each revision
    checks,       \* ReleaseChecks by identifier
    releases      \* Releases, in order of preparation

evidence == <<quality, acceptance>>
delivery == <<checks, releases>>
vars == <<stage, activeUnit, unit, quality, acceptance, checks, releases>>

-----------------------------------------------------------------------------
(* The shape of the state.                                                 *)

Phases == {"interaction_modeling", "domain_modeling", "compiling",
           "frontend_convergence", "contract_gap", "contract_frozen",
           "backend_implementation", "journey_testing", "complete"}
GateStatus == {"pending", "passed", "needs_change"}
Stages == {"development", "testing", "bugs", "acceptance", "release", "live"}

DeliveryUnit ==
    [phase : Phases,
     contract : Revisions \cup {NoRevision},
     implementation : Revisions \cup {NoRevision},
     interaction : GateStatus, compiler : GateStatus, frontend : GateStatus,
     backend : GateStatus, journey : GateStatus]

Owners == FailureOwners \cup {"none"}
QualityRun == [result : {"none", "pass", "fail", "blocked"}, owner : Owners]
AcceptanceConfirmation ==
    [result : {"none", "pass", "fail"}, owner : Owners, by : Actors \cup {NoActor}]

ReleaseCheck ==
    [environment : Environments, required : BOOLEAN,
     status : {"pending", "passed", "failed"}, evidence : Revisions \cup {NoRevision}]

CheckTables == UNION {[ids -> ReleaseCheck] : ids \in SUBSET CheckIds}

Outcomes == {"success", "failure", "unknown"}
Attempt == [outcome : Outcomes, launchURL : BOOLEAN]
NoAttempt == [outcome |-> "none", launchURL |-> FALSE]
ReleaseStatus == {"draft", "approved", "needs_reconciliation", "live", "failed"}
Release ==
    [revision : Revisions, environment : Environments, status : ReleaseStatus,
     approvedBy : Actors \cup {NoActor}, attempt : Attempt \cup {NoAttempt}]

NotObserved == [result |-> "none", owner |-> "none"]
NotConfirmed == [result |-> "none", owner |-> "none", by |-> NoActor]

-----------------------------------------------------------------------------
(* What the run's commands read.                                           *)

\* The revision QA, acceptance and the Release judge; NoRevision when none does.
VerificationRevision ==
    IF ~activeUnit /\ unit.phase = "complete" /\ unit.journey = "passed"
    THEN unit.implementation
    ELSE NoRevision

Passing(verdicts) == {c \in Criteria : verdicts[c].result = "pass"}
AllPass(verdicts) == Passing(verdicts) = Criteria

AllQualityPass(r) == AllPass(quality[r])
\* Mutant: a confirmation is looked up whatever its revision.
MutAllAcceptancePass(r) == \E s \in Revisions : AllPass(acceptance[s])
AllAcceptancePass(r) == AllPass(acceptance[r])

\* The first case without a pass failed with nobody in the run to fix it.
StuckAtFirst(verdicts) ==
    \E c \in Criteria :
        /\ verdicts[c].result = "fail"
        /\ verdicts[c].owner \in UnroutedOwners
        /\ 1..(c - 1) \subseteq Passing(verdicts)

AllRequiredChecksPass ==
    /\ DOMAIN checks # {}
    /\ \A id \in DOMAIN checks : checks[id].required => checks[id].status = "passed"

ReleaseIndex == 1..Len(releases)
RunIsLive == stage = "live" \/ \E i \in ReleaseIndex : releases[i].status = "live"

\* Mutant: a Release awaiting reconciliation is not counted as active.
MutActiveRelease == \E i \in ReleaseIndex : releases[i].status \in {"draft", "approved"}
ActiveRelease == \E i \in ReleaseIndex : releases[i].status # "failed"

DeriveV3Stage ==
    LET r == VerificationRevision
    IN  IF r = NoRevision THEN "development"
        ELSE IF ~AllQualityPass(r)
             THEN IF StuckAtFirst(quality[r]) THEN "bugs" ELSE "testing"
        ELSE IF ~AllAcceptancePass(r)
             THEN IF StuckAtFirst(acceptance[r]) THEN "bugs" ELSE "acceptance"
        ELSE "release"

DeriveStage ==
    IF \E i \in ReleaseIndex : releases[i].status = "live" THEN "live" ELSE DeriveV3Stage

\* Mutant: the member's roles are not looked at.
MutAuthorizedHuman(a, role) == Kind[a] = "human"

\* A humanOnlyCommands command: its actor is a human member with the role it takes.
AuthorizedHuman(a, role) == Kind[a] = "human" /\ role \in Roles[a]

\* Every role of a run has a member who takes it, as validateDeliveryRunSpec asks. Assumed
\* beyond that: that member is a human and the role is spelled without spaces around it,
\* and agents and the system's adapters are always there.
ASSUME StaffAssumption ==
    /\ \A role \in RoleNames : \E a \in Actors : Kind[a] = "human" /\ role \in Roles[a]
    /\ \A kind \in {"agent", "system"} : \E a \in Actors : Kind[a] = kind

Init ==
    /\ stage = "development"
    /\ activeUnit = TRUE
    /\ unit = [phase |-> "interaction_modeling",
               contract |-> NoRevision, implementation |-> NoRevision,
               interaction |-> "pending", compiler |-> "pending",
               frontend |-> "pending", backend |-> "pending", journey |-> "pending"]
    /\ quality = [r \in Revisions |-> [c \in Criteria |-> NotObserved]]
    /\ acceptance = [r \in Revisions |-> [c \in Criteria |-> NotConfirmed]]
    /\ checks = [id \in {} |-> NoRevision]
    /\ releases = << >>

-----------------------------------------------------------------------------
(* The gates of the DeliveryUnit.  A unit command leaves the stage alone;  *)
(* only the passing journey sets it.                                       *)

\* What every unit command requires: a run that is not live, an active unit in
\* a phase that expects the command, an actor of the kind the phase expects.
UnitCommand(a, kind, phases) ==
    /\ ~RunIsLive
    /\ activeUnit
    /\ Kind[a] = kind
    /\ unit.phase \in phases

Advance(u) ==
    /\ unit' = u
    /\ UNCHANGED <<stage, activeUnit, evidence, delivery>>

MayCompleteInteraction(a) == UnitCommand(a, "agent", {"interaction_modeling"})

InteractionComplete(a) ==
    /\ MayCompleteInteraction(a)
    /\ Advance([unit EXCEPT !.interaction = "passed", !.phase = "domain_modeling"])

MayCompleteModel(a) == UnitCommand(a, "agent", {"domain_modeling", "contract_gap"})

ModelComplete(a) ==
    /\ MayCompleteModel(a)
    /\ Advance([unit EXCEPT !.compiler = "pending", !.frontend = "pending",
                            !.phase = "compiling"])

MayCompleteCompile(a) == UnitCommand(a, "system", {"compiling"})

CompileComplete(a) ==
    /\ MayCompleteCompile(a)
    /\ Advance([unit EXCEPT !.compiler = "passed", !.phase = "frontend_convergence"])

MayCompleteFrontend(a) == UnitCommand(a, "agent", {"frontend_convergence"})

FrontendComplete(a) ==
    /\ MayCompleteFrontend(a)
    /\ Advance([unit EXCEPT !.frontend = "passed", !.phase = "contract_frozen"])

\* Mutant: reopening the contract keeps the frozen revisions.
MutContractReopened(u) ==
    [u EXCEPT !.compiler = "pending", !.frontend = "needs_change",
              !.backend = "pending", !.journey = "pending", !.phase = "contract_gap"]

\* The unit back at the contract: both revisions and every later gate are void.
ContractReopened(u) ==
    [u EXCEPT !.compiler = "pending", !.frontend = "needs_change",
              !.backend = "pending", !.journey = "pending",
              !.contract = NoRevision, !.implementation = NoRevision,
              !.phase = "contract_gap"]

MayReportGap(a) == UnitCommand(a, "agent", {"frontend_convergence", "backend_implementation"})

ContractGapReport(a) ==
    /\ MayReportGap(a)
    /\ Advance(ContractReopened(unit))

MayFreezeContract(a) == UnitCommand(a, "system", {"contract_frozen"})

ContractFreeze(a, r) ==
    /\ MayFreezeContract(a)
    /\ Advance([unit EXCEPT !.contract = r, !.phase = "backend_implementation"])

MayCompleteBackend(a) == UnitCommand(a, "agent", {"backend_implementation"})

BackendComplete(a, r) ==
    /\ MayCompleteBackend(a)
    /\ Advance([unit EXCEPT !.backend = "passed", !.implementation = r,
                            !.phase = "journey_testing"])

BackendReopen(a) ==
    /\ UnitCommand(a, "system", {"journey_testing"})
    /\ Advance([unit EXCEPT !.backend = "pending", !.journey = "pending",
                            !.implementation = NoRevision,
                            !.phase = "backend_implementation"])

ContractReopen(a) ==
    /\ UnitCommand(a, "system", {"journey_testing"})
    /\ Advance(ContractReopened(unit))

MayCompleteJourney(a, r) ==
    UnitCommand(a, "system", {"journey_testing"}) /\ r = unit.implementation

\* Mutant: the completed unit does not move the stored stage.
MutJourneyComplete(a, r) ==
    /\ MayCompleteJourney(a, r)
    /\ unit' = [unit EXCEPT !.journey = "passed", !.phase = "complete"]
    /\ activeUnit' = FALSE
    /\ UNCHANGED <<stage, evidence, delivery>>

\* The only unit of the run is complete, so no unit is activated after it.
JourneyComplete(a, r) ==
    /\ MayCompleteJourney(a, r)
    /\ unit' = [unit EXCEPT !.journey = "passed", !.phase = "complete"]
    /\ activeUnit' = FALSE
    /\ stage' = "testing"
    /\ UNCHANGED <<evidence, delivery>>

-----------------------------------------------------------------------------
(* Independent QA and business acceptance.  A failure that names a gate    *)
(* reopens it and drops the implementation, but not the verdicts.          *)

RoutedUnit(u, owner) ==
    CASE owner = "frontend" ->
           [u EXCEPT !.journey = "pending", !.implementation = NoRevision,
                     !.frontend = "needs_change", !.backend = "pending",
                     !.phase = "frontend_convergence"]
      [] owner = "backend" ->
           [u EXCEPT !.journey = "pending", !.implementation = NoRevision,
                     !.backend = "needs_change", !.phase = "backend_implementation"]
      [] OTHER -> u

RouteVerdict(owner) ==
    /\ unit' = RoutedUnit(unit, owner)
    /\ activeUnit' = (owner \in RoutedOwners)

\* A failure names its owner, another result names none.
Verdicts(results) ==
    {v \in results \X Owners : (v[1] = "fail") <=> (v[2] \in FailureOwners)}

\* Mutant: QA may still be recorded once the run is at the release stage.
MutQualityStage == stage \in {"testing", "release"} /\ ~activeUnit
\* Mutant: QA may be recorded again after a failure nobody in the run owns.
MutQualityAtBugs == stage \in {"testing", "bugs"} /\ ~activeUnit
QualityStage == stage = "testing" /\ ~activeUnit

MayRecordQuality(r, result, owner) ==
    /\ ~RunIsLive
    /\ QualityStage
    /\ r = VerificationRevision
    /\ <<result, owner>> \in Verdicts({"pass", "fail", "blocked"})

RecordQuality(a, c, r, result, owner) ==
    /\ MayRecordQuality(r, result, owner)
    /\ quality' = [quality EXCEPT ![r][c] = [result |-> result, owner |-> owner]]
    /\ RouteVerdict(owner)
    /\ UNCHANGED <<acceptance, delivery>>
    /\ stage' = DeriveStage'

MayConfirmAcceptance(a, r, result, owner) ==
    /\ ~RunIsLive
    /\ AuthorizedHuman(a, "business_acceptor")
    /\ stage = "acceptance"
    /\ ~activeUnit
    /\ r = VerificationRevision
    /\ AllQualityPass(r)
    /\ <<result, owner>> \in Verdicts({"pass", "fail"})

ConfirmAcceptance(a, c, r, result, owner) ==
    /\ MayConfirmAcceptance(a, r, result, owner)
    /\ acceptance' = [acceptance EXCEPT
                        ![r][c] = [result |-> result, owner |-> owner, by |-> a]]
    /\ RouteVerdict(owner)
    /\ UNCHANGED <<quality, delivery>>
    /\ stage' = DeriveStage'

-----------------------------------------------------------------------------
(* Release checks, releases and their deployment.                          *)

\* Mutant: checks are not locked by a Release in progress.
MutChecksOpen == ~RunIsLive /\ stage = "release"

\* ReleaseChecks are open only at the release stage, and only while no Release is.
ChecksOpen ==
    /\ ~RunIsLive
    /\ stage = "release"
    /\ ~ActiveRelease

ReplaceReleaseChecks(a, env, required) ==
    /\ ChecksOpen
    /\ checks' = [id \in DOMAIN required |->
                    [environment |-> env, required |-> required[id],
                     status |-> "pending", evidence |-> NoRevision]]
    /\ UNCHANGED <<activeUnit, unit, evidence, releases>>
    /\ stage' = DeriveStage'

MayRecordReleaseCheck(id, r) ==
    ChecksOpen /\ id \in DOMAIN checks /\ r = VerificationRevision

RecordReleaseCheck(a, id, r, status) ==
    /\ MayRecordReleaseCheck(id, r)
    /\ checks' = [checks EXCEPT ![id].status = status, ![id].evidence = r]
    /\ UNCHANGED <<activeUnit, unit, evidence, releases>>
    /\ stage' = DeriveStage'

\* Mutant: only a live Release counts.
MutRevisionReleased(r) ==
    \E i \in ReleaseIndex : releases[i].revision = r /\ releases[i].status = "live"

\* Mutant: a failed Release counts too.
MutRevisionEverReleased(r) == \E i \in ReleaseIndex : releases[i].revision = r

RevisionReleased(r) ==
    \E i \in ReleaseIndex : releases[i].revision = r /\ releases[i].status # "failed"

MayPrepareV3Release(a, env) ==
    LET r == VerificationRevision
    IN  /\ ~RunIsLive
        /\ AuthorizedHuman(a, "product_owner")
        /\ stage = "release"
        /\ ~activeUnit
        /\ r # NoRevision
        /\ AllQualityPass(r)
        /\ AllAcceptancePass(r)
        /\ AllRequiredChecksPass
        /\ \A id \in DOMAIN checks : checks[id].environment = env
        /\ ~RevisionReleased(r)
        /\ Len(releases) < MaxReleases

PrepareV3Release(a, env) ==
    /\ MayPrepareV3Release(a, env)
    /\ releases' = Append(releases,
          [revision |-> VerificationRevision, environment |-> env, status |-> "draft",
           approvedBy |-> NoActor, attempt |-> NoAttempt])
    /\ UNCHANGED <<activeUnit, unit, evidence, checks>>
    /\ stage' = DeriveStage'

EnsureV3ReleaseStillValid(release) ==
    LET r == VerificationRevision
    IN  /\ r # NoRevision
        /\ release.revision = r
        /\ AllQualityPass(r)
        /\ AllAcceptancePass(r)
        /\ AllRequiredChecksPass

\* Mutant: the stage is left as it is, as the unit commands leave it.
MutSetRelease(i, release) ==
    /\ releases' = [releases EXCEPT ![i] = release]
    /\ UNCHANGED <<stage, activeUnit, unit, evidence, checks>>

SetRelease(i, release) ==
    /\ releases' = [releases EXCEPT ![i] = release]
    /\ UNCHANGED <<activeUnit, unit, evidence, checks>>
    /\ stage' = DeriveStage'

MayApproveRelease(a, i) ==
    /\ ~RunIsLive
    /\ AuthorizedHuman(a, "release_approver")
    /\ i \in ReleaseIndex
    /\ releases[i].status = "draft"
    /\ EnsureV3ReleaseStillValid(releases[i])

ApproveRelease(a, i) ==
    /\ MayApproveRelease(a, i)
    /\ SetRelease(i, [releases[i] EXCEPT !.status = "approved", !.approvedBy = a])

StatusAfter(outcome) ==
    CASE outcome = "success" -> "live"
      [] outcome = "failure" -> "failed"
      [] outcome = "unknown" -> "needs_reconciliation"

\* Mutant: the URL is never required.
MutLaunchURLAccepted(outcome, url) == TRUE

LaunchURLAccepted(outcome, url) == outcome = "success" => url

\* url: whether the payload carries a launch URL.
MayRecordDeployment(a, i, outcome, url) ==
    /\ ~RunIsLive
    /\ Kind[a] = "system"
    /\ i \in ReleaseIndex
    /\ releases[i].status = "approved"
    /\ releases[i].attempt = NoAttempt
    /\ EnsureV3ReleaseStillValid(releases[i])
    /\ LaunchURLAccepted(outcome, url)

RecordDeployment(a, i, outcome, url) ==
    /\ MayRecordDeployment(a, i, outcome, url)
    /\ SetRelease(i, [releases[i] EXCEPT
                        !.status = StatusAfter(outcome),
                        !.attempt = [outcome |-> outcome, launchURL |-> url]])

\* Mutant: any deployment attempt can be reconciled, whatever became of it.
MutReconcilable(release) == release.attempt # NoAttempt

Reconcilable(release) ==
    /\ release.status = "needs_reconciliation"
    /\ release.attempt # NoAttempt

\* A reconciliation without a URL keeps the one of the original attempt.
ReconciledURL(i, url) == url \/ releases[i].attempt.launchURL

MayReconcileDeployment(a, i, outcome, url) ==
    /\ ~RunIsLive
    /\ AuthorizedHuman(a, "release_approver")
    /\ i \in ReleaseIndex
    /\ Reconcilable(releases[i])
    /\ outcome \in {"success", "failure"}
    /\ LaunchURLAccepted(outcome, ReconciledURL(i, url))

ReconcileDeployment(a, i, outcome, url) ==
    /\ MayReconcileDeployment(a, i, outcome, url)
    /\ SetRelease(i, [releases[i] EXCEPT
                        !.status = StatusAfter(outcome),
                        !.attempt = [outcome |-> outcome,
                                     launchURL |-> ReconciledURL(i, url)]])

\* What installV3DeliveryRun asks of a run that is live, about the last of its Releases
\* that is; a resolved attempt has a receipt, as none is recorded without one.
Installable ==
    LET r == VerificationRevision
        live == {i \in ReleaseIndex : releases[i].status = "live"}
    IN  /\ r # NoRevision
        /\ AllQualityPass(r)
        /\ AllAcceptancePass(r)
        /\ \E i \in live :
              /\ \A j \in live : j <= i
              /\ releases[i].revision = r
              /\ releases[i].attempt.outcome \in {"success", "failure"}
              /\ releases[i].attempt.launchURL

\* A pre-V3 command (work plan, build, test, issue) is still dispatched on a V3
\* run: it touches lists no V3 command reads and then derives the stage again.
LegacyCommand(a) ==
    /\ ~RunIsLive
    /\ UNCHANGED <<activeUnit, unit, evidence, delivery>>
    /\ stage' = DeriveStage'

-----------------------------------------------------------------------------
UnitStep(a) ==
    \/ InteractionComplete(a)
    \/ ModelComplete(a)
    \/ CompileComplete(a)
    \/ FrontendComplete(a)
    \/ ContractGapReport(a)
    \/ \E r \in Revisions : ContractFreeze(a, r)
    \/ \E r \in Revisions : BackendComplete(a, r)
    \/ BackendReopen(a)
    \/ ContractReopen(a)
    \/ \E r \in Revisions : JourneyComplete(a, r)

VerdictStep(a) ==
    \E c \in Criteria, r \in Revisions, owner \in Owners :
        \/ \E result \in {"pass", "fail", "blocked"} : RecordQuality(a, c, r, result, owner)
        \/ \E result \in {"pass", "fail"} : ConfirmAcceptance(a, c, r, result, owner)

CheckLists == UNION {[ids -> BOOLEAN] : ids \in (SUBSET CheckIds) \ {{}}}

ReleaseStep(a) ==
    \/ \E env \in Environments, required \in CheckLists :
           ReplaceReleaseChecks(a, env, required)
    \/ \E id \in CheckIds, r \in Revisions, status \in {"passed", "failed"} :
           RecordReleaseCheck(a, id, r, status)
    \/ \E env \in Environments : PrepareV3Release(a, env)
    \/ \E i \in 1..MaxReleases : ApproveRelease(a, i)
    \/ \E i \in 1..MaxReleases, outcome \in Outcomes, url \in BOOLEAN :
           \/ RecordDeployment(a, i, outcome, url)
           \/ ReconcileDeployment(a, i, outcome, url)

Next ==
    \E a \in Actors : UnitStep(a) \/ VerdictStep(a) \/ ReleaseStep(a) \/ LegacyCommand(a)

Spec == Init /\ [][Next]_vars

\* The trusted deployment adapter executes an approved Release, and a release
\* approver settles an unknown outcome.  Nobody else is obliged to act.
Deploy == \E a \in Actors, i \in 1..MaxReleases, outcome \in Outcomes, url \in BOOLEAN :
              RecordDeployment(a, i, outcome, url)
Reconcile == \E a \in Actors, i \in 1..MaxReleases, outcome \in Outcomes, url \in BOOLEAN :
              ReconcileDeployment(a, i, outcome, url)
FairSpec == Spec /\ WF_vars(Deploy) /\ WF_vars(Reconcile)

-----------------------------------------------------------------------------
(* The projection: the actions the server offers for the run.              *)

CommandForPhase ==
    [interaction_modeling   |-> "delivery_unit.interaction.complete",
     domain_modeling        |-> "delivery_unit.model.complete",
     contract_gap           |-> "delivery_unit.model.complete",
     compiling              |-> "delivery_unit.compile.complete",
     frontend_convergence   |-> "delivery_unit.frontend.complete",
     contract_frozen        |-> "delivery_unit.contract.freeze",
     backend_implementation |-> "delivery_unit.backend.complete",
     journey_testing        |-> "delivery_unit.journey.complete"]

CommandForRelease ==
    [draft |-> "release.approve", approved |-> "release.deploy_result",
     needs_reconciliation |-> "release.reconcile"]

NoTarget == 0

UnitActions ==
    {<<CommandForPhase[unit.phase], NoTarget>>} \cup
    IF unit.phase \in {"frontend_convergence", "backend_implementation"}
    THEN {<<"delivery_unit.contract_gap.report", NoTarget>>} ELSE {}

QualityActions ==
    LET r == VerificationRevision
    IN  IF r = NoRevision THEN {}
        ELSE {<<"quality.record", c>> : c \in Criteria \ Passing(quality[r])}

AcceptanceActions ==
    LET r == VerificationRevision
    IN  IF r = NoRevision \/ ~AllQualityPass(r) THEN {}
        ELSE {<<"acceptance.confirm", c>> : c \in Criteria \ Passing(acceptance[r])}

\* Mutant: the offer does not wait for the required checks.
MutCanPrepareV3Release ==
    LET r == VerificationRevision
    IN  r # NoRevision /\ AllQualityPass(r) /\ AllAcceptancePass(r) /\ ~RevisionReleased(r)

CanPrepareV3Release ==
    LET r == VerificationRevision
    IN  /\ r # NoRevision
        /\ AllQualityPass(r)
        /\ AllAcceptancePass(r)
        /\ AllRequiredChecksPass
        /\ ~RevisionReleased(r)

OpenReleases == {i \in ReleaseIndex : releases[i].status \in DOMAIN CommandForRelease}

V3ReleaseActions ==
    IF OpenReleases # {}
    THEN {<<CommandForRelease[releases[i].status], i>> :
            i \in {j \in OpenReleases : \A k \in OpenReleases : j <= k}}
    ELSE (IF DOMAIN checks = {} THEN {<<"release_checks.replace", NoTarget>>}
          ELSE {<<"release_check.record", id>> :
                  id \in {x \in DOMAIN checks : checks[x].status # "passed"}})
         \cup (IF CanPrepareV3Release THEN {<<"release.prepare", NoTarget>>} ELSE {})

AvailableActions ==
    IF RunIsLive THEN {}
    ELSE IF activeUnit THEN UnitActions
    ELSE CASE stage = "testing"    -> QualityActions
           [] stage = "acceptance" -> AcceptanceActions
           [] stage = "release"    -> V3ReleaseActions
           [] OTHER                -> {}

\* The gates shown next to the actions, all OK.  The frozen Feature is given.
ReleaseGatesPass ==
    LET r == VerificationRevision
    IN  /\ unit.phase = "complete"
        /\ unit.journey = "passed"
        /\ r # NoRevision /\ AllQualityPass(r)
        /\ AllAcceptancePass(r)
        /\ AllRequiredChecksPass

-----------------------------------------------------------------------------
(* Properties.                                                             *)

\* Every variable holds a value the code can store in it.
TypeOK ==
    /\ stage \in Stages
    /\ activeUnit \in BOOLEAN
    /\ unit \in DeliveryUnit
    /\ quality \in [Revisions -> [Criteria -> QualityRun]]
    /\ acceptance \in [Revisions -> [Criteria -> AcceptanceConfirmation]]
    /\ checks \in CheckTables
    /\ releases \in Seq(Release)
    /\ Len(releases) <= MaxReleases

AfterInteraction == Phases \ {"interaction_modeling"}
AfterCompile == {"frontend_convergence", "contract_frozen", "backend_implementation",
                 "journey_testing", "complete"}
AfterFrontend == {"contract_frozen", "backend_implementation", "journey_testing", "complete"}
AfterFreeze == {"backend_implementation", "journey_testing", "complete"}
AfterBackend == {"journey_testing", "complete"}

\* However often the unit went back (gap, reopened gate, failed verdict), it is in
\* a phase only with the gates before that phase passed, on a frozen contract from
\* backend work on, and an implementation revision exists exactly between backend
\* completion and the next reopening; the unit is inactive exactly when complete.
\* (advanceDeliveryUnit and routeV3Failure both move phase, gates and revisions.)
UnitGates ==
    /\ unit.phase \in AfterInteraction => unit.interaction = "passed"
    /\ unit.phase \in AfterCompile => unit.compiler = "passed"
    /\ unit.phase \in AfterFrontend => unit.frontend = "passed"
    /\ unit.phase \in AfterFreeze => unit.contract # NoRevision
    /\ unit.phase \in AfterBackend => unit.backend = "passed"
    /\ unit.phase \in AfterBackend <=> unit.implementation # NoRevision
    /\ unit.phase = "complete" <=> unit.journey = "passed"
    /\ activeUnit <=> unit.phase # "complete"

Accepted(r) == AllQualityPass(r) /\ AllAcceptancePass(r)

\* A revision with every QA and acceptance verdict passed is the one the run is
\* verified at, and the run is at or past the release stage: a revision that was
\* sent back cannot come back already accepted, nor be sent back once accepted.
AcceptedIsCandidate ==
    \A r \in Revisions :
        Accepted(r) => VerificationRevision = r /\ stage \in {"release", "live"}

\* A Release that has not failed, live or on its way, stands on the unit's current
\* implementation with every release gate still passing, and every required check
\* passed on evidence of that revision in the Release's environment: no command
\* accepted after release.prepare can take its ground away.
ReleaseEvidence ==
    \A i \in ReleaseIndex : releases[i].status # "failed" =>
        /\ ReleaseGatesPass
        /\ releases[i].revision = VerificationRevision
        /\ \A id \in DOMAIN checks :
            /\ checks[id].environment = releases[i].environment
            /\ checks[id].required => checks[id].evidence = releases[i].revision

HasRole(a, role) == a \in Actors /\ Kind[a] = "human" /\ role \in Roles[a]

\* What the commands of the release stage rely on: the stage "release" is only
\* stored with the verified revision accepted, and a passed check stands on it.
ReleaseGround ==
    /\ stage = "release" => VerificationRevision \in Revisions /\ Accepted(VerificationRevision)
    /\ DOMAIN checks # {} => VerificationRevision \in Revisions /\ Accepted(VerificationRevision)
    /\ \A id \in DOMAIN checks :
          checks[id].status = "passed" => checks[id].evidence = VerificationRevision

\* The inductive invariant behind ReleaseEvidence.
EvidenceInvariant ==
    TypeOK /\ UnitGates /\ AcceptedIsCandidate /\ ReleaseGround /\ ReleaseEvidence

\* What goes live was accepted, for every criterion at its revision, by business
\* acceptors, was approved by a release approver, and was deployed with the public
\* URL a success must have, also when it was only reconciled: no agent and no adapter
\* can bring a run live (authorizeHumanCommand, over the whole course of a run).
LiveIsHumanConfirmed ==
    \A i \in ReleaseIndex : releases[i].status = "live" =>
        /\ HasRole(releases[i].approvedBy, "release_approver")
        /\ \A c \in Criteria :
              HasRole(acceptance[releases[i].revision][c].by, "business_acceptor")
        /\ releases[i].attempt = [outcome |-> "success", launchURL |-> TRUE]

\* A run never has two Releases in progress: deployments cannot race each other.
OneActiveRelease ==
    \A i, j \in ReleaseIndex :
        releases[i].status # "failed" /\ releases[j].status # "failed" => i = j

\* A Release on its way is the only one, and nothing takes its ground away.
ReleasesStand == ReleaseEvidence /\ OneActiveRelease

\* A Release that is live makes its run live in the same command, so that the store
\* installs the Feature with it, and the installation refuses nothing: otherwise either
\* the Feature would stay in delivery under a live run, or the deployment that took
\* place could never be recorded (Transact rolls the run back with the Product).
LiveIsInstallable == RunIsLive => stage = "live" /\ Installable

\* The stored stage is the derived one, with one exception the code makes: after
\* a failed acceptance the passing journey of the same revision stores "testing"
\* although QA still passes at that revision (activateNextDeliveryUnit).
StageFollowsEvidence ==
    stage # DeriveStage => stage = "testing" /\ DeriveStage = "acceptance"

\* What the engine asks before it accepts the command of an offered action, from an
\* actor and with a payload that fit.
CommandAccepted(action) ==
    LET target == action[2]
    IN  \E a \in Actors :
        CASE action[1] = "delivery_unit.interaction.complete" -> MayCompleteInteraction(a)
          [] action[1] = "delivery_unit.model.complete" -> MayCompleteModel(a)
          [] action[1] = "delivery_unit.compile.complete" -> MayCompleteCompile(a)
          [] action[1] = "delivery_unit.frontend.complete" -> MayCompleteFrontend(a)
          [] action[1] = "delivery_unit.contract_gap.report" -> MayReportGap(a)
          [] action[1] = "delivery_unit.contract.freeze" -> MayFreezeContract(a)
          [] action[1] = "delivery_unit.backend.complete" -> MayCompleteBackend(a)
          [] action[1] = "delivery_unit.journey.complete" ->
               \E r \in Revisions : MayCompleteJourney(a, r)
          [] action[1] = "quality.record" ->
               \E r \in Revisions : MayRecordQuality(r, "pass", "none")
          [] action[1] = "acceptance.confirm" ->
               \E r \in Revisions : MayConfirmAcceptance(a, r, "pass", "none")
          [] action[1] = "release_checks.replace" -> ChecksOpen
          [] action[1] = "release_check.record" ->
               \E r \in Revisions : MayRecordReleaseCheck(target, r)
          [] action[1] = "release.prepare" ->
               \E env \in Environments : MayPrepareV3Release(a, env)
          [] action[1] = "release.approve" -> MayApproveRelease(a, target)
          [] action[1] = "release.deploy_result" ->
               MayRecordDeployment(a, target, "success", TRUE)
          [] action[1] = "release.reconcile" ->
               MayReconcileDeployment(a, target, "success", TRUE)

\* Every action the projection offers is one the engine accepts from somebody: the two
\* copies of each guard agree, and once its guard holds an action does nothing but give
\* each variable a value.  (Up to the bound on Releases.)
OfferedIsAccepted ==
    \A action \in AvailableActions :
        \/ action[1] = "release.prepare" /\ Len(releases) = MaxReleases
        \/ CommandAccepted(action)

\* A run that is neither live nor at "bugs", and whose stored stage is the derived
\* one, always offers somebody an action: it never waits for nobody.
OpenRunOffersAction ==
    ~RunIsLive /\ stage # "bugs" /\ stage = DeriveStage => AvailableActions # {}

ReleaseInProgress ==
    \E i \in ReleaseIndex : releases[i].status \notin {"failed", "live"}

\* While a Release is in progress the unit and the evidence it was judged by stand
\* still; only the Release itself moves.
EvidenceFrozenDuringRelease ==
    [][ReleaseInProgress => UNCHANGED <<activeUnit, unit, evidence, checks>>]_vars

StatusOrder ==
    {<<"draft", "approved">>, <<"approved", "needs_reconciliation">>} \cup
    ({"approved", "needs_reconciliation"} \X {"live", "failed"})

\* A deployment outcome is final: neither a live nor a failed Release ever changes,
\* and a Release never loses its approver or returns to an earlier status.
ReleaseForward ==
    [][\A i \in ReleaseIndex :
          \/ releases'[i] = releases[i]
          \/ /\ <<releases[i].status, releases'[i].status>> \in StatusOrder
             /\ releases[i].status # "draft" =>
                    releases'[i].approvedBy = releases[i].approvedBy]_vars

\* A failure owned by the framework, or by nobody known, ends the run once it
\* decides the stage: no command accepted at "bugs" changes anything, so the run
\* never goes live and its Feature stays in delivery.
BugsIsTerminal == [][stage = "bugs" => UNCHANGED vars]_vars

\* Once approved, a Release is eventually live or failed: nothing that can happen
\* meanwhile makes the adapter's receipt or the reconciliation unacceptable.
ApprovedIsSettled ==
    \A i \in 1..MaxReleases :
        (i \in ReleaseIndex /\ releases[i].status = "approved")
            ~> (i \in ReleaseIndex /\ releases[i].status \in {"live", "failed"})

\* At the testing stage the projection offers a QA action (the projection is "the
\* actions that are currently valid", and clients submit nothing else).  The code
\* breaks it after StageFollowsEvidence's exception.
TestingOffersQuality == stage = "testing" => AvailableActions # {}

-----------------------------------------------------------------------------
\* The run as an implementation of the promise it makes about releases.
CandidateAccepted == VerificationRevision # NoRevision /\ Accepted(VerificationRevision)

Delivered ==
    IF \E i \in ReleaseIndex : releases[i].status = "live" THEN "live"
    ELSE IF ActiveRelease THEN "releasing" ELSE "none"

Promise == INSTANCE VerifiedRelease WITH
    candidate <- VerificationRevision,
    accepted  <- CandidateAccepted,
    delivered <- Delivered

\* The detailed run implements the abstract one.
ImplementsVerifiedRelease == Promise!Spec
=============================================================================
