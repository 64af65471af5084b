-------------------------- MODULE DeliveryRunProofs --------------------------
(***************************************************************************)
(* Theorems about DeliveryRun for every value of its constants: any number *)
(* of revisions, criteria, checks, environments, actors and releases.      *)
(*                                                                         *)
(* The invariants build on each other: types, then the unit's gates, then  *)
(* what an accepted revision says about the stage, then the ground a       *)
(* Release stands on.                                                      *)
(***************************************************************************)
EXTENDS DeliveryRun, TLAPS

-----------------------------------------------------------------------------
(* Types.                                                                  *)

\* The stage derived from any state is a stage.
LEMMA DerivedStage == DeriveStage' \in Stages
  BY DEF DeriveStage, DeriveV3Stage, Stages

\* A failure routed to its owner leaves a well-formed unit.
LEMMA RoutedUnitType ==
  ASSUME NEW u \in DeliveryUnit, NEW owner
  PROVE  RoutedUnit(u, owner) \in DeliveryUnit
<1>1. CASE owner = "frontend"
  BY <1>1 DEF RoutedUnit, DeliveryUnit, Phases, GateStatus
<1>2. CASE owner = "backend"
  BY <1>2 DEF RoutedUnit, DeliveryUnit, Phases, GateStatus
<1>3. CASE owner # "frontend" /\ owner # "backend"
  BY <1>3 DEF RoutedUnit
<1> QED BY <1>1, <1>2, <1>3

\* Replacing one Release by a well-formed one keeps the list well-formed.
LEMMA SetReleaseType ==
  ASSUME TypeOK, NEW i \in ReleaseIndex, NEW release \in Release, SetRelease(i, release)
  PROVE  TypeOK'
<1>1. releases' \in Seq(Release) /\ Len(releases') <= MaxReleases
  BY DEF TypeOK, SetRelease, ReleaseIndex
<1>2. stage' \in Stages
  BY DerivedStage DEF SetRelease
<1> QED BY <1>1, <1>2 DEF TypeOK, SetRelease, evidence

\* A new run is well-formed.
LEMMA InitType == Init => TypeOK
<1> SUFFICES ASSUME Init PROVE TypeOK
  OBVIOUS
<1>1. stage \in Stages /\ activeUnit \in BOOLEAN
  BY DEF Init, Stages
<1>2. unit \in DeliveryUnit
  BY DEF Init, DeliveryUnit, Phases, GateStatus
<1>3. /\ quality \in [Revisions -> [Criteria -> QualityRun]]
      /\ acceptance \in [Revisions -> [Criteria -> AcceptanceConfirmation]]
  BY DEF Init, NotObserved, NotConfirmed, QualityRun, AcceptanceConfirmation, Owners
<1>4. checks \in CheckTables
  <2>1. checks \in [{} -> ReleaseCheck]
    BY DEF Init
  <2> QED BY <2>1 DEF CheckTables
<1>5. releases \in Seq(Release) /\ Len(releases) <= MaxReleases
  BY RunAssumption DEF Init
<1> QED BY <1>1, <1>2, <1>3, <1>4, <1>5 DEF TypeOK

\* A unit command keeps the types.
LEMMA UnitStepType ==
  ASSUME TypeOK, NEW a \in Actors, UnitStep(a)
  PROVE  TypeOK'
<1>1. unit' \in DeliveryUnit
  <2> USE DEF TypeOK, DeliveryUnit, Phases, GateStatus, Advance
  <2>1. CASE InteractionComplete(a)  BY <2>1 DEF InteractionComplete, MayCompleteInteraction
  <2>2. CASE ModelComplete(a)  BY <2>2 DEF ModelComplete, MayCompleteModel
  <2>3. CASE CompileComplete(a)  BY <2>3 DEF CompileComplete, MayCompleteCompile
  <2>4. CASE FrontendComplete(a)  BY <2>4 DEF FrontendComplete, MayCompleteFrontend
  <2>5. CASE ContractGapReport(a)  BY <2>5 DEF ContractGapReport, MayReportGap, ContractReopened
  <2>6. ASSUME NEW r \in Revisions, ContractFreeze(a, r) PROVE unit' \in DeliveryUnit
    BY <2>6 DEF ContractFreeze, MayFreezeContract
  <2>7. ASSUME NEW r \in Revisions, BackendComplete(a, r) PROVE unit' \in DeliveryUnit
    BY <2>7 DEF BackendComplete, MayCompleteBackend
  <2>8. CASE BackendReopen(a)  BY <2>8 DEF BackendReopen
  <2>9. CASE ContractReopen(a)  BY <2>9 DEF ContractReopen, ContractReopened
  <2>10. ASSUME NEW r \in Revisions, JourneyComplete(a, r) PROVE unit' \in DeliveryUnit
    BY <2>10 DEF JourneyComplete, MayCompleteJourney
  <2> QED BY <2>1, <2>2, <2>3, <2>4, <2>5, <2>6, <2>7, <2>8, <2>9, <2>10 DEF UnitStep
<1>2. /\ stage' \in Stages /\ activeUnit' \in BOOLEAN
      /\ UNCHANGED <<evidence, delivery>>
  BY DEF TypeOK, Stages, UnitStep, Advance, InteractionComplete, MayCompleteInteraction,
         ModelComplete, MayCompleteModel, CompileComplete, MayCompleteCompile, FrontendComplete,
         MayCompleteFrontend, ContractGapReport, MayReportGap, ContractFreeze,
         MayFreezeContract, BackendComplete, MayCompleteBackend, BackendReopen, ContractReopen,
         JourneyComplete, MayCompleteJourney
<1> QED BY <1>1, <1>2 DEF TypeOK, evidence, delivery

\* A verdict keeps the types.
LEMMA VerdictStepType ==
  ASSUME TypeOK, NEW a \in Actors, VerdictStep(a)
  PROVE  TypeOK'
<1> PICK c \in Criteria, r \in Revisions, owner \in Owners :
      \/ \E result \in {"pass", "fail", "blocked"} : RecordQuality(a, c, r, result, owner)
      \/ \E result \in {"pass", "fail"} : ConfirmAcceptance(a, c, r, result, owner)
  BY DEF VerdictStep
<1>1. RouteVerdict(owner) /\ stage' = DeriveStage' /\ UNCHANGED delivery
  BY DEF RecordQuality, MayRecordQuality, ConfirmAcceptance, MayConfirmAcceptance
<1>2. unit' \in DeliveryUnit
  BY <1>1, RoutedUnitType DEF RouteVerdict, TypeOK
<1>3. activeUnit' \in BOOLEAN /\ stage' \in Stages
  BY <1>1, DerivedStage DEF RouteVerdict
<1>4. quality' \in [Revisions -> [Criteria -> QualityRun]]
  <2>1. ASSUME NEW result \in {"pass", "fail", "blocked"}, RecordQuality(a, c, r, result, owner)
        PROVE  quality' \in [Revisions -> [Criteria -> QualityRun]]
    <3>1. [result |-> result, owner |-> owner] \in QualityRun
      BY DEF QualityRun
    <3>2. quality' = [quality EXCEPT ![r][c] = [result |-> result, owner |-> owner]]
      BY <2>1 DEF RecordQuality, MayRecordQuality
    <3> QED BY <3>1, <3>2 DEF TypeOK
  <2>2. ASSUME NEW result \in {"pass", "fail"}, ConfirmAcceptance(a, c, r, result, owner)
        PROVE  quality' \in [Revisions -> [Criteria -> QualityRun]]
    BY <2>2 DEF ConfirmAcceptance, MayConfirmAcceptance, TypeOK
  <2> QED BY <2>1, <2>2
<1>5. acceptance' \in [Revisions -> [Criteria -> AcceptanceConfirmation]]
  <2>1. ASSUME NEW result \in {"pass", "fail", "blocked"}, RecordQuality(a, c, r, result, owner)
        PROVE  acceptance' \in [Revisions -> [Criteria -> AcceptanceConfirmation]]
    BY <2>1 DEF RecordQuality, MayRecordQuality, TypeOK
  <2>2. ASSUME NEW result \in {"pass", "fail"}, ConfirmAcceptance(a, c, r, result, owner)
        PROVE  acceptance' \in [Revisions -> [Criteria -> AcceptanceConfirmation]]
    <3> DEFINE v == [result |-> result, owner |-> owner, by |-> a]
    <3>1. v \in AcceptanceConfirmation
      BY DEF AcceptanceConfirmation
    <3>2. acceptance' = [acceptance EXCEPT ![r][c] = v]
      BY <2>2 DEF ConfirmAcceptance, MayConfirmAcceptance
    <3> HIDE DEF v
    <3> QED BY <3>1, <3>2 DEF TypeOK
  <2> QED BY <2>1, <2>2
<1> QED BY <1>1, <1>2, <1>3, <1>4, <1>5 DEF TypeOK, delivery

\* A command on the checks or a Release keeps the types.
LEMMA ReleaseStepType ==
  ASSUME TypeOK, NEW a \in Actors, ReleaseStep(a)
  PROVE  TypeOK'
<1>1. ASSUME NEW env \in Environments, NEW required \in CheckLists,
             ReplaceReleaseChecks(a, env, required)
      PROVE  TypeOK'
  <2>1. PICK ids \in SUBSET CheckIds : required \in [ids -> BOOLEAN]
    BY DEF CheckLists
  <2>2. checks' \in [ids -> ReleaseCheck]
    BY <1>1, <2>1 DEF ReplaceReleaseChecks, ReleaseCheck
  <2>3. checks' \in CheckTables
    BY <2>2 DEF CheckTables
  <2> QED BY <1>1, <2>3, DerivedStage DEF ReplaceReleaseChecks, TypeOK, evidence
<1>2. ASSUME NEW id \in CheckIds, NEW r \in Revisions, NEW status \in {"passed", "failed"},
             RecordReleaseCheck(a, id, r, status)
      PROVE  TypeOK'
  <2>1. PICK ids \in SUBSET CheckIds : checks \in [ids -> ReleaseCheck]
    BY DEF TypeOK, CheckTables
  <2>2. checks' \in [ids -> ReleaseCheck]
    BY <1>2, <2>1 DEF RecordReleaseCheck, MayRecordReleaseCheck, ReleaseCheck
  <2>3. checks' \in CheckTables
    BY <2>2 DEF CheckTables
  <2> QED BY <1>2, <2>3, DerivedStage DEF RecordReleaseCheck, MayRecordReleaseCheck, TypeOK,
                                          evidence
<1>3. ASSUME NEW env \in Environments, PrepareV3Release(a, env)
      PROVE  TypeOK'
  <2> DEFINE release == [revision |-> VerificationRevision, environment |-> env,
                         status |-> "draft", approvedBy |-> NoActor, attempt |-> NoAttempt]
  <2>1. VerificationRevision \in Revisions
    BY <1>3 DEF PrepareV3Release, MayPrepareV3Release, VerificationRevision, TypeOK, DeliveryUnit
  <2>2. release \in Release
    BY <2>1 DEF Release, ReleaseStatus
  <2>3. releases' = Append(releases, release) /\ Len(releases) < MaxReleases
    BY <1>3 DEF PrepareV3Release, MayPrepareV3Release
  <2> HIDE DEF release
  <2>4. releases' \in Seq(Release) /\ Len(releases') <= MaxReleases
    BY <2>2, <2>3, RunAssumption DEF TypeOK
  <2> QED BY <1>3, <2>4, DerivedStage DEF PrepareV3Release, MayPrepareV3Release, TypeOK, evidence
<1>4. ASSUME NEW i \in 1..MaxReleases, ApproveRelease(a, i)
      PROVE  TypeOK'
  <2> DEFINE release == [releases[i] EXCEPT !.status = "approved", !.approvedBy = a]
  <2>1. i \in ReleaseIndex /\ releases[i] \in Release /\ SetRelease(i, release)
    BY <1>4 DEF ApproveRelease, MayApproveRelease, TypeOK, ReleaseIndex
  <2>2. release \in Release
    BY <2>1 DEF Release, ReleaseStatus
  <2> HIDE DEF release
  <2> QED BY <2>1, <2>2, SetReleaseType
<1>5. ASSUME NEW i \in 1..MaxReleases, NEW outcome \in Outcomes, NEW url \in BOOLEAN,
             RecordDeployment(a, i, outcome, url)
      PROVE  TypeOK'
  <2> DEFINE release == [releases[i] EXCEPT
                           !.status = StatusAfter(outcome),
                           !.attempt = [outcome |-> outcome, launchURL |-> url]]
  <2>1. i \in ReleaseIndex /\ releases[i] \in Release /\ SetRelease(i, release)
    BY <1>5 DEF RecordDeployment, MayRecordDeployment, TypeOK, ReleaseIndex
  <2>2. StatusAfter(outcome) \in ReleaseStatus
    BY DEF StatusAfter, Outcomes, ReleaseStatus
  <2>3. release \in Release
    BY <2>1, <2>2 DEF Release, Attempt
  <2> HIDE DEF release
  <2> QED BY <2>1, <2>3, SetReleaseType
<1>6. ASSUME NEW i \in 1..MaxReleases, NEW outcome \in Outcomes, NEW url \in BOOLEAN,
             ReconcileDeployment(a, i, outcome, url)
      PROVE  TypeOK'
  <2> DEFINE release == [releases[i] EXCEPT
                           !.status = StatusAfter(outcome),
                           !.attempt = [outcome |-> outcome,
                                        launchURL |-> ReconciledURL(i, url)]]
  <2>1. i \in ReleaseIndex /\ releases[i] \in Release /\ SetRelease(i, release)
    BY <1>6 DEF ReconcileDeployment, MayReconcileDeployment, TypeOK, ReleaseIndex
  <2>2. StatusAfter(outcome) \in ReleaseStatus
    BY DEF StatusAfter, Outcomes, ReleaseStatus
  <2>3. ReconciledURL(i, url) \in BOOLEAN
    BY DEF ReconciledURL
  <2>4. release \in Release
    BY <2>1, <2>2, <2>3 DEF Release, Attempt
  <2> HIDE DEF release
  <2> QED BY <2>1, <2>4, SetReleaseType
<1> QED BY <1>1, <1>2, <1>3, <1>4, <1>5, <1>6 DEF ReleaseStep

\* Every command keeps the types.
LEMMA TypeStep == TypeOK /\ [Next]_vars => TypeOK'
<1> SUFFICES ASSUME TypeOK, [Next]_vars PROVE TypeOK'
  OBVIOUS
<1>1. ASSUME NEW a \in Actors, LegacyCommand(a) PROVE TypeOK'
  BY <1>1, DerivedStage DEF LegacyCommand, TypeOK, evidence, delivery
<1>2. CASE UNCHANGED vars
  BY <1>2 DEF vars, TypeOK
<1> QED BY <1>1, <1>2, UnitStepType, VerdictStepType, ReleaseStepType DEF Next

\* Every reachable state of a run is well-typed: no command stores a value outside
\* its domain, and a run never prepares more Releases than the bound.
THEOREM TypeCorrect == Spec => []TypeOK
  BY InitType, TypeStep, PTL DEF Spec

-----------------------------------------------------------------------------
(* The gates of the unit.                                                  *)

\* A verdict is only given on a complete unit: its revision is the unit's
\* implementation and no unit is active.
LEMMA VerdictOnComplete ==
  ASSUME NEW r \in Revisions, r = VerificationRevision
  PROVE  /\ ~activeUnit
         /\ unit.phase = "complete"
         /\ unit.journey = "passed"
         /\ r = unit.implementation
  BY RunAssumption DEF VerificationRevision

\* Every command keeps the gates behind the phase: a unit command by advanceDeliveryUnit,
\* a failed verdict by routeV3Failure, and nothing else touches the unit.
LEMMA UnitGatesStep == TypeOK /\ UnitGates /\ [Next]_vars => UnitGates'
<1> SUFFICES ASSUME TypeOK, UnitGates, [Next]_vars PROVE UnitGates'
  OBVIOUS
<1> USE DEF UnitGates, AfterInteraction, AfterCompile, AfterFrontend, AfterFreeze, AfterBackend
<1>1. ASSUME UNCHANGED <<activeUnit, unit>> PROVE UnitGates'
  BY <1>1
<1>2. ASSUME NEW a \in Actors, UnitStep(a) PROVE UnitGates'
  <2> USE RunAssumption DEF UnitCommand, Advance, TypeOK, DeliveryUnit, Phases
  <2>1. CASE InteractionComplete(a)  BY <2>1 DEF InteractionComplete, MayCompleteInteraction
  <2>2. CASE ModelComplete(a)  BY <2>2 DEF ModelComplete, MayCompleteModel
  <2>3. CASE CompileComplete(a)  BY <2>3 DEF CompileComplete, MayCompleteCompile
  <2>4. CASE FrontendComplete(a)  BY <2>4 DEF FrontendComplete, MayCompleteFrontend
  <2>5. CASE ContractGapReport(a)  BY <2>5 DEF ContractGapReport, MayReportGap, ContractReopened
  <2>6. ASSUME NEW r \in Revisions, ContractFreeze(a, r) PROVE UnitGates'
    BY <2>6 DEF ContractFreeze, MayFreezeContract
  <2>7. ASSUME NEW r \in Revisions, BackendComplete(a, r) PROVE UnitGates'
    BY <2>7 DEF BackendComplete, MayCompleteBackend
  <2>8. CASE BackendReopen(a)  BY <2>8 DEF BackendReopen
  <2>9. CASE ContractReopen(a)  BY <2>9 DEF ContractReopen, ContractReopened
  <2>10. ASSUME NEW r \in Revisions, JourneyComplete(a, r) PROVE UnitGates'
    BY <2>10 DEF JourneyComplete, MayCompleteJourney
  <2> QED BY <1>2, <2>1, <2>2, <2>3, <2>4, <2>5, <2>6, <2>7, <2>8, <2>9, <2>10 DEF UnitStep
<1>3. ASSUME NEW a \in Actors, VerdictStep(a) PROVE UnitGates'
  <2> PICK r \in Revisions, owner \in Owners : r = VerificationRevision /\ RouteVerdict(owner)
    BY <1>3 DEF VerdictStep, RecordQuality, MayRecordQuality, ConfirmAcceptance,
                MayConfirmAcceptance
  <2>1. unit.phase = "complete" /\ unit.journey = "passed" /\ unit \in DeliveryUnit
    BY VerdictOnComplete DEF TypeOK
  <2>2. CASE owner = "frontend"
    BY <2>1, <2>2 DEF RouteVerdict, RoutedUnit, RoutedOwners, DeliveryUnit
  <2>3. CASE owner = "backend"
    BY <2>1, <2>3 DEF RouteVerdict, RoutedUnit, RoutedOwners, DeliveryUnit
  <2>4. CASE owner \notin RoutedOwners
    BY <2>1, <2>4 DEF RouteVerdict, RoutedUnit, RoutedOwners
  <2> QED BY <2>2, <2>3, <2>4 DEF RoutedOwners
<1>4. ASSUME NEW a \in Actors, ReleaseStep(a) PROVE UnitGates'
  BY <1>1, <1>4 DEF ReleaseStep, ReplaceReleaseChecks, RecordReleaseCheck,
                    MayRecordReleaseCheck, PrepareV3Release, MayPrepareV3Release,
                    ApproveRelease, MayApproveRelease, RecordDeployment, MayRecordDeployment,
                    ReconcileDeployment, MayReconcileDeployment, SetRelease
<1>5. ASSUME NEW a \in Actors, LegacyCommand(a) PROVE UnitGates'
  BY <1>1, <1>5 DEF LegacyCommand
<1>6. CASE UNCHANGED vars
  BY <1>1, <1>6 DEF vars
<1> QED BY <1>2, <1>3, <1>4, <1>5, <1>6 DEF Next

\* However often it goes back, the unit is in a phase only with every earlier gate
\* passed, and it has an implementation revision only while the backend's
\* completion stands: advanceDeliveryUnit and routeV3Failure agree on what they void.
THEOREM GatesHold == Spec => []UnitGates
<1>1. Init => UnitGates
  BY DEF Init, UnitGates, AfterInteraction, AfterCompile, AfterFrontend, AfterFreeze, AfterBackend
<1> QED BY <1>1, UnitGatesStep, TypeCorrect, PTL DEF Spec

-----------------------------------------------------------------------------
(* Accepted revisions and the ground of a Release.                         *)

\* The steps that leave verdicts and unit alone derive the stage again.
LEMMA StageAfterAcceptance ==
  ASSUME NEW r \in Revisions, VerificationRevision' = r, Accepted(r)'
  PROVE  DeriveStage' \in {"release", "live"}
  BY RunAssumption DEF DeriveStage, DeriveV3Stage, Accepted

\* The stage derived as "release" means that the verified revision is accepted.
LEMMA ReleaseStageAccepted ==
  ASSUME TypeOK', DeriveStage' = "release"
  PROVE  VerificationRevision' \in Revisions /\ Accepted(VerificationRevision)'
  BY RunAssumption DEF DeriveStage, DeriveV3Stage, Accepted, VerificationRevision, TypeOK,
                       DeliveryUnit

\* A release-stage or pre-V3 command leaves the unit and the verdicts alone.
LEMMA ReleaseStepFrame ==
  ASSUME NEW a \in Actors, ReleaseStep(a) \/ LegacyCommand(a)
  PROVE  /\ UNCHANGED <<activeUnit, unit, quality, acceptance>>
         /\ stage' = DeriveStage'
<1>1. CASE ReleaseStep(a)
  BY <1>1 DEF ReleaseStep, ReplaceReleaseChecks, RecordReleaseCheck, MayRecordReleaseCheck,
              PrepareV3Release, MayPrepareV3Release, ApproveRelease, MayApproveRelease,
              RecordDeployment, MayRecordDeployment, ReconcileDeployment,
              MayReconcileDeployment, SetRelease, evidence
<1>2. CASE LegacyCommand(a)
  BY <1>2 DEF LegacyCommand, evidence
<1> QED BY <1>1, <1>2

\* A unit command finds no revision under verification and leaves the verdicts.
LEMMA UnitStepFrame ==
  ASSUME NEW a \in Actors, UnitStep(a)
  PROVE  /\ activeUnit
         /\ VerificationRevision = NoRevision
         /\ UNCHANGED <<quality, acceptance, checks, releases>>
         /\ stage' = stage \/ stage' = "testing"
  BY DEF UnitStep, UnitCommand, Advance, InteractionComplete, MayCompleteInteraction,
         ModelComplete, MayCompleteModel, CompileComplete, MayCompleteCompile, FrontendComplete,
         MayCompleteFrontend, ContractGapReport, MayReportGap, ContractFreeze,
         MayFreezeContract, BackendComplete, MayCompleteBackend, BackendReopen, ContractReopen,
         JourneyComplete, MayCompleteJourney, VerificationRevision, evidence, delivery

\* A verdict is given before the release stage, on the revision under verification.
\* It changes no other revision's verdicts, and only a pass leaves the unit alone.
LEMMA VerdictFrame ==
  ASSUME TypeOK, NEW a \in Actors, VerdictStep(a)
  PROVE  \E c \in Criteria, r \in Revisions :
           /\ stage \in {"testing", "acceptance"}
           /\ r = VerificationRevision
           /\ UNCHANGED <<checks, releases>>
           /\ stage' = DeriveStage'
           /\ \A s \in Revisions \ {r} :
                quality'[s] = quality[s] /\ acceptance'[s] = acceptance[s]
           /\ VerificationRevision' \in {r, NoRevision}
           /\ \/ UNCHANGED <<activeUnit, unit>>
              \/ c \notin Passing(quality'[r])
              \/ c \notin Passing(acceptance'[r])
<1> PICK c \in Criteria, r \in Revisions, owner \in Owners :
      \/ \E result \in {"pass", "fail", "blocked"} : RecordQuality(a, c, r, result, owner)
      \/ \E result \in {"pass", "fail"} : ConfirmAcceptance(a, c, r, result, owner)
  BY DEF VerdictStep
<1>1. /\ stage \in {"testing", "acceptance"} /\ ~activeUnit
      /\ r = VerificationRevision
      /\ UNCHANGED <<checks, releases>>
      /\ stage' = DeriveStage'
      /\ RouteVerdict(owner)
  BY DEF RecordQuality, MayRecordQuality, QualityStage, ConfirmAcceptance, MayConfirmAcceptance,
         delivery
<1>2. \A s \in Revisions \ {r} :
         quality'[s] = quality[s] /\ acceptance'[s] = acceptance[s]
  BY DEF RecordQuality, MayRecordQuality, ConfirmAcceptance, MayConfirmAcceptance, TypeOK
<1>3. VerificationRevision' \in {r, NoRevision}
  <2>1. CASE owner \in RoutedOwners
    BY <1>1, <2>1 DEF RouteVerdict, VerificationRevision
  <2>2. CASE owner \notin RoutedOwners
    BY <1>1, <2>2 DEF RouteVerdict, RoutedUnit, RoutedOwners, VerificationRevision
  <2> QED BY <2>1, <2>2
<1>4. CASE owner \in FailureOwners
  <2>1. ASSUME NEW result, RecordQuality(a, c, r, result, owner)
        PROVE  c \notin Passing(quality'[r])
    <3>1. result = "fail"
      BY <1>4, <2>1 DEF RecordQuality, MayRecordQuality, Verdicts
    <3>2. quality'[r][c].result = "fail"
      BY <2>1, <3>1 DEF RecordQuality, MayRecordQuality, TypeOK
    <3> QED BY <3>2 DEF Passing
  <2>2. ASSUME NEW result, ConfirmAcceptance(a, c, r, result, owner)
        PROVE  c \notin Passing(acceptance'[r])
    <3>1. result = "fail"
      BY <1>4, <2>2 DEF ConfirmAcceptance, MayConfirmAcceptance, Verdicts
    <3>2. acceptance'[r][c].result = "fail"
      BY <2>2, <3>1 DEF ConfirmAcceptance, MayConfirmAcceptance, TypeOK
    <3> QED BY <3>2 DEF Passing
  <2> QED BY <1>1, <1>2, <1>3, <2>1, <2>2
<1>5. CASE owner \notin FailureOwners
  <2>1. owner \notin RoutedOwners
    BY <1>5 DEF Owners, RoutedOwners
  <2>2. unit' = unit
    BY <1>1, <2>1 DEF RouteVerdict, RoutedUnit, RoutedOwners
  <2>3. activeUnit' = FALSE /\ activeUnit = FALSE
    BY <1>1, <2>1 DEF RouteVerdict, TypeOK
  <2> QED BY <1>1, <1>2, <1>3, <2>2, <2>3
<1> QED BY <1>4, <1>5

\* No command makes a revision accepted that is not the one under verification.
LEMMA AcceptedStep ==
  TypeOK /\ AcceptedIsCandidate /\ [Next]_vars => AcceptedIsCandidate'
<1> SUFFICES ASSUME TypeOK, AcceptedIsCandidate, [Next]_vars,
                    NEW r \in Revisions, Accepted(r)'
             PROVE  VerificationRevision' = r /\ stage' \in {"release", "live"}
  BY DEF AcceptedIsCandidate
<1> USE DEF Accepted, AllQualityPass, AllAcceptancePass, AllPass, Passing
<1>1. ASSUME Accepted(r) PROVE VerificationRevision = r /\ stage \in {"release", "live"}
  BY <1>1 DEF AcceptedIsCandidate
<1>2. ASSUME NEW a \in Actors, UnitStep(a) PROVE FALSE
  BY <1>1, <1>2, UnitStepFrame, RunAssumption
<1>3. ASSUME NEW a \in Actors, VerdictStep(a)
      PROVE  VerificationRevision' = r /\ stage' \in {"release", "live"}
  <2> PICK c \in Criteria, s \in Revisions :
           /\ stage \in {"testing", "acceptance"}
           /\ s = VerificationRevision
           /\ UNCHANGED <<checks, releases>>
           /\ stage' = DeriveStage'
           /\ \A t \in Revisions \ {s} :
                quality'[t] = quality[t] /\ acceptance'[t] = acceptance[t]
           /\ \/ UNCHANGED <<activeUnit, unit>>
              \/ c \notin Passing(quality'[s])
              \/ c \notin Passing(acceptance'[s])
    BY <1>3, VerdictFrame
  <2>1. r = s
    BY <1>1
  <2>2. UNCHANGED <<activeUnit, unit>>
    BY <2>1
  <2>3. VerificationRevision' = r
    BY <2>1, <2>2 DEF VerificationRevision
  <2> QED BY <2>3, StageAfterAcceptance
<1>4. ASSUME NEW a \in Actors, ReleaseStep(a) \/ LegacyCommand(a)
      PROVE  VerificationRevision' = r /\ stage' \in {"release", "live"}
  <2>1. UNCHANGED <<activeUnit, unit, quality, acceptance>> /\ stage' = DeriveStage'
    BY <1>4, ReleaseStepFrame
  <2>2. VerificationRevision' = r
    BY <1>1, <2>1 DEF VerificationRevision
  <2> QED BY <2>1, <2>2, StageAfterAcceptance
<1>5. ASSUME UNCHANGED vars
      PROVE  VerificationRevision' = r /\ stage' \in {"release", "live"}
  BY <1>1, <1>5 DEF vars, VerificationRevision
<1> QED BY <1>2, <1>3, <1>4, <1>5 DEF Next

\* A new run has accepted nothing: there is at least one criterion.
LEMMA AcceptedInit == Init => AcceptedIsCandidate
<1> SUFFICES ASSUME Init, NEW r \in Revisions PROVE ~AllQualityPass(r)
  BY DEF AcceptedIsCandidate, Accepted
<1>1. 1 \in Criteria
  BY RunAssumption DEF Criteria
<1>2. quality[r][1].result = "none"
  BY <1>1 DEF Init, NotObserved
<1> QED BY <1>1, <1>2 DEF AllQualityPass, AllPass, Passing

\* A revision all of whose verdicts are passes is the one the run stands on, at or
\* past the release stage: no order of failing, reopening and judging again lets a
\* revision come back from development already accepted.
THEOREM AcceptedHolds == Spec => []AcceptedIsCandidate
  BY AcceptedInit, AcceptedStep, TypeCorrect, PTL DEF Spec

\* A revision under verification and a standing Release rule each other in or out:
\* while a Release stands, or a check exists, the unit commands and the verdicts
\* are over.
LEMMA AcceptedBlocks ==
  ASSUME TypeOK, AcceptedIsCandidate, NEW a \in Actors, UnitStep(a) \/ VerdictStep(a),
         VerificationRevision \in Revisions, Accepted(VerificationRevision)
  PROVE  FALSE
<1>1. stage \in {"release", "live"}
  BY DEF AcceptedIsCandidate
<1>2. CASE UnitStep(a)
  BY <1>2, UnitStepFrame, RunAssumption
<1>3. CASE VerdictStep(a)
  BY <1>1, <1>3, VerdictFrame
<1> QED BY <1>2, <1>3

\* Every command keeps the ground the release-stage commands stand on.
LEMMA GroundStep ==
  TypeOK /\ AcceptedIsCandidate /\ ReleaseGround /\ [Next]_vars => ReleaseGround'
<1> SUFFICES ASSUME TypeOK, AcceptedIsCandidate, ReleaseGround, [Next]_vars
             PROVE  ReleaseGround'
  OBVIOUS
<1>0. TypeOK'
  BY TypeStep
<1>1. ASSUME NEW a \in Actors, UnitStep(a) \/ VerdictStep(a) PROVE ReleaseGround'
  <2>1. stage # "release" /\ DOMAIN checks = {}
    BY <1>1, AcceptedBlocks DEF ReleaseGround
  <2>2. checks' = checks
    BY <1>1, UnitStepFrame, VerdictFrame
  <2>3. stage' = DeriveStage' \/ stage' \in {stage, "testing"}
    BY <1>1, UnitStepFrame, VerdictFrame
  <2> QED BY <1>0, <2>1, <2>2, <2>3, ReleaseStageAccepted DEF ReleaseGround
<1>2. ASSUME NEW a \in Actors, ReleaseStep(a) \/ LegacyCommand(a) PROVE ReleaseGround'
  <2>1. UNCHANGED <<activeUnit, unit, quality, acceptance>> /\ stage' = DeriveStage'
    BY <1>2, ReleaseStepFrame
  <2>2. /\ VerificationRevision' = VerificationRevision
        /\ Accepted(VerificationRevision)' = Accepted(VerificationRevision)
    BY <2>1 DEF VerificationRevision, Accepted, AllQualityPass, AllAcceptancePass
  <2>3. stage' = "release" =>
          VerificationRevision' \in Revisions /\ Accepted(VerificationRevision)'
    BY <1>0, <2>1, ReleaseStageAccepted
  <2>4. CASE checks' = checks
    BY <2>2, <2>3, <2>4 DEF ReleaseGround
  <2>5. ASSUME NEW env \in Environments, NEW required \in CheckLists,
               ReplaceReleaseChecks(a, env, required)
        PROVE  ReleaseGround'
    <3>1. VerificationRevision \in Revisions /\ Accepted(VerificationRevision)
      BY <2>5 DEF ReplaceReleaseChecks, ChecksOpen, ReleaseGround
    <3>2. \A id \in DOMAIN checks' : checks'[id].status = "pending"
      BY <2>5 DEF ReplaceReleaseChecks
    <3> QED BY <2>2, <2>3, <3>1, <3>2 DEF ReleaseGround
  <2>6. ASSUME NEW id \in CheckIds, NEW r \in Revisions, NEW status \in {"passed", "failed"},
               RecordReleaseCheck(a, id, r, status)
        PROVE  ReleaseGround'
    <3>1. VerificationRevision \in Revisions /\ Accepted(VerificationRevision)
      BY <2>6 DEF RecordReleaseCheck, MayRecordReleaseCheck, ChecksOpen, ReleaseGround
    <3>2. PICK ids \in SUBSET CheckIds : checks \in [ids -> ReleaseCheck]
      BY DEF TypeOK, CheckTables
    <3>3. DOMAIN checks' = DOMAIN checks
      BY <2>6, <3>2 DEF RecordReleaseCheck, MayRecordReleaseCheck
    <3>4. checks'[id].evidence = VerificationRevision
      BY <2>6, <3>2 DEF RecordReleaseCheck, MayRecordReleaseCheck, ReleaseCheck
    <3>5. \A x \in DOMAIN checks \ {id} : checks'[x] = checks[x]
      BY <2>6, <3>2 DEF RecordReleaseCheck, MayRecordReleaseCheck
    <3>6. \A x \in DOMAIN checks' :
             checks'[x].status = "passed" => checks'[x].evidence = VerificationRevision
      BY <3>3, <3>4, <3>5 DEF ReleaseGround
    <3> QED BY <2>2, <2>3, <3>1, <3>6 DEF ReleaseGround
  <2> QED BY <1>2, <2>4, <2>5, <2>6 DEF ReleaseStep, LegacyCommand, PrepareV3Release,
                                        MayPrepareV3Release, ApproveRelease, MayApproveRelease,
                                        RecordDeployment, MayRecordDeployment,
                                        ReconcileDeployment, MayReconcileDeployment, SetRelease,
                                        delivery
<1>3. ASSUME UNCHANGED vars PROVE ReleaseGround'
  BY <1>3 DEF vars, ReleaseGround, VerificationRevision, Accepted, AllQualityPass,
              AllAcceptancePass
<1> QED BY <1>1, <1>2, <1>3 DEF Next

\* A Release that moves on keeps the ground it stands on.
LEMMA SetReleaseEvidence ==
  ASSUME TypeOK, ReleaseEvidence, NEW i \in ReleaseIndex, NEW release,
         releases[i].status # "failed",
         release.revision = releases[i].revision,
         release.environment = releases[i].environment,
         SetRelease(i, release)
  PROVE  ReleaseEvidence'
<1>1. /\ UNCHANGED <<activeUnit, unit, quality, acceptance, checks>>
      /\ releases' = [releases EXCEPT ![i] = release]
      /\ ReleaseIndex' = ReleaseIndex
  BY DEF SetRelease, evidence, TypeOK, ReleaseIndex
<1>2. VerificationRevision' = VerificationRevision /\ ReleaseGatesPass' = ReleaseGatesPass
  BY <1>1 DEF VerificationRevision, ReleaseGatesPass, AllQualityPass, AllAcceptancePass,
              AllRequiredChecksPass
<1>3. ASSUME NEW j \in ReleaseIndex, releases'[j].status # "failed"
      PROVE  /\ releases[j].status # "failed"
             /\ releases'[j].revision = releases[j].revision
             /\ releases'[j].environment = releases[j].environment
  <2>1. CASE j = i
    BY <1>1, <2>1 DEF TypeOK, ReleaseIndex
  <2>2. CASE j # i
    BY <1>1, <1>3, <2>2 DEF TypeOK, ReleaseIndex
  <2> QED BY <2>1, <2>2
<1> QED BY <1>1, <1>2, <1>3 DEF ReleaseEvidence

\* Every command keeps the evidence of each standing Release.
LEMMA EvidenceStep ==
  EvidenceInvariant /\ [Next]_vars => ReleaseEvidence'
<1> SUFFICES ASSUME EvidenceInvariant, [Next]_vars PROVE ReleaseEvidence'
  OBVIOUS
<1> USE DEF EvidenceInvariant
<1>1. ASSUME NEW i \in ReleaseIndex, releases[i].status # "failed"
      PROVE  VerificationRevision \in Revisions /\ Accepted(VerificationRevision)
  <2>1. ReleaseGatesPass
    BY <1>1 DEF ReleaseEvidence
  <2>2. VerificationRevision \in Revisions \cup {NoRevision}
    BY DEF VerificationRevision, TypeOK, DeliveryUnit
  <2> QED BY <2>1, <2>2 DEF ReleaseGatesPass, Accepted
<1>2. ASSUME NEW a \in Actors, UnitStep(a) \/ VerdictStep(a) PROVE ReleaseEvidence'
  <2>1. \A i \in ReleaseIndex : releases[i].status = "failed"
    BY <1>1, <1>2, AcceptedBlocks
  <2>2. releases' = releases
    BY <1>2, UnitStepFrame, VerdictFrame
  <2> QED BY <2>1, <2>2 DEF ReleaseEvidence, ReleaseIndex
<1>3. ASSUME ChecksOpen, releases' = releases PROVE ReleaseEvidence'
  BY <1>3 DEF ChecksOpen, ActiveRelease, ReleaseEvidence, ReleaseIndex
<1>4. ASSUME UNCHANGED <<activeUnit, unit, quality, acceptance, checks, releases>>
      PROVE  ReleaseEvidence'
  BY <1>4 DEF ReleaseEvidence, ReleaseIndex, ReleaseGatesPass, VerificationRevision,
              AllQualityPass, AllAcceptancePass, AllRequiredChecksPass
<1>5. ASSUME NEW a \in Actors, NEW env \in Environments, PrepareV3Release(a, env)
      PROVE  ReleaseEvidence'
  <2> DEFINE r == VerificationRevision
             new == [revision |-> r, environment |-> env, status |-> "draft",
                     approvedBy |-> NoActor, attempt |-> NoAttempt]
  <2>1. /\ UNCHANGED <<activeUnit, unit, quality, acceptance, checks>>
        /\ releases' = Append(releases, new)
        /\ r # NoRevision /\ AllQualityPass(r) /\ AllAcceptancePass(r)
        /\ AllRequiredChecksPass /\ ~RevisionReleased(r)
        /\ \A id \in DOMAIN checks : checks[id].environment = env
    BY <1>5 DEF PrepareV3Release, MayPrepareV3Release, evidence
  <2>2. VerificationRevision' = r /\ ReleaseGatesPass' = ReleaseGatesPass
    BY <2>1 DEF VerificationRevision, ReleaseGatesPass, AllQualityPass, AllAcceptancePass,
                AllRequiredChecksPass
  <2>3. ReleaseGatesPass
    BY <2>1 DEF ReleaseGatesPass, VerificationRevision
  <2>4. \A id \in DOMAIN checks : checks[id].required => checks[id].evidence = r
    BY <2>1 DEF AllRequiredChecksPass, ReleaseGround
  <2>5. \A i \in ReleaseIndex : releases[i].status = "failed"
    BY <2>1 DEF RevisionReleased, ReleaseEvidence
  <2>6. ASSUME NEW i \in ReleaseIndex', releases'[i].status # "failed"
        PROVE  releases'[i] = new
    BY <2>1, <2>5, <2>6 DEF ReleaseIndex, TypeOK
  <2>7. new.revision = r /\ new.environment = env
    OBVIOUS
  <2> HIDE DEF new
  <2> QED BY <2>1, <2>2, <2>3, <2>4, <2>6, <2>7 DEF ReleaseEvidence
<1>6. ASSUME NEW a \in Actors, NEW i \in 1..MaxReleases, ApproveRelease(a, i)
      PROVE  ReleaseEvidence'
  <2> DEFINE release == [releases[i] EXCEPT !.status = "approved", !.approvedBy = a]
  <2>1. /\ i \in ReleaseIndex /\ releases[i].status # "failed"
        /\ releases[i] \in Release /\ SetRelease(i, release)
    BY <1>6 DEF ApproveRelease, MayApproveRelease, TypeOK, ReleaseIndex
  <2>2. /\ release.revision = releases[i].revision
        /\ release.environment = releases[i].environment
    BY <2>1 DEF Release
  <2> HIDE DEF release
  <2> QED BY <2>1, <2>2, SetReleaseEvidence
<1>7. ASSUME NEW a \in Actors, NEW i \in 1..MaxReleases, NEW outcome \in Outcomes,
             NEW url \in BOOLEAN,
             RecordDeployment(a, i, outcome, url) \/ ReconcileDeployment(a, i, outcome, url)
      PROVE  ReleaseEvidence'
  <2>1. PICK attempt : SetRelease(i, [releases[i] EXCEPT !.status = StatusAfter(outcome),
                                                         !.attempt = attempt])
    BY <1>7 DEF RecordDeployment, MayRecordDeployment, ReconcileDeployment, MayReconcileDeployment
  <2> DEFINE release == [releases[i] EXCEPT !.status = StatusAfter(outcome),
                                            !.attempt = attempt]
  <2>2. /\ i \in ReleaseIndex /\ releases[i].status # "failed" /\ releases[i] \in Release
    BY <1>7 DEF RecordDeployment, MayRecordDeployment, ReconcileDeployment,
                MayReconcileDeployment, Reconcilable, TypeOK, ReleaseIndex
  <2>3. /\ release.revision = releases[i].revision
        /\ release.environment = releases[i].environment
    BY <2>2 DEF Release
  <2> HIDE DEF release
  <2> QED BY <2>1, <2>2, <2>3, SetReleaseEvidence DEF release
<1>8. ASSUME NEW a \in Actors, ReleaseStep(a) \/ LegacyCommand(a) PROVE ReleaseEvidence'
  BY <1>3, <1>4, <1>5, <1>6, <1>7, <1>8 DEF ReleaseStep, ReplaceReleaseChecks,
     RecordReleaseCheck, MayRecordReleaseCheck, LegacyCommand, evidence, delivery
<1> QED BY <1>2, <1>4, <1>8 DEF Next, vars

\* A new run satisfies the inductive invariant.
LEMMA EvidenceInit == Init => EvidenceInvariant
<1> SUFFICES ASSUME Init PROVE EvidenceInvariant
  OBVIOUS
<1>1. UnitGates
  BY DEF Init, UnitGates, AfterInteraction, AfterCompile, AfterFrontend, AfterFreeze, AfterBackend
<1>2. ReleaseGround
  BY DEF Init, ReleaseGround
<1>3. ReleaseEvidence
  BY DEF Init, ReleaseEvidence, ReleaseIndex
<1> QED BY <1>1, <1>2, <1>3, InitType, AcceptedInit DEF EvidenceInvariant

\* The inductive invariant holds throughout: each part is kept by every command, given
\* the parts before it.
THEOREM EvidenceHolds == Spec => []EvidenceInvariant
<1>1. EvidenceInvariant /\ [Next]_vars => EvidenceInvariant'
  BY TypeStep, UnitGatesStep, AcceptedStep, GroundStep, EvidenceStep DEF EvidenceInvariant
<1> QED BY EvidenceInit, <1>1, PTL DEF Spec

\* A Release that has not failed stands on the unit's current implementation, with
\* every gate passing and every required check passed on evidence of that revision:
\* nothing the engine accepts after release.prepare can take its ground away.
THEOREM ReleaseEvidenceHolds == Spec => []ReleaseEvidence
<1>1. EvidenceInvariant => ReleaseEvidence
  BY DEF EvidenceInvariant
<1> QED BY <1>1, EvidenceHolds, PTL

\* A Release is prepared only when no other stands: each standing one is of the one
\* accepted revision, and release.prepare refuses a second one of a revision.
LEMMA OneActiveStep ==
  EvidenceInvariant /\ OneActiveRelease /\ [Next]_vars => OneActiveRelease'
<1> SUFFICES ASSUME EvidenceInvariant, OneActiveRelease, [Next]_vars PROVE OneActiveRelease'
  OBVIOUS
<1> USE DEF EvidenceInvariant
<1>1. ASSUME releases' = releases PROVE OneActiveRelease'
  BY <1>1 DEF OneActiveRelease, ReleaseIndex
<1>2. ASSUME NEW i \in ReleaseIndex, NEW release, releases[i].status # "failed",
             SetRelease(i, release)
      PROVE  OneActiveRelease'
  <2>1. /\ ReleaseIndex' = ReleaseIndex
        /\ \A j \in ReleaseIndex \ {i} : releases'[j] = releases[j]
    BY <1>2 DEF SetRelease, TypeOK, ReleaseIndex
  <2>2. \A j \in ReleaseIndex \ {i} : releases[j].status = "failed"
    BY <1>2 DEF OneActiveRelease
  <2> QED BY <2>1, <2>2 DEF OneActiveRelease
<1>3. ASSUME NEW a \in Actors, NEW env \in Environments, PrepareV3Release(a, env)
      PROVE  OneActiveRelease'
  <2>1. PICK new : releases' = Append(releases, new)
    BY <1>3 DEF PrepareV3Release, MayPrepareV3Release
  <2>2. \A i \in ReleaseIndex : releases[i].status = "failed"
    BY <1>3 DEF PrepareV3Release, MayPrepareV3Release, RevisionReleased, ReleaseEvidence
  <2>3. /\ ReleaseIndex' = ReleaseIndex \cup {Len(releases) + 1}
        /\ \A i \in ReleaseIndex : releases'[i] = releases[i]
    BY <2>1 DEF TypeOK, ReleaseIndex
  <2> QED BY <2>2, <2>3 DEF OneActiveRelease
<1>4. ASSUME NEW a \in Actors, ReleaseStep(a) PROVE OneActiveRelease'
  BY <1>1, <1>2, <1>3, <1>4 DEF ReleaseStep, ReplaceReleaseChecks, RecordReleaseCheck,
                                MayRecordReleaseCheck, ApproveRelease, MayApproveRelease,
                                RecordDeployment, MayRecordDeployment, ReconcileDeployment,
                                MayReconcileDeployment, Reconcilable
<1>5. ASSUME NEW a \in Actors, UnitStep(a) \/ VerdictStep(a) PROVE OneActiveRelease'
  BY <1>1, <1>5, UnitStepFrame, VerdictFrame
<1> QED BY <1>1, <1>4, <1>5 DEF Next, vars, LegacyCommand, delivery

\* Two Releases of a run are never in progress together: prepareV3Release only
\* compares revisions, and that suffices because a standing Release is always at
\* the revision under verification.
THEOREM OneActiveHolds == Spec => []OneActiveRelease
<1>1. Init => OneActiveRelease
  BY DEF Init, OneActiveRelease, ReleaseIndex
<1> QED BY <1>1, OneActiveStep, EvidenceHolds, PTL DEF Spec

\* From release.prepare until its outcome a Release is the only one of its run, and stands
\* on verdicts and checks of its own revision, whatever else is recorded meanwhile.
THEOREM ReleasesStandHolds == Spec => []ReleasesStand
BY ReleaseEvidenceHolds, OneActiveHolds, PTL DEF ReleasesStand

\* While a Release is in progress, the unit, the verdicts and the checks it was
\* judged by do not move.
THEOREM EvidenceFrozen == Spec => EvidenceFrozenDuringRelease
<1>1. ASSUME EvidenceInvariant, [Next]_vars, ReleaseInProgress
      PROVE  UNCHANGED <<activeUnit, unit, evidence, checks>>
  <2> PICK i \in ReleaseIndex : releases[i].status # "failed"
    BY <1>1 DEF ReleaseInProgress
  <2>1. VerificationRevision \in Revisions /\ Accepted(VerificationRevision)
    <3>1. ReleaseGatesPass
      BY <1>1 DEF EvidenceInvariant, ReleaseEvidence
    <3>2. VerificationRevision \in Revisions \cup {NoRevision}
      BY <1>1 DEF EvidenceInvariant, VerificationRevision, TypeOK, DeliveryUnit
    <3> QED BY <3>1, <3>2 DEF ReleaseGatesPass, Accepted
  <2>2. ASSUME NEW a \in Actors, UnitStep(a) \/ VerdictStep(a) PROVE FALSE
    BY <1>1, <2>1, <2>2, AcceptedBlocks DEF EvidenceInvariant
  <2>3. ASSUME NEW a \in Actors, ReleaseStep(a) \/ LegacyCommand(a)
        PROVE  UNCHANGED <<activeUnit, unit, evidence, checks>>
    <3>1. ActiveRelease
      BY DEF ActiveRelease
    <3> QED BY <2>3, <3>1 DEF ReleaseStep, ReplaceReleaseChecks, RecordReleaseCheck,
                              MayRecordReleaseCheck, ChecksOpen, PrepareV3Release,
                              MayPrepareV3Release, ApproveRelease, MayApproveRelease,
                              RecordDeployment, MayRecordDeployment, ReconcileDeployment,
                              MayReconcileDeployment, SetRelease, LegacyCommand, delivery
  <2>4. CASE UNCHANGED vars
    BY <2>4 DEF vars, evidence
  <2> QED BY <1>1, <2>2, <2>3, <2>4 DEF Next
<1> QED BY <1>1, EvidenceHolds, PTL DEF Spec, EvidenceFrozenDuringRelease

-----------------------------------------------------------------------------
(* The run implements VerifiedRelease.                                     *)

\* What has become of the one Release that had not failed.
LEMMA DeliveredAfter ==
  ASSUME TypeOK, OneActiveRelease, ~RunIsLive, NEW i \in ReleaseIndex,
         releases[i].status # "failed", NEW release, SetRelease(i, release)
  PROVE  /\ Delivered = "releasing"
         /\ Delivered' = IF release.status = "live" THEN "live"
                         ELSE IF release.status = "failed" THEN "none" ELSE "releasing"
<1>1. /\ ReleaseIndex' = ReleaseIndex
      /\ releases'[i] = release
      /\ \A j \in ReleaseIndex \ {i} : releases'[j] = releases[j]
  BY DEF SetRelease, TypeOK, ReleaseIndex
<1>2. \A j \in ReleaseIndex \ {i} : releases[j].status = "failed"
  BY DEF OneActiveRelease
<1>3. Delivered = "releasing"
  BY DEF Delivered, ActiveRelease, RunIsLive
<1>4. (\E j \in ReleaseIndex' : releases'[j].status = "live") <=> release.status = "live"
  BY <1>1, <1>2
<1>5. ActiveRelease' <=> release.status # "failed"
  BY <1>1, <1>2 DEF ActiveRelease
<1> QED BY <1>3, <1>4, <1>5 DEF Delivered

\* A new run is an initial state of the promise.
LEMMA PromiseInit == Init => Promise!Init
<1> SUFFICES ASSUME Init PROVE Promise!Init
  OBVIOUS
<1>1. VerificationRevision = NoRevision
  BY DEF Init, VerificationRevision
<1>2. Delivered = "none"
  BY DEF Init, Delivered, ActiveRelease, ReleaseIndex
<1> QED BY <1>1, <1>2 DEF Promise!Init, CandidateAccepted

\* Every command is a step of the promise or leaves its three values alone.
LEMMA PromiseStep ==
  EvidenceInvariant /\ EvidenceInvariant' /\ OneActiveRelease /\ [Next]_vars
    => [Promise!Next]_(Promise!vars)
<1> SUFFICES ASSUME EvidenceInvariant, EvidenceInvariant', OneActiveRelease, [Next]_vars
             PROVE  [Promise!Next]_(Promise!vars)
  OBVIOUS
<1> USE DEF Promise!Next, Promise!vars
<1>0. /\ TypeOK /\ AcceptedIsCandidate /\ ReleaseGround /\ ReleaseEvidence
      /\ TypeOK' /\ AcceptedIsCandidate'
  BY DEF EvidenceInvariant
<1>1. /\ VerificationRevision \in Revisions \cup {NoRevision}
      /\ VerificationRevision' \in Revisions \cup {NoRevision}
      /\ CandidateAccepted \in BOOLEAN /\ CandidateAccepted' \in BOOLEAN
  BY <1>0 DEF VerificationRevision, TypeOK, DeliveryUnit, CandidateAccepted
<1>2. ASSUME releases' = releases PROVE Delivered' = Delivered
  BY <1>2 DEF Delivered, ActiveRelease, ReleaseIndex
<1>3. ASSUME UNCHANGED <<activeUnit, unit, quality, acceptance>>
      PROVE  /\ VerificationRevision' = VerificationRevision
             /\ CandidateAccepted' = CandidateAccepted
  BY <1>3 DEF VerificationRevision, CandidateAccepted, Accepted, AllQualityPass, AllAcceptancePass
<1>4. ASSUME NEW a \in Actors, UnitStep(a) PROVE [Promise!Next]_(Promise!vars)
  <2>1. /\ VerificationRevision = NoRevision /\ ~CandidateAccepted
        /\ UNCHANGED <<quality, acceptance, releases>>
    BY <1>4, UnitStepFrame DEF CandidateAccepted
  <2>2. ~CandidateAccepted'
    <3> SUFFICES ASSUME CandidateAccepted' PROVE FALSE
      OBVIOUS
    <3>1. PICK r \in Revisions : r = VerificationRevision' /\ Accepted(r)'
      BY <1>1 DEF CandidateAccepted, Accepted, AllQualityPass, AllAcceptancePass
    <3>2. Accepted(r)
      BY <2>1, <3>1 DEF Accepted, AllQualityPass, AllAcceptancePass
    <3> QED BY <1>0, <2>1, <3>2, RunAssumption DEF AcceptedIsCandidate
  <2>3. CandidateAccepted' = CandidateAccepted
    BY <1>1, <2>1, <2>2
  <2>4. CASE VerificationRevision' = NoRevision
    BY <1>2, <2>1, <2>3, <2>4
  <2>5. CASE VerificationRevision' \in Revisions
    BY <1>2, <2>1, <2>3, <2>5 DEF Promise!PutForward
  <2> QED BY <1>1, <2>4, <2>5
<1>5. ASSUME NEW a \in Actors, VerdictStep(a) PROVE [Promise!Next]_(Promise!vars)
  <2>1. /\ VerificationRevision \in Revisions
        /\ VerificationRevision' \in {VerificationRevision, NoRevision}
        /\ releases' = releases
    BY <1>0, <1>5, VerdictFrame
  <2>2. ~CandidateAccepted
    BY <1>0, <1>5, <2>1, AcceptedBlocks DEF CandidateAccepted
  <2>3. CASE VerificationRevision' = NoRevision
    <3>1. CandidateAccepted' = CandidateAccepted
      BY <1>1, <2>2, <2>3 DEF CandidateAccepted
    <3> QED BY <1>2, <2>1, <2>2, <2>3, <3>1, RunAssumption DEF Promise!SendBack
  <2>4. CASE VerificationRevision' = VerificationRevision /\ CandidateAccepted'
    <3>1. CandidateAccepted' = TRUE
      BY <1>1, <2>4
    <3> QED BY <1>2, <2>1, <2>4, <3>1, RunAssumption DEF Promise!Accept
  <2>5. CASE VerificationRevision' = VerificationRevision /\ ~CandidateAccepted'
    <3>1. CandidateAccepted' = CandidateAccepted
      BY <1>1, <2>2, <2>5
    <3> QED BY <1>2, <2>1, <2>5, <3>1
  <2> QED BY <2>1, <2>3, <2>4, <2>5
<1>6. ASSUME NEW a \in Actors, ReleaseStep(a) \/ LegacyCommand(a)
      PROVE  [Promise!Next]_(Promise!vars)
  <2>1. /\ VerificationRevision' = VerificationRevision
        /\ CandidateAccepted' = CandidateAccepted
    BY <1>3, <1>6, ReleaseStepFrame
  <2>2. ASSUME NEW env \in Environments, PrepareV3Release(a, env)
        PROVE  [Promise!Next]_(Promise!vars)
    <3>1. CandidateAccepted = TRUE
      BY <1>1, <2>2 DEF PrepareV3Release, MayPrepareV3Release, CandidateAccepted, Accepted
    <3>2. \A i \in ReleaseIndex : releases[i].status = "failed"
      BY <1>0, <2>2 DEF PrepareV3Release, MayPrepareV3Release, RevisionReleased, ReleaseEvidence
    <3> DEFINE new == [revision |-> VerificationRevision, environment |-> env,
                       status |-> "draft", approvedBy |-> NoActor, attempt |-> NoAttempt]
    <3>3. /\ ReleaseIndex' = ReleaseIndex \cup {Len(releases) + 1}
          /\ \A i \in ReleaseIndex : releases'[i] = releases[i]
          /\ releases'[Len(releases) + 1] = new
      BY <1>0, <2>2 DEF PrepareV3Release, MayPrepareV3Release, TypeOK, ReleaseIndex
    <3>4. new.status = "draft"
      OBVIOUS
    <3> HIDE DEF new
    <3>5. Delivered = "none"
      BY <3>2 DEF Delivered, ActiveRelease
    <3>6. ~\E i \in ReleaseIndex' : releases'[i].status = "live"
      BY <3>2, <3>3, <3>4
    <3>7. ActiveRelease'
      BY <3>3, <3>4 DEF ActiveRelease
    <3>8. Delivered' = "releasing"
      BY <3>6, <3>7 DEF Delivered
    <3> QED BY <2>1, <3>1, <3>5, <3>8 DEF Promise!StartRelease
  <2>3. ASSUME NEW i \in ReleaseIndex, NEW release, ~RunIsLive, releases[i].status # "failed",
               SetRelease(i, release)
        PROVE  [Promise!Next]_(Promise!vars)
    <3>1. Delivered = "releasing" /\ Delivered' \in {"live", "none", "releasing"}
      BY <1>0, <2>3, DeliveredAfter
    <3> QED BY <2>1, <3>1 DEF Promise!EndRelease
  <2>4. CASE releases' = releases
    BY <1>2, <2>1, <2>4
  <2>5. ASSUME NEW i \in 1..MaxReleases, ApproveRelease(a, i)
        PROVE  [Promise!Next]_(Promise!vars)
    BY <2>3, <2>5 DEF ApproveRelease, MayApproveRelease
  <2>6. ASSUME NEW i \in 1..MaxReleases, NEW outcome \in Outcomes, NEW url \in BOOLEAN,
               RecordDeployment(a, i, outcome, url) \/ ReconcileDeployment(a, i, outcome, url)
        PROVE  [Promise!Next]_(Promise!vars)
    BY <2>3, <2>6 DEF RecordDeployment, MayRecordDeployment, ReconcileDeployment,
                      MayReconcileDeployment, Reconcilable
  <2> QED BY <1>6, <2>2, <2>4, <2>5, <2>6 DEF ReleaseStep, ReplaceReleaseChecks,
             RecordReleaseCheck, MayRecordReleaseCheck, LegacyCommand, delivery
<1>7. CASE UNCHANGED vars
  BY <1>2, <1>3, <1>7 DEF vars
<1> QED BY <1>4, <1>5, <1>6, <1>7 DEF Next

\* Every run implements VerifiedRelease: a revision is put forward, judged, sent
\* back or accepted for good, and only an accepted revision is released; what the
\* commands do in between is invisible at that level.
THEOREM RunImplementsPromise == Spec => ImplementsVerifiedRelease
  BY PromiseInit, PromiseStep, EvidenceHolds, OneActiveHolds, PTL
     DEF Spec, ImplementsVerifiedRelease, Promise!Spec
=============================================================================
