--------------------------- MODULE LegacyRunProofs ---------------------------
(* Proofs about the run without DeliveryUnits: its inductive invariant, and  *)
(* that at every stage somebody is offered what the stage is for.            *)
EXTENDS LegacyRun, TLAPS

LEMMA InitHolds == ASSUME LegacyAssumption, Init PROVE LegacyInvariant
<1> USE DEF Init
<1>1. TypeOK
  <2>1. dependsOn \in Plans
    <3>1. dependsOn \in [{} -> SUBSET Items] /\ {} \in SUBSET Items
      BY DEF NoEntries
    <3> QED
      BY <3>1 DEF Plans
  <2>2. checks \in CheckTables
    <3>1. checks \in [{} -> ReleaseCheck] /\ {} \in SUBSET CheckIds
      BY DEF NoEntries
    <3> QED
      BY <3>1 DEF CheckTables
  <2>3. issues \in [Origins -> Issue]
    BY DEF Closed, Issue, IssueStatus, NoBuild, LegacyAssumption
  <2>4. work \in [DOMAIN dependsOn -> WorkStatus]
    BY DEF NoEntries
  <2>5. builds \in Seq(Build) /\ Len(builds) <= MaxBuilds /\ releases \in Seq(Release)
    BY DEF LegacyAssumption
  <2>6. verdicts \in [Origins -> Results \cup {"none"}]
    BY DEF Unjudged
  <2> QED
    BY <2>1, <2>2, <2>3, <2>4, <2>5, <2>6 DEF TypeOK
<1>2. BuildStandsOnWork
  BY DEF BuildStandsOnWork, AcceptedPlan, IsPlan, Acyclic, NoEntries
<1>3. FailureIsAccountable
  BY DEF FailureIsAccountable, Unjudged, Closed, NoBuild
<1>4. ReleaseStands /\ StageGround
  BY DEF ReleaseStands, StageGround, ReleaseIndex
<1> QED
  BY <1>1, <1>2, <1>3, <1>4 DEF LegacyInvariant

-----------------------------------------------------------------------------
(* What a command that leaves the state a conjunct is about alone keeps.     *)

LEMMA SameWork ==
  ASSUME BuildStandsOnWork, UNCHANGED <<development, executable, builds, verdicts>>
  PROVE  BuildStandsOnWork'
  BY DEF BuildStandsOnWork, development, AllMerged, TestDeployed, LatestBuild

LEMMA SameVerdicts ==
  ASSUME FailureIsAccountable, UNCHANGED <<builds, verdicts, issues>>
  PROVE  FailureIsAccountable'
  BY DEF FailureIsAccountable, LatestBuild

LEMMA SameEvidence ==
  ASSUME ReleaseStands, UNCHANGED <<builds, executable, verdicts, issues, checks, releases>>
  PROVE  ReleaseStands'
  BY DEF ReleaseStands, EnsureReleaseStillValid, BuildIsExecutable, AllTechnicalTestsPass,
         AllAcceptancePass, AllPass, IssuesClosed, InStatus, AllRequiredChecksPass,
         LatestBuild, ReleaseIndex, TestDeployed

LEMMA SameGround ==
  ASSUME StageGround, UNCHANGED <<builds, executable, issues, checks, releases>>
  PROVE  StageGround'
  BY DEF StageGround, BuildIsExecutable, AllRequiredChecksPass, LatestBuild

\* Without a Release that has not failed there is nothing to stand.
LEMMA NoneStands ==
  ASSUME releases' = << >>
  PROVE  ReleaseStands'
  BY DEF ReleaseStands, ReleaseIndex

LEMMA AllFailedStands ==
  ASSUME UNCHANGED releases, \A i \in ReleaseIndex : releases[i].status = "failed"
  PROVE  ReleaseStands'
  BY DEF ReleaseStands, ReleaseIndex

-----------------------------------------------------------------------------
(* The work plan.                                                            *)

LEMMA SetWorkKeeps ==
  ASSUME LegacyInvariant, NEW i \in DOMAIN work, work[i] # "merged",
         NEW status \in WorkStatus, SetWork(i, status)
  PROVE  LegacyInvariant'
<1>1. /\ work' = [work EXCEPT ![i] = status]
      /\ UNCHANGED <<planned, dependsOn, executable, builds, verdicts, issues, checks, releases>>
  BY DEF SetWork, verification
<1>2. TypeOK'
  BY <1>1 DEF LegacyInvariant, TypeOK
<1>3. builds = << >>
  BY DEF LegacyInvariant, BuildStandsOnWork, AllMerged
<1>4. BuildStandsOnWork'
  BY <1>1, <1>3 DEF LegacyInvariant, BuildStandsOnWork, TestDeployed, LatestBuild
<1> QED
  BY <1>1, <1>2, <1>4, SameVerdicts, SameEvidence, SameGround DEF LegacyInvariant

LEMMA ReplaceWorkPlanKeeps ==
  ASSUME LegacyInvariant, NEW deps \in Plans, ReplaceWorkPlan(deps)
  PROVE  LegacyInvariant'
<1>1. /\ builds = << >> /\ AcceptedPlan(deps) /\ planned' = TRUE
      /\ work' = [i \in DOMAIN deps |-> "todo"] /\ dependsOn' = deps
      /\ UNCHANGED <<executable, builds, verdicts, issues, checks, releases>>
  BY DEF ReplaceWorkPlan, MayReplaceWorkPlan, PlanReplaceable, verification
<1>2. TypeOK'
  BY <1>1 DEF LegacyInvariant, TypeOK, WorkStatus
<1>3. BuildStandsOnWork'
  BY <1>1 DEF LegacyInvariant, BuildStandsOnWork, TestDeployed, LatestBuild
<1> QED
  BY <1>1, <1>2, <1>3, SameVerdicts, SameEvidence, SameGround DEF LegacyInvariant

LEMMA WorkStepKeeps == ASSUME LegacyInvariant, WorkStep PROVE LegacyInvariant'
<1>1. ASSUME NEW i \in Items, StartWork(i)
      PROVE  LegacyInvariant'
  BY <1>1, SetWorkKeeps DEF StartWork, MayStartWork, WorkStatus
<1>2. ASSUME NEW i \in Items, CompleteWork(i)
      PROVE  LegacyInvariant'
  BY <1>2, SetWorkKeeps DEF CompleteWork, MayCompleteWork, WorkStatus
<1> QED
  BY <1>1, <1>2, ReplaceWorkPlanKeeps DEF WorkStep

-----------------------------------------------------------------------------
(* The executable revision and its builds.                                   *)

LEMMA RecordExecutableRevisionKeeps ==
  ASSUME LegacyInvariant, NEW revision \in Executables, RecordExecutableRevision(revision)
  PROVE  LegacyInvariant'
<1>1. /\ releases = << >> /\ executable' = revision
      /\ builds = << >> \/ \E o \in Origins : AwaitsBuild(o)
      /\ UNCHANGED <<planned, work, dependsOn, builds, verdicts, issues, checks, releases>>
  BY DEF RecordExecutableRevision, CanRecordExecutableRevision, development, verification
<1>2. TypeOK'
  BY <1>1 DEF LegacyInvariant, TypeOK
<1>3. BuildStandsOnWork'
  BY <1>1, LegacyAssumption
     DEF LegacyInvariant, BuildStandsOnWork, AllMerged, TestDeployed, LatestBuild,
         LegacyAssumption
<1>4. StageGround'
  BY <1>1 DEF StageGround, AwaitsBuild
<1>5. FailureIsAccountable' /\ ReleaseStands'
  BY <1>1, SameVerdicts, NoneStands DEF LegacyInvariant
<1> QED
  BY <1>2, <1>3, <1>4, <1>5 DEF LegacyInvariant

LEMMA CreateBuildKeeps ==
  ASSUME LegacyInvariant, CreateBuild
  PROVE  LegacyInvariant'
<1> DEFINE build == [executable |-> executable, status |-> "generated"]
<1>1. /\ planned /\ AllMerged /\ executable # NoExecutable
      /\ InStatus({"open", "fixing"}) = {}
      /\ builds # << >> => InStatus({"ready_retest"}) # {}
      /\ LatestBuild < MaxBuilds
      /\ builds' = Append(builds, build)
      /\ verdicts' = Unjudged
      /\ issues' = [o \in Origins |-> IF issues[o].status = "ready_retest"
                                      THEN [issues[o] EXCEPT !.includedIn = LatestBuild + 1]
                                      ELSE issues[o]]
      /\ UNCHANGED <<planned, work, dependsOn, executable, checks, releases>>
  BY DEF CreateBuild, MayCreateBuild, FixesComplete, development
<1>2. builds \in Seq(Build) /\ build \in Build /\ issues \in [Origins -> Issue]
      /\ MaxBuilds \in Nat
  BY <1>1, LegacyAssumption DEF LegacyInvariant, TypeOK, Build, LegacyAssumption
<1>3. /\ builds' \in Seq(Build) /\ builds' # << >> /\ LatestBuild' = LatestBuild + 1
      /\ LatestBuild \in Nat /\ builds'[LatestBuild'] = build
  BY <1>1, <1>2 DEF LatestBuild
<1>4. issues' \in [Origins -> Issue]
  <2>1. LatestBuild + 1 \in 0..MaxBuilds
    BY <1>1, <1>2, <1>3
  <2> QED
    BY <1>1, <1>2, <2>1 DEF Issue
<1>5. TypeOK'
  BY <1>1, <1>2, <1>3, <1>4 DEF LegacyInvariant, TypeOK, Unjudged, LatestBuild
<1>6. BuildStandsOnWork'
  BY <1>1, <1>3 DEF LegacyInvariant, BuildStandsOnWork, AllMerged, Unjudged
<1>7. FailureIsAccountable'
  <2> SUFFICES ASSUME NEW o \in Origins
               PROVE  /\ issues'[o].includedIn \in {NoBuild, LatestBuild'}
                      /\ verdicts'[o] # "fail" /\ verdicts'[o] # "pass"
                      /\ issues'[o].status \in {"closed", "open", "fixing"}
                            => issues'[o].includedIn = NoBuild
    BY <1>3 DEF FailureIsAccountable
  <2>1. verdicts'[o] = "none"
    BY <1>1 DEF Unjudged
  <2>2. CASE issues[o].status = "ready_retest"
    <3>1. issues'[o].status = "ready_retest" /\ issues'[o].includedIn = LatestBuild + 1
      BY <1>1, <1>2, <2>2 DEF Issue
    <3> QED
      BY <2>1, <3>1, <1>3
  <2>3. CASE issues[o].status # "ready_retest"
    <3>1. issues[o].status \in {"closed", "open", "fixing"} /\ issues'[o] = issues[o]
      BY <1>1, <1>2, <2>3 DEF Issue, IssueStatus
    <3> QED
      BY <2>1, <3>1 DEF LegacyInvariant, FailureIsAccountable
  <2> QED
    BY <2>2, <2>3
<1>8. ReleaseStands'
  <2>1. ASSUME NEW i \in ReleaseIndex, releases[i].status # "failed"
        PROVE  FALSE
    BY <2>1, <1>1 DEF LegacyInvariant, ReleaseStands, EnsureReleaseStillValid, TestDeployed,
                      IssuesClosed, InStatus, LatestBuild
  <2> QED
    BY <2>1, <1>1, AllFailedStands
<1>9. StageGround'
  <2>1. BuildIsExecutable'
    <3>1. build.executable = executable /\ executable' = executable
      BY <1>1
    <3>2. builds'[LatestBuild'] = build /\ LatestBuild' > 0
      BY <1>3
    <3> HIDE DEF build
    <3> QED
      BY <3>1, <3>2 DEF BuildIsExecutable
  <2>2. AllRequiredChecksPass' <=> AllRequiredChecksPass
    BY <1>1 DEF AllRequiredChecksPass
  <2> QED
    BY <2>1, <2>2, <1>1, <1>3 DEF LegacyInvariant, StageGround
<1> QED
  BY <1>5, <1>6, <1>7, <1>8, <1>9 DEF LegacyInvariant

LEMMA DeployBuildKeeps ==
  ASSUME LegacyInvariant, DeployBuild
  PROVE  LegacyInvariant'
<1>1. /\ LatestBuild > 0 /\ builds[LatestBuild].status = "generated"
      /\ builds' = [builds EXCEPT ![LatestBuild].status = "test_deployed"]
      /\ UNCHANGED <<planned, work, dependsOn, executable, verdicts, issues, checks, releases>>
  BY DEF DeployBuild, MayDeployBuild, development, verification
<1>2. /\ builds \in Seq(Build) /\ LatestBuild \in DOMAIN builds /\ LatestBuild \in Nat
      /\ builds # << >>
  BY <1>1 DEF LegacyInvariant, TypeOK, LatestBuild
<1>3. /\ builds' \in Seq(Build) /\ LatestBuild' = LatestBuild /\ builds' # << >>
      /\ builds'[LatestBuild].status = "test_deployed"
      /\ builds'[LatestBuild].executable = builds[LatestBuild].executable
  <2> DEFINE n == LatestBuild
             deployed == [builds[n] EXCEPT !.status = "test_deployed"]
  <2>1. builds[n] \in Build /\ deployed \in Build
    <3>1. builds[n] \in Build
      BY <1>2
    <3> QED
      BY <3>1 DEF Build
  <2>2. builds' = [builds EXCEPT ![n] = deployed]
    BY <1>1
  <2>3. builds' \in Seq(Build) /\ Len(builds') = Len(builds) /\ builds'[n] = deployed
    <3> HIDE DEF n, deployed
    <3> QED
      BY <1>2, <2>1, <2>2 DEF n
  <2>4. deployed.status = "test_deployed" /\ deployed.executable = builds[n].executable
    BY <2>1 DEF Build
  <2> QED
    BY <1>2, <2>3, <2>4 DEF LatestBuild
<1>4. TypeOK'
  BY <1>1, <1>3 DEF LegacyInvariant, TypeOK, LatestBuild
<1>5. BuildStandsOnWork'
  BY <1>1, <1>2, <1>3 DEF LegacyInvariant, BuildStandsOnWork, AllMerged, TestDeployed
<1>6. FailureIsAccountable'
  BY <1>1, <1>2, <1>3 DEF LegacyInvariant, FailureIsAccountable
<1>7. ReleaseStands'
  <2>1. ASSUME NEW i \in ReleaseIndex, releases[i].status # "failed"
        PROVE  FALSE
    BY <2>1, <1>1 DEF LegacyInvariant, ReleaseStands, TestDeployed
  <2> QED
    BY <2>1, <1>1, AllFailedStands
<1>8. StageGround'
  BY <1>1, <1>2, <1>3 DEF LegacyInvariant, StageGround, BuildIsExecutable, AllRequiredChecksPass
<1> QED
  BY <1>4, <1>5, <1>6, <1>7, <1>8 DEF LegacyInvariant

LEMMA BuildStepKeeps == ASSUME LegacyInvariant, BuildStep PROVE LegacyInvariant'
  BY RecordExecutableRevisionKeeps, CreateBuildKeeps, DeployBuildKeeps DEF BuildStep

-----------------------------------------------------------------------------
(* Verdicts and Issues.                                                      *)

LEMMA JudgeKeeps ==
  ASSUME LegacyInvariant, NEW o \in Origins, NEW result \in Results,
         TestDeployed, ~VerificationLocked, Judge(o, result)
  PROVE  LegacyInvariant'
<1>1. /\ verdicts' = [verdicts EXCEPT ![o] = result]
      /\ UNCHANGED <<planned, work, dependsOn, executable, builds, checks, releases>>
  BY DEF Judge, development
<1>2. \/ /\ result = "pass" /\ Retested(issues[o])
         /\ issues' = [issues EXCEPT ![o] = Closed]
      \/ result = "fail" /\ issues' = [issues EXCEPT ![o] = Opened]
      \/ /\ result # "fail" /\ ~(result = "pass" /\ Retested(issues[o]))
         /\ issues' = issues
  BY DEF Judge
<1>3. /\ issues \in [Origins -> Issue] /\ verdicts \in [Origins -> Results \cup {"none"}]
      /\ builds \in Seq(Build)
      /\ Closed \in Issue /\ Opened \in Issue
  BY LegacyAssumption
     DEF LegacyInvariant, TypeOK, Closed, Opened, Issue, IssueStatus, NoBuild, LegacyAssumption
<1>4. LatestBuild > 0 /\ LatestBuild \in Nat /\ LatestBuild' = LatestBuild /\ builds # << >>
  BY <1>1, <1>3 DEF TestDeployed, LatestBuild
<1>5. issues' \in [Origins -> Issue]
  BY <1>2, <1>3
<1>6. TypeOK'
  BY <1>1, <1>3, <1>5 DEF LegacyInvariant, TypeOK
<1>7. BuildStandsOnWork'
  BY <1>1 DEF LegacyInvariant, BuildStandsOnWork, AllMerged, TestDeployed, LatestBuild
<1>8. FailureIsAccountable'
  <2> SUFFICES ASSUME NEW p \in Origins
               PROVE  /\ issues'[p].includedIn \in {NoBuild, LatestBuild}
                      /\ verdicts'[p] = "fail" =>
                            issues'[p].status # "closed" /\ issues'[p].includedIn = NoBuild
                      /\ issues'[p].status \in {"closed", "open", "fixing"} =>
                            issues'[p].includedIn = NoBuild
                      /\ issues'[p].includedIn # NoBuild => verdicts'[p] # "pass"
    BY <1>1, <1>4 DEF FailureIsAccountable
  <2>0. /\ issues[p].includedIn \in {NoBuild, LatestBuild}
        /\ verdicts[p] = "fail" => issues[p].status # "closed" /\ issues[p].includedIn = NoBuild
        /\ issues[p].status \in {"closed", "open", "fixing"} => issues[p].includedIn = NoBuild
        /\ issues[p].includedIn # NoBuild => verdicts[p] # "pass"
    BY DEF LegacyInvariant, FailureIsAccountable
  <2>1. CASE p # o
    <3>1. issues'[p] = issues[p] /\ verdicts'[p] = verdicts[p]
      BY <1>1, <1>2, <1>3, <2>1
    <3> QED
      BY <2>0, <3>1
  <2>2. CASE p = o
    <3>1. verdicts'[p] = result
      BY <1>1, <1>3, <2>2
    <3>2. CASE result = "pass" /\ Retested(issues[o])
      BY <1>2, <1>3, <2>2, <3>1, <3>2 DEF Closed
    <3>3. CASE result = "fail"
      BY <1>2, <1>3, <2>2, <3>1, <3>3 DEF Opened
    <3>4. CASE result # "fail" /\ ~(result = "pass" /\ Retested(issues[o]))
      <4>1. issues'[p] = issues[p] /\ issues[p].status \in IssueStatus
        BY <1>2, <1>3, <3>4 DEF Issue
      <4>2. issues[p].includedIn # NoBuild => Retested(issues[p])
        BY <2>0, <4>1 DEF Retested, IssueStatus
      <4> QED
        BY <2>0, <2>2, <3>1, <3>4, <4>1, <4>2
    <3> QED
      BY <3>2, <3>3, <3>4
  <2> QED
    BY <2>1, <2>2
<1>9. ReleaseStands'
  <2>1. ASSUME NEW i \in ReleaseIndex, releases[i].status # "failed"
        PROVE  FALSE
    BY <2>1 DEF LegacyInvariant, ReleaseStands, EnsureReleaseStillValid, VerificationLocked
  <2> QED
    BY <2>1, <1>1, AllFailedStands
<1>10. StageGround'
  <2>1. AllRequiredChecksPass' <=> AllRequiredChecksPass
    BY <1>1 DEF AllRequiredChecksPass
  <2>2. BuildIsExecutable' <=> BuildIsExecutable
    BY <1>1 DEF BuildIsExecutable, LatestBuild
  <2>3. ASSUME ~BuildIsExecutable
        PROVE  \E p \in Origins : issues'[p].status # "closed" /\ issues'[p].includedIn = NoBuild
    <3>1. PICK p \in Origins : issues[p].status # "closed" /\ issues[p].includedIn = NoBuild
      BY <2>3, <1>4 DEF LegacyInvariant, StageGround
    <3>2. CASE result = "pass" /\ Retested(issues[o])
      <4>1. p # o
        BY <3>1, <3>2, <1>4 DEF Retested, NoBuild
      <4> QED
        BY <1>2, <1>3, <3>1, <3>2, <4>1
    <3>3. CASE result = "fail"
      <4>1. issues'[o] = Opened
        BY <1>2, <1>3, <3>3
      <4> QED
        BY <4>1 DEF Opened
    <3> QED
      BY <1>2, <3>1, <3>2, <3>3
  <2> QED
    BY <2>1, <2>2, <2>3, <1>1 DEF LegacyInvariant, StageGround
<1> QED
  BY <1>6, <1>7, <1>8, <1>9, <1>10 DEF LegacyInvariant

LEMMA SetIssueStatusKeeps ==
  ASSUME LegacyInvariant, NEW o \in Origins, issues[o].status \in {"open", "fixing"},
         NEW status \in {"fixing", "ready_retest"}, SetIssueStatus(o, status)
  PROVE  LegacyInvariant'
<1>1. /\ issues' = [issues EXCEPT ![o].status = status]
      /\ UNCHANGED <<planned, work, dependsOn, executable, builds, verdicts, checks, releases>>
  BY DEF SetIssueStatus, development
<1>2. issues \in [Origins -> Issue]
  BY DEF LegacyInvariant, TypeOK
<1>3. /\ issues'[o].status = status /\ issues'[o].includedIn = issues[o].includedIn
      /\ \A p \in Origins : p # o => issues'[p] = issues[p]
  BY <1>1, <1>2 DEF Issue
<1>4. issues' \in [Origins -> Issue]
  <2> DEFINE changed == [issues[o] EXCEPT !.status = status]
  <2>1. changed \in Issue
    <3>1. issues[o] \in Issue
      BY <1>2
    <3> QED
      BY <3>1 DEF Issue, IssueStatus
  <2>2. issues' = [issues EXCEPT ![o] = changed]
    BY <1>1
  <2> HIDE DEF changed
  <2> QED
    BY <1>2, <2>1, <2>2
<1>5. TypeOK'
  BY <1>1, <1>4 DEF LegacyInvariant, TypeOK
<1>6. issues[o].includedIn = NoBuild /\ builds # << >>
  BY DEF LegacyInvariant, FailureIsAccountable
<1>7. FailureIsAccountable'
  <2> SUFFICES ASSUME NEW p \in Origins
               PROVE  /\ issues'[p].includedIn \in {NoBuild, LatestBuild}
                      /\ verdicts[p] = "fail" =>
                            issues'[p].status # "closed" /\ issues'[p].includedIn = NoBuild
                      /\ issues'[p].status \in {"closed", "open", "fixing"} =>
                            issues'[p].includedIn = NoBuild
                      /\ issues'[p].includedIn # NoBuild => verdicts[p] # "pass"
    BY <1>1, <1>6 DEF FailureIsAccountable, LatestBuild
  <2>1. CASE p # o
    BY <2>1, <1>3 DEF LegacyInvariant, FailureIsAccountable
  <2>2. CASE p = o
    BY <2>2, <1>3, <1>6
  <2> QED
    BY <2>1, <2>2
<1>8. ReleaseStands'
  <2>1. ASSUME NEW i \in ReleaseIndex, releases[i].status # "failed"
        PROVE  FALSE
    BY <2>1 DEF LegacyInvariant, ReleaseStands, EnsureReleaseStillValid, IssuesClosed, InStatus
  <2> QED
    BY <2>1, <1>1, AllFailedStands
<1>9. StageGround'
  <2>1. AllRequiredChecksPass' <=> AllRequiredChecksPass
    BY <1>1 DEF AllRequiredChecksPass
  <2>2. issues'[o].status # "closed" /\ issues'[o].includedIn = NoBuild
    BY <1>3, <1>6
  <2> QED
    BY <2>1, <2>2, <1>1 DEF LegacyInvariant, StageGround
<1>10. BuildStandsOnWork'
  BY <1>1, SameWork DEF LegacyInvariant, development
<1> QED
  BY <1>5, <1>7, <1>8, <1>9, <1>10 DEF LegacyInvariant

LEMMA VerdictStepKeeps == ASSUME LegacyInvariant, VerdictStep PROVE LegacyInvariant'
<1>1. PICK o \in Origins :
        \/ \E result \in Results : RecordTest(o, result)
        \/ \E result \in Results : RecordAcceptance(o, result)
        \/ StartFix(o)
        \/ CompleteFix(o)
  BY DEF VerdictStep
<1>2. CASE \E result \in Results : RecordTest(o, result)
  BY <1>2, JudgeKeeps DEF RecordTest, MayRecordTest
<1>3. CASE \E result \in Results : RecordAcceptance(o, result)
  BY <1>3, JudgeKeeps DEF RecordAcceptance, MayRecordAcceptance
<1>4. CASE StartFix(o)
  BY <1>4, SetIssueStatusKeeps DEF StartFix, MayStartFix
<1>5. CASE CompleteFix(o)
  BY <1>5, SetIssueStatusKeeps DEF CompleteFix, MayCompleteFix
<1> QED
  BY <1>1, <1>2, <1>3, <1>4, <1>5

-----------------------------------------------------------------------------
(* Release checks, Releases and their deployment.                            *)

LEMMA ChecksChangeKeeps ==
  ASSUME LegacyInvariant, releases = << >>, checks' \in CheckTables,
         UNCHANGED <<development, executable, builds, verification, releases>>
  PROVE  LegacyInvariant'
<1>1. UNCHANGED <<planned, work, dependsOn, executable, builds, verdicts, issues, releases>>
  BY DEF development, verification
<1>2. TypeOK'
  BY <1>1 DEF LegacyInvariant, TypeOK
<1>3. StageGround'
  BY <1>1 DEF LegacyInvariant, StageGround, BuildIsExecutable, LatestBuild
<1> QED
  BY <1>1, <1>2, <1>3, SameWork, SameVerdicts, NoneStands DEF LegacyInvariant, development

LEMMA ReplaceReleaseChecksKeeps ==
  ASSUME LegacyInvariant, NEW env \in Environments, NEW required \in CheckLists,
         ReplaceReleaseChecks(env, required)
  PROVE  LegacyInvariant'
<1>1. PICK ids \in SUBSET CheckIds : required \in [ids -> BOOLEAN]
  BY DEF CheckLists
<1>2. checks' = [id \in ids |->
                   [environment |-> env, required |-> required[id], status |-> "pending"]]
  BY <1>1 DEF ReplaceReleaseChecks
<1>3. checks' \in [ids -> ReleaseCheck]
  BY <1>1, <1>2 DEF ReleaseCheck
<1>4. checks' \in CheckTables
  BY <1>3 DEF CheckTables
<1> QED
  BY <1>4, ChecksChangeKeeps DEF ReplaceReleaseChecks, ChecksOpen

LEMMA RecordReleaseCheckKeeps ==
  ASSUME LegacyInvariant, NEW id \in CheckIds, NEW status \in {"passed", "failed"},
         RecordReleaseCheck(id, status)
  PROVE  LegacyInvariant'
<1>1. PICK ids \in SUBSET CheckIds : checks \in [ids -> ReleaseCheck]
  BY DEF LegacyInvariant, TypeOK, CheckTables
<1>2. checks' \in [ids -> ReleaseCheck]
  <2> DEFINE check == [checks[id] EXCEPT !.status = status]
  <2>1. id \in ids /\ checks' = [checks EXCEPT ![id] = check]
    BY <1>1 DEF RecordReleaseCheck, MayRecordReleaseCheck
  <2>2. check \in ReleaseCheck
    <3>1. checks[id] \in ReleaseCheck
      BY <1>1, <2>1
    <3> QED
      BY <3>1 DEF ReleaseCheck
  <2> HIDE DEF check
  <2> QED
    BY <1>1, <2>1, <2>2
<1>3. checks' \in CheckTables
  BY <1>2 DEF CheckTables
<1> QED
  BY <1>3, ChecksChangeKeeps DEF RecordReleaseCheck, MayRecordReleaseCheck, ChecksOpen

LEMMA PrepareReleaseKeeps ==
  ASSUME LegacyInvariant, NEW env \in Environments, PrepareRelease(env)
  PROVE  LegacyInvariant'
<1> DEFINE release == [build |-> LatestBuild, environment |-> env, status |-> "draft"]
           last == Len(releases) + 1
<1>1. /\ TestDeployed /\ BuildIsExecutable /\ AllTechnicalTestsPass /\ AllAcceptancePass
      /\ IssuesClosed /\ AllRequiredChecksPass /\ ~BuildReleased
      /\ \A id \in DOMAIN checks : checks[id].environment = env
      /\ releases' = Append(releases, release)
      /\ UNCHANGED <<planned, work, dependsOn, executable, builds, verdicts, issues, checks>>
  BY DEF PrepareRelease, MayPrepareRelease, development, verification
<1>2. /\ releases \in Seq(Release) /\ builds \in Seq(Build) /\ Len(builds) <= MaxBuilds
      /\ MaxBuilds \in Nat
  BY LegacyAssumption DEF LegacyInvariant, TypeOK, LegacyAssumption
<1>3. LatestBuild > 0 /\ LatestBuild \in 1..MaxBuilds /\ builds # << >>
  BY <1>1, <1>2 DEF TestDeployed, LatestBuild
<1>4. release \in Release
  BY <1>3 DEF Release, ReleaseStatus
<1>5. /\ releases' \in Seq(Release) /\ Len(releases') = last /\ releases'[last] = release
      /\ \A i \in 1..Len(releases) : releases'[i] = releases[i]
  <2> HIDE DEF release
  <2> QED
    BY <1>1, <1>2, <1>4
<1>6. TypeOK'
  BY <1>1, <1>5 DEF LegacyInvariant, TypeOK
<1>7. /\ TestDeployed' /\ BuildIsExecutable' /\ AllTechnicalTestsPass' /\ AllAcceptancePass'
      /\ IssuesClosed' /\ AllRequiredChecksPass' /\ LatestBuild' = LatestBuild
  BY <1>1 DEF TestDeployed, BuildIsExecutable, AllTechnicalTestsPass, AllAcceptancePass, AllPass,
              IssuesClosed, InStatus, AllRequiredChecksPass, LatestBuild
<1>8. ReleaseStands'
  <2>1. \A i \in ReleaseIndex' : releases'[i].status # "failed" => i = last
    <3> SUFFICES ASSUME NEW i \in 1..Len(releases), releases'[i].status # "failed"
                 PROVE  FALSE
      BY <1>2, <1>5 DEF ReleaseIndex
    <3>1. releases[i].status # "failed"
      BY <1>5
    <3> QED
      BY <3>1, <1>1 DEF LegacyInvariant, ReleaseStands, EnsureReleaseStillValid, BuildReleased,
                        ReleaseIndex
  <2>2. release.build = LatestBuild' /\ release.environment = env
    BY <1>7
  <2> HIDE DEF release, last
  <2> QED
    BY <2>1, <2>2, <1>1, <1>5, <1>7 DEF ReleaseStands, EnsureReleaseStillValid
<1>9. StageGround'
  BY <1>1, <1>3, <1>7 DEF StageGround
<1>10. BuildStandsOnWork' /\ FailureIsAccountable'
  BY <1>1, SameWork, SameVerdicts DEF LegacyInvariant, development
<1> QED
  BY <1>6, <1>8, <1>9, <1>10 DEF LegacyInvariant

LEMMA SetReleaseStatusKeeps ==
  ASSUME LegacyInvariant, NEW i \in ReleaseIndex, releases[i].status # "failed",
         NEW status \in ReleaseStatus, SetReleaseStatus(i, status)
  PROVE  LegacyInvariant'
<1> DEFINE release == [releases[i] EXCEPT !.status = status]
<1>1. /\ releases' = [releases EXCEPT ![i] = release]
      /\ UNCHANGED <<planned, work, dependsOn, executable, builds, verdicts, issues, checks>>
  BY DEF SetReleaseStatus, development, verification
<1>2. releases \in Seq(Release) /\ releases[i] \in Release
  BY DEF LegacyInvariant, TypeOK, ReleaseIndex
<1>3. /\ release \in Release /\ release.build = releases[i].build
      /\ release.environment = releases[i].environment
  BY <1>2 DEF Release
<1>4. /\ releases' \in Seq(Release) /\ ReleaseIndex' = ReleaseIndex
      /\ releases'[i] = release
      /\ \A j \in ReleaseIndex : j # i => releases'[j] = releases[j]
  <2> HIDE DEF release
  <2> QED
    BY <1>1, <1>2, <1>3 DEF ReleaseIndex
<1>5. TypeOK'
  BY <1>1, <1>4 DEF LegacyInvariant, TypeOK
<1>6. ASSUME NEW j \in ReleaseIndex
      PROVE  /\ releases'[j].build = releases[j].build
             /\ releases'[j].environment = releases[j].environment
             /\ releases'[j].status # "failed" => releases[j].status # "failed"
  <2> HIDE DEF release
  <2> QED
    BY <1>3, <1>4
<1>7. /\ TestDeployed' = TestDeployed /\ BuildIsExecutable' = BuildIsExecutable
      /\ AllTechnicalTestsPass' = AllTechnicalTestsPass
      /\ AllAcceptancePass' = AllAcceptancePass
      /\ IssuesClosed' = IssuesClosed /\ AllRequiredChecksPass' = AllRequiredChecksPass
      /\ LatestBuild' = LatestBuild
  BY <1>1 DEF TestDeployed, BuildIsExecutable, AllTechnicalTestsPass, AllAcceptancePass, AllPass,
              IssuesClosed, InStatus, AllRequiredChecksPass, LatestBuild
<1>8. ReleaseStands'
  BY <1>1, <1>4, <1>6, <1>7 DEF LegacyInvariant, ReleaseStands, EnsureReleaseStillValid
<1>9. StageGround'
  <2>1. releases # << >>
    BY <1>2 DEF ReleaseIndex
  <2> QED
    BY <2>1, <1>1, <1>7 DEF LegacyInvariant, StageGround
<1>10. BuildStandsOnWork' /\ FailureIsAccountable'
  BY <1>1, SameWork, SameVerdicts DEF LegacyInvariant, development
<1> QED
  BY <1>5, <1>8, <1>9, <1>10 DEF LegacyInvariant

LEMMA ReleaseStepKeeps == ASSUME LegacyInvariant, ReleaseStep PROVE LegacyInvariant'
<1>1. ASSUME NEW i, ApproveRelease(i)
      PROVE  LegacyInvariant'
  BY <1>1, SetReleaseStatusKeeps DEF ApproveRelease, MayApproveRelease, ReleaseStatus
<1>2. ASSUME NEW i, NEW outcome \in Outcomes, RecordDeployment(i, outcome)
      PROVE  LegacyInvariant'
  BY <1>2, SetReleaseStatusKeeps
     DEF RecordDeployment, MayRecordDeployment, StatusAfter, Outcomes, ReleaseStatus
<1>3. ASSUME NEW i, NEW outcome \in Outcomes, ReconcileDeployment(i, outcome)
      PROVE  LegacyInvariant'
  BY <1>3, SetReleaseStatusKeeps
     DEF ReconcileDeployment, MayReconcileDeployment, StatusAfter, Outcomes, ReleaseStatus
<1> QED
  BY <1>1, <1>2, <1>3, ReplaceReleaseChecksKeeps, RecordReleaseCheckKeeps, PrepareReleaseKeeps
     DEF ReleaseStep

LEMMA NextKeeps == ASSUME LegacyInvariant, [Next]_vars PROVE LegacyInvariant'
<1>1. CASE Next
  BY <1>1, WorkStepKeeps, BuildStepKeeps, VerdictStepKeeps, ReleaseStepKeeps DEF Next
<1>2. CASE UNCHANGED vars
  <2>1. /\ UNCHANGED <<planned, work, dependsOn, executable, builds, verdicts, issues>>
        /\ UNCHANGED <<checks, releases>>
    BY <1>2 DEF vars, development, verification
  <2>2. TypeOK'
    BY <2>1 DEF LegacyInvariant, TypeOK
  <2> QED
    BY <2>1, <2>2, SameWork, SameVerdicts, SameEvidence, SameGround
       DEF LegacyInvariant, development
<1> QED
  BY <1>1, <1>2

\* A run without DeliveryUnits keeps its evidence together for every plan, any
\* number of criteria, builds and Releases: builds stand on merged work, a failure
\* has an Issue until a build with its fix passes, and a Release that has not
\* failed stays valid until it is live (recordVerification, closeRetestedIssues,
\* createBuild, prepareRelease and ensureReleaseStillValid together).
THEOREM LegacyHolds == Spec => []LegacyInvariant
<1>1. Init => LegacyInvariant
  BY InitHolds, LegacyAssumption
<1>2. LegacyInvariant /\ [Next]_vars => LegacyInvariant'
  BY NextKeeps
<1> QED
  BY <1>1, <1>2, PTL DEF Spec

-----------------------------------------------------------------------------
(* What is offered at each stage.                                            *)

LEMMA Offers ==
  ASSUME NEW condition \in BOOLEAN, NEW command, condition
  PROVE  <<command, NoTarget>> \in Offer(condition, command)
  BY DEF Offer

LEMMA OffersEach ==
  ASSUME NEW command, NEW targets, NEW x \in targets
  PROVE  <<command, x>> \in OfferEach(command, targets)
  BY DEF OfferEach

LEMMA StageWorkIs ==
  /\ StageWork["development"] = {"work.plan.replace", "work.start", "work.complete",
                                 "product_revision.record", "build.create"}
  /\ StageWork["bugs"] = {"issue.start_fix", "issue.complete_fix",
                          "product_revision.record", "build.create"}
  /\ StageWork["testing"] = {"build.deploy_to_test", "test.record"}
  /\ StageWork["acceptance"] = {"acceptance.record"}
  /\ StageWork["release"] = {"release_checks.replace", "release_check.record",
                             "release.prepare", "release.approve",
                             "release.deploy_result", "release.reconcile"}
  BY DEF StageWork

\* Work that is not all merged never all waits: some of it can start or complete.
LEMMA SomeWorkIsOffered ==
  ASSUME LegacyInvariant, ~AllMerged
  PROVE  \E action \in WorkActions : action[1] \in {"work.start", "work.complete"}
<1> DEFINE todo == {i \in DOMAIN work : work[i] = "todo"}
           begun == {i \in DOMAIN work : work[i] = "in_progress"}
<1>1. /\ work \in [DOMAIN dependsOn -> WorkStatus] /\ AcceptedPlan(dependsOn)
      /\ DOMAIN work = DOMAIN dependsOn
  BY DEF LegacyInvariant, TypeOK, BuildStandsOnWork
<1>2. CASE todo # {}
  <2>1. PICK i \in todo : TRUE
    BY <1>2
  <2>2. <<"work.start", i>> \in WorkActions
    BY <2>1, OffersEach DEF WorkActions
  <2> QED
    BY <2>2
<1>3. CASE todo = {}
  <2>1. \A i \in DOMAIN work : i \in begun \/ work[i] = "merged"
    BY <1>1, <1>3 DEF WorkStatus
  <2>2. begun \in (SUBSET DOMAIN dependsOn) \ {{}}
    BY <1>1, <2>1 DEF AllMerged
  <2>3. PICK i \in begun : dependsOn[i] \cap begun = {}
    <3> HIDE DEF begun
    <3> QED
      BY <1>1, <2>2 DEF AcceptedPlan, Acyclic
  <2>4. dependsOn[i] \subseteq DOMAIN work
    BY <1>1 DEF AcceptedPlan, IsPlan
  <2>5. DependenciesMerged(i)
    BY <2>1, <2>3, <2>4 DEF DependenciesMerged
  <2>6. <<"work.complete", i>> \in WorkActions
    BY <2>5, OffersEach DEF WorkActions
  <2> QED
    BY <2>6
<1> QED
  BY <1>2, <1>3

LEMMA DevelopmentOffers ==
  ASSUME LegacyInvariant, ~RunIsLive, ~planned \/ ~AllMerged \/ LatestBuild = 0
  PROVE  \E action \in AvailableActions :
            action[1] \in {"work.plan.replace", "work.start", "work.complete",
                          "product_revision.record", "build.create"}
<1>1. WorkActions \cup BuildActions \subseteq AvailableActions
  BY DEF AvailableActions
<1>2. CASE ~planned
  <2>1. DOMAIN work = {} /\ builds = << >>
    BY <1>2 DEF LegacyInvariant, TypeOK, BuildStandsOnWork
  <2>2. <<"work.plan.replace", NoTarget>> \in WorkActions
    BY <2>1, Offers DEF WorkActions, PlanReplaceable
  <2> QED
    BY <1>1, <2>2
<1>3. CASE ~AllMerged
  BY <1>1, <1>3, SomeWorkIsOffered
<1>4. CASE planned /\ AllMerged /\ LatestBuild = 0
  <2>1. builds = << >>
    BY <1>4 DEF LegacyInvariant, TypeOK, LatestBuild
  <2>2. CanRecordExecutableRevision
    BY <1>4, <2>1 DEF CanRecordExecutableRevision, LegacyInvariant, StageGround
  <2>3. <<"product_revision.record", NoTarget>> \in BuildActions
    BY <2>2, Offers DEF BuildActions
  <2> QED
    BY <1>1, <2>3
<1> QED
  BY <1>2, <1>3, <1>4

LEMMA BugsOffer ==
  ASSUME LegacyInvariant, ~RunIsLive, ~FixIsStranded, planned, AllMerged,
         NEW o \in Origins,
         \/ issues[o].status \in {"open", "fixing"}
         \/ issues[o].status = "ready_retest" /\ issues[o].includedIn # LatestBuild
  PROVE  \E action \in AvailableActions :
            action[1] \in {"issue.start_fix", "issue.complete_fix",
                          "product_revision.record", "build.create"}
<1>1. VerdictActions \cup BuildActions \subseteq AvailableActions
  BY DEF AvailableActions
<1>2. CASE ~FixesComplete
  <2>1. PICK p \in Origins : issues[p].status \in {"open", "fixing"}
    BY <1>2 DEF FixesComplete, InStatus
  <2>2. \/ <<"issue.start_fix", p>> \in VerdictActions
        \/ <<"issue.complete_fix", p>> \in VerdictActions
    <3>1. p \in InStatus({"open"}) \/ p \in InStatus({"fixing"})
      BY <2>1 DEF InStatus
    <3> QED
      BY <3>1, OffersEach DEF VerdictActions
  <2> QED
    BY <1>1, <2>2
<1>3. CASE FixesComplete
  <2>1. issues[o].status = "ready_retest" /\ issues[o].includedIn # LatestBuild
    BY <1>3 DEF FixesComplete, InStatus
  <2>2. AwaitsBuild(o)
    BY <2>1 DEF LegacyInvariant, FailureIsAccountable, AwaitsBuild
  <2>3. CanRecordExecutableRevision
    BY <2>2, <1>3 DEF FixIsStranded, CanRecordExecutableRevision
  <2>4. <<"product_revision.record", NoTarget>> \in BuildActions
    BY <2>3, Offers DEF BuildActions
  <2> QED
    BY <1>1, <2>4
<1> QED
  BY <1>2, <1>3

\* At testing and acceptance every Release has failed, so verdicts are open.
LEMMA AllFailedUnlocks ==
  ASSUME \A i \in ReleaseIndex : releases[i].status = "failed"
  PROVE  ~VerificationLocked
  BY DEF VerificationLocked

LEMMA TestingOffers ==
  ASSUME LegacyInvariant, ~RunIsLive, ~VerificationLocked, LatestBuild # 0
  PROVE  \E action \in AvailableActions : action[1] \in {"build.deploy_to_test", "test.record"}
<1>1. VerdictActions \cup BuildActions \subseteq AvailableActions
  BY DEF AvailableActions
<1>2. builds \in Seq(Build) /\ LatestBuild > 0 /\ builds[LatestBuild] \in Build
  BY DEF LegacyInvariant, TypeOK, LatestBuild
<1>3. CASE TestDeployed
  <2>1. PICK k \in Criteria : TRUE
    BY LegacyAssumption DEF LegacyAssumption
  <2>2. <<"technical_test", k>> \in {o \in Tests : TestDeployed /\ ~VerificationLocked}
    BY <1>3 DEF Tests, Origins
  <2>3. <<"test.record", <<"technical_test", k>>>> \in VerdictActions
    BY <2>2, OffersEach DEF VerdictActions
  <2> QED
    BY <1>1, <2>3
<1>4. CASE ~TestDeployed
  <2>1. builds[LatestBuild].status = "generated"
    BY <1>2, <1>4 DEF TestDeployed, Build
  <2>2. <<"build.deploy_to_test", NoTarget>> \in BuildActions
    BY <1>2, <2>1, Offers DEF BuildActions
  <2> QED
    BY <1>1, <2>2
<1> QED
  BY <1>3, <1>4

\* Once nothing is at "bugs", an Issue that is not closed has its fix in the
\* latest build and its case waits for a verdict.
LEMMA OnlyRetestsLeft ==
  ASSUME LegacyInvariant, LatestBuild # 0,
         ~ \E o \in Origins :
              \/ issues[o].status \in {"open", "fixing"}
              \/ issues[o].status = "ready_retest" /\ issues[o].includedIn # LatestBuild
  PROVE  \A o \in Origins : issues[o].status # "closed" =>
            Retested(issues[o]) /\ verdicts[o] # "pass"
<1> SUFFICES ASSUME NEW o \in Origins, issues[o].status # "closed"
             PROVE  Retested(issues[o]) /\ verdicts[o] # "pass"
  OBVIOUS
<1>1. issues[o].status \in IssueStatus
  BY DEF LegacyInvariant, TypeOK, Issue
<1>2. Retested(issues[o])
  BY <1>1 DEF Retested, IssueStatus
<1>3. issues[o].includedIn # NoBuild
  BY <1>2 DEF Retested, NoBuild
<1> QED
  BY <1>2, <1>3 DEF LegacyInvariant, FailureIsAccountable

LEMMA AcceptanceOffers ==
  ASSUME LegacyInvariant, ~RunIsLive, ~VerificationLocked, TestDeployed, AllTechnicalTestsPass,
         \A o \in Origins : issues[o].status # "closed" =>
            Retested(issues[o]) /\ verdicts[o] # "pass"
  PROVE  \E action \in AvailableActions : action[1] \in {"acceptance.record"}
<1>1. VerdictActions \subseteq AvailableActions
  BY DEF AvailableActions
<1>2. OnlyAcceptanceRetests
  BY DEF OnlyAcceptanceRetests, AllTechnicalTestsPass, AllPass, Tests, AcceptanceCases, Origins
<1>3. PICK k \in Criteria : TRUE
  BY LegacyAssumption DEF LegacyAssumption
<1>4. <<"acceptance", k>> \in
        {o \in AcceptanceCases : /\ TestDeployed /\ ~VerificationLocked
                                 /\ AllTechnicalTestsPass /\ OnlyAcceptanceRetests}
  BY <1>2 DEF AcceptanceCases, Origins
<1>5. <<"acceptance.record", <<"acceptance", k>>>> \in VerdictActions
  BY <1>4, OffersEach DEF VerdictActions
<1> QED
  BY <1>1, <1>5

LEMMA OpenReleaseOffers ==
  ASSUME LegacyInvariant, ~RunIsLive, NEW i \in ReleaseIndex, releases[i].status # "failed"
  PROVE  \E action \in AvailableActions :
            action[1] \in {"release_checks.replace", "release_check.record", "release.prepare",
                          "release.approve", "release.deploy_result", "release.reconcile"}
<1>1. ReleaseActions \subseteq AvailableActions
  BY DEF AvailableActions
<1>2. releases[i] \in Release
  BY DEF LegacyInvariant, TypeOK, ReleaseIndex
<1>3. releases[i].status \in {"draft", "approved", "needs_reconciliation"}
  BY <1>2 DEF Release, ReleaseStatus, RunIsLive
<1>4. DOMAIN CommandForRelease = {"draft", "approved", "needs_reconciliation"}
  BY DEF CommandForRelease
<1>5. CommandForRelease[releases[i].status] \in
         {"release.approve", "release.deploy_result", "release.reconcile"}
  BY <1>3 DEF CommandForRelease
<1>6. <<CommandForRelease[releases[i].status], i>> \in ReleaseActions
  BY <1>3, <1>4 DEF ReleaseActions
<1> QED
  BY <1>1, <1>5, <1>6

LEMMA FirstReleaseOffers ==
  ASSUME LegacyInvariant, ~RunIsLive, \A i \in ReleaseIndex : releases[i].status = "failed",
         planned, AllMerged, LatestBuild # 0, AllTechnicalTestsPass, AllAcceptancePass,
         \A o \in Origins : issues[o].status # "closed" =>
            Retested(issues[o]) /\ verdicts[o] # "pass"
  PROVE  \E action \in AvailableActions :
            action[1] \in {"release_checks.replace", "release_check.record", "release.prepare",
                          "release.approve", "release.deploy_result", "release.reconcile"}
<1>1. ReleaseActions \subseteq AvailableActions
  BY DEF AvailableActions
<1>2. CASE releases = << >>
  <2>1. <<"release_checks.replace", NoTarget>> \in ReleaseActions
    BY <1>2, Offers DEF ReleaseActions, ChecksOpen
  <2> QED
    BY <1>1, <2>1
<1>3. CASE releases # << >>
  <2>1. \A o \in Origins : verdicts[o] = "pass"
    BY DEF AllTechnicalTestsPass, AllAcceptancePass, AllPass, Origins, Tests, AcceptanceCases
  <2>2. \A o \in Origins : issues[o].status = "closed"
    BY <2>1
  <2>3. IssuesClosed
    BY <2>2 DEF IssuesClosed, InStatus
  <2>4. builds # << >> /\ BuildIsExecutable
    BY <1>3, <2>2 DEF LegacyInvariant, StageGround
  <2>5. AllRequiredChecksPass
    BY <1>3 DEF LegacyInvariant, StageGround
  <2>6. ReleaseGatesPass
    BY <2>3, <2>4, <2>5 DEF ReleaseGatesPass
  <2>7. ~BuildReleased
    BY DEF BuildReleased
  <2>8. <<"release.prepare", NoTarget>> \in ReleaseActions
    BY <2>4, <2>6, <2>7, Offers DEF ReleaseActions
  <2> QED
    BY <1>1, <2>8
<1> QED
  BY <1>2, <1>3

LEMMA InvariantOffers == ASSUME LegacyInvariant PROVE StageOffersItsWork
<1> SUFFICES ASSUME Stage # "live", ~FixIsStranded
             PROVE  OffersStageWork
  BY DEF StageOffersItsWork
<1> DEFINE AtBugs == \E o \in Origins :
             \/ issues[o].status \in {"open", "fixing"}
             \/ issues[o].status = "ready_retest" /\ issues[o].includedIn # LatestBuild
<1>1. ~RunIsLive
  BY DEF Stage
<1>2. CASE \E i \in ReleaseIndex : releases[i].status # "failed"
  <2>1. Stage = "release"
    BY <1>1, <1>2 DEF Stage
  <2> QED
    BY <2>1, <1>1, <1>2, OpenReleaseOffers, StageWorkIs DEF OffersStageWork
<1>3. CASE \A i \in ReleaseIndex : releases[i].status = "failed"
  <2> USE <1>1, <1>3
  <2>1. CASE ~planned \/ ~AllMerged
    <3>1. Stage = "development"
      BY <2>1 DEF Stage
    <3> QED
      BY <2>1, <3>1, DevelopmentOffers, StageWorkIs DEF OffersStageWork
  <2>2. CASE planned /\ AllMerged /\ AtBugs
    <3>1. Stage = "bugs"
      BY <2>2 DEF Stage
    <3> QED
      BY <2>2, <3>1, BugsOffer, StageWorkIs DEF OffersStageWork
  <2>3. CASE planned /\ AllMerged /\ ~AtBugs /\ LatestBuild = 0
    <3>1. Stage = "development"
      BY <2>3 DEF Stage
    <3> QED
      BY <2>3, <3>1, DevelopmentOffers, StageWorkIs DEF OffersStageWork
  <2>4. CASE planned /\ AllMerged /\ ~AtBugs /\ LatestBuild # 0
    <3>1. \A o \in Origins : issues[o].status # "closed" =>
             Retested(issues[o]) /\ verdicts[o] # "pass"
      BY <2>4, OnlyRetestsLeft
    <3>2. ~VerificationLocked
      BY AllFailedUnlocks
    <3>3. CASE ~TestDeployed \/ ~AllTechnicalTestsPass
      <4>1. Stage = "testing"
        BY <2>4, <3>3 DEF Stage
      <4> QED
        BY <2>4, <3>2, <4>1, TestingOffers, StageWorkIs DEF OffersStageWork
    <3>4. CASE TestDeployed /\ AllTechnicalTestsPass /\ ~AllAcceptancePass
      <4>1. Stage = "acceptance"
        BY <2>4, <3>4 DEF Stage
      <4> QED
        BY <3>1, <3>2, <3>4, <4>1, AcceptanceOffers, StageWorkIs DEF OffersStageWork
    <3>5. CASE TestDeployed /\ AllTechnicalTestsPass /\ AllAcceptancePass
      <4>1. Stage = "release"
        BY <2>4, <3>5 DEF Stage
      <4> QED
        BY <2>4, <3>1, <3>5, <4>1, FirstReleaseOffers, StageWorkIs DEF OffersStageWork
    <3> QED
      BY <3>3, <3>4, <3>5
  <2> QED
    BY <2>1, <2>2, <2>3, <2>4
<1> QED
  BY <1>2, <1>3

\* At every stage of an open run the server offers what the stage is for, whatever
\* the plan, the criteria and the history: DeriveStage and ProjectionFor agree
\* (but for the fix that waits after a failed Release, FixIsStranded).
THEOREM StageOffersWork == Spec => []StageOffersItsWork
<1>1. LegacyInvariant => StageOffersItsWork
  BY InvariantOffers
<1> QED
  BY <1>1, LegacyHolds, PTL

-----------------------------------------------------------------------------
(* What the projection offers.                                             *)

\* The checks of a run are all of one environment: they are replaced together.
OneEnvironment ==
    \A id, other \in DOMAIN checks : checks[id].environment = checks[other].environment

OffersInvariant == OneEnvironment /\ Len(releases) <= MaxReleases

LEMMA OffersInit == ASSUME LegacyAssumption, Init PROVE OffersInvariant
BY DEF LegacyAssumption, Init, OffersInvariant, OneEnvironment, NoEntries

\* Only the list of checks and the list of Releases matter.
LEMMA OffersStay ==
    ASSUME OffersInvariant, UNCHANGED <<checks, releases>> PROVE OffersInvariant'
BY DEF OffersInvariant, OneEnvironment

LEMMA ReleaseStatusOffers ==
    ASSUME TypeOK, OffersInvariant, NEW i, NEW status, SetReleaseStatus(i, status)
    PROVE  OffersInvariant'
<1>1. Len(releases') = Len(releases) /\ checks' = checks
  BY DEF SetReleaseStatus, TypeOK
<1> QED BY <1>1 DEF OffersInvariant, OneEnvironment

LEMMA OffersKeep ==
    ASSUME LegacyAssumption, TypeOK, OffersInvariant, [Next]_vars PROVE OffersInvariant'
<1>1. CASE WorkStep
  BY <1>1, OffersStay DEF WorkStep, ReplaceWorkPlan, StartWork, CompleteWork, SetWork
<1>2. CASE BuildStep
  BY <1>2, OffersStay DEF BuildStep, RecordExecutableRevision, CreateBuild, DeployBuild
<1>3. CASE VerdictStep
  BY <1>3, OffersStay
     DEF VerdictStep, RecordTest, RecordAcceptance, Judge, StartFix, CompleteFix, SetIssueStatus
<1>4. ASSUME NEW env, NEW required, ReplaceReleaseChecks(env, required)
      PROVE  OffersInvariant'
  BY <1>4 DEF ReplaceReleaseChecks, OffersInvariant, OneEnvironment
<1>5. ASSUME NEW id, NEW status, RecordReleaseCheck(id, status) PROVE OffersInvariant'
  <2>1. /\ DOMAIN checks' = DOMAIN checks /\ releases' = releases
        /\ \A other \in DOMAIN checks :
              checks'[other].environment = checks[other].environment
    BY <1>5 DEF RecordReleaseCheck, MayRecordReleaseCheck, TypeOK, CheckTables, ReleaseCheck
  <2> QED BY <2>1 DEF OffersInvariant, OneEnvironment
<1>6. ASSUME NEW env, PrepareRelease(env) PROVE OffersInvariant'
  <2>1. Len(releases') = Len(releases) + 1 /\ Len(releases) < MaxReleases /\ checks' = checks
    BY <1>6 DEF PrepareRelease, MayPrepareRelease, TypeOK
  <2>2. Len(releases) \in Nat /\ MaxReleases \in Nat
    BY DEF TypeOK, LegacyAssumption
  <2> QED BY <2>1, <2>2 DEF OffersInvariant, OneEnvironment
<1>7. ASSUME NEW i, ApproveRelease(i) PROVE OffersInvariant'
  BY <1>7, ReleaseStatusOffers DEF ApproveRelease
<1>8. ASSUME NEW i, NEW outcome, RecordDeployment(i, outcome) PROVE OffersInvariant'
  BY <1>8, ReleaseStatusOffers DEF RecordDeployment
<1>9. ASSUME NEW i, NEW outcome, ReconcileDeployment(i, outcome) PROVE OffersInvariant'
  BY <1>9, ReleaseStatusOffers DEF ReconcileDeployment
<1>10. CASE UNCHANGED vars
  BY <1>10, OffersStay DEF vars
<1> QED
  BY <1>1, <1>2, <1>3, <1>4, <1>5, <1>6, <1>7, <1>8, <1>9, <1>10 DEF Next, ReleaseStep

\* The offers of an open run, by what they are about.

LEMMA WorkOffersMeetGuards ==
    ASSUME ~RunIsLive, NEW action \in WorkActions PROVE Accepted(action)
<1>1. CASE PlanReplaceable /\ action = <<"work.plan.replace", NoTarget>>
  <2>1. NoEntries \in Plans /\ AcceptedPlan(NoEntries)
    <3>1. DOMAIN NoEntries = {}
      BY DEF NoEntries
    <3>2. NoEntries \in [{} -> SUBSET Items]
      BY DEF NoEntries
    <3>3. NoEntries \in Plans
      BY <3>2 DEF Plans
    <3>4. AcceptedPlan(NoEntries)
      BY <3>1 DEF AcceptedPlan, IsPlan, Acyclic
    <3> QED BY <3>3, <3>4
  <2>2. \E deps \in Plans : MayReplaceWorkPlan(deps)
    BY <1>1, <2>1 DEF MayReplaceWorkPlan
  <2> QED BY <1>1, <2>2 DEF Accepted
<1>2. ASSUME NEW i \in DOMAIN work, work[i] = "todo", action = <<"work.start", i>>
      PROVE  Accepted(action)
  BY <1>2 DEF Accepted, MayStartWork
<1>3. ASSUME NEW i \in DOMAIN work, work[i] = "in_progress", DependenciesMerged(i),
             action = <<"work.complete", i>>
      PROVE  Accepted(action)
  BY <1>3 DEF Accepted, MayCompleteWork
<1> QED BY <1>1, <1>2, <1>3 DEF WorkActions, Offer, OfferEach

LEMMA BuildOffersMeetGuards ==
    ASSUME LegacyAssumption, TypeOK, ~RunIsLive,
           NEW action \in BuildActions, ~AtBound(action[1])
    PROVE  Accepted(action)
<1>1. CASE CanRecordExecutableRevision /\ action = <<"product_revision.record", NoTarget>>
  BY <1>1 DEF Accepted
<1>2. CASE CanCreateBuild /\ action = <<"build.create", NoTarget>>
  <2>1. LatestBuild # MaxBuilds
    BY <1>2 DEF AtBound
  <2>2. LatestBuild < MaxBuilds
    BY <2>1 DEF LatestBuild, TypeOK, LegacyAssumption
  <2>3. builds # << >> => InStatus({"ready_retest"}) # {}
    BY <1>2 DEF CanCreateBuild, AwaitsBuild, InStatus
  <2>4. MayCreateBuild
    BY <1>2, <2>2, <2>3 DEF MayCreateBuild, CanCreateBuild
  <2> QED BY <1>2, <2>4 DEF Accepted
<1>3. CASE /\ LatestBuild > 0 /\ builds[LatestBuild].status = "generated"
           /\ action = <<"build.deploy_to_test", NoTarget>>
  BY <1>3 DEF Accepted, MayDeployBuild
<1> QED BY <1>1, <1>2, <1>3 DEF BuildActions, Offer

LEMMA VerdictOffersMeetGuards ==
    ASSUME ~RunIsLive, NEW action \in VerdictActions PROVE Accepted(action)
<1>1. ASSUME NEW o \in Tests, TestDeployed, ~VerificationLocked, action = <<"test.record", o>>
      PROVE  Accepted(action)
  BY <1>1 DEF Accepted, MayRecordTest
<1>2. ASSUME NEW o \in AcceptanceCases, TestDeployed, ~VerificationLocked,
             AllTechnicalTestsPass, OnlyAcceptanceRetests, action = <<"acceptance.record", o>>
      PROVE  Accepted(action)
  BY <1>2 DEF Accepted, MayRecordAcceptance
<1>3. ASSUME NEW o \in InStatus({"open"}), action = <<"issue.start_fix", o>>
      PROVE  Accepted(action)
  BY <1>3 DEF Accepted, MayStartFix, InStatus
<1>4. ASSUME NEW o \in InStatus({"fixing"}), action = <<"issue.complete_fix", o>>
      PROVE  Accepted(action)
  BY <1>4 DEF Accepted, MayCompleteFix, InStatus
<1> QED BY <1>1, <1>2, <1>3, <1>4 DEF VerdictActions, OfferEach

LEMMA ReleaseOffersMeetGuards ==
    ASSUME LegacyAssumption, LegacyInvariant, OffersInvariant, ~RunIsLive,
           NEW action \in ReleaseActions, ~AtBound(action[1])
    PROVE  Accepted(action)
<1>1. CASE ChecksOpen /\ action = <<"release_checks.replace", NoTarget>>
  BY <1>1 DEF Accepted
<1>2. ASSUME NEW id \in DOMAIN checks, ChecksOpen, action = <<"release_check.record", id>>
      PROVE  Accepted(action)
  BY <1>2 DEF Accepted, MayRecordReleaseCheck
<1>3. CASE /\ ReleaseGatesPass /\ BuildIsExecutable /\ ~BuildReleased
           /\ action = <<"release.prepare", NoTarget>>
  <2>1. Len(releases) < MaxReleases
    BY <1>3 DEF AtBound, OffersInvariant, LegacyInvariant, TypeOK, LegacyAssumption
  <2>2. PICK id \in DOMAIN checks : TRUE
    BY <1>3 DEF ReleaseGatesPass, AllRequiredChecksPass
  <2>3. /\ checks[id].environment \in Environments
        /\ \A other \in DOMAIN checks : checks[other].environment = checks[id].environment
    BY <2>2 DEF LegacyInvariant, TypeOK, CheckTables, ReleaseCheck, OffersInvariant,
                OneEnvironment
  <2>4. TestDeployed
    <3>1. Tests # {}
      <4>1. PICK k \in Criteria : TRUE
        BY DEF LegacyAssumption
      <4>2. <<"technical_test", k>> \in Tests
        BY <4>1 DEF Tests, Origins
      <4> QED BY <4>2
    <3>2. PICK o \in Tests : verdicts[o] = "pass"
      BY <1>3, <3>1 DEF ReleaseGatesPass, AllTechnicalTestsPass, AllPass
    <3>3. verdicts # Unjudged
      BY <3>2 DEF Unjudged, Tests
    <3> QED BY <3>3 DEF LegacyInvariant, BuildStandsOnWork
  <2>5. MayPrepareRelease(checks[id].environment)
    BY <1>3, <2>1, <2>3, <2>4 DEF MayPrepareRelease, ReleaseGatesPass
  <2>6. \E env \in Environments : MayPrepareRelease(env)
    BY <2>3, <2>5
  <2> QED BY <1>3, <2>6 DEF Accepted
<1>4. ASSUME NEW i \in ReleaseIndex, releases[i].status \in DOMAIN CommandForRelease,
             action = <<CommandForRelease[releases[i].status], i>>
      PROVE  Accepted(action)
  <2>1. releases[i].status # "failed" => EnsureReleaseStillValid(releases[i])
    BY DEF LegacyInvariant, ReleaseStands
  <2>2. CASE releases[i].status = "draft"
    <3>1. action = <<"release.approve", i>> /\ MayApproveRelease(i)
      BY <1>4, <2>1, <2>2 DEF CommandForRelease, MayApproveRelease
    <3> QED BY <3>1 DEF Accepted
  <2>3. CASE releases[i].status = "approved"
    <3>1. action = <<"release.deploy_result", i>> /\ MayRecordDeployment(i)
      BY <1>4, <2>1, <2>3 DEF CommandForRelease, MayRecordDeployment
    <3> QED BY <3>1 DEF Accepted
  <2>4. CASE releases[i].status = "needs_reconciliation"
    <3>1. action = <<"release.reconcile", i>> /\ MayReconcileDeployment(i, "success")
      BY <1>4, <2>4 DEF CommandForRelease, MayReconcileDeployment
    <3> QED BY <3>1 DEF Accepted
  <2> QED BY <1>4, <2>2, <2>3, <2>4 DEF CommandForRelease
<1> QED BY <1>1, <1>2, <1>3, <1>4 DEF ReleaseActions, Offer, OfferEach

LEMMA OffersMeetGuards ==
    ASSUME LegacyAssumption, LegacyInvariant, OffersInvariant PROVE OfferedIsAccepted
<1> SUFFICES ASSUME NEW action \in AvailableActions, ~AtBound(action[1])
             PROVE  Accepted(action)
  BY DEF OfferedIsAccepted
<1>1. TypeOK
  BY DEF LegacyInvariant
<1> QED BY <1>1, WorkOffersMeetGuards, BuildOffersMeetGuards, VerdictOffersMeetGuards,
           ReleaseOffersMeetGuards DEF AvailableActions

\* Whatever the server offers for a run without DeliveryUnits the engine accepts, for any
\* plan, criteria, checks and number of builds and Releases (ProjectionFor and Apply, which
\* keep two copies of each guard).
THEOREM OffersAreAccepted == Spec => []OfferedIsAccepted
<1>1. Init => OffersInvariant
  BY OffersInit, LegacyAssumption
<1>2. LegacyInvariant /\ OffersInvariant /\ [Next]_vars => OffersInvariant'
  BY OffersKeep, LegacyAssumption DEF LegacyInvariant
<1>3. LegacyInvariant /\ OffersInvariant => OfferedIsAccepted
  BY OffersMeetGuards, LegacyAssumption
<1> QED BY <1>1, <1>2, <1>3, LegacyHolds, PTL DEF Spec
=============================================================================
