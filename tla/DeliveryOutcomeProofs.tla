------------------------ MODULE DeliveryOutcomeProofs ------------------------
(***************************************************************************)
(* Where a DeliveryRun ends, for every value of its constants: how a       *)
(* Release moves, who stands behind one that is live, what the stored      *)
(* stage says, why "bugs" is final, and that an open run offers an action. *)
(* Rests on the invariants of DeliveryRunProofs.                           *)
(***************************************************************************)
EXTENDS DeliveryRunProofs

-----------------------------------------------------------------------------
(* The course of a Release.                                                *)

\* What a command does to the list of Releases: nothing, one draft more, or one step
\* of the Release it names.
LEMMA ReleasesAfter ==
  ASSUME TypeOK, NEW a \in Actors, ReleaseStep(a)
  PROVE  \/ releases' = releases
         \/ \E release \in Release :
              release.status = "draft" /\ releases' = Append(releases, release)
         \/ \E i \in ReleaseIndex, release \in Release :
              /\ releases' = [releases EXCEPT ![i] = release]
              /\ \/ /\ releases[i].status = "draft" /\ release.status = "approved"
                    /\ HasRole(release.approvedBy, "release_approver")
                 \/ /\ releases[i].status \in {"approved", "needs_reconciliation"}
                    /\ release.approvedBy = releases[i].approvedBy
                    /\ <<releases[i].status, release.status>> \in StatusOrder
                    /\ release.status = "live" =>
                         release.attempt = [outcome |-> "success", launchURL |-> TRUE]
<1>1. CASE releases' = releases
  BY <1>1
<1>2. ASSUME NEW env \in Environments, PrepareV3Release(a, env)
      PROVE  \E release \in Release :
               release.status = "draft" /\ releases' = Append(releases, release)
  <2> DEFINE release == [revision |-> VerificationRevision, environment |-> env,
                         status |-> "draft", approvedBy |-> NoActor, attempt |-> NoAttempt]
  <2>1. VerificationRevision \in Revisions
    BY <1>2 DEF PrepareV3Release, MayPrepareV3Release, VerificationRevision, TypeOK, DeliveryUnit
  <2>2. release \in Release /\ release.status = "draft"
    BY <2>1 DEF Release, ReleaseStatus
  <2>3. releases' = Append(releases, release)
    BY <1>2 DEF PrepareV3Release, MayPrepareV3Release
  <2> HIDE DEF release
  <2> QED BY <2>2, <2>3
<1>3. ASSUME NEW i \in 1..MaxReleases, ApproveRelease(a, i)
      PROVE  \E release \in Release :
               /\ i \in ReleaseIndex
               /\ releases' = [releases EXCEPT ![i] = release]
               /\ releases[i].status = "draft" /\ release.status = "approved"
               /\ HasRole(release.approvedBy, "release_approver")
  <2> DEFINE release == [releases[i] EXCEPT !.status = "approved", !.approvedBy = a]
  <2>1. i \in ReleaseIndex /\ releases[i] \in Release /\ releases[i].status = "draft"
    BY <1>3 DEF ApproveRelease, MayApproveRelease, TypeOK, ReleaseIndex
  <2>2. release \in Release /\ release.status = "approved" /\ release.approvedBy = a
    BY <2>1 DEF Release, ReleaseStatus
  <2>3. HasRole(a, "release_approver") /\ releases' = [releases EXCEPT ![i] = release]
    BY <1>3 DEF ApproveRelease, MayApproveRelease, AuthorizedHuman, HasRole, SetRelease
  <2> HIDE DEF release
  <2> QED BY <2>1, <2>2, <2>3
<1>4. ASSUME NEW i \in 1..MaxReleases, NEW outcome \in Outcomes, NEW url \in BOOLEAN,
             RecordDeployment(a, i, outcome, url) \/ ReconcileDeployment(a, i, outcome, url)
      PROVE  \E release \in Release :
               /\ i \in ReleaseIndex
               /\ releases' = [releases EXCEPT ![i] = release]
               /\ releases[i].status \in {"approved", "needs_reconciliation"}
               /\ release.approvedBy = releases[i].approvedBy
               /\ <<releases[i].status, release.status>> \in StatusOrder
               /\ release.status = "live" =>
                    release.attempt = [outcome |-> "success", launchURL |-> TRUE]
  <2>1. PICK found \in BOOLEAN :
          /\ releases' = [releases EXCEPT ![i] =
                            [releases[i] EXCEPT !.status = StatusAfter(outcome),
                               !.attempt = [outcome |-> outcome, launchURL |-> found]]]
          /\ outcome = "success" => found
    <3>1. ASSUME RecordDeployment(a, i, outcome, url)
          PROVE  /\ releases' = [releases EXCEPT ![i] =
                                   [releases[i] EXCEPT !.status = StatusAfter(outcome),
                                      !.attempt = [outcome |-> outcome, launchURL |-> url]]]
                 /\ outcome = "success" => url
      BY <3>1 DEF RecordDeployment, MayRecordDeployment, LaunchURLAccepted, SetRelease
    <3>2. ASSUME ReconcileDeployment(a, i, outcome, url)
          PROVE  /\ releases' = [releases EXCEPT ![i] =
                                   [releases[i] EXCEPT !.status = StatusAfter(outcome),
                                      !.attempt = [outcome |-> outcome,
                                                   launchURL |-> ReconciledURL(i, url)]]]
                 /\ outcome = "success" => ReconciledURL(i, url)
      BY <3>2 DEF ReconcileDeployment, MayReconcileDeployment, LaunchURLAccepted, SetRelease
    <3>3. ReconciledURL(i, url) \in BOOLEAN
      BY DEF ReconciledURL
    <3> QED BY <1>4, <3>1, <3>2, <3>3
  <2> DEFINE release == [releases[i] EXCEPT !.status = StatusAfter(outcome),
                           !.attempt = [outcome |-> outcome, launchURL |-> found]]
  <2>2. i \in ReleaseIndex /\ releases[i] \in Release
    BY <1>4 DEF RecordDeployment, MayRecordDeployment, ReconcileDeployment,
                MayReconcileDeployment, TypeOK, ReleaseIndex
  <2>3. /\ releases[i].status \in {"approved", "needs_reconciliation"}
        /\ releases[i].status = "needs_reconciliation" => outcome # "unknown"
    BY <1>4 DEF RecordDeployment, MayRecordDeployment, ReconcileDeployment,
                MayReconcileDeployment, Reconcilable
  <2>4. StatusAfter(outcome) = IF outcome = "success" THEN "live"
                               ELSE IF outcome = "failure" THEN "failed"
                               ELSE "needs_reconciliation"
    BY DEF StatusAfter, Outcomes
  <2>5. /\ release \in Release
        /\ release.approvedBy = releases[i].approvedBy
        /\ release.status = StatusAfter(outcome)
        /\ release.attempt = [outcome |-> outcome, launchURL |-> found]
    BY <2>2, <2>4 DEF Release, ReleaseStatus, Attempt
  <2>6. releases' = [releases EXCEPT ![i] = release]
    BY <2>1
  <2> HIDE DEF release
  <2>7. <<releases[i].status, release.status>> \in StatusOrder
    BY <2>3, <2>4, <2>5 DEF StatusOrder, Outcomes
  <2>8. release.status = "live" =>
          release.attempt = [outcome |-> "success", launchURL |-> TRUE]
    BY <2>1, <2>4, <2>5
  <2> QED BY <2>2, <2>3, <2>5, <2>6, <2>7, <2>8
<1>5. ReleaseStep(a) => \/ releases' = releases
                        \/ \E env \in Environments : PrepareV3Release(a, env)
                        \/ \E i \in 1..MaxReleases : ApproveRelease(a, i)
                        \/ \E i \in 1..MaxReleases, outcome \in Outcomes, url \in BOOLEAN :
                             \/ RecordDeployment(a, i, outcome, url)
                             \/ ReconcileDeployment(a, i, outcome, url)
  BY DEF ReleaseStep, ReplaceReleaseChecks, RecordReleaseCheck, MayRecordReleaseCheck
<1> QED BY <1>1, <1>2, <1>3, <1>4, <1>5

\* Only the commands of the release stage touch the list of Releases.
LEMMA ReleasesKept ==
  ASSUME TypeOK, [Next]_vars, ~\E a \in Actors : ReleaseStep(a)
  PROVE  releases' = releases
  BY UnitStepFrame, VerdictFrame DEF Next, LegacyCommand, delivery, vars

\* A Release never changes once it is live or failed, and on the way there it follows
\* draft, approved, needs_reconciliation in that order and keeps its approver, whatever
\* the adapter and the approvers send and in whatever order.
THEOREM ReleaseForwardHolds == Spec => ReleaseForward
<1>1. ASSUME TypeOK, [Next]_vars
      PROVE  \A i \in ReleaseIndex :
                \/ releases'[i] = releases[i]
                \/ /\ <<releases[i].status, releases'[i].status>> \in StatusOrder
                   /\ releases[i].status # "draft" =>
                          releases'[i].approvedBy = releases[i].approvedBy
  <2> SUFFICES ASSUME NEW i \in ReleaseIndex, releases'[i] # releases[i]
               PROVE  /\ <<releases[i].status, releases'[i].status>> \in StatusOrder
                      /\ releases[i].status # "draft" =>
                             releases'[i].approvedBy = releases[i].approvedBy
    OBVIOUS
  <2> PICK a \in Actors : ReleaseStep(a)
    BY <1>1, ReleasesKept
  <2>1. ASSUME NEW release, releases' = Append(releases, release) PROVE FALSE
    BY <1>1, <2>1 DEF TypeOK, ReleaseIndex
  <2>2. ASSUME NEW j \in ReleaseIndex, NEW release,
               releases' = [releases EXCEPT ![j] = release]
        PROVE  j = i /\ releases'[i] = release
    BY <1>1, <2>2 DEF TypeOK, ReleaseIndex
  <2>3. <<"draft", "approved">> \in StatusOrder
    BY DEF StatusOrder
  <2> QED BY <1>1, <2>1, <2>2, <2>3, ReleasesAfter
<1> QED BY <1>1, TypeCorrect, PTL DEF Spec, ReleaseForward

-----------------------------------------------------------------------------
(* Who stands behind a live Release.                                       *)

\* A recorded pass of a case is a business acceptor's.
ConfirmedByMembers ==
    \A r \in Revisions, c \in Criteria :
        acceptance[r][c].result = "pass" => HasRole(acceptance[r][c].by, "business_acceptor")

\* A Release past its draft keeps the approver it had, and is live with a public URL.
ApprovedByMembers ==
    \A i \in ReleaseIndex :
        /\ releases[i].status \in {"approved", "needs_reconciliation", "live"} =>
             HasRole(releases[i].approvedBy, "release_approver")
        /\ releases[i].status = "live" =>
             releases[i].attempt = [outcome |-> "success", launchURL |-> TRUE]

\* Nobody but a business acceptor confirms a case.
LEMMA ConfirmedStep ==
  TypeOK /\ ConfirmedByMembers /\ [Next]_vars => ConfirmedByMembers'
<1> SUFFICES ASSUME TypeOK, ConfirmedByMembers, [Next]_vars PROVE ConfirmedByMembers'
  OBVIOUS
<1>1. ASSUME acceptance' = acceptance PROVE ConfirmedByMembers'
  BY <1>1 DEF ConfirmedByMembers
<1>2. ASSUME NEW a \in Actors, NEW c \in Criteria, NEW r \in Revisions, NEW owner,
             NEW result, ConfirmAcceptance(a, c, r, result, owner)
      PROVE  ConfirmedByMembers'
  <2> SUFFICES ASSUME NEW s \in Revisions, NEW d \in Criteria,
                      acceptance'[s][d].result = "pass"
               PROVE  HasRole(acceptance'[s][d].by, "business_acceptor")
    BY DEF ConfirmedByMembers
  <2> DEFINE v == [result |-> result, owner |-> owner, by |-> a]
  <2>1. acceptance' = [acceptance EXCEPT ![r][c] = v]
    BY <1>2 DEF ConfirmAcceptance, MayConfirmAcceptance
  <2>2. HasRole(v.by, "business_acceptor")
    BY <1>2 DEF ConfirmAcceptance, MayConfirmAcceptance, AuthorizedHuman, HasRole
  <2> HIDE DEF v
  <2>3. acceptance'[s][d] = IF s = r /\ d = c THEN v ELSE acceptance[s][d]
    BY <2>1 DEF TypeOK
  <2> QED BY <2>2, <2>3 DEF ConfirmedByMembers
<1>3. ASSUME NEW a \in Actors, VerdictStep(a) PROVE ConfirmedByMembers'
  BY <1>1, <1>2, <1>3 DEF VerdictStep, RecordQuality, MayRecordQuality
<1> QED BY <1>1, <1>3, UnitStepFrame, ReleaseStepFrame DEF Next, vars

\* Only a release approver approves, and only a success with a URL goes live.
LEMMA ApprovedStep ==
  TypeOK /\ ApprovedByMembers /\ [Next]_vars => ApprovedByMembers'
<1> SUFFICES ASSUME TypeOK, ApprovedByMembers, [Next]_vars PROVE ApprovedByMembers'
  OBVIOUS
<1>1. ASSUME releases' = releases PROVE ApprovedByMembers'
  BY <1>1 DEF ApprovedByMembers, ReleaseIndex
<1>2. ASSUME NEW release \in Release, release.status = "draft",
             releases' = Append(releases, release)
      PROVE  ApprovedByMembers'
  <2> SUFFICES ASSUME NEW i \in ReleaseIndex', releases'[i].status # "draft"
               PROVE  i \in ReleaseIndex /\ releases'[i] = releases[i]
    BY DEF ApprovedByMembers
  <2> QED BY <1>2 DEF TypeOK, ReleaseIndex
<1>3. ASSUME NEW i \in ReleaseIndex, NEW release \in Release,
             releases' = [releases EXCEPT ![i] = release],
             release.status \in {"approved", "needs_reconciliation", "live"} =>
               HasRole(release.approvedBy, "release_approver"),
             release.status = "live" =>
               release.attempt = [outcome |-> "success", launchURL |-> TRUE]
      PROVE  ApprovedByMembers'
  <2>1. /\ ReleaseIndex' = ReleaseIndex
        /\ \A j \in ReleaseIndex :
              releases'[j] = IF j = i THEN release ELSE releases[j]
    BY <1>3 DEF TypeOK, ReleaseIndex
  <2> QED BY <1>3, <2>1 DEF ApprovedByMembers
<1>4. ASSUME NEW a \in Actors, ReleaseStep(a) PROVE ApprovedByMembers'
  BY <1>1, <1>2, <1>3, <1>4, ReleasesAfter DEF ApprovedByMembers
<1> QED BY <1>1, <1>4, ReleasesKept

\* What is live was accepted by business acceptors for every criterion, approved by a
\* release approver and deployed with its public URL, also when the approver joined,
\* failed, reopened and judged again in any order before.
THEOREM LiveIsConfirmed == Spec => []LiveIsHumanConfirmed
<1>1. Init => ConfirmedByMembers /\ ApprovedByMembers
  BY DEF Init, ConfirmedByMembers, ApprovedByMembers, NotConfirmed, ReleaseIndex
<1>2. EvidenceInvariant /\ ConfirmedByMembers /\ ApprovedByMembers => LiveIsHumanConfirmed
  <2> SUFFICES ASSUME EvidenceInvariant, ConfirmedByMembers, ApprovedByMembers,
                      NEW i \in ReleaseIndex, releases[i].status = "live"
               PROVE  /\ HasRole(releases[i].approvedBy, "release_approver")
                      /\ \A c \in Criteria :
                            HasRole(acceptance[releases[i].revision][c].by, "business_acceptor")
                      /\ releases[i].attempt = [outcome |-> "success", launchURL |-> TRUE]
    BY DEF LiveIsHumanConfirmed
  <2>1. /\ releases[i].revision = VerificationRevision
        /\ AllAcceptancePass(VerificationRevision)
    BY DEF EvidenceInvariant, ReleaseEvidence, ReleaseGatesPass
  <2>2. releases[i].revision \in Revisions
    <3>1. releases[i] \in Release
      BY DEF EvidenceInvariant, TypeOK, ReleaseIndex
    <3> QED BY <3>1 DEF Release
  <2> QED BY <2>1, <2>2 DEF ConfirmedByMembers, ApprovedByMembers,
             AllAcceptancePass, AllPass, Passing
<1> QED BY <1>1, <1>2, ConfirmedStep, ApprovedStep, TypeCorrect, EvidenceHolds, PTL DEF Spec

-----------------------------------------------------------------------------
(* The stored stage.                                                       *)

\* A revision with a case nobody in the run can repair is the one under verification,
\* the run is at "bugs", and would be derived to be there again.
BugsGround ==
    \A r \in Revisions :
        StuckAtFirst(quality[r]) \/ StuckAtFirst(acceptance[r]) =>
            VerificationRevision = r /\ stage = "bugs" /\ DeriveV3Stage = "bugs"

\* A case that failed has not passed.
LEMMA StuckNotPassing ==
  ASSUME NEW verdicts, StuckAtFirst(verdicts) PROVE ~AllPass(verdicts)
  BY DEF StuckAtFirst, AllPass, Passing

\* Every command of the release stage finds the verified revision accepted.
LEMMA ReleaseStepAccepted ==
  ASSUME EvidenceInvariant, NEW a \in Actors, ReleaseStep(a)
  PROVE  VerificationRevision \in Revisions /\ Accepted(VerificationRevision)
<1> USE DEF EvidenceInvariant
<1>0. VerificationRevision \in Revisions \cup {NoRevision}
  BY DEF VerificationRevision, TypeOK, DeliveryUnit
<1>1. CASE stage = "release"
  BY <1>1 DEF ReleaseGround
<1>2. ASSUME NEW i \in ReleaseIndex, releases[i].status # "failed"
      PROVE  VerificationRevision \in Revisions /\ Accepted(VerificationRevision)
  <2>1. ReleaseGatesPass
    BY <1>2 DEF ReleaseEvidence
  <2> QED BY <1>0, <2>1 DEF ReleaseGatesPass, Accepted
<1>3. stage = "release" \/ \E i \in ReleaseIndex : releases[i].status # "failed"
  BY DEF ReleaseStep, ReplaceReleaseChecks, RecordReleaseCheck, MayRecordReleaseCheck,
         ChecksOpen, PrepareV3Release, MayPrepareV3Release, ApproveRelease, MayApproveRelease,
         RecordDeployment, MayRecordDeployment, ReconcileDeployment, MayReconcileDeployment,
         Reconcilable
<1> QED BY <1>1, <1>2, <1>3

\* A failure routed to a gate cannot leave a later failure as the first that decides.
LEMMA StuckByVerdict ==
  ASSUME NEW verdicts, NEW after, NEW c \in Criteria,
         \A e \in Criteria \ {c} : after[e] = verdicts[e],
         after[c].owner \in RoutedOwners, after[c].result # "pass",
         StuckAtFirst(after)
  PROVE  StuckAtFirst(verdicts)
<1> PICK d \in Criteria : /\ after[d].result = "fail"
                          /\ after[d].owner \in UnroutedOwners
                          /\ 1..(d - 1) \subseteq Passing(after)
  BY DEF StuckAtFirst
<1>1. d # c /\ c \notin Passing(after)
  BY DEF RoutedOwners, UnroutedOwners, Passing
<1>2. 1..(d - 1) \subseteq Passing(verdicts)
  BY <1>1 DEF Passing
<1> QED BY <1>1, <1>2 DEF StuckAtFirst

\* A verdict that leaves a case stuck was not routed, so the revision stays under
\* verification, and the stage is derived from it.
LEMMA BugsVerdict ==
  ASSUME TypeOK, BugsGround, NEW a \in Actors, VerdictStep(a)
  PROVE  BugsGround'
<1> PICK c \in Criteria, r \in Revisions, owner \in Owners :
      \/ \E result \in {"pass", "fail", "blocked"} : RecordQuality(a, c, r, result, owner)
      \/ \E result \in {"pass", "fail"} : ConfirmAcceptance(a, c, r, result, owner)
  BY DEF VerdictStep
<1>1. /\ ~RunIsLive /\ stage \in {"testing", "acceptance"} /\ ~activeUnit
      /\ r = VerificationRevision
      /\ releases' = releases
      /\ stage' = DeriveStage'
      /\ RouteVerdict(owner)
  BY DEF RecordQuality, MayRecordQuality, QualityStage, ConfirmAcceptance, MayConfirmAcceptance,
         delivery
<1>2. \A s \in Revisions : ~StuckAtFirst(quality[s]) /\ ~StuckAtFirst(acceptance[s])
  BY <1>1 DEF BugsGround
<1>3. DeriveStage' = DeriveV3Stage'
  BY <1>1 DEF RunIsLive, DeriveStage, ReleaseIndex
<1>4. ASSUME NEW s \in Revisions \ {r} PROVE quality'[s] = quality[s] /\ acceptance'[s] = acceptance[s]
  BY DEF RecordQuality, MayRecordQuality, ConfirmAcceptance, MayConfirmAcceptance, TypeOK
<1>5. \/ /\ acceptance' = acceptance
         /\ quality'[r][c].owner = owner
         /\ quality'[r][c].result = "fail" <=> owner \in FailureOwners
         /\ \A e \in Criteria \ {c} : quality'[r][e] = quality[r][e]
      \/ /\ quality' = quality /\ AllQualityPass(r)
         /\ acceptance'[r][c].owner = owner
         /\ acceptance'[r][c].result = "fail" <=> owner \in FailureOwners
         /\ \A e \in Criteria \ {c} : acceptance'[r][e] = acceptance[r][e]
  <2>1. ASSUME NEW result \in {"pass", "fail", "blocked"}, RecordQuality(a, c, r, result, owner)
        PROVE  /\ acceptance' = acceptance
               /\ quality'[r][c].owner = owner
               /\ quality'[r][c].result = "fail" <=> owner \in FailureOwners
               /\ \A e \in Criteria \ {c} : quality'[r][e] = quality[r][e]
    <3> DEFINE v == [result |-> result, owner |-> owner]
    <3>1. quality' = [quality EXCEPT ![r][c] = v] /\ acceptance' = acceptance
      BY <2>1 DEF RecordQuality, MayRecordQuality
    <3>2. result = "fail" <=> owner \in FailureOwners
      BY <2>1 DEF RecordQuality, MayRecordQuality, Verdicts
    <3> HIDE DEF v
    <3>3. quality'[r][c] = v /\ \A e \in Criteria \ {c} : quality'[r][e] = quality[r][e]
      BY <3>1 DEF TypeOK
    <3> QED BY <3>1, <3>2, <3>3 DEF v
  <2>2. ASSUME NEW result \in {"pass", "fail"}, ConfirmAcceptance(a, c, r, result, owner)
        PROVE  /\ quality' = quality /\ AllQualityPass(r)
               /\ acceptance'[r][c].owner = owner
               /\ acceptance'[r][c].result = "fail" <=> owner \in FailureOwners
               /\ \A e \in Criteria \ {c} : acceptance'[r][e] = acceptance[r][e]
    <3> DEFINE v == [result |-> result, owner |-> owner, by |-> a]
    <3>1. /\ acceptance' = [acceptance EXCEPT ![r][c] = v]
          /\ quality' = quality /\ AllQualityPass(r)
      BY <2>2 DEF ConfirmAcceptance, MayConfirmAcceptance
    <3>2. result = "fail" <=> owner \in FailureOwners
      BY <2>2 DEF ConfirmAcceptance, MayConfirmAcceptance, Verdicts
    <3> HIDE DEF v
    <3>3. acceptance'[r][c] = v /\ \A e \in Criteria \ {c} : acceptance'[r][e] = acceptance[r][e]
      BY <3>1 DEF TypeOK
    <3> QED BY <3>1, <3>2, <3>3 DEF v
  <2> QED BY <2>1, <2>2
<1>6. CASE owner \in RoutedOwners
  <2>1. owner \in FailureOwners
    BY <1>6 DEF Owners, RoutedOwners
  <2>2. ~StuckAtFirst(quality'[r]) /\ ~StuckAtFirst(acceptance'[r])
    <3>1. CASE acceptance' = acceptance /\ quality'[r][c].owner = owner
               /\ quality'[r][c].result = "fail"
               /\ \A e \in Criteria \ {c} : quality'[r][e] = quality[r][e]
      <4>1. quality'[r][c].owner \in RoutedOwners /\ quality'[r][c].result # "pass"
        BY <1>6, <3>1
      <4>2. StuckAtFirst(quality'[r]) => StuckAtFirst(quality[r])
        BY <3>1, <4>1, StuckByVerdict, Zenon
      <4> QED BY <1>2, <3>1, <4>2
    <3>2. CASE quality' = quality /\ acceptance'[r][c].owner = owner
               /\ acceptance'[r][c].result = "fail"
               /\ \A e \in Criteria \ {c} : acceptance'[r][e] = acceptance[r][e]
      <4>1. acceptance'[r][c].owner \in RoutedOwners /\ acceptance'[r][c].result # "pass"
        BY <1>6, <3>2
      <4>2. StuckAtFirst(acceptance'[r]) => StuckAtFirst(acceptance[r])
        BY <3>2, <4>1, StuckByVerdict, Zenon
      <4>3. ~StuckAtFirst(quality'[r])
        BY <1>2, <3>2
      <4>4. ~StuckAtFirst(acceptance'[r])
        BY <1>2, <4>2
      <4> QED BY <4>3, <4>4
    <3>3. \/ /\ acceptance' = acceptance /\ quality'[r][c].owner = owner
             /\ quality'[r][c].result = "fail"
             /\ \A e \in Criteria \ {c} : quality'[r][e] = quality[r][e]
          \/ /\ quality' = quality /\ acceptance'[r][c].owner = owner
             /\ acceptance'[r][c].result = "fail"
             /\ \A e \in Criteria \ {c} : acceptance'[r][e] = acceptance[r][e]
      BY <1>5, <2>1
    <3> QED BY <3>1, <3>2, <3>3, Zenon
  <2> QED BY <1>2, <1>4, <2>2 DEF BugsGround
<1>7. CASE owner \notin RoutedOwners
  <2> SUFFICES ASSUME NEW s \in Revisions,
                      StuckAtFirst(quality'[s]) \/ StuckAtFirst(acceptance'[s])
               PROVE  VerificationRevision' = s /\ DeriveV3Stage' = "bugs"
    BY <1>1, <1>3 DEF BugsGround
  <2>1. s = r
    BY <1>2, <1>4
  <2>2. VerificationRevision' = r /\ r # NoRevision
    BY <1>1, <1>7, RunAssumption DEF RouteVerdict, RoutedUnit, RoutedOwners, VerificationRevision
  <2>3. CASE acceptance' = acceptance
    <3>1. StuckAtFirst(quality'[r]) /\ ~AllPass(quality'[r])
      BY <1>2, <2>1, <2>3, StuckNotPassing
    <3> QED BY <2>1, <2>2, <3>1 DEF DeriveV3Stage, AllQualityPass
  <2>4. CASE quality' = quality /\ AllQualityPass(r)
    <3>1. StuckAtFirst(acceptance'[r]) /\ ~AllPass(acceptance'[r])
      BY <1>2, <2>1, <2>4, StuckNotPassing
    <3>2. AllPass(quality'[r])
      BY <2>4 DEF AllQualityPass
    <3> QED BY <2>1, <2>2, <3>1, <3>2 DEF DeriveV3Stage, AllQualityPass, AllAcceptancePass
  <2> QED BY <1>5, <2>3, <2>4
<1> QED BY <1>6, <1>7

\* No other command moves a run with a stuck case.
LEMMA BugsStep ==
  EvidenceInvariant /\ BugsGround /\ [Next]_vars => BugsGround'
<1> SUFFICES ASSUME EvidenceInvariant, BugsGround, [Next]_vars PROVE BugsGround'
  OBVIOUS
<1>1. TypeOK
  BY DEF EvidenceInvariant
<1>2. ASSUME NEW a \in Actors, UnitStep(a) PROVE BugsGround'
  BY <1>2, UnitStepFrame, RunAssumption DEF BugsGround
<1>3. ASSUME NEW a \in Actors, ReleaseStep(a) \/ LegacyCommand(a), NEW r \in Revisions,
             StuckAtFirst(quality[r]) \/ StuckAtFirst(acceptance[r])
      PROVE  LegacyCommand(a)
  <2>1. VerificationRevision = r
    BY <1>3 DEF BugsGround
  <2>2. ~Accepted(r)
    BY <1>3, StuckNotPassing DEF Accepted, AllQualityPass, AllAcceptancePass
  <2> QED BY <1>3, <2>1, <2>2, ReleaseStepAccepted
<1>4. ASSUME NEW a \in Actors, ReleaseStep(a) \/ LegacyCommand(a) PROVE BugsGround'
  <2>1. UNCHANGED <<activeUnit, unit, quality, acceptance>> /\ stage' = DeriveStage'
    BY <1>4, ReleaseStepFrame
  <2>2. DeriveV3Stage' = DeriveV3Stage /\ VerificationRevision' = VerificationRevision
    BY <2>1 DEF DeriveV3Stage, VerificationRevision, AllQualityPass, AllAcceptancePass
  <2>3. ASSUME LegacyCommand(a) PROVE stage' = DeriveV3Stage'
    BY <2>1, <2>3 DEF LegacyCommand, RunIsLive, DeriveStage, ReleaseIndex, delivery
  <2> QED BY <1>3, <1>4, <2>1, <2>2, <2>3 DEF BugsGround
<1>5. CASE UNCHANGED vars
  <2>1. DeriveV3Stage' = DeriveV3Stage /\ VerificationRevision' = VerificationRevision
    BY <1>5 DEF vars, DeriveV3Stage, VerificationRevision, AllQualityPass, AllAcceptancePass
  <2> QED BY <1>5, <2>1 DEF vars, BugsGround
<1> QED BY <1>1, <1>2, <1>4, <1>5, BugsVerdict DEF Next

\* Every command stores the derived stage, but for a unit command; and the passing
\* journey finds no revision that is stuck or accepted.
LEMMA StageStep ==
  EvidenceInvariant /\ BugsGround /\ StageFollowsEvidence /\ [Next]_vars
    => StageFollowsEvidence'
<1> SUFFICES ASSUME EvidenceInvariant, BugsGround, StageFollowsEvidence, [Next]_vars
             PROVE  StageFollowsEvidence'
  OBVIOUS
<1> USE DEF EvidenceInvariant
<1>1. CASE stage' = DeriveStage'
  BY <1>1 DEF StageFollowsEvidence
<1>2. ASSUME NEW a \in Actors, UnitStep(a) PROVE StageFollowsEvidence'
  <2>1. /\ ~RunIsLive /\ activeUnit
        /\ UNCHANGED <<quality, acceptance, releases>>
        /\ VerificationRevision = NoRevision
        /\ \/ activeUnit' = activeUnit /\ stage' = stage
           \/ \E r \in Revisions : JourneyComplete(a, r)
    <3>1. ~RunIsLive
      BY <1>2 DEF UnitStep, UnitCommand, InteractionComplete, MayCompleteInteraction,
                  ModelComplete, MayCompleteModel, CompileComplete, MayCompleteCompile,
                  FrontendComplete, MayCompleteFrontend, ContractGapReport, MayReportGap,
                  ContractFreeze, MayFreezeContract, BackendComplete, MayCompleteBackend,
                  BackendReopen, ContractReopen, JourneyComplete, MayCompleteJourney
    <3>2. \/ activeUnit' = activeUnit /\ stage' = stage
          \/ \E r \in Revisions : JourneyComplete(a, r)
      BY <1>2 DEF UnitStep, Advance, InteractionComplete, MayCompleteInteraction, ModelComplete,
                  MayCompleteModel, CompileComplete, MayCompleteCompile, FrontendComplete,
                  MayCompleteFrontend, ContractGapReport, MayReportGap, ContractFreeze,
                  MayFreezeContract, BackendComplete, MayCompleteBackend, BackendReopen,
                  ContractReopen
    <3> QED BY <1>2, <3>1, <3>2, UnitStepFrame
  <2>2. DeriveStage' = DeriveV3Stage' /\ DeriveStage = DeriveV3Stage
    BY <2>1 DEF RunIsLive, DeriveStage, ReleaseIndex
  <2>3. CASE activeUnit' = activeUnit /\ stage' = stage
    <3>1. DeriveV3Stage = "development" /\ DeriveV3Stage' = "development"
      BY <2>1, <2>3 DEF DeriveV3Stage, VerificationRevision
    <3> QED BY <2>2, <2>3, <3>1 DEF StageFollowsEvidence
  <2>4. ASSUME NEW r \in Revisions, JourneyComplete(a, r) PROVE StageFollowsEvidence'
    <3>1. /\ stage' = "testing" /\ VerificationRevision' = r
          /\ UNCHANGED <<quality, acceptance>>
      BY <2>4 DEF JourneyComplete, MayCompleteJourney, VerificationRevision, TypeOK,
                  DeliveryUnit, evidence
    <3>2. ~StuckAtFirst(quality[r]) /\ ~StuckAtFirst(acceptance[r])
      BY <2>1, RunAssumption DEF BugsGround
    <3>3. ~Accepted(r)
      BY <2>1, RunAssumption DEF AcceptedIsCandidate
    <3>4. DeriveV3Stage' \in {"testing", "acceptance"}
      BY <3>1, <3>2, <3>3, RunAssumption DEF DeriveV3Stage, Accepted, AllQualityPass,
         AllAcceptancePass
    <3> QED BY <2>2, <3>1, <3>4 DEF StageFollowsEvidence
  <2> QED BY <2>1, <2>3, <2>4
<1>3. ASSUME NEW a \in Actors, VerdictStep(a) PROVE StageFollowsEvidence'
  BY <1>1, <1>3, VerdictFrame
<1>4. ASSUME NEW a \in Actors, ReleaseStep(a) \/ LegacyCommand(a) PROVE StageFollowsEvidence'
  BY <1>1, <1>4, ReleaseStepFrame
<1>5. CASE UNCHANGED vars
  BY <1>5 DEF vars, StageFollowsEvidence, DeriveStage, DeriveV3Stage, VerificationRevision,
         AllQualityPass, AllAcceptancePass, ReleaseIndex
<1> QED BY <1>2, <1>3, <1>4, <1>5 DEF Next

\* A new run is in development with no verdict.
LEMMA StageInit == Init => BugsGround /\ StageFollowsEvidence
<1> SUFFICES ASSUME Init PROVE BugsGround /\ StageFollowsEvidence
  OBVIOUS
<1>1. BugsGround
  BY DEF Init, BugsGround, StuckAtFirst, NotObserved, NotConfirmed
<1>2. DeriveStage = "development"
  BY DEF Init, DeriveStage, DeriveV3Stage, VerificationRevision, ReleaseIndex
<1> QED BY <1>1, <1>2 DEF Init, StageFollowsEvidence

\* The stored stage is the one the verdicts and Releases give, but for the passing
\* journey after a failed acceptance, whatever the run went through before.
THEOREM StageHolds == Spec => []StageFollowsEvidence
  BY StageInit, BugsStep, StageStep, EvidenceHolds, PTL DEF Spec

\* A live Release is derived as the stage, and nothing else is.
LEMMA LiveStage ==
  ASSUME StageFollowsEvidence, RunIsLive
  PROVE  stage = "live" /\ \E i \in ReleaseIndex : releases[i].status = "live"
<1>1. DeriveV3Stage # "live"
  BY DEF DeriveV3Stage
<1>2. CASE \E i \in ReleaseIndex : releases[i].status = "live"
  <2>1. DeriveStage = "live"
    BY <1>2 DEF DeriveStage
  <2> QED BY <1>2, <2>1 DEF StageFollowsEvidence
<1>3. CASE ~ \E i \in ReleaseIndex : releases[i].status = "live"
  <2>1. stage = "live" /\ DeriveStage = DeriveV3Stage
    BY <1>3 DEF RunIsLive, DeriveStage
  <2> QED BY <1>1, <2>1 DEF StageFollowsEvidence
<1> QED BY <1>2, <1>3

\* Going live and being installed are one step: the store sees a live run, and what
\* installV3DeliveryRun asks of it holds, whatever the course of the run was.
THEOREM LiveRunsInstall == Spec => []LiveIsInstallable
<1>1. ASSUME EvidenceInvariant, OneActiveRelease, StageFollowsEvidence,
             LiveIsHumanConfirmed, RunIsLive
      PROVE  stage = "live" /\ Installable
  <2> DEFINE live == {j \in ReleaseIndex : releases[j].status = "live"}
  <2>1. PICK i \in live : stage = "live"
    BY <1>1, LiveStage
  <2>2. \A j \in live : j = i
    BY <1>1, <2>1 DEF OneActiveRelease
  <2>3. releases[i].attempt = [outcome |-> "success", launchURL |-> TRUE]
    BY <1>1, <2>1 DEF LiveIsHumanConfirmed
  <2>4. ReleaseGatesPass /\ releases[i].revision = VerificationRevision
    BY <1>1, <2>1 DEF EvidenceInvariant, ReleaseEvidence
  <2>5. /\ VerificationRevision # NoRevision
        /\ AllQualityPass(VerificationRevision) /\ AllAcceptancePass(VerificationRevision)
    BY <2>4 DEF ReleaseGatesPass
  <2>6. i \in Nat
    BY <2>1 DEF ReleaseIndex
  <2>7. \A j \in live : j <= i
    BY <2>2, <2>6
  <2>8. /\ releases[i].attempt.outcome \in {"success", "failure"}
        /\ releases[i].attempt.launchURL
    BY <2>3
  <2> QED BY <2>1, <2>4, <2>5, <2>7, <2>8 DEF Installable
<1>2. EvidenceInvariant /\ OneActiveRelease /\ StageFollowsEvidence /\ LiveIsHumanConfirmed
        => LiveIsInstallable
  BY <1>1 DEF LiveIsInstallable
<1> QED BY <1>2, EvidenceHolds, OneActiveHolds, StageHolds, LiveIsConfirmed, PTL

\* No command accepted at the stage "bugs" changes the run: units and verdicts are
\* closed, no Release stands, and a pre-V3 command derives "bugs" again.
THEOREM BugsAreTerminal == Spec => BugsIsTerminal
<1>1. ASSUME EvidenceInvariant, BugsGround, StageFollowsEvidence, [Next]_vars
      PROVE  stage = "bugs" => UNCHANGED vars
  <2> SUFFICES ASSUME stage = "bugs" PROVE UNCHANGED vars
    OBVIOUS
  <2>1. DeriveStage = "bugs"
    BY <1>1 DEF StageFollowsEvidence
  <2>2. VerificationRevision # NoRevision /\ ~Accepted(VerificationRevision)
    BY <2>1 DEF DeriveStage, DeriveV3Stage, Accepted
  <2>3. ASSUME NEW a \in Actors, UnitStep(a) PROVE FALSE
    BY <2>2, <2>3, UnitStepFrame
  <2>4. ASSUME NEW a \in Actors, VerdictStep(a) PROVE FALSE
    BY <1>1, <2>4, VerdictFrame DEF EvidenceInvariant
  <2>5. ASSUME NEW a \in Actors, ReleaseStep(a) PROVE FALSE
    BY <1>1, <2>2, <2>5, ReleaseStepAccepted
  <2>6. ASSUME NEW a \in Actors, LegacyCommand(a) PROVE UNCHANGED vars
    <3>1. DeriveStage' = DeriveStage
      BY <2>6 DEF LegacyCommand, evidence, delivery, DeriveStage, DeriveV3Stage,
         VerificationRevision, AllQualityPass, AllAcceptancePass, ReleaseIndex
    <3> QED BY <2>1, <2>6, <3>1 DEF LegacyCommand, evidence, delivery, vars
  <2> QED BY <1>1, <2>3, <2>4, <2>5, <2>6 DEF Next
<1> QED BY <1>1, StageInit, BugsStep, StageStep, EvidenceHolds, PTL DEF Spec, BugsIsTerminal

-----------------------------------------------------------------------------
(* An open run offers an action.                                           *)

\* A list of verdicts that is no acceptance misses a case.
LEMMA MissingCase ==
  ASSUME NEW verdicts, ~AllPass(verdicts) PROVE Criteria \ Passing(verdicts) # {}
  BY DEF AllPass, Passing

\* A run that is neither live nor at "bugs" waits for somebody: each stage's offers are
\* empty only once its verdicts, checks and Release have carried it to the next one.
THEOREM OpenRunOffers == Spec => []OpenRunOffersAction
<1>1. EvidenceInvariant /\ OneActiveRelease => OpenRunOffersAction
  <2> SUFFICES ASSUME EvidenceInvariant, OneActiveRelease,
                      ~RunIsLive, stage # "bugs", stage = DeriveStage
               PROVE  AvailableActions # {}
    BY DEF OpenRunOffersAction
  <2> USE DEF EvidenceInvariant
  <2> DEFINE r == VerificationRevision
  <2>1. CASE activeUnit
    BY <2>1 DEF AvailableActions, UnitActions
  <2>2. CASE ~activeUnit
    <3>1. r # NoRevision
      BY <2>2 DEF UnitGates, AfterBackend, VerificationRevision, TypeOK
    <3>2. stage = DeriveV3Stage
      BY DEF RunIsLive, DeriveStage
    <3>3. CASE stage = "testing"
      <4>1. ~AllPass(quality[r])
        BY <3>1, <3>2, <3>3 DEF DeriveV3Stage, AllQualityPass
      <4>2. Criteria \ Passing(quality[r]) # {}
        BY <4>1, MissingCase
      <4>3. QualityActions # {}
        BY <3>1, <4>2 DEF QualityActions
      <4> QED BY <2>2, <3>3, <4>3 DEF AvailableActions
    <3>4. CASE stage = "acceptance"
      <4>1. AllQualityPass(r) /\ ~AllPass(acceptance[r])
        BY <3>1, <3>2, <3>4 DEF DeriveV3Stage, AllAcceptancePass
      <4>2. Criteria \ Passing(acceptance[r]) # {}
        BY <4>1, MissingCase
      <4>3. AcceptanceActions # {}
        BY <3>1, <4>1, <4>2 DEF AcceptanceActions
      <4> QED BY <2>2, <3>4, <4>3 DEF AvailableActions
    <3>5. CASE stage = "release"
      <4>1. V3ReleaseActions # {}
        <5>1. ASSUME NEW i \in OpenReleases PROVE V3ReleaseActions # {}
          <6>1. \A k \in OpenReleases : k = i
            BY DEF OpenReleases, OneActiveRelease, CommandForRelease
          <6>2. i \in Nat
            BY DEF OpenReleases, ReleaseIndex
          <6>3. i \in {j \in OpenReleases : \A k \in OpenReleases : j <= k}
            BY <6>1, <6>2
          <6> QED BY <6>3 DEF V3ReleaseActions
        <5>2. CASE OpenReleases = {}
          <6>1. CASE DOMAIN checks = {}
            BY <5>2, <6>1 DEF V3ReleaseActions
          <6>2. ASSUME NEW id \in DOMAIN checks, checks[id].status # "passed"
                PROVE  V3ReleaseActions # {}
            BY <5>2, <6>2 DEF V3ReleaseActions
          <6>3. CASE DOMAIN checks # {} /\ \A id \in DOMAIN checks : checks[id].status = "passed"
            <7>1. \A i \in ReleaseIndex : releases[i].status = "failed"
              <8> SUFFICES ASSUME NEW i \in ReleaseIndex PROVE releases[i].status = "failed"
                OBVIOUS
              <8>1. releases[i] \in Release
                BY DEF TypeOK, ReleaseIndex
              <8>2. releases[i].status # "live"
                BY DEF RunIsLive
              <8>3. releases[i].status \notin {"draft", "approved", "needs_reconciliation"}
                BY <5>2 DEF OpenReleases, CommandForRelease
              <8> QED BY <8>1, <8>2, <8>3 DEF Release, ReleaseStatus
            <7>2. CanPrepareV3Release
              BY <3>1, <3>5, <6>3, <7>1 DEF CanPrepareV3Release, ReleaseGround, Accepted,
                 AllRequiredChecksPass, RevisionReleased
            <7> QED BY <5>2, <6>3, <7>2 DEF V3ReleaseActions
          <6> QED BY <6>1, <6>2, <6>3
        <5> QED BY <5>1, <5>2
      <4> QED BY <2>2, <3>5, <4>1 DEF AvailableActions
    <3> QED BY <3>1, <3>2, <3>3, <3>4, <3>5 DEF DeriveV3Stage
  <2> QED BY <2>1, <2>2 DEF TypeOK
<1> QED BY <1>1, EvidenceHolds, OneActiveHolds, PTL

-----------------------------------------------------------------------------
(* What the projection offers is accepted.                                 *)

\* The checks of a run are all of one environment: they are replaced together.
OneEnvironment ==
    \A id, other \in DOMAIN checks : checks[id].environment = checks[other].environment

\* A Release has its deployment attempt once it was tried, and not before.
AttemptsRecorded ==
    \A i \in ReleaseIndex :
        /\ releases[i].status \in {"draft", "approved"} => releases[i].attempt = NoAttempt
        /\ releases[i].status = "needs_reconciliation" => releases[i].attempt # NoAttempt

OffersInvariant == OneEnvironment /\ AttemptsRecorded

\* Replacing one Release leaves the attempts of the others.
LEMMA SetReleaseAttempts ==
  ASSUME TypeOK, OffersInvariant, NEW i \in ReleaseIndex, NEW release, SetRelease(i, release),
         release.status \in {"draft", "approved"} => release.attempt = NoAttempt,
         release.status = "needs_reconciliation" => release.attempt # NoAttempt
  PROVE  OffersInvariant'
<1>1. /\ ReleaseIndex' = ReleaseIndex /\ releases'[i] = release /\ checks' = checks
      /\ \A j \in ReleaseIndex : j # i => releases'[j] = releases[j]
  BY DEF SetRelease, TypeOK, ReleaseIndex
<1> QED BY <1>1 DEF OffersInvariant, OneEnvironment, AttemptsRecorded

LEMMA OffersReleaseStep ==
  ASSUME TypeOK, OffersInvariant, NEW a \in Actors, ReleaseStep(a)
  PROVE  OffersInvariant'
<1> USE DEF OffersInvariant
<1>1. ASSUME NEW env, NEW required, ReplaceReleaseChecks(a, env, required)
      PROVE  OffersInvariant'
  BY <1>1 DEF ReplaceReleaseChecks, OneEnvironment, AttemptsRecorded, ReleaseIndex
<1>2. ASSUME NEW id, NEW r, NEW status, RecordReleaseCheck(a, id, r, status)
      PROVE  OffersInvariant'
  <2>1. /\ DOMAIN checks' = DOMAIN checks /\ releases' = releases
        /\ \A x \in DOMAIN checks : checks'[x].environment = checks[x].environment
    BY <1>2 DEF RecordReleaseCheck, MayRecordReleaseCheck, TypeOK, CheckTables, ReleaseCheck
  <2> QED BY <2>1 DEF OneEnvironment, AttemptsRecorded, ReleaseIndex
<1>3. ASSUME NEW env \in Environments, PrepareV3Release(a, env) PROVE OffersInvariant'
  <2> DEFINE release == [revision |-> VerificationRevision, environment |-> env,
                         status |-> "draft", approvedBy |-> NoActor, attempt |-> NoAttempt]
  <2>1. release.status = "draft" /\ release.attempt = NoAttempt /\ release \in Release
    <3>1. VerificationRevision \in Revisions
      BY <1>3 DEF PrepareV3Release, MayPrepareV3Release, VerificationRevision, TypeOK,
                  DeliveryUnit
    <3> QED BY <3>1 DEF Release, ReleaseStatus
  <2>2. releases' = Append(releases, release) /\ checks' = checks
    BY <1>3 DEF PrepareV3Release
  <2> HIDE DEF release
  <2>3. \A i \in ReleaseIndex' :
           \/ releases'[i] = release
           \/ i \in ReleaseIndex /\ releases'[i] = releases[i]
    BY <2>1, <2>2 DEF TypeOK, ReleaseIndex
  <2> QED BY <2>1, <2>2, <2>3 DEF OneEnvironment, AttemptsRecorded
<1>4. ASSUME NEW i \in 1..MaxReleases, ApproveRelease(a, i) PROVE OffersInvariant'
  <2> DEFINE release == [releases[i] EXCEPT !.status = "approved", !.approvedBy = a]
  <2>1. i \in ReleaseIndex /\ releases[i] \in Release /\ releases[i].attempt = NoAttempt
    BY <1>4 DEF ApproveRelease, MayApproveRelease, AttemptsRecorded, TypeOK, ReleaseIndex
  <2>2. release.status = "approved" /\ release.attempt = NoAttempt /\ SetRelease(i, release)
    BY <1>4, <2>1 DEF ApproveRelease, Release
  <2> HIDE DEF release
  <2> QED BY <2>1, <2>2, SetReleaseAttempts
<1>5. ASSUME NEW i \in 1..MaxReleases, NEW outcome \in Outcomes, NEW url \in BOOLEAN,
             RecordDeployment(a, i, outcome, url) \/ ReconcileDeployment(a, i, outcome, url)
      PROVE  OffersInvariant'
  <2>1. PICK found \in BOOLEAN :
          SetRelease(i, [releases[i] EXCEPT
                           !.status = StatusAfter(outcome),
                           !.attempt = [outcome |-> outcome, launchURL |-> found]])
    <3>1. ReconciledURL(i, url) \in BOOLEAN
      BY DEF ReconciledURL
    <3> QED BY <1>5, <3>1 DEF RecordDeployment, ReconcileDeployment
  <2> DEFINE release == [releases[i] EXCEPT !.status = StatusAfter(outcome),
                           !.attempt = [outcome |-> outcome, launchURL |-> found]]
  <2>2. i \in ReleaseIndex /\ releases[i] \in Release
    BY <1>5 DEF RecordDeployment, MayRecordDeployment, ReconcileDeployment,
                MayReconcileDeployment, TypeOK, ReleaseIndex
  <2>3. StatusAfter(outcome) \in {"live", "failed", "needs_reconciliation"}
    BY DEF StatusAfter, Outcomes
  <2>4. [outcome |-> outcome, launchURL |-> found] # NoAttempt
    BY DEF NoAttempt, Outcomes
  <2>5. /\ release.status \in {"live", "failed", "needs_reconciliation"}
        /\ release.attempt # NoAttempt /\ SetRelease(i, release)
    BY <2>1, <2>2, <2>3, <2>4 DEF Release
  <2> HIDE DEF release
  <2> QED BY <2>2, <2>5, SetReleaseAttempts
<1> QED BY <1>1, <1>2, <1>3, <1>4, <1>5 DEF ReleaseStep

LEMMA OffersStep ==
  ASSUME TypeOK, OffersInvariant, [Next]_vars PROVE OffersInvariant'
<1>1. ASSUME UNCHANGED <<checks, releases>> PROVE OffersInvariant'
  BY <1>1 DEF OffersInvariant, OneEnvironment, AttemptsRecorded, ReleaseIndex
<1>2. ASSUME NEW a \in Actors, UnitStep(a) PROVE OffersInvariant'
  BY <1>1, <1>2, UnitStepFrame
<1>3. ASSUME NEW a \in Actors, VerdictStep(a) PROVE OffersInvariant'
  BY <1>1, <1>3 DEF VerdictStep, RecordQuality, ConfirmAcceptance, delivery
<1>4. ASSUME NEW a \in Actors, LegacyCommand(a) PROVE OffersInvariant'
  BY <1>1, <1>4 DEF LegacyCommand, delivery
<1>5. CASE UNCHANGED vars
  BY <1>1, <1>5 DEF vars
<1> QED BY <1>2, <1>3, <1>4, <1>5, OffersReleaseStep DEF Next

LEMMA OffersInit == Init => OffersInvariant
  BY DEF Init, OffersInvariant, OneEnvironment, AttemptsRecorded, ReleaseIndex

\* An active unit is offered the command of its phase, and the report of a gap.
LEMMA UnitOffersMeetGuards ==
  ASSUME TypeOK, UnitGates, ~RunIsLive, activeUnit, NEW action \in UnitActions
  PROVE  CommandAccepted(action)
<1>1. PICK agent \in Actors : Kind[agent] = "agent"
  BY StaffAssumption
<1>2. PICK adapter \in Actors : Kind[adapter] = "system"
  BY StaffAssumption
<1>3. unit.phase \in Phases /\ unit.phase # "complete"
  BY DEF TypeOK, DeliveryUnit, UnitGates
<1>4. ASSUME unit.phase = "journey_testing"
      PROVE  \E r \in Revisions : MayCompleteJourney(adapter, r)
  <2>1. unit.implementation \in Revisions
    BY <1>4 DEF UnitGates, AfterBackend, TypeOK, DeliveryUnit
  <2>2. MayCompleteJourney(adapter, unit.implementation)
    BY <1>2, <1>4 DEF MayCompleteJourney, UnitCommand
  <2> QED BY <2>1, <2>2
<1>5. CASE action = <<CommandForPhase[unit.phase], NoTarget>>
  <2>1. CASE unit.phase = "interaction_modeling"
    <3>1. MayCompleteInteraction(agent)
      BY <1>1, <2>1 DEF MayCompleteInteraction, UnitCommand
    <3> QED BY <1>5, <2>1, <3>1 DEF CommandForPhase, CommandAccepted
  <2>2. CASE unit.phase \in {"domain_modeling", "contract_gap"}
    <3>1. MayCompleteModel(agent)
      BY <1>1, <2>2 DEF MayCompleteModel, UnitCommand
    <3>2. action[1] = "delivery_unit.model.complete"
      BY <1>5, <2>2 DEF CommandForPhase
    <3> QED BY <1>1, <3>1, <3>2 DEF CommandAccepted
  <2>3. CASE unit.phase = "compiling"
    <3>1. MayCompleteCompile(adapter)
      BY <1>2, <2>3 DEF MayCompleteCompile, UnitCommand
    <3> QED BY <1>5, <2>3, <3>1 DEF CommandForPhase, CommandAccepted
  <2>4. CASE unit.phase = "frontend_convergence"
    <3>1. MayCompleteFrontend(agent)
      BY <1>1, <2>4 DEF MayCompleteFrontend, UnitCommand
    <3> QED BY <1>5, <2>4, <3>1 DEF CommandForPhase, CommandAccepted
  <2>5. CASE unit.phase = "contract_frozen"
    <3>1. MayFreezeContract(adapter)
      BY <1>2, <2>5 DEF MayFreezeContract, UnitCommand
    <3> QED BY <1>5, <2>5, <3>1 DEF CommandForPhase, CommandAccepted
  <2>6. CASE unit.phase = "backend_implementation"
    <3>1. MayCompleteBackend(agent)
      BY <1>1, <2>6 DEF MayCompleteBackend, UnitCommand
    <3> QED BY <1>5, <2>6, <3>1 DEF CommandForPhase, CommandAccepted
  <2>7. CASE unit.phase = "journey_testing"
    <3>1. action[1] = "delivery_unit.journey.complete"
      BY <1>5, <2>7 DEF CommandForPhase
    <3>2. PICK r \in Revisions : MayCompleteJourney(adapter, r)
      BY <1>4, <2>7
    <3> QED BY <1>2, <3>1, <3>2 DEF CommandAccepted
  <2> QED BY <1>3, <2>1, <2>2, <2>3, <2>4, <2>5, <2>6, <2>7 DEF Phases
<1>6. CASE /\ unit.phase \in {"frontend_convergence", "backend_implementation"}
           /\ action = <<"delivery_unit.contract_gap.report", NoTarget>>
  <2>1. MayReportGap(agent)
    BY <1>1, <1>6 DEF MayReportGap, UnitCommand
  <2> QED BY <1>6, <2>1 DEF CommandAccepted
<1> QED BY <1>5, <1>6 DEF UnitActions

\* QA and the business acceptors are offered the cases they have not passed.
LEMMA VerdictOffersMeetGuards ==
  ASSUME TypeOK, ~RunIsLive, ~activeUnit, NEW action,
         \/ stage = "testing" /\ action \in QualityActions
         \/ stage = "acceptance" /\ action \in AcceptanceActions
  PROVE  CommandAccepted(action)
<1> DEFINE r == VerificationRevision
<1>1. r \in Revisions
  BY DEF QualityActions, AcceptanceActions, VerificationRevision, TypeOK, DeliveryUnit
<1>2. \A results : "pass" \in results => <<"pass", "none">> \in Verdicts(results)
  BY RunAssumption DEF Verdicts, Owners, RoutedOwners, UnroutedOwners
<1>3. CASE stage = "testing" /\ action \in QualityActions
  <2>1. action[1] = "quality.record"
    BY <1>3 DEF QualityActions
  <2>2. MayRecordQuality(r, "pass", "none")
    BY <1>2, <1>3 DEF MayRecordQuality, QualityStage
  <2>3. PICK a \in Actors : TRUE
    BY StaffAssumption
  <2> QED BY <1>1, <2>1, <2>2, <2>3 DEF CommandAccepted
<1>4. CASE stage = "acceptance" /\ action \in AcceptanceActions
  <2>1. action[1] = "acceptance.confirm" /\ AllQualityPass(r)
    BY <1>4 DEF AcceptanceActions
  <2>2. PICK a \in Actors : AuthorizedHuman(a, "business_acceptor")
    BY StaffAssumption DEF RoleNames, AuthorizedHuman
  <2>3. MayConfirmAcceptance(a, r, "pass", "none")
    BY <1>2, <1>4, <2>1, <2>2 DEF MayConfirmAcceptance
  <2> QED BY <1>1, <2>1, <2>3 DEF CommandAccepted
<1> QED BY <1>3, <1>4

\* The one Release in progress is offered its next step, and without one the checks and
\* the next Release are.
LEMMA ReleaseOffersMeetGuards ==
  ASSUME EvidenceInvariant, OffersInvariant, ~RunIsLive, ~activeUnit, stage = "release",
         NEW action \in V3ReleaseActions,
         action[1] # "release.prepare" \/ Len(releases) # MaxReleases
  PROVE  CommandAccepted(action)
<1> USE DEF EvidenceInvariant, OffersInvariant
<1>1. VerificationRevision \in Revisions
  BY DEF ReleaseGround
<1>2. ASSUME NEW i \in OpenReleases, action = <<CommandForRelease[releases[i].status], i>>
      PROVE  CommandAccepted(action)
  <2>1. i \in ReleaseIndex /\ releases[i].status \in DOMAIN CommandForRelease
    BY <1>2 DEF OpenReleases
  <2>2. releases[i].status \in {"draft", "approved", "needs_reconciliation"}
    BY <2>1 DEF CommandForRelease
  <2>3. EnsureV3ReleaseStillValid(releases[i])
    BY <2>1, <2>2 DEF ReleaseEvidence, ReleaseGatesPass, EnsureV3ReleaseStillValid
  <2>4. PICK approver \in Actors : AuthorizedHuman(approver, "release_approver")
    BY StaffAssumption DEF RoleNames, AuthorizedHuman
  <2>5. PICK adapter \in Actors : Kind[adapter] = "system"
    BY StaffAssumption
  <2>6. CASE releases[i].status = "draft"
    <3>1. action = <<"release.approve", i>>
      BY <1>2, <2>6 DEF CommandForRelease
    <3>2. MayApproveRelease(approver, i)
      BY <2>1, <2>3, <2>4, <2>6 DEF MayApproveRelease
    <3> QED BY <3>1, <3>2 DEF CommandAccepted
  <2>7. CASE releases[i].status = "approved"
    <3>1. action = <<"release.deploy_result", i>>
      BY <1>2, <2>7 DEF CommandForRelease
    <3>2. MayRecordDeployment(adapter, i, "success", TRUE)
      BY <2>1, <2>3, <2>5, <2>7 DEF MayRecordDeployment, AttemptsRecorded, LaunchURLAccepted
    <3> QED BY <3>1, <3>2 DEF CommandAccepted
  <2>8. CASE releases[i].status = "needs_reconciliation"
    <3>1. action = <<"release.reconcile", i>>
      BY <1>2, <2>8 DEF CommandForRelease
    <3>2. MayReconcileDeployment(approver, i, "success", TRUE)
      BY <2>1, <2>4, <2>8 DEF MayReconcileDeployment, AttemptsRecorded, Reconcilable,
                              LaunchURLAccepted, ReconciledURL
    <3> QED BY <3>1, <3>2 DEF CommandAccepted
  <2> QED BY <2>2, <2>6, <2>7, <2>8
<1>3. ASSUME OpenReleases = {} PROVE ChecksOpen
  <2>1. \A i \in ReleaseIndex : releases[i].status = "failed"
    <3> SUFFICES ASSUME NEW i \in ReleaseIndex PROVE releases[i].status = "failed"
      OBVIOUS
    <3>1. releases[i] \in Release /\ releases[i].status # "live"
      BY DEF TypeOK, ReleaseIndex, RunIsLive
    <3>2. releases[i].status \notin {"draft", "approved", "needs_reconciliation"}
      BY <1>3 DEF OpenReleases, CommandForRelease
    <3> QED BY <3>1, <3>2 DEF Release, ReleaseStatus
  <2> QED BY <2>1 DEF ChecksOpen, ActiveRelease
<1>4. CASE OpenReleases = {} /\ action = <<"release_checks.replace", NoTarget>>
  <2>1. PICK a \in Actors : TRUE
    BY StaffAssumption
  <2> QED BY <1>3, <1>4, <2>1 DEF CommandAccepted
<1>5. ASSUME OpenReleases = {}, NEW id \in DOMAIN checks,
             action = <<"release_check.record", id>>
      PROVE  CommandAccepted(action)
  <2>1. PICK a \in Actors : TRUE
    BY StaffAssumption
  <2>2. MayRecordReleaseCheck(id, VerificationRevision)
    BY <1>3, <1>5 DEF MayRecordReleaseCheck
  <2> QED BY <1>1, <1>5, <2>1, <2>2 DEF CommandAccepted
<1>6. CASE CanPrepareV3Release /\ action = <<"release.prepare", NoTarget>>
  <2>1. PICK a \in Actors : AuthorizedHuman(a, "product_owner")
    BY StaffAssumption DEF RoleNames, AuthorizedHuman
  <2>2. PICK id \in DOMAIN checks : TRUE
    BY <1>6 DEF CanPrepareV3Release, AllRequiredChecksPass
  <2>3. /\ checks[id].environment \in Environments
        /\ \A x \in DOMAIN checks : checks[x].environment = checks[id].environment
    BY <2>2 DEF TypeOK, CheckTables, ReleaseCheck, OneEnvironment
  <2>4. Len(releases) < MaxReleases
    BY <1>6, RunAssumption DEF TypeOK
  <2>5. MayPrepareV3Release(a, checks[id].environment)
    BY <1>6, <2>1, <2>3, <2>4 DEF MayPrepareV3Release, CanPrepareV3Release
  <2>6. \E env \in Environments : MayPrepareV3Release(a, env)
    BY <2>3, <2>5
  <2> QED BY <1>6, <2>6 DEF CommandAccepted
<1> QED BY <1>2, <1>4, <1>5, <1>6 DEF V3ReleaseActions

\* Whatever the server offers for a V3 run the engine accepts from somebody on its staff,
\* for any Git revisions, criteria, checks and number of Releases: deliveryUnitActions and
\* v3LifecycleActions never offer what the handlers refuse.
THEOREM OffersAreAccepted == Spec => []OfferedIsAccepted
<1>1. Init => OffersInvariant
  BY OffersInit
<1>2. TypeOK /\ OffersInvariant /\ [Next]_vars => OffersInvariant'
  BY OffersStep
<1>3. EvidenceInvariant /\ OffersInvariant => OfferedIsAccepted
  <2> SUFFICES ASSUME EvidenceInvariant, OffersInvariant, NEW action \in AvailableActions,
                      action[1] # "release.prepare" \/ Len(releases) # MaxReleases
               PROVE  CommandAccepted(action)
    BY DEF OfferedIsAccepted
  <2>1. TypeOK /\ UnitGates /\ ~RunIsLive
    BY DEF EvidenceInvariant, AvailableActions
  <2>2. CASE activeUnit
    BY <2>1, <2>2, UnitOffersMeetGuards DEF AvailableActions
  <2>3. CASE ~activeUnit
    <3>1. CASE stage \in {"testing", "acceptance"}
      BY <2>1, <2>3, <3>1, VerdictOffersMeetGuards DEF AvailableActions
    <3>2. CASE stage = "release"
      BY <2>1, <2>3, <3>2, ReleaseOffersMeetGuards DEF AvailableActions
    <3>3. CASE stage \notin {"testing", "acceptance", "release"}
      BY <2>1, <2>3, <3>3 DEF AvailableActions
    <3> QED BY <3>1, <3>2, <3>3
  <2> QED BY <2>2, <2>3 DEF TypeOK
<1> QED BY <1>1, <1>2, <1>3, TypeCorrect, EvidenceHolds, PTL DEF Spec
=============================================================================
