---------------------- MODULE ProductLifecycleProofs ----------------------
(***************************************************************************)
(* Proofs about ProductLifecycle: its inductive invariant, and what        *)
(* follows from it about installation and the order of the queue, and that *)
(* it implements that queue.                                               *)
(***************************************************************************)
EXTENDS ProductLifecycle, FiniteSetTheorems, TLAPS

-----------------------------------------------------------------------------
(* The invariant holds initially.                                          *)

\* A created Product and one with a run of the older engine are well formed.
LEMMA InitTyped == ASSUME ProductAssumption, Init PROVE TypeOK
<1>1. CASE features = << >> /\ runs = << >> /\ engineering = "frontend_queued"
  BY <1>1 DEF Init, TypeOK, ProductStatus, EngineeringStatus, NoRun
<1>2. ASSUME NEW specification \in Specification,
             features = <<[status |-> "delivering", sequence |-> 1, version |-> NoDraft,
                           ready |-> TRUE, specification |-> specification, run |-> 1]>>,
             runs = <<[feature |-> 1, revision |-> 1, v3 |-> FALSE, stage |-> "open"]>>,
             engineering = "ready"
      PROVE  TypeOK
  <2>1. features \in Seq(Feature)
    BY <1>2 DEF Feature, FeatureStatus, NoDraft
  <2>2. runs \in Seq(DeliveryRun)
    BY <1>2 DEF DeliveryRun
  <2> QED BY <1>2, <2>1, <2>2 DEF Init, TypeOK, ProductStatus, EngineeringStatus, NoRun
<1> QED BY <1>1, <1>2 DEF Init

\* The highest of the numbers from 0 to n is n.
LEMMA MaxOf == ASSUME NEW n \in Nat PROVE Max(0..n) = n
<1>1. n \in 0..n /\ \A y \in 0..n : n >= y
  OBVIOUS
<1>2. \A x \in 0..n : (\A y \in 0..n : x >= y) => x = n
  OBVIOUS
<1> QED BY <1>1, <1>2 DEF Max

\* No Feature has been confirmed yet, or the one the older run delivers.
LEMMA InitQueue == ASSUME ProductAssumption, Init PROVE QueueInOrder
<1>1. CASE features = << >>
  <2>1. SequencesGiven = 0..0
    BY <1>1 DEF SequencesGiven, FeatureIds
  <2>2. HighestSequence = 0
    BY <2>1, MaxOf DEF HighestSequence
  <2> QED BY <1>1, <2>1, <2>2 DEF QueueInOrder, FeatureIds
<1>2. ASSUME NEW specification \in Specification,
             features = <<[status |-> "delivering", sequence |-> 1, version |-> NoDraft,
                           ready |-> TRUE, specification |-> specification, run |-> 1]>>
      PROVE  QueueInOrder
  <2>1. FeatureIds = {1} /\ features[1].sequence = 1 /\ features[1].status = "delivering"
    BY <1>2 DEF FeatureIds
  <2>2. SequencesGiven = 0..1
    BY <2>1 DEF SequencesGiven
  <2>3. HighestSequence = 1
    BY <2>2, MaxOf DEF HighestSequence
  <2> QED BY <2>1, <2>2, <2>3 DEF QueueInOrder
<1> QED BY <1>1, <1>2 DEF Init

\* Likewise its run.
LEMMA InitRuns == ASSUME ProductAssumption, Init PROVE RunsMatchFeatures /\ BaselineKept
<1>1. CASE features = << >> /\ runs = << >>
  BY <1>1 DEF Init, RunsMatchFeatures, BaselineKept, RunIds, FeatureIds
<1>2. ASSUME NEW specification \in Specification,
             features = <<[status |-> "delivering", sequence |-> 1, version |-> NoDraft,
                           ready |-> TRUE, specification |-> specification, run |-> 1]>>,
             runs = <<[feature |-> 1, revision |-> 1, v3 |-> FALSE, stage |-> "open"]>>
      PROVE  RunsMatchFeatures /\ BaselineKept
  <2>1. FeatureIds = {1} /\ features[1].run = 1 /\ features[1].status = "delivering"
    BY <1>2 DEF FeatureIds
  <2>2. RunIds = {1} /\ runs[1].feature = 1 /\ runs[1].stage = "open" /\ runs[1].revision = 1
    BY <1>2 DEF RunIds
  <2> QED BY <2>1, <2>2 DEF Init, RunsMatchFeatures, BaselineKept, RunStage
<1> QED BY <1>1, <1>2 DEF Init

-----------------------------------------------------------------------------
(* Each step keeps the types.                                              *)

\* Appending an element of S, or putting one in, leaves a sequence over S.
LEMMA Appended ==
    ASSUME NEW S, NEW s \in Seq(S), NEW x \in S
    PROVE  /\ Append(s, x) \in Seq(S)
           /\ Len(Append(s, x)) = Len(s) + 1
           /\ DOMAIN Append(s, x) = DOMAIN s \cup {Len(s) + 1}
           /\ Append(s, x)[Len(s) + 1] = x
           /\ \A i \in DOMAIN s : Append(s, x)[i] = s[i]
           /\ Len(s) + 1 \notin DOMAIN s
OBVIOUS

\* Putting an element of S in leaves a sequence over S.
LEMMA PutIn ==
    ASSUME NEW S, NEW s \in Seq(S), NEW i \in DOMAIN s, NEW x \in S
    PROVE  [s EXCEPT ![i] = x] \in Seq(S)
OBVIOUS

\* Changing the fields a command changes leaves a Feature.
LEMMA DraftReplaced ==
    ASSUME NEW feature \in Feature, NEW n \in Nat, NEW ready \in BOOLEAN,
           NEW specification \in Specification
    PROVE  [feature EXCEPT !.version = n, !.ready = ready, !.specification = specification]
               \in Feature
BY DEF Feature

\* So does giving it its run.
LEMMA RunGiven ==
    ASSUME NEW feature \in Feature, NEW n \in Nat
    PROVE  [feature EXCEPT !.status = "delivering", !.run = n] \in Feature
BY DEF Feature, FeatureStatus

\* Steps that leave Features and runs alone.
OtherStep == \E kind \in ActorKinds :
                Delete(kind) \/ StartProductFrontend(kind) \/ CompleteProductFrontend(kind)

\* The steps that leave Features and runs alone keep the types.
LEMMA OtherTyped == ASSUME TypeOK, OtherStep PROVE TypeOK'
BY DEF TypeOK, OtherStep, Delete, CanDelete, StartProductFrontend, CompleteProductFrontend,
       MoveEngineering, CanMoveEngineering, ProductStatus, EngineeringStatus, RunIds

\* Opening a discovery keeps the types.
LEMMA OpenTyped ==
    ASSUME TypeOK, NEW kind, OpenFeatureDiscovery(kind)
    PROVE  TypeOK'
<1>1. NewFeature(1, FALSE, EmptySpecification) \in Feature
  BY DEF NewFeature, EmptySpecification, Specification, Feature, FeatureStatus, NoRun
<1>2. features' \in Seq(Feature)
  BY <1>1, Appended DEF OpenFeatureDiscovery, CanOpenDiscovery, TypeOK
<1> QED BY <1>2 DEF TypeOK, OpenFeatureDiscovery, CanOpenDiscovery, product, RunIds

\* Ready is a truth value, as Feature.ready is.
LEMMA ReadyTyped ==
    ASSUME NEW f, NEW specification \in Specification
    PROVE  Ready(f, specification) \in BOOLEAN
BY DEF Ready, Specification

\* Replacing a discovery keeps the types.
LEMMA ReplaceTyped ==
    ASSUME TypeOK, NEW kind, NEW f, NEW specification \in Specification,
           ReplaceFeatureDiscovery(kind, f, specification)
    PROVE  TypeOK'
<1> DEFINE ready == Ready(f, specification)
<1>1. ready \in BOOLEAN
  BY ReadyTyped
<1> HIDE DEF ready
<1>2. features' \in Seq(Feature)
  <2>1. ASSUME f \in FeatureIds,
               features' = [features EXCEPT ![f] =
                  [features[f] EXCEPT !.version = NextVersion(features[f].version),
                                      !.ready = ready, !.specification = specification]]
        PROVE  features' \in Seq(Feature)
    <3>1. features[f] \in Feature
      BY <2>1 DEF TypeOK, FeatureIds
    <3>2. [features[f] EXCEPT !.version = NextVersion(features[f].version), !.ready = ready,
                              !.specification = specification] \in Feature
      <4>1. NextVersion(features[f].version) \in Nat
        BY <3>1 DEF Feature, NextVersion
      <4> QED BY <1>1, <3>1, <4>1, DraftReplaced
    <3> DEFINE x == [features[f] EXCEPT !.version = NextVersion(features[f].version),
                                        !.ready = ready,
                                        !.specification = specification]
    <3>3. features' = [features EXCEPT ![f] = x]
      BY <2>1
    <3> HIDE DEF x
    <3>4. x \in Feature
      BY <3>2 DEF x
    <3> QED BY <2>1, <3>3, <3>4, PutIn DEF TypeOK, FeatureIds
  <2>2. ASSUME features' = Append(features, NewFeature(1, ready, specification))
        PROVE  features' \in Seq(Feature)
    <3>1. NewFeature(1, ready, specification) \in Feature
      BY <1>1 DEF NewFeature, Feature, FeatureStatus, NoRun
    <3> QED BY <2>2, <3>1, Appended DEF TypeOK
  <2> QED BY <2>1, <2>2 DEF ReplaceFeatureDiscovery, CanReplaceDiscovery, ready
<1> QED BY <1>2 DEF TypeOK, ReplaceFeatureDiscovery, CanReplaceDiscovery, product, RunIds

\* Confirming a Feature keeps the types: its number is one.
LEMMA ConfirmTyped ==
    ASSUME TypeOK, QueueInOrder, NEW kind, NEW f, NEW version, ConfirmFeature(kind, f, version)
    PROVE  TypeOK'
<1>1. NextDeliverySequence \in Nat
  BY DEF QueueInOrder, NextDeliverySequence
<1>2. features[f] \in Feature
  BY DEF ConfirmFeature, CanConfirm, TypeOK, FeatureIds
<1>3. [features[f] EXCEPT !.status = "confirmed", !.sequence = NextDeliverySequence,
                          !.version = NoDraft] \in Feature
  BY <1>1, <1>2 DEF Feature, FeatureStatus, NoDraft
<1>4. features' \in Seq(Feature)
  BY <1>3 DEF ConfirmFeature, CanConfirm, TypeOK, FeatureIds
<1> QED BY <1>4 DEF TypeOK, ConfirmFeature, CanConfirm, product, RunIds

\* Starting a delivery keeps the types, of the new run too.
LEMMA StartTyped ==
    ASSUME TypeOK, NEW kind, NEW f, StartDelivery(kind, f)
    PROVE  TypeOK'
<1>1. f \in FeatureIds /\ features[f] \in Feature
  BY DEF StartDelivery, CanStartDelivery, NextFeatureForDelivery, Queue, InStatus, TypeOK,
         FeatureIds
<1>2. features' = [features EXCEPT ![f] = [features[f] EXCEPT !.status = "delivering",
                                                             !.run = Len(runs) + 1]]
  BY <1>1 DEF StartDelivery, CanStartDelivery, FeatureIds, Feature, TypeOK
<1>3. [features[f] EXCEPT !.status = "delivering", !.run = Len(runs) + 1] \in Feature
  <2>1. Len(runs) + 1 \in Nat
    BY DEF TypeOK
  <2> QED BY <1>1, <2>1, RunGiven
<1>4. features' \in Seq(Feature)
  BY <1>1, <1>2, <1>3 DEF TypeOK, FeatureIds
<1>5. [feature |-> f, revision |-> release, v3 |-> TRUE, stage |-> "open"] \in DeliveryRun
  BY <1>1 DEF DeliveryRun, TypeOK, FeatureIds
<1>6. runs' \in Seq(DeliveryRun) /\ DOMAIN runs \subseteq DOMAIN runs'
  BY <1>5 DEF StartDelivery, CanStartDelivery, TypeOK
<1> QED BY <1>4, <1>6 DEF TypeOK, StartDelivery, CanStartDelivery, product, RunIds

\* Going live keeps the types, of the new baseline and the deployment too.
LEMMA GoLiveTyped ==
    ASSUME TypeOK, NEW kind, NEW r, GoLive(kind, r)
    PROVE  TypeOK'
<1>1. r \in RunIds /\ runs[r] \in DeliveryRun
  BY DEF GoLive, TypeOK, RunIds
<1>2. runs' \in Seq(DeliveryRun) /\ DOMAIN runs' = DOMAIN runs
  <2>1. [runs[r] EXCEPT !.stage = "live"] \in DeliveryRun
    BY <1>1 DEF DeliveryRun
  <2>2. runs' = [runs EXCEPT ![r] = [runs[r] EXCEPT !.stage = "live"]]
    BY <1>1 DEF GoLive, RunIds, DeliveryRun, TypeOK
  <2> QED BY <1>1, <2>1, <2>2 DEF TypeOK, RunIds
<1>3. features' \in Seq(Feature)
  <2> DEFINE f == runs[r].feature
  <2>1. f \in FeatureIds /\ features[f] \in Feature
    BY DEF GoLive, Installable, TypeOK, FeatureIds
  <2>2. [features[f] EXCEPT !.status = "installed"] \in Feature
    BY <2>1 DEF Feature, FeatureStatus
  <2>3. features' = [features EXCEPT ![f] = [features[f] EXCEPT !.status = "installed"]]
    BY <2>1 DEF GoLive, Installed, FeatureIds, Feature, TypeOK
  <2> QED BY <2>1, <2>2, <2>3 DEF TypeOK, FeatureIds
<1>4. definition' \in Nat /\ release' \in Nat /\ baseline' \subseteq RoleIds
  BY <1>1 DEF GoLive, TypeOK, DeliveryRun
<1> QED BY <1>1, <1>2, <1>3, <1>4
        DEF GoLive, TypeOK, ProductStatus, DeploymentAfter, RunIds

\* Getting stuck keeps the types.
LEMMA StuckTyped == ASSUME TypeOK, NEW r, GetStuck(r) PROVE TypeOK'
<1>1. r \in RunIds /\ runs[r] \in DeliveryRun
  BY DEF GetStuck, TypeOK, RunIds
<1>2. [runs[r] EXCEPT !.stage = "stuck"] \in DeliveryRun
  BY <1>1 DEF DeliveryRun
<1>3. runs' = [runs EXCEPT ![r] = [runs[r] EXCEPT !.stage = "stuck"]]
  BY <1>1 DEF GetStuck, RunIds, DeliveryRun, TypeOK
<1>4. runs' \in Seq(DeliveryRun) /\ DOMAIN runs' = DOMAIN runs
  BY <1>1, <1>2, <1>3 DEF TypeOK, RunIds
<1> QED BY <1>4 DEF TypeOK, GetStuck, product, RunIds

-----------------------------------------------------------------------------
(* Each step keeps Features and runs together, and the queue in order.     *)

\* What a step on the draft f does to the Features: nothing to any other, and f is
\* or stays a draft.  Opening and replacing a discovery are such steps.
DraftStep(f) ==
    /\ FeatureIds' = FeatureIds \cup {f}
    /\ f \in FeatureIds =>
          /\ features[f].status = "draft"
          /\ features'[f].sequence = features[f].sequence
          /\ features'[f].run = features[f].run
    /\ f \notin FeatureIds => features'[f].sequence = 0 /\ features'[f].run = NoRun
    /\ features'[f].status = "draft"
    /\ \A g \in FeatureIds : g # f => features'[g] = features[g]
    /\ UNCHANGED <<definition, release, runs>>

\* A new Feature is a draft at the end of the list.
LEMMA NewIsDraftStep ==
    ASSUME TypeOK, NEW version \in Nat, NEW ready \in BOOLEAN, NEW specification \in Specification,
           features' = Append(features, NewFeature(version, ready, specification)),
           UNCHANGED <<product, runs>>
    PROVE  DraftStep(Len(features) + 1)
<1> DEFINE new == NewFeature(version, ready, specification)
<1>1. new \in Feature /\ new.status = "draft" /\ new.sequence = 0 /\ new.run = NoRun
  BY DEF NewFeature, Feature, FeatureStatus, NoRun
<1>2. features' = Append(features, new)
  OBVIOUS
<1> HIDE DEF new
<1>3. features \in Seq(Feature)
  BY DEF TypeOK
<1> QED BY <1>1, <1>2, <1>3, Appended DEF DraftStep, FeatureIds, product

\* Opening a discovery is a step on a draft.
LEMMA OpenIsDraftStep ==
    ASSUME TypeOK, NEW kind, OpenFeatureDiscovery(kind)
    PROVE  \E f : DraftStep(f)
<1>1. EmptySpecification \in Specification
  BY DEF EmptySpecification, Specification
<1> QED BY <1>1, NewIsDraftStep DEF OpenFeatureDiscovery, CanOpenDiscovery

\* So is replacing one, that is there or not.
LEMMA ReplaceIsDraftStep ==
    ASSUME TypeOK, NEW kind, NEW f, NEW specification \in Specification,
           ReplaceFeatureDiscovery(kind, f, specification)
    PROVE  \E g : DraftStep(g)
<1> DEFINE ready == Ready(f, specification)
<1>1. ready \in BOOLEAN
  BY ReadyTyped
<1> HIDE DEF ready
<1>2. ASSUME f \in FeatureIds, Replaceable(f),
             features' = [features EXCEPT ![f] =
                [features[f] EXCEPT !.version = NextVersion(features[f].version),
                                    !.ready = ready, !.specification = specification]]
      PROVE  DraftStep(f)
  <2>1. features \in Seq(Feature) /\ features[f] \in Feature
    BY <1>2 DEF TypeOK, FeatureIds
  <2>2. /\ features'[f].status = features[f].status
        /\ features'[f].sequence = features[f].sequence
        /\ features'[f].run = features[f].run
    BY <1>2, <2>1 DEF FeatureIds, Feature
  <2>3. DOMAIN features' = DOMAIN features /\ \A g \in FeatureIds : g # f => features'[g] = features[g]
    BY <1>2, <2>1 DEF FeatureIds
  <2> QED BY <1>2, <2>2, <2>3
          DEF DraftStep, FeatureIds, Replaceable, ReplaceFeatureDiscovery,
              CanReplaceDiscovery, product
<1>3. ASSUME features' = Append(features, NewFeature(1, ready, specification))
      PROVE  \E g : DraftStep(g)
  BY <1>1, <1>3, NewIsDraftStep DEF ReplaceFeatureDiscovery, CanReplaceDiscovery
<1>4. f \in FeatureIds => Replaceable(f)
  <2>1. Len(features) + 1 \notin FeatureIds
    BY DEF TypeOK, FeatureIds
  <2> QED BY <2>1 DEF ReplaceFeatureDiscovery, CanReplaceDiscovery
<1> QED BY <1>2, <1>3, <1>4 DEF ReplaceFeatureDiscovery, ready

\* The stages that the run of a Feature in delivery, or installed, can have.
LEMMA RunStages ==
    /\ DOMAIN RunStage = {"delivering", "installed"}
    /\ RunStage["delivering"] = {"open", "stuck"}
    /\ RunStage["installed"] = {"live"}
BY DEF RunStage

\* A step on a draft keeps runs and Features together: a draft has no run.
LEMMA DraftKeepsRuns ==
    ASSUME TypeOK, RunsMatchFeatures, BaselineKept, NEW f, DraftStep(f)
    PROVE  RunsMatchFeatures' /\ BaselineKept'
<1>1. BaselineKept'
  BY DEF BaselineKept, DraftStep, RunIds
<1>2. ASSUME NEW r \in RunIds'
      PROVE  runs'[r].feature \in FeatureIds' /\ features'[runs'[r].feature].run = r
  BY <1>2 DEF RunsMatchFeatures, DraftStep, RunIds
<1>3. ASSUME NEW g \in FeatureIds'
      PROVE  IF features'[g].status \in DOMAIN RunStage
             THEN /\ features'[g].run \in RunIds'
                  /\ runs'[features'[g].run].feature = g
                  /\ runs'[features'[g].run].stage \in RunStage[features'[g].status]
             ELSE features'[g].run = NoRun
  <2>1. CASE g = f
    BY <2>1, RunStages DEF RunsMatchFeatures, DraftStep
  <2>2. CASE g # f
    <3>1. g \in FeatureIds /\ features'[g] = features[g] /\ runs' = runs /\ RunIds' = RunIds
      BY <1>3, <2>2 DEF DraftStep, RunIds
    <3> QED BY <3>1 DEF RunsMatchFeatures
  <2> QED BY <2>1, <2>2
<1> QED BY <1>1, <1>2, <1>3 DEF RunsMatchFeatures, RunStage

\* A step on a draft keeps the queue: a draft has no place in it.
LEMMA DraftKeepsQueue ==
    ASSUME TypeOK, QueueInOrder, NEW f, DraftStep(f)
    PROVE  QueueInOrder'
<1>1. features'[f].sequence = 0
  BY DEF DraftStep, QueueInOrder
<1>2. \A g \in FeatureIds : features'[g].sequence = features[g].sequence
                            /\ features'[g].status = features[g].status
  BY DEF DraftStep
<1>3. SequencesGiven' = SequencesGiven
  BY <1>1, <1>2 DEF SequencesGiven, DraftStep
<1>4. HighestSequence' = HighestSequence
  BY <1>3 DEF HighestSequence
<1>5. ASSUME NEW g \in FeatureIds'
      PROVE  features'[g].status = "draft" <=> features'[g].sequence = 0
  BY <1>1, <1>2, <1>5 DEF QueueInOrder, DraftStep
<1>6. \A g \in FeatureIds' : features'[g].status # "draft" => g \in FeatureIds
  BY DEF DraftStep
<1>7. ASSUME NEW g \in FeatureIds', NEW h \in FeatureIds', g # h, features'[g].status # "draft"
      PROVE  /\ features'[g].sequence # features'[h].sequence
             /\ features'[g].status = "delivering" => features'[h].status # "delivering"
             /\ <<features'[g].status, features'[h].status>> \in
                   {<<"delivering", "confirmed">>, <<"installed", "confirmed">>,
                    <<"installed", "delivering">>}
                => features'[g].sequence < features'[h].sequence
  <2>1. CASE h \in FeatureIds
    <3> USE <1>2, <1>6, <1>7, <2>1
    <3>1. g \in FeatureIds /\ features[g].status # "draft"
      OBVIOUS
    <3> QED BY <3>1 DEF QueueInOrder
  <2>2. CASE h \notin FeatureIds
    <3>1. h = f
      BY <1>7, <2>2 DEF DraftStep
    <3> QED BY <1>1, <1>5, <1>7, <3>1 DEF DraftStep
  <2> QED BY <2>1, <2>2
<1> QED BY <1>3, <1>4, <1>5, <1>7 DEF QueueInOrder

\* What a step on the Feature f does that changes its status: its sequence, its
\* run and its specification apart, nothing else moves.
FeatureStep(f, to) ==
    /\ f \in FeatureIds
    /\ FeatureIds' = FeatureIds
    /\ features'[f].status = to
    /\ features'[f].specification = features[f].specification
    /\ \A g \in FeatureIds : g # f => features'[g] = features[g]

\* Confirming moves one draft into the queue.
LEMMA ConfirmIsFeatureStep ==
    ASSUME TypeOK, NEW kind, NEW f, NEW version, ConfirmFeature(kind, f, version)
    PROVE  /\ FeatureStep(f, "confirmed")
           /\ features[f].status = "draft"
           /\ features'[f].run = features[f].run
           /\ features'[f].sequence = NextDeliverySequence
           /\ UNCHANGED <<definition, release, runs>>
<1>1. f \in FeatureIds /\ features[f] \in Feature
  BY DEF ConfirmFeature, CanConfirm, TypeOK, FeatureIds
<1> QED BY <1>1 DEF ConfirmFeature, CanConfirm, FeatureStep, FeatureIds, Feature, TypeOK,
                    product

\* Starting moves the first of the queue into delivery, with a run of its own.
LEMMA StartIsFeatureStep ==
    ASSUME TypeOK, NEW kind, NEW f, StartDelivery(kind, f)
    PROVE  /\ FeatureStep(f, "delivering")
           /\ features[f].status = "confirmed"
           /\ features'[f].run = Len(runs) + 1
           /\ features'[f].sequence = features[f].sequence
           /\ \A g \in FeatureIds : features[g].status # "delivering"
           /\ \A g \in FeatureIds : features[g].status = "confirmed" /\ features[g].sequence # 0 =>
                  features[f].sequence <= features[g].sequence
           /\ UNCHANGED <<definition, release>>
           /\ RunIds' = RunIds \cup {Len(runs) + 1}
           /\ Len(runs) + 1 \notin RunIds
           /\ Len(runs) + 1 # NoRun
           /\ runs'[Len(runs) + 1] =
                [feature |-> f, revision |-> release, v3 |-> TRUE, stage |-> "open"]
           /\ \A r \in RunIds : runs'[r] = runs[r]
<1>1. f \in FeatureIds /\ features[f] \in Feature
  BY DEF StartDelivery, CanStartDelivery, NextFeatureForDelivery, Queue, InStatus, TypeOK,
         FeatureIds
<1>2. FeatureStep(f, "delivering") /\ features'[f].run = Len(runs) + 1
      /\ features'[f].sequence = features[f].sequence
  BY <1>1 DEF StartDelivery, CanStartDelivery, FeatureStep, FeatureIds, Feature, TypeOK
<1>3. /\ features[f].status = "confirmed"
      /\ \A g \in FeatureIds : features[g].status # "delivering"
      /\ \A g \in FeatureIds : features[g].status = "confirmed" /\ features[g].sequence # 0 =>
             features[f].sequence <= features[g].sequence
  BY DEF StartDelivery, CanStartDelivery, NextFeatureForDelivery, Queue, InStatus
<1>4. [feature |-> f, revision |-> release, v3 |-> TRUE, stage |-> "open"] \in DeliveryRun
  BY <1>1 DEF DeliveryRun, TypeOK, FeatureIds
<1>5. runs \in Seq(DeliveryRun) /\ Len(runs) + 1 # NoRun
  BY DEF TypeOK, NoRun
<1>6. runs' = Append(runs, [feature |-> f, revision |-> release, v3 |-> TRUE, stage |-> "open"])
      /\ UNCHANGED <<definition, release>>
  BY DEF StartDelivery, CanStartDelivery, product
<1> QED BY <1>2, <1>3, <1>4, <1>5, <1>6, Appended DEF RunIds

\* Going live moves the Feature in delivery, and its run, to the end.
LEMMA GoLiveIsFeatureStep ==
    ASSUME TypeOK, NEW kind, NEW r, GoLive(kind, r), NEW f, f = runs[r].feature
    PROVE  /\ FeatureStep(f, "installed")
           /\ features[f].status = "delivering"
           /\ features[f].run = r
           /\ features'[f].run = r
           /\ features'[f].sequence = features[f].sequence
           /\ r \in RunIds
           /\ runs[r].stage = "open"
           /\ RunIds' = RunIds
           /\ runs'[r].feature = f
           /\ runs'[r].stage = "live"
           /\ \A q \in RunIds : q # r => runs'[q] = runs[q]
<1>1. f \in FeatureIds /\ features[f] \in Feature
      /\ features[f].status = "delivering" /\ features[f].run = r
  BY DEF GoLive, Installable, TypeOK, FeatureIds
<1>2. r \in RunIds /\ runs[r] \in DeliveryRun /\ runs[r].stage = "open"
  BY DEF GoLive, TypeOK, RunIds
<1>3. runs' = [runs EXCEPT ![r] = [runs[r] EXCEPT !.stage = "live"]]
  BY <1>2 DEF GoLive, RunIds, DeliveryRun, TypeOK
<1>4. features' = [features EXCEPT ![f] = [features[f] EXCEPT !.status = "installed"]]
  BY <1>1 DEF GoLive, Installed, FeatureIds, Feature, TypeOK
<1>5. FeatureStep(f, "installed") /\ features'[f].run = r
      /\ features'[f].sequence = features[f].sequence
  BY <1>1, <1>4 DEF FeatureStep, FeatureIds, Feature, TypeOK
<1>6. /\ RunIds' = RunIds
      /\ runs'[r].feature = f
      /\ runs'[r].stage = "live"
      /\ \A q \in RunIds : q # r => runs'[q] = runs[q]
  BY <1>2, <1>3 DEF RunIds, DeliveryRun, TypeOK
<1> QED BY <1>1, <1>2, <1>5, <1>6

\* An open or stuck run is of the one Feature in delivery, so there is one at most.
LEMMA OneRunAtMost ==
    ASSUME TypeOK, RunsMatchFeatures, QueueInOrder,
           NEW q \in RunIds, NEW r \in RunIds,
           runs[q].stage # "live", runs[r].stage # "live"
    PROVE  q = r /\ features[runs[r].feature].status = "delivering"
<1>1. ASSUME NEW p \in RunIds, runs[p].stage # "live"
      PROVE  /\ runs[p].feature \in FeatureIds
             /\ features[runs[p].feature].run = p
             /\ features[runs[p].feature].status = "delivering"
  <2>1. runs[p].feature \in FeatureIds /\ features[runs[p].feature].run = p
    BY <1>1 DEF RunsMatchFeatures
  <2>2. p # NoRun
    BY <1>1 DEF RunIds, TypeOK, NoRun
  <2>3. features[runs[p].feature].status \in {"delivering", "installed"}
    BY <2>1, <2>2, RunStages DEF RunsMatchFeatures
  <2>4. features[runs[p].feature].status # "installed"
    BY <1>1, <2>1, RunStages DEF RunsMatchFeatures
  <2> QED BY <2>1, <2>3, <2>4
<1>2. runs[q].feature = runs[r].feature
  BY <1>1 DEF QueueInOrder
<1> QED BY <1>1, <1>2

\* A confirmation leaves the runs alone, and the Feature without one.
LEMMA ConfirmKeepsRuns ==
    ASSUME TypeOK, RunsMatchFeatures, BaselineKept,
           NEW kind, NEW f, NEW version, ConfirmFeature(kind, f, version)
    PROVE  RunsMatchFeatures' /\ BaselineKept'
<1>1. FeatureStep(f, "confirmed") /\ features[f].status = "draft"
      /\ features'[f].run = features[f].run /\ UNCHANGED <<definition, release, runs>>
  BY ConfirmIsFeatureStep
<1>2. BaselineKept'
  BY <1>1 DEF BaselineKept, RunIds
<1>3. ASSUME NEW r \in RunIds'
      PROVE  runs'[r].feature \in FeatureIds' /\ features'[runs'[r].feature].run = r
  BY <1>1, <1>3 DEF RunsMatchFeatures, FeatureStep, RunIds
<1>4. ASSUME NEW g \in FeatureIds'
      PROVE  IF features'[g].status \in DOMAIN RunStage
             THEN /\ features'[g].run \in RunIds'
                  /\ runs'[features'[g].run].feature = g
                  /\ runs'[features'[g].run].stage \in RunStage[features'[g].status]
             ELSE features'[g].run = NoRun
  <2>1. CASE g = f
    BY <1>1, <2>1, RunStages DEF RunsMatchFeatures, FeatureStep
  <2>2. CASE g # f
    <3>1. g \in FeatureIds /\ features'[g] = features[g] /\ runs' = runs /\ RunIds' = RunIds
      BY <1>1, <1>4, <2>2 DEF FeatureStep, RunIds
    <3> QED BY <3>1 DEF RunsMatchFeatures
  <2> QED BY <2>1, <2>2
<1> QED BY <1>2, <1>3, <1>4 DEF RunsMatchFeatures, RunStage

\* The confirmed Feature gets the next number of the queue, after all others.
LEMMA ConfirmKeepsQueue ==
    ASSUME TypeOK, QueueInOrder, NEW kind, NEW f, NEW version, ConfirmFeature(kind, f, version)
    PROVE  QueueInOrder'
<1> DEFINE n == HighestSequence
<1>1. n \in Nat /\ SequencesGiven = 0..n
  BY DEF QueueInOrder
<1>2. FeatureStep(f, "confirmed") /\ features[f].status = "draft"
      /\ features'[f].sequence = n + 1
  BY ConfirmIsFeatureStep DEF NextDeliverySequence
<1>3. features[f].sequence = 0
  BY <1>2 DEF QueueInOrder, FeatureStep
<1>4. ASSUME NEW g \in FeatureIds PROVE features[g].sequence \in 0..n
  BY <1>1 DEF SequencesGiven
<1> HIDE DEF n
<1>5. SequencesGiven' = 0..(n + 1)
  <2>1. SequencesGiven' = SequencesGiven \cup {n + 1}
    BY <1>2, <1>3 DEF SequencesGiven, FeatureStep
  <2> QED BY <1>1, <2>1
<1>6. HighestSequence' = n + 1
  <2>1. HighestSequence' = Max(0..(n + 1))
    BY <1>5 DEF HighestSequence
  <2> QED BY <1>1, <2>1, MaxOf
<1>7. ASSUME NEW g \in FeatureIds'
      PROVE  features'[g].status = "draft" <=> features'[g].sequence = 0
  BY <1>1, <1>2, <1>7 DEF QueueInOrder, FeatureStep
<1>8. ASSUME NEW g \in FeatureIds', NEW h \in FeatureIds', g # h, features'[g].status # "draft"
      PROVE  /\ features'[g].sequence # features'[h].sequence
             /\ features'[g].status = "delivering" => features'[h].status # "delivering"
             /\ <<features'[g].status, features'[h].status>> \in
                   {<<"delivering", "confirmed">>, <<"installed", "confirmed">>,
                    <<"installed", "delivering">>}
                => features'[g].sequence < features'[h].sequence
  <2>0. g \in FeatureIds /\ h \in FeatureIds
    BY <1>2, <1>8 DEF FeatureStep
  <2>1. CASE g = f
    <3>1. features'[h] = features[h] /\ features[h].sequence \in 0..n
      BY <1>2, <1>4, <1>8, <2>0, <2>1 DEF FeatureStep
    <3>2. features'[g].status = "confirmed"
      BY <1>2, <2>1 DEF FeatureStep
    <3> QED BY <1>1, <1>2, <2>1, <3>1, <3>2
  <2>2. CASE h = f
    <3>1. features'[g] = features[g] /\ features[g].sequence \in 0..n
      BY <1>2, <1>4, <1>8, <2>0, <2>2 DEF FeatureStep
    <3>2. features'[h].status = "confirmed"
      BY <1>2, <2>2 DEF FeatureStep
    <3> QED BY <1>1, <1>2, <2>2, <3>1, <3>2
  <2>3. CASE g # f /\ h # f
    <3>1. features'[g] = features[g] /\ features'[h] = features[h]
      BY <1>2, <2>0, <2>3 DEF FeatureStep
    <3> QED BY <1>8, <2>0, <3>1 DEF QueueInOrder
  <2> QED BY <2>1, <2>2, <2>3
<1> QED BY <1>1, <1>5, <1>6, <1>7, <1>8 DEF QueueInOrder

\* A Feature that is started was confirmed before all that waits, and nothing is in
\* delivery; one that is installed was the one in delivery.
LEMMA MovedOnKeepsQueue ==
    ASSUME TypeOK, QueueInOrder, NEW f, NEW to,
           FeatureStep(f, to), features'[f].sequence = features[f].sequence,
           \/ /\ features[f].status = "confirmed"
              /\ to = "delivering"
              /\ \A g \in FeatureIds : features[g].status # "delivering"
              /\ \A g \in FeatureIds : features[g].status = "confirmed" /\ features[g].sequence # 0 =>
                     features[f].sequence <= features[g].sequence
           \/ /\ features[f].status = "delivering"
              /\ to = "installed"
    PROVE  QueueInOrder'
<1>0. \A g \in FeatureIds : features[g] \in Feature
  BY DEF TypeOK, FeatureIds
<1>1. \A g \in FeatureIds : features'[g].sequence = features[g].sequence
                            /\ features[g].sequence \in Nat
  BY <1>0 DEF FeatureStep, Feature
<1>2. SequencesGiven' = SequencesGiven
  BY <1>1 DEF SequencesGiven, FeatureStep
<1>3. HighestSequence' = HighestSequence
  BY <1>2 DEF HighestSequence
<1>4. ASSUME NEW g \in FeatureIds'
      PROVE  features'[g].status = "draft" <=> features'[g].sequence = 0
  BY <1>1, <1>4 DEF QueueInOrder, FeatureStep
<1>5. ASSUME NEW g \in FeatureIds', NEW h \in FeatureIds', g # h, features'[g].status # "draft"
      PROVE  /\ features'[g].sequence # features'[h].sequence
             /\ features'[g].status = "delivering" => features'[h].status # "delivering"
             /\ <<features'[g].status, features'[h].status>> \in
                   {<<"delivering", "confirmed">>, <<"installed", "confirmed">>,
                    <<"installed", "delivering">>}
                => features'[g].sequence < features'[h].sequence
  <2>0. g \in FeatureIds /\ h \in FeatureIds
    BY <1>5 DEF FeatureStep
  <2>1. features[g].status # "draft"
    BY <1>1, <1>4, <1>5, <2>0 DEF QueueInOrder
  <2>2. features[g].sequence # features[h].sequence
    BY <1>5, <2>0, <2>1 DEF QueueInOrder
  <2>3. \A k \in FeatureIds : k # f => features'[k].status = features[k].status
    BY DEF FeatureStep
  <2>4. features'[f].status = to
    BY DEF FeatureStep
  <2>5. /\ features[g].status = "delivering" => features[h].status # "delivering"
        /\ <<features[g].status, features[h].status>> \in
              {<<"delivering", "confirmed">>, <<"installed", "confirmed">>,
               <<"installed", "delivering">>}
           => features[g].sequence < features[h].sequence
    BY <1>5, <2>0, <2>1 DEF QueueInOrder
  <2>6. features[h].status = "confirmed" => features[h].sequence # 0
    BY <2>0 DEF QueueInOrder
  <2>7. f \in FeatureIds /\ features[f].sequence \in Nat
    BY <1>1 DEF FeatureStep
  <2>8. CASE g = f
    BY <1>1, <1>5, <2>0, <2>2, <2>3, <2>4, <2>5, <2>6, <2>8
  <2>9. CASE h = f
    BY <1>1, <1>5, <2>0, <2>1, <2>2, <2>3, <2>4, <2>5, <2>9
  <2>10. CASE g # f /\ h # f
    BY <1>1, <2>0, <2>2, <2>3, <2>5, <2>10
  <2> QED BY <2>8, <2>9, <2>10
<1> QED BY <1>2, <1>3, <1>4, <1>5 DEF QueueInOrder

\* The started Feature and its new run name each other, at the current baseline.
LEMMA StartKeepsRuns ==
    ASSUME TypeOK, RunsMatchFeatures, BaselineKept, NEW kind, NEW f, StartDelivery(kind, f)
    PROVE  RunsMatchFeatures' /\ BaselineKept'
<1> DEFINE n == Len(runs) + 1
           new == [feature |-> f, revision |-> release, v3 |-> TRUE, stage |-> "open"]
<1>1. /\ FeatureStep(f, "delivering")
      /\ features[f].status = "confirmed"
      /\ features'[f].run = n
      /\ UNCHANGED <<definition, release>>
      /\ RunIds' = RunIds \cup {n}
      /\ n \notin RunIds
      /\ runs'[n] = new
      /\ \A r \in RunIds : runs'[r] = runs[r]
  BY StartIsFeatureStep
<1>2. new.feature = f /\ new.revision = release /\ new.stage = "open"
  OBVIOUS
<1> HIDE DEF n, new
<1>3. BaselineKept'
  BY <1>1, <1>2 DEF BaselineKept
<1>4. features[f].run = NoRun /\ f \in FeatureIds
  BY <1>1, RunStages DEF RunsMatchFeatures, FeatureStep
<1>5. ASSUME NEW r \in RunIds'
      PROVE  runs'[r].feature \in FeatureIds' /\ features'[runs'[r].feature].run = r
  <2>1. CASE r = n
    BY <1>1, <1>2, <2>1 DEF FeatureStep
  <2>2. CASE r # n
    <3>1. r \in RunIds /\ runs'[r] = runs[r] /\ r # NoRun
      BY <1>1, <1>5, <2>2 DEF RunIds, TypeOK, NoRun
    <3>2. runs[r].feature \in FeatureIds /\ features[runs[r].feature].run = r
      BY <3>1 DEF RunsMatchFeatures
    <3>3. runs[r].feature # f
      BY <1>4, <3>1, <3>2
    <3> QED BY <1>1, <3>1, <3>2, <3>3 DEF FeatureStep
  <2> QED BY <2>1, <2>2
<1>6. ASSUME NEW g \in FeatureIds'
      PROVE  IF features'[g].status \in DOMAIN RunStage
             THEN /\ features'[g].run \in RunIds'
                  /\ runs'[features'[g].run].feature = g
                  /\ runs'[features'[g].run].stage \in RunStage[features'[g].status]
             ELSE features'[g].run = NoRun
  <2>1. CASE g = f
    BY <1>1, <1>2, <2>1, RunStages DEF FeatureStep
  <2>2. CASE g # f
    <3>1. g \in FeatureIds /\ features'[g] = features[g]
      BY <1>1, <1>6, <2>2 DEF FeatureStep
    <3> QED BY <1>1, <3>1 DEF RunsMatchFeatures
  <2> QED BY <2>1, <2>2
<1> QED BY <1>3, <1>5, <1>6 DEF RunsMatchFeatures, RunStage

\* The installed Feature's run is live, and no other run is open to miss the
\* baseline that a run of the older engine brings.
LEMMA GoLiveKeepsRuns ==
    ASSUME TypeOK, RunsMatchFeatures, QueueInOrder, BaselineKept, NEW kind, NEW r, GoLive(kind, r)
    PROVE  RunsMatchFeatures' /\ BaselineKept'
<1> DEFINE f == runs[r].feature
<1>1. /\ FeatureStep(f, "installed")
      /\ features[f].status = "delivering"
      /\ features[f].run = r
      /\ features'[f].run = r
      /\ r \in RunIds
      /\ runs[r].stage = "open"
      /\ RunIds' = RunIds
      /\ runs'[r].feature = f
      /\ runs'[r].stage = "live"
      /\ \A q \in RunIds : q # r => runs'[q] = runs[q]
  BY GoLiveIsFeatureStep
<1> HIDE DEF f
<1>2. BaselineKept'
  <2>1. ASSUME NEW q \in RunIds' PROVE runs'[q].stage # "open"
    <3>1. CASE q = r
      BY <1>1, <3>1
    <3>2. CASE q # r
      <4>1. q \in RunIds /\ runs'[q] = runs[q]
        BY <1>1, <2>1, <3>2
      <4>2. runs[q].stage = "live"
        BY <1>1, <3>2, <4>1, OneRunAtMost
      <4> QED BY <4>1, <4>2
    <3> QED BY <3>1, <3>2
  <2>2. definition' = release'
    BY DEF GoLive, BaselineKept
  <2> QED BY <2>1, <2>2 DEF BaselineKept
<1>3. ASSUME NEW q \in RunIds'
      PROVE  runs'[q].feature \in FeatureIds' /\ features'[runs'[q].feature].run = q
  <2>1. CASE q = r
    BY <1>1, <2>1 DEF FeatureStep
  <2>2. CASE q # r
    <3>1. q \in RunIds /\ runs'[q] = runs[q]
      BY <1>1, <1>3, <2>2
    <3>2. runs[q].feature \in FeatureIds /\ features[runs[q].feature].run = q
      BY <3>1 DEF RunsMatchFeatures
    <3>3. runs[q].feature # f
      BY <1>1, <2>2, <3>2
    <3> QED BY <1>1, <3>1, <3>2, <3>3 DEF FeatureStep
  <2> QED BY <2>1, <2>2
<1>4. ASSUME NEW g \in FeatureIds'
      PROVE  IF features'[g].status \in DOMAIN RunStage
             THEN /\ features'[g].run \in RunIds'
                  /\ runs'[features'[g].run].feature = g
                  /\ runs'[features'[g].run].stage \in RunStage[features'[g].status]
             ELSE features'[g].run = NoRun
  <2>1. CASE g = f
    BY <1>1, <2>1, RunStages DEF FeatureStep
  <2>2. CASE g # f
    <3>1. g \in FeatureIds /\ features'[g] = features[g]
      BY <1>1, <1>4, <2>2 DEF FeatureStep
    <3>2. ASSUME features[g].status \in DOMAIN RunStage
          PROVE  features[g].run \in RunIds /\ runs'[features[g].run] = runs[features[g].run]
      <4>1. features[g].run \in RunIds /\ runs[features[g].run].feature = g
        BY <3>1, <3>2 DEF RunsMatchFeatures
      <4>2. features[g].run # r
        BY <2>2, <4>1 DEF f
      <4> QED BY <1>1, <4>1, <4>2
    <3> QED BY <1>1, <3>1, <3>2 DEF RunsMatchFeatures
  <2> QED BY <2>1, <2>2
<1> QED BY <1>2, <1>3, <1>4 DEF RunsMatchFeatures, RunStage

\* A stuck run is still the run of a Feature in delivery.
LEMMA StuckKeepsRuns ==
    ASSUME TypeOK, RunsMatchFeatures, QueueInOrder, BaselineKept, NEW r, GetStuck(r)
    PROVE  RunsMatchFeatures' /\ BaselineKept' /\ QueueInOrder'
<1>1. r \in RunIds /\ runs[r] \in DeliveryRun /\ runs[r].stage = "open"
  BY DEF GetStuck, TypeOK, RunIds
<1>2. /\ RunIds' = RunIds
      /\ runs'[r].feature = runs[r].feature
      /\ runs'[r].stage = "stuck"
      /\ \A q \in RunIds : q # r => runs'[q] = runs[q]
  BY <1>1 DEF GetStuck, RunIds, DeliveryRun, TypeOK
<1>3. features[runs[r].feature].status = "delivering"
  BY <1>1, OneRunAtMost
<1>4. UNCHANGED <<definition, release, features>> /\ FeatureIds' = FeatureIds
  BY DEF GetStuck, product, FeatureIds
<1>5. QueueInOrder'
  BY <1>4 DEF QueueInOrder, HighestSequence, SequencesGiven
<1>6. BaselineKept'
  BY <1>2, <1>4 DEF BaselineKept
<1>7. ASSUME NEW q \in RunIds'
      PROVE  runs'[q].feature \in FeatureIds' /\ features'[runs'[q].feature].run = q
  BY <1>2, <1>4, <1>7 DEF RunsMatchFeatures
<1>8. ASSUME NEW g \in FeatureIds'
      PROVE  IF features'[g].status \in DOMAIN RunStage
             THEN /\ features'[g].run \in RunIds'
                  /\ runs'[features'[g].run].feature = g
                  /\ runs'[features'[g].run].stage \in RunStage[features'[g].status]
             ELSE features'[g].run = NoRun
  <2>1. CASE features[g].run = r /\ features[g].status \in DOMAIN RunStage
    <3>1. runs[r].feature = g
      BY <1>4, <1>8, <2>1 DEF RunsMatchFeatures
    <3> QED BY <1>1, <1>2, <1>3, <1>4, <2>1, <3>1, RunStages
  <2>2. CASE ~(features[g].run = r /\ features[g].status \in DOMAIN RunStage)
    <3>1. g \in FeatureIds /\ features' = features
      BY <1>4, <1>8
    <3> QED BY <1>2, <2>2, <3>1 DEF RunsMatchFeatures
  <2> QED BY <2>1, <2>2
<1> QED BY <1>5, <1>6, <1>7, <1>8 DEF RunsMatchFeatures, RunStage

\* Leaving Features, runs and both revisions alone keeps all three.
LEMMA OthersKeepRuns ==
    ASSUME RunsMatchFeatures, QueueInOrder, BaselineKept,
           UNCHANGED <<features, runs, definition, release>>
    PROVE  RunsMatchFeatures' /\ QueueInOrder' /\ BaselineKept'
<1>1. FeatureIds' = FeatureIds /\ RunIds' = RunIds
  BY DEF FeatureIds, RunIds
<1>2. RunsMatchFeatures'
  BY <1>1 DEF RunsMatchFeatures, RunStage
<1>3. QueueInOrder'
  BY <1>1 DEF QueueInOrder, HighestSequence, SequencesGiven
<1>4. BaselineKept'
  BY <1>1 DEF BaselineKept
<1> QED BY <1>2, <1>3, <1>4

-----------------------------------------------------------------------------
(* The theorems.                                                           *)

\* Every step keeps the invariant.
LEMMA LifecycleInductive == LifecycleInvariant /\ [Next]_vars => LifecycleInvariant'
<1> SUFFICES ASSUME LifecycleInvariant, [Next]_vars PROVE LifecycleInvariant'
  OBVIOUS
<1> USE DEF LifecycleInvariant
<1>1. CASE OtherStep
  <2>1. UNCHANGED <<features, runs, definition, release>>
    BY <1>1 DEF OtherStep, Delete, CanDelete, StartProductFrontend, CompleteProductFrontend,
                MoveEngineering, CanMoveEngineering
  <2> QED BY <1>1, <2>1, OtherTyped, OthersKeepRuns
<1>2. ASSUME NEW kind, OpenFeatureDiscovery(kind) PROVE LifecycleInvariant'
  BY <1>2, OpenTyped, OpenIsDraftStep, DraftKeepsRuns, DraftKeepsQueue
<1>3. ASSUME NEW kind, NEW f, NEW specification \in Specification,
             ReplaceFeatureDiscovery(kind, f, specification)
      PROVE  LifecycleInvariant'
  BY <1>3, ReplaceTyped, ReplaceIsDraftStep, DraftKeepsRuns, DraftKeepsQueue
<1>4. ASSUME NEW kind, NEW f, NEW version, ConfirmFeature(kind, f, version)
      PROVE  LifecycleInvariant'
  BY <1>4, ConfirmTyped, ConfirmKeepsRuns, ConfirmKeepsQueue
<1>5. ASSUME NEW kind, NEW f, StartDelivery(kind, f) PROVE LifecycleInvariant'
  <2>1. QueueInOrder'
    BY <1>5, StartIsFeatureStep, MovedOnKeepsQueue
  <2> QED BY <1>5, <2>1, StartTyped, StartKeepsRuns
<1>6. ASSUME NEW kind, NEW r, GoLive(kind, r) PROVE LifecycleInvariant'
  <2>1. QueueInOrder'
    BY <1>6, GoLiveIsFeatureStep, MovedOnKeepsQueue
  <2> QED BY <1>6, <2>1, GoLiveTyped, GoLiveKeepsRuns
<1>7. ASSUME NEW r, GetStuck(r) PROVE LifecycleInvariant'
  BY <1>7, StuckTyped, StuckKeepsRuns
<1>8. CASE UNCHANGED vars
  <2>1. TypeOK'
    BY <1>8 DEF vars, product, TypeOK, RunIds
  <2> QED BY <1>8, <2>1, OthersKeepRuns DEF vars, product
<1> QED BY <1>1, <1>2, <1>3, <1>4, <1>5, <1>6, <1>7, <1>8
        DEF Next, ProductStep, DiscoveryStep, Start, EndRun, OtherStep

\* The invariant holds in every state: the queue is numbered and delivered in
\* order, runs and Features agree, and open runs keep their baseline.
THEOREM LifecycleHolds == Spec => []LifecycleInvariant
<1>1. Init => LifecycleInvariant
  BY InitTyped, InitQueue, InitRuns, ProductAssumption DEF LifecycleInvariant
<1> QED BY <1>1, LifecycleInductive, PTL DEF Spec

\* What the two stored documents say of each other never disagrees.
THEOREM RunsAndFeaturesAgree == Spec => []RunsMatchFeatures
<1>1. LifecycleInvariant => RunsMatchFeatures
  BY DEF LifecycleInvariant
<1> QED BY <1>1, LifecycleHolds, PTL

\* Every variable holds a value the code can store in it.
THEOREM ProductTypeCorrect == Spec => []TypeOK
<1>1. LifecycleInvariant => TypeOK
  BY DEF LifecycleInvariant
<1> QED BY <1>1, LifecycleHolds, PTL

\* No run that is ready to go live is refused by InstallDeliveryRun.
THEOREM InstallationNeverRefused == Spec => []InstallNeverRefused
<1>1. LifecycleInvariant => InstallNeverRefused
  <2> SUFFICES ASSUME LifecycleInvariant, NEW r \in RunIds, runs[r].stage = "open",
                      NEW kind \in LiveActors
               PROVE  Installable(kind, r)
    BY DEF InstallNeverRefused
  <2> USE DEF LifecycleInvariant
  <2>1. features[runs[r].feature].status = "delivering"
    BY OneRunAtMost
  <2>2. runs[r].feature \in FeatureIds /\ features[runs[r].feature].run = r
    BY DEF RunsMatchFeatures
  <2>3. runs[r].revision = release /\ definition = release
    BY DEF BaselineKept
  <2> QED BY <2>1, <2>2, <2>3 DEF Installable, LiveActors
<1> QED BY <1>1, LifecycleHolds, PTL

\* The half of ConfirmedAsRead that is about confirmed Features, of one step.
FrozenStep ==
    \A f \in FeatureIds : features[f].status # "draft" =>
        /\ features'[f].status # "draft"
        /\ features'[f].specification = features[f].specification
        /\ features'[f].sequence = features[f].sequence

\* A step on a draft touches no Feature that is not one; a step that moves a Feature
\* on keeps its place and specification.
LEMMA StepsAreFrozen ==
    /\ \A f : DraftStep(f) => FrozenStep
    /\ \A f, to : /\ FeatureStep(f, to)
                  /\ to # "draft"
                  /\ features[f].status = "draft" \/ features'[f].sequence = features[f].sequence
                  => FrozenStep
<1>1. ASSUME NEW f, DraftStep(f) PROVE FrozenStep
  BY <1>1 DEF DraftStep, FrozenStep
<1>2. ASSUME NEW f, NEW to, FeatureStep(f, to), to # "draft",
             features[f].status = "draft" \/ features'[f].sequence = features[f].sequence
      PROVE  FrozenStep
  BY <1>2 DEF FeatureStep, FrozenStep
<1> QED BY <1>1, <1>2

\* No command changes a confirmed Feature's specification or its place in the queue,
\* nor makes it a draft again.
LEMMA ConfirmedIsFrozen == ASSUME TypeOK, Next PROVE FrozenStep
<1>1. CASE OtherStep
  <2>1. features' = features
    BY <1>1 DEF OtherStep, Delete, CanDelete, StartProductFrontend, CompleteProductFrontend,
                MoveEngineering, CanMoveEngineering
  <2> QED BY <2>1 DEF FrozenStep
<1>2. ASSUME NEW kind, OpenFeatureDiscovery(kind) PROVE FrozenStep
  BY <1>2, OpenIsDraftStep, StepsAreFrozen
<1>3. ASSUME NEW kind, NEW f, NEW specification \in Specification,
             ReplaceFeatureDiscovery(kind, f, specification)
      PROVE  FrozenStep
  BY <1>3, ReplaceIsDraftStep, StepsAreFrozen
<1>4. ASSUME NEW kind, NEW f, NEW version, ConfirmFeature(kind, f, version) PROVE FrozenStep
  <2>1. FeatureStep(f, "confirmed") /\ features[f].status = "draft"
    BY <1>4, ConfirmIsFeatureStep
  <2> QED BY <2>1, StepsAreFrozen
<1>5. ASSUME NEW kind, NEW f, StartDelivery(kind, f) PROVE FrozenStep
  <2>1. FeatureStep(f, "delivering") /\ features'[f].sequence = features[f].sequence
    BY <1>5, StartIsFeatureStep
  <2> QED BY <2>1, StepsAreFrozen
<1>6. ASSUME NEW kind, NEW r, GoLive(kind, r) PROVE FrozenStep
  <2>1. \E f : FeatureStep(f, "installed") /\ features'[f].sequence = features[f].sequence
    BY <1>6, GoLiveIsFeatureStep
  <2> QED BY <2>1, StepsAreFrozen
<1>7. ASSUME NEW r, GetStuck(r) PROVE FrozenStep
  <2>1. features' = features
    BY <1>7 DEF GetStuck
  <2> QED BY <2>1 DEF FrozenStep
<1> QED BY <1>1, <1>2, <1>3, <1>4, <1>5, <1>6, <1>7
        DEF Next, ProductStep, DiscoveryStep, Start, EndRun, OtherStep

\* The half of ConfirmedAsRead that is about drafts, of one step.
VersionStep ==
    \A f \in FeatureIds :
        features[f].status = "draft" /\ features'[f].specification # features[f].specification
            => features'[f].version # features[f].version

\* A draft's content changes only in a replacement, which counts its version up; a
\* confirmed draft keeps the content it had.
LEMMA VersionNamesContent == ASSUME TypeOK, Next PROVE VersionStep
<1>1. ASSUME features' = features PROVE VersionStep
  BY <1>1 DEF VersionStep
<1>2. ASSUME NEW new, features' = Append(features, new) PROVE VersionStep
  BY <1>2 DEF VersionStep, TypeOK, FeatureIds
<1>3. ASSUME NEW f, NEW to, FeatureStep(f, to) PROVE VersionStep
  BY <1>3 DEF FeatureStep, VersionStep
<1>4. ASSUME NEW f \in FeatureIds, NEW ready, NEW specification,
             features' = [features EXCEPT ![f] =
                [features[f] EXCEPT !.version = NextVersion(features[f].version),
                                    !.ready = ready, !.specification = specification]]
      PROVE  VersionStep
  <2>1. features[f] \in Feature /\ features \in Seq(Feature)
    BY DEF TypeOK, FeatureIds
  <2>2. features'[f].version = features[f].version + 1 /\ features[f].version \in Nat
    BY <1>4, <2>1 DEF FeatureIds, Feature, NextVersion
  <2>3. \A g \in FeatureIds : g # f => features'[g] = features[g]
    BY <1>4, <2>1 DEF FeatureIds
  <2> QED BY <2>2, <2>3 DEF VersionStep
<1>5. CASE OtherStep
  BY <1>1, <1>5 DEF OtherStep, Delete, CanDelete, StartProductFrontend,
                  CompleteProductFrontend,
                    MoveEngineering, CanMoveEngineering
<1>6. ASSUME NEW kind, OpenFeatureDiscovery(kind) PROVE VersionStep
  BY <1>2, <1>6 DEF OpenFeatureDiscovery, CanOpenDiscovery
<1>7. ASSUME NEW kind, NEW f, NEW specification, ReplaceFeatureDiscovery(kind, f, specification)
      PROVE  VersionStep
  BY <1>2, <1>4, <1>7 DEF ReplaceFeatureDiscovery, CanReplaceDiscovery
<1>8. ASSUME NEW kind, NEW f, NEW version, ConfirmFeature(kind, f, version) PROVE VersionStep
  BY <1>3, <1>8, ConfirmIsFeatureStep
<1>9. ASSUME NEW kind, NEW f, StartDelivery(kind, f) PROVE VersionStep
  BY <1>3, <1>9, StartIsFeatureStep
<1>10. ASSUME NEW kind, NEW r, GoLive(kind, r) PROVE VersionStep
  BY <1>3, <1>10, GoLiveIsFeatureStep
<1>11. ASSUME NEW r, GetStuck(r) PROVE VersionStep
  BY <1>1, <1>11 DEF GetStuck
<1> QED BY <1>5, <1>6, <1>7, <1>8, <1>9, <1>10, <1>11
        DEF Next, ProductStep, DiscoveryStep, Start, EndRun, OtherStep

\* A confirmed Feature is what its owner read, for good: no order of replacements,
\* confirmations and deliveries changes it (replaceFeatureDiscovery, confirmFeature).
THEOREM ConfirmedStaysAsRead == Spec => ConfirmedAsRead
<1> DEFINE Step ==
      \A f \in FeatureIds :
         /\ features'[f].specification # features[f].specification =>
               features[f].status = "draft" /\ features'[f].version # features[f].version
         /\ features[f].status # "draft" =>
               features'[f].status # "draft" /\ features'[f].sequence = features[f].sequence
<1>1. TypeOK /\ [Next]_vars => [Step]_vars
  <2>1. FrozenStep /\ VersionStep => Step
    BY DEF FrozenStep, VersionStep
  <2> QED BY <2>1, ConfirmedIsFrozen, VersionNamesContent
<1>2. ConfirmedAsRead <=> [][Step]_vars
  BY DEF ConfirmedAsRead
<1> QED BY <1>1, <1>2, ProductTypeCorrect, PTL DEF Spec

-----------------------------------------------------------------------------
(* The launch destination.                                                 *)

\* A step that installs nothing leaves the deployment the latest one.
LEMMA DeploymentKept ==
    ASSUME DeploymentIsLatest, deployment' = deployment,
           InStatus({"installed"})' = InStatus({"installed"}),
           \A f \in InStatus({"installed"}) : features'[f].sequence = features[f].sequence,
           \A r \in RunIds : r \in RunIds' /\ runs'[r].feature = runs[r].feature
    PROVE  DeploymentIsLatest'
BY DEF DeploymentIsLatest

\* The installed Features after a step that moves one Feature on.
LEMMA InstalledAfter ==
    ASSUME NEW f, NEW to, FeatureStep(f, to), features[f].status # "installed"
    PROVE  /\ to # "installed" => InStatus({"installed"})' = InStatus({"installed"})
           /\ to = "installed" => InStatus({"installed"})' = InStatus({"installed"}) \cup {f}
           /\ \A g \in InStatus({"installed"}) : features'[g] = features[g]
BY DEF FeatureStep, InStatus

\* The Feature that goes live is the latest of the queue that has.
LEMMA GoLiveIsLatest ==
    ASSUME TypeOK, QueueInOrder, NEW kind, NEW r, GoLive(kind, r)
    PROVE  DeploymentIsLatest'
<1> DEFINE f == runs[r].feature
           before == InStatus({"installed"})
<1>1. /\ FeatureStep(f, "installed")
      /\ features[f].status = "delivering"
      /\ features'[f].sequence = features[f].sequence
      /\ r \in RunIds' /\ runs'[r].feature = f
  BY GoLiveIsFeatureStep
<1>2. deployment' = r
  BY DEF GoLive, DeploymentAfter
<1>3. features[f] \in Feature
  BY <1>1 DEF FeatureStep, TypeOK, FeatureIds
<1> HIDE DEF f
<1>4. InStatus({"installed"})' = before \cup {f} /\ \A g \in before : features'[g] = features[g]
  BY <1>1, InstalledAfter
<1>5. ASSUME NEW g \in before PROVE features[g].sequence < features[f].sequence
  BY <1>1, <1>5 DEF InStatus, QueueInOrder, FeatureStep
<1>6. ASSUME NEW g \in before PROVE features[g].sequence \in Nat
  <2>1. features[g] \in Feature
    BY <1>6 DEF before, InStatus, TypeOK, FeatureIds
  <2> QED BY <2>1 DEF Feature
<1> HIDE DEF before
<1>7. \A g \in before \cup {f} : features'[g].sequence <= features'[f].sequence
  BY <1>1, <1>3, <1>4, <1>5, <1>6 DEF Feature
<1> QED BY <1>1, <1>2, <1>4, <1>7 DEF DeploymentIsLatest

\* The Product is always launched where the latest installed Feature of its queue was
\* deployed, also when the run of an earlier engine was among them.
THEOREM DeploymentStaysLatest == Spec => []DeploymentIsLatest
<1>1. Init => DeploymentIsLatest
  <2> SUFFICES ASSUME Init PROVE DeploymentIsLatest
    OBVIOUS
  <2>1. InStatus({"installed"}) = {}
    BY DEF Init, InStatus, FeatureIds
  <2> QED BY <2>1 DEF Init, DeploymentIsLatest
<1>2. ASSUME LifecycleInvariant, DeploymentIsLatest, [Next]_vars PROVE DeploymentIsLatest'
  <2> USE DEF LifecycleInvariant
  <2>1. ASSUME UNCHANGED <<deployment, features>>,
               \A r \in RunIds : r \in RunIds' /\ runs'[r].feature = runs[r].feature
        PROVE  DeploymentIsLatest'
    <3>1. InStatus({"installed"})' = InStatus({"installed"})
      BY <2>1 DEF InStatus, FeatureIds
    <3> QED BY <1>2, <2>1, <3>1, DeploymentKept
  <2>2. ASSUME NEW f, DraftStep(f), deployment' = deployment PROVE DeploymentIsLatest'
    <3>1. InStatus({"installed"})' = InStatus({"installed"})
      BY <2>2 DEF InStatus, DraftStep
    <3>2. \A g \in InStatus({"installed"}) : features'[g].sequence = features[g].sequence
      BY <2>2 DEF InStatus, DraftStep
    <3> QED BY <1>2, <2>2, <3>1, <3>2, DeploymentKept DEF DraftStep, RunIds
  <2>3. CASE OtherStep
    BY <2>1, <2>3 DEF OtherStep, Delete, CanDelete, StartProductFrontend,
                    CompleteProductFrontend,
                      MoveEngineering, CanMoveEngineering, RunIds
  <2>4. ASSUME NEW kind, OpenFeatureDiscovery(kind) PROVE DeploymentIsLatest'
    BY <1>2, <2>2, <2>4, OpenIsDraftStep DEF OpenFeatureDiscovery, CanOpenDiscovery, product
  <2>5. ASSUME NEW kind, NEW f, NEW specification \in Specification,
               ReplaceFeatureDiscovery(kind, f, specification)
        PROVE  DeploymentIsLatest'
    BY <1>2, <2>2, <2>5, ReplaceIsDraftStep DEF ReplaceFeatureDiscovery, CanReplaceDiscovery,
                    product
  <2>6. ASSUME NEW kind, NEW f, NEW version, ConfirmFeature(kind, f, version)
        PROVE  DeploymentIsLatest'
    <3>1. FeatureStep(f, "confirmed") /\ features[f].status = "draft" /\ runs' = runs
      BY <1>2, <2>6, ConfirmIsFeatureStep
    <3>2. deployment' = deployment
      BY <2>6 DEF ConfirmFeature, CanConfirm, product
    <3> QED BY <1>2, <3>1, <3>2, InstalledAfter, DeploymentKept DEF RunIds
  <2>7. ASSUME NEW kind, NEW f, StartDelivery(kind, f) PROVE DeploymentIsLatest'
    <3>1. /\ FeatureStep(f, "delivering") /\ features[f].status = "confirmed"
          /\ \A r \in RunIds : r \in RunIds' /\ runs'[r] = runs[r]
      BY <1>2, <2>7, StartIsFeatureStep
    <3>2. deployment' = deployment
      BY <2>7 DEF StartDelivery, CanStartDelivery, product
    <3> QED BY <1>2, <3>1, <3>2, InstalledAfter, DeploymentKept
  <2>8. ASSUME NEW kind, NEW r, GoLive(kind, r) PROVE DeploymentIsLatest'
    BY <1>2, <2>8, GoLiveIsLatest
  <2>9. ASSUME NEW r, GetStuck(r) PROVE DeploymentIsLatest'
    <3>1. r \in RunIds /\ runs[r] \in DeliveryRun
      BY <1>2, <2>9 DEF GetStuck, TypeOK, RunIds
    <3>2. \A q \in RunIds : q \in RunIds' /\ runs'[q].feature = runs[q].feature
      BY <1>2, <2>9, <3>1 DEF GetStuck, RunIds, TypeOK, DeliveryRun
    <3> QED BY <2>1, <2>9, <3>2 DEF GetStuck, product
  <2>10. CASE UNCHANGED vars
    BY <2>1, <2>10 DEF vars, product, RunIds
  <2> QED BY <1>2, <2>3, <2>4, <2>5, <2>6, <2>7, <2>8, <2>9, <2>10
          DEF Next, ProductStep, DiscoveryStep, Start, EndRun, OtherStep
<1> QED BY <1>1, <1>2, LifecycleHolds, PTL DEF Spec

-----------------------------------------------------------------------------
(* The queue: what waits, is in delivery or is installed is in the order   *)
(* of its numbers, and every step is one of the abstract queue or none.    *)

\* Numbers m + 1 to n are given to the elements of fs, each to one.
Numbered(fs, number, m, n) ==
    /\ \A f \in fs : number[f] \in (m + 1)..n
    /\ \A k \in (m + 1)..n : \E f \in fs : number[f] = k
    /\ \A f, g \in fs : number[f] = number[g] => f = g

\* There are as many as there are numbers.
LEMMA NumberedCardinality ==
  ASSUME NEW fs, NEW number, NEW m \in Nat, NEW n \in Nat, m <= n, Numbered(fs, number, m, n)
  PROVE  IsFiniteSet(fs) /\ Cardinality(fs) = n - m
<1> DEFINE K == (m + 1)..n
           at == [k \in K |-> CHOOSE f \in fs : number[f] = k]
<1>1. \A k \in K : at[k] \in fs /\ number[at[k]] = k
  BY DEF Numbered
<1>2. at \in [K -> fs] /\ DOMAIN at = K
  BY <1>1
<1> HIDE DEF at
<1>3. at \in Injection(K, fs)
  BY <1>1, <1>2 DEF Injection, IsInjective
<1>4. at \in Surjection(K, fs)
  <2>1. \A f \in fs : number[f] \in K /\ at[number[f]] = f
    BY <1>1 DEF Numbered
  <2> QED BY <1>2, <2>1 DEF Surjection
<1>5. ExistsBijection(K, fs)
  BY <1>3, <1>4 DEF Bijection, ExistsBijection
<1>6. IsFiniteSet(K) /\ Cardinality(K) = n - m
  <2>1. m + 1 \in Int /\ n \in Int
    OBVIOUS
  <2>2. IsFiniteSet(K) /\ Cardinality(K) = IF m + 1 > n THEN 0 ELSE n - (m + 1) + 1
    BY <2>1, FS_Interval, Zenon
  <2>3. (IF m + 1 > n THEN 0 ELSE n - (m + 1) + 1) = n - m
    OBVIOUS
  <2> QED BY <2>2, <2>3
<1> HIDE DEF K
<1> QED BY <1>5, <1>6, FS_Bijection, Zenon

\* The sequence in the order of the numbers has its i-th element numbered m + i.
LEMMA OrderedPlaces ==
  ASSUME NEW fs, NEW number, NEW m \in Nat, NEW n \in Nat, m <= n, Numbered(fs, number, m, n)
  PROVE  /\ Ordered(fs, number) \in Seq(fs)
         /\ DOMAIN Ordered(fs, number) = 1..(n - m)
         /\ Len(Ordered(fs, number)) = n - m
         /\ \A i \in 1..(n - m) : /\ Ordered(fs, number)[i] \in fs
                                  /\ number[Ordered(fs, number)[i]] = m + i
<1> DEFINE before(f) == {g \in fs : number[g] < number[f]}
           q == Ordered(fs, number)
<1>1. n - m \in Nat /\ Cardinality(fs) = n - m
  BY NumberedCardinality
<1>2. ASSUME NEW f \in fs PROVE Cardinality(before(f)) = number[f] - 1 - m
  <2> DEFINE below == number[f] - 1
  <2>1. number[f] \in (m + 1)..n
    BY DEF Numbered
  <2>2. below \in Nat /\ m <= below
    BY <2>1
  <2>3. Numbered(before(f), number, m, below)
    <3>1. \A g \in before(f) : number[g] \in (m + 1)..below
      BY <2>1 DEF Numbered
    <3>2. \A k \in (m + 1)..below : \E g \in before(f) : number[g] = k
      BY <2>1 DEF Numbered
    <3>3. \A g, h \in before(f) : number[g] = number[h] => g = h
      BY DEF Numbered
    <3> QED BY <3>1, <3>2, <3>3 DEF Numbered
  <2> HIDE DEF before, below
  <2>4. Cardinality(before(f)) = below - m
    BY <2>2, <2>3, NumberedCardinality
  <2> QED BY <2>4 DEF below
<1>3. q = [i \in 1..(n - m) |-> CHOOSE f \in fs : Cardinality(before(f)) = i - 1]
  BY <1>1 DEF Ordered
<1> HIDE DEF before, q
<1>4. ASSUME NEW i \in 1..(n - m) PROVE q[i] \in fs /\ number[q[i]] = m + i
  <2>1. PICK f \in fs : number[f] = m + i
    <3>1. m + i \in (m + 1)..n
      OBVIOUS
    <3> QED BY <3>1 DEF Numbered
  <2>2. Cardinality(before(f)) = i - 1
    BY <1>2, <2>1
  <2>3. q[i] = CHOOSE g \in fs : Cardinality(before(g)) = i - 1
    BY <1>3
  <2>4. q[i] \in fs /\ Cardinality(before(q[i])) = i - 1
    BY <2>2, <2>3
  <2>5. number[q[i]] - 1 - m = i - 1 /\ number[q[i]] \in Nat
    BY <1>2, <2>4 DEF Numbered
  <2> QED BY <2>4, <2>5
<1>5. q \in Seq(fs) /\ DOMAIN q = 1..(n - m) /\ Len(q) = n - m
  <2>1. q \in [1..(n - m) -> fs]
    BY <1>3, <1>4
  <2> QED BY <1>1, <2>1
<1> QED BY <1>4, <1>5 DEF q

\* It is the only one.
LEMMA OrderedIs ==
  ASSUME NEW fs, NEW number, NEW m \in Nat, NEW n \in Nat, m <= n, Numbered(fs, number, m, n),
         NEW q \in Seq(fs), Len(q) = n - m, \A i \in 1..(n - m) : number[q[i]] = m + i
  PROVE  Ordered(fs, number) = q
<1> DEFINE o == Ordered(fs, number)
<1>1. /\ o \in Seq(fs) /\ Len(o) = n - m
      /\ \A i \in 1..(n - m) : o[i] \in fs /\ number[o[i]] = m + i
  BY OrderedPlaces
<1>2. \A i \in 1..(n - m) : q[i] \in fs
  OBVIOUS
<1> HIDE DEF o
<1>3. ASSUME NEW i \in 1..(n - m) PROVE o[i] = q[i]
  <2>1. o[i] \in fs /\ q[i] \in fs /\ number[o[i]] = number[q[i]]
    BY <1>1, <1>2
  <2> QED BY <2>1 DEF Numbered
<1>4. o = q
  BY <1>1, <1>3
<1> QED BY <1>4 DEF o

\* A sequence is one over any set that its elements are in.
LEMMA Elements ==
  ASSUME NEW S, NEW T, NEW q \in Seq(S), \A i \in 1..Len(q) : q[i] \in T
  PROVE  q \in Seq(T)
<1>1. q = [i \in 1..Len(q) |-> q[i]] /\ Len(q) \in Nat
  OBVIOUS
<1>2. q \in [1..Len(q) -> T]
  BY <1>1
<1> QED BY <1>1, <1>2

\* Only the numbers of the elements matter.
LEMMA OrderedSame ==
  ASSUME NEW fs, NEW number, NEW m \in Nat, NEW n \in Nat, m <= n, Numbered(fs, number, m, n),
         NEW other, \A f \in fs : other[f] = number[f]
  PROVE  Numbered(fs, other, m, n) /\ Ordered(fs, other) = Ordered(fs, number)
<1> DEFINE q == Ordered(fs, number)
<1>1. Numbered(fs, other, m, n)
  BY DEF Numbered
<1>2. /\ q \in Seq(fs) /\ Len(q) = n - m
      /\ \A i \in 1..(n - m) : q[i] \in fs /\ number[q[i]] = m + i
  BY OrderedPlaces
<1> HIDE DEF q
<1>3. \A i \in 1..(n - m) : other[q[i]] = m + i
  BY <1>2
<1>4. Ordered(fs, other) = q
  BY <1>1, <1>2, <1>3, OrderedIs
<1> QED BY <1>1, <1>4 DEF q

\* Nothing in order.
LEMMA OrderedNone == ASSUME NEW number PROVE Ordered({}, number) = << >>
<1> DEFINE q == Ordered({}, number)
<1>1. 0 \in Nat /\ 0 <= 0 /\ Numbered({}, number, 0, 0)
  BY DEF Numbered
<1>2. q \in Seq({}) /\ Len(q) = 0 - 0
  BY <1>1, OrderedPlaces
<1> HIDE DEF q
<1>3. q = << >>
  BY <1>2
<1> QED BY <1>3 DEF q

\* One element in order.
LEMMA OrderedOne ==
  ASSUME NEW f, NEW number, number[f] \in Nat \ {0}
  PROVE  Ordered({f}, number) = <<f>>
<1> DEFINE m == number[f] - 1
           n == number[f]
<1>1. m \in Nat /\ n \in Nat /\ m <= n /\ n - m = 1
  OBVIOUS
<1>2. Numbered({f}, number, m, n)
  BY <1>1 DEF Numbered
<1>3. <<f>> \in Seq({f}) /\ Len(<<f>>) = n - m /\ \A i \in 1..(n - m) : number[<<f>>[i]] = m + i
  BY <1>1
<1> HIDE DEF m, n
<1> QED BY <1>1, <1>2, <1>3, OrderedIs

\* In other, f has the number after n and all else the number it has.
NumberedNext(fs, number, n, f, other) ==
    f \notin fs /\ other[f] = n + 1 /\ \A g \in fs : other[g] = number[g]

\* With f the numbers reach to n + 1, and f is the last in order.
NumberedAppended(fs, number, m, n, f, other) ==
    /\ Numbered(fs \cup {f}, other, m, n + 1)
    /\ Ordered(fs \cup {f}, other) = Append(Ordered(fs, number), f)

\* An element with the next number comes last.
LEMMA OrderedLast ==
  ASSUME NEW fs, NEW number, NEW m \in Nat, NEW n \in Nat, m <= n, Numbered(fs, number, m, n),
         NEW f, NEW other, NumberedNext(fs, number, n, f, other)
  PROVE  NumberedAppended(fs, number, m, n, f, other)
<1> USE DEF NumberedNext
<1> DEFINE o == Ordered(fs, number)
           q == Append(o, f)
<1>1. /\ o \in Seq(fs) /\ Len(o) = n - m
      /\ \A i \in 1..(n - m) : o[i] \in fs /\ number[o[i]] = m + i
  BY OrderedPlaces
<1> HIDE DEF o
<1>2. Numbered(fs \cup {f}, other, m, n + 1)
  <2>1. \A g \in fs : other[g] \in (m + 1)..n
    BY DEF Numbered
  <2>2. \A k \in (m + 1)..n : \E g \in fs : other[g] = k
    BY DEF Numbered
  <2>3. \A g, h \in fs : other[g] = other[h] => g = h
    BY DEF Numbered
  <2>4. \A k \in (m + 1)..(n + 1) : k = n + 1 \/ k \in (m + 1)..n
    OBVIOUS
  <2>5. \A k \in (m + 1)..(n + 1) : \E g \in fs \cup {f} : other[g] = k
    BY <2>2, <2>4
  <2>6. \A g \in fs \cup {f} : other[g] \in (m + 1)..(n + 1)
    BY <2>1
  <2>7. \A g, h \in fs \cup {f} : other[g] = other[h] => g = h
    BY <2>1, <2>3
  <2> QED BY <2>5, <2>6, <2>7 DEF Numbered
<1>3. q \in Seq(fs \cup {f}) /\ Len(q) = (n + 1) - m /\ q[(n + 1) - m] = f
      /\ \A i \in 1..(n - m) : q[i] = o[i]
  BY <1>1
<1>4. \A i \in 1..((n + 1) - m) : other[q[i]] = m + i
  <2> SUFFICES ASSUME NEW i \in 1..((n + 1) - m) PROVE other[q[i]] = m + i
    OBVIOUS
  <2>1. CASE i = (n + 1) - m
    <3>1. q[i] = f
      BY <1>3, <2>1
    <3>2. m + i = n + 1
      BY <2>1
    <3> QED BY <3>1, <3>2
  <2>2. CASE i \in 1..(n - m)
    <3>1. q[i] = o[i] /\ o[i] \in fs /\ number[o[i]] = m + i
      BY <1>1, <1>3, <2>2
    <3> QED BY <3>1
  <2>3. i = (n + 1) - m \/ i \in 1..(n - m)
    OBVIOUS
  <2> QED BY <2>1, <2>2, <2>3
<1> HIDE DEF q
<1>5. n + 1 \in Nat /\ m <= n + 1
  OBVIOUS
<1>6. Ordered(fs \cup {f}, other) = q
  BY <1>2, <1>3, <1>4, <1>5, OrderedIs
<1> QED BY <1>2, <1>6 DEF q, o, NumberedAppended

\* Without the element of the lowest number the rest moves up.
LEMMA OrderedRest ==
  ASSUME NEW fs, NEW number, NEW m \in Nat, NEW n \in Nat, m < n, Numbered(fs, number, m, n),
         NEW f \in fs, number[f] = m + 1
  PROVE  /\ Ordered(fs, number) # << >>
         /\ Head(Ordered(fs, number)) = f
         /\ Numbered(fs \ {f}, number, m + 1, n)
         /\ Ordered(fs \ {f}, number) = Tail(Ordered(fs, number))
<1> DEFINE o == Ordered(fs, number)
           q == Tail(o)
<1>1. /\ o \in Seq(fs) /\ Len(o) = n - m
      /\ \A i \in 1..(n - m) : o[i] \in fs /\ number[o[i]] = m + i
  BY OrderedPlaces
<1> HIDE DEF o
<1>2. 1 \in 1..(n - m) /\ o # << >> /\ Head(o) = o[1]
  BY <1>1
<1>3. Head(o) = f
  BY <1>1, <1>2 DEF Numbered
<1>4. Numbered(fs \ {f}, number, m + 1, n)
  <2>1. \A g \in fs \ {f} : number[g] \in (m + 1 + 1)..n
    <3> SUFFICES ASSUME NEW g \in fs \ {f} PROVE number[g] \in (m + 1 + 1)..n
      OBVIOUS
    <3>1. number[g] \in (m + 1)..n /\ number[g] # number[f]
      BY DEF Numbered
    <3> QED BY <3>1
  <2>2. \A k \in (m + 1 + 1)..n : \E g \in fs \ {f} : number[g] = k
    <3> SUFFICES ASSUME NEW k \in (m + 1 + 1)..n PROVE \E g \in fs \ {f} : number[g] = k
      OBVIOUS
    <3>1. k \in (m + 1)..n /\ k # m + 1
      OBVIOUS
    <3> QED BY <3>1 DEF Numbered
  <2> QED BY <2>1, <2>2 DEF Numbered
<1>5. /\ q \in Seq(fs) /\ Len(q) = n - (m + 1)
      /\ \A i \in 1..(n - (m + 1)) : q[i] = o[i + 1] /\ i + 1 \in 1..(n - m)
  BY <1>1, <1>2
<1>6. \A i \in 1..(n - (m + 1)) : number[q[i]] = (m + 1) + i /\ q[i] \in fs \ {f}
  <2> SUFFICES ASSUME NEW i \in 1..(n - (m + 1))
               PROVE  number[q[i]] = (m + 1) + i /\ q[i] \in fs \ {f}
    OBVIOUS
  <2>1. q[i] \in fs /\ number[q[i]] = m + (i + 1)
    BY <1>1, <1>5
  <2>2. m + (i + 1) = (m + 1) + i /\ (m + 1) + i # m + 1
    OBVIOUS
  <2>3. q[i] # f
    BY <2>1, <2>2
  <2> QED BY <2>1, <2>2, <2>3
<1>7. q \in Seq(fs \ {f})
  <2>1. \A i \in 1..Len(q) : q[i] \in fs \ {f}
    BY <1>5, <1>6
  <2> QED BY <1>5, <2>1, Elements
<1> HIDE DEF q
<1>8. m + 1 \in Nat /\ m + 1 <= n
  OBVIOUS
<1>9. Ordered(fs \ {f}, number) = q
  BY <1>4, <1>5, <1>6, <1>7, <1>8, OrderedIs
<1> QED BY <1>2, <1>3, <1>4, <1>9 DEF q, o

-----------------------------------------------------------------------------
\* The queue is numbered without a gap, and cut in three: what is installed, what is in
\* delivery and what waits.
Number == [f \in FeatureIds |-> features[f].sequence]
Cut(i, d, w) ==
    /\ i \in Nat /\ d \in Nat /\ w \in Nat /\ i <= d /\ d <= w
    /\ d = i \/ d = i + 1
    /\ Numbered(InStatus({"installed"}), Number, 0, i)
    /\ Numbered(InStatus({"delivering"}), Number, i, d)
    /\ Numbered(InStatus({"confirmed"}), Number, d, w)
    /\ \A f \in FeatureIds : features[f].status = "draft" => features[f].sequence = 0
QueueCut == \E i, d, w : Cut(i, d, w)

\* A Feature is in one of four statuses.
LEMMA StatusOf ==
  ASSUME TypeOK, NEW f \in FeatureIds
  PROVE  features[f].status \in {"draft", "confirmed", "delivering", "installed"}
<1>1. features[f] \in Feature
  BY DEF TypeOK, FeatureIds
<1> QED BY <1>1 DEF Feature, FeatureStatus

\* The next number is the one after the last that waits.
LEMMA NextIsLast ==
  ASSUME TypeOK, NEW i, NEW d, NEW w, Cut(i, d, w)
  PROVE  NextDeliverySequence = w + 1
<1>1. SequencesGiven = 0..w
  <2>1. \A f \in FeatureIds : features[f].sequence \in 0..w
    <3> SUFFICES ASSUME NEW f \in FeatureIds PROVE features[f].sequence \in 0..w
      OBVIOUS
    <3>1. Number[f] = features[f].sequence
      BY DEF Number
    <3>2. CASE features[f].status = "draft"
      BY <3>2 DEF Cut
    <3>3. CASE features[f].status = "confirmed"
      BY <3>1, <3>3 DEF Cut, Numbered, InStatus
    <3>4. CASE features[f].status = "delivering"
      BY <3>1, <3>4 DEF Cut, Numbered, InStatus
    <3>5. CASE features[f].status = "installed"
      BY <3>1, <3>5 DEF Cut, Numbered, InStatus
    <3> QED BY <3>2, <3>3, <3>4, <3>5, StatusOf
  <2>2. \A k \in 1..w : \E f \in FeatureIds : features[f].sequence = k
    <3> SUFFICES ASSUME NEW k \in 1..w PROVE \E f \in FeatureIds : features[f].sequence = k
      OBVIOUS
    <3>1. \/ k \in (0 + 1)..i \/ k \in (i + 1)..d \/ k \in (d + 1)..w
      BY DEF Cut
    <3>2. \E f \in FeatureIds : Number[f] = k
      BY <3>1 DEF Cut, Numbered, InStatus
    <3> QED BY <3>2 DEF Number
  <2>3. 0..w = {0} \cup 1..w
    BY DEF Cut
  <2> QED BY <2>1, <2>2, <2>3 DEF SequencesGiven
<1>2. HighestSequence = w
  BY <1>1, MaxOf DEF HighestSequence, Cut
<1> QED BY <1>2 DEF NextDeliverySequence

\* A step that moves no Feature through the queue leaves its cut and its sequences.
LEMMA QueueStays ==
  ASSUME QueueCut,
         \A s \in {"confirmed", "delivering", "installed"} :
            /\ InStatus({s})' = InStatus({s})
            /\ \A f \in InStatus({s}) : features'[f].sequence = features[f].sequence,
         FeatureIds \subseteq FeatureIds',
         \A f \in FeatureIds' : features'[f].status = "draft" => features'[f].sequence = 0
  PROVE  QueueCut' /\ UNCHANGED Promise!vars
<1>1. PICK i, d, w : Cut(i, d, w)
  BY DEF QueueCut
<1>2. ASSUME NEW s \in {"confirmed", "delivering", "installed"}, NEW m \in Nat, NEW n \in Nat,
             m <= n, Numbered(InStatus({s}), Number, m, n)
      PROVE  Numbered(InStatus({s}), Number, m, n)' /\ InOrder({s})' = InOrder({s})
  <2>1. \A f \in InStatus({s}) : Number'[f] = Number[f]
    BY <1>2 DEF InStatus, Number
  <2>2. /\ Numbered(InStatus({s}), Number', m, n)
        /\ Ordered(InStatus({s}), Number') = Ordered(InStatus({s}), Number)
    BY <1>2, <2>1, OrderedSame
  <2>3. InStatus({s})' = InStatus({s})
    BY <1>2
  <2>4. InOrder({s}) = Ordered(InStatus({s}), Number)
        /\ InOrder({s})' = Ordered(InStatus({s})', Number')
    BY DEF InOrder, Number
  <2>5. InOrder({s})' = InOrder({s})
    BY <2>2, <2>3, <2>4
  <2>6. Numbered(InStatus({s}), Number, m, n)'
    <3>1. Numbered(InStatus({s})', Number', m, n)
      BY <2>2, <2>3
    <3> QED BY <3>1
  <2> QED BY <2>5, <2>6
<1>3. /\ Cut(i, d, w)'
      /\ InOrder({"confirmed"})' = InOrder({"confirmed"})
      /\ InOrder({"delivering"})' = InOrder({"delivering"})
      /\ InOrder({"installed"})' = InOrder({"installed"})
  <2>1. Numbered(InStatus({"installed"}), Number, 0, i)' /\ InOrder({"installed"})' = InOrder({"installed"})
    BY <1>1, <1>2 DEF Cut
  <2>2. Numbered(InStatus({"delivering"}), Number, i, d)' /\ InOrder({"delivering"})' = InOrder({"delivering"})
    BY <1>1, <1>2 DEF Cut
  <2>3. Numbered(InStatus({"confirmed"}), Number, d, w)' /\ InOrder({"confirmed"})' = InOrder({"confirmed"})
    BY <1>1, <1>2 DEF Cut
  <2> QED BY <1>1, <2>1, <2>2, <2>3 DEF Cut
<1> QED BY <1>3 DEF QueueCut, Promise!vars

\* The Features of a status after a step that moves one of them on.
LEMMA MovedOn ==
  ASSUME NEW f, NEW to, FeatureStep(f, to)
  PROVE  /\ to # "confirmed" => InStatus({"confirmed"})' = InStatus({"confirmed"}) \ {f}
         /\ to # "delivering" => InStatus({"delivering"})' = InStatus({"delivering"}) \ {f}
         /\ to # "installed" => InStatus({"installed"})' = InStatus({"installed"}) \ {f}
         /\ to = "confirmed" => InStatus({"confirmed"})' = InStatus({"confirmed"}) \cup {f}
         /\ to = "delivering" => InStatus({"delivering"})' = InStatus({"delivering"}) \cup {f}
         /\ to = "installed" => InStatus({"installed"})' = InStatus({"installed"}) \cup {f}
         /\ f \in InStatus({"confirmed"}) <=> features[f].status = "confirmed"
         /\ f \in InStatus({"delivering"}) <=> features[f].status = "delivering"
         /\ f \in InStatus({"installed"}) <=> features[f].status = "installed"
<1>1. f \in FeatureIds /\ FeatureIds' = FeatureIds /\ features'[f].status = to
      /\ \A g \in FeatureIds : g # f => features'[g] = features[g]
  BY DEF FeatureStep
<1> QED BY <1>1 DEF InStatus

\* Only the one that is moved may get another number.
LEMMA OthersNumbers ==
  ASSUME NEW f, NEW to, FeatureStep(f, to)
  PROVE  \A g \in FeatureIds : g # f => Number'[g] = Number[g]
BY DEF FeatureStep, Number

\* The one that is moved gets the number written to it.
LEMMA MovedNumber ==
  ASSUME NEW f, NEW to, FeatureStep(f, to)
  PROVE  Number[f] = features[f].sequence /\ Number'[f] = features'[f].sequence
BY DEF FeatureStep, Number

\* A confirmation appends to what waits (ConfirmFeature).
LEMMA ConfirmInQueue ==
  ASSUME TypeOK, QueueCut, NEW kind, NEW f \in 1..MaxFeatures, NEW version,
         ConfirmFeature(kind, f, version)
  PROVE  QueueCut' /\ Promise!Next
<1> DEFINE fs == InStatus({"confirmed"})
<1>1. PICK i, d, w : Cut(i, d, w)
  BY DEF QueueCut
<1>2. FeatureStep(f, "confirmed") /\ features[f].status = "draft" /\ features'[f].sequence = w + 1
  BY <1>1, ConfirmIsFeatureStep, NextIsLast
<1>3. /\ f \notin InStatus({"confirmed"}) /\ InStatus({"confirmed"})' = InStatus({"confirmed"}) \cup {f}
      /\ f \notin InStatus({"delivering"}) /\ InStatus({"delivering"})' = InStatus({"delivering"})
      /\ f \notin InStatus({"installed"}) /\ InStatus({"installed"})' = InStatus({"installed"})
      /\ Number'[f] = w + 1
  <2>1. Number'[f] = w + 1
    BY <1>2, MovedNumber
  <2>2. f \notin InStatus({"confirmed"}) /\ InStatus({"confirmed"})' = InStatus({"confirmed"}) \cup {f}
    BY <1>2, MovedOn
  <2>3. f \notin InStatus({"delivering"}) /\ InStatus({"delivering"})' = InStatus({"delivering"}) \ {f}
    BY <1>2, MovedOn
  <2>4. f \notin InStatus({"installed"}) /\ InStatus({"installed"})' = InStatus({"installed"}) \ {f}
    BY <1>2, MovedOn
  <2> QED BY <2>1, <2>2, <2>3, <2>4
<1>4. \A s : \A g \in InStatus({s}) : g # f => Number'[g] = Number[g]
  BY <1>2, OthersNumbers DEF InStatus
<1>5. /\ d \in Nat /\ w \in Nat /\ i \in Nat /\ i <= d /\ d <= w /\ 0 <= i
      /\ Numbered(InStatus({"installed"}), Number, 0, i)
      /\ Numbered(InStatus({"delivering"}), Number, i, d)
      /\ Numbered(InStatus({"confirmed"}), Number, d, w)
  BY <1>1 DEF Cut
<1>6. /\ Numbered(fs \cup {f}, Number', d, w + 1)
      /\ Ordered(fs \cup {f}, Number') = Append(Ordered(fs, Number), f)
  <2>1. \A g \in fs : Number'[g] = Number[g]
    BY <1>3, <1>4
  <2>2. d \in Nat
    BY <1>5
  <2>3. w \in Nat
    BY <1>5
  <2>4. d <= w
    BY <1>5
  <2>5. Numbered(fs, Number, d, w)
    BY <1>5
  <2>6. NumberedNext(fs, Number, w, f, Number')
    BY <1>3, <2>1 DEF NumberedNext
  <2> HIDE DEF fs
  <2>7. NumberedAppended(fs, Number, d, w, f, Number')
    BY <2>2, <2>3, <2>4, <2>5, <2>6, OrderedLast
  <2> QED BY <2>7 DEF NumberedAppended
<1>7. /\ Numbered(InStatus({"delivering"}), Number', i, d)
      /\ Ordered(InStatus({"delivering"}), Number') = Ordered(InStatus({"delivering"}), Number)
  <2>1. \A g \in InStatus({"delivering"}) : Number'[g] = Number[g]
    BY <1>3, <1>4
  <2> QED BY <1>5, <2>1, OrderedSame
<1>8. /\ Numbered(InStatus({"installed"}), Number', 0, i)
      /\ Ordered(InStatus({"installed"}), Number') = Ordered(InStatus({"installed"}), Number)
  <2>1. \A g \in InStatus({"installed"}) : Number'[g] = Number[g]
    BY <1>3, <1>4
  <2> QED BY <1>5, <2>1, OrderedSame
<1>9. /\ InOrder({"confirmed"})' = Append(InOrder({"confirmed"}), f)
      /\ InOrder({"delivering"})' = InOrder({"delivering"})
      /\ InOrder({"installed"})' = InOrder({"installed"})
  BY <1>3, <1>6, <1>7, <1>8 DEF InOrder, Number
<1>10. Cut(i, d, w + 1)'
  <2>1. Numbered(InStatus({"installed"})', Number', 0, i)
        /\ Numbered(InStatus({"delivering"})', Number', i, d)
        /\ Numbered(InStatus({"confirmed"})', Number', d, w + 1)
    BY <1>3, <1>6, <1>7, <1>8
  <2>2. \A g \in FeatureIds' : features'[g].status = "draft" => features'[g].sequence = 0
    BY <1>1, <1>2 DEF FeatureStep, Cut
  <2>3. w + 1 \in Nat /\ d <= w + 1
    BY <1>5
  <2> QED BY <1>1, <2>1, <2>2, <2>3 DEF Cut
<1>11. ~Promise!Known(f)
  <2>1. \A j \in DOMAIN InOrder({"confirmed"}) : InOrder({"confirmed"})[j] \in InStatus({"confirmed"})
    BY <1>5, OrderedPlaces DEF InOrder, Number
  <2>2. \A j \in DOMAIN InOrder({"delivering"}) : InOrder({"delivering"})[j] \in InStatus({"delivering"})
    BY <1>5, OrderedPlaces DEF InOrder, Number
  <2>3. \A j \in DOMAIN InOrder({"installed"}) : InOrder({"installed"})[j] \in InStatus({"installed"})
    <3>1. 0 \in Nat
      OBVIOUS
    <3> QED BY <1>5, <3>1, OrderedPlaces DEF InOrder, Number
  <2> QED BY <1>3, <2>1, <2>2, <2>3 DEF Promise!Known
<1>12. Promise!Confirm(f)
  BY <1>9, <1>11 DEF Promise!Confirm
<1> QED BY <1>10, <1>12 DEF QueueCut, Promise!Next

\* A start takes the first that waits into delivery (StartDelivery).
LEMMA StartInQueue ==
  ASSUME TypeOK, QueueCut, NEW kind, NEW f, StartDelivery(kind, f)
  PROVE  QueueCut' /\ Promise!Next
<1> DEFINE fs == InStatus({"confirmed"})
<1>1. PICK i, d, w : Cut(i, d, w)
  BY DEF QueueCut
<1>2. /\ FeatureStep(f, "delivering") /\ features[f].status = "confirmed"
      /\ features'[f].sequence = features[f].sequence
      /\ \A g \in FeatureIds : features[g].status # "delivering"
      /\ \A g \in FeatureIds : features[g].status = "confirmed" /\ features[g].sequence # 0 =>
             features[f].sequence <= features[g].sequence
  BY StartIsFeatureStep
<1>3. /\ f \in fs /\ InStatus({"confirmed"})' = fs \ {f}
      /\ InStatus({"delivering"})' = InStatus({"delivering"}) \cup {f}
      /\ f \notin InStatus({"installed"}) /\ InStatus({"installed"})' = InStatus({"installed"})
      /\ Number'[f] = Number[f] /\ Number[f] = features[f].sequence
  <2>1. Number'[f] = Number[f] /\ Number[f] = features[f].sequence
    BY <1>2, MovedNumber
  <2>2. f \in fs /\ InStatus({"confirmed"})' = fs \ {f}
    BY <1>2, MovedOn
  <2>3. InStatus({"delivering"})' = InStatus({"delivering"}) \cup {f}
    BY <1>2, MovedOn
  <2>4. f \notin InStatus({"installed"}) /\ InStatus({"installed"})' = InStatus({"installed"}) \ {f}
    BY <1>2, MovedOn
  <2> QED BY <2>1, <2>2, <2>3, <2>4
<1>4. \A s : \A g \in InStatus({s}) : Number'[g] = Number[g]
  <2>1. \A s : \A g \in InStatus({s}) : g # f => Number'[g] = Number[g]
    BY <1>2, OthersNumbers DEF InStatus
  <2> QED BY <1>3, <2>1
<1>5. /\ d \in Nat /\ w \in Nat /\ i \in Nat /\ i <= d /\ d <= w /\ 0 <= i
      /\ Numbered(InStatus({"installed"}), Number, 0, i)
      /\ Numbered(InStatus({"delivering"}), Number, i, d)
      /\ Numbered(fs, Number, d, w)
  BY <1>1 DEF Cut
<1>6. InStatus({"delivering"}) = {}
  BY <1>2 DEF InStatus
<1>7. d = i
  <2>1. d = i + 1 => d \in (i + 1)..d
    BY <1>5
  <2> QED BY <1>1, <1>5, <1>6, <2>1 DEF Cut, Numbered
<1>8. Number[f] = d + 1 /\ d < w
  <2>1. Number[f] \in (d + 1)..w
    BY <1>3, <1>5 DEF Numbered
  <2>2. d + 1 \in (d + 1)..w
    BY <1>5, <2>1
  <2>3. PICK g \in fs : Number[g] = d + 1
    BY <1>5, <2>2 DEF Numbered
  <2>4. features[g].sequence = d + 1 /\ features[g].status = "confirmed" /\ g \in FeatureIds
    BY <2>3 DEF InStatus, Number
  <2>5. features[f].sequence <= features[g].sequence
    BY <1>2, <1>5, <2>4
  <2> QED BY <1>3, <1>5, <2>1, <2>4, <2>5
<1> HIDE DEF fs
<1>9. /\ Ordered(fs, Number) # << >> /\ Head(Ordered(fs, Number)) = f
      /\ Numbered(fs \ {f}, Number, d + 1, w)
      /\ Ordered(fs \ {f}, Number) = Tail(Ordered(fs, Number))
  <2>1. d \in Nat
    BY <1>5
  <2>2. w \in Nat
    BY <1>5
  <2>3. d < w
    BY <1>8
  <2>4. Numbered(fs, Number, d, w)
    BY <1>5
  <2>5. f \in fs
    BY <1>3
  <2>6. Number[f] = d + 1
    BY <1>8
  <2> QED BY <2>1, <2>2, <2>3, <2>4, <2>5, <2>6, OrderedRest, ZenonT(60)
<1>10. /\ Numbered(fs \ {f}, Number', d + 1, w)
       /\ Ordered(fs \ {f}, Number') = Tail(Ordered(fs, Number))
  <2>1. \A g \in fs \ {f} : Number'[g] = Number[g]
    BY <1>4 DEF fs
  <2>2. d + 1 \in Nat
    BY <1>5
  <2>3. d + 1 <= w
    BY <1>5, <1>8
  <2>4. w \in Nat
    BY <1>5
  <2>5. Numbered(fs \ {f}, Number, d + 1, w)
    BY <1>9
  <2>6. /\ Numbered(fs \ {f}, Number', d + 1, w)
        /\ Ordered(fs \ {f}, Number') = Ordered(fs \ {f}, Number)
    BY <2>1, <2>2, <2>3, <2>4, <2>5, OrderedSame, ZenonT(60)
  <2> QED BY <1>9, <2>6
<1>11. /\ Numbered(InStatus({"installed"}), Number', 0, i)
       /\ Ordered(InStatus({"installed"}), Number') = Ordered(InStatus({"installed"}), Number)
  BY <1>4, <1>5, OrderedSame
<1>12. InStatus({"delivering"})' = {f}
  BY <1>3, <1>6
<1>13. /\ Ordered({f}, Number') = <<f>> /\ Numbered({f}, Number', d, d + 1)
       /\ Ordered({}, Number) = << >>
  <2>1. Number'[f] = d + 1 /\ d + 1 \in Nat \ {0}
    BY <1>3, <1>5, <1>8
  <2> QED BY <1>5, <2>1, OrderedOne, OrderedNone DEF Numbered
<1>14. /\ InOrder({"confirmed"}) # << >> /\ Head(InOrder({"confirmed"})) = f
       /\ InOrder({"confirmed"})' = Tail(InOrder({"confirmed"}))
       /\ InOrder({"delivering"}) = << >> /\ InOrder({"delivering"})' = <<f>>
       /\ InOrder({"installed"})' = InOrder({"installed"})
  BY <1>3, <1>6, <1>9, <1>10, <1>11, <1>12, <1>13 DEF InOrder, Number, fs
<1>15. Cut(i, d + 1, w)'
  <2>1. Numbered(InStatus({"installed"})', Number', 0, i)
        /\ Numbered(InStatus({"delivering"})', Number', i, d + 1)
        /\ Numbered(InStatus({"confirmed"})', Number', d + 1, w)
    BY <1>3, <1>7, <1>10, <1>11, <1>12, <1>13
  <2>2. \A g \in FeatureIds' : features'[g].status = "draft" => features'[g].sequence = 0
    BY <1>1, <1>2 DEF FeatureStep, Cut
  <2>3. d + 1 \in Nat /\ i <= d + 1 /\ d + 1 <= w /\ d + 1 = i + 1
    BY <1>5, <1>7, <1>8
  <2> QED BY <1>1, <2>1, <2>2, <2>3 DEF Cut
<1>16. Promise!Start
  BY <1>14 DEF Promise!Start
<1> QED BY <1>15, <1>16 DEF QueueCut, Promise!Next

\* An installation appends what is in delivery to what is installed (GoLive).
LEMMA InstallInQueue ==
  ASSUME TypeOK, QueueCut, NEW kind, NEW r, GoLive(kind, r)
  PROVE  QueueCut' /\ Promise!Next
<1> DEFINE f == runs[r].feature
           fs == InStatus({"installed"})
<1>1. PICK i, d, w : Cut(i, d, w)
  BY DEF QueueCut
<1>2. /\ FeatureStep(f, "installed") /\ features[f].status = "delivering"
      /\ features'[f].sequence = features[f].sequence
  BY GoLiveIsFeatureStep
<1> HIDE DEF f
<1>3. /\ f \in InStatus({"delivering"}) /\ InStatus({"delivering"})' = InStatus({"delivering"}) \ {f}
      /\ f \notin fs /\ InStatus({"installed"})' = fs \cup {f}
      /\ f \notin InStatus({"confirmed"}) /\ InStatus({"confirmed"})' = InStatus({"confirmed"})
      /\ Number'[f] = Number[f]
  <2>1. Number'[f] = Number[f]
    BY <1>2, MovedNumber
  <2>2. f \notin fs /\ InStatus({"installed"})' = fs \cup {f}
    BY <1>2, MovedOn
  <2>3. f \in InStatus({"delivering"}) /\ InStatus({"delivering"})' = InStatus({"delivering"}) \ {f}
    BY <1>2, MovedOn
  <2>4. f \notin InStatus({"confirmed"}) /\ InStatus({"confirmed"})' = InStatus({"confirmed"}) \ {f}
    BY <1>2, MovedOn
  <2> QED BY <2>1, <2>2, <2>3, <2>4
<1>4. \A s : \A g \in InStatus({s}) : Number'[g] = Number[g]
  <2>1. \A s : \A g \in InStatus({s}) : g # f => Number'[g] = Number[g]
    BY <1>2, OthersNumbers DEF InStatus
  <2> QED BY <1>3, <2>1
<1>5. /\ d \in Nat /\ w \in Nat /\ i \in Nat /\ i <= d /\ d <= w /\ 0 <= i
      /\ Numbered(fs, Number, 0, i)
      /\ Numbered(InStatus({"delivering"}), Number, i, d)
      /\ Numbered(InStatus({"confirmed"}), Number, d, w)
  BY <1>1 DEF Cut
<1>6. d = i + 1 /\ Number[f] = i + 1
  <2>1. Number[f] \in (i + 1)..d
    BY <1>3, <1>5 DEF Numbered
  <2> QED BY <1>1, <1>5, <2>1 DEF Cut
<1>7. InStatus({"delivering"}) = {f}
  <2> SUFFICES ASSUME NEW g \in InStatus({"delivering"}) PROVE g = f
    BY <1>3
  <2>1. Number[g] \in (i + 1)..d
    BY <1>5 DEF Numbered
  <2>2. Number[g] = Number[f]
    BY <1>5, <1>6, <2>1
  <2> QED BY <1>3, <1>5, <2>2 DEF Numbered
<1> HIDE DEF fs
<1>8. /\ Numbered(fs \cup {f}, Number', 0, i + 1)
      /\ Ordered(fs \cup {f}, Number') = Append(Ordered(fs, Number), f)
  <2>1. \A g \in fs : Number'[g] = Number[g]
    BY <1>4 DEF fs
  <2>2. Number'[f] = i + 1
    BY <1>3, <1>6
  <2>3. 0 \in Nat
    OBVIOUS
  <2>4. i \in Nat
    BY <1>5
  <2>5. 0 <= i
    BY <1>5
  <2>6. Numbered(fs, Number, 0, i)
    BY <1>5
  <2>7. NumberedNext(fs, Number, i, f, Number')
    BY <1>3, <2>1, <2>2 DEF NumberedNext
  <2>8. NumberedAppended(fs, Number, 0, i, f, Number')
    BY <2>3, <2>4, <2>5, <2>6, <2>7, OrderedLast
  <2> QED BY <2>8 DEF NumberedAppended
<1>9. /\ Numbered(InStatus({"confirmed"}), Number', d, w)
      /\ Ordered(InStatus({"confirmed"}), Number') = Ordered(InStatus({"confirmed"}), Number)
  BY <1>4, <1>5, OrderedSame
<1>10. /\ Ordered({f}, Number) = <<f>> /\ Ordered({}, Number') = << >>
       /\ Numbered({}, Number', d, d)
  <2>1. Number[f] \in Nat \ {0}
    BY <1>5, <1>6
  <2>2. Ordered({f}, Number) = <<f>>
    BY <2>1, OrderedOne
  <2>3. Numbered({}, Number', d, d)
    BY <1>5 DEF Numbered
  <2>4. Ordered({}, Number') = << >>
    BY OrderedNone
  <2> QED BY <2>2, <2>3, <2>4
<1>11. InStatus({"delivering"})' = {}
  BY <1>3, <1>7
<1>12. /\ InOrder({"delivering"}) = <<f>> /\ InOrder({"delivering"})' = << >>
       /\ InOrder({"installed"})' = Append(InOrder({"installed"}), f)
       /\ InOrder({"confirmed"})' = InOrder({"confirmed"})
  BY <1>3, <1>7, <1>8, <1>9, <1>10, <1>11 DEF InOrder, Number, fs
<1>13. InOrder({"installed"}) \in Seq(fs)
  <2>1. 0 \in Nat
    OBVIOUS
  <2> QED BY <1>5, <2>1, OrderedPlaces DEF InOrder, Number, fs
<1>14. Append(InOrder({"installed"}), f) = InOrder({"installed"}) \o <<f>>
  BY <1>13
<1>15. Cut(i + 1, d, w)'
  <2>1. Numbered(InStatus({"installed"})', Number', 0, i + 1)
        /\ Numbered(InStatus({"delivering"})', Number', i + 1, d)
        /\ Numbered(InStatus({"confirmed"})', Number', d, w)
    BY <1>3, <1>6, <1>8, <1>9, <1>10, <1>11
  <2>2. \A g \in FeatureIds' : features'[g].status = "draft" => features'[g].sequence = 0
    BY <1>1, <1>2 DEF FeatureStep, Cut
  <2>3. i + 1 \in Nat /\ i + 1 <= d /\ d = i + 1
    BY <1>5, <1>6
  <2> QED BY <1>1, <2>1, <2>2, <2>3 DEF Cut
<1>16. Promise!Install
  <2>1. <<f>> # << >>
    OBVIOUS
  <2> QED BY <1>12, <1>14, <2>1 DEF Promise!Install
<1> QED BY <1>15, <1>16 DEF QueueCut, Promise!Next

\* A Product as created, or one whose first Feature the run of the older engine delivers.
LEMMA InitInQueue ==
  ASSUME ProductAssumption, Init
  PROVE  QueueCut /\ Promise!Init
<1>1. CASE features = << >>
  <2>1. FeatureIds = {} /\ \A s : InStatus({s}) = {}
    BY <1>1 DEF FeatureIds, InStatus
  <2>2. Cut(0, 0, 0)
    BY <2>1 DEF Cut, Numbered
  <2>3. \A s : InOrder({s}) = << >>
    BY <2>1, OrderedNone DEF InOrder
  <2> QED BY <2>2, <2>3 DEF QueueCut, Promise!Init
<1>2. ASSUME NEW specification \in Specification,
             features = <<[status |-> "delivering", sequence |-> 1, version |-> NoDraft,
                           ready |-> TRUE, specification |-> specification, run |-> 1]>>
      PROVE  QueueCut /\ Promise!Init
  <2>1. FeatureIds = {1} /\ features[1].status = "delivering" /\ features[1].sequence = 1
    BY <1>2 DEF FeatureIds
  <2>2. /\ InStatus({"delivering"}) = {1} /\ InStatus({"confirmed"}) = {}
        /\ InStatus({"installed"}) = {} /\ Number[1] = 1
    BY <2>1 DEF InStatus, Number
  <2>3. Cut(0, 1, 1)
    BY <2>1, <2>2 DEF Cut, Numbered
  <2>4. Ordered({1}, Number) = <<1>> /\ Ordered({}, Number) = << >>
    <3>1. Number[1] \in Nat \ {0}
      BY <2>2
    <3> QED BY <3>1, OrderedOne, OrderedNone
  <2>5. /\ InOrder({"delivering"}) = <<1>> /\ InOrder({"confirmed"}) = << >>
        /\ InOrder({"installed"}) = << >>
    BY <2>2, <2>4 DEF InOrder, Number
  <2>6. 1 \in 1..MaxFeatures
    BY DEF ProductAssumption
  <2> QED BY <2>3, <2>5, <2>6 DEF QueueCut, Promise!Init
<1> QED BY <1>1, <1>2 DEF Init

\* Every step of the Product is one of the queue or none.
LEMMA NextInQueue ==
  ASSUME LifecycleInvariant, QueueCut, [Next]_vars
  PROVE  QueueCut' /\ [Promise!Next]_Promise!vars
<1>1. TypeOK
  BY DEF LifecycleInvariant
<1>2. \A f \in FeatureIds : features[f].status = "draft" => features[f].sequence = 0
  BY DEF QueueCut, Cut
<1>3. ASSUME features' = features PROVE QueueCut' /\ UNCHANGED Promise!vars
  BY <1>2, <1>3, QueueStays DEF InStatus, FeatureIds
<1>4. ASSUME NEW f, DraftStep(f) PROVE QueueCut' /\ UNCHANGED Promise!vars
  <2>1. \A s \in {"confirmed", "delivering", "installed"} :
            /\ InStatus({s})' = InStatus({s})
            /\ \A g \in InStatus({s}) : features'[g].sequence = features[g].sequence
    BY <1>4 DEF DraftStep, InStatus
  <2>2. /\ FeatureIds \subseteq FeatureIds'
        /\ \A g \in FeatureIds' : features'[g].status = "draft" => features'[g].sequence = 0
    BY <1>2, <1>4 DEF DraftStep
  <2> QED BY <2>1, <2>2, QueueStays
<1>5. CASE OtherStep
  BY <1>3, <1>5 DEF OtherStep, Delete, CanDelete, StartProductFrontend, CompleteProductFrontend,
                    MoveEngineering, CanMoveEngineering
<1>6. ASSUME NEW kind, OpenFeatureDiscovery(kind) PROVE QueueCut' /\ UNCHANGED Promise!vars
  BY <1>1, <1>4, <1>6, OpenIsDraftStep
<1>7. ASSUME NEW kind, NEW f, NEW specification \in Specification,
             ReplaceFeatureDiscovery(kind, f, specification)
      PROVE  QueueCut' /\ UNCHANGED Promise!vars
  BY <1>1, <1>4, <1>7, ReplaceIsDraftStep
<1>8. ASSUME NEW kind, NEW f \in 1..MaxFeatures, NEW version, ConfirmFeature(kind, f, version)
      PROVE  QueueCut' /\ Promise!Next
  BY <1>1, <1>8, ConfirmInQueue
<1>9. ASSUME NEW kind, NEW f, StartDelivery(kind, f) PROVE QueueCut' /\ Promise!Next
  BY <1>1, <1>9, StartInQueue
<1>10. ASSUME NEW kind, NEW r, GoLive(kind, r) PROVE QueueCut' /\ Promise!Next
  BY <1>1, <1>10, InstallInQueue
<1>11. ASSUME NEW r, GetStuck(r) PROVE QueueCut' /\ UNCHANGED Promise!vars
  BY <1>3, <1>11 DEF GetStuck
<1>12. CASE UNCHANGED vars
  BY <1>3, <1>12 DEF vars
<1> QED BY <1>5, <1>6, <1>7, <1>8, <1>9, <1>10, <1>11, <1>12
        DEF Next, ProductStep, DiscoveryStep, Start, EndRun, OtherStep

\* The numbers given by a maximum over all Features make a queue, whatever is confirmed,
\* replaced, started and installed in between (product_engine.go, lifecycle_bridge.go).
THEOREM ProductImplementsQueue == Spec => ImplementsDeliveryQueue
<1>1. Init => QueueCut /\ Promise!Init
  BY InitInQueue, ProductAssumption
<1> QED BY <1>1, NextInQueue, LifecycleHolds, PTL DEF Spec, ImplementsDeliveryQueue,
                    Promise!Spec

-----------------------------------------------------------------------------
(* What the projection offers.                                             *)

\* A draft has a version, which its owner has to name to confirm it.
DraftsAreVersioned ==
    \A f \in FeatureIds : features[f].status = "draft" => features[f].version \in Nat \ {0}

OffersInvariant == DraftsAreVersioned /\ Len(features) <= MaxFeatures

\* A step that makes no draft and changes none leaves the drafts their versions.
LEMMA FeatureStepVersioned ==
    ASSUME OffersInvariant, NEW f, NEW to, to # "draft", FeatureStep(f, to)
    PROVE  OffersInvariant'
<1>1. DraftsAreVersioned'
  BY DEF OffersInvariant, DraftsAreVersioned, FeatureStep
<1>2. Len(features') = Len(features)
  BY DEF FeatureStep, FeatureIds
<1> QED BY <1>1, <1>2 DEF OffersInvariant

\* Every step leaves a draft with a version: a new one has the first, a replacement counts up.
LEMMA VersionedStep ==
    ASSUME ProductAssumption, TypeOK, OffersInvariant, [Next]_vars PROVE OffersInvariant'
<1> USE DEF OffersInvariant
<1>1. ASSUME features' = features PROVE OffersInvariant'
  BY <1>1 DEF DraftsAreVersioned, FeatureIds
<1>2. ASSUME NEW ready, NEW specification, Len(features) < MaxFeatures,
             features' = Append(features, NewFeature(1, ready, specification))
      PROVE  OffersInvariant'
  <2>1. NewFeature(1, ready, specification).version = 1
    BY DEF NewFeature
  <2>2. Len(features') = Len(features) + 1 /\ Len(features) \in Nat /\ MaxFeatures \in Nat
    BY <1>2 DEF TypeOK, ProductAssumption
  <2>3. \A g \in FeatureIds' : \/ g \in FeatureIds /\ features'[g] = features[g]
                               \/ features'[g] = NewFeature(1, ready, specification)
    BY <1>2, <2>2 DEF TypeOK, FeatureIds
  <2>4. DraftsAreVersioned'
    BY <2>1, <2>3 DEF DraftsAreVersioned
  <2> QED BY <1>2, <2>2, <2>4
<1>3. ASSUME NEW f \in FeatureIds, NEW ready, NEW specification,
             features' = [features EXCEPT ![f] =
                [features[f] EXCEPT !.version = NextVersion(features[f].version),
                                    !.ready = ready, !.specification = specification]]
      PROVE  OffersInvariant'
  <2>1. features[f] \in Feature /\ features \in Seq(Feature)
    BY DEF TypeOK, FeatureIds
  <2>2. features'[f].version = features[f].version + 1 /\ features[f].version \in Nat
    BY <1>3, <2>1 DEF FeatureIds, Feature, NextVersion
  <2>3. FeatureIds' = FeatureIds /\ \A g \in FeatureIds : g # f => features'[g] = features[g]
    BY <1>3, <2>1 DEF FeatureIds
  <2>4. Len(features') = Len(features)
    BY <1>3, <2>1
  <2> QED BY <2>2, <2>3, <2>4 DEF DraftsAreVersioned
<1>4. CASE OtherStep
  BY <1>1, <1>4 DEF OtherStep, Delete, StartProductFrontend, CompleteProductFrontend,
                    MoveEngineering
<1>5. ASSUME NEW kind, OpenFeatureDiscovery(kind) PROVE OffersInvariant'
  BY <1>2, <1>5 DEF OpenFeatureDiscovery, CanOpenDiscovery
<1>6. ASSUME NEW kind, NEW f, NEW specification, ReplaceFeatureDiscovery(kind, f, specification)
      PROVE  OffersInvariant'
  <2> DEFINE ready == Ready(f, specification)
  <2>1. CASE f \in FeatureIds
    <3>1. features' = [features EXCEPT ![f] =
             [features[f] EXCEPT !.version = NextVersion(features[f].version),
                                 !.ready = ready, !.specification = specification]]
      BY <1>6, <2>1 DEF ReplaceFeatureDiscovery
    <3> HIDE DEF ready
    <3> QED BY <1>3, <2>1, <3>1
  <2>2. CASE f \notin FeatureIds
    <3>1. features' = Append(features, NewFeature(1, ready, specification))
      BY <1>6, <2>2 DEF ReplaceFeatureDiscovery
    <3>2. Len(features) < MaxFeatures
      BY <1>6, <2>2 DEF ReplaceFeatureDiscovery, CanReplaceDiscovery, ProductAssumption, TypeOK
    <3> HIDE DEF ready
    <3> QED BY <1>2, <3>1, <3>2
  <2> QED BY <2>1, <2>2
<1>7. ASSUME NEW kind, NEW f, NEW version, ConfirmFeature(kind, f, version)
      PROVE  OffersInvariant'
  BY <1>7, ConfirmIsFeatureStep, FeatureStepVersioned
<1>8. ASSUME NEW kind, NEW f, StartDelivery(kind, f) PROVE OffersInvariant'
  BY <1>8, StartIsFeatureStep, FeatureStepVersioned
<1>9. ASSUME NEW kind, NEW r, GoLive(kind, r) PROVE OffersInvariant'
  BY <1>9, GoLiveIsFeatureStep, FeatureStepVersioned
<1>10. ASSUME NEW r, GetStuck(r) PROVE OffersInvariant'
  BY <1>1, <1>10 DEF GetStuck
<1>11. CASE UNCHANGED vars
  BY <1>1, <1>11 DEF vars
<1> QED BY <1>4, <1>5, <1>6, <1>7, <1>8, <1>9, <1>10, <1>11
        DEF Next, ProductStep, DiscoveryStep, Start, EndRun, OtherStep

\* Every command the projection offers meets the guard the engine has for it.
LEMMA OffersMeetGuards ==
    ASSUME ProductAssumption, TypeOK, OffersInvariant PROVE OfferedIsAccepted
<1> SUFFICES ASSUME NEW action \in AvailableActions,
                    \/ Len(features) # MaxFeatures
                    \/ action[1] \notin {"feature.discovery.open", "feature.discovery.replace"}
             PROVE  Accepted(action)
  BY DEF OfferedIsAccepted
<1>1. status # "archived"
  BY DEF AvailableActions
<1>2. CASE action = <<"feature.discovery.open", NoTarget, "human">>
  <2>1. Len(features) < MaxFeatures
    BY <1>2 DEF OffersInvariant, ProductAssumption, TypeOK
  <2>2. CanOpenDiscovery("human")
    BY <1>1, <2>1 DEF CanOpenDiscovery, ProductCommand
  <2> QED BY <1>2, <2>2 DEF Accepted
<1>3. CASE action = <<"feature.discovery.replace", NoTarget, "agent">>
  <2>1. Len(features) < MaxFeatures /\ Len(features) \in Nat /\ MaxFeatures \in Nat
    BY <1>3 DEF OffersInvariant, ProductAssumption, TypeOK
  <2>2. EmptySpecification.granted = {}
    BY DEF EmptySpecification
  <2> DEFINE f == Len(features) + 1
  <2>3. f \in 1..MaxFeatures /\ CanReplaceDiscovery("agent", f, EmptySpecification)
    BY <1>1, <2>1, <2>2 DEF CanReplaceDiscovery, ProductCommand
  <2> HIDE DEF f
  <2>4. \E g \in 1..MaxFeatures : CanReplaceDiscovery("agent", g, EmptySpecification)
    BY <2>3
  <2> QED BY <1>3, <2>4 DEF Accepted
<1>4. CASE action = <<"product.delete", NoTarget, "human">>
  BY <1>1, <1>4 DEF Accepted, CanDelete, ProductCommand
<1>5. CASE /\ engineering = "frontend_queued"
           /\ action = <<"product.engineering.frontend.start", NoTarget, "agent">>
  BY <1>1, <1>5 DEF Accepted, CanMoveEngineering, ProductCommand
<1>6. CASE /\ engineering = "frontend_initializing"
           /\ action = <<"product.engineering.frontend.complete", NoTarget, "agent">>
  BY <1>1, <1>6 DEF Accepted, CanMoveEngineering, ProductCommand
<1>7. ASSUME NEW f \in InStatus({"draft"}), features[f].ready,
             action = <<"feature.confirm", f, "human">>
      PROVE  Accepted(action)
  BY <1>1, <1>7 DEF Accepted, CanConfirm, ProductCommand, InStatus, OffersInvariant,
                    DraftsAreVersioned, NoDraft
<1>8. ASSUME NEW f \in DeliveryOffered, action = <<"feature.delivery.start", f, "agent">>
      PROVE  Accepted(action)
  BY <1>8 DEF Accepted, CanStartDelivery, DeliveryOffered
<1> QED BY <1>1, <1>2, <1>3, <1>4, <1>5, <1>6, <1>7, <1>8
        DEF AvailableActions, TypeOK, EngineeringStatus

LEMMA OffersInit == ASSUME ProductAssumption, Init PROVE OffersInvariant
BY DEF ProductAssumption, Init, OffersInvariant, DraftsAreVersioned, FeatureIds

\* Whoever is offered a command of the Product has it accepted, in every state the
\* Product can reach and for any number of Features (ApplyProduct, StartDelivery and the
\* projection's actionsForProduct agree).
THEOREM OffersAreAccepted == Spec => []OfferedIsAccepted
<1>1. Init => OffersInvariant
  BY OffersInit, ProductAssumption
<1>2. LifecycleInvariant /\ OffersInvariant /\ [Next]_vars => OffersInvariant'
  BY VersionedStep, ProductAssumption DEF LifecycleInvariant
<1>3. LifecycleInvariant /\ OffersInvariant => OfferedIsAccepted
  BY OffersMeetGuards, ProductAssumption DEF LifecycleInvariant
<1> QED BY <1>1, <1>2, <1>3, LifecycleHolds, PTL DEF Spec

\* When nothing is in delivery, the Feature with the least of the numbers that wait is
\* the next one to deliver.
LEMMA CutOffersNext == ASSUME LifecycleInvariant, QueueCut PROVE QueueOffersNext
<1> SUFFICES ASSUME status # "archived", engineering = "ready",
                    InStatus({"delivering"}) = {}, InStatus({"confirmed"}) # {}
             PROVE  \E f \in FeatureIds :
                       <<"feature.delivery.start", f, "agent">> \in AvailableActions
  BY DEF QueueOffersNext
<1>1. PICK i, d, w : Cut(i, d, w)
  BY DEF QueueCut
<1>2. d \in Nat /\ w \in Nat /\ d <= w /\ Numbered(InStatus({"confirmed"}), Number, d, w)
  BY <1>1 DEF Cut
<1>3. PICK f \in InStatus({"confirmed"}) : Number[f] = d + 1
  BY <1>2 DEF Numbered
<1>4. \A g \in InStatus({"confirmed"}) : Number[g] \in d+1..w /\ Number[g] = features[g].sequence
  BY <1>2 DEF Numbered, Number, InStatus
<1>5. f \in NextFeatureForDelivery
  <2>1. features[f].sequence = d + 1 /\ f \in Queue
    BY <1>2, <1>3, <1>4 DEF Queue
  <2>2. \A g \in Queue : features[f].sequence <= features[g].sequence
    BY <1>2, <1>4, <2>1 DEF Queue
  <2> QED BY <2>1, <2>2 DEF NextFeatureForDelivery
<1>6. f \in FeatureIds /\ f \in DeliveryOffered
  BY <1>3, <1>5 DEF InStatus, DeliveryOffered
<1> QED BY <1>6 DEF AvailableActions

\* The queue never stalls, for any number of Features: as soon as none is in delivery the
\* next that waits is offered (nextDeliverySequence, nextFeatureForDelivery).
THEOREM QueueNeverStalls == Spec => []QueueOffersNext
<1>1. Init => QueueCut
  BY InitInQueue, ProductAssumption
<1>2. LifecycleInvariant /\ QueueCut /\ [Next]_vars => QueueCut'
  BY NextInQueue
<1>3. LifecycleInvariant /\ QueueCut => QueueOffersNext
  BY CutOffersNext
<1> QED BY <1>1, <1>2, <1>3, LifecycleHolds, PTL DEF Spec
=============================================================================
