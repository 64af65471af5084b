------------------------- MODULE ProductLifecycle -------------------------
(***************************************************************************)
(* One Product of internal/domain/delivery with its Features and the runs  *)
(* that deliver them: the engineering initialisation, the discovery of     *)
(* Features, their confirmation into a delivery queue, the start of a      *)
(* DeliveryRun for the head of the queue, and the installation of the      *)
(* Feature in the transaction that brings its run live.                    *)
(*                                                                         *)
(* A Feature is its place in Product.Features: identifiers are unique and  *)
(* no Feature is ever removed.  A run is its place in the order of start.  *)
(* Each action is one accepted command; kind is the kind of its actor.     *)
(* Of a run only what concerns the Product is kept; DeliveryRun has the    *)
(* rest.                                                                   *)
(***************************************************************************)
EXTENDS Integers, Sequences, FiniteSetsExt

CONSTANTS
    RoleIds,       \* identifiers of the roles a Feature can declare or grant to
    LegacyRun,     \* whether the store holds a run begun before DeliveryUnits
    MaxFeatures,   \* bound: Features of the Product
    MaxVersion     \* bound: version of a discovery draft

ASSUME ProductAssumption ==
    /\ LegacyRun \in BOOLEAN
    /\ MaxFeatures \in Nat \ {0}
    /\ MaxVersion \in Nat \ {0}

VARIABLES
    status,        \* Product.Status
    engineering,   \* Product.Engineering.Status
    definition,    \* Product.CurrentDefinitionRevision
    release,       \* Product.CurrentReleaseRevision
    baseline,      \* roles of the latest ProductRevision's definition
    deployment,    \* the run that Product.CurrentDeployment is from
    features,      \* Product.Features
    runs           \* DeliveryRuns of the Product, in order of start

product == <<status, engineering, definition, release, baseline, deployment>>
vars == <<product, features, runs>>

ActorKinds == {"human", "agent", "system"}
ProductStatus == {"shaping", "active", "archived"}
EngineeringStatus == {"frontend_queued", "frontend_initializing", "ready"}
FeatureStatus == {"draft", "confirmed", "delivering", "installed"}
NoRun == 0
NoDraft == 0

\* What a draft or a FeatureRevision says, as far as roles go: those it declares,
\* those it grants to, and whether the rest of it leaves nothing open.
Specification == [declared : SUBSET RoleIds, granted : SUBSET RoleIds, complete : BOOLEAN]
EmptySpecification == [declared |-> {}, granted |-> {}, complete |-> FALSE]

\* specification is the draft's and, after the confirmation, the FeatureRevision's.
Feature ==
    [status : FeatureStatus, sequence : Nat, version : Nat, ready : BOOLEAN,
     specification : Specification, run : Nat]

DeliveryRun ==
    [feature : Nat, revision : Nat, v3 : BOOLEAN, stage : {"open", "stuck", "live"}]

FeatureIds == DOMAIN features
RunIds == DOMAIN runs
InStatus(statuses) == {f \in FeatureIds : features[f].status \in statuses}

-----------------------------------------------------------------------------
(* The delivery queue.                                                     *)

SequencesGiven == {0} \cup {features[f].sequence : f \in FeatureIds}
HighestSequence == Max(SequencesGiven)

\* Mutant: numbered from 0, and the queue skips the Feature numbered 0.
MutNextDeliverySequence == Cardinality(InStatus({"confirmed", "delivering", "installed"}))

NextDeliverySequence == HighestSequence + 1

Queue == {f \in InStatus({"confirmed"}) : features[f].sequence # 0}

\* Mutant: a Feature in delivery does not hold up the queue.
MutNextFeatureForDelivery ==
    {f \in Queue : \A g \in Queue : features[f].sequence <= features[g].sequence}

\* The Feature to deliver next: none while another is in delivery.
NextFeatureForDelivery ==
    {f \in Queue :
        /\ InStatus({"delivering"}) = {}
        /\ \A g \in Queue : features[f].sequence <= features[g].sequence}

NewFeature(version, ready, specification) ==
    [status |-> "draft", sequence |-> 0, version |-> version, ready |-> ready,
     specification |-> specification, run |-> NoRun]

\* A Product as created, or one whose first Feature a run of the engine before
\* DeliveryUnits is delivering.
Init ==
    /\ baseline \in SUBSET RoleIds
    /\ definition = 1
    /\ release = 1
    /\ deployment = NoRun
    /\ status = "shaping"
    /\ \/ /\ engineering = "frontend_queued"
          /\ features = << >>
          /\ runs = << >>
       \/ /\ LegacyRun
          /\ engineering = "ready"
          /\ \E specification \in Specification :
                features = <<[status |-> "delivering", sequence |-> 1, version |-> NoDraft,
                              ready |-> TRUE, specification |-> specification, run |-> 1]>>
          /\ runs = <<[feature |-> 1, revision |-> 1, v3 |-> FALSE, stage |-> "open"]>>

-----------------------------------------------------------------------------
(* Commands of the Product (ApplyProduct).  None is accepted once archived.*)

ProductCommand(kind, kinds) == status # "archived" /\ kind \in kinds

CanDelete(kind) == ProductCommand(kind, {"human"})

Delete(kind) ==
    /\ CanDelete(kind)
    /\ status' = "archived"
    /\ UNCHANGED <<engineering, definition, release, baseline, deployment, features, runs>>

CanMoveEngineering(kind, from) == ProductCommand(kind, {"agent"}) /\ engineering = from

MoveEngineering(kind, from, to) ==
    /\ CanMoveEngineering(kind, from)
    /\ engineering' = to
    /\ UNCHANGED <<status, definition, release, baseline, deployment, features, runs>>

StartProductFrontend(kind) ==
    MoveEngineering(kind, "frontend_queued", "frontend_initializing")

CompleteProductFrontend(kind) == MoveEngineering(kind, "frontend_initializing", "ready")

CanOpenDiscovery(kind) == ProductCommand(kind, {"human"}) /\ Len(features) < MaxFeatures

OpenFeatureDiscovery(kind) ==
    /\ CanOpenDiscovery(kind)
    /\ features' = Append(features, NewFeature(1, FALSE, EmptySpecification))
    /\ UNCHANGED <<product, runs>>

\* featureAuthorizationPolicyFor: the roles of the Product's definition and those
\* any other Feature declares, in its draft or in its revision.
KnownRoles(f) ==
    baseline \cup UNION {features[g].specification.declared : g \in FeatureIds \ {f}}

\* The first Feature has to establish roles; every Feature has to grant something.
Ready(f, specification) ==
    /\ specification.complete
    /\ specification.granted # {}
    /\ f = 1 => specification.declared # {}

\* Mutant: replacing a draft keeps its version.
MutNextVersion(version) == version
NextVersion(version) == version + 1

\* Mutant: a Feature that is queued can still be replaced.
MutReplaceable(f) == features[f].status \in {"draft", "confirmed"}
Replaceable(f) == features[f].status = "draft"

\* f is a Feature, or the identifier of a new one.
CanReplaceDiscovery(kind, f, specification) ==
    /\ ProductCommand(kind, {"human", "agent"})
    /\ specification.granted \subseteq KnownRoles(f) \cup specification.declared
    /\ \/ f \in FeatureIds /\ Replaceable(f) /\ features[f].version < MaxVersion
       \/ f = Len(features) + 1 /\ f <= MaxFeatures

ReplaceFeatureDiscovery(kind, f, specification) ==
    /\ CanReplaceDiscovery(kind, f, specification)
    /\ features' =
          IF f \in FeatureIds
          THEN [features EXCEPT ![f] =
                  [features[f] EXCEPT !.version = NextVersion(features[f].version),
                                      !.ready = Ready(f, specification),
                                      !.specification = specification]]
          ELSE Append(features, NewFeature(1, Ready(f, specification), specification))
    /\ UNCHANGED <<product, runs>>

\* version: the draft version the owner read.
CanConfirm(kind, f, version) ==
    /\ ProductCommand(kind, {"human"})
    /\ f \in FeatureIds
    /\ features[f].status = "draft"
    /\ version # NoDraft /\ version = features[f].version
    /\ features[f].ready

ConfirmFeature(kind, f, version) ==
    /\ CanConfirm(kind, f, version)
    /\ features' = [features EXCEPT ![f] =
          [features[f] EXCEPT !.status = "confirmed", !.sequence = NextDeliverySequence,
                              !.version = NoDraft]]
    /\ UNCHANGED <<product, runs>>

-----------------------------------------------------------------------------
(* The bridge between the Product and its runs.                            *)

\* Goes past ApplyProduct, and past its check of the archive.
CanStartDelivery(kind, f) ==
    /\ kind = "agent"
    /\ engineering = "ready"
    /\ f \in NextFeatureForDelivery

StartDelivery(kind, f) ==
    /\ CanStartDelivery(kind, f)
    /\ runs' = Append(runs, [feature |-> f, revision |-> release, v3 |-> TRUE, stage |-> "open"])
    /\ features' = [features EXCEPT ![f].status = "delivering", ![f].run = Len(runs) + 1]
    /\ UNCHANGED product

\* The actors who can bring a run live: the adapter, or the reconciling approver.
LiveActors == {"system", "human"}

\* InstallDeliveryRun's own conditions.  What a V3 run has to show for itself
\* (verdicts, release, receipt, URL) it has when it goes live, see DeliveryRun.
Installable(kind, r) ==
    LET f == runs[r].feature
    IN  /\ kind \in {"system", "human"}
        /\ f \in FeatureIds
        /\ features[f].status = "delivering"
        /\ features[f].run = r
        /\ runs[r].revision = release
        /\ ~runs[r].v3 => runs[r].revision = definition

\* Mutant: a deployment is recorded only once.
MutDeploymentAfter(r) == IF deployment = NoRun THEN r ELSE deployment
DeploymentAfter(r) == r

\* Mutant: the installation is left out of the transaction of the run's command.
MutInstalled(f) == features
Installed(f) == [features EXCEPT ![f].status = "installed"]

\* The run's last command and the installation are one transaction.  Only a run
\* without DeliveryUnits brings a new ProductRevision.
GoLive(kind, r) ==
    /\ kind \in LiveActors
    /\ r \in RunIds
    /\ runs[r].stage = "open"
    /\ Installable(kind, r)
    /\ runs' = [runs EXCEPT ![r].stage = "live"]
    /\ features' = Installed(runs[r].feature)
    /\ status' = "active"
    /\ deployment' = DeploymentAfter(r)
    /\ IF runs[r].v3
       THEN UNCHANGED <<definition, release, baseline>>
       ELSE /\ definition' = runs[r].revision + 1
            /\ release' = runs[r].revision + 1
            /\ baseline' \in SUBSET RoleIds
    /\ UNCHANGED engineering

\* A V3 run reaches "bugs", which it never leaves (DeliveryRun, BugsIsTerminal).
GetStuck(r) ==
    /\ r \in RunIds
    /\ runs[r].stage = "open"
    /\ runs[r].v3
    /\ runs' = [runs EXCEPT ![r].stage = "stuck"]
    /\ UNCHANGED <<product, features>>

-----------------------------------------------------------------------------
DiscoveryStep(kind) ==
    \/ OpenFeatureDiscovery(kind)
    \/ \E f \in 1..MaxFeatures, specification \in Specification :
           ReplaceFeatureDiscovery(kind, f, specification)
    \/ \E f \in 1..MaxFeatures, version \in 1..MaxVersion : ConfirmFeature(kind, f, version)

ProductStep(kind) ==
    \/ Delete(kind)
    \/ StartProductFrontend(kind)
    \/ CompleteProductFrontend(kind)
    \/ DiscoveryStep(kind)

Start == \E kind \in ActorKinds, f \in 1..MaxFeatures : StartDelivery(kind, f)
EndRun == \E r \in 1..MaxFeatures : (\E kind \in ActorKinds : GoLive(kind, r)) \/ GetStuck(r)

Next == (\E kind \in ActorKinds : ProductStep(kind)) \/ Start \/ EndRun

Spec == Init /\ [][Next]_vars

\* Agents do what they are offered: they initialise the Product and start the next
\* delivery.  A run that is begun is brought to an end.
Initialise == \E kind \in ActorKinds : StartProductFrontend(kind) \/ CompleteProductFrontend(kind)
FairSpec == Spec /\ WF_vars(Initialise) /\ WF_vars(Start) /\ WF_vars(EndRun)

-----------------------------------------------------------------------------
(* The projection of the Product: the offered actions, with their targets  *)
(* and the kind of actor they are offered to.                              *)

NoTarget == 0

\* Mutant: the engineering need not be ready.
MutDeliveryOffered == NextFeatureForDelivery
DeliveryOffered == {f \in NextFeatureForDelivery : engineering = "ready"}

AvailableActions ==
    IF status = "archived" THEN {}
    ELSE {<<"feature.discovery.open", NoTarget, "human">>,
          <<"feature.discovery.replace", NoTarget, "agent">>,
          <<"product.delete", NoTarget, "human">>}
         \cup (CASE engineering = "frontend_queued" ->
                      {<<"product.engineering.frontend.start", NoTarget, "agent">>}
                 [] engineering = "frontend_initializing" ->
                      {<<"product.engineering.frontend.complete", NoTarget, "agent">>}
                 [] engineering = "ready" -> {})
         \cup {<<"feature.confirm", f, "human">> :
                 f \in {g \in InStatus({"draft"}) : features[g].ready}}
         \cup {<<"feature.delivery.start", f, "agent">> : f \in DeliveryOffered}

\* What the engine asks before it accepts the command of an offered action, with a
\* payload that fits.
Accepted(action) ==
    LET kind == action[3]
    IN  CASE action[1] = "feature.discovery.open" -> CanOpenDiscovery(kind)
          [] action[1] = "feature.discovery.replace" ->
               \E f \in 1..MaxFeatures : CanReplaceDiscovery(kind, f, EmptySpecification)
          [] action[1] = "product.delete" -> CanDelete(kind)
          [] action[1] = "product.engineering.frontend.start" ->
               CanMoveEngineering(kind, "frontend_queued")
          [] action[1] = "product.engineering.frontend.complete" ->
               CanMoveEngineering(kind, "frontend_initializing")
          [] action[1] = "feature.confirm" ->
               CanConfirm(kind, action[2], features[action[2]].version)
          [] action[1] = "feature.delivery.start" -> CanStartDelivery(kind, action[2])

-----------------------------------------------------------------------------
(* Properties.                                                             *)

\* Every variable holds a value the code can store in it.
TypeOK ==
    /\ status \in ProductStatus
    /\ engineering \in EngineeringStatus
    /\ definition \in Nat
    /\ release \in Nat
    /\ baseline \subseteq RoleIds
    /\ deployment \in RunIds \cup {NoRun}
    /\ features \in Seq(Feature)
    /\ runs \in Seq(DeliveryRun)

RunStage == [delivering |-> {"open", "stuck"}, installed |-> {"live"}]

\* Runs and Features never disagree, though they are two stored documents: each
\* run belongs to the Feature that names it, which is in delivery until the run is
\* live and installed from then on, and no Feature is either without its run.
\* (StartDelivery, and Transact with InstallDeliveryRun, write both at once.)
RunsMatchFeatures ==
    /\ \A r \in RunIds :
          runs[r].feature \in FeatureIds /\ features[runs[r].feature].run = r
    /\ \A f \in FeatureIds :
          IF features[f].status \in DOMAIN RunStage
          THEN /\ features[f].run \in RunIds
               /\ runs[features[f].run].feature = f
               /\ runs[features[f].run].stage \in RunStage[features[f].status]
          ELSE features[f].run = NoRun

\* Whoever can bring an open run live is never refused by the installation, which
\* would roll back the run's last command: the release baseline the run froze at
\* its start is still the Product's, whatever was commanded since.
InstallNeverRefused ==
    \A r \in RunIds : runs[r].stage = "open" =>
        \A kind \in LiveActors : Installable(kind, r)

\* The queue numbers Features 1, 2, 3... as they are confirmed, and what is in
\* delivery or installed came before everything that waits; one at a time.
QueueInOrder ==
    /\ HighestSequence \in Nat
    /\ SequencesGiven = 0..HighestSequence
    /\ \A f \in FeatureIds : features[f].status = "draft" <=> features[f].sequence = 0
    /\ \A f, g \in FeatureIds :
          f # g /\ features[f].status # "draft" =>
             /\ features[f].sequence # features[g].sequence
             /\ features[f].status = "delivering" => features[g].status # "delivering"
             /\ <<features[f].status, features[g].status>> \in
                   {<<"delivering", "confirmed">>, <<"installed", "confirmed">>,
                    <<"installed", "delivering">>}
                => features[f].sequence < features[g].sequence

\* What an open run froze at its start is still the Product's baseline.
BaselineKept ==
    /\ definition = release
    /\ \A r \in RunIds : runs[r].stage = "open" => runs[r].revision = release

\* The inductive invariant behind InstallNeverRefused.
LifecycleInvariant == TypeOK /\ RunsMatchFeatures /\ QueueInOrder /\ BaselineKept

\* What is delivered is what its owner read.  A draft version names one content, so who
\* confirms the version that was read confirms that, whatever Agents replaced meanwhile
\* (the version confirmFeature compares); and once confirmed neither the specification
\* nor the place in the queue changes again, through delivery and installation.
ConfirmedAsRead ==
    [][\A f \in FeatureIds :
          /\ features'[f].specification # features[f].specification =>
                features[f].status = "draft" /\ features'[f].version # features[f].version
          /\ features[f].status # "draft" =>
                features'[f].status # "draft" /\ features'[f].sequence = features[f].sequence]_vars

\* The Product's deployment is the one of the latest Feature of the queue that is
\* installed: a later installation never leaves the earlier launch destination.
DeploymentIsLatest ==
    LET installed == InStatus({"installed"})
    IN  IF installed = {} THEN deployment = NoRun
        ELSE /\ deployment \in RunIds
             /\ runs[deployment].feature \in installed
             /\ \A f \in installed :
                   features[f].sequence <= features[runs[deployment].feature].sequence

\* Every offered action is accepted from the kind of actor it is offered to: once its
\* guard holds, an action does nothing but give each variable a value.  (Up to the
\* bounds on Features and draft versions.)
OfferedIsAccepted ==
    \A action \in AvailableActions :
        \/ action[1] \in {"feature.discovery.open", "feature.discovery.replace"}
           /\ Len(features) = MaxFeatures
        \/ Accepted(action)

\* The queue never stalls: of a Product that is not archived and is ready to deliver, one
\* of the Features that wait is offered as soon as none is in delivery, whatever was
\* confirmed, replaced and installed before (nextDeliverySequence numbers what
\* nextFeatureForDelivery looks for).
QueueOffersNext ==
    status # "archived" /\ engineering = "ready" /\ InStatus({"delivering"}) = {}
        => \/ InStatus({"confirmed"}) = {}
           \/ \E f \in FeatureIds : <<"feature.delivery.start", f, "agent">> \in AvailableActions

\* Every confirmed Feature is eventually in delivery, unless the Product is archived
\* or a stuck run holds the queue up: no order of confirmations and installations
\* leaves one behind.
QueueProgresses ==
    \A f \in 1..MaxFeatures :
        (f \in InStatus({"confirmed"}))
            ~> \/ f \in InStatus({"delivering", "installed"})
               \/ status = "archived"
               \/ \E r \in RunIds : runs[r].stage = "stuck"

\* "An archived Product cannot be changed."  The code breaks it: StartDelivery goes
\* past that check, and the installation makes the Product active again.
ArchivedIsFrozen == [][status = "archived" => UNCHANGED <<product, features>>]_vars

-----------------------------------------------------------------------------
\* The Product as an implementation of the delivery queue: the elements of fs by number,
\* the i-th the one that i - 1 others come before, and so the Features of some statuses.
Ordered(fs, number) ==
    LET before(f) == {g \in fs : number[g] < number[f]}
    IN  [i \in 1..Cardinality(fs) |-> CHOOSE f \in fs : Cardinality(before(f)) = i - 1]
InOrder(statuses) ==
    Ordered(InStatus(statuses), [f \in FeatureIds |-> features[f].sequence])

Promise == INSTANCE DeliveryQueue WITH
    Features   <- 1..MaxFeatures,
    waiting    <- InOrder({"confirmed"}),
    delivering <- InOrder({"delivering"}),
    installed  <- InOrder({"installed"})

\* The detailed Product implements the abstract queue.
ImplementsDeliveryQueue == Promise!Spec
=============================================================================
