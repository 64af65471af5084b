-------------------------- MODULE FeatureDiscovery --------------------------
(***************************************************************************)
(* The discovery of a Product's Features: Agents submit whole workspaces   *)
(* of evidence, questions, conflicts, assumptions, decisions and a         *)
(* specification, each from one Conversation and Run; Delivery refuses     *)
(* those that do not hold together, works out what is still open and which *)
(* question to ask next, and freezes the workspace when the owner confirms *)
(* it.  ProductLifecycle keeps of a workspace the roles and whether it is  *)
(* complete; here is what that stands for, and the Product of this module  *)
(* implements that one.                                                    *)
(*                                                                         *)
(* A Feature is its place in Product.Features.  Each action is one         *)
(* accepted command.  The texts of a workspace are left out: sections      *)
(* whose texts are incomplete are named in missing, and ids are unique.    *)
(***************************************************************************)
EXTENDS Integers, Sequences, FiniteSets

CONSTANTS
    RoleIds,
    ActorIds,
    ScenarioIds,
    EvidenceIds,
    DecisionIds,
    OptionIds,
    Threads,       \* pairs of a Conversation and a Run
    Workspaces,    \* the workspaces that are submitted
    LegacyRun,     \* whether a run begun before DeliveryUnits delivers the first Feature
    MaxFeatures,   \* bound: Features of the Product
    MaxVersion     \* bound: version of a draft

VARIABLES
    definition,    \* Product.CurrentDefinitionRevision
    baseline,      \* roles of the latest ProductRevision's definition
    features       \* Product.Features

vars == <<definition, baseline, features>>

-----------------------------------------------------------------------------
(* Workspaces.                                                             *)

\* Sections of texts; "access_model" is how people sign in and get their roles.
Sections ==
    {"identity", "intent", "scope", "scenarios", "impact", "authorization",
     "access_model", "acceptance"}
Modes == {"establish_baseline", "feature_delta"}
Levels == {"low", "medium", "high"}
Scores == 1..100

Question == [status : {"open", "answered", "dismissed"}, score : Scores]
Conflict == [status : {"open", "resolved", "dismissed"}, evidence : Seq(EvidenceIds)]
Assumption == [status : {"open", "confirmed", "rejected"}, risk : Levels]
Decision == [status : {"open", "resolved"}, options : SUBSET OptionIds]
Grant == [roles : SUBSET RoleIds, scenarios : SUBSET ScenarioIds]
PartialFunctions(A, B) == UNION {[ids -> B] : ids \in SUBSET A}

Workspace ==
    [evidence : SUBSET EvidenceIds,
     questions : Seq(Question),
     conflicts : SUBSET Conflict,
     assumptions : SUBSET Assumption,
     decisions : PartialFunctions(DecisionIds, Decision),
     options : SUBSET (DecisionIds \X OptionIds),
     missing : SUBSET Sections,
     scenarios : PartialFunctions(ScenarioIds, SUBSET ActorIds),  \* and their actors
     focus : SUBSET ScenarioIds,                                  \* one, or none
     mode : Modes,
     roles : PartialFunctions(RoleIds, SUBSET ActorIds),          \* declared, for actors
     admins : SUBSET RoleIds,
     grants : SUBSET Grant]

ASSUME DiscoveryAssumption ==
    /\ Workspaces \subseteq Workspace
    /\ LegacyRun \in BOOLEAN
    /\ MaxFeatures \in Nat \ {0}
    /\ MaxVersion \in Nat \ {0}

Nothing == [id \in {} |-> {}]
EmptyWorkspace ==
    [evidence |-> {}, questions |-> << >>, conflicts |-> {}, assumptions |-> {},
     decisions |-> Nothing, options |-> {}, missing |-> Sections, scenarios |-> Nothing,
     focus |-> {}, mode |-> "feature_delta", roles |-> Nothing, admins |-> {}, grants |-> {}]

\* What refers to something refers to something of the same workspace.
ReferencesResolve(w) ==
    /\ w.focus \subseteq DOMAIN w.scenarios
    /\ \A c \in w.conflicts : \A i \in DOMAIN c.evidence : c.evidence[i] \in w.evidence
    /\ \A option \in w.options :
          option[1] \in DOMAIN w.decisions /\ option[2] \in w.decisions[option[1]].options

Valid(w) ==
    /\ w.evidence # {}
    /\ \A c \in w.conflicts : Len(c.evidence) > 1
    /\ \A d \in DOMAIN w.decisions : Cardinality(w.decisions[d].options) > 1
    /\ ReferencesResolve(w)

-----------------------------------------------------------------------------
(* What is still open in a workspace.                                      *)

NoQuestion == 0

OpenQuestions(w) == {k \in DOMAIN w.questions : w.questions[k].status = "open"}

\* The first of the open questions with the highest priority.
Outranks(w, j, k) ==
    \/ w.questions[j].score > w.questions[k].score
    \/ w.questions[j].score = w.questions[k].score /\ j < k

SelectNextFeatureQuestion(w) ==
    IF OpenQuestions(w) = {} THEN NoQuestion
    ELSE CHOOSE k \in OpenQuestions(w) :
            \A j \in OpenQuestions(w) \ {k} : Outranks(w, k, j)

\* Mutant: every open assumption blocks but for those of high risk.
MutReadinessBlockers(w) ==
    {issue \in {"open_conflict", "open_decision"} :
        IF issue = "open_conflict" THEN \E c \in w.conflicts : c.status = "open"
        ELSE \E d \in DOMAIN w.decisions : w.decisions[d].status = "open"}

ReadinessBlockers(w) ==
    {issue \in {"open_conflict", "high_risk_assumption", "open_decision"} :
        CASE issue = "open_conflict" -> \E c \in w.conflicts : c.status = "open"
          [] issue = "high_risk_assumption" ->
               \E a \in w.assumptions : a.status = "open" /\ a.risk = "high"
          [] issue = "open_decision" ->
               \E d \in DOMAIN w.decisions : w.decisions[d].status = "open"}

\* The first Feature of a Product establishes its roles.
Mode(f) == IF f = 1 THEN "establish_baseline" ELSE "feature_delta"

\* The roles of the Product's definition and of all other Features, drafts or not.
KnownRoles(f) ==
    baseline \cup UNION {DOMAIN features[g].workspace.roles : g \in DOMAIN features \ {f}}

RolesFor(f, w) == KnownRoles(f) \cup DOMAIN w.roles
GrantedRoles(w) == UNION {g.roles : g \in w.grants}

\* Roles and scenarios that do not exist are refused, not left open.
AuthorizationResolves(f, w) ==
    /\ f = 1 => w.admins \subseteq RolesFor(f, w)
    /\ GrantedRoles(w) \subseteq RolesFor(f, w)
    /\ DOMAIN w.scenarios # {} =>
          \A g \in w.grants : g.scenarios \subseteq DOMAIN w.scenarios

\* Mutant: a Feature without any grant has no authorization that could be incomplete.
MutGranted(w) ==
    /\ \A g \in w.grants :
          g.roles # {} /\ g.scenarios # {} /\ g.scenarios \subseteq DOMAIN w.scenarios
    /\ w.grants # {} => \A s \in DOMAIN w.scenarios : \E g \in w.grants : s \in g.scenarios

\* Every grant is for some role and some of the scenarios, and each of these is granted.
Granted(w) ==
    /\ w.grants # {}
    /\ \A g \in w.grants :
          g.roles # {} /\ g.scenarios # {} /\ g.scenarios \subseteq DOMAIN w.scenarios
    /\ \A s \in DOMAIN w.scenarios : \E g \in w.grants : s \in g.scenarios

\* The first Feature has roles for all actors of its scenarios.
BaselineEstablished(w) ==
    /\ "access_model" \notin w.missing
    /\ DOMAIN w.roles # {}
    /\ \A s \in DOMAIN w.scenarios :
          w.scenarios[s] \subseteq UNION {w.roles[r] : r \in DOMAIN w.roles}

AuthorizationComplete(f, w) ==
    /\ "authorization" \notin w.missing
    /\ w.mode = Mode(f)
    /\ f = 1 => BaselineEstablished(w)
    /\ Granted(w)

ScenariosComplete(w) ==
    /\ "scenarios" \notin w.missing
    /\ DOMAIN w.scenarios # {}
    /\ \A s \in DOMAIN w.scenarios : w.scenarios[s] # {}

BlockingSections(f, w) ==
    (w.missing \cap {"identity", "intent", "scope", "impact", "acceptance"})
    \cup {section \in {"scenarios", "authorization", "open_question"} :
            CASE section = "scenarios" -> ~ScenariosComplete(w)
              [] section = "authorization" -> ~AuthorizationComplete(f, w)
              [] section = "open_question" -> SelectNextFeatureQuestion(w) # NoQuestion}

Ready(f, w) == BlockingSections(f, w) = {} /\ ReadinessBlockers(w) = {}

-----------------------------------------------------------------------------
(* The Product.                                                            *)

\* workspace and what was derived from it are the draft's and, after the
\* confirmation, the FeatureRevision's.
Feature ==
    [code : Nat, status : {"draft", "confirmed", "delivering", "installed"},
     sequence : Nat, version : Nat, workspace : Workspace, ready : BOOLEAN,
     next : Nat, sources : SUBSET Threads]

FeatureIds == DOMAIN features
InStatus(statuses) == {f \in FeatureIds : features[f].status \in statuses}
Codes == {features[f].code : f \in FeatureIds}

NoDraft == 0
OpenedFeature(code) ==
    [code |-> code, status |-> "draft", sequence |-> 0, version |-> 1,
     workspace |-> EmptyWorkspace, ready |-> FALSE, next |-> NoQuestion, sources |-> {}]

Init ==
    /\ definition = 1
    /\ baseline \in SUBSET RoleIds
    /\ \/ features = << >>
       \/ /\ LegacyRun
          /\ \E w \in Workspaces, thread \in Threads :
                /\ features = <<[code |-> 1, status |-> "delivering", sequence |-> 1,
                                 version |-> NoDraft, workspace |-> w, ready |-> TRUE,
                                 next |-> NoQuestion, sources |-> {thread}]>>
                /\ Valid(w) /\ AuthorizationResolves(1, w) /\ Ready(1, w)

\* Mutant: Features are numbered as they are opened.
MutNextFeatureCode == Len(features) + 1

\* The first of F-001, F-002... that no Feature has.
NextFeatureCode ==
    CHOOSE n \in 1..(Len(features) + 1) :
        n \notin Codes /\ \A m \in 1..(n - 1) : m \in Codes

OpenFeatureDiscovery ==
    /\ Len(features) < MaxFeatures
    /\ features' = Append(features, OpenedFeature(NextFeatureCode))
    /\ UNCHANGED <<definition, baseline>>

\* Mutant: a replacement names its own source only.
MutAppendFeatureSource(sources, thread) == {thread}
\* The sources of a draft: one for each Conversation and Run that replaced it. What a
\* repeated one refers to is replaced with it and left out here.
AppendFeatureSource(sources, thread) == sources \cup {thread}

\* What is stored with a draft that workspace w replaces.
Draft(f, code, version, w, sources) ==
    [code |-> code, status |-> "draft", sequence |-> 0, version |-> version,
     workspace |-> w, ready |-> Ready(f, w), next |-> SelectNextFeatureQuestion(w),
     sources |-> sources]

\* f is a Feature, or the identifier of a new one; revision is the definition the
\* Agent worked from.
ReplaceFeatureDiscovery(f, code, revision, w, thread) ==
    /\ revision = definition
    /\ Valid(w)
    /\ AuthorizationResolves(f, w)
    /\ Ready(f, w) \/ SelectNextFeatureQuestion(w) # NoQuestion
    /\ \/ /\ f \in FeatureIds
          /\ features[f].status = "draft"
          /\ features[f].code = code
          /\ features[f].version < MaxVersion
          /\ features' = [features EXCEPT ![f] =
                Draft(f, code, features[f].version + 1, w,
                      AppendFeatureSource(features[f].sources, thread))]
       \/ /\ f = Len(features) + 1
          /\ f <= MaxFeatures
          /\ code \notin Codes
          /\ features' = Append(features,
                Draft(f, code, 1, w, AppendFeatureSource({}, thread)))
    /\ UNCHANGED <<definition, baseline>>

HighestSequence ==
    CHOOSE n \in {0} \cup {features[f].sequence : f \in FeatureIds} :
        \A f \in FeatureIds : features[f].sequence <= n

\* version: the draft version the owner read.
ConfirmFeature(f, version) ==
    /\ f \in FeatureIds
    /\ features[f].status = "draft"
    /\ version = features[f].version
    /\ features[f].ready
    /\ features' = [features EXCEPT ![f].status = "confirmed",
                                    ![f].sequence = HighestSequence + 1,
                                    ![f].version = NoDraft]
    /\ UNCHANGED <<definition, baseline>>

\* A run begun before DeliveryUnits goes live: it brings a new definition with
\* roles of its own, under the drafts that were written for the old one.
InstallLegacyRun ==
    /\ InStatus({"delivering"}) # {}
    /\ definition' = definition + 1
    /\ baseline' \in SUBSET RoleIds
    /\ features' = [f \in FeatureIds |->
            IF features[f].status = "delivering"
            THEN [features[f] EXCEPT !.status = "installed"]
            ELSE features[f]]

Replace ==
    \E f, code \in 1..MaxFeatures, revision \in 1..2, w \in Workspaces, thread \in Threads :
        ReplaceFeatureDiscovery(f, code, revision, w, thread)
Confirm == \E f \in 1..MaxFeatures, version \in 1..MaxVersion : ConfirmFeature(f, version)

Next == OpenFeatureDiscovery \/ Replace \/ Confirm \/ InstallLegacyRun

Spec == Init /\ [][Next]_vars

-----------------------------------------------------------------------------
(* Properties.                                                             *)

TypeOK ==
    /\ definition \in Nat
    /\ baseline \subseteq RoleIds
    /\ features \in Seq(Feature)

\* Every Feature has a code of its own, whether Delivery chose it (nextFeatureCode)
\* or an Agent did, and in whatever order the two happen.
CodesAreUnique == \A f, g \in FeatureIds : features[f].code = features[g].code => f = g

\* A draft is not ready and untouched, or ready with nothing to ask, or it asks the
\* open question that no other open question outranks: discovery never waits
\* without saying for what.
DraftsAskOn ==
    \A f \in FeatureIds :
        LET w == features[f].workspace
            next == features[f].next
        IN  \/ features[f].sources = {} /\ w = EmptyWorkspace /\ ~features[f].ready
            \/ features[f].ready /\ OpenQuestions(w) = {}
            \/ /\ ~features[f].ready
               /\ next \in OpenQuestions(w)
               /\ \A k \in OpenQuestions(w) : w.questions[k].score <= w.questions[next].score

\* What an owner can confirm, and what is confirmed, leaves nothing open: no
\* conflict, no decision, no assumption of high risk, no scenario nobody is granted,
\* and in the first Feature no actor without a role; and what it refers to in its
\* own workspace is there.  The owner's command never looks at the workspace, only
\* at what an earlier command stored about it.
ReadyIsSettled ==
    \A f \in FeatureIds :
        LET w == features[f].workspace
        IN  /\ features[f].status # "draft" => features[f].ready
            /\ ReferencesResolve(w)
            /\ features[f].ready =>
                 /\ OpenQuestions(w) = {}
                 /\ \A c \in w.conflicts : c.status # "open"
                 /\ \A d \in DOMAIN w.decisions : w.decisions[d].status # "open"
                 /\ \A a \in w.assumptions : a.status = "open" => a.risk # "high"
                 /\ \A s \in DOMAIN w.scenarios : \E g \in w.grants : s \in g.scenarios
                 /\ f = 1 => \A s \in DOMAIN w.scenarios, actor \in ActorIds :
                        actor \in w.scenarios[s] => \E r \in DOMAIN w.roles : actor \in w.roles[r]

DiscoveryInvariant == TypeOK /\ CodesAreUnique /\ DraftsAskOn /\ ReadyIsSettled

\* The Conversations and Runs that contributed to a Feature are never forgotten,
\* and once it is confirmed neither they nor its workspace change again: a replaced draft
\* takes the sources over (product_engine.go:302), and a confirmed one is locked.
SourcesAreFrozen ==
    [][\A f \in FeatureIds :
          /\ features[f].sources \subseteq features'[f].sources
          /\ features[f].status # "draft" =>
               /\ features'[f].sources = features[f].sources
               /\ features'[f].workspace = features[f].workspace]_vars

-----------------------------------------------------------------------------
\* The Product as the one of ProductLifecycle before anything but the run of the
\* older engine is delivered: what that module calls complete is being ready here.
OldRunInstalled == definition # 1
OldRun ==
    [feature |-> 1, revision |-> 1, v3 |-> FALSE,
     stage |-> IF OldRunInstalled THEN "live" ELSE "open"]
HasOldRun == FeatureIds # {} /\ features[1].status \in {"delivering", "installed"}

LifecycleFeature(feature) ==
    [status |-> feature.status, sequence |-> feature.sequence,
     version |-> feature.version, ready |-> feature.ready,
     specification |-> [declared |-> DOMAIN feature.workspace.roles,
                        granted  |-> GrantedRoles(feature.workspace),
                        complete |-> feature.ready],
     run |-> IF feature.status \in {"delivering", "installed"} THEN 1 ELSE 0]

LifecycleStatus == IF OldRunInstalled THEN "active" ELSE "shaping"
LifecycleEngineering == IF HasOldRun THEN "ready" ELSE "frontend_queued"
LifecycleDeployment == IF OldRunInstalled THEN 1 ELSE 0
LifecycleFeatures == [f \in FeatureIds |-> LifecycleFeature(features[f])]
LifecycleRuns == IF HasOldRun THEN <<OldRun>> ELSE << >>

Lifecycle == INSTANCE ProductLifecycle WITH
    status      <- LifecycleStatus,
    engineering <- LifecycleEngineering,
    release     <- definition,
    deployment  <- LifecycleDeployment,
    features    <- LifecycleFeatures,
    runs        <- LifecycleRuns

\* The readiness Delivery works out in detail, and the order in which it refuses,
\* stores and confirms, stay within what the Product's lifecycle relies on.
ImplementsProductLifecycle == Lifecycle!Spec
=============================================================================
