# A formal model of domainry-delivery

TLA+ modules, TLC configurations and TLAPS proofs about the lifecycle engine of
domainry-delivery: which commands a delivery run accepts in which order, with
DeliveryUnits and from before they existed; what a release that goes live stands on
and what the people of a run decide; how the Features of a Product are discovered,
confirmed, queued, delivered and installed; and what the store makes of commands that
are repeated, delayed and overtaken. Paths below are relative to `src/`; *the engine*
is `internal/domain/delivery`.

## The system

| Component | State | Operations | Speaks to |
|---|---|---|---|
| V3 delivery run engine (`engine.go`, `development_v3.go`, `quality_v3.go`, `acceptance_v3.go`, `release_v3.go`, `run_factory.go`) | one `DeliveryRun`: stage, one DeliveryUnit with phase, gates and two Git revisions, QA and acceptance verdicts, release checks, releases | `Apply`: ten unit commands, `quality.record`, `acceptance.confirm`, two release-check commands, prepare, approve, deploy result, reconcile | called by the service inside the store's transaction |
| Run projection (`projection.go` and the `*Actions`, `*Gate` functions of the V3 files) | none | `ProjectionFor`, `AgentContextFor`: the actions and gates clients render | reads the run |
| Legacy run engine (`engine.go`, `projection.go`) | of a run without DeliveryUnits: work plan, executable revision, builds, verdicts, Issues, checks, Releases | sixteen commands from `work.plan.replace` to `release.reconcile` | as above; most are still dispatched on V3 runs |
| Product and Feature lifecycle (`product_engine.go`, `lifecycle_bridge.go`) | one `Product`: engineering status, Features with draft, frozen revision, place in the queue, deployment | engineering start/complete, discovery open/replace, confirm, delivery start, install, archive | starts runs; a run that goes live is installed |
| Feature discovery and readiness (`feature_discovery.go`, `feature_specification.go`) | none | normalise, validate, rank open questions, assess readiness | called by discovery replace |
| Attachments (`product_attachment.go`, `store.go`) | metadata in the Feature, content in a table | upload, remove, download | store |
| SQLite store (`store.go`) | runs, products, command receipts, attachment content | one transaction per command: receipt lookup, revision check, mutate, install, write | called by the service |
| Application service and identity (`service.go`, `identity.go`) | none | resolves the actor and its kind, fingerprints the command | store and engine |
| HTTP API, remote adapter, SDK, module binding | none | transport | service |
| Product definition validation, localization, seed data, server command | none | validation of documents, translation, start-up | |

How they interact: a client reads a projection and sends a command with the
revision it read and an idempotency key. The service resolves who sends it. The
store opens a transaction, answers a repeated key from its receipt, refuses
another revision than the stored one, and otherwise lets the engine change the
aggregate and writes it, with the receipt, in the same transaction. The command
that makes a run live also installs its Feature in the Product there. So within
an aggregate commands are serial; what is hard is their *order*: agents,
adapters and several people act on one run, each from what it last saw, a run
goes backwards, verdicts outlive the work they judged, and a deployment's
outcome may be unknown.

What makes each component correct:

* *V3 run*: a phase is entered on the gates before it; nothing is released that
  QA and the business acceptors did not pass at exactly that Git revision; the
  evidence of a release stands still until its outcome; an outcome is final and
  always comes; the people's decisions cannot be bypassed.
* *Projection*: it offers what the engine accepts, and an open run offers
  something.
* *Product*: Features are delivered one at a time in the order they were
  confirmed, as they were confirmed; a live run is installed exactly once.
* *Store*: each command takes effect once, on the state its sender saw, together
  with everything it implies.
* *Legacy run*: an accepted plan can be worked off; a failure keeps an Issue until a
  later build with its fix passes; a Release that has not failed stays valid whatever
  is recorded meanwhile; at every stage the projection offers what the stage is for.
* *Discovery*: what is confirmed leaves nothing open, although confirming never looks
  at the workspace; codes are unique; the question asked next is the first of the
  highest ranked open ones; who contributed is never forgotten.

## Modules

**`DeliveryRun`** models the V3 run engine and its projection. **`VerifiedRelease`** is
the abstract promise it makes about releases. **`MCDeliveryRun`** gives both small
instances, **`DeliveryRunProofs`** and **`DeliveryOutcomeProofs`** hold the theorems:
what a release stands on, and how a run ends.

**`LegacyRun`** models a run without DeliveryUnits and its branch of the projection,
**`LegacyRunProofs`** holds its theorems. What its work plan promises is in
**`WorkDependencies`**; **`WorkPlanCheck`** models the depth-first search that has to
establish it, and **`WorkPlanCheckProofs`** proves that it does.

**`ProductLifecycle`** models a Product with its Features and what its runs do to it,
**`DeliveryQueue`** is the abstract queue it implements, **`ProductLifecycleProofs`**
holds the theorems. Its constants are numbers and a set of roles, so TLC runs the
module itself, as it does `LegacyRun` and `WorkPlanCheck`.

**`FeatureDiscovery`** models the discovery commands with what they validate and work
out. It implements `ProductLifecycle`. **`MCFeatureDiscovery`** lists the workspaces of
its instance, **`FeatureDiscoveryProofs`** holds the theorems.

**`CommandStore`** models the transactions of the SQLite store as the service calls
them, **`CommandLedger`** is the abstract ledger of commands it implements,
**`MCCommandStore`** adds the symmetry TLC may use, **`CommandStoreProofs`** holds the
theorems. **`FeatureAttachments`** models the list and the content of one Feature's
attachments, **`FeatureAttachmentsProofs`** holds its theorems.

Runs, Product and discovery look at what commands mean and take each as atomic; the
store looks at what makes them so, and not at what they mean. They meet in two places.
`ProductLifecycle!GoLive` and `StartDelivery` change a run and a Product in one step,
which `CommandStore!RunsAreBooked` justifies. A command the domain refuses is rolled
back, which is a stutter in all of them, and `InstallNeverRefused` says that the one
refusal that would undo another aggregate's command never happens, as far as the Product
decides it; `DeliveryRun!LiveIsInstallable` says so of what the run decides.

### DeliveryRun

| Variable | In the code |
|---|---|
| `stage` | `DeliveryRun.Stage`, stored, not always re-derived |
| `activeUnit` | `ActiveDeliveryUnitID` is not empty |
| `unit` | the only element of `DeliveryUnits`; `newDeliveryUnits` creates one per run and nothing adds another |
| `quality`, `acceptance` | the latest `QualityRun` and `AcceptanceConfirmation` of each case at each revision |
| `checks`, `releases` | `ReleaseChecks` by identifier, `Releases` |

One action is one accepted command, from the dispatch in `Apply` through the
stage derived at its end; a refused command changes nothing and is a stutter.
The unit commands return from `Apply` *before* the stage is derived
(`engine.go:74-80`), and the model keeps that difference: only `JourneyComplete`
writes `stage`, and it writes `"testing"` whatever the evidence says
(`development_v3.go:304`). The parameter `a` of an action is the actor the
service resolved, `Kind` and `Roles` are what the engine looks at.

What is abstracted:

* The verdict lists are append-only and read by looking up the latest entry of a
  case at a revision; `quality` and `acceptance` keep exactly that.
* A Git revision is a model value. The evidence prefix `git:<revision>#evidence:`
  is the revision it names.
* `FailureOwners` says which of the code's four failure owners a verdict can name;
  `framework` and `unlocated` lead to the same code, and so one of the two is
  enough in a run.
* Whether a launch URL is given is a Boolean; malformed payloads, a receipt
  without reference and a deployment in another environment are refused and not
  enumerated. Names, notes, activity entries and timestamps are left out, and so
  is `latest_gate`, which nothing reads.
* `LegacyCommand` stands for every pre-V3 command on a V3 run. The lists those
  commands change are read by no V3 command, so all that is left of them is the
  stage derived afterwards. It may happen whenever the run is not live, more
  often than the code allows. On a run without DeliveryUnits they are `LegacyRun`.

The projection part (`AvailableActions` and the operators before it) is
translated separately from the engine's guards, as the code writes them twice. The
engine's guards have names of their own: `May...` is what a command is refused for, and
the action of the command is that guard and a value for each variable, so an action is
possible exactly when its guard holds. `CommandAccepted` puts the guards side by side with
the commands the projection names; `Accepted` in `LegacyRun` and `ProductLifecycle` (where
the guards are called `Can...`) does the same. `OfferedIsAccepted` compares the two copies.
`StaffAssumption` says that a human is there for each role, and one agent and one adapter.
It is a little stronger than the code: `validateDeliveryRunSpec` asks that every role has a
member, but does not ask who that is, and trims the roles (`run_factory.go:126`) that
`authorizeHumanCommand` compares as they are (`engine.go:941`). A run one of whose roles is
only there with spaces around it, or only for a member who is no human, waits for
somebody who cannot act.

### LegacyRun

| Variable | In the code |
|---|---|
| `planned`, `work`, `dependsOn` | `WorkPlanRevision > 0`, and status and dependencies of each of `WorkItems` |
| `executable` | `ExecutableRevision`: its code revision and what else it says |
| `builds` | `Builds`: the revision each is made of, generated or deployed to test |
| `verdicts` | the latest test and acceptance result of each case on the latest build |
| `issues` | for each case the Issue that is not closed: its status and the build that includes its fix |
| `checks`, `releases` | `ReleaseChecks` by identifier, `Releases` |

One action is one accepted command of a run without DeliveryUnits. `Stage` is
`DeriveStage`, which every one of these commands stores at its end, so it needs no
variable. `AvailableActions` is the branch of `ProjectionFor` that serves such runs.

What is abstracted:

* Verdicts on earlier builds are kept by the code and read by nothing once there is a
  later build, so only those of the latest are there.
* An Issue is named by its case. A case that fails again reopens its Issue while that
  is not closed (`openIssue`), so it has at most one, and a closed one is never read.
* An executable revision is a code revision and a reference; the engine compares both
  in `ensureReleaseStillValid`, the projection of builds only the first.
* Actors and launch URLs are checked by the same functions as in `DeliveryRun` and are
  left out, as are payloads refused for their form.

### WorkPlanCheck

One action is one step of `workPlanHasCycle`: the outer loop reaches an item, a call of
`visit` looks at a dependency, a call returns, the function returns. `path` and
`pending` are the stack of calls, `visiting` and `visited` the two marks. Both the outer
loop and the dependencies are taken in any order: for the first the code ranges over a
map, for the second the order is the agent's.
`LegacyRun!AcceptedPlan` is what the search promises, `WorkDependencies!Acyclic`: of
any items of the plan one depends on none of the others.

### VerifiedRelease

Three values: the candidate revision under judgement, whether it is accepted,
and whether it is being released or live. A candidate is put forward, sent back
only while it is not accepted, accepted in a step of its own, and released only
when accepted; acceptance is never withdrawn and live is final.
`DeliveryRun!ImplementsVerifiedRelease` is the refinement: the candidate is
`VerificationRevision`, it is accepted when all its verdicts pass. This is where
verdicts that outlive a reopening matter: if a revision could return with all
its old passes, a candidate would be accepted the moment it is put forward.

### ProductLifecycle

| Variable | In the code |
|---|---|
| `status`, `engineering` | `Product.Status`, `Product.Engineering.Status` |
| `definition`, `release` | `CurrentDefinitionRevision`, `CurrentReleaseRevision` |
| `baseline` | the roles of the last element of `Product.Revisions` |
| `deployment` | the run `Product.CurrentDeployment` was installed from |
| `features` | `Product.Features`: status, place in the queue, draft version, readiness, roles declared and granted to, run |
| `runs` | the `delivery_runs` of the Product: Feature, frozen product revision, whether it has DeliveryUnits, and whether it is open, stuck or live |

The actions are the commands of `ApplyProduct`, `StartDelivery`, and `GoLive`: the
transaction in which the store writes the run's last command and, through
`InstallDeliveryRun`, the Product. `AvailableActions` is `ProductProjectionFor`.

What is abstracted:

* Of a run only three stages are left. `GoLive` may happen to any open run and
  `GetStuck` is the verdict that ends in `"bugs"`; `DeliveryRun` has what lies
  between. What `installV3DeliveryRun` asks of a live run (verdicts at the released
  revision, receipt, launch URL) is `DeliveryRun!Installable`, and `LiveIsInstallable`
  says that it always holds; that the live Release of a legacy run is of its executable
  revision is part of `LegacyRun!ReleaseStands`. What `InstallDeliveryRun` asks of the
  Product is `Installable` here, and `InstallNeverRefused` says that it always holds. So
  `GoLive` needs no more than an open run.
* The store may hold a run without DeliveryUnits, begun before they existed:
  nothing in the code creates one any more, but the engine and the installation
  still serve it, and only such a run brings a new ProductRevision. `LegacyRun` puts
  one, of the first Feature, in the initial state. Its executable revision extends
  the baseline the Feature was drafted on, which is the run's own there.
* A specification is the roles it declares, the roles it grants to, and whether
  anything else blocks it. Codes, texts, decisions, sources and attachments are
  left out. A Feature is confirmed at most once, so `ConfirmedRevision` is 1 for all
  that are; `baseline_product_revision` of a draft is checked when it is written and
  read by no command on a run with DeliveryUnits.
* A command with malformed content or a stale version is refused and is a stutter.

### FeatureDiscovery

A Feature is its place in `Product.Features`, with code, status, place in the queue,
draft version, workspace, the readiness and next question stored with it, and the
Conversations and Runs that contributed. Of the Product there are the definition
revision and the roles of its baseline. `ReplaceFeatureDiscovery` is the one handler
for a new and for an existing draft; `ConfirmFeature` reads what is stored, as the code
does, and never the workspace.

What is abstracted:

* Texts. A section of a specification whose texts are incomplete is named in
  `missing`; what is a list with references (questions, conflicts, assumptions,
  decisions, scenarios, roles, grants) is there with its references, and so is the
  scenario a question is in focus for.
* Ids within a workspace are unique; what is refused for its form is not enumerated.
  The evidence of a conflict is a list, as two mentions of one id count as two
  (`feature_discovery.go:179`).
* A source is its pair of Conversation and Run. When the same pair replaces a draft
  again, `appendFeatureSource` puts the new source and decision references in place of
  the old ones; `SourcesAreFrozen` says nothing of these.
* A Feature is started and installed only by `InstallLegacyRun`, the one installation
  that changes what discovery reads: it raises the definition revision under the
  drafts and brings roles. Deliveries of V3 runs are in `ProductLifecycle`.

`Lifecycle` is the refinement: what `ProductLifecycle` calls a complete specification
is being ready here, with its conflicts, decisions, assumptions, grants and questions.

### DeliveryQueue

Waiting, delivering, installed: a confirmed Feature is appended, the first is
started when none is in delivery, and what is in delivery is installed. The
refinement sorts the Features of each status by `delivery_sequence`, so it says
that the numbers, computed by a maximum over all Features, make a queue whatever
commands come in between.

### CommandStore

| Variable | In the code |
|---|---|
| `products`, `runs` | the rows of `delivery_products` and `delivery_runs`: a document is the log of what was written to it, its length is its revision |
| `productReceipts`, `runReceipts` | `delivery_product_command_receipts`, `delivery_command_receipts`: fingerprint and response by aggregate and client id |
| `reply` | the last answer that was not an error |

One action is one transaction: `CreateProduct`, `TransactProduct`, `StartDelivery`,
`Transact` with `Install`, `WriteAttachments`, `EnsureProduct`, and a `Repeat...` for
each lookup that finds a receipt. Their order inside is the code's: receipt before
row, row before revision, revision before mutation, and both documents and the receipt
before the commit.
`RepeatStart` answers for any command of the Product that has a receipt, since
the type of a command is looked at only when a delivery is really started;
`StartAnswerNamesItsRun` speaks of the starts among these.

What is abstracted:

* The database is serialisable and a transaction atomic: the store opens each with the
  default isolation, SQLite admits one writer, and a crash rolls an open one back. So
  there is no step between the reads and the write of a transaction.
* There is no network. A client may send anything naming any revision a document has
  had, at any time and again; that is every message that could be late, lost,
  duplicated or reordered, without a variable to hold it.
* What the domain makes of a command is left out, except that it may be refused and
  that it may leave a run live. A refusal changes nothing and is a stutter. So the
  model allows orders of commands the domain does not, starts of two deliveries at
  once among them.
* The fingerprint is the command: actor, type and payload, as
  `service.commandFingerprint` takes them, and not the expected revision or the ids in
  the path. A fingerprint collision is left out.
* Attachment writes have neither client id nor receipt, so all that is left of them
  here is a fenced write to the Product.
* `Store.Ensure`, the seed for runs, is called by tests only.

### CommandLedger

Every Product and every run is the list of the commands that made it. A command
enters a list once, with at most one consequence in another list, and whoever sends it
again is told the list up to it. The refinement forgets revisions and receipts.

### FeatureAttachments

| Variable | In the code |
|---|---|
| `status` | draft, or confirmed and later |
| `attachments`, `frozen` | `Feature.Attachments`, and those of the confirmed revision |
| `stored` | the rows of `delivery_feature_attachments`: key, content, metadata |

`StoreFeatureAttachment` and `DeleteFeatureAttachment` are the store's transactions,
`AddFeatureAttachment` and `RemoveFeatureAttachment` the Feature's part in them. The store
looks a row up, inserts it and deletes it by the two ids in the path, the Feature's and the
attachment's, as the request spells them; the Feature is found, and its list is searched, by
the trimmed ids. So the ids of a request are the attachment's name and whether spaces
surround it and whether they surround the Feature's id, and all three are in a row's key.
`Respelled` are the attachments for which requests with spaces occur; the others are only
ever sent as the Product shows them, which is what `GetFeatureAttachment` fetches by.
A content is told apart by its SHA-256. Names, media types and sizes are left out, and what is
refused for them is a stutter.

## What the runs check

All runs of `DeliveryRun` use `MCDeliveryRun`. The people of a run are a *team*, one role each, or
a *solo* owner with all three roles; besides them there is one agent and one
system adapter. Deadlock is not checked since a live run accepts no command; that
an open run is not stuck is a property instead (`OpenRunOffersAction`).

| Run | Instance | Shows |
|---|---|---|
| `verdicts` | 2 revisions, 2 criteria, failures of the backend or the framework, solo, 1 release | `EvidenceInvariant` (inductive), `StageFollowsEvidence`, `BugsIsTerminal`, `ImplementsVerifiedRelease` |
| `releases` | 1 revision, 1 criterion, failures of frontend, backend or framework, 2 checks, 2 environments, team, 2 releases, fairness | `ReleasesStand`, `LiveIsHumanConfirmed`, `LiveIsInstallable`, `OfferedIsAccepted`, `OpenRunOffersAction`, `EvidenceFrozenDuringRelease`, `ReleaseForward`, `ApprovedIsSettled` |
| `stalled` | 1 revision, 2 criteria | expected violation of `TestingOffersQuality` |
| `legacy` | 2 items, 1 criterion, 2 code revisions, 3 builds, 2 releases, fairness | `LegacyInvariant` (inductive), `StageOffersItsWork`, `OfferedIsAccepted`, `WorkGetsDone` |
| `stranded` | 1 item, 2 builds, 1 release | expected violation of `BugsOfferFix` |
| `plan` | every plan of up to 4 items, fairness | `SearchInvariant` (inductive), `VerdictIsRight`, `SearchAdvances`, `SearchEnds` |
| `queue` | 3 Features, 1 role, 2 draft versions, with and without a legacy run, fairness | `LifecycleInvariant` (inductive), `InstallNeverRefused`, `DeploymentIsLatest`, `OfferedIsAccepted`, `QueueOffersNext`, `ImplementsDeliveryQueue`, `ConfirmedAsRead`, `QueueProgresses` |
| `archived` | 2 Features | expected violation of `ArchivedIsFrozen` |
| `discovery` | 2 Features, 2 Conversations, 2 draft versions, 22 workspaces, with and without a legacy run | `DiscoveryInvariant`, `SourcesAreFrozen`, `ImplementsProductLifecycle` |
| `retries` | 2 Products, 2 runs, 2 client ids, 2 codes, revisions to 3 | `StoreInvariant` (inductive), `RunsAreBooked`, `AppliedOnce`, `NoLostUpdate`, `AnswerIsOriginal`, `ImplementsCommandLedger` |
| `mismatched` | 1 Product, 2 runs | expected violation of `StartAnswerNamesItsRun` |
| `kept` | 3 ids, 2 of them in 4 spellings, 2 contents, limit 2 | `AttachmentInvariant`, `ListAndTableAgree`, `ConfirmedContentStays` |

Why the bounds are enough. Two criteria are needed for the order of verdicts:
the first case without a pass decides the stage, and one case may pass while
another fails. Two revisions are needed for a verdict on one revision while
another is implemented, and for the same revision coming back; the code compares
revisions for equality only, so a third adds nothing, and they are
interchangeable (symmetry, in runs without liveness properties). Two checks let
one be required and the other not, or one be missing. Two environments let them
differ. Two releases let a failed one be followed by another. `MaxReleases` is
the only bound on a counter.

For the Product, three Features are one in delivery, one waiting and one being
confirmed or replaced, which is what it takes to overtake; the queue compares two at
a time. One role is enough to be declared by one Feature and granted to by another.
Two versions let a draft be replaced between reading and confirming. `MaxFeatures`
and `MaxVersion` bound the two counters; there is at most one run per Feature, so
runs need no bound of their own. Deadlock is not checked since an archived Product
accepts no command.

For a legacy run, two items let one depend on the other; two code revisions let a fix
be of another revision than the build it fixes; three builds are one that fails, one
whose fix fails again and one after it; two releases let a failed one be followed by
verdicts and by another. One case of each kind is a test and an acceptance whose Issues
live side by side. `MaxBuilds` and `MaxReleases` bound the two counters.

For the cycle check, four items hold every small shape there is: chains, forks, joins,
two separate circles, and a circle behind a chain that was already visited.

For discovery, two Features are the one that establishes the baseline and one that
follows, and two draft versions let a draft be replaced before it is confirmed. The
workspaces are those of one scenario with one actor, settled, with each kind of matter
open or closed, and some with references that are refused; a question list holds an
answered question with the highest rank and two open ones of equal rank.

For the store, two client ids are one command and the one that overtakes it, and any
command may carry either, so an id is reused for another command of any kind. Two
Products compete for two codes, and a start meets a run id that another Product used.
Revision 3 fits a creation, a start and an installation, and a request may be stale by
one or by two. More would only repeat these: the proofs hold for any number.
`MaxRevision` is the only bound on a counter. Client ids and run ids are interchangeable
(symmetry); Products are not, as one of them is the seed. Deadlock is not checked since
with all client ids used and all documents at the bound only refusals are left; a client
is never stuck in the code, as it may choose another id.

For the attachments, a limit of two with three ids reaches the limit, and one more id
waits at it; one of the ids has a single spelling. Two contents are what it takes to differ.
Spaces around the attachment's id, the Feature's, or both make the four spellings. The code
trims all spaces at once, so any other spelling behaves like one of these.

The interesting cases do happen: each property has a mutant, an operator with
the name `Mut...` that changes one definition as a plausible slip in the code
would, under which TLC violates the property in the same run.

### Fairness

`FairSpec` adds weak fairness of `RecordDeployment` (the trusted adapter executes
an approved release and reports) and of `ReconcileDeployment` (a release
approver settles an unknown outcome). Nothing else is fair: agents and people may
stop at any time. The code schedules nothing itself; the two assumptions are
those parties' duty, and what `ApprovedIsSettled` shows is that the engine never
leaves them unable to do it: no command accepted between approval and outcome
makes the receipt or the reconciliation unacceptable.

`LegacyRun!FairSpec` adds weak fairness of starting and of completing each WorkItem, which
is what Agents are offered. `WorkGetsDone` shows that this suffices for every accepted
plan, in whatever order items are started: completion waits for dependencies, starting
does not. `WorkPlanCheck!FairSpec` says that a function call goes on until it returns.

`ProductLifecycle!FairSpec` adds weak fairness of the engineering initialisation and of
the delivery start, the two things Agents are offered, and of the end of an open
run, which is live or stuck. The first two are what the Agents are there for. The
last is not guaranteed by the code: a run may stay open as long as its people like,
and `QueueProgresses` says what they get if it does not.

### Findings

* `stalled`: after a failed acceptance sent the unit back, completing it again
  at the same revision stores `"testing"` although QA still passes there. The
  projection then offers nothing, and acceptance is refused. An unoffered QA
  command gets the run out. `StageFollowsEvidence` shows that this is the only
  way the stored stage can differ from the derived one.
* `archived`: the archive check is in `ApplyProduct`, which delivery start does not go
  through; an Agent starts the next delivery of an archived Product.
  The installation does not ask either: a run still open when its Product is deleted
  can go live, and sets the Product active, and so listed, again.
* `stranded`: after a Release has failed, a verdict that fails on its build opens an
  Issue whose fix can be completed and then not be recorded, since revisions cannot be
  recorded once there is a Release, and not be built as far as the projection says. The
  run stays at `"bugs"` and offers nothing for it. The engine itself would accept a
  build of the old revision. `StageOffersItsWork` shows that this is the only such case.
* `mismatched`: the receipt of a delivery start holds the Product alone; a repeated start
  answers with it and with the run as it is now. The run id of a delivery start is in the path and not in the fingerprint,
  so the client id of a start that was accepted, sent with the id of another run,
  is answered with success and that other run.

Three more observations have no run, as nothing in the repository promises otherwise.
Roles are looked up in the drafts of other Features when a discovery is replaced and not
again at confirmation (`product_engine.go:331`): a Feature may be confirmed that grants
to a role only a replaced draft declared. The ids of an attachment and of its Feature are trimmed for the list and
not for the table (`product_attachment.go:27`, `:76`, `store.go:647`). An attachment `a`
uploaded under the Feature's id between spaces is listed in that Feature and not found
when it is fetched by the ids that are shown; uploaded again under these, it has two rows.
With one of the two removed and uploaded again with another content, both rows say they
are `a`. `AttachmentInvariant` shows that no listed attachment lacks its content for
any of this, and `ListAndTableAgree` is claimed for the attachments it does not happen to. And a legacy ReleaseCheck names no build (`engine.go:630`), so that one passed
before a build counts after it, unlike those of V3 runs.

## What is proved

`DeliveryRunProofs` proves, for every set of revisions, checks, environments and
actors and every number of criteria and releases, from `RunAssumption` only (at
least one criterion, since `assessFeatureAcceptance` asks for one, and sane types
of the constants):

| Theorem | States |
|---|---|
| `EvidenceHolds` | `[]EvidenceInvariant` |
| `TypeCorrect` | `[]TypeOK` |
| `GatesHold` | `[]UnitGates` |
| `AcceptedHolds` | `[]AcceptedIsCandidate` |
| `ReleaseEvidenceHolds` | `[]ReleaseEvidence` |
| `OneActiveHolds` | `[]OneActiveRelease` |
| `ReleasesStandHolds` | `[]ReleasesStand`: the two together |
| `EvidenceFrozen` | `EvidenceFrozenDuringRelease` |
| `RunImplementsPromise` | `ImplementsVerifiedRelease` |

The argument. `ReleaseEvidence` is not inductive: that no unit command and no
verdict arrives while a release stands depends on the stage, and the stage on
the verdicts. `EvidenceInvariant` closes it: types, the unit's gates,
*an accepted revision is the one under verification and the stage is at least
release* (`AcceptedIsCandidate`), and *the release stage and every passed check
stand on the accepted revision* (`ReleaseGround`). Given these, a unit command
needs an active unit, which an accepted revision excludes; a verdict needs the
stage testing or acceptance, which it excludes too; and the checks are locked
while a release stands. `AcceptedIsCandidate` itself is where reopening matters:
the verdict that sends a revision back is a failure recorded at that revision,
so it leaves at least one case of it without a pass. At most one release
stands since each would be of the one revision under verification, and prepare
refuses a second one of a revision. The refinement uses these invariants on both
ends of each step.

`DeliveryOutcomeProofs` goes on from there, from the same assumption and, for the last
theorem, from `StaffAssumption`:

| Theorem | States |
|---|---|
| `ReleaseForwardHolds` | `ReleaseForward` |
| `LiveIsConfirmed` | `[]LiveIsHumanConfirmed` |
| `StageHolds` | `[]StageFollowsEvidence` |
| `LiveRunsInstall` | `[]LiveIsInstallable` |
| `BugsAreTerminal` | `BugsIsTerminal` |
| `OpenRunOffers` | `[]OpenRunOffersAction` |
| `OffersAreAccepted` | `[]OfferedIsAccepted` |

The argument. Who passed a case and who approved a Release is kept with the verdict and
with the Release (`ConfirmedByMembers`, `ApprovedByMembers`), so it only has to be shown
that no later command rewrites them. Unit commands do not write the stage, and until the
last of them the unit is active and the stage is `"development"`, stored and derived. The
last one stores `"testing"`: of the revision it brings forward no case may be stuck, and
not everything may be accepted. `BugsGround` and `AcceptedIsCandidate` give that, as both
are true of the revision under verification only, and there is none while a unit is
active. (A case is stuck when it failed, its owner is one no phase belongs to, and all
before it passed.) `BugsGround` also makes `"bugs"` terminal: no unit is active then, and no
revision accepted, so nothing but a pre-V3 command is left, which derives `"bugs"` again.
`LiveRunsInstall` puts all of this together: the stored stage can differ from the derived
one at `"acceptance"` only, so a run with a live Release is at `"live"`; that Release is the
only one that stands, its revision is the one under verification with every verdict
passed, and it was deployed with a URL. `OpenRunOffers` goes through the stages: each offers its work until the last piece of
it is done, and then it is not the derived stage any more. `OffersAreAccepted` compares
the copies of each guard where they differ. The projection offers approval and deployment
by the status of the Release alone, and the engine checks the gates again: a Release in
progress stands on them (`ReleaseEvidence`). It offers preparation without asking for the
environment, and the engine wants that of every check to be the target: all checks are of
one environment (`OneEnvironment`), as they are replaced together. It offers deployment
and reconciliation without looking at the attempt, and the engine does: there is one
exactly when the status says so (`AttemptsRecorded`).

`ProductLifecycleProofs` proves, for every set of roles and every number of Features
and versions, from `ProductAssumption` (types of the constants):

| Theorem | States |
|---|---|
| `LifecycleHolds` | `[]LifecycleInvariant` |
| `ProductTypeCorrect` | `[]TypeOK` |
| `RunsAndFeaturesAgree` | `[]RunsMatchFeatures` |
| `InstallationNeverRefused` | `[]InstallNeverRefused` |
| `ConfirmedStaysAsRead` | `ConfirmedAsRead` |
| `DeploymentStaysLatest` | `[]DeploymentIsLatest` |
| `ProductImplementsQueue` | `ImplementsDeliveryQueue` |
| `OffersAreAccepted` | `[]OfferedIsAccepted` |
| `QueueNeverStalls` | `[]QueueOffersNext` |

The argument. `InstallNeverRefused` needs the release baseline to stand still while a
run is open. Only a legacy run moves it, when it goes live, and it would then strand
every other open run; so there must be no other. That follows from two facts
together: a run that is not live has its Feature in delivery (`RunsMatchFeatures`),
and no two Features are in delivery (`QueueInOrder`), which is `OneRunAtMost`.
`QueueInOrder` also carries that the numbers given are exactly 0 to the highest, which
makes the next one new, and that what is in delivery or installed came before all
that waits, which is what starting the lowest number preserves. `DeploymentIsLatest`
uses the same order: what is in delivery comes after all that is installed, so the run
that goes live is the one of the highest number installed then.

The refinement needs the queue without a gap (`QueueCut`): the installed Features have the
numbers 1 to i, the one in delivery, if any, i + 1, those that wait the rest, and a draft
has none. A set numbered so has exactly one sequence in order (`OrderedIs`), which says what
becomes of the three sequences when the next number is given (`OrderedLast`) and when the
lowest goes (`OrderedRest`). `QueueNeverStalls` has the same ground: the code looks for the
Feature with the lowest number that waits, and the cut says that there is one when any
waits, and that no two share it. An offer to a draft names its version: `OffersAreAccepted`
needs every draft to have one (`DraftsAreVersioned`).

`CommandStoreProofs` proves, for every set of Products, runs, client ids and commands
and every bound on revisions, from `StoreAssumption` (the ids of Products and runs
differ, the placeholders are none of the ids, and the mark of an installation is no
command that starts a delivery):

| Theorem | States |
|---|---|
| `StoreHolds` | `[]StoreInvariant` |
| `StoreTypeCorrect` | `[]TypeOK` |
| `CommandsApplyOnce` | `[]AppliedOnce` |
| `NoUpdateIsLost` | `[]NoLostUpdate` |
| `AnswersAreOriginal` | `[]AnswerIsOriginal` |
| `HistoryStands` | `HistoryOnlyGrows` |
| `BooksAgree` | `[]RunsAreBooked` |
| `StoreImplementsLedger` | `ImplementsCommandLedger` |

The argument. `AppliedOnce` is not inductive: that a command is not in its document
when it is applied has to follow from the missing receipt. `Faithful` says so, for one
document and its receipts: every command in the document has a receipt, and every
receipt holds the document up to its command. Two lemmas carry the proof: an entry that
is written with its receipt keeps a faithful document faithful, and so does an entry
nobody sent, since what was a prefix of the document still is. Each action is an instance of one of them,
for each of the two documents it writes. `RunsAreBooked` relates documents of two kinds:
a start and an installation write to both at once, an entry that is neither touches no
book, and an entry keeps its place because documents only grow. The refinement maps a row
to the list of what it holds; `Faithful` shows that a command that passes the receipt
lookup is in no list, and `AnswerIsOriginal` that a repetition tells the list up to it.
`HistoryStands` is proved without a run of its own: the ledger's lists only grow, so
`ImplementsCommandLedger` checks it with the rest.

`LegacyRunProofs` proves, for every set of items, criteria, codes and checks and every
number of builds and releases, from `LegacyAssumption` (at least one criterion, a
placeholder that is no revision, and the types of the bounds):

| Theorem | States |
|---|---|
| `LegacyHolds` | `[]LegacyInvariant` |
| `StageOffersWork` | `[]StageOffersItsWork` |
| `OffersAreAccepted` | `[]OfferedIsAccepted` |

The argument. A Release stands because everything that could take its ground away is
locked by it: verdicts on its build, revisions, builds and checks. What is not locked is
`build.create` of a fix and the commands of Issues, and there is no Issue to fix: every
case passes on the latest build, and a case that passes has none that no build includes
(`FailureIsAccountable`), since a verdict on the build that includes the fix closes it.
That is why the invariant speaks of Issues, verdicts and builds at once.
`StageOffersItsWork` follows from it stage by stage. Its hard case is `"development"`:
some item is not merged, and it must be shown that one can be started or completed. The
items that are not merged do not all wait for each other, as the plan is acyclic, so one
of them depends on merged items only. `StageGround` is there for the others: a revision
that no build is made of waits for a fix, and checks stay passed under a Release.
`OffersAreAccepted` needs `ReleaseStands` for what the engine checks again at approval and
deployment, and that all checks are of one environment.

`WorkPlanCheckProofs` proves, for every set of items (`SearchIsBounded`: every finite one,
as plans are), without assumptions:

| Theorem | States |
|---|---|
| `SearchHolds` | `[]SearchInvariant` |
| `VerdictHolds` | `[]VerdictIsRight` |
| `SearchAdvancing` | `SearchAdvances` |
| `SearchIsBounded` | a natural number goes down with every step |

The argument. The open calls form a path of dependencies, so an item met on it closes a
circle, and the items from there to the end of the path all wait for each other. What
is visited depends on visited items only and contains no circle: the item returned from
depends on what was visited before it, so any set of visited items that contains it
and waits for itself would be smaller without it. When the search ends, all is visited.
What it has left to do is a set (`WorkLeft`): items to reach and to return from, dependencies
to look at, the answer to give. Each step takes something out and puts nothing in, as a
call that meets a mark opens nothing, and one that does not opens what was to be looked at
before. The cardinality of that set bounds the steps: two for an item, one for a
dependency, and the answer. That the search then does take its steps is `SearchEnds`.

`FeatureAttachmentsProofs` proves, for every set of ids and contents, with spaces around any
of the ids and the Feature's, and every limit, from `AttachmentAssumption` (types of the
constants):

| Theorem | States |
|---|---|
| `ContentStaysKept` | `[]AttachmentInvariant` |
| `ListAndTableStayTogether` | `[]ListAndTableAgree` |
| `ConfirmedContentKept` | `ConfirmedContentStays` |

The argument. `Tidy` adds what both tables keep to themselves: the list has an id once, a
row says of its own key what was uploaded under it, and a key has one row. An upload adds
a row under its spelling, and an entry unless the same one is listed. A removal takes the
entry and one row together, and that row says nothing of any other entry. An attachment
outside `Respelled` has one key (`OneSpelling`), the one it is fetched by, so its entry has
that row alone and goes with it, which keeps list and table together. For the others
`ListAndTableAgree` does not hold, and nothing of it is claimed.

`FeatureDiscoveryProofs` proves, for every set of workspaces and any number of Features
and drafts, from `DiscoveryAssumption` (the workspaces refer to known ids only, and types of
the bounds):

| Theorem | States |
|---|---|
| `DiscoveryHolds` | `[]DiscoveryInvariant` |
| `SourcesStayFrozen` | `SourcesAreFrozen` |
| `DiscoveryImplementsLifecycle` | `ImplementsProductLifecycle` |

The argument. That a ready workspace leaves nothing open is a fact about `Ready`, and what
is stored with a draft is worked out of the workspace stored with it, so the invariant is a
statement about each Feature for itself (`Sound`), and about the codes. The lemmas it rests
on are about finite sets: a set of open questions has one of the highest rank, and of those
a first one, and of the codes Delivery can choose one is not taken, as there are more of
them than Features. The refinement needs that a draft has no place in the queue, and that
nothing but the first Feature, of the run of the older engine, is delivered here
(`OldRunOnly`).

Model-checked only: liveness under fairness (`ApprovedIsSettled`, `QueueProgresses`,
`WorkGetsDone`, `SearchEnds`), which is out of the prover's reach, as is ENABLED. The
`OfferedIsAccepted` of run, legacy run and Product are therefore stated by the guards, and
`SearchIsBounded` and `QueueNeverStalls` are the parts of two of the liveness properties
that are not about fairness. The properties of the four runs with an expected violation
are false, and what is true instead of them is proved: `StageFollowsEvidence`,
`StageOffersItsWork`, `InstallNeverRefused` and `AnswerIsOriginal`.

## Plan

All components with state and an order of events are modelled, and every safety and action
property the runs check is proved.

## Not modelled

The HTTP handler, remote adapter, SDK and module binding hand each call on unchanged.
The service resolves who sends a command before any state is touched; its result is
a parameter of the actions. The validation of Product definitions judges one document
field by field and has no order of events, and the texts of a specification are judged
the same way. Localization, seed data and the server command have no state of their own.
SQLite is taken to be serialisable and to commit or roll back as a whole.
