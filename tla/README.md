# machine-api in TLA+

A verification development for the controllers of this repository. The code is
Go, built on controller-runtime v0.6: a manager process (`main.go`) runs four
controllers, each a *reconcile handler* that is called with the key of one
object, reads that object and others, and writes what has to be changed to the
Kubernetes API server. A handler keeps nothing between two calls; everything
that lasts is in API objects. What makes such code hard is not in any single
handler but between its API calls: other workers, the user, the infrastructure
providers, kubelets, the garbage collector and crashes act there, and half of
what the handler reads comes from a cache that is behind.

## 1. The system: an inventory

| Component | State it keeps or changes | Operations | Interacts through |
|---|---|---|---|
| Machine controller (`controllers/machine`) | Machine objects (finalizer, provider ID, NodeRef, readiness, failure, phase), owner references of infrastructure objects, Nodes (cordon, pods, removal) | normal loop: `reconcileInfrastructure`, `reconcileNodeRef`, `reconcilePhase`, deferred patch; deletion loop: `reconcileDelete`, finalizer | API server, informer cache (Machines, Nodes), workqueue, tracker |
| Patch helper (`util/patch`) | the copy of the object that was read | `NewHelper`, `Patch`: object, then status | Machine and InfrastructureProvider controllers |
| Object tracker (`util/external/tracker.go`) | a `sync.Map` of kinds that have been seen | `Watch` | all workers of one controller |
| External accessors (`util/external/util.go`, `util/util.go`) | none | `Get`, `IsReady`, `FailuresFrom`, lookups for providers | |
| Config controller (`controllers/config`) | Config status, bootstrap Secrets | validate, render, create a Secret, publish it | API server, cache |
| cloud-init (`util/cloudinit`) | none | `Write`, `CreateMessage` | Config controller |
| InfrastructureProvider controller (`controllers/infraprovider`) | InfrastructureProvider status, owner reference of the referenced object | `reconcileExternal`, readiness | tracker, patch helper |
| CSR approver (`controllers/csrapprover`) | the Approved condition of a CSR | wait for Node and Machine, compare, approve | cache, API server |
| Node controller (`controllers/node`) | Machines for Nodes that have none, an annotation | disabled in `main.go` lines 107-114 | |
| Manager (`main.go`) | the process: caches, queues, workers | start, leader election (off by default), concurrency limits | |

What has to be right, component by component:

* **Machine controller.** A Machine is not removed before its infrastructure has
  been told to go; the Node is drained before that and deleted after it; the last
  Node of the control plane stays; a NodeRef that was found is never lost although
  every write starts from an old copy; deletions complete; the status catches up
  with infrastructure and Nodes after any order of events; failures are shown.
* **Tracker.** One watch per kind, however many workers ask at once; the watch is
  really there when callers believe it is.
* **Config controller.** What is published was rendered from the present Spec,
  exists, and stays; a Config that can be rendered becomes ready; nothing is left
  behind when it is deleted; errors that no retry cures are reported.
* **InfrastructureProvider controller.** Its readiness settles to that of the
  object it owns; it never takes an object from another provider, although the
  read that decides and the patch that adopts are two calls.
* **CSR approver.** A request that arrives before its Machine is ready is answered
  in the end; no decision is overturned; what was reviewed and approved belongs to
  a Machine that has its Node.
* **cloud-init.** The new machine reads from the document what was put into it, and
  each path on its disk gets the content that was asked for.

The hazards behind these, each with its line, are listed in `PROJECT.json`.

## 2. The modules

| Module | What it is |
|---|---|
| `MachineController` | the Machine controller with its environment |
| `MachineLifecycle` | what a Machine goes through as others see it (abstract), implemented by `MachineController`, used by `CSRApprover` |
| `MachineControllerProofs` | its types, its invariant, four action properties |
| `MachineEffectsProofs` | what others see of it: owners of infrastructure, the drain before the teardown, and that it implements `MachineLifecycle` |
| `MachineSettledProofs` | it loses no wake-up |
| `WatchOnce` | what callers may rely on of the tracker (abstract) |
| `ObjectTracker`, `ObjectTrackerProofs` | the tracker itself, its invariant, and that it implements `WatchOnce` |
| `ConfigController`, `ConfigControllerProofs` | the Config controller with its environment |
| `CloudInit`, `CloudInitProofs` | what that controller gathers and renders, and what the new machine reads |
| `InfraProviderController`, `InfraProviderControllerProofs` | the InfrastructureProvider controller with its environment |
| `CSRApprover`, `CSRApproverProofs` | the CSR approver on top of `MachineLifecycle` |
| `MCMachineController`, `MCConfigController`, `MCInfraProviderController`, `MCCSRApprover`, `MCCloudInit` | values of the constants for TLC |

Definitions whose comment begins with "Mutant of" are not part of a
specification: each is a plausible bug that, put in place of the definition it
names, makes TLC find a property violated. They show that the properties are
able to fail.

### MachineController

*State.* `machine`, `infra`, `node` are the objects at the API server; `cached`
and `nodeCache` are the informers' view; `queue` is the workqueue; `watch` is the
state of the tracker's watch on the infrastructure kind; `manager` is the
process. For each Machine, `pc`, `base`, `obj`, `got`, `again`, `allowed` are
the program counter and the local variables of the handler that runs for it:
`base` is the object as it was read (the patch helper's copy, and what the
resourceVersion of an Update stands for), `obj` the one it modifies in memory.

*Steps.* The handler is cut at its API calls.

| Code | Actions |
|---|---|
| `Reconcile` up to the first write | `ReconcileGone`, `ReconcileNormal`, `ReconcileDeleting` |
| `reconcileInfrastructure`, `reconcileExternal` | `InfraNotFound`, `InfraAlreadyOwned`, `GetInfra`, then `AdoptFails` or `PatchInfra` |
| `externalTracker.Watch`, and what follows it | `KindSeen`, or `FirstOfKind` and then `WatchAdded` or `WatchFails` (all but the last take over what was read: `TakesOver`) |
| `reconcileNodeRef`, `reconcilePhase` | `NodeRef` (the Nodes come from the cache: no API call, one step) |
| deferred `Patch` | `PatchMachine`, then `PatchStatus` |
| `Status().Update`, `reconcileDelete` | `MarkTerminating`, `Delete`, `Cordon`, `Evict`, `DeleteExternal` or `DeleteExternalPanics`, `DeleteNode` |
| `RemoveFinalizer`, `Update` | `RemoveFinalizer` |
| any call that fails otherwise, a drain that times out | `ApiError` |
| the process | `Crash`, `Restart` |
| informers | `Deliver`, `SyncNode`, `Resync` |

The user, the providers, admins, kubelets and the garbage collector are not code
of this repository; their actions (`DeleteMachine` ... `RemoveNode`) are what the
code under `src/` has to cope with, and are marked external in the map.

*Abstractions.*

* An infrastructure object stands for its provider ID and for the Node that
  registers with that provider ID. There is one kind of infrastructure.
* A Machine has an infrastructure reference or a provider ID that the user gave
  (`GivenID`), not both (`ConstantsAssumption`). The code does not enforce this:
  with both, `reconcileInfrastructure` replaces the user's provider ID by that of
  the infrastructure, a reconcile with an old copy may meanwhile find the Node of
  the first, and `NodeRefStable` would not hold. No such Machine is modelled.
* The cache moves straight to the latest version of a Machine; versions in
  between may be skipped, as watch events may be compressed.
* An Update's resourceVersion check is the comparison of the object's content
  with the content that was read. No write of this system restores an earlier
  content while a reconcile holds it, so the two agree.
* The get and the delete in `reconcileDeleteExternal` are one step: the object
  going in between is tolerated by the delete, and has the outcome of the object
  going right after it.
* The delay of a requeue is not modelled: a key that is requeued is in the queue.
  Hence nothing here depends on how long a poll interval or a backoff is.
* A reply that is lost after the write took effect is not modelled for Machines
  (it is for Configs, providers and requests); names of Machines are not used
  again; there is a single manager.
* A provider ID given by the user (`GivenID`) is part of the module and of the
  proofs; the runs give none, because a second kind of Machine beside the first
  takes them beyond reach.
* Addresses, Kubernetes version, failure domain and recorder events are left out:
  no decision depends on them.

### MachineLifecycle

`Shown` maps a Machine's object to five flags: it exists, it is managed (it has the
finalizer), it is being deleted, it has a NodeRef, it is ready; `Torn` maps its
infrastructure to one: it was told to go, or is gone. `MachineLifecycle` says how
these may change: the finalizer comes before the deletion only, a NodeRef stays, a
Machine that is being deleted is only ever released, and, if it got a Node, after
the teardown. `LivesOneLife` in `MachineController` is that specification under
the mapping. What it hides is everything hard: caches, old copies, the two patches
of one reconcile, conflicts, several workers, crashes.

### ObjectTracker and WatchOnce

`ObjectTracker` has the map of seen kinds and, for each worker, the kind it is
inside `Controller.Watch` for. `WatchOnce` says that each kind goes, at most
once, from "none" to "adding" and from there to "watching" or to "lost". The
refinement maps the map, the watches and the workers to that (`Outcome`). Who finds
a kind that is not in state "none" is sent on at once: nobody but the worker that
adds a watch waits for it.

`MachineController` has the same steps for its one kind. `FirstOfKind` stores the
kind, `WatchAdded` and `WatchFails` are the return of `Controller.Watch`, and between
them any other worker gets past `KindSeen`, takes over what it read, and may finish
without a requeue although no informer runs. Only a restart of the process sets
`watch` back to "none". `InfraProviderController` has one worker, so nobody can get
between these steps there, and they are one with `Adopt`.

### ConfigController

Reconciles of different Configs share nothing, so the module follows one Config.
Several managers may serve it, because leader election is optional. The handler
is cut at its two writes: `Render` is everything up to the Secret to create (all
of it from caches), then `CreateSecret`, then `UpdateStatus`. A reply may be lost
after the write took effect (`CreateFails`, `UpdateFails`). A Secret's content is
abstracted to the Spec that it was rendered from. `Name` stands for the names
`GenerateName` can give; a name that is taken makes `Create` fail, so a finite
`Name` bounds the Secrets that failed attempts leave behind.

### CloudInit

`ConfigController` abstracts a Secret's content to the Spec that it was rendered
from; `CloudInit` is what happens in its `Render`. `VisitFile` is one turn of the inner
loop over the source Secrets (`controllers/config/controller.go` lines 120-139): the
Secrets in any order, as Go's maps are ranged over, and the SecretFiles of one
Secret, grouped in lines 116-119, in the order of the Spec, none of another Secret
between them (`visited`). `Write` executes the templates of `util/cloudinit`. The
document is a sequence of lines with their indentation, keys and values; values are
members of any set `Value`. `IsSpec` and the types it is made of are those of
`config_types.go`.

`ReadFiles`, `ReadUsers` and the operators under them are the reader: what YAML and
cloud-init on the new machine make of the document. They are written from YAML's
rules, not from the templates, and serve as the reference definition. The reader
works by positions: a section is what lies between a line of the top level and the
next one (`Section`, `Part`), an item of a list what lies between a mark and the next
(`Items`), a content the lines marked as text, whose depth is that of the first one
that is not blank (`ReadContent`). Being without recursion it can be proved about.
Left out: quoting (the templates quote commands, encodings and permissions, in
`cloudinit.go` lines 26, 34 and 40, and write every other value as it is), base64,
the MIME envelope. A value is a token that reads as it was written, quoted or not.

### InfraProviderController

`provider` and `object` are at the API server; `cache` says of each provider
whether the informer has its latest version, an older one, or knows that it is
gone; `task` is the reconcile of a key, with `current` for "the copy that was read
is still the latest version", which is what the resourceVersion of the final
`Status().Update` asks.

| Code | Actions |
|---|---|
| `Get` of the provider | `ProviderGone`, or on to the object |
| `reconcileExternal`: `external.Get`, `SetControllerReference` | `ObjectNotFound`, `ObjectOwned`, `ReadObject` |
| its `Patch` and `Watch`, the check of the deletion timestamp | `AdoptFails`, `Adopt`, `WatchFails` |
| `IsReady`, `Status().Update` | `UpdateStatus`, `UpdateConflicts` |
| errors, lost answers, the process | `ApiError`, `Restart` |

`SetupWithManager` drops the options it is given, so that `Take` has one worker
whatever `main.go` passes; the owners of objects depend on it (mutant
`TakeConcurrently`).

### CSRApprover

One request and the Machine of its Node (`Subject`), whose life is
`MachineLifecycle`'s: the module uses nothing else of the Machines, and what
`MachineController` does is one of the behaviours it allows. `form` is the verdict
of `validateCSR` on what the request contains; it does not change. Every manager
has its own view of the request and of the Machine. `Start` is the beginning of
`Reconcile` and the part of `validateCSR` that needs no call, `CheckNode`,
`AwaitMachine`, `CheckMachine` and `Review` the rest, in the order of the code,
`Approve` the `UpdateApproval`. `validateCSR` returns nil, and the request is
approved, for requests without a node name or without the expected groups and for
those without a PEM block (forms "incomplete" and "empty"): modelled as it is, and
a finding (below).
Errors other than the requeue are logged and dropped by `Reconcile`
(`NodeNotFound`, `ReviewFails`, and the refusals).

## 3. What is checked

All runs are on small instances; every run states its bounds in its `.cfg`.
Deadlock is not checked except for `ObjectTracker`: a controller with nothing to
do stops, and that is no error.

| Run | Instance | Properties |
|---|---|---|
| `lifecycle` | one Machine from creation to removal; one fault, one disruption, resync (345 000 states) | `ControllerInv`, `NoWakeUpLost`, `NodeRefStable`, `ReleaseAfterTeardown`, `InfraBeforeNode`, `LivesOneLife`, `StatusSettles`, `FailureShown`, `LostInfraReported`, `DeletionCompletes` |
| `control_plane` | a control plane Machine and a worker Machine, up, and a new Machine without infrastructure; two workers; one fault, which may be a failing watch; no admin at work (2.7 million states) | `TypeOK`, `SoleControlPlaneKept`, `DrainedBeforeTeardown` |
| `shared_infra` | two Machines that refer to one infrastructure object, which is up and has no owner; two workers; one disruption (3 million states) | `ControllerInv`, `NoWakeUpLost`, `OwnerStands` |
| `tracker` | three workers, three kinds | `TrackerInv`, `WatchesOnce` |
| `config` | two managers, three Specs (plain, with a source Secret, invalid), one edit, one fault, two names | `TypeOK`, `BootstrapInv`, `NeverGivenUp`, `RenderedFromCurrentSpec`, `PublishedOnce`, `BecomesReady`, `SecretsGoWithConfig` |
| `infra_provider` | two providers that refer to one object; two faults; five changes (applied, ready or not, deleted, a provider deleted) | `ProviderInv`, `NoEventMissed`, `OwnerNeverStolen`, `ReadyByOwnObject`, `ReadySettles`, `AdoptedInTheEnd` |
| `csr` | one manager, requests of all forms, an admin, one Machine; two faults, two dropped errors | `ApprovedHasMachine`, `NeverPutAside`, `OneDecision`, `NotForgotten` |
| `cloud_init` | all combinations of a few files (two paths and that of the crit configuration; indented, outdented and blank lines; leading lines with and without indentation), flags that are not given, true or false, two source Secrets with a key that may be missing, users, commands, NTP | `ReadsBack`, `DiskAsRequested` |

The third Machine of `control_plane` is there for the limit on workers: with two
Machines two workers are as good as any number, and a manager that forgot its limit
would not be noticed. In `shared_infra` the infrastructure is there from the start
(`Unclaimed`), so that both Machines read it without an owner; the Machines are
alike in every constant, and the run takes them as symmetric (`Alike`); it checks no
liveness, for which that would not be sound. Faults are left to the other runs there,
because two workers, a watch under way and a disruption fill the run by themselves.

Why the bounds are enough: the code compares Machines with one another only when
it counts the control plane and when it sets an owner, and both need two
Machines. One fault at any step of a handler leads to a retry from every
intermediate state; a second one meets states the first has already led to. One
disruption is enough to put the environment out of step with what was read. Five
changes let an object be applied, become ready, be deleted and be applied again
while a provider is deleted too. In `csr` the admin plays the second decider; with
two managers the run passes as well and takes minutes. `cloud_init` has no
concurrency but the order of the source Secrets: its instance is the input. What
holds for more of everything is the business of the proofs.

Each liveness property of a controller has a companion that needs no fairness: an
invariant that says what the controller may *sleep* on, that is, leave alone until
the next event comes (`NoWakeUpLost`, `NeverGivenUp`, `NoEventMissed`,
`NeverPutAside`). In level-triggered code this is where liveness is lost: an event
that finds the key under way, a requeue that one path forgets, a change between a
read and the start of a watch. The invariants say that none of this happens; that
a queued key is then served is what fairness adds.

Properties with a scope that needs to be known:

* `NoWakeUpLost` supposes, of the status only, that the kind is not lost to the
  tracker (see `watch_lost`) and that no other worker is inside `Controller.Watch`:
  a reconcile that found the kind in the tracker may finish before the informer
  runs, and its Machine then sleeps on an old status until the initial list wakes
  it. It speaks of infrastructure that is present and owned by the Machine. What is
  gone is the business of `LostInfraReported`.
* `NeverPutAside` supposes, as `NotForgotten` does, that no error was dropped; it
  counts the forms "incomplete" and "empty" as approvable, since they are approved.
* `ReleaseAfterTeardown` and `InfraBeforeNode` say that the deletion of the
  infrastructure was *asked for* before the Node and the Machine go. The comments of
  `reconcileDelete` promise that it is over; see `teardown` below.
* `ReleaseAfterTeardown` speaks of Machines with the finalizer. A failed patch of
  the object followed by a successful patch of its status leaves a Machine with a
  NodeRef and no finalizer; the API server removes it as soon as it is deleted,
  and only the garbage collector is left to tear it down.
* `OwnerStands` does not say that no owner is ever replaced: with several workers
  (the default is ten) two Machines may both see an object without an owner, and the
  later merge patch replaces the earlier owner, which is listed below. It says that
  this ends: a Machine that owns the object while no other reconcile holds a copy
  from before keeps it until it is gone. The InfrastructureProvider controller has
  one worker, and its `OwnerNeverStolen` says that it replaces no owner at all.
* `DrainedBeforeTeardown` is about the controller: an admin who removes a Node
  during the drain, so that its kubelet registers it anew, can defeat it.
* `DeletionCompletes` supposes that providers finish what they were told to tear
  down. The code does not wait for that (`teardown`), but the property would have to
  suppose it if the code did as its comments say. It excuses a manager that panics over and over, as it does
  once the infrastructure of a Machine that is being deleted is gone (below).
* `SoleControlPlaneKept` protects the Node as long as its Machine exists. When the
  Machine is gone, a reconcile that starts from a copy that still has it, and
  lists after the cache has caught up, counts no control plane Machine; the case
  of zero is commented out (`helpers.go:221-224`), and the Node is drained.
* `LostInfraReported` supposes the informers' resync (ten hours by default): when the
  object vanishes between the read and the start of the first informer on its
  kind, no event tells. Infrastructure that regressed before it vanished is not
  reported at all.
* `BecomesReady` excuses a Config whose failed attempts have used up all names.
* `ReadySettles` speaks of objects that are present and owned by the provider, while
  the kind is watched: an object that is being deleted, or gone, leaves `Ready` as
  it was. `AdoptedInTheEnd` supposes that no object is deleted: one that is read as
  being deleted and goes before the first informer on its kind runs is not polled
  for, and its successor, which nobody owns, sends no event.
* `NotForgotten` supposes that no Node lookup and no review fails, for those errors
  are dropped and no event of a Node or a Machine brings the request back.
* `ApprovedHasMachine` cannot say more of a Machine that has gone meanwhile; and
  it does not speak of the forms "incomplete" and "empty" (`Unreviewed`), which are
  approved without a review, the first without any Machine.
* `ReadsBack` is for contents that can be blocks of YAML (`IsBlock`): it has their
  lines and their relative depth, and the letter only if nothing up to the leading
  line is indented (`Plain`). Of flags it says what becomes of one that is not given,
  or given as true. Contents and flags outside of that are not read as the Config
  means them; see below. `DiskAsRequested` allows any order among source Secrets.

### Fairness

`FairSpec` of `MachineController` assumes weak fairness of each Machine's
`HandlerStep` (a worker that has a key finishes), of `Deliver` and `SyncNode`
(informers catch up) and of `Restart` (Kubernetes restarts the pod), and strong
fairness of each Machine's `StartOfReconcile`: the queue is first in first out, so
a key is taken although the workers are busy now and then. The resync is not
assumed to happen, save as the hypothesis of `LostInfraReported`: the other
properties do not lean on it. `InfraProviderController` assumes the same: strong
fairness for `Take`, since the keys of all providers share one worker, weak
fairness for the steps of a reconcile and for `Deliver`. `ConfigController` and
`CSRApprover` follow one key per manager, where weak fairness is enough;
`ConfigController` assumes the garbage collector besides. The one fairness of
`CloudInit` is that the function it models returns. No fairness is assumed of
users, providers, operators, kubelets or admins, nor that source Secrets are ever
created. Faults and disruptions are bounded, so they end.

### What the code does not do

Four runs check something that a comment or the code's intent says, and TLC finds
it violated. Each is listed under "findings" in `PROJECT.json` with its line.

| Run | What happens |
|---|---|
| `two_control_planes` | two control plane Machines deleted together are both allowed to delete their Nodes (`helpers.go:225`, comment at 197) |
| `panic` | infrastructure that is already gone makes the deletion dereference nil (`helpers.go:166`); the manager panics, also after a restart |
| `watch_lost` | one failed `Controller.Watch` and the kind is never watched (`tracker.go:59`) |
| `teardown` | the deletion does not wait for the infrastructure (`helpers.go:161-170`): the Node (`controller.go:193`, comment at 191) and then the finalizer go while it is still being torn down ("Return early and don't remove the finalizer if we got an error or the external reconciliation deletion isn't ready", `controller.go:186-187`) |

Four more are part of the passing runs: the states are reached, and the property
that is checked leaves them out by a condition it names.

| Run | What happens | Left out by |
|---|---|---|
| `shared_infra` | two workers read an object without an owner, and the second merge patch replaces the first owner (`patch.go:74`, `helpers.go:62-68`) | `Owns` in `OwnerStands`; without it: `ReconcileNormal` and `GetInfra` of both Machines, then `PatchInfra` of both |
| `csr` | requests that `validateCSR` logs as invalid are approved, because it returns nil for them (`validate.go:46`, `50`, `78`; comment at `controller.go:74-75`) | `Unreviewed` in `ApprovedHasMachine`; without it: `Send`, `SyncRequest`, `Start`, `Approve` |
| `cloud_init` | a flag that is given as false is written as true (`cloudinit.go:50`, `75`; `config_types.go:195`, `230`) | `NotFalse` in `ReadsBack`; TLC evaluates it as `FalseBecomesTrue` |
| `cloud_init` | the indentation of a content's leading line is lost, and a content that is less deep further down spoils the document (`cloudinit.go:43`; `config_types.go:150`) | `Plain` and `IsBlock` in `ReadsBack`; TLC evaluates it as `IndentationIsLost` and `DocumentIsSpoilt` |

One observation has no run, for nothing has to be explored to see it: `FailureReason`
of a Config, meant for errors that no retry cures (`config_types.go:75`), has no
writer.

## 4. What is proved

With TLAPS, for every value of the constants: any number of Machines, workers,
infrastructure objects, managers, providers, kinds, faults and disruptions.

| Module | Theorem | Statement |
|---|---|---|
| `MachineControllerProofs` | `TypeCorrect` | `Spec => []TypeOK`, the limit on workers included |
| | `ControllerInvariant` | `Spec => []ControllerInv` |
| | `NodeRefIsStable` | `Spec => NodeRefStable` |
| | `TeardownBeforeRelease` | `Spec => ReleaseAfterTeardown` |
| | `TeardownBeforeNode` | `Spec => InfraBeforeNode` |
| | `SoleControlPlaneNodeKept` | `Spec => SoleControlPlaneKept` |
| `MachineEffectsProofs` | `OwnerOnceSettledStands` | `Spec => OwnerStands`, for any number of workers |
| | `WorkersDrainedFirst` | `Spec => DrainedBeforeTeardown`, if Machines have their own Nodes and nobody else removes Nodes |
| | `ImplementsLifecycle` | `Spec => LivesOneLife`: it implements `MachineLifecycle` |
| `MachineSettledProofs` | `NoWakeUpIsLost` | `Spec => []NoWakeUpLost` |
| `ObjectTrackerProofs` | `TrackerInvariant` | `Spec => []TrackerInv` |
| | `TrackerWatchesOnce` | `Spec => WatchesOnce`: the tracker implements `WatchOnce` |
| `ConfigControllerProofs` | `ConfigTypeCorrect`, `BootstrapInvariant` | `Spec => []TypeOK`, `Spec => []BootstrapInv` |
| | `RenderedFromCurrent` | `Spec => RenderedFromCurrentSpec` |
| | `PublishedOnceAndForAll` | `Spec => PublishedOnce` |
| | `ConfigNeverGivenUp` | `Spec => []NeverGivenUp` |
| `CloudInitProofs` | `DiskIsAsRequested` | `Spec => []DiskAsRequested` |
| | `ContentReadsBack` | a content that can be a block is read back from the document with its text and the relative depth of its lines, but for empty lines at its end |
| | `DocumentReadsBack` | `Spec => []ReadsBack`: the new machine reads what was asked for, within the scope given above |
| `InfraProviderControllerProofs` | `ProviderInvariant` | `Spec => []ProviderInv` |
| | `OwnerIsNeverStolen` | `Spec => OwnerNeverStolen` |
| | `ReadyThroughOwnObject` | `Spec => ReadyByOwnObject` |
| | `NoEventIsMissed` | `Spec => []NoEventMissed` |
| `CSRApproverProofs` | `ApprovedInvariant` | `Spec => []ApprovedHasMachine` |
| | `DecisionStands` | `Spec => OneDecision` |
| | `RequestNeverPutAside` | `Spec => []NeverPutAside` |

The assumptions are the modules' `ASSUME`s, evaluated by TLC in the runs, and the
two that `WorkersDrainedFirst` names.

*Machine controller.* `Typed` is inductive. With it `ControllerInv` is: the
safety properties cannot be had from the objects alone, because a handler writes
what it computed from copies that may be arbitrarily old. The invariant says what
is true of every such copy: it names no Node but the Machine's own
(`CopiesAgree`), if it was being deleted then it still is (`DeletionIsFinal`),
the deletion loop works on exactly what it read (`WorkingCopies`), and a handler
that stands before the Node's deletion or the finalizer's removal has asked for
the teardown (`TeardownFirst`). These four speak of each Machine by itself (`Local`),
so a step of one Machine leaves what is said of the others alone (`Untouched`), and
the proof goes action by action. The fifth part is of all workers together: one of
them, and one only, is inside `Controller.Watch` as long as the kind is being added
(`OneAdder`). The limit on workers is separate: a worker that
takes a key adds one element to a set that was below the limit. The action
properties follow by asking who writes Machines and Nodes (`MachineWriters`,
`NodeWriters`). `SoleControlPlaneKept` needs one invariant more (`SoleInv`):
names are not used again, so a Machine that lives is in every cache, is counted,
and its deletion never gets on the way to its Node.

*Refinement.* `ImplementsLifecycle` adds `FinalizerInv`: every Machine that is being
deleted has the finalizer, and so has every copy in the normal loop, so that no
merge patch takes it off. Then each writer of a Machine (`MachineWriters`) is shown
to be one step of the lifecycle or a stutter, and all other steps only grow the
set of Machines that are torn down (`TornStays`).

*Owners and drains.* Several reconciles may hold a copy of an object from before it
had an owner. But the way to the patch leads through the read (`PatchStage`), which
refuses an object of another Machine: whoever reads it after its owner's patch does
not get to a patch of his own (`NobodyElseAdopts`). An owner is changed by such a
patch, or with the object's end, only (`OwnerChange`, from `InfraWriters`,
`ReconcileWrites` and `ProviderWrites`); that an object that was not applied yet has
no owner (`UnownedInv`) completes the argument. For the drain the question is what may have happened to the
Node between the steps of a deletion. `DrainInv` says that whoever knows of a
Node, in a cache or a copy however old, knows of one that still is there unless
its infrastructure goes, so that the drain which finds no Node has nothing to
protect; and that what the reconcile has done to its Node is not undone, since
no other Machine has that Node and no one else removes it.

*Wake-ups.* `NoWakeUpLost` is about a state in which no reconcile is under way, and
is kept by what the last one did, on copies that may have been out of date all
along. `WakeInv` says what a reconcile under way knows, stage by stage, or else that
it will come back (`again`), or that its key is queued meanwhile: its first patch
shows at the API server, so that the cache is behind and an event will come
(`SpecSent`); its copy was the one in the cache (`NormalCopies`); a provider ID has
its Node (`InMemory`); whoever is past the infrastructure found the kind in the
tracker or added the watch (`WatchAsked`); and what it holds of infrastructure that its Machine owns is what the
infrastructure is (`HoldsPresent`). The last is the heart of it: the object changes
only by steps that notify its owner, and when the Machine becomes the owner, or the
watch begins, it is notified too: the initial list wakes those, too, that got past
the tracker while the watch was being added. Then a reconcile that ends without a requeue has
written nothing, so that the Machine is what the reconcile made of it (`AtRest`). A
provider ID that the user gave is in every copy (`IDKept`), and a manager that is
down holds nothing (`DownIsEmpty`). A step of one Machine leaves another one's copies
alone (`Spared`), with the exception of infrastructure that both refer to, which is
where `OwnedStep` comes in. The strengthening was also checked with TLC, on
the instances of `lifecycle`, `control_plane` and `shared_infra`.

*Tracker.* `TrackerInv`: the worker that stored a kind is the only one that adds
its watch. The refinement is shown step by step.

*Config controller.* `BootstrapInv`: a copy with the current version is the
current Config, and a worker that stands before the status update knows a Secret
with the rendering of its copy. An update without a conflict therefore publishes
the rendering of the current Spec, and a ready Config has no update without a
conflict. `NeverGivenUp` needs that a Config only becomes ready with a new version:
whoever has an older copy will be told.

*cloud-init.* `DiskAsRequested` is stated with positions in sequences, not with a
filter, so that no induction over data is needed: the turns of the loop are the
induction. `GatherInv` says where each gathered file comes from, that what is last
for its path comes from a SecretFile that is the last of its Secret among those
visited (`Gathered`), and that a Secret's SecretFiles are visited in the order of
the Spec (`InOrder`). The lemmas after it draw the four cases of the property.

`DocumentReadsBack` is a statement about data, for any number of files, users,
commands and servers and for contents of any length. Its inductions are over
positions and not over sequences (`NatIsLeast`): that there is a function such as
`FlattenSeq` is defined by (`FlattenExists`, `FlattenJoins`), that the ends of the
parts grow (`Offsets`), and that the reader counts them in order (`NthIsListed`).
`Joins(d, s, off)` says that `d` holds the parts of `s` one after the other, the i-th
up to `off[i]`; `ItemsAreParts` concludes that parts that begin with a key, which
none has elsewhere, are what the reader finds under that key. What remains is
bookkeeping of keys: a file (`FileReadsBack`) and a user (`UserReadsBack`) say of each
key what they were given and have nothing of the top level; each section has one
line of the top level (`Heads`), so `SectionsOf` finds each in the document, absent
or not, and none is taken for another. The content of a file rests on
`ContentReadsBack`: in the document the first line that is not blank is the least
indented one, so that the reader takes its depth, which is what the template added
and what the line had of its own, from every line (`NoDeeper`), and lines keep their
depth relative to it. What the template makes of a flag that is not given, or is
given as true, is the flag (`FlagReadsBack`). `DocumentInv` ties the document to
`files` and `spec`, and says that what a SecretFile brings is a file.

The assumptions are the types of `config_types.go` for Specs and source Secrets
(`SpecsAssumption`, `SourcesAssumption`, `CritFileAssumption`). A value that quoting
would be needed for, such as a name that is a line break, is outside the model:
values are single tokens.

*InfrastructureProvider controller.* `OneAtATime` is inductive with the types:
one reconcile is under way, its object was free or its own when it was read and
nobody else adopts meanwhile, what is absent has no owner, and a copy that counts
as the latest version is of a provider that lives. `NoEventMissed` needs `WakeInv`:
what a reconcile read of the object that its provider owns is what the object is,
unless the key is queued (`HoldsPresent`); the cache shows a provider as gone only
once it is (`Informed`); and the watch was asked for before a reconcile relies on it
(`WatchAsked`).

*CSR approver.* `ApprovedHasMachine` carries the verdicts along the stages of the
handler and says that what an old copy of the Machine shows of its Node still
holds or the Machine is gone, which is all that `MachineLifecycle` lets one know.
`NeverPutAside` needs two facts more: who has not seen the request has an event
coming (`UnsentUnseen`), and each path that lets a pending request go without a
requeue has dropped an error (`LetGo`).

Only model-checked: all liveness properties (fairness and ENABLED are outside what
the prover handles; the invariants about sleep, above, are the part of them that is
proved). Every invariant that a run checks is stated by a theorem.

## 5. Not modelled

* The Node controller (`controllers/node`) never runs: `main.go` lines 107-114.
* The error types (`errors/errors.go`): `RequeueAfterError` only chooses a delay,
  and delays are not modelled.
* The accessors in `util/util.go` and `util/external` for infrastructure providers:
  they keep no state and nothing in this repository calls them.
* Of `MachineController`: replies that are lost after a write of a Machine took
  effect, several managers, more than one kind of infrastructure, the addresses
  and the Kubernetes version copied from the Node.
* Of `CSRApprover`: the addresses of the Machine. A request that comes before they
  were copied is refused and the error dropped; in the model a request has the
  right addresses or not from the start.
* Manifests, generated deepcopy code, metrics, flags and logging of `main.go`.

## 6. Running it

    tlc -config MC_lifecycle.cfg MCMachineController
    tlc -config MC_tracker.cfg ObjectTracker
    tlc -config MC_config.cfg MCConfigController
    tlc -config MC_infra_provider.cfg MCInfraProviderController
    tlc -config MC_csr.cfg MCCSRApprover
    tlc -config MC_cloud_init.cfg MCCloudInit
    tlapm MachineControllerProofs.tla

The other runs of the Machine controller use `MCMachineController` with their own
`.cfg`; the other `*Proofs` modules are checked the same way.
