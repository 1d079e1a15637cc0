# A verification project for Config Connector

Config Connector (KCC) is a set of Kubernetes controllers that keep Google Cloud
(GCP) resources in line with Kubernetes objects. A user applies an object, a
controller creates, updates or acquires the GCP resource it describes, writes the
outcome into the object's status, and deletes the GCP resource when the object is
deleted. What makes this hard is that the truth is spread over two remote systems
that change behind the controller's back, that every call may fail or succeed with
its answer lost, that the process may die between any two calls, and that mistakes
are expensive: a resource nobody tracks any more, or a production database deleted
because somebody uninstalled a CRD.

The project models the core logic of these controllers, component by component:

* the life of an object under the *direct* controller, the framework all new
  resources use, with the deletion defender and the settings that pause actuation;
* the life of an object under the older *Terraform* (TF) and DCL controllers, whose
  difficulty is how an object finds its resource again;
* *IAM partial policies*, where several objects and people edit one GCP policy;
* how an object waits for another one it *depends* on;
* *leases*, by which clusters keep out of each other's resources, and the *namespace
  identifiers* they are issued under;
* the *multi-cluster leader*, which decides whose manager runs.

TLC checks each on small instances; TLAPS proves the main safety properties of most
of them for every instance. The last sections say what is left out and what would
come next.

## Inventory

State, operations and interactions of the parts, the behaviours that make each one
hard, and what makes it correct. Paths are relative to `src/`.

| Part | State | Operations | Hard because | Correct if | Module |
|---|---|---|---|---|---|
| Direct reconciler, `pkg/controller/direct/directbase` | the copy of the object read at the start of a reconcile; the adapter's answer | `Reconcile`, `doReconcile`, `ensureFinalizers`, `UpdateStatus`, `SetSpecResourceID`, `SetLastModifiedCookie`, `RequestRequeue` | up to a dozen remote calls per reconcile with everything else running in between; crashes; lost answers | no orphan in GCP, no deletion nobody asked for, a truthful status, convergence | `DirectReconciler`, `DirectLiveness`; `ManagedResource` is its promise |
| Lifecycle handler, `pkg/controller/lifecyclehandler` | none | `HandleUpToDate`, `HandleUpdateFailed`, `HandleUnresolvableDeps`, `HandleDeleted`, ... each ending in `updateAPIServer` | two writes per handler; the status is written long after the read | a status never vouches for a generation it was not computed for; finalizer removal comes last | all reconcilers |
| Deletion defender, `pkg/controller/deletiondefender` | none; its finalizer is on every object | `Reconcile`, `isUninstalling` | reads object and CRD at different times; races with the controller | the uninstallation of a CRD never deletes anything in GCP | `DirectReconciler`, `PartialPolicy`, `TerraformReconciler` |
| Event predicate, `pkg/controller/predicate` | none | `Update` | an event that is filtered out is lost: nothing else brings the object back when the interval is zero | whatever needs work is woken up | `DirectReconciler` |
| Actuation mode, `pkg/controller/resourceactuation`, `operator/pkg/kccstate` | ConfigConnector (CC), ConfigConnectorContext (CCC), annotation | `FetchLiveKCCState`, `DecideActuationMode`, `ShouldSkipActuation`, `ShouldSkip` | three levels that disagree, defaults, changes while a reconcile runs | what is paused is not acted on, what is resumed is | `Actuation`, `DirectReconciler` |
| Finalizers, jitter: `pkg/k8s/finalizers.go`, `pkg/controller/jitter` | finalizers of the object; timers | `EnsureFinalizers`, `RemoveFinalizer`, `JitteredReenqueue` | an interval of zero is no timer at all | as above | `DirectReconciler` |
| Adapters, `pkg/controller/direct/<service>` | the GCP resource as `Find` saw it | `Find`, `Create`, `Update`, `Delete` | `Create` acts on what `Find` saw; operations outlive their client; some resources can be found only by an identifier that GCP made up in `Create` | what is recorded is found again; idempotence under retry | `DirectReconciler`, one abstract adapter |
| Parent controller, `pkg/controller/parent` | the reconcilers of one kind | routes a key to TF, DCL, direct or IAM | the choice may change while objects exist | one reconciler at a time per object | - |
| Resource watcher, `pkg/controller/resourcewatcher` and `handleUnresolvableDeps` | a semaphore of 10000 watches, one goroutine each | watch a reference, wake the referrer | check-then-watch; timeouts; the semaphore is not released on an error path | no lost wake-up, no leaked permit | `DependencyWatch` |
| IAM controllers, `pkg/controller/iam` | `status.lastAppliedBindings`, the GCP policy and its etag | read, merge, set | several writers of one policy; what was applied is recorded after the fact | bindings of others survive; own bindings are removed on deletion | `Bindings`, `PartialPolicy`, `DependencyWatch` |
| Leases, `pkg/lease/leaser` | two labels on the GCP resource | `Obtain`, `SoftObtain`, `Release` | expiry while the owner works; labels are written, not compared and swapped | an owner that is on time keeps the lease; somebody gets it in the end | `Leaser` |
| Registration, `pkg/controller/registration` | one registered controller per CRD | `Reconcile` of CRDs | CRDs change and come back | every kind has exactly one controller | - |
| Installation identifier, `pkg/cluster` | a namespace's config map | get or create | concurrent creation | everyone agrees on one identifier | `NamespaceID` |
| TF and DCL reconcilers, `pkg/controller/tf`, `dcl` | as the direct one, plus `status.resourceID` and leases | `Reconcile`, `sync` | as above, plus server-generated identifiers | as above | `TerraformReconciler`, `Leaser` |
| Unmanaged detector, `pkg/controller/unmanageddetector` | conditions of objects | marks objects no manager handles | races with the manager's own status | a managed object is not called unmanaged for ever | - |
| GCP watch, `pkg/gcpwatch` | expected etag per watched policy | add, poll, wake up | never used: see *Not modelled* | - | - |
| Manager and multi-cluster leader, `pkg/controller/kccmanager` | who leads | leader callbacks, syncer | callbacks arrive late and overlap | the leader does not pull from others, the others pull from it | `MultiClusterLeader` |
| Operator, `operator/pkg/controllers` | manifests per namespace | installs the managers | many objects, no transaction | - | only CC and CCC as settings |
| Webhooks, conversion, API types, mock GCP, exporters, generators | none that lasts | - | - | - | - |

The parts interact through the API server only. The controller and the defender are
separate processes that meet at one object's finalizers; users and administrators
write the same object and the settings; the predicate decides which of those writes
wake the controller. IAM policies and leases add a second shared place, the GCP resource
itself, with an etag in the first case and with nothing but time in the second.

### Hazards

`PROJECT.json` lists them with their lines. The ones the model is built around:

* the process dies after GCP created something and before anything says so;
* an update fails, or succeeds and its answer is lost;
* the defender reads the object, then the CRD, and acts on both later;
* the controller sees a deletion before the defender does;
* a status written after slow GCP calls describes an object that has changed since;
* with an interval of zero nothing happens without an event, and `ShouldSkip` drops
  events of objects that look up to date;
* the settings that pause actuation change while a reconcile is under way;
* a reference becomes ready between the look at it and the start of the watch;
* a policy is changed by somebody else between its read and its write, and what was
  applied is recorded only after it was applied;
* a lease runs out, or labels that were read change, before the labels are written, and
  a reconcile may take longer than any lease lasts;
* an identifier that GCP made up is lost before it is recorded, under the direct and
  under the older controllers;
* callbacks for two leaders run at the same time.

## Modules

| Module | Content |
|---|---|
| `Actuation` | the pure functions that decide whether to act |
| `DirectReconciler` | direct controller and defender: state, one action per remote call, `Spec`, the safety properties |
| `DirectInvariant`, `DirectProofs` | the inductive invariant in named parts; lemmas and theorems, on the status and on wake-ups too |
| `DirectLiveness` | the same system with fairness, `LiveSpec`, and the liveness properties |
| `ManagedResource` | abstract specification: what Config Connector promises about an object and its resource |
| `DirectRefinement`, `RefinementProofs` | `DirectReconciler` implements it: refinement mapping, proof |
| `TerraformRefinement` | so does `TerraformReconciler` for resources with names; proof in `TerraformProofs` |
| `Bindings` | the pure functions of `bindings.go` and what they compute |
| `PartialPolicy`, `PartialPolicyProofs` | IAMPartialPolicy objects that share a policy; uses `Bindings`; theorems on both |
| `DependencyWatch`, `DependencyProofs` | waiting for a reference: permits, goroutines, channel |
| `Leaser`, `LeaserProofs` | clusters, a lease and time |
| `NamespaceID`, `NamespaceIDProofs` | get-or-create and deletion of identifiers in one ConfigMap |
| `TerraformReconciler`, `TerraformProofs` | TF and DCL objects: named and server-generated identifiers |
| `MultiClusterLeader`, `LeaderProofs` | leader election callbacks and syncers |
| `MC...` | values of constants for TLC; `Leaser` and `MultiClusterLeader` need none |

The composition is by `EXTENDS`: `PartialPolicy` computes with `Bindings`,
`DirectReconciler` decides with `Actuation`, `DirectLiveness`, `DirectRefinement` and
`TerraformRefinement` add fairness and history variables. Components that only meet at an interface that
one of them treats as free (a reference that is ready or not, a lease that is granted
or not, a pause) are separate systems, and the other side is an environment action.

### Optimistic concurrency without version numbers

The API server refuses an update whose resourceVersion is not the current one. Instead
of an unbounded counter, `current` is the set of processes whose copy carries the
current version: reading adds the reader, a write by somebody leaves only that one, and
a write that changes nothing leaves the set alone, as the API server does. An update
whose answer is lost leaves nobody with a current copy. `PartialPolicy` treats the etag
of the policy in the same way, `NamespaceID` the ConfigMap.

### DirectReconciler

`obj` is the object in the API server, reduced to the fields that steer the
controllers: desired spec and labels, the generated identifier if it has one (in
`spec.resourceID` or `status.externalRef`), generation, finalizers, deletion timestamp,
the abandon and actuation-mode annotations, observed generation and the reason of the
Ready condition. `gcp` is the resource in GCP, `name` its identifier if GCP made it up,
and `naming`, chosen once, says whether it does for this kind. `queue` is the object's key in the
controller's work queue, due now or on a timer. `ctl` is the reconcile in progress:
the step, the copy `u` of the object that it works with, what `Find` found, the
outcome to report. `dd` is the defender's reconcile, `crd` and `kcc` what
administrators change. `managed`, `confirmed`, `request` and `waived` are history
variables: they record for the properties what has happened and no guard reads them.

| Action | Code |
|---|---|
| `Get` | `Reconcile` up to `doReconcile`: read, `ShouldSkip` |
| `FetchCC`, `Gate` | the two reads of `FetchLiveKCCState`, `ShouldSkipActuation`, the paused branch |
| `PausedFinalizers` | `ensureFinalizers` of a paused object; its error is swallowed |
| `ApplyDefaults` | the update for the defaulters, if they change anything |
| `Find` | `AdapterForObject`, `Find`, and which branch follows (`AfterFind`) |
| `EnsureFinalizers` | `ensureFinalizers` before `Create` and `Update` |
| `Create`, `Update` | the adapter's call: done, nothing to do, busy, failed without effect, failed with effect |
| `SetSpecResourceID`, `SetLastModifiedCookie` | updates of the object by some adapters before they save the status |
| `UpdateStatus` | `Operation.UpdateStatus`, with or without a Ready condition; it records the identifier |
| `UpdateAPIServer`, `HandleUpToDate` | the two writes of `HandleUpToDate` |
| `HandleFailed` | `HandleUpdateFailed`, `HandleDeleteFailed`, `HandleUnresolvableDeps` |
| `Delete`, `MarkDeleted`, `Unfinalize` | the deletion in GCP, the status, the finalizer |
| `TimerFires`, `Restart` | `RequeueAfter`; a new process lists all objects |
| `DefenderGet`, `IsUninstalling`, `DefenderUpdate`, `DefenderFails` | the defender's reconcile, one action per call |
| `User...`, `Uninstall`, `CRDFinalization`, `AdminConfigures`, `Drift` | everyone else |

A reconcile that ends with an error, or with a request to be requeued, is queued
again (`Retry`); one that ends well sets its timer (`Finish`), except while the
defender is awaited and with an interval of zero. Conversions and messages are
abstracted: labels and specs are values that are compared, a condition is its reason.
Annotations that steer nothing (defaults, the cookie) are not fields; writing one makes
other copies stale (`Touch`).

*How an object finds its resource.* Most direct resources are named by their users. For
others (`StorageAnywhereCache`, whose adapter the map cites, groups, contacts, firewall
policies, processor versions and tags among them) GCP makes up the identifier, `Find` answers
"not found" for an object that has none, `Create` always makes another resource, and the
identifier gets into the object by the first write after `Create` that succeeds. In
between the resource can be lost: a crash or a conflict makes the next reconcile create
a second one, and a deletion lets the first one go. The model has both kinds. `managed`
begins, for a generated identifier, when the object carries it, so the properties below
promise what the code keeps: from that write on nothing loses the resource. A user may
put the identifier of the resource that is there into a new object; that resources which
were lost earlier come back in this way is not modelled, nor are the few adapters that
look for an existing resource when a creation is refused.

`ManagedResource` has no queue, copies, finalizers or status: an object is absent, loose,
held, being deleted together with its resource, or leaving it behind. A resource is
created or changed only for an object that is held, and only into something its user has
asked for since the object was created; it is destroyed only on request; the object goes
when there is nothing left to manage. Where the identifier is not known beforehand, a
creation is an attempt (`Attempt`) that may get lost until the object leads to what was
created (`Acquire`); there is no attempt while the object leads to a resource. `DirectRefinement` maps the life of the object to
its finalizers and to the history of requests, and adds `asked`, the one thing the
controller does not remember.

### TerraformReconciler

`source`, chosen once, says how the kind of the object finds its resource: by a name
that users choose, or by an ID that GCP makes up and that is recorded in
`spec.resourceID` or in the status. `gcp` is a family of resources, since a second one
may be created by mistake. A reconcile is `Get`, `Gate`, then for a living object
`Fetch` (`FetchLiveState`, the errors for an unready parent, for a resource that had
been created once already, for a change of immutable fields), `EnsureFinalizers`,
`HandleUpdating`, `Apply`, `RecordSpec` and `RecordStatus`; for one that is being
deleted `HandleDeleting`, `Delete` (abandon, unready or orphaned parent),
`FetchForDelete`, `Destroy`, `HandleDeleted`, `Unfinalize`. `Faults` says what may go
wrong: edits during a reconcile, failed writes, lost answers, restarts, drift, a parent
object that goes and leaves its resource.

### PartialPolicy and Bindings

A binding slice is a set of records of a key (role and condition) and members;
`Bindings` has the merge, the members that were deleted, and the remainder, as the code
composes them, next to their definition as sets of grants (`Merged`, `Remaining`). Order
and repeated equal bindings do not matter to the code and are left out.

In `PartialPolicy` each object has a reconcile with one action per call: `Get`, the update
for defaults (`HandleDefaultsFails`; when it succeeds nothing the model shows changes), `Gate`,
`GetPolicy` (which adds the finalizers in memory), `SetPolicy` under the etag,
`UpdateAPIServer` and `HandleUpToDate`, which record `lastAppliedBindings`; and
`finalizeDeletion` with `MarkDeleted` and `Unfinalize`. People add and remove bindings
directly. `foreign`, `owed` and `waived` are history: what people granted, what each
object granted, and which objects were told to let go.

### DependencyWatch

`status` is the Ready condition of each object, `permit` the goroutine that holds each
permit of the semaphore (`start`, `watch`, `send`), `channel` the buffered channel for
immediate reconciles. `StartsWatch` takes a permit and starts the goroutine; `NewFails`
leaves the permit `Leaked`; `WatchResource` starts the watch, whose first event is the
current state; `WaitEnds` and `WaitFails` are its end by an event, and by an error, a
closed watch or the timeout; `EnqueueForImmediateReconciliation` blocks while the channel
is full. The same reconcile may be started by the queue, a timer or the channel. `Gate`
and `SkipsActuation` are the pause gate: a paused reconcile looks at nothing, so that a
wake-up which arrives then is used up and only the timer brings the object back.

### Leaser

Time is counted down. `lease` is the pair of labels, `timer` what is left until a
cluster's next reconcile must start or the one under way must end. `Fetch` reads the
labels, `SoftObtain` decides on them, `Apply` writes them with the resource: between the
two, others write. `lapsed` and `raced` are history: whether the holder has not been on
time since it wrote the lease, and who read the labels before the lease was last
acquired. A cluster of `Slow` may take longer than `Latency` (`Overruns`): from then on
time does not wait for it, it is `late` until its reconcile is over, a lease it holds has
lapsed, and what it writes is a race. Expirations are absolute times of the writer's
clock (`leaser.go:248`, `:253`); the model has one clock for all clusters.

### NamespaceID

Callers of `GetNamespaceID` and `DeleteNamespaceID` create or get the ConfigMap, look up
or change their entry, update it and start over on a conflict. An update may be done and
report an error. `told` is history: the identifiers that were returned. A namespace is
given up by a caller that has it to itself: `DeleteNamespaceID` is called for a namespace
that is no longer used, by the reconcile that would otherwise ask for its identifier.

### MultiClusterLeader

`task` has one callback per cluster and term: `Verify` (OnStartedLeading only), `Check`,
`Write` and the retries, and `Start`, which starts the manager some time after
`EnsureSuspended` has returned: a callback for an earlier leader may write in between. A
write that fails may have taken effect. The election library is external: a cluster takes a free lease
(`StartedLeading`), the others learn of it later (`NewLeader`), each callback in a
goroutine of its own, whether or not an earlier one goes on.

## Properties and runs

| Run | Instance | States | Shows |
|---|---|---|---|
| `direct_safety` | both namings with 2 identifiers, 2 specs, 2 generations by edits, loss of the resource, abandon, uninstall, a pausing annotation, interval 0 | 2.5 M | `IndInv`, `NoOrphan`, `DeletesOnRequestOnly`, `UpToDateIsTrue`, `DeletionIsNotSkipped`, `NotCreatedTwice`, `ResourceIsManaged` |
| `direct_live` | 2 label values, a namespace that is paused and resumed, deletions, interval above 0 | 588 k | `NeverForgotten`, `PausedIsPaused`, `DeletionCompletes`, `Converges` |
| `direct_default_mode` | CC without a mode | - | `PausedIsPaused` is **violated** |
| `terraform` | the 3 sources of an ID, 3 specs of which one changes an immutable field, 2 resources, all faults | 2.0 M | `TypeOK`, `Accounted`, `TrackInv`, `NamedIsManaged`, `NeverLosesTrack`, `NeverRecreated`, `DestructionIsRequested` |
| `tf_lost_id` | IDs recorded in the spec | - | `UnrecordedIsUncreated` is **violated** |
| `iam_policy` | 1 object, 3 grants of which two are only made directly, all faults; slices of up to 2 bindings over 2 keys and 2 members | 257 k | `TypeOK`, `ForeignSurvives`, `DesiredIsComputed`, `SentIsCanonical`, `RevokeInv`, `RecordedIsRevoked` |
| `iam_granted` | 2 objects that specify the same binding | 339 k | `SpecifiedIsGranted` |
| `iam_withdraw_race` | 1 object, edits during a reconcile | - | `WithdrawnIsRevoked` is **violated** |
| `dependency` | an object that refers to another, 1 permit, 1 slot in the channel, pauses | 210 k | `TypeOK`, `WakeInv`, `NoLostWakeUp`, `TimerIsTheNet`, `PermitsComeBack`, `DependentsFollow` |
| `lease` | 2 clusters, one of them slow, duration 6, renewal 4, period, rest and latency 1 | 948 k | `TypeOK`, `LeaseInv`, `LeaseIsKept`, `Settles` |
| `namespace_id` | 3 callers, 2 namespaces, 3 identifiers | 23 k | `IdInv`, `AgreedID` |
| `leader` | 2 clusters, 4 terms, 2 attempts | 89 k | `LeaderInv`, `LeaderIsSuspended`, `FollowersFollow` |

*Direct controller.*

* `NoOrphan`: a GCP resource that KCC created, updated or acquired has an object with
  the controller's finalizer, from the creation on if users name it, and from the write
  of its identifier on if GCP does. Excused (`waived`) are an abandon annotation, an
  uninstallation, and the code's own decision to take a deletion whose reference is
  gone for a success.
* `NotCreatedTwice`: while there is a resource whose identifier the object has carried,
  no other one is created, although `Find` takes a missing identifier for a missing
  resource. No failed write, status without an identifier or old copy loses it.
* `DeletesOnRequestOnly`: whoever is about to call `Delete` does so for an object a
  user deleted, and not with an abandon annotation that was there all along.
* `UpToDateIsTrue`: `UpToDate` at the current generation means that this spec is what
  KCC last applied or found. It is what `ShouldSkip` relies on.
* `DeletionIsNotSkipped`: with an interval of zero a deletion is never mistaken for an
  unchanged object.
* `ResourceIsManaged`: the whole implements `ManagedResource`.
* `NeverForgotten`: with periodic reconciles, every object has a reconcile running, an
  event queued, a timer set, or a defender that still owes it an event.
* `PausedIsPaused`: what `docs/features/pause.md` promises.
* `DeletionCompletes`, `Converges`: a deletion ends, and an object that is not being
  deleted ends up in GCP as it says, for good, also after a pause.

*Terraform and DCL.*

* `Accounted`: a resource with a name always has an object with the finalizer.
* `NeverLosesTrack`: an object that leads to a resource, by name or recorded ID, leads
  to it until the resource is gone or let go of knowingly.
* `NeverRecreated`: once an ID is recorded no second resource is created.
* `DestructionIsRequested`: no resource is destroyed as the first half of a replacement.
* `NamedIsManaged`: for a resource with a name, the whole implements `ManagedResource`,
  the abstract specification that the direct controller implements. The mapping shows
  nothing else: `tf_lost_id` says why it could not hold for generated identifiers.

*IAM.*

* `ForeignSurvives`: what people granted and nobody specified is never taken away.
* `RecordedIsRevoked`: a binding leaves `lastAppliedBindings`, or goes with its object,
  only when it has left the policy.
* `SpecifiedIsGranted`: in the end what any object specifies is granted, for good.
* `DesiredIsComputed`, `SentIsCanonical`: the state holds sets of grants; in whatever
  slices of bindings these are given, the code's computation grants the desired policy,
  and sends one binding per key, none empty.

*Dependencies.*

* `NoLostWakeUp`: an object that waits for a reference that is ready is due or about to
  be, unless its watch failed or its wake-up met a pause; `TimerIsTheNet` catches these.
* `PermitsComeBack`: every goroutine gives its permit back, with a full channel too.
* `DependentsFollow`: in the end every object whose reference is ready becomes ready.

*Leases, identifiers, leader.*

* `LeaseIsKept`: a cluster that is on time loses its lease only to a rival that read the
  labels before the lease was acquired, or is late itself: the race the code's comment
  concedes.
* `Settles`: one cluster ends up with the lease and the resource.
* `AgreedID`: an identifier that was returned is what all later calls return.
* `LeaderIsSuspended`: from its start on, the syncer of a running leader is suspended,
  unless callbacks overlapped.
* `FollowersFollow`: in the end the others pull from the leader, unless a callback used
  up its attempts or overlapped with another.

### Three disagreements

1. *A paused namespace that is not* (`direct_default_mode`). `FetchLiveKCCState` treats an
   empty `spec.mode` of the ConfigConnector as namespaced, the documented default;
   `DecideActuationMode` looks at the ConfigConnectorContext only if the field says
   `namespaced`. With the field empty, a context set to `Paused` is read and ignored.
2. *A binding that stays* (`iam_withdraw_race`). `SetPolicy` comes first and
   `lastAppliedBindings` is recorded afterwards, in a write that conflicts if the object
   was edited meanwhile. If the edit withdraws the binding, the next reconcile does not
   know that it was granted, and it stays although the object is up to date.
3. *A resource that is created twice* (`tf_lost_id`). The ID that GCP made up is recorded
   after `Apply`. If that write conflicts, or the manager dies, the next reconcile takes
   the missing ID for a missing resource and creates another one.

### Limits that the properties state as excuses

What the code gives up, by decision or by omission, is in the model, and the properties
name it rather than exclude it:

* with an interval of zero a change of labels is let through by the predicate and dropped
  by `ShouldSkip`, which compares generations; an object that was paused is not brought
  back by the end of the pause; an object whose watch timed out waits for ever.
  `Converges`, `TimerIsTheNet` and `DependentsFollow` are about intervals above zero;
* a direct resource whose generated identifier has not been recorded yet can be created
  a second time or be left behind (`managed` begins with the record);
* `handleUnresolvableDeps` does not release its permit when `resourcewatcher.New` fails
  (`Leaked`);
* a partial policy whose object is deleted between `SetPolicy` and the write of its
  finalizers leaves its bindings behind: `RecordedIsRevoked` is about what was recorded;
* an object whose parent object is gone is let go without a call to GCP, also if the
  parent's resource is still there (`waived` in `TerraformReconciler`);
* a callback for an earlier leader may switch on the syncer of a cluster that has become
  the leader meanwhile (`overlaps`), before or after its manager is started, and one that has used up its attempts leaves the
  syncer as it is (`gaveUp`).

### Bounds

*DirectReconciler.* One object suffices: the controllers keep no state that relates two
objects in this part (references enter as failures that may end). Two values of a
field suffice to tell "changed" from "unchanged", the only thing the code does with
them. `MaxGeneration` bounds how often users edit a spec; two edits after one another
while a reconcile is under way need generation 2, and a deletion adds a generation
that the bound does not count; it bounds pauses and `SetSpecResourceID` in the same way,
and changes of the deletion policy by one generation more, so that they also come while
the object is being deleted. Two `IDs` make a second creation possible: GCP does
not give an identifier twice, and one that nobody knows any more can stand for a new
one. `direct_live` is about named resources: what it adds is queues, timers and
conflicts, which do not depend on how a resource is found. `Requests` bounds what users do besides: a run that is
not about abandoning and uninstalling leaves them out. `Annotations`, `KCCStates` and
`Drifts` are the values the environment chooses from. Creation after deletion is
always allowed, so stale copies survive into the life of a new object of the same
name. `direct_safety` uses symmetry of specs, labels and identifiers, which are only compared;
`direct_live` uses none.

*TerraformReconciler.* `MaxMade` 2 lets a second resource be created by mistake. Two
specs differ in a mutable field and a third in an immutable one; the first two are only
compared, and symmetric.

*PartialPolicy.* One object that specifies a grant or none, and two that only people
make, one with the same role and one with the same member, are what the safety
properties tell apart; the proof covers any number. `iam_granted` needs two objects and one binding, and no faults, since it is
about the time after them. `Slices`: two bindings are enough for equal keys, equal
members under different keys, and no members; the theorems are about any.

*DependencyWatch.* One permit and one slot make the limits matter: a leaked permit
leaves none, and a second send blocks. The proof covers any number. Actuation is paused
and resumed as a whole.

*Leaser.* In the code a lease lasts 40 minutes, is renewed below 20, and an object is
reconciled after 5 to 15 (10 with jitter), by default; the unit of the model is coarse,
but keeps the order of these and leaves `Period + 3 * Latency <= Renewal` (`TimingAssumption`)
tight. Nothing in the code enforces `Latency`, the time from the read of the labels to
their write: a reconcile may take up to its deadline of 59 minutes (`constants.go:32`).
One that takes longer than `Latency` `Overruns`. In the run one cluster does, which puts
it against a rival on time from either side; the theorems allow it of any. `Settles` also needs
`Duration - Renewal` to exceed the time a rival may sit on an old read: with 5 and 4, or
4 and 4, TLC finds two clusters that overwrite each other's lease for ever.

*NamespaceID.* Three callers: two that race and one for another namespace.

*MultiClusterLeader.* Four terms of two clusters make a cluster lead, lose and regain
the lease with callbacks for each; two attempts show the retry and its end (5 in the
code).

### Fairness

*DirectLiveness.* The queue retries without a limit, so nothing can be promised while
calls keep failing. `settled` becomes true at some point, if ever; from then on users and
administrators act no more, processes stay up and calls that nothing speaks against
succeed (`CallGoesWell`): a stale copy still conflicts, and a stale `Find` still
misleads `Create`. Properties are stated for the time after. That it comes is not
assumed. What is assumed is weak fairness of the worker (a key that is due is handed
out and a running reconcile goes on), of the defender (it watches its objects and is
retried with backoff) and of the timer, which is what controller-runtime provides.

*The others* state the same condition as `<>[][Works]_vars`: from some time on every step
is one of the controllers' own, so that no user acts, no call fails and no process dies,
while conflicts, refusals and timeouts that come of the protocol itself remain. `PartialPolicy`: weak fairness of the
reconciles and the defender. `DependencyWatch`: weak fairness of reconciles, timers,
goroutines and the receiver, and strong fairness of a goroutine that sends, since a Go
channel serves blocked senders in turn. `Leaser`: weak fairness of time and of the
reconciles. `MultiClusterLeader`: weak fairness of the election's notices and of each
callback, which is a goroutine.

In `direct_live` deadlock is allowed, since a settled system without an object has
nothing left to do. In the other runs a user, a restart or a process can always act.

## Proofs

All for every value of the constants under the assumptions of the modules, which state
types, that the absent values are not values, and nothing on sizes; `Leaser` adds
`TimingAssumption`.

| Module | Theorems |
|---|---|
| `DirectProofs` | `Invariance`, `TypeCorrect`, `OrphanFreedom`, `SingleCreation`, `DeletionIsRequested`, `PauseIsHonoured`, `StatusIsTrue`, `DeletionIsSeen`, `NoObjectIsForgotten` |
| `RefinementProofs` | `ManagedResourceIsImplemented` |
| `TerraformProofs` | `TrackInvariance`, `TerraformTypes`, `NamedAreAccounted`, `TrackIsKept`, `NothingIsRecreated`, `NothingIsDestroyedUnasked`, `NamedResourcesAreManaged` |
| `PartialPolicyProofs` | `MergeExact`, `RemainderExact`, `Canonical`, `PolicyInvariance`, `PolicyTypes`, `ForeignGrantsSurvive`, `ComputationIsExact`, `SentCanonically`, `RevokeInvariance`, `RecordedRevoked` |
| `DependencyProofs` | `WakeInvariance`, `WatchTypes`, `NoWakeUpIsLost`, `TimerNet` |
| `LeaserProofs` | `LeaseTypes`, `LeaseInvariance`, `LeaseKept` |
| `NamespaceIDProofs` | `IdTypes`, `IdInvariance`, `IdAgreement` |
| `LeaderProofs` | `LeaderInvariance`, `LeaderTypes`, `LeaderSuspended` |

So every invariant and every action property that a passing run checks is also a theorem.
`IndInv`, `IdInv` and `LeaderInv` include the type invariants of their modules.

*Direct controller.* `NoOrphan` is not inductive: `Create` runs with an old copy, and
that the finalizer it saw is *still* there follows from what everyone else may do.
`IndInv` says it in parts:

* `ObjectInv`: an object has both finalizers or none until it is deleted; a deletion
  that has lost the defender's finalizer but not the controller's was a user's.
* `DefenderInv`: what the defender found out about the CRD still tells an uninstall
  from a user's deletion when it writes, because a write with a stale copy is refused.
* `CopyInv`: the controller's copy equals the object while it is current; when stale,
  a controller finalizer in it is still on the object, and so is a deletion that has
  passed the defender (nobody else can undo either).
* `StepInv`: what `doReconcile` has established before each of its calls; in
  particular that nothing is managed, or KCC excused, when the finalizer is removed.
* `IdentityInv`: what is managed can be found from the object; only a reconcile under way
  changes the identifier, so that a copy with the finalizer has the object's; and nothing
  that could be found was overlooked before `Create`.
* `WorldInv`: facts about CRD and GCP that the above lean on.

`SingleCreation` follows from `IdentityInv` in the state before the step. The proof has one lemma per action. `ControllerWrites`, `ControllerMoves` and
`OthersWrite` carry the three arguments all of them share: a write by the controller
that does not remove finalizers, a step without a write, an edit by somebody else.
`PauseIsHonoured` rests on `DecisionPerDocs`, a case analysis that compares
`ShouldSkipActuation` with the documented meaning of the settings, and assumes that every
setting spells out the mode; `direct_default_mode` shows that it must.

`StatusIsTrue` and `DeletionIsSeen` add `StatusInv`: the status is honest, a current copy
agrees with what was confirmed for its generation, and so does each step that will
write a status. `NoObjectIsForgotten` is by an invariant on who owes the object its next
reconcile. The refinement needs `AskedInv`: what the object says, and what a copy with
the finalizer says, has been asked for since the object was created. Each action then
maps to one of `ManagedResource`, or to a stutter.

*Bindings.* The operators are unfolded key by key; what each grants is a lemma, and the
theorems combine them. The slices are arbitrary sets. `ComputationIsExact` and
`SentCanonically` carry this over to the slices of a reconcile.

*PartialPolicy.* A copy of the policy whose etag is current is the policy
(`PolicyInv`), so that what `SetPolicy` writes contains every foreign binding no
object specified, which no `lastAppliedBindings` contains either.
`RecordedIsRevoked` is about two steps far apart: what `SetPolicy` takes away is dropped
from the record one or two writes later, while people and other objects change the
policy. `RevokeInv` bridges them:

* `RecordInv`: an object with a record has its finalizers, so it cannot go by a user's
  hand; finalizers come in pairs and the defender's goes first.
* `CopyInv`: a copy with the current version has the object's record and its abandon
  annotation, until a deletion clears the record in it. A stale one cannot be written.
* `DropInv`: what a reconcile is about to drop is owed no more. It is about `owed`, the
  object's own grants, and not about the policy: people may have granted the same
  binding again meanwhile. Nobody but this reconcile adds to `owed[p]`.

`LastWrite` and `FirstWrite` are the two writes, `SetRevokes` the call that revokes,
`OtherRevokes` the steps of other objects, `OthersRevoke` those of users and the defender.

*Terraform and DCL.* The properties speak of the object in the API server, and `Apply`,
`Destroy` and the removal of the finalizer work with a copy that may be old. `TrackInv`
says what such a copy is still good for:

* `ObjectInv`: both finalizers or none, until a deletion, in which the defender's goes
  first.
* `CopyInv`: a current copy is the object. A copy with the finalizer may be old in its
  spec and annotations only: the object is there, with the finalizer and the same ID,
  and is being deleted if the copy is, because only this reconcile writes IDs and takes
  the finalizer away.
* `UpdateInv`: what `sync` has established before each call: not deleting, finalizers
  present, the live state that of the object's own resource, and no live state only if
  there is none to be found (`Findable`). From the last and `CopyInv` follows
  `NeverRecreated`.
* `DeleteInv`: before `Destroy` nothing can be found but the resource that was fetched,
  and before the finalizer goes nothing at all, unless the reconciler lets go.
* `WorldInv`: a parent that is gone has taken its resources along; a name is taken once.

There is one lemma per group of steps, and the common arguments are lemmas of their own:
`OthersWrite` (users, defender) and the writes of the reconcile with a current copy.
The action properties follow from the invariant in the state before the step.

The refinement maps the resource that has the name at the moment, if any, to `resource`,
and needs three history variables: `asked`, the specs the object has had; `doomed`,
whether the object, since it is being deleted, has ever been without the abandon
annotation; `excused`, whether it ever had it, or an orphan was let go of. `RememberedInv`
says that what the object and a copy with the finalizer say is remembered: by `CopyInv`
such a copy is one of the object that is there now, so that what it asks for has been
asked for since *this* object was created. `Apply` maps to `Apply`, a changed parent to
`Drift`, the write of finalizers to `Hold`, all reads and status writes to stutters. TLC
finds `RememberedInv` invariant on the instance of `terraform`, too.

*Dependencies.* `WakeInv`: a goroutine that watches knows that its reference is ready if it
is (`PermitInv`), and an object that waits has a goroutine or a message under way
(`WaitInv`); `StaleInv` says that a status write conflicts only after a user's write, who
has queued the object.

*Leases.* `LeaseInv`: the lease of a holder that is on time outlasts the reconcile that
renews it and any rival's that has read it (`OnTime`, `RivalWaits`), in terms of the time
left on lease and timers. A cluster that is late is in `raced`, and a lease it holds in
`lapsed` (`Running`), so that no time bound is claimed for it.

*Identifiers.* `IdInv`: a current copy is the ConfigMap; an entry that a call has found
stays, even if its copy is old; a deletion has its namespace to itself.

*Leader.* That a callback has suspended the syncer says nothing of the syncer later: what
counts is who may write to it. `TermInv` says that callbacks exist for terms that were won
and that a manager is started by the winner's only; `AloneInv` that a cluster which won
while none of its callbacks was at work (`overlaps`) has no other one at work as long as
it leads, so that the syncer stays suspended once its own callback is through.

Model-checked only: the liveness properties (`DeletionCompletes`, `Converges`,
`SpecifiedIsGranted`, `PermitsComeBack`, `DependentsFollow`, `Settles`,
`FollowersFollow`), which need fairness and are out of this prover's reach.

## Not modelled

* A CRD that is installed again after its objects are gone; finalizers of third
  parties; changes of the reconcile interval during an object's life; container and
  force-reconcile annotations, which the predicate treats as it treats labels.
* Two managers at once during a change of leader: the lease of controller-runtime is
  taken to exclude it.
* The resource watcher in the direct controller: the registration controller builds
  direct reconcilers without the channel it needs, so an unresolved reference ends in
  a retry, as modelled.
* The length of intervals, backoff and rate limits, except for leases.
* `Obtain` and `Release` of leases, and `SetNamespaceID`, which only tests call.
* Clocks that differ between clusters.
* In the TF and DCL reconcilers: defaulting, changes for backwards compatibility,
  overrides of single kinds, the conversion between KRM, Terraform and DCL objects.
* The direct version of IAMPartialPolicy (`pkg/controller/direct/iam`), an adapter with a
  copy of `bindings.go`, beyond what `DirectReconciler` says of all adapters.
* `pkg/gcpwatch`: its tracker is built only under an environment variable and its channel
  is handed to no controller.
* The registration and parent controllers, the unmanaged detector, the webhooks: routing,
  a single read and write, or a stateless check, with nothing that two steps could see
  differently.
* The operator, which applies manifests through a library; what reaches the modelled
  code are the settings (CC and CCC) and its calls for namespace identifiers.
* API types, clients and CRDs, which are generated; the mock of GCP, which is a test
  double and by far the largest part of the repository; exporters and generators.

## Plan

1. Leases composed with the TF reconciler, so that `Latency` is the length of its steps.
2. `IAMPolicyMember` next to `IAMPartialPolicy` on the same policy.
3. The operator's finalization of a namespace against its managers.
