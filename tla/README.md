# Verification of k8s-image-pre-puller

`k8s-image-pre-puller` is a Kubernetes operator. A user creates `PrePullImage`
objects (an image and a nodeSelector); the controller keeps one DaemonSet per
nodeSelector whose init containers pull the images, and records in an annotation
of that DaemonSet which `PrePullImage` wants which image. This directory holds
TLA+ modules of that program, the TLC configurations that check them on small
instances, and theorems about them that TLAPS checks.

Paths are relative to the repository's root; `reconciller.go` is short for
`internal/controller/prepullimage_reconciller.go`.

## 1. Inventory

| Component | State | Operations | Hard behaviour | Modules |
|---|---|---|---|---|
| Image-name annotation (`internal/controller/annotations.go`) | two maps: name to image, image to names | add, remove, read | the annotation may hold an older image than the spec; both maps must change together | `ImageIndex` |
| Reconciler (`reconciller.go`, `utils/finalizers.go`) | none of its own: copies of the PrePullImage and of the DaemonSet during one call | `Reconcile`: up to six calls to the API server | interleaving of workers on one DaemonSet, stale copies, a failure or crash between two calls, lost replies | `Reconciler`, abstract: `Registry` |
| Controller (`prepullimage_controller.go`, `prepullimage_handlers.go`) | informer store, a queue per worker, workers | three event handlers, `processNextReq`, `Run` | events dropped or merged, an edit during a reconcile, retries | `Controller`; start and end of `Run`: `LeaderElection` |
| API type and CRD (`pkg/apis/images/v1`, `charts/.../crds`) | `image`, `nodeSelector` | none | the CRD lets users edit the nodeSelector | `Reconciler` |
| Leader election and process life cycle (`cmd/pre-pull-image-controller/main.go`) | lease, readiness, goroutines | acquire, renew, release, start and stop of `Run` | the process that survives its lease, work that goes on after the release of the lease, restarts with the same identity | `LeaderElection`, `Failover`, abstract: `Leadership` |
| Health probe (`internal/health/probe.go`) | one atomic flag | enable, disable, serve | order of enable and disable | `LeaderElection`, `Startup` |
| Names and hashes (`internal/names/k8s_name.go`) | none | names of DaemonSets and containers, crc32 hashes | the length bound, what cleaning and cutting lose, the order of a map | `K8SName` |
| Configuration (`internal/config/config.go`) | none | parse, validate | what is used long after it was checked, by goroutines whose panic ends the process | `Startup` |
| Servers for probes, metrics and pprof (`main.go`) | routes, ports | start | panics and fatal errors beside the elector | `Startup` |
| Informer factory (`pkg/client/informers/externalversions/factory.go`) | informers, which of them are started, a WaitGroup | `InformerFor`, `Start`, `Shutdown`, `WaitForCacheSync` | `Start` against `Shutdown`, repeated calls | `InformerFactory` |
| Clientset, listers, deep copies, fakes (`pkg/client`, generated) | informer store | list, watch, deliver | a list after a broken watch | external in `Reconciler`, `Controller` |
| Random strings, chart, logging | | | | |

How they interact. The informer delivers versions of `PrePullImage` objects to
the handlers; a handler puts a key into the queue its hash selects; the worker
of that queue calls `Reconcile`, which reads and writes the API server directly
and never the informer's store. Two workers meet only in the API server: in a
DaemonSet that two `PrePullImage`s with the same nodeSelector share. The writes
of `Reconcile` to a `PrePullImage` (the finalizer) come back to the handlers as
update events. Leader election starts `Run` in a goroutine of its own, hands it a
context, and cancels that when the lease is lost or given up; nobody waits for
`Run`, and the API server does not know who leads.

What makes each part correct:

* annotation: the inverted map is the inverse of the map;
* reconciler: a stored DaemonSet always pulls what its annotation lists;
  reconciling one object never disturbs another; a listed object has the
  finalizer, so that it cannot go without being withdrawn; success means pulled;
* controller: no request is lost; when nothing is left to do the cluster is what
  the specs ask for; the controller comes to rest;
* leader election: one process leads at a time, whatever becomes of clocks, cuts
  and replies; what a deposed process left half done is taken over; some process
  works again after a leader is lost; a process that lost the lease stops working;
* names: valid, bounded in length, equal for equal input; where there is a hash, equal
  for equal hashes only;
* configuration: what passes the validation does not end the process later;
* informer factory: an informer runs once, a shutdown is final, waiting ends.

The hazards, each at its line and with the properties meant for it, are listed in
`PROJECT.json`.

## 2. Modules

| Module | Models | Notes |
|---|---|---|
| `ImageIndex` | `annotations.go` | operators; a Go map is a function, a list of names a set |
| `Reconciler` | `reconciller.go`, `finalizers.go`, the API server, users, nodes | extends `ImageIndex` |
| `Registry` | what `Reconcile` promises, without calls, copies and versions | abstract; `Reconciler!ImplementsRegistry` |
| `Controller` | controller, handlers, queues, informer | extends `Reconciler`: the same workers, scheduled by the queues |
| `LeaderElection` | `main.go`, `probe.go`, the beginning and the end of `Run` | client-go's elector, kubelet and network external |
| `Leadership` | what the election promises to the rest of the program | abstract; `LeaderElection!ImplementsLeadership` |
| `Failover` | workers of several processes under `Leadership` | extends `Reconciler`, composes it with `Leadership` |
| `InformerFactory` | `factory.go` | |
| `K8SName` | `k8s_name.go` | a state is a call |
| `Startup` | `config.go`, the start of `main`, the servers | |
| `ImageIndexProofs`, `ReconcilerProofs`, `LoneWorkerProofs`, `ControllerProofs`, `LeaderElectionProofs`, `FailoverProofs`, `ProcessProofs`, `K8SNameProofs` | the theorems | section 4 |
| `MC...` | model values and functions for TLC | |

### Reconciler

One action is one call to the API server with the computation up to the next
call: between two calls anything may happen, within one nothing visible to others
can. `pc[w]` names the call that worker `w` makes next; `obj[w]` and `held[w]`
are its copies of the `PrePullImage` and of the DaemonSet, `listed[w]` the
tolerations it got from listing the nodes.

| Actions | Code |
|---|---|
| `Start`, `Finish` | the call of `Reconcile` by `processNextReq`, its return |
| `GetPpi`, `AddFinalizer`, `RemoveFinalizer` | `Reconcile` |
| `GetDs` | `ensurePrePulling`, `getCurrentPrePullingDaemonset` |
| `ListNodesForCreate`, `CreateDs` | `createDaemonSetForPrePulling` |
| `PutContainer` | `ensurePrePullContainerInDaemonSet` |
| `ListNodes`, `PutTolerations` | `ensureDaemonsetHasProperTolerations` |
| `DropOrphans` | `ensureDaemonsetPrepullOnlyImagesFromAnnotation` |
| `GetDsToRemove`, `PutWithdrawn`, `DeleteDs` | `removeFromPrePulling` |
| `Refused` | Conflict, AlreadyExists, NotFound, Invalid from the API server |
| `CallFails` | a call that fails without effect; the parameter `answered` of each write is FALSE when it takes effect and the reply is lost |
| `Crash` | the process dies |
| `User...`, `ForeignFinalizerRemoved`, `NodeTainted` | the rest of the cluster |

Choices of the abstraction:

* **resourceVersion.** A version is compared with the stored one only, so the
  model keeps, instead of numbers, the sets `objCurrent` and `heldCurrent` of the
  workers whose copy has the stored version. A write takes the others out. A write
  that changes nothing leaves the version alone, as the API server does.
* **containers** are known by their image, **tolerations** by the taint they are
  made from; `CtrName` and `DsName` stand for the crc32-based names, so that an
  instance may let names collide. Labels, secrets, commands, resources and the
  main container do not matter to any property.
* **namespaces** do not interact; there is one.
* **`Serves`** says which worker may get which key. With `OneWorkerPerKey` it is
  what the hash gives in one process; without it the workers are those of several
  processes.
* **tolerations** of the DaemonSet are those for the taints of the nodes the
  nodeSelector selects, without the taints Kubernetes itself sets
  (`BuiltinTaints`), and are only ever added to.

### Registry

Per name a `PrePullImage`, per DaemonSet the entries it lists; the steps are
`Protect`, `Register`, `Withdraw` and `Release`, and what users do. `Reconciler`
maps its `ppi` to itself and the annotations of its DaemonSets to `listing`
(`Listing`); copies, versions, containers and tolerations are gone. That every step
of `Reconciler` is a step of `Registry` for one name, or none, says at once that
nothing is listed before it is protected, that an entry goes only when its object is
being deleted, that a DaemonSet goes only if it lists nobody else, and that the
finalizer goes only when nobody lists the object: the order of three writes to two
objects, with crashes, lost replies and users in between.

### Controller

`cache` is the informer's store, `pending` the versions on their way to it,
`queue` and `delayed` the keys in the queues and those that `AddRateLimited`
holds back. Every worker has a queue of its own and a key's hash selects the
queue, so one set of keys with `Serves` says the same as several queues. A key
added while it is worked on is in `queue` and is taken by its own worker, so only
after that worker is done: the dirty set of client-go. `Relist` is the list after
a broken watch: only the present version of each object arrives. A periodic
resync delivers a version equal to the one in the store, which
`updatePrePullImage` drops (`prepullimage_handlers.go:38`), so it is no action.
`Restart` is the end of the process, busy or idle, and another one taking over: empty
queues, a fresh list.

### LeaderElection

Time is counted in RetryPeriods of 5 s: `LeaseDuration` is 12, `RenewDeadline` 3,
and an elector that has slept for one period gives up after another three
(`Patience`). A `Tick` lets a period pass once everything that is due has
happened. `holder` is the stored lease; `current` are the processes whose last
observation of it is the stored version (as for `heldCurrent` above), `age` how long
they have seen it unchanged.

| Actions | Code |
|---|---|
| `Observe`, `Acquire`, `Renew`, `GiveUp`, `Interrupted`, `Release` | client-go's elector with the settings of `main.go:143`: Get and Update of the lease, the deadline, `ReleaseOnCancel` |
| `Stopped` | the elector's `Run` cancels the context and calls `OnStoppedLeading` (`main.go:153`), also if it never led |
| `Enable`, `CacheSynced`, `Work`, `WorkDone`, `Drained` | `OnStartedLeading` (`main.go:149`) and `Run` of the controller: readiness, informers, workers, their end |
| `Terminate`, `Exit` | SIGTERM; the end of `main`, which waits for the elector and the servers and not for `Run` |
| `Crash`, `Boot`, `CutOff`, `Heal` | the process is killed, kubelet and Deployment start it anew, the network |

A process that was killed comes back with its identity (a container restarts in its
pod); one that was told to stop is replaced by a pod with another name, and the
lease it leaves is held by `Departed`. `Work` after the context is done is left out:
every call of that reconcile fails before it is sent.

### Leadership and Failover

`Leadership` has the leader and the processes that may still work: one process is
elected at a time, may be deposed, and its context is cancelled some time later, for
good. `LeaderElection` implements it. `Failover` puts `Reconciler` under it, each
worker a process of its own, all serving every key: `GoOn` is a call by a process
that may work, `BreakOff` the end of a reconcile whose context is done, the call in
flight failing or taking effect without an answer. `intruded` records that a write
of a process took effect after another process had been elected.

### InformerFactory

One action per method and lock: what `Start`, `Shutdown`, `WaitForCacheSync` and
`InformerFor` do under the lock is atomic, the waiting of `Shutdown` and
`WaitForCacheSync` is not. An informer's `Run` ends when its channel is closed
(`RunReturns`); the WaitGroup counts the informers that run (`Running`).

### K8SName

A string is a sequence of ASCII bytes (of other characters, none of which is compliant,
`ToLower` makes two compliant letters: the dotted I and the Kelvin sign; these are left
out). A name is one such string, the dash and the digits of the hash in it, so that what
can be told from a name is what the code's names show. `Crc32` is any function from
strings to between one and ten digits, and may collide. `Join` is `strings.Join`. Keys and values
of labels are sequences of bytes, since the code compares keys byte by byte; `Sorted` is the one permutation of the pairs that the stable sort by key makes, and
`labels` the pairs in the order in which Go happens to iterate the map. Reference
definitions: the bound on the length, the pattern of the regular expression, equality
of hashes, equality of sets of pairs.

### Startup

A configuration file is known by what its checks and its uses tell apart: an unknown
field, which of the five required texts it gives and which of these through
`$POD_NAME`, the resource lists that parse, the number of workers, paths and ports.
`Launch` starts elector and servers, which come up in any order; a panic or a fatal
error of any of them ends the process. The port of another server of the process stands
for every port that cannot be had: one out of range or used by another program fails in
the same call (`main.go:200`), and is excluded by the proviso of `ValidFilesRun`, that the
ports can be had.

## 3. Runs

| Run | Instance | Shows |
|---|---|---|
| `two_workers` | 2 names, 2 images, one DaemonSet, 2 workers with a key each; 1.5 million states | `TypeOK`, `DsWellFormed`, `FinalizerProtects`, `OneEntryAtATime`, `UnpulledOnlyByUnseenDelete` |
| `one_worker` | 2 names, 2 images, 2 nodeSelectors, 1 worker; 210 thousand states | `ImplementsRegistry`, `BystandersStayPulled`, `ListedInItsDaemonSetOnly` |
| `whole_cluster` | 1 name, 2 images of one container name, 2 nodeSelectors that users edit, 2 nodes, a taint and a builtin taint, a foreign finalizer; 1.7 million states | `SuccessMeansPulled` |
| `controller_one_worker` | 2 names, 2 nodeSelectors that users edit, 1 worker, 4 edits, 1 fault; 2.2 million states | `CTypeOK`, `QuietMeansPulled` |
| `controller_settles` | 2 names, 2 workers, relists, 3 edits, 1 fault, fairness; 139 thousand states | `Settles`, `QueuedDeletionCompletes`, `DeletionKept` |
| `election` | 2 replicas, 2 faults, fairness; 90 thousand states | `ETypeOK`, `OneLeads`, `LeaderIsSafe`, `ImplementsLeadership`, `SomeoneServesUntilAllReturned`, `WorkStops` |
| `failover` | 1 name, 2 images, 2 processes, which are interchangeable | `FTypeOK`, `ProtectsUnlessIntruded` |
| `informer_factory` | 2 types, 2 stop channels, 2 goroutines, fairness; 17 thousand states | `ITypeOK`, `RunsOnce`, `ShutdownIsFinal`, `WaitsEnd` |
| `names` | lists of up to 2 of 11 names, 7 lengths around the limits, a stand-in for crc32, maps of up to 3 labels; 5 thousand calls | `FitsMaxLength`, `CompliantName`, `ChangesShow`, `OneHashPerMap` |
| `startup` | files that differ from a good one in each thing the code looks at, 3 servers, fairness; 16 thousand states | `STypeOK`, `ValidFilesRun`, `StandbyAnswers` |

Why the instances are enough: the reconciler treats a key, an image or a nodeSelector
only by comparing it with another one, and every interaction is between the
object being reconciled and one other (its neighbour in the DaemonSet, its former
image, its former nodeSelector), so two of each give every case. The runs of
`Reconciler` and `Failover` bound nothing else: users, failures, crashes and
elections may go on for ever and TLC visits the whole state space. `Controller` needs
bounds for the events on their way: `MaxEdits` and `MaxFaults` bound how often the
cluster and the faults act. Every counterexample found needs at most three edits and
one fault; `controller_one_worker` allows one edit more, `controller_settles`, which
checks liveness, the same. One fault is enough for any single failure, including the
one in the middle of a retry. In `election` two faults give a cut during which the
other replica dies, a lost reply followed by a restart, and both replicas losing the
lease; the safety properties are proved for any number of replicas and faults. In
`names` the strings have every kind of character before, after and between the
others, one is spelled like the name of another with its hash, hashes are of ten digits and
of fewer, and the lengths go from where nothing is left for the names to where nothing
is cut; what crc32 is does not matter to the theorems. In `informer_factory` a second type, channel and goroutine give every order of
two calls.

Deadlock is checked for `Reconciler`, `Failover`, `LeaderElection` and
`InformerFactory`. `Controller` with its budgets used up, a list of names that is
complete and a process that is up or dead have no next step by intention; their
configurations turn the check off.

Fairness is weak throughout, and of steps the program takes by itself:

* `FairSpec`: each goroutine's next step, the delivery of each event and the end of
  each delay (the rate limiter waits at most 300 s). Nothing obliges users to act or
  calls to fail, and failures are bounded, so `Settles` and
  `QueuedDeletionCompletes` say what happens after the last failure.
* `EFairness`: goroutines, timers, the kubelet starting a container anew, the network
  healing. That a worker gets work is up to the users.
* `IFairness`: calls that wait and informers whose channel is closed. Nothing makes
  callers call, channels close, or the API server answer the first list.
* `SFairness`: parsing, and the goroutines of the servers; that the lease is free is
  up to the other replicas.

### Findings

Two runs end in a counterexample: each checks what a test or a comment of the
repository says, against what the code does.

| Run | What happens |
|---|---|
| `edited_then_deleted` | The image is edited from i1 to i2 and the object deleted before a reconcile. `removeFromPrePulling` takes the name out of the annotation but drops only the container of i2 (`reconciller.go:102`): the DaemonSet stays, lists nobody, and pulls i1. |
| `deletion_ignored` | The delete of an object with a finalizer is an update event that sets the deletionTimestamp. The spec is the same, so `updatePrePullImage` drops it (`prepullimage_handlers.go:44`) and the finalizer stays. |

A resync does not help in `deletion_ignored`: the deletion is reconciled only after a
restart, after an edit of the spec, or if the key was queued anyway. That last case
is what `QueuedDeletionCompletes` and `DeletionKept` are about.

Nine more configurations, kept for TLC beside those of the runs, show that the
provisos of the properties above are needed:

| Configuration | Property | What happens |
|---|---|---|
| `MCSelectorEdited.cfg` (`MCReconciler`) | `ListedInItsDaemonSetOnly` | The nodeSelector is edited. `Reconcile` looks at the DaemonSet of the new one only (`reconciller.go:153`); the old one lists the object and pulls its image for ever. |
| `MCUnseenDelete.cfg` (`MCController`) | `QuietMeansPulled` | Worker 1 reads a DaemonSet with its own entry alone and decides to delete it; worker 2 adds its entry and returns success; worker 1 deletes (`reconciller.go:114`). Nothing queues the second object again. |
| `MCWatchBroken.cfg` (`MCController`) | `QuietMeansPulled` | While the watch is down the object goes and comes back with the same spec. The list delivers one update with an equal spec, which is dropped. |
| `MCNodeTainted.cfg` (`MCController`) | `QuietMeansTolerated` | A selected node gets a taint after the reconcile. No event leads to a reconcile, and the resync is dropped (`prepullimage_handlers.go:38`). |
| `MCElectionOver.cfg` (`MCLeaderElection`) | `SomeoneServes` | Each of two replicas is cut off while it leads, for longer than the RenewDeadline. `RunOrDie` has returned for good (`main.go:155`), the processes live on with a liveness probe that answers 200 (`main.go:117`), and nobody ever leads again. |
| `MCFailoverOverlap.cfg` (`MCFailover`) | `ProtectsAcrossFailover` | The lease is released while `Run` is still working (`main.go:144`). The new process reconciles the deletion of an object, finds no DaemonSet and removes the finalizer; then the Create of the old process lands: a DaemonSet lists an object that is gone. |
| `MCNamesBegin.cfg` (`MCK8SName`) | `BeginsAlphanumeric` | Each name is cleaned for itself and then joined with dashes (`k8s_name.go:80`), so a first name of which nothing is left makes a name that begins with a dash; the one caller passes a constant first. |
| `MCNamesAlike.cfg` (`MCK8SName`) | `ChangedNamesDiffer` | With `IncludeCRC(false)` the list `["A"]` gives `a-` and the hash of `A`, since it was changed (`k8s_name.go:54`); the list of that very string is compliant and gives the same name without a hash. The one caller asks for a hash always (`reconciller.go:409`), and then only equal hashes give equal names. |
| `MCNamesSeparators.cfg` (`MCK8SName`) | `OneHashPerMap` | Keys and values are written between colons and semicolons that nothing escapes (`k8s_name.go:117`): the nodeSelectors `{a: "a;b:a"}` and `{a: a, b: a}` have one text, so one hash and one DaemonSet. Labels of nodes have no such characters, but the CRD admits them in a nodeSelector. |

## 4. Proofs

The theorems hold for any finite or infinite sets of names, images, nodeSelectors,
nodes, taints, workers, replicas, types, channels, callers, configuration files, names
and labels of any length, and any bounds. They assume what the modules assume of their constants, and what the table adds.

| Module | Theorem | Statement | Further assumptions |
|---|---|---|---|
| `ReconcilerProofs` | `TypeCorrectness` | `Spec => []TypeOK` | |
| | `DaemonSetsWellFormed` | `Spec => []DsWellFormed` | |
| | `NoLostUpdates` | `Spec => OneEntryAtATime` | |
| | `UnpulledOnlyByDelete` | `Spec => UnpulledOnlyByUnseenDelete` | |
| | `FinalizerProtection` | `Spec => []FinalizerProtects` | `OneWorkerPerKey`, nodeSelectors not edited |
| | `ListedOnce` | `Spec => []ListedInItsDaemonSetOnly` | `OneWorkerPerKey`, nodeSelectors not edited |
| `LoneWorkerProofs` | `LoneWorkerKeepsBystanders` | `Spec => BystandersStayPulled` | `Alone`: one worker |
| | `LoneSuccessMeansPulled` | `Spec => []SuccessMeansPulled` | `Alone` |
| | `WorkersImplementRegistry` | `Spec` without a step that `DeletesUnseen` `=> ImplementsRegistry` | `OneWorkerPerKey`, nodeSelectors not edited |
| | `ReconcilerImplementsRegistry` | `Spec => ImplementsRegistry` | `Alone`, nodeSelectors not edited |
| `ControllerProofs` | `ControllerRunsReconciler` | `CSpec => Spec` | |
| | `ControllerTypeCorrectness` | `CSpec => []CTypeOK` | |
| | `RequestsLostInTwoWaysOnly` | `CSpec` with steps that `LosesNoRequest` only `=> []QuietMeansPulled` | `OneWorkerPerKey` |
| | `LoneWorkerLosesNoRequest` | `CSpec => []QuietMeansPulled` | `Alone`, the watch does not break |
| | `DeletionsAreKept` | `CSpec => DeletionKept` | |
| `LeaderElectionProofs` | `ElectionTypeCorrectness` | `ESpec => []ETypeOK` | |
| | `LeadersAreSafe` | `ESpec => []LeaderIsSafe` | |
| | `AtMostOneLeads` | `ESpec => []OneLeads` | |
| | `ElectionImplementsLeadership` | `ESpec => ImplementsLeadership` | |
| `FailoverProofs` | `FailoverTypeCorrectness` | `FSpec => []FTypeOK` | |
| | `FailoverProtection` | `FSpec => []ProtectsUnlessIntruded` | nodeSelectors not edited |
| `ProcessProofs` | `FactoryTypeCorrectness` | `ISpec => []ITypeOK` | |
| | `InformersRunOnce` | `ISpec => []RunsOnce` | |
| | `ShutdownEndsInformers` | `ISpec => []ShutdownIsFinal` | |
| | `StartupTypeCorrectness` | `SSpec => []STypeOK` | |
| | `ValidatedFilesRun` | `SSpec => []ValidFilesRun` | |
| `K8SNameProofs` | `NamesFit` | `NSpec => []FitsMaxLength` | |
| | `NamesAreCompliant` | `NSpec => []CompliantName` | |
| | `ChangesAreHashed` | `NSpec => []ChangesShow` | |
| | `MapsHaveOneHash` | `NSpec => []OneHashPerMap` | `NoSeparators`: no colon or semicolon in keys and values |

**`ReconcilerProofs`.** The inductive invariant of the first four is `IInv`: `TypeOK`;
`Phases` (which copies a worker has at which call); `Copies` (a copy of the
DaemonSet that counts as current is the stored one); `DsWellFormed`;
`HeldWellFormed` (the copies are well formed too). `DsWellFormed` is not inductive
alone: what a worker writes is computed from its copy, so the copy must be well
formed, and a write that drops containers must see the annotation that is stored.
The lemmas of `ImageIndexProofs` say that adding and removing a name keep the two
maps inverse to each other, for any maps; they are where the delisting from both the
old and the present image is needed. No assumption on `Serves` is made, so these
results hold also for several processes at work at once.

`UnpulledOnlyByDelete` says exactly how far the isolation of objects goes: the only
step that takes an image from an object nobody touches is a Delete by a worker whose
copy is stale, the step of `MCUnseenDelete.cfg`.

`FinalizerProtection` adds `FInv`: `Guarded` (a worker past the finalizer works for a
stored object that carries it and still has the nodeSelector of the worker's copy)
and `Unlisted` (a worker about to remove the finalizer works for a name that no
DaemonSet lists). Both assumptions are needed: `MCSelectorEdited.cfg` is the
counterexample without the second, `MCFailoverOverlap.cfg` without the first.
`ListedOnce` carries `ListedInItsDaemonSetOnly` beside `FInv`: a worker gets to the
end past the finalizer or past its removal, and then nobody else has its key.

**`LoneWorkerProofs`.** A worker that is alone has the stored DaemonSet in its hands
whenever it holds one (`Seen`): nobody else writes them. From there `Sides`
(`Reconcile` is in `ensurePrePulling` or in `removeFromPrePulling`, as the
deletionTimestamp of its copy says), `NoBuiltins` (no builtin taint is tolerated) and
`Pulls` (what is done by the time `Reconcile` gets to the orphans, and when it
returns) are carried along; together with `IInv` they make `LoneInv`.

The step simulation of `Registry` needs `IInv`, `Sides`, `FInv`, and `Leaving`: a
worker on the way to withdraw or release works for an object that is still being
deleted, since only a deletion's end undoes a deletion. Each write that changes an
annotation or a finalizer is shown to be `Protect`, `Register`, `Withdraw` or
`Release` of the worker's name; every other step leaves `Listing` and `ppi` alone or
is one of the users'. That the worker is alone is used in one place, the Delete of a
DaemonSet: `Registry` takes it for granted that nobody else is listed.
`WorkersImplementRegistry` therefore holds of any number of workers and excludes that
step only, when the copy is stale (`MCUnseenDelete.cfg`); with one worker it cannot
happen.

**`ControllerProofs`.** Queues and informer choose among the steps of `Reconciler` and
add steps it does not see, so what is proved of `Spec` carries over to `CSpec`.
`QuietMeansPulled` says nothing of a state in which something is left to do; its
inductive invariant `QInv` does. `NoneForgotten`: an object that is not pulled is
queued, or held back, or a version on its way will make the handlers queue it, or a
worker has it and is at a call before the image is in. `SeesLatest`: a worker goes by
the stored spec, or its key comes up once more; this is what an edit in the middle of
a reconcile needs. `UpToDate`: the last version on its way is the stored one, so that
an edit is on its way as soon as it is made. TLC checked `QInv` on instances with one
and with two workers before it was proved. Two kinds of steps break it, and
`LosesNoRequest` names them: a Delete of a DaemonSet whose last change the worker has
not seen, and a list after a broken watch that hides a version. Both are real,
`MCUnseenDelete.cfg` and `MCWatchBroken.cfg`; the theorem says that there is no third
way.

Deletions differ from edits: the event that sets the deletionTimestamp makes no request
(`deletion_ignored`), so one that was taken up must not be dropped, for nothing brings it
back. `DeletionsAreKept` proves that, as the part of `QueuedDeletionCompletes` that is no
liveness property. It needs no more than `IInv`: every step of a worker that has the
deletion before it goes on, fails and so requeues the key, or takes the finalizer off.

**`LeaderElectionProofs`.** `EInv` is `ETypeOK`, `LeaderIsSafe`, `ReleasesItsOwn` (an
elector about to release the lease, whose last read of it is current, holds it) and
`Fresh` (a process that may be elected has not called `OnStartedLeading` in this life,
and one that is down has no elector). The heart is the comparison of two clocks: whoever has
observed the leader's last renewal has counted at most the periods the leader has,
and the leader gives up at `Patience`, long before `LeaseDuration`. The two constants
enter only through `Patience < LeaseDuration`.

**`FailoverProofs`.** Several processes serve one key here, so `FInv` is not an
invariant. `Protecting` is `FinalizerProtects` and, of the process elected last only,
what `Guarded` and `Unlisted` say; it is inductive as long as no other process changes
the cluster, which is what `intruded` records. A newly elected process has no
reconcile under way, so nothing is asked of it yet.

**`ProcessProofs`.** For the factory the invariant adds to the types: `Marked` (an
informer that was run is marked as started), `Flagged` (a call of `Shutdown` that waits
or has returned has left its flag) and `ShutdownIsFinal` itself. For the start of the
process: `Stages` (nothing is parsed or validated later than it is used), `Pprof`, and
`EndedByServers` (a process whose goroutines run dies of the paths and ports of its
servers only).

**`K8SNameProofs`.** The code loops over strings of any length, so these proofs are
inductions, for which the library's theorem cannot be instantiated; the lemma
`Induction` says the same of a set of numbers instead of a predicate, and `Recursion`
that the recursive functions of `K8SName` satisfy their equations. For names: `Join` of
parts bounded by what they are cut to, the arithmetic of `Share` and `ValidLength` (what
rounding leaves is never negative, and enough for a hash), and what begins and ends a
joined text. A hash is read back from a name as the digits after its last dash
(`SplitAtLast`), whatever dashes and digits the names have; so of two equal names either
both are hashed, with one hash, or one is not and has the other's hash for its end. Of
`Crc32` nothing but the number of digits is used (`HashAssumption`), so `ChangesShow` is
about equal hashes, and says nothing of how seldom they are. For maps: an order by key exists (by insertion), only one sequence of
pairs with different keys is in it, so that the order of iteration is forgotten; and
the text determines the pairs, read from its end, if no key or value has a separator.
Without `NoSeparators` it does not (`MCNamesSeparators.cfg`). Equal texts have equal
hashes; different ones may collide in crc32.

Model-checked only: everything under fairness (`Settles`, `QueuedDeletionCompletes`,
`SomeoneServesUntilAllReturned`, `WorkStops`, `WaitsEnd`, `StandbyAnswers`), which is
beyond the prover. Every other property of a passing run is the statement of a theorem.

## 5. Not modelled

* The generated clientset, its fakes, the listers and the deep copies pass calls
  and fields on without a decision of their own. What the controller needs of them is
  an external definition of `Reconciler` and `Controller`.
* The random strings have no caller. The contents of metrics, logs and profiles are
  output only. The chart is deployment data: what it lets users do (replicas, an
  editable nodeSelector, `$POD_NAME` as identity) enters as constants.
* Edits of the DaemonSet by others: nothing in the repository provides for them (an
  annotation removed by hand makes `annotations.go:78` write to a nil map).
* What the pods of a DaemonSet do with its init containers: that is the kubelet's.
* One literal `instance_id` for two replicas: they would hold the lease together, and the
  code cannot tell.

Modelled without a property: `OnStartedLeading` may enable the readiness probe after
`OnStoppedLeading` has disabled it (`main.go:149`; `Enable` after `Stopped`), for
nothing in the repository says what the readiness of a process that does not lead
means; and two objects whose images collide in crc32 are retried for ever, of which
nothing in the repository speaks either.

## 6. Plan

Done: all modules of section 2. In order of use, what is left:

1. `Controller` under `Leadership`: `Restart` as an election instead of a crash, with
   the queues of the deposed process still being emptied.
2. `Reconciler` with the DaemonSets edited by others, should the repository come to
   provide for it.

Checking: `tlc -workers 2 -config <cfg> <module>` for each run and each further
configuration, `tlapm <module>` for `ImageIndexProofs`, `ReconcilerProofs`,
`LoneWorkerProofs`, `ControllerProofs`, `LeaderElectionProofs`, `FailoverProofs`,
`ProcessProofs` and `K8SNameProofs`. Every run ends within four minutes.
