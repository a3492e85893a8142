# Kama in TLA+

Kama is a Kubernetes operator that imports GGUF models into persistent caches
and serves them with llama.cpp. This directory holds TLA+ specifications of its
parts, TLC models of them, and TLAPS proofs. `PROJECT.json` lists the runs, the
source lines each definition stands for, the hazards and the theorems.

## The system

| Part | Code | State | Model |
|---|---|---|---|
| Importer Jobs (hub, copy, cleanup) | `internal/artifact/importer.go`, `storage_linux.go`, `hub.go` | files on the cache volume, flock | `Publication` |
| Transfer of a PVC source | `executeCopy`, `regularCopyPlan` | staged files, open sources | `PVCCopy` |
| Transfer of a Hub file | `hub.go` | staged file, `.resume.json` | `HubDownload` |
| Free-space check | `RequirePublicationSpace` and its callers | the volume | `SpacePreflight` |
| ModelArtifact controller | `internal/controller/modelartifact_controller.go` | status, Lease, Jobs, finalizer | `ArtifactController` |
| ModelCache controller | `internal/controller/modelcache_controller.go` | claim, probe Job, deletion guard | `CacheController` |
| ModelDeployment controller | `internal/controller/modeldeployment_controller.go` | Deployment, gate, runtime config | `DeploymentController` |
| Node-affinity comparison | `internal/controller/common.go` | none | `VolumePlacement` |
| Serving contract | webhook, `desiredRuntime`, `internal/runtime/config.go` | stored spec, ConfigMap | `RuntimeContract` |
| Runtime supervisor, PID 1 of a serving Pod | `internal/runtime/supervisor.go` | phase, child process, drain | `Supervisor` |
| GGUF, manifest, path, other webhooks | `internal/artifact/*`, `api/v1alpha1` | none between calls | abstracted, see below |

How they interact: the ModelCache controller provides a claim; the ModelArtifact
controller starts importer Jobs for an operation (artifact UID and a hash of
what is imported) and records the digest a Job reports; Jobs share one volume,
also Jobs of different artifacts with equal content; the ModelDeployment
controller mounts a published artifact into a Pod whose supervisor runs
llama-server, reports readiness and drains on termination; deleting an artifact
waits for the Pods that serve from it and runs a cleanup Job over the operation
files that carry its UID; deleting a cache waits for every artifact and cache
that uses its claim.

## Modules

### `Publication` and `ArtifactStore`

A *worker* is one importer process, with a program counter for the steps of
`executeHub` and `executeCopy`. Per operation there are the files under
`.kama/`: `pin` (revisions), `staging` with `sealed` (its `manifest.json`),
`intent`, `marker` (operations), and the flock. Per digest there are the
directory under `blobs/sha256` (`blob`), `READY`, and `unsynced`, the operation
whose rename into it is not durable yet. A digest stands for a manifest and all
the bytes it describes: hashing is assumed to be injective.

A step ends at each durable write. `writeAtomic` (write, fsync, rename, fsync of
the parent) is one step. The rename that publishes is not durable until
`finalizePublication` has synced `blobs/sha256`; until then `NodeCrash` may keep
it or undo it, whole. Besides the importers there are:

- `Fails`: a process returns an error, is killed or crashes, at any point;
- `NodeCrash`: every process dies and unsynced renames may be undone;
- `SourceChanges`: the PVC's files or the Hub revision change at any time;
- `StartCleanup` and the `Cleanup...` actions: `RemoveOperationState` for a
  deleted artifact, entry by entry in the code's order, with failures.

`ArtifactStore` is what the cache promises: digests are published whole and stay
published, an operation reports published content only, and always the same. The
refinement maps `published` to the digests that have `READY`.

### `Supervisor`

One program counter per goroutine: `run` (Run and startChild), `waiter`
(waitForChild), `monitor` (monitorChild and updateReadiness), `drain`. A step is
what a goroutine does between two points where another one can take the mutex or
close a channel, so the probes of `updateReadiness` and the two HTTP reads of
`activeRequests` are steps of their own. The child process, its requests (slots
and the deferred queue), the endpoint that routes to the Pod, signals and the
listener are the environment. Two constants are switches of the environment:

- `EarlyDrain`: may `POST /drain` arrive before `startChild` has returned?
- `PropagationSuffices`: has the endpoint gone when the delay has elapsed? The
  code waits a fixed time for it and cannot know.

### `PVCCopy`, `HubDownload` and `Disk`

What `Publication` takes as one step, block by block. `Disk` says what a crash of
the node leaves of a file: what was synced and not written since, then any
mixture of old blocks, new blocks and garbage, of any length.

`PVCCopy` has one action per step of `prepareRegularCopy`, `validateForTransfer`
and `copyPrepared`, over all files of the source in order. The source may be
written in place or replaced between any two blocks; every such change moves the
stamp (inode, mtime and ctime) that the importer compares. `history` is an
auxiliary variable: every state that the whole source has been in.

`HubDownload` follows one file: HEAD, validation of the recorded checkpoint, GET
with `Range` and `If-Range`, the block loop, and checkpoints (sync the bytes, then
write the record). The server replaces the file at will and, as far as its
constants allow, omits ETags and lengths, ignores ranges and drops connections.

### `SpacePreflight`

The loop that adds up what is missing, in words that wrap around, the reserve, the
comparison with the free space, and then the import that consumes it.

### `ArtifactController`, `CacheController`, `DeploymentController`

One module per reconciler. There is one worker; its pass is a sequence of API
calls, each a step of its own, and a manager restart may end the pass after any of
them. Between two calls act the user, the Job and Deployment controllers, Pods,
storage and the other controllers. Objects that the code reads through an informer
have a second copy that may lag (`cached`, `view`, `Lagging`); objects that it
reads with the uncached reader have none. Writes with a resource version or a
precondition fail when the object has moved.

- `ArtifactController`: location checkpoint, obsolete operations, Lease, importer
  ConfigMap and Job, results, retries, and deletion up to the finalizer. `FinalizedClean`
  and `CleanupIsExclusive` are what `Publication` relies on when it says that no
  importer of a deleted artifact runs beside cleanup.
- `CacheController`: one claim name, the cache that manages it, caches that adopt it
  and artifacts that use it; probe Jobs and preserved readiness; the deletion guard
  (annotation, quiescence, uncached reference checks, deletion by UID).
- `DeploymentController`: Service, runtime ConfigMap, the gated Deployment and its
  Pods, lifting the gate, pauses, preserved loads, observation and deletion. It is
  composed with the deletion checks of the ModelArtifact controller (`CheckReferences`,
  `CheckPods`, `RemoveFiles`), since each side's check is only right because of the
  other's order. `Invalid` specs fail `ValidateModelDeployment`; `Rejected` ones fail
  the check of the configuration, which by `RuntimeContract` no field of a valid spec
  can cause.

### `RuntimeContract`

A specification on its way from the user through the webhook, or past it, to the
controller's configuration, the JSON document and the arguments of llama-server. An
absent pointer becomes zero and zero becomes a default; `omitempty` drops zeros.
Products wrap around at `MaxInt64`.

### `VolumePlacement`

`volumeNodeAffinitiesCompatible` with its constraint per key, and beside it what a
required node affinity means to the scheduler, over all nodes of a small universe of
labels. A number has a usual spelling and one with a leading zero, since the code
compares excluded values as strings and bounds as numbers. `PlacementFollowsScheduler`
compares the two on the same nodes, and names the three cases in which they differ:

- a compatible pair may have no node if a bound lies beyond every label (`Gt` at the
  largest integer, `Lt` at zero or below: label values have no sign), because the code
  looks for a number only where there are both bounds (`BeyondEveryLabel`);
- a refused pair may have a node that lacks a label, if one requirement on it is `NotIn`
  and another `DoesNotExist` (`AbsenceContested`);
- a refused pair may have a node whose label spells the one number between two bounds
  unusually, if `NotIn` excludes the usual spelling (`LastNumberExcluded`).

Without any one of them TLC finds a counterexample.

## What the runs check

| Run | Instance | Shows |
|---|---|---|
| `SupervisorServing` | 2 slots, 3 requests, drain after start | `ReadyIsVerified`, `DrainRejectsReadiness`, `RunLeavesNoChild`, `TerminalIsFinal`, `NoRequestCutShort`, `ShutdownCompletes` |
| `SupervisorAccelerator` | 2 devices, no requests, fairness of the monitor only | `ExtraDeviceRevokesReadiness` |
| `SupervisorEarlyDrainReady` | drain at any time | a violation, see below |
| `Publication` | 2 Jobs of a Hub operation, 1 of a copy, 2 digests, a failure or crash | `PublishedIsComplete`, `MarkerIsTruthful`, `IntentIsRecoverable`, `HubReportsPinned`, `IntentIsStable`, `ImplementsStore`, `EveryOperationReports` |
| `PVCCopy` | 2 files of up to 3 blocks, a checkpoint every 2, 2 changes, 2 faults | `CopyIsSound`, `EventuallyCopied` |
| `HubDownload` | 3 versions of up to 3 blocks, 2 faults, two kinds of servers | `DownloadIsSound`, `CheckpointIsGenuine`, `EventuallyDownloaded` |
| `SpacePreflight` | words of 16 values, 4 files | `CheckIsExact` |
| `Artifact` | 4 scenarios | `CheckpointBeforeImporter`, `CleanupIsExclusive`, `LeaseExclusion`, `FinalizedClean`, `DigestStable`, `Converges` |
| `Cache` | 6 scenarios | `DeletedClaimUnused`, `RetentionHonoured`, `UsedClaimsAreProbed`, `Settles` |
| `Deployment` | 9 scenarios | `ScheduledPodsHaveMounts`, `OneGeneration`, `FinalizedDrained`, `LoadedWasLoaded`, `OutageKeepsLoaded`, `EventuallyServing`, `DeletionCompletes` |
| `RuntimeContract` | 2,362 specifications, limits scaled down | `ValidIsServable`, `ServesWhatWasAsked` |
| `VolumePlacement` | 188,634 pairs of affinities | `PlacementFollowsScheduler` |

Every property is stated in words where it is defined.

Scenarios. All disturbances of a controller at once exceed what TLC can enumerate. A
controller module therefore has a constant `Scenarios`, a set of records that switch
disturbances on and off, and a variable `scenario` that is chosen in `Init` and never
changes. The scenarios of a run are in its MC module:

- `MCArtifact`: an import with every failure, an expiring Lease and a lagging informer;
  a copy whose cache and claim are replaced while a Pod serves it; two artifacts that
  compete for one Lease; and a pinned import that must converge.
- `MCCache`: probes that fail and claims that are lost, altered and replaced while an
  artifact uses them; deletion with retention edits and lagging informers; deletion
  while another cache adopts the claim, for an artifact, or with a late copy of the claim and
  of its own Jobs; and a cache that must settle. Two caches with the artifact, late claims and
  late Jobs of both together are 4.4 million states: too many for a run, they were checked
  once for the invariants.
- `MCDeployment`: a lagging artifact informer while models are switched and deleted; lagging
  workloads and Pods while the workload is replaced; passes that work from a stale
  deployment, through one edit, deletion or outage with a lagging workload as well, and
  through two outages or one and a deletion; outages, occupied names and bad loads; and four
  scenarios in which the deployment must come to serve, or to an end. The proofs cover the
  invariants for every combination of these; the bounds matter for the other properties.

The scenarios with `progress` are the ones that liveness properties speak about
(`scenario.progress => ...`) and that fairness is assumed in.

Bounds. Three requests and two slots give a busy slot, a full child and a deferred
request. Two workers of one operation and a third on another one are what it takes for
both races of the code: for the lock and for the destination of equal content. One
failure or crash at any point shows every recovery; a crash in a recovery is covered by the
proofs, which admit any number. Two digests are equal or different content, and let a
source change and change back. Two files are the least with a file that is finished
while another is not, three blocks the least with a checkpoint before the end, and three
versions let the file change before and after a checkpoint. Two disruptions put a
failure into the handling of another one. A claim or cache that is replaced once shows
every confusion of old and new by name. In `RuntimeContract` and `VolumePlacement` every
limit has values on it and on both sides of it.

### Disagreements with the documentation

`SupervisorEarlyDrainReady` ends in a violation: a drain that arrives while `Run` still
hashes the artifact's files, when diagnostics are already served. ADR 0005 says that
termination "first rejects readiness". `startChild` sets `Loading` over `Draining`, so the
Pod can become ready during or after the drain.

Five smaller ones were met while modelling and have no run of their own:

- With such a drain, `RunLeavesNoChild` fails too: a drain that found no child is not
  repeated for the child started after it. In a Pod the child ends with the container.
- "Recovery reconciles readiness and artifact integrity" after an outage of the cache. A
  validated artifact without a pinned digest that lost Ready never regains it: the
  importer's specification now pins the validated digest, so its ConfigMap differs, and it
  is not replaced while the retained completed Job exists. `Converges` is therefore asked
  of artifacts whose digest is pinned.
- "Existing loaded processes are not killed solely by a transient control-plane check." A
  process whose load is not yet in the status is, and so is one whose recorded load the
  running pass has not read: the pass takes a stale copy of the deployment, another outage
  shows, and the workload is deleted before the conflict on the status is noticed.
  `OutageKeepsLoaded` speaks of loads that are recorded and that the pass has read.
- The comparison of affinities "mirrors the Kubernetes OR-of-terms, AND-of-requirements
  semantics", but takes `NotIn` to require the label. A volume with `NotIn` and one with
  `DoesNotExist` on the same key are refused although a node without the label admits
  both. `PlacementFollowsScheduler` names this and two smaller exceptions.
- `reconcileDelete` calls itself "one fail-closed lifecycle", but a claim may be deleted
  while a probe Pod runs on it. An adopting cache lists its Jobs from the informer when it is
  deleted; if its last Job is not shown yet, it is finalized with the Pod running. The cache
  that manages the claim then finds no other cache and no artifact, and
  `managedClaimDeletionBlocked` lists no Pods. Kubernetes keeps the claim until the Pod
  ends, so the probe is not cut off. `DeletedClaimUnused` excepts the Pods of other caches that
  are finalized already; for every other Pod, of the managing cache included, it holds.

## Fairness

`Supervisor`: weak fairness of each goroutine (the Go scheduler runs them), of
the drain deadline (a timer) and of the death of a child that was sent SIGKILL;
with `PropagationSuffices`, also of the endpoint's removal.
Nothing is assumed of requests, probes or a child that was only
sent SIGTERM. `ExtraDeviceRevokesReadiness` needs the monitor's fairness only
(`MonitorSpec`). `Publication`, `PVCCopy` and `HubDownload`: weak fairness of the
importers, which stands for a Job controller that restarts failed Pods; failures and
source changes are bounded, so the properties read "once failures stop".

The controllers: weak fairness of the steps of a pass, and strong fairness of taking
an object from the work queue where the one worker serves several (the queue is first
in, first out). Informers catch up, Jobs end in success or failure, Pods that were
told to stop do so, garbage is collected and delays elapse. Outages and claims of
foreign objects on generated names end: without that, waiting is what the code should
do. Those who use a deleted artifact let go of it in the end, since its deletion waits
for them by design. Nothing else is assumed of users, and disruptions are bounded.

## What is proved

TLAPS checks every proof. The theorems hold for every value of the constants that
the named assumptions admit.

`PublicationProofs` (from `PublicationAssumption`: every worker runs one
operation, every operation belongs to one artifact, and the words that stand for
an empty entry are no digest, operation or worker) proves `TypeOK`,
`PublishedIsComplete`, `MarkerIsTruthful`, `IntentIsRecoverable`,
`HubReportsPinned`, `IntentIsStable`, and that `Publication` implements
`ArtifactStore`. Hardly any of these is inductive. The inductive invariant `Inv` adds:

- `LockInv`: a worker between locking and unlocking holds its operation's lock,
  and its artifact is not being deleted. Every other conjunct uses it to show that
  no other worker disturbs what this one has read.
- `FetchInv`, `PublishInv`: what a worker may rely on at each control point. Before
  the rename, staging holds exactly its digest and is sealed; after it, the
  destination is valid; before `READY`, the rename is synced; until the intent is
  removed, it names the digest that was published.
- `UnsyncedInv`: a rename that a node crash may undo has no `READY` on it, and the
  operation that made it still has its intent. This is where the order rename,
  sync, `READY`, marker matters.
- `IntentInv`: the content an intent names is in staging, or in a destination that
  cannot be undone or whose undoing gives it back to this very operation. Without
  the second half, the crash of a node could strand an operation that relied on
  another one's rename.
- `HubInv`, `ReportedInv`: pin, intent, marker and report of an operation agree over
  all the Jobs that ever ran for it.

The refinement proof maps every step to a step of the store or to a stutter; only
writing `READY` and reporting are visible.

`ArtifactProofs` (from `ArtifactAssumption`: a scenario has a mode, at least one cache and
one claim, and any number of artifacts, failures and disruptions) proves
`CheckpointBeforeImporter`, `CleanupIsExclusive`, `LeaseExclusion`, `FinalizedClean` and
`DigestStable`. `ArtifactSteps` has the inductive invariant and the steps of an import
pass, `ArtifactProofs` the steps of a deletion, the environment and the theorems. A pass
reads the artifact once, perhaps stale, and then makes one API call after another, so the
invariant has two halves. `World` is about the objects in the cluster:

- `Records`: an object only moves forward. Of a stale copy the phase, the finalizer and the
  checkpoint still bind (`Older`), which is all that a pass needs of it.
- `Checkpointed`: an object without a checkpoint owns no Job, ConfigMap or Lease. This makes
  `CheckpointBeforeImporter` survive restarts, and an object that is gone clean.
- `PodsHaveJobs`, `OneJob`: a Pod runs for the Job that is there, and one operation of an
  artifact has a Job at a time, although some paths delete Jobs in the background: they
  delete finished ones only.
- `CleanupAlone`: a cleanup Pod runs only when even the cache shows the deletion, no Job is
  left unfinished and nothing serves. No later pass can start an importer, since it would
  have to read a live object.
- `LeasesHeld`: a running importer's Lease is held by its artifact, and its fingerprint is
  the one that a pass computes now.
- `FilesClean`, `CleanupsEnd`: a successful cleanup, or a finalized object, means no
  transient file on a claim that exists, and no cleanup object.

`PassOK` is about the worker: what it read is an earlier version (`PassKnows`), the
condition established at each step of the pass is still true when the next step is taken
(`Stages`), and the status it is about to write takes back neither checkpoint nor digest
(`WillWrite`). `DigestStable` follows from `WillWrite` and the conflict check. There are two
conditions on informers, and both are real. `FinalizedClean` is about fresh reads. And a
Copy that is read stale is excepted from `LeaseExclusion`: its fingerprint changes when its
digest is recorded. If the completed Job is deleted while a pass with the old copy is under
way, that pass starts a second importer under the old fingerprint; when the storage then
fails and recovers, a later pass takes that Lease for an obsolete one and deletes it, and
another artifact may import beside the running importer (a trace of 60 states).
`Publication` does not rely on the Lease for its safety.

`CacheProofs` (from `CacheAssumption`: the owner of the claim is a cache, artifacts use the
claim through a cache or directly; any number of caches, artifacts, claims and faults) proves
`UsedClaimsAreProbed` and `RetentionHonoured`. The invariant `CacheInv` again has a half about
the cluster and one about the worker:

- `Honest`: a record that says Ready names a claim that was probed. It is asked of the object,
  of the informer's copy, of what a pass has read and of the status it is about to write, since
  readiness is preserved from one status to the next while the claim may be replaced in between.
- `JobsNamed`: the probe Job named after a claim mounts that claim and its success is one of
  it, in the API server and in the informer. This carries the result of an old Job past the
  replacement of the claim under the same name.
- `Before`: a copy is an earlier state of the object. Deletion and the policy it found are
  final, so the policy in a stale copy still binds once that copy shows the deletion.
- `Retained`: a live owner without the finalizer has no claim yet, the controller has deleted
  a claim only for an owner in deletion under Delete, and an owner that went under Retain left
  no guard behind. `Stage` says what each step of a deletion pass relies on for that.

`DeploymentProofs` (from `DeploymentAssumption`: each spec refers to an artifact; any specs,
artifacts, lag of each informer, faults and disruptions) proves `ScheduledPodsHaveMounts`,
`OneGeneration`, `FinalizedDrained` and `LoadedWasLoaded`. `DeploymentInv` is about Pods whose
gate was lifted, because only those can be scheduled:

- `Gates`: for each such Pod the deployment has its finalizer, the informers show the Pod and
  its workload, the files of its artifact stay (`Kept`) and its ConfigMap is there until it
  leaves. That the informers show it is what makes deletion wait for it: `DropWorkload` asks
  the cache, and a workload the cache does not show yet has gated Pods only.
- `Kept`: the artifact exists and its own deletion has not passed the check for Pods. The two
  uncached reads before a gate is lifted and the two checks of the artifact's deletion are in
  opposite orders, so one side always sees the other; the Pod itself is there all the time.
- `Generation`: all Pods, gated and terminating ones included, are of one fingerprint, that of
  the ReplicaSet if there is one, and none outlives the workload before the deployment is gone.
- `Listed`, `Stage`: the gated Pods that a pass has listed may be gone when the gate is lifted,
  but a Pod of that name still has that fingerprint (`SameFingerprint`), and no step from the
  listing to the lifting loses the ConfigMap or the files. After `DropWorkload` every
  remaining Pod is gated, and stays so up to the finalizer.
- `Truthful`: a status, written, cached, read or about to be written, calls only that loaded
  which a Pod has loaded; a supervisor's state counts only for the fingerprint of the Pod that
  was asked.

A pass is a sequence of step names; `PlanSteps` goes through the sequences there are.

`ServingProofs` has the proofs of the two parts of serving. Of `Supervisor` it
proves `TypeOK`, `ReadyIsVerified` and `TerminalIsFinal` whenever drains arrive.
It rests on `ConfigAssumption`: at least one slot and finitely many devices, with
the bound on the number of devices in a subset, which finiteness implies. It proves `DrainRejectsReadiness` and `RunLeavesNoChild` under
`~EarlyDrain`, and `NoRequestCutShort` under `~EarlyDrain` and
`PropagationSuffices`. `Inv` relates the phase and the readiness flag to the
goroutines that write them (`StartInv`, `PhaseInv`), says what a probe has
established when its result is applied (`ProbeInv`), and that requests are
deferred only when all slots are busy (`QueueInv`). `DrainInv` adds that a drain
implies the start is over. `RequestInv` adds that no request arrives once drain
polls, so zero busy slots followed by zero deferred requests means an idle child,
although the two are read at different times.

`TransferProofs` has those of `PVCCopy` and `SpacePreflight`. Of `PVCCopy` it (from
`CopyAssumption`: at least one file, a positive checkpoint interval) proves `TypeOK` and `CopyIsSound` (`CopyIsSnapshot` and `CopyIsDurable`) for any number of
files, changes and faults. The argument is not local to a file: files are opened one
after another and checked one after another, and the source may change in between.
`SnapshotOrOutdated` says that, once all are open, the recorded contents are a past
state of the source, or some file that is still to be copied already carries another
stamp than the recorded one. Stamps never come back (`StampsOld`), so that file fails
its last check. `UnchangedIsCurrent` and `PrefixAgrees` carry the content of a file
whose stamp has not moved from the source to the staged blocks, and `FinishedIsCopied`
keeps what is done.

`HubDownloadProofs` (from `HubAssumption`: versions are non-empty sequences of blocks,
and a kind of server is a record of what it may do) proves `TypeOK`, `DownloadIsSound`
(`DownloadIsOneVersion` and `DownloadIsDurable`) and `CheckpointIsGenuine` for all
contents, any number of versions and faults and every kind of server. The difficulty is
that an answer without an ETag is accepted, so a record may name one version and hold
bytes of a later one. Versions only move forward, and `DownloadInv` rests on that:

- `RecordsAreHonest`: a record whose ETag is still the current one was written while
  that version was served, so its bytes are the beginning of that version. Of a record
  with an older ETag nothing is claimed, and it is never resumed: HEAD names the ETag it
  is compared with.
- `RemoteIsHonest`, `ReadyToGet`: what HEAD established, and what is left of it when GET
  is sent, although the server may have changed in between. `If-Range` decides the rest.
- `TransferIsHonest`: the staged blocks and the rest of the body are the beginning of one
  version (`Delivers`), and all of it unless the size compared at the end is that
  version's, so a body that was cut short is found out.
- `DiskAgrees`, `WholeRecords`: what was synced and not written since is on disk, and a
  record of the whole file stands only for synced bytes. The second is what makes the
  early return of `Download` durable, which syncs nothing itself.
- `GenuineRecords`: with a cooperative server every record of the current version is
  backed by synced bytes, whichever of two records a crash leaves.

Of `SpacePreflight`, `TransferProofs` (from `SpaceAssumption`: the reserve for the largest admissible number
of files is a word, as it is with the constants of the code) proves `CheckIsExact`
(`AcceptedFits` and `RefusedLacksSpace`) for every word size. The invariant says that the sum is exact while
it is computed, and that an accepted import still finds what it has yet to write.

Of `RuntimeContract`, `ServingProofs` (from `ContractAssumption`: positive limits, a default drain
within its limits) proves `ValidIsServable` and `ServesWhatWasAsked` for all limits and
all specifications. The lemmas are about arithmetic (a quotient bounds the product, the
product does not wrap, rounding up keeps limits that are whole seconds), about defaults
(`ConfigFields`: absent, zero and defaulted give the same configuration;
`DefaultIsIdempotent`), and about the JSON document (`RoundTrip`).

Left to TLC:

- all liveness properties, `ExtraDeviceRevokesReadiness` among them: they need fairness,
  which is out of the prover's reach; and the violation, which is a trace;
- `DeletedClaimUnused`. Its argument is about waits: every cache and artifact that could use
  the claim has seen the guard, or is seen by the last checks, and an invariant would have to
  relate every reader's copy of the claim to every stage of the deletion pass;
- `OutageKeepsLoaded`. Beyond `DeploymentInv` it needs that the spec of a loaded workload is
  still the valid and accepted one that it was made from, through all copies of the deployment
  and of the artifact;
- `PlacementFollowsScheduler`: the code folds over sets of requirements and is compared with a search
  over all nodes, which takes an induction over data.

## Assumptions and what is not modelled

- A rename is atomic and `writeAtomic` (temporary file, sync, rename, sync of the
  directory) is one step. A rename whose directory is not synced may be undone by a
  node crash, and then its content is back in staging.
- `flock` excludes, and dies with its holder. Cleanup removes lock files too; this is
  left out because no Job of a deleted artifact runs by then.
- In `Publication` a transfer is one step that leaves the source's content or nothing
  usable. `PVCCopy` and `HubDownload` show that for the transfers of the code, each for
  itself; there is no refinement between the modules.
- `PVCCopy` changes source files one by one. A whole directory exchanged between two
  opens moves no stamp of an open file; only the consistency check over GGUF shards
  stands behind that. `HubDownload` never returns to an earlier version.
- `SpacePreflight` has the volume for itself. Nothing reserves the space that was
  checked, so a second importer may use it; the import then fails late and is retried.
- Content is its digest: a partial directory, a whole one with the wrong digest and a
  missing one are told apart, the files in it are not.
- An undone rename may bring staging back after `RemoveOperationState` removed it;
  the model has this, and no property forbids it. `RecoverFinalize` leaves staging
  until the artifact is cleaned up, as in the code.
- `Supervisor` models supervised mode. The direct and probe commands start a process or
  make one request. A log that names one visible device also satisfies the check that
  an accelerator was detected.
- Each controller has one worker and one leader at a time. Two managers that both
  believe they lead are not modelled: leader election is the library's. A restart of the
  manager between any two API calls is.
- The controllers keep one incarnation of each object except where replacement is the
  question (claims, caches, artifacts of one name). Events, messages and metrics are left
  out; a status is its conditions, reasons and the fields that are read again.
- `RuntimeContract` leaves out the identity of the deployment and the artifact's file
  list, which are copied from validated status, and takes resource lists and the model's
  name as one Boolean. It has one constant for a limit or default that the code writes in
  two places: a missing check or another rounding shows, two different numbers do not.
- `VolumePlacement` knows two spellings of a number; requirements exclude usual ones only,
  since otherwise every number could be excluded in all its spellings. Operators that
  Kubernetes does not have are not compared.

Not modelled, and why: the GGUF parser, manifests and digests (byte formats; no state
outlives a call, and induction over their data is out of the prover's reach), the direct
import and the filesystem probe (reading and a straight sequence of file operations; their
results are inputs of the controller modules), path confinement (system calls), metrics,
the manager's wiring, and the test servers and clients. Webhooks of ModelArtifact and
ModelCache appear as what users can do to the objects in the controller modules.
`PROJECT.json` lists every part with its status, and the hazards no property covers with
the reason.
