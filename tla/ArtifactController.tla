------------------------- MODULE ArtifactController -------------------------
(***************************************************************************)
(* The ModelArtifact controller                                            *)
(* (internal/controller/modelartifact_controller.go): it checkpoints the    *)
(* storage identity, runs one import Job per operation under a Lease,       *)
(* accepts its result into status, and on deletion stops the importers and  *)
(* runs a detached cleanup Job before it releases the finalizer.            *)
(*                                                                         *)
(* One worker reconciles one artifact at a time (SetupWithManager sets no   *)
(* MaxConcurrentReconciles).  pass is that worker: a step is one call to    *)
(* the API server, and everything else may move between two steps.  The     *)
(* artifact itself is read from the informer cache, which may lag; every    *)
(* other read bypasses it (artifactLifecycleReader).                        *)
(***************************************************************************)
EXTENDS Integers, FiniteSets

CONSTANTS
  None,      \* no value
  Digests,   \* contents the source may have
  Scenarios  \* the circumstances considered, see below

(* artifacts: have the same source, entrypoint and cacheRef; pinned: digest and *)
(* revision the spec pins, or None; lag: may a pass start from a stale cached   *)
(* artifact?  expiry: may the manager be away for longer than leaseDuration?    *)
(* serve: do ModelDeployments refer to the artifacts?  failures: results a      *)
(* failing importer may leave; the bounds: ModelCaches and claims of that name  *)
(* over time, failures, outages and restarts; progress: is progress asked?      *)
ASSUME ArtifactAssumption ==
  /\ None \notin Digests
  /\ \A s \in Scenarios :
       /\ None \notin s.artifacts
       /\ s.mode \in {"Hub", "Copy", "Direct"} /\ s.pinned \in Digests \cup {None}
       /\ {s.credential, s.lag, s.expiry, s.serve, s.progress} \subseteq BOOLEAN
       /\ {s.caches, s.claims} \subseteq Nat \ {0} /\ s.disruptions \in Nat

VARIABLES
  scenario,        \* the circumstances, fixed
  api, cached,     \* each ModelArtifact in the API server and in the informer cache
  pass, queued,    \* the worker's pass; the work queue
  storage,         \* the ModelCache, its claim, the source claim
  jobs, pods,      \* import Jobs by operation; their running Pods
  configs,         \* importer ConfigMaps: the digest they pin, or "none"
  leases,          \* source/cache Leases by fingerprint
  cleanups,        \* detached cleanup Job and ConfigMap
  refs, mounts,    \* a ModelDeployment names it; a serving Pod mounts it
  dirty,           \* claims on which its importers left transient state
  budget           \* disruptions that may still happen

clusterVars == <<jobs, pods, configs, leases, cleanups>>
worldVars   == <<storage, refs, mounts, dirty, budget, scenario>>
vars == <<api, cached, pass, queued, clusterVars, worldVars>>

Artifacts      == scenario.artifacts
Mode           == scenario.mode
Credential     == scenario.credential  \* does the Hub source name a token Secret?
SpecDigest     == scenario.pinned
MaxCaches      == scenario.caches
MaxClaims      == scenario.claims
InformerLag    == scenario.lag
LeaseExpiry    == scenario.expiry
MayServe       == scenario.serve
ImportFailures == scenario.failures
Disruptions    == scenario.disruptions

(***************************************************************************)
(* Objects.                                                                *)
(***************************************************************************)
Ops          == [cache : 0..MaxCaches, claim : 0..MaxClaims]
Fingerprints == [op : Ops, source : BOOLEAN]

NoFailure == [type |-> "none", reason |-> "none", fresh |-> FALSE]
NoJob     == [uid |-> 0, status |-> "none", result |-> "none", digest |-> None,
              source |-> FALSE, deleting |-> FALSE]
NoLease   == [holder |-> None, live |-> FALSE]
NoCleanup == [status |-> "none", good |-> FALSE, deleting |-> FALSE, pod |-> FALSE,
              config |-> FALSE]

Created == [phase |-> "live", fin |-> FALSE, loc |-> 0, ready |-> FALSE, digest |-> None,
            failure |-> NoFailure, jobRef |-> None, cleaned |-> FALSE]
Gone    == [Created EXCEPT !.phase = "gone"]

NoOp == [cache |-> 0, claim |-> 0]
Idle == [pc |-> "idle", me |-> None, obj |-> Gone, op |-> NoOp, job |-> NoJob,
         want |-> Gone, again |-> FALSE, then |-> "idle"]

Init ==
  /\ scenario \in Scenarios
  /\ api = [a \in Artifacts |-> Created] /\ cached = api
  /\ pass = Idle /\ queued = Artifacts
  /\ storage = [cache |-> IF Mode = "Direct" THEN 0 ELSE 1, ready |-> TRUE,
                claim |-> 1, state |-> "bound", source |-> TRUE]
  /\ jobs = [a \in Artifacts |-> [o \in Ops |-> NoJob]]
  /\ pods = [a \in Artifacts |-> {}]
  /\ configs = [a \in Artifacts |-> [o \in Ops |-> "none"]]
  /\ leases = [f \in Fingerprints |-> NoLease]
  /\ cleanups = [a \in Artifacts |-> NoCleanup]
  /\ refs = [a \in Artifacts |-> FALSE] /\ mounts = refs
  /\ dirty = [a \in Artifacts |-> {}]
  /\ budget = Disruptions

(***************************************************************************)
(* The pass.                                                               *)
(***************************************************************************)
me  == pass.me
obj == pass.obj
job == jobs[me][pass.op]

At(step)   == pass.pc = step
Goto(step) == pass' = [pass EXCEPT !.pc = step] /\ UNCHANGED queued

(* End of a pass: RequeueAfter or a returned error put the artifact back. *)
Done(requeue) ==
  /\ pass' = Idle
  /\ queued' = IF requeue THEN queued \cup {me} ELSE queued

(* The pass goes on to write status rec, then to step. *)
WriteThen(rec, requeue, step) ==
  /\ pass' = [pass EXCEPT !.pc = "status", !.want = rec, !.again = requeue, !.then = step]
  /\ UNCHANGED queued

Report(rec, requeue) == WriteThen(rec, requeue, "idle")

(* A generated object changed: its owner is queued (Owns). *)
Wake(a) == queued' = queued \cup {a}

(***************************************************************************)
(* Status values.  A condition keeps its transition time while it stays     *)
(* True, so a new reason of the same type inherits the age of the old one.  *)
(***************************************************************************)
artifactFailure(rec, type, reason) ==
  [rec EXCEPT !.ready = FALSE,
              !.failure = [type |-> type, reason |-> reason,
                           fresh |-> rec.failure.type # type \/ rec.failure.fresh]]

markImporting(rec, ref) ==
  [rec EXCEPT !.ready = FALSE, !.failure = NoFailure, !.jobRef = ref]

completeArtifact(rec, digest, ref) ==
  [rec EXCEPT !.ready = TRUE, !.failure = NoFailure, !.jobRef = ref, !.digest = digest]

conditionForReason(reason) ==
  CASE reason = "ChecksumMismatch"    -> [type |-> "ChecksumMismatch", retry |-> FALSE]
    [] reason = "InsufficientStorage" -> [type |-> "InsufficientStorage", retry |-> TRUE]
    [] OTHER                          -> [type |-> "SourceUnavailable", retry |-> TRUE]

alreadyReported(rec, type, reason) ==
  rec.failure.type = type /\ rec.failure.reason = reason

(* The immutable identity an importer is told to expect. *)
importerSpec(rec) == IF rec.digest # None THEN rec.digest ELSE SpecDigest

(* A validated Copy or Hub artifact recovers from the cache: its Job mounts *)
(* neither the source claim nor the token Secret.                           *)
needsSource(rec) ==
  \/ Mode = "Direct"
  \/ rec.digest = None /\ (Mode = "Copy" \/ Credential)

artifactLeaseFingerprint(rec, op) ==
  [op |-> op, source |-> Mode # "Hub" /\ needsSource(rec)]

Ref(op, j) == [op |-> op, uid |-> j.uid]

(***************************************************************************)
(* Reconcile: reading the artifact, finalizer, storage.                     *)
(***************************************************************************)
Reconcile(a) ==
  /\ At("idle") /\ a \in queued
  /\ InformerLag \/ cached[a] = api[a]
  /\ queued' = queued \ {a}
  /\ LET rec  == cached[a]
         step == CASE rec.phase = "gone"     -> "idle"
                   [] rec.phase = "deleting" -> IF rec.fin THEN "references" ELSE "idle"
                   [] rec.phase = "live"     -> IF rec.fin THEN "resolve" ELSE "addFinalizer"
     IN pass' = IF step = "idle" THEN Idle
                ELSE [Idle EXCEPT !.pc = step, !.me = a, !.obj = rec]
  /\ UNCHANGED <<api, cached, clusterVars, worldVars>>

(* Update and Status().Update carry the resource version that was read. *)
Conflict == api[me] # obj

AddFinalizer ==
  /\ At("addFinalizer")
  /\ api' = IF Conflict THEN api ELSE [api EXCEPT ![me].fin = TRUE]
  /\ Done(TRUE)
  /\ UNCHANGED <<cached, clusterVars, worldVars>>

(* What resolveArtifactStorage reads: the ModelCache and its claim, then the *)
(* source claim unless a validated Copy no longer needs it.                  *)
StorageAvailable ==
  /\ storage.state = "bound"
  /\ Mode # "Direct" => storage.ready
  /\ Mode = "Copy" /\ needsSource(obj) => storage.source

(* Mutant: the location is left to completeArtifact, not checkpointed. *)
ResolveWithoutCheckpoint ==
  /\ At("resolve") /\ StorageAvailable
  /\ pass' = [pass EXCEPT !.pc = IF obj.ready THEN "retained" ELSE "obsoleteJobs",
                          !.op = [cache |-> storage.cache, claim |-> storage.claim]]
  /\ UNCHANGED <<queued, api, cached, clusterVars, worldVars>>

resolveArtifactStorage ==
  /\ At("resolve")
  /\ LET op   == [cache |-> storage.cache, claim |-> storage.claim]
         next == IF obj.ready /\ obj.jobRef # None THEN "retained" ELSE "obsoleteJobs"
     IN IF ~StorageAvailable
        THEN Report(artifactFailure(obj, "StorageReady", "StorageUnavailable"), TRUE)
        ELSE IF obj.loc = 0
        THEN Report([obj EXCEPT !.loc = storage.claim], TRUE)
        ELSE IF obj.loc # storage.claim
        THEN Report(artifactFailure(obj, "StorageReady", "StorageIdentityChanged"), FALSE)
        ELSE pass' = [pass EXCEPT !.pc = next, !.op = op] /\ UNCHANGED queued
  /\ UNCHANGED <<api, cached, clusterVars, worldVars>>

(* Mutant: a completed import is written again after a conflict. *)
WriteStatusDespiteConflict ==
  /\ At("status")
  /\ IF Conflict /\ pass.want # obj /\ ~pass.want.ready
     THEN Done(TRUE) /\ UNCHANGED api
     ELSE /\ api' = IF pass.want = obj \/ api[me].phase # "live" THEN api
                    ELSE [api EXCEPT ![me] = pass.want]
          /\ IF pass.then = "idle" THEN Done(pass.again) ELSE Goto(pass.then)
  /\ UNCHANGED <<cached, clusterVars, worldVars>>

WriteStatus ==
  /\ At("status")
  /\ IF Conflict /\ pass.want # obj
     THEN Done(TRUE) /\ UNCHANGED api
     ELSE /\ api' = IF pass.want = obj THEN api ELSE [api EXCEPT ![me] = pass.want]
          /\ IF pass.then = "idle" THEN Done(pass.again) ELSE Goto(pass.then)
  /\ UNCHANGED <<cached, clusterVars, worldVars>>

(***************************************************************************)
(* Ready: the retained Job is the evidence; a left-over Lease is released.  *)
(***************************************************************************)
RetainedJob ==
  /\ At("retained")
  /\ LET j == jobs[me][obj.jobRef.op]
         intact == j.result = "ok" /\ j.digest = obj.digest
         step == CASE j.status = "none"     -> "obsoleteJobs"
                   [] j.status = "complete" -> IF j.uid # obj.jobRef.uid THEN "obsoleteJobs"
                                               ELSE IF intact THEN "readyLeases"
                                               ELSE "dropRetained"
                   [] j.status = "failed"   -> "dropRetained"
                   [] OTHER                 -> "idle"
     IN IF step = "idle" THEN Done(TRUE)
        ELSE pass' = [pass EXCEPT !.pc = step, !.job = j] /\ UNCHANGED queued
  /\ UNCHANGED <<api, cached, clusterVars, worldVars>>

DropRetained ==
  /\ At("dropRetained")
  /\ LET o == obj.jobRef.op
     IN jobs' = IF jobs[me][o].uid = pass.job.uid THEN [jobs EXCEPT ![me][o] = NoJob] ELSE jobs
  /\ IF pass.job.status = "failed" THEN Done(TRUE)
     ELSE Report(artifactFailure(obj, "SourceUnavailable", "ResultUnavailable"), TRUE)
  /\ UNCHANGED <<api, cached, pods, configs, leases, cleanups, worldVars>>

(* cleanupArtifactLeases: every Lease the artifact holds, whatever its name. *)
Held(a) == {f \in Fingerprints : leases[f].holder = a}
Drop(fs) == leases' = [f \in Fingerprints |-> IF f \in fs THEN NoLease ELSE leases[f]]

(* Mutant: the Ready path does not look for a left-over Lease. *)
ReadyLeasesIgnored ==
  /\ At("readyLeases")
  /\ Done(TRUE)
  /\ UNCHANGED <<api, cached, clusterVars, worldVars>>

ReadyLeases ==
  /\ At("readyLeases")
  /\ Drop(Held(me))
  /\ Done(TRUE)
  /\ UNCHANGED <<api, cached, jobs, pods, configs, cleanups, worldVars>>

(***************************************************************************)
(* Importing: obsolete operations, Lease, ConfigMap, Job.                   *)
(***************************************************************************)
(* Foreground deletion: a Job stays until its Pods have stopped. *)
DeleteForeground(a, os) ==
  jobs' = [jobs EXCEPT ![a] = [o \in Ops |->
             IF o \in os THEN [jobs[a][o] EXCEPT !.deleting = TRUE] ELSE jobs[a][o]]]

ObsoleteJobs ==
  /\ At("obsoleteJobs")
  /\ LET others == {o \in Ops \ {pass.op} : jobs[me][o].status # "none"}
     IN /\ DeleteForeground(me, others)
        /\ IF others = {} THEN Goto("obsoleteRest") ELSE Done(TRUE)
  /\ UNCHANGED <<api, cached, pods, configs, leases, cleanups, worldVars>>

ObsoleteRest ==
  /\ At("obsoleteRest")
  /\ LET others == {o \in Ops \ {pass.op} : configs[me][o] # "none"}
         stale  == Held(me) \ {artifactLeaseFingerprint(obj, pass.op)}
     IN /\ configs' = [configs EXCEPT ![me] = [o \in Ops |->
                         IF o \in others THEN "none" ELSE configs[me][o]]]
        /\ Drop(stale)
        /\ IF others = {} /\ stale = {} THEN Goto("acquire") ELSE Done(TRUE)
  /\ UNCHANGED <<api, cached, jobs, pods, cleanups, worldVars>>

(* Mutant: another holder is not respected. *)
AcquirableAlways(f) == TRUE

(* A Lease is free, ours, or expired; taking it renews it. *)
Acquirable(f) ==
  leases[f].holder \in {None, me} \/ ~leases[f].live

acquireLease(onSuccess, ref) ==
  LET f == artifactLeaseFingerprint(obj, pass.op)
  IN IF Acquirable(f)
     THEN /\ leases' = [leases EXCEPT ![f] = [holder |-> me, live |-> TRUE]]
          /\ Goto(onSuccess)
     ELSE /\ Report(markImporting(obj, ref), TRUE)
          /\ UNCHANGED leases

Acquire ==
  /\ At("acquire")
  /\ acquireLease("config", None)
  /\ UNCHANGED <<api, cached, jobs, pods, configs, cleanups, worldVars>>

(* An existing ConfigMap with other contents is removed only when no Job     *)
(* uses it; otherwise the pass returns an error.                             *)
replaceUnusedImporterConfig ==
  /\ At("config")
  /\ LET c == configs[me][pass.op]
     IN IF c \in {"none", importerSpec(obj)} THEN Goto("ensureConfig") /\ UNCHANGED configs
        ELSE /\ configs' = IF job.status = "none"
                           THEN [configs EXCEPT ![me][pass.op] = "none"] ELSE configs
             /\ Done(TRUE)
  /\ UNCHANGED <<api, cached, jobs, pods, leases, cleanups, worldVars>>

EnsureConfig ==
  /\ At("ensureConfig")
  /\ configs' = [configs EXCEPT ![me][pass.op] = importerSpec(obj)]
  /\ Goto("ensureJob")
  /\ UNCHANGED <<api, cached, jobs, pods, leases, cleanups, worldVars>>

(* A Job identity that no status, cached or in flight, still refers to. *)
NewUID(a) ==
  LET used == {r.jobRef.uid : r \in {s \in {api[a], cached[a], obj} : s.jobRef # None}}
              \cup {p.uid : p \in pods[a]} \cup {pass.job.uid}
  IN CHOOSE n \in 1..(Cardinality(used) + 1) : n \notin used

newImportJob ==
  [NoJob EXCEPT !.uid = NewUID(me), !.status = "active", !.source = needsSource(obj)]

(* Jobs of one operation can differ only in their volumes. *)
validateExistingJob(j) == j.source = needsSource(obj)

(* Create, or accept the existing Job.  Importer Pods of cached modes write  *)
(* transient state to the claim.                                             *)
EnsureJob ==
  /\ At("ensureJob")
  /\ LET new == newImportJob
     IN IF job.status # "none"
        THEN /\ IF validateExistingJob(job) THEN Goto("observe") ELSE Done(TRUE)
             /\ UNCHANGED <<jobs, pods, dirty>>
        ELSE /\ jobs' = [jobs EXCEPT ![me][pass.op] = new]
             /\ pods' = [pods EXCEPT ![me] = @ \cup {Ref(pass.op, new)}]
             /\ dirty' = [dirty EXCEPT ![me] =
                            IF Mode = "Direct" THEN @ ELSE @ \cup {pass.op.claim}]
             /\ Goto("observe")
  /\ UNCHANGED <<api, cached, configs, leases, cleanups, storage, refs, mounts, budget, scenario>>

Finished(status) == status \in {"complete", "failed"}

ObserveJob ==
  /\ At("observe")
  /\ LET step == IF job.status = "none" THEN "idle"
                 ELSE IF Finished(job.status) THEN "result" ELSE "renew"
     IN IF step = "idle" THEN Done(TRUE)
        ELSE pass' = [pass EXCEPT !.pc = step, !.job = job] /\ UNCHANGED queued
  /\ UNCHANGED <<api, cached, clusterVars, worldVars>>

Renew ==
  /\ At("renew")
  /\ acquireLease("inspect", Ref(pass.op, pass.job))
  /\ UNCHANGED <<api, cached, jobs, pods, configs, cleanups, worldVars>>

(* A Pod that cannot be scheduled, pulled or mounted is reported at once. *)
inspectPendingJob ==
  /\ At("inspect")
  /\ IF job.uid = pass.job.uid /\ job.status = "blocked"
     THEN Report(artifactFailure(obj, "SourceUnavailable", "ImporterImageUnavailable"), TRUE)
     ELSE Report(markImporting(obj, Ref(pass.op, pass.job)), TRUE)
  /\ UNCHANGED <<api, cached, clusterVars, worldVars>>

(***************************************************************************)
(* The result of a finished Job.                                            *)
(***************************************************************************)
validateSuccessfulResult(j) ==
  j.result = "ok" /\ importerSpec(obj) \in {None, j.digest}

SameContent(j) == obj.digest \in {None, j.digest}

(* The log of the Job's own Pod, or nothing when the Job is not there any more. *)
readJobResult ==
  IF job.uid = pass.job.uid THEN job ELSE [pass.job EXCEPT !.result = "lost"]

ReadResult ==
  /\ At("result")
  /\ LET j == readJobResult
     IN IF validateSuccessfulResult(j) /\ SameContent(j)
        THEN WriteThen(completeArtifact(obj, j.digest, Ref(pass.op, j)), TRUE, "release")
        ELSE pass' = [pass EXCEPT !.pc = "releaseFailed", !.job = j] /\ UNCHANGED queued
  /\ UNCHANGED <<api, cached, clusterVars, worldVars>>

(* releaseLease: only the Lease of this pass's fingerprint, only if held. *)
releaseLease ==
  Drop({artifactLeaseFingerprint(obj, pass.op)} \cap Held(me))

Release ==
  /\ At("release")
  /\ releaseLease
  /\ Done(pass.again)
  /\ UNCHANGED <<api, cached, jobs, pods, configs, cleanups, worldVars>>

ReleaseFailed ==
  /\ At("releaseFailed")
  /\ releaseLease
  /\ Goto("failed")
  /\ UNCHANGED <<api, cached, jobs, pods, configs, cleanups, worldVars>>

(* A failure is reported first; once it is reported and its delay is over,   *)
(* the Job and its ConfigMap are removed so that the next pass retries.      *)
RetryOrReport(type, reason) ==
  IF alreadyReported(obj, type, reason)
  THEN IF obj.failure.fresh THEN Done(TRUE) ELSE Goto("dropJob")
  ELSE Report(artifactFailure(obj, type, reason), TRUE)

FailedResult ==
  /\ At("failed")
  /\ LET r == pass.job.result
         c == conditionForReason(r)
     IN CASE r = "lost"    -> RetryOrReport("SourceUnavailable", "ResultUnavailable")
          [] r = "foreign" -> Report(artifactFailure(obj, "SourceUnavailable",
                                                     "ResultIdentityMismatch"), FALSE)
          [] r \in {"ok", "invalid"} ->
               IF validateSuccessfulResult(pass.job)
               THEN Report(artifactFailure(obj, "ChecksumMismatch",
                                           "ImmutableContentMismatch"), FALSE)
               ELSE Goto("dropJob")
          [] OTHER -> IF c.retry THEN RetryOrReport(c.type, r)
                      ELSE Report(artifactFailure(obj, c.type, r), FALSE)
  /\ UNCHANGED <<api, cached, clusterVars, worldVars>>

DropJob ==
  /\ At("dropJob")
  /\ jobs' = IF job.uid = pass.job.uid THEN [jobs EXCEPT ![me][pass.op] = NoJob] ELSE jobs
  /\ Goto("dropConfig")
  /\ UNCHANGED <<api, cached, pods, configs, leases, cleanups, worldVars>>

DropConfig ==
  /\ At("dropConfig")
  /\ configs' = [configs EXCEPT ![me][pass.op] = "none"]
  /\ IF pass.job.result \in {"ok", "invalid"}
     THEN Report(artifactFailure(obj, "SourceUnavailable", "InvalidResult"), TRUE)
     ELSE Done(TRUE)
  /\ UNCHANGED <<api, cached, jobs, pods, leases, cleanups, worldVars>>

(***************************************************************************)
(* reconcileDelete.                                                        *)
(***************************************************************************)
(* modelArtifactHasDeploymentReferences: first ModelDeployments, then Pods. *)
References ==
  /\ At("references")
  /\ IF refs[me] THEN Done(TRUE) ELSE Goto("servingPods")
  /\ UNCHANGED <<api, cached, clusterVars, worldVars>>

ServingPods ==
  /\ At("servingPods")
  /\ IF mounts[me] THEN Done(TRUE) ELSE Goto("stopImporters")
  /\ UNCHANGED <<api, cached, clusterVars, worldVars>>

(* Mutant: importer Jobs are deleted in the background. *)
CleanupImportersInBackground ==
  \/ /\ At("stopImporters")
     /\ jobs' = [jobs EXCEPT ![me] = [o \in Ops |-> NoJob]]
     /\ IF jobs' = jobs THEN Goto("importerConfigs") ELSE Done(TRUE)
     /\ UNCHANGED configs
  \/ /\ At("importerConfigs")
     /\ configs' = [configs EXCEPT ![me] = [o \in Ops |-> "none"]]
     /\ IF configs' = configs THEN Goto("deleteLeases") ELSE Done(TRUE)
     /\ UNCHANGED jobs

cleanupArtifactImporterResources ==
  \/ /\ At("stopImporters")
     /\ LET all == {o \in Ops : jobs[me][o].status # "none"}
        IN /\ DeleteForeground(me, all)
           /\ IF all = {} THEN Goto("importerConfigs") ELSE Done(TRUE)
     /\ UNCHANGED configs
  \/ /\ At("importerConfigs")
     /\ configs' = [configs EXCEPT ![me] = [o \in Ops |-> "none"]]
     /\ IF configs' = configs THEN Goto("deleteLeases") ELSE Done(TRUE)
     /\ UNCHANGED jobs

StopImporters ==
  /\ cleanupArtifactImporterResources
  /\ UNCHANGED <<api, cached, pods, leases, cleanups, worldVars>>

DeleteLeases ==
  /\ At("deleteLeases")
  /\ Drop(Held(me))
  /\ IF Held(me) # {} THEN Done(TRUE)
     ELSE Goto(IF obj.cleaned THEN "detachedJob" ELSE "cleanupStorage")
  /\ UNCHANGED <<api, cached, jobs, pods, configs, cleanups, worldVars>>

(* Mutant: an unready ModelCache counts as nothing to clean. *)
ResolveCleanupWhenReady ==
  /\ At("cleanupStorage")
  /\ IF storage.state = "gone" \/ ~storage.ready THEN Goto("detachedJob")
     ELSE pass' = [pass EXCEPT !.pc = "cleanupConfig", !.op.claim = storage.claim]
          /\ UNCHANGED queued
  /\ UNCHANGED <<api, cached, clusterVars, worldVars>>

(* resolveArtifactCleanupFromLocation: the claim to clean is the checkpointed *)
(* one; a replaced or terminating claim is an error.                         *)
CleanupRefused ==
  obj.loc \notin {0, storage.claim} \/ storage.state = "terminating"

(* An absent claim needs no cleanup. *)
resolveArtifactCleanupStorage ==
  /\ At("cleanupStorage")
  /\ IF Mode = "Direct" \/ storage.state = "gone" THEN Goto("detachedJob")
     ELSE IF CleanupRefused THEN Done(TRUE)
     ELSE pass' = [pass EXCEPT !.pc = "cleanupConfig", !.op.claim = storage.claim]
          /\ UNCHANGED queued
  /\ UNCHANGED <<api, cached, clusterVars, worldVars>>

EnsureCleanupConfig ==
  /\ At("cleanupConfig")
  /\ cleanups' = [cleanups EXCEPT ![me].config = TRUE]
  /\ Goto("cleanupJob")
  /\ UNCHANGED <<api, cached, jobs, pods, configs, leases, worldVars>>

EnsureCleanupJob ==
  /\ At("cleanupJob")
  /\ cleanups' = IF cleanups[me].status # "none" THEN cleanups
                 ELSE [cleanups EXCEPT ![me].status = "active", ![me].pod = TRUE,
                                       ![me].good = FALSE]
  /\ Goto("cleanupResult")
  /\ UNCHANGED <<api, cached, jobs, pods, configs, leases, worldVars>>

(* Success is checkpointed in status; a failed or unreadable Job is removed. *)
reconcileArtifactCleanupJob ==
  /\ At("cleanupResult")
  /\ LET c == cleanups[me]
         finished == Finished(c.status)
     IN IF finished /\ c.good
        THEN Report([obj EXCEPT !.cleaned = TRUE], TRUE) /\ UNCHANGED cleanups
        ELSE /\ cleanups' = IF finished THEN [cleanups EXCEPT ![me].deleting = TRUE]
                            ELSE cleanups
             /\ Done(TRUE)
  /\ UNCHANGED <<api, cached, jobs, pods, configs, leases, worldVars>>

cleanupDetachedArtifactResources ==
  \/ /\ At("detachedJob")
     /\ IF cleanups[me].status = "none" THEN Goto("detachedConfig") /\ UNCHANGED cleanups
        ELSE Done(TRUE) /\ cleanups' = [cleanups EXCEPT ![me].deleting = TRUE]
  \/ /\ At("detachedConfig")
     /\ cleanups' = [cleanups EXCEPT ![me].config = FALSE]
     /\ IF cleanups[me].config THEN Done(TRUE) ELSE Goto("finalize")

CleanupDetached ==
  /\ cleanupDetachedArtifactResources
  /\ UNCHANGED <<api, cached, jobs, pods, configs, leases, worldVars>>

finalizeArtifactDeletion ==
  /\ At("finalize")
  /\ api' = IF Conflict THEN api ELSE [api EXCEPT ![me] = Gone]
  /\ Done(Conflict)
  /\ UNCHANGED <<cached, clusterVars, worldVars>>

PassStep ==
  \/ AddFinalizer \/ resolveArtifactStorage \/ WriteStatus
  \/ RetainedJob \/ DropRetained \/ ReadyLeases
  \/ ObsoleteJobs \/ ObsoleteRest \/ Acquire
  \/ replaceUnusedImporterConfig \/ EnsureConfig \/ EnsureJob
  \/ ObserveJob \/ Renew \/ inspectPendingJob
  \/ ReadResult \/ Release \/ ReleaseFailed \/ FailedResult \/ DropJob \/ DropConfig
  \/ References \/ ServingPods \/ StopImporters \/ DeleteLeases
  \/ resolveArtifactCleanupStorage \/ EnsureCleanupConfig \/ EnsureCleanupJob
  \/ reconcileArtifactCleanupJob \/ CleanupDetached \/ finalizeArtifactDeletion

(***************************************************************************)
(* Environment: users, the Job controller, the kubelet, garbage collection, *)
(* the ModelCache, ModelDeployments, time, and manager restarts.            *)
(***************************************************************************)
controllerVars == <<api, cached, pass, queued>>

Disrupt == budget > 0 /\ budget' = budget - 1 /\ UNCHANGED scenario

InformerSync(a) ==
  /\ cached[a] # api[a]
  /\ cached' = [cached EXCEPT ![a] = api[a]]
  /\ Wake(a)
  /\ UNCHANGED <<api, pass, clusterVars, worldVars>>

UserDeletes(a) ==
  /\ api[a].phase = "live"
  /\ api' = [api EXCEPT ![a] = IF @.fin THEN [@ EXCEPT !.phase = "deleting"] ELSE Gone]
  /\ UNCHANGED <<cached, pass, queued, clusterVars, worldVars>>

(* The importer ends.  A pinned ConfigMap admits only the pinned content. *)
JobFinishes(a, o, j) ==
  /\ jobs[a][o].status = "active" /\ Ref(o, jobs[a][o]) \in pods[a]
  /\ jobs' = [jobs EXCEPT ![a][o] = j]
  /\ pods' = [pods EXCEPT ![a] = @ \ {Ref(o, jobs[a][o])}]
  /\ Wake(a)
  /\ UNCHANGED <<api, cached, pass, configs, leases, cleanups, storage, refs, mounts, dirty>>

JobSucceeds(a, o) ==
  /\ \E d \in Digests :
       /\ configs[a][o] \in {None, d}
       /\ JobFinishes(a, o, [jobs[a][o] EXCEPT !.status = "complete", !.result = "ok",
                                               !.digest = d])
  /\ UNCHANGED <<budget, scenario>>

JobFails(a, o) ==
  /\ Disrupt
  /\ \E r \in ImportFailures :
       LET s == IF r \in {"invalid", "foreign"} THEN "complete" ELSE "failed"
       IN JobFinishes(a, o, [jobs[a][o] EXCEPT !.status = s, !.result = r])

JobChanges(a, o, j) ==
  /\ jobs' = [jobs EXCEPT ![a][o] = j]
  /\ Wake(a)
  /\ UNCHANGED <<api, cached, pass, pods, configs, leases, cleanups, storage, refs, mounts,
                 dirty>>

JobBlocked(a, o) ==
  /\ jobs[a][o].status = "active" /\ Disrupt
  /\ JobChanges(a, o, [jobs[a][o] EXCEPT !.status = "blocked"])

JobUnblocked(a, o) ==
  /\ jobs[a][o].status = "blocked" /\ UNCHANGED <<budget, scenario>>
  /\ JobChanges(a, o, [jobs[a][o] EXCEPT !.status = "active"])

(* The Pod and its log are gone, or an operator deletes the finished Job. *)
EvidenceLost(a, o) ==
  /\ jobs[a][o].status \in {"complete", "failed"} /\ Disrupt
  /\ \/ JobChanges(a, o, [jobs[a][o] EXCEPT !.result = "lost"])
     \/ JobChanges(a, o, NoJob)

(* Pods of a deleted or terminating Job stop; then the Job can disappear. *)
PodStops(a) ==
  /\ \E p \in pods[a] :
       /\ jobs[a][p.op].uid # p.uid \/ jobs[a][p.op].deleting
       /\ pods' = [pods EXCEPT ![a] = @ \ {p}]
  /\ UNCHANGED <<controllerVars, jobs, configs, leases, cleanups, worldVars>>

JobCollected(a, o) ==
  /\ jobs[a][o].deleting
  /\ Ref(o, jobs[a][o]) \notin pods[a]
  /\ UNCHANGED <<budget, scenario>>
  /\ JobChanges(a, o, NoJob)

CleanupChanges(a, c) ==
  /\ cleanups' = [cleanups EXCEPT ![a] = c]
  /\ UNCHANGED <<controllerVars, jobs, pods, configs, leases, storage, refs, mounts>>

CleanupSucceeds(a) ==
  /\ cleanups[a].pod /\ ~cleanups[a].deleting
  /\ dirty' = [dirty EXCEPT ![a] = @ \ {storage.claim}]
  /\ UNCHANGED <<budget, scenario>>
  /\ CleanupChanges(a, [cleanups[a] EXCEPT !.status = "complete", !.pod = FALSE, !.good = TRUE])

CleanupFails(a) ==
  /\ cleanups[a].pod /\ Disrupt /\ UNCHANGED dirty
  /\ CleanupChanges(a, [cleanups[a] EXCEPT !.status = "failed", !.pod = FALSE])

CleanupCollected(a) ==
  /\ cleanups[a].deleting /\ UNCHANGED <<dirty, budget, scenario>>
  /\ CleanupChanges(a, IF cleanups[a].pod THEN [cleanups[a] EXCEPT !.pod = FALSE]
                       ELSE [NoCleanup EXCEPT !.config = cleanups[a].config])

StorageChanges(s) ==
  /\ storage' = s
  /\ queued' = queued \cup Artifacts
  /\ UNCHANGED <<api, cached, pass, clusterVars, refs, mounts, dirty>>

Unmounted == \A a \in Artifacts : pods[a] = {} /\ ~cleanups[a].pod /\ ~mounts[a]

(* The ModelCache becomes unready, its claim is guarded or terminates, the   *)
(* source goes away, the cache object is replaced and adopts the same claim, *)
(* or the claim is replaced; the first four may recover.                     *)
StorageDisrupted ==
  /\ Disrupt
  /\ \/ storage.ready /\ Mode # "Direct" /\ StorageChanges([storage EXCEPT !.ready = FALSE])
     \/ storage.state = "bound" /\ StorageChanges([storage EXCEPT !.state = "guarded"])
     \/ storage.source /\ Mode = "Copy" /\ StorageChanges([storage EXCEPT !.source = FALSE])
     \/ /\ Mode # "Direct" /\ storage.cache < MaxCaches
        /\ StorageChanges([storage EXCEPT !.cache = @ + 1])
     \/ /\ storage.claim < MaxClaims /\ storage.state \in {"bound", "guarded"}
        /\ StorageChanges([storage EXCEPT !.state = "terminating"])

StorageRecovers ==
  /\ UNCHANGED <<budget, scenario>>
  /\ \/ ~storage.ready /\ StorageChanges([storage EXCEPT !.ready = TRUE])
     \/ storage.state = "guarded" /\ StorageChanges([storage EXCEPT !.state = "bound"])
     \/ ~storage.source /\ StorageChanges([storage EXCEPT !.source = TRUE])

ClaimReplaced ==
  /\ UNCHANGED <<budget, scenario>>
  /\ \/ storage.state = "terminating" /\ Unmounted
        /\ StorageChanges([storage EXCEPT !.state = "gone"])
     \/ storage.state = "gone" /\ storage.claim < MaxClaims
        /\ StorageChanges([storage EXCEPT !.state = "bound", !.claim = @ + 1])

(* The transition time of every failure now lies further back than its delay. *)
Aged(rec) == [rec EXCEPT !.failure.fresh = FALSE]

DelayElapses ==
  /\ api' = [a \in Artifacts |-> Aged(api[a])]
  /\ cached' = [a \in Artifacts |-> Aged(cached[a])]
  /\ pass' = [pass EXCEPT !.obj = Aged(@), !.want = Aged(@)]
  /\ <<api, cached, pass>> # <<api', cached', pass'>>
  /\ UNCHANGED <<queued, clusterVars, worldVars>>

LeaseExpires(f) ==
  /\ LeaseExpiry /\ leases[f].live /\ Disrupt
  /\ leases' = [leases EXCEPT ![f].live = FALSE]
  /\ UNCHANGED <<controllerVars, jobs, pods, configs, cleanups, storage, refs, mounts, dirty>>

(* A new manager lists the artifacts; the pass that was under way is lost. *)
ManagerRestarts ==
  /\ Disrupt /\ pass # Idle
  /\ pass' = Idle /\ cached' = api
  /\ queued' = {a \in Artifacts : api[a].phase # "gone"}
  /\ UNCHANGED <<api, clusterVars, storage, refs, mounts, dirty>>

(* A ModelDeployment names the artifact; its Pod starts only while the       *)
(* artifact is Ready and not being deleted; the reference may move to        *)
(* another artifact while the old Pod still runs.                            *)
Referenced(a) ==
  /\ MayServe /\ ~refs[a] /\ api[a].phase # "gone" /\ Disrupt
  /\ refs' = [refs EXCEPT ![a] = TRUE]
  /\ UNCHANGED <<controllerVars, clusterVars, storage, mounts, dirty>>

ServingStarts(a) ==
  /\ refs[a] /\ ~mounts[a] /\ api[a].ready /\ api[a].phase = "live"
  /\ mounts' = [mounts EXCEPT ![a] = TRUE]
  /\ UNCHANGED <<controllerVars, clusterVars, storage, refs, dirty, budget, scenario>>

Dereferenced(a) ==
  /\ refs[a] /\ refs' = [refs EXCEPT ![a] = FALSE]
  /\ UNCHANGED <<controllerVars, clusterVars, storage, mounts, dirty, budget, scenario>>

ServingStops(a) ==
  /\ mounts[a] /\ ~refs[a] /\ mounts' = [mounts EXCEPT ![a] = FALSE]
  /\ UNCHANGED <<controllerVars, clusterVars, storage, refs, dirty, budget, scenario>>

JobEnds(a) == \E o \in Ops : JobSucceeds(a, o) \/ JobFails(a, o)
Unblocked(a) == \E o \in Ops : JobUnblocked(a, o)
JobGone(a) == PodStops(a) \/ \E o \in Ops : JobCollected(a, o)
Cleaned(a) == CleanupSucceeds(a) \/ CleanupFails(a) \/ CleanupCollected(a)

Environment ==
  \/ \E a \in Artifacts :
       \/ InformerSync(a) \/ UserDeletes(a) \/ JobEnds(a) \/ JobGone(a) \/ Cleaned(a)
       \/ \E o \in Ops : JobBlocked(a, o) \/ EvidenceLost(a, o)
       \/ Unblocked(a)
       \/ Referenced(a) \/ ServingStarts(a) \/ Dereferenced(a) \/ ServingStops(a)
  \/ StorageDisrupted \/ StorageRecovers \/ ClaimReplaced
  \/ DelayElapses \/ ManagerRestarts
  \/ \E f \in Fingerprints : LeaseExpires(f)

Next == (\E a \in Artifacts : Reconcile(a)) \/ PassStep \/ Environment

Spec == Init /\ [][Next]_vars

(* The worker runs and the queue serves the artifacts; informers, Jobs,      *)
(* garbage collection, references and time make progress; outages end.       *)
Fair(A)   == scenario.progress /\ A
Some(A(_)) == scenario.progress /\ \E a \in Artifacts : A(a)

Fairness ==
  /\ WF_vars(Fair(PassStep)) /\ SF_vars(Some(Reconcile)) /\ WF_vars(Some(InformerSync))
  /\ WF_vars(Some(JobEnds)) /\ WF_vars(Some(JobGone)) /\ WF_vars(Some(Cleaned))
  /\ WF_vars(Some(Unblocked)) /\ WF_vars(Some(Dereferenced)) /\ WF_vars(Some(ServingStops))
  /\ WF_vars(Fair(StorageRecovers)) /\ WF_vars(Fair(ClaimReplaced)) /\ WF_vars(Fair(DelayElapses))

FairSpec == Spec /\ Fairness

(***************************************************************************)
(* Properties.                                                             *)
(***************************************************************************)
Record ==
  [phase : {"live", "deleting", "gone"}, fin : BOOLEAN, loc : 0..MaxClaims, ready : BOOLEAN,
   digest : Digests \cup {None}, cleaned : BOOLEAN,
   jobRef : {None} \cup [op : Ops, uid : Nat],
   failure : [type : STRING, reason : STRING, fresh : BOOLEAN]]

(* Every object of the controller has the shape the code gives it. *)
TypeOK ==
  /\ api \in [Artifacts -> Record] /\ cached \in [Artifacts -> Record]
  /\ pass.me \in Artifacts \cup {None} /\ pass.obj \in Record /\ pass.want \in Record
  /\ queued \subseteq Artifacts
  /\ \A a \in Artifacts : \A p \in pods[a] : p.op \in Ops
  /\ \A f \in Fingerprints : leases[f].holder \in Artifacts \cup {None}
  /\ budget \in 0..Disruptions

(* No importer resource exists before the exact claim identity that deletion *)
(* will clean is durable in status, whatever the cache or a crash hides      *)
(* (Reconcile, "Persist the exact claim/PV identity before any importer      *)
(* resource").                                                               *)
CheckpointBeforeImporter ==
  \A a \in Artifacts :
    (\E o \in Ops : jobs[a][o].status # "none" \/ configs[a][o] # "none") \/ pods[a] # {}
    => api[a].loc # 0

(* The cleanup Job has the files for itself: it runs neither beside an       *)
(* importer Pod of the artifact (cleanupArtifactImporterResources, foreground *)
(* deletion) nor while a serving Pod mounts them, even when the              *)
(* ModelDeployment no longer names the artifact                              *)
(* (modelArtifactHasDeploymentReferences); and such a Pod holds the object.  *)
CleanupIsExclusive ==
  \A a \in Artifacts :
    /\ cleanups[a].pod => pods[a] = {} /\ ~mounts[a]
    /\ mounts[a] => api[a].phase # "gone"

(* As long as the manager renews in time, two artifacts of one fingerprint   *)
(* never import at once (acquireLease, releaseLease, cleanup order).  A Copy *)
(* that is read stale is excepted: its fingerprint changes when its digest is *)
(* recorded, so a late pass may start an importer under the old one, whose   *)
(* Lease the next pass deletes as obsolete.                                  *)
LeaseExclusion ==
  \A a, b \in Artifacts : \A p \in pods[a], q \in pods[b] :
    a # b /\ p.op = q.op /\ (Mode = "Hub" \/ jobs[a][p.op].source = jobs[b][q.op].source)
    => LeaseExpiry \/ (Mode = "Copy" /\ InformerLag)

(* A released finalizer leaves nothing behind: no importer or cleanup object, *)
(* no Lease, and no transient state on a claim that still exists             *)
(* (reconcileDelete).                                                        *)
FinalizedClean ==
  \A a \in Artifacts : api[a].phase = "gone" /\ ~InformerLag =>
    /\ pods[a] = {} /\ cleanups[a] = NoCleanup /\ Held(a) = {}
    /\ \A o \in Ops : jobs[a][o] = NoJob /\ configs[a][o] = "none"
    /\ storage.claim \in dirty[a] => storage.state = "gone"

(* A verified content identity never changes while the artifact exists       *)
(* (completeArtifact under optimistic concurrency).                          *)
DigestStable ==
  [][\A a \in Artifacts : api[a].digest # None /\ api'[a].phase # "gone"
       => api'[a].digest = api[a].digest]_vars

(* When outages and transient failures end, every artifact whose content the *)
(* spec pins settles: it is Ready and its Lease is released, even if the     *)
(* manager died between the status write and the release, or it was deleted  *)
(* and is finalized (Reconcile, releaseLease, reconcileDelete).              *)
Converges ==
  scenario.progress =>
    <>[](\A a \in Artifacts : \/ api[a].phase = "gone"
                              \/ api[a].phase = "live" /\ api[a].ready /\ Held(a) = {})
=============================================================================
