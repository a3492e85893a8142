--------------------------- MODULE CacheController ---------------------------
(***************************************************************************)
(* The ModelCache controller                                               *)
(* (internal/controller/modelcache_controller.go): it creates or adopts a   *)
(* claim, probes its filesystem with a Job, keeps readiness between probes,  *)
(* and on deletion guards the managed claim, waits, checks every reference   *)
(* and only then deletes it.                                                *)
(*                                                                         *)
(* There is one claim name: cache Owner manages it through its claim         *)
(* template, every other cache adopts it by name, and artifacts use it       *)
(* through a cache or as their PVC source.  pass is the single worker, as in *)
(* ArtifactController.  Caches, claims and probe Jobs are read from informer *)
(* caches (cached, claimView, view); the deletion checks are not             *)
(* (referenceReader).                                                       *)
(***************************************************************************)
EXTENDS Integers, FiniteSets

CONSTANTS
  Owner,     \* the cache that manages the claim
  None,      \* no value
  Scenarios  \* the circumstances considered, see below

(* via: the users of the claim, each with the cache it names, or None: PVC      *)
(* source; wait: does the storage class bind on first use?  retention: policies *)
(* Owner may have; failures: results a failing probe may leave; faults: what    *)
(* users and volumes may do to the claim; delays: the times that may elapse;    *)
(* lagging: informers that may lag; late: caches whose probe objects may be     *)
(* shown late; the bounds: claims of that name over time, failures, edits and   *)
(* restarts; progress: is progress asked?                                       *)
ASSUME CacheAssumption ==
  \A s \in Scenarios :
    /\ Owner \in s.caches /\ None \notin s.caches
    /\ \A a \in DOMAIN s.via : s.via[a] \in s.caches \cup {None}
    /\ {s.claims, s.disruptions} \subseteq Nat /\ {s.wait, s.progress} \subseteq BOOLEAN
    /\ s.lagging \subseteq {"caches", "claims"} /\ s.late \subseteq s.caches
    /\ s.delays \subseteq {"retry", "interval"}
    /\ s.retention \subseteq {"Retain", "Delete"} /\ s.retention # {}
    /\ s.failures \subseteq {"failed", "full", "invalid", "lost", "unsupported"}
    /\ s.faults \subseteq {"deleted", "lost", "altered", "prearmed"}

VARIABLES
  scenario,          \* the circumstances, fixed
  api, cached,       \* each ModelCache in the API server and in the informer cache
  pass, queued,      \* the worker's pass; the work queue
  claim, claimView,  \* the claim in the API server and in the informer cache
  probes, view,      \* probe Jobs and ConfigMaps by cache and claim; their informer copy
  pods,              \* running probe Pods by cache: the claims they mount
  users,             \* artifacts: the claim each has resolved or located
  probed,            \* claims on which a probe Job succeeded
  removed,           \* claims whose deletion the controller requested
  budget             \* disruptions that may still happen

clusterVars == <<claim, claimView, probes, view, pods>>
worldVars   == <<users, probed, removed, budget, scenario>>
vars == <<api, cached, pass, queued, clusterVars, worldVars>>

Caches          == scenario.caches
Artifacts       == DOMAIN scenario.via
Via             == scenario.via
MaxClaims       == scenario.claims
WaitForConsumer == scenario.wait
Retention       == scenario.retention
ProbeFailures   == scenario.failures
ClaimFaults     == scenario.faults
Delays          == scenario.delays
Lagging         == scenario.lagging
Late            == scenario.late
Disruptions     == scenario.disruptions

Claims == 0..MaxClaims

(***************************************************************************)
(* Objects.  seen: the status describes the current generation.  fresh and   *)
(* fullFresh: Ready became False, InsufficientCapacity became True, less     *)
(* than the retry delay ago.  probe: while Ready, the age of lastProbeTime   *)
(* against the probe interval and maxCacheReadyStaleness.                    *)
(***************************************************************************)
Created(policy) ==
  [phase |-> "live", fin |-> FALSE, policy |-> policy, seen |-> FALSE, ready |-> FALSE,
   reason |-> "none", fresh |-> FALSE, fullFresh |-> FALSE, claim |-> 0, named |-> FALSE,
   probe |-> "none"]
Absent  == [Created("Retain") EXCEPT !.phase = "absent"]
Gone(p) == [Created(p) EXCEPT !.phase = "gone"]

NoProbe == [config |-> FALSE, status |-> "none", result |-> "none", mounts |-> 0,
            deleting |-> FALSE]
NoClaim(uid) == [uid |-> uid, state |-> "none", valid |-> TRUE, guard |-> "none", quiet |-> FALSE]

Idle == [pc |-> "idle", me |-> None, obj |-> Absent, claim |-> NoClaim(0), job |-> NoProbe,
         want |-> Absent, again |-> FALSE, then |-> "idle"]

Init ==
  /\ scenario \in Scenarios
  /\ \E p \in Retention :
       api = [c \in Caches |-> IF c = Owner THEN Created(p) ELSE Absent]
  /\ cached = api /\ pass = Idle /\ queued = {Owner}
  /\ claim = NoClaim(0) /\ claimView = claim
  /\ probes = [c \in Caches |-> [u \in Claims |-> NoProbe]] /\ view = probes
  /\ pods = [c \in Caches |-> {}]
  /\ users = [a \in Artifacts |-> [state |-> "absent", claim |-> 0]]
  /\ probed = {} /\ removed = {}
  /\ budget = Disruptions

(***************************************************************************)
(* The pass.                                                               *)
(***************************************************************************)
me  == pass.me
obj == pass.obj
uid == pass.claim.uid

(* An informer that does not lag delivers a change before anything else happens. *)
Synced(lagging, late) ==
  /\ "caches" \in lagging \/ cached = api
  /\ "claims" \in lagging \/ claimView = claim
  /\ \A c \in Caches : c \in late \/ view[c] = probes[c]

Prompt == Synced(Lagging, Late)

At(step)   == pass.pc = step /\ Prompt
Goto(step) == pass' = [pass EXCEPT !.pc = step] /\ UNCHANGED queued

Done(requeue) ==
  /\ pass' = Idle
  /\ queued' = IF requeue THEN queued \cup {me} ELSE queued

WriteThen(rec, requeue, step) ==
  /\ pass' = [pass EXCEPT !.pc = "status", !.want = rec, !.again = requeue, !.then = step]
  /\ UNCHANGED queued

Report(rec, requeue) == WriteThen(rec, requeue, "idle")

(* SetupWithManager: a claim wakes the caches that name it in spec or status. *)
ClaimWatchers == {c \in Caches : cached[c].phase # "absent" /\ (c # Owner \/ cached[c].named)}

(***************************************************************************)
(* Status values.                                                          *)
(***************************************************************************)
(* Ready becomes or stays False; its transition time moves only if it was not. *)
NotReady(rec, reason) ==
  [rec EXCEPT !.ready = FALSE, !.seen = TRUE, !.reason = reason,
              !.fresh = rec.ready \/ rec.reason = "none" \/ rec.fresh, !.fullFresh = FALSE,
              !.probe = "none"]

clearCacheStorageStatus(rec, u) == [rec EXCEPT !.claim = u, !.named = TRUE]

applyCacheIdentity(rec, u) == [rec EXCEPT !.claim = u, !.named = TRUE]

(* cacheFailure with the condition StorageUnavailable, Degraded or            *)
(* InsufficientCapacity ("full").                                            *)
cacheFailure(rec, condition, reason) ==
  [NotReady(rec, reason) EXCEPT
     !.fullFresh = condition = "full" /\ (rec.reason # "InsufficientStorage" \/ rec.fullFresh)]

(* updateClaimStatus: without a volume identity, or with a changed one, what  *)
(* the status said of the storage is cleared.                                *)
updateClaimStatus(rec, u, identity, reason) ==
  NotReady(IF identity /\ rec.claim = u THEN applyCacheIdentity(rec, u)
           ELSE clearCacheStorageStatus(rec, u), reason)

ProbeSucceeded(rec, u) ==
  [applyCacheIdentity(rec, u) EXCEPT
     !.ready = TRUE, !.seen = TRUE, !.reason = "ProbeSucceeded", !.fresh = FALSE,
     !.fullFresh = FALSE, !.probe = "fresh"]

(* Readiness outlives a missing or unreadable probe for a bounded time, on    *)
(* the same volume and generation (cacheStatusMatchesVolumeIdentity).        *)
canPreserveCacheReady(rec, u) ==
  rec.ready /\ rec.seen /\ rec.probe \in {"fresh", "stale"} /\ rec.claim = u

(***************************************************************************)
(* Reconcile: the cache, its claim.                                         *)
(***************************************************************************)
Reconcile(c) ==
  /\ At("idle") /\ c \in queued
  /\ queued' = queued \ {c}
  /\ LET rec  == cached[c]
         step == CASE rec.phase \in {"gone", "absent"} -> "idle"
                   [] rec.phase = "deleting" -> IF rec.fin THEN "terminating" ELSE "idle"
                   [] OTHER                  -> IF rec.fin THEN "ensureClaim" ELSE "addFinalizer"
     IN pass' = IF step = "idle" THEN Idle
                ELSE [Idle EXCEPT !.pc = step, !.me = c, !.obj = rec]
  /\ UNCHANGED <<api, cached, clusterVars, worldVars>>

(* Update and Status().Update carry the resource version that was read. *)
Conflict == api[me] # obj

AddFinalizer ==
  /\ At("addFinalizer")
  /\ api' = IF Conflict THEN api ELSE [api EXCEPT ![me].fin = TRUE]
  /\ Done(TRUE)
  /\ UNCHANGED <<cached, clusterVars, worldVars>>

WriteStatus ==
  /\ At("status")
  /\ IF Conflict /\ pass.want # obj
     THEN Done(TRUE) /\ UNCHANGED api
     ELSE /\ api' = IF pass.want = obj THEN api ELSE [api EXCEPT ![me] = pass.want]
          /\ IF pass.then = "idle" THEN Done(pass.again)
             ELSE pass' = [pass EXCEPT !.pc = pass.then, !.obj = pass.want] /\ UNCHANGED queued
  /\ UNCHANGED <<cached, clusterVars, worldVars>>

(* The managed claim is created, ownerless, unless it exists. *)
ensureClaim ==
  /\ At("ensureClaim")
  /\ claim' = IF me = Owner /\ claim.state = "none" /\ claim.uid < MaxClaims
              THEN [NoClaim(claim.uid + 1) EXCEPT !.state = "pending"] ELSE claim
  /\ Goto("readClaim")
  /\ UNCHANGED <<api, cached, claimView, probes, view, pods, worldVars>>

(* valid stands for the comparison of the claim with the claim template. *)
validateManagedCacheClaim(cl) == cl.valid

claimWaitsForFirstConsumer == WaitForConsumer

(* A claim that is lost, or whose volume cannot be resolved, is "lost". *)
ClaimProblem(cl) ==
  CASE cl.state = "none"                                   -> "ClaimNotFound"
    [] cl.state = "terminating"                            -> "ClaimTerminating"
    [] me = Owner /\ ~validateManagedCacheClaim(cl)        -> "ClaimIdentityConflict"
    [] cl.guard # "none"                                   -> "ClaimDeletionGuarded"
    [] cl.state = "lost"                                   -> "ClaimLost"
    [] cl.state = "pending" /\ ~claimWaitsForFirstConsumer -> "ClaimPending"
    [] OTHER                                               -> "none"

ReadClaim ==
  /\ At("readClaim")
  /\ LET cl  == claimView
         why == ClaimProblem(cl)
     IN CASE why \in {"ClaimNotFound", "ClaimIdentityConflict"} ->
               Report(cacheFailure(clearCacheStorageStatus(obj, 0), "unavailable", why),
                      why = "ClaimNotFound")
          [] why \notin {"ClaimNotFound", "ClaimIdentityConflict", "none"} ->
               Report(updateClaimStatus(obj, cl.uid, FALSE, why), TRUE)
          [] OTHER ->
               /\ pass' = [pass EXCEPT !.claim = cl,
                             !.pc = IF cl.state = "bound" /\ obj.probe = "fresh"
                                       /\ canPreserveCacheReady(obj, cl.uid)
                                    THEN "freshReady" ELSE "probeConfig"]
               /\ UNCHANGED queued
  /\ UNCHANGED <<api, cached, clusterVars, worldVars>>

(***************************************************************************)
(* The probe.  Its Job and ConfigMap are named after the cache and the claim *)
(* identity.                                                                *)
(***************************************************************************)
(* Mutant: the operation is named after the cache alone. *)
ProbeOfCache == 0

desiredProbeResources == uid

Probe     == probes[me][desiredProbeResources]
ProbeView == view[me][desiredProbeResources]
SetProbe(p) == probes' = [probes EXCEPT ![me][desiredProbeResources] = p]

(* Delete carries the identity and version of the Job that was read. *)
JobUnchanged == [pass.job EXCEPT !.config = Probe.config] = Probe

Finished(status) == status \in {"complete", "failed"}

(* reconcileFreshReady, cleanupCompletedProbeResources: what a crash left of  *)
(* the last probe is removed once its Job has finished; uncached.            *)
reconcileFreshReady ==
  /\ At("freshReady")
  /\ IF Probe = NoProbe \/ (Probe.status # "none" /\ ~Finished(Probe.status))
     THEN Done(TRUE) /\ UNCHANGED probes
     ELSE /\ SetProbe([Probe EXCEPT !.config = FALSE])
          /\ IF Probe.status = "none" THEN Done(TRUE) ELSE Goto("freshDrop")
  /\ UNCHANGED <<api, cached, claim, claimView, view, pods, worldVars>>

cleanupCompletedProbeResources ==
  /\ At("freshDrop")
  /\ SetProbe(IF Finished(Probe.status) THEN NoProbe ELSE Probe)
  /\ Done(TRUE)
  /\ UNCHANGED <<api, cached, claim, claimView, view, pods, worldVars>>

(* An API error, or an object the informer does not show yet: a bound, Ready  *)
(* cache stays Ready, any other reports it.                                  *)
ProbeUnavailable(reason) ==
  IF pass.claim.state = "bound" /\ canPreserveCacheReady(obj, uid) THEN Done(TRUE)
  ELSE Report(updateClaimStatus(obj, uid, pass.claim.state = "bound", reason), TRUE)

(* ensureProbeResources: create, or accept the existing object if the cache   *)
(* shows it; then read the Job from the cache.                               *)
EnsureProbeConfig ==
  /\ At("probeConfig")
  /\ IF Probe.config /\ ~ProbeView.config
     THEN ProbeUnavailable("ProbeReconcileFailed") /\ UNCHANGED probes
     ELSE SetProbe([Probe EXCEPT !.config = TRUE]) /\ Goto("probeJob")
  /\ UNCHANGED <<api, cached, claim, claimView, view, pods, worldVars>>

EnsureProbeJob ==
  /\ At("probeJob")
  /\ IF Probe.status # "none"
     THEN /\ IF ProbeView.status # "none" THEN Goto("getJob")
             ELSE ProbeUnavailable("ProbeReconcileFailed")
          /\ UNCHANGED <<probes, pods>>
     ELSE /\ SetProbe([Probe EXCEPT !.status = "active", !.mounts = uid])
          /\ pods' = [pods EXCEPT ![me] = @ \cup {uid}]
          /\ Goto("getJob")
  /\ UNCHANGED <<api, cached, claim, claimView, view, worldVars>>

GetProbeJob ==
  /\ At("getJob")
  /\ LET p == ProbeView
     IN IF p.status = "none" THEN ProbeUnavailable("ProbeReconcileFailed")
        ELSE IF pass.claim.state = "pending"
        THEN IF Finished(p.status) \/ p.deleting
             THEN pass' = [pass EXCEPT !.pc = "restartConsumer", !.job = p] /\ UNCHANGED queued
             ELSE Report(updateClaimStatus(obj, uid, FALSE, "ClaimPending"), TRUE)
        ELSE IF ~Finished(p.status) THEN ProbeUnavailable("ProbeRunning")
        ELSE pass' = [pass EXCEPT !.pc = "probeResult", !.job = p] /\ UNCHANGED queued
  /\ UNCHANGED <<api, cached, clusterVars, worldVars>>

(* A terminal consumer of an unbound claim is removed so that a new one binds it. *)
RestartConsumer ==
  /\ At("restartConsumer")
  /\ SetProbe(IF JobUnchanged THEN [Probe EXCEPT !.deleting = TRUE] ELSE Probe)
  /\ Report(updateClaimStatus(obj, uid, FALSE, "ProbeConsumerRestarting"), TRUE)
  /\ UNCHANGED <<api, cached, claim, claimView, view, pods, worldVars>>

(* The delay of StorageUnavailable failures counts from the time Ready became *)
(* False, that of a full volume from its own condition.                      *)
probeFailure(condition, reason) ==
  IF obj.seen /\ ~obj.ready /\ obj.reason = reason
  THEN IF (IF condition = "full" THEN obj.fullFresh ELSE obj.fresh)
       THEN Done(TRUE) ELSE Goto("retryJob")
  ELSE Report(IF condition = "full"
              THEN cacheFailure(applyCacheIdentity(obj, uid), condition, reason)
              ELSE updateClaimStatus(obj, uid, TRUE, reason), TRUE)

(* The log of a Job that is not there any more may be gone as well. *)
ReadableResults == IF JobUnchanged THEN {pass.job.result} ELSE {pass.job.result, "lost"}

reconcileProbe ==
  /\ At("probeResult")
  /\ \E r \in ReadableResults :
       CASE r = "ok"          -> WriteThen(ProbeSucceeded(obj, uid), TRUE, "dropConfig")
         [] r = "unsupported" -> Report(updateClaimStatus(obj, uid, TRUE, "UnsupportedFilesystem"),
                                        FALSE)
         [] r = "lost"        -> IF canPreserveCacheReady(obj, uid) THEN Done(TRUE)
                                 ELSE probeFailure("unavailable", "ResultUnavailable")
         [] r = "full"        -> probeFailure("full", "InsufficientStorage")
         [] r = "invalid"     -> probeFailure("unavailable", "InvalidProbeResult")
         [] OTHER             -> probeFailure("unavailable", "ProbeFailed")
  /\ UNCHANGED <<api, cached, clusterVars, worldVars>>

(* The result is durable in status before its evidence is removed. *)
DropConfig ==
  /\ At("dropConfig")
  /\ SetProbe([Probe EXCEPT !.config = FALSE])
  /\ Goto("dropJob")
  /\ UNCHANGED <<api, cached, claim, claimView, view, pods, worldVars>>

DropJob ==
  /\ At("dropJob")
  /\ SetProbe(IF JobUnchanged THEN [NoProbe EXCEPT !.config = Probe.config] ELSE Probe)
  /\ Done(TRUE)
  /\ UNCHANGED <<api, cached, claim, claimView, view, pods, worldVars>>

RetryJob ==
  /\ At("retryJob")
  /\ IF JobUnchanged THEN SetProbe([NoProbe EXCEPT !.config = Probe.config]) /\ Goto("retryConfig")
     ELSE Done(TRUE) /\ UNCHANGED probes
  /\ UNCHANGED <<api, cached, claim, claimView, view, pods, worldVars>>

RetryConfig ==
  /\ At("retryConfig")
  /\ SetProbe([Probe EXCEPT !.config = FALSE])
  /\ Done(TRUE)
  /\ UNCHANGED <<api, cached, claim, claimView, view, pods, worldVars>>

(***************************************************************************)
(* reconcileDelete.                                                        *)
(***************************************************************************)
Terminating ==
  /\ At("terminating")
  /\ IF obj.ready \/ obj.reason = "none" \/ ~obj.seen
     THEN WriteThen(cacheFailure(obj, "degraded", "CacheTerminating"), FALSE, "probeJobs")
     ELSE Goto("probeJobs")
  /\ UNCHANGED <<api, cached, clusterVars, worldVars>>

(* Probe Jobs are listed from the cache and deleted in the foreground. *)
StopProbes ==
  /\ At("probeJobs")
  /\ LET known == {u \in Claims : view[me][u].status # "none"}
     IN /\ probes' = [probes EXCEPT ![me] = [u \in Claims |->
                        IF u \in known /\ probes[me][u].status # "none"
                           /\ [view[me][u] EXCEPT !.config = probes[me][u].config] = probes[me][u]
                        THEN [probes[me][u] EXCEPT !.deleting = TRUE] ELSE probes[me][u]]]
        /\ IF known = {} THEN Goto("probeConfigs") ELSE Done(TRUE)
  /\ UNCHANGED <<api, cached, claim, claimView, view, pods, worldVars>>

DropProbeConfigs ==
  /\ At("probeConfigs")
  /\ probes' = [probes EXCEPT ![me] = [u \in Claims |->
                  [probes[me][u] EXCEPT !.config = @ /\ ~view[me][u].config]]]
  /\ Goto("artifactRefs")
  /\ UNCHANGED <<api, cached, claim, claimView, view, pods, worldVars>>

Exists(a) == users[a].state # "absent"

ArtifactReferences ==
  /\ At("artifactRefs")
  /\ IF \E a \in Artifacts : Exists(a) /\ Via[a] = me
     THEN Report(cacheFailure(obj, "degraded", "ArtifactReferencesRemain"), TRUE)
     ELSE Goto(IF me # Owner THEN "finalize"
               ELSE IF obj.policy = "Delete" THEN "managedClaim" ELSE "clearGuard")
  /\ UNCHANGED <<api, cached, clusterVars, worldVars>>

(* Mutant: the quiescence period is not awaited. *)
QuiescenceOverAtOnce(cl) == cl.guard = "set"

(* The guard was set after the deletion began, and cacheDeletionQuiescence ago. *)
QuiescenceOver(cl) == cl.guard = "set" /\ cl.quiet

(* Mutant: every pass renews the guard. *)
ManagedClaimRenewing ==
  /\ At("managedClaim")
  /\ IF claim.state = "none" THEN Goto("finalize")
     ELSE pass' = [pass EXCEPT !.claim = claim, !.pc = "guard"] /\ UNCHANGED queued
  /\ UNCHANGED <<api, cached, clusterVars, worldVars>>

(* The claim under deletion.  A guard older than the deletion is renewed. *)
ManagedClaim ==
  /\ At("managedClaim")
  /\ CASE claim.state = "none"                  -> Goto("finalize")
       [] claim.state = "terminating"           -> Done(TRUE)
       [] ~(claim.state \in {"none", "terminating"} \/ validateManagedCacheClaim(claim)) ->
            Report(cacheFailure(obj, "degraded", "ClaimIdentityConflict"), FALSE)
       [] OTHER ->
            IF claim.guard = "set" /\ ~QuiescenceOver(claim) THEN Done(TRUE)
            ELSE /\ pass' = [pass EXCEPT !.claim = claim,
                               !.pc = IF claim.guard = "set" THEN "otherCaches" ELSE "guard"]
                 /\ UNCHANGED queued
  /\ UNCHANGED <<api, cached, clusterVars, worldVars>>

ensureClaimDeletionGuard ==
  /\ At("guard")
  /\ IF claim = pass.claim
     THEN /\ claim' = [claim EXCEPT !.guard = "set", !.quiet = FALSE]
          /\ Done(TRUE)
     ELSE /\ Report(cacheFailure(obj, "degraded", "ClaimDeletionGuardConflict"), FALSE)
          /\ UNCHANGED claim
  /\ UNCHANGED <<api, cached, claimView, probes, view, pods, worldVars>>

(* managedClaimDeletionBlocked: other caches, then every kind of artifact     *)
(* reference, both read from the API server.                                 *)
managedClaimDeletionBlocked ==
  LET Blocked(by, reason, next) ==
        IF by THEN Report(cacheFailure(obj, "degraded", reason), TRUE) ELSE Goto(next)
  IN \/ /\ At("otherCaches")
        /\ Blocked(\E c \in Caches \ {me} : api[c].phase \in {"live", "deleting"},
                   "ClaimAdoptedByAnotherCache", "artifactClaims")
     \/ /\ At("artifactClaims")
        /\ Blocked(\E a \in Artifacts : Exists(a) /\ (Via[a] \in {me, None}
                                                      \/ users[a].state = "located"),
                   "ArtifactReferencesRemain", "revalidate")

LastReferences ==
  /\ managedClaimDeletionBlocked
  /\ UNCHANGED <<api, cached, clusterVars, worldVars>>

revalidateManagedClaimDeletion ==
  /\ At("revalidate")
  /\ IF claim.state = "none" THEN Done(TRUE)
     ELSE IF /\ claim.uid = uid /\ claim.state # "terminating"
             /\ validateManagedCacheClaim(claim) /\ QuiescenceOver(claim)
     THEN pass' = [pass EXCEPT !.claim = claim, !.pc = "deleteClaim"] /\ UNCHANGED queued
     ELSE Report(cacheFailure(obj, "degraded", "ClaimDeletionGuardChanged"), TRUE)
  /\ UNCHANGED <<api, cached, clusterVars, worldVars>>

DeleteClaim ==
  /\ At("deleteClaim")
  /\ IF claim \in {pass.claim, NoClaim(uid)}
     THEN /\ claim' = IF claim = pass.claim THEN [claim EXCEPT !.state = "terminating"] ELSE claim
          /\ removed' = removed \cup {uid}
          /\ Done(TRUE)
     ELSE /\ Report(cacheFailure(obj, "degraded", "ClaimDeleteFailed"), TRUE)
          /\ UNCHANGED <<claim, removed>>
  /\ UNCHANGED <<api, cached, claimView, probes, view, pods, users, probed, budget, scenario>>

(* A retained claim does not keep a guard of this cache. *)
clearRetainedManagedClaimDeletionGuard ==
  /\ At("clearGuard")
  /\ pass' = [pass EXCEPT !.claim = claim,
                !.pc = IF claim.state \in {"none", "terminating"} \/ claim.guard = "none"
                       THEN "finalize" ELSE "dropGuard"]
  /\ UNCHANGED <<queued, api, cached, clusterVars, worldVars>>

DropGuard ==
  /\ At("dropGuard")
  /\ IF claim = pass.claim /\ validateManagedCacheClaim(claim)
     THEN /\ claim' = [claim EXCEPT !.guard = "none", !.quiet = FALSE]
          /\ Done(TRUE)
     ELSE /\ Report(cacheFailure(obj, "degraded", "RetainedClaimGuardCleanupFailed"), TRUE)
          /\ UNCHANGED claim
  /\ UNCHANGED <<api, cached, claimView, probes, view, pods, worldVars>>

Finalize ==
  /\ At("finalize")
  /\ api' = IF Conflict THEN api ELSE [api EXCEPT ![me] = Gone(obj.policy)]
  /\ Done(Conflict)
  /\ UNCHANGED <<cached, clusterVars, worldVars>>

PassStep ==
  \/ AddFinalizer \/ WriteStatus \/ ensureClaim \/ ReadClaim
  \/ reconcileFreshReady \/ cleanupCompletedProbeResources
  \/ EnsureProbeConfig \/ EnsureProbeJob \/ GetProbeJob \/ RestartConsumer
  \/ reconcileProbe \/ DropConfig \/ DropJob \/ RetryJob \/ RetryConfig
  \/ Terminating \/ StopProbes \/ DropProbeConfigs \/ ArtifactReferences
  \/ ManagedClaim \/ ensureClaimDeletionGuard \/ LastReferences
  \/ revalidateManagedClaimDeletion \/ DeleteClaim
  \/ clearRetainedManagedClaimDeletionGuard \/ DropGuard \/ Finalize

(***************************************************************************)
(* Environment: users, informers, probe Pods, volumes, artifacts, time.      *)
(***************************************************************************)
controllerVars == <<api, cached, pass, queued>>

Disrupt == budget > 0 /\ budget' = budget - 1 /\ UNCHANGED scenario

CacheSync(c) ==
  /\ cached[c] # api[c]
  /\ cached' = [cached EXCEPT ![c] = api[c]]
  /\ queued' = queued \cup {c}
  /\ UNCHANGED <<api, pass, clusterVars, worldVars>>

ClaimSync ==
  /\ claimView # claim
  /\ claimView' = claim
  /\ queued' = queued \cup ClaimWatchers
  /\ UNCHANGED <<api, cached, pass, claim, probes, view, pods, worldVars>>

ProbeSync(c) ==
  /\ view[c] # probes[c]
  /\ view' = [view EXCEPT ![c] = probes[c]]
  /\ queued' = queued \cup {c}
  /\ UNCHANGED <<api, cached, pass, claim, claimView, probes, pods, worldVars>>

InformerSync == ClaimSync \/ \E c \in Caches : CacheSync(c) \/ ProbeSync(c)

CacheCreated(c) ==
  /\ api[c].phase = "absent" /\ Prompt
  /\ api' = [api EXCEPT ![c] = Created("Retain")]
  /\ UNCHANGED <<cached, pass, queued, clusterVars, worldVars>>

UserDeletes(c) ==
  /\ api[c].phase = "live" /\ Prompt
  /\ api' = [api EXCEPT ![c] = IF @.fin THEN [@ EXCEPT !.phase = "deleting", !.seen = FALSE]
                               ELSE Gone(@.policy)]
  /\ UNCHANGED <<cached, pass, queued, clusterVars, worldVars>>

(* Mutant: the policy may change during deletion. *)
AlwaysMutable(rec) == rec.phase \in {"live", "deleting"}

(* Storage is immutable; retentionPolicy until deletion begins. *)
validateModelCacheUpdate(rec) == rec.phase = "live"

PolicyChanges ==
  /\ validateModelCacheUpdate(api[Owner]) /\ Prompt /\ Disrupt
  /\ \E p \in Retention \ {api[Owner].policy} :
       api' = [api EXCEPT ![Owner].policy = p, ![Owner].seen = FALSE]
  /\ UNCHANGED <<cached, pass, queued, clusterVars, users, probed, removed>>

(* A probe Pod ends; its Job finishes if it is still there. *)
PodEnds(c, u, status, result) ==
  /\ u \in pods[c] /\ Prompt
  /\ pods' = [pods EXCEPT ![c] = @ \ {u}]
  /\ probes' = [probes EXCEPT ![c] = [n \in Claims |->
                  IF probes[c][n].mounts = u /\ probes[c][n].status = "active"
                  THEN [probes[c][n] EXCEPT !.status = status, !.result = result]
                  ELSE probes[c][n]]]
  /\ UNCHANGED <<controllerVars, claim, claimView, view, users, removed>>

ProbeSucceeds(c, u) ==
  /\ claim.uid = u /\ claim.state \in {"bound", "terminating"}
  /\ PodEnds(c, u, "complete", "ok")
  /\ probed' = probed \cup {u}
  /\ UNCHANGED <<budget, scenario>>

ProbeFails(c, u) ==
  /\ \E r \in ProbeFailures :
       PodEnds(c, u, IF r \in {"invalid", "unsupported"} THEN "complete" ELSE "failed", r)
  /\ claim.uid = u => Disrupt
  /\ claim.uid # u => UNCHANGED <<budget, scenario>>
  /\ UNCHANGED probed

(* The Job controller stops the Pods of deleted Jobs; a deleted cache takes    *)
(* its probe objects with it.                                                *)
Owned(c, u) == \E n \in Claims : probes[c][n].mounts = u /\ ~probes[c][n].deleting

PodStops(c, u) ==
  /\ u \in pods[c] /\ ~Owned(c, u) /\ Prompt
  /\ pods' = [pods EXCEPT ![c] = @ \ {u}]
  /\ UNCHANGED <<controllerVars, claim, claimView, probes, view, worldVars>>

ProbeCollected(c) ==
  /\ Prompt
  /\ \E n \in Claims :
       /\ \/ probes[c][n].deleting /\ probes[c][n].mounts \notin pods[c]
          \/ api[c].phase = "gone" /\ probes[c][n] # NoProbe
       /\ probes' = [probes EXCEPT ![c][n] =
                      IF api[c].phase = "gone" THEN NoProbe
                      ELSE [NoProbe EXCEPT !.config = probes[c][n].config]]
  /\ UNCHANGED <<controllerVars, claim, claimView, view, pods, worldVars>>

(* A finished probe Pod and its log are lost. *)
ResultLost(c, u) ==
  /\ Finished(probes[c][u].status) /\ probes[c][u].result # "lost" /\ Prompt /\ Disrupt
  /\ probes' = [probes EXCEPT ![c][u].result = "lost"]
  /\ UNCHANGED <<controllerVars, claim, claimView, view, pods, users, probed, removed>>

ClaimChanges(cl) ==
  /\ Prompt /\ claim' = cl
  /\ UNCHANGED <<controllerVars, claimView, probes, view, pods, users, probed, removed>>

ClaimBinds ==
  /\ claim.state = "pending" /\ UNCHANGED <<budget, scenario>>
  /\ WaitForConsumer => \E c \in Caches : claim.uid \in pods[c]
  /\ ClaimChanges([claim EXCEPT !.state = "bound"])

ClaimFault ==
  /\ Disrupt /\ claim.state \in {"pending", "bound", "lost"}
  /\ \/ /\ "deleted" \in ClaimFaults /\ claim.uid < MaxClaims
        /\ ClaimChanges([claim EXCEPT !.state = "terminating"])
     \/ /\ "lost" \in ClaimFaults
        /\ ClaimChanges([claim EXCEPT !.state = "lost"])
     \/ /\ "altered" \in ClaimFaults
        /\ ClaimChanges([claim EXCEPT !.valid = FALSE])
     \/ /\ "prearmed" \in ClaimFaults /\ api[Owner].phase = "live" /\ claim.guard = "none"
        /\ ClaimChanges([claim EXCEPT !.guard = "pre"])

ClaimRestored ==
  /\ ~claim.valid /\ UNCHANGED <<budget, scenario>>
  /\ ClaimChanges([claim EXCEPT !.valid = TRUE])

(* A terminating claim stays while a Pod mounts it. *)
Mounted(u) ==
  \/ \E c \in Caches : u \in pods[c]
  \/ \E a \in Artifacts : users[a].claim = u

ClaimCollected ==
  /\ claim.state = "terminating" /\ ~Mounted(claim.uid) /\ UNCHANGED <<budget, scenario>>
  /\ ClaimChanges(NoClaim(claim.uid))

(* An artifact: its object exists, it has resolved its storage from the API    *)
(* server (resolveArtifactStorage), it has recorded the location and imports   *)
(* or serves, it is gone.                                                     *)
ArtifactMoves(a, state, u) ==
  /\ Prompt
  /\ users' = [users EXCEPT ![a] = [state |-> state, claim |-> u]]
  /\ UNCHANGED <<controllerVars, clusterVars, probed, removed>>

ArtifactCreated(a) ==
  /\ users[a].state = "absent" /\ UNCHANGED <<budget, scenario>>
  /\ ArtifactMoves(a, "named", 0)

ArtifactResolves(a) ==
  /\ users[a].state = "named" /\ UNCHANGED <<budget, scenario>>
  /\ claim.state = "bound" /\ claim.guard = "none"
  /\ Via[a] # None =>
       LET c == api[Via[a]] IN c.phase = "live" /\ c.ready /\ c.claim = claim.uid
  /\ ArtifactMoves(a, "resolved", claim.uid)

ArtifactLocates(a) ==
  /\ users[a].state = "resolved" /\ UNCHANGED <<budget, scenario>>
  /\ ArtifactMoves(a, "located", users[a].claim)

ArtifactDeleted(a) ==
  /\ users[a].state \in {"named", "located"} /\ UNCHANGED <<budget, scenario>>
  /\ ArtifactMoves(a, "absent", 0)

(* Time: the retry delay, the probe interval, the quiescence period.  A pass is  *)
(* short against the last two, and informers lag less than the quiescence      *)
(* period: it ends between passes, with every earlier change visible.          *)
Aged(rec) == [rec EXCEPT !.fresh = FALSE, !.fullFresh = FALSE]
Older(rec) == [rec EXCEPT !.probe = CASE rec.probe = "fresh" -> "stale"
                                      [] rec.probe = "stale" -> "old"
                                      [] OTHER               -> rec.probe]

TimePasses(Age(_)) ==
  /\ api' = [c \in Caches |-> Age(api[c])]
  /\ cached' = [c \in Caches |-> Age(cached[c])]
  /\ pass' = [pass EXCEPT !.obj = Age(@), !.want = Age(@)]
  /\ Prompt /\ <<api, cached, pass>> # <<api', cached', pass'>>
  /\ UNCHANGED <<queued, clusterVars, worldVars>>

DelayElapses == "retry" \in Delays /\ TimePasses(Aged)
ProbeAges    == "interval" \in Delays /\ At("idle") /\ TimePasses(Older)

QuiescenceElapses ==
  /\ claim.guard = "set" /\ ~claim.quiet /\ At("idle") /\ Synced({}, {})
  /\ claim' = [claim EXCEPT !.quiet = TRUE] /\ claimView' = claim'
  /\ UNCHANGED <<controllerVars, probes, view, pods, worldVars>>

ManagerRestarts ==
  /\ Prompt /\ Disrupt /\ pass # Idle
  /\ pass' = Idle /\ cached' = api /\ claimView' = claim /\ view' = probes
  /\ queued' = {c \in Caches : api[c].phase \in {"live", "deleting"}}
  /\ UNCHANGED <<api, claim, probes, pods, users, probed, removed>>

ProbeEnds(c) == \E u \in Claims : ProbeSucceeds(c, u) \/ ProbeFails(c, u)
PodsStop(c)  == \E u \in Claims : PodStops(c, u)

Environment ==
  \/ \E c \in Caches :
       \/ CacheCreated(c) \/ UserDeletes(c) \/ ProbeCollected(c)
       \/ ProbeEnds(c) \/ PodsStop(c) \/ \E u \in Claims : ResultLost(c, u)
  \/ PolicyChanges \/ ClaimBinds \/ ClaimFault \/ ClaimRestored \/ ClaimCollected
  \/ \E a \in Artifacts :
       ArtifactCreated(a) \/ ArtifactResolves(a) \/ ArtifactLocates(a) \/ ArtifactDeleted(a)
  \/ DelayElapses \/ ProbeAges \/ QuiescenceElapses \/ ManagerRestarts

Next == InformerSync \/ (\E c \in Caches : Reconcile(c)) \/ PassStep \/ Environment

Spec == Init /\ [][Next]_vars

(* The worker and its queue run; informers, probe Pods, volumes, garbage       *)
(* collection and time make progress.                                         *)
Fair(A)    == scenario.progress /\ A
Some(A(_)) == scenario.progress /\ \E c \in Caches : A(c)

Fairness ==
  /\ WF_vars(Fair(PassStep)) /\ SF_vars(Some(Reconcile))
  /\ WF_vars(Fair(ClaimSync)) /\ WF_vars(Some(CacheSync)) /\ WF_vars(Some(ProbeSync))
  /\ WF_vars(Some(ProbeEnds)) /\ WF_vars(Some(PodsStop)) /\ WF_vars(Some(ProbeCollected))
  /\ WF_vars(Fair(ClaimBinds)) /\ WF_vars(Fair(ClaimCollected))
  /\ WF_vars(Fair(DelayElapses)) /\ SF_vars(Fair(QuiescenceElapses))

FairSpec == Spec /\ Fairness

(***************************************************************************)
(* Properties.                                                             *)
(***************************************************************************)
(* Nobody uses a claim whose deletion the controller has requested, although   *)
(* references and caches appear at any time around the guard, the wait and the *)
(* last checks, and informers lag (reconcileDelete): no cache that exists has  *)
(* a probe Pod on it, nor Owner one that it left behind; no cache is Ready     *)
(* with it; no artifact has resolved it.  A Pod of another cache that is       *)
(* finalized already is excepted: that cache lists its Jobs from the informer, *)
(* which may miss the last one, and managedClaimDeletionBlocked lists no Pods. *)
DeletedClaimUnused ==
  claim.uid \in removed =>
    /\ \A c \in Caches : c = Owner \/ api[c].phase # "gone" => claim.uid \notin pods[c]
    /\ \A c \in Caches : api[c].phase = "live" => ~(api[c].ready /\ api[c].claim = claim.uid)
    /\ \A a \in Artifacts : users[a].claim # claim.uid

(* A claim is deleted by the controller only under the policy Delete, and a    *)
(* finalized cache leaves what its policy says: no claim, or an unguarded one  *)
(* (reconcileDelete, validateModelCacheUpdate).                                *)
RetentionHonoured ==
  /\ removed # {} => api[Owner].policy = "Delete"
  /\ api[Owner].phase = "gone" /\ api[Owner].policy = "Retain"
       => claim.state = "terminating" \/ claim.guard = "none"

(* An artifact that uses the claim through a cache uses a claim whose          *)
(* filesystem was probed, also when claims are replaced under the same name    *)
(* (desiredProbeResources, cacheStatusMatchesVolumeIdentity).                  *)
UsedClaimsAreProbed ==
  \A a \in Artifacts : Via[a] # None /\ users[a].claim # 0 => users[a].claim \in probed

Referenced(c) ==
  \/ \E a \in Artifacts : Exists(a)
  \/ \E d \in Caches \ {c} : api[d].phase \in {"live", "deleting"}

(* Caches settle again and again, after probes that failed, found the volume   *)
(* full or lost their result, and after the claim was deleted: a cache that is *)
(* not deleted becomes Ready (Reconcile, probeFailure) on a probe that is not  *)
(* older than maxCacheReadyStaleness (canPreserveCacheReady), and a deleted    *)
(* one is finalized unless something still refers to it or to its claim        *)
(* (reconcileDelete).  What needs a user (an unsupported filesystem, a lost or *)
(* altered claim) is not asked to settle.                                      *)
Settles ==
  scenario.progress =>
    []<>(\A c \in Caches : /\ api[c].phase = "live" => api[c].ready /\ api[c].probe # "old"
                           /\ api[c].phase = "deleting" => Referenced(c))
=============================================================================
