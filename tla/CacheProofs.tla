------------------------------ MODULE CacheProofs ------------------------------
(***************************************************************************)
(* Proofs about CacheController, for any number of caches, artifacts and      *)
(* claims, any lag of the informers and any faults: what an artifact reaches  *)
(* through a cache was probed, and the retention policy is honoured.          *)
(***************************************************************************)
EXTENDS CacheController, TLAPS

-----------------------------------------------------------------------------
(* The inductive invariant. *)

RecordFields == {"phase", "fin", "policy", "seen", "ready", "reason", "fresh", "fullFresh",
                 "claim", "named", "probe"}
ProbeFields  == {"config", "status", "result", "mounts", "deleting"}
ClaimFields  == {"uid", "state", "valid", "guard", "quiet"}
PassFields   == {"pc", "me", "obj", "claim", "job", "want", "again", "then"}

(* A record of a cache says Ready only of a claim that was probed. *)
Honest(r) ==
  /\ DOMAIN r = RecordFields
  /\ r.ready => r.claim \in probed
  /\ r.phase = "absent" => ~r.fin

(* What no status write changes. *)
Kin(r, s) == r.phase = s.phase /\ r.policy = s.policy /\ r.fin = s.fin

(* s is a later state of the cache than r: deletion and the policy it found   *)
(* are final, and the finalizer goes only with the object.                   *)
Before(r, s) ==
  /\ r.phase \in {"deleting", "gone"} => s.phase \in {"deleting", "gone"} /\ s.policy = r.policy
  /\ r.phase = "gone" => s.phase = "gone"
  /\ r.fin => s.fin \/ s.phase = "gone"

(* The Job named after claim n mounts n, and its success is one of n. *)
Proven(p, n) ==
  /\ DOMAIN p = ProbeFields
  /\ p.result = "ok" => n \in probed
  /\ p.status = "active" => p.mounts = n

Objects ==
  /\ DOMAIN api = Caches /\ DOMAIN cached = Caches
  /\ \A c \in Caches : Honest(api[c]) /\ Honest(cached[c]) /\ Before(cached[c], api[c])

JobsNamed(jobs) ==
  /\ DOMAIN jobs = Caches
  /\ \A c \in Caches : DOMAIN jobs[c] = Claims /\ \A n \in Claims : Proven(jobs[c][n], n)

ClaimOK ==
  /\ DOMAIN claim = ClaimFields /\ claim.uid \in Claims /\ claimView.uid \in Claims
  /\ claim.state = "none" => claim.guard = "none"

Users == DOMAIN users = Artifacts /\ UsedClaimsAreProbed

(* The claim keeps no guard, unless somebody else deletes it. *)
Unguarded == claim.state = "terminating" \/ claim.guard = "none"

(* The owner against its claim: without the finalizer there is none yet, it is *)
(* deleted during deletion under Delete, and left unguarded under Retain.      *)
Retained ==
  /\ api[Owner].phase # "absent"
  /\ api[Owner].phase = "live" /\ ~api[Owner].fin => claim.state = "none"
  /\ removed # {} => api[Owner].phase \in {"deleting", "gone"} /\ api[Owner].policy = "Delete"
  /\ api[Owner].phase = "gone" /\ api[Owner].policy = "Retain" => Unguarded

World ==
  /\ scenario \in Scenarios
  /\ Objects /\ JobsNamed(probes) /\ JobsNamed(view) /\ ClaimOK /\ Users /\ Retained

(* Steps of a pass by what it has established. *)
ProbingSteps  == {"probeConfig", "probeJob", "getJob"}
DeletingSteps == {"terminating", "probeJobs", "probeConfigs", "artifactRefs", "clearGuard"}
RemovingSteps == {"managedClaim", "guard", "otherCaches", "artifactClaims", "revalidate",
                  "deleteClaim"}

(* What a pass read, and may have been overtaken since. *)
Holds == me \in Caches /\ Honest(obj) /\ Before(obj, api[me])

WriteOK ==
  /\ Honest(pass.want) /\ Kin(pass.want, obj)
  /\ pass.then \in {"idle", "dropConfig", "probeJobs"}
  /\ pass.then = "probeJobs" => obj.phase = "deleting"

Stage ==
  /\ pass.pc = "status" => WriteOK
  /\ pass.pc = "addFinalizer" => obj.phase # "absent"
  /\ pass.pc = "ensureClaim" => obj.fin
  /\ pass.pc \in ProbingSteps => uid \in Claims
  /\ pass.pc = "probeResult" => (pass.job.result = "ok" => uid \in probed)
  /\ pass.pc \in DeletingSteps \cup RemovingSteps \cup {"finalize"} => obj.phase = "deleting"
  /\ pass.pc \in RemovingSteps => me = Owner /\ obj.policy = "Delete"
  /\ pass.pc = "guard" => pass.claim.state # "none"
  /\ pass.pc = "finalize" /\ me = Owner => obj.policy = "Delete" \/ Unguarded

PassOK == DOMAIN pass = PassFields /\ (pass.pc # "idle" => Holds /\ Stage)

CacheInv == World /\ PassOK

-----------------------------------------------------------------------------
(* Status values. *)

(* Whatever a failure is called, the record is not Ready and otherwise the same. *)
LEMMA NotReadyIsHonest ==
  ASSUME NEW r, DOMAIN r = RecordFields, r.phase = "absent" => ~r.fin, NEW reason
  PROVE  Honest(NotReady(r, reason)) /\ Kin(NotReady(r, reason), r)
<1> DEFINE v == NotReady(r, reason)
<1>1. DOMAIN v = RecordFields /\ v.ready = FALSE /\ v.phase = r.phase /\ v.fin = r.fin
      /\ v.policy = r.policy
  BY Zenon DEF NotReady, RecordFields
<1> HIDE DEF v
<1>2. Honest(v) /\ Kin(v, r)
  BY <1>1, Zenon DEF Honest, Kin
<1> QED BY <1>2, Zenon DEF v

(* cacheFailure *)
LEMMA FailureIsHonest ==
  ASSUME NEW r, DOMAIN r = RecordFields, r.phase = "absent" => ~r.fin, NEW condition, NEW reason
  PROVE  Honest(cacheFailure(r, condition, reason)) /\ Kin(cacheFailure(r, condition, reason), r)
<1> DEFINE v == NotReady(r, reason)
           w == cacheFailure(r, condition, reason)
<1>1. DOMAIN v = RecordFields /\ v.ready = FALSE /\ v.phase = r.phase /\ v.fin = r.fin
      /\ v.policy = r.policy
  BY Zenon DEF NotReady, RecordFields
<1>2. w = [v EXCEPT !.fullFresh = w.fullFresh]
  <2> HIDE DEF v
  <2>1. w = [v EXCEPT !.fullFresh = condition = "full" /\ (r.reason # "InsufficientStorage" \/ r.fullFresh)]
    BY Zenon DEF cacheFailure, v
  <2> QED BY <1>1, <2>1, Zenon DEF RecordFields
<1> HIDE DEF v, w
<1>3. DOMAIN w = RecordFields /\ w.ready = FALSE /\ w.phase = r.phase /\ w.fin = r.fin
      /\ w.policy = r.policy
  BY <1>1, <1>2, Zenon DEF RecordFields
<1>4. Honest(w) /\ Kin(w, r)
  BY <1>3, Zenon DEF Honest, Kin
<1> QED BY <1>4, Zenon DEF w

(* applyCacheIdentity and clearCacheStorageStatus keep what no status changes. *)
LEMMA IdentityIsKin ==
  ASSUME NEW r, DOMAIN r = RecordFields, NEW u
  PROVE  /\ DOMAIN applyCacheIdentity(r, u) = RecordFields /\ Kin(applyCacheIdentity(r, u), r)
         /\ DOMAIN clearCacheStorageStatus(r, u) = RecordFields
         /\ Kin(clearCacheStorageStatus(r, u), r)
  BY Zenon DEF applyCacheIdentity, clearCacheStorageStatus, Kin, RecordFields

(* A failure reported with the identity of the claim, or without. *)
LEMMA IdentifiedFailure ==
  ASSUME NEW r, Honest(r), NEW u, NEW condition, NEW reason,
         NEW s \in {applyCacheIdentity(r, u), clearCacheStorageStatus(r, u)}
  PROVE  Honest(cacheFailure(s, condition, reason)) /\ Kin(cacheFailure(s, condition, reason), r)
<1>1. DOMAIN s = RecordFields /\ Kin(s, r) /\ (s.phase = "absent" => ~s.fin)
  BY IdentityIsKin DEF Honest, Kin
<1>2. Honest(cacheFailure(s, condition, reason)) /\ Kin(cacheFailure(s, condition, reason), s)
  BY <1>1, FailureIsHonest, Zenon
<1> QED BY <1>1, <1>2, Zenon DEF Kin

(* updateClaimStatus *)
LEMMA ClaimStatusIsHonest ==
  ASSUME NEW r, Honest(r), NEW u, NEW identity, NEW reason
  PROVE  /\ Honest(updateClaimStatus(r, u, identity, reason))
         /\ Kin(updateClaimStatus(r, u, identity, reason), r)
<1> DEFINE s == IF identity /\ r.claim = u THEN applyCacheIdentity(r, u)
                ELSE clearCacheStorageStatus(r, u)
<1>1. DOMAIN s = RecordFields /\ Kin(s, r)
  BY IdentityIsKin, Zenon DEF Honest
<1>2. updateClaimStatus(r, u, identity, reason) = NotReady(s, reason)
  BY Zenon DEF updateClaimStatus
<1> HIDE DEF s
<1>3. s.phase = "absent" => ~s.fin
  BY <1>1, Zenon DEF Kin, Honest
<1>4. Honest(NotReady(s, reason)) /\ Kin(NotReady(s, reason), s)
  BY <1>1, <1>3, NotReadyIsHonest, Zenon
<1> QED BY <1>1, <1>2, <1>4, Zenon DEF Kin

(* Success makes Ready only the claim that was probed. *)
LEMMA SuccessIsHonest ==
  ASSUME NEW r, Honest(r), NEW u, u \in probed
  PROVE  Honest(ProbeSucceeded(r, u)) /\ Kin(ProbeSucceeded(r, u), r)
<1> DEFINE s == applyCacheIdentity(r, u)
           w == ProbeSucceeded(r, u)
<1>1. DOMAIN s = RecordFields /\ Kin(s, r) /\ s.claim = u
  BY IdentityIsKin, Zenon DEF Honest, applyCacheIdentity, RecordFields
<1>2. w = [s EXCEPT !.ready = TRUE, !.seen = TRUE, !.reason = "ProbeSucceeded", !.fresh = FALSE,
                    !.fullFresh = FALSE, !.probe = "fresh"]
  BY Zenon DEF ProbeSucceeded
<1> HIDE DEF s, w
<1>3. DOMAIN w = RecordFields /\ Kin(w, r) /\ w.claim = u
  BY <1>1, <1>2, Zenon DEF RecordFields, Kin
<1>4. Honest(w) /\ Kin(w, r)
  BY <1>3, Zenon DEF Honest, Kin
<1> QED BY <1>4, Zenon DEF w

-----------------------------------------------------------------------------
(* Frames: what a step that leaves most of the state alone has to show. *)

(* The circumstances are fixed. *)
LEMMA SameCircumstances ==
  ASSUME scenario' = scenario
  PROVE  Caches' = Caches /\ Claims' = Claims /\ Artifacts' = Artifacts /\ Via' = Via
  BY Zenon DEF Caches, Claims, MaxClaims, Artifacts, Via

(* A later record of the same cache may replace the later one. *)
LEMMA KinIsBefore ==
  ASSUME NEW r, NEW s, NEW t
  PROVE  /\ Before(r, r)
         /\ Before(r, s) /\ Kin(t, s) => Before(r, t)
         /\ Before(r, s) /\ Kin(t, r) => Before(t, s)
  BY Zenon DEF Before, Kin

(* Steps that write no object the invariant speaks of. *)
LEMMA WorldStays ==
  ASSUME World,
         UNCHANGED <<scenario, api, cached, claim, claimView, probes, view, users, probed, removed>>
  PROVE  World'
<1>1. scenario \in Scenarios /\ Objects /\ JobsNamed(probes) /\ JobsNamed(view) /\ ClaimOK /\ Users
      /\ Retained
  BY Zenon DEF World
<1>2. Objects'
  BY <1>1, SameCircumstances, Zenon DEF Objects, Honest
<1>3. JobsNamed(probes)' /\ JobsNamed(view)'
  BY <1>1, SameCircumstances DEF JobsNamed, Proven
<1>4. ClaimOK' /\ Retained'
  BY <1>1, SameCircumstances, Zenon DEF ClaimOK, Retained, Unguarded
<1>5. Users'
  BY <1>1, SameCircumstances, Zenon DEF Users, UsedClaimsAreProbed
<1> QED BY <1>1, <1>2, <1>3, <1>4, <1>5, Zenon DEF World

(* Steps that write probe Jobs or their informer copy. *)
LEMMA JobsChange ==
  ASSUME World, JobsNamed(probes)', JobsNamed(view)',
         UNCHANGED <<scenario, api, cached, claim, claimView, users, probed, removed>>
  PROVE  World'
<1>1. scenario \in Scenarios /\ Objects /\ ClaimOK /\ Users /\ Retained
  BY Zenon DEF World
<1>2. Objects'
  BY <1>1, SameCircumstances, Zenon DEF Objects, Honest
<1>4. ClaimOK' /\ Retained'
  BY <1>1, SameCircumstances, Zenon DEF ClaimOK, Retained, Unguarded
<1>5. Users'
  BY <1>1, SameCircumstances, Zenon DEF Users, UsedClaimsAreProbed
<1> QED BY <1>1, <1>2, <1>4, <1>5, Zenon DEF World

(* Steps that write the claim. *)
LEMMA ClaimChange ==
  ASSUME World, ClaimOK', Retained',
         UNCHANGED <<scenario, api, cached, probes, view, users, probed>>
  PROVE  World'
<1>1. scenario \in Scenarios /\ Objects /\ JobsNamed(probes) /\ JobsNamed(view) /\ Users
  BY Zenon DEF World
<1>2. Objects'
  BY <1>1, SameCircumstances, Zenon DEF Objects, Honest
<1>3. JobsNamed(probes)' /\ JobsNamed(view)'
  BY <1>1, SameCircumstances, Zenon DEF JobsNamed, Proven
<1>5. Users'
  BY <1>1, SameCircumstances, Zenon DEF Users, UsedClaimsAreProbed
<1> QED BY <1>1, <1>2, <1>3, <1>5, Zenon DEF World

(* Steps that write a cache or its informer copy. *)
LEMMA ObjectsChange ==
  ASSUME World, Objects', Retained',
         UNCHANGED <<scenario, claim, claimView, probes, view, users, probed>>
  PROVE  World'
<1>1. scenario \in Scenarios /\ JobsNamed(probes) /\ JobsNamed(view) /\ ClaimOK /\ Users
  BY Zenon DEF World
<1>3. JobsNamed(probes)' /\ JobsNamed(view)'
  BY <1>1, SameCircumstances DEF JobsNamed, Proven
<1>4. ClaimOK'
  BY <1>1, SameCircumstances, Zenon DEF ClaimOK
<1>5. Users'
  BY <1>1, SameCircumstances, Zenon DEF Users, UsedClaimsAreProbed
<1> QED BY <1>1, <1>3, <1>4, <1>5, Zenon DEF World

(* A pass that ended holds nothing. *)
LEMMA IdlePass == ASSUME pass' = Idle PROVE PassOK'
<1>1. DOMAIN Idle = PassFields /\ Idle.pc = "idle"
  BY Zenon DEF Idle, PassFields
<1> QED BY <1>1, Zenon DEF PassOK

(* A pass that goes on with the objects it read. *)
LEMMA PassGoesOn ==
  ASSUME Holds, DOMAIN pass' = PassFields, pass'.me = me, pass'.obj = obj,
         UNCHANGED <<scenario, api, probed>>, Stage'
  PROVE  PassOK'
<1>1. Holds'
  BY SameCircumstances, Zenon DEF Holds, Honest, me, obj
<1> QED BY <1>1, Zenon DEF PassOK

(* A pass that is about to write its status. *)
LEMMA PassWrites ==
  ASSUME Holds, DOMAIN pass = PassFields, NEW v, NEW again, NEW step,
         WriteThen(v, again, step), Honest(v), Kin(v, obj),
         step \in {"idle", "dropConfig", "probeJobs"},
         step = "probeJobs" => obj.phase = "deleting",
         UNCHANGED <<scenario, api, probed>>
  PROVE  PassOK'
<1>1. pass' = [pass EXCEPT !.pc = "status", !.want = v, !.again = again, !.then = step]
  BY Zenon DEF WriteThen
<1>2. /\ DOMAIN pass' = PassFields /\ pass'.me = me /\ pass'.obj = obj /\ pass'.pc = "status"
      /\ pass'.want = v /\ pass'.then = step
  BY <1>1, Zenon DEF PassFields, me, obj
<1>3. WriteOK'
  BY <1>2, Zenon DEF WriteOK, Honest, obj
<1>4. Stage'
  BY <1>2, <1>3, Zenon DEF Stage, ProbingSteps, DeletingSteps, RemovingSteps
<1> QED BY <1>2, <1>4, PassGoesOn, Zenon

(* A pass that reports and ends. *)
LEMMA PassReports ==
  ASSUME Holds, DOMAIN pass = PassFields, NEW v, NEW again, Report(v, again), Honest(v),
         Kin(v, obj), UNCHANGED <<scenario, api, probed>>
  PROVE  PassOK'
<1>1. WriteThen(v, again, "idle")
  BY Zenon DEF Report
<1> QED BY <1>1, PassWrites, Zenon

(* What the pass has where it stands. *)
LEMMA PassHolds ==
  ASSUME PassOK, NEW step, At(step), step # "idle"
  PROVE  Holds /\ Stage /\ pass.pc = step /\ DOMAIN pass = PassFields
  BY Zenon DEF PassOK, At

(* The Job of the pass, before and after it is written. *)
LEMMA ProbeWritten ==
  ASSUME World, NEW p, SetProbe(p), me \in Caches /\ uid \in Claims => Proven(p, uid),
         UNCHANGED <<scenario, view, probed>>
  PROVE  JobsNamed(probes)' /\ JobsNamed(view)'
<1>1. JobsNamed(probes) /\ JobsNamed(view)
  BY Zenon DEF World
<1>2. JobsNamed(view)'
  BY <1>1, SameCircumstances, Zenon DEF JobsNamed, Proven
<1>3. probes' = [probes EXCEPT ![me][uid] = p]
  BY Zenon DEF SetProbe, desiredProbeResources
<1>4. DOMAIN probes' = Caches /\ \A c \in Caches : DOMAIN probes'[c] = Claims
  BY <1>1, <1>3, Zenon DEF JobsNamed
<1>5. ASSUME NEW c \in Caches, NEW n \in Claims PROVE Proven(probes'[c][n], n)
  <2>1. probes'[c][n] = IF c = me /\ n = uid THEN p ELSE probes[c][n]
    BY <1>1, <1>3, Zenon DEF JobsNamed
  <2> QED BY <1>1, <2>1, Zenon DEF JobsNamed
<1>6. JobsNamed(probes)'
  BY <1>4, <1>5, SameCircumstances, Zenon DEF JobsNamed, Proven
<1> QED BY <1>2, <1>6, Zenon

(* What is known of the Job before. *)
LEMMA ProbeKnown ==
  ASSUME World, me \in Caches, uid \in Claims
  PROVE  Proven(Probe, uid) /\ Proven(ProbeView, uid)
<1>1. JobsNamed(probes) /\ JobsNamed(view)
  BY Zenon DEF World
<1> QED BY <1>1, Zenon DEF JobsNamed, Probe, ProbeView, desiredProbeResources

(* Jobs lose their configuration, are marked as deleted, or go. *)
LEMMA ProbeEdits ==
  ASSUME NEW p, NEW n, Proven(p, n), NEW b
  PROVE  /\ Proven([p EXCEPT !.config = b], n) /\ Proven([p EXCEPT !.deleting = b], n)
         /\ Proven(NoProbe, n) /\ Proven([NoProbe EXCEPT !.config = b], n)
         /\ Proven([p EXCEPT !.status = "active", !.mounts = n], n)
<1>1. Proven([p EXCEPT !.config = b], n)
  BY Zenon DEF Proven, ProbeFields
<1>2. Proven([p EXCEPT !.deleting = b], n)
  BY Zenon DEF Proven, ProbeFields
<1>3. Proven(NoProbe, n)
  BY Zenon DEF Proven, ProbeFields, NoProbe
<1>4. Proven([NoProbe EXCEPT !.config = b], n)
  BY Zenon DEF Proven, ProbeFields, NoProbe
<1>5. Proven([p EXCEPT !.status = "active", !.mounts = n], n)
  BY Zenon DEF Proven, ProbeFields
<1> QED BY <1>1, <1>2, <1>3, <1>4, <1>5, Zenon

-----------------------------------------------------------------------------
(* The pass: the cache and its claim. *)

(* Reconcile reads the cache from the informer. *)
LEMMA ReconcileOK ==
  ASSUME World, PassOK, NEW c \in Caches, Reconcile(c)
  PROVE  World' /\ PassOK'
<1>1. UNCHANGED <<scenario, api, cached, claim, claimView, probes, view, users, probed, removed>>
  BY Zenon DEF Reconcile, clusterVars, worldVars
<1>2. World'
  BY <1>1, WorldStays, Zenon
<1>3. CASE pass' = Idle
  BY <1>2, <1>3, IdlePass, Zenon
<1>4. CASE pass' # Idle
  <2>1. \/ cached[c].phase = "deleting"
           /\ pass' = [Idle EXCEPT !.pc = "terminating", !.me = c, !.obj = cached[c]]
        \/ cached[c].phase # "absent"
           /\ pass' = [Idle EXCEPT !.pc = "addFinalizer", !.me = c, !.obj = cached[c]]
        \/ cached[c].fin
           /\ pass' = [Idle EXCEPT !.pc = "ensureClaim", !.me = c, !.obj = cached[c]]
    BY <1>4, Zenon DEF Reconcile
  <2>2. /\ DOMAIN pass' = PassFields /\ pass'.me = c /\ pass'.obj = cached[c]
        /\ pass'.pc \in {"terminating", "addFinalizer", "ensureClaim"}
        /\ pass'.pc = "terminating" => cached[c].phase = "deleting"
        /\ pass'.pc = "addFinalizer" => cached[c].phase # "absent"
        /\ pass'.pc = "ensureClaim" => cached[c].fin
    <3> DEFINE next(step) == [Idle EXCEPT !.pc = step, !.me = c, !.obj = cached[c]]
    <3>1. ASSUME NEW step
          PROVE  /\ DOMAIN next(step) = PassFields /\ next(step).me = c
                 /\ next(step).obj = cached[c] /\ next(step).pc = step
      BY Zenon DEF Idle, PassFields
    <3> HIDE DEF next
    <3>2. \/ cached[c].phase = "deleting" /\ pass' = next("terminating")
          \/ cached[c].phase # "absent" /\ pass' = next("addFinalizer")
          \/ cached[c].fin /\ pass' = next("ensureClaim")
      BY <2>1, Zenon DEF next
    <3> QED BY <3>1, <3>2
  <2>3. Honest(cached[c]) /\ Before(cached[c], api[c])
    BY Zenon DEF World, Objects
  <2>4. Holds'
    BY <1>1, <2>2, <2>3, SameCircumstances, Zenon DEF Holds, Honest, me, obj
  <2>5. Stage'
    BY <2>2, Zenon DEF Stage, ProbingSteps, DeletingSteps, RemovingSteps, obj
  <2> QED BY <1>2, <2>2, <2>4, <2>5, Zenon DEF PassOK
<1> QED BY <1>3, <1>4, Zenon

(* An update of one cache that keeps the relations of its record. *)
LEMMA ObjectWritten ==
  ASSUME World, NEW c \in Caches, NEW v, Honest(v), Before(api[c], v),
         api' = [api EXCEPT ![c] = v], UNCHANGED <<scenario, cached, probed>>
  PROVE  Objects'
<1>1. Objects
  BY Zenon DEF World
<1>2. DOMAIN api' = Caches /\ \A d \in Caches : api'[d] = IF d = c THEN v ELSE api[d]
  BY <1>1, Zenon DEF Objects
<1>3. ASSUME NEW d \in Caches PROVE Honest(api'[d]) /\ Before(cached[d], api'[d])
  BY <1>1, <1>2, Zenon DEF Objects, Before
<1> QED BY <1>1, <1>2, <1>3, SameCircumstances, Zenon DEF Objects, Honest

(* The update without a change. *)
LEMMA ObjectKept ==
  ASSUME World, UNCHANGED <<scenario, api, cached, probed>>
  PROVE  Objects'
<1>1. Objects
  BY Zenon DEF World
<1> QED BY <1>1, SameCircumstances, Zenon DEF Objects, Honest

(* The owner is one of the caches. *)
LEMMA OwnerKnown == ASSUME World PROVE Owner \in Caches /\ MaxClaims \in Nat
  BY CacheAssumption, Zenon DEF World, Caches, MaxClaims

(* Owner's record keeps its phase, its policy and its finalizer. *)
LEMMA OwnerKin ==
  ASSUME World, Kin(api'[Owner], api[Owner]), UNCHANGED <<claim, removed>>
  PROVE  Retained'
<1>1. Retained
  BY Zenon DEF World
<1> QED BY <1>1, Zenon DEF Retained, Kin, Unguarded

(* AddFinalizer *)
LEMMA AddFinalizerOK ==
  ASSUME World, PassOK, AddFinalizer
  PROVE  World' /\ PassOK'
<1>1. /\ UNCHANGED <<scenario, cached, claim, claimView, probes, view, users, probed, removed>>
      /\ pass' = Idle /\ Holds /\ obj.phase # "absent"
      /\ api' = IF Conflict THEN api ELSE [api EXCEPT ![me].fin = TRUE]
  BY PassHolds, Zenon DEF AddFinalizer, Stage, Done, clusterVars, worldVars
<1>2. PassOK'
  BY <1>1, IdlePass, Zenon
<1>3. CASE api' = api
  BY <1>1, <1>2, <1>3, WorldStays, Zenon
<1>4. CASE api' # api
  <2>1. Objects /\ Retained /\ me \in Caches /\ Owner \in Caches
    BY <1>1, OwnerKnown, Zenon DEF World, Holds
  <2> DEFINE v == [api[me] EXCEPT !.fin = TRUE]
  <2>2. api' = [api EXCEPT ![me] = v]
    BY <1>1, <1>4, Zenon
  <2>3. Honest(api[me]) /\ DOMAIN api[me] = RecordFields
    BY <2>1, Zenon DEF Objects, Honest
  <2>4. /\ DOMAIN v = RecordFields /\ v.fin = TRUE /\ v.phase = api[me].phase
        /\ v.policy = api[me].policy /\ v.ready = api[me].ready /\ v.claim = api[me].claim
    BY <2>3, Zenon DEF RecordFields
  <2> HIDE DEF v
  <2>5. api[me].phase # "absent"
    BY <1>1, <1>4, Zenon DEF Conflict
  <2>6. Honest(v) /\ Before(api[me], v)
    BY <2>3, <2>4, <2>5, Zenon DEF Honest, Before
  <2>7. Objects'
    BY <1>1, <2>1, <2>2, <2>6, ObjectWritten, Zenon
  <2>8. Retained'
    BY <1>1, <2>1, <2>2, <2>4 DEF Retained, Unguarded, Objects
  <2> QED BY <1>1, <1>2, <2>7, <2>8, ObjectsChange, Zenon
<1> QED BY <1>2, <1>3, <1>4, Zenon

(* WriteStatus *)
LEMMA WriteStatusOK ==
  ASSUME World, PassOK, WriteStatus
  PROVE  World' /\ PassOK'
<1>1. /\ UNCHANGED <<scenario, cached, claim, claimView, probes, view, users, probed, removed>>
      /\ Holds /\ WriteOK /\ pass.pc = "status" /\ DOMAIN pass = PassFields
  BY PassHolds, Zenon DEF WriteStatus, Stage, clusterVars, worldVars
<1>2. Objects /\ me \in Caches /\ Owner \in Caches
  BY <1>1, OwnerKnown, Zenon DEF World, Holds
<1>3. CASE api' = api
  <2>1. World'
    BY <1>1, <1>3, WorldStays, Zenon
  <2>2. CASE pass' = Idle
    BY <2>1, <2>2, IdlePass, Zenon
  <2>3. CASE pass' # Idle
    <3>1. /\ pass' = [pass EXCEPT !.pc = pass.then, !.obj = pass.want]
          /\ pass.then \in {"dropConfig", "probeJobs"}
      BY <1>1, <2>3, Zenon DEF WriteStatus, Done, WriteOK
    <3>2. /\ DOMAIN pass' = PassFields /\ pass'.me = me /\ pass'.obj = pass.want
          /\ pass'.pc = pass.then
      BY <1>1, <3>1, Zenon DEF PassFields, me
    <3>3. Before(pass.want, api[me])
      BY <1>1, KinIsBefore, Zenon DEF WriteOK, Holds
    <3>4. Holds'
      BY <1>1, <1>3, <3>2, <3>3, SameCircumstances, Zenon DEF Holds, WriteOK, Honest, me, obj
    <3>5. Stage'
      BY <1>1, <3>1, <3>2, Zenon DEF Stage, ProbingSteps, DeletingSteps, RemovingSteps, WriteOK, Kin, obj
    <3> QED BY <2>1, <3>2, <3>4, <3>5, Zenon DEF PassOK
  <2> QED BY <2>2, <2>3, Zenon
<1>4. CASE api' # api
  <2>1. api' = [api EXCEPT ![me] = pass.want] /\ api[me] = obj
    BY <1>4, Zenon DEF WriteStatus, Conflict
  <2>2. Honest(pass.want) /\ Kin(pass.want, api[me]) /\ Before(api[me], pass.want)
    BY <1>1, <2>1, KinIsBefore, Zenon DEF WriteOK
  <2>3. Objects'
    BY <1>1, <1>2, <2>1, <2>2, ObjectWritten, Zenon
  <2>4. Kin(api'[Owner], api[Owner]) /\ api'[me] = pass.want
    BY <1>2, <2>1, <2>2, Zenon DEF Kin, Objects
  <2>5. World'
    BY <1>1, <2>3, <2>4, OwnerKin, ObjectsChange, Zenon
  <2>6. CASE pass' = Idle
    BY <2>5, <2>6, IdlePass, Zenon
  <2>7. CASE pass' # Idle
    <3>1. /\ pass' = [pass EXCEPT !.pc = pass.then, !.obj = pass.want]
          /\ pass.then \in {"dropConfig", "probeJobs"}
      BY <1>1, <2>7, Zenon DEF WriteStatus, Done, WriteOK
    <3>2. /\ DOMAIN pass' = PassFields /\ pass'.me = me /\ pass'.obj = pass.want
          /\ pass'.pc = pass.then
      BY <1>1, <3>1, Zenon DEF PassFields, me
    <3>3. Before(pass.want, api'[me])
      BY <2>4, KinIsBefore, Zenon
    <3>4. Holds'
      BY <1>1, <3>2, <3>3, SameCircumstances, Zenon DEF Holds, WriteOK, Honest, me, obj
    <3>5. Stage'
      BY <1>1, <3>1, <3>2, Zenon DEF Stage, ProbingSteps, DeletingSteps, RemovingSteps, WriteOK, Kin, obj
    <3> QED BY <2>5, <3>2, <3>4, <3>5, Zenon DEF PassOK
  <2> QED BY <2>6, <2>7, Zenon
<1> QED BY <1>3, <1>4, Zenon

(* ensureClaim: a claim appears only while the owner has its finalizer. *)
LEMMA ensureClaimOK ==
  ASSUME World, PassOK, ensureClaim
  PROVE  World' /\ PassOK'
<1>1. /\ UNCHANGED <<scenario, api, cached, claimView, probes, view, users, probed, removed>>
      /\ Holds /\ obj.fin /\ DOMAIN pass = PassFields
      /\ pass' = [pass EXCEPT !.pc = "readClaim"]
  BY PassHolds, Zenon DEF ensureClaim, Goto, Stage, clusterVars, worldVars
<1>2. ClaimOK /\ Retained /\ Owner \in Caches /\ MaxClaims \in Nat
  BY OwnerKnown, Zenon DEF World
<1>3. /\ DOMAIN pass' = PassFields /\ pass'.me = me /\ pass'.obj = obj /\ pass'.pc = "readClaim"
  BY <1>1, Zenon DEF PassFields, me, obj
<1>4. PassOK'
  <2>1. Stage'
    BY <1>3, Zenon DEF Stage, ProbingSteps, DeletingSteps, RemovingSteps
  <2> QED BY <1>1, <1>3, <2>1, PassGoesOn, Zenon
<1>5. CASE claim' = claim
  BY <1>1, <1>4, <1>5, WorldStays, Zenon
<1>6. CASE claim' # claim
  <2>1. /\ claim' = [NoClaim(claim.uid + 1) EXCEPT !.state = "pending"] /\ me = Owner
        /\ claim.uid < MaxClaims
    BY <1>6, Zenon DEF ensureClaim
  <2>2. claim.uid \in Nat /\ claim.uid + 1 \in Claims /\ claimView.uid \in Claims
    BY <1>2, <2>1 DEF ClaimOK, Claims
  <2>3. DOMAIN claim' = ClaimFields /\ claim'.uid = claim.uid + 1 /\ claim'.guard = "none"
        /\ claim'.state = "pending"
    BY <2>1, Zenon DEF NoClaim, ClaimFields
  <2>4. ClaimOK'
    BY <1>1, <2>2, <2>3, SameCircumstances, Zenon DEF ClaimOK
  <2>5. api[Owner].fin \/ api[Owner].phase = "gone"
    BY <1>1, <2>1, Zenon DEF Holds, Before
  <2>6. Retained'
    BY <1>1, <1>2, <2>3, <2>5, Zenon DEF Retained, Unguarded
  <2> QED BY <1>1, <1>4, <2>4, <2>6, ClaimChange, Zenon
<1> QED BY <1>5, <1>6, Zenon

(* A pass that changes nothing but itself. *)
LEMMA OnlyPass ==
  ASSUME World, UNCHANGED <<api, cached, clusterVars, worldVars>>
  PROVE  World' /\ UNCHANGED <<scenario, api, probed, claim>>
<1>1. UNCHANGED <<scenario, api, cached, claim, claimView, probes, view, users, probed, removed>>
  BY Zenon DEF clusterVars, worldVars
<1> QED BY <1>1, WorldStays, Zenon

(* ReadClaim *)
LEMMA ReadClaimOK ==
  ASSUME World, PassOK, ReadClaim
  PROVE  World' /\ PassOK'
<1>1. World' /\ UNCHANGED <<scenario, api, probed>>
  BY OnlyPass, Zenon DEF ReadClaim
<1>2. Holds /\ DOMAIN pass = PassFields /\ Honest(obj) /\ ClaimOK
  BY PassHolds, Zenon DEF ReadClaim, World, Holds
<1> DEFINE why == ClaimProblem(claimView)
<1>3. CASE why \in {"ClaimNotFound", "ClaimIdentityConflict"}
  <2> DEFINE v == cacheFailure(clearCacheStorageStatus(obj, 0), "unavailable", why)
  <2>1. Report(v, why = "ClaimNotFound")
    BY <1>3, Zenon DEF ReadClaim
  <2>2. Honest(v) /\ Kin(v, obj)
    BY <1>2, IdentifiedFailure, Zenon
  <2> HIDE DEF v
  <2> QED BY <1>1, <1>2, <2>1, <2>2, PassReports, Zenon
<1>4. CASE why \notin {"ClaimNotFound", "ClaimIdentityConflict", "none"}
  <2> DEFINE v == updateClaimStatus(obj, claimView.uid, FALSE, why)
  <2>1. Report(v, TRUE)
    BY <1>4, Zenon DEF ReadClaim
  <2>2. Honest(v) /\ Kin(v, obj)
    BY <1>2, ClaimStatusIsHonest, Zenon
  <2> HIDE DEF v
  <2> QED BY <1>1, <1>2, <2>1, <2>2, PassReports, Zenon
<1>5. CASE why = "none"
  <2>1. \E step \in {"freshReady", "probeConfig"} :
          pass' = [pass EXCEPT !.claim = claimView, !.pc = step]
    BY <1>5, Zenon DEF ReadClaim
  <2>2. /\ DOMAIN pass' = PassFields /\ pass'.me = me /\ pass'.obj = obj
        /\ pass'.pc \in {"freshReady", "probeConfig"} /\ pass'.claim = claimView
    BY <1>2, <2>1, Zenon DEF PassFields, me, obj
  <2>3. Stage'
    BY <1>1, <1>2, <2>2, SameCircumstances, Zenon
    DEF Stage, ProbingSteps, DeletingSteps, RemovingSteps, uid, ClaimOK
  <2> QED BY <1>1, <1>2, <2>2, <2>3, PassGoesOn, Zenon
<1> QED BY <1>3, <1>4, <1>5, Zenon

-----------------------------------------------------------------------------
(* The pass: the probe. *)

(* Steps at which a pass relies on nothing but the objects it read. *)
PlainSteps == {"freshDrop", "dropJob", "retryJob", "retryConfig", "restartConsumer"}

(* Goto: what the next step relies on must hold. *)
LEMMA PassMoves ==
  ASSUME Holds, DOMAIN pass = PassFields, NEW step, Goto(step),
         \/ step \in PlainSteps
         \/ step \in ProbingSteps /\ uid \in Claims
         \/ step \in DeletingSteps /\ obj.phase = "deleting"
         \/ step \in RemovingSteps \ {"guard"} /\ obj.phase = "deleting" /\ me = Owner
            /\ obj.policy = "Delete"
         \/ step = "finalize" /\ obj.phase = "deleting" /\ (me # Owner \/ obj.policy = "Delete"),
         UNCHANGED <<scenario, api, probed>>
  PROVE  PassOK'
<1>1. pass' = [pass EXCEPT !.pc = step]
  BY Zenon DEF Goto
<1>2. /\ DOMAIN pass' = PassFields /\ pass'.me = me /\ pass'.obj = obj /\ pass'.pc = step
      /\ pass'.claim = pass.claim
  BY <1>1, Zenon DEF PassFields, me, obj
<1>3. Stage'
  BY <1>2, SameCircumstances, Zenon
  DEF Stage, PlainSteps, ProbingSteps, DeletingSteps, RemovingSteps, uid, me, obj
<1> QED BY <1>2, <1>3, PassGoesOn, Zenon

(* Done *)
LEMMA PassEnds == ASSUME NEW again, Done(again) PROVE PassOK'
  BY IdlePass, Zenon DEF Done

(* ProbeUnavailable: readiness is kept, or the status says why not. *)
LEMMA UnavailableOK ==
  ASSUME Holds, DOMAIN pass = PassFields, NEW reason, ProbeUnavailable(reason),
         UNCHANGED <<scenario, api, probed>>
  PROVE  PassOK'
<1> DEFINE v == updateClaimStatus(obj, uid, pass.claim.state = "bound", reason)
<1>1. Done(TRUE) \/ Report(v, TRUE)
  BY Zenon DEF ProbeUnavailable
<1>2. Honest(v) /\ Kin(v, obj)
  BY ClaimStatusIsHonest, Zenon DEF Holds
<1> HIDE DEF v
<1>3. CASE Done(TRUE)
  BY <1>3, PassEnds, Zenon
<1>4. CASE Report(v, TRUE)
  BY <1>2, <1>4, PassReports, Zenon
<1> QED BY <1>1, <1>3, <1>4, Zenon

(* A step that writes the Job of the pass, or none. *)
LEMMA ProbeStep ==
  ASSUME World, UNCHANGED <<api, cached, claim, claimView, view, worldVars>>,
         \/ probes' = probes
         \/ \E p : SetProbe(p) /\ (me \in Caches /\ uid \in Claims => Proven(p, uid))
  PROVE  World' /\ UNCHANGED <<scenario, api, probed>>
<1>1. UNCHANGED <<scenario, api, cached, claim, claimView, view, users, probed, removed>>
  BY Zenon DEF worldVars
<1>2. CASE probes' = probes
  BY <1>1, <1>2, WorldStays, Zenon
<1>3. CASE \E p : SetProbe(p) /\ (me \in Caches /\ uid \in Claims => Proven(p, uid))
  <2>1. PICK p : SetProbe(p) /\ (me \in Caches /\ uid \in Claims => Proven(p, uid))
    BY <1>3, Zenon
  <2>2. JobsNamed(probes)' /\ JobsNamed(view)'
    BY <1>1, <2>1, ProbeWritten, Zenon
  <2> QED BY <1>1, <2>2, JobsChange, Zenon
<1> QED BY <1>2, <1>3, Zenon

(* The Jobs that steps write are as good as those they found. *)
LEMMA EditedProbe ==
  ASSUME World, NEW b
  PROVE  me \in Caches /\ uid \in Claims =>
           /\ Proven(Probe, uid) /\ Proven([Probe EXCEPT !.config = b], uid)
           /\ Proven([Probe EXCEPT !.deleting = b], uid)
           /\ Proven(NoProbe, uid) /\ Proven([NoProbe EXCEPT !.config = b], uid)
           /\ Proven([Probe EXCEPT !.status = "active", !.mounts = uid], uid)
<1> SUFFICES ASSUME me \in Caches, uid \in Claims
             PROVE  /\ Proven(Probe, uid) /\ Proven([Probe EXCEPT !.config = b], uid)
                    /\ Proven([Probe EXCEPT !.deleting = b], uid)
                    /\ Proven(NoProbe, uid) /\ Proven([NoProbe EXCEPT !.config = b], uid)
                    /\ Proven([Probe EXCEPT !.status = "active", !.mounts = uid], uid)
  OBVIOUS
<1>1. Proven(Probe, uid)
  BY ProbeKnown, Zenon
<1> QED BY <1>1, ProbeEdits, Zenon

(* reconcileFreshReady *)
LEMMA reconcileFreshReadyOK ==
  ASSUME World, PassOK, reconcileFreshReady
  PROVE  World' /\ PassOK'
<1>1. Holds /\ DOMAIN pass = PassFields
  BY PassHolds, Zenon DEF reconcileFreshReady
<1>2. \/ Done(TRUE) /\ probes' = probes
      \/ SetProbe([Probe EXCEPT !.config = FALSE]) /\ (Done(TRUE) \/ Goto("freshDrop"))
  BY Zenon DEF reconcileFreshReady
<1>3. \/ probes' = probes
      \/ \E p : SetProbe(p) /\ (me \in Caches /\ uid \in Claims => Proven(p, uid))
  BY <1>2, EditedProbe, Zenon
<1>4. World' /\ UNCHANGED <<scenario, api, probed>>
  BY <1>3, ProbeStep, Zenon DEF reconcileFreshReady
<1>5. Done(TRUE) \/ Goto("freshDrop")
  BY <1>2, Zenon
<1>6. PassOK'
  BY <1>1, <1>4, <1>5, PassEnds, PassMoves, Zenon DEF PlainSteps
<1> QED BY <1>4, <1>6, Zenon

(* cleanupCompletedProbeResources *)
LEMMA cleanupCompletedOK ==
  ASSUME World, PassOK, cleanupCompletedProbeResources
  PROVE  World' /\ PassOK'
<1>1. SetProbe(NoProbe) \/ SetProbe(Probe)
  BY Zenon DEF cleanupCompletedProbeResources
<1>2. \E p : SetProbe(p) /\ (me \in Caches /\ uid \in Claims => Proven(p, uid))
  BY <1>1, EditedProbe, Zenon
<1>3. World'
  BY <1>2, ProbeStep, Zenon DEF cleanupCompletedProbeResources
<1> QED BY <1>3, PassEnds, Zenon DEF cleanupCompletedProbeResources

(* ensureProbeResources: the ConfigMap. *)
LEMMA EnsureProbeConfigOK ==
  ASSUME World, PassOK, EnsureProbeConfig
  PROVE  World' /\ PassOK'
<1>1. Holds /\ DOMAIN pass = PassFields /\ uid \in Claims
  BY PassHolds, Zenon DEF EnsureProbeConfig, Stage, ProbingSteps
<1>2. \/ ProbeUnavailable("ProbeReconcileFailed") /\ probes' = probes
      \/ SetProbe([Probe EXCEPT !.config = TRUE]) /\ Goto("probeJob")
  BY Zenon DEF EnsureProbeConfig
<1>3. \/ probes' = probes
      \/ \E p : SetProbe(p) /\ (me \in Caches /\ uid \in Claims => Proven(p, uid))
  BY <1>2, EditedProbe, Zenon
<1>4. World' /\ UNCHANGED <<scenario, api, probed>>
  BY <1>3, ProbeStep, Zenon DEF EnsureProbeConfig
<1>5. PassOK'
  BY <1>1, <1>2, <1>4, UnavailableOK, PassMoves, Zenon DEF ProbingSteps
<1> QED BY <1>4, <1>5, Zenon

(* ensureProbeResources: the Job mounts the claim it is named after. *)
LEMMA EnsureProbeJobOK ==
  ASSUME World, PassOK, EnsureProbeJob
  PROVE  World' /\ PassOK'
<1>1. Holds /\ DOMAIN pass = PassFields /\ uid \in Claims
  BY PassHolds, Zenon DEF EnsureProbeJob, Stage, ProbingSteps
<1>2. /\ \/ probes' = probes
         \/ SetProbe([Probe EXCEPT !.status = "active", !.mounts = uid])
      /\ ProbeUnavailable("ProbeReconcileFailed") \/ Goto("getJob")
  BY Zenon DEF EnsureProbeJob
<1>3. \/ probes' = probes
      \/ \E p : SetProbe(p) /\ (me \in Caches /\ uid \in Claims => Proven(p, uid))
  BY <1>2, EditedProbe, Zenon
<1>4. World' /\ UNCHANGED <<scenario, api, probed>>
  BY <1>3, ProbeStep, Zenon DEF EnsureProbeJob
<1>5. PassOK'
  BY <1>1, <1>2, <1>4, UnavailableOK, PassMoves, Zenon DEF ProbingSteps
<1> QED BY <1>4, <1>5, Zenon

(* A Job the pass keeps for the next step. *)
LEMMA JobKept ==
  ASSUME Holds, DOMAIN pass = PassFields, NEW step, NEW p,
         pass' = [pass EXCEPT !.pc = step, !.job = p],
         \/ step = "restartConsumer"
         \/ step = "probeResult" /\ Proven(p, uid),
         UNCHANGED <<scenario, api, probed>>
  PROVE  PassOK'
<1>1. /\ DOMAIN pass' = PassFields /\ pass'.me = me /\ pass'.obj = obj /\ pass'.pc = step
      /\ pass'.claim = pass.claim /\ pass'.job = p
  BY Zenon DEF PassFields, me, obj
<1>2. Stage'
  BY <1>1 DEF Stage, ProbingSteps, DeletingSteps, RemovingSteps, uid, Proven
<1> QED BY <1>1, <1>2, PassGoesOn, Zenon

(* The Job is read from the informer. *)
LEMMA GetProbeJobOK ==
  ASSUME World, PassOK, GetProbeJob
  PROVE  World' /\ PassOK'
<1>1. Holds /\ DOMAIN pass = PassFields /\ uid \in Claims /\ me \in Caches /\ Honest(obj)
  BY PassHolds, Zenon DEF GetProbeJob, Stage, ProbingSteps, Holds
<1>2. World' /\ UNCHANGED <<scenario, api, probed>>
  BY OnlyPass, Zenon DEF GetProbeJob
<1>3. Proven(ProbeView, uid)
  BY <1>1, ProbeKnown, Zenon
<1> DEFINE v == updateClaimStatus(obj, uid, FALSE, "ClaimPending")
<1>4. \/ ProbeUnavailable("ProbeReconcileFailed")
      \/ pass' = [pass EXCEPT !.pc = "restartConsumer", !.job = ProbeView]
      \/ Report(v, TRUE)
      \/ ProbeUnavailable("ProbeRunning")
      \/ pass' = [pass EXCEPT !.pc = "probeResult", !.job = ProbeView]
  BY Zenon DEF GetProbeJob
<1>5. Honest(v) /\ Kin(v, obj)
  BY <1>1, ClaimStatusIsHonest, Zenon
<1> HIDE DEF v
<1>6. PassOK'
  BY <1>1, <1>2, <1>3, <1>4, <1>5, UnavailableOK, JobKept, PassReports, Zenon
<1> QED BY <1>2, <1>6, Zenon

(* RestartConsumer *)
LEMMA RestartConsumerOK ==
  ASSUME World, PassOK, RestartConsumer
  PROVE  World' /\ PassOK'
<1>1. Holds /\ DOMAIN pass = PassFields /\ Honest(obj)
  BY PassHolds, Zenon DEF RestartConsumer, Holds
<1>2. SetProbe([Probe EXCEPT !.deleting = TRUE]) \/ SetProbe(Probe)
  BY Zenon DEF RestartConsumer
<1>3. \E p : SetProbe(p) /\ (me \in Caches /\ uid \in Claims => Proven(p, uid))
  BY <1>2, EditedProbe, Zenon
<1>4. World' /\ UNCHANGED <<scenario, api, probed>>
  BY <1>3, ProbeStep, Zenon DEF RestartConsumer
<1> DEFINE v == updateClaimStatus(obj, uid, FALSE, "ProbeConsumerRestarting")
<1>5. Honest(v) /\ Kin(v, obj) /\ Report(v, TRUE)
  BY <1>1, ClaimStatusIsHonest, Zenon DEF RestartConsumer
<1> HIDE DEF v
<1>6. PassOK'
  BY <1>1, <1>4, <1>5, PassReports, Zenon
<1> QED BY <1>4, <1>6, Zenon

(* probeFailure *)
LEMMA probeFailureOK ==
  ASSUME Holds, DOMAIN pass = PassFields, NEW condition, NEW reason,
         probeFailure(condition, reason), UNCHANGED <<scenario, api, probed>>
  PROVE  PassOK'
<1> DEFINE v == cacheFailure(applyCacheIdentity(obj, uid), condition, reason)
           w == updateClaimStatus(obj, uid, TRUE, reason)
<1>1. Done(TRUE) \/ Goto("retryJob") \/ Report(v, TRUE) \/ Report(w, TRUE)
  BY Zenon DEF probeFailure
<1>2. Honest(v) /\ Kin(v, obj) /\ Honest(w) /\ Kin(w, obj)
  BY ClaimStatusIsHonest, IdentifiedFailure, Zenon DEF Holds
<1> HIDE DEF v, w
<1> QED BY <1>1, <1>2, PassEnds, PassMoves, PassReports, Zenon DEF PlainSteps

(* reconcileProbe: only a success of this claim makes the cache Ready. *)
LEMMA reconcileProbeOK ==
  ASSUME World, PassOK, reconcileProbe
  PROVE  World' /\ PassOK'
<1>1. /\ Holds /\ DOMAIN pass = PassFields /\ Honest(obj)
      /\ pass.job.result = "ok" => uid \in probed
  BY PassHolds, Zenon DEF reconcileProbe, Stage, Holds
<1>2. World' /\ UNCHANGED <<scenario, api, probed>>
  BY OnlyPass, Zenon DEF reconcileProbe
<1> DEFINE w == updateClaimStatus(obj, uid, TRUE, "UnsupportedFilesystem")
<1>3. \/ pass.job.result = "ok" /\ WriteThen(ProbeSucceeded(obj, uid), TRUE, "dropConfig")
      \/ Report(w, FALSE)
      \/ Done(TRUE)
      \/ probeFailure("unavailable", "ResultUnavailable")
      \/ probeFailure("full", "InsufficientStorage")
      \/ probeFailure("unavailable", "InvalidProbeResult")
      \/ probeFailure("unavailable", "ProbeFailed")
  BY Zenon DEF reconcileProbe, ReadableResults
<1>4. Honest(w) /\ Kin(w, obj)
  BY <1>1, ClaimStatusIsHonest, Zenon
<1> HIDE DEF w
<1>5. CASE pass.job.result = "ok" /\ WriteThen(ProbeSucceeded(obj, uid), TRUE, "dropConfig")
  <2>1. Honest(ProbeSucceeded(obj, uid)) /\ Kin(ProbeSucceeded(obj, uid), obj)
    BY <1>1, <1>5, SuccessIsHonest, Zenon
  <2> QED BY <1>1, <1>2, <1>5, <2>1, PassWrites, Zenon
<1>6. PassOK'
  BY <1>1, <1>2, <1>3, <1>4, <1>5, PassReports, PassEnds, probeFailureOK, Zenon
<1> QED BY <1>2, <1>6, Zenon

(* DropConfig *)
LEMMA DropConfigOK ==
  ASSUME World, PassOK, DropConfig
  PROVE  World' /\ PassOK'
<1>1. Holds /\ DOMAIN pass = PassFields
  BY PassHolds, Zenon DEF DropConfig
<1>2. \E p : SetProbe(p) /\ (me \in Caches /\ uid \in Claims => Proven(p, uid))
  BY EditedProbe, Zenon DEF DropConfig
<1>3. World' /\ UNCHANGED <<scenario, api, probed>>
  BY <1>2, ProbeStep, Zenon DEF DropConfig
<1>4. PassOK'
  BY <1>1, <1>3, PassMoves, Zenon DEF DropConfig, PlainSteps
<1> QED BY <1>3, <1>4, Zenon

(* DropJob *)
LEMMA DropJobOK ==
  ASSUME World, PassOK, DropJob
  PROVE  World' /\ PassOK'
<1>1. SetProbe([NoProbe EXCEPT !.config = Probe.config]) \/ SetProbe(Probe)
  BY Zenon DEF DropJob
<1>2. \E p : SetProbe(p) /\ (me \in Caches /\ uid \in Claims => Proven(p, uid))
  BY <1>1, EditedProbe, Zenon
<1>3. World'
  BY <1>2, ProbeStep, Zenon DEF DropJob
<1> QED BY <1>3, PassEnds, Zenon DEF DropJob

(* RetryJob *)
LEMMA RetryJobOK ==
  ASSUME World, PassOK, RetryJob
  PROVE  World' /\ PassOK'
<1>1. Holds /\ DOMAIN pass = PassFields
  BY PassHolds, Zenon DEF RetryJob
<1>2. \/ SetProbe([NoProbe EXCEPT !.config = Probe.config]) /\ Goto("retryConfig")
      \/ Done(TRUE) /\ probes' = probes
  BY Zenon DEF RetryJob
<1>3. \/ probes' = probes
      \/ \E p : SetProbe(p) /\ (me \in Caches /\ uid \in Claims => Proven(p, uid))
  BY <1>2, EditedProbe, Zenon
<1>4. World' /\ UNCHANGED <<scenario, api, probed>>
  BY <1>3, ProbeStep, Zenon DEF RetryJob
<1>5. PassOK'
  BY <1>1, <1>2, <1>4, PassMoves, PassEnds, Zenon DEF PlainSteps
<1> QED BY <1>4, <1>5, Zenon

(* RetryConfig *)
LEMMA RetryConfigOK ==
  ASSUME World, PassOK, RetryConfig
  PROVE  World' /\ PassOK'
<1>1. \E p : SetProbe(p) /\ (me \in Caches /\ uid \in Claims => Proven(p, uid))
  BY EditedProbe, Zenon DEF RetryConfig
<1>2. World'
  BY <1>1, ProbeStep, Zenon DEF RetryConfig
<1> QED BY <1>2, PassEnds, Zenon DEF RetryConfig

-----------------------------------------------------------------------------
(* The pass: deletion. *)

(* Terminating *)
LEMMA TerminatingOK ==
  ASSUME World, PassOK, Terminating
  PROVE  World' /\ PassOK'
<1>1. Holds /\ DOMAIN pass = PassFields /\ Honest(obj) /\ obj.phase = "deleting"
  BY PassHolds DEF Terminating, Stage, DeletingSteps, Holds
<1>2. World' /\ UNCHANGED <<scenario, api, probed>>
  BY OnlyPass, Zenon DEF Terminating
<1> DEFINE v == cacheFailure(obj, "degraded", "CacheTerminating")
<1>3. WriteThen(v, FALSE, "probeJobs") \/ Goto("probeJobs")
  BY Zenon DEF Terminating
<1>4. Honest(v) /\ Kin(v, obj)
  BY <1>1, FailureIsHonest, Zenon DEF Honest
<1> HIDE DEF v
<1>5. PassOK'
  BY <1>1, <1>2, <1>3, <1>4, PassWrites, PassMoves, Zenon DEF DeletingSteps
<1> QED BY <1>2, <1>5, Zenon

(* Jobs of one cache are written at once. *)
LEMMA JobsOfCache ==
  ASSUME World, NEW c \in Caches, NEW row, DOMAIN row = Claims,
         \A n \in Claims : Proven(row[n], n),
         probes' = [probes EXCEPT ![c] = row],
         UNCHANGED <<scenario, view, probed>>
  PROVE  JobsNamed(probes)' /\ JobsNamed(view)'
<1>1. JobsNamed(probes) /\ JobsNamed(view)
  BY Zenon DEF World
<1>2. JobsNamed(view)'
  BY <1>1, SameCircumstances DEF JobsNamed, Proven
<1>3. DOMAIN probes' = Caches /\ \A d \in Caches : probes'[d] = IF d = c THEN row ELSE probes[d]
  BY <1>1, Zenon DEF JobsNamed
<1>4. ASSUME NEW d \in Caches
      PROVE  DOMAIN probes'[d] = Claims /\ \A n \in Claims : Proven(probes'[d][n], n)
  BY <1>1, <1>3, Zenon DEF JobsNamed
<1>5. JobsNamed(probes)'
  BY <1>3, <1>4, SameCircumstances DEF JobsNamed, Proven
<1> QED BY <1>2, <1>5, Zenon

(* StopProbes *)
LEMMA StopProbesOK ==
  ASSUME World, PassOK, StopProbes
  PROVE  World' /\ PassOK'
<1>1. Holds /\ DOMAIN pass = PassFields /\ me \in Caches /\ obj.phase = "deleting"
  BY PassHolds DEF StopProbes, Stage, DeletingSteps, Holds
<1>2. /\ UNCHANGED <<scenario, api, cached, claim, claimView, view, users, probed, removed>>
      /\ Goto("probeConfigs") \/ Done(TRUE)
  BY Zenon DEF StopProbes, worldVars
<1> DEFINE known == {u \in Claims : view[me][u].status # "none"}
           row == [u \in Claims |->
                     IF u \in known /\ probes[me][u].status # "none"
                        /\ [view[me][u] EXCEPT !.config = probes[me][u].config] = probes[me][u]
                     THEN [probes[me][u] EXCEPT !.deleting = TRUE] ELSE probes[me][u]]
<1>3. probes' = [probes EXCEPT ![me] = row]
  BY Zenon DEF StopProbes
<1>4. DOMAIN row = Claims /\ \A n \in Claims : row[n] \in {probes[me][n], [probes[me][n] EXCEPT !.deleting = TRUE]}
  BY Zenon
<1> HIDE DEF row, known
<1>5. ASSUME NEW n \in Claims PROVE Proven(row[n], n)
  <2>1. Proven(probes[me][n], n)
    BY <1>1, Zenon DEF World, JobsNamed
  <2>2. Proven([probes[me][n] EXCEPT !.deleting = TRUE], n)
    BY <2>1, ProbeEdits, Zenon
  <2> QED BY <1>4, <2>1, <2>2, Zenon
<1>6. JobsNamed(probes)' /\ JobsNamed(view)'
  BY <1>1, <1>2, <1>3, <1>4, <1>5, JobsOfCache, Zenon
<1>7. World'
  BY <1>2, <1>6, JobsChange, Zenon
<1>8. PassOK'
  BY <1>1, <1>2, PassMoves, PassEnds, Zenon DEF DeletingSteps
<1> QED BY <1>7, <1>8, Zenon

(* DropProbeConfigs *)
LEMMA DropProbeConfigsOK ==
  ASSUME World, PassOK, DropProbeConfigs
  PROVE  World' /\ PassOK'
<1>1. Holds /\ DOMAIN pass = PassFields /\ me \in Caches /\ obj.phase = "deleting"
  BY PassHolds DEF DropProbeConfigs, Stage, DeletingSteps, Holds
<1>2. /\ UNCHANGED <<scenario, api, cached, claim, claimView, view, users, probed, removed>>
      /\ Goto("artifactRefs")
  BY Zenon DEF DropProbeConfigs, worldVars
<1> DEFINE row == [u \in Claims |-> [probes[me][u] EXCEPT !.config = @ /\ ~view[me][u].config]]
<1>3. probes' = [probes EXCEPT ![me] = row]
  BY Zenon DEF DropProbeConfigs
<1>4. DOMAIN row = Claims
  OBVIOUS
<1>5. ASSUME NEW n \in Claims PROVE Proven(row[n], n)
  <2>1. Proven(probes[me][n], n)
    BY <1>1, Zenon DEF World, JobsNamed
  <2> DEFINE b == probes[me][n].config /\ ~view[me][n].config
  <2>2. row[n] = [probes[me][n] EXCEPT !.config = b]
    OBVIOUS
  <2> HIDE DEF row, b
  <2>3. Proven([probes[me][n] EXCEPT !.config = b], n)
    BY <2>1, ProbeEdits, Zenon
  <2> QED BY <2>2, <2>3, Zenon
<1> HIDE DEF row
<1>6. JobsNamed(probes)' /\ JobsNamed(view)'
  BY <1>1, <1>2, <1>3, <1>4, <1>5, JobsOfCache, Zenon
<1>7. World'
  BY <1>2, <1>6, JobsChange, Zenon
<1>8. PassOK'
  BY <1>1, <1>2, PassMoves, Zenon DEF DeletingSteps
<1> QED BY <1>7, <1>8, Zenon

(* ArtifactReferences: the way through deletion depends on the policy read. *)
LEMMA ArtifactReferencesOK ==
  ASSUME World, PassOK, ArtifactReferences
  PROVE  World' /\ PassOK'
<1>1. Holds /\ DOMAIN pass = PassFields /\ Honest(obj) /\ obj.phase = "deleting"
  BY PassHolds DEF ArtifactReferences, Stage, DeletingSteps, Holds
<1>2. World' /\ UNCHANGED <<scenario, api, probed>>
  BY OnlyPass, Zenon DEF ArtifactReferences
<1> DEFINE v == cacheFailure(obj, "degraded", "ArtifactReferencesRemain")
<1>3. \/ Report(v, TRUE)
      \/ me # Owner /\ Goto("finalize")
      \/ me = Owner /\ obj.policy = "Delete" /\ Goto("managedClaim")
      \/ Goto("clearGuard")
  BY Zenon DEF ArtifactReferences
<1>4. Honest(v) /\ Kin(v, obj)
  BY <1>1, FailureIsHonest, Zenon DEF Honest
<1> HIDE DEF v
<1>5. PassOK'
  BY <1>1, <1>2, <1>3, <1>4, PassReports, PassMoves, Zenon DEF DeletingSteps, RemovingSteps
<1> QED BY <1>2, <1>5, Zenon

(* The deletion steps of the managed claim. *)
LEMMA Removing ==
  ASSUME World, PassOK, NEW step \in RemovingSteps, At(step)
  PROVE  /\ Holds /\ DOMAIN pass = PassFields /\ Honest(obj)
         /\ obj.phase = "deleting" /\ me = Owner /\ obj.policy = "Delete"
         /\ api[Owner].phase \in {"deleting", "gone"} /\ api[Owner].policy = "Delete"
<1>1. /\ Holds /\ DOMAIN pass = PassFields /\ Honest(obj)
      /\ obj.phase = "deleting" /\ me = Owner /\ obj.policy = "Delete"
  BY PassHolds, Zenon DEF Stage, RemovingSteps, Holds
<1> QED BY <1>1, Zenon DEF Holds, Before

(* A pass that reads the claim on its way. *)
LEMMA ClaimTaken ==
  ASSUME Holds, DOMAIN pass = PassFields, NEW step \in RemovingSteps, NEW cl,
         pass' = [pass EXCEPT !.claim = cl, !.pc = step],
         obj.phase = "deleting", me = Owner, obj.policy = "Delete",
         step = "guard" => cl.state # "none",
         UNCHANGED <<scenario, api, probed>>
  PROVE  PassOK'
<1>1. /\ DOMAIN pass' = PassFields /\ pass'.me = me /\ pass'.obj = obj /\ pass'.pc = step
      /\ pass'.claim = cl
  BY Zenon DEF PassFields, me, obj
<1>2. Stage'
  BY <1>1, Zenon DEF Stage, ProbingSteps, DeletingSteps, RemovingSteps, me, obj
<1> QED BY <1>1, <1>2, PassGoesOn, Zenon

(* ManagedClaim *)
LEMMA ManagedClaimOK ==
  ASSUME World, PassOK, ManagedClaim
  PROVE  World' /\ PassOK'
<1>1. /\ Holds /\ DOMAIN pass = PassFields /\ Honest(obj)
      /\ obj.phase = "deleting" /\ me = Owner /\ obj.policy = "Delete"
  BY Removing, Zenon DEF ManagedClaim, RemovingSteps
<1>2. World' /\ UNCHANGED <<scenario, api, probed>>
  BY OnlyPass, Zenon DEF ManagedClaim
<1> DEFINE v == cacheFailure(obj, "degraded", "ClaimIdentityConflict")
<1>3. \/ Goto("finalize") \/ Done(TRUE) \/ Report(v, FALSE)
      \/ pass' = [pass EXCEPT !.claim = claim, !.pc = "otherCaches"]
      \/ claim.state # "none" /\ pass' = [pass EXCEPT !.claim = claim, !.pc = "guard"]
  BY Zenon DEF ManagedClaim
<1>4. Honest(v) /\ Kin(v, obj)
  BY <1>1, FailureIsHonest, Zenon DEF Honest
<1> HIDE DEF v
<1>5. PassOK'
  BY <1>1, <1>2, <1>3, <1>4, PassReports, PassMoves, PassEnds, ClaimTaken, Zenon DEF RemovingSteps
<1> QED BY <1>2, <1>5, Zenon

(* ensureClaimDeletionGuard: only a cache under the policy Delete sets a guard. *)
LEMMA GuardOK ==
  ASSUME World, PassOK, ensureClaimDeletionGuard
  PROVE  World' /\ PassOK'
<1>1. /\ Holds /\ DOMAIN pass = PassFields /\ Honest(obj)
      /\ api[Owner].phase \in {"deleting", "gone"} /\ api[Owner].policy = "Delete"
      /\ pass.claim.state # "none"
  BY Removing, PassHolds, Zenon DEF ensureClaimDeletionGuard, RemovingSteps, Stage
<1>2. UNCHANGED <<scenario, api, cached, claimView, probes, view, users, probed, removed>>
  BY Zenon DEF ensureClaimDeletionGuard, worldVars
<1>3. CASE claim = pass.claim
  <2>1. claim' = [claim EXCEPT !.guard = "set", !.quiet = FALSE] /\ Done(TRUE)
    BY <1>3, Zenon DEF ensureClaimDeletionGuard
  <2>2. ClaimOK /\ Retained
    BY Zenon DEF World
  <2>3. claim.state # "none"
    BY <1>1, <1>3, Zenon
  <2>4. ClaimOK'
    BY <1>2, <2>1, <2>2, <2>3, SameCircumstances, Zenon DEF ClaimOK, ClaimFields
  <2>5. Retained'
    BY <1>1, <1>2, <2>1, <2>2, Zenon DEF Retained, Unguarded, ClaimOK, ClaimFields
  <2> QED BY <1>2, <2>1, <2>4, <2>5, ClaimChange, PassEnds, Zenon
<1>4. CASE claim # pass.claim
  <2> DEFINE v == cacheFailure(obj, "degraded", "ClaimDeletionGuardConflict")
  <2>1. Report(v, FALSE) /\ claim' = claim
    BY <1>4, Zenon DEF ensureClaimDeletionGuard
  <2>2. Honest(v) /\ Kin(v, obj)
    BY <1>1, FailureIsHonest, Zenon DEF Honest
  <2> HIDE DEF v
  <2> QED BY <1>1, <1>2, <2>1, <2>2, WorldStays, PassReports, Zenon
<1> QED BY <1>3, <1>4, Zenon

(* managedClaimDeletionBlocked *)
LEMMA LastReferencesOK ==
  ASSUME World, PassOK, LastReferences
  PROVE  World' /\ PassOK'
<1>1. \E step \in {"otherCaches", "artifactClaims"} : At(step)
  BY Zenon DEF LastReferences, managedClaimDeletionBlocked
<1>2. /\ Holds /\ DOMAIN pass = PassFields /\ Honest(obj)
      /\ obj.phase = "deleting" /\ me = Owner /\ obj.policy = "Delete"
  BY <1>1, Removing, Zenon DEF RemovingSteps
<1>3. World' /\ UNCHANGED <<scenario, api, probed>>
  BY OnlyPass, Zenon DEF LastReferences
<1> DEFINE v == cacheFailure(obj, "degraded", "ClaimAdoptedByAnotherCache")
           w == cacheFailure(obj, "degraded", "ArtifactReferencesRemain")
<1>4. Report(v, TRUE) \/ Goto("artifactClaims") \/ Report(w, TRUE) \/ Goto("revalidate")
  BY Zenon DEF LastReferences, managedClaimDeletionBlocked
<1>5. Honest(v) /\ Kin(v, obj) /\ Honest(w) /\ Kin(w, obj)
  BY <1>2, FailureIsHonest, Zenon DEF Honest
<1> HIDE DEF v, w
<1>6. PassOK'
  BY <1>2, <1>3, <1>4, <1>5, PassReports, PassMoves, Zenon DEF RemovingSteps
<1> QED BY <1>3, <1>6, Zenon

(* revalidateManagedClaimDeletion *)
LEMMA RevalidateOK ==
  ASSUME World, PassOK, revalidateManagedClaimDeletion
  PROVE  World' /\ PassOK'
<1>1. /\ Holds /\ DOMAIN pass = PassFields /\ Honest(obj)
      /\ obj.phase = "deleting" /\ me = Owner /\ obj.policy = "Delete"
  BY Removing, Zenon DEF revalidateManagedClaimDeletion, RemovingSteps
<1>2. World' /\ UNCHANGED <<scenario, api, probed>>
  BY OnlyPass, Zenon DEF revalidateManagedClaimDeletion
<1> DEFINE v == cacheFailure(obj, "degraded", "ClaimDeletionGuardChanged")
<1>3. \/ Done(TRUE) \/ Report(v, TRUE)
      \/ pass' = [pass EXCEPT !.claim = claim, !.pc = "deleteClaim"]
  BY Zenon DEF revalidateManagedClaimDeletion
<1>4. Honest(v) /\ Kin(v, obj)
  BY <1>1, FailureIsHonest, Zenon DEF Honest
<1> HIDE DEF v
<1>5. PassOK'
  BY <1>1, <1>2, <1>3, <1>4, PassReports, PassEnds, ClaimTaken, Zenon DEF RemovingSteps
<1> QED BY <1>2, <1>5, Zenon

(* DeleteClaim: the controller deletes only under the policy Delete. *)
LEMMA DeleteClaimOK ==
  ASSUME World, PassOK, DeleteClaim
  PROVE  World' /\ PassOK'
<1>1. /\ Holds /\ DOMAIN pass = PassFields /\ Honest(obj)
      /\ api[Owner].phase \in {"deleting", "gone"} /\ api[Owner].policy = "Delete"
  BY Removing, Zenon DEF DeleteClaim, RemovingSteps
<1>2. UNCHANGED <<scenario, api, cached, claimView, probes, view, users, probed>>
  BY Zenon DEF DeleteClaim
<1>3. ClaimOK /\ Retained
  BY Zenon DEF World
<1>4. CASE claim \in {pass.claim, NoClaim(uid)}
  <2>1. (claim' = [claim EXCEPT !.state = "terminating"] \/ claim' = claim) /\ Done(TRUE)
    BY <1>4, Zenon DEF DeleteClaim
  <2>2. DOMAIN claim' = ClaimFields /\ claim'.uid = claim.uid /\ claim'.guard = claim.guard
        /\ claim'.state \in {claim.state, "terminating"}
    BY <1>3, <2>1, Zenon DEF ClaimOK, ClaimFields
  <2>3. ClaimOK'
    BY <1>2, <1>3, <2>2, SameCircumstances, Zenon DEF ClaimOK
  <2>4. Retained'
    BY <1>1, <1>2, <1>3, <2>2, Zenon DEF Retained, Unguarded
  <2> QED BY <1>2, <2>1, <2>3, <2>4, ClaimChange, PassEnds, Zenon
<1>5. CASE claim \notin {pass.claim, NoClaim(uid)}
  <2> DEFINE v == cacheFailure(obj, "degraded", "ClaimDeleteFailed")
  <2>1. Report(v, TRUE) /\ claim' = claim /\ removed' = removed
    BY <1>5, Zenon DEF DeleteClaim
  <2>2. Honest(v) /\ Kin(v, obj)
    BY <1>1, FailureIsHonest, Zenon DEF Honest
  <2> HIDE DEF v
  <2> QED BY <1>1, <1>2, <2>1, <2>2, WorldStays, PassReports, Zenon
<1> QED BY <1>4, <1>5, Zenon

(* clearRetainedManagedClaimDeletionGuard *)
LEMMA ClearGuardOK ==
  ASSUME World, PassOK, clearRetainedManagedClaimDeletionGuard
  PROVE  World' /\ PassOK'
<1>1. Holds /\ DOMAIN pass = PassFields /\ obj.phase = "deleting"
  BY PassHolds DEF clearRetainedManagedClaimDeletionGuard, Stage, DeletingSteps
<1>2. World' /\ UNCHANGED <<scenario, api, probed, claim>>
  BY OnlyPass, Zenon DEF clearRetainedManagedClaimDeletionGuard
<1>3. ClaimOK
  BY Zenon DEF World
<1>4. \/ pass' = [pass EXCEPT !.claim = claim, !.pc = "dropGuard"]
      \/ pass' = [pass EXCEPT !.claim = claim, !.pc = "finalize"] /\ Unguarded
  BY <1>3, Zenon DEF clearRetainedManagedClaimDeletionGuard, Unguarded, ClaimOK
<1>5. /\ DOMAIN pass' = PassFields /\ pass'.me = me /\ pass'.obj = obj
      /\ pass'.pc = "dropGuard" \/ (pass'.pc = "finalize" /\ Unguarded')
  BY <1>1, <1>2, <1>4, Zenon DEF PassFields, me, obj, Unguarded
<1>6. Stage'
  BY <1>1, <1>5, Zenon DEF Stage, ProbingSteps, DeletingSteps, RemovingSteps, me, obj
<1> QED BY <1>1, <1>2, <1>5, <1>6, PassGoesOn, Zenon

(* DropGuard *)
LEMMA DropGuardOK ==
  ASSUME World, PassOK, DropGuard
  PROVE  World' /\ PassOK'
<1>1. Holds /\ DOMAIN pass = PassFields /\ Honest(obj)
  BY PassHolds, Zenon DEF DropGuard, Holds
<1>2. UNCHANGED <<scenario, api, cached, claimView, probes, view, users, probed, removed>>
  BY Zenon DEF DropGuard, worldVars
<1>3. ClaimOK /\ Retained
  BY Zenon DEF World
<1>4. CASE claim = pass.claim /\ validateManagedCacheClaim(claim)
  <2>1. claim' = [claim EXCEPT !.guard = "none", !.quiet = FALSE] /\ Done(TRUE)
    BY <1>4, Zenon DEF DropGuard
  <2>2. DOMAIN claim' = ClaimFields /\ claim'.uid = claim.uid /\ claim'.guard = "none"
        /\ claim'.state = claim.state
    BY <1>3, <2>1, Zenon DEF ClaimOK, ClaimFields
  <2>3. ClaimOK' /\ Retained'
    BY <1>2, <1>3, <2>2, SameCircumstances, Zenon DEF ClaimOK, Retained, Unguarded
  <2> QED BY <1>2, <2>1, <2>3, ClaimChange, PassEnds, Zenon
<1>5. CASE ~(claim = pass.claim /\ validateManagedCacheClaim(claim))
  <2> DEFINE v == cacheFailure(obj, "degraded", "RetainedClaimGuardCleanupFailed")
  <2>1. Report(v, TRUE) /\ claim' = claim
    BY <1>5, Zenon DEF DropGuard
  <2>2. Honest(v) /\ Kin(v, obj)
    BY <1>1, FailureIsHonest, Zenon DEF Honest
  <2> HIDE DEF v
  <2> QED BY <1>1, <1>2, <2>1, <2>2, WorldStays, PassReports, Zenon
<1> QED BY <1>4, <1>5, Zenon

(* Finalize: the owner goes only when its claim is as its policy wants it. *)
LEMMA FinalizeOK ==
  ASSUME World, PassOK, Finalize
  PROVE  World' /\ PassOK'
<1>1. /\ Holds /\ obj.phase = "deleting" /\ me \in Caches
      /\ me = Owner => obj.policy = "Delete" \/ Unguarded
  BY PassHolds, Zenon DEF Finalize, Stage, Holds
<1>2. /\ UNCHANGED <<scenario, cached, claim, claimView, probes, view, users, probed, removed>>
      /\ PassOK'
  BY PassEnds, Zenon DEF Finalize, clusterVars, worldVars
<1>3. CASE api' = api
  BY <1>2, <1>3, WorldStays, Zenon
<1>4. CASE api' # api
  <2> DEFINE v == Gone(obj.policy)
  <2>1. api' = [api EXCEPT ![me] = v] /\ api[me] = obj
    BY <1>4, Zenon DEF Finalize, Conflict
  <2>2. /\ DOMAIN v = RecordFields /\ v.phase = "gone" /\ v.policy = obj.policy /\ v.ready = FALSE
    BY Zenon DEF Gone, Created, RecordFields
  <2> HIDE DEF v
  <2>3. Honest(v) /\ Before(api[me], v)
    BY <1>1, <2>1, <2>2, Zenon DEF Honest, Before
  <2>4. Objects'
    BY <1>1, <1>2, <2>1, <2>3, ObjectWritten, Zenon
  <2>5. Retained /\ Objects /\ Owner \in Caches
    BY OwnerKnown, Zenon DEF World
  <2>6. api'[Owner] = IF Owner = me THEN v ELSE api[Owner]
    BY <2>1, <2>5, Zenon DEF Objects
  <2>7. Retained'
    BY <1>1, <1>2, <2>1, <2>2, <2>5, <2>6, Zenon DEF Retained, Unguarded
  <2> QED BY <1>2, <2>4, <2>7, ObjectsChange, Zenon
<1> QED BY <1>3, <1>4, Zenon

-----------------------------------------------------------------------------
(* The environment. *)

(* What happens around a pass does not take from it what it relies on. *)
LEMMA PassKept ==
  ASSUME PassOK, UNCHANGED <<pass, scenario>>, probed \subseteq probed',
         \A c \in Caches : Before(api[c], api'[c]),
         pass.pc = "finalize" /\ me = Owner /\ Unguarded => Unguarded'
  PROVE  PassOK'
<1>1. me' = me /\ obj' = obj /\ uid' = uid
  BY Zenon DEF me, obj, uid
<1>2. ASSUME Holds PROVE Holds'
  <2>1. me \in Caches' /\ (Honest(obj))'
    BY <1>1, <1>2, SameCircumstances, Zenon DEF Holds, Honest
  <2>2. Before(obj, api'[me])
    BY <1>2, Zenon DEF Holds, Before
  <2> QED BY <1>1, <2>1, <2>2, Zenon DEF Holds
<1>3. ASSUME Stage PROVE Stage'
  <2>1. WriteOK => WriteOK'
    BY <1>1, Zenon DEF WriteOK, Honest
  <2> QED BY <1>1, <1>3, <2>1, SameCircumstances, Zenon
          DEF Stage, ProbingSteps, DeletingSteps, RemovingSteps
<1> QED BY <1>2, <1>3, Zenon DEF PassOK

(* Around a pass nothing it holds changes at all. *)
LEMMA PassUntouched ==
  ASSUME PassOK, UNCHANGED <<pass, scenario, api, probed, claim>>
  PROVE  PassOK'
<1>1. \A c \in Caches : Before(api[c], api'[c])
  BY KinIsBefore, Zenon
<1>2. Unguarded' <=> Unguarded
  BY Zenon DEF Unguarded
<1> QED BY <1>1, <1>2, PassKept, Zenon

(* The informer delivers a cache. *)
LEMMA CacheSyncOK ==
  ASSUME World, PassOK, NEW c \in Caches, CacheSync(c)
  PROVE  World' /\ PassOK'
<1>1. /\ UNCHANGED <<scenario, api, pass, claim, claimView, probes, view, users, probed, removed>>
      /\ cached' = [cached EXCEPT ![c] = api[c]]
  BY Zenon DEF CacheSync, clusterVars, worldVars
<1>2. Objects /\ Owner \in Caches
  BY OwnerKnown, Zenon DEF World
<1>3. DOMAIN cached' = Caches /\ \A d \in Caches : cached'[d] = IF d = c THEN api[d] ELSE cached[d]
  BY <1>1, <1>2, Zenon DEF Objects
<1>4. ASSUME NEW d \in Caches PROVE Honest(cached'[d]) /\ Before(cached'[d], api[d])
  BY <1>2, <1>3, KinIsBefore, Zenon DEF Objects
<1>5. Objects'
  BY <1>1, <1>2, <1>3, <1>4, SameCircumstances, Zenon DEF Objects, Honest
<1>6. Retained'
  BY <1>1, OwnerKin, Zenon DEF Kin
<1> QED BY <1>1, <1>5, <1>6, ObjectsChange, PassUntouched, Zenon

(* The informer delivers the claim. *)
LEMMA ClaimSyncOK ==
  ASSUME World, PassOK, ClaimSync
  PROVE  World' /\ PassOK'
<1>1. /\ UNCHANGED <<scenario, api, cached, pass, claim, probes, view, users, probed, removed>>
      /\ claimView' = claim
  BY Zenon DEF ClaimSync, worldVars
<1>2. ClaimOK /\ Retained
  BY Zenon DEF World
<1>3. ClaimOK' /\ Retained'
  BY <1>1, <1>2, SameCircumstances, Zenon DEF ClaimOK, Retained, Unguarded
<1> QED BY <1>1, <1>3, ClaimChange, PassUntouched, Zenon

(* The informer delivers the Jobs of a cache. *)
LEMMA ProbeSyncOK ==
  ASSUME World, PassOK, NEW c \in Caches, ProbeSync(c)
  PROVE  World' /\ PassOK'
<1>1. /\ UNCHANGED <<scenario, api, cached, pass, claim, claimView, probes, users, probed, removed>>
      /\ view' = [view EXCEPT ![c] = probes[c]]
  BY Zenon DEF ProbeSync, worldVars
<1>2. JobsNamed(probes) /\ JobsNamed(view)
  BY Zenon DEF World
<1>3. JobsNamed(probes)'
  BY <1>1, <1>2, SameCircumstances DEF JobsNamed, Proven
<1>4. DOMAIN view' = Caches /\ \A d \in Caches : view'[d] = IF d = c THEN probes[d] ELSE view[d]
  BY <1>1, <1>2, Zenon DEF JobsNamed
<1>5. ASSUME NEW d \in Caches
      PROVE  DOMAIN view'[d] = Claims /\ \A n \in Claims : Proven(view'[d][n], n)
  BY <1>2, <1>4, Zenon DEF JobsNamed
<1>6. JobsNamed(view)'
  BY <1>1, <1>4, <1>5, SameCircumstances, Zenon DEF JobsNamed, Proven
<1> QED BY <1>1, <1>3, <1>6, JobsChange, PassUntouched, Zenon

(* A user changes a cache. *)
LEMMA UserWrites ==
  ASSUME World, PassOK, NEW c \in Caches, NEW v, Honest(v), Before(api[c], v),
         api' = [api EXCEPT ![c] = v], Retained',
         UNCHANGED <<scenario, cached, pass, claim, claimView, probes, view, users, probed, removed>>
  PROVE  World' /\ PassOK'
<1>1. Objects' /\ Objects
  BY ObjectWritten, Zenon DEF World
<1>2. \A d \in Caches : Before(api[d], api'[d])
  BY <1>1, KinIsBefore, Zenon DEF Objects
<1>3. Unguarded' <=> Unguarded
  BY Zenon DEF Unguarded
<1> QED BY <1>1, <1>2, <1>3, ObjectsChange, PassKept, Zenon

(* CacheCreated *)
LEMMA CacheCreatedOK ==
  ASSUME World, PassOK, NEW c \in Caches, CacheCreated(c)
  PROVE  World' /\ PassOK'
<1>1. /\ UNCHANGED <<scenario, cached, pass, claim, claimView, probes, view, users, probed, removed>>
      /\ api' = [api EXCEPT ![c] = Created("Retain")] /\ api[c].phase = "absent"
  BY Zenon DEF CacheCreated, clusterVars, worldVars
<1>2. Objects /\ Retained /\ Owner \in Caches
  BY OwnerKnown, Zenon DEF World
<1>3. Honest(Created("Retain"))
  BY Zenon DEF Honest, Created, RecordFields
<1>4. Before(api[c], Created("Retain"))
  BY <1>1, <1>2, Zenon DEF Objects, Honest, Before
<1>5. c # Owner /\ api'[Owner] = api[Owner]
  BY <1>1, <1>2, Zenon DEF Retained, Objects
<1>6. Retained'
  BY <1>1, <1>5, OwnerKin, Zenon DEF Kin
<1> QED BY <1>1, <1>3, <1>4, <1>6, UserWrites, Zenon

(* UserDeletes: an owner without the finalizer has no claim yet. *)
LEMMA UserDeletesOK ==
  ASSUME World, PassOK, NEW c \in Caches, UserDeletes(c)
  PROVE  World' /\ PassOK'
<1>1. /\ UNCHANGED <<scenario, cached, pass, claim, claimView, probes, view, users, probed, removed>>
      /\ api[c].phase = "live"
  BY Zenon DEF UserDeletes, clusterVars, worldVars
<1>2. Objects /\ Retained /\ ClaimOK /\ Owner \in Caches
  BY OwnerKnown, Zenon DEF World
<1> DEFINE v == IF api[c].fin THEN [api[c] EXCEPT !.phase = "deleting", !.seen = FALSE]
                ELSE Gone(api[c].policy)
<1>3. api' = [api EXCEPT ![c] = v]
  BY <1>2, Zenon DEF UserDeletes, Objects
<1>4. Honest(api[c]) /\ DOMAIN api[c] = RecordFields
  BY <1>2, Zenon DEF Objects, Honest
<1>5. CASE api[c].fin
  <2>1. /\ DOMAIN v = RecordFields /\ v.phase = "deleting" /\ v.fin = api[c].fin
        /\ v.policy = api[c].policy /\ v.ready = api[c].ready /\ v.claim = api[c].claim
    BY <1>4, <1>5, Zenon DEF RecordFields
  <2> HIDE DEF v
  <2>2. Honest(v) /\ Before(api[c], v)
    BY <1>1, <1>4, <2>1, Zenon DEF Honest, Before
  <2>3. api'[Owner] = IF Owner = c THEN v ELSE api[Owner]
    BY <1>2, <1>3, Zenon DEF Objects
  <2>4. Retained'
    BY <1>1, <1>2, <2>1, <2>3, Zenon DEF Retained, Unguarded
  <2> QED BY <1>1, <1>3, <2>2, <2>4, UserWrites, Zenon
<1>6. CASE ~api[c].fin
  <2>1. DOMAIN v = RecordFields /\ v.phase = "gone" /\ v.policy = api[c].policy /\ v.ready = FALSE
    BY <1>6, Zenon DEF Gone, Created, RecordFields
  <2> HIDE DEF v
  <2>2. Honest(v) /\ Before(api[c], v)
    BY <1>1, <2>1, Zenon DEF Honest, Before
  <2>3. api'[Owner] = IF Owner = c THEN v ELSE api[Owner]
    BY <1>2, <1>3, Zenon DEF Objects
  <2>4. Retained'
    BY <1>1, <1>2, <1>6, <2>1, <2>3, Zenon DEF Retained, Unguarded, ClaimOK
  <2> QED BY <1>1, <1>3, <2>2, <2>4, UserWrites, Zenon
<1> QED BY <1>5, <1>6, Zenon

(* PolicyChanges: only before deletion. *)
LEMMA PolicyChangesOK ==
  ASSUME World, PassOK, PolicyChanges
  PROVE  World' /\ PassOK'
<1>1. /\ UNCHANGED <<scenario, cached, pass, claim, claimView, probes, view, users, probed, removed>>
      /\ api[Owner].phase = "live"
  BY Zenon DEF PolicyChanges, Disrupt, validateModelCacheUpdate, clusterVars
<1>2. Objects /\ Retained /\ Owner \in Caches
  BY OwnerKnown, Zenon DEF World
<1>3. PICK p : api' = [api EXCEPT ![Owner].policy = p, ![Owner].seen = FALSE]
  BY Zenon DEF PolicyChanges
<1> DEFINE v == [api[Owner] EXCEPT !.policy = p, !.seen = FALSE]
<1>4. api' = [api EXCEPT ![Owner] = v]
  BY <1>2, <1>3, Zenon DEF Objects
<1>5. Honest(api[Owner]) /\ DOMAIN api[Owner] = RecordFields
  BY <1>2, Zenon DEF Objects, Honest
<1>6. /\ DOMAIN v = RecordFields /\ v.phase = "live" /\ v.fin = api[Owner].fin
      /\ v.ready = api[Owner].ready /\ v.claim = api[Owner].claim
  BY <1>1, <1>5, Zenon DEF RecordFields
<1> HIDE DEF v
<1>7. Honest(v) /\ Before(api[Owner], v)
  BY <1>1, <1>5, <1>6, Zenon DEF Honest, Before
<1>8. api'[Owner] = v
  BY <1>2, <1>4, Zenon DEF Objects
<1>9. Retained'
  BY <1>1, <1>2, <1>6, <1>8, Zenon DEF Retained, Unguarded
<1> QED BY <1>1, <1>2, <1>4, <1>7, <1>9, UserWrites, Zenon

(* More is probed, and Jobs may say so. *)
LEMMA ProbedGrows ==
  ASSUME World, PassOK, probed \subseteq probed', JobsNamed(probes)',
         UNCHANGED <<scenario, api, cached, pass, claim, claimView, view, users, removed>>
  PROVE  World' /\ PassOK'
<1>1. scenario \in Scenarios /\ Objects /\ JobsNamed(view) /\ ClaimOK /\ Users /\ Retained
  BY Zenon DEF World
<1>2. Objects'
  BY <1>1, SameCircumstances, Zenon DEF Objects, Honest
<1>3. JobsNamed(view)'
  BY <1>1, SameCircumstances DEF JobsNamed, Proven
<1>4. ClaimOK' /\ Retained'
  BY <1>1, SameCircumstances, Zenon DEF ClaimOK, Retained, Unguarded
<1>5. Users'
  BY <1>1, SameCircumstances, Zenon DEF Users, UsedClaimsAreProbed
<1>6. World'
  BY <1>1, <1>2, <1>3, <1>4, <1>5, Zenon DEF World
<1>7. (\A c \in Caches : Before(api[c], api'[c])) /\ (Unguarded' <=> Unguarded)
  BY KinIsBefore, Zenon DEF Unguarded
<1> QED BY <1>6, <1>7, PassKept, Zenon

(* A probe Pod ends: the Jobs that mount its claim are named after it. *)
LEMMA PodEndsOK ==
  ASSUME World, PassOK, NEW c \in Caches, NEW u, NEW status, NEW result,
         PodEnds(c, u, status, result), status # "active", scenario' = scenario,
         probed \subseteq probed', result = "ok" => u \in probed'
  PROVE  World' /\ PassOK'
<1>1. UNCHANGED <<api, cached, pass, claim, claimView, view, users, removed>>
  BY Zenon DEF PodEnds, controllerVars
<1>2. JobsNamed(probes)
  BY Zenon DEF World
<1> DEFINE row == [n \in Claims |->
                     IF probes[c][n].mounts = u /\ probes[c][n].status = "active"
                     THEN [probes[c][n] EXCEPT !.status = status, !.result = result]
                     ELSE probes[c][n]]
<1>3. probes' = [probes EXCEPT ![c] = row]
  BY Zenon DEF PodEnds
<1>4. DOMAIN row = Claims
  OBVIOUS
<1>5. ASSUME NEW n \in Claims
      PROVE  /\ DOMAIN row[n] = ProbeFields /\ (row[n].result = "ok" => n \in probed')
             /\ (row[n].status = "active" => row[n].mounts = n)
  <2> DEFINE p == probes[c][n]
             q == [p EXCEPT !.status = status, !.result = result]
  <2>1. Proven(p, n)
    BY <1>2, Zenon DEF JobsNamed
  <2>2. row[n] = IF p.mounts = u /\ p.status = "active" THEN q ELSE p
    BY Zenon
  <2> HIDE DEF p, row
  <2>3. CASE p.mounts = u /\ p.status = "active"
    <3>1. n = u /\ DOMAIN q = ProbeFields /\ q.status = status /\ q.result = result
      BY <2>1, <2>3, Zenon DEF Proven, ProbeFields
    <3> QED BY <2>2, <2>3, <3>1, Zenon
  <2>4. CASE ~(p.mounts = u /\ p.status = "active")
    BY <2>1, <2>2, <2>4, Zenon DEF Proven
  <2> QED BY <2>3, <2>4, Zenon
<1> HIDE DEF row
<1>6. DOMAIN probes' = Caches /\ \A d \in Caches : probes'[d] = IF d = c THEN row ELSE probes[d]
  BY <1>2, <1>3, Zenon DEF JobsNamed
<1>7. ASSUME NEW d \in Caches
      PROVE  /\ DOMAIN probes'[d] = Claims
             /\ \A n \in Claims :
                  /\ DOMAIN probes'[d][n] = ProbeFields
                  /\ probes'[d][n].result = "ok" => n \in probed'
                  /\ probes'[d][n].status = "active" => probes'[d][n].mounts = n
  BY <1>2, <1>4, <1>5, <1>6 DEF JobsNamed, Proven
<1>8. JobsNamed(probes)'
  BY <1>6, <1>7, SameCircumstances, Zenon DEF JobsNamed, Proven
<1> QED BY <1>1, <1>8, ProbedGrows, Zenon

(* ProbeSucceeds and ProbeFails *)
LEMMA ProbeEndsOK ==
  ASSUME World, PassOK, NEW c \in Caches, ProbeEnds(c)
  PROVE  World' /\ PassOK'
<1>1. PICK u \in Claims : ProbeSucceeds(c, u) \/ ProbeFails(c, u)
  BY Zenon DEF ProbeEnds
<1>2. CASE ProbeSucceeds(c, u)
  <2>1. PodEnds(c, u, "complete", "ok") /\ probed' = probed \cup {u} /\ scenario' = scenario
    BY <1>2, Zenon DEF ProbeSucceeds
  <2> QED BY <2>1, PodEndsOK, Zenon
<1>3. CASE ProbeFails(c, u)
  <2>1. PICK r \in ProbeFailures :
          PodEnds(c, u, IF r \in {"invalid", "unsupported"} THEN "complete" ELSE "failed", r)
    BY <1>3, Zenon DEF ProbeFails
  <2>2. r # "ok"
    BY CacheAssumption, Zenon DEF World, ProbeFailures
  <2>3. scenario' = scenario /\ probed' = probed
    BY <1>3, Zenon DEF ProbeFails, Disrupt
  <2>4. (IF r \in {"invalid", "unsupported"} THEN "complete" ELSE "failed") # "active"
    OBVIOUS
  <2> QED BY <2>1, <2>2, <2>3, <2>4, PodEndsOK, Zenon
<1> QED BY <1>1, <1>2, <1>3, Zenon

(* PodStops changes only Pods. *)
LEMMA PodsStopOK ==
  ASSUME World, PassOK, NEW c \in Caches, PodsStop(c)
  PROVE  World' /\ PassOK'
<1>1. UNCHANGED <<scenario, api, cached, pass, claim, claimView, probes, view, users, probed, removed>>
  BY Zenon DEF PodsStop, PodStops, controllerVars, worldVars
<1> QED BY <1>1, WorldStays, PassUntouched, Zenon

(* One Job is written. *)
LEMMA JobWritten ==
  ASSUME World, PassOK, NEW c \in Caches, NEW n \in Claims, NEW p, Proven(p, n),
         probes' = [probes EXCEPT ![c][n] = p],
         UNCHANGED <<scenario, api, cached, pass, claim, claimView, view, users, probed, removed>>
  PROVE  World' /\ PassOK'
<1>1. JobsNamed(probes) /\ JobsNamed(view)
  BY Zenon DEF World
<1> DEFINE row == [probes[c] EXCEPT ![n] = p]
<1>2. probes' = [probes EXCEPT ![c] = row] /\ DOMAIN row = Claims
  BY <1>1, Zenon DEF JobsNamed
<1>3. ASSUME NEW m \in Claims PROVE Proven(row[m], m)
  <2>1. row[m] = IF m = n THEN p ELSE probes[c][m]
    BY <1>1, Zenon DEF JobsNamed
  <2> HIDE DEF row
  <2> QED BY <1>1, <2>1, Zenon DEF JobsNamed
<1> HIDE DEF row
<1>4. JobsNamed(probes)' /\ JobsNamed(view)'
  BY <1>2, <1>3, JobsOfCache, Zenon
<1> QED BY <1>4, JobsChange, PassUntouched, Zenon

(* ProbeCollected *)
LEMMA ProbeCollectedOK ==
  ASSUME World, PassOK, NEW c \in Caches, ProbeCollected(c)
  PROVE  World' /\ PassOK'
<1>1. UNCHANGED <<scenario, api, cached, pass, claim, claimView, view, users, probed, removed>>
  BY Zenon DEF ProbeCollected, controllerVars, worldVars
<1>2. PICK n \in Claims :
        probes' = [probes EXCEPT ![c][n] = IF api[c].phase = "gone" THEN NoProbe
                                           ELSE [NoProbe EXCEPT !.config = probes[c][n].config]]
  BY Zenon DEF ProbeCollected
<1>3. Proven(probes[c][n], n)
  BY Zenon DEF World, JobsNamed
<1>4. Proven(NoProbe, n) /\ Proven([NoProbe EXCEPT !.config = probes[c][n].config], n)
  BY <1>3, ProbeEdits, Zenon
<1>5. \E p : Proven(p, n) /\ probes' = [probes EXCEPT ![c][n] = p]
  BY <1>2, <1>4, Zenon
<1> QED BY <1>1, <1>5, JobWritten, Zenon

(* ResultLost *)
LEMMA ResultLostOK ==
  ASSUME World, PassOK, NEW c \in Caches, NEW u \in Claims, ResultLost(c, u)
  PROVE  World' /\ PassOK'
<1>1. UNCHANGED <<scenario, api, cached, pass, claim, claimView, view, users, probed, removed>>
  BY Zenon DEF ResultLost, Disrupt, controllerVars
<1> DEFINE p == [probes[c][u] EXCEPT !.result = "lost"]
<1>2. JobsNamed(probes) /\ Proven(probes[c][u], u)
  BY Zenon DEF World, JobsNamed
<1>3. probes' = [probes EXCEPT ![c][u] = p]
  BY Zenon DEF ResultLost
<1>4. Proven(p, u)
  BY <1>2, Zenon DEF Proven, ProbeFields
<1> HIDE DEF p
<1> QED BY <1>1, <1>3, <1>4, JobWritten, Zenon

(* The claim changes outside the controller. *)
LEMMA ClaimMoves ==
  ASSUME World, PassOK, NEW cl, ClaimChanges(cl), scenario' = scenario,
         DOMAIN cl = ClaimFields, cl.uid = claim.uid,
         cl.state = "none" => cl.guard = "none",
         claim.state = "none" => cl.state = "none",
         api[Owner].phase = "live" \/ (Unguarded => cl.state = "terminating" \/ cl.guard = "none")
  PROVE  World' /\ PassOK'
<1>1. UNCHANGED <<api, cached, pass, claimView, probes, view, users, probed, removed>> /\ claim' = cl
  BY Zenon DEF ClaimChanges, controllerVars
<1>2. ClaimOK /\ Retained
  BY Zenon DEF World
<1>3. ClaimOK'
  BY <1>1, <1>2, SameCircumstances, Zenon DEF ClaimOK
<1>4. Retained'
  BY <1>1, <1>2, Zenon DEF Retained, Unguarded
<1>5. \A c \in Caches : Before(api[c], api'[c])
  BY <1>1, KinIsBefore, Zenon
<1>6. pass.pc = "finalize" /\ me = Owner => api[Owner].phase # "live"
  BY Zenon DEF PassOK, Holds, Stage, Before
<1>7. pass.pc = "finalize" /\ me = Owner /\ Unguarded => Unguarded'
  BY <1>1, <1>6, Zenon DEF Unguarded
<1> QED BY <1>1, <1>3, <1>4, <1>5, <1>7, ClaimChange, PassKept, Zenon

(* ClaimBinds, ClaimRestored and ClaimCollected *)
LEMMA VolumeStepsOK ==
  ASSUME World, PassOK, ClaimBinds \/ ClaimRestored \/ ClaimCollected
  PROVE  World' /\ PassOK'
<1>1. ClaimOK
  BY Zenon DEF World
<1>2. CASE ClaimBinds
  <2> DEFINE cl == [claim EXCEPT !.state = "bound"]
  <2>1. ClaimChanges(cl) /\ scenario' = scenario /\ claim.state = "pending"
    BY <1>2, Zenon DEF ClaimBinds
  <2>2. DOMAIN cl = ClaimFields /\ cl.uid = claim.uid /\ cl.state = "bound" /\ cl.guard = claim.guard
    BY <1>1, Zenon DEF ClaimOK, ClaimFields
  <2> HIDE DEF cl
  <2> QED BY <2>1, <2>2, ClaimMoves, Zenon DEF Unguarded
<1>3. CASE ClaimRestored
  <2> DEFINE cl == [claim EXCEPT !.valid = TRUE]
  <2>1. ClaimChanges(cl) /\ scenario' = scenario
    BY <1>3, Zenon DEF ClaimRestored
  <2>2. /\ DOMAIN cl = ClaimFields /\ cl.uid = claim.uid /\ cl.state = claim.state
        /\ cl.guard = claim.guard
    BY <1>1, Zenon DEF ClaimOK, ClaimFields
  <2> HIDE DEF cl
  <2> QED BY <1>1, <2>1, <2>2, ClaimMoves, Zenon DEF Unguarded, ClaimOK
<1>4. CASE ClaimCollected
  <2> DEFINE cl == NoClaim(claim.uid)
  <2>1. ClaimChanges(cl) /\ scenario' = scenario
    BY <1>4, Zenon DEF ClaimCollected
  <2>2. DOMAIN cl = ClaimFields /\ cl.uid = claim.uid /\ cl.state = "none" /\ cl.guard = "none"
    BY Zenon DEF NoClaim, ClaimFields
  <2> HIDE DEF cl
  <2> QED BY <2>1, <2>2, ClaimMoves, Zenon
<1> QED BY <1>2, <1>3, <1>4, Zenon

(* ClaimFault: a guard that was set early is set while the owner lives. *)
LEMMA ClaimFaultOK ==
  ASSUME World, PassOK, ClaimFault
  PROVE  World' /\ PassOK'
<1>1. ClaimOK
  BY Zenon DEF World
<1>2. scenario' = scenario /\ claim.state \in {"pending", "bound", "lost"}
  BY Zenon DEF ClaimFault, Disrupt
<1>3. \E cl : /\ ClaimChanges(cl)
              /\ \/ cl = [claim EXCEPT !.state = "terminating"]
                 \/ cl = [claim EXCEPT !.state = "lost"]
                 \/ cl = [claim EXCEPT !.valid = FALSE]
                 \/ cl = [claim EXCEPT !.guard = "pre"] /\ api[Owner].phase = "live"
  BY Zenon DEF ClaimFault
<1>4. PICK cl : /\ ClaimChanges(cl)
                /\ \/ cl = [claim EXCEPT !.state = "terminating"]
                   \/ cl = [claim EXCEPT !.state = "lost"]
                   \/ cl = [claim EXCEPT !.valid = FALSE]
                   \/ cl = [claim EXCEPT !.guard = "pre"] /\ api[Owner].phase = "live"
  BY <1>3, Zenon
<1>5. /\ DOMAIN cl = ClaimFields /\ cl.uid = claim.uid /\ cl.state # "none"
      /\ \/ cl.state = "terminating" \/ cl.guard = claim.guard
         \/ api[Owner].phase = "live"
  BY <1>1, <1>2, <1>4, Zenon DEF ClaimOK, ClaimFields
<1>6. api[Owner].phase = "live" \/ (Unguarded => cl.state = "terminating" \/ cl.guard = "none")
  BY <1>2, <1>5, Zenon DEF Unguarded
<1> QED BY <1>2, <1>4, <1>5, <1>6, ClaimMoves, Zenon

(* QuiescenceElapses *)
LEMMA QuiescenceOK ==
  ASSUME World, PassOK, QuiescenceElapses
  PROVE  World' /\ PassOK'
<1>1. /\ UNCHANGED <<scenario, api, cached, pass, probes, view, users, probed, removed>>
      /\ claim' = [claim EXCEPT !.quiet = TRUE] /\ claimView' = claim'
  BY Zenon DEF QuiescenceElapses, controllerVars, worldVars
<1>2. ClaimOK /\ Retained
  BY Zenon DEF World
<1>3. /\ DOMAIN claim' = ClaimFields /\ claim'.uid = claim.uid /\ claim'.state = claim.state
      /\ claim'.guard = claim.guard
  BY <1>1, <1>2, Zenon DEF ClaimOK, ClaimFields
<1>4. ClaimOK' /\ Retained'
  BY <1>1, <1>2, <1>3, SameCircumstances, Zenon DEF ClaimOK, Retained, Unguarded
<1>5. (\A c \in Caches : Before(api[c], api'[c])) /\ (Unguarded' <=> Unguarded)
  BY <1>1, <1>3, KinIsBefore, Zenon DEF Unguarded
<1> QED BY <1>1, <1>4, <1>5, ClaimChange, PassKept, Zenon

(* Artifacts: what one resolves through a Ready cache was probed. *)
LEMMA ArtifactStepsOK ==
  ASSUME World, PassOK, NEW a \in Artifacts,
         ArtifactCreated(a) \/ ArtifactResolves(a) \/ ArtifactLocates(a) \/ ArtifactDeleted(a)
  PROVE  World' /\ PassOK'
<1>1. \E state, u : ArtifactMoves(a, state, u) /\ scenario' = scenario
                    /\ (Via[a] # None /\ u # 0 => u \in probed)
  <2>1. CASE ArtifactCreated(a) \/ ArtifactDeleted(a)
    BY <2>1, Zenon DEF ArtifactCreated, ArtifactDeleted
  <2>2. CASE ArtifactResolves(a)
    <3>1. Via[a] # None => claim.uid \in probed
      <4> SUFFICES ASSUME Via[a] # None PROVE claim.uid \in probed
        OBVIOUS
      <4>1. Via[a] \in Caches
        BY CacheAssumption, Zenon DEF World, Via, Caches, Artifacts
      <4>2. api[Via[a]].ready /\ api[Via[a]].claim = claim.uid
        BY <2>2, Zenon DEF ArtifactResolves
      <4> QED BY <4>1, <4>2, Zenon DEF World, Objects, Honest
    <3> QED BY <2>2, <3>1, Zenon DEF ArtifactResolves
  <2>3. CASE ArtifactLocates(a)
    <3>1. Via[a] # None /\ users[a].claim # 0 => users[a].claim \in probed
      BY Zenon DEF World, Users, UsedClaimsAreProbed
    <3> QED BY <2>3, <3>1, Zenon DEF ArtifactLocates
  <2> QED BY <2>1, <2>2, <2>3, Zenon
<1>2. PICK state, u : ArtifactMoves(a, state, u) /\ scenario' = scenario
                      /\ (Via[a] # None /\ u # 0 => u \in probed)
  BY <1>1, Zenon
<1>3. /\ UNCHANGED <<scenario, api, cached, pass, claim, claimView, probes, view, probed, removed>>
      /\ users' = [users EXCEPT ![a] = [state |-> state, claim |-> u]]
  BY <1>2, Zenon DEF ArtifactMoves, controllerVars, clusterVars
<1>4. scenario \in Scenarios /\ Objects /\ JobsNamed(probes) /\ JobsNamed(view) /\ ClaimOK /\ Users
      /\ Retained
  BY Zenon DEF World
<1>5. /\ DOMAIN users' = Artifacts
      /\ \A b \in Artifacts : users'[b].claim = IF b = a THEN u ELSE users[b].claim
  BY <1>3, <1>4, Zenon DEF Users
<1>6. Users'
  BY <1>2, <1>3, <1>4, <1>5, SameCircumstances, Zenon DEF Users, UsedClaimsAreProbed
<1>7. Objects'
  BY <1>3, <1>4, SameCircumstances, Zenon DEF Objects, Honest
<1>8. JobsNamed(probes)' /\ JobsNamed(view)'
  BY <1>3, <1>4, SameCircumstances, Zenon DEF JobsNamed, Proven
<1>9. ClaimOK' /\ Retained'
  BY <1>3, <1>4, SameCircumstances, Zenon DEF ClaimOK, Retained, Unguarded
<1>10. World'
  BY <1>3, <1>4, <1>6, <1>7, <1>8, <1>9, Zenon DEF World
<1> QED BY <1>3, <1>10, PassUntouched, Zenon

(* The same record, some time later. *)
Later(r, s) ==
  DOMAIN r = RecordFields =>
    DOMAIN s = RecordFields /\ Kin(s, r) /\ s.ready = r.ready /\ s.claim = r.claim

(* Time changes only what is fresh and what is not. *)
LEMMA TimeIsLater == \A r : Later(r, Aged(r)) /\ Later(r, Older(r))
<1> SUFFICES ASSUME NEW r, DOMAIN r = RecordFields
             PROVE  Later(r, Aged(r)) /\ Later(r, Older(r))
  BY Zenon DEF Later
<1>1. Later(r, Aged(r))
  BY Zenon DEF Later, Aged, RecordFields, Kin
<1>2. \E v : Older(r) = [r EXCEPT !.probe = v]
  BY Zenon DEF Older
<1>3. Later(r, Older(r))
  BY <1>2, Zenon DEF Later, RecordFields, Kin
<1> QED BY <1>1, <1>3, Zenon

(* Time passes for every record and for the copies of the pass. *)
LEMMA TimeOK ==
  ASSUME World, PassOK, DOMAIN api' = Caches, DOMAIN cached' = Caches,
         \A c \in Caches : Later(api[c], api'[c]) /\ Later(cached[c], cached'[c]),
         NEW v, NEW w, Later(obj, v), Later(pass.want, w),
         pass' = [pass EXCEPT !.obj = v, !.want = w],
         UNCHANGED <<clusterVars, worldVars>>
  PROVE  World' /\ PassOK'
<1>1. UNCHANGED <<scenario, claim, claimView, probes, view, users, probed, removed>>
  BY Zenon DEF clusterVars, worldVars
<1>2. Objects /\ Owner \in Caches
  BY OwnerKnown, Zenon DEF World
<1>3. ASSUME NEW c \in Caches
      PROVE  /\ Kin(api'[c], api[c]) /\ Kin(cached'[c], cached[c])
             /\ Honest(api'[c]) /\ Honest(cached'[c])
  BY <1>2, <1>3 DEF Objects, Honest, Later, Kin
<1>4. ASSUME NEW c \in Caches PROVE Before(cached'[c], api'[c])
  BY <1>2, <1>3, <1>4, KinIsBefore, Zenon DEF Objects
<1>5. Objects'
  BY <1>1, <1>3, <1>4, SameCircumstances, Zenon DEF Objects, Honest
<1>6. World'
  BY <1>1, <1>2, <1>3, <1>5, OwnerKin, ObjectsChange, Zenon
<1>7. /\ DOMAIN pass' = PassFields /\ pass'.pc = pass.pc /\ pass'.me = me /\ pass'.obj = v
      /\ pass'.want = w /\ pass'.claim = pass.claim /\ pass'.job = pass.job
      /\ pass'.then = pass.then
  BY Zenon DEF PassOK, PassFields, me
<1>8. ASSUME Holds PROVE Holds' /\ Kin(v, obj)
  <2>1. Honest(v) /\ Kin(v, obj)
    BY <1>8, Zenon DEF Holds, Honest, Later, Kin
  <2>2. Before(v, api'[me])
    BY <1>3, <1>8, <2>1, KinIsBefore, Zenon DEF Holds
  <2> QED BY <1>1, <1>7, <1>8, <2>1, <2>2, SameCircumstances DEF Holds, Honest, me, obj
<1>9. ASSUME Holds, Stage PROVE Stage'
  <2>1. Kin(v, obj) /\ me' = me /\ obj' = v /\ uid' = uid /\ (Unguarded' <=> Unguarded)
    BY <1>1, <1>7, <1>8, <1>9, Zenon DEF me, obj, uid, Unguarded
  <2>2. WriteOK => WriteOK'
    BY <1>1, <1>7, <2>1 DEF WriteOK, Honest, Later, Kin
  <2>3. v.phase = obj.phase /\ v.policy = obj.policy /\ v.fin = obj.fin
    BY <2>1, Zenon DEF Kin
  <2> QED BY <1>1, <1>7, <1>9, <2>1, <2>2, <2>3, SameCircumstances
          DEF Stage, ProbingSteps, DeletingSteps, RemovingSteps
<1> QED BY <1>6, <1>7, <1>8, <1>9, Zenon DEF PassOK

(* DelayElapses and ProbeAges *)
LEMMA TimePassesOK ==
  ASSUME World, PassOK, DelayElapses \/ ProbeAges
  PROVE  World' /\ PassOK'
<1>1. CASE DelayElapses
  <2>1. /\ api' = [c \in Caches |-> Aged(api[c])] /\ cached' = [c \in Caches |-> Aged(cached[c])]
        /\ pass' = [pass EXCEPT !.obj = Aged(obj), !.want = Aged(pass.want)]
        /\ UNCHANGED <<clusterVars, worldVars>>
    BY <1>1, Zenon DEF DelayElapses, TimePasses, obj
  <2> QED BY <2>1, TimeIsLater, TimeOK, Zenon
<1>2. CASE ProbeAges
  <2>1. /\ api' = [c \in Caches |-> Older(api[c])] /\ cached' = [c \in Caches |-> Older(cached[c])]
        /\ pass' = [pass EXCEPT !.obj = Older(obj), !.want = Older(pass.want)]
        /\ UNCHANGED <<clusterVars, worldVars>>
    BY <1>2, Zenon DEF ProbeAges, TimePasses, obj
  <2> QED BY <2>1, TimeIsLater, TimeOK, Zenon
<1> QED BY <1>1, <1>2, Zenon

(* ManagerRestarts: the pass is lost and the informers start afresh. *)
LEMMA RestartOK ==
  ASSUME World, PassOK, ManagerRestarts
  PROVE  World' /\ PassOK'
<1>1. /\ UNCHANGED <<scenario, api, claim, probes, users, probed, removed>>
      /\ pass' = Idle /\ cached' = api /\ claimView' = claim /\ view' = probes
  BY Zenon DEF ManagerRestarts, Disrupt
<1>2. scenario \in Scenarios /\ Objects /\ JobsNamed(probes) /\ ClaimOK /\ Users /\ Retained
  BY Zenon DEF World
<1>3. Objects'
  BY <1>1, <1>2, SameCircumstances, KinIsBefore, Zenon DEF Objects, Honest
<1>4. JobsNamed(probes)' /\ JobsNamed(view)'
  BY <1>1, <1>2, SameCircumstances, Zenon DEF JobsNamed, Proven
<1>5. ClaimOK' /\ Retained'
  BY <1>1, <1>2, SameCircumstances, Zenon DEF ClaimOK, Retained, Unguarded
<1>6. Users'
  BY <1>1, <1>2, SameCircumstances, Zenon DEF Users, UsedClaimsAreProbed
<1> QED BY <1>1, <1>2, <1>3, <1>4, <1>5, <1>6, IdlePass, Zenon DEF World

-----------------------------------------------------------------------------
(* The theorems. *)

(* The initial states. *)
LEMMA InitOK == Init => CacheInv
<1> SUFFICES ASSUME Init PROVE CacheInv
  OBVIOUS
<1>1. scenario \in Scenarios /\ Owner \in Caches /\ MaxClaims \in Nat
  BY CacheAssumption, Zenon DEF Init, Caches, MaxClaims
<1>2. PICK p \in Retention : api = [c \in Caches |-> IF c = Owner THEN Created(p) ELSE Absent]
  BY Zenon DEF Init
<1>3. Honest(Created(p)) /\ Created(p).phase = "live"
  BY Zenon DEF Honest, Created, RecordFields
<1>4. Honest(Absent)
  BY Zenon DEF Honest, Absent, Created, RecordFields
<1>5. Objects
  BY <1>2, <1>3, <1>4, KinIsBefore, Zenon DEF Init, Objects
<1>6. JobsNamed(probes) /\ JobsNamed(view)
  BY Zenon DEF Init, JobsNamed, Proven, NoProbe, ProbeFields
<1>7. /\ DOMAIN claim = ClaimFields /\ claim.uid = 0 /\ claim.state = "none" /\ claim.guard = "none"
      /\ claimView = claim
  BY Zenon DEF Init, NoClaim, ClaimFields
<1>8. ClaimOK
  BY <1>1, <1>7 DEF ClaimOK, Claims
<1>9. Users
  BY Zenon DEF Init, Users, UsedClaimsAreProbed
<1>10. api[Owner] = Created(p) /\ removed = {}
  BY <1>1, <1>2, Zenon DEF Init
<1>11. Retained
  BY <1>3, <1>7, <1>10, Zenon DEF Retained
<1>12. PassOK
  BY Zenon DEF Init, PassOK, Idle, PassFields
<1> QED BY <1>1, <1>5, <1>6, <1>8, <1>9, <1>11, <1>12, Zenon DEF CacheInv, World

(* Every step of a pass keeps the invariant. *)
LEMMA PassStepOK ==
  ASSUME World, PassOK, PassStep
  PROVE  World' /\ PassOK'
  BY AddFinalizerOK, WriteStatusOK, ensureClaimOK, ReadClaimOK, reconcileFreshReadyOK,
     cleanupCompletedOK, EnsureProbeConfigOK, EnsureProbeJobOK, GetProbeJobOK, RestartConsumerOK,
     reconcileProbeOK, DropConfigOK, DropJobOK, RetryJobOK, RetryConfigOK, TerminatingOK,
     StopProbesOK, DropProbeConfigsOK, ArtifactReferencesOK, ManagedClaimOK, GuardOK,
     LastReferencesOK, RevalidateOK, DeleteClaimOK, ClearGuardOK, DropGuardOK, FinalizeOK, Zenon
  DEF PassStep

(* Everything around a pass keeps the invariant. *)
LEMMA EnvironmentOK ==
  ASSUME World, PassOK, Environment
  PROVE  World' /\ PassOK'
  BY CacheCreatedOK, UserDeletesOK, ProbeCollectedOK, ProbeEndsOK, PodsStopOK, ResultLostOK,
     PolicyChangesOK, VolumeStepsOK, ClaimFaultOK, ArtifactStepsOK, TimePassesOK, QuiescenceOK,
     RestartOK, Zenon, Zenon
  DEF Environment

(* The inductive invariant holds in every state. *)
THEOREM CacheInvariant == Spec => []CacheInv
<1>1. CacheInv /\ [Next]_vars => CacheInv'
  <2> SUFFICES ASSUME World, PassOK, [Next]_vars PROVE World' /\ PassOK'
    BY Zenon DEF CacheInv
  <2>1. CASE InformerSync
    BY <2>1, ClaimSyncOK, CacheSyncOK, ProbeSyncOK, Zenon DEF InformerSync
  <2>2. CASE \E c \in Caches : Reconcile(c)
    BY <2>2, ReconcileOK, Zenon
  <2>3. CASE PassStep
    BY <2>3, PassStepOK, Zenon
  <2>4. CASE Environment
    BY <2>4, EnvironmentOK, Zenon
  <2>5. CASE UNCHANGED vars
    <3>1. UNCHANGED <<scenario, api, cached, pass, claim, claimView, probes, view, users, probed,
                      removed>>
      BY <2>5, Zenon DEF vars, clusterVars, worldVars
    <3> QED BY <3>1, WorldStays, PassUntouched, Zenon
  <2> QED BY <2>1, <2>2, <2>3, <2>4, <2>5, Zenon DEF Next
<1> QED BY <1>1, InitOK, PTL DEF Spec

(* An artifact that uses the claim through a cache uses a claim whose          *)
(* filesystem was probed, however often claims are replaced under the same     *)
(* name and however stale the informers are (desiredProbeResources,            *)
(* reconcileProbe, canPreserveCacheReady).                                     *)
THEOREM UsedClaimsProbed == Spec => []UsedClaimsAreProbed
<1>1. CacheInv => UsedClaimsAreProbed
  BY Zenon DEF CacheInv, World, Users
<1> QED BY <1>1, CacheInvariant, PTL

(* The controller deletes the claim only under the policy Delete, and a        *)
(* finalized owner under Retain leaves it unguarded (reconcileDelete,          *)
(* validateModelCacheUpdate).                                                  *)
THEOREM RetentionIsHonoured == Spec => []RetentionHonoured
<1>1. CacheInv => RetentionHonoured
  BY Zenon DEF CacheInv, World, Retained, Unguarded, RetentionHonoured
<1> QED BY <1>1, CacheInvariant, PTL
=============================================================================
