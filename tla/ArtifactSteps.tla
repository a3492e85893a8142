--------------------------- MODULE ArtifactSteps ----------------------------
(***************************************************************************)
(* The inductive invariant of ArtifactController, and the steps of an      *)
(* import pass: everything from the finalizer to a result in status.       *)
(*                                                                         *)
(* World relates the objects of the cluster to each other, PassOK what the *)
(* worker read earlier in its pass to what is there now.  The argument in  *)
(* short.  An object only moves forward (Older), so what a stale copy says *)
(* of the phase, the finalizer and the checkpoint still binds.  An object  *)
(* without a checkpoint owns nothing (Checkpointed).  A pass that imports  *)
(* began with a live object, one that cleans up with a deleted one, and    *)
(* there is one worker: so a cleanup Job and an importer never meet        *)
(* (CleanupAlone), and what a deleting pass has removed stays removed      *)
(* until it releases the finalizer (Stages).                               *)
(***************************************************************************)
EXTENDS ArtifactController, TLAPS

(* The shapes of the records, as EXCEPT preserves them. *)
RecordFields  == {"phase", "fin", "loc", "ready", "digest", "failure", "jobRef", "cleaned"}
PassFields    == {"pc", "me", "obj", "op", "job", "want", "again", "then"}
JobFields     == {"uid", "status", "result", "digest", "source", "deleting"}
LeaseFields   == {"holder", "live"}
StorageFields == {"cache", "ready", "claim", "state", "source"}
CleanupType   == [status : {"none", "active", "complete", "failed"}, good : BOOLEAN,
                  deleting : BOOLEAN, pod : BOOLEAN, config : BOOLEAN]

Busy == ~At("idle")

(* A ModelArtifact that was never given the finalizer has no checkpoint and is *)
(* not Ready, and only a deleted one is marked as cleaned.                     *)
Sane(r, ops) ==
  /\ DOMAIN r = RecordFields
  /\ r.phase \in {"live", "deleting", "gone"}
  /\ ~r.fin => r.loc = 0 /\ ~r.ready
  /\ r.phase = "gone" => ~r.fin
  /\ r.cleaned => r.phase = "deleting"
  /\ r.jobRef # None => r.jobRef.op \in ops

(* f differs from r in its conditions, the Job it refers to and the digest, at most. *)
Alike(f, r) == f.phase = r.phase /\ f.fin = r.fin /\ f.loc = r.loc /\ f.cleaned = r.cleaned
Kin(f, r)   == Alike(f, r) /\ f.digest = r.digest

(* r is an earlier version of s: deletion, the finalizer and the checkpoint *)
(* are not taken back, and a finalizer outlives the live object.            *)
Older(r, s) ==
  /\ r.phase # "live" => s.phase # "live"
  /\ r.phase = "gone" => s.phase = "gone"
  /\ r.phase = "live" /\ r.fin => s.phase # "gone"
  /\ s.phase # "gone" => (r.fin => s.fin) /\ (r.loc # 0 => s.loc = r.loc)

Shapes ==
  /\ scenario \in Scenarios
  /\ DOMAIN api = Artifacts /\ DOMAIN cached = Artifacts
  /\ DOMAIN jobs = Artifacts /\ DOMAIN pods = Artifacts /\ DOMAIN configs = Artifacts
  /\ \A a \in Artifacts :
       /\ DOMAIN jobs[a] = Ops /\ DOMAIN configs[a] = Ops
       /\ \A o \in Ops : DOMAIN jobs[a][o] = JobFields
  /\ DOMAIN leases = Fingerprints /\ \A f \in Fingerprints : DOMAIN leases[f] = LeaseFields
  /\ cleanups \in [Artifacts -> CleanupType]
  /\ DOMAIN mounts = Artifacts /\ DOMAIN dirty = Artifacts
  /\ DOMAIN storage = StorageFields
  /\ storage.cache \in 0..MaxCaches /\ storage.claim \in 0..MaxClaims

(* The informer cache never runs ahead of the API server. *)
Records ==
  \A a \in Artifacts : Sane(api[a], Ops) /\ Sane(cached[a], Ops) /\ Older(cached[a], api[a])

(* Nothing of the artifact's importers is left; or none of them runs. *)
Stopped(a)  == \A o \in Ops : jobs[a][o].status = "none"
Unpinned(a) == \A o \in Ops : configs[a][o] = "none"
Quiet(a)    == \A o \in Ops : jobs[a][o].status \in {"none", "complete", "failed"}

(* Without the checkpoint there is nothing to clean up. *)
Checkpointed ==
  \A a \in Artifacts : api[a].loc = 0 => Stopped(a) /\ Unpinned(a) /\ Held(a) = {}

(* An importer Pod runs for the Job that is there, never for an earlier one. *)
PodsHaveJobs ==
  \A a \in Artifacts : \A p \in pods[a] :
    /\ p.op \in Ops /\ p = Ref(p.op, jobs[a][p.op])
    /\ jobs[a][p.op].status \in {"active", "blocked"}

(* At most one operation of an artifact has a Job. *)
OneJob ==
  \A a \in Artifacts : \A o \in Ops :
    /\ jobs[a][o].status = "none" => jobs[a][o] = NoJob
    /\ jobs[a][o].status # "none" => \A q \in Ops : jobs[a][q].status # "none" => q = o

(* A cleanup Pod runs only once deletion is known even to the cache. *)
CleanupAlone ==
  \A a \in Artifacts : cleanups[a].pod => cached[a].phase # "live" /\ Quiet(a) /\ ~mounts[a]

(* What is served is held by its finalizer. *)
MountsHold == \A a \in Artifacts : mounts[a] => api[a].fin

(* Where renewal is timely, a running importer holds the Lease of its          *)
(* fingerprint.  The fingerprint of a Copy says whether the source is mounted,  *)
(* and a pass computes it from the digest it read: with a stale digest it may   *)
(* start an importer whose Lease the next pass takes for an obsolete one, so a  *)
(* Copy is held to reading fresh objects.                                       *)
Exclusive == ~LeaseExpiry /\ (Mode = "Copy" => ~InformerLag)
LeaseOf(a, o) == [op |-> o, source |-> Mode # "Hub" /\ jobs[a][o].source]
LeasesHeld ==
  Exclusive =>
    /\ \A f \in Fingerprints : leases[f].holder # None => leases[f].live
    /\ \A a \in Artifacts : \A p \in pods[a] :
         /\ leases[LeaseOf(a, p.op)].holder = a
         /\ Mode # "Hub" => jobs[a][p.op].source = needsSource(api[a])

(* Transient files lie on past or present claims, and none on a claim that      *)
(* is there once a cleanup succeeded or the object is gone.                     *)
Clean(a) == storage.claim \in dirty[a] => storage.state = "gone"
FilesClean ==
  \A a \in Artifacts :
    /\ \A c \in dirty[a] : c \in 0..storage.claim
    /\ Mode = "Direct" => dirty[a] = {}
    /\ api[a].phase # "gone" /\ api[a].loc = 0 => dirty[a] = {}
    /\ api[a].phase = "gone" => Clean(a)
    /\ cleanups[a].good \/ api[a].cleaned \/ cached[a].cleaned => Clean(a) /\ cached[a].phase # "live"

(* A cleanup Job that is not there did nothing, and no cleanup object is left   *)
(* behind by a pass that read the object fresh.                                 *)
CleanupsEnd ==
  \A a \in Artifacts :
    /\ cleanups[a].status = "none" => ~cleanups[a].good /\ ~cleanups[a].deleting /\ ~cleanups[a].pod
    /\ ~api[a].fin /\ (InformerLag => api[a].phase = "live") => cleanups[a] = NoCleanup

World ==
  /\ Shapes /\ Records /\ Checkpointed /\ PodsHaveJobs /\ OneJob /\ CleanupAlone /\ MountsHold
  /\ LeasesHeld /\ FilesClean /\ CleanupsEnd

(* What the pass knows of its artifact: the copy it read is an earlier version,  *)
(* a live copy excludes a cleanup, and a fresh one holds the digest that is      *)
(* there until the pass itself writes it.                                        *)
PassKnows ==
  Busy =>
    /\ me \in Artifacts /\ Sane(obj, Ops) /\ Older(obj, api[me])
    /\ obj.phase # "live" => obj.phase = "deleting" /\ cached[me].phase # "live"
    /\ obj.phase = "live" => /\ ~cleanups[me].pod /\ ~cleanups[me].good
                             /\ ~api[me].cleaned /\ ~cached[me].cleaned
    /\ obj.cleaned => Clean(me)
    /\ obj.fin => \/ InformerLag
                  \/ /\ api[me].phase # "gone"
                     /\ At("release") \/ api[me].digest = obj.digest

(* What a pass has established at each of its steps. *)
Live     == obj.phase = "live" /\ obj.fin
Resolved == Live /\ obj.loc # 0 /\ pass.op \in Ops /\ pass.op.claim <= storage.claim
OnlyOp   == \A o \in Ops : jobs[me][o].status # "none" => o = pass.op
Leased   == Exclusive => leases[artifactLeaseFingerprint(obj, pass.op)].holder = me

Deleting       == obj.phase = "deleting" /\ obj.fin
Unserved       == Deleting /\ ~mounts[me]
WithoutJobs    == Unserved /\ Stopped(me)
WithoutConfigs == WithoutJobs /\ Unpinned(me)
WithoutLeases  == WithoutConfigs /\ Held(me) = {}

Stages ==
  \/ At("idle")
  \/ At("addFinalizer") /\ obj.phase = "live"
  \/ At("resolve") /\ Live
  \/ At("status") /\ obj.fin
  \/ At("retained") /\ Resolved /\ obj.jobRef # None
  \/ At("dropRetained") /\ Resolved /\ obj.jobRef # None /\ Quiet(me)
  \/ At("obsoleteJobs") /\ Resolved
  \/ /\ pass.pc \in {"readyLeases", "result", "release", "releaseFailed", "failed", "dropJob", "dropConfig"}
     /\ Resolved /\ Quiet(me)
  \/ pass.pc \in {"obsoleteRest", "acquire", "observe", "renew", "inspect"} /\ Resolved /\ OnlyOp
  \/ pass.pc \in {"config", "ensureConfig", "ensureJob"} /\ Resolved /\ OnlyOp /\ Leased
  \/ pass.pc \in {"references", "servingPods"} /\ Deleting
  \/ At("stopImporters") /\ Unserved
  \/ At("importerConfigs") /\ WithoutJobs
  \/ At("deleteLeases") /\ WithoutConfigs
  \/ pass.pc \in {"cleanupStorage", "cleanupConfig", "cleanupJob", "cleanupResult"} /\ WithoutLeases
  \/ At("detachedJob") /\ WithoutLeases /\ Clean(me)
  \/ At("detachedConfig") /\ WithoutLeases /\ Clean(me) /\ cleanups[me].status = "none"
  \/ /\ At("finalize") /\ WithoutLeases /\ Clean(me) /\ cleanups[me].status = "none"
     /\ ~cleanups[me].config

(* A status that is about to be written keeps the checkpoint and the digest. *)
WillWrite ==
  At("status") =>
    /\ Sane(pass.want, Ops) /\ pass.want.phase = obj.phase /\ pass.want.fin = obj.fin
    /\ obj.loc # 0 => pass.want.loc = obj.loc
    /\ obj.digest # None => pass.want.digest = obj.digest
    /\ pass.want.cleaned => Clean(me)
    /\ \/ pass.then = "idle" /\ pass.want.digest = obj.digest
       \/ pass.then = "release" /\ Resolved /\ Quiet(me)

PassOK == DOMAIN pass = PassFields /\ PassKnows /\ Stages /\ WillWrite

(* The inductive invariant. *)
ArtifactInv == World /\ PassOK

(* The scenario never changes, and with it the sets it fixes. *)
LEMMA SameSets ==
  ASSUME scenario' = scenario
  PROVE  /\ Artifacts' = Artifacts /\ Ops' = Ops /\ Fingerprints' = Fingerprints /\ Mode' = Mode
         /\ InformerLag' = InformerLag /\ LeaseExpiry' = LeaseExpiry /\ Credential' = Credential
         /\ MaxClaims' = MaxClaims /\ MaxCaches' = MaxCaches /\ (Exclusive' <=> Exclusive)
<1>1. /\ Artifacts' = Artifacts /\ Mode' = Mode /\ Credential' = Credential
      /\ InformerLag' = InformerLag /\ LeaseExpiry' = LeaseExpiry
      /\ MaxClaims' = MaxClaims /\ MaxCaches' = MaxCaches
  BY Zenon DEF Artifacts, Mode, InformerLag, LeaseExpiry, Credential, MaxClaims, MaxCaches
<1>2. Ops' = Ops
  BY <1>1, Zenon DEF Ops
<1> QED
  BY <1>1, <1>2, Zenon DEF Fingerprints, Exclusive

(* Each conjunct of World is kept when the variables it mentions are. *)
LEMMA Frames ==
  ASSUME World, scenario' = scenario
  PROVE  /\ UNCHANGED <<api, cached>> => Records'
         /\ UNCHANGED <<api, jobs, configs, leases>> => Checkpointed'
         /\ UNCHANGED <<pods, jobs>> => PodsHaveJobs'
         /\ UNCHANGED jobs => OneJob'
         /\ UNCHANGED <<cleanups, cached, jobs, mounts>> => CleanupAlone'
         /\ UNCHANGED <<mounts, api>> => MountsHold'
         /\ UNCHANGED <<leases, pods, jobs, api>> => LeasesHeld'
         /\ UNCHANGED <<dirty, storage, api, cached, cleanups>> => FilesClean'
         /\ UNCHANGED <<cleanups, api>> => CleanupsEnd'
<1>1. UNCHANGED <<api, cached>> => Records'
  BY SameSets, Zenon DEF World, Records
<1>2. UNCHANGED <<api, jobs, configs, leases>> => Checkpointed'
  BY SameSets DEF World, Checkpointed, Stopped, Unpinned, Held
<1>3. UNCHANGED <<pods, jobs>> => PodsHaveJobs'
  BY SameSets, Zenon DEF World, PodsHaveJobs
<1>4. UNCHANGED jobs => OneJob'
  BY SameSets DEF World, OneJob
<1>5. UNCHANGED <<cleanups, cached, jobs, mounts>> => CleanupAlone'
  BY SameSets, Zenon DEF World, CleanupAlone, Quiet
<1>6. UNCHANGED <<mounts, api>> => MountsHold'
  BY SameSets, Zenon DEF World, MountsHold
<1>7. UNCHANGED <<leases, pods, jobs, api>> => LeasesHeld'
  <2> SUFFICES ASSUME UNCHANGED <<leases, pods, jobs, api>> PROVE LeasesHeld'
    OBVIOUS
  <2>1. \A a \in Artifacts : (needsSource(api[a]))' = needsSource(api[a])
    BY SameSets DEF needsSource
  <2>2. \A a, o : LeaseOf(a, o)' = LeaseOf(a, o)
    BY SameSets, Zenon DEF LeaseOf
  <2>3. ASSUME \A f \in Fingerprints : leases[f].holder # None => leases[f].live
        PROVE  (\A f \in Fingerprints : leases[f].holder # None => leases[f].live)'
    BY <2>3, SameSets, Zenon
  <2>4. ASSUME NEW a \in Artifacts, NEW p \in pods[a],
               /\ leases[LeaseOf(a, p.op)].holder = a
               /\ Mode # "Hub" => jobs[a][p.op].source = needsSource(api[a])
        PROVE  (/\ leases[LeaseOf(a, p.op)].holder = a
                /\ Mode # "Hub" => jobs[a][p.op].source = needsSource(api[a]))'
    BY <2>1, <2>2, <2>4, SameSets, Zenon
  <2> QED
    BY <2>3, <2>4, SameSets DEF World, LeasesHeld
<1>8. UNCHANGED <<dirty, storage, api, cached, cleanups>> => FilesClean'
  BY SameSets, Zenon DEF World, FilesClean, Clean
<1>9. UNCHANGED <<cleanups, api>> => CleanupsEnd'
  BY SameSets DEF World, CleanupsEnd
<1> QED
  BY <1>1, <1>2, <1>3, <1>4, <1>5, <1>6, <1>7, <1>8, <1>9, Zenon

(* If no object of the cluster changes, World is kept. *)
LEMMA WorldFrame ==
  ASSUME World,
         UNCHANGED <<scenario, api, cached, storage, jobs, pods, configs, leases, cleanups, mounts, dirty>>
  PROVE  World'
<1>1. Shapes'
  BY SameSets, Zenon DEF World, Shapes
<1> QED
  BY <1>1, Frames, Zenon DEF World

(* A pass that has ended promises nothing. *)
LEMMA IdleOK == ASSUME pass' = Idle PROVE PassOK'
<1>1. DOMAIN pass' = PassFields /\ pass'.pc = "idle"
  BY Zenon DEF Idle, PassFields
<1> QED
  BY <1>1, Zenon DEF PassOK, PassKnows, WillWrite, Stages, Busy, At

(* The pass goes on with the copy it read: it still knows what it knew. *)
LEMMA KnowsFrame ==
  ASSUME PassKnows, Busy, scenario' = scenario, pass'.me = me, pass'.obj = obj,
         At("release") => pass'.pc = "release",
         UNCHANGED <<api, cached, cleanups, storage, dirty>>
  PROVE  PassKnows'
<1>1. me' = me /\ obj' = obj
  BY Zenon DEF me, obj
<1>2. Clean(me)' = Clean(me)
  BY <1>1, Zenon DEF Clean
<1>3. At("release") => At("release")'
  BY Zenon DEF At
<1> QED
  BY <1>1, <1>2, <1>3, SameSets, Zenon DEF PassKnows, At

(* Goto changes nothing but the step. *)
LEMMA GotoFacts ==
  ASSUME DOMAIN pass = PassFields, NEW s, pass' = [pass EXCEPT !.pc = s]
  PROVE  /\ DOMAIN pass' = PassFields /\ pass'.pc = s /\ pass'.me = me /\ pass'.obj = obj
         /\ pass'.op = pass.op /\ pass'.job = pass.job /\ me' = me /\ obj' = obj
  BY Zenon DEF PassFields, me, obj

(* A pass that goes on to a step whose condition holds is in order. *)
LEMMA GoOK ==
  ASSUME PassOK, Busy, NEW s, s \notin {"idle", "status"}, At("release") => s = "release",
         pass'.pc = s, DOMAIN pass' = PassFields, pass'.me = me, pass'.obj = obj,
         UNCHANGED <<scenario, api, cached, cleanups, storage, dirty>>, Stages'
  PROVE  PassOK'
<1>1. PassKnows'
  BY KnowsFrame, Zenon DEF PassOK
<1> QED
  BY <1>1, Zenon DEF PassOK, WillWrite, At

(* WriteThen remembers the status to write and leaves the rest of the pass. *)
LEMMA WriteFacts ==
  ASSUME DOMAIN pass = PassFields, NEW r, NEW q, NEW s,
         pass' = [pass EXCEPT !.pc = "status", !.want = r, !.again = q, !.then = s]
  PROVE  /\ DOMAIN pass' = PassFields /\ pass'.pc = "status" /\ pass'.me = me /\ pass'.obj = obj
         /\ pass'.op = pass.op /\ pass'.want = r /\ pass'.then = s /\ me' = me /\ obj' = obj
  BY Zenon DEF PassFields, me, obj

(* A pass that will write a status with the same phase, finalizer, *)
(* checkpoint and digest is in order (Report).                     *)
LEMMA ReportOK ==
  ASSUME PassOK, Busy, ~At("release"), obj.fin, NEW r, NEW q,
         pass' = [pass EXCEPT !.pc = "status", !.want = r, !.again = q, !.then = "idle"],
         Sane(r, Ops), r.phase = obj.phase, r.fin = obj.fin, obj.loc # 0 => r.loc = obj.loc,
         r.digest = obj.digest, r.cleaned => Clean(me),
         UNCHANGED <<scenario, api, cached, cleanups, storage, dirty>>
  PROVE  PassOK'
<1>1. /\ DOMAIN pass' = PassFields /\ pass'.pc = "status" /\ pass'.me = me /\ pass'.obj = obj
      /\ pass'.want = r /\ pass'.then = "idle" /\ me' = me /\ obj' = obj
  BY WriteFacts, Zenon DEF PassOK
<1>2. PassKnows'
  BY <1>1, KnowsFrame, Zenon DEF PassOK
<1>3. Clean(me)' = Clean(me)
  BY <1>1, Zenon DEF Clean
<1> QED
  BY <1>1, <1>2, <1>3, SameSets, Zenon DEF PassOK, WillWrite, Stages, At

(* artifactFailure changes the conditions only. *)
LEMMA FailureFacts ==
  ASSUME NEW r, NEW ops, Sane(r, ops), NEW t, NEW x
  PROVE  Sane(artifactFailure(r, t, x), ops) /\ Kin(artifactFailure(r, t, x), r)
<1> DEFINE f == artifactFailure(r, t, x)
<1>1. /\ DOMAIN f = RecordFields /\ f.phase = r.phase /\ f.fin = r.fin /\ f.loc = r.loc
      /\ f.digest = r.digest /\ f.cleaned = r.cleaned /\ f.ready = FALSE /\ f.jobRef = r.jobRef
  BY Zenon DEF Sane, RecordFields, artifactFailure
<1> HIDE DEF f
<1>2. Sane(f, ops) /\ Kin(f, r)
  BY <1>1, Zenon DEF Sane, Kin, Alike
<1> QED
  BY <1>2, Zenon DEF f

(* markImporting changes the conditions and the Job reference only. *)
LEMMA ImportingFacts ==
  ASSUME NEW r, NEW ops, Sane(r, ops), NEW x, x # None => x.op \in ops
  PROVE  Sane(markImporting(r, x), ops) /\ Kin(markImporting(r, x), r)
<1> DEFINE f == markImporting(r, x)
<1>1. /\ DOMAIN f = RecordFields /\ f.phase = r.phase /\ f.fin = r.fin /\ f.loc = r.loc
      /\ f.digest = r.digest /\ f.cleaned = r.cleaned /\ f.ready = FALSE /\ f.jobRef = x
  BY Zenon DEF Sane, RecordFields, markImporting
<1> HIDE DEF f
<1>2. Sane(f, ops) /\ Kin(f, r)
  BY <1>1, Zenon DEF Sane, Kin, Alike
<1> QED
  BY <1>2, Zenon DEF f

(* One ModelArtifact is written: World is kept when the new version is a *)
(* later one and matches what its artifact owns.                         *)
LEMMA ApiChanges ==
  ASSUME World, NEW m \in Artifacts, NEW r, api' = [api EXCEPT ![m] = r],
         UNCHANGED <<scenario, cached, storage, jobs, pods, configs, leases, cleanups, mounts, dirty>>,
         Sane(r, Ops), Older(cached[m], r),
         r.loc = 0 => Stopped(m) /\ Unpinned(m) /\ Held(m) = {},
         mounts[m] => r.fin,
         pods[m] # {} /\ Mode # "Hub" => needsSource(r) = needsSource(api[m]),
         r.phase # "gone" /\ r.loc = 0 => dirty[m] = {},
         r.phase = "gone" => Clean(m),
         r.cleaned => Clean(m) /\ cached[m].phase # "live",
         ~r.fin /\ (InformerLag => r.phase = "live") => cleanups[m] = NoCleanup
  PROVE  World'
<1>1. DOMAIN api' = Artifacts /\ api'[m] = r /\ \A a \in Artifacts : a # m => api'[a] = api[a]
  BY Zenon DEF World, Shapes
<1>2. Shapes'
  BY <1>1, SameSets, Zenon DEF World, Shapes
<1>3. Records'
  BY <1>1, SameSets, Zenon DEF World, Records
<1>4. Checkpointed'
  BY <1>1, SameSets DEF World, Checkpointed, Stopped, Unpinned, Held
<1>5. MountsHold'
  BY <1>1, SameSets, Zenon DEF World, MountsHold
<1>6. LeasesHeld'
  <2> SUFFICES ASSUME Exclusive PROVE LeasesHeld'
    BY SameSets, Zenon DEF LeasesHeld
  <2>1. \A a \in Artifacts : pods[a] # {} /\ Mode # "Hub" => (needsSource(api[a]))' = needsSource(api[a])
    BY <1>1, SameSets DEF needsSource
  <2>2. \A a, o : LeaseOf(a, o)' = LeaseOf(a, o)
    BY SameSets, Zenon DEF LeaseOf
  <2>3. ASSUME NEW a \in Artifacts, NEW p \in pods[a]
        PROVE  (/\ leases[LeaseOf(a, p.op)].holder = a
                /\ Mode # "Hub" => jobs[a][p.op].source = needsSource(api[a]))'
    <3>1. /\ leases[LeaseOf(a, p.op)].holder = a
          /\ Mode # "Hub" => jobs[a][p.op].source = needsSource(api[a])
      BY Zenon DEF World, LeasesHeld
    <3> QED
      BY <2>1, <2>2, <3>1, SameSets, Zenon
  <2> QED
    BY <2>3, SameSets, Zenon DEF World, LeasesHeld
<1>7. FilesClean'
  BY <1>1, SameSets, Zenon DEF World, FilesClean, Clean
<1>8. CleanupsEnd'
  BY <1>1, SameSets DEF World, CleanupsEnd
<1> QED
  BY <1>2, <1>3, <1>4, <1>5, <1>6, <1>7, <1>8, Frames, Zenon DEF World

(* Reconcile reads the artifact from the cache and starts a pass. *)
LEMMA ReconcileStep ==
  ASSUME ArtifactInv, NEW a \in Artifacts, Reconcile(a) PROVE ArtifactInv'
<1> DEFINE r == cached[a]
<1>1. /\ UNCHANGED <<scenario, api, cached, storage, jobs, pods, configs, leases, cleanups, mounts, dirty>>
      /\ InformerLag \/ r = api[a]
  BY Zenon DEF Reconcile, clusterVars, worldVars
<1>2. World'
  BY <1>1, WorldFrame, Zenon DEF ArtifactInv
<1> DEFINE step == CASE r.phase = "gone"     -> "idle"
                     [] r.phase = "deleting" -> IF r.fin THEN "references" ELSE "idle"
                     [] r.phase = "live"     -> IF r.fin THEN "resolve" ELSE "addFinalizer"
<1>3. \/ step = "idle"
      \/ step = "references" /\ r.phase = "deleting" /\ r.fin
      \/ step = "addFinalizer" /\ r.phase = "live"
      \/ step = "resolve" /\ r.phase = "live" /\ r.fin
  <2>1. r.phase \in {"live", "deleting", "gone"}
    BY Zenon DEF ArtifactInv, World, Records, Sane
  <2> QED
    BY <2>1, Zenon
<1>4. pass' = IF step = "idle" THEN Idle ELSE [Idle EXCEPT !.pc = step, !.me = a, !.obj = r]
  BY Zenon DEF Reconcile
<1> HIDE DEF step
<1>5. CASE step = "idle"
  BY <1>2, <1>4, <1>5, IdleOK, Zenon DEF ArtifactInv
<1>6. CASE step # "idle"
  <2>1. DOMAIN pass' = PassFields /\ pass'.pc = step /\ pass'.me = a /\ pass'.obj = r
    BY <1>4, <1>6, Zenon DEF Idle, PassFields
  <2>2. me' = a /\ obj' = r
    BY <2>1, Zenon DEF me, obj
  <2>3. (Clean(me))' = Clean(a)
    BY <1>1, <2>2, Zenon DEF Clean
  <2>4. Sane(r, Ops) /\ Older(r, api[a]) /\ (r.cleaned => Clean(a))
    BY Zenon DEF ArtifactInv, World, Records, FilesClean
  <2>5. r.phase = "live" => ~cleanups[a].pod /\ ~cleanups[a].good /\ ~api[a].cleaned /\ ~cached[a].cleaned
    BY Zenon DEF ArtifactInv, World, CleanupAlone, FilesClean
  <2>6. r.phase \in {"live", "deleting"}
    BY <1>3, <1>6, Zenon
  <2>7. InformerLag \/ (api[a].phase # "gone" /\ api[a].digest = r.digest)
    BY <1>1, <2>6, Zenon
  <2>8. PassKnows'
    BY <1>1, <2>2, <2>3, <2>4, <2>5, <2>6, <2>7, SameSets, Zenon DEF PassKnows
  <2>9. Stages'
    BY <1>3, <1>6, <2>1, <2>2, Zenon DEF Stages, At, Live, Deleting
  <2>10. step # "status"
    BY <1>3, Zenon
  <2>11. PassOK'
    BY <2>1, <2>8, <2>9, <2>10, Zenon DEF PassOK, WillWrite, At
  <2> QED
    BY <1>2, <2>11, Zenon DEF ArtifactInv
<1> QED
  BY <1>5, <1>6, Zenon

(* The finalizer is added, unless the object has moved. *)
LEMMA AddFinalizerStep == ASSUME ArtifactInv, AddFinalizer PROVE ArtifactInv'
<1>1. /\ pass.pc = "addFinalizer" /\ pass' = Idle
      /\ UNCHANGED <<scenario, cached, storage, jobs, pods, configs, leases, cleanups, mounts, dirty>>
      /\ UNCHANGED api \/ (api[me] = obj /\ api' = [api EXCEPT ![me].fin = TRUE])
  BY Zenon DEF AddFinalizer, Done, Conflict, At, clusterVars, worldVars
<1>2. PassOK'
  BY <1>1, IdleOK, Zenon
<1>3. CASE UNCHANGED api
  BY <1>1, <1>2, <1>3, WorldFrame, Zenon DEF ArtifactInv
<1>4. CASE api[me] = obj /\ api' = [api EXCEPT ![me].fin = TRUE]
  <2> DEFINE r == [obj EXCEPT !.fin = TRUE]
  <2>1. me \in Artifacts /\ Sane(obj, Ops) /\ obj.phase = "live"
    BY <1>1, Zenon DEF ArtifactInv, PassOK, PassKnows, Stages, Busy, At
  <2>2. api' = [api EXCEPT ![me] = r]
    BY <1>4, <2>1, Zenon DEF ArtifactInv, World, Shapes
  <2>3. /\ DOMAIN r = RecordFields /\ r.fin /\ r.phase = "live" /\ r.loc = obj.loc /\ r.digest = obj.digest
        /\ r.cleaned = obj.cleaned /\ r.jobRef = obj.jobRef
    BY <2>1, Zenon DEF Sane, RecordFields
  <2> HIDE DEF r
  <2>4. ~obj.cleaned
    BY <2>1, Zenon DEF Sane
  <2>5. Sane(r, Ops)
    BY <2>1, <2>3, <2>4, Zenon DEF Sane
  <2>6. Older(cached[me], r)
    BY <1>4, <2>1, <2>3, Zenon DEF ArtifactInv, World, Records, Older
  <2>7. needsSource(r) = needsSource(api[me])
    BY <1>4, <2>3, Zenon DEF needsSource
  <2>8. /\ r.loc = 0 => Stopped(me) /\ Unpinned(me) /\ Held(me) = {}
        /\ r.loc = 0 => dirty[me] = {}
    BY <1>4, <2>1, <2>3, Zenon DEF ArtifactInv, World, Checkpointed, FilesClean
  <2>9. World'
    BY <1>1, <2>1, <2>2, <2>3, <2>4, <2>5, <2>6, <2>7, <2>8, ApiChanges, Zenon DEF ArtifactInv
  <2> QED
    BY <1>2, <2>9, Zenon DEF ArtifactInv
<1> QED
  BY <1>1, <1>3, <1>4, Zenon

(* The finalizer is released, unless the object has moved. *)
LEMMA FinalizeStep == ASSUME ArtifactInv, finalizeArtifactDeletion PROVE ArtifactInv'
<1>1. /\ pass.pc = "finalize" /\ pass' = Idle
      /\ UNCHANGED <<scenario, cached, storage, jobs, pods, configs, leases, cleanups, mounts, dirty>>
      /\ UNCHANGED api \/ (api[me] = obj /\ api' = [api EXCEPT ![me] = Gone])
  BY Zenon DEF finalizeArtifactDeletion, Done, Conflict, At, clusterVars, worldVars
<1>2. PassOK'
  BY <1>1, IdleOK, Zenon
<1>3. CASE UNCHANGED api
  BY <1>1, <1>2, <1>3, WorldFrame, Zenon DEF ArtifactInv
<1>4. CASE api[me] = obj /\ api' = [api EXCEPT ![me] = Gone]
  <2>1. /\ me \in Artifacts /\ WithoutLeases /\ Clean(me) /\ cleanups[me].status = "none"
        /\ ~cleanups[me].config
    BY <1>1, Zenon DEF ArtifactInv, PassOK, PassKnows, Stages, Busy, At
  <2>2. obj.phase = "deleting" /\ ~mounts[me] /\ Stopped(me) /\ Unpinned(me) /\ Held(me) = {}
    BY <2>1, Zenon DEF WithoutLeases, WithoutConfigs, WithoutJobs, Unserved, Deleting
  <2>3. cached[me].phase # "live"
    BY <1>1, <2>2, Zenon DEF ArtifactInv, PassOK, PassKnows, Busy, At
  <2>4. /\ DOMAIN Gone = RecordFields /\ Gone.phase = "gone" /\ ~Gone.fin /\ Gone.loc = 0 /\ ~Gone.ready
        /\ ~Gone.cleaned /\ Gone.jobRef = None
    BY Zenon DEF Gone, Created, RecordFields
  <2>5. Sane(Gone, Ops) /\ Older(cached[me], Gone)
    BY <2>3, <2>4, Zenon DEF Sane, Older
  <2>6. cleanups[me] = NoCleanup
    <3>1. cleanups[me] \in CleanupType
      BY <2>1, Zenon DEF ArtifactInv, World, Shapes
    <3>2. ~cleanups[me].good /\ ~cleanups[me].deleting /\ ~cleanups[me].pod
      BY <2>1, Zenon DEF ArtifactInv, World, CleanupsEnd
    <3> QED
      BY <2>1, <3>1, <3>2, Zenon DEF CleanupType, NoCleanup
  <2>7. pods[me] = {}
    BY <2>1, <2>2, Zenon DEF ArtifactInv, World, PodsHaveJobs, Stopped
  <2>8. World'
    BY <1>1, <1>4, <2>1, <2>2, <2>4, <2>5, <2>6, <2>7, ApiChanges, Zenon DEF ArtifactInv
  <2> QED
    BY <1>2, <2>8, Zenon DEF ArtifactInv
<1> QED
  BY <1>1, <1>3, <1>4, Zenon

(* What a pass under way relies on stays true when others leave the objects *)
(* it is about alone.                                                       *)
LEMMA Kept ==
  ASSUME pass' = pass, scenario' = scenario
  PROVE  /\ me' = me /\ obj' = obj
         /\ UNCHANGED storage => (Resolved => Resolved')
         /\ UNCHANGED jobs => /\ OnlyOp => OnlyOp'
                              /\ Quiet(me) => (Quiet(me))'
                              /\ Stopped(me) => (Stopped(me))'
         /\ UNCHANGED configs => (Unpinned(me) => (Unpinned(me))')
         /\ UNCHANGED leases => (Held(me) = {} => (Held(me) = {})') /\ (Leased => Leased')
         /\ UNCHANGED <<storage, dirty>> => (Clean(me) => (Clean(me))')
         /\ UNCHANGED mounts => (Unserved => Unserved')
         /\ PassKnows /\ UNCHANGED <<api, cached, cleanups, storage, dirty>> => PassKnows'
<1>1. me' = me /\ obj' = obj
  BY Zenon DEF me, obj
<1>2. UNCHANGED storage => (Resolved => Resolved')
  BY <1>1, SameSets, Zenon DEF Resolved, Live
<1>3. UNCHANGED jobs => /\ OnlyOp => OnlyOp'
                        /\ Quiet(me) => (Quiet(me))'
                        /\ Stopped(me) => (Stopped(me))'
  BY <1>1, SameSets, Zenon DEF OnlyOp, Quiet, Stopped
<1>4. UNCHANGED configs => (Unpinned(me) => (Unpinned(me))')
  BY <1>1, SameSets, Zenon DEF Unpinned
<1>5. UNCHANGED leases => (Held(me) = {} => (Held(me) = {})') /\ (Leased => Leased')
  <2>1. artifactLeaseFingerprint(obj, pass.op)' = artifactLeaseFingerprint(obj, pass.op)
    BY <1>1, SameSets DEF artifactLeaseFingerprint, needsSource
  <2> QED
    BY <1>1, <2>1, SameSets, Zenon DEF Held, Leased
<1>6. UNCHANGED <<storage, dirty>> => (Clean(me) => (Clean(me))')
  BY <1>1, Zenon DEF Clean
<1>7. UNCHANGED mounts => (Unserved => Unserved')
  BY <1>1, Zenon DEF Unserved, Deleting
<1>8. PassKnows /\ UNCHANGED <<api, cached, cleanups, storage, dirty>> => PassKnows'
  <2>1. ~Busy => PassKnows'
    BY Zenon DEF PassKnows, Busy, At
  <2> QED
    BY <2>1, KnowsFrame, Zenon DEF me, obj, At
<1> QED
  BY <1>1, <1>2, <1>3, <1>4, <1>5, <1>6, <1>7, <1>8, Zenon

(* A step of someone else keeps PassOK when it keeps every condition of *)
(* Stages.                                                              *)
LEMMA PassFrame ==
  ASSUME PassOK, pass' = pass, scenario' = scenario, PassKnows',
         Resolved => Resolved', OnlyOp => OnlyOp', Quiet(me) => (Quiet(me))',
         Leased => Leased', Unserved => Unserved', Stopped(me) => (Stopped(me))',
         Unpinned(me) => (Unpinned(me))', Held(me) = {} => (Held(me) = {})',
         Clean(me) => (Clean(me))',
         cleanups[me].status = "none" => cleanups'[me].status = "none" /\ cleanups'[me].config = cleanups[me].config
  PROVE  PassOK'
<1>1. me' = me /\ obj' = obj
  BY Zenon DEF me, obj
<1>2. WithoutJobs => WithoutJobs'
  BY Zenon DEF WithoutJobs
<1>3. WithoutConfigs => WithoutConfigs'
  BY <1>2, Zenon DEF WithoutConfigs
<1>4. WithoutLeases => WithoutLeases'
  BY <1>3, Zenon DEF WithoutLeases
<1>5. (Live => Live') /\ (Deleting => Deleting')
  BY <1>1, Zenon DEF Live, Deleting
<1>6. Stages'
  BY <1>1, <1>2, <1>3, <1>4, <1>5 DEF PassOK, Stages, At
<1>7. WillWrite'
  BY <1>1, SameSets, Zenon DEF PassOK, WillWrite, At
<1> QED
  BY <1>6, <1>7, Zenon DEF PassOK

(* A user deletes the object: at once, if it has no finalizer. *)
LEMMA UserDeletesStep ==
  ASSUME ArtifactInv, NEW a \in Artifacts, UserDeletes(a)
  PROVE  ArtifactInv'
<1> DEFINE r == IF api[a].fin THEN [api[a] EXCEPT !.phase = "deleting"] ELSE Gone
<1>1. /\ api[a].phase = "live" /\ pass' = pass
      /\ UNCHANGED <<scenario, cached, storage, jobs, pods, configs, leases, cleanups, mounts, dirty>>
  BY Zenon DEF UserDeletes, clusterVars, worldVars
<1>2. api' = [api EXCEPT ![a] = r]
  BY Zenon DEF UserDeletes
<1>3. /\ Sane(api[a], Ops) /\ Older(cached[a], api[a]) /\ (mounts[a] => api[a].fin)
      /\ api[a].loc = 0 => Stopped(a) /\ Unpinned(a) /\ Held(a) = {} /\ dirty[a] = {}
      /\ api[a].cleaned => FALSE
  BY <1>1, Zenon DEF ArtifactInv, World, Records, MountsHold, Checkpointed, FilesClean, Sane
<1>4. CASE api[a].fin
  <2>1. /\ DOMAIN r = RecordFields /\ r.fin /\ r.phase = "deleting" /\ r.loc = api[a].loc
        /\ r.digest = api[a].digest /\ r.cleaned = api[a].cleaned /\ r.jobRef = api[a].jobRef
    BY <1>3, <1>4, Zenon DEF Sane, RecordFields
  <2> HIDE DEF r
  <2>2. Sane(r, Ops) /\ Older(cached[a], r)
    BY <1>3, <1>4, <2>1, Zenon DEF Sane, Older
  <2>3. needsSource(r) = needsSource(api[a])
    BY <2>1, Zenon DEF needsSource
  <2>4. World'
    BY <1>1, <1>2, <1>3, <2>1, <2>2, <2>3, ApiChanges, Zenon DEF ArtifactInv
  <2>5. PassKnows'
    <3>1. DOMAIN api' = Artifacts /\ api'[a] = r /\ \A b \in Artifacts : b # a => api'[b] = api[b]
      BY <1>2, Zenon DEF ArtifactInv, World, Shapes
    <3>2. me' = me /\ obj' = obj /\ ((Clean(me))' <=> Clean(me)) /\ (Busy' <=> Busy)
      BY <1>1, Zenon DEF me, obj, Clean, Busy, At
    <3>3. Busy /\ Older(obj, api[me]) => Older(obj, api'[me])
      BY <1>1, <1>4, <2>1, <3>1, Zenon DEF ArtifactInv, PassOK, PassKnows, Older
    <3>4. (At("release"))' <=> At("release")
      BY <1>1, Zenon DEF At
    <3> QED
      BY <1>1, <1>3, <2>1, <3>1, <3>2, <3>3, <3>4, SameSets, Zenon DEF ArtifactInv, PassOK, PassKnows
  <2>6. PassOK'
    BY <1>1, <2>5, Kept, PassFrame, Zenon DEF ArtifactInv
  <2> QED
    BY <2>4, <2>6, Zenon DEF ArtifactInv
<1>5. CASE ~api[a].fin
  <2>1. /\ r = Gone /\ Gone.phase = "gone" /\ ~Gone.fin /\ Gone.loc = 0 /\ ~Gone.ready /\ ~Gone.cleaned
        /\ DOMAIN Gone = RecordFields /\ Gone.jobRef = None
    BY <1>5, Zenon DEF Gone, Created, RecordFields
  <2> HIDE DEF r
  <2>2. Sane(Gone, Ops) /\ Older(cached[a], Gone)
    BY <1>1, <1>3, <1>5, <2>1, Zenon DEF Sane, Older
  <2>3. api[a].loc = 0 /\ cleanups[a] = NoCleanup
    BY <1>1, <1>3, <1>5, Zenon DEF ArtifactInv, World, CleanupsEnd, Sane
  <2>4. pods[a] = {} /\ Clean(a) /\ ~mounts[a]
    BY <1>3, <1>5, <2>3, Zenon DEF ArtifactInv, World, PodsHaveJobs, Stopped, Clean
  <2>5. World'
    BY <1>1, <1>2, <1>3, <2>1, <2>2, <2>3, <2>4, ApiChanges, Zenon DEF ArtifactInv
  <2>6. PassKnows'
    <3>1. DOMAIN api' = Artifacts /\ api'[a] = Gone /\ \A b \in Artifacts : b # a => api'[b] = api[b]
      BY <1>2, <2>1, Zenon DEF ArtifactInv, World, Shapes
    <3>2. me' = me /\ obj' = obj /\ ((Clean(me))' <=> Clean(me)) /\ (Busy' <=> Busy)
      BY <1>1, Zenon DEF me, obj, Clean, Busy, At
    <3>3. Busy /\ me = a => obj.phase = "live" /\ ~obj.fin
      BY <1>1, <1>5, Zenon DEF ArtifactInv, PassOK, PassKnows, Older
    <3>4. Busy /\ Older(obj, api[me]) => Older(obj, api'[me])
      BY <1>1, <1>5, <2>1, <2>3, <3>1, <3>3, Zenon DEF ArtifactInv, PassOK, PassKnows, Older
    <3>5. (At("release"))' <=> At("release")
      BY <1>1, Zenon DEF At
    <3> QED
      BY <1>1, <1>3, <2>1, <3>1, <3>2, <3>3, <3>4, <3>5, SameSets, Zenon DEF ArtifactInv, PassOK, PassKnows
  <2>7. PassOK'
    BY <1>1, <2>6, Kept, PassFrame, Zenon DEF ArtifactInv
  <2> QED
    BY <2>5, <2>7, Zenon DEF ArtifactInv
<1> QED
  BY <1>4, <1>5, Zenon

(* A status is written, unless the object has moved. *)
LEMMA WriteStatusStep == ASSUME ArtifactInv, WriteStatus PROVE ArtifactInv'
<1>1. /\ pass.pc = "status"
      /\ UNCHANGED <<scenario, cached, storage, jobs, pods, configs, leases, cleanups, mounts, dirty>>
      /\ \/ UNCHANGED api
         \/ api[me] = obj /\ api' = [api EXCEPT ![me] = pass.want]
      /\ pass' = Idle \/ (pass.then # "idle" /\ pass' = [pass EXCEPT !.pc = pass.then])
      /\ pass' # Idle => api' = [api EXCEPT ![me] = pass.want] \/ (UNCHANGED api /\ pass.want = obj)
  BY Zenon DEF WriteStatus, Done, Goto, Conflict, At, clusterVars, worldVars
<1> DEFINE w == pass.want
<1>2. /\ me \in Artifacts /\ Sane(obj, Ops) /\ Older(obj, api[me]) /\ obj.phase # "gone" /\ obj.fin
      /\ obj.phase = "live" => ~cleanups[me].pod /\ ~cleanups[me].good /\ ~api[me].cleaned /\ ~cached[me].cleaned
      /\ obj.phase # "live" => cached[me].phase # "live"
  BY <1>1, Zenon DEF ArtifactInv, PassOK, PassKnows, Stages, Busy, At
<1>3. /\ Sane(w, Ops) /\ w.phase = obj.phase /\ w.fin = obj.fin
      /\ obj.loc # 0 => w.loc = obj.loc
      /\ w.cleaned => Clean(me)
      /\ \/ pass.then = "idle" /\ w.digest = obj.digest
         \/ pass.then = "release" /\ Resolved /\ Quiet(me)
  BY <1>1, Zenon DEF ArtifactInv, PassOK, WillWrite, At
<1> HIDE DEF w
<1>4. DOMAIN pass = PassFields
  BY Zenon DEF ArtifactInv, PassOK
<1>5. World'
  <2>1. CASE UNCHANGED api
    BY <1>1, <2>1, WorldFrame, Zenon DEF ArtifactInv
  <2>2. CASE api[me] = obj /\ api' = [api EXCEPT ![me] = w]
    <3>1. Older(cached[me], obj) /\ (mounts[me] => obj.fin)
          /\ (obj.loc = 0 => Stopped(me) /\ Unpinned(me) /\ Held(me) = {} /\ dirty[me] = {})
      BY <1>2, <2>2, Zenon DEF ArtifactInv, World, Records, MountsHold, Checkpointed, FilesClean
    <3>2. Older(cached[me], w)
      BY <1>2, <1>3, <3>1, Zenon DEF Older
    <3>3. Quiet(me) => pods[me] = {}
      BY <1>2, Zenon DEF ArtifactInv, World, PodsHaveJobs, Quiet
    <3>4. pods[me] # {} => needsSource(w) = needsSource(api[me])
      BY <1>3, <2>2, <3>3, Zenon DEF needsSource
    <3>5. w.cleaned => cached[me].phase # "live"
      BY <1>2, <1>3, Zenon DEF Sane
    <3> QED
      BY <1>1, <1>2, <1>3, <2>2, <3>1, <3>2, <3>4, <3>5, ApiChanges, Zenon DEF ArtifactInv
  <2> QED
    BY <1>1, <2>1, <2>2, Zenon DEF w
<1>6. CASE pass' = Idle
  BY <1>5, <1>6, IdleOK, Zenon DEF ArtifactInv
<1>7. CASE pass' # Idle
  <2>1. /\ pass' = [pass EXCEPT !.pc = "release"] /\ Resolved /\ Quiet(me)
        /\ api' = [api EXCEPT ![me] = w] \/ (UNCHANGED api /\ w = obj)
    BY <1>1, <1>3, <1>7, Zenon DEF w
  <2>2. /\ DOMAIN pass' = PassFields /\ pass'.pc = "release" /\ pass'.op = pass.op
        /\ me' = me /\ obj' = obj
    BY <1>4, <2>1, GotoFacts, Zenon
  <2>3. api'[me] = w \/ (api' = api /\ w = obj)
    BY <1>2, <2>1, Zenon DEF ArtifactInv, World, Shapes
  <2>4. Older(obj, api'[me])
    BY <1>2, <1>3, <2>3, Zenon DEF Older
  <2>5. obj.phase = "live" /\ (Clean(me))' = Clean(me)
    BY <1>1, <2>1, <2>2, Zenon DEF Clean, Resolved, Live
  <2>6. ~api'[me].cleaned /\ (api'[me].phase # "gone")
    BY <1>2, <1>3, <2>3, <2>4, <2>5, Zenon DEF Sane, Older
  <2>7. ~obj.cleaned
    BY <1>2, <2>5, Zenon DEF Sane
  <2>8. PassKnows'
    BY <1>1, <1>2, <2>2, <2>4, <2>5, <2>6, <2>7, SameSets, Zenon DEF PassKnows, At
  <2>9. Resolved' /\ (Quiet(me))'
    BY <1>1, <2>1, <2>2, SameSets, Zenon DEF Resolved, Live, Quiet
  <2>10. PassOK'
    BY <2>2, <2>8, <2>9, Zenon DEF PassOK, Stages, WillWrite, At
  <2> QED
    BY <1>5, <2>10, Zenon DEF ArtifactInv
<1> QED
  BY <1>6, <1>7, Zenon

(* Leases of one artifact are deleted that no running importer needs, and *)
(* its ConfigMaps change.                                                 *)
LEMMA ObsoleteDropped ==
  ASSUME World, NEW m \in Artifacts, NEW fs, fs \subseteq Held(m),
         leases' = [f \in Fingerprints |-> IF f \in fs THEN NoLease ELSE leases[f]],
         Exclusive => \A p \in pods[m] : LeaseOf(m, p.op) \notin fs,
         DOMAIN configs' = Artifacts, DOMAIN configs'[m] = Ops,
         \A a \in Artifacts : a # m => configs'[a] = configs[a],
         api[m].loc = 0 => \A o \in Ops : configs'[m][o] = "none",
         UNCHANGED <<scenario, api, cached, storage, jobs, pods, cleanups, mounts, dirty>>
  PROVE  World' /\ (Held(m))' = Held(m) \ fs
<1>1. NoLease.holder = None /\ ~NoLease.live /\ DOMAIN NoLease = LeaseFields
  BY Zenon DEF NoLease, LeaseFields
<1>2. None \notin Artifacts
  BY ArtifactAssumption, Zenon DEF World, Shapes, Artifacts
<1>3. /\ DOMAIN leases' = Fingerprints
      /\ \A f \in Fingerprints : leases'[f] = IF f \in fs THEN NoLease ELSE leases[f]
  BY Zenon
<1>4. Shapes'
  BY <1>1, <1>3, SameSets, Zenon DEF World, Shapes
<1>5. \A a \in Artifacts : (Held(a))' = IF a = m THEN Held(a) \ fs ELSE Held(a)
  BY <1>1, <1>2, <1>3, SameSets, Zenon DEF Held
<1>6. Checkpointed'
  BY <1>5, SameSets DEF World, Checkpointed, Stopped, Unpinned
<1>7. LeasesHeld'
  <2> SUFFICES ASSUME Exclusive PROVE LeasesHeld'
    BY SameSets, Zenon DEF LeasesHeld
  <2>1. \A a \in Artifacts : (needsSource(api[a]))' = needsSource(api[a])
    BY SameSets DEF needsSource
  <2>2. \A a, o : LeaseOf(a, o)' = LeaseOf(a, o)
    BY SameSets, Zenon DEF LeaseOf
  <2>3. ASSUME NEW a \in Artifacts, NEW p \in pods[a]
        PROVE  (/\ leases[LeaseOf(a, p.op)].holder = a
                /\ Mode # "Hub" => jobs[a][p.op].source = needsSource(api[a]))'
    <3>1. /\ leases[LeaseOf(a, p.op)].holder = a
          /\ Mode # "Hub" => jobs[a][p.op].source = needsSource(api[a])
      BY Zenon DEF World, LeasesHeld
    <3>2. LeaseOf(a, p.op) \in Fingerprints
      BY Zenon DEF World, PodsHaveJobs, LeaseOf, Fingerprints
    <3>3. LeaseOf(a, p.op) \notin fs
      BY <3>1, Zenon DEF Held
    <3> QED
      BY <1>3, <2>1, <2>2, <3>1, <3>2, <3>3, SameSets, Zenon
  <2>4. (\A f \in Fingerprints : leases[f].holder # None => leases[f].live)'
    BY <1>1, <1>3, SameSets, Zenon DEF World, LeasesHeld
  <2> QED
    BY <2>3, <2>4, SameSets, Zenon DEF LeasesHeld
<1> QED
  BY <1>4, <1>5, <1>6, <1>7, Frames, Zenon DEF World

(* The Leases of an artifact without running importers are deleted (Drop). *)
LEMMA LeasesDropped ==
  ASSUME World, NEW m \in Artifacts, NEW fs, fs \subseteq Held(m), Drop(fs),
         Exclusive => \A p \in pods[m] : LeaseOf(m, p.op) \notin fs,
         UNCHANGED <<scenario, api, cached, storage, jobs, pods, configs, cleanups, mounts, dirty>>
  PROVE  World' /\ (Held(m))' = Held(m) \ fs
<1>1. /\ DOMAIN configs' = Artifacts /\ DOMAIN configs'[m] = Ops
      /\ api[m].loc = 0 => \A o \in Ops : configs'[m][o] = "none"
  BY Zenon DEF World, Shapes, Checkpointed, Unpinned
<1> QED
  BY <1>1, ObsoleteDropped, Zenon DEF Drop

(* ConfigMaps of one artifact with a checkpoint change. *)
LEMMA ConfigsChange ==
  ASSUME World, NEW m \in Artifacts, DOMAIN configs' = Artifacts, DOMAIN configs'[m] = Ops,
         \A a \in Artifacts : a # m => configs'[a] = configs[a],
         api[m].loc = 0 => \A o \in Ops : configs'[m][o] = "none",
         UNCHANGED <<scenario, api, cached, storage, jobs, pods, leases, cleanups, mounts, dirty>>
  PROVE  World'
<1>1. Shapes'
  BY SameSets, Zenon DEF World, Shapes
<1>2. Checkpointed'
  BY SameSets DEF World, Checkpointed, Stopped, Unpinned, Held
<1> QED
  BY <1>1, <1>2, Frames, Zenon DEF World

(* Jobs of one artifact change, and its Pods with them. *)
JobsFit(m) ==
  /\ DOMAIN jobs' = Artifacts /\ DOMAIN jobs'[m] = Ops
  /\ \A a \in Artifacts : a # m => jobs'[a] = jobs[a] /\ pods'[a] = pods[a]
  /\ DOMAIN pods' = Artifacts /\ DOMAIN dirty' = Artifacts /\ FilesClean'
  /\ api[m].loc = 0 => \A o \in Ops : jobs'[m][o].status = "none"
  /\ \A o \in Ops : /\ DOMAIN jobs'[m][o] = JobFields
                    /\ jobs'[m][o].status = "none" => jobs'[m][o] = NoJob
                    /\ jobs'[m][o].status # "none" =>
                         \A q \in Ops : jobs'[m][q].status # "none" => q = o
  /\ \A p \in pods'[m] : /\ p.op \in Ops /\ p = Ref(p.op, jobs'[m][p.op])
                         /\ jobs'[m][p.op].status \in {"active", "blocked"}
  /\ Exclusive => \A p \in pods'[m] :
       /\ leases[[op |-> p.op, source |-> Mode # "Hub" /\ jobs'[m][p.op].source]].holder = m
       /\ Mode # "Hub" => jobs'[m][p.op].source = needsSource(api[m])
  /\ cleanups[m].pod => \A o \in Ops : jobs'[m][o].status \in {"none", "complete", "failed"}

(* World is kept when the new Jobs and Pods of one artifact fit the rest. *)
LEMMA JobsChange ==
  ASSUME World, NEW m \in Artifacts, JobsFit(m),
         UNCHANGED <<scenario, api, cached, storage, configs, leases, cleanups, mounts>>
  PROVE  World'
<1>1. Shapes'
  <2>1. Shapes
    BY Zenon DEF World
  <2> QED
    BY <2>1, SameSets DEF Shapes, JobsFit
<1>2. Checkpointed'
  BY SameSets DEF World, Checkpointed, Stopped, Unpinned, Held, JobsFit
<1>3. PodsHaveJobs'
  BY SameSets DEF World, PodsHaveJobs, Ref, JobsFit
<1>4. OneJob'
  <2>1. OneJob
    BY Zenon DEF World
  <2> DEFINE Single(js) == \A o \in Ops :
                             /\ js[o].status = "none" => js[o] = NoJob
                             /\ js[o].status # "none" => \A q \in Ops : js[q].status # "none" => q = o
  <2>2. \A a \in Artifacts : Single(jobs[a])
    BY <2>1, Zenon DEF OneJob
  <2>3. Single(jobs'[m])
    BY Zenon DEF JobsFit
  <2>4. \A a \in Artifacts : a # m => jobs'[a] = jobs[a]
    BY Zenon DEF JobsFit
  <2> HIDE DEF Single
  <2>5. \A a \in Artifacts : Single(jobs'[a])
    BY <2>2, <2>3, <2>4, Zenon
  <2>6. NoJob' = NoJob
    BY Zenon DEF NoJob
  <2> QED
    BY <2>5, <2>6, SameSets, Zenon DEF OneJob, Single
<1>5. CleanupAlone'
  <2>1. CleanupAlone
    BY Zenon DEF World
  <2> QED
    BY <2>1, SameSets DEF CleanupAlone, Quiet, JobsFit
<1>6. LeasesHeld'
  <2> SUFFICES ASSUME Exclusive PROVE LeasesHeld'
    BY SameSets, Zenon DEF LeasesHeld
  <2>1. \A a \in Artifacts : (needsSource(api[a]))' = needsSource(api[a])
    BY SameSets DEF needsSource
  <2>2. \A a \in Artifacts : \A o : LeaseOf(a, o)' = [op |-> o, source |-> Mode # "Hub" /\ jobs'[a][o].source]
    BY SameSets, Zenon DEF LeaseOf
  <2>3. ASSUME NEW a \in Artifacts, NEW p \in pods'[a]
        PROVE  (/\ leases[LeaseOf(a, p.op)].holder = a
                /\ Mode # "Hub" => jobs[a][p.op].source = needsSource(api[a]))'
    <3>1. CASE a = m
      BY <2>1, <2>2, <2>3, <3>1, SameSets DEF JobsFit
    <3>2. CASE a # m
      <4>1. jobs'[a] = jobs[a] /\ p \in pods[a]
        BY <3>2, Zenon DEF JobsFit
      <4>2. /\ leases[LeaseOf(a, p.op)].holder = a
            /\ Mode # "Hub" => jobs[a][p.op].source = needsSource(api[a])
        BY <4>1, Zenon DEF World, LeasesHeld
      <4>3. LeaseOf(a, p.op)' = LeaseOf(a, p.op)
        BY <2>2, <4>1, SameSets, Zenon DEF LeaseOf
      <4> QED
        BY <2>1, <4>1, <4>2, <4>3, SameSets, Zenon
    <3> QED
      BY <3>1, <3>2, Zenon
  <2>4. (\A f \in Fingerprints : leases[f].holder # None => leases[f].live)'
    BY SameSets, Zenon DEF World, LeasesHeld
  <2> QED
    BY <2>3, <2>4, SameSets, Zenon DEF LeasesHeld
<1> QED
  BY <1>1, <1>2, <1>3, <1>4, <1>5, <1>6, Frames, Zenon DEF World, JobsFit

(* The Jobs of an artifact go on or end; none starts. *)
Evolves(a) ==
  \A o \in Ops : /\ jobs[a][o].status = "none" => jobs'[a][o].status = "none"
                 /\ jobs[a][o].status \in {"complete", "failed"}
                      => jobs'[a][o].status \in {"none", "complete", "failed"}

(* Jobs of one artifact go on or end, and its Pods stop: World is kept. *)
LEMMA JobsEvolve ==
  ASSUME World, NEW m \in Artifacts, DOMAIN jobs' = Artifacts, DOMAIN jobs'[m] = Ops,
         \A a \in Artifacts : a # m => jobs'[a] = jobs[a] /\ pods'[a] = pods[a],
         DOMAIN pods' = Artifacts, pods'[m] \subseteq pods[m],
         \A o \in Ops : /\ DOMAIN jobs'[m][o] = JobFields
                        /\ jobs[m][o].status = "none" => jobs'[m][o] = NoJob
                        /\ jobs'[m][o].status = "none" => jobs'[m][o] = NoJob
                        /\ jobs[m][o].status \in {"complete", "failed"}
                             => jobs'[m][o].status \in {"none", "complete", "failed"},
         \A p \in pods'[m] : /\ jobs'[m][p.op].status \in {"active", "blocked"}
                             /\ jobs'[m][p.op].uid = jobs[m][p.op].uid
                             /\ jobs'[m][p.op].source = jobs[m][p.op].source,
         UNCHANGED <<scenario, api, cached, storage, configs, leases, cleanups, mounts, dirty>>
  PROVE  World' /\ \A a \in Artifacts : Evolves(a)
<1>1. NoJob.status = "none"
  BY Zenon DEF NoJob
<1>2. \A a \in Artifacts : Evolves(a)
  <2>1. Evolves(m)
    BY <1>1, Zenon DEF Evolves
  <2>2. ASSUME NEW a \in Artifacts, a # m PROVE Evolves(a)
    <3>1. jobs'[a] = jobs[a]
      BY <2>2, Zenon
    <3> QED
      BY <3>1, Zenon DEF Evolves
  <2> QED
    BY <2>1, <2>2, Zenon
<1>3. FilesClean' /\ DOMAIN dirty' = Artifacts
  BY Frames, Zenon DEF World, Shapes
<1>4. api[m].loc = 0 => \A o \in Ops : jobs'[m][o].status = "none"
  BY <1>1, Zenon DEF World, Checkpointed, Stopped
<1>5. \A o \in Ops : /\ jobs'[m][o].status = "none" => jobs'[m][o] = NoJob
                     /\ jobs'[m][o].status # "none" =>
                          \A q \in Ops : jobs'[m][q].status # "none" => q = o
  BY <1>2 DEF World, OneJob, Evolves
<1>6. ASSUME NEW p \in pods'[m]
      PROVE  /\ p.op \in Ops /\ p = Ref(p.op, jobs'[m][p.op])
             /\ jobs'[m][p.op].status \in {"active", "blocked"}
  BY DEF World, PodsHaveJobs, Ref
<1>7. ASSUME Exclusive, NEW p \in pods'[m]
      PROVE  /\ leases[[op |-> p.op, source |-> Mode # "Hub" /\ jobs'[m][p.op].source]].holder = m
             /\ Mode # "Hub" => jobs'[m][p.op].source = needsSource(api[m])
  <2>1. LeasesHeld
    BY Zenon DEF World
  <2>2. p \in pods[m] /\ jobs'[m][p.op].source = jobs[m][p.op].source
    BY Zenon
  <2>3. /\ leases[LeaseOf(m, p.op)].holder = m
        /\ Mode # "Hub" => jobs[m][p.op].source = needsSource(api[m])
    BY <1>7, <2>1, <2>2, Zenon DEF LeasesHeld
  <2> QED
    BY <2>2, <2>3, Zenon DEF LeaseOf
<1>8. cleanups[m].pod => \A o \in Ops : jobs'[m][o].status \in {"none", "complete", "failed"}
  <2> SUFFICES ASSUME cleanups[m].pod
               PROVE  \A o \in Ops : jobs'[m][o].status \in {"none", "complete", "failed"}
    OBVIOUS
  <2>1. Quiet(m)
    BY Zenon DEF World, CleanupAlone
  <2> QED
    BY <1>2, <2>1, Zenon DEF Quiet, Evolves
<1>9. JobsFit(m)
  BY <1>3, <1>4, <1>5, <1>6, <1>7, <1>8, Zenon DEF JobsFit
<1>10. World'
  BY <1>9, JobsChange, Zenon
<1> QED
  BY <1>2, <1>10, Zenon

(* A finished Job is deleted, unless another one has taken its name. *)
LEMMA JobDropped ==
  ASSUME World, NEW m \in Artifacts, NEW o \in Ops, Quiet(m),
         jobs' = [jobs EXCEPT ![m][o] = NoJob] \/ jobs' = jobs,
         UNCHANGED <<scenario, api, cached, storage, pods, configs, leases, cleanups, mounts, dirty>>
  PROVE  World' /\ Evolves(m)
<1>1. CASE jobs' = jobs
  <2>1. Evolves(m)
    BY <1>1, Zenon DEF Evolves
  <2> QED
    BY <1>1, <2>1, WorldFrame, Zenon
<1>2. CASE jobs' = [jobs EXCEPT ![m][o] = NoJob]
  <2>1. NoJob.status = "none" /\ DOMAIN NoJob = JobFields
    BY Zenon DEF NoJob, JobFields
  <2>2. /\ DOMAIN jobs' = Artifacts /\ DOMAIN jobs'[m] = Ops
        /\ jobs'[m][o] = NoJob /\ \A q \in Ops : q # o => jobs'[m][q] = jobs[m][q]
        /\ \A a \in Artifacts : a # m => jobs'[a] = jobs[a]
    BY <1>2, Zenon DEF World, Shapes
  <2>3. pods[m] = {} /\ DOMAIN pods' = Artifacts
    BY Zenon DEF World, Shapes, PodsHaveJobs, Quiet
  <2>4. \A q \in Ops : DOMAIN jobs[m][q] = JobFields /\ (jobs[m][q].status = "none" => jobs[m][q] = NoJob)
    BY Zenon DEF World, Shapes, OneJob
  <2>5. \A q \in Ops : /\ DOMAIN jobs'[m][q] = JobFields
                       /\ jobs[m][q].status = "none" => jobs'[m][q] = NoJob
                       /\ jobs'[m][q].status = "none" => jobs'[m][q] = NoJob
                       /\ jobs[m][q].status \in {"complete", "failed"}
                             => jobs'[m][q].status \in {"none", "complete", "failed"}
    BY <2>1, <2>2, <2>4, Zenon
  <2> QED
    BY <2>2, <2>3, <2>5, JobsEvolve, Zenon
<1> QED
  BY <1>1, <1>2, Zenon

(* Jobs are deleted in the foreground: marked, and gone once their Pods are. *)
LEMMA JobsMarked ==
  ASSUME World, NEW m \in Artifacts, NEW os, \A o \in os : jobs[m][o].status # "none",
         DeleteForeground(m, os),
         UNCHANGED <<scenario, api, cached, storage, pods, configs, leases, cleanups, mounts, dirty>>
  PROVE  World' /\ \A o \in Ops : jobs'[m][o].status = jobs[m][o].status
<1>1. /\ DOMAIN jobs' = Artifacts /\ DOMAIN jobs'[m] = Ops
      /\ \A o \in Ops : jobs'[m][o] = IF o \in os THEN [jobs[m][o] EXCEPT !.deleting = TRUE] ELSE jobs[m][o]
      /\ \A a \in Artifacts : a # m => jobs'[a] = jobs[a]
  BY Zenon DEF World, Shapes, DeleteForeground
<1>2. \A o \in Ops : DOMAIN jobs[m][o] = JobFields /\ (jobs[m][o].status = "none" => jobs[m][o] = NoJob)
  BY Zenon DEF World, Shapes, OneJob
<1>3. ASSUME NEW o \in Ops
      PROVE  /\ DOMAIN jobs'[m][o] = JobFields /\ jobs'[m][o].status = jobs[m][o].status
             /\ jobs'[m][o].uid = jobs[m][o].uid /\ jobs'[m][o].source = jobs[m][o].source
  BY <1>1, <1>2, Zenon DEF JobFields
<1>4. \A o \in Ops : jobs[m][o].status = "none" => jobs'[m][o] = NoJob
  BY <1>1, <1>2, Zenon
<1>5. DOMAIN pods' = Artifacts /\ \A p \in pods[m] : p.op \in Ops /\ jobs[m][p.op].status \in {"active", "blocked"}
  BY Zenon DEF World, Shapes, PodsHaveJobs
<1> QED
  BY <1>1, <1>3, <1>4, <1>5, JobsEvolve

(* A pass that reports a failure is in order (artifactFailure). *)
LEMMA FailOK ==
  ASSUME PassOK, Busy, ~At("release"), obj.fin,
         \E t, x, q : pass' = [pass EXCEPT !.pc = "status", !.want = artifactFailure(obj, t, x),
                                           !.again = q, !.then = "idle"],
         UNCHANGED <<scenario, api, cached, cleanups, storage, dirty>>
  PROVE  PassOK'
<1>1. Sane(obj, Ops) /\ (obj.cleaned => Clean(me))
  BY Zenon DEF PassOK, PassKnows
<1> PICK t, x, q : pass' = [pass EXCEPT !.pc = "status", !.want = artifactFailure(obj, t, x),
                                        !.again = q, !.then = "idle"]
  BY Zenon
<1> DEFINE r == artifactFailure(obj, t, x)
<1>2. Sane(r, Ops) /\ Kin(r, obj)
  BY <1>1, FailureFacts, Zenon
<1> HIDE DEF r
<1>3. pass' = [pass EXCEPT !.pc = "status", !.want = r, !.again = q, !.then = "idle"]
  BY Zenon DEF r
<1> QED
  BY <1>1, <1>2, <1>3, ReportOK, Zenon DEF Kin, Alike

(* A pass that reports progress is in order (markImporting). *)
LEMMA MarkOK ==
  ASSUME PassOK, Busy, ~At("release"), obj.fin, NEW x, NEW q, x # None => x.op \in Ops,
         pass' = [pass EXCEPT !.pc = "status", !.want = markImporting(obj, x), !.again = q, !.then = "idle"],
         UNCHANGED <<scenario, api, cached, cleanups, storage, dirty>>
  PROVE  PassOK'
<1>1. Sane(obj, Ops) /\ (obj.cleaned => Clean(me))
  BY Zenon DEF PassOK, PassKnows
<1> DEFINE r == markImporting(obj, x)
<1>2. Sane(r, Ops) /\ Kin(r, obj)
  BY <1>1, ImportingFacts, Zenon
<1> HIDE DEF r
<1>3. pass' = [pass EXCEPT !.pc = "status", !.want = r, !.again = q, !.then = "idle"]
  BY Zenon DEF r
<1> QED
  BY <1>1, <1>2, <1>3, ReportOK, Zenon DEF Kin, Alike

(* The storage is resolved; its identity is checkpointed first. *)
LEMMA ResolveStep == ASSUME ArtifactInv, resolveArtifactStorage PROVE ArtifactInv'
<1> DEFINE op == [cache |-> storage.cache, claim |-> storage.claim]
           r  == [obj EXCEPT !.loc = storage.claim]
<1>1. /\ pass.pc = "resolve"
      /\ UNCHANGED <<scenario, api, cached, storage, jobs, pods, configs, leases, cleanups, mounts, dirty>>
  BY Zenon DEF resolveArtifactStorage, At, clusterVars, worldVars
<1>2. \/ \E t, x, q : pass' = [pass EXCEPT !.pc = "status", !.want = artifactFailure(obj, t, x),
                                           !.again = q, !.then = "idle"]
      \/ obj.loc = 0 /\ pass' = [pass EXCEPT !.pc = "status", !.want = r, !.again = TRUE, !.then = "idle"]
      \/ /\ obj.loc # 0
         /\ \E s \in {"retained", "obsoleteJobs"} :
              (s = "retained" => obj.jobRef # None) /\ pass' = [pass EXCEPT !.pc = s, !.op = op]
  <2> DEFINE next == IF obj.ready /\ obj.jobRef # None THEN "retained" ELSE "obsoleteJobs"
  <2>1. next \in {"retained", "obsoleteJobs"} /\ (next = "retained" => obj.jobRef # None)
    BY Zenon
  <2> HIDE DEF next
  <2>2. IF ~StorageAvailable
        THEN WriteThen(artifactFailure(obj, "StorageReady", "StorageUnavailable"), TRUE, "idle")
        ELSE IF obj.loc = 0
        THEN WriteThen(r, TRUE, "idle")
        ELSE IF obj.loc # storage.claim
        THEN WriteThen(artifactFailure(obj, "StorageReady", "StorageIdentityChanged"), FALSE, "idle")
        ELSE pass' = [pass EXCEPT !.pc = next, !.op = op]
    BY Zenon DEF resolveArtifactStorage, Report, next
  <2> HIDE DEF op, r
  <2>3. CASE ~StorageAvailable
    BY <2>2, <2>3, Zenon DEF WriteThen
  <2>4. CASE StorageAvailable /\ obj.loc = 0
    BY <2>2, <2>4, Zenon DEF WriteThen
  <2>5. CASE StorageAvailable /\ obj.loc # 0 /\ obj.loc # storage.claim
    <3>1. WriteThen(artifactFailure(obj, "StorageReady", "StorageIdentityChanged"), FALSE, "idle")
      BY <2>2, <2>5, Zenon
    <3> QED
      BY <3>1, Zenon DEF WriteThen
  <2>6. CASE StorageAvailable /\ obj.loc # 0 /\ obj.loc = storage.claim
    BY <2>1, <2>2, <2>6, Zenon
  <2> QED
    BY <2>3, <2>4, <2>5, <2>6, Zenon
<1>3. /\ me \in Artifacts /\ Sane(obj, Ops) /\ obj.phase = "live" /\ obj.fin /\ Busy /\ ~At("release")
      /\ PassOK /\ World
  BY <1>1, Zenon DEF ArtifactInv, PassOK, PassKnows, Stages, Busy, At, Live
<1>4. World'
  BY <1>1, <1>3, WorldFrame, Zenon
<1>5. CASE \E t, x, q : pass' = [pass EXCEPT !.pc = "status", !.want = artifactFailure(obj, t, x),
                                             !.again = q, !.then = "idle"]
  BY <1>1, <1>3, <1>4, <1>5, FailOK, Zenon DEF ArtifactInv
<1>6. CASE obj.loc = 0 /\ pass' = [pass EXCEPT !.pc = "status", !.want = r, !.again = TRUE, !.then = "idle"]
  <2>1. /\ DOMAIN r = RecordFields /\ r.phase = "live" /\ r.fin = obj.fin /\ r.ready = obj.ready
        /\ r.digest = obj.digest /\ r.cleaned = obj.cleaned /\ r.jobRef = obj.jobRef
    BY <1>3, Zenon DEF Sane, RecordFields
  <2> HIDE DEF r
  <2>2. Sane(r, Ops) /\ ~r.cleaned
    BY <1>3, <2>1, Zenon DEF Sane
  <2>3. PassOK'
    BY <1>1, <1>3, <1>6, <2>1, <2>2, ReportOK, Zenon
  <2> QED
    BY <1>4, <2>3, Zenon DEF ArtifactInv
<1>7. CASE /\ obj.loc # 0
           /\ \E s \in {"retained", "obsoleteJobs"} :
                (s = "retained" => obj.jobRef # None) /\ pass' = [pass EXCEPT !.pc = s, !.op = op]
  <2>1. PICK s \in {"retained", "obsoleteJobs"} :
          (s = "retained" => obj.jobRef # None) /\ pass' = [pass EXCEPT !.pc = s, !.op = op]
    BY <1>7, Zenon
  <2>2. /\ DOMAIN pass' = PassFields /\ pass'.pc = s /\ pass'.me = me /\ pass'.obj = obj /\ pass'.op = op
        /\ me' = me /\ obj' = obj
    BY <1>3, <2>1, Zenon DEF PassOK, PassFields, me, obj
  <2>3. op \in Ops /\ op.claim <= storage.claim
    <3>1. storage.cache \in 0..MaxCaches /\ storage.claim \in 0..MaxClaims
      BY <1>3, Zenon DEF World, Shapes
    <3>2. MaxClaims \in Nat
      BY <1>3, ArtifactAssumption, Zenon DEF World, Shapes, MaxClaims
    <3> QED
      BY <3>1, <3>2 DEF Ops
  <2> HIDE DEF op
  <2>4. Stages'
    BY <1>1, <1>3, <1>7, <2>1, <2>2, <2>3, SameSets, Zenon DEF Stages, Resolved, Live, At
  <2>5. PassOK'
    BY <1>1, <1>3, <2>2, <2>4, GoOK, Zenon
  <2> QED
    BY <1>4, <2>5, Zenon DEF ArtifactInv
<1> QED
  BY <1>2, <1>5, <1>6, <1>7, Zenon

(* What a pass may do at its end, or with the same object. *)
Fails == \E t, x, q : pass' = [pass EXCEPT !.pc = "status", !.want = artifactFailure(obj, t, x),
                                           !.again = q, !.then = "idle"]
Marks == \E x, q : /\ x # None => x.op \in Ops
                   /\ pass' = [pass EXCEPT !.pc = "status", !.want = markImporting(obj, x),
                                           !.again = q, !.then = "idle"]
Moves == /\ pass'.pc \notin {"idle", "status"} /\ DOMAIN pass' = PassFields
         /\ pass'.me = me /\ pass'.obj = obj
         /\ Stages'

(* A step of the pass that keeps World keeps the invariant when it ends the *)
(* pass, reports, or moves to a step whose condition holds.                 *)
LEMMA PassGoesOn ==
  ASSUME ArtifactInv, Busy, ~At("release"), obj.fin, World', pass' = Idle \/ Fails \/ Marks \/ Moves,
         UNCHANGED <<scenario, api, cached, cleanups, storage, dirty>>
  PROVE  ArtifactInv'
<1>1. PassOK
  BY Zenon DEF ArtifactInv
<1>2. CASE pass' = Idle
  BY <1>2, IdleOK, Zenon DEF ArtifactInv
<1>3. CASE Fails
  BY <1>1, <1>3, FailOK, Zenon DEF ArtifactInv, Fails
<1>4. CASE Marks
  BY <1>1, <1>4, MarkOK, Zenon DEF ArtifactInv, Marks
<1>5. CASE Moves
  BY <1>1, <1>5, GoOK, Zenon DEF ArtifactInv, Moves
<1> QED
  BY <1>2, <1>3, <1>4, <1>5, Zenon

(* Report of a failure is one of the ways a pass goes on. *)
LEMMA ReportFails ==
  ASSUME NEW t, NEW x, NEW q, Report(artifactFailure(obj, t, x), q)
  PROVE  Fails
  BY Zenon DEF Report, WriteThen, Fails

(* So is a report of progress. *)
LEMMA ReportMarks ==
  ASSUME NEW x, NEW q, x # None => x.op \in Ops, Report(markImporting(obj, x), q) PROVE Marks
  BY Zenon DEF Report, WriteThen, Marks

(* Done ends the pass. *)
LEMMA DoneIdle == ASSUME NEW q, Done(q) PROVE pass' = Idle
  BY Zenon DEF Done

(* The condition of Stages that belongs to the step the pass is at. *)
LEMMA Known ==
  ASSUME ArtifactInv, Busy
  PROVE  /\ World /\ PassOK /\ DOMAIN pass = PassFields /\ me \in Artifacts /\ Sane(obj, Ops)
         /\ Older(obj, api[me])
         /\ pass.pc \in {"retained", "obsoleteJobs"} => Resolved
         /\ pass.pc \in {"retained", "dropRetained"} => obj.jobRef # None
         /\ pass.pc \in {"dropRetained", "readyLeases", "result", "release", "releaseFailed", "failed",
                         "dropJob", "dropConfig"} => Resolved /\ Quiet(me)
         /\ pass.pc \in {"obsoleteRest", "acquire", "observe", "renew", "inspect"} => Resolved /\ OnlyOp
         /\ pass.pc \in {"config", "ensureConfig", "ensureJob"} => Resolved /\ OnlyOp /\ Leased
         /\ pass.pc \in {"references", "servingPods"} => Deleting
         /\ pass.pc = "stopImporters" => Unserved
         /\ pass.pc = "importerConfigs" => WithoutJobs
         /\ pass.pc = "deleteLeases" => WithoutConfigs
         /\ pass.pc \in {"cleanupStorage", "cleanupConfig", "cleanupJob", "cleanupResult"} => WithoutLeases
         /\ pass.pc \in {"detachedJob", "detachedConfig"} => WithoutLeases /\ Clean(me)
         /\ pass.pc = "detachedConfig" => cleanups[me].status = "none"
<1>1. /\ World /\ PassOK /\ DOMAIN pass = PassFields /\ me \in Artifacts /\ Sane(obj, Ops)
      /\ Older(obj, api[me]) /\ Stages
  BY Zenon DEF ArtifactInv, PassOK, PassKnows
<1> QED
  BY <1>1, Zenon DEF Stages, At

(* A step that leaves the Jobs, Pods and storage alone keeps what the pass knows of them. *)
LEMMA StageFrame ==
  ASSUME scenario' = scenario, storage' = storage, me' = me, obj' = obj, pass'.op = pass.op
  PROVE  /\ Resolved => Resolved'
         /\ UNCHANGED jobs => /\ OnlyOp => OnlyOp'
                              /\ Quiet(me) => (Quiet(me))'
                              /\ Stopped(me) => (Stopped(me))'
         /\ UNCHANGED configs => (Unpinned(me) => (Unpinned(me))')
         /\ UNCHANGED leases => (Held(me) = {} => (Held(me))' = {}) /\ (Leased => Leased')
         /\ UNCHANGED dirty => (Clean(me) => (Clean(me))')
         /\ Deleting => Deleting'
         /\ UNCHANGED mounts => (Unserved => Unserved')
         /\ artifactLeaseFingerprint(obj, pass.op)' = artifactLeaseFingerprint(obj, pass.op)
<1>1. Resolved => Resolved'
  BY SameSets DEF Resolved, Live
<1>2. UNCHANGED jobs => /\ OnlyOp => OnlyOp'
                        /\ Quiet(me) => (Quiet(me))'
                        /\ Stopped(me) => (Stopped(me))'
  BY SameSets, Zenon DEF OnlyOp, Quiet, Stopped
<1>3. UNCHANGED configs => (Unpinned(me) => (Unpinned(me))')
  BY SameSets, Zenon DEF Unpinned
<1>4. artifactLeaseFingerprint(obj, pass.op)' = artifactLeaseFingerprint(obj, pass.op)
  BY SameSets DEF artifactLeaseFingerprint, needsSource
<1>5. UNCHANGED leases => (Held(me) = {} => (Held(me))' = {}) /\ (Leased => Leased')
  BY <1>4, SameSets, Zenon DEF Held, Leased
<1>6. UNCHANGED dirty => (Clean(me) => (Clean(me))')
  BY Zenon DEF Clean
<1>7. (Deleting => Deleting') /\ (UNCHANGED mounts => (Unserved => Unserved'))
  BY Zenon DEF Unserved, Deleting
<1> QED
  BY <1>1, <1>2, <1>3, <1>4, <1>5, <1>6, <1>7, Zenon

(* No importer Pod runs beside finished Jobs. *)
LEMMA QuietNoPods == ASSUME World, NEW a \in Artifacts, Quiet(a) PROVE pods[a] = {}
  BY Zenon DEF World, PodsHaveJobs, Quiet

(* Ready: the retained Job is looked up. *)
LEMMA RetainedJobStep == ASSUME ArtifactInv, RetainedJob PROVE ArtifactInv'
<1> DEFINE o == obj.jobRef.op
           j == jobs[me][o]
<1>1. /\ pass.pc = "retained"
      /\ UNCHANGED <<scenario, api, cached, storage, jobs, pods, configs, leases, cleanups, mounts, dirty>>
  BY Zenon DEF RetainedJob, At, clusterVars, worldVars
<1>2. Busy /\ ~At("release")
  BY <1>1, Zenon DEF Busy, At
<1>3. /\ World /\ DOMAIN pass = PassFields /\ me \in Artifacts /\ Resolved /\ obj.fin
      /\ obj.jobRef # None /\ o \in Ops
  BY <1>1, <1>2, Known, Zenon DEF Resolved, Live, Sane
<1>4. World'
  BY <1>1, <1>3, WorldFrame, Zenon
<1>5. \/ pass' = Idle
      \/ pass' = [pass EXCEPT !.pc = "obsoleteJobs", !.job = j]
      \/ /\ j.status \in {"complete", "failed"}
         /\ \E s \in {"readyLeases", "dropRetained"} : pass' = [pass EXCEPT !.pc = s, !.job = j]
  <2> DEFINE step == CASE j.status = "none"     -> "obsoleteJobs"
                       [] j.status = "complete" -> IF j.uid # obj.jobRef.uid THEN "obsoleteJobs"
                                                   ELSE IF j.result = "ok" /\ j.digest = obj.digest
                                                   THEN "readyLeases" ELSE "dropRetained"
                       [] j.status = "failed"   -> "dropRetained"
                       [] OTHER                 -> "idle"
  <2>1. \/ step \in {"idle", "obsoleteJobs"}
        \/ j.status \in {"complete", "failed"} /\ step \in {"readyLeases", "dropRetained"}
    BY Zenon DEF o
  <2>2. IF step = "idle" THEN pass' = Idle ELSE pass' = [pass EXCEPT !.pc = step, !.job = j]
    BY DoneIdle, Zenon DEF RetainedJob
  <2> HIDE DEF step, j
  <2> QED
    BY <2>1, <2>2, Zenon
<1> HIDE DEF j
<1>6. CASE pass' = [pass EXCEPT !.pc = "obsoleteJobs", !.job = j]
  <2>1. /\ DOMAIN pass' = PassFields /\ pass'.pc = "obsoleteJobs" /\ pass'.me = me /\ pass'.obj = obj
        /\ pass'.op = pass.op /\ me' = me /\ obj' = obj
    BY <1>3, <1>6, Zenon DEF PassFields, me, obj
  <2>2. Moves
    BY <1>1, <1>3, <2>1, StageFrame, Zenon DEF Moves, Stages, At
  <2> QED
    BY <1>1, <1>2, <1>3, <1>4, <2>2, PassGoesOn, Zenon
<1>7. ASSUME NEW s \in {"readyLeases", "dropRetained"}, pass' = [pass EXCEPT !.pc = s, !.job = j],
             j.status \in {"complete", "failed"}
      PROVE  ArtifactInv'
  <2>1. /\ DOMAIN pass' = PassFields /\ pass'.pc = s /\ pass'.me = me /\ pass'.obj = obj
        /\ pass'.op = pass.op /\ me' = me /\ obj' = obj
    BY <1>3, <1>7, Zenon DEF PassFields, me, obj
  <2>2. Quiet(me)
    BY <1>3, <1>7 DEF World, OneJob, Quiet, j
  <2>3. Moves
    BY <1>1, <1>3, <2>1, <2>2, StageFrame, Zenon DEF Moves, Stages, At
  <2> QED
    BY <1>1, <1>2, <1>3, <1>4, <2>3, PassGoesOn, Zenon
<1> QED
  BY <1>1, <1>2, <1>3, <1>4, <1>5, <1>6, <1>7, PassGoesOn, Zenon

(* The retained Job is dropped when its evidence is not intact. *)
LEMMA DropRetainedStep == ASSUME ArtifactInv, DropRetained PROVE ArtifactInv'
<1>1. /\ pass.pc = "dropRetained"
      /\ UNCHANGED <<scenario, api, cached, storage, pods, configs, leases, cleanups, mounts, dirty>>
      /\ jobs' = [jobs EXCEPT ![me][obj.jobRef.op] = NoJob] \/ jobs' = jobs
      /\ pass' = Idle \/ Fails
  <2>1. pass' = Idle \/ Fails
    BY DoneIdle, ReportFails, Zenon DEF DropRetained
  <2> QED
    BY <2>1, Zenon DEF DropRetained, At, worldVars
<1>2. Busy /\ ~At("release")
  BY <1>1, Zenon DEF Busy, At
<1>3. /\ World /\ me \in Artifacts /\ Quiet(me) /\ obj.fin /\ obj.jobRef.op \in Ops
  BY <1>1, <1>2, Known, Zenon DEF Resolved, Live, Sane
<1>4. World'
  BY <1>1, <1>3, JobDropped, Zenon
<1> QED
  BY <1>1, <1>2, <1>3, <1>4, PassGoesOn, Zenon

(* A left-over Lease is released. *)
LEMMA ReadyLeasesStep == ASSUME ArtifactInv, ReadyLeases PROVE ArtifactInv'
<1>1. /\ pass.pc = "readyLeases" /\ pass' = Idle /\ Drop(Held(me))
      /\ UNCHANGED <<scenario, api, cached, storage, jobs, pods, configs, cleanups, mounts, dirty>>
  BY DoneIdle, Zenon DEF ReadyLeases, At, worldVars
<1>2. Busy /\ ~At("release")
  BY <1>1, Zenon DEF Busy, At
<1>3. World /\ me \in Artifacts /\ Quiet(me)
  BY <1>1, <1>2, Known, Zenon
<1>4. pods[me] = {}
  BY <1>3, QuietNoPods, Zenon
<1>5. World'
  BY <1>1, <1>3, <1>4, LeasesDropped, Zenon
<1> QED
  BY <1>1, <1>5, IdleOK, Zenon DEF ArtifactInv

(* Operations of the artifact that are not current are deleted. *)
LEMMA ObsoleteJobsStep == ASSUME ArtifactInv, ObsoleteJobs PROVE ArtifactInv'
<1> DEFINE others == {o \in Ops \ {pass.op} : jobs[me][o].status # "none"}
<1>1. /\ pass.pc = "obsoleteJobs" /\ DeleteForeground(me, others)
      /\ UNCHANGED <<scenario, api, cached, storage, pods, configs, leases, cleanups, mounts, dirty>>
      /\ pass' = Idle \/ (others = {} /\ pass' = [pass EXCEPT !.pc = "obsoleteRest"])
  BY Zenon DEF ObsoleteJobs, At, worldVars, Done, Goto
<1>2. Busy /\ ~At("release")
  BY <1>1, Zenon DEF Busy, At
<1>3. World /\ DOMAIN pass = PassFields /\ me \in Artifacts /\ Resolved /\ obj.fin
  BY <1>1, <1>2, Known, Zenon DEF Resolved, Live
<1>4. \A o \in others : jobs[me][o].status # "none"
  BY Zenon
<1> HIDE DEF others
<1>5. World' /\ \A o \in Ops : jobs'[me][o].status = jobs[me][o].status
  BY <1>1, <1>3, <1>4, JobsMarked, Zenon
<1>6. CASE others = {} /\ pass' = [pass EXCEPT !.pc = "obsoleteRest"]
  <2>1. /\ DOMAIN pass' = PassFields /\ pass'.pc = "obsoleteRest" /\ pass'.me = me /\ pass'.obj = obj
        /\ pass'.op = pass.op /\ me' = me /\ obj' = obj
    BY <1>3, <1>6, GotoFacts, Zenon
  <2>2. OnlyOp'
    <3>1. OnlyOp
      BY <1>6, Zenon DEF OnlyOp, others
    <3> QED
      BY <1>1, <1>5, <2>1, <3>1, SameSets, Zenon DEF OnlyOp
  <2>3. Moves
    BY <1>1, <1>3, <2>1, <2>2, StageFrame, Zenon DEF Moves, Stages, At
  <2> QED
    BY <1>1, <1>2, <1>3, <1>5, <2>3, PassGoesOn, Zenon
<1> QED
  BY <1>1, <1>2, <1>3, <1>5, <1>6, PassGoesOn, Zenon

(* An importer and the pass agree on the source it mounts. *)
LEMMA SameSource ==
  ASSUME ArtifactInv, Busy, ~At("release"), obj.fin, Exclusive, Mode # "Hub"
  PROVE  needsSource(api[me]) = needsSource(obj)
<1>1. World
  BY Zenon DEF ArtifactInv
<1>2. Mode \in {"Hub", "Copy", "Direct"}
  BY <1>1, ArtifactAssumption, Zenon DEF World, Shapes, Mode
<1>3. CASE Mode = "Direct"
  BY <1>3, Zenon DEF needsSource
<1>4. CASE Mode = "Copy"
  <2>1. ~InformerLag
    BY <1>4, Zenon DEF Exclusive
  <2>2. api[me].digest = obj.digest
    BY <2>1, Zenon DEF ArtifactInv, PassOK, PassKnows
  <2> QED
    BY <2>2, Zenon DEF needsSource
<1> QED
  BY <1>2, <1>3, <1>4, Zenon

(* The Lease of a running importer is the one the pass works under. *)
LEMMA RunningLease ==
  ASSUME ArtifactInv, Busy, ~At("release"), Resolved, OnlyOp, Exclusive, NEW p \in pods[me]
  PROVE  LeaseOf(me, p.op) = artifactLeaseFingerprint(obj, pass.op)
<1>1. World /\ me \in Artifacts /\ obj.fin
  BY Known, Zenon DEF Resolved, Live
<1>2. p.op \in Ops /\ jobs[me][p.op].status # "none"
  BY <1>1, Zenon DEF World, PodsHaveJobs
<1>3. p.op = pass.op
  BY <1>2, Zenon DEF OnlyOp
<1>4. Mode # "Hub" => jobs[me][p.op].source = needsSource(api[me])
  BY <1>1, Zenon DEF World, LeasesHeld
<1>5. Mode # "Hub" => needsSource(api[me]) = needsSource(obj)
  BY <1>1, SameSource, Zenon
<1> QED
  BY <1>3, <1>4, <1>5, Zenon DEF LeaseOf, artifactLeaseFingerprint

(* What the other operations leave behind is deleted. *)
LEMMA ObsoleteRestStep == ASSUME ArtifactInv, ObsoleteRest PROVE ArtifactInv'
<1> DEFINE others == {o \in Ops \ {pass.op} : configs[me][o] # "none"}
           stale  == Held(me) \ {artifactLeaseFingerprint(obj, pass.op)}
<1>1. /\ pass.pc = "obsoleteRest" /\ Drop(stale)
      /\ configs' = [configs EXCEPT ![me] = [o \in Ops |-> IF o \in others THEN "none" ELSE configs[me][o]]]
      /\ UNCHANGED <<scenario, api, cached, storage, jobs, pods, cleanups, mounts, dirty>>
      /\ pass' = Idle \/ pass' = [pass EXCEPT !.pc = "acquire"]
  BY Zenon DEF ObsoleteRest, At, worldVars, Done, Goto
<1>2. Busy /\ ~At("release")
  BY <1>1, Zenon DEF Busy, At
<1>3. World /\ DOMAIN pass = PassFields /\ me \in Artifacts /\ Resolved /\ OnlyOp /\ obj.fin
  BY <1>1, <1>2, Known, Zenon DEF Resolved, Live
<1>4. Exclusive => \A p \in pods[me] : LeaseOf(me, p.op) \notin stale
  BY <1>2, <1>3, RunningLease, Zenon
<1>5. stale \subseteq Held(me)
  BY Zenon
<1> HIDE DEF others, stale
<1>6. /\ DOMAIN configs' = Artifacts /\ DOMAIN configs'[me] = Ops
      /\ \A a \in Artifacts : a # me => configs'[a] = configs[a]
      /\ \A o \in Ops : configs'[me][o] \in {"none", configs[me][o]}
  BY <1>1, <1>3, Zenon DEF World, Shapes
<1>7. api[me].loc = 0 => \A o \in Ops : configs'[me][o] = "none"
  BY <1>3, <1>6, Zenon DEF World, Checkpointed, Unpinned
<1>8. World'
  BY <1>1, <1>3, <1>4, <1>5, <1>6, <1>7, ObsoleteDropped DEF Drop
<1>9. CASE pass' = [pass EXCEPT !.pc = "acquire"]
  <2>1. /\ DOMAIN pass' = PassFields /\ pass'.pc = "acquire" /\ pass'.me = me /\ pass'.obj = obj
        /\ pass'.op = pass.op /\ me' = me /\ obj' = obj
    BY <1>3, <1>9, GotoFacts, Zenon
  <2>2. Moves
    BY <1>1, <1>3, <2>1, StageFrame, Zenon DEF Moves, Stages, At
  <2> QED
    BY <1>1, <1>2, <1>3, <1>8, <2>2, PassGoesOn, Zenon
<1> QED
  BY <1>1, <1>2, <1>3, <1>8, <1>9, PassGoesOn, Zenon

(* A Lease that nobody else holds is taken or renewed. *)
LEMMA LeaseTaken ==
  ASSUME World, NEW m \in Artifacts, NEW f \in Fingerprints, api[m].loc # 0,
         leases[f].holder \in {None, m} \/ ~leases[f].live,
         leases' = [leases EXCEPT ![f] = [holder |-> m, live |-> TRUE]],
         UNCHANGED <<scenario, api, cached, storage, jobs, pods, configs, cleanups, mounts, dirty>>
  PROVE  World' /\ leases'[f].holder = m
<1> DEFINE l == [holder |-> m, live |-> TRUE]
<1>1. l.holder = m /\ l.live /\ DOMAIN l = LeaseFields
  BY Zenon DEF LeaseFields
<1>2. /\ DOMAIN leases' = Fingerprints /\ leases'[f] = l
      /\ \A g \in Fingerprints : g # f => leases'[g] = leases[g]
  BY Zenon DEF World, Shapes
<1> HIDE DEF l
<1>3. None \notin Artifacts
  BY ArtifactAssumption, Zenon DEF World, Shapes, Artifacts
<1>4. Shapes'
  <2>1. Shapes
    BY Zenon DEF World
  <2>2. \A g \in Fingerprints : DOMAIN leases'[g] = LeaseFields
    BY <1>1, <1>2, <2>1, Zenon DEF Shapes
  <2>3. UNCHANGED <<scenario, api, cached, jobs, pods, configs, cleanups, mounts, dirty, storage>>
    OBVIOUS
  <2> QED
    BY <1>2, <2>1, <2>2, <2>3, SameSets DEF Shapes
<1>5. Checkpointed'
  <2>1. \A a \in Artifacts : a # m /\ Held(a) = {} => \A g \in Fingerprints : leases'[g].holder # a
    BY <1>1, <1>2, Zenon DEF Held
  <2> QED
    BY <2>1, SameSets DEF World, Checkpointed, Stopped, Unpinned, Held
<1>6. LeasesHeld'
  <2> SUFFICES ASSUME Exclusive PROVE LeasesHeld'
    BY SameSets, Zenon DEF LeasesHeld
  <2>1. \A a \in Artifacts : (needsSource(api[a]))' = needsSource(api[a])
    BY SameSets DEF needsSource
  <2>2. \A a, o : LeaseOf(a, o)' = LeaseOf(a, o)
    BY SameSets, Zenon DEF LeaseOf
  <2>3. leases[f].holder \in {None, m}
    BY Zenon DEF World, LeasesHeld
  <2>4. ASSUME NEW a \in Artifacts, NEW p \in pods[a]
        PROVE  (/\ leases[LeaseOf(a, p.op)].holder = a
                /\ Mode # "Hub" => jobs[a][p.op].source = needsSource(api[a]))'
    <3>1. /\ leases[LeaseOf(a, p.op)].holder = a
          /\ Mode # "Hub" => jobs[a][p.op].source = needsSource(api[a])
      BY Zenon DEF World, LeasesHeld
    <3>2. LeaseOf(a, p.op) \in Fingerprints
      BY Zenon DEF World, PodsHaveJobs, LeaseOf, Fingerprints
    <3>3. leases'[LeaseOf(a, p.op)].holder = a
      BY <1>1, <1>2, <1>3, <2>3, <3>1, <3>2
    <3> QED
      BY <2>1, <2>2, <3>1, <3>3, SameSets, Zenon
  <2>5. (\A g \in Fingerprints : leases[g].holder # None => leases[g].live)'
    BY <1>1, <1>2, SameSets, Zenon DEF World, LeasesHeld
  <2> QED
    BY <2>4, <2>5, SameSets, Zenon DEF LeasesHeld
<1> QED
  BY <1>1, <1>2, <1>4, <1>5, <1>6, Frames, Zenon DEF World

(* A resolved pass works for an artifact that has a checkpoint and still *)
(* exists.                                                               *)
LEMMA ResolvedFacts ==
  ASSUME ArtifactInv, Busy, Resolved
  PROVE  /\ obj.fin /\ obj.phase = "live" /\ api[me].loc # 0 /\ api[me].phase # "gone" /\ pass.op \in Ops
         /\ artifactLeaseFingerprint(obj, pass.op) \in Fingerprints
<1>1. obj.fin /\ obj.phase = "live" /\ obj.loc # 0 /\ pass.op \in Ops
  BY Zenon DEF Resolved, Live
<1>2. Older(obj, api[me])
  BY Known, Zenon
<1>3. artifactLeaseFingerprint(obj, pass.op) \in Fingerprints
  BY <1>1, Zenon DEF artifactLeaseFingerprint, Fingerprints
<1> QED
  BY <1>1, <1>2, <1>3, Zenon DEF Older

(* acquireLease keeps the invariant: it takes a Lease that is free, its own *)
(* or expired, or reports that it waits.                                    *)
LEMMA AcquireOK ==
  ASSUME ArtifactInv, Busy, ~At("release"), Resolved, OnlyOp, NEW s, NEW x,
         s = "config" \/ s = "inspect", x # None => x.op \in Ops,
         acquireLease(s, x),
         UNCHANGED <<scenario, api, cached, storage, jobs, pods, configs, cleanups, mounts, dirty>>
  PROVE  ArtifactInv'
<1> DEFINE f == artifactLeaseFingerprint(obj, pass.op)
<1>1. World /\ me \in Artifacts /\ DOMAIN pass = PassFields /\ obj.fin /\ api[me].loc # 0 /\ f \in Fingerprints
  BY Known, ResolvedFacts, Zenon
<1>2. \/ /\ leases' = [leases EXCEPT ![f] = [holder |-> me, live |-> TRUE]]
         /\ pass' = [pass EXCEPT !.pc = s]
         /\ leases[f].holder \in {None, me} \/ ~leases[f].live
      \/ UNCHANGED leases /\ Marks
  BY ReportMarks, Zenon DEF acquireLease, Goto, Acquirable
<1>3. CASE UNCHANGED leases /\ Marks
  BY <1>1, <1>3, WorldFrame, PassGoesOn, Zenon
<1>4. CASE /\ leases' = [leases EXCEPT ![f] = [holder |-> me, live |-> TRUE]]
           /\ pass' = [pass EXCEPT !.pc = s]
           /\ leases[f].holder \in {None, me} \/ ~leases[f].live
  <2> HIDE DEF f
  <2>1. World' /\ leases'[f].holder = me
    BY <1>1, <1>4, LeaseTaken, Zenon
  <2>2. /\ DOMAIN pass' = PassFields /\ pass'.pc = s /\ pass'.me = me /\ pass'.obj = obj
        /\ pass'.op = pass.op /\ me' = me /\ obj' = obj
    BY <1>1, <1>4, GotoFacts, Zenon
  <2>3. Leased'
    BY <2>1, <2>2, StageFrame, Zenon DEF Leased, f
  <2>4. Moves
    BY <1>1, <2>2, <2>3, StageFrame, Zenon DEF Moves, Stages, At
  <2> QED
    BY <1>1, <2>1, <2>4, PassGoesOn, Zenon
<1> QED
  BY <1>2, <1>3, <1>4, Zenon

(* The Lease of the operation is acquired before its ConfigMap and Job. *)
LEMMA AcquireStep == ASSUME ArtifactInv, Acquire PROVE ArtifactInv'
<1>1. /\ pass.pc = "acquire" /\ acquireLease("config", None)
      /\ UNCHANGED <<scenario, api, cached, storage, jobs, pods, configs, cleanups, mounts, dirty>>
  BY Zenon DEF Acquire, At, worldVars
<1>2. Busy /\ ~At("release") /\ Resolved /\ OnlyOp
  BY <1>1, Known, Zenon DEF Busy, At
<1> QED
  BY <1>1, <1>2, AcquireOK, Zenon

(* The Lease is renewed while the Job runs. *)
LEMMA RenewStep == ASSUME ArtifactInv, Renew PROVE ArtifactInv'
<1>1. /\ pass.pc = "renew" /\ acquireLease("inspect", Ref(pass.op, pass.job))
      /\ UNCHANGED <<scenario, api, cached, storage, jobs, pods, configs, cleanups, mounts, dirty>>
  BY Zenon DEF Renew, At, worldVars
<1>2. Busy /\ ~At("release") /\ Resolved /\ OnlyOp
  BY <1>1, Known, Zenon DEF Busy, At
<1>3. Ref(pass.op, pass.job).op \in Ops
  BY <1>2, Zenon DEF Ref, Resolved
<1> QED
  BY <1>1, <1>2, <1>3, AcquireOK, Zenon

(* A ConfigMap that pins another identity is replaced while no Job uses it *)
(* (replaceUnusedImporterConfig).                                          *)
LEMMA ConfigStep == ASSUME ArtifactInv, replaceUnusedImporterConfig PROVE ArtifactInv'
<1>1. /\ pass.pc = "config"
      /\ configs' = configs \/ configs' = [configs EXCEPT ![me][pass.op] = "none"]
      /\ UNCHANGED <<scenario, api, cached, storage, jobs, pods, leases, cleanups, mounts, dirty>>
      /\ pass' = Idle \/ pass' = [pass EXCEPT !.pc = "ensureConfig"]
  BY Zenon DEF replaceUnusedImporterConfig, At, worldVars, Done, Goto
<1>2. Busy /\ ~At("release") /\ Resolved /\ OnlyOp /\ Leased
  BY <1>1, Known, Zenon DEF Busy, At
<1>3. /\ World /\ DOMAIN pass = PassFields /\ me \in Artifacts /\ obj.fin /\ pass.op \in Ops
      /\ api[me].loc # 0
  BY <1>2, Known, ResolvedFacts, Zenon
<1>4. /\ DOMAIN configs' = Artifacts /\ DOMAIN configs'[me] = Ops
      /\ \A a \in Artifacts : a # me => configs'[a] = configs[a]
  BY <1>1, <1>3, Zenon DEF World, Shapes
<1>5. World'
  BY <1>1, <1>3, <1>4, ConfigsChange, Zenon
<1>6. CASE pass' = [pass EXCEPT !.pc = "ensureConfig"]
  <2>1. /\ DOMAIN pass' = PassFields /\ pass'.pc = "ensureConfig" /\ pass'.me = me /\ pass'.obj = obj
        /\ pass'.op = pass.op /\ me' = me /\ obj' = obj
    BY <1>3, <1>6, GotoFacts, Zenon
  <2>2. Moves
    BY <1>1, <1>2, <2>1, StageFrame, Zenon DEF Moves, Stages, At
  <2> QED
    BY <1>1, <1>2, <1>3, <1>5, <2>2, PassGoesOn, Zenon
<1> QED
  BY <1>1, <1>2, <1>3, <1>5, <1>6, PassGoesOn, Zenon

(* The importer's ConfigMap is created, or the one that is there is used. *)
LEMMA EnsureConfigStep == ASSUME ArtifactInv, EnsureConfig PROVE ArtifactInv'
<1>1. /\ pass.pc = "ensureConfig" /\ configs' = [configs EXCEPT ![me][pass.op] = importerSpec(obj)]
      /\ UNCHANGED <<scenario, api, cached, storage, jobs, pods, leases, cleanups, mounts, dirty>>
      /\ pass' = [pass EXCEPT !.pc = "ensureJob"]
  BY Zenon DEF EnsureConfig, At, worldVars, Goto
<1>2. Busy /\ ~At("release") /\ Resolved /\ OnlyOp /\ Leased
  BY <1>1, Known, Zenon DEF Busy, At
<1>3. /\ World /\ DOMAIN pass = PassFields /\ me \in Artifacts /\ obj.fin /\ pass.op \in Ops
      /\ api[me].loc # 0
  BY <1>2, Known, ResolvedFacts, Zenon
<1>4. /\ DOMAIN configs' = Artifacts /\ DOMAIN configs'[me] = Ops
      /\ \A a \in Artifacts : a # me => configs'[a] = configs[a]
  BY <1>1, <1>3, Zenon DEF World, Shapes
<1>5. World'
  BY <1>1, <1>3, <1>4, ConfigsChange, Zenon
<1>6. /\ DOMAIN pass' = PassFields /\ pass'.pc = "ensureJob" /\ pass'.me = me /\ pass'.obj = obj
      /\ pass'.op = pass.op /\ me' = me /\ obj' = obj
  BY <1>1, <1>3, GotoFacts, Zenon
<1>7. Moves
  BY <1>1, <1>2, <1>6, StageFrame, Zenon DEF Moves, Stages, At
<1> QED
  BY <1>1, <1>2, <1>3, <1>5, <1>7, PassGoesOn, Zenon

(* The import Job is created under the Lease, or the existing one is accepted. *)
LEMMA EnsureJobStep == ASSUME ArtifactInv, EnsureJob PROVE ArtifactInv'
<1> DEFINE new == newImportJob
<1>1. /\ pass.pc = "ensureJob"
      /\ UNCHANGED <<scenario, api, cached, storage, configs, leases, cleanups, mounts>>
      /\ \/ /\ pass' = Idle \/ pass' = [pass EXCEPT !.pc = "observe"]
            /\ UNCHANGED <<jobs, pods, dirty>>
         \/ /\ jobs[me][pass.op].status = "none"
            /\ jobs' = [jobs EXCEPT ![me][pass.op] = new]
            /\ pods' = [pods EXCEPT ![me] = pods[me] \cup {Ref(pass.op, new)}]
            /\ dirty' = [dirty EXCEPT ![me] =
                           IF Mode = "Direct" THEN dirty[me] ELSE dirty[me] \cup {pass.op.claim}]
            /\ pass' = [pass EXCEPT !.pc = "observe"]
  BY Zenon DEF EnsureJob, At, Done, Goto, job
<1>2. Busy /\ ~At("release") /\ Resolved /\ OnlyOp /\ Leased
  BY <1>1, Known, Zenon DEF Busy, At
<1>3. /\ World /\ PassOK /\ DOMAIN pass = PassFields /\ me \in Artifacts /\ Sane(obj, Ops)
      /\ obj.fin /\ obj.phase = "live" /\ pass.op \in Ops /\ pass.op.claim <= storage.claim
      /\ api[me].loc # 0 /\ api[me].phase # "gone"
  BY <1>2, Known, ResolvedFacts, Zenon DEF Resolved
<1>4. /\ ~cleanups[me].pod /\ ~cleanups[me].good /\ ~api[me].cleaned /\ ~cached[me].cleaned
      /\ Older(obj, api[me]) /\ ~obj.cleaned
      /\ InformerLag \/ api[me].digest = obj.digest
  BY <1>2, <1>3, Zenon DEF PassOK, PassKnows, Sane
<1>5. CASE pass' = [pass EXCEPT !.pc = "observe"] /\ UNCHANGED <<jobs, pods, dirty>>
  <2>1. /\ DOMAIN pass' = PassFields /\ pass'.pc = "observe" /\ pass'.me = me /\ pass'.obj = obj
        /\ pass'.op = pass.op /\ me' = me /\ obj' = obj
    BY <1>3, <1>5, GotoFacts, Zenon
  <2>2. Moves
    BY <1>1, <1>2, <1>5, <2>1, StageFrame, Zenon DEF Moves, Stages, At
  <2> QED
    BY <1>1, <1>2, <1>3, <1>5, <2>2, WorldFrame, PassGoesOn, Zenon
<1>6. CASE pass' = Idle /\ UNCHANGED <<jobs, pods, dirty>>
  BY <1>1, <1>2, <1>3, <1>6, WorldFrame, PassGoesOn, Zenon
<1>7. CASE /\ jobs[me][pass.op].status = "none"
           /\ jobs' = [jobs EXCEPT ![me][pass.op] = new]
           /\ pods' = [pods EXCEPT ![me] = pods[me] \cup {Ref(pass.op, new)}]
           /\ dirty' = [dirty EXCEPT ![me] =
                          IF Mode = "Direct" THEN dirty[me] ELSE dirty[me] \cup {pass.op.claim}]
           /\ pass' = [pass EXCEPT !.pc = "observe"]
  <2>1. new.status = "active" /\ new.source = needsSource(obj) /\ DOMAIN new = JobFields
    BY Zenon DEF newImportJob, NoJob, JobFields
  <2> HIDE DEF new
  <2>2. Stopped(me)
    BY <1>2, <1>7, Zenon DEF OnlyOp, Stopped
  <2>3. pods[me] = {}
    BY <1>3, <2>2, Zenon DEF World, PodsHaveJobs, Stopped
  <2>4. /\ DOMAIN jobs' = Artifacts /\ DOMAIN jobs'[me] = Ops /\ jobs'[me][pass.op] = new
        /\ \A o \in Ops : o # pass.op => jobs'[me][o] = jobs[me][o]
        /\ \A a \in Artifacts : a # me => jobs'[a] = jobs[a]
    BY <1>3, <1>7, Zenon DEF World, Shapes
  <2>5. /\ DOMAIN pods' = Artifacts /\ pods'[me] = {Ref(pass.op, new)}
        /\ \A a \in Artifacts : a # me => pods'[a] = pods[a]
    BY <1>3, <1>7, <2>3, Zenon DEF World, Shapes
  <2>6. /\ DOMAIN dirty' = Artifacts
        /\ dirty'[me] = IF Mode = "Direct" THEN dirty[me] ELSE dirty[me] \cup {pass.op.claim}
        /\ \A a \in Artifacts : a # me => dirty'[a] = dirty[a]
    BY <1>3, <1>7, Zenon DEF World, Shapes
  <2>7. \A o \in Ops : /\ DOMAIN jobs[me][o] = JobFields /\ jobs[me][o].status = "none"
                       /\ jobs[me][o] = NoJob
    <3>1. Shapes /\ OneJob
      BY <1>3, Zenon DEF World
    <3>2. \A o \in Ops : DOMAIN jobs[me][o] = JobFields
      BY <1>3, <3>1, Zenon DEF Shapes
    <3>3. \A o \in Ops : jobs[me][o].status = "none" => jobs[me][o] = NoJob
      BY <1>3, <3>1, Zenon DEF OneJob
    <3> QED
      BY <2>2, <3>2, <3>3, Zenon DEF Stopped
  <2>8. FilesClean'
    <3>1. ASSUME NEW a \in Artifacts
          PROVE  (/\ \A c \in dirty[a] : c \in 0..storage.claim
                  /\ Mode = "Direct" => dirty[a] = {}
                  /\ api[a].phase # "gone" /\ api[a].loc = 0 => dirty[a] = {}
                  /\ api[a].phase = "gone" => Clean(a)
                  /\ cleanups[a].good \/ api[a].cleaned \/ cached[a].cleaned
                     => Clean(a) /\ cached[a].phase # "live")'
      <4>1. CASE a = me
        <5>1. pass.op.claim \in 0..storage.claim
          BY <1>3, ArtifactAssumption DEF World, Shapes, Ops, MaxClaims
        <5>2. \A c \in dirty'[me] : c \in 0..storage.claim
          BY <1>3, <2>6, <5>1, Zenon DEF World, FilesClean
        <5>3. Mode = "Direct" => dirty'[me] = {}
          BY <1>3, <2>6, Zenon DEF World, FilesClean
        <5> QED
          BY <1>1, <1>3, <1>4, <4>1, <5>2, <5>3, SameSets, Zenon
      <4>2. CASE a # me
        <5>1. (Clean(a))' <=> Clean(a)
          BY <1>1, <2>6, <4>2, Zenon DEF Clean
        <5> QED
          BY <1>1, <1>3, <2>6, <4>2, <5>1, SameSets DEF World, FilesClean
      <4> QED
        BY <4>1, <4>2, Zenon
    <3> QED
      BY <1>1, <3>1, SameSets, Zenon DEF FilesClean
  <2>9. \A o \in Ops : /\ DOMAIN jobs'[me][o] = JobFields
                       /\ jobs'[me][o].status = "none" => jobs'[me][o] = NoJob
                       /\ jobs'[me][o].status # "none" =>
                            \A q \in Ops : jobs'[me][q].status # "none" => q = o
    BY <2>1, <2>4, <2>7
  <2>10. \A p \in pods'[me] : p.op = pass.op /\ p = Ref(p.op, new)
    BY <2>5 DEF Ref
  <2>11. ASSUME Exclusive
         PROVE  /\ leases[[op |-> pass.op, source |-> Mode # "Hub" /\ new.source]].holder = me
                /\ Mode # "Hub" => new.source = needsSource(api[me])
    <3>1. Mode # "Hub" => needsSource(api[me]) = needsSource(obj)
      BY <1>2, <1>3, <2>11, SameSource, Zenon
    <3> QED
      BY <1>2, <2>1, <2>11, <3>1, Zenon DEF Leased, artifactLeaseFingerprint
  <2>12. World'
    <3>1. \A p \in pods'[me] : /\ p.op \in Ops /\ p = Ref(p.op, jobs'[me][p.op])
                               /\ jobs'[me][p.op].status \in {"active", "blocked"}
      BY <1>3, <2>1, <2>4, <2>10, Zenon
    <3>2. Exclusive => \A p \in pods'[me] :
            /\ leases[[op |-> p.op, source |-> Mode # "Hub" /\ jobs'[me][p.op].source]].holder = me
            /\ Mode # "Hub" => jobs'[me][p.op].source = needsSource(api[me])
      BY <2>4, <2>10, <2>11, Zenon
    <3>3. JobsFit(me)
      BY <1>3, <1>4, <2>4, <2>5, <2>6, <2>8, <2>9, <3>1, <3>2, Zenon DEF JobsFit
    <3> QED
      BY <1>1, <1>3, <3>3, JobsChange, Zenon
  <2>13. /\ DOMAIN pass' = PassFields /\ pass'.pc = "observe" /\ pass'.me = me /\ pass'.obj = obj
         /\ pass'.op = pass.op /\ me' = me /\ obj' = obj
    BY <1>3, <1>7, GotoFacts, Zenon
  <2>14. PassKnows'
    BY <1>1, <1>2, <1>3, <1>4, <2>13, SameSets, Zenon DEF PassOK, PassKnows, At
  <2>15. OnlyOp'
    BY <1>1, <2>4, <2>7, <2>13, SameSets DEF OnlyOp
  <2>16. Resolved'
    BY <1>1, <1>2, <2>13, StageFrame, Zenon
  <2>17. PassOK'
    BY <2>13, <2>14, <2>15, <2>16, Zenon DEF PassOK, Stages, WillWrite, At
  <2> QED
    BY <2>12, <2>17, Zenon DEF ArtifactInv
<1> QED
  BY <1>1, <1>5, <1>6, <1>7, Zenon

(* The status of the Job decides how the pass goes on. *)
LEMMA ObserveJobStep == ASSUME ArtifactInv, ObserveJob PROVE ArtifactInv'
<1> DEFINE j == jobs[me][pass.op]
<1>1. /\ pass.pc = "observe"
      /\ UNCHANGED <<scenario, api, cached, storage, jobs, pods, configs, leases, cleanups, mounts, dirty>>
  BY Zenon DEF ObserveJob, At, clusterVars, worldVars
<1>2. Busy /\ ~At("release") /\ Resolved /\ OnlyOp
  BY <1>1, Known, Zenon DEF Busy, At
<1>3. World /\ DOMAIN pass = PassFields /\ me \in Artifacts /\ obj.fin
  BY <1>2, Known, ResolvedFacts, Zenon
<1>4. World'
  BY <1>1, <1>3, WorldFrame, Zenon
<1>5. \/ pass' = Idle
      \/ pass' = [pass EXCEPT !.pc = "renew", !.job = j]
      \/ j.status \in {"complete", "failed"} /\ pass' = [pass EXCEPT !.pc = "result", !.job = j]
  <2> DEFINE step == IF j.status = "none" THEN "idle" ELSE IF Finished(j.status) THEN "result" ELSE "renew"
  <2>1. step \in {"idle", "renew"} \/ (j.status \in {"complete", "failed"} /\ step = "result")
    BY Zenon DEF Finished
  <2>2. IF step = "idle" THEN pass' = Idle ELSE pass' = [pass EXCEPT !.pc = step, !.job = j]
    BY DoneIdle, Zenon DEF ObserveJob, job
  <2> HIDE DEF step, j
  <2> QED
    BY <2>1, <2>2, Zenon
<1> HIDE DEF j
<1>6. CASE pass' = [pass EXCEPT !.pc = "renew", !.job = j]
  <2>1. /\ DOMAIN pass' = PassFields /\ pass'.pc = "renew" /\ pass'.me = me /\ pass'.obj = obj
        /\ pass'.op = pass.op /\ me' = me /\ obj' = obj
    BY <1>3, <1>6, Zenon DEF PassFields, me, obj
  <2>2. Moves
    BY <1>1, <1>2, <2>1, StageFrame, Zenon DEF Moves, Stages, At
  <2> QED
    BY <1>1, <1>2, <1>3, <1>4, <2>2, PassGoesOn, Zenon
<1>7. CASE j.status \in {"complete", "failed"} /\ pass' = [pass EXCEPT !.pc = "result", !.job = j]
  <2>1. /\ DOMAIN pass' = PassFields /\ pass'.pc = "result" /\ pass'.me = me /\ pass'.obj = obj
        /\ pass'.op = pass.op /\ me' = me /\ obj' = obj
    BY <1>3, <1>7, Zenon DEF PassFields, me, obj
  <2>2. Quiet(me)
    BY <1>2, <1>7, Zenon DEF OnlyOp, Quiet, j
  <2>3. Moves
    BY <1>1, <1>2, <2>1, <2>2, StageFrame, Zenon DEF Moves, Stages, At
  <2> QED
    BY <1>1, <1>2, <1>3, <1>4, <2>3, PassGoesOn, Zenon
<1> QED
  BY <1>1, <1>2, <1>3, <1>4, <1>5, <1>6, <1>7, PassGoesOn, Zenon

(* A pending Job is inspected. *)
LEMMA InspectStep == ASSUME ArtifactInv, inspectPendingJob PROVE ArtifactInv'
<1>1. /\ pass.pc = "inspect"
      /\ UNCHANGED <<scenario, api, cached, storage, jobs, pods, configs, leases, cleanups, mounts, dirty>>
  BY Zenon DEF inspectPendingJob, At, clusterVars, worldVars
<1>2. Busy /\ ~At("release") /\ Resolved
  BY <1>1, Known, Zenon DEF Busy, At
<1>3. World /\ obj.fin /\ Ref(pass.op, pass.job).op \in Ops
  BY <1>2, Known, ResolvedFacts, Zenon DEF Ref
<1>4. Fails \/ Marks
  BY <1>3, ReportFails, ReportMarks, Zenon DEF inspectPendingJob
<1> QED
  BY <1>1, <1>2, <1>3, <1>4, WorldFrame, PassGoesOn, Zenon

(* The result of the finished Job is read. *)
LEMMA ReadResultStep == ASSUME ArtifactInv, ReadResult PROVE ArtifactInv'
<1> DEFINE j == readJobResult
           r == completeArtifact(obj, j.digest, Ref(pass.op, j))
<1>1. /\ pass.pc = "result"
      /\ UNCHANGED <<scenario, api, cached, storage, jobs, pods, configs, leases, cleanups, mounts, dirty>>
  BY Zenon DEF ReadResult, At, clusterVars, worldVars
<1>2. Busy /\ ~At("release") /\ Resolved /\ Quiet(me)
  BY <1>1, Known, Zenon DEF Busy, At
<1>3. /\ World /\ PassOK /\ DOMAIN pass = PassFields /\ me \in Artifacts /\ obj.fin /\ obj.phase = "live"
      /\ Sane(obj, Ops) /\ pass.op \in Ops
  BY <1>2, Known, ResolvedFacts, Zenon
<1>4. World'
  BY <1>1, <1>3, WorldFrame, Zenon
<1>5. \/ pass' = [pass EXCEPT !.pc = "releaseFailed", !.job = j]
      \/ /\ obj.digest \in {None, j.digest}
         /\ pass' = [pass EXCEPT !.pc = "status", !.want = r, !.again = TRUE, !.then = "release"]
  BY Zenon DEF ReadResult, WriteThen, SameContent
<1>6. CASE pass' = [pass EXCEPT !.pc = "releaseFailed", !.job = j]
  <2> HIDE DEF j
  <2>1. /\ DOMAIN pass' = PassFields /\ pass'.pc = "releaseFailed" /\ pass'.me = me /\ pass'.obj = obj
        /\ pass'.op = pass.op /\ me' = me /\ obj' = obj
    BY <1>3, <1>6, Zenon DEF PassFields, me, obj
  <2>2. Moves
    BY <1>1, <1>2, <2>1, StageFrame, Zenon DEF Moves, Stages, At
  <2> QED
    BY <1>1, <1>2, <1>3, <1>4, <2>2, PassGoesOn, Zenon
<1>7. CASE /\ obj.digest \in {None, j.digest}
           /\ pass' = [pass EXCEPT !.pc = "status", !.want = r, !.again = TRUE, !.then = "release"]
  <2> HIDE DEF j
  <2>1. Ref(pass.op, j).op \in Ops
    BY <1>3, Zenon DEF Ref
  <2>2. /\ Sane(r, Ops) /\ r.phase = obj.phase /\ r.fin = obj.fin /\ r.loc = obj.loc
        /\ r.digest = j.digest /\ r.cleaned = obj.cleaned
    <3>1. /\ DOMAIN r = RecordFields /\ r.phase = obj.phase /\ r.fin = obj.fin /\ r.loc = obj.loc
          /\ r.digest = j.digest /\ r.cleaned = obj.cleaned /\ r.ready = TRUE /\ r.jobRef = Ref(pass.op, j)
      BY <1>3, Zenon DEF Sane, RecordFields, completeArtifact
    <3> HIDE DEF r
    <3> QED
      BY <1>3, <2>1, <3>1, Zenon DEF Sane
  <2> HIDE DEF r
  <2>3. /\ DOMAIN pass' = PassFields /\ pass'.pc = "status" /\ pass'.me = me /\ pass'.obj = obj
        /\ pass'.op = pass.op /\ pass'.want = r /\ pass'.then = "release" /\ me' = me /\ obj' = obj
    BY <1>3, <1>7, WriteFacts, Zenon
  <2>4. PassKnows'
    BY <1>1, <1>2, <1>3, <2>3, KnowsFrame, Zenon DEF PassOK
  <2>5. Resolved' /\ (Quiet(me))'
    BY <1>1, <1>2, <2>3, StageFrame, Zenon
  <2>6. ~r.cleaned
    BY <1>3, <2>2, Zenon DEF Sane
  <2>7. WillWrite'
    BY <1>1, <1>7, <2>2, <2>3, <2>5, <2>6, SameSets, Zenon DEF WillWrite
  <2>8. PassOK'
    BY <1>3, <2>3, <2>4, <2>7, Zenon DEF PassOK, Stages, At
  <2> QED
    BY <1>4, <2>8, Zenon DEF ArtifactInv
<1> QED
  BY <1>5, <1>6, <1>7, Zenon

(* releaseLease deletes the Lease of an artifact whose importers have ended. *)
LEMMA ReleaseOK ==
  ASSUME World, me \in Artifacts, Quiet(me), releaseLease,
         UNCHANGED <<scenario, api, cached, storage, jobs, pods, configs, cleanups, mounts, dirty>>
  PROVE  World'
<1> DEFINE fs == {artifactLeaseFingerprint(obj, pass.op)} \cap Held(me)
<1>1. fs \subseteq Held(me) /\ Drop(fs)
  BY Zenon DEF releaseLease
<1>2. pods[me] = {}
  BY QuietNoPods, Zenon
<1> HIDE DEF fs
<1> QED
  BY <1>1, <1>2, LeasesDropped, Zenon

(* The Lease is released after a success. *)
LEMMA ReleaseStep == ASSUME ArtifactInv, Release PROVE ArtifactInv'
<1>1. /\ pass.pc = "release" /\ releaseLease /\ pass' = Idle
      /\ UNCHANGED <<scenario, api, cached, storage, jobs, pods, configs, cleanups, mounts, dirty>>
  BY DoneIdle, Zenon DEF Release, At, worldVars
<1>2. Busy /\ Quiet(me) /\ World /\ me \in Artifacts
  BY <1>1, Known, Zenon DEF Busy, At
<1>3. World'
  BY <1>1, <1>2, ReleaseOK, Zenon
<1> QED
  BY <1>1, <1>3, IdleOK, Zenon DEF ArtifactInv

(* The Lease is released after a failure. *)
LEMMA ReleaseFailedStep == ASSUME ArtifactInv, ReleaseFailed PROVE ArtifactInv'
<1>1. /\ pass.pc = "releaseFailed" /\ releaseLease /\ pass' = [pass EXCEPT !.pc = "failed"]
      /\ UNCHANGED <<scenario, api, cached, storage, jobs, pods, configs, cleanups, mounts, dirty>>
  BY Zenon DEF ReleaseFailed, At, worldVars, Goto
<1>2. Busy /\ ~At("release") /\ Resolved /\ Quiet(me)
  BY <1>1, Known, Zenon DEF Busy, At
<1>3. World /\ DOMAIN pass = PassFields /\ me \in Artifacts /\ obj.fin
  BY <1>2, Known, ResolvedFacts, Zenon
<1>4. World'
  BY <1>1, <1>2, <1>3, ReleaseOK, Zenon
<1>5. /\ DOMAIN pass' = PassFields /\ pass'.pc = "failed" /\ pass'.me = me /\ pass'.obj = obj
      /\ pass'.op = pass.op /\ me' = me /\ obj' = obj
  BY <1>1, <1>3, GotoFacts, Zenon
<1>6. Moves
  BY <1>1, <1>2, <1>5, StageFrame, Zenon DEF Moves, Stages, At
<1> QED
  BY <1>1, <1>2, <1>3, <1>4, <1>6, PassGoesOn, Zenon

(* A failed result is reported, or retried once its delay is over. *)
LEMMA FailedResultStep == ASSUME ArtifactInv, FailedResult PROVE ArtifactInv'
<1>1. /\ pass.pc = "failed"
      /\ UNCHANGED <<scenario, api, cached, storage, jobs, pods, configs, leases, cleanups, mounts, dirty>>
  BY Zenon DEF FailedResult, At, clusterVars, worldVars
<1>2. Busy /\ ~At("release") /\ Resolved /\ Quiet(me)
  BY <1>1, Known, Zenon DEF Busy, At
<1>3. World /\ DOMAIN pass = PassFields /\ me \in Artifacts /\ obj.fin
  BY <1>2, Known, ResolvedFacts, Zenon
<1>4. pass' = Idle \/ Fails \/ pass' = [pass EXCEPT !.pc = "dropJob"]
  <2>1. \A t, x : RetryOrReport(t, x) => pass' = Idle \/ Fails \/ pass' = [pass EXCEPT !.pc = "dropJob"]
    BY DoneIdle, ReportFails, Zenon DEF RetryOrReport, Goto
  <2>2. Goto("dropJob") => pass' = [pass EXCEPT !.pc = "dropJob"]
    BY Zenon DEF Goto
  <2>3. \A t, x, q : Report(artifactFailure(obj, t, x), q) => Fails
    BY ReportFails, Zenon
  <2> DEFINE res == pass.job.result
             c   == conditionForReason(res)
  <2>4. CASE res = "lost" 
    <3>1. RetryOrReport("SourceUnavailable", "ResultUnavailable")
      BY <2>4, Zenon DEF FailedResult
    <3> QED
      BY <2>1, <3>1, Zenon
  <2>5. CASE res = "foreign"
    <3>1. Report(artifactFailure(obj, "SourceUnavailable", "ResultIdentityMismatch"), FALSE)
      BY <2>5, Zenon DEF FailedResult
    <3> QED
      BY <2>3, <3>1, Zenon
  <2>6. CASE res \in {"ok", "invalid"}
    <3>1. \/ Report(artifactFailure(obj, "ChecksumMismatch", "ImmutableContentMismatch"), FALSE)
          \/ Goto("dropJob")
      BY <2>6, Zenon DEF FailedResult
    <3> QED
      BY <2>2, <2>3, <3>1, Zenon
  <2>7. CASE res \notin {"lost", "foreign", "ok", "invalid"}
    <3>1. RetryOrReport(c.type, res) \/ Report(artifactFailure(obj, c.type, res), FALSE)
      BY <2>7, Zenon DEF FailedResult
    <3> QED
      BY <2>1, <2>3, <3>1, Zenon
  <2> QED
    BY <2>4, <2>5, <2>6, <2>7, Zenon
<1>5. CASE pass' = [pass EXCEPT !.pc = "dropJob"]
  <2>1. /\ DOMAIN pass' = PassFields /\ pass'.pc = "dropJob" /\ pass'.me = me /\ pass'.obj = obj
        /\ pass'.op = pass.op /\ me' = me /\ obj' = obj
    BY <1>3, <1>5, GotoFacts, Zenon
  <2>2. Moves
    BY <1>1, <1>2, <2>1, StageFrame, Zenon DEF Moves, Stages, At
  <2> QED
    BY <1>1, <1>2, <1>3, <2>2, WorldFrame, PassGoesOn, Zenon
<1> QED
  BY <1>1, <1>2, <1>3, <1>4, <1>5, WorldFrame, PassGoesOn, Zenon

(* The failed Job is removed. *)
LEMMA DropJobStep == ASSUME ArtifactInv, DropJob PROVE ArtifactInv'
<1>1. /\ pass.pc = "dropJob" /\ pass' = [pass EXCEPT !.pc = "dropConfig"]
      /\ jobs' = [jobs EXCEPT ![me][pass.op] = NoJob] \/ jobs' = jobs
      /\ UNCHANGED <<scenario, api, cached, storage, pods, configs, leases, cleanups, mounts, dirty>>
  BY Zenon DEF DropJob, At, worldVars, Goto
<1>2. Busy /\ ~At("release") /\ Resolved /\ Quiet(me)
  BY <1>1, Known, Zenon DEF Busy, At
<1>3. World /\ DOMAIN pass = PassFields /\ me \in Artifacts /\ obj.fin /\ pass.op \in Ops
  BY <1>2, Known, ResolvedFacts, Zenon
<1>4. World' /\ Evolves(me)
  BY <1>1, <1>2, <1>3, JobDropped, Zenon
<1>5. /\ DOMAIN pass' = PassFields /\ pass'.pc = "dropConfig" /\ pass'.me = me /\ pass'.obj = obj
      /\ pass'.op = pass.op /\ me' = me /\ obj' = obj
  BY <1>1, <1>3, GotoFacts, Zenon
<1>6. (Quiet(me))'
  BY <1>1, <1>2, <1>4, <1>5, SameSets, Zenon DEF Quiet, Evolves
<1>7. Moves
  BY <1>1, <1>2, <1>5, <1>6, StageFrame, Zenon DEF Moves, Stages, At
<1> QED
  BY <1>1, <1>2, <1>3, <1>4, <1>7, PassGoesOn, Zenon

(* The ConfigMap of the failed Job is removed. *)
LEMMA DropConfigStep == ASSUME ArtifactInv, DropConfig PROVE ArtifactInv'
<1>1. /\ pass.pc = "dropConfig" /\ configs' = [configs EXCEPT ![me][pass.op] = "none"]
      /\ UNCHANGED <<scenario, api, cached, storage, jobs, pods, leases, cleanups, mounts, dirty>>
  BY Zenon DEF DropConfig, At, worldVars
<1>2. Busy /\ ~At("release") /\ Resolved
  BY <1>1, Known, Zenon DEF Busy, At
<1>3. /\ World /\ me \in Artifacts /\ obj.fin /\ pass.op \in Ops /\ api[me].loc # 0
  BY <1>2, Known, ResolvedFacts, Zenon
<1>4. /\ DOMAIN configs' = Artifacts /\ DOMAIN configs'[me] = Ops
      /\ \A a \in Artifacts : a # me => configs'[a] = configs[a]
  BY <1>1, <1>3, Zenon DEF World, Shapes
<1>5. World'
  BY <1>1, <1>3, <1>4, ConfigsChange, Zenon
<1>6. pass' = Idle \/ Fails
  BY DoneIdle, ReportFails, Zenon DEF DropConfig
<1> QED
  BY <1>1, <1>2, <1>3, <1>5, <1>6, PassGoesOn, Zenon
=============================================================================
