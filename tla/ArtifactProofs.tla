--------------------------- MODULE ArtifactProofs ---------------------------
(***************************************************************************)
(* What is proved of ArtifactController, for any number of artifacts,      *)
(* caches, claims and disruptions, and every importer failure: the steps   *)
(* of a deletion, the environment's, and the theorems.                     *)
(***************************************************************************)
EXTENDS ArtifactSteps

(* A pass that deletes looks for references, then for serving Pods. *)
LEMMA ReferencesStep == ASSUME ArtifactInv, References \/ ServingPods PROVE ArtifactInv'
<1>1. /\ pass.pc \in {"references", "servingPods"}
      /\ UNCHANGED <<scenario, api, cached, storage, jobs, pods, configs, leases, cleanups, mounts, dirty>>
      /\ \/ pass' = Idle
         \/ pass' = [pass EXCEPT !.pc = "servingPods"]
         \/ ~mounts[me] /\ pass' = [pass EXCEPT !.pc = "stopImporters"]
  BY Zenon DEF References, ServingPods, At, clusterVars, worldVars, Done, Goto
<1>2. Busy /\ ~At("release") /\ Deleting
  BY <1>1, Known, Zenon DEF Busy, At
<1>3. World /\ DOMAIN pass = PassFields /\ me \in Artifacts /\ obj.fin
  BY <1>2, Known, Zenon DEF Deleting
<1>4. World'
  BY <1>1, <1>3, WorldFrame, Zenon
<1>5. CASE pass' = [pass EXCEPT !.pc = "servingPods"]
  <2>1. /\ DOMAIN pass' = PassFields /\ pass'.pc = "servingPods" /\ pass'.me = me /\ pass'.obj = obj
        /\ pass'.op = pass.op /\ me' = me /\ obj' = obj
    BY <1>3, <1>5, GotoFacts, Zenon
  <2>2. Moves
    BY <1>1, <1>2, <2>1, StageFrame, Zenon DEF Moves, Stages, At
  <2> QED
    BY <1>1, <1>2, <1>3, <1>4, <2>2, PassGoesOn, Zenon
<1>6. CASE ~mounts[me] /\ pass' = [pass EXCEPT !.pc = "stopImporters"]
  <2>1. /\ DOMAIN pass' = PassFields /\ pass'.pc = "stopImporters" /\ pass'.me = me /\ pass'.obj = obj
        /\ pass'.op = pass.op /\ me' = me /\ obj' = obj
    BY <1>3, <1>6, GotoFacts, Zenon
  <2>2. Moves
    BY <1>1, <1>2, <1>6, <2>1, StageFrame, Zenon DEF Moves, Stages, At, Unserved
  <2> QED
    BY <1>1, <1>2, <1>3, <1>4, <2>2, PassGoesOn, Zenon
<1> QED
  BY <1>1, <1>2, <1>3, <1>4, <1>5, <1>6, PassGoesOn, Zenon

(* The importers are stopped, then their ConfigMaps are deleted. *)
LEMMA StopImportersStep == ASSUME ArtifactInv, StopImporters PROVE ArtifactInv'
<1> DEFINE all == {o \in Ops : jobs[me][o].status # "none"}
<1>1. /\ UNCHANGED <<scenario, api, cached, storage, pods, leases, cleanups, mounts, dirty>>
      /\ cleanupArtifactImporterResources
  BY Zenon DEF StopImporters, worldVars
<1>2. CASE /\ pass.pc = "stopImporters" /\ DeleteForeground(me, all) /\ UNCHANGED configs
           /\ pass' = Idle \/ (all = {} /\ pass' = [pass EXCEPT !.pc = "importerConfigs"])
  <2>1. Busy /\ ~At("release") /\ Unserved
    BY <1>2, Known, Zenon DEF Busy, At
  <2>2. World /\ DOMAIN pass = PassFields /\ me \in Artifacts /\ obj.fin
    BY <2>1, Known, Zenon DEF Unserved, Deleting
  <2>3. \A o \in all : jobs[me][o].status # "none"
    BY Zenon
  <2>4. all = {} => Stopped(me)
    BY Zenon DEF Stopped
  <2> HIDE DEF all
  <2>5. World' /\ \A o \in Ops : jobs'[me][o].status = jobs[me][o].status
    BY <1>1, <1>2, <2>2, <2>3, JobsMarked, Zenon
  <2>6. CASE all = {} /\ pass' = [pass EXCEPT !.pc = "importerConfigs"]
    <3>1. /\ DOMAIN pass' = PassFields /\ pass'.pc = "importerConfigs" /\ pass'.me = me /\ pass'.obj = obj
          /\ pass'.op = pass.op /\ me' = me /\ obj' = obj
      BY <2>2, <2>6, GotoFacts, Zenon
    <3>2. (Stopped(me))'
      BY <1>1, <2>4, <2>5, <2>6, <3>1, SameSets, Zenon DEF Stopped
    <3>3. WithoutJobs'
      BY <1>1, <2>1, <3>1, <3>2, StageFrame, Zenon DEF WithoutJobs
    <3>4. Moves
      BY <3>1, <3>3, Zenon DEF Moves, Stages, At
    <3> QED
      BY <1>1, <2>1, <2>2, <2>5, <3>4, PassGoesOn, Zenon
  <2> QED
    BY <1>1, <1>2, <2>1, <2>2, <2>5, <2>6, PassGoesOn, Zenon
<1>3. CASE /\ pass.pc = "importerConfigs" /\ configs' = [configs EXCEPT ![me] = [o \in Ops |-> "none"]]
           /\ pass' = Idle \/ pass' = [pass EXCEPT !.pc = "deleteLeases"]
           /\ UNCHANGED jobs
  <2>1. Busy /\ ~At("release") /\ WithoutJobs
    BY <1>3, Known, Zenon DEF Busy, At
  <2>2. World /\ DOMAIN pass = PassFields /\ me \in Artifacts /\ obj.fin
    BY <2>1, Known, Zenon DEF WithoutJobs, Unserved, Deleting
  <2>3. /\ DOMAIN configs' = Artifacts /\ DOMAIN configs'[me] = Ops
        /\ \A a \in Artifacts : a # me => configs'[a] = configs[a]
        /\ \A o \in Ops : configs'[me][o] = "none"
    BY <1>3, <2>2, Zenon DEF World, Shapes
  <2>4. World'
    BY <1>1, <1>3, <2>2, <2>3, ConfigsChange, Zenon
  <2>5. CASE pass' = [pass EXCEPT !.pc = "deleteLeases"]
    <3>1. /\ DOMAIN pass' = PassFields /\ pass'.pc = "deleteLeases" /\ pass'.me = me /\ pass'.obj = obj
          /\ pass'.op = pass.op /\ me' = me /\ obj' = obj
      BY <2>2, <2>5, GotoFacts, Zenon
    <3>2. (Unpinned(me))'
      BY <1>1, <2>3, <3>1, SameSets, Zenon DEF Unpinned
    <3>3. WithoutJobs'
      BY <1>1, <1>3, <2>1, <3>1, StageFrame, Zenon DEF WithoutJobs
    <3>4. Moves
      BY <3>1, <3>2, <3>3, Zenon DEF Moves, Stages, At, WithoutConfigs
    <3> QED
      BY <1>1, <2>1, <2>2, <2>4, <3>4, PassGoesOn, Zenon
  <2> QED
    BY <1>1, <1>3, <2>1, <2>2, <2>4, <2>5, PassGoesOn, Zenon
<1> QED
  BY <1>1, <1>2, <1>3, Zenon DEF cleanupArtifactImporterResources, At, Done, Goto

(* Then the Leases of the artifact are deleted. *)
LEMMA DeleteLeasesStep == ASSUME ArtifactInv, DeleteLeases PROVE ArtifactInv'
<1>1. /\ pass.pc = "deleteLeases" /\ Drop(Held(me))
      /\ UNCHANGED <<scenario, api, cached, storage, jobs, pods, configs, cleanups, mounts, dirty>>
      /\ \/ pass' = Idle
         \/ Held(me) = {} /\ obj.cleaned /\ pass' = [pass EXCEPT !.pc = "detachedJob"]
         \/ Held(me) = {} /\ pass' = [pass EXCEPT !.pc = "cleanupStorage"]
  BY Zenon DEF DeleteLeases, At, worldVars, Done, Goto
<1>2. Busy /\ ~At("release") /\ WithoutConfigs
  BY <1>1, Known, Zenon DEF Busy, At
<1>3. /\ World /\ PassOK /\ DOMAIN pass = PassFields /\ me \in Artifacts /\ obj.fin /\ Stopped(me)
  BY <1>2, Known, Zenon DEF WithoutConfigs, WithoutJobs, Unserved, Deleting
<1>4. pods[me] = {}
  BY <1>3, Zenon DEF World, PodsHaveJobs, Stopped
<1>5. World'
  BY <1>1, <1>3, <1>4, LeasesDropped, Zenon
<1>6. ASSUME NEW s \in {"detachedJob", "cleanupStorage"}, Held(me) = {}, s = "detachedJob" => obj.cleaned,
             pass' = [pass EXCEPT !.pc = s]
      PROVE  ArtifactInv'
  <2>1. /\ DOMAIN pass' = PassFields /\ pass'.pc = s /\ pass'.me = me /\ pass'.obj = obj
        /\ pass'.op = pass.op /\ me' = me /\ obj' = obj
    BY <1>3, <1>6, GotoFacts, Zenon
  <2>2. (Held(me))' = {}
    <3>1. \A f \in Fingerprints : leases'[f] = leases[f]
      BY <1>1, <1>6, Zenon DEF Drop
    <3> QED
      BY <1>1, <1>6, <2>1, <3>1, SameSets DEF Held
  <2>3. WithoutConfigs'
    BY <1>1, <1>2, <2>1, StageFrame, Zenon DEF WithoutConfigs, WithoutJobs
  <2>4. s = "detachedJob" => (Clean(me))'
    <3>1. obj.cleaned => Clean(me)
      BY <1>2, <1>3, Zenon DEF PassOK, PassKnows
    <3> QED
      BY <1>1, <1>6, <2>1, <3>1, StageFrame, Zenon
  <2>5. Moves
    BY <2>1, <2>2, <2>3, <2>4, Zenon DEF Moves, Stages, At, WithoutLeases
  <2> QED
    BY <1>1, <1>2, <1>3, <1>5, <2>5, PassGoesOn, Zenon
<1> QED
  BY <1>1, <1>2, <1>3, <1>5, <1>6, PassGoesOn, Zenon

(* The claim to clean is resolved. *)
LEMMA CleanupStorageStep == ASSUME ArtifactInv, resolveArtifactCleanupStorage PROVE ArtifactInv'
<1>1. /\ pass.pc = "cleanupStorage"
      /\ UNCHANGED <<scenario, api, cached, storage, jobs, pods, configs, leases, cleanups, mounts, dirty>>
      /\ \/ pass' = Idle
         \/ (Mode = "Direct" \/ storage.state = "gone") /\ pass' = [pass EXCEPT !.pc = "detachedJob"]
         \/ pass' = [pass EXCEPT !.pc = "cleanupConfig", !.op.claim = storage.claim]
  BY Zenon DEF resolveArtifactCleanupStorage, At, clusterVars, worldVars, Done, Goto
<1>2. Busy /\ ~At("release") /\ WithoutLeases
  BY <1>1, Known, Zenon DEF Busy, At
<1>3. /\ World /\ DOMAIN pass = PassFields /\ me \in Artifacts /\ obj.fin
  BY <1>2, Known, Zenon DEF WithoutLeases, WithoutConfigs, WithoutJobs, Unserved, Deleting
<1>4. World'
  BY <1>1, <1>3, WorldFrame, Zenon
<1>5. me' = me /\ obj' = obj => WithoutLeases'
  BY <1>1, <1>2, SameSets DEF WithoutLeases, WithoutConfigs, WithoutJobs, Unserved, Deleting, Held, Unpinned, Stopped
<1>6. CASE (Mode = "Direct" \/ storage.state = "gone") /\ pass' = [pass EXCEPT !.pc = "detachedJob"]
  <2>1. /\ DOMAIN pass' = PassFields /\ pass'.pc = "detachedJob" /\ pass'.me = me /\ pass'.obj = obj
        /\ pass'.op = pass.op /\ me' = me /\ obj' = obj
    BY <1>3, <1>6, GotoFacts, Zenon
  <2>2. Clean(me)
    BY <1>3, <1>6, Zenon DEF World, FilesClean, Clean
  <2>3. Moves
    BY <1>1, <1>5, <2>1, <2>2, StageFrame, Zenon DEF Moves, Stages, At
  <2> QED
    BY <1>1, <1>2, <1>3, <1>4, <2>3, PassGoesOn, Zenon
<1>7. CASE pass' = [pass EXCEPT !.pc = "cleanupConfig", !.op.claim = storage.claim]
  <2>1. /\ DOMAIN pass' = PassFields /\ pass'.pc = "cleanupConfig" /\ pass'.me = me /\ pass'.obj = obj
        /\ me' = me /\ obj' = obj
    BY <1>3, <1>7, Zenon DEF PassFields, me, obj
  <2>2. Moves
    BY <1>5, <2>1, Zenon DEF Moves, Stages, At
  <2> QED
    BY <1>1, <1>2, <1>3, <1>4, <2>2, PassGoesOn, Zenon
<1> QED
  BY <1>1, <1>2, <1>3, <1>4, <1>6, <1>7, PassGoesOn, Zenon

(* The cleanup Job or ConfigMap of one artifact changes, and its files with it. *)
LEMMA CleanupsChange ==
  ASSUME World, NEW m \in Artifacts, NEW c \in CleanupType, cleanups' = [cleanups EXCEPT ![m] = c],
         DOMAIN dirty' = Artifacts, \A a \in Artifacts : a # m => dirty'[a] = dirty[a],
         dirty'[m] \subseteq dirty[m],
         c.pod => cached[m].phase # "live" /\ Quiet(m) /\ ~mounts[m],
         c.good => /\ storage.claim \in dirty'[m] => storage.state = "gone"
                   /\ cached[m].phase # "live",
         c.status = "none" => ~c.good /\ ~c.deleting /\ ~c.pod,
         ~api[m].fin /\ (InformerLag => api[m].phase = "live") => c = NoCleanup,
         UNCHANGED <<scenario, api, cached, storage, jobs, pods, configs, leases, mounts>>
  PROVE  World'
<1>1. /\ DOMAIN cleanups' = Artifacts /\ cleanups'[m] = c
      /\ \A a \in Artifacts : a # m => cleanups'[a] = cleanups[a]
      /\ cleanups' \in [Artifacts -> CleanupType]
  BY Zenon DEF World, Shapes
<1>2. Shapes'
  <2>1. Shapes
    BY Zenon DEF World
  <2>2. CleanupType' = CleanupType
    BY Zenon DEF CleanupType
  <2> QED
    BY <1>1, <2>1, <2>2, SameSets, Zenon DEF Shapes
<1>3. CleanupAlone'
  <2>1. \A a \in Artifacts : cleanups'[a].pod => cached[a].phase # "live" /\ Quiet(a) /\ ~mounts[a]
    BY <1>1, Zenon DEF World, CleanupAlone
  <2> QED
    BY <2>1, SameSets, Zenon DEF CleanupAlone, Quiet
<1>4. FilesClean'
  <2>1. \A a \in Artifacts : Clean(a) => (storage.claim \in dirty'[a] => storage.state = "gone")
    BY Zenon DEF Clean
  <2>2. \A a \in Artifacts : \A d \in dirty'[a] : d \in dirty[a]
    BY Zenon
  <2>3. ASSUME NEW a \in Artifacts
        PROVE  (/\ \A d \in dirty[a] : d \in 0..storage.claim
                /\ Mode = "Direct" => dirty[a] = {}
                /\ api[a].phase # "gone" /\ api[a].loc = 0 => dirty[a] = {}
                /\ api[a].phase = "gone" => (storage.claim \in dirty[a] => storage.state = "gone")
                /\ cleanups[a].good \/ api[a].cleaned \/ cached[a].cleaned
                   => (storage.claim \in dirty[a] => storage.state = "gone") /\ cached[a].phase # "live")'
    <3>1. /\ \A d \in dirty[a] : d \in 0..storage.claim
          /\ Mode = "Direct" => dirty[a] = {}
          /\ api[a].phase # "gone" /\ api[a].loc = 0 => dirty[a] = {}
          /\ api[a].phase = "gone" => Clean(a)
          /\ cleanups[a].good \/ api[a].cleaned \/ cached[a].cleaned
             => Clean(a) /\ cached[a].phase # "live"
      BY Zenon DEF World, FilesClean
    <3>2. cleanups'[a].good => /\ storage.claim \in dirty'[a] => storage.state = "gone"
                               /\ cached[a].phase # "live"
      BY <1>1, <2>1, <3>1, Zenon
    <3> QED
      BY <2>1, <2>2, <3>1, <3>2, SameSets, Zenon
  <2> QED
    BY <2>3, SameSets, Zenon DEF FilesClean, Clean
<1>5. CleanupsEnd'
  BY <1>1, SameSets DEF World, CleanupsEnd
<1> QED
  BY <1>2, <1>3, <1>4, <1>5, Frames, Zenon DEF World

(* A pass that deletes keeps what it knows, whatever becomes of the cleanup. *)
LEMMA KnowsDeleting ==
  ASSUME PassKnows, Busy, ~At("release"), obj.phase # "live", pass'.me = me, pass'.obj = obj,
         UNCHANGED <<scenario, api, cached, storage, dirty>>
  PROVE  PassKnows'
<1>1. me' = me /\ obj' = obj
  BY Zenon DEF me, obj
<1>2. (Clean(me))' = Clean(me)
  BY <1>1, Zenon DEF Clean
<1> QED
  BY <1>1, <1>2, SameSets, Zenon DEF PassKnows

(* What holds while a pass cleans up. *)
LEMMA CleaningFacts ==
  ASSUME ArtifactInv, Busy, ~At("release"), WithoutLeases
  PROVE  /\ World /\ PassOK /\ me \in Artifacts /\ obj.fin /\ obj.phase = "deleting" /\ Quiet(me) /\ ~mounts[me]
         /\ cached[me].phase # "live" /\ DOMAIN pass = PassFields /\ Sane(obj, Ops)
         /\ ~(~api[me].fin /\ (InformerLag => api[me].phase = "live"))
         /\ cleanups[me] \in CleanupType
         /\ cleanups[me].status = "none" => ~cleanups[me].good /\ ~cleanups[me].deleting /\ ~cleanups[me].pod
         /\ cleanups[me].good => Clean(me)
         /\ DOMAIN dirty = Artifacts
<1>1. /\ World /\ PassOK /\ me \in Artifacts /\ obj.fin /\ obj.phase = "deleting" /\ Stopped(me) /\ ~mounts[me]
      /\ DOMAIN pass = PassFields /\ Older(obj, api[me]) /\ Sane(obj, Ops)
  BY Known, Zenon DEF WithoutLeases, WithoutConfigs, WithoutJobs, Unserved, Deleting
<1>2. /\ cached[me].phase # "live"
      /\ InformerLag \/ api[me].phase # "gone"
  BY <1>1, Zenon DEF PassOK, PassKnows
<1>3. Quiet(me)
  BY <1>1, Zenon DEF Stopped, Quiet
<1>4. ~(~api[me].fin /\ (InformerLag => api[me].phase = "live"))
  BY <1>1, <1>2, Zenon DEF Older
<1>5. /\ cleanups[me] \in CleanupType
      /\ cleanups[me].status = "none" => ~cleanups[me].good /\ ~cleanups[me].deleting /\ ~cleanups[me].pod
      /\ cleanups[me].good => Clean(me)
      /\ DOMAIN dirty = Artifacts
  BY <1>1, Zenon DEF World, Shapes, CleanupsEnd, FilesClean
<1> QED
  BY <1>1, <1>2, <1>3, <1>4, <1>5, Zenon

(* A step of the pass on the cleanup objects keeps the invariant. *)
LEMMA CleanupStepOK ==
  ASSUME ArtifactInv, Busy, ~At("release"), WithoutLeases, NEW c \in CleanupType,
         cleanups' = [cleanups EXCEPT ![me] = c] \/ (cleanups' = cleanups /\ c = cleanups[me]),
         c.good => cleanups[me].good,
         c.status = "none" => ~c.good /\ ~c.deleting /\ ~c.pod,
         UNCHANGED <<scenario, api, cached, storage, jobs, pods, configs, leases, mounts, dirty>>,
         \/ pass' = Idle
         \/ \E s \in {"cleanupJob", "cleanupResult", "detachedConfig", "finalize"} :
              /\ pass' = [pass EXCEPT !.pc = s]
              /\ s \in {"detachedConfig", "finalize"} => Clean(me) /\ c.status = "none"
              /\ s = "finalize" => ~c.config
  PROVE  ArtifactInv'
<1>1. /\ World /\ PassOK /\ me \in Artifacts /\ obj.fin /\ obj.phase = "deleting" /\ Quiet(me) /\ ~mounts[me]
      /\ cached[me].phase # "live" /\ DOMAIN pass = PassFields
      /\ ~(~api[me].fin /\ (InformerLag => api[me].phase = "live"))
      /\ cleanups[me].good => Clean(me)
      /\ DOMAIN dirty = Artifacts
  BY CleaningFacts, Zenon
<1>2. World'
  <2>1. CASE cleanups' = cleanups
    BY <1>1, <2>1, WorldFrame, Zenon
  <2>2. CASE cleanups' = [cleanups EXCEPT ![me] = c]
    BY <1>1, <2>2, CleanupsChange, Zenon DEF Clean
  <2> QED
    BY <2>1, <2>2, Zenon
<1>3. cleanups'[me] = c
  BY <1>1, Zenon DEF World, Shapes
<1>4. CASE pass' = Idle
  BY <1>2, <1>4, IdleOK, Zenon DEF ArtifactInv
<1>5. ASSUME NEW s \in {"cleanupJob", "cleanupResult", "detachedConfig", "finalize"},
             pass' = [pass EXCEPT !.pc = s],
             s \in {"detachedConfig", "finalize"} => Clean(me) /\ c.status = "none",
             s = "finalize" => ~c.config
      PROVE  ArtifactInv'
  <2>1. /\ DOMAIN pass' = PassFields /\ pass'.pc = s /\ pass'.me = me /\ pass'.obj = obj
        /\ me' = me /\ obj' = obj /\ pass'.op = pass.op
    BY <1>1, <1>5, GotoFacts, Zenon
  <2>2. PassKnows'
    BY <1>1, <2>1, KnowsDeleting, Zenon DEF PassOK
  <2>3. WithoutLeases'
    BY <2>1, SameSets DEF WithoutLeases, WithoutConfigs, WithoutJobs, Unserved, Deleting, Held, Unpinned, Stopped
  <2>4. (Clean(me))' = Clean(me)
    BY <2>1, Zenon DEF Clean
  <2>5. Stages'
    BY <1>3, <1>5, <2>1, <2>3, <2>4, Zenon DEF Stages, At
  <2>6. PassOK'
    BY <2>1, <2>2, <2>5, Zenon DEF PassOK, WillWrite, At
  <2> QED
    BY <1>2, <2>6, Zenon DEF ArtifactInv
<1> QED
  BY <1>4, <1>5, Zenon

(* The cleanup's ConfigMap is created. *)
LEMMA EnsureCleanupConfigStep == ASSUME ArtifactInv, EnsureCleanupConfig PROVE ArtifactInv'
<1> DEFINE c == [cleanups[me] EXCEPT !.config = TRUE]
<1>1. /\ pass.pc = "cleanupConfig" /\ cleanups' = [cleanups EXCEPT ![me] = c]
      /\ pass' = [pass EXCEPT !.pc = "cleanupJob"]
      /\ UNCHANGED <<scenario, api, cached, storage, jobs, pods, configs, leases, mounts, dirty>>
  BY Zenon DEF EnsureCleanupConfig, At, worldVars, Goto
<1>2. Busy /\ ~At("release") /\ WithoutLeases
  BY <1>1, Known, Zenon DEF Busy, At
<1>3. /\ cleanups[me] \in CleanupType
      /\ cleanups[me].status = "none" => ~cleanups[me].good /\ ~cleanups[me].deleting /\ ~cleanups[me].pod
  BY <1>2, CleaningFacts, Zenon
<1>4. /\ c \in CleanupType /\ c.status = cleanups[me].status /\ c.good = cleanups[me].good
      /\ c.deleting = cleanups[me].deleting /\ c.pod = cleanups[me].pod
  BY <1>3, Zenon DEF CleanupType
<1> HIDE DEF c
<1> QED
  BY <1>1, <1>2, <1>3, <1>4, CleanupStepOK, Zenon

(* The cleanup Job is created, or the existing one is accepted. *)
LEMMA EnsureCleanupJobStep == ASSUME ArtifactInv, EnsureCleanupJob PROVE ArtifactInv'
<1> DEFINE c == IF cleanups[me].status # "none" THEN cleanups[me]
                ELSE [cleanups[me] EXCEPT !.status = "active", !.pod = TRUE, !.good = FALSE]
<1>1. /\ pass.pc = "cleanupJob"
      /\ pass' = [pass EXCEPT !.pc = "cleanupResult"]
      /\ UNCHANGED <<scenario, api, cached, storage, jobs, pods, configs, leases, mounts, dirty>>
  BY Zenon DEF EnsureCleanupJob, At, worldVars, Goto
<1>2. Busy /\ ~At("release") /\ WithoutLeases
  BY <1>1, Known, Zenon DEF Busy, At
<1>3. World /\ me \in Artifacts /\ cleanups[me] \in CleanupType
  BY <1>2, CleaningFacts, Zenon
<1>4. cleanups' = [cleanups EXCEPT ![me] = c] \/ (cleanups' = cleanups /\ c = cleanups[me])
  BY <1>3, Zenon DEF EnsureCleanupJob, World, Shapes
<1>5. c \in CleanupType /\ c.status # "none" /\ (c.good => cleanups[me].good)
  BY <1>3, Zenon DEF CleanupType
<1> HIDE DEF c
<1> QED
  BY <1>1, <1>2, <1>4, <1>5, CleanupStepOK, Zenon

(* A successful cleanup is recorded, a failed one is removed. *)
LEMMA CleanupJobStep == ASSUME ArtifactInv, reconcileArtifactCleanupJob PROVE ArtifactInv'
<1> DEFINE c == [cleanups[me] EXCEPT !.deleting = TRUE]
           r == [obj EXCEPT !.cleaned = TRUE]
<1>1. /\ pass.pc = "cleanupResult"
      /\ UNCHANGED <<scenario, api, cached, storage, jobs, pods, configs, leases, mounts, dirty>>
      /\ \/ /\ cleanups[me].good /\ UNCHANGED cleanups
            /\ pass' = [pass EXCEPT !.pc = "status", !.want = r, !.again = TRUE, !.then = "idle"]
         \/ cleanups' = cleanups /\ pass' = Idle
         \/ /\ cleanups[me].status \in {"complete", "failed"} /\ cleanups' = [cleanups EXCEPT ![me] = c]
            /\ pass' = Idle
  BY Zenon DEF reconcileArtifactCleanupJob, At, worldVars, Done, Report, WriteThen, Finished
<1>2. Busy /\ ~At("release") /\ WithoutLeases
  BY <1>1, Known, Zenon DEF Busy, At
<1>3. /\ World /\ PassOK /\ me \in Artifacts /\ cleanups[me] \in CleanupType /\ obj.fin /\ obj.phase = "deleting"
      /\ Sane(obj, Ops) /\ (cleanups[me].good => Clean(me))
  BY <1>2, CleaningFacts, Zenon
<1>4. CASE cleanups' = cleanups /\ pass' = Idle
  BY <1>1, <1>3, <1>4, WorldFrame, IdleOK, Zenon DEF ArtifactInv
<1>5. CASE /\ cleanups[me].status \in {"complete", "failed"} /\ cleanups' = [cleanups EXCEPT ![me] = c]
           /\ pass' = Idle
  <2>1. c \in CleanupType /\ c.status # "none" /\ (c.good => cleanups[me].good)
    BY <1>3, <1>5, Zenon DEF CleanupType
  <2> HIDE DEF c
  <2> QED
    BY <1>1, <1>2, <1>5, <2>1, CleanupStepOK, Zenon
<1>6. CASE /\ cleanups[me].good /\ UNCHANGED cleanups
           /\ pass' = [pass EXCEPT !.pc = "status", !.want = r, !.again = TRUE, !.then = "idle"]
  <2>1. /\ DOMAIN r = RecordFields /\ r.phase = "deleting" /\ r.fin = obj.fin /\ r.ready = obj.ready
        /\ r.digest = obj.digest /\ r.loc = obj.loc /\ r.jobRef = obj.jobRef
    BY <1>3, Zenon DEF Sane, RecordFields
  <2> HIDE DEF r
  <2>2. Sane(r, Ops) /\ Clean(me)
    BY <1>3, <1>6, <2>1, Zenon DEF Sane
  <2>3. PassOK'
    BY <1>1, <1>2, <1>3, <1>6, <2>1, <2>2, ReportOK, Zenon
  <2> QED
    BY <1>1, <1>3, <1>6, <2>3, WorldFrame, Zenon DEF ArtifactInv
<1> QED
  BY <1>1, <1>4, <1>5, <1>6, Zenon

(* The cleanup's own objects are deleted. *)
LEMMA CleanupDetachedStep == ASSUME ArtifactInv, CleanupDetached PROVE ArtifactInv'
<1> DEFINE d == [cleanups[me] EXCEPT !.deleting = TRUE]
           c == [cleanups[me] EXCEPT !.config = FALSE]
<1>1. /\ UNCHANGED <<scenario, api, cached, storage, jobs, pods, configs, leases, mounts, dirty>>
      /\ \/ /\ pass.pc = "detachedJob" /\ cleanups[me].status = "none" /\ UNCHANGED cleanups
            /\ pass' = [pass EXCEPT !.pc = "detachedConfig"]
         \/ /\ pass.pc = "detachedJob" /\ cleanups[me].status # "none"
            /\ cleanups' = [cleanups EXCEPT ![me] = d] /\ pass' = Idle
         \/ /\ pass.pc = "detachedConfig" /\ cleanups' = [cleanups EXCEPT ![me] = c]
            /\ pass' = Idle \/ pass' = [pass EXCEPT !.pc = "finalize"]
  BY Zenon DEF CleanupDetached, cleanupDetachedArtifactResources, At, worldVars, Done, Goto
<1>2. Busy /\ ~At("release") /\ WithoutLeases /\ Clean(me)
  BY <1>1, Known, Zenon DEF Busy, At
<1>3. /\ me \in Artifacts /\ cleanups[me] \in CleanupType
      /\ cleanups[me].status = "none" => ~cleanups[me].good /\ ~cleanups[me].deleting /\ ~cleanups[me].pod
  BY <1>2, CleaningFacts, Zenon
<1>4. CASE /\ pass.pc = "detachedJob" /\ cleanups[me].status = "none" /\ UNCHANGED cleanups
           /\ pass' = [pass EXCEPT !.pc = "detachedConfig"]
  BY <1>1, <1>2, <1>3, <1>4, CleanupStepOK, Zenon
<1>5. CASE cleanups[me].status # "none" /\ cleanups' = [cleanups EXCEPT ![me] = d] /\ pass' = Idle
  <2>1. d \in CleanupType /\ d.status # "none" /\ (d.good => cleanups[me].good)
    BY <1>3, <1>5, Zenon DEF CleanupType
  <2> HIDE DEF d
  <2> QED
    BY <1>1, <1>2, <1>5, <2>1, CleanupStepOK, Zenon
<1>6. CASE /\ pass.pc = "detachedConfig" /\ cleanups' = [cleanups EXCEPT ![me] = c]
           /\ pass' = Idle \/ pass' = [pass EXCEPT !.pc = "finalize"]
  <2>1. cleanups[me].status = "none"
    BY <1>2, <1>6, Known, Zenon
  <2>2. /\ c \in CleanupType /\ c.status = "none" /\ ~c.good /\ ~c.deleting /\ ~c.pod /\ ~c.config
    BY <1>3, <2>1, Zenon DEF CleanupType
  <2> HIDE DEF c
  <2> QED
    BY <1>1, <1>2, <1>6, <2>2, CleanupStepOK, Zenon
<1> QED
  BY <1>1, <1>4, <1>5, <1>6, Zenon

(* Between passes nothing is promised, so PassOK is kept. *)
LEMMA IdleStays == ASSUME PassOK, pass' = pass, ~Busy PROVE PassOK'
<1>1. pass'.pc = "idle" /\ DOMAIN pass' = PassFields
  BY Zenon DEF PassOK, Busy, At
<1> QED
  BY <1>1, Zenon DEF PassOK, PassKnows, WillWrite, Stages, Busy, At

(* A step that changes only references, the budget or the queue keeps the *)
(* invariant.                                                             *)
LEMMA NothingChanges ==
  ASSUME ArtifactInv, pass' = pass,
         UNCHANGED <<scenario, api, cached, storage, jobs, pods, configs, leases, cleanups, mounts, dirty>>
  PROVE  ArtifactInv'
<1>1. World'
  BY WorldFrame, Zenon DEF ArtifactInv
<1>2. PassKnows'
  BY Kept, Zenon DEF ArtifactInv, PassOK
<1>3. PassOK'
  BY <1>2, Kept, PassFrame, Zenon DEF ArtifactInv
<1> QED
  BY <1>1, <1>3, Zenon DEF ArtifactInv

(* The informer catches up with some artifacts: World is kept, and a *)
(* deletion stays known.                                             *)
LEMMA CacheChanges ==
  ASSUME World, DOMAIN cached' = Artifacts, \A a \in Artifacts : cached'[a] \in {cached[a], api[a]},
         UNCHANGED <<scenario, api, storage, jobs, pods, configs, leases, cleanups, mounts, dirty>>
  PROVE  /\ World'
         /\ \A a \in Artifacts : /\ cached[a].phase # "live" => cached'[a].phase # "live"
                                 /\ ~cached[a].cleaned /\ ~api[a].cleaned => ~cached'[a].cleaned
<1>1. \A a \in Artifacts : /\ cached[a].phase # "live" => cached'[a].phase # "live"
                           /\ ~cached[a].cleaned /\ ~api[a].cleaned => ~cached'[a].cleaned
                           /\ cached'[a].cleaned => cached[a].cleaned \/ api[a].cleaned
  BY Zenon DEF World, Records, Older
<1>2. Shapes'
  BY SameSets, Zenon DEF World, Shapes
<1>3. Records'
  <2>1. \A a \in Artifacts : Older(api[a], api[a])
    BY Zenon DEF World, Records, Sane, Older
  <2>2. \A a \in Artifacts : Sane(cached'[a], Ops) /\ Older(cached'[a], api[a])
    BY <2>1, Zenon DEF World, Records
  <2> QED
    BY <2>2, SameSets, Zenon DEF World, Records
<1>4. CleanupAlone'
  <2>1. \A a \in Artifacts : cleanups[a].pod => cached'[a].phase # "live" /\ Quiet(a) /\ ~mounts[a]
    BY <1>1, Zenon DEF World, CleanupAlone
  <2> QED
    BY <2>1, SameSets, Zenon DEF CleanupAlone, Quiet
<1>5. FilesClean'
  <2>1. \A a \in Artifacts : api[a].cleaned => api[a].phase = "deleting"
    BY Zenon DEF World, Records, Sane
  <2>2. \A a \in Artifacts : cleanups[a].good \/ api[a].cleaned \/ cached'[a].cleaned
                             => Clean(a) /\ cached'[a].phase # "live"
    BY <1>1, <2>1, Zenon DEF World, FilesClean
  <2> QED
    BY <2>2, SameSets, Zenon DEF World, FilesClean, Clean
<1> QED
  BY <1>1, <1>2, <1>3, <1>4, <1>5, Frames, Zenon DEF World

(* The informer catches up with one artifact. *)
LEMMA InformerSyncStep ==
  ASSUME ArtifactInv, NEW a \in Artifacts, InformerSync(a)
  PROVE  ArtifactInv'
<1>1. /\ cached' = [cached EXCEPT ![a] = api[a]] /\ pass' = pass
      /\ UNCHANGED <<scenario, api, storage, jobs, pods, configs, leases, cleanups, mounts, dirty>>
  BY Zenon DEF InformerSync, clusterVars, worldVars
<1>2. DOMAIN cached' = Artifacts /\ \A b \in Artifacts : cached'[b] \in {cached[b], api[b]}
  BY <1>1, Zenon DEF ArtifactInv, World, Shapes
<1>3. /\ World'
      /\ \A b \in Artifacts : /\ cached[b].phase # "live" => cached'[b].phase # "live"
                              /\ ~cached[b].cleaned /\ ~api[b].cleaned => ~cached'[b].cleaned
  BY <1>1, <1>2, CacheChanges, Zenon DEF ArtifactInv
<1>4. CASE ~Busy
  BY <1>1, <1>3, <1>4, IdleStays, Zenon DEF ArtifactInv
<1>5. CASE Busy
  <2>1. me' = me /\ obj' = obj /\ (Clean(me))' = Clean(me)
    BY <1>1, Zenon DEF me, obj, Clean
  <2>2. PassKnows'
    BY <1>1, <1>3, <1>5, <2>1, SameSets DEF ArtifactInv, PassOK, PassKnows, At
  <2>3. PassOK'
    BY <1>1, <2>2, Kept, PassFrame, Zenon DEF ArtifactInv
  <2> QED
    BY <1>3, <2>3, Zenon DEF ArtifactInv
<1> QED
  BY <1>4, <1>5, Zenon

(* A new manager starts with fresh caches. *)
LEMMA ManagerRestartsStep == ASSUME ArtifactInv, ManagerRestarts PROVE ArtifactInv'
<1>1. /\ cached' = api /\ pass' = Idle
      /\ UNCHANGED <<scenario, api, storage, jobs, pods, configs, leases, cleanups, mounts, dirty>>
  BY Zenon DEF ManagerRestarts, Disrupt, clusterVars
<1>2. DOMAIN cached' = Artifacts /\ \A b \in Artifacts : cached'[b] \in {cached[b], api[b]}
  BY <1>1, Zenon DEF ArtifactInv, World, Shapes
<1>3. World'
  BY <1>1, <1>2, CacheChanges, Zenon DEF ArtifactInv
<1> QED
  BY <1>1, <1>3, IdleOK, Zenon DEF ArtifactInv

(* Jobs go on or end beside the pass: it keeps what it relies on. *)
LEMMA JobsEventOK ==
  ASSUME ArtifactInv, World', pass' = pass, \A a \in Artifacts : Evolves(a),
         UNCHANGED <<scenario, api, cached, storage, configs, leases, cleanups, mounts, dirty>>
  PROVE  ArtifactInv'
<1>1. CASE ~Busy
  BY <1>1, IdleStays, Zenon DEF ArtifactInv
<1>2. CASE Busy
  <2>1. Evolves(me) /\ me' = me
    BY <1>2, Known, Zenon DEF me
  <2>2. /\ OnlyOp => OnlyOp'
        /\ Quiet(me) => (Quiet(me))'
        /\ Stopped(me) => (Stopped(me))'
    BY <2>1, SameSets, Zenon DEF Evolves, OnlyOp, Quiet, Stopped
  <2>3. PassKnows'
    BY Kept, Zenon DEF ArtifactInv, PassOK
  <2>4. PassOK'
    BY <2>2, <2>3, Kept, PassFrame, Zenon DEF ArtifactInv
  <2> QED
    BY <2>4, Zenon DEF ArtifactInv
<1> QED
  BY <1>1, <1>2, Zenon

(* One Job changes and Pods stop, with the pass under way. *)
LEMMA JobEvent ==
  ASSUME ArtifactInv, NEW a \in Artifacts, NEW o \in Ops, NEW j, DOMAIN j = JobFields,
         jobs' = [jobs EXCEPT ![a][o] = j], jobs[a][o].status # "none",
         j.status = "none" => j = NoJob,
         jobs[a][o].status \in {"complete", "failed"} => j.status \in {"none", "complete", "failed"},
         DOMAIN pods' = Artifacts, \A b \in Artifacts : b # a => pods'[b] = pods[b],
         pods'[a] \subseteq pods[a],
         Ref(o, jobs[a][o]) \in pods'[a] => /\ j.status \in {"active", "blocked"}
                                            /\ j.uid = jobs[a][o].uid /\ j.source = jobs[a][o].source,
         pass' = pass,
         UNCHANGED <<scenario, api, cached, storage, configs, leases, cleanups, mounts, dirty>>
  PROVE  ArtifactInv'
<1>1. World
  BY Zenon DEF ArtifactInv
<1>2. /\ DOMAIN jobs' = Artifacts /\ DOMAIN jobs'[a] = Ops
      /\ jobs'[a][o] = j /\ \A q \in Ops : q # o => jobs'[a][q] = jobs[a][q]
      /\ \A b \in Artifacts : b # a => jobs'[b] = jobs[b]
  BY <1>1, Zenon DEF World, Shapes
<1>3. \A q \in Ops : DOMAIN jobs[a][q] = JobFields /\ (jobs[a][q].status = "none" => jobs[a][q] = NoJob)
  BY <1>1, Zenon DEF World, Shapes, OneJob
<1>4. \A q \in Ops : /\ DOMAIN jobs'[a][q] = JobFields
                     /\ jobs[a][q].status = "none" => jobs'[a][q] = NoJob
                     /\ jobs'[a][q].status = "none" => jobs'[a][q] = NoJob
                     /\ jobs[a][q].status \in {"complete", "failed"}
                          => jobs'[a][q].status \in {"none", "complete", "failed"}
  BY <1>2, <1>3
<1>5. ASSUME NEW p \in pods'[a]
      PROVE  /\ jobs'[a][p.op].status \in {"active", "blocked"}
             /\ jobs'[a][p.op].uid = jobs[a][p.op].uid
             /\ jobs'[a][p.op].source = jobs[a][p.op].source
  <2>1. /\ p.op \in Ops /\ p = Ref(p.op, jobs[a][p.op])
        /\ jobs[a][p.op].status \in {"active", "blocked"}
    BY <1>1, Zenon DEF World, PodsHaveJobs
  <2> QED
    BY <1>2, <2>1
<1>6. World' /\ \A b \in Artifacts : Evolves(b)
  <2>1. \A p \in pods'[a] : /\ jobs'[a][p.op].status \in {"active", "blocked"}
                             /\ jobs'[a][p.op].uid = jobs[a][p.op].uid
                             /\ jobs'[a][p.op].source = jobs[a][p.op].source
    BY <1>5, Zenon
  <2>2. \A b \in Artifacts : b # a => jobs'[b] = jobs[b] /\ pods'[b] = pods[b]
    BY <1>2, Zenon
  <2>3. DOMAIN jobs' = Artifacts /\ DOMAIN jobs'[a] = Ops
    BY <1>2, Zenon
  <2> QED
    BY <1>1, <1>4, <2>1, <2>2, <2>3, JobsEvolve
<1> QED
  BY <1>6, JobsEventOK, Zenon

(* An importer ends. *)
LEMMA JobEndsStep == ASSUME ArtifactInv, NEW a \in Artifacts, JobEnds(a) PROVE ArtifactInv'
<1>1. World
  BY Zenon DEF ArtifactInv
<1>2. ASSUME NEW o \in Ops, NEW j, JobFinishes(a, o, j), DOMAIN j = JobFields,
             j.status \in {"complete", "failed"}, scenario' = scenario
      PROVE  ArtifactInv'
  <2>1. /\ jobs[a][o].status = "active" /\ jobs' = [jobs EXCEPT ![a][o] = j] /\ pass' = pass
        /\ pods' = [pods EXCEPT ![a] = pods[a] \ {Ref(o, jobs[a][o])}]
        /\ UNCHANGED <<api, cached, storage, configs, leases, cleanups, mounts, dirty>>
    BY <1>2, Zenon DEF JobFinishes
  <2>2. /\ DOMAIN pods' = Artifacts /\ pods'[a] = pods[a] \ {Ref(o, jobs[a][o])}
        /\ \A b \in Artifacts : b # a => pods'[b] = pods[b]
    BY <1>1, <2>1, Zenon DEF World, Shapes
  <2> QED
    BY <1>2, <2>1, <2>2, JobEvent, Zenon
<1>3. \A o \in Ops : DOMAIN jobs[a][o] = JobFields
  BY <1>1, Zenon DEF World, Shapes
<1>4. ASSUME NEW o \in Ops, JobSucceeds(a, o) PROVE ArtifactInv'
  <2>1. PICK d : JobFinishes(a, o, [jobs[a][o] EXCEPT !.status = "complete", !.result = "ok", !.digest = d])
    BY <1>4, Zenon DEF JobSucceeds
  <2> DEFINE j == [jobs[a][o] EXCEPT !.status = "complete", !.result = "ok", !.digest = d]
  <2>2. DOMAIN j = JobFields /\ j.status = "complete"
    BY <1>3, Zenon DEF JobFields
  <2>3. scenario' = scenario
    BY <1>4, Zenon DEF JobSucceeds
  <2>4. JobFinishes(a, o, j)
    BY <2>1, Zenon
  <2> HIDE DEF j
  <2> QED
    BY <1>2, <2>2, <2>3, <2>4, Zenon
<1>5. ASSUME NEW o \in Ops, JobFails(a, o) PROVE ArtifactInv'
  <2>1. PICK r : LET s == IF r \in {"invalid", "foreign"} THEN "complete" ELSE "failed"
                 IN JobFinishes(a, o, [jobs[a][o] EXCEPT !.status = s, !.result = r])
    BY <1>5, Zenon DEF JobFails
  <2> DEFINE s == IF r \in {"invalid", "foreign"} THEN "complete" ELSE "failed"
             j == [jobs[a][o] EXCEPT !.status = s, !.result = r]
  <2>2. s \in {"complete", "failed"}
    BY Zenon
  <2>3. JobFinishes(a, o, j)
    BY <2>1, Zenon
  <2> HIDE DEF s
  <2>4. DOMAIN j = JobFields /\ j.status = s
    BY <1>3, Zenon DEF JobFields
  <2>5. scenario' = scenario
    BY <1>5, Zenon DEF JobFails, Disrupt
  <2> HIDE DEF j
  <2> QED
    BY <1>2, <2>2, <2>3, <2>4, <2>5, Zenon
<1> QED
  BY <1>4, <1>5, Zenon DEF JobEnds

(* A Job changes beside its Pods. *)
LEMMA JobChangesOK ==
  ASSUME ArtifactInv, NEW a \in Artifacts, NEW o \in Ops, NEW j, JobChanges(a, o, j), scenario' = scenario,
         DOMAIN j = JobFields, jobs[a][o].status # "none",
         j.status = "none" => j = NoJob,
         jobs[a][o].status \in {"complete", "failed"} => j.status \in {"none", "complete", "failed"},
         Ref(o, jobs[a][o]) \in pods[a] => /\ j.status \in {"active", "blocked"}
                                           /\ j.uid = jobs[a][o].uid /\ j.source = jobs[a][o].source
  PROVE  ArtifactInv'
<1>1. /\ jobs' = [jobs EXCEPT ![a][o] = j] /\ pass' = pass
      /\ UNCHANGED <<api, cached, storage, pods, configs, leases, cleanups, mounts, dirty>>
  BY Zenon DEF JobChanges
<1>2. DOMAIN pods = Artifacts
  BY Zenon DEF ArtifactInv, World, Shapes
<1> QED
  BY <1>1, <1>2, JobEvent, Zenon

(* A Pod cannot start, or can again. *)
LEMMA JobBlockedStep ==
  ASSUME ArtifactInv, NEW a \in Artifacts, NEW o \in Ops, JobBlocked(a, o) \/ JobUnblocked(a, o)
  PROVE  ArtifactInv'
<1>1. PICK s \in {"active", "blocked"} : JobChanges(a, o, [jobs[a][o] EXCEPT !.status = s])
  BY Zenon DEF JobBlocked, JobUnblocked
<1>2. jobs[a][o].status \in {"active", "blocked"} /\ scenario' = scenario
  BY Zenon DEF JobBlocked, JobUnblocked, Disrupt
<1>3. DOMAIN jobs[a][o] = JobFields
  BY Zenon DEF ArtifactInv, World, Shapes
<1> DEFINE j == [jobs[a][o] EXCEPT !.status = s]
<1>4. DOMAIN j = JobFields /\ j.status = s /\ j.uid = jobs[a][o].uid /\ j.source = jobs[a][o].source
  BY <1>3, Zenon DEF JobFields
<1>5. JobChanges(a, o, j)
  BY <1>1, Zenon
<1> HIDE DEF j
<1> QED
  BY <1>2, <1>4, <1>5, JobChangesOK, Zenon

(* The evidence of a finished Job is lost. *)
LEMMA EvidenceLostStep ==
  ASSUME ArtifactInv, NEW a \in Artifacts, NEW o \in Ops, EvidenceLost(a, o) PROVE ArtifactInv'
<1>1. jobs[a][o].status \in {"complete", "failed"} /\ scenario' = scenario
  BY Zenon DEF EvidenceLost, Disrupt
<1>2. World /\ DOMAIN jobs[a][o] = JobFields
  BY Zenon DEF ArtifactInv, World, Shapes
<1>3. Ref(o, jobs[a][o]) \notin pods[a]
  <2> SUFFICES ASSUME Ref(o, jobs[a][o]) \in pods[a] PROVE FALSE
    OBVIOUS
  <2>1. Ref(o, jobs[a][o]).op = o
    BY Zenon DEF Ref
  <2> QED
    BY <1>1, <1>2, <2>1, Zenon DEF World, PodsHaveJobs
<1>4. CASE JobChanges(a, o, [jobs[a][o] EXCEPT !.result = "lost"])
  <2> DEFINE j == [jobs[a][o] EXCEPT !.result = "lost"]
  <2>1. DOMAIN j = JobFields /\ j.status = jobs[a][o].status
    BY <1>2, Zenon DEF JobFields
  <2>2. JobChanges(a, o, j)
    BY <1>4, Zenon
  <2> HIDE DEF j
  <2> QED
    BY <1>1, <1>3, <2>1, <2>2, JobChangesOK, Zenon
<1>5. CASE JobChanges(a, o, NoJob)
  <2>1. DOMAIN NoJob = JobFields /\ NoJob.status = "none"
    BY Zenon DEF NoJob, JobFields
  <2> QED
    BY <1>1, <1>3, <1>5, <2>1, JobChangesOK, Zenon
<1> QED
  BY <1>4, <1>5, Zenon DEF EvidenceLost

(* A Pod stops, and the Job can disappear. *)
LEMMA JobGoneStep == ASSUME ArtifactInv, NEW a \in Artifacts, JobGone(a) PROVE ArtifactInv'
<1>1. World
  BY Zenon DEF ArtifactInv
<1>2. CASE PodStops(a)
  <2>1. PICK p : pods' = [pods EXCEPT ![a] = pods[a] \ {p}]
    BY <1>2, Zenon DEF PodStops
  <2>2. /\ pass' = pass
        /\ UNCHANGED <<scenario, api, cached, storage, jobs, configs, leases, cleanups, mounts, dirty>>
    BY <1>2, Zenon DEF PodStops, controllerVars, worldVars
  <2>3. /\ DOMAIN pods' = Artifacts /\ pods'[a] \subseteq pods[a]
        /\ \A b \in Artifacts : b # a => pods'[b] = pods[b]
    BY <1>1, <2>1, Zenon DEF World, Shapes
  <2>4. /\ DOMAIN jobs = Artifacts /\ DOMAIN jobs[a] = Ops
        /\ \A o \in Ops : DOMAIN jobs[a][o] = JobFields /\ (jobs[a][o].status = "none" => jobs[a][o] = NoJob)
        /\ \A q \in pods[a] : jobs[a][q.op].status \in {"active", "blocked"}
    BY <1>1, Zenon DEF World, Shapes, OneJob, PodsHaveJobs
  <2>5. World' /\ \A b \in Artifacts : Evolves(b)
    BY <1>1, <2>2, <2>3, <2>4, JobsEvolve
  <2> QED
    BY <2>2, <2>5, JobsEventOK, Zenon
<1>3. ASSUME NEW o \in Ops, JobCollected(a, o) PROVE ArtifactInv'
  <2>1. /\ jobs[a][o].deleting /\ Ref(o, jobs[a][o]) \notin pods[a] /\ scenario' = scenario
        /\ JobChanges(a, o, NoJob)
    BY <1>3, Zenon DEF JobCollected
  <2>2. DOMAIN NoJob = JobFields /\ NoJob.status = "none" /\ ~NoJob.deleting
    BY Zenon DEF NoJob, JobFields
  <2>3. jobs[a][o].status # "none"
    BY <1>1, <2>1, <2>2, Zenon DEF World, OneJob
  <2> QED
    BY <2>1, <2>2, <2>3, JobChangesOK, Zenon
<1> QED
  BY <1>2, <1>3, Zenon DEF JobGone

(* The cleanup Job goes on beside the pass: it keeps what it relies on. *)
LEMMA CleanupEventOK ==
  ASSUME ArtifactInv, NEW a \in Artifacts, NEW c \in CleanupType, cleanups' = [cleanups EXCEPT ![a] = c],
         cleanups[a].status # "none", ~c.pod, cleanups[a] # NoCleanup,
         c.good => \/ cleanups[a].good
                   \/ cleanups[a].pod /\ storage.claim \notin dirty'[a],
         c.status = "none" => ~c.good /\ ~c.deleting,
         DOMAIN dirty' = Artifacts, \A b \in Artifacts : b # a => dirty'[b] = dirty[b],
         dirty'[a] \subseteq dirty[a], pass' = pass,
         UNCHANGED <<scenario, api, cached, storage, jobs, pods, configs, leases, mounts>>
  PROVE  ArtifactInv'
<1>1. World /\ PassOK
  BY Zenon DEF ArtifactInv
<1>2. c.good => /\ storage.claim \in dirty'[a] => storage.state = "gone"
                /\ cached[a].phase # "live"
  BY <1>1, Zenon DEF World, FilesClean, Clean, CleanupAlone
<1>3. ~(~api[a].fin /\ (InformerLag => api[a].phase = "live"))
  BY <1>1, Zenon DEF World, CleanupsEnd
<1>4. World'
  BY <1>1, <1>2, <1>3, CleanupsChange, Zenon
<1>5. /\ DOMAIN cleanups = Artifacts /\ cleanups'[a] = c
      /\ \A b \in Artifacts : b # a => cleanups'[b] = cleanups[b]
  BY <1>1, Zenon DEF World, Shapes
<1>6. CASE ~Busy
  BY <1>1, <1>4, <1>6, IdleStays, Zenon DEF ArtifactInv
<1>7. CASE Busy
  <2>1. me' = me /\ obj' = obj /\ me \in Artifacts
    BY <1>7, Known, Zenon DEF me, obj
  <2>2. Clean(me) => (Clean(me))'
    <3>1. dirty'[me] \subseteq dirty[me]
      BY <2>1, Zenon
    <3> QED
      BY <2>1, <3>1, Zenon DEF Clean
  <2>3. obj.phase = "live" => ~cleanups'[me].pod /\ ~cleanups'[me].good
    BY <1>1, <1>5, <1>7, <2>1, Zenon DEF PassOK, PassKnows
  <2>4. cleanups[me].status = "none" => cleanups'[me] = cleanups[me]
    BY <1>5, <2>1, Zenon
  <2>5. PassKnows'
    <3>1. PassKnows
      BY <1>1, <1>7, Zenon DEF PassOK
    <3>2. /\ (Sane(obj, Ops) => (Sane(obj, Ops))') /\ (Older(obj, api[me]) => (Older(obj, api[me]))')
          /\ (At("release") => (At("release"))') /\ UNCHANGED <<api, cached>>
      BY <2>1, SameSets, Zenon DEF Sane, Older, At
    <3> QED
      BY <1>7, <2>1, <2>2, <2>3, <3>1, <3>2, SameSets, Zenon DEF PassKnows
  <2>6. PassOK'
    BY <1>1, <2>2, <2>4, <2>5, Kept, PassFrame, Zenon
  <2> QED
    BY <1>4, <2>6, Zenon DEF ArtifactInv
<1> QED
  BY <1>6, <1>7, Zenon

(* The cleanup Job succeeds, fails, or is collected. *)
LEMMA CleanedStep == ASSUME ArtifactInv, NEW a \in Artifacts, Cleaned(a) PROVE ArtifactInv'
<1>1. /\ World /\ cleanups[a] \in CleanupType /\ DOMAIN dirty = Artifacts
      /\ cleanups[a].status = "none" => ~cleanups[a].good /\ ~cleanups[a].deleting /\ ~cleanups[a].pod
  BY Zenon DEF ArtifactInv, World, Shapes, CleanupsEnd
<1>2. ~NoCleanup.pod /\ ~NoCleanup.deleting /\ NoCleanup.status = "none" /\ ~NoCleanup.good
  BY Zenon DEF NoCleanup
<1>3. CASE CleanupSucceeds(a)
  <2> DEFINE c == [cleanups[a] EXCEPT !.status = "complete", !.pod = FALSE, !.good = TRUE]
  <2>1. /\ cleanups[a].pod /\ dirty' = [dirty EXCEPT ![a] = dirty[a] \ {storage.claim}]
        /\ cleanups' = [cleanups EXCEPT ![a] = c] /\ pass' = pass
        /\ UNCHANGED <<scenario, api, cached, storage, jobs, pods, configs, leases, mounts>>
    BY <1>3, Zenon DEF CleanupSucceeds, CleanupChanges, controllerVars
  <2>2. c \in CleanupType /\ ~c.pod /\ c.status = "complete"
    BY <1>1, Zenon DEF CleanupType
  <2> HIDE DEF c
  <2>3. /\ DOMAIN dirty' = Artifacts /\ dirty'[a] = dirty[a] \ {storage.claim}
        /\ \A b \in Artifacts : b # a => dirty'[b] = dirty[b]
    BY <1>1, <2>1, Zenon
  <2> QED
    BY <1>1, <1>2, <2>1, <2>2, <2>3, CleanupEventOK, Zenon
<1>4. CASE CleanupFails(a)
  <2> DEFINE c == [cleanups[a] EXCEPT !.status = "failed", !.pod = FALSE]
  <2>1. /\ cleanups[a].pod /\ cleanups' = [cleanups EXCEPT ![a] = c] /\ pass' = pass
        /\ UNCHANGED <<scenario, api, cached, storage, jobs, pods, configs, leases, mounts, dirty>>
    BY <1>4, Zenon DEF CleanupFails, CleanupChanges, controllerVars, Disrupt
  <2>2. c \in CleanupType /\ ~c.pod /\ c.status = "failed" /\ c.good = cleanups[a].good
    BY <1>1, Zenon DEF CleanupType
  <2> HIDE DEF c
  <2> QED
    BY <1>1, <1>2, <2>1, <2>2, CleanupEventOK, Zenon
<1>5. CASE CleanupCollected(a)
  <2> DEFINE c == IF cleanups[a].pod THEN [cleanups[a] EXCEPT !.pod = FALSE]
                  ELSE [NoCleanup EXCEPT !.config = cleanups[a].config]
  <2>1. /\ cleanups[a].deleting /\ cleanups' = [cleanups EXCEPT ![a] = c] /\ pass' = pass
        /\ UNCHANGED <<scenario, api, cached, storage, jobs, pods, configs, leases, mounts, dirty>>
    BY <1>5, Zenon DEF CleanupCollected, CleanupChanges, controllerVars
  <2>2. /\ c \in CleanupType /\ ~c.pod /\ (c.good => cleanups[a].good)
        /\ c.status = "none" => cleanups[a].status = "none" \/ (~c.good /\ ~c.deleting)
    BY <1>1, Zenon DEF CleanupType, NoCleanup
  <2> HIDE DEF c
  <2> QED
    BY <1>1, <1>2, <2>1, <2>2, CleanupEventOK, Zenon
<1> QED
  BY <1>3, <1>4, <1>5, Zenon DEF Cleaned

(* The storage changes: a claim is replaced only once it is gone. *)
LEMMA StorageOK ==
  ASSUME ArtifactInv, DOMAIN storage' = StorageFields,
         storage'.cache \in 0..MaxCaches, storage'.claim \in 0..MaxClaims,
         \/ /\ storage'.claim = storage.claim
            /\ storage.state = "gone" => storage'.state = "gone"
         \/ storage'.claim > storage.claim,
         pass' = pass,
         UNCHANGED <<scenario, api, cached, jobs, pods, configs, leases, cleanups, mounts, dirty>>
  PROVE  ArtifactInv'
<1>1. World /\ PassOK
  BY Zenon DEF ArtifactInv
<1>2. MaxClaims \in Nat /\ storage.claim \in 0..MaxClaims /\ storage.claim <= storage'.claim
  BY <1>1, ArtifactAssumption DEF World, Shapes, MaxClaims
<1>3. \A a \in Artifacts : \A c \in dirty[a] : c \in 0..storage.claim
  BY <1>1, Zenon DEF World, FilesClean
<1>4. \A a \in Artifacts : Clean(a) => (storage'.claim \in dirty[a] => storage'.state = "gone")
  BY <1>2, <1>3 DEF Clean
<1>5. Shapes'
  BY <1>1, SameSets, Zenon DEF World, Shapes
<1>6. FilesClean'
  <2>1. \A a \in Artifacts : \A c \in dirty[a] : c \in 0..storage'.claim
    BY <1>2, <1>3
  <2> QED
    BY <1>1, <1>4, <2>1, SameSets, Zenon DEF World, FilesClean, Clean
<1>7. World'
  BY <1>1, <1>5, <1>6, Frames, Zenon DEF World
<1>8. CASE ~Busy
  BY <1>1, <1>7, <1>8, IdleStays, Zenon DEF ArtifactInv
<1>9. CASE Busy
  <2>1. me' = me /\ obj' = obj /\ me \in Artifacts
    BY <1>9, Known, Zenon DEF me, obj
  <2>2. Clean(me) => (Clean(me))'
    BY <1>4, <2>1, Zenon DEF Clean
  <2>3. Resolved => Resolved'
    BY <1>2, <2>1, SameSets DEF Resolved, Live, Ops
  <2>4. PassKnows'
    BY <1>1, <1>9, <2>1, <2>2, SameSets, Zenon DEF PassOK, PassKnows, At
  <2>5. PassOK'
    BY <1>1, <2>2, <2>3, <2>4, Kept, PassFrame, Zenon
  <2> QED
    BY <1>7, <2>5, Zenon DEF ArtifactInv
<1> QED
  BY <1>8, <1>9, Zenon

(* The storage is disrupted, recovers, or is replaced. *)
LEMMA StorageStep ==
  ASSUME ArtifactInv, StorageDisrupted \/ StorageRecovers \/ ClaimReplaced PROVE ArtifactInv'
<1>1. /\ DOMAIN storage = StorageFields /\ storage.cache \in 0..MaxCaches /\ storage.claim \in 0..MaxClaims
      /\ MaxClaims \in Nat /\ MaxCaches \in Nat
  BY ArtifactAssumption, Zenon DEF ArtifactInv, World, Shapes, MaxClaims, MaxCaches
<1>2. scenario' = scenario
  BY Zenon DEF StorageDisrupted, StorageRecovers, ClaimReplaced, Disrupt
<1>3. PICK s : /\ StorageChanges(s)
               /\ \/ \E x \in BOOLEAN : s = [storage EXCEPT !.ready = x]
                  \/ \E x \in BOOLEAN : s = [storage EXCEPT !.source = x]
                  \/ storage.cache < MaxCaches /\ s = [storage EXCEPT !.cache = storage.cache + 1]
                  \/ \E x : s = [storage EXCEPT !.state = x] /\ (storage.state = "gone" => x = "gone")
                  \/ /\ storage.claim < MaxClaims
                     /\ s = [storage EXCEPT !.state = "bound", !.claim = storage.claim + 1]
  BY Zenon DEF StorageDisrupted, StorageRecovers, ClaimReplaced
<1>4. /\ storage' = s /\ pass' = pass
      /\ UNCHANGED <<api, cached, jobs, pods, configs, leases, cleanups, mounts, dirty>>
  BY <1>3, Zenon DEF StorageChanges, clusterVars
<1>5. /\ DOMAIN s = StorageFields /\ s.cache \in 0..MaxCaches /\ s.claim \in 0..MaxClaims
      /\ \/ s.claim = storage.claim /\ (storage.state = "gone" => s.state = "gone")
         \/ s.claim > storage.claim
  <2>1. CASE \E x \in BOOLEAN : s = [storage EXCEPT !.ready = x]
    BY <1>1, <2>1, Zenon DEF StorageFields
  <2>2. CASE \E x \in BOOLEAN : s = [storage EXCEPT !.source = x]
    BY <1>1, <2>2, Zenon DEF StorageFields
  <2>3. CASE storage.cache < MaxCaches /\ s = [storage EXCEPT !.cache = storage.cache + 1]
    <3>1. /\ DOMAIN s = StorageFields /\ s.cache = storage.cache + 1 /\ s.claim = storage.claim
          /\ s.state = storage.state
      BY <1>1, <2>3, Zenon DEF StorageFields
    <3> QED
      BY <1>1, <2>3, <3>1
  <2>4. CASE \E x : s = [storage EXCEPT !.state = x] /\ (storage.state = "gone" => x = "gone")
    BY <1>1, <2>4, Zenon DEF StorageFields
  <2>5. CASE /\ storage.claim < MaxClaims
             /\ s = [storage EXCEPT !.state = "bound", !.claim = storage.claim + 1]
    <3>1. DOMAIN s = StorageFields /\ s.cache = storage.cache /\ s.claim = storage.claim + 1
      BY <1>1, <2>5, Zenon DEF StorageFields
    <3> QED
      BY <1>1, <2>5, <3>1
  <2> QED
    BY <1>3, <2>1, <2>2, <2>3, <2>4, <2>5, Zenon
<1> QED
  BY <1>2, <1>4, <1>5, StorageOK, Zenon

(* Leases expire only where expiry is considered. *)
LEMMA LeaseExpiresStep ==
  ASSUME ArtifactInv, NEW f \in Fingerprints, LeaseExpires(f) PROVE ArtifactInv'
<1>1. /\ LeaseExpiry /\ leases' = [leases EXCEPT ![f].live = FALSE] /\ pass' = pass
      /\ UNCHANGED <<scenario, api, cached, storage, jobs, pods, configs, cleanups, mounts, dirty>>
  BY Zenon DEF LeaseExpires, controllerVars, Disrupt
<1>2. World /\ PassOK
  BY Zenon DEF ArtifactInv
<1>3. /\ DOMAIN leases' = Fingerprints
      /\ \A g \in Fingerprints : DOMAIN leases'[g] = LeaseFields /\ leases'[g].holder = leases[g].holder
  BY <1>1, <1>2 DEF World, Shapes, LeaseFields
<1>4. ~Exclusive /\ ~Exclusive'
  BY <1>1, SameSets, Zenon DEF Exclusive
<1>5. Shapes'
  <2>1. Shapes
    BY <1>2, Zenon DEF World
  <2> QED
    BY <1>1, <1>3, <2>1, SameSets DEF Shapes
<1>6. Checkpointed'
  BY <1>1, <1>2, <1>3, SameSets DEF World, Checkpointed, Stopped, Unpinned, Held
<1>7. World'
  BY <1>1, <1>2, <1>4, <1>5, <1>6, Frames, Zenon DEF World, LeasesHeld
<1>8. /\ Leased'
      /\ Held(me) = {} => (Held(me) = {})'
  <2>1. me' = me
    BY <1>1, Zenon DEF me
  <2> QED
    BY <1>1, <1>3, <1>4, <2>1, SameSets, Zenon DEF Leased, Held
<1>9. PassKnows'
  BY <1>1, <1>2, Kept, Zenon DEF PassOK
<1>10. PassOK'
  BY <1>1, <1>2, <1>8, <1>9, Kept, PassFrame, Zenon
<1> QED
  BY <1>7, <1>10, Zenon DEF ArtifactInv

(* Serving Pods start and stop. *)
LEMMA ServingStep ==
  ASSUME ArtifactInv, NEW a \in Artifacts, ServingStarts(a) \/ ServingStops(a) PROVE ArtifactInv'
<1>1. /\ pass' = pass
      /\ UNCHANGED <<scenario, api, cached, storage, jobs, pods, configs, leases, cleanups, dirty>>
      /\ \/ mounts' = [mounts EXCEPT ![a] = TRUE] /\ api[a].ready /\ api[a].phase = "live"
         \/ mounts' = [mounts EXCEPT ![a] = FALSE]
  BY Zenon DEF ServingStarts, ServingStops, controllerVars, clusterVars
<1>2. World /\ PassOK
  BY Zenon DEF ArtifactInv
<1>3. /\ DOMAIN mounts' = Artifacts /\ \A b \in Artifacts : b # a => mounts'[b] = mounts[b]
      /\ mounts'[a] => api[a].fin /\ api[a].phase = "live" /\ cached[a].phase = "live"
  BY <1>1, <1>2, Zenon DEF World, Shapes, Records, Sane, Older
<1>4. Shapes' /\ MountsHold'
  BY <1>1, <1>2, <1>3, SameSets, Zenon DEF World, Shapes, MountsHold
<1>5. CleanupAlone'
  <2>1. \A b \in Artifacts : cleanups[b].pod => cached[b].phase # "live" /\ Quiet(b) /\ ~mounts'[b]
    BY <1>2, <1>3, Zenon DEF World, CleanupAlone
  <2> QED
    BY <1>1, <2>1, SameSets, Zenon DEF CleanupAlone, Quiet
<1>6. World'
  BY <1>1, <1>2, <1>4, <1>5, Frames, Zenon DEF World
<1>7. PassKnows'
  BY <1>1, <1>2, Kept, Zenon DEF PassOK
<1>8. CASE ~Busy
  BY <1>1, <1>2, <1>6, <1>8, IdleStays, Zenon DEF ArtifactInv
<1>9. CASE Busy
  <2>1. me' = me /\ obj' = obj /\ me \in Artifacts /\ Older(obj, api[me])
    BY <1>1, <1>9, Known, Zenon DEF me, obj
  <2>2. Unserved => Unserved'
    BY <1>3, <2>1, Zenon DEF Unserved, Deleting, Older
  <2>3. PassOK'
    BY <1>1, <1>2, <1>7, <2>2, Kept, PassFrame, Zenon
  <2> QED
    BY <1>6, <2>3, Zenon DEF ArtifactInv
<1> QED
  BY <1>8, <1>9, Zenon

(* Aging changes nothing but the age of the failure. *)
LEMMA AgedFacts ==
  ASSUME NEW r, DOMAIN r = RecordFields
  PROVE  /\ DOMAIN Aged(r) = RecordFields /\ Aged(r).phase = r.phase /\ Aged(r).fin = r.fin
         /\ Aged(r).loc = r.loc /\ Aged(r).ready = r.ready /\ Aged(r).digest = r.digest
         /\ Aged(r).jobRef = r.jobRef /\ Aged(r).cleaned = r.cleaned
  BY Zenon DEF Aged, RecordFields

(* So an aged object is as sane, and as old, as it was. *)
LEMMA AgedOlder ==
  ASSUME NEW r, NEW ops, Sane(r, ops)
  PROVE  /\ Sane(Aged(r), ops)
         /\ \A s : DOMAIN s = RecordFields /\ Older(r, s) => Older(Aged(r), Aged(s))
<1>1. /\ DOMAIN Aged(r) = RecordFields /\ Aged(r).phase = r.phase /\ Aged(r).fin = r.fin
      /\ Aged(r).loc = r.loc /\ Aged(r).ready = r.ready /\ Aged(r).digest = r.digest
      /\ Aged(r).jobRef = r.jobRef /\ Aged(r).cleaned = r.cleaned
  BY AgedFacts, Zenon DEF Sane
<1>2. Sane(Aged(r), ops)
  BY <1>1, Zenon DEF Sane
<1>3. ASSUME NEW s, DOMAIN s = RecordFields, Older(r, s) PROVE Older(Aged(r), Aged(s))
  <2>1. Aged(s).phase = s.phase /\ Aged(s).fin = s.fin /\ Aged(s).loc = s.loc
    BY <1>3, AgedFacts, Zenon
  <2> QED
    BY <1>1, <1>3, <2>1, Zenon DEF Older
<1> QED
  BY <1>2, <1>3, Zenon

(* Time passes: only the age of failures changes. *)
LEMMA DelayElapsesStep == ASSUME ArtifactInv, DelayElapses PROVE ArtifactInv'
<1>1. /\ api' = [a \in Artifacts |-> Aged(api[a])] /\ cached' = [a \in Artifacts |-> Aged(cached[a])]
      /\ pass' = [pass EXCEPT !.obj = Aged(obj), !.want = Aged(pass.want)]
      /\ UNCHANGED <<scenario, storage, jobs, pods, configs, leases, cleanups, mounts, dirty>>
  BY Zenon DEF DelayElapses, clusterVars, worldVars, obj
<1>2. World /\ PassOK /\ DOMAIN pass = PassFields
  BY Zenon DEF ArtifactInv, PassOK
<1>3. \A a \in Artifacts : Sane(api[a], Ops) /\ Sane(cached[a], Ops) /\ Older(cached[a], api[a])
  BY <1>2, Zenon DEF World, Records
<1>4. \A a \in Artifacts :
        /\ DOMAIN api'[a] = RecordFields /\ api'[a].phase = api[a].phase /\ api'[a].fin = api[a].fin
        /\ api'[a].loc = api[a].loc /\ api'[a].digest = api[a].digest /\ api'[a].cleaned = api[a].cleaned
  BY <1>1, <1>3, AgedFacts, Zenon DEF Sane
<1>5. \A a \in Artifacts :
        /\ cached'[a].phase = cached[a].phase /\ cached'[a].cleaned = cached[a].cleaned
  BY <1>1, <1>3, AgedFacts, Zenon DEF Sane
<1>6. DOMAIN api' = Artifacts /\ DOMAIN cached' = Artifacts
  BY <1>1, Zenon
<1>7. World'
  <2>1. Shapes'
    BY <1>1, <1>2, <1>6, SameSets, Zenon DEF World, Shapes
  <2>2. Records'
    <3>1. \A a \in Artifacts : DOMAIN api[a] = RecordFields
      BY <1>3, Zenon DEF Sane
    <3>2. \A a \in Artifacts : Sane(api'[a], Ops) /\ Sane(cached'[a], Ops) /\ Older(cached'[a], api'[a])
      BY <1>1, <1>3, <3>1, AgedOlder, Zenon
    <3> QED
      BY <1>1, <3>2, SameSets, Zenon DEF Records
  <2>3. Checkpointed'
    BY <1>1, <1>2, <1>4, SameSets DEF World, Checkpointed, Stopped, Unpinned, Held
  <2>4. CleanupAlone'
    BY <1>1, <1>2, <1>5, SameSets, Zenon DEF World, CleanupAlone, Quiet
  <2>5. MountsHold'
    BY <1>1, <1>2, <1>4, SameSets, Zenon DEF World, MountsHold
  <2>6. LeasesHeld'
    <3> SUFFICES ASSUME Exclusive PROVE LeasesHeld'
      BY <1>1, SameSets, Zenon DEF LeasesHeld
    <3>1. \A a \in Artifacts : (needsSource(api[a]))' = needsSource(api[a])
      BY <1>1, <1>4, SameSets DEF needsSource
    <3>2. \A a, o : LeaseOf(a, o)' = LeaseOf(a, o)
      BY <1>1, SameSets, Zenon DEF LeaseOf
    <3>3. ASSUME NEW a \in Artifacts, NEW p \in pods[a]
          PROVE  (/\ leases[LeaseOf(a, p.op)].holder = a
                  /\ Mode # "Hub" => jobs[a][p.op].source = needsSource(api[a]))'
      <4>1. /\ leases[LeaseOf(a, p.op)].holder = a
            /\ Mode # "Hub" => jobs[a][p.op].source = needsSource(api[a])
        BY <1>2, Zenon DEF World, LeasesHeld
      <4> QED
        BY <1>1, <3>1, <3>2, <4>1, SameSets
    <3> QED
      BY <1>1, <1>2, <3>3, SameSets, Zenon DEF World, LeasesHeld
  <2>7. FilesClean'
    BY <1>1, <1>2, <1>4, <1>5, SameSets DEF World, FilesClean, Clean
  <2>8. CleanupsEnd'
    BY <1>1, <1>2, <1>4, SameSets DEF World, CleanupsEnd
  <2> QED
    BY <1>1, <1>2, <2>1, <2>2, <2>3, <2>4, <2>5, <2>6, <2>7, <2>8, Frames, Zenon DEF World
<1>8. /\ DOMAIN pass' = PassFields /\ pass'.pc = pass.pc /\ pass'.me = me /\ pass'.obj = Aged(obj)
      /\ pass'.op = pass.op /\ pass'.want = Aged(pass.want) /\ pass'.then = pass.then
      /\ me' = me /\ obj' = Aged(obj)
  BY <1>1, <1>2, Zenon DEF PassFields, me, obj
<1>9. CASE ~Busy
  <2>1. PassOK'
    BY <1>8, <1>9, Zenon DEF PassOK, PassKnows, WillWrite, Stages, Busy, At
  <2> QED
    BY <1>7, <2>1, Zenon DEF ArtifactInv
<1>10. CASE Busy
  <2>1. me \in Artifacts /\ Sane(obj, Ops) /\ Older(obj, api[me])
    BY <1>10, Known, Zenon
  <2>2. /\ obj'.phase = obj.phase /\ obj'.fin = obj.fin /\ obj'.loc = obj.loc /\ obj'.digest = obj.digest
        /\ obj'.jobRef = obj.jobRef /\ obj'.cleaned = obj.cleaned
    BY <1>8, <2>1, AgedFacts, Zenon DEF Sane
  <2>3. Sane(obj', Ops) /\ Older(obj', api'[me])
    <3>1. DOMAIN api[me] = RecordFields /\ api'[me] = Aged(api[me])
      BY <1>1, <1>3, <2>1, Zenon DEF Sane
    <3> QED
      BY <1>8, <2>1, <3>1, AgedOlder, Zenon
  <2>4. (Clean(me))' = Clean(me)
    BY <1>1, <1>8, Zenon DEF Clean
  <2>5. PassKnows'
    BY <1>1, <1>2, <1>4, <1>5, <1>8, <1>10, <2>1, <2>2, <2>3, <2>4, SameSets DEF PassOK, PassKnows, At
  <2>6. /\ Live => Live'
        /\ Resolved => Resolved'
        /\ OnlyOp => OnlyOp'
        /\ Quiet(me) => (Quiet(me))'
        /\ Leased => Leased'
        /\ Deleting => Deleting'
        /\ Unserved => Unserved'
        /\ WithoutJobs => WithoutJobs'
        /\ WithoutConfigs => WithoutConfigs'
        /\ WithoutLeases => WithoutLeases'
    <3>1. (Live => Live') /\ (Resolved => Resolved')
      BY <1>1, <1>8, <2>2, SameSets, Zenon DEF Live, Resolved
    <3>2. (OnlyOp => OnlyOp') /\ (Quiet(me) => (Quiet(me))')
      BY <1>1, <1>8, SameSets, Zenon DEF OnlyOp, Quiet
    <3>3. Leased => Leased'
      <4>1. artifactLeaseFingerprint(obj, pass.op)' = artifactLeaseFingerprint(obj, pass.op)
        BY <1>1, <1>8, <2>2, SameSets DEF artifactLeaseFingerprint, needsSource
      <4> QED
        BY <1>1, <1>8, <4>1, SameSets, Zenon DEF Leased
    <3>4. (Deleting => Deleting') /\ (Unserved => Unserved')
      BY <1>1, <1>8, <2>2, Zenon DEF Deleting, Unserved
    <3>5. WithoutJobs => WithoutJobs'
      BY <1>1, <1>8, <3>4, SameSets, Zenon DEF WithoutJobs, Stopped
    <3>6. WithoutConfigs => WithoutConfigs'
      BY <1>1, <1>8, <3>5, SameSets, Zenon DEF WithoutConfigs, Unpinned
    <3>7. WithoutLeases => WithoutLeases'
      BY <1>1, <1>8, <3>6, SameSets, Zenon DEF WithoutLeases, Held
    <3> QED
      BY <3>1, <3>2, <3>3, <3>4, <3>5, <3>6, <3>7, Zenon
  <2>7. Stages'
    BY <1>1, <1>2, <1>8, <2>2, <2>4, <2>6 DEF PassOK, Stages, At
  <2>8. WillWrite'
    <3> SUFFICES ASSUME At("status") PROVE WillWrite'
      BY <1>8, Zenon DEF WillWrite, At
    <3>1. Sane(pass.want, Ops)
      BY <1>2, Zenon DEF PassOK, WillWrite
    <3>2. /\ Sane(pass'.want, Ops) /\ pass'.want.phase = pass.want.phase /\ pass'.want.fin = pass.want.fin
          /\ pass'.want.loc = pass.want.loc /\ pass'.want.digest = pass.want.digest
          /\ pass'.want.cleaned = pass.want.cleaned
      <4>1. Sane(pass'.want, Ops)
        BY <1>8, <3>1, AgedOlder, Zenon
      <4>2. /\ pass'.want.phase = pass.want.phase /\ pass'.want.fin = pass.want.fin
            /\ pass'.want.loc = pass.want.loc /\ pass'.want.digest = pass.want.digest
            /\ pass'.want.cleaned = pass.want.cleaned
        BY <1>8, <3>1, AgedFacts DEF Sane
      <4> QED
        BY <4>1, <4>2, Zenon
    <3> QED
      BY <1>1, <1>2, <1>8, <2>2, <2>4, <2>6, <3>2, SameSets, Zenon DEF PassOK, WillWrite
  <2>9. PassOK'
    BY <1>8, <2>5, <2>7, <2>8, Zenon DEF PassOK
  <2> QED
    BY <1>7, <2>9, Zenon DEF ArtifactInv
<1> QED
  BY <1>9, <1>10, Zenon

(* Before anything happens the invariant holds (Init). *)
LEMMA InitOK ==
  ASSUME Init
  PROVE  ArtifactInv
<1> USE DEF Init
<1>0. scenario \in Scenarios
  OBVIOUS
<1>a. /\ MaxCaches \in Nat \ {0} /\ MaxClaims \in Nat \ {0}
      /\ Mode \in {"Hub", "Copy", "Direct"}
  BY <1>0, ArtifactAssumption, Zenon DEF MaxCaches, MaxClaims, Mode
<1>b. None \notin Artifacts
  BY <1>0, ArtifactAssumption, Zenon DEF Artifacts
<1>c. /\ DOMAIN storage = StorageFields
      /\ storage.cache \in 0..MaxCaches /\ storage.claim \in 0..MaxClaims
  <2>1. DOMAIN storage = StorageFields /\ storage.claim = 1
    BY Zenon DEF StorageFields
  <2>2. storage.cache = 0 \/ storage.cache = 1
    OBVIOUS
  <2> QED BY <1>a, <2>1, <2>2
<1>d. Sane(Created, Ops) /\ Older(Created, Created)
  BY Zenon DEF Sane, Older, Created, RecordFields
<1>1. Shapes
  <2>1. \A a \in Artifacts : \A o \in Ops : DOMAIN jobs[a][o] = JobFields
    BY Zenon DEF NoJob, JobFields
  <2>2. \A f \in Fingerprints : DOMAIN leases[f] = LeaseFields
    BY Zenon DEF NoLease, LeaseFields
  <2>3. cleanups \in [Artifacts -> CleanupType]
    BY Zenon DEF NoCleanup, CleanupType
  <2> QED BY <1>0, <1>c, <2>1, <2>2, <2>3, Zenon DEF Shapes
<1>2. Records
  BY <1>d, Zenon DEF Records
<1>3. Checkpointed
  BY <1>b, Zenon DEF Checkpointed, Stopped, Unpinned, Held, NoJob, NoLease
<1>4. PodsHaveJobs
  BY Zenon DEF PodsHaveJobs
<1>5. OneJob
  BY Zenon DEF OneJob, NoJob
<1>6. CleanupAlone
  BY Zenon DEF CleanupAlone, NoCleanup
<1>7. MountsHold
  BY Zenon DEF MountsHold
<1>8. LeasesHeld
  BY Zenon DEF LeasesHeld, NoLease
<1>9. FilesClean
  BY Zenon DEF FilesClean, Clean, NoCleanup, Created
<1>10. CleanupsEnd
  BY Zenon DEF CleanupsEnd, NoCleanup
<1>11. PassOK
  <2>1. DOMAIN pass = PassFields /\ pass.pc = "idle"
    BY Zenon DEF Idle, PassFields
  <2> QED BY <2>1, Zenon DEF PassOK, PassKnows, Stages, WillWrite, Busy, At
<1> QED
  BY <1>1, <1>2, <1>3, <1>4, <1>5, <1>6, <1>7, <1>8, <1>9, <1>10, <1>11, Zenon
     DEF ArtifactInv, World

(* Every step of the worker keeps the invariant (Reconcile and what it calls). *)
LEMMA PassStepOK ==
  ASSUME ArtifactInv, PassStep
  PROVE  ArtifactInv'
<1>1. CASE AddFinalizer \/ resolveArtifactStorage \/ WriteStatus
  BY <1>1, AddFinalizerStep, ResolveStep, WriteStatusStep, Zenon
<1>2. CASE RetainedJob \/ DropRetained \/ ReadyLeases
  BY <1>2, RetainedJobStep, DropRetainedStep, ReadyLeasesStep, Zenon
<1>3. CASE ObsoleteJobs \/ ObsoleteRest \/ Acquire
  BY <1>3, ObsoleteJobsStep, ObsoleteRestStep, AcquireStep, Zenon
<1>4. CASE replaceUnusedImporterConfig \/ EnsureConfig \/ EnsureJob
  BY <1>4, ConfigStep, EnsureConfigStep, EnsureJobStep, Zenon
<1>5. CASE ObserveJob \/ Renew \/ inspectPendingJob
  BY <1>5, ObserveJobStep, RenewStep, InspectStep, Zenon
<1>6. CASE ReadResult \/ Release \/ ReleaseFailed
  BY <1>6, ReadResultStep, ReleaseStep, ReleaseFailedStep, Zenon
<1>7. CASE FailedResult \/ DropJob \/ DropConfig
  BY <1>7, FailedResultStep, DropJobStep, DropConfigStep, Zenon
<1>8. CASE References \/ ServingPods \/ StopImporters \/ DeleteLeases
  BY <1>8, ReferencesStep, StopImportersStep, DeleteLeasesStep, Zenon
<1>9. CASE resolveArtifactCleanupStorage \/ EnsureCleanupConfig \/ EnsureCleanupJob
  BY <1>9, CleanupStorageStep, EnsureCleanupConfigStep, EnsureCleanupJobStep, Zenon
<1>10. CASE reconcileArtifactCleanupJob \/ CleanupDetached \/ finalizeArtifactDeletion
  BY <1>10, CleanupJobStep, CleanupDetachedStep, FinalizeStep, Zenon
<1> QED
  BY <1>1, <1>2, <1>3, <1>4, <1>5, <1>6, <1>7, <1>8, <1>9, <1>10, Zenon DEF PassStep

(* So does whatever the API server, the kubelet, the storage, the users and  *)
(* time do meanwhile.                                                        *)
LEMMA EnvironmentOK ==
  ASSUME ArtifactInv, Environment
  PROVE  ArtifactInv'
<1>1. ASSUME NEW a \in Artifacts, InformerSync(a) \/ UserDeletes(a) \/ JobEnds(a) \/ JobGone(a)
             \/ Cleaned(a)
      PROVE  ArtifactInv'
  BY <1>1, InformerSyncStep, UserDeletesStep, JobEndsStep, JobGoneStep, CleanedStep, Zenon
<1>2. ASSUME NEW a \in Artifacts, NEW o \in Ops, JobBlocked(a, o) \/ EvidenceLost(a, o)
      PROVE  ArtifactInv'
  BY <1>2, JobBlockedStep, EvidenceLostStep, Zenon
<1>3. ASSUME NEW a \in Artifacts, Unblocked(a)
      PROVE  ArtifactInv'
  BY <1>3, JobBlockedStep, Zenon DEF Unblocked
<1>4. ASSUME NEW a \in Artifacts, Referenced(a) \/ Dereferenced(a)
      PROVE  ArtifactInv'
  <2>1. /\ pass' = pass
        /\ UNCHANGED <<scenario, api, cached, storage, jobs, pods, configs, leases, cleanups,
                       mounts, dirty>>
    BY <1>4, Zenon DEF Referenced, Dereferenced, Disrupt, controllerVars, clusterVars
  <2> QED BY <2>1, NothingChanges, Zenon
<1>5. ASSUME NEW a \in Artifacts, ServingStarts(a) \/ ServingStops(a)
      PROVE  ArtifactInv'
  BY <1>5, ServingStep, Zenon
<1>6. CASE StorageDisrupted \/ StorageRecovers \/ ClaimReplaced
  BY <1>6, StorageStep, Zenon
<1>7. CASE DelayElapses \/ ManagerRestarts
  BY <1>7, DelayElapsesStep, ManagerRestartsStep, Zenon
<1>8. ASSUME NEW f \in Fingerprints, LeaseExpires(f)
      PROVE  ArtifactInv'
  BY <1>8, LeaseExpiresStep, Zenon
<1> QED
  BY <1>1, <1>2, <1>3, <1>4, <1>5, <1>6, <1>7, <1>8, Zenon DEF Environment

(* The invariant of the ModelArtifact controller holds in every state it can  *)
(* reach: what the objects in the cluster and the worker's pass tell of each   *)
(* other, for any number of artifacts, claims, caches and disruptions.        *)
THEOREM ArtifactInvariant == Spec => []ArtifactInv
<1>1. Init => ArtifactInv
  BY InitOK, Zenon
<1>2. ArtifactInv /\ [Next]_vars => ArtifactInv'
  <2> SUFFICES ASSUME ArtifactInv, [Next]_vars PROVE ArtifactInv'
    OBVIOUS
  <2>1. CASE \E a \in Artifacts : Reconcile(a)
    BY <2>1, ReconcileStep, Zenon
  <2>2. CASE PassStep
    BY <2>2, PassStepOK, Zenon
  <2>3. CASE Environment
    BY <2>3, EnvironmentOK, Zenon
  <2>4. CASE UNCHANGED vars
    <3>1. /\ pass' = pass
          /\ UNCHANGED <<scenario, api, cached, storage, jobs, pods, configs, leases, cleanups,
                         mounts, dirty>>
      BY <2>4, Zenon DEF vars, clusterVars, worldVars
    <3> QED BY <3>1, NothingChanges, Zenon
  <2> QED BY <2>1, <2>2, <2>3, <2>4, Zenon DEF Next
<1> QED BY <1>1, <1>2, PTL DEF Spec

(* No importer Job, ConfigMap or Pod of an artifact exists while its status   *)
(* lacks the claim its deletion will clean (resolveArtifactStorage).          *)
THEOREM CheckpointFirst == Spec => []CheckpointBeforeImporter
<1>1. ArtifactInv => CheckpointBeforeImporter
  <2> SUFFICES ASSUME ArtifactInv, NEW a \in Artifacts, api[a].loc = 0
               PROVE  /\ \A o \in Ops : jobs[a][o].status = "none" /\ configs[a][o] = "none"
                      /\ pods[a] = {}
    BY Zenon DEF CheckpointBeforeImporter
  <2>1. Stopped(a) /\ Unpinned(a)
    BY Zenon DEF ArtifactInv, World, Checkpointed
  <2>2. Quiet(a)
    BY <2>1, Zenon DEF Stopped, Quiet
  <2>3. pods[a] = {}
    BY <2>2, QuietNoPods, Zenon DEF ArtifactInv
  <2> QED BY <2>1, <2>3, Zenon DEF Stopped, Unpinned
<1> QED BY <1>1, ArtifactInvariant, PTL

(* A cleanup Pod never shares the files with an importer or a serving Pod,    *)
(* and a serving Pod keeps its artifact (cleanupArtifactImporterResources,    *)
(* modelArtifactHasDeploymentReferences).                                     *)
THEOREM CleanupExclusive == Spec => []CleanupIsExclusive
<1>1. ArtifactInv => CleanupIsExclusive
  <2> SUFFICES ASSUME ArtifactInv, NEW a \in Artifacts
               PROVE  /\ cleanups[a].pod => pods[a] = {} /\ ~mounts[a]
                      /\ mounts[a] => api[a].phase # "gone"
    BY Zenon DEF CleanupIsExclusive
  <2>1. cleanups[a].pod => Quiet(a) /\ ~mounts[a]
    BY Zenon DEF ArtifactInv, World, CleanupAlone
  <2>2. Quiet(a) => pods[a] = {}
    BY QuietNoPods, Zenon DEF ArtifactInv
  <2>3. mounts[a] => api[a].fin
    BY Zenon DEF ArtifactInv, World, MountsHold
  <2>4. api[a].phase = "gone" => ~api[a].fin
    BY Zenon DEF ArtifactInv, World, Records, Sane
  <2> QED BY <2>1, <2>2, <2>3, <2>4, Zenon
<1> QED BY <1>1, ArtifactInvariant, PTL

(* While the manager renews in time, two artifacts of one fingerprint never   *)
(* import at once: in every mode when the artifact is read fresh, and in Hub  *)
(* and Direct mode also from a stale informer cache (acquireLease,            *)
(* releaseLease).                                                             *)
THEOREM LeasesExclude == Spec => []LeaseExclusion
<1>1. ArtifactInv => LeaseExclusion
  <2> SUFFICES ASSUME ArtifactInv, Mode = "Copy" => ~InformerLag, ~LeaseExpiry,
                      NEW a \in Artifacts, NEW b \in Artifacts,
                      NEW p \in pods[a], NEW q \in pods[b], p.op = q.op,
                      Mode = "Hub" \/ jobs[a][p.op].source = jobs[b][q.op].source
               PROVE  a = b
    BY Zenon DEF LeaseExclusion
  <2>1. leases[LeaseOf(a, p.op)].holder = a /\ leases[LeaseOf(b, q.op)].holder = b
    BY Zenon DEF ArtifactInv, World, LeasesHeld, Exclusive
  <2>2. LeaseOf(a, p.op) = LeaseOf(b, q.op)
    BY Zenon DEF LeaseOf
  <2> QED BY <2>1, <2>2, Zenon
<1> QED BY <1>1, ArtifactInvariant, PTL

(* An artifact whose finalizer was released has left nothing behind           *)
(* (reconcileDelete).                                                         *)
THEOREM FinalizersLeaveNothing == Spec => []FinalizedClean
<1>1. ArtifactInv => FinalizedClean
  <2> SUFFICES ASSUME ArtifactInv, NEW a \in Artifacts, api[a].phase = "gone", ~InformerLag
               PROVE  /\ pods[a] = {} /\ cleanups[a] = NoCleanup /\ Held(a) = {}
                      /\ \A o \in Ops : jobs[a][o] = NoJob /\ configs[a][o] = "none"
                      /\ storage.claim \in dirty[a] => storage.state = "gone"
    BY Zenon DEF FinalizedClean
  <2>1. ~api[a].fin /\ api[a].loc = 0
    BY Zenon DEF ArtifactInv, World, Records, Sane
  <2>2. Stopped(a) /\ Unpinned(a) /\ Held(a) = {}
    BY <2>1, Zenon DEF ArtifactInv, World, Checkpointed
  <2>3. pods[a] = {}
    BY <2>2, QuietNoPods, Zenon DEF ArtifactInv, Stopped, Quiet
  <2>4. \A o \in Ops : jobs[a][o] = NoJob /\ configs[a][o] = "none"
    BY <2>2, Zenon DEF ArtifactInv, World, OneJob, Stopped, Unpinned
  <2>5. cleanups[a] = NoCleanup
    BY <2>1, Zenon DEF ArtifactInv, World, CleanupsEnd
  <2>6. storage.claim \in dirty[a] => storage.state = "gone"
    BY Zenon DEF ArtifactInv, World, FilesClean, Clean
  <2> QED BY <2>2, <2>3, <2>4, <2>5, <2>6, Zenon
<1> QED BY <1>1, ArtifactInvariant, PTL

(* What DigestStable says of a step. *)
Unwritten ==
  \A a \in Artifacts : api[a].digest # None /\ api'[a].phase # "gone"
    => api'[a].digest = api[a].digest

(* Only five steps write a ModelArtifact: the finalizer's two, the status     *)
(* update, the user's deletion and the passage of time.                       *)
LEMMA ApiWriters ==
  ASSUME [Next]_vars
  PROVE  \/ UNCHANGED api
         \/ AddFinalizer \/ WriteStatus \/ finalizeArtifactDeletion \/ DelayElapses
         \/ \E a \in Artifacts : UserDeletes(a)
<1>1. ASSUME NEW a \in Artifacts, Reconcile(a) PROVE UNCHANGED api
  BY <1>1, Zenon DEF Reconcile
<1>2. CASE PassStep
  <2>1. CASE resolveArtifactStorage \/ RetainedJob \/ DropRetained \/ ReadyLeases \/ ObsoleteJobs
             \/ ObsoleteRest \/ Acquire \/ replaceUnusedImporterConfig \/ EnsureConfig
    BY <2>1, Zenon DEF resolveArtifactStorage, RetainedJob, DropRetained, ReadyLeases, ObsoleteJobs,
      ObsoleteRest, Acquire, replaceUnusedImporterConfig, EnsureConfig
  <2>2. CASE EnsureJob \/ ObserveJob \/ Renew \/ inspectPendingJob \/ ReadResult \/ Release
             \/ ReleaseFailed \/ FailedResult \/ DropJob \/ DropConfig
    BY <2>2, Zenon DEF EnsureJob, ObserveJob, Renew, inspectPendingJob, ReadResult, Release,
      ReleaseFailed, FailedResult, DropJob, DropConfig
  <2>3. CASE References \/ ServingPods \/ StopImporters \/ DeleteLeases
             \/ resolveArtifactCleanupStorage \/ EnsureCleanupConfig \/ EnsureCleanupJob
             \/ reconcileArtifactCleanupJob \/ CleanupDetached
    BY <2>3, Zenon DEF References, ServingPods, StopImporters, DeleteLeases,
      resolveArtifactCleanupStorage, EnsureCleanupConfig, EnsureCleanupJob,
      reconcileArtifactCleanupJob, CleanupDetached
  <2> QED BY <1>2, <2>1, <2>2, <2>3, Zenon DEF PassStep
<1>3. CASE Environment
  <2>1. ASSUME NEW a \in Artifacts, InformerSync(a) \/ JobEnds(a) \/ JobGone(a) \/ Cleaned(a)
        PROVE  UNCHANGED api
    BY <2>1, Zenon DEF InformerSync, JobEnds, JobSucceeds, JobFails, JobFinishes, JobGone,
      PodStops, JobCollected, JobChanges, Cleaned, CleanupSucceeds, CleanupFails,
      CleanupCollected, CleanupChanges, controllerVars
  <2>2. ASSUME NEW a \in Artifacts, NEW o \in Ops, JobBlocked(a, o) \/ EvidenceLost(a, o)
        PROVE  UNCHANGED api
    BY <2>2, Zenon DEF JobBlocked, EvidenceLost, JobChanges
  <2>3. ASSUME NEW a \in Artifacts, \/ Unblocked(a) \/ Referenced(a) \/ ServingStarts(a)
                                    \/ Dereferenced(a) \/ ServingStops(a)
        PROVE  UNCHANGED api
    BY <2>3, Zenon DEF Unblocked, JobUnblocked, JobChanges, Referenced, ServingStarts,
      Dereferenced, ServingStops, controllerVars
  <2>4. CASE StorageDisrupted \/ StorageRecovers \/ ClaimReplaced \/ ManagerRestarts
    BY <2>4, Zenon DEF StorageDisrupted, StorageRecovers, ClaimReplaced, StorageChanges,
      ManagerRestarts
  <2>5. ASSUME NEW f \in Fingerprints, LeaseExpires(f) PROVE UNCHANGED api
    BY <2>5, Zenon DEF LeaseExpires, controllerVars
  <2> QED BY <1>3, <2>1, <2>2, <2>3, <2>4, <2>5, Zenon DEF Environment
<1>4. CASE UNCHANGED vars
  BY <1>4, Zenon DEF vars
<1> QED BY <1>1, <1>2, <1>3, <1>4, Zenon DEF Next

(* None of the five replaces a digest that is there (completeArtifact,        *)
(* WriteStatus under optimistic concurrency).                                 *)
LEMMA DigestKept ==
  ASSUME ArtifactInv, [Next]_vars
  PROVE  Unwritten
<1>0. /\ DOMAIN api = Artifacts
      /\ \A a \in Artifacts : DOMAIN api[a] = RecordFields
  BY Zenon DEF ArtifactInv, World, Shapes, Records, Sane
<1>1. CASE UNCHANGED api
  BY <1>1, Zenon DEF Unwritten
<1>2. CASE AddFinalizer
  <2>1. api' = api \/ api' = [api EXCEPT ![me].fin = TRUE]
    BY <1>2, Zenon DEF AddFinalizer
  <2>2. \A a \in Artifacts : api'[a].digest = api[a].digest
    BY <1>0, <2>1 DEF RecordFields
  <2> QED BY <2>2, Zenon DEF Unwritten
<1>3. CASE WriteStatus
  <2>1. api' = api \/ (api[me] = obj /\ api' = [api EXCEPT ![me] = pass.want])
    BY <1>3, Zenon DEF WriteStatus, Conflict
  <2>2. obj.digest # None => pass.want.digest = obj.digest
    BY <1>3, Zenon DEF WriteStatus, ArtifactInv, PassOK, WillWrite
  <2>3. ASSUME NEW a \in Artifacts, api[a].digest # None
        PROVE  api'[a].digest = api[a].digest
    BY <1>0, <2>1, <2>2, <2>3, Zenon
  <2> QED BY <2>3, Zenon DEF Unwritten
<1>4. CASE finalizeArtifactDeletion
  <2>1. api' = api \/ api' = [api EXCEPT ![me] = Gone]
    BY <1>4, Zenon DEF finalizeArtifactDeletion
  <2>2. Gone.phase = "gone"
    BY Zenon DEF Gone, Created
  <2> QED BY <1>0, <2>1, <2>2, Zenon DEF Unwritten
<1>5. CASE DelayElapses
  <2>1. \A a \in Artifacts : api'[a] = Aged(api[a])
    BY <1>5, Zenon DEF DelayElapses
  <2>2. \A a \in Artifacts : Aged(api[a]).digest = api[a].digest
    BY <1>0, AgedFacts, Zenon
  <2> QED BY <2>1, <2>2, Zenon DEF Unwritten
<1>6. ASSUME NEW b \in Artifacts, UserDeletes(b)
      PROVE  Unwritten
  <2>1. \/ api' = [api EXCEPT ![b] = Gone]
        \/ api' = [api EXCEPT ![b] = [api[b] EXCEPT !.phase = "deleting"]]
    BY <1>6, Zenon DEF UserDeletes
  <2>2. Gone.phase = "gone"
    BY Zenon DEF Gone, Created
  <2>3. [api[b] EXCEPT !.phase = "deleting"].digest = api[b].digest
    BY <1>0, Zenon DEF RecordFields
  <2> QED BY <1>0, <2>1, <2>2, <2>3, Zenon DEF Unwritten
<1> QED BY <1>1, <1>2, <1>3, <1>4, <1>5, <1>6, ApiWriters, Zenon

(* A verified content identity never changes while the artifact exists        *)
(* (completeArtifact).                                                        *)
THEOREM DigestsAreStable == Spec => DigestStable
<1>1. ArtifactInv /\ [Next]_vars => [Unwritten]_vars
  BY DigestKept, Zenon
<1> QED BY <1>1, ArtifactInvariant, PTL DEF Spec, DigestStable, Unwritten
=============================================================================
