------------------------ MODULE DeploymentController ------------------------
(***************************************************************************)
(* The ModelDeployment controller: one ModelDeployment, its Service,       *)
(* runtime ConfigMaps, serving Deployment and Pods, and the ModelArtifacts *)
(* it may refer to.                                                        *)
(*                                                                         *)
(* One worker runs passes.  A pass is the sequence of API calls it still   *)
(* has to make (pass.plan); every call is a step of its own, so that the   *)
(* user, the cluster and the artifact controller may act between any two.  *)
(* Reads go to informer copies that may be old, except the three reads     *)
(* that decide whether a serving Pod may be scheduled.                     *)
(*                                                                         *)
(* Every outcome of a pass asks for another one (a poll interval, a delay  *)
(* or an error's backoff), so a live object is always due and no queue is  *)
(* modelled.                                                               *)
(***************************************************************************)
EXTENDS Naturals, Sequences, FiniteSets

CONSTANTS
  Artifacts,     \* names of ModelArtifacts
  AllSpecs,      \* contents a ModelDeployment spec may have
  ModelOf,       \* the artifact a spec refers to
  Invalid,       \* specs ValidateModelDeployment rejects
  Rejected,      \* specs whose runtime config does not validate
  None,          \* nil
  Scenarios      \* circumstances: specs in use, artifacts per name, lag, disruptions,
                 \* and whether progress is asked

Informers == {"deployments", "artifacts", "claims", "workloads", "pods"}
AllFaults == {"edit", "delete", "outage", "claim", "artifact", "evict", "squat", "load", "read",
              "crash"}

ASSUME DeploymentAssumption ==
  /\ ModelOf \in [AllSpecs -> Artifacts]
  /\ Invalid \subseteq AllSpecs /\ Rejected \subseteq AllSpecs
  /\ Scenarios \subseteq [specs : SUBSET AllSpecs, created : Nat \ {0}, lagging : SUBSET Informers,
                          faults : SUBSET AllFaults, disruptions : Nat, progress : BOOLEAN]

VARIABLES
  scenario,   \* the circumstances, fixed
  api,        \* the ModelDeployment in the API server
  art,        \* the ModelArtifacts in the API server
  claimUsable,\* the artifacts' claim exists, is Bound and is the recorded one
  removal,    \* how far a deletion pass of the artifact controller is
  removed,    \* artifacts whose stored files are gone
  service,    \* the serving Service exists
  configs,    \* runtime ConfigMaps, by fingerprint
  foreign,    \* names of generated objects that others have taken
  workload,   \* the serving Deployment
  rs,         \* the fingerprint of the scaled-up ReplicaSet
  pods,       \* serving Pods
  endpoints,  \* Pods published as ready in the EndpointSlices
  loads,      \* fingerprints some Pod has loaded (history)
  view,       \* the informers' copies
  pass,       \* the running pass
  budget

cluster == <<service, configs, foreign, workload, rs, pods, endpoints, loads>>
world   == <<art, claimUsable, removal, removed>>
vars    == <<scenario, api, world, cluster, view, pass, budget>>

Specs        == scenario.specs
Models       == {ModelOf[s] : s \in Specs}
MaxArtifacts == scenario.created      \* bound on the artifacts created under one name
Lagging      == scenario.lagging      \* the informers that may be behind the API server
Faults       == scenario.faults       \* the disruptions that happen
Disruptions  == scenario.disruptions  \* bound on the number of disruptions

-----------------------------------------------------------------------------
(* Objects.                                                                *)

NoStatus == [gen |-> 0, art |-> None, desired |-> None, loaded |-> None, serving |-> FALSE]

Missing == [uid |-> 0, ready |-> "pending", deleting |-> FALSE]

Uids         == Artifacts \X (1 .. MaxArtifacts)
Fingerprints == [spec : Specs, uid : Uids]

(* An artifact UID never changes content or location once it has been      *)
(* Ready, so spec and UID stand for all the fingerprint is made of.        *)
UidOf(a, x) == <<a, x.uid>>

desiredRuntime(s, a, x) == [spec |-> s, uid |-> UidOf(a, x)]

(* Mutant: Pods are replaced by a rolling update. *)
RollingServingDeployment(fp) ==
  [fp |-> fp, paused |-> FALSE, strategy |-> "RollingUpdate", gated |-> TRUE]

(* The whole Deployment the controller asks for.                           *)
newServingDeployment(fp) ==
  [fp |-> fp, paused |-> FALSE, strategy |-> "Recreate", gated |-> TRUE]

(* No serving Deployment: identities begin at 1. *)
NoWorkload == [id |-> 0]

Workload(id, fp) == [id |-> id, deleting |-> FALSE, spec |-> newServingDeployment(fp)]

Pod(id, w, fp) ==
  [id |-> id, wl |-> w.id, fp |-> fp, gated |-> w.spec.gated, state |-> "pending",
   leaving |-> FALSE]

(* What a pass sees of a kind of object. *)
Seen(kind) ==
  IF kind \in Lagging THEN view[kind]
  ELSE CASE kind = "deployments" -> api
         [] kind = "artifacts" -> art
         [] kind = "claims" -> claimUsable
         [] kind = "workloads" -> workload
         [] kind = "pods" -> pods

Live == [deployments |-> api, artifacts |-> art, claims |-> claimUsable,
         workloads |-> workload, pods |-> pods]

-----------------------------------------------------------------------------
(* Passes.                                                                 *)

Idle == [plan |-> <<>>, obj |-> None, art |-> Missing, fp |-> None, wl |-> NoWorkload,
         pod |-> None, ready |-> FALSE, todo |-> {}, want |-> NoStatus]

At(step)  == pass.plan # <<>> /\ Head(pass.plan) = step
Rest      == Tail(pass.plan)
Follow(p) == pass' = [pass EXCEPT !.plan = p]
Done      == pass' = Idle
Exists(m) == m.phase \in {"live", "deleting"}

(* An object of that name exists and is not controlled by this deployment. *)
Taken(kind, fp) == <<kind, fp>> \in foreign

artifactServingReady(x) == x.uid # 0 /\ ~x.deleting /\ x.ready = "ready"

(* failStatus, for a pass that did (art) or did not (None) find the        *)
(* artifact usable: runtime status stays, readiness does not.              *)
failStatus(status, gen, uid) ==
  [status EXCEPT !.gen = gen, !.serving = FALSE, !.art = IF uid = None THEN @ ELSE uid]

clearedStatus(gen, uid) == [NoStatus EXCEPT !.gen = gen, !.art = uid]

Fail(uid, plan) ==
  pass' = [pass EXCEPT !.plan = plan,
                       !.want = failStatus(pass.obj.status, pass.obj.gen, uid)]

SeenUid == UidOf(ModelOf[pass.obj.spec], pass.art)

(* Reconcile: the cached object, and which of its three jobs is due. *)
Reconcile ==
  LET m == Seen("deployments")
      plan == IF m.phase = "deleting" THEN <<"dropService", "dropWorkload", "listAll", "finalize">>
              ELSE IF m.fin THEN <<"service">> ELSE <<"finalizer">>
  IN /\ pass.plan = <<>> /\ Exists(m) /\ (m.phase = "deleting" => m.fin)
     /\ pass' = [Idle EXCEPT !.plan = plan, !.obj = m]
     /\ UNCHANGED <<api, world, cluster, view, budget, scenario>>

AddFinalizer ==
  /\ At("finalizer") /\ Done
  /\ api' = IF api = pass.obj THEN [api EXCEPT !.fin = TRUE] ELSE api
  /\ UNCHANGED <<world, cluster, view, budget, scenario>>

(* A Service of that name that is not ours drains the workload.            *)
(* reconcileInvalidSpec drains too, and drops the configs no Pod mounts.   *)
reconcileService ==
  /\ At("service")
  /\ IF Taken("service", None)
     THEN Fail(None, <<"drain", "write">>) /\ UNCHANGED service
     ELSE /\ service' = TRUE
          /\ IF pass.obj.spec \in Invalid
             THEN pass' = [pass EXCEPT !.plan = <<"drain", "listConfigs", "dropConfig", "write">>,
                                       !.want = clearedStatus(pass.obj.gen, None)]
             ELSE Follow(<<"artifact">>)
  /\ UNCHANGED <<api, world, configs, foreign, workload, rs, pods, endpoints, loads, view, budget, scenario>>

ReadArtifact ==
  LET a == ModelOf[pass.obj.spec]
      x == Seen("artifacts")[a]
      usable == artifactServingReady(x) /\ Seen("claims")
      fp == desiredRuntime(pass.obj.spec, a, x)
      plan == IF ~usable THEN <<"unavailable">>
              ELSE IF pass.obj.spec \in Rejected THEN <<"drain", "write">>
              ELSE <<"config", "resume", "workload", "listConfigs", "dropConfig", "observe">>
  IN /\ At("artifact")
     /\ pass' = [pass EXCEPT !.plan = plan, !.art = x, !.fp = IF usable THEN fp ELSE None,
                             !.want = failStatus(pass.obj.status, pass.obj.gen, UidOf(a, x))]
     /\ UNCHANGED <<api, world, cluster, view, budget, scenario>>

reconcileRuntimeConfig ==
  /\ At("config")
  /\ IF Taken("config", pass.fp)
     THEN Fail(SeenUid, <<"drain", "write">>) /\ UNCHANGED configs
     ELSE Follow(Rest) /\ configs' = configs \cup {pass.fp}
  /\ UNCHANGED <<api, world, service, foreign, workload, rs, pods, endpoints, loads, view, budget, scenario>>

-----------------------------------------------------------------------------
(* Lifting the scheduling gate.                                            *)

Template(w) == w.spec.fp

(* Pods of the workload's own ReplicaSets with a fingerprint, as cached. *)
OwnedPods(w, fp) == {p \in Seen("pods") : p.wl = w.id /\ p.fp = fp}

Gating ==
  <<"gateDeployment", "gateArtifact", "lift", "workload", "listConfigs", "dropConfig", "observe">>

resumeWorkloadReplacement ==
  LET w == Seen("workloads")
      gated == IF w = NoWorkload \/ Taken("workload", None) THEN {}
               ELSE IF Template(w) # pass.fp THEN {}
               ELSE {p \in OwnedPods(w, pass.fp) : p.gated}
  IN /\ At("resume")
     /\ pass' = [pass EXCEPT !.todo = gated,
                             !.plan = IF gated = {} THEN Rest ELSE Gating]
     /\ UNCHANGED <<api, world, cluster, view, budget, scenario>>

(* A refusal ends the loop over the Pods, not the pass. *)
Refuse(plan) == pass' = [pass EXCEPT !.plan = plan, !.todo = {}]

(* currentArtifactAllowsScheduling, first read: the deployment itself. *)
CheckDeployment ==
  /\ At("gateDeployment")
  /\ IF api.phase = "live" /\ api.gen = pass.obj.gen /\ api.spec \notin Invalid
     THEN Follow(Rest) ELSE Refuse(Tail(Tail(Rest)))
  /\ UNCHANGED <<api, world, cluster, view, budget, scenario>>

(* Mutant: the informers' copies decide. *)
CachedArtifactAllows ==
  LET a == ModelOf[pass.obj.spec]
      x == Seen("artifacts")[a]
  IN x.uid = pass.art.uid /\ artifactServingReady(x) /\ Seen("claims")

(* Its other reads: the artifact and the claim, uncached. *)
ArtifactAllows ==
  LET a == ModelOf[pass.obj.spec]
  IN /\ art[a].uid = pass.art.uid /\ artifactServingReady(art[a]) /\ claimUsable
     /\ desiredRuntime(pass.obj.spec, a, art[a]) = pass.fp

CheckArtifact ==
  /\ At("gateArtifact")
  /\ IF ArtifactAllows THEN Follow(Rest) ELSE Refuse(Tail(Rest))
  /\ UNCHANGED <<api, world, cluster, view, budget, scenario>>

(* The update carries the cached Pod's resource version. *)
LiftGate ==
  /\ At("lift")
  /\ \E p \in pass.todo :
       IF p \in pods
       THEN /\ pods' = (pods \ {p}) \cup {[p EXCEPT !.gated = FALSE]}
            /\ pass' = [pass EXCEPT !.todo = @ \ {p},
                          !.plan = IF pass.todo = {p} THEN Rest ELSE Gating]
       ELSE UNCHANGED pods /\ Done
  /\ UNCHANGED <<api, world, service, configs, foreign, workload, rs, endpoints, loads, view, budget, scenario>>

-----------------------------------------------------------------------------
(* The serving Deployment and the configs of earlier fingerprints.         *)

(* The least identity that nobody remembers. *)
Fresh(used) ==
  {id \in 1 .. Cardinality(used) + 1 : id \notin used /\ 1 .. id - 1 \subseteq used}

FreshWorkloads ==
  LET used == {p.wl : p \in pods \cup Seen("pods")}
              \cup {w.id : w \in {workload, Seen("workloads"), pass.wl}}
  IN Fresh(used)

(* The update replaces the whole spec, which ends a pause as well. *)
Updated(w) == [w EXCEPT !.spec = newServingDeployment(pass.fp)]

reconcileWorkload ==
  LET w == Seen("workloads")
      upd == Updated(w)
      Returns(x) == pass' = [pass EXCEPT !.plan = Rest, !.wl = x]
  IN /\ At("workload")
     /\ IF Taken("workload", None) THEN Fail(SeenUid, <<"write">>) /\ UNCHANGED workload
        ELSE IF w = NoWorkload
        THEN IF workload = NoWorkload
             THEN \E id \in FreshWorkloads :
                    LET new == Workload(id, pass.fp) IN workload' = new /\ Returns(new)
             ELSE UNCHANGED workload /\ Done
        ELSE IF upd = w THEN UNCHANGED workload /\ Returns(w)
        ELSE IF workload = w THEN workload' = upd /\ Returns(upd)
        ELSE UNCHANGED workload /\ Done
     /\ UNCHANGED <<api, world, service, configs, foreign, rs, pods, endpoints, loads, view, budget, scenario>>

(* Configs that are neither desired nor mounted by any Pod the cache knows. *)
cleanupObsoleteRuntimeConfigs(fp) == configs \ ({fp} \cup {p.fp : p \in Seen("pods")})

ListConfigs ==
  LET obsolete == cleanupObsoleteRuntimeConfigs(pass.fp)
  IN /\ At("listConfigs")
     /\ pass' = [pass EXCEPT !.todo = obsolete,
                             !.plan = IF obsolete = {} THEN Tail(Rest) ELSE Rest]
     /\ UNCHANGED <<api, world, cluster, view, budget, scenario>>

DropConfig ==
  /\ At("dropConfig")
  /\ \E f \in pass.todo :
       /\ configs' = configs \ {f}
       /\ pass' = [pass EXCEPT !.todo = @ \ {f}, !.plan = IF pass.todo = {f} THEN Rest ELSE @]
  /\ UNCHANGED <<api, world, service, foreign, workload, rs, pods, endpoints, loads, view, budget, scenario>>

(* deleteForeground of the cached workload, if it is ours and not being    *)
(* deleted; the UID and resource version must still be current.            *)
Foreground(w) ==
  IF w = NoWorkload \/ Taken("workload", None) THEN "nothing"
  ELSE IF w.deleting \/ workload = NoWorkload THEN "nothing"
  ELSE IF workload = w THEN "deleted" ELSE "conflict"

DeleteForeground(w) ==
  LET outcome == Foreground(w)
  IN /\ workload' = IF outcome = "deleted" THEN [workload EXCEPT !.deleting = TRUE] ELSE workload
     /\ IF outcome = "conflict" THEN Done ELSE Follow(Rest)
     /\ UNCHANGED <<api, world, service, configs, foreign, rs, pods, endpoints, loads, view, budget, scenario>>

(* drainOwnedServingWorkload and reconcileInvalidSpec look the workload up. *)
drainOwnedServingWorkload == At("drain") /\ DeleteForeground(Seen("workloads"))

-----------------------------------------------------------------------------
(* An artifact that cannot be served from.                                 *)

(* Mutant: an artifact that is not Ready is not served from. *)
PreserveReadyOnly(m, x, w) ==
  artifactServingReady(x) /\ m.status.loaded = Template(w)

(* The workload's process has loaded exactly what the deployment still     *)
(* asks for.                                                               *)
canPreserveLoadedWorkload(m, x, w) ==
  /\ x.uid # 0 /\ x.ready # "pending"
  /\ m.status.gen = m.gen /\ m.status.art = UidOf(ModelOf[m.spec], x)
  /\ m.status.desired = Template(w) /\ m.status.loaded = Template(w)
  /\ m.spec \notin Rejected /\ desiredRuntime(m.spec, ModelOf[m.spec], x) = Template(w)

reconcileUnavailableArtifact ==
  LET w == Seen("workloads")
      uid == IF pass.art.uid = 0 THEN None ELSE SeenUid
      preserved == w # NoWorkload /\ canPreserveLoadedWorkload(pass.obj, pass.art, w)
  IN /\ At("unavailable")
     /\ IF Taken("workload", None) THEN Fail(uid, <<"write">>)
        ELSE IF preserved
        THEN pass' = [pass EXCEPT !.plan = <<"suspend", "observe">>, !.wl = w, !.fp = Template(w)]
        ELSE pass' = [pass EXCEPT !.plan = <<"delete", "write">>, !.wl = w,
                                  !.want = clearedStatus(pass.obj.gen, uid)]
     /\ UNCHANGED <<api, world, cluster, view, budget, scenario>>

DeleteUnloaded == At("delete") /\ DeleteForeground(pass.wl)

suspendWorkloadReplacement ==
  LET w == pass.wl
      paused == [w EXCEPT !.spec.paused = TRUE]
  IN /\ At("suspend")
     /\ IF w.spec.paused THEN Follow(Rest) /\ UNCHANGED workload
        ELSE IF workload = w
        THEN workload' = paused /\ pass' = [pass EXCEPT !.plan = Rest, !.wl = paused]
        ELSE UNCHANGED workload /\ Done
     /\ UNCHANGED <<api, world, service, configs, foreign, rs, pods, endpoints, loads, view, budget, scenario>>

-----------------------------------------------------------------------------
(* Observing the runtime and reporting it.                                 *)

(* currentPod is the oldest match; a ReplicaSet keeps one, so any will do. *)
ObservePods ==
  LET matches == {p \in OwnedPods(pass.wl, pass.fp) : ~p.leaving}
      ready == \E p \in matches : p.state \in {"ready", "wrong"}
  IN /\ At("observe")
     /\ \E p \in IF matches = {} THEN {None} ELSE matches :
          pass' = [pass EXCEPT !.plan = <<"state">>, !.pod = p, !.ready = ready]
     /\ UNCHANGED <<api, world, cluster, view, budget, scenario>>

(* The supervisor of the observed Pod answers for itself, not the cache,   *)
(* and its whole contract must match.                                      *)
supervisorStateMatches ==
  IF pass.pod = None THEN FALSE
  ELSE /\ pass.pod.state # "pending"
       /\ \E p \in pods : p.id = pass.pod.id /\ p.state = "ready" /\ ~p.leaving

(* Mutant: what was loaded before counts for the new fingerprint. *)
ObserveAnyLoad(matches) ==
  LET before == pass.obj.status
  IN [gen |-> pass.obj.gen, art |-> SeenUid, desired |-> pass.fp,
      loaded |-> IF matches \/ before.loaded # None THEN pass.fp ELSE None,
      serving |-> matches /\ pass.ready /\ pass.pod.id \in endpoints]

(* What observeRuntime reports, from the contract and the endpoints. *)
observeRuntime(matches) ==
  LET before == pass.obj.status
      published == matches /\ pass.ready /\ pass.pod.id \in endpoints
  IN [gen |-> pass.obj.gen, art |-> SeenUid, desired |-> pass.fp,
      loaded |-> IF matches \/ before.loaded = pass.fp THEN pass.fp ELSE None,
      serving |-> published]

ReadState ==
  /\ At("state")
  /\ pass' = [pass EXCEPT !.plan = <<"write">>, !.want = observeRuntime(supervisorStateMatches)]
  /\ UNCHANGED <<api, world, cluster, view, budget, scenario>>

Disrupt(fault) == fault \in Faults /\ budget > 0 /\ budget' = budget - 1 /\ UNCHANGED scenario

(* The request times out or is answered with an error. *)
StateUnavailable ==
  /\ At("state") /\ Disrupt("read")
  /\ pass' = [pass EXCEPT !.plan = <<"write">>, !.want = observeRuntime(FALSE)]
  /\ UNCHANGED <<api, world, cluster, view>>

(* Mutant: only a change of what is loaded counts as a change. *)
persistLoadedStatus ==
  /\ At("write") /\ Done
  /\ api' = IF pass.want.loaded # pass.obj.status.loaded /\ api = pass.obj
            THEN [api EXCEPT !.status = pass.want] ELSE api
  /\ UNCHANGED <<world, cluster, view, budget, scenario>>

(* Nothing is written when nothing changed; a conflict loses the report. *)
persistDeploymentStatus ==
  /\ At("write") /\ Done
  /\ api' = IF pass.want # pass.obj.status /\ api = pass.obj
            THEN [api EXCEPT !.status = pass.want] ELSE api
  /\ UNCHANGED <<world, cluster, view, budget, scenario>>

-----------------------------------------------------------------------------
(* Deletion drains first.                                                  *)

DropService ==
  /\ At("dropService") /\ service' = FALSE /\ Follow(Rest)
  /\ UNCHANGED <<api, world, configs, foreign, workload, rs, pods, endpoints, loads, view, budget, scenario>>

(* Mutant: the finalizer goes as soon as the deletion is requested. *)
DropWorkloadInBackground ==
  LET outcome == Foreground(Seen("workloads"))
  IN /\ At("dropWorkload") /\ Follow(<<"finalize">>)
     /\ workload' = IF outcome = "deleted" THEN [workload EXCEPT !.deleting = TRUE] ELSE workload
     /\ UNCHANGED <<api, world, service, configs, foreign, rs, pods, endpoints, loads, view, budget, scenario>>

(* Mutant: the workload is left to the garbage collector. *)
AwaitWorkload ==
  /\ At("dropWorkload")
  /\ IF Seen("workloads") = NoWorkload THEN Follow(Rest) ELSE Done
  /\ UNCHANGED <<api, world, cluster, view, budget, scenario>>

(* While the cache shows the workload, another pass is needed. *)
DropWorkload ==
  LET w == Seen("workloads")
      outcome == Foreground(w)
  IN /\ At("dropWorkload")
     /\ workload' = IF outcome = "deleted" THEN [workload EXCEPT !.deleting = TRUE] ELSE workload
     /\ IF w = NoWorkload \/ Taken("workload", None) THEN Follow(Rest) ELSE Done
     /\ UNCHANGED <<api, world, service, configs, foreign, rs, pods, endpoints, loads, view, budget, scenario>>

ListAll ==
  /\ At("listAll")
  /\ pass' = IF configs = {} THEN [pass EXCEPT !.plan = Rest]
             ELSE [pass EXCEPT !.plan = <<"dropConfig">>, !.todo = configs]
  /\ UNCHANGED <<api, world, cluster, view, budget, scenario>>

Finalize ==
  /\ At("finalize") /\ Done
  /\ api' = IF api = pass.obj THEN [api EXCEPT !.phase = "gone", !.fin = FALSE] ELSE api
  /\ UNCHANGED <<world, cluster, view, budget, scenario>>

PassStep ==
  \/ AddFinalizer \/ reconcileService \/ ReadArtifact \/ reconcileRuntimeConfig
  \/ resumeWorkloadReplacement \/ CheckDeployment \/ CheckArtifact \/ LiftGate
  \/ reconcileWorkload \/ ListConfigs \/ DropConfig \/ drainOwnedServingWorkload
  \/ reconcileUnavailableArtifact \/ DeleteUnloaded \/ suspendWorkloadReplacement
  \/ ObservePods \/ ReadState \/ persistDeploymentStatus
  \/ DropService \/ DropWorkload \/ ListAll \/ Finalize

-----------------------------------------------------------------------------
(* Kubernetes: the Deployment and ReplicaSet controllers, the kubelet, the *)
(* garbage collector, EndpointSlices and informers.                        *)

Leave(gone) == {IF p \in gone THEN [p EXCEPT !.leaving = TRUE] ELSE p : p \in pods}

(* A changed template: Recreate stops the old Pods, and starts none before *)
(* they are gone.                                                          *)
RollOut ==
  /\ workload # NoWorkload /\ ~workload.deleting /\ ~workload.spec.paused /\ rs # Template(workload)
  /\ LET fp == Template(workload)
         waits == workload.spec.strategy = "Recreate" /\ \E p \in pods : p.fp # fp
     IN IF waits THEN rs # None /\ rs' = None /\ pods' = Leave({p \in pods : p.fp # fp})
        ELSE rs' = fp /\ UNCHANGED pods
  /\ UNCHANGED <<api, world, service, configs, foreign, workload, endpoints, loads, view, pass, budget, scenario>>

PodsInHand ==
  IF At("gateDeployment") \/ At("gateArtifact") \/ At("lift") THEN pass.todo
  ELSE {pass.pod} \ {None}

FreshPods ==
  LET used == {p.id : p \in pods \cup Seen("pods") \cup PodsInHand} \cup endpoints
  IN Fresh(used)

(* A ReplicaSet replaces its Pod even when the Deployment is paused. *)
ReplicaStarts ==
  /\ workload # NoWorkload /\ rs # None
  /\ ~\E p \in pods : p.wl = workload.id /\ p.fp = rs /\ ~p.leaving
  /\ \E id \in FreshPods : pods' = pods \cup {Pod(id, workload, rs)}
  /\ UNCHANGED <<api, world, service, configs, foreign, workload, rs, endpoints, loads, view, pass, budget, scenario>>

Becomes(p, state) == pods' = (pods \ {p}) \cup {[p EXCEPT !.state = state]}

PodStarts(p) ==
  /\ p.state = "pending" /\ ~p.gated /\ ~p.leaving /\ p.fp \in configs /\ claimUsable
  /\ Becomes(p, "loading")
  /\ UNCHANGED <<api, world, service, configs, foreign, workload, rs, endpoints, loads, view, pass, budget, scenario>>

PodLoads(p) ==
  /\ p.state = "loading" /\ ~p.leaving /\ Becomes(p, "ready") /\ loads' = loads \cup {p.fp}
  /\ UNCHANGED <<api, world, service, configs, foreign, workload, rs, endpoints, view, pass, budget, scenario>>

(* The load fails, or a runtime comes up that is not the one asked for. *)
PodMisloads(p) ==
  /\ p.state = "loading" /\ Disrupt("load")
  /\ \E state \in {"failed", "wrong"} : Becomes(p, state)
  /\ UNCHANGED <<api, world, service, configs, foreign, workload, rs, endpoints, loads, view, pass>>

Evicted(p) ==
  /\ ~p.leaving /\ Disrupt("evict") /\ pods' = Leave({p})
  /\ UNCHANGED <<api, world, service, configs, foreign, workload, rs, endpoints, loads, view, pass>>

PodGone(p) ==
  /\ p.leaving /\ pods' = pods \ {p}
  /\ UNCHANGED <<api, world, service, configs, foreign, workload, rs, endpoints, loads, view, pass, budget, scenario>>

(* Foreground deletion: dependents first. *)
DependentsDeleted ==
  /\ workload # NoWorkload /\ workload.deleting /\ (rs # None \/ \E p \in pods : ~p.leaving)
  /\ rs' = None /\ pods' = Leave(pods)
  /\ UNCHANGED <<api, world, service, configs, foreign, workload, endpoints, loads, view, pass, budget, scenario>>

WorkloadGone ==
  /\ workload # NoWorkload /\ workload.deleting /\ rs = None /\ pods = {} /\ workload' = NoWorkload
  /\ UNCHANGED <<api, world, service, configs, foreign, rs, pods, endpoints, loads, view, pass, budget, scenario>>

(* What a finalized deployment leaves behind is collected. *)
OwnerCollected ==
  /\ api.phase = "gone" /\ (workload # NoWorkload \/ configs # {} \/ service)
  /\ workload' = NoWorkload /\ rs' = None /\ pods' = Leave(pods) /\ configs' = {} /\ service' = FALSE
  /\ UNCHANGED <<api, world, foreign, endpoints, loads, view, pass, budget, scenario>>

EndpointSync ==
  /\ endpoints' = IF service THEN {p.id : p \in {q \in pods : q.state \in {"ready", "wrong"} /\ ~q.leaving}}
                  ELSE {}
  /\ endpoints' # endpoints
  /\ UNCHANGED <<api, world, service, configs, foreign, workload, rs, pods, loads, view, pass, budget, scenario>>

InformerSync(kind) ==
  /\ kind \in Lagging /\ view[kind] # Live[kind]
  /\ view' = [view EXCEPT ![kind] = Live[kind]]
  /\ UNCHANGED <<api, world, cluster, pass, budget, scenario>>

-----------------------------------------------------------------------------
(* Users, others and the artifact controller.                              *)

SpecEdited(s) ==
  /\ api.phase = "live" /\ s # api.spec /\ Disrupt("edit")
  /\ api' = [api EXCEPT !.spec = s, !.gen = @ + 1]
  /\ UNCHANGED <<world, cluster, view, pass>>

UserDeletes ==
  /\ api.phase = "live" /\ Disrupt("delete")
  /\ api' = [api EXCEPT !.phase = IF api.fin THEN "deleting" ELSE "gone"]
  /\ UNCHANGED <<world, cluster, view, pass>>

(* Somebody else takes, and gives back, the name of a generated object. *)
NameTaken(kind, fp) ==
  /\ <<kind, fp>> \notin foreign /\ Disrupt("squat")
  /\ CASE kind = "service" -> ~service
       [] kind = "workload" -> workload = NoWorkload
       [] kind = "config" -> fp \notin configs
  /\ foreign' = foreign \cup {<<kind, fp>>}
  /\ UNCHANGED <<api, world, service, configs, workload, rs, pods, endpoints, loads, view, pass>>

NameFreed(n) ==
  /\ foreign' = foreign \ {n}
  /\ UNCHANGED <<api, world, service, configs, workload, rs, pods, endpoints, loads, view, pass, budget, scenario>>

ArtifactBecomes(a, x) ==
  /\ art' = [art EXCEPT ![a] = x]
  /\ UNCHANGED <<api, claimUsable, cluster, view, pass>>

ArtifactReady(a) ==
  /\ art[a].uid # 0 /\ ~art[a].deleting /\ art[a].ready # "ready" /\ claimUsable
  /\ ArtifactBecomes(a, [art[a] EXCEPT !.ready = "ready"])
  /\ UNCHANGED <<removal, removed, budget, scenario>>

ArtifactOutage(a) ==
  /\ art[a].ready = "ready" /\ Disrupt("outage")
  /\ ArtifactBecomes(a, [art[a] EXCEPT !.ready = "outage"])
  /\ UNCHANGED <<removal, removed>>

ArtifactDeleted(a) ==
  /\ art[a].uid # 0 /\ ~art[a].deleting /\ Disrupt("artifact")
  /\ ArtifactBecomes(a, [art[a] EXCEPT !.deleting = TRUE])
  /\ UNCHANGED <<removal, removed>>

ArtifactCreated(a) ==
  /\ art[a].uid = 0 /\ a \in Models
  /\ \E uid \in 1 .. MaxArtifacts :
       /\ <<a, uid>> \notin removed /\ \A n \in 1 .. uid - 1 : <<a, n>> \in removed
       /\ ArtifactBecomes(a, [Missing EXCEPT !.uid = uid])
  /\ UNCHANGED <<removal, removed, budget, scenario>>

ClaimFails ==
  /\ claimUsable /\ Disrupt("claim") /\ claimUsable' = FALSE
  /\ UNCHANGED <<api, art, removal, removed, cluster, view, pass>>

ClaimRecovers ==
  /\ ~claimUsable /\ claimUsable' = TRUE
  /\ UNCHANGED <<api, art, removal, removed, cluster, view, pass, budget, scenario>>

(* The artifact controller's deletion pass: references first, then Pods    *)
(* that mount the artifact's location, then the files.                     *)
Removal(a, from, to) ==
  /\ art[a].deleting /\ removal[a] = from /\ removal' = [removal EXCEPT ![a] = to]
  /\ UNCHANGED <<api, claimUsable, cluster, view, pass, budget, scenario>>

CheckReferences(a) ==
  /\ ~(Exists(api) /\ ModelOf[api.spec] = a)
  /\ Removal(a, "idle", "unreferenced") /\ UNCHANGED <<art, removed>>

(* Any Pod of the artifact, gated or not, that has a location to mount. *)
HeldByPods(a) == art[a].ready # "pending" /\ \E p \in pods : p.fp.uid = UidOf(a, art[a])

CheckPods(a) ==
  /\ Removal(a, "unreferenced", IF HeldByPods(a) THEN "idle" ELSE "unserved")
  /\ UNCHANGED <<art, removed>>

RemoveFiles(a) ==
  /\ Removal(a, "unserved", "idle")
  /\ art' = [art EXCEPT ![a] = Missing] /\ removed' = removed \cup {UidOf(a, art[a])}

ManagerRestarts ==
  /\ pass.plan # <<>> /\ Disrupt("crash") /\ Done
  /\ UNCHANGED <<api, world, cluster, view>>

-----------------------------------------------------------------------------
Environment ==
  \/ RollOut \/ ReplicaStarts \/ DependentsDeleted \/ WorkloadGone \/ OwnerCollected \/ EndpointSync
  \/ \E p \in pods : PodStarts(p) \/ PodLoads(p) \/ PodMisloads(p) \/ Evicted(p) \/ PodGone(p)
  \/ \E kind \in Lagging : InformerSync(kind)
  \/ \E s \in Specs : SpecEdited(s)
  \/ UserDeletes \/ StateUnavailable
  \/ NameTaken("service", None) \/ NameTaken("workload", None)
  \/ \E fp \in Fingerprints : NameTaken("config", fp)
  \/ \E n \in foreign : NameFreed(n)
  \/ \E a \in Artifacts :
       \/ ArtifactReady(a) \/ ArtifactOutage(a) \/ ArtifactDeleted(a) \/ ArtifactCreated(a)
       \/ CheckReferences(a) \/ CheckPods(a) \/ RemoveFiles(a)
  \/ ClaimFails \/ ClaimRecovers
  \/ ManagerRestarts

Init ==
  /\ scenario \in Scenarios
  /\ \E s \in Specs \ Invalid :
       api = [phase |-> "live", fin |-> FALSE, gen |-> 1, spec |-> s, status |-> NoStatus]
  /\ art = [a \in Artifacts |-> [Missing EXCEPT !.uid = IF a \in Models THEN 1 ELSE 0]]
  /\ claimUsable = TRUE /\ removal = [a \in Artifacts |-> "idle"] /\ removed = {}
  /\ service = FALSE /\ configs = {} /\ foreign = {} /\ workload = NoWorkload /\ rs = None
  /\ pods = {} /\ endpoints = {} /\ loads = {}
  /\ view = [kind \in Lagging |-> Live[kind]]
  /\ pass = Idle /\ budget = Disruptions

Next == Reconcile \/ PassStep \/ Environment

Spec == Init /\ [][Next]_vars

(* The worker, Kubernetes and the artifact controller keep working; names  *)
(* that others took are given back and outages end.                        *)
Fair(A) == scenario.progress /\ A

Fairness ==
  /\ WF_vars(Fair(Reconcile)) /\ WF_vars(Fair(PassStep))
  /\ WF_vars(Fair(RollOut)) /\ WF_vars(Fair(ReplicaStarts)) /\ WF_vars(Fair(DependentsDeleted))
  /\ WF_vars(Fair(WorkloadGone)) /\ WF_vars(Fair(OwnerCollected)) /\ WF_vars(Fair(EndpointSync))
  /\ WF_vars(Fair(\E p \in pods : PodStarts(p))) /\ WF_vars(Fair(\E p \in pods : PodLoads(p)))
  /\ WF_vars(Fair(\E p \in pods : PodGone(p)))
  /\ \A kind \in Informers : WF_vars(Fair(InformerSync(kind)))
  /\ WF_vars(Fair(\E n \in foreign : NameFreed(n))) /\ WF_vars(Fair(ClaimRecovers))
  /\ \A a \in Artifacts :
       /\ WF_vars(Fair(ArtifactReady(a))) /\ WF_vars(Fair(CheckReferences(a)))
       /\ WF_vars(Fair(CheckPods(a))) /\ WF_vars(Fair(RemoveFiles(a)))

FairSpec == Spec /\ Fairness

-----------------------------------------------------------------------------
(* Properties.                                                             *)

(* A Pod that may be scheduled finds what it mounts.  Its files are not     *)
(* removed by the artifact controller: whatever the informers showed,       *)
(* whatever was edited or deleted between the check of the artifact and the *)
(* lifting of the gate, the Pod itself keeps the artifact.  Its runtime     *)
(* ConfigMap stays until it leaves: configs are dropped by a cached list of *)
(* Pods, which is as recent as the one the gate was lifted by.              *)
ScheduledPodsHaveMounts ==
  \A p \in pods : ~p.gated => /\ p.fp.uid \notin removed
                              /\ ~p.leaving => p.fp \in configs

(* Two generations of the runtime are never scheduled together, the        *)
(* terminating Pods of the old one included.                               *)
OneGeneration == \A p, q \in pods : ~p.gated /\ ~q.gated => p.fp = q.fp

(* A deployment is finalized only after its serving Pods are drained, even *)
(* if the workload informer has not shown the workload yet.                *)
FinalizedDrained == api.phase = "gone" => \A p \in pods : p.gated

(* The status calls a fingerprint loaded only if a Pod has loaded exactly  *)
(* that fingerprint.                                                       *)
LoadedWasLoaded == api.status.loaded # None => api.status.loaded \in loads

(* The status says that the workload has loaded what is asked for. *)
RecordsLoad(m) ==
  m.gen = api.gen /\ m.status.gen = m.gen /\ m.status.loaded = Template(workload)

(* The workload has loaded what the current deployment asks for, and the   *)
(* status says so, also where the running pass has read it.                *)
LoadedAndCurrent ==
  /\ api.phase = "live" /\ workload # NoWorkload /\ foreign = {}
  /\ ~workload.deleting /\ RecordsLoad(api) /\ (pass.plan # <<>> => RecordsLoad(pass.obj))
  /\ LET a == ModelOf[api.spec]
     IN art[a].uid # 0 /\ Template(workload) = desiredRuntime(api.spec, a, art[a])

(* An outage of the artifact or of its claim never makes the controller    *)
(* terminate a process that has loaded what is still asked for.            *)
OutageKeepsLoaded == [][LoadedAndCurrent => workload' # NoWorkload /\ ~workload'.deleting]_vars

Servable ==
  LET a == ModelOf[api.spec]
  IN api.phase = "live" /\ api.spec \notin Invalid \cup Rejected /\ art[a].uid # 0 /\ ~art[a].deleting

ReadyPod == \E p \in pods : p.state = "ready" /\ ~p.leaving

(* A deployment whose spec is valid and whose artifact stays is served in  *)
(* the end, through outages, evictions, pauses and name collisions; and a   *)
(* report of serving does not outlive the Pod it was about.                 *)
EventuallyServing ==
  scenario.progress => /\ (<>[]Servable) => <>[](api.status.serving)
                       /\ []<>((Exists(api) /\ api.status.serving) => ReadyPod)

(* Deletion ends with nothing left, and then frees the artifact: what was   *)
(* marked for deletion is removed once the deployment is gone.              *)
DeletionCompletes ==
  scenario.progress =>
    (api.phase = "deleting")
      ~> (/\ api.phase = "gone" /\ workload = NoWorkload /\ pods = {} /\ configs = {}
          /\ \A a \in Artifacts : ~art[a].deleting)
=============================================================================
