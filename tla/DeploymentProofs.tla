-------------------------- MODULE DeploymentProofs --------------------------
(***************************************************************************)
(* Proofs about DeploymentController, for any specs, artifacts, lag of the *)
(* informers and number of disruptions: what a scheduled Pod mounts is     *)
(* there, two generations are never scheduled together, a finalized        *)
(* deployment is drained, and what is called loaded was loaded.            *)
(***************************************************************************)
EXTENDS DeploymentController, TLAPS

-----------------------------------------------------------------------------
(* The inductive invariant.                                                *)

PodFields        == {"id", "wl", "fp", "gated", "state", "leaving"}
DeploymentFields == {"phase", "fin", "gen", "spec", "status"}
StatusFields     == {"gen", "art", "desired", "loaded", "serving"}
ArtifactFields   == {"uid", "ready", "deleting"}
WorkloadFields   == {"id", "deleting", "spec"}
TemplateFields   == {"fp", "paused", "strategy", "gated"}
PassFields       == {"plan", "obj", "art", "fp", "wl", "pod", "ready", "todo", "want"}

(* The names of a set of Pods. *)
Ids(S) == {p.id : p \in S}

(* A status calls only that loaded which some Pod has loaded. *)
Truthful(status) ==
  DOMAIN status = StatusFields /\ (status.loaded # None => status.loaded \in loads)

(* A state the deployment was in: the finalizer goes only with the object. *)
Past(m) ==
  /\ DOMAIN m = DeploymentFields /\ Truthful(m.status) /\ m.spec \in AllSpecs
  /\ m.fin => api.fin \/ api.phase = "gone"

Records == Past(api) /\ Past(Seen("deployments"))

(* An artifact that exists was not removed, and removal begins with its     *)
(* deletion.                                                               *)
ArtifactOK(a) ==
  /\ DOMAIN art[a] = ArtifactFields
  /\ art[a].uid # 0 => UidOf(a, art[a]) \notin removed
  /\ art[a].deleting => art[a].uid # 0
  /\ removal[a] # "idle" => art[a].deleting

Storage ==
  /\ DOMAIN art = Artifacts /\ DOMAIN removal = Artifacts
  /\ \A a \in Artifacts : ArtifactOK(a)

(* A Pod keeps its fingerprint as long as anybody remembers it. *)
SameFingerprint(S) == \A p \in pods, q \in S : q.id = p.id => q.fp = p.fp

(* A Pod: what it says it has loaded is loaded. *)
PodOK(p) == DOMAIN p = PodFields /\ (p.state = "ready" => p.fp \in loads)

Pods == (\A p \in pods : PodOK(p)) /\ SameFingerprint(Seen("pods"))

(* A workload that replaces its Pods by Recreate and gates new ones. *)
WorkloadOK(w) ==
  /\ DOMAIN w = WorkloadFields /\ w.id # 0 /\ DOMAIN w.spec = TemplateFields
  /\ w.spec.strategy = "Recreate" /\ w.spec.gated = TRUE

(* All Pods are those of one ReplicaSet, and the workload exists while     *)
(* they do.                                                                *)
Generation ==
  /\ workload # NoWorkload => WorkloadOK(workload)
  /\ \A p \in pods : rs # None => p.fp = rs
  /\ \A p, q \in pods : p.fp = q.fp
  /\ workload = NoWorkload => api.phase = "gone" \/ pods = {}
  /\ Taken("workload", None) => workload = NoWorkload

(* The files of an artifact stay, as long as a Pod of it exists. *)
Kept(u) ==
  \E a \in Artifacts : /\ u = UidOf(a, art[a]) /\ art[a].uid # 0
                       /\ art[a].ready # "pending" /\ removal[a] # "unserved"

(* What holds of a Pod that may be scheduled: the deployment has its       *)
(* finalizer, the informers show the workload and the Pod, and what the    *)
(* Pod mounts is there.                                                    *)
Scheduled(p) ==
  /\ api.fin /\ api.phase # "gone" /\ Seen("workloads") # NoWorkload
  /\ p.id \in Ids(Seen("pods"))
  /\ Kept(p.fp.uid) /\ (~p.leaving => p.fp \in configs)

Gates == \A p \in pods : ~p.gated => Scheduled(p)

World ==
  /\ scenario \in Scenarios /\ DOMAIN view = Lagging
  /\ Records /\ Storage /\ Pods /\ Generation /\ Gates

(* The plans of a pass. *)
AfterGate == <<"workload", "listConfigs", "dropConfig", "observe">>

Plans ==
  {<<>>, <<"finalizer">>, <<"service">>, <<"artifact">>, <<"unavailable">>, <<"observe">>,
   <<"state">>, <<"write">>, <<"drain", "write">>, <<"drain", "listConfigs", "dropConfig", "write">>,
   <<"listConfigs", "dropConfig", "write">>, <<"dropConfig", "write">>, <<"delete", "write">>,
   <<"suspend", "observe">>,
   <<"config", "resume", "workload", "listConfigs", "dropConfig", "observe">>,
   <<"resume", "workload", "listConfigs", "dropConfig", "observe">>,
   Gating, <<"gateArtifact", "lift", "workload", "listConfigs", "dropConfig", "observe">>,
   <<"lift", "workload", "listConfigs", "dropConfig", "observe">>, AfterGate,
   <<"listConfigs", "dropConfig", "observe">>, <<"dropConfig", "observe">>,
   <<"dropService", "dropWorkload", "listAll", "finalize">>,
   <<"dropWorkload", "listAll", "finalize">>, <<"listAll", "finalize">>, <<"finalize">>,
   <<"dropConfig">>}

(* The step a plan begins with. *)
First(plan) == IF plan = <<>> THEN "idle" ELSE Head(plan)
Now == First(pass.plan)

GateNow == {"gateDeployment", "gateArtifact", "lift"}

(* The gated Pods a pass has listed: those that still exist are Pods of    *)
(* the pass's fingerprint, and the informers show them and their workload. *)
Listed ==
  /\ SameFingerprint(pass.todo)
  /\ \A q \in pass.todo : q.fp = pass.fp
  /\ \A q \in pass.todo :
       q.id \in Ids(pods) => /\ q.id \in Ids(Seen("pods"))
                             /\ api.phase = "gone" \/ Seen("workloads") # NoWorkload

(* What a pass has established where it stands. *)
Stage ==
  /\ Now \in {"service", "artifact", "config", "resume"} \cup GateNow => pass.obj.fin
  /\ Now \in {"resume"} \cup GateNow => api.phase = "gone" \/ pass.fp \in configs
  /\ Now \in GateNow => Listed
  /\ Now \in {"gateArtifact", "lift"} => api.phase # "gone"
  /\ Now = "lift" => \A q \in pass.todo : q.id \in Ids(pods) => Kept(pass.fp.uid)
  /\ Now = "suspend" => pass.wl # NoWorkload
  /\ Now = "state" /\ pass.pod # None => pass.pod.fp = pass.fp /\ SameFingerprint({pass.pod})
  /\ Now = "dropConfig" => \A p \in pods : ~p.gated /\ ~p.leaving => p.fp \notin pass.todo
  /\ Now \in {"listAll", "finalize"} => \A p \in pods : p.gated

PassOK ==
  /\ DOMAIN pass = PassFields /\ pass.plan \in Plans /\ Truthful(pass.want)
  /\ Now # "idle" => Past(pass.obj) /\ Stage

DeploymentInv == World /\ PassOK

-----------------------------------------------------------------------------
(* Plans.                                                                  *)

(* Where a plan goes from each of its steps. *)
Flow(plan) ==
  /\ First(plan) = "idle" <=> plan = <<>>
  /\ First(plan) = "config" => Tail(plan) \in Plans /\ First(Tail(plan)) = "resume"
  /\ First(plan) = "resume" => Tail(plan) = AfterGate
  /\ First(plan) = "gateDeployment" => /\ Tail(plan) \in Plans /\ First(Tail(plan)) = "gateArtifact"
                                       /\ Tail(Tail(Tail(plan))) = AfterGate
  /\ First(plan) = "gateArtifact" => /\ Tail(plan) \in Plans /\ First(Tail(plan)) = "lift"
                                     /\ Tail(Tail(plan)) = AfterGate
  /\ First(plan) = "lift" => Tail(plan) = AfterGate
  /\ First(plan) \in {"workload", "drain", "dropConfig", "delete", "suspend"} =>
       Tail(plan) \in Plans /\ First(Tail(plan)) \in {"idle", "listConfigs", "write", "observe"}
  /\ First(plan) = "listConfigs" =>
       /\ Tail(plan) \in Plans /\ First(Tail(plan)) = "dropConfig"
       /\ Tail(Tail(plan)) \in Plans /\ First(Tail(Tail(plan))) \in {"write", "observe"}
  /\ First(plan) = "dropService" => Tail(plan) \in Plans /\ First(Tail(plan)) = "dropWorkload"
  /\ First(plan) = "dropWorkload" => Tail(plan) \in Plans /\ First(Tail(plan)) = "listAll"
  /\ First(plan) = "listAll" => Tail(plan) \in Plans /\ First(Tail(plan)) = "finalize"

(* It goes there from every plan. *)
LEMMA PlanSteps == \A plan \in Plans : Flow(plan)
<1>1. Flow(<<>>)
  <2>1. First(<<>>) = "idle"
    BY DEF First
  <2> QED BY <2>1, Zenon DEF Flow
<1>2. Flow(<<"finalizer">>)
  <2>1. First(<<"finalizer">>) = "finalizer"
    BY DEF First
  <2>2. <<"finalizer">> # <<>>
    OBVIOUS
  <2> QED BY <2>1, <2>2, Zenon DEF Flow
<1>3. Flow(<<"service">>)
  <2>1. First(<<"service">>) = "service"
    BY DEF First
  <2>2. <<"service">> # <<>>
    OBVIOUS
  <2> QED BY <2>1, <2>2, Zenon DEF Flow
<1>4. Flow(<<"artifact">>)
  <2>1. First(<<"artifact">>) = "artifact"
    BY DEF First
  <2>2. <<"artifact">> # <<>>
    OBVIOUS
  <2> QED BY <2>1, <2>2, Zenon DEF Flow
<1>5. Flow(<<"unavailable">>)
  <2>1. First(<<"unavailable">>) = "unavailable"
    BY DEF First
  <2>2. <<"unavailable">> # <<>>
    OBVIOUS
  <2> QED BY <2>1, <2>2, Zenon DEF Flow
<1>6. Flow(<<"observe">>)
  <2>1. First(<<"observe">>) = "observe"
    BY DEF First
  <2>2. <<"observe">> # <<>>
    OBVIOUS
  <2> QED BY <2>1, <2>2, Zenon DEF Flow
<1>7. Flow(<<"state">>)
  <2>1. First(<<"state">>) = "state"
    BY DEF First
  <2>2. <<"state">> # <<>>
    OBVIOUS
  <2> QED BY <2>1, <2>2, Zenon DEF Flow
<1>8. Flow(<<"write">>)
  <2>1. First(<<"write">>) = "write"
    BY DEF First
  <2>2. <<"write">> # <<>>
    OBVIOUS
  <2> QED BY <2>1, <2>2, Zenon DEF Flow
<1>9. Flow(<<"drain", "write">>)
  <2>1. /\ First(<<"drain", "write">>) = "drain"
        /\ Tail(<<"drain", "write">>) = <<"write">>
        /\ First(<<"write">>) = "write"
        /\ <<"drain", "write">> # <<>>
    BY DEF First
  <2>2. <<"write">> \in Plans
    BY Zenon DEF Plans, AfterGate, Gating
  <2> QED BY <2>1, <2>2, Zenon DEF Flow, AfterGate
<1>10. Flow(<<"drain", "listConfigs", "dropConfig", "write">>)
  <2>1. /\ First(<<"drain", "listConfigs", "dropConfig", "write">>) = "drain"
        /\ Tail(<<"drain", "listConfigs", "dropConfig", "write">>) =
             <<"listConfigs", "dropConfig", "write">>
        /\ First(<<"listConfigs", "dropConfig", "write">>) = "listConfigs"
        /\ <<"drain", "listConfigs", "dropConfig", "write">> # <<>>
    BY DEF First
  <2>2. <<"listConfigs", "dropConfig", "write">> \in Plans
    BY Zenon DEF Plans, AfterGate, Gating
  <2> QED BY <2>1, <2>2, Zenon DEF Flow, AfterGate
<1>11. Flow(<<"listConfigs", "dropConfig", "write">>)
  <2>1. /\ First(<<"listConfigs", "dropConfig", "write">>) = "listConfigs"
        /\ Tail(<<"listConfigs", "dropConfig", "write">>) = <<"dropConfig", "write">>
        /\ First(<<"dropConfig", "write">>) = "dropConfig"
        /\ <<"listConfigs", "dropConfig", "write">> # <<>>
        /\ Tail(<<"dropConfig", "write">>) = <<"write">>
        /\ First(<<"write">>) = "write"
    BY DEF First
  <2>2. <<"dropConfig", "write">> \in Plans /\ <<"write">> \in Plans
    BY Zenon DEF Plans, AfterGate, Gating
  <2> QED BY <2>1, <2>2, Zenon DEF Flow, AfterGate
<1>12. Flow(<<"dropConfig", "write">>)
  <2>1. /\ First(<<"dropConfig", "write">>) = "dropConfig"
        /\ Tail(<<"dropConfig", "write">>) = <<"write">>
        /\ First(<<"write">>) = "write"
        /\ <<"dropConfig", "write">> # <<>>
    BY DEF First
  <2>2. <<"write">> \in Plans
    BY Zenon DEF Plans, AfterGate, Gating
  <2> QED BY <2>1, <2>2, Zenon DEF Flow, AfterGate
<1>13. Flow(<<"delete", "write">>)
  <2>1. /\ First(<<"delete", "write">>) = "delete"
        /\ Tail(<<"delete", "write">>) = <<"write">>
        /\ First(<<"write">>) = "write"
        /\ <<"delete", "write">> # <<>>
    BY DEF First
  <2>2. <<"write">> \in Plans
    BY Zenon DEF Plans, AfterGate, Gating
  <2> QED BY <2>1, <2>2, Zenon DEF Flow, AfterGate
<1>14. Flow(<<"suspend", "observe">>)
  <2>1. /\ First(<<"suspend", "observe">>) = "suspend"
        /\ Tail(<<"suspend", "observe">>) = <<"observe">>
        /\ First(<<"observe">>) = "observe"
        /\ <<"suspend", "observe">> # <<>>
    BY DEF First
  <2>2. <<"observe">> \in Plans
    BY Zenon DEF Plans, AfterGate, Gating
  <2> QED BY <2>1, <2>2, Zenon DEF Flow, AfterGate
<1>15. Flow(<<"config", "resume", "workload", "listConfigs", "dropConfig", "observe">>)
  <2>1. /\ First(<<"config", "resume", "workload", "listConfigs", "dropConfig", "observe">>) =
             "config"
        /\ Tail(<<"config", "resume", "workload", "listConfigs", "dropConfig", "observe">>) =
             <<"resume", "workload", "listConfigs", "dropConfig", "observe">>
        /\ First(<<"resume", "workload", "listConfigs", "dropConfig", "observe">>) = "resume"
        /\ <<"config", "resume", "workload", "listConfigs", "dropConfig", "observe">> # <<>>
    BY DEF First
  <2>2. <<"resume", "workload", "listConfigs", "dropConfig", "observe">> \in Plans
    BY Zenon DEF Plans, AfterGate, Gating
  <2> QED BY <2>1, <2>2, Zenon DEF Flow, AfterGate
<1>16. Flow(<<"resume", "workload", "listConfigs", "dropConfig", "observe">>)
  <2>1. /\ First(<<"resume", "workload", "listConfigs", "dropConfig", "observe">>) = "resume"
        /\ Tail(<<"resume", "workload", "listConfigs", "dropConfig", "observe">>) =
             <<"workload", "listConfigs", "dropConfig", "observe">>
        /\ First(<<"workload", "listConfigs", "dropConfig", "observe">>) = "workload"
        /\ <<"resume", "workload", "listConfigs", "dropConfig", "observe">> # <<>>
    BY DEF First
  <2>2. <<"workload", "listConfigs", "dropConfig", "observe">> \in Plans
    BY Zenon DEF Plans, AfterGate, Gating
  <2> QED BY <2>1, <2>2, Zenon DEF Flow, AfterGate
<1>17. Flow(<<"gateDeployment", "gateArtifact", "lift", "workload", "listConfigs", "dropConfig", "observe">>)
  <2>1. /\ First(<<"gateDeployment", "gateArtifact", "lift", "workload", "listConfigs", "dropConfig", "observe">>) =
             "gateDeployment"
        /\ Tail(<<"gateDeployment", "gateArtifact", "lift", "workload", "listConfigs", "dropConfig", "observe">>) =
             <<"gateArtifact", "lift", "workload", "listConfigs", "dropConfig", "observe">>
        /\ First(<<"gateArtifact", "lift", "workload", "listConfigs", "dropConfig", "observe">>) =
             "gateArtifact"
        /\ <<"gateDeployment", "gateArtifact", "lift", "workload", "listConfigs", "dropConfig", "observe">> # <<>>
        /\ Tail(<<"gateArtifact", "lift", "workload", "listConfigs", "dropConfig", "observe">>) =
             <<"lift", "workload", "listConfigs", "dropConfig", "observe">>
        /\ Tail(<<"lift", "workload", "listConfigs", "dropConfig", "observe">>) =
             <<"workload", "listConfigs", "dropConfig", "observe">>
    BY DEF First
  <2>2. <<"gateArtifact", "lift", "workload", "listConfigs", "dropConfig", "observe">> \in Plans
    BY Zenon DEF Plans, AfterGate, Gating
  <2> QED BY <2>1, <2>2, Zenon DEF Flow, AfterGate
<1>18. Flow(<<"gateArtifact", "lift", "workload", "listConfigs", "dropConfig", "observe">>)
  <2>1. /\ First(<<"gateArtifact", "lift", "workload", "listConfigs", "dropConfig", "observe">>) =
             "gateArtifact"
        /\ Tail(<<"gateArtifact", "lift", "workload", "listConfigs", "dropConfig", "observe">>) =
             <<"lift", "workload", "listConfigs", "dropConfig", "observe">>
        /\ First(<<"lift", "workload", "listConfigs", "dropConfig", "observe">>) = "lift"
        /\ <<"gateArtifact", "lift", "workload", "listConfigs", "dropConfig", "observe">> # <<>>
        /\ Tail(<<"lift", "workload", "listConfigs", "dropConfig", "observe">>) =
             <<"workload", "listConfigs", "dropConfig", "observe">>
    BY DEF First
  <2>2. <<"lift", "workload", "listConfigs", "dropConfig", "observe">> \in Plans
    BY Zenon DEF Plans, AfterGate, Gating
  <2> QED BY <2>1, <2>2, Zenon DEF Flow, AfterGate
<1>19. Flow(<<"lift", "workload", "listConfigs", "dropConfig", "observe">>)
  <2>1. /\ First(<<"lift", "workload", "listConfigs", "dropConfig", "observe">>) = "lift"
        /\ Tail(<<"lift", "workload", "listConfigs", "dropConfig", "observe">>) =
             <<"workload", "listConfigs", "dropConfig", "observe">>
        /\ First(<<"workload", "listConfigs", "dropConfig", "observe">>) = "workload"
        /\ <<"lift", "workload", "listConfigs", "dropConfig", "observe">> # <<>>
    BY DEF First
  <2>2. <<"workload", "listConfigs", "dropConfig", "observe">> \in Plans
    BY Zenon DEF Plans, AfterGate, Gating
  <2> QED BY <2>1, <2>2, Zenon DEF Flow, AfterGate
<1>20. Flow(<<"workload", "listConfigs", "dropConfig", "observe">>)
  <2>1. /\ First(<<"workload", "listConfigs", "dropConfig", "observe">>) = "workload"
        /\ Tail(<<"workload", "listConfigs", "dropConfig", "observe">>) =
             <<"listConfigs", "dropConfig", "observe">>
        /\ First(<<"listConfigs", "dropConfig", "observe">>) = "listConfigs"
        /\ <<"workload", "listConfigs", "dropConfig", "observe">> # <<>>
    BY DEF First
  <2>2. <<"listConfigs", "dropConfig", "observe">> \in Plans
    BY Zenon DEF Plans, AfterGate, Gating
  <2> QED BY <2>1, <2>2, Zenon DEF Flow, AfterGate
<1>21. Flow(<<"listConfigs", "dropConfig", "observe">>)
  <2>1. /\ First(<<"listConfigs", "dropConfig", "observe">>) = "listConfigs"
        /\ Tail(<<"listConfigs", "dropConfig", "observe">>) = <<"dropConfig", "observe">>
        /\ First(<<"dropConfig", "observe">>) = "dropConfig"
        /\ <<"listConfigs", "dropConfig", "observe">> # <<>>
        /\ Tail(<<"dropConfig", "observe">>) = <<"observe">>
        /\ First(<<"observe">>) = "observe"
    BY DEF First
  <2>2. <<"dropConfig", "observe">> \in Plans /\ <<"observe">> \in Plans
    BY Zenon DEF Plans, AfterGate, Gating
  <2> QED BY <2>1, <2>2, Zenon DEF Flow, AfterGate
<1>22. Flow(<<"dropConfig", "observe">>)
  <2>1. /\ First(<<"dropConfig", "observe">>) = "dropConfig"
        /\ Tail(<<"dropConfig", "observe">>) = <<"observe">>
        /\ First(<<"observe">>) = "observe"
        /\ <<"dropConfig", "observe">> # <<>>
    BY DEF First
  <2>2. <<"observe">> \in Plans
    BY Zenon DEF Plans, AfterGate, Gating
  <2> QED BY <2>1, <2>2, Zenon DEF Flow, AfterGate
<1>23. Flow(<<"dropService", "dropWorkload", "listAll", "finalize">>)
  <2>1. /\ First(<<"dropService", "dropWorkload", "listAll", "finalize">>) = "dropService"
        /\ Tail(<<"dropService", "dropWorkload", "listAll", "finalize">>) =
             <<"dropWorkload", "listAll", "finalize">>
        /\ First(<<"dropWorkload", "listAll", "finalize">>) = "dropWorkload"
        /\ <<"dropService", "dropWorkload", "listAll", "finalize">> # <<>>
    BY DEF First
  <2>2. <<"dropWorkload", "listAll", "finalize">> \in Plans
    BY Zenon DEF Plans, AfterGate, Gating
  <2> QED BY <2>1, <2>2, Zenon DEF Flow, AfterGate
<1>24. Flow(<<"dropWorkload", "listAll", "finalize">>)
  <2>1. /\ First(<<"dropWorkload", "listAll", "finalize">>) = "dropWorkload"
        /\ Tail(<<"dropWorkload", "listAll", "finalize">>) = <<"listAll", "finalize">>
        /\ First(<<"listAll", "finalize">>) = "listAll"
        /\ <<"dropWorkload", "listAll", "finalize">> # <<>>
    BY DEF First
  <2>2. <<"listAll", "finalize">> \in Plans
    BY Zenon DEF Plans, AfterGate, Gating
  <2> QED BY <2>1, <2>2, Zenon DEF Flow, AfterGate
<1>25. Flow(<<"listAll", "finalize">>)
  <2>1. /\ First(<<"listAll", "finalize">>) = "listAll"
        /\ Tail(<<"listAll", "finalize">>) = <<"finalize">>
        /\ First(<<"finalize">>) = "finalize"
        /\ <<"listAll", "finalize">> # <<>>
    BY DEF First
  <2>2. <<"finalize">> \in Plans
    BY Zenon DEF Plans, AfterGate, Gating
  <2> QED BY <2>1, <2>2, Zenon DEF Flow, AfterGate
<1>26. Flow(<<"finalize">>)
  <2>1. First(<<"finalize">>) = "finalize"
    BY DEF First
  <2>2. <<"finalize">> # <<>>
    OBVIOUS
  <2> QED BY <2>1, <2>2, Zenon DEF Flow
<1>27. Flow(<<"dropConfig">>)
  <2>1. /\ First(<<"dropConfig">>) = "dropConfig"
        /\ Tail(<<"dropConfig">>) = <<>>
        /\ First(<<>>) = "idle"
        /\ <<"dropConfig">> # <<>>
    BY DEF First
  <2>2. <<>> \in Plans
    BY Zenon DEF Plans, AfterGate, Gating
  <2> QED BY <2>1, <2>2, Zenon DEF Flow, AfterGate
<1> QED
  BY <1>1, <1>2, <1>3, <1>4, <1>5, <1>6, <1>7, <1>8, <1>9, <1>10, <1>11, <1>12, <1>13, <1>14,
     <1>15, <1>16, <1>17, <1>18, <1>19, <1>20, <1>21, <1>22, <1>23, <1>24, <1>25, <1>26, <1>27, Zenon DEF Plans, AfterGate, Gating

(* The head of the plan names the step. *)
LEMMA NowIsAt ==
  ASSUME NEW step, step # "idle"
  PROVE  /\ At(step) => Now = step
         /\ Now # "idle" => pass.plan # <<>>
         /\ pass.plan = <<>> => Now = "idle"
  BY Zenon DEF At, Now, First

-----------------------------------------------------------------------------
(* Frames.                                                                 *)

(* What the informers show. *)
LEMMA Shown ==
  /\ Seen("pods") = IF "pods" \in Lagging THEN view["pods"] ELSE pods
  /\ Seen("workloads") = IF "workloads" \in Lagging THEN view["workloads"] ELSE workload
  /\ Seen("deployments") = IF "deployments" \in Lagging THEN view["deployments"] ELSE api
  BY DEF Seen

(* What they show after a step. *)
LEMMA ShownNext ==
  ASSUME scenario' = scenario
  PROVE  /\ Lagging' = Lagging
         /\ Seen("pods")' = IF "pods" \in Lagging THEN view'["pods"] ELSE pods'
         /\ Seen("workloads")' = IF "workloads" \in Lagging THEN view'["workloads"] ELSE workload'
         /\ Seen("deployments")' = IF "deployments" \in Lagging THEN view'["deployments"] ELSE api'
<1>1. Lagging' = Lagging
  BY DEF Lagging
<1> QED BY <1>1 DEF Seen

(* An informer shows the same as long as neither side moves. *)
LEMMA SameShown ==
  ASSUME scenario' = scenario, view' = view
  PROVE  /\ pods' = pods => Seen("pods")' = Seen("pods")
         /\ workload' = workload => Seen("workloads")' = Seen("workloads")
         /\ api' = api => Seen("deployments")' = Seen("deployments")
  BY Shown, ShownNext, Zenon

(* The conjuncts of the invariant where what they speak of stays. *)
LEMMA PastStays ==
  ASSUME NEW m, Past(m), UNCHANGED <<api, loads>>
  PROVE  Past(m)'
  BY Zenon DEF Past, Truthful

(* Copies of the deployment. *)
LEMMA RecordsStay ==
  ASSUME Records, UNCHANGED <<scenario, api, view, loads>>
  PROVE  Records'
  BY SameShown, Zenon DEF Records, Past, Truthful

(* Artifacts and what was removed. *)
LEMMA StorageStays ==
  ASSUME Storage, UNCHANGED <<art, removal, removed>>
  PROVE  Storage'
  BY Zenon DEF Storage, ArtifactOK, UidOf

(* Pods and their copies. *)
LEMMA PodsStay ==
  ASSUME Pods, UNCHANGED <<scenario, pods, view, loads>>
  PROVE  Pods'
  BY SameShown, Zenon DEF Pods, PodOK, SameFingerprint

(* The workload and its Pods. *)
LEMMA GenerationStays ==
  ASSUME Generation, UNCHANGED <<workload, rs, pods, foreign>>, api'.phase = api.phase
  PROVE  Generation'
  BY Zenon DEF Generation, Taken, WorkloadOK

(* Pods that may be scheduled. *)
LEMMA GatesStay ==
  ASSUME Gates, UNCHANGED <<scenario, pods, view, workload, art, removal, configs>>,
         api'.phase = api.phase, api.fin => api'.fin
  PROVE  Gates'
  BY SameShown, Zenon DEF Gates, Scheduled, Kept, UidOf, Ids

(* Services, claims and names of other kinds are not spoken of. *)
LEMMA WorldFrame ==
  ASSUME World, UNCHANGED <<scenario, api, art, removal, removed, configs, workload, rs, pods, loads, view>>,
         Taken("workload", None)' => workload = NoWorkload
  PROVE  World'
<1>1. scenario \in Scenarios /\ Records /\ Storage /\ Pods /\ Generation /\ Gates /\ DOMAIN view = Lagging
  BY Zenon DEF World
<1>2. Lagging' = Lagging
  BY Zenon DEF Lagging
<1>3. Generation'
  BY <1>1, Zenon DEF Generation, WorkloadOK
<1> QED
  BY <1>1, <1>2, <1>3, RecordsStay, StorageStays, PodsStay, GatesStay, Zenon DEF World

(* A step that only moves the pass, or the Service. *)
LEMMA WorldStays ==
  ASSUME World,
         UNCHANGED <<scenario, api, world, configs, foreign, workload, rs, pods, loads, view>>
  PROVE  World'
<1>1. UNCHANGED <<art, claimUsable, removal, removed>>
  BY Zenon DEF world
<1>2. Taken("workload", None) => workload = NoWorkload
  BY Zenon DEF World, Generation
<1>3. Taken("workload", None)' => workload = NoWorkload
  BY <1>2, Zenon DEF Taken
<1> QED BY <1>1, <1>2, <1>3, WorldFrame, Zenon

(* A step beside the pass that touches nothing it relies on. *)
LEMMA PassStays ==
  ASSUME PassOK, UNCHANGED <<scenario, api, loads, pods, configs, view, workload, art, removal, pass>>
  PROVE  PassOK'
<1>1. Seen("pods")' = Seen("pods") /\ Seen("workloads")' = Seen("workloads")
  BY SameShown, Zenon
<1>2. Now' = Now
  BY Zenon DEF Now, First
<1>3. Listed => Listed'
  BY <1>1, Zenon DEF Listed, SameFingerprint, Ids
<1>4. Stage => Stage'
  BY <1>1, <1>2, <1>3, Zenon DEF Stage, SameFingerprint, Ids, Kept, UidOf
<1>5. Truthful(pass.want)' /\ (Past(pass.obj) => Past(pass.obj)')
  BY Zenon DEF PassOK, Past, Truthful
<1> QED BY <1>2, <1>4, <1>5, Zenon DEF PassOK

(* Steps at which a pass relies on nothing but the object it read. *)
Quiet == {"idle", "finalizer", "unavailable", "observe", "write", "drain", "listConfigs", "delete",
          "workload", "dropService", "dropWorkload"}

(* A pass that goes on to one of them. *)
LEMMA PassGoesOn ==
  ASSUME DOMAIN pass' = PassFields, pass'.plan \in Plans, Truthful(pass.want)',
         First(pass'.plan) \in Quiet, Past(pass.obj)'
  PROVE  PassOK'
<1>1. Now' \in Quiet
  BY Zenon DEF Now, First
<1>2. Stage'
  BY <1>1 DEF Stage, Quiet, GateNow
<1> QED BY <1>2, Zenon DEF PassOK

(* A pass that ended holds nothing. *)
LEMMA PassEnds == ASSUME Done PROVE PassOK'
<1>1. pass' = Idle
  BY Zenon DEF Done
<1>2. DOMAIN Idle = PassFields /\ Idle.plan = <<>> /\ Idle.want = NoStatus
  BY Zenon DEF Idle, PassFields
<1>3. DOMAIN NoStatus = StatusFields /\ NoStatus.loaded = None
  BY Zenon DEF NoStatus, StatusFields
<1>4. Truthful(pass.want)'
  BY <1>1, <1>2, <1>3, Zenon DEF Truthful
<1>5. Now' = "idle" /\ <<>> \in Plans
  BY <1>1, <1>2, Zenon DEF Now, First, Plans
<1> QED BY <1>1, <1>2, <1>4, <1>5, Zenon DEF PassOK

-----------------------------------------------------------------------------
(* Passes.                                                                 *)

(* What a pass has at a step. *)
LEMMA PassHas ==
  ASSUME PassOK, NEW step, step # "idle", At(step)
  PROVE  /\ DOMAIN pass = PassFields /\ pass.plan \in Plans /\ Flow(pass.plan)
         /\ First(pass.plan) = step /\ Now = step
         /\ Past(pass.obj) /\ Stage /\ Truthful(pass.want)
<1>1. Now = step
  BY NowIsAt, Zenon
<1>2. Flow(pass.plan)
  BY PlanSteps, Zenon DEF PassOK
<1> QED BY <1>1, <1>2, Zenon DEF PassOK, Now

(* A pass that goes on with the object it read. *)
LEMMA PassMoves ==
  ASSUME PassOK, Now # "idle", DOMAIN pass' = PassFields, pass'.obj = pass.obj,
         pass'.plan \in Plans, First(pass'.plan) \in Quiet,
         NEW w, Truthful(w), pass'.want = w, UNCHANGED <<api, loads>>
  PROVE  PassOK'
<1>1. Past(pass.obj)'
  BY Zenon DEF PassOK, Past, Truthful
<1>2. Truthful(pass.want)'
  BY Zenon DEF Truthful
<1> QED BY <1>1, <1>2, PassGoesOn, Zenon

(* A pass that follows another plan and keeps all else. *)
LEMMA PassFollows ==
  ASSUME PassOK, Now # "idle", NEW plan \in Plans, First(plan) \in Quiet, Follow(plan),
         UNCHANGED <<api, loads>>
  PROVE  PassOK'
<1>1. DOMAIN pass = PassFields /\ Truthful(pass.want)
  BY Zenon DEF PassOK
<1>2. pass' = [pass EXCEPT !.plan = plan]
  BY Zenon DEF Follow
<1>3. DOMAIN pass' = PassFields /\ pass'.obj = pass.obj /\ pass'.want = pass.want /\ pass'.plan = plan
  BY <1>1, <1>2, Zenon DEF PassFields
<1> QED BY <1>1, <1>3, PassMoves, Zenon

(* Statuses of failures keep what is loaded, cleared ones claim nothing. *)
LEMMA StatusesTruthful ==
  ASSUME NEW gen, NEW uid
  PROVE  /\ \A s : Truthful(s) => Truthful(failStatus(s, gen, uid))
         /\ Truthful(clearedStatus(gen, uid))
<1>1. ASSUME NEW s, Truthful(s) PROVE Truthful(failStatus(s, gen, uid))
  <2> DEFINE f == failStatus(s, gen, uid)
  <2>1. DOMAIN f = DOMAIN s /\ ("loaded" \in DOMAIN s => f.loaded = s.loaded)
    BY Zenon DEF failStatus
  <2> HIDE DEF f
  <2>2. DOMAIN f = StatusFields /\ f.loaded = s.loaded
    BY <1>1, <2>1, Zenon DEF Truthful, StatusFields
  <2>3. Truthful(f)
    BY <1>1, <2>2, Zenon DEF Truthful
  <2> QED BY <2>3, Zenon DEF f
<1>2. DOMAIN clearedStatus(gen, uid) = StatusFields /\ clearedStatus(gen, uid).loaded = None
  BY Zenon DEF clearedStatus, NoStatus, StatusFields
<1>3. Truthful(clearedStatus(gen, uid))
  BY <1>2, Zenon DEF Truthful
<1> QED BY <1>1, <1>3, Zenon

(* A pass that fails goes on to write what failed. *)
LEMMA PassFails ==
  ASSUME PassOK, Now # "idle", NEW uid, NEW plan \in {<<"drain", "write">>, <<"write">>},
         Fail(uid, plan), UNCHANGED <<api, loads>>
  PROVE  PassOK'
<1> DEFINE w == failStatus(pass.obj.status, pass.obj.gen, uid)
<1>1. DOMAIN pass = PassFields /\ Truthful(w)
  BY StatusesTruthful, Zenon DEF PassOK, Past
<1>2. pass' = [pass EXCEPT !.plan = plan, !.want = w]
  BY Zenon DEF Fail
<1> HIDE DEF w
<1>3. DOMAIN pass' = PassFields /\ pass'.obj = pass.obj /\ pass'.want = w /\ pass'.plan = plan
  BY <1>1, <1>2, Zenon DEF PassFields
<1>4. plan \in Plans /\ First(plan) \in Quiet
  <2>1. <<"drain", "write">> \in Plans /\ <<"write">> \in Plans
    BY Zenon DEF Plans
  <2>2. First(<<"drain", "write">>) = "drain" /\ First(<<"write">>) = "write"
    BY DEF First
  <2> QED BY <2>1, <2>2, Zenon DEF Quiet
<1> QED BY <1>1, <1>3, <1>4, PassMoves, Zenon

(* Steps that write the deployment. *)
LEMMA ApiChanges ==
  ASSUME World, UNCHANGED <<scenario, world, cluster, view>>,
         DOMAIN api' = DeploymentFields, Truthful(api.status)', api'.spec \in AllSpecs,
         api.fin => api'.fin \/ api'.phase = "gone",
         api.phase = "gone" => api'.phase = "gone",
         api'.phase = "gone" => \A p \in pods : p.gated
  PROVE  World'
<1>1. /\ UNCHANGED <<art, claimUsable, removal, removed>>
      /\ UNCHANGED <<service, configs, foreign, workload, rs, pods, endpoints, loads>>
  BY Zenon DEF world, cluster
<1>2. scenario \in Scenarios /\ Records /\ Storage /\ Pods /\ Generation /\ Gates
      /\ DOMAIN view = Lagging
  BY Zenon DEF World
<1>3. Lagging' = Lagging
  BY Zenon DEF Lagging
<1>4. Records'
  <2>1. Past(api)'
    BY <1>1, Zenon DEF Past
  <2>2. ASSUME NEW m, Past(m) PROVE Past(m)'
    BY <1>1, <2>2, Zenon DEF Past, Truthful
  <2>3. Past(Seen("deployments"))'
    <3>1. CASE "deployments" \in Lagging
      <4>1. Seen("deployments")' = Seen("deployments")
        BY <3>1, Shown, ShownNext, Zenon
      <4> QED BY <1>2, <2>2, <4>1, Zenon DEF Records, Past, Truthful
    <3>2. CASE "deployments" \notin Lagging
      <4>1. Seen("deployments")' = api'
        BY <3>2, ShownNext, Zenon
      <4> QED BY <2>1, <4>1, Zenon DEF Past, Truthful
    <3> QED BY <3>1, <3>2, Zenon
  <2> QED BY <2>1, <2>3, Zenon DEF Records
<1>5. Generation'
  BY <1>1, <1>2, Zenon DEF Generation, Taken, WorkloadOK
<1>6. Gates'
  BY <1>1, <1>2, SameShown, Zenon DEF Gates, Scheduled, Kept, UidOf, Ids
<1> QED
  BY <1>1, <1>2, <1>3, <1>4, <1>5, <1>6, StorageStays, PodsStay, Zenon DEF World

-----------------------------------------------------------------------------
(* The steps of a pass.                                                    *)

(* Reconcile *)
LEMMA ReconcileStep == ASSUME DeploymentInv, Reconcile PROVE DeploymentInv'
<1> DEFINE m == Seen("deployments")
           plan == pass'.plan
<1>1. World /\ Past(m)
  BY Zenon DEF DeploymentInv, World, Records
<1>2. World'
  BY <1>1, WorldStays, Zenon DEF Reconcile, cluster
<1>3. UNCHANGED <<api, loads>>
  BY Zenon DEF Reconcile, cluster
<1>4. \E q \in {<<"dropService", "dropWorkload", "listAll", "finalize">>, <<"finalizer">>, <<"service">>} :
        pass' = [Idle EXCEPT !.plan = q, !.obj = m] /\ (q = <<"service">> => m.fin)
  BY Zenon DEF Reconcile
<1>5. PICK q \in {<<"dropService", "dropWorkload", "listAll", "finalize">>, <<"finalizer">>, <<"service">>} :
        pass' = [Idle EXCEPT !.plan = q, !.obj = m] /\ (q = <<"service">> => m.fin)
  BY <1>4, Zenon
<1> HIDE DEF m
<1>6. DOMAIN pass' = PassFields /\ pass'.plan = q /\ pass'.obj = m /\ pass'.want = NoStatus
  BY <1>5, Zenon DEF Idle, PassFields
<1>7. DOMAIN NoStatus = StatusFields /\ NoStatus.loaded = None
  BY Zenon DEF NoStatus, StatusFields
<1>8. Truthful(pass.want)' /\ Past(pass.obj)'
  BY <1>1, <1>3, <1>6, <1>7, Zenon DEF Truthful, Past
<1>9. /\ <<"dropService", "dropWorkload", "listAll", "finalize">> \in Plans
      /\ <<"finalizer">> \in Plans /\ <<"service">> \in Plans
  BY Zenon DEF Plans
<1>10. /\ First(<<"dropService", "dropWorkload", "listAll", "finalize">>) = "dropService"
       /\ First(<<"finalizer">>) = "finalizer" /\ First(<<"service">>) = "service"
  BY DEF First
<1>11. CASE q # <<"service">>
  BY <1>2, <1>5, <1>6, <1>8, <1>9, <1>10, <1>11, PassGoesOn, Zenon DEF DeploymentInv, Quiet
<1>12. CASE q = <<"service">>
  <2>1. Now' = "service" /\ pass'.obj.fin
    BY <1>5, <1>6, <1>10, <1>12, Zenon DEF Now, First
  <2>2. Stage'
    BY <2>1 DEF Stage, GateNow
  <2> QED BY <1>2, <1>6, <1>8, <1>9, <1>12, <2>2, Zenon DEF DeploymentInv, PassOK
<1> QED BY <1>11, <1>12, Zenon

(* AddFinalizer *)
LEMMA AddFinalizerStep == ASSUME DeploymentInv, AddFinalizer PROVE DeploymentInv'
<1>1. World /\ Past(api)
  BY Zenon DEF DeploymentInv, World, Records
<1>2. UNCHANGED <<scenario, world, cluster, view>> /\ Done
      /\ api' = IF api = pass.obj THEN [api EXCEPT !.fin = TRUE] ELSE api
  BY Zenon DEF AddFinalizer
<1>3. DOMAIN api = DeploymentFields /\ Truthful(api.status) /\ api.spec \in AllSpecs /\ loads' = loads
  BY <1>1, <1>2, Zenon DEF Past, cluster
<1>4. DOMAIN api' = DeploymentFields /\ api'.status = api.status /\ api'.spec = api.spec
      /\ api'.phase = api.phase /\ (api.fin => api'.fin)
  BY <1>2, <1>3, Zenon DEF DeploymentFields
<1>5. Truthful(api.status)'
  BY <1>3, <1>4, Zenon DEF Truthful
<1>6. api.phase = "gone" => \A p \in pods : p.gated
  BY <1>1, Zenon DEF World, Gates, Scheduled
<1>7. World'
  BY <1>1, <1>2, <1>3, <1>4, <1>5, <1>6, ApiChanges, Zenon
<1> QED BY <1>2, <1>7, PassEnds, Zenon DEF DeploymentInv

(* persistDeploymentStatus *)
LEMMA StatusStep == ASSUME DeploymentInv, persistDeploymentStatus PROVE DeploymentInv'
<1>1. World /\ Past(api) /\ Truthful(pass.want)
  BY Zenon DEF DeploymentInv, World, Records, PassOK
<1>2. UNCHANGED <<scenario, world, cluster, view>> /\ Done
      /\ (api' = [api EXCEPT !.status = pass.want] \/ api' = api)
  BY Zenon DEF persistDeploymentStatus
<1>3. DOMAIN api = DeploymentFields /\ Truthful(api.status) /\ api.spec \in AllSpecs /\ loads' = loads
  BY <1>1, <1>2, Zenon DEF Past, cluster
<1>4. DOMAIN api' = DeploymentFields /\ (api'.status = api.status \/ api'.status = pass.want)
      /\ api'.spec = api.spec /\ api'.phase = api.phase /\ api'.fin = api.fin
  BY <1>2, <1>3, Zenon DEF DeploymentFields
<1>5. Truthful(api.status)'
  BY <1>1, <1>3, <1>4, Zenon DEF Truthful
<1>6. api.phase = "gone" => \A p \in pods : p.gated
  BY <1>1, Zenon DEF World, Gates, Scheduled
<1>7. World'
  BY <1>1, <1>2, <1>3, <1>4, <1>5, <1>6, ApiChanges, Zenon
<1> QED BY <1>2, <1>7, PassEnds, Zenon DEF DeploymentInv

(* Finalize: the Pods are drained, whatever the informers showed. *)
LEMMA FinalizeStep == ASSUME DeploymentInv, Finalize PROVE DeploymentInv'
<1>1. World /\ Past(api) /\ PassOK
  BY Zenon DEF DeploymentInv, World, Records
<1>2. UNCHANGED <<scenario, world, cluster, view>> /\ Done /\ At("finalize")
      /\ (api' = [api EXCEPT !.phase = "gone", !.fin = FALSE] \/ api' = api)
  BY Zenon DEF Finalize
<1>3. DOMAIN api = DeploymentFields /\ Truthful(api.status) /\ api.spec \in AllSpecs /\ loads' = loads
  BY <1>1, <1>2, Zenon DEF Past, cluster
<1>4. DOMAIN api' = DeploymentFields /\ api'.status = api.status /\ api'.spec = api.spec
      /\ (api'.phase = "gone" \/ (api'.phase = api.phase /\ api'.fin = api.fin))
  BY <1>2, <1>3, Zenon DEF DeploymentFields
<1>5. Truthful(api.status)'
  BY <1>3, <1>4, Zenon DEF Truthful
<1>6. \A p \in pods : p.gated
  BY <1>1, <1>2, PassHas DEF Stage
<1>7. World'
  BY <1>1, <1>2, <1>3, <1>4, <1>5, <1>6, ApiChanges, Zenon
<1> QED BY <1>2, <1>7, PassEnds, Zenon DEF DeploymentInv

(* reconcileService *)
LEMMA ServiceStep == ASSUME DeploymentInv, reconcileService PROVE DeploymentInv'
<1>1. World /\ PassOK /\ At("service")
  BY Zenon DEF DeploymentInv, reconcileService
<1>2. DOMAIN pass = PassFields /\ pass.obj.fin /\ Past(pass.obj) /\ Truthful(pass.want) /\ Now = "service"
  BY <1>1, PassHas DEF Stage
<1>3. UNCHANGED <<scenario, api, world, configs, foreign, workload, rs, pods, endpoints, loads, view>>
  BY Zenon DEF reconcileService
<1>4. World'
  BY <1>1, <1>3, WorldStays, Zenon
<1>5. <<"drain", "listConfigs", "dropConfig", "write">> \in Plans /\ <<"artifact">> \in Plans
  BY Zenon DEF Plans
<1>6. First(<<"drain", "listConfigs", "dropConfig", "write">>) = "drain" /\ First(<<"artifact">>) = "artifact"
  BY DEF First
<1>7. CASE Fail(None, <<"drain", "write">>)
  BY <1>1, <1>2, <1>3, <1>4, <1>7, PassFails, Zenon DEF DeploymentInv
<1>8. CASE pass' = [pass EXCEPT !.plan = <<"drain", "listConfigs", "dropConfig", "write">>,
                                !.want = clearedStatus(pass.obj.gen, None)]
  <2> DEFINE w == clearedStatus(pass.obj.gen, None)
  <2>1. Truthful(w)
    BY StatusesTruthful, Zenon
  <2> HIDE DEF w
  <2>2. /\ DOMAIN pass' = PassFields /\ pass'.obj = pass.obj /\ pass'.want = w
        /\ pass'.plan = <<"drain", "listConfigs", "dropConfig", "write">>
    BY <1>2, <1>8, Zenon DEF PassFields, w
  <2> QED BY <1>1, <1>2, <1>3, <1>4, <1>5, <1>6, <2>1, <2>2, PassMoves, Zenon DEF DeploymentInv, Quiet
<1>9. CASE Follow(<<"artifact">>)
  <2>1. /\ DOMAIN pass' = PassFields /\ pass'.obj = pass.obj /\ pass'.want = pass.want
        /\ pass'.plan = <<"artifact">>
    BY <1>2, <1>9, Zenon DEF PassFields, Follow
  <2>2. Now' = "artifact"
    BY <1>6, <2>1, Zenon DEF Now, First
  <2>3. Stage'
    BY <1>2, <2>1, <2>2 DEF Stage, GateNow
  <2>4. Past(pass.obj)' /\ Truthful(pass.want)'
    BY <1>2, <1>3, <2>1, Zenon DEF Past, Truthful
  <2> QED BY <1>4, <1>5, <2>1, <2>3, <2>4, Zenon DEF DeploymentInv, PassOK
<1> QED BY <1>7, <1>8, <1>9, Zenon DEF reconcileService

(* ReadArtifact *)
LEMMA ReadArtifactStep == ASSUME DeploymentInv, ReadArtifact PROVE DeploymentInv'
<1>1. World /\ PassOK /\ At("artifact") /\ UNCHANGED <<scenario, api, world, cluster, view>>
  BY Zenon DEF DeploymentInv, ReadArtifact
<1>2. DOMAIN pass = PassFields /\ pass.obj.fin /\ Past(pass.obj) /\ Now = "artifact"
  BY <1>1, PassHas DEF Stage
<1>3. World' /\ UNCHANGED <<api, loads>>
  BY <1>1, WorldStays, Zenon DEF cluster
<1>4. PICK plan \in {<<"unavailable">>, <<"drain", "write">>,
                     <<"config", "resume", "workload", "listConfigs", "dropConfig", "observe">>} :
        \E x, fp, u :
          pass' = [pass EXCEPT !.plan = plan, !.art = x, !.fp = fp,
                               !.want = failStatus(pass.obj.status, pass.obj.gen, u)]
  BY Zenon DEF ReadArtifact
<1>5. PICK x, fp, u :
          pass' = [pass EXCEPT !.plan = plan, !.art = x, !.fp = fp,
                               !.want = failStatus(pass.obj.status, pass.obj.gen, u)]
  BY <1>4, Zenon
<1> DEFINE w == failStatus(pass.obj.status, pass.obj.gen, u)
<1>6. Truthful(w)
  BY <1>2, StatusesTruthful, Zenon DEF Past
<1> HIDE DEF w
<1>7. DOMAIN pass' = PassFields /\ pass'.obj = pass.obj /\ pass'.want = w /\ pass'.plan = plan
  BY <1>2, <1>5, Zenon DEF PassFields, w
<1>8. /\ <<"unavailable">> \in Plans /\ <<"drain", "write">> \in Plans
      /\ <<"config", "resume", "workload", "listConfigs", "dropConfig", "observe">> \in Plans
  BY Zenon DEF Plans
<1>9. /\ First(<<"unavailable">>) = "unavailable" /\ First(<<"drain", "write">>) = "drain"
      /\ First(<<"config", "resume", "workload", "listConfigs", "dropConfig", "observe">>) = "config"
  BY DEF First
<1>10. CASE First(plan) # "config"
  <2>1. plan \in Plans /\ First(plan) \in Quiet
    BY <1>4, <1>8, <1>9, <1>10, Zenon DEF Quiet
  <2> QED BY <1>1, <1>2, <1>3, <1>6, <1>7, <2>1, PassMoves, Zenon DEF DeploymentInv
<1>11. CASE First(plan) = "config"
  <2>1. Now' = "config" /\ plan \in Plans
    BY <1>4, <1>7, <1>8, <1>11, Zenon DEF Now, First
  <2>2. Stage'
    BY <1>2, <1>7, <2>1 DEF Stage, GateNow
  <2>3. Past(pass.obj)' /\ Truthful(pass.want)'
    BY <1>2, <1>3, <1>6, <1>7, Zenon DEF Past, Truthful
  <2> QED BY <1>3, <1>7, <2>1, <2>2, <2>3, Zenon DEF DeploymentInv, PassOK
<1> QED BY <1>10, <1>11, Zenon

(* reconcileRuntimeConfig *)
LEMMA ConfigStep == ASSUME DeploymentInv, reconcileRuntimeConfig PROVE DeploymentInv'
<1>1. World /\ PassOK /\ At("config")
      /\ UNCHANGED <<scenario, api, world, foreign, workload, rs, pods, endpoints, loads, view>>
  BY Zenon DEF DeploymentInv, reconcileRuntimeConfig
<1>2. /\ DOMAIN pass = PassFields /\ pass.obj.fin /\ Past(pass.obj) /\ Now = "config"
      /\ Truthful(pass.want) /\ Rest \in Plans /\ First(Rest) = "resume"
  BY <1>1, PassHas DEF Stage, Flow, Rest
<1>3. CASE Fail(SeenUid, <<"drain", "write">>) /\ configs' = configs
  <2>1. World'
    BY <1>1, <1>3, WorldStays, Zenon
  <2> QED BY <1>1, <1>2, <1>3, <2>1, PassFails, Zenon DEF DeploymentInv
<1>4. CASE Follow(Rest) /\ configs' = configs \cup {pass.fp}
  <2>1. World'
    <3>1. scenario \in Scenarios /\ Records /\ Storage /\ Pods /\ Generation /\ Gates
          /\ DOMAIN view = Lagging
      BY <1>1, Zenon DEF World
    <3>2. Lagging' = Lagging /\ UNCHANGED <<art, removal, removed>>
      BY <1>1, Zenon DEF Lagging, world
    <3>3. Gates'
      BY <1>1, <1>4, <3>1, <3>2, SameShown, Zenon DEF Gates, Scheduled, Kept, UidOf, Ids
    <3> QED
      BY <1>1, <3>1, <3>2, <3>3, RecordsStay, StorageStays, PodsStay, GenerationStays, Zenon DEF World
  <2>2. /\ DOMAIN pass' = PassFields /\ pass'.obj = pass.obj /\ pass'.want = pass.want
        /\ pass'.plan = Rest /\ pass'.fp = pass.fp
    BY <1>2, <1>4, Zenon DEF PassFields, Follow
  <2>3. Now' = "resume"
    BY <1>2, <2>2, Zenon DEF Now, First
  <2>4. Stage'
    BY <1>2, <1>4, <2>2, <2>3 DEF Stage, GateNow
  <2>5. Past(pass.obj)' /\ Truthful(pass.want)'
    BY <1>1, <1>2, <2>2, Zenon DEF Past, Truthful
  <2> QED BY <1>2, <2>1, <2>2, <2>4, <2>5, Zenon DEF DeploymentInv, PassOK
<1> QED BY <1>3, <1>4, Zenon DEF reconcileRuntimeConfig

(* The pass has listed gated Pods and begins to check. *)
LEMMA GateBegins ==
  ASSUME PassOK, Now # "idle", DOMAIN pass' = PassFields, pass'.obj = pass.obj, pass'.want = pass.want,
         pass'.plan = Gating, pass'.fp = pass.fp, pass.obj.fin, Listed',
         UNCHANGED <<api, loads>>, api'.phase = "gone" \/ pass.fp \in configs'
  PROVE  PassOK'
<1>1. Gating \in Plans
  BY Zenon DEF Plans
<1>2. First(Gating) = "gateDeployment"
  BY DEF First, Gating
<1>3. Now' = "gateDeployment"
  BY <1>2, Zenon DEF Now, First
<1>4. Stage'
  BY <1>3 DEF Stage, GateNow
<1>5. Past(pass.obj)' /\ Truthful(pass.want)'
  BY Zenon DEF PassOK, Past, Truthful
<1> QED BY <1>1, <1>4, <1>5, Zenon DEF PassOK

(* After the gates comes the workload. *)
LEMMA AfterGateIsPlan == AfterGate \in Plans /\ First(AfterGate) \in Quiet
<1>1. First(AfterGate) = "workload"
  BY DEF First, AfterGate
<1> QED BY <1>1, Zenon DEF Plans, Quiet

(* resumeWorkloadReplacement *)
LEMMA ResumeStep == ASSUME DeploymentInv, resumeWorkloadReplacement PROVE DeploymentInv'
<1>1. World /\ PassOK /\ At("resume") /\ UNCHANGED <<scenario, api, world, cluster, view>>
  BY Zenon DEF DeploymentInv, resumeWorkloadReplacement
<1>2. /\ DOMAIN pass = PassFields /\ pass.obj.fin /\ Past(pass.obj) /\ Now = "resume"
      /\ Truthful(pass.want) /\ Rest = AfterGate /\ (api.phase = "gone" \/ pass.fp \in configs)
  BY <1>1, PassHas DEF Stage, Flow, Rest
<1>3. World' /\ UNCHANGED <<api, loads, pods, configs, workload>>
  BY <1>1, WorldStays, Zenon DEF cluster
<1> DEFINE w == Seen("workloads")
           gated == IF w = NoWorkload \/ Taken("workload", None) THEN {}
                    ELSE IF Template(w) # pass.fp THEN {}
                    ELSE {p \in OwnedPods(w, pass.fp) : p.gated}
<1>4. pass' = [pass EXCEPT !.todo = gated, !.plan = IF gated = {} THEN Rest ELSE Gating]
  BY Zenon DEF resumeWorkloadReplacement
<1>5. \A q \in gated : q \in Seen("pods") /\ q.fp = pass.fp
  BY Zenon DEF OwnedPods
<1>6. w = NoWorkload => gated = {}
  OBVIOUS
<1> HIDE DEF gated
<1>7. /\ DOMAIN pass' = PassFields /\ pass'.obj = pass.obj /\ pass'.want = pass.want
      /\ pass'.plan = (IF gated = {} THEN Rest ELSE Gating) /\ pass'.fp = pass.fp
      /\ pass'.todo = gated
  BY <1>2, <1>4, Zenon DEF PassFields
<1>8. CASE gated = {}
  BY <1>1, <1>2, <1>3, <1>7, <1>8, AfterGateIsPlan, PassMoves, Zenon DEF DeploymentInv
<1>9. CASE gated # {}
  <2>1. pass'.plan = Gating
    BY <1>7, <1>9, Zenon
  <2>2. SameFingerprint(Seen("pods"))
    BY <1>1, Zenon DEF World, Pods
  <2>3. Seen("pods")' = Seen("pods") /\ Seen("workloads")' = Seen("workloads")
    BY <1>1, <1>3, SameShown, Zenon
  <2>4. Listed'
    BY <1>3, <1>7, <1>9, <1>5, <1>6, <2>2, <2>3, Zenon DEF Listed, SameFingerprint, Ids
  <2> QED BY <1>1, <1>2, <1>3, <1>7, <2>1, <2>4, GateBegins, Zenon DEF DeploymentInv
<1> QED BY <1>8, <1>9, Zenon

(* A refusal goes on with the workload. *)
LEMMA RefuseStep ==
  ASSUME PassOK, Now # "idle", Refuse(AfterGate), UNCHANGED <<api, loads>>
  PROVE  PassOK'
<1>1. DOMAIN pass = PassFields /\ Truthful(pass.want)
  BY Zenon DEF PassOK
<1>2. /\ DOMAIN pass' = PassFields /\ pass'.obj = pass.obj /\ pass'.want = pass.want
      /\ pass'.plan = AfterGate
  BY <1>1, Zenon DEF PassFields, Refuse
<1> QED BY <1>1, <1>2, AfterGateIsPlan, PassMoves, Zenon

(* What was listed stays listed while the pass reads. *)
LEMMA ListedStays ==
  ASSUME Listed, UNCHANGED <<scenario, api, pods, workload, view>>, pass'.todo = pass.todo,
         pass'.fp = pass.fp
  PROVE  Listed'
<1>1. Seen("pods")' = Seen("pods") /\ Seen("workloads")' = Seen("workloads")
  BY SameShown, Zenon
<1> QED BY <1>1, Zenon DEF Listed, SameFingerprint, Ids

(* CheckDeployment: the deployment is live, so it cannot go before this    *)
(* pass ends.                                                              *)
LEMMA CheckDeploymentStep == ASSUME DeploymentInv, CheckDeployment PROVE DeploymentInv'
<1>1. World /\ PassOK /\ At("gateDeployment") /\ UNCHANGED <<scenario, api, world, cluster, view>>
  BY Zenon DEF DeploymentInv, CheckDeployment
<1>2. /\ DOMAIN pass = PassFields /\ pass.obj.fin /\ Past(pass.obj) /\ Now = "gateDeployment"
      /\ Truthful(pass.want) /\ Listed /\ (api.phase = "gone" \/ pass.fp \in configs)
  BY <1>1, PassHas DEF Stage, GateNow
<1>3. Rest \in Plans /\ First(Rest) = "gateArtifact" /\ Tail(Tail(Rest)) = AfterGate
  BY <1>1, PassHas, Zenon DEF Flow, Rest
<1>4. World' /\ UNCHANGED <<api, loads, pods, configs, workload>>
  BY <1>1, WorldStays, Zenon DEF cluster
<1>5. CASE Refuse(Tail(Tail(Rest)))
  BY <1>1, <1>2, <1>3, <1>4, <1>5, RefuseStep, Zenon DEF DeploymentInv
<1>6. CASE api.phase = "live" /\ Follow(Rest)
  <2>1. /\ DOMAIN pass' = PassFields /\ pass'.obj = pass.obj /\ pass'.want = pass.want
        /\ pass'.plan = Rest /\ pass'.fp = pass.fp /\ pass'.todo = pass.todo
    BY <1>2, <1>6, Zenon DEF PassFields, Follow
  <2>2. Now' = "gateArtifact"
    BY <1>3, <2>1, Zenon DEF Now, First
  <2>3. Listed'
    BY <1>1, <1>2, <1>4, <2>1, ListedStays, Zenon
  <2>4. Stage'
    BY <1>2, <1>4, <1>6, <2>1, <2>2, <2>3 DEF Stage, GateNow
  <2>5. Past(pass.obj)' /\ Truthful(pass.want)'
    BY <1>2, <1>4, <2>1, Zenon DEF Past, Truthful
  <2> QED BY <1>3, <1>4, <2>1, <2>4, <2>5, Zenon DEF DeploymentInv, PassOK
<1> QED BY <1>5, <1>6, Zenon DEF CheckDeployment

(* CheckArtifact: the artifact is there and is not being removed. *)
LEMMA CheckArtifactStep == ASSUME DeploymentInv, CheckArtifact PROVE DeploymentInv'
<1>1. World /\ PassOK /\ At("gateArtifact") /\ UNCHANGED <<scenario, api, world, cluster, view>>
  BY Zenon DEF DeploymentInv, CheckArtifact
<1>2. /\ DOMAIN pass = PassFields /\ pass.obj.fin /\ Past(pass.obj) /\ Now = "gateArtifact"
      /\ Truthful(pass.want) /\ Listed /\ (api.phase = "gone" \/ pass.fp \in configs)
      /\ api.phase # "gone"
  BY <1>1, PassHas DEF Stage, GateNow
<1>3. Rest \in Plans /\ First(Rest) = "lift" /\ Tail(Rest) = AfterGate
  BY <1>1, PassHas, Zenon DEF Flow, Rest
<1>4. World' /\ UNCHANGED <<api, loads, pods, configs, workload, art, removal>>
  BY <1>1, WorldStays, Zenon DEF cluster, world
<1>5. CASE Refuse(Tail(Rest))
  BY <1>1, <1>2, <1>3, <1>4, <1>5, RefuseStep, Zenon DEF DeploymentInv
<1>6. CASE ArtifactAllows /\ Follow(Rest)
  <2>1. /\ DOMAIN pass' = PassFields /\ pass'.obj = pass.obj /\ pass'.want = pass.want
        /\ pass'.plan = Rest /\ pass'.fp = pass.fp /\ pass'.todo = pass.todo
    BY <1>2, <1>6, Zenon DEF PassFields, Follow
  <2>2. Now' = "lift"
    BY <1>3, <2>1, Zenon DEF Now, First
  <2>3. Listed'
    BY <1>1, <1>2, <1>4, <2>1, ListedStays, Zenon
  <2>4. Kept(pass.fp.uid)
    <3> DEFINE a == ModelOf[pass.obj.spec]
    <3>1. a \in Artifacts
      BY <1>2, DeploymentAssumption, Zenon DEF Past
    <3>2. /\ artifactServingReady(art[a]) /\ desiredRuntime(pass.obj.spec, a, art[a]) = pass.fp
      BY <1>6, Zenon DEF ArtifactAllows
    <3>3. removal[a] # "idle" => art[a].deleting
      BY <1>1, <3>1, Zenon DEF World, Storage, ArtifactOK
    <3> HIDE DEF a
    <3>4. art[a].uid # 0 /\ ~art[a].deleting /\ art[a].ready = "ready"
      BY <3>2, Zenon DEF artifactServingReady
    <3>5. pass.fp.uid = UidOf(a, art[a])
      BY <3>2 DEF desiredRuntime
    <3> QED BY <3>1, <3>3, <3>4, <3>5 DEF Kept
  <2>5. Kept(pass.fp.uid)'
    BY <1>4, <2>1, <2>4, Zenon DEF Kept, UidOf
  <2>6. Stage'
    BY <1>2, <1>4, <2>1, <2>2, <2>3, <2>5 DEF Stage, GateNow
  <2>7. Past(pass.obj)' /\ Truthful(pass.want)'
    BY <1>2, <1>4, <2>1, Zenon DEF Past, Truthful
  <2> QED BY <1>3, <1>4, <2>1, <2>6, <2>7, Zenon DEF DeploymentInv, PassOK
<1> QED BY <1>5, <1>6, Zenon DEF CheckArtifact

(* LiftGate: a listed Pod that still exists has all a scheduled Pod needs. *)
LEMMA LiftGateStep == ASSUME DeploymentInv, LiftGate PROVE DeploymentInv'
<1>1. /\ World /\ PassOK /\ At("lift")
      /\ UNCHANGED <<scenario, api, world, configs, foreign, workload, rs, endpoints, loads, view>>
  BY Zenon DEF DeploymentInv, LiftGate
<1>2. /\ DOMAIN pass = PassFields /\ pass.obj.fin /\ Past(pass.obj) /\ Now = "lift"
      /\ Truthful(pass.want) /\ Listed /\ (api.phase = "gone" \/ pass.fp \in configs)
      /\ api.phase # "gone" /\ (\A q \in pass.todo : q.id \in Ids(pods) => Kept(pass.fp.uid))
  BY <1>1, PassHas DEF Stage, GateNow
<1>3. Rest = AfterGate
  BY <1>1, PassHas, Zenon DEF Flow, Rest
<1>4. PICK p \in pass.todo :
        IF p \in pods
        THEN /\ pods' = (pods \ {p}) \cup {[p EXCEPT !.gated = FALSE]}
             /\ pass' = [pass EXCEPT !.todo = @ \ {p},
                           !.plan = IF pass.todo = {p} THEN Rest ELSE Gating]
        ELSE UNCHANGED pods /\ Done
  BY Zenon DEF LiftGate
<1>5. CASE p \notin pods
  <2>1. World'
    BY <1>1, <1>4, <1>5, WorldStays, Zenon
  <2> QED BY <1>4, <1>5, <2>1, PassEnds, Zenon DEF DeploymentInv
<1>6. CASE p \in pods
  <2> DEFINE r == [p EXCEPT !.gated = FALSE]
  <2>1. /\ pods' = (pods \ {p}) \cup {r}
        /\ pass' = [pass EXCEPT !.todo = pass.todo \ {p},
                      !.plan = IF pass.todo = {p} THEN Rest ELSE Gating]
    BY <1>2, <1>4, <1>6 DEF PassFields
  <2>2. Pods /\ Generation /\ Gates /\ Records /\ Storage /\ scenario \in Scenarios /\ DOMAIN view = Lagging
    BY <1>1, Zenon DEF World
  <2>3. PodOK(p) /\ SameFingerprint(Seen("pods"))
    BY <1>6, <2>2, Zenon DEF Pods
  <2>4. /\ DOMAIN r = PodFields /\ r.id = p.id /\ r.fp = p.fp /\ r.gated = FALSE /\ r.state = p.state
        /\ r.leaving = p.leaving
    BY <2>3, Zenon DEF PodOK, PodFields
  <2> HIDE DEF r
  <2>5. Ids(pods') = Ids(pods)
    BY <1>6, <2>1, <2>4, Zenon DEF Ids
  <2>6. \A x \in pods' : \E y \in pods : x.id = y.id /\ x.fp = y.fp /\ (x = r \/ x = y)
    BY <1>6, <2>1, <2>4, Zenon
  <2>7. p.id \in Ids(pods) /\ p.id \in Ids(Seen("pods")) /\ Seen("workloads") # NoWorkload /\ p.fp = pass.fp
        /\ Kept(pass.fp.uid) /\ pass.fp \in configs /\ api.fin
    BY <1>2, <1>6, Zenon DEF Listed, Ids, Past
  <2>8. Lagging' = Lagging /\ UNCHANGED <<art, removal, removed>>
    BY <1>1, Zenon DEF Lagging, world
  <2>9. Seen("workloads")' = Seen("workloads")
        /\ (Seen("pods")' = Seen("pods") \/ (Seen("pods") = pods /\ Seen("pods")' = pods'))
    BY <1>1, Shown, ShownNext, Zenon
  <2>10. Ids(Seen("pods"))' = Ids(Seen("pods"))
    BY <2>5, <2>9, Zenon DEF Ids
  <2>11. Pods'
    <3>1. PodOK(r)
      BY <2>3, <2>4, Zenon DEF PodOK
    <3>2. \A x \in pods' : PodOK(x)'
      BY <1>1, <2>2, <2>1, <3>1, Zenon DEF Pods, PodOK
    <3>3. SameFingerprint(Seen("pods"))'
      <4> SUFFICES ASSUME NEW x \in pods', NEW q \in Seen("pods")', q.id = x.id PROVE q.fp = x.fp
        BY Zenon DEF SameFingerprint
      <4>1. PICK y \in pods : x.id = y.id /\ x.fp = y.fp
        BY <2>6, Zenon
      <4>2. CASE Seen("pods")' = Seen("pods")
        BY <2>3, <4>1, <4>2, Zenon DEF SameFingerprint
      <4>3. CASE Seen("pods")' = pods'
        <5>1. PICK z \in pods : q.id = z.id /\ q.fp = z.fp
          BY <2>6, <4>3, Zenon
        <5> QED BY <2>2, <4>1, <5>1, Zenon DEF Generation
      <4> QED BY <2>9, <4>2, <4>3, Zenon
    <3> QED BY <3>2, <3>3, Zenon DEF Pods
  <2>12. Generation'
    BY <1>1, <2>2, <2>6, <1>6, <1>2 DEF Generation, Taken, WorkloadOK
  <2>13. Scheduled(p)
    BY <1>2, <2>7, Zenon DEF Scheduled
  <2>14. Gates'
    <3> SUFFICES ASSUME NEW x \in pods', ~x.gated PROVE Scheduled(x)'
      BY Zenon DEF Gates
    <3>1. PICK y \in pods : x.id = y.id /\ x.fp = y.fp /\ x.leaving = y.leaving /\ Scheduled(y)
      BY <1>6, <2>1, <2>2, <2>4, <2>13, Zenon DEF Gates
    <3> QED
      BY <1>1, <2>8, <2>9, <2>10, <3>1, Zenon DEF Scheduled, Kept, UidOf
  <2>15. World'
    BY <1>1, <2>2, <2>8, <2>11, <2>12, <2>14, RecordsStay, StorageStays, Zenon DEF World
  <2>16. /\ DOMAIN pass' = PassFields /\ pass'.obj = pass.obj /\ pass'.want = pass.want
         /\ pass'.plan = (IF pass.todo = {p} THEN Rest ELSE Gating) /\ pass'.fp = pass.fp
         /\ pass'.todo = pass.todo \ {p}
    BY <1>2, <2>1, Zenon DEF PassFields
  <2>17. CASE pass.todo = {p}
    BY <1>1, <1>2, <1>3, <2>15, <2>16, <2>17, AfterGateIsPlan, PassMoves, Zenon DEF DeploymentInv
  <2>18. CASE pass.todo # {p}
    <3>1. pass'.plan = Gating
      BY <2>16, <2>18, Zenon
    <3>2. SameFingerprint(pass.todo)'
      <4> SUFFICES ASSUME NEW x \in pods', NEW q \in pass'.todo, q.id = x.id PROVE q.fp = x.fp
        BY Zenon DEF SameFingerprint
      <4>1. PICK y \in pods : x.id = y.id /\ x.fp = y.fp
        BY <2>6, Zenon
      <4>2. q \in pass.todo
        BY <2>16, Zenon
      <4>3. SameFingerprint(pass.todo)
        BY <1>2, Zenon DEF Listed
      <4> QED BY <4>1, <4>2, <4>3, Zenon DEF SameFingerprint
    <3>3. \A q \in pass'.todo : q.fp = pass'.fp
      BY <1>2, <2>16, Zenon DEF Listed
    <3>4. \A q \in pass'.todo : q.id \in Ids(pods') => q.id \in Ids(Seen("pods"))'
      BY <1>2, <2>5, <2>10, <2>16, Zenon DEF Listed
    <3>5. Listed'
      BY <2>7, <2>9, <3>2, <3>3, <3>4, Zenon DEF Listed, Ids
    <3> QED BY <1>1, <1>2, <2>7, <2>15, <2>16, <3>1, <3>5, GateBegins, Zenon DEF DeploymentInv
  <2> QED BY <2>17, <2>18, Zenon
<1> QED BY <1>5, <1>6, Zenon

-----------------------------------------------------------------------------
(* The workload and the configs.                                           *)

(* A workload is written that is one of ours. *)
LEMMA WorkloadWritten ==
  ASSUME World, UNCHANGED <<scenario, api, world, configs, foreign, rs, pods, loads, view>>,
         ~Taken("workload", None), WorkloadOK(workload')
  PROVE  World'
<1>1. /\ scenario \in Scenarios /\ Records /\ Storage /\ Pods /\ Generation /\ Gates
      /\ DOMAIN view = Lagging /\ Lagging' = Lagging /\ UNCHANGED <<art, removal, removed>>
  BY Zenon DEF World, Lagging, world
<1>2. workload' # NoWorkload
  <2>1. NoWorkload.id = 0
    BY DEF NoWorkload
  <2> QED BY <2>1, Zenon DEF WorkloadOK
<1>3. Generation'
  BY <1>1, <1>2, Zenon DEF Generation, Taken, WorkloadOK
<1>4. Seen("workloads") # NoWorkload => Seen("workloads")' # NoWorkload
  BY <1>2, Shown, ShownNext, Zenon
<1>5. Seen("pods")' = Seen("pods")
  BY SameShown, Zenon
<1>6. Gates'
  BY <1>1, <1>4, <1>5, Zenon DEF Gates, Scheduled, Kept, UidOf, Ids
<1> QED
  BY <1>1, <1>3, <1>6, RecordsStay, StorageStays, PodsStay, Zenon DEF World

(* Its writes: a new workload, a new template, a pause, a deletion. *)
LEMMA WorkloadWrites ==
  /\ \A id, fp : id # 0 => WorkloadOK(Workload(id, fp))
  /\ \A w : WorkloadOK(w) => /\ WorkloadOK(Updated(w))
                             /\ WorkloadOK([w EXCEPT !.deleting = TRUE])
                             /\ WorkloadOK([w EXCEPT !.spec.paused = TRUE])
<1>1. ASSUME NEW fp PROVE /\ DOMAIN newServingDeployment(fp) = TemplateFields
                          /\ newServingDeployment(fp).strategy = "Recreate"
                          /\ newServingDeployment(fp).gated = TRUE
  BY Zenon DEF newServingDeployment, TemplateFields
<1>2. ASSUME NEW id, NEW fp, id # 0 PROVE WorkloadOK(Workload(id, fp))
  <2> DEFINE w == Workload(id, fp)
  <2>1. DOMAIN w = WorkloadFields /\ w.id = id /\ w.spec = newServingDeployment(fp)
    BY Zenon DEF Workload, WorkloadFields
  <2> HIDE DEF w
  <2> QED BY <1>1, <1>2, <2>1, Zenon DEF WorkloadOK, w
<1>3. ASSUME NEW w, WorkloadOK(w) PROVE WorkloadOK(Updated(w))
  <2> DEFINE u == Updated(w)
  <2>1. DOMAIN u = WorkloadFields /\ u.id = w.id /\ u.spec = newServingDeployment(pass.fp)
    BY <1>3, Zenon DEF Updated, WorkloadFields, WorkloadOK
  <2> HIDE DEF u
  <2> QED BY <1>1, <1>3, <2>1, Zenon DEF WorkloadOK, u
<1>4. ASSUME NEW w, WorkloadOK(w) PROVE WorkloadOK([w EXCEPT !.deleting = TRUE])
  <2> DEFINE u == [w EXCEPT !.deleting = TRUE]
  <2>1. DOMAIN u = WorkloadFields /\ u.id = w.id /\ u.spec = w.spec
    BY <1>4, Zenon DEF WorkloadFields, WorkloadOK
  <2> HIDE DEF u
  <2>2. WorkloadOK(u)
    BY <1>4, <2>1, Zenon DEF WorkloadOK
  <2> QED BY <2>2, Zenon DEF u
<1>5. ASSUME NEW w, WorkloadOK(w) PROVE WorkloadOK([w EXCEPT !.spec.paused = TRUE])
  <2> DEFINE t == [w.spec EXCEPT !.paused = TRUE]
             u == [w EXCEPT !.spec = t]
  <2>1. DOMAIN t = TemplateFields /\ t.strategy = "Recreate" /\ t.gated = TRUE
    BY <1>5, Zenon DEF TemplateFields, WorkloadOK
  <2> HIDE DEF t
  <2>2. DOMAIN u = WorkloadFields /\ u.id = w.id /\ u.spec = t
    BY <1>5, Zenon DEF WorkloadFields, WorkloadOK
  <2> HIDE DEF u
  <2>3. WorkloadOK(u)
    BY <1>5, <2>1, <2>2, Zenon DEF WorkloadOK
  <2>4. u = [w EXCEPT !.spec.paused = TRUE]
    BY DEF u, t
  <2> QED BY <2>3, <2>4, Zenon
<1> QED BY <1>2, <1>3, <1>4, <1>5, Zenon

(* reconcileWorkload *)
LEMMA WorkloadStep == ASSUME DeploymentInv, reconcileWorkload PROVE DeploymentInv'
<1>1. /\ World /\ PassOK /\ At("workload")
      /\ UNCHANGED <<scenario, api, world, configs, foreign, rs, pods, loads, view>>
  BY Zenon DEF DeploymentInv, reconcileWorkload
<1>2. /\ DOMAIN pass = PassFields /\ Truthful(pass.want) /\ Now = "workload"
      /\ Rest \in Plans /\ First(Rest) \in Quiet
  BY <1>1, PassHas DEF Flow, Rest, Quiet
<1>3. Generation
  BY <1>1, Zenon DEF World
<1> DEFINE Returns == \E x : pass' = [pass EXCEPT !.plan = Rest, !.wl = x]
<1>4. ASSUME Returns PROVE PassOK'
  <2>1. PICK x : pass' = [pass EXCEPT !.plan = Rest, !.wl = x]
    BY <1>4, Zenon
  <2>2. DOMAIN pass' = PassFields /\ pass'.obj = pass.obj /\ pass'.want = pass.want /\ pass'.plan = Rest
    BY <1>2, <2>1, Zenon DEF PassFields
  <2> QED BY <1>1, <1>2, <2>2, PassMoves, Zenon
<1>5. \/ UNCHANGED workload /\ Fail(SeenUid, <<"write">>)
      \/ UNCHANGED workload /\ Done
      \/ UNCHANGED workload /\ Returns
      \/ /\ ~Taken("workload", None) /\ Returns
         /\ \E id \in FreshWorkloads : workload' = Workload(id, pass.fp)
      \/ /\ ~Taken("workload", None) /\ Returns
         /\ workload # NoWorkload /\ workload' = Updated(workload)
  BY Zenon DEF reconcileWorkload
<1> HIDE DEF Returns
<1>6. UNCHANGED workload => World'
  BY <1>1, WorldStays, Zenon
<1>7. ASSUME UNCHANGED workload, Fail(SeenUid, <<"write">>) PROVE DeploymentInv'
  BY <1>1, <1>2, <1>6, <1>7, PassFails, Zenon DEF DeploymentInv
<1>8. ASSUME UNCHANGED workload, Done PROVE DeploymentInv'
  BY <1>6, <1>8, PassEnds, Zenon DEF DeploymentInv
<1>9. ASSUME ~Taken("workload", None), Returns, NEW id \in FreshWorkloads,
             workload' = Workload(id, pass.fp)
      PROVE  DeploymentInv'
  <2>1. id # 0
    BY DEF FreshWorkloads, Fresh
  <2> QED BY <1>1, <1>4, <1>9, <2>1, WorkloadWrites, WorkloadWritten, Zenon DEF DeploymentInv
<1>10. ASSUME ~Taken("workload", None), Returns, workload # NoWorkload, workload' = Updated(workload)
       PROVE  DeploymentInv'
  <2>1. WorkloadOK(workload')
    BY <1>3, <1>10, WorkloadWrites, Zenon DEF Generation
  <2> QED BY <1>1, <1>4, <1>10, <2>1, WorkloadWritten, Zenon DEF DeploymentInv
<1> QED BY <1>4, <1>5, <1>6, <1>7, <1>8, <1>9, <1>10, Zenon DEF DeploymentInv

(* deleteForeground leaves the workload or marks it. *)
LEMMA ForegroundWrites ==
  ASSUME World, UNCHANGED <<scenario, api, world, configs, foreign, rs, pods, loads, view>>, NEW w,
         workload' = IF Foreground(w) = "deleted" THEN [workload EXCEPT !.deleting = TRUE] ELSE workload
  PROVE  World'
<1>1. CASE Foreground(w) = "deleted"
  <2>1. ~Taken("workload", None) /\ workload # NoWorkload
    BY <1>1 DEF Foreground
  <2>2. WorkloadOK(workload) /\ workload' = [workload EXCEPT !.deleting = TRUE]
    BY <1>1, <2>1, Zenon DEF World, Generation
  <2>3. WorkloadOK(workload')
    BY <2>2, WorkloadWrites, Zenon
  <2> QED BY <2>1, <2>3, WorkloadWritten, Zenon
<1>2. CASE Foreground(w) # "deleted"
  BY <1>2, WorldStays, Zenon
<1> QED BY <1>1, <1>2, Zenon

(* A pass that deletes the workload on its way. *)
LEMMA ForegroundStep ==
  ASSUME DeploymentInv, NEW step \in {"drain", "delete"}, At(step), NEW w, DeleteForeground(w)
  PROVE  DeploymentInv'
<1>1. /\ World /\ PassOK
      /\ UNCHANGED <<scenario, api, world, configs, foreign, rs, pods, loads, view>>
      /\ workload' = IF Foreground(w) = "deleted" THEN [workload EXCEPT !.deleting = TRUE] ELSE workload
      /\ Done \/ Follow(Rest)
  BY Zenon DEF DeploymentInv, DeleteForeground
<1>2. World'
  BY <1>1, ForegroundWrites, Zenon
<1>3. step # "idle"
  OBVIOUS
<1>4. Now # "idle" /\ Rest \in Plans /\ First(Rest) \in Quiet
  BY <1>1, <1>3, PassHas DEF Flow, Rest, Quiet
<1> QED BY <1>1, <1>2, <1>4, PassEnds, PassFollows, Zenon DEF DeploymentInv

(* A pass that arrives at a step with what the step relies on. *)
LEMMA PassArrives ==
  ASSUME PassOK, Now # "idle", DOMAIN pass' = PassFields, pass'.obj = pass.obj,
         pass'.plan \in Plans, Stage', NEW w, Truthful(w), pass'.want = w, UNCHANGED <<api, loads>>
  PROVE  PassOK'
<1>1. Past(pass.obj)' /\ Truthful(pass.want)'
  BY Zenon DEF PassOK, Past, Truthful
<1> QED BY <1>1, Zenon DEF PassOK

(* ListConfigs: the config of a scheduled Pod is not listed, as the        *)
(* informer shows the Pod.                                                 *)
LEMMA ListConfigsStep == ASSUME DeploymentInv, ListConfigs PROVE DeploymentInv'
<1>1. World /\ PassOK /\ At("listConfigs") /\ UNCHANGED <<scenario, api, world, cluster, view>>
  BY Zenon DEF DeploymentInv, ListConfigs
<1>2. /\ DOMAIN pass = PassFields /\ Truthful(pass.want) /\ Now = "listConfigs"
      /\ Rest \in Plans /\ First(Rest) = "dropConfig"
      /\ Tail(Rest) \in Plans /\ First(Tail(Rest)) \in Quiet
  BY <1>1, PassHas DEF Flow, Rest, Quiet
<1>3. World' /\ UNCHANGED <<api, loads, pods, configs, workload>>
  BY <1>1, WorldStays, Zenon DEF cluster
<1> DEFINE obsolete == cleanupObsoleteRuntimeConfigs(pass.fp)
<1>4. pass' = [pass EXCEPT !.todo = obsolete, !.plan = IF obsolete = {} THEN Tail(Rest) ELSE Rest]
  BY Zenon DEF ListConfigs
<1>5. ASSUME NEW p \in pods, ~p.gated PROVE p.fp \notin obsolete
  <2>1. Scheduled(p) /\ SameFingerprint(Seen("pods"))
    BY <1>1, <1>5, Zenon DEF World, Gates, Pods
  <2>2. PICK q \in Seen("pods") : q.id = p.id
    BY <2>1, Zenon DEF Scheduled, Ids
  <2>3. q.fp = p.fp
    BY <2>1, <2>2, Zenon DEF SameFingerprint
  <2> QED BY <2>2, <2>3, Zenon DEF cleanupObsoleteRuntimeConfigs
<1> HIDE DEF obsolete
<1>6. /\ DOMAIN pass' = PassFields /\ pass'.obj = pass.obj /\ pass'.want = pass.want
      /\ pass'.plan = (IF obsolete = {} THEN Tail(Rest) ELSE Rest) /\ pass'.todo = obsolete
  BY <1>2, <1>4, Zenon DEF PassFields
<1>7. CASE obsolete = {}
  BY <1>1, <1>2, <1>3, <1>6, <1>7, PassMoves, Zenon DEF DeploymentInv
<1>8. CASE obsolete # {}
  <2>1. Now' = "dropConfig" /\ pass'.plan = Rest
    BY <1>2, <1>6, <1>8, Zenon DEF Now, First
  <2>2. Stage'
    BY <1>3, <1>5, <1>6, <2>1 DEF Stage, GateNow
  <2> QED BY <1>1, <1>2, <1>3, <1>6, <2>1, <2>2, PassArrives, Zenon DEF DeploymentInv
<1> QED BY <1>7, <1>8, Zenon

(* DropConfig *)
LEMMA DropConfigStep == ASSUME DeploymentInv, DropConfig PROVE DeploymentInv'
<1>1. /\ World /\ PassOK /\ At("dropConfig")
      /\ UNCHANGED <<scenario, api, world, foreign, workload, rs, pods, endpoints, loads, view>>
  BY Zenon DEF DeploymentInv, DropConfig
<1>2. /\ DOMAIN pass = PassFields /\ Truthful(pass.want) /\ Now = "dropConfig" /\ pass.plan \in Plans
      /\ Rest \in Plans /\ First(Rest) \in Quiet
  BY <1>1, PassHas DEF Flow, Rest, Quiet
<1>3. \A p \in pods : ~p.gated /\ ~p.leaving => p.fp \notin pass.todo
  BY <1>1, PassHas, Zenon DEF Stage
<1>4. PICK f \in pass.todo :
        /\ configs' = configs \ {f}
        /\ pass' = [pass EXCEPT !.todo = pass.todo \ {f},
                                !.plan = IF pass.todo = {f} THEN Rest ELSE pass.plan]
  BY <1>2, Zenon DEF DropConfig, PassFields
<1>5. World'
  <2>1. scenario \in Scenarios /\ Records /\ Storage /\ Pods /\ Generation /\ Gates
        /\ DOMAIN view = Lagging
    BY <1>1, Zenon DEF World
  <2>2. Lagging' = Lagging /\ UNCHANGED <<art, removal, removed>>
    BY <1>1, Zenon DEF Lagging, world
  <2>3. \A p \in pods : ~p.gated /\ ~p.leaving /\ p.fp \in configs => p.fp \in configs'
    BY <1>4, <1>3, Zenon
  <2>4. Seen("pods")' = Seen("pods") /\ Seen("workloads")' = Seen("workloads")
    BY <1>1, SameShown, Zenon
  <2>5. Gates'
    BY <1>1, <2>1, <2>2, <2>3, <2>4, Zenon DEF Gates, Scheduled, Kept, UidOf, Ids
  <2> QED
    BY <1>1, <2>1, <2>2, <2>5, RecordsStay, StorageStays, PodsStay, GenerationStays, Zenon DEF World
<1>6. /\ DOMAIN pass' = PassFields /\ pass'.obj = pass.obj /\ pass'.want = pass.want
      /\ pass'.plan = (IF pass.todo = {f} THEN Rest ELSE pass.plan) /\ pass'.todo = pass.todo \ {f}
  BY <1>2, <1>4, Zenon DEF PassFields
<1>7. CASE pass.todo = {f}
  BY <1>1, <1>2, <1>5, <1>6, <1>7, PassMoves, Zenon DEF DeploymentInv
<1>8. CASE pass.todo # {f}
  <2>1. Now' = "dropConfig" /\ pass'.plan = pass.plan
    BY <1>2, <1>6, <1>8, Zenon DEF Now, First
  <2>2. Stage'
    BY <1>1, <1>6, <1>3, <2>1 DEF Stage, GateNow
  <2> QED BY <1>1, <1>2, <1>5, <1>6, <2>1, <2>2, PassArrives, Zenon DEF DeploymentInv
<1> QED BY <1>7, <1>8, Zenon

(* reconcileUnavailableArtifact *)
LEMMA UnavailableStep == ASSUME DeploymentInv, reconcileUnavailableArtifact PROVE DeploymentInv'
<1>1. World /\ PassOK /\ At("unavailable") /\ UNCHANGED <<scenario, api, world, cluster, view>>
  BY Zenon DEF DeploymentInv, reconcileUnavailableArtifact
<1>2. DOMAIN pass = PassFields /\ Truthful(pass.want) /\ Now = "unavailable"
  BY <1>1, PassHas, Zenon
<1>3. World' /\ UNCHANGED <<api, loads>>
  BY <1>1, WorldStays, Zenon DEF cluster
<1> DEFINE w == Seen("workloads")
           uid == IF pass.art.uid = 0 THEN None ELSE SeenUid
           cleared == clearedStatus(pass.obj.gen, uid)
<1>4. \/ Fail(uid, <<"write">>)
      \/ /\ w # NoWorkload
         /\ pass' = [pass EXCEPT !.plan = <<"suspend", "observe">>, !.wl = w, !.fp = Template(w)]
      \/ pass' = [pass EXCEPT !.plan = <<"delete", "write">>, !.wl = w, !.want = cleared]
  BY Zenon DEF reconcileUnavailableArtifact
<1>5. Truthful(cleared)
  BY StatusesTruthful, Zenon
<1> HIDE DEF w, uid, cleared
<1>6. /\ <<"suspend", "observe">> \in Plans /\ <<"delete", "write">> \in Plans
  BY Zenon DEF Plans
<1>7. First(<<"suspend", "observe">>) = "suspend" /\ First(<<"delete", "write">>) = "delete"
  BY DEF First
<1>8. CASE Fail(uid, <<"write">>)
  BY <1>1, <1>2, <1>3, <1>8, PassFails, Zenon DEF DeploymentInv
<1>9. CASE /\ w # NoWorkload
           /\ pass' = [pass EXCEPT !.plan = <<"suspend", "observe">>, !.wl = w, !.fp = Template(w)]
  <2>1. /\ DOMAIN pass' = PassFields /\ pass'.obj = pass.obj /\ pass'.want = pass.want
        /\ pass'.plan = <<"suspend", "observe">> /\ pass'.wl = w
    BY <1>2, <1>9, Zenon DEF PassFields
  <2>2. Now' = "suspend"
    BY <1>7, <2>1, Zenon DEF Now, First
  <2>3. Stage'
    BY <1>9, <2>1, <2>2 DEF Stage, GateNow
  <2> QED BY <1>1, <1>2, <1>3, <1>6, <2>1, <2>3, PassArrives, Zenon DEF DeploymentInv
<1>10. CASE pass' = [pass EXCEPT !.plan = <<"delete", "write">>, !.wl = w, !.want = cleared]
  <2>1. /\ DOMAIN pass' = PassFields /\ pass'.obj = pass.obj /\ pass'.want = cleared
        /\ pass'.plan = <<"delete", "write">>
    BY <1>2, <1>10, Zenon DEF PassFields
  <2>2. First(pass'.plan) \in Quiet
    BY <1>7, <2>1, Zenon DEF Quiet
  <2> QED BY <1>1, <1>2, <1>3, <1>5, <1>6, <2>1, <2>2, PassMoves, Zenon DEF DeploymentInv
<1> QED BY <1>4, <1>8, <1>9, <1>10, Zenon

(* suspendWorkloadReplacement *)
LEMMA SuspendStep == ASSUME DeploymentInv, suspendWorkloadReplacement PROVE DeploymentInv'
<1>1. /\ World /\ PassOK /\ At("suspend")
      /\ UNCHANGED <<scenario, api, world, configs, foreign, rs, pods, loads, view>>
  BY Zenon DEF DeploymentInv, suspendWorkloadReplacement
<1>2. /\ DOMAIN pass = PassFields /\ Truthful(pass.want) /\ Now = "suspend"
      /\ Rest \in Plans /\ First(Rest) \in Quiet /\ pass.wl # NoWorkload
  BY <1>1, PassHas DEF Flow, Rest, Quiet, Stage
<1> DEFINE paused == [workload EXCEPT !.spec.paused = TRUE]
<1>3. \/ UNCHANGED workload /\ (Follow(Rest) \/ Done)
      \/ workload = pass.wl /\ workload' = paused /\ pass' = [pass EXCEPT !.plan = Rest, !.wl = paused]
  BY Zenon DEF suspendWorkloadReplacement
<1>4. CASE UNCHANGED workload /\ (Follow(Rest) \/ Done)
  <2>1. World'
    BY <1>1, <1>4, WorldStays, Zenon
  <2> QED BY <1>1, <1>2, <1>4, <2>1, PassFollows, PassEnds, Zenon DEF DeploymentInv
<1>5. CASE workload = pass.wl /\ workload' = paused /\ pass' = [pass EXCEPT !.plan = Rest, !.wl = paused]
  <2>1. WorkloadOK(workload) /\ ~Taken("workload", None)
    BY <1>1, <1>2, <1>5, Zenon DEF World, Generation
  <2>2. WorkloadOK(paused)
    BY <2>1, WorkloadWrites, Zenon
  <2>3. World'
    BY <1>1, <1>5, <2>1, <2>2, WorkloadWritten, Zenon
  <2> HIDE DEF paused
  <2>4. /\ DOMAIN pass' = PassFields /\ pass'.obj = pass.obj /\ pass'.want = pass.want
        /\ pass'.plan = Rest
    BY <1>2, <1>5, Zenon DEF PassFields
  <2> QED BY <1>1, <1>2, <2>3, <2>4, PassMoves, Zenon DEF DeploymentInv
<1> QED BY <1>3, <1>4, <1>5, Zenon

-----------------------------------------------------------------------------
(* Observing, and deletion.                                                *)

(* ObservePods *)
LEMMA ObserveStep == ASSUME DeploymentInv, ObservePods PROVE DeploymentInv'
<1>1. World /\ PassOK /\ At("observe") /\ UNCHANGED <<scenario, api, world, cluster, view>>
  BY Zenon DEF DeploymentInv, ObservePods
<1>2. DOMAIN pass = PassFields /\ Truthful(pass.want) /\ Now = "observe"
  BY <1>1, PassHas, Zenon
<1>3. World' /\ UNCHANGED <<api, loads, pods>>
  BY <1>1, WorldStays, Zenon DEF cluster
<1> DEFINE matches == {p \in OwnedPods(pass.wl, pass.fp) : ~p.leaving}
           ready == \E p \in matches : p.state \in {"ready", "wrong"}
<1>4. PICK p \in IF matches = {} THEN {None} ELSE matches :
        pass' = [pass EXCEPT !.plan = <<"state">>, !.pod = p, !.ready = ready]
  BY Zenon DEF ObservePods
<1>5. p # None => p \in Seen("pods") /\ p.fp = pass.fp
  <2>1. p # None => p \in matches
    BY Zenon
  <2> QED BY <2>1, Zenon DEF OwnedPods
<1> HIDE DEF matches, ready
<1>6. /\ DOMAIN pass' = PassFields /\ pass'.obj = pass.obj /\ pass'.want = pass.want
      /\ pass'.plan = <<"state">> /\ pass'.pod = p /\ pass'.fp = pass.fp
  BY <1>2, <1>4, Zenon DEF PassFields
<1>7. <<"state">> \in Plans
  BY Zenon DEF Plans
<1>8. First(<<"state">>) = "state"
  BY DEF First
<1>9. Now' = "state"
  BY <1>6, <1>8, Zenon DEF Now, First
<1>10. SameFingerprint(Seen("pods"))
  BY <1>1, Zenon DEF World, Pods
<1>11. p # None => SameFingerprint({pass.pod})'
  BY <1>3, <1>5, <1>6, <1>10, Zenon DEF SameFingerprint
<1>12. Stage'
  BY <1>5, <1>6, <1>9, <1>11 DEF Stage, GateNow
<1> QED BY <1>1, <1>2, <1>3, <1>6, <1>7, <1>12, PassArrives, Zenon DEF DeploymentInv

(* What observeRuntime calls loaded was loaded: the Pod that answers is    *)
(* the one observed, and it has the pass's fingerprint.                    *)
LEMMA ObservedIsTruthful ==
  ASSUME DeploymentInv, At("state"), NEW matches \in BOOLEAN, matches => supervisorStateMatches
  PROVE  Truthful(observeRuntime(matches))
<1>1. /\ World /\ Past(pass.obj)
      /\ pass.pod # None => pass.pod.fp = pass.fp /\ SameFingerprint({pass.pod})
  BY PassHas DEF DeploymentInv, Stage
<1>2. matches => pass.fp \in loads
  <2> SUFFICES ASSUME matches PROVE pass.fp \in loads
    BY Zenon
  <2>1. supervisorStateMatches
    BY Zenon
  <2>2. pass.pod # None
    BY <2>1, Zenon DEF supervisorStateMatches
  <2>3. PICK p \in pods : p.id = pass.pod.id /\ p.state = "ready"
    BY <2>1, <2>2, Zenon DEF supervisorStateMatches
  <2>4. p.fp \in loads
    BY <1>1, <2>3, Zenon DEF World, Pods, PodOK
  <2> QED BY <1>1, <2>2, <2>3, <2>4, Zenon DEF SameFingerprint
<1>3. pass.obj.status.loaded = pass.fp /\ pass.fp # None => pass.fp \in loads
  BY <1>1, Zenon DEF Past, Truthful
<1> DEFINE w == observeRuntime(matches)
<1>4. /\ DOMAIN w = StatusFields
      /\ w.loaded = IF matches \/ pass.obj.status.loaded = pass.fp THEN pass.fp ELSE None
  BY Zenon DEF observeRuntime, StatusFields
<1> HIDE DEF w
<1>5. Truthful(w)
  BY <1>2, <1>3, <1>4, Zenon DEF Truthful
<1> QED BY <1>5, Zenon DEF w

(* The observation is reported. *)
LEMMA Observed ==
  ASSUME DeploymentInv, At("state"), UNCHANGED <<scenario, api, world, cluster, view>>,
         NEW matches \in BOOLEAN, matches => supervisorStateMatches,
         pass' = [pass EXCEPT !.plan = <<"write">>, !.want = observeRuntime(matches)]
  PROVE  DeploymentInv'
<1> DEFINE w == observeRuntime(matches)
<1>1. Truthful(w)
  BY ObservedIsTruthful, Zenon
<1> HIDE DEF w
<1>2. World /\ PassOK /\ DOMAIN pass = PassFields /\ Now = "state"
  BY PassHas, Zenon DEF DeploymentInv
<1>3. World' /\ UNCHANGED <<api, loads>>
  BY <1>2, WorldStays, Zenon DEF cluster
<1>4. DOMAIN pass' = PassFields /\ pass'.obj = pass.obj /\ pass'.want = w /\ pass'.plan = <<"write">>
  BY <1>2, Zenon DEF PassFields, w
<1>5. First(<<"write">>) = "write"
  BY DEF First
<1>6. <<"write">> \in Plans /\ First(<<"write">>) \in Quiet
  BY <1>5, Zenon DEF Plans, Quiet
<1> QED BY <1>1, <1>2, <1>3, <1>4, <1>6, PassMoves, Zenon DEF DeploymentInv

(* ReadState, StateUnavailable *)
LEMMA ReadStateStep == ASSUME DeploymentInv, ReadState \/ StateUnavailable PROVE DeploymentInv'
<1>1. supervisorStateMatches \in BOOLEAN
  BY DEF supervisorStateMatches
<1>2. CASE ReadState
  BY <1>1, <1>2, Observed, Zenon DEF ReadState
<1>3. CASE StateUnavailable
  <2>1. UNCHANGED scenario
    BY <1>3, Zenon DEF StateUnavailable, Disrupt
  <2> QED BY <1>3, <2>1, Observed, Zenon DEF StateUnavailable
<1> QED BY <1>2, <1>3, Zenon

(* DropService *)
LEMMA DropServiceStep == ASSUME DeploymentInv, DropService PROVE DeploymentInv'
<1>1. /\ World /\ PassOK /\ At("dropService") /\ Follow(Rest)
      /\ UNCHANGED <<scenario, api, world, configs, foreign, workload, rs, pods, loads, view>>
  BY Zenon DEF DeploymentInv, DropService
<1>2. Now = "dropService" /\ Rest \in Plans /\ First(Rest) \in Quiet
  BY <1>1, PassHas DEF Flow, Rest, Quiet
<1>3. World'
  BY <1>1, WorldStays, Zenon
<1> QED BY <1>1, <1>2, <1>3, PassFollows, Zenon DEF DeploymentInv

(* DropWorkload: where the informer shows no workload, no Pod is scheduled. *)
LEMMA DropWorkloadStep == ASSUME DeploymentInv, DropWorkload PROVE DeploymentInv'
<1> DEFINE w == Seen("workloads")
<1>1. /\ World /\ PassOK /\ At("dropWorkload")
      /\ UNCHANGED <<scenario, api, world, configs, foreign, rs, pods, loads, view>>
      /\ workload' = IF Foreground(w) = "deleted" THEN [workload EXCEPT !.deleting = TRUE] ELSE workload
      /\ IF w = NoWorkload \/ Taken("workload", None) THEN Follow(Rest) ELSE Done
  BY Zenon DEF DeploymentInv, DropWorkload
<1>2. /\ DOMAIN pass = PassFields /\ Truthful(pass.want) /\ Now = "dropWorkload"
      /\ Rest \in Plans /\ First(Rest) = "listAll"
  BY <1>1, PassHas DEF Flow, Rest
<1>3. World'
  BY <1>1, ForegroundWrites, Zenon
<1>4. ASSUME w = NoWorkload \/ Taken("workload", None) PROVE PassOK'
  <2>1. \A p \in pods : p.gated
    BY <1>1, <1>4, Zenon DEF World, Gates, Scheduled, Generation
  <2>2. pass' = [pass EXCEPT !.plan = Rest]
    BY <1>1, <1>4, Zenon DEF Follow
  <2>3. /\ DOMAIN pass' = PassFields /\ pass'.obj = pass.obj /\ pass'.want = pass.want
        /\ pass'.plan = Rest
    BY <1>2, <2>2, Zenon DEF PassFields
  <2>4. Now' = "listAll"
    BY <1>2, <2>3, Zenon DEF Now, First
  <2>5. Stage'
    BY <1>1, <2>1, <2>4 DEF Stage, GateNow
  <2> QED BY <1>1, <1>2, <2>3, <2>5, PassArrives, Zenon
<1> QED BY <1>1, <1>3, <1>4, PassEnds, Zenon DEF DeploymentInv

(* ListAll *)
LEMMA ListAllStep == ASSUME DeploymentInv, ListAll PROVE DeploymentInv'
<1>1. World /\ PassOK /\ At("listAll") /\ UNCHANGED <<scenario, api, world, cluster, view>>
  BY Zenon DEF DeploymentInv, ListAll
<1>2. /\ DOMAIN pass = PassFields /\ Truthful(pass.want) /\ Now = "listAll"
      /\ Rest \in Plans /\ First(Rest) = "finalize" /\ \A p \in pods : p.gated
  BY <1>1, PassHas DEF Flow, Rest, Stage
<1>3. World' /\ UNCHANGED <<api, loads, pods>>
  BY <1>1, WorldStays, Zenon DEF cluster
<1>4. CASE pass' = [pass EXCEPT !.plan = Rest]
  <2>1. /\ DOMAIN pass' = PassFields /\ pass'.obj = pass.obj /\ pass'.want = pass.want
        /\ pass'.plan = Rest
    BY <1>2, <1>4, Zenon DEF PassFields
  <2>2. Now' = "finalize"
    BY <1>2, <2>1, Zenon DEF Now, First
  <2>3. Stage'
    BY <1>2, <1>3, <2>2 DEF Stage, GateNow
  <2> QED BY <1>1, <1>2, <1>3, <2>1, <2>3, PassArrives, Zenon DEF DeploymentInv
<1>5. CASE pass' = [pass EXCEPT !.plan = <<"dropConfig">>, !.todo = configs]
  <2>1. /\ DOMAIN pass' = PassFields /\ pass'.obj = pass.obj /\ pass'.want = pass.want
        /\ pass'.plan = <<"dropConfig">>
    BY <1>2, <1>5, Zenon DEF PassFields
  <2>2. First(<<"dropConfig">>) = "dropConfig"
    BY DEF First
  <2>3. Now' = "dropConfig" /\ <<"dropConfig">> \in Plans
    BY <2>1, <2>2, Zenon DEF Now, First, Plans
  <2>4. Stage'
    BY <1>2, <1>3, <2>3 DEF Stage, GateNow
  <2> QED BY <1>1, <1>2, <1>3, <2>1, <2>3, <2>4, PassArrives, Zenon DEF DeploymentInv
<1> QED BY <1>4, <1>5, Zenon DEF ListAll

(* A step of the running pass. *)
LEMMA PassStepKeeps == ASSUME DeploymentInv, PassStep PROVE DeploymentInv'
<1>1. drainOwnedServingWorkload => DeploymentInv'
  BY ForegroundStep, Zenon DEF drainOwnedServingWorkload
<1>2. DeleteUnloaded => DeploymentInv'
  BY ForegroundStep, Zenon DEF DeleteUnloaded
<1> QED
  BY <1>1, <1>2, AddFinalizerStep, ServiceStep, ReadArtifactStep, ConfigStep, ResumeStep,
     CheckDeploymentStep, CheckArtifactStep, LiftGateStep, WorkloadStep, ListConfigsStep,
     DropConfigStep, UnavailableStep, SuspendStep, ObserveStep, ReadStateStep, StatusStep,
     DropServiceStep, DropWorkloadStep, ListAllStep, FinalizeStep, Zenon DEF PassStep

-----------------------------------------------------------------------------
(* The cluster.                                                            *)

(* A Pod of the next state is one of this state, that may have begun to    *)
(* leave, or a gated one under a name nobody remembers.                    *)
Evolved(x) ==
  \E y \in pods : /\ x.id = y.id /\ x.fp = y.fp /\ x.gated = y.gated
                  /\ y.leaving => x.leaving

NewPod(x) == x.gated /\ x.id \notin Ids(Seen("pods")) /\ x.id \notin Ids(PodsInHand)

(* What a pass relies on withstands the steps beside it. *)
LEMMA PassWithstands ==
  ASSUME PassOK, pass' = pass, loads \subseteq loads',
         api.phase = "gone" => api'.phase = "gone",
         api.fin => api'.fin \/ api'.phase = "gone",
         Now \in {"gateArtifact", "lift"} /\ api.phase # "gone" => api'.phase # "gone",
         configs \subseteq configs' \/ api'.phase = "gone",
         \A x \in pods' : Evolved(x) \/ NewPod(x),
         \A x \in pods' : x.id \in Ids(Seen("pods")) => x.id \in Ids(Seen("pods"))',
         Seen("workloads") # NoWorkload =>
           Seen("workloads")' # NoWorkload \/ api'.phase = "gone" \/ pods' = {},
         \A x \in pods' : Kept(x.fp.uid) => Kept(x.fp.uid)'
  PROVE  PassOK'
<1>1. Now' = Now /\ DOMAIN pass = PassFields /\ pass.plan \in Plans
  BY Zenon DEF Now, First, PassOK
<1>2. Truthful(pass.want)' /\ (Past(pass.obj) => Past(pass.obj)')
  BY Zenon DEF PassOK, Past, Truthful
<1>3. ASSUME NEW S, S = PodsInHand \/ \A q \in S : q \in PodsInHand, SameFingerprint(S)
      PROVE  SameFingerprint(S)'
  <2> SUFFICES ASSUME NEW x \in pods', NEW q \in S, q.id = x.id PROVE q.fp = x.fp
    BY Zenon DEF SameFingerprint
  <2>1. ~NewPod(x)
    BY <1>3, Zenon DEF NewPod, Ids
  <2>2. PICK y \in pods : x.id = y.id /\ x.fp = y.fp
    BY <2>1, Zenon DEF Evolved
  <2> QED BY <1>3, <2>2, Zenon DEF SameFingerprint
<1>4. Now # "idle" /\ Stage => Stage'
  <2> SUFFICES ASSUME Now # "idle", Stage PROVE Stage'
    BY Zenon
  <2>1. \A step : step # "idle" /\ Now = step => At(step)
    BY Zenon DEF At, Now, First
  <2>2. Now \in GateNow => PodsInHand = pass.todo
    BY <2>1 DEF GateNow, PodsInHand
  <2>3. ASSUME Now \in GateNow PROVE /\ Listed'
                                     /\ Now = "lift" => \A q \in pass.todo :
                                          q.id \in Ids(pods') => Kept(pass.fp.uid)'
    <3>1. Listed
      BY <2>3, Zenon DEF Stage
    <3>2. SameFingerprint(pass.todo)'
      <4>1. SameFingerprint(pass.todo)
        BY <3>1, Zenon DEF Listed
      <4>2. ASSUME NEW S, S = pass.todo PROVE SameFingerprint(S)'
        BY <1>3, <2>2, <2>3, <4>1, <4>2, Zenon
      <4> QED BY <4>2, Zenon DEF SameFingerprint
    <3>3. ASSUME NEW q \in pass.todo, q.id \in Ids(pods')
          PROVE  \E x \in pods' : \E y \in pods : x.id = q.id /\ y.id = q.id /\ x.fp = q.fp
      <4>1. PICK x \in pods' : x.id = q.id
        BY <3>3, Zenon DEF Ids
      <4>2. ~NewPod(x)
        BY <2>2, <2>3, <4>1, Zenon DEF NewPod, Ids
      <4>3. PICK y \in pods : x.id = y.id /\ x.fp = y.fp
        BY <4>2, Zenon DEF Evolved
      <4> QED BY <3>1, <4>1, <4>3, Zenon DEF Listed, SameFingerprint
    <3>4. ASSUME NEW q \in pass.todo, q.id \in Ids(pods')
          PROVE  /\ q.id \in Ids(Seen("pods"))'
                 /\ api'.phase = "gone" \/ Seen("workloads")' # NoWorkload
                 /\ Now = "lift" => Kept(pass.fp.uid)'
      <4>1. PICK x \in pods' : \E y \in pods : x.id = q.id /\ y.id = q.id /\ x.fp = q.fp
        BY <3>3, <3>4, Zenon
      <4>2. q.id \in Ids(pods) /\ q.fp = pass.fp
        BY <3>1, <4>1, Zenon DEF Ids, Listed
      <4>3. q.id \in Ids(Seen("pods")) /\ (api.phase = "gone" \/ Seen("workloads") # NoWorkload)
        BY <3>1, <4>2, Zenon DEF Listed
      <4>4. Now = "lift" => Kept(x.fp.uid)
        BY <4>1, <4>2, Zenon DEF Stage
      <4>5. Now = "lift" => Kept(x.fp.uid)'
        BY <4>4, Zenon
      <4> QED BY <4>1, <4>2, <4>3, <4>5, Zenon
    <3>5. Listed'
      BY <3>1, <3>2, <3>4, Zenon DEF Listed, Ids
    <3> QED BY <3>4, <3>5, Zenon
  <2>4. ASSUME Now = "state", pass.pod # None PROVE SameFingerprint({pass.pod})'
    <3>1. PodsInHand = {pass.pod} \ {None}
      BY <2>4, NowIsAt DEF PodsInHand
    <3>2. SameFingerprint({pass.pod})
      BY <2>4, Zenon DEF Stage
    <3>3. \A q \in {pass.pod} : q \in PodsInHand
      BY <2>4, <3>1, Zenon
    <3>4. ASSUME NEW S, S = {pass.pod} PROVE SameFingerprint(S)'
      BY <1>3, <3>2, <3>3, <3>4, Zenon
    <3> QED BY <3>4, Zenon DEF SameFingerprint
  <2>5. Now = "dropConfig" => \A x \in pods' : ~x.gated /\ ~x.leaving => x.fp \notin pass.todo
    BY Zenon DEF Stage, Evolved, NewPod
  <2>6. Now \in {"listAll", "finalize"} => \A x \in pods' : x.gated
    BY Zenon DEF Stage, Evolved, NewPod
  <2>7. Now \in {"gateArtifact", "lift"} => api'.phase # "gone"
    BY Zenon DEF Stage
  <2>8. Now \in {"resume"} \cup GateNow => api'.phase = "gone" \/ pass.fp \in configs'
    BY Zenon DEF Stage
  <2>9. Now \in {"service", "artifact", "config", "resume"} \cup GateNow => pass.obj.fin
    BY Zenon DEF Stage
  <2> QED BY <1>1, <2>3, <2>4, <2>5, <2>6, <2>7, <2>8, <2>9, Zenon DEF Stage, GateNow, Kept, UidOf, Ids, SameFingerprint
<1> QED BY <1>1, <1>2, <1>4, Zenon DEF PassOK

(* Steps of Kubernetes on Pods, and the collection of a deployment that is *)
(* gone.                                                                   *)
LEMMA PodsChange ==
  ASSUME DeploymentInv, UNCHANGED <<scenario, api, world, foreign, view, pass>>, Generation',
         loads \subseteq loads', \A x \in pods' : PodOK(x)' /\ (Evolved(x) \/ NewPod(x)),
         UNCHANGED <<workload, configs>> \/ api.phase = "gone"
  PROVE  DeploymentInv'
<1>1. /\ scenario \in Scenarios /\ Records /\ Storage /\ Pods /\ Gates /\ PassOK
      /\ DOMAIN view = Lagging /\ Lagging' = Lagging /\ UNCHANGED <<art, removal, removed>>
  BY Zenon DEF World, Lagging, world, DeploymentInv
<1>2. Records'
  <2>1. Seen("deployments")' = Seen("deployments")
    BY SameShown, Zenon
  <2> QED BY <1>1, <2>1, Zenon DEF Records, Past, Truthful
<1>3. Seen("pods")' = Seen("pods") \/ (Seen("pods") = pods /\ Seen("pods")' = pods')
  BY Shown, ShownNext, Zenon
<1>4. SameFingerprint(Seen("pods"))'
  <2> SUFFICES ASSUME NEW x \in pods', NEW q \in Seen("pods")', q.id = x.id PROVE q.fp = x.fp
    BY Zenon DEF SameFingerprint
  <2>1. CASE Seen("pods")' = pods'
    BY <2>1, Zenon DEF Generation
  <2>2. CASE Seen("pods")' = Seen("pods")
    <3>1. ~NewPod(x)
      BY <2>2, Zenon DEF NewPod, Ids
    <3>2. PICK y \in pods : x.id = y.id /\ x.fp = y.fp
      BY <3>1, Zenon DEF Evolved
    <3> QED BY <1>1, <2>2, <3>2, Zenon DEF Pods, SameFingerprint
  <2> QED BY <1>3, <2>1, <2>2, Zenon
<1>5. \A x \in pods' : x.id \in Ids(Seen("pods")) => x.id \in Ids(Seen("pods"))'
  BY <1>3, Zenon DEF Ids
<1>6. api.phase = "gone" \/ Seen("workloads")' = Seen("workloads")
  BY SameShown, Zenon
<1>7. \A u : Kept(u)' <=> Kept(u)
  BY <1>1, Zenon DEF Kept, UidOf
<1>8. Gates'
  <2> SUFFICES ASSUME NEW x \in pods', ~x.gated PROVE Scheduled(x)'
    BY Zenon DEF Gates
  <2>1. PICK y \in pods : x.id = y.id /\ x.fp = y.fp /\ ~y.gated /\ (y.leaving => x.leaving)
    BY Zenon DEF Evolved, NewPod
  <2>2. Scheduled(y)
    BY <1>1, <2>1, Zenon DEF Gates
  <2>3. Kept(x.fp.uid)'
    BY <1>7, <2>1, <2>2, Zenon DEF Scheduled
  <2>4. x.id \in Ids(Seen("pods"))'
    BY <1>5, <2>1, <2>2, Zenon DEF Scheduled
  <2> QED BY <1>6, <2>1, <2>2, <2>3, <2>4, Zenon DEF Scheduled, Kept, UidOf, Ids
<1>9. World'
  BY <1>1, <1>2, <1>4, <1>8, StorageStays, Zenon DEF World, Pods
<1>10. configs \subseteq configs' \/ api'.phase = "gone"
  BY Zenon
<1>11. \A x \in pods' : Kept(x.fp.uid) => Kept(x.fp.uid)'
  BY <1>7, Zenon
<1> QED BY <1>1, <1>5, <1>6, <1>9, <1>10, <1>11, PassWithstands, Zenon DEF DeploymentInv

(* A Pod changes its state. *)
LEMMA PodBecomes ==
  ASSUME DeploymentInv, NEW p \in pods, NEW state, Becomes(p, state),
         UNCHANGED <<scenario, api, world, configs, foreign, workload, rs, view, pass>>,
         loads \subseteq loads', state = "ready" => p.fp \in loads'
  PROVE  DeploymentInv'
<1> DEFINE r == [p EXCEPT !.state = state]
<1>1. Generation /\ PodOK(p) /\ \A x \in pods : PodOK(x)
  BY Zenon DEF DeploymentInv, World, Pods
<1>2. pods' = (pods \ {p}) \cup {r}
  BY Zenon DEF Becomes
<1>3. /\ DOMAIN r = PodFields /\ r.id = p.id /\ r.fp = p.fp /\ r.gated = p.gated
      /\ r.leaving = p.leaving /\ r.state = state
  BY <1>1, Zenon DEF PodOK, PodFields
<1> HIDE DEF r
<1>4. \A x \in pods' : Evolved(x)
  BY <1>2, <1>3, Zenon DEF Evolved
<1>5. \A x \in pods' : PodOK(x)'
  BY <1>1, <1>2, <1>3, Zenon DEF PodOK
<1>6. \A x \in pods' : \E y \in pods : x.fp = y.fp
  BY <1>4, Zenon DEF Evolved
<1>7. Generation'
  <2>1. ASSUME NEW x \in pods', NEW z \in pods' PROVE x.fp = z.fp /\ (rs # None => x.fp = rs)
    <3>1. PICK y \in pods : x.fp = y.fp
      BY <1>6, Zenon
    <3>2. PICK q \in pods : z.fp = q.fp
      BY <1>6, Zenon
    <3> QED BY <1>1, <3>1, <3>2, Zenon DEF Generation
  <2> QED BY <1>1, <2>1, Zenon DEF Generation, Taken, WorkloadOK
<1> QED BY <1>4, <1>5, <1>7, PodsChange, Zenon

(* Pods leave. *)
LEMMA PodsLeave ==
  ASSUME DeploymentInv, NEW G, pods' = Leave(G), rs' = rs \/ rs' = None,
         UNCHANGED <<scenario, api, world, foreign, loads, view, pass>>,
         UNCHANGED <<workload, configs>> \/ (api.phase = "gone" /\ workload' = NoWorkload)
  PROVE  DeploymentInv'
<1>1. Generation /\ \A x \in pods : PodOK(x)
  BY Zenon DEF DeploymentInv, World, Pods
<1>2. ASSUME NEW x \in pods'
      PROVE  Evolved(x) /\ PodOK(x)' /\ \E y \in pods : x.fp = y.fp
  <2>1. PICK y \in pods : x = IF y \in G THEN [y EXCEPT !.leaving = TRUE] ELSE y
    BY Zenon DEF Leave
  <2>2. /\ DOMAIN x = PodFields /\ x.id = y.id /\ x.fp = y.fp /\ x.gated = y.gated
        /\ x.state = y.state /\ (y.leaving => x.leaving)
    BY <1>1, <2>1, Zenon DEF PodOK, PodFields
  <2> QED BY <1>1, <2>2, Zenon DEF Evolved, PodOK
<1>3. Generation'
  <2>1. pods = {} => pods' = {}
    BY <1>2, Zenon
  <2>2. \A x, z \in pods' : x.fp = z.fp /\ (rs # None => x.fp = rs)
    <3> SUFFICES ASSUME NEW x \in pods', NEW z \in pods'
                 PROVE  x.fp = z.fp /\ (rs # None => x.fp = rs)
      BY Zenon
    <3>1. PICK y \in pods : x.fp = y.fp
      BY <1>2, Zenon
    <3>2. PICK q \in pods : z.fp = q.fp
      BY <1>2, Zenon
    <3> QED BY <1>1, <3>1, <3>2, Zenon DEF Generation
  <2>3. CASE UNCHANGED workload
    BY <1>1, <2>1, <2>2, <2>3, Zenon DEF Generation, Taken, WorkloadOK
  <2>4. CASE api.phase = "gone" /\ workload' = NoWorkload
    BY <1>1, <2>2, <2>4, Zenon DEF Generation
  <2> QED BY <2>3, <2>4, Zenon
<1> QED BY <1>2, <1>3, PodsChange, Zenon

(* PodGone *)
LEMMA PodGoneStep == ASSUME DeploymentInv, NEW p \in pods, PodGone(p) PROVE DeploymentInv'
<1>1. Generation /\ \A x \in pods : PodOK(x)
  BY Zenon DEF DeploymentInv, World, Pods
<1>2. /\ pods' = pods \ {p}
      /\ UNCHANGED <<scenario, api, world, configs, foreign, workload, rs, loads, view, pass>>
  BY Zenon DEF PodGone
<1>3. \A x \in pods' : x \in pods /\ PodOK(x)' /\ Evolved(x)
  BY <1>1, <1>2, Zenon DEF PodOK, Evolved
<1>4. Generation'
  BY <1>1, <1>2, <1>3, Zenon DEF Generation, Taken, WorkloadOK
<1> QED BY <1>2, <1>3, <1>4, PodsChange, Zenon

(* RollOut: the template is that of all Pods, or they leave first. *)
LEMMA RollOutStep == ASSUME DeploymentInv, RollOut PROVE DeploymentInv'
<1>1. Generation /\ \A x \in pods : PodOK(x)
  BY Zenon DEF DeploymentInv, World, Pods
<1>2. /\ workload # NoWorkload
      /\ UNCHANGED <<scenario, api, world, configs, foreign, workload, loads, view, pass>>
  BY Zenon DEF RollOut
<1>3. workload.spec.strategy = "Recreate"
  BY <1>1, <1>2, Zenon DEF Generation, WorkloadOK
<1> DEFINE fp == Template(workload)
<1>4. \/ rs' = None /\ pods' = Leave({p \in pods : p.fp # fp})
      \/ rs' = fp /\ pods' = pods /\ \A p \in pods : p.fp = fp
  BY <1>3, Zenon DEF RollOut
<1>5. CASE rs' = None /\ pods' = Leave({p \in pods : p.fp # fp})
  BY <1>2, <1>5, PodsLeave, Zenon
<1>6. CASE rs' = fp /\ pods' = pods /\ \A p \in pods : p.fp = fp
  <2>1. Generation'
    BY <1>1, <1>2, <1>6, Zenon DEF Generation, Taken, WorkloadOK
  <2>2. \A x \in pods' : PodOK(x)' /\ Evolved(x)
    BY <1>1, <1>2, <1>6, Zenon DEF PodOK, Evolved
  <2> QED BY <1>2, <2>1, <2>2, PodsChange, Zenon
<1> QED BY <1>4, <1>5, <1>6, Zenon

(* ReplicaStarts: the new Pod is gated, and nobody knows its name. *)
LEMMA ReplicaStartsStep == ASSUME DeploymentInv, ReplicaStarts PROVE DeploymentInv'
<1>1. Generation /\ \A x \in pods : PodOK(x)
  BY Zenon DEF DeploymentInv, World, Pods
<1>2. /\ workload # NoWorkload /\ rs # None
      /\ UNCHANGED <<scenario, api, world, configs, foreign, workload, rs, loads, view, pass>>
  BY Zenon DEF ReplicaStarts
<1>3. PICK id \in FreshPods : pods' = pods \cup {Pod(id, workload, rs)}
  BY Zenon DEF ReplicaStarts
<1>4. id \notin Ids(Seen("pods")) /\ id \notin Ids(PodsInHand)
  BY <1>3, Zenon DEF FreshPods, Fresh, Ids
<1> DEFINE r == Pod(id, workload, rs)
<1>5. workload.spec.gated = TRUE
  BY <1>1, <1>2, Zenon DEF Generation, WorkloadOK
<1>6. DOMAIN r = PodFields /\ r.id = id /\ r.fp = rs /\ r.gated = TRUE /\ r.state = "pending"
  BY <1>5, Zenon DEF Pod, PodFields
<1> HIDE DEF r
<1>7. NewPod(r) /\ \A x : x = r => PodOK(x)'
  <2>1. "pending" # "ready"
    OBVIOUS
  <2> QED BY <1>4, <1>6, <2>1, Zenon DEF PodOK, NewPod
<1>8. \A x \in pods' : PodOK(x)' /\ (Evolved(x) \/ NewPod(x)) /\ x.fp = rs
  <2>1. \A x \in pods : PodOK(x)' /\ Evolved(x) /\ x.fp = rs
    BY <1>1, <1>2, Zenon DEF PodOK, Evolved, Generation
  <2>2. \A x \in pods' : x \in pods \/ x = r
    BY <1>3, Zenon DEF r
  <2> QED BY <1>6, <1>7, <2>1, <2>2, Zenon
<1>9. Generation'
  BY <1>1, <1>2, <1>8, Zenon DEF Generation, Taken, WorkloadOK
<1> QED BY <1>2, <1>8, <1>9, PodsChange, Zenon

(* WorkloadGone *)
LEMMA WorkloadGoneStep == ASSUME DeploymentInv, WorkloadGone PROVE DeploymentInv'
<1>1. /\ World /\ PassOK /\ pods = {} /\ workload' = NoWorkload
      /\ UNCHANGED <<scenario, api, world, configs, foreign, rs, pods, loads, view, pass>>
  BY Zenon DEF DeploymentInv, WorkloadGone
<1>2. /\ scenario \in Scenarios /\ Records /\ Storage /\ Pods /\ Generation /\ Gates
      /\ DOMAIN view = Lagging /\ Lagging' = Lagging /\ UNCHANGED <<art, removal, removed>>
  BY <1>1, Zenon DEF World, Lagging, world
<1>3. Generation' /\ Gates'
  BY <1>1, <1>2, Zenon DEF Generation, Gates
<1>4. World'
  BY <1>1, <1>2, <1>3, RecordsStay, StorageStays, PodsStay, Zenon DEF World
<1>5. PassOK'
  BY <1>1, PassWithstands, Zenon
<1> QED BY <1>4, <1>5, Zenon DEF DeploymentInv

(* InformerSync: what an informer shows afresh is no less than it showed,  *)
(* of what still exists.                                                   *)
LEMMA InformerStep == ASSUME DeploymentInv, NEW kind \in Lagging, InformerSync(kind) PROVE DeploymentInv'
<1>1. /\ World /\ PassOK /\ view' = [view EXCEPT ![kind] = Live[kind]]
      /\ UNCHANGED <<scenario, api, world, cluster, pass>>
  BY Zenon DEF DeploymentInv, InformerSync
<1>2. /\ scenario \in Scenarios /\ Records /\ Storage /\ Pods /\ Generation /\ Gates
      /\ DOMAIN view = Lagging /\ Lagging' = Lagging /\ UNCHANGED <<art, removal, removed>>
      /\ UNCHANGED <<configs, foreign, workload, rs, pods, loads>>
  BY <1>1, Zenon DEF World, Lagging, world, cluster
<1>3. DOMAIN view' = Lagging /\ \A k \in Lagging : view'[k] = IF k = kind THEN Live[kind] ELSE view[k]
  BY <1>1, <1>2, Zenon
<1>4. Live["pods"] = pods /\ Live["workloads"] = workload /\ Live["deployments"] = api
  BY DEF Live
<1>5. /\ Seen("pods")' = Seen("pods") \/ Seen("pods")' = pods
      /\ Seen("workloads")' = Seen("workloads") \/ Seen("workloads")' = workload
      /\ Seen("deployments")' = Seen("deployments") \/ Seen("deployments")' = api
  BY <1>1, <1>2, <1>3, <1>4, Shown, ShownNext, Zenon
<1>6. Records'
  BY <1>1, <1>2, <1>5, Zenon DEF Records, Past, Truthful
<1>7. Pods'
  BY <1>2, <1>5, Zenon DEF Pods, PodOK, SameFingerprint, Generation
<1>8. \A x \in pods : x.id \in Ids(Seen("pods")) => x.id \in Ids(Seen("pods"))'
  BY <1>2, <1>5, Zenon DEF Ids
<1>9. Seen("workloads") # NoWorkload => Seen("workloads")' # NoWorkload \/ api'.phase = "gone" \/ pods' = {}
  BY <1>1, <1>2, <1>5, Zenon DEF Generation
<1>10. \A u : Kept(u)' <=> Kept(u)
  BY <1>2, Zenon DEF Kept, UidOf
<1>11. Gates'
  <2> SUFFICES ASSUME NEW x \in pods', ~x.gated PROVE Scheduled(x)'
    BY Zenon DEF Gates
  <2>1. x \in pods /\ Scheduled(x)
    BY <1>2, Zenon DEF Gates
  <2>2. Seen("workloads")' # NoWorkload
    BY <1>1, <1>2, <1>9, <2>1, Zenon DEF Scheduled
  <2>3. Kept(x.fp.uid)' /\ x.id \in Ids(Seen("pods"))'
    BY <1>8, <1>10, <2>1, Zenon DEF Scheduled
  <2> QED BY <1>1, <1>2, <2>1, <2>2, <2>3, Zenon DEF Scheduled, Kept, UidOf, Ids
<1>12. World'
  BY <1>1, <1>2, <1>3, <1>6, <1>7, <1>11, StorageStays, GenerationStays, Zenon DEF World
<1>13. \A x \in pods' : Evolved(x) /\ (Kept(x.fp.uid) => Kept(x.fp.uid)')
  BY <1>2, <1>10, Zenon DEF Evolved
<1>14. PassOK'
  BY <1>1, <1>2, <1>8, <1>9, <1>13, PassWithstands, Zenon
<1> QED BY <1>12, <1>14, Zenon DEF DeploymentInv

-----------------------------------------------------------------------------
(* Users, others and the artifact controller.                              *)

(* SpecEdited, UserDeletes: an object with a finalizer is only marked. *)
LEMMA UserStep ==
  ASSUME DeploymentInv, UNCHANGED <<scenario, world, cluster, view, pass>>, api.phase = "live",
         \/ \E s \in AllSpecs : api' = [api EXCEPT !.spec = s, !.gen = @ + 1]
         \/ api' = [api EXCEPT !.phase = IF api.fin THEN "deleting" ELSE "gone"]
  PROVE  DeploymentInv'
<1>1. /\ World /\ PassOK /\ Past(api) /\ Gates
      /\ UNCHANGED <<configs, workload, pods, loads, art, removal>>
  BY Zenon DEF DeploymentInv, World, Records, cluster, world
<1>2. /\ DOMAIN api' = DeploymentFields /\ api'.status = api.status /\ api'.fin = api.fin
      /\ api'.spec \in AllSpecs /\ (api'.phase = "gone" => ~api.fin)
  BY <1>1, Zenon DEF Past, DeploymentFields
<1>3. api'.phase = "gone" => \A p \in pods : p.gated
  BY <1>1, <1>2, Zenon DEF Gates, Scheduled
<1>4. Truthful(api.status)'
  BY <1>1, <1>2, Zenon DEF Past, Truthful
<1>5. api.phase # "gone"
  BY Zenon
<1>6. World'
  BY <1>1, <1>2, <1>3, <1>4, <1>5, ApiChanges, Zenon
<1>7. Now \in {"gateArtifact", "lift"} => api'.phase # "gone"
  <2> SUFFICES ASSUME Now \in {"gateArtifact", "lift"} PROVE api.fin
    BY <1>2, Zenon
  <2>1. Now # "idle"
    BY Zenon
  <2>2. pass.obj.fin
    BY <1>1, <2>1, Zenon DEF PassOK, Stage, GateNow
  <2> QED BY <1>1, <1>5, <2>1, <2>2, Zenon DEF PassOK, Past
<1>8. Seen("pods")' = Seen("pods") /\ Seen("workloads")' = Seen("workloads")
  BY <1>1, SameShown, Zenon
<1>9. \A x \in pods' : Evolved(x) /\ (Kept(x.fp.uid) => Kept(x.fp.uid)')
  BY <1>1, Zenon DEF Evolved, Kept, UidOf
<1>10. \A x \in pods' : x.id \in Ids(Seen("pods")) => x.id \in Ids(Seen("pods"))'
  BY <1>8, Zenon DEF Ids
<1>11. PassOK'
  BY <1>1, <1>2, <1>5, <1>7, <1>8, <1>9, <1>10, PassWithstands, Zenon
<1> QED BY <1>6, <1>11, Zenon DEF DeploymentInv

(* Names, claims and endpoints: no part of the invariant. *)
LEMMA OutsideStep ==
  ASSUME DeploymentInv,
         UNCHANGED <<scenario, api, art, removal, removed, configs, workload, rs, pods, loads, view, pass>>,
         Taken("workload", None)' => workload = NoWorkload
  PROVE  DeploymentInv'
  BY WorldFrame, PassStays, Zenon DEF DeploymentInv

(* NameTaken, NameFreed *)
LEMMA NamesStep ==
  ASSUME DeploymentInv,
         \/ NameTaken("service", None) \/ NameTaken("workload", None)
         \/ \E fp \in Fingerprints : NameTaken("config", fp)
         \/ \E n \in foreign : NameFreed(n)
  PROVE  DeploymentInv'
<1>1. /\ UNCHANGED <<api, world, configs, workload, rs, pods, loads, view, pass>>
      /\ UNCHANGED scenario
  BY Zenon DEF NameTaken, NameFreed, Disrupt
<1>2. <<"workload", None>> \in foreign => workload = NoWorkload
  BY Zenon DEF DeploymentInv, World, Generation, Taken
<1>3. <<"workload", None>> \in foreign' => workload = NoWorkload
  <2>1. CASE NameTaken("service", None)
    BY <1>2, <2>1 DEF NameTaken
  <2>2. CASE NameTaken("workload", None)
    BY <1>2, <2>2 DEF NameTaken
  <2>3. CASE \E fp \in Fingerprints : NameTaken("config", fp)
    BY <1>2, <2>3 DEF NameTaken
  <2>4. CASE \E n \in foreign : NameFreed(n)
    BY <1>2, <2>4 DEF NameFreed
  <2> QED BY <2>1, <2>2, <2>3, <2>4, Zenon
<1> QED BY <1>1, <1>3, OutsideStep, Zenon DEF Taken, world

(* ClaimFails, ClaimRecovers, EndpointSync *)
LEMMA ClaimStep ==
  ASSUME DeploymentInv, ClaimFails \/ ClaimRecovers \/ EndpointSync
  PROVE  DeploymentInv'
<1>1. /\ UNCHANGED <<scenario, api, art, removal, removed, view, pass>>
      /\ UNCHANGED <<configs, foreign, workload, rs, pods, loads>>
  BY Zenon DEF ClaimFails, ClaimRecovers, EndpointSync, Disrupt, cluster, world
<1>2. Taken("workload", None)' => workload = NoWorkload
  BY <1>1, Zenon DEF DeploymentInv, World, Generation, Taken
<1> QED BY <1>1, <1>2, OutsideStep, Zenon

(* Steps of the artifact controller that keep the artifacts of all Pods. *)
LEMMA StorageChanges ==
  ASSUME DeploymentInv, UNCHANGED <<scenario, api, cluster, view, pass>>, Storage',
         \A p \in pods : Kept(p.fp.uid) => Kept(p.fp.uid)'
  PROVE  DeploymentInv'
<1>1. /\ scenario \in Scenarios /\ Records /\ Pods /\ Generation /\ Gates /\ PassOK
      /\ DOMAIN view = Lagging /\ Lagging' = Lagging
      /\ UNCHANGED <<configs, foreign, workload, rs, pods, loads>>
  BY Zenon DEF DeploymentInv, World, Lagging, cluster
<1>2. Seen("pods")' = Seen("pods") /\ Seen("workloads")' = Seen("workloads")
  BY <1>1, SameShown, Zenon
<1>3. Gates'
  <2> SUFFICES ASSUME NEW x \in pods', ~x.gated PROVE Scheduled(x)'
    BY Zenon DEF Gates
  <2>1. x \in pods /\ Scheduled(x)
    BY <1>1, Zenon DEF Gates
  <2>2. Kept(x.fp.uid)'
    BY <2>1, Zenon DEF Scheduled
  <2> QED BY <1>1, <1>2, <2>1, <2>2, Zenon DEF Scheduled, Ids, Kept, UidOf
<1>4. World'
  BY <1>1, <1>3, RecordsStay, PodsStay, GenerationStays, Zenon DEF World
<1>5. \A x \in pods' : Evolved(x) /\ (Kept(x.fp.uid) => Kept(x.fp.uid)')
  BY <1>1, Zenon DEF Evolved
<1>6. \A x \in pods' : x.id \in Ids(Seen("pods")) => x.id \in Ids(Seen("pods"))'
  BY <1>2, Zenon DEF Ids
<1>7. PassOK'
  BY <1>1, <1>2, <1>5, <1>6, PassWithstands, Zenon
<1> QED BY <1>4, <1>7, Zenon DEF DeploymentInv

(* ArtifactReady, ArtifactOutage, ArtifactDeleted, ArtifactCreated *)
LEMMA ArtifactStep ==
  ASSUME DeploymentInv, NEW a \in Artifacts,
         ArtifactReady(a) \/ ArtifactOutage(a) \/ ArtifactDeleted(a) \/ ArtifactCreated(a)
  PROVE  DeploymentInv'
<1>1. Storage /\ ArtifactOK(a)
  BY Zenon DEF DeploymentInv, World, Storage
<1>2. UNCHANGED <<scenario, api, cluster, view, pass, removal, removed>>
  BY Zenon DEF ArtifactReady, ArtifactOutage, ArtifactDeleted, ArtifactCreated, ArtifactBecomes, Disrupt
<1>3. PICK x : /\ art' = [art EXCEPT ![a] = x] /\ DOMAIN x = ArtifactFields
               /\ x.uid # 0 => <<a, x.uid>> \notin removed
               /\ x.deleting => x.uid # 0
               /\ removal[a] # "idle" => x.deleting
               /\ art[a].uid # 0 => x.uid = art[a].uid
               /\ art[a].uid # 0 /\ art[a].ready # "pending" => x.ready # "pending"
  <2>1. /\ DOMAIN art[a] = ArtifactFields /\ (art[a].uid # 0 => <<a, art[a].uid>> \notin removed)
        /\ (art[a].deleting => art[a].uid # 0) /\ (removal[a] # "idle" => art[a].deleting)
    BY <1>1, Zenon DEF ArtifactOK, UidOf
  <2>2. CASE ArtifactReady(a)
    <3> DEFINE x == [art[a] EXCEPT !.ready = "ready"]
    <3>1. DOMAIN x = ArtifactFields /\ x.uid = art[a].uid /\ x.deleting = art[a].deleting /\ x.ready = "ready"
      BY <2>1, Zenon DEF ArtifactFields
    <3>2. art' = [art EXCEPT ![a] = x]
      BY <2>2, Zenon DEF ArtifactReady, ArtifactBecomes
    <3> HIDE DEF x
    <3> QED BY <2>1, <3>1, <3>2, Zenon
  <2>3. CASE ArtifactOutage(a)
    <3> DEFINE x == [art[a] EXCEPT !.ready = "outage"]
    <3>1. DOMAIN x = ArtifactFields /\ x.uid = art[a].uid /\ x.deleting = art[a].deleting /\ x.ready = "outage"
      BY <2>1, Zenon DEF ArtifactFields
    <3>2. art' = [art EXCEPT ![a] = x]
      BY <2>3, Zenon DEF ArtifactOutage, ArtifactBecomes
    <3> HIDE DEF x
    <3> QED BY <2>1, <3>1, <3>2, Zenon
  <2>4. CASE ArtifactDeleted(a)
    <3> DEFINE x == [art[a] EXCEPT !.deleting = TRUE]
    <3>1. DOMAIN x = ArtifactFields /\ x.uid = art[a].uid /\ x.deleting = TRUE /\ x.ready = art[a].ready
      BY <2>1, Zenon DEF ArtifactFields
    <3>2. art' = [art EXCEPT ![a] = x] /\ art[a].uid # 0
      BY <2>4, Zenon DEF ArtifactDeleted, ArtifactBecomes
    <3> HIDE DEF x
    <3> QED BY <2>1, <3>1, <3>2, Zenon
  <2>5. CASE ArtifactCreated(a)
    <3>1. PICK uid : /\ <<a, uid>> \notin removed /\ art[a].uid = 0
                     /\ art' = [art EXCEPT ![a] = [Missing EXCEPT !.uid = uid]]
      BY <2>5, Zenon DEF ArtifactCreated, ArtifactBecomes
    <3> DEFINE x == [Missing EXCEPT !.uid = uid]
    <3>2. DOMAIN x = ArtifactFields /\ x.uid = uid /\ x.deleting = FALSE
      BY DEF Missing, ArtifactFields
    <3> HIDE DEF x
    <3> QED BY <2>1, <3>1, <3>2, Zenon DEF x
  <2> QED BY <2>2, <2>3, <2>4, <2>5, Zenon
<1>4. DOMAIN art' = Artifacts /\ art'[a] = x /\ \A b \in Artifacts : b # a => art'[b] = art[b]
  BY <1>1, <1>3, Zenon DEF Storage
<1>5. \A b \in Artifacts : ArtifactOK(b)'
  <2> SUFFICES ASSUME NEW b \in Artifacts PROVE ArtifactOK(b)'
    BY Zenon
  <2>1. CASE b = a
    BY <1>2, <1>3, <1>4, <2>1, Zenon DEF ArtifactOK, UidOf
  <2>2. CASE b # a
    BY <1>1, <1>2, <1>4, <2>2, Zenon DEF Storage, ArtifactOK, UidOf
  <2> QED BY <2>1, <2>2, Zenon
<1>6. Storage'
  BY <1>1, <1>2, <1>4, <1>5, Zenon DEF Storage
<1>7. ASSUME NEW u, Kept(u) PROVE Kept(u)'
  <2>1. PICK b \in Artifacts : /\ u = UidOf(b, art[b]) /\ art[b].uid # 0
                               /\ art[b].ready # "pending" /\ removal[b] # "unserved"
    BY <1>7, Zenon DEF Kept
  <2>2. /\ art'[b].uid = art[b].uid /\ art'[b].ready # "pending" /\ removal'[b] # "unserved"
    BY <1>2, <1>3, <1>4, <2>1, Zenon
  <2> QED BY <2>1, <2>2, Zenon DEF Kept, UidOf
<1> QED BY <1>2, <1>6, <1>7, StorageChanges, Zenon

(* The deletion pass of an artifact: the Pods are looked at after the      *)
(* references and before the files go.                                     *)
LEMMA RemovalStep ==
  ASSUME DeploymentInv, NEW a \in Artifacts, CheckReferences(a) \/ CheckPods(a) \/ RemoveFiles(a)
  PROVE  DeploymentInv'
<1>1. Storage /\ ArtifactOK(a) /\ art[a].deleting
  BY Zenon DEF DeploymentInv, World, Storage, CheckReferences, CheckPods, RemoveFiles, Removal
<1>2. UNCHANGED <<scenario, api, cluster, view, pass>>
  BY Zenon DEF CheckReferences, CheckPods, RemoveFiles, Removal
<1>3. CASE CheckReferences(a) \/ CheckPods(a)
  <2>1. PICK to : /\ removal' = [removal EXCEPT ![a] = to] /\ UNCHANGED <<art, removed>>
                  /\ to = "unserved" => ~HeldByPods(a)
    <3>1. CASE CheckReferences(a)
      <4>1. removal' = [removal EXCEPT ![a] = "unreferenced"] /\ UNCHANGED <<art, removed>>
        BY <3>1, Zenon DEF CheckReferences, Removal
      <4>2. "unreferenced" # "unserved"
        OBVIOUS
      <4> QED BY <4>1, <4>2, Zenon
    <3>2. CASE CheckPods(a)
      <4> DEFINE to == IF HeldByPods(a) THEN "idle" ELSE "unserved"
      <4>1. removal' = [removal EXCEPT ![a] = to] /\ UNCHANGED <<art, removed>>
        BY <3>2, Zenon DEF CheckPods, Removal
      <4>2. to = "unserved" => ~HeldByPods(a)
        OBVIOUS
      <4> HIDE DEF to
      <4> QED BY <4>1, <4>2, Zenon
    <3> QED BY <1>3, <3>1, <3>2, Zenon
  <2>2. /\ DOMAIN removal' = Artifacts /\ removal'[a] = to
        /\ \A b \in Artifacts : b # a => removal'[b] = removal[b]
    BY <1>1, <2>1, Zenon DEF Storage
  <2>3. \A b \in Artifacts : ArtifactOK(b)'
    BY <1>1, <2>1, <2>2, Zenon DEF Storage, ArtifactOK, UidOf
  <2>4. Storage'
    BY <1>1, <2>1, <2>2, <2>3, Zenon DEF Storage
  <2>5. ASSUME NEW p \in pods, Kept(p.fp.uid) PROVE Kept(p.fp.uid)'
    <3>1. PICK b \in Artifacts : /\ p.fp.uid = UidOf(b, art[b]) /\ art[b].uid # 0
                                 /\ art[b].ready # "pending" /\ removal[b] # "unserved"
      BY <2>5, Zenon DEF Kept
    <3>2. b = a => HeldByPods(a)
      BY <3>1, Zenon DEF HeldByPods
    <3>3. removal'[b] # "unserved"
      BY <2>1, <2>2, <3>1, <3>2, Zenon
    <3>4. p.fp.uid = UidOf(b, art'[b]) /\ art'[b].uid # 0 /\ art'[b].ready # "pending"
      BY <2>1, <3>1, Zenon
    <3>5. \E c \in Artifacts : /\ p.fp.uid = UidOf(c, art'[c]) /\ art'[c].uid # 0
                               /\ art'[c].ready # "pending" /\ removal'[c] # "unserved"
      BY <3>3, <3>4, Zenon
    <3>6. \A u : u = p.fp.uid => Kept(u)'
      BY <3>5, Zenon DEF Kept, UidOf
    <3>7. pods' = pods
      BY <1>2, Zenon DEF cluster
    <3> QED BY <3>6, Zenon
  <2> QED BY <1>2, <2>4, <2>5, StorageChanges, Zenon
<1>4. CASE RemoveFiles(a)
  <2>1. /\ removal[a] = "unserved" /\ removal' = [removal EXCEPT ![a] = "idle"]
        /\ art' = [art EXCEPT ![a] = Missing] /\ removed' = removed \cup {UidOf(a, art[a])}
    BY <1>4, Zenon DEF RemoveFiles, Removal
  <2>2. /\ DOMAIN removal' = Artifacts /\ removal'[a] = "idle"
        /\ DOMAIN art' = Artifacts /\ art'[a] = Missing
        /\ \A b \in Artifacts : b # a => removal'[b] = removal[b] /\ art'[b] = art[b]
    BY <1>1, <2>1, Zenon DEF Storage
  <2>3. DOMAIN Missing = ArtifactFields /\ Missing.uid = 0 /\ Missing.deleting = FALSE
    BY DEF Missing, ArtifactFields
  <2>4. ASSUME NEW b \in Artifacts PROVE ArtifactOK(b)'
    <3>1. CASE b = a
      BY <2>2, <2>3, <3>1, Zenon DEF ArtifactOK
    <3>2. CASE b # a
      <4>1. UidOf(b, art[b]) # UidOf(a, art[a])
        BY <3>2 DEF UidOf
      <4>2. ArtifactOK(b)
        BY <1>1, Zenon DEF Storage
      <4> QED BY <2>1, <2>2, <3>2, <4>1, <4>2, Zenon DEF ArtifactOK, UidOf
    <3> QED BY <3>1, <3>2, Zenon
  <2>5. Storage'
    BY <2>2, <2>4, Zenon DEF Storage
  <2>6. ASSUME NEW u, Kept(u) PROVE Kept(u)'
    BY <2>1, <2>2, <2>6, Zenon DEF Kept, UidOf
  <2> QED BY <1>2, <2>5, <2>6, StorageChanges, Zenon
<1> QED BY <1>3, <1>4, Zenon

-----------------------------------------------------------------------------
(* All steps.                                                              *)

(* Steps of single Pods. *)
LEMMA PodStep ==
  ASSUME DeploymentInv, NEW p \in pods,
         PodStarts(p) \/ PodLoads(p) \/ PodMisloads(p) \/ Evicted(p) \/ PodGone(p)
  PROVE  DeploymentInv'
<1>1. CASE PodStarts(p)
  <2>1. "loading" # "ready"
    OBVIOUS
  <2> QED BY <1>1, <2>1, PodBecomes, Zenon DEF PodStarts
<1>2. CASE PodLoads(p)
  BY <1>2, PodBecomes, Zenon DEF PodLoads
<1>3. CASE PodMisloads(p)
  <2>1. PICK state \in {"failed", "wrong"} : Becomes(p, state)
    BY <1>3, Zenon DEF PodMisloads
  <2>2. state # "ready"
    BY <2>1
  <2>3. UNCHANGED <<scenario, api, world, configs, foreign, workload, rs, loads, view, pass>>
    BY <1>3, Zenon DEF PodMisloads, Disrupt
  <2> QED BY <2>1, <2>2, <2>3, PodBecomes, Zenon
<1>4. CASE Evicted(p)
  <2>1. UNCHANGED <<scenario, api, world, configs, foreign, workload, rs, loads, view, pass>>
    BY <1>4, Zenon DEF Evicted, Disrupt
  <2> QED BY <1>4, <2>1, PodsLeave, Zenon DEF Evicted
<1> QED BY <1>1, <1>2, <1>3, <1>4, PodGoneStep, Zenon

(* Everything beside the passes. *)
LEMMA EnvironmentKeeps == ASSUME DeploymentInv, Environment PROVE DeploymentInv'
<1>1. DependentsDeleted => DeploymentInv'
  BY PodsLeave, Zenon DEF DependentsDeleted
<1>2. OwnerCollected => DeploymentInv'
  BY PodsLeave, Zenon DEF OwnerCollected
<1>3. ASSUME NEW s \in Specs, SpecEdited(s) PROVE DeploymentInv'
  <2>1. s \in AllSpecs
    BY DeploymentAssumption DEF DeploymentInv, World, Specs
  <2>2. UNCHANGED scenario
    BY <1>3, Zenon DEF SpecEdited, Disrupt
  <2> QED BY <1>3, <2>1, <2>2, UserStep, Zenon DEF SpecEdited
<1>4. ASSUME UserDeletes PROVE DeploymentInv'
  <2>1. UNCHANGED scenario
    BY <1>4, Zenon DEF UserDeletes, Disrupt
  <2> QED BY <1>4, <2>1, UserStep, Zenon DEF UserDeletes
<1>5. ASSUME ManagerRestarts PROVE DeploymentInv'
  <2>1. Done /\ UNCHANGED <<scenario, api, world, cluster, view>>
    BY <1>5, Zenon DEF ManagerRestarts, Disrupt
  <2>2. World'
    BY <2>1, WorldStays, Zenon DEF DeploymentInv, cluster
  <2> QED BY <2>1, <2>2, PassEnds, Zenon DEF DeploymentInv
<1> QED
  BY <1>1, <1>2, <1>3, <1>4, <1>5, RollOutStep, ReplicaStartsStep, WorkloadGoneStep, ClaimStep,
     PodStep, InformerStep, ReadStateStep, NamesStep, ArtifactStep, RemovalStep, Zenon DEF Environment

(* The first state. *)
LEMMA InitKeeps == ASSUME Init PROVE DeploymentInv
<1>1. /\ scenario \in Scenarios /\ removed = {} /\ configs = {} /\ foreign = {}
      /\ workload = NoWorkload /\ rs = None /\ pods = {} /\ pass = Idle
      /\ art = [a \in Artifacts |-> [Missing EXCEPT !.uid = IF a \in Models THEN 1 ELSE 0]]
      /\ removal = [a \in Artifacts |-> "idle"] /\ view = [kind \in Lagging |-> Live[kind]]
  BY Zenon DEF Init
<1>2. PICK s \in Specs :
        api = [phase |-> "live", fin |-> FALSE, gen |-> 1, spec |-> s, status |-> NoStatus]
  BY Zenon DEF Init
<1>3. s \in AllSpecs
  BY <1>1, DeploymentAssumption DEF Specs
<1>4. DOMAIN NoStatus = StatusFields /\ NoStatus.loaded = None
  BY DEF NoStatus, StatusFields
<1>5. DOMAIN api = DeploymentFields /\ api.fin = FALSE /\ api.spec = s /\ api.status = NoStatus
  BY <1>2, Zenon DEF DeploymentFields
<1>6. Past(api)
  BY <1>3, <1>4, <1>5, Zenon DEF Past, Truthful
<1>7. Live["deployments"] = api
  BY DEF Live
<1>8. Seen("deployments") = api
  BY <1>1, <1>7, Shown, Zenon
<1>9. Records
  BY <1>6, <1>8, Zenon DEF Records, Past, Truthful
<1>10. Storage
  <2>1. ASSUME NEW a \in Artifacts PROVE ArtifactOK(a)
    <3>1. removal[a] = "idle" /\ art[a] = [Missing EXCEPT !.uid = IF a \in Models THEN 1 ELSE 0]
      BY <1>1, Zenon
    <3>2. DOMAIN art[a] = ArtifactFields /\ art[a].deleting = FALSE
      BY <3>1 DEF Missing, ArtifactFields
    <3> QED BY <1>1, <3>1, <3>2, Zenon DEF ArtifactOK
  <2> QED BY <1>1, <2>1, Zenon DEF Storage
<1>11. Pods /\ Generation /\ Gates
  BY <1>1, Zenon DEF Pods, Generation, Gates, SameFingerprint, Taken
<1>12. World
  BY <1>1, <1>9, <1>10, <1>11, Zenon DEF World
<1>13. DOMAIN pass = PassFields /\ pass.plan = <<>> /\ pass.want = NoStatus
  BY <1>1, Zenon DEF Idle, PassFields
<1>14. Now = "idle" /\ <<>> \in Plans /\ Truthful(pass.want)
  BY <1>4, <1>13, Zenon DEF Now, First, Plans, Truthful
<1> QED BY <1>12, <1>13, <1>14, Zenon DEF DeploymentInv, PassOK

-----------------------------------------------------------------------------
(* Theorems.                                                               *)

(* The invariant holds throughout: of the deployment, its Pods and the     *)
(* artifacts, and of what a pass relies on between two of its calls,       *)
(* whatever the user, the cluster, the artifact controller and the         *)
(* informers do meanwhile.                                                 *)
THEOREM DeploymentInvariant == Spec => []DeploymentInv
<1>1. Init => DeploymentInv
  BY InitKeeps, Zenon
<1>2. DeploymentInv /\ [Next]_vars => DeploymentInv'
  <2> SUFFICES ASSUME DeploymentInv, [Next]_vars PROVE DeploymentInv'
    BY Zenon
  <2>1. CASE UNCHANGED vars
    <3>1. UNCHANGED <<scenario, api, world, cluster, view, pass>>
      BY <2>1, Zenon DEF vars
    <3>2. World'
      BY <3>1, WorldStays, Zenon DEF DeploymentInv, cluster
    <3>3. PassOK'
      BY <3>1, PassStays, Zenon DEF DeploymentInv, cluster, world
    <3> QED BY <3>2, <3>3, Zenon DEF DeploymentInv
  <2> QED BY <2>1, ReconcileStep, PassStepKeeps, EnvironmentKeeps, Zenon DEF Next
<1> QED BY <1>1, <1>2, PTL DEF Spec

(* ScheduledPodsHaveMounts always holds: a Pod whose scheduling gate was   *)
(* lifted keeps its artifact's files, and its runtime ConfigMap until it   *)
(* leaves, however old the informers' copies are.                          *)
THEOREM MountsAreThere == Spec => []ScheduledPodsHaveMounts
<1>1. DeploymentInv => ScheduledPodsHaveMounts
  <2> SUFFICES ASSUME DeploymentInv, NEW p \in pods, ~p.gated
               PROVE  p.fp.uid \notin removed /\ (~p.leaving => p.fp \in configs)
    BY Zenon DEF ScheduledPodsHaveMounts
  <2>1. Scheduled(p) /\ Storage
    BY Zenon DEF DeploymentInv, World, Gates
  <2>2. PICK a \in Artifacts : p.fp.uid = UidOf(a, art[a]) /\ art[a].uid # 0
    BY <2>1, Zenon DEF Scheduled, Kept
  <2>3. ArtifactOK(a)
    BY <2>1, Zenon DEF Storage
  <2> QED BY <2>1, <2>2, <2>3, Zenon DEF Scheduled, ArtifactOK
<1> QED BY <1>1, DeploymentInvariant, PTL

(* OneGeneration always holds: Pods of two fingerprints are never          *)
(* scheduled together.                                                     *)
THEOREM GenerationsExclude == Spec => []OneGeneration
<1>1. DeploymentInv => OneGeneration
  BY Zenon DEF DeploymentInv, World, Generation, OneGeneration
<1> QED BY <1>1, DeploymentInvariant, PTL

(* FinalizedDrained always holds: when the finalizer is taken off, no      *)
(* serving Pod is scheduled, and none is afterwards.                       *)
THEOREM FinalizedIsDrained == Spec => []FinalizedDrained
<1>1. DeploymentInv => FinalizedDrained
  BY Zenon DEF DeploymentInv, World, Gates, Scheduled, FinalizedDrained
<1> QED BY <1>1, DeploymentInvariant, PTL

(* LoadedWasLoaded always holds: what the status calls loaded, some Pod    *)
(* has loaded.                                                             *)
THEOREM LoadedIsTruthful == Spec => []LoadedWasLoaded
<1>1. DeploymentInv => LoadedWasLoaded
  BY Zenon DEF DeploymentInv, World, Records, Past, Truthful, LoadedWasLoaded
<1> QED BY <1>1, DeploymentInvariant, PTL

=============================================================================
