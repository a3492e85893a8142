---------------------------- MODULE MCDeployment ----------------------------
(* Instances of DeploymentController for TLC: s1 and s2 refer to x1, s3 to *)
(* x2, and bad is not valid.                                               *)
EXTENDS DeploymentController

CONSTANTS x1, x2, s1, s2, s3, bad

MCSpecs   == {s1, s2, s3, bad}
MCModelOf == [s \in MCSpecs |-> IF s = s3 THEN x2 ELSE x1]
OnlyBad   == {bad}

Scenario(specs, created, lagging, faults, disruptions, progress) ==
  [specs |-> specs, created |-> created, lagging |-> lagging, faults |-> faults,
   disruptions |-> disruptions, progress |-> progress]

(* The artifact informer lags while models are switched and deleted; the    *)
(* informers of the workload lag while it is replaced and deleted; passes   *)
(* work from a stale deployment, through one disruption of any kind and     *)
(* through two outages, or one and a deletion; storage fails while names    *)
(* collide and the runtime loads badly.                                     *)
Hostile ==
  {Scenario({s1, s3}, 1, {"artifacts"}, {"edit", "artifact"}, 2, FALSE),
   Scenario({s1, s2}, 1, {"workloads", "pods"}, {"edit", "delete", "evict"}, 1, FALSE),
   Scenario({s1, s2}, 1, {"deployments", "workloads"}, {"edit", "delete", "outage"}, 1, FALSE),
   Scenario({s1}, 1, {"deployments"}, {"delete", "outage"}, 2, FALSE),
   Scenario({s1, bad}, 2, {"artifacts", "claims"},
            {"edit", "outage", "claim", "artifact", "squat", "load", "read", "crash"}, 2, FALSE)}

(* Every disruption but a bad load once, with and without lag; edits during *)
(* outages and the loss of a Pod around that of its artifact.               *)
Settling ==
  {Scenario({s1, s2}, 1, {}, AllFaults \ {"load"}, 1, TRUE),
   Scenario({s1, s2}, 1, {}, {"edit", "outage"}, 2, TRUE),
   Scenario({s1}, 2, {}, {"evict", "delete", "artifact"}, 2, TRUE),
   Scenario({s1, s2}, 1, {"artifacts", "workloads"}, AllFaults \ {"load"}, 1, TRUE)}

MCScenarios == Hostile \cup Settling
=============================================================================
