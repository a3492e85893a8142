------------------------------- MODULE MCCache -------------------------------
(* Instances of CacheController for TLC: c1 manages the claim, c2 adopts it.    *)
EXTENDS CacheController, TLC

CONSTANTS c1, c2, x1

Typical ==
  [caches |-> {c1}, via |-> <<>>, claims |-> 1, wait |-> FALSE, retention |-> {"Delete"},
   failures |-> {}, faults |-> {}, delays |-> {}, lagging |-> {}, late |-> {}, disruptions |-> 1,
   progress |-> FALSE]

(* Probes fail and claims are replaced while an artifact uses the cache; the    *)
(* claim is deleted or retained while informers lag, and while another cache    *)
(* adopts it, for an artifact or with claims and Jobs that are seen late; and   *)
(* what must end well.                                                          *)
MCScenarios ==
  {[Typical EXCEPT !.via = x1 :> c1, !.claims = 2, !.retention = {"Retain"},
      !.failures = {"invalid", "lost", "unsupported"},
      !.faults = {"deleted", "lost", "altered"}, !.delays = {"retry", "interval"}],
   [Typical EXCEPT !.via = x1 :> None, !.retention = {"Retain", "Delete"}, !.faults = {"prearmed"},
      !.lagging = {"caches", "claims"}],
   [Typical EXCEPT !.via = x1 :> None, !.lagging = {"caches", "claims"}, !.late = {c1},
      !.disruptions = 0],
   [Typical EXCEPT !.caches = {c1, c2}, !.via = x1 :> c2, !.disruptions = 0],
   [Typical EXCEPT !.caches = {c1, c2}, !.lagging = {"claims"}, !.late = {c2}, !.disruptions = 0],
   [Typical EXCEPT !.claims = 2, !.wait = TRUE, !.failures = {"failed", "full", "lost"},
      !.faults = {"deleted"}, !.delays = {"retry", "interval"}, !.progress = TRUE]}
=============================================================================
