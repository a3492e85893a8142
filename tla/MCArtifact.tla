----------------------------- MODULE MCArtifact -----------------------------
(* Instances of ArtifactController for TLC. *)
EXTENDS ArtifactController

CONSTANTS a1, a2, d1, d2

Typical ==
  [artifacts |-> {a1}, mode |-> "Hub", credential |-> FALSE, pinned |-> None, caches |-> 1,
   claims |-> 1, lag |-> FALSE, expiry |-> FALSE, serve |-> FALSE, failures |-> {},
   disruptions |-> 1, progress |-> FALSE]

(* Imports fail, Leases expire and the informer lags; the storage of a copy is *)
(* replaced while a Pod serves it; two artifacts compete for one Lease; and    *)
(* what must end well.                                                        *)
MCScenarios ==
  {[Typical EXCEPT !.lag = TRUE, !.expiry = TRUE, !.disruptions = 2,
      !.failures = {"SourceUnavailable", "InsufficientStorage", "ChecksumMismatch", "lost",
                    "invalid", "foreign"}],
   [Typical EXCEPT !.mode = "Copy", !.caches = 2, !.claims = 2, !.serve = TRUE,
      !.failures = {"SourceUnavailable"}, !.disruptions = 2],
   [Typical EXCEPT !.artifacts = {a1, a2}, !.disruptions = 0],
   [Typical EXCEPT !.pinned = d1, !.lag = TRUE, !.progress = TRUE,
      !.failures = {"SourceUnavailable", "lost", "invalid"}]}
=============================================================================
