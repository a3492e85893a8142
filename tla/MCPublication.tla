--------------------------- MODULE MCPublication ---------------------------
(* Instances of Publication.  w1 and w2 are two Jobs of the same operation    *)
(* o1, w3 runs o2, which belongs to another artifact.                         *)
EXTENDS Publication, TLC

CONSTANTS o1, o2, w1, w2, w3, a1, a2, d1, d2

ThreeWorkers == w1 :> o1 @@ w2 :> o1 @@ w3 :> o2
OwnArtifacts == o1 :> a1 @@ o2 :> a2
=============================================================================
