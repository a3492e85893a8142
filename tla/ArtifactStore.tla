---------------------------- MODULE ArtifactStore ----------------------------
(***************************************************************************)
(* What the content-addressed cache promises (docs/adr/0004, and the        *)
(* comments of Publish and RecoverPublished): content is published once, as *)
(* a whole, and stays; an operation reports only published content, and     *)
(* every retry of it reports the same content.  Crashes are invisible.      *)
(***************************************************************************)
CONSTANTS Operation, Digest

VARIABLES
  published,   \* digests with a valid manifest and READY
  reported     \* per operation: the digests its successful results name

Init ==
  /\ published = {}
  /\ reported = [o \in Operation |-> {}]

(* One digest becomes visible, whole. *)
Publish(d) ==
  /\ published' = published \cup {d}
  /\ UNCHANGED reported

(* An operation succeeds with published content, always the same. *)
Report(o, d) ==
  /\ d \in published
  /\ reported[o] \subseteq {d}
  /\ reported' = [reported EXCEPT ![o] = {d}]
  /\ UNCHANGED published

Next ==
  \/ \E d \in Digest : Publish(d)
  \/ \E o \in Operation, d \in Digest : Report(o, d)

Spec == Init /\ [][Next]_<<published, reported>>
=============================================================================
