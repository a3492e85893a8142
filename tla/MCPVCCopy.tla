----------------------------- MODULE MCPVCCopy -----------------------------
(* An instance of PVCCopy: two files of up to three blocks.                *)
EXTENDS PVCCopy

CONSTANTS a, b

TwoValues == {a, b}

(* Contents that share a prefix, and one that is shorter. *)
UpToThree == {<<a, a, b>>, <<a, b, b>>, <<b>>}
=============================================================================
