------------------------- MODULE MCSpacePreflight -------------------------
(* Words of 16 values; the sum and the reserve reach and pass the last one. *)
EXTENDS SpacePreflight

SomeSizes == {0, 1, 5, 11, 15}

=============================================================================
