------------------------------- MODULE Disk -------------------------------
(* What a crash of the node leaves of a file, a sequence of blocks.        *)
EXTENDS Naturals, Sequences

CONSTANT Garbage \* what a crash may leave in a block that was not synced

(* The first `kept` blocks are as they were synced and have not been       *)
(* written since.  Behind them each block is as synced, as written, or     *)
(* neither, and the file ends anywhere.                                    *)
Remains(synced, written, kept) ==
  LET long == IF Len(synced) > Len(written) THEN Len(synced) ELSE Len(written)
      Block(i) == IF i <= kept THEN {synced[i]}
                  ELSE {Garbage} \cup (IF i <= Len(synced) THEN {synced[i]} ELSE {})
                                 \cup (IF i <= Len(written) THEN {written[i]} ELSE {})
      Left == UNION {Block(i) : i \in 1 .. long}
  IN {s \in UNION {[1 .. n -> Left] : n \in kept .. long} : \A i \in DOMAIN s : s[i] \in Block(i)}

=============================================================================
