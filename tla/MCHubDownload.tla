--------------------------- MODULE MCHubDownload ---------------------------
(* An instance of HubDownload: versions of at most three blocks.           *)
EXTENDS HubDownload

CONSTANTS a, b

TwoValues == {a, b}
Words(n) == [1 .. n -> TwoValues]
UpToThree == Words(1) \cup {<<a, a>>, <<a, b>>} \cup {<<a, b, a>>}

(* One server answers in full except for lengths, the other as it likes. *)
Answering(some) ==
  [sizes |-> some, heads |-> some, ranges |-> some, tagged |-> some, lengths |-> BOOLEAN]
BothKinds == {Answering({TRUE}), Answering(BOOLEAN)}
=============================================================================
