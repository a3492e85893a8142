------------------------- MODULE MCRuntimeContract -------------------------
(***************************************************************************)
(* Small limits with every boundary on both sides: concurrency up to 4, a  *)
(* largest integer of 31, drains of 2 to 4 seconds in half seconds.        *)
(***************************************************************************)
EXTENDS RuntimeContract

MCWords ==
  {"", "CPU", "Accelerator", GPU, "other", "f16", "q8_0", "q4_0", "f32", "Auto", "Disabled", "on"}

Plain ==
  [mode |-> "CPU", accelerator |-> "", concurrency |-> None, context |-> None, drain |-> None,
   keyType |-> "", valueType |-> "", batch |-> None, micro |-> None, threads |-> None,
   batchThreads |-> None, flash |-> "", owned |-> FALSE, others |-> TRUE]

Limits ==
  {[Plain EXCEPT !.concurrency = n, !.context = t, !.drain = d] :
     n \in {None, -1, 0, 1, 2, 3, 4, 5}, t \in {None, -1, 0, 1, 7, 8, 10, 11, 15, 16, 31, 32},
     d \in {None, -1, 0, 1, 3, 4, 5, 7, 8, 9}}

Tuning ==
  {[Plain EXCEPT !.batch = b, !.micro = u, !.threads = t, !.batchThreads = v, !.flash = f] :
     b \in {None, 0, 1, 2, 5}, u \in {None, 0, 1, 2, 3, 6}, t \in {None, 0, 2}, v \in {None, -1, 1},
     f \in {"", "Auto", "Disabled", "on"}}

Placements ==
  {[Plain EXCEPT !.mode = p, !.accelerator = a, !.keyType = k, !.valueType = w, !.owned = o,
                    !.others = g] :
     p \in {"", "CPU", "Accelerator"}, a \in {"", GPU, "other"}, k \in {"", "q8_0", "f32"},
     w \in {"", "f16", "q4_0"}, o \in BOOLEAN,
     g \in BOOLEAN}

MCSpecs == Limits \cup Tuning \cup Placements
=============================================================================
