--------------------------- MODULE TransferProofs --------------------------
(* Proofs about the transfers that stay inside the cluster: the copy and   *)
(* the free-space check before a transfer.                                 *)
(*                                                                         *)
(* A finished copy is a state the source was in, and durable, for every    *)
(* number of files, every content and any number of changes and faults.    *)
(*                                                                         *)
(* The argument: once every file is prepared, either the recorded contents *)
(* are a past state of the source, or some file that is still to be copied *)
(* carries another stamp than the recorded one (Outdated).  A stamp never  *)
(* comes back, so that file fails its check, and a copy that finishes has  *)
(* excluded the second case for the last file.                             *)
EXTENDS PVCCopy, SpacePreflight, TLAPS

Bytes == Blocks \cup {Garbage}
Record == [data : Seq(Blocks), stamp : Nat]

DataTypes ==
  /\ source \in [Files -> Record] /\ open \in [Files -> Record]
  /\ plan \in [Files -> [data : Seq(Blocks), stamp : Nat, resume : Nat]]
  /\ staged \in [Files -> Seq(Bytes)] /\ durable \in [Files -> Seq(Bytes)]

ControlTypes ==
  /\ pc \in {"idle", "open", "match", "reset", "check", "compare", "copy", "recheck", "done"}
  /\ file \in Files /\ at \in Nat \ {0} /\ mark \in Nat
  /\ changes \in Nat /\ changes <= MaxChanges

Preparing == pc \in {"open", "match", "reset"}
Copying == pc \in {"check", "compare", "copy", "recheck", "done"}

Snapshots == [f \in Files |-> plan[f].data]
Current == [f \in Files |-> source[f].data]

(* Stamps in use are older than the next one. *)
StampsOld ==
  \A f \in Files : /\ source[f].stamp <= Fresh /\ open[f].stamp <= Fresh
                   /\ plan[f].stamp <= Fresh

(* A file is opened in this attempt, and has not been changed since. *)
Opened(f) == Copying \/ (Preparing /\ (f < file \/ (f = file /\ pc # "open")))
Unchanged(f) == open[f].stamp = plan[f].stamp

UnchangedIsCurrent ==
  \A f \in Files : Opened(f) /\ Unchanged(f) =>
     open[f].data = plan[f].data /\ source[f].data = plan[f].data

(* Credit never exceeds the recorded size. *)
CreditFits ==
  \A f \in Files :
    Copying \/ (Preparing /\ f < file) \/ (pc = "match" /\ f = file) => plan[f].resume <= Size(f)

Pending(f) == pc # "done" /\ f >= file

SnapshotOrOutdated ==
  Copying => \/ Snapshots \in history
             \/ \E f \in Files : Pending(f) /\ ~Unchanged(f)

Finished(f) == Copying /\ (f < file \/ pc = "done")

FinishedIsCopied ==
  \A f \in Files : Finished(f) => staged[f] = plan[f].data /\ durable[f] = staged[f]

(* What is staged of the current file, if its source has not changed. *)
Agree(n) == \A i \in 1 .. n : staged[file][i] = plan[file].data[i]

PrefixAgrees ==
  /\ pc = "compare" => Len(staged[file]) = plan[file].resume /\ at <= plan[file].resume + 1
  /\ pc = "compare" /\ Unchanged(file) => Agree(at - 1)
  /\ pc \in {"copy", "recheck"} => at = Len(staged[file]) + 1 /\ at <= Size(file) + 1
  /\ pc \in {"copy", "recheck"} /\ Unchanged(file) => Agree(at - 1)
  /\ pc = "recheck" => at > Size(file) /\ durable[file] = staged[file]

(* The inductive invariant. *)
CopyInv ==
  /\ DataTypes /\ ControlTypes /\ Current \in history
  /\ StampsOld /\ UnchangedIsCurrent /\ CreditFits
  /\ SnapshotOrOutdated /\ FinishedIsCopied /\ PrefixAgrees

USE CopyAssumption DEF Files

(* At the start nothing is opened and the only state is the current one.   *)
LEMMA InitHolds == Init => CopyInv
<1> SUFFICES ASSUME Init PROVE CopyInv
  OBVIOUS
<1>1. DataTypes /\ ControlTypes
  BY DEF Init, DataTypes, ControlTypes, Record, NoPlan, Bytes
<1>2. StampsOld
  BY DEF Init, StampsOld, Fresh, NoPlan
<1> QED
  BY <1>1, <1>2, Zenon DEF Init, CopyInv, Current, UnchangedIsCurrent, Opened, Copying, Preparing,
     CreditFits, SnapshotOrOutdated, FinishedIsCopied, Finished, PrefixAgrees

(* A new attempt opens no file yet. *)
LEMMA StartStep == CopyInv /\ Start => CopyInv'
<1> SUFFICES ASSUME CopyInv, Start PROVE CopyInv'
  OBVIOUS
<1>1. pc = "idle" /\ file \in 1 .. FileCount
  BY Zenon DEF Start, CopyInv, ControlTypes
<1>2. \/ pc' = "open" /\ file' = 1 /\ at' = 1
  BY Zenon DEF Start, GoTo, NoPlan, CopyInv, ControlTypes
<1>3. mark' = 0 /\ plan' = [f \in Files |-> NoPlan] /\ UNCHANGED <<staged, durable>> /\ UNCHANGED <<source, history, open, changes>>
  BY Zenon DEF Start, sourceVars, NoPlan, CopyInv, DataTypes, ControlTypes
<1>4. ControlTypes'
  BY <1>1, <1>2, <1>3 DEF CopyInv, ControlTypes
<1>5. DataTypes'
  <2>1. plan' \in [Files -> [data : Seq(Blocks), stamp : Nat, resume : Nat]]
    BY <1>3 DEF NoPlan
  <2> QED
    BY <2>1, <1>3, Zenon DEF CopyInv, DataTypes
<1>6. StampsOld' /\ (Current \in history)'
  <2>1. Fresh \in Nat /\ Fresh' = Fresh
    BY <1>3 DEF CopyInv, ControlTypes, Fresh
  <2> QED
    BY <2>1, <1>3 DEF CopyInv, StampsOld, Current, NoPlan
<1>7. UnchangedIsCurrent'
  BY <1>1, <1>2, <1>3 DEF CopyInv, DataTypes, ControlTypes, UnchangedIsCurrent, Opened, Unchanged,
     Copying, Preparing
<1>8. CreditFits'
  BY <1>1, <1>2, <1>3 DEF CopyInv, DataTypes, ControlTypes, CreditFits, Size, Copying, Preparing
<1>9. SnapshotOrOutdated'
  BY <1>1, <1>2, <1>3, Zenon DEF CopyInv, ControlTypes, SnapshotOrOutdated, Unchanged, Pending, Snapshots,
     Copying
<1>10. FinishedIsCopied'
  BY <1>1, <1>2, <1>3, Zenon DEF CopyInv, DataTypes, ControlTypes, FinishedIsCopied, Finished, Copying
<1>11. PrefixAgrees'
  BY <1>1, <1>2, <1>3, Zenon DEF CopyInv, DataTypes, ControlTypes, PrefixAgrees, Agree, Unchanged, Size
<1> QED
  BY <1>4, <1>5, <1>6, <1>7, <1>8, <1>9, <1>10, <1>11, Zenon DEF CopyInv

(* Opening records what the source is now. *)
LEMMA OpenSourceStep == CopyInv /\ OpenSource => CopyInv'
<1> SUFFICES ASSUME CopyInv, OpenSource PROVE CopyInv'
  OBVIOUS
<1>1. pc = "open" /\ file \in 1 .. FileCount
  BY Zenon DEF OpenSource, CopyInv, ControlTypes
<1>2. \/ Len(staged[file]) <= Len(source[file].data) /\ pc' = "match" /\ file' = file /\ at' = 1
      \/ pc' = "reset" /\ file' = file /\ at' = 1
  BY Zenon DEF OpenSource, GoTo, CopyInv, ControlTypes
<1>3. open' = [open EXCEPT ![file] = source[file]] /\ UNCHANGED <<source, history, changes, staged, durable, mark>>
      /\ plan' = [plan EXCEPT ![file] = [data |-> source[file].data, stamp |-> source[file].stamp,
                                          resume |-> Len(staged[file])]]
  BY Zenon DEF OpenSource, sourceVars, CopyInv, DataTypes, ControlTypes
<1>4. ControlTypes'
  BY <1>1, <1>2, <1>3 DEF CopyInv, ControlTypes
<1>5. DataTypes'
  <2>1. source[file] \in Record /\ Len(staged[file]) \in Nat
    BY <1>1 DEF CopyInv, DataTypes
  <2>2. open' \in [Files -> Record]
    BY <2>1, <1>1, <1>3, Zenon DEF CopyInv, DataTypes
  <2>3. [data |-> source[file].data, stamp |-> source[file].stamp, resume |-> Len(staged[file])]
          \in [data : Seq(Blocks), stamp : Nat, resume : Nat]
    BY <2>1, Zenon DEF Record
  <2>4. plan' \in [Files -> [data : Seq(Blocks), stamp : Nat, resume : Nat]]
    BY <2>3, <1>1, <1>3, Zenon DEF CopyInv, DataTypes
  <2> QED
    BY <2>2, <2>4, <1>3, Zenon DEF CopyInv, DataTypes
<1>6. StampsOld' /\ (Current \in history)'
  BY <1>3, Zenon DEF CopyInv, DataTypes, ControlTypes, Record, StampsOld, Fresh, Current
<1>7. UnchangedIsCurrent'
  BY <1>1, <1>2, <1>3, Zenon DEF CopyInv, DataTypes, ControlTypes, UnchangedIsCurrent, Opened, Unchanged,
     Copying, Preparing
<1>8. CreditFits'
  <2>1. \A f \in Files : f # file => plan'[f] = plan[f]
    BY <1>1, <1>3, Zenon DEF CopyInv, DataTypes
  <2>2. plan'[file].data = source[file].data /\ plan'[file].resume = Len(staged[file])
    BY <1>1, <1>3, Zenon DEF CopyInv, DataTypes
  <2> QED
    BY <1>1, <1>2, <2>1, <2>2 DEF CopyInv, CreditFits, Size, Copying, Preparing
<1>9. SnapshotOrOutdated'
  BY <1>1, <1>2, <1>3, Zenon DEF CopyInv, ControlTypes, SnapshotOrOutdated, Unchanged, Pending, Snapshots,
     Copying
<1>10. FinishedIsCopied'
  BY <1>1, <1>2, <1>3, Zenon DEF CopyInv, DataTypes, ControlTypes, FinishedIsCopied, Finished, Copying
<1>11. PrefixAgrees'
  BY <1>1, <1>2, <1>3, Zenon DEF CopyInv, DataTypes, ControlTypes, PrefixAgrees, Agree, Unchanged, Size
<1> QED
  BY <1>4, <1>5, <1>6, <1>7, <1>8, <1>9, <1>10, <1>11, Zenon DEF CopyInv

(* Comparing a block changes no file. *)
LEMMA MatchStep == CopyInv /\ Match => CopyInv'
<1> SUFFICES ASSUME CopyInv, Match PROVE CopyInv'
  OBVIOUS
<1>1. pc = "match" /\ file \in 1 .. FileCount
  BY Zenon DEF Match, CopyInv, ControlTypes
<1>2. \/ pc' = "match" /\ file' = file /\ at' = at + 1
      \/ pc' = "reset" /\ file' = file /\ at' = 1
      \/ pc' = "idle" /\ file' = file /\ at' = at
  BY Zenon DEF Match, GoTo, Readable, Equal, Fail, CopyInv, ControlTypes
<1>3. UNCHANGED <<staged, durable, plan, mark>> /\ UNCHANGED <<source, history, open, changes>>
  BY Zenon DEF Match, sourceVars, Readable, Equal, Fail, CopyInv, DataTypes, ControlTypes
<1>4. ControlTypes'
  <2>1. at + 1 \in Nat \ {0}
    BY DEF CopyInv, ControlTypes
  <2> QED
    BY <2>1, <1>1, <1>2, <1>3 DEF CopyInv, ControlTypes
<1>5. DataTypes'
  BY <1>1, <1>3, Zenon DEF CopyInv, DataTypes, Record
<1>6. StampsOld' /\ (Current \in history)'
  BY <1>3, Zenon DEF CopyInv, DataTypes, ControlTypes, Record, StampsOld, Fresh, Current
<1>7. UnchangedIsCurrent'
  BY <1>1, <1>2, <1>3, Zenon DEF CopyInv, DataTypes, ControlTypes, UnchangedIsCurrent, Opened, Unchanged,
     Copying, Preparing
<1>8. CreditFits'
  BY <1>1, <1>2, <1>3, Zenon DEF CopyInv, DataTypes, ControlTypes, CreditFits, Size, Copying, Preparing
<1>9. SnapshotOrOutdated'
  BY <1>1, <1>2, <1>3, Zenon DEF CopyInv, ControlTypes, SnapshotOrOutdated, Unchanged, Pending, Snapshots,
     Copying
<1>10. FinishedIsCopied'
  BY <1>1, <1>2, <1>3, Zenon DEF CopyInv, DataTypes, ControlTypes, FinishedIsCopied, Finished, Copying
<1>11. PrefixAgrees'
  BY <1>1, <1>2, <1>3, Zenon DEF CopyInv, DataTypes, ControlTypes, PrefixAgrees, Agree, Unchanged, Size
<1> QED
  BY <1>4, <1>5, <1>6, <1>7, <1>8, <1>9, <1>10, <1>11, Zenon DEF CopyInv

(* A matching prefix is credited. *)
LEMMA MatchedStep == CopyInv /\ Matched => CopyInv'
<1> SUFFICES ASSUME CopyInv, Matched PROVE CopyInv'
  OBVIOUS
<1>1. pc = "match" /\ file \in 1 .. FileCount
  BY Zenon DEF Matched, CopyInv, ControlTypes
<1>2. \/ file < FileCount /\ pc' = "open" /\ file' = file + 1 /\ at' = 1
      \/ file = FileCount /\ pc' = "check" /\ file' = 1 /\ at' = 1
  BY DEF Matched, GoTo, Prepared, syncCheckpoint, CopyInv, ControlTypes
<1>3. durable' = [durable EXCEPT ![file] = staged[file]] /\ UNCHANGED <<staged, plan, mark>> /\ UNCHANGED <<source, history, open, changes>>
  BY Zenon DEF Matched, sourceVars, Prepared, syncCheckpoint, CopyInv, DataTypes, ControlTypes
<1>4. ControlTypes'
  <2>1. CASE file < FileCount
    BY <2>1, <1>1, <1>2, <1>3 DEF CopyInv, ControlTypes
  <2>2. CASE file = FileCount
    BY <2>2, <1>1, <1>2, <1>3 DEF CopyInv, ControlTypes
  <2> QED
    BY <2>1, <2>2, <1>1
<1>5. DataTypes'
  BY <1>1, <1>3, Zenon DEF CopyInv, DataTypes, Record
<1>6. StampsOld' /\ (Current \in history)'
  BY <1>3, Zenon DEF CopyInv, DataTypes, ControlTypes, Record, StampsOld, Fresh, Current
<1>7. UnchangedIsCurrent'
  <2>1. CASE file < FileCount
    BY <2>1, <1>1, <1>2, <1>3 DEF CopyInv, UnchangedIsCurrent, Opened, Unchanged, Copying, Preparing
  <2>2. CASE file = FileCount
    BY <2>2, <1>1, <1>2, <1>3 DEF CopyInv, UnchangedIsCurrent, Opened, Unchanged, Copying, Preparing
  <2> QED
    BY <2>1, <2>2, <1>1
<1>8. CreditFits'
  <2>1. CASE file < FileCount
    BY <2>1, <1>1, <1>2, <1>3 DEF CopyInv, CreditFits, Size, Copying, Preparing
  <2>2. CASE file = FileCount
    BY <2>2, <1>1, <1>2, <1>3 DEF CopyInv, CreditFits, Size, Copying, Preparing
  <2> QED
    BY <2>1, <2>2, <1>1
<1>9. SnapshotOrOutdated'
  <2>1. CASE file < FileCount
    BY <2>1, <1>2 DEF SnapshotOrOutdated, Copying
  <2>2. CASE file = FileCount
    <3>1. ASSUME \A f \in Files : Unchanged(f) PROVE Snapshots \in history
      BY <3>1, <2>2, <1>1 DEF CopyInv, UnchangedIsCurrent, Opened, Preparing, Snapshots, Current
    <3>2. Snapshots' = Snapshots /\ history' = history /\ \A f \in Files : Pending(f)' /\ Unchanged(f)' = Unchanged(f)
      BY <2>2, <1>1, <1>2, <1>3 DEF CopyInv, DataTypes, Snapshots, Pending, Unchanged
    <3> QED
      BY <3>1, <3>2, Zenon DEF SnapshotOrOutdated
  <2> QED
    BY <2>1, <2>2, <1>1
<1>10. FinishedIsCopied'
  <2>1. CASE file < FileCount
    BY <2>1, <1>1, <1>2, <1>3 DEF FinishedIsCopied, Finished, Copying
  <2>2. CASE file = FileCount
    BY <2>2, <1>1, <1>2, <1>3 DEF FinishedIsCopied, Finished, Copying
  <2> QED
    BY <2>1, <2>2, <1>1
<1>11. PrefixAgrees'
  BY <1>1, <1>2, <1>3, Zenon DEF CopyInv, DataTypes, ControlTypes, PrefixAgrees, Agree, Unchanged, Size
<1> QED
  BY <1>4, <1>5, <1>6, <1>7, <1>8, <1>9, <1>10, <1>11, Zenon DEF CopyInv

(* A staged file that differs is dropped. *)
LEMMA ResetStep == CopyInv /\ Reset => CopyInv'
<1> SUFFICES ASSUME CopyInv, Reset PROVE CopyInv'
  OBVIOUS
<1>1. pc = "reset" /\ file \in 1 .. FileCount
  BY Zenon DEF Reset, CopyInv, ControlTypes
<1>2. \/ file < FileCount /\ pc' = "open" /\ file' = file + 1 /\ at' = 1
      \/ file = FileCount /\ pc' = "check" /\ file' = 1 /\ at' = 1
  BY DEF Reset, GoTo, Prepared, syncCheckpoint, CopyInv, ControlTypes
<1>3. staged' = [staged EXCEPT ![file] = <<>>] /\ durable' = [durable EXCEPT ![file] = <<>>]
      /\ plan' = [plan EXCEPT ![file].resume = 0] /\ UNCHANGED mark /\ UNCHANGED <<source, history, open, changes>>
  BY Zenon DEF Reset, sourceVars, Prepared, syncCheckpoint, CopyInv, DataTypes, ControlTypes
<1>4. ControlTypes'
  <2>1. CASE file < FileCount
    BY <2>1, <1>1, <1>2, <1>3 DEF CopyInv, ControlTypes
  <2>2. CASE file = FileCount
    BY <2>2, <1>1, <1>2, <1>3 DEF CopyInv, ControlTypes
  <2> QED
    BY <2>1, <2>2, <1>1
<1>5. DataTypes'
  <2>1. plan[file] \in [data : Seq(Blocks), stamp : Nat, resume : Nat] /\ <<>> \in Seq(Bytes)
    BY <1>1 DEF CopyInv, DataTypes
  <2>2. [plan[file] EXCEPT !.resume = 0] \in [data : Seq(Blocks), stamp : Nat, resume : Nat]
    BY <2>1, Zenon
  <2>3. plan' \in [Files -> [data : Seq(Blocks), stamp : Nat, resume : Nat]]
    BY <2>2, <1>1, <1>3, Zenon DEF CopyInv, DataTypes
  <2>4. staged' \in [Files -> Seq(Bytes)] /\ durable' \in [Files -> Seq(Bytes)]
    BY <2>1, <1>1, <1>3, Zenon DEF CopyInv, DataTypes
  <2> QED
    BY <2>3, <2>4, <1>3, Zenon DEF CopyInv, DataTypes
<1>6. StampsOld' /\ (Current \in history)'
  <2>1. \A f \in Files : plan'[f].stamp = plan[f].stamp /\ plan'[f].data = plan[f].data
    BY <1>1, <1>3, Zenon DEF CopyInv, DataTypes
  <2> QED
    BY <2>1, <1>3, Zenon DEF CopyInv, StampsOld, Fresh, Current
<1>7. UnchangedIsCurrent'
  <2>1. \A f \in Files : plan'[f].stamp = plan[f].stamp /\ plan'[f].data = plan[f].data
    BY <1>1, <1>3, Zenon DEF CopyInv, DataTypes
  <2>2. \A f \in Files : Opened(f)' => Opened(f)
    BY <1>1, <1>2 DEF Opened, Copying, Preparing
  <2> QED
    BY <2>1, <2>2, <1>3 DEF CopyInv, UnchangedIsCurrent, Unchanged
<1>8. CreditFits'
  <2>1. \A f \in Files : plan'[f].stamp = plan[f].stamp /\ plan'[f].data = plan[f].data
    BY <1>1, <1>3, Zenon DEF CopyInv, DataTypes
  <2>2. plan'[file].resume = 0 /\ \A f \in Files : f # file => plan'[f] = plan[f]
    BY <1>1, <1>3, Zenon DEF CopyInv, DataTypes
  <2>3. 0 <= Len(plan[file].data)
    <3>1. plan[file].data \in Seq(Blocks)
      BY <1>1, Zenon DEF CopyInv, DataTypes
    <3> QED
      BY <3>1
  <2>4. \A f \in Files : f # file => (f < file)
           \/ ~(Copying \/ (Preparing /\ f < file) \/ (pc = "match" /\ f = file))'
    BY <1>1, <1>2 DEF Copying, Preparing
  <2> QED
    BY <2>1, <2>2, <2>3, <2>4, <1>1 DEF CopyInv, CreditFits, Size, Preparing
<1>9. SnapshotOrOutdated'
  <2>1. CASE file < FileCount
    BY <2>1, <1>2 DEF SnapshotOrOutdated, Copying
  <2>2. CASE file = FileCount
    <3>1. ASSUME \A f \in Files : Unchanged(f) PROVE Snapshots \in history
      BY <3>1, <2>2, <1>1 DEF CopyInv, UnchangedIsCurrent, Opened, Preparing, Snapshots, Current
    <3>3. \A f \in Files : plan'[f].stamp = plan[f].stamp /\ plan'[f].data = plan[f].data
      BY <1>1, <1>3, Zenon DEF CopyInv, DataTypes
    <3>2. Snapshots' = Snapshots /\ history' = history /\ \A f \in Files : Pending(f)' /\ Unchanged(f)' = Unchanged(f)
      BY <3>3, <2>2, <1>2, <1>3 DEF Snapshots, Pending, Unchanged
    <3> QED
      BY <3>1, <3>2, Zenon DEF SnapshotOrOutdated
  <2> QED
    BY <2>1, <2>2, <1>1
<1>10. FinishedIsCopied'
  <2>1. CASE file < FileCount
    BY <2>1, <1>1, <1>2, <1>3 DEF FinishedIsCopied, Finished, Copying
  <2>2. CASE file = FileCount
    BY <2>2, <1>1, <1>2, <1>3 DEF FinishedIsCopied, Finished, Copying
  <2> QED
    BY <2>1, <2>2, <1>1
<1>11. PrefixAgrees'
  BY <1>1, <1>2, <1>3, Zenon DEF CopyInv, DataTypes, ControlTypes, PrefixAgrees, Agree, Unchanged, Size
<1> QED
  BY <1>4, <1>5, <1>6, <1>7, <1>8, <1>9, <1>10, <1>11, Zenon DEF CopyInv

(* The stat decides whether the transfer begins. *)
LEMMA validateForTransferStep == CopyInv /\ validateForTransfer => CopyInv'
<1> SUFFICES ASSUME CopyInv, validateForTransfer PROVE CopyInv'
  OBVIOUS
<1>1. pc = "check" /\ file \in 1 .. FileCount
  BY Zenon DEF validateForTransfer, CopyInv, ControlTypes
<1>2. \/ Len(staged[file]) = plan[file].resume /\ pc' = "compare" /\ file' = file /\ at' = 1
      \/ pc' = "idle" /\ file' = file /\ at' = at
  BY Zenon DEF validateForTransfer, GoTo, sameRegularFileSnapshot, Fail, CopyInv, ControlTypes
<1>3. UNCHANGED <<staged, durable, plan, mark>> /\ UNCHANGED <<source, history, open, changes>>
  BY Zenon DEF validateForTransfer, sourceVars, sameRegularFileSnapshot, Fail, CopyInv, DataTypes, ControlTypes
<1>4. ControlTypes'
  BY <1>1, <1>2, <1>3 DEF CopyInv, ControlTypes
<1>5. DataTypes'
  BY <1>1, <1>3, Zenon DEF CopyInv, DataTypes, Record
<1>6. StampsOld' /\ (Current \in history)'
  BY <1>3, Zenon DEF CopyInv, DataTypes, ControlTypes, Record, StampsOld, Fresh, Current
<1>7. UnchangedIsCurrent'
  BY <1>1, <1>2, <1>3, Zenon DEF CopyInv, DataTypes, ControlTypes, UnchangedIsCurrent, Opened, Unchanged,
     Copying, Preparing
<1>8. CreditFits'
  BY <1>1, <1>2, <1>3, Zenon DEF CopyInv, DataTypes, ControlTypes, CreditFits, Size, Copying, Preparing
<1>9. SnapshotOrOutdated'
  BY <1>1, <1>2, <1>3, Zenon DEF CopyInv, ControlTypes, SnapshotOrOutdated, Unchanged, Pending, Snapshots,
     Copying
<1>10. FinishedIsCopied'
  BY <1>1, <1>2, <1>3, Zenon DEF CopyInv, DataTypes, ControlTypes, FinishedIsCopied, Finished, Copying
<1>11. PrefixAgrees'
  <2>1. CASE pc' = "idle"
    BY <2>1, Zenon DEF PrefixAgrees
  <2>2. CASE pc' = "compare"
    <3>1. at' = 1 /\ plan[file].resume \in Nat /\ Len(staged[file]) = plan[file].resume
          /\ UNCHANGED <<file, staged, plan>>
      BY <2>2, <1>1, <1>2, <1>3, Zenon DEF CopyInv, DataTypes
    <3>2. Agree(at - 1)'
      BY <3>1 DEF Agree
    <3> QED
      BY <2>2, <3>1, <3>2 DEF PrefixAgrees
  <2> QED
    BY <2>1, <2>2, <1>2, Zenon
<1> QED
  BY <1>4, <1>5, <1>6, <1>7, <1>8, <1>9, <1>10, <1>11, Zenon DEF CopyInv

(* An unchanged source still agrees with the prefix. *)
LEMMA CompareStep == CopyInv /\ Compare => CopyInv'
<1> SUFFICES ASSUME CopyInv, Compare PROVE CopyInv'
  OBVIOUS
<1>1. pc = "compare" /\ at <= plan[file].resume /\ file \in 1 .. FileCount
  BY Zenon DEF Compare, CopyInv, ControlTypes
<1>2. \/ at <= Len(open[file].data) /\ open[file].data[at] = staged[file][at]
         /\ pc' = "compare" /\ file' = file /\ at' = at + 1
      \/ pc' = "idle" /\ file' = file /\ at' = at
  BY Zenon DEF Compare, GoTo, Readable, Equal, Fail, CopyInv, ControlTypes
<1>3. UNCHANGED <<staged, durable, plan, mark>> /\ UNCHANGED <<source, history, open, changes>>
  BY Zenon DEF Compare, sourceVars, Readable, Equal, Fail, CopyInv, DataTypes, ControlTypes
<1>4. ControlTypes'
  <2>1. at + 1 \in Nat \ {0}
    BY DEF CopyInv, ControlTypes
  <2> QED
    BY <2>1, <1>1, <1>2, <1>3, Zenon DEF CopyInv, ControlTypes
<1>5. DataTypes'
  BY <1>1, <1>3, Zenon DEF CopyInv, DataTypes, Record
<1>6. StampsOld' /\ (Current \in history)'
  BY <1>3, Zenon DEF CopyInv, DataTypes, ControlTypes, Record, StampsOld, Fresh, Current
<1>7. UnchangedIsCurrent'
  BY <1>1, <1>2, <1>3, Zenon DEF CopyInv, DataTypes, ControlTypes, UnchangedIsCurrent, Opened, Unchanged,
     Copying, Preparing
<1>8. CreditFits'
  BY <1>1, <1>2, <1>3, Zenon DEF CopyInv, DataTypes, ControlTypes, CreditFits, Size, Copying, Preparing
<1>9. SnapshotOrOutdated'
  BY <1>1, <1>2, <1>3, Zenon DEF CopyInv, ControlTypes, SnapshotOrOutdated, Unchanged, Pending, Snapshots,
     Copying
<1>10. FinishedIsCopied'
  BY <1>1, <1>2, <1>3, Zenon DEF CopyInv, DataTypes, ControlTypes, FinishedIsCopied, Finished, Copying
<1>11. PrefixAgrees'
  <2>1. at \in Nat /\ plan[file].resume \in Nat
    BY <1>1, Zenon DEF CopyInv, DataTypes, ControlTypes
  <2>2. Unchanged(file) => open[file].data = plan[file].data
    BY <1>1, Zenon DEF CopyInv, UnchangedIsCurrent, Opened, Copying
  <2>3. CASE pc' = "idle"
    BY <2>3, Zenon DEF PrefixAgrees
  <2>4. CASE pc' = "compare"
    <3>1. at' = at + 1 /\ at' - 1 = at /\ file' = file /\ plan' = plan /\ open' = open /\ staged' = staged
      BY <2>1, <2>4, <1>2, <1>3
    <3>2. Unchanged(file) => \A i \in 1 .. at - 1 : staged[file][i] = plan[file].data[i]
      BY <1>1, Zenon DEF CopyInv, PrefixAgrees, Agree
    <3>3. Unchanged(file) => staged[file][at] = plan[file].data[at]
      BY <2>2, <2>4, <1>2, Zenon
    <3>4. Unchanged(file) => \A i \in 1 .. at : staged[file][i] = plan[file].data[i]
      BY <2>1, <3>2, <3>3
    <3>5. (Unchanged(file) => Agree(at - 1))'
      BY <3>1, <3>4, Zenon DEF Agree, Unchanged
    <3>6. Len(staged[file]) = plan[file].resume
      BY <1>1, Zenon DEF CopyInv, PrefixAgrees
    <3> QED
      BY <2>1, <2>4, <3>1, <3>5, <3>6, <1>1 DEF PrefixAgrees
  <2> QED
    BY <2>3, <2>4, <1>2, Zenon
<1> QED
  BY <1>4, <1>5, <1>6, <1>7, <1>8, <1>9, <1>10, <1>11, Zenon DEF CopyInv

(* The copy continues behind the prefix. *)
LEMMA ComparedStep == CopyInv /\ Compared => CopyInv'
<1> SUFFICES ASSUME CopyInv, Compared PROVE CopyInv'
  OBVIOUS
<1>1. pc = "compare" /\ at > plan[file].resume /\ file \in 1 .. FileCount
  BY Zenon DEF Compared, CopyInv, ControlTypes
<1>2. \/ pc' = "copy" /\ file' = file /\ at' = at
  BY Zenon DEF Compared, GoTo, CopyInv, ControlTypes
<1>3. mark' = plan[file].resume /\ UNCHANGED <<staged, durable, plan>> /\ UNCHANGED <<source, history, open, changes>>
  BY Zenon DEF Compared, sourceVars, CopyInv, DataTypes, ControlTypes
<1>4. ControlTypes'
  <2>1. plan[file].resume \in Nat
    BY <1>1, Zenon DEF CopyInv, DataTypes
  <2> QED
    BY <2>1, <1>1, <1>2, <1>3, Zenon DEF CopyInv, ControlTypes
<1>5. DataTypes'
  BY <1>1, <1>3, Zenon DEF CopyInv, DataTypes, Record
<1>6. StampsOld' /\ (Current \in history)'
  BY <1>3, Zenon DEF CopyInv, DataTypes, ControlTypes, Record, StampsOld, Fresh, Current
<1>7. UnchangedIsCurrent'
  BY <1>1, <1>2, <1>3, Zenon DEF CopyInv, DataTypes, ControlTypes, UnchangedIsCurrent, Opened, Unchanged,
     Copying, Preparing
<1>8. CreditFits'
  BY <1>1, <1>2, <1>3, Zenon DEF CopyInv, DataTypes, ControlTypes, CreditFits, Size, Copying, Preparing
<1>9. SnapshotOrOutdated'
  BY <1>1, <1>2, <1>3, Zenon DEF CopyInv, ControlTypes, SnapshotOrOutdated, Unchanged, Pending, Snapshots,
     Copying
<1>10. FinishedIsCopied'
  BY <1>1, <1>2, <1>3, Zenon DEF CopyInv, DataTypes, ControlTypes, FinishedIsCopied, Finished, Copying
<1>11. PrefixAgrees'
  <2>1. at \in Nat /\ plan[file].resume \in Nat
    BY <1>1, Zenon DEF CopyInv, DataTypes, ControlTypes
  <2>2. at <= plan[file].resume + 1 /\ Len(staged[file]) = plan[file].resume
    BY <1>1, Zenon DEF CopyInv, PrefixAgrees
  <2>3. plan[file].resume <= Size(file)
    BY <1>1, Zenon DEF CopyInv, CreditFits, Copying
  <2>4. Size(file) \in Nat /\ Size(file)' = Size(file)
    <3>1. plan[file].data \in Seq(Blocks)
      BY <1>1, Zenon DEF CopyInv, DataTypes
    <3> QED
      BY <3>1, <1>2, <1>3 DEF Size
  <2>5. (Unchanged(file) => Agree(at - 1))'
    BY <1>1, <1>2, <1>3, Zenon DEF CopyInv, PrefixAgrees, Agree, Unchanged
  <2> QED
    BY <2>1, <2>2, <2>3, <2>4, <2>5, <1>1, <1>2, <1>3 DEF PrefixAgrees
<1> QED
  BY <1>4, <1>5, <1>6, <1>7, <1>8, <1>9, <1>10, <1>11, Zenon DEF CopyInv

(* The next block of an unchanged source is the recorded one. *)
LEMMA CopyBlockStep == CopyInv /\ CopyBlock => CopyInv'
<1> SUFFICES ASSUME CopyInv, CopyBlock PROVE CopyInv'
  OBVIOUS
<1>1. pc = "copy" /\ at <= Size(file) /\ file \in 1 .. FileCount
  BY Zenon DEF CopyBlock, CopyInv, ControlTypes
<1>2. \/ /\ pc' = "copy" /\ file' = file /\ at' = at + 1 /\ at <= Len(open[file].data)
         /\ staged' = [staged EXCEPT ![file] = Append(staged[file], open[file].data[at])]
      \/ pc' = "idle" /\ file' = file /\ at' = at /\ staged' = staged
  BY Zenon DEF CopyBlock, GoTo, Readable, Fail, syncCheckpoint, CopyInv, ControlTypes
<1>3. (durable' = durable \/ durable' = [durable EXCEPT ![file] = staged'[file]]) /\ mark' \in {mark, at}
      /\ UNCHANGED plan /\ UNCHANGED <<source, history, open, changes>>
  BY Zenon DEF CopyBlock, sourceVars, Readable, Fail, syncCheckpoint, CopyInv, DataTypes, ControlTypes
<1>4. ControlTypes'
  <2>1. at + 1 \in Nat \ {0}
    BY DEF CopyInv, ControlTypes
  <2>2. mark' \in Nat
    BY <1>3, Zenon DEF CopyInv, ControlTypes
  <2> QED
    BY <2>1, <2>2, <1>1, <1>2, <1>3, Zenon DEF CopyInv, ControlTypes
<1>5. DataTypes'
  <2>1. staged[file] \in Seq(Bytes) /\ open[file].data \in Seq(Blocks) /\ plan[file].data \in Seq(Blocks)
    BY <1>1, Zenon DEF CopyInv, DataTypes, Record
  <2>2. at \in Nat /\ at >= 1
    BY DEF CopyInv, ControlTypes
  <2>3. staged' \in [Files -> Seq(Bytes)]
    <3>1. CASE staged' = staged
      BY <3>1, Zenon DEF CopyInv, DataTypes
    <3>2. CASE staged' # staged
      <4>1. open[file].data[at] \in Bytes
        BY <3>2, <2>1, <2>2, <1>2 DEF Bytes
      <4>2. Append(staged[file], open[file].data[at]) \in Seq(Bytes)
        BY <4>1, <2>1
      <4> QED
        BY <4>2, <3>2, <1>1, <1>2, Zenon DEF CopyInv, DataTypes
    <3> QED
      BY <3>1, <3>2, Zenon
  <2> QED
    BY <2>3, <1>1, <1>3, Zenon DEF CopyInv, DataTypes
<1>6. StampsOld' /\ (Current \in history)'
  BY <1>3, Zenon DEF CopyInv, DataTypes, ControlTypes, Record, StampsOld, Fresh, Current
<1>7. UnchangedIsCurrent'
  BY <1>1, <1>2, <1>3, Zenon DEF CopyInv, DataTypes, ControlTypes, UnchangedIsCurrent, Opened, Unchanged,
     Copying, Preparing
<1>8. CreditFits'
  BY <1>1, <1>2, <1>3, Zenon DEF CopyInv, DataTypes, ControlTypes, CreditFits, Size, Copying, Preparing
<1>9. SnapshotOrOutdated'
  BY <1>1, <1>2, <1>3, Zenon DEF CopyInv, ControlTypes, SnapshotOrOutdated, Unchanged, Pending, Snapshots,
     Copying
<1>10. FinishedIsCopied'
  <2>1. \A f \in Files : f # file => staged'[f] = staged[f]
    <3>1. CASE staged' = staged
      BY <3>1, Zenon
    <3>2. CASE staged' = [staged EXCEPT ![file] = Append(staged[file], open[file].data[at])]
      BY <3>2, Zenon DEF CopyInv, DataTypes
    <3> QED
      BY <3>1, <3>2, <1>2, Zenon
  <2>2. \A f \in Files : f # file => durable'[f] = durable[f]
    <3>1. CASE durable' = durable
      BY <3>1, Zenon
    <3>2. CASE durable' = [durable EXCEPT ![file] = staged'[file]]
      BY <3>2, Zenon DEF CopyInv, DataTypes
    <3> QED
      BY <3>1, <3>2, <1>3, Zenon
  <2>3. \A f \in Files : f < file => f # file
    BY <1>1
  <2> QED
    BY <2>1, <2>2, <2>3, <1>1, <1>2, <1>3, Zenon DEF CopyInv, FinishedIsCopied, Finished, Copying
<1>11. PrefixAgrees'
  <2>1. staged[file] \in Seq(Bytes) /\ open[file].data \in Seq(Blocks) /\ plan[file].data \in Seq(Blocks)
    BY <1>1, Zenon DEF CopyInv, DataTypes, Record
  <2>2. at \in Nat /\ at >= 1
    BY DEF CopyInv, ControlTypes
  <2>3. Unchanged(file) => open[file].data = plan[file].data
    BY <1>1, Zenon DEF CopyInv, UnchangedIsCurrent, Opened, Copying
  <2>4. CASE pc' = "idle"
    BY <2>4, Zenon DEF PrefixAgrees
  <2>5. CASE pc' = "copy"
    <3> DEFINE new == open[file].data[at]
    <3>1. staged'[file] = Append(staged[file], new) /\ at = Len(staged[file]) + 1
      BY <2>5, <1>1, <1>2, Zenon DEF CopyInv, DataTypes, PrefixAgrees
    <3>2. new \in Bytes
      BY <2>1, <2>2, <2>5, <1>2 DEF Bytes
    <3>3. Len(staged'[file]) = at /\ staged'[file][at] = new
          /\ \A i \in 1 .. at - 1 : staged'[file][i] = staged[file][i]
      BY <3>1, <3>2, <2>1
    <3>4. Unchanged(file) => \A i \in 1 .. at - 1 : staged[file][i] = plan[file].data[i]
      BY <1>1, Zenon DEF CopyInv, PrefixAgrees, Agree
    <3> HIDE DEF new
    <3>5. Unchanged(file) => new = plan[file].data[at]
      BY <2>3, Zenon DEF new
    <3>6. Unchanged(file) => \A i \in 1 .. at : staged'[file][i] = plan[file].data[i]
      BY <3>3, <3>4, <3>5, <2>2
    <3>7. at' = at + 1 /\ at' - 1 = at /\ file' = file /\ plan' = plan /\ open' = open
      BY <2>2, <2>5, <1>2, <1>3
    <3>8. (Unchanged(file) => Agree(at - 1))'
      BY <3>6, <3>7, Zenon DEF Agree, Unchanged
    <3> QED
      BY <3>3, <3>7, <3>8, <2>2, <2>5, <1>1 DEF PrefixAgrees, Size
  <2> QED
    BY <2>4, <2>5, <1>2, Zenon
<1> QED
  BY <1>4, <1>5, <1>6, <1>7, <1>8, <1>9, <1>10, <1>11, Zenon DEF CopyInv

(* The whole file is synced. *)
LEMMA FinishCopyStep == CopyInv /\ FinishCopy => CopyInv'
<1> SUFFICES ASSUME CopyInv, FinishCopy PROVE CopyInv'
  OBVIOUS
<1>1. pc = "copy" /\ at > Size(file) /\ file \in 1 .. FileCount
  BY Zenon DEF FinishCopy, CopyInv, ControlTypes
<1>2. \/ pc' = "recheck" /\ file' = file /\ at' = at
  BY Zenon DEF FinishCopy, GoTo, syncCheckpoint, CopyInv, ControlTypes
<1>3. durable' = [durable EXCEPT ![file] = staged[file]] /\ UNCHANGED <<staged, plan, mark>> /\ UNCHANGED <<source, history, open, changes>>
  BY Zenon DEF FinishCopy, sourceVars, syncCheckpoint, CopyInv, DataTypes, ControlTypes
<1>4. ControlTypes'
  BY <1>1, <1>2, <1>3, Zenon DEF CopyInv, ControlTypes
<1>5. DataTypes'
  BY <1>1, <1>3, Zenon DEF CopyInv, DataTypes, Record
<1>6. StampsOld' /\ (Current \in history)'
  BY <1>3, Zenon DEF CopyInv, DataTypes, ControlTypes, Record, StampsOld, Fresh, Current
<1>7. UnchangedIsCurrent'
  BY <1>1, <1>2, <1>3, Zenon DEF CopyInv, DataTypes, ControlTypes, UnchangedIsCurrent, Opened, Unchanged,
     Copying, Preparing
<1>8. CreditFits'
  BY <1>1, <1>2, <1>3, Zenon DEF CopyInv, DataTypes, ControlTypes, CreditFits, Size, Copying, Preparing
<1>9. SnapshotOrOutdated'
  BY <1>1, <1>2, <1>3, Zenon DEF CopyInv, ControlTypes, SnapshotOrOutdated, Unchanged, Pending, Snapshots,
     Copying
<1>10. FinishedIsCopied'
  BY <1>1, <1>2, <1>3, Zenon DEF CopyInv, DataTypes, ControlTypes, FinishedIsCopied, Finished, Copying
<1>11. PrefixAgrees'
  BY <1>1, <1>2, <1>3, Zenon DEF CopyInv, DataTypes, ControlTypes, PrefixAgrees, Agree, Unchanged, Size
<1> QED
  BY <1>4, <1>5, <1>6, <1>7, <1>8, <1>9, <1>10, <1>11, Zenon DEF CopyInv

(* Only a file with its recorded stamp counts as copied. *)
LEMMA RecheckStep == CopyInv /\ Recheck => CopyInv'
<1> SUFFICES ASSUME CopyInv, Recheck PROVE CopyInv'
  OBVIOUS
<1>1. pc = "recheck" /\ file \in 1 .. FileCount
  BY Zenon DEF Recheck, CopyInv, ControlTypes
<1>2. \/ /\ file < FileCount /\ Unchanged(file) /\ pc' = "check" /\ file' = file + 1 /\ at' = 1
         /\ UNCHANGED <<staged, durable>>
      \/ /\ file = FileCount /\ Unchanged(file) /\ pc' = "done" /\ file' = file /\ at' = at
         /\ UNCHANGED <<staged, durable>>
      \/ /\ pc' = "idle" /\ file' = file /\ at' = at /\ staged' = [staged EXCEPT ![file] = <<>>]
         /\ durable' = [durable EXCEPT ![file] = <<>>]
  BY DEF Recheck, GoTo, sameRegularFileSnapshot, Fail, syncCheckpoint, Unchanged, CopyInv, ControlTypes
<1>3. UNCHANGED <<plan, mark>> /\ UNCHANGED <<source, history, open, changes>>
  BY Zenon DEF Recheck, sourceVars, sameRegularFileSnapshot, Fail, syncCheckpoint, Unchanged, CopyInv, DataTypes, ControlTypes
<1>4. ControlTypes'
  BY <1>1, <1>2, <1>3 DEF CopyInv, ControlTypes
<1>5. DataTypes'
  <2>1. <<>> \in Seq(Bytes)
    OBVIOUS
  <2>2. staged' \in [Files -> Seq(Bytes)] /\ durable' \in [Files -> Seq(Bytes)]
    BY <2>1, <1>1, <1>2, ZenonT(30) DEF CopyInv, DataTypes
  <2> QED
    BY <2>2, <1>3, Zenon DEF CopyInv, DataTypes
<1>6. StampsOld' /\ (Current \in history)'
  BY <1>3, Zenon DEF CopyInv, DataTypes, ControlTypes, Record, StampsOld, Fresh, Current
<1>7. UnchangedIsCurrent'
  BY <1>1, <1>2, <1>3, Zenon DEF CopyInv, DataTypes, ControlTypes, UnchangedIsCurrent, Opened, Unchanged,
     Copying, Preparing
<1>8. CreditFits'
  BY <1>1, <1>2, <1>3, Zenon DEF CopyInv, DataTypes, ControlTypes, CreditFits, Size, Copying, Preparing
<1>9. SnapshotOrOutdated'
  BY <1>1, <1>2, <1>3 DEF CopyInv, ControlTypes, SnapshotOrOutdated, Unchanged, Pending, Snapshots,
     Copying
<1>10. FinishedIsCopied'
  <2>1. staged[file] \in Seq(Bytes) /\ open[file].data \in Seq(Blocks) /\ plan[file].data \in Seq(Blocks)
    BY <1>1, Zenon DEF CopyInv, DataTypes, Record
  <2>2. Unchanged(file) => staged[file] = plan[file].data /\ durable[file] = staged[file]
    <3>1. Len(staged[file]) = Len(plan[file].data) /\ durable[file] = staged[file]
      BY <2>1, <1>1 DEF CopyInv, PrefixAgrees, Size, ControlTypes
    <3>2. Unchanged(file) => \A i \in 1 .. Len(staged[file]) : staged[file][i] = plan[file].data[i]
      BY <2>1, <1>1 DEF CopyInv, PrefixAgrees, Agree, ControlTypes
    <3> QED
      BY <3>1, <3>2, <2>1, SMTT(30)
  <2>3. CASE pc' = "idle"
    BY <2>3, Zenon DEF FinishedIsCopied, Finished, Copying
  <2>4. CASE pc' # "idle"
    BY <2>2, <2>4, <1>1, <1>2, <1>3 DEF CopyInv, FinishedIsCopied, Finished, Copying
  <2> QED
    BY <2>3, <2>4, Zenon
<1>11. PrefixAgrees'
  BY <1>1, <1>2, <1>3, Zenon DEF CopyInv, DataTypes, ControlTypes, PrefixAgrees, Agree, Unchanged, Size
<1> QED
  BY <1>4, <1>5, <1>6, <1>7, <1>8, <1>9, <1>10, <1>11, Zenon DEF CopyInv

(* What is left of a file is made of blocks it had, or garbage. *)
LEMMA RemainsType ==
  ASSUME NEW s \in Seq(Bytes), NEW w \in Seq(Bytes), NEW r \in Remains(s, w, Len(s))
  PROVE  r \in Seq(Bytes)
<1> DEFINE kept == Len(s)
           long == IF Len(s) > Len(w) THEN Len(s) ELSE Len(w)
           Block(i) == IF i <= kept THEN {s[i]}
                       ELSE {Garbage} \cup (IF i <= Len(s) THEN {s[i]} ELSE {})
                                      \cup (IF i <= Len(w) THEN {w[i]} ELSE {})
           Rest == UNION {Block(i) : i \in 1 .. long}
<1>1. long \in Nat /\ kept \in Nat
  OBVIOUS
<1>2. \A i \in 1 .. long : Block(i) \subseteq Bytes
  BY DEF Bytes
<1>3. r \in UNION {[1 .. n -> Rest] : n \in kept .. long}
  BY Zenon DEF Remains
<1> HIDE DEF Block, long, kept
<1>4. Rest \subseteq Bytes
  BY <1>2, Zenon
<1>5. PICK n \in kept .. long : r \in [1 .. n -> Rest]
  BY <1>3, Zenon
<1>6. n \in Nat
  BY <1>1
<1>7. r \in [1 .. n -> Bytes]
  BY <1>4, <1>5, Zenon
<1> QED
  BY <1>6, <1>7

(* An attempt that ends leaves only well-formed files behind. *)
LEMMA AbandonedStep ==
  CopyInv /\ pc' = "idle" /\ UNCHANGED <<sourceVars, plan, file, at, mark, changes>>
    /\ staged' \in [Files -> Seq(Bytes)] /\ durable' \in [Files -> Seq(Bytes)] => CopyInv'
<1> SUFFICES ASSUME CopyInv, pc' = "idle", UNCHANGED <<sourceVars, plan, file, at, mark, changes>>,
                    staged' \in [Files -> Seq(Bytes)], durable' \in [Files -> Seq(Bytes)]
             PROVE  CopyInv'
  OBVIOUS
<1>1. DataTypes' /\ ControlTypes'
  BY Zenon DEF CopyInv, DataTypes, ControlTypes, sourceVars
<1>2. StampsOld' /\ (Current \in history)'
  BY Zenon DEF CopyInv, StampsOld, Fresh, Current, sourceVars
<1> QED
  BY <1>1, <1>2, Zenon DEF CopyInv, UnchangedIsCurrent, Opened, Copying, Preparing, CreditFits,
     SnapshotOrOutdated, FinishedIsCopied, Finished, PrefixAgrees

(* Interruption, kill and crash end the attempt. *)
LEMMA FaultStep == CopyInv /\ (Interrupted \/ Killed \/ NodeCrash) => CopyInv'
<1> SUFFICES ASSUME CopyInv, Interrupted \/ Killed \/ NodeCrash PROVE CopyInv'
  OBVIOUS
<1>1. file \in Files /\ staged \in [Files -> Seq(Bytes)] /\ durable \in [Files -> Seq(Bytes)]
  BY Zenon DEF CopyInv, DataTypes, ControlTypes
<1>2. CASE Interrupted
  BY <1>1, <1>2, AbandonedStep, Zenon DEF Interrupted, Fail, syncCheckpoint
<1>3. CASE Killed
  BY <1>1, <1>3, AbandonedStep, Zenon DEF Killed, Fail
<1>4. CASE NodeCrash
  <2>1. PICK rest \in [Files -> UNION {Left(f) : f \in Files}] :
          /\ \A f \in Files : rest[f] \in Left(f)
          /\ staged' = rest /\ durable' = rest
    BY <1>4, Zenon DEF NodeCrash
  <2>2. \A f \in Files : rest[f] \in Seq(Bytes)
    BY <1>1, <2>1, RemainsType, Zenon DEF Left
  <2>3. rest \in [Files -> Seq(Bytes)]
    BY <2>2, Zenon
  <2> QED
    BY <2>1, <2>3, <1>4, AbandonedStep, Zenon DEF NodeCrash, Fail
<1> QED
  BY <1>2, <1>3, <1>4, Zenon

(* A change gives the file a stamp no snapshot carries, so it counts as    *)
(* changed from then on; the new state of the source joins the history.    *)
LEMMA SourceStep ==
  ASSUME CopyInv, NEW f \in Files, NEW content \in Seq(Blocks), NEW seen \in Seq(Blocks),
         SourceChanges(f, content, seen)
  PROVE  CopyInv'
<1>1. changes' = changes - 1 /\ changes > 0 /\ UNCHANGED <<staged, durable, plan, pc, file, at, mark>>
  BY Zenon DEF SourceChanges
<1>2. /\ source' = [source EXCEPT ![f] = [data |-> content, stamp |-> Fresh + 1]]
      /\ open' = [open EXCEPT ![f] = [data |-> seen, stamp |-> Fresh + 1]]
  BY Zenon DEF SourceChanges
<1>3. history' = history \cup {[g \in Files |-> IF g = f THEN content ELSE source[g].data]}
  BY Zenon DEF SourceChanges
<1>4. Fresh \in Nat /\ Fresh' = Fresh + 1
  BY <1>1 DEF CopyInv, ControlTypes, Fresh
<1>5. ControlTypes'
  BY <1>1 DEF CopyInv, ControlTypes
<1>6. source' \in [Files -> Record] /\ open' \in [Files -> Record]
  <2>1. [data |-> content, stamp |-> Fresh + 1] \in Record /\ [data |-> seen, stamp |-> Fresh + 1] \in Record
    BY <1>4 DEF Record
  <2> QED
    BY <2>1, <1>2, Zenon DEF CopyInv, DataTypes
<1>7. DataTypes'
  BY <1>1, <1>6, Zenon DEF CopyInv, DataTypes
<1>8. /\ source'[f].stamp = Fresh + 1 /\ source'[f].data = content
      /\ open'[f].stamp = Fresh + 1
      /\ \A g \in Files : g # f => source'[g] = source[g] /\ open'[g] = open[g]
  BY <1>2, Zenon DEF CopyInv, DataTypes
<1>9. StampsOld'
  <2>1. \A g \in Files : plan'[g].stamp \in Nat /\ source[g].stamp \in Nat /\ open[g].stamp \in Nat
    BY <1>1, Zenon DEF CopyInv, DataTypes, Record
  <2> QED
    BY <2>1, <1>1, <1>4, <1>8, SMTT(30) DEF CopyInv, StampsOld
<1>10. (Current \in history)'
  <2>1. Current' = [g \in Files |-> IF g = f THEN content ELSE source[g].data]
    BY <1>8, Zenon DEF Current
  <2> QED
    BY <2>1, <1>3, Zenon
<1>11. ~Unchanged(f)' /\ \A g \in Files : Unchanged(g)' => Unchanged(g) /\ g # f
  <2>1. plan[f].stamp \in Nat /\ plan[f].stamp <= Fresh
    BY Zenon DEF CopyInv, DataTypes, StampsOld
  <2> QED
    BY <2>1, <1>1, <1>4, <1>8 DEF Unchanged
<1>12. UnchangedIsCurrent'
  BY <1>1, <1>8, <1>11, Zenon DEF CopyInv, UnchangedIsCurrent, Opened, Copying, Preparing
<1>13. CreditFits'
  BY <1>1, Zenon DEF CopyInv, CreditFits, Size, Copying, Preparing
<1>14. SnapshotOrOutdated'
  BY <1>1, <1>3, <1>11, Zenon DEF CopyInv, SnapshotOrOutdated, Snapshots, Pending, Copying
<1>15. FinishedIsCopied'
  BY <1>1, Zenon DEF CopyInv, FinishedIsCopied, Finished, Copying
<1>16. PrefixAgrees'
  <2>1. Unchanged(file)' => Unchanged(file)
    BY <1>1, <1>11, Zenon DEF CopyInv, ControlTypes
  <2> QED
    BY <2>1, <1>1, Zenon DEF CopyInv, PrefixAgrees, Agree, Size
<1> QED
  BY <1>5, <1>7, <1>9, <1>10, <1>12, <1>13, <1>14, <1>15, <1>16, Zenon DEF CopyInv

(* Every step of the importer, of the source and every failure preserves   *)
(* the invariant.                                                          *)
THEOREM CopyInvariant == Spec => []CopyInv
<1>1. CopyInv /\ [Next]_vars => CopyInv'
  <2> SUFFICES ASSUME CopyInv, [Next]_vars PROVE CopyInv'
    OBVIOUS
  <2>1. CASE Importer
    BY <2>1, StartStep, OpenSourceStep, MatchStep, MatchedStep, ResetStep, validateForTransferStep,
       CompareStep, ComparedStep, CopyBlockStep, FinishCopyStep, RecheckStep, Zenon DEF Importer
  <2>2. ASSUME NEW f \in Files, NEW c \in Contents, WrittenInPlace(f, c) \/ Replaced(f, c)
        PROVE  CopyInv'
    <3>1. c \in Seq(Blocks) /\ open[f].data \in Seq(Blocks)
      BY Zenon DEF CopyInv, DataTypes, Record
    <3> QED
      BY <2>2, <3>1, SourceStep, Zenon DEF WrittenInPlace, Replaced
  <2>3. CASE Interrupted \/ Killed \/ NodeCrash
    BY <2>3, FaultStep, Zenon
  <2>4. CASE UNCHANGED vars
    <3>1. UNCHANGED <<source, history, open, staged, durable, plan, pc, file, at, mark, changes>>
      BY <2>4, Zenon DEF vars, sourceVars
    <3>2. DataTypes' /\ ControlTypes' /\ (Current \in history)'
      BY <3>1, Zenon DEF CopyInv, DataTypes, ControlTypes, Current
    <3>3. StampsOld' /\ UnchangedIsCurrent' /\ CreditFits'
      BY <3>1, Zenon DEF CopyInv, StampsOld, Fresh, UnchangedIsCurrent, Opened, Unchanged, CreditFits,
         Size, Copying, Preparing
    <3>4. SnapshotOrOutdated' /\ FinishedIsCopied'
      BY <3>1, Zenon DEF CopyInv, SnapshotOrOutdated, Snapshots, Pending, Unchanged, Copying,
         FinishedIsCopied, Finished
    <3>5. PrefixAgrees'
      BY <3>1, Zenon DEF CopyInv, PrefixAgrees, Agree, Unchanged, Size
    <3> QED
      BY <3>2, <3>3, <3>4, <3>5, Zenon DEF CopyInv
  <2> QED
    BY <2>1, <2>2, <2>3, <2>4, Zenon DEF Next
<1> QED
  BY <1>1, InitHolds, PTL DEF Spec

(* A finished copy is one state the source was in: for every number of     *)
(* files, every content and any changes while the importer reads.          *)
THEOREM CopySnapshotSafe == Spec => []CopyIsSnapshot
<1>1. CopyInv => CopyIsSnapshot
  <2> SUFFICES ASSUME CopyInv, pc = "done" PROVE staged \in history
    BY Zenon DEF CopyIsSnapshot
  <2>1. Snapshots \in history
    BY Zenon DEF CopyInv, SnapshotOrOutdated, Pending, Copying
  <2>2. \A f \in Files : staged[f] = plan[f].data
    BY Zenon DEF CopyInv, FinishedIsCopied, Finished, Copying
  <2>3. staged = Snapshots
    BY <2>2, Zenon DEF CopyInv, DataTypes, Snapshots
  <2> QED
    BY <2>1, <2>3, Zenon
<1> QED
  BY <1>1, CopyInvariant, PTL

(* A finished copy is on disk as it is seen: publication may record it.    *)
THEOREM CopyDurable == Spec => []CopyIsDurable
<1>1. CopyInv => CopyIsDurable
  BY DEF CopyInv, DataTypes, CopyIsDurable, FinishedIsCopied, Finished, Copying
<1> QED
  BY <1>1, CopyInvariant, PTL

(* A finished copy can be published.                                       *)
THEOREM CopySound == Spec => []CopyIsSound
  BY CopySnapshotSafe, CopyDurable, PTL DEF CopyIsSound

(* While a file is copied the next block is the one behind what is staged, *)
(* and nothing is staged beyond the recorded size.                         *)
THEOREM CopyTypeCorrect == Spec => []TypeOK
<1>1. CopyInv => TypeOK
  BY Zenon DEF CopyInv, ControlTypes, PrefixAgrees, TypeOK
<1> QED
  BY <1>1, CopyInvariant, PTL

-----------------------------------------------------------------------------
(* The free-space check is exact for every word size, every reserve and    *)
(* any number of files: no wrap-around lets an import pass or be refused.  *)


(* The computed sum is the owed amount, and an accepted import finds what  *)
(* it still has to write.                                                  *)
SpaceInv ==
  /\ stage \in {"plan", "transfer", "refused", "invalid", "full"}
  /\ free \in Nat /\ free < Word /\ count \in Nat /\ owed \in Nat /\ metadata \in Nat
  /\ required \in Nat /\ required < Word
  /\ stage = "plan" => required = owed
  /\ stage = "transfer" => owed + metadata <= free
  /\ stage # "full"
  /\ stage = "refused" => owed + Reserve(count) > free

(* Reserves are natural numbers, and those of admissible counts are words. *)
LEMMA ReserveIsWord ==
  ASSUME NEW n \in Nat
  PROVE  /\ Reserve(n) \in Nat /\ n * PerFileReserve \in Nat
         /\ n <= MaxSelectedFiles => Reserve(n) < Word /\ n * PerFileReserve < Word
<1>1. n * PerFileReserve \in Nat /\ MaxSelectedFiles * PerFileReserve \in Nat
  BY SpaceAssumption
<1>2. n <= MaxSelectedFiles => n * PerFileReserve <= MaxSelectedFiles * PerFileReserve
  BY SpaceAssumption
<1> QED
  BY <1>1, <1>2, SpaceAssumption DEF Reserve

(* A word is its own remainder. *)
LEMMA WordRemainder == \A n \in Nat : n < Word => n % Word = n
  BY SpaceAssumption

(* Planning a file keeps the sum exact, or refuses what no volume holds.   *)
LEMMA PlanStep ==
  ASSUME SpaceInv, NEW additional \in Sizes, PlanFile(additional)
  PROVE  SpaceInv'
<1>1. additional \in Nat /\ additional < Word /\ Word \in Nat
  BY SpaceAssumption
<1>2. required = owed /\ count' \in Nat /\ owed' = owed + additional /\ count' = count + 1
      /\ UNCHANGED <<free, metadata>> /\ owed' \in Nat
  BY <1>1 DEF SpaceInv, PlanFile
<1>3. CASE additional > MaxWord - required
  <2>1. stage' = "refused" /\ required' = required
    BY <1>3 DEF PlanFile
  <2>2. owed' >= Word
    BY <1>1, <1>2, <1>3 DEF SpaceInv, MaxWord
  <2>3. Reserve(count') \in Nat
    BY <1>2, ReserveIsWord
  <2>4. owed' + Reserve(count') > free'
    BY <1>1, <1>2, <2>2, <2>3 DEF SpaceInv
  <2>5. Reserve(count)' = Reserve(count')
    BY DEF Reserve
  <2> QED
    BY <1>2, <2>1, <2>4, <2>5 DEF SpaceInv
<1>4. CASE ~(additional > MaxWord - required)
  <2>1. required + additional \in Nat /\ required + additional < Word
    BY <1>1, <1>4 DEF SpaceInv, MaxWord
  <2>2. required' = required + additional /\ stage' = stage /\ stage = "plan"
    BY <1>4, <2>1, WordRemainder DEF PlanFile
  <2> QED
    BY <1>2, <2>1, <2>2 DEF SpaceInv
<1> QED
  BY <1>3, <1>4

(* The check adds the reserve without wrapping around. *)
LEMMA CheckStep == SpaceInv /\ RequirePublicationSpace => SpaceInv'
<1> SUFFICES ASSUME SpaceInv, RequirePublicationSpace PROVE SpaceInv'
  OBVIOUS
<1> DEFINE overhead == (FixedReserve + ((count * PerFileReserve) % Word)) % Word
<1>1. Word \in Nat /\ Reserve(count) \in Nat /\ required = owed
      /\ UNCHANGED <<free, count, required, owed>>
  BY ReserveIsWord, SpaceAssumption DEF SpaceInv, RequirePublicationSpace
<1>2. Reserve(count)' = Reserve(count)
  BY <1>1 DEF Reserve
<1>3. CASE count \notin 1 .. MaxSelectedFiles
  BY <1>1, <1>3 DEF SpaceInv, RequirePublicationSpace
<1>4. CASE count \in 1 .. MaxSelectedFiles
  <2>1. overhead = Reserve(count) /\ Reserve(count) < Word
    <3>1. count \in Nat /\ count <= MaxSelectedFiles
      BY <1>4, SpaceAssumption DEF SpaceInv
    <3>2. count * PerFileReserve \in Nat /\ count * PerFileReserve < Word /\ Reserve(count) < Word
      BY <3>1, ReserveIsWord
    <3>3. (count * PerFileReserve) % Word = count * PerFileReserve
      BY <3>2, WordRemainder
    <3> QED
      BY <1>1, <3>2, <3>3, WordRemainder DEF Reserve
  <2> HIDE DEF overhead
  <2>2. CASE required > MaxWord - overhead
    <3>1. stage' = "refused" /\ metadata' = metadata
      BY <1>1, <1>4, <2>1, <2>2, SpaceAssumption DEF RequirePublicationSpace, overhead, SpaceInv, MaxWord
    <3>2. owed + Reserve(count) > free
      BY <1>1, <2>1, <2>2 DEF SpaceInv, MaxWord
    <3> QED
      BY <1>1, <1>2, <3>1, <3>2 DEF SpaceInv
  <2>3. CASE required <= MaxWord - overhead
    <3>1. (required + overhead) % Word = owed + Reserve(count)
      <4>1. required \in Nat /\ overhead = Reserve(count) /\ required = owed
        BY <1>1, <2>1 DEF SpaceInv
      <4>2. required + overhead \in Nat /\ required + overhead < Word
        BY <1>1, <2>3, <4>1 DEF MaxWord
      <4> QED
        BY <4>1, <4>2, WordRemainder
    <3>2. \/ owed + Reserve(count) <= free /\ stage' = "transfer" /\ metadata' = Reserve(count)
          \/ ~(owed + Reserve(count) <= free) /\ stage' = "refused" /\ metadata' = metadata
      BY <1>4, <2>3, <3>1 DEF RequirePublicationSpace, RequireFreeSpace, overhead
    <3> QED
      BY <1>1, <1>2, <3>2 DEF SpaceInv
  <2> QED
    BY <2>2, <2>3, <1>1, <2>1 DEF SpaceInv, MaxWord
<1> QED
  BY <1>3, <1>4

(* What is written was counted. *)
LEMMA WriteStep ==
  ASSUME SpaceInv, NEW bytes \in Nat,
         (bytes <= owed /\ Transfer(bytes)) \/ (bytes <= metadata /\ WriteMetadata(bytes))
  PROVE  SpaceInv'
<1>1. stage = "transfer" /\ owed + metadata <= free /\ bytes <= free
  BY DEF SpaceInv, Transfer, WriteMetadata
<1>2. stage' = stage /\ free' = free - bytes /\ UNCHANGED <<count, required>>
  BY <1>1 DEF Transfer, WriteMetadata, Consume
<1>3. \/ owed' = owed - bytes /\ bytes <= owed /\ metadata' = metadata
      \/ metadata' = metadata - bytes /\ bytes <= metadata /\ owed' = owed
  BY DEF Transfer, WriteMetadata
<1>4. free' \in Nat /\ free' < Word
  BY <1>1, <1>2, SpaceAssumption DEF SpaceInv
<1>5. owed' \in Nat /\ metadata' \in Nat /\ owed' + metadata' <= free'
  BY <1>1, <1>2, <1>3 DEF SpaceInv
<1> QED
  BY <1>1, <1>2, <1>4, <1>5 DEF SpaceInv

(* The invariant holds in every state. *)
THEOREM SpaceInvariant == SpaceSpec => []SpaceInv
<1>1. SpaceInit => SpaceInv
  BY SpaceAssumption DEF SpaceInit, SpaceInv, MaxWord
<1>2. SpaceInv /\ [SpaceNext]_spaceVars => SpaceInv'
  <2> SUFFICES ASSUME SpaceInv, [SpaceNext]_spaceVars PROVE SpaceInv'
    OBVIOUS
  <2>1. ASSUME NEW additional \in Sizes, PlanFile(additional) PROVE SpaceInv'
    BY <2>1, PlanStep
  <2>2. CASE RequirePublicationSpace
    BY <2>2, CheckStep
  <2>3. ASSUME NEW bytes \in 1 .. owed, Transfer(bytes) PROVE SpaceInv'
    <3>1. bytes \in Nat /\ bytes <= owed
      BY DEF SpaceInv
    <3> QED
      BY <2>3, <3>1, WriteStep
  <2>4. ASSUME NEW bytes \in 1 .. metadata, WriteMetadata(bytes) PROVE SpaceInv'
    <3>1. bytes \in Nat /\ bytes <= metadata
      BY DEF SpaceInv
    <3> QED
      BY <2>4, <3>1, WriteStep
  <2>5. CASE UNCHANGED spaceVars
    BY <2>5 DEF spaceVars, SpaceInv, Reserve
  <2> QED
    BY <2>1, <2>2, <2>3, <2>4, <2>5 DEF SpaceNext
<1> QED
  BY <1>1, <1>2, PTL DEF SpaceSpec

(* An import that passed the check does not run out of space.              *)
THEOREM AcceptedImportsFit == SpaceSpec => []AcceptedFits
<1>1. SpaceInv => AcceptedFits
  BY DEF SpaceInv, AcceptedFits
<1> QED
  BY <1>1, SpaceInvariant, PTL

(* An import is refused only if the volume lacks the space.                *)
THEOREM RefusalsAreJustified == SpaceSpec => []RefusedLacksSpace
<1>1. SpaceInv => RefusedLacksSpace
  BY DEF SpaceInv, RefusedLacksSpace
<1> QED
  BY <1>1, SpaceInvariant, PTL

(* The check admits what fits and refuses what does not, for every word    *)
(* size, every reserve and any number of files.                            *)
THEOREM SpaceCheckIsExact == SpaceSpec => []CheckIsExact
  BY AcceptedImportsFit, RefusalsAreJustified, PTL DEF CheckIsExact

=============================================================================
