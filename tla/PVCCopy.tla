------------------------------ MODULE PVCCopy ------------------------------
(* The transfer of a PVC source into staging (executeCopy in importer.go,  *)
(* regularCopyPlan in storage_linux.go): every selected file is opened,    *)
(* its stat recorded and the matching staged prefix credited; then, file   *)
(* by file, source and prefix are checked again, the rest is copied, and   *)
(* the stat is compared with the recorded one.  The source may be written  *)
(* in place or replaced at any time, also between two blocks; the importer *)
(* may be interrupted or killed, and the node may crash, after every step. *)
(* The operation lock (see Publication) admits one importer at a time.     *)
(*                                                                         *)
(* A file is a sequence of blocks.  A stat is the size and the stamp: the  *)
(* inode with its mtime and ctime, which every change of the file moves.   *)
EXTENDS Naturals, Sequences, Disk

CONSTANTS
  FileCount,        \* selected files, copied in this order
  Blocks,           \* contents of a block of data
  Contents,         \* contents a source file may have
  CheckpointBlocks, \* blocks between two fsyncs (copyCheckpointBytes)
  MaxChanges,       \* source changes
  MaxFaults         \* interruptions, kills and crashes

ASSUME CopyAssumption ==
  /\ FileCount \in Nat \ {0} /\ CheckpointBlocks \in Nat \ {0}
  /\ Contents \subseteq Seq(Blocks)
  /\ MaxChanges \in Nat /\ MaxFaults \in Nat

VARIABLES
  source,   \* the files of the source volume, by path
  history,  \* every state the source has been in
  open,     \* what the open source descriptors read
  staged,   \* the staged files, as processes see them
  durable,  \* the staged files, as far as they are synced
  plan,     \* snapshot and resume credit of each prepared file
  pc, file, at, mark, \* the importer: step, current file, next block, last fsync
  changes, faults

sourceVars == <<source, history, open>>
vars == <<sourceVars, staged, durable, plan, pc, file, at, mark, changes, faults>>

Files == 1 .. FileCount
NoPlan == [data |-> <<>>, stamp |-> 0, resume |-> 0]
Size(f) == Len(plan[f].data)

-----------------------------------------------------------------------------
(* Steps of the importer.                                                  *)

(* A failed attempt; the descriptors are closed and the Job is retried. *)
Fail == pc' = "idle"

GoTo(step, f, n) == pc' = step /\ file' = f /\ at' = n

Start ==
  /\ pc = "idle" /\ GoTo("open", 1, 1) /\ mark' = 0
  /\ plan' = [f \in Files |-> NoPlan]
  /\ UNCHANGED <<sourceVars, staged, durable, changes, faults>>

(* prepareRegularCopy up to the comparison: the snapshot, and the size of  *)
(* what is staged.  The content is only read later.                        *)
OpenSource ==
  /\ pc = "open"
  /\ open' = [open EXCEPT ![file] = source[file]]
  /\ plan' = [plan EXCEPT ![file] = [data |-> source[file].data, stamp |-> source[file].stamp,
                                     resume |-> Len(staged[file])]]
  /\ GoTo(IF Len(staged[file]) <= Len(source[file].data) THEN "match" ELSE "reset", file, 1)
  /\ UNCHANGED <<source, history, staged, durable, mark, changes, faults>>

(* regularFilePrefixesEqual, one block: equal, different, or the source    *)
(* has become too short to read.                                           *)
Readable == at <= Len(open[file].data)
Equal == Readable /\ open[file].data[at] = staged[file][at]

(* Mutant: a staged file that differs is an error. *)
MatchOrFail ==
  /\ pc = "match" /\ at <= plan[file].resume
  /\ IF Equal THEN GoTo("match", file, at + 1) ELSE Fail /\ UNCHANGED <<file, at>>
  /\ UNCHANGED <<sourceVars, staged, durable, plan, mark, changes, faults>>

Match ==
  /\ pc = "match" /\ at <= plan[file].resume
  /\ IF Equal THEN GoTo("match", file, at + 1)
     ELSE IF Readable THEN GoTo("reset", file, 1)
     ELSE Fail /\ UNCHANGED <<file, at>>
  /\ UNCHANGED <<sourceVars, staged, durable, plan, mark, changes, faults>>

(* The next file, or the transfer once all are prepared. *)
Prepared == IF file < FileCount THEN GoTo("open", file + 1, 1) ELSE GoTo("check", 1, 1)

syncCheckpoint(f, content) == durable' = [durable EXCEPT ![f] = content]

Matched ==
  /\ pc = "match" /\ at > plan[file].resume
  /\ syncCheckpoint(file, staged[file]) /\ Prepared
  /\ UNCHANGED <<sourceVars, staged, plan, mark, changes, faults>>

(* A staged file that does not match is truncated. *)
Reset ==
  /\ pc = "reset"
  /\ staged' = [staged EXCEPT ![file] = <<>>] /\ syncCheckpoint(file, <<>>)
  /\ plan' = [plan EXCEPT ![file].resume = 0]
  /\ Prepared
  /\ UNCHANGED <<sourceVars, mark, changes, faults>>

sameRegularFileSnapshot ==
  open[file].stamp = plan[file].stamp /\ Len(open[file].data) = Size(file)

(* validateForTransfer: both stats, then the prefix once more. *)
validateForTransfer ==
  /\ pc = "check"
  /\ IF sameRegularFileSnapshot /\ Len(staged[file]) = plan[file].resume
     THEN GoTo("compare", file, 1) ELSE Fail /\ UNCHANGED <<file, at>>
  /\ UNCHANGED <<sourceVars, staged, durable, plan, mark, changes, faults>>

Compare ==
  /\ pc = "compare" /\ at <= plan[file].resume
  /\ IF Equal THEN GoTo("compare", file, at + 1) ELSE Fail /\ UNCHANGED <<file, at>>
  /\ UNCHANGED <<sourceVars, staged, durable, plan, mark, changes, faults>>

Compared ==
  /\ pc = "compare" /\ at > plan[file].resume
  /\ GoTo("copy", file, at) /\ mark' = plan[file].resume
  /\ UNCHANGED <<sourceVars, staged, durable, plan, changes, faults>>

(* copyPrepared, one block: read what the descriptor shows now, append it, *)
(* and fsync when enough has been written.  A source that ends early is    *)
(* an error, after an fsync.                                               *)
CopyBlock ==
  LET longer == Append(staged[file], open[file].data[at])
      due == at - mark >= CheckpointBlocks
  IN /\ pc = "copy" /\ at <= Size(file)
     /\ IF Readable
        THEN /\ staged' = [staged EXCEPT ![file] = longer]
             /\ durable' = IF due THEN [durable EXCEPT ![file] = longer] ELSE durable
             /\ mark' = IF due THEN at ELSE mark
             /\ GoTo("copy", file, at + 1)
        ELSE /\ syncCheckpoint(file, staged[file]) /\ Fail
             /\ UNCHANGED <<staged, mark, file, at>>
     /\ UNCHANGED <<sourceVars, plan, changes, faults>>

FinishCopy ==
  /\ pc = "copy" /\ at > Size(file)
  /\ syncCheckpoint(file, staged[file]) /\ GoTo("recheck", file, at)
  /\ UNCHANGED <<sourceVars, staged, plan, mark, changes, faults>>

(* Mutant: a changed source is not looked for. *)
RecheckNothing ==
  /\ pc = "recheck"
  /\ IF file < FileCount THEN GoTo("check", file + 1, 1) ELSE GoTo("done", file, at)
  /\ UNCHANGED <<sourceVars, staged, durable, plan, mark, changes, faults>>

(* The source changed during the transfer: the staged file is dropped. *)
Recheck ==
  /\ pc = "recheck"
  /\ IF sameRegularFileSnapshot
     THEN /\ IF file < FileCount THEN GoTo("check", file + 1, 1) ELSE GoTo("done", file, at)
          /\ UNCHANGED <<staged, durable>>
     ELSE /\ staged' = [staged EXCEPT ![file] = <<>>] /\ syncCheckpoint(file, <<>>)
          /\ Fail /\ UNCHANGED <<file, at>>
  /\ UNCHANGED <<sourceVars, plan, mark, changes, faults>>

Importer ==
  \/ Start \/ OpenSource \/ Match \/ Matched \/ Reset \/ validateForTransfer
  \/ Compare \/ Compared \/ CopyBlock \/ FinishCopy \/ Recheck

-----------------------------------------------------------------------------
(* The source volume, and failures.                                        *)

Fresh == 1 + MaxChanges - changes

SourceChanges(f, content, seen) ==
  /\ changes > 0 /\ changes' = changes - 1
  /\ source' = [source EXCEPT ![f] = [data |-> content, stamp |-> Fresh + 1]]
  /\ history' = history \cup {[g \in Files |-> IF g = f THEN content ELSE source[g].data]}
  /\ open' = [open EXCEPT ![f] = [data |-> seen, stamp |-> Fresh + 1]]
  /\ UNCHANGED <<staged, durable, plan, pc, file, at, mark, faults>>

(* A write in place shows through an open descriptor. *)
WrittenInPlace(f, content) == SourceChanges(f, content, content)

(* A file renamed over the path leaves the descriptor with the old one,    *)
(* whose ctime moves.                                                      *)
Replaced(f, content) == SourceChanges(f, content, open[f].data)

Fault == faults > 0 /\ faults' = faults - 1

(* The context ends, or a write fails: fsync, then return. *)
Interrupted ==
  /\ pc = "copy" /\ Fault /\ Fail
  /\ syncCheckpoint(file, staged[file])
  /\ UNCHANGED <<sourceVars, staged, plan, file, at, mark, changes>>

Killed ==
  /\ pc \notin {"idle", "done"} /\ Fault /\ Fail
  /\ UNCHANGED <<sourceVars, staged, durable, plan, file, at, mark, changes>>

(* Staged files only grow between two fsyncs. *)
Left(f) == Remains(durable[f], staged[f], Len(durable[f]))

NodeCrash ==
  /\ pc # "done" /\ Fault /\ Fail
  /\ \E rest \in [Files -> UNION {Left(f) : f \in Files}] :
       /\ \A f \in Files : rest[f] \in Left(f)
       /\ staged' = rest /\ durable' = rest
  /\ UNCHANGED <<sourceVars, plan, file, at, mark, changes>>

Init ==
  /\ source \in [Files -> [data : Contents, stamp : {1}]]
  /\ history = {[f \in Files |-> source[f].data]}
  /\ open = source
  /\ staged = [f \in Files |-> <<>>] /\ durable = staged
  /\ plan = [f \in Files |-> NoPlan]
  /\ pc = "idle" /\ file = 1 /\ at = 1 /\ mark = 0
  /\ changes = MaxChanges /\ faults = MaxFaults

Next ==
  \/ Importer
  \/ \E f \in Files, c \in Contents : WrittenInPlace(f, c) \/ Replaced(f, c)
  \/ Interrupted \/ Killed \/ NodeCrash

Spec == Init /\ [][Next]_vars

(* A retried Job keeps taking steps; changes and faults are finitely many. *)
FairSpec == Spec /\ WF_vars(Importer)

-----------------------------------------------------------------------------
(* Properties.                                                             *)

(* The step, the credit and the staged blocks fit together at every point  *)
(* of a copy: nothing is staged beyond the recorded size of the source.    *)
TypeOK ==
  /\ pc \in {"idle", "open", "match", "reset", "check", "compare", "copy", "recheck", "done"}
  /\ file \in Files /\ at \in Nat \ {0} /\ mark \in Nat
  /\ pc \in {"copy", "recheck"} => at = Len(staged[file]) + 1 /\ at <= Size(file) + 1

(* A finished copy is one state the source was in: not a file that changed *)
(* while it was read, not a prefix of an older content continued with a    *)
(* newer one, and not shards of different moments (executeCopy).           *)
CopyIsSnapshot == pc = "done" => staged \in history

(* What a finished copy staged survives a crash: publication renames it    *)
(* and records it as complete (syncCheckpoint before validateStaged).      *)
CopyIsDurable == pc = "done" => durable = staged

(* A finished copy can be published: it is one state of the source, and    *)
(* durable.                                                                *)
CopyIsSound == CopyIsSnapshot /\ CopyIsDurable

(* A copy that is retried ends once the source rests: no staged content is *)
(* a dead end, whatever interruptions and crashes have left there.         *)
EventuallyCopied == <>(pc = "done")

=============================================================================
