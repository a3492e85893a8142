------------------------- MODULE PublicationProofs --------------------------
(*****************************************************************************)
(* What is proved of Publication, for all sets of workers, operations,       *)
(* artifacts and digests and any number of failures: its inductive invariant *)
(* holds initially, every step keeps it, and the theorems follow.            *)
(*****************************************************************************)
EXTENDS Publication, TLAPS

-----------------------------------------------------------------------------
(* The inductive invariant. *)

Busy(w) == pc[w] \notin {"idle", "done"}

Deleted(o) == cleanup[ArtifactOf[o]] # "none"

(* A busy worker holds the lock of its operation, whose artifact exists. *)
LockInv ==
  \A w \in Worker : Busy(w) => lock[OperationOf[w]] = w /\ ~Deleted(OperationOf[w])

(* What a worker may rely on at its control points before Publish ... *)
FetchOK(w) ==
  LET o == OperationOf[w] IN
  /\ pc[w] \in {"resolve", "stage", "transfer", "validate"} =>
       intent[o] = "none" /\ marker[o] = "none"
  /\ pc[w] \in {"stage", "transfer", "validate"} => SourceContent(o) \in Digest
  /\ pc[w] = "validate" =>
       staging[o] \in Digest /\ (o \in HubOperation => staging[o] = pin[o])

FetchInv == \A w \in Worker : FetchOK(w)

(* ... and inside it. *)
PublishOK(w) ==
  LET o == OperationOf[w]
      d == digest[w] IN
  /\ pc[w] \in {"intent", "seal", "inspect", "rename", "sync", "ready", "marker"} =>
       d \in Digest /\ marker[o] = "none"
  /\ pc[w] = "intent" =>
       intent[o] \in {"none", d} /\ (o \in HubOperation => pin[o] = d)
  /\ pc[w] \in {"seal", "inspect", "rename", "sync", "ready", "marker", "tidy"} =>
       intent[o] = d
  /\ pc[w] \in {"intent", "seal", "inspect", "rename"} => staging[o] = d
  /\ pc[w] \in {"inspect", "rename"} => sealed[o]
  /\ pc[w] \in {"sync", "ready", "marker"} => ValidContent(d)
  /\ pc[w] \in {"ready", "marker"} => unsynced[d] = "none"
  /\ pc[w] = "marker" => READY[d]
  /\ pc[w] \in {"tidy", "report"} => d \in Digest /\ marker[o] = d

PublishInv == \A w \in Worker : PublishOK(w)

(* A rename that a crash may undo: nothing depends on READY yet, and the     *)
(* operation still has its intent.                                           *)
UnsyncedInv ==
  \A d \in Digest : unsynced[d] # "none" =>
    /\ ValidContent(d) /\ ~READY[d]
    /\ Deleted(unsynced[d]) \/ intent[unsynced[d]] = d

(* Where the content an intent names is: in staging, or in a blob whose      *)
(* rename cannot be undone or would give it back to this operation.          *)
IntentInv ==
  \A o \in Operation : intent[o] # "none" /\ ~Deleted(o) =>
    \/ staging[o] = intent[o]
    \/ ValidContent(intent[o]) /\ unsynced[intent[o]] \in {"none", o}

(* A Hub operation's pin comes first, and everything after agrees with it. *)
HubInv ==
  \A o \in HubOperation :
    /\ pin[o] # "none" =>
         /\ intent[o] \in {"none", pin[o]} /\ marker[o] \in {"none", pin[o]}
         /\ reported[o] \subseteq {pin[o]}
    /\ pin[o] = "none" /\ ~Deleted(o) =>
         intent[o] = "none" /\ marker[o] = "none" /\ reported[o] = {}

(* What an operation has reported is what its marker records. *)
ReportedInv ==
  \A o \in Operation : Deleted(o) \/ reported[o] \subseteq {marker[o]}

Inv ==
  /\ TypeOK /\ LockInv /\ FetchInv /\ PublishInv /\ UnsyncedInv /\ IntentInv
  /\ PublishedIsComplete /\ MarkerIsTruthful /\ HubInv /\ ReportedInv

-----------------------------------------------------------------------------
(* Init, and the type invariant. *)

(* The store starts out empty, and no worker has started. *)
LEMMA InitInv == Init => Inv
  <1> SUFFICES ASSUME Init PROVE Inv OBVIOUS
  <1> USE PublicationAssumption DEF Init
  <1>1. TypeOK BY DEF TypeOK
  <1>2. LockInv /\ FetchInv /\ PublishInv
    BY Zenon DEF LockInv, FetchInv, FetchOK, PublishInv, PublishOK, Busy
  <1>3. UnsyncedInv /\ IntentInv /\ PublishedIsComplete /\ MarkerIsTruthful
    BY Zenon DEF UnsyncedInv, IntentInv, PublishedIsComplete, MarkerIsTruthful
  <1>4. HubInv /\ ReportedInv
    BY Zenon DEF HubInv, ReportedInv
  <1> QED BY <1>1, <1>2, <1>3, <1>4, Zenon DEF Inv

-----------------------------------------------------------------------------
(* One step per action, and under it one per conjunct it can disturb. *)

(* The lock: two importers that are busy at once run different operations. *)
LEMMA OthersElsewhere ==
  ASSUME LockInv, NEW w \in Worker, Busy(w)
  PROVE  \A v \in Worker : v # w /\ Busy(v) => OperationOf[v] # OperationOf[w]
  BY Zenon DEF LockInv

(* A conjunct is kept by a step that leaves the state it speaks of alone. *)
LEMMA Frame ==
  /\ LockInv /\ UNCHANGED <<pc, lock, cleanup>> => LockInv'
  /\ FetchInv /\ UNCHANGED <<pc, intent, marker, pin, source, staging>> => FetchInv'
  /\ PublishInv /\ UNCHANGED <<pc, digest, marker, intent, pin, staging, sealed, blob,
                               unsynced, READY>> => PublishInv'
  /\ UnsyncedInv /\ UNCHANGED <<unsynced, blob, READY, cleanup, intent>> => UnsyncedInv'
  /\ IntentInv /\ UNCHANGED <<intent, cleanup, staging, blob, unsynced>> => IntentInv'
  /\ PublishedIsComplete /\ UNCHANGED <<blob, READY>> => PublishedIsComplete'
  /\ MarkerIsTruthful /\ UNCHANGED <<marker, blob, READY, unsynced>> => MarkerIsTruthful'
  /\ HubInv /\ UNCHANGED <<pin, intent, marker, reported, cleanup>> => HubInv'
  /\ ReportedInv /\ UNCHANGED <<cleanup, reported, marker>> => ReportedInv'
  <1>1. LockInv /\ UNCHANGED <<pc, lock, cleanup>> => LockInv'
    BY Zenon DEF LockInv, Busy, Deleted
  <1>2. FetchInv /\ UNCHANGED <<pc, intent, marker, pin, source, staging>> => FetchInv'
    BY Zenon DEF FetchInv, FetchOK, SourceContent
  <1>3. PublishInv /\ UNCHANGED <<pc, digest, marker, intent, pin, staging, sealed, blob,
                                 unsynced, READY>> => PublishInv'
    BY DEF PublishInv, PublishOK, ValidContent
  <1>4. UnsyncedInv /\ UNCHANGED <<unsynced, blob, READY, cleanup, intent>> => UnsyncedInv'
    BY Zenon DEF UnsyncedInv, ValidContent, Deleted
  <1>5. IntentInv /\ UNCHANGED <<intent, cleanup, staging, blob, unsynced>> => IntentInv'
    BY Zenon DEF IntentInv, ValidContent, Deleted
  <1>6. PublishedIsComplete /\ UNCHANGED <<blob, READY>> => PublishedIsComplete'
    BY Zenon DEF PublishedIsComplete, ValidContent
  <1>7. MarkerIsTruthful /\ UNCHANGED <<marker, blob, READY, unsynced>> => MarkerIsTruthful'
    BY Zenon DEF MarkerIsTruthful, ValidatePublished, ValidContent
  <1>8. HubInv /\ UNCHANGED <<pin, intent, marker, reported, cleanup>> => HubInv'
    BY Zenon DEF HubInv, Deleted
  <1>9. ReportedInv /\ UNCHANGED <<cleanup, reported, marker>> => ReportedInv'
    BY Zenon DEF ReportedInv, Deleted
  <1> QED BY <1>1, <1>2, <1>3, <1>4, <1>5, <1>6, <1>7, <1>8, <1>9, Zenon

(* A marker is written after the sync, so a crash does not take its content. *)
LEMMA CrashKeepsMarker ==
  ASSUME TypeOK, TypeOK', MarkerIsTruthful, NodeCrash
  PROVE MarkerIsTruthful'
  <1> SUFFICES ASSUME NEW o \in Operation, marker'[o] # "none"
               PROVE ValidatePublished(marker[o])' /\ unsynced'[marker'[o]] = "none"
    BY Zenon DEF MarkerIsTruthful
  <1>1. marker'[o] = marker[o] /\ marker[o] \in Digest
    BY PublicationAssumption, Zenon DEF NodeCrash, TypeOK
  <1>2. ValidatePublished(marker[o]) /\ unsynced[marker[o]] = "none"
    BY <1>1, Zenon DEF MarkerIsTruthful
  <1> QED BY <1>1, <1>2, Zenon DEF NodeCrash, ValidatePublished, ValidContent

(* A rename that a crash undoes gives the staged tree back to its operation. *)
LEMMA CrashKeepsIntent ==
  ASSUME TypeOK, TypeOK', IntentInv, UnsyncedInv, NodeCrash
  PROVE IntentInv'
  <1> SUFFICES ASSUME NEW o \in Operation, intent'[o] # "none", ~Deleted(o)'
               PROVE \/ staging'[o] = intent'[o]
                     \/ ValidContent(intent[o])' /\ unsynced'[intent'[o]] \in {"none", o}
    BY Zenon DEF IntentInv
  <1>1. intent'[o] = intent[o] /\ intent[o] \in Digest /\ ~Deleted(o)
    BY PublicationAssumption DEF NodeCrash, TypeOK, Deleted
  <1>2. PICK undone \in SUBSET {d \in Digest : unsynced[d] # "none"} :
          /\ staging' = [p \in Operation |->
               IF p \in Restored(undone)
                 THEN CHOOSE d \in undone : unsynced[d] = p ELSE staging[p]]
          /\ blob' = [d \in Digest |-> IF d \in undone THEN "absent" ELSE blob[d]]
    BY Zenon DEF NodeCrash
  <1>3. CASE o \in Restored(undone)
    <2>1. PICK d \in undone : unsynced[d] = o BY <1>3, Zenon DEF Restored
    <2>2. \A e \in undone : unsynced[e] = o => e = intent[o]
      BY <1>1, PublicationAssumption, Zenon DEF UnsyncedInv
    <2>3. (CHOOSE e \in undone : unsynced[e] = o) = intent[o]
      BY <2>1, <2>2, Zenon
    <2> QED BY <1>1, <1>2, <1>3, <2>3, Zenon
  <1>4. CASE o \notin Restored(undone)
    <2>1. staging'[o] = staging[o] BY <1>2, <1>4, Zenon
    <2>2. CASE staging[o] = intent[o] BY <1>1, <2>1, <2>2, Zenon
    <2>3. CASE staging[o] # intent[o]
      <3>1. ValidContent(intent[o]) /\ unsynced[intent[o]] \in {"none", o}
        BY <1>1, <2>3, Zenon DEF IntentInv
      <3>2. intent[o] \notin undone BY <1>4, <3>1, Zenon DEF Restored
      <3>3. blob'[intent[o]] = "complete" /\ unsynced'[intent[o]] = "none"
        BY <1>1, <1>2, <3>1, <3>2, Zenon DEF NodeCrash, ValidContent
      <3> QED BY <1>1, <3>3, Zenon DEF ValidContent
    <2> QED BY <2>2, <2>3, Zenon
  <1> QED BY <1>3, <1>4, Zenon

(* An importer keeps the types. *)
LEMMA ImporterTypes ==
  ASSUME Inv, NEW w \in Worker
  PROVE  Execute(w) \/ Fails(w) \/ Rerun(w) => TypeOK'
  <1> USE PublicationAssumption DEF Inv, TypeOK, Goto
  <1>1. AcquireOperationLock(w) => TypeOK' BY DEF AcquireOperationLock, stagingVars,
       blobVars
  <1>2. RecoverFromMarker(w) => TypeOK' BY DEF RecoverFromMarker, stagingVars, blobVars,
       ValidatePublished, ValidContent
  <1>3. RecoverFinalize(w) => TypeOK' BY DEF RecoverFinalize, stagingVars, blobVars,
       ValidContent
  <1>4. RecoverStaged(w) => TypeOK' BY DEF RecoverStaged, stagingVars, blobVars
  <1>5. RecoverNothing(w) => TypeOK' BY DEF RecoverNothing, stagingVars, blobVars
  <1>6. Resolve(w) => TypeOK' BY DEF Resolve, stagingVars, blobVars
  <1>7. EnsureStaging(w) => TypeOK' BY DEF EnsureStaging, blobVars, Resumable
  <1>8. validateStaged(w) => TypeOK' BY DEF validateStaged, stagingVars, blobVars
  <1>9. PublishIntent(w) => TypeOK' BY DEF PublishIntent, stagingVars, blobVars
  <1>10. PublishManifest(w) => TypeOK' BY DEF PublishManifest, blobVars
  <1>11. PublishInspect(w) => TypeOK' BY DEF PublishInspect, stagingVars, blobVars,
       ValidContent
  <1>12. PublishRename(w) => TypeOK'
    <2> HAVE PublishRename(w)
    <2>1. digest[w] \in Digest BY Zenon DEF PublishInv, PublishOK, PublishRename
    <2> QED BY <2>1 DEF PublishRename
  <1>13. PublishRenameLost(w) => TypeOK' BY DEF PublishRenameLost, stagingVars,
       blobVars, ValidContent
  <1>14. FinalizeSync(w) => TypeOK' BY DEF FinalizeSync, stagingVars
  <1>15. FinalizeReady(w) => TypeOK'
    <2> HAVE FinalizeReady(w)
    <2>1. digest[w] \in Digest BY Zenon DEF PublishInv, PublishOK, FinalizeReady
    <2> QED BY <2>1, Zenon DEF FinalizeReady, stagingVars
  <1>16. FinalizeMarker(w) => TypeOK' BY DEF FinalizeMarker, stagingVars, blobVars
  <1>17. PublishTidy(w) => TypeOK' BY DEF PublishTidy, blobVars
  <1>18. Rerun(w) => TypeOK' BY DEF Rerun, stagingVars, blobVars
  <1>19. Transfer(w) => TypeOK'
    <2> HAVE Transfer(w)
    <2>1. SourceContent(OperationOf[w]) \in Digest BY Zenon DEF FetchInv, FetchOK, Transfer
    <2> QED BY <2>1, Zenon DEF Transfer, blobVars
  <1>20. Report(w) => TypeOK'
    <2> HAVE Report(w)
    <2>1. digest[w] \in Digest BY Zenon DEF PublishInv, PublishOK, Report
    <2> QED BY <2>1 DEF Report, stagingVars, blobVars
  <1>21. Fails(w) => TypeOK'
    <2> HAVE Fails(w)
    <2>1. failures' \in 0 .. MaxFailures BY DEF Fails
    <2> QED BY <2>1, Zenon DEF Fails, stagingVars, blobVars
  <1> QED BY <1>1, <1>2, <1>3, <1>4, <1>5, <1>6, <1>7, <1>8, <1>9, <1>10, <1>11, <1>12,
       <1>13, <1>14, <1>15, <1>16, <1>17, <1>18, <1>19, <1>20, <1>21, Zenon DEF Execute,
       Recover, Fetch, Publish

(* So do the source and the removal of a deleted artifact's files. *)
LEMMA SurroundingTypes ==
  ASSUME TypeOK, NEW o \in Operation
  PROVE  SourceChanges(o) \/ RemoveOperationState(o) => TypeOK'
  <1> USE PublicationAssumption DEF TypeOK, CleanupUnchanged, CleanupMetadata, workerVars,
       stagingVars, blobVars
  <1>1. SourceChanges(o) => TypeOK' BY DEF SourceChanges
  <1>2. CleanupStaging(o) => TypeOK' BY DEF CleanupStaging
  <1>3. CleanupIntent(o) => TypeOK' BY DEF CleanupIntent
  <1>4. CleanupMarker(o) => TypeOK' BY DEF CleanupMarker
  <1>5. CleanupPin(o) => TypeOK' BY DEF CleanupPin
  <1> QED BY <1>1, <1>2, <1>3, <1>4, <1>5, Zenon DEF RemoveOperationState

(* And the progress of the cleanup. *)
LEMMA CleanupTypes ==
  ASSUME TypeOK, NEW a \in Artifact
  PROVE  StartCleanup(a) \/ CleanupNext(a) \/ CleanupFails(a) => TypeOK'
  <1> USE PublicationAssumption DEF TypeOK, CleanupUnchanged, workerVars, stagingVars,
       blobVars
  <1>1. StartCleanup(a) => TypeOK' BY DEF StartCleanup
  <1>2. CleanupNext(a) => TypeOK' BY DEF CleanupNext, NextArea
  <1>3. CleanupFails(a) => TypeOK'
    <2> HAVE CleanupFails(a)
    <2>1. failures' \in 0 .. MaxFailures BY DEF CleanupFails
    <2> QED BY <2>1, Zenon DEF CleanupFails
  <1> QED BY <1>1, <1>2, <1>3, Zenon

(* So does a crash: a rename it undoes puts a digest back into staging. *)
LEMMA CrashTypes ==
  ASSUME TypeOK, NodeCrash
  PROVE  TypeOK'
  <1> USE PublicationAssumption DEF TypeOK
  <1>1. failures' \in 0 .. MaxFailures BY DEF NodeCrash
  <1>2. PICK undone \in SUBSET {d \in Digest : unsynced[d] # "none"} :
          /\ staging' = [o \in Operation |->
               IF o \in Restored(undone)
                 THEN CHOOSE d \in undone : unsynced[d] = o ELSE staging[o]]
          /\ sealed' = [o \in Operation |-> o \in Restored(undone) \/ sealed[o]]
          /\ blob' = [d \in Digest |-> IF d \in undone THEN "absent" ELSE blob[d]]
          /\ READY' = [d \in Digest |-> READY[d] /\ d \notin undone]
    BY Zenon DEF NodeCrash
  <1>3. staging' \in [Operation -> Digest \cup {"absent", "partial"}]
    <2>1. ASSUME NEW o \in Restored(undone)
          PROVE  (CHOOSE d \in undone : unsynced[d] = o) \in undone
      <3>1. \E d \in undone : unsynced[d] = o BY Zenon DEF Restored
      <3> QED BY <3>1, Zenon
    <2> QED BY <1>2, <2>1
  <1>4. sealed' \in [Operation -> BOOLEAN] /\ READY' \in [Digest -> BOOLEAN] BY <1>2, Zenon
  <1>5. blob' \in [Digest -> {"absent", "partial", "complete"}] BY <1>2, Zenon
  <1>6. /\ unsynced' \in [Digest -> Operation \cup {"none"}]
        /\ cleanup' \in [Artifact -> {"none", "staging", "intents", "operations",
                                      "revisions", "done"}]
    BY Zenon DEF NodeCrash
  <1> QED BY <1>1, <1>3, <1>4, <1>5, <1>6, Zenon DEF NodeCrash

-----------------------------------------------------------------------------
(* The steps of one worker and what the others rely on. *)

(* Exactly one entry of a function changes. *)
Sets(f, g, S, i, e) == g[i] = e /\ \A j \in S : j # i => g[j] = f[j]

(* The files of an operation stay as they are. *)
SameFiles(o) ==
  /\ pin'[o] = pin[o] /\ staging'[o] = staging[o] /\ sealed'[o] = sealed[o]
  /\ intent'[o] = intent[o] /\ marker'[o] = marker[o]

(* The values that steps read from files and from the configuration. *)
Values ==
  /\ \A v \in Worker : OperationOf[v] \in Operation
  /\ \A p \in Operation :
       /\ ArtifactOf[p] \in Artifact
       /\ source[p] \in Digest /\ reported[p] \subseteq Digest
       /\ pin[p] \in Digest \cup {"none"}
       /\ intent[p] \in Digest \cup {"none"} /\ marker[p] \in Digest \cup {"none"}
  /\ \A d \in Digest : unsynced[d] \in Operation \cup {"none"}
  /\ \A p \in HubOperation : p \in Operation
  /\ "none" \notin Digest /\ "none" \notin Operation /\ "none" \notin Worker

(* The types give them. *)
LEMMA ValuesFit == ASSUME TypeOK PROVE Values
  BY PublicationAssumption DEF TypeOK, Values

(* What the files and the workers are indexed by. *)
Entries ==
  /\ DOMAIN pc = Worker /\ DOMAIN digest = Worker /\ DOMAIN lock = Operation
  /\ DOMAIN staging = Operation /\ DOMAIN sealed = Operation
  /\ DOMAIN blob = Digest /\ DOMAIN unsynced = Digest /\ DOMAIN reported = Operation

(* The types give that too. *)
LEMMA EntriesFit == ASSUME TypeOK PROVE Entries
  BY DEF TypeOK, Entries

(* Published content stays published, and durable. *)
BlobsKept ==
  \A d \in Digest :
    /\ ValidContent(d) => ValidContent(d)' /\ (unsynced[d] = "none" => unsynced'[d] = "none")
    /\ READY[d] => READY'[d]

(* A worker keeps what it relies on when it does not move, its operation's   *)
(* files stay as they are, and blobs only grow.                              *)
LEMMA WorkerKept ==
  ASSUME TypeOK', NEW v \in Worker, FetchOK(v), PublishOK(v), BlobsKept,
         pc'[v] = pc[v], digest'[v] = digest[v],
         Busy(v) => SameFiles(OperationOf[v])
  PROVE  FetchOK(v)' /\ PublishOK(v)'
  <1> DEFINE o == OperationOf[v]
  <1>1. o \in Operation BY PublicationAssumption, Zenon
  <1>2. CASE ~Busy(v) BY <1>2, Zenon DEF Busy, FetchOK, PublishOK
  <1>3. CASE Busy(v)
    <2>1. SameFiles(o) BY <1>3, Zenon
    <2>2. source'[o] \in Digest BY <1>1, Zenon DEF TypeOK
    <2>3. FetchOK(v)' BY <2>1, <2>2, Zenon DEF SameFiles, FetchOK, SourceContent
    <2>4. PublishOK(v)' BY <2>1, Zenon DEF SameFiles, PublishOK, BlobsKept
    <2> QED BY <2>3, <2>4, Zenon
  <1> QED BY <1>2, <1>3, Zenon

(* So do all workers but the one that moves ... *)
LEMMA OthersKept ==
  ASSUME Inv, TypeOK', NEW w \in Worker, BlobsKept,
         \A v \in Worker : v # w => pc'[v] = pc[v] /\ digest'[v] = digest[v],
         \A p \in Operation : p # OperationOf[w] => SameFiles(p),
         Busy(w) \/ SameFiles(OperationOf[w])
  PROVE  \A v \in Worker : v # w => FetchOK(v)' /\ PublishOK(v)'
  <1> SUFFICES ASSUME NEW v \in Worker, v # w PROVE FetchOK(v)' /\ PublishOK(v)'
    OBVIOUS
  <1>1. OperationOf[v] \in Operation BY PublicationAssumption, Zenon
  <1>2. Busy(v) => SameFiles(OperationOf[v]) BY <1>1, OthersElsewhere, Zenon DEF Inv
  <1> QED BY <1>2, WorkerKept, Zenon DEF Inv, FetchInv, PublishInv

(* ... and all of them when none does. *)
LEMMA AllKept ==
  ASSUME Inv, TypeOK', BlobsKept, UNCHANGED <<pc, digest>>,
         \A v \in Worker : Busy(v) => SameFiles(OperationOf[v])
  PROVE  FetchInv' /\ PublishInv'
  BY WorkerKept, Zenon DEF Inv, FetchInv, PublishInv

-----------------------------------------------------------------------------
(* An importer that starts, recovers, fetches or fails, and a source that  *)
(* changes.                                                                *)

(* The importer takes its lock and recovers. *)
LEMMA ImporterStartStep ==
  ASSUME Inv, TypeOK', NEW w \in Worker
  PROVE  AcquireOperationLock(w) \/ RecoverFromMarker(w) \/ RecoverFinalize(w) \/
         RecoverStaged(w) \/ RecoverNothing(w) => Inv'
  <1> DEFINE o == OperationOf[w]
  <1>0. o \in Operation /\ Values BY ValuesFit, Zenon DEF Inv, Values
  <1>1. Busy(w) => \A v \in Worker : v # w /\ Busy(v) => OperationOf[v] # o
    BY OthersElsewhere, Zenon DEF Inv
  <1>2. FetchOK(w) /\ PublishOK(w) BY Zenon DEF Inv, FetchInv, PublishInv
  <1>3. AcquireOperationLock(w) => Inv'
    <2> HAVE AcquireOperationLock(w)
    <2>1. /\ pc[w] = "idle" /\ cleanup[ArtifactOf[o]] = "none" /\ lock[o] = "none"
          /\ Sets(pc, pc', Worker, w, "recover")
          /\ Sets(lock, lock', Operation, o, w)
          /\ UNCHANGED <<digest, cacheHit, source, pin, staging, sealed, intent,
                           marker, reported, blob, READY, unsynced, cleanup,
                           failures>>
      BY DEF Inv, TypeOK, Sets, AcquireOperationLock, Goto, stagingVars, blobVars
    <2>2. LockInv' BY <1>0, <2>1 DEF Values, Inv, LockInv, Busy, Deleted, Sets
    <2>3. \A v \in Worker : v # w => FetchOK(v)' /\ PublishOK(v)'
      BY <1>0, <2>1, OthersKept, Zenon DEF Sets, SameFiles, BlobsKept, ValidContent, Busy
    <2>4. FetchOK(w)' /\ PublishOK(w)'
      BY <1>2, <2>1, Zenon DEF FetchOK, PublishOK, Sets
    <2>5. UnsyncedInv' /\ IntentInv' /\ PublishedIsComplete' /\ MarkerIsTruthful' /\
         HubInv' /\ ReportedInv'
      BY <2>1, Frame, Zenon DEF Inv
    <2> QED BY <2>2, <2>3, <2>4, <2>5, Zenon DEF Inv, FetchInv, PublishInv
  <1>4. RecoverFromMarker(w) => Inv'
    <2> HAVE RecoverFromMarker(w)
    <2>1. /\ pc[w] = "recover" /\ marker[o] # "none" /\ ValidatePublished(marker[o])
          /\ Sets(pc, pc', Worker, w, "report")
          /\ Sets(digest, digest', Worker, w, marker[o])
          /\ UNCHANGED <<cacheHit, lock, source, pin, staging, sealed, intent, marker,
                           reported, blob, READY, unsynced, cleanup, failures>>
      <3>1. Entries BY EntriesFit, Zenon DEF Inv
      <3> QED BY <3>1, Zenon DEF Entries, Sets, RecoverFromMarker, Goto, stagingVars, blobVars
    <2>2. LockInv' BY <2>1, Zenon DEF Inv, LockInv, Busy, Deleted, Sets
    <2>3. \A v \in Worker : v # w => FetchOK(v)' /\ PublishOK(v)'
      BY <1>0, <2>1, OthersKept, Zenon DEF Sets, SameFiles, BlobsKept, ValidContent, Busy
    <2>4. FetchOK(w)' /\ PublishOK(w)'
      BY <1>0, <1>2, <2>1, Zenon DEF Values, FetchOK, PublishOK, Sets
    <2>5. UnsyncedInv' /\ IntentInv' /\ PublishedIsComplete' /\ MarkerIsTruthful' /\
         HubInv' /\ ReportedInv'
      BY <2>1, Frame, Zenon DEF Inv
    <2> QED BY <2>2, <2>3, <2>4, <2>5, Zenon DEF Inv, FetchInv, PublishInv
  <1>5. RecoverFinalize(w) => Inv'
    <2> HAVE RecoverFinalize(w)
    <2>1. /\ pc[w] = "recover" /\ marker[o] = "none" /\ intent[o] # "none"
          /\ ValidContent(intent[o])
          /\ Sets(pc, pc', Worker, w, "sync")
          /\ Sets(digest, digest', Worker, w, intent[o])
          /\ UNCHANGED <<cacheHit, lock, source, pin, staging, sealed, intent, marker,
                           reported, blob, READY, unsynced, cleanup, failures>>
      <3>1. Entries BY EntriesFit, Zenon DEF Inv
      <3> QED BY <3>1, Zenon DEF Entries, Sets, RecoverFinalize, Goto, stagingVars, blobVars
    <2>2. LockInv' BY <2>1, Zenon DEF Inv, LockInv, Busy, Deleted, Sets
    <2>3. \A v \in Worker : v # w => FetchOK(v)' /\ PublishOK(v)'
      BY <1>0, <2>1, OthersKept, Zenon DEF Sets, SameFiles, BlobsKept, ValidContent, Busy
    <2>4. FetchOK(w)' /\ PublishOK(w)'
      BY <1>0, <1>2, <2>1, Zenon DEF Values, FetchOK, PublishOK, Sets, ValidContent
    <2>5. UnsyncedInv' /\ IntentInv' /\ PublishedIsComplete' /\ MarkerIsTruthful' /\
         HubInv' /\ ReportedInv'
      BY <2>1, Frame, Zenon DEF Inv
    <2> QED BY <2>2, <2>3, <2>4, <2>5, Zenon DEF Inv, FetchInv, PublishInv
  <1>6. RecoverStaged(w) => Inv'
    <2> HAVE RecoverStaged(w)
    <2>1. /\ pc[w] = "recover" /\ marker[o] = "none" /\ intent[o] # "none"
          /\ staging[o] = intent[o]
          /\ Sets(pc, pc', Worker, w, "intent")
          /\ Sets(digest, digest', Worker, w, intent[o])
          /\ UNCHANGED <<cacheHit, lock, source, pin, staging, sealed, intent, marker,
                           reported, blob, READY, unsynced, cleanup, failures>>
      BY DEF Inv, TypeOK, Sets, RecoverStaged, Goto, stagingVars, blobVars
    <2>2. LockInv' BY <2>1, Zenon DEF Inv, LockInv, Busy, Deleted, Sets
    <2>3. \A v \in Worker : v # w => FetchOK(v)' /\ PublishOK(v)'
      BY <1>0, <2>1, OthersKept, Zenon DEF Sets, SameFiles, BlobsKept, ValidContent, Busy
    <2>4. FetchOK(w)' /\ PublishOK(w)'
      <3>1. o \in HubOperation => pin[o] = intent[o]
        BY <2>1, Zenon DEF Inv, HubInv, LockInv, Busy
      <3> QED BY <1>0, <1>2, <3>1, <2>1, Zenon DEF Values, FetchOK, PublishOK, Sets
    <2>5. UnsyncedInv' /\ IntentInv' /\ PublishedIsComplete' /\ MarkerIsTruthful' /\
         HubInv' /\ ReportedInv'
      BY <2>1, Frame, Zenon DEF Inv
    <2> QED BY <2>2, <2>3, <2>4, <2>5, Zenon DEF Inv, FetchInv, PublishInv
  <1>7. RecoverNothing(w) => Inv'
    <2> HAVE RecoverNothing(w)
    <2>1. /\ pc[w] = "recover" /\ marker[o] = "none" /\ intent[o] = "none"
          /\ Sets(pc, pc', Worker, w, "resolve")
          /\ UNCHANGED <<digest, cacheHit, lock, source, pin, staging, sealed, intent,
                           marker, reported, blob, READY, unsynced, cleanup,
                           failures>>
      BY DEF Inv, TypeOK, Sets, RecoverNothing, Goto, stagingVars, blobVars
    <2>2. LockInv' BY <2>1, Zenon DEF Inv, LockInv, Busy, Deleted, Sets
    <2>3. \A v \in Worker : v # w => FetchOK(v)' /\ PublishOK(v)'
      BY <1>0, <2>1, OthersKept, Zenon DEF Sets, SameFiles, BlobsKept, ValidContent, Busy
    <2>4. FetchOK(w)' /\ PublishOK(w)'
      BY <1>2, <2>1, Zenon DEF FetchOK, PublishOK, Sets
    <2>5. UnsyncedInv' /\ IntentInv' /\ PublishedIsComplete' /\ MarkerIsTruthful' /\
         HubInv' /\ ReportedInv'
      BY <2>1, Frame, Zenon DEF Inv
    <2> QED BY <2>2, <2>3, <2>4, <2>5, Zenon DEF Inv, FetchInv, PublishInv
  <1> QED BY <1>3, <1>4, <1>5, <1>6, <1>7, Zenon

(* From the source to validated staging. *)
LEMMA FetchStep ==
  ASSUME Inv, TypeOK', NEW w \in Worker
  PROVE  Resolve(w) \/ EnsureStaging(w) \/ Transfer(w) \/ validateStaged(w) => Inv'
  <1> DEFINE o == OperationOf[w]
  <1>0. o \in Operation /\ Values BY ValuesFit, Zenon DEF Inv, Values
  <1>1. Busy(w) => \A v \in Worker : v # w /\ Busy(v) => OperationOf[v] # o
    BY OthersElsewhere, Zenon DEF Inv
  <1>2. FetchOK(w) /\ PublishOK(w) BY Zenon DEF Inv, FetchInv, PublishInv
  <1>3. Resolve(w) => Inv'
    <2> HAVE Resolve(w)
    <2>1. /\ pc[w] = "resolve"
          /\ Sets(pc, pc', Worker, w, "stage")
          /\ Sets(pin, pin', Operation, o,
                  IF o \in HubOperation /\ pin[o] = "none" THEN source[o] ELSE pin[o])
          /\ UNCHANGED <<digest, cacheHit, lock, source, staging, sealed, intent,
                           marker, reported, blob, READY, unsynced, cleanup,
                           failures>>
      BY DEF Inv, TypeOK, Sets, Resolve, Goto, stagingVars, blobVars
    <2>2. LockInv' BY <2>1, Zenon DEF Inv, LockInv, Busy, Deleted, Sets
    <2>3. HubInv'
      <3>1. ~Deleted(o) BY <2>1, Zenon DEF Inv, LockInv, Busy
      <3>2. \A p \in HubOperation : (Deleted(p)' <=> Deleted(p)) /\ (pin'[p] = pin[p] \/ p = o)
        BY <1>0, <2>1, Zenon DEF Values, Deleted, Sets
      <3>3. pin[o] = "none" \/ pin'[o] = pin[o] BY <2>1, Zenon DEF Sets
      <3>4. HubInv BY Zenon DEF Inv
      <3>5. ASSUME NEW p \in HubOperation, pin[p] # "none" PROVE pin'[p] = pin[p]
        BY <3>2, <3>3, <3>5, Zenon
      <3>6. ASSUME NEW p \in HubOperation, pin[p] = "none", ~Deleted(p)
            PROVE  intent[p] = "none" /\ marker[p] = "none" /\ reported[p] = {}
        BY <3>4, <3>6, Zenon DEF HubInv
      <3>7. ASSUME NEW p \in HubOperation, pin[p] = "none", Deleted(p)
            PROVE  pin'[p] = "none"
        BY <3>1, <3>2, <3>7, Zenon
      <3>8. UNCHANGED <<intent, marker, reported>> BY <2>1, Zenon
      <3> QED BY <3>2, <3>4, <3>5, <3>6, <3>7, <3>8, Zenon DEF HubInv
    <2>4. \A v \in Worker : v # w => FetchOK(v)' /\ PublishOK(v)'
      BY <1>0, <2>1, OthersKept, Zenon DEF Sets, SameFiles, BlobsKept, ValidContent, Busy
    <2>5. FetchOK(w)' /\ PublishOK(w)'
      BY <1>0, <1>2, <2>1, Zenon DEF Values, FetchOK, PublishOK, Sets, SourceContent
    <2>6. UnsyncedInv' /\ IntentInv' /\ PublishedIsComplete' /\ MarkerIsTruthful' /\
         ReportedInv'
      BY <2>1, Frame, Zenon DEF Inv
    <2> QED BY <2>2, <2>3, <2>4, <2>5, <2>6, Zenon DEF Inv, FetchInv, PublishInv
  <1>4. EnsureStaging(w) => Inv'
    <2> HAVE EnsureStaging(w)
    <2>1. /\ pc[w] = "stage"
          /\ Sets(pc, pc', Worker, w, "transfer")
          /\ Sets(staging, staging', Operation, o, staging'[o])
          /\ UNCHANGED <<digest, cacheHit, lock, source, pin, sealed, intent, marker,
                           reported, blob, READY, unsynced, cleanup, failures>>
      BY DEF Inv, TypeOK, Sets, EnsureStaging, Goto, blobVars
    <2>2. LockInv' BY <2>1, Zenon DEF Inv, LockInv, Busy, Deleted, Sets
    <2>3. IntentInv'
      BY <1>2, <2>1, Zenon DEF Inv, IntentInv, ValidContent, Deleted, Sets, FetchOK
    <2>4. \A v \in Worker : v # w => FetchOK(v)' /\ PublishOK(v)'
      BY <1>0, <2>1, OthersKept, Zenon DEF Sets, SameFiles, BlobsKept, ValidContent, Busy
    <2>5. FetchOK(w)' /\ PublishOK(w)'
      BY <1>2, <2>1, Zenon DEF FetchOK, PublishOK, Sets, SourceContent
    <2>6. UnsyncedInv' /\ PublishedIsComplete' /\ MarkerIsTruthful' /\ HubInv' /\
         ReportedInv'
      BY <2>1, Frame, Zenon DEF Inv
    <2> QED BY <2>2, <2>3, <2>4, <2>5, <2>6, Zenon DEF Inv, FetchInv, PublishInv
  <1>5. Transfer(w) => Inv'
    <2> HAVE Transfer(w)
    <2>1. /\ pc[w] = "transfer"
          /\ Sets(pc, pc', Worker, w, "validate")
          /\ Sets(staging, staging', Operation, o, SourceContent(o))
          /\ UNCHANGED <<digest, cacheHit, lock, source, pin, sealed, intent, marker,
                           reported, blob, READY, unsynced, cleanup, failures>>
      BY DEF Inv, TypeOK, Sets, Transfer, Goto, blobVars
    <2>2. LockInv' BY <2>1, Zenon DEF Inv, LockInv, Busy, Deleted, Sets
    <2>3. IntentInv'
      BY <1>2, <2>1, Zenon DEF Inv, IntentInv, ValidContent, Deleted, Sets, FetchOK
    <2>4. \A v \in Worker : v # w => FetchOK(v)' /\ PublishOK(v)'
      BY <1>0, <2>1, OthersKept, Zenon DEF Sets, SameFiles, BlobsKept, ValidContent, Busy
    <2>5. FetchOK(w)' /\ PublishOK(w)'
      BY <1>2, <2>1, Zenon DEF FetchOK, PublishOK, Sets, SourceContent
    <2>6. UnsyncedInv' /\ PublishedIsComplete' /\ MarkerIsTruthful' /\ HubInv' /\
         ReportedInv'
      BY <2>1, Frame, Zenon DEF Inv
    <2> QED BY <2>2, <2>3, <2>4, <2>5, <2>6, Zenon DEF Inv, FetchInv, PublishInv
  <1>6. validateStaged(w) => Inv'
    <2> HAVE validateStaged(w)
    <2>1. /\ pc[w] = "validate"
          /\ Sets(pc, pc', Worker, w, "intent")
          /\ Sets(digest, digest', Worker, w, staging[o])
          /\ UNCHANGED <<cacheHit, lock, source, pin, staging, sealed, intent, marker,
                           reported, blob, READY, unsynced, cleanup, failures>>
      BY DEF Inv, TypeOK, Sets, validateStaged, Goto, stagingVars, blobVars
    <2>2. LockInv' BY <2>1, Zenon DEF Inv, LockInv, Busy, Deleted, Sets
    <2>3. \A v \in Worker : v # w => FetchOK(v)' /\ PublishOK(v)'
      BY <1>0, <2>1, OthersKept, Zenon DEF Sets, SameFiles, BlobsKept, ValidContent, Busy
    <2>4. FetchOK(w)' /\ PublishOK(w)'
      BY <1>2, <2>1, Zenon DEF FetchOK, PublishOK, Sets
    <2>5. UnsyncedInv' /\ IntentInv' /\ PublishedIsComplete' /\ MarkerIsTruthful' /\
         HubInv' /\ ReportedInv'
      BY <2>1, Frame, Zenon DEF Inv
    <2> QED BY <2>2, <2>3, <2>4, <2>5, Zenon DEF Inv, FetchInv, PublishInv
  <1> QED BY <1>3, <1>4, <1>5, <1>6, Zenon

(* A process ends, another Job starts. *)
LEMMA FailureStep ==
  ASSUME Inv, TypeOK', NEW w \in Worker
  PROVE  Fails(w) \/ Rerun(w) => Inv'
  <1> DEFINE o == OperationOf[w]
  <1>0. o \in Operation /\ Values BY ValuesFit, Zenon DEF Inv, Values
  <1>1. Busy(w) => \A v \in Worker : v # w /\ Busy(v) => OperationOf[v] # o
    BY OthersElsewhere, Zenon DEF Inv
  <1>2. FetchOK(w) /\ PublishOK(w) BY Zenon DEF Inv, FetchInv, PublishInv
  <1>3. Fails(w) => Inv'
    <2> HAVE Fails(w)
    <2>1. /\ pc[w] \notin {"idle", "done"}
          /\ Sets(pc, pc', Worker, w, "idle")
          /\ Sets(digest, digest', Worker, w, "none")
          /\ Sets(lock, lock', Operation, o, "none")
          /\ UNCHANGED <<source, pin, staging, sealed, intent, marker, reported, blob,
                           READY, unsynced, cleanup>>
      <3>1. Entries BY EntriesFit, Zenon DEF Inv
      <3> QED BY <1>0, <3>1, Zenon DEF Entries, Sets, Fails, stagingVars, blobVars
    <2>2. LockInv' BY <1>0, <1>1, <2>1 DEF Values, Inv, LockInv, Busy, Deleted, Sets
    <2>3. \A v \in Worker : v # w => FetchOK(v)' /\ PublishOK(v)'
      BY <1>0, <2>1, OthersKept, Zenon DEF Sets, SameFiles, BlobsKept, ValidContent, Busy
    <2>4. FetchOK(w)' /\ PublishOK(w)'
      BY <1>2, <2>1, Zenon DEF FetchOK, PublishOK, Sets
    <2>5. UnsyncedInv' /\ IntentInv' /\ PublishedIsComplete' /\ MarkerIsTruthful' /\
         HubInv' /\ ReportedInv'
      BY <2>1, Frame, Zenon DEF Inv
    <2> QED BY <2>2, <2>3, <2>4, <2>5, Zenon DEF Inv, FetchInv, PublishInv
  <1>4. Rerun(w) => Inv'
    <2> HAVE Rerun(w)
    <2>1. /\ pc[w] = "done"
          /\ Sets(pc, pc', Worker, w, "idle")
          /\ Sets(digest, digest', Worker, w, "none")
          /\ UNCHANGED <<lock, source, pin, staging, sealed, intent, marker, reported,
                           blob, READY, unsynced, cleanup, failures>>
      BY DEF Inv, TypeOK, Sets, Rerun, Goto, stagingVars, blobVars
    <2>2. LockInv' BY <2>1, Zenon DEF Inv, LockInv, Busy, Deleted, Sets
    <2>3. \A v \in Worker : v # w => FetchOK(v)' /\ PublishOK(v)'
      BY <1>0, <2>1, OthersKept, Zenon DEF Sets, SameFiles, BlobsKept, ValidContent, Busy
    <2>4. FetchOK(w)' /\ PublishOK(w)'
      BY <1>2, <2>1, Zenon DEF FetchOK, PublishOK, Sets
    <2>5. UnsyncedInv' /\ IntentInv' /\ PublishedIsComplete' /\ MarkerIsTruthful' /\
         HubInv' /\ ReportedInv'
      BY <2>1, Frame, Zenon DEF Inv
    <2> QED BY <2>2, <2>3, <2>4, <2>5, Zenon DEF Inv, FetchInv, PublishInv
  <1> QED BY <1>3, <1>4, Zenon

(* The source changes. *)
LEMMA SourceStep ==
  ASSUME Inv, TypeOK', NEW o \in Operation
  PROVE  SourceChanges(o) => Inv'
  <1>0. Values BY ValuesFit, Zenon DEF Inv
  <1>1. SourceChanges(o) => Inv'
    <2> HAVE SourceChanges(o)
    <2>1. /\ UNCHANGED <<pc, digest, cacheHit, lock, pin, staging, sealed, intent,
                           marker, reported, blob, READY, unsynced, cleanup,
                           failures>>
      BY Zenon DEF Inv, TypeOK, Sets, SourceChanges, workerVars, stagingVars, blobVars
    <2>2. FetchInv' /\ PublishInv'
      BY <2>1, AllKept, Zenon DEF Inv, LockInv, Sets, SameFiles, BlobsKept, ValidContent
    <2>3. LockInv' /\ UnsyncedInv' /\ IntentInv' /\ PublishedIsComplete' /\
         MarkerIsTruthful' /\ HubInv' /\ ReportedInv'
      BY <2>1, Frame, Zenon DEF Inv
    <2> QED BY <2>2, <2>3, Zenon DEF Inv
  <1> QED BY <1>1, Zenon

-----------------------------------------------------------------------------

(* An importer inside Publish and finalizeIntent.                          *)

(* Publish, up to the rename. *)
LEMMA PublishStep ==
  ASSUME Inv, TypeOK', NEW w \in Worker
  PROVE  PublishIntent(w) \/ PublishManifest(w) \/ PublishInspect(w) \/
         PublishRename(w) \/ PublishRenameLost(w) => Inv'
  <1> DEFINE o == OperationOf[w]
  <1>0. o \in Operation /\ Values BY ValuesFit, Zenon DEF Inv, Values
  <1>1. Busy(w) => \A v \in Worker : v # w /\ Busy(v) => OperationOf[v] # o
    BY OthersElsewhere, Zenon DEF Inv
  <1>2. FetchOK(w) /\ PublishOK(w) BY Zenon DEF Inv, FetchInv, PublishInv
  <1>3. PublishIntent(w) => Inv'
    <2> HAVE PublishIntent(w)
    <2>1. /\ pc[w] = "intent"
          /\ Sets(pc, pc', Worker, w, "seal")
          /\ Sets(intent, intent', Operation, o, digest[w])
          /\ UNCHANGED <<digest, cacheHit, lock, source, pin, staging, sealed, marker,
                           reported, blob, READY, unsynced, cleanup, failures>>
      BY DEF Inv, TypeOK, Sets, PublishIntent, Goto, stagingVars, blobVars
    <2>2. LockInv' BY <2>1, Zenon DEF Inv, LockInv, Busy, Deleted, Sets
    <2>3. UnsyncedInv'
      BY <1>0, <1>2, <2>1 DEF Values, Inv, UnsyncedInv, ValidContent, Deleted, Sets,
           PublishOK
    <2>4. IntentInv'
      BY <1>2, <2>1 DEF Inv, IntentInv, ValidContent, Deleted, Sets, PublishOK
    <2>5. HubInv'
      BY <1>0, <1>2, <2>1 DEF Values, Inv, HubInv, Deleted, Sets, PublishOK, LockInv,
           Busy
    <2>6. \A v \in Worker : v # w => FetchOK(v)' /\ PublishOK(v)'
      BY <1>0, <2>1, OthersKept, Zenon DEF Sets, SameFiles, BlobsKept, ValidContent, Busy
    <2>7. FetchOK(w)' /\ PublishOK(w)'
      BY <1>2, <2>1, Zenon DEF FetchOK, PublishOK, Sets
    <2>8. PublishedIsComplete' /\ MarkerIsTruthful' /\ ReportedInv'
      BY <2>1, Frame, Zenon DEF Inv
    <2> QED BY <2>2, <2>3, <2>4, <2>5, <2>6, <2>7, <2>8, Zenon DEF Inv, FetchInv, PublishInv
  <1>4. PublishManifest(w) => Inv'
    <2> HAVE PublishManifest(w)
    <2>1. /\ pc[w] = "seal"
          /\ Sets(pc, pc', Worker, w, "inspect")
          /\ Sets(sealed, sealed', Operation, o, TRUE)
          /\ UNCHANGED <<digest, cacheHit, lock, source, pin, staging, intent, marker,
                           reported, blob, READY, unsynced, cleanup, failures>>
      BY DEF Inv, TypeOK, Sets, PublishManifest, Goto, blobVars
    <2>2. LockInv' BY <2>1, Zenon DEF Inv, LockInv, Busy, Deleted, Sets
    <2>3. \A v \in Worker : v # w => FetchOK(v)' /\ PublishOK(v)'
      BY <1>0, <2>1, OthersKept, Zenon DEF Sets, SameFiles, BlobsKept, ValidContent, Busy
    <2>4. FetchOK(w)' /\ PublishOK(w)'
      BY <1>2, <2>1, Zenon DEF FetchOK, PublishOK, Sets
    <2>5. UnsyncedInv' /\ IntentInv' /\ PublishedIsComplete' /\ MarkerIsTruthful' /\
         HubInv' /\ ReportedInv'
      BY <2>1, Frame, Zenon DEF Inv
    <2> QED BY <2>2, <2>3, <2>4, <2>5, Zenon DEF Inv, FetchInv, PublishInv
  <1>5. PublishInspect(w) => Inv'
    <2> HAVE PublishInspect(w)
    <2>1. /\ pc[w] = "inspect" /\ pc'[w] \in {"sync", "rename"}
          /\ (pc'[w] = "sync" => ValidContent(digest[w]))
          /\ Sets(pc, pc', Worker, w, pc'[w])
          /\ UNCHANGED <<digest, lock, source, pin, staging, sealed, intent, marker,
                           reported, blob, READY, unsynced, cleanup, failures>>
      BY DEF Inv, TypeOK, Sets, PublishInspect, Goto, stagingVars, blobVars
    <2>2. LockInv' BY <2>1, Zenon DEF Inv, LockInv, Busy, Deleted, Sets
    <2>3. \A v \in Worker : v # w => FetchOK(v)' /\ PublishOK(v)'
      BY <1>0, <2>1, OthersKept, Zenon DEF Sets, SameFiles, BlobsKept, ValidContent, Busy
    <2>4. FetchOK(w)' /\ PublishOK(w)'
      BY <1>2, <2>1, Zenon DEF FetchOK, PublishOK, Sets, ValidContent
    <2>5. UnsyncedInv' /\ IntentInv' /\ PublishedIsComplete' /\ MarkerIsTruthful' /\
         HubInv' /\ ReportedInv'
      BY <2>1, Frame, Zenon DEF Inv
    <2> QED BY <2>2, <2>3, <2>4, <2>5, Zenon DEF Inv, FetchInv, PublishInv
  <1>6. PublishRename(w) => Inv'
    <2> HAVE PublishRename(w)
    <2>1. /\ pc[w] = "rename" /\ blob[digest[w]] = "absent"
          /\ Sets(pc, pc', Worker, w, "sync")
          /\ Sets(blob, blob', Digest, digest[w], "complete")
          /\ Sets(staging, staging', Operation, o, "absent")
          /\ Sets(sealed, sealed', Operation, o, FALSE)
          /\ Sets(unsynced, unsynced', Digest, digest[w], o)
          /\ UNCHANGED <<digest, cacheHit, lock, source, pin, intent, marker,
                           reported, READY, cleanup, failures>>
      <3>1. Entries BY EntriesFit, Zenon DEF Inv
      <3>2. /\ pc[w] = "rename" /\ digest[w] \in Digest /\ staging[o] = digest[w] /\ sealed[o]
        BY <1>2, Zenon DEF PublishRename, Goto, PublishOK
      <3> QED BY <1>0, <3>1, <3>2, Zenon DEF Entries, Sets, PublishRename, Goto
    <2>2. LockInv' BY <2>1, Zenon DEF Inv, LockInv, Busy, Deleted, Sets
    <2>3. UnsyncedInv'
      <3>1. UnsyncedInv /\ PublishedIsComplete BY Zenon DEF Inv
      <3>2. ASSUME NEW d \in Digest, unsynced'[d] # "none"
            PROVE  /\ ValidContent(d)' /\ ~READY'[d]
                   /\ Deleted(unsynced[d])' \/ intent'[unsynced'[d]] = d
        <4>1. CASE d = digest[w]
          <5>1. ~READY[d] BY <2>1, <3>1, <4>1, Zenon DEF PublishedIsComplete, ValidContent
          <5>2. intent[o] = d BY <1>2, <2>1, <4>1, Zenon DEF PublishOK
          <5> QED BY <2>1, <4>1, <5>1, <5>2, Zenon DEF ValidContent, Sets
        <4>2. CASE d # digest[w]
          <5>1. unsynced'[d] = unsynced[d] /\ blob'[d] = blob[d] BY <2>1, <4>2, Zenon DEF Sets
          <5>2. UNCHANGED <<READY, cleanup, intent>> BY <2>1, Zenon
          <5> QED BY <3>1, <3>2, <5>1, <5>2, Zenon DEF UnsyncedInv, ValidContent, Deleted
        <4> QED BY <4>1, <4>2, Zenon
      <3> QED BY <3>2, Zenon DEF UnsyncedInv
    <2>4. IntentInv'
      BY <1>0, <1>2, <2>1 DEF Values, Inv, IntentInv, ValidContent, Deleted, Sets,
           PublishOK
    <2>5. PublishedIsComplete'
      BY <2>1, Zenon DEF Inv, PublishedIsComplete, ValidContent, Sets
    <2>6. MarkerIsTruthful'
      <3>1. MarkerIsTruthful BY Zenon DEF Inv
      <3>2. ASSUME NEW p \in Operation, marker'[p] # "none"
            PROVE  ValidatePublished(marker[p])' /\ unsynced'[marker'[p]] = "none"
        <4>1. ValidatePublished(marker[p]) /\ unsynced[marker[p]] = "none"
          BY <2>1, <3>1, <3>2, Zenon DEF MarkerIsTruthful
        <4>2. marker'[p] = marker[p] /\ marker[p] \in Digest /\ marker[p] # digest[w]
          BY <1>0, <2>1, <3>2, <4>1, Zenon DEF Values, ValidatePublished, ValidContent
        <4> QED BY <2>1, <4>1, <4>2, Zenon DEF ValidatePublished, ValidContent, Sets
      <3> QED BY <3>2, Zenon DEF MarkerIsTruthful
    <2>7. \A v \in Worker : v # w => FetchOK(v)' /\ PublishOK(v)'
      BY <1>0, <2>1, OthersKept, Zenon DEF Sets, SameFiles, BlobsKept, ValidContent, Busy
    <2>8. FetchOK(w)' /\ PublishOK(w)'
      BY <1>2, <2>1, Zenon DEF FetchOK, PublishOK, Sets, ValidContent
    <2>9. HubInv' /\ ReportedInv' BY <2>1, Frame, Zenon DEF Inv
    <2> QED
      BY <2>2, <2>3, <2>4, <2>5, <2>6, <2>7, <2>8, <2>9, Zenon DEF Inv, FetchInv, PublishInv
  <1>7. PublishRenameLost(w) => Inv'
    <2> HAVE PublishRenameLost(w)
    <2>1. /\ pc[w] = "rename" /\ ValidContent(digest[w])
          /\ Sets(pc, pc', Worker, w, "sync")
          /\ UNCHANGED <<digest, lock, source, pin, staging, sealed, intent, marker,
                           reported, blob, READY, unsynced, cleanup, failures>>
      BY DEF Inv, TypeOK, Sets, PublishRenameLost, Goto, stagingVars, blobVars
    <2>2. LockInv' BY <2>1, Zenon DEF Inv, LockInv, Busy, Deleted, Sets
    <2>3. \A v \in Worker : v # w => FetchOK(v)' /\ PublishOK(v)'
      BY <1>0, <2>1, OthersKept, Zenon DEF Sets, SameFiles, BlobsKept, ValidContent, Busy
    <2>4. FetchOK(w)' /\ PublishOK(w)'
      BY <1>2, <2>1, Zenon DEF FetchOK, PublishOK, Sets, ValidContent
    <2>5. UnsyncedInv' /\ IntentInv' /\ PublishedIsComplete' /\ MarkerIsTruthful' /\
         HubInv' /\ ReportedInv'
      BY <2>1, Frame, Zenon DEF Inv
    <2> QED BY <2>2, <2>3, <2>4, <2>5, Zenon DEF Inv, FetchInv, PublishInv
  <1> QED BY <1>3, <1>4, <1>5, <1>6, <1>7, Zenon

(* finalizePublication and the result. *)
LEMMA FinalizeStep ==
  ASSUME Inv, TypeOK', NEW w \in Worker
  PROVE  FinalizeSync(w) \/ FinalizeReady(w) \/ FinalizeMarker(w) \/ PublishTidy(w) \/
         Report(w) => Inv'
  <1> DEFINE o == OperationOf[w]
  <1>0. o \in Operation /\ Values BY ValuesFit, Zenon DEF Inv, Values
  <1>1. Busy(w) => \A v \in Worker : v # w /\ Busy(v) => OperationOf[v] # o
    BY OthersElsewhere, Zenon DEF Inv
  <1>2. FetchOK(w) /\ PublishOK(w) BY Zenon DEF Inv, FetchInv, PublishInv
  <1>3. FinalizeSync(w) => Inv'
    <2> HAVE FinalizeSync(w)
    <2>1. /\ pc[w] = "sync"
          /\ Sets(pc, pc', Worker, w, "ready")
          /\ \A d \in Digest : unsynced'[d] = "none"
          /\ UNCHANGED <<digest, cacheHit, lock, source, pin, staging, sealed, intent,
                           marker, reported, blob, READY, cleanup, failures>>
      BY DEF Inv, TypeOK, Sets, FinalizeSync, Goto, stagingVars
    <2>2. LockInv' BY <2>1, Zenon DEF Inv, LockInv, Busy, Deleted, Sets
    <2>3. UnsyncedInv'
      BY <2>1, Zenon DEF Inv, UnsyncedInv, ValidContent, Deleted, Sets
    <2>4. IntentInv'
      BY <1>0, <2>1, Zenon DEF Values, Inv, IntentInv, ValidContent, Deleted, Sets
    <2>5. MarkerIsTruthful'
      BY <1>0, <2>1, Zenon DEF Values, Inv, MarkerIsTruthful, ValidatePublished, ValidContent,
           Sets
    <2>6. \A v \in Worker : v # w => FetchOK(v)' /\ PublishOK(v)'
      BY <1>0, <2>1, OthersKept, Zenon DEF Sets, SameFiles, BlobsKept, ValidContent, Busy
    <2>7. FetchOK(w)' /\ PublishOK(w)'
      BY <1>2, <2>1, Zenon DEF FetchOK, PublishOK, Sets, ValidContent
    <2>8. PublishedIsComplete' /\ HubInv' /\ ReportedInv' BY <2>1, Frame, Zenon DEF Inv
    <2> QED BY <2>2, <2>3, <2>4, <2>5, <2>6, <2>7, <2>8, Zenon DEF Inv, FetchInv, PublishInv
  <1>4. FinalizeReady(w) => Inv'
    <2> HAVE FinalizeReady(w)
    <2>1. /\ pc[w] = "ready"
          /\ Sets(pc, pc', Worker, w, "marker")
          /\ Sets(READY, READY', Digest, digest[w], TRUE)
          /\ UNCHANGED <<digest, cacheHit, lock, source, pin, staging, sealed, intent,
                           marker, reported, blob, unsynced, cleanup, failures>>
      BY <1>2 DEF Inv, TypeOK, Sets, FinalizeReady, Goto, stagingVars, PublishOK
    <2>2. LockInv' BY <2>1, Zenon DEF Inv, LockInv, Busy, Deleted, Sets
    <2>3. UnsyncedInv'
      BY <1>2, <2>1, Zenon DEF Inv, UnsyncedInv, ValidContent, Deleted, Sets, PublishOK
    <2>4. PublishedIsComplete'
      BY <1>2, <2>1, Zenon DEF Inv, PublishedIsComplete, ValidContent, Sets, PublishOK
    <2>5. MarkerIsTruthful'
      BY <1>0, <2>1, Zenon DEF Values, Inv, MarkerIsTruthful, ValidatePublished, ValidContent,
           Sets
    <2>6. \A v \in Worker : v # w => FetchOK(v)' /\ PublishOK(v)'
      BY <1>0, <2>1, OthersKept, Zenon DEF Sets, SameFiles, BlobsKept, ValidContent, Busy
    <2>7. FetchOK(w)' /\ PublishOK(w)'
      BY <1>2, <2>1, Zenon DEF FetchOK, PublishOK, Sets, ValidContent
    <2>8. IntentInv' /\ HubInv' /\ ReportedInv' BY <2>1, Frame, Zenon DEF Inv
    <2> QED BY <2>2, <2>3, <2>4, <2>5, <2>6, <2>7, <2>8, Zenon DEF Inv, FetchInv, PublishInv
  <1>5. FinalizeMarker(w) => Inv'
    <2> HAVE FinalizeMarker(w)
    <2>1. /\ pc[w] = "marker" /\ pc'[w] \in {"tidy", "report"}
          /\ Sets(pc, pc', Worker, w, pc'[w])
          /\ Sets(marker, marker', Operation, o, digest[w])
          /\ UNCHANGED <<digest, cacheHit, lock, source, pin, staging, sealed, intent,
                           reported, blob, READY, unsynced, cleanup, failures>>
      BY DEF Inv, TypeOK, Sets, FinalizeMarker, Goto, stagingVars, blobVars
    <2>2. LockInv' BY <2>1, Zenon DEF Inv, LockInv, Busy, Deleted, Sets
    <2>3. MarkerIsTruthful'
      <3>1. MarkerIsTruthful BY Zenon DEF Inv
      <3>2. ValidatePublished(digest[w]) /\ unsynced[digest[w]] = "none"
        BY <1>2, <2>1, Zenon DEF PublishOK, ValidatePublished
      <3>3. /\ marker'[o] = digest[w] /\ UNCHANGED <<blob, READY, unsynced>>
            /\ \A p \in Operation : p # o => marker'[p] = marker[p]
        BY <2>1, Zenon DEF Sets
      <3>4. \A d : (ValidatePublished(d))' <=> ValidatePublished(d)
        BY <3>3, Zenon DEF ValidatePublished, ValidContent
      <3> QED BY <3>1, <3>2, <3>3, <3>4, Zenon DEF MarkerIsTruthful
    <2>4. HubInv'
      <3>1. HubInv /\ ~Deleted(o) BY <2>1, Zenon DEF Inv, LockInv, Busy
      <3>2. intent[o] = digest[w] /\ digest[w] # "none"
        BY <1>0, <1>2, <2>1, Zenon DEF PublishOK, Values
      <3>3. o \in HubOperation => pin[o] = digest[w] BY <3>1, <3>2, Zenon DEF HubInv
      <3>4. \A p \in HubOperation :
              (Deleted(p)' <=> Deleted(p)) /\ (marker'[p] = marker[p] \/ p = o)
        BY <1>0, <2>1, Zenon DEF Values, Deleted, Sets
      <3>5. marker'[o] = digest[w] /\ UNCHANGED <<pin, intent, reported>>
        BY <2>1, Zenon DEF Sets
      <3> QED BY <3>1, <3>2, <3>3, <3>4, <3>5, Zenon DEF HubInv
    <2>5. ReportedInv'
      <3>1. ReportedInv /\ ~Deleted(o) BY <2>1, Zenon DEF Inv, LockInv, Busy
      <3>2. marker[o] = "none" BY <1>2, <2>1, Zenon DEF PublishOK
      <3>3. reported[o] = {} BY <1>0, <3>1, <3>2 DEF ReportedInv, Values
      <3>4. /\ \A p \in Operation : p # o => marker'[p] = marker[p]
            /\ UNCHANGED <<reported, cleanup>>
        BY <2>1, Zenon DEF Sets
      <3> QED BY <3>1, <3>3, <3>4, Zenon DEF ReportedInv, Deleted
    <2>6. \A v \in Worker : v # w => FetchOK(v)' /\ PublishOK(v)'
      BY <1>0, <2>1, OthersKept, Zenon DEF Sets, SameFiles, BlobsKept, ValidContent, Busy
    <2>7. FetchOK(w)' /\ PublishOK(w)'
      BY <1>2, <2>1, Zenon DEF FetchOK, PublishOK, Sets
    <2>8. UnsyncedInv' /\ IntentInv' /\ PublishedIsComplete' BY <2>1, Frame, Zenon DEF Inv
    <2> QED BY <2>2, <2>3, <2>4, <2>5, <2>6, <2>7, <2>8, Zenon DEF Inv, FetchInv, PublishInv
  <1>6. PublishTidy(w) => Inv'
    <2> HAVE PublishTidy(w)
    <2>1. /\ pc[w] = "tidy"
          /\ Sets(pc, pc', Worker, w, "report")
          /\ Sets(staging, staging', Operation, o, "absent")
          /\ Sets(sealed, sealed', Operation, o, FALSE)
          /\ UNCHANGED <<digest, cacheHit, lock, source, pin, intent, marker,
                           reported, blob, READY, unsynced, cleanup, failures>>
      BY DEF Inv, TypeOK, Sets, PublishTidy, Goto, blobVars
    <2>2. LockInv' BY <2>1, Zenon DEF Inv, LockInv, Busy, Deleted, Sets
    <2>3. IntentInv'
      <3>1. IntentInv /\ MarkerIsTruthful BY Zenon DEF Inv
      <3>2. intent[o] = digest[w] /\ marker[o] = digest[w] BY <1>2, <2>1, Zenon DEF PublishOK
      <3>3. intent[o] # "none" => ValidContent(intent[o]) /\ unsynced[intent[o]] = "none"
        BY <1>0, <3>1, <3>2, Zenon DEF MarkerIsTruthful, ValidatePublished
      <3>4. /\ UNCHANGED <<intent, cleanup, blob, unsynced>>
            /\ \A p \in Operation : p # o => staging'[p] = staging[p]
        BY <2>1, Zenon DEF Sets
      <3> QED BY <3>1, <3>3, <3>4, Zenon DEF IntentInv, ValidContent, Deleted
    <2>4. \A v \in Worker : v # w => FetchOK(v)' /\ PublishOK(v)'
      BY <1>0, <2>1, OthersKept, Zenon DEF Sets, SameFiles, BlobsKept, ValidContent, Busy
    <2>5. FetchOK(w)' /\ PublishOK(w)'
      BY <1>2, <2>1, Zenon DEF FetchOK, PublishOK, Sets
    <2>6. UnsyncedInv' /\ PublishedIsComplete' /\ MarkerIsTruthful' /\ HubInv' /\
         ReportedInv'
      BY <2>1, Frame, Zenon DEF Inv
    <2> QED BY <2>2, <2>3, <2>4, <2>5, <2>6, Zenon DEF Inv, FetchInv, PublishInv
  <1>7. Report(w) => Inv'
    <2> HAVE Report(w)
    <2>1. /\ pc[w] = "report"
          /\ Sets(pc, pc', Worker, w, "done")
          /\ Sets(reported, reported', Operation, o, reported[o] \cup {digest[w]})
          /\ Sets(lock, lock', Operation, o, "none")
          /\ UNCHANGED <<digest, cacheHit, source, pin, staging, sealed, intent,
                           marker, blob, READY, unsynced, cleanup, failures>>
      <3>1. Entries BY EntriesFit, Zenon DEF Inv
      <3> QED BY <1>0, <3>1, Zenon DEF Entries, Sets, Report, Goto, stagingVars, blobVars
    <2>2. LockInv'
      <3>1. LockInv BY Zenon DEF Inv
      <3>2. ASSUME NEW v \in Worker, Busy(v)'
            PROVE  lock'[OperationOf[v]] = v /\ ~Deleted(OperationOf[v])'
        <4>1. v # w /\ Busy(v) /\ Busy(w) BY <2>1, <3>2, Zenon DEF Busy, Sets
        <4>2. OperationOf[v] # o /\ OperationOf[v] \in Operation
          BY <1>0, <1>1, <4>1, Zenon DEF Values
        <4> QED BY <2>1, <3>1, <4>1, <4>2, Zenon DEF LockInv, Deleted, Sets
      <3> QED BY <3>2, Zenon DEF LockInv
    <2>3. HubInv'
      <3>1. HubInv /\ ~Deleted(o) BY <2>1, Zenon DEF Inv, LockInv, Busy
      <3>2. marker[o] = digest[w] /\ digest[w] # "none"
        BY <1>0, <1>2, <2>1, Zenon DEF PublishOK, Values
      <3>3. o \in HubOperation => pin[o] = digest[w] BY <3>1, <3>2, Zenon DEF HubInv
      <3>4. /\ reported'[o] = reported[o] \cup {digest[w]}
            /\ \A p \in Operation : p # o => reported'[p] = reported[p]
            /\ UNCHANGED <<pin, intent, marker, cleanup>>
        BY <2>1, Zenon DEF Sets
      <3>5. ASSUME NEW p \in HubOperation
            PROVE  /\ pin[p] # "none" => reported'[p] \subseteq {pin[p]}
                   /\ pin[p] = "none" /\ ~Deleted(p) => reported'[p] = {}
        <4>1. p \in Operation BY <1>0, Zenon DEF Values
        <4>2. CASE p = o BY <3>1, <3>2, <3>3, <3>4, <4>2, Zenon DEF HubInv
        <4>3. CASE p # o BY <3>1, <3>4, <4>1, <4>3, Zenon DEF HubInv
        <4> QED BY <4>2, <4>3, Zenon
      <3> QED BY <3>1, <3>4, <3>5, Zenon DEF HubInv, Deleted
    <2>4. ReportedInv'
      BY <1>2, <2>1, Zenon DEF Inv, ReportedInv, Deleted, Sets, PublishOK
    <2>5. \A v \in Worker : v # w => FetchOK(v)' /\ PublishOK(v)'
      BY <1>0, <2>1, OthersKept, Zenon DEF Sets, SameFiles, BlobsKept, ValidContent, Busy
    <2>6. FetchOK(w)' /\ PublishOK(w)'
      BY <1>2, <2>1, Zenon DEF FetchOK, PublishOK, Sets
    <2>7. UnsyncedInv' /\ IntentInv' /\ PublishedIsComplete' /\ MarkerIsTruthful'
      BY <2>1, Frame, Zenon DEF Inv
    <2> QED BY <2>2, <2>3, <2>4, <2>5, <2>6, <2>7, Zenon DEF Inv, FetchInv, PublishInv
  <1> QED BY <1>3, <1>4, <1>5, <1>6, <1>7, Zenon

-----------------------------------------------------------------------------
(* One entry is removed by the cleanup of a deleted artifact. *)
LEMMA RemoveOperationStateStep ==
  ASSUME Inv, TypeOK', NEW o \in Operation
  PROVE  CleanupStaging(o) \/ CleanupIntent(o) \/ CleanupMarker(o) \/ CleanupPin(o) =>
         Inv'
  <1>0. Values BY ValuesFit, Zenon DEF Inv
  <1>5. ASSUME Deleted(o), NEW v \in Worker, Busy(v)
        PROVE  OperationOf[v] \in Operation /\ OperationOf[v] # o
    <2>1. OperationOf[v] \in Operation BY <1>0, Zenon DEF Values
    <2>2. ~Deleted(OperationOf[v]) BY <1>5, Zenon DEF Inv, LockInv
    <2> QED BY <1>5, <2>1, <2>2, Zenon
  <1>1. CleanupStaging(o) => Inv'
    <2> HAVE CleanupStaging(o)
    <2>1. /\ Deleted(o)
          /\ Sets(staging, staging', Operation, o, "absent")
          /\ Sets(sealed, sealed', Operation, o, FALSE)
          /\ UNCHANGED <<pc, digest, cacheHit, lock, source, pin, intent, marker,
                           reported, blob, READY, unsynced, cleanup, failures>>
      BY DEF Inv, TypeOK, Sets, CleanupStaging, CleanupUnchanged, workerVars, blobVars,
           Deleted
    <2>2. IntentInv'
      BY <2>1, Zenon DEF Inv, IntentInv, ValidContent, Deleted, Sets
    <2>3. FetchInv' /\ PublishInv'
      <3>1. \A p \in Operation : p # o => SameFiles(p)
        BY <2>1, Zenon DEF Sets, SameFiles
      <3>2. \A v \in Worker : Busy(v) => SameFiles(OperationOf[v])
        BY <1>5, <2>1, <3>1, Zenon
      <3>3. BlobsKept BY <2>1, Zenon DEF BlobsKept, ValidContent
      <3> QED BY <2>1, <3>2, <3>3, AllKept, Zenon
    <2>4. LockInv' /\ UnsyncedInv' /\ PublishedIsComplete' /\ MarkerIsTruthful' /\
         HubInv' /\ ReportedInv'
      BY <2>1, Frame, Zenon DEF Inv
    <2> QED BY <2>2, <2>3, <2>4, Zenon DEF Inv
  <1>2. CleanupIntent(o) => Inv'
    <2> HAVE CleanupIntent(o)
    <2>1. /\ Deleted(o)
          /\ Sets(intent, intent', Operation, o, "none")
          /\ UNCHANGED <<pc, digest, cacheHit, lock, source, pin, staging, sealed,
                           marker, reported, blob, READY, unsynced, cleanup,
                           failures>>
      BY DEF Inv, TypeOK, Sets, CleanupIntent, CleanupMetadata, CleanupUnchanged,
           workerVars, stagingVars, blobVars, Deleted
    <2>2. UnsyncedInv'
      <3>1. UnsyncedInv BY Zenon DEF Inv
      <3>2. \A d \in Digest : unsynced[d] # "none" => unsynced[d] \in Operation
        BY <1>0, Zenon DEF Values
      <3> QED BY <2>1, <3>1, <3>2, Zenon DEF UnsyncedInv, ValidContent, Deleted, Sets
    <2>3. IntentInv'
      BY <2>1, Zenon DEF Inv, IntentInv, ValidContent, Deleted, Sets
    <2>4. HubInv' BY <1>0, <2>1, Zenon DEF Values, Inv, HubInv, Deleted, Sets
    <2>5. FetchInv' /\ PublishInv'
      <3>1. \A p \in Operation : p # o => SameFiles(p)
        BY <2>1, Zenon DEF Sets, SameFiles
      <3>2. \A v \in Worker : Busy(v) => SameFiles(OperationOf[v])
        BY <1>5, <2>1, <3>1, Zenon
      <3>3. BlobsKept BY <2>1, Zenon DEF BlobsKept, ValidContent
      <3> QED BY <2>1, <3>2, <3>3, AllKept, Zenon
    <2>6. LockInv' /\ PublishedIsComplete' /\ MarkerIsTruthful' /\ ReportedInv'
      BY <2>1, Frame, Zenon DEF Inv
    <2> QED BY <2>2, <2>3, <2>4, <2>5, <2>6, Zenon DEF Inv
  <1>3. CleanupMarker(o) => Inv'
    <2> HAVE CleanupMarker(o)
    <2>1. /\ Deleted(o)
          /\ Sets(marker, marker', Operation, o, "none")
          /\ UNCHANGED <<pc, digest, cacheHit, lock, source, pin, staging, sealed,
                           intent, reported, blob, READY, unsynced, cleanup,
                           failures>>
      BY DEF Inv, TypeOK, Sets, CleanupMarker, CleanupMetadata, CleanupUnchanged,
           workerVars, stagingVars, blobVars, Deleted
    <2>2. MarkerIsTruthful'
      <3>1. \A p \in Operation : marker'[p] # "none" => marker'[p] = marker[p]
        BY <2>1, Zenon DEF Sets
      <3> QED
        BY <2>1, <3>1, Zenon DEF Inv, MarkerIsTruthful, ValidatePublished, ValidContent
    <2>3. HubInv' BY <1>0, <2>1, Zenon DEF Values, Inv, HubInv, Deleted, Sets
    <2>4. ReportedInv' BY <2>1, Zenon DEF Inv, ReportedInv, Deleted, Sets
    <2>5. FetchInv' /\ PublishInv'
      <3>1. \A p \in Operation : p # o => SameFiles(p)
        BY <2>1, Zenon DEF Sets, SameFiles
      <3>2. \A v \in Worker : Busy(v) => SameFiles(OperationOf[v])
        BY <1>5, <2>1, <3>1, Zenon
      <3>3. BlobsKept BY <2>1, Zenon DEF BlobsKept, ValidContent
      <3> QED BY <2>1, <3>2, <3>3, AllKept, Zenon
    <2>6. LockInv' /\ UnsyncedInv' /\ IntentInv' /\ PublishedIsComplete'
      BY <2>1, Frame, Zenon DEF Inv
    <2> QED BY <2>2, <2>3, <2>4, <2>5, <2>6, Zenon DEF Inv
  <1>4. CleanupPin(o) => Inv'
    <2> HAVE CleanupPin(o)
    <2>1. /\ Deleted(o)
          /\ Sets(pin, pin', Operation, o, "none")
          /\ UNCHANGED <<pc, digest, cacheHit, lock, source, staging, sealed, intent,
                           marker, reported, blob, READY, unsynced, cleanup,
                           failures>>
      BY DEF Inv, TypeOK, Sets, CleanupPin, CleanupMetadata, CleanupUnchanged,
           workerVars, stagingVars, blobVars, Deleted
    <2>2. HubInv' BY <1>0, <2>1, Zenon DEF Values, Inv, HubInv, Deleted, Sets
    <2>3. FetchInv' /\ PublishInv'
      <3>1. \A p \in Operation : p # o => SameFiles(p)
        BY <2>1, Zenon DEF Sets, SameFiles
      <3>2. \A v \in Worker : Busy(v) => SameFiles(OperationOf[v])
        BY <1>5, <2>1, <3>1, Zenon
      <3>3. BlobsKept BY <2>1, Zenon DEF BlobsKept, ValidContent
      <3> QED BY <2>1, <3>2, <3>3, AllKept, Zenon
    <2>4. LockInv' /\ UnsyncedInv' /\ IntentInv' /\ PublishedIsComplete' /\
         MarkerIsTruthful' /\ ReportedInv'
      BY <2>1, Frame, Zenon DEF Inv
    <2> QED BY <2>2, <2>3, <2>4, Zenon DEF Inv
  <1> QED BY <1>1, <1>2, <1>3, <1>4, Zenon

(* The cleanup goes on to the next area, or starts again. *)
LEMMA CleanupProgressStep ==
  ASSUME Inv, TypeOK', NEW a \in Artifact
  PROVE  StartCleanup(a) \/ CleanupNext(a) \/ CleanupFails(a) => Inv'
  <1> USE PublicationAssumption DEF Inv, TypeOK, Goto
  <1>1. StartCleanup(a) => Inv'
    <2> HAVE StartCleanup(a)
    <2>1. LockInv' BY DEF LockInv, Busy, Deleted, StartCleanup, CleanupUnchanged,
         workerVars, stagingVars, blobVars
    <2>2. UnsyncedInv' BY DEF UnsyncedInv, ValidContent, Deleted, StartCleanup,
         CleanupUnchanged, workerVars, stagingVars, blobVars
    <2>3. IntentInv' BY DEF IntentInv, ValidContent, Deleted, StartCleanup,
         CleanupUnchanged, workerVars, stagingVars, blobVars
    <2>4. HubInv' BY DEF HubInv, Deleted, StartCleanup, CleanupUnchanged, workerVars,
         stagingVars, blobVars
    <2>5. ReportedInv' BY DEF ReportedInv, Deleted, StartCleanup, CleanupUnchanged,
         workerVars, stagingVars, blobVars
    <2>6. FetchInv' /\ PublishInv' /\ PublishedIsComplete' /\ MarkerIsTruthful'
      BY Frame, Zenon DEF StartCleanup, CleanupUnchanged, workerVars, stagingVars, blobVars
    <2> QED BY <2>1, <2>2, <2>3, <2>4, <2>5, <2>6, Zenon DEF Inv
  <1>2. CleanupNext(a) => Inv'
    <2> HAVE CleanupNext(a)
    <2>1. LockInv' BY DEF LockInv, Busy, Deleted, CleanupNext, CleanupUnchanged,
         workerVars, stagingVars, blobVars, NextArea
    <2>2. UnsyncedInv' BY DEF UnsyncedInv, ValidContent, Deleted, CleanupNext,
         CleanupUnchanged, workerVars, stagingVars, blobVars, NextArea
    <2>3. IntentInv' BY DEF IntentInv, ValidContent, Deleted, CleanupNext,
         CleanupUnchanged, workerVars, stagingVars, blobVars, NextArea
    <2>4. HubInv' BY DEF HubInv, Deleted, CleanupNext, CleanupUnchanged, workerVars,
         stagingVars, blobVars, NextArea
    <2>5. ReportedInv' BY DEF ReportedInv, Deleted, CleanupNext, CleanupUnchanged,
         workerVars, stagingVars, blobVars, NextArea
    <2>6. FetchInv' /\ PublishInv' /\ PublishedIsComplete' /\ MarkerIsTruthful'
      BY Frame, Zenon DEF CleanupNext, CleanupUnchanged, workerVars, stagingVars, blobVars,
           NextArea
    <2> QED BY <2>1, <2>2, <2>3, <2>4, <2>5, <2>6, Zenon DEF Inv
  <1>3. CleanupFails(a) => Inv'
    <2> HAVE CleanupFails(a)
    <2>1. LockInv' BY DEF LockInv, Busy, Deleted, CleanupFails, CleanupUnchanged,
         workerVars, stagingVars, blobVars
    <2>2. UnsyncedInv' BY DEF UnsyncedInv, ValidContent, Deleted, CleanupFails,
         CleanupUnchanged, workerVars, stagingVars, blobVars
    <2>3. IntentInv' BY DEF IntentInv, ValidContent, Deleted, CleanupFails,
         CleanupUnchanged, workerVars, stagingVars, blobVars
    <2>4. HubInv' BY DEF HubInv, Deleted, CleanupFails, CleanupUnchanged, workerVars,
         stagingVars, blobVars
    <2>5. ReportedInv' BY DEF ReportedInv, Deleted, CleanupFails, CleanupUnchanged,
         workerVars, stagingVars, blobVars
    <2>6. FetchInv' /\ PublishInv' /\ PublishedIsComplete' /\ MarkerIsTruthful'
      BY Frame, Zenon DEF CleanupFails, CleanupUnchanged, workerVars, stagingVars, blobVars
    <2> QED BY <2>1, <2>2, <2>3, <2>4, <2>5, <2>6, Zenon DEF Inv
  <1> QED BY <1>1, <1>2, <1>3, Zenon

(* The node crashes. *)
LEMMA NodeCrashStep ==
  ASSUME Inv, TypeOK'
  PROVE  NodeCrash => Inv'
  <1> USE PublicationAssumption DEF Inv, TypeOK, Goto
  <1>1. NodeCrash => Inv'
    <2> HAVE NodeCrash
    <2>1. LockInv' BY Zenon DEF LockInv, Busy, Deleted, NodeCrash, Restored
    <2>2. FetchInv' BY Zenon DEF FetchInv, FetchOK, SourceContent, LockInv, Busy, Deleted,
         NodeCrash, Restored
    <2>3. PublishInv' BY Zenon DEF PublishInv, PublishOK, ValidContent, LockInv, Busy,
         Deleted, NodeCrash, Restored
    <2>4. UnsyncedInv' BY Zenon DEF UnsyncedInv, ValidContent, Deleted, NodeCrash, Restored
    <2>5. IntentInv' BY CrashKeepsIntent, Zenon
    <2>6. PublishedIsComplete' BY DEF PublishedIsComplete, ValidContent, UnsyncedInv,
         Deleted, NodeCrash, Restored
    <2>7. MarkerIsTruthful' BY CrashKeepsMarker, Zenon
    <2>8. HubInv' /\ ReportedInv'
      <3>1. UNCHANGED <<pin, intent, marker, reported>> BY Zenon DEF NodeCrash
      <3>2. \A o \in Operation : Deleted(o)' <=> Deleted(o)
        <4>1. Values BY ValuesFit, Zenon
        <4>2. \A a \in Artifact : cleanup'[a] = "none" <=> cleanup[a] = "none"
          BY Zenon DEF NodeCrash
        <4> QED BY <4>1, <4>2, Zenon DEF Values, Deleted
      <3>3. \A o \in HubOperation : o \in Operation BY ValuesFit, Zenon DEF Values
      <3> QED BY <3>1, <3>2, <3>3, Zenon DEF HubInv, ReportedInv
    <2> QED BY <2>1, <2>2, <2>3, <2>4, <2>5, <2>6, <2>7, <2>8, Zenon DEF Inv
  <1> QED BY <1>1, Zenon

-----------------------------------------------------------------------------
(* Types, and the induction step as a whole. *)

(* The invariant is inductive. *)
LEMMA InvStep == Inv /\ [Next]_vars => Inv'
  <1> SUFFICES ASSUME Inv, [Next]_vars PROVE Inv' OBVIOUS
  <1>1. ASSUME NEW w \in Worker, Execute(w) \/ Fails(w) \/ Rerun(w) PROVE Inv'
    <2>1. TypeOK' BY <1>1, ImporterTypes, Zenon
    <2> QED BY <1>1, <2>1, ImporterStartStep, FetchStep, PublishStep, FinalizeStep,
         FailureStep, Zenon DEF Execute, Recover, Fetch, Publish
  <1>2. ASSUME NEW o \in Operation, SourceChanges(o) \/ RemoveOperationState(o) PROVE Inv'
    <2>1. TypeOK' BY <1>2, PublicationAssumption, SurroundingTypes, Zenon DEF Inv
    <2> QED BY <1>2, <2>1, SourceStep, RemoveOperationStateStep, Zenon DEF RemoveOperationState
  <1>3. ASSUME NEW a \in Artifact, StartCleanup(a) \/ CleanupNext(a) \/ CleanupFails(a)
        PROVE Inv'
    <2>1. TypeOK' BY <1>3, CleanupTypes, Zenon DEF Inv
    <2> QED BY <1>3, <2>1, CleanupProgressStep, Zenon
  <1>4. CASE NodeCrash
    <2>1. TypeOK' BY <1>4, CrashTypes, Zenon DEF Inv
    <2> QED BY <1>4, <2>1, NodeCrashStep, Zenon
  <1>5. CASE UNCHANGED vars
    <2>1. TypeOK' BY <1>5, Zenon DEF Inv, TypeOK, vars, workerVars, stagingVars, blobVars
    <2> QED BY <1>5, <2>1, Frame, Zenon DEF Inv, vars, workerVars, stagingVars, blobVars
  <1> QED BY <1>1, <1>2, <1>3, <1>4, <1>5, Zenon DEF Next

-----------------------------------------------------------------------------
(* The theorems. *)

(* Inv holds in every reachable state, whatever crashes, retries and other   *)
(* importers do.                                                             *)
THEOREM Invariance == Spec => []Inv
  BY InitInv, InvStep, PTL DEF Spec

(* Every variable keeps its type. *)
THEOREM TypeCorrect == Spec => []TypeOK
  <1>1. Inv => TypeOK BY Zenon DEF Inv
  <1> QED BY <1>1, Invariance, PTL

(* Content under blobs/sha256 is never torn and READY never lies, after any  *)
(* number of crashes (Publish, finalizePublication).                         *)
THEOREM PublicationIsComplete == Spec => []PublishedIsComplete
  <1>1. Inv => PublishedIsComplete BY Zenon DEF Inv
  <1> QED BY <1>1, Invariance, PTL

(* The marker of an operation names durable, published content, so           *)
(* RecoverPublished succeeds on it.                                          *)
THEOREM MarkersAreTruthful == Spec => []MarkerIsTruthful
  <1>1. Inv => MarkerIsTruthful BY Zenon DEF Inv
  <1> QED BY <1>1, Invariance, PTL

(* RecoverPublished never has to contact the source again for an operation   *)
(* that wrote its intent.                                                    *)
THEOREM IntentsAreRecoverable == Spec => []IntentIsRecoverable
  <1>1. Inv => IntentIsRecoverable
    <2> SUFFICES ASSUME Inv, NEW o \in Operation, intent[o] # "none",
                        cleanup[ArtifactOf[o]] = "none"
                 PROVE  \/ ValidContent(intent[o])
                        \/ blob[intent[o]] = "absent" /\ staging[o] = intent[o]
      BY Zenon DEF IntentIsRecoverable
    <2>1. intent[o] \in Digest BY Zenon DEF Inv, TypeOK
    <2>2. blob[intent[o]] \in {"absent", "complete"}
      BY <2>1 DEF Inv, TypeOK, PublishedIsComplete
    <2> QED BY <2>2, Zenon DEF Inv, IntentInv, Deleted, ValidContent
  <1> QED BY <1>1, Invariance, PTL

(* A Hub operation reports the content of the first commit it pinned, even   *)
(* if the tag has moved (writeHubRevisionPin before anything is fetched).    *)
THEOREM HubReportsArePinned == Spec => []HubReportsPinned
  <1>1. Inv => HubReportsPinned BY Zenon DEF Inv, HubInv, HubReportsPinned
  <1> QED BY <1>1, Invariance, PTL

(* No step changes an intent to another digest: the only writer is Publish,  *)
(* which finds none or its own.                                              *)
THEOREM IntentsAreStable == Spec => IntentIsStable
  <1> DEFINE Stable == \A o \in Operation :
               intent[o] # "none" => intent'[o] \in {intent[o], "none"}
  <1>1. Inv /\ [Next]_vars => Stable
    <2> SUFFICES ASSUME Inv, [Next]_vars PROVE Stable OBVIOUS
    <2>1. ASSUME NEW w \in Worker, PublishIntent(w) PROVE Stable
      <3>1. pc[w] = "intent" BY <2>1, Zenon DEF PublishIntent, Goto
      <3>2. intent[OperationOf[w]] \in {"none", digest[w]}
        BY <3>1, Zenon DEF Inv, PublishInv, PublishOK
      <3>3. intent' = [intent EXCEPT ![OperationOf[w]] = digest[w]] /\ DOMAIN intent = Operation
        BY <2>1, Zenon DEF PublishIntent, Inv, TypeOK
      <3> QED BY <3>2, <3>3, Zenon
    <2>2. ASSUME NEW o \in Operation, CleanupIntent(o) PROVE Stable
      BY <2>2 DEF Inv, TypeOK, CleanupIntent
    <2>3. ASSUME UNCHANGED intent PROVE Stable
      BY <2>3, Zenon
    <2>4. ASSUME NEW w \in Worker, Execute(w) \/ Fails(w) \/ Rerun(w), ~PublishIntent(w)
          PROVE  UNCHANGED intent
      BY <2>4, Zenon DEF Execute, Recover, Fetch, Publish, Fails, Rerun, AcquireOperationLock,
           RecoverFromMarker, RecoverFinalize, RecoverStaged, RecoverNothing, Resolve,
           EnsureStaging, Transfer, validateStaged, PublishManifest, PublishInspect,
           PublishRename, PublishRenameLost, FinalizeSync, FinalizeReady, FinalizeMarker,
           PublishTidy, Report
    <2>5. ASSUME NEW o \in Operation, SourceChanges(o) \/ RemoveOperationState(o),
                 ~CleanupIntent(o)
          PROVE  UNCHANGED intent
      BY <2>5, Zenon DEF SourceChanges, RemoveOperationState, CleanupStaging, CleanupMarker,
           CleanupPin
    <2>6. ASSUME NEW a \in Artifact, StartCleanup(a) \/ CleanupNext(a) \/ CleanupFails(a)
          PROVE  UNCHANGED intent
      BY <2>6, Zenon DEF StartCleanup, CleanupNext, CleanupFails
    <2>7. NodeCrash \/ UNCHANGED vars => UNCHANGED intent
      BY Zenon DEF NodeCrash, vars
    <2> QED BY <2>1, <2>2, <2>3, <2>4, <2>5, <2>6, <2>7, Zenon DEF Next
  <1>2. Stable => [\A o \in Operation :
               intent[o] # "none" => intent'[o] \in {intent[o], "none"}]_vars
    OBVIOUS
  <1> QED BY <1>1, <1>2, Invariance, PTL DEF Spec, IntentIsStable

(* Writing READY publishes one digest, a result is a report of published     *)
(* content, a crash takes back nothing with READY, and nothing else shows.   *)
LEMMA StoreStep ==
  ASSUME Inv, [Next]_vars
  PROVE  [Store!Next]_<<{d \in Digest : READY[d]}, reported>>
  <1> DEFINE published == {d \in Digest : READY[d]}
  <1>1. ASSUME NEW w \in Worker, FinalizeReady(w) PROVE Store!Next
    <2>1. digest[w] \in Digest
      BY <1>1, Zenon DEF Inv, PublishInv, PublishOK, FinalizeReady, Goto
    <2>2. published' = published \cup {digest[w]}
      BY <1>1, <2>1 DEF Inv, TypeOK, FinalizeReady
    <2>3. UNCHANGED reported BY <1>1, Zenon DEF FinalizeReady
    <2> QED BY <2>1, <2>2, <2>3, Zenon DEF Store!Next, Store!Publish
  <1>2. ASSUME NEW w \in Worker, Report(w) PROVE Store!Next
    <2> DEFINE o == OperationOf[w]
    <2> DEFINE d == digest[w]
    <2>1. o \in Operation BY PublicationAssumption, Zenon
    <2>2. d \in Digest /\ marker[o] = d
      BY <1>2, Zenon DEF Inv, PublishInv, PublishOK, Report, Goto
    <2>3. READY[d]
      BY <2>1, <2>2, PublicationAssumption, Zenon DEF Inv, MarkerIsTruthful, ValidatePublished
    <2>4. ~Deleted(o) BY <1>2, Zenon DEF Inv, LockInv, Busy, Report, Goto
    <2>5. reported[o] \subseteq {d} BY <2>1, <2>2, <2>4, Zenon DEF Inv, ReportedInv
    <2>6. reported[o] \cup {d} = {d} BY <2>5, Zenon
    <2>7. reported' = [reported EXCEPT ![o] = {d}]
      BY <1>2, <2>6, Zenon DEF Report
    <2>8. UNCHANGED published BY <1>2, Zenon DEF Report, blobVars
    <2> QED BY <2>1, <2>2, <2>3, <2>5, <2>7, <2>8, Zenon DEF Store!Next, Store!Report
  <1>3. ASSUME NodeCrash PROVE UNCHANGED <<READY, reported>>
    BY <1>3 DEF NodeCrash, Inv, TypeOK, UnsyncedInv
  <1>4. ASSUME NEW w \in Worker, Execute(w) \/ Fails(w) \/ Rerun(w),
               ~FinalizeReady(w), ~Report(w)
        PROVE  UNCHANGED <<READY, reported>>
    BY <1>4, Zenon DEF Execute, Recover, Fetch, Publish, Fails, Rerun, AcquireOperationLock,
         RecoverFromMarker, RecoverFinalize, RecoverStaged, RecoverNothing, Resolve,
         EnsureStaging, Transfer, validateStaged, PublishIntent, PublishManifest,
         PublishInspect, PublishRename, PublishRenameLost, FinalizeSync, FinalizeMarker,
         PublishTidy, blobVars
  <1>5. ASSUME NEW o \in Operation, SourceChanges(o) \/ RemoveOperationState(o)
        PROVE  UNCHANGED <<READY, reported>>
    BY <1>5, Zenon DEF SourceChanges, RemoveOperationState, CleanupStaging, CleanupIntent,
         CleanupMarker, CleanupPin, CleanupMetadata, CleanupUnchanged, blobVars
  <1>6. ASSUME NEW a \in Artifact, StartCleanup(a) \/ CleanupNext(a) \/ CleanupFails(a)
        PROVE  UNCHANGED <<READY, reported>>
    BY <1>6, Zenon DEF StartCleanup, CleanupNext, CleanupFails, CleanupUnchanged, blobVars
  <1>7. UNCHANGED vars => UNCHANGED <<READY, reported>> BY Zenon DEF vars, blobVars
  <1>8. Store!Next \/ UNCHANGED <<READY, reported>>
    BY <1>1, <1>2, <1>3, <1>4, <1>5, <1>6, <1>7, Zenon DEF Next
  <1> QED BY <1>8, Zenon

(* The importers with all their crashes and retries implement the abstract   *)
(* cache: publish whole, never take back, report only what is published and  *)
(* always the same.                                                          *)
THEOREM PublicationImplementsStore == Spec => ImplementsStore
  <1>1. Init => Store!Init BY DEF Init, Store!Init
  <1>2. Inv /\ [Next]_vars => [Store!Next]_<<{d \in Digest : READY[d]}, reported>>
    BY StoreStep, Zenon
  <1> QED BY <1>1, <1>2, Invariance, PTL DEF Spec, ImplementsStore, Store!Spec
=============================================================================
