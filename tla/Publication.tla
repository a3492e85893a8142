----------------------------- MODULE Publication -----------------------------
(***************************************************************************)
(* Crash-safe, content-addressed publication by importer Jobs                *)
(* (internal/artifact: importer.go, storage_linux.go, the revision pin of    *)
(* hub.go).  A worker is one importer process; several may run the same      *)
(* operation (a retried Job) or different operations on equal content.       *)
(*                                                                         *)
(* A digest stands for a manifest and the bytes it describes, so "content d" *)
(* is exactly what validateManifestContent accepts for d.  Every step ends   *)
(* at a durable write: writeAtomic (write, fsync, rename, fsync the parent)  *)
(* is one step; the rename that publishes is durable only after the sync of  *)
(* blobs/sha256, and until then a node crash may undo it.                    *)
(***************************************************************************)
EXTENDS Naturals

CONSTANTS
  Operation,      \* operation identifiers
  Digest,         \* publication digests
  Worker,         \* importer processes
  OperationOf,    \* [Worker -> Operation]: the operation in the Job's spec
  Artifact,       \* ModelArtifact UIDs
  ArtifactOf,     \* [Operation -> Artifact]: the prefix of the identifier
  HubOperation,   \* operations in mode hub; the others copy from a PVC
  MaxFailures     \* bound: failed attempts and node crashes in a behaviour

ASSUME PublicationAssumption ==
  /\ OperationOf \in [Worker -> Operation]
  /\ ArtifactOf \in [Operation -> Artifact]
  /\ HubOperation \subseteq Operation
  /\ Digest \cap {"none", "absent", "partial"} = {}
  /\ Operation \cap {"none"} = {}
  /\ Worker \cap {"none"} = {}
  /\ MaxFailures \in Nat

VARIABLES
  pc, digest, cacheHit,          \* per worker: control point, manifest in hand
  lock,                          \* per operation: holder of the flock
  source,                        \* per operation: what the source holds now
  pin,                           \* per operation: .kama/revisions
  staging, sealed,               \* per operation: .kama/staging, its manifest.json
  intent, marker,                \* per operation: .kama/intents, .kama/operations
  blob, READY,                   \* per digest: blobs/sha256/<digest> and its READY
  unsynced,                      \* per digest: operation whose rename may be undone
  reported,                      \* per operation: digests of successful results
  cleanup,                       \* per artifact: progress of RemoveOperationState
  failures

workerVars  == <<pc, digest, cacheHit>>
stagingVars == <<staging, sealed>>
blobVars    == <<blob, READY, unsynced>>
vars == <<workerVars, lock, source, pin, stagingVars, intent, marker, blobVars,
          reported, cleanup, failures>>

Init ==
  /\ pc = [w \in Worker |-> "idle"]
  /\ digest = [w \in Worker |-> "none"]
  /\ cacheHit = [w \in Worker |-> FALSE]
  /\ lock = [o \in Operation |-> "none"]
  /\ source \in [Operation -> Digest]
  /\ pin = [o \in Operation |-> "none"]
  /\ staging = [o \in Operation |-> "absent"]
  /\ sealed = [o \in Operation |-> FALSE]
  /\ intent = [o \in Operation |-> "none"]
  /\ marker = [o \in Operation |-> "none"]
  /\ blob = [d \in Digest |-> "absent"]
  /\ READY = [d \in Digest |-> FALSE]
  /\ unsynced = [d \in Digest |-> "none"]
  /\ reported = [o \in Operation |-> {}]
  /\ cleanup = [a \in Artifact |-> "none"]
  /\ failures = 0

-----------------------------------------------------------------------------
(* validatePublishedContent: the manifest and every byte of d are there. *)
ValidContent(d) == blob[d] = "complete"

(* ValidatePublished: valid content and READY. *)
ValidatePublished(d) == ValidContent(d) /\ READY[d]

Goto(w, from, to) ==
  /\ pc[w] = from
  /\ pc' = [pc EXCEPT ![w] = to]

(* Mutant: does not wait for the holder of the lock. *)
AcquireOperationLockShared(w) ==
  LET o == OperationOf[w] IN
  /\ Goto(w, "idle", "recover")
  /\ cleanup[ArtifactOf[o]] = "none"
  /\ lock' = [lock EXCEPT ![o] = w]
  /\ UNCHANGED <<digest, cacheHit, source, pin, stagingVars, intent, marker, blobVars,
                 reported, cleanup, failures>>

(* AcquireOperationLock: flock excludes the other holders of the operation. *)
AcquireOperationLock(w) ==
  LET o == OperationOf[w] IN
  /\ Goto(w, "idle", "recover")
  /\ cleanup[ArtifactOf[o]] = "none"
  /\ lock[o] = "none"
  /\ lock' = [lock EXCEPT ![o] = w]
  /\ UNCHANGED <<digest, cacheHit, source, pin, stagingVars, intent, marker, blobVars,
                 reported, cleanup, failures>>

-----------------------------------------------------------------------------
(* RecoverPublished.  A branch that is missing here ends in an error: the    *)
(* worker fails (Fails).                                                     *)

(* The marker is there and its content validates. *)
RecoverFromMarker(w) ==
  LET o == OperationOf[w] IN
  /\ Goto(w, "recover", "report")
  /\ marker[o] # "none" /\ ValidatePublished(marker[o])
  /\ digest' = [digest EXCEPT ![w] = marker[o]]
  /\ UNCHANGED <<cacheHit, lock, source, pin, stagingVars, intent, marker, blobVars,
                 reported, cleanup, failures>>

(* Only the intent is there and the rename has happened: finalize. *)
RecoverFinalize(w) ==
  LET o == OperationOf[w] IN
  /\ Goto(w, "recover", "sync")
  /\ marker[o] = "none" /\ intent[o] # "none"
  /\ ValidContent(intent[o])
  /\ digest' = [digest EXCEPT ![w] = intent[o]]
  /\ UNCHANGED <<cacheHit, lock, source, pin, stagingVars, intent, marker, blobVars,
                 reported, cleanup, failures>>

(* Only the intent is there, nothing is published: publish what is staged. *)
RecoverStaged(w) ==
  LET o == OperationOf[w] IN
  /\ Goto(w, "recover", "intent")
  /\ marker[o] = "none" /\ intent[o] # "none"
  /\ blob[intent[o]] = "absent"
  /\ staging[o] = intent[o]
  /\ digest' = [digest EXCEPT ![w] = intent[o]]
  /\ UNCHANGED <<cacheHit, lock, source, pin, stagingVars, intent, marker, blobVars,
                 reported, cleanup, failures>>

(* Mutant: a finished operation is imported afresh. *)
RecoverNothingFinished(w) ==
  LET o == OperationOf[w] IN
  /\ Goto(w, "recover", "resolve")
  /\ marker[o] # "none" \/ intent[o] = "none"
  /\ UNCHANGED <<digest, cacheHit, lock, source, pin, stagingVars, intent, marker,
                 blobVars, reported, cleanup, failures>>

(* Neither: the operation starts from its source. *)
RecoverNothing(w) ==
  LET o == OperationOf[w] IN
  /\ Goto(w, "recover", "resolve")
  /\ marker[o] = "none" /\ intent[o] = "none"
  /\ UNCHANGED <<digest, cacheHit, lock, source, pin, stagingVars, intent, marker,
                 blobVars, reported, cleanup, failures>>

-----------------------------------------------------------------------------
(* executeHub and executeCopy, from the source to validated staging. *)

(* readHubRevisionPin, Resolve, writeHubRevisionPin: the first resolution of *)
(* a mutable revision is durable before anything is transferred.             *)
Resolve(w) ==
  LET o == OperationOf[w] IN
  /\ Goto(w, "resolve", "stage")
  /\ pin' = IF o \in HubOperation /\ pin[o] = "none"
              THEN [pin EXCEPT ![o] = source[o]] ELSE pin
  /\ UNCHANGED <<digest, cacheHit, lock, source, stagingVars, intent, marker, blobVars,
                 reported, cleanup, failures>>

(* Mutant: a Hub download goes through the requested, movable revision. *)
SourceContentMoved(o) == source[o]

(* The content a transfer now would produce. *)
SourceContent(o) == IF o \in HubOperation THEN pin[o] ELSE source[o]

(* A whole staged tree is kept: prepareRegularCopy compares it with the       *)
(* source, validateResumeCheckpoint needs the checkpoint Publish removes.     *)
Resumable(o) ==
  staging[o] = SourceContent(o) /\ (o \in HubOperation => ~sealed[o])

(* EnsureStaging and the preflights: other staging is reset. *)
EnsureStaging(w) ==
  LET o == OperationOf[w] IN
  /\ Goto(w, "stage", "transfer")
  /\ staging' = [staging EXCEPT ![o] = IF Resumable(o) THEN @ ELSE "partial"]
  /\ UNCHANGED <<digest, cacheHit, lock, source, pin, sealed, intent, marker, blobVars,
                 reported, cleanup, failures>>

(* Download or copy runs to its end; every file and its entry are synced. *)
Transfer(w) ==
  LET o == OperationOf[w] IN
  /\ Goto(w, "transfer", "validate")
  /\ staging' = [staging EXCEPT ![o] = SourceContent(o)]
  /\ UNCHANGED <<digest, cacheHit, lock, source, pin, sealed, intent, marker, blobVars,
                 reported, cleanup, failures>>

(* validateStaged: the manifest describes the staged bytes. *)
validateStaged(w) ==
  LET o == OperationOf[w] IN
  /\ Goto(w, "validate", "intent")
  /\ staging[o] \in Digest
  /\ digest' = [digest EXCEPT ![w] = staging[o]]
  /\ UNCHANGED <<cacheHit, lock, source, pin, stagingVars, intent, marker, blobVars,
                 reported, cleanup, failures>>

-----------------------------------------------------------------------------
(* Publish. *)

PublishIntent(w) ==
  LET o == OperationOf[w] IN
  /\ Goto(w, "intent", "seal")
  /\ intent' = [intent EXCEPT ![o] = digest[w]]
  /\ UNCHANGED <<digest, cacheHit, lock, source, pin, stagingVars, marker, blobVars,
                 reported, cleanup, failures>>

(* Mutant: the tree is moved before its manifest is written. *)
PublishNoManifest(w) ==
  /\ Goto(w, "seal", "inspect")
  /\ UNCHANGED <<digest, cacheHit, lock, source, pin, stagingVars, intent, marker,
                 blobVars, reported, cleanup, failures>>

(* Remove the resume checkpoints, write manifest.json, sync the tree. *)
PublishManifest(w) ==
  LET o == OperationOf[w] IN
  /\ Goto(w, "seal", "inspect")
  /\ sealed' = [sealed EXCEPT ![o] = TRUE]
  /\ UNCHANGED <<digest, cacheHit, lock, source, pin, staging, intent, marker, blobVars,
                 reported, cleanup, failures>>

(* Mutant: an existing directory is always a conflict. *)
PublishInspectNoHit(w) ==
  LET d == digest[w] IN
  /\ Goto(w, "inspect", "rename") /\ blob[d] = "absent"
  /\ UNCHANGED <<digest, cacheHit, lock, source, pin, stagingVars, intent, marker,
                 blobVars, reported, cleanup, failures>>

(* The destination: valid content is a cache hit, no directory is a rename,  *)
(* anything else is a conflict and is left alone (Fails).                    *)
PublishInspect(w) ==
  LET d == digest[w] IN
  /\ \/ Goto(w, "inspect", "sync") /\ ValidContent(d)
     \/ Goto(w, "inspect", "rename") /\ blob[d] = "absent"
  /\ cacheHit' = [cacheHit EXCEPT ![w] = ValidContent(d)]
  /\ UNCHANGED <<digest, lock, source, pin, stagingVars, intent, marker, blobVars,
                 reported, cleanup, failures>>

(* RenameNoFollow moves the staged tree when nobody was faster. *)
PublishRename(w) ==
  LET o == OperationOf[w]
      d == digest[w] IN
  /\ Goto(w, "rename", "sync")
  /\ blob[d] = "absent" /\ staging[o] # "absent"
  /\ blob' = [blob EXCEPT ![d] =
                IF staging[o] = d /\ sealed[o] THEN "complete" ELSE "partial"]
  /\ staging' = [staging EXCEPT ![o] = "absent"]
  /\ sealed' = [sealed EXCEPT ![o] = FALSE]
  /\ unsynced' = [unsynced EXCEPT ![d] = o]
  /\ UNCHANGED <<digest, cacheHit, lock, source, pin, intent, marker, READY, reported,
                 cleanup, failures>>

(* It fails on a directory that is not empty: another publisher's content,   *)
(* used if it is valid.                                                      *)
PublishRenameLost(w) ==
  LET d == digest[w] IN
  /\ Goto(w, "rename", "sync")
  /\ ValidContent(d)
  /\ cacheHit' = [cacheHit EXCEPT ![w] = TRUE]
  /\ UNCHANGED <<digest, lock, source, pin, stagingVars, intent, marker, blobVars,
                 reported, cleanup, failures>>

(* Mutant: READY and the marker are written without the sync. *)
FinalizeNoSync(w) ==
  /\ Goto(w, "sync", "ready")
  /\ UNCHANGED <<digest, cacheHit, lock, source, pin, stagingVars, intent, marker,
                 blobVars, reported, cleanup, failures>>

(* finalizePublication: sync blobs/sha256, write READY, write the marker. *)
FinalizeSync(w) ==
  /\ Goto(w, "sync", "ready")
  /\ unsynced' = [d \in Digest |-> "none"]
  /\ UNCHANGED <<digest, cacheHit, lock, source, pin, stagingVars, intent, marker, blob,
                 READY, reported, cleanup, failures>>

FinalizeReady(w) ==
  /\ Goto(w, "ready", "marker")
  /\ READY' = [READY EXCEPT ![digest[w]] = TRUE]
  /\ UNCHANGED <<digest, cacheHit, lock, source, pin, stagingVars, intent, marker, blob,
                 unsynced, reported, cleanup, failures>>

FinalizeMarker(w) ==
  LET o == OperationOf[w] IN
  /\ Goto(w, "marker", IF cacheHit[w] THEN "tidy" ELSE "report")
  /\ marker' = [marker EXCEPT ![o] = digest[w]]
  /\ UNCHANGED <<digest, cacheHit, lock, source, pin, stagingVars, intent, blobVars,
                 reported, cleanup, failures>>

(* A cache hit leaves its own staging behind: remove it. *)
PublishTidy(w) ==
  LET o == OperationOf[w] IN
  /\ Goto(w, "tidy", "report")
  /\ staging' = [staging EXCEPT ![o] = "absent"]
  /\ sealed' = [sealed EXCEPT ![o] = FALSE]
  /\ UNCHANGED <<digest, cacheHit, lock, source, pin, intent, marker, blobVars,
                 reported, cleanup, failures>>

(* Mutant: the result names what the source holds by now. *)
ReportSource(w) ==
  LET o == OperationOf[w] IN
  /\ Goto(w, "report", "done")
  /\ reported' = [reported EXCEPT ![o] = @ \cup {SourceContent(o)}]
  /\ lock' = [lock EXCEPT ![o] = "none"]
  /\ UNCHANGED <<digest, cacheHit, source, pin, stagingVars, intent, marker, blobVars,
                 cleanup, failures>>

(* successfulResult: the Job's result names the digest; the lock is closed. *)
Report(w) ==
  LET o == OperationOf[w] IN
  /\ Goto(w, "report", "done")
  /\ reported' = [reported EXCEPT ![o] = @ \cup {digest[w]}]
  /\ lock' = [lock EXCEPT ![o] = "none"]
  /\ UNCHANGED <<digest, cacheHit, source, pin, stagingVars, intent, marker, blobVars,
                 cleanup, failures>>

-----------------------------------------------------------------------------
(* Failures, retries, and what happens around the importers. *)

(* An error return, a kill or a crash of the process: the kernel releases    *)
(* the lock, the disk keeps what was written.                                *)
Fails(w) ==
  LET o == OperationOf[w] IN
  /\ pc[w] \notin {"idle", "done"}
  /\ failures < MaxFailures
  /\ pc' = [pc EXCEPT ![w] = "idle"]
  /\ digest' = [digest EXCEPT ![w] = "none"]
  /\ cacheHit' = [cacheHit EXCEPT ![w] = FALSE]
  /\ lock' = [lock EXCEPT ![o] = "none"]
  /\ failures' = failures + 1
  /\ UNCHANGED <<source, pin, stagingVars, intent, marker, blobVars, reported, cleanup>>

(* Another Job for an operation that already succeeded. *)
Rerun(w) ==
  /\ Goto(w, "done", "idle")
  /\ digest' = [digest EXCEPT ![w] = "none"]
  /\ cacheHit' = [cacheHit EXCEPT ![w] = FALSE]
  /\ UNCHANGED <<lock, source, pin, stagingVars, intent, marker, blobVars, reported,
                 cleanup, failures>>

(* The operations whose rename into d \in undone the crash takes back. *)
Restored(undone) == {unsynced[d] : d \in undone}

(* The node or the storage restarts: every process dies, and each rename     *)
(* that was not synced is either kept or undone.                             *)
NodeCrash ==
  /\ failures < MaxFailures
  /\ failures' = failures + 1
  /\ pc' = [w \in Worker |-> "idle"]
  /\ digest' = [w \in Worker |-> "none"]
  /\ cacheHit' = [w \in Worker |-> FALSE]
  /\ lock' = [o \in Operation |-> "none"]
  /\ \E undone \in SUBSET {d \in Digest : unsynced[d] # "none"} :
       /\ staging' = [o \in Operation |->
            IF o \in Restored(undone)
              THEN CHOOSE d \in undone : unsynced[d] = o ELSE staging[o]]
       /\ sealed' = [o \in Operation |-> o \in Restored(undone) \/ sealed[o]]
       /\ blob' = [d \in Digest |-> IF d \in undone THEN "absent" ELSE blob[d]]
       /\ READY' = [d \in Digest |-> READY[d] /\ d \notin undone]
  /\ unsynced' = [d \in Digest |-> "none"]
  /\ cleanup' = [a \in Artifact |->
       IF cleanup[a] \in {"none", "done"} THEN cleanup[a] ELSE "staging"]
  /\ UNCHANGED <<source, pin, intent, marker, reported>>

(* The PVC's files are replaced, or the Hub revision moves. *)
SourceChanges(o) ==
  /\ \E d \in Digest \ {source[o]} : source' = [source EXCEPT ![o] = d]
  /\ UNCHANGED <<workerVars, lock, pin, stagingVars, intent, marker, blobVars, reported,
                 cleanup, failures>>

-----------------------------------------------------------------------------
(* RemoveOperationState: the areas in the code's order, one entry at a time. *)
(* The controller starts it for a deleted artifact whose importer Jobs are   *)
(* gone, and creates none afterwards; so the lock files it removes last are   *)
(* held by nobody and carry no state of the model.                           *)

CleanupUnchanged ==
  UNCHANGED <<workerVars, lock, source, blobVars, reported>>

StartCleanup(a) ==
  /\ cleanup[a] = "none"
  /\ \A w \in Worker : ArtifactOf[OperationOf[w]] = a => pc[w] \in {"idle", "done"}
  /\ cleanup' = [cleanup EXCEPT ![a] = "staging"]
  /\ CleanupUnchanged
  /\ UNCHANGED <<pin, stagingVars, intent, marker, failures>>

CleanupStaging(o) ==
  /\ cleanup[ArtifactOf[o]] = "staging"
  /\ staging[o] # "absent"
  /\ staging' = [staging EXCEPT ![o] = "absent"]
  /\ sealed' = [sealed EXCEPT ![o] = FALSE]
  /\ CleanupUnchanged
  /\ UNCHANGED <<pin, intent, marker, cleanup, failures>>

CleanupMetadata(o, area, file) ==
  /\ cleanup[ArtifactOf[o]] = area
  /\ file[o] # "none"
  /\ CleanupUnchanged
  /\ UNCHANGED <<stagingVars, cleanup, failures>>

CleanupIntent(o) ==
  /\ CleanupMetadata(o, "intents", intent)
  /\ intent' = [intent EXCEPT ![o] = "none"]
  /\ UNCHANGED <<marker, pin>>

CleanupMarker(o) ==
  /\ CleanupMetadata(o, "operations", marker)
  /\ marker' = [marker EXCEPT ![o] = "none"]
  /\ UNCHANGED <<intent, pin>>

CleanupPin(o) ==
  /\ CleanupMetadata(o, "revisions", pin)
  /\ pin' = [pin EXCEPT ![o] = "none"]
  /\ UNCHANGED <<intent, marker>>

NextArea(area) ==
  CASE area = "staging" -> "intents"
    [] area = "intents" -> "operations"
    [] area = "operations" -> "revisions"
    [] area = "revisions" -> "done"

(* Nothing of the artifact is left in an area: go on to the next one. *)
CleanupNext(a) ==
  /\ cleanup[a] \notin {"none", "done"}
  /\ \A o \in Operation : ArtifactOf[o] = a =>
       CASE cleanup[a] = "staging" -> staging[o] = "absent"
         [] cleanup[a] = "intents" -> intent[o] = "none"
         [] cleanup[a] = "operations" -> marker[o] = "none"
         [] cleanup[a] = "revisions" -> pin[o] = "none"
  /\ cleanup' = [cleanup EXCEPT ![a] = NextArea(@)]
  /\ CleanupUnchanged
  /\ UNCHANGED <<pin, stagingVars, intent, marker, failures>>

(* The cleanup Job fails and is run again from the first area. *)
CleanupFails(a) ==
  /\ cleanup[a] \notin {"none", "done"}
  /\ failures < MaxFailures
  /\ failures' = failures + 1
  /\ cleanup' = [cleanup EXCEPT ![a] = "staging"]
  /\ CleanupUnchanged
  /\ UNCHANGED <<pin, stagingVars, intent, marker>>

-----------------------------------------------------------------------------
Recover(w) ==
  \/ RecoverFromMarker(w) \/ RecoverFinalize(w) \/ RecoverStaged(w) \/ RecoverNothing(w)

Fetch(w) ==
  \/ Resolve(w) \/ EnsureStaging(w) \/ Transfer(w) \/ validateStaged(w)

Publish(w) ==
  \/ PublishIntent(w) \/ PublishManifest(w) \/ PublishInspect(w)
  \/ PublishRename(w) \/ PublishRenameLost(w)
  \/ FinalizeSync(w) \/ FinalizeReady(w) \/ FinalizeMarker(w) \/ PublishTidy(w)

(* One importer process running its operation: executeHub, executeCopy. *)
Execute(w) ==
  AcquireOperationLock(w) \/ Recover(w) \/ Fetch(w) \/ Publish(w) \/ Report(w)

RemoveOperationState(o) ==
  CleanupStaging(o) \/ CleanupIntent(o) \/ CleanupMarker(o) \/ CleanupPin(o)

Next ==
  \/ \E w \in Worker : Execute(w) \/ Fails(w) \/ Rerun(w)
  \/ \E o \in Operation : SourceChanges(o) \/ RemoveOperationState(o)
  \/ \E a \in Artifact : StartCleanup(a) \/ CleanupNext(a) \/ CleanupFails(a)
  \/ NodeCrash

Spec == Init /\ [][Next]_vars

(* A scheduled importer process runs, and a failed one is retried by its Job *)
(* controller; failures are bounded by MaxFailures, not by fairness.         *)
FairSpec == Spec /\ \A w \in Worker : WF_vars(Execute(w))

-----------------------------------------------------------------------------
(* Types. *)
TypeOK ==
  /\ pc \in [Worker -> {"idle", "recover", "resolve", "stage", "transfer", "validate",
                        "intent", "seal", "inspect", "rename", "sync", "ready", "marker",
                        "tidy", "report", "done"}]
  /\ digest \in [Worker -> Digest \cup {"none"}]
  /\ cacheHit \in [Worker -> BOOLEAN]
  /\ lock \in [Operation -> Worker \cup {"none"}]
  /\ source \in [Operation -> Digest]
  /\ pin \in [Operation -> Digest \cup {"none"}]
  /\ staging \in [Operation -> Digest \cup {"absent", "partial"}]
  /\ sealed \in [Operation -> BOOLEAN]
  /\ intent \in [Operation -> Digest \cup {"none"}]
  /\ marker \in [Operation -> Digest \cup {"none"}]
  /\ blob \in [Digest -> {"absent", "partial", "complete"}]
  /\ READY \in [Digest -> BOOLEAN]
  /\ unsynced \in [Digest -> Operation \cup {"none"}]
  /\ reported \in [Operation -> SUBSET Digest]
  /\ cleanup \in [Artifact -> {"none", "staging", "intents", "operations", "revisions",
                               "done"}]
  /\ failures \in 0 .. MaxFailures

(* A directory under blobs/sha256 is never torn, and READY is only in a      *)
(* complete one, also after a crash at any point: "Only a valid manifest     *)
(* plus READY is published content" (Publish, finalizePublication).          *)
PublishedIsComplete ==
  \A d \in Digest : blob[d] # "partial" /\ (READY[d] => ValidContent(d))

(* An operation marker names content that is published and that no crash     *)
(* takes back, so a retry that finds the marker succeeds (RecoverPublished). *)
MarkerIsTruthful ==
  \A o \in Operation : marker[o] # "none" =>
    ValidatePublished(marker[o]) /\ unsynced[marker[o]] = "none"

(* A durable intent suffices to finish the publication "without contacting   *)
(* the source again": as long as the artifact is not deleted, the content    *)
(* it names is in blobs or still whole in staging.                           *)
IntentIsRecoverable ==
  \A o \in Operation :
    intent[o] # "none" /\ cleanup[ArtifactOf[o]] = "none" =>
      ValidContent(intent[o]) \/ (blob[intent[o]] = "absent" /\ staging[o] = intent[o])

(* Once an operation has committed to a digest, no retry commits it to       *)
(* another one, whatever its source holds by then.                           *)
IntentIsStable ==
  [][\A o \in Operation : intent[o] # "none" => intent'[o] \in {intent[o], "none"}]_vars

(* A Hub operation reports the content of the commit it pinned first, not    *)
(* what a moved tag resolves to on a retry.                                  *)
HubReportsPinned ==
  \A o \in HubOperation : pin[o] # "none" => reported[o] \subseteq {pin[o]}

(* The abstract cache: content is published once and whole, and an operation *)
(* always reports the same published content.                                *)
Store == INSTANCE ArtifactStore WITH published <- {d \in Digest : READY[d]}

ImplementsStore == Store!Spec

(* When failures stop, every operation reports success, unless its artifact  *)
(* is deleted: no crash leaves a state that retries cannot get out of.       *)
EveryOperationReports ==
  <>(\A o \in Operation : reported[o] # {} \/ cleanup[ArtifactOf[o]] # "none")
=============================================================================
