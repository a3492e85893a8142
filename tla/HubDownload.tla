---------------------------- MODULE HubDownload ----------------------------
(* The transfer of one file of a Hub source into staging (Preflight and    *)
(* Download in hub.go): a HEAD request, the validation of the recorded     *)
(* checkpoint against the staged bytes, a GET that resumes behind them,    *)
(* and a loop that stores blocks and records checkpoints.                  *)
(*                                                                         *)
(* The server may replace the file at any time, answer without an ETag or  *)
(* a length, ignore ranges, send less than asked, and lose connections.    *)
(* The importer may be killed and the node may crash between any two       *)
(* steps.  The operation lock (see Publication) admits one importer.       *)
(*                                                                         *)
(* A file is a nonempty sequence of blocks (an empty one is no GGUF file). *)
(* The strong ETag of a version is its number, 0 stands for none.  SHA-256 *)
(* of some bytes is represented by the bytes.                              *)
EXTENDS Naturals, Sequences, Disk

CONSTANTS
  Blocks,           \* what a block may hold
  Contents,         \* contents of a version
  CheckpointBlocks, \* blocks between two checkpoints (8 MiB)
  MaxVersions,      \* versions the server goes through
  MaxFaults,        \* lost connections, kills and crashes
  Servers           \* kinds of servers: what each may do, as subsets of BOOLEAN

ASSUME HubAssumption ==
  /\ Contents \subseteq Seq(Blocks) \ {<<>>} /\ MaxFaults \in Nat
  /\ Servers \subseteq [sizes : SUBSET BOOLEAN, heads : SUBSET BOOLEAN, ranges : SUBSET BOOLEAN,
                        tagged : SUBSET BOOLEAN, lengths : SUBSET BOOLEAN]

VARIABLES
  server,        \* the kind of the server
  versions,      \* what the server has served, the last one now
  staged,        \* the staged file, as processes see it
  durable,       \* the staged file, as last synced
  kept,          \* leading blocks that were not written since
  record,        \* the .resume.json file
  durableRecord, \* what a crash makes of it
  pc, remote,    \* the importer: step, RemoteFile
  partial, body, \* where it resumes, what the connection will deliver
  hash, mark,    \* the hasher, the last checkpoint
  next,          \* what follows persistDownloadCheckpoint
  faults

disk == <<staged, durable, kept>>
attempt == <<remote, partial, body, hash, mark, next>>
vars == <<server, versions, disk, record, durableRecord, pc, attempt, faults>>

Sizes   == server.sizes    \* whether the API reports sizes
Heads   == server.heads    \* whether HEAD is allowed
Ranges  == server.ranges   \* whether a range is honoured
Tagged  == server.tagged   \* whether an answer carries the ETag
Lengths == server.lengths  \* whether an answer carries a length

Cooperative == Sizes = {TRUE} /\ Heads = {TRUE} /\ Ranges = {TRUE} /\ Tagged = {TRUE}

Current == Len(versions)

(* A checkpoint that vouches for no byte, and the one of a missing file. *)
EmptyRecord(etag, size) == [etag |-> etag, size |-> size, partial |-> 0, hash |-> <<>>]
NoRecord == EmptyRecord(0, 0)

(* A file is truncated to n blocks without, and with, an fsync. *)
Truncate(n) ==
  /\ staged' = SubSeq(staged, 1, n)
  /\ kept' = IF kept > n THEN n ELSE kept
  /\ UNCHANGED durable

Sync(content) == staged' = content /\ durable' = content /\ kept' = Len(content)

writeResumeCheckpoint(r) == record' = r /\ durableRecord' = r

-----------------------------------------------------------------------------
(* Preflight.                                                              *)

(* Mutant: the record may be of another version of the file. *)
ValidForAnyVersion(etag, size) ==
  /\ record.etag # 0 /\ record.size = size
  /\ record.partial \in 1 .. size /\ Len(staged) >= record.partial
  /\ SubSeq(staged, 1, record.partial) = record.hash

(* validateResumeCheckpoint: the record fits the remote file and the bytes. *)
Valid(etag, size) ==
  /\ record.etag # 0 /\ record.etag = etag /\ record.size = size
  /\ record.partial \in 1 .. size /\ Len(staged) >= record.partial
  /\ SubSeq(staged, 1, record.partial) = record.hash

Checkpoint(etag, size) == IF Valid(etag, size) THEN record.partial ELSE 0

(* The file is cut to the checkpoint, with an fsync if that changes it. *)
validateResumeCheckpoint(etag, size) ==
  LET n == Checkpoint(etag, size)
  IN IF Len(staged) # n THEN Sync(SubSeq(staged, 1, n)) ELSE UNCHANGED disk

(* Resolve: the API may report a size. *)
Resolve ==
  /\ pc = "idle" /\ pc' = "preflight"
  /\ \E known \in Sizes :
       remote' = [etag |-> 0, size |-> IF known THEN Len(versions[Current]) ELSE 0]
  /\ UNCHANGED <<server, versions, disk, record, durableRecord, partial, body, hash, mark, next, faults>>

(* HEAD may report the ETag and the size; without an ETag nothing can be   *)
(* resumed, and a size is needed from the API or from HEAD.                *)
Preflight ==
  LET size == Len(versions[Current])
  IN /\ pc = "preflight"
     /\ \E head \in Heads, tagged \in Tagged, length \in Lengths :
          LET measured == head /\ length
              found == [etag |-> IF head /\ tagged THEN Current ELSE 0,
                        size |-> IF measured THEN size ELSE remote.size]
          IN IF found.size = 0 \/ (measured /\ remote.size \notin {0, size})
             THEN pc' = "idle" /\ UNCHANGED <<remote, disk>>
             ELSE /\ pc' = "begin" /\ remote' = found
                  /\ validateResumeCheckpoint(found.etag, found.size)
     /\ UNCHANGED <<server, versions, record, durableRecord, partial, body, hash, mark, next, faults>>

-----------------------------------------------------------------------------
(* Download.                                                               *)

(* Mutant: a whole file is requested again. *)
BeginAlwaysRequests ==
  LET n == Checkpoint(remote.etag, remote.size)
  IN /\ pc = "begin"
     /\ validateResumeCheckpoint(remote.etag, remote.size)
     /\ partial' = n /\ pc' = "get"
     /\ IF n = 0
        THEN writeResumeCheckpoint(EmptyRecord(remote.etag, remote.size))
        ELSE UNCHANGED <<record, durableRecord>>
     /\ UNCHANGED <<server, versions, remote, body, hash, mark, next, faults>>

(* The checkpoint is validated once more; a whole file needs no request. *)
Begin ==
  LET n == Checkpoint(remote.etag, remote.size)
  IN /\ pc = "begin"
     /\ validateResumeCheckpoint(remote.etag, remote.size)
     /\ partial' = n /\ pc' = IF n = remote.size THEN "done" ELSE "get"
     /\ IF n = 0
        THEN writeResumeCheckpoint(EmptyRecord(remote.etag, remote.size))
        ELSE UNCHANGED <<record, durableRecord>>
     /\ UNCHANGED <<server, versions, remote, body, hash, mark, next, faults>>

(* What the server sends: the status, how many blocks it skipped, the rest. *)
Answer(status, from, data) == [status |-> status, from |-> from, data |-> data]

(* A range behind the staged blocks is answered if the ETag given in       *)
(* If-Range is still the current one, perhaps not to the end.              *)
Answers ==
  LET data == versions[Current]
      whole == Answer(200, 0, data)
      some == {Answer(206, partial, SubSeq(data, partial + 1, to)) : to \in partial + 1 .. Len(data)}
  IN UNION {IF range /\ partial > 0 /\ remote.etag = Current THEN some ELSE {whole} : range \in Ranges}

(* Refused: an ETag or a length that differs from the preflight. *)
Accepted(answer, tagged, length) ==
  /\ tagged /\ remote.etag # 0 => remote.etag = Current
  /\ length /\ answer.status = 200 => Len(answer.data) = remote.size

(* GET: a partial answer is appended, a whole one replaces the file.  The  *)
(* hasher starts with the bytes that stay.                                 *)
Get ==
  /\ pc = "get"
  /\ \E answer \in Answers, tagged \in Tagged, length \in Lengths :
       IF ~Accepted(answer, tagged, length)
       THEN pc' = "idle" /\ UNCHANGED <<disk, partial, body, hash, mark>>
       ELSE /\ pc' = "read" /\ partial' = answer.from /\ mark' = answer.from /\ body' = answer.data
            /\ hash' = SubSeq(staged, 1, answer.from)
            /\ IF answer.status = 206 THEN UNCHANGED disk ELSE Truncate(0)
  /\ UNCHANGED <<server, versions, record, durableRecord, remote, next, faults>>

Persist(then) == pc' = "sync" /\ next' = then

(* A block is stored; a checkpoint follows when enough has been stored. *)
ReadBlock ==
  LET longer == Append(hash, Head(body))
      due == Len(longer) - mark >= CheckpointBlocks
  IN /\ pc = "read" /\ body # <<>> /\ Len(hash) < remote.size
     /\ staged' = Append(staged, Head(body)) /\ hash' = longer /\ body' = Tail(body)
     /\ mark' = IF due THEN Len(longer) ELSE mark
     /\ IF due THEN Persist("read") ELSE UNCHANGED <<pc, next>>
     /\ UNCHANGED <<server, versions, durable, kept, record, durableRecord, remote, partial, faults>>

(* The body ends, or goes on behind the size of the preflight. *)
ReadEnd ==
  /\ pc = "read" /\ (body = <<>> \/ Len(hash) = remote.size)
  /\ Persist(IF body = <<>> THEN "finish" ELSE "idle")
  /\ UNCHANGED <<server, versions, disk, record, durableRecord, remote, partial, body, hash, mark, faults>>

(* Mutant: the file is not synced. *)
SyncNothing ==
  /\ pc = "sync" /\ pc' = "record"
  /\ UNCHANGED <<server, versions, disk, record, durableRecord, attempt, faults>>

(* persistDownloadCheckpoint: fsync the file, then write the record. *)
SyncFile ==
  /\ pc = "sync" /\ pc' = "record" /\ Sync(staged)
  /\ UNCHANGED <<server, versions, record, durableRecord, attempt, faults>>

NewRecord == [etag |-> remote.etag, size |-> remote.size, partial |-> Len(hash), hash |-> hash]

WriteRecord ==
  /\ pc = "record" /\ pc' = next /\ writeResumeCheckpoint(NewRecord)
  /\ UNCHANGED <<server, versions, disk, attempt, faults>>

Finish ==
  /\ pc = "finish" /\ pc' = IF Len(staged) = remote.size THEN "done" ELSE "idle"
  /\ UNCHANGED <<server, versions, disk, record, durableRecord, attempt, faults>>

Importer ==
  \/ Resolve \/ Preflight \/ Begin \/ Get \/ ReadBlock \/ ReadEnd
  \/ SyncFile \/ WriteRecord \/ Finish

-----------------------------------------------------------------------------
(* The server, and failures.                                               *)

ServerChanges(content) ==
  /\ Current < MaxVersions /\ versions' = Append(versions, content)
  /\ UNCHANGED <<server, disk, record, durableRecord, pc, attempt, faults>>

Fault == faults > 0 /\ faults' = faults - 1

(* A connection is lost, or a write fails: a checkpoint, then return. *)
Disconnected ==
  /\ pc = "read" /\ Fault /\ Persist("idle")
  /\ UNCHANGED <<server, versions, disk, record, durableRecord, remote, partial, body, hash, mark>>

Killed ==
  /\ pc \notin {"idle", "done"} /\ Fault /\ pc' = "idle"
  /\ UNCHANGED <<server, versions, disk, record, durableRecord, attempt>>

(* writeAtomic ends between the rename and the fsync of the directory. *)
KilledBeforeDirectorySync ==
  /\ pc = "record" /\ Fault /\ pc' = "idle" /\ record' = NewRecord
  /\ UNCHANGED <<server, versions, disk, durableRecord, attempt>>

NodeCrash ==
  /\ pc # "done" /\ Fault /\ pc' = "idle"
  /\ \E content \in Remains(durable, staged, kept) : Sync(content)
  /\ \E r \in {record, durableRecord} : writeResumeCheckpoint(r)
  /\ UNCHANGED <<server, versions, attempt>>

Init ==
  /\ server \in Servers
  /\ \E content \in Contents : versions = <<content>>
  /\ staged = <<>> /\ durable = <<>> /\ kept = 0
  /\ record = NoRecord /\ durableRecord = NoRecord
  /\ pc = "idle" /\ remote = [etag |-> 0, size |-> 0] /\ partial = 0 /\ body = <<>>
  /\ hash = <<>> /\ mark = 0 /\ next = "idle" /\ faults = MaxFaults

Next ==
  \/ Importer
  \/ \E content \in Contents : ServerChanges(content)
  \/ Disconnected \/ Killed \/ KilledBeforeDirectorySync \/ NodeCrash

Spec == Init /\ [][Next]_vars

(* A retried Job keeps taking steps; changes and faults are finitely many. *)
FairSpec == Spec /\ WF_vars(Importer)

-----------------------------------------------------------------------------
(* Properties.                                                             *)

(* During a transfer the hasher has seen exactly what the staged file      *)
(* holds, and no more than the size of the preflight is stored.            *)
TypeOK ==
  /\ pc \in {"idle", "preflight", "begin", "get", "read", "sync", "record", "finish", "done"}
  /\ next \in {"idle", "read", "finish"} /\ mark \in Nat /\ kept \in 0 .. Len(durable)
  /\ pc \in {"read", "sync", "record", "finish"} => staged = hash /\ Len(staged) <= remote.size

(* A finished download is one version of the file as the server had it,    *)
(* the one of the preflight if answers name it: never the beginning  *)
(* of one and the end of another, nor bytes a crash left (Download).       *)
DownloadIsOneVersion ==
  pc = "done" => /\ \E v \in 1 .. Current : staged = versions[v]
                 /\ Tagged = {TRUE} /\ remote.etag # 0 => staged = versions[remote.etag]

(* A finished download is synced, also one that found everything there and *)
(* returned at once: publication renames it and records it as complete.    *)
DownloadIsDurable == pc = "done" => kept = Len(staged)

(* A finished download can be published: it is one version of the file,    *)
(* and durable.                                                            *)
DownloadIsSound == DownloadIsOneVersion /\ DownloadIsDurable

(* A checkpoint of the version the server has is worth what it says: its   *)
(* bytes are on disk, survive every kill and crash, and are not fetched    *)
(* again, if the server allows HEAD and honours ranges                     *)
(* (persistDownloadCheckpoint, the Range header of Download).              *)
CheckpointIsGenuine ==
  Cooperative => \A r \in {record, durableRecord} : r.etag = Current /\ r.size = Len(versions[Current]) =>
    /\ kept >= r.partial
    /\ SubSeq(staged, 1, r.partial) = SubSeq(versions[Current], 1, r.partial)

(* A download that is retried ends once the server rests: neither what a   *)
(* crash left nor an answer that is too short or too long is a dead end.   *)
(* A server that never tells the size, or never the ETag, may prevent it.  *)
EventuallyDownloaded == Cooperative ~> pc = "done"

=============================================================================
