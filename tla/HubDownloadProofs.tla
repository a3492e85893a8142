------------------------- MODULE HubDownloadProofs -------------------------
(* A finished download is one version of the file, and durable, and the    *)
(* checkpoints of a cooperative server are worth what they say: for every  *)
(* content, any number of versions and faults, and all kinds of servers.   *)
(*                                                                         *)
(* The argument: a record may name an ETag and hold bytes of a later       *)
(* version, since an answer without an ETag is accepted.  But versions     *)
(* only move forward: a record whose ETag is still the current one was     *)
(* written while that version was served, so its bytes are of that version *)
(* (RecordsAreHonest).  A resumed transfer compares the ETag once with     *)
(* HEAD and once more with If-Range; what lies between is RemoteIsHonest.  *)
EXTENDS HubDownload, TLAPS

Bytes == Blocks \cup {Garbage}
Checkpoints == [etag : Nat, size : Nat, partial : Nat, hash : Seq(Bytes)]

Types ==
  /\ server \in Servers
  /\ versions \in Seq(Seq(Blocks)) /\ Current >= 1
  /\ \A v \in 1 .. Current : Len(versions[v]) >= 1
  /\ staged \in Seq(Bytes) /\ durable \in Seq(Bytes) /\ kept \in Nat
  /\ record \in Checkpoints /\ durableRecord \in Checkpoints
  /\ remote \in [etag : Nat, size : Nat]
  /\ partial \in Nat /\ body \in Seq(Blocks) /\ hash \in Seq(Bytes) /\ mark \in Nat
  /\ faults \in Nat

ControlTypes ==
  /\ pc \in {"idle", "preflight", "begin", "get", "read", "sync", "record", "finish", "done"}
  /\ next \in {"idle", "read", "finish"}

Transferring == pc \in {"read", "sync", "record", "finish"}

(* One sequence is the beginning of another. *)
Starts(s, t) == Len(s) <= Len(t) /\ \A i \in 1 .. Len(s) : s[i] = t[i]

(* What was synced and not written since is still there. *)
DiskAgrees ==
  /\ kept <= Len(durable) /\ kept <= Len(staged)
  /\ \A i \in 1 .. kept : durable[i] = staged[i]

(* The ETag of a record is old, or its bytes are those of the version. *)
HonestRecord(r) ==
  /\ r.etag <= Current /\ r.partial = Len(r.hash) /\ r.partial <= r.size
  /\ r.etag = Current => Starts(r.hash, versions[Current])

RecordsAreHonest == HonestRecord(record) /\ HonestRecord(durableRecord)

(* A size the API reported is not older than the record.  Once the record  *)
(* fits the preflight, its bytes and its size are those of the version.    *)
RemoteIsHonest ==
  /\ pc = "preflight" /\ remote.size # 0 =>
       \E v \in 1 .. Current : remote.size = Len(versions[v]) /\ record.etag <= v
  /\ pc \in {"begin", "get", "done"} \/ Transferring => remote.size >= 1 /\ remote.etag <= Current
  /\ pc = "begin" /\ remote.etag # 0 /\ record.etag = remote.etag /\ record.size = remote.size =>
       Starts(record.hash, versions[remote.etag]) /\ remote.size = Len(versions[remote.etag])

(* Before the request the staged bytes are those of the record. *)
ReadyToGet ==
  pc = "get" =>
    /\ partial = record.partial /\ partial = Len(staged) /\ partial < remote.size
    /\ partial > 0 => /\ remote.etag # 0 /\ Starts(staged, versions[remote.etag])
                      /\ remote.size = Len(versions[remote.etag])

(* The stored bytes and the rest of the answer are of one version. *)
Delivers(v) ==
  /\ remote.etag <= v /\ (Tagged = {TRUE} /\ remote.etag # 0 => v = remote.etag)
  /\ Starts(hash, versions[v]) /\ Len(hash) + Len(body) <= Len(versions[v])
  /\ \A i \in 1 .. Len(body) : body[i] = versions[v][Len(hash) + i]
  /\ Len(hash) + Len(body) = Len(versions[v]) \/ remote.size = Len(versions[v])

TransferIsHonest ==
  /\ Transferring => /\ staged = hash /\ Len(hash) <= remote.size
                     /\ \E v \in 1 .. Current : Delivers(v)
                     /\ Cooperative => record.partial <= Len(hash)
  /\ pc = "get" \/ Transferring => record.etag = remote.etag /\ record.size = remote.size
  /\ pc \in {"sync", "record"} /\ next = "finish" => body = <<>>
  /\ pc = "finish" => body = <<>>
  /\ pc \in {"record", "finish"} => kept = Len(staged)

(* A record of the whole file is about bytes that are synced. *)
Whole(r) == r.size >= 1 /\ r.partial = r.size

WholeIsKept(r) == Whole(r) /\ Starts(r.hash, staged) => kept >= r.partial

WholeRecords ==
  /\ WholeIsKept(record) /\ WholeIsKept(durableRecord)
  /\ Whole(durableRecord) => Whole(record)
  /\ pc = "get" => ~Whole(record)
  /\ Transferring /\ Whole(record) => Len(hash) = remote.size /\ kept = Len(staged)

(* What a finished download has. *)
Complete ==
  pc = "done" =>
    /\ kept = Len(staged)
    /\ \E v \in 1 .. Current : /\ staged = versions[v]
                               /\ Tagged = {TRUE} /\ remote.etag # 0 => v = remote.etag

(* With a cooperative server nothing that a record counts is lost, and the *)
(* record a crash brings back counts no more than the one it replaces.     *)
Genuine(r) ==
  r.etag = Current /\ r.size = Len(versions[Current]) =>
    r.partial <= kept /\ \A i \in 1 .. r.partial : staged[i] = versions[Current][i]

GenuineRecords ==
  Cooperative =>
    /\ Genuine(record) /\ Genuine(durableRecord)
    /\ durableRecord.partial > 0 => /\ durableRecord.etag = record.etag
                                    /\ durableRecord.size = record.size
                                    /\ durableRecord.partial <= record.partial

(* The inductive invariant. *)
DownloadInv ==
  /\ Types /\ ControlTypes /\ DiskAgrees /\ RecordsAreHonest /\ RemoteIsHonest /\ ReadyToGet
  /\ TransferIsHonest /\ WholeRecords /\ Complete /\ GenuineRecords

-----------------------------------------------------------------------------
(* Facts about sequences.                                                  *)

(* A sequence that is cut. *)
LEMMA CutFacts ==
  ASSUME NEW S, NEW s \in Seq(S), NEW n \in Nat, n <= Len(s)
  PROVE  /\ SubSeq(s, 1, n) \in Seq(S) /\ Len(SubSeq(s, 1, n)) = n
         /\ \A i \in 1 .. n : SubSeq(s, 1, n)[i] = s[i]
  OBVIOUS

(* Sequences of equal length and equal elements are equal. *)
LEMMA EqualSequences ==
  ASSUME NEW S, NEW T, NEW s \in Seq(S), NEW t \in Seq(T), Len(s) = Len(t),
         \A i \in 1 .. Len(s) : s[i] = t[i]
  PROVE  s = t
  OBVIOUS

(* A sequence that grows by one element. *)
LEMMA AppendFacts ==
  ASSUME NEW S, NEW s \in Seq(S), NEW e \in S
  PROVE  /\ Append(s, e) \in Seq(S) /\ Len(Append(s, e)) = Len(s) + 1
         /\ \A i \in 1 .. Len(s) : Append(s, e)[i] = s[i]
         /\ Append(s, e)[Len(s) + 1] = e
  OBVIOUS

(* A sequence that loses its head. *)
LEMMA TailFacts ==
  ASSUME NEW S, NEW s \in Seq(S), s # <<>>
  PROVE  /\ Tail(s) \in Seq(S) /\ Len(Tail(s)) = Len(s) - 1 /\ Len(s) >= 1
         /\ Head(s) \in S /\ Head(s) = s[1]
         /\ \A i \in 1 .. Len(s) - 1 : Tail(s)[i] = s[i + 1]
  OBVIOUS

(* The part of a sequence behind its first elements. *)
LEMMA MiddleFacts ==
  ASSUME NEW S, NEW s \in Seq(S), NEW m \in Nat, NEW n \in Nat, m <= n, n <= Len(s)
  PROVE  /\ SubSeq(s, m + 1, n) \in Seq(S) /\ Len(SubSeq(s, m + 1, n)) = n - m
         /\ \A i \in 1 .. n - m : SubSeq(s, m + 1, n)[i] = s[m + i]
  OBVIOUS

-----------------------------------------------------------------------------
(* The steps.                                                              *)

(* The file is cut to n blocks, or has n blocks already. *)
LEMMA CutDisk ==
  ASSUME Types, DiskAgrees, NEW n \in Nat, n <= Len(staged),
         \/ /\ staged' = SubSeq(staged, 1, n) /\ durable' = SubSeq(staged, 1, n)
            /\ kept' = Len(SubSeq(staged, 1, n))
         \/ n = Len(staged) /\ UNCHANGED <<staged, durable, kept>>
  PROVE  /\ staged' \in Seq(Bytes) /\ durable' \in Seq(Bytes) /\ kept' \in Nat
         /\ Len(staged') = n /\ (\A i \in 1 .. n : staged'[i] = staged[i])
         /\ DiskAgrees' /\ (kept' = n \/ (n = Len(staged) /\ kept' = kept))
<1> DEFINE c == SubSeq(staged, 1, n)
<1>1. c \in Seq(Bytes) /\ Len(c) = n /\ \A i \in 1 .. n : c[i] = staged[i]
  BY CutFacts DEF Types
<1>2. CASE staged' = c /\ durable' = c /\ kept' = Len(c)
  <2> HIDE DEF c
  <2> QED
    BY <1>1, <1>2 DEF DiskAgrees
<1>3. CASE n = Len(staged) /\ UNCHANGED <<staged, durable, kept>>
  BY <1>3, Zenon DEF Types, DiskAgrees
<1> QED
  BY <1>2, <1>3, Zenon

(* What is cut is synced, so a whole record stays a record of synced bytes. *)
LEMMA CutKeepsWhole ==
  ASSUME Types, DiskAgrees, NEW n \in Nat, n <= Len(staged), kept' \in Nat, Len(staged') = n,
         \A i \in 1 .. n : staged'[i] = staged[i],
         kept' = n \/ (n = Len(staged) /\ kept' = kept),
         NEW r \in Checkpoints, r.partial = Len(r.hash),
         Whole(r) /\ Starts(r.hash, staged) => kept >= r.partial
  PROVE  Whole(r) /\ Starts(r.hash, staged') => kept' >= r.partial
<1>1. Len(staged) \in Nat /\ Len(r.hash) \in Nat /\ r.partial \in Nat
  <2>1. Len(staged) \in Nat
    BY DEF Types
  <2>2. r.hash \in Seq(Bytes) /\ r.partial \in Nat
    BY Zenon DEF Checkpoints
  <2> QED
    BY <2>1, <2>2, Zenon
<1>2. Starts(r.hash, staged') => Starts(r.hash, staged) /\ Len(r.hash) <= n
  BY <1>1 DEF Starts
<1> QED
  BY <1>1, <1>2, Zenon

(* What the conjuncts say is left alone by a step that only ends the       *)
(* attempt.                                                                *)
LEMMA IdleStep ==
  ASSUME DownloadInv, pc' = "idle", faults' \in Nat,
         UNCHANGED <<server, versions, disk, record, durableRecord, attempt>>
  PROVE  DownloadInv'
<1>1. /\ UNCHANGED <<server, versions, staged, durable, kept, record, durableRecord>>
      /\ UNCHANGED <<remote, partial, body, hash, mark, next>>
  BY Zenon DEF disk, attempt
<1>2. Current' = Current /\ (Cooperative' <=> Cooperative)
  BY <1>1, Zenon DEF Current, Cooperative, Sizes, Heads, Ranges, Tagged
<1>3. Types' /\ ControlTypes'
  BY <1>1, <1>2, Zenon DEF DownloadInv, Types, ControlTypes
<1>4. DiskAgrees' /\ RecordsAreHonest'
  BY <1>1, <1>2, Zenon DEF DownloadInv, DiskAgrees, RecordsAreHonest, HonestRecord, Starts
<1>5. RemoteIsHonest' /\ ReadyToGet' /\ TransferIsHonest' /\ Complete'
  BY Zenon DEF RemoteIsHonest, ReadyToGet, TransferIsHonest, Complete, Transferring
<1>6. WholeRecords'
  BY <1>1 DEF DownloadInv, WholeRecords, WholeIsKept, Whole, Starts, Transferring
<1>7. GenuineRecords'
  BY <1>1, <1>2, Zenon DEF DownloadInv, GenuineRecords, Genuine
<1> QED
  BY <1>3, <1>4, <1>5, <1>6, <1>7, Zenon DEF DownloadInv

(* The API reports the size of the current version, or nothing. *)
LEMMA ResolveStep == DownloadInv /\ Resolve => DownloadInv'
<1> SUFFICES ASSUME DownloadInv, Resolve PROVE DownloadInv'
  OBVIOUS
<1>1. /\ pc' = "preflight"
      /\ UNCHANGED <<server, versions, staged, durable, kept, record, durableRecord>>
      /\ UNCHANGED <<partial, body, hash, mark, next, faults>>
  BY Zenon DEF Resolve, disk
<1>2. Current' = Current /\ (Cooperative' <=> Cooperative) /\ Current \in Nat /\ Current >= 1
  BY <1>1 DEF DownloadInv, Types, Current, Cooperative, Sizes, Heads, Ranges, Tagged
<1>3. remote' = [etag |-> 0, size |-> Len(versions[Current])] \/ remote' = [etag |-> 0, size |-> 0]
  BY Zenon DEF Resolve
<1>4. Len(versions[Current]) \in Nat
  BY <1>2 DEF DownloadInv, Types, Current
<1>5. Types' /\ ControlTypes'
  <2>1. remote' \in [etag : Nat, size : Nat]
    BY <1>3, <1>4
  <2> QED
    BY <1>1, <1>2, <2>1, Zenon DEF DownloadInv, Types, ControlTypes
<1>6. DiskAgrees' /\ RecordsAreHonest'
  BY <1>1, <1>2, Zenon DEF DownloadInv, DiskAgrees, RecordsAreHonest, HonestRecord, Starts
<1>7. RemoteIsHonest'
  <2>1. record.etag <= Current
    BY Zenon DEF DownloadInv, RecordsAreHonest, HonestRecord
  <2>2. remote'.size = 0 \/ remote'.size = Len(versions[Current])
    BY <1>3
  <2> QED
    BY <1>1, <1>2, <2>1, <2>2 DEF RemoteIsHonest, Transferring
<1>8. ReadyToGet' /\ TransferIsHonest' /\ Complete'
  BY <1>1, Zenon DEF ReadyToGet, TransferIsHonest, Complete, Transferring
<1>9. WholeRecords'
  BY <1>1, Zenon DEF DownloadInv, WholeRecords, WholeIsKept, Whole, Starts, Transferring
<1>10. GenuineRecords'
  BY <1>1, <1>2, Zenon DEF DownloadInv, GenuineRecords, Genuine
<1> QED
  BY <1>5, <1>6, <1>7, <1>8, <1>9, <1>10, Zenon DEF DownloadInv

(* Checkpoint is a number of staged blocks, and what a valid record says. *)
LEMMA CheckpointFacts ==
  ASSUME DownloadInv, NEW etag \in Nat, NEW size \in Nat, NEW n,
         n = IF /\ record.etag # 0 /\ record.etag = etag /\ record.size = size
                /\ record.partial \in 1 .. size /\ Len(staged) >= record.partial
                /\ SubSeq(staged, 1, record.partial) = record.hash
             THEN record.partial ELSE 0
  PROVE  /\ n \in Nat /\ n <= Len(staged)
         /\ n > 0 => /\ record.etag # 0 /\ record.etag = etag /\ record.size = size
                     /\ record.partial = n /\ n <= size
                     /\ \A i \in 1 .. n : staged[i] = record.hash[i]
<1>1. record.partial \in Nat /\ Len(staged) \in Nat /\ staged \in Seq(Bytes)
  BY DEF DownloadInv, Types, Checkpoints
<1>2. record.partial <= Len(staged) => \A i \in 1 .. record.partial : SubSeq(staged, 1, record.partial)[i] = staged[i]
  BY <1>1, CutFacts, Zenon
<1> QED
  BY <1>1, <1>2

(* HEAD: the file is cut to what the record is good for. *)
LEMMA PreflightStep == DownloadInv /\ Preflight => DownloadInv'
<1> SUFFICES ASSUME DownloadInv, Preflight PROVE DownloadInv'
  OBVIOUS
<1>1. /\ pc = "preflight"
      /\ UNCHANGED <<server, versions, record, durableRecord, partial, body, hash, mark, next, faults>>
  BY Zenon DEF Preflight
<1>2. /\ Current' = Current /\ (Cooperative' <=> Cooperative) /\ Current \in Nat /\ Current >= 1
      /\ Len(versions[Current]) \in Nat /\ Len(versions[Current]) >= 1
  BY <1>1 DEF DownloadInv, Types, Current, Cooperative, Sizes, Heads, Ranges, Tagged
<1>3. PICK head \in Heads, tagged \in Tagged, length \in Lengths :
        LET measured == head /\ length
            size == Len(versions[Current])
            found == [etag |-> IF head /\ tagged THEN Current ELSE 0,
                      size |-> IF measured THEN size ELSE remote.size]
        IN IF found.size = 0 \/ (measured /\ remote.size \notin {0, size})
           THEN pc' = "idle" /\ UNCHANGED <<remote, disk>>
           ELSE /\ pc' = "begin" /\ remote' = found
                /\ validateResumeCheckpoint(found.etag, found.size)
  BY Zenon DEF Preflight
<1> DEFINE etag == IF head /\ tagged THEN Current ELSE 0
           size == IF head /\ length THEN Len(versions[Current]) ELSE remote.size
           n == Checkpoint(etag, size)
<1>4. \/ pc' = "idle" /\ UNCHANGED <<remote, disk>>
      \/ /\ size # 0 /\ pc' = "begin" /\ remote' = [etag |-> etag, size |-> size]
         /\ validateResumeCheckpoint(etag, size)
  BY <1>3, Zenon
<1>5. CASE pc' = "idle" /\ UNCHANGED <<remote, disk>>
  <2>1. faults' \in Nat /\ UNCHANGED <<server, versions, disk, record, durableRecord, attempt>>
    BY <1>1, <1>5, Zenon DEF attempt, DownloadInv, Types
  <2> QED
    BY <1>5, <2>1, IdleStep, Zenon
<1>6. CASE /\ size # 0 /\ pc' = "begin" /\ remote' = [etag |-> etag, size |-> size]
           /\ validateResumeCheckpoint(etag, size)
  <2>1. etag \in Nat /\ size \in Nat /\ size >= 1 /\ etag \in {0, Current}
    BY <1>2, <1>6 DEF DownloadInv, Types
  <2>2. n = IF /\ record.etag # 0 /\ record.etag = etag /\ record.size = size
               /\ record.partial \in 1 .. size /\ Len(staged) >= record.partial
               /\ SubSeq(staged, 1, record.partial) = record.hash
            THEN record.partial ELSE 0
    BY Zenon DEF Checkpoint, Valid
  <2>3. /\ n \in Nat /\ n <= Len(staged)
        /\ n > 0 => /\ record.etag # 0 /\ record.etag = etag /\ record.size = size
                    /\ record.partial = n /\ n <= size
                    /\ \A i \in 1 .. n : staged[i] = record.hash[i]
    <3> HIDE DEF etag, size, n
    <3> QED
      BY <2>1, <2>2, CheckpointFacts, Zenon
  <2>4. \/ /\ staged' = SubSeq(staged, 1, n) /\ durable' = SubSeq(staged, 1, n)
           /\ kept' = Len(SubSeq(staged, 1, n))
        \/ n = Len(staged) /\ UNCHANGED <<staged, durable, kept>>
    BY <1>6, Zenon DEF validateResumeCheckpoint, Sync, disk
  <2> HIDE DEF etag, size, n
  <2>5. /\ staged' \in Seq(Bytes) /\ durable' \in Seq(Bytes) /\ kept' \in Nat
        /\ Len(staged') = n /\ (\A i \in 1 .. n : staged'[i] = staged[i])
        /\ DiskAgrees' /\ (kept' = n \/ (n = Len(staged) /\ kept' = kept))
    <3>1. Types /\ DiskAgrees
      BY Zenon DEF DownloadInv
    <3> QED
      BY <3>1, <2>3, <2>4, CutDisk, Zenon
  <2>6. remote'.etag = etag /\ remote'.size = size /\ pc' = "begin"
    BY <1>6, Zenon
  <2>7. Types' /\ ControlTypes'
    <3>1. remote' \in [etag : Nat, size : Nat]
      BY <1>6, <2>1, Zenon
    <3> QED
      BY <1>1, <1>2, <2>5, <2>6, <3>1, Zenon DEF DownloadInv, Types, ControlTypes
  <2>8. RecordsAreHonest'
    BY <1>1, <1>2, Zenon DEF DownloadInv, RecordsAreHonest, HonestRecord, Starts
  <2>9. etag = Current /\ record.etag = Current => size = Len(versions[Current])
    <3>1. size = Len(versions[Current]) \/ size = remote.size
      BY Zenon DEF size
    <3>2. ASSUME size = remote.size, record.etag = Current PROVE size = Len(versions[Current])
      <4>1. PICK v \in 1 .. Current : remote.size = Len(versions[v]) /\ record.etag <= v
        BY <1>1, <2>1, <3>2 DEF DownloadInv, RemoteIsHonest
      <4>2. v = Current
        BY <4>1, <3>2, <1>2
      <4> QED
        BY <4>1, <4>2, <3>2, Zenon
    <3> QED
      BY <3>1, <3>2, Zenon
  <2>10. RemoteIsHonest'
    <3>1. record.etag = Current => Starts(record.hash, versions[Current])
      BY Zenon DEF DownloadInv, RecordsAreHonest, HonestRecord
    <3>2. etag # 0 => etag = Current
      BY <2>1, Zenon
    <3> QED
      BY <1>1, <1>2, <2>1, <2>6, <2>9, <3>1, <3>2 DEF RemoteIsHonest, Transferring, Starts
  <2>11. ReadyToGet' /\ TransferIsHonest' /\ Complete'
    BY <2>6, Zenon DEF ReadyToGet, TransferIsHonest, Complete, Transferring
  <2>12. WholeRecords'
    <3>1. WholeIsKept(record)' /\ WholeIsKept(durableRecord)'
      BY <1>1, <2>3, <2>5, CutKeepsWhole, Zenon
         DEF DownloadInv, WholeRecords, WholeIsKept, Whole, Types, RecordsAreHonest, HonestRecord
    <3> QED
      BY <1>1, <2>6, <3>1, Zenon DEF DownloadInv, WholeRecords, Whole, Transferring
  <2>13. ASSUME Cooperative, record.partial > 0, record.etag = Current,
                record.size = Len(versions[Current])
         PROVE  /\ record.partial <= kept'
                /\ \A i \in 1 .. record.partial : staged'[i] = versions[Current][i]
    <3>1. record.partial <= kept /\ \A i \in 1 .. record.partial : staged[i] = versions[Current][i]
      BY <2>13, Zenon DEF DownloadInv, GenuineRecords, Genuine
    <3>2. etag = Current /\ size = Len(versions[Current])
      BY <1>2, <1>3, <2>9, <2>13, Zenon DEF Cooperative, etag
    <3>3. /\ record.partial = Len(record.hash) /\ record.partial <= Len(versions[Current])
          /\ \A i \in 1 .. record.partial : record.hash[i] = versions[Current][i]
      BY <2>13, Zenon DEF DownloadInv, RecordsAreHonest, HonestRecord, Starts
    <3>4. SubSeq(staged, 1, record.partial) = record.hash /\ Len(staged) >= record.partial
      <4>1. /\ staged \in Seq(Bytes) /\ record.hash \in Seq(Bytes) /\ record.partial \in Nat
            /\ record.partial <= Len(staged)
        <5>1. staged \in Seq(Bytes) /\ record \in Checkpoints
          BY Zenon DEF DownloadInv, Types
        <5>2. record.hash \in Seq(Bytes) /\ record.partial \in Nat
          BY <5>1, Zenon DEF Checkpoints
        <5>3. kept \in Nat /\ kept <= Len(staged)
          BY Zenon DEF DownloadInv, Types, DiskAgrees
        <5> QED
          BY <3>1, <5>1, <5>2, <5>3
      <4> DEFINE c == SubSeq(staged, 1, record.partial)
      <4>2. c \in Seq(Bytes) /\ Len(c) = record.partial /\ \A i \in 1 .. record.partial : c[i] = staged[i]
        BY <4>1, CutFacts, Zenon
      <4> HIDE DEF c
      <4>3. c = record.hash
        BY <4>1, <4>2, <3>1, <3>3, EqualSequences, SMTT(30)
      <4> QED
        BY <4>1, <4>3, Zenon DEF c
    <3>5. n = record.partial
      BY <1>2, <2>2, <2>13, <3>2, <3>3, <3>4, SMTT(30) DEF DownloadInv, Types, Checkpoints
    <3>6. \A i \in 1 .. n : staged'[i] = versions[Current][i]
      BY <2>5, <3>1, <3>5, Zenon
    <3>7. n <= kept'
      BY <2>3, <2>5, <3>1, <3>5
    <3> QED
      BY <3>5, <3>6, <3>7, Zenon
  <2>14. GenuineRecords'
    <3>1. record.partial \in Nat /\ durableRecord.partial \in Nat /\ kept' \in Nat
      BY <2>5, Zenon DEF DownloadInv, Types, Checkpoints
    <3>2. Cooperative => Genuine(record)'
      BY <1>1, <1>2, <2>13, <3>1 DEF Genuine
    <3>3. Cooperative => Genuine(durableRecord)'
      BY <1>1, <1>2, <2>13, <3>1 DEF Genuine, DownloadInv, GenuineRecords
    <3> QED
      BY <1>1, <1>2, <3>2, <3>3, Zenon DEF DownloadInv, GenuineRecords
  <2> QED
    BY <2>5, <2>7, <2>8, <2>10, <2>11, <2>12, <2>14, Zenon DEF DownloadInv
<1> QED
  BY <1>4, <1>5, <1>6, Zenon

(* The checkpoint is validated once more; a whole file ends the download. *)
LEMMA BeginStep == DownloadInv /\ Begin => DownloadInv'
<1> SUFFICES ASSUME DownloadInv, Begin PROVE DownloadInv'
  OBVIOUS
<1> DEFINE etag == remote.etag
           size == remote.size
           n == Checkpoint(etag, size)
<1>1. /\ pc = "begin" /\ UNCHANGED <<server, versions, remote, body, hash, mark, next, faults>>
      /\ partial' = n /\ pc' = IF n = size THEN "done" ELSE "get"
      /\ validateResumeCheckpoint(etag, size)
      /\ IF n = 0
         THEN record' = EmptyRecord(etag, size) /\ durableRecord' = EmptyRecord(etag, size)
         ELSE UNCHANGED <<record, durableRecord>>
  BY Zenon DEF Begin, writeResumeCheckpoint
<1>2. /\ Current' = Current /\ (Cooperative' <=> Cooperative) /\ Tagged' = Tagged
      /\ Current \in Nat /\ Current >= 1
  BY <1>1 DEF DownloadInv, Types, Current, Cooperative, Sizes, Heads, Ranges, Tagged
<1>3. etag \in Nat /\ size \in Nat /\ size >= 1 /\ etag <= Current
  BY <1>1, Zenon DEF DownloadInv, Types, RemoteIsHonest
<1>4. n = IF /\ record.etag # 0 /\ record.etag = etag /\ record.size = size
             /\ record.partial \in 1 .. size /\ Len(staged) >= record.partial
             /\ SubSeq(staged, 1, record.partial) = record.hash
          THEN record.partial ELSE 0
  BY Zenon DEF Checkpoint, Valid
<1>5. \/ /\ staged' = SubSeq(staged, 1, n) /\ durable' = SubSeq(staged, 1, n)
         /\ kept' = Len(SubSeq(staged, 1, n))
      \/ n = Len(staged) /\ UNCHANGED <<staged, durable, kept>>
  BY <1>1, Zenon DEF validateResumeCheckpoint, Sync, disk
<1>6. remote.etag = etag /\ remote.size = size
  OBVIOUS
<1> HIDE DEF etag, size, n
<1>7. /\ n \in Nat /\ n <= Len(staged) /\ n <= size
      /\ n > 0 => /\ record.etag # 0 /\ record.etag = etag /\ record.size = size
                  /\ record.partial = n
                  /\ \A i \in 1 .. n : staged[i] = record.hash[i]
  BY <1>3, <1>4, CheckpointFacts
<1>8. /\ staged' \in Seq(Bytes) /\ durable' \in Seq(Bytes) /\ kept' \in Nat
      /\ Len(staged') = n /\ (\A i \in 1 .. n : staged'[i] = staged[i])
      /\ DiskAgrees' /\ (kept' = n \/ (n = Len(staged) /\ kept' = kept))
  <2>1. Types /\ DiskAgrees
    BY Zenon DEF DownloadInv
  <2> QED
    BY <2>1, <1>5, <1>7, CutDisk, Zenon
<1>9. /\ record'.etag = etag /\ record'.size = size /\ record'.partial = n
      /\ record' \in Checkpoints /\ durableRecord' \in Checkpoints
      /\ n = 0 => record'.hash = <<>> /\ durableRecord' = record'
  <2>1. CASE n = 0
    <3>1. record' = EmptyRecord(etag, size) /\ durableRecord' = EmptyRecord(etag, size)
      BY <2>1, <1>1, Zenon
    <3>2. EmptyRecord(etag, size) \in Checkpoints
      BY <1>3 DEF EmptyRecord, Checkpoints
    <3> QED
      BY <2>1, <3>1, <3>2, Zenon DEF EmptyRecord
  <2>2. CASE n > 0
    BY <2>2, <1>1, <1>7 DEF DownloadInv, Types
  <2> QED
    BY <2>1, <2>2, <1>7
<1>10. n > 0 => /\ record' = record /\ durableRecord' = durableRecord
                /\ Starts(record.hash, versions[etag]) /\ Len(record.hash) = n
                /\ size = Len(versions[etag]) /\ etag \in 1 .. Current
  BY <1>1, <1>3, <1>6, <1>7 DEF DownloadInv, RemoteIsHonest, RecordsAreHonest, HonestRecord
<1>11. n > 0 => Starts(staged', versions[etag])
  BY <1>7, <1>8, <1>10, Zenon DEF Starts
<1>12. Types' /\ ControlTypes'
  BY <1>1, <1>2, <1>7, <1>8, <1>9, Zenon DEF DownloadInv, Types, ControlTypes
<1>13. RecordsAreHonest'
  <2>1. CASE n = 0
    BY <2>1, <1>1, <1>2, <1>3, <1>9 DEF RecordsAreHonest, HonestRecord, Starts
  <2>2. CASE n > 0
    BY <2>2, <1>1, <1>2, <1>10, Zenon DEF DownloadInv, RecordsAreHonest, HonestRecord, Starts
  <2> QED
    BY <2>1, <2>2, <1>7
<1>14. RemoteIsHonest'
  BY <1>1, <1>2, <1>3, <1>6, Zenon DEF RemoteIsHonest, Transferring
<1>15. ReadyToGet'
  BY <1>1, <1>3, <1>6, <1>7, <1>8, <1>9, <1>10, <1>11 DEF ReadyToGet, Starts
<1>16. TransferIsHonest'
  BY <1>1, <1>6, <1>9, Zenon DEF TransferIsHonest, Transferring
<1>17. WholeRecords'
  <2>1. CASE n = 0
    BY <2>1, <1>1, <1>3, <1>9 DEF WholeRecords, WholeIsKept, Whole, Transferring
  <2>2. CASE n > 0
    <3>1. WholeIsKept(record)' /\ WholeIsKept(durableRecord)'
      BY <2>2, <1>7, <1>8, <1>10, CutKeepsWhole, Zenon
         DEF DownloadInv, WholeRecords, WholeIsKept, Whole, Types, RecordsAreHonest, HonestRecord
    <3> QED
      <4>1. Whole(durableRecord)' => Whole(record)'
        BY <2>2, <1>10, Zenon DEF DownloadInv, WholeRecords, Whole
      <4>2. pc' = "get" => ~Whole(record)'
        BY <1>1, <1>9, Zenon DEF Whole
      <4>3. ~Transferring'
        BY <1>1, Zenon DEF Transferring
      <4> QED
        BY <3>1, <4>1, <4>2, <4>3, Zenon DEF WholeRecords
  <2> QED
    BY <2>1, <2>2, <1>7
<1>18. Complete'
  <2> SUFFICES ASSUME n = size PROVE Complete'
    BY <1>1, Zenon DEF Complete
  <2>1. n > 0 /\ etag # 0
    BY <1>3, <1>7
  <2>2. staged' = versions[etag]
    <3>1. versions[etag] \in Seq(Blocks) /\ Len(staged') = Len(versions[etag])
      BY <2>1, <1>8, <1>10, SMTT(30) DEF DownloadInv, Types, Current
    <3>2. \A i \in 1 .. Len(staged') : staged'[i] = versions[etag][i]
      BY <2>1, <1>11, Zenon DEF Starts
    <3>3. staged' \in Seq(Bytes)
      BY <1>8, Zenon
    <3> QED
      BY <3>1, <3>2, <3>3, EqualSequences, Zenon
  <2>3. kept' = Len(staged')
    <3>1. Whole(record) /\ Starts(record.hash, staged)
      BY <2>1, <1>3, <1>7, <1>10, Zenon DEF Whole, Starts
    <3>2. kept >= n /\ kept <= Len(staged)
      BY <2>1, <3>1, <1>7, Zenon DEF DownloadInv, WholeRecords, WholeIsKept, DiskAgrees
    <3>3. kept \in Nat /\ Len(staged) \in Nat
      BY DEF DownloadInv, Types
    <3> QED
      BY <3>2, <3>3, <1>7, <1>8
  <2> QED
    BY <2>1, <2>2, <2>3, <1>1, <1>2, <1>6, <1>10, Zenon DEF Complete
<1>19. GenuineRecords'
  <2>1. CASE n = 0
    BY <2>1, <1>8, <1>9 DEF GenuineRecords, Genuine
  <2>2. CASE n > 0
    <3>1. ASSUME Cooperative, etag = Current PROVE \A i \in 1 .. n : staged'[i] = versions[Current][i]
      BY <2>2, <3>1, <1>8, <1>11, Zenon DEF Starts
    <3>2. ASSUME Cooperative, etag = Current, size = Len(versions[Current]) PROVE n <= kept'
      <4>1. n <= kept
        BY <2>2, <3>2, <1>7, Zenon DEF DownloadInv, GenuineRecords, Genuine
      <4> QED
        BY <4>1, <1>7, <1>8
    <3>3. Cooperative /\ durableRecord.partial > 0 =>
            durableRecord.etag = etag /\ durableRecord.size = size /\ durableRecord.partial <= n
      BY <2>2, <1>7, Zenon DEF DownloadInv, GenuineRecords
    <3>4. durableRecord.partial \in Nat /\ kept' \in Nat
      BY <1>8, Zenon DEF DownloadInv, Types, Checkpoints
    <3>5. Cooperative => Genuine(record)'
      BY <1>1, <1>2, <1>9, <3>1, <3>2, Zenon DEF Genuine
    <3>6. Cooperative => Genuine(durableRecord)'
      BY <2>2, <1>1, <1>2, <1>10, <1>7, <3>1, <3>2, <3>3, <3>4 DEF Genuine
    <3> QED
      BY <2>2, <1>2, <1>9, <1>10, <3>3, <3>5, <3>6, Zenon DEF GenuineRecords
  <2> QED
    BY <2>1, <2>2, <1>7
<1> QED
  BY <1>8, <1>12, <1>13, <1>14, <1>15, <1>16, <1>17, <1>18, <1>19, Zenon DEF DownloadInv

(* The answer is of one version, and goes on where the staged bytes end. *)
LEMMA GetStep == DownloadInv /\ Get => DownloadInv'
<1> SUFFICES ASSUME DownloadInv, Get PROVE DownloadInv'
  OBVIOUS
<1>1. pc = "get" /\ UNCHANGED <<server, versions, record, durableRecord, remote, next, faults>>
  BY Zenon DEF Get
<1>2. /\ Current' = Current /\ (Cooperative' <=> Cooperative) /\ Tagged' = Tagged
      /\ Current \in Nat /\ Current >= 1
  BY <1>1 DEF DownloadInv, Types, Current, Cooperative, Sizes, Heads, Ranges, Tagged
<1>3. PICK answer \in Answers, tagged \in Tagged, length \in Lengths :
        IF ~Accepted(answer, tagged, length)
        THEN pc' = "idle" /\ UNCHANGED <<disk, partial, body, hash, mark>>
        ELSE /\ pc' = "read" /\ partial' = answer.from /\ mark' = answer.from /\ body' = answer.data
             /\ hash' = SubSeq(staged, 1, answer.from)
             /\ IF answer.status = 206 THEN UNCHANGED disk ELSE Truncate(0)
  BY Zenon DEF Get
<1>4. CASE ~Accepted(answer, tagged, length)
  <2>1. faults' \in Nat /\ UNCHANGED <<server, versions, disk, record, durableRecord, attempt>>
    BY <1>1, <1>3, <1>4, Zenon DEF attempt, DownloadInv, Types
  <2> QED
    BY <1>3, <1>4, <2>1, IdleStep, Zenon
<1>5. CASE Accepted(answer, tagged, length)
  <2> DEFINE data == versions[Current]
  <2>1. /\ data \in Seq(Blocks) /\ Len(data) \in Nat /\ Len(data) >= 1
        /\ staged \in Seq(Bytes) /\ durable \in Seq(Bytes) /\ kept \in Nat
        /\ record \in Checkpoints /\ remote.etag \in Nat /\ remote.size \in Nat /\ partial \in Nat
    BY <1>2 DEF DownloadInv, Types, Current
  <2>2. \/ answer = Answer(200, 0, data) /\ (Cooperative => partial = 0 \/ remote.etag # Current)
        \/ /\ partial > 0 /\ remote.etag = Current
           /\ \E to \in partial + 1 .. Len(data) :
                answer = Answer(206, partial, SubSeq(data, partial + 1, to))
    <3>1. PICK range \in Ranges :
            answer \in IF range /\ partial > 0 /\ remote.etag = Current
                       THEN {Answer(206, partial, SubSeq(data, partial + 1, to)) : to \in partial + 1 .. Len(data)}
                       ELSE {Answer(200, 0, data)}
      BY DEF Answers
    <3>2. Cooperative => range
      BY DEF Cooperative
    <3>3. CASE range /\ partial > 0 /\ remote.etag = Current
      BY <3>1, <3>3
    <3>4. CASE ~(range /\ partial > 0 /\ remote.etag = Current)
      BY <3>1, <3>2, <3>4, <2>1
    <3> QED
      BY <3>3, <3>4, Zenon
  <2>3. /\ remote.size >= 1 /\ remote.etag <= Current
        /\ partial = record.partial /\ partial = Len(staged) /\ partial < remote.size
        /\ record.etag = remote.etag /\ record.size = remote.size
        /\ partial > 0 => /\ remote.etag # 0 /\ Starts(staged, versions[remote.etag])
                          /\ remote.size = Len(versions[remote.etag])
    BY <1>1, Zenon DEF DownloadInv, RemoteIsHonest, ReadyToGet, TransferIsHonest
  <2>4. Tagged = {TRUE} /\ remote.etag # 0 => remote.etag = Current
    BY <1>5, <1>3 DEF Accepted
  <2>5. /\ pc' = "read" /\ partial' = answer.from /\ mark' = answer.from /\ body' = answer.data
        /\ hash' = SubSeq(staged, 1, answer.from)
        /\ IF answer.status = 206
           THEN UNCHANGED <<staged, durable, kept>>
           ELSE /\ staged' = SubSeq(staged, 1, 0) /\ kept' = (IF kept > 0 THEN 0 ELSE kept)
                /\ UNCHANGED durable
    BY <1>3, <1>5, Zenon DEF disk, Truncate
  <2> HIDE DEF data
  <2>6. /\ hash' = staged' /\ staged' \in Seq(Bytes) /\ kept' \in Nat /\ body' \in Seq(Blocks)
        /\ partial' \in Nat /\ durable' = durable /\ DiskAgrees'
        /\ Len(hash') <= remote.size /\ Starts(hash', data)
        /\ Len(hash') + Len(body') <= Len(data)
        /\ \A i \in 1 .. Len(body') : body'[i] = data[Len(hash') + i]
        /\ Len(hash') + Len(body') = Len(data) \/ remote.size = Len(data)
        /\ Cooperative => Len(hash') = partial /\ kept' = kept /\ (\A i \in 1 .. kept : staged'[i] = staged[i])
    <3>1. CASE answer = Answer(200, 0, data) /\ (Cooperative => partial = 0 \/ remote.etag # Current)
      <4>1. /\ partial' = 0 /\ body' = data /\ hash' = SubSeq(staged, 1, 0) /\ durable' = durable
            /\ staged' = SubSeq(staged, 1, 0) /\ kept' = (IF kept > 0 THEN 0 ELSE kept)
        BY <3>1, <2>5 DEF Answer
      <4>2. hash' = <<>> /\ staged' = <<>> /\ kept' = 0
        BY <4>1, <2>1
      <4>3. Cooperative => partial = 0
        BY <3>1, <2>3, <2>4 DEF Cooperative
      <4>4. partial = 0 => kept = 0
        BY <2>1, <2>3 DEF DownloadInv, DiskAgrees
      <4> QED
        BY <4>1, <4>2, <4>3, <4>4, <2>1 DEF Starts, DiskAgrees
    <3>2. CASE /\ partial > 0 /\ remote.etag = Current
               /\ \E to \in partial + 1 .. Len(data) :
                    answer = Answer(206, partial, SubSeq(data, partial + 1, to))
      <4>1. PICK to \in partial + 1 .. Len(data) :
                    answer = Answer(206, partial, SubSeq(data, partial + 1, to))
        BY <3>2, Zenon
      <4> DEFINE rest == SubSeq(data, partial + 1, to)
      <4>2. /\ rest \in Seq(Blocks) /\ Len(rest) = to - partial
            /\ \A i \in 1 .. to - partial : rest[i] = data[partial + i]
        <5>1. /\ data \in Seq(Blocks) /\ partial \in Nat /\ to \in Nat
              /\ partial <= to /\ to <= Len(data)
          BY <2>1
        <5> HIDE DEF data
        <5> QED
          BY <5>1, MiddleFacts, Zenon
      <4>3. SubSeq(staged, 1, partial) = staged
        BY <2>1, <2>3
      <4>4. /\ partial' = partial /\ body' = rest /\ hash' = staged
            /\ UNCHANGED <<staged, durable, kept>>
        BY <4>1, <4>3, <2>5, Zenon DEF Answer
      <4>5. Starts(staged, data) /\ remote.size = Len(data)
        BY <3>2, <2>3, Zenon DEF data
      <4> HIDE DEF rest
      <4>6. DiskAgrees'
        BY <4>4, Zenon DEF DownloadInv, DiskAgrees
      <4> QED
        BY <4>2, <4>4, <4>5, <4>6, <2>1, <2>3 DEF Starts
    <3> QED
      BY <2>2, <3>1, <3>2, Zenon DEF data
  <2>7. Types' /\ ControlTypes'
    BY <1>1, <1>2, <2>5, <2>6, SMTT(30) DEF DownloadInv, Types, ControlTypes
  <2>8. RecordsAreHonest'
    BY <1>1, <1>2, Zenon DEF DownloadInv, RecordsAreHonest, HonestRecord, Starts
  <2>9. RemoteIsHonest' /\ ReadyToGet' /\ Complete'
    BY <1>1, <1>2, <2>3, <2>5, Zenon DEF RemoteIsHonest, ReadyToGet, Complete, Transferring
  <2>10. TransferIsHonest'
    <3>1. Delivers(Current)'
      BY <1>1, <1>2, <2>3, <2>4, <2>6, Zenon DEF Delivers, data
    <3>2. \E v \in 1 .. Current' : Delivers(v)'
      BY <1>2, <3>1
    <3> QED
      BY <1>1, <1>2, <2>3, <2>5, <2>6, <3>2, SMTT(30) DEF TransferIsHonest, Transferring
  <2>11. WholeRecords'
    BY <1>1, <2>5, Zenon DEF DownloadInv, WholeRecords, WholeIsKept, Whole
  <2>12. GenuineRecords'
    <3>1. Cooperative => Genuine(record)' /\ Genuine(durableRecord)'
      <4>1. record.partial \in Nat /\ durableRecord.partial \in Nat
        BY Zenon DEF DownloadInv, Types, Checkpoints
      <4>2. ASSUME Cooperative, NEW p \in Nat, p <= kept, \A i \in 1 .. p : staged[i] = versions[Current][i]
            PROVE  p <= kept' /\ \A i \in 1 .. p : staged'[i] = versions[Current][i]
        <5>1. kept' = kept /\ \A i \in 1 .. kept : staged'[i] = staged[i]
          BY <4>2, <2>6, Zenon
        <5>2. kept \in Nat /\ \A i \in 1 .. p : i \in 1 .. kept
          BY <4>2, <2>1
        <5> QED
          BY <4>2, <5>1, <5>2, Zenon
      <4> QED
        BY <4>1, <4>2, <1>1, <1>2, Zenon DEF DownloadInv, GenuineRecords, Genuine
    <3> QED
      BY <1>1, <1>2, <3>1, Zenon DEF DownloadInv, GenuineRecords
  <2> QED
    BY <2>6, <2>7, <2>8, <2>9, <2>10, <2>11, <2>12, Zenon DEF DownloadInv
<1> QED
  BY <1>4, <1>5, Zenon

----------------------------------------------------------------------------
(* The transfer itself, the server's steps and the crashes. *)

(* A block goes from the answer to the staged file. *)
LEMMA ReadBlockStep == DownloadInv /\ ReadBlock => DownloadInv'
<1> SUFFICES ASSUME DownloadInv, ReadBlock PROVE DownloadInv'
  OBVIOUS
<1> DEFINE b == Head(body)
<1>1. /\ pc = "read" /\ body # <<>> /\ Len(hash) < remote.size
      /\ staged' = Append(staged, b) /\ hash' = Append(hash, b) /\ body' = Tail(body)
      /\ mark' \in {mark, Len(Append(hash, b))}
      /\ (pc' = "sync" /\ next' = "read") \/ (pc' = "read" /\ next' = next)
      /\ UNCHANGED <<server, versions, durable, kept, record, durableRecord, remote, partial, faults>>
  BY Zenon DEF ReadBlock, Persist
<1>2. /\ Current' = Current /\ (Cooperative' <=> Cooperative) /\ Tagged' = Tagged
      /\ Current \in Nat /\ Current >= 1
  BY <1>1 DEF DownloadInv, Types, Current, Cooperative, Sizes, Heads, Ranges, Tagged
<1>3. /\ staged \in Seq(Bytes) /\ hash \in Seq(Bytes) /\ body \in Seq(Blocks) /\ kept \in Nat
      /\ record \in Checkpoints /\ durableRecord \in Checkpoints /\ remote.size \in Nat
  BY Zenon DEF DownloadInv, Types
<1>4. /\ body' \in Seq(Blocks) /\ Len(body') = Len(body) - 1 /\ Len(body) >= 1
      /\ b \in Bytes /\ b = body[1] /\ \A i \in 1 .. Len(body) - 1 : body'[i] = body[i + 1]
  BY <1>1, <1>3, TailFacts, Zenon DEF Bytes
<1>5. PICK v \in 1 .. Current : Delivers(v)
  BY <1>1, Zenon DEF DownloadInv, TransferIsHonest, Transferring
<1>6. /\ staged = hash /\ (Cooperative => record.partial <= Len(hash))
      /\ record.etag = remote.etag /\ record.size = remote.size
  BY <1>1, Zenon DEF DownloadInv, TransferIsHonest, Transferring
<1> HIDE DEF b
<1>7. /\ hash' \in Seq(Bytes) /\ Len(hash') = Len(hash) + 1 /\ staged' = hash'
      /\ (\A i \in 1 .. Len(hash) : hash'[i] = hash[i]) /\ hash'[Len(hash) + 1] = b
  BY <1>1, <1>3, <1>4, <1>6, AppendFacts
<1>8. Types' /\ ControlTypes'
  <2>1. mark' \in Nat
    BY <1>1, <1>7 DEF DownloadInv, Types
  <2> QED
    BY <1>1, <1>2, <1>4, <1>7, <2>1, Zenon DEF DownloadInv, Types, ControlTypes
<1>9. DiskAgrees'
  BY <1>1, <1>3, <1>6, <1>7 DEF DownloadInv, DiskAgrees
<1>10. RecordsAreHonest'
  BY <1>1, <1>2, Zenon DEF DownloadInv, RecordsAreHonest, HonestRecord, Starts
<1>11. RemoteIsHonest' /\ ReadyToGet' /\ Complete'
  BY <1>1, <1>2, Zenon DEF DownloadInv, RemoteIsHonest, ReadyToGet, Complete, Transferring
<1>12. TransferIsHonest'
  <2>1. /\ remote.etag <= v /\ (Tagged = {TRUE} /\ remote.etag # 0 => v = remote.etag)
        /\ Len(hash) <= Len(versions[v]) /\ (\A i \in 1 .. Len(hash) : hash[i] = versions[v][i])
        /\ Len(hash) + Len(body) <= Len(versions[v])
        /\ \A i \in 1 .. Len(body) : body[i] = versions[v][Len(hash) + i]
        /\ Len(hash) + Len(body) = Len(versions[v]) \/ remote.size = Len(versions[v])
    BY <1>5, Zenon DEF Delivers, Starts
  <2>2. Len(hash) \in Nat /\ Len(body) \in Nat /\ Len(versions[v]) \in Nat
    BY <1>3 DEF DownloadInv, Types, Current
  <2>3. Len(hash') + Len(body') = Len(hash) + Len(body)
    BY <1>4, <1>7, <2>2
  <2>4. Starts(hash', versions[v])
    <3>1. hash'[Len(hash) + 1] = versions[v][Len(hash) + 1]
      <4>1. body[1] = versions[v][Len(hash) + 1]
        BY <1>4, <2>1, <2>2
      <4> QED
        BY <4>1, <1>4, <1>7, Zenon
    <3>2. Len(hash') <= Len(versions[v])
      BY <1>4, <1>7, <2>1, <2>2
    <3>3. \A i \in 1 .. Len(hash') : hash'[i] = versions[v][i]
      <4> SUFFICES ASSUME NEW i \in 1 .. Len(hash') PROVE hash'[i] = versions[v][i]
        OBVIOUS
      <4>1. i \in 1 .. Len(hash) \/ i = Len(hash) + 1
        BY <1>7, <2>2
      <4> QED
        BY <4>1, <3>1, <1>7, <2>1, Zenon
    <3> QED
      BY <3>2, <3>3, Zenon DEF Starts
  <2>5. \A i \in 1 .. Len(body') : body'[i] = versions[v][Len(hash') + i]
    <3> SUFFICES ASSUME NEW i \in 1 .. Len(body') PROVE body'[i] = versions[v][Len(hash') + i]
      OBVIOUS
    <3>1. i + 1 \in 1 .. Len(body) /\ body'[i] = body[i + 1] /\ Len(hash) + (i + 1) = Len(hash') + i
      BY <1>4, <1>7, <2>2
    <3> QED
      BY <3>1, <2>1, Zenon
  <2>6. Delivers(v)'
    BY <1>1, <1>2, <2>1, <2>3, <2>4, <2>5, Zenon DEF Delivers, Starts
  <2>7. \E w \in 1 .. Current' : Delivers(w)'
    BY <1>2, <2>6, Zenon
  <2> QED
    <3>1. Len(hash') <= remote.size
      BY <1>1, <1>3, <1>7, <2>2
    <3>2. record.partial \in Nat
      BY <1>3, Zenon DEF Checkpoints
    <3>3. record.partial <= Len(hash) => record.partial <= Len(hash')
      BY <1>7, <2>2, <3>2
    <3> QED
      BY <1>1, <1>2, <1>6, <1>7, <2>7, <3>1, <3>3, Zenon DEF TransferIsHonest, Transferring
<1>13. WholeRecords'
  BY <1>1, <1>3 DEF DownloadInv, WholeRecords, WholeIsKept, Whole, Transferring
<1>14. GenuineRecords'
  <2>1. ASSUME NEW p \in Nat, p <= kept, \A i \in 1 .. p : staged[i] = versions[Current][i]
        PROVE  p <= kept' /\ \A i \in 1 .. p : staged'[i] = versions[Current][i]
    BY <2>1, <1>1, <1>3, <1>6, <1>7 DEF DownloadInv, DiskAgrees
  <2>2. record.partial \in Nat /\ durableRecord.partial \in Nat
    BY <1>3, Zenon DEF Checkpoints
  <2>3. Cooperative => Genuine(record)' /\ Genuine(durableRecord)'
    BY <1>1, <1>2, <2>1, <2>2, Zenon DEF DownloadInv, GenuineRecords, Genuine
  <2> QED
    BY <1>1, <1>2, <2>3, Zenon DEF DownloadInv, GenuineRecords
<1> QED
  BY <1>8, <1>9, <1>10, <1>11, <1>12, <1>13, <1>14, Zenon DEF DownloadInv

(* The transfer pauses for a checkpoint, at the end of the answer or when  *)
(* the connection is lost.                                                 *)
LEMMA PersistStep ==
  ASSUME DownloadInv, pc = "read", pc' = "sync", next' \in {"idle", "finish"},
         next' = "finish" => body = <<>>, faults' \in Nat,
         UNCHANGED <<server, versions, disk, record, durableRecord, remote, partial, body, hash, mark>>
  PROVE  DownloadInv'
<1>1. UNCHANGED <<server, versions, staged, durable, kept, record, durableRecord>>
  BY Zenon DEF disk
<1>2. /\ Current' = Current /\ (Cooperative' <=> Cooperative) /\ Tagged' = Tagged
  BY Zenon DEF Current, Cooperative, Sizes, Heads, Ranges, Tagged
<1>3. Types' /\ ControlTypes'
  BY <1>1, <1>2, Zenon DEF DownloadInv, Types, ControlTypes
<1>4. DiskAgrees' /\ RecordsAreHonest'
  BY <1>1, <1>2, Zenon DEF DownloadInv, DiskAgrees, RecordsAreHonest, HonestRecord, Starts
<1>5. RemoteIsHonest' /\ ReadyToGet' /\ Complete'
  BY <1>1, <1>2, Zenon DEF DownloadInv, RemoteIsHonest, ReadyToGet, Complete, Transferring
<1>6. TransferIsHonest'
  <2>1. PICK v \in 1 .. Current : Delivers(v)
    BY Zenon DEF DownloadInv, TransferIsHonest, Transferring
  <2>2. Delivers(v)'
    BY <1>1, <1>2, <2>1, Zenon DEF Delivers, Starts
  <2>3. \E w \in 1 .. Current' : Delivers(w)'
    BY <1>2, <2>2, Zenon
  <2> QED
    BY <1>1, <1>2, <2>3, Zenon DEF DownloadInv, TransferIsHonest, Transferring
<1>7. WholeRecords'
  BY <1>1 DEF DownloadInv, WholeRecords, WholeIsKept, Whole, Starts, Transferring
<1>8. GenuineRecords'
  BY <1>1, <1>2, Zenon DEF DownloadInv, GenuineRecords, Genuine
<1> QED
  BY <1>3, <1>4, <1>5, <1>6, <1>7, <1>8, Zenon DEF DownloadInv

(* The staged file is synced. *)
LEMMA SyncFileStep == DownloadInv /\ SyncFile => DownloadInv'
<1> SUFFICES ASSUME DownloadInv, SyncFile PROVE DownloadInv'
  OBVIOUS
<1>1. /\ pc = "sync" /\ pc' = "record" /\ staged' = staged /\ durable' = staged /\ kept' = Len(staged)
      /\ UNCHANGED <<server, versions, record, durableRecord, faults>>
      /\ UNCHANGED <<remote, partial, body, hash, mark, next>>
  BY Zenon DEF SyncFile, Sync, attempt
<1>2. /\ Current' = Current /\ (Cooperative' <=> Cooperative) /\ Tagged' = Tagged
  BY <1>1, Zenon DEF Current, Cooperative, Sizes, Heads, Ranges, Tagged
<1>3. staged \in Seq(Bytes) /\ Len(staged) \in Nat /\ kept \in Nat /\ kept <= Len(staged)
  BY DEF DownloadInv, Types, DiskAgrees
<1>4. Types' /\ ControlTypes'
  BY <1>1, <1>2, <1>3, Zenon DEF DownloadInv, Types, ControlTypes
<1>5. DiskAgrees' /\ RecordsAreHonest'
  BY <1>1, <1>2, <1>3 DEF DownloadInv, DiskAgrees, RecordsAreHonest, HonestRecord, Starts
<1>6. RemoteIsHonest' /\ ReadyToGet' /\ Complete'
  BY <1>1, <1>2, Zenon DEF DownloadInv, RemoteIsHonest, ReadyToGet, Complete, Transferring
<1>7. TransferIsHonest'
  <2>1. PICK v \in 1 .. Current : Delivers(v)
    BY <1>1, Zenon DEF DownloadInv, TransferIsHonest, Transferring
  <2>2. Delivers(v)'
    BY <1>1, <1>2, <2>1, Zenon DEF Delivers, Starts
  <2>3. \E w \in 1 .. Current' : Delivers(w)'
    BY <1>2, <2>2, Zenon
  <2> QED
    BY <1>1, <1>2, <2>3, Zenon DEF DownloadInv, TransferIsHonest, Transferring
<1>8. WholeRecords'
  <2>1. WholeIsKept(record)' /\ WholeIsKept(durableRecord)'
    BY <1>1, Zenon DEF DownloadInv, RecordsAreHonest, HonestRecord, WholeIsKept, Starts
  <2> QED
    BY <1>1, <2>1, Zenon DEF DownloadInv, WholeRecords, Whole, Transferring
<1>9. GenuineRecords'
  <2>1. record.partial \in Nat /\ durableRecord.partial \in Nat
    BY Zenon DEF DownloadInv, Types, Checkpoints
  <2>2. Cooperative => Genuine(record)' /\ Genuine(durableRecord)'
    BY <1>1, <1>2, <1>3, <2>1 DEF DownloadInv, GenuineRecords, Genuine
  <2> QED
    BY <1>1, <1>2, <2>2, Zenon DEF DownloadInv, GenuineRecords
<1> QED
  BY <1>4, <1>5, <1>6, <1>7, <1>8, <1>9, Zenon DEF DownloadInv

(* What the record of the synced bytes is worth. *)
LEMMA NewRecordFacts ==
  ASSUME DownloadInv, pc = "record"
  PROVE  /\ NewRecord \in Checkpoints /\ HonestRecord(NewRecord)
         /\ NewRecord.etag = remote.etag /\ NewRecord.size = remote.size
         /\ NewRecord.hash = staged /\ NewRecord.partial = Len(staged) /\ Len(staged) = Len(hash)
         /\ kept = Len(staged) /\ remote.size >= 1
         /\ remote.etag = Current => \A i \in 1 .. Len(staged) : staged[i] = versions[Current][i]
<1>1. /\ staged = hash /\ Len(hash) <= remote.size /\ kept = Len(staged)
      /\ remote.size >= 1 /\ remote.etag <= Current
  BY Zenon DEF DownloadInv, TransferIsHonest, RemoteIsHonest, Transferring
<1>2. PICK v \in 1 .. Current : Delivers(v)
  BY Zenon DEF DownloadInv, TransferIsHonest, Transferring
<1>3. /\ hash \in Seq(Bytes) /\ Len(hash) \in Nat /\ remote.etag \in Nat /\ remote.size \in Nat
      /\ Current \in Nat
  BY DEF DownloadInv, Types, Current
<1>4. NewRecord \in Checkpoints
  BY <1>3, Zenon DEF NewRecord, Checkpoints
<1>5. remote.etag = Current => Starts(hash, versions[Current])
  <2>1. remote.etag = Current => v = Current
    BY <1>2, <1>3 DEF Delivers
  <2> QED
    BY <2>1, <1>2, Zenon DEF Delivers
<1> QED
  BY <1>1, <1>3, <1>4, <1>5, Zenon DEF NewRecord, HonestRecord, Starts

(* The record is written, and the directory with it or not. *)
LEMMA RecordStep ==
  ASSUME DownloadInv, pc = "record", record' = NewRecord,
         \/ durableRecord' = NewRecord /\ pc' = next
         \/ durableRecord' = durableRecord /\ pc' = "idle",
         faults' \in Nat, UNCHANGED <<server, versions, disk, attempt>>
  PROVE  DownloadInv'
<1>1. /\ UNCHANGED <<server, versions, staged, durable, kept>>
      /\ UNCHANGED <<remote, partial, body, hash, mark, next>>
  BY Zenon DEF disk, attempt
<1>2. Current' = Current /\ (Cooperative' <=> Cooperative) /\ Tagged' = Tagged
  BY <1>1, Zenon DEF Current, Cooperative, Sizes, Heads, Ranges, Tagged
<1>3. /\ NewRecord \in Checkpoints /\ HonestRecord(NewRecord)
      /\ NewRecord.etag = remote.etag /\ NewRecord.size = remote.size
      /\ NewRecord.hash = staged /\ NewRecord.partial = Len(staged) /\ Len(staged) = Len(hash)
      /\ kept = Len(staged) /\ remote.size >= 1
      /\ remote.etag = Current => \A i \in 1 .. Len(staged) : staged[i] = versions[Current][i]
  BY NewRecordFacts, Zenon
<1>4. Types' /\ ControlTypes'
  BY <1>1, <1>2, <1>3, Zenon DEF DownloadInv, Types, ControlTypes
<1>5. DiskAgrees' /\ RecordsAreHonest'
  <2>1. DiskAgrees'
    BY <1>1, Zenon DEF DownloadInv, DiskAgrees
  <2> QED
    <3>1. \A r : HonestRecord(r) => HonestRecord(r)'
      BY <1>1, <1>2, Zenon DEF HonestRecord, Starts
    <3> QED
      BY <1>3, <2>1, <3>1, Zenon DEF DownloadInv, RecordsAreHonest
<1>6. pc' \in {"idle", "read", "finish"} /\ (pc' = "finish" => next = "finish")
  BY Zenon DEF DownloadInv, ControlTypes
<1>7. RemoteIsHonest' /\ ReadyToGet' /\ Complete'
  BY <1>1, <1>2, <1>6, Zenon DEF DownloadInv, RemoteIsHonest, ReadyToGet, Complete, Transferring
<1>8. TransferIsHonest'
  <2>1. PICK v \in 1 .. Current : Delivers(v)
    BY <1>1, Zenon DEF DownloadInv, TransferIsHonest, Transferring
  <2>2. Delivers(v)'
    BY <1>1, <1>2, <2>1, Zenon DEF Delivers, Starts
  <2>3. \E w \in 1 .. Current' : Delivers(w)'
    BY <1>2, <2>2, Zenon
  <2> QED
    BY <1>1, <1>2, <1>3, <1>6, <2>3 DEF DownloadInv, TransferIsHonest, Transferring
<1>9. WholeRecords'
  <2>1. /\ WholeIsKept(record)' /\ WholeIsKept(durableRecord)'
    BY <1>1, <1>3 DEF DownloadInv, WholeRecords, WholeIsKept, Whole, Starts
  <2>2. Whole(durableRecord)' => Whole(record)'
    BY <1>1, <1>3, Zenon DEF DownloadInv, WholeRecords, Whole, Transferring
  <2> QED
    BY <1>1, <1>3, <1>6, <2>1, <2>2, Zenon DEF WholeRecords, Whole, Transferring
<1>10. GenuineRecords'
  <2>1. Genuine(record)'
    BY <1>1, <1>2, <1>3 DEF Genuine
  <2>2. Cooperative => Genuine(durableRecord)'
    BY <1>1, <1>2, <1>3 DEF DownloadInv, GenuineRecords, Genuine
  <2>3. /\ record.etag = remote.etag /\ record.size = remote.size
        /\ Cooperative => record.partial <= Len(hash)
    BY Zenon DEF DownloadInv, TransferIsHonest, Transferring
  <2>4. record.partial \in Nat /\ durableRecord.partial \in Nat /\ Len(hash) \in Nat
    BY DEF DownloadInv, Types, Checkpoints
  <2>5. GenuineRecords
    BY Zenon DEF DownloadInv
  <2> QED
    <3>1. ASSUME Cooperative, durableRecord'.partial > 0
          PROVE  /\ durableRecord'.etag = record'.etag /\ durableRecord'.size = record'.size
                 /\ durableRecord'.partial <= record'.partial
      <4>1. CASE durableRecord' = NewRecord
        <5>1. NewRecord.partial <= NewRecord.partial
          BY <1>3, <2>4
        <5> QED
          BY <4>1, <5>1, Zenon
      <4>2. CASE durableRecord' = durableRecord
        <5>1. /\ durableRecord.etag = record.etag /\ durableRecord.size = record.size
              /\ durableRecord.partial <= record.partial
          BY <2>5, <3>1, <4>2, Zenon DEF GenuineRecords
        <5>2. durableRecord.partial <= NewRecord.partial
          BY <1>3, <2>3, <2>4, <3>1, <5>1
        <5> QED
          BY <1>3, <2>3, <4>2, <5>1, <5>2, Zenon
      <4> QED
        BY <4>1, <4>2, Zenon
    <3> QED
      BY <1>2, <2>1, <2>2, <3>1, Zenon DEF GenuineRecords
<1> QED
  BY <1>4, <1>5, <1>7, <1>8, <1>9, <1>10, Zenon DEF DownloadInv

(* A download ends if all of it has arrived. *)
LEMMA FinishStep == DownloadInv /\ Finish => DownloadInv'
<1> SUFFICES ASSUME DownloadInv, Finish PROVE DownloadInv'
  OBVIOUS
<1>1. /\ pc = "finish" /\ pc' = (IF Len(staged) = remote.size THEN "done" ELSE "idle")
      /\ UNCHANGED <<server, versions, disk, record, durableRecord, attempt, faults>>
  BY Zenon DEF Finish
<1>2. CASE Len(staged) # remote.size
  <2>1. faults' \in Nat
    BY <1>1, Zenon DEF DownloadInv, Types
  <2> QED
    BY <1>1, <1>2, <2>1, IdleStep, Zenon
<1>3. CASE Len(staged) = remote.size
  <2>1. /\ pc' = "done" /\ UNCHANGED <<server, versions, staged, durable, kept, record, durableRecord>>
        /\ UNCHANGED <<remote, partial, body, hash, mark, next, faults>>
    BY <1>1, <1>3, Zenon DEF disk, attempt
  <2>2. Current' = Current /\ (Cooperative' <=> Cooperative) /\ Tagged' = Tagged
    BY <2>1, Zenon DEF Current, Cooperative, Sizes, Heads, Ranges, Tagged
  <2>3. Types' /\ ControlTypes'
    BY <2>1, <2>2, Zenon DEF DownloadInv, Types, ControlTypes
  <2>4. DiskAgrees' /\ RecordsAreHonest'
    BY <2>1, <2>2, Zenon DEF DownloadInv, DiskAgrees, RecordsAreHonest, HonestRecord, Starts
  <2>5. RemoteIsHonest' /\ ReadyToGet' /\ TransferIsHonest'
    BY <1>1, <2>1, <2>2, Zenon DEF DownloadInv, RemoteIsHonest, ReadyToGet, TransferIsHonest, Transferring
  <2>6. Complete'
    <3>1. PICK v \in 1 .. Current : Delivers(v)
      BY <1>1, Zenon DEF DownloadInv, TransferIsHonest, Transferring
    <3>2. staged = hash /\ body = <<>> /\ kept = Len(staged)
      BY <1>1, Zenon DEF DownloadInv, TransferIsHonest, Transferring
    <3>3. staged \in Seq(Bytes) /\ versions[v] \in Seq(Blocks) /\ Len(staged) \in Nat
      BY DEF DownloadInv, Types, Current
    <3>4. Len(staged) = Len(versions[v]) /\ \A i \in 1 .. Len(staged) : staged[i] = versions[v][i]
      BY <1>3, <3>1, <3>2, <3>3 DEF Delivers, Starts
    <3>5. staged = versions[v]
      BY <3>3, <3>4, EqualSequences, Zenon
    <3>6. Tagged = {TRUE} /\ remote.etag # 0 => v = remote.etag
      BY <3>1, Zenon DEF Delivers
    <3> QED
      BY <2>1, <2>2, <3>2, <3>5, <3>6, Zenon DEF Complete
  <2>7. WholeRecords'
    BY <2>1, Zenon DEF DownloadInv, WholeRecords, WholeIsKept, Whole, Starts, Transferring
  <2>8. GenuineRecords'
    BY <2>1, <2>2, Zenon DEF DownloadInv, GenuineRecords, Genuine
  <2> QED
    BY <2>3, <2>4, <2>5, <2>6, <2>7, <2>8, Zenon DEF DownloadInv
<1> QED
  BY <1>2, <1>3, Zenon

(* A new version makes every ETag on record an old one. *)
LEMMA ServerStep ==
  ASSUME DownloadInv, NEW content \in Contents, ServerChanges(content)
  PROVE  DownloadInv'
<1>1. /\ versions' = Append(versions, content)
      /\ UNCHANGED <<server, staged, durable, kept, record, durableRecord, pc, faults>>
      /\ UNCHANGED <<remote, partial, body, hash, mark, next>>
  BY Zenon DEF ServerChanges, disk, attempt
<1>2. content \in Seq(Blocks) /\ Len(content) >= 1
  <2>1. content \in Seq(Blocks) /\ content # <<>>
    BY HubAssumption, Zenon
  <2> QED
    BY <2>1
<1>3. /\ versions' \in Seq(Seq(Blocks)) /\ Current' = Current + 1 /\ Current \in Nat /\ Current >= 1
      /\ versions'[Current + 1] = content /\ \A v \in 1 .. Current : versions'[v] = versions[v]
  BY <1>1, <1>2, AppendFacts DEF DownloadInv, Types, Current
<1>4. (Cooperative' <=> Cooperative) /\ Tagged' = Tagged
  BY <1>1, Zenon DEF Cooperative, Sizes, Heads, Ranges, Tagged
<1>5. Types' /\ ControlTypes'
  <2>1. \A v \in 1 .. Current' : Len(versions'[v]) >= 1
    <3> SUFFICES ASSUME NEW v \in 1 .. Current' PROVE Len(versions'[v]) >= 1
      OBVIOUS
    <3>1. v \in 1 .. Current \/ v = Current + 1
      BY <1>3
    <3> QED
      BY <3>1, <1>2, <1>3, Zenon DEF DownloadInv, Types
  <2>2. Current' >= 1
    BY <1>3
  <2>3. ControlTypes'
    BY <1>1, Zenon DEF DownloadInv, ControlTypes
  <2> QED
    BY <1>1, <1>3, <2>1, <2>2, <2>3, Zenon DEF DownloadInv, Types
<1>6. record.etag \in Nat /\ durableRecord.etag \in Nat /\ remote.etag \in Nat
  BY Zenon DEF DownloadInv, Types, Checkpoints
<1>7. record.etag <= Current /\ durableRecord.etag <= Current
  BY Zenon DEF DownloadInv, RecordsAreHonest, HonestRecord
<1>8. DiskAgrees' /\ RecordsAreHonest'
  <2>1. DiskAgrees'
    BY <1>1, Zenon DEF DownloadInv, DiskAgrees
  <2>2. /\ record.etag <= Current' /\ record.etag # Current'
        /\ durableRecord.etag <= Current' /\ durableRecord.etag # Current'
    BY <1>3, <1>6, <1>7
  <2>3. HonestRecord(record)' /\ HonestRecord(durableRecord)'
    BY <1>1, <2>2, Zenon DEF DownloadInv, RecordsAreHonest, HonestRecord
  <2> QED
    BY <2>1, <2>2, <2>3, Zenon DEF RecordsAreHonest
<1>9. RemoteIsHonest'
  <2>1. (pc = "preflight" /\ remote.size # 0 =>
           \E v \in 1 .. Current : remote.size = Len(versions[v]) /\ record.etag <= v)'
    <3> SUFFICES ASSUME pc = "preflight", remote.size # 0
                 PROVE  \E v \in 1 .. Current + 1 : remote.size = Len(versions'[v]) /\ record.etag <= v
      BY <1>1, <1>3, Zenon
    <3>1. PICK v \in 1 .. Current : remote.size = Len(versions[v]) /\ record.etag <= v
      BY Zenon DEF DownloadInv, RemoteIsHonest
    <3> QED
      BY <3>1, <1>3
  <2>2. (pc \in {"begin", "get", "done"} \/ Transferring => remote.size >= 1 /\ remote.etag <= Current)'
    BY <1>1, <1>3, <1>6 DEF DownloadInv, RemoteIsHonest, Transferring
  <2>3. (pc = "begin" /\ remote.etag # 0 /\ record.etag = remote.etag /\ record.size = remote.size =>
           Starts(record.hash, versions[remote.etag]) /\ remote.size = Len(versions[remote.etag]))'
    <3> SUFFICES ASSUME pc = "begin", remote.etag # 0, record.etag = remote.etag,
                        record.size = remote.size
                 PROVE  /\ Starts(record.hash, versions'[remote.etag])
                        /\ remote.size = Len(versions'[remote.etag])
      BY <1>1, Zenon DEF Starts
    <3>1. versions'[remote.etag] = versions[remote.etag]
      BY <1>3, <1>6, <1>7
    <3> QED
      BY <3>1, Zenon DEF DownloadInv, RemoteIsHonest
  <2> QED
    BY <2>1, <2>2, <2>3, Zenon DEF RemoteIsHonest
<1>10. ReadyToGet'
  <2> SUFFICES ASSUME pc = "get" PROVE ReadyToGet'
    BY <1>1, Zenon DEF ReadyToGet
  <2>1. remote.etag # 0 => versions'[remote.etag] = versions[remote.etag]
    <3>1. remote.etag <= Current
      BY Zenon DEF DownloadInv, RemoteIsHonest
    <3> QED
      BY <3>1, <1>3, <1>6
  <2> QED
    BY <1>1, <2>1, Zenon DEF DownloadInv, ReadyToGet, Starts
<1>11. TransferIsHonest'
  <2>1. ASSUME Transferring PROVE \E w \in 1 .. Current' : Delivers(w)'
    <3>1. PICK v \in 1 .. Current : Delivers(v)
      BY <2>1, Zenon DEF DownloadInv, TransferIsHonest
    <3>2. versions'[v] = versions[v] /\ v \in 1 .. Current'
      BY <1>3
    <3>3. Delivers(v)'
      BY <1>1, <1>4, <3>1, <3>2, Zenon DEF Delivers, Starts
    <3> QED
      BY <3>2, <3>3, Zenon
  <2> QED
    BY <1>1, <1>4, <2>1, Zenon DEF DownloadInv, TransferIsHonest, Transferring
<1>12. WholeRecords'
  BY <1>1, Zenon DEF DownloadInv, WholeRecords, WholeIsKept, Whole, Starts, Transferring
<1>13. Complete'
  <2> SUFFICES ASSUME pc = "done" PROVE Complete'
    BY <1>1, Zenon DEF Complete
  <2>1. PICK v \in 1 .. Current : /\ staged = versions[v]
                                  /\ Tagged = {TRUE} /\ remote.etag # 0 => v = remote.etag
    BY Zenon DEF DownloadInv, Complete
  <2>2. v \in 1 .. Current' /\ versions'[v] = versions[v]
    BY <1>3
  <2>3. kept = Len(staged)
    BY Zenon DEF DownloadInv, Complete
  <2> QED
    BY <1>1, <1>4, <2>1, <2>2, <2>3, Zenon DEF Complete
<1>14. GenuineRecords'
  <2>1. Genuine(record)' /\ Genuine(durableRecord)'
    BY <1>1, <1>3, <1>6, <1>7 DEF Genuine
  <2> QED
    BY <1>1, <1>4, <2>1, Zenon DEF DownloadInv, GenuineRecords
<1> QED
  BY <1>5, <1>8, <1>9, <1>10, <1>11, <1>12, <1>13, <1>14, Zenon DEF DownloadInv

(* What a crash leaves begins with the blocks that were kept. *)
LEMMA RemainsFacts ==
  ASSUME NEW s \in Seq(Bytes), NEW w \in Seq(Bytes), NEW k \in Nat, k <= Len(s), k <= Len(w),
         NEW r \in Remains(s, w, k)
  PROVE  r \in Seq(Bytes) /\ k <= Len(r) /\ \A i \in 1 .. k : r[i] = s[i]
<1> DEFINE long == IF Len(s) > Len(w) THEN Len(s) ELSE Len(w)
           Block(i) == IF i <= k THEN {s[i]}
                       ELSE {Garbage} \cup (IF i <= Len(s) THEN {s[i]} ELSE {})
                                      \cup (IF i <= Len(w) THEN {w[i]} ELSE {})
           Rest == UNION {Block(i) : i \in 1 .. long}
<1>1. long \in Nat
  OBVIOUS
<1>2. \A i \in 1 .. long : Block(i) \subseteq Bytes
  BY DEF Bytes
<1>3. r \in UNION {[1 .. n -> Rest] : n \in k .. long} /\ \A i \in DOMAIN r : r[i] \in Block(i)
  BY Zenon DEF Remains
<1>4. \A i \in 1 .. k : Block(i) = {s[i]}
  OBVIOUS
<1> HIDE DEF Block, long
<1>5. Rest \subseteq Bytes
  BY <1>2, Zenon
<1>6. PICK n \in k .. long : r \in [1 .. n -> Rest]
  BY <1>3, Zenon
<1>7. n \in Nat /\ k <= n
  BY <1>1
<1>8. r \in [1 .. n -> Bytes] /\ DOMAIN r = 1 .. n
  BY <1>5, <1>6, Zenon
<1>9. r \in Seq(Bytes) /\ Len(r) = n
  BY <1>7, <1>8
<1>10. \A i \in 1 .. k : r[i] = s[i]
  <2> SUFFICES ASSUME NEW i \in 1 .. k PROVE r[i] = s[i]
    OBVIOUS
  <2>1. i \in DOMAIN r
    BY <1>7, <1>8
  <2> QED
    BY <2>1, <1>3, <1>4, Zenon
<1> QED
  BY <1>7, <1>9, <1>10, Zenon

(* After a crash the blocks that were synced and not written since are there. *)
LEMMA NodeCrashStep == DownloadInv /\ NodeCrash => DownloadInv'
<1> SUFFICES ASSUME DownloadInv, NodeCrash PROVE DownloadInv'
  OBVIOUS
<1>1. /\ pc' = "idle" /\ UNCHANGED <<server, versions>> /\ faults' = faults - 1 /\ faults > 0
      /\ UNCHANGED <<remote, partial, body, hash, mark, next>>
  BY Zenon DEF NodeCrash, Fault, attempt
<1>2. PICK content \in Remains(durable, staged, kept) :
        staged' = content /\ durable' = content /\ kept' = Len(content)
  BY Zenon DEF NodeCrash, Sync
<1>3. \/ record' = record /\ durableRecord' = record
      \/ record' = durableRecord /\ durableRecord' = durableRecord
  BY Zenon DEF NodeCrash, writeResumeCheckpoint
<1>4. Current' = Current /\ (Cooperative' <=> Cooperative)
  BY <1>1, Zenon DEF Current, Cooperative, Sizes, Heads, Ranges, Tagged
<1>5. /\ staged \in Seq(Bytes) /\ durable \in Seq(Bytes) /\ kept \in Nat
      /\ kept <= Len(durable) /\ kept <= Len(staged) /\ \A i \in 1 .. kept : durable[i] = staged[i]
  BY Zenon DEF DownloadInv, Types, DiskAgrees
<1>6. /\ content \in Seq(Bytes) /\ Len(content) \in Nat /\ kept <= Len(content)
      /\ \A i \in 1 .. kept : content[i] = staged[i]
  <2>1. content \in Seq(Bytes) /\ kept <= Len(content) /\ \A i \in 1 .. kept : content[i] = durable[i]
    BY <1>5, RemainsFacts, Zenon
  <2> QED
    BY <2>1, <1>5
<1>7. Types' /\ ControlTypes'
  <2>1. faults' \in Nat
    BY <1>1 DEF DownloadInv, Types
  <2> QED
    BY <1>1, <1>2, <1>3, <1>4, <1>6, <2>1, Zenon DEF DownloadInv, Types, ControlTypes
<1>8. DiskAgrees' /\ RecordsAreHonest'
  <2>1. DiskAgrees'
    BY <1>2, <1>6 DEF DiskAgrees
  <2> QED
    BY <1>1, <1>3, <1>4, <2>1, Zenon DEF DownloadInv, RecordsAreHonest, HonestRecord, Starts
<1>9. RemoteIsHonest' /\ ReadyToGet' /\ TransferIsHonest' /\ Complete'
  BY <1>1, Zenon DEF RemoteIsHonest, ReadyToGet, TransferIsHonest, Complete, Transferring
<1>10. WholeRecords'
  <2>1. record.partial = Len(record.hash) /\ durableRecord.partial = Len(durableRecord.hash)
    BY Zenon DEF DownloadInv, RecordsAreHonest, HonestRecord
  <2>2. WholeIsKept(record)' /\ WholeIsKept(durableRecord)'
    BY <1>2, <1>3, <2>1, Zenon DEF WholeIsKept, Starts
  <2> QED
    BY <1>1, <1>3, <2>2, Zenon DEF WholeRecords, Transferring
<1>11. GenuineRecords'
  <2>1. record.partial \in Nat /\ durableRecord.partial \in Nat
    BY Zenon DEF DownloadInv, Types, Checkpoints
  <2>2. ASSUME NEW p \in Nat, p <= kept, \A i \in 1 .. p : staged[i] = versions[Current][i]
        PROVE  p <= kept' /\ \A i \in 1 .. p : staged'[i] = versions[Current][i]
    BY <2>2, <1>2, <1>5, <1>6
  <2>3. Cooperative => Genuine(record)' /\ Genuine(durableRecord)'
    BY <1>1, <1>3, <1>4, <2>1, <2>2, Zenon DEF DownloadInv, GenuineRecords, Genuine
  <2> QED
    BY <1>3, <1>4, <2>1, <2>3 DEF GenuineRecords
<1> QED
  BY <1>7, <1>8, <1>9, <1>10, <1>11, Zenon DEF DownloadInv

-----------------------------------------------------------------------------
(* At the start nothing is staged or recorded. *)
LEMMA InitHolds == Init => DownloadInv
<1> SUFFICES ASSUME Init PROVE DownloadInv
  OBVIOUS
<1>1. PICK content \in Contents : versions = <<content>>
  BY Zenon DEF Init
<1>2. content \in Seq(Blocks) /\ content # <<>>
  BY HubAssumption, Zenon
<1>3. versions \in Seq(Seq(Blocks)) /\ Current = 1 /\ versions[1] = content /\ Len(content) >= 1
  BY <1>1, <1>2 DEF Current
<1>4. /\ staged = <<>> /\ durable = <<>> /\ kept = 0 /\ pc = "idle"
      /\ record = [etag |-> 0, size |-> 0, partial |-> 0, hash |-> <<>>] /\ durableRecord = record
  BY Zenon DEF Init, NoRecord, EmptyRecord
<1>5. Types /\ ControlTypes
  <2>1. record \in Checkpoints /\ durableRecord \in Checkpoints
    BY <1>4 DEF Checkpoints
  <2>2. \A v \in 1 .. Current : Len(versions[v]) >= 1
    BY <1>3
  <2> QED
    BY <1>3, <1>4, <2>1, <2>2, HubAssumption DEF Init, Types, ControlTypes
<1>6. DiskAgrees /\ RecordsAreHonest
  BY <1>3, <1>4 DEF DiskAgrees, RecordsAreHonest, HonestRecord, Starts
<1>7. RemoteIsHonest /\ ReadyToGet /\ TransferIsHonest /\ Complete
  BY <1>4, Zenon DEF RemoteIsHonest, ReadyToGet, TransferIsHonest, Complete, Transferring
<1>8. WholeRecords /\ GenuineRecords
  BY <1>3, <1>4 DEF WholeRecords, WholeIsKept, Whole, Transferring, GenuineRecords, Genuine
<1> QED
  BY <1>5, <1>6, <1>7, <1>8, Zenon DEF DownloadInv

(* Every step of the importer and of the server, and every failure,        *)
(* preserves the invariant.                                                *)
THEOREM DownloadInvariant == Spec => []DownloadInv
<1>1. DownloadInv /\ [Next]_vars => DownloadInv'
  <2> SUFFICES ASSUME DownloadInv, [Next]_vars PROVE DownloadInv'
    OBVIOUS
  <2>1. CASE Resolve \/ Preflight \/ Begin \/ Get \/ ReadBlock \/ SyncFile \/ Finish
    BY <2>1, ResolveStep, PreflightStep, BeginStep, GetStep, ReadBlockStep, SyncFileStep, FinishStep, Zenon
  <2>2. CASE ReadEnd
    <3>1. faults' \in Nat
      BY <2>2, Zenon DEF ReadEnd, DownloadInv, Types
    <3> QED
      BY <2>2, <3>1, PersistStep, Zenon DEF ReadEnd, Persist
  <2>3. CASE WriteRecord
    <3>1. faults' \in Nat
      BY <2>3, Zenon DEF WriteRecord, DownloadInv, Types
    <3> QED
      BY <2>3, <3>1, RecordStep, Zenon DEF WriteRecord, writeResumeCheckpoint
  <2>4. ASSUME NEW content \in Contents, ServerChanges(content) PROVE DownloadInv'
    BY <2>4, ServerStep, Zenon
  <2>5. Fault => faults' \in Nat
    BY DEF Fault, DownloadInv, Types
  <2>6. CASE Disconnected
    BY <2>5, <2>6, PersistStep, Zenon DEF Disconnected, Persist
  <2>7. CASE Killed
    BY <2>5, <2>7, IdleStep, Zenon DEF Killed
  <2>8. CASE KilledBeforeDirectorySync
    BY <2>5, <2>8, RecordStep, Zenon DEF KilledBeforeDirectorySync
  <2>9. CASE NodeCrash
    BY <2>9, NodeCrashStep, Zenon
  <2>10. CASE UNCHANGED vars
    <3>1. /\ UNCHANGED <<server, versions, staged, durable, kept, record, durableRecord, pc, faults>>
          /\ UNCHANGED <<remote, partial, body, hash, mark, next>>
      BY <2>10, Zenon DEF vars, disk, attempt
    <3>2. Current' = Current /\ (Cooperative' <=> Cooperative) /\ Tagged' = Tagged
      BY <3>1, Zenon DEF Current, Cooperative, Sizes, Heads, Ranges, Tagged
    <3>3. Types' /\ ControlTypes' /\ DiskAgrees'
      BY <3>1, <3>2, Zenon DEF DownloadInv, Types, ControlTypes, DiskAgrees
    <3>4. RecordsAreHonest' /\ RemoteIsHonest' /\ ReadyToGet'
      BY <3>1, <3>2, Zenon DEF DownloadInv, RecordsAreHonest, HonestRecord, Starts, RemoteIsHonest,
         ReadyToGet, Transferring
    <3>5. TransferIsHonest'
      BY <3>1, <3>2, Zenon DEF DownloadInv, TransferIsHonest, Delivers, Starts, Transferring
    <3>6. WholeRecords'
      BY <3>1, Zenon DEF DownloadInv, WholeRecords, WholeIsKept, Whole, Starts, Transferring
    <3>7. Complete' /\ GenuineRecords'
      BY <3>1, <3>2, Zenon DEF DownloadInv, Complete, GenuineRecords, Genuine
    <3> QED
      BY <3>3, <3>4, <3>5, <3>6, <3>7, Zenon DEF DownloadInv
  <2> QED
    BY <2>1, <2>2, <2>3, <2>4, <2>6, <2>7, <2>8, <2>9, <2>10, Zenon DEF Next, Importer
<1> QED
  BY <1>1, InitHolds, PTL DEF Spec

(* A finished download is one version of the file, and synced, whatever    *)
(* the server changes, omits and interrupts.                               *)
THEOREM DownloadSound == Spec => []DownloadIsSound
<1>1. DownloadInv => DownloadIsSound
  BY Zenon DEF DownloadInv, Complete, DownloadIsSound, DownloadIsOneVersion, DownloadIsDurable
<1> QED
  BY <1>1, DownloadInvariant, PTL

(* The checkpoints of a cooperative server survive kills and crashes.      *)
THEOREM CheckpointsAreGenuine == Spec => []CheckpointIsGenuine
<1>1. ASSUME DownloadInv, NEW p \in Nat, p <= kept, p <= Len(versions[Current]),
             \A i \in 1 .. p : staged[i] = versions[Current][i]
      PROVE  SubSeq(staged, 1, p) = SubSeq(versions[Current], 1, p)
  <2>1. /\ staged \in Seq(Bytes) /\ versions[Current] \in Seq(Blocks) /\ p <= Len(staged)
    BY <1>1 DEF DownloadInv, Types, DiskAgrees, Current
  <2> DEFINE c == SubSeq(staged, 1, p)
             d == SubSeq(versions[Current], 1, p)
  <2>2. /\ c \in Seq(Bytes) /\ Len(c) = p /\ (\A i \in 1 .. p : c[i] = staged[i])
        /\ d \in Seq(Blocks) /\ Len(d) = p /\ (\A i \in 1 .. p : d[i] = versions[Current][i])
    BY <1>1, <2>1, CutFacts, Zenon
  <2> HIDE DEF c, d
  <2>3. c = d
    BY <1>1, <2>2, EqualSequences, Zenon
  <2> QED
    BY <2>3, Zenon DEF c, d
<1>2. ASSUME DownloadInv PROVE CheckpointIsGenuine
  <2>1. /\ record.partial \in Nat /\ durableRecord.partial \in Nat
        /\ record.partial <= record.size /\ durableRecord.partial <= durableRecord.size
    BY <1>2, Zenon DEF DownloadInv, Types, Checkpoints, RecordsAreHonest, HonestRecord
  <2>2. Cooperative => Genuine(record) /\ Genuine(durableRecord)
    BY <1>2, Zenon DEF DownloadInv, GenuineRecords
  <2> QED
    BY <1>1, <1>2, <2>1, <2>2, Zenon DEF CheckpointIsGenuine, Genuine
<1> QED
  BY <1>2, DownloadInvariant, PTL

(* During a transfer the hasher has seen what the staged file holds.       *)
THEOREM DownloadTypeCorrect == Spec => []TypeOK
<1>1. DownloadInv => TypeOK
  BY DEF DownloadInv, Types, ControlTypes, DiskAgrees, TransferIsHonest, Transferring, TypeOK
<1> QED
  BY <1>1, DownloadInvariant, PTL

=============================================================================
