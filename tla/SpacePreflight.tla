-------------------------- MODULE SpacePreflight --------------------------
(* The free-space check before a transfer (the loops of executeHub and     *)
(* executeCopy, RequirePublicationSpace and RequireFreeSpace), in unsigned *)
(* words that wrap around, and the import that follows on that space.      *)
(*                                                                         *)
(* An attempt owes the bytes that are not staged yet.  Each attempt starts *)
(* with any free space and any such amounts, so a retry is a new start.    *)
EXTENDS Naturals

CONSTANTS
  Word,             \* number of values of a uint64
  Sizes,            \* bytes a file may still need
  FixedReserve, PerFileReserve, MaxSelectedFiles,
  MaxFiles          \* files the source may resolve to

ASSUME SpaceAssumption ==
  /\ Word \in Nat \ {0} /\ Sizes \subseteq 0 .. Word - 1
  /\ FixedReserve \in Nat /\ PerFileReserve \in Nat /\ MaxSelectedFiles \in Nat /\ MaxFiles \in Nat
  /\ FixedReserve + MaxSelectedFiles * PerFileReserve < Word

VARIABLES
  free,     \* bytes available on the volume
  count,    \* files planned so far
  required, \* the sum the importer computes
  owed,     \* bytes still to be transferred
  metadata, \* bytes that checkpoints, manifest, READY and markers still take
  stage

spaceVars == <<free, count, required, owed, metadata, stage>>

MaxWord == Word - 1

(* What the reserve is meant to cover. *)
Reserve(files) == FixedReserve + files * PerFileReserve

-----------------------------------------------------------------------------

(* Mutant: the sum may wrap around. *)
PlanWrapping(additional) ==
  /\ stage = "plan" /\ count < MaxFiles
  /\ count' = count + 1 /\ owed' = owed + additional
  /\ required' = (required + additional) % Word
  /\ UNCHANGED <<free, metadata, stage>>

(* One file of the loop: its missing bytes are added unless that overflows. *)
PlanFile(additional) ==
  /\ stage = "plan" /\ count < MaxFiles
  /\ count' = count + 1 /\ owed' = owed + additional
  /\ IF additional > MaxWord - required
     THEN stage' = "refused" /\ UNCHANGED required
     ELSE required' = (required + additional) % Word /\ UNCHANGED stage
  /\ UNCHANGED <<free, metadata>>

RequireFreeSpace(bytes) == bytes <= free

(* The reserve is added, again unless that overflows. *)
RequirePublicationSpace ==
  LET overhead == (FixedReserve + ((count * PerFileReserve) % Word)) % Word
  IN /\ stage = "plan"
     /\ IF count \notin 1 .. MaxSelectedFiles THEN stage' = "invalid" /\ UNCHANGED metadata
        ELSE IF required <= MaxWord - overhead /\ RequireFreeSpace((required + overhead) % Word)
        THEN stage' = "transfer" /\ metadata' = Reserve(count)
        ELSE stage' = "refused" /\ UNCHANGED metadata
     /\ UNCHANGED <<free, count, required, owed>>

(* Bytes written to the volume, or no space left. *)
Consume(bytes) ==
  IF bytes <= free THEN free' = free - bytes /\ UNCHANGED stage
                   ELSE stage' = "full" /\ UNCHANGED free

Transfer(bytes) ==
  /\ stage = "transfer" /\ owed' = owed - bytes /\ Consume(bytes)
  /\ UNCHANGED <<count, required, metadata>>

WriteMetadata(bytes) ==
  /\ stage = "transfer" /\ metadata' = metadata - bytes /\ Consume(bytes)
  /\ UNCHANGED <<count, required, owed>>

SpaceInit ==
  /\ free \in 0 .. MaxWord
  /\ count = 0 /\ required = 0 /\ owed = 0 /\ metadata = 0 /\ stage = "plan"

SpaceNext ==
  \/ \E additional \in Sizes : PlanFile(additional)
  \/ RequirePublicationSpace
  \/ \E bytes \in 1 .. owed : Transfer(bytes)
  \/ \E bytes \in 1 .. metadata : WriteMetadata(bytes)

SpaceSpec == SpaceInit /\ [][SpaceNext]_spaceVars

-----------------------------------------------------------------------------
(* Properties.                                                             *)

(* An import that passed the check does not run out of space, neither in   *)
(* the transfer nor in publication, as long as nothing else writes to the  *)
(* volume (the comment on RequirePublicationSpace).                        *)
AcceptedFits == stage # "full"

(* An import is refused for lack of space only if it lacks space: an       *)
(* overflow of the sum or of the reserve means more than any volume has.   *)
RefusedLacksSpace == stage = "refused" => owed + Reserve(count) > free

(* The check is exact: what passes it fits, what it refuses does not. *)
CheckIsExact == AcceptedFits /\ RefusedLacksSpace

=============================================================================
