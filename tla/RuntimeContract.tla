-------------------------- MODULE RuntimeContract --------------------------
(***************************************************************************)
(* One ModelDeployment specification on its way to llama-server.  The      *)
(* defaults and the limits of the serving contract are written three times *)
(* in the code: in the admission webhook, in the configuration that the    *)
(* controller builds, and in the supervisor that reads it from a ConfigMap.*)
(* A specification may pass the webhook, or be stored while the webhook is *)
(* out and only be validated by the controller.                            *)
(*                                                                         *)
(* An absent pointer is None and an absent string is "".  Durations are in *)
(* ticks, Second of them to a second.  The identities of the deployment    *)
(* and of the artifact are left out.                                       *)
(***************************************************************************)
EXTENDS Integers

CONSTANTS
  None,               \* an absent optional field
  Words,              \* the strings a field may hold
  Specs,              \* the specifications a user may submit
  Second,             \* ticks of a time.Duration in one second
  MaxInt64,           \* math.MaxInt64
  MaximumConcurrency, DefaultBatchSize, DefaultMicroBatchSize,
  MinimumDrain, DefaultDrain, MaximumDrain    \* in seconds

VARIABLES
  pc,                 \* where the specification is
  submitted,          \* as the user wrote it
  stored,             \* as the API server holds it
  document,           \* the JSON document in the ConfigMap
  argv                \* the arguments of llama-server that depend on it

contractVars == <<pc, submitted, stored, document, argv>>

GPU == "nvidia.com/gpu"

Optional == Int \cup {None}

SpecType ==
  [mode : Words, accelerator : Words, concurrency : Optional, context : Optional,
   drain : Optional, keyType : Words, valueType : Words, batch : Optional, micro : Optional,
   threads : Optional, batchThreads : Optional, flash : Words, owned : BOOLEAN,
   others : BOOLEAN]

ASSUME ContractAssumption ==
  /\ None \notin Int /\ Specs \subseteq SpecType /\ {"f16", "Auto", GPU} \subseteq Words
  /\ {Second, MaxInt64, MaximumConcurrency, DefaultBatchSize, DefaultMicroBatchSize,
      MinimumDrain, DefaultDrain, MaximumDrain} \subseteq Nat \ {0}
  /\ MinimumDrain <= DefaultDrain /\ DefaultDrain <= MaximumDrain
  /\ DefaultMicroBatchSize <= DefaultBatchSize

Or(value, default) == IF value = None THEN default ELSE value
OrText(value, default) == IF value = "" THEN default ELSE value

KVTypes == {"f16", "q8_0", "q4_0"}
FlashModes == {"Auto", "Enabled", "Disabled"}

-----------------------------------------------------------------------------
(* Admission *)

(* ModelDeploymentDefaulter.Default *)
Default(s) ==
  [mode |-> s.mode,
   accelerator |-> IF s.mode = "Accelerator" THEN OrText(s.accelerator, GPU) ELSE s.accelerator,
   concurrency |-> Or(s.concurrency, 1), context |-> s.context,
   drain |-> Or(s.drain, DefaultDrain * Second),
   keyType |-> OrText(s.keyType, "f16"), valueType |-> OrText(s.valueType, "f16"),
   batch |-> Or(s.batch, DefaultBatchSize), micro |-> Or(s.micro, DefaultMicroBatchSize),
   threads |-> s.threads, batchThreads |-> s.batchThreads,
   flash |-> OrText(s.flash, "Auto"), owned |-> s.owned, others |-> s.others]

PlacementValid(s) ==
  \/ s.mode = "CPU" /\ s.accelerator = ""
  \/ s.mode = "Accelerator" /\ OrText(s.accelerator, GPU) = GPU

ContextValid(context, concurrency) ==
  IF context = None
  THEN concurrency = 1
  ELSE context > 0 /\ context <= MaxInt64 \div concurrency

(* Mutant: the product is not checked against the width of the integer.    *)
RuntimeValidUnbounded(s) ==
  LET concurrency == Or(s.concurrency, 1)
      drain == Or(s.drain, DefaultDrain * Second)
  IN /\ concurrency > 0 /\ concurrency <= MaximumConcurrency
     /\ IF s.context = None THEN concurrency = 1 ELSE s.context > 0
     /\ drain >= MinimumDrain * Second /\ drain <= MaximumDrain * Second
     /\ OrText(s.keyType, "f16") \in KVTypes
     /\ OrText(s.valueType, "f16") \in KVTypes

RuntimeValid(s) ==
  LET concurrency == Or(s.concurrency, 1)
      drain == Or(s.drain, DefaultDrain * Second)
  IN /\ concurrency > 0 /\ concurrency <= MaximumConcurrency
     /\ ContextValid(s.context, concurrency)
     /\ drain >= MinimumDrain * Second /\ drain <= MaximumDrain * Second
     /\ OrText(s.keyType, "f16") \in KVTypes
     /\ OrText(s.valueType, "f16") \in KVTypes

ExpertValid(s) ==
  LET batch == Or(s.batch, DefaultBatchSize)
      micro == Or(s.micro, DefaultMicroBatchSize)
  IN /\ batch > 0 /\ micro > 0 /\ micro <= batch
     /\ s.threads # None => s.threads > 0
     /\ s.batchThreads # None => s.batchThreads > 0
     /\ OrText(s.flash, "Auto") \in FlashModes

(* validateModelDeployment.  owned: a controller-owned field is present;   *)
(* others: the model's name and the resource lists pass their own checks.  *)
ValidateModelDeployment(s) ==
  PlacementValid(s) /\ RuntimeValid(s) /\ ExpertValid(s) /\ ~s.owned /\ s.others

-----------------------------------------------------------------------------
(* The configuration of the runtime *)

(* runtimeDrainDuration *)
DrainDuration(s) == IF s.drain = None \/ s.drain <= 0 THEN DefaultDrain * Second ELSE s.drain

(* Mutant: whole seconds by truncation.                                   *)
CeilTruncated(ticks) == ticks \div Second

Ceil(ticks) == (ticks + Second - 1) \div Second

(* desiredRuntime: an absent number becomes zero.                          *)
RuntimeConfig(s) ==
  [mode |-> s.mode, context |-> Or(s.context, 0), concurrency |-> Or(s.concurrency, 0),
   drain |-> Ceil(DrainDuration(s)), keyType |-> s.keyType, valueType |-> s.valueType,
   batch |-> Or(s.batch, 0), micro |-> Or(s.micro, 0), threads |-> Or(s.threads, 0),
   batchThreads |-> Or(s.batchThreads, 0), flash |-> s.flash]

OrNonzero(value, default) == IF value = 0 THEN default ELSE value

(* Config.Default *)
ConfigDefault(c) ==
  [mode |-> c.mode, context |-> c.context, concurrency |-> OrNonzero(c.concurrency, 1),
   drain |-> OrNonzero(c.drain, DefaultDrain),
   keyType |-> OrText(c.keyType, "f16"), valueType |-> OrText(c.valueType, "f16"),
   batch |-> OrNonzero(c.batch, DefaultBatchSize),
   micro |-> OrNonzero(c.micro, DefaultMicroBatchSize),
   threads |-> c.threads, batchThreads |-> c.batchThreads, flash |-> OrText(c.flash, "Auto")]

(* Config.Validate *)
ConfigValid(c) ==
  /\ c.mode \in {"CPU", "Accelerator"} /\ c.context >= 0
  /\ c.concurrency >= 1 /\ c.concurrency <= MaximumConcurrency
  /\ c.context = 0 => c.concurrency = 1
  /\ c.context > 0 => c.context <= MaxInt64 \div c.concurrency
  /\ c.drain >= MinimumDrain /\ c.drain <= MaximumDrain
  /\ c.keyType \in KVTypes /\ c.valueType \in KVTypes
  /\ c.batch >= 1 /\ c.micro >= 1 /\ c.micro <= c.batch
  /\ c.threads >= 0 /\ c.batchThreads >= 0
  /\ c.flash \in FlashModes

(* json.Marshal leaves out the three fields tagged omitempty when zero.    *)
Encode(c) ==
  [mode |-> c.mode, context |-> IF c.context = 0 THEN None ELSE c.context,
   concurrency |-> c.concurrency, drain |-> c.drain, keyType |-> c.keyType,
   valueType |-> c.valueType, batch |-> c.batch, micro |-> c.micro,
   threads |-> IF c.threads = 0 THEN None ELSE c.threads,
   batchThreads |-> IF c.batchThreads = 0 THEN None ELSE c.batchThreads, flash |-> c.flash]

(* DecodeConfig: an absent field is zero; then the defaults.               *)
Decode(d) ==
  ConfigDefault(
    [mode |-> d.mode, context |-> Or(d.context, 0), concurrency |-> d.concurrency,
     drain |-> d.drain, keyType |-> d.keyType, valueType |-> d.valueType, batch |-> d.batch,
     micro |-> d.micro, threads |-> Or(d.threads, 0), batchThreads |-> Or(d.batchThreads, 0),
     flash |-> d.flash])

(* A product of two's complement integers.                                 *)
Wrap(n) == ((n + MaxInt64 + 1) % (2 * (MaxInt64 + 1))) - MaxInt64 - 1

(* Config.Arguments, and the drain timeout that the supervisor keeps.      *)
Arguments(c) ==
  [ctxSize |-> IF c.context > 0 THEN Wrap(c.context * c.concurrency) ELSE c.context,
   parallel |-> c.concurrency, drain |-> c.drain, keyType |-> c.keyType, valueType |-> c.valueType,
   batch |-> c.batch, micro |-> c.micro, flash |-> c.flash,
   threads |-> IF c.threads > 0 THEN c.threads ELSE None,
   batchThreads |-> IF c.batchThreads > 0 THEN c.batchThreads ELSE None,
   device |-> IF c.mode = "CPU" THEN "none" ELSE "all"]

-----------------------------------------------------------------------------
ContractInit ==
  /\ pc = "submitted" /\ submitted \in Specs
  /\ stored = submitted /\ document = None /\ argv = None

(* The webhooks default and validate what is created or updated.           *)
Admit ==
  /\ pc = "submitted"
  /\ stored' = Default(submitted)
  /\ pc' = IF ValidateModelDeployment(stored') THEN "stored" ELSE "rejected"
  /\ UNCHANGED <<submitted, document, argv>>

(* The webhooks are out of service or disabled.                            *)
AdmitUnchecked ==
  /\ pc = "submitted" /\ pc' = "stored"
  /\ UNCHANGED <<submitted, stored, document, argv>>

(* The reconciler validates again, builds the configuration and stores it. *)
Reconcile ==
  /\ pc = "stored"
  /\ LET config == ConfigDefault(RuntimeConfig(stored))
     IN IF ~ValidateModelDeployment(stored) THEN pc' = "invalid" /\ UNCHANGED document
        ELSE IF ~ConfigValid(config) THEN pc' = "unservable" /\ UNCHANGED document
        ELSE pc' = "configured" /\ document' = Encode(config)
  /\ UNCHANGED <<submitted, stored, argv>>

(* The supervisor reads the document and starts llama-server.              *)
Start ==
  /\ pc = "configured"
  /\ IF ConfigValid(Decode(document))
     THEN pc' = "serving" /\ argv' = Arguments(Decode(document))
     ELSE pc' = "refused" /\ UNCHANGED argv
  /\ UNCHANGED <<submitted, stored, document>>

ContractNext == Admit \/ AdmitUnchecked \/ Reconcile \/ Start

ContractSpec == ContractInit /\ [][ContractNext]_contractVars

-----------------------------------------------------------------------------
(* Whatever passes the validation of a ModelDeployment is accepted by the  *)
(* controller's own check of the configuration and by the supervisor: the  *)
(* three copies of the contract have not drifted apart.                    *)
ValidIsServable == pc \notin {"unservable", "refused"}

(* llama-server gets what the user asked for, and the documented default   *)
(* for what the user left open, whether or not the webhook filled it in:   *)
(* every slot its whole context, exactly, and never a shorter drain.       *)
ServesWhatWasAsked ==
  pc = "serving" =>
    LET asked == Default(submitted)
    IN /\ argv.parallel = asked.concurrency
       /\ argv.ctxSize = Or(asked.context, 0) * asked.concurrency
       /\ argv.drain * Second >= asked.drain /\ (argv.drain - 1) * Second < asked.drain
       /\ argv.keyType = asked.keyType /\ argv.valueType = asked.valueType
       /\ argv.batch = asked.batch /\ argv.micro = asked.micro /\ argv.flash = asked.flash
       /\ argv.threads = asked.threads /\ argv.batchThreads = asked.batchThreads
       /\ argv.device = (IF asked.accelerator = "" THEN "none" ELSE "all")
=============================================================================
