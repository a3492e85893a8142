--------------------------- MODULE ServingProofs ---------------------------
(***************************************************************************)
(* Proofs about the serving process.  Of RuntimeContract: the three copies *)
(* of the serving contract agree, for every limit and every specification. *)
(* Of Supervisor: its safety, for every number of slots, requests and      *)
(* devices.                                                                *)
(***************************************************************************)
EXTENDS Supervisor, RuntimeContract, TLAPS

-----------------------------------------------------------------------------
(* The serving contract.                                                   *)

(* The configuration of a stored specification.                            *)
ConfigOf(s) == ConfigDefault(RuntimeConfig(s))

ConfigType ==
  [mode : {"CPU", "Accelerator"}, context : Int, concurrency : Int, drain : Int,
   keyType : KVTypes, valueType : KVTypes, batch : Int, micro : Int, threads : Int,
   batchThreads : Int, flash : FlashModes]

-----------------------------------------------------------------------------
(* Arithmetic *)

(* A context within the quotient has a product within the integer.         *)
LEMMA QuotientBoundsProduct ==
  ASSUME NEW m \in Nat, NEW c \in Nat \ {0}, NEW t \in Nat, t <= m \div c
  PROVE  t * c <= m
<1> DEFINE q == m \div c
<1>1. q \in Nat /\ q * c <= m
  OBVIOUS
<1>2. t * c <= q * c
  BY <1>1
<1> QED
  BY <1>1, <1>2

(* Such a product does not wrap.                                           *)
LEMMA WrapIsExact ==
  ASSUME NEW n \in Nat, n <= MaxInt64
  PROVE  Wrap(n) = n
<1>1. MaxInt64 \in Nat \ {0}
  BY ContractAssumption, Zenon
<1> DEFINE w == 2 * (MaxInt64 + 1)
           a == n + MaxInt64 + 1
<1>2. w \in Nat \ {0} /\ a \in Nat /\ a < w
  BY <1>1
<1>3. a % w = a
  <2> HIDE DEF w, a
  <2> QED
    BY <1>2
<1> QED
  BY <1>1, <1>3 DEF Wrap

(* Rounding up is never short, and by less than a second too long.         *)
LEMMA CeilBounds ==
  ASSUME NEW t \in Int, t > 0
  PROVE  /\ Ceil(t) \in Int
         /\ Ceil(t) * Second >= t
         /\ (Ceil(t) - 1) * Second < t
<1>1. Second \in Nat \ {0}
  BY ContractAssumption, Zenon
<1> DEFINE a == t + Second - 1
           q == a \div Second
<1>2. a \in Nat
  BY <1>1
<1>3. q \in Nat /\ q * Second <= a /\ a < (q + 1) * Second
  <2> HIDE DEF a
  <2> QED
    BY <1>1, <1>2
<1>4. (q + 1) * Second = q * Second + Second /\ (q - 1) * Second = q * Second - Second
  BY <1>1, <1>3
<1>5. Ceil(t) = q
  BY Zenon DEF Ceil
<1> HIDE DEF q
<1> QED
  BY <1>1, <1>3, <1>4, <1>5

(* Limits in whole seconds survive the rounding.                           *)
LEMMA CeilKeepsLimits ==
  ASSUME NEW t \in Int, NEW low \in Nat \ {0}, NEW high \in Nat,
         t >= low * Second, t <= high * Second
  PROVE  Ceil(t) \in Int /\ Ceil(t) >= low /\ Ceil(t) <= high
<1>1. Second \in Nat \ {0}
  BY ContractAssumption, Zenon
<1>2. t > 0
  <2>1. low * Second > 0
    BY <1>1
  <2> QED
    BY <1>1, <2>1
<1>3. Ceil(t) \in Int /\ Ceil(t) * Second >= t /\ (Ceil(t) - 1) * Second < t
  BY <1>2, CeilBounds, Zenon
<1> DEFINE q == Ceil(t)
<1> HIDE DEF q
<1>4. q \in Int /\ q * Second >= low * Second /\ (q - 1) * Second < high * Second
  BY <1>1, <1>3 DEF q
<1>5. q >= low
  <2> SUFFICES ASSUME q + 1 <= low PROVE FALSE
    BY <1>4
  <2>1. (q + 1) * Second <= low * Second
    BY <1>1, <1>4
  <2>2. (q + 1) * Second = q * Second + Second
    BY <1>1, <1>4
  <2> QED
    BY <1>1, <1>4, <2>1, <2>2
<1>6. q <= high
  <2> SUFFICES ASSUME high <= q - 1 PROVE FALSE
    BY <1>4
  <2>1. high * Second <= (q - 1) * Second
    BY <1>1, <1>4
  <2> QED
    BY <1>1, <1>4, <2>1
<1> QED
  BY <1>4, <1>5, <1>6, Zenon DEF q

-----------------------------------------------------------------------------
(* The copies of the contract *)

(* The configuration has the fields that the defaulted specification has.  *)
LEMMA ConfigFields ==
  ASSUME NEW s \in SpecType, ValidateModelDeployment(s)
  PROVE  /\ ConfigOf(s) \in ConfigType
         /\ ConfigOf(s).mode = s.mode
         /\ ConfigOf(s).context = Or(s.context, 0)
         /\ ConfigOf(s).concurrency = Or(s.concurrency, 1)
         /\ ConfigOf(s).drain = Ceil(Or(s.drain, DefaultDrain * Second))
         /\ ConfigOf(s).keyType = OrText(s.keyType, "f16")
         /\ ConfigOf(s).valueType = OrText(s.valueType, "f16")
         /\ ConfigOf(s).batch = Or(s.batch, DefaultBatchSize)
         /\ ConfigOf(s).micro = Or(s.micro, DefaultMicroBatchSize)
         /\ ConfigOf(s).threads = Or(s.threads, 0)
         /\ ConfigOf(s).batchThreads = Or(s.batchThreads, 0)
         /\ ConfigOf(s).flash = OrText(s.flash, "Auto")
<1> DEFINE d == Or(s.drain, DefaultDrain * Second)
<1>1. /\ None \notin Int
      /\ Second \in Nat \ {0} /\ MinimumDrain \in Nat \ {0} /\ MaximumDrain \in Nat \ {0}
      /\ DefaultDrain \in Nat \ {0}
      /\ DefaultBatchSize \in Nat \ {0} /\ DefaultMicroBatchSize \in Nat \ {0}
  BY ContractAssumption, Zenon
<1>2. MinimumDrain * Second > 0 /\ DefaultDrain * Second \in Int
  BY <1>1
<1>3. d \in Int /\ d >= MinimumDrain * Second /\ d <= MaximumDrain * Second
  BY <1>2, Zenon DEF ValidateModelDeployment, RuntimeValid, SpecType, Optional, Or
<1>4. DrainDuration(s) = d
  BY <1>1, <1>2, <1>3 DEF DrainDuration, SpecType, Optional, Or
<1>5. Ceil(d) \in Int /\ Ceil(d) # 0
  BY <1>1, <1>3, CeilKeepsLimits
<1>6. /\ Or(s.concurrency, 1) \in Int /\ Or(s.concurrency, 1) > 0
      /\ Or(s.batch, DefaultBatchSize) \in Int /\ Or(s.batch, DefaultBatchSize) > 0
      /\ Or(s.micro, DefaultMicroBatchSize) \in Int /\ Or(s.micro, DefaultMicroBatchSize) > 0
  BY <1>1 DEF ValidateModelDeployment, RuntimeValid, ExpertValid, SpecType, Optional, Or
<1>7. /\ OrNonzero(Or(s.concurrency, 0), 1) = Or(s.concurrency, 1)
      /\ OrNonzero(Or(s.batch, 0), DefaultBatchSize) = Or(s.batch, DefaultBatchSize)
      /\ OrNonzero(Or(s.micro, 0), DefaultMicroBatchSize) = Or(s.micro, DefaultMicroBatchSize)
  BY <1>1, <1>6 DEF OrNonzero, Or, SpecType, Optional
<1>8. Or(s.context, 0) \in Int /\ Or(s.threads, 0) \in Int /\ Or(s.batchThreads, 0) \in Int
  BY DEF Or, SpecType, Optional
<1>9. /\ OrText(s.keyType, "f16") \in KVTypes /\ OrText(s.valueType, "f16") \in KVTypes
      /\ OrText(s.flash, "Auto") \in FlashModes /\ s.mode \in {"CPU", "Accelerator"}
  BY Zenon DEF ValidateModelDeployment, PlacementValid, RuntimeValid, ExpertValid
<1>10. OrNonzero(Ceil(d), DefaultDrain) = Ceil(d)
  BY <1>5, Zenon DEF OrNonzero
<1>11. ConfigOf(s) =
         [mode |-> s.mode, context |-> Or(s.context, 0), concurrency |-> Or(s.concurrency, 1),
          drain |-> Ceil(d), keyType |-> OrText(s.keyType, "f16"),
          valueType |-> OrText(s.valueType, "f16"),
          batch |-> Or(s.batch, DefaultBatchSize), micro |-> Or(s.micro, DefaultMicroBatchSize),
          threads |-> Or(s.threads, 0), batchThreads |-> Or(s.batchThreads, 0),
          flash |-> OrText(s.flash, "Auto")]
  BY <1>4, <1>7, <1>10, Zenon DEF ConfigOf, ConfigDefault, RuntimeConfig
<1> HIDE DEF d
<1>12. ConfigOf(s) \in ConfigType
  BY <1>5, <1>6, <1>8, <1>9, <1>11 DEF ConfigType
<1> QED
  BY <1>11, <1>12 DEF d

(* What the validation of a ModelDeployment accepts, Config.Validate       *)
(* accepts.                                                                *)
LEMMA ValidGivesValidConfig ==
  ASSUME NEW s \in SpecType, ValidateModelDeployment(s)
  PROVE  ConfigValid(ConfigOf(s))
<1> DEFINE c == ConfigOf(s)
           d == Or(s.drain, DefaultDrain * Second)
<1>1. /\ None \notin Int
      /\ Second \in Nat \ {0} /\ MinimumDrain \in Nat \ {0} /\ MaximumDrain \in Nat \ {0}
      /\ DefaultDrain \in Nat \ {0}
  BY ContractAssumption, Zenon
<1>2. d \in Int /\ d >= MinimumDrain * Second /\ d <= MaximumDrain * Second
  BY <1>1 DEF ValidateModelDeployment, RuntimeValid, SpecType, Optional, Or
<1>3. c.drain >= MinimumDrain /\ c.drain <= MaximumDrain
  BY <1>1, <1>2, CeilKeepsLimits, ConfigFields, Zenon
<1>4. c.mode \in {"CPU", "Accelerator"}
  BY ConfigFields, Zenon DEF ValidateModelDeployment, PlacementValid
<1>5. c.concurrency >= 1 /\ c.concurrency <= MaximumConcurrency
  BY <1>1, ConfigFields DEF ValidateModelDeployment, RuntimeValid, ConfigType
<1>6. /\ c.context >= 0
      /\ c.context = 0 => c.concurrency = 1
      /\ c.context > 0 => c.context <= MaxInt64 \div c.concurrency
  BY <1>1, ConfigFields
     DEF ValidateModelDeployment, RuntimeValid, ContextValid, Or, SpecType, Optional, ConfigType
<1>7. c.keyType \in KVTypes /\ c.valueType \in KVTypes
  BY ConfigFields, Zenon DEF ValidateModelDeployment, RuntimeValid
<1>8. c.batch >= 1 /\ c.micro >= 1 /\ c.micro <= c.batch
  BY ConfigFields DEF ValidateModelDeployment, ExpertValid, ConfigType
<1>9. c.threads >= 0 /\ c.batchThreads >= 0
  BY <1>1, ConfigFields DEF ValidateModelDeployment, ExpertValid, Or, SpecType, Optional
<1>10. c.flash \in FlashModes
  BY ConfigFields, Zenon DEF ValidateModelDeployment, ExpertValid
<1> HIDE DEF c
<1>11. ConfigValid(c)
  BY <1>3, <1>4, <1>5, <1>6, <1>7, <1>8, <1>9, <1>10, Zenon DEF ConfigValid
<1> QED
  BY <1>11, Zenon DEF c

(* A valid configuration survives the document of the ConfigMap.           *)
LEMMA RoundTrip ==
  ASSUME NEW c \in ConfigType, ConfigValid(c)
  PROVE  Decode(Encode(c)) = c
<1>1. None \notin Int /\ MinimumDrain \in Nat \ {0}
  BY ContractAssumption, Zenon
<1>2. c.concurrency # 0 /\ c.batch # 0 /\ c.micro # 0 /\ c.drain # 0
  BY <1>1 DEF ConfigValid, ConfigType
<1>3. c.keyType # "" /\ c.valueType # "" /\ c.flash # ""
  BY Zenon DEF ConfigValid, KVTypes, FlashModes
<1> DEFINE e == Encode(c)
<1>4. /\ Or(e.context, 0) = c.context /\ Or(e.threads, 0) = c.threads
      /\ Or(e.batchThreads, 0) = c.batchThreads
  BY <1>1, Zenon DEF Encode, Or, ConfigType
<1>5. /\ e.mode = c.mode /\ e.concurrency = c.concurrency /\ e.drain = c.drain
      /\ e.keyType = c.keyType /\ e.valueType = c.valueType
      /\ e.batch = c.batch /\ e.micro = c.micro /\ e.flash = c.flash
  BY Zenon DEF Encode
<1> HIDE DEF e
<1>6. Decode(e) =
        [mode |-> c.mode, context |-> c.context, concurrency |-> c.concurrency, drain |-> c.drain,
         keyType |-> c.keyType, valueType |-> c.valueType, batch |-> c.batch, micro |-> c.micro,
         threads |-> c.threads, batchThreads |-> c.batchThreads, flash |-> c.flash]
  BY <1>2, <1>3, <1>4, <1>5, Zenon DEF Decode, ConfigDefault, OrNonzero, OrText
<1> QED
  BY <1>6, Zenon DEF ConfigType, e

(* The webhook's defaults make a specification.                            *)
LEMMA DefaultIsSpec ==
  ASSUME NEW s \in SpecType
  PROVE  Default(s) \in SpecType
<1>1. /\ DefaultDrain \in Nat /\ Second \in Nat
      /\ DefaultBatchSize \in Nat /\ DefaultMicroBatchSize \in Nat
      /\ "f16" \in Words /\ "Auto" \in Words /\ GPU \in Words
  BY ContractAssumption, Zenon
<1>2. DefaultDrain * Second \in Int
  BY <1>1
<1>3. /\ Default(s).accelerator \in Words /\ Default(s).keyType \in Words
      /\ Default(s).valueType \in Words /\ Default(s).flash \in Words
  BY <1>1, Zenon DEF Default, OrText, SpecType
<1>4. /\ Or(s.concurrency, 1) \in Optional /\ Or(s.drain, DefaultDrain * Second) \in Optional
      /\ Or(s.batch, DefaultBatchSize) \in Optional /\ Or(s.micro, DefaultMicroBatchSize) \in Optional
  BY <1>1, <1>2 DEF Or, SpecType, Optional
<1> QED
  BY <1>3, <1>4, Zenon DEF Default, SpecType

(* Defaulting twice is defaulting once, so what the runtime makes of a     *)
(* specification does not depend on whether the webhook has seen it.       *)
LEMMA DefaultIsIdempotent ==
  ASSUME NEW s \in SpecType
  PROVE  /\ Or(Default(s).concurrency, 1) = Default(s).concurrency
         /\ Or(Default(s).drain, DefaultDrain * Second) = Default(s).drain
         /\ Or(Default(s).batch, DefaultBatchSize) = Default(s).batch
         /\ Or(Default(s).micro, DefaultMicroBatchSize) = Default(s).micro
         /\ OrText(Default(s).keyType, "f16") = Default(s).keyType
         /\ OrText(Default(s).valueType, "f16") = Default(s).valueType
         /\ OrText(Default(s).flash, "Auto") = Default(s).flash
  BY Zenon DEF Default, Or, OrText

(* What Arguments makes of a valid specification.                          *)
LEMMA ArgumentsServe ==
  ASSUME NEW s \in SpecType, NEW t \in {s, Default(s)}, ValidateModelDeployment(t),
         NEW a, a = Arguments(ConfigOf(t))
  PROVE  /\ a.parallel = Default(s).concurrency
         /\ a.ctxSize = Or(Default(s).context, 0) * Default(s).concurrency
         /\ a.drain * Second >= Default(s).drain /\ (a.drain - 1) * Second < Default(s).drain
         /\ a.keyType = Default(s).keyType /\ a.valueType = Default(s).valueType
         /\ a.batch = Default(s).batch /\ a.micro = Default(s).micro /\ a.flash = Default(s).flash
         /\ a.threads = Default(s).threads /\ a.batchThreads = Default(s).batchThreads
         /\ a.device = (IF Default(s).accelerator = "" THEN "none" ELSE "all")
<1> DEFINE c == ConfigOf(t)
           w == Default(s)
<1>1. t \in SpecType
  BY DefaultIsSpec, Zenon
<1>2. /\ Or(t.concurrency, 1) = w.concurrency /\ Or(t.drain, DefaultDrain * Second) = w.drain
      /\ Or(t.batch, DefaultBatchSize) = w.batch /\ Or(t.micro, DefaultMicroBatchSize) = w.micro
      /\ OrText(t.keyType, "f16") = w.keyType /\ OrText(t.valueType, "f16") = w.valueType
      /\ OrText(t.flash, "Auto") = w.flash
  <2>1. CASE t = s
    BY <2>1, Zenon DEF Default
  <2>2. CASE t = Default(s)
    BY <2>2, DefaultIsIdempotent, Zenon
  <2> QED
    BY <2>1, <2>2, Zenon
<1>3. /\ t.context = w.context /\ t.threads = w.threads /\ t.batchThreads = w.batchThreads
      /\ t.mode = w.mode
  BY Zenon DEF Default
<1>4. c \in ConfigType /\ ConfigValid(c)
  BY <1>1, ConfigFields, ValidGivesValidConfig, Zenon
<1>5. /\ c.mode = w.mode /\ c.context = Or(w.context, 0) /\ c.concurrency = w.concurrency
      /\ c.drain = Ceil(w.drain) /\ c.keyType = w.keyType /\ c.valueType = w.valueType
      /\ c.batch = w.batch /\ c.micro = w.micro /\ c.threads = Or(w.threads, 0)
      /\ c.batchThreads = Or(w.batchThreads, 0) /\ c.flash = w.flash
  BY <1>1, <1>2, <1>3, ConfigFields, Zenon
<1>6. a.ctxSize = Or(w.context, 0) * w.concurrency
  <2>1. c.context \in Nat /\ c.concurrency \in Nat \ {0} /\ MaxInt64 \in Nat
    BY <1>4, ContractAssumption DEF ConfigValid, ConfigType
  <2> HIDE DEF c
  <2>2. CASE c.context = 0
    BY <1>5, <2>1, <2>2 DEF Arguments, c
  <2>3. CASE c.context > 0
    <3>1. c.context <= MaxInt64 \div c.concurrency
      BY <1>4, <2>3, Zenon DEF ConfigValid
    <3>2. c.context * c.concurrency <= MaxInt64
      BY <2>1, <3>1, QuotientBoundsProduct, Zenon
    <3>3. c.context * c.concurrency \in Nat
      BY <2>1
    <3>4. Wrap(c.context * c.concurrency) = c.context * c.concurrency
      BY <3>2, <3>3, WrapIsExact, Zenon
    <3>5. a.ctxSize = c.context * c.concurrency
      BY <2>3, <3>4, Zenon DEF Arguments, c
    <3> QED
      BY <1>5, <3>5, Zenon
  <2> QED
    BY <2>1, <2>2, <2>3
<1>7. a.drain * Second >= w.drain /\ (a.drain - 1) * Second < w.drain
  <2>1. /\ Second \in Nat \ {0} /\ MinimumDrain \in Nat \ {0} /\ None \notin Int
        /\ DefaultDrain \in Nat
    BY ContractAssumption, Zenon
  <2>2. MinimumDrain * Second > 0 /\ MinimumDrain * Second \in Int /\ DefaultDrain * Second \in Int
    BY <2>1
  <2>3. w.drain >= MinimumDrain * Second
    BY <1>2, Zenon DEF ValidateModelDeployment, RuntimeValid
  <2>4. w.drain \in Int
    BY <2>2, Zenon DEF Default, Or, SpecType, Optional
  <2>5. w.drain > 0
    BY <2>2, <2>3, <2>4
  <2>6. a.drain = Ceil(w.drain)
    BY <1>5, Zenon DEF Arguments
  <2> HIDE DEF w
  <2> QED
    BY <2>4, <2>5, <2>6, CeilBounds, Zenon
<1>8. a.threads = w.threads /\ a.batchThreads = w.batchThreads
  <2>1. None \notin Int
    BY ContractAssumption, Zenon
  <2>2. /\ w.threads # None => w.threads \in Int /\ w.threads > 0
        /\ w.batchThreads # None => w.batchThreads \in Int /\ w.batchThreads > 0
    BY <1>1, <1>3, Zenon DEF ValidateModelDeployment, ExpertValid, SpecType, Optional
  <2>3. /\ a.threads = (IF c.threads > 0 THEN c.threads ELSE None)
        /\ a.batchThreads = (IF c.batchThreads > 0 THEN c.batchThreads ELSE None)
    BY Zenon DEF Arguments
  <2> HIDE DEF c, w
  <2> QED
    BY <1>5, <2>1, <2>2, <2>3 DEF Or
<1>9. a.device = (IF w.accelerator = "" THEN "none" ELSE "all")
  <2>1. a.device = (IF c.mode = "CPU" THEN "none" ELSE "all")
    BY Zenon DEF Arguments
  <2>2. \/ w.mode = "CPU" /\ w.accelerator = ""
        \/ w.mode = "Accelerator" /\ w.accelerator # ""
    <3>1. \/ t.mode = "CPU" /\ t.accelerator = ""
          \/ t.mode = "Accelerator" /\ OrText(t.accelerator, GPU) = GPU
      BY Zenon DEF ValidateModelDeployment, PlacementValid
    <3>2. w.accelerator = IF s.mode = "Accelerator" THEN OrText(s.accelerator, GPU)
                          ELSE s.accelerator
      BY Zenon DEF Default
    <3>3. GPU # ""
      BY Zenon DEF GPU
    <3>4. w.accelerator = OrText(t.accelerator, GPU) \/ t.mode # "Accelerator"
      <4>1. CASE t = s
        BY <3>2, <4>1, Zenon
      <4>2. CASE t = w
        BY <1>3, <3>1, <3>2, <3>3, <4>2, Zenon DEF OrText, Default
      <4> QED
        BY <4>1, <4>2, Zenon
    <3>5. t.accelerator = w.accelerator \/ t.mode # "CPU"
      BY <1>3, <3>2, Zenon DEF Default
    <3> QED
      BY <1>3, <3>1, <3>3, <3>4, <3>5, Zenon
  <2> QED
    BY <1>5, <2>1, <2>2, Zenon
<1> QED
  BY <1>5, <1>6, <1>7, <1>8, <1>9, Zenon DEF Arguments

-----------------------------------------------------------------------------
(* The invariant: what is stored is the submission or its defaulted form,  *)
(* and what the later steps hold was made from a valid one of the two.     *)
ContractInv ==
  /\ pc \in {"submitted", "stored", "rejected", "invalid", "configured", "serving"}
  /\ submitted \in SpecType /\ stored \in {submitted, Default(submitted)}
  /\ pc \in {"configured", "serving"} =>
       ValidateModelDeployment(stored) /\ document = Encode(ConfigOf(stored))
  /\ pc = "serving" => argv = Arguments(ConfigOf(stored))

(* The invariant holds of every behaviour.                                 *)
THEOREM ContractInvariant == ContractSpec => []ContractInv
<1>1. ContractInit => ContractInv
  BY ContractAssumption, Zenon DEF ContractInit, ContractInv
<1>2. ContractInv /\ [ContractNext]_contractVars => ContractInv'
  <2> SUFFICES ASSUME ContractInv, [ContractNext]_contractVars PROVE ContractInv'
    OBVIOUS
  <2>1. stored \in SpecType
    BY DefaultIsSpec, Zenon DEF ContractInv
  <2>2. CASE Admit
    BY <2>2, Zenon DEF Admit, ContractInv
  <2>3. CASE AdmitUnchecked
    BY <2>3, Zenon DEF AdmitUnchecked, ContractInv
  <2>4. CASE Reconcile
    <3>1. ValidateModelDeployment(stored) => ConfigValid(ConfigOf(stored))
      BY <2>1, ValidGivesValidConfig, Zenon
    <3>2. \/ pc' = "invalid"
          \/ /\ pc' = "configured" /\ ValidateModelDeployment(stored)
             /\ document' = Encode(ConfigOf(stored))
      BY <2>4, <3>1, Zenon DEF Reconcile, ConfigOf
    <3>3. submitted' = submitted /\ stored' = stored
      BY <2>4, Zenon DEF Reconcile
    <3> QED
      BY <3>2, <3>3, Zenon DEF ContractInv
  <2>5. CASE Start
    <3>1. ValidateModelDeployment(stored) /\ document = Encode(ConfigOf(stored))
      BY <2>5, Zenon DEF Start, ContractInv
    <3>2. ConfigOf(stored) \in ConfigType /\ ConfigValid(ConfigOf(stored))
      BY <2>1, <3>1, ConfigFields, ValidGivesValidConfig, Zenon
    <3>3. Decode(document) = ConfigOf(stored)
      BY <3>1, <3>2, RoundTrip, Zenon
    <3>4. pc' = "serving" /\ argv' = Arguments(ConfigOf(stored))
      BY <2>5, <3>2, <3>3, Zenon DEF Start
    <3>5. submitted' = submitted /\ stored' = stored /\ document' = document
      BY <2>5, Zenon DEF Start
    <3> QED
      BY <3>1, <3>4, <3>5, Zenon DEF ContractInv
  <2>6. CASE UNCHANGED contractVars
    BY <2>6, Zenon DEF contractVars, ContractInv
  <2> QED
    BY <2>2, <2>3, <2>4, <2>5, <2>6, Zenon DEF ContractNext
<1> QED
  BY <1>1, <1>2, PTL DEF ContractSpec

(* Neither the controller nor the supervisor refuses a configuration made  *)
(* from a specification that the validation accepts, whatever the limits.  *)
THEOREM ValidSpecsAreServable == ContractSpec => []ValidIsServable
<1>1. ContractInv => ValidIsServable
  BY Zenon DEF ContractInv, ValidIsServable
<1> QED
  BY <1>1, ContractInvariant, PTL

(* llama-server is started with what was asked for, with or without the    *)
(* webhook; the context of all slots is the exact product.                 *)
THEOREM ServedAsAsked == ContractSpec => []ServesWhatWasAsked
<1>1. ContractInv => ServesWhatWasAsked
  <2> SUFFICES ASSUME ContractInv, pc = "serving" PROVE ServesWhatWasAsked
    BY Zenon DEF ServesWhatWasAsked
  <2>1. /\ submitted \in SpecType /\ stored \in {submitted, Default(submitted)}
        /\ ValidateModelDeployment(stored) /\ argv = Arguments(ConfigOf(stored))
    BY Zenon DEF ContractInv
  <2> DEFINE asked == Default(submitted)
  <2>2. /\ argv.parallel = asked.concurrency
        /\ argv.ctxSize = Or(asked.context, 0) * asked.concurrency
        /\ argv.drain * Second >= asked.drain /\ (argv.drain - 1) * Second < asked.drain
        /\ argv.keyType = asked.keyType /\ argv.valueType = asked.valueType
        /\ argv.batch = asked.batch /\ argv.micro = asked.micro /\ argv.flash = asked.flash
        /\ argv.threads = asked.threads /\ argv.batchThreads = asked.batchThreads
        /\ argv.device = (IF asked.accelerator = "" THEN "none" ELSE "all")
    BY <2>1, ArgumentsServe, ZenonT(30)
  <2> HIDE DEF asked
  <2> QED
    BY <2>2, Zenon DEF ServesWhatWasAsked, asked
<1> QED
  BY <1>1, ContractInvariant, PTL

-----------------------------------------------------------------------------
(* The inductive invariant. *)

(* The child's queue, and what drain has read of it. *)
QueueInv ==
  /\ processing <= DesiredConcurrency /\ slotsRead <= DesiredConcurrency
  /\ processing + deferred <= MaxRequests
  /\ deferred > 0 => processing = DesiredConcurrency

(* How far Run has come, and the process it has started. *)
StartInv ==
  /\ run \in {"validating", "starting"} => proc = "none"
  /\ run \in {"validating", "starting", "spawned"} => ~child /\ ~childDone
  /\ ~child => waiter = "none" /\ monitor = "none"
  /\ child => waiter # "none" /\ proc # "none"
  /\ Alive => child \/ run = "spawned"
  /\ run = "spawned" => proc # "none"
  /\ waiter \in {"reaped", "done"} => proc = "dead"
  /\ child /\ childDone => waiter = "done"

(* The exported phase against the goroutines that write it. *)
PhaseInv ==
  /\ run = "validating" => phase \in {"Initializing", "Draining"}
  /\ run \in {"starting", "spawned"} => phase \in {"Loading", "Draining"}
  /\ waiter = "waiting" => phase \notin {"LoadFailed", "Exited"}
  /\ waiter \in {"reaped", "done"} => Terminal(phase)
  /\ ready <=> phase = "Ready"

(* What a probe has established when its result is applied. *)
ProbeInv ==
  /\ monitor \in {"accelerator", "commit"} => conforms
  /\ monitor = "commit" /\ Accelerator => visible > 0
  /\ ready => becameReady /\ conforms /\ child /\ (Accelerator => visible > 0)

Inv == TypeOK /\ QueueInv /\ StartInv /\ PhaseInv /\ ProbeInv

-----------------------------------------------------------------------------
(* Operators. *)

(* The largest of three numbers is one of them. *)
LEMMA MaxOfThree ==
  ASSUME NEW a \in Int, NEW b \in Int, NEW c \in Int
  PROVE  /\ Max({a, b, c}) \in {a, b, c}
         /\ \A x \in {a, b, c} : Max({a, b, c}) >= x
  <1>1. \E x \in {a, b, c} : \A y \in {a, b, c} : x >= y OBVIOUS
  <1> QED BY <1>1, Zenon DEF Max

(* updateVisibleAcceleratorsLocked: the count stays in range, never falls,   *)
(* and covers every device seen.                                             *)
LEMMA VisibleGrows ==
  ASSUME TypeOK, devices' \subseteq CUDADevices,
         NEW n \in 0 .. Cardinality(CUDADevices),
         visible' = Max({n, visible, Cardinality(devices')})
  PROVE  visible' \in 0 .. Cardinality(CUDADevices) /\ visible' >= visible
  <1>1. /\ Cardinality(CUDADevices) \in Nat
        /\ Cardinality(devices') \in 0 .. Cardinality(CUDADevices)
    BY ConfigAssumption, Zenon
  <1>2. visible \in 0 .. Cardinality(CUDADevices) BY Zenon DEF TypeOK
  <1>3. n \in Int /\ visible \in Int /\ Cardinality(devices') \in Int
    BY <1>1, <1>2
  <1>4. /\ visible' \in {n, visible, Cardinality(devices')}
        /\ visible' >= visible
    BY <1>3, MaxOfThree, Zenon
  <1> QED BY <1>1, <1>2, <1>4, Zenon

-----------------------------------------------------------------------------
(* One step per action, and under it one per conjunct it can disturb. *)

(* A conjunct is kept by a step that leaves the state it speaks of alone. *)
LEMMA Frame ==
  /\ QueueInv /\ UNCHANGED <<processing, slotsRead, deferred>> => QueueInv'
  /\ StartInv /\ UNCHANGED <<run, proc, child, childDone, waiter, monitor>> => StartInv'
  /\ PhaseInv /\ UNCHANGED <<run, phase, waiter, ready>> => PhaseInv'
  /\ ProbeInv /\ UNCHANGED <<monitor, conforms, visible, ready, becameReady, child>> =>
       ProbeInv'
  BY DEF QueueInv, StartInv, Alive, PhaseInv, Terminal, ProbeInv

(* So is every conjunct by a stutter. *)
LEMMA Unchanged == Inv /\ UNCHANGED vars => Inv'
  <1> SUFFICES ASSUME Inv, UNCHANGED vars PROVE Inv' OBVIOUS
  <1> USE DEF vars, stateVars, childVars, logVars, probeVars, eventVars, drainVars, envVars,
       procVars, requestVars
  <1>1. TypeOK' BY DEF Inv, TypeOK
  <1> QED BY <1>1, Frame, Zenon DEF Inv

(* Run and startChild. *)
LEMMA RunStep == ASSUME Inv PROVE Run => Inv'
  <1> USE ConfigAssumption DEF Inv, TypeOK, stateVars, childVars, logVars, probeVars,
       eventVars, drainVars, envVars, procVars, requestVars
  <1>1. RunRejects => Inv'
    <2> HAVE RunRejects
    <2>1. TypeOK'
      <3>1. run' = "select" BY Zenon DEF RunRejects, fail, setPhase
      <3>2. phase' \in {"Initializing", "Loading", "Ready", "Draining", "LoadFailed",
           "Exited"}
        BY Zenon DEF RunRejects, fail, setPhase
      <3>3. ready' \in BOOLEAN BY Zenon DEF RunRejects, fail, setPhase
      <3>4. becameReady' \in BOOLEAN BY Zenon DEF RunRejects, fail, setPhase
      <3>5. childDone' = TRUE BY Zenon DEF RunRejects, fail, setPhase
      <3>6. UNCHANGED <<waiter, monitor, drain, child, devices, visible, layers,
           probeActive, activeRequests, ctxDone, listenerFailed, expired, slotsRead,
           proc, conforms, termSent, processing, deferred, routed>>
        BY Zenon DEF RunRejects, fail, setPhase
      <3> QED BY <3>1, <3>2, <3>3, <3>4, <3>5, <3>6
    <2>2. StartInv' BY Zenon DEF StartInv, Alive, RunRejects, fail, setPhase
    <2>3. PhaseInv'
      BY Zenon DEF StartInv, Alive, PhaseInv, Terminal, RunRejects, fail, setPhase
    <2>4. ProbeInv' BY Zenon DEF ProbeInv, RunRejects, fail, setPhase
    <2>5. QueueInv' BY Frame, Zenon DEF RunRejects, fail, setPhase
    <2> QED BY <2>1, <2>2, <2>3, <2>4, <2>5, Zenon DEF Inv
  <1>2. startChildLoading => Inv'
    <2> HAVE startChildLoading
    <2>1. TypeOK'
      <3>1. run' = "starting" BY Zenon DEF startChildLoading, setPhase
      <3>2. phase' \in {"Initializing", "Loading", "Ready", "Draining", "LoadFailed",
           "Exited"}
        BY Zenon DEF startChildLoading, setPhase
      <3>3. ready' \in BOOLEAN BY Zenon DEF startChildLoading, setPhase
      <3>4. becameReady' \in BOOLEAN BY Zenon DEF startChildLoading, setPhase
      <3>5. UNCHANGED <<waiter, monitor, drain, child, childDone, devices, visible,
           layers, probeActive, activeRequests, ctxDone, listenerFailed, expired,
           slotsRead, proc, conforms, termSent, processing, deferred, routed>>
        BY Zenon DEF startChildLoading, setPhase
      <3> QED BY <3>1, <3>2, <3>3, <3>4, <3>5
    <2>2. StartInv' BY Zenon DEF StartInv, Alive, startChildLoading, setPhase
    <2>3. PhaseInv'
      BY Zenon DEF StartInv, Alive, PhaseInv, Terminal, startChildLoading, setPhase
    <2>4. ProbeInv' BY Zenon DEF ProbeInv, startChildLoading, setPhase
    <2>5. QueueInv' BY Frame, Zenon DEF startChildLoading, setPhase
    <2> QED BY <2>1, <2>2, <2>3, <2>4, <2>5, Zenon DEF Inv
  <1>3. startChildFails => Inv'
    <2> HAVE startChildFails
    <2>1. TypeOK'
      <3>1. run' = "select" BY Zenon DEF startChildFails, fail, setPhase
      <3>2. phase' \in {"Initializing", "Loading", "Ready", "Draining", "LoadFailed",
           "Exited"}
        BY Zenon DEF startChildFails, fail, setPhase
      <3>3. ready' \in BOOLEAN BY Zenon DEF startChildFails, fail, setPhase
      <3>4. becameReady' \in BOOLEAN BY Zenon DEF startChildFails, fail, setPhase
      <3>5. childDone' = TRUE BY Zenon DEF startChildFails, fail, setPhase
      <3>6. UNCHANGED <<waiter, monitor, drain, child, devices, visible, layers,
           probeActive, activeRequests, ctxDone, listenerFailed, expired, slotsRead,
           proc, conforms, termSent, processing, deferred, routed>>
        BY Zenon DEF startChildFails, fail, setPhase
      <3> QED BY <3>1, <3>2, <3>3, <3>4, <3>5, <3>6
    <2>2. StartInv' BY Zenon DEF StartInv, Alive, startChildFails, fail, setPhase
    <2>3. PhaseInv'
      BY Zenon DEF StartInv, Alive, PhaseInv, Terminal, startChildFails, fail, setPhase
    <2>4. ProbeInv' BY Zenon DEF ProbeInv, startChildFails, fail, setPhase
    <2>5. QueueInv' BY Frame, Zenon DEF startChildFails, fail, setPhase
    <2> QED BY <2>1, <2>2, <2>3, <2>4, <2>5, Zenon DEF Inv
  <1>4. startChildSpawns => Inv'
    <2> HAVE startChildSpawns
    <2>1. TypeOK' BY DEF startChildSpawns
    <2>2. StartInv' BY Zenon DEF StartInv, Alive, startChildSpawns
    <2>3. PhaseInv' BY Zenon DEF PhaseInv, Terminal, startChildSpawns
    <2>4. ProbeInv'
      BY Zenon DEF PhaseInv, Terminal, StartInv, Alive, ProbeInv, startChildSpawns
    <2>5. QueueInv' BY Frame, Zenon DEF startChildSpawns
    <2> QED BY <2>1, <2>2, <2>3, <2>4, <2>5, Zenon DEF Inv
  <1>5. startChildRegisters => Inv'
    <2> HAVE startChildRegisters
    <2>1. TypeOK' BY DEF startChildRegisters
    <2>2. StartInv' BY Zenon DEF StartInv, Alive, startChildRegisters
    <2>3. PhaseInv' BY Zenon DEF PhaseInv, Terminal, startChildRegisters
    <2>4. ProbeInv' BY Zenon DEF ProbeInv, startChildRegisters
    <2>5. QueueInv' BY Frame, Zenon DEF startChildRegisters
    <2> QED BY <2>1, <2>2, <2>3, <2>4, <2>5, Zenon DEF Inv
  <1>6. RunSelect => Inv'
    <2> HAVE RunSelect
    <2>1. TypeOK' BY DEF RunSelect, initiateDrain
    <2>2. StartInv' BY Zenon DEF StartInv, Alive, RunSelect, initiateDrain
    <2>3. PhaseInv' BY Zenon DEF PhaseInv, Terminal, RunSelect, initiateDrain
    <2>4. QueueInv' /\ ProbeInv' BY Frame, Zenon DEF RunSelect, initiateDrain
    <2> QED BY <2>1, <2>2, <2>3, <2>4, Zenon DEF Inv
  <1>7. RunReturns => Inv'
    <2> HAVE RunReturns
    <2>1. TypeOK' BY DEF RunReturns
    <2>2. StartInv' BY Zenon DEF StartInv, Alive, RunReturns
    <2>3. PhaseInv' BY Zenon DEF PhaseInv, Terminal, RunReturns
    <2>4. QueueInv' /\ ProbeInv' BY Frame, Zenon DEF RunReturns
    <2> QED BY <2>1, <2>2, <2>3, <2>4, Zenon DEF Inv
  <1> QED BY <1>1, <1>2, <1>3, <1>4, <1>5, <1>6, <1>7, Zenon DEF Run

(* waitForChild. *)
LEMMA WaiterStep == ASSUME Inv PROVE Waiter => Inv'
  <1> USE ConfigAssumption DEF Inv, TypeOK, stateVars, childVars, logVars, probeVars,
       eventVars, drainVars, envVars, procVars, requestVars
  <1>1. waitForChild => Inv'
    <2> HAVE waitForChild
    <2>1. TypeOK'
      <3>1. waiter' = "reaped" BY Zenon DEF waitForChild, setPhase
      <3>2. phase' \in {"Initializing", "Loading", "Ready", "Draining", "LoadFailed",
           "Exited"}
        BY Zenon DEF waitForChild, setPhase
      <3>3. ready' \in BOOLEAN BY Zenon DEF waitForChild, setPhase
      <3>4. becameReady' \in BOOLEAN BY Zenon DEF waitForChild, setPhase
      <3>5. UNCHANGED <<run, monitor, drain, child, childDone, devices, visible, layers,
           probeActive, activeRequests, ctxDone, listenerFailed, expired, slotsRead,
           proc, conforms, termSent, processing, deferred, routed>>
        BY Zenon DEF waitForChild, setPhase
      <3> QED BY <3>1, <3>2, <3>3, <3>4, <3>5
    <2>2. StartInv' BY Zenon DEF StartInv, Alive, waitForChild, setPhase
    <2>3. PhaseInv'
      <3>1. /\ run' \notin {"validating", "starting", "spawned"}
            /\ waiter' = "reaped"
        BY Zenon DEF StartInv, waitForChild
      <3>2. Terminal(phase') /\ (ready' <=> phase' = "Ready")
        <4>1. CASE phase = "Draining"
          BY <4>1, Zenon DEF PhaseInv, Terminal, waitForChild, stateVars
        <4>2. CASE phase # "Draining"
          BY <4>2, Zenon DEF Terminal, waitForChild, setPhase
        <4> QED BY <4>1, <4>2, Zenon
      <3> QED BY <3>1, <3>2, Zenon DEF PhaseInv, Terminal
    <2>4. ProbeInv' BY Zenon DEF ProbeInv, waitForChild, setPhase
    <2>5. QueueInv' BY Frame, Zenon DEF waitForChild, setPhase
    <2> QED BY <2>1, <2>2, <2>3, <2>4, <2>5, Zenon DEF Inv
  <1>2. closeChildDone => Inv'
    <2> HAVE closeChildDone
    <2>1. TypeOK' BY DEF closeChildDone
    <2>2. StartInv' BY Zenon DEF StartInv, Alive, closeChildDone
    <2>3. PhaseInv' BY Zenon DEF PhaseInv, Terminal, closeChildDone
    <2>4. QueueInv' /\ ProbeInv' BY Frame, Zenon DEF closeChildDone
    <2> QED BY <2>1, <2>2, <2>3, <2>4, Zenon DEF Inv
  <1> QED BY <1>1, <1>2, Zenon DEF Waiter

(* monitorChild and updateReadiness. *)
LEMMA MonitorStep == ASSUME Inv PROVE Monitor => Inv'
  <1> USE ConfigAssumption DEF Inv, TypeOK, stateVars, childVars, logVars, probeVars,
       eventVars, drainVars, envVars, procVars, requestVars
  <1>1. MonitorCheck => Inv'
    <2> HAVE MonitorCheck
    <2>1. TypeOK' BY DEF MonitorCheck, MonitorAt, Terminal
    <2>2. StartInv' BY Zenon DEF StartInv, Alive, MonitorCheck, MonitorAt, Terminal
    <2>3. ProbeInv' BY Zenon DEF ProbeInv, MonitorCheck, MonitorAt, Terminal
    <2>4. QueueInv' /\ PhaseInv' BY Frame, Zenon DEF MonitorCheck, MonitorAt, Terminal
    <2> QED BY <2>1, <2>2, <2>3, <2>4, Zenon DEF Inv
  <1>2. MonitorHealth => Inv'
    <2> HAVE MonitorHealth
    <2>1. TypeOK' BY DEF MonitorHealth, MonitorAt
    <2>2. StartInv' BY DEF StartInv, Alive, MonitorHealth, MonitorAt
    <2>3. ProbeInv' BY Zenon DEF ProbeInv, MonitorHealth, MonitorAt
    <2>4. QueueInv' /\ PhaseInv' BY Frame, Zenon DEF MonitorHealth, MonitorAt
    <2> QED BY <2>1, <2>2, <2>3, <2>4, Zenon DEF Inv
  <1>3. MonitorContract => Inv'
    <2> HAVE MonitorContract
    <2>1. TypeOK' BY DEF MonitorContract, MonitorAt
    <2>2. StartInv' BY DEF StartInv, Alive, MonitorContract, MonitorAt
    <2>3. ProbeInv' BY Zenon DEF ProbeInv, MonitorContract, MonitorAt
    <2>4. QueueInv' /\ PhaseInv' BY Frame, Zenon DEF MonitorContract, MonitorAt
    <2> QED BY <2>1, <2>2, <2>3, <2>4, Zenon DEF Inv
  <1>4. MonitorAccelerator => Inv'
    <2> HAVE MonitorAccelerator
    <2>1. TypeOK' BY DEF MonitorAccelerator, MonitorAt, AcceleratorConfirmed
    <2>2. StartInv'
      BY Zenon DEF StartInv, Alive, MonitorAccelerator, MonitorAt, AcceleratorConfirmed
    <2>3. ProbeInv' BY DEF ProbeInv, MonitorAccelerator, MonitorAt, AcceleratorConfirmed
    <2>4. QueueInv' /\ PhaseInv'
      BY Frame, Zenon DEF MonitorAccelerator, MonitorAt, AcceleratorConfirmed
    <2> QED BY <2>1, <2>2, <2>3, <2>4, Zenon DEF Inv
  <1>5. MonitorSetLoading => Inv'
    <2> HAVE MonitorSetLoading
    <2>1. TypeOK'
      <3>1. monitor' = "tick"
        BY Zenon DEF MonitorSetLoading, setLoading, MonitorAt, setPhase, Terminal
      <3>2. phase' \in {"Initializing", "Loading", "Ready", "Draining", "LoadFailed",
           "Exited"}
        BY Zenon DEF MonitorSetLoading, setLoading, MonitorAt, setPhase, Terminal
      <3>3. ready' \in BOOLEAN
        BY Zenon DEF MonitorSetLoading, setLoading, MonitorAt, setPhase, Terminal
      <3>4. becameReady' \in BOOLEAN
        BY Zenon DEF MonitorSetLoading, setLoading, MonitorAt, setPhase, Terminal
      <3>5. UNCHANGED <<run, waiter, drain, child, childDone, devices, visible, layers,
           probeActive, activeRequests, ctxDone, listenerFailed, expired, slotsRead,
           proc, conforms, termSent, processing, deferred, routed>>
        BY Zenon DEF MonitorSetLoading, setLoading, MonitorAt, setPhase, Terminal
      <3> QED BY <3>1, <3>2, <3>3, <3>4, <3>5
    <2>2. StartInv'
      BY Zenon DEF StartInv, Alive, MonitorSetLoading, setLoading, MonitorAt, setPhase,
           Terminal
    <2>3. PhaseInv'
      <3>1. /\ run' \notin {"validating", "starting", "spawned"}
            /\ UNCHANGED <<run, waiter>>
        BY Zenon DEF StartInv, MonitorSetLoading, MonitorAt
      <3>2. CASE Terminal(phase)
        BY <3>1, <3>2, Zenon DEF PhaseInv, Terminal, MonitorSetLoading, setLoading, stateVars
      <3>3. CASE ~Terminal(phase)
        <4>1. phase' = "Loading" /\ ~ready'
          BY <3>3, Zenon DEF MonitorSetLoading, setLoading, setPhase
        <4> QED BY <3>1, <3>3, <4>1, Zenon DEF PhaseInv, Terminal
      <3> QED BY <3>2, <3>3, Zenon
    <2>4. ProbeInv'
      BY Zenon DEF ProbeInv, MonitorSetLoading, setLoading, MonitorAt, setPhase, Terminal
    <2>5. QueueInv'
      BY Frame, Zenon DEF MonitorSetLoading, setLoading, MonitorAt, setPhase, Terminal
    <2> QED BY <2>1, <2>2, <2>3, <2>4, <2>5, Zenon DEF Inv
  <1>6. MonitorCommit => Inv'
    <2> HAVE MonitorCommit
    <2>1. TypeOK'
      <3>1. monitor' = "tick" BY Zenon DEF MonitorCommit, MonitorAt, Terminal
      <3>2. phase' \in {"Initializing", "Loading", "Ready", "Draining", "LoadFailed",
           "Exited"}
        BY Zenon DEF MonitorCommit, MonitorAt, Terminal
      <3>3. ready' \in BOOLEAN BY Zenon DEF MonitorCommit, MonitorAt, Terminal
      <3>4. becameReady' \in BOOLEAN BY Zenon DEF MonitorCommit, MonitorAt, Terminal
      <3>5. activeRequests' \in 0 .. MaxRequests
        BY Zenon DEF MonitorCommit, MonitorAt, Terminal
      <3>6. UNCHANGED <<run, waiter, drain, child, childDone, devices, visible, layers,
           probeActive, ctxDone, listenerFailed, expired, slotsRead, proc, conforms,
           termSent, processing, deferred, routed>>
        BY Zenon DEF MonitorCommit, MonitorAt, Terminal
      <3> QED BY <3>1, <3>2, <3>3, <3>4, <3>5, <3>6
    <2>2. StartInv' BY Zenon DEF StartInv, Alive, MonitorCommit, MonitorAt, Terminal
    <2>3. PhaseInv' BY Zenon DEF StartInv, Alive, PhaseInv, Terminal, MonitorCommit, MonitorAt
    <2>4. ProbeInv'
      BY Zenon DEF PhaseInv, Terminal, StartInv, Alive, ProbeInv, MonitorCommit, MonitorAt
    <2>5. QueueInv' BY Frame, Zenon DEF MonitorCommit, MonitorAt, Terminal
    <2> QED BY <2>1, <2>2, <2>3, <2>4, <2>5, Zenon DEF Inv
  <1>7. MonitorTick => Inv'
    <2> HAVE MonitorTick
    <2>1. TypeOK' BY DEF MonitorTick, MonitorAt
    <2>2. StartInv' BY DEF StartInv, Alive, MonitorTick, MonitorAt
    <2>3. ProbeInv' BY Zenon DEF ProbeInv, MonitorTick, MonitorAt
    <2>4. QueueInv' /\ PhaseInv' BY Frame, Zenon DEF MonitorTick, MonitorAt
    <2> QED BY <2>1, <2>2, <2>3, <2>4, Zenon DEF Inv
  <1> QED BY <1>1, <1>2, <1>3, <1>4, <1>5, <1>6, <1>7, Zenon DEF Monitor

(* drain. *)
LEMMA DrainStep == ASSUME Inv PROVE Drain => Inv'
  <1> USE ConfigAssumption DEF Inv, TypeOK, stateVars, childVars, logVars, probeVars,
       eventVars, drainVars, envVars, procVars, requestVars
  <1>1. DrainBegin => Inv'
    <2> HAVE DrainBegin
    <2>1. TypeOK'
      <3>1. drain' \in {"idle", "begin", "propagate", "poll", "slots", "metrics",
           "signal", "waitChild", "killed", "done"}
        BY Zenon DEF DrainBegin, setPhase, DrainAt
      <3>2. phase' \in {"Initializing", "Loading", "Ready", "Draining", "LoadFailed",
           "Exited"}
        BY Zenon DEF DrainBegin, setPhase, DrainAt
      <3>3. ready' \in BOOLEAN BY Zenon DEF DrainBegin, setPhase, DrainAt
      <3>4. becameReady' \in BOOLEAN BY Zenon DEF DrainBegin, setPhase, DrainAt
      <3>5. UNCHANGED <<run, waiter, monitor, child, childDone, devices, visible,
           layers, probeActive, activeRequests, ctxDone, listenerFailed, expired,
           slotsRead, proc, conforms, termSent, processing, deferred, routed>>
        BY Zenon DEF DrainBegin, setPhase, DrainAt
      <3> QED BY <3>1, <3>2, <3>3, <3>4, <3>5
    <2>2. PhaseInv' BY Zenon DEF PhaseInv, Terminal, DrainBegin, setPhase, DrainAt
    <2>3. ProbeInv' BY Zenon DEF ProbeInv, DrainBegin, setPhase, DrainAt
    <2>4. QueueInv' /\ StartInv' BY Frame, Zenon DEF DrainBegin, setPhase, DrainAt
    <2> QED BY <2>1, <2>2, <2>3, <2>4, Zenon DEF Inv
  <1>2. DrainPropagated => Inv'
    <2> HAVE DrainPropagated
    <2>1. TypeOK' BY DEF DrainPropagated, DrainAt
    <2>2. QueueInv' /\ StartInv' /\ PhaseInv' /\ ProbeInv'
      BY Frame, Zenon DEF DrainPropagated, DrainAt
    <2> QED BY <2>1, <2>2, Zenon DEF Inv
  <1>3. DrainPoll => Inv'
    <2> HAVE DrainPoll
    <2>1. TypeOK' BY DEF DrainPoll, DrainAt
    <2>2. QueueInv' /\ StartInv' /\ PhaseInv' /\ ProbeInv'
      BY Frame, Zenon DEF DrainPoll, DrainAt
    <2> QED BY <2>1, <2>2, Zenon DEF Inv
  <1>4. DrainReadSlots => Inv'
    <2> HAVE DrainReadSlots
    <2>1. TypeOK' BY DEF DrainReadSlots, DrainAt
    <2>2. QueueInv' BY Zenon DEF QueueInv, DrainReadSlots, DrainAt
    <2>3. StartInv' /\ PhaseInv' /\ ProbeInv' BY Frame, Zenon DEF DrainReadSlots, DrainAt
    <2> QED BY <2>1, <2>2, <2>3, Zenon DEF Inv
  <1>5. DrainReadMetrics => Inv'
    <2> HAVE DrainReadMetrics
    <2>1. TypeOK'
      <3>1. activeRequests' \in 0 .. MaxRequests
        BY DEF QueueInv, DrainReadMetrics, DrainAt
      <3>2. drain' \in {"poll", "signal"} BY Zenon DEF DrainReadMetrics, DrainAt
      <3>3. UNCHANGED <<run, waiter, monitor, phase, ready, becameReady, child,
           childDone, devices, visible, layers, probeActive, ctxDone, listenerFailed,
           expired, slotsRead, proc, conforms, termSent, processing, deferred, routed>>
        BY Zenon DEF DrainReadMetrics, DrainAt
      <3> QED BY <3>1, <3>2, <3>3
    <2>2. QueueInv' /\ StartInv' /\ PhaseInv' /\ ProbeInv'
      BY Frame, Zenon DEF DrainReadMetrics, DrainAt
    <2> QED BY <2>1, <2>2, Zenon DEF Inv
  <1>6. DrainSignal => Inv'
    <2> HAVE DrainSignal
    <2>1. TypeOK' BY DEF DrainSignal, DrainAt
    <2>2. QueueInv' /\ StartInv' /\ PhaseInv' /\ ProbeInv'
      BY Frame, Zenon DEF DrainSignal, DrainAt
    <2> QED BY <2>1, <2>2, Zenon DEF Inv
  <1>7. DrainKill => Inv'
    <2> HAVE DrainKill
    <2>1. TypeOK' BY DEF DrainKill, DrainAt
    <2>2. QueueInv' /\ StartInv' /\ PhaseInv' /\ ProbeInv'
      BY Frame, Zenon DEF DrainKill, DrainAt
    <2> QED BY <2>1, <2>2, Zenon DEF Inv
  <1>8. DrainChildGone => Inv'
    <2> HAVE DrainChildGone
    <2>1. TypeOK'
      <3>1. drain' \in {"idle", "begin", "propagate", "poll", "slots", "metrics",
           "signal", "waitChild", "killed", "done"}
        BY Zenon DEF DrainChildGone, DrainAt
      <3>2. UNCHANGED <<run, waiter, monitor, phase, ready, becameReady, child,
           childDone, devices, visible, layers, probeActive, activeRequests, ctxDone,
           listenerFailed, expired, slotsRead, proc, conforms, termSent, processing,
           deferred, routed>>
        BY Zenon DEF DrainChildGone, DrainAt
      <3> QED BY <3>1, <3>2
    <2>2. QueueInv' /\ StartInv' /\ PhaseInv' /\ ProbeInv'
      BY Frame, Zenon DEF DrainChildGone, DrainAt
    <2> QED BY <2>1, <2>2, Zenon DEF Inv
  <1> QED BY <1>1, <1>2, <1>3, <1>4, <1>5, <1>6, <1>7, <1>8, Zenon DEF Drain

(* The observers of the child's log. *)
LEMMA LogStep == ASSUME Inv PROVE Log => Inv'
  <1> USE ConfigAssumption DEF Inv, TypeOK, stateVars, childVars, logVars, probeVars,
       eventVars, drainVars, envVars, procVars, requestVars
  <1>1. ObserveCount => Inv'
    <2> HAVE ObserveCount
    <2>1. TypeOK' /\ visible' >= visible
      <3>1. devices' \subseteq CUDADevices BY Zenon DEF ObserveCount
      <3>2. visible' \in 0 .. Cardinality(CUDADevices) /\ visible' >= visible
        BY <3>1, VisibleGrows, Zenon DEF ObserveCount, updateVisibleAccelerators
      <3>3. UNCHANGED <<run, waiter, monitor, drain, phase, ready, becameReady, child,
           childDone, layers, probeActive, activeRequests, ctxDone, listenerFailed,
           expired, slotsRead, proc, conforms, termSent, processing, deferred, routed>>
        BY Zenon DEF ObserveCount, ObserveLog
      <3> QED BY <3>1, <3>2, <3>3
    <2>2. ProbeInv'
      <3>1. visible > 0 => visible' > 0
        BY <2>1, ConfigAssumption DEF TypeOK
      <3>2. UNCHANGED <<monitor, conforms, ready, becameReady, child>>
        BY Zenon DEF ObserveCount, ObserveLog
      <3> QED BY <3>1, <3>2, Zenon DEF ProbeInv
    <2>3. QueueInv' /\ StartInv' /\ PhaseInv' BY Frame, Zenon DEF ObserveCount, ObserveLog
    <2> QED BY <2>1, <2>2, <2>3, Zenon DEF Inv
  <1>2. observeCUDADevice => Inv'
    <2> HAVE observeCUDADevice
    <2>1. TypeOK' /\ visible' >= visible
      <3>1. devices' \subseteq CUDADevices BY Zenon DEF observeCUDADevice
      <3>4. Cardinality(devices') \in 0 .. Cardinality(CUDADevices)
        BY <3>1, ConfigAssumption, Zenon
      <3>2. visible' \in 0 .. Cardinality(CUDADevices) /\ visible' >= visible
        BY <3>1, <3>4, VisibleGrows, Zenon DEF observeCUDADevice, updateVisibleAccelerators
      <3>3. UNCHANGED <<run, waiter, monitor, drain, phase, ready, becameReady, child,
           childDone, layers, probeActive, activeRequests, ctxDone, listenerFailed,
           expired, slotsRead, proc, conforms, termSent, processing, deferred, routed>>
        BY Zenon DEF observeCUDADevice, ObserveLog
      <3> QED BY <3>1, <3>2, <3>3
    <2>2. ProbeInv'
      <3>1. visible > 0 => visible' > 0
        BY <2>1, ConfigAssumption DEF TypeOK
      <3>2. UNCHANGED <<monitor, conforms, ready, becameReady, child>>
        BY Zenon DEF observeCUDADevice, ObserveLog
      <3> QED BY <3>1, <3>2, Zenon DEF ProbeInv
    <2>3. QueueInv' /\ StartInv' /\ PhaseInv' BY Frame, Zenon DEF observeCUDADevice, ObserveLog
    <2> QED BY <2>1, <2>2, <2>3, Zenon DEF Inv
  <1>3. ObserveOffload => Inv'
    <2> HAVE ObserveOffload
    <2>1. TypeOK' BY DEF ObserveOffload, ObserveLog
    <2>2. QueueInv' /\ StartInv' /\ PhaseInv' /\ ProbeInv'
      BY Frame, Zenon DEF ObserveOffload, ObserveLog
    <2> QED BY <2>1, <2>2, Zenon DEF Inv
  <1> QED BY <1>1, <1>2, <1>3, Zenon DEF Log

(* The environment. *)
LEMMA EnvironmentStep == ASSUME Inv PROVE Environment => Inv'
  <1> USE ConfigAssumption DEF Inv, TypeOK, stateVars, childVars, logVars, probeVars,
       eventVars, drainVars, envVars, procVars, requestVars
  <1>1. handleDrain => Inv'
    <2> HAVE handleDrain
    <2>1. TypeOK' BY DEF handleDrain, initiateDrain
    <2>2. QueueInv' /\ StartInv' /\ PhaseInv' /\ ProbeInv'
      BY Frame, Zenon DEF handleDrain, initiateDrain
    <2> QED BY <2>1, <2>2, Zenon DEF Inv
  <1>2. Signalled => Inv'
    <2> HAVE Signalled
    <2>1. TypeOK' BY DEF Signalled, EnvUnchanged
    <2>2. QueueInv' /\ StartInv' /\ PhaseInv' /\ ProbeInv'
      BY Frame, Zenon DEF Signalled, EnvUnchanged
    <2> QED BY <2>1, <2>2, Zenon DEF Inv
  <1>3. ListenerFails => Inv'
    <2> HAVE ListenerFails
    <2>1. TypeOK' BY DEF ListenerFails, EnvUnchanged
    <2>2. QueueInv' /\ StartInv' /\ PhaseInv' /\ ProbeInv'
      BY Frame, Zenon DEF ListenerFails, EnvUnchanged
    <2> QED BY <2>1, <2>2, Zenon DEF Inv
  <1>4. DeadlineExpires => Inv'
    <2> HAVE DeadlineExpires
    <2>1. TypeOK' BY DEF DeadlineExpires, EnvUnchanged
    <2>2. QueueInv' /\ StartInv' /\ PhaseInv' /\ ProbeInv'
      BY Frame, Zenon DEF DeadlineExpires, EnvUnchanged
    <2> QED BY <2>1, <2>2, Zenon DEF Inv
  <1>5. ChildLoads => Inv'
    <2> HAVE ChildLoads
    <2>1. TypeOK' BY DEF ChildLoads, EnvUnchanged
    <2>2. StartInv' BY Zenon DEF StartInv, Alive, ChildLoads, EnvUnchanged
    <2>3. QueueInv' /\ PhaseInv' /\ ProbeInv' BY Frame, Zenon DEF ChildLoads, EnvUnchanged
    <2> QED BY <2>1, <2>2, <2>3, Zenon DEF Inv
  <1>6. ChildExits => Inv'
    <2> HAVE ChildExits
    <2>1. TypeOK' BY DEF ChildExits, EnvUnchanged
    <2>2. QueueInv' BY DEF QueueInv, ChildExits, EnvUnchanged
    <2>3. StartInv' BY Zenon DEF StartInv, Alive, ChildExits, EnvUnchanged
    <2>4. PhaseInv' /\ ProbeInv' BY Frame, Zenon DEF ChildExits, EnvUnchanged
    <2> QED BY <2>1, <2>2, <2>3, <2>4, Zenon DEF Inv
  <1>7. RequestArrives => Inv'
    <2> HAVE RequestArrives
    <2>1. TypeOK' BY DEF RequestArrives, EnvUnchanged
    <2>2. QueueInv' BY DEF QueueInv, RequestArrives, EnvUnchanged
    <2>3. StartInv' /\ PhaseInv' /\ ProbeInv' BY Frame, Zenon DEF RequestArrives, EnvUnchanged
    <2> QED BY <2>1, <2>2, <2>3, Zenon DEF Inv
  <1>8. RequestEnds => Inv'
    <2> HAVE RequestEnds
    <2>1. TypeOK' BY DEF RequestEnds, EnvUnchanged
    <2>2. QueueInv' BY DEF QueueInv, RequestEnds, EnvUnchanged
    <2>3. StartInv' /\ PhaseInv' /\ ProbeInv' BY Frame, Zenon DEF RequestEnds, EnvUnchanged
    <2> QED BY <2>1, <2>2, <2>3, Zenon DEF Inv
  <1>9. EndpointsFollow => Inv'
    <2> HAVE EndpointsFollow
    <2>1. TypeOK' BY DEF EndpointsFollow, EnvUnchanged, handleReady
    <2>2. QueueInv' /\ StartInv' /\ PhaseInv' /\ ProbeInv'
      BY Frame, Zenon DEF EndpointsFollow, EnvUnchanged, handleReady
    <2> QED BY <2>1, <2>2, Zenon DEF Inv
  <1>10. Returned => Inv' BY Unchanged, Zenon DEF Returned
  <1> QED BY <1>1, <1>2, <1>3, <1>4, <1>5, <1>6, <1>7, <1>8, <1>9, <1>10, Zenon DEF Environment

-----------------------------------------------------------------------------
(* A drain that does not overtake startChild, and the requests it waits for. *)

(* When handleDrain is served only after startChild has returned: a drain    *)
(* implies that the start is over, its phase is not overwritten, and it      *)
(* finishes only without a child or after the child was reaped.              *)
DrainInv ==
  /\ drain # "idle" => run \notin {"validating", "starting", "spawned"}
  /\ drain \notin {"idle", "begin"} => phase = "Draining"
  /\ drain = "done" => childDone \/ ~child
  /\ run = "returned" => drain = "done"

(* When the propagation delay suffices, no request arrives once drain polls, *)
(* so that reading /slots before /metrics misses none.                       *)
RequestInv ==
  /\ drain \notin {"idle", "begin", "propagate"} => ~routed
  /\ drain = "metrics" /\ slotsRead = 0 => processing = 0 /\ deferred = 0
  /\ drain = "signal" => expired \/ (processing = 0 /\ deferred = 0)

(* Every step keeps DrainInv. *)
LEMMA DrainInvStep ==
  ASSUME ~EarlyDrain, Inv, DrainInv
  PROVE  [Next]_vars => DrainInv'
  <1> USE DEF stateVars, childVars, logVars, probeVars, eventVars, drainVars, envVars,
       procVars, requestVars
  <1>1. RunRejects => DrainInv' BY Zenon DEF DrainInv, RunRejects, fail, setPhase
  <1>2. startChildLoading => DrainInv' BY Zenon DEF DrainInv, startChildLoading, setPhase
  <1>3. startChildFails => DrainInv' BY Zenon DEF DrainInv, startChildFails, fail, setPhase
  <1>4. startChildSpawns => DrainInv' BY Zenon DEF DrainInv, startChildSpawns
  <1>5. startChildRegisters => DrainInv' BY Zenon DEF DrainInv, startChildRegisters
  <1>6. RunSelect => DrainInv' BY DEF DrainInv, RunSelect, initiateDrain
  <1>7. RunReturns => DrainInv' BY DEF DrainInv, RunReturns
  <1>8. waitForChild => DrainInv' BY DEF DrainInv, waitForChild, setPhase
  <1>9. closeChildDone => DrainInv' BY Zenon DEF DrainInv, closeChildDone
  <1>10. MonitorSetLoading => DrainInv'
    BY DEF Terminal, DrainInv, MonitorSetLoading, setLoading, MonitorAt, setPhase
  <1>11. MonitorCommit => DrainInv' BY DEF Terminal, DrainInv, MonitorCommit, MonitorAt
  <1>12. DrainBegin => DrainInv' BY Zenon DEF DrainInv, DrainBegin, setPhase, DrainAt
  <1>13. DrainPropagated => DrainInv' BY Zenon DEF DrainInv, DrainPropagated, DrainAt
  <1>14. DrainPoll => DrainInv' BY DEF DrainInv, DrainPoll, DrainAt
  <1>15. DrainReadSlots => DrainInv' BY Zenon DEF DrainInv, DrainReadSlots, DrainAt
  <1>16. DrainReadMetrics => DrainInv' BY Zenon DEF DrainInv, DrainReadMetrics, DrainAt
  <1>17. DrainSignal => DrainInv' BY DEF DrainInv, DrainSignal, DrainAt
  <1>18. DrainKill => DrainInv' BY Zenon DEF DrainInv, DrainKill, DrainAt
  <1>19. DrainChildGone => DrainInv' BY Zenon DEF DrainInv, DrainChildGone, DrainAt
  <1>20. handleDrain => DrainInv' BY Zenon DEF DrainInv, handleDrain, initiateDrain
  <1>21. MonitorCheck \/ MonitorHealth \/ MonitorContract \/ MonitorAccelerator \/
       MonitorTick \/ ObserveCount \/ observeCUDADevice \/ ObserveOffload \/ Signalled
       \/ ListenerFails \/ DeadlineExpires \/ ChildLoads \/ ChildExits \/ RequestArrives
       \/ RequestEnds \/ EndpointsFollow => DrainInv'
    <2>1. MonitorCheck \/ MonitorHealth \/ MonitorContract \/ MonitorAccelerator \/
         MonitorTick \/ ObserveCount => UNCHANGED <<run, drain, phase, child,
         childDone>>
      BY Zenon DEF MonitorCheck, MonitorAt, Terminal, MonitorHealth, MonitorContract,
           MonitorAccelerator, AcceleratorConfirmed, MonitorTick, ObserveCount,
           ObserveLog
    <2>2. observeCUDADevice \/ ObserveOffload \/ Signalled \/ ListenerFails \/
         DeadlineExpires \/ ChildLoads => UNCHANGED <<run, drain, phase, child,
         childDone>>
      BY Zenon DEF observeCUDADevice, ObserveLog, ObserveOffload, Signalled, EnvUnchanged,
           ListenerFails, DeadlineExpires, ChildLoads
    <2>3. ChildExits \/ RequestArrives \/ RequestEnds \/ EndpointsFollow => UNCHANGED
         <<run, drain, phase, child, childDone>>
      BY Zenon DEF ChildExits, EnvUnchanged, RequestArrives, RequestEnds, EndpointsFollow,
           handleReady
    <2> QED BY <2>1, <2>2, <2>3, Zenon DEF DrainInv
  <1>22. Returned \/ UNCHANGED vars => DrainInv' BY DEF Returned, DrainInv, vars
  <1> QED
    BY <1>1, <1>2, <1>3, <1>4, <1>5, <1>6, <1>7, <1>8, <1>9, <1>10, <1>11, <1>12, <1>13,
         <1>14, <1>15, <1>16, <1>17, <1>18, <1>19, <1>20, <1>21, <1>22, Zenon DEF Next, Run,
         Waiter, Monitor, Drain, Log, Environment

(* Every step keeps RequestInv. *)
LEMMA RequestInvStep ==
  ASSUME ~EarlyDrain, PropagationSuffices, Inv, DrainInv, RequestInv
  PROVE  [Next]_vars => RequestInv'
  <1> USE DEF stateVars, childVars, logVars, probeVars, eventVars, drainVars, envVars,
       procVars, requestVars
  <1>1. RunSelect => RequestInv' BY DEF RequestInv, RunSelect, initiateDrain
  <1>2. DrainBegin => RequestInv' BY Zenon DEF RequestInv, DrainBegin, setPhase, DrainAt
  <1>3. DrainPropagated => RequestInv' BY DEF RequestInv, DrainPropagated, DrainAt
  <1>4. DrainPoll => RequestInv' BY DEF RequestInv, DrainPoll, DrainAt
  <1>5. DrainReadSlots => RequestInv'
    <2> HAVE DrainReadSlots
    <2>1. CASE DrainAt("slots", "metrics") /\ slotsRead' = processing
      <3>1. processing = 0 => deferred = 0
        BY ConfigAssumption DEF Inv, TypeOK, QueueInv
      <3>2. /\ drain = "slots" /\ drain' = "metrics"
            /\ UNCHANGED <<processing, deferred, routed>>
        BY <2>1, Zenon DEF DrainAt, requestVars
      <3> QED BY <2>1, <3>1, <3>2, Zenon DEF RequestInv
    <2>2. CASE DrainAt("slots", "poll")
      <3>1. drain = "slots" /\ drain' = "poll" /\ UNCHANGED routed BY <2>2, Zenon DEF DrainAt
      <3> QED BY <3>1, Zenon DEF RequestInv
    <2> QED BY <2>1, <2>2, Zenon DEF DrainReadSlots
  <1>6. DrainReadMetrics => RequestInv'
    <2> HAVE DrainReadMetrics
    <2>1. /\ drain = "metrics" /\ drain' \in {"poll", "signal"}
          /\ UNCHANGED <<processing, deferred, routed, expired>>
      BY Zenon DEF DrainReadMetrics, DrainAt, drainVars, requestVars
    <2>2. drain' = "signal" => slotsRead + deferred = 0
      BY Zenon DEF DrainReadMetrics, DrainAt
    <2>3. slotsRead + deferred = 0 => slotsRead = 0 BY ConfigAssumption DEF Inv, TypeOK
    <2> QED BY <2>1, <2>2, <2>3, Zenon DEF RequestInv
  <1>7. DrainSignal => RequestInv' BY DEF RequestInv, DrainSignal, DrainAt
  <1>8. DrainKill => RequestInv' BY DEF RequestInv, DrainKill, DrainAt
  <1>9. DrainChildGone => RequestInv'
    <2> HAVE DrainChildGone
    <2>1. drain \in {"waitChild", "killed"} /\ drain' = "done" /\ UNCHANGED routed
      BY Zenon DEF DrainChildGone, DrainAt
    <2> QED BY <2>1, Zenon DEF RequestInv
  <1>10. handleDrain => RequestInv' BY Zenon DEF RequestInv, handleDrain, initiateDrain
  <1>11. DeadlineExpires => RequestInv' BY DEF RequestInv, DeadlineExpires, EnvUnchanged
  <1>12. ChildExits => RequestInv' BY DEF RequestInv, ChildExits, EnvUnchanged
  <1>13. RequestArrives => RequestInv' BY Zenon DEF RequestInv, RequestArrives, EnvUnchanged
  <1>14. RequestEnds => RequestInv' BY DEF RequestInv, RequestEnds, EnvUnchanged
  <1>15. EndpointsFollow => RequestInv'
    <2> HAVE EndpointsFollow
    <2>1. drain \notin {"idle", "begin"} => ~handleReady BY Zenon DEF DrainInv, handleReady
    <2>2. UNCHANGED <<drain, slotsRead, processing, deferred, expired>>
      BY Zenon DEF EndpointsFollow, EnvUnchanged, requestVars
    <2>3. routed' = handleReady BY Zenon DEF EndpointsFollow
    <2> QED BY <2>1, <2>2, <2>3, Zenon DEF RequestInv
  <1>16. RunRejects \/ startChildLoading \/ startChildFails \/ startChildSpawns \/
       startChildRegisters \/ RunReturns \/ waitForChild \/ closeChildDone \/
       MonitorCheck \/ MonitorHealth \/ MonitorContract \/ MonitorAccelerator \/
       MonitorSetLoading \/ MonitorCommit \/ MonitorTick \/ ObserveCount \/
       observeCUDADevice \/ ObserveOffload \/ Signalled \/ ListenerFails \/ ChildLoads
       => RequestInv'
    <2>1. RunRejects \/ startChildLoading \/ startChildFails \/ startChildSpawns \/
         startChildRegisters \/ RunReturns => UNCHANGED <<drain, routed, slotsRead,
         processing, deferred, expired>>
      BY Zenon DEF RunRejects, fail, setPhase, startChildLoading, startChildFails,
           startChildSpawns, startChildRegisters, RunReturns
    <2>2. waitForChild \/ closeChildDone \/ MonitorCheck \/ MonitorHealth \/
         MonitorContract \/ MonitorAccelerator => UNCHANGED <<drain, routed, slotsRead,
         processing, deferred, expired>>
      BY Zenon DEF waitForChild, setPhase, closeChildDone, MonitorCheck, MonitorAt, Terminal,
           MonitorHealth, MonitorContract, MonitorAccelerator, AcceleratorConfirmed
    <2>3. MonitorSetLoading \/ MonitorCommit \/ MonitorTick \/ ObserveCount \/
         observeCUDADevice \/ ObserveOffload => UNCHANGED <<drain, routed, slotsRead,
         processing, deferred, expired>>
      BY Zenon DEF MonitorSetLoading, setLoading, MonitorAt, setPhase, Terminal,
           MonitorCommit, MonitorTick, ObserveCount, ObserveLog, observeCUDADevice,
           ObserveOffload
    <2>4. Signalled \/ ListenerFails \/ ChildLoads => UNCHANGED <<drain, routed,
         slotsRead, processing, deferred, expired>>
      BY Zenon DEF Signalled, EnvUnchanged, ListenerFails, ChildLoads
    <2> QED BY <2>1, <2>2, <2>3, <2>4, Zenon DEF RequestInv
  <1>17. Returned \/ UNCHANGED vars => RequestInv' BY DEF Returned, RequestInv, vars
  <1> QED
    BY <1>1, <1>2, <1>3, <1>4, <1>5, <1>6, <1>7, <1>8, <1>9, <1>10, <1>11, <1>12, <1>13,
         <1>14, <1>15, <1>16, <1>17 DEF Next, Run, Waiter, Monitor, Drain, Log,
         Environment

-----------------------------------------------------------------------------
(* The theorems. *)

(* The initial state satisfies the invariants: nothing runs yet. *)
LEMMA InitInv == Init => Inv /\ DrainInv /\ RequestInv
  <1> SUFFICES ASSUME Init PROVE Inv /\ DrainInv /\ RequestInv OBVIOUS
  <1>1. Cardinality(CUDADevices) \in Nat BY ConfigAssumption, Zenon
  <1>2. TypeOK
    <2>1. /\ visible \in 0 .. Cardinality(CUDADevices) /\ 0 \in 0 .. MaxRequests
          /\ devices \subseteq CUDADevices
      BY <1>1, ConfigAssumption DEF Init
    <2>2. /\ ready \in BOOLEAN /\ becameReady \in BOOLEAN /\ child \in BOOLEAN
          /\ childDone \in BOOLEAN /\ expired \in BOOLEAN /\ ctxDone \in BOOLEAN
          /\ listenerFailed \in BOOLEAN /\ conforms \in BOOLEAN /\ termSent \in BOOLEAN
          /\ routed \in BOOLEAN
      BY Zenon DEF Init
    <2> QED BY <2>1, <2>2, Zenon DEF Init, TypeOK
  <1>3. QueueInv BY ConfigAssumption DEF Init, QueueInv
  <1>4. StartInv /\ PhaseInv /\ ProbeInv
    BY Zenon DEF Init, StartInv, Alive, PhaseInv, Terminal, ProbeInv
  <1>5. DrainInv /\ RequestInv BY Zenon DEF Init, DrainInv, RequestInv
  <1> QED BY <1>2, <1>3, <1>4, <1>5, Zenon DEF Inv

(* Every step, of any goroutine or of the environment, keeps Inv. *)
LEMMA InvStep == Inv /\ [Next]_vars => Inv'
  BY RunStep, WaiterStep, MonitorStep, DrainStep, LogStep, EnvironmentStep, Unchanged, Zenon
  DEF Next

(* Inv is an invariant of every behaviour, early drains included.            *)
THEOREM Invariance == Spec => []Inv
  BY InitInv, InvStep, PTL DEF Spec

(* Types: control points, phases and request counts of the supervisor.       *)
THEOREM TypeCorrect == Spec => []TypeOK
  <1>1. Inv => TypeOK BY Zenon DEF Inv
  <1> QED BY <1>1, Invariance, PTL

(* Readiness is exported only for a verified child that has not been reaped, *)
(* for any number of devices, slots and requests, and whenever drains come.  *)
THEOREM ReadinessIsVerified == Spec => []ReadyIsVerified
  <1>1. Inv => ReadyIsVerified
    <2> SUFFICES ASSUME Inv, ready PROVE ReadyIsVerified BY Zenon DEF ReadyIsVerified
    <2>1. phase = "Ready" /\ becameReady /\ conforms /\ child /\ (Accelerator => visible > 0)
      BY Zenon DEF Inv, PhaseInv, ProbeInv
    <2>2. waiter = "waiting" /\ ~childDone
      BY <2>1, Zenon DEF Inv, TypeOK, StartInv, PhaseInv, Terminal
    <2> QED BY <2>1, <2>2, Zenon DEF ReadyIsVerified
  <1> QED BY <1>1, Invariance, PTL

(* A failed load and an exit are final: no step leads back to Loading/Ready. *)
THEOREM TerminalPhasesAreFinal == Spec => TerminalIsFinal
  <1> DEFINE Final == phase \in {"LoadFailed", "Exited"} => phase' \in {phase, "Draining"}
  <1>1. Inv /\ [Next]_vars => [Final]_vars
    <2> SUFFICES ASSUME Inv, Next, phase \in {"LoadFailed", "Exited"}
                 PROVE  phase' \in {phase, "Draining"}
      OBVIOUS
    <2>1. run \notin {"validating", "starting", "spawned"} /\ waiter # "waiting"
      BY Zenon DEF Inv, PhaseInv
    <2>2. Run => UNCHANGED phase
      BY <2>1, Zenon DEF Run, RunRejects, startChildLoading, startChildFails, startChildSpawns,
         startChildRegisters, RunSelect, RunReturns, stateVars
    <2>3. Waiter => UNCHANGED phase
      BY <2>1, Zenon DEF Waiter, waitForChild, closeChildDone, stateVars
    <2>4. Monitor => UNCHANGED phase
      BY Zenon DEF Monitor, MonitorCheck, MonitorHealth, MonitorContract, MonitorAccelerator,
         MonitorSetLoading, setLoading, MonitorCommit, MonitorTick, Terminal, stateVars
    <2>5. Drain => phase' \in {phase, "Draining"}
      BY Zenon DEF Drain, DrainBegin, DrainPropagated, DrainPoll, DrainReadSlots,
         DrainReadMetrics, DrainSignal, DrainKill, DrainChildGone, setPhase, stateVars
    <2>6. Log \/ Environment => UNCHANGED phase
      BY Zenon DEF Log, ObserveCount, observeCUDADevice, ObserveOffload, ObserveLog, Environment,
         handleDrain, Signalled, ListenerFails, DeadlineExpires, ChildLoads, ChildExits,
         RequestArrives, RequestEnds, EndpointsFollow, Returned, EnvUnchanged, vars,
         stateVars
    <2> QED BY <2>2, <2>3, <2>4, <2>5, <2>6, Zenon DEF Next
  <1> QED BY <1>1, Invariance, PTL DEF Spec, TerminalIsFinal

(* DrainInv, when no drain overtakes startChild.                             *)
THEOREM DrainInvariance == ASSUME ~EarlyDrain PROVE Spec => []DrainInv
  BY InitInv, Invariance, DrainInvStep, PTL DEF Spec

(* A drain that started after startChild returned rejects readiness for good *)
(* (drain, updateReadiness, waitForChild).                                   *)
THEOREM DrainsRejectReadiness == ASSUME ~EarlyDrain PROVE Spec => []DrainRejectsReadiness
  <1>1. Inv /\ DrainInv => DrainRejectsReadiness
    BY Zenon DEF Inv, PhaseInv, DrainInv, DrainRejectsReadiness
  <1> QED BY <1>1, Invariance, DrainInvariance, PTL

(* Run returns only after the child it started has died.                     *)
THEOREM RunReapsItsChild == ASSUME ~EarlyDrain PROVE Spec => []RunLeavesNoChild
  <1>1. Inv /\ DrainInv => RunLeavesNoChild
    BY Zenon DEF Inv, StartInv, Alive, DrainInv, RunLeavesNoChild
  <1> QED BY <1>1, Invariance, DrainInvariance, PTL

(* If, besides, the propagation delay outlasts the endpoints' update, SIGTERM *)
(* reaches a child that holds requests only after the drain deadline.        *)
THEOREM RequestsAreNotCutShort ==
  ASSUME ~EarlyDrain, PropagationSuffices PROVE Spec => NoRequestCutShort
  <1>1. Spec => []RequestInv
    BY InitInv, Invariance, DrainInvariance, RequestInvStep, PTL DEF Spec
  <1>2. Inv /\ RequestInv /\ [Next]_vars
          => [~termSent /\ termSent' => expired \/ processing + deferred = 0]_vars
    <2> SUFFICES ASSUME Inv, RequestInv, Next, ~termSent, termSent'
                 PROVE  expired \/ processing + deferred = 0
      OBVIOUS
    <2>1. Run \/ Waiter \/ Log => UNCHANGED termSent
      BY Zenon DEF Run, RunRejects, startChildLoading, startChildFails, startChildSpawns,
         startChildRegisters, RunSelect, RunReturns, Waiter, waitForChild, closeChildDone,
         Log, ObserveCount, observeCUDADevice, ObserveOffload, ObserveLog, envVars, procVars
    <2>2. Monitor => UNCHANGED termSent
      BY Zenon DEF Monitor, MonitorCheck, MonitorHealth, MonitorContract, MonitorAccelerator,
         MonitorSetLoading, MonitorCommit, MonitorTick, MonitorAt, envVars, procVars
    <2>3. Environment => UNCHANGED termSent
      BY Zenon DEF Environment, handleDrain, Signalled, ListenerFails, DeadlineExpires,
         ChildLoads, ChildExits, RequestArrives, RequestEnds, EndpointsFollow, Returned,
         vars, envVars, procVars
    <2>4. Drain => UNCHANGED termSent \/ drain = "signal"
      BY Zenon DEF Drain, DrainBegin, DrainPropagated, DrainPoll, DrainReadSlots,
         DrainReadMetrics, DrainSignal, DrainKill, DrainChildGone, DrainAt
    <2>5. drain = "signal" BY <2>1, <2>2, <2>3, <2>4, Zenon DEF Next
    <2> QED BY <2>5 DEF RequestInv
  <1> QED BY <1>1, <1>2, Invariance, PTL DEF Spec, NoRequestCutShort
=============================================================================
