----------------------------- MODULE Supervisor -----------------------------
(***************************************************************************)
(* The runtime supervisor (internal/runtime/supervisor.go): PID 1 of a      *)
(* serving Pod.  It validates the artifact, starts llama-server once,       *)
(* probes it, answers the kubelet's readiness probe, and drains it.         *)
(*                                                                         *)
(* One program counter per goroutine: run (Run, startChild), waiter         *)
(* (waitForChild), monitor (monitorChild, updateReadiness), drain (drain).  *)
(* A step is what a goroutine does between two points where another one     *)
(* may take the mutex or close a channel.  The environment is the child     *)
(* process, its clients, the endpoint controller and the kubelet.           *)
(***************************************************************************)
EXTENDS Integers, FiniteSets, FiniteSetsExt

CONSTANTS
  DesiredConcurrency,   \* slots of the child (config.DesiredConcurrency)
  MaxRequests,          \* bound: requests in the child at any time
  Accelerator,          \* config.Mode = ModeAccelerator
  CUDADevices,          \* device indices the child may print
  EarlyDrain,           \* may POST /drain arrive before startChild returned?
  PropagationSuffices   \* has the endpoint gone when the delay has elapsed?

ASSUME ConfigAssumption ==
  /\ DesiredConcurrency \in Nat \ {0}
  /\ MaxRequests \in Nat
  /\ Accelerator \in BOOLEAN
  /\ IsFiniteSet(CUDADevices)
  \* what the proofs use of finiteness, which implies it
  /\ \A D \in SUBSET CUDADevices : Cardinality(D) \in 0 .. Cardinality(CUDADevices)
  /\ Cardinality(CUDADevices) \in Nat
  /\ EarlyDrain \in BOOLEAN
  /\ PropagationSuffices \in BOOLEAN

VARIABLES
  run, waiter, monitor, drain,          \* program counters
  phase, ready, becameReady,            \* state.Phase, state.Ready, becameReady
  child, childDone,                     \* supervisor.child # nil; closed channel
  visible, devices, layers,             \* what the child's log has shown
  probeActive, slotsRead,               \* locals of updateReadiness and activeRequests
  activeRequests,                       \* state.Runtime.ActiveRequests
  expired, ctxDone, listenerFailed,     \* drain deadline; SIGTERM; serverErrors
  proc, conforms, termSent,             \* llama-server: its state, its contract, SIGTERM
  processing, deferred, routed          \* its requests; the Service routes to the Pod

stateVars   == <<phase, ready, becameReady>>
childVars   == <<child, childDone>>
logVars     == <<visible, devices, layers>>
probeVars   == <<probeActive, activeRequests>>
eventVars   == <<ctxDone, listenerFailed>>
procVars    == <<proc, conforms, termSent>>
requestVars == <<processing, deferred>>
drainVars   == <<slotsRead, expired>>
envVars     == <<procVars, requestVars, routed>>
vars == <<run, waiter, monitor, drain, stateVars, childVars, logVars, probeVars,
          eventVars, drainVars, envVars>>

Terminal(p) == p \in {"Draining", "LoadFailed", "Exited"}

Alive == proc \in {"loading", "serving"}

(* newSupervisor, and Run up to the point where diagnostics are served. *)
Init ==
  /\ run = "validating" /\ waiter = "none" /\ monitor = "none" /\ drain = "idle"
  /\ phase = "Initializing" /\ ready = FALSE /\ becameReady = FALSE
  /\ child = FALSE /\ childDone = FALSE
  /\ visible = 0 /\ devices = {} /\ layers = "unknown"
  /\ probeActive = 0 /\ slotsRead = 0 /\ activeRequests = 0
  /\ expired = FALSE /\ ctxDone = FALSE /\ listenerFailed = FALSE
  /\ proc = "none" /\ conforms = FALSE /\ termSent = FALSE
  /\ processing = 0 /\ deferred = 0 /\ routed = FALSE

-----------------------------------------------------------------------------
(* Updates of the shared state made with the mutex held. *)

setPhase(p) == phase' = p /\ ready' = FALSE /\ UNCHANGED becameReady

fail == setPhase("LoadFailed")

(* Mutant: overwrites a terminal phase. *)
setLoadingUnchecked == setPhase("Loading")

setLoading ==
  IF Terminal(phase) THEN UNCHANGED stateVars ELSE setPhase("Loading")

-----------------------------------------------------------------------------
(* Run and startChild. *)

(* config.Validate or validateArtifactFiles fails: fail, closeChildDone. *)
RunRejects ==
  /\ run = "validating"
  /\ run' = "select"
  /\ fail
  /\ childDone' = TRUE
  /\ UNCHANGED <<waiter, monitor, drain, child, logVars, probeVars, eventVars,
                 drainVars, envVars>>

(* Validation passed; startChild announces Loading whatever the phase is. *)
startChildLoading ==
  /\ run = "validating"
  /\ run' = "starting"
  /\ setPhase("Loading")
  /\ UNCHANGED <<waiter, monitor, drain, childVars, logVars, probeVars, eventVars,
                 drainVars, envVars>>

startChildFails ==
  /\ run = "starting"
  /\ run' = "select"
  /\ fail
  /\ childDone' = TRUE
  /\ UNCHANGED <<waiter, monitor, drain, child, logVars, probeVars, eventVars,
                 drainVars, envVars>>

(* command.Start: the process exists, supervisor.child does not show it yet. *)
startChildSpawns ==
  /\ run = "starting"
  /\ run' = "spawned"
  /\ proc' = "loading"
  /\ conforms' \in BOOLEAN
  /\ UNCHANGED <<waiter, monitor, drain, stateVars, childVars, logVars, probeVars,
                 eventVars, drainVars, termSent, requestVars, routed>>

startChildRegisters ==
  /\ run = "spawned"
  /\ run' = "select"
  /\ child' = TRUE
  /\ waiter' = "waiting"
  /\ monitor' = "check"
  /\ UNCHANGED <<drain, stateVars, childDone, logVars, probeVars, eventVars,
                 drainVars, envVars>>

(* drainOnce.Do(go drain()) *)
initiateDrain == drain' = IF drain = "idle" THEN "begin" ELSE drain

(* The select of Run: the context is done or Serve returned an error. *)
RunSelect ==
  /\ run = "select"
  /\ ctxDone \/ listenerFailed
  /\ run' = "waitDrain"
  /\ initiateDrain
  /\ UNCHANGED <<waiter, monitor, stateVars, childVars, logVars, probeVars, eventVars,
                 drainVars, envVars>>

(* <-drainDone, then Shutdown and return: the process ends. *)
RunReturns ==
  /\ run = "waitDrain"
  /\ drain = "done"
  /\ run' = "returned"
  /\ UNCHANGED <<waiter, monitor, drain, stateVars, childVars, logVars, probeVars,
                 eventVars, drainVars, envVars>>

(* handleDrain: POST /drain, the Pod's preStop hook. *)
handleDrain ==
  /\ run # "returned"
  /\ ~listenerFailed
  /\ run \in {"validating", "starting", "spawned"} => EarlyDrain
  /\ drain = "idle"
  /\ initiateDrain
  /\ UNCHANGED <<run, waiter, monitor, stateVars, childVars, logVars, probeVars,
                 eventVars, drainVars, envVars>>

-----------------------------------------------------------------------------
(* waitForChild: record the exit with the mutex held, then close childDone. *)

waitForChild ==
  /\ run # "returned"
  /\ waiter = "waiting"
  /\ proc = "dead"
  /\ waiter' = "reaped"
  /\ IF phase = "Draining"
       THEN UNCHANGED stateVars
       ELSE setPhase(IF becameReady THEN "Exited" ELSE "LoadFailed")
  /\ UNCHANGED <<run, monitor, drain, childVars, logVars, probeVars, eventVars,
                 drainVars, envVars>>

(* Mutant: the exit is recorded but the channel is never closed. *)
closeChildDoneForgotten ==
  /\ run # "returned"
  /\ waiter = "reaped"
  /\ waiter' = "done"
  /\ UNCHANGED <<run, monitor, drain, stateVars, childVars, logVars, probeVars,
                 eventVars, drainVars, envVars>>

closeChildDone ==
  /\ run # "returned"
  /\ waiter = "reaped"
  /\ waiter' = "done"
  /\ childDone' = TRUE
  /\ UNCHANGED <<run, monitor, drain, stateVars, child, logVars, probeVars, eventVars,
                 drainVars, envVars>>

-----------------------------------------------------------------------------
(* monitorChild: updateReadiness, then wait for childDone or the ticker.     *)
(* A probe may fail at any time (ProbeTimeout); it succeeds only against a   *)
(* child in the right state.                                                 *)

MonitorAt(from, to) ==
  /\ run # "returned"
  /\ monitor = from
  /\ monitor' = to
  /\ UNCHANGED <<run, waiter, drain, childVars, logVars, eventVars, drainVars, envVars>>

(* The first read of the phase, under RLock. *)
MonitorCheck ==
  /\ MonitorAt("check", IF Terminal(phase) THEN "tick" ELSE "health")
  /\ UNCHANGED <<stateVars, probeVars>>

(* getOK("/health") *)
MonitorHealth ==
  /\ \/ proc = "serving" /\ MonitorAt("health", "contract")
     \/ MonitorAt("health", "notReady")
  /\ UNCHANGED <<stateVars, probeVars>>

(* getProperties, validateProperties, getSlots and the context checks. *)
MonitorContract ==
  /\ UNCHANGED <<stateVars, activeRequests>>
  /\ \/ /\ proc = "serving" /\ conforms
        /\ MonitorAt("contract", "accelerator")
        /\ probeActive' = processing
     \/ /\ MonitorAt("contract", "notReady")
        /\ UNCHANGED probeActive

(* The accelerator facts, read under RLock: exactly one device, all layers. *)
AcceleratorConfirmed == visible = 1 /\ layers = "full"

MonitorAccelerator ==
  /\ MonitorAt("accelerator",
               IF Accelerator /\ ~AcceleratorConfirmed THEN "notReady" ELSE "commit")
  /\ UNCHANGED <<stateVars, probeVars>>

MonitorSetLoading ==
  /\ MonitorAt("notReady", "tick")
  /\ setLoading
  /\ UNCHANGED probeVars

(* Mutant: the re-check forgets that the child may have exited. *)
MonitorCommitAfterExit ==
  /\ MonitorAt("commit", "tick")
  /\ IF phase = "Draining"
       THEN UNCHANGED <<stateVars, activeRequests>>
       ELSE /\ phase' = "Ready" /\ ready' = TRUE /\ becameReady' = TRUE
            /\ activeRequests' = probeActive
  /\ UNCHANGED probeActive

(* Mutant: the re-check forgets that a drain may have begun. *)
MonitorCommitOverDrain ==
  /\ MonitorAt("commit", "tick")
  /\ IF phase \in {"LoadFailed", "Exited"}
       THEN UNCHANGED <<stateVars, activeRequests>>
       ELSE /\ phase' = "Ready" /\ ready' = TRUE /\ becameReady' = TRUE
            /\ activeRequests' = probeActive
  /\ UNCHANGED probeActive

(* The final critical section of updateReadiness re-checks the phase. *)
MonitorCommit ==
  /\ MonitorAt("commit", "tick")
  /\ IF Terminal(phase)
       THEN UNCHANGED <<stateVars, activeRequests>>
       ELSE /\ phase' = "Ready" /\ ready' = TRUE /\ becameReady' = TRUE
            /\ activeRequests' = probeActive
  /\ UNCHANGED probeActive

MonitorTick ==
  /\ \/ MonitorAt("tick", "check")
     \/ childDone /\ MonitorAt("tick", "stopped")
  /\ UNCHANGED <<stateVars, probeVars>>

-----------------------------------------------------------------------------
(* observeStartupLog: what the child prints, in accelerator mode. *)

(* Mutant: the last summary wins. *)
updateVisibleAcceleratorsLast(observed) == visible' = observed

(* updateVisibleAcceleratorsLocked: the count never decreases. *)
updateVisibleAccelerators(observed) ==
  visible' = Max({observed, visible, Cardinality(devices')})

ObserveLog ==
  /\ Accelerator
  /\ child
  /\ run # "returned"
  /\ UNCHANGED <<run, waiter, monitor, drain, stateVars, childVars, probeVars,
                 eventVars, drainVars, envVars>>

ObserveCount ==
  /\ \E n \in 0 .. Cardinality(CUDADevices) :
       UNCHANGED devices /\ updateVisibleAccelerators(n)
  /\ ObserveLog
  /\ UNCHANGED layers

observeCUDADevice ==
  /\ \E d \in CUDADevices :
       /\ devices' = devices \cup {d}
       /\ updateVisibleAccelerators(Cardinality(devices'))
  /\ ObserveLog
  /\ UNCHANGED layers

ObserveOffload ==
  /\ layers' \in {"partial", "full"}
  /\ ObserveLog
  /\ UNCHANGED <<visible, devices>>

-----------------------------------------------------------------------------
(* drain: reject readiness, let endpoints propagate, wait for the requests   *)
(* until the deadline, terminate the child.                                  *)

DrainAt(from, to) ==
  /\ drain = from
  /\ drain' = to
  /\ UNCHANGED <<run, waiter, monitor, childVars, logVars, probeActive, eventVars,
                 proc, conforms, requestVars, routed>>

(* Mutant: no delay for endpoint propagation. *)
DrainBeginNoDelay ==
  /\ DrainAt("begin", "poll")
  /\ setPhase("Draining")
  /\ UNCHANGED <<activeRequests, drainVars, termSent>>

DrainBegin ==
  /\ DrainAt("begin", "propagate")
  /\ setPhase("Draining")
  /\ UNCHANGED <<activeRequests, drainVars, termSent>>

(* <-propagationTimer.C *)
DrainPropagated ==
  /\ DrainAt("propagate", "poll")
  /\ PropagationSuffices => ~routed
  /\ UNCHANGED <<stateVars, activeRequests, drainVars, termSent>>

(* The head of the polling loop: deadline, then childDone. *)
DrainPoll ==
  /\ DrainAt("poll", IF expired THEN "signal" ELSE IF childDone THEN "done" ELSE "slots")
  /\ UNCHANGED <<stateVars, activeRequests, drainVars, termSent>>

(* activeRequests: GET /slots, then GET /metrics; either may fail. *)
DrainReadSlots ==
  /\ UNCHANGED <<stateVars, activeRequests, expired, termSent>>
  /\ \/ proc = "serving" /\ DrainAt("slots", "metrics") /\ slotsRead' = processing
     \/ DrainAt("slots", "poll") /\ UNCHANGED slotsRead

DrainReadMetrics ==
  /\ UNCHANGED <<stateVars, drainVars, termSent>>
  /\ \/ /\ proc = "serving"
        /\ activeRequests' = slotsRead + deferred
        /\ DrainAt("metrics", IF slotsRead + deferred = 0 THEN "signal" ELSE "poll")
     \/ DrainAt("metrics", "poll") /\ UNCHANGED activeRequests

(* No child is registered: return.  Otherwise SIGTERM. *)
DrainSignal ==
  /\ DrainAt("signal", IF child THEN "waitChild" ELSE "done")
  /\ termSent' = (child \/ termSent)
  /\ UNCHANGED <<stateVars, activeRequests, drainVars>>

(* Mutant: returns after Kill without waiting for the child to be reaped. *)
DrainKillNoWait ==
  /\ DrainAt("waitChild", "done")
  /\ UNCHANGED <<stateVars, activeRequests, drainVars, termSent>>

(* ChildShutdownTimeout: Kill. *)
DrainKill ==
  /\ DrainAt("waitChild", "killed")
  /\ UNCHANGED <<stateVars, activeRequests, drainVars, termSent>>

DrainChildGone ==
  /\ childDone
  /\ DrainAt("waitChild", "done") \/ DrainAt("killed", "done")
  /\ UNCHANGED <<stateVars, activeRequests, drainVars, termSent>>

-----------------------------------------------------------------------------
(* The environment. *)

EnvUnchanged ==
  /\ run # "returned"
  /\ UNCHANGED <<run, waiter, monitor, drain, stateVars, childVars, logVars, probeVars,
                 slotsRead>>

(* SIGTERM or SIGINT reaches the supervisor (signal.NotifyContext). *)
Signalled ==
  /\ ~ctxDone /\ ctxDone' = TRUE
  /\ EnvUnchanged
  /\ UNCHANGED <<listenerFailed, expired, envVars>>

(* httpServer.Serve returns an error other than ErrServerClosed. *)
ListenerFails ==
  /\ ~listenerFailed /\ listenerFailed' = TRUE
  /\ EnvUnchanged
  /\ UNCHANGED <<ctxDone, expired, envVars>>

(* DrainTimeoutSeconds elapse while drain polls. *)
DeadlineExpires ==
  /\ drain \in {"poll", "slots", "metrics"}
  /\ ~expired /\ expired' = TRUE
  /\ EnvUnchanged
  /\ UNCHANGED <<eventVars, envVars>>

ChildLoads ==
  /\ proc = "loading" /\ proc' = "serving"
  /\ EnvUnchanged
  /\ UNCHANGED <<eventVars, expired, conforms, termSent, requestVars, routed>>

(* A crash, an exit on SIGTERM, or SIGKILL: its requests end with it. *)
ChildExits ==
  /\ Alive /\ proc' = "dead"
  /\ processing' = 0 /\ deferred' = 0
  /\ EnvUnchanged
  /\ UNCHANGED <<eventVars, expired, conforms, termSent, routed>>

(* A client's request takes a slot, or waits when every slot is busy. *)
RequestArrives ==
  /\ routed /\ proc = "serving"
  /\ processing + deferred < MaxRequests
  /\ IF processing < DesiredConcurrency
       THEN processing' = processing + 1 /\ UNCHANGED deferred
       ELSE deferred' = deferred + 1 /\ UNCHANGED processing
  /\ EnvUnchanged
  /\ UNCHANGED <<eventVars, expired, procVars, routed>>

(* A request ends; a waiting one takes over its slot. *)
RequestEnds ==
  /\ processing > 0
  /\ IF deferred > 0
       THEN deferred' = deferred - 1 /\ UNCHANGED processing
       ELSE processing' = processing - 1 /\ UNCHANGED deferred
  /\ EnvUnchanged
  /\ UNCHANGED <<eventVars, expired, procVars, routed>>

(* handleReady, as the kubelet sees it and the endpoint controller applies it. *)
handleReady == ready /\ phase = "Ready"

EndpointsFollow ==
  /\ routed # handleReady /\ routed' = handleReady
  /\ EnvUnchanged
  /\ UNCHANGED <<eventVars, expired, procVars, requestVars>>

(* The process has ended. *)
Returned == run = "returned" /\ UNCHANGED vars

-----------------------------------------------------------------------------
Run ==
  \/ RunRejects \/ startChildLoading \/ startChildFails
  \/ startChildSpawns \/ startChildRegisters \/ RunSelect \/ RunReturns

Waiter == waitForChild \/ closeChildDone

Monitor ==
  \/ MonitorCheck \/ MonitorHealth \/ MonitorContract \/ MonitorAccelerator
  \/ MonitorSetLoading \/ MonitorCommit \/ MonitorTick

Drain ==
  \/ DrainBegin \/ DrainPropagated \/ DrainPoll \/ DrainReadSlots
  \/ DrainReadMetrics \/ DrainSignal \/ DrainKill \/ DrainChildGone

Log == ObserveCount \/ observeCUDADevice \/ ObserveOffload

Environment ==
  \/ handleDrain \/ Signalled \/ ListenerFails \/ DeadlineExpires
  \/ ChildLoads \/ ChildExits \/ RequestArrives \/ RequestEnds
  \/ EndpointsFollow \/ Returned

Next == Run \/ Waiter \/ Monitor \/ Drain \/ Log \/ Environment

Spec == Init /\ [][Next]_vars

(* Goroutines run, timers fire, a killed process dies; where the propagation *)
(* delay is assumed to suffice, the endpoint does go.  Nothing is assumed of *)
(* requests, of probes (they may fail for ever) or of the kubelet.           *)
Fairness ==
  /\ WF_vars(Run) /\ WF_vars(Waiter) /\ WF_vars(Monitor) /\ WF_vars(Drain)
  /\ WF_vars(DeadlineExpires)
  /\ WF_vars(drain = "killed" /\ ChildExits)
  /\ PropagationSuffices => WF_vars(EndpointsFollow)

FairSpec == Spec /\ Fairness

(* Fairness of the monitor goroutine alone. *)
MonitorSpec == Spec /\ WF_vars(Monitor)

-----------------------------------------------------------------------------
(* Types: the goroutines' control points, the exported phases, and counts of *)
(* requests that never exceed what the child holds.                          *)
TypeOK ==
  /\ run \in {"validating", "starting", "spawned", "select", "waitDrain", "returned"}
  /\ waiter \in {"none", "waiting", "reaped", "done"}
  /\ monitor \in {"none", "check", "health", "contract", "accelerator", "notReady",
                  "commit", "tick", "stopped"}
  /\ drain \in {"idle", "begin", "propagate", "poll", "slots", "metrics", "signal",
                "waitChild", "killed", "done"}
  /\ phase \in {"Initializing", "Loading", "Ready", "Draining", "LoadFailed", "Exited"}
  /\ proc \in {"none", "loading", "serving", "dead"}
  /\ layers \in {"unknown", "partial", "full"}
  /\ devices \subseteq CUDADevices
  /\ visible \in 0 .. Cardinality(CUDADevices)
  /\ processing \in 0 .. MaxRequests /\ deferred \in 0 .. MaxRequests
  /\ probeActive \in 0 .. MaxRequests /\ slotsRead \in 0 .. MaxRequests
  /\ activeRequests \in 0 .. MaxRequests
  /\ ready \in BOOLEAN /\ becameReady \in BOOLEAN /\ child \in BOOLEAN
  /\ childDone \in BOOLEAN /\ expired \in BOOLEAN /\ ctxDone \in BOOLEAN
  /\ listenerFailed \in BOOLEAN /\ conforms \in BOOLEAN /\ termSent \in BOOLEAN
  /\ routed \in BOOLEAN

(* /readyz answers ready only for a child that has passed every check and   *)
(* that waitForChild has not reaped: a probe result that arrives late, after *)
(* the exit was recorded, is not applied (updateReadiness, waitForChild).    *)
ReadyIsVerified ==
  ready => /\ phase = "Ready" /\ becameReady
           /\ conforms /\ (Accelerator => visible > 0)
           /\ child /\ waiter = "waiting" /\ ~childDone

(* A failed load or an exited child is final: only a drain may follow; the   *)
(* supervisor never goes back to Loading or Ready ("does not retry").        *)
TerminalIsFinal ==
  [][(phase \in {"LoadFailed", "Exited"}) => (phase' \in {phase, "Draining"})]_vars

(* Once drain has rejected readiness, no goroutine makes the Pod ready       *)
(* again.  It holds when the drain starts after startChild returned.         *)
DrainRejectsReadiness ==
  drain \notin {"idle", "begin"} => ~ready

(* SIGTERM reaches the child while it still holds requests only when the     *)
(* drain deadline has passed: the non-atomic read of /slots then /metrics    *)
(* misses none (drain, activeRequests).                                      *)
NoRequestCutShort ==
  [][~termSent /\ termSent' => expired \/ processing + deferred = 0]_vars

(* When Run returns, the child it started has been terminated.               *)
RunLeavesNoChild == run = "returned" => ~Alive

(* A drain that was requested finishes, whatever the child does, and after   *)
(* SIGTERM Run returns.                                                      *)
ShutdownCompletes ==
  /\ drain # "idle" ~> drain = "done"
  /\ ctxDone ~> run = "returned"

(* Once the log has shown a second device the Pod stops being ready for      *)
(* good: a later, smaller summary does not weaken the readiness gate.        *)
ExtraDeviceRevokesReadiness ==
  Accelerator /\ visible > 1 ~> [](~ready)
=============================================================================
