--------------------------- MODULE MpccRuntimeProofs ---------------------------
(***************************************************************************)
(* Proofs about the MPCC runtime, for every value of its constants.        *)
(*                                                                         *)
(* The safety properties are not inductive: a plan reaches its slot out of *)
(* a request that was submitted arbitrarily long before, and a command is  *)
(* published out of a decision that was taken before other handlers ran.   *)
(* IInv adds what holds of the requests and decisions still in flight: they *)
(* are stamped with a generation no newer than the present one, and a      *)
(* request or a moving decision stamped with the present generation means  *)
(* that nothing has been withdrawn since.                                  *)
(***************************************************************************)
EXTENDS MpccRuntime, TLAPS

\* A request in flight that still carries the present generation was submitted
\* by the running authorization, in the present localization epoch.
WorkerOwned ==
  worker # None =>
    /\ worker.generation <= generation
    /\ worker.generation = generation =>
         enabled /\ ~stopping /\ worker.epoch = health.epoch

\* A decision to move that still carries the present generation was taken by a
\* controller that is still enabled.
DecisionOwned ==
  decision.deciding =>
    /\ decision.generation <= generation
    /\ decision.generation = generation /\ decision.speed > 0 => enabled

\* Before the first epoch no localization is ready, so the first epoch, which
\* does not fault, cannot be the epoch of a plan.
NoEpochNoHealth == health.epoch = 0 => ~health.ready

\* While recovery lasts at most one usable candidate has been counted.
RecoveryCount == recoveryGood \in 0..2 /\ (phase = "RECOVERING" => recoveryGood <= 1)

\* What ties the plans and the decision in flight to the lifecycle.
Ownership ==
  WorkerOwned /\ PendingOwned /\ ActiveOwned /\ PlansOfThisEpoch /\ DecisionOwned

\* The types and bounds of what the handlers take in.
Intake == OutputType /\ InputType /\ StartupType /\ RecoveryCount /\ NoEpochNoHealth

\* The lifecycle itself.
Lifecycle == LifecycleType /\ PlanType /\ PhaseAgrees /\ Ownership

IInv == Intake /\ Lifecycle /\ AuthorityHeld /\ AutoStartWaits

-----------------------------------------------------------------------------
(* The initial states.                                                     *)

\* The empty snapshot and health records have their types.
LEMMA RecordTypes == NoSnapshot \in Snapshot /\ NoHealth \in Health
<1>1. 0 \in 0..MaxEpoch
  BY ConstantsAssumption
<1>2. NoSnapshot \in Snapshot
  BY <1>1 DEF NoSnapshot, Snapshot
<1>3. NoHealth \in Health
  BY <1>1 DEF NoHealth, Health
<1> QED
  BY <1>2, <1>3

\* The constructed node satisfies the invariant.
LEMMA InitSafe == Init => IInv
<1> SUFFICES ASSUME Init PROVE IInv
  OBVIOUS
<1>1. LifecycleType /\ PlanType /\ PhaseAgrees
  BY DEF Init, LifecycleType, PlanType, Phases, PhaseAgrees
<1>2. OutputType
  BY ConstantsAssumption DEF Init, OutputType, NoDecision
<1>3. InputType
  BY RecordTypes DEF Init, InputType
<1>4. StartupType
  BY ConstantsAssumption DEF Init, StartupType
<1>5. RecoveryCount /\ NoEpochNoHealth
  BY DEF Init, RecoveryCount, NoEpochNoHealth, NoHealth
<1>6. AuthorityHeld /\ AutoStartWaits
  BY DEF Init, AuthorityHeld, AutoStartWaits
<1>7. Ownership
  BY DEF Init, Ownership, WorkerOwned, PendingOwned, ActiveOwned, PlansOfThisEpoch,
         DecisionOwned, NoDecision
<1> QED
  BY <1>1, <1>2, <1>3, <1>4, <1>5, <1>6, <1>7 DEF IInv, Intake, Lifecycle

-----------------------------------------------------------------------------
(* The two ways a handler leaves the lifecycle: a fault, or untouched.     *)

\* The generation is a number, and its successor exceeds it.
LEMMA GenerationGrows ==
  ASSUME LifecycleType, generation' = generation + 1
  PROVE  generation' \in Nat /\ generation' > generation
  BY DEF LifecycleType

\* A fault leaves no plan, and turns every request and decision in flight into
\* one of an older generation.
LEMMA FaultStep ==
  ASSUME IInv, NEW initial \in BOOLEAN, Fault(initial),
         worker' \in {worker, None}, UNCHANGED decision
  PROVE  Lifecycle' /\ AuthorityHeld'
<1>1. generation' \in Nat /\ generation' > generation
  BY GenerationGrows DEF IInv, Lifecycle, Fault
<1>2. LifecycleType'
  BY <1>1 DEF Fault, LifecycleType, Phases
<1>3. PlanType' /\ PhaseAgrees'
  BY DEF IInv, Lifecycle, Fault, PlanType, PhaseAgrees
<1>4. AuthorityHeld'
  BY DEF Fault, AuthorityHeld
<1>5. WorkerOwned'
  <2> SUFFICES ASSUME worker # None, worker' = worker PROVE WorkerOwned'
    BY DEF WorkerOwned
  <2>1. worker.generation <= generation /\ worker.generation \in Nat /\ generation \in Nat
    BY DEF IInv, Lifecycle, Ownership, WorkerOwned, PlanType, Plan, LifecycleType
  <2> QED
    BY <1>1, <2>1 DEF WorkerOwned
<1>6. PendingOwned' /\ ActiveOwned' /\ PlansOfThisEpoch'
  BY DEF Fault, PendingOwned, ActiveOwned, PlansOfThisEpoch
<1>7. DecisionOwned'
  <2> SUFFICES ASSUME decision.deciding PROVE DecisionOwned'
    BY DEF DecisionOwned
  <2>1. decision.generation <= generation /\ decision.generation \in Nat /\ generation \in Nat
    BY DEF IInv, Lifecycle, Intake, Ownership, DecisionOwned, OutputType, LifecycleType
  <2> QED
    BY <1>1, <2>1 DEF DecisionOwned
<1> QED
  BY <1>2, <1>3, <1>4, <1>5, <1>6, <1>7 DEF Lifecycle, Ownership

\* A handler that changes neither the lifecycle nor the plans keeps what ties
\* them, as long as the epoch only changes while the controller is disabled.
LEMMA KeepStep ==
  ASSUME IInv, NoTransition, UNCHANGED <<worker, decision>>,
         health'.epoch = health.epoch \/ ~enabled
  PROVE  Lifecycle'
<1>1. LifecycleType' /\ PlanType' /\ PhaseAgrees'
  BY DEF IInv, Lifecycle, NoTransition, lifecycle, LifecycleType, PlanType, PhaseAgrees
<1>2. WorkerOwned'
  BY DEF IInv, Lifecycle, Ownership, NoTransition, lifecycle, WorkerOwned
<1>3. PendingOwned' /\ ActiveOwned'
  BY DEF IInv, Lifecycle, Ownership, NoTransition, lifecycle, PendingOwned, ActiveOwned
<1>4. PlansOfThisEpoch'
  BY DEF IInv, Lifecycle, Ownership, NoTransition, lifecycle, PendingOwned, ActiveOwned,
         PlansOfThisEpoch
<1>5. DecisionOwned'
  BY DEF IInv, Lifecycle, Ownership, NoTransition, lifecycle, DecisionOwned
<1> QED
  BY <1>1, <1>2, <1>3, <1>4, <1>5 DEF Lifecycle, Ownership

-----------------------------------------------------------------------------
(* The receive callbacks.                                                  *)

\* A handler that faults an enabled controller when the condition holds.
LEMMA FaultIfEnabledStep ==
  ASSUME IInv, NEW bad \in BOOLEAN, FaultIfEnabled(bad),
         UNCHANGED <<worker, decision, autoStarted, explicitEnabled, initialFault>>,
         health'.epoch = health.epoch \/ ~enabled
  PROVE  Lifecycle' /\ AutoStartWaits' /\ autoPending' \in BOOLEAN
<1>1. CASE Fault(FALSE)
  <2>1. Lifecycle'
    BY <1>1, FaultStep
  <2>2. autoPending' = FALSE
    BY <1>1 DEF Fault, StartSurvives
  <2> QED
    BY <2>1, <2>2 DEF AutoStartWaits
<1>2. CASE NoTransition
  <2>1. Lifecycle'
    BY <1>2, KeepStep
  <2>2. autoPending' \in BOOLEAN /\ AutoStartWaits'
    BY <1>2 DEF IInv, Intake, StartupType, NoTransition, lifecycle, AutoStartWaits
  <2> QED
    BY <2>1, <2>2
<1> QED
  BY <1>1, <1>2 DEF FaultIfEnabled

\* /control/autonomy_speed_enabled keeps the invariant: a withdrawn authority
\* disables.
LEMMA ModeMessageSafe ==
  ASSUME IInv, NEW data \in BOOLEAN, ModeMessage(data)
  PROVE  IInv'
<1>1. Lifecycle' /\ AutoStartWaits' /\ autoPending' \in BOOLEAN
  BY FaultIfEnabledStep DEF ModeMessage, inputs, output, FaultIfEnabled, Fault, NoTransition
<1>2. Intake'
  <2>1. OutputType'
    BY DEF IInv, Intake, ModeMessage, output, OutputType
  <2>2. InputType'
    BY DEF IInv, Intake, ModeMessage, InputType
  <2>3. StartupType'
    BY <1>1 DEF IInv, Intake, ModeMessage, StartupType
  <2>4. RecoveryCount' /\ NoEpochNoHealth'
    BY DEF IInv, Intake, ModeMessage, FaultIfEnabled, Fault, NoTransition, lifecycle,
           RecoveryCount, NoEpochNoHealth
  <2> QED
    BY <2>1, <2>2, <2>3, <2>4 DEF Intake
<1>3. AuthorityHeld'
  BY DEF IInv, Intake, InputType, Lifecycle, LifecycleType, ModeMessage, FaultIfEnabled,
         Fault, NoTransition, lifecycle, AuthorityHeld
<1> QED
  BY <1>1, <1>2, <1>3 DEF IInv

\* /localization/map_sha256 keeps the invariant: a foreign map disables.
LEMMA IdentityMessageSafe ==
  ASSUME IInv, NEW matches \in BOOLEAN, IdentityMessage(matches)
  PROVE  IInv'
<1>1. Lifecycle' /\ AutoStartWaits' /\ autoPending' \in BOOLEAN
  BY FaultIfEnabledStep DEF IdentityMessage, output
<1>2. Intake'
  <2>1. OutputType'
    BY DEF IInv, Intake, IdentityMessage, output, OutputType
  <2>2. InputType'
    BY DEF IInv, Intake, IdentityMessage, InputType
  <2>3. StartupType'
    BY <1>1 DEF IInv, Intake, IdentityMessage, StartupType, AnchorSeenAfter, LocalizedWith,
                Trusted, InputType, Snapshot, Health
  <2>4. RecoveryCount' /\ NoEpochNoHealth'
    BY DEF IInv, Intake, IdentityMessage, FaultIfEnabled, Fault, NoTransition, lifecycle,
           RecoveryCount, NoEpochNoHealth
  <2> QED
    BY <2>1, <2>2, <2>3, <2>4 DEF Intake
<1>3. AuthorityHeld'
  BY DEF IInv, IdentityMessage, FaultIfEnabled, Fault, NoTransition, lifecycle, AuthorityHeld
<1> QED
  BY <1>1, <1>2, <1>3 DEF IInv

\* /vesc/command keeps the invariant.
LEMMA ForwardedSafe ==
  ASSUME IInv, NEW speedMode \in BOOLEAN, Forwarded(speedMode)
  PROVE  IInv'
<1>1. Lifecycle' /\ AutoStartWaits' /\ autoPending' \in BOOLEAN
  BY FaultIfEnabledStep DEF Forwarded, output
<1>2. Intake'
  <2>1. OutputType'
    BY DEF IInv, Intake, Forwarded, output, OutputType
  <2>2. InputType'
    BY DEF IInv, Intake, Forwarded, InputType
  <2>3. StartupType'
    BY <1>1 DEF IInv, Intake, Forwarded, StartupType
  <2>4. RecoveryCount' /\ NoEpochNoHealth'
    BY DEF IInv, Intake, Forwarded, FaultIfEnabled, Fault, NoTransition, lifecycle,
           RecoveryCount, NoEpochNoHealth
  <2> QED
    BY <2>1, <2>2, <2>3, <2>4 DEF Intake
<1>3. AuthorityHeld'
  BY DEF IInv, Forwarded, FaultIfEnabled, Fault, NoTransition, lifecycle, AuthorityHeld
<1> QED
  BY <1>1, <1>2, <1>3 DEF IInv

\* The truth of a condition the code computes is a Boolean.
LEMMA AnchorSeenBoolean ==
  ASSUME anchorSeen \in BOOLEAN, NEW id, NEW s, NEW h, NEW history
  PROVE  AnchorSeenAfter(id, s, h, history) \in BOOLEAN
  BY DEF AnchorSeenAfter

\* /odometry/filtered keeps the invariant: a new snapshot is bound to the
\* present epoch.
LEMMA OdometrySafe ==
  ASSUME IInv, NEW acceptable \in BOOLEAN, Odometry(acceptable)
  PROVE  IInv'
<1> DEFINE taken == acceptable /\ health.qualified /\ applied # "none"
<1>1. Lifecycle' /\ AutoStartWaits' /\ autoPending' \in BOOLEAN
  <2>1. FaultIfEnabled(~taken)
    BY DEF Odometry, FaultIfEnabled
  <2> QED
    BY <2>1, FaultIfEnabledStep DEF Odometry, output
<1>4. /\ snapshot' \in Snapshot
      /\ taken => snapshot'.present /\ snapshot'.epoch = health.epoch
      /\ UNCHANGED <<mode, modeFresh, applied, identity, health>>
  <2>1. health.epoch \in 0..MaxEpoch
    BY DEF IInv, Intake, InputType, Health
  <2>2. CASE taken
    <3>1. snapshot' = [present |-> TRUE, fresh |-> TRUE, epoch |-> health.epoch,
                       current |-> TRUE]
      BY <2>2 DEF Odometry
    <3> QED
      BY <2>1, <3>1 DEF Snapshot, Odometry
  <2>3. CASE ~taken
    BY <2>3 DEF IInv, Intake, InputType, Odometry
  <2> QED
    BY <2>2, <2>3
<1>2. Intake'
  <2>1. OutputType'
    BY DEF IInv, Intake, Odometry, output, OutputType
  <2>2. InputType'
    BY <1>4 DEF IInv, Intake, InputType
  <2>3. StartupType'
    BY <1>1, AnchorSeenBoolean DEF IInv, Intake, Odometry, StartupType
  <2>4. RecoveryCount' /\ NoEpochNoHealth'
    BY DEF IInv, Intake, Odometry, FaultIfEnabled, Fault, NoTransition, lifecycle,
           RecoveryCount, NoEpochNoHealth
  <2> QED
    BY <2>1, <2>2, <2>3, <2>4 DEF Intake
<1>3. AuthorityHeld'
  <2>1. CASE taken
    <3>1. UNCHANGED enabled
      BY <2>1 DEF Odometry, NoTransition, lifecycle
    <3> QED
      BY <1>4, <2>1, <3>1 DEF IInv, AuthorityHeld
  <2>2. CASE ~taken
    <3>1. FaultIfEnabled(TRUE) /\ UNCHANGED snapshot
      BY <2>2 DEF Odometry
    <3>2. ~enabled'
      BY <3>1 DEF FaultIfEnabled, Fault, NoTransition, lifecycle
    <3> QED
      BY <3>2 DEF AuthorityHeld
  <2> QED
    BY <2>1, <2>2
<1> QED
  BY <1>1, <1>2, <1>3 DEF IInv

\* An epoch change faults; the first epoch does not, and finds the controller
\* disabled, because it could not have been enabled without a ready anchor.
LEMMA StatusMessageSafe ==
  ASSUME IInv, NEW h \in Health, NEW newAnchor \in BOOLEAN, StatusMessage(h, newAnchor)
  PROVE  IInv'
<1> DEFINE changed == health.epoch > 0 /\ h.epoch # health.epoch
           seen    == AnchorSeenAfter(identity, snapshot, health, applied)
           initial == autoPending /\ ~seen /\ ~initialFault
<1>1. health' = h /\ UNCHANGED <<worker, recoveryGood, output, mode, modeFresh, applied,
                                 identity, autoLeft, autoStarted, explicitEnabled, solver,
                                 moving>>
  BY DEF StatusMessage
<1>2. h.epoch \in Nat /\ health.epoch \in Nat
  BY DEF IInv, Intake, InputType, Health
<1>3. health.epoch = 0 => ~enabled
  BY DEF IInv, Intake, NoEpochNoHealth, AuthorityHeld
<1>4. seen \in BOOLEAN /\ initial \in BOOLEAN
  BY AnchorSeenBoolean DEF IInv, Intake, StartupType
<1>5. OutputType'
  BY <1>1 DEF IInv, Intake, output, OutputType
<1>6. NoEpochNoHealth'
  <2>1. h.epoch = 0 => h = health \/ ~h.ready
    BY <1>2 DEF StatusMessage, Observed
  <2> QED
    BY <1>1, <2>1 DEF IInv, Intake, NoEpochNoHealth
<1>7. CASE changed
  <2>1. /\ snapshot' = NoSnapshot /\ anchorSeen' = seen
        /\ initialFault' = (initialFault \/ initial) /\ Fault(initial)
    BY <1>7 DEF StatusMessage
  <2>2. Lifecycle' /\ AuthorityHeld'
    BY <1>1, <1>4, <2>1, FaultStep DEF output
  <2>3. AutoStartWaits'
    BY <1>1, <2>1 DEF IInv, AutoStartWaits, Fault, StartSurvives
  <2>4. InputType'
    BY <1>1, <2>1, RecordTypes DEF IInv, Intake, InputType
  <2>5. StartupType'
    BY <1>1, <1>4, <2>1 DEF IInv, Intake, StartupType, Fault, StartSurvives
  <2>6. RecoveryCount'
    BY <1>1, <2>1 DEF IInv, Intake, RecoveryCount, Fault
  <2> QED
    BY <1>5, <1>6, <2>2, <2>3, <2>4, <2>5, <2>6 DEF IInv, Intake
<1>8. CASE ~changed
  <2> DEFINE adopts == /\ snapshot.present /\ snapshot.fresh /\ snapshot.epoch = h.epoch
                       /\ Trusted(h)
  <2>1. /\ snapshot' = [snapshot EXCEPT !.current = adopts \/ (@ /\ ~newAnchor)]
        /\ anchorSeen' = (seen \/ AnchorSeenAfter(identity, snapshot', h, applied))
        /\ FaultIfEnabled(~Trusted(h)) /\ UNCHANGED initialFault
    BY <1>8 DEF StatusMessage
  <2>2. health'.epoch = health.epoch \/ ~enabled
    BY <1>1, <1>2, <1>3, <1>8
  <2>3. Lifecycle' /\ AutoStartWaits' /\ autoPending' \in BOOLEAN
    BY <1>1, <2>1, <2>2, FaultIfEnabledStep DEF output
  <2>4. InputType'
    BY <1>1, <2>1 DEF IInv, Intake, InputType, Snapshot, Trusted
  <2>5. StartupType'
    BY <1>1, <1>4, <2>1, <2>3, AnchorSeenBoolean DEF IInv, Intake, StartupType
  <2>6. RecoveryCount'
    BY <1>1, <2>1 DEF IInv, Intake, RecoveryCount, FaultIfEnabled, Fault, NoTransition,
       lifecycle
  <2>7. AuthorityHeld'
    <3> SUFFICES ASSUME enabled' PROVE AuthorityHeld'
      BY DEF AuthorityHeld
    <3>1. enabled /\ Trusted(h)
      BY <2>1 DEF FaultIfEnabled, Fault, NoTransition, lifecycle
    <3>2. snapshot'.present = snapshot.present /\ snapshot'.epoch = snapshot.epoch
      BY <2>1 DEF IInv, Intake, InputType, Snapshot
    <3> QED
      BY <1>1, <2>2, <3>1, <3>2 DEF IInv, AuthorityHeld, Trusted
  <2> QED
    BY <1>5, <1>6, <2>3, <2>4, <2>5, <2>6, <2>7 DEF IInv, Intake
<1> QED
  BY <1>7, <1>8

\* A status of another map keeps the invariant: it faults whatever the phase.
LEMMA ForeignStatusSafe == IInv /\ ForeignStatus => IInv'
<1> SUFFICES ASSUME IInv, ForeignStatus PROVE IInv'
  OBVIOUS
<1>1. /\ Fault(FALSE) /\ snapshot' = NoSnapshot
      /\ anchorSeen' = AnchorSeenAfter(identity, snapshot, health, applied)
      /\ health' = [health EXCEPT !.ready = FALSE, !.qualified = FALSE, !.live = FALSE]
      /\ UNCHANGED <<worker, recoveryGood, output, mode, modeFresh, applied, identity,
                     autoLeft, initialFault, autoStarted, explicitEnabled, solver, moving>>
  BY DEF ForeignStatus
<1>2. Lifecycle' /\ AuthorityHeld'
  BY <1>1, FaultStep DEF output
<1>3. autoPending' = FALSE /\ phase' = "FAULT"
  BY <1>1 DEF Fault, StartSurvives
<1>4. OutputType'
  BY <1>1 DEF IInv, Intake, output, OutputType
<1>5. health' \in Health /\ ~health'.ready
  BY <1>1 DEF IInv, Intake, InputType, Health
<1>6. InputType'
  BY <1>1, <1>5, RecordTypes DEF IInv, Intake, InputType
<1>7. StartupType'
  BY <1>1, <1>3, AnchorSeenBoolean DEF IInv, Intake, StartupType
<1>8. RecoveryCount' /\ NoEpochNoHealth' /\ AutoStartWaits'
  BY <1>1, <1>3, <1>5 DEF IInv, Intake, RecoveryCount, NoEpochNoHealth, AutoStartWaits
<1> QED
  BY <1>2, <1>4, <1>6, <1>7, <1>8 DEF IInv, Intake

\* A clock rollback keeps the invariant: it clears every input it disables for.
LEMMA ClockRollbackSafe == IInv /\ ClockRollback => IInv'
<1> SUFFICES ASSUME IInv, ClockRollback PROVE IInv'
  OBVIOUS
<1>1. Fault(FALSE) /\ worker' = worker /\ decision' = decision
  BY DEF ClockRollback
<1>2. Lifecycle' /\ AuthorityHeld'
  BY <1>1, FaultStep
<1>3. autoPending' = FALSE /\ phase' = "FAULT"
  BY <1>1 DEF Fault, StartSurvives
<1>4. OutputType'
  BY ConstantsAssumption DEF IInv, Intake, ClockRollback, OutputType
<1>5. InputType'
  BY RecordTypes DEF ClockRollback, InputType
<1>6. StartupType'
  BY <1>3 DEF IInv, Intake, ClockRollback, StartupType
<1>7. RecoveryCount' /\ NoEpochNoHealth' /\ AutoStartWaits'
  BY <1>3 DEF ClockRollback, RecoveryCount, NoEpochNoHealth, NoHealth, AutoStartWaits
<1> QED
  BY <1>2, <1>4, <1>5, <1>6, <1>7 DEF IInv, Intake

\* A start finds no plan in its slots and outdates whatever is in flight.
LEMMA StartStep ==
  ASSUME IInv, Start, UNCHANGED <<worker, inputs>>, Localized, Fresh,
         \/ UNCHANGED decision
         \/ decision' = [speed |-> 0, generation |-> generation', deciding |-> TRUE]
  PROVE  Lifecycle' /\ AuthorityHeld' /\ RecoveryCount' /\ AutoStartWaits'
<1>1. generation' \in Nat /\ generation' > generation
  BY GenerationGrows DEF IInv, Lifecycle, Start
<1>2. LifecycleType'
  BY <1>1 DEF Start, LifecycleType, Phases
<1>3. PlanType' /\ PhaseAgrees'
  BY DEF IInv, Lifecycle, Start, PlanType, PhaseAgrees
<1>4. AuthorityHeld'
  BY DEF Localized, LocalizedWith, Trusted, Fresh, inputs, AuthorityHeld
<1>5. WorkerOwned'
  <2> SUFFICES ASSUME worker # None PROVE WorkerOwned'
    BY DEF WorkerOwned
  <2>1. worker.generation <= generation /\ worker.generation \in Nat /\ generation \in Nat
    BY DEF IInv, Lifecycle, Ownership, WorkerOwned, PlanType, Plan, LifecycleType
  <2> QED
    BY <1>1, <2>1 DEF WorkerOwned
<1>6. PendingOwned' /\ ActiveOwned' /\ PlansOfThisEpoch'
  BY DEF Start, PendingOwned, ActiveOwned, PlansOfThisEpoch
<1>7. DecisionOwned'
  <2>1. CASE UNCHANGED decision
    <3> SUFFICES ASSUME decision.deciding PROVE DecisionOwned'
      BY <2>1 DEF DecisionOwned
    <3>1. decision.generation <= generation /\ decision.generation \in Nat /\ generation \in Nat
      BY DEF IInv, Lifecycle, Intake, Ownership, DecisionOwned, OutputType, LifecycleType
    <3> QED
      BY <1>1, <2>1, <3>1 DEF DecisionOwned
  <2>2. CASE decision' = [speed |-> 0, generation |-> generation', deciding |-> TRUE]
    BY <1>1, <2>2 DEF DecisionOwned
  <2> QED
    BY <2>1, <2>2
<1>8. RecoveryCount' /\ AutoStartWaits'
  BY DEF Start, RecoveryCount, AutoStartWaits
<1> QED
  BY <1>2, <1>3, <1>4, <1>5, <1>6, <1>7, <1>8 DEF Lifecycle, Ownership

\* /mpcc/enable true keeps the invariant, accepted or refused.
LEMMA EnableRequestSafe ==
  ASSUME IInv, NEW vehicleReady \in BOOLEAN, EnableRequest(vehicleReady)
  PROVE  IInv'
<1>1. UNCHANGED <<worker, decision, wire, inputs, autoLeft, initialFault, autoStarted,
                  solver, moving>>
  BY DEF EnableRequest
<1>2. InputType' /\ NoEpochNoHealth'
  BY <1>1 DEF IInv, Intake, inputs, InputType, NoEpochNoHealth
<1>3. CASE StartInputs /\ vehicleReady /\ ~moving
  <2>1. Start /\ explicitEnabled' = TRUE
    BY <1>3 DEF EnableRequest
  <2>2. Lifecycle' /\ AuthorityHeld' /\ RecoveryCount' /\ AutoStartWaits'
    BY <1>1, <1>3, <2>1, StartStep DEF StartInputs
  <2>3. OutputType'
    BY <1>1, <2>1, ConstantsAssumption DEF IInv, Intake, OutputType, Start
  <2>4. StartupType'
    BY <1>1, <2>1 DEF IInv, Intake, StartupType, Start
  <2> QED
    BY <1>2, <2>2, <2>3, <2>4 DEF IInv, Intake
<1>4. CASE ~(StartInputs /\ vehicleReady /\ ~moving)
  <2>1. /\ NoTransition /\ anchorSeen' = (anchorSeen \/ StartInputs)
        /\ UNCHANGED <<recoveryGood, sinceStart, stationary, speed, explicitEnabled>>
    BY <1>4 DEF EnableRequest
  <2>2. Lifecycle'
    BY <1>1, <2>1, KeepStep DEF inputs
  <2>3. AuthorityHeld' /\ AutoStartWaits' /\ RecoveryCount'
    BY <1>1, <2>1 DEF IInv, Intake, NoTransition, lifecycle, inputs, AuthorityHeld,
       AutoStartWaits, RecoveryCount
  <2>4. OutputType'
    BY <1>1, <2>1 DEF IInv, Intake, OutputType
  <2>5. StartupType'
    BY <1>1, <2>1 DEF IInv, Intake, StartupType, NoTransition, StartInputs
  <2> QED
    BY <1>2, <2>2, <2>3, <2>4, <2>5 DEF IInv, Intake
<1> QED
  BY <1>3, <1>4

\* /mpcc/enable false keeps the invariant: it outdates what is in flight.
LEMMA StopRequestSafe == IInv /\ StopRequest => IInv'
<1> SUFFICES ASSUME IInv, StopRequest PROVE IInv'
  OBVIOUS
<1>1. /\ autoPending' = FALSE
      /\ UNCHANGED <<enabled, worker, active, recoveryGood, output, inputs, autoLeft,
                     anchorSeen, initialFault, autoStarted, explicitEnabled, solver, moving>>
  BY DEF StopRequest
<1>2. OutputType' /\ InputType' /\ NoEpochNoHealth' /\ AuthorityHeld' /\ AutoStartWaits'
  BY <1>1 DEF IInv, Intake, output, inputs, OutputType, InputType, NoEpochNoHealth,
     AuthorityHeld, AutoStartWaits
<1>3. StartupType'
  BY <1>1 DEF IInv, Intake, StartupType
<1>4. CASE ~enabled
  <2>1. UNCHANGED <<stopping, phase, generation, pending>>
    BY <1>4 DEF StopRequest
  <2>2. RecoveryCount' /\ LifecycleType' /\ PlanType' /\ PhaseAgrees'
    BY <1>1, <2>1 DEF IInv, Intake, Lifecycle, RecoveryCount, LifecycleType, PlanType,
       PhaseAgrees
  <2>3. Ownership'
    BY <1>1, <2>1 DEF IInv, Lifecycle, Ownership, output, inputs, WorkerOwned, PendingOwned,
       ActiveOwned, PlansOfThisEpoch, DecisionOwned
  <2> QED
    BY <1>2, <1>3, <2>2, <2>3 DEF IInv, Intake, Lifecycle
<1>5. CASE enabled
  <2>1. /\ stopping' = TRUE /\ phase' = "STOPPING" /\ generation' = generation + 1
        /\ pending' = None
    BY <1>5 DEF StopRequest
  <2>2. generation' \in Nat /\ generation' > generation /\ generation \in Nat
    BY <2>1, GenerationGrows DEF IInv, Lifecycle, LifecycleType
  <2>3. LifecycleType' /\ PhaseAgrees'
    BY <1>1, <1>5, <2>1, <2>2 DEF IInv, Lifecycle, LifecycleType, Phases, PhaseAgrees
  <2>4. PlanType' /\ RecoveryCount'
    BY <1>1, <2>1 DEF IInv, Intake, Lifecycle, PlanType, RecoveryCount
  <2>5. WorkerOwned'
    BY <1>1, <2>2 DEF IInv, Lifecycle, Ownership, WorkerOwned, PlanType, Plan
  <2>6. PendingOwned' /\ ActiveOwned' /\ PlansOfThisEpoch'
    BY <1>1, <1>5, <2>1 DEF IInv, Lifecycle, Ownership, inputs, PendingOwned, ActiveOwned,
       PlansOfThisEpoch
  <2>7. DecisionOwned'
    <3> SUFFICES ASSUME decision.deciding PROVE DecisionOwned'
      BY <1>1 DEF DecisionOwned, output
    <3>1. decision.generation <= generation /\ decision.generation \in Nat
      BY DEF IInv, Lifecycle, Intake, Ownership, DecisionOwned, OutputType
    <3>2. UNCHANGED decision /\ enabled' = TRUE
      BY <1>1, <1>5 DEF output, IInv, Lifecycle, LifecycleType
    <3> QED
      BY <2>2, <3>1, <3>2 DEF DecisionOwned
  <2> QED
    BY <1>2, <1>3, <2>3, <2>4, <2>5, <2>6, <2>7 DEF IInv, Intake, Lifecycle, Ownership
<1> QED
  BY <1>4, <1>5

\* Every receive callback keeps the invariant.
LEMMA ReceiveSafe == IInv /\ Receive => IInv'
  BY EnableRequestSafe, StopRequestSafe, ModeMessageSafe, IdentityMessageSafe, ForwardedSafe,
     OdometrySafe, StatusMessageSafe, ForeignStatusSafe, ClockRollbackSafe DEF Receive

-----------------------------------------------------------------------------
(* The worker.                                                             *)

\* The worker's start keeps the invariant.
LEMMA WorkerReadySafe == IInv /\ WorkerReady => IInv'
<1> SUFFICES ASSUME IInv, WorkerReady PROVE IInv'
  OBVIOUS
<1>1. /\ UNCHANGED <<lifecycle, plans, output, inputs, startup, moving>>
      /\ solver' = "ready"
  BY DEF WorkerReady
<1>2. Lifecycle' /\ AuthorityHeld' /\ AutoStartWaits'
  BY <1>1 DEF IInv, Lifecycle, lifecycle, plans, output, inputs, startup, LifecycleType,
     PlanType, PhaseAgrees, Ownership, WorkerOwned, PendingOwned, ActiveOwned,
     PlansOfThisEpoch, DecisionOwned, AuthorityHeld, AutoStartWaits
<1>3. OutputType' /\ InputType' /\ RecoveryCount' /\ NoEpochNoHealth'
  BY <1>1 DEF IInv, Intake, lifecycle, plans, output, inputs, startup, OutputType, InputType,
     RecoveryCount, NoEpochNoHealth
<1>4. StartupType'
  BY <1>1 DEF IInv, Intake, startup, StartupType
<1> QED
  BY <1>2, <1>3, <1>4 DEF IInv, Intake

\* A request is submitted by a controller that is enabled in the epoch of the
\* snapshot it copies.
LEMMA WorkerSubmitSafe ==
  ASSUME IInv, NEW age \in 0..InitialAge, WorkerSubmit(age)
  PROVE  IInv'
<1>1. /\ worker' = [generation |-> generation, epoch |-> snapshot.epoch, age |-> age,
                    since |-> 0]
      /\ enabled /\ ~stopping /\ snapshot.epoch = health.epoch
      /\ UNCHANGED <<lifecycle, pending, active, recoveryGood, output, inputs, startup,
                     solver, moving>>
  BY DEF WorkerSubmit, Localized, LocalizedWith
<1>2. worker' \in Plan
  <2>1. age \in 0..(Ttl + 1) /\ 0 \in 0..SinceCap
    BY ConstantsAssumption DEF SinceCap
  <2>2. generation \in Nat /\ snapshot.epoch \in 0..MaxEpoch
    BY DEF IInv, Intake, Lifecycle, LifecycleType, InputType, Snapshot
  <2> QED
    BY <1>1, <2>1, <2>2 DEF Plan
<1>3. LifecycleType' /\ PlanType' /\ PhaseAgrees'
  BY <1>1, <1>2 DEF IInv, Lifecycle, lifecycle, LifecycleType, PlanType, PhaseAgrees
<1>4. WorkerOwned'
  BY <1>1 DEF IInv, Lifecycle, LifecycleType, lifecycle, inputs, WorkerOwned
<1>5. PendingOwned' /\ ActiveOwned' /\ PlansOfThisEpoch' /\ DecisionOwned'
  BY <1>1 DEF IInv, Lifecycle, Ownership, lifecycle, inputs, output, PendingOwned,
     ActiveOwned, PlansOfThisEpoch, DecisionOwned
<1>6. Intake'
  BY <1>1 DEF IInv, Intake, lifecycle, output, inputs, startup, OutputType, InputType,
     StartupType, RecoveryCount, NoEpochNoHealth
<1>7. AuthorityHeld' /\ AutoStartWaits'
  BY <1>1 DEF IInv, lifecycle, inputs, startup, AuthorityHeld, AutoStartWaits
<1> QED
  BY <1>3, <1>4, <1>5, <1>6, <1>7 DEF IInv, Lifecycle, Ownership

\* A delivery keeps the invariant: only a plan of the running authorization
\* enters the slot.
LEMMA WorkerDeliverSafe ==
  ASSUME IInv, NEW verdict \in {"solved", "overrun", "failed"}, WorkerDeliver(verdict)
  PROVE  IInv'
<1>1. /\ worker # None /\ worker' = None
      /\ pending' = IF Accepts(verdict) /\ verdict = "solved" THEN worker ELSE pending
      /\ recoveryGood' = IF Accepts(verdict) THEN recoveryGood ELSE 0
      /\ UNCHANGED <<lifecycle, active, output, inputs, startup, solver, moving>>
  BY DEF WorkerDeliver
<1>2. pending' # pending => /\ pending' = worker /\ enabled /\ ~stopping
                           /\ worker.generation = generation
  BY <1>1 DEF Accepts
<1>3. LifecycleType' /\ PlanType' /\ PhaseAgrees'
  BY <1>1, <1>2 DEF IInv, Lifecycle, lifecycle, LifecycleType, PlanType, PhaseAgrees
<1>4. WorkerOwned' /\ ActiveOwned' /\ DecisionOwned'
  BY <1>1 DEF IInv, Lifecycle, Ownership, lifecycle, output, WorkerOwned, ActiveOwned,
     DecisionOwned
<1>5. PendingOwned'
  BY <1>1, <1>2 DEF IInv, Lifecycle, Ownership, lifecycle, PendingOwned
<1>6. PlansOfThisEpoch'
  BY <1>1, <1>2 DEF IInv, Lifecycle, Ownership, inputs, WorkerOwned, PlansOfThisEpoch
<1>7. OutputType' /\ RecoveryCount'
  BY <1>1 DEF IInv, Intake, lifecycle, output, startup, OutputType, RecoveryCount
<1>8. InputType' /\ StartupType' /\ NoEpochNoHealth' /\ AuthorityHeld' /\ AutoStartWaits'
  BY <1>1 DEF IInv, Intake, lifecycle, inputs, startup, InputType, StartupType,
     NoEpochNoHealth, AuthorityHeld, AutoStartWaits
<1> QED
  BY <1>3, <1>4, <1>5, <1>6, <1>7, <1>8 DEF IInv, Intake, Lifecycle, Ownership

\* The end of the worker thread keeps the invariant.
LEMMA WorkerFailsSafe == IInv /\ WorkerFails => IInv'
<1> SUFFICES ASSUME IInv, WorkerFails PROVE IInv'
  OBVIOUS
<1>1. /\ Fault(FALSE) /\ worker' = None /\ solver' = "dead"
      /\ UNCHANGED <<recoveryGood, output, inputs, autoLeft, anchorSeen, initialFault,
                     autoStarted, explicitEnabled, moving>>
  BY DEF WorkerFails
<1>2. Lifecycle' /\ AuthorityHeld'
  BY <1>1, FaultStep DEF output
<1>3. autoPending' = FALSE /\ phase' = "FAULT"
  BY <1>1 DEF Fault, StartSurvives
<1>4. OutputType' /\ InputType' /\ RecoveryCount' /\ NoEpochNoHealth' /\ AutoStartWaits'
  BY <1>1, <1>3 DEF IInv, Intake, output, inputs, OutputType, InputType, RecoveryCount,
     NoEpochNoHealth, AutoStartWaits
<1>5. StartupType'
  BY <1>1, <1>3 DEF IInv, Intake, StartupType
<1> QED
  BY <1>2, <1>4, <1>5 DEF IInv, Intake

\* Every worker step keeps the invariant.
LEMMA WorkSafe == IInv /\ Work => IInv'
  BY WorkerReadySafe, WorkerSubmitSafe, WorkerDeliverSafe, WorkerFailsSafe DEF Work

-----------------------------------------------------------------------------
(* The output timer, the passage of time and the vehicle.                  *)

\* What no plan, input or lifecycle change touches is kept.
LEMMA LifecycleKept ==
  ASSUME IInv, UNCHANGED <<lifecycle, worker, pending, active, health>>, DecisionOwned'
  PROVE  Lifecycle'
  BY DEF IInv, Lifecycle, lifecycle, LifecycleType, PlanType, PhaseAgrees, Ownership,
     WorkerOwned, PendingOwned, ActiveOwned, PlansOfThisEpoch

\* A zero decision is owned by whoever takes it.
LEMMA ZeroDecisionOwned ==
  ASSUME NEW g \in Nat, Decided(0, g), g = generation'
  PROVE  DecisionOwned' /\ decision' \in [speed : 0..MaxSpeed, generation : Nat,
                                          deciding : BOOLEAN]
  BY ConstantsAssumption DEF Decided, DecisionOwned

\* A disabled decision keeps the invariant.
LEMMA DecideIdleSafe == IInv /\ DecideIdle => IInv'
<1> SUFFICES ASSUME IInv, DecideIdle PROVE IInv'
  OBVIOUS
<1>1. /\ Decided(0, generation) /\ generation \in Nat
      /\ UNCHANGED <<lifecycle, plans, sinceStart, stationary, speed, wire, inputs, startup,
                     solver, moving>>
  BY DEF DecideIdle, IInv, Lifecycle, LifecycleType
<1>2. DecisionOwned' /\ decision' \in [speed : 0..MaxSpeed, generation : Nat,
                                       deciding : BOOLEAN]
  BY <1>1, ZeroDecisionOwned DEF lifecycle
<1>3. Lifecycle'
  BY <1>1, <1>2, LifecycleKept DEF plans, inputs
<1>4. Intake' /\ AuthorityHeld' /\ AutoStartWaits'
  BY <1>1, <1>2 DEF IInv, Intake, lifecycle, plans, inputs, startup, OutputType, InputType,
     StartupType, RecoveryCount, NoEpochNoHealth, AuthorityHeld, AutoStartWaits
<1> QED
  BY <1>3, <1>4 DEF IInv

\* A waiting or cancelled automatic start keeps the invariant.
LEMMA DecideAutoWaitSafe ==
  ASSUME IInv, NEW vehicleReady \in BOOLEAN, DecideAutoWait(vehicleReady)
  PROVE  IInv'
<1>1. /\ Decided(0, generation) /\ generation \in Nat
      /\ autoPending /\ autoPending' = KeepsWaiting
      /\ anchorSeen' = (anchorSeen \/ (autoLeft > 0 /\ StartInputs))
      /\ UNCHANGED <<lifecycle, plans, sinceStart, stationary, speed, wire, inputs, autoLeft,
                     initialFault, autoStarted, explicitEnabled, solver, moving>>
  BY DEF DecideAutoWait, IInv, Lifecycle, LifecycleType
<1>2. DecisionOwned' /\ decision' \in [speed : 0..MaxSpeed, generation : Nat,
                                       deciding : BOOLEAN]
  BY <1>1, ZeroDecisionOwned DEF lifecycle
<1>3. Lifecycle'
  BY <1>1, <1>2, LifecycleKept DEF plans, inputs
<1>4. OutputType' /\ InputType' /\ RecoveryCount' /\ NoEpochNoHealth'
  BY <1>1, <1>2 DEF IInv, Intake, lifecycle, plans, inputs, OutputType, InputType,
     RecoveryCount, NoEpochNoHealth
<1>5. AuthorityHeld' /\ AutoStartWaits'
  BY <1>1 DEF IInv, lifecycle, inputs, AuthorityHeld, AutoStartWaits
<1>6. StartupType'
  BY <1>1 DEF IInv, Intake, StartupType, StartInputs, KeepsWaiting
<1> QED
  BY <1>3, <1>4, <1>5, <1>6 DEF IInv, Intake

\* Accepted and then faulted in one callback: two generations newer.
LEMMA DecideAutoStartSafe ==
  ASSUME IInv, NEW broken \in BOOLEAN, DecideAutoStart(broken)
  PROVE  IInv'
<1>1. /\ ~enabled /\ StartInputs /\ autoStarted' = TRUE /\ Decided(0, generation')
      /\ UNCHANGED <<worker, wire, inputs, autoLeft, initialFault, explicitEnabled, solver,
                     moving>>
  BY DEF DecideAutoStart
<1>2. InputType' /\ NoEpochNoHealth'
  BY <1>1 DEF IInv, Intake, inputs, InputType, NoEpochNoHealth
<1>3. CASE ~broken
  <2>1. Start
    BY <1>3 DEF DecideAutoStart
  <2>2. Lifecycle' /\ AuthorityHeld' /\ RecoveryCount' /\ AutoStartWaits'
    BY <1>1, <2>1, StartStep DEF StartInputs, Decided
  <2>3. generation' \in Nat
    BY <2>1, GenerationGrows DEF IInv, Lifecycle, Start
  <2>4. decision' \in [speed : 0..MaxSpeed, generation : Nat, deciding : BOOLEAN]
    BY <1>1, <2>3, ZeroDecisionOwned
  <2>5. OutputType'
    BY <1>1, <2>1, <2>4, ConstantsAssumption DEF IInv, Intake, OutputType, Start
  <2>6. StartupType'
    BY <1>1, <2>1 DEF IInv, Intake, StartupType, Start
  <2> QED
    BY <1>2, <2>2, <2>5, <2>6 DEF IInv, Intake
<1>4. CASE broken
  <2>1. /\ enabled' = FALSE /\ stopping' = FALSE /\ phase' = "FAULT"
        /\ generation' = generation + 2 /\ active' = None /\ pending' = None
        /\ autoPending' = FALSE /\ anchorSeen' = TRUE
        /\ recoveryGood' = 0 /\ sinceStart' = 0 /\ stationary' = 0 /\ speed' = 0
    BY <1>4 DEF DecideAutoStart
  <2>2. generation' \in Nat /\ generation' > generation /\ generation \in Nat
    BY <2>1 DEF IInv, Lifecycle, LifecycleType
  <2>3. DecisionOwned' /\ decision' \in [speed : 0..MaxSpeed, generation : Nat,
                                         deciding : BOOLEAN]
    BY <1>1, <2>2, ZeroDecisionOwned
  <2>4. LifecycleType' /\ PlanType' /\ PhaseAgrees'
    BY <1>1, <2>1, <2>2 DEF IInv, Lifecycle, LifecycleType, Phases, PlanType, PhaseAgrees
  <2>5. WorkerOwned'
    BY <1>1, <2>2 DEF IInv, Lifecycle, Ownership, WorkerOwned, PlanType, Plan
  <2>6. PendingOwned' /\ ActiveOwned' /\ PlansOfThisEpoch' /\ AuthorityHeld'
    BY <2>1 DEF PendingOwned, ActiveOwned, PlansOfThisEpoch, AuthorityHeld
  <2>7. OutputType'
    BY <1>1, <2>1, <2>3, ConstantsAssumption DEF IInv, Intake, OutputType
  <2>8. AutoStartWaits' /\ RecoveryCount'
    BY <2>1 DEF AutoStartWaits, RecoveryCount
  <2>9. StartupType'
    BY <1>1, <2>1 DEF IInv, Intake, StartupType
  <2> QED
    BY <1>2, <2>3, <2>4, <2>5, <2>6, <2>7, <2>8, <2>9 DEF IInv, Intake, Lifecycle, Ownership
<1> QED
  BY <1>3, <1>4

\* A decision that faults keeps the invariant.
LEMMA DecideFaultSafe ==
  ASSUME IInv, NEW broken \in BOOLEAN, DecideFault(broken)
  PROVE  IInv'
<1>1. /\ Fault(FALSE) /\ Decided(0, generation + 1)
      /\ UNCHANGED <<worker, recoveryGood, sinceStart, stationary, speed, wire, inputs,
                     autoLeft, anchorSeen, initialFault, autoStarted, explicitEnabled, solver,
                     moving>>
  BY DEF DecideFault
<1>2. generation' \in Nat /\ generation' > generation /\ generation' = generation + 1
      /\ generation \in Nat
  BY <1>1, GenerationGrows DEF IInv, Lifecycle, Fault, LifecycleType
<1>3. DecisionOwned' /\ decision' \in [speed : 0..MaxSpeed, generation : Nat,
                                       deciding : BOOLEAN]
  BY <1>1, <1>2, ZeroDecisionOwned
<1>4. LifecycleType' /\ PlanType' /\ PhaseAgrees'
  BY <1>1, <1>2 DEF IInv, Lifecycle, Fault, LifecycleType, Phases, PlanType, PhaseAgrees
<1>5. WorkerOwned'
  BY <1>1, <1>2 DEF IInv, Lifecycle, Ownership, WorkerOwned, PlanType, Plan
<1>6. PendingOwned' /\ ActiveOwned' /\ PlansOfThisEpoch' /\ AuthorityHeld'
  BY <1>1 DEF Fault, PendingOwned, ActiveOwned, PlansOfThisEpoch, AuthorityHeld
<1>7. autoPending' = FALSE /\ phase' = "FAULT"
  BY <1>1 DEF Fault, StartSurvives
<1>8. OutputType' /\ RecoveryCount'
  BY <1>1, <1>3, <1>7 DEF IInv, Intake, OutputType, RecoveryCount
<1>9. InputType' /\ StartupType' /\ NoEpochNoHealth' /\ AutoStartWaits'
  BY <1>1, <1>7 DEF IInv, Intake, inputs, InputType, StartupType, NoEpochNoHealth,
     AutoStartWaits
<1> QED
  BY <1>3, <1>4, <1>5, <1>6, <1>8, <1>9 DEF IInv, Intake, Lifecycle, Ownership

\* The plan a running decision samples: its own authorization's, of this epoch,
\* unless the controller is stopping; a plan is taken over only within the TTL.
LEMMA DrivingPlan ==
  ASSUME IInv, enabled, NEW certified \in BOOLEAN, NEW plan,
         plan = IF TakesOver(certified) THEN [pending EXCEPT !.since = SinceCap] ELSE active
  PROVE  /\ plan \in Plan \cup {None}
         /\ TakesOver(certified) => plan # None /\ plan.age <= Ttl /\ ~stopping
         /\ plan # None => /\ plan.epoch = health.epoch
                           /\ stopping \/ plan.generation = generation
<1>1. CASE TakesOver(certified)
  <2>1. /\ pending \in Plan /\ pending # None /\ pending.age <= Ttl /\ ~stopping
        /\ pending.generation = generation /\ pending.epoch = health.epoch
    BY <1>1 DEF TakesOver, Due, Usable, IInv, Lifecycle, PlanType, Ownership, PlansOfThisEpoch
  <2>2. SinceCap \in 0..SinceCap
    BY ConstantsAssumption DEF SinceCap
  <2>3. plan \in Plan /\ plan.age = pending.age /\ plan.epoch = pending.epoch
        /\ plan.generation = pending.generation
    BY <1>1, <2>1, <2>2 DEF Plan
  <2> QED
    BY <1>1, <2>1, <2>3, NoneAssumption
<1>2. CASE ~TakesOver(certified)
  BY <1>2 DEF IInv, Lifecycle, PlanType, Ownership, ActiveOwned, PlansOfThisEpoch
<1> QED
  BY <1>1, <1>2

\* The recovery count a takeover leaves: at most one while recovery goes on.
LEMMA RecoveryCounted ==
  ASSUME IInv, NEW certified \in BOOLEAN
  PROVE  /\ GoodAfterTakeover(certified) \in 0..2
         /\ phase = "RECOVERING" /\ ~TakesOver(certified) => GoodAfterTakeover(certified) <= 1
<1>1. recoveryGood \in 0..2 /\ (phase = "RECOVERING" => recoveryGood <= 1)
  BY DEF IInv, Intake, RecoveryCount
<1>2. CASE Due /\ Usable(certified) /\ phase = "RECOVERING" /\ moving
  <2>1. GoodAfterTakeover(certified) = recoveryGood + 1
    BY <1>2 DEF GoodAfterTakeover
  <2>2. ~TakesOver(certified) => recoveryGood + 1 < 2
    BY <1>1, <1>2, <2>1 DEF TakesOver
  <2> QED
    BY <1>1, <1>2, <2>1, <2>2
<1>3. CASE ~(Due /\ Usable(certified) /\ phase = "RECOVERING" /\ moving)
  <2>1. GoodAfterTakeover(certified) \in {0, recoveryGood}
    BY <1>3 DEF GoodAfterTakeover
  <2> QED
    BY <1>1, <2>1
<1> QED
  BY <1>2, <1>3

\* The decision of a running controller keeps the invariant.
LEMMA DecideDriveSafe ==
  ASSUME IInv, NEW certified \in BOOLEAN, NEW finish \in BOOLEAN, NEW overshoot \in BOOLEAN,
         NEW next \in 0..MaxSpeed, NEW cap \in 0..1,
         DecideDrive(certified, next, cap, finish, overshoot)
  PROVE  IInv'
<1> DEFINE taken   == TakesOver(certified)
           plan    == IF taken THEN [pending EXCEPT !.since = SinceCap] ELSE active
           running == IF taken THEN "RUNNING" ELSE phase
           expired == ~(plan # None /\ plan.age <= Ttl) /\ sinceStart >= Ttl
           current == PhaseAfter(running, expired)
           hold    == IF ~Standstill(current, finish, next) THEN 0
                      ELSE IF stationary = 0 THEN 1 ELSE stationary
           parked  == hold > StopHold
<1>1. /\ enabled /\ next \in NextSpeeds(plan)
      /\ speed' = next /\ stationary' = hold
      /\ recoveryGood' = IF expired /\ running # "RECOVERING" THEN 0
                         ELSE GoodAfterTakeover(certified)
      /\ enabled' = (~parked /\ ~overshoot) /\ stopping' = (stopping /\ ~overshoot)
      /\ phase' = IF overshoot THEN "FAULT"
                  ELSE IF ~parked THEN current ELSE IF finish THEN "COMPLETE" ELSE "READY"
      /\ generation' = generation + (IF parked THEN 1 ELSE 0) + (IF overshoot THEN 1 ELSE 0)
      /\ active' = IF parked \/ overshoot THEN None ELSE plan
      /\ pending' = IF Due \/ parked \/ overshoot THEN None ELSE pending
      /\ autoPending' = (autoPending /\ ~overshoot)
      /\ Decided(IF overshoot THEN 0 ELSE OnWire(plan, next, cap), generation')
      /\ UNCHANGED <<worker, sinceStart, wire, inputs, autoLeft, anchorSeen, initialFault,
                     autoStarted, explicitEnabled, solver, moving>>
  BY DEF DecideDrive
<1>2. /\ plan \in Plan \cup {None} /\ (taken => ~stopping /\ ~expired)
      /\ plan # None => plan.epoch = health.epoch /\ (stopping \/ plan.generation = generation)
  BY <1>1, DrivingPlan
<1>3. enabled /\ phase \in {"RUNNING", "STOPPING", "RECOVERING"}
      /\ (stopping <=> phase = "STOPPING") /\ ~autoPending
  BY <1>1 DEF IInv, Lifecycle, PhaseAgrees, AutoStartWaits
<1>4. /\ current \in {"RUNNING", "STOPPING", "RECOVERING"}
      /\ stopping <=> current = "STOPPING"
      /\ current = "RECOVERING" /\ ~expired => phase = "RECOVERING" /\ ~taken
  BY <1>2, <1>3 DEF PhaseAfter
<1>5. /\ generation \in Nat /\ generation' \in Nat /\ generation' >= generation
      /\ parked \/ overshoot => generation' > generation
      /\ ~parked /\ ~overshoot => generation' = generation
  <2>1. generation \in Nat
    BY DEF IInv, Lifecycle, LifecycleType
  <2> QED
    BY <1>1, <2>1
<1>6. LifecycleType'
  <2>1. phase' \in Phases
    BY <1>1, <1>4 DEF Phases
  <2>2. enabled' \in BOOLEAN /\ stopping' \in BOOLEAN
    BY <1>1 DEF IInv, Lifecycle, LifecycleType
  <2> QED
    BY <1>5, <2>1, <2>2 DEF LifecycleType
<1>7. PlanType'
  BY <1>1, <1>2 DEF IInv, Lifecycle, PlanType
<1>8. PhaseAgrees'
  <2>1. CASE overshoot
    BY <1>1, <2>1 DEF PhaseAgrees
  <2>2. CASE ~overshoot /\ parked
    BY <1>1, <2>2 DEF PhaseAgrees
  <2>3. CASE ~overshoot /\ ~parked
    <3>1. enabled' = TRUE /\ stopping' = stopping /\ phase' = current
      BY <1>1, <2>3 DEF IInv, Lifecycle, LifecycleType
    <3> QED
      BY <1>4, <3>1 DEF PhaseAgrees
  <2> QED
    BY <2>1, <2>2, <2>3
<1>9. WorkerOwned'
  <2> SUFFICES ASSUME worker # None PROVE WorkerOwned'
    BY <1>1 DEF WorkerOwned
  <2>1. worker.generation \in Nat /\ worker.generation <= generation
    BY DEF IInv, Lifecycle, Ownership, WorkerOwned, PlanType, Plan
  <2>2. worker.generation = generation' => ~parked /\ ~overshoot
    BY <1>5, <2>1
  <2>3. worker.generation = generation' => /\ enabled' /\ ~stopping'
                                           /\ worker.epoch = health.epoch
    BY <1>1, <1>5, <2>2 DEF IInv, Lifecycle, Ownership, WorkerOwned
  <2>4. worker.generation <= generation'
    BY <1>5, <2>1
  <2> QED
    BY <1>1, <2>3, <2>4 DEF WorkerOwned, inputs
<1>10. PendingOwned' /\ ActiveOwned'
  <2>1. CASE parked \/ overshoot
    BY <1>1, <2>1 DEF PendingOwned, ActiveOwned
  <2>2. CASE ~parked /\ ~overshoot
    <3>1. enabled' /\ (stopping' <=> stopping) /\ generation' = generation
          /\ active' = plan /\ pending' \in {None, pending}
      BY <1>1, <1>5, <2>2
    <3> QED
      BY <1>2, <3>1 DEF IInv, Lifecycle, Ownership, PendingOwned, ActiveOwned
  <2> QED
    BY <2>1, <2>2
<1>11. PlansOfThisEpoch'
  <2>1. active' \in {None, plan} /\ pending' \in {None, pending} /\ UNCHANGED health
    BY <1>1 DEF inputs
  <2> QED
    BY <1>2, <2>1 DEF IInv, Lifecycle, Ownership, PlansOfThisEpoch
<1>12. next > 0 => ~parked
  <2>1. next > 0 => ~Standstill(current, finish, next)
    BY DEF Standstill
  <2>2. StopHold >= 0 /\ StopHold \in Nat
    BY ConstantsAssumption
  <2> QED
    BY <2>1, <2>2
<1>13. /\ DecisionOwned'
       /\ decision' \in [speed : 0..MaxSpeed, generation : Nat, deciding : BOOLEAN]
  <2>1. decision' = [speed |-> IF overshoot THEN 0 ELSE OnWire(plan, next, cap),
                     generation |-> generation', deciding |-> TRUE]
    BY <1>1 DEF Decided
  <2>2. decision'.speed > 0 => enabled'
    <3> SUFFICES ASSUME decision'.speed > 0 PROVE enabled'
      OBVIOUS
    <3>1. ~overshoot /\ OnWire(plan, next, cap) > 0
      BY <2>1
    <3>2. next > 0
      BY <3>1, ConstantsAssumption DEF OnWire
    <3> QED
      BY <1>1, <1>12, <3>1, <3>2
  <2>3. OnWire(plan, next, cap) \in 0..MaxSpeed
    BY ConstantsAssumption DEF OnWire
  <2> QED
    BY <1>5, <2>1, <2>2, <2>3, ConstantsAssumption DEF DecisionOwned
<1>14. RecoveryCount'
  <2>1. CASE expired /\ running # "RECOVERING"
    BY <1>1, <2>1 DEF RecoveryCount
  <2>2. CASE ~(expired /\ running # "RECOVERING")
    <3>1. recoveryGood' = GoodAfterTakeover(certified)
      BY <1>1, <2>2
    <3>2. phase' = "RECOVERING" => phase = "RECOVERING" /\ ~taken
      BY <1>1, <1>4, <2>2
    <3> QED
      BY <3>1, <3>2, RecoveryCounted DEF RecoveryCount
  <2> QED
    BY <2>1, <2>2
<1>15. OutputType'
  <2>1. stationary' \in 0..(StopHold + 1)
    BY <1>1, ConstantsAssumption DEF IInv, Intake, OutputType
  <2>2. recoveryGood' \in 0..2
    BY <1>14 DEF RecoveryCount
  <2> QED
    BY <1>1, <1>13, <2>1, <2>2 DEF IInv, Intake, OutputType
<1>16. InputType' /\ NoEpochNoHealth'
  BY <1>1 DEF IInv, Intake, inputs, InputType, NoEpochNoHealth
<1>17. autoPending' = FALSE
  BY <1>1, <1>3 DEF IInv, Intake, StartupType
<1>18. StartupType'
  BY <1>1, <1>17 DEF IInv, Intake, StartupType
<1>19. AuthorityHeld' /\ AutoStartWaits'
  BY <1>1, <1>17 DEF IInv, inputs, AuthorityHeld, AutoStartWaits
<1> QED
  BY <1>6, <1>7, <1>8, <1>9, <1>10, <1>11, <1>13, <1>14, <1>15, <1>16, <1>18, <1>19
  DEF IInv, Intake, Lifecycle, Ownership

\* The first section of the output callback keeps the invariant.
LEMMA DecideSafe == IInv /\ Decide => IInv'
  BY DecideIdleSafe, DecideAutoWaitSafe, DecideAutoStartSafe, DecideFaultSafe, DecideDriveSafe
  DEF Decide

\* The publication keeps the invariant.
LEMMA EmitSafe == IInv /\ Emit => IInv'
<1> SUFFICES ASSUME IInv, Emit PROVE IInv'
  OBVIOUS
<1>1. /\ wire' = IF decision.generation = generation THEN decision.speed ELSE 0
      /\ decision' = [speed |-> 0, generation |-> 0, deciding |-> FALSE]
      /\ UNCHANGED <<lifecycle, plans, sinceStart, stationary, speed, inputs, startup,
                     solver, moving>>
  BY DEF Emit, NoDecision
<1>2. DecisionOwned'
  BY <1>1 DEF DecisionOwned
<1>3. Lifecycle'
  BY <1>1, <1>2, LifecycleKept DEF plans, inputs
<1>4. OutputType'
  <2>1. 0 \in 0..MaxSpeed /\ decision.speed \in 0..MaxSpeed
    BY ConstantsAssumption DEF IInv, Intake, OutputType
  <2> QED
    BY <1>1, <2>1 DEF IInv, Intake, OutputType, plans, startup
<1>5. InputType' /\ StartupType' /\ RecoveryCount' /\ NoEpochNoHealth' /\ AuthorityHeld'
      /\ AutoStartWaits'
  BY <1>1 DEF IInv, Intake, lifecycle, plans, inputs, startup, InputType, StartupType,
     RecoveryCount, NoEpochNoHealth, AuthorityHeld, AutoStartWaits
<1> QED
  BY <1>3, <1>4, <1>5 DEF IInv, Intake

\* A saturating age stays within its cap.
LEMMA OlderBounded ==
  ASSUME NEW cap \in Nat, NEW n \in 0..cap
  PROVE  Older(n, cap) \in 0..cap
  BY DEF Older

\* Ageing changes neither the generation nor the epoch of a plan.
LEMMA AgedPlan ==
  ASSUME NEW p \in Plan \cup {None}
  PROVE  /\ Aged(p) \in Plan \cup {None} /\ (Aged(p) = None <=> p = None)
         /\ p # None => Aged(p).generation = p.generation /\ Aged(p).epoch = p.epoch
<1>1. CASE p = None
  BY <1>1 DEF Aged
<1>2. CASE p # None
  <2>1. p \in Plan /\ SinceCap \in Nat /\ Ttl + 1 \in Nat
    BY <1>2, ConstantsAssumption DEF SinceCap
  <2>2. Older(p.age, Ttl + 1) \in 0..(Ttl + 1) /\ Older(p.since, SinceCap) \in 0..SinceCap
    BY <2>1, OlderBounded DEF Plan
  <2>3. Aged(p) = [p EXCEPT !.age = Older(p.age, Ttl + 1), !.since = Older(p.since, SinceCap)]
    BY <1>2, <2>1 DEF Aged, Plan
  <2>4. Aged(p) \in Plan /\ Aged(p).generation = p.generation /\ Aged(p).epoch = p.epoch
    BY <2>1, <2>2, <2>3 DEF Plan
  <2> QED
    BY <1>2, <2>4, NoneAssumption
<1> QED
  BY <1>1, <1>2

\* The passing of time keeps the invariant.
LEMMA TickSafe == IInv /\ Tick => IInv'
<1> SUFFICES ASSUME IInv, Tick PROVE IInv'
  OBVIOUS
<1> DEFINE older == IF active = None THEN None
                    ELSE [active EXCEPT !.age = Older(@, Ttl + 1)]
<1>1. /\ worker' = Aged(worker) /\ pending' = Aged(pending) /\ active' = older
      /\ sinceStart' = Older(sinceStart, Ttl)
      /\ stationary' = IF stationary = 0 THEN 0 ELSE Older(stationary, StopHold + 1)
      /\ autoLeft' = IF autoPending /\ autoLeft > 0 THEN autoLeft - 1 ELSE autoLeft
      /\ UNCHANGED <<lifecycle, recoveryGood, speed, decision, wire, inputs, autoPending,
                     anchorSeen, initialFault, autoStarted, explicitEnabled, solver, moving>>
  BY DEF Tick
<1>2. {worker, pending, active} \subseteq Plan \cup {None}
  BY DEF IInv, Lifecycle, PlanType
<1>3. /\ worker' \in Plan \cup {None} /\ (worker' = None <=> worker = None)
      /\ worker # None => worker'.generation = worker.generation
                          /\ worker'.epoch = worker.epoch
      /\ pending' \in Plan \cup {None} /\ (pending' = None <=> pending = None)
      /\ pending # None => pending'.generation = pending.generation
                           /\ pending'.epoch = pending.epoch
  BY <1>1, <1>2, AgedPlan
<1>4. /\ active' \in Plan \cup {None} /\ (active' = None <=> active = None)
      /\ active # None => active'.generation = active.generation
                          /\ active'.epoch = active.epoch
  <2>1. CASE active = None
    BY <1>1, <2>1
  <2>2. CASE active # None
    <3>1. active \in Plan /\ Ttl + 1 \in Nat
      BY <1>2, <2>2, ConstantsAssumption
    <3>2. Older(active.age, Ttl + 1) \in 0..(Ttl + 1)
      BY <3>1, OlderBounded DEF Plan
    <3>3. active' = [active EXCEPT !.age = Older(active.age, Ttl + 1)]
      BY <1>1, <2>2
    <3>4. active' \in Plan /\ active'.generation = active.generation
          /\ active'.epoch = active.epoch
      BY <3>1, <3>2, <3>3 DEF Plan
    <3> QED
      BY <2>2, <3>4, NoneAssumption
  <2> QED
    BY <2>1, <2>2
<1>5. LifecycleType' /\ PlanType' /\ PhaseAgrees'
  BY <1>1, <1>3, <1>4 DEF IInv, Lifecycle, lifecycle, LifecycleType, PlanType, PhaseAgrees
<1>6. WorkerOwned' /\ PendingOwned' /\ ActiveOwned'
  BY <1>1, <1>3, <1>4 DEF IInv, Lifecycle, Ownership, lifecycle, inputs, WorkerOwned,
     PendingOwned, ActiveOwned
<1>7. PlansOfThisEpoch' /\ DecisionOwned'
  BY <1>1, <1>3, <1>4 DEF IInv, Lifecycle, Ownership, lifecycle, inputs, PlansOfThisEpoch,
     DecisionOwned
<1>8. OutputType'
  <2>1. sinceStart' \in 0..Ttl
    BY <1>1, OlderBounded, ConstantsAssumption DEF IInv, Intake, OutputType
  <2>2. stationary' \in 0..(StopHold + 1)
    BY <1>1, OlderBounded, ConstantsAssumption DEF IInv, Intake, OutputType
  <2>3. autoLeft' \in 0..AutoTimeout
    BY <1>1, ConstantsAssumption DEF IInv, Intake, OutputType
  <2> QED
    BY <1>1, <2>1, <2>2, <2>3 DEF IInv, Intake, OutputType
<1>9. InputType' /\ StartupType' /\ RecoveryCount' /\ NoEpochNoHealth' /\ AuthorityHeld'
      /\ AutoStartWaits'
  BY <1>1 DEF IInv, Intake, lifecycle, inputs, InputType, StartupType, RecoveryCount,
     NoEpochNoHealth, AuthorityHeld, AutoStartWaits
<1> QED
  BY <1>5, <1>6, <1>7, <1>8, <1>9 DEF IInv, Intake, Lifecycle, Ownership

\* A lapsed freshness window keeps the invariant.
LEMMA LapseSafe == IInv /\ Lapse => IInv'
<1> SUFFICES ASSUME IInv, Lapse PROVE IInv'
  OBVIOUS
<1>1. /\ UNCHANGED <<lifecycle, plans, output, mode, identity, startup, solver, moving>>
      /\ snapshot' = snapshot \/ snapshot' = [snapshot EXCEPT !.fresh = FALSE]
      /\ health' = health \/ health' = [health EXCEPT !.live = FALSE]
      /\ modeFresh' \in {modeFresh, FALSE} /\ applied' \in {applied, "lapsed"}
  BY DEF Lapse
<1>2. snapshot \in Snapshot /\ health \in Health
  BY DEF IInv, Intake, InputType
<1>3. /\ snapshot' \in Snapshot /\ snapshot'.present = snapshot.present
      /\ snapshot'.epoch = snapshot.epoch
  BY <1>1, <1>2 DEF Snapshot
<1>4. /\ health' \in Health /\ health'.epoch = health.epoch /\ health'.ready = health.ready
      /\ health'.qualified = health.qualified
  BY <1>1, <1>2 DEF Health
<1>5. InputType'
  BY <1>1, <1>3, <1>4 DEF IInv, Intake, InputType
<1>6. OutputType' /\ StartupType' /\ RecoveryCount' /\ NoEpochNoHealth' /\ AutoStartWaits'
  BY <1>1, <1>4 DEF IInv, Intake, lifecycle, plans, output, startup, OutputType, StartupType,
     RecoveryCount, NoEpochNoHealth, AutoStartWaits
<1>7. AuthorityHeld'
  BY <1>1, <1>3, <1>4 DEF IInv, lifecycle, AuthorityHeld
<1>8. LifecycleType' /\ PlanType' /\ PhaseAgrees'
  BY <1>1 DEF IInv, Lifecycle, lifecycle, plans, LifecycleType, PlanType, PhaseAgrees
<1>9. Ownership'
  BY <1>1, <1>4 DEF IInv, Lifecycle, Ownership, lifecycle, plans, output, WorkerOwned,
     PendingOwned, ActiveOwned, PlansOfThisEpoch, DecisionOwned
<1> QED
  BY <1>5, <1>6, <1>7, <1>8, <1>9 DEF IInv, Intake, Lifecycle

\* The vehicle, and a step that changes nothing.
LEMMA VehicleSafe ==
  ASSUME IInv, moving' \in BOOLEAN,
         UNCHANGED <<lifecycle, plans, output, inputs, startup, solver>>
  PROVE  IInv'
<1>1. OutputType' /\ InputType' /\ RecoveryCount' /\ NoEpochNoHealth' /\ AuthorityHeld'
  BY DEF IInv, Intake, lifecycle, plans, output, inputs, startup, OutputType, InputType,
     RecoveryCount, NoEpochNoHealth, AuthorityHeld
<1>2. StartupType' /\ AutoStartWaits'
  BY DEF IInv, Intake, lifecycle, startup, StartupType, AutoStartWaits
<1>3. Lifecycle'
  BY LifecycleKept DEF IInv, Lifecycle, Ownership, lifecycle, plans, output, inputs,
     DecisionOwned
<1> QED
  BY <1>1, <1>2, <1>3 DEF IInv, Intake

-----------------------------------------------------------------------------
(* The invariant and what follows from it.                                 *)

\* Every step keeps the invariant.
LEMMA NextSafe == IInv /\ [Next]_vars => IInv'
<1> SUFFICES ASSUME IInv, [Next]_vars PROVE IInv'
  OBVIOUS
<1>1. CASE Receive \/ Work \/ Decide \/ Emit \/ Tick \/ Lapse
  BY <1>1, ReceiveSafe, WorkSafe, DecideSafe, EmitSafe, TickSafe, LapseSafe
<1>2. CASE VehicleMoves
  BY <1>2, VehicleSafe DEF VehicleMoves
<1>3. CASE VehicleHalts
  BY <1>3, VehicleSafe DEF VehicleHalts
<1>4. CASE UNCHANGED vars
  <2>1. moving' \in BOOLEAN
    BY <1>4 DEF vars, IInv, Intake, StartupType
  <2> QED
    BY <1>4, <2>1, VehicleSafe DEF vars
<1> QED
  BY <1>1, <1>2, <1>3, <1>4 DEF Next

\* The inductive invariant of the runtime.
THEOREM Invariance == Spec => []IInv
  BY InitSafe, NextSafe, PTL DEF Spec

\* Every variable keeps its type.
THEOREM TypeCorrect == Spec => []TypeOK
<1>1. IInv => TypeOK
  BY DEF IInv, Intake, Lifecycle, TypeOK
<1> QED
  BY <1>1, Invariance, PTL

\* A plan waiting to take over belongs to the running authorization.
THEOREM PendingAlwaysOwned == Spec => []PendingOwned
<1>1. IInv => PendingOwned
  BY DEF IInv, Lifecycle, Ownership
<1> QED
  BY <1>1, Invariance, PTL

\* The executed plan belongs to the running authorization, or to the one that
\* is being stopped.
THEOREM ActiveAlwaysOwned == Spec => []ActiveOwned
<1>1. IInv => ActiveOwned
  BY DEF IInv, Lifecycle, Ownership
<1> QED
  BY <1>1, Invariance, PTL

\* No plan outlives the localization epoch it was solved in.
THEOREM PlansAlwaysOfThisEpoch == Spec => []PlansOfThisEpoch
<1>1. IInv => PlansOfThisEpoch
  BY DEF IInv, Lifecycle, Ownership
<1> QED
  BY <1>1, Invariance, PTL

\* An enabled controller always holds every authority it started with.
THEOREM AuthorityAlwaysHeld == Spec => []AuthorityHeld
<1>1. IInv => AuthorityHeld
  BY DEF IInv
<1> QED
  BY <1>1, Invariance, PTL

\* The reported phase is the executed lifecycle.
THEOREM PhaseAlwaysAgrees == Spec => []PhaseAgrees
<1>1. IInv => PhaseAgrees
  BY DEF IInv, Lifecycle
<1> QED
  BY <1>1, Invariance, PTL

\* A waiting automatic start has never been enabled nor lived through any
\* fault but the first epoch change.
THEOREM AutoStartAlwaysWaits == Spec => []AutoStartWaits
<1>1. IInv => AutoStartWaits
  BY DEF IInv
<1> QED
  BY <1>1, Invariance, PTL

\* A nonzero command is only ever published with every authority standing at
\* the moment of publication.
THEOREM MotionAlwaysAuthorized == Spec => MotionAuthorized
<1> DEFINE Authorized ==
      wire' > 0 /\ decision.deciding /\ ~decision'.deciding =>
        /\ enabled /\ mode /\ identity /\ health.ready /\ health.qualified
        /\ decision.generation = generation
<1>1. IInv /\ [Next]_vars => [Authorized]_vars
  <2> SUFFICES ASSUME IInv, [Next]_vars, ~UNCHANGED vars, wire' > 0, decision.deciding,
                      ~decision'.deciding
               PROVE  /\ enabled /\ mode /\ identity /\ health.ready /\ health.qualified
                      /\ decision.generation = generation
    OBVIOUS
  <2>1. Emit
    <3>1. UNCHANGED decision => FALSE
      OBVIOUS
    <3>2. ~Receive
      BY <3>1 DEF Receive, EnableRequest, StopRequest, ModeMessage, IdentityMessage, Forwarded,
         Odometry, StatusMessage, ForeignStatus, ClockRollback, output
    <3>3. ~Work
      BY <3>1 DEF Work, WorkerReady, WorkerSubmit, WorkerDeliver, WorkerFails, output
    <3>4. ~Decide
      BY DEF Decide, DecideIdle, DecideAutoWait, DecideAutoStart, DecideFault, DecideDrive
    <3>5. ~Tick /\ ~Lapse /\ ~VehicleMoves /\ ~VehicleHalts
      BY <3>1 DEF Tick, Lapse, VehicleMoves, VehicleHalts, output
    <3> QED
      BY <3>2, <3>3, <3>4, <3>5 DEF Next
  <2>2. decision.generation = generation /\ decision.speed > 0
    BY <2>1 DEF Emit
  <2>3. enabled
    BY <2>2 DEF IInv, Lifecycle, Ownership, DecisionOwned
  <2> QED
    BY <2>2, <2>3 DEF IInv, AuthorityHeld
<1> QED
  BY <1>1, Invariance, PTL DEF Spec, MotionAuthorized

\* The commanded speed rises only under a fresh plan of the running
\* authorization and the present epoch, and never during a stop.
THEOREM AccelerationAlwaysPlanned == Spec => PlannedAcceleration
<1> DEFINE Planned ==
      ~decision.deciding /\ decision'.deciding /\ decision'.speed > speed =>
        /\ active' # None /\ active'.age <= Ttl /\ active'.generation = generation'
        /\ active'.epoch = health.epoch /\ ~stopping
<1>1. IInv /\ [Next]_vars => [Planned]_vars
  <2> SUFFICES ASSUME IInv, [Next]_vars, ~UNCHANGED vars, ~decision.deciding,
                      decision'.deciding, decision'.speed > speed
               PROVE  /\ active' # None /\ active'.age <= Ttl
                      /\ active'.generation = generation'
                      /\ active'.epoch = health.epoch /\ ~stopping
    OBVIOUS
  <2>1. speed \in 0..MaxSpeed
    BY DEF IInv, Intake, OutputType
  <2>2. \E certified, finish, overshoot \in BOOLEAN, next \in 0..MaxSpeed, cap \in 0..1 :
          DecideDrive(certified, next, cap, finish, overshoot)
    <3>1. UNCHANGED decision => FALSE
      OBVIOUS
    <3>2. ~Receive
      BY <3>1 DEF Receive, EnableRequest, StopRequest, ModeMessage, IdentityMessage, Forwarded,
         Odometry, StatusMessage, ForeignStatus, ClockRollback, output
    <3>3. ~Work
      BY <3>1 DEF Work, WorkerReady, WorkerSubmit, WorkerDeliver, WorkerFails, output
    <3>4. ~Emit /\ ~Tick /\ ~Lapse /\ ~VehicleMoves /\ ~VehicleHalts
      BY <3>1 DEF Emit, Tick, Lapse, VehicleMoves, VehicleHalts, output
    <3>5. \A g : ~Decided(0, g)
      BY <2>1 DEF Decided
    <3>6. ~DecideIdle /\ ~(\E ready \in BOOLEAN : DecideAutoWait(ready))
          /\ ~(\E broken \in BOOLEAN : DecideAutoStart(broken))
          /\ ~(\E broken \in BOOLEAN : DecideFault(broken))
      BY <3>5 DEF DecideIdle, DecideAutoWait, DecideAutoStart, DecideFault
    <3> QED
      BY <3>2, <3>3, <3>4, <3>6 DEF Next, Decide
  <2>3. PICK certified \in BOOLEAN, finish \in BOOLEAN, overshoot \in BOOLEAN,
             next \in 0..MaxSpeed, cap \in 0..1 :
             DecideDrive(certified, next, cap, finish, overshoot)
    BY <2>2
  <2> DEFINE plan    == IF TakesOver(certified) THEN [pending EXCEPT !.since = SinceCap]
                        ELSE active
             running == IF TakesOver(certified) THEN "RUNNING" ELSE phase
             expired == ~(plan # None /\ plan.age <= Ttl) /\ sinceStart >= Ttl
             current == PhaseAfter(running, expired)
             hold    == IF ~Standstill(current, finish, next) THEN 0
                        ELSE IF stationary = 0 THEN 1 ELSE stationary
             parked  == hold > StopHold
  <2>4. /\ enabled /\ next \in NextSpeeds(plan)
        /\ generation' = generation + (IF parked THEN 1 ELSE 0)
                         + (IF overshoot THEN 1 ELSE 0)
        /\ active' = IF parked \/ overshoot THEN None ELSE plan
        /\ decision' = [speed |-> IF overshoot THEN 0 ELSE OnWire(plan, next, cap),
                        generation |-> generation', deciding |-> TRUE]
    BY <2>3 DEF DecideDrive, Decided
  <2>5. ~overshoot /\ OnWire(plan, next, cap) > speed
    BY <2>1, <2>4
  <2>6. Drives(plan)
    BY <2>1, <2>4, <2>5, ConstantsAssumption DEF NextSpeeds, OnWire
  <2>7. ~parked
    <3>1. ~Standstill(current, finish, next)
      BY <2>1, <2>5, ConstantsAssumption DEF Standstill, OnWire
    <3> QED
      BY <3>1, ConstantsAssumption
  <2>8. generation' = generation /\ active' = plan
    BY <2>4, <2>5, <2>7 DEF IInv, Lifecycle, LifecycleType
  <2> QED
    BY <2>4, <2>6, <2>8, DrivingPlan DEF Drives
<1> QED
  BY <1>1, Invariance, PTL DEF Spec, PlannedAcceleration

\* Only the first localization epoch change is forgiven a waiting start.
THEOREM FatalFaultsNeverRestart == Spec => FatalFaultsDoNotRestart
<1> DEFINE Forgiven ==
      phase' = "FAULT" /\ generation' # generation /\ autoPending' =>
        ~initialFault /\ initialFault' /\ ~anchorSeen /\ health'.epoch # health.epoch
<1>1. IInv /\ [Next]_vars => [Forgiven]_vars
  <2> SUFFICES ASSUME IInv, [Next]_vars, ~UNCHANGED vars, phase' = "FAULT",
                      generation' # generation, autoPending'
               PROVE  /\ ~initialFault /\ initialFault' /\ ~anchorSeen
                      /\ health'.epoch # health.epoch
    OBVIOUS
  <2>1. ~Fault(FALSE) /\ ~NoTransition /\ ~UNCHANGED lifecycle
    BY DEF Fault, StartSurvives, NoTransition, lifecycle
  <2>2. \A bad : ~FaultIfEnabled(bad)
    BY <2>1 DEF FaultIfEnabled
  <2>3. ~(\E ready \in BOOLEAN : EnableRequest(ready)) /\ ~StopRequest
    BY <2>1 DEF EnableRequest, StopRequest, Start
  <2>4. /\ ~(\E data \in BOOLEAN : ModeMessage(data))
        /\ ~(\E matches \in BOOLEAN : IdentityMessage(matches))
        /\ ~(\E speedMode \in BOOLEAN : Forwarded(speedMode))
        /\ ~(\E acceptable \in BOOLEAN : Odometry(acceptable))
    BY <2>1, <2>2 DEF ModeMessage, IdentityMessage, Forwarded, Odometry
  <2>5. ~ForeignStatus /\ ~ClockRollback /\ ~Work
    BY <2>1 DEF ForeignStatus, ClockRollback, Work, WorkerReady, WorkerSubmit, WorkerDeliver,
       WorkerFails
  <2>6. ~Decide
    <3>1. ~DecideIdle /\ ~(\E ready \in BOOLEAN : DecideAutoWait(ready))
          /\ ~(\E broken \in BOOLEAN : DecideFault(broken))
      BY <2>1 DEF DecideIdle, DecideAutoWait, DecideFault
    <3>2. ~(\E broken \in BOOLEAN : DecideAutoStart(broken))
      BY DEF DecideAutoStart, Start
    <3>3. ASSUME NEW certified \in BOOLEAN, NEW finish \in BOOLEAN, NEW overshoot \in BOOLEAN,
                 NEW next \in 0..MaxSpeed, NEW cap \in 0..1,
         DecideDrive(certified, next, cap, finish, overshoot)
          PROVE  FALSE
      BY <3>3 DEF DecideDrive, IInv, AutoStartWaits
    <3> QED
      BY <3>1, <3>2, <3>3 DEF Decide
  <2>7. ~Emit /\ ~Tick /\ ~Lapse /\ ~VehicleMoves /\ ~VehicleHalts
    BY <2>1 DEF Emit, Tick, Lapse, VehicleMoves, VehicleHalts
  <2>8. PICK h \in Health, newAnchor \in BOOLEAN : StatusMessage(h, newAnchor)
    BY <2>3, <2>4, <2>5, <2>6, <2>7 DEF Next, Receive
  <2> DEFINE seen    == AnchorSeenAfter(identity, snapshot, health, applied)
             initial == autoPending /\ ~seen /\ ~initialFault
  <2>9. /\ health' = h /\ health.epoch > 0 /\ h.epoch # health.epoch
        /\ initialFault' = (initialFault \/ initial) /\ Fault(initial)
    BY <2>2, <2>8 DEF StatusMessage
  <2>10. initial
    BY <2>9 DEF Fault, StartSurvives
  <2>11. ~anchorSeen
    BY <2>10 DEF AnchorSeenAfter
  <2> QED
    BY <2>9, <2>10, <2>11
<1> QED
  BY <1>1, Invariance, PTL DEF Spec, FatalFaultsDoNotRestart

-----------------------------------------------------------------------------
(* The runtime implements DriveAuthority.                                  *)

\* Steps that leave reports and publications alone either keep the run, begin
\* one under a grant, or end it.
LEMMA AuthorityStep ==
  ASSUME UNCHANGED <<mode, wire>>,
         enabled' = enabled \/ enabled' = FALSE \/ (enabled' = TRUE /\ mode)
  PROVE  [Authority!Act]_(Authority!authorityVars)
  BY DEF Authority!Act, Authority!Start, Authority!Stop, Authority!authorityVars

\* Every handler that faults, or leaves the lifecycle alone, ends or keeps the run.
LEMMA FaultAuthority ==
  ASSUME NEW bad, FaultIfEnabled(bad)
  PROVE  enabled' = enabled \/ enabled' = FALSE
  BY DEF FaultIfEnabled, Fault, NoTransition, lifecycle

\* The receive callbacks map to reports heard, starts, stops or stutters.
LEMMA ReceiveAuthority ==
  ASSUME IInv, Receive PROVE [Authority!Act]_(Authority!authorityVars)
<1>1. CASE \E ready \in BOOLEAN : EnableRequest(ready)
  BY <1>1, AuthorityStep DEF EnableRequest, StartInputs, Fresh, Start, NoTransition, lifecycle,
     inputs
<1>2. CASE StopRequest
  BY <1>2, AuthorityStep DEF StopRequest, inputs, output
<1>3. CASE \E data \in BOOLEAN : ModeMessage(data)
  <2>1. PICK data \in BOOLEAN : ModeMessage(data)
    BY <1>3
  <2>2. /\ mode' = data /\ wire' = wire
        /\ FaultIfEnabled(mode /\ ~data)
    BY <2>1 DEF ModeMessage, output
  <2>3. enabled \in BOOLEAN /\ mode \in BOOLEAN /\ (enabled => mode)
    BY DEF IInv, Lifecycle, LifecycleType, Intake, InputType, AuthorityHeld
  <2>4. enabled' = (enabled /\ data)
    <3>1. CASE enabled /\ ~data
      BY <2>2, <2>3, <3>1 DEF FaultIfEnabled, Fault
    <3>2. CASE ~(enabled /\ ~data)
      BY <2>2, <2>3, <3>2 DEF FaultIfEnabled, NoTransition, lifecycle
    <3> QED
      BY <3>1, <3>2
  <2>5. Authority!Hear(data)
    BY <2>2, <2>4 DEF Authority!Hear
  <2> QED
    BY <2>5 DEF Authority!Act
<1>4. CASE \E matches \in BOOLEAN : IdentityMessage(matches)
  BY <1>4, AuthorityStep, FaultAuthority DEF IdentityMessage, output
<1>5. CASE \E speedMode \in BOOLEAN : Forwarded(speedMode)
  BY <1>5, AuthorityStep, FaultAuthority DEF Forwarded, output
<1>6. CASE \E acceptable \in BOOLEAN : Odometry(acceptable)
  BY <1>6, AuthorityStep, FaultAuthority DEF Odometry, NoTransition, lifecycle, output
<1>7. CASE \E h \in Health, newAnchor \in BOOLEAN : StatusMessage(h, newAnchor)
  BY <1>7, AuthorityStep, FaultAuthority DEF StatusMessage, Fault, output
<1>8. CASE ForeignStatus
  BY <1>8, AuthorityStep DEF ForeignStatus, Fault, output
<1>9. CASE ClockRollback
  <2>1. mode' = FALSE /\ enabled' = FALSE /\ wire' = wire
    BY <1>9 DEF ClockRollback, Fault
  <2>2. Authority!Forget
    BY <2>1 DEF Authority!Forget
  <2> QED
    BY <2>2 DEF Authority!Act
<1> QED
  BY <1>1, <1>2, <1>3, <1>4, <1>5, <1>6, <1>7, <1>8, <1>9 DEF Receive

\* A decision starts a run only under a grant, and otherwise keeps or ends it.
LEMMA DecideAuthority ==
  ASSUME IInv, Decide PROVE [Authority!Act]_(Authority!authorityVars)
<1>1. CASE DecideIdle
  BY <1>1, AuthorityStep DEF DecideIdle, lifecycle, inputs
<1>2. CASE \E ready \in BOOLEAN : DecideAutoWait(ready)
  BY <1>2, AuthorityStep DEF DecideAutoWait, lifecycle, inputs
<1>3. CASE \E broken \in BOOLEAN : DecideAutoStart(broken)
  BY <1>3, AuthorityStep DEF DecideAutoStart, StartInputs, Fresh, Start, inputs
<1>4. CASE \E broken \in BOOLEAN : DecideFault(broken)
  BY <1>4, AuthorityStep DEF DecideFault, Fault, inputs
<1>5. CASE \E certified, finish, overshoot \in BOOLEAN, next \in 0..MaxSpeed, cap \in 0..1 :
             DecideDrive(certified, next, cap, finish, overshoot)
  <2>1. enabled' \in BOOLEAN /\ mode /\ UNCHANGED <<mode, wire>>
    BY <1>5 DEF DecideDrive, Fresh, inputs
  <2> QED
    BY <2>1, AuthorityStep
<1> QED
  BY <1>1, <1>2, <1>3, <1>4, <1>5 DEF Decide

\* A publication moves only inside a run, under the grant still in force.
LEMMA EmitAuthority ==
  ASSUME IInv, Emit PROVE [Authority!Act]_(Authority!authorityVars)
<1>1. wire' = (IF decision.generation = generation THEN decision.speed ELSE 0)
      /\ UNCHANGED <<mode, enabled>> /\ decision.deciding
  BY DEF Emit, lifecycle, inputs
<1>2. wire' > 0 => enabled /\ mode
  BY <1>1 DEF IInv, Lifecycle, Ownership, DecisionOwned, AuthorityHeld
<1>3. CASE wire' > 0
  <2>1. Authority!Command(TRUE)
    BY <1>1, <1>2, <1>3 DEF Authority!Command
  <2> QED
    BY <2>1 DEF Authority!Act
<1>4. CASE ~(wire' > 0)
  <2>1. Authority!Command(FALSE)
    BY <1>1, <1>4 DEF Authority!Command
  <2> QED
    BY <2>1 DEF Authority!Act
<1> QED
  BY <1>3, <1>4

\* The runtime implements the controller CommandChain drives: only a grant
\* begins a run, a withdrawal ends it, and no motion is published outside one.
THEOREM RuntimeImplementsAuthority == Spec => ImplementsAuthority
<1>1. Init => Authority!Idle
  BY DEF Init, Authority!Idle
<1>2. IInv /\ [Next]_vars => [Authority!Act]_(Authority!authorityVars)
  <2> SUFFICES ASSUME IInv, [Next]_vars PROVE [Authority!Act]_(Authority!authorityVars)
    OBVIOUS
  <2>1. CASE Receive \/ Decide \/ Emit
    BY <2>1, ReceiveAuthority, DecideAuthority, EmitAuthority
  <2>2. CASE Work
    BY <2>2, AuthorityStep DEF Work, WorkerReady, WorkerSubmit, WorkerDeliver, WorkerFails,
       Fault, lifecycle, inputs, output
  <2>3. CASE Tick \/ Lapse \/ VehicleMoves \/ VehicleHalts
    BY <2>3, AuthorityStep DEF Tick, Lapse, VehicleMoves, VehicleHalts, lifecycle, inputs, output
  <2>4. CASE UNCHANGED vars
    BY <2>4, AuthorityStep DEF vars, lifecycle, inputs, output
  <2> QED
    BY <2>1, <2>2, <2>3, <2>4 DEF Next
<1> QED
  BY <1>1, <1>2, Invariance, PTL DEF Spec, ImplementsAuthority, Authority!Spec

-----------------------------------------------------------------------------
(* Progress.  A run winds down while it is stopping, and while it is in    *)
(* recovery: both end by the same standstill.  The liveness properties of  *)
(* MpccRuntime need an induction over a number (a speed, a time left) and  *)
(* ENABLED, which are out of the provers' reach; what follows is each step *)
(* of that induction, for every value of the number, and the fairness of   *)
(* each action is written with the condition under which the action        *)
(* changes anything.                                                       *)

WindDown == {"STOPPING", "RECOVERING"}

TickChanges ==
  \/ Aged(worker) # worker \/ Aged(pending) # pending
  \/ active # None /\ active.age < Ttl + 1
  \/ sinceStart < Ttl \/ stationary \in 1..StopHold
  \/ autoPending /\ autoLeft > 0

\* The output callback is entered again and again: WF_vars(Decide) and
\* WF_vars(Emit).
TimerRuns == []<><<Decide>>_vars
\* WF_vars(Tick) and WF_vars(VehicleHalts).
TimePasses   == []<>(~TickChanges) \/ []<><<Tick>>_vars
VehicleRests == []<>(~(wire = 0 /\ moving)) \/ []<><<VehicleHalts>>_vars

\* A recovering controller has neither a plan to drive nor the grace of a start.
RecoveryExpired ==
  phase = "RECOVERING" => sinceStart >= Ttl /\ (active = None \/ ~(active.age <= Ttl))

\* What the output callback, its publication, the clock and everything else do
\* to a run that winds down.
Sampled ==
  /\ ~decision.deciding /\ decision'.deciding
  /\ speed' <= speed /\ (stopping /\ speed > 0 => speed' < speed)
  /\ decision'.speed <= speed'
  /\ stationary' = IF speed' = 0 /\ ~moving
                   THEN IF stationary = 0 THEN 1 ELSE stationary
                   ELSE 0
  /\ stationary' <= StopHold
  /\ UNCHANGED <<wire, moving>>
Published ==
  /\ decision.deciding /\ ~decision'.deciding /\ wire' \in {decision.speed, 0}
  /\ UNCHANGED <<speed, stationary, moving>>
Aging ==
  /\ stationary' = IF stationary = 0 THEN 0 ELSE Older(stationary, StopHold + 1)
  /\ UNCHANGED <<speed, decision, wire, moving>>
Rolling ==
  /\ moving' => moving \/ wire > 0
  /\ UNCHANGED <<speed, stationary, decision, wire>>

\* Without a driving plan the command is at most the sampled speed.
LEMMA UndrivenSample ==
  ASSUME IInv, NEW p, ~Drives(p), NEW next \in 0..MaxSpeed, NEW cap \in 0..1,
         next \in NextSpeeds(p)
  PROVE  /\ next <= speed /\ (stopping /\ speed > 0 => next < speed)
         /\ OnWire(p, next, cap) <= next
<1>1. speed \in 0..MaxSpeed
  BY DEF IInv, Intake, OutputType
<1>2. next \in 0..speed /\ (next + 1 = speed \/ (next = speed /\ (speed = 0 \/ ~stopping)))
  BY DEF NextSpeeds
<1>3. OnWire(p, next, cap) = (IF next >= MinDrive THEN next ELSE 0)
  BY DEF OnWire
<1> QED
  BY <1>1, <1>2, <1>3, ConstantsAssumption

\* The decision of a run that winds down samples it; one that takes a plan over,
\* parks, faults or overshoots changes the phase.
LEMMA WindingDecision ==
  ASSUME IInv, RecoveryExpired, phase \in WindDown, phase' = phase, Decide
  PROVE  Sampled
<1>1. enabled /\ ~autoPending /\ (stopping <=> phase = "STOPPING")
  BY DEF IInv, Lifecycle, LifecycleType, PhaseAgrees, WindDown, AutoStartWaits
<1>2. ~DecideIdle /\ ~(\E ready \in BOOLEAN : DecideAutoWait(ready))
      /\ ~(\E broken \in BOOLEAN : DecideAutoStart(broken))
  BY <1>1 DEF DecideIdle, DecideAutoWait, DecideAutoStart
<1>3. ~(\E broken \in BOOLEAN : DecideFault(broken))
  BY DEF DecideFault, Fault, WindDown
<1>4. PICK certified \in BOOLEAN, finish \in BOOLEAN, overshoot \in BOOLEAN,
           next \in 0..MaxSpeed, cap \in 0..1 :
           DecideDrive(certified, next, cap, finish, overshoot)
  BY <1>2, <1>3 DEF Decide
<1> DEFINE taken   == TakesOver(certified)
           plan    == IF taken THEN [pending EXCEPT !.since = SinceCap] ELSE active
           running == IF taken THEN "RUNNING" ELSE phase
           expired == ~(plan # None /\ plan.age <= Ttl) /\ sinceStart >= Ttl
           current == PhaseAfter(running, expired)
           hold    == IF ~Standstill(current, finish, next) THEN 0
                      ELSE IF stationary = 0 THEN 1 ELSE stationary
           parked  == hold > StopHold
<1>5. /\ ~decision.deciding /\ next \in NextSpeeds(plan)
      /\ speed' = next /\ stationary' = hold
      /\ phase' = IF overshoot THEN "FAULT"
                  ELSE IF ~parked THEN current
                  ELSE IF finish THEN "COMPLETE" ELSE "READY"
      /\ decision' = [speed |-> IF overshoot THEN 0 ELSE OnWire(plan, next, cap),
                      generation |-> generation', deciding |-> TRUE]
      /\ UNCHANGED <<wire, moving>>
  BY <1>4 DEF DecideDrive, Decided
<1>6. ~overshoot /\ ~parked /\ current = phase
  BY <1>5 DEF WindDown
<1>7. ~taken /\ plan = active /\ ~Drives(active)
  <2>1. CASE stopping
    BY <2>1 DEF TakesOver, Usable, Drives
  <2>2. CASE ~stopping
    <3>1. phase = "RECOVERING"
      BY <1>1, <2>2 DEF WindDown
    <3>2. taken => plan # None /\ plan.age <= Ttl
      BY <1>1, DrivingPlan
    <3>3. ~taken
      BY <1>6, <2>2, <3>1, <3>2 DEF PhaseAfter
    <3> QED
      BY <3>1, <3>3 DEF RecoveryExpired, Drives
  <2> QED
    BY <2>1, <2>2
<1> DEFINE onWire == OnWire(active, next, cap)
<1>8. /\ next <= speed /\ (stopping /\ speed > 0 => next < speed) /\ onWire <= next
  BY <1>5, <1>7, UndrivenSample
<1>9. Standstill(current, finish, next) <=> next = 0 /\ ~moving
  BY <1>1, <1>6 DEF Standstill, WindDown
<1>10. decision'.speed = onWire /\ decision'.deciding
  BY <1>5, <1>6, <1>7
<1>11. stationary' <= StopHold
  <2>1. hold \in Nat
    BY DEF IInv, Intake, OutputType
  <2> QED
    BY <1>5, <1>6, <2>1, ConstantsAssumption
<1> HIDE DEF onWire
<1> QED
  BY <1>5, <1>8, <1>9, <1>10, <1>11 DEF Sampled

\* Every step of a run that goes on winding down is one of the four.
LEMMA WindingStep ==
  ASSUME IInv, RecoveryExpired, [Next]_vars, phase \in WindDown, phase' = phase
  PROVE  Sampled \/ Published \/ Aging \/ Rolling
<1>1. enabled /\ phase # "FAULT" /\ phase # "RUNNING"
  BY DEF IInv, Lifecycle, PhaseAgrees, WindDown
<1>2. \A initial : ~Fault(initial)
  BY <1>1 DEF Fault
<1>3. ~Start
  BY <1>1 DEF Start
<1>4. CASE Receive
  <2>1. UNCHANGED <<speed, stationary, decision, wire, moving>>
    BY <1>2, <1>3, <1>4 DEF Receive, EnableRequest, StopRequest, ModeMessage,
       IdentityMessage, Forwarded, Odometry, StatusMessage, ForeignStatus, ClockRollback, output
  <2> QED
    BY <2>1 DEF Rolling
<1>5. CASE Work
  BY <1>5 DEF Work, WorkerReady, WorkerSubmit, WorkerDeliver, WorkerFails, output, Rolling
<1>6. CASE Decide
  BY <1>6, WindingDecision
<1>7. CASE Emit
  BY <1>7 DEF Emit, NoDecision, Published
<1>8. CASE Tick
  BY <1>8 DEF Tick, Aging
<1>9. CASE Lapse \/ VehicleMoves \/ VehicleHalts \/ UNCHANGED vars
  BY <1>9 DEF Lapse, VehicleMoves, VehicleHalts, vars, output, Rolling
<1> QED
  BY <1>4, <1>5, <1>6, <1>7, <1>8, <1>9 DEF Next

\* Recovery is entered, and stays, without a plan to drive.
LEMMA RecoveryExpiredSteps == IInv /\ RecoveryExpired /\ [Next]_vars => RecoveryExpired'
<1> SUFFICES ASSUME IInv, RecoveryExpired, [Next]_vars, phase' = "RECOVERING"
             PROVE  sinceStart' >= Ttl /\ (active' = None \/ ~(active'.age <= Ttl))
  BY DEF RecoveryExpired
<1>1. ~Start /\ \A initial : ~Fault(initial)
  BY DEF Start, Fault
<1>2. ASSUME UNCHANGED <<phase, active, sinceStart>>
      PROVE  sinceStart' >= Ttl /\ (active' = None \/ ~(active'.age <= Ttl))
  BY <1>2 DEF RecoveryExpired
<1>3. CASE Receive
  <2>1. UNCHANGED <<phase, active, sinceStart>>
    BY <1>1, <1>3 DEF Receive, EnableRequest, StopRequest, ModeMessage, IdentityMessage,
       Forwarded, FaultIfEnabled, Odometry, StatusMessage, ForeignStatus, ClockRollback,
       NoTransition, lifecycle, output
  <2> QED
    BY <1>2, <2>1
<1>4. CASE Work
  BY <1>1, <1>2, <1>4 DEF Work, WorkerReady, WorkerSubmit, WorkerDeliver, WorkerFails, lifecycle,
     plans, output
<1>5. CASE DecideIdle \/ (\E ready \in BOOLEAN : DecideAutoWait(ready))
  BY <1>2, <1>5 DEF DecideIdle, DecideAutoWait, lifecycle, plans
<1>6. ~(\E broken \in BOOLEAN : DecideAutoStart(broken))
      /\ ~(\E broken \in BOOLEAN : DecideFault(broken))
  BY <1>1 DEF DecideAutoStart, DecideFault
<1>7. ASSUME NEW certified \in BOOLEAN, NEW finish \in BOOLEAN, NEW overshoot \in BOOLEAN,
             NEW next \in 0..MaxSpeed, NEW cap \in 0..1,
             DecideDrive(certified, next, cap, finish, overshoot)
      PROVE  sinceStart' >= Ttl /\ (active' = None \/ ~(active'.age <= Ttl))
  <2> DEFINE taken   == TakesOver(certified)
             plan    == IF taken THEN [pending EXCEPT !.since = SinceCap] ELSE active
             running == IF taken THEN "RUNNING" ELSE phase
             expired == ~(plan # None /\ plan.age <= Ttl) /\ sinceStart >= Ttl
             current == PhaseAfter(running, expired)
             hold    == IF ~Standstill(current, finish, next) THEN 0
                        ELSE IF stationary = 0 THEN 1 ELSE stationary
             parked  == hold > StopHold
  <2>1. /\ enabled /\ sinceStart' = sinceStart
        /\ phase' = IF overshoot THEN "FAULT"
                    ELSE IF ~parked THEN current
                    ELSE IF finish THEN "COMPLETE" ELSE "READY"
        /\ active' = IF parked \/ overshoot THEN None ELSE plan
    BY <1>7 DEF DecideDrive
  <2>2. ~overshoot /\ ~parked /\ current = "RECOVERING" /\ active' = plan
    BY <2>1
  <2>3. ~taken => plan = active /\ running = phase
    OBVIOUS
  <2>4. expired
    BY <2>2, <2>3 DEF PhaseAfter, RecoveryExpired
  <2> QED
    BY <2>1, <2>2, <2>4
<1>8. CASE Tick
  <2>1. /\ UNCHANGED phase /\ sinceStart' = Older(sinceStart, Ttl)
        /\ active' = IF active = None THEN None
                     ELSE [active EXCEPT !.age = Older(@, Ttl + 1)]
    BY <1>8 DEF Tick, lifecycle
  <2>2. sinceStart \in Nat /\ sinceStart >= Ttl /\ sinceStart' = sinceStart
    BY <2>1, ConstantsAssumption DEF IInv, Intake, OutputType, RecoveryExpired, Older
  <2>3. active # None => active \in Plan /\ ~(active.age <= Ttl)
    BY <2>1 DEF RecoveryExpired, IInv, Lifecycle, PlanType
  <2>4. active # None => active.age = Ttl + 1
    BY <2>3, ConstantsAssumption DEF Plan
  <2>5. active # None => active' = [active EXCEPT !.age = Ttl + 1]
    BY <2>1, <2>4, ConstantsAssumption DEF Older
  <2>6. active # None => active'.age = Ttl + 1
    BY <2>3, <2>5 DEF Plan
  <2> QED
    BY <2>1, <2>2, <2>6, ConstantsAssumption
<1>9. CASE Emit \/ Lapse \/ VehicleMoves \/ VehicleHalts \/ UNCHANGED vars
  BY <1>2, <1>9 DEF Emit, Lapse, VehicleMoves, VehicleHalts, vars, lifecycle, plans, output
<1> QED
  BY <1>3, <1>4, <1>5, <1>6, <1>7, <1>8, <1>9 DEF Next, Decide

\* A controller in recovery never drives: whatever brought it there, its plan is
\* past the TTL, and only a takeover, which ends the recovery, brings another.
THEOREM RecoveryAlwaysExpired == Spec => []RecoveryExpired
<1>1. Init => RecoveryExpired
  BY DEF Init, RecoveryExpired
<1> QED
  BY <1>1, RecoveryExpiredSteps, Invariance, PTL DEF Spec

\* What the proofs of progress may assume of every step.
Sound == IInv /\ IInv' /\ RecoveryExpired /\ [Next]_vars

\* The stages of a standstill: nothing sampled, nothing decided, nothing on the
\* wire, the vehicle at rest, the hold running.
Sampled0(ph)  == phase = ph /\ speed = 0
Decided0(ph)  == Sampled0(ph) /\ decision.deciding /\ decision.speed = 0
Stopped(ph)   == Sampled0(ph) /\ wire = 0 /\ (decision.deciding => decision.speed = 0)
Halted(ph)    == Stopped(ph) /\ ~moving
Resting(ph)   == Halted(ph) /\ stationary > 0

\* A decision is sampled, in whichever phase it leaves.
LEMMA DecideSamples ==
  ASSUME Sound, phase \in WindDown, phase' = phase, Decide
  PROVE  Sampled
  BY WindingDecision DEF Sound

\* The stages follow each other and do not go back.
LEMMA StagesHold ==
  ASSUME Sound, NEW ph \in WindDown
  PROVE  /\ Sampled0(ph) => Sampled0(ph)' \/ phase' # ph
         /\ Decided0(ph) => Decided0(ph)' \/ Stopped(ph)' \/ phase' # ph
         /\ Stopped(ph) => Stopped(ph)' \/ phase' # ph
         /\ Halted(ph) => Halted(ph)' \/ phase' # ph
         /\ Resting(ph) => (Resting(ph)' /\ stationary' >= stationary) \/ phase' # ph
<1> SUFFICES ASSUME phase = ph, phase' = ph, speed = 0
             PROVE  /\ Sampled0(ph)'
                    /\ Decided0(ph) => Decided0(ph)' \/ Stopped(ph)'
                    /\ Stopped(ph) => Stopped(ph)'
                    /\ Halted(ph) => Halted(ph)'
                    /\ Resting(ph) => Resting(ph)' /\ stationary' >= stationary
  BY DEF Sampled0, Decided0, Stopped, Halted, Resting
<1>1. /\ speed' \in Nat /\ decision.speed \in Nat /\ decision'.speed \in Nat
      /\ stationary \in 0..(StopHold + 1) /\ StopHold \in Nat
  BY ConstantsAssumption DEF Sound, IInv, Intake, OutputType
<1>2. Sampled \/ Published \/ Aging \/ Rolling
  BY WindingStep DEF Sound
<1>3. CASE Sampled
  BY <1>1, <1>3 DEF Sampled, Sampled0, Decided0, Stopped, Halted, Resting
<1>4. CASE Published
  BY <1>1, <1>4 DEF Published, Sampled0, Decided0, Stopped, Halted, Resting
<1>5. CASE Aging
  <2>1. stationary' >= stationary
    BY <1>1, <1>5 DEF Aging, Older
  <2> QED
    BY <1>1, <1>5, <2>1 DEF Aging, Sampled0, Decided0, Stopped, Halted, Resting
<1>6. CASE Rolling
  BY <1>1, <1>6 DEF Rolling, Sampled0, Decided0, Stopped, Halted, Resting
<1> QED
  BY <1>2, <1>3, <1>4, <1>5, <1>6

\* What ends each stage.
LEMMA StagesEnd ==
  ASSUME Sound, NEW ph \in WindDown
  PROVE  /\ Sampled0(ph) /\ Decide => Decided0(ph)' \/ phase' # ph
         /\ Decided0(ph) => ~Decide
         /\ Stopped(ph) /\ VehicleHalts => Halted(ph)' \/ phase' # ph
         /\ Stopped(ph) /\ ~Halted(ph) => wire = 0 /\ moving
         /\ Halted(ph) /\ Decide => Resting(ph)' \/ phase' # ph
<1>1. /\ speed' \in Nat /\ decision'.speed \in Nat
      /\ stationary \in Nat /\ stationary' \in Nat
  BY DEF Sound, IInv, Intake, OutputType
<1>2. Decided0(ph) => ~Decide
  BY DEF Decided0, Decide, DecideIdle, DecideAutoWait, DecideAutoStart, DecideFault, DecideDrive
<1>3. Sampled0(ph) /\ Decide => Decided0(ph)' \/ phase' # ph
  BY <1>1, DecideSamples DEF Sampled0, Decided0, Sampled
<1>4. Stopped(ph) /\ VehicleHalts => Halted(ph)' \/ phase' # ph
  BY DEF VehicleHalts, Stopped, Halted, Sampled0, output
<1>5. Halted(ph) /\ Decide => Resting(ph)' \/ phase' # ph
  <2> SUFFICES ASSUME Halted(ph), Decide, phase' = ph PROVE Resting(ph)'
    OBVIOUS
  <2>1. Sampled /\ speed = 0
    BY DecideSamples DEF Halted, Stopped, Sampled0
  <2> QED
    BY <1>1, <2>1 DEF Sampled, Halted, Stopped, Sampled0, Resting
<1> QED
  BY <1>2, <1>3, <1>4, <1>5 DEF Stopped, Halted

\* Every step of a behaviour is sound.
LEMMA SoundSteps == Spec => []IInv /\ []RecoveryExpired /\ [][Next]_vars
  BY Invariance, RecoveryAlwaysExpired, PTL DEF Spec

\* A stop brakes: as long as it lasts, every speed above zero is left for a
\* lower one.
THEOREM StopSlows ==
  ASSUME NEW n \in Nat \ {0}
  PROVE  Spec /\ TimerRuns =>
           (phase = "STOPPING" /\ speed = n ~> phase # "STOPPING" \/ speed < n)
<1> DEFINE P == phase = "STOPPING" /\ speed = n
           Q == phase # "STOPPING" \/ speed < n
<1>1. IInv /\ RecoveryExpired /\ P /\ [Next]_vars => P' \/ Q'
  <2> SUFFICES ASSUME IInv, RecoveryExpired, P, [Next]_vars, phase' = phase PROVE P' \/ Q'
    OBVIOUS
  <2>1. Sampled \/ Published \/ Aging \/ Rolling
    BY WindingStep DEF WindDown
  <2>2. IInv'
    BY NextSafe
  <2>3. speed' \in Nat /\ speed' <= n
    BY <2>1, <2>2 DEF IInv, Intake, OutputType, Sampled, Published, Aging, Rolling
  <2> QED
    BY <2>3
<1>2. IInv /\ RecoveryExpired /\ P /\ <<Next /\ Decide>>_vars => Q'
  <2> SUFFICES ASSUME IInv, RecoveryExpired, P, Decide, phase' = phase PROVE speed' < n
    OBVIOUS
  <2>1. Sampled
    BY WindingDecision DEF WindDown
  <2>2. stopping
    BY DEF IInv, Lifecycle, PhaseAgrees
  <2> QED
    BY <2>1, <2>2 DEF Sampled
<1> HIDE DEF P, Q
<1>3. Spec /\ TimerRuns => (P ~> Q)
  BY <1>1, <1>2, SoundSteps, PTL DEF TimerRuns
<1> QED
  BY <1>3 DEF P, Q

\* A run that winds down with a speed of zero comes to rest: the zero is
\* published, the vehicle halts, and the standstill starts to be held.
THEOREM WindDownRests ==
  ASSUME NEW ph \in WindDown
  PROVE  Spec /\ TimerRuns /\ VehicleRests =>
           (Sampled0(ph) ~> phase # ph \/ Resting(ph))
<1> DEFINE Step  == IInv /\ RecoveryExpired /\ [Next]_vars
           Left  == phase # ph
           AtRest == wire = 0 /\ moving
<1>1. Step => Sound
  BY NextSafe DEF Sound
<1>2. Step => /\ Sampled0(ph) => Sampled0(ph)' \/ Left'
              /\ Decided0(ph) => Decided0(ph)' \/ Stopped(ph)' \/ Left'
              /\ Stopped(ph) => Stopped(ph)' \/ Left'
              /\ Halted(ph) => Halted(ph)' \/ Left'
  BY <1>1, StagesHold
<1>3. Step => /\ Sampled0(ph) /\ Decide => Decided0(ph)' \/ Left'
              /\ Decided0(ph) => ~Decide
              /\ Stopped(ph) /\ VehicleHalts => Halted(ph)' \/ Left'
              /\ Stopped(ph) /\ ~Halted(ph) => AtRest
              /\ Halted(ph) /\ Decide => Resting(ph)' \/ Left'
  BY <1>1, StagesEnd
<1> HIDE DEF Left, AtRest
<1>4. Spec => []IInv /\ []RecoveryExpired /\ [][Next]_vars
  BY SoundSteps
<1>5. Spec /\ TimerRuns => (Sampled0(ph) ~> Decided0(ph) \/ Left)
  BY <1>2, <1>3, <1>4, PTL DEF TimerRuns
<1>6. Spec /\ TimerRuns => (Decided0(ph) ~> Stopped(ph) \/ Left)
  BY <1>2, <1>3, <1>4, PTL DEF TimerRuns
<1>7. VehicleRests => []<>(~AtRest) \/ []<><<VehicleHalts>>_vars
  BY DEF VehicleRests, AtRest
<1>8. Spec /\ VehicleRests => (Stopped(ph) ~> Halted(ph) \/ Left)
  BY <1>2, <1>3, <1>4, <1>7, PTL
<1>9. Spec /\ TimerRuns => (Halted(ph) ~> Resting(ph) \/ Left)
  BY <1>2, <1>3, <1>4, PTL DEF TimerRuns
<1>10. Spec /\ TimerRuns /\ VehicleRests => (Sampled0(ph) ~> Left \/ Resting(ph))
  BY <1>5, <1>6, <1>8, <1>9, PTL
<1> QED
  BY <1>10 DEF Left

\* The standstill is held while time passes.
THEOREM WindDownWaits ==
  ASSUME NEW ph \in WindDown, NEW n \in 1..StopHold
  PROVE  Spec /\ TimePasses =>
           (Resting(ph) /\ stationary = n
              ~> phase # ph \/ (Resting(ph) /\ stationary > n))
<1> DEFINE Step  == IInv /\ RecoveryExpired /\ [Next]_vars
           P     == Resting(ph) /\ stationary = n
           Q     == phase # ph \/ (Resting(ph) /\ stationary > n)
<1>0. n \in Nat /\ StopHold \in Nat
  BY ConstantsAssumption
<1>1. Step => Sound
  BY NextSafe DEF Sound
<1>2. Step /\ P => P' \/ Q'
  <2> SUFFICES ASSUME Step, P, phase' = ph PROVE P' \/ Q'
    OBVIOUS
  <2>1. Resting(ph)' /\ stationary' >= n
    BY <1>1, StagesHold
  <2>2. stationary' \in Nat
    BY NextSafe DEF IInv, Intake, OutputType
  <2> QED
    BY <1>0, <2>1, <2>2
<1>3. Step /\ P /\ Tick => Q'
  <2> SUFFICES ASSUME Step, P, Tick, phase' = ph PROVE Q'
    OBVIOUS
  <2>1. Resting(ph)'
    BY <1>1, StagesHold
  <2>2. stationary' = n + 1
    BY <1>0 DEF Tick, Older
  <2> QED
    BY <1>0, <2>1, <2>2
<1>4. P => TickChanges
  BY DEF TickChanges
<1> HIDE DEF P, Q
<1>5. Spec /\ TimePasses => (P ~> Q)
  BY <1>2, <1>3, <1>4, SoundSteps, PTL DEF TimePasses
<1> QED
  BY <1>5 DEF P, Q

\* Held long enough, it ends the stop or the recovery at the next decision.
THEOREM WindDownEnds ==
  ASSUME NEW ph \in WindDown
  PROVE  Spec /\ TimerRuns =>
           (Resting(ph) /\ stationary > StopHold ~> phase # ph)
<1> DEFINE Step  == IInv /\ RecoveryExpired /\ [Next]_vars
           P     == Resting(ph) /\ stationary > StopHold
           Left  == phase # ph
<1>0. StopHold \in Nat
  BY ConstantsAssumption
<1>1. Step => Sound
  BY NextSafe DEF Sound
<1>2. Step /\ P => P' \/ Left'
  <2> SUFFICES ASSUME Step, P, phase' = ph PROVE P'
    OBVIOUS
  <2>1. Resting(ph)' /\ stationary' >= stationary
    BY <1>1, StagesHold
  <2>2. stationary' \in Nat /\ stationary \in Nat
    BY NextSafe DEF IInv, Intake, OutputType
  <2> QED
    BY <1>0, <2>1, <2>2
<1>3. Step /\ P /\ Decide => Left'
  <2> SUFFICES ASSUME Step, P, Decide, phase' = ph PROVE FALSE
    OBVIOUS
  <2>1. Sampled /\ speed = 0 /\ ~moving /\ phase = ph
    BY <1>1, DecideSamples DEF Resting, Halted, Stopped, Sampled0
  <2>2. speed' = 0 /\ stationary \in Nat
    BY <2>1, NextSafe DEF Sampled, IInv, Intake, OutputType
  <2>3. stationary' = stationary /\ stationary' <= StopHold
    BY <1>0, <2>1, <2>2 DEF Sampled
  <2> QED
    BY <1>0, <2>2, <2>3
<1> HIDE DEF P, Left
<1>4. Spec /\ TimerRuns => (P ~> Left)
  BY <1>2, <1>3, SoundSteps, PTL DEF TimerRuns
<1> QED
  BY <1>4 DEF P, Left

\* SF_vars(Brakes): an unplanned sample finds braking capacity now and then.
CanBrake ==
  /\ speed > 0 /\ ~Drives(active) /\ ~decision.deciding
  /\ enabled /\ Fresh /\ Localized
CapacityReturns == <>[](~CanBrake) \/ []<><<Brakes>>_vars

\* A recovery slows down: it has no plan to drive, so every sample that finds
\* braking capacity lowers the speed, and none raises it.
THEOREM RecoverySlows ==
  ASSUME NEW n \in Nat \ {0}
  PROVE  Spec /\ TimerRuns /\ CapacityReturns =>
           (phase = "RECOVERING" /\ speed = n ~> phase # "RECOVERING" \/ speed < n)
<1> DEFINE P == phase = "RECOVERING" /\ speed = n
           Q == phase # "RECOVERING" \/ speed < n
<1>1. IInv /\ RecoveryExpired /\ P /\ [Next]_vars => P' \/ Q'
  <2> SUFFICES ASSUME IInv, RecoveryExpired, P, [Next]_vars, phase' = phase PROVE P' \/ Q'
    OBVIOUS
  <2>1. Sampled \/ Published \/ Aging \/ Rolling
    BY WindingStep DEF WindDown
  <2>2. IInv'
    BY NextSafe
  <2>3. speed' \in Nat /\ speed' <= n
    BY <2>1, <2>2 DEF IInv, Intake, OutputType, Sampled, Published, Aging, Rolling
  <2> QED
    BY <2>3
<1>2. IInv /\ RecoveryExpired /\ P /\ Decide => CanBrake \/ Q'
  <2> SUFFICES ASSUME IInv, RecoveryExpired, P, Decide, phase' = phase PROVE CanBrake
    OBVIOUS
  <2>1. enabled /\ ~stopping /\ phase = "RECOVERING"
    BY DEF IInv, Lifecycle, LifecycleType, PhaseAgrees
  <2>2. ~DecideIdle /\ ~(\E ready \in BOOLEAN : DecideAutoWait(ready))
        /\ ~(\E broken \in BOOLEAN : DecideAutoStart(broken))
    BY <2>1 DEF DecideIdle, DecideAutoWait, DecideAutoStart
  <2>3. ~(\E broken \in BOOLEAN : DecideFault(broken))
    BY <2>1 DEF DecideFault, Fault
  <2>4. ~decision.deciding /\ Fresh /\ Localized
    BY <2>2, <2>3 DEF Decide, DecideDrive
  <2>5. ~Drives(active)
    BY DEF RecoveryExpired, Drives
  <2> QED
    BY <2>1, <2>4, <2>5 DEF CanBrake
<1>3. IInv /\ P /\ <<Brakes>>_vars => Q'
  <2> SUFFICES ASSUME IInv, P, Brakes PROVE speed' < n
    OBVIOUS
  <2>1. speed' = speed - 1
    BY DEF Brakes, DecideDrive
  <2> QED
    BY <2>1
<1> HIDE DEF P, Q
<1>4. Spec /\ TimerRuns /\ CapacityReturns => (P ~> Q)
  BY <1>1, <1>2, <1>3, SoundSteps, PTL DEF TimerRuns, CapacityReturns
<1> QED
  BY <1>4 DEF P, Q

\* Only time shortens the wait of an automatic start.
WaitShorter == autoLeft' = IF autoPending /\ autoLeft > 0 THEN autoLeft - 1 ELSE autoLeft

\* Only the tick does that, and nothing else changes the wait.
LEMMA AutoLeftKept ==
  /\ [Next]_vars => autoLeft' = autoLeft \/ WaitShorter
  /\ Tick => WaitShorter
<1>1. Receive => autoLeft' = autoLeft
  BY DEF Receive, EnableRequest, StopRequest, ModeMessage, IdentityMessage, Forwarded, Odometry,
     StatusMessage, ForeignStatus, ClockRollback
<1>2. Work => autoLeft' = autoLeft
  BY DEF Work, WorkerReady, WorkerSubmit, WorkerDeliver, WorkerFails, startup
<1>3. Decide => autoLeft' = autoLeft
  <2>1. DecideIdle => autoLeft' = autoLeft
    BY DEF DecideIdle, startup
  <2>2. (\E ready \in BOOLEAN : DecideAutoWait(ready)) => autoLeft' = autoLeft
    BY DEF DecideAutoWait
  <2>3. (\E broken \in BOOLEAN : DecideAutoStart(broken)) => autoLeft' = autoLeft
    BY DEF DecideAutoStart
  <2>4. (\E broken \in BOOLEAN : DecideFault(broken)) => autoLeft' = autoLeft
    BY DEF DecideFault
  <2>5. \A certified, finish, overshoot, next, cap :
          DecideDrive(certified, next, cap, finish, overshoot) => autoLeft' = autoLeft
    BY DEF DecideDrive
  <2> QED
    BY <2>1, <2>2, <2>3, <2>4, <2>5 DEF Decide
<1>4. Emit \/ Lapse \/ VehicleMoves \/ VehicleHalts \/ UNCHANGED vars => autoLeft' = autoLeft
  BY DEF Emit, Lapse, VehicleMoves, VehicleHalts, vars, startup
<1>5. Tick => WaitShorter
  BY DEF Tick, WaitShorter
<1> QED
  BY <1>1, <1>2, <1>3, <1>4, <1>5 DEF Next

\* The time an automatic start may wait runs out.
THEOREM AutoStartRunsOut ==
  ASSUME NEW n \in 1..AutoTimeout
  PROVE  Spec /\ TimePasses =>
           (autoPending /\ autoLeft = n ~> ~autoPending \/ autoLeft < n)
<1> DEFINE P == autoPending /\ autoLeft = n
           Q == ~autoPending \/ autoLeft < n
<1>0. n \in Nat /\ n > 0
  BY ConstantsAssumption
<1>1. P /\ [Next]_vars => P' \/ Q'
  BY <1>0, AutoLeftKept DEF WaitShorter
<1>2. P /\ Tick => Q'
  BY <1>0, AutoLeftKept DEF WaitShorter
<1>3. P => TickChanges
  BY <1>0 DEF TickChanges
<1> HIDE DEF P, Q
<1>4. Spec /\ TimePasses => (P ~> Q)
  BY <1>1, <1>2, <1>3, PTL DEF TimePasses, Spec
<1> QED
  BY <1>4 DEF P, Q

\* Once it has run out, the next decision cancels the waiting start.
THEOREM AutoStartTimesOut ==
  Spec /\ TimerRuns => (autoPending /\ autoLeft = 0 ~> ~autoPending)
<1> DEFINE P == autoPending /\ autoLeft = 0
           Q == ~autoPending
<1>1. P /\ [Next]_vars => P' \/ Q'
  BY AutoLeftKept DEF WaitShorter
<1>2. IInv /\ P /\ Decide => Q'
  <2> SUFFICES ASSUME IInv, P, Decide PROVE ~autoPending'
    OBVIOUS
  <2>1. ~enabled
    BY DEF IInv, AutoStartWaits
  <2>2. ~DecideIdle /\ ~(\E broken \in BOOLEAN : DecideAutoStart(broken))
    BY DEF DecideIdle, DecideAutoStart
  <2>3. ~(\E broken \in BOOLEAN : DecideFault(broken))
    BY <2>1 DEF DecideFault
  <2>4. \E ready \in BOOLEAN : DecideAutoWait(ready)
    BY <2>1, <2>2, <2>3 DEF Decide, DecideDrive
  <2>5. ~KeepsWaiting
    BY DEF KeepsWaiting
  <2> QED
    BY <2>4, <2>5 DEF DecideAutoWait
<1> HIDE DEF P, Q
<1>3. Spec /\ TimerRuns => (P ~> Q)
  BY <1>1, <1>2, Invariance, PTL DEF TimerRuns, Spec
<1> QED
  BY <1>3 DEF P, Q

\* A plan that waits is kept as it is, aged, or taken out of its slot; nothing
\* replaces it.
LEMMA PendingKept ==
  ASSUME IInv, [Next]_vars, pending # None
  PROVE  pending' = None \/ pending' = pending \/ (Tick /\ pending' = Aged(pending))
<1>1. \A initial : Fault(initial) => pending' = None
  BY DEF Fault
<1>2. Start => pending' = None
  BY DEF Start
<1>3. NoTransition => pending' = pending
  BY DEF NoTransition
<1>4. Receive => pending' = None \/ pending' = pending
  BY <1>1, <1>2, <1>3 DEF Receive, EnableRequest, StopRequest, ModeMessage, IdentityMessage,
     Forwarded, FaultIfEnabled, Odometry, StatusMessage, ForeignStatus, ClockRollback
<1>5. Work => pending' = None \/ pending' = pending
  BY <1>1 DEF Work, WorkerReady, WorkerSubmit, WorkerDeliver, Accepts, WorkerFails, plans
<1>6. Decide => pending' = None \/ pending' = pending
  <2>1. DecideIdle => pending' = pending
    BY DEF DecideIdle, plans
  <2>2. (\E ready \in BOOLEAN : DecideAutoWait(ready)) => pending' = pending
    BY DEF DecideAutoWait, plans
  <2>3. (\E broken \in BOOLEAN : DecideAutoStart(broken)) => pending' = None
    BY <1>2 DEF DecideAutoStart
  <2>4. (\E broken \in BOOLEAN : DecideFault(broken)) => pending' = None
    BY <1>1 DEF DecideFault
  <2>5. \A certified, finish, overshoot, next, cap :
          DecideDrive(certified, next, cap, finish, overshoot)
            => pending' = None \/ pending' = pending
    BY DEF DecideDrive
  <2> QED
    BY <2>1, <2>2, <2>3, <2>4, <2>5 DEF Decide
<1>7. Emit \/ Lapse \/ VehicleMoves \/ VehicleHalts \/ UNCHANGED vars => pending' = pending
  BY DEF Emit, Lapse, VehicleMoves, VehicleHalts, vars, plans
<1> QED
  BY <1>4, <1>5, <1>6, <1>7 DEF Next, Tick

\* Ageing a plan counts its time since submission up to the cap.
LEMMA PlanAges ==
  ASSUME NEW p \in Plan
  PROVE  /\ Aged(p).since = Older(p.since, SinceCap)
         /\ p.since \in 0..SinceCap /\ SinceCap \in Nat /\ SinceCap > Lead
<1>1. p.age \in 0..(Ttl + 1) /\ p.since \in 0..SinceCap
  BY DEF Plan
<1>2. p # None
  BY NoneAssumption
<1>3. Aged(p) = [p EXCEPT !.age = Older(p.age, Ttl + 1), !.since = Older(p.since, SinceCap)]
  BY <1>2 DEF Aged
<1>4. Aged(p).since = Older(p.since, SinceCap)
  BY <1>3 DEF Plan
<1> QED
  BY <1>1, <1>4, ConstantsAssumption DEF SinceCap

\* A waiting plan approaches the epoch its forecast was made for.
THEOREM PendingComesDue ==
  ASSUME NEW n \in Nat, n < Lead
  PROVE  Spec /\ TimePasses =>
           (pending # None /\ pending.since = n ~> pending = None \/ pending.since > n)
<1> DEFINE P == pending # None /\ pending.since = n
           Q == pending = None \/ pending.since > n
<1>1. IInv /\ P => pending \in Plan /\ Aged(pending).since = n + 1
  <2> SUFFICES ASSUME IInv, P PROVE pending \in Plan /\ Aged(pending).since = n + 1
    OBVIOUS
  <2>1. pending \in Plan
    BY DEF IInv, Lifecycle, PlanType
  <2>2. Aged(pending).since = Older(n, SinceCap) /\ SinceCap \in Nat /\ SinceCap > Lead
    BY <2>1, PlanAges
  <2> QED
    BY <2>1, <2>2, ConstantsAssumption DEF Older
<1>2. IInv /\ P /\ [Next]_vars => P' \/ Q'
  <2> SUFFICES ASSUME IInv, P, [Next]_vars PROVE P' \/ Q'
    OBVIOUS
  <2>1. pending' = None \/ pending' = pending \/ pending' = Aged(pending)
    BY PendingKept
  <2> QED
    BY <1>1, <2>1
<1>3. IInv /\ P /\ Tick => Q'
  BY <1>1 DEF Tick
<1>4. IInv /\ P => TickChanges
  <2> SUFFICES ASSUME IInv, P PROVE Aged(pending) # pending
    BY DEF TickChanges
  <2> QED
    BY <1>1
<1> HIDE DEF P, Q
<1>5. Spec /\ TimePasses => (P ~> Q)
  BY <1>2, <1>3, <1>4, Invariance, PTL DEF TimePasses, Spec
<1> QED
  BY <1>5 DEF P, Q

\* Once due, the next decision takes it out of its slot, whatever it makes of
\* it: the worker is free to submit again.
THEOREM DuePlanLeaves ==
  Spec /\ TimerRuns => (pending # None /\ pending.since >= Lead ~> pending = None)
<1> DEFINE P == pending # None /\ pending.since >= Lead
           Q == pending = None
<1>1. IInv /\ P /\ [Next]_vars => P' \/ Q'
  <2> SUFFICES ASSUME IInv, P, [Next]_vars PROVE P' \/ Q'
    OBVIOUS
  <2>1. pending' = None \/ pending' = pending \/ pending' = Aged(pending)
    BY PendingKept
  <2>2. pending \in Plan
    BY DEF IInv, Lifecycle, PlanType
  <2>3. /\ Aged(pending).since = Older(pending.since, SinceCap)
        /\ pending.since \in 0..SinceCap /\ SinceCap \in Nat /\ SinceCap > Lead
    BY <2>2, PlanAges
  <2>4. Aged(pending).since >= Lead
    BY <2>3, ConstantsAssumption DEF Older
  <2> QED
    BY <2>1, <2>4
<1>2. IInv /\ P /\ Decide => Q'
  <2> SUFFICES ASSUME IInv, P, Decide PROVE pending' = None
    OBVIOUS
  <2>1. enabled /\ Due
    BY DEF IInv, Lifecycle, Ownership, PendingOwned, Due
  <2>2. ~DecideIdle /\ ~(\E ready \in BOOLEAN : DecideAutoWait(ready))
        /\ ~(\E broken \in BOOLEAN : DecideAutoStart(broken))
    BY <2>1 DEF DecideIdle, DecideAutoWait, DecideAutoStart
  <2>3. (\E broken \in BOOLEAN : DecideFault(broken)) => pending' = None
    BY DEF DecideFault, Fault
  <2>4. \A certified, finish, overshoot, next, cap :
          DecideDrive(certified, next, cap, finish, overshoot) => pending' = None
    BY <2>1 DEF DecideDrive
  <2> QED
    BY <2>2, <2>3, <2>4 DEF Decide
<1> HIDE DEF P, Q
<1>3. Spec /\ TimerRuns => (P ~> Q)
  BY <1>1, <1>2, Invariance, PTL DEF TimerRuns, Spec
<1> QED
  BY <1>3 DEF P, Q

-----------------------------------------------------------------------------
(* Generations are never reused.                                           *)

\* No handler, thread or timer lowers the generation.
LEMMA GenerationNeverFalls == IInv /\ [Next]_vars => generation' >= generation
<1> SUFFICES ASSUME IInv, [Next]_vars PROVE generation' >= generation
  OBVIOUS
<1>0. generation \in Nat
  BY DEF IInv, Lifecycle, LifecycleType
<1>1. \A initial : Fault(initial) => generation' = generation + 1
  BY DEF Fault
<1>2. Start => generation' = generation + 1
  BY DEF Start
<1>3. NoTransition \/ UNCHANGED lifecycle => generation' = generation
  BY DEF NoTransition, lifecycle
<1>4. Receive => generation' \in {generation, generation + 1}
  BY <1>1, <1>2, <1>3 DEF Receive, EnableRequest, StopRequest, ModeMessage, IdentityMessage,
     Forwarded, FaultIfEnabled, Odometry, StatusMessage, ForeignStatus, ClockRollback
<1>5. Work => generation' \in {generation, generation + 1}
  BY <1>1, <1>3 DEF Work, WorkerReady, WorkerSubmit, WorkerDeliver, WorkerFails
<1>6. Decide => generation' \in {generation, generation + 1, generation + 2}
  <2>1. DecideIdle \/ (\E ready \in BOOLEAN : DecideAutoWait(ready)) => generation' = generation
    BY <1>3 DEF DecideIdle, DecideAutoWait
  <2>2. (\E broken \in BOOLEAN : DecideAutoStart(broken))
          => generation' \in {generation + 1, generation + 2}
    BY <1>2 DEF DecideAutoStart
  <2>3. (\E broken \in BOOLEAN : DecideFault(broken)) => generation' = generation + 1
    BY <1>1 DEF DecideFault
  <2>4. ASSUME NEW certified \in BOOLEAN, NEW finish \in BOOLEAN, NEW overshoot \in BOOLEAN,
               NEW next \in 0..MaxSpeed, NEW cap \in 0..1,
               DecideDrive(certified, next, cap, finish, overshoot)
        PROVE  generation' \in {generation, generation + 1, generation + 2}
    <3>1. PICK parked \in BOOLEAN :
            generation' = generation + (IF parked THEN 1 ELSE 0) + (IF overshoot THEN 1 ELSE 0)
      BY <2>4 DEF DecideDrive
    <3> QED
      BY <1>0, <3>1
  <2> QED
    BY <2>1, <2>2, <2>3, <2>4 DEF Decide
<1>7. Emit \/ Tick \/ Lapse \/ VehicleMoves \/ VehicleHalts \/ UNCHANGED vars
        => generation' = generation
  BY <1>3 DEF Emit, Tick, Lapse, VehicleMoves, VehicleHalts, vars
<1> QED
  BY <1>0, <1>4, <1>5, <1>6, <1>7 DEF Next

\* A request in flight is delivered, dropped or carried on under its own stamp.
LEMMA RequestKeepsStamp ==
  ASSUME IInv, [Next]_vars, worker # None, worker' # None
  PROVE  worker'.generation = worker.generation
<1>1. worker' = worker \/ worker' = Aged(worker)
  <2>1. Receive \/ Emit \/ Lapse \/ VehicleMoves \/ VehicleHalts \/ UNCHANGED vars
          => worker' = worker
    BY DEF Receive, EnableRequest, StopRequest, ModeMessage, IdentityMessage, Forwarded,
       Odometry, StatusMessage, ForeignStatus, ClockRollback, Emit, Lapse, VehicleMoves,
       VehicleHalts, vars, plans
  <2>2. Work => worker' = worker
    BY DEF Work, WorkerReady, WorkerSubmit, WorkerDeliver, WorkerFails, plans
  <2>3. Decide => worker' = worker
    <3>1. DecideIdle \/ (\E ready \in BOOLEAN : DecideAutoWait(ready)) => worker' = worker
      BY DEF DecideIdle, DecideAutoWait, plans
    <3>2. (\E broken \in BOOLEAN : DecideAutoStart(broken)) => worker' = worker
      BY DEF DecideAutoStart
    <3>3. (\E broken \in BOOLEAN : DecideFault(broken)) => worker' = worker
      BY DEF DecideFault
    <3>4. \A certified, finish, overshoot, next, cap :
            DecideDrive(certified, next, cap, finish, overshoot) => worker' = worker
      BY DEF DecideDrive
    <3> QED
      BY <3>1, <3>2, <3>3, <3>4 DEF Decide
  <2>4. Tick => worker' = Aged(worker)
    BY DEF Tick
  <2> QED
    BY <2>1, <2>2, <2>3, <2>4 DEF Next
<1>2. worker \in Plan \cup {None}
  BY DEF IInv, Lifecycle, PlanType
<1> QED
  BY <1>1, <1>2, AgedPlan

\* A decision carried between the two sections keeps its stamp and its speed.
LEMMA DecisionKeepsStamp ==
  ASSUME [Next]_vars, decision.deciding, decision'.deciding
  PROVE  decision' = decision
<1>1. ~Decide
  BY DEF Decide, DecideIdle, DecideAutoWait, DecideAutoStart, DecideFault, DecideDrive
<1>2. ~Emit
  BY DEF Emit, NoDecision
<1>3. Receive \/ Work \/ Tick \/ Lapse \/ VehicleMoves \/ VehicleHalts \/ UNCHANGED vars
        => decision' = decision
  BY DEF Receive, EnableRequest, StopRequest, ModeMessage, IdentityMessage, Forwarded, Odometry,
     StatusMessage, ForeignStatus, ClockRollback, Work, WorkerReady, WorkerSubmit,
     WorkerDeliver, WorkerFails, Tick, Lapse, VehicleMoves, VehicleHalts, vars, output
<1> QED
  BY <1>1, <1>2, <1>3 DEF Next

\* What a stop, a fault or a restart has outdated is never valid again, however
\* many starts follow while it is in flight: neither the worker's request nor
\* the output callback's decision.
OutdatedForGood ==
  [][/\ worker # None /\ worker.generation # generation
          => worker' = None \/ worker'.generation # generation'
     /\ decision.deciding /\ decision.generation # generation
          => ~decision'.deciding \/ decision'.generation # generation']_vars

\* Requests and decisions that were outdated stay so: generations only rise and a
\* carried stamp does not change.
THEOREM OutdatedStaysOutdated == Spec => OutdatedForGood
<1> DEFINE Requests ==
      worker # None /\ worker.generation # generation
        => worker' = None \/ worker'.generation # generation'
           Decisions ==
      decision.deciding /\ decision.generation # generation
        => ~decision'.deciding \/ decision'.generation # generation'
<1>1. IInv /\ [Next]_vars => Requests
  <2> SUFFICES ASSUME IInv, [Next]_vars, worker # None, worker.generation # generation,
                      worker' # None
               PROVE  worker'.generation # generation'
    OBVIOUS
  <2>1. /\ worker.generation \in Nat /\ generation \in Nat
        /\ worker.generation <= generation
    BY DEF IInv, Lifecycle, Ownership, WorkerOwned, PlanType, Plan, LifecycleType
  <2>2. generation' \in Nat
    BY NextSafe DEF IInv, Lifecycle, LifecycleType
  <2>3. worker'.generation = worker.generation /\ generation' >= generation
    BY RequestKeepsStamp, GenerationNeverFalls
  <2> QED
    BY <2>1, <2>2, <2>3
<1>2. IInv /\ [Next]_vars => Decisions
  <2> SUFFICES ASSUME IInv, [Next]_vars, decision.deciding, decision.generation # generation,
                      decision'.deciding
               PROVE  decision'.generation # generation'
    OBVIOUS
  <2>1. /\ decision.generation \in Nat /\ generation \in Nat
        /\ decision.generation <= generation
    BY DEF IInv, Lifecycle, Intake, Ownership, DecisionOwned, OutputType, LifecycleType
  <2>2. generation' \in Nat
    BY NextSafe DEF IInv, Lifecycle, LifecycleType
  <2>3. decision' = decision /\ generation' >= generation
    BY DecisionKeepsStamp, GenerationNeverFalls
  <2> QED
    BY <2>1, <2>2, <2>3
<1> QED
  BY <1>1, <1>2, Invariance, PTL DEF Spec, OutdatedForGood

-----------------------------------------------------------------------------
(* Winding down.                                                           *)

\* A decision that will be published in a run that winds down is bounded by the
\* ramp; one taken before the stop was requested is outdated by the request.
WoundDecision ==
  phase \in WindDown /\ decision.deciding /\ decision.generation = generation
    => decision.speed <= speed

\* Only the output callback writes the decision, and only its second section
\* publishes.
LEMMA OutputOnly ==
  ASSUME [Next]_vars
  PROVE  /\ ~Emit => wire' = wire
         /\ ~Emit /\ ~Decide => decision' = decision
<1>1. Receive \/ Work \/ Tick \/ Lapse \/ VehicleMoves \/ VehicleHalts \/ UNCHANGED vars
        => UNCHANGED <<wire, decision>>
  <2>1. Receive => UNCHANGED <<wire, decision>>
    BY DEF Receive, EnableRequest, StopRequest, ModeMessage, IdentityMessage, Forwarded,
       Odometry, StatusMessage, ForeignStatus, ClockRollback, output
  <2>2. Work => UNCHANGED <<wire, decision>>
    BY DEF Work, WorkerReady, WorkerSubmit, WorkerDeliver, WorkerFails, output
  <2>3. Tick \/ Lapse \/ VehicleMoves \/ VehicleHalts \/ UNCHANGED vars
          => UNCHANGED <<wire, decision>>
    BY DEF Tick, Lapse, VehicleMoves, VehicleHalts, vars, output
  <2> QED
    BY <2>1, <2>2, <2>3
<1>2. Decide => wire' = wire
  <2>1. DecideIdle \/ (\E ready \in BOOLEAN : DecideAutoWait(ready)) => wire' = wire
    BY DEF DecideIdle, DecideAutoWait
  <2>2. (\E broken \in BOOLEAN : DecideAutoStart(broken))
        \/ (\E broken \in BOOLEAN : DecideFault(broken)) => wire' = wire
    BY DEF DecideAutoStart, DecideFault
  <2>3. \A certified, finish, overshoot, next, cap :
          DecideDrive(certified, next, cap, finish, overshoot) => wire' = wire
    BY DEF DecideDrive
  <2> QED
    BY <2>1, <2>2, <2>3 DEF Decide
<1> QED
  BY <1>1, <1>2 DEF Next

\* A step that keeps the generation, other than a decision, keeps the phase and
\* the ramp.
LEMMA LifecycleChangesStamp ==
  ASSUME [Next]_vars, generation \in Nat, generation' = generation, ~Decide
  PROVE  phase' = phase /\ speed' = speed
<1>1. ~Start /\ \A initial : ~Fault(initial)
  BY DEF Start, Fault
<1>2. NoTransition => phase' = phase
  BY DEF NoTransition, lifecycle
<1>3. Receive => phase' = phase /\ speed' = speed
  <2>1. StopRequest => phase' = phase /\ speed' = speed
    <3>1. generation' # generation + 1
      OBVIOUS
    <3> QED
      BY <3>1 DEF StopRequest, output
  <2>2. (\E ready \in BOOLEAN : EnableRequest(ready)) => phase' = phase /\ speed' = speed
    BY <1>1, <1>2 DEF EnableRequest
  <2>3. Receive => \/ phase' = phase /\ speed' = speed
                   \/ StopRequest \/ \E ready \in BOOLEAN : EnableRequest(ready)
    BY <1>1, <1>2 DEF Receive, ModeMessage, IdentityMessage, Forwarded, FaultIfEnabled,
       Odometry, StatusMessage, ForeignStatus, ClockRollback, output
  <2> QED
    BY <2>1, <2>2, <2>3
<1>4. Work => phase' = phase /\ speed' = speed
  BY <1>1 DEF Work, WorkerReady, WorkerSubmit, WorkerDeliver, WorkerFails, lifecycle, output
<1>5. Emit \/ Tick \/ Lapse \/ VehicleMoves \/ VehicleHalts \/ UNCHANGED vars
        => phase' = phase /\ speed' = speed
  BY DEF Emit, Tick, Lapse, VehicleMoves, VehicleHalts, vars, lifecycle, output
<1> QED
  BY <1>3, <1>4, <1>5 DEF Next

\* A decision that leaves the run winding down has no plan to drive.
LEMMA WindingDecides ==
  ASSUME IInv, RecoveryExpired, Decide, phase' \in WindDown
  PROVE  decision'.speed <= speed'
<1>0. speed \in Nat
  BY DEF IInv, Intake, OutputType
<1>1. CASE DecideIdle
  BY <1>0, <1>1 DEF DecideIdle, Decided
<1>2. CASE \E ready \in BOOLEAN : DecideAutoWait(ready)
  BY <1>0, <1>2 DEF DecideAutoWait, Decided
<1>3. ~(\E broken \in BOOLEAN : DecideAutoStart(broken))
      /\ ~(\E broken \in BOOLEAN : DecideFault(broken))
  BY DEF DecideAutoStart, DecideFault, Start, Fault, WindDown
<1>4. ASSUME NEW certified \in BOOLEAN, NEW finish \in BOOLEAN, NEW overshoot \in BOOLEAN,
             NEW next \in 0..MaxSpeed, NEW cap \in 0..1,
             DecideDrive(certified, next, cap, finish, overshoot)
      PROVE  decision'.speed <= speed'
  <2> DEFINE taken   == TakesOver(certified)
             plan    == IF taken THEN [pending EXCEPT !.since = SinceCap] ELSE active
             running == IF taken THEN "RUNNING" ELSE phase
             expired == ~(plan # None /\ plan.age <= Ttl) /\ sinceStart >= Ttl
             current == PhaseAfter(running, expired)
             hold    == IF ~Standstill(current, finish, next) THEN 0
                        ELSE IF stationary = 0 THEN 1 ELSE stationary
             parked  == hold > StopHold
  <2>1. /\ enabled /\ next \in NextSpeeds(plan) /\ speed' = next
        /\ phase' = IF overshoot THEN "FAULT"
                    ELSE IF ~parked THEN current
                    ELSE IF finish THEN "COMPLETE" ELSE "READY"
        /\ decision' = [speed |-> IF overshoot THEN 0 ELSE OnWire(plan, next, cap),
                        generation |-> generation', deciding |-> TRUE]
    BY <1>4 DEF DecideDrive, Decided
  <2>2. ~overshoot /\ current \in WindDown
    BY <2>1 DEF WindDown
  <2>3. ~Drives(plan)
    <3>1. CASE stopping
      BY <3>1 DEF Drives
    <3>2. CASE ~stopping
      <4>1. phase # "STOPPING"
        BY <2>1, <3>2 DEF IInv, Lifecycle, PhaseAgrees
      <4>2. expired \/ (~taken /\ phase = "RECOVERING")
        BY <2>2, <3>2, <4>1 DEF PhaseAfter, WindDown
      <4>3. ~taken => plan = active
        OBVIOUS
      <4> QED
        BY <4>2, <4>3 DEF Drives, RecoveryExpired
    <3> QED
      BY <3>1, <3>2
  <2> HIDE DEF plan
  <2>4. OnWire(plan, next, cap) <= next
    BY <2>1, <2>3, UndrivenSample
  <2> QED
    BY <2>1, <2>2, <2>4
<1> QED
  BY <1>1, <1>2, <1>3, <1>4 DEF Decide

\* The bound on the decision in flight is kept.
LEMMA WoundDecisionSteps ==
  IInv /\ RecoveryExpired /\ WoundDecision /\ [Next]_vars => WoundDecision'
<1> SUFFICES ASSUME IInv, RecoveryExpired, WoundDecision, [Next]_vars,
                    phase' \in WindDown, decision'.deciding,
                    decision'.generation = generation'
             PROVE  decision'.speed <= speed'
  BY DEF WoundDecision
<1>1. CASE Decide
  BY <1>1, WindingDecides
<1>2. CASE ~Decide
  <2>1. decision' = decision
    BY <1>2, OutputOnly DEF Emit, NoDecision
  <2>2. generation \in Nat /\ generation' \in Nat /\ decision.generation <= generation
    BY <2>1, NextSafe DEF IInv, Lifecycle, LifecycleType, Ownership, DecisionOwned
  <2>3. generation' = generation
    BY <2>1, <2>2, GenerationNeverFalls
  <2> QED
    BY <1>2, <2>1, <2>2, <2>3, LifecycleChangesStamp DEF WoundDecision
<1> QED
  BY <1>1, <1>2

\* From the request of a stop, or the expiry of the last plan, the ramp only
\* falls, and what is published is under the ramp: a command decided before a
\* stop was requested never reaches the vehicle after it.
OnlyBrakes ==
  [][phase' = phase /\ phase \in WindDown =>
       /\ speed' <= speed
       /\ wire' # wire => wire' <= speed']_vars

\* A controller that stops or recovers only brakes.
THEOREM WindDownOnlyBrakes == Spec => OnlyBrakes
<1> DEFINE Falls == phase' = phase /\ phase \in WindDown =>
                      speed' <= speed /\ (wire' # wire => wire' <= speed')
<1>1. Init => WoundDecision
  BY DEF Init, WoundDecision, WindDown
<1>2. IInv /\ RecoveryExpired /\ WoundDecision /\ [Next]_vars => Falls
  <2> SUFFICES ASSUME IInv, RecoveryExpired, WoundDecision, [Next]_vars,
                      phase \in WindDown, phase' = phase
               PROVE  speed' <= speed /\ (wire' # wire => wire' <= speed')
    OBVIOUS
  <2>0. speed \in Nat
    BY DEF IInv, Intake, OutputType
  <2>1. Sampled \/ Published \/ Aging \/ Rolling
    BY WindingStep
  <2>2. speed' <= speed
    BY <2>0, <2>1 DEF Sampled, Published, Aging, Rolling
  <2>3. CASE wire' = wire
    BY <2>2, <2>3
  <2>4. CASE wire' # wire
    <3>1. Emit
      BY <2>4, OutputOnly
    <3>2. speed' = speed /\ decision.deciding
          /\ wire' = IF decision.generation = generation THEN decision.speed ELSE 0
      BY <3>1 DEF Emit
    <3> QED
      BY <2>0, <2>2, <3>2 DEF WoundDecision
  <2> QED
    BY <2>3, <2>4
<1> QED
  BY <1>1, <1>2, WoundDecisionSteps, SoundSteps, PTL DEF Spec, OnlyBrakes

\* What a controller in recovery needs to run again, in place of the explicit
\* authorization the documentation asks for: a new start, or the second usable
\* plan of the same authorization and epoch in a row, while still moving.
ResumptionEarned ==
  [][phase = "RECOVERING" /\ phase' = "RUNNING" =>
       \/ generation' > generation
       \/ /\ recoveryGood = 1 /\ moving
          /\ pending # None /\ pending.generation = generation
          /\ pending.age <= Ttl /\ pending.epoch = health.epoch]_vars

\* A recovery ends in motion only for a new start or a second usable plan.
THEOREM ResumptionAlwaysEarned == Spec => ResumptionEarned
<1> DEFINE Second == /\ recoveryGood = 1 /\ moving
                     /\ pending # None /\ pending.generation = generation
                     /\ pending.age <= Ttl /\ pending.epoch = health.epoch
           Earned == phase = "RECOVERING" /\ phase' = "RUNNING"
                       => generation' > generation \/ Second
<1>1. IInv /\ [Next]_vars => Earned
  <2> SUFFICES ASSUME IInv, [Next]_vars, phase = "RECOVERING", phase' = "RUNNING",
                      ~(generation' > generation)
               PROVE  Second
    OBVIOUS
  <2>1. generation \in Nat /\ generation' \in Nat
    BY NextSafe DEF IInv, Lifecycle, LifecycleType
  <2>2. generation' = generation
    BY <2>1, GenerationNeverFalls
  <2>3. Decide
    BY <2>1, <2>2, LifecycleChangesStamp
  <2>4. enabled
    BY DEF IInv, Lifecycle, PhaseAgrees
  <2>5. ~DecideIdle /\ ~(\E ready \in BOOLEAN : DecideAutoWait(ready))
        /\ ~(\E broken \in BOOLEAN : DecideAutoStart(broken))
        /\ ~(\E broken \in BOOLEAN : DecideFault(broken))
    BY <2>4 DEF DecideIdle, DecideAutoWait, DecideAutoStart, DecideFault, Fault
  <2>6. PICK certified \in BOOLEAN, finish \in BOOLEAN, overshoot \in BOOLEAN,
             next \in 0..MaxSpeed, cap \in 0..1 :
             DecideDrive(certified, next, cap, finish, overshoot)
    BY <2>3, <2>5 DEF Decide
  <2>7. TakesOver(certified)
    BY <2>6 DEF DecideDrive, PhaseAfter
  <2>8. /\ Due /\ Usable(certified) /\ moving /\ GoodAfterTakeover(certified) >= 2
    BY <2>7 DEF TakesOver
  <2>9. recoveryGood = 1
    <3>1. GoodAfterTakeover(certified) = recoveryGood + 1
      BY <2>8 DEF GoodAfterTakeover
    <3>2. recoveryGood \in 0..2 /\ recoveryGood <= 1
      BY DEF IInv, Intake, RecoveryCount
    <3> QED
      BY <2>8, <3>1, <3>2
  <2> QED
    BY <2>8, <2>9 DEF Due, Usable, IInv, Lifecycle, Ownership, PlansOfThisEpoch
<1> QED
  BY <1>1, Invariance, PTL DEF Spec, ResumptionEarned

=============================================================================
