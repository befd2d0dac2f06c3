------------------------------ MODULE MpccRuntime ------------------------------
(***************************************************************************)
(* The native MPCC runtime (aims_mpcc_rt/src/node.cpp, class RuntimeNode). *)
(*                                                                         *)
(* Three threads share the state behind one mutex:                         *)
(*   - the receive callbacks (odometry, authority, forwarded command, map  *)
(*     identity, localization status, the enable service), one at a time;  *)
(*   - the output timer, whose callback takes the mutex twice: it decides  *)
(*     a command, releases the mutex, and publishes under it again;        *)
(*   - the worker, which copies its request under the mutex, solves        *)
(*     without it, and delivers under it.                                  *)
(* A step of this module is one critical section.                          *)
(*                                                                         *)
(* Time is counted in output periods by Tick where an age is compared with *)
(* another age (plan source TTL, delivery budget, handover lead, stop hold,*)
(* automatic-start deadline).  The 100 ms and 1 s input freshness windows  *)
(* only ever matter as "still inside" or "lapsed": each is a flag that the *)
(* Lapse actions clear at any moment.  The profile is the fielded one: map *)
(* frame and rate_bounded_v2.                                              *)
(***************************************************************************)
EXTENDS Naturals

CONSTANTS
  AutoStart,      \* parameter auto_start
  RepeatLaps,     \* parameter repeat_laps
  InitialAge,     \* greatest source age of a fresh snapshot, in output periods
  Ttl,            \* plan_ttl, measured from the original source epoch
  Lead,           \* handover_delay
  Budget,         \* solver_timeout: the whole request, delivery wait included
  StopHold,       \* standstill required before a stop completes (0.5 s)
  AutoTimeout,    \* auto_start_timeout
  MaxSpeed,       \* levels of the sampler's continuous speed
  MinDrive,       \* minimum_drive_speed, as one of those levels
  MaxEpoch,       \* bound: localization epochs the environment may open
  MaxGeneration,  \* bound: no environment event past this many invalidations
  MaxStart,       \* bound: no enable request past this many
  None            \* an empty plan slot

ASSUME ConstantsAssumption ==
  /\ AutoStart \in BOOLEAN /\ RepeatLaps \in BOOLEAN
  /\ InitialAge \in Nat /\ Ttl \in Nat /\ Lead \in Nat /\ Budget \in Nat
  /\ InitialAge <= Ttl /\ Lead < Ttl
  /\ StopHold \in Nat \ {0} /\ AutoTimeout \in Nat \ {0}
  /\ MaxSpeed \in Nat \ {0} /\ MinDrive \in 1..MaxSpeed
  /\ MaxEpoch \in Nat /\ MaxGeneration \in Nat /\ MaxStart \in Nat

VARIABLES
  enabled, stopping, phase, generation,      \* enabled_, stopping_, phase_, generation_
  worker,           \* the request the worker is solving, or None
  pending, active,  \* pending_, active_
  recoveryGood,     \* recovery_good_
  sinceStart,       \* now - started_, saturating at Ttl
  stationary,       \* 0: stationary_since_ < 0, else 1 + periods since it was set
  speed,            \* the OutputSampler's continuous speed
  decision,         \* what the output callback carries between its two sections
  wire,             \* the speed of the last /drive message
  snapshot,         \* snapshot_
  mode, modeFresh,  \* mode_, and mode_received_ inside the window
  applied,          \* history_: no record, newest record lapsed, or fresh
  identity,         \* identity_ equals the bundle's map hash
  health,           \* health_, as its observers see it
  solver,           \* the worker thread: starting, ready (solver_ready_), dead
  autoPending, autoLeft, anchorSeen, initialFault,
                    \* auto_start_pending_, time to auto_start_deadline_,
                    \* auto_start_anchor_seen_, auto_start_initial_epoch_fault_
  autoStarted, explicitEnabled,  \* auto_start_count_ > 0, explicit_enable_count_ > 0
  moving            \* the vehicle: measured speed above the standstill threshold

lifecycle == <<enabled, stopping, phase, generation>>
plans     == <<worker, pending, active, recoveryGood>>
output    == <<sinceStart, stationary, speed, decision, wire>>
inputs    == <<snapshot, mode, modeFresh, applied, identity, health>>
startup   == <<autoPending, autoLeft, anchorSeen, initialFault, autoStarted,
               explicitEnabled>>
vars == <<lifecycle, plans, output, inputs, startup, solver, moving>>

-----------------------------------------------------------------------------
Phases == {"READY", "RUNNING", "STOPPING", "RECOVERING", "COMPLETE", "FAULT"}

SinceCap == IF Lead > Budget THEN Lead + 1 ELSE Budget + 1

\* A request and the plan made from it: its generation, the localization epoch
\* and the age of the measurement it was solved from, and the time since its
\* submission.
Plan == [generation : Nat, epoch : 0..MaxEpoch, age : 0..(Ttl + 1), since : 0..SinceCap]

ASSUME NoneAssumption == None \notin Plan

NoSnapshot == [present |-> FALSE, fresh |-> FALSE, epoch |-> 0, current |-> FALSE]
NoHealth   == [epoch |-> 0, ready |-> FALSE, qualified |-> FALSE, live |-> FALSE]
NoDecision == [speed |-> 0, generation |-> 0, deciding |-> FALSE]

Snapshot == [present : BOOLEAN, fresh : BOOLEAN, epoch : 0..MaxEpoch, current : BOOLEAN]
Health   == [epoch : 0..MaxEpoch, ready : BOOLEAN, qualified : BOOLEAN, live : BOOLEAN]

OlderUnsaturated(n, cap) == n + 1
Older(n, cap) == IF n < cap THEN n + 1 ELSE cap
Aged(p) == IF p = None THEN None
           ELSE [p EXCEPT !.age = Older(@, Ttl + 1), !.since = Older(@, SinceCap)]

\* fresh_locked: a present snapshot is covered by the history (odometry
\* requires it, and both are cleared together), so only the ages remain.
Fresh == snapshot.present /\ snapshot.fresh /\ mode /\ modeFresh /\ applied = "fresh"

\* LocalizationHealth::usable together with qualified().
Trusted(h) == h.ready /\ h.live /\ h.qualified

\* localization_locked for the map frame and rate_bounded_v2.
LocalizedWith(id, s, h) ==
  id /\ Trusted(h) /\ s.epoch = h.epoch /\ s.current
Localized == LocalizedWith(identity, snapshot, health)

\* record_auto_start_anchor_locked, as the value it leaves behind.
AnchorSeenAfter(id, s, h, history) ==
  \/ anchorSeen
  \/ /\ autoPending
     /\ s.present /\ s.fresh /\ history = "fresh"
     /\ LocalizedWith(id, s, h)

-----------------------------------------------------------------------------
(* Transitions shared by several handlers.                                 *)

\* Only the first epoch change of a waiting automatic start leaves that start
\* pending.
StartSurvivesAnyFault(initialEpoch) == autoPending /\ ~enabled
StartSurvives(initialEpoch) ==
  autoPending /\ initialEpoch /\ ~enabled /\ ~explicitEnabled /\ ~autoStarted

\* fault_locked.
FaultKeepingActive(initialEpoch) ==
  /\ enabled' = FALSE /\ stopping' = FALSE /\ phase' = "FAULT"
  /\ generation' = generation + 1
  /\ pending' = None
  /\ autoPending' = StartSurvives(initialEpoch)
  /\ UNCHANGED active
Fault(initialEpoch) ==
  /\ enabled' = FALSE /\ stopping' = FALSE /\ phase' = "FAULT"
  /\ generation' = generation + 1
  /\ active' = None /\ pending' = None
  /\ autoPending' = StartSurvives(initialEpoch)

\* What a handler does when it neither starts, stops nor faults.
NoTransition == UNCHANGED <<lifecycle, active, pending, autoPending>>

\* A handler that faults an enabled controller and otherwise does nothing.
FaultIfRunning(bad) == IF phase = "RUNNING" /\ bad THEN Fault(FALSE) ELSE NoTransition
FaultIfEnabled(bad) == IF enabled /\ bad THEN Fault(FALSE) ELSE NoTransition

\* The refusals of start_locked that come before its checks of the vehicle.
StartInputs == solver = "ready" /\ Fresh /\ Localized

\* start_locked once every check has passed.
Start ==
  /\ enabled' = TRUE /\ stopping' = FALSE /\ phase' = "RUNNING"
  /\ generation' = generation + 1
  /\ recoveryGood' = 0 /\ active' = None /\ pending' = None
  /\ sinceStart' = 0 /\ stationary' = 0 /\ speed' = 0
  /\ autoPending' = FALSE /\ anchorSeen' = TRUE

\* The environment raises no further invalidation, and requests no further
\* start, past the bounds.
Allowed   == generation < MaxGeneration
MayEnable == generation < MaxStart

-----------------------------------------------------------------------------
(* The receive callbacks.                                                  *)

\* /mpcc/enable true: accepted, or refused by a check of the vehicle
\* (publisher count, standstill, heading, footprint) or of the inputs.
EnableRequest(vehicleReady) ==
  /\ MayEnable
  /\ IF StartInputs /\ vehicleReady /\ ~moving
     THEN Start /\ explicitEnabled' = TRUE
     ELSE /\ anchorSeen' = (anchorSeen \/ StartInputs)
          /\ NoTransition
          /\ UNCHANGED <<recoveryGood, sinceStart, stationary, speed, explicitEnabled>>
  /\ UNCHANGED <<worker, decision, wire, inputs, autoLeft, initialFault,
                 autoStarted, solver, moving>>

\* /mpcc/enable false.
StopRequest ==
  /\ Allowed
  /\ autoPending' = FALSE
  /\ IF enabled
     THEN /\ stopping' = TRUE /\ phase' = "STOPPING"
          /\ generation' = generation + 1 /\ pending' = None
     ELSE UNCHANGED <<stopping, phase, generation, pending>>
  /\ UNCHANGED <<enabled, worker, active, recoveryGood, output, inputs, autoLeft,
                 anchorSeen, initialFault, autoStarted, explicitEnabled, solver, moving>>

\* /control/autonomy_speed_enabled (the window of a withdrawn authority is
\* never read, so it is not tracked).
ModeMessage(data) ==
  /\ Allowed \/ data
  /\ FaultIfEnabled(mode /\ ~data)
  /\ mode' = data /\ modeFresh' = data
  /\ UNCHANGED <<worker, recoveryGood, output, snapshot, applied, identity, health,
                 autoLeft, anchorSeen, initialFault, autoStarted, explicitEnabled,
                 solver, moving>>

\* /localization/map_sha256.
IdentityMessage(matches) ==
  /\ Allowed \/ matches
  /\ identity' = matches
  /\ anchorSeen' = AnchorSeenAfter(matches, snapshot, health, applied)
  /\ FaultIfEnabled(~matches)
  /\ UNCHANGED <<worker, recoveryGood, output, snapshot, mode, modeFresh, applied,
                 health, autoLeft, initialFault, autoStarted, explicitEnabled,
                 solver, moving>>

\* A /vesc/command that passes the age filters: a speed command enters the
\* history, any other mode withdraws authority.
Forwarded(speedMode) ==
  /\ Allowed \/ speedMode
  /\ FaultIfEnabled(~speedMode)
  /\ applied' = IF speedMode THEN "fresh" ELSE applied
  /\ UNCHANGED <<worker, recoveryGood, output, snapshot, mode, modeFresh, identity,
                 health, autoLeft, anchorSeen, initialFault, autoStarted,
                 explicitEnabled, solver, moving>>

\* /odometry/filtered.  An acceptable message needs a qualified alignment and
\* a command history covering its source; otherwise it faults a running
\* controller.  The snapshot is bound to the anchor of the moment.
Odometry(acceptable) ==
  /\ Allowed \/ acceptable
  /\ IF acceptable /\ health.qualified /\ applied # "none"
     THEN /\ snapshot' = [present |-> TRUE, fresh |-> TRUE,
                          epoch |-> health.epoch, current |-> TRUE]
          /\ anchorSeen' = AnchorSeenAfter(identity, snapshot', health, applied)
          /\ NoTransition
     ELSE FaultIfEnabled(TRUE) /\ UNCHANGED <<snapshot, anchorSeen>>
  /\ UNCHANGED <<worker, recoveryGood, output, mode, modeFresh, applied, identity,
                 health, autoLeft, initialFault, autoStarted, explicitEnabled,
                 solver, moving>>

\* What LocalizationHealth::observe may make of a status message: h, and
\* whether the message carried a newer anchor.  A retired epoch never returns,
\* so epochs are numbered in the order they open; ages matter only when ready.
Observed(h, newAnchor) ==
  \/ h = health /\ ~newAnchor                             \* retired, repeated or reordered
  \/ h.epoch = health.epoch /\ h.epoch > 0
  \/ h.epoch = health.epoch + 1 /\ newAnchor

\* accept_health for a status of the bundle's own map.
StatusMessage(h, newAnchor) ==
  LET changed == health.epoch > 0 /\ h.epoch # health.epoch
      seen    == AnchorSeenAfter(identity, snapshot, health, applied)
      adopts  == snapshot.present /\ snapshot.fresh /\ snapshot.epoch = h.epoch /\ Trusted(h)
      initial == autoPending /\ ~seen /\ ~initialFault
  IN
  /\ Observed(h, newAnchor) /\ (h.live => h.ready)
  /\ Allowed \/ (~changed /\ Trusted(h))
  /\ health' = h
  /\ IF changed
     THEN /\ snapshot' = NoSnapshot
          /\ anchorSeen' = seen
          /\ initialFault' = (initialFault \/ initial)
          /\ Fault(initial)
     ELSE /\ snapshot' = [snapshot EXCEPT !.current = adopts \/ (@ /\ ~newAnchor)]
          /\ anchorSeen' = (seen \/ AnchorSeenAfter(identity, snapshot', h, applied))
          /\ FaultIfEnabled(~Trusted(h))
          /\ UNCHANGED initialFault
  /\ UNCHANGED <<worker, recoveryGood, output, mode, modeFresh, applied, identity,
                 autoLeft, autoStarted, explicitEnabled, solver, moving>>

\* accept_health for a status naming another map: the record is refused and
\* the snapshot dropped, whether or not the controller is enabled.
ForeignStatus ==
  /\ Allowed
  /\ anchorSeen' = AnchorSeenAfter(identity, snapshot, health, applied)
  /\ health' = [health EXCEPT !.ready = FALSE, !.qualified = FALSE, !.live = FALSE]
  /\ snapshot' = NoSnapshot
  /\ Fault(FALSE)
  /\ UNCHANGED <<worker, recoveryGood, output, mode, modeFresh, applied, identity,
                 autoLeft, initialFault, autoStarted, explicitEnabled, solver, moving>>

\* reset_clock_locked, called by whichever handler first observes the ROS
\* clock moving back; the handler's own work follows as its own action (the
\* forwarded-command handler may stop right here, dropping a stale message).
ClockRollback ==
  /\ Allowed
  /\ Fault(FALSE)
  /\ snapshot' = NoSnapshot /\ applied' = "none" /\ health' = NoHealth
  /\ identity' = FALSE /\ mode' = FALSE /\ modeFresh' = FALSE
  /\ sinceStart' = Ttl /\ stationary' = 0 /\ recoveryGood' = 0
  /\ speed' = 0
  /\ UNCHANGED <<worker, decision, wire, autoLeft, anchorSeen, initialFault,
                 autoStarted, explicitEnabled, solver, moving>>

-----------------------------------------------------------------------------
(* The worker thread, solve_loop.                                          *)

WorkerReady ==
  /\ solver = "starting" /\ solver' = "ready"
  /\ UNCHANGED <<lifecycle, plans, output, inputs, startup, moving>>

\* The locked part of a slot: skipped while a pending plan owns the takeover.
WorkerSubmit(age) ==
  /\ solver = "ready" /\ worker = None /\ pending = None
  /\ enabled /\ ~stopping /\ Fresh /\ Localized
  /\ worker' = [generation |-> generation, epoch |-> snapshot.epoch, age |-> age,
                since |-> 0]
  /\ UNCHANGED <<lifecycle, pending, active, recoveryGood, output, inputs, startup,
                 solver, moving>>

\* The ownership and deadline checks of a delivery.
AcceptsAnyGeneration(verdict) ==
  /\ verdict # "failed" /\ enabled /\ ~stopping /\ pending = None
  /\ worker.since <= Budget
Accepts(verdict) ==
  /\ verdict # "failed" /\ enabled /\ ~stopping /\ pending = None
  /\ worker.generation = generation /\ worker.since <= Budget

\* Delivery.  "overrun" is a plan that passes the first deadline check and
\* fails the second one, made after last_ has been copied.
WorkerDeliver(verdict) ==
  /\ worker # None
  /\ verdict = "overrun" => worker.since = Budget
  /\ worker' = None
  /\ pending' = IF Accepts(verdict) /\ verdict = "solved" THEN worker ELSE pending
  /\ recoveryGood' = IF Accepts(verdict) THEN recoveryGood ELSE 0
  /\ UNCHANGED <<lifecycle, active, output, inputs, startup, solver, moving>>

\* The worker's outer catch: the thread ends, the solver stays unavailable.
WorkerFails ==
  /\ Allowed
  /\ solver # "dead" /\ solver' = "dead"
  /\ worker' = None
  /\ Fault(FALSE)
  /\ UNCHANGED <<recoveryGood, output, inputs, autoLeft, anchorSeen, initialFault,
                 autoStarted, explicitEnabled, moving>>

-----------------------------------------------------------------------------
(* The output timer, publish_command: a decision, then its publication.    *)

Decided(v, g) == decision' = [speed |-> v, generation |-> g, deciding |-> TRUE]

\* Disabled and no automatic start waiting: a zero command.
DecideIdle ==
  /\ ~decision.deciding /\ ~enabled /\ ~autoPending
  /\ Decided(0, generation)
  /\ UNCHANGED <<lifecycle, plans, sinceStart, stationary, speed, wire, inputs,
                 startup, solver, moving>>

\* try_auto_start_locked, not accepted: the deadline and every refusal but
\* the three it retries cancel the waiting start.
Retryable == solver # "ready" \/ ~Fresh \/ (~Localized /\ health.qualified)
KeepsWaitingForever == Retryable
KeepsWaiting == autoLeft > 0 /\ Retryable
DecideAutoWait(vehicleReady) ==
  /\ ~decision.deciding /\ ~enabled /\ autoPending
  /\ ~(autoLeft > 0 /\ StartInputs /\ vehicleReady /\ ~moving)
  /\ autoPending' = KeepsWaiting
  /\ anchorSeen' = (anchorSeen \/ (autoLeft > 0 /\ StartInputs))
  /\ Decided(0, generation)
  /\ UNCHANGED <<lifecycle, plans, sinceStart, stationary, speed, wire, inputs,
                 autoLeft, initialFault, autoStarted, explicitEnabled, solver, moving>>

\* try_auto_start_locked, accepted: the same callback goes on to decide, and
\* may still fault (another publisher, a scheduling gap, the footprint).
DecideAutoStart(broken) ==
  /\ ~decision.deciding /\ ~enabled /\ autoPending
  /\ autoLeft > 0 /\ StartInputs /\ ~moving
  /\ autoStarted' = TRUE
  /\ IF broken
     THEN /\ enabled' = FALSE /\ stopping' = FALSE /\ phase' = "FAULT"
          /\ generation' = generation + 2
          /\ active' = None /\ pending' = None
          /\ autoPending' = FALSE /\ anchorSeen' = TRUE
          /\ recoveryGood' = 0 /\ sinceStart' = 0 /\ stationary' = 0 /\ speed' = 0
     ELSE Start
  /\ Decided(0, generation')
  /\ UNCHANGED <<worker, wire, inputs, autoLeft, initialFault, explicitEnabled,
                 solver, moving>>

\* The checks ahead of the decision, and any exception inside it.
DecideFault(broken) ==
  /\ ~decision.deciding /\ enabled
  /\ ~Fresh \/ ~Localized \/ (broken /\ Allowed)
  /\ Fault(FALSE)
  /\ Decided(0, generation + 1)
  /\ UNCHANGED <<worker, recoveryGood, sinceStart, stationary, speed, wire, inputs,
                 autoLeft, anchorSeen, initialFault, autoStarted, explicitEnabled,
                 solver, moving>>

\* activate_locked: the pending plan is taken out of its slot as soon as its
\* forecast epoch has come, then takes over or is rejected.
DueExactly == pending # None /\ pending.since = Lead
Due == pending # None /\ pending.since >= Lead
Usable(certified) ==
  /\ certified /\ enabled /\ ~stopping
  /\ pending.generation = generation /\ pending.age <= Ttl
GoodAfterTakeover(certified) ==
  IF ~Due THEN recoveryGood
  ELSE IF ~Usable(certified) \/ (phase = "RECOVERING" /\ ~moving) THEN 0
  ELSE IF phase = "RECOVERING" THEN recoveryGood + 1 ELSE recoveryGood
TakesOver(certified) ==
  /\ Due /\ Usable(certified)
  /\ phase = "RECOVERING" => moving /\ GoodAfterTakeover(certified) >= 2

\* OutputSampler: a plan drives while its original source is within the TTL;
\* without one the speed ramps down as far as the lateral budget leaves braking
\* capacity, which may be none; a stop always brakes.
DrivesPastTtl(p) == p # None /\ ~stopping
Drives(p) == p # None /\ p.age <= Ttl /\ ~stopping
NextSpeeds(p) ==
  IF Drives(p) THEN {v \in 0..MaxSpeed : v <= speed + 1 /\ speed <= v + 1}
  ELSE {v \in 0..speed : v + 1 = speed \/ (v = speed /\ (speed = 0 \/ ~stopping))}

\* The published speed: below the minimum drive speed the wire carries either
\* the minimum, while a plan drives and the finish cap allows it, or zero.
OnWire(p, next, cap) ==
  IF next >= MinDrive THEN next
  ELSE IF Drives(p) /\ next > 0 /\ cap > 0 THEN MinDrive ELSE 0

\* The phase a decision leaves, given the one the takeover left.
PhaseExpiredFirst(running, expired) == IF expired THEN "RECOVERING" ELSE running
PhaseAfter(running, expired) ==
  IF stopping THEN "STOPPING" ELSE IF expired THEN "RECOVERING" ELSE running

\* The standstill condition that arms, holds and completes a stop.
StandstillInRecovery(current, finish, next) ==
  (finish \/ current = "RECOVERING") /\ next = 0 /\ ~moving
StandstillInStop(current, finish, next) ==
  (finish \/ stopping) /\ next = 0 /\ ~moving
Standstill(current, finish, next) ==
  /\ finish \/ stopping \/ current = "RECOVERING"
  /\ next = 0 /\ ~moving

\* The decision of a running controller: takeover, sampling, expiry into
\* RECOVERING, the standstill that ends a run, and the finish overshoot.
DecideDrive(certified, next, cap, finish, overshoot) ==
  LET taken    == TakesOver(certified)
      plan     == IF taken THEN [pending EXCEPT !.since = SinceCap] ELSE active
      running  == IF taken THEN "RUNNING" ELSE phase
      expired  == ~(plan # None /\ plan.age <= Ttl) /\ sinceStart >= Ttl
      current  == PhaseAfter(running, expired)
      hold     == IF ~Standstill(current, finish, next) THEN 0
                  ELSE IF stationary = 0 THEN 1 ELSE stationary
      parked   == hold > StopHold
  IN
  /\ ~decision.deciding /\ enabled /\ Fresh /\ Localized
  /\ next \in NextSpeeds(plan)
  /\ RepeatLaps => ~finish /\ ~overshoot /\ cap > 0
  /\ overshoot => Allowed
  /\ speed' = next /\ stationary' = hold
  /\ recoveryGood' = IF expired /\ running # "RECOVERING" THEN 0
                     ELSE GoodAfterTakeover(certified)
  /\ enabled' = (~parked /\ ~overshoot)
  /\ stopping' = (stopping /\ ~overshoot)
  /\ phase' = IF overshoot THEN "FAULT"
              ELSE IF ~parked THEN current
              ELSE IF finish THEN "COMPLETE" ELSE "READY"
  /\ generation' = generation + (IF parked THEN 1 ELSE 0) + (IF overshoot THEN 1 ELSE 0)
  /\ active' = IF parked \/ overshoot THEN None ELSE plan
  /\ pending' = IF Due \/ parked \/ overshoot THEN None ELSE pending
  /\ autoPending' = (autoPending /\ ~overshoot)
  /\ Decided(IF overshoot THEN 0 ELSE OnWire(plan, next, cap), generation')
  /\ UNCHANGED <<worker, sinceStart, wire, inputs, autoLeft, anchorSeen, initialFault,
                 autoStarted, explicitEnabled, solver, moving>>

Decide ==
  \/ DecideIdle
  \/ \E ready \in BOOLEAN : DecideAutoWait(ready)
  \/ \E broken \in BOOLEAN : DecideAutoStart(broken)
  \/ \E broken \in BOOLEAN : DecideFault(broken)
  \/ \E certified, finish, overshoot \in BOOLEAN, next \in 0..MaxSpeed, cap \in 0..1 :
       DecideDrive(certified, next, cap, finish, overshoot)

EmitUnchecked ==
  /\ decision.deciding
  /\ wire' = decision.speed
  /\ decision' = NoDecision
  /\ UNCHANGED <<lifecycle, plans, sinceStart, stationary, speed, inputs, startup,
                 solver, moving>>

\* The second section: a decision whose generation has been invalidated since
\* is published as zero.
Emit ==
  /\ decision.deciding
  /\ wire' = IF decision.generation = generation THEN decision.speed ELSE 0
  /\ decision' = NoDecision
  /\ UNCHANGED <<lifecycle, plans, sinceStart, stationary, speed, inputs, startup,
                 solver, moving>>

-----------------------------------------------------------------------------
(* Time and the vehicle.                                                   *)

Tick ==
  /\ worker' = Aged(worker) /\ pending' = Aged(pending)
  /\ active' = IF active = None THEN None
               ELSE [active EXCEPT !.age = Older(@, Ttl + 1)]
  /\ sinceStart' = Older(sinceStart, Ttl)
  /\ stationary' = IF stationary = 0 THEN 0 ELSE Older(stationary, StopHold + 1)
  /\ autoLeft' = IF autoPending /\ autoLeft > 0 THEN autoLeft - 1 ELSE autoLeft
  /\ UNCHANGED <<lifecycle, recoveryGood, speed, decision, wire, inputs, autoPending,
                 anchorSeen, initialFault, autoStarted, explicitEnabled, solver, moving>>

\* A freshness window passes without a message.
Lapse ==
  /\ \/ snapshot' = [snapshot EXCEPT !.fresh = FALSE] /\ UNCHANGED <<modeFresh, applied, health>>
     \/ modeFresh' = FALSE /\ UNCHANGED <<snapshot, applied, health>>
     \/ /\ applied = "fresh" /\ applied' = "lapsed"
        /\ UNCHANGED <<snapshot, modeFresh, health>>
     \/ health' = [health EXCEPT !.live = FALSE] /\ UNCHANGED <<snapshot, modeFresh, applied>>
  /\ UNCHANGED <<lifecycle, plans, output, mode, identity, startup, solver, moving>>

\* The selector and the vehicle follow the published speed.
VehicleMoves ==
  /\ wire > 0 /\ moving' = TRUE
  /\ UNCHANGED <<lifecycle, plans, output, inputs, startup, solver>>
VehicleHalts ==
  /\ wire = 0 /\ moving' = FALSE
  /\ UNCHANGED <<lifecycle, plans, output, inputs, startup, solver>>

-----------------------------------------------------------------------------
Init ==
  /\ enabled = FALSE /\ stopping = FALSE /\ phase = "READY" /\ generation = 0
  /\ worker = None /\ pending = None /\ active = None /\ recoveryGood = 0
  /\ sinceStart = Ttl /\ stationary = 0 /\ speed = 0 /\ decision = NoDecision /\ wire = 0
  /\ snapshot = NoSnapshot /\ mode = FALSE /\ modeFresh = FALSE /\ applied = "none"
  /\ identity = FALSE /\ health = NoHealth /\ solver = "starting"
  /\ autoPending = AutoStart /\ autoLeft = AutoTimeout /\ anchorSeen = FALSE
  /\ initialFault = FALSE /\ autoStarted = FALSE /\ explicitEnabled = FALSE
  /\ moving = FALSE

Receive ==
  \/ \E ready \in BOOLEAN : EnableRequest(ready)
  \/ StopRequest
  \/ \E data \in BOOLEAN : ModeMessage(data)
  \/ \E matches \in BOOLEAN : IdentityMessage(matches)
  \/ \E speedMode \in BOOLEAN : Forwarded(speedMode)
  \/ \E acceptable \in BOOLEAN : Odometry(acceptable)
  \/ \E h \in Health, newAnchor \in BOOLEAN : StatusMessage(h, newAnchor)
  \/ ForeignStatus
  \/ ClockRollback

Work ==
  \/ WorkerReady
  \/ \E age \in 0..InitialAge : WorkerSubmit(age)
  \/ \E verdict \in {"solved", "overrun", "failed"} : WorkerDeliver(verdict)
  \/ WorkerFails

Next == Receive \/ Work \/ Decide \/ Emit \/ Tick \/ Lapse \/ VehicleMoves \/ VehicleHalts

Spec == Init /\ [][Next]_vars

\* The output timer keeps firing, time passes, and a vehicle commanded zero
\* comes to rest.  Nothing is assumed of the worker, which may block forever,
\* of the messages, or of the operator.
Fairness == WF_vars(Decide) /\ WF_vars(Emit) /\ WF_vars(Tick) /\ WF_vars(VehicleHalts)

FairSpec == Spec /\ Fairness

\* An unplanned sample may find no braking capacity, but not forever: once the
\* steering lag has settled the budget is either positive or released.
Brakes ==
  /\ speed > 0 /\ ~Drives(active)
  /\ \E certified \in BOOLEAN : DecideDrive(certified, speed - 1, 1, FALSE, FALSE)
  /\ active' = active

RecoverySpec == FairSpec /\ SF_vars(Brakes)

-----------------------------------------------------------------------------
(* Properties.                                                             *)

LifecycleType == /\ enabled \in BOOLEAN /\ stopping \in BOOLEAN
                 /\ phase \in Phases /\ generation \in Nat
PlanType == {worker, pending, active} \subseteq Plan \cup {None}
OutputType ==
  /\ recoveryGood \in 0..2 /\ sinceStart \in 0..Ttl /\ autoLeft \in 0..AutoTimeout
  /\ stationary \in 0..(StopHold + 1) /\ speed \in 0..MaxSpeed /\ wire \in 0..MaxSpeed
  /\ decision \in [speed : 0..MaxSpeed, generation : Nat, deciding : BOOLEAN]
InputType ==
  /\ snapshot \in Snapshot /\ health \in Health
  /\ mode \in BOOLEAN /\ modeFresh \in BOOLEAN /\ identity \in BOOLEAN
  /\ applied \in {"none", "lapsed", "fresh"}
StartupType ==
  /\ solver \in {"starting", "ready", "dead"} /\ moving \in BOOLEAN
  /\ autoPending \in BOOLEAN /\ anchorSeen \in BOOLEAN
  /\ initialFault \in BOOLEAN /\ autoStarted \in BOOLEAN /\ explicitEnabled \in BOOLEAN

\* Every variable keeps its type.
TypeOK == LifecycleType /\ PlanType /\ OutputType /\ InputType /\ StartupType

\* A plan waiting to take over belongs to the running authorization: whatever
\* invalidated an authorization (stop, fault, restart, end of run) while its
\* request was being solved or was waiting has removed it.
PendingOwned ==
  pending # None => enabled /\ ~stopping /\ pending.generation = generation

\* The executed plan belongs to the running authorization; the plan of a
\* stopping controller may be older, and is only there to be reported.
ActiveOwned ==
  active # None => enabled /\ (stopping \/ active.generation = generation)

\* A controller is enabled only while selector authority, map identity, a
\* qualified ready localization and a snapshot of its epoch all stand: each
\* handler that takes one away also disables, in the same critical section.
AuthorityHeld ==
  enabled =>
    /\ mode /\ identity /\ health.ready /\ health.qualified
    /\ snapshot.present /\ snapshot.epoch = health.epoch

\* No plan outlives the localization epoch of the measurement it was solved
\* from, however long its request was in flight.
PlansOfThisEpoch ==
  \A p \in {pending, active} : p # None => p.epoch = health.epoch

\* The phase that is reported is the lifecycle that is executed.
PhaseAgrees ==
  /\ enabled <=> phase \in {"RUNNING", "STOPPING", "RECOVERING"}
  /\ enabled => (stopping <=> phase = "STOPPING")

\* While the automatic start waits nothing has been enabled yet, and the only
\* fault it has lived through is the first localization epoch change.
AutoStartWaits ==
  autoPending =>
    /\ ~enabled /\ ~autoStarted /\ ~explicitEnabled
    /\ phase = "READY" \/ (phase = "FAULT" /\ initialFault)

\* A nonzero command is published only by a controller that is enabled and
\* authorized at the moment of publication, whatever was withdrawn between the
\* decision and the publication.
MotionAuthorized ==
  [][wire' > 0 /\ decision.deciding /\ ~decision'.deciding =>
       /\ enabled /\ mode /\ identity /\ health.ready /\ health.qualified
       /\ decision.generation = generation]_vars

\* The runtime is a controller as CommandChain needs it: its threads, handover
\* and automatic start implement a run that a grant begins, that a withdrawal
\* ends, and outside which no motion is published.
Authority == INSTANCE DriveAuthority WITH granted <- mode, motion <- wire > 0
ImplementsAuthority == Authority!Spec

\* The commanded speed rises only under a plan of the running authorization
\* whose original measurement is within the TTL, and never during a stop.
PlannedAcceleration ==
  [][~decision.deciding /\ decision'.deciding /\ decision'.speed > speed =>
       /\ active' # None /\ active'.age <= Ttl /\ active'.generation = generation'
       /\ active'.epoch = health.epoch /\ ~stopping]_vars

\* The only fault a waiting automatic start survives is one first epoch change
\* seen before any trusted snapshot, even when the phase is already FAULT.
FatalFaultsDoNotRestart ==
  [][phase' = "FAULT" /\ generation' # generation /\ autoPending' =>
       ~initialFault /\ initialFault' /\ ~anchorSeen /\ health'.epoch # health.epoch]_vars

\* An operator stop ends in a disabled controller (or a new start), with no
\* help from the worker, the sensors or the operator.
StopCompletes == (enabled /\ stopping) ~> (~enabled \/ ~stopping)

\* A controller whose plan has expired does not stay in recovery: it resumes,
\* or stops and disables, even when the worker never answers again.
RecoveryEnds == (phase = "RECOVERING") ~> (phase # "RECOVERING")

\* A delivered plan is taken out of its slot, so the worker is never locked
\* out of submitting by a plan nobody consumes.
PendingConsumed == (pending # None) ~> (pending = None)

\* A waiting automatic start is settled: accepted, refused, cancelled or
\* timed out.
AutoStartResolved == autoPending ~> ~autoPending

\* controller/docs/implementation.md: after plan expiry "running again requires
\* explicit authorization".  A start raises the generation; resuming does not.
RecoveryNeedsAuthorization ==
  [][phase = "RECOVERING" /\ phase' = "RUNNING" => generation' # generation]_vars

=============================================================================
