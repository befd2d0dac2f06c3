# AIMSRacer: a TLA+ model

This directory holds a formal model of the AIMSRacer racing stack (ROS 2, C++):
TLA+ modules translated from the source, TLC configurations that check them on
small instances, and theorems that TLAPS proves for every value of the
constants. `PROJECT.json` maps each definition to the lines it models, lists the
runs, the mutants that show each property can fail, the hazards the properties
are for, the findings and the theorems. Source paths below are relative to the
repository's `src/` directory.

## 1. The system

```
 transmitter ~ CRSF receiver ~ /rc/channels ---------+
                                                     v
 LIO, IMU ~ adapters ~ EKF ~ /odometry/filtered   RC selector ~ /vesc/command ~ vehicle
                                   |               ^     |          |
 NDT ~ localization monitor        v        /drive |     |          | forwarded
          | /localization/status  MPCC runtime ----+     |          | command
          +---------------------->      ^                |          |
            /localization/map_sha256    +----------------+----------+
                                 /control/autonomy_speed_enabled
```

| Component | State it keeps | Operations | What is hard |
|---|---|---|---|
| **MPCC runtime** `aims_mpcc_rt/src/node.cpp`, `health.hpp`, `output.hpp`, `history.hpp` | enabled/stopping/phase/generation, pending and active plan, snapshot, authority, command history, map identity, localization health, automatic start | enable service, five subscriptions, 50 Hz output timer, worker thread | three threads and one mutex; the worker solves unlocked; the output callback decides and publishes in two critical sections; ages, TTLs and deadlines; localization epochs; clock rollback |
| **MPCC solver core** `core.cpp`, `execution.cpp` | warm start | solve, reanchor, certify | numerical |
| **RC selector** `ackermann_mux/src/joystick_selector.cpp`, `joystick_control_v2.cpp` | last RC frame, arming time, two cached commands | RC, navigation and calibration messages, 100 Hz publication | three silences that overlap, re-arming, delayed commands |
| **Localization monitor** `aims_racer_system/src/localization_monitor.cpp`, `localization_health.cpp` | anchor health, epoch, sequences | anchors, quality, status timer | restart in an epoch, transient-local identity, loss and regain |
| **Longitudinal observer** `aims_racer_system/src/longitudinal_observer.cpp`, `longitudinal_acceleration.cpp` | measurements of a window, a posterior after each, an anchor before them, readiness flags | wheel and IMU callbacks, status | late and equal stamps, replay and trimming, a clock that runs backwards inside a callback |
| **Odometry adapters** `lio_to_rear_axle.cpp`, `gyro_bias.cpp`, `*_node.cpp` | bounded queues, filters | sensor callbacks | queue limits, reordered stamps |
| **Relocalization scripts** `aims_racer_system/scripts/` | none between runs | operator procedure | partial failure |
| **Lateral grip calibration** `calibration/lateral_grip` | IDLE/COAST/RUN/COMPLETE/ABORTED, stage and run, inputs, driver polling, evidence flag | 20 ms tick, samples, service, parameter answers | a dozen timers that restart each other, evidence failing inside any callback |
| **Longitudinal current calibration** `calibration/longitudinal_current` | engine, evidence queue (128), latched error, counts, `trials.json`, operator | tick, service, writer thread, operator process | full queue, a throw at every write, failure while a checkpoint is under way, late service requests |
| **Pure pursuit** `aims_pp` | the runtime's gate with another controller | as the runtime | as the runtime |
| **CRSF receiver** `ros2_crsf_receiver` | parser buffer, last channels | bytes, timer | resynchronisation, silence |
| **Legacy multiplexer** `ackermann_mux.cpp`, `topic_handle.hpp` | topic and lock priorities | messages, locks, timers | expiry against priority |
| **Offline** `controller` (bundle generator), `calibration/mocap_validation`, vendored drivers, `tools`, `verification` | files | | no running state of the program |

What makes each correct:

- *MPCC runtime*: motion only with every authority standing at publication; no
  plan, request or decision outlives its authorization or localization epoch;
  speed rises only under a plan within the TTL of its measurement; a stop, a
  recovery and an automatic start end; one forgiven epoch change at startup.
- *RC selector*: no motion without fresh RC; nothing generated before arming is
  actuated; the reported authority agrees with what is forwarded.
- *Localization monitor*: readiness never survives the loss of its anchor; a
  receiver recovers from the sender's restart.
- *Adapters*: output stamps increase; queues never block.
- *Longitudinal observer*: the estimate is that of the measurements in source
  order, however late they came; it is from both sensors since the last reversal.
- *Longitudinal calibration*: a valid trial on disk has all its rows, a failure
  reaches the disk, an uncertain start is undone, only a whole result is accepted.
- *Lateral calibration*: stages in order, each once; motion only with everything
  verified; a session ends.

The hazards, each at its line and with its properties, are in `PROJECT.json`.

## 2. Modules

| Module | Models |
|---|---|
| `MpccRuntime` | the runtime: one action per critical section |
| `MpccStartupHistory` | the runtime beside one history variable |
| `MpccRuntimeProofs` | its inductive invariant and theorems |
| `LocalizationMonitor` | the localization monitor: anchor health, committed alignment, status |
| `LocalizationHealth` | the receiver of that status in the MPCC runtime |
| `LocalizationChain` | NDT's anchor protocol, the monitor and the receiver, joined by their topics |
| `LocalizationHistory` | the chain beside what has been published and left |
| `LocalizationProofs` | its inductive invariants and theorems |
| `JoystickSelector` | the selector and its node: one action per callback |
| `JoystickArming` | the selector beside the history of its arming |
| `SelectorProofs` | theorems of the selector |
| `JoystickProofs` | the theorem about its arming |
| `DriveAuthority` | abstract: what a controller promises of a granted authority; `MpccRuntime` implements it |
| `CommandChain` | `JoystickSelector` and a `DriveAuthority` controller, joined by their topics |
| `CommandChainProofs` | its inductive invariant and theorems |
| `LateralGrip` | the lateral calibration: `Core` and the node around it |
| `LateralGripProofs` | theorems of it |
| `EvidenceWriter` | the bounded queue and worker thread of the longitudinal calibration |
| `CalibrationSession` | the calibration node, its engine and the operator, around `EvidenceWriter` |
| `CalibrationProofs` | its inductive invariant and theorems |
| `SourceTimeLog` | abstract: a filter over measurements in source order |
| `LongitudinalObserver` | the replaying observer, as operations |
| `LongitudinalAcceleration` | its node; implements `SourceTimeLog` |
| `LongitudinalProofs` | theorems of the observer and its node |

### MpccRuntime

Every variable is a member of `RuntimeNode` (named in the declaration), except
`worker` (the request being solved: the locals of `solve_loop`), `decision` (the
locals `publish_command` carries from its first critical section to its second),
`wire` (the last `/drive` message) and `moving` (the vehicle).

| Code | Action |
|---|---|
| `/mpcc/enable` | `EnableRequest`, `StopRequest` |
| `/control/autonomy_speed_enabled` | `ModeMessage` |
| `/localization/map_sha256` | `IdentityMessage` |
| `/vesc/command` | `Forwarded` |
| `/odometry/filtered` | `Odometry` |
| `/localization/status` | `StatusMessage`, `ForeignStatus` |
| any handler that sees the clock go back | `ClockRollback` |
| worker thread | `WorkerReady`, `WorkerSubmit`, `WorkerDeliver`, `WorkerFails` |
| output timer, first section | `Decide` (`DecideIdle`, `DecideAutoWait`, `DecideAutoStart`, `DecideFault`, `DecideDrive`) |
| output timer, second section | `Emit` |
| time and plant | `Tick`, `Lapse`, `VehicleMoves`, `VehicleHalts` |

Abstractions, and why they lose nothing the properties see:

- *Time.* Ages that are compared with each other or counted (source age and
  time since submission of a plan, `started_`, `stationary_since_`, the
  automatic-start deadline) are counted in output periods and saturate past the
  largest value they are compared with. A freshness window of 0.1 s or 1 s only
  matters as inside or lapsed, and is a flag that `Lapse` may clear at any
  moment, an over-approximation. The receipt age of a snapshot is never the
  larger age, so one flag stands for both.
- *Localization messages.* `Observed` is what `LocalizationHealth::observe` may
  make of any message (lost, repeated, reordered, malformed or from a retired
  epoch): a superset of the code's outcomes with the two facts the runtime
  relies on, that a retired epoch never returns and that a new epoch brings a
  new anchor. Epochs are numbered as they open.
- *Snapshot.* Its epoch and whether its anchor is the current one. The command
  history covers a present snapshot: odometry requires it, and both are cleared
  together.
- *Profile.* The fielded one: map frame, `rate_bounded_v2` (a qualified
  alignment is required).
- *Verdicts.* Certification of a takeover, the checks of the vehicle at a start,
  faults raised by numerical code, the finish and the overshoot are inputs. With
  `repeat_laps` the last two do not occur, nor does a zero speed cap.
- *Clock rollback* is an action of its own; the handler that observes it goes
  on, as its own action. `DecideFault` leaves the recovery count, the
  stationary mark and the sampler's speed as they were: a fault between two of
  their updates is not distinguished, and a start resets them.
- *Speed* is a few levels. `MinDrive` is the deadband of the wire. The sampler
  changes by at most one level per period; without a plan it may hold, because
  the lateral budget may leave no braking capacity (`output.hpp:147-185`).
- *Plant.* A vehicle commanded zero may come to rest, a vehicle commanded speed
  may move (`VehicleMoves`, `VehicleHalts`, outside the repository).

### LocalizationChain

| Code | Action |
|---|---|
| NDT (`dependencies/ndt-trusted-anchor.patch`) | `NdtReset`, `NdtClockJump`, `NdtRejects`, `NdtCommits`, `NdtCommitsUnsound` |
| `/localization/anchor_status` | `AnchorArrives`, `FutureAnchorArrives`, `MalformedAnchorArrives` |
| monitor's 100 ms timer | `Ticks` |
| `/odometry/filtered`, `/fastlio2/body_cloud`, ages | `MonitorInputs`, `MonitorUpset` |
| monitor sees the clock go back, is restarted | `MonitorUpset`, `Restarts` |
| `/localization/status` in the runtime | `StatusTaken`, `StatusRefused`, `ReceiverAges` |
| `/localization/map_sha256` in the runtime | `IdentityTaken` |
| runtime sees the clock go back | `ReceiverClockBack` |

- *Topics.* `anchor_status` is reliable with a history of 10 that a new monitor
  gets again (`History`); `status` keeps its last 10 messages (`Depth`);
  `map_sha256` is transient local and published by the monitor's constructor.
- *Anchors.* NDT numbers events and anchors within an epoch; the number
  determines stamp and transform, so neither is carried. The monitor's
  `aligned` is the anchor whose transform it holds. A transform that is not
  finite or not unit is `sound = FALSE`.
- *Ages* are flags that lapse at any moment: the monitor's `recent` and
  `present`, the receiver's `heartbeat` and `recent`. An anchor may be past its
  window on arrival, except that one with stamp 0 always is.
- *An epoch without a pose* differs from one whose pose brings no event in
  nothing that is published, so NDT's reset is one action.
- *Left out*: the scan-matching quality task, which is diagnostic only, NDT's
  registration, and the transform itself.

`MpccRuntime` takes the outcome of a status message from `Observed`, which
allows everything `LocalizationHealth` does but for the one fact it rests on,
that a change of epoch is to a new one: `LeftEpochsStayLeft` checks it here.

### JoystickSelector

Switch positions are read from a frame; a frame with a channel out of range is
`CorruptFrame`, whose switches the code never reads. A cached command keeps its
mode, its validity and the time since it was generated (`source_age` at receipt
plus the time since), which is what `fresh_command` compares; targets, throttle
scaling and steering sanitising are left out. The manual states are one state,
with the mode. Calibration stamps are required, as fielded: with
`require_calibration_stamp` off, the age of an unstamped command is not known.

### DriveAuthority and CommandChain

`DriveAuthority` is what is left of a controller when only the last report heard,
whether a run is on, and whether the last command moves are looked at. The
mapping is the identity on three variables of the runtime: `granted` is
`authority_`, `enabled` is `enabled_`, `motion` is whether the last `/drive`
message is nonzero. So the chain need not carry the runtime's state: `CommandChain`
`INSTANCE`s `DriveAuthority` as the controller and takes `JoystickSelector` whole.

| Code | Action |
|---|---|
| selector's RC callback, `/drive` callback, 100 Hz timer | `OperatorActs`, `TakesDrive`, `Reports` |
| controller hears `/control/autonomy_speed_enabled`, is enabled, ends, commands | `Hears`, `Starts`, `Ends`, `Commands` |
| time | `Passes` |

The report's topic is reliable, in order, and keeps its last `Depth` messages;
`/drive` is best effort with a depth of one, so a command is lost or replaced at
any time. `cachedRun`, `since` and `withheld` are history variables. The
calibration switch is off and the two current-like modes are one.

### LateralGrip

`core` is the state of class `Core` as a record, one operator per branch of its
`tick`. Callbacks run one at a time: `Wheel`, `Other`, `Answer` (parameter
polling), `Enable`, `Disable`, `Tick`. Speed is a stage's number, so that *on
target*, *below*, *standing* and *beyond the last stage* are told apart; each
`since_` is the time since, -1 when unset. What a tick may find wrong besides the
wheel sample and the driver (the other sensors, a conflicting publisher, the
comparison of the final command) is the choice `sound`, at every tick: a superset
of the code's outcomes. `Records` ends every callback as `flush` does: a write
may fail, and then the core stops and stays stopped.

### EvidenceWriter and CalibrationSession

| Code | Action |
|---|---|
| `submit`, `trials`, `close` | `SubmitRow`, `SubmitOther`, `SubmitTrials`, `Close` |
| worker: check, wait, take, write, count, close | `Checks`, `Takes`, `Wakes`, `Judges`, `Appends`, `Replaces`, `Commits`, `ClosesFiles` |
| worker: `failure_checkpoint` | `FailureCopied`, `FailureWritten` |
| node: `tick` | `Tick`, `WriteRow`, `WriteTrials`, `WriteRuntime`, `Rescue` |
| node: `enable` service | `HandleStart`, `ResetObservations`, `SaveThenAnswer`, `HandleStop` |
| node: status, destructor | `Status`, `Shutdown`, `SaveThenClose`, `CloseWriter` |
| operator: `start` | `Asks`, `GivesUp`, `AcceptsResults` |

The worker takes and releases the mutex between its effects, so the producer runs
between any two of its steps, in particular between the replacement of
`trials.json` and `committed_`, and between copying a failure checkpoint and
writing it. Every write, and closing the files, may throw. A trial is whether its
record is a valid success; `Invalidated` is what an error does from `failed_after_`
on. `version_` is read only to compare it with `failure_version_`. The engine's
driving phases are one state whose steps are choices. `lost` is a history
variable: the trials of which a row was refused or not written.

### LongitudinalObserver

A posterior is its stamp and the list of measurements it was computed from, so that
two are equal when the same updates made them in the same order: what the filter
computes is left to that list. `Inserted`, `Rebuilt` and `Trimmed` are the three
parts of `receive`; a numerical failure is `Refuses`. A callback of the node reads
the clock first (`Called`), an IMU callback once more before it publishes
(`ReadsAgain`), and any reading may lie before the last.

## 3. Runs

| Run | Specification and bounds | Checks |
|---|---|---|
| `runtime_safety` | 2 epochs, 2 invalidations and a start past them, TTL 2, lead 1, enabled by the operator | `TypeOK`, `PhaseAgrees`, `PendingOwned`, `ActiveOwned`, `AuthorityHeld`, `PlansOfThisEpoch`, `MotionAuthorized`, `PlannedAcceleration`, `ImplementsAuthority` (refinement) |
| `runtime_stop` | `FairSpec` | `StopCompletes`, `PendingConsumed` |
| `runtime_settle` | `RecoverySpec`, 2 epochs, TTL 2, lead 1, automatic start | `AutoStartWaits`, `FatalFaultsDoNotRestart`, `RecoveryEnds`, `AutoStartResolved` |
| `localization` | `HistorySpec`, 2 epochs, 4 anchor events, 1 misfortune, history 3, depth 2 | `TypeOK`, `QualifiedIsAnchored`, `LeftEpochsStayLeft`, `RecoveryNeedsCommits`, `RewindNeedsNewEpoch` |
| `selector` | all timeouts 1, ages to 2, `FairHistorySpec` | `TypeOK`, `AutonomyForwardsSpeed`, `CalibrationOfThisArming`, `MotionEndsWithoutRc` |
| `command_chain` | timeouts 1, delay at most 1, depth 2, 2 runs | `ChainTypeOK`, `WithdrawnMotionEnds`, `ControllerFollowsOperator` |
| `lateral_grip` | 2 stages to each side | `TypeOK`, `CourseInOrder`, `MotionVerified`, `SessionEnds` |
| `evidence` | queue of 2, 2 trials | `SessionTypeOK`, `EvidenceComplete`, `FailureBecomesDurable`, `UncertainStartUndone`, `AcceptedIsWhole` |
| `observer` | stamps to 4, window 2, cap 3, 5 measurements | `AccelerationTypeOK`, `CheckpointsReplay`, `InitializedByBoth`, `ImplementsLog` (refinement) |
| `runtime_recovery` | TTL 2, lead 1, two speeds | `RecoveryNeedsAuthorization`, violated |
| `startup_allowance` | automatic start with history | `TrustedSnapshotEndsAllowance`, violated |
| `localization_rollback` | `FairSpec`, 1 epoch, 2 misfortunes | `ClockResetRecovers`, violated |

Deadlock is checked in all of them but `evidence`, where the session really ends.

*Bounds.* `MaxEpoch` bounds the epochs that open. `MaxGeneration` bounds the
environment, never the controller: past it no withdrawal or fault is raised, while
the timer and the worker go on. `MaxStart` bounds the enable requests likewise. Two
invalidations and a start past them allow a start, its end and a second start, with
a request, a plan and a decision in flight across both; two epochs allow a change
between the two starts or, in `runtime_settle`, under a waiting one. Longer
histories are covered by the proofs, which have no bound. TTL 1 or 2, lead 0 or 1 and budget 0 or 1 make a plan take over in time, late and never. `Cap` lies
past the selector's timeouts, so each age is seen within, at and past its limit.
In the localization chain `MaxEvents`, `MaxEpoch` and `MaxSequence` bound NDT and
the periodic status, `MaxFaults` the misfortunes (a malformed or future event, an
unsound commit, a bad input, a rewind, a restart, a foreign status). Recovery takes
two commits instead of three. Four events hold a reset, a commit, a loss and the
two commits of the recovery, or two epochs and the replay of both by a restarted
monitor; depth 2 and history 3 make both topics overflow.

In the command chain a report waits for at most one period, a cached command lives
for one, and two runs let one run's command meet the withdrawal of the next. The
bounds the two properties state are tight: one period less is violated. In the
lateral run every time is one or two ticks, but each is smaller than the next as
`Config::valid` asks, two stages make *next stage* and *last stage* differ, and a
hold takes two samples. A queue of two with two trials holds a row of the second
trial behind the checkpoint of the first, and is full when the worker is one job
behind. In the observer five measurements exceed the cap of three and the window
of two, so both kinds of trimming occur and a late measurement meets either edge.

*Fairness.* `FairSpec` assumes that the output timer fires (`Decide`, `Emit`),
that time passes (`Tick`) and that a vehicle commanded zero comes to rest. The
timer has a callback group of its own on a three-thread executor
(`node.cpp:106-107,133,795`), so no receive callback starves it. Nothing is assumed of the
worker, of any message or of the operator. `RecoverySpec` adds strong fairness
of `Brakes`: recovery ends only if braking capacity returns again and again,
which the code does not enforce but the physics of a settling steering lag
does; without that assumption `RecoveryEnds` does not hold. The selector
assumes its timer and time, and no message. The chain's `FairSpec` assumes that
NDT goes on committing, that topics deliver and that the monitor's timer fires;
none of it depends on a bound that `map_sha256` could be waiting for.
`LateralGrip` assumes its 20 ms timer and no callback; `CalibrationSession` that
the writer's thread runs until it is joined and that a callback that began ends:
nothing of the operator, the service, the disk or the timer.

### Findings

- `RecoveryNeedsAuthorization`: `controller/docs/implementation.md:73` says that
  after plan expiry "running again requires explicit authorization";
  `activate_locked` (`node.cpp:517-522`) resumes a moving controller by itself
  after two usable candidates.
- `TrustedSnapshotEndsAllowance`: the comment at `node.cpp:234-236` says that once
  a fresh trusted snapshot has existed an epoch change is a fault. The anchor is
  recorded by the handlers that look, and `forwarded` is not one of them: a
  snapshot that its command makes fresh and that lapses before the next look
  leaves the automatic start waiting through the epoch change.
- `ClockResetRecovers`: `node.cpp:255` asks for "fresh inputs and explicit
  re-enable" after the clock went back, and
  `docs/superpowers/plans/2026-10-09-mpcc-runtime-contract-repair.md:122` has the
  recovery verified. `reset_clock_locked` clears the map identity with the other
  inputs, but the monitor publishes it once, when it is constructed
  (`localization_monitor.cpp:67-69`): no enable succeeds again until a process
  restarts. `aims_mpcc_rt/tests/test_runtime_lifecycle.cpp:142` sets `identity_` by hand.

## 4. Proofs

**MpccRuntimeProofs.** The constants are assumed as in `ConstantsAssumption`:
natural numbers, `Lead < Ttl` as the constructor enforces, and a snapshot that is
fresh no older than the TTL. None of the safety properties is inductive.
`PendingOwned` fails to be because a delivery puts in the slot what the worker
holds; `MotionAuthorized` because `Emit` trusts what the decision carries. The
inductive invariant `IInv` therefore adds what the code keeps for everything in
flight: the generation a request or a decision carries is at most the current one,
and *if equal* the controller is enabled, not stopping and in the request's epoch
(`WorkerOwned`), or still enabled when the decision moves (`DecisionOwned`). A
fault or a stop raises the generation, so it outdates all of them in one
assignment (`FaultStep`); a handler that leaves the lifecycle alone may change the
epoch only while disabled (`KeepStep`). `RecoveryCount` bounds the recovery
counter and `NoEpochNoHealth` ties readiness to an opened epoch. There is one lemma
per action and one step per conjunct it can disturb. From `IInv` follow

- the type invariant and every safety invariant of the runs,
- `MotionAuthorized`, `PlannedAcceleration` and `FatalFaultsDoNotRestart`.

It also proves that the runtime implements `DriveAuthority`
(`RuntimeImplementsAuthority`): every step is the abstract `Act` or a stutter. That
needs `IInv`, not only the actions: the abstract controller moves only while it is
granted, and that `Emit` moves only then is `DecisionOwned`. With it `CommandChain`,
which composes the selector with `DriveAuthority` instead of the whole runtime, says
something of the runtime.

A second part is about a controller that stops or recovers. `WoundDecision` bounds
the decision in flight by the ramp: with it `WindDownOnlyBrakes` says that nothing
above the ramp is published while the controller winds down, a command decided just
before the stop included, because the request of the stop outdates it
(`OutdatedStaysOutdated`). `RecoveryAlwaysExpired` says that a recovery has no plan
to drive, so every step of one is a sample, a publication, the clock or the rolling
vehicle (`WindingStep`). On it rest the steps of progress: a stop leaves every speed
`n` for a lower one (`StopSlows`; `RecoverySlows` where braking capacity returns); a
zero is sampled, published, obeyed and held (`WindDownRests`); the hold runs and
ends the phase (`WindDownWaits`, `WindDownEnds`); an automatic start's time runs out
and the next decision cancels it (`AutoStartRunsOut`, `AutoStartTimesOut`); a plan
comes due and leaves its slot (`PendingComesDue`, `DuePlanLeaves`).
`ResumptionAlwaysEarned` is what does hold where `RecoveryNeedsAuthorization` does
not: a recovery ends in motion only for a new start, or for the second usable plan
of the same authorization and epoch while the vehicle is still moving.

**SelectorProofs and JoystickProofs.** The selector's type invariant and
`AutonomyForwardsSpeed` are inductive together, in `SelectorProofs`, on which both
the arming's and the command chain's proofs rest. `CalibrationOfThisArming` speaks
of a history the selector does not keep. `ArmingInv` says that while the arming
condition holds, the selector's arming age *is* that history, and that a command
kept as valid is no older than it. Ages saturate together, so the order survives
the bound. `TimerEndsMotion` proves the liveness property `MotionEndsWithoutRc`
from the timer's fairness alone: one publication without permission stops the
vehicle, and no producer can undo it (`StopStandsWithoutRc`).

**CommandChainProofs.** Both properties bound a time by something that is still on
its way, so neither is inductive. `LoopInv` follows the report that decides. As long
as the controller may still act on an old grant (it holds one, or one is in the
topic), the first withdrawal is in the topic, and its age there *is* the time being
bounded (`WithdrawalComes`, `RunWithdrawalComes`); it is heard before it is older
than `MaxDelay`, and no grant behind it can have been reported since
(`WithheldReported`), because the topic keeps its order. `Periodic` (one report a
period, so the i-th last is at least i periods old) shows with `MaxDelay < Depth`
that no report is ever pushed out of the topic. `MotionIsYoung` carries the bound on
to the command in the selector's cache. Proved for every time-out, every delay of
the report and any number of runs: the type invariant, `WithdrawnMotionEnds` and
`ControllerFollowsOperator`. The loop is also shown to implement both of its parts,
the selector (`LoopImplementsSelector`) and the abstract controller
(`LoopImplementsController`), so what is proved of the selector alone holds of the
selector in the loop; `LoopForwardsSpeed` and `LoopEndsMotion` are two such
properties, carried over.

**LateralGripProofs.** `CourseInOrder` compares the calibration with the list of the
stages it has completed, which the engine does not keep. `Place` tells the length of
that list from what the engine does keep (which side is finished, the stage, whether
it runs or coasts), and the invariant says the two agree, together with the prefix
of the course it must be. `Timely` bounds the time in a state by the time-out that
ends it. Proved: the type invariant, `CourseInOrder` and `MotionVerified`, and the
measure behind `SessionEnds`: the phases a session has gone through, and the time in
the present one. Every tick of an active session uses up the one or the other
(`SessionAlwaysAdvances`), both are bounded (`SessionAlwaysBounded`), and while the
timer fires every step of that measure is left behind (`SessionGoesOn`). An ended
session stays as it ended (`EndAlwaysStands`).

**LongitudinalProofs.** `ObserverInv` joins what no one of its parts can keep alone:
the kept measurements are sorted, every posterior is the replay of its prefix, and
nothing behind the anchor is newer than what is in front of it. `InsertionSorted`,
`ReplayFollows` and `TrimKeeps` follow the three parts of `receive`; the last one
says that trimming moves measurements behind the anchor and so changes no estimate.
`AdmitsIsAdmit` is the step of the refinement: the place that `upper_bound` finds in
the window is, counted from the first measurement of the epoch, the place that the
abstract log demands. `NodeInv` adds the node: no kept stamp is past its clock, and
the flag of a sensor is set only while the log has one of its measurements. Proved
for any window, cap, clock and order of arrival: the type invariant,
`CheckpointsReplay`, `InitializedByBoth` and the refinement `ImplementsLog`. Two
things of TLC's instance, `MaxTime` and `MaxLog`, stay in the statements as
constants without an upper limit.

**CalibrationProofs.** `EvidenceComplete` compares two files, and the argument goes
through everything between them. A trial is saved after its last row was submitted:
nothing that is saved, committed, held or queued is ahead of what the node has
submitted (`Sealed`, `NothingAhead`), and a row behind a checkpoint in the queue
belongs to a later trial (`RowsFollow`). So the rows that can be missing when a
checkpoint is judged are lost ones, and a loss latches an error first, unless the
writer is closed (`LossIsKnown`). An error that comes later finds a count of trials
whose rows are all on the disk (`CountsAreClear`), and the failure checkpoint keeps
no validity past it. `DiskGrows` and `QueueGrows` order the lengths from the count through the file, the worker and
the queue to the last snapshot; with it a status that said complete and saved stays
true (`StatusHolds`), which is `AcceptedIsWhole`. `UncertainStartUndone` follows
from `StopHolds`: an engine that was stopped is never idle again. Proved for every
capacity of the queue and any number of trials: the type invariant and the three
safety properties.

`FailureAlwaysDurable` proves the liveness property `FailureBecomesDurable` too. The
worker has no loop between an error and its failure checkpoint, so no induction is
needed: `WorkerMoves` names where each of its steps leads, an error that finds it
anywhere goes on to *checks* or *closing* (`OwedLeaves`), and what the node, the
operator and the disk do meanwhile leaves the error where it is (`OwedStays`). That
the writer is not already closed is `ClosedInOrder`: it closes only with nothing
owed, and after the producer's close nobody can add an error.

**LocalizationProofs.** `QualifiedIsAnchored` is carried by `ChainInv` through three
places: the alignment the monitor holds, every status still in its topic, and the
receiver's record, each of which goes back to an event in NDT's log, which only
grows. A step of the monitor is a restart, a publication of what a handler left, or
*quiet* (`MonitorSteps`), so that the other conjuncts need not know which callback
ran. `LeftEpochsStayLeft` and `RewindNeedsNewEpoch` speak of the past; `LeftInv` and
`RewoundInv` say that the records of retired epochs hold it. `RecoveryNeedsCommits`
is a debt: after anchor `ready` was reported, the monitor is still ready, or has
since its last invalidation counted no more commits than its anchor has moved on
(`Owes`); every operator of `AnchorHealth` passes the debt on, and `Committed` pays
one for one. Proved for any number of recovery commits and any depth of the topics:
the type invariant and the four safety properties of the run. `MpccRuntime`'s
assumption that a change of epoch is always to a new one is `LeftEpochsAreLeft`.
Two more speak of the receiver's record over a topic that loses, repeats and delays:
it is ready only over a qualified alignment newer than any loss it was told of
(`ReadinessIsAhead`), and within an epoch it only goes forward (`RecordOnlyGrows`).
`ForgottenMapStaysForgotten` is the general cause of the finding
`ClockResetRecovers`: a receiver that forgot the map after it took the one sample
does not learn it again while the monitor runs, under any fairness.

**Fairness in theorems.** The provers know nothing of ENABLED, so a theorem about
progress has the fairness as a hypothesis with the enabling condition written out:
`TimerFires`, `TimerRuns`, `TimePasses`, `VehicleRests`, `CapacityReturns`,
`WorkerRuns`, `IdentityDelivered` and `TimerTicks`, each next to the `WF` or `SF` it
stands for. `TimerRuns` says outright that the output callback is entered again and
again, which `WF(Decide)` and `WF(Emit)` give together.

**Only model-checked.** Two things are out of the provers' reach. That the written
hypotheses are what `WF` and `SF` mean is a statement about ENABLED. And the
induction over a number that joins the steps: `StopCompletes`, `RecoveryEnds`,
`AutoStartResolved`, `PendingConsumed` and `SessionEnds` have each of their steps
proved, for every speed, time and phase, but a leads-to under a quantifier over
numbers cannot be put together, so the five properties themselves are checked by TLC
alone. `MotionEndsWithoutRc` and `FailureBecomesDurable` need no such induction and
are theorems. The properties that runs show to be violated are no theorems, of
course. Every invariant and action property of a passing run is a theorem.

## 5. Not modelled, and what is left

`PROJECT.json` lists every component with its state. Of the program's own code,
not modelled are

- the bounded queues of `lio_to_rear_axle` and `gyro_bias`, the CRSF parser, the
  relocalization scripts, the legacy multiplexer and the gate of `aims_pp` (which
  repeats the runtime's with another controller): they would come next, in this
  order;
- in the lateral calibration what is only recorded, in the longitudinal one the
  engine's driving phases, its preflight and the trial records' content;
- in the localization monitor the scan-matching quality, which is diagnostic;
- in the runtime the message-level decoding of a localization status (which
  `LocalizationHealth` has) and diagnostics.

Left out for good: the solver, the reintegration, the filters' equations and the
identification of grip and current (real arithmetic, out of TLC's reach, and never
the carrier of a property here), the offline generators and analyses, and the
vendored code. The last is most of the repository: the VRPN library under
`calibration/mocap_validation/vrpn` and the drivers under `transport_drivers` alone
are the larger part of its lines and no part of the program's own logic, which is
why a map of the stateful core covers few of the repository's lines.
