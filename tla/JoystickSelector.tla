---------------------------- MODULE JoystickSelector ----------------------------
(***************************************************************************)
(* The RC selector in front of the vehicle (ackermann_mux: the class       *)
(* JoystickSelector and its node joystick_control_v2).  It forwards one of *)
(* manual driving, navigation (/drive) or calibration to /vesc/command,    *)
(* and reports the granted authority.                                      *)
(*                                                                         *)
(* The node runs on a single-threaded executor: every callback is a step.  *)
(* Time is counted in Ticks on the steady clock.  A cached command is kept *)
(* with its mode, its validity and the time since it was generated (source *)
(* age at receipt plus the time since); targets are left out.              *)
(***************************************************************************)
EXTENDS Naturals

CONSTANTS
  RcTimeout, NavTimeout, CalibTimeout,   \* rc_timeout, nav_timeout, calib_timeout
  Cap             \* bound: ages saturate here, past every timeout

ASSUME TimeoutsAssumption ==
  /\ Cap \in Nat
  /\ RcTimeout \in 0..(Cap - 1) /\ NavTimeout \in 0..(Cap - 1) /\ CalibTimeout \in 0..(Cap - 1)

VARIABLES
  rc,           \* the last RC frame: rc_present_, rc_valid_ and the switch positions
  rcAge,        \* now - rc_received_, saturating
  armedAge,     \* now - calibration_armed_at_, saturating
  navigation, calibration,   \* navigation_, calibration_
  wire          \* the last publication: state, mode and the two authority flags

vars == <<rc, rcAge, armedAge, navigation, calibration, wire>>

-----------------------------------------------------------------------------
EscModes == {"speed", "current", "duty"}
Modes    == EscModes \cup {"brake"}

Frame == [present : BOOLEAN, valid : BOOLEAN, locked : BOOLEAN, calibrating : BOOLEAN,
          navigating : BOOLEAN, mode : EscModes]
NoFrame == [present |-> FALSE, valid |-> FALSE, locked |-> TRUE, calibrating |-> FALSE,
            navigating |-> FALSE, mode |-> "speed"]
\* The switches of a frame with a channel out of range are never read.
CorruptFrame == [NoFrame EXCEPT !.present = TRUE]
Frames == {f \in Frame : f.present /\ f.valid} \cup {CorruptFrame}

Cached == [present : BOOLEAN, valid : BOOLEAN, mode : Modes, age : 0..Cap]
NoCommand == [present |-> FALSE, valid |-> FALSE, mode |-> "speed", age |-> 0]

States == {"WaitingRC", "InvalidRC", "RCExpired", "Locked", "Manual", "Navigation",
           "Calibration", "WaitingNavigation", "NavigationExpired", "InvalidNavigation",
           "WaitingCalibration", "CalibrationExpired", "InvalidCalibration",
           "UnsupportedNavigationMode"}
Selection == [state : States, mode : Modes, autonomy : BOOLEAN, calibration : BOOLEAN]
StoppedWith(state, autonomy) ==
  [state |-> state, mode |-> "speed", autonomy |-> autonomy, calibration |-> FALSE]

\* fresh(now, rc_received_, rc_timeout), for a frame that has been received.
RcAlwaysFresh == TRUE
RcFresh == rcAge <= RcTimeout

\* The frame in hand arms calibration.
Arms(frame) == frame.valid /\ ~frame.locked /\ frame.calibrating

\* previously_armed of receive_rc, and the gate of receive_calibration.
Armed == rc.present /\ RcFresh /\ Arms(rc)

-----------------------------------------------------------------------------
(* The callbacks.                                                          *)

\* receive_rc.  Frames the node drops for their publication age are those
\* that never arrive.
ReceiveRc(frame) ==
  /\ rc' = frame /\ rcAge' = 0
  /\ calibration' = IF Armed /\ Arms(frame) THEN calibration ELSE NoCommand
  /\ armedAge' = IF Arms(frame) /\ ~Armed THEN 0 ELSE armedAge
  /\ UNCHANGED <<navigation, wire>>

\* receive_navigation: "/drive" is a speed interface; a command with jerk, a
\* nonfinite target, a target out of bounds or no source age is invalid.
NavigationOnReceipt(valid, age) ==
  /\ navigation' = [present |-> TRUE, valid |-> valid, mode |-> "speed", age |-> 0]
  /\ UNCHANGED <<rc, rcAge, armedAge, calibration, wire>>
ReceiveNavigation(valid, age) ==
  /\ navigation' = [present |-> TRUE, valid |-> valid, mode |-> "speed", age |-> age]
  /\ UNCHANGED <<rc, rcAge, armedAge, calibration, wire>>

\* receive_calibration: refused unless armed, and kept as invalid when it was
\* generated before arming.
CalibrationKept(valid, mode, age) ==
  [present |-> TRUE, valid |-> valid, mode |-> mode, age |-> age]
CalibrationChecked(valid, mode, age) ==
  [present |-> TRUE, valid |-> valid /\ age <= armedAge, mode |-> mode, age |-> age]
ReceiveCalibration(valid, mode, age) ==
  /\ Armed
  /\ calibration' = CalibrationChecked(valid, mode, age)
  /\ UNCHANGED <<rc, rcAge, armedAge, navigation, wire>>

\* autonomy_speed_enabled: authority, whether or not a producer is there.
AutonomyInAnyMode == rc.navigating /\ ~rc.calibrating
Autonomy == rc.navigating /\ rc.mode = "speed" /\ ~rc.calibrating

\* select, calibration branch: only a valid, fresh command leaves the stop.
SelectedCalibration ==
  IF ~calibration.present THEN StoppedWith("WaitingCalibration", FALSE)
  ELSE IF ~calibration.valid THEN StoppedWith("InvalidCalibration", FALSE)
  ELSE IF calibration.age > CalibTimeout THEN StoppedWith("CalibrationExpired", FALSE)
  ELSE [state |-> "Calibration", mode |-> calibration.mode, autonomy |-> FALSE,
        calibration |-> TRUE]

\* select, navigation branch.
SelectedNavigation ==
  StoppedWith(
    IF rc.mode # "speed" THEN "UnsupportedNavigationMode"
    ELSE IF ~navigation.present THEN "WaitingNavigation"
    ELSE IF ~navigation.valid THEN "InvalidNavigation"
    ELSE IF navigation.age > NavTimeout THEN "NavigationExpired"
    ELSE "Navigation", Autonomy)

Selected ==
  IF ~rc.present THEN StoppedWith("WaitingRC", FALSE)
  ELSE IF ~rc.valid THEN StoppedWith("InvalidRC", FALSE)
  ELSE IF ~RcFresh THEN StoppedWith("RCExpired", FALSE)
  ELSE IF rc.locked THEN StoppedWith("Locked", FALSE)
  ELSE IF rc.calibrating THEN SelectedCalibration
  ELSE IF rc.navigating THEN SelectedNavigation
  ELSE [state |-> "Manual", mode |-> rc.mode, autonomy |-> FALSE, calibration |-> FALSE]

\* The publication timer: select, and the three messages it leads to.
Publish ==
  /\ wire' = Selected
  /\ calibration' = IF Selected.state = "RCExpired" THEN NoCommand ELSE calibration
  /\ UNCHANGED <<rc, rcAge, armedAge, navigation>>

LaterUnsaturated(n) == n + 1
Later(n) == IF n < Cap THEN n + 1 ELSE Cap

Tick ==
  /\ rcAge' = Later(rcAge) /\ armedAge' = Later(armedAge)
  /\ navigation'  = IF navigation.present THEN [navigation EXCEPT !.age = Later(@)]
                    ELSE navigation
  /\ calibration' = IF calibration.present THEN [calibration EXCEPT !.age = Later(@)]
                    ELSE calibration
  /\ UNCHANGED <<rc, wire>>

-----------------------------------------------------------------------------
Init ==
  /\ rc = NoFrame /\ rcAge = Cap /\ armedAge = Cap
  /\ navigation = NoCommand /\ calibration = NoCommand
  /\ wire = StoppedWith("WaitingRC", FALSE)

Next ==
  \/ \E frame \in Frames : ReceiveRc(frame)
  \/ \E valid \in BOOLEAN, age \in 0..Cap : ReceiveNavigation(valid, age)
  \/ \E valid \in BOOLEAN, mode \in Modes, age \in 0..Cap : ReceiveCalibration(valid, mode, age)
  \/ Publish
  \/ Tick

Spec == Init /\ [][Next]_vars

\* The timer keeps firing and time passes; no message is promised.
FairSpec == Spec /\ WF_vars(Publish) /\ WF_vars(Tick)

-----------------------------------------------------------------------------
(* Properties.                                                             *)

\* Every variable keeps its type.
TypeOK ==
  /\ rc \in Frame /\ rcAge \in 0..Cap /\ armedAge \in 0..Cap
  /\ navigation \in Cached /\ calibration \in Cached /\ wire \in Selection

\* While the selector reports autonomous speed authority, what it forwards in
\* the same callback is a speed command of the navigation, or a stop: the
\* controller that trusts the report never finds another mode in its history.
AutonomyForwardsSpeed ==
  wire.autonomy =>
    /\ wire.mode = "speed" /\ ~wire.calibration
    /\ wire.state \in {"Navigation", "WaitingNavigation", "InvalidNavigation",
                       "NavigationExpired"}

\* The operator's present permission to move.
Permitted == rc.present /\ rc.valid /\ ~rc.locked /\ rcAge <= RcTimeout
WireStopped == wire.state \notin {"Manual", "Navigation", "Calibration"}

\* Without a fresh, valid, unlocked RC frame the vehicle is soon commanded to
\* stop, whatever the producers keep sending.
MotionEndsWithoutRc == ~Permitted ~> (WireStopped \/ Permitted)

=============================================================================
