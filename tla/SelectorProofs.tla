----------------------------- MODULE SelectorProofs -----------------------------
(***************************************************************************)
(* What holds of the RC selector by itself, for every value of its         *)
(* timeouts: its types, and that authority is reported of navigation only. *)
(* JoystickProofs and CommandChainProofs build on it.                      *)
(***************************************************************************)
EXTENDS JoystickSelector, TLAPS

\* Ageing stays within the cap, keeps the order of two ages, and never brings
\* an expired RC frame back.
LEMMA LaterAges ==
  ASSUME NEW a \in 0..Cap, NEW b \in 0..Cap
  PROVE  /\ Later(a) \in 0..Cap
         /\ a <= b => Later(a) <= Later(b)
         /\ Later(a) <= RcTimeout => a <= RcTimeout
  BY TimeoutsAssumption DEF Later

\* What a publication sends is a selection.
LEMMA SelectedType == TypeOK => Selected \in Selection
<1> SUFFICES ASSUME TypeOK PROVE Selected \in Selection
  OBVIOUS
<1>1. \A state \in States, autonomy \in BOOLEAN : StoppedWith(state, autonomy) \in Selection
  BY DEF StoppedWith, Selection, Modes, EscModes
<1>2. SelectedCalibration \in Selection
  <2>1. calibration.mode \in Modes
    BY DEF TypeOK, Cached
  <2>2. [state |-> "Calibration", mode |-> calibration.mode, autonomy |-> FALSE,
         calibration |-> TRUE] \in Selection
    BY <2>1 DEF Selection, States
  <2>3. \A state \in {"WaitingCalibration", "InvalidCalibration", "CalibrationExpired"} :
          StoppedWith(state, FALSE) \in Selection
    BY <1>1 DEF States
  <2> QED
    BY <2>2, <2>3 DEF SelectedCalibration
<1>3. SelectedNavigation \in Selection
  BY <1>1 DEF SelectedNavigation, Autonomy, States, TypeOK, Frame
<1>4. [state |-> "Manual", mode |-> rc.mode, autonomy |-> FALSE, calibration |-> FALSE]
        \in Selection
  <2>1. rc.mode \in Modes
    BY DEF TypeOK, Frame, Modes
  <2> QED
    BY <2>1 DEF Selection, States
<1>5. \A state \in {"WaitingRC", "InvalidRC", "RCExpired", "Locked"} :
        StoppedWith(state, FALSE) \in Selection
  BY <1>1 DEF States
<1> QED
  BY <1>2, <1>3, <1>4, <1>5 DEF Selected

\* Authority is reported only with the operator's permission.
LEMMA SelectedAuthority == Selected.autonomy => rc.present /\ rc.valid /\ ~rc.locked /\ RcFresh
                                                 /\ Autonomy
<1>1. \A state, autonomy : StoppedWith(state, autonomy).autonomy = autonomy
  BY DEF StoppedWith
<1>2. ~SelectedCalibration.autonomy
  BY <1>1 DEF SelectedCalibration
<1>3. SelectedNavigation.autonomy = Autonomy
  BY <1>1 DEF SelectedNavigation
<1> QED
  BY <1>1, <1>2, <1>3 DEF Selected

\* The selector is constructed with typed, empty caches.
LEMMA SelectorStarts == Init => TypeOK
  BY TimeoutsAssumption DEF Init, TypeOK, NoFrame, Frame, EscModes, Modes,
     NoCommand, Cached, StoppedWith, Selection, States

\* Every callback keeps the types.
LEMMA SelectorSteps == TypeOK /\ [Next]_vars => TypeOK'
<1> SUFFICES ASSUME TypeOK, [Next]_vars PROVE TypeOK'
  OBVIOUS
<1>1. NoCommand \in Cached
  BY TimeoutsAssumption DEF NoCommand, Cached, Modes, EscModes
<1>2. ASSUME NEW frame \in Frames, ReceiveRc(frame) PROVE TypeOK'
  <2>1. /\ rc' = frame /\ rcAge' = 0 /\ frame \in Frame
        /\ calibration' \in {calibration, NoCommand} /\ armedAge' \in {0, armedAge}
        /\ UNCHANGED <<navigation, wire>>
    BY <1>2 DEF ReceiveRc, Frames, CorruptFrame, NoFrame, Frame, EscModes
  <2> QED
    BY <1>1, <2>1, TimeoutsAssumption DEF TypeOK
<1>3. ASSUME NEW valid \in BOOLEAN, NEW age \in 0..Cap, ReceiveNavigation(valid, age)
      PROVE  TypeOK'
  <2>1. /\ navigation' \in Cached /\ UNCHANGED <<rc, rcAge, armedAge, calibration, wire>>
    BY <1>3 DEF ReceiveNavigation, Cached, Modes, EscModes
  <2> QED
    BY <2>1 DEF TypeOK
<1>4. ASSUME NEW valid \in BOOLEAN, NEW mode \in Modes, NEW age \in 0..Cap,
             ReceiveCalibration(valid, mode, age)
      PROVE  TypeOK'
  <2>1. /\ calibration' \in Cached /\ UNCHANGED <<rc, rcAge, armedAge, navigation, wire>>
    BY <1>4 DEF ReceiveCalibration, CalibrationChecked, Cached
  <2> QED
    BY <2>1 DEF TypeOK
<1>5. CASE Publish
  <2>1. /\ wire' = Selected /\ calibration' \in {calibration, NoCommand}
        /\ UNCHANGED <<rc, rcAge, armedAge, navigation>>
    BY <1>5 DEF Publish
  <2> QED
    BY <1>1, <2>1, SelectedType DEF TypeOK
<1>6. CASE Tick
  <2>1. /\ rcAge' = Later(rcAge) /\ armedAge' = Later(armedAge)
        /\ navigation'  = IF navigation.present THEN [navigation EXCEPT !.age = Later(@)]
                          ELSE navigation
        /\ calibration' = IF calibration.present THEN [calibration EXCEPT !.age = Later(@)]
                          ELSE calibration
        /\ UNCHANGED <<rc, wire>>
    BY <1>6 DEF Tick
  <2> QED
    BY <2>1, LaterAges DEF TypeOK, Cached
<1>7. CASE UNCHANGED vars
  BY <1>7 DEF vars, TypeOK
<1> QED
  BY <1>2, <1>3, <1>4, <1>5, <1>6, <1>7 DEF Next

\* The selector's variables keep their types.
THEOREM SelectorTypeCorrect == Spec => []TypeOK
  BY SelectorStarts, SelectorSteps, PTL DEF Spec

\* While speed authority is reported, a speed command of the navigation or a
\* stop is forwarded, and nothing else.
THEOREM AutonomyAlwaysForwardsSpeed == Spec => []AutonomyForwardsSpeed
<1>1. Init => AutonomyForwardsSpeed
  BY DEF Init, AutonomyForwardsSpeed, StoppedWith
<1>2. AutonomyForwardsSpeed /\ [Next]_vars => AutonomyForwardsSpeed'
  <2> SUFFICES ASSUME AutonomyForwardsSpeed, wire' # wire => wire' = Selected
               PROVE  AutonomyForwardsSpeed'
    BY DEF Next, vars, ReceiveRc, ReceiveNavigation, ReceiveCalibration, Publish, Tick
  <2>1. CASE wire' = wire
    BY <2>1 DEF AutonomyForwardsSpeed
  <2>2. CASE wire' = Selected
    <3>1. \A state, autonomy : /\ StoppedWith(state, autonomy).state = state
                               /\ StoppedWith(state, autonomy).mode = "speed"
                               /\ StoppedWith(state, autonomy).autonomy = autonomy
                               /\ StoppedWith(state, autonomy).calibration = FALSE
      BY DEF StoppedWith
    <3>2. Selected.autonomy => Selected = SelectedNavigation
      BY <3>1 DEF Selected, SelectedCalibration
    <3>3. SelectedNavigation.autonomy =>
            /\ SelectedNavigation.mode = "speed" /\ ~SelectedNavigation.calibration
            /\ SelectedNavigation.state \in {"Navigation", "WaitingNavigation",
                                             "InvalidNavigation", "NavigationExpired"}
      BY <3>1 DEF SelectedNavigation, Autonomy
    <3> QED
      BY <2>2, <3>2, <3>3 DEF AutonomyForwardsSpeed
  <2> QED
    BY <2>1, <2>2
<1> QED
  BY <1>1, <1>2, PTL DEF Spec

-----------------------------------------------------------------------------
(* Losing the transmitter.  The provers know nothing of ENABLED, so the    *)
(* fairness of the publication timer is stated with the condition under    *)
(* which a publication changes anything written out.                       *)

PublicationChanges ==
  wire # Selected \/ (Selected.state = "RCExpired" /\ calibration # NoCommand)

\* WF_vars(Publish): a publication that would change anything happens, or its
\* effect lapses, again and again.
TimerFires == []<>(~PublicationChanges) \/ []<><<Publish>>_vars

\* What is selected without the operator's permission is a stop.
LEMMA UnpermittedStops ==
  ASSUME TypeOK, ~Permitted
  PROVE  Selected.state \in {"WaitingRC", "InvalidRC", "RCExpired", "Locked"}
<1>1. rc.present \in BOOLEAN /\ rc.valid \in BOOLEAN /\ rc.locked \in BOOLEAN
  BY DEF TypeOK, Frame
<1>2. ~rc.present \/ ~rc.valid \/ ~RcFresh \/ rc.locked
  BY <1>1 DEF Permitted, RcFresh
<1>3. \A state : StoppedWith(state, FALSE).state = state
  BY DEF StoppedWith
<1> QED
  BY <1>1, <1>2, <1>3 DEF Selected

\* A publication without permission stops the vehicle, and only a publication
\* changes what the vehicle was told.
LEMMA UnpermittedPublication ==
  TypeOK /\ ~Permitted /\ [Next]_vars =>
    /\ Publish => WireStopped'
    /\ WireStopped => WireStopped'
<1> SUFFICES ASSUME TypeOK, ~Permitted, [Next]_vars
             PROVE  (Publish => WireStopped') /\ (WireStopped => WireStopped')
  OBVIOUS
<1>1. Publish => wire' = Selected
  BY DEF Publish
<1>2. Publish => WireStopped'
  BY <1>1, UnpermittedStops DEF WireStopped
<1>3. ~Publish => wire' = wire
  BY DEF Next, vars, ReceiveRc, ReceiveNavigation, ReceiveCalibration, Tick
<1> QED
  BY <1>2, <1>3 DEF WireStopped

\* Whatever the producers send, a stop that was published stays published as
\* long as the operator's permission is missing.
THEOREM StopStandsWithoutRc ==
  Spec => [][~Permitted /\ WireStopped => WireStopped']_vars
  BY SelectorTypeCorrect, UnpermittedPublication, PTL DEF Spec

\* Without a fresh, valid, unlocked frame the vehicle is soon told to stop: a
\* publication, which the timer owes as long as the vehicle is not stopped.
THEOREM TimerEndsMotion == Spec /\ TimerFires => MotionEndsWithoutRc
<1>1. TypeOK /\ ~Permitted /\ ~WireStopped => PublicationChanges
  BY UnpermittedStops DEF WireStopped, PublicationChanges
<1>2. TypeOK /\ ~Permitted /\ <<Next /\ Publish>>_vars => WireStopped'
  BY UnpermittedPublication
<1> QED
  BY <1>1, <1>2, SelectorTypeCorrect, PTL DEF Spec, TimerFires, MotionEndsWithoutRc

=============================================================================
