----------------------------- MODULE JoystickProofs -----------------------------
(***************************************************************************)
(* Theorems about the RC selector, for every value of its timeouts.        *)
(*                                                                         *)
(* CalibrationOfThisArming is not inductive: it speaks of a history the    *)
(* selector does not have.  What carries it is that, while the arming      *)
(* condition holds, the selector's own arming age is that history (the     *)
(* frame that arms after a loss resets it), and that a command kept as     *)
(* valid is never older than the arming.                                   *)
(***************************************************************************)
EXTENDS JoystickArming, SelectorProofs

\* The selector's arming age is the uninterrupted arming.
ArmedAgeIsHistory == Armed => armedAge = sinceUnarmed

\* A usable calibration command is no older than the arming.
NotOlderThanArming ==
  Armed /\ calibration.present /\ calibration.valid => calibration.age <= armedAge

ArmingInv ==
  /\ TypeOK /\ sinceUnarmed \in 0..Cap
  /\ ArmedAgeIsHistory /\ NotOlderThanArming

\* The selector is constructed unarmed and empty.
LEMMA InitArming == HistoryInit => ArmingInv
<1> SUFFICES ASSUME HistoryInit PROVE ArmingInv
  OBVIOUS
<1>1. ~Armed
  BY DEF HistoryInit, Init, NoFrame, Armed
<1>2. TypeOK
  BY SelectorStarts DEF HistoryInit
<1> QED
  BY <1>1, <1>2, TimeoutsAssumption
  DEF HistoryInit, ArmingInv, ArmedAgeIsHistory, NotOlderThanArming

\* The selector keeps its types and the history stays within the cap.
LEMMA HistoryType ==
  ASSUME ArmingInv, HistoryNext
  PROVE  TypeOK' /\ sinceUnarmed' \in 0..Cap
<1>1. TypeOK'
  BY SelectorSteps DEF ArmingInv, HistoryNext
<1>2. sinceUnarmed' \in 0..Cap
  BY LaterAges, TimeoutsAssumption DEF ArmingInv, HistoryNext
<1> QED
  BY <1>1, <1>2

\* An RC frame keeps the invariant: one that arms after a loss resets the
\* arming age and empties the cache.
LEMMA ReceiveRcArming ==
  ASSUME ArmingInv, HistoryNext, NEW frame \in Frames, ReceiveRc(frame)
  PROVE  ArmingInv'
<1>1. /\ rc' = frame /\ rcAge' = 0
      /\ calibration' = IF Armed /\ Arms(frame) THEN calibration ELSE NoCommand
      /\ armedAge' = IF Arms(frame) /\ ~Armed THEN 0 ELSE armedAge
      /\ UNCHANGED <<navigation, wire>>
  BY DEF ReceiveRc
<1>2. Armed' => Arms(frame)
  BY <1>1 DEF Armed, Arms
<1>3. ArmedAgeIsHistory'
  <2> SUFFICES ASSUME Armed' PROVE armedAge' = sinceUnarmed'
    BY DEF ArmedAgeIsHistory
  <2>1. CASE ~Armed
    BY <1>1, <1>2, <2>1 DEF HistoryNext
  <2>2. CASE Armed
    <3>1. armedAge' = armedAge
      BY <1>1, <2>2
    <3>2. Tick => sinceUnarmed' = armedAge'
      BY <2>2 DEF Tick, ArmingInv, ArmedAgeIsHistory, HistoryNext
    <3> QED
      BY <2>2, <3>1, <3>2 DEF ArmingInv, ArmedAgeIsHistory, HistoryNext
  <2> QED
    BY <2>1, <2>2
<1>4. NotOlderThanArming'
  <2>1. CASE Armed /\ Arms(frame)
    BY <1>1, <2>1 DEF ArmingInv, NotOlderThanArming
  <2>2. CASE ~(Armed /\ Arms(frame))
    BY <1>1, <2>2 DEF NotOlderThanArming, NoCommand
  <2> QED
    BY <2>1, <2>2
<1> QED
  BY <1>3, <1>4, HistoryType DEF ArmingInv

\* Commands and publications keep the invariant: none of them changes whether
\* or since when the selector is armed.
LEMMA CallbackArming ==
  ASSUME ArmingInv, HistoryNext, UNCHANGED <<rc, rcAge, armedAge>>,
         Armed /\ calibration'.present /\ calibration'.valid => calibration'.age <= armedAge
  PROVE  ArmingInv'
<1>1. Armed' = Armed
  BY DEF Armed, Arms, RcFresh
<1>2. ArmedAgeIsHistory'
  BY <1>1 DEF ArmingInv, ArmedAgeIsHistory, HistoryNext, Tick
<1>3. NotOlderThanArming'
  BY <1>1 DEF NotOlderThanArming
<1> QED
  BY <1>2, <1>3, HistoryType DEF ArmingInv

\* The passing of time keeps the invariant: the three ages grow together.
LEMMA TickArming ==
  ASSUME ArmingInv, HistoryNext, Tick
  PROVE  ArmingInv'
<1>1. /\ rcAge' = Later(rcAge) /\ armedAge' = Later(armedAge)
      /\ navigation'  = IF navigation.present THEN [navigation EXCEPT !.age = Later(@)]
                        ELSE navigation
      /\ calibration' = IF calibration.present THEN [calibration EXCEPT !.age = Later(@)]
                        ELSE calibration
      /\ UNCHANGED <<rc, wire>>
  BY DEF Tick
<1>2. TypeOK
  BY DEF ArmingInv
<1>3. Armed' => Armed
  BY <1>1, <1>2, LaterAges DEF Armed, Arms, RcFresh, TypeOK
<1>4. ArmedAgeIsHistory'
  BY <1>1, <1>3 DEF ArmingInv, ArmedAgeIsHistory, HistoryNext
<1>5. NotOlderThanArming'
  <2> SUFFICES ASSUME Armed', calibration'.present, calibration'.valid
               PROVE  calibration'.age <= armedAge'
    BY DEF NotOlderThanArming
  <2>1. /\ calibration.present /\ calibration.valid
        /\ calibration'.age = Later(calibration.age)
    BY <1>1, <1>2 DEF TypeOK, Cached
  <2>2. calibration.age <= armedAge
    BY <1>3, <2>1 DEF ArmingInv, NotOlderThanArming
  <2> QED
    BY <1>1, <1>2, <2>1, <2>2, LaterAges DEF TypeOK, Cached
<1> QED
  BY <1>4, <1>5, HistoryType DEF ArmingInv

\* Every step keeps the invariant.
LEMMA NextArming == ArmingInv /\ [HistoryNext]_historyVars => ArmingInv'
<1> SUFFICES ASSUME ArmingInv, [HistoryNext]_historyVars PROVE ArmingInv'
  OBVIOUS
<1>1. CASE UNCHANGED historyVars
  BY <1>1 DEF historyVars, vars, ArmingInv, TypeOK, ArmedAgeIsHistory, NotOlderThanArming,
     Armed, Arms, RcFresh
<1>2. CASE HistoryNext
  <2>1. ASSUME NEW frame \in Frames, ReceiveRc(frame) PROVE ArmingInv'
    BY <1>2, <2>1, ReceiveRcArming
  <2>2. ASSUME NEW valid \in BOOLEAN, NEW age \in 0..Cap, ReceiveNavigation(valid, age)
        PROVE  ArmingInv'
    BY <1>2, <2>2, CallbackArming DEF ReceiveNavigation, ArmingInv, NotOlderThanArming
  <2>3. ASSUME NEW valid \in BOOLEAN, NEW mode \in Modes, NEW age \in 0..Cap,
               ReceiveCalibration(valid, mode, age)
        PROVE  ArmingInv'
    <3>1. UNCHANGED <<rc, rcAge, armedAge>>
          /\ (calibration'.valid => calibration'.age <= armedAge)
      BY <2>3 DEF ReceiveCalibration, CalibrationChecked
    <3> QED
      BY <1>2, <3>1, CallbackArming
  <2>4. ASSUME Publish PROVE ArmingInv'
    <3>1. calibration' \in {calibration, NoCommand} /\ UNCHANGED <<rc, rcAge, armedAge>>
      BY <2>4 DEF Publish
    <3> QED
      BY <1>2, <3>1, CallbackArming DEF ArmingInv, NotOlderThanArming, NoCommand
  <2>5. ASSUME Tick PROVE ArmingInv'
    BY <1>2, <2>5, TickArming
  <2> QED
    BY <1>2, <2>1, <2>2, <2>3, <2>4, <2>5 DEF HistoryNext, Next
<1> QED
  BY <1>1, <1>2

\* The arming invariant holds of the selector beside its history.
THEOREM ArmingInvariance == HistorySpec => []ArmingInv
  BY InitArming, NextArming, PTL DEF HistorySpec

\* A selected calibration command was generated during the present,
\* uninterrupted arming.
THEOREM CalibrationAlwaysOfThisArming == HistorySpec => []CalibrationOfThisArming
<1>1. ArmingInv => CalibrationOfThisArming
  <2> SUFFICES ASSUME ArmingInv, Selected.state = "Calibration"
               PROVE  calibration.age <= sinceUnarmed
    BY DEF CalibrationOfThisArming
  <2>1. \A state, autonomy : StoppedWith(state, autonomy).state = state
    BY DEF StoppedWith
  <2>2. SelectedNavigation.state # "Calibration"
    BY <2>1 DEF SelectedNavigation
  <2>3. Armed /\ SelectedCalibration.state = "Calibration"
    BY <2>1, <2>2 DEF Selected, Armed, Arms
  <2>4. calibration.present /\ calibration.valid
    BY <2>3 DEF SelectedCalibration, StoppedWith
  <2> QED
    BY <2>3, <2>4 DEF ArmingInv, ArmedAgeIsHistory, NotOlderThanArming
<1> QED
  BY <1>1, ArmingInvariance, PTL

=============================================================================
