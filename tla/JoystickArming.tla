----------------------------- MODULE JoystickArming -----------------------------
(***************************************************************************)
(* What arming calibration on the RC transmitter promises, stated with a   *)
(* history of the selector: how long the arming condition has held without *)
(* interruption, which the selector itself does not record.                *)
(***************************************************************************)
EXTENDS JoystickSelector

VARIABLE sinceUnarmed   \* time since the arming condition last failed, saturating

historyVars == <<vars, sinceUnarmed>>

HistoryInit == Init /\ sinceUnarmed = 0
HistoryNext ==
  /\ Next
  /\ sinceUnarmed' = IF ~Armed \/ ~Armed' THEN 0
                     ELSE IF Tick THEN Later(sinceUnarmed) ELSE sinceUnarmed
HistorySpec == HistoryInit /\ [][HistoryNext]_historyVars
FairHistorySpec == HistorySpec /\ WF_vars(Publish) /\ WF_vars(Tick)

\* joystick_selector.cpp: "Re-arm requires a command received after this RC
\* frame" and "a delayed/replayed command generated before arming must not
\* resume actuation": a calibration command is selected only if RC has been
\* fresh, valid, unlocked and in calibration ever since it was generated.
CalibrationOfThisArming ==
  Selected.state = "Calibration" => calibration.age <= sinceUnarmed

=============================================================================
