----------------------------- MODULE CommandChain -----------------------------
(***************************************************************************)
(* The command loop of the vehicle: the RC selector reports the authority  *)
(* it grants and forwards the controller's commands; the controller hears  *)
(* the report and commands.                                                *)
(*                                                                         *)
(*   selector -- /control/autonomy_speed_enabled --> controller            *)
(*   controller -- /drive --> selector -- /vesc/command --> vehicle        *)
(*                                                                         *)
(* The selector is JoystickSelector, whole, with the calibration switch    *)
(* off.  The controller is DriveAuthority, which MpccRuntime implements.   *)
(* The unit of time is the selector's publication period.  The report is   *)
(* reliable and keeps its last Depth messages; /drive is best effort and   *)
(* keeps one.                                                              *)
(***************************************************************************)
EXTENDS JoystickSelector, Sequences

CONSTANTS
  Depth,      \* depth of the report's topic (10)
  MaxDelay,   \* bound: periods a report may wait for the controller
  MaxRuns     \* bound: runs the controller may begin

ASSUME ChainAssumption ==
  /\ Depth \in Nat /\ MaxDelay \in Nat /\ MaxRuns \in Nat /\ MaxDelay < Depth

VARIABLES
  granted, enabled, motion,  \* the controller
  reports,    \* reports the controller has not heard, with their ages
  drive,      \* the /drive sample the selector has not taken
  due,        \* the publication timer has yet to fire in this period
  run,        \* runs begun; the number of the current or last one
  cachedRun,  \* the run that generated the selector's cached command, 0 if none moves
  since,      \* per run: periods since a withdrawal was first reported in it
  withheld    \* periods since the transmitter last granted autonomy

Controller == INSTANCE DriveAuthority

selector  == <<rc, rcAge, armedAge, navigation, calibration, wire>>
control   == <<granted, enabled, motion, run>>
topics    == <<reports, drive>>
records   == <<cachedRun, since, withheld>>
chainVars == <<selector, control, topics, due, records>>

-----------------------------------------------------------------------------
\* How long motion may outlive the report of a withdrawal.
Reaction == MaxDelay + NavTimeout

Runs    == 1..MaxRuns
NoDrive == [present |-> FALSE, run |-> 0, age |-> 0]
Unreported == 0
Counted(n, cap) == IF n < cap THEN n + 1 ELSE cap

\* The transmitter grants autonomy now.
Grants == Permitted /\ Autonomy

\* The calibration switch is off, a lock hides the other switches, and duty is
\* to the chain what current is.
OperatorFrames ==
  {f \in Frames : /\ ~f.calibrating /\ f.mode # "duty"
                  /\ f.valid /\ f.locked => f.navigating /\ f.mode = "speed"}

\* withheld follows every step; time is that of ChainTick.
Withholds(elapsed) ==
  withheld' = IF Grants' THEN 0 ELSE IF elapsed THEN Counted(withheld, MaxDelay + 2) ELSE withheld

-----------------------------------------------------------------------------
(* The selector on its topics.                                             *)

OperatorActs(frame) ==
  /\ ReceiveRc(frame)
  /\ Withholds(FALSE)
  /\ UNCHANGED <<control, topics, due, cachedRun, since>>

TakesDrive ==
  /\ drive.present
  /\ ReceiveNavigation(TRUE, drive.age)
  /\ drive' = NoDrive /\ cachedRun' = drive.run
  /\ UNCHANGED <<control, reports, due, since, withheld>>

\* One publication per period: the report, then the command.
Kept(topic) == IF Len(topic) > Depth THEN Tail(topic) ELSE topic
Reports ==
  /\ due /\ due' = FALSE
  /\ Publish
  /\ reports' = Kept(Append(reports, [data |-> wire'.autonomy, age |-> 0]))
  /\ since' = IF ~wire'.autonomy /\ enabled /\ since[run] = Unreported
              THEN [since EXCEPT ![run] = 1] ELSE since
  /\ UNCHANGED <<control, drive, cachedRun, withheld>>

-----------------------------------------------------------------------------
(* The controller on its topics.                                           *)

Hears ==
  /\ reports # <<>>
  /\ Controller!Hear(Head(reports).data)
  /\ reports' = Tail(reports)
  /\ UNCHANGED <<selector, run, drive, due, records>>

Starts ==
  /\ ~enabled /\ run < MaxRuns
  /\ Controller!Start /\ run' = run + 1
  /\ UNCHANGED <<selector, topics, due, records>>

Ends ==
  /\ Controller!Stop \/ Controller!Forget
  /\ UNCHANGED <<selector, run, topics, due, records>>

\* A command replaces the sample that was waiting, or is lost.
Commands(moves) ==
  /\ Controller!Command(moves)
  /\ drive' \in {drive, [present |-> TRUE, run |-> IF moves THEN run ELSE 0, age |-> 0]}
  /\ UNCHANGED <<selector, run, reports, due, records>>

-----------------------------------------------------------------------------
\* A period passes once the timer has fired; no report waits past MaxDelay.
Passes ==
  /\ ~due /\ due' = TRUE
  /\ \A i \in 1..Len(reports) : reports[i].age < MaxDelay
  /\ Tick
  /\ reports' = [i \in 1..Len(reports) |-> [reports[i] EXCEPT !.age = @ + 1]]
  /\ drive' = IF drive.present THEN [drive EXCEPT !.age = Later(@)] ELSE drive
  /\ since' = [r \in Runs |-> IF since[r] = Unreported THEN Unreported
                              ELSE Counted(since[r], Reaction + 2)]
  /\ Withholds(TRUE)
  /\ UNCHANGED <<control, cachedRun>>

ChainInit ==
  /\ Init /\ Controller!Idle
  /\ reports = <<>> /\ drive = NoDrive /\ due = TRUE /\ run = 0
  /\ cachedRun = 0 /\ since = [r \in Runs |-> Unreported] /\ withheld = MaxDelay + 2

ChainNext ==
  \/ \E frame \in OperatorFrames : OperatorActs(frame)
  \/ TakesDrive \/ Reports
  \/ Hears \/ Starts \/ Ends
  \/ \E moves \in BOOLEAN : Commands(moves)
  \/ Passes

ChainSpec == ChainInit /\ [][ChainNext]_chainVars

-----------------------------------------------------------------------------
(* Properties.                                                             *)

\* Types of the state the chain adds; the report's topic stays within its depth.
ChainTypeOK ==
  /\ TypeOK
  /\ granted \in BOOLEAN /\ enabled \in BOOLEAN /\ motion \in BOOLEAN /\ due \in BOOLEAN
  /\ reports \in Seq([data : BOOLEAN, age : 0..MaxDelay]) /\ Len(reports) <= Depth
  /\ drive \in [present : BOOLEAN, run : 0..MaxRuns, age : 0..Cap]
  /\ run \in 0..MaxRuns /\ cachedRun \in 0..MaxRuns
  /\ since \in [Runs -> 0..(Reaction + 2)] /\ withheld \in 0..(MaxDelay + 2)

\* The selector forwards motion of a run no longer than Reaction after it first
\* reported a withdrawal in that run, although its command cache survives a
\* lock and the controller may go on for a while without having heard.
WithdrawnMotionEnds ==
  Selected.state = "Navigation" /\ cachedRun > 0 => since[cachedRun] <= Reaction + 1

\* No run goes on while the transmitter has withheld autonomy for a publication
\* period and the delay of the report: an interruption that goes unreported,
\* because it falls between two publications, is shorter than that.
ControllerFollowsOperator == enabled => withheld <= MaxDelay + 1

=============================================================================
