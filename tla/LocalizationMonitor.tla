-------------------------- MODULE LocalizationMonitor --------------------------
(***************************************************************************)
(* The localization monitor (aims_racer_system/src/localization_monitor.cpp*)
(* with class AnchorHealth of localization_health.cpp and class            *)
(* CommittedAlignment of localization_alignment.hpp): one single-threaded  *)
(* node that judges NDT's anchor events and publishes a status record      *)
(* after each event and every 100 ms.                                      *)
(*                                                                         *)
(* The age windows of the last commit (1 s) and of the two sensor inputs   *)
(* are flags.  The stamp of a commit is determined by its epoch and anchor *)
(* number, and is nonzero.  Scan-matching quality is diagnostic only.      *)
(***************************************************************************)
EXTENDS Naturals

CONSTANT RecoveryCommits   \* parameter recovery_commits

VARIABLE monitor           \* health_, alignment_, inputs_ and the publication counters

NoMonitor ==
  [epoch |-> 0, retired |-> {},             \* epoch_ (0: empty), retired_epochs_
   event |-> 0, anchor |-> 0,               \* event_sequence_ (0: none), anchor_sequence_
   recent |-> FALSE,                        \* the last commit is inside both age windows
   ready |-> FALSE, recovering |-> FALSE, clockInvalid |-> FALSE, accepts |-> 0,
   aligned |-> 0,                           \* the anchor of alignment_, 0 if none
   present |-> FALSE,                       \* both inputs are fresh
   publishEpoch |-> 0, sequence |-> 0]      \* publish_epoch_, publish_sequence_

-----------------------------------------------------------------------------
(* class AnchorHealth.                                                     *)

Invalidated(m) == [m EXCEPT !.ready = FALSE, !.recovering = m.anchor # 0, !.accepts = 0]

\* An event of an unknown epoch opens it; alignment_ is cleared with it.
Opened(m, epoch) ==
  IF epoch = m.epoch THEN m
  ELSE [m EXCEPT
          !.epoch = epoch, !.retired = IF m.epoch = 0 THEN @ ELSE @ \cup {m.epoch},
          !.event = 0, !.anchor = 0, !.recent = FALSE, !.accepts = 0, !.ready = FALSE,
          !.recovering = FALSE, !.clockInvalid = FALSE, !.aligned = 0]

\* A commit that outlived its age window is noticed before the event is judged.
Timed(m) == IF m.anchor # 0 /\ ~m.recent THEN Invalidated(m) ELSE m

\* NDT rejected a scan; while it tracks, its last anchor still holds.
Held(m, e) ==
  LET h == [m EXCEPT !.accepts = 0] IN IF e.ready THEN h ELSE Invalidated(h)

ReadyAfterOneLess(m) == ~m.recovering \/ m.accepts + 2 >= RecoveryCommits
ReadyAfter(m) == ~m.recovering \/ m.accepts + 1 >= RecoveryCommits
Committed(m, e) ==
  [m EXCEPT !.anchor = e.anchor, !.recent = TRUE, !.accepts = @ + 1,
            !.ready = @ \/ ReadyAfter(m), !.recovering = @ /\ ~ReadyAfter(m)]

\* AnchorHealth::observe after the epoch: the record, and whether the event was
\* accepted.  ahead: its stamp is in this node's future; old: past the window.
Judged(m, e, ahead, old) ==
  LET refused(r)  == [state |-> r, accepted |-> FALSE]
      accepted(r) == [state |-> r, accepted |-> TRUE]
      heard == [m EXCEPT !.event = e.event]
      timed == Timed(heard)
  IN
  IF e.event <= m.event THEN refused(m)
  ELSE IF ahead THEN refused(Invalidated(heard))
  ELSE IF m.clockInvalid THEN refused(heard)
  ELSE IF ~e.committed THEN accepted(Held(timed, e))
  ELSE IF e.ready /\ e.anchor > m.anchor /\ ~old THEN accepted(Committed(timed, e))
  ELSE refused(Invalidated(timed))

\* CommittedAlignment::observe and the invalidation that follows its refusal.
Aligned(e, j) ==
  CASE j.accepted /\ e.committed /\ e.sound -> [j.state EXCEPT !.aligned = e.anchor]
    [] j.accepted /\ e.committed /\ ~e.sound -> [Invalidated(j.state) EXCEPT !.aligned = 0]
    [] OTHER -> [j.state EXCEPT !.aligned = IF @ = j.state.anchor THEN @ ELSE 0]

Observed(e, ahead, old) ==
  IF e.epoch \in monitor.retired THEN monitor
  ELSE Aligned(e, Judged(Opened(monitor, e.epoch), e, ahead, old))

-----------------------------------------------------------------------------
(* publish_status, which every event and every tick ends with.             *)

\* AnchorHealth::evaluate.
Fresh(m) == m.anchor # 0 /\ m.recent /\ m.present /\ ~m.clockInvalid
Evaluated(m) == IF Fresh(m) THEN m ELSE Invalidated(m)

Sequenced(m) ==
  [m EXCEPT !.publishEpoch = m.epoch,
            !.sequence = IF m.publishEpoch = m.epoch THEN @ + 1 ELSE 1]

Published(m) == Sequenced(Evaluated(m))

\* The message of a monitor that has just published.
Status(m) ==
  LET aligned == m.aligned # 0 /\ m.aligned = m.anchor IN
  [epoch |-> m.epoch, sequence |-> m.sequence, anchor |-> m.anchor,
   ready |-> m.ready /\ Fresh(m) /\ aligned, aligned |-> aligned]

-----------------------------------------------------------------------------
(* The callbacks.                                                          *)

Anchor(e, ahead, old) == monitor' = Published(Observed(e, ahead, old))

\* An event that violates the protocol: both classes refuse it.
MalformedAnchor == monitor' = Published([Invalidated(monitor) EXCEPT !.aligned = 0])

MonitorTick == monitor' = Published(monitor)

InputsArrive == ~monitor.present /\ monitor' = [monitor EXCEPT !.present = TRUE]

\* remember_input refuses a stamp ahead of the clock or behind its predecessor.
BadInput == monitor' = [Invalidated(monitor) EXCEPT !.present = FALSE]

InputsLapse == monitor.present /\ monitor' = [monitor EXCEPT !.present = FALSE]
CommitAges == monitor.recent /\ monitor' = [monitor EXCEPT !.recent = FALSE]

\* synchronize_clock sees the ROS clock go back; its caller's work follows as
\* its own action.
RewoundKeepingClock == [Invalidated(monitor) EXCEPT !.aligned = 0, !.present = FALSE]
Rewound ==
  [Invalidated(monitor) EXCEPT !.clockInvalid = TRUE, !.aligned = 0, !.present = FALSE]
MonitorRewind == monitor' = Rewound

\* The process starts anew and keeps nothing.
MonitorRestart == monitor # NoMonitor /\ monitor' = NoMonitor

=============================================================================
