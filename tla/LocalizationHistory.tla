-------------------------- MODULE LocalizationHistory --------------------------
(***************************************************************************)
(* LocalizationChain with a record of what the running monitor process has *)
(* published and what the receiver has left, which the code does not keep: *)
(* the protection semantics that docs/localization_monitor.md lists are    *)
(* about several messages.                                                 *)
(***************************************************************************)
EXTENDS LocalizationChain

VARIABLES
  ready,     \* the anchor of this monitor's last ready status in its epoch, or 0
  lost,      \* a status that was not ready came after it
  rewound,   \* epochs in which this monitor saw the clock go back
  left       \* epochs the receiver left since its last reset

history == <<ready, lost, rewound, left>>
historyVars == <<vars, history>>

\* A monitor process publishes a status.
Publication ==
  /\ monitor' # NoMonitor
  /\ <<monitor'.publishEpoch, monitor'.sequence>> # <<monitor.publishEpoch, monitor.sequence>>
SameEpoch == monitor'.epoch = monitor.publishEpoch

ReadyNow == Status(monitor').ready

RecordsReady ==
  IF Publication THEN
    /\ ready' = IF ReadyNow THEN monitor'.anchor ELSE IF SameEpoch THEN ready ELSE 0
    /\ lost'  = (~ReadyNow /\ ready' # 0)
  ELSE IF monitor' = NoMonitor THEN ready' = 0 /\ lost' = FALSE
  ELSE UNCHANGED <<ready, lost>>

RecordsRewind ==
  rewound' = IF monitor' = NoMonitor THEN {}
             ELSE IF monitor' = Rewound /\ monitor' # monitor THEN rewound \cup {monitor.epoch}
             ELSE rewound

RecordsLeft ==
  left' = IF receiver' = NoReceiver THEN {}
          ELSE IF receiver'.epoch # receiver.epoch THEN left \cup {receiver.epoch}
          ELSE left

HistoryInit == Init /\ ready = 0 /\ lost = FALSE /\ rewound = {} /\ left = {}
HistoryNext == Next /\ RecordsReady /\ RecordsRewind /\ RecordsLeft
HistorySpec == HistoryInit /\ [][HistoryNext]_historyVars

-----------------------------------------------------------------------------
(* Properties.                                                             *)

\* docs/localization_monitor.md: "recovery after invalidation requires three
\* valid commits".  Once a running monitor has reported the loss of an epoch it
\* had reported ready, it reports ready again only RecoveryCommits anchors later,
\* however losses, rejections and commits follow one another.
RecoveryNeedsCommits ==
  [][Publication /\ SameEpoch /\ lost /\ ReadyNow
       => monitor'.anchor >= ready + RecoveryCommits]_historyVars

\* "Time reversal requires a new epoch": a monitor that has seen the ROS clock go
\* back never again reports the epoch of that moment ready, whatever NDT sends.
RewindNeedsNewEpoch ==
  [][Publication /\ ReadyNow => monitor'.epoch \notin rewound]_historyVars

\* health.hpp, retired_: the runtime never returns to an epoch it has left, even
\* when a restarted monitor replays the events of old epochs.  MpccRuntime's
\* Observed rests on it: a change of epoch is always to a new one.
LeftEpochsStayLeft == receiver.epoch \notin left

=============================================================================
