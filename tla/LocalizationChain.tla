--------------------------- MODULE LocalizationChain ---------------------------
(***************************************************************************)
(* NDT, the localization monitor and the receiver in the MPCC runtime,     *)
(* joined by their topics:                                                 *)
(*                                                                         *)
(*   NDT -- anchor_status --> monitor -- status, map_sha256 --> receiver   *)
(*                                                                         *)
(* anchor_status is reliable and transient local with a history of         *)
(* History events: a restarted monitor gets them again.  status is         *)
(* reliable and keeps its last Depth messages: a receiver that lags loses  *)
(* the oldest.  map_sha256 is transient local, published once per monitor. *)
(* Each of the three nodes notices a ROS clock that goes back by itself.   *)
(***************************************************************************)
EXTENDS LocalizationMonitor, LocalizationHealth, Sequences

CONSTANTS
  History,       \* depth of NDT's anchor_status publisher (10)
  Depth,         \* depth of the status topic (10)
  MaxEvents,     \* bound: anchor events NDT publishes
  MaxSequence,   \* bound: no periodic status past this many in an epoch
  MaxFaults      \* bound: malformed messages, bad inputs, rewinds and restarts

ASSUME ChainAssumption ==
  /\ RecoveryCommits \in Nat \ {0} /\ History \in Nat \ {0} /\ Depth \in Nat \ {0}
  /\ MaxEpoch \in Nat /\ MaxEvents \in Nat /\ MaxSequence \in Nat /\ MaxFaults \in Nat

VARIABLES
  ndt,         \* NDT's trusted-anchor state
  log,         \* every event NDT has published
  read,        \* how many of them the monitor has taken
  status,      \* the status messages the receiver has not taken
  identity,    \* identity_ is the bundle's map
  latched,     \* a map_sha256 sample the receiver has not taken
  faults       \* the environment's misfortunes so far

vars == <<monitor, receiver, ndt, log, read, status, identity, latched, faults>>
\* NDT, the monitor and the topic between them; what the receiver takes.
upstream   == <<ndt, log, read>>
downstream == <<status, receiver, identity, latched>>

-----------------------------------------------------------------------------
(* NDT (dependencies/ndt-trusted-anchor.patch).                            *)

Misfortune == faults < MaxFaults /\ faults' = faults + 1

\* publishTrustedAnchorStatus; sound: the transform in it is finite and unit.
Event(n, committed, sound) ==
  [epoch |-> n.epoch, event |-> n.event, anchor |-> n.anchor, committed |-> committed,
   ready |-> n.anchor # 0, sound |-> sound]

Publishes(n, committed, sound) ==
  /\ Len(log) < MaxEvents
  /\ ndt' = n
  /\ log' = Append(log, Event(n, committed, sound))
  /\ UNCHANGED <<monitor, read, downstream>>

\* resetTrustedAnchor: for an initial pose, a scan behind the last one, the
\* first cloud after a clock jump, a lifecycle transition.  Without a pose no
\* event follows before the next reset.
NdtReset ==
  /\ ndt.epoch < MaxEpoch
  /\ Publishes([epoch |-> ndt.epoch + 1, event |-> 1, anchor |-> 0, jumped |-> FALSE],
               FALSE, TRUE)
  /\ UNCHANGED faults

\* The clock jump callback moves to the next epoch at once; the anchor stays
\* until the next cloud.
NdtClockJump ==
  /\ 0 < ndt.epoch /\ ndt.epoch < MaxEpoch
  /\ ndt' = [ndt EXCEPT !.epoch = @ + 1, !.jumped = TRUE]
  /\ UNCHANGED <<monitor, log, read, downstream, faults>>

\* trustedCloudReceived rejects the scan (the handler that the jump callback
\* interrupted may still do so).
NdtRejects ==
  /\ 0 < ndt.epoch
  /\ Publishes([ndt EXCEPT !.event = @ + 1], FALSE, TRUE)
  /\ UNCHANGED faults

\* A commit, once the candidate is confirmed, if no jump came between.
Commits(sound) ==
  /\ 0 < ndt.epoch /\ ~ndt.jumped
  /\ Publishes([ndt EXCEPT !.event = @ + 1, !.anchor = @ + 1], TRUE, sound)
NdtCommits        == Commits(TRUE) /\ UNCHANGED faults
NdtCommitsUnsound == Commits(FALSE) /\ Misfortune

-----------------------------------------------------------------------------
(* The monitor on its topics.                                              *)

\* A full topic drops its oldest message.
KeptAll(topic) == topic
Kept(topic) == IF Len(topic) > Depth THEN Tail(topic) ELSE topic
Sends == status' = Kept(Append(status, Status(monitor')))

AnchorTaken(ahead, old) ==
  /\ read < Len(log)
  /\ Anchor(log[read + 1], ahead, old) /\ Sends
  /\ read' = read + 1
  /\ UNCHANGED <<ndt, log, receiver, identity, latched>>
\* Only a commit's age is looked at.
AnchorArrives ==
  /\ read < Len(log)
  /\ \E old \in BOOLEAN :
       (old => log[read + 1].committed) /\ AnchorTaken(FALSE, old)
  /\ UNCHANGED faults
FutureAnchorArrives == AnchorTaken(TRUE, FALSE) /\ Misfortune

MalformedAnchorArrives ==
  /\ Misfortune /\ MalformedAnchor /\ Sends
  /\ UNCHANGED <<upstream, receiver, identity, latched>>

Ticks ==
  /\ monitor.sequence < MaxSequence \/ monitor.publishEpoch # monitor.epoch
  /\ MonitorTick /\ Sends
  /\ UNCHANGED <<upstream, receiver, identity, latched, faults>>

MonitorInputs ==
  /\ InputsArrive \/ InputsLapse \/ CommitAges
  /\ UNCHANGED <<upstream, downstream, faults>>

MonitorUpset ==
  /\ Misfortune
  /\ BadInput \/ MonitorRewind
  /\ UNCHANGED <<upstream, downstream>>

\* The new process gets the retained events and publishes the map's hash.
Restarts ==
  /\ Misfortune /\ MonitorRestart
  /\ read' = IF Len(log) > History THEN Len(log) - History ELSE 0
  /\ latched' = TRUE
  /\ UNCHANGED <<ndt, log, status, receiver, identity>>

-----------------------------------------------------------------------------
(* The receiver on its topics.                                             *)

\* The anchor of a status is young or not; anchor 0 has stamp 0.
StatusTaken ==
  /\ status # <<>>
  /\ \E young \in BOOLEAN :
       (young => Head(status).anchor > 0) /\ StatusArrives(Head(status), young)
  /\ status' = Tail(status)
  /\ UNCHANGED <<monitor, upstream, identity, latched, faults>>

StatusRefused ==
  /\ Misfortune /\ StatusOfAnotherMap
  /\ UNCHANGED <<monitor, upstream, status, identity, latched>>

ReceiverAges ==
  /\ HeartbeatLapses \/ AnchorAges
  /\ UNCHANGED <<monitor, upstream, status, identity, latched, faults>>

IdentityTaken ==
  /\ latched /\ latched' = FALSE
  /\ identity' = TRUE
  /\ UNCHANGED <<monitor, upstream, status, receiver, faults>>

\* reset_clock_locked, as far as localization goes.
ReceiverClockBack ==
  /\ Misfortune /\ ReceiverReset
  /\ identity' = FALSE
  /\ UNCHANGED <<monitor, upstream, status, latched>>

-----------------------------------------------------------------------------
Init ==
  /\ monitor = NoMonitor /\ receiver = NoReceiver
  /\ ndt = [epoch |-> 0, event |-> 0, anchor |-> 0, jumped |-> FALSE]
  /\ log = <<>> /\ read = 0 /\ status = <<>>
  /\ identity = FALSE /\ latched = TRUE /\ faults = 0

Ndt ==
  NdtReset \/ NdtClockJump \/ NdtRejects \/ NdtCommits \/ NdtCommitsUnsound
Monitor ==
  \/ AnchorArrives \/ FutureAnchorArrives \/ MalformedAnchorArrives
  \/ Ticks \/ MonitorInputs \/ MonitorUpset \/ Restarts
Receiver ==
  StatusTaken \/ StatusRefused \/ ReceiverAges \/ IdentityTaken \/ ReceiverClockBack

Next == Ndt \/ Monitor \/ Receiver

Spec == Init /\ [][Next]_vars

\* Reliable topics deliver, executors run their callbacks, the monitor's timer
\* fires and NDT goes on committing scans; nothing makes a process restart.
Fairness ==
  /\ WF_vars(Ticks) /\ WF_vars(AnchorArrives) /\ WF_vars(NdtCommits)
  /\ WF_vars(StatusTaken) /\ WF_vars(IdentityTaken)
FairSpec == Spec /\ Fairness

-----------------------------------------------------------------------------
(* Properties.                                                             *)

Epochs == 0..MaxEpoch
Events ==
  [epoch : Epochs, event : Nat, anchor : Nat, committed : BOOLEAN, ready : BOOLEAN,
   sound : BOOLEAN]
Statuses ==
  [epoch : Epochs, sequence : Nat, anchor : Nat, ready : BOOLEAN, aligned : BOOLEAN]
Monitors ==
  [epoch : Epochs, retired : SUBSET (1..MaxEpoch), event : Nat, anchor : Nat,
   recent : BOOLEAN, ready : BOOLEAN, recovering : BOOLEAN, clockInvalid : BOOLEAN,
   accepts : Nat, aligned : Nat, present : BOOLEAN, publishEpoch : Epochs, sequence : Nat]
Receivers ==
  [epoch : Epochs, retired : SUBSET (1..MaxEpoch), heard : Int, anchor : Int, loss : Int,
   ready : BOOLEAN, qualified : BOOLEAN, heartbeat : BOOLEAN, recent : BOOLEAN]

\* Types of the state; queues stay within their depth.
TypeOK ==
  /\ monitor \in Monitors /\ receiver \in Receivers
  /\ ndt \in [epoch : Epochs, event : Nat, anchor : Nat, jumped : BOOLEAN]
  /\ log \in Seq(Events) /\ read \in 0..Len(log)
  /\ status \in Seq(Statuses) /\ Len(status) <= Depth
  /\ identity \in BOOLEAN /\ latched \in BOOLEAN /\ faults \in Nat

\* NDT committed this anchor with a sound transform.
AnchoredIn(events, epoch, anchor) ==
  \E i \in 1..Len(events) :
    /\ events[i].epoch = epoch /\ events[i].anchor = anchor
    /\ events[i].committed /\ events[i].sound
Anchored(epoch, anchor) == AnchoredIn(log, epoch, anchor)

\* health.hpp and localization_alignment.hpp ("the authoritative anchor packet
\* is the only source of this transform"): the runtime never holds a qualified
\* alignment that NDT did not commit under the epoch and anchor it names,
\* through restarts, lost messages, rejected commits and clock rollbacks.
QualifiedIsAnchored == receiver.qualified => Anchored(receiver.epoch, receiver.anchor)

\* reset_clock_locked says "fresh inputs and explicit re-enable required" after
\* the clock went back, and clears identity_ with the other inputs: the map's
\* identity, which an enable needs, is learned again.  It is not: map_sha256 is
\* published once per monitor process.
ClockResetRecovers == ~identity ~> identity

=============================================================================
