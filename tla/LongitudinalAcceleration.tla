------------------------ MODULE LongitudinalAcceleration ------------------------
(***************************************************************************)
(* The node around the observer, longitudinal_acceleration.cpp.  Its       *)
(* callbacks run on one executor thread.  Every callback first reads the   *)
(* ROS clock, which may be anywhere; a reading before the last one         *)
(* discards the observer.  An IMU callback reads it once more before it    *)
(* publishes.  A callback is here a step per clock reading, and one for    *)
(* what follows.                                                           *)
(***************************************************************************)
EXTENDS LongitudinalObserver

VARIABLES
  callback,    \* the callback that is running, and how far
  lastClock,   \* last_clock_ns_, 0 before the first callback
  haveWheel,   \* have_wheel_
  haveForce,   \* have_force_
  estimate     \* last_estimate_: its stamp, and what it was computed from

flags    == <<haveWheel, haveForce, estimate>>
nodeVars == <<observerVars, callback, lastClock, flags>>

-----------------------------------------------------------------------------
initialized == haveWheel /\ haveForce

\* reset_state.
ResetsObserver == Discards /\ estimate' = Prior /\ UNCHANGED <<haveWheel, haveForce>>
Resets == Discards /\ estimate' = Prior /\ haveWheel' = FALSE /\ haveForce' = FALSE

\* observe_clock.
ObservesClock(now) ==
  /\ lastClock' = now
  /\ IF now < lastClock THEN Resets ELSE UNCHANGED <<observerVars, flags>>

\* The start of on_wheel and on_imu, and the whole of publish_status.
Called ==
  /\ callback = "none"
  /\ \E now \in 0..MaxTime : ObservesClock(now)
  /\ callback' \in {"wheel", "imu", "none"}

\* source_ns refuses stamps of the future; the rest of what a message may be
\* refused for is left open.
Arrives(kind) ==
  \E m \in Measurement : m.kind = kind /\ m.stamp <= lastClock /\ Admits(m)

OnWheel ==
  /\ callback = "wheel" /\ callback' = "none"
  /\ \/ Arrives("speed") /\ haveWheel' = TRUE
     \/ Refuses /\ UNCHANGED haveWheel
  /\ UNCHANGED <<lastClock, haveForce, estimate>>

\* An estimate is published unless the message is malformed.
OnImu ==
  /\ callback = "imu"
  /\ \/ Arrives("force") /\ haveForce' = TRUE /\ callback' = "publish"
     \/ Refuses /\ UNCHANGED haveForce /\ callback' \in {"publish", "none"}
  /\ UNCHANGED <<lastClock, haveWheel, estimate>>

\* publish_estimate up to its clock reading.
ReadsAgain ==
  /\ callback = "publish"
  /\ IF initialized
     THEN \E now \in 0..MaxTime : ObservesClock(now) /\ callback' = "snapshot"
     ELSE callback' = "none" /\ UNCHANGED <<observerVars, lastClock, flags>>

\* snapshot throws without a checkpoint, and predicts only forward.
SnapshotThrows == checkpoints = <<>> \/ lastClock < checkpoints[Len(checkpoints)].stamp
Publishes ==
  /\ callback = "snapshot" /\ callback' = "none"
  /\ estimate' = IF initialized /\ ~SnapshotThrows
                 THEN [stamp |-> lastClock, log |-> Estimated] ELSE estimate
  /\ UNCHANGED <<observerVars, lastClock, haveWheel, haveForce>>

AccelerationInit ==
  /\ ObserverInit /\ estimate = Prior
  /\ callback = "none" /\ lastClock = 0 /\ haveWheel = FALSE /\ haveForce = FALSE

AccelerationNext == Called \/ OnWheel \/ OnImu \/ ReadsAgain \/ Publishes

AccelerationSpec == AccelerationInit /\ [][AccelerationNext]_nodeVars

-----------------------------------------------------------------------------
\* Type invariant.
AccelerationTypeOK ==
  /\ measurements \in Seq(Measurement) /\ Len(measurements) <= Cap
  /\ Len(checkpoints) = Len(measurements)
  /\ \A c \in {anchor} \union {checkpoints[i] : i \in 1..Len(checkpoints)} :
       c.stamp \in 0..MaxTime /\ c.log \in Seq(Measurement)
  /\ callback \in {"none", "wheel", "imu", "publish", "snapshot"}
  /\ lastClock \in 0..MaxTime /\ {haveWheel, haveForce} \subseteq BOOLEAN

\* Every kept posterior is what the anchor and the measurements up to it give,
\* in their present order: a late measurement leaves none of them stale
\* (receive, the replay of the suffix and the trimming).
CheckpointsReplay ==
  \A i \in 1..Len(checkpoints) :
    /\ checkpoints[i].stamp = measurements[i].stamp
    /\ checkpoints[i].log = anchor.log \o SubSeq(measurements, 1, i)

\* The published estimate comes from measurements of both sensors since the
\* clock last ran backwards, and is never asked of a time before them, which
\* would make the snapshot throw (initialized, observe_clock, source_ns).
InitializedByBoth ==
  initialized =>
    /\ ~SnapshotThrows
    /\ \A kind \in {"speed", "force"} : \E i \in 1..Len(Estimated) : Estimated[i].kind = kind

\* The observer is the filter over the source-time log.
SourceLog == INSTANCE SourceTimeLog WITH log <- Estimated
ImplementsLog == SourceLog!Spec

=============================================================================
