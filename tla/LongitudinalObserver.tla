-------------------------- MODULE LongitudinalObserver --------------------------
(***************************************************************************)
(* The replaying observer of longitudinal_observer.cpp: measurements of    *)
(* the history window in source-time order, the posterior (checkpoint)     *)
(* after each of them, and one posterior, the anchor, for what was trimmed *)
(* before them.  A posterior is represented by its stamp and the sequence  *)
(* of measurements it was computed from, so that two posteriors are equal  *)
(* when they were computed by the same updates in the same order.          *)
(***************************************************************************)
EXTENDS Integers, Sequences, FiniteSets

CONSTANTS
  MaxTime,   \* bound: stamps and clock readings are 0..MaxTime
  History,   \* history_ns_
  Cap,       \* max_history_measurements
  MaxLog     \* bound: measurements of one epoch

ASSUME ObserverAssumption ==
  MaxTime \in Nat /\ History \in Nat /\ Cap \in Nat /\ Cap >= 2 /\ MaxLog \in Nat

VARIABLES measurements, checkpoints, anchor

observerVars == <<measurements, checkpoints, anchor>>

-----------------------------------------------------------------------------
Measurement == [kind : {"speed", "force"}, stamp : 0..MaxTime]

\* prior(stamp).  Without an anchor there is no bound on the stamp either.
Prior == [stamp |-> 0, log |-> <<>>]

\* update, along a list: the posterior after each of its measurements.
Replayed(point, list) ==
  [k \in 1..Len(list) |->
     [stamp |-> list[k].stamp, log |-> point.log \o SubSeq(list, 1, k)]]

\* snapshot: there is no estimate before an observation was admitted.
Estimated == IF checkpoints = <<>> THEN <<>> ELSE checkpoints[Len(checkpoints)].log

\* Older than the window, or than what is no longer kept.
TooOld(m) ==
  \/ m.stamp < anchor.stamp
  \/ measurements # <<>> /\ m.stamp < measurements[Len(measurements)].stamp - History

\* lower_bound and upper_bound of a sorted sequence.
Older(list, stamp)    == Cardinality({i \in 1..Len(list) : list[i].stamp < stamp})
NotNewer(list, stamp) == Cardinality({i \in 1..Len(list) : list[i].stamp <= stamp})

\* A measurement goes behind those with its stamp.
BeforeItsEquals(m) == Older(measurements, m.stamp)
Index(m) == NotNewer(measurements, m.stamp)

\* The history with m at its place, and the posteriors from m on replayed.
First(list, n) == SubSeq(list, 1, n)
Rest(list, n)  == SubSeq(list, n + 1, Len(list))
Inserted(m) == First(measurements, Index(m)) \o <<m>> \o Rest(measurements, Index(m))
RebuiltInPart(m) ==
  LET from == IF Index(m) = 0 THEN anchor ELSE checkpoints[Index(m)]
  IN  First(checkpoints, Index(m)) \o Replayed(from, <<m>>) \o Rest(checkpoints, Index(m))
Rebuilt(m) ==
  LET from == IF Index(m) = 0 THEN anchor ELSE checkpoints[Index(m)]
  IN  First(checkpoints, Index(m)) \o Replayed(from, <<m>> \o Rest(measurements, Index(m)))

\* What is beyond the window or the cap, whichever is more.
ExcessOfWindow(list) == Older(list, list[Len(list)].stamp - History)
Excess(list) ==
  LET old  == Older(list, list[Len(list)].stamp - History)
      over == IF Len(list) > Cap THEN Len(list) - Cap ELSE 0
  IN  IF old > over THEN old ELSE over

\* The last posterior that is trimmed becomes the anchor.
Trimmed(list, points, trim) ==
  /\ anchor' = IF trim = 0 THEN anchor ELSE points[trim]
  /\ measurements' = Rest(list, trim)
  /\ checkpoints' = Rest(points, trim)

\* receive.  A measurement that is too old, or for which a numerical failure
\* occurs anywhere in the replay, is refused and changes nothing.
Admits(m) ==
  /\ ~TooOld(m) /\ Len(Estimated) < MaxLog
  /\ Trimmed(Inserted(m), Rebuilt(m), Excess(Inserted(m)))
Refuses == UNCHANGED observerVars

\* A new observer in the place of the old one.
Discards == measurements' = <<>> /\ checkpoints' = <<>> /\ anchor' = Prior

ObserverInit == measurements = <<>> /\ checkpoints = <<>> /\ anchor = Prior

=============================================================================
