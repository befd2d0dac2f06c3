--------------------------- MODULE LocalizationProofs ---------------------------
(***************************************************************************)
(* Theorems about the localization chain, for every number of recovery     *)
(* commits, every depth of the topics and every bound.                     *)
(*                                                                         *)
(* QualifiedIsAnchored is carried through three places: whatever alignment *)
(* the monitor holds, whatever a queued status claims and whatever the     *)
(* receiver qualified goes back to an event in NDT's log.  The promises    *)
(* about several messages rest on what the records retire (the receiver's  *)
(* for the epochs it left, the monitor's for those whose clock went back)  *)
(* and on a debt: after a loss the monitor is behind its last ready anchor *)
(* by at most the commits it has still to take (Owes).                     *)
(***************************************************************************)
EXTENDS LocalizationHistory, TLAPS

-----------------------------------------------------------------------------
(* The inductive invariants.                                               *)

\* Readiness comes with an alignment of the last anchor.
ReadyIsAligned(m) == m.ready => m.aligned = m.anchor /\ m.anchor # 0

\* After anchor r was reported ready, m is either still ready, k anchors on, or
\* recovering: each commit it has counted since the loss was a new anchor.
Owes(m, r, k) ==
  r # 0 => \/ m.ready /\ r + k <= m.anchor
           \/ ~m.ready /\ m.recovering /\ r + m.accepts <= m.anchor

\* The monitor's alignment is an anchor of its epoch, which it has not retired.
MonitorInv ==
  /\ monitor.epoch \notin monitor.retired /\ monitor.publishEpoch = monitor.epoch
  /\ ReadyIsAligned(monitor)
  /\ monitor.aligned # 0 => Anchored(monitor.epoch, monitor.aligned)
LogInv == \A i \in 1..Len(log) : log[i].epoch # 0
\* A status on its way that claims an alignment names an anchor of NDT's.
StatusInv ==
  \A i \in 1..Len(status) : status[i].aligned => Anchored(status[i].epoch, status[i].anchor)
ChainInv == TypeOK /\ MonitorInv /\ LogInv /\ StatusInv /\ QualifiedIsAnchored

\* The receiver has retired what it left, but for the empty epoch.
LeftInv ==
  /\ receiver.epoch \notin receiver.retired
  /\ left \subseteq receiver.retired \cup {0}
  /\ receiver.epoch = 0 => left = {}
\* An epoch whose clock went back is over: it is invalid, or the monitor left it.
RewoundInv ==
  \A e \in rewound :
    \/ e = monitor.epoch /\ monitor.clockInvalid
    \/ e \in monitor.retired
    \/ e = 0 /\ monitor.epoch # 0
\* The debt, and the monitor's readiness after a reported loss.
RecoveryInv ==
  /\ ready \in Nat /\ lost \in BOOLEAN
  /\ Owes(monitor, ready, 0)
  /\ lost => ready # 0 /\ ~monitor.ready
HistoryInv == ChainInv /\ LeftInv /\ RewoundInv /\ RecoveryInv

-----------------------------------------------------------------------------
(* What the monitor's operators leave of a record.                         *)

\* A part of a handler touches neither the epoch nor the counters.
SameRun(n, m) ==
  /\ n.epoch = m.epoch /\ n.retired = m.retired
  /\ n.publishEpoch = m.publishEpoch /\ n.sequence = m.sequence
\* Whatever m owes, n owes at most: no operator gains readiness for nothing.
Owing(n, m) == \A r \in Nat, k \in 0..RecoveryCommits : Owes(m, r, k) => Owes(n, r, k)

\* Invalidation takes the readiness and restarts the count of commits.
LEMMA InvalidatedIs ==
  ASSUME NEW m \in Monitors
  PROVE  LET n == Invalidated(m) IN
         /\ n \in Monitors /\ SameRun(n, m)
         /\ n.anchor = m.anchor /\ n.aligned = m.aligned /\ n.event = m.event
         /\ n.recent = m.recent /\ n.present = m.present
         /\ n.clockInvalid = m.clockInvalid
         /\ n.ready = FALSE /\ n.recovering = (m.anchor # 0) /\ n.accepts = 0
<1> DEFINE n == Invalidated(m)
<1>1. n \in Monitors
  BY DEF Invalidated, Monitors
<1> QED
  BY <1>1 DEF Invalidated, Monitors, SameRun

\* An invalidated monitor has counted nothing, so it owes no more than before.
LEMMA InvalidatedOwes == ASSUME NEW m \in Monitors PROVE Owing(Invalidated(m), m)
<1> DEFINE n == Invalidated(m)
<1>1. SUFFICES ASSUME NEW r \in Nat, NEW k \in 0..RecoveryCommits, Owes(m, r, k), r # 0
              PROVE  ~n.ready /\ n.recovering /\ r + n.accepts <= n.anchor
  BY DEF Owing, Owes
<1>2. n.ready = FALSE /\ n.recovering = (m.anchor # 0) /\ n.accepts = 0 /\ n.anchor = m.anchor
  BY InvalidatedIs
<1>3. m.anchor \in Nat /\ m.accepts \in Nat /\ k \in Nat
  BY ChainAssumption DEF Monitors
<1>4. r <= m.anchor
  BY <1>1, <1>3 DEF Owes
<1> HIDE DEF n
<1>5. m.anchor # 0 /\ r + 0 <= m.anchor
  BY <1>1, <1>3, <1>4
<1> QED
  BY <1>2, <1>5

\* A new epoch retires the old one and starts without anchor and alignment.
LEMMA OpenedIs ==
  ASSUME NEW m \in Monitors, NEW epoch \in Epochs, epoch # m.epoch
  PROVE  LET n == Opened(m, epoch) IN
         /\ n \in Monitors /\ n.epoch = epoch
         /\ n.retired = IF m.epoch = 0 THEN m.retired ELSE m.retired \cup {m.epoch}
         /\ n.publishEpoch = m.publishEpoch /\ n.sequence = m.sequence
         /\ n.aligned = 0 /\ ~n.ready
<1>1. m.epoch = 0 \/ m.epoch \in 1..MaxEpoch
  BY ChainAssumption DEF Monitors, Epochs
<1>2. Opened(m, epoch) \in Monitors
  BY <1>1 DEF Opened, Monitors
<1> QED
  BY <1>2 DEF Opened, Monitors

\* Counting an event leaves the health alone.
LEMMA HeardIs ==
  ASSUME NEW m \in Monitors, NEW event \in Nat
  PROVE  LET n == [m EXCEPT !.event = event] IN
         /\ n \in Monitors /\ SameRun(n, m)
         /\ n.anchor = m.anchor /\ n.aligned = m.aligned /\ n.clockInvalid = m.clockInvalid
         /\ n.ready = m.ready /\ Owing(n, m)
<1> DEFINE n == [m EXCEPT !.event = event]
<1>1. n \in Monitors
  BY DEF Monitors
<1>2. /\ n.anchor = m.anchor /\ n.ready = m.ready /\ n.recovering = m.recovering
      /\ n.accepts = m.accepts
  BY DEF Monitors
<1>3. Owing(n, m)
  <2> HIDE DEF n
  <2> QED
    BY <1>2 DEF Owing, Owes
<1> QED
  BY <1>1, <1>2, <1>3 DEF Monitors, SameRun

\* A refusal keeps the anchor and never makes the monitor ready.
Refusal(n, m) ==
  /\ n \in Monitors /\ SameRun(n, m)
  /\ n.anchor = m.anchor /\ n.aligned = m.aligned /\ n.clockInvalid = m.clockInvalid
  /\ n.ready => m.ready
  /\ Owing(n, m)

\* Two refusals in a row are one.
LEMMA RefusalsCompose ==
  ASSUME NEW m, NEW n, NEW o, Refusal(n, m), Refusal(o, n)
  PROVE  Refusal(o, m)
  BY DEF Refusal, SameRun, Owing

\* Invalidation is a refusal.
LEMMA InvalidatedRefuses == ASSUME NEW m \in Monitors PROVE Refusal(Invalidated(m), m)
  BY InvalidatedIs, InvalidatedOwes DEF Refusal

\* So is doing nothing.
LEMMA NothingRefuses == ASSUME NEW m \in Monitors PROVE Refusal(m, m)
  BY DEF Refusal, SameRun, Owing

\* So is noticing that a commit has outlived its window.
LEMMA TimedRefuses == ASSUME NEW m \in Monitors PROVE Refusal(Timed(m), m)
  BY InvalidatedRefuses, NothingRefuses DEF Timed

\* So is a scan NDT rejected.
LEMMA HeldRefuses ==
  ASSUME NEW m \in Monitors, NEW e \in Events
  PROVE  Refusal(Held(m, e), m)
<1> DEFINE h == [m EXCEPT !.accepts = 0]
<1>1. h \in Monitors
  BY DEF Monitors
<1>2. /\ h.anchor = m.anchor /\ h.ready = m.ready /\ h.recovering = m.recovering
      /\ h.accepts = 0 /\ h.aligned = m.aligned /\ h.clockInvalid = m.clockInvalid
      /\ SameRun(h, m)
  BY DEF Monitors, SameRun
<1>3. m.anchor \in Nat /\ m.accepts \in Nat
  BY DEF Monitors
<1>4. Held(m, e) = IF e.ready THEN h ELSE Invalidated(h)
  BY DEF Held
<1> HIDE DEF h
<1>5. Owing(h, m)
  BY <1>2, <1>3 DEF Owing, Owes
<1>6. Refusal(h, m)
  BY <1>1, <1>2, <1>5 DEF Refusal
<1>7. Refusal(Invalidated(h), m)
  BY <1>1, <1>6, InvalidatedRefuses, RefusalsCompose
<1> QED
  BY <1>4, <1>6, <1>7

\* A commit counts one and moves the anchor on by at least one: the debt stays paid.
LEMMA CommittedIs ==
  ASSUME NEW m \in Monitors, NEW e \in Events, e.anchor > m.anchor
  PROVE  LET n == Committed(m, e) IN
         /\ n \in Monitors /\ SameRun(n, m)
         /\ n.anchor = e.anchor /\ n.aligned = m.aligned
         /\ n.clockInvalid = m.clockInvalid /\ Owing(n, m)
<1> DEFINE n == Committed(m, e)
<1>1. e.anchor \in Nat /\ ReadyAfter(m) \in BOOLEAN
  BY DEF Events, ReadyAfter
<1>2. n \in Monitors
  <2>1. /\ (m.ready \/ ReadyAfter(m)) \in BOOLEAN
        /\ (m.recovering /\ ~ReadyAfter(m)) \in BOOLEAN /\ m.accepts + 1 \in Nat
    BY DEF Monitors
  <2> QED
    BY <1>1, <2>1 DEF Committed, Monitors
<1>3. /\ n.anchor = e.anchor /\ n.accepts = m.accepts + 1
      /\ n.ready = (m.ready \/ ReadyAfter(m))
      /\ n.recovering = (m.recovering /\ ~ReadyAfter(m))
      /\ n.aligned = m.aligned /\ n.clockInvalid = m.clockInvalid /\ SameRun(n, m)
  BY DEF Committed, Monitors, SameRun
<1>4. m.anchor \in Nat /\ m.accepts \in Nat /\ RecoveryCommits \in Nat
      /\ m.ready \in BOOLEAN /\ m.recovering \in BOOLEAN
  BY ChainAssumption DEF Monitors
<1>5. Owing(n, m)
  <2> HIDE DEF n
  <2>1. SUFFICES ASSUME NEW r \in Nat, NEW k \in 0..RecoveryCommits, Owes(m, r, k), r # 0
                PROVE  Owes(n, r, k)
    BY DEF Owing, Owes
  <2>2. k \in Nat /\ k <= RecoveryCommits
    BY <1>4
  <2>3. CASE m.ready
    <3>1. r + k <= m.anchor
      BY <2>1, <2>3 DEF Owes
    <3>2. r + k <= n.anchor
      BY <1>1, <1>3, <1>4, <3>1, <2>2
    <3>3. n.ready
      BY <1>3, <2>3
    <3> QED
      BY <3>2, <3>3 DEF Owes
  <2>4. CASE ~m.ready /\ ReadyAfter(m)
    <3>1. m.recovering /\ r + m.accepts <= m.anchor
      BY <2>1, <2>4 DEF Owes
    <3>2. m.accepts + 1 >= RecoveryCommits
      BY <2>4, <3>1 DEF ReadyAfter
    <3>3. r + k <= n.anchor
      BY <1>1, <1>3, <1>4, <3>1, <3>2, <2>2
    <3>4. n.ready
      BY <1>3, <2>4
    <3> QED
      BY <3>3, <3>4 DEF Owes
  <2>5. CASE ~m.ready /\ ~ReadyAfter(m)
    <3>1. m.recovering /\ r + m.accepts <= m.anchor
      BY <2>1, <2>5 DEF Owes
    <3>2. r + n.accepts <= n.anchor
      BY <1>1, <1>3, <1>4, <3>1, <2>2
    <3>3. ~n.ready /\ n.recovering
      BY <1>3, <2>5, <3>1
    <3> QED
      BY <3>2, <3>3 DEF Owes
  <2> QED
    BY <2>3, <2>4, <2>5
<1> QED
  BY <1>2, <1>3, <1>5

\* An event is judged with m's epoch: a commit moves the anchor on to the
\* event's, anything else is a refusal.
LEMMA JudgedIs ==
  ASSUME NEW m \in Monitors, NEW e \in Events, NEW ahead \in BOOLEAN, NEW old \in BOOLEAN
  PROVE  LET j == Judged(m, e, ahead, old) IN
         \/ ~(j.accepted /\ e.committed) /\ Refusal(j.state, m)
         \/ /\ j.accepted /\ e.committed
            /\ j.state \in Monitors /\ SameRun(j.state, m)
            /\ j.state.anchor = e.anchor /\ e.anchor # 0 /\ j.state.aligned = m.aligned
            /\ j.state.clockInvalid = m.clockInvalid /\ Owing(j.state, m)
<1> DEFINE heard == [m EXCEPT !.event = e.event]
           timed == Timed(heard)
           j == Judged(m, e, ahead, old)
<1>1. e.event \in Nat /\ e.anchor \in Nat /\ e.committed \in BOOLEAN
  BY DEF Events
<1>2. j = IF e.event <= m.event THEN [state |-> m, accepted |-> FALSE]
          ELSE IF ahead THEN [state |-> Invalidated(heard), accepted |-> FALSE]
          ELSE IF m.clockInvalid THEN [state |-> heard, accepted |-> FALSE]
          ELSE IF ~e.committed THEN [state |-> Held(timed, e), accepted |-> TRUE]
          ELSE IF e.ready /\ e.anchor > m.anchor /\ ~old
            THEN [state |-> Committed(timed, e), accepted |-> TRUE]
          ELSE [state |-> Invalidated(timed), accepted |-> FALSE]
  BY DEF Judged
<1>3. Refusal(heard, m) /\ heard \in Monitors
  BY <1>1, HeardIs DEF Refusal
<1> HIDE DEF heard, j
<1>4. Refusal(timed, m) /\ timed \in Monitors
  BY <1>3, TimedRefuses, RefusalsCompose DEF Refusal
<1>5. Refusal(Invalidated(heard), m)
  BY <1>3, InvalidatedRefuses, RefusalsCompose
<1> HIDE DEF timed
<1>6. Refusal(Invalidated(timed), m)
  BY <1>4, InvalidatedRefuses, RefusalsCompose
<1>7. Refusal(Held(timed, e), m)
  BY <1>4, HeldRefuses, RefusalsCompose
<1>8. CASE j = [state |-> Committed(timed, e), accepted |-> TRUE] /\ e.committed
           /\ e.anchor > m.anchor
  <2> DEFINE n == Committed(timed, e)
  <2>1. timed.anchor = m.anchor /\ timed.aligned = m.aligned
        /\ timed.clockInvalid = m.clockInvalid /\ SameRun(timed, m) /\ Owing(timed, m)
    BY <1>4 DEF Refusal
  <2>2. /\ n \in Monitors /\ SameRun(n, timed)
        /\ n.anchor = e.anchor /\ n.aligned = timed.aligned
        /\ n.clockInvalid = timed.clockInvalid /\ Owing(n, timed)
    BY <1>4, <1>8, <2>1, CommittedIs
  <2>3. j.state = n /\ j.accepted
    BY <1>8
  <2>4. e.anchor # 0
    <3>1. m.anchor \in Nat
      BY DEF Monitors
    <3> QED
      BY <1>1, <1>8, <3>1
  <2> HIDE DEF n
  <2>5. SameRun(n, m) /\ Owing(n, m)
    BY <2>1, <2>2 DEF SameRun, Owing
  <2> QED
    BY <1>8, <2>1, <2>2, <2>3, <2>4, <2>5 DEF j
<1>9. CASE ~(j.accepted /\ e.committed) /\ Refusal(j.state, m)
  BY <1>9 DEF j
<1>10. Refusal(m, m)
  BY NothingRefuses
<1>11. \/ j = [state |-> m, accepted |-> FALSE]
       \/ j = [state |-> Invalidated(heard), accepted |-> FALSE]
       \/ j = [state |-> heard, accepted |-> FALSE]
       \/ j = [state |-> Held(timed, e), accepted |-> TRUE] /\ ~e.committed
       \/ j = [state |-> Committed(timed, e), accepted |-> TRUE] /\ e.committed
          /\ e.anchor > m.anchor
       \/ j = [state |-> Invalidated(timed), accepted |-> FALSE]
  BY <1>2
<1> QED
  BY <1>3, <1>5, <1>6, <1>7, <1>8, <1>9, <1>10, <1>11

\* alignment_ after an event: none, the one held before, or the event's own.
LEMMA AlignedIs ==
  ASSUME NEW m \in Monitors, ReadyIsAligned(m), NEW e \in Events,
         NEW ahead \in BOOLEAN, NEW old \in BOOLEAN
  PROVE  LET n == Aligned(e, Judged(m, e, ahead, old)) IN
         /\ n \in Monitors /\ SameRun(n, m) /\ Owing(n, m)
         /\ n.clockInvalid = m.clockInvalid /\ ReadyIsAligned(n)
         /\ n.aligned # 0 => \/ n.aligned = m.aligned
                             \/ n.aligned = e.anchor /\ e.committed /\ e.sound
<1> DEFINE j == Judged(m, e, ahead, old)
           n == Aligned(e, j)
<1>1. \A s \in Monitors, a \in Nat :
        LET k == [s EXCEPT !.aligned = a] IN
        /\ k \in Monitors /\ SameRun(k, s) /\ Owing(k, s)
        /\ k.clockInvalid = s.clockInvalid /\ k.ready = s.ready /\ k.anchor = s.anchor
        /\ k.aligned = a
  <2> TAKE s \in Monitors, a \in Nat
  <2> DEFINE k == [s EXCEPT !.aligned = a]
  <2>1. k \in Monitors
    BY DEF Monitors
  <2>2. /\ SameRun(k, s) /\ k.clockInvalid = s.clockInvalid /\ k.ready = s.ready
        /\ k.anchor = s.anchor /\ k.aligned = a
        /\ k.recovering = s.recovering /\ k.accepts = s.accepts
    BY DEF Monitors, SameRun
  <2>3. Owing(k, s)
    <3> HIDE DEF k
    <3> QED
      BY <2>2 DEF Owing, Owes
  <2> QED
    BY <2>1, <2>2, <2>3
<1>2. e.anchor \in Nat /\ 0 \in Nat
  BY DEF Events
<1>3. n = IF j.accepted /\ e.committed /\ e.sound THEN [j.state EXCEPT !.aligned = e.anchor]
          ELSE IF j.accepted /\ e.committed THEN [Invalidated(j.state) EXCEPT !.aligned = 0]
          ELSE [j.state EXCEPT !.aligned =
                  IF j.state.aligned = j.state.anchor THEN j.state.aligned ELSE 0]
  <2>1. j.state \in Monitors
    BY JudgedIs DEF Refusal
  <2> HIDE DEF j
  <2> QED
    BY <2>1 DEF Aligned, Monitors
<1> HIDE DEF j
<1>4. CASE j.accepted /\ e.committed
  <2>1. /\ j.state \in Monitors /\ SameRun(j.state, m)
        /\ j.state.anchor = e.anchor /\ e.anchor # 0 /\ j.state.aligned = m.aligned
        /\ j.state.clockInvalid = m.clockInvalid /\ Owing(j.state, m)
    BY <1>4, JudgedIs DEF j
  <2>2. CASE e.sound
    <3>1. n = [j.state EXCEPT !.aligned = e.anchor]
      BY <1>3, <1>4, <2>2
    <3> HIDE DEF n
    <3>2. /\ n \in Monitors /\ SameRun(n, j.state) /\ Owing(n, j.state)
          /\ n.clockInvalid = j.state.clockInvalid /\ n.anchor = j.state.anchor
          /\ n.aligned = e.anchor
      BY <1>1, <1>2, <2>1, <3>1
    <3>3. SameRun(n, m) /\ Owing(n, m)
      BY <2>1, <3>2 DEF SameRun, Owing
    <3> QED
      BY <1>4, <2>1, <2>2, <3>2, <3>3 DEF ReadyIsAligned, n, j
  <2>3. CASE ~e.sound
    <3> DEFINE i == Invalidated(j.state)
    <3>1. n = [i EXCEPT !.aligned = 0]
      BY <1>3, <1>4, <2>3
    <3>2. i \in Monitors /\ SameRun(i, j.state) /\ Owing(i, j.state)
          /\ i.clockInvalid = j.state.clockInvalid /\ i.ready = FALSE
      BY <2>1, InvalidatedIs, InvalidatedOwes
    <3> HIDE DEF n, i
    <3>3. /\ n \in Monitors /\ SameRun(n, i) /\ Owing(n, i)
          /\ n.clockInvalid = i.clockInvalid /\ n.ready = i.ready /\ n.aligned = 0
      BY <1>1, <1>2, <3>1, <3>2
    <3>4. SameRun(n, m) /\ Owing(n, m)
      BY <2>1, <3>2, <3>3 DEF SameRun, Owing
    <3> QED
      BY <2>1, <3>2, <3>3, <3>4 DEF ReadyIsAligned, n, j
  <2> QED
    BY <2>2, <2>3
<1>5. CASE ~(j.accepted /\ e.committed)
  <2> DEFINE a == IF j.state.aligned = j.state.anchor THEN j.state.aligned ELSE 0
  <2>1. Refusal(j.state, m)
    BY <1>5, JudgedIs DEF j
  <2>2. j.state \in Monitors /\ a \in Nat
    BY <2>1 DEF Refusal, Monitors
  <2>3. n = [j.state EXCEPT !.aligned = a]
    BY <1>3, <1>5
  <2> HIDE DEF n
  <2>4. /\ n \in Monitors /\ SameRun(n, j.state) /\ Owing(n, j.state)
        /\ n.clockInvalid = j.state.clockInvalid /\ n.anchor = j.state.anchor
        /\ n.ready = j.state.ready /\ n.aligned = a
    BY <1>1, <2>2, <2>3
  <2>5. SameRun(n, m) /\ Owing(n, m)
    BY <2>1, <2>4 DEF SameRun, Owing, Refusal
  <2>6. /\ j.state.anchor = m.anchor /\ j.state.aligned = m.aligned
        /\ j.state.clockInvalid = m.clockInvalid /\ (j.state.ready => m.ready)
    BY <2>1 DEF Refusal
  <2>7. ReadyIsAligned(n)
    BY <2>4, <2>6 DEF ReadyIsAligned
  <2> QED
    BY <2>4, <2>5, <2>6, <2>7 DEF n, j
<1> QED
  BY <1>4, <1>5

-----------------------------------------------------------------------------
(* The monitor's steps.                                                    *)

\* A record in the epoch of m, or in one m has never been in.
Onward(n, m) ==
  \/ /\ n.epoch = m.epoch /\ n.retired = m.retired
     /\ m.clockInvalid => n.clockInvalid
     /\ Owing(n, m)
  \/ /\ n.epoch # m.epoch /\ n.epoch # 0 /\ n.epoch \notin m.retired
     /\ n.retired = IF m.epoch = 0 THEN m.retired ELSE m.retired \cup {m.epoch}

\* A record the monitor can hold.
Holds(n) ==
  /\ n \in Monitors /\ n.epoch \notin n.retired /\ ReadyIsAligned(n)
  /\ n.aligned # 0 => Anchored(n.epoch, n.aligned)

Handled(n) ==
  /\ Holds(n) /\ Onward(n, monitor)
  /\ n.publishEpoch = monitor.publishEpoch /\ n.sequence = monitor.sequence

\* What a handler that publishes nothing leaves.
Quiet(n) == SameRun(n, monitor) /\ Handled(n) /\ (n.ready => monitor.ready)

\* Going on in the same epoch.
LEMMA SameRunOnward ==
  ASSUME NEW m, NEW n, SameRun(n, m), Owing(n, m), m.clockInvalid => n.clockInvalid
  PROVE  Onward(n, m)
  BY DEF SameRun, Onward

\* An event of NDT's leaves the monitor a record it can hold.
LEMMA ObservedIs ==
  ASSUME ChainInv, NEW ahead \in BOOLEAN, NEW old \in BOOLEAN,
         NEW i \in 1..Len(log), log[i] \in Events
  PROVE  Handled(Observed(log[i], ahead, old))
<1> DEFINE e == log[i]
           m == Opened(monitor, e.epoch)
           n == Aligned(e, Judged(m, e, ahead, old))
<1>1. monitor \in Monitors /\ Holds(monitor)
  BY DEF ChainInv, TypeOK, MonitorInv, Holds
<1>2. e \in Events /\ e.epoch \in Epochs /\ e.epoch # 0
  BY DEF ChainInv, LogInv, Events
<1>3. e.committed /\ e.sound => Anchored(e.epoch, e.anchor)
  BY DEF Anchored, AnchoredIn
<1> HIDE DEF e
<1>4. CASE e.epoch \in monitor.retired
  <2>1. Observed(e, ahead, old) = monitor
    BY <1>4 DEF Observed
  <2>2. Onward(monitor, monitor)
    BY DEF Onward, Owing
  <2> QED
    BY <1>1, <2>1, <2>2 DEF Handled, e
<1>5. CASE e.epoch \notin monitor.retired
  <2>1. Observed(e, ahead, old) = n
    BY <1>5 DEF Observed
  <2>2. CASE e.epoch = monitor.epoch
    <3>1. m = monitor
      BY <2>2 DEF Opened
    <3>2. /\ n \in Monitors /\ SameRun(n, monitor) /\ Owing(n, monitor)
          /\ n.clockInvalid = monitor.clockInvalid /\ ReadyIsAligned(n)
          /\ n.aligned # 0 => \/ n.aligned = monitor.aligned
                              \/ n.aligned = e.anchor /\ e.committed /\ e.sound
      BY <1>1, <1>2, <3>1, AlignedIs DEF Holds
    <3> HIDE DEF n
    <3>3. n.aligned # 0 => Anchored(n.epoch, n.aligned)
      BY <1>1, <1>3, <2>2, <3>2 DEF Holds, SameRun
    <3>4. Onward(n, monitor)
      BY <3>2, SameRunOnward
    <3>5. n.epoch \notin n.retired /\ n.publishEpoch = monitor.publishEpoch
          /\ n.sequence = monitor.sequence
      BY <1>1, <3>2 DEF SameRun, Holds
    <3> QED
      BY <2>1, <3>2, <3>3, <3>4, <3>5 DEF Handled, Holds, e
  <2>3. CASE e.epoch # monitor.epoch
    <3>1. /\ m \in Monitors /\ m.epoch = e.epoch
          /\ m.retired = IF monitor.epoch = 0 THEN monitor.retired
                         ELSE monitor.retired \cup {monitor.epoch}
          /\ m.publishEpoch = monitor.publishEpoch /\ m.sequence = monitor.sequence
          /\ m.aligned = 0 /\ ~m.ready
      BY <1>1, <1>2, <2>3, OpenedIs
    <3> HIDE DEF m
    <3>2. ReadyIsAligned(m)
      BY <3>1 DEF ReadyIsAligned
    <3>3. /\ n \in Monitors /\ SameRun(n, m) /\ ReadyIsAligned(n)
          /\ n.aligned # 0 => \/ n.aligned = m.aligned
                              \/ n.aligned = e.anchor /\ e.committed /\ e.sound
      BY <1>2, <3>1, <3>2, AlignedIs
    <3> HIDE DEF n
    <3>4. n.aligned # 0 => Anchored(n.epoch, n.aligned)
      BY <1>3, <3>1, <3>3 DEF SameRun
    <3>5. Onward(n, monitor)
      BY <1>2, <1>5, <2>3, <3>1, <3>3 DEF Onward, SameRun
    <3>6. n.epoch \notin n.retired /\ n.publishEpoch = monitor.publishEpoch
          /\ n.sequence = monitor.sequence
      BY <1>5, <2>3, <3>1, <3>3 DEF SameRun
    <3> QED
      BY <2>1, <3>3, <3>4, <3>5, <3>6 DEF Handled, Holds, e, n, m
  <2> QED
    BY <2>2, <2>3
<1> QED
  BY <1>4, <1>5

\* A publication moves the pair of its epoch and sequence number.
LEMMA PublishedIs ==
  ASSUME NEW m, Holds(m)
  PROVE  LET n == Published(m) IN
         /\ Holds(n) /\ n.epoch = m.epoch /\ n.retired = m.retired
         /\ n.clockInvalid = m.clockInvalid /\ Owing(n, m)
         /\ n.publishEpoch = n.epoch /\ n.sequence > 0
         /\ <<n.publishEpoch, n.sequence>> # <<m.publishEpoch, m.sequence>>
         /\ n.ready => Fresh(n)
<1> DEFINE v == Evaluated(m)
           n == Sequenced(v)
           q == IF v.publishEpoch = v.epoch THEN v.sequence + 1 ELSE 1
<1>1. m \in Monitors
  BY DEF Holds
<1>2. /\ v \in Monitors /\ SameRun(v, m) /\ Owing(v, m)
      /\ v.anchor = m.anchor /\ v.aligned = m.aligned /\ v.clockInvalid = m.clockInvalid
      /\ v.ready => m.ready /\ Fresh(v)
  <2>1. CASE Fresh(m)
    BY <1>1, <2>1, NothingRefuses DEF Evaluated, Refusal
  <2>2. CASE ~Fresh(m)
    BY <1>1, <2>2, InvalidatedIs, InvalidatedOwes DEF Evaluated
  <2> QED
    BY <2>1, <2>2
<1>3. Published(m) = n
  BY DEF Published
<1> HIDE DEF v
<1>4. q \in Nat /\ q > 0 /\ v.epoch \in Epochs
      /\ (v.publishEpoch = v.epoch => q # v.sequence)
  BY <1>2 DEF Monitors
<1>5. n = [v EXCEPT !.publishEpoch = v.epoch, !.sequence = q]
  BY <1>2 DEF Sequenced, Monitors
<1> HIDE DEF n, q
<1>6. n \in Monitors
  BY <1>2, <1>4, <1>5 DEF Monitors
<1>7. /\ n.epoch = v.epoch /\ n.retired = v.retired /\ n.anchor = v.anchor
      /\ n.aligned = v.aligned /\ n.ready = v.ready /\ n.recovering = v.recovering
      /\ n.accepts = v.accepts /\ n.clockInvalid = v.clockInvalid
      /\ n.recent = v.recent /\ n.present = v.present
      /\ n.publishEpoch = v.epoch /\ n.sequence = q
  BY <1>2, <1>5 DEF Monitors
<1>8. Owing(n, m)
  BY <1>2, <1>7 DEF Owing, Owes
<1>9. n.ready => Fresh(n)
  BY <1>2, <1>7 DEF Fresh
<1>10. Holds(n)
  <2>1. ReadyIsAligned(n)
    BY <1>2, <1>7 DEF Holds, ReadyIsAligned
  <2>2. n.aligned # 0 => Anchored(n.epoch, n.aligned)
    BY <1>2, <1>7 DEF Holds, SameRun
  <2> QED
    BY <1>2, <1>6, <1>7, <2>1, <2>2 DEF Holds, SameRun
<1>11. <<n.publishEpoch, n.sequence>> # <<m.publishEpoch, m.sequence>>
  BY <1>2, <1>4, <1>7 DEF SameRun
<1> QED
  BY <1>2, <1>3, <1>4, <1>7, <1>8, <1>9, <1>10, <1>11 DEF SameRun

\* The message of a monitor that has just published.
LEMMA StatusIs ==
  ASSUME NEW n, Holds(n), n.ready => Fresh(n)
  PROVE  /\ Status(n) \in Statuses
         /\ Status(n).aligned => Anchored(Status(n).epoch, Status(n).anchor)
         /\ Status(n).ready = n.ready
<1>1. n \in Monitors
  BY DEF Holds
<1> DEFINE a == n.aligned # 0 /\ n.aligned = n.anchor
           b == n.ready /\ Fresh(n) /\ a
<1>2. Status(n) = [epoch |-> n.epoch, sequence |-> n.sequence, anchor |-> n.anchor,
                   ready |-> b, aligned |-> a]
  BY DEF Status
<1>3. b = n.ready /\ b \in BOOLEAN /\ a \in BOOLEAN
  <2>1. n.ready \in BOOLEAN
    BY <1>1 DEF Monitors
  <2>2. n.ready => a
    BY DEF Holds, ReadyIsAligned
  <2> QED
    BY <2>1, <2>2
<1>4. a => Anchored(n.epoch, n.anchor)
  BY DEF Holds
<1> HIDE DEF a, b
<1>5. Status(n) \in Statuses
  BY <1>1, <1>2, <1>3 DEF Monitors, Statuses
<1> QED
  BY <1>2, <1>3, <1>4, <1>5

\* A step that takes readiness or alignment and nothing else is quiet.
LEMMA QuietIs ==
  ASSUME ChainInv, NEW n \in Monitors, SameRun(n, monitor), Owing(n, monitor),
         monitor.clockInvalid => n.clockInvalid,
         n.aligned = 0 \/ n.aligned = monitor.aligned,
         n.ready => /\ monitor.ready /\ n.aligned = monitor.aligned
                    /\ n.anchor = monitor.anchor
  PROVE  Quiet(n)
<1>1. Onward(n, monitor)
  BY SameRunOnward
<1>2. Holds(n)
  BY DEF Holds, ChainInv, MonitorInv, SameRun, ReadyIsAligned
<1> QED
  BY <1>1, <1>2 DEF Quiet, Handled, SameRun

\* Doing nothing is quiet.
LEMMA MonitorHandled == ChainInv => Quiet(monitor) /\ monitor \in Monitors
<1> SUFFICES ASSUME ChainInv PROVE Quiet(monitor) /\ monitor \in Monitors
  OBVIOUS
<1>1. monitor \in Monitors
  BY DEF ChainInv, TypeOK
<1> QED
  BY <1>1, QuietIs DEF SameRun, Owing

\* Inputs come and go, the commit ages: only a window's flag changes.
LEMMA InputsAreQuiet ==
  ASSUME ChainInv, InputsArrive \/ InputsLapse \/ CommitAges
  PROVE  Quiet(monitor')
<1>1. monitor \in Monitors
  BY DEF ChainInv, TypeOK
<1>2. PICK b \in BOOLEAN : \/ monitor' = [monitor EXCEPT !.present = b]
                           \/ monitor' = [monitor EXCEPT !.recent = b]
  BY DEF InputsArrive, InputsLapse, CommitAges
<1>3. monitor' \in Monitors
  BY <1>1, <1>2 DEF Monitors
<1>4. /\ SameRun(monitor', monitor) /\ monitor'.anchor = monitor.anchor
      /\ monitor'.aligned = monitor.aligned /\ monitor'.clockInvalid = monitor.clockInvalid
      /\ monitor'.ready = monitor.ready /\ monitor'.recovering = monitor.recovering
      /\ monitor'.accepts = monitor.accepts
  BY <1>1, <1>2 DEF Monitors, SameRun
<1>5. Owing(monitor', monitor)
  BY <1>4 DEF Owing, Owes
<1> QED
  BY <1>3, <1>4, <1>5, QuietIs

\* What every invalidation shares: nothing is ready, the alignment stays or goes.
LEMMA InvalidationIsQuiet ==
  ASSUME ChainInv, NEW n,
         \/ n = [Invalidated(monitor) EXCEPT !.present = FALSE]
         \/ n = [Invalidated(monitor) EXCEPT !.aligned = 0]
         \/ n = Rewound
  PROVE  Quiet(n)
<1> DEFINE i == Invalidated(monitor)
<1>1. monitor \in Monitors
  BY DEF ChainInv, TypeOK
<1>2. /\ i \in Monitors /\ SameRun(i, monitor) /\ i.aligned = monitor.aligned
      /\ i.clockInvalid = monitor.clockInvalid /\ i.ready = FALSE /\ Owing(i, monitor)
  BY <1>1, InvalidatedIs, InvalidatedOwes
<1>3. \/ n = [i EXCEPT !.present = FALSE]
      \/ n = [i EXCEPT !.aligned = 0]
      \/ n = [i EXCEPT !.clockInvalid = TRUE, !.aligned = 0, !.present = FALSE]
  BY DEF Rewound
<1> HIDE DEF i
<1>4. n \in Monitors
  <2>1. 0 \in Nat /\ i \in Monitors
    BY <1>2
  <2>2. CASE n = [i EXCEPT !.present = FALSE]
    BY <2>1, <2>2 DEF Monitors
  <2>3. CASE n = [i EXCEPT !.aligned = 0]
    BY <2>1, <2>3 DEF Monitors
  <2>4. CASE n = [i EXCEPT !.clockInvalid = TRUE, !.aligned = 0, !.present = FALSE]
    BY <2>1, <2>4 DEF Monitors
  <2> QED
    BY <1>3, <2>2, <2>3, <2>4
<1>5. /\ SameRun(n, i) /\ n.anchor = i.anchor /\ n.ready = i.ready
      /\ n.recovering = i.recovering /\ n.accepts = i.accepts
      /\ n.aligned = i.aligned \/ n.aligned = 0
      /\ n.clockInvalid = i.clockInvalid \/ n.clockInvalid = TRUE
  BY <1>2, <1>3 DEF Monitors, SameRun
<1>6. Owing(n, monitor)
  BY <1>2, <1>5 DEF Owing, Owes
<1>7. SameRun(n, monitor)
  BY <1>2, <1>5 DEF SameRun
<1> QED
  BY <1>2, <1>4, <1>5, <1>6, <1>7, QuietIs

\* The monitor's part of every step: it restarts, it publishes what a handler
\* left, or it publishes nothing and the receiver may take a status.
Taking == UNCHANGED status \/ (status # <<>> /\ status' = Tail(status))
Publishing == (\E x : Handled(x) /\ monitor' = Published(x)) /\ Sends
MonitorStep ==
  \/ monitor' = NoMonitor /\ UNCHANGED <<log, status>>
  \/ Quiet(monitor') /\ Taking
  \/ Publishing /\ UNCHANGED log

\* Every step of the chain is one of the three for the monitor.
LEMMA MonitorSteps ==
  ASSUME ChainInv, [Next]_vars
  PROVE  MonitorStep
<1>1. CASE UNCHANGED monitor /\ Taking
  BY <1>1, MonitorHandled DEF MonitorStep
<1>2. ASSUME NEW ahead \in BOOLEAN, NEW old \in BOOLEAN, AnchorTaken(ahead, old)
      PROVE  MonitorStep
  <2>1. read \in Nat /\ log \in Seq(Events) /\ read < Len(log)
    BY <1>2 DEF ChainInv, TypeOK, AnchorTaken
  <2>2. read + 1 \in 1..Len(log) /\ log[read + 1] \in Events
    BY <2>1
  <2>3. Handled(Observed(log[read + 1], ahead, old))
    BY <2>2, ObservedIs
  <2> QED
    BY <1>2, <2>3 DEF AnchorTaken, Anchor, MonitorStep, Publishing
<1>3. CASE MalformedAnchorArrives
  <2>1. Handled([Invalidated(monitor) EXCEPT !.aligned = 0])
    BY InvalidationIsQuiet DEF Quiet
  <2> QED
    BY <1>3, <2>1 DEF MalformedAnchorArrives, MalformedAnchor, MonitorStep, Publishing,
                      upstream
<1>4. CASE Ticks
  BY <1>4, MonitorHandled DEF Ticks, MonitorTick, MonitorStep, Publishing, Quiet, upstream
<1>5. CASE MonitorInputs
  BY <1>5, InputsAreQuiet DEF MonitorInputs, MonitorStep, Taking, downstream
<1>6. CASE MonitorUpset
  BY <1>6, InvalidationIsQuiet DEF MonitorUpset, BadInput, MonitorRewind, MonitorStep,
                                   Taking, downstream
<1>7. CASE Restarts
  BY <1>7 DEF Restarts, MonitorRestart, MonitorStep
<1>8. CASE AnchorArrives
  BY <1>2, <1>8 DEF AnchorArrives
<1>9. CASE FutureAnchorArrives
  BY <1>2, <1>9 DEF FutureAnchorArrives
<1>10. CASE Ndt
  BY <1>1, <1>10 DEF Ndt, NdtReset, NdtClockJump, NdtRejects, NdtCommits,
                     NdtCommitsUnsound, Commits, Publishes, Taking, downstream
<1>11. CASE Receiver
  BY <1>1, <1>11 DEF Receiver, StatusTaken, StatusRefused, ReceiverAges, IdentityTaken,
                     ReceiverClockBack, Taking
<1>12. CASE UNCHANGED vars
  BY <1>1, <1>12 DEF vars, Taking
<1> QED
  BY <1>3, <1>4, <1>5, <1>6, <1>7, <1>8, <1>9, <1>10, <1>11, <1>12 DEF Next, Monitor

-----------------------------------------------------------------------------
(* The receiver's record.                                                  *)

\* Its epoch stays, or gives way to one it has not left.
Follows(r) ==
  \/ r.epoch = receiver.epoch /\ r.retired = receiver.retired
  \/ /\ r.epoch # receiver.epoch /\ r.epoch # 0 /\ r.epoch \notin receiver.retired
     /\ r.retired = IF receiver.epoch = 0 THEN {} ELSE receiver.retired \cup {receiver.epoch}

\* A qualification is the one held before.
KeepsQualification(r) ==
  r.qualified =>
    receiver.qualified /\ r.epoch = receiver.epoch /\ r.anchor = receiver.anchor

\* A status of an unknown epoch retires the epoch it follows.
LEMMA AdoptedIs ==
  ASSUME receiver \in Receivers, NEW epoch \in Epochs, epoch # 0,
         epoch \notin receiver.retired
  PROVE  LET r == Adopted(epoch) IN
         r \in Receivers /\ r.epoch = epoch /\ Follows(r) /\ KeepsQualification(r)
<1>1. CASE epoch = receiver.epoch
  BY <1>1 DEF Adopted, Follows, KeepsQualification
<1>2. CASE epoch # receiver.epoch
  <2> DEFINE t == IF receiver.epoch = 0 THEN {}
                  ELSE receiver.retired \cup {receiver.epoch}
             r == [epoch |-> epoch, retired |-> t, heard |-> -1, anchor |-> -1,
                   loss |-> -1, ready |-> FALSE, qualified |-> FALSE,
                   heartbeat |-> receiver.heartbeat, recent |-> FALSE]
  <2>1. Adopted(epoch) = r
    BY <1>2 DEF Adopted, NoReceiver
  <2>2. t \in SUBSET (1..MaxEpoch)
    BY ChainAssumption DEF Receivers, Epochs
  <2>3. -1 \in Int /\ receiver.heartbeat \in BOOLEAN
    BY DEF Receivers
  <2>4. /\ r.epoch = epoch /\ r.retired = t /\ r.qualified = FALSE
    OBVIOUS
  <2>5. r \in Receivers
    <3> HIDE DEF t
    <3> QED
      BY <2>2, <2>3 DEF Receivers
  <2>6. Follows(r)
    <3> HIDE DEF r
    <3> QED
      BY <1>2, <2>4 DEF Follows
  <2>7. KeepsQualification(r)
    BY <2>4 DEF KeepsQualification
  <2> QED
    BY <2>1, <2>4, <2>5, <2>6, <2>7
<1> QED
  BY <1>1, <1>2

\* An accepted status puts its own anchor and alignment in the record's place.
LEMMA AcceptedIs ==
  ASSUME NEW r \in Receivers, NEW m \in Statuses, NEW young \in BOOLEAN
  PROVE  LET n == Accepted(r, m, young) IN
         /\ n \in Receivers /\ n.epoch = r.epoch /\ n.retired = r.retired
         /\ n.anchor = m.anchor /\ n.qualified = m.aligned
<1> DEFINE b == m.ready /\ m.anchor > Lost(r, m)
           c == IF m.anchor > r.anchor THEN young ELSE r.recent
           n == Accepted(r, m, young)
<1>1. /\ m.sequence \in Int /\ m.anchor \in Int /\ m.aligned \in BOOLEAN
      /\ m.ready \in BOOLEAN
  BY DEF Statuses
<1>2. Lost(r, m) \in Int
  BY <1>1 DEF Lost, Receivers
<1>3. b \in BOOLEAN /\ c \in BOOLEAN
  BY <1>1 DEF Receivers
<1>4. n = [r EXCEPT !.heard = m.sequence, !.anchor = m.anchor, !.loss = Lost(r, m),
             !.ready = b, !.qualified = m.aligned, !.heartbeat = TRUE, !.recent = c]
  BY DEF Accepted, Qualified, Receivers
<1> HIDE DEF b, c, n
<1>5. n \in Receivers
  BY <1>1, <1>2, <1>3, <1>4 DEF Receivers
<1> QED
  BY <1>4, <1>5 DEF Receivers, n

\* An unreadable message withdraws the qualification.
LEMMA UnreadableIs ==
  ASSUME receiver \in Receivers
  PROVE  LET r == Unreadable(receiver) IN
         r \in Receivers /\ Follows(r) /\ KeepsQualification(r)
  BY DEF Unreadable, Receivers, Follows, KeepsQualification

\* A status leaves the qualification alone or puts its own in its place.
LEMMA ObserveIs ==
  ASSUME receiver \in Receivers, NEW m \in Statuses, NEW young \in BOOLEAN
  PROVE  LET r == Observe(m, young) IN
         /\ r \in Receivers /\ Follows(r)
         /\ \/ KeepsQualification(r)
            \/ r.epoch = m.epoch /\ r.anchor = m.anchor /\ r.qualified = m.aligned
<1> DEFINE a == Adopted(m.epoch)
<1>1. CASE m.epoch = 0
  <2>1. m.epoch \notin receiver.retired
    BY <1>1 DEF Receivers
  <2> QED
    BY <1>1, <2>1, UnreadableIs DEF Observe
<1>2. CASE m.epoch # 0 /\ m.epoch \in receiver.retired
  BY <1>2 DEF Observe, Follows, KeepsQualification
<1>3. CASE m.epoch # 0 /\ m.epoch \notin receiver.retired
  <2>1. m.epoch \in Epochs /\ m.sequence \in Int
    BY DEF Statuses
  <2>2. a \in Receivers /\ a.epoch = m.epoch /\ Follows(a) /\ KeepsQualification(a)
    BY <1>3, <2>1, AdoptedIs
  <2>3. Observe(m, young) = IF m.sequence <= a.heard THEN a
                            ELSE IF m.anchor < a.anchor THEN [a EXCEPT !.heard = m.sequence]
                            ELSE Accepted(a, m, young)
    BY <1>3 DEF Observe
  <2> HIDE DEF a
  <2>4. LET r == [a EXCEPT !.heard = m.sequence] IN
        r \in Receivers /\ Follows(r) /\ KeepsQualification(r)
    BY <2>1, <2>2 DEF Receivers, Follows, KeepsQualification
  <2>5. LET r == Accepted(a, m, young) IN
        /\ r \in Receivers /\ Follows(r)
        /\ r.epoch = m.epoch /\ r.anchor = m.anchor /\ r.qualified = m.aligned
    BY <2>2, AcceptedIs DEF Follows
  <2> QED
    BY <2>2, <2>3, <2>4, <2>5
<1> QED
  BY <1>1, <1>2, <1>3

\* The receiver's part of every step.
ReceiverStep ==
  \/ receiver' = NoReceiver
  \/ receiver' \in Receivers /\ Follows(receiver') /\ KeepsQualification(receiver')
  \/ /\ receiver' \in Receivers /\ Follows(receiver') /\ UNCHANGED log
     /\ \E i \in 1..Len(status) :
          /\ receiver'.epoch = status[i].epoch /\ receiver'.anchor = status[i].anchor
          /\ receiver'.qualified = status[i].aligned

\* Every step of the chain is one of the three for the receiver.
LEMMA ReceiverSteps ==
  ASSUME ChainInv, [Next]_vars
  PROVE  ReceiverStep
<1>1. receiver \in Receivers
  BY DEF ChainInv, TypeOK
<1>2. CASE UNCHANGED receiver
  BY <1>1, <1>2 DEF ReceiverStep, Follows, KeepsQualification
<1>3. CASE StatusTaken
  <2>1. PICK young \in BOOLEAN : receiver' = Observe(Head(status), young)
    BY <1>3 DEF StatusTaken, StatusArrives
  <2>2. /\ 1 \in 1..Len(status) /\ Head(status) = status[1] /\ status[1] \in Statuses
        /\ UNCHANGED log
    BY <1>3 DEF StatusTaken, ChainInv, TypeOK, upstream
  <2>3. /\ receiver' \in Receivers /\ Follows(receiver')
        /\ \/ KeepsQualification(receiver')
           \/ /\ receiver'.epoch = status[1].epoch /\ receiver'.anchor = status[1].anchor
              /\ receiver'.qualified = status[1].aligned
    BY <1>1, <2>1, <2>2, ObserveIs
  <2> QED
    BY <2>2, <2>3 DEF ReceiverStep
<1>4. CASE StatusRefused
  BY <1>1, <1>4, UnreadableIs DEF StatusRefused, StatusOfAnotherMap, ReceiverStep
<1>5. CASE ReceiverAges
  BY <1>1, <1>5 DEF ReceiverAges, HeartbeatLapses, AnchorAges, ReceiverStep, Receivers,
                    Follows, KeepsQualification
<1>6. CASE IdentityTaken
  BY <1>2, <1>6 DEF IdentityTaken
<1>7. CASE ReceiverClockBack
  BY <1>7 DEF ReceiverClockBack, ReceiverReset, ReceiverStep
<1>8. CASE Ndt
  BY <1>2, <1>8 DEF Ndt, NdtReset, NdtClockJump, NdtRejects, NdtCommits,
                    NdtCommitsUnsound, Commits, Publishes, downstream
<1>9. CASE Monitor
  BY <1>2, <1>9 DEF Monitor, AnchorArrives, FutureAnchorArrives, AnchorTaken,
                    MalformedAnchorArrives, Ticks, MonitorInputs, MonitorUpset, Restarts,
                    downstream
<1>10. CASE UNCHANGED vars
  BY <1>2, <1>10 DEF vars
<1> QED
  BY <1>3, <1>4, <1>5, <1>6, <1>7, <1>8, <1>9, <1>10 DEF Next, Receiver

-----------------------------------------------------------------------------
(* The topics.                                                             *)

\* The log only grows, so an anchor stays anchored.
LEMMA AnchoredStays ==
  ASSUME NEW events \in Seq(Events), NEW x \in Events
  PROVE  \A epoch, anchor :
           AnchoredIn(events, epoch, anchor) => AnchoredIn(Append(events, x), epoch, anchor)
<1> SUFFICES ASSUME NEW epoch, NEW anchor, AnchoredIn(events, epoch, anchor)
             PROVE  AnchoredIn(Append(events, x), epoch, anchor)
  OBVIOUS
<1>1. PICK i \in 1..Len(events) :
        /\ events[i].epoch = epoch /\ events[i].anchor = anchor
        /\ events[i].committed /\ events[i].sound
  BY DEF AnchoredIn
<1>2. i \in 1..Len(Append(events, x)) /\ Append(events, x)[i] = events[i]
  OBVIOUS
<1> QED
  BY <1>1, <1>2 DEF AnchoredIn

\* NDT's part of every step: it publishes one event of an epoch, or none.
NdtTypeOK == ndt \in [epoch : Epochs, event : Nat, anchor : Nat, jumped : BOOLEAN]
LogStep ==
  \/ UNCHANGED log
  \/ \E x \in Events : x.epoch # 0 /\ log' = Append(log, x)

\* An event is of NDT's epoch.
LEMMA EventIs ==
  ASSUME NEW n \in [epoch : Epochs, event : Nat, anchor : Nat, jumped : BOOLEAN],
         NEW committed \in BOOLEAN, NEW sound \in BOOLEAN
  PROVE  Event(n, committed, sound) \in Events /\ Event(n, committed, sound).epoch = n.epoch
<1>1. (n.anchor # 0) \in BOOLEAN
  OBVIOUS
<1> DEFINE b == n.anchor # 0
<1>2. Event(n, committed, sound) =
        [epoch |-> n.epoch, event |-> n.event, anchor |-> n.anchor, committed |-> committed,
         ready |-> b, sound |-> sound]
  BY DEF Event
<1>3. b \in BOOLEAN
  BY <1>1
<1> HIDE DEF b
<1> QED
  BY <1>2, <1>3 DEF Events

\* Every step of the chain appends one event at most, of an epoch that was opened.
LEMMA NdtSteps ==
  ASSUME ChainInv, [Next]_vars
  PROVE  NdtTypeOK' /\ LogStep
<1> DEFINE N == [epoch : Epochs, event : Nat, anchor : Nat, jumped : BOOLEAN]
<1>1. ndt \in N
  BY DEF ChainInv, TypeOK
<1>2. ASSUME NEW n \in N, n.epoch # 0, NEW committed \in BOOLEAN, NEW sound \in BOOLEAN,
             Publishes(n, committed, sound)
      PROVE  NdtTypeOK' /\ LogStep
  <2>1. ndt' = n /\ log' = Append(log, Event(n, committed, sound))
    BY <1>2 DEF Publishes
  <2>2. Event(n, committed, sound) \in Events /\ Event(n, committed, sound).epoch # 0
    BY <1>2, EventIs
  <2> QED
    BY <2>1, <2>2 DEF NdtTypeOK, LogStep
<1>3. CASE NdtReset
  <2> DEFINE n == [epoch |-> ndt.epoch + 1, event |-> 1, anchor |-> 0, jumped |-> FALSE]
  <2>1. n \in N /\ n.epoch # 0
    BY <1>1, <1>3, ChainAssumption DEF NdtReset, Epochs
  <2> QED
    BY <1>2, <1>3, <2>1 DEF NdtReset
<1>4. CASE NdtClockJump
  <2>1. ndt.epoch + 1 \in Epochs
    BY <1>1, <1>4, ChainAssumption DEF NdtClockJump, Epochs
  <2>2. ndt' = [ndt EXCEPT !.epoch = ndt.epoch + 1, !.jumped = TRUE] /\ UNCHANGED log
    BY <1>4 DEF NdtClockJump
  <2>3. ndt' \in N
    BY <1>1, <2>1, <2>2
  <2> QED
    BY <2>2, <2>3 DEF NdtTypeOK, LogStep
<1>5. CASE NdtRejects
  <2> DEFINE n == [ndt EXCEPT !.event = @ + 1]
  <2>1. n \in N /\ n.epoch # 0
    BY <1>1, <1>5 DEF NdtRejects, Epochs
  <2> QED
    BY <1>2, <1>5, <2>1 DEF NdtRejects
<1>6. ASSUME NEW sound \in BOOLEAN, Commits(sound)
      PROVE  NdtTypeOK' /\ LogStep
  <2> DEFINE n == [ndt EXCEPT !.event = @ + 1, !.anchor = @ + 1]
  <2>1. ndt.epoch # 0 /\ ndt.event + 1 \in Nat /\ ndt.anchor + 1 \in Nat
    BY <1>1, <1>6 DEF Commits, Epochs
  <2>2. n \in N /\ n.epoch # 0
    BY <1>1, <2>1
  <2> QED
    BY <1>2, <1>6, <2>2 DEF Commits
<1>7. CASE UNCHANGED <<ndt, log>>
  BY <1>1, <1>7 DEF NdtTypeOK, LogStep
<1>8. CASE NdtCommits \/ NdtCommitsUnsound
  BY <1>6, <1>8 DEF NdtCommits, NdtCommitsUnsound
<1>9. CASE Monitor
  BY <1>7, <1>9 DEF Monitor, AnchorArrives, FutureAnchorArrives, AnchorTaken,
                    MalformedAnchorArrives, Ticks, MonitorInputs, MonitorUpset, Restarts,
                    upstream
<1>10. CASE Receiver
  BY <1>7, <1>10 DEF Receiver, StatusTaken, StatusRefused, ReceiverAges, IdentityTaken,
                     ReceiverClockBack, upstream
<1>11. CASE UNCHANGED vars
  BY <1>7, <1>11 DEF vars
<1> QED
  BY <1>3, <1>4, <1>5, <1>8, <1>9, <1>10, <1>11 DEF Next, Ndt

\* What a queue of statuses may hold, given the events NDT has published.
StatusesOK(queue, events) ==
  /\ queue \in Seq(Statuses) /\ Len(queue) <= Depth
  /\ \A i \in 1..Len(queue) :
       queue[i].aligned => AnchoredIn(events, queue[i].epoch, queue[i].anchor)

\* Taking a status leaves the others.
LEMMA TailIs ==
  ASSUME NEW queue, NEW events, StatusesOK(queue, events), queue # <<>>
  PROVE  StatusesOK(Tail(queue), events)
<1>1. queue \in Seq(Statuses) /\ Len(queue) <= Depth /\ Depth \in Nat
  BY ChainAssumption DEF StatusesOK
<1>2. Tail(queue) \in Seq(Statuses) /\ Len(Tail(queue)) = Len(queue) - 1
  BY <1>1
<1>3. \A i \in 1..Len(Tail(queue)) :
        i + 1 \in 1..Len(queue) /\ Tail(queue)[i] = queue[i + 1]
  BY <1>1
<1>4. Len(Tail(queue)) <= Depth
  BY <1>1, <1>2
<1> QED
  BY <1>2, <1>3, <1>4 DEF StatusesOK

\* Sending one, and dropping the oldest of a full topic, leaves only good ones.
LEMMA KeptIs ==
  ASSUME NEW queue, NEW events, StatusesOK(queue, events), NEW m \in Statuses,
         m.aligned => AnchoredIn(events, m.epoch, m.anchor)
  PROVE  StatusesOK(Kept(Append(queue, m)), events)
<1> DEFINE q == Append(queue, m)
<1>1. queue \in Seq(Statuses) /\ Len(queue) <= Depth /\ Depth \in Nat \ {0}
  BY ChainAssumption DEF StatusesOK
<1>2. q \in Seq(Statuses) /\ Len(q) = Len(queue) + 1 /\ q[Len(queue) + 1] = m
  BY <1>1
<1>3. \A i \in 1..Len(queue) : q[i] = queue[i]
  BY <1>1
<1> HIDE DEF q
<1>4. \A i \in 1..Len(q) : q[i].aligned => AnchoredIn(events, q[i].epoch, q[i].anchor)
  <2> TAKE i \in 1..Len(q)
  <2>1. CASE i \in 1..Len(queue)
    BY <1>3, <2>1 DEF StatusesOK
  <2>2. CASE i = Len(queue) + 1
    BY <1>2, <2>2
  <2> QED
    BY <1>1, <1>2, <2>1, <2>2
<1>5. CASE Len(q) <= Depth
  BY <1>1, <1>2, <1>4, <1>5 DEF StatusesOK, Kept, q
<1>6. CASE Len(q) > Depth
  <2>1. Len(q) \in Nat /\ q # <<>>
    BY <1>1, <1>2, <1>6
  <2>2. Tail(q) \in Seq(Statuses) /\ Len(Tail(q)) = Len(q) - 1
    BY <1>2, <2>1
  <2>3. \A i \in 1..Len(Tail(q)) : i + 1 \in 1..Len(q) /\ Tail(q)[i] = q[i + 1]
    BY <1>2, <2>1
  <2>4. Len(Tail(q)) <= Depth
    BY <1>1, <1>2, <2>2
  <2>5. StatusesOK(Tail(q), events)
    BY <1>4, <2>2, <2>3, <2>4 DEF StatusesOK
  <2>6. Kept(q) = Tail(q)
    BY <1>6 DEF Kept
  <2> QED
    BY <2>5, <2>6 DEF q
<1> QED
  BY <1>1, <1>2, <1>5, <1>6


\* The types of the remaining variables.
LEMMA RestOfTypes ==
  ASSUME ChainInv, [Next]_vars
  PROVE  read' \in 0..Len(log') /\ identity' \in BOOLEAN /\ latched' \in BOOLEAN
         /\ faults' \in Nat
<1>1. /\ read \in 0..Len(log) /\ log \in Seq(Events) /\ identity \in BOOLEAN
      /\ latched \in BOOLEAN /\ faults \in Nat
  BY DEF ChainInv, TypeOK
<1>2. read' \in 0..Len(log')
  <2>1. CASE UNCHANGED read
    <3>1. Len(log) <= Len(log') /\ Len(log') \in Nat
      <4>1. LogStep
        BY NdtSteps
      <4>2. ASSUME NEW x \in Events, log' = Append(log, x)
            PROVE  Len(log) <= Len(log') /\ Len(log') \in Nat
        BY <1>1, <4>2
      <4> QED
        BY <1>1, <4>1, <4>2 DEF LogStep
    <3>2. read \in 0..Len(log) /\ Len(log) \in Nat
      BY <1>1
    <3> QED
      BY <2>1, <3>1, <3>2
  <2>2. CASE AnchorArrives \/ FutureAnchorArrives
    <3>1. read < Len(log) /\ read' = read + 1 /\ log' = log
      BY <2>2 DEF AnchorArrives, FutureAnchorArrives, AnchorTaken
    <3> QED
      BY <1>1, <3>1
  <2>3. CASE Restarts
    <3>1. read' = (IF Len(log) > History THEN Len(log) - History ELSE 0) /\ log' = log
      BY <2>3 DEF Restarts
    <3> QED
      BY <1>1, <3>1, ChainAssumption
  <2> QED
    BY <2>1, <2>2, <2>3
       DEF Next, vars, Ndt, Monitor, Receiver, NdtReset, NdtClockJump, NdtRejects,
           NdtCommits, NdtCommitsUnsound, Commits, Publishes, MalformedAnchorArrives,
           Ticks, MonitorInputs, MonitorUpset, StatusTaken, StatusRefused, ReceiverAges,
           IdentityTaken, ReceiverClockBack, upstream
<1>3. faults' \in Nat
  <2>1. CASE UNCHANGED faults
    BY <1>1, <2>1
  <2>2. CASE Misfortune
    BY <1>1, <2>2 DEF Misfortune
  <2> QED
    BY <2>1, <2>2
       DEF Next, vars, Ndt, Monitor, Receiver, NdtReset, NdtClockJump, NdtRejects,
           NdtCommits, NdtCommitsUnsound, AnchorArrives, FutureAnchorArrives,
           MalformedAnchorArrives, Ticks, MonitorInputs, MonitorUpset, Restarts,
           StatusTaken, StatusRefused, ReceiverAges, IdentityTaken, ReceiverClockBack
<1>4. identity' \in BOOLEAN /\ latched' \in BOOLEAN
  <2>1. CASE UNCHANGED <<identity, latched>>
    BY <1>1, <2>1
  <2>2. CASE Restarts \/ IdentityTaken \/ ReceiverClockBack
    BY <1>1, <2>2 DEF Restarts, IdentityTaken, ReceiverClockBack
  <2> QED
    BY <2>1, <2>2
       DEF Next, vars, Ndt, Monitor, Receiver, NdtReset, NdtClockJump, NdtRejects,
           NdtCommits, NdtCommitsUnsound, Commits, Publishes, AnchorArrives,
           FutureAnchorArrives, AnchorTaken, MalformedAnchorArrives, Ticks, MonitorInputs,
           MonitorUpset, StatusTaken, StatusRefused, ReceiverAges, downstream
<1> QED
  BY <1>2, <1>3, <1>4

-----------------------------------------------------------------------------
(* The chain.                                                              *)

\* A monitor that starts anew holds nothing.
LEMMA NoMonitorHolds == Holds(NoMonitor) /\ NoMonitor.publishEpoch = NoMonitor.epoch
<1>1. 0 \in Epochs /\ {} \in SUBSET (1..MaxEpoch)
  BY ChainAssumption DEF Epochs
<1>2. NoMonitor \in Monitors
  BY <1>1 DEF NoMonitor, Monitors
<1>3. /\ NoMonitor.epoch = 0 /\ NoMonitor.retired = {} /\ NoMonitor.ready = FALSE
      /\ NoMonitor.aligned = 0 /\ NoMonitor.publishEpoch = 0
  BY DEF NoMonitor
<1> QED
  BY <1>2, <1>3 DEF Holds, ReadyIsAligned

\* A receiver that starts anew has left nothing.
LEMMA NoReceiverIs ==
  /\ NoReceiver \in Receivers /\ NoReceiver.epoch = 0 /\ NoReceiver.retired = {}
  /\ NoReceiver.qualified = FALSE
<1>1. 0 \in Epochs /\ {} \in SUBSET (1..MaxEpoch) /\ -1 \in Int
  BY ChainAssumption DEF Epochs
<1> QED
  BY <1>1 DEF NoReceiver, Receivers

\* What a monitor that has published holds.
LEMMA PublishingHolds ==
  ASSUME Publishing
  PROVE  /\ Holds(monitor') /\ monitor'.publishEpoch = monitor'.epoch
         /\ monitor'.ready => Fresh(monitor')
<1>1. PICK x : Handled(x) /\ monitor' = Published(x)
  BY DEF Publishing
<1> QED
  BY <1>1, PublishedIs DEF Handled

\* The chain starts in its invariant.
LEMMA ChainStarts == Init => ChainInv
<1> SUFFICES ASSUME Init PROVE ChainInv
  OBVIOUS
<1>1. Holds(monitor) /\ monitor.publishEpoch = monitor.epoch
  BY NoMonitorHolds DEF Init
<1>2. receiver \in Receivers /\ receiver.qualified = FALSE
  BY NoReceiverIs DEF Init
<1>3. log \in Seq(Events) /\ Len(log) = 0 /\ status \in Seq(Statuses) /\ Len(status) = 0
  BY DEF Init
<1>4. ndt \in [epoch : Epochs, event : Nat, anchor : Nat, jumped : BOOLEAN]
  BY ChainAssumption DEF Init, Epochs
<1>5. TypeOK
  <2>1. read \in 0..Len(log) /\ Len(status) <= Depth
    BY <1>3, ChainAssumption DEF Init
  <2> QED
    BY <1>1, <1>2, <1>3, <1>4, <2>1 DEF Init, TypeOK, Holds
<1>6. MonitorInv
  BY <1>1 DEF MonitorInv, Holds
<1>7. LogInv /\ StatusInv
  BY <1>3 DEF LogInv, StatusInv
<1> QED
  BY <1>2, <1>5, <1>6, <1>7 DEF ChainInv, QualifiedIsAnchored

\* Every step keeps it.
LEMMA ChainSteps == ChainInv /\ [Next]_vars => ChainInv'
<1> SUFFICES ASSUME ChainInv, [Next]_vars PROVE ChainInv'
  OBVIOUS
<1>1. MonitorStep /\ ReceiverStep /\ LogStep /\ NdtTypeOK'
  BY MonitorSteps, ReceiverSteps, NdtSteps
<1>2. log \in Seq(Events) /\ log' \in Seq(Events)
  <2>1. log \in Seq(Events)
    BY DEF ChainInv, TypeOK
  <2> QED
    BY <1>1, <2>1 DEF LogStep
<1>3. \A epoch, anchor : AnchoredIn(log, epoch, anchor) => AnchoredIn(log', epoch, anchor)
  BY <1>1, <1>2, AnchoredStays DEF LogStep
<1>4. Holds(monitor') /\ monitor'.publishEpoch = monitor'.epoch
  <2>1. CASE monitor' = NoMonitor
    BY <2>1, NoMonitorHolds
  <2>2. CASE Quiet(monitor')
    BY <2>2 DEF Quiet, Handled, SameRun, ChainInv, MonitorInv
  <2>3. CASE Publishing
    BY <2>3, PublishingHolds
  <2> QED
    BY <1>1, <2>1, <2>2, <2>3 DEF MonitorStep
<1>5. MonitorInv'
  BY <1>3, <1>4 DEF MonitorInv, Holds, Anchored
<1>6. LogInv'
  <2>1. ASSUME NEW x \in Events, x.epoch # 0, log' = Append(log, x)
        PROVE  \A i \in 1..Len(log') : log'[i].epoch # 0
    <3> TAKE i \in 1..Len(log')
    <3>1. (i \in 1..Len(log) /\ log'[i] = log[i]) \/ log'[i] = x
      BY <1>2, <2>1
    <3> QED
      BY <2>1, <3>1 DEF ChainInv, LogInv
  <2> QED
    BY <1>1, <2>1 DEF LogStep, LogInv, ChainInv
<1>7. StatusesOK(status', log')
  <2>1. StatusesOK(status, log)
    BY DEF ChainInv, TypeOK, StatusInv, StatusesOK, Anchored
  <2>2. StatusesOK(status, log')
    BY <1>3, <2>1 DEF StatusesOK
  <2>3. CASE Publishing /\ UNCHANGED log
    <3>1. /\ Status(monitor') \in Statuses
          /\ Status(monitor').aligned =>
               AnchoredIn(log, Status(monitor').epoch, Status(monitor').anchor)
      BY <2>3, PublishingHolds, StatusIs DEF Anchored
    <3>2. status' = Kept(Append(status, Status(monitor')))
      BY <2>3 DEF Publishing, Sends
    <3> QED
      BY <2>1, <2>3, <3>1, <3>2, KeptIs
  <2>4. CASE Taking
    BY <2>2, <2>4, TailIs DEF Taking
  <2>5. CASE UNCHANGED <<log, status>>
    BY <2>1, <2>5
  <2> QED
    BY <1>1, <2>3, <2>4, <2>5 DEF MonitorStep
<1>8. StatusInv'
  BY <1>7 DEF StatusesOK, StatusInv, Anchored
<1>9. receiver' \in Receivers
      /\ (receiver'.qualified => AnchoredIn(log', receiver'.epoch, receiver'.anchor))
  <2>1. CASE receiver' = NoReceiver
    BY <2>1, NoReceiverIs
  <2>2. CASE receiver' \in Receivers /\ KeepsQualification(receiver')
    BY <1>3, <2>2 DEF KeepsQualification, ChainInv, QualifiedIsAnchored, Anchored
  <2>3. ASSUME receiver' \in Receivers, UNCHANGED log, NEW i \in 1..Len(status),
               receiver'.epoch = status[i].epoch, receiver'.anchor = status[i].anchor,
               receiver'.qualified = status[i].aligned
        PROVE  receiver'.qualified => AnchoredIn(log', receiver'.epoch, receiver'.anchor)
    BY <2>3 DEF ChainInv, StatusInv, Anchored
  <2> QED
    BY <1>1, <2>1, <2>2, <2>3 DEF ReceiverStep
<1>10. QualifiedIsAnchored'
  BY <1>9 DEF QualifiedIsAnchored, Anchored
<1>11. TypeOK'
  BY <1>1, <1>2, <1>4, <1>7, <1>9, RestOfTypes DEF TypeOK, Holds, StatusesOK, NdtTypeOK
<1> QED
  BY <1>5, <1>6, <1>8, <1>10, <1>11 DEF ChainInv

\* The invariant of the chain.
LEMMA ChainInvariant == Spec => []ChainInv
  BY ChainStarts, ChainSteps, PTL DEF Spec

\* Every variable keeps its type and the status topic its depth, whatever arrives.
THEOREM ChainTypeCorrect == Spec => []TypeOK
<1>1. ChainInv => TypeOK
  BY DEF ChainInv
<1> QED
  BY <1>1, ChainInvariant, PTL

\* The MPCC runtime never holds a qualified alignment that NDT did not commit under
\* the epoch and anchor it names, through restarts, replays, lost messages, rejected
\* commits and clocks that go back.
THEOREM QualifiedAlignmentIsAnchored == Spec => []QualifiedIsAnchored
<1>1. ChainInv => QualifiedIsAnchored
  BY DEF ChainInv
<1> QED
  BY <1>1, ChainInvariant, PTL

-----------------------------------------------------------------------------
(* The record of what was published and left.                              *)

\* A handler that publishes goes on in its epoch or into a new one.
LEMMA PublishingOnward ==
  ASSUME Publishing
  PROVE  Onward(monitor', monitor) /\ Publication
<1>1. PICK x : Handled(x) /\ monitor' = Published(x)
  BY DEF Publishing
<1>2. /\ monitor'.epoch = x.epoch /\ monitor'.retired = x.retired
      /\ monitor'.clockInvalid = x.clockInvalid /\ Owing(monitor', x)
      /\ monitor'.sequence > 0
      /\ <<monitor'.publishEpoch, monitor'.sequence>> # <<x.publishEpoch, x.sequence>>
  BY <1>1, PublishedIs DEF Handled
<1>3. Onward(monitor', monitor)
  BY <1>1, <1>2 DEF Handled, Onward, Owing
<1>4. monitor' # NoMonitor
  <2>1. NoMonitor.sequence = 0
    BY DEF NoMonitor
  <2> QED
    BY <1>2, <2>1
<1>5. Publication
  BY <1>1, <1>2, <1>4 DEF Publication, Handled
<1> QED
  BY <1>3, <1>5

\* A publication is what a publishing handler does, and nothing else is.
LEMMA PublicationIs ==
  ASSUME ChainInv, [Next]_vars
  PROVE  /\ monitor' = NoMonitor \/ Onward(monitor', monitor)
         /\ Publication => Publishing
         /\ ~Publication => \/ monitor' = NoMonitor
                            \/ monitor'.epoch = monitor.epoch /\ Quiet(monitor')
<1>1. MonitorStep
  BY MonitorSteps
<1>2. CASE monitor' = NoMonitor
  BY <1>2 DEF Publication
<1>3. CASE Quiet(monitor')
  BY <1>3 DEF Quiet, Handled, SameRun, Publication
<1>4. CASE Publishing
  BY <1>4, PublishingOnward
<1> QED
  BY <1>1, <1>2, <1>3, <1>4 DEF MonitorStep

\* Once its loss was reported, an epoch is reported ready RecoveryCommits anchors on.
LEMMA RecoveryStep ==
  ASSUME HistoryInv, [Next]_vars, Publication, SameEpoch, lost, ReadyNow
  PROVE  monitor'.anchor >= ready + RecoveryCommits
<1>1. ChainInv /\ ready \in Nat /\ Owes(monitor, ready, 0) /\ ready # 0 /\ ~monitor.ready
  BY DEF HistoryInv, RecoveryInv
<1>2. Publishing /\ Onward(monitor', monitor)
  BY <1>1, PublicationIs DEF Publication
<1>3. monitor'.ready /\ monitor' \in Monitors
  BY <1>2, PublishingHolds, StatusIs DEF ReadyNow, Holds
<1>4. Owing(monitor', monitor)
  BY <1>1, <1>2 DEF Onward, SameEpoch, ChainInv, MonitorInv
<1>5. Owes(monitor, ready, RecoveryCommits) /\ RecoveryCommits \in 0..RecoveryCommits
  BY <1>1, ChainAssumption DEF Owes
<1>6. Owes(monitor', ready, RecoveryCommits)
  BY <1>1, <1>4, <1>5 DEF Owing
<1>7. ready + RecoveryCommits <= monitor'.anchor
  BY <1>1, <1>3, <1>6 DEF Owes
<1>8. monitor'.anchor \in Nat /\ RecoveryCommits \in Nat
  BY <1>3, ChainAssumption DEF Monitors
<1> QED
  BY <1>1, <1>7, <1>8

\* No epoch whose clock went back is reported ready.
LEMMA RewindStep ==
  ASSUME HistoryInv, [Next]_vars, Publication, ReadyNow
  PROVE  monitor'.epoch \notin rewound
<1>1. ChainInv /\ RewoundInv
  BY DEF HistoryInv
<1>2. Publishing /\ Onward(monitor', monitor)
  BY <1>1, PublicationIs DEF Publication
<1>3. ~monitor'.clockInvalid /\ monitor'.epoch \notin monitor'.retired
  BY <1>2, PublishingHolds, StatusIs DEF ReadyNow, Holds, Fresh
<1> QED
  BY <1>1, <1>2, <1>3 DEF Onward, RewoundInv

\* The history starts in its invariant.
LEMMA HistoryStarts == HistoryInit => HistoryInv
<1> SUFFICES ASSUME HistoryInit PROVE HistoryInv
  OBVIOUS
<1>1. ChainInv
  BY ChainStarts DEF HistoryInit
<1>2. LeftInv
  BY NoReceiverIs DEF HistoryInit, Init, LeftInv
<1>3. RewoundInv
  BY DEF HistoryInit, RewoundInv
<1>4. RecoveryInv
  BY DEF HistoryInit, RecoveryInv, Owes
<1> QED
  BY <1>1, <1>2, <1>3, <1>4 DEF HistoryInv

\* Every step keeps it.
LEMMA HistorySteps == HistoryInv /\ [HistoryNext]_historyVars => HistoryInv'
<1> SUFFICES ASSUME HistoryInv, [HistoryNext]_historyVars PROVE HistoryInv'
  OBVIOUS
<1>1. [Next]_vars /\ ChainInv
  BY DEF HistoryNext, historyVars, HistoryInv
<1>2. ChainInv'
  BY <1>1, ChainSteps
<1>3. CASE UNCHANGED historyVars
  <2>1. UNCHANGED <<monitor, receiver, ready, lost, rewound, left>>
    BY <1>3 DEF historyVars, history, vars
  <2> QED
    BY <1>2, <2>1 DEF HistoryInv, LeftInv, RewoundInv, RecoveryInv, Owes
<1>4. CASE HistoryNext
  <2>1. LeftInv'
    <3>1. CASE receiver' = NoReceiver
      BY <1>4, <3>1, NoReceiverIs DEF HistoryNext, RecordsLeft, LeftInv
    <3>2. CASE receiver' # NoReceiver
      <4>1. Follows(receiver')
        BY <1>1, <3>2, ReceiverSteps DEF ReceiverStep
      <4>2. left' = IF receiver'.epoch # receiver.epoch THEN left \cup {receiver.epoch}
                    ELSE left
        BY <1>4, <3>2 DEF HistoryNext, RecordsLeft
      <4>3. LeftInv
        BY DEF HistoryInv
      <4> QED
        BY <4>1, <4>2, <4>3 DEF Follows, LeftInv
    <3> QED
      BY <3>1, <3>2
  <2>2. RewoundInv'
    <3>1. CASE monitor' = NoMonitor
      BY <1>4, <3>1 DEF HistoryNext, RecordsRewind, RewoundInv
    <3>2. CASE monitor' # NoMonitor /\ monitor' = Rewound /\ monitor' # monitor
      <4>1. rewound' = rewound \cup {monitor.epoch}
        BY <1>4, <3>2 DEF HistoryNext, RecordsRewind
      <4>2. monitor \in Monitors
        BY <1>1, MonitorHandled
      <4>3. /\ monitor'.epoch = monitor.epoch /\ monitor'.retired = monitor.retired
            /\ monitor'.clockInvalid = TRUE
        BY <3>2, <4>2, InvalidatedIs DEF Rewound, Monitors, SameRun
      <4> QED
        BY <4>1, <4>3 DEF HistoryInv, RewoundInv
    <3>3. CASE monitor' # NoMonitor /\ ~(monitor' = Rewound /\ monitor' # monitor)
      <4>1. rewound' = rewound
        BY <1>4, <3>3 DEF HistoryNext, RecordsRewind
      <4>2. Onward(monitor', monitor)
        BY <1>1, <3>3, PublicationIs
      <4>3. RewoundInv
        BY DEF HistoryInv
      <4> QED
        BY <4>1, <4>2, <4>3 DEF Onward, RewoundInv
    <3> QED
      BY <3>1, <3>2, <3>3
  <2>3. RecoveryInv'
    <3>1. RecoveryInv /\ RecordsReady
      BY <1>4 DEF HistoryInv, HistoryNext
    <3>2. CASE Publication
      <4>1. Publishing /\ monitor' # NoMonitor
        BY <1>1, <3>2, PublicationIs DEF Publication
      <4>2. ReadyNow = monitor'.ready /\ monitor' \in Monitors
        BY <4>1, PublishingHolds, StatusIs DEF ReadyNow, Holds
      <4>3. monitor'.anchor \in Nat
        BY <4>2 DEF Monitors
      <4>4. CASE ReadyNow
        <5>1. ready' = monitor'.anchor /\ lost' = FALSE
          BY <3>1, <3>2, <4>4 DEF RecordsReady
        <5>2. monitor'.anchor + 0 <= monitor'.anchor
          BY <4>3
        <5>3. monitor'.ready
          BY <4>2, <4>4
        <5>4. Owes(monitor, ready, 0)'
          BY <5>1, <5>2, <5>3 DEF Owes
        <5> QED
          BY <4>3, <5>1, <5>4 DEF RecoveryInv
      <4>5. CASE ~ReadyNow /\ SameEpoch
        <5>1. ready' = ready /\ lost' = (ready' # 0)
          BY <3>1, <3>2, <4>5 DEF RecordsReady
        <5>2. Owing(monitor', monitor)
          BY <1>1, <4>1, <4>5, PublishingOnward
             DEF Onward, SameEpoch, ChainInv, MonitorInv
        <5>3. Owes(monitor', ready, 0)
          <6>1. 0 \in 0..RecoveryCommits
            BY ChainAssumption
          <6> QED
            BY <3>1, <5>2, <6>1 DEF RecoveryInv, Owing
        <5>4. Owes(monitor, ready, 0)'
          BY <5>1, <5>3 DEF Owes
        <5> QED
          BY <3>1, <4>2, <4>5, <5>1, <5>4 DEF RecoveryInv
      <4>6. CASE ~ReadyNow /\ ~SameEpoch
        <5>1. ready' = 0 /\ lost' = FALSE
          BY <3>1, <3>2, <4>6 DEF RecordsReady
        <5> QED
          BY <5>1 DEF RecoveryInv, Owes
      <4> QED
        BY <4>4, <4>5, <4>6
    <3>3. CASE ~Publication /\ monitor' = NoMonitor
      <4>1. ready' = 0 /\ lost' = FALSE
        BY <3>1, <3>3 DEF RecordsReady
      <4> QED
        BY <4>1 DEF RecoveryInv, Owes
    <3>4. CASE ~Publication /\ monitor' # NoMonitor
      <4>1. UNCHANGED <<ready, lost>>
        BY <3>1, <3>4 DEF RecordsReady
      <4>2. Quiet(monitor') /\ monitor'.epoch = monitor.epoch
        BY <1>1, <3>4, PublicationIs
      <4>3. Owing(monitor', monitor) /\ (monitor'.ready => monitor.ready)
        BY <4>2 DEF Quiet, Handled, Onward
      <4>4. Owes(monitor', ready, 0)
        <5>1. 0 \in 0..RecoveryCommits
          BY ChainAssumption
        <5> QED
          BY <3>1, <4>3, <5>1 DEF RecoveryInv, Owing
      <4>5. Owes(monitor, ready, 0)'
        BY <4>1, <4>4 DEF Owes
      <4> QED
        BY <3>1, <4>1, <4>3, <4>5 DEF RecoveryInv
    <3> QED
      BY <3>2, <3>3, <3>4
  <2> QED
    BY <1>2, <2>1, <2>2, <2>3 DEF HistoryInv
<1> QED
  BY <1>3, <1>4

\* The invariant of the chain with its history.
LEMMA HistoryInvariant == HistorySpec => []HistoryInv
  BY HistoryStarts, HistorySteps, PTL DEF HistorySpec

\* With its history the chain is the chain, so its theorems hold there too.
LEMMA HistoryIsChain == HistorySpec => Spec
<1>1. HistoryInit => Init
  BY DEF HistoryInit
<1>2. [HistoryNext]_historyVars => [Next]_vars
  BY DEF HistoryNext, historyVars
<1> QED
  BY <1>1, <1>2, PTL DEF HistorySpec, Spec

\* LocalizationHealth never returns to an epoch it has left, even when a restarted
\* monitor replays the events of old ones.
THEOREM LeftEpochsAreLeft == HistorySpec => []LeftEpochsStayLeft
<1>1. HistoryInv => LeftEpochsStayLeft
  BY DEF HistoryInv, LeftInv, LeftEpochsStayLeft
<1> QED
  BY <1>1, HistoryInvariant, PTL

\* After the monitor has reported the loss of an epoch it had reported ready, it
\* reports it ready again only RecoveryCommits anchors later.
THEOREM RecoveryIsEarned == HistorySpec => RecoveryNeedsCommits
<1>1. HistoryInv /\ [HistoryNext]_historyVars =>
        [Publication /\ SameEpoch /\ lost /\ ReadyNow
           => monitor'.anchor >= ready + RecoveryCommits]_historyVars
  BY RecoveryStep DEF HistoryNext, historyVars
<1> QED
  BY <1>1, HistoryInvariant, PTL DEF HistorySpec, RecoveryNeedsCommits

\* A monitor that has seen the ROS clock go back never reports the epoch of that
\* moment ready again.
THEOREM RewoundEpochsEnd == HistorySpec => RewindNeedsNewEpoch
<1>1. HistoryInv /\ [HistoryNext]_historyVars =>
        [Publication /\ ReadyNow => monitor'.epoch \notin rewound]_historyVars
  BY RewindStep DEF HistoryNext, historyVars
<1> QED
  BY <1>1, HistoryInvariant, PTL DEF HistorySpec, RewindNeedsNewEpoch

-----------------------------------------------------------------------------
(* What the runtime's record says of itself.                               *)

\* A status on its way that claims readiness claims an alignment.
ReadyStatusesAligned == \A i \in 1..Len(status) : status[i].ready => status[i].aligned

\* The runtime takes localization for ready only over a qualified alignment, and
\* only over an anchor newer than any loss it was told of in this epoch.
ReadyRunsAhead ==
  receiver.ready => receiver.qualified /\ receiver.loss < receiver.anchor

\* What a message does to a record that it does not replace.
Grows(old, new) ==
  old.heard <= new.heard /\ old.anchor <= new.anchor /\ old.loss <= new.loss

\* A status that is lost, repeated or late takes nothing back: while the receiver
\* stays in an epoch, neither its sequence number nor its anchor nor the loss it
\* recorded goes back, unless the clock does.
RecordGrows ==
  [][\/ receiver' = NoReceiver
     \/ receiver'.epoch # receiver.epoch
     \/ Grows(receiver, receiver')]_vars

\* The readiness of a record is backed by what it holds.
Backed(r) == r.ready => r.qualified /\ r.loss < r.anchor
\* What a receiver's step may make of its record r: n.
Onwards(r, n) == n = NoReceiver \/ n.epoch # r.epoch \/ Grows(r, n)

\* Nothing or a withdrawal leaves the numbers alone.
LEMMA NoMessageBacked ==
  ASSUME NEW r \in Receivers, Backed(r)
  PROVE  /\ Backed(r) /\ Grows(r, r)
         /\ Backed(Unreadable(r)) /\ Grows(r, Unreadable(r))
         /\ Backed([r EXCEPT !.heartbeat = FALSE]) /\ Grows(r, [r EXCEPT !.heartbeat = FALSE])
         /\ Backed([r EXCEPT !.recent = FALSE]) /\ Grows(r, [r EXCEPT !.recent = FALSE])
<1>1. r.heard \in Int /\ r.anchor \in Int /\ r.loss \in Int
  BY DEF Receivers
<1>2. r.heard <= r.heard /\ r.anchor <= r.anchor /\ r.loss <= r.loss
  BY <1>1
<1>3. LET n == Unreadable(r) IN
      ~n.ready /\ n.heard = r.heard /\ n.anchor = r.anchor /\ n.loss = r.loss
  BY DEF Unreadable, Receivers
<1>4. LET n == [r EXCEPT !.heartbeat = FALSE] IN
      /\ n.ready = r.ready /\ n.qualified = r.qualified
      /\ n.heard = r.heard /\ n.anchor = r.anchor /\ n.loss = r.loss
  BY DEF Receivers
<1>5. LET n == [r EXCEPT !.recent = FALSE] IN
      /\ n.ready = r.ready /\ n.qualified = r.qualified
      /\ n.heard = r.heard /\ n.anchor = r.anchor /\ n.loss = r.loss
  BY DEF Receivers
<1> HIDE DEF Unreadable
<1> QED
  BY <1>2, <1>3, <1>4, <1>5 DEF Backed, Grows

\* An accepted status is newer, and its readiness is over its own anchor.
LEMMA AcceptedBacked ==
  ASSUME NEW r \in Receivers, NEW m \in Statuses, NEW young \in BOOLEAN,
         m.ready => m.aligned, r.heard < m.sequence, r.anchor <= m.anchor
  PROVE  LET n == Accepted(r, m, young) IN Backed(n) /\ Grows(r, n) /\ n.epoch = r.epoch
<1> DEFINE b == m.ready /\ m.anchor > Lost(r, m)
           c == IF m.anchor > r.anchor THEN young ELSE r.recent
           n == Accepted(r, m, young)
<1>1. /\ m.sequence \in Int /\ m.anchor \in Int /\ m.aligned \in BOOLEAN
      /\ r.heard \in Int /\ r.anchor \in Int /\ r.loss \in Int
  BY DEF Statuses, Receivers
<1>2. Lost(r, m) \in Int /\ r.loss <= Lost(r, m)
  BY <1>1 DEF Lost
<1>3. n = [r EXCEPT !.heard = m.sequence, !.anchor = m.anchor, !.loss = Lost(r, m),
             !.ready = b, !.qualified = m.aligned, !.heartbeat = TRUE, !.recent = c]
  BY DEF Accepted, Qualified, Receivers
<1>4. b => m.aligned /\ m.anchor > Lost(r, m)
  OBVIOUS
<1> HIDE DEF b, c, n
<1>5. /\ n.heard = m.sequence /\ n.anchor = m.anchor /\ n.loss = Lost(r, m)
      /\ n.ready = b /\ n.qualified = m.aligned /\ n.epoch = r.epoch
  BY <1>3 DEF Receivers
<1>6. Grows(r, n)
  BY <1>1, <1>2, <1>5 DEF Grows
<1>7. Backed(n)
  BY <1>1, <1>2, <1>4, <1>5 DEF Backed
<1> QED
  BY <1>5, <1>6, <1>7 DEF n

\* A status whose readiness is aligned leaves a backed record, and no older one.
LEMMA ObserveBacked ==
  ASSUME receiver \in Receivers, Backed(receiver), NEW m \in Statuses,
         NEW young \in BOOLEAN, m.ready => m.aligned
  PROVE  LET r == Observe(m, young) IN Backed(r) /\ Onwards(receiver, r)
<1>1. CASE m.epoch = 0
  BY <1>1, NoMessageBacked DEF Observe, Onwards
<1>2. CASE m.epoch # 0 /\ m.epoch \in receiver.retired
  BY <1>2, NoMessageBacked DEF Observe, Onwards
<1>3. CASE m.epoch # 0 /\ m.epoch \notin receiver.retired
  <2> DEFINE a == Adopted(m.epoch)
             late == [a EXCEPT !.heard = m.sequence]
  <2>1. m.epoch \in Epochs /\ m.sequence \in Int /\ m.anchor \in Int
    BY DEF Statuses
  <2>2. a \in Receivers /\ a.epoch = m.epoch
    BY <1>3, <2>1, AdoptedIs
  <2>3. Backed(a) /\ (a.epoch = receiver.epoch => a = receiver)
    BY DEF Adopted, NoReceiver, Backed
  <2>4. Observe(m, young) = IF m.sequence <= a.heard THEN a
                            ELSE IF m.anchor < a.anchor THEN late
                            ELSE Accepted(a, m, young)
    BY <1>3 DEF Observe
  <2> HIDE DEF a
  <2>5. a.heard \in Int /\ a.anchor \in Int /\ a.loss \in Int
    BY <2>2 DEF Receivers
  <2>6. /\ late.heard = m.sequence /\ late.anchor = a.anchor /\ late.loss = a.loss
        /\ late.ready = a.ready /\ late.qualified = a.qualified /\ late.epoch = a.epoch
    BY <2>2 DEF Receivers
  <2> HIDE DEF late
  <2>7. CASE m.sequence <= a.heard
    <3>1. Grows(a, a)
      BY <2>5 DEF Grows
    <3> QED
      BY <2>3, <2>4, <2>7, <3>1 DEF Onwards
  <2>8. CASE m.sequence > a.heard /\ m.anchor < a.anchor
    <3>1. ~(m.sequence <= a.heard) /\ a.heard <= m.sequence
      BY <2>1, <2>5, <2>8
    <3>2. Observe(m, young) = late
      BY <2>4, <2>8, <3>1
    <3>3. Backed(late)
      BY <2>3, <2>6 DEF Backed
    <3>4. Grows(a, late)
      BY <2>5, <2>6, <3>1 DEF Grows
    <3> QED
      BY <2>3, <2>6, <3>2, <3>3, <3>4 DEF Onwards
  <2>9. CASE m.sequence > a.heard /\ ~(m.anchor < a.anchor)
    <3>1. ~(m.sequence <= a.heard) /\ a.heard < m.sequence /\ a.anchor <= m.anchor
      BY <2>1, <2>5, <2>9
    <3>2. Observe(m, young) = Accepted(a, m, young)
      BY <2>4, <2>9, <3>1
    <3>3. LET n == Accepted(a, m, young) IN Backed(n) /\ Grows(a, n) /\ n.epoch = a.epoch
      BY <2>2, <3>1, AcceptedBacked
    <3> QED
      BY <2>3, <3>2, <3>3 DEF Onwards
  <2> QED
    BY <2>1, <2>5, <2>7, <2>8, <2>9
<1> QED
  BY <1>1, <1>2, <1>3

\* Every step of the chain leaves the receiver a backed record, and no older one.
LEMMA ReceiverBacked ==
  ChainInv /\ ReadyStatusesAligned /\ Backed(receiver) /\ [Next]_vars =>
    Backed(receiver') /\ Onwards(receiver, receiver')
<1> SUFFICES ASSUME ChainInv, ReadyStatusesAligned, Backed(receiver), [Next]_vars
             PROVE  Backed(receiver') /\ Onwards(receiver, receiver')
  OBVIOUS
<1>1. receiver \in Receivers
  BY DEF ChainInv, TypeOK
<1>2. CASE UNCHANGED receiver
  BY <1>1, <1>2, NoMessageBacked DEF Onwards
<1>3. CASE StatusTaken
  <2>1. PICK young \in BOOLEAN : receiver' = Observe(Head(status), young)
    BY <1>3 DEF StatusTaken, StatusArrives
  <2>2. 1 \in 1..Len(status) /\ Head(status) = status[1] /\ status[1] \in Statuses
    BY <1>3 DEF StatusTaken, ChainInv, TypeOK
  <2>3. status[1].ready => status[1].aligned
    BY <2>2 DEF ReadyStatusesAligned
  <2> QED
    BY <1>1, <2>1, <2>2, <2>3, ObserveBacked
<1>4. CASE StatusRefused
  BY <1>1, <1>4, NoMessageBacked DEF StatusRefused, StatusOfAnotherMap, Onwards
<1>5. CASE ReceiverAges
  BY <1>1, <1>5, NoMessageBacked DEF ReceiverAges, HeartbeatLapses, AnchorAges, Onwards
<1>6. CASE IdentityTaken
  BY <1>2, <1>6 DEF IdentityTaken
<1>7. CASE ReceiverClockBack
  <2>1. receiver' = NoReceiver
    BY <1>7 DEF ReceiverClockBack, ReceiverReset
  <2> QED
    BY <2>1 DEF NoReceiver, Backed, Onwards
<1>8. CASE Ndt
  BY <1>2, <1>8 DEF Ndt, NdtReset, NdtClockJump, NdtRejects, NdtCommits,
                    NdtCommitsUnsound, Commits, Publishes, downstream
<1>9. CASE Monitor
  BY <1>2, <1>9 DEF Monitor, AnchorArrives, FutureAnchorArrives, AnchorTaken,
                    MalformedAnchorArrives, Ticks, MonitorInputs, MonitorUpset, Restarts,
                    downstream
<1>10. CASE UNCHANGED vars
  BY <1>2, <1>10 DEF vars
<1> QED
  BY <1>3, <1>4, <1>5, <1>6, <1>7, <1>8, <1>9, <1>10 DEF Next, Receiver

\* The monitor never sends readiness without alignment.
LEMMA ReadyStatusSteps ==
  ChainInv /\ ReadyStatusesAligned /\ [Next]_vars => ReadyStatusesAligned'
<1> SUFFICES ASSUME ChainInv, ReadyStatusesAligned, [Next]_vars
             PROVE  ReadyStatusesAligned'
  OBVIOUS
<1>1. status \in Seq(Statuses)
  BY DEF ChainInv, TypeOK
<1>2. CASE UNCHANGED status
  BY <1>2 DEF ReadyStatusesAligned
<1>3. CASE status # <<>> /\ status' = Tail(status)
  <2>1. \A i \in 1..Len(status') : i + 1 \in 1..Len(status) /\ status'[i] = status[i + 1]
    BY <1>1, <1>3
  <2> QED
    BY <2>1 DEF ReadyStatusesAligned
<1>4. CASE Publishing
  <2> DEFINE m == Status(monitor')
             q == Append(status, m)
  <2>1. m \in Statuses
    BY <1>4, PublishingHolds, StatusIs
  <2>2. m.ready => m.aligned
    BY DEF Status
  <2>3. status' = Kept(q)
    BY <1>4 DEF Publishing, Sends
  <2> HIDE DEF m
  <2>4. /\ q \in Seq(Statuses) /\ Len(q) = Len(status) + 1 /\ q[Len(status) + 1] = m
        /\ \A i \in 1..Len(status) : q[i] = status[i]
    BY <1>1, <2>1
  <2> HIDE DEF q
  <2>5. \A i \in 1..Len(q) : q[i].ready => q[i].aligned
    <3> TAKE i \in 1..Len(q)
    <3>1. i \in 1..Len(status) \/ i = Len(status) + 1
      BY <1>1, <2>4
    <3> QED
      BY <2>2, <2>4, <3>1 DEF ReadyStatusesAligned
  <2>6. \A i \in 1..Len(Tail(q)) : i + 1 \in 1..Len(q) /\ Tail(q)[i] = q[i + 1]
    <3>1. q # <<>>
      BY <1>1, <2>4
    <3> QED
      BY <2>4, <3>1
  <2> QED
    BY <2>3, <2>5, <2>6 DEF Kept, ReadyStatusesAligned
<1>5. MonitorStep
  BY MonitorSteps
<1> QED
  BY <1>2, <1>3, <1>4, <1>5 DEF MonitorStep, Taking

\* The two together.
LEMMA BackedInvariant == Spec => [](ReadyStatusesAligned /\ ReadyRunsAhead)
<1>1. Init => ReadyStatusesAligned /\ ReadyRunsAhead
  BY DEF Init, ReadyStatusesAligned, ReadyRunsAhead, NoReceiver
<1>2. ChainInv /\ ReadyStatusesAligned /\ ReadyRunsAhead /\ [Next]_vars =>
        ReadyStatusesAligned' /\ ReadyRunsAhead'
  BY ReceiverBacked, ReadyStatusSteps DEF Backed, ReadyRunsAhead
<1> QED
  BY <1>1, <1>2, ChainInvariant, PTL DEF Spec

\* The runtime takes localization for ready only over a qualified alignment and an
\* anchor newer than any loss it was told of, whatever the topic loses or repeats.
THEOREM ReadinessIsAhead == Spec => []ReadyRunsAhead
  BY BackedInvariant, PTL

\* Within an epoch the record only goes forward.
THEOREM RecordOnlyGrows == Spec => RecordGrows
<1>1. ChainInv /\ ReadyStatusesAligned /\ ReadyRunsAhead /\ [Next]_vars =>
        [\/ receiver' = NoReceiver
         \/ receiver'.epoch # receiver.epoch
         \/ Grows(receiver, receiver')]_vars
  BY ReceiverBacked DEF Backed, ReadyRunsAhead, Onwards
<1> QED
  BY <1>1, ChainInvariant, BackedInvariant, PTL DEF Spec, RecordGrows

-----------------------------------------------------------------------------
(* The map's identity: why ClockResetRecovers fails, and what brings the   *)
(* identity back.                                                          *)

\* Nothing on its way can tell the receiver which map the bundle is for.
Forgotten == ~identity /\ ~latched

\* The monitor process goes on running.
NoRestart == [][~Restarts]_vars

\* IdentityTaken's fairness (the provers know nothing of ENABLED): a latched sample
\* is taken, again and again.
IdentityDelivered == []<>(~latched) \/ []<><<IdentityTaken>>_vars

\* Only a restart puts a new sample on the topic, and only a sample restores the
\* identity.
LEMMA IdentitySteps ==
  [Next]_vars =>
    /\ Forgotten /\ [~Restarts]_vars => Forgotten'
    /\ latched => latched' \/ identity'
    /\ Restarts => latched'
    /\ IdentityTaken => identity'
<1> SUFFICES ASSUME [Next]_vars
             PROVE  /\ Forgotten /\ [~Restarts]_vars => Forgotten'
                    /\ latched => latched' \/ identity'
                    /\ Restarts => latched'
                    /\ IdentityTaken => identity'
  OBVIOUS
<1>1. Restarts => latched' = TRUE
  BY DEF Restarts
<1>2. IdentityTaken => latched /\ identity' = TRUE
  BY DEF IdentityTaken
<1>3. ReceiverClockBack => identity' = FALSE /\ latched' = latched
  BY DEF ReceiverClockBack
<1>4. ~Restarts /\ ~IdentityTaken /\ ~ReceiverClockBack => UNCHANGED <<identity, latched>>
  <2>1. Ndt => UNCHANGED <<identity, latched>>
    BY DEF Ndt, NdtReset, NdtClockJump, NdtRejects, NdtCommits, NdtCommitsUnsound,
           Commits, Publishes, downstream
  <2>2. Monitor /\ ~Restarts => UNCHANGED <<identity, latched>>
    BY DEF Monitor, AnchorArrives, FutureAnchorArrives, AnchorTaken,
           MalformedAnchorArrives, Ticks, MonitorInputs, MonitorUpset, downstream
  <2>3. StatusTaken \/ StatusRefused \/ ReceiverAges => UNCHANGED <<identity, latched>>
    BY DEF StatusTaken, StatusRefused, ReceiverAges
  <2>4. UNCHANGED vars => UNCHANGED <<identity, latched>>
    BY DEF vars
  <2> QED
    BY <2>1, <2>2, <2>3, <2>4 DEF Next, Receiver
<1> QED
  BY <1>1, <1>2, <1>3, <1>4 DEF Forgotten, vars

\* A receiver that forgets the map after it took the sample never learns it again
\* while the monitor keeps running, whatever the fairness: the general form of the
\* counterexample to ClockResetRecovers.
THEOREM ForgottenMapStaysForgotten == Spec /\ NoRestart => [](Forgotten => []Forgotten)
  BY IdentitySteps, PTL DEF Spec, NoRestart

\* A sample that is latched is learned: a receiver that starts after the monitor, or
\* a monitor that restarts, leads to the identity.
THEOREM LatchedMapIsLearned == Spec /\ IdentityDelivered => (latched ~> identity)
  BY IdentitySteps, PTL DEF Spec, IdentityDelivered

=============================================================================
