--------------------------- MODULE LocalizationHealth ---------------------------
(***************************************************************************)
(* The receiving end of /localization/status in the MPCC runtime           *)
(* (aims_mpcc_rt/health.hpp, class LocalizationHealth).  Its two age       *)
(* windows are flags: heartbeat (0.3 s since the last accepted message)    *)
(* and recent (the anchor at most 1 s old in ROS and in steady time).  An  *)
(* anchor's stamp is determined by its epoch and sequence number, so it is *)
(* not carried.                                                            *)
(***************************************************************************)
EXTENDS Integers

CONSTANT MaxEpoch    \* bound: localization epochs NDT opens

VARIABLE receiver    \* health_

\* -1: nothing received in this epoch yet, as in the code.
NoReceiver == [epoch |-> 0, retired |-> {}, heard |-> -1, anchor |-> -1, loss |-> -1,
               ready |-> FALSE, qualified |-> FALSE, heartbeat |-> FALSE, recent |-> FALSE]

\* A message of an unknown epoch starts a new record and retires the old epoch.
AdoptedForgetting(epoch) ==
  IF epoch = receiver.epoch THEN receiver
  ELSE [NoReceiver EXCEPT !.epoch = epoch, !.heartbeat = receiver.heartbeat]
Adopted(epoch) ==
  IF epoch = receiver.epoch THEN receiver
  ELSE [NoReceiver EXCEPT
          !.epoch = epoch, !.heartbeat = receiver.heartbeat,
          !.retired = IF receiver.epoch = 0 THEN @ ELSE receiver.retired \cup {receiver.epoch}]

\* The catch clause of observe.
Unreadable(r) == [r EXCEPT !.ready = FALSE, !.qualified = FALSE]

\* The record a message m that is neither repeated nor behind the anchor leaves;
\* young: its anchor is inside the age window on arrival.
QualifiedForever(r, m) == r.qualified \/ m.aligned
Qualified(r, m) == m.aligned
Lost(r, m) == IF ~m.ready /\ m.anchor > r.loss THEN m.anchor ELSE r.loss
Accepted(r, m, young) ==
  [r EXCEPT
     !.heard = m.sequence, !.anchor = m.anchor, !.loss = Lost(r, m),
     !.ready = m.ready /\ m.anchor > Lost(r, m),
     !.qualified = Qualified(r, m),
     !.heartbeat = TRUE,
     !.recent = IF m.anchor > r.anchor THEN young ELSE @]

\* LocalizationHealth::observe.
Observe(m, young) ==
  LET r == Adopted(m.epoch) IN
  CASE m.epoch = 0                 -> Unreadable(receiver)    \* the epoch is empty
    [] m.epoch \in receiver.retired -> receiver
    [] OTHER ->
         IF m.sequence <= r.heard THEN r
         ELSE IF m.anchor < r.anchor THEN [r EXCEPT !.heard = m.sequence]
         ELSE Accepted(r, m, young)

-----------------------------------------------------------------------------
StatusArrives(m, young) == receiver' = Observe(m, young)

\* accept_health observes an empty record when the map is not the bundle's own
\* (or the message holds no single localization status).
StatusOfAnotherMap == receiver' = Unreadable(receiver)

\* reset_clock_locked: health_.reset().
ReceiverReset == receiver' = NoReceiver

HeartbeatLapses == receiver.heartbeat /\ receiver' = [receiver EXCEPT !.heartbeat = FALSE]
AnchorAges == receiver.recent /\ receiver' = [receiver EXCEPT !.recent = FALSE]

=============================================================================
