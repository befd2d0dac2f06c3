----------------------------- MODULE SourceTimeLog -----------------------------
(***************************************************************************)
(* What the longitudinal observer promises (longitudinal_observer.hpp:     *)
(* "Stable source-time replay"): the estimate is the one that a filter     *)
(* would reach by processing the admitted measurements in the order of     *)
(* their source stamps, those with equal stamps as they arrived, however   *)
(* late any of them was and whatever was trimmed since.  The estimate is   *)
(* represented by that sequence.                                           *)
(***************************************************************************)
EXTENDS Naturals, Sequences

CONSTANTS Measurement   \* records with a field stamp

VARIABLE log

Idle == log = <<>>

\* The place of m is after every measurement that is not newer.
Admit(m) ==
  \E i \in 0..Len(log) :
    /\ \A j \in 1..i : log[j].stamp <= m.stamp
    /\ \A j \in i + 1..Len(log) : log[j].stamp > m.stamp
    /\ log' = SubSeq(log, 1, i) \o <<m>> \o SubSeq(log, i + 1, Len(log))

\* A clock that runs backwards starts the filter anew.
Forget == log' = <<>>

Next == Forget \/ \E m \in Measurement : Admit(m)

Spec == Idle /\ [][Next]_log

=============================================================================
