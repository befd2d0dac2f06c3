-------------------------- MODULE MpccStartupHistory --------------------------
(***************************************************************************)
(* What the automatic start of the MPCC runtime promises about the past,   *)
(* which its own state records only when some handler happens to look: the *)
(* runtime runs unchanged beside a history variable.                       *)
(***************************************************************************)
EXTENDS MpccRuntime

VARIABLE everTrusted   \* a fresh, covered snapshot of a trusted anchor has existed

historyVars == <<vars, everTrusted>>

\* The conditions of record_auto_start_anchor_locked in the present state.
FreshTrustedSnapshot ==
  snapshot.present /\ snapshot.fresh /\ applied = "fresh" /\ Localized

HistoryInit == Init /\ everTrusted = FALSE
HistoryNext == Next /\ everTrusted' = (everTrusted \/ FreshTrustedSnapshot')
HistorySpec == HistoryInit /\ [][HistoryNext]_historyVars

\* node.cpp, record_auto_start_anchor_locked: "Once a fresh trusted snapshot
\* has existed, an epoch change is a fault, even if startup still waits": an
\* epoch change after that leaves no automatic start waiting.
TrustedSnapshotEndsAllowance ==
  [][everTrusted /\ health.epoch > 0 /\ health'.epoch > health.epoch => ~autoPending']_historyVars

=============================================================================
