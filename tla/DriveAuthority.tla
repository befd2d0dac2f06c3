---------------------------- MODULE DriveAuthority ----------------------------
(***************************************************************************)
(* What a controller behind the RC selector promises of the authority it   *)
(* was granted: a motion command leaves it only while it is enabled and    *)
(* the last authority report it heard was a grant; a withdrawal ends its   *)
(* run, and only a start begins another.  MpccRuntime implements this      *)
(* (ImplementsAuthority); CommandChain joins it to the selector, which     *)
(* sees no more of a controller than this.                                 *)
(***************************************************************************)

VARIABLES
  granted,   \* the last report heard on /control/autonomy_speed_enabled
  enabled,   \* a run is in progress
  motion     \* the last /drive command was nonzero

authorityVars == <<granted, enabled, motion>>

Idle == granted = FALSE /\ enabled = FALSE /\ motion = FALSE

\* A report; a withdrawal ends the run.
HearKeepingRun(data) == granted' = data /\ UNCHANGED <<enabled, motion>>
Hear(data) ==
  /\ granted' = data /\ enabled' = (enabled /\ data)
  /\ UNCHANGED motion

\* A ROS clock moving back makes the controller forget what it heard.
Forget == granted' = FALSE /\ enabled' = FALSE /\ UNCHANGED motion

Start == granted /\ enabled' = TRUE /\ UNCHANGED <<granted, motion>>

\* An operator stop, a fault, the end of a run.
Stop == enabled' = FALSE /\ UNCHANGED <<granted, motion>>

Command(moves) ==
  /\ moves => enabled /\ granted
  /\ motion' = moves
  /\ UNCHANGED <<granted, enabled>>

Act ==
  \/ \E data \in BOOLEAN : Hear(data)
  \/ Forget \/ Start \/ Stop
  \/ \E moves \in BOOLEAN : Command(moves)

Spec == Idle /\ [][Act]_authorityVars

=============================================================================
