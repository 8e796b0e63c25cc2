-------------------------- MODULE MCBatteryHandoff --------------------------
(* Instances of BatteryHandoff for TLC. *)
EXTENDS BatteryHandoff

\* Clean reruns, resumed once.
ChainKind == <<"full", "clean", "resume">>
ChainRoot == <<1, 2, 2>>

\* Clean reruns, resumed, then R27.
ResumedKind == <<"full", "clean", "resume", "r27">>
ResumedRoot == <<1, 2, 2, 4>>
=============================================================================
