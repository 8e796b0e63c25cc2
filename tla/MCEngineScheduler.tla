------------------------- MODULE MCEngineScheduler -------------------------
(* Instances of EngineScheduler for TLC. *)
EXTENDS EngineScheduler

\* A long and a short prompt.
LongAndShort == <<3, 2>>

\* A long prompt between two short ones.
ShortLongShort == <<1, 6, 1>>
=============================================================================
