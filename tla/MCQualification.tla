-------------------------- MODULE MCQualification --------------------------
(***************************************************************************)
(* Instances of Qualification for TLC.                                     *)
(***************************************************************************)
EXTENDS Qualification

\* Signals are taken everywhere but at the points where one defeats the cleanup.
CoveredPoints == Points \ CleanupGaps

\* The points of main's and restore_production's entry into cleanup.
EntryGaps == {"finally", "restoreEnter", "deferInt", "deferTerm"}

\* No signal is taken.
NoPoints == {}
=============================================================================
