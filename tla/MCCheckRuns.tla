---------------------------- MODULE MCCheckRuns ----------------------------
(***************************************************************************)
(* Small instances of CheckRuns for TLC.                                   *)
(***************************************************************************)
EXTENDS CheckRuns

\* The opening event and every change create at most one check run.
MCCheckIds == 1..(MaxEvents + 1)
=============================================================================
