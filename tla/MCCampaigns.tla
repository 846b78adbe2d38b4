---------------------------- MODULE MCCampaigns ----------------------------
(***************************************************************************)
(* Small instances of Campaigns for TLC.                                   *)
(***************************************************************************)
EXTENDS Campaigns, TLC

\* Against a peak of 1000 and the default threshold of 5%, usage 1000 is above
\* both guards, 40 (4%) passes start_decay only and 0 passes both. Against a
\* peak of 0 every usage passes.
MCUsage == {0, 40, 1000}
MCPeaks == {0, 1000}
MCThresholds == {500}

\* For the liveness runs: enough to decay, and to decay further or not.
MCDecayedUsage == {0, 40}
MCPeak == {1000}

\* Workers that have a token are interchangeable.
WorkerSymmetry == Permutations(TokenWorkers)
=============================================================================
