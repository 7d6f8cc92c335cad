---------------------------- MODULE MC_SeedDeploy ----------------------------
(* A seven-node cluster (seed target 4): --initial-seeds unset (the 10%     *)
(* rule gives 2) or 1, so the monitored path overlaps up to three batches. *)
EXTENDS SeedDeploy
=============================================================================
