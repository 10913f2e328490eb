----------------------------- MODULE MCSyncJobs -----------------------------
(* SyncJobs with two weeks as the unit: the overlap is one of them, a chunk *)
(* up to 30 days; two rows, so that a login and the maintenance can both    *)
(* insert one; three intervals, so that the first can fall out of reach.    *)
EXTENDS SyncJobs, TLC

CONSTANTS j1, j2
MCJobs == {j1, j2}
MCCorrected == {1}
=============================================================================
