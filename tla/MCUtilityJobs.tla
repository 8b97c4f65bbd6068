------------------------------ MODULE MCUtilityJobs ----------------------------
(* Instances of UtilityJobs for TLC.                                            *)
EXTENDS UtilityJobs

CONSTANTS j1, j2
================================================================================
