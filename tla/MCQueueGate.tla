------------------------------- MODULE MCQueueGate -----------------------------
(* Instances of QueueGate for TLC.                                              *)
EXTENDS QueueGate, TLC

CONSTANTS j1, j2, p1, p2

(* Two plans with a job each.                                                   *)
OnePerPlan == (j1 :> p1) @@ (j2 :> p2)
================================================================================
