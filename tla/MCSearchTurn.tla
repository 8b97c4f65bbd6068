------------------------------ MODULE MCSearchTurn -----------------------------
(* Instances of SearchTurn for TLC.                                             *)
EXTENDS SearchTurn

CONSTANTS q1, p1, p2
================================================================================
