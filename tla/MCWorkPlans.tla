------------------------------ MODULE MCWorkPlans ------------------------------
(* Instances of WorkPlans for TLC.                                              *)
EXTENDS WorkPlans, TLC

CONSTANTS s1, s2, s3, p1, p2

(* An image, another made from it, and a turn of a later plan that refers to it.*)
TwoPlans == (s1 :> p1) @@ (s2 :> p1) @@ (s3 :> p2)
Chain == (s1 :> {}) @@ (s2 :> {s1}) @@ (s3 :> {s2})
FirstRetried == (s1 :> 1) @@ (s2 :> 0) @@ (s3 :> 0)
================================================================================
