------------------------------- MODULE MCJobLease ------------------------------
(* Instances of JobLease for TLC.                                               *)
EXTENDS JobLease, TLC

CONSTANTS d1, d2, e1, e2, e3, e4, j1, j2

(* Two processes: two calls of job_lease in the first, one in the second.       *)
TwoHomes == (e1 :> d1) @@ (e2 :> d1) @@ (e3 :> d2)

(* Two processes with two calls each.                                           *)
TwoHomesEach == (e1 :> d1) @@ (e2 :> d1) @@ (e3 :> d2) @@ (e4 :> d2)
Symmetry == Permutations({e1, e2}) \cup Permutations({e3, e4})
================================================================================
