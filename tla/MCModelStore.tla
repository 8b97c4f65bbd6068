------------------------------ MODULE MCModelStore -----------------------------
(* Instances of ModelStore for TLC.                                             *)
EXTENDS ModelStore, TLC

CONSTANTS a, b, p, fa, fb, fp, s

(* Two selections of one revision share a file; a plan's files are its own.     *)
Separate == (a :> {fa, s}) @@ (b :> {fb, s}) @@ (p :> {fp})

(* A plan and another selection share a file.                                   *)
Shared == (a :> {fa, s}) @@ (p :> {fp, s})
================================================================================
