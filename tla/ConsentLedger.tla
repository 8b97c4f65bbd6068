------------------------------ MODULE ConsentLedger ----------------------------
(* What a request to the outside promises: it is made once, after an agreement  *)
(* that stands when it is committed; an agreement may fall, a commitment only   *)
(* close, and what is closed stays closed.                                      *)
EXTENDS Naturals

VARIABLES
    phase,      \* "open", "agreed", "committed" or "closed"
    sent        \* how many requests were made

vars == <<phase, sent>>

Init == phase = "open" /\ sent = 0

Agree == phase = "open" /\ phase' = "agreed" /\ UNCHANGED sent

(* The terms have changed: the agreement falls and may be asked for again.      *)
Reopen == phase = "agreed" /\ phase' = "open" /\ UNCHANGED sent

Refuse == phase \in {"open", "agreed"} /\ phase' = "closed" /\ UNCHANGED sent

Commit == phase = "agreed" /\ phase' = "committed" /\ UNCHANGED sent

Send == phase = "committed" /\ sent = 0 /\ sent' = 1 /\ UNCHANGED phase

(* The outcome is known, or never will be.                                      *)
Conclude == phase = "committed" /\ phase' = "closed" /\ UNCHANGED sent

Next == Agree \/ Reopen \/ Refuse \/ Commit \/ Send \/ Conclude

ConsentSpec == Init /\ [][Next]_vars
================================================================================
