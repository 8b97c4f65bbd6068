------------------------------- MODULE JobLedger -------------------------------
(* What the queue promises about one row of the `jobs` table, whoever runs it.  *)
(* A claim is identified by the attempt it started: the scheduler increments    *)
(* jobs.attempt in the UPDATE that takes the claim (scheduler.py `_acquire_job`)*)
(* so a row is held by at most its newest attempt, a result is written only by  *)
(* that attempt, and a result that was once written is changed by nothing but a *)
(* retry.  JobLease and UtilityJobs implement it.                               *)
EXTENDS Naturals

CONSTANT Jobs

VARIABLES
    status,    \* [Jobs -> Statuses], jobs.status
    attempt,   \* [Jobs -> Nat], jobs.attempt
    claim,     \* [Jobs -> Nat], the attempt that holds the row, 0 when unclaimed
    result     \* [Jobs -> Nat], the attempt whose outcome the row carries, 0 for none

ledger == <<status, attempt, claim, result>>

Active == {"queued", "running"}
Unsuccessful == {"failed", "cancelled", "interrupted"}
Terminal == Unsuccessful \cup {"complete"}
Statuses == Active \cup Terminal
Outcomes == {"complete", "failed"}

LedgerInit ==
    /\ status = [j \in Jobs |-> "queued"]
    /\ attempt = [j \in Jobs |-> 0]
    /\ claim = [j \in Jobs |-> 0]
    /\ result = [j \in Jobs |-> 0]

(* A queued, unclaimed job is taken under a new attempt.                        *)
Take(j) ==
    /\ status[j] = "queued" /\ claim[j] = 0
    /\ status' = [status EXCEPT ![j] = "running"]
    /\ attempt' = [attempt EXCEPT ![j] = @ + 1]
    /\ claim' = [claim EXCEPT ![j] = attempt[j] + 1]
    /\ UNCHANGED result

(* A running job ends with what its newest attempt made.                        *)
Finish(j, outcome) ==
    /\ status[j] = "running" /\ claim[j] \in {0, attempt[j]}
    /\ status' = [status EXCEPT ![j] = outcome]
    /\ result' = [result EXCEPT ![j] = attempt[j]]
    /\ UNCHANGED <<attempt, claim>>

Give(j) ==
    /\ claim[j] = attempt[j]
    /\ claim' = [claim EXCEPT ![j] = 0]
    /\ UNCHANGED <<status, attempt, result>>

(* A sweep over claims nobody keeps: unfinished work is interrupted, a result   *)
(* already written stays as it is.                                              *)
Sweep(swept) ==
    /\ \A j \in swept : claim[j] # 0
    /\ claim' = [j \in Jobs |-> IF j \in swept THEN 0 ELSE claim[j]]
    /\ status' = [j \in Jobs |-> IF j \in swept /\ status[j] \in Active
                                 THEN "interrupted" ELSE status[j]]
    /\ UNCHANGED <<attempt, result>>

(* A process starts: nothing that was running is taken up where it stopped, and *)
(* claims of `cleared` rows do not outlive their process.                       *)
Restart(cleared) ==
    /\ claim' = [j \in Jobs |-> IF j \in cleared THEN 0 ELSE claim[j]]
    /\ status' = [j \in Jobs |-> IF status[j] = "running" THEN "interrupted" ELSE status[j]]
    /\ \A j \in Jobs \ cleared : status[j] \in Terminal
    /\ UNCHANGED <<attempt, result>>

(* A shutdown leaves work behind: interrupted, and nobody's.                    *)
Suspend(left) ==
    /\ \A j \in left : status[j] \in Active
    /\ claim' = [j \in Jobs |-> IF j \in left THEN 0 ELSE claim[j]]
    /\ status' = [j \in Jobs |-> IF j \in left THEN "interrupted" ELSE status[j]]
    /\ UNCHANGED <<attempt, result>>

(* Work that has no outcome yet is withdrawn; what was made is never taken back.*)
Withdraw(j) ==
    /\ status[j] \in Active \cup {"interrupted"}
    /\ status' = [status EXCEPT ![j] = "cancelled"]
    /\ UNCHANGED <<attempt, claim, result>>

(* Only work that did not succeed is queued again, and no claim survives it.    *)
Again(jobs) ==
    /\ \A j \in jobs : \/ status[j] \in Unsuccessful
                       \/ status[j] = "running" /\ claim[j] = attempt[j]
    /\ status' = [j \in Jobs |-> IF j \in jobs THEN "queued" ELSE status[j]]
    /\ claim' = [j \in Jobs |-> IF j \in jobs THEN 0 ELSE claim[j]]
    /\ result' = [j \in Jobs |-> IF j \in jobs THEN 0 ELSE result[j]]
    /\ UNCHANGED attempt

LedgerNext ==
    \/ \E j \in Jobs :
        \/ Take(j)
        \/ \E outcome \in Outcomes : Finish(j, outcome)
        \/ Give(j)
        \/ Withdraw(j)
    \/ \E jobs \in SUBSET Jobs : Sweep(jobs) \/ Suspend(jobs) \/ Again(jobs) \/ Restart(jobs)

LedgerSpec == LedgerInit /\ [][LedgerNext]_ledger
================================================================================
