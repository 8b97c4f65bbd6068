------------------------------- MODULE UtilityJobs -----------------------------
(* VideoUtilityManager (video_utilities.py): the durable frame and trim jobs.   *)
(* Every job runs as one asyncio task of one process, which takes the job's     *)
(* lease (one at a time in the group "cpu_media"), does its work, and writes    *)
(* the result in a thread that a cancellation cannot stop.  Requests cancel and *)
(* retry jobs, the program stops and starts, and any write may be refused while *)
(* another connection holds the database past the busy timeout.                 *)
(*                                                                              *)
(* The lease itself is JobLease's subject; here a claim is taken in turn, swept *)
(* when nobody holds it any more and released in one step each.  Only one       *)
(* process runs, and a job has at most one live task, so the claim in the row   *)
(* is a Boolean: its token is the one of the attempt the row counts.            *)
EXTENDS Naturals, FiniteSets

CONSTANTS
    Jobs,           \* the utility jobs a behaviour may add
    MaxRetries,     \* retries a behaviour may ask for (a bound)
    MaxStops,       \* crashes and shutdowns (a bound)
    MaxRefusals     \* writes refused by a held database (a bound)

(* The jobs table has finitely many rows.                                       *)
ASSUME FiniteAssumption == IsFiniteSet(Jobs)
ASSUME UtilityBounds == MaxRetries \in Nat /\ MaxStops \in Nat /\ MaxRefusals \in Nat

VARIABLES
    status,      \* [Jobs -> {"absent"} \cup Statuses]   jobs.status
    claimed,     \* SUBSET Jobs: claim_owner IS NOT NULL
    attempt,     \* [Jobs -> Nat]                        jobs.attempt
    result,      \* [Jobs -> Nat]: the attempt result_json tells of, 0 for none
    ahead,       \* SUBSET (Jobs \X Jobs): the order enqueued_at gives
    stage,       \* [Jobs -> Stages]: where the job's task is, "none" without a live one
    stopping,    \* SUBSET Jobs: tasks that were cancelled and have not ended
    ask,         \* [Jobs -> {"no", "await", "resume"}]: a cancel request's progress
    seen,        \* [Jobs -> Nat]: the attempt the cancel request read first
    up,          \* Phases of the process
    retries, stops, refusals

row == <<status, claimed, attempt, result, ahead>>
task == <<stage, stopping>>
request == <<ask, seen>>
counts == <<retries, stops, refusals>>
vars == <<row, task, request, up, counts>>

Active == {"queued", "running"}
Finished == {"complete", "failed", "cancelled"}
Unsuccessful == {"failed", "cancelled", "interrupted"}
Statuses == Active \cup Finished \cup Unsuccessful

(* "waiting": in _acquire_job; "body": reading, decoding or cutting; "store" and*)
(* "finish": before the two transactions of _finish; "failing": before the one  *)
(* of _fail; "exit": leaving the lease.                                         *)
Working == {"body", "store", "finish", "failing"}
InLease == Working \cup {"exit"}
Stages == {"none", "waiting"} \cup InLease

(* "booting" and "resumed" are between the transactions of startup.             *)
Phases == {"down", "booting", "resumed", "up", "closing"}

Live(j) == stage[j] # "none"
Serving == up \in {"up", "closing"}

(* A variant that leaves the claims of settled rows alone.                      *)
AbandonedUnsettled == {j \in claimed : stage[j] \notin InLease /\ status[j] \in Active}

(* Claims no task holds: releases that were refused, and what a dead process    *)
(* left on rows it had settled.                                                 *)
Abandoned == {j \in claimed : stage[j] \notin InLease}

(* _current: this claim still owns the job and it is running.                   *)
Current(j) == status[j] = "running" /\ j \in claimed

(* Rows queued again move behind every other one and keep their own order.      *)
ToTail(moved) ==
    {p \in ahead : p[1] \in moved => p[2] \in moved} \cup ((Jobs \ moved) \X moved)

Refuse ==
    /\ refusals < MaxRefusals
    /\ refusals' = refusals + 1
    /\ UNCHANGED <<retries, stops>>

Goto(j, s) ==
    /\ stage' = [stage EXCEPT ![j] = s]
    /\ UNCHANGED stopping

(* Variants: the end of a task wakes nobody, or leaves its cancellation behind. *)
TaskEndsUnnoticed(j) ==
    /\ stage' = [stage EXCEPT ![j] = "none"]
    /\ stopping' = stopping \ {j}
    /\ UNCHANGED request

TaskEndsStopping(j) ==
    /\ stage' = [stage EXCEPT ![j] = "none"]
    /\ ask' = [ask EXCEPT ![j] = IF @ = "await" THEN "resume" ELSE @]
    /\ UNCHANGED <<stopping, seen>>

(* The task ends; whoever awaits it is woken.                                   *)
TaskEnds(j) ==
    /\ stage' = [stage EXCEPT ![j] = "none"]
    /\ stopping' = stopping \ {j}
    /\ ask' = [ask EXCEPT ![j] = IF @ = "await" THEN "resume" ELSE @]
    /\ UNCHANGED seen

(* start(): a job whose task is still live is left to that task.                *)
StartTask(j) ==
    Goto(j, IF Live(j) THEN stage[j] ELSE "waiting")

--------------------------------------------------------------------------------
Init ==
    /\ status = [j \in Jobs |-> "absent"]
    /\ claimed = {}
    /\ attempt = [j \in Jobs |-> 0]
    /\ result = [j \in Jobs |-> 0]
    /\ ahead = {}
    /\ stage = [j \in Jobs |-> "none"]
    /\ stopping = {}
    /\ ask = [j \in Jobs |-> "no"]
    /\ seen = [j \in Jobs |-> 0]
    /\ up = "down"
    /\ retries = 0 /\ stops = 0 /\ refusals = 0

--------------------------------------------------------------------------------
(* Requests.                                                                    *)

(* stage_frame or stage_trim, the caller's commit, start.                       *)
Submit(j) ==
    /\ up = "up"
    /\ status[j] = "absent"
    /\ status' = [status EXCEPT ![j] = "queued"]
    /\ ahead' = ToTail({j})
    /\ StartTask(j)
    /\ UNCHANGED <<claimed, attempt, result, request, up, counts>>

(* The retry endpoint: stage_retry, commit, start.                              *)
Retry(j) ==
    /\ up = "up"
    /\ status[j] \in Unsuccessful
    /\ retries < MaxRetries
    /\ retries' = retries + 1
    /\ status' = [status EXCEPT ![j] = "queued"]
    /\ claimed' = claimed \ {j}
    /\ result' = [result EXCEPT ![j] = 0]
    /\ ahead' = ToTail({j})
    /\ StartTask(j)
    /\ UNCHANGED <<attempt, request, up, stops, refusals>>

(* A variant that settles the row before the task has ended.                    *)
CancelRowFirst(j) ==
    /\ up = "up"
    /\ ask[j] = "no"
    /\ Live(j)
    /\ status' = IF status[j] \in Finished THEN status ELSE [status EXCEPT ![j] = "cancelled"]
    /\ stopping' = stopping \cup {j}
    /\ ask' = [ask EXCEPT ![j] = "await"]
    /\ seen' = [seen EXCEPT ![j] = attempt[j]]
    /\ UNCHANGED <<claimed, attempt, result, ahead, stage, up, counts>>

(* cancel(), first half: the task is cancelled and awaited.                     *)
CancelTask(j) ==
    /\ up = "up"
    /\ ask[j] = "no"
    /\ Live(j)
    /\ stopping' = stopping \cup {j}
    /\ ask' = [ask EXCEPT ![j] = "await"]
    /\ seen' = [seen EXCEPT ![j] = attempt[j]]
    /\ UNCHANGED <<row, stage, up, counts>>

(* A variant that takes a result back.                                          *)
MarkCancelledAlways(j) == status' = [status EXCEPT ![j] = "cancelled"]

(* cancel(), second half: only the attempt it was asked of, and only if that    *)
(* did not end with a result of its own.                                        *)
MarkCancelled(j) ==
    status' = IF status[j] \in Finished THEN status ELSE [status EXCEPT ![j] = "cancelled"]

CancelRow(j) ==
    /\ up = "up"
    /\ ask[j] = "resume"
    /\ IF attempt[j] = seen[j] THEN MarkCancelled(j) ELSE UNCHANGED status
    /\ ask' = [ask EXCEPT ![j] = "no"]
    /\ UNCHANGED <<claimed, attempt, result, ahead, task, seen, up, counts>>

(* A job without a live task: both halves run without a pause between them.     *)
CancelIdle(j) ==
    /\ up = "up"
    /\ ask[j] = "no"
    /\ status[j] # "absent"
    /\ ~Live(j)
    /\ MarkCancelled(j)
    /\ UNCHANGED <<claimed, attempt, result, ahead, task, request, up, counts>>

(* The row could not be marked: the request fails.                              *)
CancelRefused(j) ==
    /\ up = "up"
    /\ ask[j] = "resume"
    /\ Refuse
    /\ ask' = [ask EXCEPT ![j] = "no"]
    /\ UNCHANGED <<row, task, seen, up>>

--------------------------------------------------------------------------------
(* A task: _run.                                                                *)

(* Waiting, it clears the claims nobody holds, or ends when that is refused.    *)
Sweep(j) ==
    /\ Serving
    /\ stage[j] = "waiting"
    /\ j \notin stopping
    /\ Abandoned # {}
    /\ claimed' = claimed \ Abandoned
    /\ status' = [k \in Jobs |-> IF k \in Abandoned /\ status[k] \in Active
                                 THEN "interrupted" ELSE status[k]]
    /\ UNCHANGED <<attempt, result, ahead, task, request, up, counts>>

SweepRefused(j) ==
    /\ Serving
    /\ stage[j] = "waiting"
    /\ j \notin stopping
    /\ Abandoned # {}
    /\ Refuse
    /\ TaskEnds(j)
    /\ UNCHANGED <<row, up>>

(* First in its queue, with no claim standing and the group's slot free.        *)
Claim(j) ==
    /\ Serving
    /\ stage[j] = "waiting"
    /\ j \notin stopping
    /\ status[j] = "queued"
    /\ claimed = {}
    /\ \A k \in Jobs : status[k] = "queued" => <<k, j>> \notin ahead
    /\ \A k \in Jobs : stage[k] \notin InLease
    /\ status' = [status EXCEPT ![j] = "running"]
    /\ claimed' = {j}
    /\ attempt' = [attempt EXCEPT ![j] = @ + 1]
    /\ Goto(j, "body")
    /\ UNCHANGED <<result, ahead, request, up, counts>>

(* A variant that does not notice its cancellation while it waits.              *)
WaitEndsSettled(j) ==
    /\ Serving
    /\ stage[j] = "waiting"
    /\ status[j] \in Unsuccessful
    /\ TaskEnds(j)
    /\ UNCHANGED <<row, up, counts>>

(* The waiter finds its row settled, or was cancelled.                          *)
WaitEnds(j) ==
    /\ Serving
    /\ stage[j] = "waiting"
    /\ j \in stopping \/ status[j] \in Unsuccessful
    /\ TaskEnds(j)
    /\ UNCHANGED <<row, up, counts>>

(* The tools have made the output, or refused; a cancelled body stops them.     *)
BodyEnds(j) ==
    /\ stage[j] = "body"
    /\ \/ j \notin stopping /\ (Goto(j, "store") \/ Goto(j, "failing"))
       \/ j \in stopping /\ Goto(j, "exit")
    /\ UNCHANGED <<row, request, up, counts>>

(* _finish, first transaction: what was made is stored.                         *)
Store(j) ==
    /\ stage[j] = "store"
    /\ Goto(j, "finish")
    /\ UNCHANGED <<row, request, up, counts>>

(* _finish, second transaction: the library entry and the completed row.        *)
Finish(j) ==
    /\ stage[j] = "finish"
    /\ IF Current(j)
       THEN /\ status' = [status EXCEPT ![j] = "complete"]
            /\ result' = [result EXCEPT ![j] = attempt[j]]
       ELSE UNCHANGED <<status, result>>
    /\ Goto(j, "exit")
    /\ UNCHANGED <<claimed, attempt, ahead, request, up, counts>>

(* A refused write of _finish is a failure of the job, unless the task was      *)
(* cancelled meanwhile: the cancellation then outlives the failure.             *)
FinishRefused(j) ==
    /\ stage[j] \in {"store", "finish"}
    /\ Refuse
    /\ Goto(j, IF j \in stopping THEN "exit" ELSE "failing")
    /\ UNCHANGED <<row, request, up>>

Fail(j) ==
    /\ stage[j] = "failing"
    /\ IF Current(j)
       THEN /\ status' = [status EXCEPT ![j] = "failed"]
            /\ result' = [result EXCEPT ![j] = attempt[j]]
       ELSE UNCHANGED <<status, result>>
    /\ Goto(j, "exit")
    /\ UNCHANGED <<claimed, attempt, ahead, request, up, counts>>

(* Nothing handles a refused write of _fail: it leaves _run.                    *)
FailRefused(j) ==
    /\ stage[j] = "failing"
    /\ Refuse
    /\ Goto(j, "exit")
    /\ UNCHANGED <<row, request, up>>

(* The lease gives the claim back, or remembers that it could not, and the task *)
(* is over.                                                                     *)
Release(j) ==
    /\ stage[j] = "exit"
    /\ claimed' = claimed \ {j}
    /\ TaskEnds(j)
    /\ UNCHANGED <<status, attempt, result, ahead, up, counts>>

ReleaseRefused(j) ==
    /\ stage[j] = "exit"
    /\ Refuse
    /\ TaskEnds(j)
    /\ UNCHANGED <<row, up>>

--------------------------------------------------------------------------------
(* The process.                                                                 *)

(* close(), with the requests answered: every task is cancelled and awaited.    *)
CloseTasks ==
    /\ up = "up"
    /\ stops < MaxStops
    /\ stops' = stops + 1
    /\ \A j \in Jobs : ask[j] = "no"
    /\ up' = "closing"
    /\ stopping' = {j \in Jobs : Live(j)}
    /\ UNCHANGED <<row, stage, request, retries, refusals>>

(* close(), once no task is live: what is left unfinished is interrupted.       *)
CloseRows ==
    /\ up = "closing"
    /\ \A j \in Jobs : ~Live(j)
    /\ up' = "down"
    /\ claimed' = {j \in claimed : status[j] \notin Active}
    /\ status' = [j \in Jobs |-> IF status[j] \in Active THEN "interrupted" ELSE status[j]]
    /\ UNCHANGED <<attempt, result, ahead, task, request, counts>>

CloseRefused ==
    /\ up = "closing"
    /\ \A j \in Jobs : ~Live(j)
    /\ Refuse
    /\ up' = "down"
    /\ UNCHANGED <<row, task, request>>

Crash ==
    /\ up # "down"
    /\ stops < MaxStops
    /\ stops' = stops + 1
    /\ up' = "down"
    /\ stage' = [j \in Jobs |-> "none"]
    /\ stopping' = {}
    /\ ask' = [j \in Jobs |-> "no"]
    /\ UNCHANGED <<row, seen, retries, refusals>>

(* A variant that interrupts the rows and leaves their claims.                  *)
BootRowsClaimed ==
    /\ up = "down"
    /\ up' = "booting"
    /\ status' = [j \in Jobs |-> IF status[j] = "running" THEN "interrupted" ELSE status[j]]
    /\ UNCHANGED <<claimed, attempt, result, ahead, task, request, counts>>

(* Startup, first recover_interrupted of the orchestrator, for every kind.      *)
BootRows ==
    /\ up = "down"
    /\ up' = "booting"
    /\ claimed' = {j \in claimed : status[j] \notin Active}
    /\ status' = [j \in Jobs |-> IF status[j] = "running" THEN "interrupted" ELSE status[j]]
    /\ UNCHANGED <<attempt, result, ahead, task, request, counts>>

(* Startup, then recover(): interrupted jobs are queued again and every         *)
(* unclaimed queued job gets its task.                                          *)
BootJobs ==
    /\ up = "booting"
    /\ up' = "resumed"
    /\ LET again == {j \in Jobs \ claimed : status[j] = "interrupted"}
           waiting == {j \in Jobs \ claimed : status[j] = "queued"}
       IN  /\ status' = [j \in Jobs |-> IF j \in again THEN "queued" ELSE status[j]]
           /\ result' = [j \in Jobs |-> IF j \in again THEN 0 ELSE result[j]]
           /\ ahead' = ToTail(again)
           /\ stage' = [j \in Jobs |-> IF j \in again \cup waiting THEN "waiting" ELSE stage[j]]
    /\ UNCHANGED <<claimed, attempt, stopping, request, counts>>

(* Startup, last recover_queue_lanes: claims of settled rows are cleared.  Only *)
(* now does the event loop run the tasks.                                       *)
BootClaims ==
    /\ up = "resumed"
    /\ up' = "up"
    /\ claimed' = {j \in claimed : status[j] \in Active}
    /\ UNCHANGED <<status, attempt, result, ahead, task, request, counts>>

--------------------------------------------------------------------------------
Step(j) ==
    \/ Sweep(j)
    \/ Claim(j)
    \/ WaitEnds(j)
    \/ BodyEnds(j)
    \/ Store(j)
    \/ Finish(j)
    \/ Fail(j)
    \/ Release(j)

Refusal(j) ==
    \/ SweepRefused(j)
    \/ FinishRefused(j)
    \/ FailRefused(j)
    \/ ReleaseRefused(j)
    \/ CancelRefused(j)

Next ==
    \/ \E j \in Jobs :
        \/ Submit(j)
        \/ Retry(j)
        \/ CancelTask(j)
        \/ CancelRow(j)
        \/ CancelIdle(j)
        \/ Step(j)
        \/ Refusal(j)
    \/ CloseTasks
    \/ CloseRows
    \/ CloseRefused
    \/ Crash
    \/ BootRows
    \/ BootJobs
    \/ BootClaims

Spec == Init /\ [][Next]_vars

(* The event loop runs every task that can move and the handlers that wait for  *)
(* one, ffmpeg is stopped after a time limit, a thread's write returns, and a   *)
(* program that was started finishes starting.                                  *)
Fairness ==
    /\ \A j \in Jobs : WF_vars(Step(j)) /\ WF_vars(CancelRow(j) \/ CancelRefused(j))
    /\ WF_vars(CloseRows \/ CloseRefused)
    /\ WF_vars(BootRows)
    /\ WF_vars(BootJobs)
    /\ WF_vars(BootClaims)

FairSpec == Spec /\ Fairness

--------------------------------------------------------------------------------
(* Every variable keeps its type.                                               *)
TypeOK ==
    /\ status \in [Jobs -> {"absent"} \cup Statuses]
    /\ claimed \in SUBSET Jobs
    /\ attempt \in [Jobs -> Nat]
    /\ result \in [Jobs -> Nat]
    /\ ahead \in SUBSET (Jobs \X Jobs)
    /\ stage \in [Jobs -> Stages]
    /\ stopping \in SUBSET {j \in Jobs : stage[j] # "none"}
    /\ ask \in [Jobs -> {"no", "await", "resume"}]
    /\ seen \in [Jobs -> Nat]
    /\ up \in Phases
    /\ retries \in 0..MaxRetries /\ stops \in 0..MaxStops /\ refusals \in 0..MaxRefusals

(* While a task works on a job, and until its last write has been made, nobody  *)
(* else touches the row: a cancel request and a shutdown wait for the task, a   *)
(* sweep clears only claims no task holds, a retry takes only settled rows.  So *)
(* inside one process the guard of the final writes never has to refuse one     *)
(* (the order cancel's docstring insists on: task first, row second).           *)
WorkUndisturbed ==
    \A j \in Jobs : stage[j] \in Working => /\ Current(j)
                                            /\ Serving

(* No request to cancel hangs: the task it awaits ends, whatever write it had   *)
(* begun, and the request is answered unless the program stops first.           *)
CancelAnswered == \A j \in Jobs : ask[j] # "no" ~> ask[j] = "no"

(* A shutdown comes to an end with nothing of a job left running.               *)
ShutdownEnds == up = "closing" ~> up = "down"

(* A job the database holds as waiting or running while no task and no request  *)
(* to cancel serves it and no restart is under way.                             *)
Stranded(j) == up = "up" /\ ~Live(j) /\ ask[j] = "no" /\ status[j] \in Active

(* A queued job comes to an end, through cancellations, crashes, restarts and   *)
(* refused writes, unless some job of its group is stranded.                    *)
EveryJobEnds ==
    \A j \in Jobs : status[j] = "queued" ~>
        (status[j] \notin Active \/ \E k \in Jobs : Stranded(k))

(* What a stop left unfinished is taken up again by the next start.             *)
RestartTakesUp ==
    \A j \in Jobs :
        (up = "down" /\ status[j] \in Active \cup {"interrupted"}) ~>
            (up = "up" /\ (Live(j) \/ status[j] \in Finished))

(* "Each runs as its own task": a job is not left queued with no task to run it *)
(* (start(), which every retry ends with).                                      *)
QueuedHasTask == \A j \in Jobs : status[j] = "queued" => ~Stranded(j)

(* The utility jobs keep the queue's promise about a row; a job not yet added   *)
(* counts as queued.                                                            *)
Ledger == INSTANCE JobLedger WITH
    status <- [j \in Jobs |-> IF status[j] = "absent" THEN "queued" ELSE status[j]],
    claim <- [j \in Jobs |-> IF j \in claimed THEN attempt[j] ELSE 0]
ImplementsLedger == Ledger!LedgerSpec
================================================================================
