-------------------------------- MODULE WorkPlans ------------------------------
(* Accepted plans whose steps wait for each other: the orchestrator's execution *)
(* of their jobs, the automatic retry of media steps, and the scheduler's       *)
(* waiting pass, which shows in steps and plans who waits for whom.             *)
(*                                                                              *)
(* One process at a time, one compute slot.  A step has one run and one job; an *)
(* action is what the event loop does between two suspensions, and publishing   *)
(* an event does not suspend.  Another writer may hold the database past the    *)
(* busy timeout (a refusal).                                                    *)
EXTENDS Naturals, FiniteSets

CONSTANTS
    Steps, Plans,
    PlanOf,     \* [Steps -> Plans]
    Deps,       \* [Steps -> SUBSET Steps], also of other plans: work_step_dependencies
    Limit,      \* [Steps -> Nat]: automatic retries of a media step, 0 of a text step
    MaxRetries, MaxStops, MaxRefusals   \* bounds on the environment

(* The plans that were accepted have finitely many steps.                       *)
ASSUME FiniteAssumption == IsFiniteSet(Steps)
ASSUME PlanAssumption ==
    /\ PlanOf \in [Steps -> Plans]
    /\ \A p \in Plans : \E s \in Steps : PlanOf[s] = p
ASSUME DepsAssumption == Deps \in [Steps -> SUBSET Steps]
ASSUME LimitAssumption == Limit \in [Steps -> Nat]
ASSUME PlanBounds == MaxRetries \in Nat /\ MaxStops \in Nat /\ MaxRefusals \in Nat

VARIABLES
    job,        \* [Steps -> Statuses]: jobs.status; the run's status follows it
    step,       \* [Steps -> Shown]: work_steps.status
    plan,       \* [Plans -> Summaries]: work_plans.status
    claim,      \* jobs.claim_owner: "none", "held" by the task in its lease, "left" by one
    ahead,      \* SUBSET (Steps \X Steps): the order enqueued_at and ticket give
    used, pending,   \* failure_retries of the run
    stage,      \* where the job's task is, "none" without a live one
    way,        \* how the task leaves its lease
    stopping,   \* SUBSET Steps: tasks that were cancelled and have not noticed yet
    up,         \* phase of the process
    retries, stops, refusals

rows == <<job, step, plan, claim, ahead>>
budget == <<used, pending>>
task == <<stage, way, stopping>>
counts == <<retries, stops, refusals>>
vars == <<rows, budget, task, up, counts>>

Active == {"queued", "running"}
Unsuccessful == {"failed", "cancelled", "interrupted"}
Settled == Unsuccessful \cup {"complete"}
Statuses == Active \cup Settled
Shown == Statuses \cup {"blocked"}
Summaries == Shown \cup {"partial"}

(* "waiting": in _acquire_job; "working": in the body of the lease; "exit": the *)
(* outcome is known, the media handoff and the heartbeat end; "sleeping": one   *)
(* second before an automatic retry.                                            *)
InLease == {"working", "exit"}
Stages == {"none", "waiting", "sleeping"} \cup InLease

Serving == up \in {"up", "closing"}
Live(s) == stage[s] # "none"

--------------------------------------------------------------------------------
(* Reads of the database.                                                       *)

(* _blocking_steps is empty.                                                    *)
Fed(s) == \A d \in Deps[s] : step[d] = "complete"

(* _failed_dependencies.                                                        *)
FailedDeps(s) == {d \in Deps[s] : step[d] \in Unsuccessful \cup {"blocked"}}

(* _eligible_jobs.                                                              *)
Eligible(s) == job[s] = "queued" /\ claim[s] = "none" /\ Fed(s)

(* First in the queue of a group of capacity 1 that nobody holds a claim of.    *)
InTurn(s) ==
    /\ Eligible(s)
    /\ \A k \in Steps : claim[k] = "none"
    /\ \A k \in Steps : <<k, s>> \in ahead => ~Eligible(k)

SlotFree == \A k \in Steps : stage[k] \notin InLease

ToTail(s) == {p \in ahead : p[1] # s} \cup {<<k, s>> : k \in Steps \ {s}}

(* refresh_plan_status: the most active status a step has; else the one all     *)
(* steps share.                                                                 *)
Derived(p, shown) ==
    LET seen == {shown[s] : s \in {t \in Steps : PlanOf[t] = p}}
    IN  IF "running" \in seen THEN "running"
        ELSE IF "queued" \in seen THEN "queued"
        ELSE IF "blocked" \in seen THEN "blocked"
        ELSE IF \E x \in seen : seen = {x} THEN CHOOSE x \in seen : TRUE
        ELSE "partial"

(* _set_work_status of the steps whose status `shown` changes.                  *)
Show(shown) ==
    /\ step' = shown
    /\ plan' = [p \in Plans |-> IF \E s \in Steps : PlanOf[s] = p /\ shown[s] # step[s]
                                THEN Derived(p, shown) ELSE plan[p]]

(* A variant that derives the plan before the step has its new status.          *)
ShowOneUnflushed(s, status) ==
    /\ step' = [step EXCEPT ![s] = status]
    /\ plan' = [plan EXCEPT ![PlanOf[s]] = Derived(PlanOf[s], step)]

ShowOne(s, status) == Show([step EXCEPT ![s] = status])

Refuse ==
    /\ refusals < MaxRefusals
    /\ refusals' = refusals + 1
    /\ UNCHANGED <<retries, stops>>

(* The task of s has the stage st from here on.                                 *)
Goto(s, st) ==
    /\ stage' = [stage EXCEPT ![s] = st]
    /\ way' = [way EXCEPT ![s] = "done"]
    /\ stopping' = stopping \ {s}

LeaveLease(s, how) ==
    /\ stage' = [stage EXCEPT ![s] = "exit"]
    /\ way' = [way EXCEPT ![s] = how]

(* _execute has returned and not raised: a retry that is pending is waited for. *)
Return(s) == Goto(s, IF job'[s] = "queued" /\ pending'[s] THEN "sleeping" ELSE "none")

--------------------------------------------------------------------------------
(* The plans are accepted and their jobs started; what a step needs was there   *)
(* before it.                                                                   *)
Init ==
    /\ job = [s \in Steps |-> "queued"]
    /\ step = [s \in Steps |-> "queued"]
    /\ plan = [p \in Plans |-> "queued"]
    /\ claim = [s \in Steps |-> "none"]
    /\ ahead \in SUBSET (Steps \X Steps)
    /\ \A s, t \in Steps : s # t => (<<s, t>> \in ahead <=> <<t, s>> \notin ahead)
    /\ \A s \in Steps : <<s, s>> \notin ahead
    /\ \A r, s, t \in Steps : <<r, s>> \in ahead /\ <<s, t>> \in ahead => <<r, t>> \in ahead
    /\ \A s \in Steps : \A d \in Deps[s] : <<d, s>> \in ahead
    /\ used = [s \in Steps |-> 0]
    /\ pending = [s \in Steps |-> FALSE]
    /\ stage = [s \in Steps |-> "waiting"]
    /\ way = [s \in Steps |-> "done"]
    /\ stopping = {}
    /\ up = "up"
    /\ retries = 0 /\ stops = 0 /\ refusals = 0

--------------------------------------------------------------------------------
(* The task waits: _acquire_job.                                                *)

(* A variant that never takes the mark back.                                    *)
PollBlocks(s) ==
    /\ Serving
    /\ stage[s] = "waiting" /\ s \notin stopping
    /\ job[s] = "queued"
    /\ \A k \in Steps : claim[k] # "left"
    /\ FailedDeps(s) # {}
    /\ ShowOne(s, "blocked")
    /\ UNCHANGED <<job, claim, ahead, budget, task, up, counts>>

(* The waiting pass, after the sweep, of a step that cannot start says why.     *)
Poll(s) ==
    /\ Serving
    /\ stage[s] = "waiting" /\ s \notin stopping
    /\ job[s] = "queued"
    /\ \A k \in Steps : claim[k] # "left"
    /\ ShowOne(s, IF FailedDeps(s) # {} THEN "blocked" ELSE "queued")
    /\ UNCHANGED <<job, claim, ahead, budget, task, up, counts>>

(* Ranked first by a fresh scan, claimed, and shown as running, in two          *)
(* transactions with no suspension between them (the second refused: ClaimFails,*)
(* a crash between: CrashClaiming); an automatic retry is no longer pending.    *)
Claim(s) ==
    /\ Serving
    /\ stage[s] = "waiting" /\ s \notin stopping
    /\ InTurn(s) /\ SlotFree
    /\ job' = [job EXCEPT ![s] = "running"]
    /\ claim' = [claim EXCEPT ![s] = "held"]
    /\ ShowOne(s, "running")
    /\ pending' = [pending EXCEPT ![s] = FALSE]
    /\ stage' = [stage EXCEPT ![s] = "working"]
    /\ UNCHANGED <<ahead, used, way, stopping, up, counts>>

(* Claimed, but its inputs cannot be resolved or its first write is refused.    *)
ClaimFails(s) ==
    /\ Serving
    /\ stage[s] = "waiting" /\ s \notin stopping
    /\ InTurn(s) /\ SlotFree
    /\ Refuse
    /\ job' = [job EXCEPT ![s] = "running"]
    /\ claim' = [claim EXCEPT ![s] = "held"]
    /\ ShowOne(s, "queued")
    /\ LeaveLease(s, "failed")
    /\ UNCHANGED <<ahead, budget, stopping, up>>

(* The waiter is cancelled or finds the row settled; a cancelled waiter cancels *)
(* a row that no claim has touched.                                             *)
WaitEnds(s) ==
    /\ Serving
    /\ stage[s] = "waiting"
    /\ s \in stopping \/ job[s] \in Settled
    /\ IF job[s] = "queued" /\ claim[s] = "none"
       THEN job' = [job EXCEPT ![s] = "cancelled"] /\ ShowOne(s, "cancelled")
       ELSE UNCHANGED <<job, step, plan>>
    /\ Goto(s, "none")
    /\ UNCHANGED <<claim, ahead, budget, up, counts>>

(* _expire_foreign_claims, at the head of every waiter's loop: claims whose     *)
(* release was refused.                                                         *)
Sweep ==
    /\ Serving
    /\ \E s \in Steps : stage[s] = "waiting"
    /\ \E s \in Steps : claim[s] = "left"
    /\ LET cut == {s \in Steps : claim[s] = "left" /\ job[s] \in Active}
       IN  /\ job' = [s \in Steps |-> IF s \in cut THEN "interrupted" ELSE job[s]]
           /\ Show([s \in Steps |-> IF s \in cut THEN "interrupted" ELSE step[s]])
    /\ claim' = [s \in Steps |-> IF claim[s] = "left" THEN "none" ELSE claim[s]]
    /\ UNCHANGED <<ahead, budget, task, up, counts>>

(* A refused sweep raises out of the wait, and fails a row no claim has touched,*)
(* if that write is not refused as well.                                        *)
WaitRaises(s) ==
    /\ Serving
    /\ stage[s] = "waiting" /\ s \notin stopping
    /\ \E k \in Steps : claim[k] = "left"
    /\ Refuse
    /\ \/ /\ job[s] = "queued" /\ claim[s] = "none"
          /\ job' = [job EXCEPT ![s] = "failed"]
          /\ ShowOne(s, "failed")
       \/ UNCHANGED <<job, step, plan>>
    /\ Goto(s, "none")
    /\ UNCHANGED <<claim, ahead, budget, up>>

--------------------------------------------------------------------------------
(* The task works: the body of the lease.                                       *)

At(s) == Serving /\ stage[s] = "working" /\ s \notin stopping

(* _complete: the conditional write, then run, step and plan with it.           *)
Complete(s) ==
    /\ At(s)
    /\ job[s] = "running"
    /\ job' = [job EXCEPT ![s] = "complete"]
    /\ ShowOne(s, "complete")
    /\ LeaveLease(s, "done")
    /\ UNCHANGED <<claim, ahead, budget, stopping, up, counts>>

BodyFails(s) ==
    /\ At(s)
    /\ LeaveLease(s, "failed")
    /\ UNCHANGED <<rows, budget, stopping, up, counts>>

(* CancelledError; the handoff runs nevertheless.                               *)
BodyStops(s) ==
    /\ Serving
    /\ stage[s] = "working" /\ s \in stopping
    /\ LeaveLease(s, "cancelled")
    /\ stopping' = stopping \ {s}
    /\ UNCHANGED <<rows, budget, up, counts>>

--------------------------------------------------------------------------------
(* The task leaves: job_lease's exit and the handlers of _execute, which do not *)
(* suspend once the heartbeat has ended.                                        *)

(* A variant of the guard that knows neither status nor attempt.                *)
MineUnguarded(s) == job[s] # "complete"

(* _claim_terminal_transition would match: only this task takes its row, so one *)
(* that runs is its own.                                                        *)
Mine(s) == job[s] = "running"

(* A variant that spends one retry more than the run was given.                 *)
RetryableOnceMore(s) == up = "up" /\ used[s] <= Limit[s] /\ ~pending[s]

(* _failed_media_retry.                                                         *)
Retryable(s) == up = "up" /\ used[s] < Limit[s] /\ ~pending[s]

(* _fail, for a claim that the release has left as `freed`.                     *)
Fail(s, freed) ==
    \/ /\ Mine(s) /\ Retryable(s)
       /\ job' = [job EXCEPT ![s] = "queued"]
       /\ ShowOne(s, "queued")
       /\ claim' = [claim EXCEPT ![s] = "none"]
       /\ ahead' = ToTail(s)
       /\ used' = [used EXCEPT ![s] = @ + 1]
       /\ pending' = [pending EXCEPT ![s] = TRUE]
    \/ /\ Mine(s) /\ ~Retryable(s)
       /\ job' = [job EXCEPT ![s] = "failed"]
       /\ ShowOne(s, "failed")
       /\ claim' = [claim EXCEPT ![s] = freed]
       /\ UNCHANGED <<ahead, budget>>
    \/ /\ ~Mine(s)
       /\ claim' = [claim EXCEPT ![s] = freed]
       /\ UNCHANGED <<job, step, plan, ahead, budget>>

(* A cancellation that arrives in the handoff replaces what was under way.      *)
HowLeft(s) == {way[s]} \cup (IF s \in stopping THEN {"cancelled"} ELSE {})

(* The claim the release finds is this task's or, after a retry, nobody's.      *)
Ends(s) ==
    /\ Serving
    /\ stage[s] = "exit"
    /\ \/ /\ "done" \in HowLeft(s)
          /\ claim' = [claim EXCEPT ![s] = "none"]
          /\ UNCHANGED <<job, step, plan, ahead, budget>>
          /\ Return(s)
       \/ /\ "failed" \in HowLeft(s)
          /\ Fail(s, "none")
          /\ Return(s)
       \/ /\ "cancelled" \in HowLeft(s)
          /\ IF Mine(s)
             THEN job' = [job EXCEPT ![s] = "cancelled"] /\ ShowOne(s, "cancelled")
             ELSE UNCHANGED <<job, step, plan>>
          /\ claim' = [claim EXCEPT ![s] = "none"]
          /\ UNCHANGED <<ahead, budget>>
          /\ Goto(s, "none")
    /\ UNCHANGED <<up, counts>>

Freed(s) == IF claim[s] = "held" THEN "left" ELSE claim[s]

(* The refused release raises, which is a failure whatever came before; its     *)
(* write may be refused as well.                                                *)
EndsUnreleased(s) ==
    /\ Serving
    /\ stage[s] = "exit"
    /\ Refuse
    /\ \/ Fail(s, Freed(s)) /\ Return(s)
       \/ /\ claim' = [claim EXCEPT ![s] = Freed(s)]
          /\ UNCHANGED <<job, step, plan, ahead, budget>>
          /\ Goto(s, "none")
    /\ UNCHANGED up

(* Released, but the handler's write is refused.                                *)
EndsUnwritten(s) ==
    /\ Serving
    /\ stage[s] = "exit" /\ Mine(s)
    /\ Refuse
    /\ claim' = [claim EXCEPT ![s] = "none"]
    /\ UNCHANGED <<job, step, plan, ahead, budget, up>>
    /\ Goto(s, "none")

(* One second later; outside _execute a cancellation has no handler.            *)
SleepEnds(s) ==
    /\ Serving
    /\ stage[s] = "sleeping"
    /\ Goto(s, IF s \in stopping \/ up = "closing" THEN "none" ELSE "waiting")
    /\ UNCHANGED <<rows, budget, up, counts>>

--------------------------------------------------------------------------------
(* The person.                                                                  *)

(* cancel(): the task is told, the row and what is shown change at once.        *)
Cancel(s) ==
    /\ up = "up"
    /\ job[s] \in Active \cup {"interrupted"}
    /\ job' = [job EXCEPT ![s] = "cancelled"]
    /\ ShowOne(s, "cancelled")
    /\ stopping' = IF Live(s) THEN stopping \cup {s} ELSE stopping
    /\ UNCHANGED <<claim, ahead, budget, stage, way, up, counts>>

(* The task is told before the commit that is refused.                          *)
CancelRefused(s) ==
    /\ up = "up"
    /\ job[s] \in Active
    /\ Live(s)
    /\ Refuse
    /\ stopping' = stopping \cup {s}
    /\ UNCHANGED <<rows, budget, stage, way, up>>

(* A variant that also repeats what succeeded.                                  *)
RetryAny(s) ==
    /\ up = "up"
    /\ job[s] \in Settled
    /\ retries < MaxRetries
    /\ retries' = retries + 1
    /\ job' = [job EXCEPT ![s] = "queued"]
    /\ ShowOne(s, "queued")
    /\ claim' = [claim EXCEPT ![s] = "none"]
    /\ ahead' = ToTail(s)
    /\ stage' = [stage EXCEPT ![s] = IF Live(s) THEN @ ELSE "waiting"]
    /\ UNCHANGED <<budget, way, stopping, up, stops, refusals>>

(* The retry endpoint; start() trusts a live task with the job.                 *)
Retry(s) ==
    /\ up = "up"
    /\ job[s] \in Unsuccessful
    /\ retries < MaxRetries
    /\ retries' = retries + 1
    /\ job' = [job EXCEPT ![s] = "queued"]
    /\ ShowOne(s, "queued")
    /\ claim' = [claim EXCEPT ![s] = "none"]
    /\ ahead' = ToTail(s)
    /\ stage' = [stage EXCEPT ![s] = IF Live(s) THEN @ ELSE "waiting"]
    /\ UNCHANGED <<budget, way, stopping, up, stops, refusals>>

--------------------------------------------------------------------------------
(* The process.                                                                 *)

Close ==
    /\ up = "up"
    /\ stops < MaxStops
    /\ stops' = stops + 1
    /\ up' = "closing"
    /\ stopping' = {s \in Steps : Live(s)}
    /\ UNCHANGED <<rows, budget, stage, way, retries, refusals>>

(* The tasks are gone with the process.                                         *)
Die ==
    /\ up' = "down"
    /\ stage' = [s \in Steps |-> "none"]
    /\ way' = [s \in Steps |-> "done"]
    /\ stopping' = {}

(* Claims stay in the database.                                                 *)
Down ==
    /\ Die
    /\ claim' = [s \in Steps |-> IF claim[s] = "held" THEN "left" ELSE claim[s]]
    /\ UNCHANGED <<job, step, plan, ahead, budget, retries, refusals>>

Closed == up = "closing" /\ (\A s \in Steps : ~Live(s)) /\ Down /\ UNCHANGED stops

Crash == Serving /\ stops < MaxStops /\ stops' = stops + 1 /\ Down

(* The process dies after the claim and before the body's first write: the only *)
(* thing that can come between these two transactions.                          *)
CrashClaiming(s) ==
    /\ Serving
    /\ stage[s] = "waiting" /\ s \notin stopping
    /\ InTurn(s) /\ SlotFree
    /\ stops < MaxStops /\ stops' = stops + 1
    /\ job' = [job EXCEPT ![s] = "running"]
    /\ claim' = [claim EXCEPT ![s] = "left"]
    /\ ShowOne(s, "queued")
    /\ Die
    /\ UNCHANGED <<ahead, budget, retries, refusals>>

(* A variant that starts only the steps that could run at once.                 *)
BootEligible ==
    /\ up = "down"
    /\ up' = "up"
    /\ job' = [s \in Steps |-> IF job[s] = "running" THEN "interrupted" ELSE job[s]]
    /\ Show([s \in Steps |-> IF job[s] = "running" THEN "interrupted"
                             ELSE IF job[s] = "queued" THEN "queued" ELSE step[s]])
    /\ claim' = [s \in Steps |-> "none"]
    /\ stage' = [s \in Steps |-> IF job[s] = "queued" /\ Fed(s) THEN "waiting" ELSE "none"]
    /\ UNCHANGED <<ahead, budget, way, stopping, counts>>

(* recover_interrupted, and recover_queue_lanes for the settled rows: queued    *)
(* jobs are started again, running ones interrupted.                            *)
Boot ==
    /\ up = "down"
    /\ up' = "up"
    /\ job' = [s \in Steps |-> IF job[s] = "running" THEN "interrupted" ELSE job[s]]
    /\ Show([s \in Steps |-> IF job[s] = "running" THEN "interrupted"
                             ELSE IF job[s] = "queued" THEN "queued" ELSE step[s]])
    /\ claim' = [s \in Steps |-> "none"]
    /\ stage' = [s \in Steps |-> IF job[s] = "queued" THEN "waiting" ELSE "none"]
    /\ UNCHANGED <<ahead, budget, way, stopping, counts>>

--------------------------------------------------------------------------------
Run(s) ==
    \/ Claim(s)
    \/ WaitEnds(s)
    \/ Complete(s)
    \/ BodyFails(s)
    \/ BodyStops(s)
    \/ Ends(s)
    \/ SleepEnds(s)

Refusal(s) ==
    \/ ClaimFails(s)
    \/ WaitRaises(s)
    \/ EndsUnreleased(s)
    \/ EndsUnwritten(s)
    \/ CancelRefused(s)

Next ==
    \/ \E s \in Steps :
        \/ Poll(s)
        \/ Run(s)
        \/ Refusal(s)
        \/ Cancel(s)
        \/ Retry(s)
        \/ CrashClaiming(s)
    \/ Sweep
    \/ Close
    \/ Closed
    \/ Crash
    \/ Boot

Spec == Init /\ [][Next]_vars

(* Waiters poll and sweep, engines answer or fail, the event loop runs a task   *)
(* that can move, and a started program finishes starting or stopping.  The     *)
(* person owes nothing.                                                         *)
Fairness ==
    /\ \A s \in Steps : WF_vars(Poll(s)) /\ WF_vars(Run(s))
    /\ WF_vars(Sweep)
    /\ WF_vars(Closed)
    /\ WF_vars(Boot)

FairSpec == Spec /\ Fairness

--------------------------------------------------------------------------------
(* Every variable keeps its type.                                               *)
TypeOK ==
    /\ job \in [Steps -> Statuses]
    /\ step \in [Steps -> Shown]
    /\ plan \in [Plans -> Summaries]
    /\ claim \in [Steps -> {"none", "held", "left"}]
    /\ ahead \in SUBSET (Steps \X Steps)
    /\ used \in [Steps -> Nat] /\ \A s \in Steps : used[s] <= Limit[s]
    /\ pending \in [Steps -> BOOLEAN]
    /\ stage \in [Steps -> Stages]
    /\ way \in [Steps -> {"done", "failed", "cancelled"}]
    /\ stopping \in SUBSET Steps
    /\ up \in {"up", "closing", "down"}
    /\ retries \in 0..MaxRetries /\ stops \in 0..MaxStops /\ refusals \in 0..MaxRefusals

(* A step that runs or has run to its end has what it needs, and keeps it: the  *)
(* claiming UPDATE does not look at dependencies, so nothing may take a result  *)
(* back that a later step was started on.                                       *)
FedForGood ==
    \A s \in Steps : job[s] \in {"running", "complete"} => \A d \in Deps[s] : job[d] = "complete"

(* What jobs, steps and plans show agrees after every transaction: a settled    *)
(* job's step has its status, an active one's is queued, running or blocked as  *)
(* the job allows, and a plan shows what its steps derive.                      *)
RowsAgree ==
    /\ \A s \in Steps :
        /\ job[s] \in Settled => step[s] = job[s]
        /\ job[s] = "queued" => step[s] \in {"queued", "blocked"}
        /\ job[s] = "running" => step[s] \in {"queued", "running"}
    /\ \A p \in Plans : plan[p] = Derived(p, step)

(* What was made stays, and a step the person cancelled, or that failed for     *)
(* good, comes back by nothing but the person's retry: no automatic retry, late *)
(* failure or restart revives it.                                               *)
SettledStays ==
    [][\A s \in Steps :
        /\ job[s] = "complete" => job'[s] = "complete"
        /\ job[s] \in Unsuccessful =>
            \/ job'[s] \in {job[s], "cancelled"}
            \/ job'[s] = "queued" /\ retries' # retries]_vars

(* Work that nobody will take up without a restart or the person, because a     *)
(* write was refused or a retry met the task that a cancellation was ending.    *)
Stranded(s) ==
    /\ up = "up" /\ ~Live(s) /\ job[s] \in Active
    /\ refusals # 0 \/ retries # 0

(* However often a step is taken up again, it comes to an end or waits for one  *)
(* that was unsuccessful, whatever retries, restarts and refused writes come    *)
(* between, unless some step is stranded.                                       *)
EveryStepEnds ==
    \A s \in Steps :
        []<>(\/ job[s] \in Settled
             \/ FailedDeps(s) # {}
             \/ \E k \in Steps : Stranded(k))

(* A queued step does not go on being shown as blocked when nothing it needs    *)
(* was unsuccessful, nor as merely queued when something was, also at one       *)
(* remove.                                                                      *)
BlockFollows ==
    \A s \in Steps :
        []<>(\/ job[s] # "queued"
             \/ (step[s] = "blocked") <=> (FailedDeps(s) # {})
             \/ Stranded(s))
================================================================================
