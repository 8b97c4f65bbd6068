-------------------------------- MODULE JobLease -------------------------------
(* The durable lease protocol of ResourceScheduler (scheduler.py) for the jobs  *)
(* of one queue group: how an execution waits its turn, takes the claim, keeps  *)
(* it alive, loses it and gives it back, against other dispatchers on the same  *)
(* database, worker threads, user commands, a held database writer and crashes. *)
(*                                                                              *)
(* An element of Execs is one call of `job_lease`; it doubles as the claim      *)
(* token that call mints, as a token is never reused.  A step of an execution   *)
(* is a run of its dispatcher's event loop up to the next suspension point or   *)
(* transaction; writes of threads and of other processes fall between them.     *)
EXTENDS Naturals, FiniteSets

CONSTANTS
    Jobs,         \* rows of `jobs` with this queue_group
    Execs,        \* the calls of job_lease a behaviour may make (a bound)
    Dispatchers,  \* ResourceScheduler instances, one per process
    Home,         \* [Execs -> Dispatchers]
    NoOne,        \* claim_owner IS NULL, and "no job yet"
    Capacity,     \* capacity of the group
    MaxHolds,     \* how often another writer outlasts the busy timeout (a bound)
    Overlap,      \* may a second process start while one is still running?
    Threaded      \* the jobs whose result a worker thread writes (utilities)

ASSUME HomeAssumption == Home \in [Execs -> Dispatchers]
ASSUME NoOneAssumption == NoOne \notin Execs /\ NoOne \notin Jobs
ASSUME CapacityAssumption == Capacity \in Nat \ {0}
ASSUME BoundsAssumption == MaxHolds \in Nat
ASSUME OverlapAssumption == Overlap \in BOOLEAN
ASSUME FiniteAssumption == IsFiniteSet(Jobs)
ASSUME ThreadedAssumption == Threaded \subseteq Jobs

VARIABLES
    status,     \* [Jobs -> Statuses]             jobs.status
    owner,      \* [Jobs -> Execs \cup {NoOne}]   jobs.claim_owner
    attempt,    \* [Jobs -> Nat]                  jobs.attempt
    result,     \* [Jobs -> Nat]: the attempt whose outcome result_json holds, 0 for none
    lapsed,     \* SUBSET Jobs: claim_expires_at is in the past
    ahead,      \* SUBSET (Jobs \X Jobs): the order enqueued_at and ticket give
    busy,       \* another connection holds SQLite's writer
    holds,      \* how often it has
    up,         \* [Dispatchers -> {"new", "up", "down"}]
    pc,         \* [Execs -> Stages]
    job,        \* [Execs -> Jobs \cup {NoOne}]   the job_id passed to job_lease
    held,       \* [Execs -> Nat]                 JobClaim.attempt
    abandoned,  \* SUBSET Execs: the dispatchers' `_abandoned_claims`
    pending     \* SUBSET Work: what sessions have read and not yet written

row == <<status, owner, attempt, result, lapsed, ahead>>
memory == <<up, pc, job, held, abandoned, pending>>
world == <<busy, holds>>
vars == <<row, memory, world>>

Active == {"queued", "running"}
Unsuccessful == {"failed", "cancelled", "interrupted"}
Terminal == Unsuccessful \cup {"complete"}
Statuses == Active \cup Terminal

(* "top": head of the loop of _acquire_job; "pass": before the bookkeeping      *)
(* transaction; "slot": awaiting the group's semaphore; "claim": ranked first,  *)
(* before the conditional UPDATE; "held": the body of `async with job_lease`;   *)
(* "exit": its finally block; "after": the lease is over, the caller may still  *)
(* write; "raised": the lease ended with a database error while waiting.        *)
Waiting == {"top", "pass", "slot"}
InSlot == {"claim", "held", "exit"}
Ended == {"done", "raised"}
Stages == {"new", "after"} \cup Waiting \cup InSlot \cup Ended

Up(e) == up[Home[e]] = "up"

(* What an ORM session has read and is about to flush, row by row through the   *)
(* primary key and with no other condition: the rows it marks with a status,    *)
(* those whose claim and those whose result it clears, and, for a sweep, the    *)
(* abandoned tokens it will forget.  `by` is the waiter that sweeps.            *)
Work == [on : Dispatchers, by : Execs \cup {NoOne}, to : Statuses, marked : SUBSET Jobs,
         cleared : SUBSET Jobs, dropped : SUBSET Jobs, tokens : SUBSET Execs]

(* An event loop runs one coroutine at a time, and none awaits anything between *)
(* reading rows and flushing them, nor between ranking and claiming.            *)
OnLoop(e) ==
    /\ Up(e)
    /\ \A w \in pending : w.on # Home[e]
    /\ \A x \in Execs \ {e} : Home[x] = Home[e] => pc[x] # "claim"

LoopFree(d) ==
    /\ up[d] = "up"
    /\ \A w \in pending : w.on # d
    /\ \A x \in Execs : Home[x] = d => pc[x] # "claim"

(* The flush: whatever happened to the rows since they were read.               *)
Flush(w) ==
    /\ ~busy
    /\ status' = [j \in Jobs |-> IF j \in w.marked THEN w.to ELSE status[j]]
    /\ owner' = [j \in Jobs |-> IF j \in w.cleared THEN NoOne ELSE owner[j]]
    /\ lapsed' = lapsed \ w.cleared
    /\ result' = [j \in Jobs |-> IF j \in w.dropped THEN 0 ELSE result[j]]
    /\ pending' = pending \ {w}

--------------------------------------------------------------------------------
(* Reads of the database.                                                       *)

Claimed == {j \in Jobs : owner[j] # NoOne}

Eligible == {j \in Jobs : status[j] = "queued" /\ owner[j] = NoOne}

(* The ids ranked before j; a job that is not eligible has no position.         *)
Before(j) == {k \in Eligible : <<k, j>> \in ahead}

(* A variant that counts the waiting jobs and not the claims in the database.   *)
InTurnUncounted(j) == j \in Eligible /\ Cardinality(Before(j)) < Capacity

(* position < max(0, capacity - active_claims)                                  *)
InTurn(j) ==
    /\ j \in Eligible
    /\ Cardinality(Before(j)) + Cardinality(Claimed) < Capacity

(* A variant that leaves a dispatcher's own abandoned claims to others.         *)
ExpiredForeignOnly(d) == {j \in Claimed : j \in lapsed /\ Home[owner[j]] # d}

(* A claim of another dispatcher that was not renewed, or one of this           *)
(* dispatcher's own whose release could not be written.                         *)
Expired(d) ==
    {j \in Claimed :
        \/ j \in lapsed /\ Home[owner[j]] # d
        \/ owner[j] \in abandoned /\ Home[owner[j]] = d}

SlotFree(e) ==
    Cardinality({x \in Execs : Home[x] = Home[e] /\ pc[x] \in InSlot}) < Capacity

Current(e) ==
    /\ status[job[e]] = "running"
    /\ owner[job[e]] = e
    /\ attempt[job[e]] = held[e]

(* The row gets a new enqueued_at.  The jobs here are of one priority, so that  *)
(* ageing (effective_priority) keeps them in the order of their age, and none   *)
(* was held or moved by hand (eligible_since, apply_manual_order); where these  *)
(* differ a job may overtake another, and nothing is claimed about that here.   *)
ToTail(j) ==
    {p \in ahead : p[1] # j} \cup {<<k, j>> : k \in Jobs \ {j}}

Goto(e, stage) ==
    /\ pc' = [pc EXCEPT ![e] = stage]
    /\ UNCHANGED <<job, held>>

(* The call is over and its local state with it.                                *)
Leave(e, stage) ==
    /\ pc' = [pc EXCEPT ![e] = stage]
    /\ job' = [job EXCEPT ![e] = NoOne]
    /\ held' = [held EXCEPT ![e] = 0]

--------------------------------------------------------------------------------
Init ==
    /\ status = [j \in Jobs |-> "queued"]
    /\ owner = [j \in Jobs |-> NoOne]
    /\ attempt = [j \in Jobs |-> 0]
    /\ result = [j \in Jobs |-> 0]
    /\ lapsed = {}
    /\ ahead \in SUBSET (Jobs \X Jobs)
    /\ \A j, k \in Jobs : j # k => (<<j, k>> \in ahead <=> <<k, j>> \notin ahead)
    /\ \A j \in Jobs : <<j, j>> \notin ahead
    /\ \A i, j, k \in Jobs : <<i, j>> \in ahead /\ <<j, k>> \in ahead => <<i, k>> \in ahead
    /\ busy = FALSE
    /\ holds = 0
    /\ up = [d \in Dispatchers |-> "new"]
    /\ pc = [e \in Execs |-> "new"]
    /\ job = [e \in Execs |-> NoOne]
    /\ held = [e \in Execs |-> 0]
    /\ abandoned = {}
    /\ pending = {}

--------------------------------------------------------------------------------
(* Waiting for a turn: _acquire_job.                                            *)

(* A client starts a task that enters job_lease; it keeps one task per job.     *)
Start(e, j) ==
    /\ pc[e] = "new"
    /\ OnLoop(e)
    /\ status[j] = "queued"
    /\ \A x \in Execs : Home[x] = Home[e] => job[x] # j
    /\ job' = [job EXCEPT ![e] = j]
    /\ pc' = [pc EXCEPT ![e] = "top"]
    /\ UNCHANGED <<row, world, up, held, abandoned, pending>>

NothingExpired(e) ==
    /\ pc[e] = "top"
    /\ OnLoop(e)
    /\ Expired(Home[e]) = {}
    /\ Goto(e, "pass")
    /\ UNCHANGED <<row, world, up, abandoned, pending>>

Sweeping(e, expired, unsettled) ==
    [on |-> Home[e], by |-> e, to |-> "interrupted",
     marked |-> {j \in expired : status[j] \in unsettled},
     cleared |-> expired, dropped |-> {},
     tokens |-> {x \in abandoned : Home[x] = Home[e] /\ \E j \in expired : owner[j] = x}]

(* A variant that interrupts every row it clears, the settled ones too.         *)
ReadAlsoSettled(e) ==
    /\ pc[e] = "top"
    /\ OnLoop(e)
    /\ Expired(Home[e]) # {}
    /\ pending' = pending \cup {Sweeping(e, Expired(Home[e]), Statuses)}
    /\ UNCHANGED <<row, world, up, pc, job, held, abandoned>>

(* _expire_foreign_claims reads every expired claim of the group, with its      *)
(* status: work that is not settled is to be interrupted, a result only gives   *)
(* up its claim.  The SELECT reserves nothing.                                  *)
ExpireRead(e) ==
    /\ pc[e] = "top"
    /\ OnLoop(e)
    /\ Expired(Home[e]) # {}
    /\ pending' = pending \cup {Sweeping(e, Expired(Home[e]), Active)}
    /\ UNCHANGED <<row, world, up, pc, job, held, abandoned>>

(* The flush and the commit; only then are the tokens forgotten.                *)
Expire(e) ==
    /\ pc[e] = "top"
    /\ \E w \in pending :
        /\ w.by = e
        /\ Flush(w)
        /\ abandoned' = abandoned \ w.tokens
    /\ Goto(e, "pass")
    /\ UNCHANGED <<attempt, ahead, world, up>>

(* The expiry stands outside the try that swallows contention: with the writer  *)
(* held, its flush raises out of job_lease.                                     *)
ExpireRefused(e) ==
    /\ pc[e] = "top"
    /\ busy
    /\ \E w \in pending : w.by = e /\ pending' = pending \ {w}
    /\ Leave(e, "raised")
    /\ UNCHANGED <<row, world, up, abandoned>>

(* The row is settled: the waiter raises CancelledError.                        *)
PassSettled(e) ==
    /\ pc[e] = "pass"
    /\ OnLoop(e)
    /\ status[job[e]] \in Terminal
    /\ Leave(e, "done")
    /\ UNCHANGED <<row, world, up, abandoned, pending>>

(* The pass records progress; contention here only costs a poll interval.       *)
PassBusy(e) ==
    /\ pc[e] = "pass"
    /\ OnLoop(e)
    /\ status[job[e]] \notin Terminal
    /\ busy
    /\ Goto(e, "top")
    /\ UNCHANGED <<row, world, up, abandoned, pending>>

Pass(e) ==
    /\ pc[e] = "pass"
    /\ OnLoop(e)
    /\ status[job[e]] \notin Terminal
    /\ ~busy
    /\ Goto(e, IF InTurn(job[e]) THEN "slot" ELSE "top")
    /\ UNCHANGED <<row, world, up, abandoned, pending>>

(* The slot is taken and the queue is ranked again: only this fresh answer      *)
(* authorizes a start.  Not in turn any more: the slot goes back.               *)
TakeSlot(e) ==
    /\ pc[e] = "slot"
    /\ OnLoop(e)
    /\ SlotFree(e)
    /\ Goto(e, IF InTurn(job[e]) THEN "claim" ELSE "top")
    /\ UNCHANGED <<row, world, up, abandoned, pending>>

(* The conditional UPDATE takes the row and counts a new attempt.               *)
Claim(e) ==
    /\ pc[e] = "claim"
    /\ OnLoop(e)
    /\ ~busy
    /\ LET j == job[e]
       IN  /\ status[j] = "queued"
           /\ owner[j] = NoOne
           /\ status' = [status EXCEPT ![j] = "running"]
           /\ owner' = [owner EXCEPT ![j] = e]
           /\ attempt' = [attempt EXCEPT ![j] = @ + 1]
           /\ lapsed' = lapsed \ {j}
           /\ held' = [held EXCEPT ![e] = attempt[j] + 1]
    /\ pc' = [pc EXCEPT ![e] = "held"]
    /\ UNCHANGED <<result, ahead, world, up, job, abandoned, pending>>

(* The UPDATE matched no row, or the writer was held: back to waiting.          *)
ClaimMissed(e) ==
    /\ pc[e] = "claim"
    /\ OnLoop(e)
    /\ busy \/ ~(status[job[e]] = "queued" /\ owner[job[e]] = NoOne)
    /\ Goto(e, "top")
    /\ UNCHANGED <<row, world, up, abandoned, pending>>

(* The waiting task is cancelled: at the poll, or awaiting the semaphore.       *)
CancelWaiting(e) ==
    /\ pc[e] \in {"top", "slot"}
    /\ OnLoop(e)
    /\ Leave(e, "done")
    /\ UNCHANGED <<row, world, up, abandoned, pending>>

--------------------------------------------------------------------------------
(* Holding the claim: job_lease and _heartbeat.                                 *)

Renew(e) ==
    /\ pc[e] = "held"
    /\ OnLoop(e)
    /\ ~busy
    /\ owner[job[e]] = e
    /\ lapsed' = lapsed \ {job[e]}
    /\ UNCHANGED <<status, owner, attempt, result, ahead, memory, world>>

(* The heartbeat finds another owner and cancels the displaced execution.       *)
ClaimLost(e) ==
    /\ pc[e] = "held"
    /\ OnLoop(e)
    /\ ~busy
    /\ owner[job[e]] # e
    /\ Goto(e, "exit")
    /\ UNCHANGED <<row, world, up, abandoned, pending>>

(* Time: nobody renewed the claim for _CLAIM_SECONDS.                           *)
Lapse(j) ==
    /\ owner[j] # NoOne
    /\ lapsed' = lapsed \cup {j}
    /\ UNCHANGED <<status, owner, attempt, result, ahead, memory, world>>

(* A variant without the guard: any running row of that id takes the result.    *)
SettleUnguarded(e, outcome) ==
    /\ IF job[e] \in Threaded THEN Up(e) ELSE OnLoop(e)
    /\ pc[e] = "held"
    /\ ~busy
    /\ status[job[e]] = "running"
    /\ status' = [status EXCEPT ![job[e]] = outcome]
    /\ result' = [result EXCEPT ![job[e]] = held[e]]
    /\ UNCHANGED <<owner, attempt, lapsed, ahead, memory, world>>

(* The body's guarded result write, in a thread or on the loop.                 *)
Settle(e, outcome) ==
    /\ IF job[e] \in Threaded THEN Up(e) ELSE OnLoop(e)
    /\ pc[e] = "held"
    /\ ~busy
    /\ Current(e)
    /\ status' = [status EXCEPT ![job[e]] = outcome]
    /\ result' = [result EXCEPT ![job[e]] = held[e]]
    /\ UNCHANGED <<owner, attempt, lapsed, ahead, memory, world>>

(* The body queues its own job again: an automatic retry of a failed attempt.   *)
SettleRetry(e) ==
    /\ pc[e] = "held"
    /\ OnLoop(e)
    /\ ~busy
    /\ Current(e)
    /\ status' = [status EXCEPT ![job[e]] = "queued"]
    /\ owner' = [owner EXCEPT ![job[e]] = NoOne]
    /\ lapsed' = lapsed \ {job[e]}
    /\ ahead' = ToTail(job[e])
    /\ result' = [result EXCEPT ![job[e]] = 0]
    /\ UNCHANGED <<attempt, memory, world>>

(* The body returns, raises or is cancelled.                                    *)
BodyEnds(e) ==
    /\ pc[e] = "held"
    /\ OnLoop(e)
    /\ Goto(e, "exit")
    /\ UNCHANGED <<row, world, up, abandoned, pending>>

(* A variant that drops the call's own state before its caller is done.         *)
ReleaseForgetsJob(e) ==
    /\ pc[e] = "exit"
    /\ OnLoop(e)
    /\ ~busy
    /\ LET j == job[e]
       IN  /\ owner' = [owner EXCEPT ![j] = IF @ = e THEN NoOne ELSE @]
           /\ lapsed' = IF owner[j] = e THEN lapsed \ {j} ELSE lapsed
    /\ Leave(e, "after")
    /\ UNCHANGED <<status, attempt, result, ahead, world, up, abandoned, pending>>

(* _release_job clears the claim if the row still names it; the slot follows.   *)
Release(e) ==
    /\ pc[e] = "exit"
    /\ OnLoop(e)
    /\ ~busy
    /\ LET j == job[e]
       IN  /\ owner' = [owner EXCEPT ![j] = IF @ = e THEN NoOne ELSE @]
           /\ lapsed' = IF owner[j] = e THEN lapsed \ {j} ELSE lapsed
    /\ Goto(e, "after")
    /\ UNCHANGED <<status, attempt, result, ahead, world, up, abandoned, pending>>

(* A variant that frees the slot and does not remember the token.               *)
ReleaseRefusedForgotten(e) ==
    /\ pc[e] = "exit"
    /\ OnLoop(e)
    /\ busy
    /\ Goto(e, "after")
    /\ UNCHANGED <<row, world, up, abandoned, pending>>

(* The release could not be written: the token is remembered as abandoned, the  *)
(* slot is freed all the same.                                                  *)
ReleaseRefused(e) ==
    /\ pc[e] = "exit"
    /\ OnLoop(e)
    /\ busy
    /\ abandoned' = abandoned \cup {e}
    /\ Goto(e, "after")
    /\ UNCHANGED <<row, world, up, pending>>

(* A terminal write after the lease: `_claim_terminal_transition` accepts the   *)
(* row while it is this attempt's and no other claim stands.                    *)
SettleLate(e, outcome) ==
    /\ pc[e] = "after"
    /\ OnLoop(e)
    /\ ~busy
    /\ status[job[e]] = "running"
    /\ attempt[job[e]] = held[e]
    /\ owner[job[e]] \in {e, NoOne}
    /\ status' = [status EXCEPT ![job[e]] = outcome]
    /\ result' = [result EXCEPT ![job[e]] = held[e]]
    /\ Leave(e, "done")
    /\ UNCHANGED <<owner, attempt, lapsed, ahead, world, up, abandoned, pending>>

Return(e) ==
    /\ pc[e] = "after"
    /\ OnLoop(e)
    /\ Leave(e, "done")
    /\ UNCHANGED <<row, world, up, abandoned, pending>>

--------------------------------------------------------------------------------
(* Everybody else.                                                              *)

Request(d, j, to, cleared, dropped) ==
    [on |-> d, by |-> NoOne, to |-> to, marked |-> {j}, cleared |-> cleared,
     dropped |-> dropped, tokens |-> {}]

(* A user cancels a job that is not settled, an interrupted one included.       *)
CancelRead(d, j) ==
    /\ LoopFree(d)
    /\ j \notin Threaded
    /\ status[j] \in Active \cup {"interrupted"}
    /\ pending' = pending \cup {Request(d, j, "cancelled", {}, {})}
    /\ UNCHANGED <<row, world, up, pc, job, held, abandoned>>

(* The row is marked; the claim, if any, stays until it is released.            *)
CancelRow(d) ==
    /\ \E w \in pending : w.on = d /\ w.to = "cancelled" /\ Flush(w)
    /\ UNCHANGED <<attempt, ahead, world, up, pc, job, held, abandoned>>

(* Where a thread may be writing the result, the cancel reserves the writer     *)
(* before it reads.                                                             *)
CancelThreaded(d, j) ==
    /\ LoopFree(d)
    /\ ~busy
    /\ j \in Threaded
    /\ status[j] \in Active \cup {"interrupted"}
    /\ status' = [status EXCEPT ![j] = "cancelled"]
    /\ UNCHANGED <<owner, attempt, result, lapsed, ahead, memory, world>>

(* A user retries an unsuccessful job.                                          *)
RequeueRead(d, j) ==
    /\ LoopFree(d)
    /\ status[j] \in Unsuccessful
    /\ pending' = pending \cup
            {Request(d, j, "queued", {j} \cap Claimed, {k \in {j} : result[k] # 0})}
    /\ UNCHANGED <<row, world, up, pc, job, held, abandoned>>

(* Unclaimed again, at the tail.                                                *)
Requeue(d) ==
    /\ \E w \in pending : \E j \in w.marked :
        w.on = d /\ w.to = "queued" /\ Flush(w) /\ ahead' = ToTail(j)
    /\ UNCHANGED <<attempt, world, up, pc, job, held, abandoned>>

(* The request fails with the database held.                                    *)
RequestRefused(d) ==
    /\ busy
    /\ \E w \in pending : w.on = d /\ w.by = NoOne /\ pending' = pending \ {w}
    /\ UNCHANGED <<row, world, up, pc, job, held, abandoned>>

(* A long transaction, a retention sweep for one, outlasts the busy timeout.    *)
HoldWriter ==
    /\ ~busy
    /\ holds < MaxHolds
    /\ busy' = TRUE
    /\ holds' = holds + 1
    /\ UNCHANGED <<row, memory>>

FreeWriter ==
    /\ busy
    /\ busy' = FALSE
    /\ UNCHANGED <<row, memory, holds>>

(* A process starts; the data-directory lock keeps a second one out.  Before it *)
(* serves anything it interrupts the work a previous one left running and       *)
(* clears every claim (recover_interrupted, recover_queue_lanes): here a DELETE *)
(* reserves the writer before the rows are read.                                *)
Boot(d) ==
    /\ up[d] = "new"
    /\ Overlap \/ \A x \in Dispatchers : up[x] # "up"
    /\ ~busy
    /\ up' = [up EXCEPT ![d] = "up"]
    /\ owner' = [j \in Jobs |-> NoOne]
    /\ status' = [j \in Jobs |-> IF status[j] = "running" THEN "interrupted" ELSE status[j]]
    /\ lapsed' = {}
    /\ UNCHANGED <<attempt, result, ahead, world, pc, job, held, abandoned, pending>>

(* A process dies: its memory is gone, its claims stay in the database.         *)
Crash(d) ==
    /\ up[d] = "up"
    /\ up' = [up EXCEPT ![d] = "down"]
    /\ abandoned' = {x \in abandoned : Home[x] # d}
    /\ pending' = {w \in pending : w.on # d}
    /\ pc' = [e \in Execs |-> IF Home[e] = d THEN "done" ELSE pc[e]]
    /\ job' = [e \in Execs |-> IF Home[e] = d THEN NoOne ELSE job[e]]
    /\ held' = [e \in Execs |-> IF Home[e] = d THEN 0 ELSE held[e]]
    /\ UNCHANGED <<row, world>>

--------------------------------------------------------------------------------
Acquire(e) ==
    \/ NothingExpired(e)
    \/ ExpireRead(e)
    \/ Expire(e)
    \/ ExpireRefused(e)
    \/ PassSettled(e)
    \/ PassBusy(e)
    \/ Pass(e)
    \/ TakeSlot(e)
    \/ Claim(e)
    \/ ClaimMissed(e)

Hold(e) ==
    \/ Renew(e)
    \/ ClaimLost(e)
    \/ \E outcome \in {"complete", "failed"} : Settle(e, outcome) \/ SettleLate(e, outcome)
    \/ SettleRetry(e)
    \/ BodyEnds(e)
    \/ Release(e)
    \/ ReleaseRefused(e)
    \/ Return(e)

Requests(d) == CancelRow(d) \/ Requeue(d) \/ RequestRefused(d)

Next ==
    \/ \E e \in Execs :
        \/ \E j \in Jobs : Start(e, j)
        \/ Acquire(e)
        \/ CancelWaiting(e)
        \/ Hold(e)
    \/ \E j \in Jobs : Lapse(j)
    \/ \E d \in Dispatchers :
        \/ \E j \in Jobs : CancelRead(d, j) \/ CancelThreaded(d, j) \/ RequeueRead(d, j)
        \/ Requests(d)
        \/ Boot(d)
        \/ Crash(d)
    \/ HoldWriter
    \/ FreeWriter

Spec == Init /\ [][Next]_vars

(* The body of a lease comes to an end, the lease is given back, the call       *)
(* returns.                                                                     *)
Finishing(e) == BodyEnds(e) \/ Release(e) \/ ReleaseRefused(e) \/ Return(e)

(* The event loop serves its ready coroutines, and the semaphore its waiters,   *)
(* in order, so no stream of requests keeps an execution from its next step;    *)
(* every waiter polls (_QUEUE_POLL_SECONDS); a body comes to an end; a request  *)
(* that has read its row goes on; another writer lets go of the database; and   *)
(* the claims of a dead process, which nobody renews, reach their expiry time.  *)
Fairness ==
    /\ \A e \in Execs : SF_vars(Acquire(e) \/ Finishing(e))
    /\ \A d \in Dispatchers : WF_vars(Requests(d))
    /\ \A j \in Jobs : WF_vars(Claimed \cap {j} # {} /\ ~Up(owner[j]) /\ Lapse(j))
    /\ WF_vars(FreeWriter)

FairSpec == Spec /\ Fairness

--------------------------------------------------------------------------------
(* Every variable keeps its type: the row columns, the dispatchers' memory and  *)
(* the stages an execution of job_lease moves through.                          *)
TypeOK ==
    /\ status \in [Jobs -> Statuses]
    /\ owner \in [Jobs -> Execs \cup {NoOne}]
    /\ attempt \in [Jobs -> Nat]
    /\ result \in [Jobs -> Nat]
    /\ lapsed \in SUBSET Jobs
    /\ ahead \in SUBSET (Jobs \X Jobs)
    /\ busy \in BOOLEAN
    /\ holds \in 0..MaxHolds
    /\ up \in [Dispatchers -> {"new", "up", "down"}]
    /\ pc \in [Execs -> Stages]
    /\ job \in [Execs -> Jobs \cup {NoOne}]
    /\ \A e \in Execs : pc[e] \notin {"new"} \cup Ended => job[e] \in Jobs
    /\ held \in [Execs -> Nat]
    /\ abandoned \in SUBSET Execs
    /\ pending \in SUBSET Work

(* A claim in the database always belongs to somebody who will give it back:    *)
(* an execution still inside its lease for the attempt the row counts, or one   *)
(* whose dispatcher remembers the token as abandoned, or one whose process is   *)
(* gone, so that its renewal stops.  A claim outside these three would hold its *)
(* group's capacity for good (job_lease's finally block, _release_job).         *)
OwnerAccounted ==
    \A j \in Jobs : \A e \in Execs :
        owner[j] = e =>
            \/ pc[e] \in {"held", "exit"} /\ job[e] = j /\ held[e] = attempt[j]
            \/ e \in abandoned
            \/ up[Home[e]] = "down"

(* What a settled row shows is the outcome of its newest attempt: an execution  *)
(* that was displaced, cancelled or swept writes nothing over its successor     *)
(* (video_utilities `_current`, orchestrator `_claim_terminal_transition`), and *)
(* no stale sweep, cancel or retry of another process leaves a row settled that *)
(* its newest attempt did not settle.  With one process at a time no older      *)
(* outcome stays on a row that works again either.                              *)
NewestOutcome ==
    \A j \in Jobs :
        /\ status[j] \in {"complete", "failed"} => result[j] = attempt[j] /\ attempt[j] > 0
        /\ Overlap \/ result[j] \in {0, attempt[j]}

(* With one process at a time the rows of a group never carry more claims than  *)
(* its capacity, the ones left by a crash or by a refused release included, so  *)
(* no backend is ever asked for more than it was configured for.                *)
ClaimsWithinCapacity == Overlap \/ Cardinality(Claimed) <= Capacity

(* A job queued ahead of e's that no execution of a running process waits for.  *)
OrphanAhead(e) ==
    \E k \in Eligible :
        /\ <<k, job[e]>> \in ahead
        /\ \A x \in Execs : Up(x) /\ pc[x] \in Waiting => job[x] # k

(* Nobody waits for ever on claims: crashes, refused releases, abandoned and    *)
(* lapsed claims, a held database and cancelled neighbours only delay an        *)
(* execution whose job stays queued.  The one thing that keeps it waiting for   *)
(* good is a job in front of it whose own execution ended without settling it.  *)
NoWaiterStarves ==
    \A e \in Execs :
        <>[](Up(e) /\ pc[e] \in Waiting /\ status[job[e]] = "queued") => <>[]OrphanAhead(e)

(* What _acquire_job's comment promises of a held database: for a job that is   *)
(* only waiting its turn it is a reason to wait longer, never a reason to fail. *)
WaitingOutlastsContention == \A e \in Execs : pc[e] # "raised"

(* JobLease implements the ledger while processes do not overlap: a claim       *)
(* stands for the attempt it started.  Two processes may break the promise, as  *)
(* a flush of one writes over what the other committed since the rows were read.*)
Ledger == INSTANCE JobLedger
    WITH claim <- [j \in Jobs |-> IF owner[j] = NoOne THEN 0 ELSE attempt[j]]
ImplementsLedger == Ledger!LedgerSpec
================================================================================
