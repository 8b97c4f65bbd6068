# Verification of LM Atelier

LM Atelier is a local application: one FastAPI process, one SQLite database, external
engines (chat and media workers, ffmpeg) and a web interface.  Everything long-running is a
row of the table `jobs`, and everything interesting about correctness happens around those
rows: dispatchers take turns on them, threads write results into them, users cancel, retry,
hold and pause them, the process dies and starts again, and any write may be refused because
another connection holds SQLite's single writer past the busy timeout.  This directory models
that machinery in TLA+, together with two things that hang on it: the consent without which a
turn sends nothing to the web, and the files of models that are installed and deleted.  TLC
checks the models on small instances, TLAPS proves their main properties for all.

Paths below are relative to `src/services/api/local_lm/`.

## 1. Inventory

| Part | State | Operations | Talks to |
| --- | --- | --- | --- |
| Scheduler (`scheduler.py`) | job rows (`status`, `claim_owner`, `claim_expires_at`, `attempt`, rank), a semaphore per group, `_abandoned_claims` | wait, claim, renew, release, expire | every job kind, queue controls |
| Video utilities (`video_utilities.py`) | the same rows, one asyncio task per job | stage, start, cancel, retry, finish, fail, close, recover | scheduler, ffmpeg, library |
| Plan holds (`queue_control.py`) | `WorkPlanControl`: state, revision, `eligible_since`; receipts | hold, release | scheduler's claim |
| Lane pauses (`queue_lane_policy.py`) | `GenerationQueuePolicy`: state, revision; receipts | pause, resume, reconcile, recover | scheduler's claim and release |
| Manual order (`queue_order.py`) | `QueueOrderEntry`, the lane's revision, receipts | move, read | scheduler's ranking |
| Work plans (`work_plans.py`) | plan and step status, dependencies | derive status, block, unblock | scheduler, orchestrator |
| Orchestrator (`orchestrator.py`) | runs, messages, task table, chat guards | create turn, execute, cancel, retry, recover | scheduler, engines |
| Web search consent (`web_search_consent.py`) | proposals | propose, decide, dispatch once, recover | orchestrator, provider |
| Downloads and installation (`downloads.py`, ...) | rows, partial files | transfer, resume, activate | scheduler, network |
| Model deletion (`model_quarantine.py`) | rows, quarantine directories | stage, commit, finalize, recover | file system |
| Shared assets (`shared_asset_leases_v1.py`, ...) | rows of a shared database, lock files, process memory | acquire, renew, release, steal | other installations |
| Locks (`instance_lock.py`, `workspace_lock.py`) | a locked file; a locked or unlocked workspace | take, release | startup, requests |

What is hard about them, each with its line and the properties aimed at it, is the list
`hazards` of PROJECT.json.  In short:

* **Interleaving.**  The event loop runs one coroutine at a time, but results are written in
  threads, lane commands run in worker threads, and a second process may be about.  SQLite
  serialises transactions, not decisions: a decision taken on a read is only as good as the
  `WHERE` of the `UPDATE` that acts on it, and an ORM flush has none but the primary key.
* **Failure.**  Any write can be refused.  A refused release leaves a claim nobody holds; a
  refused failure write leaves work nobody does.
* **Time.**  Claims lapse under slow executions, which go on and write.
* **Crashes.**  Claims, half-done cancellations and shutdowns outlive the process.
* **Stale decisions.**  Position, revision, attempt and task liveness are read before an await
  and used after it.

What makes each part correct:

* scheduler: a row is held by its newest attempt only; every claim has somebody who will give
  it back; claims stay within the capacity; nobody waits for ever;
* utilities: nobody touches the row of a job that is being worked on; cancels and shutdowns
  end; every job ends; a restart takes up what was left;
* holds and pauses: held and paused mean idle; a start is in turn at the moment it happens;
  one command wins per revision; draining ends;
* order: moves permute a cohort and nothing else; a claim never uses an order that has changed;
* plans: the derived status agrees with the steps; a blocked step is unblocked;
* consent: at most one dispatch per approval; model deletion: all or nothing;
  shared leases: row, lock file and memory agree.

## 2. Plan

Most important first; a module is written so that it can be proved about as well as checked
(no `RECURSIVE`, one action per operation, invariants as named conjuncts).

1. `JobLedger` (abstract), `JobLease` (the claim protocol), `JobLedgerProofs`,
   `JobLeaseProofs` and `OrderFacts` (the order of a queue) - *done*
2. `UtilityJobs` (a whole client of the protocol, one process), `UtilityJobsProofs` - *done*
3. `QueueGate` (holds, lane pauses and manual moves against the final claim),
   `QueueGateProofs` - *done*; the moves became commands of this module and not one of their
   own, since all that matters about them is how they meet the claim
4. `ConsentLedger` (abstract), `SearchTurn` (one turn with its proposal), `SearchTurnProofs` -
   *done*
5. `ModelStore` (installing and deleting in one directory), `ModelStoreProofs` - *done*
6. `WorkPlans` (steps that wait for each other, automatic retry, blocked steps),
   `WorkPlansProofs` - *done*
7. the rest of the orchestrator: handoffs between the engines, response revisions,
   verification jobs and how they are displaced
8. downloads: pause, resume and cancel over partial files; workspace locks

## 3. Modules

### JobLedger - the promise about a row

Four variables per job: `status`, `attempt`, `claim` (the attempt that holds the row, 0 for
none) and `result` (the attempt whose outcome the row carries).  An unclaimed queued job is
taken under a new attempt; a running job ends with what its newest attempt made; a sweep
interrupts only what is not settled; what was made is taken back by nothing but a retry, and
only work that did not succeed is retried.  It is a specification, not a model of code, and is
implemented by `JobLease` and `UtilityJobs`.

### JobLease - scheduler.py

One call of `job_lease` is an element of `Execs`; it is also the token that call mints.  `pc`
says where the call is:

| `pc` | code | steps |
| --- | --- | --- |
| `top` | head of `_acquire_job`'s loop (316-319) | `NothingExpired`, `ExpireRead`, `Expire`, `ExpireRefused` |
| `pass` | the bookkeeping transaction (322-445) | `PassSettled`, `PassBusy`, `Pass` |
| `slot` | awaiting the semaphore (450) | `TakeSlot` |
| `claim` | ranked, before the `UPDATE` (485) | `Claim`, `ClaimMissed` |
| `held` | the body of `async with job_lease` and its heartbeat | `Renew`, `ClaimLost`, `Settle`, `SettleRetry`, `BodyEnds` |
| `exit` | the `finally` block (179-211) | `Release`, `ReleaseRefused` |
| `after` | the caller's code after the lease | `SettleLate`, `Return` |

`OnLoop` is the event loop: between ranking and `UPDATE`, and between what an ORM session reads
and what it flushes, nothing else of that process moves, while other processes and threads do.
`Settle` of a job in `Threaded` (video utilities) needs only `Up`, as a thread writes it.
`lapsed` stands for the clock: `Lapse` may let any claim's expiry pass at any time, renewed
ones included, which covers every relation of heartbeat and expiry.  `busy` is the writer held
past the busy timeout.

Guarded writes (claim, result, release, renewal) decide in the statement that writes and are one
step.  A sweep, a cancel and a retry do not: the code selects rows, decides, and flushes by
primary key.  They are two steps, `ExpireRead` and `Expire`, `CancelRead` and `CancelRow`,
`RequeueRead` and `Requeue`, and `pending` holds what a session is about to write (`Work`);
`Flush` writes it whatever has happened to the rows, `ExpireRefused` and `RequestRefused` are
the refused forms.  `CancelThreaded` is one step, as it reserves the writer before it reads; so is
`Boot` (`recover_interrupted` and `recover_queue_lanes`), whose first statement is a `DELETE`,
and `SettleRetry`, whose first is the guarded `UPDATE` of `_claim_terminal_transition`.

`Overlap` says whether two processes may run at once.  The data-directory lock
(`instance_lock.py`, taken in `main.py`) forbids it, but the claim is written for foreign
dispatchers.  What does not depend on the lock: every claim is accounted for, a settled row
shows its newest attempt, an attempt that had an outcome never runs again.  What does: a sweep,
cancel or retry of one process may overwrite what another committed since its read, so that a
success becomes interrupted or a new owner is cleared.  TLC finds that at once when
`ImplementsLedger` is checked with `Overlap = TRUE`; `OnlyStaleFlushTakesBack` proves that it is
the only way.  The refinement of the ledger is therefore claimed for one process at a time.

Abstracted: all jobs are of one priority and none was held or moved, so their rank is the order
of arrival, `ahead`, which retry and requeue change.  With priorities, ageing, `eligible_since`
and manual order the code does let jobs overtake, and nothing is claimed about that here;
progress fields, events and power inhibition are left out; the shared
eligibility scan only decides who looks closer, so a `Pass` may send anybody who is in turn;
`paused` rows belong to search consent.  Plan and lane predicates of the `UPDATE` are
`QueueGate`'s subject.

### UtilityJobs - video_utilities.py

A job's task moves `waiting`, `body`, `store`, `finish` or `failing`, `exit`.  A step is what
runs between two suspension points or one transaction of a thread.  `cancel` has two halves
with an await between them (`CancelTask`, `CancelRow`), or none if there is no live task
(`CancelIdle`).  `close` is `CloseTasks` and `CloseRows`; startup is `BootRows`, `BootJobs`,
`BootClaims` in the order of `main.py`'s lifespan, so that a crash may fall between them.
`stopping` holds the tasks with a requested cancellation: the body ends at once, the writes of
`_finish` and `_fail` outlast it (`outlast_cancellation`).  Each write has a refused form.
With one process and one live task per job the lease of `JobLease` is a Boolean here; taking
the next turn is one step.

### QueueGate - queue_control.py, queue_lane_policy.py, queue_order.py, the final claim

A gate is a plan or the lane.  The final claim is `Consider` (read the snapshots), `Rank` or
`NotInTurn`, `Claim` or `ClaimMissed` (the `UPDATE` with both predicates); commands may come
between any two of them.  Actions that run on the event loop need `LoopFree`.  A command names
a key and the revision it was meant for, possibly an old one; replays and conflicts change
nothing and are not steps.  `Reconcile` is part of every action whose code calls
`reconcile_queue_lanes`, and of no other: that a retry is not among them is a finding.

`Move` is `change_queue_order`: it is made in an idle lane, for the lane's revision, which it
raises, and gives the plans of the cohort their `place`; `Before` ranks by place and age.
Plans that were never moved are `Unplaced`.

Abstracted: one group, one lane, and one cohort (jobs of one resource and priority); the plan's
own status; a job that was retried while its old execution still leaves its lease starts again
only after that.

### SearchTurn, ConsentLedger - web_search_consent.py, orchestrator.py

`SearchTurn` is one text turn: its job, its run, its proposal, its task and the person.  `stage`
is where the task is (`waiting` for its turn, `choosing`, `parking`, `dispatched`, `request`,
`answering`, leaving the lease, or in the `timer` of an automatic search).  A step is what the
coroutine does between two awaits.  `wake` holds the callbacks by which `resume_search` waits
for the task that is about to end, `agreed` and `offer` the terms that were consented to and
those the task carries to the provider.  The person looks, decides on what was seen, edits,
withdraws, cancels, retries and changes the settings at any time.

`ConsentLedger` is what a request to the outside promises: made once, after an agreement that
stands when it is committed.  `SearchTurn` implements it, with the states of a proposal mapped
to its four phases.

Abstracted: what is asked and answered; whether text is a good query; other turns of the group
are only the waiter that sweeps.

### ModelStore - downloads.py, api.py delete_model, model_quarantine.py

One directory of one model revision, in which several installs own files.  Per install: its
`row` (`none`, `inactive` while a plan's probe is out, `active`), its `staging` directory and
how far the attempt is (`stage`).  `path` says
whether the directory is there: an empty one stays behind a retreat, and is in the way of a
deletion that gives a whole directory back.  A deletion is a program counter `pc` (`settling` what an
earlier one left, `staging`, `opening`, `writing` the marker, `moving`, `deleting` the row,
`rollback`, `finalizing`) and the quarantine `q` with its marker.  `boot` settles at a start.
The event loop does merges and deletions without a pause, so between their file operations
only a crash can come; only `finalizing` runs in a thread, next to anything that does not need
the `primary` lease.  The commit of a deletion has three outcomes: done, refused, unknown.
A cancel or a shutdown may come while an attempt waits and while its cleanup waits for the lease
(`Cancel`, `CleanupCancelled`).  A probe that succeeds replaces some of the other active installs:
those of its role and engine, which are not told apart.

Abstracted: auxiliary assets; contents and sizes; what downloads before staging is complete; several directories.

### WorkPlans - work_plans.py, scheduler.py, orchestrator.py, generation_retry.py, api.py

Steps with one job each, their plans and dependencies across plans.  `job`, `step` and `plan`
are the three statuses a step shows up in; `claim` is the job's owner, `ahead` the order of the
queue.  `stage` is where the task is: `waiting` in `_acquire_job`, `working`, in the `exit` of
the lease, `sleeping` for a second before an automatic retry.  `Poll` is the bookkeeping pass of
a waiter, which marks its step blocked or not; `Claim` the claim with the first transaction of
`_execute`, for nothing suspends between the two: `ClaimFails` has the second one refused, and
in `CrashClaiming` the process dies before it; `Ends` the exit of the lease with the handler that follows, for there is no
suspension between them once the heartbeat has ended; `Fail` is `_fail` with the automatic
retry, `Ends...` and the other actions of `Refusal` are the refused forms.  `Sweep` is
`_expire_foreign_claims`, and `Boot` is `recover_interrupted`.

Abstracted: one process and one slot; claims that lapse (`JobLease`); holds, lanes and manual
order (`QueueGate`); engines and what is handed over between them, except that a cancellation
can arrive while it is; deletion of conversations and of dependencies.

### MC modules

Each `MC...` module names the model values, homes, plans, dependencies, manifests and symmetry
sets of its model.  Definitions called "a variant that ..." in the models are deliberate
errors: each breaks the property it was written for under that property's run.

## 4. Runs

| Run | Shows | Instance |
| --- | --- | --- |
| `job_lease` | types; every claim is accounted for; settled rows show the newest attempt | 1 job, 2 overlapping processes with 2 calls each, capacity 1, writer held once |
| `job_lease_live` | claims within capacity; the protocol implements the ledger; nobody starves on claims | 2 jobs, one of them written by a thread, 2 processes one after the other with 2 and 1 calls, capacity 1, writer held once |
| `job_lease_raise` | *violated*: waiting outlasts a held database | as `job_lease_live` |
| `utility_jobs` | types; work is undisturbed; the ledger is implemented; cancels answered, shutdowns end, jobs end, restarts take up | 2 jobs; 1 retry, 1 stop, 2 refusals |
| `utility_jobs_retry` | *violated*: a queued job has a task | 1 retry |
| `queue_gate` | types; held and paused are idle; one winner; starts are in turn; draining ends; open gates serve | 2 jobs of 2 plans, capacity 1, 2 keys; 1 retry, 1 refusal, 1 stop |
| `queue_gate_drain` | *violated*: a drained lane pauses | 1 retry, 1 refusal |
| `search_turn` | types; one request; paused is asked; sent as agreed; consent implemented; approvals taken up; turns and windows end | 1 query, 2 providers, 2 revisions; 1 retry, stop, refusal and change of settings |
| `search_turn_swept` | *violated*: a claim without a task is swept | 1 refusal |
| `model_store` | types; active models keep their files; shared files spared; files follow the row; starts settle; attempts end | 2 selections that share a file and a plan with its own; 1 crash, 1 fault |
| `model_store_shared` | *violated*: active models keep their files | a selection and a plan that share a file; no crash, no fault |
| `work_plans` | types and retry limits; fed for good; rows agree; settled stays; steps end; blocks follow | a chain of 3 steps in 2 plans, the first retried automatically once; 1 retry, 1 stop, 2 refusals |

**Why the bounds are enough.**  In `job_lease` four calls on
one row are a displaced holder, its successor and a sweeper on either side, with reads of either
process before the commits of the other; everything it checks is about one row at a time.  In
`job_lease_live` two jobs are a job and one that is in its way, and three calls a claim, a waiter
of the same process and one of the next.  Capacity 1 makes every leaked claim fatal.  Two
keys per gate allow hold-release and pause-resume, the shortest histories after which a state
looks unchanged; as keys bound the commands, `MaxRevision` (the code's 2^63 - 1) is never reached.  `attempt` is
bounded by the calls and the retries.  In `search_turn` two revisions are an edit that a decision
can miss, and two providers a change it can miss; a second query would only rename the edit.
In `model_store` two selections with a common file are the least in which a deletion has
something to spare, and the third install is there to fail.  In `work_plans` three steps are
the least in which a block has to spread to a step whose own dependency did not fail, and two
refusals the least that leave a claim and refuse its sweep.  All runs turn deadlock checking
off: with the calls used up, or every job settled and the users silent, the system stops, as
it should.

**Fairness.**  `JobLease`: every waiter is polled (`_QUEUE_POLL_SECONDS`); the loop serves ready
coroutines, and the semaphore its waiters, in order, so that no stream of requests or of other
executions keeps one from its next step (strong fairness per execution, as loop and slot come
and go); a body ends, its release is attempted, a request that has read its row goes on,
another writer lets go, and a claim whose process is gone expires
because nobody renews it.  `UtilityJobs`: tasks and handlers run on, ffmpeg runs under a time
limit, a started program finishes starting.  `QueueGate`: waiters poll and sweep and the
coroutine with the slot runs on; the loop is busy with other claims again and again but serves
whoever is ready in order of arrival, hence strong fairness of `Consider`, `Execution` and
`Expire`.  `SearchTurn`: the loop runs a task that can move and the callbacks of one that has
ended, the window passes, model and provider answer or time out, waiters of the group sweep,
a start and a shutdown finish.  `ModelStore`: a deletion and a start run on (weak); attempts
get the leases in turn (strong, for deletions take them in between).  `WorkPlans`: waiters poll
and sweep, tasks that can move do, a start and a shutdown finish.  Nothing is ever
owed by a user, no crash, refusal or lapse of a live claim is assumed to happen, and none is
assumed not to.

**What the properties except, and why.**  Each exception is real, and everything else is shown
not to delay for good.

* `NoWaiterStarves`: a queued row in front whose own execution is gone.
* `EveryJobEnds`: a stranded job.  A retry can be swallowed (finding 2), and when the write of a
  failure is refused the row stays running without a claim: retry refuses it and no sweep sees it.
* `TurnEnds` and `EveryStepEnds`: the same for turns and steps.  A step is stranded only after a
  refused write or a retry that met the teardown of a cancel; a cancel that is refused while the
  step sleeps before its automatic retry ends the task and leaves the row queued.
* `DrainEnds`: a refusal (finding 3).
* `StartsInTurn`: a plan released between ranking and `UPDATE` that has a manual place may stand
  in front; no predicate compares another plan's control.
* `BootSettles`: a marker torn by a crash or a full disk, which needs a person; and faults.

## 5. Findings

Five runs show the code doing something other than its comments, docstrings or tests say; the
details and quotations are in PROJECT.json.

1. *Waiting ends on a held database* (`job_lease_raise`).  The sweep of expired claims at the
   head of the loop is outside the `try` that treats contention as a reason to wait.
2. *A retry can be swallowed* (`utility_jobs_retry`).  It may arrive after a failure is committed
   and before the old task has ended; `start` then trusts a task that is about to end.
3. *A drained lane can stay draining* (`queue_gate_drain`).  A retry clears a claim without
   reconciling the lanes, and the resume that is offered conflicts until something else
   reconciles.
4. *A paused turn can keep the slot* (`search_turn_swept`).  If the release of a turn that pauses
   for a search is refused, no sweep selects its row, and its claim counts as long as the person
   is asked.
5. *A failing plan can take a shared file* (`model_store_shared`).  Retreat to staging does not
   look whether an active selection of the same revision needs the file.

## 6. Proofs

Everything here is proved for all values of the constants, from the named assumptions of the
module and nothing else: jobs and steps are finite sets (`FiniteAssumption`; nobody accepts
infinitely much work), capacities and bounds are numbers, every call has a process.
`WorkPlans` has its dependencies acyclic by its initial states, which accept a step after what
it needs.

### Facts about queues

`OrderFacts` has what the proofs need of `ahead`, the order `enqueued_at`, `eligible_since` and
`ticket` give: `OrderHasFirst` (some element of a non-empty part of a finite strict order has
nothing of that part before it; the sets of predecessors are finite, so one is least),
`TailKeepsOrder`, `TailKeepsTotal` and `LastKeepsOrder` (moving one row to the tail keeps the
order strict, or total), `RankFollowsOrder` (the numbers a move gives out follow the order it
was given).  `SomebodyAlwaysNext` and `NeverAllWaiting`, below, rest on it.

### JobLedger and what its implementations inherit

`JobLedgerProofs` proves about the ledger itself: `ResultsAlwaysExact` (a row carries the outcome
of its newest attempt exactly while complete or failed), `SuccessAlwaysKept` (no step takes a
success back) and `AttemptsSpentOnce` (an attempt that had an outcome never runs again).  The
last is about a whole behaviour: `Over(j, a)`, "the row of j has moved past attempt a, or is not
at work on it", is kept by every step once it holds.

`JobLeaseProofs` and `UtilityJobsProofs` instantiate that module as `Promise` under the refinement
mappings and get the same for the code by `LeaseImplementsLedger` and
`UtilityImplementsLedger`, without looking at an action again: `LeaseResultsExact`,
`LeaseKeepsSuccess`, `UtilityResultsExact`, `UtilityKeepsSuccess`.  So it holds with lapsed
claims, held writers, threads and refused writes, one process at a time.  With overlapping
processes `LeaseSpendsOnce` and `OutcomesNewest` still hold; `OutcomeInv` and `StatusEffect` give
them without the refinement.

### JobLease

* `TypeCorrect`: `Spec => []TypeOK`, one step per action.
* `ClaimsAccounted`: `[]OwnerAccounted`, inductive together with `TypeOK` and `PendingInv`, which
  says what is pending: each process is in the middle of one thing at most, its waiter stands
  where it read, and the tokens a sweep will forget are abandoned and own nothing but what it
  clears.  The steps that matter are `ReleaseRefused`, where the claim passes from the call to
  `abandoned`, and `Expire`, which forgets only tokens whose rows it has cleared.
* `OutcomesNewest`: `[]NewestOutcome`, for any overlap.  By itself it is not inductive:
  `OutcomeInv` adds that no row carries an outcome of an attempt that was not made, and a running
  row none of the attempt it runs.  The half about one process at a time follows from the ledger.
* `OnlyStaleFlushTakesBack`: `Spec => OnlyStaleFlush`, an action property.  `StatusEffect` sums up
  what any action does to a row's status; a success is taken back by a flush that had marked the
  row before it succeeded, and by nothing at all with one process.
* `CapacityKept`: `[]ClaimsWithinCapacity`.  The ranking, not the semaphore, bounds the claims.
  `CapacityInv` adds that, unless processes overlap, at most one is up and a call at `claim`
  still has room for one more claim; `RunsUp` says that only running processes have calls in
  progress.
* `LeaseImplementsLedger`: `Spec => Ledger!LedgerSpec` if processes do not overlap, each step mapped to a ledger step or a
  stutter under `claim = attempt` of a claimed row; `ClaimCounted` says that a claimed row has
  been attempted, so that 0 is free to mean "unclaimed".  What makes a read as good as the flush that
  follows is `AsRead`: while a session is between them, the rows it will write
  are still as it found them, for the loop runs nobody else and the only writers left, threads,
  settle rows whose execution is in its lease: a sweep reads none of those, a cancel none that a
  thread writes, a retry only settled ones.
* `OneWriterOnly`: `[]OneWriter`.  Of all executions, those that lost their claim and the
  threads of other processes included, at most one passes the guards of
  `_claim_terminal_transition`; and where the row runs under an execution's attempt it is that
  one, so the guard on the claim refuses nobody whom the guard on the attempt would let through.
  `ClaimEffect` sums up what any action does to claims (one is taken, or some fall);
  `AttemptInv` follows from it: an attempt belongs to one execution, and nobody else holds the
  row while it is the newest.
* `SweepSparesWork`: `[]SweepSpares`.  Unless processes overlap, the sweep reads and clears no claim
  whose execution is inside its lease, however late the heartbeat: `AbandonedLeft` says that what a
  dispatcher remembers as abandoned has left the lease.
* `SomebodyAlwaysNext`: as long as there is room the eligible jobs have one in turn.
* `SlotsAlwaysKept`: `[]SlotsKept`.  Per process, calls between slot and release are at most the
  capacity, and at most one is between ranking and `UPDATE`.  It holds with overlapping
  processes, where `ClaimsWithinCapacity` does not.
* `NeverAllWaiting`: `[]NoStandstill`.  Some call of a process that has any in progress can
  move: nobody waits for the semaphore or the loop while all who have them wait too.  While the
  loop is between a read and its flush, that flush is what comes next, and waits for the writer
  only.

### UtilityJobs

* `TypeCorrect`; `RowsUndisturbed` (`[]WorkUndisturbed`), which needs `RequestInv` (a request to
  cancel that resumes has read an older attempt than the one now worked on);
  `UtilityImplementsLedger`, for which `ClaimedInv` says that a claimed row has been added and
  attempted.
* `SlotNeverShared` (`[]SlotExclusive`) and `ClaimsAlwaysHeld` (`[]ClaimsHeld`), with `PhaseInv`,
  which relates each stage of a task to its row and its claim.
* `NothingElseStrands` (`[]StrandedBy`).  `EveryJobEnds` excepts jobs that are
  stranded; this says that only a refused write, or a retry that met the old task still ending,
  strands one.  `ServedInv` is the invariant: without either, a queued row has its task waiting,
  a running one has its task at work, and a task being cancelled has a request behind it.
* `NeverAllWaiting` (`[]NoStandstill`): while a task is live, some task or request can move,
  unless a job is stranded.  `WaitInv` and the order of the queue give the first queued job.

### QueueGate

* `TypeCorrect`; `HeldPlansIdle` and `PausedLaneIdle` (`[]HeldIsIdle`, `[]PausedIsIdle`), each
  inductive together with the types.  The steps that matter are `Claim`, which fails on a closed
  gate whatever was read before, and `HoldPlan`, which finds every remaining job waiting.
* `CommandsHaveOneWinner`: `[]OneWinner`.  `ReceiptsInv` adds that every receipt is of a revision
  its gate has left, so that the next command cannot be meant for the same one.
* `StartsAreInTurn`: `Spec => StartsInTurn`, an action property.  `TurnInv` is what the claim
  relies on between ranking and `UPDATE`: the revisions it read are not newer than the gates',
  and as long as the `UPDATE` would succeed the job is in turn.  A command on the job's own plan
  or on the lane makes the `UPDATE` fail; a hold of another plan takes jobs out of the queue and
  a release puts them back, at the tail unless they have a manual place (`InTurnBut` excepts
  those); a move raises the lane's revision.
* `RoomAlwaysKept`: `[]RoomKept`, with `RoomInv`: whoever is being chosen still has its place.
* `DrainingHasWork`: `[]DrainingBusy`.  A lane drains only while an execution is left whose end
  will reconcile it, unless a release was refused; the safety core of `DrainEnds`.
* `SomebodyAlwaysNext`: `[]SomebodyIsNext`.  `RankInv` says that arrival is a total order;
  manual places before it still make `Before` a strict order, which has a first element.
* `MovesKeepTheirPromise`: `Spec => MovesAsAsked`, an action property: a move puts the plan
  right before or right after its anchor and leaves the others as they were among themselves.
  The places are numbers given out along a rearranged order, so the proof is that this
  order is total again and that the numbers follow it.

### SearchTurn

* `TypeCorrect`, `PausedTurnsAsked` (`[]PausedIsAsked`);
* `OneRequest` (`[]SentOnce`) with `DispatchInv`: a task that is about to send has committed the
  dispatch itself, before anything was sent, and no task outlives its process;
* `AgreedTermsSent` (`SentAsAgreed`) with `TermsInv`: an approved proposal is still what was
  agreed, since whatever changes it raises its revision and takes the approval back, and a
  decision names the revision the person saw;
* `ConsentImplemented`: the refinement of `ConsentLedger`.  `WayInv` says that the handlers of
  `_execute` know why the lease was left.
* `ConsentNeverForgotten` (`[]ApprovalHeld`): an approved turn in the queue, or a search in its
  window, has a live task or a callback about to start one.  `WakeInv` goes through the ways a
  consent is handed on: callbacks sit on live tasks, a task that ends calls them, a cancelled
  task has no standing consent left.  It is the safety core of `ApprovalTakenUp` and `WindowEnds`.
* `StrandedOnlySo` (`[]StrandedBy`, with `StrandInv`): the turns that `TurnEnds` excepts come from a
  retry that trusted an ending task, or from a refused write, and from nothing else.
* `TaskNeverStuck` (`[]NoStandstill`, with `StuckInv`): `_search_before_answer` has a case for
  every proposal a task can meet, and a waiter waits for a claim that can be swept at most.

### ModelStore

* `TypeCorrect`; `SharedFilesSpared` with `OpenInv` (a quarantine is open before anything is
  moved there), `LeaseInv` (who works on files holds the lease for it) and `SpareInv` (what is
  in the quarantine no other row misses); `FilesFollowRow`;
* `ActiveFilesKept` (`[]ActiveKept`) with `KeptInv`, under the assumption
  `PlansApart` that no plan shares a file with another install.  The assumption is needed:
  `model_store_shared` is the counterexample without it.
* `StartsSettled` (`[]IdleSettled`) and `CrashesNeverConflict` (`[]ConflictsOnlySo`) with `BackInv`:
  without a failed operation the process does not go on beside a quarantine it could have
  settled, and what was set aside finds its place free, since nobody writes there between a move
  and its recovery.  The first is the safety core of `BootSettles`.
* `LeaseNeverLeft` (`[]LeaseOwned`): the primary lease is free, or a deletion's or a probe's that
  is under way; the core of `AttemptEnds`.
* `DeletionNeverStuck` (`[]NoStandstill`) with `MarkerInv`: the marker is whole from the first move
  to the last removal, so every start, deletion or rollback finds a case for what it meets.

### WorkPlans

* `EffectStep` sums up what any action may do to the rows of one step: `Moves` lists the six
  kinds.  The properties follow from it without looking at the actions again.
* `TypeCorrect`, which includes that no run spends more retries than it was given;
* `RowsAlwaysAgree` (`[]RowsAgree`), inductive; `ShowKeeps` is the lemma that deriving only the
  plans of changed steps keeps all plans derived;
* `StepsFedForGood` (`[]FedForGood`), inductive together with `RowsAgree`: the claim looks at what
  steps show, the promise is about jobs;
* `SettledStay` (`SettledStays`);
* `TasksSettleTheirOwn` (`[](SlotExclusive /\ OwnAttempt)`), with `PhaseInv`: what guards the
  writes of a task that ends finds the attempt that task began, or refuses;
* `StrandedOnlySo` (`[]NothingElseStrands`), with `ServedInv`: the exception `Stranded` of
  `EveryStepEnds` hides nothing else;
* `NeverAllWaiting` (`[]NoStandstill`): when no task can move and nothing is stranded, what is
  still queued waits on a step that was unsuccessful, and as dependencies are acyclic some step
  does so directly: chains of waiting steps do not close in a circle.

### Only model-checked

Liveness under fairness is outside what the prover supports: `NoWaiterStarves`, `CancelAnswered`,
`ShutdownEnds`, `EveryJobEnds`, `RestartTakesUp`, `DrainEnds`, `OpenGateServes`,
`ApprovalTakenUp`, `TurnEnds`, `WindowEnds`, `BootSettles`, `AttemptEnds`, `EveryStepEnds`,
`BlockFollows`.  What is proved instead is what these rest on in every single state: nobody is
forgotten, the exceptions they make hide nothing else, and somebody can always move.  `ENABLED`
is out of reach too, so "can move" is written out as the guards of the next steps (`Movable`,
`CanGoOn`); TLC, on the instances of the runs, finds a step of the task, or the sweep it waits
for, enabled wherever these hold.  No proof uses induction over data, and no module `RECURSIVE`.

## 7. Not modelled

The component list of PROJECT.json names every part left out with its reason.

* Of downloads, transfers with their pause and resume over partial files; installation of
  workflow assets and media templates.  They are the next candidate.
* Of the orchestrator, which engine is stopped and loaded for whom, response revisions, and
  verification jobs, which run at lower priority and are displaced.
* `shared_asset_leases_v1.py` has no caller in the application; its tests are its only users.
* Chat deletion and recovery, artifacts, prompt expansion, events, the web interface: little
  concurrent logic of their own, or single transactions over much data.
* Engines, runtimes and the programs they start: the behaviour lies outside the repository.
* Setup verification and experiments: flows of the client above the queue.

Most of the repository is endpoints, schemas, catalogues, format readers and supervision of
external programs.  The modelled share of its lines is small for that reason; the modules cover
the code in which interleavings, crashes and refused writes decide the outcome.
