-------------------------------- MODULE QueueGate ------------------------------
(* What may keep a queued job from starting although it is next: its plan is    *)
(* held (queue_control.py) or its lane is paused (queue_lane_policy.py), against*)
(* the scheduler's final claim (scheduler.py _acquire_job), which reads the     *)
(* controls, ranks the queue and takes the job in separate statements while     *)
(* commands of users commit in between.                                         *)
(*                                                                              *)
(* The dispatcher and the endpoints that cancel and retry run on one event loop,*)
(* where nothing comes between the ranking and the UPDATE; lane commands run in *)
(* worker threads, results are written in threads, and a hold relies on the     *)
(* database alone ("No process lock is authority"), so these come at any time.  *)
(*                                                                              *)
(* A gate is a plan or the lane the jobs belong to.  A gate's revision counts   *)
(* its changes; a command names the revision it was meant for and a key, and a  *)
(* receipt remembers the command that was applied.  A command that conflicts or *)
(* repeats one that was applied changes nothing and is not a step here.  Moving *)
(* a plan in the queue (queue_order.py) is a command too: it raises the revision*)
(* of the lane, and has receipts of its own.                                    *)
(*                                                                              *)
(* All jobs have one resource, one priority and one ageing band: they make one  *)
(* cohort, within which manual places count.                                    *)
EXTENDS Naturals, FiniteSets

CONSTANTS
    Jobs,         \* jobs of one group and one lane
    Plans,
    Lane,         \* the gate of the lane
    PlanOf,       \* [Jobs -> Plans]
    Keys,         \* idempotency keys, in the order a gate's clients draw them:
                  \* the commands a behaviour may apply to one gate
    NoJob,
    Capacity,     \* of the group
    MaxRevision,  \* _MAX_REVISION
    MaxRetries, MaxRefusals, MaxStops    \* bounds

ASSUME PlanAssumption == PlanOf \in [Jobs -> Plans] /\ Lane \notin Plans /\ NoJob \notin Jobs
ASSUME FiniteAssumption == IsFiniteSet(Jobs) /\ IsFiniteSet(Plans)
ASSUME NumbersAssumption ==
    /\ Capacity \in Nat \ {0}
    /\ MaxRevision \in Nat
    /\ MaxRetries \in Nat /\ MaxRefusals \in Nat /\ MaxStops \in Nat

Gates == Plans \cup {Lane}

VARIABLES
    status,      \* [Jobs -> {"queued", "running", "complete", "failed"}]; "failed"
                 \* stands for every unsuccessful end
    claimed,     \* SUBSET Jobs: claim_owner IS NOT NULL
    ahead,       \* SUBSET (Jobs \X Jobs): the rank of enqueued_at and eligible_since
    place,       \* [Plans -> 0..Unplaced]: QueueOrderEntry.position, or Unplaced
    state,       \* [Gates -> ...]: "eligible"/"held", or "open"/"draining"/"paused"
    revision,    \* [Gates -> Nat]
    receipts,    \* the commands that were applied: [gate, key, expected, table]
    leases,      \* SUBSET Jobs: executions inside job_lease
    turn,        \* the job the dispatcher is about to claim, or NoJob
    ranked,      \* BOOLEAN: the queue was ranked for it and it came out in turn
    seen,        \* [plan, lane -> [state, revision]]: read before the ranking
    returned,    \* SUBSET Plans: plans with a place of their own that were released
                 \* since the ranking; history, for StartsInTurn
    retries, refusals, stops

jobs == <<status, claimed, ahead, place>>
gates == <<state, revision, receipts>>
choice == <<turn, ranked, seen, returned>>
counts == <<retries, refusals, stops>>
vars == <<jobs, gates, leases, choice, counts>>

(* The event loop is not inside a final claim.                                  *)
LoopFree == turn = NoJob

Unread == [state |-> "unread", revision |-> 0]
NothingSeen == [plan |-> Unread, lane |-> Unread]
Read(g) == [state |-> state[g], revision |-> revision[g]]

Terminal == {"complete", "failed"}
Of(p) == {j \in Jobs : PlanOf[j] = p}

GateOpen(j) == state[PlanOf[j]] = "eligible" /\ state[Lane] = "open"

(* A variant in which a job behind a closed gate keeps its place.               *)
EligibleUngated == {j \in Jobs : status[j] = "queued" /\ j \notin claimed}

Eligible == {j \in Jobs : status[j] = "queued" /\ j \notin claimed /\ GateOpen(j)}

(* Behind every place a move gives: a plan that was never moved comes last.     *)
Unplaced == Cardinality(Plans)

(* apply_manual_order: places first, and among equals the rank as it was.       *)
Before(k, j) ==
    \/ place[PlanOf[k]] < place[PlanOf[j]]
    \/ place[PlanOf[k]] = place[PlanOf[j]] /\ <<k, j>> \in ahead

(* position < max(0, capacity - active_claims), by the ranking of this moment   *)
InTurn(j) ==
    /\ j \in Eligible
    /\ Cardinality({k \in Eligible : Before(k, j)}) + Cardinality(claimed) < Capacity

(* The same, not counting who has come back since.                              *)
InTurnBut(j) ==
    /\ j \in Eligible
    /\ Cardinality({k \in Eligible : Before(k, j) /\ PlanOf[k] \notin returned})
          + Cardinality(claimed) < Capacity

ToTail(moved) ==
    {p \in ahead : p[1] \in moved => p[2] \in moved} \cup ((Jobs \ moved) \X moved)

(* Claims whose release was refused: nobody holds them.                         *)
Abandoned == claimed \ leases

(* reconcile_queue_lanes, in the transaction that left `left` claimed.          *)
Reconciled(left) ==
    state[Lane] = "draining" /\ left = {} /\ revision[Lane] < MaxRevision

Reconcile(left) ==
    /\ state' = IF Reconciled(left) THEN [state EXCEPT ![Lane] = "paused"] ELSE state
    /\ revision' = IF Reconciled(left) THEN [revision EXCEPT ![Lane] = @ + 1] ELSE revision
    /\ UNCHANGED receipts

--------------------------------------------------------------------------------
Init ==
    /\ status = [j \in Jobs |-> "queued"]
    /\ claimed = {}
    /\ ahead \in {o \in SUBSET (Jobs \X Jobs) :
           /\ \A j, k \in Jobs : j # k => (<<j, k>> \in o <=> <<k, j>> \notin o)
           /\ \A j \in Jobs : <<j, j>> \notin o
           /\ \A i, j, k \in Jobs : <<i, j>> \in o /\ <<j, k>> \in o => <<i, k>> \in o}
    /\ place = [p \in Plans |-> Unplaced]
    /\ state = [g \in Gates |-> IF g = Lane THEN "open" ELSE "eligible"]
    /\ revision = [g \in Gates |-> 0]
    /\ receipts = {}
    /\ leases = {}
    /\ turn = NoJob
    /\ ranked = FALSE
    /\ seen = NothingSeen
    /\ returned = {}
    /\ retries = 0 /\ refusals = 0 /\ stops = 0

--------------------------------------------------------------------------------
(* The dispatcher's final claim.                                                *)

(* A waiter has the slot and reads the controls.  The shared scan that led it   *)
(* here is advisory and may be out of date, so any queued job may come this far.*)
Consider(j) ==
    /\ LoopFree
    /\ status[j] = "queued"
    /\ j \notin leases
    /\ Cardinality(leases) < Capacity
    /\ turn' = j
    /\ seen' = [plan |-> Read(PlanOf[j]), lane |-> Read(Lane)]
    /\ UNCHANGED <<jobs, gates, leases, ranked, returned, counts>>

Rank ==
    /\ turn # NoJob
    /\ ~ranked
    /\ InTurn(turn)
    /\ ranked' = TRUE
    /\ UNCHANGED <<jobs, gates, leases, turn, seen, returned, counts>>

(* A variant that carries the ranking over to the next job.                     *)
WithdrawRanked ==
    /\ turn' = NoJob
    /\ seen' = NothingSeen
    /\ returned' = {}
    /\ UNCHANGED ranked

Withdraw ==
    /\ turn' = NoJob
    /\ ranked' = FALSE
    /\ seen' = NothingSeen
    /\ returned' = {}

NotInTurn ==
    /\ turn # NoJob
    /\ ~ranked
    /\ ~InTurn(turn)
    /\ Withdraw
    /\ UNCHANGED <<jobs, gates, leases, counts>>

(* Variants: the claim looks at the lane only, or at the states and not at the  *)
(* revisions.                                                                   *)
GatesUnchangedLane(j) ==
    /\ Read(Lane) = seen.lane
    /\ seen.lane.state = "open"

GatesUnchangedState(j) ==
    /\ state[PlanOf[j]] = seen.plan.state
    /\ seen.plan.state = "eligible"
    /\ state[Lane] = seen.lane.state
    /\ seen.lane.state = "open"

(* claim_control_predicate and lane_claim_predicate: the gates are open and at  *)
(* the very revision that was read before the ranking.                          *)
GatesUnchanged(j) ==
    /\ Read(PlanOf[j]) = seen.plan
    /\ seen.plan.state = "eligible"
    /\ Read(Lane) = seen.lane
    /\ seen.lane.state = "open"

Claimable(j) == status[j] = "queued" /\ j \notin claimed /\ GatesUnchanged(j)

(* The conditional UPDATE.                                                      *)
Claim ==
    /\ ranked
    /\ Claimable(turn)
    /\ status' = [status EXCEPT ![turn] = "running"]
    /\ claimed' = claimed \cup {turn}
    /\ leases' = leases \cup {turn}
    /\ Withdraw
    /\ UNCHANGED <<ahead, place, gates, counts>>

ClaimMissed ==
    /\ ranked
    /\ ~Claimable(turn)
    /\ Withdraw
    /\ UNCHANGED <<jobs, gates, leases, counts>>

--------------------------------------------------------------------------------
(* Executions, retries and restarts, as far as the gates notice them.           *)

Settle(j, outcome) ==
    /\ j \in leases
    /\ status[j] = "running"
    /\ status' = [status EXCEPT ![j] = outcome]
    /\ UNCHANGED <<claimed, ahead, place, gates, leases, choice, counts>>

(* A variant that leaves the lane as it is.                                     *)
ReleaseUnreconciled(j) ==
    /\ LoopFree
    /\ j \in leases
    /\ status[j] # "running"
    /\ leases' = leases \ {j}
    /\ claimed' = claimed \ {j}
    /\ UNCHANGED <<status, ahead, place, gates, choice, counts>>

(* A claim outlives its job's result until the execution's lease releases it.   *)
Release(j) ==
    /\ LoopFree
    /\ j \in leases
    /\ status[j] # "running"
    /\ leases' = leases \ {j}
    /\ claimed' = claimed \ {j}
    /\ Reconcile(claimed \ {j})
    /\ UNCHANGED <<status, ahead, place, choice, counts>>

ReleaseRefused(j) ==
    /\ LoopFree
    /\ j \in leases
    /\ status[j] # "running"
    /\ refusals < MaxRefusals
    /\ refusals' = refusals + 1
    /\ leases' = leases \ {j}
    /\ UNCHANGED <<jobs, gates, choice, retries, stops>>

(* A waiter of the group clears what nobody holds; with nothing to clear it     *)
(* does not look at the lanes.                                                  *)
Expire ==
    /\ LoopFree
    /\ Abandoned # {}
    /\ \E j \in Jobs : status[j] = "queued"
    /\ claimed' = claimed \ Abandoned
    /\ status' = [j \in Jobs |-> IF j \in Abandoned /\ status[j] \notin Terminal
                                 THEN "failed" ELSE status[j]]
    /\ Reconcile(claimed \ Abandoned)
    /\ UNCHANGED <<ahead, place, leases, choice, counts>>

(* Any job not yet settled may be cancelled, one whose result did not succeed   *)
(* retried; the retry endpoint clears the claim and leaves the lanes alone.     *)
Cancel(j) ==
    /\ LoopFree
    /\ status[j] \notin Terminal
    /\ status' = [status EXCEPT ![j] = "failed"]
    /\ UNCHANGED <<claimed, ahead, place, gates, leases, choice, counts>>

Retry(j) ==
    /\ LoopFree
    /\ status[j] = "failed"
    /\ retries < MaxRetries
    /\ retries' = retries + 1
    /\ status' = [status EXCEPT ![j] = "queued"]
    /\ claimed' = claimed \ {j}
    /\ ahead' = ToTail({j})
    /\ UNCHANGED <<place, gates, leases, choice, refusals, stops>>

(* The process dies and starts again: running work is interrupted, no claim     *)
(* survives (recover_interrupted, recover_queue_lanes).                         *)
Restart ==
    /\ stops < MaxStops
    /\ stops' = stops + 1
    /\ status' = [j \in Jobs |-> IF status[j] = "running" THEN "failed" ELSE status[j]]
    /\ claimed' = {}
    /\ leases' = {}
    /\ Withdraw
    /\ Reconcile({})
    /\ UNCHANGED <<ahead, place, retries, refusals>>

--------------------------------------------------------------------------------
(* Commands.                                                                    *)

(* The next key nobody has used for the gate.                                   *)
NewKey(g, key) == key = Cardinality({r \in receipts : r.gate = g}) + 1

(* The revision the command was meant for is the current one, and the key is new*)
Fresh(g, key, expected, current) ==
    /\ NewKey(g, key)
    /\ expected = current
    /\ current < MaxRevision

(* The revision and the receipt every command leaves.                           *)
Record(g, key, expected, table) ==
    /\ revision' = [revision EXCEPT ![g] = expected + 1]
    /\ receipts' = receipts \cup
           {[gate |-> g, key |-> key, expected |-> expected, table |-> table]}

Apply(g, key, expected, next) ==
    /\ state' = [state EXCEPT ![g] = next]
    /\ Record(g, key, expected, "control")

(* Only a plan whose remaining jobs all wait, unclaimed, is held or released.   *)
AllWaiting(p) ==
    LET remaining == {j \in Of(p) : status[j] \notin Terminal}
    IN  /\ remaining # {}
        /\ \A j \in remaining : status[j] = "queued" /\ j \notin claimed

HoldPlan(p, key, expected) ==
    /\ Fresh(p, key, expected, revision[p])
    /\ state[p] = "eligible"
    /\ AllWaiting(p)
    /\ Apply(p, key, expected, "held")
    /\ UNCHANGED <<jobs, leases, choice, counts>>

(* Released work ranks as if it had been queued now: eligible_since.  A place a *)
(* move gave it stays.                                                          *)
ReleasePlan(p, key, expected) ==
    /\ Fresh(p, key, expected, revision[p])
    /\ state[p] = "held"
    /\ AllWaiting(p)
    /\ Apply(p, key, expected, "eligible")
    /\ ahead' = ToTail(Of(p))
    /\ returned' = IF ranked /\ place[p] # Unplaced THEN returned \cup {p} ELSE returned
    /\ UNCHANGED <<status, claimed, place, leases, turn, ranked, seen, counts>>

(* A variant that looks for running jobs, not for claims.                       *)
PauseLaneRunning(key, expected) ==
    /\ Fresh(Lane, key, expected, revision[Lane])
    /\ state[Lane] = "open"
    /\ Apply(Lane, key, expected,
             IF \E j \in Jobs : status[j] = "running" THEN "draining" ELSE "paused")
    /\ UNCHANGED <<jobs, leases, choice, counts>>

PauseLane(key, expected) ==
    /\ Fresh(Lane, key, expected, revision[Lane])
    /\ state[Lane] = "open"
    /\ Apply(Lane, key, expected, IF claimed # {} THEN "draining" ELSE "paused")
    /\ UNCHANGED <<jobs, leases, choice, counts>>

(* The lane is reconciled first: a resume meant for a draining lane whose last  *)
(* claim is gone by then conflicts, and the reconciliation is rolled back.      *)
ResumeLane(key, expected) ==
    /\ Fresh(Lane, key, expected,
             IF Reconciled(claimed) THEN revision[Lane] + 1 ELSE revision[Lane])
    /\ state[Lane] \in {"draining", "paused"}
    /\ Apply(Lane, key, expected, "open")
    /\ UNCHANGED <<jobs, leases, choice, counts>>

(* The jobs of a plan a move may look at, and the plans that have any: together *)
(* they are the cohort the client was shown.                                    *)
Runnable(p) == {j \in Of(p) : status[j] = "queued" /\ j \notin claimed}
Cohort == {p \in Plans : state[p] = "eligible" /\ Runnable(p) # {}}

(* The order of the cohort: places, then the rank of each plan's first job.     *)
PlanBefore(p, q) ==
    \/ place[p] < place[q]
    \/ place[p] = place[q] /\ \E j \in Runnable(p) : \A k \in Runnable(q) : <<j, k>> \in ahead

(* The order once the plan `item` stands right before, or right after, `anchor`.*)
MovedBefore(p, q, item, anchor, side) ==
    CASE p = item -> PlanBefore(anchor, q) \/ (q = anchor /\ side = "before")
      [] q = item -> PlanBefore(p, anchor) \/ (p = anchor /\ side = "after")
      [] OTHER    -> PlanBefore(p, q)

(* Every plan of the cohort is given the place it then has.                     *)
Moved(item, anchor, side) ==
    [p \in Plans |->
        IF p \in Cohort
        THEN Cardinality({q \in Cohort \ {p} : MovedBefore(q, p, item, anchor, side)})
        ELSE place[p]]

(* A variant that leaves the revision of the lane to the lane's own commands.   *)
MoveUnnumbered(key, expected, item, anchor, side) ==
    /\ Fresh(Lane, key, expected, revision[Lane])
    /\ claimed = {}
    /\ item \in Cohort /\ anchor \in Cohort \ {item}
    /\ place' = Moved(item, anchor, side)
    /\ receipts' = receipts \cup
           {[gate |-> Lane, key |-> key, expected |-> expected, table |-> "order"]}
    /\ UNCHANGED <<status, claimed, ahead, state, revision, leases, choice, counts>>

(* A move is made in an idle lane only, and names what the client saw: the      *)
(* revision, the cohort and the neighbours.  A client that saw anything else    *)
(* conflicts.                                                                   *)
Move(key, expected, item, anchor, side) ==
    /\ Fresh(Lane, key, expected, revision[Lane])
    /\ claimed = {}
    /\ item \in Cohort /\ anchor \in Cohort \ {item}
    /\ place' = Moved(item, anchor, side)
    /\ Record(Lane, key, expected, "order")
    /\ UNCHANGED <<status, claimed, ahead, state, leases, choice, counts>>

Command ==
    \E key \in Keys : \E g \in Gates :
        \E expected \in 0..revision[g] :     \* what a client has read last
            \/ g \in Plans /\ HoldPlan(g, key, expected)
            \/ g \in Plans /\ ReleasePlan(g, key, expected)
            \/ g = Lane /\ PauseLane(key, expected)
            \/ g = Lane /\ ResumeLane(key, expected)
            \/ g = Lane /\ \E item, anchor \in Plans, side \in {"before", "after"} :
                   Move(key, expected, item, anchor, side)

--------------------------------------------------------------------------------
Dispatch ==
    \/ Rank
    \/ NotInTurn
    \/ Claim
    \/ ClaimMissed

Execution(j) ==
    \/ \E outcome \in Terminal : Settle(j, outcome)
    \/ Release(j)

Next ==
    \/ \E j \in Jobs :
        \/ Consider(j)
        \/ Execution(j)
        \/ ReleaseRefused(j)
        \/ Cancel(j)
        \/ Retry(j)
    \/ Dispatch
    \/ Expire
    \/ Restart
    \/ Command

Spec == Init /\ [][Next]_vars

(* Waiters poll, and sweep each time before they look at their turn; the        *)
(* coroutine that has the slot runs on, an execution ends and leaves its lease. *)
(* The loop is busy with a final claim again and again, but it serves whoever   *)
(* is ready in the order of arrival: strong fairness.                           *)
(* Users owe nothing.                                                           *)
Fairness ==
    /\ \A j \in Jobs : SF_vars(Consider(j)) /\ SF_vars(Execution(j))
    /\ WF_vars(Dispatch)
    /\ SF_vars(Expire)

FairSpec == Spec /\ Fairness

--------------------------------------------------------------------------------
(* Every variable keeps its type.                                               *)
Snapshots == [state : {"unread", "eligible", "held", "open", "draining", "paused"}, revision : Nat]
TypeOK ==
    /\ status \in [Jobs -> {"queued", "running"} \cup Terminal]
    /\ claimed \in SUBSET Jobs
    /\ ahead \in SUBSET (Jobs \X Jobs)
    /\ place \in [Plans -> 0..Unplaced]
    /\ state \in [Gates -> {"eligible", "held", "open", "draining", "paused"}]
    /\ \A p \in Plans : state[p] \in {"eligible", "held"}
    /\ state[Lane] \in {"open", "draining", "paused"}
    /\ revision \in [Gates -> Nat]
    /\ receipts \in SUBSET [gate : Gates, key : Keys, expected : Nat, table : {"control", "order"}]
    /\ leases \in SUBSET Jobs
    /\ turn \in Jobs \cup {NoJob}
    /\ ranked \in BOOLEAN
    /\ ranked => turn \in Jobs
    /\ seen \in [plan : Snapshots, lane : Snapshots]
    /\ returned \in SUBSET Plans
    /\ retries \in 0..MaxRetries /\ refusals \in 0..MaxRefusals /\ stops \in 0..MaxStops

(* Nothing of a held plan runs: a hold is refused while any of its jobs runs or *)
(* is claimed, and a start that was decided before the hold does not happen     *)
(* after it (change_plan_control, claim_control_predicate).                     *)
HeldIsIdle ==
    \A j \in Jobs : state[PlanOf[j]] = "held" => status[j] # "running"

(* "paused" means that no row of the lane is claimed any more, not even one that*)
(* has its result while its execution is still leaving the lease: a claim in the*)
(* middle is refused by lane_claim_predicate, and a lane with claims drains     *)
(* until a reconciliation finds none (change_lane_policy,                       *)
(* reconcile_queue_lanes).                                                      *)
PausedIsIdle == state[Lane] = "paused" => claimed = {}

(* Two commands meant for the same revision of a gate never both take effect:   *)
(* of two clients that saw the same queue one is told to look again, also when  *)
(* one moves a job and the other pauses the lane.                               *)
OneWinner ==
    \A r, s \in receipts : r.gate = s.gate /\ r.expected = s.expected => r = s

(* A job starts only when by the queue as it is then nobody who may start ranks *)
(* before it and there is room: neither a hold and release of its plan nor a    *)
(* pause and resume nor a move between ranking and UPDATE lets it keep a place  *)
(* it has lost.  One case is not covered: another plan that a move once gave an *)
(* earlier place is released in between, takes that place again, and no         *)
(* predicate of the UPDATE notices.                                             *)
StartsInTurn == [][\A j \in Jobs : j \in claimed' \ claimed => InTurnBut(j)]_vars

(* A draining lane gets empty and then says so, as long as no release was       *)
(* refused (see DrainedLanePauses).                                             *)
DrainEnds == state[Lane] = "draining" ~> state[Lane] # "draining" \/ refusals > 0

(* "Recovery and release reconcile": a lane nothing of which is claimed any more*)
(* does not stay draining.  If it did, the resume it offers could not succeed:  *)
(* it is checked against the revision the reconciliation would give.            *)
DrainedLanePauses ==
    (state[Lane] = "draining" /\ claimed = {}) ~> state[Lane] # "draining"

(* A job whose gates stay open is started, or settled, in the end.              *)
OpenGateServes ==
    \A j \in Jobs : []<>~(status[j] = "queued" /\ GateOpen(j))
================================================================================
