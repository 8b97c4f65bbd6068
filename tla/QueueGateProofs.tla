----------------------------- MODULE QueueGateProofs ---------------------------
(* Proofs about QueueGate for any finite set of jobs, any plans, any keys and   *)
(* any capacity.                                                                *)
EXTENDS QueueGate, OrderFacts

--------------------------------------------------------------------------------
(* Types.                                                                       *)

(* Moving jobs to the tail of the queue keeps the rank a relation over jobs.    *)
LEMMA TailType ==
    ASSUME NEW moved, moved \subseteq Jobs, ahead \in SUBSET (Jobs \X Jobs)
    PROVE  ToTail(moved) \in SUBSET (Jobs \X Jobs)
BY DEF ToTail

(* What a command changes is typed: the gate's state is the one the command asks*)
(* for, the revision one more than the one it was meant for.                    *)
LEMMA ApplyType ==
    ASSUME TypeOK, NEW g \in Gates, NEW key \in Keys, NEW expected \in Nat, NEW next,
           g \in Plans => next \in {"eligible", "held"},
           g = Lane => next \in {"open", "draining", "paused"},
           Apply(g, key, expected, next)
    PROVE  /\ state' \in [Gates -> {"eligible", "held", "open", "draining", "paused"}]
           /\ \A p \in Plans : state'[p] \in {"eligible", "held"}
           /\ state'[Lane] \in {"open", "draining", "paused"}
           /\ revision' \in [Gates -> Nat]
           /\ receipts' \in SUBSET [gate : Gates, key : Keys, expected : Nat,
                                table : {"control", "order"}]
BY PlanAssumption DEF TypeOK, Apply, Record, Gates, PlanAssumption

(* There are only so many places: a plan's is the number of those before it.    *)
LEMMA PlaceType ==
    ASSUME TypeOK, NEW item, NEW anchor, NEW side
    PROVE  Moved(item, anchor, side) \in [Plans -> 0..Unplaced]
<1>1. ASSUME NEW S \in SUBSET Plans PROVE Cardinality(S) \in 0..Unplaced
  <2>1. IsFiniteSet(S) /\ Cardinality(S) <= Cardinality(Plans)
    BY FiniteAssumption, FS_Subset DEF FiniteAssumption
  <2>2. Cardinality(S) \in Nat /\ Cardinality(Plans) \in Nat
    BY <2>1, FiniteAssumption, FS_CardinalityType DEF FiniteAssumption
  <2> QED
    BY <2>1, <2>2 DEF Unplaced
<1>2. \A p \in Plans :
          {q \in Cohort \ {p} : MovedBefore(q, p, item, anchor, side)} \in SUBSET Plans
  BY DEF Cohort
<1>3. \A p \in Plans :
          Cardinality({q \in Cohort \ {p} : MovedBefore(q, p, item, anchor, side)})
              \in 0..Unplaced
  BY <1>1, <1>2
<1>4. place \in [Plans -> 0..Unplaced]
  BY DEF TypeOK
<1> QED
  BY <1>3, <1>4 DEF Moved

(* So is what a reconciliation changes.                                         *)
LEMMA ReconcileType ==
    ASSUME TypeOK, NEW left, Reconcile(left)
    PROVE  /\ state' \in [Gates -> {"eligible", "held", "open", "draining", "paused"}]
           /\ \A p \in Plans : state'[p] \in {"eligible", "held"}
           /\ state'[Lane] \in {"open", "draining", "paused"}
           /\ revision' \in [Gates -> Nat]
           /\ receipts' \in SUBSET [gate : Gates, key : Keys, expected : Nat,
                                table : {"control", "order"}]
<1>1. CASE Reconciled(left)
  BY <1>1, PlanAssumption DEF TypeOK, Reconcile, Gates, PlanAssumption
<1>2. CASE ~Reconciled(left)
  BY <1>2 DEF TypeOK, Reconcile
<1> QED
  BY <1>1, <1>2

(* A step of the dispatcher, of an execution or of a command keeps the types.   *)
LEMMA TypeStep == TypeOK /\ [Next]_vars => TypeOK'
<1> SUFFICES ASSUME TypeOK, [Next]_vars PROVE TypeOK'
  OBVIOUS
<1> USE PlanAssumption, NumbersAssumption
    DEF PlanAssumption, NumbersAssumption, jobs, gates, choice, counts, Terminal
<1>0. Lane \in Gates /\ \A j \in Jobs : PlanOf[j] \in Gates
  BY DEF Gates
<1>1. \A g \in Gates : Read(g) \in Snapshots
  BY <1>0 DEF TypeOK, Read, Snapshots
<1>2. NothingSeen \in [plan : Snapshots, lane : Snapshots]
  BY DEF NothingSeen, Unread, Snapshots
<1>3. ASSUME NEW j \in Jobs, Consider(j) PROVE TypeOK'
  <2>1. seen' \in [plan : Snapshots, lane : Snapshots]
    BY <1>3, <1>0, <1>1 DEF Consider
  <2> QED
    BY <1>3, <2>1 DEF Consider, TypeOK
<1>4. CASE Rank
  BY <1>4 DEF Rank, TypeOK
<1>5. CASE NotInTurn
  BY <1>5, <1>2 DEF NotInTurn, Withdraw, TypeOK
<1>6. CASE Claim
  BY <1>6, <1>2 DEF Claim, Withdraw, TypeOK
<1>7. CASE ClaimMissed
  BY <1>7, <1>2 DEF ClaimMissed, Withdraw, TypeOK
<1>8. ASSUME NEW j \in Jobs, NEW outcome \in Terminal, Settle(j, outcome) PROVE TypeOK'
  BY <1>8 DEF Settle, TypeOK
<1>9. ASSUME NEW j \in Jobs, Release(j) PROVE TypeOK'
  BY <1>9, ReconcileType DEF Release, TypeOK
<1>10. ASSUME NEW j \in Jobs, ReleaseRefused(j) PROVE TypeOK'
  BY <1>10 DEF ReleaseRefused, TypeOK
<1>11. ASSUME NEW j \in Jobs, Cancel(j) PROVE TypeOK'
  BY <1>11 DEF Cancel, TypeOK
<1>12. ASSUME NEW j \in Jobs, Retry(j) PROVE TypeOK'
  BY <1>12, TailType DEF Retry, TypeOK
<1>13. CASE Expire
  BY <1>13, ReconcileType DEF Expire, TypeOK
<1>14. CASE Restart
  <2>1. seen' \in [plan : Snapshots, lane : Snapshots] /\ turn' = NoJob /\ ranked' = FALSE
    BY <1>14, <1>2 DEF Restart, Withdraw
  <2>2. Reconcile({})
    BY <1>14 DEF Restart
  <2>3. status' \in [Jobs -> {"queued", "running"} \cup Terminal]
    BY <1>14 DEF Restart, TypeOK
  <2>4. /\ state' \in [Gates -> {"eligible", "held", "open", "draining", "paused"}]
        /\ \A p \in Plans : state'[p] \in {"eligible", "held"}
        /\ state'[Lane] \in {"open", "draining", "paused"}
        /\ revision' \in [Gates -> Nat]
        /\ receipts' \in SUBSET [gate : Gates, key : Keys, expected : Nat,
                                table : {"control", "order"}]
    BY <2>2, ReconcileType
  <2>5. stops' \in 0..MaxStops /\ claimed' = {} /\ leases' = {}
        /\ returned' = {} /\ UNCHANGED <<ahead, place, retries, refusals>>
    BY <1>14 DEF Restart, Withdraw, TypeOK
  <2> QED
    BY <2>1, <2>3, <2>4, <2>5 DEF TypeOK
<1>15. ASSUME NEW key \in Keys, NEW p \in Plans, NEW expected \in Nat,
              HoldPlan(p, key, expected)
       PROVE  TypeOK'
  BY <1>15, ApplyType DEF HoldPlan, TypeOK, Gates
<1>16. ASSUME NEW key \in Keys, NEW p \in Plans, NEW expected \in Nat,
              ReleasePlan(p, key, expected)
       PROVE  TypeOK'
  <2>1. ToTail(Of(p)) \in SUBSET (Jobs \X Jobs)
    BY TailType DEF TypeOK, Of
  <2>2. returned' \in SUBSET Plans
    BY <1>16 DEF ReleasePlan, TypeOK
  <2> QED
    BY <1>16, <2>1, <2>2, ApplyType DEF ReleasePlan, TypeOK, Gates
<1>17. ASSUME NEW key \in Keys, NEW expected \in Nat, PauseLane(key, expected) PROVE TypeOK'
  <2>1. PICK next \in {"draining", "paused"} : Apply(Lane, key, expected, next)
    BY <1>17 DEF PauseLane
  <2> QED
    BY <1>17, <1>0, <2>1, ApplyType DEF PauseLane, TypeOK
<1>18. ASSUME NEW key \in Keys, NEW expected \in Nat, ResumeLane(key, expected) PROVE TypeOK'
  BY <1>18, <1>0, ApplyType DEF ResumeLane, TypeOK
<1>19. CASE UNCHANGED vars
  BY <1>19 DEF vars, TypeOK
<1>21. ASSUME NEW key \in Keys, NEW expected \in Nat, NEW item, NEW anchor, NEW side,
              Move(key, expected, item, anchor, side)
       PROVE  TypeOK'
  <2>1. place' \in [Plans -> 0..Unplaced]
    BY <1>21, PlaceType DEF Move
  <2>2. /\ revision' \in [Gates -> Nat]
        /\ receipts' \in SUBSET [gate : Gates, key : Keys, expected : Nat,
                                table : {"control", "order"}]
    BY <1>21, <1>0 DEF Move, Record, TypeOK
  <2> QED
    BY <1>21, <2>1, <2>2 DEF Move, TypeOK
<1>20. CASE Command
  <2>1. PICK key \in Keys, g \in Gates : \E expected \in 0..revision[g] :
            \/ g \in Plans /\ HoldPlan(g, key, expected)
            \/ g \in Plans /\ ReleasePlan(g, key, expected)
            \/ g = Lane /\ PauseLane(key, expected)
            \/ g = Lane /\ ResumeLane(key, expected)
            \/ g = Lane /\ \E item, anchor \in Plans, side \in {"before", "after"} :
                   Move(key, expected, item, anchor, side)
    BY <1>20 DEF Command
  <2>2. 0..revision[g] \subseteq Nat
    BY DEF TypeOK
  <2> QED
    BY <2>1, <2>2, <1>15, <1>16, <1>17, <1>18, <1>21
<1> QED
  BY <1>3, <1>4, <1>5, <1>6, <1>7, <1>8, <1>9, <1>10, <1>11, <1>12, <1>13, <1>14, <1>19,
     <1>20
  DEF Next, Dispatch, Execution

(* Jobs, gates, receipts and the dispatcher's choice are always of their types. *)
THEOREM TypeCorrect == Spec => []TypeOK
<1>1. Init => TypeOK
  <2> SUFFICES ASSUME Init PROVE TypeOK
    OBVIOUS
  <2>1. ahead \in SUBSET (Jobs \X Jobs)
    BY DEF Init
  <2>2. seen \in [plan : Snapshots, lane : Snapshots]
    BY DEF Init, NothingSeen, Unread, Snapshots
  <2>5. place \in [Plans -> 0..Unplaced] /\ returned \in SUBSET Plans
    <3>1. Unplaced \in Nat
      BY FiniteAssumption, FS_CardinalityType DEF FiniteAssumption, Unplaced
    <3> QED
      BY <3>1 DEF Init
  <2>3. /\ state \in [Gates -> {"eligible", "held", "open", "draining", "paused"}]
        /\ \A p \in Plans : state[p] \in {"eligible", "held"}
        /\ state[Lane] \in {"open", "draining", "paused"}
        /\ revision \in [Gates -> Nat]
    BY PlanAssumption DEF Init, Gates, PlanAssumption
  <2>4. retries \in 0..MaxRetries /\ refusals \in 0..MaxRefusals /\ stops \in 0..MaxStops
    BY NumbersAssumption DEF Init, NumbersAssumption
  <2> QED
    BY <2>1, <2>2, <2>3, <2>4, <2>5 DEF Init, TypeOK
<1> QED
  BY <1>1, TypeStep, PTL DEF Spec
--------------------------------------------------------------------------------
(* Holds and pauses.                                                            *)

(* Only a plan command changes the state of a plan, and only that plan's.       *)
LEMMA ReconcilePlans ==
    ASSUME TypeOK, NEW left, Reconcile(left)
    PROVE  \A p \in Plans : state'[p] = state[p] /\ revision'[p] = revision[p]
BY PlanAssumption DEF TypeOK, Reconcile, Gates, PlanAssumption

(* A hold finds nothing running and no claim gets past it.                      *)
LEMMA HeldStep == TypeOK /\ HeldIsIdle /\ [Next]_vars => HeldIsIdle'
<1> SUFFICES ASSUME TypeOK, HeldIsIdle, [Next]_vars PROVE HeldIsIdle'
  OBVIOUS
<1> USE PlanAssumption DEF HeldIsIdle, PlanAssumption, jobs, gates, choice, counts, Terminal
<1>0. \A j \in Jobs : PlanOf[j] \in Plans /\ PlanOf[j] \in Gates /\ PlanOf[j] # Lane
  BY DEF Gates
<1>1. ASSUME NEW j \in Jobs, Consider(j) PROVE HeldIsIdle'
  BY <1>1 DEF Consider
<1>2. CASE Rank \/ NotInTurn \/ ClaimMissed
  BY <1>2 DEF Rank, NotInTurn, ClaimMissed
<1>3. CASE Claim
  <2>1. turn \in Jobs /\ state[PlanOf[turn]] = "eligible"
    BY <1>3 DEF Claim, Claimable, GatesUnchanged, Read, TypeOK
  <2> QED
    BY <1>3, <2>1 DEF Claim, TypeOK
<1>4. ASSUME NEW j \in Jobs, NEW outcome \in Terminal, Settle(j, outcome) PROVE HeldIsIdle'
  BY <1>4 DEF Settle, TypeOK
<1>5. ASSUME NEW j \in Jobs, Release(j) PROVE HeldIsIdle'
  BY <1>5, <1>0, ReconcilePlans DEF Release
<1>6. ASSUME NEW j \in Jobs, ReleaseRefused(j) PROVE HeldIsIdle'
  BY <1>6 DEF ReleaseRefused
<1>7. ASSUME NEW j \in Jobs, Cancel(j) PROVE HeldIsIdle'
  BY <1>7 DEF Cancel, TypeOK
<1>8. ASSUME NEW j \in Jobs, Retry(j) PROVE HeldIsIdle'
  BY <1>8 DEF Retry, TypeOK
<1>9. CASE Expire
  BY <1>9, <1>0, ReconcilePlans DEF Expire, TypeOK
<1>10. CASE Restart
  BY <1>10, <1>0, ReconcilePlans DEF Restart, TypeOK
<1>11. CASE Command
  <2>1. ASSUME NEW p \in Plans, NEW key \in Keys, NEW expected, HoldPlan(p, key, expected)
        PROVE  HeldIsIdle'
    <3>1. \A j \in Jobs : PlanOf[j] = p => status[j] # "running"
      BY <2>1 DEF HoldPlan, AllWaiting, Of
    <3> QED
      BY <2>1, <3>1, <1>0 DEF HoldPlan, Apply, TypeOK
  <2>2. ASSUME NEW p \in Plans, NEW key \in Keys, NEW expected, ReleasePlan(p, key, expected)
        PROVE  HeldIsIdle'
    BY <2>2, <1>0 DEF ReleasePlan, Apply, TypeOK
  <2>3. ASSUME NEW key \in Keys, NEW expected,
               PauseLane(key, expected) \/ ResumeLane(key, expected)
        PROVE  HeldIsIdle'
    BY <2>3, <1>0 DEF PauseLane, ResumeLane, Apply, TypeOK
  <2>4. ASSUME NEW key, NEW expected, NEW item, NEW anchor, NEW side,
               Move(key, expected, item, anchor, side)
        PROVE  HeldIsIdle'
    BY <2>4 DEF Move
  <2> QED
    BY <1>11, <2>1, <2>2, <2>3, <2>4 DEF Command
<1>12. CASE UNCHANGED vars
  BY <1>12 DEF vars
<1> QED
  BY <1>1, <1>2, <1>3, <1>4, <1>5, <1>6, <1>7, <1>8, <1>9, <1>10, <1>11, <1>12
  DEF Next, Dispatch, Execution

(* Nothing of a held plan ever runs.                                            *)
THEOREM HeldPlansIdle == Spec => []HeldIsIdle
<1>1. Init => HeldIsIdle
  BY DEF Init, HeldIsIdle
<1> QED
  BY <1>1, HeldStep, TypeCorrect, PTL DEF Spec

(* A claim needs an open lane; a lane with a claim drains instead of pausing.   *)
LEMMA PausedStep == TypeOK /\ PausedIsIdle /\ [Next]_vars => PausedIsIdle'
<1> SUFFICES ASSUME TypeOK, PausedIsIdle, [Next]_vars PROVE PausedIsIdle'
  OBVIOUS
<1> USE PlanAssumption DEF PausedIsIdle, PlanAssumption, jobs, gates, choice, counts
<1>0. Lane \in Gates
  BY DEF Gates
<1>1. ASSUME NEW j \in Jobs, Consider(j) PROVE PausedIsIdle'
  BY <1>1 DEF Consider
<1>2. CASE Rank \/ NotInTurn \/ ClaimMissed
  BY <1>2 DEF Rank, NotInTurn, ClaimMissed
<1>3. CASE Claim
  BY <1>3 DEF Claim, Claimable, GatesUnchanged, Read
<1>4. ASSUME NEW j \in Jobs, NEW outcome, Settle(j, outcome) PROVE PausedIsIdle'
  BY <1>4 DEF Settle
<1>5. ASSUME NEW j \in Jobs, Release(j) PROVE PausedIsIdle'
  BY <1>5, <1>0 DEF Release, Reconcile, Reconciled, TypeOK
<1>6. ASSUME NEW j \in Jobs, ReleaseRefused(j) \/ Cancel(j) PROVE PausedIsIdle'
  BY <1>6 DEF ReleaseRefused, Cancel
<1>7. ASSUME NEW j \in Jobs, Retry(j) PROVE PausedIsIdle'
  BY <1>7 DEF Retry
<1>8. CASE Expire
  BY <1>8, <1>0 DEF Expire, Reconcile, Reconciled, TypeOK
<1>9. CASE Restart
  BY <1>9 DEF Restart
<1>10. CASE Command
  <2>1. ASSUME NEW p \in Plans, NEW key \in Keys, NEW expected,
               HoldPlan(p, key, expected) \/ ReleasePlan(p, key, expected)
        PROVE  PausedIsIdle'
    BY <2>1, <1>0 DEF HoldPlan, ReleasePlan, Apply, TypeOK
  <2>2. ASSUME NEW key \in Keys, NEW expected, PauseLane(key, expected) PROVE PausedIsIdle'
    BY <2>2, <1>0 DEF PauseLane, Apply, TypeOK
  <2>3. ASSUME NEW key \in Keys, NEW expected, ResumeLane(key, expected) PROVE PausedIsIdle'
    BY <2>3, <1>0 DEF ResumeLane, Apply, TypeOK
  <2>4. ASSUME NEW key, NEW expected, NEW item, NEW anchor, NEW side,
               Move(key, expected, item, anchor, side)
        PROVE  PausedIsIdle'
    BY <2>4 DEF Move
  <2> QED
    BY <1>10, <2>1, <2>2, <2>3, <2>4 DEF Command
<1>11. CASE UNCHANGED vars
  BY <1>11 DEF vars
<1> QED
  BY <1>1, <1>2, <1>3, <1>4, <1>5, <1>6, <1>7, <1>8, <1>9, <1>10, <1>11
  DEF Next, Dispatch, Execution

(* No row of a paused lane is ever claimed.                                     *)
THEOREM PausedLaneIdle == Spec => []PausedIsIdle
<1>1. Init => PausedIsIdle
  BY DEF Init, PausedIsIdle
<1> QED
  BY <1>1, PausedStep, TypeCorrect, PTL DEF Spec
--------------------------------------------------------------------------------
(* Commands.                                                                    *)

(* A receipt is of a revision the gate has left: by itself OneWinner does not   *)
(* say why the next command cannot be meant for an old one.                     *)
ReceiptsInv ==
    /\ OneWinner
    /\ \A r \in receipts : r.expected < revision[r.gate]

(* A reconciliation only raises revisions.                                      *)
LEMMA ReconcileReceipts ==
    ASSUME TypeOK, ReceiptsInv, NEW left, Reconcile(left)
    PROVE  ReceiptsInv'
<1>1. \A g \in Gates : revision[g] \in Nat /\ revision'[g] \in Nat /\ revision[g] <= revision'[g]
  <2>1. CASE Reconciled(left)
    BY <2>1 DEF TypeOK, Reconcile
  <2>2. CASE ~Reconciled(left)
    BY <2>2 DEF TypeOK, Reconcile
  <2> QED
    BY <2>1, <2>2
<1>2. \A r \in receipts : r.gate \in Gates /\ r.expected \in Nat
  BY DEF TypeOK
<1>3. receipts' = receipts
  BY DEF Reconcile
<1> QED
  BY <1>1, <1>2, <1>3 DEF ReceiptsInv, OneWinner

(* A command that is applied was meant for the newest revision and leaves it.   *)
LEMMA ApplyReceipts ==
    ASSUME TypeOK, ReceiptsInv, NEW g \in Gates, NEW key \in Keys, NEW expected \in Nat,
           NEW table, revision[g] <= expected, Record(g, key, expected, table)
    PROVE  ReceiptsInv'
<1> DEFINE new == [gate |-> g, key |-> key, expected |-> expected, table |-> table]
<1>1. receipts' = receipts \cup {new}
  BY DEF Record
<1>2. \A r \in receipts : r.gate \in Gates /\ r.expected \in Nat
  BY DEF TypeOK
<1>3. \A h \in Gates : revision'[h] = IF h = g THEN expected + 1 ELSE revision[h]
  BY DEF TypeOK, Record
<1>4. \A h \in Gates : revision[h] \in Nat
  BY DEF TypeOK
<1>5. \A r \in receipts : r.gate = g => r.expected < expected
  BY <1>2, <1>4 DEF ReceiptsInv
<1>6. new.gate = g /\ new.expected = expected
  OBVIOUS
<1>7. OneWinner'
  <2> SUFFICES ASSUME NEW r \in receipts', NEW s \in receipts',
                      r.gate = s.gate, r.expected = s.expected
               PROVE  r = s
    BY DEF OneWinner
  <2>1. CASE r \in receipts /\ s \in receipts
    BY <2>1 DEF ReceiptsInv, OneWinner
  <2>2. CASE r = new /\ s = new
    BY <2>2
  <2>3. ~(r \in receipts /\ s = new) /\ ~(s \in receipts /\ r = new)
    BY <1>2, <1>5, <1>6
  <2> QED
    BY <1>1, <2>1, <2>2, <2>3
<1>8. \A r \in receipts' : r.expected < revision'[r.gate]
  <2>1. \A r \in receipts : r.expected < revision'[r.gate]
    BY <1>2, <1>3, <1>4, <1>5 DEF ReceiptsInv
  <2>2. new.expected < revision'[new.gate]
    BY <1>3, <1>6
  <2> QED
    BY <1>1, <2>1, <2>2
<1> QED
  BY <1>7, <1>8 DEF ReceiptsInv

(* A command writes its receipt with its revision, and nobody takes it back.    *)
LEMMA ReceiptsStep == TypeOK /\ ReceiptsInv /\ [Next]_vars => ReceiptsInv'
<1> SUFFICES ASSUME TypeOK, ReceiptsInv, [Next]_vars PROVE ReceiptsInv'
  OBVIOUS
<1> USE DEF jobs, gates, choice, counts
<1>0. Lane \in Gates /\ Plans \subseteq Gates /\ \A g \in Gates : revision[g] \in Nat
  BY DEF Gates, TypeOK
<1>1. ASSUME UNCHANGED gates PROVE ReceiptsInv'
  BY <1>1 DEF ReceiptsInv, OneWinner
<1>2. ASSUME NEW j \in Jobs,
             Consider(j) \/ ReleaseRefused(j) \/ Cancel(j) \/ Retry(j) \/ Release(j)
      PROVE  ReceiptsInv'
  BY <1>1, <1>2, ReconcileReceipts DEF Consider, ReleaseRefused, Cancel, Retry, Release
<1>3. ASSUME NEW j \in Jobs, NEW outcome, Settle(j, outcome) PROVE ReceiptsInv'
  BY <1>1, <1>3 DEF Settle
<1>4. CASE Dispatch
  BY <1>1, <1>4 DEF Dispatch, Rank, NotInTurn, Claim, ClaimMissed
<1>5. CASE Expire \/ Restart
  BY <1>5, ReconcileReceipts DEF Expire, Restart
<1>6. CASE Command
  <2>1. PICK key \in Keys, g \in Gates : \E expected \in 0..revision[g] :
            \/ g \in Plans /\ HoldPlan(g, key, expected)
            \/ g \in Plans /\ ReleasePlan(g, key, expected)
            \/ g = Lane /\ PauseLane(key, expected)
            \/ g = Lane /\ ResumeLane(key, expected)
            \/ g = Lane /\ \E item, anchor \in Plans, side \in {"before", "after"} :
                   Move(key, expected, item, anchor, side)
    BY <1>6 DEF Command
  <2>2. PICK expected \in Nat :
            \E table : revision[g] <= expected /\ Record(g, key, expected, table)
    BY <1>0, <2>1 DEF HoldPlan, ReleasePlan, PauseLane, ResumeLane, Move, Fresh, Apply
  <2> QED
    BY <2>2, ApplyReceipts
<1>7. CASE UNCHANGED vars
  BY <1>1, <1>7 DEF vars
<1> QED
  BY <1>2, <1>3, <1>4, <1>5, <1>6, <1>7 DEF Next, Execution

(* Of two commands meant for the same revision of a gate one is refused.        *)
THEOREM CommandsHaveOneWinner == Spec => []OneWinner
<1>1. Init => ReceiptsInv
  BY DEF Init, ReceiptsInv, OneWinner
<1>2. ReceiptsInv => OneWinner
  BY DEF ReceiptsInv
<1> QED
  BY <1>1, <1>2, ReceiptsStep, TypeCorrect, PTL DEF Spec
--------------------------------------------------------------------------------
(* Starts.                                                                      *)

(* What the claim relies on between the ranking and the UPDATE: what it read is *)
(* not from the future, so that a gate that changes shows another revision, and *)
(* as long as the UPDATE would still succeed the job is still in turn.          *)
TurnInv ==
    /\ turn # NoJob => /\ seen.plan.revision <= revision[PlanOf[turn]]
                       /\ seen.lane.revision <= revision[Lane]
    /\ ranked /\ Claimable(turn) => InTurnBut(turn)
    /\ ~ranked => returned = {}

(* A job stays in turn while nobody new ranks before it.                        *)
LEMMA InTurnKept ==
    ASSUME TypeOK, NEW j \in Jobs, InTurnBut(j), j \in Eligible', claimed' = claimed,
           \A k \in Eligible' : Before(k, j)' /\ PlanOf[k] \notin returned'
                  => k \in Eligible /\ Before(k, j) /\ PlanOf[k] \notin returned
    PROVE  InTurnBut(j)'
<1> DEFINE Front == {k \in Eligible : Before(k, j) /\ PlanOf[k] \notin returned}
           FrontNext == {k \in Eligible' : Before(k, j)' /\ PlanOf[k] \notin returned'}
<1>1. IsFiniteSet(Jobs) /\ Front \subseteq Jobs /\ claimed \subseteq Jobs
  BY FiniteAssumption DEF FiniteAssumption, Eligible, TypeOK
<1>2. IsFiniteSet(Front) /\ IsFiniteSet(claimed)
  BY <1>1, FS_Subset
<1>3. FrontNext \subseteq Front
  OBVIOUS
<1>4. /\ Cardinality(FrontNext) <= Cardinality(Front)
      /\ Cardinality(FrontNext) \in Nat /\ Cardinality(Front) \in Nat
  BY <1>2, <1>3, FS_Subset, FS_CardinalityType
<1>5. Cardinality(claimed) \in Nat
  BY <1>2, FS_CardinalityType
<1>6. Cardinality(Front) + Cardinality(claimed) < Capacity
  BY DEF InTurnBut
<1>7. Cardinality(FrontNext) + Cardinality(claimed') < Capacity
  BY <1>4, <1>5, <1>6, NumbersAssumption DEF NumbersAssumption
<1> QED
  BY <1>7 DEF InTurnBut

(* Nothing is pending for a dispatcher that has chosen nobody.                  *)
LEMMA NothingPending ==
    ASSUME turn' = NoJob, ~ranked', returned' = {}
    PROVE  TurnInv'
BY DEF TurnInv

(* A plan command between ranking and UPDATE changes the revision of the job's  *)
(* own plan, or takes jobs out of the queue, or puts jobs at its tail.          *)
LEMMA TurnPlanCommand ==
    ASSUME TypeOK, TurnInv, turn \in Jobs, NEW p \in Plans, NEW key \in Keys,
           NEW expected \in Nat,
           HoldPlan(p, key, expected) \/ ReleasePlan(p, key, expected)
    PROVE  TurnInv'
<1> USE PlanAssumption DEF PlanAssumption, jobs, gates, choice, counts
<1>0. /\ Lane \in Gates /\ p \in Gates /\ p # Lane
      /\ \A j \in Jobs : PlanOf[j] \in Plans /\ PlanOf[j] \in Gates
      /\ \A g \in Gates : revision[g] \in Nat
      /\ turn # NoJob
  BY DEF Gates, TypeOK
<1>1. /\ expected = revision[p] /\ UNCHANGED <<turn, ranked, seen, status, claimed, place>>
      /\ ~ranked' => returned' = {}
      /\ returned \subseteq returned'
  BY DEF HoldPlan, ReleasePlan, Fresh, TurnInv
<1>2. PICK next \in {"held", "eligible"} :
          /\ state' = [state EXCEPT ![p] = next]
          /\ revision' = [revision EXCEPT ![p] = expected + 1]
  BY DEF HoldPlan, ReleasePlan, Apply, Record
<1>3. \A g \in Gates : g # p => state'[g] = state[g] /\ revision'[g] = revision[g]
  BY <1>2 DEF TypeOK
<1>4. revision'[p] = revision[p] + 1
  BY <1>0, <1>1, <1>2 DEF TypeOK
<1>5. seen.plan.revision \in Nat /\ seen.lane.revision \in Nat
  BY DEF TypeOK, Snapshots
<1>6. /\ seen.plan.revision <= revision'[PlanOf[turn]]
      /\ seen.lane.revision <= revision'[Lane]
  BY <1>0, <1>3, <1>4, <1>5 DEF TurnInv
<1>7. CASE PlanOf[turn] = p
  <2>1. seen.plan.revision < revision'[p]
    BY <1>0, <1>4, <1>5, <1>7 DEF TurnInv
  <2>2. Read(PlanOf[turn])'.revision = revision'[p]
    BY <1>1, <1>7 DEF Read
  <2>3. ~Claimable(turn)'
    BY <1>0, <1>1, <1>4, <1>5, <2>1, <2>2 DEF Claimable, GatesUnchanged
  <2> QED
    BY <1>1, <1>6, <2>3 DEF TurnInv
<1>8. CASE PlanOf[turn] # p
  <2> SUFFICES ASSUME ranked', Claimable(turn)' PROVE InTurnBut(turn)'
    BY <1>1, <1>6 DEF TurnInv
  <2>1. ranked /\ Claimable(turn)
    BY <1>0, <1>1, <1>3, <1>8 DEF Claimable, GatesUnchanged, Read
  <2>2. InTurnBut(turn) /\ turn \in Eligible
    BY <2>1 DEF TurnInv, InTurnBut
  <2>3. turn \in Eligible'
    BY <1>0, <1>1, <1>3, <1>8, <2>2 DEF Eligible, GateOpen
  <2>4. ASSUME NEW k \in Eligible', Before(k, turn)', PlanOf[k] \notin returned'
        PROVE  k \in Eligible /\ Before(k, turn) /\ PlanOf[k] \notin returned
    <3>1. k \in Jobs /\ PlanOf[k] \notin returned
      BY <1>1, <2>4 DEF Eligible
    <3>2. CASE HoldPlan(p, key, expected)
      <4>1. state'[p] = "held" /\ ahead' = ahead
        BY <1>0, <3>2 DEF HoldPlan, Apply, TypeOK
      <4>2. PlanOf[k] # p
        BY <4>1 DEF Eligible, GateOpen
      <4>3. k \in Eligible
        BY <1>0, <1>1, <1>3, <3>1, <4>2 DEF Eligible, GateOpen
      <4> QED
        BY <1>1, <2>4, <3>1, <4>1, <4>3 DEF Before
    <3>3. CASE ReleasePlan(p, key, expected)
      <4>1. ahead' = ToTail(Of(p)) /\ (place[p] # Unplaced => p \in returned')
        BY <2>1, <3>3 DEF ReleasePlan
      <4>2. turn \notin Of(p) /\ (k \in Of(p) <=> PlanOf[k] = p)
        BY <1>8, <3>1 DEF Of
      <4>3. <<k, turn>> \in ahead' => k \notin Of(p) /\ <<k, turn>> \in ahead
        BY <4>1, <4>2 DEF ToTail
      <4>4. Before(k, turn)
        BY <1>1, <2>4, <4>3 DEF Before
      <4>5. PlanOf[k] # p
        <5> SUFFICES ASSUME PlanOf[k] = p PROVE FALSE
          OBVIOUS
        <5>1. place[p] = Unplaced
          BY <2>4, <4>1
        <5>2. ~(place[p] < place[PlanOf[turn]])
          <6>1. place[PlanOf[turn]] \in 0..Unplaced /\ Unplaced \in Nat
            BY <1>0, FiniteAssumption, FS_CardinalityType
            DEF TypeOK, FiniteAssumption, Unplaced
          <6> QED
            BY <5>1, <6>1
        <5> QED
          BY <1>1, <2>4, <4>2, <4>3, <5>2 DEF Before
      <4>6. k \in Eligible
        BY <1>0, <1>1, <1>3, <3>1, <4>5 DEF Eligible, GateOpen
      <4> QED
        BY <3>1, <4>4, <4>6
    <3> QED
      BY <3>2, <3>3
  <2> QED
    BY <1>1, <2>2, <2>3, <2>4, InTurnKept
<1> QED
  BY <1>7, <1>8

(* A lane command changes the lane's revision, and so does a move.              *)
LEMMA TurnLaneCommand ==
    ASSUME TypeOK, TurnInv, turn \in Jobs, NEW key \in Keys, NEW expected \in Nat,
           \/ PauseLane(key, expected)
           \/ ResumeLane(key, expected)
           \/ \E item, anchor \in Plans, side \in {"before", "after"} :
                  Move(key, expected, item, anchor, side)
    PROVE  TurnInv'
<1> USE PlanAssumption DEF PlanAssumption, jobs, gates, choice, counts
<1>0. /\ Lane \in Gates
      /\ \A j \in Jobs : PlanOf[j] \in Gates /\ PlanOf[j] # Lane
      /\ \A g \in Gates : revision[g] \in Nat
      /\ turn # NoJob
  BY DEF Gates, TypeOK
<1>1. choice' = choice /\ revision[Lane] <= expected
  BY <1>0 DEF PauseLane, ResumeLane, Move, Fresh
<1>2. revision' = [revision EXCEPT ![Lane] = expected + 1]
  BY DEF PauseLane, ResumeLane, Move, Apply, Record
<1>3. /\ revision'[Lane] = expected + 1
      /\ \A g \in Gates : g # Lane => revision'[g] = revision[g]
  BY <1>0, <1>2 DEF TypeOK
<1>4. seen.lane.revision \in Nat
  BY DEF TypeOK, Snapshots
<1>5. seen.lane.revision < revision'[Lane]
  BY <1>0, <1>1, <1>3, <1>4 DEF TurnInv
<1>6. Read(Lane)'.revision = revision'[Lane]
  BY DEF Read
<1>7. ~Claimable(turn)'
  BY <1>0, <1>1, <1>3, <1>4, <1>5, <1>6 DEF Claimable, GatesUnchanged
<1>8. seen.plan.revision <= revision'[PlanOf[turn]] /\ seen.lane.revision <= revision'[Lane]
  BY <1>0, <1>3, <1>4, <1>5 DEF TurnInv
<1> QED
  BY <1>1, <1>7, <1>8 DEF TurnInv
(* Everything else either waits for the final claim to end or is the result of  *)
(* another execution, which the queue does not notice.                          *)
LEMMA TurnStep == TypeOK /\ TurnInv /\ [Next]_vars => TurnInv'
<1> SUFFICES ASSUME TypeOK, TurnInv, [Next]_vars PROVE TurnInv'
  OBVIOUS
<1> USE PlanAssumption DEF PlanAssumption, jobs, gates, choice, counts
<1>0. /\ turn = NoJob => ~ranked
      /\ turn # NoJob => turn \in Jobs
      /\ \A g \in Gates : revision[g] \in Nat
      /\ Lane \in Gates /\ \A j \in Jobs : PlanOf[j] \in Gates
  BY DEF TypeOK, Gates
<1>1. ASSUME LoopFree, UNCHANGED choice PROVE TurnInv'
  BY <1>0, <1>1, NothingPending DEF LoopFree, TurnInv
<1>2. ASSUME NEW j \in Jobs, Consider(j) PROVE TurnInv'
  <2>1. turn' = j /\ ~ranked' /\ returned' = {}
    BY <1>0, <1>2 DEF Consider, LoopFree, TurnInv
  <2>2. /\ seen'.plan.revision = revision[PlanOf[j]] /\ seen'.lane.revision = revision[Lane]
        /\ revision' = revision
    BY <1>2 DEF Consider, Read
  <2> QED
    BY <1>0, <2>1, <2>2 DEF TurnInv
<1>3. CASE Rank
  <2>1. turn' = turn /\ ranked' /\ seen' = seen /\ revision' = revision
        /\ returned' = {} /\ UNCHANGED <<jobs, gates>>
    BY <1>3 DEF Rank, TurnInv
  <2>2. InTurn(turn)
    BY <1>3 DEF Rank
  <2>3. Eligible' = Eligible /\ \A k \in Jobs : Before(k, turn)' <=> Before(k, turn)
    BY <2>1 DEF Eligible, GateOpen, Before
  <2>4. {k \in Eligible' : Before(k, turn)' /\ PlanOf[k] \notin returned'}
            = {k \in Eligible : Before(k, turn)}
    BY <2>1, <2>3 DEF Eligible
  <2>5. InTurnBut(turn)'
    BY <2>1, <2>2, <2>3, <2>4 DEF InTurnBut, InTurn
  <2> QED
    BY <2>1, <2>5 DEF TurnInv
<1>4. CASE NotInTurn \/ Claim \/ ClaimMissed \/ Restart
  BY <1>4, NothingPending DEF NotInTurn, Claim, ClaimMissed, Restart, Withdraw
<1>5. ASSUME NEW j \in Jobs, NEW outcome \in Terminal, Settle(j, outcome) PROVE TurnInv'
  <2>1. status[j] = "running" /\ status'[j] # "queued"
        /\ \A k \in Jobs : k # j => status'[k] = status[k]
    BY <1>5 DEF Settle, TypeOK, Terminal
  <2>2. UNCHANGED <<claimed, ahead, place, gates, choice>>
    BY <1>5 DEF Settle
  <2>3. Eligible' = Eligible
    BY <2>1, <2>2 DEF Eligible, GateOpen
  <2>4. InTurnBut(turn)' <=> InTurnBut(turn)
    <3>1. \A k \in Jobs : (Before(k, turn)' <=> Before(k, turn))
      BY <2>2 DEF Before
    <3>2. {k \in Eligible' : Before(k, turn)' /\ PlanOf[k] \notin returned'}
              = {k \in Eligible : Before(k, turn) /\ PlanOf[k] \notin returned}
      BY <2>2, <2>3, <3>1 DEF Eligible
    <3> QED
      BY <2>2, <2>3, <3>2 DEF InTurnBut
  <2>5. ranked' /\ Claimable(turn)' => ranked /\ Claimable(turn)
    BY <1>0, <2>1, <2>2 DEF Claimable, GatesUnchanged, Read
  <2> QED
    BY <2>2, <2>4, <2>5 DEF TurnInv
<1>6. ASSUME NEW j \in Jobs, Release(j) \/ ReleaseRefused(j) \/ Cancel(j) \/ Retry(j)
      PROVE  TurnInv'
  BY <1>1, <1>6 DEF Release, ReleaseRefused, Cancel, Retry
<1>7. CASE Expire
  BY <1>1, <1>7 DEF Expire
<1>8. CASE Command
  <2>1. PICK key \in Keys, g \in Gates : \E expected \in 0..revision[g] :
            \/ g \in Plans /\ HoldPlan(g, key, expected)
            \/ g \in Plans /\ ReleasePlan(g, key, expected)
            \/ g = Lane /\ PauseLane(key, expected)
            \/ g = Lane /\ ResumeLane(key, expected)
            \/ g = Lane /\ \E item, anchor \in Plans, side \in {"before", "after"} :
                   Move(key, expected, item, anchor, side)
    BY <1>8 DEF Command
  <2>2. 0..revision[g] \subseteq Nat
    BY <1>0
  <2>3. CASE LoopFree
    <3>1. CASE UNCHANGED choice
      BY <1>1, <2>3, <3>1
    <3>2. CASE \E expected : ReleasePlan(g, key, expected)
      <4>1. turn' = NoJob /\ ~ranked' /\ returned' = {}
        BY <1>0, <2>3, <3>2 DEF ReleasePlan, LoopFree, TurnInv
      <4> QED
        BY <4>1, NothingPending
    <3> QED
      BY <2>1, <3>1, <3>2 DEF HoldPlan, PauseLane, ResumeLane, Move
  <2>4. CASE ~LoopFree
    BY <1>0, <2>1, <2>2, <2>4, TurnPlanCommand, TurnLaneCommand DEF LoopFree
  <2> QED
    BY <2>3, <2>4
<1>9. CASE UNCHANGED vars
  BY <1>9 DEF vars, TurnInv, Claimable, GatesUnchanged, Read, InTurnBut, Before, Eligible,
              GateOpen
<1> QED
  BY <1>2, <1>3, <1>4, <1>5, <1>6, <1>7, <1>8, <1>9 DEF Next, Dispatch, Execution

(* Nobody but the UPDATE takes a claim.                                         *)
LEMMA StartStep ==
    ASSUME TypeOK, TurnInv, [Next]_vars, NEW j \in Jobs, j \in claimed', j \notin claimed
    PROVE  InTurnBut(j)
<1> USE DEF jobs, gates, choice, counts
<1>1. CASE Claim
  <2>1. j = turn
    BY <1>1 DEF Claim
  <2> QED
    BY <1>1, <2>1 DEF Claim, TurnInv
<1>2. ASSUME claimed' \subseteq claimed PROVE InTurnBut(j)
  BY <1>2
<1>3. CASE Rank \/ NotInTurn \/ ClaimMissed \/ Expire \/ Restart
  BY <1>2, <1>3 DEF Rank, NotInTurn, ClaimMissed, Expire, Restart
<1>4. ASSUME NEW k \in Jobs, Consider(k) \/ Release(k) \/ ReleaseRefused(k)
                             \/ Cancel(k) \/ Retry(k)
      PROVE  InTurnBut(j)
  BY <1>2, <1>4 DEF Consider, Release, ReleaseRefused, Cancel, Retry
<1>5. ASSUME NEW k \in Jobs, NEW outcome, Settle(k, outcome) PROVE InTurnBut(j)
  BY <1>2, <1>5 DEF Settle
<1>6. CASE Command
  BY <1>2, <1>6 DEF Command, HoldPlan, ReleasePlan, PauseLane, ResumeLane, Move
<1>7. CASE UNCHANGED vars
  BY <1>2, <1>7 DEF vars
<1> QED
  BY <1>1, <1>3, <1>4, <1>5, <1>6, <1>7 DEF Next, Dispatch, Execution

(* Every start is in turn at the moment it happens, whatever commands were      *)
(* committed since the queue was ranked.                                        *)
THEOREM StartsAreInTurn == Spec => StartsInTurn
<1>1. Init => TurnInv
  BY DEF Init, TurnInv
<1>2. TypeOK /\ TurnInv /\ [Next]_vars
      => [\A j \in Jobs : j \in claimed' \ claimed => InTurnBut(j)]_vars
  BY StartStep
<1> QED
  BY <1>1, <1>2, TurnStep, TypeCorrect, PTL DEF Spec, StartsInTurn

--------------------------------------------------------------------------------
(* Room.                                                                        *)

(* The dispatcher chooses while there is room and nobody else takes it before   *)
(* its claim is decided; only a refused release leaves a claim without a lease. *)
RoomInv ==
    /\ turn # NoJob => turn \notin leases /\ Cardinality(leases) < Capacity
    /\ Cardinality(leases) <= Capacity
    /\ Cardinality(claimed) <= Capacity
    /\ refusals = 0 => claimed \subseteq leases

(* Fewer jobs take less room, one more takes one place.                         *)
LEMMA RoomFacts ==
    ASSUME NEW S \in SUBSET Jobs
    PROVE  /\ Cardinality(S) \in Nat
           /\ \A T \in SUBSET S : Cardinality(T) \in Nat /\ Cardinality(T) <= Cardinality(S)
           /\ \A j \in Jobs : Cardinality(S \cup {j}) <= Cardinality(S) + 1
<1>1. IsFiniteSet(S)
  BY FiniteAssumption, FS_Subset DEF FiniteAssumption
<1>2. Cardinality(S) \in Nat
  BY <1>1, FS_CardinalityType
<1>3. ASSUME NEW j \in Jobs PROVE Cardinality(S \cup {j}) <= Cardinality(S) + 1
  <2>1. Cardinality(S \cup {j}) = IF j \in S THEN Cardinality(S) ELSE Cardinality(S) + 1
    BY <1>1, FS_AddElement
  <2> QED
    BY <1>2, <2>1
<1> QED
  BY <1>1, <1>2, <1>3, FS_Subset, FS_CardinalityType

(* Every step keeps the room.                                                   *)
LEMMA RoomStep == TypeOK /\ TurnInv /\ RoomInv /\ [Next]_vars => RoomInv'
<1> SUFFICES ASSUME TypeOK, TurnInv, RoomInv, [Next]_vars PROVE RoomInv'
  OBVIOUS
<1> USE NumbersAssumption DEF NumbersAssumption, jobs, gates, choice, counts
<1>0. leases \in SUBSET Jobs /\ claimed \in SUBSET Jobs /\ Capacity \in Nat
  BY DEF TypeOK
<1>1. ASSUME UNCHANGED <<turn, leases, claimed, refusals>> PROVE RoomInv'
  BY <1>1 DEF RoomInv
<1>2. ASSUME NEW j \in Jobs, Consider(j) PROVE RoomInv'
  BY <1>2 DEF Consider, RoomInv
<1>3. CASE NotInTurn \/ ClaimMissed
  BY <1>3 DEF NotInTurn, ClaimMissed, Withdraw, RoomInv
<1>4. CASE Claim
  <2>1. turn \in Jobs /\ turn # NoJob /\ InTurnBut(turn)
    BY <1>4, PlanAssumption DEF Claim, TypeOK, TurnInv, PlanAssumption
  <2>2. /\ claimed' = claimed \cup {turn} /\ leases' = leases \cup {turn} /\ turn' = NoJob
        /\ refusals' = refusals
    BY <1>4 DEF Claim, Withdraw
  <2>3. Cardinality(leases') <= Capacity
    <3>1. Cardinality(leases) < Capacity
      BY <2>1 DEF RoomInv
    <3>2. Cardinality(leases \cup {turn}) <= Cardinality(leases) + 1
      BY <1>0, <2>1, RoomFacts
    <3>3. Cardinality(leases \cup {turn}) \in Nat /\ Cardinality(leases) \in Nat
      BY <1>0, <2>1, RoomFacts
    <3> QED
      BY <1>0, <2>2, <3>1, <3>2, <3>3
  <2>4. Cardinality(claimed') <= Capacity
    <3> DEFINE front == {k \in Eligible : Before(k, turn) /\ PlanOf[k] \notin returned}
    <3>1. Cardinality(front) + Cardinality(claimed) < Capacity
      BY <2>1 DEF InTurnBut
    <3>2. front \in SUBSET Jobs
      BY DEF Eligible
    <3> HIDE DEF front
    <3>3. Cardinality(front) \in Nat /\ Cardinality(claimed) \in Nat
      BY <1>0, <3>2, RoomFacts
    <3>4. Cardinality(claimed \cup {turn}) <= Cardinality(claimed) + 1
      BY <1>0, <2>1, RoomFacts
    <3>5. Cardinality(claimed \cup {turn}) \in Nat
      BY <1>0, <2>1, RoomFacts
    <3> QED
      BY <1>0, <2>2, <3>1, <3>3, <3>4, <3>5
  <2> QED
    BY <2>2, <2>3, <2>4 DEF RoomInv
<1>5. ASSUME leases' \subseteq leases, claimed' \subseteq claimed,
             turn' = NoJob \/ turn' = turn,
             refusals' = 0 => refusals = 0 /\ claimed' \subseteq leases'
      PROVE  RoomInv'
  <2>1. /\ Cardinality(leases') \in Nat /\ Cardinality(leases') <= Cardinality(leases)
        /\ Cardinality(claimed') \in Nat /\ Cardinality(claimed') <= Cardinality(claimed)
        /\ Cardinality(leases) \in Nat /\ Cardinality(claimed) \in Nat
    BY <1>0, <1>5, RoomFacts
  <2> QED
    BY <1>0, <1>5, <2>1 DEF RoomInv
<1>6. ASSUME NEW j \in Jobs, Release(j) \/ Retry(j) PROVE RoomInv'
  <2>1. refusals' = 0 => refusals = 0 /\ claimed' \subseteq leases'
    BY <1>6 DEF Release, Retry, RoomInv
  <2>2. leases' \subseteq leases /\ claimed' \subseteq claimed /\ turn' = turn
    BY <1>6 DEF Release, Retry
  <2> QED
    BY <1>5, <2>1, <2>2
<1>7. ASSUME NEW j \in Jobs, ReleaseRefused(j) PROVE RoomInv'
  <2>1. refusals' # 0
    BY <1>7 DEF ReleaseRefused, TypeOK
  <2>2. leases' \subseteq leases /\ claimed' \subseteq claimed /\ turn' = turn
    BY <1>7 DEF ReleaseRefused
  <2> QED
    BY <1>5, <2>1, <2>2
<1>8. CASE Expire
  <2>1. refusals' = 0 => refusals = 0 /\ claimed' \subseteq leases'
    BY <1>8 DEF Expire, RoomInv
  <2>2. leases' \subseteq leases /\ claimed' \subseteq claimed /\ turn' = turn
    BY <1>8 DEF Expire
  <2> QED
    BY <1>5, <2>1, <2>2
<1>9. CASE Restart
  <2>1. leases' = {} /\ claimed' = {} /\ turn' = NoJob /\ refusals' = refusals
    BY <1>9 DEF Restart, Withdraw
  <2> QED
    BY <1>5, <2>1
<1>10. CASE Rank \/ \E j \in Jobs : Cancel(j) \/ \E outcome \in Terminal : Settle(j, outcome)
  BY <1>1, <1>10 DEF Rank, Cancel, Settle
<1>11. CASE Command
  BY <1>1, <1>11 DEF Command, HoldPlan, ReleasePlan, PauseLane, ResumeLane, Move
<1>12. CASE UNCHANGED vars
  BY <1>1, <1>12 DEF vars
<1> QED
  BY <1>2, <1>3, <1>4, <1>6, <1>7, <1>8, <1>9, <1>10, <1>11, <1>12 DEF Next, Dispatch, Execution

(* Commands, retries and refused releases never let more jobs of the group be   *)
(* claimed, or inside a lease, than it has room for.                            *)
RoomKept == Cardinality(claimed) <= Capacity /\ Cardinality(leases) <= Capacity

(* Executions hold at most the capacity between them, whatever is held,         *)
(* paused, moved or refused.                                                    *)
THEOREM RoomAlwaysKept == Spec => []RoomKept
<1>1. Init => TurnInv /\ RoomInv
  <2> SUFFICES ASSUME Init PROVE TurnInv /\ RoomInv
    OBVIOUS
  <2>1. Cardinality(leases) = 0 /\ Cardinality(claimed) = 0
    BY FS_EmptySet DEF Init
  <2> QED
    BY <2>1, NumbersAssumption DEF Init, TurnInv, RoomInv, NumbersAssumption
<1>2. RoomInv => RoomKept
  BY DEF RoomInv, RoomKept
<1> QED
  BY <1>1, <1>2, TypeCorrect, TurnStep, RoomStep, PTL DEF Spec

--------------------------------------------------------------------------------
(* Draining lanes.                                                              *)

(* As long as no release was refused, a lane that drains has an execution whose *)
(* end will reconcile it; the last revision alone cannot be passed.             *)
DrainingBusy ==
    state[Lane] = "draining" /\ refusals = 0 /\ revision[Lane] < MaxRevision => leases # {}

(* Every step keeps that: who takes the last claim away looks at the lane.      *)
LEMMA DrainStep == TypeOK /\ RoomInv /\ DrainingBusy /\ [Next]_vars => DrainingBusy'
<1> SUFFICES ASSUME TypeOK, RoomInv, DrainingBusy, [Next]_vars PROVE DrainingBusy'
  OBVIOUS
<1> USE DEF jobs, gates, choice, counts
<1>0. Lane \in Gates /\ revision[Lane] \in Nat
  BY DEF Gates, TypeOK
<1>1. ASSUME UNCHANGED <<state, revision, refusals>>, leases \subseteq leases'
      PROVE  DrainingBusy'
  BY <1>1 DEF DrainingBusy
<1>2. ASSUME NEW left, Reconcile(left), left = {} PROVE DrainingBusy'
  <2>1. CASE Reconciled(left)
    BY <1>0, <1>2, <2>1 DEF Reconcile, DrainingBusy, TypeOK
  <2>2. CASE ~Reconciled(left)
    BY <1>2, <2>2 DEF Reconcile, Reconciled, DrainingBusy
  <2> QED
    BY <2>1, <2>2
<1>3. ASSUME NEW j \in Jobs, Release(j) PROVE DrainingBusy'
  <2> SUFFICES ASSUME refusals' = 0, leases' = {} PROVE DrainingBusy'
    BY DEF DrainingBusy
  <2>1. claimed \ {j} = {} /\ Reconcile(claimed \ {j})
    BY <1>3 DEF Release, RoomInv
  <2> QED
    BY <1>2, <2>1
<1>4. ASSUME NEW j \in Jobs, ReleaseRefused(j) PROVE DrainingBusy'
  BY <1>4 DEF ReleaseRefused, DrainingBusy, TypeOK
<1>5. CASE Expire
  <2>1. refusals # 0 /\ refusals' = refusals
    BY <1>5 DEF Expire, Abandoned, RoomInv
  <2> QED
    BY <2>1 DEF DrainingBusy
<1>6. CASE Restart
  BY <1>2, <1>6 DEF Restart
<1>7. ASSUME NEW j \in Jobs, Consider(j) \/ Cancel(j) \/ Retry(j)
                             \/ \E outcome \in Terminal : Settle(j, outcome)
      PROVE  DrainingBusy'
  BY <1>1, <1>7 DEF Consider, Cancel, Retry, Settle
<1>8. CASE Dispatch
  BY <1>1, <1>8 DEF Dispatch, Rank, NotInTurn, Claim, ClaimMissed
<1>9. CASE Command
  <2>1. ASSUME NEW p \in Plans, NEW key, NEW expected,
               HoldPlan(p, key, expected) \/ ReleasePlan(p, key, expected)
        PROVE  DrainingBusy'
    <3>1. PICK next :
              /\ state' = [state EXCEPT ![p] = next]
              /\ revision' = [revision EXCEPT ![p] = expected + 1]
      BY <2>1 DEF HoldPlan, ReleasePlan, Apply, Record
    <3>2. state'[Lane] = state[Lane] /\ revision'[Lane] = revision[Lane]
      BY <1>0, <3>1, PlanAssumption DEF PlanAssumption, TypeOK
    <3> QED
      BY <2>1, <3>2 DEF HoldPlan, ReleasePlan, DrainingBusy
  <2>2. ASSUME NEW key, NEW expected, PauseLane(key, expected) PROVE DrainingBusy'
    <3>1. state'[Lane] = "draining" => claimed # {}
      BY <1>0, <2>2 DEF PauseLane, Apply, TypeOK
    <3> QED
      BY <2>2, <3>1 DEF PauseLane, DrainingBusy, RoomInv
  <2>3. ASSUME NEW key, NEW expected, ResumeLane(key, expected) PROVE DrainingBusy'
    BY <1>0, <2>3 DEF ResumeLane, Apply, DrainingBusy, TypeOK
  <2>4. ASSUME NEW key, NEW expected \in Nat, NEW item, NEW anchor, NEW side,
               Move(key, expected, item, anchor, side)
        PROVE  DrainingBusy'
    <3>1. revision'[Lane] = revision[Lane] + 1
      BY <1>0, <2>4 DEF Move, Record, Fresh, TypeOK
    <3>2. UNCHANGED <<state, leases, refusals>>
      BY <2>4 DEF Move
    <3> QED
      BY <1>0, <3>1, <3>2, NumbersAssumption DEF DrainingBusy, NumbersAssumption
  <2>5. PICK key \in Keys, g \in Gates : \E expected \in 0..revision[g] :
            \/ g \in Plans /\ HoldPlan(g, key, expected)
            \/ g \in Plans /\ ReleasePlan(g, key, expected)
            \/ g = Lane /\ PauseLane(key, expected)
            \/ g = Lane /\ ResumeLane(key, expected)
            \/ g = Lane /\ \E item, anchor \in Plans, side \in {"before", "after"} :
                   Move(key, expected, item, anchor, side)
    BY <1>9 DEF Command
  <2>6. 0..revision[g] \subseteq Nat
    BY DEF TypeOK
  <2> QED
    BY <2>1, <2>2, <2>3, <2>4, <2>5, <2>6
<1>10. CASE UNCHANGED vars
  BY <1>1, <1>10 DEF vars
<1> QED
  BY <1>3, <1>4, <1>5, <1>6, <1>7, <1>8, <1>9, <1>10 DEF Next, Execution

(* A lane does not wait for claims that nobody will release.                    *)
THEOREM DrainingHasWork == Spec => []DrainingBusy
<1>1. Init => TurnInv /\ RoomInv /\ DrainingBusy
  <2> SUFFICES ASSUME Init PROVE TurnInv /\ RoomInv /\ DrainingBusy
    OBVIOUS
  <2>1. Cardinality(leases) = 0 /\ Cardinality(claimed) = 0
    BY FS_EmptySet DEF Init
  <2>2. state[Lane] = "open"
    BY DEF Init, Gates
  <2> QED
    BY <2>1, <2>2, NumbersAssumption
    DEF Init, TurnInv, RoomInv, DrainingBusy, NumbersAssumption
<1> QED
  BY <1>1, TypeCorrect, TurnStep, RoomStep, DrainStep, PTL DEF Spec

--------------------------------------------------------------------------------
(* The order of the queue.                                                      *)

(* The rank puts any two jobs in order.                                         *)
RankInv == TotalOrder(ahead, Jobs)

(* Releases and retries move jobs to the tail; nothing else changes the rank.   *)
LEMMA RankStep == TypeOK /\ RankInv /\ [Next]_vars => RankInv'
<1> SUFFICES ASSUME TypeOK, RankInv, [Next]_vars PROVE RankInv'
  OBVIOUS
<1> USE DEF jobs, gates, choice, counts
<1>1. ahead' = ahead \/ \E moved \in SUBSET Jobs : ahead' = ToTail(moved)
  <2>1. ASSUME NEW j \in Jobs, Consider(j) \/ Execution(j) \/ ReleaseRefused(j) \/ Cancel(j)
        PROVE  ahead' = ahead
    BY <2>1 DEF Consider, Execution, Settle, Release, ReleaseRefused, Cancel
  <2>2. ASSUME NEW j \in Jobs, Retry(j) PROVE ahead' = ToTail({j})
    BY <2>2 DEF Retry
  <2>3. CASE Dispatch \/ Expire \/ Restart \/ UNCHANGED vars
    BY <2>3 DEF Dispatch, Rank, NotInTurn, Claim, ClaimMissed, Expire, Restart, vars
  <2>4. CASE Command
    <3>1. ahead' = ahead \/ \E p \in Plans : ahead' = ToTail(Of(p))
      BY <2>4 DEF Command, HoldPlan, ReleasePlan, PauseLane, ResumeLane, Move
    <3>2. \A p \in Plans : Of(p) \in SUBSET Jobs
      BY DEF Of
    <3> QED
      BY <3>1, <3>2
  <2> QED
    BY <2>1, <2>2, <2>3, <2>4 DEF Next
<1>2. ASSUME NEW moved \in SUBSET Jobs PROVE TotalOrder(ToTail(moved), Jobs)
  BY TailKeepsTotal DEF RankInv, ToTail
<1>3. TotalOrder(ahead', Jobs)
  BY <1>1, <1>2 DEF RankInv
<1> QED
  BY <1>3 DEF RankInv, TotalOrder, StrictOrder

(* The rank is in order from the start.                                         *)
LEMMA RankInit == Init => RankInv
BY DEF Init, RankInv, TotalOrder, StrictOrder

(* Places and rank together put the jobs in order: somebody is always first.    *)
LEMMA QueueOrdered ==
    ASSUME TypeOK, RankInv
    PROVE  StrictOrder({p \in Jobs \X Jobs : Before(p[1], p[2])}, Jobs)
<1> DEFINE R == {p \in Jobs \X Jobs : Before(p[1], p[2])}
<1>1. \A j \in Jobs : place[PlanOf[j]] \in Nat
  <2>1. Unplaced \in Nat
    BY FiniteAssumption, FS_CardinalityType DEF FiniteAssumption, Unplaced
  <2> QED
    BY <2>1, PlanAssumption DEF TypeOK, PlanAssumption
<1>2. ASSUME NEW j \in Jobs PROVE ~Before(j, j)
  <2>1. <<j, j>> \notin ahead
    BY DEF RankInv, TotalOrder, StrictOrder
  <2>2. ~(place[PlanOf[j]] < place[PlanOf[j]])
    BY <1>1
  <2> QED
    BY <2>1, <2>2 DEF Before
<1>3. \A i, j, k \in Jobs : Before(i, j) /\ Before(j, k) => Before(i, k)
  BY <1>1 DEF Before, RankInv, TotalOrder, StrictOrder
<1>4. \A j, k \in Jobs : <<j, k>> \in R <=> Before(j, k)
  OBVIOUS
<1> HIDE DEF R
<1>5. R \in SUBSET (Jobs \X Jobs)
  BY DEF R
<1>6. StrictOrder(R, Jobs)
  BY <1>2, <1>3, <1>4, <1>5 DEF StrictOrder
<1> QED
  BY <1>6 DEF R

(* While a job may start by its gates and nobody is inside a lease or being     *)
(* chosen, either claims that nobody holds can be cleared or one of those jobs  *)
(* is in turn: holds, pauses, moves and releases never leave the queue without  *)
(* a first.                                                                     *)
SomebodyIsNext ==
    Eligible # {} /\ leases = {} =>
        Abandoned # {} \/ \E j \in Eligible : InTurn(j)

(* So it is in every state: no hold, pause, move, release or retry leaves all   *)
(* eligible jobs waiting for one another.                                       *)
THEOREM SomebodyAlwaysNext == Spec => []SomebodyIsNext
<1>1. ASSUME TypeOK, RankInv PROVE SomebodyIsNext
  <2> SUFFICES ASSUME Eligible # {}, leases = {}, Abandoned = {}
               PROVE  \E j \in Eligible : InTurn(j)
    BY DEF SomebodyIsNext
  <2> DEFINE R == {p \in Jobs \X Jobs : Before(p[1], p[2])}
  <2>1. Eligible \subseteq Jobs
    BY DEF Eligible
  <2>2. StrictOrder(R, Jobs)
    BY <1>1, QueueOrdered
  <2>3. PICK j \in Eligible : \A k \in Eligible : <<k, j>> \notin R
    <3> HIDE DEF R
    <3> QED
      BY <2>1, <2>2, OrderHasFirst, FiniteAssumption DEF FiniteAssumption
  <2>4. {k \in Eligible : Before(k, j)} = {} /\ claimed = {}
    BY <2>1, <2>3 DEF Abandoned
  <2>5. Cardinality({k \in Eligible : Before(k, j)}) + Cardinality(claimed) < Capacity
    BY <2>4, FS_EmptySet, NumbersAssumption DEF NumbersAssumption
  <2> QED
    BY <2>5 DEF InTurn
<1> QED
  BY <1>1, RankInit, RankStep, TypeCorrect, PTL DEF Spec

--------------------------------------------------------------------------------
(* Moves.                                                                       *)

(* The order of the cohort as a relation.                                       *)
CohortOrder == {pq \in Cohort \X Cohort : PlanBefore(pq[1], pq[2])}

(* It puts any two plans in order: by their places, and among equals by their   *)
(* first jobs, which differ.                                                    *)
LEMMA CohortOrdered == TypeOK /\ RankInv => TotalOrder(CohortOrder, Cohort)
<1> SUFFICES ASSUME TypeOK, RankInv PROVE TotalOrder(CohortOrder, Cohort)
  OBVIOUS
<1> DEFINE First(p, q) == \E j \in Runnable(p) : \A k \in Runnable(q) : <<j, k>> \in ahead
<1>0. \A p \in Cohort : p \in Plans /\ Runnable(p) \subseteq Jobs /\ Runnable(p) # {}
  BY DEF Cohort, Runnable, Of
<1>1. ASSUME NEW p \in Cohort, NEW q \in Cohort, p # q PROVE First(p, q) \/ First(q, p)
  <2> DEFINE both == Runnable(p) \cup Runnable(q)
  <2>1. both \subseteq Jobs /\ both # {}
    BY <1>0
  <2>2. PICK j \in both : \A k \in both : <<k, j>> \notin ahead
    <3> HIDE DEF both
    <3> QED
      BY <2>1, OrderHasFirst, FiniteAssumption DEF FiniteAssumption, RankInv, TotalOrder
  <2>3. \A k \in both : k # j => <<j, k>> \in ahead
    BY <2>1, <2>2 DEF RankInv, TotalOrder
  <2>4. Runnable(p) \cap Runnable(q) = {}
    BY <1>1 DEF Runnable, Of
  <2> QED
    BY <2>3, <2>4
<1>2. ASSUME NEW p \in Cohort, NEW q \in Cohort PROVE ~(First(p, q) /\ First(q, p))
  BY <1>0 DEF RankInv, TotalOrder, StrictOrder
<1>3. ASSUME NEW p \in Cohort, NEW q \in Cohort, NEW r \in Cohort, First(p, q), First(q, r)
      PROVE  First(p, r)
  BY <1>0, <1>3 DEF RankInv, TotalOrder, StrictOrder
<1>4. \A p \in Cohort : place[p] \in Nat
  <2>1. Unplaced \in Nat
    BY FiniteAssumption, FS_CardinalityType DEF FiniteAssumption, Unplaced
  <2> QED
    BY <1>0, <2>1 DEF TypeOK
<1>5. \A p, q \in Cohort : PlanBefore(p, q) <=>
          (place[p] < place[q] \/ (place[p] = place[q] /\ First(p, q)))
  BY DEF PlanBefore
<1>6. \A p, q \in Cohort : <<p, q>> \in CohortOrder <=> PlanBefore(p, q)
  BY DEF CohortOrder
<1> HIDE DEF First
<1>7. \A p \in Cohort : <<p, p>> \notin CohortOrder
  BY <1>2, <1>4, <1>5, <1>6
<1>8. \A p, q, r \in Cohort :
          <<p, q>> \in CohortOrder /\ <<q, r>> \in CohortOrder => <<p, r>> \in CohortOrder
  BY <1>3, <1>4, <1>5, <1>6
<1>9. \A p, q \in Cohort : p # q => <<p, q>> \in CohortOrder \/ <<q, p>> \in CohortOrder
  BY <1>1, <1>4, <1>5, <1>6
<1> QED
  BY <1>7, <1>8, <1>9 DEF CohortOrder, TotalOrder, StrictOrder

(* So does the order once one plan stands next to another.                      *)
MovedOrder(item, anchor, side) ==
    {pq \in Cohort \X Cohort : pq[1] # pq[2] /\ MovedBefore(pq[1], pq[2], item, anchor, side)}

(* Putting one plan next to another leaves the cohort in order.                 *)
LEMMA MovedOrdered ==
    ASSUME TotalOrder(CohortOrder, Cohort), NEW item \in Cohort, NEW anchor \in Cohort \ {item},
           NEW side \in {"before", "after"}
    PROVE  TotalOrder(MovedOrder(item, anchor, side), Cohort)
<1> DEFINE R == MovedOrder(item, anchor, side)
<1>1. \A p, q \in Cohort : <<p, q>> \in R <=>
          /\ p # q
          /\ \/ p = item /\ (<<anchor, q>> \in CohortOrder \/ (q = anchor /\ side = "before"))
             \/ p # item /\ q = item
                /\ (<<p, anchor>> \in CohortOrder \/ (p = anchor /\ side = "after"))
             \/ p # item /\ q # item /\ <<p, q>> \in CohortOrder
  BY DEF MovedOrder, MovedBefore, CohortOrder
<1>2. R \in SUBSET (Cohort \X Cohort)
  BY DEF MovedOrder
<1> HIDE DEF R
<1>3. \A p \in Cohort : <<p, p>> \notin R
  BY <1>1
<1>4. \A p, q \in Cohort : p # q => <<p, q>> \in R \/ <<q, p>> \in R
  BY <1>1 DEF TotalOrder
<1>5. \A p, q, r \in Cohort : <<p, q>> \in R /\ <<q, r>> \in R => <<p, r>> \in R
  BY <1>1 DEF TotalOrder, StrictOrder
<1>6. TotalOrder(R, Cohort)
  BY <1>2, <1>3, <1>4, <1>5 DEF TotalOrder, StrictOrder
<1> QED
  BY <1>6 DEF R

(* The places a move gives put the cohort in the order it asked for.            *)
LEMMA MoveOrders ==
    ASSUME TypeOK, RankInv, NEW key, NEW expected, NEW item, NEW anchor,
           NEW side \in {"before", "after"}, Move(key, expected, item, anchor, side)
    PROVE  \A p, q \in Cohort : PlanBefore(p, q)' <=> <<p, q>> \in MovedOrder(item, anchor, side)
<1> DEFINE R == MovedOrder(item, anchor, side)
<1>1. item \in Cohort /\ anchor \in Cohort \ {item}
  BY DEF Move
<1>2. TotalOrder(CohortOrder, Cohort) /\ TotalOrder(R, Cohort)
  BY <1>1, CohortOrdered, MovedOrdered
<1>3. Cohort \subseteq Plans /\ IsFiniteSet(Cohort)
  BY FiniteAssumption, FS_Subset DEF FiniteAssumption, Cohort
<1>4. ASSUME NEW p \in Cohort PROVE place'[p] = Cardinality({z \in Cohort : <<z, p>> \in R})
  <2>1. {z \in Cohort : <<z, p>> \in R}
            = {q \in Cohort \ {p} : MovedBefore(q, p, item, anchor, side)}
    BY DEF MovedOrder
  <2>2. place' = Moved(item, anchor, side)
    BY DEF Move
  <2> QED
    BY <1>3, <2>1, <2>2 DEF Moved
<1> HIDE DEF R
<1>5. ASSUME NEW p \in Cohort, NEW q \in Cohort
      PROVE  place'[p] \in Nat /\ (<<p, q>> \in R <=> place'[p] < place'[q])
  <2> DEFINE count(e) == Cardinality({z \in Cohort : <<z, e>> \in R})
  <2>1. count(p) \in Nat /\ (<<p, q>> \in R <=> count(p) < count(q))
    BY <1>2, <1>3, RankFollowsOrder
  <2>2. place'[p] = count(p) /\ place'[q] = count(q)
    BY <1>4
  <2> HIDE DEF count
  <2> QED
    BY <2>1, <2>2
<1>6. \A p \in Cohort : Runnable(p)' = Runnable(p) /\ Runnable(p) # {} /\ Runnable(p) \subseteq Jobs
  BY DEF Move, Runnable, Of, Cohort
<1>7. ahead' = ahead
  BY DEF Move
<1>8. ASSUME NEW p \in Cohort, NEW q \in Cohort PROVE PlanBefore(p, q)' <=> <<p, q>> \in R
  <2>1. CASE p = q
    <3>1. ~\E j \in Runnable(p) : \A k \in Runnable(p) : <<j, k>> \in ahead
      BY <1>6 DEF RankInv, TotalOrder, StrictOrder
    <3>2. place'[p] \in Nat
      BY <1>5
    <3>3. <<p, p>> \notin R
      BY <1>2 DEF TotalOrder, StrictOrder
    <3> QED
      BY <1>6, <1>7, <2>1, <3>1, <3>2, <3>3 DEF PlanBefore
  <2>2. CASE p # q
    <3>1. <<p, q>> \in R \/ <<q, p>> \in R
      BY <1>2, <2>2 DEF TotalOrder
    <3>2. /\ place'[p] \in Nat /\ place'[q] \in Nat
          /\ (<<p, q>> \in R <=> place'[p] < place'[q])
          /\ (<<q, p>> \in R <=> place'[q] < place'[p])
      BY <1>5
    <3>3. place'[p] # place'[q]
      BY <3>1, <3>2
    <3> QED
      BY <3>2, <3>3 DEF PlanBefore
  <2> QED
    BY <2>1, <2>2
<1> QED
  BY <1>8 DEF R

(* A move puts the plan right before, or right after, its anchor: every other   *)
(* plan of the cohort stands to it as it stood to the anchor, and the others    *)
(* keep their order among themselves.                                           *)
PutNextTo(item, anchor, side) ==
    /\ (PlanBefore(item, anchor)' <=> side = "before")
    /\ (PlanBefore(anchor, item)' <=> side = "after")
    /\ \A q \in Cohort \ {item, anchor} : (PlanBefore(q, item)' <=> PlanBefore(q, anchor))
    /\ \A q \in Cohort \ {item, anchor} : (PlanBefore(item, q)' <=> PlanBefore(anchor, q))
    /\ \A p, q \in Cohort \ {item} : (PlanBefore(p, q)' <=> PlanBefore(p, q))

MovesAsAsked ==
    [][\A key \in Keys, expected \in Nat, item, anchor \in Plans, side \in {"before", "after"} :
           Move(key, expected, item, anchor, side) => PutNextTo(item, anchor, side)]_vars

(* Whatever places earlier moves of other cohorts have left, a move does what   *)
(* it was asked for, and nothing else.                                          *)
THEOREM MovesKeepTheirPromise == Spec => MovesAsAsked
<1>1. ASSUME TypeOK, RankInv, NEW key \in Keys, NEW expected \in Nat, NEW item \in Plans,
             NEW anchor \in Plans, NEW side \in {"before", "after"},
             Move(key, expected, item, anchor, side)
      PROVE  PutNextTo(item, anchor, side)
  <2>1. item \in Cohort /\ anchor \in Cohort \ {item}
    BY <1>1 DEF Move
  <2>2. \A p, q \in Cohort : PlanBefore(p, q)' <=> <<p, q>> \in MovedOrder(item, anchor, side)
    BY <1>1, MoveOrders
  <2>3. \A p, q \in Cohort : <<p, q>> \in MovedOrder(item, anchor, side) <=>
            p # q /\ MovedBefore(p, q, item, anchor, side)
    BY DEF MovedOrder
  <2>4. \A p \in Cohort : ~PlanBefore(p, p)
    BY <1>1, CohortOrdered DEF CohortOrder, TotalOrder, StrictOrder
  <2> QED
    BY <2>1, <2>2, <2>3, <2>4 DEF PutNextTo, MovedBefore
<1>2. TypeOK /\ RankInv =>
        \A key \in Keys, expected \in Nat, item, anchor \in Plans, side \in {"before", "after"} :
            Move(key, expected, item, anchor, side) => PutNextTo(item, anchor, side)
  BY <1>1
<1> QED
  BY <1>2, RankInit, RankStep, TypeCorrect, PTL DEF Spec, MovesAsAsked
================================================================================
