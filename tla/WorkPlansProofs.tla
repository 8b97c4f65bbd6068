---------------------------- MODULE WorkPlansProofs ----------------------------
(* Proofs about WorkPlans for any plans, dependencies, retry limits and bounds. *)
EXTENDS WorkPlans, OrderFacts

--------------------------------------------------------------------------------
(* What a plan is shown as.                                                     *)

(* The names the statuses and stages come to.                                   *)
LEMMA StatusFacts ==
    /\ Statuses = {"queued", "running", "failed", "cancelled", "interrupted", "complete"}
    /\ Shown = {"queued", "running", "failed", "cancelled", "interrupted", "complete", "blocked"}
    /\ Summaries = {"queued", "running", "failed", "cancelled", "interrupted", "complete",
                    "blocked", "partial"}
    /\ Settled = {"failed", "cancelled", "interrupted", "complete"}
    /\ Unsuccessful = {"failed", "cancelled", "interrupted"}
    /\ Active = {"queued", "running"}
    /\ Stages = {"none", "waiting", "sleeping", "working", "exit"}
BY DEF Statuses, Shown, Summaries, Settled, Unsuccessful, Active, Stages, InLease

(* Whatever the steps show, the plan shows a status.                            *)
LEMMA DerivedType ==
    ASSUME NEW shown \in [Steps -> Shown], NEW p \in Plans
    PROVE  Derived(p, shown) \in Summaries
<1> DEFINE seen == {shown[s] : s \in {t \in Steps : PlanOf[t] = p}}
<1>1. seen \subseteq Summaries
  BY StatusFacts
<1>2. ASSUME NEW x \in seen, seen = {x} PROVE (CHOOSE y \in seen : TRUE) \in Summaries
  BY <1>1, <1>2
<1> QED
  BY <1>1, <1>2, StatusFacts DEF Derived

(* Steps that show the same give the plan the same status.                      *)
LEMMA DerivedSame ==
    ASSUME NEW shown \in [Steps -> Shown], NEW other \in [Steps -> Shown], NEW p \in Plans,
           \A s \in Steps : PlanOf[s] = p => shown[s] = other[s]
    PROVE  Derived(p, shown) = Derived(p, other)
<1>1. {shown[s] : s \in {t \in Steps : PlanOf[t] = p}} =
        {other[s] : s \in {t \in Steps : PlanOf[t] = p}}
  OBVIOUS
<1> QED
  BY <1>1 DEF Derived

(* Writing steps and deriving the plans of those that changed keeps the types,  *)
(* and keeps every plan derived.                                                *)
PlansAgree == \A p \in Plans : plan[p] = Derived(p, step)

(* Showing statuses keeps the types, and each plan with its summary.            *)
LEMMA ShowKeeps ==
    ASSUME TypeOK, NEW shown \in [Steps -> Shown], Show(shown)
    PROVE  /\ step' \in [Steps -> Shown]
           /\ plan' \in [Plans -> Summaries]
           /\ PlansAgree => PlansAgree'
<1>1. step' = shown
  BY DEF Show
<1>2. plan' \in [Plans -> Summaries]
  BY DerivedType DEF Show, TypeOK
<1>3. ASSUME PlansAgree, NEW p \in Plans PROVE plan'[p] = Derived(p, step')
  <2>1. CASE \E s \in Steps : PlanOf[s] = p /\ shown[s] # step[s]
    BY <1>1, <2>1 DEF Show
  <2>2. CASE ~\E s \in Steps : PlanOf[s] = p /\ shown[s] # step[s]
    <3>1. Derived(p, step) = Derived(p, shown)
      BY <2>2, DerivedSame DEF TypeOK
    <3>2. plan'[p] = plan[p]
      BY <2>2 DEF Show
    <3> QED
      BY <1>1, <1>3, <3>1, <3>2 DEF PlansAgree
  <2> QED
    BY <2>1, <2>2
<1> QED
  BY <1>1, <1>2, <1>3 DEF PlansAgree

(* So does showing one status.                                                  *)
LEMMA ShowOneKeeps ==
    ASSUME TypeOK, NEW s \in Steps, NEW status \in Shown, ShowOne(s, status)
    PROVE  /\ step' = [step EXCEPT ![s] = status]
           /\ step' \in [Steps -> Shown]
           /\ plan' \in [Plans -> Summaries]
           /\ PlansAgree => PlansAgree'
<1>1. [step EXCEPT ![s] = status] \in [Steps -> Shown]
  BY DEF TypeOK
<1> QED
  BY <1>1, ShowKeeps DEF ShowOne, Show

--------------------------------------------------------------------------------
(* What a step of the program does to the rows of one plan step.                *)

Moves(s) ==
    \/ /\ job'[s] = job[s]
       /\ \/ step'[s] = step[s]
          \/ job[s] = "queued" /\ step'[s] \in {"queued", "blocked"}
    \/ job[s] = "queued" /\ Fed(s) /\ job'[s] = "running" /\ step'[s] \in {"queued", "running"}
    \/ job[s] = "running" /\ job'[s] = "complete" /\ step'[s] = "complete"
    \/ job[s] = "running" /\ job'[s] = "queued" /\ step'[s] = "queued"
    \/ job[s] \in Active /\ job'[s] \in Unsuccessful /\ step'[s] = job'[s]
    \/ job[s] = "interrupted" /\ job'[s] = "cancelled" /\ step'[s] = "cancelled"
    \/ /\ job[s] \in Unsuccessful /\ job'[s] = "queued" /\ step'[s] = "queued"
       /\ retries' # retries

(* The effect of one action on all rows.                                        *)
Effect ==
    /\ job' \in [Steps -> Statuses]
    /\ step' \in [Steps -> Shown]
    /\ plan' \in [Plans -> Summaries]
    /\ PlansAgree => PlansAgree'
    /\ \A s \in Steps : Moves(s)

(* Rows that stay as they are.                                                  *)
LEMMA NoEffect == TypeOK /\ UNCHANGED <<job, step, plan>> => Effect
<1> SUFFICES ASSUME TypeOK, UNCHANGED <<job, step, plan>> PROVE Effect
  OBVIOUS
<1>1. PlansAgree => PlansAgree'
  BY DEF PlansAgree
<1> QED
  BY <1>1 DEF TypeOK, Effect, Moves

(* One row written together with its step.                                      *)
LEMMA OneEffect ==
    ASSUME TypeOK, NEW s \in Steps, NEW status \in Shown, NEW to \in Statuses,
           job' = [job EXCEPT ![s] = to], ShowOne(s, status),
           job'[s] = to /\ step'[s] = status => Moves(s)
    PROVE  Effect
<1>1. /\ step' = [step EXCEPT ![s] = status] /\ step' \in [Steps -> Shown]
      /\ plan' \in [Plans -> Summaries] /\ (PlansAgree => PlansAgree')
  BY ShowOneKeeps
<1>2. \A t \in Steps \ {s} : job'[t] = job[t] /\ step'[t] = step[t]
  BY <1>1 DEF TypeOK
<1>3. job' \in [Steps -> Statuses]
  BY DEF TypeOK
<1>4. job'[s] = to /\ step'[s] = status
  BY <1>1 DEF TypeOK
<1>5. \A t \in Steps : Moves(t)
  BY <1>2, <1>4 DEF Moves
<1> QED
  BY <1>1, <1>3, <1>5 DEF Effect

(* The effect of the shared parts of the actions of a task.                     *)
LEMMA FailEffect ==
    ASSUME TypeOK, NEW s \in Steps, NEW freed, Fail(s, freed)
    PROVE  Effect
<1>1. CASE Mine(s)
  <2> PICK to \in {"queued", "failed"} : job' = [job EXCEPT ![s] = to] /\ ShowOne(s, to)
    BY <1>1 DEF Fail
  <2>1. job'[s] = to /\ step'[s] = to => Moves(s)
    BY <1>1, StatusFacts DEF Moves, Mine
  <2>2. to \in Shown /\ to \in Statuses
    BY StatusFacts
  <2> QED
    BY <2>1, <2>2, OneEffect
<1>2. CASE ~Mine(s)
  BY <1>2, NoEffect DEF Fail
<1> QED
  BY <1>1, <1>2

(* Every action has only such effects on the rows.                              *)
LEMMA EffectStep == TypeOK /\ [Next]_vars => Effect
<1> SUFFICES ASSUME TypeOK, [Next]_vars PROVE Effect
  OBVIOUS
<1> USE StatusFacts DEF rows
<1>1. ASSUME NEW s \in Steps, Poll(s) PROVE Effect
  <2> PICK status \in {"queued", "blocked"} : ShowOne(s, status)
    BY <1>1 DEF Poll
  <2>1. job' = [job EXCEPT ![s] = "queued"]
    BY <1>1 DEF Poll, TypeOK
  <2>2. step'[s] = status => Moves(s)
    BY <1>1 DEF Poll, Moves
  <2> QED
    BY <2>1, <2>2, OneEffect
<1>2. ASSUME NEW s \in Steps, Claim(s) PROVE Effect
  <2>1. job'[s] = "running" /\ step'[s] = "running" => Moves(s)
    BY <1>2 DEF Claim, InTurn, Eligible, Moves
  <2> QED
    BY <1>2, <2>1, OneEffect DEF Claim
<1>3. ASSUME NEW s \in Steps, ClaimFails(s) PROVE Effect
  <2>1. job'[s] = "running" /\ step'[s] = "queued" => Moves(s)
    BY <1>3 DEF ClaimFails, InTurn, Eligible, Moves
  <2> QED
    BY <1>3, <2>1, OneEffect DEF ClaimFails
<1>4. ASSUME NEW s \in Steps, WaitEnds(s) PROVE Effect
  <2>1. CASE job[s] = "queued" /\ claim[s] = "none"
    <3>1. job'[s] = "cancelled" /\ step'[s] = "cancelled" => Moves(s)
      BY <2>1 DEF Moves
    <3> QED
      BY <1>4, <2>1, <3>1, OneEffect DEF WaitEnds
  <2> QED
    BY <1>4, <2>1, NoEffect DEF WaitEnds
<1>5. ASSUME NEW s \in Steps, WaitRaises(s) PROVE Effect
  <2>1. CASE job[s] = "queued" /\ job' = [job EXCEPT ![s] = "failed"] /\ ShowOne(s, "failed")
    <3>1. job'[s] = "failed" /\ step'[s] = "failed" => Moves(s)
      BY <2>1 DEF Moves
    <3> QED
      BY <2>1, <3>1, OneEffect
  <2> QED
    BY <1>5, <2>1, NoEffect DEF WaitRaises
<1>6. CASE Sweep
  <2> DEFINE cut == {s \in Steps : claim[s] = "left" /\ job[s] \in Active}
             shown == [s \in Steps |-> IF s \in cut THEN "interrupted" ELSE step[s]]
  <2>1. /\ job' = [s \in Steps |-> IF s \in cut THEN "interrupted" ELSE job[s]]
        /\ Show(shown)
    BY <1>6 DEF Sweep
  <2>2. shown \in [Steps -> Shown] /\ job' \in [Steps -> Statuses]
    BY <2>1 DEF TypeOK
  <2>3. \A s \in Steps : Moves(s)
    BY <2>1 DEF Show, Moves
  <2> QED
    BY <2>1, <2>2, <2>3, ShowKeeps DEF Effect
<1>7. ASSUME NEW s \in Steps, Complete(s) PROVE Effect
  <2>1. job'[s] = "complete" /\ step'[s] = "complete" => Moves(s)
    BY <1>7 DEF Complete, Moves
  <2> QED
    BY <1>7, <2>1, OneEffect DEF Complete
<1>8. ASSUME NEW s \in Steps, BodyFails(s) \/ BodyStops(s) \/ SleepEnds(s) PROVE Effect
  BY <1>8, NoEffect DEF BodyFails, BodyStops, SleepEnds
<1>9. ASSUME NEW s \in Steps, Ends(s) PROVE Effect
  <2>1. CASE job[s] = "running" /\ job' = [job EXCEPT ![s] = "cancelled"]
             /\ ShowOne(s, "cancelled")
    <3>1. job'[s] = "cancelled" /\ step'[s] = "cancelled" => Moves(s)
      BY <2>1 DEF Moves
    <3> QED
      BY <2>1, <3>1, OneEffect
  <2> QED
    BY <1>9, <2>1, NoEffect, FailEffect DEF Ends, Mine
<1>10. ASSUME NEW s \in Steps, EndsUnreleased(s) \/ EndsUnwritten(s) PROVE Effect
  BY <1>10, NoEffect, FailEffect DEF EndsUnreleased, EndsUnwritten
<1>11. ASSUME NEW s \in Steps, Cancel(s) PROVE Effect
  <2>1. job'[s] = "cancelled" /\ step'[s] = "cancelled" => Moves(s)
    BY <1>11 DEF Cancel, Moves
  <2> QED
    BY <1>11, <2>1, OneEffect DEF Cancel
<1>12. ASSUME NEW s \in Steps, Retry(s) PROVE Effect
  <2>1. job'[s] = "queued" /\ step'[s] = "queued" => Moves(s)
    BY <1>12, PlanBounds DEF Retry, Moves, TypeOK
  <2> QED
    BY <1>12, <2>1, OneEffect DEF Retry
<1>13. CASE Boot
  <2> DEFINE shown == [s \in Steps |-> IF job[s] = "running" THEN "interrupted"
                                      ELSE IF job[s] = "queued" THEN "queued" ELSE step[s]]
  <2>1. /\ job' = [s \in Steps |-> IF job[s] = "running" THEN "interrupted" ELSE job[s]]
        /\ Show(shown)
    BY <1>13 DEF Boot
  <2>2. shown \in [Steps -> Shown] /\ job' \in [Steps -> Statuses]
    BY <2>1 DEF TypeOK
  <2>3. \A s \in Steps : Moves(s)
    BY <2>1 DEF Show, Moves
  <2> QED
    BY <2>1, <2>2, <2>3, ShowKeeps DEF Effect
<1>14. CASE Close \/ Closed \/ Crash \/ UNCHANGED vars \/ \E s \in Steps : CancelRefused(s)
  BY <1>14, NoEffect DEF Close, Closed, Crash, Down, vars, CancelRefused
<1>15. ASSUME NEW s \in Steps, CrashClaiming(s) PROVE Effect
  <2>1. job'[s] = "running" /\ step'[s] = "queued" => Moves(s)
    BY <1>15 DEF CrashClaiming, InTurn, Eligible, Moves
  <2> QED
    BY <1>15, <2>1, OneEffect DEF CrashClaiming
<1> QED
  BY <1>1, <1>2, <1>3, <1>4, <1>5, <1>6, <1>7, <1>8, <1>9, <1>10, <1>11, <1>12, <1>13, <1>14,
     <1>15
  DEF Next, Run, Refusal

--------------------------------------------------------------------------------
(* Types.                                                                       *)

(* What else a failure changes keeps its type; an automatic retry is spent only *)
(* while one is left.                                                           *)
LEMMA FailTypes ==
    ASSUME TypeOK, NEW s \in Steps, NEW freed \in {"none", "held", "left"}, Fail(s, freed)
    PROVE  /\ claim' \in [Steps -> {"none", "held", "left"}]
           /\ ahead' \in SUBSET (Steps \X Steps)
           /\ used' \in [Steps -> Nat] /\ \A t \in Steps : used'[t] <= Limit[t]
           /\ pending' \in [Steps -> BOOLEAN]
<1>1. claim' \in [Steps -> {"none", "held", "left"}]
  BY DEF Fail, TypeOK
<1>2. ToTail(s) \in SUBSET (Steps \X Steps)
  BY DEF ToTail, TypeOK
<1>3. CASE Retryable(s) /\ used' = [used EXCEPT ![s] = @ + 1]
           /\ pending' = [pending EXCEPT ![s] = TRUE]
  <2>1. used[s] \in Nat /\ Limit[s] \in Nat /\ used[s] < Limit[s]
    BY <1>3, LimitAssumption DEF Retryable, TypeOK
  <2>2. used' \in [Steps -> Nat] /\ \A t \in Steps : used'[t] <= Limit[t]
    BY <1>3, <2>1 DEF TypeOK
  <2>3. pending' \in [Steps -> BOOLEAN]
    BY <1>3 DEF TypeOK
  <2>4. ahead' \in SUBSET (Steps \X Steps)
    BY <1>2 DEF Fail, TypeOK
  <2> QED
    BY <1>1, <2>2, <2>3, <2>4
<1>4. CASE UNCHANGED budget
  BY <1>1, <1>2, <1>4 DEF Fail, budget, TypeOK
<1> QED
  BY <1>3, <1>4 DEF Fail

(* Every step keeps the types.                                                  *)
LEMMA TypeStep == TypeOK /\ [Next]_vars => TypeOK'
<1> SUFFICES ASSUME TypeOK, [Next]_vars PROVE TypeOK'
  OBVIOUS
<1>a. job' \in [Steps -> Statuses] /\ step' \in [Steps -> Shown] /\ plan' \in [Plans -> Summaries]
  BY EffectStep DEF Effect
<1> USE <1>a, PlanBounds, StatusFacts DEF rows, budget, task, counts
<1>1. ASSUME NEW s \in Steps, Poll(s) PROVE TypeOK'
  BY <1>1 DEF Poll, TypeOK
<1>2. ASSUME NEW s \in Steps, Claim(s) PROVE TypeOK'
  BY <1>2 DEF Claim, TypeOK
<1>3. ASSUME NEW s \in Steps, ClaimFails(s) PROVE TypeOK'
  BY <1>3 DEF ClaimFails, LeaveLease, Refuse, TypeOK
<1>4. ASSUME NEW s \in Steps, WaitEnds(s) \/ SleepEnds(s) PROVE TypeOK'
  BY <1>4 DEF WaitEnds, SleepEnds, Goto, TypeOK
<1>5. ASSUME NEW s \in Steps, WaitRaises(s) PROVE TypeOK'
  BY <1>5 DEF WaitRaises, Goto, Refuse, TypeOK
<1>6. CASE Sweep
  BY <1>6 DEF Sweep, TypeOK
<1>7. ASSUME NEW s \in Steps, Complete(s) PROVE TypeOK'
  BY <1>7 DEF Complete, LeaveLease, TypeOK
<1>8. ASSUME NEW s \in Steps, BodyFails(s) \/ BodyStops(s) PROVE TypeOK'
  BY <1>8 DEF BodyFails, BodyStops, LeaveLease, TypeOK
<1>9. ASSUME NEW s \in Steps, Ends(s) PROVE TypeOK'
  <2>1. /\ stage' \in [Steps -> Stages] /\ way' \in [Steps -> {"done", "failed", "cancelled"}]
        /\ stopping' \in SUBSET Steps
    BY <1>9 DEF Ends, Return, Goto, TypeOK
  <2>2. CASE Fail(s, "none")
    BY <1>9, <2>1, <2>2, FailTypes DEF Ends, TypeOK
  <2>3. CASE UNCHANGED <<ahead, budget>> /\ claim' = [claim EXCEPT ![s] = "none"]
    BY <1>9, <2>1, <2>3 DEF Ends, TypeOK
  <2> QED
    BY <1>9, <2>2, <2>3 DEF Ends
<1>10. ASSUME NEW s \in Steps, EndsUnreleased(s) PROVE TypeOK'
  <2>1. /\ stage' \in [Steps -> Stages] /\ way' \in [Steps -> {"done", "failed", "cancelled"}]
        /\ stopping' \in SUBSET Steps
    BY <1>10 DEF EndsUnreleased, Return, Goto, TypeOK
  <2>2. Freed(s) \in {"none", "held", "left"}
    BY DEF Freed, TypeOK
  <2>3. CASE Fail(s, Freed(s))
    BY <1>10, <2>1, <2>2, <2>3, FailTypes DEF EndsUnreleased, Refuse, TypeOK
  <2>4. CASE UNCHANGED <<ahead, budget>> /\ claim' = [claim EXCEPT ![s] = Freed(s)]
    BY <1>10, <2>1, <2>2, <2>4 DEF EndsUnreleased, Refuse, TypeOK
  <2> QED
    BY <1>10, <2>3, <2>4 DEF EndsUnreleased
<1>11. ASSUME NEW s \in Steps, EndsUnwritten(s) PROVE TypeOK'
  BY <1>11 DEF EndsUnwritten, Goto, Refuse, TypeOK
<1>12. ASSUME NEW s \in Steps, Cancel(s) \/ CancelRefused(s) PROVE TypeOK'
  BY <1>12 DEF Cancel, CancelRefused, Refuse, TypeOK
<1>13. ASSUME NEW s \in Steps, Retry(s) PROVE TypeOK'
  BY <1>13 DEF Retry, ToTail, TypeOK
<1>14. CASE Close
  BY <1>14 DEF Close, TypeOK
<1>15. CASE Closed \/ Crash
  BY <1>15 DEF Closed, Crash, Down, Die, TypeOK
<1>16. CASE Boot
  BY <1>16 DEF Boot, TypeOK
<1>17. CASE UNCHANGED vars
  BY <1>17 DEF vars, TypeOK
<1>18. ASSUME NEW s \in Steps, CrashClaiming(s) PROVE TypeOK'
  BY <1>18 DEF CrashClaiming, Die, TypeOK
<1> QED
  BY <1>1, <1>2, <1>3, <1>4, <1>5, <1>6, <1>7, <1>8, <1>9, <1>10, <1>11, <1>12, <1>13, <1>14,
     <1>15, <1>16, <1>17, <1>18
  DEF Next, Run, Refusal

(* Every variable keeps its type, and no run spends more automatic retries than *)
(* it was accepted with.                                                        *)
THEOREM TypeCorrect == Spec => []TypeOK
<1>1. Init => TypeOK
  BY PlanBounds, LimitAssumption, StatusFacts DEF Init, TypeOK
<1> QED
  BY <1>1, TypeStep, PTL DEF Spec

--------------------------------------------------------------------------------
(* Rows.                                                                        *)

(* The plans agree from the start: each has a step, and all are queued.         *)
LEMMA InitRows == Init => RowsAgree
<1> SUFFICES ASSUME Init PROVE RowsAgree
  OBVIOUS
<1>1. ASSUME NEW p \in Plans PROVE plan[p] = Derived(p, step)
  <2>1. {step[s] : s \in {t \in Steps : PlanOf[t] = p}} = {"queued"}
    BY PlanAssumption DEF Init
  <2> QED
    BY <2>1 DEF Init, Derived
<1> QED
  BY <1>1, StatusFacts DEF Init, RowsAgree

(* Every effect keeps the rows in agreement.                                    *)
LEMMA RowsStep == RowsAgree /\ Effect => RowsAgree'
<1> SUFFICES ASSUME RowsAgree, Effect PROVE RowsAgree'
  OBVIOUS
<1>1. PlansAgree'
  BY DEF Effect, PlansAgree, RowsAgree
<1>2. ASSUME NEW s \in Steps
      PROVE  /\ job'[s] \in Settled => step'[s] = job'[s]
             /\ job'[s] = "queued" => step'[s] \in {"queued", "blocked"}
             /\ job'[s] = "running" => step'[s] \in {"queued", "running"}
  BY StatusFacts DEF Effect, Moves, RowsAgree
<1> QED
  BY <1>1, <1>2 DEF PlansAgree, RowsAgree

(* Jobs, steps and plans agree after every transaction.                         *)
THEOREM RowsAlwaysAgree == Spec => []RowsAgree
<1> QED
  BY InitRows, RowsStep, EffectStep, TypeCorrect, PTL DEF Spec

(* No dependency of a step that runs or is complete is taken back: a step shown *)
(* as complete has a complete job, and nothing moves that.                      *)
LEMMA FedStep == TypeOK /\ RowsAgree /\ FedForGood /\ Effect => FedForGood'
<1> SUFFICES ASSUME TypeOK, RowsAgree, FedForGood, Effect,
                    NEW s \in Steps, job'[s] \in {"running", "complete"}, NEW d \in Deps[s]
             PROVE  job'[d] = "complete"
  BY DEF FedForGood
<1>1. d \in Steps
  BY DepsAssumption
<1>2. job[s] \in {"running", "complete"} \/ Fed(s)
  BY StatusFacts DEF Effect, Moves
<1>3. job[d] = "complete"
  BY <1>1, <1>2, StatusFacts DEF FedForGood, Fed, RowsAgree, TypeOK
<1> QED
  BY <1>1, <1>3, StatusFacts DEF Effect, Moves

(* A step that runs or has run to its end has what it needs for good.           *)
THEOREM StepsFedForGood == Spec => []FedForGood
<1>1. Init => FedForGood
  BY DEF Init, FedForGood
<1> QED
  BY <1>1, FedStep, EffectStep, RowsAlwaysAgree, TypeCorrect, PTL DEF Spec

(* Nothing but the person's retry revives what is settled, and nothing at all   *)
(* what is complete.                                                            *)
THEOREM SettledStay == Spec => SettledStays
<1>1. Effect => \A s \in Steps :
          /\ job[s] = "complete" => job'[s] = "complete"
          /\ job[s] \in Unsuccessful =>
              \/ job'[s] \in {job[s], "cancelled"}
              \/ job'[s] = "queued" /\ retries' # retries
  BY StatusFacts DEF Effect, Moves
<1> QED
  BY <1>1, EffectStep, TypeCorrect, PTL DEF Spec, SettledStays

--------------------------------------------------------------------------------
(* The slot and its claim.                                                      *)

HasSlot(s) == claim[s] = "held" \/ stage[s] \in InLease

(* One step at a time holds a claim or is inside its lease.                     *)
SlotExclusive == \A s, t \in Steps : HasSlot(s) /\ HasSlot(t) => s = t

(* A claim is held inside the lease only, and a task inside its lease whose row *)
(* runs holds it: the guarded writes of its end find the attempt it began, and  *)
(* no other.                                                                    *)
OwnAttempt ==
    \A s \in Steps : /\ claim[s] = "held" => stage[s] \in InLease
                     /\ stage[s] \in InLease /\ Mine(s) => claim[s] = "held"

(* Who waits has no running row, and a stopped process has no tasks.            *)
PhaseInv ==
    /\ \A s \in Steps : stage[s] \in {"waiting", "sleeping"} => job[s] # "running"
    /\ up = "closing" => \A s \in Steps : stage[s] = "waiting" => s \in stopping
    /\ up = "down" => \A s \in Steps : ~Live(s) /\ s \notin stopping

SlotInv == SlotExclusive /\ OwnAttempt /\ PhaseInv

(* What a failure writes, whatever the release has left: the row stays as it is *)
(* unless it runs.                                                              *)
LEMMA FailWrites ==
    ASSUME TypeOK, NEW s \in Steps, NEW freed, Fail(s, freed)
    PROVE  /\ \A t \in Steps \ {s} : job'[t] = job[t] /\ claim'[t] = claim[t]
           /\ claim'[s] \in {freed, "none"}
           /\ job'[s] # "running"
           /\ job'[s] # job[s] => job[s] = "running" /\ job'[s] \in {"queued", "failed"}
           /\ job'[s] = "queued" /\ job[s] = "running" => pending'[s]
<1>1. CASE Mine(s) /\ Retryable(s)
  <2>1. /\ job' = [job EXCEPT ![s] = "queued"] /\ claim' = [claim EXCEPT ![s] = "none"]
        /\ pending' = [pending EXCEPT ![s] = TRUE]
    BY <1>1 DEF Fail
  <2> QED
    BY <1>1, <2>1 DEF Mine, TypeOK
<1>2. CASE Mine(s) /\ ~Retryable(s)
  <2>1. /\ job' = [job EXCEPT ![s] = "failed"] /\ claim' = [claim EXCEPT ![s] = freed]
    BY <1>2 DEF Fail
  <2> QED
    BY <1>2, <2>1 DEF Mine, TypeOK
<1>3. CASE ~Mine(s)
  <2>1. job' = job /\ claim' = [claim EXCEPT ![s] = freed]
    BY <1>3 DEF Fail
  <2>2. \A t \in Steps : job'[t] = job[t]
    BY <2>1
  <2>3. claim'[s] = freed /\ \A t \in Steps \ {s} : claim'[t] = claim[t]
    BY <2>1 DEF TypeOK
  <2> QED
    BY <1>3, <2>2, <2>3 DEF Mine
<1> QED
  BY <1>1, <1>2, <1>3

(* Every step keeps the slot exclusive and the claim with its task.             *)
LEMMA SlotStep == TypeOK /\ SlotInv /\ [Next]_vars => SlotInv'
<1> SUFFICES ASSUME TypeOK, SlotInv, [Next]_vars PROVE SlotInv'
  OBVIOUS
<1> USE StatusFacts DEF SlotInv, SlotExclusive, OwnAttempt, PhaseInv, HasSlot, Mine, Live, InLease,
                        TypeOK, rows, budget, task, counts
<1>1. ASSUME NEW s \in Steps, Poll(s) PROVE SlotInv'
  BY <1>1 DEF Poll
<1>2. ASSUME NEW s \in Steps, Claim(s) \/ ClaimFails(s) PROVE SlotInv'
  BY <1>2 DEF Claim, ClaimFails, LeaveLease, InTurn, SlotFree
<1>3. ASSUME NEW s \in Steps, WaitEnds(s) \/ WaitRaises(s) \/ SleepEnds(s) PROVE SlotInv'
  BY <1>3 DEF WaitEnds, WaitRaises, SleepEnds, Goto
<1>4. CASE Sweep
  BY <1>4 DEF Sweep
<1>5. ASSUME NEW s \in Steps, Complete(s) \/ BodyFails(s) \/ BodyStops(s) PROVE SlotInv'
  BY <1>5 DEF Complete, BodyFails, BodyStops, At, LeaveLease
<1>6. ASSUME NEW s \in Steps, Ends(s) \/ EndsUnreleased(s) \/ EndsUnwritten(s) PROVE SlotInv'
  <2>1. \A t \in Steps \ {s} : /\ job'[t] = job[t] /\ claim'[t] = claim[t]
                               /\ stage'[t] = stage[t] /\ (t \in stopping' <=> t \in stopping)
    BY <1>6, FailWrites DEF Ends, EndsUnreleased, EndsUnwritten, Return, Goto
  <2>2. /\ claim'[s] # "held" /\ stage'[s] \in {"none", "sleeping"}
        /\ stage'[s] = "sleeping" => job'[s] # "running"
    BY <1>6, FailWrites DEF Ends, EndsUnreleased, EndsUnwritten, Return, Goto, Freed
  <2>3. up' = up /\ up # "down"
    BY <1>6 DEF Ends, EndsUnreleased, EndsUnwritten, Serving
  <2> QED
    BY <2>1, <2>2, <2>3
<1>7. ASSUME NEW s \in Steps, Cancel(s) \/ CancelRefused(s) PROVE SlotInv'
  BY <1>7 DEF Cancel, CancelRefused
<1>8. ASSUME NEW s \in Steps, Retry(s) PROVE SlotInv'
  BY <1>8 DEF Retry
<1>9. CASE Close \/ Closed \/ Crash \/ \E s \in Steps : CrashClaiming(s)
  BY <1>9 DEF Close, Closed, Crash, CrashClaiming, Down, Die, InTurn
<1>10. CASE Boot
  BY <1>10 DEF Boot
<1>11. CASE UNCHANGED vars
  BY <1>11 DEF vars
<1> QED
  BY <1>1, <1>2, <1>3, <1>4, <1>5, <1>6, <1>7, <1>8, <1>9, <1>10, <1>11 DEF Next, Run, Refusal

(* Two steps never work at once, and the task that ends settles its own attempt *)
(* or none: no retry, sweep or restart meanwhile has given the row to another.  *)
THEOREM TasksSettleTheirOwn == Spec => [](SlotExclusive /\ OwnAttempt)
<1>1. Init => SlotInv
  BY DEF Init, SlotInv, SlotExclusive, OwnAttempt, PhaseInv, HasSlot, InLease
<1> QED
  BY <1>1, SlotStep, TypeCorrect, PTL DEF Spec, SlotInv

--------------------------------------------------------------------------------
(* Nobody is stranded, and somebody can always move.                            *)

(* Neither a refused write nor a retry of the person so far.                    *)
Calm == refusals = 0 /\ retries = 0

(* In a calm run the program that is up serves every row that is not over: a    *)
(* cancelled task's row is settled, a queued one's task waits or will, a        *)
(* running one's is inside its lease, and what it settled there stays.          *)
ServedInv ==
    up = "up" /\ Calm => \A s \in Steps :
        /\ s \in stopping => job[s] \in Settled
        /\ job[s] = "queued" => stage[s] \in {"waiting", "sleeping"}
        /\ job[s] = "running" => stage[s] \in InLease
        /\ stage[s] = "exit" /\ way[s] # "failed" => job[s] \in Settled

(* Every step keeps that.                                                       *)
LEMMA ServedStep == TypeOK /\ SlotInv /\ ServedInv /\ [Next]_vars => ServedInv'
<1> SUFFICES ASSUME TypeOK, SlotInv, ServedInv, [Next]_vars PROVE ServedInv'
  OBVIOUS
<1> USE StatusFacts DEF ServedInv, Calm, Live, InLease, TypeOK, rows, budget, task, counts
<1>1. ASSUME NEW s \in Steps, Poll(s) PROVE ServedInv'
  BY <1>1 DEF Poll
<1>2. ASSUME NEW s \in Steps, Claim(s) PROVE ServedInv'
  BY <1>2 DEF Claim
<1>3. ASSUME NEW s \in Steps, WaitEnds(s) PROVE ServedInv'
  <2>1. \A t \in Steps \ {s} : job'[t] = job[t] /\ stage'[t] = stage[t] /\ way'[t] = way[t]
    BY <1>3 DEF WaitEnds, Goto
  <2>2. stage'[s] = "none" /\ s \notin stopping' /\ stopping' \subseteq stopping
    BY <1>3 DEF WaitEnds, Goto
  <2>3. up = "up" /\ Calm => job'[s] \in Settled
    BY <1>3 DEF WaitEnds
  <2> QED
    BY <1>3, <2>1, <2>2, <2>3 DEF WaitEnds
<1>4. ASSUME NEW s \in Steps, SleepEnds(s) PROVE ServedInv'
  BY <1>4 DEF SleepEnds, Goto
<1>5. CASE Sweep
  <2>1. \A s \in Steps : job'[s] \in {job[s], "interrupted"}
    BY <1>5 DEF Sweep
  <2> QED
    BY <1>5, <2>1 DEF Sweep
<1>6. ASSUME NEW s \in Steps, Complete(s) \/ BodyFails(s) \/ BodyStops(s) PROVE ServedInv'
  BY <1>6 DEF Complete, BodyFails, BodyStops, At, LeaveLease
<1>7. ASSUME NEW s \in Steps, Ends(s) PROVE ServedInv'
  <2>1. \A t \in Steps \ {s} : job'[t] = job[t] /\ stage'[t] = stage[t] /\ way'[t] = way[t]
    BY <1>7, FailWrites DEF Ends, Return, Goto
  <2>2. /\ s \notin stopping' /\ stopping' \subseteq stopping /\ stage'[s] \in {"none", "sleeping"}
        /\ UNCHANGED <<up, counts>>
    BY <1>7 DEF Ends, Return, Goto
  <2>3. CASE "done" \in HowLeft(s) /\ UNCHANGED job
    BY <1>7, <2>1, <2>2, <2>3 DEF Ends, HowLeft
  <2>4. CASE Fail(s, "none") /\ Return(s)
    <3>1. up = "up" /\ Calm => job'[s] \in Settled \/ (job'[s] = "queued" /\ pending'[s])
      <4>1. up = "up" /\ Calm => job[s] # "queued"
        BY <1>7 DEF Ends
      <4>2. /\ job'[s] # "running"
            /\ job'[s] # job[s] => job[s] = "running" /\ job'[s] \in {"queued", "failed"}
            /\ job'[s] = "queued" /\ job[s] = "running" => pending'[s]
        BY <2>4, FailWrites
      <4> QED
        BY <4>1, <4>2
    <3>2. job'[s] = "queued" /\ pending'[s] => stage'[s] = "sleeping"
      BY <2>4 DEF Return, Goto
    <3> QED
      BY <2>1, <2>2, <3>1, <3>2
  <2>5. CASE "cancelled" \in HowLeft(s) /\ (Mine(s) => job' = [job EXCEPT ![s] = "cancelled"])
             /\ (~Mine(s) => job' = job)
    <3>1. up = "up" /\ Calm => job'[s] \in Settled
      BY <1>7, <2>5 DEF Ends, Mine
    <3> QED
      BY <2>1, <2>2, <3>1
  <2> QED
    BY <1>7, <2>3, <2>4, <2>5 DEF Ends
<1>8. ASSUME NEW s \in Steps, Refusal(s) PROVE ServedInv'
  BY <1>8 DEF Refusal, ClaimFails, WaitRaises, EndsUnreleased, EndsUnwritten, CancelRefused, Refuse
<1>9. ASSUME NEW s \in Steps, Cancel(s) PROVE ServedInv'
  BY <1>9 DEF Cancel
<1>10. ASSUME NEW s \in Steps, Retry(s) PROVE ServedInv'
  BY <1>10 DEF Retry
<1>11. CASE Close \/ Closed \/ Crash \/ \E s \in Steps : CrashClaiming(s)
  BY <1>11 DEF Close, Closed, Crash, CrashClaiming, Down, Die
<1>12. CASE Boot
  BY <1>12 DEF Boot, SlotInv, PhaseInv
<1>13. CASE UNCHANGED vars
  BY <1>13 DEF vars
<1> QED
  BY <1>1, <1>2, <1>3, <1>4, <1>5, <1>6, <1>7, <1>8, <1>9, <1>10, <1>11, <1>12, <1>13
  DEF Next, Run

(* Work nobody serves.                                                          *)
Unserved(s) == up = "up" /\ ~Live(s) /\ job[s] \in Active

(* Work is left without a task only by a write that was refused or by a retry   *)
(* that found the old task still ending: Stranded's last conjunct hides nothing.*)
NothingElseStrands == \A s \in Steps : Unserved(s) => Stranded(s)

(* So it is in every state: nothing but what NothingElseStrands names leaves    *)
(* a step behind.                                                               *)
THEOREM StrandedOnlySo == Spec => []NothingElseStrands
<1>1. Init => SlotInv /\ ServedInv
  BY DEF Init, SlotInv, SlotExclusive, OwnAttempt, PhaseInv, HasSlot, InLease, ServedInv
<1>2. TypeOK /\ ServedInv => NothingElseStrands
  BY StatusFacts
  DEF TypeOK, ServedInv, NothingElseStrands, Unserved, Stranded, Calm, Live, InLease
<1> QED
  BY <1>1, <1>2, TypeCorrect, SlotStep, ServedStep, PTL DEF Spec

(* The queue is in order, and no step waits for itself through others: the      *)
(* order in which the plans were accepted has every dependency first.           *)
OrderInv ==
    /\ StrictOrder(ahead, Steps)
    /\ \E accepted \in SUBSET (Steps \X Steps) :
           /\ StrictOrder(accepted, Steps)
           /\ \A s \in Steps : \A d \in Deps[s] : <<d, s>> \in accepted

(* What was accepted first stays so; a retry moves one step to the tail.        *)
LEMMA OrderStep == TypeOK /\ OrderInv /\ [Next]_vars => OrderInv'
<1> SUFFICES ASSUME TypeOK, OrderInv, [Next]_vars PROVE OrderInv'
  OBVIOUS
<1>1. ahead' = ahead \/ \E s \in Steps : ahead' = ToTail(s)
  <2>1. ASSUME NEW s \in Steps,
               Poll(s) \/ Run(s) \/ Refusal(s) \/ Cancel(s) \/ Retry(s) \/ CrashClaiming(s)
        PROVE  ahead' \in {ahead, ToTail(s)}
    BY <2>1
    DEF Poll, Run, Claim, WaitEnds, Complete, BodyFails, BodyStops, Ends, SleepEnds, Refusal,
        ClaimFails, WaitRaises, EndsUnreleased, EndsUnwritten, CancelRefused, Cancel, Retry, Fail,
        CrashClaiming, rows
  <2>2. CASE Sweep \/ Close \/ Closed \/ Crash \/ Boot \/ UNCHANGED vars
    BY <2>2 DEF Sweep, Close, Closed, Crash, Down, Boot, vars, rows
  <2> QED
    BY <2>1, <2>2 DEF Next
<1>2. ASSUME NEW s \in Steps PROVE StrictOrder(ToTail(s), Steps)
  BY LastKeepsOrder DEF OrderInv, ToTail
<1>3. StrictOrder(ahead', Steps)
  BY <1>1, <1>2 DEF OrderInv
<1> QED
  BY <1>3 DEF OrderInv, StrictOrder

(* The guards of a task's steps.                                                *)
Movable(s) ==
    \/ stage[s] \in InLease \cup {"sleeping"}
    \/ stage[s] = "waiting" /\ s \in stopping
    \/ stage[s] = "waiting" /\ job[s] \in Settled
    \/ stage[s] = "waiting" /\ \E k \in Steps : claim[k] = "left"
    \/ stage[s] = "waiting" /\ InTurn(s) /\ SlotFree

Needs(s, what) == \E d \in Deps[s] : job[d] \in what

(* When the program is up, no task can move and all work has its task, every    *)
(* queued step waits for one that is queued too or was unsuccessful, and at     *)
(* least one of them directly for an unsuccessful one.  While it closes, every  *)
(* task that is left can move.                                                  *)
NoStandstill ==
    /\ up = "up" /\ (\A s \in Steps : ~Movable(s) /\ ~Unserved(s)) =>
           /\ \A s \in Steps : job[s] = "queued" => Needs(s, Unsuccessful \cup {"queued"})
           /\ (\E s \in Steps : job[s] = "queued") =>
                  \E s \in Steps : job[s] = "queued" /\ Needs(s, Unsuccessful)
    /\ up = "closing" => \A s \in Steps : Live(s) => Movable(s)

(* If nothing can move, no lease is occupied and no claim is left.              *)
LEMMA NothingMoves ==
    ASSUME TypeOK, SlotInv, up = "up", \A s \in Steps : ~Movable(s) /\ ~Unserved(s)
    PROVE  /\ \A s \in Steps : job[s] # "running" /\ stage[s] \notin InLease
           /\ \A s \in Steps : job[s] = "queued" => stage[s] = "waiting" /\ s \notin stopping
           /\ (\E s \in Steps : job[s] = "queued") => \A s \in Steps : claim[s] = "none"
<1>1. \A s \in Steps : job[s] \in Active => stage[s] = "waiting"
  BY StatusFacts DEF TypeOK, Movable, Unserved, Live, InLease
<1>2. \A s \in Steps : job[s] # "running" /\ stage[s] \notin InLease
  BY <1>1, StatusFacts DEF SlotInv, PhaseInv, Movable
<1>3. \A s \in Steps : job[s] = "queued" => stage[s] = "waiting" /\ s \notin stopping
  BY <1>1, StatusFacts DEF Movable
<1>4. ASSUME NEW i \in Steps, job[i] = "queued", NEW s \in Steps PROVE claim[s] = "none"
  <2>1. claim[s] # "left"
    BY <1>3, <1>4 DEF Movable
  <2>2. claim[s] # "held"
    BY <1>2 DEF SlotInv, OwnAttempt
  <2> QED
    BY <2>1, <2>2 DEF TypeOK
<1> QED
  BY <1>2, <1>3, <1>4

(* The steps never all wait for each other: if all a queued step needs is       *)
(* complete, then the first such step of the queue has the slot; and among the  *)
(* queued steps the one accepted first waits for nothing that is queued.        *)
THEOREM NeverAllWaiting == Spec => []NoStandstill
<1>1. ASSUME TypeOK, RowsAgree, SlotInv, OrderInv, up = "up",
             \A s \in Steps : ~Movable(s) /\ ~Unserved(s)
      PROVE  \A s \in Steps : job[s] = "queued" => Needs(s, Unsuccessful \cup {"queued"})
  <2> SUFFICES ASSUME NEW i \in Steps, job[i] = "queued",
                      ~Needs(i, Unsuccessful \cup {"queued"})
               PROVE  FALSE
    OBVIOUS
  <2>1. /\ \A s \in Steps : job[s] # "running" /\ stage[s] \notin InLease
        /\ \A s \in Steps : job[s] = "queued" => stage[s] = "waiting" /\ s \notin stopping
        /\ \A s \in Steps : claim[s] = "none"
    BY <1>1, NothingMoves
  <2>2. \A d \in Deps[i] : d \in Steps /\ job[d] = "complete"
    BY <1>1, <2>1, DepsAssumption, StatusFacts DEF Needs, TypeOK
  <2>3. Eligible(i)
    BY <1>1, <2>1, <2>2, StatusFacts DEF Eligible, Fed, RowsAgree
  <2> DEFINE queue == {s \in Steps : Eligible(s)}
  <2>4. queue \subseteq Steps /\ i \in queue
    BY <2>3
  <2>5. PICK first \in queue : \A k \in queue : <<k, first>> \notin ahead
    <3> HIDE DEF queue
    <3> QED
      BY <1>1, <2>4, OrderHasFirst, FiniteAssumption DEF OrderInv
  <2>6. InTurn(first) /\ SlotFree
    BY <2>1, <2>5 DEF InTurn, SlotFree
  <2>7. stage[first] = "waiting"
    BY <2>1, <2>5 DEF Eligible
  <2> QED
    BY <1>1, <2>6, <2>7 DEF Movable
<1>2. ASSUME OrderInv, NEW i \in Steps, job[i] = "queued",
             \A s \in Steps : job[s] = "queued" => Needs(s, Unsuccessful \cup {"queued"})
      PROVE  \E s \in Steps : job[s] = "queued" /\ Needs(s, Unsuccessful)
  <2>1. PICK accepted \in SUBSET (Steps \X Steps) :
           /\ StrictOrder(accepted, Steps)
           /\ \A s \in Steps : \A d \in Deps[s] : <<d, s>> \in accepted
    BY <1>2 DEF OrderInv
  <2> DEFINE queue == {s \in Steps : job[s] = "queued"}
  <2>2. queue \subseteq Steps /\ i \in queue
    BY <1>2
  <2>3. PICK first \in queue : \A k \in queue : <<k, first>> \notin accepted
    <3> HIDE DEF queue
    <3> QED
      BY <2>1, <2>2, OrderHasFirst, FiniteAssumption
  <2>4. \A d \in Deps[first] : d \in Steps /\ job[d] # "queued"
    BY <2>1, <2>3, DepsAssumption
  <2>5. Needs(first, Unsuccessful)
    BY <1>2, <2>3, <2>4 DEF Needs
  <2> QED
    BY <2>3, <2>5
<1>3. ASSUME TypeOK, SlotInv, up = "closing", NEW s \in Steps, Live(s) PROVE Movable(s)
  BY <1>3, StatusFacts DEF TypeOK, SlotInv, PhaseInv, Live, Movable, InLease
<1>4. TypeOK /\ RowsAgree /\ SlotInv /\ OrderInv => NoStandstill
  BY <1>1, <1>2, <1>3 DEF NoStandstill
<1>5. Init => SlotInv
  BY DEF Init, SlotInv, SlotExclusive, OwnAttempt, PhaseInv, HasSlot, InLease
<1>6. Init => OrderInv
  BY DEF Init, OrderInv, StrictOrder
<1> QED
  BY <1>4, <1>5, <1>6, TypeCorrect, RowsAlwaysAgree, SlotStep, OrderStep, PTL DEF Spec
================================================================================
