--------------------------- MODULE UtilityJobsProofs ---------------------------
(* Proofs about UtilityJobs for any set of jobs and any bounds.                 *)
EXTENDS UtilityJobs, OrderFacts

--------------------------------------------------------------------------------
(* Types.                                                                       *)

(* The names the stages, statuses and phases come to.                           *)
LEMMA StageFacts ==
    /\ Stages = {"none", "waiting", "body", "store", "finish", "failing", "exit"}
    /\ Statuses = {"queued", "running", "complete", "failed", "cancelled", "interrupted"}
    /\ Phases = {"down", "booting", "resumed", "up", "closing"}
BY DEF Stages, InLease, Working, Statuses, Active, Finished, Unsuccessful, Phases

(* Every step keeps the types.                                                  *)
LEMMA TypeStep == TypeOK /\ [Next]_vars => TypeOK'
<1> SUFFICES ASSUME TypeOK, [Next]_vars PROVE TypeOK'
  OBVIOUS
<1> USE UtilityBounds, StageFacts DEF TypeOK, row, task, request, counts, Goto, Live
<1>1. ASSUME NEW j \in Jobs, Submit(j) PROVE TypeOK'
  BY <1>1 DEF Submit, StartTask, ToTail
<1>2. ASSUME NEW j \in Jobs, Retry(j) PROVE TypeOK'
  BY <1>2 DEF Retry, StartTask, ToTail
<1>3. ASSUME NEW j \in Jobs, CancelTask(j) \/ CancelRow(j) \/ CancelIdle(j) PROVE TypeOK'
  BY <1>3 DEF CancelTask, CancelRow, CancelIdle, MarkCancelled
<1>4. ASSUME NEW j \in Jobs, Sweep(j) PROVE TypeOK'
  BY <1>4 DEF Sweep, Abandoned
<1>5. ASSUME NEW j \in Jobs, Claim(j) PROVE TypeOK'
  BY <1>5 DEF Claim
<1>6. ASSUME NEW j \in Jobs, WaitEnds(j) \/ Release(j) PROVE TypeOK'
  BY <1>6 DEF WaitEnds, Release, TaskEnds
<1>7. ASSUME NEW j \in Jobs, BodyEnds(j) \/ Store(j) PROVE TypeOK'
  BY <1>7 DEF BodyEnds, Store
<1>8. ASSUME NEW j \in Jobs, Finish(j) \/ Fail(j) PROVE TypeOK'
  BY <1>8 DEF Finish, Fail
<1>9. ASSUME NEW j \in Jobs, Refusal(j) PROVE TypeOK'
  BY <1>9 DEF Refusal, SweepRefused, FinishRefused, FailRefused, ReleaseRefused, CancelRefused,
              Refuse, TaskEnds
<1>10. CASE CloseTasks \/ CloseRows \/ CloseRefused
  BY <1>10 DEF CloseTasks, CloseRows, CloseRefused, Refuse
<1>11. CASE Crash
  BY <1>11 DEF Crash
<1>12. CASE BootRows \/ BootClaims
  BY <1>12 DEF BootRows, BootClaims
<1>13. CASE BootJobs
  BY <1>13 DEF BootJobs, ToTail
<1>14. CASE UNCHANGED vars
  BY <1>14 DEF vars
<1> QED
  BY <1>1, <1>2, <1>3, <1>4, <1>5, <1>6, <1>7, <1>8, <1>9, <1>10, <1>11, <1>12, <1>13, <1>14
  DEF Next, Step

(* Every variable keeps its type, and only live tasks are being cancelled.      *)
THEOREM TypeCorrect == Spec => []TypeOK
<1>1. Init => TypeOK
  BY UtilityBounds, StageFacts DEF Init, TypeOK
<1> QED
  BY <1>1, TypeStep, PTL DEF Spec

--------------------------------------------------------------------------------
(* Work is undisturbed.                                                         *)

(* A request to cancel that resumes finds the attempt it read, or a newer one   *)
(* if the job was retried and claimed meanwhile: it then leaves the row alone.  *)
RequestInv ==
    \A j \in Jobs : /\ seen[j] <= attempt[j]
                    /\ ask[j] = "resume" /\ stage[j] \in Working => seen[j] # attempt[j]

(* Every step keeps that: a claim counts a new attempt.                         *)
LEMMA RequestStep == TypeOK /\ RequestInv /\ [Next]_vars => RequestInv'
<1> SUFFICES ASSUME TypeOK, RequestInv, [Next]_vars PROVE RequestInv'
  OBVIOUS
<1> USE DEF TypeOK, RequestInv, row, task, request, counts, Goto, Live, Working
<1>1. ASSUME NEW j \in Jobs, Submit(j) \/ Retry(j) PROVE RequestInv'
  BY <1>1 DEF Submit, Retry, StartTask
<1>2. ASSUME NEW j \in Jobs, CancelTask(j) \/ CancelRow(j) \/ CancelIdle(j) PROVE RequestInv'
  BY <1>2 DEF CancelTask, CancelRow, CancelIdle
<1>3. ASSUME NEW j \in Jobs, Sweep(j) \/ WaitEnds(j) \/ Release(j) PROVE RequestInv'
  BY <1>3 DEF Sweep, WaitEnds, Release, TaskEnds
<1>4. ASSUME NEW j \in Jobs, Claim(j) PROVE RequestInv'
  BY <1>4 DEF Claim
<1>5. ASSUME NEW j \in Jobs, BodyEnds(j) \/ Store(j) \/ Finish(j) \/ Fail(j) PROVE RequestInv'
  BY <1>5 DEF BodyEnds, Store, Finish, Fail
<1>6. ASSUME NEW j \in Jobs, Refusal(j) PROVE RequestInv'
  BY <1>6 DEF Refusal, SweepRefused, FinishRefused, FailRefused, ReleaseRefused, CancelRefused,
              Refuse, TaskEnds
<1>7. CASE CloseTasks \/ CloseRows \/ CloseRefused \/ Crash
  BY <1>7 DEF CloseTasks, CloseRows, CloseRefused, Refuse, Crash
<1>8. CASE BootRows \/ BootJobs \/ BootClaims
  BY <1>8 DEF BootRows, BootJobs, BootClaims
<1>9. CASE UNCHANGED vars
  BY <1>9 DEF vars
<1> QED
  BY <1>1, <1>2, <1>3, <1>4, <1>5, <1>6, <1>7, <1>8, <1>9 DEF Next, Step

(* No step of another job, a request or the process touches a row in work.      *)
LEMMA WorkStep == TypeOK /\ RequestInv /\ WorkUndisturbed /\ [Next]_vars => WorkUndisturbed'
<1> SUFFICES ASSUME TypeOK, RequestInv, WorkUndisturbed, [Next]_vars PROVE WorkUndisturbed'
  OBVIOUS
<1> USE DEF TypeOK, RequestInv, WorkUndisturbed, row, task, request, counts, Goto, Live,
            Working, Current, Serving
<1>1. ASSUME NEW j \in Jobs, Submit(j) \/ Retry(j) PROVE WorkUndisturbed'
  BY <1>1 DEF Submit, Retry, StartTask, Unsuccessful
<1>2. ASSUME NEW j \in Jobs, CancelTask(j) \/ CancelRow(j) \/ CancelIdle(j)
      PROVE  WorkUndisturbed'
  BY <1>2 DEF CancelTask, CancelRow, CancelIdle, MarkCancelled
<1>3. ASSUME NEW j \in Jobs, Sweep(j) PROVE WorkUndisturbed'
  BY <1>3 DEF Sweep, Abandoned, InLease
<1>4. ASSUME NEW j \in Jobs, WaitEnds(j) \/ Release(j) PROVE WorkUndisturbed'
  BY <1>4 DEF WaitEnds, Release, TaskEnds
<1>5. ASSUME NEW j \in Jobs, Claim(j) PROVE WorkUndisturbed'
  BY <1>5 DEF Claim, InLease
<1>6. ASSUME NEW j \in Jobs, BodyEnds(j) \/ Store(j) \/ Finish(j) \/ Fail(j)
      PROVE  WorkUndisturbed'
  BY <1>6 DEF BodyEnds, Store, Finish, Fail
<1>7. ASSUME NEW j \in Jobs, Refusal(j) PROVE WorkUndisturbed'
  BY <1>7 DEF Refusal, SweepRefused, FinishRefused, FailRefused, ReleaseRefused, CancelRefused,
              Refuse, TaskEnds
<1>8. CASE CloseTasks \/ CloseRows \/ CloseRefused \/ Crash
  BY <1>8 DEF CloseTasks, CloseRows, CloseRefused, Refuse, Crash
<1>9. CASE BootRows \/ BootJobs \/ BootClaims
  BY <1>9 DEF BootRows, BootJobs, BootClaims
<1>10. CASE UNCHANGED vars
  BY <1>10 DEF vars
<1> QED
  BY <1>1, <1>2, <1>3, <1>4, <1>5, <1>6, <1>7, <1>8, <1>9, <1>10 DEF Next, Step

(* From the claim to the last write of a task its row is running and claimed,   *)
(* whatever is cancelled, retried, swept, shut down or restarted meanwhile.     *)
THEOREM RowsUndisturbed == Spec => []WorkUndisturbed
<1>1. Init => RequestInv /\ WorkUndisturbed
  BY DEF Init, RequestInv, WorkUndisturbed, Working
<1> QED
  BY <1>1, TypeCorrect, RequestStep, WorkStep, PTL DEF Spec

--------------------------------------------------------------------------------
(* The ledger.                                                                  *)

(* A claimed row has been attempted, so that 0 may stand for no claim, and a    *)
(* job not yet added has none.                                                  *)
ClaimedInv == \A j \in claimed : attempt[j] # 0 /\ status[j] # "absent"

(* Every step keeps that.                                                       *)
LEMMA ClaimedStep == TypeOK /\ ClaimedInv /\ [Next]_vars => ClaimedInv'
<1> SUFFICES ASSUME TypeOK, ClaimedInv, [Next]_vars PROVE ClaimedInv'
  OBVIOUS
<1> USE DEF TypeOK, ClaimedInv, row, task, request, counts
<1>1. ASSUME NEW j \in Jobs, Submit(j) \/ Retry(j) PROVE ClaimedInv'
  BY <1>1 DEF Submit, Retry
<1>2. ASSUME NEW j \in Jobs, CancelTask(j) \/ CancelRow(j) \/ CancelIdle(j) PROVE ClaimedInv'
  BY <1>2 DEF CancelTask, CancelRow, CancelIdle, MarkCancelled
<1>3. ASSUME NEW j \in Jobs, Sweep(j) \/ WaitEnds(j) \/ Release(j) PROVE ClaimedInv'
  BY <1>3 DEF Sweep, WaitEnds, Release
<1>4. ASSUME NEW j \in Jobs, Claim(j) PROVE ClaimedInv'
  BY <1>4 DEF Claim
<1>5. ASSUME NEW j \in Jobs, BodyEnds(j) \/ Store(j) \/ Finish(j) \/ Fail(j) PROVE ClaimedInv'
  BY <1>5 DEF BodyEnds, Store, Finish, Fail
<1>6. ASSUME NEW j \in Jobs, Refusal(j) PROVE ClaimedInv'
  BY <1>6 DEF Refusal, SweepRefused, FinishRefused, FailRefused, ReleaseRefused, CancelRefused
<1>7. CASE CloseTasks \/ CloseRows \/ CloseRefused \/ Crash
  BY <1>7 DEF CloseTasks, CloseRows, CloseRefused, Crash
<1>8. CASE BootRows \/ BootJobs \/ BootClaims
  BY <1>8 DEF BootRows, BootJobs, BootClaims
<1>9. CASE UNCHANGED vars
  BY <1>9 DEF vars
<1> QED
  BY <1>1, <1>2, <1>3, <1>4, <1>5, <1>6, <1>7, <1>8, <1>9 DEF Next, Step

(* The row as the ledger sees it.                                               *)
Shown == [j \in Jobs |-> IF status[j] = "absent" THEN "queued" ELSE status[j]]

(* The ledger's names for sets of statuses.                                     *)
LEMMA LedgerNames ==
    /\ Ledger!Active = {"queued", "running"}
    /\ Ledger!Unsuccessful = {"failed", "cancelled", "interrupted"}
    /\ Ledger!Terminal = {"failed", "cancelled", "interrupted", "complete"}
    /\ Ledger!Outcomes = {"complete", "failed"}
BY DEF Ledger!Active, Ledger!Unsuccessful, Ledger!Terminal, Ledger!Outcomes

(* A step that leaves status, claims, attempts and results alone.               *)
LEMMA RowStutter ==
    ASSUME UNCHANGED <<status, claimed, attempt, result>>
    PROVE  UNCHANGED Ledger!ledger
BY DEF Ledger!ledger

(* Every step of the utility jobs is a step of the ledger or leaves it alone.   *)
LEMMA LedgerStep ==
    ASSUME TypeOK, ClaimedInv, [Next]_vars
    PROVE  [Ledger!LedgerNext]_Ledger!ledger
<1> DEFINE Goal == [Ledger!LedgerNext]_Ledger!ledger
<1> USE DEF TypeOK, ClaimedInv, row, task, request, counts
<1>1. ASSUME NEW j \in Jobs, Submit(j) PROVE Goal
  <2>1. Shown' = Shown
    BY <1>1 DEF Submit, Shown
  <2> QED
    BY <1>1, <2>1 DEF Submit, Shown, Ledger!ledger
<1>2. ASSUME NEW j \in Jobs, Retry(j) PROVE Goal
  <2>1. Ledger!Again({j})
    BY <1>2, LedgerNames DEF Retry, Ledger!Again, Unsuccessful
  <2> QED
    BY <2>1 DEF Ledger!LedgerNext
<1>3. ASSUME NEW j \in Jobs, MarkCancelled(j), UNCHANGED <<claimed, attempt, result>> PROVE Goal
  <2>1. CASE status[j] \in Finished
    BY <1>3, <2>1, RowStutter DEF MarkCancelled
  <2>2. CASE status[j] \notin Finished
    <3>1. Ledger!Withdraw(j)
      BY <1>3, <2>2, LedgerNames, StageFacts DEF MarkCancelled, Ledger!Withdraw, Finished
    <3> QED
      BY <3>1 DEF Ledger!LedgerNext
  <2> QED
    BY <2>1, <2>2
<1>4. ASSUME NEW j \in Jobs, CancelTask(j) \/ CancelRow(j) \/ CancelIdle(j) PROVE Goal
  BY <1>3, <1>4, RowStutter DEF CancelTask, CancelRow, CancelIdle
<1>5. ASSUME NEW j \in Jobs, Sweep(j) PROVE Goal
  <2>1. PICK swept \in SUBSET Jobs : swept = Abandoned
    BY DEF Abandoned
  <2>2. Ledger!Sweep(swept)
    BY <1>5, <2>1, LedgerNames DEF Sweep, Abandoned, Active, Ledger!Sweep
  <2> QED
    BY <2>2 DEF Ledger!LedgerNext
<1>6. ASSUME NEW j \in Jobs, Claim(j) PROVE Goal
  <2>1. Ledger!Take(j)
    BY <1>6 DEF Claim, Ledger!Take
  <2> QED
    BY <2>1 DEF Ledger!LedgerNext
<1>7. ASSUME NEW j \in Jobs, WaitEnds(j) \/ BodyEnds(j) \/ Store(j) PROVE Goal
  BY <1>7, RowStutter DEF WaitEnds, BodyEnds, Store
<1>8. ASSUME NEW j \in Jobs, NEW outcome \in {"complete", "failed"},
             Current(j),
             status' = [status EXCEPT ![j] = outcome],
             result' = [result EXCEPT ![j] = attempt[j]],
             UNCHANGED <<claimed, attempt>>
      PROVE  Goal
  <2>1. Ledger!Finish(j, outcome)
    BY <1>8 DEF Current, Ledger!Finish
  <2> QED
    BY <2>1, LedgerNames DEF Ledger!LedgerNext
<1>9. ASSUME NEW j \in Jobs, Finish(j) \/ Fail(j) PROVE Goal
  BY <1>8, <1>9, RowStutter DEF Finish, Fail
<1>10. ASSUME NEW j \in Jobs, Release(j) PROVE Goal
  <2>1. CASE j \in claimed
    <3>1. Ledger!Give(j)
      BY <1>10, <2>1 DEF Release, Ledger!Give
    <3> QED
      BY <3>1 DEF Ledger!LedgerNext
  <2>2. CASE j \notin claimed
    <3>1. claimed' = claimed
      BY <1>10, <2>2 DEF Release
    <3> QED
      BY <1>10, <3>1, RowStutter DEF Release
  <2> QED
    BY <2>1, <2>2
<1>11. ASSUME NEW j \in Jobs, Refusal(j) PROVE Goal
  BY <1>11, RowStutter DEF Refusal, SweepRefused, FinishRefused, FailRefused, ReleaseRefused,
                           CancelRefused
<1>12. CASE CloseTasks \/ CloseRefused \/ Crash
  BY <1>12, RowStutter DEF CloseTasks, CloseRefused, Crash
<1>13. CASE CloseRows
  <2>1. PICK left \in SUBSET Jobs : left = {j \in Jobs : status[j] \in Active}
    OBVIOUS
  <2>2. Ledger!Suspend(left)
    BY <1>13, <2>1, LedgerNames DEF CloseRows, Ledger!Suspend, Active
  <2> QED
    BY <2>2 DEF Ledger!LedgerNext
<1>14. CASE BootRows
  <2>1. PICK cleared \in SUBSET Jobs :
            cleared = {j \in Jobs : status[j] \in {"absent", "queued", "running"}}
    OBVIOUS
  <2>2. Ledger!Restart(cleared)
    BY <1>14, <2>1, LedgerNames, StageFacts DEF BootRows, Ledger!Restart, Active
  <2> QED
    BY <2>2 DEF Ledger!LedgerNext
<1>15. CASE BootJobs
  <2>1. PICK again \in SUBSET Jobs : again = {j \in Jobs \ claimed : status[j] = "interrupted"}
    OBVIOUS
  <2>2. Ledger!Again(again)
    BY <1>15, <2>1, LedgerNames DEF BootJobs, Ledger!Again
  <2> QED
    BY <2>2 DEF Ledger!LedgerNext
<1>16. CASE BootClaims
  <2>1. PICK swept \in SUBSET Jobs : swept = {j \in claimed : status[j] \notin Active}
    OBVIOUS
  <2>2. Ledger!Sweep(swept)
    BY <1>16, <2>1, LedgerNames DEF BootClaims, Ledger!Sweep, Active
  <2> QED
    BY <2>2 DEF Ledger!LedgerNext
<1>17. CASE UNCHANGED vars
  BY <1>17, RowStutter DEF vars
<1> QED
  BY <1>1, <1>2, <1>4, <1>5, <1>6, <1>7, <1>9, <1>10, <1>11, <1>12, <1>13, <1>14, <1>15, <1>16,
     <1>17
  DEF Next, Step

(* The utility jobs implement the ledger: no cancel, retry, shutdown or restart *)
(* takes a result back or leaves one of an attempt that was not the newest.     *)
THEOREM UtilityImplementsLedger == Spec => ImplementsLedger
<1>1. Init => Ledger!LedgerInit /\ ClaimedInv
  BY DEF Init, Ledger!LedgerInit, ClaimedInv
<1>2. TypeOK /\ ClaimedInv /\ [Next]_vars => [Ledger!LedgerNext]_Ledger!ledger
  BY LedgerStep
<1> QED
  BY <1>1, <1>2, TypeCorrect, ClaimedStep, PTL
  DEF Spec, ImplementsLedger, Ledger!LedgerSpec

--------------------------------------------------------------------------------
(* What the ledger promises, of the utility jobs.                               *)

Promise == INSTANCE JobLedgerProofs WITH
    status <- [j \in Jobs |-> IF status[j] = "absent" THEN "queued" ELSE status[j]],
    claim <- [j \in Jobs |-> IF j \in claimed THEN attempt[j] ELSE 0]

(* The two instances of the ledger, with its theorems and without, are one.     *)
LEMMA SameLedger ==
    /\ Ledger!LedgerInit => Promise!LedgerInit
    /\ [Ledger!LedgerNext]_Ledger!ledger => [Promise!LedgerNext]_Promise!ledger
BY DEF Ledger!LedgerInit, Promise!LedgerInit, Ledger!LedgerNext, Promise!LedgerNext,
       Ledger!ledger, Promise!ledger, Ledger!Take, Promise!Take, Ledger!Finish, Promise!Finish,
       Ledger!Give, Promise!Give, Ledger!Withdraw, Promise!Withdraw, Ledger!Sweep, Promise!Sweep,
       Ledger!Suspend, Promise!Suspend, Ledger!Again, Promise!Again, Ledger!Restart,
       Promise!Restart, Ledger!Active, Promise!Active, Ledger!Unsuccessful, Promise!Unsuccessful,
       Ledger!Terminal, Promise!Terminal, Ledger!Outcomes, Promise!Outcomes

(* What the ledger promises, the video jobs keep.                               *)
LEMMA UtilityKeepsPromise == Spec => Promise!LedgerSpec
<1> QED
  BY UtilityImplementsLedger, SameLedger, PTL
  DEF ImplementsLedger, Ledger!LedgerSpec, Promise!LedgerSpec

(* A row carries the outcome of its newest attempt exactly while it is complete *)
(* or failed.                                                                   *)
THEOREM UtilityResultsExact == Spec => []Promise!ResultsExact
<1>1. Promise!LedgerSpec => []Promise!ResultsExact
  BY Promise!ResultsAlwaysExact
<1> QED
  BY <1>1, UtilityKeepsPromise, PTL

(* No cancel request, sweep, shutdown or restart takes a success back.          *)
THEOREM UtilityKeepsSuccess == Spec => Promise!SuccessKept
<1>1. Promise!LedgerSpec => Promise!SuccessKept
  BY Promise!SuccessAlwaysKept
<1> QED
  BY <1>1, UtilityKeepsPromise, PTL

--------------------------------------------------------------------------------
(* One job at a time has the group's slot.                                      *)

Holds(j) == j \in claimed \/ stage[j] \in InLease

(* Jobs that hold a claim, or whose task is inside its lease, are at most one:  *)
(* ffmpeg never runs twice at once, and no claim is taken beside another.       *)
SlotExclusive == \A j, k \in Jobs : Holds(j) /\ Holds(k) => j = k

(* Startup takes the claims of unfinished rows before it runs any task, and     *)
(* requests are answered only while the program is up.                          *)
PhaseInv ==
    /\ up # "up" => \A j \in Jobs : ask[j] = "no"
    /\ up \in {"down", "booting"} => \A j \in Jobs : ~Live(j)
    /\ up \in {"booting", "resumed"} =>
           \A j \in Jobs : /\ status[j] # "running"
                           /\ j \in claimed => status[j] \notin Active
    /\ up = "resumed" => \A j \in Jobs : /\ stage[j] \in {"none", "waiting"}
                                         /\ j \notin stopping
                                         /\ status[j] = "queued" => stage[j] = "waiting"

(* While the program serves and no write was refused, a claim that stands is    *)
(* held by a task inside its lease.                                             *)
ClaimsHeld == Serving /\ refusals = 0 => \A j \in claimed : stage[j] \in InLease

(* Every step keeps the slot exclusive.                                         *)
LEMMA SlotStep == TypeOK /\ SlotExclusive /\ [Next]_vars => SlotExclusive'
<1> SUFFICES ASSUME TypeOK, SlotExclusive, [Next]_vars PROVE SlotExclusive'
  OBVIOUS
<1> USE DEF TypeOK, SlotExclusive, Holds, row, task, request, counts, Goto, Live, InLease, Working
<1>1. ASSUME NEW j \in Jobs, Submit(j) \/ Retry(j) PROVE SlotExclusive'
  BY <1>1 DEF Submit, Retry, StartTask
<1>2. ASSUME NEW j \in Jobs, CancelTask(j) \/ CancelRow(j) \/ CancelIdle(j) PROVE SlotExclusive'
  BY <1>2 DEF CancelTask, CancelRow, CancelIdle
<1>3. ASSUME NEW j \in Jobs, Sweep(j) \/ WaitEnds(j) \/ Release(j) PROVE SlotExclusive'
  BY <1>3 DEF Sweep, WaitEnds, Release, TaskEnds
<1>4. ASSUME NEW j \in Jobs, Claim(j) PROVE SlotExclusive'
  BY <1>4 DEF Claim
<1>5. ASSUME NEW j \in Jobs, BodyEnds(j) \/ Store(j) \/ Finish(j) \/ Fail(j) PROVE SlotExclusive'
  BY <1>5 DEF BodyEnds, Store, Finish, Fail
<1>6. ASSUME NEW j \in Jobs, Refusal(j) PROVE SlotExclusive'
  BY <1>6 DEF Refusal, SweepRefused, FinishRefused, FailRefused, ReleaseRefused, CancelRefused,
              TaskEnds
<1>7. CASE CloseTasks \/ CloseRows \/ CloseRefused \/ Crash
  BY <1>7 DEF CloseTasks, CloseRows, CloseRefused, Crash
<1>8. CASE BootRows \/ BootJobs \/ BootClaims
  BY <1>8 DEF BootRows, BootJobs, BootClaims
<1>9. CASE UNCHANGED vars
  BY <1>9 DEF vars
<1> QED
  BY <1>1, <1>2, <1>3, <1>4, <1>5, <1>6, <1>7, <1>8, <1>9 DEF Next, Step

(* The group's slot is never taken twice, whatever is refused, cancelled,       *)
(* crashed or restarted.                                                        *)
THEOREM SlotNeverShared == Spec => []SlotExclusive
<1>1. Init => SlotExclusive
  BY DEF Init, SlotExclusive, Holds, InLease, Working
<1> QED
  BY <1>1, TypeCorrect, SlotStep, PTL DEF Spec

(* Every step keeps what startup relies on.                                     *)
LEMMA PhaseStep == TypeOK /\ WorkUndisturbed /\ PhaseInv /\ [Next]_vars => PhaseInv'
<1> SUFFICES ASSUME TypeOK, WorkUndisturbed, PhaseInv, [Next]_vars PROVE PhaseInv'
  OBVIOUS
<1> USE StageFacts DEF TypeOK, PhaseInv, row, task, request, counts, Goto, Live, Serving
<1>1. ASSUME NEW j \in Jobs, Submit(j) \/ Retry(j) \/ CancelTask(j) \/ CancelRow(j)
             \/ CancelIdle(j)
      PROVE  PhaseInv'
  BY <1>1 DEF Submit, Retry, CancelTask, CancelRow, CancelIdle
<1>2. ASSUME NEW j \in Jobs, Sweep(j) \/ Claim(j) \/ WaitEnds(j) \/ Release(j)
      PROVE  PhaseInv'
  BY <1>2 DEF Sweep, Claim, WaitEnds, Release, TaskEnds
<1>3. ASSUME NEW j \in Jobs, BodyEnds(j) \/ Store(j) \/ Finish(j) \/ Fail(j) PROVE PhaseInv'
  BY <1>3 DEF BodyEnds, Store, Finish, Fail
<1>4. ASSUME NEW j \in Jobs, Refusal(j) PROVE PhaseInv'
  BY <1>4 DEF Refusal, SweepRefused, FinishRefused, FailRefused, ReleaseRefused, CancelRefused,
              TaskEnds
<1>5. CASE CloseTasks \/ Crash
  BY <1>5 DEF CloseTasks, Crash
<1>6. CASE CloseRows \/ CloseRefused
  BY <1>6 DEF CloseRows, CloseRefused
<1>7. CASE BootRows
  BY <1>7 DEF BootRows, Active
<1>8. CASE BootJobs
  BY <1>8 DEF BootJobs, Active
<1>9. CASE BootClaims
  BY <1>9 DEF BootClaims
<1>10. CASE UNCHANGED vars
  BY <1>10 DEF vars
<1> QED
  BY <1>1, <1>2, <1>3, <1>4, <1>5, <1>6, <1>7, <1>8, <1>9, <1>10 DEF Next, Step

(* Every step keeps the claims held: what a refused release, or a stop, leaves  *)
(* behind is gone before tasks run again.                                       *)
LEMMA HeldStep == TypeOK /\ PhaseInv /\ ClaimsHeld /\ [Next]_vars => ClaimsHeld'
<1> SUFFICES ASSUME TypeOK, PhaseInv, ClaimsHeld, [Next]_vars PROVE ClaimsHeld'
  OBVIOUS
<1> USE StageFacts DEF TypeOK, ClaimsHeld, row, task, request, counts, Goto, Live, Serving, InLease,
                       Working
<1>1. ASSUME NEW j \in Jobs, Submit(j) \/ Retry(j) PROVE ClaimsHeld'
  BY <1>1 DEF Submit, Retry, StartTask
<1>2. ASSUME NEW j \in Jobs, CancelTask(j) \/ CancelRow(j) \/ CancelIdle(j) PROVE ClaimsHeld'
  BY <1>2 DEF CancelTask, CancelRow, CancelIdle
<1>3. ASSUME NEW j \in Jobs, Sweep(j) \/ Claim(j) \/ WaitEnds(j) \/ Release(j)
      PROVE  ClaimsHeld'
  BY <1>3 DEF Sweep, Claim, WaitEnds, Release, TaskEnds
<1>4. ASSUME NEW j \in Jobs, BodyEnds(j) \/ Store(j) \/ Finish(j) \/ Fail(j) PROVE ClaimsHeld'
  BY <1>4 DEF BodyEnds, Store, Finish, Fail
<1>5. ASSUME NEW j \in Jobs, Refusal(j) PROVE ClaimsHeld'
  BY <1>5 DEF Refusal, SweepRefused, FinishRefused, FailRefused, ReleaseRefused, CancelRefused,
              Refuse
<1>6. CASE CloseTasks \/ CloseRows \/ CloseRefused \/ Crash
  BY <1>6 DEF CloseTasks, CloseRows, CloseRefused, Crash
<1>7. CASE BootRows \/ BootJobs
  BY <1>7 DEF BootRows, BootJobs
<1>8. CASE BootClaims
  BY <1>8 DEF BootClaims, PhaseInv
<1>9. CASE UNCHANGED vars
  BY <1>9 DEF vars
<1> QED
  BY <1>1, <1>2, <1>3, <1>4, <1>5, <1>6, <1>7, <1>8, <1>9 DEF Next, Step

(* Without a refused write no claim outlives its lease while the program runs.  *)
THEOREM ClaimsAlwaysHeld == Spec => []ClaimsHeld
<1>1. Init => PhaseInv /\ ClaimsHeld
  BY DEF Init, PhaseInv, ClaimsHeld, Live, Serving
<1> QED
  BY <1>1, TypeCorrect, RowsUndisturbed, PhaseStep, HeldStep, PTL DEF Spec

--------------------------------------------------------------------------------
(* Nobody is stranded, and somebody can always move.                            *)

(* A request awaits a live task it has cancelled, tasks and requests have a     *)
(* row, a shutdown has cancelled every live task, and the row of a waiting task *)
(* waits too or has been settled.                                               *)
WaitInv ==
    \A j \in Jobs : /\ ask[j] = "await" => Live(j) /\ j \in stopping
                    /\ Live(j) \/ ask[j] # "no" => status[j] # "absent"
                    /\ up = "closing" /\ Live(j) => j \in stopping
                    /\ stage[j] = "waiting" => status[j] \in {"queued"} \cup Unsuccessful

(* Every step keeps that.                                                       *)
LEMMA WaitStep ==
    TypeOK /\ WorkUndisturbed /\ PhaseInv /\ WaitInv /\ [Next]_vars => WaitInv'
<1> SUFFICES ASSUME TypeOK, WorkUndisturbed, PhaseInv, WaitInv, [Next]_vars PROVE WaitInv'
  OBVIOUS
<1> USE StageFacts DEF TypeOK, WaitInv, row, task, request, counts, Goto, Live, Unsuccessful
<1>1. ASSUME NEW j \in Jobs, Submit(j) \/ Retry(j) PROVE WaitInv'
  BY <1>1 DEF Submit, Retry, StartTask
<1>2. ASSUME NEW j \in Jobs, CancelTask(j) \/ CancelRow(j) \/ CancelIdle(j) PROVE WaitInv'
  BY <1>2 DEF CancelTask, CancelRow, CancelIdle, MarkCancelled
<1>3. ASSUME NEW j \in Jobs, Sweep(j) \/ Claim(j) \/ WaitEnds(j) \/ Release(j) PROVE WaitInv'
  BY <1>3 DEF Sweep, Claim, WaitEnds, Release, TaskEnds
<1>4. ASSUME NEW j \in Jobs, BodyEnds(j) \/ Store(j) \/ Finish(j) \/ Fail(j) PROVE WaitInv'
  BY <1>4 DEF BodyEnds, Store, Finish, Fail
<1>5. ASSUME NEW j \in Jobs, Refusal(j) PROVE WaitInv'
  BY <1>5 DEF Refusal, SweepRefused, FinishRefused, FailRefused, ReleaseRefused, CancelRefused,
              TaskEnds
<1>6. CASE CloseTasks \/ CloseRows \/ CloseRefused \/ Crash
  BY <1>6 DEF CloseTasks, CloseRows, CloseRefused, Crash
<1>7. CASE BootRows \/ BootJobs \/ BootClaims
  BY <1>7 DEF BootRows, BootJobs, BootClaims, PhaseInv
<1>8. CASE UNCHANGED vars
  BY <1>8 DEF vars
<1> QED
  BY <1>1, <1>2, <1>3, <1>4, <1>5, <1>6, <1>7, <1>8 DEF Next, Step

(* The four together.                                                           *)
LEMMA Settled == Spec => [](TypeOK /\ WorkUndisturbed /\ PhaseInv /\ WaitInv)
<1>1. Init => PhaseInv /\ WaitInv
  BY DEF Init, PhaseInv, WaitInv, Live, Serving
<1> QED
  BY <1>1, TypeCorrect, RowsUndisturbed, PhaseStep, WaitStep, PTL DEF Spec

(* Neither a refused write nor a retry so far.                                  *)
Calm == refusals = 0 /\ retries = 0

(* In a calm run the program that is up serves every row that is not over: a    *)
(* task that is being cancelled has a request behind it which will settle the   *)
(* row, a queued row has its task waiting, and a running one its task at work.  *)
ServedInv ==
    up = "up" /\ Calm => \A j \in Jobs :
        /\ j \in stopping => ask[j] = "await"
        /\ ask[j] = "resume" => ~Live(j)
        /\ ask[j] # "no" => seen[j] = attempt[j]
        /\ status[j] = "queued" => stage[j] = "waiting" \/ ask[j] = "resume"
        /\ status[j] = "running" => \/ stage[j] \in Working
                                    \/ stage[j] = "exit" /\ ask[j] = "await"
                                    \/ ask[j] = "resume"

(* Every step keeps that.                                                       *)
LEMMA ServedStep ==
    TypeOK /\ WorkUndisturbed /\ PhaseInv /\ WaitInv /\ ServedInv /\ [Next]_vars => ServedInv'
<1> SUFFICES ASSUME TypeOK, WorkUndisturbed, PhaseInv, WaitInv, ServedInv, [Next]_vars
             PROVE  ServedInv'
  OBVIOUS
<1> USE StageFacts DEF TypeOK, WaitInv, ServedInv, Calm, row, task, request, counts, Goto, Live,
                       Unsuccessful, Working
<1>1. ASSUME NEW j \in Jobs, Submit(j) \/ Retry(j) PROVE ServedInv'
  BY <1>1 DEF Submit, Retry, StartTask
<1>2. ASSUME NEW j \in Jobs, CancelTask(j) \/ CancelRow(j) \/ CancelIdle(j) PROVE ServedInv'
  <2>1. CASE CancelTask(j)
    BY <1>2, <2>1 DEF CancelTask
  <2>2. CASE CancelRow(j)
    <3>1. up = "up" /\ Calm => MarkCancelled(j)
      BY <2>2 DEF CancelRow
    <3> QED
      BY <2>2, <3>1 DEF CancelRow, MarkCancelled, Finished
  <2>3. CASE CancelIdle(j)
    BY <1>2, <2>3 DEF CancelIdle, MarkCancelled, Finished
  <2> QED
    BY <1>2, <2>1, <2>2, <2>3
<1>3. ASSUME NEW j \in Jobs, Sweep(j) PROVE ServedInv'
  <2>1. \A k \in Jobs : status'[k] \in {status[k], "interrupted"}
    BY <1>3 DEF Sweep
  <2> QED
    BY <1>3, <2>1 DEF Sweep
<1>4. ASSUME NEW j \in Jobs, Claim(j) PROVE ServedInv'
  BY <1>4 DEF Claim, InLease
<1>5. ASSUME NEW j \in Jobs, WaitEnds(j) \/ Release(j) PROVE ServedInv'
  <2>1. /\ stage' = [stage EXCEPT ![j] = "none"] /\ stopping' = stopping \ {j}
        /\ ask' = [ask EXCEPT ![j] = IF @ = "await" THEN "resume" ELSE @]
        /\ UNCHANGED <<status, attempt, seen, up, counts>>
    BY <1>5 DEF WaitEnds, Release, TaskEnds
  <2>2. ask[j] \in {"await", "resume"} => ask'[j] = "resume"
    BY <2>1
  <2>3. j \in stopping \/ status[j] \in Unsuccessful \/ stage[j] = "exit"
    BY <1>5 DEF WaitEnds, Release
  <2>4. up = "up" /\ Calm => status[j] \notin Active \/ ask'[j] = "resume"
    BY <2>2, <2>3 DEF Active
  <2> QED
    BY <2>1, <2>4 DEF Active
<1>6. ASSUME NEW j \in Jobs, BodyEnds(j) \/ Store(j) PROVE ServedInv'
  BY <1>6 DEF BodyEnds, Store
<1>7. ASSUME NEW j \in Jobs, Finish(j) \/ Fail(j) PROVE ServedInv'
  BY <1>7 DEF Finish, Fail, WorkUndisturbed
<1>8. ASSUME NEW j \in Jobs, Refusal(j) PROVE ServedInv'
  BY <1>8 DEF Refusal, SweepRefused, FinishRefused, FailRefused, ReleaseRefused, CancelRefused,
              Refuse
<1>9. CASE CloseTasks \/ CloseRows \/ CloseRefused \/ Crash
  BY <1>9 DEF CloseTasks, CloseRows, CloseRefused, Crash
<1>10. CASE BootRows \/ BootJobs
  BY <1>10 DEF BootRows, BootJobs
<1>11. CASE BootClaims
  BY <1>11 DEF BootClaims, PhaseInv
<1>12. CASE UNCHANGED vars
  BY <1>12 DEF vars
<1> QED
  BY <1>1, <1>2, <1>3, <1>4, <1>5, <1>6, <1>7, <1>8, <1>9, <1>10, <1>11, <1>12 DEF Next, Step

(* A job is left without a task only by a write that was refused or by a retry  *)
(* that found the old task still ending: nothing else strands one.              *)
StrandedBy == (\E j \in Jobs : Stranded(j)) => refusals # 0 \/ retries # 0

(* So it is in every state: nothing but what StrandedBy names leaves a job      *)
(* behind.                                                                      *)
THEOREM NothingElseStrands == Spec => []StrandedBy
<1>1. Init => ServedInv
  BY DEF Init, ServedInv
<1>2. TypeOK /\ ServedInv => StrandedBy
  BY DEF TypeOK, ServedInv, StrandedBy, Stranded, Calm, Live, Active, Working
<1> QED
  BY <1>1, <1>2, Settled, ServedStep, PTL DEF Spec

(* The queue is in order.                                                       *)
OrderInv == StrictOrder(ahead, Jobs)

(* Moving jobs to the tail keeps it in order.                                   *)
LEMMA OrderStep == TypeOK /\ OrderInv /\ [Next]_vars => OrderInv'
<1> SUFFICES ASSUME TypeOK, OrderInv, [Next]_vars PROVE OrderInv'
  OBVIOUS
<1>1. ASSUME NEW moved \in SUBSET Jobs PROVE StrictOrder(ToTail(moved), Jobs)
  BY TailKeepsOrder DEF OrderInv, ToTail
<1>2. ahead' = ahead \/ \E moved \in SUBSET Jobs : ahead' = ToTail(moved)
  <2>1. ASSUME NEW j \in Jobs, Submit(j) \/ Retry(j) PROVE ahead' = ToTail({j})
    BY <2>1 DEF Submit, Retry
  <2>2. CASE BootJobs
    BY <2>2 DEF BootJobs
  <2>3. ASSUME NEW j \in Jobs,
               CancelTask(j) \/ CancelRow(j) \/ CancelIdle(j) \/ Step(j) \/ Refusal(j)
        PROVE  ahead' = ahead
    BY <2>3 DEF CancelTask, CancelRow, CancelIdle, Step, Sweep, Claim, WaitEnds, BodyEnds, Store,
                Finish, Fail, Release, Refusal, SweepRefused, FinishRefused, FailRefused,
                ReleaseRefused, CancelRefused, row
  <2>4. CASE CloseTasks \/ CloseRows \/ CloseRefused \/ Crash \/ BootRows \/ BootClaims
    BY <2>4 DEF CloseTasks, CloseRows, CloseRefused, Crash, BootRows, BootClaims, row
  <2>5. CASE UNCHANGED vars
    BY <2>5 DEF vars, row
  <2> QED
    BY <2>1, <2>2, <2>3, <2>4, <2>5 DEF Next
<1>3. CASE ahead' = ahead
  BY <1>3 DEF OrderInv
<1>4. ASSUME NEW moved \in SUBSET Jobs, ahead' = ToTail(moved) PROVE OrderInv'
  <2>1. StrictOrder(ahead', Jobs)
    BY <1>1, <1>4
  <2> QED
    BY <2>1 DEF OrderInv, StrictOrder
<1> QED
  BY <1>2, <1>3, <1>4

(* The guards of a waiting task's steps, and of the others'.                    *)
FirstInQueue(j) ==
    /\ status[j] = "queued"
    /\ claimed = {}
    /\ \A k \in Jobs : status[k] = "queued" => <<k, j>> \notin ahead
    /\ \A k \in Jobs : stage[k] \notin InLease

Movable(j) ==
    \/ stage[j] \in InLease
    \/ stage[j] = "waiting" /\ j \in stopping
    \/ stage[j] = "waiting" /\ status[j] \in Unsuccessful
    \/ stage[j] = "waiting" /\ Abandoned # {}
    \/ stage[j] = "waiting" /\ FirstInQueue(j)
    \/ ask[j] = "resume"

(* While a task is live, some task or request has a step to take, unless a job  *)
(* of the group is stranded and the others wait behind it.                      *)
NoStandstill ==
    Serving /\ (\E j \in Jobs : Live(j)) =>
        \/ \E j \in Jobs : Movable(j)
        \/ \E j \in Jobs : Stranded(j)

(* The tasks never all wait for each other: with every lease left and no claim  *)
(* to sweep the first queued job of the group has the slot, and if nobody runs  *)
(* its task then nobody was left to run it.                                     *)
THEOREM NeverAllWaiting == Spec => []NoStandstill
<1>1. ASSUME TypeOK, PhaseInv, WaitInv, OrderInv PROVE NoStandstill
  <2> SUFFICES ASSUME Serving, NEW i \in Jobs, Live(i),
                      \A j \in Jobs : ~Movable(j),
                      \A j \in Jobs : ~Stranded(j)
               PROVE  FALSE
    BY DEF NoStandstill
  <2>1. \A j \in Jobs : /\ stage[j] \in {"none", "waiting"}
                        /\ ask[j] = "no"
                        /\ Live(j) => j \notin stopping /\ status[j] = "queued"
    BY <1>1, StageFacts DEF TypeOK, WaitInv, Movable, InLease, Working, Live
  <2>2. claimed = {} /\ \A k \in Jobs : stage[k] \notin InLease
    BY <1>1, <2>1 DEF TypeOK, Movable, Abandoned, Live
  <2> DEFINE queue == {j \in Jobs : status[j] = "queued"}
  <2>3. queue \subseteq Jobs /\ i \in queue
    BY <2>1
  <2>4. PICK first \in queue : \A k \in queue : <<k, first>> \notin ahead
    <3> HIDE DEF queue
    <3> QED
      BY <1>1, <2>3, OrderHasFirst, FiniteAssumption DEF OrderInv
  <2>5. FirstInQueue(first)
    BY <2>2, <2>4 DEF FirstInQueue
  <2>6. up = "up"
    BY <1>1, <2>1 DEF WaitInv, Serving
  <2>7. Stranded(first) \/ Movable(first)
    BY <2>1, <2>5, <2>6 DEF Stranded, Movable, Live, Active
  <2> QED
    BY <2>7
<1>2. Init => OrderInv
  BY DEF Init, OrderInv, StrictOrder
<1> QED
  BY <1>1, <1>2, Settled, OrderStep, TypeCorrect, PTL DEF Spec
================================================================================
