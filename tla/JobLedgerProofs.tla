----------------------------- MODULE JobLedgerProofs ---------------------------
(* What follows from the promise of JobLedger alone, for any set of jobs, and   *)
(* so holds of every module that implements it.                                 *)
EXTENDS JobLedger, TLAPS

(* The names the sets of statuses come to.                                      *)
LEMMA StatusNames ==
    /\ Active = {"queued", "running"}
    /\ Unsuccessful = {"failed", "cancelled", "interrupted"}
    /\ Terminal = {"failed", "cancelled", "interrupted", "complete"}
    /\ Statuses = {"queued", "running", "failed", "cancelled", "interrupted", "complete"}
    /\ Outcomes = {"complete", "failed"}
BY DEF Active, Unsuccessful, Terminal, Statuses, Outcomes

LedgerTypes ==
    /\ status \in [Jobs -> Statuses]
    /\ attempt \in [Jobs -> Nat]
    /\ claim \in [Jobs -> Nat]
    /\ result \in [Jobs -> Nat]

(* A row carries the outcome of its newest attempt exactly while it is settled  *)
(* by one, and is claimed by nobody else.                                       *)
ResultsExact ==
    \A j \in Jobs :
        /\ claim[j] \in {0, attempt[j]}
        /\ result[j] = IF status[j] \in Outcomes THEN attempt[j] ELSE 0
        /\ status[j] \in Outcomes \cup {"running"} => attempt[j] # 0

(* A step at one row of the ledger, the others standing still or moving alike.  *)
RowStep(j) ==
    \/ UNCHANGED <<status[j], attempt[j], result[j]>> /\ claim'[j] \in {claim[j], 0}
    \/ /\ status[j] = "queued" /\ status'[j] = "running"
       /\ attempt'[j] = attempt[j] + 1 /\ claim'[j] = attempt'[j] /\ result'[j] = result[j]
    \/ /\ status[j] = "running" /\ status'[j] \in Outcomes
       /\ result'[j] = attempt[j] /\ attempt'[j] = attempt[j] /\ claim'[j] = claim[j]
    \/ /\ status[j] \in Active \cup {"interrupted"}
       /\ status'[j] \in {"interrupted", "cancelled"}
       /\ attempt'[j] = attempt[j] /\ result'[j] = result[j] /\ claim'[j] \in {claim[j], 0}
    \/ /\ status[j] \in Unsuccessful \cup {"running"} /\ status'[j] = "queued"
       /\ attempt'[j] = attempt[j] /\ result'[j] = 0 /\ claim'[j] = 0

(* Every step of the ledger is such a step at every row.                        *)
LEMMA RowSteps ==
    ASSUME LedgerTypes, [LedgerNext]_ledger
    PROVE  LedgerTypes' /\ \A j \in Jobs : RowStep(j)
<1> DEFINE Goal == LedgerTypes' /\ \A j \in Jobs : RowStep(j)
<1> USE StatusNames DEF LedgerTypes, RowStep
<1>1. ASSUME NEW j \in Jobs, Take(j) PROVE Goal
  BY <1>1 DEF Take
<1>2. ASSUME NEW j \in Jobs, NEW outcome \in Outcomes, Finish(j, outcome) PROVE Goal
  BY <1>2 DEF Finish
<1>3. ASSUME NEW j \in Jobs, Give(j) PROVE Goal
  BY <1>3 DEF Give
<1>4. ASSUME NEW j \in Jobs, Withdraw(j) PROVE Goal
  BY <1>4 DEF Withdraw
<1>5. ASSUME NEW jobs \in SUBSET Jobs, Sweep(jobs) PROVE Goal
  BY <1>5 DEF Sweep
<1>6. ASSUME NEW jobs \in SUBSET Jobs, Suspend(jobs) PROVE Goal
  BY <1>6 DEF Suspend
<1>7. ASSUME NEW jobs \in SUBSET Jobs, Again(jobs) PROVE Goal
  BY <1>7 DEF Again
<1>8. ASSUME NEW jobs \in SUBSET Jobs, Restart(jobs) PROVE Goal
  BY <1>8 DEF Restart
<1>9. CASE UNCHANGED ledger
  BY <1>9 DEF ledger
<1> QED
  BY <1>1, <1>2, <1>3, <1>4, <1>5, <1>6, <1>7, <1>8, <1>9 DEF LedgerNext

(* The ledger keeps its types.                                                  *)
LEMMA LedgerTyped == LedgerSpec => []LedgerTypes
<1>1. LedgerInit => LedgerTypes
  BY StatusNames DEF LedgerInit, LedgerTypes
<1>2. LedgerTypes /\ [LedgerNext]_ledger => LedgerTypes'
  BY RowSteps
<1> QED
  BY <1>1, <1>2, PTL DEF LedgerSpec

(* Results are exact in every state the ledger allows.                          *)
THEOREM ResultsAlwaysExact == LedgerSpec => []ResultsExact
<1>1. LedgerInit => ResultsExact
  BY StatusNames DEF LedgerInit, ResultsExact
<1>2. LedgerTypes /\ ResultsExact /\ [LedgerNext]_ledger => ResultsExact'
  <2> SUFFICES ASSUME LedgerTypes, ResultsExact, [LedgerNext]_ledger, NEW j \in Jobs
               PROVE  /\ claim'[j] \in {0, attempt'[j]}
                      /\ result'[j] = IF status'[j] \in Outcomes THEN attempt'[j] ELSE 0
                      /\ status'[j] \in Outcomes \cup {"running"} => attempt'[j] # 0
    BY DEF ResultsExact
  <2>1. RowStep(j)
    BY RowSteps
  <2> QED
    BY <2>1, StatusNames DEF RowStep, ResultsExact, LedgerTypes
<1> QED
  BY <1>1, <1>2, LedgerTyped, PTL DEF LedgerSpec

(* What succeeded is never taken back, and attempts only grow.                  *)
SuccessKept ==
    [][\A j \in Jobs :
        /\ attempt'[j] >= attempt[j]
        /\ status[j] = "complete" => status'[j] = "complete" /\ result'[j] = result[j]]_ledger

(* Nothing the ledger allows takes a success back.                              *)
THEOREM SuccessAlwaysKept == LedgerSpec => SuccessKept
<1>1. LedgerTypes /\ [LedgerNext]_ledger =>
        \A j \in Jobs :
            /\ attempt'[j] >= attempt[j]
            /\ status[j] = "complete" => status'[j] = "complete" /\ result'[j] = result[j]
  BY RowSteps, StatusNames DEF RowStep, LedgerTypes
<1> QED
  BY <1>1, LedgerTyped, PTL DEF LedgerSpec, SuccessKept

(* Attempt a of j is over: the row has moved on, or is not at work on it.       *)
Over(j, a) == attempt[j] > a \/ (attempt[j] = a /\ status[j] # "running")

(* An attempt that had an outcome never runs again, whatever becomes of the     *)
(* outcome: to work on the row again takes a new claim, which counts a new one. *)
THEOREM AttemptsSpentOnce ==
    ASSUME NEW j \in Jobs, NEW a \in Nat \ {0}
    PROVE  LedgerSpec => [](result[j] = a => [](attempt[j] = a => status[j] # "running"))
<1>1. ResultsExact /\ result[j] = a => Over(j, a)
  BY StatusNames DEF ResultsExact, Over
<1>2. LedgerTypes /\ Over(j, a) /\ [LedgerNext]_ledger => Over(j, a)'
  <2> SUFFICES ASSUME LedgerTypes, Over(j, a), [LedgerNext]_ledger PROVE Over(j, a)'
    OBVIOUS
  <2>1. RowStep(j)
    BY RowSteps
  <2> QED
    BY <2>1, StatusNames DEF RowStep, Over, LedgerTypes
<1>3. LedgerTypes /\ Over(j, a) => (attempt[j] = a => status[j] # "running")
  BY DEF Over, LedgerTypes
<1> QED
  BY <1>1, <1>2, <1>3, LedgerTyped, ResultsAlwaysExact, PTL DEF LedgerSpec
================================================================================
