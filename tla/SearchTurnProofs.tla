---------------------------- MODULE SearchTurnProofs ---------------------------
(* Proofs about SearchTurn for any queries, any providers and any bounds.       *)
EXTENDS SearchTurn, TLAPS

--------------------------------------------------------------------------------
(* Types.                                                                       *)

(* What the steps have in common keeps its type.                                *)
LEMMA TaskType ==
    ASSUME TypeOK, TaskEnds \/ Start \/ Resume \/ \E s \in Stages : Goto(s)
    PROVE  /\ stage' \in Stages /\ mine' \in Nat
           /\ way' \in {"done", "failed", "cancelled"} /\ stopping' \in BOOLEAN
           /\ wake' \in SUBSET {"armed", "due"}
           /\ offer' \in Terms \cup {NoTerms}
<1>1. {"none", "timer", "waiting"} \subseteq Stages
  BY DEF Stages
<1>2. CASE TaskEnds
  BY <1>1, <1>2 DEF TypeOK, TaskEnds
<1>3. CASE Start
  BY <1>1, <1>3 DEF TypeOK, Start
<1>4. CASE Resume
  BY <1>1, <1>4 DEF TypeOK, Resume
<1>5. ASSUME NEW s \in Stages, Goto(s) PROVE stage' \in Stages /\ UNCHANGED <<mine, way, stopping, wake, offer>>
  BY <1>5 DEF Goto
<1> QED
  BY <1>2, <1>3, <1>4, <1>5 DEF TypeOK

(* The handlers of _execute know why the lease was left.                        *)
WayInv == stage = "ending" => way \in {"failed", "cancelled"}

(* Whoever enters the handlers has said why the lease was left.                 *)
LEMMA WayStep == TypeOK /\ WayInv /\ [Next]_vars => WayInv'
<1> SUFFICES ASSUME TypeOK, WayInv, [Next]_vars PROVE WayInv'
  OBVIOUS
<1> USE DEF WayInv, task
<1>3. CASE Release
  BY <1>3 DEF Release, TaskEnds
<1>4. CASE ReleaseRefused
  BY <1>4 DEF ReleaseRefused
<1>5. CASE Person
  BY <1>5 DEF Person, Configure, Look, Approve, Decline, Withdraw, Decide, Edit, CancelTurn,
              Retry, Resume, Start
<1>6. CASE TimerFires \/ TimerEnds \/ Claim \/ WaitEnds \/ Consider \/ Propose \/ Park
           \/ Prepare \/ Reuse \/ Send \/ Finish
  BY <1>6 DEF TimerFires, TimerEnds, Claim, WaitEnds, Consider, Propose, Park, Prepare, Reuse,
              Send, Finish, Goto, TaskEnds
<1>7. CASE Answer \/ Lost \/ Stopped \/ Settle \/ Publish \/ TakenForLost \/ PhaseRefused
           \/ SettleRefused
  BY <1>7 DEF Answer, Lost, Stopped, Settle, Publish, TakenForLost, PhaseRefused,
              SettleRefused, Goto, Leave, TaskEnds
<1>8. CASE Woken \/ Sweep \/ BootSearch \/ BootRows \/ Close \/ Closed \/ Crash
  BY <1>8 DEF Woken, Sweep, BootSearch, BootRows, Close, Closed, Crash, Down
<1>9. CASE UNCHANGED vars
  BY <1>9 DEF vars
<1> QED
  BY <1>3, <1>4, <1>5, <1>6, <1>7, <1>8, <1>9 DEF Next, Step, Refusal, Boot

(* A step of the person, the task or the process keeps the types.               *)
LEMMA TypeStep == TypeOK /\ WayInv /\ [Next]_vars => TypeOK'
<1> SUFFICES ASSUME TypeOK, WayInv, [Next]_vars PROVE TypeOK'
  OBVIOUS
<1> USE SearchConstants
    DEF SearchConstants, row, terms, proposal, task, person, counts
<1>0. /\ Stages = {"none", "timer", "waiting", "ending", "after", "ready", "choosing",
                   "parking", "dispatched", "request", "answering", "exit"}
      /\ States = {"none", "awaiting_approval", "scheduled", "approved", "declined",
                   "cancelled", "dispatching", "complete", "failed", "uncertain"}
      /\ Statuses = {"queued", "running", "paused", "failed", "cancelled", "interrupted",
                     "complete"}
  BY DEF Stages, InLease, Body, States, Revocable, Waiting, Refused, Dispatched, Statuses,
         Active, Unsuccessful
<1>a. MaySearch => settings.provider \in Providers
  BY DEF MaySearch, TypeOK
<1>b. \A s \in Stages : Goto(s) => /\ stage' = s
                                  /\ UNCHANGED <<mine, way, stopping, wake, offer>>
  BY DEF Goto
<1>c. \A how : Leave(how) => /\ stage' = "exit" /\ way' = how
                             /\ UNCHANGED <<mine, stopping, wake, offer>>
  BY DEF Leave
<1>1. CASE Configure
  <2>1. settings' \in [enabled : BOOLEAN, confirm : BOOLEAN,
                       provider : Providers \cup {NoProvider}]
    <3> DEFINE S == [enabled : BOOLEAN, confirm : BOOLEAN,
                     provider : Providers \cup {NoProvider}]
    <3>1. settings \in S
      BY DEF TypeOK
    <3>2. CASE settings' = [settings EXCEPT !.enabled = ~@]
      BY <3>1, <3>2, Zenon
    <3>3. CASE settings' = [settings EXCEPT !.confirm = ~@]
      BY <3>1, <3>3, Zenon
    <3>4. ASSUME NEW p \in Providers \cup {NoProvider},
                 settings' = [settings EXCEPT !.provider = p]
          PROVE  settings' \in S
      BY <3>1, <3>4
    <3> QED
      BY <1>1, <3>2, <3>3, <3>4 DEF Configure
  <2> QED
    BY <1>1, <2>1 DEF Configure, TypeOK
<1>2. CASE Look
  BY <1>2 DEF Look, TypeOK, Waiting, View
<1>3. ASSUME NEW target \in {"approved", "declined", "cancelled"}, NEW allowed,
             Decide(target, allowed),
             agreed' \in Terms \cup {NoTerms}
      PROVE  TypeOK'
  BY <1>3, <1>0, TaskType DEF Decide, TypeOK
<1>4. CASE Approve
  <2>1. agreed' \in Terms \cup {NoTerms}
    BY <1>4 DEF Approve, Decide, TypeOK, View, NoView, Terms
  <2> QED
    BY <1>3, <1>4, <2>1 DEF Approve
<1>5. CASE Decline
  BY <1>3, <1>5 DEF Decline, TypeOK
<1>6. CASE Withdraw
  BY <1>3, <1>6 DEF Withdraw, TypeOK
<1>7. ASSUME NEW q \in Queries, Edit(q) PROVE TypeOK'
  <2>1. /\ query' \in Queries /\ provider' \in Providers /\ automatic' \in BOOLEAN
        /\ state = "awaiting_approval"
        /\ revision' = revision + 1
        /\ UNCHANGED <<row, state, owner, settings, task, up, person, sent, counts>>
    BY <1>7, <1>a DEF Edit
  <2>2. revision' \in Nat \ {0}
    BY <2>1 DEF TypeOK
  <2> QED
    BY <2>1, <2>2 DEF TypeOK
<1>8. CASE CancelTurn
  BY <1>8, <1>0 DEF CancelTurn, Revoke, Live, Revocable, Waiting, TypeOK
<1>9. CASE Retry
  BY <1>9, <1>0, TaskType DEF Retry, Revoke, Revocable, Waiting, TypeOK
<1>10. CASE TimerFires
  BY <1>10, <1>0 DEF TimerFires, TypeOK, Terms
<1>11. CASE TimerEnds
  BY <1>11, <1>0, TaskType DEF TimerEnds, TypeOK
<1>12. CASE Claim
  BY <1>12, <1>0 DEF Claim, TypeOK
<1>13. CASE WaitEnds
  BY <1>13, <1>0, TaskType DEF WaitEnds, Revoke, Revocable, Waiting, TypeOK
<1>14. CASE Consider
  BY <1>14, <1>0, TaskType DEF Consider, TypeOK
<1>15. CASE Propose
  BY <1>15, <1>0, TaskType DEF Propose, MaySearch, TypeOK
<1>16. CASE Park
  BY <1>16, <1>0 DEF Park, TypeOK
<1>17. CASE Prepare
  <2>1. UNCHANGED <<claim, attempt, settings, mine, way, stopping, wake, up, person, sent, counts>>
    BY <1>17 DEF Prepare
  <2>2. state = "approved" /\ revision \in Nat \ {0} /\ query \in Queries /\ provider \in Providers
    BY <1>17 DEF Prepare, TypeOK
  <2> DEFINE Typed == /\ revision' \in Nat \ {0} /\ query' \in Queries /\ provider' \in Providers
                      /\ status' \in Statuses /\ state' \in States \ {"none"}
                      /\ stage' \in Stages /\ owner' \in Nat /\ automatic' \in BOOLEAN
                      /\ offer' \in Terms \cup {NoTerms}
  <2>3. ASSUME /\ state' = "cancelled" /\ automatic' = FALSE
               /\ UNCHANGED <<status, terms, owner, offer>>
               /\ stage' = "answering"
        PROVE  Typed
    BY <2>2, <2>3, <1>0 DEF TypeOK
  <2>4. ASSUME /\ MaySearch
               /\ state' = "awaiting_approval" /\ automatic' = FALSE
               /\ revision' = revision + 1 /\ provider' = settings.provider
               /\ status' = "paused"
               /\ UNCHANGED <<query, owner, offer>>
               /\ stage' = "exit"
        PROVE  Typed
    <3>1. revision' \in Nat \ {0} /\ query' \in Queries /\ provider' \in Providers
      BY <2>2, <2>4, <1>a
    <3>2. /\ status' \in Statuses /\ state' \in States \ {"none"} /\ stage' \in Stages
          /\ owner' \in Nat /\ automatic' \in BOOLEAN /\ offer' \in Terms \cup {NoTerms}
      BY <2>4, <1>0 DEF TypeOK
    <3> QED
      BY <3>1, <3>2
  <2>5. ASSUME /\ MaySearch
               /\ state' = "dispatching" /\ owner' = mine
               /\ offer' = [query |-> query, provider |-> settings.provider]
               /\ UNCHANGED <<status, terms, automatic>>
               /\ stage' = "dispatched"
        PROVE  Typed
    <3>1. offer' \in Terms
      BY <2>2, <2>5, <1>a DEF Terms
    <3> QED
      BY <2>2, <2>5, <3>1, <1>0 DEF TypeOK
  <2>6. Typed
    BY <1>17, <2>3, <2>4, <2>5, Zenon DEF Prepare
  <2> QED
    BY <2>1, <2>6 DEF TypeOK
<1>18. CASE Reuse
  BY <1>18, <1>0, TaskType DEF Reuse, Refused, Dispatched, TypeOK
<1>19. CASE Send
  BY <1>19, <1>0, TaskType DEF Send, TypeOK
<1>20. CASE Finish
  BY <1>20, <1>0, TaskType DEF Finish, TypeOK
<1>21. CASE Answer
  BY <1>21, <1>0 DEF Answer, Leave, TypeOK
<1>22. CASE Lost \/ Stopped
  BY <1>22, <1>0 DEF Lost, Stopped, Leave, TypeOK
<1>23. CASE Release
  <2>1. claim' \in Nat
    BY <1>23 DEF Release, TypeOK
  <2>2. \/ TaskEnds
        \/ /\ stage' = "ending" /\ way' \in {"failed", "cancelled"}
           /\ UNCHANGED <<mine, stopping, wake, offer>>
    BY <1>23 DEF Release
  <2> QED
    <3>1. stage' \in Stages /\ mine' \in Nat /\ way' \in {"done", "failed", "cancelled"}
          /\ stopping' \in BOOLEAN /\ wake' \in SUBSET {"armed", "due"}
          /\ offer' \in Terms \cup {NoTerms}
      BY <2>2, <1>0, TaskType DEF TypeOK
    <3>2. UNCHANGED <<status, attempt, proposal, settings, up, person, sent, counts>>
      BY <1>23 DEF Release
    <3> QED
      BY <2>1, <3>1, <3>2 DEF TypeOK
<1>24. CASE Settle
  <2>1. way \in Statuses
    BY <1>24, <1>0 DEF Settle, WayInv
  <2> QED
    BY <1>24, <1>0, <2>1, TaskType DEF Settle, Revoke, Revocable, Waiting, TypeOK
<1>25. CASE Publish
  BY <1>25, TaskType DEF Publish, TypeOK
<1>26. CASE TakenForLost \/ PhaseRefused
  <2>1. /\ refusals' \in 0..MaxRefusals
        /\ UNCHANGED <<retries, stops, changes, row, proposal, settings, up, person, sent>>
    BY <1>26 DEF TakenForLost, PhaseRefused, Refuse, TypeOK
  <2>2. /\ stage' = "exit" /\ way' \in {"done", "failed"}
        /\ UNCHANGED <<mine, stopping, wake, offer>>
    BY <1>26, <1>c DEF TakenForLost, PhaseRefused
  <2> QED
    BY <2>1, <2>2, <1>0 DEF TypeOK
<1>27. CASE ReleaseRefused
  BY <1>27, <1>0 DEF ReleaseRefused, Refuse, TypeOK
<1>28. CASE SettleRefused
  BY <1>28, TaskType DEF SettleRefused, Refuse, TypeOK
<1>29. CASE Woken
  BY <1>29, <1>0 DEF Woken, TypeOK
<1>30. CASE Sweep
  BY <1>30, <1>0 DEF Sweep, TypeOK
<1>31. CASE BootSearch
  BY <1>31, <1>0 DEF BootSearch, TypeOK
<1>32. CASE BootRows
  BY <1>32, <1>0 DEF BootRows, TypeOK
<1>33. CASE Close
  BY <1>33 DEF Close, Live, TypeOK
<1>34. CASE Closed \/ Crash
  <2>1. Down /\ stops' \in 0..MaxStops
    BY <1>34 DEF Closed, Crash, TypeOK
  <2> QED
    BY <2>1, <1>0 DEF Down, TypeOK
<1>35. CASE UNCHANGED vars
  BY <1>35 DEF vars, TypeOK
<1> QED
  BY <1>1, <1>2, <1>4, <1>5, <1>6, <1>7, <1>8, <1>9, <1>10, <1>11, <1>12, <1>13, <1>14,
     <1>15, <1>16, <1>17, <1>18, <1>19, <1>20, <1>21, <1>22, <1>23, <1>24, <1>25, <1>26,
     <1>27, <1>28, <1>29, <1>30, <1>31, <1>32, <1>33, <1>34, <1>35
  DEF Next, Person, Step, Refusal, Boot

(* Every variable keeps its type, and a proposal is there as a whole or not at  *)
(* all.                                                                         *)
THEOREM TypeCorrect == Spec => []TypeOK
<1>1. Init => TypeOK
  <2> SUFFICES ASSUME Init PROVE TypeOK
    OBVIOUS
  <2>1. "queued" \in Statuses /\ "none" \in States /\ "waiting" \in Stages
    BY DEF Statuses, Active, States, Stages
  <2>2. settings \in [enabled : BOOLEAN, confirm : BOOLEAN, provider : Providers \cup {NoProvider}]
    BY SearchConstants DEF SearchConstants, Init
  <2>3. /\ retries \in 0..MaxRetries /\ stops \in 0..MaxStops
        /\ refusals \in 0..MaxRefusals /\ changes \in 0..MaxChanges
    BY SearchConstants DEF SearchConstants, Init
  <2>4. wake \in SUBSET {"armed", "due"}
    BY DEF Init
  <2> QED
    BY <2>1, <2>2, <2>3, <2>4 DEF Init, TypeOK
<1>2. Init => WayInv
  BY DEF Init, WayInv
<1> QED
  BY <1>1, <1>2, WayStep, TypeStep, PTL DEF Spec

--------------------------------------------------------------------------------
(* A paused turn waits for a decision.                                          *)

(* Whoever moves the row out of "paused" moves the proposal out of waiting in   *)
(* the same step, and the reverse.                                              *)
LEMMA PausedStep == TypeOK /\ WayInv /\ PausedIsAsked /\ [Next]_vars => PausedIsAsked'
<1> SUFFICES ASSUME TypeOK, WayInv, PausedIsAsked, [Next]_vars PROVE PausedIsAsked'
  OBVIOUS
<1> USE DEF PausedIsAsked, row, terms, proposal, task, person, counts, Waiting
<1>1. CASE Configure \/ Look \/ \E q \in Queries : Edit(q)
  BY <1>1 DEF Configure, Look, Edit
<1>2. CASE Approve \/ Decline \/ Withdraw
  BY <1>2 DEF Approve, Decline, Withdraw, Decide, Revocable
<1>3. CASE CancelTurn \/ Retry
  BY <1>3 DEF CancelTurn, Retry, Revoke, Revocable, Unsuccessful
<1>4. CASE TimerFires \/ TimerEnds
  BY <1>4 DEF TimerFires, TimerEnds
<1>5. CASE Claim \/ WaitEnds
  BY <1>5 DEF Claim, WaitEnds, Revoke, Revocable
<1>6. CASE Consider \/ Propose \/ Park \/ Prepare
  BY <1>6 DEF Consider, Propose, Park, Prepare, Owns
<1>7. CASE Reuse \/ Send \/ Finish \/ Answer
  BY <1>7 DEF Reuse, Send, Finish, Answer, Owns, Refused, Dispatched
<1>8. CASE Lost \/ Stopped \/ Release \/ Publish
  BY <1>8 DEF Lost, Stopped, Release, Publish
<1>9. CASE Settle
  BY <1>9 DEF Settle, Mine, Revoke, Revocable, WayInv
<1>10. CASE Refusal \/ Woken
  BY <1>10 DEF Refusal, TakenForLost, PhaseRefused, ReleaseRefused, SettleRefused, Woken
<1>11. CASE Sweep \/ Boot
  BY <1>11 DEF Sweep, Boot, BootSearch, BootRows
<1>12. CASE Close \/ Closed \/ Crash
  BY <1>12 DEF Close, Closed, Crash, Down
<1>13. CASE UNCHANGED vars
  BY <1>13 DEF vars
<1> QED
  BY <1>1, <1>2, <1>3, <1>4, <1>5, <1>6, <1>7, <1>8, <1>9, <1>10, <1>11, <1>12, <1>13
  DEF Next, Person, Step

(* A turn is paused exactly while its proposal waits, through decisions, edits, *)
(* cancels, retries, the cancellation window, crashes and refused writes.       *)
THEOREM PausedTurnsAsked == Spec => []PausedIsAsked
<1>1. Init => PausedIsAsked /\ WayInv
  BY DEF Init, PausedIsAsked, Waiting, WayInv
<1> QED
  BY <1>1, PausedStep, WayStep, TypeCorrect, PTL DEF Spec

--------------------------------------------------------------------------------
(* One request.                                                                 *)

(* SentOnce is not inductive: nothing would keep a task that is about to send   *)
(* from an old proposal.  Such a task has committed the dispatch itself, before *)
(* anything was sent, and no task outlives its process.                         *)
DispatchInv ==
    /\ ~Serving => stage = "none"
    /\ stage = "choosing" => state = "none"
    /\ stage = "dispatched" => state = "dispatching" /\ sent = 0
    /\ sent = 0 \/ (sent = 1 /\ state \in Dispatched)

(* What the person does leaves a dispatched proposal alone and starts no        *)
(* dispatch.                                                                    *)
LEMMA PersonDispatch ==
    ASSUME Person, DispatchInv
    PROVE  /\ up' = up /\ sent' = sent
           /\ state' = state \/ (state \in Revocable /\ state' \notin Dispatched \cup {"none"})
           /\ stage' = stage \/ (Serving /\ stage' \in {"waiting", "timer"})
<1> USE DEF row, terms, proposal, task, person, counts, Serving
<1>1. CASE Configure \/ Look \/ \E q \in Queries : Edit(q)
  BY <1>1 DEF Configure, Look, Edit
<1>2. ASSUME NEW target \in {"approved", "declined", "cancelled"},
             NEW allowed \in SUBSET Revocable, Decide(target, allowed)
      PROVE  /\ up' = up /\ sent' = sent
             /\ state' = state \/ (state \in Revocable /\ state' \notin Dispatched \cup {"none"})
             /\ stage' = stage \/ (Serving /\ stage' \in {"waiting", "timer"})
  BY <1>2 DEF Decide, Resume, Dispatched
<1>3. CASE Approve \/ Decline \/ Withdraw
  <2>1. {"awaiting_approval"} \in SUBSET Revocable
    BY DEF Revocable, Waiting
  <2> QED
    BY <1>2, <1>3, <2>1 DEF Approve, Decline, Withdraw
<1>4. CASE CancelTurn
  BY <1>4 DEF CancelTurn, Revoke, Dispatched
<1>5. CASE Retry
  BY <1>5 DEF Retry, Revoke, Dispatched, Start
<1> QED
  BY <1>1, <1>3, <1>4, <1>5 DEF Person

(* Every step keeps a dispatch to the task that committed it.                   *)
LEMMA DispatchStep == TypeOK /\ DispatchInv /\ [Next]_vars => DispatchInv'
<1> SUFFICES ASSUME TypeOK, DispatchInv, [Next]_vars PROVE DispatchInv'
  OBVIOUS
<1> USE DEF DispatchInv, row, terms, proposal, task, person, counts, Serving, Dispatched
<1>1. CASE Person
  BY <1>1, PersonDispatch DEF Revocable, Waiting
<1>2. CASE TimerFires \/ TimerEnds
  BY <1>2 DEF TimerFires, TimerEnds, Goto, TaskEnds
<1>3. CASE Claim \/ WaitEnds
  BY <1>3 DEF Claim, WaitEnds, Revoke, Revocable, Waiting, TaskEnds
<1>4. CASE Consider \/ Propose \/ Park
  BY <1>4 DEF Consider, Propose, Park, Goto, At
<1>5. CASE Prepare
  BY <1>5 DEF Prepare, At
<1>6. CASE Reuse \/ Send \/ Finish
  BY <1>6 DEF Reuse, Send, Finish, Goto, At, Refused
<1>7. CASE Answer \/ Lost \/ Stopped \/ Release \/ Publish
  BY <1>7 DEF Answer, Lost, Stopped, Release, Publish, Leave, Goto, TaskEnds, At
<1>8. CASE Settle
  BY <1>8 DEF Settle, Revoke, Revocable, Waiting, Goto, TaskEnds
<1>9. CASE Refusal
  BY <1>9 DEF Refusal, TakenForLost, PhaseRefused, ReleaseRefused, SettleRefused, Leave, TaskEnds
<1>10. CASE Woken \/ Sweep
  BY <1>10 DEF Woken, Sweep
<1>11. CASE Boot
  BY <1>11 DEF Boot, BootSearch, BootRows
<1>12. CASE Close \/ Closed \/ Crash
  BY <1>12 DEF Close, Closed, Crash, Down
<1>13. CASE UNCHANGED vars
  BY <1>13 DEF vars
<1> QED
  BY <1>1, <1>2, <1>3, <1>4, <1>5, <1>6, <1>7, <1>8, <1>9, <1>10, <1>11, <1>12, <1>13
  DEF Next, Step

(* So it holds throughout.                                                      *)
LEMMA DispatchHolds == Spec => []DispatchInv
<1>1. Init => DispatchInv
  BY DEF Init, DispatchInv, Serving
<1> QED
  BY <1>1, DispatchStep, TypeCorrect, PTL DEF Spec

(* At most one request leaves the machine for a turn, and one that may have     *)
(* left is on record, through crashes, restarts, retries and refused writes.    *)
THEOREM OneRequest == Spec => []SentOnce
<1>1. DispatchInv => SentOnce
  BY DEF DispatchInv, SentOnce
<1> QED
  BY <1>1, DispatchHolds, PTL

--------------------------------------------------------------------------------
(* The agreed terms.                                                            *)

(* Why the request is the one agreed to: an approved proposal is still what was *)
(* agreed, because whatever changes a proposal raises its revision and takes    *)
(* the approval back, and a decision names the revision the person saw.         *)
TermsInv ==
    /\ stage = "dispatched" => offer = agreed
    /\ state = "approved" => agreed = [query |-> query, provider |-> provider]
    /\ seen.revision <= revision
    /\ seen.revision = revision /\ revision # 0 => seen.query = query /\ seen.provider = provider

(* A revision that was seen is a number.                                        *)
LEMMA SeenRevision == TypeOK => seen.revision \in Nat /\ revision \in Nat
BY DEF TypeOK, View, NoView

(* Every step keeps an approval and the terms it was given for together.        *)
LEMMA TermsStep == TypeOK /\ DispatchInv /\ TermsInv /\ [Next]_vars => TermsInv'
<1> SUFFICES ASSUME TypeOK, DispatchInv, TermsInv, [Next]_vars PROVE TermsInv'
  OBVIOUS
<1>0. seen.revision \in Nat /\ revision \in Nat
  BY SeenRevision
<1> USE DEF TermsInv, row, terms, proposal, task, person, counts
<1>1. CASE Configure
  BY <1>1 DEF Configure
<1>2. CASE Look
  BY <1>0, <1>2 DEF Look
<1>3. ASSUME NEW target \in {"approved", "declined", "cancelled"}, NEW allowed,
             Decide(target, allowed)
      PROVE  /\ state' = target /\ revision # 0
             /\ seen.revision = revision
             /\ stage' = "dispatched" => stage = "dispatched"
             /\ UNCHANGED <<terms, seen, offer>>
  BY <1>3 DEF Decide, Resume, TypeOK
<1>4. CASE Approve
  <2>1. /\ state' = "approved" /\ revision # 0 /\ seen.revision = revision
        /\ stage' = "dispatched" => stage = "dispatched"
        /\ UNCHANGED <<terms, seen, offer>>
    BY <1>3, <1>4 DEF Approve
  <2>2. stage # "dispatched"
    BY <1>4 DEF Approve, Decide, DispatchInv
  <2>3. agreed' = [query |-> query, provider |-> provider]
    BY <1>4, <2>1 DEF Approve
  <2> QED
    BY <2>1, <2>2, <2>3
<1>5. CASE Decline \/ Withdraw
  BY <1>3, <1>5 DEF Decline, Withdraw
<1>6. ASSUME NEW q \in Queries, Edit(q) PROVE TermsInv'
  BY <1>0, <1>6 DEF Edit
<1>7. CASE CancelTurn \/ Retry
  BY <1>7 DEF CancelTurn, Retry, Revoke, Revocable, Start
<1>8. CASE TimerFires
  BY <1>8 DEF TimerFires
<1>9. CASE TimerEnds \/ Claim \/ WaitEnds
  BY <1>9 DEF TimerEnds, Claim, WaitEnds, Goto, TaskEnds, Revoke, Revocable
<1>10. CASE Consider \/ Park
  BY <1>10 DEF Consider, Park, Goto
<1>11. CASE Propose
  <2>1. CASE UNCHANGED terms
    BY <1>11, <2>1 DEF Propose, Goto
  <2>2. CASE revision' = 1 /\ state' # "approved" /\ stage' # "dispatched"
    <3>1. state = "none" /\ revision = 0
      BY <1>11 DEF Propose, At, DispatchInv, TypeOK
    <3>2. UNCHANGED seen
      BY <1>11 DEF Propose
    <3> QED
      BY <2>2, <3>1, <3>2, <1>0
  <2> QED
    BY <1>11, <2>1, <2>2 DEF Propose, Goto
<1>12. CASE Prepare
  <2>1. state = "approved" /\ UNCHANGED <<seen, agreed>>
    BY <1>12 DEF Prepare
  <2>2. CASE stage' # "dispatched" /\ state' # "approved" /\ UNCHANGED terms
    BY <2>1, <2>2
  <2>3. CASE stage' # "dispatched" /\ state' # "approved" /\ revision' = revision + 1
    BY <2>1, <2>3, <1>0
  <2>4. CASE /\ state' # "approved" /\ UNCHANGED terms
             /\ offer' = [query |-> query, provider |-> provider]
    BY <2>1, <2>4
  <2> QED
    BY <1>12, <2>2, <2>3, <2>4 DEF Prepare
<1>13. CASE Reuse \/ Send \/ Finish \/ Answer
  BY <1>13 DEF Reuse, Send, Finish, Answer, Goto, Leave, Refused, Dispatched
<1>14. CASE Lost \/ Stopped \/ Release \/ Publish
  BY <1>14 DEF Lost, Stopped, Release, Publish, Leave, Goto, TaskEnds
<1>15. CASE Settle
  BY <1>15 DEF Settle, Revoke, Revocable, Goto, TaskEnds
<1>16. CASE Refusal
  BY <1>16 DEF Refusal, TakenForLost, PhaseRefused, ReleaseRefused, SettleRefused, Leave, TaskEnds
<1>17. CASE Woken \/ Sweep
  BY <1>17 DEF Woken, Sweep
<1>18. CASE Boot
  BY <1>18 DEF Boot, BootSearch, BootRows
<1>19. CASE Close \/ Closed \/ Crash
  BY <1>19 DEF Close, Closed, Crash, Down
<1>20. CASE UNCHANGED vars
  BY <1>20 DEF vars
<1> QED
  BY <1>1, <1>2, <1>4, <1>5, <1>6, <1>7, <1>8, <1>9, <1>10, <1>11, <1>12, <1>13, <1>14,
     <1>15, <1>16, <1>17, <1>18, <1>19, <1>20
  DEF Next, Person, Step

(* Only the task that committed the dispatch sends.                             *)
LEMMA SendStep == TermsInv /\ [Next]_vars => (sent' # sent => offer = agreed)
<1> SUFFICES ASSUME TermsInv, [Next]_vars, ~Send PROVE sent' = sent
  BY DEF Send, At, TermsInv
<1> USE DEF row, terms, proposal, task, person, counts
<1>1. CASE Person
  BY <1>1 DEF Person, Configure, Look, Approve, Decline, Withdraw, Decide, Edit, CancelTurn, Retry
<1>2. CASE Step
  BY <1>2 DEF Step, TimerFires, TimerEnds, Claim, WaitEnds, Consider, Propose, Park, Prepare,
              Reuse, Finish, Answer, Lost, Stopped, Release, Settle, Publish
<1>3. CASE Refusal \/ Woken \/ Sweep \/ Boot \/ Close \/ Closed \/ Crash
  BY <1>3 DEF Refusal, TakenForLost, PhaseRefused, ReleaseRefused, SettleRefused, Woken, Sweep,
              Boot, BootSearch, BootRows, Close, Closed, Crash, Down
<1>4. CASE UNCHANGED vars
  BY <1>4 DEF vars
<1> QED
  BY <1>1, <1>2, <1>3, <1>4 DEF Next

(* The query and the provider that leave the machine are those the person saw   *)
(* when approving, or those that stood when the cancellation window had passed, *)
(* whatever is edited, reconfigured or restarted in between.                    *)
THEOREM AgreedTermsSent == Spec => SentAsAgreed
<1>1. Init => TermsInv
  BY DEF Init, TermsInv, NoView
<1> QED
  BY <1>1, TermsStep, SendStep, DispatchHolds, TypeCorrect, PTL DEF Spec, SentAsAgreed

--------------------------------------------------------------------------------
(* The abstract ledger of consent.                                              *)

(* Every step is one of the ledger of consent, or none of its business.         *)
LEMMA ConsentStep == TypeOK /\ DispatchInv /\ [Next]_vars => [Consent!Next]_Consent!vars
<1> SUFFICES ASSUME TypeOK, DispatchInv, [Next]_vars PROVE [Consent!Next]_Consent!vars
  OBVIOUS
<1> DEFINE Phase(s) == IF s \in {"none"} \cup Waiting THEN "open"
                       ELSE IF s = "approved" THEN "agreed"
                       ELSE IF s = "dispatching" THEN "committed" ELSE "closed"
<1>a. ASSUME sent' = sent,
             \/ Phase(state') = Phase(state)
             \/ Phase(state) = "open" /\ Phase(state') = "agreed"
             \/ Phase(state) = "agreed" /\ Phase(state') = "open"
             \/ Phase(state) \in {"open", "agreed"} /\ Phase(state') = "closed"
             \/ Phase(state) = "agreed" /\ Phase(state') = "committed"
             \/ Phase(state) = "committed" /\ Phase(state') = "closed"
      PROVE  [Consent!Next]_Consent!vars
  BY <1>a DEF Consent!vars, Consent!Next, Consent!Agree, Consent!Reopen, Consent!Refuse,
              Consent!Commit, Consent!Conclude
<1> USE DEF row, terms, proposal, task, person, counts, Waiting
<1>1. CASE Configure \/ Look \/ \E q \in Queries : Edit(q)
  BY <1>1, <1>a DEF Configure, Look, Edit
<1>2. CASE Approve \/ Decline \/ Withdraw
  BY <1>2, <1>a DEF Approve, Decline, Withdraw, Decide, Revocable
<1>3. CASE CancelTurn \/ Retry
  BY <1>3, <1>a DEF CancelTurn, Retry, Revoke, Revocable
<1>4. CASE TimerFires \/ TimerEnds
  BY <1>4, <1>a DEF TimerFires, TimerEnds
<1>5. CASE Claim \/ WaitEnds
  BY <1>5, <1>a DEF Claim, WaitEnds, Revoke, Revocable
<1>6. CASE Consider \/ Park \/ Prepare
  BY <1>6, <1>a DEF Consider, Park, Prepare
<1>7. CASE Propose
  BY <1>7, <1>a DEF Propose, At, DispatchInv
<1>8. CASE Reuse \/ Finish \/ Answer
  BY <1>8, <1>a DEF Reuse, Finish, Answer, Refused, Dispatched
<1>9. CASE Send
  <2>1. state = "dispatching" /\ state' = state /\ sent = 0 /\ sent' = 1
    BY <1>9 DEF Send, At, DispatchInv
  <2>2. Consent!Send
    BY <2>1 DEF Consent!Send
  <2> QED
    BY <2>2 DEF Consent!Next
<1>10. CASE Lost \/ Stopped \/ Release \/ Publish
  BY <1>10, <1>a DEF Lost, Stopped, Release, Publish
<1>11. CASE Settle
  BY <1>11, <1>a DEF Settle, Revoke, Revocable
<1>12. CASE Refusal \/ Woken \/ Sweep
  BY <1>12, <1>a DEF Refusal, TakenForLost, PhaseRefused, ReleaseRefused, SettleRefused, Woken,
                     Sweep
<1>13. CASE Boot
  BY <1>13, <1>a DEF Boot, BootSearch, BootRows
<1>14. CASE Close \/ Closed \/ Crash
  BY <1>14, <1>a DEF Close, Closed, Crash, Down
<1>15. CASE UNCHANGED vars
  BY <1>15, <1>a DEF vars
<1> QED
  BY <1>1, <1>2, <1>3, <1>4, <1>5, <1>6, <1>7, <1>8, <1>9, <1>10, <1>11, <1>12, <1>13, <1>14,
     <1>15
  DEF Next, Person, Step

(* The turn implements the ledger of consent: a request is committed under an   *)
(* agreement that stands, made once, and closed for good.                       *)
THEOREM ConsentImplemented == Spec => ImplementsConsent
<1>1. Init => Consent!Init
  BY DEF Init, Consent!Init
<1> QED
  BY <1>1, ConsentStep, DispatchHolds, TypeCorrect, PTL
  DEF Spec, ImplementsConsent, Consent!ConsentSpec

--------------------------------------------------------------------------------
(* No consent is forgotten.                                                     *)

(* Somebody will look at the proposal: a task on its way to the lease, a        *)
(* callback on the live task, or one that is due.                               *)
Awaited == stage \in {"timer", "waiting"} \/ "armed" \in wake \/ ("due" \in wake /\ ~Live)

(* What keeps ApprovalHeld: callbacks sit on live tasks, a cancelled task has   *)
(* no consent left to carry, and each stage of a task that ends hands a         *)
(* standing consent to the next.                                                *)
WakeInv ==
    /\ ~Serving => stage = "none" /\ ~stopping /\ wake = {}
    /\ "armed" \in wake => Live
    /\ up = "up" /\ stopping => state \notin Revocable
    /\ up = "up" /\ status = "queued" /\ state = "approved" => Awaited
    /\ up = "up" /\ state = "scheduled" => (Awaited /\ stage # "waiting") \/ stage = "parking"

(* Whoever ends, or is stopped, hands a standing consent on.                    *)
LEMMA WakeStep ==
    TypeOK /\ WayInv /\ PausedIsAsked /\ DispatchInv /\ WakeInv /\ [Next]_vars => WakeInv'
<1> SUFFICES ASSUME TypeOK, WayInv, PausedIsAsked, DispatchInv, WakeInv, [Next]_vars
             PROVE  WakeInv'
  OBVIOUS
<1> USE DEF WakeInv, Awaited, Live, row, terms, proposal, task, person, counts, Serving,
            Revocable, Waiting
<1>1. CASE Configure \/ Look \/ \E q \in Queries : Edit(q)
  BY <1>1 DEF Configure, Look, Edit
<1>2. CASE Approve \/ Decline \/ Withdraw
  BY <1>2 DEF Approve, Decline, Withdraw, Decide, Resume, Resumable, Refused, PausedIsAsked
<1>3. CASE CancelTurn
  BY <1>3 DEF CancelTurn, Revoke
<1>4. CASE Retry
  BY <1>4 DEF Retry, Revoke, Start
<1>5. CASE TimerFires
  BY <1>5 DEF TimerFires
<1>6. CASE TimerEnds
  BY <1>6 DEF TimerEnds, Goto, TaskEnds, Resumable
<1>7. CASE Claim
  BY <1>7, PausedStep DEF Claim, PausedIsAsked
<1>8. CASE WaitEnds
  BY <1>8 DEF WaitEnds, Revoke, TaskEnds, PausedIsAsked, Active
<1>9. CASE Consider \/ Propose \/ Park
  BY <1>9 DEF Consider, Propose, Park, Goto, At, DispatchInv
<1>10. CASE Prepare
  BY <1>10 DEF Prepare, At
<1>11. CASE Reuse \/ Send \/ Finish \/ Answer
  BY <1>11 DEF Reuse, Send, Finish, Answer, Goto, Leave, At, Refused, Dispatched, Owns, PausedIsAsked
<1>12. CASE Lost
  BY <1>12 DEF Lost, Leave, Body
<1>13. CASE Stopped
  BY <1>13 DEF Stopped, Leave, Body
<1>14. CASE Release \/ Publish
  BY <1>14 DEF Release, Publish, TaskEnds
<1>15. CASE Settle
  BY <1>15 DEF Settle, Revoke, Goto, TaskEnds, WayInv, Mine
<1>16. CASE Refusal
  BY <1>16 DEF Refusal, TakenForLost, PhaseRefused, ReleaseRefused, SettleRefused, Leave, TaskEnds
<1>17. CASE Woken
  BY <1>17 DEF Woken, Resumable, PausedIsAsked
<1>18. CASE Sweep
  BY <1>18 DEF Sweep
<1>19. CASE Boot
  BY <1>19 DEF Boot, BootSearch, BootRows, PausedIsAsked
<1>20. CASE Close \/ Closed \/ Crash
  BY <1>20 DEF Close, Closed, Crash, Down
<1>21. CASE UNCHANGED vars
  BY <1>21 DEF vars
<1> QED
  BY <1>1, <1>2, <1>3, <1>4, <1>5, <1>6, <1>7, <1>8, <1>9, <1>10, <1>11, <1>12, <1>13, <1>14,
     <1>15, <1>16, <1>17, <1>18, <1>19, <1>20, <1>21
  DEF Next, Person, Step

(* So it holds throughout.                                                      *)
LEMMA WakeHolds == Spec => [](TypeOK /\ WayInv /\ PausedIsAsked /\ DispatchInv /\ WakeInv)
<1>1. Init => WayInv /\ WakeInv
  BY DEF Init, WayInv, WakeInv, Awaited, Serving
<1> QED
  BY <1>1, WayStep, WakeStep, PausedTurnsAsked, DispatchHolds, TypeCorrect, PTL DEF Spec

(* While the program runs, an approved turn that is queued and a search in its  *)
(* cancellation window have a live task, or a callback about to start one.      *)
ApprovalHeld ==
    up = "up" /\ ((status = "queued" /\ state = "approved") \/ state = "scheduled")
        => Live \/ "due" \in wake

(* The person may approve while the pausing task is still leaving its lease,    *)
(* while the timer is firing or while the program starts: somebody always has   *)
(* the resumption (resume_search).                                              *)
THEOREM ConsentNeverForgotten == Spec => []ApprovalHeld
<1>1. WakeInv => ApprovalHeld
  BY DEF WakeInv, ApprovalHeld, Awaited, Live
<1> QED
  BY <1>1, WakeHolds, PTL

--------------------------------------------------------------------------------
(* What strands a turn.                                                         *)

(* Without a retry and without a refused write, a running turn is its task's,   *)
(* whatever way the task leaves, a queued one is awaited, and a task is only    *)
(* ever stopped for a cancelled turn.                                           *)
StrandInv ==
    up = "up" /\ retries = 0 /\ refusals = 0 =>
        /\ stopping => status = "cancelled"
        /\ status = "queued" => Awaited /\ (stage = "waiting" \/ state \in {"approved"} \cup Refused)
        /\ status = "running" =>
               /\ attempt = mine
               /\ stage \in InLease \cup {"ending"}
               /\ stage \in InLease => claim = mine
               /\ stage = "ending" => claim \in {0, mine}
               /\ stage # "parking" /\ (stage = "exit" => way # "done")

(* Without a retry and a refusal, no step leaves a turn behind.                 *)
LEMMA StrandStep ==
    TypeOK /\ WayInv /\ PausedIsAsked /\ DispatchInv /\ WakeInv /\ StrandInv /\ [Next]_vars
        => StrandInv'
<1> SUFFICES ASSUME TypeOK, WayInv, PausedIsAsked, DispatchInv, WakeInv, StrandInv, [Next]_vars,
                    up' = "up", retries' = 0, refusals' = 0
             PROVE  StrandInv'
  BY DEF StrandInv
<1> USE DEF StrandInv, Awaited, Live, row, terms, proposal, task, person, counts, Serving,
            InLease, Body
<1>0. attempt \in Nat /\ retries \in Nat /\ refusals \in Nat
  BY DEF TypeOK
<1>1. CASE Configure \/ Look \/ \E q \in Queries : Edit(q)
  BY <1>1 DEF Configure, Look, Edit
<1>2. CASE Approve \/ Decline \/ Withdraw
  BY <1>2 DEF Approve, Decline, Withdraw, Decide, Resume, Resumable, Refused, PausedIsAsked, WakeInv
<1>3. CASE CancelTurn
  BY <1>3 DEF CancelTurn, Revoke
<1>4. CASE Retry
  BY <1>0, <1>4 DEF Retry
<1>5. CASE TimerFires
  BY <1>5 DEF TimerFires, Refused
<1>6. CASE TimerEnds
  BY <1>6 DEF TimerEnds, Goto, TaskEnds, Resumable
<1>7. CASE Claim
  BY <1>0, <1>7 DEF Claim
<1>8. CASE WaitEnds
  BY <1>8 DEF WaitEnds, Revoke, TaskEnds, Active
<1>9. CASE Consider \/ Propose \/ Park
  BY <1>9 DEF Consider, Propose, Park, Goto, At, Owns
<1>10. CASE Prepare
  BY <1>10 DEF Prepare, At, Owns
<1>11. CASE Reuse \/ Send \/ Finish \/ Answer
  BY <1>11 DEF Reuse, Send, Finish, Answer, Goto, Leave, At, Owns
<1>12. CASE Lost
  BY <1>12 DEF Lost, Leave, Owns
<1>13. CASE Stopped
  BY <1>13 DEF Stopped, Leave
<1>14. CASE Release
  BY <1>14 DEF Release, TaskEnds
<1>15. CASE Settle \/ Publish
  BY <1>15 DEF Settle, Publish, Revoke, Goto, TaskEnds, WayInv, Mine, Refused, Revocable
<1>16. CASE Refusal
  BY <1>0, <1>16 DEF Refusal, TakenForLost, PhaseRefused, ReleaseRefused, SettleRefused, Refuse
<1>17. CASE Woken
  BY <1>17 DEF Woken, Resumable
<1>18. CASE Sweep
  BY <1>18 DEF Sweep, Abandoned, Active
<1>19. CASE Boot
  BY <1>19 DEF Boot, BootSearch, BootRows, WakeInv
<1>20. CASE Close \/ Closed \/ Crash
  BY <1>20 DEF Close, Closed, Crash, Down
<1>21. CASE UNCHANGED vars
  BY <1>21 DEF vars
<1> QED
  BY <1>1, <1>2, <1>3, <1>4, <1>5, <1>6, <1>7, <1>8, <1>9, <1>10, <1>11, <1>12, <1>13, <1>14,
     <1>15, <1>16, <1>17, <1>18, <1>19, <1>20, <1>21
  DEF Next, Person, Step

(* A retry that trusted a task being stopped, or a write refused by a held      *)
(* database, came before.                                                       *)
StrandedBy == Stranded => retries > 0 \/ refusals > 0

(* The exception of TurnEnds hides nothing else: no crash, no cancellation, no  *)
(* decision and no change of settings strands a turn.                           *)
THEOREM StrandedOnlySo == Spec => []StrandedBy
<1>1. Init => StrandInv
  BY DEF Init, StrandInv, Awaited
<1>2. TypeOK /\ WakeInv /\ StrandInv => StrandedBy
  BY DEF TypeOK, StrandInv, StrandedBy, Stranded, WakeInv, Awaited, InLease, Body, Live
<1> QED
  BY <1>1, <1>2, StrandStep, WakeHolds, PTL DEF Spec

--------------------------------------------------------------------------------
(* No task is stuck.                                                            *)

(* What a task finds when it goes on: a waiter waits for a queued row, a task   *)
(* with its request out for a dispatch of its own, and no proposal is beyond    *)
(* the last revision.                                                           *)
StuckInv ==
    /\ stage = "waiting" => status \notin {"running", "paused"}
    /\ stage = "request" => state = "dispatching"
    /\ stage \in {"dispatched", "request"} => owner = mine
    /\ revision <= MaxRevision

(* Every step leaves the task with what its next stage expects.                 *)
LEMMA StuckStep ==
    TypeOK /\ WayInv /\ PausedIsAsked /\ DispatchInv /\ WakeInv /\ StuckInv /\ [Next]_vars
        => StuckInv'
<1> SUFFICES ASSUME TypeOK, WayInv, PausedIsAsked, DispatchInv, WakeInv, StuckInv, [Next]_vars
             PROVE  StuckInv'
  OBVIOUS
<1> USE DEF StuckInv, row, terms, proposal, task, person, counts
<1>0. revision \in Nat /\ MaxRevision \in Nat /\ 1 <= MaxRevision
  BY SearchConstants DEF SearchConstants, TypeOK
<1>1. CASE Configure \/ Look
  BY <1>1 DEF Configure, Look
<1>2. CASE \E q \in Queries : Edit(q)
  BY <1>0, <1>2 DEF Edit
<1>3. CASE Approve \/ Decline \/ Withdraw
  BY <1>3 DEF Approve, Decline, Withdraw, Decide, Resume, Revocable, Waiting
<1>4. CASE CancelTurn
  BY <1>4 DEF CancelTurn, Revoke, Revocable, Waiting
<1>5. CASE Retry
  BY <1>5 DEF Retry, Revoke, Start, Revocable, Waiting
<1>6. CASE TimerFires \/ TimerEnds
  BY <1>6 DEF TimerFires, TimerEnds, Goto, TaskEnds, Resumable
<1>7. CASE Claim \/ WaitEnds
  BY <1>7 DEF Claim, WaitEnds, Revoke, TaskEnds
<1>8. CASE Consider \/ Park
  BY <1>8 DEF Consider, Park, Goto, At
<1>9. CASE Propose
  BY <1>0, <1>9 DEF Propose, Goto, At
<1>10. CASE Prepare
  BY <1>0, <1>10 DEF Prepare, At
<1>11. CASE Reuse \/ Finish \/ Answer
  BY <1>11 DEF Reuse, Finish, Answer, Goto, Leave, At
<1>12. CASE Send
  BY <1>12 DEF Send, Goto, At, DispatchInv
<1>13. CASE Lost \/ Stopped
  BY <1>13 DEF Lost, Stopped, Leave
<1>14. CASE Release \/ Publish
  BY <1>14 DEF Release, Publish, TaskEnds
<1>15. CASE Settle
  BY <1>15 DEF Settle, Revoke, Goto, TaskEnds
<1>16. CASE Refusal
  BY <1>16 DEF Refusal, TakenForLost, PhaseRefused, ReleaseRefused, SettleRefused, Leave, TaskEnds
<1>17. CASE Woken \/ Sweep
  BY <1>17 DEF Woken, Sweep
<1>18. CASE Boot
  BY <1>18 DEF Boot, BootSearch, BootRows, WakeInv, Serving
<1>19. CASE Close \/ Closed \/ Crash
  BY <1>19 DEF Close, Closed, Crash, Down
<1>20. CASE UNCHANGED vars
  BY <1>20 DEF vars
<1> QED
  BY <1>1, <1>2, <1>3, <1>4, <1>5, <1>6, <1>7, <1>8, <1>9, <1>10, <1>11, <1>12, <1>13, <1>14,
     <1>15, <1>16, <1>17, <1>18, <1>19, <1>20
  DEF Next, Person, Step

(* The guard of what the task does next, or of the sweep of a claim it waits    *)
(* for.                                                                         *)
CanGoOn ==
    \/ stopping
    \/ stage \in {"exit", "ending", "after", "parking"}
    \/ stage = "timer" /\ (state = "scheduled" => status = "paused")
    \/ /\ stage = "waiting"
       /\ status \notin Active \/ (status = "queued" /\ (claim = 0 \/ Abandoned))
    \/ stage \in Body /\ ~Owns
    \/ stage = "ready" /\ state \notin Waiting /\ revision <= MaxRevision
    \/ stage \in {"choosing", "dispatched", "answering"}
    \/ stage = "request" /\ state = "dispatching" /\ owner = mine

(* A live task has a next step.                                                 *)
NoStandstill == Serving /\ Live => CanGoOn

(* A live task never waits for what cannot come: not for a claim nobody will    *)
(* release, nor with a proposal that is past every case of                      *)
(* _search_before_answer.                                                       *)
THEOREM TaskNeverStuck == Spec => []NoStandstill
<1>1. Init => StuckInv
  BY SearchConstants DEF SearchConstants, Init, StuckInv
<1>2. TypeOK /\ PausedIsAsked /\ StuckInv => NoStandstill
  <2> SUFFICES ASSUME TypeOK, PausedIsAsked, StuckInv, Live PROVE CanGoOn
    BY DEF NoStandstill
  <2>1. stage \in {"timer", "waiting", "ending", "after", "exit"} \cup Body
    BY DEF TypeOK, Live, Stages, InLease
  <2>2. CASE stage = "waiting"
    BY <2>2 DEF TypeOK, StuckInv, CanGoOn, Abandoned, InLease, Body, Active
  <2>3. CASE stage \in Body /\ Owns
    BY <2>3 DEF StuckInv, CanGoOn, Body, Owns, PausedIsAsked
  <2> QED
    BY <2>1, <2>2, <2>3 DEF CanGoOn, PausedIsAsked, Waiting
<1> QED
  BY <1>1, <1>2, StuckStep, WakeHolds, PTL DEF Spec
================================================================================
