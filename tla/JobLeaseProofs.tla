----------------------------- MODULE JobLeaseProofs ----------------------------
(* Proofs about JobLease for any jobs, executions, dispatchers and capacity.    *)
EXTENDS JobLease, OrderFacts, TLAPS

--------------------------------------------------------------------------------
(* Types.                                                                       *)

(* The orders Requeue and the ranking work on stay relations over Jobs.         *)
LEMMA TailType ==
    ASSUME NEW j \in Jobs, ahead \in SUBSET (Jobs \X Jobs)
    PROVE  ToTail(j) \in SUBSET (Jobs \X Jobs)
BY DEF ToTail

(* What a sweep or a request reads is a unit of work.                           *)
LEMMA WorkTyped ==
    ASSUME TypeOK
    PROVE  /\ \A e \in Execs : Sweeping(e, Expired(Home[e]), Active) \in Work
           /\ \A d \in Dispatchers, j \in Jobs :
                 /\ Request(d, j, "cancelled", {}, {}) \in Work
                 /\ Request(d, j, "queued", {j} \cap Claimed, {k \in {j} : result[k] # 0}) \in Work
<1>1. {"interrupted", "cancelled", "queued"} \subseteq Statuses
  BY DEF Statuses, Terminal, Unsuccessful, Active
<1>2. ASSUME NEW e \in Execs PROVE Sweeping(e, Expired(Home[e]), Active) \in Work
  <2>1. Home[e] \in Dispatchers /\ Expired(Home[e]) \in SUBSET Jobs
    BY HomeAssumption DEF HomeAssumption, Expired, Claimed
  <2>2. {j \in Expired(Home[e]) : status[j] \in Active} \in SUBSET Jobs
    BY <2>1
  <2>3. {x \in abandoned : Home[x] = Home[e] /\ \E j \in Expired(Home[e]) : owner[j] = x}
            \in SUBSET Execs
    BY DEF TypeOK
  <2> QED
    BY <1>1, <2>1, <2>2, <2>3 DEF Work, Sweeping
<1>3. ASSUME NEW d \in Dispatchers, NEW j \in Jobs
      PROVE  /\ Request(d, j, "cancelled", {}, {}) \in Work
             /\ Request(d, j, "queued", {j} \cap Claimed, {k \in {j} : result[k] # 0}) \in Work
  <2>1. {j} \cap Claimed \in SUBSET Jobs /\ {k \in {j} : result[k] # 0} \in SUBSET Jobs
    OBVIOUS
  <2> QED
    BY <1>1, <2>1 DEF Work, Request
<1> QED
  BY <1>2, <1>3

(* A flush keeps the types of the row's columns.                                *)
LEMMA FlushTyped ==
    ASSUME TypeOK, NEW w \in pending, Flush(w)
    PROVE  /\ w \in Work
           /\ status' \in [Jobs -> Statuses] /\ owner' \in [Jobs -> Execs \cup {NoOne}]
           /\ result' \in [Jobs -> Nat] /\ lapsed' \in SUBSET Jobs
           /\ pending' \in SUBSET Work
BY DEF TypeOK, Flush, Work

(* One transaction or event-loop step of the scheduler keeps every variable's   *)
(* type.                                                                        *)
LEMMA TypeStep == TypeOK /\ [Next]_vars => TypeOK'
<1> SUFFICES ASSUME TypeOK, [Next]_vars PROVE TypeOK'
  OBVIOUS
<1> USE DEF TypeOK, row, memory, world, Stages, Waiting, InSlot, Ended, Statuses,
            Terminal, Unsuccessful, Active
<1>1. ASSUME NEW e \in Execs, NEW j \in Jobs, Start(e, j) PROVE TypeOK'
  BY <1>1 DEF Start
<1>2. ASSUME NEW e \in Execs, Acquire(e) PROVE TypeOK'
  <2>1. CASE NothingExpired(e)
    BY <2>1 DEF NothingExpired, Goto
  <2>2. CASE Expire(e)
    <3>1. PICK w \in pending : Flush(w) /\ abandoned' = abandoned \ w.tokens
      BY <2>2 DEF Expire
    <3>2. /\ status' \in [Jobs -> Statuses] /\ owner' \in [Jobs -> Execs \cup {NoOne}]
          /\ result' \in [Jobs -> Nat] /\ lapsed' \in SUBSET Jobs
          /\ pending' \in SUBSET Work
      BY <3>1, FlushTyped
    <3>3. /\ pc' \in [Execs -> Stages] /\ UNCHANGED <<job, held, attempt, ahead, world, up>>
          /\ \A x \in Execs : pc'[x] \notin {"new"} \cup Ended => job[x] \in Jobs
      BY <2>2 DEF Expire, Goto
    <3> QED
      BY <3>1, <3>2, <3>3
  <2>3. CASE ExpireRefused(e)
    BY <2>3 DEF ExpireRefused, Leave
  <2>4. CASE PassSettled(e)
    BY <2>4 DEF PassSettled, Leave
  <2>5. CASE PassBusy(e)
    BY <2>5 DEF PassBusy, Goto
  <2>6. CASE Pass(e)
    BY <2>6 DEF Pass, Goto
  <2>7. CASE TakeSlot(e)
    BY <2>7 DEF TakeSlot, Goto
  <2>8. CASE Claim(e)
    BY <2>8 DEF Claim
  <2>9. CASE ClaimMissed(e)
    BY <2>9 DEF ClaimMissed, Goto
  <2>10. CASE ExpireRead(e)
    BY <2>10, WorkTyped DEF ExpireRead
  <2> QED
    BY <1>2, <2>1, <2>2, <2>3, <2>4, <2>5, <2>6, <2>7, <2>8, <2>9, <2>10 DEF Acquire
<1>3. ASSUME NEW e \in Execs, CancelWaiting(e) PROVE TypeOK'
  BY <1>3 DEF CancelWaiting, Leave
<1>4. ASSUME NEW e \in Execs, Hold(e) PROVE TypeOK'
  <2>1. CASE Renew(e)
    BY <2>1 DEF Renew
  <2>2. CASE ClaimLost(e)
    BY <2>2 DEF ClaimLost, Goto
  <2>3. ASSUME NEW outcome \in {"complete", "failed"}, Settle(e, outcome) PROVE TypeOK'
    BY <2>3 DEF Settle
  <2>4. ASSUME NEW outcome \in {"complete", "failed"}, SettleLate(e, outcome) PROVE TypeOK'
    BY <2>4 DEF SettleLate, Leave
  <2>5. CASE SettleRetry(e)
    BY <2>5, TailType DEF SettleRetry
  <2>6. CASE BodyEnds(e)
    BY <2>6 DEF BodyEnds, Goto
  <2>7. CASE Release(e)
    BY <2>7 DEF Release, Goto
  <2>8. CASE ReleaseRefused(e)
    BY <2>8 DEF ReleaseRefused, Goto
  <2>9. CASE Return(e)
    BY <2>9 DEF Return, Leave
  <2> QED
    BY <1>4, <2>1, <2>2, <2>3, <2>4, <2>5, <2>6, <2>7, <2>8, <2>9 DEF Hold
<1>5. ASSUME NEW j \in Jobs, Lapse(j) PROVE TypeOK'
  BY <1>5 DEF Lapse
<1>6. ASSUME NEW d \in Dispatchers, NEW j \in Jobs,
             CancelRead(d, j) \/ CancelThreaded(d, j) \/ RequeueRead(d, j)
      PROVE  TypeOK'
  BY <1>6, WorkTyped DEF CancelRead, CancelThreaded, RequeueRead
<1>7. ASSUME NEW d \in Dispatchers, Requests(d) PROVE TypeOK'
  <2>1. CASE RequestRefused(d)
    BY <1>7, <2>1 DEF RequestRefused
  <2>2. CASE CancelRow(d)
    BY <1>7, <2>2, FlushTyped DEF CancelRow
  <2>3. CASE Requeue(d)
    <3>1. PICK w \in pending : \E j \in w.marked : Flush(w) /\ ahead' = ToTail(j)
      BY <2>3 DEF Requeue
    <3>2. PICK j \in w.marked : ahead' = ToTail(j)
      BY <3>1
    <3>3. j \in Jobs
      BY <3>1 DEF Work
    <3> QED
      BY <2>3, <3>1, <3>2, <3>3, FlushTyped, TailType DEF Requeue
  <2> QED
    BY <1>7, <2>1, <2>2, <2>3 DEF Requests
<1>8. ASSUME NEW d \in Dispatchers, Boot(d) PROVE TypeOK'
  BY <1>8 DEF Boot
<1>9. ASSUME NEW d \in Dispatchers, Crash(d) PROVE TypeOK'
  BY <1>9 DEF Crash
<1>10. CASE HoldWriter
  BY <1>10, BoundsAssumption DEF BoundsAssumption, HoldWriter
<1>11. CASE FreeWriter
  BY <1>11 DEF FreeWriter
<1>12. CASE UNCHANGED vars
  BY <1>12 DEF vars
<1> QED
  BY <1>1, <1>2, <1>3, <1>4, <1>5, <1>6, <1>7, <1>8, <1>9, <1>10, <1>11, <1>12 DEF Next

(* The type invariant holds in every reachable state of the lease protocol.     *)
THEOREM TypeCorrect == Spec => []TypeOK
<1>1. ASSUME Init PROVE TypeOK
  <2>1. ahead \in SUBSET (Jobs \X Jobs)
    BY <1>1 DEF Init
  <2>2. holds \in 0..MaxHolds
    BY <1>1, BoundsAssumption DEF Init, BoundsAssumption
  <2>3. /\ status \in [Jobs -> Statuses]
        /\ owner \in [Jobs -> Execs \cup {NoOne}]
        /\ attempt \in [Jobs -> Nat] /\ result \in [Jobs -> Nat]
        /\ lapsed \in SUBSET Jobs
        /\ busy \in BOOLEAN
    BY <1>1 DEF Init, Statuses, Active
  <2>4. /\ up \in [Dispatchers -> {"new", "up", "down"}]
        /\ pc \in [Execs -> Stages]
        /\ job \in [Execs -> Jobs \cup {NoOne}]
        /\ \A e \in Execs : pc[e] = "new"
        /\ held \in [Execs -> Nat]
        /\ abandoned \in SUBSET Execs
        /\ pending \in SUBSET Work
    BY <1>1 DEF Init, Stages
  <2> QED
    BY <2>1, <2>2, <2>3, <2>4 DEF TypeOK
<1> QED
  BY <1>1, TypeStep, PTL DEF Spec

--------------------------------------------------------------------------------
(* What has been read and is not yet written.                                   *)

(* A sweep, a cancel or a retry, as it was read.                                *)
Shape(w) ==
    \/ /\ w.to = "interrupted" /\ w.by \in Execs /\ Home[w.by] = w.on
       /\ w.marked \subseteq w.cleared /\ w.dropped = {}
    \/ /\ w.to = "cancelled" /\ w.by = NoOne
       /\ w.cleared = {} /\ w.dropped = {} /\ w.tokens = {}
       /\ \E j \in Jobs : w.marked = {j}
    \/ /\ w.to = "queued" /\ w.by = NoOne /\ w.tokens = {}
       /\ \E j \in Jobs : w.marked = {j} /\ w.cleared \subseteq {j} /\ w.dropped \subseteq {j}

(* Between reading and flushing a process does nothing else on its loop: there  *)
(* is one unit of work to a process, its waiter stands where it read, and the   *)
(* tokens it will forget are abandoned and own nothing but what it clears.      *)
PendingInv ==
    /\ \A w \in pending : up[w.on] = "up" /\ Shape(w) /\ (w.by # NoOne => pc[w.by] = "top")
    /\ \A w, v \in pending : w.on = v.on => w = v
    /\ \A w \in pending : \A x \in w.tokens :
          Home[x] = w.on /\ x \in abandoned /\ \A j \in Jobs : owner[j] = x => j \in w.cleared

(* A token is remembered as abandoned when its execution has left the lease.    *)
AbandonedLeft == \A e \in abandoned : pc[e] \in {"after"} \cup Ended

(* A token is abandoned on the way out of the lease and not taken up again.     *)
LEMMA AbandonedStep == TypeOK /\ AbandonedLeft /\ [Next]_vars => AbandonedLeft'
<1> SUFFICES ASSUME TypeOK, AbandonedLeft, [Next]_vars PROVE AbandonedLeft'
  OBVIOUS
<1> USE DEF TypeOK, AbandonedLeft, Ended, row, memory, world
<1>1. ASSUME NEW e \in Execs, NEW j \in Jobs, Start(e, j) PROVE AbandonedLeft'
  BY <1>1 DEF Start
<1>2. ASSUME NEW e \in Execs, NothingExpired(e) \/ PassBusy(e) \/ Pass(e) \/ ExpireRead(e)
                              \/ TakeSlot(e) \/ ClaimMissed(e) \/ Claim(e)
      PROVE  AbandonedLeft'
  BY <1>2 DEF NothingExpired, PassBusy, Pass, ExpireRead, TakeSlot, ClaimMissed, Claim, Goto
<1>3. ASSUME NEW e \in Execs, Expire(e) \/ ExpireRefused(e) PROVE AbandonedLeft'
  BY <1>3 DEF Expire, ExpireRefused, Goto, Leave
<1>4. ASSUME NEW e \in Execs, PassSettled(e) \/ CancelWaiting(e) \/ Return(e) PROVE AbandonedLeft'
  BY <1>4 DEF PassSettled, CancelWaiting, Return, Leave
<1>5. ASSUME NEW e \in Execs, Renew(e) \/ ClaimLost(e) \/ BodyEnds(e) \/ SettleRetry(e)
      PROVE  AbandonedLeft'
  BY <1>5 DEF Renew, ClaimLost, BodyEnds, SettleRetry, Goto
<1>6. ASSUME NEW e \in Execs, NEW outcome \in {"complete", "failed"},
             Settle(e, outcome) \/ SettleLate(e, outcome)
      PROVE  AbandonedLeft'
  BY <1>6 DEF Settle, SettleLate, Leave
<1>7. ASSUME NEW e \in Execs, Release(e) \/ ReleaseRefused(e) PROVE AbandonedLeft'
  BY <1>7 DEF Release, ReleaseRefused, Goto
<1>8. ASSUME NEW d \in Dispatchers, Boot(d) \/ Crash(d) \/ Requests(d) PROVE AbandonedLeft'
  BY <1>8 DEF Boot, Crash, Requests, CancelRow, Requeue, RequestRefused
<1>9. ASSUME NEW d \in Dispatchers, NEW j \in Jobs,
             CancelRead(d, j) \/ CancelThreaded(d, j) \/ RequeueRead(d, j)
      PROVE  AbandonedLeft'
  BY <1>9 DEF CancelRead, CancelThreaded, RequeueRead
<1>10. ASSUME NEW j \in Jobs, Lapse(j) PROVE AbandonedLeft'
  BY <1>10 DEF Lapse
<1>11. CASE HoldWriter \/ FreeWriter \/ UNCHANGED vars
  BY <1>11 DEF HoldWriter, FreeWriter, vars
<1> QED
  BY <1>1, <1>2, <1>3, <1>4, <1>5, <1>6, <1>7, <1>8, <1>9, <1>10, <1>11 DEF Next, Acquire, Hold

(* Work that stays pending keeps its properties while its process lives, its    *)
(* waiter waits, its tokens are remembered and rows only fall to new claims.    *)
LEMMA WorkKept ==
    ASSUME TypeOK, AbandonedLeft, PendingInv, pending' \subseteq pending,
           \A w \in pending' : /\ up'[w.on] = "up" /\ (w.by # NoOne => pc'[w.by] = "top")
                               /\ w.tokens \subseteq abandoned',
           \A j \in Jobs : owner'[j] \in {owner[j], NoOne} \/ pc[owner'[j]] = "claim"
    PROVE  PendingInv'
<1>1. ASSUME NEW w \in pending', NEW x \in w.tokens, NEW j \in Jobs, owner'[j] = x
      PROVE  j \in w.cleared
  <2>1. x \in Execs /\ x \in abandoned /\ (owner[j] = x => j \in w.cleared)
    BY <1>1 DEF PendingInv, TypeOK, Work
  <2>2. pc[x] # "claim" /\ x # NoOne
    BY <2>1, NoOneAssumption DEF AbandonedLeft, Ended, NoOneAssumption
  <2> QED
    BY <1>1, <2>1, <2>2
<1> QED
  BY <1>1 DEF PendingInv, Shape

(* A run of the loop moves no waiter whose work is pending.                     *)
LEMMA LoopKeepsWaiters ==
    ASSUME PendingInv, NEW e \in Execs, OnLoop(e), \A x \in Execs \ {e} : pc'[x] = pc[x]
    PROVE  \A w \in pending : w.by # NoOne => pc'[w.by] = "top"
<1> SUFFICES ASSUME NEW w \in pending, w.by # NoOne PROVE pc'[w.by] = "top"
  OBVIOUS
<1>1. w.by \in Execs /\ Home[w.by] = w.on /\ pc[w.by] = "top"
  BY DEF PendingInv, Shape
<1>2. w.by # e
  BY <1>1 DEF OnLoop
<1> QED
  BY <1>1, <1>2

(* Work that was just read has the properties.                                  *)
LEMMA WorkAdded ==
    ASSUME TypeOK, PendingInv, UNCHANGED <<owner, up, pc, abandoned>>,
           NEW w, pending' = pending \cup {w}, \A v \in pending : v.on # w.on,
           up[w.on] = "up", Shape(w), w.by # NoOne => pc[w.by] = "top",
           \A x \in w.tokens : Home[x] = w.on /\ x \in abandoned
                               /\ \A j \in Jobs : owner[j] = x => j \in w.cleared
    PROVE  PendingInv'
BY DEF PendingInv, Shape

(* When one unit of work goes, the others are those of other processes.         *)
LEMMA OthersElsewhere ==
    ASSUME TypeOK, PendingInv, NEW w \in pending, NEW v \in pending \ {w}
    PROVE  /\ v.on # w.on /\ (v.by # NoOne => v.by # w.by)
           /\ v.tokens \cap w.tokens = {}
BY DEF PendingInv, Shape

(* Reading adds a unit of work to a process that has none; flushing and refusal *)
(* remove it.                                                                   *)
LEMMA PendingStep == TypeOK /\ PendingInv /\ AbandonedLeft /\ [Next]_vars => PendingInv'
<1> SUFFICES ASSUME TypeOK, PendingInv, AbandonedLeft, [Next]_vars PROVE PendingInv'
  OBVIOUS
<1>0. /\ \A w \in pending : /\ w \in Work /\ up[w.on] = "up" /\ w.tokens \subseteq abandoned
                            /\ (w.by # NoOne => pc[w.by] = "top")
      /\ \A j \in Jobs : owner[j] \in Execs \cup {NoOne}
  BY DEF PendingInv, TypeOK
<1> USE DEF row, memory, world
<1>1. ASSUME NEW e \in Execs, OnLoop(e), pending' = pending, up' = up,
             abandoned \subseteq abandoned', \A x \in Execs \ {e} : pc'[x] = pc[x],
             \A j \in Jobs : owner'[j] \in {owner[j], NoOne} \/ pc[owner'[j]] = "claim"
      PROVE  PendingInv'
  BY <1>0, <1>1, WorkKept, LoopKeepsWaiters
<1>2. ASSUME UNCHANGED <<pending, pc, up, abandoned>>,
             \A j \in Jobs : owner'[j] \in {owner[j], NoOne}
      PROVE  PendingInv'
  BY <1>0, <1>2, WorkKept
<1>3. ASSUME NEW e \in Execs, NEW j \in Jobs, Start(e, j) PROVE PendingInv'
  BY <1>1, <1>3 DEF Start, TypeOK
<1>4. ASSUME NEW e \in Execs, NothingExpired(e) \/ PassBusy(e) \/ Pass(e) \/ TakeSlot(e)
                              \/ ClaimMissed(e)
      PROVE  PendingInv'
  BY <1>1, <1>4 DEF NothingExpired, PassBusy, Pass, TakeSlot, ClaimMissed, Goto, TypeOK
<1>5. ASSUME NEW e \in Execs, Claim(e) PROVE PendingInv'
  BY <1>1, <1>5 DEF Claim, TypeOK
<1>6. ASSUME NEW e \in Execs, PassSettled(e) \/ CancelWaiting(e) \/ Return(e) PROVE PendingInv'
  BY <1>1, <1>6 DEF PassSettled, CancelWaiting, Return, Leave, TypeOK
<1>7. ASSUME NEW e \in Execs, Renew(e) \/ ClaimLost(e) \/ BodyEnds(e) \/ SettleRetry(e)
      PROVE  PendingInv'
  BY <1>1, <1>7 DEF Renew, ClaimLost, BodyEnds, SettleRetry, Goto, TypeOK
<1>8. ASSUME NEW e \in Execs, Release(e) \/ ReleaseRefused(e) PROVE PendingInv'
  BY <1>1, <1>8 DEF Release, ReleaseRefused, Goto, TypeOK
<1>9. ASSUME NEW e \in Execs, NEW outcome \in {"complete", "failed"}, SettleLate(e, outcome)
      PROVE  PendingInv'
  BY <1>1, <1>9 DEF SettleLate, Leave, TypeOK
<1>10. ASSUME NEW e \in Execs, NEW outcome \in {"complete", "failed"}, Settle(e, outcome)
       PROVE  PendingInv'
  BY <1>2, <1>10 DEF Settle
<1>11. ASSUME NEW e \in Execs, ExpireRead(e) PROVE PendingInv'
  <2> DEFINE w == Sweeping(e, Expired(Home[e]), Active)
  <2>1. /\ w.on = Home[e] /\ w.by = e /\ w.to = "interrupted" /\ w.dropped = {}
        /\ w.cleared = Expired(Home[e]) /\ w.marked \subseteq w.cleared
        /\ w.tokens = {x \in abandoned : Home[x] = Home[e] /\ \E j \in Expired(Home[e]) : owner[j] = x}
    BY DEF Sweeping
  <2>2. Shape(w)
    BY <2>1 DEF Shape
  <2>3. ASSUME NEW x \in w.tokens, NEW j \in Jobs, owner[j] = x PROVE j \in w.cleared
    BY <2>1, <2>3, NoOneAssumption DEF Expired, Claimed, NoOneAssumption, TypeOK
  <2>4. /\ pending' = pending \cup {w} /\ UNCHANGED <<owner, up, pc, abandoned>>
        /\ pc[e] = "top" /\ up[Home[e]] = "up" /\ \A v \in pending : v.on # Home[e]
    BY <1>11 DEF ExpireRead, OnLoop, Up
  <2> HIDE DEF w
  <2> QED
    BY <2>1, <2>2, <2>3, <2>4, WorkAdded
<1>12. ASSUME NEW e \in Execs, Expire(e) PROVE PendingInv'
  <2>1. PICK w \in pending : w.by = e /\ Flush(w) /\ abandoned' = abandoned \ w.tokens
    BY <1>12 DEF Expire
  <2>2. /\ pending' = pending \ {w} /\ up' = up /\ \A x \in Execs \ {e} : pc'[x] = pc[x]
        /\ \A j \in Jobs : owner'[j] \in {owner[j], NoOne}
    BY <1>12, <2>1 DEF Expire, Flush, Goto, TypeOK
  <2>3. ASSUME NEW v \in pending'
        PROVE  up'[v.on] = "up" /\ (v.by # NoOne => pc'[v.by] = "top") /\ v.tokens \subseteq abandoned'
    <3>1. v \in pending \ {w} /\ v.by \in Execs \cup {NoOne}
      BY <1>0, <2>2, <2>3 DEF Work
    <3> QED
      BY <1>0, <2>1, <2>2, <3>1, OthersElsewhere
  <2> QED
    BY <2>2, <2>3, WorkKept
<1>13. ASSUME NEW e \in Execs, ExpireRefused(e) PROVE PendingInv'
  <2>1. PICK w \in pending : w.by = e /\ pending' = pending \ {w}
    BY <1>13 DEF ExpireRefused
  <2>2. /\ up' = up /\ \A x \in Execs \ {e} : pc'[x] = pc[x]
        /\ owner' = owner /\ abandoned' = abandoned
    BY <1>13 DEF ExpireRefused, Leave, TypeOK
  <2>3. ASSUME NEW v \in pending'
        PROVE  up'[v.on] = "up" /\ (v.by # NoOne => pc'[v.by] = "top") /\ v.tokens \subseteq abandoned'
    <3>1. v \in pending \ {w} /\ v.by \in Execs \cup {NoOne}
      BY <1>0, <2>1, <2>3 DEF Work
    <3> QED
      BY <1>0, <2>1, <2>2, <3>1, OthersElsewhere
  <2> QED
    BY <2>1, <2>2, <2>3, WorkKept
<1>14. ASSUME NEW j \in Jobs, Lapse(j) PROVE PendingInv'
  BY <1>2, <1>14 DEF Lapse
<1>15. ASSUME NEW d \in Dispatchers, NEW j \in Jobs, CancelRead(d, j) PROVE PendingInv'
  <2> DEFINE w == Request(d, j, "cancelled", {}, {})
  <2>1. /\ w.on = d /\ w.by = NoOne /\ w.to = "cancelled" /\ w.dropped = {} /\ w.cleared = {}
        /\ w.marked = {j} /\ w.tokens = {}
    BY DEF Request
  <2>2. Shape(w)
    BY <2>1 DEF Shape
  <2>3. /\ pending' = pending \cup {w} /\ UNCHANGED <<owner, up, pc, abandoned>>
        /\ up[d] = "up" /\ \A v \in pending : v.on # d
    BY <1>15 DEF CancelRead, LoopFree
  <2> HIDE DEF w
  <2> QED
    BY <2>1, <2>2, <2>3, WorkAdded
<1>16. ASSUME NEW d \in Dispatchers, NEW j \in Jobs, RequeueRead(d, j) PROVE PendingInv'
  <2> DEFINE w == Request(d, j, "queued", {j} \cap Claimed, {k \in {j} : result[k] # 0})
  <2>1. /\ w.on = d /\ w.by = NoOne /\ w.to = "queued" /\ w.dropped \subseteq {j}
        /\ w.cleared \subseteq {j} /\ w.marked = {j} /\ w.tokens = {}
    BY DEF Request
  <2>2. Shape(w)
    BY <2>1 DEF Shape
  <2>3. /\ pending' = pending \cup {w} /\ UNCHANGED <<owner, up, pc, abandoned>>
        /\ up[d] = "up" /\ \A v \in pending : v.on # d
    BY <1>16 DEF RequeueRead, LoopFree
  <2> HIDE DEF w
  <2> QED
    BY <2>1, <2>2, <2>3, WorkAdded
<1>17. ASSUME NEW d \in Dispatchers, NEW j \in Jobs, CancelThreaded(d, j) PROVE PendingInv'
  BY <1>2, <1>17 DEF CancelThreaded
<1>18. ASSUME NEW d \in Dispatchers, CancelRow(d) \/ Requeue(d) PROVE PendingInv'
  <2>1. PICK w \in pending : Flush(w)
    BY <1>18 DEF CancelRow, Requeue
  <2>2. pending' \subseteq pending /\ \A j \in Jobs : owner'[j] \in {owner[j], NoOne}
    BY <2>1 DEF Flush, TypeOK
  <2>3. up' = up /\ pc' = pc /\ abandoned' = abandoned
    BY <1>18 DEF CancelRow, Requeue
  <2> QED
    BY <1>0, <2>2, <2>3, WorkKept
<1>19. ASSUME NEW d \in Dispatchers, RequestRefused(d) PROVE PendingInv'
  <2>1. pending' \subseteq pending /\ UNCHANGED <<owner, up, pc, abandoned>>
    BY <1>19 DEF RequestRefused
  <2> QED
    BY <1>0, <2>1, WorkKept
<1>20. ASSUME NEW d \in Dispatchers, Boot(d) PROVE PendingInv'
  <2>1. /\ pending' = pending /\ pc' = pc /\ abandoned' = abandoned
        /\ \A c \in Dispatchers : up[c] = "up" => up'[c] = "up"
        /\ \A j \in Jobs : owner'[j] = NoOne
    BY <1>20 DEF Boot, TypeOK
  <2>2. \A w \in pending : w.on \in Dispatchers
    BY <1>0 DEF Work
  <2> QED
    BY <1>0, <2>1, <2>2, WorkKept
<1>21. ASSUME NEW d \in Dispatchers, Crash(d) PROVE PendingInv'
  <2>1. /\ pending' \subseteq pending /\ owner' = owner
        /\ \A w \in pending' : w.on # d
        /\ \A c \in Dispatchers \ {d} : up'[c] = up[c]
        /\ \A e \in Execs : Home[e] # d => pc'[e] = pc[e]
        /\ \A x \in abandoned : Home[x] # d => x \in abandoned'
    BY <1>21 DEF Crash, TypeOK
  <2>2. ASSUME NEW w \in pending'
        PROVE  up'[w.on] = "up" /\ (w.by # NoOne => pc'[w.by] = "top") /\ w.tokens \subseteq abandoned'
    <3>1. /\ w.on \in Dispatchers \ {d} /\ up[w.on] = "up"
          /\ (w.by # NoOne => w.by \in Execs /\ Home[w.by] = w.on /\ pc[w.by] = "top")
          /\ \A x \in w.tokens : x \in abandoned /\ Home[x] = w.on
      BY <1>0, <2>1, <2>2 DEF Work, PendingInv, Shape
    <3> QED
      BY <2>1, <3>1
  <2> QED
    BY <2>1, <2>2, WorkKept
<1>22. CASE HoldWriter \/ FreeWriter \/ UNCHANGED vars
  BY <1>2, <1>22 DEF HoldWriter, FreeWriter, vars
<1> QED
  BY <1>3, <1>4, <1>5, <1>6, <1>7, <1>8, <1>9, <1>10, <1>11, <1>12, <1>13, <1>14, <1>15, <1>16,
     <1>17, <1>18, <1>19, <1>20, <1>21, <1>22 DEF Next, Acquire, Hold, Requests

(* So it holds throughout.                                                      *)
LEMMA PendingHolds == Spec => [](PendingInv /\ AbandonedLeft)
<1>1. Init => PendingInv /\ AbandonedLeft
  BY DEF Init, PendingInv, AbandonedLeft
<1> QED
  BY <1>1, TypeCorrect, PendingStep, AbandonedStep, PTL DEF Spec

(* What a flush writes: no outcome, no start, and a result only away.           *)
LEMMA FlushWrites ==
    ASSUME TypeOK, PendingInv, NEW w \in pending, Flush(w)
    PROVE  /\ w.to \in {"interrupted", "cancelled", "queued"} /\ w.dropped \subseteq w.marked
           /\ \A j \in Jobs : /\ status'[j] = IF j \in w.marked THEN w.to ELSE status[j]
                              /\ owner'[j] = IF j \in w.cleared THEN NoOne ELSE owner[j]
                              /\ result'[j] = IF j \in w.dropped THEN 0 ELSE result[j]
BY DEF PendingInv, Shape, Flush

--------------------------------------------------------------------------------
(* Claims.                                                                      *)

(* A step keeps every claim accounted for: the finally block of job_lease       *)
(* either clears the row or remembers the token, and the expiry forgets a token *)
(* only together with the rows that name it.                                    *)
LEMMA AccountedStep == TypeOK /\ PendingInv /\ OwnerAccounted /\ [Next]_vars => OwnerAccounted'
<1> SUFFICES ASSUME TypeOK, PendingInv, OwnerAccounted, [Next]_vars PROVE OwnerAccounted'
  OBVIOUS
<1> USE NoOneAssumption DEF TypeOK, OwnerAccounted, row, memory, world, NoOneAssumption
<1>1. ASSUME NEW e \in Execs, NEW j \in Jobs, Start(e, j) PROVE OwnerAccounted'
  BY <1>1 DEF Start
<1>2. ASSUME NEW e \in Execs, Acquire(e) PROVE OwnerAccounted'
  <2>1. CASE NothingExpired(e)
    BY <2>1 DEF NothingExpired, Goto
  <2>2. CASE Expire(e)
    <3>1. PICK w \in pending : Flush(w) /\ abandoned' = abandoned \ w.tokens
      BY <2>2 DEF Expire
    <3> SUFFICES ASSUME NEW j \in Jobs, NEW x \in Execs, owner'[j] = x
                 PROVE  \/ pc'[x] \in {"held", "exit"} /\ job'[x] = j /\ held'[x] = attempt'[j]
                        \/ x \in abandoned'
                        \/ up'[Home[x]] = "down"
      BY DEF OwnerAccounted
    <3>2. owner[j] = x /\ j \notin w.cleared
      BY <3>1 DEF Flush
    <3>3. x \notin w.tokens
      BY <3>2 DEF PendingInv
    <3> QED
      BY <2>2, <3>1, <3>2, <3>3 DEF Expire, Goto
  <2>3. CASE ExpireRefused(e)
    BY <2>3 DEF ExpireRefused, Leave
  <2>4. CASE PassSettled(e)
    BY <2>4 DEF PassSettled, Leave
  <2>5. CASE PassBusy(e)
    BY <2>5 DEF PassBusy, Goto
  <2>6. CASE Pass(e)
    BY <2>6 DEF Pass, Goto
  <2>7. CASE TakeSlot(e)
    BY <2>7 DEF TakeSlot, Goto
  <2>8. CASE Claim(e)
    BY <2>8 DEF Claim
  <2>9. CASE ClaimMissed(e)
    BY <2>9 DEF ClaimMissed, Goto
  <2>10. CASE ExpireRead(e)
    BY <2>10 DEF ExpireRead
  <2> QED
    BY <1>2, <2>1, <2>2, <2>3, <2>4, <2>5, <2>6, <2>7, <2>8, <2>9, <2>10 DEF Acquire
<1>3. ASSUME NEW e \in Execs, CancelWaiting(e) PROVE OwnerAccounted'
  BY <1>3 DEF CancelWaiting, Leave
<1>4. ASSUME NEW e \in Execs, Hold(e) PROVE OwnerAccounted'
  <2>1. CASE Renew(e)
    BY <2>1 DEF Renew
  <2>2. CASE ClaimLost(e)
    BY <2>2 DEF ClaimLost, Goto
  <2>3. ASSUME NEW outcome \in {"complete", "failed"}, Settle(e, outcome)
        PROVE  OwnerAccounted'
    BY <2>3 DEF Settle
  <2>4. ASSUME NEW outcome \in {"complete", "failed"}, SettleLate(e, outcome)
        PROVE  OwnerAccounted'
    BY <2>4 DEF SettleLate, Leave
  <2>5. CASE SettleRetry(e)
    BY <2>5 DEF SettleRetry
  <2>6. CASE BodyEnds(e)
    BY <2>6 DEF BodyEnds, Goto
  <2>7. CASE Release(e)
    BY <2>7 DEF Release, Goto
  <2>8. CASE ReleaseRefused(e)
    BY <2>8 DEF ReleaseRefused, Goto
  <2>9. CASE Return(e)
    BY <2>9 DEF Return, Leave
  <2> QED
    BY <1>4, <2>1, <2>2, <2>3, <2>4, <2>5, <2>6, <2>7, <2>8, <2>9 DEF Hold
<1>5. ASSUME NEW j \in Jobs, Lapse(j) PROVE OwnerAccounted'
  BY <1>5 DEF Lapse
<1>6. ASSUME NEW d \in Dispatchers, NEW j \in Jobs,
             CancelRead(d, j) \/ CancelThreaded(d, j) \/ RequeueRead(d, j)
      PROVE  OwnerAccounted'
  BY <1>6 DEF CancelRead, CancelThreaded, RequeueRead
<1>7. ASSUME NEW d \in Dispatchers, Requests(d) PROVE OwnerAccounted'
  <2>1. CASE RequestRefused(d)
    BY <2>1 DEF RequestRefused
  <2>2. CASE CancelRow(d) \/ Requeue(d)
    <3>1. PICK w \in pending : Flush(w)
      BY <2>2 DEF CancelRow, Requeue
    <3>2. \A j \in Jobs : owner'[j] \in {owner[j], NoOne}
      BY <3>1 DEF Flush
    <3> QED
      BY <2>2, <3>2 DEF CancelRow, Requeue
  <2> QED
    BY <1>7, <2>1, <2>2 DEF Requests
<1>8. ASSUME NEW d \in Dispatchers, Boot(d) PROVE OwnerAccounted'
  BY <1>8 DEF Boot
<1>9. ASSUME NEW d \in Dispatchers, Crash(d) PROVE OwnerAccounted'
  BY <1>9, HomeAssumption DEF Crash, HomeAssumption
<1>10. CASE HoldWriter
  BY <1>10 DEF HoldWriter
<1>11. CASE FreeWriter
  BY <1>11 DEF FreeWriter
<1>12. CASE UNCHANGED vars
  BY <1>12 DEF vars
<1> QED
  BY <1>1, <1>2, <1>3, <1>4, <1>5, <1>6, <1>7, <1>8, <1>9, <1>10, <1>11, <1>12 DEF Next

(* No claim is ever lost: at every moment each claimed row belongs to a running *)
(* lease for its attempt, to a remembered token or to a dead process.           *)
THEOREM ClaimsAccounted == Spec => []OwnerAccounted
<1>1. Init => OwnerAccounted
  BY NoOneAssumption DEF Init, OwnerAccounted, NoOneAssumption
<1> QED
  BY <1>1, TypeCorrect, PendingHolds, AccountedStep, PTL DEF Spec

--------------------------------------------------------------------------------
(* Outcomes.                                                                    *)

(* What holds of outcomes even while processes overwrite each other's flushes:  *)
(* no row carries an outcome of an attempt that was not made, a running row none*)
(* of the attempt it runs, and a settled row that of its newest attempt.        *)
OutcomeInv ==
    \A j \in Jobs :
        /\ result[j] <= attempt[j]
        /\ status[j] = "running" => result[j] < attempt[j]
        /\ status[j] \in {"complete", "failed"} => result[j] = attempt[j] /\ attempt[j] > 0

(* Every write of a result is bound to the attempt the row counts, and no flush *)
(* settles a row or sets it running.                                            *)
LEMMA OutcomeStep == TypeOK /\ PendingInv /\ OutcomeInv /\ [Next]_vars => OutcomeInv'
<1> SUFFICES ASSUME TypeOK, PendingInv, OutcomeInv, [Next]_vars PROVE OutcomeInv'
  OBVIOUS
<1>0. ASSUME NEW w \in pending, Flush(w), attempt' = attempt PROVE OutcomeInv'
  BY <1>0, FlushWrites DEF OutcomeInv, TypeOK
<1> USE DEF TypeOK, OutcomeInv, Active, Unsuccessful, Terminal, Statuses, row, memory, world
<1>1. ASSUME NEW e \in Execs, NEW j \in Jobs, Start(e, j) PROVE OutcomeInv'
  BY <1>1 DEF Start
<1>2. ASSUME NEW e \in Execs, Acquire(e) PROVE OutcomeInv'
  <2>1. CASE NothingExpired(e)
    BY <2>1 DEF NothingExpired, Goto
  <2>2. CASE Expire(e)
    BY <1>0, <2>2 DEF Expire
  <2>3. CASE ExpireRefused(e)
    BY <2>3 DEF ExpireRefused, Leave
  <2>4. CASE PassSettled(e)
    BY <2>4 DEF PassSettled, Leave
  <2>5. CASE PassBusy(e)
    BY <2>5 DEF PassBusy, Goto
  <2>6. CASE Pass(e)
    BY <2>6 DEF Pass, Goto
  <2>7. CASE TakeSlot(e)
    BY <2>7 DEF TakeSlot, Goto
  <2>8. CASE Claim(e)
    BY <2>8 DEF Claim
  <2>9. CASE ClaimMissed(e)
    BY <2>9 DEF ClaimMissed, Goto
  <2>10. CASE ExpireRead(e)
    BY <2>10 DEF ExpireRead
  <2> QED
    BY <1>2, <2>1, <2>2, <2>3, <2>4, <2>5, <2>6, <2>7, <2>8, <2>9, <2>10 DEF Acquire
<1>3. ASSUME NEW e \in Execs, CancelWaiting(e) PROVE OutcomeInv'
  BY <1>3 DEF CancelWaiting, Leave
<1>4. ASSUME NEW e \in Execs, Hold(e) PROVE OutcomeInv'
  <2>1. CASE Renew(e)
    BY <2>1 DEF Renew
  <2>2. CASE ClaimLost(e)
    BY <2>2 DEF ClaimLost, Goto
  <2>3. ASSUME NEW outcome \in {"complete", "failed"}, Settle(e, outcome)
        PROVE  OutcomeInv'
    BY <2>3 DEF Settle, Current
  <2>4. ASSUME NEW outcome \in {"complete", "failed"}, SettleLate(e, outcome)
        PROVE  OutcomeInv'
    BY <2>4 DEF SettleLate, Leave, Stages, Ended, Waiting, InSlot
  <2>5. CASE SettleRetry(e)
    BY <2>5 DEF SettleRetry, Current
  <2>6. CASE BodyEnds(e)
    BY <2>6 DEF BodyEnds, Goto
  <2>7. CASE Release(e)
    BY <2>7 DEF Release, Goto
  <2>8. CASE ReleaseRefused(e)
    BY <2>8 DEF ReleaseRefused, Goto
  <2>9. CASE Return(e)
    BY <2>9 DEF Return, Leave
  <2> QED
    BY <1>4, <2>1, <2>2, <2>3, <2>4, <2>5, <2>6, <2>7, <2>8, <2>9 DEF Hold
<1>5. ASSUME NEW j \in Jobs, Lapse(j) PROVE OutcomeInv'
  BY <1>5 DEF Lapse
<1>6. ASSUME NEW d \in Dispatchers, NEW j \in Jobs,
             CancelRead(d, j) \/ CancelThreaded(d, j) \/ RequeueRead(d, j)
      PROVE  OutcomeInv'
  BY <1>6 DEF CancelRead, CancelThreaded, RequeueRead
<1>7. ASSUME NEW d \in Dispatchers, Requests(d) PROVE OutcomeInv'
  BY <1>0, <1>7 DEF Requests, CancelRow, Requeue, RequestRefused
<1>8. ASSUME NEW d \in Dispatchers, Boot(d) PROVE OutcomeInv'
  BY <1>8 DEF Boot
<1>9. ASSUME NEW d \in Dispatchers, Crash(d) PROVE OutcomeInv'
  BY <1>9 DEF Crash
<1>10. CASE HoldWriter
  BY <1>10 DEF HoldWriter
<1>11. CASE FreeWriter
  BY <1>11 DEF FreeWriter
<1>12. CASE UNCHANGED vars
  BY <1>12 DEF vars
<1> QED
  BY <1>1, <1>2, <1>3, <1>4, <1>5, <1>6, <1>7, <1>8, <1>9, <1>10, <1>11, <1>12 DEF Next

(* So it holds throughout.                                                      *)
LEMMA OutcomeHolds == Spec => []OutcomeInv
<1>1. Init => OutcomeInv
  BY DEF Init, OutcomeInv
<1> QED
  BY <1>1, TypeCorrect, PendingHolds, OutcomeStep, PTL DEF Spec

--------------------------------------------------------------------------------
(* Capacity.                                                                    *)

(* Only a running process executes anything.                                    *)
RunsUp == \A e \in Execs : pc[e] \notin {"new"} \cup Ended => Up(e)

(* A claim is taken with room for it: the count read by the ranking still       *)
(* leaves room when the UPDATE runs, because one process takes all the claims   *)
(* and its event loop runs nothing else between the two.                        *)
CapacityInv ==
    /\ RunsUp
    /\ Overlap \/ /\ \A c, d \in Dispatchers : up[c] = "up" /\ up[d] = "up" => c = d
                  /\ Cardinality(Claimed) <= Capacity
                  /\ \A e \in Execs : pc[e] = "claim" => Cardinality(Claimed) < Capacity

(* Claims, and the jobs before another, are finitely many and can be counted.   *)
LEMMA ClaimedFinite ==
    /\ IsFiniteSet(Claimed) /\ Cardinality(Claimed) \in Nat
    /\ \A j \in Jobs : IsFiniteSet(Before(j)) /\ Cardinality(Before(j)) \in Nat
<1>1. Claimed \subseteq Jobs /\ \A j \in Jobs : Before(j) \subseteq Jobs
  BY DEF Claimed, Before, Eligible
<1> QED
  BY <1>1, FiniteAssumption, FS_Subset, FS_CardinalityType DEF FiniteAssumption

(* One more claim is counted once.                                              *)
LEMMA OneMore ==
    ASSUME NEW S, NEW T, NEW x, IsFiniteSet(S), T = S \cup {x}
    PROVE  Cardinality(T) <= Cardinality(S) + 1 /\ Cardinality(T) \in Nat
BY FS_AddElement, FS_CardinalityType

(* A step that takes no claim, ranks nobody first and starts no process keeps   *)
(* the room there was.                                                          *)
LEMMA NoNewClaim ==
    ASSUME CapacityInv, RunsUp',
           Claimed' \subseteq Claimed,
           \A e \in Execs : pc'[e] = "claim" => pc[e] = "claim",
           \A d \in Dispatchers : up'[d] = "up" => up[d] = "up"
    PROVE  CapacityInv'
<1>1. Cardinality(Claimed') <= Cardinality(Claimed) /\ Cardinality(Claimed') \in Nat
  BY ClaimedFinite, FS_Subset, FS_CardinalityType
<1> QED
  BY <1>1, ClaimedFinite, CapacityAssumption DEF CapacityInv, CapacityAssumption

(* Executions of a process that is not running do not move.                     *)
LEMMA RunsUpStep == TypeOK /\ RunsUp /\ [Next]_vars => RunsUp'
<1> SUFFICES ASSUME TypeOK, RunsUp, [Next]_vars PROVE RunsUp'
  OBVIOUS
<1> USE HomeAssumption DEF TypeOK, RunsUp, Up, OnLoop, Ended, Stages, Waiting, InSlot, HomeAssumption, row, memory, world
<1>1. ASSUME NEW e \in Execs, NEW j \in Jobs, Start(e, j) PROVE RunsUp'
  BY <1>1 DEF Start
<1>2. ASSUME NEW e \in Execs, Acquire(e) PROVE RunsUp'
  <2>1. CASE NothingExpired(e)
    BY <2>1 DEF NothingExpired, Goto
  <2>2. CASE Expire(e)
    BY <2>2 DEF Expire, Goto
  <2>3. CASE ExpireRefused(e)
    BY <2>3 DEF ExpireRefused, Leave
  <2>4. CASE PassSettled(e)
    BY <2>4 DEF PassSettled, Leave
  <2>5. CASE PassBusy(e)
    BY <2>5 DEF PassBusy, Goto
  <2>6. CASE Pass(e)
    BY <2>6 DEF Pass, Goto
  <2>7. CASE TakeSlot(e)
    BY <2>7 DEF TakeSlot, Goto
  <2>8. CASE Claim(e)
    BY <2>8 DEF Claim
  <2>9. CASE ClaimMissed(e)
    BY <2>9 DEF ClaimMissed, Goto
  <2>10. CASE ExpireRead(e)
    BY <2>10 DEF ExpireRead
  <2> QED
    BY <1>2, <2>1, <2>2, <2>3, <2>4, <2>5, <2>6, <2>7, <2>8, <2>9, <2>10 DEF Acquire
<1>3. ASSUME NEW e \in Execs, CancelWaiting(e) PROVE RunsUp'
  BY <1>3 DEF CancelWaiting, Leave
<1>4. ASSUME NEW e \in Execs, Hold(e) PROVE RunsUp'
  <2>1. CASE Renew(e)
    BY <2>1 DEF Renew
  <2>2. CASE ClaimLost(e)
    BY <2>2 DEF ClaimLost, Goto
  <2>3. ASSUME NEW outcome \in {"complete", "failed"}, Settle(e, outcome)
        PROVE  RunsUp'
    BY <2>3 DEF Settle
  <2>4. ASSUME NEW outcome \in {"complete", "failed"}, SettleLate(e, outcome)
        PROVE  RunsUp'
    BY <2>4 DEF SettleLate, Leave
  <2>5. CASE SettleRetry(e)
    BY <2>5 DEF SettleRetry
  <2>6. CASE BodyEnds(e)
    BY <2>6 DEF BodyEnds, Goto
  <2>7. CASE Release(e)
    BY <2>7 DEF Release, Goto
  <2>8. CASE ReleaseRefused(e)
    BY <2>8 DEF ReleaseRefused, Goto
  <2>9. CASE Return(e)
    BY <2>9 DEF Return, Leave
  <2> QED
    BY <1>4, <2>1, <2>2, <2>3, <2>4, <2>5, <2>6, <2>7, <2>8, <2>9 DEF Hold
<1>5. ASSUME NEW j \in Jobs, Lapse(j) PROVE RunsUp'
  BY <1>5 DEF Lapse
<1>6. ASSUME NEW d \in Dispatchers, NEW j \in Jobs,
             CancelRead(d, j) \/ CancelThreaded(d, j) \/ RequeueRead(d, j)
      PROVE  RunsUp'
  BY <1>6 DEF CancelRead, CancelThreaded, RequeueRead
<1>7. ASSUME NEW d \in Dispatchers, Requests(d) PROVE RunsUp'
  BY <1>7 DEF Requests, CancelRow, Requeue, RequestRefused
<1>8. ASSUME NEW d \in Dispatchers, Boot(d) PROVE RunsUp'
  BY <1>8 DEF Boot
<1>9. ASSUME NEW d \in Dispatchers, Crash(d) PROVE RunsUp'
  BY <1>9 DEF Crash
<1>10. CASE HoldWriter
  BY <1>10 DEF HoldWriter
<1>11. CASE FreeWriter
  BY <1>11 DEF FreeWriter
<1>12. CASE UNCHANGED vars
  BY <1>12 DEF vars
<1> QED
  BY <1>1, <1>2, <1>3, <1>4, <1>5, <1>6, <1>7, <1>8, <1>9, <1>10, <1>11, <1>12 DEF Next

(* Only a claim adds one, and it has counted the others in the same             *)
(* transaction.                                                                 *)
LEMMA CapacityStep == TypeOK /\ CapacityInv /\ [Next]_vars => CapacityInv'
<1> SUFFICES ASSUME TypeOK, CapacityInv, [Next]_vars PROVE CapacityInv'
  OBVIOUS
<1>0. RunsUp'
  BY RunsUpStep DEF CapacityInv
<1> USE DEF TypeOK, row, memory, world
<1>1. ASSUME NEW e \in Execs, NEW j \in Jobs, Start(e, j) PROVE CapacityInv'
  BY <1>1, <1>0, NoNewClaim DEF Start, Claimed
<1>2. ASSUME NEW e \in Execs, Acquire(e) PROVE CapacityInv'
  <2>1. CASE NothingExpired(e)
    BY <2>1, <1>0, NoNewClaim DEF NothingExpired, Goto, Claimed
  <2>2. CASE Expire(e)
    <3>1. PICK w \in pending : Flush(w)
      BY <2>2 DEF Expire
    <3>2. Claimed' \subseteq Claimed
      BY <3>1 DEF Flush, Claimed
    <3> QED
      BY <2>2, <3>2, <1>0, NoNewClaim DEF Expire, Goto
  <2>3. CASE ExpireRefused(e)
    BY <2>3, <1>0, NoNewClaim DEF ExpireRefused, Leave, Claimed
  <2>4. CASE PassSettled(e)
    BY <2>4, <1>0, NoNewClaim DEF PassSettled, Leave, Claimed
  <2>5. CASE PassBusy(e)
    BY <2>5, <1>0, NoNewClaim DEF PassBusy, Goto, Claimed
  <2>6. CASE Pass(e)
    BY <2>6, <1>0, NoNewClaim DEF Pass, Goto, Claimed
  <2>7. CASE TakeSlot(e)
    <3>1. Claimed' = Claimed /\ up' = up
      BY <2>7 DEF TakeSlot, Claimed
    <3>2. ASSUME NEW x \in Execs, pc'[x] = "claim", pc[x] # "claim"
          PROVE  Cardinality(Claimed) < Capacity
      <4>1. x = e /\ InTurn(job[e]) /\ job[e] \in Jobs
        BY <2>7, <3>2 DEF TakeSlot, Goto, Ended
      <4> QED
        BY <4>1, ClaimedFinite, CapacityAssumption DEF InTurn, CapacityAssumption
    <3> QED
      BY <1>0, <3>1, <3>2 DEF CapacityInv
  <2>8. CASE Claim(e)
    <3>1. Claimed' = Claimed \cup {job[e]}
      BY <2>8, NoOneAssumption DEF Claim, Claimed, NoOneAssumption, Ended
    <3>2. Cardinality(Claimed') <= Cardinality(Claimed) + 1 /\ Cardinality(Claimed') \in Nat
      BY <3>1, ClaimedFinite, OneMore
    <3>3. Overlap \/ \A x \in Execs : pc'[x] # "claim"
      BY <2>8, HomeAssumption
      DEF Claim, OnLoop, CapacityInv, RunsUp, Up, Ended, HomeAssumption
    <3>4. up' = up /\ pc[e] = "claim"
      BY <2>8 DEF Claim
    <3> QED
      BY <1>0, <3>2, <3>3, <3>4, ClaimedFinite, CapacityAssumption
      DEF CapacityInv, CapacityAssumption
  <2>9. CASE ClaimMissed(e)
    BY <2>9, <1>0, NoNewClaim DEF ClaimMissed, Goto, Claimed
  <2>10. CASE ExpireRead(e)
    BY <2>10, <1>0, NoNewClaim DEF ExpireRead, Claimed
  <2> QED
    BY <1>2, <2>1, <2>2, <2>3, <2>4, <2>5, <2>6, <2>7, <2>8, <2>9, <2>10 DEF Acquire
<1>3. ASSUME NEW e \in Execs, CancelWaiting(e) PROVE CapacityInv'
  BY <1>3, <1>0, NoNewClaim DEF CancelWaiting, Leave, Claimed
<1>4. ASSUME NEW e \in Execs, Hold(e) PROVE CapacityInv'
  <2>1. CASE Renew(e)
    BY <2>1, <1>0, NoNewClaim DEF Renew, Claimed
  <2>2. CASE ClaimLost(e)
    BY <2>2, <1>0, NoNewClaim DEF ClaimLost, Goto, Claimed
  <2>3. ASSUME NEW outcome \in {"complete", "failed"}, Settle(e, outcome)
        PROVE  CapacityInv'
    BY <2>3, <1>0, NoNewClaim DEF Settle, Claimed
  <2>4. ASSUME NEW outcome \in {"complete", "failed"}, SettleLate(e, outcome)
        PROVE  CapacityInv'
    BY <2>4, <1>0, NoNewClaim DEF SettleLate, Leave, Claimed
  <2>5. CASE SettleRetry(e)
    BY <2>5, <1>0, NoNewClaim DEF SettleRetry, Claimed
  <2>6. CASE BodyEnds(e)
    BY <2>6, <1>0, NoNewClaim DEF BodyEnds, Goto, Claimed
  <2>7. CASE Release(e)
    BY <2>7, <1>0, NoNewClaim DEF Release, Goto, Claimed
  <2>8. CASE ReleaseRefused(e)
    BY <2>8, <1>0, NoNewClaim DEF ReleaseRefused, Goto, Claimed
  <2>9. CASE Return(e)
    BY <2>9, <1>0, NoNewClaim DEF Return, Leave, Claimed
  <2> QED
    BY <1>4, <2>1, <2>2, <2>3, <2>4, <2>5, <2>6, <2>7, <2>8, <2>9 DEF Hold
<1>5. ASSUME NEW j \in Jobs, Lapse(j) PROVE CapacityInv'
  BY <1>5, <1>0, NoNewClaim DEF Lapse, Claimed
<1>6. ASSUME NEW d \in Dispatchers, NEW j \in Jobs,
             CancelRead(d, j) \/ CancelThreaded(d, j) \/ RequeueRead(d, j)
      PROVE  CapacityInv'
  BY <1>6, <1>0, NoNewClaim DEF CancelRead, CancelThreaded, RequeueRead, Claimed
<1>7. ASSUME NEW d \in Dispatchers, Requests(d) PROVE CapacityInv'
  <2>1. CASE RequestRefused(d)
    BY <2>1, <1>0, NoNewClaim DEF RequestRefused, Claimed
  <2>2. CASE CancelRow(d) \/ Requeue(d)
    <3>1. PICK w \in pending : Flush(w)
      BY <2>2 DEF CancelRow, Requeue
    <3>2. Claimed' \subseteq Claimed
      BY <3>1 DEF Flush, Claimed
    <3> QED
      BY <2>2, <3>2, <1>0, NoNewClaim DEF CancelRow, Requeue
  <2> QED
    BY <1>7, <2>1, <2>2 DEF Requests
<1>8. ASSUME NEW d \in Dispatchers, Boot(d) PROVE CapacityInv'
  <2>1. Claimed' \subseteq Claimed /\ pc' = pc
    BY <1>8 DEF Boot, Claimed
  <2>2. Cardinality(Claimed') <= Cardinality(Claimed) /\ Cardinality(Claimed') \in Nat
    BY <2>1, ClaimedFinite, FS_Subset, FS_CardinalityType
  <2>3. Overlap \/ \A c, x \in Dispatchers : up'[c] = "up" /\ up'[x] = "up" => c = x
    BY <1>8 DEF Boot
  <2> QED
    BY <1>0, <2>1, <2>2, <2>3, ClaimedFinite, CapacityAssumption
    DEF CapacityInv, CapacityAssumption
<1>9. ASSUME NEW d \in Dispatchers, Crash(d) PROVE CapacityInv'
  BY <1>9, <1>0, NoNewClaim DEF Crash, Claimed
<1>10. CASE HoldWriter
  BY <1>10, <1>0, NoNewClaim DEF HoldWriter, Claimed
<1>11. CASE FreeWriter
  BY <1>11, <1>0, NoNewClaim DEF FreeWriter, Claimed
<1>12. CASE UNCHANGED vars
  BY <1>12, <1>0, NoNewClaim DEF vars, Claimed
<1> QED
  BY <1>1, <1>2, <1>3, <1>4, <1>5, <1>6, <1>7, <1>8, <1>9, <1>10, <1>11, <1>12 DEF Next

(* In every reachable state there is room for the claim that is being taken.    *)
LEMMA RoomAlways == Spec => []CapacityInv
<1>1. ASSUME Init PROVE CapacityInv
  <2>1. Claimed = {}
    BY <1>1, NoOneAssumption DEF Init, Claimed
  <2> QED
    BY <1>1, <2>1, FS_EmptySet, CapacityAssumption
    DEF Init, CapacityInv, RunsUp, CapacityAssumption
<1> QED
  BY <1>1, TypeCorrect, CapacityStep, PTL DEF Spec

(* With one process at a time a group never carries more claims than its        *)
(* capacity, whatever crashes and refused releases leave behind.                *)
THEOREM CapacityKept == Spec => []ClaimsWithinCapacity
<1>1. CapacityInv => ClaimsWithinCapacity
  BY DEF CapacityInv, ClaimsWithinCapacity
<1> QED
  BY <1>1, RoomAlways, PTL

--------------------------------------------------------------------------------
(* One process at a time: what was read is still so when it is written.         *)

(* The rows of pending work, as they were read: a sweep's are claimed by nobody *)
(* at work and marked if they are not settled, a cancel's are not settled and   *)
(* written by no thread, a retry's did not succeed.                             *)
AsRead ==
    \A w \in pending :
        /\ w.to = "interrupted" =>
              \A j \in w.cleared : /\ owner[j] # NoOne /\ pc[owner[j]] \notin {"held", "exit"}
                                   /\ j \in w.marked <=> status[j] \in Active
        /\ w.to = "cancelled" =>
              \A j \in w.marked : j \notin Threaded /\ status[j] \in Active \cup {"interrupted"}
        /\ w.to = "queued" =>
              \A j \in w.marked : /\ status[j] \in Unsuccessful
                                  /\ j \in w.cleared \/ owner[j] = NoOne
                                  /\ j \in w.dropped \/ result[j] = 0

(* Only an abandoned claim, or one whose process is gone, expires for a         *)
(* dispatcher that runs alone.                                                  *)
LEMMA ExpiredLeft ==
    ASSUME ~Overlap, TypeOK, CapacityInv, AbandonedLeft,
           NEW d \in Dispatchers, up[d] = "up", NEW j \in Expired(d)
    PROVE  owner[j] # NoOne /\ pc[owner[j]] \notin {"held", "exit"}
<1> SUFFICES ASSUME pc[owner[j]] \in {"held", "exit"} PROVE FALSE
  BY DEF Expired, Claimed
<1>1. owner[j] \in Execs
  BY DEF Expired, Claimed, TypeOK
<1>2. owner[j] \notin abandoned
  BY DEF AbandonedLeft, Ended
<1>3. Home[owner[j]] # d
  BY <1>2 DEF Expired
<1>4. up[Home[owner[j]]] = "up"
  BY <1>1 DEF CapacityInv, RunsUp, Up, Ended
<1> QED
  BY <1>1, <1>3, <1>4, HomeAssumption DEF CapacityInv, HomeAssumption

(* A process with work pending does nothing else on its loop, and is the only   *)
(* one.                                                                         *)
LEMMA SoleWork ==
    ASSUME ~Overlap, TypeOK, CapacityInv, PendingInv, NEW w \in pending
    PROVE  /\ pending = {w}
           /\ \A e \in Execs : ~OnLoop(e)
           /\ \A d \in Dispatchers : ~LoopFree(d) /\ ~Boot(d)
<1>1. w.on \in Dispatchers /\ up[w.on] = "up"
  BY DEF PendingInv, TypeOK, Work
<1>2. \A d \in Dispatchers : up[d] = "up" => d = w.on
  BY <1>1 DEF CapacityInv
<1>3. \A v \in pending : v = w
  BY <1>2 DEF PendingInv, TypeOK, Work
<1> QED
  BY <1>1, <1>2, <1>3, HomeAssumption DEF OnLoop, Up, LoopFree, Boot, HomeAssumption

(* Then only threads write the rows, apart from that work itself.               *)
LEMMA WhilePending ==
    ASSUME ~Overlap, TypeOK, CapacityInv, PendingInv, [Next]_vars, NEW w \in pending
    PROVE  \/ pending' = {}
           \/ UNCHANGED <<pending, status, owner, result, pc>>
           \/ \E e \in Execs : \E outcome \in {"complete", "failed"} :
                  job[e] \in Threaded /\ Settle(e, outcome)
<1> DEFINE Goal == \/ pending' = {}
                   \/ UNCHANGED <<pending, status, owner, result, pc>>
                   \/ \E e \in Execs : \E outcome \in {"complete", "failed"} :
                          job[e] \in Threaded /\ Settle(e, outcome)
<1>0. /\ pending = {w} /\ \A e \in Execs : ~OnLoop(e)
      /\ \A d \in Dispatchers : ~LoopFree(d) /\ ~Boot(d)
  BY SoleWork
<1> USE DEF row, memory, world
<1>1. ASSUME NEW e \in Execs
      PROVE  /\ \A j \in Jobs : ~Start(e, j)
             /\ ~NothingExpired(e) /\ ~ExpireRead(e) /\ ~PassSettled(e) /\ ~PassBusy(e)
             /\ ~Pass(e) /\ ~TakeSlot(e) /\ ~Claim(e) /\ ~ClaimMissed(e) /\ ~CancelWaiting(e)
             /\ ~Renew(e) /\ ~ClaimLost(e) /\ ~SettleRetry(e) /\ ~BodyEnds(e) /\ ~Release(e)
             /\ ~ReleaseRefused(e) /\ ~Return(e)
             /\ \A outcome \in {"complete", "failed"} : ~SettleLate(e, outcome)
  BY <1>0, <1>1 DEF Start, NothingExpired, ExpireRead, PassSettled, PassBusy, Pass, TakeSlot,
     Claim, ClaimMissed, CancelWaiting, Renew, ClaimLost, SettleRetry, BodyEnds, Release,
     ReleaseRefused, Return, SettleLate
<1>2. ASSUME NEW e \in Execs, Expire(e) \/ ExpireRefused(e) PROVE Goal
  BY <1>0, <1>2 DEF Expire, ExpireRefused, Flush
<1>3. ASSUME NEW e \in Execs, NEW outcome \in {"complete", "failed"}, Settle(e, outcome)
      PROVE  Goal
  BY <1>0, <1>3 DEF Settle
<1>4. ASSUME NEW j \in Jobs, Lapse(j) PROVE Goal
  BY <1>4 DEF Lapse
<1>5. ASSUME NEW d \in Dispatchers
      PROVE  \A j \in Jobs : ~CancelRead(d, j) /\ ~CancelThreaded(d, j) /\ ~RequeueRead(d, j)
  BY <1>0, <1>5 DEF CancelRead, CancelThreaded, RequeueRead
<1>6. ASSUME NEW d \in Dispatchers, Requests(d) PROVE Goal
  BY <1>0, <1>6 DEF Requests, CancelRow, Requeue, RequestRefused, Flush
<1>7. ASSUME NEW d \in Dispatchers, Crash(d) PROVE Goal
  <2>1. w.on = d
    BY <1>7 DEF Crash, PendingInv, CapacityInv, TypeOK, Work
  <2> QED
    BY <1>0, <1>7, <2>1 DEF Crash
<1>8. CASE HoldWriter \/ FreeWriter \/ UNCHANGED vars
  BY <1>8 DEF HoldWriter, FreeWriter, vars
<1> QED
  BY <1>0, <1>1, <1>2, <1>3, <1>4, <1>5, <1>6, <1>7, <1>8 DEF Next, Acquire, Hold

(* Nothing but a read adds work.                                                *)
LEMMA OnlyReads ==
    [Next]_vars =>
        \/ pending' \subseteq pending
        \/ \E e \in Execs : ExpireRead(e)
        \/ \E d \in Dispatchers, j \in Jobs : CancelRead(d, j) \/ RequeueRead(d, j)
<1> SUFFICES ASSUME [Next]_vars, \A e \in Execs : ~ExpireRead(e),
                    \A d \in Dispatchers, j \in Jobs : ~CancelRead(d, j) /\ ~RequeueRead(d, j)
             PROVE  pending' \subseteq pending
  OBVIOUS
<1> USE DEF row, memory, world
<1>1. ASSUME NEW e \in Execs, Acquire(e) \/ CancelWaiting(e) \/ \E j \in Jobs : Start(e, j)
      PROVE  pending' \subseteq pending
  BY <1>1 DEF Acquire, NothingExpired, Expire, ExpireRefused, PassSettled, PassBusy, Pass,
              TakeSlot, Claim, ClaimMissed, CancelWaiting, Start, Flush
<1>2. ASSUME NEW e \in Execs, Hold(e) PROVE pending' \subseteq pending
  BY <1>2 DEF Hold, Renew, ClaimLost, Settle, SettleLate, SettleRetry, BodyEnds, Release,
              ReleaseRefused, Return
<1>3. ASSUME NEW j \in Jobs, Lapse(j) PROVE pending' \subseteq pending
  BY <1>3 DEF Lapse
<1>4. ASSUME NEW d \in Dispatchers,
             Requests(d) \/ Boot(d) \/ Crash(d) \/ \E j \in Jobs : CancelThreaded(d, j)
      PROVE  pending' \subseteq pending
  BY <1>4 DEF Requests, CancelRow, Requeue, RequestRefused, Flush, Boot, Crash, CancelThreaded
<1>5. CASE HoldWriter \/ FreeWriter \/ UNCHANGED vars
  BY <1>5 DEF HoldWriter, FreeWriter, vars
<1> QED
  BY <1>1, <1>2, <1>3, <1>4, <1>5 DEF Next

(* With no other process to write between read and flush, work stays as read.   *)
LEMMA AsReadStep ==
    ASSUME ~Overlap, TypeOK, CapacityInv, PendingInv, AbandonedLeft, AsRead, [Next]_vars
    PROVE  AsRead'
<1>1. ASSUME NEW w \in pending PROVE AsRead'
  <2>1. CASE pending' = {}
    BY <2>1 DEF AsRead
  <2>2. CASE UNCHANGED <<pending, status, owner, result, pc>>
    BY <2>2 DEF AsRead
  <2>3. ASSUME NEW e \in Execs, NEW outcome \in {"complete", "failed"},
               job[e] \in Threaded, Settle(e, outcome)
        PROVE  AsRead'
    <3>1. /\ status[job[e]] = "running" /\ owner[job[e]] = e /\ pc[e] = "held"
          /\ pending' = pending /\ owner' = owner /\ pc' = pc
          /\ \A j \in Jobs \ {job[e]} : status'[j] = status[j] /\ result'[j] = result[j]
      BY <2>3 DEF Settle, Current, TypeOK, memory
    <3>2. ASSUME NEW v \in pending
          PROVE  /\ v.marked \subseteq Jobs /\ v.cleared \subseteq Jobs
                 /\ v.to = "interrupted" => job[e] \notin v.cleared
                 /\ v.to # "interrupted" => job[e] \notin v.marked
                 /\ v.to \in {"interrupted", "cancelled", "queued"}
      BY <2>3, <3>1, <3>2 DEF AsRead, Unsuccessful, PendingInv, Shape, TypeOK, Work
    <3> QED
      BY <3>1, <3>2 DEF AsRead
  <2> QED
    BY <2>1, <2>2, <2>3, WhilePending
<1>2. CASE pending = {}
  <2>1. CASE pending' \subseteq pending
    BY <1>2, <2>1 DEF AsRead
  <2>2. ASSUME NEW e \in Execs, ExpireRead(e) PROVE AsRead'
    <3> DEFINE w == Sweeping(e, Expired(Home[e]), Active)
    <3>1. /\ w.to = "interrupted" /\ w.cleared = Expired(Home[e])
          /\ w.marked = {j \in Expired(Home[e]) : status[j] \in Active}
      BY DEF Sweeping
    <3>2. pending' = {w} /\ UNCHANGED <<status, owner, pc>> /\ up[Home[e]] = "up"
      BY <1>2, <2>2 DEF ExpireRead, OnLoop, Up, row
    <3>3. Home[e] \in Dispatchers
      BY HomeAssumption DEF HomeAssumption
    <3>4. \A j \in w.cleared : owner[j] # NoOne /\ pc[owner[j]] \notin {"held", "exit"}
      BY <3>1, <3>2, <3>3, ExpiredLeft
    <3> HIDE DEF w
    <3> QED
      BY <3>1, <3>2, <3>4 DEF AsRead
  <2>3. ASSUME NEW d \in Dispatchers, NEW j \in Jobs, CancelRead(d, j) PROVE AsRead'
    <3> DEFINE w == Request(d, j, "cancelled", {}, {})
    <3>1. w.to = "cancelled" /\ w.marked = {j}
      BY DEF Request
    <3>2. pending' = {w} /\ status' = status /\ j \notin Threaded
      BY <1>2, <2>3 DEF CancelRead, row
    <3>3. status[j] \in Active \cup {"interrupted"}
      BY <2>3 DEF CancelRead
    <3> HIDE DEF w
    <3> QED
      BY <3>1, <3>2, <3>3 DEF AsRead
  <2>4. ASSUME NEW d \in Dispatchers, NEW j \in Jobs, RequeueRead(d, j) PROVE AsRead'
    <3> DEFINE w == Request(d, j, "queued", {j} \cap Claimed, {k \in {j} : result[k] # 0})
    <3>1. /\ w.to = "queued" /\ w.marked = {j} /\ w.cleared = {j} \cap Claimed
          /\ w.dropped = {k \in {j} : result[k] # 0}
      BY DEF Request
    <3>2. pending' = {w} /\ UNCHANGED <<status, owner, result>>
      BY <1>2, <2>4 DEF RequeueRead, row
    <3>3. status[j] \in Unsuccessful
      BY <2>4 DEF RequeueRead
    <3> HIDE DEF w
    <3> QED
      BY <3>1, <3>2, <3>3 DEF AsRead, Claimed
  <2> QED
    BY <2>1, <2>2, <2>3, <2>4, OnlyReads
<1> QED
  BY <1>1, <1>2

(* So it is throughout.                                                         *)
LEMMA AsReadHolds == ASSUME ~Overlap PROVE Spec => []AsRead
<1>1. Init => AsRead
  BY DEF Init, AsRead
<1>2. TypeOK /\ CapacityInv /\ PendingInv /\ AbandonedLeft /\ AsRead /\ [Next]_vars => AsRead'
  BY AsReadStep
<1> QED
  BY <1>1, <1>2, TypeCorrect, RoomAlways, PendingHolds, PTL DEF Spec

(* With one process at a time the sweep of expired claims takes none whose      *)
(* execution is still in its lease, neither when it reads them nor when it      *)
(* writes, however long the event loop was held up and the heartbeat late: a    *)
(* dispatcher's own claims count as expired only once they are abandoned.  It   *)
(* is why a job that runs is interrupted by nobody while its process lives      *)
(* (_expire_foreign_claims).                                                    *)
SweepSpares ==
    Overlap \/ /\ \A d \in Dispatchers : \A j \in Expired(d) :
                      up[d] = "up" => pc[owner[j]] \notin {"held", "exit"}
               /\ \A w \in pending : w.by # NoOne =>
                      \A j \in w.cleared : owner[j] # NoOne /\ pc[owner[j]] \notin {"held", "exit"}

(* No claim at work is ever swept in a program that runs alone.                 *)
THEOREM SweepSparesWork == Spec => []SweepSpares
<1>1. CASE Overlap
  <2>1. SweepSpares
    BY <1>1 DEF SweepSpares
  <2> QED
    BY <2>1, PTL
<1>2. CASE ~Overlap
  <2>1. TypeOK /\ CapacityInv /\ AbandonedLeft /\ PendingInv /\ AsRead => SweepSpares
    BY <1>2, ExpiredLeft DEF SweepSpares, AsRead, PendingInv, Shape
  <2>2. Spec => []AsRead
    BY <1>2, AsReadHolds
  <2> QED
    BY <2>1, <2>2, TypeCorrect, RoomAlways, PendingHolds, PTL
<1> QED
  BY <1>1, <1>2

--------------------------------------------------------------------------------
(* Refinement.                                                                  *)

(* A claimed row has counted the attempt its claim stands for.                  *)
ClaimCounted == \A j \in Jobs : owner[j] # NoOne => attempt[j] > 0

(* Each claim counts its attempt; nothing counts another.                       *)
LEMMA ClaimCountedStep == TypeOK /\ ClaimCounted /\ [Next]_vars => ClaimCounted'
<1> SUFFICES ASSUME TypeOK, ClaimCounted, [Next]_vars PROVE ClaimCounted'
  OBVIOUS
<1> USE DEF TypeOK, ClaimCounted, row, memory, world
<1>1. ASSUME NEW e \in Execs, NEW j \in Jobs, Start(e, j) PROVE ClaimCounted'
  BY <1>1 DEF Start
<1>2. ASSUME NEW e \in Execs, Acquire(e) PROVE ClaimCounted'
  <2>1. CASE NothingExpired(e)
    BY <2>1 DEF NothingExpired, Goto
  <2>2. CASE Expire(e)
    BY <2>2 DEF Expire, Flush
  <2>3. CASE ExpireRefused(e)
    BY <2>3 DEF ExpireRefused, Leave
  <2>4. CASE PassSettled(e)
    BY <2>4 DEF PassSettled, Leave
  <2>5. CASE PassBusy(e)
    BY <2>5 DEF PassBusy, Goto
  <2>6. CASE Pass(e)
    BY <2>6 DEF Pass, Goto
  <2>7. CASE TakeSlot(e)
    BY <2>7 DEF TakeSlot, Goto
  <2>8. CASE Claim(e)
    BY <2>8 DEF Claim
  <2>9. CASE ClaimMissed(e)
    BY <2>9 DEF ClaimMissed, Goto
  <2>10. CASE ExpireRead(e)
    BY <2>10 DEF ExpireRead
  <2> QED
    BY <1>2, <2>1, <2>2, <2>3, <2>4, <2>5, <2>6, <2>7, <2>8, <2>9, <2>10 DEF Acquire
<1>3. ASSUME NEW e \in Execs, CancelWaiting(e) PROVE ClaimCounted'
  BY <1>3 DEF CancelWaiting, Leave
<1>4. ASSUME NEW e \in Execs, Hold(e) PROVE ClaimCounted'
  <2>1. CASE Renew(e)
    BY <2>1 DEF Renew
  <2>2. CASE ClaimLost(e)
    BY <2>2 DEF ClaimLost, Goto
  <2>3. ASSUME NEW outcome \in {"complete", "failed"}, Settle(e, outcome)
        PROVE  ClaimCounted'
    BY <2>3 DEF Settle
  <2>4. ASSUME NEW outcome \in {"complete", "failed"}, SettleLate(e, outcome)
        PROVE  ClaimCounted'
    BY <2>4 DEF SettleLate, Leave
  <2>5. CASE SettleRetry(e)
    BY <2>5 DEF SettleRetry
  <2>6. CASE BodyEnds(e)
    BY <2>6 DEF BodyEnds, Goto
  <2>7. CASE Release(e)
    BY <2>7 DEF Release, Goto
  <2>8. CASE ReleaseRefused(e)
    BY <2>8 DEF ReleaseRefused, Goto
  <2>9. CASE Return(e)
    BY <2>9 DEF Return, Leave
  <2> QED
    BY <1>4, <2>1, <2>2, <2>3, <2>4, <2>5, <2>6, <2>7, <2>8, <2>9 DEF Hold
<1>5. ASSUME NEW j \in Jobs, Lapse(j) PROVE ClaimCounted'
  BY <1>5 DEF Lapse
<1>6. ASSUME NEW d \in Dispatchers, NEW j \in Jobs,
             CancelRead(d, j) \/ CancelThreaded(d, j) \/ RequeueRead(d, j)
      PROVE  ClaimCounted'
  BY <1>6 DEF CancelRead, CancelThreaded, RequeueRead
<1>7. ASSUME NEW d \in Dispatchers, Requests(d) PROVE ClaimCounted'
  BY <1>7 DEF Requests, CancelRow, Requeue, RequestRefused, Flush
<1>8. ASSUME NEW d \in Dispatchers, Boot(d) PROVE ClaimCounted'
  BY <1>8 DEF Boot
<1>9. ASSUME NEW d \in Dispatchers, Crash(d) PROVE ClaimCounted'
  BY <1>9 DEF Crash
<1>10. CASE HoldWriter
  BY <1>10 DEF HoldWriter
<1>11. CASE FreeWriter
  BY <1>11 DEF FreeWriter
<1>12. CASE UNCHANGED vars
  BY <1>12 DEF vars
<1> QED
  BY <1>1, <1>2, <1>3, <1>4, <1>5, <1>6, <1>7, <1>8, <1>9, <1>10, <1>11, <1>12 DEF Next

(* A step that leaves the row of a job alone leaves its promise alone.          *)
LEMMA RowStutter ==
    ASSUME UNCHANGED <<status, owner, attempt, result>>
    PROVE  UNCHANGED Ledger!ledger
BY DEF Ledger!ledger

(* Every step of the lease protocol is a step of the ledger or leaves it alone. *)
LEMMA LedgerStep ==
    ASSUME ~Overlap, TypeOK, ClaimCounted, PendingInv, AsRead, [Next]_vars
    PROVE  [Ledger!LedgerNext]_Ledger!ledger
<1> DEFINE Goal == [Ledger!LedgerNext]_Ledger!ledger
<1> USE DEF TypeOK, ClaimCounted, row, memory, world
<1>1. ASSUME NEW e \in Execs, NEW j \in Jobs, Start(e, j) PROVE Goal
  BY <1>1, RowStutter DEF Start
<1>2. ASSUME NEW e \in Execs, Acquire(e) PROVE Goal
  <2>1. CASE NothingExpired(e)
    BY <2>1, RowStutter DEF NothingExpired, Goto
  <2>2. CASE Expire(e)
    <3>1. PICK w \in pending : w.by = e /\ Flush(w)
      BY <2>2 DEF Expire
    <3>2. /\ w.to = "interrupted" /\ w.marked \subseteq w.cleared /\ w.dropped = {}
          /\ w.cleared \in SUBSET Jobs
      BY <3>1, NoOneAssumption DEF PendingInv, Shape, Work, NoOneAssumption
    <3>3. \A j \in w.cleared : owner[j] # NoOne /\ (j \in w.marked <=> status[j] \in Active)
      BY <3>2 DEF AsRead
    <3>4. /\ attempt' = attempt /\ result' = result
          /\ status' = [j \in Jobs |-> IF j \in w.cleared /\ status[j] \in Active
                                      THEN "interrupted" ELSE status[j]]
          /\ owner' = [j \in Jobs |-> IF j \in w.cleared THEN NoOne ELSE owner[j]]
      BY <2>2, <3>1, <3>2, <3>3 DEF Expire, Flush
    <3>5. Ledger!Sweep(w.cleared)
      BY <3>2, <3>3, <3>4 DEF Ledger!Sweep, Ledger!Active, Active
    <3> QED
      BY <3>2, <3>5 DEF Ledger!LedgerNext
  <2>3. CASE ExpireRefused(e)
    BY <2>3, RowStutter DEF ExpireRefused, Leave
  <2>4. CASE PassSettled(e)
    BY <2>4, RowStutter DEF PassSettled, Leave
  <2>5. CASE PassBusy(e)
    BY <2>5, RowStutter DEF PassBusy, Goto
  <2>6. CASE Pass(e)
    BY <2>6, RowStutter DEF Pass, Goto
  <2>7. CASE TakeSlot(e)
    BY <2>7, RowStutter DEF TakeSlot, Goto
  <2>8. CASE Claim(e)
    <3>1. PICK j \in Jobs : j = job[e]
      BY <2>8 DEF Claim, Ended
    <3>2. Ledger!Take(j)
      BY <2>8, <3>1, NoOneAssumption DEF Claim, Ledger!Take, NoOneAssumption
    <3> QED
      BY <3>2 DEF Ledger!LedgerNext
  <2>9. CASE ClaimMissed(e)
    BY <2>9, RowStutter DEF ClaimMissed, Goto
  <2>10. CASE ExpireRead(e)
    BY <2>10, RowStutter DEF ExpireRead
  <2> QED
    BY <1>2, <2>1, <2>2, <2>3, <2>4, <2>5, <2>6, <2>7, <2>8, <2>9, <2>10 DEF Acquire
<1>3. ASSUME NEW e \in Execs, CancelWaiting(e) PROVE Goal
  BY <1>3, RowStutter DEF CancelWaiting, Leave
<1>4. ASSUME NEW e \in Execs, Hold(e) PROVE Goal
  <2>1. CASE Renew(e)
    BY <2>1, RowStutter DEF Renew
  <2>2. CASE ClaimLost(e)
    BY <2>2, RowStutter DEF ClaimLost, Goto
  <2>3. ASSUME NEW outcome \in {"complete", "failed"}, Settle(e, outcome)
        PROVE  Goal
    <3>1. PICK j \in Jobs : j = job[e]
      BY <2>3 DEF Settle, Ended
    <3>2. Ledger!Finish(j, outcome)
      BY <2>3, <3>1, NoOneAssumption DEF Settle, Current, Ledger!Finish, NoOneAssumption
    <3> QED
      BY <3>2 DEF Ledger!LedgerNext, Ledger!Outcomes
  <2>4. ASSUME NEW outcome \in {"complete", "failed"}, SettleLate(e, outcome)
        PROVE  Goal
    <3>1. PICK j \in Jobs : j = job[e]
      BY <2>4 DEF SettleLate, Ended
    <3>2. Ledger!Finish(j, outcome)
      BY <2>4, <3>1, NoOneAssumption DEF SettleLate, Current, Ledger!Finish, NoOneAssumption
    <3> QED
      BY <3>2 DEF Ledger!LedgerNext, Ledger!Outcomes
  <2>5. CASE SettleRetry(e)
    <3>1. PICK j \in Jobs : j = job[e]
      BY <2>5 DEF SettleRetry, Ended
    <3>2. Ledger!Again({j})
      BY <2>5, <3>1, NoOneAssumption DEF SettleRetry, Current, Ledger!Again, NoOneAssumption
    <3> QED
      BY <3>2 DEF Ledger!LedgerNext
  <2>6. CASE BodyEnds(e)
    BY <2>6, RowStutter DEF BodyEnds, Goto
  <2>7. CASE Release(e)
    <3>1. PICK j \in Jobs : j = job[e]
      BY <2>7 DEF Release, Ended
    <3>2. CASE owner[j] = e
      <4>1. Ledger!Give(j)
        BY <2>7, <3>1, <3>2, NoOneAssumption DEF Release, Ledger!Give, NoOneAssumption
      <4> QED
        BY <4>1 DEF Ledger!LedgerNext
    <3>3. CASE owner[j] # e
      BY <2>7, <3>1, <3>3, RowStutter DEF Release
    <3> QED
      BY <3>2, <3>3
  <2>8. CASE ReleaseRefused(e)
    BY <2>8, RowStutter DEF ReleaseRefused, Goto
  <2>9. CASE Return(e)
    BY <2>9, RowStutter DEF Return, Leave
  <2> QED
    BY <1>4, <2>1, <2>2, <2>3, <2>4, <2>5, <2>6, <2>7, <2>8, <2>9 DEF Hold
<1>5. ASSUME NEW j \in Jobs, Lapse(j) PROVE Goal
  BY <1>5, RowStutter DEF Lapse
<1>6. ASSUME NEW d \in Dispatchers, NEW j \in Jobs,
             CancelRead(d, j) \/ CancelThreaded(d, j) \/ RequeueRead(d, j)
      PROVE  Goal
  <2>1. CASE CancelRead(d, j) \/ RequeueRead(d, j)
    BY <2>1, RowStutter DEF CancelRead, RequeueRead
  <2>2. CASE CancelThreaded(d, j)
    <3>1. Ledger!Withdraw(j)
      BY <2>2 DEF CancelThreaded, Ledger!Withdraw, Ledger!Active, Active
    <3> QED
      BY <3>1 DEF Ledger!LedgerNext
  <2> QED
    BY <1>6, <2>1, <2>2
<1>7. ASSUME NEW d \in Dispatchers, Requests(d) PROVE Goal
  <2>1. CASE RequestRefused(d)
    BY <2>1, RowStutter DEF RequestRefused
  <2>2. CASE CancelRow(d)
    <3>1. PICK w \in pending : w.to = "cancelled" /\ Flush(w)
      BY <2>2 DEF CancelRow
    <3>2. w.cleared = {} /\ w.dropped = {} /\ \E j \in Jobs : w.marked = {j}
      BY <3>1 DEF PendingInv, Shape
    <3>3. PICK j \in Jobs : w.marked = {j}
      BY <3>2
    <3>4. /\ status[j] \in Active \cup {"interrupted"}
          /\ status' = [status EXCEPT ![j] = "cancelled"]
          /\ owner' = owner /\ result' = result /\ attempt' = attempt
      BY <2>2, <3>1, <3>2, <3>3 DEF CancelRow, Flush, AsRead
    <3>5. Ledger!Withdraw(j)
      BY <3>4 DEF Ledger!Withdraw, Ledger!Active, Active
    <3> QED
      BY <3>5 DEF Ledger!LedgerNext
  <2>3. CASE Requeue(d)
    <3>1. PICK w \in pending : w.to = "queued" /\ Flush(w)
      BY <2>3 DEF Requeue
    <3>2. \E j \in Jobs : w.marked = {j} /\ w.cleared \subseteq {j} /\ w.dropped \subseteq {j}
      BY <3>1 DEF PendingInv, Shape
    <3>3. PICK j \in Jobs : w.marked = {j} /\ w.cleared \subseteq {j} /\ w.dropped \subseteq {j}
      BY <3>2
    <3>4. /\ status[j] \in Unsuccessful
          /\ j \in w.cleared \/ owner[j] = NoOne
          /\ j \in w.dropped \/ result[j] = 0
      BY <3>1, <3>3 DEF AsRead
    <3>5. /\ status' = [k \in Jobs |-> IF k = j THEN "queued" ELSE status[k]]
          /\ owner' = [k \in Jobs |-> IF k = j THEN NoOne ELSE owner[k]]
          /\ result' = [k \in Jobs |-> IF k = j THEN 0 ELSE result[k]]
          /\ attempt' = attempt
      <4>1. \A k \in Jobs : /\ (k \in w.marked <=> k = j)
                           /\ (IF k \in w.cleared THEN NoOne ELSE owner[k])
                                = (IF k = j THEN NoOne ELSE owner[k])
                           /\ (IF k \in w.dropped THEN 0 ELSE result[k])
                                = (IF k = j THEN 0 ELSE result[k])
        BY <3>3, <3>4
      <4> QED
        BY <2>3, <3>1, <4>1 DEF Requeue, Flush
    <3>6. Ledger!Again({j})
      BY <3>4, <3>5 DEF Ledger!Again, Ledger!Unsuccessful, Unsuccessful
    <3> QED
      BY <3>6 DEF Ledger!LedgerNext
  <2> QED
    BY <1>7, <2>1, <2>2, <2>3 DEF Requests
<1>8. ASSUME NEW d \in Dispatchers, Boot(d) PROVE Goal
  <2>1. Ledger!Restart(Jobs)
    BY <1>8 DEF Boot, Ledger!Restart
  <2> QED
    BY <2>1 DEF Ledger!LedgerNext
<1>9. ASSUME NEW d \in Dispatchers, Crash(d) PROVE Goal
  BY <1>9, RowStutter DEF Crash
<1>10. CASE HoldWriter
  BY <1>10, RowStutter DEF HoldWriter
<1>11. CASE FreeWriter
  BY <1>11, RowStutter DEF FreeWriter
<1>12. CASE UNCHANGED vars
  BY <1>12, RowStutter DEF vars
<1> QED
  BY <1>1, <1>2, <1>3, <1>4, <1>5, <1>6, <1>7, <1>8, <1>9, <1>10, <1>11, <1>12 DEF Next

(* With one process at a time, which the data-directory lock ensures, the lease *)
(* protocol implements the ledger: whatever executions, threads, users and      *)
(* crashes do, a row is taken, settled, swept, given back, withdrawn and queued *)
(* again only as the ledger allows.                                             *)
THEOREM LeaseImplementsLedger == ASSUME ~Overlap PROVE Spec => ImplementsLedger
<1>1. Init => Ledger!LedgerInit /\ ClaimCounted
  BY DEF Init, Ledger!LedgerInit, ClaimCounted
<1>2. TypeOK /\ ClaimCounted /\ PendingInv /\ AsRead /\ [Next]_vars
          => [Ledger!LedgerNext]_Ledger!ledger
  BY LedgerStep
<1>3. Spec => []AsRead
  BY AsReadHolds
<1> QED
  BY <1>1, <1>2, <1>3, TypeCorrect, PendingHolds, ClaimCountedStep, PTL
  DEF Spec, ImplementsLedger, Ledger!LedgerSpec

--------------------------------------------------------------------------------
(* Attempts.                                                                    *)

(* An execution that has taken a claim and may still write.                     *)
Acting(e) == pc[e] \in {"held", "exit", "after"}

(* e takes the row of j, and nothing else changes hands.                        *)
Takes(e, j) ==
    /\ owner[j] = NoOne
    /\ owner' = [owner EXCEPT ![j] = e]
    /\ attempt' = [attempt EXCEPT ![j] = @ + 1]
    /\ pc' = [pc EXCEPT ![e] = "held"]
    /\ held' = [held EXCEPT ![e] = attempt[j] + 1]
    /\ job[e] = j /\ job' = job

(* Claims fall, and nobody begins to act.                                       *)
Keeps ==
    /\ attempt' = attempt
    /\ \A j \in Jobs : owner'[j] \in {owner[j], NoOne}
    /\ \A e \in Execs : Acting(e)' => Acting(e) /\ job'[e] = job[e] /\ held'[e] = held[e]

(* Every step takes one claim or only lets claims fall.                         *)
LEMMA ClaimEffect == TypeOK /\ [Next]_vars => Keeps \/ \E e \in Execs, j \in Jobs : Takes(e, j)
<1> SUFFICES ASSUME TypeOK, [Next]_vars
             PROVE  Keeps \/ \E e \in Execs, j \in Jobs : Takes(e, j)
  OBVIOUS
<1> USE DEF TypeOK, Keeps, Acting, row, memory, world
<1>1. ASSUME NEW e \in Execs, NEW j \in Jobs, Start(e, j) PROVE Keeps
  BY <1>1 DEF Start
<1>2. ASSUME NEW e \in Execs, Claim(e) PROVE \E j \in Jobs : Takes(e, j)
  <2>1. job[e] \in Jobs
    BY <1>2 DEF Claim, Ended
  <2> QED
    BY <1>2, <2>1 DEF Claim, Takes
<1>3. ASSUME NEW e \in Execs, NothingExpired(e) \/ ExpireRead(e) \/ PassBusy(e) \/ Pass(e)
                              \/ TakeSlot(e) \/ ClaimMissed(e)
      PROVE  Keeps
  BY <1>3 DEF NothingExpired, ExpireRead, PassBusy, Pass, TakeSlot, ClaimMissed, Goto
<1>4. ASSUME NEW e \in Execs, ExpireRefused(e) \/ PassSettled(e) \/ CancelWaiting(e) PROVE Keeps
  BY <1>4 DEF ExpireRefused, PassSettled, CancelWaiting, Leave
<1>5. ASSUME NEW e \in Execs, Renew(e) \/ ClaimLost(e) \/ BodyEnds(e) \/ SettleRetry(e)
      PROVE  Keeps
  BY <1>5 DEF Renew, ClaimLost, BodyEnds, SettleRetry, Goto
<1>6. ASSUME NEW e \in Execs, NEW outcome \in {"complete", "failed"},
             Settle(e, outcome) \/ SettleLate(e, outcome)
      PROVE  Keeps
  BY <1>6 DEF Settle, SettleLate, Leave
<1>7. ASSUME NEW e \in Execs, Release(e) \/ ReleaseRefused(e) \/ Return(e) PROVE Keeps
  BY <1>7 DEF Release, ReleaseRefused, Return, Goto, Leave
<1>8. ASSUME NEW j \in Jobs, Lapse(j) PROVE Keeps
  BY <1>8 DEF Lapse
<1>9. ASSUME NEW d \in Dispatchers, Boot(d) \/ Crash(d) PROVE Keeps
  BY <1>9 DEF Boot, Crash
<1>10. CASE HoldWriter \/ FreeWriter \/ UNCHANGED vars
  BY <1>10 DEF HoldWriter, FreeWriter, vars
<1>11. ASSUME NEW e \in Execs, Expire(e) PROVE Keeps
  BY <1>11 DEF Expire, Flush, Goto
<1>12. ASSUME NEW d \in Dispatchers, NEW j \in Jobs,
              CancelRead(d, j) \/ CancelThreaded(d, j) \/ RequeueRead(d, j)
       PROVE  Keeps
  BY <1>12 DEF CancelRead, CancelThreaded, RequeueRead
<1>13. ASSUME NEW d \in Dispatchers, Requests(d) PROVE Keeps
  BY <1>13 DEF Requests, CancelRow, Requeue, RequestRefused, Flush
<1> QED
  BY <1>1, <1>2, <1>3, <1>4, <1>5, <1>6, <1>7, <1>8, <1>9, <1>10, <1>11, <1>12, <1>13
  DEF Next, Acquire, Hold

(* An attempt belongs to the execution that started it, and while it is the     *)
(* newest nobody else holds the row.                                            *)
AttemptInv ==
    /\ \A e \in Execs : Acting(e) => held[e] <= attempt[job[e]]
    /\ \A e, x \in Execs :
          Acting(e) /\ Acting(x) /\ job[e] = job[x] /\ held[e] = held[x] => e = x
    /\ \A e \in Execs : Acting(e) /\ held[e] = attempt[job[e]] => owner[job[e]] \in {e, NoOne}

(* Only a claim makes an attempt, for the execution that takes it.              *)
LEMMA AttemptStep == TypeOK /\ AttemptInv /\ [Next]_vars => AttemptInv'
<1> SUFFICES ASSUME TypeOK, AttemptInv, [Next]_vars PROVE AttemptInv'
  OBVIOUS
<1> USE DEF TypeOK, AttemptInv
<1>0. \A e \in Execs : Acting(e) => job[e] \in Jobs
  BY DEF Acting, Ended
<1>1. CASE Keeps
  BY <1>0, <1>1 DEF Keeps
<1>2. ASSUME NEW e \in Execs, NEW j \in Jobs, Takes(e, j) PROVE AttemptInv'
  <2>1. /\ Acting(e)' /\ job'[e] = j /\ held'[e] = attempt[j] + 1
        /\ attempt'[j] = attempt[j] + 1 /\ owner'[j] = e
    BY <1>2 DEF Takes, Acting
  <2>2. \A x \in Execs \ {e} : Acting(x)' = Acting(x) /\ job'[x] = job[x] /\ held'[x] = held[x]
    BY <1>2 DEF Takes, Acting
  <2>3. \A k \in Jobs \ {j} : attempt'[k] = attempt[k] /\ owner'[k] = owner[k]
    BY <1>2 DEF Takes
  <2>4. ASSUME NEW x \in Execs \ {e}, Acting(x)
        PROVE  held'[x] <= attempt'[job'[x]] /\ (job[x] = j => held[x] < held'[e])
    <3>1. /\ held[x] <= attempt[job[x]] /\ job[x] \in Jobs
          /\ held[x] \in Nat /\ attempt[job[x]] \in Nat
      BY <1>0, <2>4
    <3>2. CASE job[x] = j
      BY <2>1, <2>2, <3>1, <3>2
    <3>3. CASE job[x] # j
      BY <2>2, <2>3, <3>1, <3>3
    <3> QED
      BY <3>2, <3>3
  <2>5. \A x \in Execs : Acting(x)' => held'[x] <= attempt'[job'[x]]
    BY <2>1, <2>2, <2>4
  <2>6. \A x, y \in Execs :
            Acting(x)' /\ Acting(y)' /\ job'[x] = job'[y] /\ held'[x] = held'[y] => x = y
    BY <2>1, <2>2, <2>4
  <2>7. ASSUME NEW x \in Execs, Acting(x)', held'[x] = attempt'[job'[x]]
        PROVE  owner'[job'[x]] \in {x, NoOne}
    <3>1. CASE x = e
      BY <2>1, <3>1
    <3>2. CASE x # e
      <4>1. Acting(x) /\ job'[x] = job[x] /\ held'[x] = held[x] /\ job[x] \in Jobs
        BY <1>0, <2>2, <2>7, <3>2
      <4>2. job[x] # j
        BY <2>1, <2>4, <2>7, <3>2, <4>1
      <4> QED
        BY <2>3, <2>7, <4>1, <4>2
    <3> QED
      BY <3>1, <3>2
  <2> QED
    BY <2>5, <2>6, <2>7
<1> QED
  BY <1>1, <1>2, ClaimEffect

(* The guards of the writes of a result: of the body, and after the lease.      *)
MaySettle(e) ==
    \/ pc[e] = "held" /\ Current(e)
    \/ /\ pc[e] = "after"
       /\ status[job[e]] = "running"
       /\ attempt[job[e]] = held[e]
       /\ owner[job[e]] \in {e, NoOne}

(* At most one execution could write a row's result, late writers and threads   *)
(* of other processes included; and the attempt alone decides who: the test for *)
(* another claim in _claim_terminal_transition refuses nobody the attempt would *)
(* have let through.                                                            *)
OneWriter ==
    /\ \A e, x \in Execs : MaySettle(e) /\ MaySettle(x) /\ job[e] = job[x] => e = x
    /\ \A e \in Execs :
          pc[e] = "after" /\ status[job[e]] = "running" /\ attempt[job[e]] = held[e] =>
              MaySettle(e)

(* No two executions, of whatever processes, are ever both entitled to write.   *)
THEOREM OneWriterOnly == Spec => []OneWriter
<1>1. Init => AttemptInv
  BY DEF Init, AttemptInv, Acting
<1>2. AttemptInv => OneWriter
  BY DEF AttemptInv, OneWriter, MaySettle, Acting, Current
<1> QED
  BY <1>1, <1>2, TypeCorrect, AttemptStep, PTL DEF Spec

--------------------------------------------------------------------------------
(* The queue.                                                                   *)

(* Rows change places only by going to the tail.                                *)
LEMMA QueueEffect ==
    TypeOK /\ [Next]_vars => ahead' = ahead \/ \E j \in Jobs : ahead' = ToTail(j)
<1> DEFINE Moved == \E j \in Jobs : ahead' = ToTail(j)
<1> SUFFICES ASSUME TypeOK, [Next]_vars PROVE ahead' = ahead \/ Moved
  OBVIOUS
<1> USE DEF row, memory, world
<1>1. ASSUME NEW e \in Execs, Acquire(e) PROVE ahead' = ahead
  BY <1>1 DEF Acquire, NothingExpired, ExpireRead, Expire, ExpireRefused, PassSettled, PassBusy,
              Pass, TakeSlot, Claim, ClaimMissed
<1>2. ASSUME NEW e \in Execs, SettleRetry(e) PROVE Moved
  <2>1. job[e] \in Jobs
    BY <1>2 DEF SettleRetry, TypeOK, Ended
  <2> QED
    BY <1>2, <2>1 DEF SettleRetry
<1>3. ASSUME NEW e \in Execs, Hold(e), ~SettleRetry(e) PROVE ahead' = ahead
  BY <1>3 DEF Hold, Renew, ClaimLost, Settle, SettleLate, BodyEnds, Release, ReleaseRefused,
              Return
<1>4. ASSUME NEW d \in Dispatchers, Requests(d) PROVE ahead' = ahead \/ Moved
  <2>1. CASE Requeue(d)
    <3>1. PICK w \in pending : \E j \in w.marked : ahead' = ToTail(j)
      BY <2>1 DEF Requeue
    <3>2. w.marked \subseteq Jobs
      BY DEF TypeOK, Work
    <3> QED
      BY <3>1, <3>2
  <2> QED
    BY <1>4, <2>1 DEF Requests, CancelRow, RequestRefused
<1>5. ASSUME NEW j \in Jobs, Lapse(j) PROVE ahead' = ahead
  BY <1>5 DEF Lapse
<1>6. ASSUME NEW e \in Execs, CancelWaiting(e) \/ \E j \in Jobs : Start(e, j)
      PROVE  ahead' = ahead
  BY <1>6 DEF CancelWaiting, Start
<1>7. ASSUME NEW d \in Dispatchers, NEW j \in Jobs,
             CancelRead(d, j) \/ CancelThreaded(d, j) \/ RequeueRead(d, j)
      PROVE  ahead' = ahead
  BY <1>7 DEF CancelRead, CancelThreaded, RequeueRead
<1>8. CASE (\E d \in Dispatchers : Boot(d) \/ Crash(d)) \/ HoldWriter \/ FreeWriter \/ UNCHANGED vars
  BY <1>8 DEF Boot, Crash, HoldWriter, FreeWriter, vars
<1> QED
  BY <1>1, <1>2, <1>3, <1>4, <1>5, <1>6, <1>7, <1>8 DEF Next

(* As long as the group has room, a queue that is not empty has a job whose     *)
(* turn it is: waiting jobs never all wait for one another.  With OwnerAccounted*)
(* it is what NoWaiterStarves rests on.                                         *)
SomebodyIsNext ==
    Eligible # {} /\ Cardinality(Claimed) < Capacity => \E j \in Eligible : InTurn(j)

(* The order of the queue is one, and so somebody is next.                      *)
THEOREM SomebodyAlwaysNext == Spec => []SomebodyIsNext
<1>1. Init => StrictOrder(ahead, Jobs)
  BY DEF Init, StrictOrder
<1>2. TypeOK /\ StrictOrder(ahead, Jobs) /\ [Next]_vars => StrictOrder(ahead, Jobs)'
  <2> SUFFICES ASSUME TypeOK, StrictOrder(ahead, Jobs), [Next]_vars PROVE StrictOrder(ahead', Jobs)
    OBVIOUS
  <2>1. ASSUME NEW j \in Jobs PROVE StrictOrder(ToTail(j), Jobs)
    BY LastKeepsOrder DEF ToTail
  <2> QED
    BY <2>1, QueueEffect
<1>3. StrictOrder(ahead, Jobs) => SomebodyIsNext
  <2> SUFFICES ASSUME StrictOrder(ahead, Jobs), Eligible # {}, Cardinality(Claimed) < Capacity
               PROVE  \E j \in Eligible : InTurn(j)
    BY DEF SomebodyIsNext
  <2>1. Eligible \subseteq Jobs
    BY DEF Eligible
  <2>2. PICK j \in Eligible : \A k \in Eligible : <<k, j>> \notin ahead
    BY <2>1, OrderHasFirst, FiniteAssumption DEF FiniteAssumption
  <2>3. Before(j) = {}
    BY <2>2 DEF Before
  <2>4. Cardinality(Before(j)) + Cardinality(Claimed) < Capacity
    BY <2>3, FS_EmptySet, ClaimedFinite
  <2> QED
    BY <2>4 DEF InTurn
<1> QED
  BY <1>1, <1>2, <1>3, TypeCorrect, PTL DEF Spec

--------------------------------------------------------------------------------
(* The slots of a dispatcher.                                                   *)

(* The calls of job_lease that hold a slot of their dispatcher's semaphore.     *)
Slots(d) == {x \in Execs : Home[x] = d /\ pc[x] \in InSlot}

(* A dispatcher has no more calls between slot and release than the group has   *)
(* room for, and at most one between its ranking and its UPDATE, also while     *)
(* processes overlap and while the claims of its calls were swept by others.    *)
SlotsKept ==
    \A d \in Dispatchers :
        /\ Cardinality(Slots(d)) <= Capacity
        /\ \A e, x \in Slots(d) : pc[e] = "claim" /\ pc[x] = "claim" => e = x

(* There are finitely many of them at any time, however many calls there are.   *)
SlotsInv == SlotsKept /\ \A d \in Dispatchers : IsFiniteSet(Slots(d))

(* Only TakeSlot takes one.                                                     *)
LEMMA SlotEffect ==
    TypeOK /\ [Next]_vars =>
        \/ \E e \in Execs : TakeSlot(e)
        \/ \A x \in Execs : /\ pc'[x] \in InSlot => pc[x] \in InSlot
                            /\ pc'[x] = "claim" => pc[x] = "claim"
<1> DEFINE Fewer == \A x \in Execs : /\ pc'[x] \in InSlot => pc[x] \in InSlot
                                     /\ pc'[x] = "claim" => pc[x] = "claim"
<1> SUFFICES ASSUME TypeOK, [Next]_vars, \A e \in Execs : ~TakeSlot(e) PROVE Fewer
  OBVIOUS
<1> USE DEF TypeOK, InSlot, row, memory, world
<1>1. ASSUME NEW e \in Execs, NEW j \in Jobs, Start(e, j) PROVE Fewer
  BY <1>1 DEF Start
<1>2. ASSUME NEW e \in Execs, NothingExpired(e) \/ Expire(e) \/ PassBusy(e) \/ Pass(e)
                              \/ ExpireRead(e)
                              \/ ClaimMissed(e) \/ Claim(e)
      PROVE  Fewer
  BY <1>2 DEF NothingExpired, ExpireRead, Expire, PassBusy, Pass, ClaimMissed, Claim, Goto
<1>3. ASSUME NEW e \in Execs, ExpireRefused(e) \/ PassSettled(e) \/ CancelWaiting(e)
      PROVE  Fewer
  BY <1>3 DEF ExpireRefused, PassSettled, CancelWaiting, Leave
<1>4. ASSUME NEW e \in Execs, Renew(e) \/ ClaimLost(e) \/ BodyEnds(e) \/ SettleRetry(e)
      PROVE  Fewer
  BY <1>4 DEF Renew, ClaimLost, BodyEnds, SettleRetry, Goto
<1>5. ASSUME NEW e \in Execs, NEW outcome \in {"complete", "failed"},
             Settle(e, outcome) \/ SettleLate(e, outcome)
      PROVE  Fewer
  BY <1>5 DEF Settle, SettleLate, Leave
<1>6. ASSUME NEW e \in Execs, Release(e) \/ ReleaseRefused(e) \/ Return(e) PROVE Fewer
  BY <1>6 DEF Release, ReleaseRefused, Return, Goto, Leave
<1>7. ASSUME NEW d \in Dispatchers, NEW j \in Jobs,
             CancelRead(d, j) \/ CancelThreaded(d, j) \/ RequeueRead(d, j)
      PROVE  Fewer
  BY <1>7 DEF CancelRead, CancelThreaded, RequeueRead
<1>8. ASSUME NEW d \in Dispatchers, Boot(d) \/ Crash(d) PROVE Fewer
  BY <1>8 DEF Boot, Crash
<1>9. CASE HoldWriter \/ FreeWriter \/ UNCHANGED vars
  BY <1>9 DEF HoldWriter, FreeWriter, vars
<1>10. ASSUME NEW d \in Dispatchers, Requests(d) PROVE Fewer
  BY <1>10 DEF Requests, CancelRow, Requeue, RequestRefused
<1>11. ASSUME NEW j \in Jobs, Lapse(j) PROVE Fewer
  BY <1>11 DEF Lapse
<1> QED
  BY <1>1, <1>2, <1>3, <1>4, <1>5, <1>6, <1>7, <1>8, <1>9, <1>10, <1>11 DEF Next, Acquire, Hold

(* Who takes a slot has found one free, and nobody else about to claim.         *)
LEMMA SlotsStep == TypeOK /\ SlotsInv /\ [Next]_vars => SlotsInv'
<1> SUFFICES ASSUME TypeOK, SlotsInv, [Next]_vars, NEW d \in Dispatchers
             PROVE  /\ IsFiniteSet(Slots(d)') /\ Cardinality(Slots(d)') <= Capacity
                    /\ \A e, x \in Slots(d)' : pc'[e] = "claim" /\ pc'[x] = "claim" => e = x
  BY DEF SlotsInv, SlotsKept
<1>0. /\ IsFiniteSet(Slots(d)) /\ Cardinality(Slots(d)) \in Nat
      /\ Cardinality(Slots(d)) <= Capacity /\ Capacity \in Nat
      /\ \A e, x \in Slots(d) : pc[e] = "claim" /\ pc[x] = "claim" => e = x
  BY FS_CardinalityType, CapacityAssumption DEF SlotsInv, SlotsKept, CapacityAssumption
<1>1. ASSUME NEW e \in Execs, TakeSlot(e)
      PROVE  /\ IsFiniteSet(Slots(d)') /\ Cardinality(Slots(d)') <= Capacity
             /\ \A y, x \in Slots(d)' : pc'[y] = "claim" /\ pc'[x] = "claim" => y = x
  <2>1. pc' = [pc EXCEPT ![e] = "claim"] \/ pc' = [pc EXCEPT ![e] = "top"]
    BY <1>1 DEF TakeSlot, Goto
  <2>2. Slots(d)' \subseteq Slots(d) \cup {e}
    BY <2>1 DEF Slots, TypeOK
  <2>3. CASE Home[e] # d
    <3>1. Slots(d)' \subseteq Slots(d) /\ \A x \in Slots(d)' : pc'[x] = pc[x]
      BY <2>1, <2>3 DEF Slots, TypeOK
    <3> QED
      BY <1>0, <3>1, FS_Subset, FS_CardinalityType
  <2>4. CASE Home[e] = d
    <3>1. Cardinality(Slots(d)) < Capacity
      BY <1>1, <2>4 DEF TakeSlot, SlotFree, Slots
    <3>2. \A x \in Execs \ {e} : Home[x] = d => pc'[x] = pc[x] /\ pc[x] # "claim"
      BY <1>1, <2>1, <2>4 DEF TakeSlot, OnLoop, TypeOK
    <3>3. /\ IsFiniteSet(Slots(d) \cup {e}) /\ Cardinality(Slots(d) \cup {e}) \in Nat
          /\ Cardinality(Slots(d) \cup {e}) <= Cardinality(Slots(d)) + 1
      BY <1>0, FS_AddElement, FS_CardinalityType
    <3>4. /\ IsFiniteSet(Slots(d)') /\ Cardinality(Slots(d)') \in Nat
          /\ Cardinality(Slots(d)') <= Cardinality(Slots(d) \cup {e})
      BY <2>2, <3>3, FS_Subset, FS_CardinalityType
    <3>5. \A y, x \in Slots(d)' : pc'[y] = "claim" /\ pc'[x] = "claim" => y = x
      BY <3>2 DEF Slots
    <3> QED
      BY <1>0, <3>1, <3>3, <3>4, <3>5
  <2> QED
    BY <2>3, <2>4
<1>2. CASE \A x \in Execs : /\ pc'[x] \in InSlot => pc[x] \in InSlot
                            /\ pc'[x] = "claim" => pc[x] = "claim"
  <2>1. Slots(d)' \subseteq Slots(d)
    BY <1>2 DEF Slots
  <2>2. /\ IsFiniteSet(Slots(d)') /\ Cardinality(Slots(d)') \in Nat
        /\ Cardinality(Slots(d)') <= Cardinality(Slots(d))
    BY <1>0, <2>1, FS_Subset, FS_CardinalityType
  <2>3. \A x \in Slots(d)' : pc'[x] = "claim" => pc[x] = "claim"
    BY <1>2 DEF Slots
  <2> QED
    BY <1>0, <2>1, <2>2, <2>3
<1> QED
  BY <1>1, <1>2, SlotEffect

(* So it holds throughout.                                                      *)
LEMMA SlotsHold == Spec => []SlotsInv
<1>1. ASSUME Init PROVE SlotsInv
  <2>1. \A d \in Dispatchers : Slots(d) = {}
    BY <1>1 DEF Init, Slots, InSlot
  <2> QED
    BY <2>1, FS_EmptySet, CapacityAssumption DEF SlotsInv, SlotsKept, CapacityAssumption
<1> QED
  BY <1>1, TypeCorrect, SlotsStep, PTL DEF Spec

(* Each process by itself keeps to the capacity of the group, whatever other    *)
(* processes do to the rows it works on.                                        *)
THEOREM SlotsAlwaysKept == Spec => []SlotsKept
<1>1. SlotsInv => SlotsKept
  BY DEF SlotsInv
<1> QED
  BY <1>1, SlotsHold, PTL

(* A call that can go on: its event loop is free for it, and the semaphore, if  *)
(* it waits for that, has a slot.                                               *)
Movable(e) == OnLoop(e) /\ pc[e] \notin {"new"} \cup Ended /\ (pc[e] = "slot" => SlotFree(e))

(* The calls of a dispatcher never all wait for one another: whoever holds the  *)
(* slots or the event loop can go on, if the loop is not in the middle of a     *)
(* sweep or a request, which waits for nothing but the writer.                  *)
NoStandstill ==
    \A e \in Execs : pc[e] \notin {"new"} \cup Ended =>
        \/ \E w \in pending : w.on = Home[e]
        \/ \E x \in Execs : Home[x] = Home[e] /\ Movable(x)

(* The event loop, the semaphore and the UPDATE make no deadlock between them.  *)
THEOREM NeverAllWaiting == Spec => []NoStandstill
<1>1. TypeOK /\ CapacityInv /\ SlotsInv => NoStandstill
  <2> SUFFICES ASSUME TypeOK, CapacityInv, SlotsInv, NEW e \in Execs,
                      pc[e] \notin {"new"} \cup Ended,
                      \A w \in pending : w.on # Home[e]
               PROVE  \E x \in Execs : Home[x] = Home[e] /\ Movable(x)
    BY DEF NoStandstill
  <2>1. Home[e] \in Dispatchers /\ \A x \in Execs : Home[x] = Home[e] => Up(x)
    BY HomeAssumption DEF HomeAssumption, CapacityInv, RunsUp, Up
  <2>2. CASE \E x \in Execs : Home[x] = Home[e] /\ pc[x] = "claim"
    <3>1. PICK x \in Execs : Home[x] = Home[e] /\ pc[x] = "claim"
      BY <2>2
    <3>2. \A y \in Execs \ {x} : Home[y] = Home[x] => pc[y] # "claim"
      BY <2>1, <3>1 DEF SlotsInv, SlotsKept, Slots, InSlot
    <3> QED
      BY <2>1, <3>1, <3>2 DEF Movable, OnLoop, Ended
  <2>3. CASE \A x \in Execs : Home[x] = Home[e] => pc[x] # "claim"
    <3>1. \A x \in Execs : Home[x] = Home[e] => OnLoop(x)
      BY <2>1, <2>3 DEF OnLoop
    <3>2. CASE pc[e] = "slot" /\ ~SlotFree(e)
      <4>1. Slots(Home[e]) # {}
        BY <3>2, FS_EmptySet, CapacityAssumption DEF SlotFree, Slots, CapacityAssumption
      <4>2. PICK x \in Slots(Home[e]) : TRUE
        BY <4>1
      <4>3. x \in Execs /\ Home[x] = Home[e] /\ pc[x] \in InSlot
        BY <4>2 DEF Slots
      <4> QED
        BY <3>1, <4>3 DEF Movable, InSlot, Ended
    <3> QED
      BY <3>1, <3>2 DEF Movable
  <2> QED
    BY <2>2, <2>3
<1> QED
  BY <1>1, TypeCorrect, RoomAlways, SlotsHold, PTL DEF Spec

--------------------------------------------------------------------------------
(* What the ledger promises, of the lease protocol.                             *)

Promise == INSTANCE JobLedgerProofs
    WITH claim <- [j \in Jobs |-> IF owner[j] = NoOne THEN 0 ELSE attempt[j]]

(* The two instances of the ledger, with its theorems and without, are one.     *)
LEMMA SameLedger ==
    /\ Ledger!LedgerInit => Promise!LedgerInit
    /\ [Ledger!LedgerNext]_Ledger!ledger => [Promise!LedgerNext]_Promise!ledger
BY DEF Ledger!LedgerInit, Promise!LedgerInit, Ledger!LedgerNext, Promise!LedgerNext,
       Ledger!ledger, Promise!ledger, Ledger!Take, Promise!Take, Ledger!Finish, Promise!Finish,
       Ledger!Give, Promise!Give, Ledger!Withdraw, Promise!Withdraw, Ledger!Sweep, Promise!Sweep,
       Ledger!Suspend, Promise!Suspend, Ledger!Again, Promise!Again, Ledger!Restart,
       Promise!Restart, Ledger!Active, Promise!Active, Ledger!Unsuccessful, Promise!Unsuccessful,
       Ledger!Terminal, Promise!Terminal, Ledger!Outcomes, Promise!Outcomes

(* What the ledger promises, the lease protocol keeps in a program that runs    *)
(* alone.                                                                       *)
LEMMA LeaseKeepsPromise == ASSUME ~Overlap PROVE Spec => Promise!LedgerSpec
<1>1. Spec => ImplementsLedger
  BY LeaseImplementsLedger
<1> QED
  BY <1>1, SameLedger, PTL DEF ImplementsLedger, Ledger!LedgerSpec, Promise!LedgerSpec

(* With one process at a time a row carries the outcome of its newest attempt   *)
(* exactly while it is complete or failed: an interrupted, cancelled or requeued*)
(* row shows no old result.                                                     *)
THEOREM LeaseResultsExact == ASSUME ~Overlap PROVE Spec => []Promise!ResultsExact
<1>1. Promise!LedgerSpec => []Promise!ResultsExact
  BY Promise!ResultsAlwaysExact
<1>2. Spec => Promise!LedgerSpec
  BY LeaseKeepsPromise
<1> QED
  BY <1>1, <1>2, PTL

(* With one process at a time no execution, thread, sweep, user or restart takes*)
(* a success back, and the attempts that guard the writes only grow.            *)
THEOREM LeaseKeepsSuccess == ASSUME ~Overlap PROVE Spec => Promise!SuccessKept
<1>1. Promise!LedgerSpec => Promise!SuccessKept
  BY Promise!SuccessAlwaysKept
<1>2. Spec => Promise!LedgerSpec
  BY LeaseKeepsPromise
<1> QED
  BY <1>1, <1>2, PTL

(* A settled row always shows what its newest attempt made, also while processes*)
(* overlap: no displaced execution ever overwrites its successor's outcome.     *)
THEOREM OutcomesNewest == Spec => []NewestOutcome
<1>1. CASE Overlap
  <2>1. OutcomeInv => NewestOutcome
    BY <1>1 DEF OutcomeInv, NewestOutcome
  <2> QED
    BY <2>1, OutcomeHolds, PTL
<1>2. CASE ~Overlap
  <2>1. OutcomeInv /\ Promise!ResultsExact => NewestOutcome
    BY DEF OutcomeInv, NewestOutcome, Promise!ResultsExact
  <2>2. Spec => []Promise!ResultsExact
    BY <1>2, LeaseResultsExact
  <2> QED
    BY <2>1, <2>2, OutcomeHolds, PTL
<1> QED
  BY <1>1, <1>2

(* A row starts to run only under a new attempt, and stops being complete only  *)
(* where a flush marks it.                                                      *)
StatusEffect ==
    \A j \in Jobs :
        /\ attempt'[j] \in {attempt[j], attempt[j] + 1}
        /\ status'[j] = "running" => status[j] = "running" \/ attempt'[j] = attempt[j] + 1
        /\ status[j] = "complete" /\ status'[j] # "complete" =>
              \E w \in pending \ pending' : j \in w.marked

(* Every step has that effect.                                                  *)
LEMMA StatusStep == TypeOK /\ PendingInv /\ [Next]_vars => StatusEffect
<1> SUFFICES ASSUME TypeOK, PendingInv, [Next]_vars PROVE StatusEffect
  OBVIOUS
<1>0. ASSUME NEW w \in pending, Flush(w), attempt' = attempt PROVE StatusEffect
  <2>1. w \notin pending'
    BY <1>0 DEF Flush
  <2> QED
    BY <1>0, <2>1, FlushWrites DEF StatusEffect, TypeOK
<1> USE DEF TypeOK, StatusEffect, row, memory, world
<1>1. ASSUME NEW e \in Execs, NothingExpired(e) \/ ExpireRead(e) \/ ExpireRefused(e)
                              \/ PassSettled(e) \/ PassBusy(e) \/ Pass(e) \/ TakeSlot(e)
                              \/ ClaimMissed(e) \/ CancelWaiting(e) \/ \E j \in Jobs : Start(e, j)
      PROVE  StatusEffect
  BY <1>1 DEF NothingExpired, ExpireRead, ExpireRefused, PassSettled, PassBusy, Pass, TakeSlot,
              ClaimMissed, CancelWaiting, Start
<1>2. ASSUME NEW e \in Execs, Expire(e) PROVE StatusEffect
  BY <1>0, <1>2 DEF Expire
<1>3. ASSUME NEW e \in Execs, Claim(e) PROVE StatusEffect
  BY <1>3 DEF Claim
<1>4. ASSUME NEW e \in Execs, NEW outcome \in {"complete", "failed"},
             Settle(e, outcome) \/ SettleLate(e, outcome)
      PROVE  StatusEffect
  BY <1>4 DEF Settle, SettleLate, Current
<1>5. ASSUME NEW e \in Execs, SettleRetry(e) PROVE StatusEffect
  BY <1>5 DEF SettleRetry, Current
<1>6. ASSUME NEW e \in Execs, Renew(e) \/ ClaimLost(e) \/ BodyEnds(e) \/ Release(e)
                              \/ ReleaseRefused(e) \/ Return(e)
      PROVE  StatusEffect
  BY <1>6 DEF Renew, ClaimLost, BodyEnds, Release, ReleaseRefused, Return
<1>7. ASSUME NEW j \in Jobs, Lapse(j) PROVE StatusEffect
  BY <1>7 DEF Lapse
<1>8. ASSUME NEW d \in Dispatchers, NEW j \in Jobs,
             CancelRead(d, j) \/ CancelThreaded(d, j) \/ RequeueRead(d, j)
      PROVE  StatusEffect
  BY <1>8 DEF CancelRead, CancelThreaded, RequeueRead, Active
<1>9. ASSUME NEW d \in Dispatchers, Requests(d) PROVE StatusEffect
  BY <1>0, <1>9 DEF Requests, CancelRow, Requeue, RequestRefused
<1>10. ASSUME NEW d \in Dispatchers, Boot(d) \/ Crash(d) PROVE StatusEffect
  BY <1>10 DEF Boot, Crash
<1>11. CASE HoldWriter \/ FreeWriter \/ UNCHANGED vars
  BY <1>11 DEF HoldWriter, FreeWriter, vars
<1> QED
  BY <1>1, <1>2, <1>3, <1>4, <1>5, <1>6, <1>7, <1>8, <1>9, <1>10, <1>11 DEF Next, Acquire, Hold

(* A success is taken back by nothing but a stale flush: a sweep, cancel or     *)
(* retry of one process that marked the row before an execution of another      *)
(* committed its result.  Guarded writes, claims, releases, restarts and crashes*)
(* never do, and with one process at a time nothing does.                       *)
OnlyStaleFlush ==
    [][\A j \in Jobs : status[j] = "complete" /\ status'[j] # "complete" =>
           Overlap /\ \E w \in pending \ pending' : j \in w.marked]_vars

(* What overlapping processes may lose, and how.                                *)
THEOREM OnlyStaleFlushTakesBack == Spec => OnlyStaleFlush
<1>1. CASE Overlap
  <2>1. TypeOK /\ PendingInv /\ [Next]_vars =>
            \A j \in Jobs : status[j] = "complete" /\ status'[j] # "complete" =>
                Overlap /\ \E w \in pending \ pending' : j \in w.marked
    BY <1>1, StatusStep DEF StatusEffect
  <2> QED
    BY <2>1, TypeCorrect, PendingHolds, PTL DEF Spec, OnlyStaleFlush
<1>2. CASE ~Overlap
  <2>1. [\A j \in Jobs : /\ attempt'[j] >= attempt[j]
                         /\ status[j] = "complete" =>
                                status'[j] = "complete" /\ result'[j] = result[j]]_Promise!ledger
        => [\A j \in Jobs : status[j] = "complete" /\ status'[j] # "complete" =>
               Overlap /\ \E w \in pending \ pending' : j \in w.marked]_vars
    BY DEF Promise!ledger
  <2>2. Spec => Promise!SuccessKept
    BY <1>2, LeaseKeepsSuccess
  <2> QED
    BY <2>1, <2>2, PTL DEF Promise!SuccessKept, OnlyStaleFlush
<1> QED
  BY <1>1, <1>2

(* Attempt a of j is over: the row has moved on, or is not at work on it.       *)
Spent(j, a) == attempt[j] > a \/ (attempt[j] = a /\ status[j] # "running")

(* An attempt that had an outcome never runs again, not even after a retry, a   *)
(* crash or a sweep, and also while processes overlap: its execution finds the  *)
(* row under a newer attempt.                                                   *)
THEOREM LeaseSpendsOnce ==
    ASSUME NEW j \in Jobs, NEW a \in Nat \ {0}
    PROVE  Spec => [](result[j] = a => [](attempt[j] = a => status[j] # "running"))
<1>1. TypeOK /\ OutcomeInv /\ result[j] = a => Spent(j, a)
  BY DEF OutcomeInv, Spent, TypeOK
<1>2. TypeOK /\ PendingInv /\ Spent(j, a) /\ [Next]_vars => Spent(j, a)'
  <2> SUFFICES ASSUME TypeOK, PendingInv, Spent(j, a), [Next]_vars PROVE Spent(j, a)'
    OBVIOUS
  <2>1. /\ attempt'[j] \in {attempt[j], attempt[j] + 1}
        /\ status'[j] = "running" => status[j] = "running" \/ attempt'[j] = attempt[j] + 1
    BY StatusStep DEF StatusEffect
  <2> QED
    BY <2>1 DEF Spent, TypeOK
<1>3. TypeOK /\ Spent(j, a) => (attempt[j] = a => status[j] # "running")
  BY DEF Spent, TypeOK
<1> QED
  BY <1>1, <1>2, <1>3, TypeCorrect, PendingHolds, OutcomeHolds, PTL DEF Spec
================================================================================
