------------------------------- MODULE SearchTurn ------------------------------
(* One text turn that may search the web: the durable proposal of               *)
(* web_search_consent.py and the orchestrator's task that pauses for a person's *)
(* consent, is resumed by it, sends at most one request and answers.            *)
(*                                                                              *)
(* The program runs one event loop; a step is what a coroutine does between two *)
(* awaits.  The person may decide, edit, cancel and retry at any time, change   *)
(* the settings the search depends on, and the program may crash, be stopped    *)
(* and start again.  Another writer may hold the database past the busy timeout *)
(* (a refusal).  A token of the job's lease is the attempt it was minted for.   *)
EXTENDS Naturals

CONSTANTS
    Queries,        \* search texts
    Providers,      \* configured search services, with their accounts
    NoProvider,     \* none configured, or an invalid one
    FirstProvider,  \* the one configured when the turn is created
    MaxRevision,    \* MAX_PROPOSAL_REVISION
    MaxRetries, MaxStops, MaxRefusals, MaxChanges   \* bounds on the environment

ASSUME SearchConstants ==
    /\ NoProvider \notin Providers /\ FirstProvider \in Providers
    /\ MaxRevision \in Nat \ {0}
    /\ MaxRetries \in Nat /\ MaxStops \in Nat /\ MaxRefusals \in Nat /\ MaxChanges \in Nat

VARIABLES
    status,     \* jobs.status; the run's status follows it
    claim,      \* jobs.claim_owner: the attempt whose token it is, 0 for none
    attempt,    \* jobs.attempt
    state,      \* web_search_proposals.state, "none" without a row
    revision, query, provider, automatic, owner,    \* its other columns
    settings,   \* what a search depends on: enabled, confirm each query, the provider
    stage,      \* where the turn's task is, "none" without a live one
    mine,       \* the attempt the task was claimed for, 0 before that
    way,        \* how the task leaves its lease
    stopping,   \* the task was cancelled and has not noticed yet
    wake,       \* resume_search's callbacks: "armed" on the live task, "due" on one that ended
    up,         \* phase of the process
    \* What the world outside has seen.
    seen,       \* the proposal the person looked at last
    agreed,     \* the terms that were consented to
    offer,      \* the terms the task carries to the provider
    sent,       \* how many requests left the machine
    retries, stops, refusals, changes

row == <<status, claim, attempt>>
terms == <<revision, query, provider>>
proposal == <<state, terms, automatic, owner>>
task == <<stage, mine, way, stopping, wake, offer>>
person == <<seen, agreed>>
counts == <<retries, stops, refusals, changes>>
vars == <<row, proposal, settings, task, up, person, sent, counts>>

Active == {"queued", "running", "paused"}
Unsuccessful == {"failed", "cancelled", "interrupted"}
Statuses == Active \cup Unsuccessful \cup {"complete"}

Waiting == {"awaiting_approval", "scheduled"}
Revocable == Waiting \cup {"approved"}
Refused == {"declined", "cancelled"}
Dispatched == {"dispatching", "complete", "failed", "uncertain"}
States == {"none"} \cup Revocable \cup Refused \cup Dispatched

(* "timer": _resume_search_execution; "waiting": in _acquire_job; "ready": up to*)
(* _search_before_answer; "choosing": propose_search; "parking": paused, before *)
(* resume_search; "dispatched": before the request; "request": in it;           *)
(* "answering": the rest of _execute_chat; "exit": leaving the lease; "ending": *)
(* the handlers of _execute; "after": publishing what they wrote.               *)
Body == {"ready", "choosing", "parking", "dispatched", "request", "answering"}
InLease == Body \cup {"exit"}
Stages == {"none", "timer", "waiting", "ending", "after"} \cup InLease

Terms == [query : Queries, provider : Providers]
NoTerms == [query |-> NoProvider, provider |-> NoProvider]
View == [revision : Nat, query : Queries, provider : Providers]
NoView == [revision |-> 0, query |-> NoProvider, provider |-> NoProvider]

Live == stage # "none"
Serving == up \in {"up", "closing"}

(* may_search, and a valid provider.                                            *)
MaySearch == settings.enabled /\ settings.provider # NoProvider

(* _assert_claim and the owning rows.                                           *)
Owns == status = "running" /\ claim = mine

(* A claim no task holds: its release was refused.                              *)
Abandoned == claim # 0 /\ ~(stage \in InLease /\ claim = mine)

(* resumable_search_run.                                                        *)
Resumable ==
    \/ status = "queued" /\ state \in {"approved"} \cup Refused
    \/ status = "paused" /\ state = "scheduled"

Refuse ==
    /\ refusals < MaxRefusals
    /\ refusals' = refusals + 1
    /\ UNCHANGED <<retries, stops, changes>>

Goto(s) ==
    /\ stage' = s
    /\ UNCHANGED <<mine, way, stopping, wake, offer>>

Leave(how) ==
    /\ stage' = "exit"
    /\ way' = how
    /\ UNCHANGED <<mine, stopping, wake, offer>>

(* The task is over; the callbacks on it become due.                            *)
TaskEnds ==
    /\ stage' = "none"
    /\ mine' = 0
    /\ way' = "done"
    /\ stopping' = FALSE
    /\ wake' = IF wake = {} THEN {} ELSE {"due"}
    /\ offer' = NoTerms

(* start(): a live task is trusted with the job.                                *)
Start ==
    /\ stage' = IF Live THEN stage ELSE "waiting"
    /\ UNCHANGED <<mine, way, stopping, wake, offer>>

(* A variant that trusts a live task with the resumption.                       *)
ResumeIfIdle ==
    /\ stage' = IF ~Live /\ Resumable' THEN "timer" ELSE stage
    /\ UNCHANGED <<mine, way, stopping, wake, offer>>

(* resume_search(): at once without a live task, else when that task has ended. *)
Resume ==
    /\ stage' = IF ~Live /\ Resumable' THEN "timer" ELSE stage
    /\ wake' = IF Live THEN wake \cup {"armed"} ELSE wake
    /\ UNCHANGED <<mine, way, stopping, offer>>

(* cancel_pending_search: consent is revoked with the work it was given for.    *)
Revoke ==
    /\ state' = IF state \in Revocable THEN "cancelled" ELSE state
    /\ automatic' = (automatic /\ state \notin Revocable)
    /\ UNCHANGED <<terms, owner>>

--------------------------------------------------------------------------------
(* create_turn has committed the job and started its task.                      *)
Init ==
    /\ status = "queued" /\ claim = 0 /\ attempt = 0
    /\ state = "none" /\ revision = 0 /\ query = NoProvider /\ provider = NoProvider
    /\ automatic = FALSE /\ owner = 0
    /\ settings \in [enabled : {TRUE}, confirm : BOOLEAN, provider : {FirstProvider}]
    /\ stage = "waiting" /\ mine = 0 /\ way = "done" /\ stopping = FALSE /\ wake = {}
    /\ up = "up"
    /\ seen = NoView /\ agreed = NoTerms /\ offer = NoTerms /\ sent = 0
    /\ retries = 0 /\ stops = 0 /\ refusals = 0 /\ changes = 0

--------------------------------------------------------------------------------
(* The person.                                                                  *)

(* Web access, the chat's "confirm each query" and the provider are settings.   *)
Configure ==
    /\ up = "up"
    /\ changes < MaxChanges
    /\ changes' = changes + 1
    /\ \/ settings' = [settings EXCEPT !.enabled = ~@]
       \/ settings' = [settings EXCEPT !.confirm = ~@]
       \/ \E p \in (Providers \cup {NoProvider}) \ {settings.provider} :
              settings' = [settings EXCEPT !.provider = p]
    /\ UNCHANGED <<row, proposal, task, up, person, sent, retries, stops, refusals>>

(* The proposal is on the screen, and may be outdated when it is answered.      *)
Look ==
    /\ up = "up"
    /\ state \in Waiting
    /\ seen' = [revision |-> revision, query |-> query, provider |-> provider]
    /\ UNCHANGED <<row, proposal, settings, task, up, agreed, sent, counts>>

(* decide_search and the endpoint's resume_search.  Repeating a decision only   *)
(* resumes.                                                                     *)
Decide(target, allowed) ==
    /\ up = "up"
    /\ status \in Active
    /\ state # "none"
    /\ seen.revision = revision
    /\ state \in allowed \cup {target}
    /\ state' = target
    /\ automatic' = (automatic /\ state = target)
    /\ status' = IF state # target /\ status = "paused" THEN "queued" ELSE status
    /\ Resume
    /\ UNCHANGED <<claim, attempt, terms, owner, settings, up, seen, sent, counts>>

Approve ==
    /\ Decide("approved", {"awaiting_approval"})
    /\ agreed' = IF state = "approved" THEN agreed
                 ELSE [query |-> seen.query, provider |-> seen.provider]

Decline == Decide("declined", {"awaiting_approval"}) /\ UNCHANGED agreed

Withdraw == Decide("cancelled", Revocable) /\ UNCHANGED agreed

(* A variant that keeps the revision of what it replaces.                       *)
EditInPlace(q) ==
    /\ up = "up"
    /\ status = "paused"
    /\ state = "awaiting_approval"
    /\ seen.revision = revision
    /\ MaySearch
    /\ query' = q
    /\ provider' = settings.provider
    /\ automatic' = FALSE
    /\ UNCHANGED <<row, state, revision, owner, settings, task, up, person, sent, counts>>

(* replace_search_proposal: an edit is a new revision, for the current provider.*)
Edit(q) ==
    /\ up = "up"
    /\ status = "paused"
    /\ state = "awaiting_approval"
    /\ seen.revision = revision
    /\ revision < MaxRevision
    /\ MaySearch
    /\ query' = q
    /\ provider' = settings.provider
    /\ revision' = revision + 1
    /\ automatic' = FALSE
    /\ UNCHANGED <<row, state, owner, settings, task, up, person, sent, counts>>

(* A variant that leaves the proposal of a cancelled turn alone.                *)
CancelTurnOnly ==
    /\ up = "up"
    /\ status \in Active \cup {"interrupted"}
    /\ status' = "cancelled"
    /\ stopping' = Live
    /\ UNCHANGED <<claim, attempt, proposal, settings, stage, mine, way, wake, offer,
                   up, person, sent, counts>>

(* cancel(): the row and the consent in one transaction, and the task is told.  *)
CancelTurn ==
    /\ up = "up"
    /\ status \in Active \cup {"interrupted"}
    /\ status' = "cancelled"
    /\ Revoke
    /\ stopping' = Live
    /\ UNCHANGED <<claim, attempt, settings, stage, mine, way, wake, offer, up, person,
                   sent, counts>>

(* A variant in which a retry forgets that the search was refused.              *)
RetryAnew ==
    /\ up = "up"
    /\ status \in Unsuccessful
    /\ retries < MaxRetries
    /\ retries' = retries + 1
    /\ status' = "queued"
    /\ claim' = 0
    /\ state' = IF state \in Revocable \cup Refused THEN "none" ELSE state
    /\ Start
    /\ UNCHANGED <<attempt, terms, automatic, owner, settings, up, person, sent, stops,
                   refusals, changes>>

(* The retry endpoint: prepare_retry, commit, start.                            *)
Retry ==
    /\ up = "up"
    /\ status \in Unsuccessful
    /\ retries < MaxRetries
    /\ retries' = retries + 1
    /\ status' = "queued"
    /\ claim' = 0
    /\ Revoke
    /\ Start
    /\ UNCHANGED <<attempt, settings, up, person, sent, stops, refusals, changes>>

--------------------------------------------------------------------------------
(* The task before it holds the lease.                                          *)

(* approve_scheduled_search, after the visible window: what was allowed when it *)
(* opened is asked again.                                                       *)
TimerFires ==
    /\ Serving
    /\ stage = "timer" /\ ~stopping
    /\ state = "scheduled" /\ status = "paused"
    /\ state' = IF ~settings.enabled THEN "cancelled"
                ELSE IF settings.confirm \/ provider # settings.provider
                     THEN "awaiting_approval" ELSE "approved"
    /\ automatic' = (state' = "approved")
    /\ agreed' = IF state' = "approved" THEN [query |-> query, provider |-> provider]
                 ELSE agreed
    /\ status' = IF state' = "awaiting_approval" THEN "paused" ELSE "queued"
    /\ UNCHANGED <<claim, attempt, terms, owner, settings, task, up, seen, sent, counts>>

(* Decided: the task goes on if there is something to run.                      *)
TimerEnds ==
    /\ Serving
    /\ stage = "timer"
    /\ stopping \/ state # "scheduled"
    /\ IF ~stopping /\ Resumable THEN Goto("waiting") ELSE TaskEnds
    /\ UNCHANGED <<row, proposal, settings, up, person, sent, counts>>

(* The callback of resume_search runs; a task started meanwhile has the job.    *)
Woken ==
    /\ Serving
    /\ "due" \in wake
    /\ wake' = wake \ {"due"}
    /\ stage' = IF up = "up" /\ ~Live /\ Resumable THEN "timer" ELSE stage
    /\ UNCHANGED <<row, proposal, settings, mine, way, stopping, offer, up, person, sent, counts>>

(* A variant that clears only the claims of settled rows.                       *)
SweepSettled ==
    /\ Serving
    /\ Abandoned
    /\ status \notin Active
    /\ claim' = 0
    /\ UNCHANGED <<status, attempt, proposal, settings, task, up, person, sent, counts>>

(* Any waiter of the group clears the claim nobody holds, but not of a paused   *)
(* job.                                                                         *)
Sweep ==
    /\ Serving
    /\ Abandoned
    /\ status # "paused"
    /\ claim' = 0
    /\ status' = IF status \in Active THEN "interrupted" ELSE status
    /\ UNCHANGED <<attempt, proposal, settings, task, up, person, sent, counts>>

Claim ==
    /\ Serving
    /\ stage = "waiting" /\ ~stopping
    /\ status = "queued" /\ claim = 0
    /\ status' = "running"
    /\ attempt' = attempt + 1
    /\ claim' = attempt + 1
    /\ mine' = attempt + 1
    /\ stage' = "ready"
    /\ UNCHANGED <<proposal, settings, way, stopping, wake, offer, up, person, sent, counts>>

(* The waiter finds the row settled or is cancelled; a cancelled waiter cancels *)
(* a row that no claim has touched.                                             *)
WaitEnds ==
    /\ Serving
    /\ stage = "waiting"
    /\ stopping \/ status \notin Active
    /\ IF status = "queued" /\ claim = 0
       THEN status' = "cancelled" /\ Revoke
       ELSE UNCHANGED <<status, proposal>>
    /\ TaskEnds
    /\ UNCHANGED <<claim, attempt, settings, up, person, sent, counts>>

--------------------------------------------------------------------------------
(* The task in its lease: _execute_chat and _search_before_answer.  It finds no *)
(* proposal that still waits, as such a job is paused (PausedIsAsked), so       *)
(* retain_search_wait has no action.                                            *)

At(s) == Serving /\ stage = s /\ ~stopping

(* No proposal yet: the model is asked whether to search, or the turn is simply *)
(* answered.                                                                    *)
Consider ==
    /\ At("ready") /\ Owns
    /\ state = "none"
    /\ \/ MaySearch /\ Goto("choosing")
       \/ Goto("answering")
    /\ UNCHANGED <<row, proposal, settings, up, person, sent, counts>>

(* pause_for_search: permission and provider are those of this moment.  A       *)
(* refusal, like a model that does not want to search, leads to an answer.      *)
Propose ==
    /\ At("choosing") /\ Owns
    /\ \/ /\ MaySearch
          /\ state' = IF settings.confirm THEN "awaiting_approval" ELSE "scheduled"
          /\ query' \in Queries
          /\ provider' = settings.provider
          /\ revision' = 1
          /\ status' = "paused"
          /\ Goto(IF settings.confirm THEN "exit" ELSE "parking")
       \/ UNCHANGED <<status, state, terms>> /\ Goto("answering")
    /\ UNCHANGED <<claim, attempt, automatic, owner, settings, up, person, sent, counts>>

(* The pausing task asks for its own resumption.                                *)
Park ==
    /\ At("parking")
    /\ stage' = "exit"
    /\ wake' = wake \cup {"armed"}
    /\ UNCHANGED <<row, proposal, settings, mine, way, stopping, offer, up, person, sent, counts>>

(* prepare_search_dispatch: permission is read again.  Lost permission answers  *)
(* without a search, other terms need a new approval, else the one request is   *)
(* committed before it can be made.                                             *)
Prepare ==
    /\ At("ready") /\ Owns
    /\ state = "approved"
    /\ LET other == provider # settings.provider \/ (automatic /\ settings.confirm)
       IN  \/ /\ ~MaySearch \/ (other /\ revision = MaxRevision)
              /\ state' = "cancelled" /\ automatic' = FALSE
              /\ UNCHANGED <<status, terms, owner, offer>>
              /\ stage' = "answering"
           \/ /\ MaySearch /\ other /\ revision < MaxRevision
              /\ state' = "awaiting_approval" /\ automatic' = FALSE
              /\ revision' = revision + 1 /\ provider' = settings.provider
              /\ status' = "paused"
              /\ UNCHANGED <<query, owner, offer>>
              /\ stage' = "exit"
           \/ /\ MaySearch /\ ~other
              /\ state' = "dispatching" /\ owner' = mine
              /\ offer' = [query |-> query, provider |-> settings.provider]
              /\ UNCHANGED <<status, terms, automatic>>
              /\ stage' = "dispatched"
    /\ UNCHANGED <<claim, attempt, settings, mine, way, stopping, wake, up, person, sent, counts>>

(* search_result_for_answer: what an earlier execution dispatched and did not   *)
(* finish is never asked again.                                                 *)
Reuse ==
    /\ At("ready") /\ Owns
    /\ state \in Refused \cup Dispatched
    /\ state' = IF state = "dispatching" THEN "uncertain" ELSE state
    /\ Goto("answering")
    /\ UNCHANGED <<row, terms, automatic, owner, settings, up, person, sent, counts>>

(* The phase is written under the claim, then the request leaves.               *)
Send ==
    /\ At("dispatched") /\ Owns
    /\ sent' = sent + 1
    /\ Goto("request")
    /\ UNCHANGED <<row, proposal, settings, up, person, counts>>

(* finish_search: results, or an error of the provider.                         *)
Finish ==
    /\ At("request") /\ Owns
    /\ state = "dispatching" /\ owner = mine
    /\ state' \in {"complete", "failed"}
    /\ Goto("answering")
    /\ UNCHANGED <<row, terms, automatic, owner, settings, up, person, sent, counts>>

(* The answer is streamed and _complete finds the row its own; or the engine    *)
(* fails.                                                                       *)
Answer ==
    /\ At("answering") /\ Owns
    /\ \/ status' = "complete" /\ Leave("done")
       \/ UNCHANGED status /\ Leave("failed")
    /\ UNCHANGED <<claim, attempt, proposal, settings, up, person, sent, counts>>

(* The row is no longer this execution's: ClaimLost, or a refused conditional   *)
(* write.  It writes nothing more.                                              *)
Lost ==
    /\ Serving
    /\ stage \in Body \ {"parking"}
    /\ ~Owns
    /\ Leave("done")
    /\ UNCHANGED <<row, proposal, settings, up, person, sent, counts>>

(* A held database refuses a consent transaction as a conflict, which is taken  *)
(* for a lost claim, and a phase write as an error.                             *)
TakenForLost ==
    /\ Serving
    /\ (stage = "ready" /\ state # "none") \/ stage = "request"
    /\ Refuse
    /\ Leave("done")
    /\ UNCHANGED <<row, proposal, settings, up, person, sent>>

PhaseRefused ==
    /\ Serving
    /\ stage \in {"ready", "dispatched", "answering"}
    /\ Refuse
    /\ Leave("failed")
    /\ UNCHANGED <<row, proposal, settings, up, person, sent>>

(* CancelledError leaves the lease first.                                       *)
Stopped ==
    /\ Serving
    /\ stage \in Body
    /\ stopping
    /\ Leave("cancelled")
    /\ UNCHANGED <<row, proposal, settings, up, person, sent, counts>>

--------------------------------------------------------------------------------
(* Leaving: job_lease's exit, then the handlers of _execute.                    *)

(* A variant that does not tell why the lease was left.                         *)
ReleaseAsIs ==
    /\ Serving
    /\ stage = "exit"
    /\ claim' = IF claim = mine THEN 0 ELSE claim
    /\ IF way = "done" /\ ~stopping THEN TaskEnds ELSE Goto("ending")
    /\ UNCHANGED <<status, attempt, proposal, settings, up, person, sent, counts>>

Release ==
    /\ Serving
    /\ stage = "exit"
    /\ claim' = IF claim = mine THEN 0 ELSE claim
    /\ IF way = "done" /\ ~stopping
       THEN TaskEnds
       ELSE /\ stage' = "ending"
            /\ way' = IF way = "failed" THEN "failed" ELSE "cancelled"
            /\ UNCHANGED <<mine, stopping, wake, offer>>
    /\ UNCHANGED <<status, attempt, proposal, settings, up, person, sent, counts>>

(* The release raises out of the lease.                                         *)
ReleaseRefused ==
    /\ Serving
    /\ stage = "exit"
    /\ Refuse
    /\ stage' = "ending"
    /\ way' = "failed"
    /\ UNCHANGED <<row, proposal, settings, mine, stopping, wake, offer, up, person, sent>>

(* _claim_terminal_transition: the row as the released lease left it.           *)
Mine == status = "running" /\ attempt = mine /\ claim \in {0, mine}

(* _fail, or _mark_cancelled after CancelledError.                              *)
Settle ==
    /\ Serving
    /\ stage = "ending"
    /\ IF Mine
       THEN status' = way /\ Revoke
       ELSE UNCHANGED <<status, proposal>>
    /\ IF Mine /\ way = "failed" THEN Goto("after") ELSE TaskEnds
    /\ UNCHANGED <<claim, attempt, settings, up, person, sent, counts>>

SettleRefused ==
    /\ Serving
    /\ stage = "ending"
    /\ Refuse
    /\ TaskEnds
    /\ UNCHANGED <<row, proposal, settings, up, person, sent>>

(* _fail has published what it wrote.                                           *)
Publish ==
    /\ Serving
    /\ stage = "after"
    /\ TaskEnds
    /\ UNCHANGED <<row, proposal, settings, up, person, sent, counts>>

--------------------------------------------------------------------------------
(* The process.                                                                 *)

(* close(): resumptions stop, the task is cancelled and awaited.                *)
Close ==
    /\ up = "up"
    /\ stops < MaxStops
    /\ stops' = stops + 1
    /\ up' = "closing"
    /\ stopping' = Live
    /\ UNCHANGED <<row, proposal, settings, stage, mine, way, wake, offer, person, sent,
                   retries, refusals, changes>>

Down ==
    /\ up' = "down"
    /\ stage' = "none" /\ mine' = 0 /\ way' = "done" /\ stopping' = FALSE /\ wake' = {}
    /\ offer' = NoTerms
    /\ UNCHANGED <<row, proposal, settings, person, sent, retries, refusals, changes>>

Closed == up = "closing" /\ ~Live /\ Down /\ UNCHANGED stops

Crash == up # "down" /\ stops < MaxStops /\ stops' = stops + 1 /\ Down

(* A variant that offers an interrupted request for another attempt.            *)
BootSearchAgain ==
    /\ up = "down"
    /\ up' = "booting"
    /\ state' = IF state = "dispatching" THEN "approved" ELSE state
    /\ claim' = IF status = "paused" /\ state \in Waiting THEN 0 ELSE claim
    /\ UNCHANGED <<status, attempt, terms, automatic, owner, settings, task, person, sent, counts>>

(* recover_search_dispatches.                                                   *)
BootSearch ==
    /\ up = "down"
    /\ up' = "booting"
    /\ state' = IF state = "dispatching" THEN "uncertain" ELSE state
    /\ claim' = IF status = "paused" /\ state \in Waiting THEN 0 ELSE claim
    /\ UNCHANGED <<status, attempt, terms, automatic, owner, settings, task, person, sent, counts>>

(* A variant that leaves scheduled searches to the person.                      *)
BootRowsOnly ==
    /\ up = "booting"
    /\ up' = "up"
    /\ status' = IF status = "running" THEN "interrupted" ELSE status
    /\ claim' = IF status = "paused" THEN claim ELSE 0
    /\ stage' = IF status = "queued" THEN "waiting" ELSE "none"
    /\ UNCHANGED <<attempt, proposal, settings, mine, way, stopping, wake, offer, person, sent,
                   counts>>

(* recover_interrupted, and recover_queue_lanes for the settled rows.           *)
BootRows ==
    /\ up = "booting"
    /\ up' = "up"
    /\ status' = IF status = "running" THEN "interrupted" ELSE status
    /\ claim' = IF status = "paused" THEN claim ELSE 0
    /\ stage' = IF status = "queued" THEN "waiting"
                ELSE IF status = "paused" /\ state = "scheduled" THEN "timer" ELSE "none"
    /\ UNCHANGED <<attempt, proposal, settings, mine, way, stopping, wake, offer, person, sent,
                   counts>>

--------------------------------------------------------------------------------
Person ==
    \/ Configure
    \/ Look
    \/ Approve
    \/ Decline
    \/ Withdraw
    \/ \E q \in Queries : Edit(q)
    \/ CancelTurn
    \/ Retry

Step ==
    \/ TimerFires
    \/ TimerEnds
    \/ Claim
    \/ WaitEnds
    \/ Consider
    \/ Propose
    \/ Park
    \/ Prepare
    \/ Reuse
    \/ Send
    \/ Finish
    \/ Answer
    \/ Lost
    \/ Stopped
    \/ Release
    \/ Settle
    \/ Publish

Refusal ==
    \/ TakenForLost
    \/ PhaseRefused
    \/ ReleaseRefused
    \/ SettleRefused

Boot == BootSearch \/ BootRows

Next ==
    \/ Person
    \/ Step
    \/ Refusal
    \/ Woken
    \/ Sweep
    \/ Boot
    \/ Close
    \/ Closed
    \/ Crash

Spec == Init /\ [][Next]_vars

(* The event loop runs a task that can move and the callbacks of one that has   *)
(* ended, the window passes, model and provider answer or time out, a waiter of *)
(* the group sweeps, and a started program finishes starting or stopping.  The  *)
(* person owes nothing.                                                         *)
Fairness ==
    /\ WF_vars(Step \/ Refusal)
    /\ WF_vars(Woken)
    /\ WF_vars(Sweep)
    /\ WF_vars(Boot)
    /\ WF_vars(Closed)

FairSpec == Spec /\ Fairness

--------------------------------------------------------------------------------
(* Every variable keeps its type; a proposal is there as a whole.               *)
TypeOK ==
    /\ status \in Statuses
    /\ claim \in Nat /\ attempt \in Nat
    /\ state \in States
    /\ IF state = "none"
       THEN revision = 0
       ELSE revision \in Nat \ {0} /\ query \in Queries /\ provider \in Providers
    /\ automatic \in BOOLEAN /\ owner \in Nat
    /\ settings \in [enabled : BOOLEAN, confirm : BOOLEAN, provider : Providers \cup {NoProvider}]
    /\ stage \in Stages
    /\ mine \in Nat
    /\ way \in {"done", "failed", "cancelled"}
    /\ stopping \in BOOLEAN
    /\ wake \in SUBSET {"armed", "due"}
    /\ up \in {"up", "closing", "down", "booting"}
    /\ seen \in View \cup {NoView}
    /\ agreed \in Terms \cup {NoTerms} /\ offer \in Terms \cup {NoTerms}
    /\ sent \in Nat
    /\ retries \in 0..MaxRetries /\ stops \in 0..MaxStops
    /\ refusals \in 0..MaxRefusals /\ changes \in 0..MaxChanges

(* Through crashes, retries and refused writes at most one request leaves the   *)
(* machine for a turn, and one that may have left is never recorded as not sent *)
(* (prepare_search_dispatch, "an unfinished outbound attempt is never           *)
(* replayed").                                                                  *)
SentOnce == sent <= 1 /\ (sent = 1 => state \in Dispatched)

(* What leaves is what was agreed to: the query and the provider the person saw *)
(* when approving, or that stood through the cancellation window.  Edits raise  *)
(* the revision a decision names, and the dispatch compares the provider.       *)
SentAsAgreed == [][sent' # sent => offer = agreed]_vars

(* A turn is paused exactly while its proposal waits: no paused turn is without *)
(* a decision that could resume it, and no proposal asks for a turn that is     *)
(* cancelled, failed or being answered.                                         *)
PausedIsAsked == status = "paused" <=> state \in Waiting

(* The turn needs no restart to go on but has nobody who would take it up.      *)
Stranded == up = "up" /\ ~Live /\ wake = {} /\ status \in {"queued", "running"}

(* An approval is never forgotten: the turn is taken up with it or the consent  *)
(* is revoked, whichever of the pausing task, a callback, the timer or a        *)
(* restart has to see to it.                                                    *)
ApprovalTakenUp == (status = "queued" /\ state = "approved") ~> (status # "queued" \/ state # "approved")

(* A turn that is queued, by a decision, a retry or a restart, is taken up and  *)
(* ends or asks again, unless it is stranded.                                   *)
TurnEnds == status = "queued" ~> (status \notin {"queued", "running"} \/ Stranded)

(* The cancellation window of an automatic search ends in an approval, a        *)
(* question or a cancellation, whatever restarts come between.                  *)
WindowEnds == state = "scheduled" ~> state # "scheduled"

(* "Record it so the next pass can clear it; otherwise the group counts a claim *)
(* no execution holds and stops dispatching" (job_lease): a claim whose release *)
(* was refused can be swept while the program runs.                             *)
ClaimSwept == up = "up" /\ Abandoned => ENABLED Sweep

(* The life of a proposal and its one request.                                  *)
Consent == INSTANCE ConsentLedger WITH
    phase <- IF state \in {"none"} \cup Waiting THEN "open"
             ELSE IF state = "approved" THEN "agreed"
             ELSE IF state = "dispatching" THEN "committed" ELSE "closed",
    sent <- sent
ImplementsConsent == Consent!ConsentSpec
================================================================================
