------------------------------ MODULE ModelStore -------------------------------
(* The directory of one model revision.  Several installs may own files in it:  *)
(* two quantizations of one repository, say, with the same vision projector.    *)
(* Attempts to install add files and, when they fail, take them out again       *)
(* (downloads.py); deleting a model moves its files to a quarantine, commits the*)
(* row and only then removes them (api.py delete_model, model_quarantine.py).   *)
(*                                                                              *)
(* Deletion and merging run on the event loop without a pause: between two of   *)
(* their file operations only the death of the process can come.  The exception *)
(* is the last step of a deletion, which removes the quarantine in a thread.    *)
(* Deletions, probes and the cleanup after a failure hold the primary lease.    *)
(*                                                                              *)
(* An install is one attempt: the id of its row is never used again.  Attempts  *)
(* of an install plan (Plans) have an inactive row until a probe succeeds; the  *)
(* others are active at once.                                                   *)
EXTENDS Naturals, FiniteSets

CONSTANTS
    Installs,
    Plans,        \* the installs of an install plan
    Files,
    Manifest,     \* [Installs -> SUBSET Files]: manifest_json["files"]
    MaxCrashes, MaxFaults    \* bounds; a fault is a file or database operation that fails

ASSUME InstallsAssumption ==
    /\ Plans \subseteq Installs
    /\ Manifest \in [Installs -> SUBSET Files \ {{}}]
    /\ {"free", "delete", "nobody"} \cap Installs = {}
ASSUME BoundsAssumption == MaxCrashes \in Nat /\ MaxFaults \in Nat

VARIABLES
    row,        \* [Installs -> {"none", "inactive", "active"}]: ModelInstall
    dir,        \* SUBSET Files: what the directory has
    path,       \* {"none", "directory"}: whether it exists; it may be empty
    staging,    \* [Installs -> SUBSET Files]: the attempt's .partial directory
    stage,      \* [Installs -> Stages]: how far the attempt is
    primary,    \* who holds the primary lease: an install, "delete" or "free"
    q,          \* the directory below .delete-pending, or NoQuarantine
    pc,         \* what a deletion, or the start of the process, does next
    target,     \* the install being deleted
    crashes, faults

folder == <<dir, path>>
attempts == <<staging, stage>>
counts == <<crashes, faults>>
vars == <<row, folder, attempts, primary, q, pc, target, counts>>

Stages == {"new", "staged", "waiting", "probing", "proved", "failed", "retained", "ended"}

(* "boot" and "settling" recover what an earlier deletion left, the one when the*)
(* process starts, the other (strict) before a new deletion.                    *)
Steps == {"boot", "idle", "settling", "staging", "opening", "writing", "moving", "deleting",
          "rollback", "finalizing"}

NoQuarantine == [owner |-> "nobody"]

(* The event loop is not in the middle of a deletion or of its start.           *)
LoopFree == pc \in {"idle", "finalizing"}

Rows == {i \in Installs : row[i] # "none"}
FilesOf(S) == UNION {Manifest[i] : i \in S}

--------------------------------------------------------------------------------
Init ==
    /\ row = [i \in Installs |-> "none"]
    /\ dir = {} /\ path = "none"
    /\ staging = [i \in Installs |-> {}]
    /\ stage = [i \in Installs |-> "new"]
    /\ primary = "free"
    /\ q = NoQuarantine
    /\ pc = "idle"
    /\ target \in Installs
    /\ crashes = 0 /\ faults = 0

Fault ==
    /\ faults < MaxFaults
    /\ faults' = faults + 1
    /\ UNCHANGED crashes

--------------------------------------------------------------------------------
(* Attempts to install.                                                         *)

At(i, here) == LoopFree /\ stage[i] = here
Go(i, there) == stage' = [stage EXCEPT ![i] = there]

(* Every file of the manifest is downloaded and verified.                       *)
Download(i) ==
    /\ At(i, "new")
    /\ Go(i, "staged")
    /\ staging' = [staging EXCEPT ![i] = Manifest[i]]
    /\ UNCHANGED <<row, folder, primary, q, pc, target, counts>>

(* Files go to the directory unless it has them already.                        *)
Merge(i) ==
    /\ dir' = dir \cup staging[i]
    /\ path' = "directory"
    /\ staging' = [staging EXCEPT ![i] = {}]

(* They are merged and the row is added.                                        *)
Register(i) ==
    /\ At(i, "staged")
    /\ Merge(i)
    /\ row' = [row EXCEPT ![i] = IF i \in Plans THEN "inactive" ELSE "active"]
    /\ Go(i, IF i \in Plans THEN "waiting" ELSE "ended")
    /\ UNCHANGED <<primary, q, pc, target, counts>>

(* Some files get there, or all and the row is refused.  Only a plan cleans up. *)
MergePart(i) ==
    \E done \in SUBSET staging[i] :
        /\ dir' = dir \cup done
        /\ path' \in IF done = {} THEN {path, "directory"} ELSE {"directory"}
        /\ staging' = [staging EXCEPT ![i] = @ \ done]

RegisterFails(i) ==
    /\ At(i, "staged")
    /\ Fault
    /\ MergePart(i)
    /\ Go(i, IF i \in Plans THEN "failed" ELSE "ended")
    /\ UNCHANGED <<row, primary, q, pc, target>>

(* The user cancels while the attempt waits for a lease, or the process stops.  *)
Cancel(i) ==
    /\ stage[i] \in {"staged", "waiting"} /\ LoopFree
    /\ Go(i, IF i \in Plans THEN "failed" ELSE "ended")
    /\ UNCHANGED <<row, folder, staging, primary, q, pc, target, counts>>

(* _activate_chat_install; there is nothing to prove when the row was deleted.  *)
Probe(i) ==
    /\ At(i, "waiting")
    /\ primary = "free"
    /\ IF row[i] = "none"
       THEN Go(i, "ended") /\ UNCHANGED primary
       ELSE Go(i, "probing") /\ primary' = i
    /\ UNCHANGED <<row, folder, staging, q, pc, target, counts>>

(* The runtime has loaded the files and answered.                               *)
Prove(i) ==
    /\ At(i, "probing")
    /\ Manifest[i] \subseteq dir
    /\ Go(i, "proved")
    /\ UNCHANGED <<row, folder, staging, primary, q, pc, target, counts>>

ActiveSiblings(i) == {j \in Installs \ {i} : row[j] = "active"}

(* The model becomes active and replaces those of its role, engine and source;  *)
(* which of the others these are is left open.                                  *)
ProbeSucceeds(i) ==
    /\ At(i, "proved")
    /\ \E replaced \in SUBSET ActiveSiblings(i) :
           row' = [j \in Installs |-> IF j = i THEN "active"
                                      ELSE IF j \in replaced THEN "inactive" ELSE row[j]]
    /\ primary' = "free"
    /\ Go(i, "ended")
    /\ UNCHANGED <<folder, staging, q, pc, target, counts>>

(* A variant that leaves the lease behind.                                      *)
ProbeFailsLeased(i) ==
    /\ stage[i] \in {"probing", "proved"} /\ LoopFree
    /\ Go(i, "failed")
    /\ UNCHANGED <<row, folder, staging, primary, q, pc, target, counts>>

(* It does not run, the user cancels, or the process stops.                     *)
ProbeFails(i) ==
    /\ stage[i] \in {"probing", "proved"} /\ LoopFree
    /\ primary' = "free"
    /\ Go(i, "failed")
    /\ UNCHANGED <<row, folder, staging, q, pc, target, counts>>

(* _retain_verified_staging: what is in the manifest goes back to staging, to be*)
(* used by the next attempt.  No lease is held, and nothing is waited for: no   *)
(* cancellation comes before it.  The directory stays, though it may be empty.  *)
Retain(i) ==
    /\ At(i, "failed")
    /\ dir' = dir \ Manifest[i]
    /\ staging' = [staging EXCEPT ![i] = @ \cup (Manifest[i] \cap dir)]
    /\ Go(i, "retained")
    /\ UNCHANGED <<row, path, primary, q, pc, target, counts>>

(* Part of them was moved when it failed; nothing is cleaned up then.           *)
RetainFails(i) ==
    /\ At(i, "failed")
    /\ Fault
    /\ \E done \in SUBSET (Manifest[i] \cap dir) :
        /\ dir' = dir \ done
        /\ staging' = [staging EXCEPT ![i] = @ \cup done]
    /\ Go(i, "ended")
    /\ UNCHANGED <<row, path, primary, q, pc, target>>

(* A variant that does not ask who else is there.                               *)
DiscardedWhole(i) == dir

(* What a cleanup discards: everything and the directory itself, if no other    *)
(* install is active.                                                           *)
Discarded(i) ==
    IF ActiveSiblings(i) = {} THEN dir ELSE (Manifest[i] \cap dir) \ FilesOf(ActiveSiblings(i))

(* _cleanup_provisional_install, also when the row is gone or was never added.  *)
Cleanup(i) ==
    /\ At(i, "retained")
    /\ primary = "free"
    /\ dir' = dir \ Discarded(i)
    /\ path' = IF ActiveSiblings(i) = {} THEN "none" ELSE path
    /\ row' = [row EXCEPT ![i] = "none"]
    /\ Go(i, "ended")
    /\ UNCHANGED <<staging, primary, q, pc, target, counts>>

(* The wait for the lease is cancelled: nothing is cleaned up, though cancel    *)
(* itself asks for the same cleanup when the user wanted it.                    *)
CleanupCancelled(i) ==
    /\ At(i, "retained")
    /\ Go(i, "ended")
    /\ UNCHANGED <<row, folder, staging, primary, q, pc, target, counts>>

(* The commit is refused and the files are put back.                            *)
CleanupFails(i) ==
    /\ At(i, "retained")
    /\ primary = "free"
    /\ Fault
    /\ Go(i, "ended")
    /\ UNCHANGED <<row, folder, staging, primary, q, pc, target>>

--------------------------------------------------------------------------------
(* Recovery, when the process starts and before a deletion.                     *)

Settling == pc \in {"boot", "settling"}

(* The quarantine cannot be settled: a start goes on without, a deletion is     *)
(* refused.                                                                     *)
GiveUp ==
    /\ pc' = "idle"
    /\ primary' = "free"

SettleNothing ==
    /\ Settling
    /\ q = NoQuarantine
    /\ pc' = IF pc = "boot" THEN "idle" ELSE "staging"
    /\ UNCHANGED <<row, folder, attempts, primary, q, target, counts>>

(* A quarantine with neither marker nor files was made or removed halfway.      *)
SettleEmpty ==
    /\ Settling
    /\ q # NoQuarantine
    /\ q.marker = "none" /\ q.held = {}
    /\ q' = NoQuarantine
    /\ UNCHANGED <<row, folder, attempts, primary, pc, target, counts>>

(* The marker is empty, or missing over files: nobody can tell the owner.       *)
SettleUnknown ==
    /\ Settling
    /\ q # NoQuarantine
    /\ q.marker # "whole"
    /\ q.marker = "none" => q.held # {}
    /\ GiveUp
    /\ UNCHANGED <<row, folder, attempts, q, target, counts>>

Owned == q # NoQuarantine /\ q.marker = "whole"
Removing == Owned /\ Settling /\ row[q.owner] = "none"
Restoring == Owned /\ (pc = "rollback" \/ (Settling /\ row[q.owner] # "none"))

(* A file, or the whole directory, is moved back where nothing has taken its    *)
(* place.                                                                       *)
Restore ==
    /\ Restoring
    /\ IF q.payload
       THEN /\ path = "none"
            /\ dir' = q.held
            /\ q' = [q EXCEPT !.held = {}, !.payload = FALSE]
       ELSE \E f \in q.held \ dir :
                /\ dir' = dir \cup {f}
                /\ q' = [q EXCEPT !.held = @ \ {f}]
    /\ path' = "directory"
    /\ UNCHANGED <<row, attempts, primary, pc, target, counts>>

(* "recovery needs manual conflict resolution"; an empty directory is in the way*)
(* of a whole one.                                                              *)
Conflict == IF q.payload THEN path = "directory" ELSE q.held \cap dir # {}

RestoreConflicts ==
    /\ Restoring
    /\ Conflict
    /\ GiveUp
    /\ UNCHANGED <<row, folder, attempts, q, target, counts>>

SettleFails ==
    /\ Restoring \/ Removing
    /\ Fault
    /\ GiveUp
    /\ UNCHANGED <<row, folder, attempts, q, target>>

--------------------------------------------------------------------------------
(* Deletion of a model.                                                         *)

Delete(i) ==
    /\ pc = "idle"
    /\ primary = "free"
    /\ row[i] # "none"
    /\ primary' = "delete"
    /\ target' = i
    /\ pc' = "settling"
    /\ UNCHANGED <<row, folder, attempts, q, counts>>

(* A variant that asks active installs only, as a cleanup does.                 *)
SiblingsActive == {j \in Installs \ {target} : row[j] = "active"}

Siblings == Rows \ {target}

(* What no other row has in its manifest; without another row, everything.      *)
Own == IF Siblings = {} THEN dir ELSE (Manifest[target] \cap dir) \ FilesOf(Siblings)

(* Nothing is left to move: no directory, or no file of its own.                *)
NothingOwn == IF Siblings = {} THEN path = "none" ELSE Own = {}

Stage ==
    /\ pc = "staging"
    /\ IF NothingOwn
       THEN pc' = "deleting" /\ UNCHANGED q
       ELSE /\ pc' = "opening"
            /\ q' = [owner |-> target, marker |-> "none", held |-> {}, payload |-> FALSE]
    /\ UNCHANGED <<row, folder, attempts, primary, target, counts>>

(* The marker is created empty, then written and synced.                        *)
OpenMarker ==
    /\ pc = "opening"
    /\ q' = [q EXCEPT !.marker = "torn"]
    /\ pc' = "writing"
    /\ UNCHANGED <<row, folder, attempts, primary, target, counts>>

WriteMarker ==
    /\ pc = "writing"
    /\ q' = [q EXCEPT !.marker = "whole"]
    /\ pc' = "moving"
    /\ UNCHANGED <<row, folder, attempts, primary, target, counts>>

(* The quarantine, which is not empty, stays.                                   *)
WriteFails ==
    /\ pc = "writing"
    /\ Fault
    /\ GiveUp
    /\ UNCHANGED <<row, folder, attempts, q, target>>

(* The directory as a whole, or file by file.                                   *)
Move ==
    /\ pc = "moving"
    /\ ~NothingOwn
    /\ IF Siblings = {}
       THEN /\ dir' = {} /\ path' = "none"
            /\ q' = [q EXCEPT !.held = dir, !.payload = TRUE]
       ELSE /\ \E f \in Own :
                  dir' = dir \ {f} /\ q' = [q EXCEPT !.held = @ \cup {f}]
            /\ UNCHANGED path
    /\ UNCHANGED <<row, attempts, primary, pc, target, counts>>

Moved ==
    /\ pc = "moving"
    /\ NothingOwn
    /\ pc' = "deleting"
    /\ UNCHANGED <<row, folder, attempts, primary, q, target, counts>>

MoveFails ==
    /\ pc = "moving"
    /\ Fault
    /\ pc' = "rollback"
    /\ UNCHANGED <<row, folder, attempts, primary, q, target>>

(* Also when the commit reports an error and the row turns out to be gone.      *)
Commit ==
    /\ pc = "deleting"
    /\ row' = [row EXCEPT ![target] = "none"]
    /\ pc' = "finalizing"
    /\ UNCHANGED <<folder, attempts, primary, q, target, counts>>

CommitFails ==
    /\ pc = "deleting"
    /\ Fault
    /\ pc' = "rollback"
    /\ UNCHANGED <<row, folder, attempts, primary, q, target>>

(* A variant that takes no answer for a yes.                                    *)
CommitUnknownGone ==
    /\ pc = "deleting"
    /\ Fault
    /\ \E result \in {"none", row[target]} : row' = [row EXCEPT ![target] = result]
    /\ pc' = "finalizing"
    /\ UNCHANGED <<folder, attempts, primary, q, target>>

(* The database does not even answer: whatever happened, the files stay where   *)
(* they are.                                                                    *)
CommitUnknown ==
    /\ pc = "deleting"
    /\ Fault
    /\ \E result \in {"none", row[target]} : row' = [row EXCEPT ![target] = result]
    /\ GiveUp
    /\ UNCHANGED <<folder, attempts, q, target>>

RolledBack ==
    /\ pc = "rollback"
    /\ q = NoQuarantine
    /\ GiveUp
    /\ UNCHANGED <<row, folder, attempts, q, target, counts>>

(* _finalize_model_quarantine: the files, then the marker, then the directory.  *)
Finalizing == q # NoQuarantine /\ (pc = "finalizing" \/ Removing)

Remove ==
    /\ Finalizing
    /\ \E f \in q.held : q' = [q EXCEPT !.held = @ \ {f}]
    /\ UNCHANGED <<row, folder, attempts, primary, pc, target, counts>>

(* What is to go back has gone back.                                            *)
Restored == Restoring /\ q.held = {} /\ ~q.payload

(* A variant that removes the marker first.                                     *)
RemoveMarkerFirst ==
    /\ Finalizing \/ Restored
    /\ q.marker = "whole"
    /\ q' = [q EXCEPT !.marker = "none", !.payload = FALSE]
    /\ UNCHANGED <<row, folder, attempts, primary, pc, target, counts>>

RemoveMarker ==
    /\ Finalizing \/ Restored
    /\ q.held = {} /\ q.marker = "whole"
    /\ q' = [q EXCEPT !.marker = "none", !.payload = FALSE]
    /\ UNCHANGED <<row, folder, attempts, primary, pc, target, counts>>

RemoveDirectory ==
    /\ pc \in {"rollback", "finalizing"}
    /\ q # NoQuarantine
    /\ q.held = {} /\ q.marker = "none"
    /\ q' = NoQuarantine
    /\ UNCHANGED <<row, folder, attempts, primary, pc, target, counts>>

Finalized ==
    /\ pc = "finalizing"
    /\ q = NoQuarantine
    /\ GiveUp
    /\ UNCHANGED <<row, folder, attempts, q, target, counts>>

FinalizeFails ==
    /\ pc = "finalizing"
    /\ Fault
    /\ GiveUp
    /\ UNCHANGED <<row, folder, attempts, q, target>>

--------------------------------------------------------------------------------
(* The process dies, also within a merge, a retreat or a cleanup.  What was     *)
(* merged or moved stays so; a new attempt starts after the restart, one that   *)
(* was still downloading goes on.                                               *)

Restarted(i) ==
    CASE stage[i] \in {"new", "staged", "ended"} -> stage[i]
      [] OTHER -> "ended"

Die ==
    /\ crashes < MaxCrashes
    /\ crashes' = crashes + 1
    /\ pc' = "boot"
    /\ primary' = "free"
    /\ UNCHANGED <<row, q, target, faults>>

Crash ==
    /\ Die
    /\ stage' = [i \in Installs |-> Restarted(i)]
    /\ UNCHANGED <<folder, staging>>

CrashMerging(i) ==
    /\ At(i, "staged")
    /\ Die
    /\ MergePart(i)
    /\ stage' = [j \in Installs |-> IF j = i THEN "new" ELSE Restarted(j)]

CrashRetaining(i) ==
    /\ At(i, "failed")
    /\ Die
    /\ \E done \in SUBSET (Manifest[i] \cap dir) :
        /\ dir' = dir \ done
        /\ staging' = [staging EXCEPT ![i] = @ \cup done]
    /\ stage' = [j \in Installs |-> Restarted(j)]
    /\ UNCHANGED path

(* Before the commit: the row stays.  The whole directory is moved at once.     *)
CrashCleaning(i) ==
    /\ At(i, "retained")
    /\ primary = "free"
    /\ Die
    /\ IF ActiveSiblings(i) = {}
       THEN UNCHANGED folder \/ (dir' = {} /\ path' = "none")
       ELSE (\E done \in SUBSET Discarded(i) : dir' = dir \ done) /\ UNCHANGED path
    /\ stage' = [j \in Installs |-> Restarted(j)]
    /\ UNCHANGED staging

--------------------------------------------------------------------------------
Deletion ==
    \/ SettleNothing \/ SettleEmpty \/ SettleUnknown
    \/ Restore \/ RestoreConflicts
    \/ Stage \/ OpenMarker \/ WriteMarker \/ Move \/ Moved \/ Commit
    \/ RolledBack \/ Remove \/ RemoveMarker \/ RemoveDirectory \/ Finalized

Failure ==
    \/ SettleFails \/ WriteFails \/ MoveFails
    \/ CommitFails \/ CommitUnknown \/ FinalizeFails

Attempt(i) ==
    \/ Register(i)
    \/ Probe(i) \/ Prove(i) \/ ProbeSucceeds(i) \/ ProbeFails(i)
    \/ Retain(i) \/ Cleanup(i)

Next ==
    \/ Deletion
    \/ Failure
    \/ Crash
    \/ \E i \in Installs :
        \/ Attempt(i)
        \/ Download(i)
        \/ Delete(i) \/ Cancel(i)
        \/ RegisterFails(i) \/ RetainFails(i) \/ CleanupFails(i) \/ CleanupCancelled(i)
        \/ CrashMerging(i) \/ CrashRetaining(i) \/ CrashCleaning(i)

Spec == Init /\ [][Next]_vars

(* A deletion, a start and an attempt run on; leases are given in turn.         *)
Fairness ==
    /\ WF_vars(Deletion)
    /\ \A i \in Installs : SF_vars(Attempt(i))

FairSpec == Spec /\ Fairness

--------------------------------------------------------------------------------
(* Every variable keeps its type; a quarantine has files under its marker only, *)
(* so that whoever finds them can tell whose they are.                          *)
Quarantines ==
    {r \in [owner : Installs, marker : {"none", "torn", "whole"},
            held : SUBSET Files, payload : BOOLEAN] :
        r.marker # "whole" => r.held = {} /\ ~r.payload}

TypeOK ==
    /\ row \in [Installs -> {"none", "inactive", "active"}]
    /\ dir \in SUBSET Files /\ path \in {"none", "directory"}
    /\ path = "none" => dir = {}
    /\ staging \in [Installs -> SUBSET Files]
    /\ stage \in [Installs -> Stages]
    /\ primary \in Installs \cup {"free", "delete"}
    /\ q \in Quarantines \cup {NoQuarantine}
    /\ pc \in Steps
    /\ target \in Installs
    /\ crashes \in 0..MaxCrashes /\ faults \in 0..MaxFaults

(* An active model has its files, or they are in a quarantine that will give    *)
(* them back: whatever is installed, deleted, cancelled or cut short around it. *)
Recoverable(i) == IF q # NoQuarantine /\ q.owner = i THEN q.held ELSE {}
ActiveKept == \A i \in Installs : row[i] = "active" => Manifest[i] \subseteq dir \cup Recoverable(i)

(* A deletion takes nothing another row has in its manifest, active or not: when*)
(* its own row goes, no row that is left misses a file that is set aside.       *)
SharedSpared ==
    [][pc = "deleting" /\ row'[target] = "none" /\ q # NoQuarantine =>
           \A j \in Rows \ {target} : q.held \cap Manifest[j] \subseteq dir]_vars

(* What leaves the quarantine goes back while its row is there and for good once*)
(* the row is gone, never the other way round.                                  *)
SettledByRow ==
    [][q # NoQuarantine => \A f \in q.held :
           (q' = NoQuarantine \/ f \notin q'.held) =>
               (f \in dir' \ dir <=> row[q.owner] # "none")]_vars

(* When the process has started nothing is left of an interrupted deletion: its *)
(* files are back or gone.  Not so if something failed as well, or if the       *)
(* process died while it wrote the marker.                                      *)
BootSettles ==
    pc = "boot" ~> pc = "idle" /\ (q = NoQuarantine \/ q.marker = "torn" \/ faults > 0)

(* An attempt that has added its row ends, with the model running or cleaned up.*)
AttemptEnds == \A i \in Installs : stage[i] = "waiting" ~> stage[i] = "ended"
================================================================================
