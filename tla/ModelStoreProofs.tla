---------------------------- MODULE ModelStoreProofs ---------------------------
(* Proofs about ModelStore for any installs, files and bounds.                  *)
EXTENDS ModelStore, TLAPS

--------------------------------------------------------------------------------
(* Types.                                                                       *)

(* A deletion opens its quarantine before it moves anything there.              *)
OpenInv ==
    /\ pc = "staging" => q = NoQuarantine
    /\ pc \in {"opening", "writing", "moving"} => q # NoQuarantine
    /\ pc \in {"opening", "writing"} /\ q # NoQuarantine => q.held = {} /\ ~q.payload
    /\ pc = "moving" => q.marker = "whole"

(* The fields of a quarantine have their types.                                 *)
LEMMA QuarantineFields ==
    ASSUME TypeOK, q # NoQuarantine
    PROVE  /\ q = [owner |-> q.owner, marker |-> q.marker, held |-> q.held, payload |-> q.payload]
           /\ q.owner \in Installs /\ q.marker \in {"none", "torn", "whole"}
           /\ q.held \in SUBSET Files /\ q.payload \in BOOLEAN
           /\ q.marker # "whole" => q.held = {} /\ ~q.payload
BY DEF TypeOK, Quarantines

(* A record of four such fields is a quarantine, and not the absence of one.    *)
LEMMA QuarantineType ==
    ASSUME NEW o \in Installs, NEW m \in {"none", "torn", "whole"}, NEW h \in SUBSET Files,
           NEW p \in BOOLEAN, m # "whole" => h = {} /\ ~p
    PROVE  LET r == [owner |-> o, marker |-> m, held |-> h, payload |-> p]
           IN  r \in Quarantines /\ r # NoQuarantine
<1> DEFINE r == [owner |-> o, marker |-> m, held |-> h, payload |-> p]
<1>1. r \in Quarantines
  BY DEF Quarantines
<1>2. r.owner # "nobody"
  BY InstallsAssumption
<1>3. r # NoQuarantine
  BY <1>2 DEF NoQuarantine
<1> QED
  BY <1>1, <1>3

(* Every step keeps the types.                                                  *)
LEMMA TypeStep == TypeOK /\ OpenInv /\ [Next]_vars => TypeOK' /\ OpenInv'
<1> SUFFICES ASSUME TypeOK, OpenInv, [Next]_vars PROVE TypeOK' /\ OpenInv'
  OBVIOUS
<1> USE InstallsAssumption, BoundsAssumption
    DEF TypeOK, OpenInv, folder, attempts, counts, GiveUp, Settling, LoopFree, At
<1>p. /\ pc \in Steps /\ {"boot", "idle", "settling", "staging", "opening", "writing", "moving",
                           "deleting", "rollback", "finalizing"} = Steps
      /\ {"new", "staged", "waiting", "probing", "proved", "failed", "retained", "ended"} = Stages
  BY DEF Steps, Stages
<1>1. CASE SettleNothing
  BY <1>1, <1>p DEF SettleNothing
<1>2. CASE SettleEmpty
  BY <1>2, <1>p DEF SettleEmpty
<1>3. CASE SettleUnknown \/ RestoreConflicts
  BY <1>3, <1>p DEF SettleUnknown, RestoreConflicts
<1>4. CASE Restore
  <2>1. /\ q # NoQuarantine /\ q.marker = "whole" /\ q.owner \in Installs /\ q.held \in SUBSET Files
        /\ q = [owner |-> q.owner, marker |-> q.marker, held |-> q.held, payload |-> q.payload]
        /\ q.payload \in BOOLEAN /\ pc \in {"rollback", "boot", "settling"}
    BY <1>4, QuarantineFields DEF Restore, Restoring, Owned
  <2>2. dir' \in SUBSET Files
    BY <1>4, <2>1 DEF Restore
  <2>3. \E h \in SUBSET Files, b \in BOOLEAN :
            q' = [owner |-> q.owner, marker |-> "whole", held |-> h, payload |-> b]
    <3>1. CASE q.payload
      BY <1>4, <2>1, <3>1 DEF Restore
    <3>2. CASE ~q.payload
      <4>1. PICK f \in q.held \ dir : q' = [q EXCEPT !.held = @ \ {f}]
        BY <1>4, <3>2 DEF Restore
      <4> QED
        BY <2>1, <4>1
    <3> QED
      BY <3>1, <3>2
  <2>4. q' \in Quarantines /\ q' # NoQuarantine
    BY <2>1, <2>3, QuarantineType
  <2> QED
    BY <1>4, <2>1, <2>2, <2>4 DEF Restore
<1>5. CASE Stage
  <2>1. CASE NothingOwn
    BY <1>5, <2>1, <1>p DEF Stage
  <2>2. CASE ~NothingOwn
    <3> DEFINE r == [owner |-> target, marker |-> "none", held |-> {}, payload |-> FALSE]
    <3>1. r \in Quarantines /\ r # NoQuarantine
      BY QuarantineType, Zenon
    <3>2. q' = r /\ pc' = "opening"
      BY <1>5, <2>2 DEF Stage
    <3>3. q' \in Quarantines /\ q' # NoQuarantine /\ q'.held = {}
      BY <3>1, <3>2
    <3> QED
      BY <1>5, <3>2, <3>3, <1>p DEF Stage, NothingOwn
  <2> QED
    BY <2>1, <2>2
<1>6. CASE OpenMarker
  BY <1>6, <1>p, QuarantineFields, QuarantineType DEF OpenMarker
<1>7. CASE WriteMarker
  BY <1>7, <1>p, QuarantineFields, QuarantineType DEF WriteMarker
<1>8. CASE Move
  <2>1. /\ q # NoQuarantine /\ q.marker = "whole" /\ q.owner \in Installs /\ q.held \in SUBSET Files
        /\ q = [owner |-> q.owner, marker |-> q.marker, held |-> q.held, payload |-> q.payload]
        /\ q.payload \in BOOLEAN
    BY <1>8, QuarantineFields DEF Move, NothingOwn
  <2>2. dir' \in SUBSET Files
    BY <1>8 DEF Move, NothingOwn
  <2>3. \E h \in SUBSET Files, b \in BOOLEAN :
            q' = [owner |-> q.owner, marker |-> "whole", held |-> h, payload |-> b]
    <3>1. CASE Siblings = {}
      BY <1>8, <2>1, <3>1 DEF Move, NothingOwn
    <3>2. CASE Siblings # {}
      <4>1. PICK f \in Own : q' = [q EXCEPT !.held = @ \cup {f}]
        BY <1>8, <3>2 DEF Move, NothingOwn
      <4>2. f \in Files
        BY DEF Own
      <4> QED
        BY <2>1, <4>1, <4>2
    <3> QED
      BY <3>1, <3>2
  <2>4. q' \in Quarantines /\ q' # NoQuarantine /\ q'.marker = "whole"
    BY <2>1, <2>3, QuarantineType
  <2> QED
    BY <1>8, <2>2, <2>4 DEF Move, NothingOwn
<1>9. CASE Moved \/ RolledBack \/ Finalized
  BY <1>9, <1>p DEF Moved, NothingOwn, RolledBack, Finalized
<1>10. CASE Commit
  BY <1>10, <1>p DEF Commit
<1>11. CASE Remove
  BY <1>11, <1>p, QuarantineFields, QuarantineType DEF Remove, Finalizing, Removing, Owned
<1>12. CASE RemoveMarker
  <2>1. /\ q # NoQuarantine /\ q.owner \in Installs /\ q.held = {} /\ pc' = pc
        /\ pc \in {"boot", "settling", "rollback", "finalizing"}
        /\ q = [owner |-> q.owner, marker |-> q.marker, held |-> q.held, payload |-> q.payload]
    BY <1>12, QuarantineFields
    DEF RemoveMarker, Restored, Finalizing, Removing, Restoring, Owned
  <2>2. q' = [owner |-> q.owner, marker |-> "none", held |-> {}, payload |-> FALSE]
    BY <1>12, <2>1 DEF RemoveMarker
  <2>3. q' \in Quarantines /\ q' # NoQuarantine
    BY <2>1, <2>2, QuarantineType
  <2> QED
    BY <1>12, <2>1, <2>3 DEF RemoveMarker
<1>13. CASE RemoveDirectory
  BY <1>13, <1>p DEF RemoveDirectory
<1>14. CASE SettleFails \/ WriteFails \/ MoveFails \/ CommitFails \/ FinalizeFails
  BY <1>14, <1>p DEF SettleFails, Restoring, Removing, Owned, WriteFails, MoveFails,
              CommitFails, FinalizeFails, Fault
<1>15. CASE CommitUnknown
  BY <1>15, <1>p DEF CommitUnknown, Fault
<1>16. CASE Crash
  BY <1>16, <1>p DEF Crash, Die, Restarted
<1>17. ASSUME NEW i \in Installs, Register(i) \/ RegisterFails(i) \/ Download(i)
       PROVE  TypeOK' /\ OpenInv'
  BY <1>17, <1>p DEF Register, RegisterFails, Merge, MergePart, Download, Go, Fault
<1>18. ASSUME NEW i \in Installs,
              Probe(i) \/ Prove(i) \/ ProbeSucceeds(i) \/ ProbeFails(i) \/ Cancel(i)
       PROVE  TypeOK' /\ OpenInv'
  BY <1>18, <1>p DEF Probe, Prove, ProbeSucceeds, ProbeFails, Cancel, Go
<1>19. ASSUME NEW i \in Installs, Retain(i) \/ RetainFails(i) \/ Cleanup(i) \/ CleanupFails(i)
              \/ CleanupCancelled(i)
       PROVE  TypeOK' /\ OpenInv'
  <2>1. CASE Retain(i) \/ RetainFails(i) \/ CleanupFails(i) \/ CleanupCancelled(i)
    BY <2>1, <1>p DEF Retain, RetainFails, CleanupFails, CleanupCancelled, Go, Fault
  <2>2. CASE Cleanup(i)
    BY <2>2, <1>p DEF Cleanup, Discarded, Go
  <2> QED
    BY <1>19, <2>1, <2>2
<1>20. ASSUME NEW i \in Installs, Delete(i) PROVE TypeOK' /\ OpenInv'
  BY <1>20, <1>p DEF Delete
<1>21. ASSUME NEW i \in Installs, CrashMerging(i) \/ CrashRetaining(i) \/ CrashCleaning(i)
       PROVE TypeOK' /\ OpenInv'
  BY <1>21, <1>p DEF CrashMerging, MergePart, CrashRetaining, CrashCleaning, Die, Restarted
<1>22. CASE UNCHANGED vars
  BY <1>22 DEF vars
<1> QED
  BY <1>1, <1>2, <1>3, <1>4, <1>5, <1>6, <1>7, <1>8, <1>9, <1>10, <1>11, <1>12, <1>13, <1>14,
     <1>15, <1>16, <1>17, <1>18, <1>19, <1>20, <1>21, <1>22
  DEF Next, Deletion, Failure, Attempt

(* So it holds throughout.                                                      *)
LEMMA TypeHolds == Spec => [](TypeOK /\ OpenInv)
<1>1. Init => TypeOK /\ OpenInv
  BY InstallsAssumption, BoundsAssumption
  DEF Init, TypeOK, OpenInv, NoQuarantine, Stages, Steps
<1> QED
  BY <1>1, TypeStep, PTL DEF Spec

(* Every variable keeps its type, and files lie in a quarantine only under a    *)
(* marker that names their owner.                                               *)
THEOREM TypeCorrect == Spec => []TypeOK
BY TypeHolds, PTL

--------------------------------------------------------------------------------
(* Who holds the primary lease, and what a deletion and an attempt rely on.     *)

DeletionInv ==
    /\ pc = "boot" => primary = "free"
    /\ pc \notin {"boot", "idle"} => primary = "delete"
    /\ pc \notin {"boot", "idle", "finalizing"} => row[target] # "none"
    /\ pc = "finalizing" => row[target] = "none" /\ stage[target] \notin {"new", "staged"}
    /\ pc \notin {"boot", "idle", "settling", "staging"} /\ q # NoQuarantine => q.owner = target

AttemptInv ==
    \A i \in Installs :
        /\ stage[i] \in {"new", "staged"} => row[i] = "none"
        /\ stage[i] = "staged" => Manifest[i] \subseteq staging[i]
        /\ stage[i] \in {"waiting", "probing", "proved", "failed", "retained"} =>
               i \in Plans /\ row[i] # "active"
        /\ stage[i] \in {"probing", "proved"} => primary = i

LeaseInv == DeletionInv /\ AttemptInv

(* Every step keeps to the lease.                                               *)
LEMMA LeaseStep == TypeOK /\ OpenInv /\ LeaseInv /\ [Next]_vars => LeaseInv'
<1> SUFFICES ASSUME TypeOK, OpenInv, LeaseInv, [Next]_vars PROVE LeaseInv'
  OBVIOUS
<1> USE InstallsAssumption
    DEF TypeOK, LeaseInv, DeletionInv, AttemptInv, folder, attempts, counts, GiveUp,
        Settling, LoopFree, At
<1>1. CASE SettleNothing \/ SettleEmpty \/ SettleUnknown \/ RestoreConflicts
  BY <1>1 DEF SettleNothing, SettleEmpty, SettleUnknown, RestoreConflicts, Restoring
<1>2. CASE Restore
  <2>1. q'.owner = q.owner /\ q # NoQuarantine
    BY <1>2, QuarantineFields DEF Restore, Restoring, Owned
  <2> QED
    BY <1>2, <2>1 DEF Restore
<1>3. CASE Stage \/ Moved \/ RolledBack \/ Finalized
  BY <1>3 DEF Stage, NothingOwn, Moved, RolledBack, Finalized, OpenInv
<1>4. CASE OpenMarker \/ WriteMarker
  <2>1. q'.owner = q.owner /\ q # NoQuarantine
    BY <1>4, QuarantineFields DEF OpenMarker, WriteMarker, OpenInv
  <2> QED
    BY <1>4, <2>1 DEF OpenMarker, WriteMarker
<1>5. CASE Move
  <2>1. q'.owner = q.owner /\ q # NoQuarantine
    BY <1>5, QuarantineFields DEF Move, NothingOwn, OpenInv
  <2> QED
    BY <1>5, <2>1 DEF Move, NothingOwn
<1>6. CASE Commit
  BY <1>6 DEF Commit
<1>7. CASE Remove \/ RemoveMarker
  <2>1. q'.owner = q.owner /\ q # NoQuarantine
    BY <1>7, QuarantineFields DEF Remove, RemoveMarker, Finalizing, Restored, Restoring, Owned
  <2> QED
    BY <1>7, <2>1 DEF Remove, RemoveMarker
<1>8. CASE RemoveDirectory
  BY <1>8 DEF RemoveDirectory
<1>9. CASE SettleFails \/ WriteFails \/ MoveFails \/ CommitFails \/ FinalizeFails
  BY <1>9 DEF SettleFails, Restoring, Removing, WriteFails, MoveFails, CommitFails,
              FinalizeFails, Fault
<1>10. CASE CommitUnknown
  BY <1>10 DEF CommitUnknown, Fault
<1>11. CASE Crash
  BY <1>11 DEF Crash, Die, Restarted
<1>12. ASSUME NEW i \in Installs, Download(i) \/ Register(i) \/ RegisterFails(i) PROVE LeaseInv'
  BY <1>12 DEF Download, Register, RegisterFails, Merge, MergePart, Go, Fault
<1>13. ASSUME NEW i \in Installs, Probe(i) \/ Prove(i) \/ ProbeSucceeds(i) \/ ProbeFails(i)
       PROVE  LeaseInv'
  <2>1. CASE Probe(i) \/ Prove(i) \/ ProbeFails(i)
    BY <2>1 DEF Probe, Prove, ProbeFails, Go
  <2>2. CASE ProbeSucceeds(i)
    <3>1. /\ \A j \in Installs : row'[j] = "none" => row[j] = "none"
          /\ \A j \in Installs \ {i} : row[j] = "none" => row'[j] = "none"
      BY <2>2 DEF ProbeSucceeds, ActiveSiblings
    <3>2. \A j \in Installs : row'[j] = "active" => row[j] = "active" \/ j = i
      BY <2>2 DEF ProbeSucceeds
    <3> QED
      BY <2>2, <3>1, <3>2 DEF ProbeSucceeds, Go
  <2> QED
    BY <1>13, <2>1, <2>2
<1>14. ASSUME NEW i \in Installs, Cancel(i) \/ Retain(i) \/ RetainFails(i) PROVE LeaseInv'
  BY <1>14 DEF Cancel, Retain, RetainFails, Go, Fault
<1>15. ASSUME NEW i \in Installs, Cleanup(i) \/ CleanupFails(i) \/ CleanupCancelled(i)
       PROVE  LeaseInv'
  BY <1>15 DEF Cleanup, CleanupFails, CleanupCancelled, Go, Fault
<1>16. ASSUME NEW i \in Installs, Delete(i) PROVE LeaseInv'
  BY <1>16 DEF Delete
<1>17. ASSUME NEW i \in Installs, CrashMerging(i) \/ CrashRetaining(i) \/ CrashCleaning(i)
       PROVE  LeaseInv'
  BY <1>17 DEF CrashMerging, MergePart, CrashRetaining, CrashCleaning, Die, Restarted
<1>18. CASE UNCHANGED vars
  BY <1>18 DEF vars
<1> QED
  BY <1>1, <1>2, <1>3, <1>4, <1>5, <1>6, <1>7, <1>8, <1>9, <1>10, <1>11, <1>12, <1>13, <1>14,
     <1>15, <1>16, <1>17, <1>18
  DEF Next, Deletion, Failure, Attempt

(* So it holds throughout.                                                      *)
LEMMA LeaseHolds == Spec => []LeaseInv
<1>1. Init => LeaseInv
  BY InstallsAssumption DEF Init, LeaseInv, DeletionInv, AttemptInv
<1> QED
  BY <1>1, LeaseStep, TypeHolds, PTL DEF Spec

--------------------------------------------------------------------------------
(* What a deletion takes.                                                       *)

(* What is in the quarantine no other row misses; the whole directory goes only *)
(* at once.                                                                     *)
SpareInv ==
    /\ pc \in {"moving", "deleting"} /\ q # NoQuarantine =>
           \A j \in Siblings : q.held \cap Manifest[j] \subseteq dir
    /\ pc = "moving" /\ Siblings = {} => q.held = {} \/ path = "none"

(* Moving files aside keeps what the other rows have.                           *)
LEMMA SpareStep == TypeOK /\ OpenInv /\ LeaseInv /\ SpareInv /\ [Next]_vars => SpareInv'
<1> SUFFICES ASSUME TypeOK, OpenInv, LeaseInv, SpareInv, [Next]_vars PROVE SpareInv'
  OBVIOUS
<1> USE DEF SpareInv, folder, attempts, counts, GiveUp, Settling, LoopFree, At
<1>1. CASE pc' \notin {"moving", "deleting"}
  BY <1>1
<1>2. CASE Stage
  BY <1>2, <1>1 DEF Stage, NothingOwn, OpenInv
<1>3. CASE WriteMarker
  <2>1. q'.held = {} /\ pc' = "moving"
    BY <1>3, QuarantineFields DEF WriteMarker, OpenInv
  <2> QED
    BY <2>1
<1>4. CASE Move
  <2>1. /\ UNCHANGED <<Siblings, pc>> /\ q # NoQuarantine
        /\ q = [owner |-> q.owner, marker |-> q.marker, held |-> q.held, payload |-> q.payload]
    BY <1>4, QuarantineFields DEF Move, NothingOwn, Siblings, Rows, OpenInv
  <2>2. CASE Siblings = {}
    BY <1>4, <2>1, <2>2 DEF Move, NothingOwn
  <2>3. CASE Siblings # {}
    <3>1. PICK f \in Own : dir' = dir \ {f} /\ q' = [q EXCEPT !.held = @ \cup {f}]
      BY <1>4, <2>3 DEF Move, NothingOwn
    <3>2. q'.held = q.held \cup {f}
      BY <2>1, <3>1
    <3>3. \A j \in Siblings : f \notin Manifest[j]
      BY <2>3 DEF Own, FilesOf
    <3> QED
      BY <1>4, <2>1, <2>3, <3>1, <3>2, <3>3 DEF Move, NothingOwn
  <2> QED
    BY <2>2, <2>3
<1>5. CASE Moved
  <2>1. UNCHANGED <<Siblings, dir, path, q>> /\ pc = "moving" /\ pc' = "deleting"
    BY <1>5 DEF Moved, NothingOwn, Siblings, Rows
  <2> QED
    BY <2>1
<1>6. CASE UNCHANGED vars
  <2>1. UNCHANGED <<Siblings, dir, path, q, pc>>
    BY <1>6 DEF vars, Siblings, Rows
  <2> QED
    BY <2>1
<1>7. CASE \/ SettleNothing \/ SettleEmpty \/ SettleUnknown \/ Restore \/ RestoreConflicts
           \/ OpenMarker \/ Commit \/ RolledBack \/ Finalized
  BY <1>7, <1>1 DEF SettleNothing, SettleEmpty, SettleUnknown, Restore, RestoreConflicts,
                    Restoring, OpenMarker, Commit, RolledBack, Finalized
<1>8. CASE Remove \/ RemoveMarker \/ RemoveDirectory
  BY <1>8, <1>1 DEF Remove, RemoveMarker, RemoveDirectory, Finalizing, Removing, Restored,
                    Restoring
<1>9. CASE Failure
  BY <1>9, <1>1 DEF Failure, SettleFails, WriteFails, MoveFails, CommitFails, CommitUnknown,
                    FinalizeFails
<1>10. CASE Crash \/ \E i \in Installs : CrashMerging(i) \/ CrashRetaining(i) \/ CrashCleaning(i)
  BY <1>10, <1>1 DEF Crash, CrashMerging, CrashRetaining, CrashCleaning, Die
<1>11. ASSUME NEW i \in Installs,
              \/ Download(i) \/ Delete(i) \/ Cancel(i) \/ RegisterFails(i) \/ RetainFails(i)
              \/ CleanupFails(i) \/ CleanupCancelled(i)
       PROVE  SpareInv'
  BY <1>11, <1>1 DEF Download, Delete, Cancel, RegisterFails, RetainFails, CleanupFails,
                     CleanupCancelled
<1>12. ASSUME NEW i \in Installs, Attempt(i) PROVE SpareInv'
  BY <1>12, <1>1 DEF Attempt, Register, Probe, Prove, ProbeSucceeds, ProbeFails, Retain, Cleanup
<1> QED
  BY <1>2, <1>3, <1>4, <1>5, <1>6, <1>7, <1>8, <1>9, <1>10, <1>11, <1>12 DEF Next, Deletion

(* So it holds throughout.                                                      *)
LEMMA SpareHolds == Spec => []SpareInv
<1>1. Init => SpareInv
  BY DEF Init, SpareInv
<1> QED
  BY <1>1, SpareStep, LeaseHolds, TypeHolds, PTL DEF Spec

(* A deletion, when it commits, has set no file aside that another row misses.  *)
THEOREM SharedFilesSpared == Spec => SharedSpared
<1> DEFINE Spared == pc = "deleting" /\ row'[target] = "none" /\ q # NoQuarantine =>
                         \A j \in Rows \ {target} : q.held \cap Manifest[j] \subseteq dir
<1>1. SpareInv => [Spared]_vars
  BY DEF SpareInv, Siblings
<1> QED
  BY <1>1, SpareHolds, PTL DEF SharedSpared

Settled == q # NoQuarantine => \A f \in q.held :
               (q' = NoQuarantine \/ f \notin q'.held) =>
                   (f \in dir' \ dir <=> row[q.owner] # "none")

(* A file leaves a quarantine only through Restore and Remove.                  *)
LEMMA SettledStep == TypeOK /\ OpenInv /\ LeaseInv /\ SpareInv /\ [Next]_vars => [Settled]_vars
<1> SUFFICES ASSUME TypeOK, OpenInv, LeaseInv, SpareInv, [Next]_vars, q # NoQuarantine
             PROVE  Settled
  BY DEF Settled
<1> USE DEF folder, attempts, counts, GiveUp
<1>q. /\ q = [owner |-> q.owner, marker |-> q.marker, held |-> q.held, payload |-> q.payload]
      /\ q.marker # "whole" => q.held = {}
  BY QuarantineFields
<1>1. CASE q' # NoQuarantine /\ q.held \subseteq q'.held
  BY <1>1 DEF Settled
<1>2. CASE UNCHANGED q
  BY <1>1, <1>2
<1>3. CASE q.held = {}
  BY <1>3 DEF Settled
<1>4. CASE SettleEmpty \/ RemoveDirectory \/ RemoveMarker
  BY <1>4, <1>3 DEF SettleEmpty, RemoveDirectory, RemoveMarker
<1>5. CASE Restore
  <2>1. row[q.owner] # "none"
    BY <1>5 DEF Restore, Restoring, LeaseInv, DeletionInv
  <2>2. CASE q.payload
    BY <1>5, <2>1, <2>2, <1>q DEF Restore, Settled, TypeOK
  <2>3. CASE ~q.payload
    <3>1. PICK f \in q.held \ dir : dir' = dir \cup {f} /\ q' = [q EXCEPT !.held = @ \ {f}]
      BY <1>5, <2>3 DEF Restore
    <3>2. q'.held = q.held \ {f} /\ q'.owner = q.owner
      BY <1>q, <3>1
    <3>3. q' # NoQuarantine
      <4>1. q' = [owner |-> q.owner, marker |-> q.marker, held |-> q.held \ {f},
                  payload |-> q.payload]
        BY <1>q, <3>1
      <4> QED
        BY <4>1, QuarantineFields, QuarantineType DEF Restore
    <3> QED
      BY <2>1, <3>1, <3>2, <3>3 DEF Settled
  <2> QED
    BY <2>2, <2>3
<1>6. CASE Remove
  <2>1. row[q.owner] = "none" /\ UNCHANGED dir
    BY <1>6 DEF Remove, Finalizing, Removing, LeaseInv, DeletionInv
  <2> QED
    BY <2>1 DEF Settled
<1>7. CASE Stage
  BY <1>7 DEF Stage, NothingOwn, OpenInv
<1>8. CASE OpenMarker \/ WriteMarker
  BY <1>8, <1>3 DEF OpenMarker, WriteMarker, OpenInv
<1>9. CASE Move
  <2>1. CASE Siblings = {}
    <3>1. q.held = {}
      BY <1>9, <2>1 DEF Move, NothingOwn, SpareInv, Own
    <3> QED
      BY <3>1, <1>3
  <2>2. CASE Siblings # {}
    <3>1. PICK f \in Own : q' = [q EXCEPT !.held = @ \cup {f}]
      BY <1>9, <2>2 DEF Move, NothingOwn
    <3>2. q'.held = q.held \cup {f} /\ q' # NoQuarantine
      BY <1>q, <3>1, <1>9, TypeStep DEF OpenInv, Move
    <3> QED
      BY <3>2, <1>1
  <2> QED
    BY <2>1, <2>2
<1>10. CASE \/ SettleNothing \/ SettleUnknown \/ RestoreConflicts \/ Moved \/ Commit
            \/ RolledBack \/ Finalized
  BY <1>10, <1>2 DEF SettleNothing, SettleUnknown, RestoreConflicts, Moved, Commit,
                     RolledBack, Finalized
<1>11. CASE Failure
  BY <1>11, <1>2 DEF Failure, SettleFails, WriteFails, MoveFails, CommitFails, CommitUnknown,
                     FinalizeFails
<1>12. CASE Crash \/ \E i \in Installs : CrashMerging(i) \/ CrashRetaining(i) \/ CrashCleaning(i)
  BY <1>12, <1>2 DEF Crash, CrashMerging, CrashRetaining, CrashCleaning, Die
<1>13. ASSUME NEW i \in Installs,
              \/ Download(i) \/ Delete(i) \/ Cancel(i) \/ RegisterFails(i) \/ RetainFails(i)
              \/ CleanupFails(i) \/ CleanupCancelled(i)
       PROVE  Settled
  BY <1>13, <1>2 DEF Download, Delete, Cancel, RegisterFails, RetainFails, CleanupFails,
                     CleanupCancelled
<1>14. ASSUME NEW i \in Installs, Attempt(i) PROVE Settled
  BY <1>14, <1>2 DEF Attempt, Register, Probe, Prove, ProbeSucceeds, ProbeFails, Retain, Cleanup
<1>15. CASE UNCHANGED vars
  BY <1>15, <1>2 DEF vars
<1> QED
  BY <1>4, <1>5, <1>6, <1>7, <1>8, <1>9, <1>10, <1>11, <1>12, <1>13, <1>14, <1>15
  DEF Next, Deletion

(* Files leave a quarantine for their directory while the row is there and for  *)
(* good once it is gone, in whatever place a crash or a fault cut the deletion. *)
THEOREM FilesFollowRow == Spec => SettledByRow
<1>1. SettledByRow <=> [][Settled]_vars
  BY PTL DEF SettledByRow, Settled
<1> QED
  BY <1>1, SettledStep, SpareHolds, LeaseHolds, TypeHolds, PTL DEF Spec

--------------------------------------------------------------------------------
(* Active models keep their files.                                              *)

(* An active model has its files, and one that a probe has proved.              *)
KeptInv ==
    /\ ActiveKept
    /\ \A i \in Installs : stage[i] = "proved" => Manifest[i] \subseteq dir

(* No file of an install plan is also a file of another install.                *)
PlansApart == \A i \in Plans : \A j \in Installs \ {i} : Manifest[i] \cap Manifest[j] = {}

(* No step takes a file of an active model, or of one that was just proved.     *)
LEMMA KeptStep ==
    PlansApart /\ TypeOK /\ OpenInv /\ LeaseInv /\ SpareInv /\ KeptInv /\ [Next]_vars => KeptInv'
<1> SUFFICES ASSUME PlansApart, TypeOK, OpenInv, LeaseInv, SpareInv, KeptInv, [Next]_vars
             PROVE  KeptInv'
  OBVIOUS
<1> USE InstallsAssumption
    DEF folder, attempts, counts, GiveUp, Settling, LoopFree, At, KeptInv, ActiveKept, Recoverable
<1>t. TypeOK' /\ OpenInv' /\ LeaseInv'
  BY TypeStep, LeaseStep
<1>l. \A i \in Installs : pc \notin {"idle", "finalizing"} => stage[i] \notin {"probing", "proved"}
  BY DEF LeaseInv, DeletionInv, AttemptInv
<1>w. q # NoQuarantine /\ q.marker # "whole" => q.held = {}
  BY QuarantineFields
<1>q. q # NoQuarantine =>
          q = [owner |-> q.owner, marker |-> q.marker, held |-> q.held, payload |-> q.payload]
  BY QuarantineFields
<1>s. ASSUME UNCHANGED <<row, dir, stage, q>> PROVE KeptInv'
  BY <1>s
<1>1. CASE SettleNothing \/ SettleUnknown \/ RestoreConflicts \/ Moved \/ RolledBack \/ Finalized
  BY <1>1, <1>s DEF SettleNothing, SettleUnknown, RestoreConflicts, Moved, RolledBack, Finalized
<1>2. CASE SettleFails \/ WriteFails \/ MoveFails \/ CommitFails \/ FinalizeFails
  BY <1>2, <1>s DEF SettleFails, WriteFails, MoveFails, CommitFails, FinalizeFails
<1>3. CASE SettleEmpty \/ RemoveDirectory
  BY <1>3 DEF SettleEmpty, RemoveDirectory
<1>4. CASE Restore
  <2>1. q # NoQuarantine
    BY <1>4 DEF Restore, Restoring, Owned
  <2>2. \A i \in Installs : stage[i] # "proved"
    BY <1>4, <1>l DEF Restore, Restoring
  <2>3. CASE q.payload
    BY <1>4, <2>1, <2>2, <2>3, <1>q DEF Restore, TypeOK
  <2>4. CASE ~q.payload
    <3>1. PICK f \in q.held \ dir : dir' = dir \cup {f} /\ q' = [q EXCEPT !.held = @ \ {f}]
      BY <1>4, <2>4 DEF Restore
    <3>2. q'.held = q.held \ {f} /\ q'.owner = q.owner
      BY <1>q, <2>1, <3>1
    <3>3. q' # NoQuarantine
      <4>1. q' = [owner |-> q.owner, marker |-> q.marker, held |-> q.held \ {f},
                  payload |-> q.payload]
        BY <1>q, <2>1, <3>1
      <4> QED
        BY <4>1, <2>1, QuarantineFields, QuarantineType, <1>4 DEF Restore, Restoring, Owned
    <3> QED
      BY <1>4, <2>1, <2>2, <3>1, <3>2, <3>3 DEF Restore
  <2> QED
    BY <2>3, <2>4
<1>5. CASE Stage
  BY <1>5, <1>s DEF Stage, NothingOwn, OpenInv
<1>6. CASE OpenMarker \/ WriteMarker
  <2>1. q # NoQuarantine /\ q'.held = {} /\ q.held = {}
    BY <1>6, <1>q DEF OpenMarker, WriteMarker, OpenInv
  <2> QED
    BY <1>6, <2>1 DEF OpenMarker, WriteMarker
<1>7. CASE Move
  <2>1. /\ q # NoQuarantine /\ q.owner = target /\ q' # NoQuarantine /\ q'.owner = target
        /\ UNCHANGED <<row, stage>> /\ ~NothingOwn
    BY <1>7, <1>q, <1>t DEF Move, OpenInv, LeaseInv, DeletionInv
  <2>2. \A i \in Installs : stage[i] # "proved"
    BY <1>7, <1>l DEF Move, NothingOwn
  <2>3. CASE Siblings = {}
    <3>1. q.held = {} /\ q'.held = dir
      BY <1>7, <1>q, <2>1, <2>3 DEF Move, NothingOwn, SpareInv, Own
    <3>2. \A i \in Installs \ {target} : row[i] # "active"
      BY <2>3 DEF Siblings, Rows
    <3> QED
      BY <2>1, <2>2, <3>1, <3>2
  <2>4. CASE Siblings # {}
    <3>1. PICK f \in Own : dir' = dir \ {f} /\ q' = [q EXCEPT !.held = @ \cup {f}]
      BY <1>7, <2>4 DEF Move, NothingOwn
    <3>2. q'.held = q.held \cup {f}
      BY <1>q, <2>1, <3>1
    <3>3. \A i \in Installs \ {target} : row[i] = "active" => f \notin Manifest[i]
      BY <2>4 DEF Own, FilesOf, Siblings, Rows
    <3> QED
      BY <2>1, <2>2, <3>1, <3>2, <3>3
  <2> QED
    BY <2>3, <2>4
<1>8. CASE Commit \/ CommitUnknown
  BY <1>8 DEF Commit, CommitUnknown, TypeOK
<1>9. CASE Remove
  <2>1. q # NoQuarantine /\ row[q.owner] = "none"
    BY <1>9 DEF Remove, Finalizing, Removing, LeaseInv, DeletionInv
  <2>2. q'.owner = q.owner /\ q' # NoQuarantine
    BY <1>9, <1>q, <2>1 DEF Remove, NoQuarantine
  <2> QED
    BY <1>9, <2>1, <2>2 DEF Remove
<1>10. CASE RemoveMarker
  <2>1. q # NoQuarantine /\ q.held = {}
    BY <1>10 DEF RemoveMarker, Restored, Finalizing, Restoring, Owned
  <2> QED
    BY <1>10, <2>1 DEF RemoveMarker
<1>11. CASE Crash
  BY <1>11 DEF Crash, Die, Restarted, TypeOK
<1>12. ASSUME NEW i \in Installs,
              \/ Download(i) \/ Delete(i) \/ Cancel(i) \/ CleanupFails(i)
              \/ CleanupCancelled(i)
       PROVE  KeptInv'
  BY <1>12 DEF Download, Delete, Cancel, CleanupFails, CleanupCancelled, Go, TypeOK
<1>13. ASSUME NEW i \in Installs, Register(i) \/ RegisterFails(i) PROVE KeptInv'
  BY <1>13 DEF Register, RegisterFails, Merge, MergePart, Go, TypeOK, LeaseInv, AttemptInv
<1>14. ASSUME NEW i \in Installs, Probe(i) \/ Prove(i) \/ ProbeFails(i) PROVE KeptInv'
  BY <1>14 DEF Probe, Prove, ProbeFails, Go, TypeOK
<1>15. ASSUME NEW i \in Installs, ProbeSucceeds(i) PROVE KeptInv'
  BY <1>15 DEF ProbeSucceeds, Go, TypeOK
<1>16. ASSUME NEW i \in Installs, Retain(i) \/ RetainFails(i) \/ CrashRetaining(i)
       PROVE  KeptInv'
  <2>1. i \in Plans /\ row[i] # "active" /\ UNCHANGED <<row, q>>
    BY <1>16 DEF Retain, RetainFails, CrashRetaining, Die, LeaseInv, AttemptInv
  <2>2. \A j \in Installs \ {i} : Manifest[j] \cap (dir \ dir') = {}
    BY <1>16, <2>1 DEF PlansApart, Retain, RetainFails, CrashRetaining
  <2>3. \A j \in Installs : stage'[j] = "proved" => stage[j] = "proved" /\ j # i
    BY <1>16 DEF Retain, RetainFails, CrashRetaining, Go, Restarted, TypeOK
  <2> QED
    BY <2>1, <2>2, <2>3
<1>17. ASSUME NEW i \in Installs, Cleanup(i) \/ CrashCleaning(i) PROVE KeptInv'
  <2>1. /\ row[i] # "active" /\ primary = "free" /\ UNCHANGED q
        /\ \A j \in Installs : row'[j] = "active" => row[j] = "active" /\ j # i
    BY <1>17 DEF Cleanup, CrashCleaning, Die, LeaseInv, AttemptInv, TypeOK
  <2>2. \A j \in Installs : stage'[j] # "proved"
    BY <1>17, <2>1 DEF Cleanup, CrashCleaning, Go, Restarted, TypeOK, LeaseInv, AttemptInv
  <2>3. \A j \in Installs : row'[j] = "active" => Manifest[j] \cap (dir \ dir') = {}
    BY <1>17, <2>1 DEF Cleanup, CrashCleaning, Discarded, ActiveSiblings, FilesOf
  <2> QED
    BY <2>1, <2>2, <2>3
<1>18. ASSUME NEW i \in Installs, CrashMerging(i) PROVE KeptInv'
  BY <1>18 DEF CrashMerging, MergePart, Die, Restarted, TypeOK
<1>19. CASE UNCHANGED vars
  BY <1>19, <1>s DEF vars
<1> QED
  BY <1>1, <1>2, <1>3, <1>4, <1>5, <1>6, <1>7, <1>8, <1>9, <1>10, <1>11, <1>12, <1>13, <1>14,
     <1>15, <1>16, <1>17, <1>18, <1>19
  DEF Next, Deletion, Failure, Attempt

(* As long as no plan shares a file with another install, an active model has   *)
(* its files, or a quarantine that will give them back does, whatever is        *)
(* installed, cancelled, deleted or cut short around it.                        *)
THEOREM ActiveFilesKept == ASSUME PlansApart PROVE Spec => []ActiveKept
<1>1. Init => KeptInv
  BY DEF Init, KeptInv, ActiveKept
<1>2. TypeOK /\ OpenInv /\ LeaseInv /\ SpareInv /\ KeptInv /\ [Next]_vars => KeptInv'
  BY KeptStep, PlansApart
<1>3. KeptInv => ActiveKept
  BY DEF KeptInv
<1> QED
  BY <1>1, <1>2, <1>3, SpareHolds, LeaseHolds, TypeHolds, PTL DEF Spec

--------------------------------------------------------------------------------
(* What a crash alone leaves behind.                                            *)

(* Without a fault the loop is idle only when the last quarantine has gone or   *)
(* its marker was cut short, and while a row is there the place of each file it *)
(* may get back is free: between a move and its recovery nobody else writes.    *)
BackInv ==
    faults = 0 =>
        /\ pc # "rollback"
        /\ pc = "idle" => q = NoQuarantine \/ q.marker = "torn"
        /\ q # NoQuarantine /\ row[q.owner] # "none" => ~Conflict
        /\ pc \in {"opening", "writing", "moving"} /\ q # NoQuarantine /\ q.payload => path = "none"

(* Installs and cleanups happen while the loop is free, that is, with nothing   *)
(* set aside that is to go back.                                                *)
LEMMA BackStep == TypeOK /\ OpenInv /\ LeaseInv /\ BackInv /\ [Next]_vars => BackInv'
<1> SUFFICES ASSUME TypeOK, OpenInv, LeaseInv, BackInv, [Next]_vars, faults' = 0
             PROVE  BackInv'
  BY DEF BackInv
<1> USE InstallsAssumption
    DEF BackInv, Conflict, folder, attempts, counts, GiveUp, Settling, LoopFree, At
<1>t. TypeOK' /\ OpenInv'
  BY TypeStep
<1>f. ~Fault /\ faults = 0
  BY <1>t DEF Fault, TypeOK, Next, Deletion, Failure, Attempt, SettleNothing, SettleEmpty,
              SettleUnknown, Restore, RestoreConflicts, Stage, OpenMarker, WriteMarker, Move,
              Moved, Commit, RolledBack, Remove, RemoveMarker, RemoveDirectory, Finalized,
              SettleFails, WriteFails, MoveFails, CommitFails, CommitUnknown, FinalizeFails,
              Crash, Die, Register, Probe, Prove, ProbeSucceeds, ProbeFails, Retain, Cleanup,
              Download, Delete, Cancel, RegisterFails, RetainFails, CleanupFails,
              CleanupCancelled, CrashMerging, CrashRetaining, CrashCleaning, vars
<1>q. q # NoQuarantine =>
          /\ q = [owner |-> q.owner, marker |-> q.marker, held |-> q.held, payload |-> q.payload]
          /\ q.marker # "whole" => q.held = {} /\ ~q.payload
          /\ q.owner \in Installs
  BY QuarantineFields
<1>i. LoopFree /\ q # NoQuarantine => row[q.owner] = "none" \/ (q.held = {} /\ ~q.payload)
  BY <1>f, <1>q DEF LeaseInv, DeletionInv
<1>1. CASE SettleNothing \/ SettleEmpty
  BY <1>1, <1>f DEF SettleNothing, SettleEmpty
<1>2. CASE SettleUnknown
  BY <1>2, <1>f, <1>q DEF SettleUnknown, TypeOK, Quarantines
<1>3. CASE Restore
  <2>1. q # NoQuarantine /\ row[q.owner] # "none" /\ ~Conflict /\ UNCHANGED <<row, pc>>
    BY <1>3, <1>f DEF Restore, Restoring, Owned
  <2>2. CASE q.payload
    BY <1>3, <1>f, <1>q, <2>1, <2>2 DEF Restore, Restoring
  <2>3. CASE ~q.payload
    <3>1. PICK f \in q.held \ dir : dir' = dir \cup {f} /\ q' = [q EXCEPT !.held = @ \ {f}]
      BY <1>3, <2>3 DEF Restore
    <3>2. q'.held = q.held \ {f} /\ q'.owner = q.owner /\ q'.payload = q.payload
      BY <1>q, <2>1, <3>1
    <3> QED
      BY <1>3, <1>f, <2>1, <2>3, <3>1, <3>2 DEF Restore, Restoring
  <2> QED
    BY <2>2, <2>3
<1>4. CASE RestoreConflicts
  BY <1>4, <1>f DEF RestoreConflicts, Restoring, Owned, LeaseInv, DeletionInv
<1>5. CASE Stage
  BY <1>5, <1>f DEF Stage, NothingOwn, OpenInv
<1>6. CASE OpenMarker \/ WriteMarker
  <2>1. /\ q # NoQuarantine /\ q'.held = {} /\ q'.owner = q.owner /\ q'.payload = q.payload
        /\ UNCHANGED <<row, folder>>
    BY <1>6, <1>q DEF OpenMarker, WriteMarker, OpenInv
  <2> QED
    BY <1>6, <1>f, <2>1 DEF OpenMarker, WriteMarker
<1>7. CASE Move
  <2>1. /\ q # NoQuarantine /\ ~NothingOwn /\ Own \subseteq dir
        /\ UNCHANGED <<row, pc>> /\ pc = "moving"
    BY <1>7 DEF Move, OpenInv, Own
  <2>2. ~q.payload /\ row[q.owner] # "none"
    BY <1>f, <2>1, <1>t DEF LeaseInv, DeletionInv, NothingOwn, TypeOK, Own
  <2>3. CASE Siblings = {}
    BY <1>7, <1>q, <1>f, <2>1, <2>3 DEF Move, NothingOwn
  <2>4. CASE Siblings # {}
    <3>1. PICK f \in Own : dir' = dir \ {f} /\ q' = [q EXCEPT !.held = @ \cup {f}]
      BY <1>7, <2>4 DEF Move, NothingOwn
    <3>2. q'.held = q.held \cup {f} /\ q'.owner = q.owner /\ q'.payload = q.payload
      BY <1>q, <2>1, <3>1
    <3> QED
      BY <1>f, <2>1, <2>2, <3>1, <3>2
  <2> QED
    BY <2>3, <2>4
<1>8. CASE Moved \/ RolledBack \/ Finalized
  BY <1>8, <1>f DEF Moved, NothingOwn, RolledBack, Finalized
<1>9. CASE Commit
  BY <1>9, <1>f, <1>q DEF Commit, LeaseInv, DeletionInv, TypeOK
<1>10. CASE Remove
  <2>1. q # NoQuarantine /\ row[q.owner] = "none"
    BY <1>10 DEF Remove, Finalizing, Removing, LeaseInv, DeletionInv
  <2>2. q'.owner = q.owner
    BY <1>10, <1>q, <2>1 DEF Remove
  <2> QED
    BY <1>10, <1>f, <2>1, <2>2 DEF Remove, Finalizing, Removing
<1>11. CASE RemoveMarker
  <2>1. q # NoQuarantine /\ q.held = {}
    BY <1>11 DEF RemoveMarker, Restored, Finalizing, Restoring, Owned
  <2>2. q'.held = {} /\ ~q'.payload
    BY <1>11, <1>q, <2>1 DEF RemoveMarker
  <2> QED
    BY <1>11, <1>f, <2>1, <2>2 DEF RemoveMarker, Restored, Finalizing, Removing, Restoring
<1>12. CASE RemoveDirectory
  BY <1>12, <1>f DEF RemoveDirectory
<1>13. CASE Failure
  BY <1>13, <1>f DEF Failure, SettleFails, WriteFails, MoveFails, CommitFails, CommitUnknown,
                     FinalizeFails
<1>14. CASE Crash
  BY <1>14, <1>f DEF Crash, Die
<1>15. ASSUME NEW i \in Installs, Download(i) \/ Delete(i) \/ Cancel(i) PROVE BackInv'
  BY <1>15, <1>f DEF Download, Delete, Cancel
<1>16. ASSUME NEW i \in Installs, Register(i) PROVE BackInv'
  <2>1. q # NoQuarantine => row'[q.owner] = "none" \/ (q.held = {} /\ ~q.payload)
    BY <1>16, <1>f, <1>i, <1>q DEF Register, Merge, LeaseInv, DeletionInv, TypeOK
  <2> QED
    BY <1>16, <1>f, <2>1 DEF Register, Merge
<1>17. ASSUME NEW i \in Installs, Probe(i) \/ Prove(i) \/ ProbeFails(i) PROVE BackInv'
  BY <1>17, <1>f DEF Probe, Prove, ProbeFails
<1>18. ASSUME NEW i \in Installs, ProbeSucceeds(i) PROVE BackInv'
  <2>1. q # NoQuarantine => row'[q.owner] = "none" \/ (q.held = {} /\ ~q.payload)
    BY <1>18, <1>f, <1>i, <1>q DEF ProbeSucceeds, LeaseInv, DeletionInv, AttemptInv
  <2> QED
    BY <1>18, <1>f, <2>1 DEF ProbeSucceeds
<1>19. ASSUME NEW i \in Installs, Retain(i) PROVE BackInv'
  BY <1>19, <1>f DEF Retain
<1>20. ASSUME NEW i \in Installs, Cleanup(i) PROVE BackInv'
  BY <1>20, <1>f, <1>q, <1>i DEF Cleanup, TypeOK
<1>21. ASSUME NEW i \in Installs,
              \/ RegisterFails(i) \/ RetainFails(i) \/ CleanupFails(i) \/ CleanupCancelled(i)
       PROVE  BackInv'
  BY <1>21, <1>f DEF RegisterFails, RetainFails, CleanupFails, CleanupCancelled
<1>22. ASSUME NEW i \in Installs, CrashMerging(i) \/ CrashRetaining(i) \/ CrashCleaning(i)
       PROVE  BackInv'
  <2>1. /\ q # NoQuarantine => row'[q.owner] = "none" \/ (q.held = {} /\ ~q.payload)
        /\ pc' = "boot" /\ q' = q
    BY <1>22, <1>i DEF CrashMerging, MergePart, CrashRetaining, CrashCleaning, Die
  <2> QED
    BY <1>f, <2>1
<1>23. CASE UNCHANGED vars
  BY <1>23, <1>f DEF vars
<1> QED
  BY <1>1, <1>2, <1>3, <1>4, <1>5, <1>6, <1>7, <1>8, <1>9, <1>10, <1>11, <1>12, <1>13, <1>14,
     <1>15, <1>16, <1>17, <1>18, <1>19, <1>20, <1>21, <1>22, <1>23
  DEF Next, Deletion, Attempt

(* So it holds throughout.                                                      *)
LEMMA BackHolds == Spec => []BackInv
<1>1. Init => BackInv
  BY DEF Init, BackInv
<1> QED
  BY <1>1, BackStep, LeaseHolds, TypeHolds, PTL DEF Spec

(* An idle process has no quarantine, except one whose marker was cut short or  *)
(* that a failed operation left.                                                *)
IdleSettled == pc = "idle" => q = NoQuarantine \/ q.marker = "torn" \/ faults > 0

(* Wherever a crash cuts a deletion, the process does not go on with its files  *)
(* set aside: what BootSettles comes to is the only way for a start to end.     *)
THEOREM StartsSettled == Spec => []IdleSettled
<1>1. TypeOK /\ BackInv => IdleSettled
  BY DEF TypeOK, BackInv, IdleSettled
<1> QED
  BY <1>1, BackHolds, TypeHolds, PTL

(* "recovery needs manual conflict resolution" comes after a failed operation.  *)
ConflictsOnlySo == Restoring /\ Conflict => faults > 0

(* A crash alone never leaves files that recovery cannot put back, whatever is  *)
(* installed or cleaned up around a deletion.                                   *)
THEOREM CrashesNeverConflict == Spec => []ConflictsOnlySo
<1>1. TypeOK /\ LeaseInv /\ BackInv => ConflictsOnlySo
  BY DEF TypeOK, LeaseInv, DeletionInv, BackInv, ConflictsOnlySo, Restoring, Owned
<1> QED
  BY <1>1, BackHolds, LeaseHolds, TypeHolds, PTL

--------------------------------------------------------------------------------
(* The primary lease, and deletions that go on.                                 *)

(* The lease is free, with a deletion under way, or with a probe under way.     *)
LeaseOwned ==
    /\ primary = "delete" => pc \notin {"boot", "idle"}
    /\ primary \in Installs => stage[primary] \in {"probing", "proved"}

(* No error path, cancellation or crash leaves the lease behind.                *)
THEOREM LeaseNeverLeft == Spec => []LeaseOwned
<1>1. Init => LeaseOwned
  BY InstallsAssumption DEF Init, LeaseOwned
<1>2. TypeOK /\ OpenInv /\ LeaseInv /\ LeaseOwned /\ [Next]_vars => LeaseOwned'
  <2> SUFFICES ASSUME TypeOK, LeaseInv, LeaseOwned, [Next]_vars PROVE LeaseOwned'
    OBVIOUS
  <2> USE InstallsAssumption
      DEF TypeOK, LeaseOwned, folder, attempts, counts, GiveUp, Settling, LoopFree, At, Go
  <2>1. CASE SettleNothing \/ SettleEmpty \/ SettleUnknown \/ Restore \/ RestoreConflicts
    BY <2>1 DEF SettleNothing, SettleEmpty, SettleUnknown, Restore, RestoreConflicts
  <2>2. CASE Stage \/ OpenMarker \/ WriteMarker \/ Move \/ Moved \/ Commit
    BY <2>2 DEF Stage, NothingOwn, OpenMarker, WriteMarker, Move, Moved, Commit
  <2>3. CASE RolledBack \/ Remove \/ RemoveMarker \/ RemoveDirectory \/ Finalized
    BY <2>3 DEF RolledBack, Remove, RemoveMarker, RemoveDirectory, Finalized
  <2>4. CASE Failure
    BY <2>4 DEF Failure, SettleFails, WriteFails, MoveFails, CommitFails, CommitUnknown,
                FinalizeFails
  <2>5. CASE Crash \/ \E i \in Installs : CrashMerging(i) \/ CrashRetaining(i) \/ CrashCleaning(i)
    BY <2>5 DEF Crash, CrashMerging, CrashRetaining, CrashCleaning, Die
  <2>6. ASSUME NEW i \in Installs, Attempt(i) PROVE LeaseOwned'
    BY <2>6 DEF LeaseInv, AttemptInv, Attempt, Register, Probe, Prove, ProbeSucceeds,
                ProbeFails, Retain, Cleanup
  <2>7. ASSUME NEW i \in Installs,
               \/ Download(i) \/ Delete(i) \/ Cancel(i) \/ RegisterFails(i) \/ RetainFails(i)
               \/ CleanupFails(i) \/ CleanupCancelled(i)
        PROVE  LeaseOwned'
    BY <2>7 DEF Download, Delete, Cancel, RegisterFails, RetainFails, CleanupFails,
                CleanupCancelled
  <2>8. CASE UNCHANGED vars
    BY <2>8 DEF vars
  <2> QED
    BY <2>1, <2>2, <2>3, <2>4, <2>5, <2>6, <2>7, <2>8 DEF Next, Deletion
<1> QED
  BY <1>1, <1>2, LeaseHolds, TypeHolds, PTL DEF Spec

(* A deletion that has moved or committed has written its marker, and is never  *)
(* left with one that was cut short.                                            *)
MarkerInv ==
    q # NoQuarantine =>
        /\ pc \in {"moving", "deleting"} => q.marker = "whole"
        /\ pc \in {"rollback", "finalizing"} => q.marker # "torn"

(* The marker is written before the first move and removed after the last       *)
(* file.                                                                        *)
LEMMA MarkerStep == TypeOK /\ OpenInv /\ MarkerInv /\ [Next]_vars => MarkerInv'
<1> SUFFICES ASSUME TypeOK, OpenInv, MarkerInv, [Next]_vars PROVE MarkerInv'
  OBVIOUS
<1> USE DEF MarkerInv, folder, attempts, counts, GiveUp, Settling, LoopFree, At
<1>q. q # NoQuarantine =>
          q = [owner |-> q.owner, marker |-> q.marker, held |-> q.held, payload |-> q.payload]
  BY QuarantineFields
<1>1. CASE SettleNothing \/ SettleEmpty \/ SettleUnknown \/ RestoreConflicts
  BY <1>1 DEF SettleNothing, SettleEmpty, SettleUnknown, RestoreConflicts, Restoring
<1>2. CASE Restore
  <2>1. q # NoQuarantine /\ pc' = pc /\ q'.marker = q.marker
    BY <1>2, <1>q DEF Restore, Restoring, Owned
  <2> QED
    BY <2>1
<1>3. CASE Stage \/ OpenMarker \/ Moved \/ Commit \/ RolledBack \/ Finalized
  BY <1>3 DEF Stage, NothingOwn, OpenMarker, Moved, Commit, RolledBack, Finalized, OpenInv
<1>4. CASE WriteMarker
  BY <1>4, <1>q DEF WriteMarker, OpenInv
<1>5. CASE Move
  <2>1. q # NoQuarantine /\ pc' = pc /\ q'.marker = q.marker
    BY <1>5, <1>q DEF Move, NothingOwn, OpenInv
  <2> QED
    BY <2>1
<1>6. CASE Remove
  <2>1. q # NoQuarantine /\ pc' = pc /\ q'.marker = q.marker
    BY <1>6, <1>q DEF Remove, Finalizing
  <2> QED
    BY <2>1
<1>7. CASE RemoveMarker \/ RemoveDirectory
  BY <1>7, <1>q DEF RemoveMarker, Restored, RemoveDirectory, Finalizing, Removing, Restoring, Owned
<1>8. CASE Failure
  BY <1>8 DEF Failure, SettleFails, WriteFails, MoveFails, CommitFails, CommitUnknown, FinalizeFails
<1>9. CASE Crash \/ \E i \in Installs : CrashMerging(i) \/ CrashRetaining(i) \/ CrashCleaning(i)
  BY <1>9 DEF Crash, CrashMerging, CrashRetaining, CrashCleaning, Die
<1>10. ASSUME NEW i \in Installs, Attempt(i) PROVE MarkerInv'
  BY <1>10 DEF Attempt, Register, Probe, Prove, ProbeSucceeds, ProbeFails, Retain, Cleanup
<1>11. ASSUME NEW i \in Installs,
              \/ Download(i) \/ Delete(i) \/ Cancel(i) \/ RegisterFails(i) \/ RetainFails(i)
              \/ CleanupFails(i) \/ CleanupCancelled(i)
       PROVE  MarkerInv'
  BY <1>11 DEF Download, Delete, Cancel, RegisterFails, RetainFails, CleanupFails,
               CleanupCancelled
<1>12. CASE UNCHANGED vars
  BY <1>12 DEF vars
<1> QED
  BY <1>1, <1>2, <1>3, <1>4, <1>5, <1>6, <1>7, <1>8, <1>9, <1>10, <1>11, <1>12 DEF Next, Deletion

(* The guard of the next file operation, of the commit, or of the verdict that  *)
(* a quarantine cannot be settled.                                              *)
CanGoOn ==
    \/ pc \in {"staging", "deleting"}
    \/ pc \in {"opening", "writing"} /\ q # NoQuarantine
    \/ pc = "moving" /\ (NothingOwn \/ q # NoQuarantine)
    \/ pc \in {"boot", "settling", "rollback", "finalizing"} /\ q = NoQuarantine
    \/ Settling /\ q.marker # "whole"
    \/ Restoring /\ (Conflict \/ IF q.payload THEN path = "none" ELSE q.held \ dir # {})
    \/ (Finalizing \/ Restored) /\ q.marker = "whole"
    \/ pc \in {"rollback", "finalizing"} /\ q.held = {} /\ q.marker = "none"

(* A start or a deletion that is not over has a next step.                      *)
NoStandstill == pc # "idle" => CanGoOn

(* Whatever combination of marker, files and row a start, a deletion or its     *)
(* rollback finds, there is a case for it.                                      *)
THEOREM DeletionNeverStuck == Spec => []NoStandstill
<1>1. Init => MarkerInv
  BY DEF Init, MarkerInv
<1>2. TypeOK /\ OpenInv /\ MarkerInv => NoStandstill
  <2> SUFFICES ASSUME TypeOK, OpenInv, MarkerInv, pc # "idle" PROVE CanGoOn
    BY DEF NoStandstill
  <2>1. pc \in Steps \ {"idle"}
    BY DEF TypeOK
  <2>2. CASE q = NoQuarantine
    BY <2>1, <2>2 DEF CanGoOn, OpenInv, Steps
  <2>3. CASE q # NoQuarantine
    <3>1. q.marker \in {"none", "torn", "whole"} /\ (q.marker # "whole" => q.held = {})
      BY <2>3, QuarantineFields
    <3>2. CASE pc \in {"staging", "opening", "writing", "moving", "deleting"}
      BY <2>3, <3>2 DEF CanGoOn
    <3>3. CASE pc \in {"boot", "settling"}
      BY <2>3, <3>1, <3>3 DEF CanGoOn, Settling, Restoring, Restored, Removing, Finalizing, Owned,
                              Conflict, TypeOK
    <3>4. CASE pc \in {"rollback", "finalizing"}
      BY <2>3, <3>1, <3>4 DEF CanGoOn, Restoring, Restored, Finalizing, Owned, Conflict, MarkerInv,
                              TypeOK
    <3> QED
      BY <2>1, <3>2, <3>3, <3>4 DEF Steps
  <2> QED
    BY <2>2, <2>3
<1> QED
  BY <1>1, <1>2, MarkerStep, TypeHolds, PTL DEF Spec
================================================================================
