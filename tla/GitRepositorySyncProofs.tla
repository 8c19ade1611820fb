---------------------- MODULE GitRepositorySyncProofs ----------------------
(***************************************************************************)
(* Proofs about GitRepositorySync, for every directory and every scenario. *)
(*                                                                         *)
(*   TypeCorrect       Spec => []TypeOK                                    *)
(*   CommitsComplete   Spec => []CommitIsComplete                          *)
(*   ReadyIsTrue       Spec => []ReadyMeansPushed                          *)
(*   ReportsArePublished  Spec => []ReportsPublished                       *)
(*                                                                         *)
(* CopyInv follows one pass from the listing of the directory to the       *)
(* report; it needs nothing of the environment.  ReportInv relates the     *)
(* object, its cached copy and the pass to the content of Gitea; it needs  *)
(* SafeEnv.                                                                *)
(***************************************************************************)
EXTENDS GitRepositorySync, TLAPS

(* What the run began with is never newer than what the user has now. *)
FloorBelowSource ==
  \A f \in Files : floor[f] <= src[f] /\ src[f] <= edits

(* The pass and the clone agree on how much of the directory is copied. *)
CopyInv ==
  /\ FloorBelowSource
  /\ pass.pc \in {"copy", "commit", "push"} => clone.present
  /\ pass.pc = "copy" => \A f \in Files \ pass.todo : clone.wt[f] >= floor[f]
  /\ pass.pc = "commit" => Covered(clone.wt)
  /\ pass.pc = "push" => Covered(clone.head)
  /\ (pass.pc = "status" /\ pass.obj.synced) => clone.present /\ Covered(clone.head)
  /\ pass.pc \notin {"idle", "status", "annotate"} => ~pass.obj.synced

(* No start time is ahead of the run. *)
RunInv ==
  /\ repo.start <= run /\ repo.observed <= run
  /\ cache.start <= run /\ cache.observed <= run
  /\ pass.obj.start <= run

(* The clone has nothing that Gitea lacks, except between commit and push, *)
(* and Gitea nothing that the clone lacks.                                 *)
CloneInv ==
  /\ ~clone.behind
  /\ (clone.present /\ pass.pc # "push") => clone.head = gitea.tree

(* A report that the exit check could take for this run is about a pushed  *)
(* content, at every place the report passes through.                      *)
ReportInv ==
  /\ (pass.pc = "annotate" /\ pass.obj.start = run /\ repo.synced) => Pushed
  /\ (repo.observed = run /\ repo.synced) => Pushed
  /\ (cache.observed = run /\ cache.synced) => Pushed
  /\ ReportsLand => (pass.pc # "idle" => ~pass.dirty)
  /\ PassesSucceed => (pass.pc = "status" => pass.obj.synced)
  /\ PassesSucceed => (pass.pc = "copy" => \A f \in pass.todo : src[f] # Absent)

----------------------------------------------------------------------------
(* No step leaves the scenario, so what it allows holds before and after.  *)
LEMMA ScenarioKept ==
  [Next]_vars => /\ PushesAccepted' = PushesAccepted
                 /\ PassesSucceed' = PassesSucceed
                 /\ ReportsLand' = ReportsLand
                 /\ SafeEnv' = SafeEnv
<1> SUFFICES ASSUME [Next]_vars PROVE scenario' = scenario
  BY DEF PushesAccepted, PassesSucceed, ReportsLand, SafeEnv, Faultless
<1>1. CASE Environment
  BY <1>1 DEF Environment, EditFile, DeleteFile, ForeignPush, Restart
<1>2. CASE OwnerUpdate \/ SyncCache
  BY <1>2 DEF OwnerUpdate, SyncCache, env
<1>3. CASE Reconcile
  BY <1>3 DEF Reconcile, BeginPass, FailPass, GetCredentials, GetOrCreateRepository,
     CreateLostAnswer, OpenOrClone, CopyDone, CopyFile, CopyVanished, AddAllAndCommit,
     PushToRemote, PushRejected, PushFails, PushLostAnswer, UpdateStatus, StatusConflict,
     StatusFails, UpdateSyncAnnotation, AnnotationFails, env
<1>4. CASE UNCHANGED vars
  BY <1>4 DEF vars
<1> QED
  BY <1>1, <1>2, <1>3, <1>4 DEF Next

(* Type correctness: every variable stays in the set TypeOK gives it. *)
LEMMA TypeStep == TypeOK /\ [Next]_vars => TypeOK'
<1> SUFFICES ASSUME TypeOK PROVE [Next]_vars => TypeOK'
  OBVIOUS
<1> DEFINE CloneType == [present : BOOLEAN, wt : Tree, head : Tree, behind : BOOLEAN]
           PassType == [pc : PassPC, obj : Object, dirty : BOOLEAN,
                        todo : SUBSET Files, fresh : BOOLEAN]
<1> USE DEF TypeOK, env, vars
<1>1. ASSUME NEW f \in Files, EditFile(f) PROVE TypeOK'
  BY <1>1 DEF EditFile, Tree, Content
<1>2. ASSUME NEW f \in Files, DeleteFile(f) PROVE TypeOK'
  BY <1>2 DEF DeleteFile, MayInject, Tree, Content, Absent
<1>3. ASSUME NEW f \in Files, ForeignPush(f) PROVE TypeOK'
  <2>1. gitea' \in [exists : BOOLEAN, tree : Tree]
    BY <1>3 DEF ForeignPush, Tree, Content
  <2>2. clone' \in CloneType
    BY <1>3 DEF ForeignPush
  <2> QED
    BY <1>3, <2>1, <2>2 DEF ForeignPush, MayInject
<1>4. CASE Restart
  <2>1. clone' \in CloneType
    BY <1>4 DEF Restart
  <2>2. pass' \in PassType
    BY <1>4 DEF Restart, PassPC
  <2> QED
    BY <1>4, <2>1, <2>2 DEF Restart
<1>5. CASE OwnerUpdate
  BY <1>5 DEF OwnerUpdate, Object
<1>6. CASE SyncCache
  BY <1>6 DEF SyncCache
<1>7. CASE BeginPass
  BY <1>7 DEF BeginPass, PassPC, Object
<1>8. CASE FailPass
  BY <1>8 DEF FailPass, MayInject, PassPC
<1>9. CASE GetCredentials
  BY <1>9 DEF GetCredentials, PassPC
<1>10. CASE GetOrCreateRepository
  BY <1>10 DEF GetOrCreateRepository, PassPC
<1>11. CASE CreateLostAnswer
  <2>1. gitea' \in [exists : BOOLEAN, tree : Tree]
    BY <1>11 DEF CreateLostAnswer
  <2>2. pass' \in PassType
    BY <1>11 DEF CreateLostAnswer, PassPC
  <2> QED
    BY <1>11, <2>1, <2>2 DEF CreateLostAnswer, MayInject
<1>12. CASE OpenOrClone
  BY <1>12 DEF OpenOrClone, PassPC
<1>13. ASSUME NEW f \in Files, CopyFile(f) PROVE TypeOK'
  BY <1>13 DEF CopyFile, Tree, Content
<1>14. ASSUME NEW f \in Files, CopyVanished(f) PROVE TypeOK'
  BY <1>14 DEF CopyVanished, Tree, Content, Truncated, PassPC
<1>15. CASE CopyDone
  BY <1>15 DEF CopyDone, PassPC
<1>16. CASE AddAllAndCommit
  <2>1. Reported(pass) \in PassType
    BY DEF Reported, PassPC, Object
  <2>2. [pass EXCEPT !.pc = "push"] \in PassType
    BY DEF PassPC
  <2>3. [clone EXCEPT !.head = clone.wt] \in CloneType
    OBVIOUS
  <2> QED
    BY <1>16, <2>1, <2>2, <2>3 DEF AddAllAndCommit
<1>17. CASE PushToRemote
  BY <1>17 DEF PushToRemote, Reported, PassPC, Object
<1>18. CASE PushRejected
  BY <1>18 DEF PushRejected, PassPC
<1>19. CASE PushFails
  BY <1>19 DEF PushFails, MayInject, PassPC
<1>20. CASE PushLostAnswer
  BY <1>20 DEF PushLostAnswer, MayInject, PassPC
<1>21. CASE UpdateStatus
  BY <1>21 DEF UpdateStatus, PassPC, Object
<1>22. CASE StatusConflict
  BY <1>22 DEF StatusConflict, PassPC
<1>23. CASE StatusFails
  BY <1>23 DEF StatusFails, MayInject, PassPC
<1>24. CASE UpdateSyncAnnotation
  BY <1>24 DEF UpdateSyncAnnotation, PassPC, Object
<1>25. CASE AnnotationFails
  BY <1>25 DEF AnnotationFails, MayInject, PassPC
<1>26. CASE UNCHANGED vars
  BY <1>26
<1> HIDE DEF TypeOK
<1> QED
  BY <1>1, <1>2, <1>3, <1>4, <1>5, <1>6, <1>7, <1>8, <1>9, <1>10, <1>11, <1>12, <1>13,
     <1>14, <1>15, <1>16, <1>17, <1>18, <1>19, <1>20, <1>21, <1>22, <1>23, <1>24,
     <1>25, <1>26 DEF Next, Environment, Reconcile

(* Every variable of the model has its type in every reachable state. *)
THEOREM TypeCorrect == Spec => []TypeOK
<1>1. Init => TypeOK
  <2> SUFFICES ASSUME Init PROVE TypeOK
    OBVIOUS
  <2> scenario \in Scenarios
    BY DEF Init
  <2>1. src \in Tree /\ floor \in Tree /\ edits \in Nat /\ run \in Nat
    BY DEF Init, Tree, Content, FirstEdit
  <2>2. [f \in Files |-> Absent] \in Tree
    BY DEF Tree, Content, Absent
  <2>3. repo \in Object
    BY DEF Init, Object
  <2> QED
    BY <2>1, <2>2, <2>3 DEF Init, TypeOK, PassPC
<1>2. QED
  BY <1>1, TypeStep, PTL DEF Spec

----------------------------------------------------------------------------
(* A pass copies, commits and reports the whole directory: CopyInv is       *)
(* inductive in every environment.                                          *)
LEMMA CopyStep == TypeOK /\ CopyInv /\ [Next]_vars => CopyInv'
<1> SUFFICES ASSUME TypeOK, CopyInv PROVE [Next]_vars => CopyInv'
  OBVIOUS
<1> USE DEF TypeOK, CopyInv, FloorBelowSource, Covered, Tree, Content, Object, PassPC, env, vars
<1>1. ASSUME NEW g \in Files, EditFile(g) PROVE CopyInv'
  BY <1>1 DEF EditFile
<1>2. ASSUME NEW g \in Files, DeleteFile(g) PROVE CopyInv'
  BY <1>2 DEF DeleteFile, Absent
<1>3. ASSUME NEW g \in Files, ForeignPush(g) PROVE CopyInv'
  BY <1>3 DEF ForeignPush
<1>4. ASSUME NEW g \in Files, CopyFile(g) PROVE CopyInv'
  BY <1>4 DEF CopyFile
<1>5. ASSUME NEW g \in Files, CopyVanished(g) PROVE CopyInv'
  BY <1>5 DEF CopyVanished, Absent, Truncated
<1>6. CASE Restart
  BY <1>6 DEF Restart
<1>7. CASE OwnerUpdate
  BY <1>7 DEF OwnerUpdate
<1>8. CASE SyncCache
  BY <1>8 DEF SyncCache
<1>9. CASE BeginPass
  BY <1>9 DEF BeginPass
<1>10. CASE FailPass
  BY <1>10 DEF FailPass
<1>11. CASE GetCredentials
  BY <1>11 DEF GetCredentials
<1>12. CASE GetOrCreateRepository
  BY <1>12 DEF GetOrCreateRepository
<1>13. CASE CreateLostAnswer
  BY <1>13 DEF CreateLostAnswer
<1>14. CASE OpenOrClone
  BY <1>14 DEF OpenOrClone, Absent
<1>15. CASE CopyDone
  BY <1>15 DEF CopyDone
<1>16. CASE AddAllAndCommit
  BY <1>16 DEF AddAllAndCommit, Reported
<1>17. CASE PushToRemote
  BY <1>17 DEF PushToRemote, Reported
<1>18. CASE PushRejected
  BY <1>18 DEF PushRejected
<1>19. CASE PushFails
  BY <1>19 DEF PushFails
<1>20. CASE PushLostAnswer
  BY <1>20 DEF PushLostAnswer
<1>21. CASE UpdateStatus
  BY <1>21 DEF UpdateStatus
<1>22. CASE StatusConflict
  BY <1>22 DEF StatusConflict
<1>23. CASE StatusFails
  BY <1>23 DEF StatusFails
<1>24. CASE UpdateSyncAnnotation
  BY <1>24 DEF UpdateSyncAnnotation
<1>25. CASE AnnotationFails
  BY <1>25 DEF AnnotationFails
<1>26. CASE UNCHANGED vars
  BY <1>26
<1> HIDE DEF TypeOK, CopyInv
<1> QED
  BY <1>1, <1>2, <1>3, <1>4, <1>5, <1>6, <1>7, <1>8, <1>9, <1>10, <1>11,
     <1>12, <1>13, <1>14, <1>15, <1>16, <1>17, <1>18, <1>19, <1>20, <1>21,
     <1>22, <1>23, <1>24, <1>25, <1>26 DEF Next, Environment, Reconcile

(* A commit is complete when it is pushed or reported: CommitIsComplete     *)
(* holds whatever the environment does.                                     *)
THEOREM CommitsComplete == Spec => []CommitIsComplete
<1>1. Init => CopyInv
  BY DEF Init, CopyInv, FloorBelowSource, FirstEdit
<1>2. CopyInv => CommitIsComplete
  BY DEF CopyInv, CommitIsComplete
<1>3. QED
  BY <1>1, <1>2, TypeCorrect, CopyStep, PTL DEF Spec

----------------------------------------------------------------------------
(* Start times and the clone: what the report relies on. *)
LEMMA RunStep == TypeOK /\ RunInv /\ [Next]_vars => RunInv'
<1> SUFFICES ASSUME TypeOK, RunInv PROVE [Next]_vars => RunInv'
  OBVIOUS
<1> USE DEF TypeOK, RunInv, Object, env, vars
<1>1. ASSUME NEW g \in Files, EditFile(g) PROVE RunInv'
  BY <1>1 DEF EditFile
<1>2. ASSUME NEW g \in Files, DeleteFile(g) PROVE RunInv'
  BY <1>2 DEF DeleteFile
<1>3. ASSUME NEW g \in Files, ForeignPush(g) PROVE RunInv'
  BY <1>3 DEF ForeignPush
<1>4. ASSUME NEW g \in Files, CopyFile(g) PROVE RunInv'
  BY <1>4 DEF CopyFile
<1>5. ASSUME NEW g \in Files, CopyVanished(g) PROVE RunInv'
  BY <1>5 DEF CopyVanished
<1>6. CASE Restart
  BY <1>6 DEF Restart
<1>7. CASE OwnerUpdate
  BY <1>7 DEF OwnerUpdate
<1>8. CASE SyncCache
  BY <1>8 DEF SyncCache
<1>9. CASE BeginPass
  BY <1>9 DEF BeginPass
<1>10. CASE FailPass
  BY <1>10 DEF FailPass
<1>11. CASE GetCredentials
  BY <1>11 DEF GetCredentials
<1>12. CASE GetOrCreateRepository
  BY <1>12 DEF GetOrCreateRepository
<1>13. CASE CreateLostAnswer
  BY <1>13 DEF CreateLostAnswer
<1>14. CASE OpenOrClone
  BY <1>14 DEF OpenOrClone
<1>15. CASE CopyDone
  BY <1>15 DEF CopyDone
<1>16. CASE AddAllAndCommit
  <2>1. Reported(pass).obj.start = pass.obj.start
    BY DEF Reported
  <2>2. [pass EXCEPT !.pc = "push"].obj.start = pass.obj.start
    OBVIOUS
  <2> QED
    BY <1>16, <2>1, <2>2 DEF AddAllAndCommit
<1>17. CASE PushToRemote
  BY <1>17 DEF PushToRemote, Reported
<1>18. CASE PushRejected
  BY <1>18 DEF PushRejected
<1>19. CASE PushFails
  BY <1>19 DEF PushFails
<1>20. CASE PushLostAnswer
  BY <1>20 DEF PushLostAnswer
<1>21. CASE UpdateStatus
  BY <1>21 DEF UpdateStatus
<1>22. CASE StatusConflict
  BY <1>22 DEF StatusConflict
<1>23. CASE StatusFails
  BY <1>23 DEF StatusFails
<1>24. CASE UpdateSyncAnnotation
  BY <1>24 DEF UpdateSyncAnnotation
<1>25. CASE AnnotationFails
  BY <1>25 DEF AnnotationFails
<1>26. CASE UNCHANGED vars
  BY <1>26
<1> HIDE DEF TypeOK, RunInv
<1> QED
  BY <1>1, <1>2, <1>3, <1>4, <1>5, <1>6, <1>7, <1>8, <1>9, <1>10, <1>11,
     <1>12, <1>13, <1>14, <1>15, <1>16, <1>17, <1>18, <1>19, <1>20, <1>21,
     <1>22, <1>23, <1>24, <1>25, <1>26 DEF Next, Environment, Reconcile

LEMMA CloneStep == PushesAccepted /\ TypeOK /\ CloneInv /\ [Next]_vars => CloneInv'
<1> SUFFICES ASSUME PushesAccepted, TypeOK, CloneInv PROVE [Next]_vars => CloneInv'
  OBVIOUS
<1> USE DEF TypeOK, CloneInv, PassPC, env, vars
<1>1. ASSUME NEW g \in Files, EditFile(g) PROVE CloneInv'
  BY <1>1 DEF EditFile
<1>2. ASSUME NEW g \in Files, DeleteFile(g) PROVE CloneInv'
  BY <1>2 DEF DeleteFile
<1>3. ASSUME NEW g \in Files, ForeignPush(g) PROVE CloneInv'
  BY <1>3 DEF ForeignPush, MayInject, Faultless, PushesAccepted
<1>4. ASSUME NEW g \in Files, CopyFile(g) PROVE CloneInv'
  BY <1>4 DEF CopyFile
<1>5. ASSUME NEW g \in Files, CopyVanished(g) PROVE CloneInv'
  BY <1>5 DEF CopyVanished
<1>6. CASE Restart
  BY <1>6 DEF Restart
<1>7. CASE OwnerUpdate
  BY <1>7 DEF OwnerUpdate
<1>8. CASE SyncCache
  BY <1>8 DEF SyncCache
<1>9. CASE BeginPass
  BY <1>9 DEF BeginPass
<1>10. CASE FailPass
  BY <1>10 DEF FailPass
<1>11. CASE GetCredentials
  BY <1>11 DEF GetCredentials
<1>12. CASE GetOrCreateRepository
  BY <1>12 DEF GetOrCreateRepository
<1>13. CASE CreateLostAnswer
  BY <1>13 DEF CreateLostAnswer
<1>14. CASE OpenOrClone
  BY <1>14 DEF OpenOrClone
<1>15. CASE CopyDone
  BY <1>15 DEF CopyDone
<1>16. CASE AddAllAndCommit
  BY <1>16 DEF AddAllAndCommit, Reported
<1>17. CASE PushToRemote
  BY <1>17 DEF PushToRemote, Reported
<1>18. CASE PushRejected
  BY <1>18 DEF PushRejected
<1>19. CASE PushFails
  BY <1>19 DEF PushFails, MayInject, Faultless, PushesAccepted
<1>20. CASE PushLostAnswer
  BY <1>20 DEF PushLostAnswer
<1>21. CASE UpdateStatus
  BY <1>21 DEF UpdateStatus
<1>22. CASE StatusConflict
  BY <1>22 DEF StatusConflict
<1>23. CASE StatusFails
  BY <1>23 DEF StatusFails
<1>24. CASE UpdateSyncAnnotation
  BY <1>24 DEF UpdateSyncAnnotation
<1>25. CASE AnnotationFails
  BY <1>25 DEF AnnotationFails
<1>26. CASE UNCHANGED vars
  BY <1>26
<1> HIDE DEF TypeOK, CloneInv
<1> QED
  BY <1>1, <1>2, <1>3, <1>4, <1>5, <1>6, <1>7, <1>8, <1>9, <1>10, <1>11,
     <1>12, <1>13, <1>14, <1>15, <1>16, <1>17, <1>18, <1>19, <1>20, <1>21,
     <1>22, <1>23, <1>24, <1>25, <1>26 DEF Next, Environment, Reconcile

----------------------------------------------------------------------------
(* The report: no order of crashes, conflicts, lost writes and stale reads  *)
(* lets the two halves of a report combine into a false one.                *)
LEMMA ReportStep ==
  SafeEnv /\ TypeOK /\ CopyInv /\ RunInv /\ CloneInv /\ ReportInv /\ [Next]_vars => ReportInv'
<1> SUFFICES ASSUME SafeEnv, TypeOK, CopyInv, RunInv, CloneInv, ReportInv, [Next]_vars
             PROVE  ReportInv'
  OBVIOUS
<1>0. ReportsLand' = ReportsLand /\ PassesSucceed' = PassesSucceed
  BY ScenarioKept
<1> USE <1>0, SafeEnv DEF SafeEnv, TypeOK, CopyInv, RunInv, CloneInv, ReportInv, FloorBelowSource,
                    Pushed, Covered, Tree, Content, Object, env, vars
<1>1. ASSUME NEW g \in Files, EditFile(g) PROVE ReportInv'
  BY <1>1 DEF EditFile, Absent
<1>2. ASSUME NEW g \in Files, DeleteFile(g) PROVE ReportInv'
  BY <1>2 DEF DeleteFile, MayInject, Faultless, PushesAccepted, PassesSucceed, ReportsLand, Absent
<1>3. ASSUME NEW g \in Files, ForeignPush(g) PROVE ReportInv'
  BY <1>3 DEF ForeignPush, MayInject, Faultless, PushesAccepted, PassesSucceed, ReportsLand
<1>4. ASSUME NEW g \in Files, CopyFile(g) PROVE ReportInv'
  BY <1>4 DEF CopyFile
<1>5. ASSUME NEW g \in Files, CopyVanished(g) PROVE ReportInv'
  BY <1>5 DEF CopyVanished, Absent
<1>6. CASE Restart
  BY <1>6 DEF Restart
<1>7. CASE OwnerUpdate
  BY <1>7 DEF OwnerUpdate, MayInject, Faultless, PushesAccepted, PassesSucceed, ReportsLand
<1>8. CASE SyncCache
  BY <1>8 DEF SyncCache
<1>9. CASE BeginPass
  BY <1>9 DEF BeginPass, MayInject, Faultless, PushesAccepted, PassesSucceed, ReportsLand
<1>10. CASE FailPass
  BY <1>10 DEF FailPass, MayInject, Faultless, PushesAccepted, PassesSucceed, ReportsLand
<1>11. CASE GetCredentials
  BY <1>11 DEF GetCredentials
<1>12. CASE GetOrCreateRepository
  BY <1>12 DEF GetOrCreateRepository
<1>13. CASE CreateLostAnswer
  BY <1>13 DEF CreateLostAnswer, MayInject, Faultless, PushesAccepted, PassesSucceed, ReportsLand
<1>14. CASE OpenOrClone
  BY <1>14 DEF OpenOrClone, Absent
<1>15. CASE CopyDone
  BY <1>15 DEF CopyDone
<1>16. CASE AddAllAndCommit
  <2>1. CASE clone.wt = clone.head
    <3>1. pass' = Reported(pass) /\ pass.pc = "commit" /\ UNCHANGED <<clone, gitea, repo, cache, run, floor>>
      BY <1>16, <2>1 DEF AddAllAndCommit
    <3>2. pass'.pc = "status" /\ pass'.obj.synced /\ pass'.dirty = pass.dirty
      BY <3>1 DEF Reported
    <3> QED
      BY <3>1, <3>2
  <2>2. CASE clone.wt # clone.head
    BY <1>16, <2>2 DEF AddAllAndCommit
  <2> QED
    BY <2>1, <2>2
<1>17. CASE PushToRemote
  BY <1>17 DEF PushToRemote, Reported
<1>18. CASE PushRejected
  BY <1>18 DEF PushRejected, MayInject, Faultless, PushesAccepted, PassesSucceed, ReportsLand
<1>19. CASE PushFails
  BY <1>19 DEF PushFails, MayInject, Faultless, PushesAccepted, PassesSucceed, ReportsLand
<1>20. CASE PushLostAnswer
  BY <1>20 DEF PushLostAnswer, MayInject, Faultless, PushesAccepted, PassesSucceed, ReportsLand
<1>21. CASE UpdateStatus
  BY <1>21 DEF UpdateStatus
<1>22. CASE StatusConflict
  BY <1>22 DEF StatusConflict, MayInject, Faultless, PushesAccepted, PassesSucceed, ReportsLand
<1>23. CASE StatusFails
  BY <1>23 DEF StatusFails, MayInject, Faultless, PushesAccepted, PassesSucceed, ReportsLand
<1>24. CASE UpdateSyncAnnotation
  BY <1>24 DEF UpdateSyncAnnotation
<1>25. CASE AnnotationFails
  BY <1>25 DEF AnnotationFails
<1>26. CASE UNCHANGED vars
  BY <1>26
<1> HIDE DEF TypeOK, CopyInv, RunInv, CloneInv, ReportInv
<1> QED
  BY <1>1, <1>2, <1>3, <1>4, <1>5, <1>6, <1>7, <1>8, <1>9, <1>10, <1>11,
     <1>12, <1>13, <1>14, <1>15, <1>16, <1>17, <1>18, <1>19, <1>20, <1>21,
     <1>22, <1>23, <1>24, <1>25, <1>26 DEF Next, Environment, Reconcile

(* When every push is accepted, and either the passes or their reports      *)
(* succeed, the exit check never takes a repository whose content has not   *)
(* reached Gitea in this run.                                               *)
THEOREM ReadyIsTrue == Spec => []ReadyMeansPushed
<1> DEFINE IInv == CopyInv /\ RunInv /\ (SafeEnv => CloneInv /\ ReportInv)
<1>1. Init => IInv
  BY DEF Init, CopyInv, FloorBelowSource, RunInv, CloneInv, ReportInv, FirstEdit
<1>2. TypeOK /\ IInv /\ [Next]_vars => IInv'
  <2>1. SafeEnv => PushesAccepted
    BY DEF SafeEnv
  <2> QED
    BY <2>1, CopyStep, RunStep, CloneStep, ReportStep, ScenarioKept
<1>3. IInv => ReadyMeansPushed
  BY DEF ReportInv, ReadyMeansPushed, Ready
<1> HIDE DEF IInv
<1>4. QED
  BY <1>1, <1>2, <1>3, TypeCorrect, PTL DEF Spec

(* When every push is accepted the status names only a commit that is in    *)
(* Gitea.                                                                   *)
THEOREM ReportsArePublished == Spec => []ReportsPublished
<1> DEFINE IInv == CopyInv /\ (PushesAccepted => CloneInv)
<1>1. Init => IInv
  BY DEF Init, CopyInv, FloorBelowSource, CloneInv, FirstEdit
<1>2. TypeOK /\ IInv /\ [Next]_vars => IInv'
  BY CopyStep, CloneStep, ScenarioKept
<1>3. IInv => ReportsPublished
  BY DEF CopyInv, CloneInv, ReportsPublished
<1> HIDE DEF IInv
<1>4. QED
  BY <1>1, <1>2, <1>3, TypeCorrect, PTL DEF Spec
=============================================================================
