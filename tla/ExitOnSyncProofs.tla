-------------------------- MODULE ExitOnSyncProofs --------------------------
(***************************************************************************)
(* What the exit check of idpbuilder guarantees, for any number of         *)
(* packages, invocations and failures, with caches that trail and a        *)
(* manager that does not wait for the Localbuild.                          *)
(*                                                                         *)
(*   TypeCorrect        Spec => []TypeOK                                   *)
(*   ReadyHasSource     Spec => []ReadyPackageHasRepository                *)
(*   RepositoriesEarned Spec => RepositoriesCounted                        *)
(*   PackagesEarned     Spec => PackagesCounted                            *)
(*                                                                         *)
(* UrlInv says that a URL once seen stays.  StampInv bounds every start    *)
(* time by the invocation, and FreshInv says that the Localbuild worker    *)
(* stays with this invocation once an object bears its start time.         *)
(* RepositoryInv and PackageInv say that a report bearing this invocation  *)
(* is true, wherever it is: in a worker, in the status, half written, or   *)
(* in a cache.                                                             *)
(***************************************************************************)
EXTENDS ExitOnSync, TLAPS

----------------------------------------------------------------------------
(* A name is not both of an embedded and of a custom package. *)
LEMMA NamesDiffer == Core \cap Pkgs = {}
  BY ScenarioAssumption

(* Stamping an object with a start time keeps the type of the objects. *)
LEMMA StampedIsTyped ==
  ASSUME NEW S, NEW o \in [S -> Object], NEW x \in S, NEW n \in Nat
  PROVE  [o EXCEPT ![x].start = n] \in [S -> Object]
  BY DEF Object

(* Type correctness: every variable stays in the set TypeOK gives it. *)
LEMMA TypeStep ==
  TypeOK /\ [Next]_vars => TypeOK'
<1> SUFFICES ASSUME TypeOK PROVE [Next]_vars => TypeOK'
  OBVIOUS
<1> USE DEF TypeOK, session, objects, workers, history, vars
<1>1. ASSUME WriteLocalbuild PROVE TypeOK'
  BY <1>1 DEF WriteLocalbuild
<1>2. ASSUME NextRun PROVE TypeOK'
  <2>1. lbp' \in LocalbuildPass
    BY <1>2 DEF NextRun, Server, LocalbuildPass, IdleLocalbuild, None
  <2>2. gitp' \in RepositoryPass
    BY <1>2 DEF NextRun, Server, RepositoryPass, IdlePass, Missing, None, Object
  <2>3. pkgp' \in PackagePass
    BY <1>2 DEF NextRun, Server, PackagePass, IdlePass, Missing, None, Object
  <2>4. given' \in SUBSET Pkgs
    BY <1>2, ScenarioAssumption DEF NextRun
  <2> QED
    BY <1>2, <2>1, <2>2, <2>3, <2>4 DEF NextRun, Server
<1>3. ASSUME NEW kind \in Kinds, Deliver(kind) PROVE TypeOK'
  BY <1>3 DEF Deliver, Kinds, Server
<1>4. ASSUME NEW c \in Core, ArgoReports(c) PROVE TypeOK'
  BY <1>4 DEF ArgoReports, Health
<1>5. ASSUME BeginLocalbuild PROVE TypeOK'
  <2>1. lbp' \in LocalbuildPass
    BY <1>5 DEF BeginLocalbuild, LocalbuildPass, IdleLocalbuild, None
  <2> QED
    BY <1>5, <2>1 DEF BeginLocalbuild
<1>6. ASSUME EmbeddedAppsDone PROVE TypeOK'
  <2>1. lbp' \in LocalbuildPass
    BY <1>6 DEF EmbeddedAppsDone, LocalbuildPass, IdleLocalbuild, None
  <2> QED
    BY <1>6, <2>1 DEF EmbeddedAppsDone
<1>7. ASSUME CustomPackagesDone PROVE TypeOK'
  <2>1. lbp' \in LocalbuildPass
    BY <1>7 DEF CustomPackagesDone, LocalbuildPass, IdleLocalbuild, None
  <2> QED
    BY <1>7, <2>1 DEF CustomPackagesDone
<1>8. ASSUME NEW c \in Core, ReconcileGitRepo(c) PROVE TypeOK'
  <2>1. lbp' \in LocalbuildPass
    <3>1. CASE lbp' = IdleLocalbuild
      BY <3>1 DEF LocalbuildPass, IdleLocalbuild, None
    <3>2. CASE lbp' = [lbp EXCEPT !.core = @ \ {c}, !.item = c, !.url = seen.git[c].url]
      <4>1. c \in Repos /\ seen.git[c].url \in BOOLEAN
        BY DEF Repos, Object
      <4> QED
        BY <3>2, <4>1 DEF LocalbuildPass
    <3> QED
      BY <1>8, <3>1, <3>2 DEF ReconcileGitRepo
  <2>2. git' \in [Repos -> Object]
    BY <1>8 DEF ReconcileGitRepo, Object, LocalbuildPass
  <2> QED
    BY <1>8, <2>1, <2>2 DEF ReconcileGitRepo
<1>9. ASSUME NEW c \in Core, ReconcileEmbeddedApp(c) PROVE TypeOK'
  <2>1. lbp' \in LocalbuildPass
    <3>1. CASE lbp' = IdleLocalbuild
      BY <3>1 DEF LocalbuildPass, IdleLocalbuild, None
    <3>2. CASE lbp' = [lbp EXCEPT !.item = None, !.url = FALSE]
      BY <3>2 DEF LocalbuildPass
    <3> QED
      BY <1>9, <3>1, <3>2 DEF ReconcileEmbeddedApp
  <2>2. app' \in [Core -> Health]
    BY <1>9 DEF ReconcileEmbeddedApp, Health
  <2> QED
    BY <1>9, <2>1, <2>2 DEF ReconcileEmbeddedApp
<1>10. ASSUME NEW p \in Pkgs, ReconcileCustomPkg(p) PROVE TypeOK'
  <2>1. lbp' \in LocalbuildPass
    BY <1>10 DEF ReconcileCustomPkg, LocalbuildPass, IdleLocalbuild, None
  <2>2. pkg' \in [Pkgs -> Object]
    <3>1. lbp.start \in Nat
      BY DEF LocalbuildPass
    <3>2. [pkg EXCEPT ![p].start = lbp.start] \in [Pkgs -> Object]
      BY <3>1, StampedIsTyped
    <3> QED
      BY <1>10, <3>2 DEF ReconcileCustomPkg
  <2> QED
    BY <1>10, <2>1, <2>2 DEF ReconcileCustomPkg
<1>11. ASSUME NEW p \in Pkgs, ReconcileCustomPkgFails(p) PROVE TypeOK'
  <2>1. lbp' \in LocalbuildPass
    BY <1>11 DEF ReconcileCustomPkgFails, MayInject, LocalbuildPass, IdleLocalbuild, None
  <2> QED
    BY <1>11, <2>1 DEF ReconcileCustomPkgFails, MayInject
<1>12. ASSUME CheckApplications PROVE TypeOK'
  <2>1. lbp' \in LocalbuildPass
    BY <1>12 DEF CheckApplications, CheckThen, LocalbuildPass, IdleLocalbuild, None,
                 CheckThen
  <2> QED
    BY <1>12, <2>1 DEF CheckApplications, CheckThen
<1>13. ASSUME CheckRepositories PROVE TypeOK'
  <2>1. lbp' \in LocalbuildPass
    BY <1>13 DEF CheckRepositories, CheckThen, LocalbuildPass, IdleLocalbuild, None,
                 CheckThen
  <2> QED
    BY <1>13, <2>1 DEF CheckRepositories, CheckThen
<1>14. ASSUME CheckPackages PROVE TypeOK'
  <2>1. lbp' \in LocalbuildPass
    BY <1>14 DEF CheckPackages, CheckThen, LocalbuildPass, IdleLocalbuild, None, CheckThen
  <2> QED
    BY <1>14, <2>1 DEF CheckPackages, CheckThen
<1>15. ASSUME ShutDown PROVE TypeOK'
  <2>1. lbp' \in LocalbuildPass
    BY <1>15 DEF ShutDown, LocalbuildPass, IdleLocalbuild, None
  <2> QED
    BY <1>15, <2>1 DEF ShutDown
<1>16. ASSUME NEW r \in Repos, BeginRepositoryPass(r) PROVE TypeOK'
  <2>1. gitp' \in RepositoryPass
    BY <1>16 DEF BeginRepositoryPass, RepositoryPass, IdlePass, Missing, None, Object
  <2> QED
    BY <1>16, <2>1 DEF BeginRepositoryPass
<1>17. ASSUME gitp.name \in Repos, RepositorySynced PROVE TypeOK'
  <2>1. gitp' \in RepositoryPass
    <3>1. CASE gitp.name \in gitea
      <4>1. gitp' = [gitp EXCEPT !.pc = "status", !.synced = TRUE, !.url = TRUE]
        BY <1>17, <3>1 DEF RepositorySynced
      <4> QED
        BY <4>1 DEF RepositoryPass
    <3>2. CASE gitp.name \notin gitea
      <4>1. (gitp.name \in gitea) = FALSE
        BY <3>2
      <4>2. gitp' = [gitp EXCEPT !.pc = "status", !.synced = TRUE, !.url = gitp.name \in gitea]
        BY <1>17 DEF RepositorySynced
      <4>3. gitp' = [gitp EXCEPT !.pc = "status", !.synced = TRUE, !.url = FALSE]
        BY <4>1, <4>2, Zenon
      <4> QED
        BY <4>3 DEF RepositoryPass
    <3> QED
      BY <3>1, <3>2
  <2> QED
    BY <1>17, <2>1 DEF RepositorySynced
<1>18. ASSUME gitp.name \in Repos, RepositoryFails PROVE TypeOK'
  <2>1. gitp' \in RepositoryPass
    BY <1>18 DEF RepositoryFails, MayInject, RepositoryPass, IdlePass, Missing, None, Object
  <2> QED
    BY <1>18, <2>1 DEF RepositoryFails, MayInject
<1>19. ASSUME gitp.name \in Repos, UpdateRepositoryStatus PROVE TypeOK'
  <2>1. gitp' \in RepositoryPass
    BY <1>19 DEF UpdateRepositoryStatus, RepositoryPass, IdlePass, Missing, None, Object
  <2>2. git' \in [Repos -> Object]
    BY <1>19 DEF UpdateRepositoryStatus, Object, RepositoryPass, AfterStatus
  <2> QED
    BY <1>19, <2>1, <2>2 DEF UpdateRepositoryStatus
<1>20. ASSUME gitp.name \in Repos, AnnotateRepository PROVE TypeOK'
  <2>1. gitp' \in RepositoryPass
    BY <1>20 DEF AnnotateRepository, RepositoryPass, IdlePass, Missing, None, Object
  <2>2. git' \in [Repos -> Object]
    BY <1>20 DEF AnnotateRepository, Object, RepositoryPass
  <2> QED
    BY <1>20, <2>1, <2>2 DEF AnnotateRepository
<1>21. ASSUME NEW p \in Pkgs, BeginPackagePass(p) PROVE TypeOK'
  <2>1. pkgp' \in PackagePass
    BY <1>21 DEF BeginPackagePass, PackagePass, IdlePass, Missing, None, Object
  <2> QED
    BY <1>21, <2>1 DEF BeginPackagePass
<1>22. ASSUME pkgp.name \in Pkgs, ReconcileSource PROVE TypeOK'
  <2>1. pkgp' \in PackagePass
    <3>1. PICK u \in BOOLEAN : pkgp' = [pkgp EXCEPT !.pc = "status", !.synced = u]
      BY <1>22 DEF ReconcileSource
    <3> QED
      BY <3>1 DEF PackagePass
  <2>2. git' \in [Repos -> Object]
    <3>1. pkgp.read.start \in Nat /\ pkgp.name \in Repos
      BY <1>22 DEF PackagePass, Object, Repos
    <3>2. [git EXCEPT ![pkgp.name].start = pkgp.read.start] \in [Repos -> Object]
      BY <3>1, StampedIsTyped
    <3> QED
      BY <1>22, <3>2 DEF ReconcileSource
  <2>3. done' \in SUBSET Pkgs
    BY <1>22 DEF ReconcileSource
  <2> QED
    BY <1>22, <2>1, <2>2, <2>3 DEF ReconcileSource
<1>23. ASSUME pkgp.name \in Pkgs, PackageFails PROVE TypeOK'
  <2>1. pkgp' \in PackagePass
    BY <1>23 DEF PackageFails, MayInject, PackagePass, IdlePass, Missing, None, Object
  <2> QED
    BY <1>23, <2>1 DEF PackageFails, MayInject
<1>24. ASSUME pkgp.name \in Pkgs, UpdatePackageStatus PROVE TypeOK'
  <2>1. pkgp' \in PackagePass
    BY <1>24 DEF UpdatePackageStatus, PackagePass, IdlePass, Missing, None, Object
  <2>2. pkg' \in [Pkgs -> Object]
    BY <1>24 DEF UpdatePackageStatus, Object, PackagePass, AfterStatus
  <2> QED
    BY <1>24, <2>1, <2>2 DEF UpdatePackageStatus
<1>25. ASSUME pkgp.name \in Pkgs, AnnotatePackage PROVE TypeOK'
  <2>1. pkgp' \in PackagePass
    BY <1>25 DEF AnnotatePackage, Requeue, PackagePass, IdlePass, Missing, None, Object
  <2>2. pkg' \in [Pkgs -> Object]
    BY <1>25 DEF AnnotatePackage, Requeue, Object, PackagePass
  <2> QED
    BY <1>25, <2>1, <2>2 DEF AnnotatePackage, Requeue
<1>26. ASSUME pkgp.name \in Pkgs, AnnotatePackageFails PROVE TypeOK'
  <2>1. pkgp' \in PackagePass
    BY <1>26 DEF AnnotatePackageFails, MayInject, Requeue, PackagePass, IdlePass,
                 Missing, None, Object
  <2> QED
    BY <1>26, <2>1 DEF AnnotatePackageFails, MayInject, Requeue
<1>27. ASSUME UNCHANGED vars PROVE TypeOK'
  BY <1>27
<1> HIDE DEF TypeOK
<1> QED
  BY <1>1, <1>2, <1>3, <1>4, <1>5, <1>6, <1>7, <1>8, <1>9, <1>10,
     <1>11, <1>12, <1>13, <1>14, <1>15, <1>16, <1>17, <1>18,
     <1>19, <1>20, <1>21, <1>22, <1>23, <1>24, <1>25, <1>26,
     <1>27
  DEF Next, Localbuild, Repository, Package, Stopped

(* In every environment, every variable stays in its type. *)
THEOREM TypeCorrect == Spec => []TypeOK
<1>1. Init => TypeOK
  <2> SUFFICES ASSUME Init PROVE TypeOK
    OBVIOUS
  <2>0. scenario \in Scenarios /\ given \in SUBSET Pkgs
    BY ScenarioAssumption DEF Init
  <2>1. IdleLocalbuild \in LocalbuildPass
    BY DEF IdleLocalbuild, LocalbuildPass, None
  <2>2. Missing \in Object
    BY DEF Missing, Object
  <2>3. IdlePass \in RepositoryPass /\ IdlePass \in PackagePass
    BY <2>2 DEF IdlePass, RepositoryPass, PackagePass, None
  <2> QED
    BY <2>0, <2>1, <2>2, <2>3 DEF Init, TypeOK, Health, Server
<1>2. TypeOK /\ [Next]_vars => TypeOK'
  BY TypeStep
<1> QED
  BY <1>1, <1>2, PTL DEF Spec

----------------------------------------------------------------------------
(* The URL of a repository *)

(* A package repository with a URL exists, here and in Gitea, and whoever  *)
(* has seen the URL, or calls the package synced for it, finds it there.   *)
UrlInv ==
  /\ \A p \in Pkgs : git[p].url => git[p].start # 0 /\ p \in gitea
  /\ \A p \in Pkgs : seen.git[p].url \/ pkg[p].synced \/ seen.pkg[p].synced => git[p].url
  /\ gitp.pc # "idle" /\ gitp.name \in Pkgs =>
       /\ gitp.read.start # 0
       /\ gitp.read.url \/ gitp.url => gitp.name \in gitea
       /\ gitp.pc \in {"reconcile", "status"} /\ gitp.read.url => gitp.url
  /\ pkgp.pc # "idle" => pkgp.name \in Pkgs
  /\ pkgp.pc # "idle" /\ pkgp.synced => git[pkgp.name].url

(* Every step keeps it: only the status update of a pass writes a URL, and *)
(* a pass that has read one finds its repository in Gitea.                 *)
LEMMA UrlStep ==
  ASSUME TypeOK, UrlInv, [Next]_vars
  PROVE  UrlInv'
<1> USE NamesDiffer DEF UrlInv
<1>1. CASE WriteLocalbuild \/ UNCHANGED vars \/ \E c \in Core : ArgoReports(c)
  BY <1>1 DEF WriteLocalbuild, ArgoReports, vars, workers, history, session, objects
<1>2. CASE NextRun
  BY <1>2 DEF NextRun, objects, Server, IdlePass
<1>3. ASSUME NEW kind \in Kinds, Deliver(kind)
      PROVE  UrlInv'
  <2>1. seen'.git \in {seen.git, git} /\ seen'.pkg \in {seen.pkg, pkg}
    BY <1>3 DEF Deliver, Server, Kinds, TypeOK
  <2> QED
    BY <1>3, <2>1 DEF Deliver, workers, objects, TypeOK
<1>4. CASE Localbuild
  <2>1. /\ UNCHANGED <<gitea, seen, gitp, pkgp>>
        /\ \A p \in Pkgs : git'[p] = git[p] /\ pkg'[p].synced = pkg[p].synced
    <3>1. CASE \E c \in Core : ReconcileGitRepo(c)
      BY <1>4, <3>1 DEF ReconcileGitRepo, TypeOK, Repos
    <3>2. CASE \E p \in Pkgs : ReconcileCustomPkg(p)
      BY <1>4, <3>2 DEF ReconcileCustomPkg, TypeOK, Object
    <3>3. CASE UNCHANGED <<gitea, seen, gitp, pkgp, git, pkg>>
      BY <3>3
    <3> QED
      BY <1>4, <3>1, <3>2, <3>3 DEF Localbuild, BeginLocalbuild, EmbeddedAppsDone, CustomPackagesDone,
         ReconcileEmbeddedApp, ReconcileCustomPkgFails, CheckApplications, CheckRepositories, CheckPackages,
         CheckThen, ShutDown, objects
  <2> QED
    BY <2>1
<1>5. ASSUME NEW r \in Repos, Repository(r)
      PROVE  UrlInv'
  <2>1. CASE BeginRepositoryPass(r)
    BY <2>1 DEF BeginRepositoryPass, IdlePass, objects
  <2>2. CASE RepositorySynced
    BY <2>2 DEF RepositorySynced, TypeOK, RepositoryPass
  <2>3. CASE RepositoryFails
    BY <2>3 DEF RepositoryFails, TypeOK, RepositoryPass
  <2>4. CASE UpdateRepositoryStatus
    <3>1. \A p \in Pkgs : /\ git[p].url => git'[p].url
                          /\ git'[p].url => git'[p].start # 0 /\ p \in gitea
      BY <2>4 DEF UpdateRepositoryStatus, AfterStatus, TypeOK, Object, Repos
    <3> QED
      BY <2>4, <3>1 DEF UpdateRepositoryStatus, TypeOK, RepositoryPass
  <2>5. CASE AnnotateRepository
    <3>1. \A p \in Pkgs : git'[p].url = git[p].url /\ git'[p].start = git[p].start
      BY <2>5 DEF AnnotateRepository, TypeOK, Object, Repos
    <3> QED
      BY <2>5, <3>1 DEF AnnotateRepository, IdlePass
  <2> QED
    BY <1>5, <2>1, <2>2, <2>3, <2>4, <2>5 DEF Repository
<1>6. ASSUME NEW p \in Pkgs, Package(p)
      PROVE  UrlInv'
  <2>1. CASE BeginPackagePass(p)
    BY <2>1 DEF BeginPackagePass, IdlePass, objects
  <2>2. CASE ReconcileSource
    <3>1. \A q \in Pkgs : /\ git'[q].url = git[q].url
                          /\ git[q].start # 0 => git'[q].start = git[q].start
      BY <2>2 DEF ReconcileSource, TypeOK, Object, Repos
    <3>2. pkgp'.name = pkgp.name /\ (pkgp'.synced => seen.git[pkgp.name].url)
      BY <2>2 DEF ReconcileSource, TypeOK, PackagePass
    <3> QED
      BY <2>2, <3>1, <3>2 DEF ReconcileSource
  <2>3. CASE PackageFails
    BY <2>3 DEF PackageFails, objects, TypeOK, PackagePass
  <2>4. CASE UpdatePackageStatus
    <3>1. \A q \in Pkgs : pkg'[q].synced => pkg[q].synced \/ (q = pkgp.name /\ pkgp.synced)
      BY <2>4 DEF UpdatePackageStatus, AfterStatus, TypeOK, Object
    <3> QED
      BY <2>4, <3>1 DEF UpdatePackageStatus, TypeOK, PackagePass
  <2>5. CASE AnnotatePackage
    <3>1. \A q \in Pkgs : pkg'[q].synced = pkg[q].synced
      BY <2>5 DEF AnnotatePackage, TypeOK, Object
    <3> QED
      BY <2>5, <3>1 DEF AnnotatePackage, IdlePass
  <2>6. CASE AnnotatePackageFails
    BY <2>6 DEF AnnotatePackageFails, IdlePass, objects
  <2> QED
    BY <1>6, <2>1, <2>2, <2>3, <2>4, <2>5, <2>6 DEF Package
<1> QED
  BY <1>1, <1>2, <1>3, <1>4, <1>5, <1>6 DEF Next, Stopped

(* In every environment, with trailing caches, lost annotations and passes *)
(* that fail, a package that is ready has the repository of its source,    *)
(* with its URL.                                                           *)
THEOREM ReadyHasSource == Spec => []ReadyPackageHasRepository
<1>1. Init => UrlInv
  BY DEF Init, UrlInv, Missing, IdlePass, Server, Repos
<1>2. TypeOK /\ UrlInv /\ [Next]_vars => UrlInv'
  BY UrlStep
<1>3. UrlInv => ReadyPackageHasRepository
  BY DEF UrlInv, ReadyPackageHasRepository
<1> QED
  BY <1>1, <1>2, <1>3, TypeCorrect, PTL DEF Spec

----------------------------------------------------------------------------
(* Start times *)

(* The start times of the objects, and of what caches and workers hold of  *)
(* them, are those of this or of earlier invocations.                      *)
StampInv ==
  /\ run # 0
  /\ \A r \in Repos : /\ git[r].start <= run /\ git[r].observed <= run
                       /\ seen.git[r].start <= run /\ seen.git[r].observed <= run
  /\ \A p \in Pkgs : /\ pkg[p].start <= run /\ pkg[p].observed <= run
                      /\ seen.pkg[p].start <= run /\ seen.pkg[p].observed <= run
  /\ gitp.read.start <= run /\ pkgp.read.start <= run
  /\ lb.start <= run /\ seen.lb.start <= run /\ lbp.start <= run

(* No object bears the start time of this invocation, wherever one looks. *)
NoneStamped ==
  /\ \A r \in Repos : git[r].start # run /\ seen.git[r].start # run
  /\ \A p \in Pkgs : pkg[p].start # run /\ seen.pkg[p].start # run
  /\ gitp.read.start # run /\ pkgp.read.start # run

(* A manager that starts early works with the Localbuild of an earlier     *)
(* invocation, but not any more once an object was stamped in this one.    *)
FreshInv ==
  /\ seen.lb.start = run => lb.start = run
  /\ lbp.pc # "idle" /\ lbp.start = run => seen.lb.start = run
  /\ \/ seen.lb.start = run /\ (lbp.pc # "idle" => lbp.start = run)
     \/ NoneStamped

(* No step leaves the scenario. *)
LEMMA ScenarioKept == [Next]_vars => scenario' = scenario
<1> SUFFICES ASSUME [Next]_vars PROVE scenario' = scenario
  OBVIOUS
<1> USE DEF session
<1>1. CASE \/ WriteLocalbuild \/ NextRun
           \/ \E kind \in Kinds : Deliver(kind)
           \/ \E c \in Core : ArgoReports(c)
  BY <1>1 DEF WriteLocalbuild, NextRun, Deliver, ArgoReports
<1>2. CASE Localbuild
  BY <1>2 DEF Localbuild, BeginLocalbuild, EmbeddedAppsDone, CustomPackagesDone,
     ReconcileGitRepo, ReconcileEmbeddedApp, ReconcileCustomPkg, ReconcileCustomPkgFails,
     CheckApplications, CheckRepositories, CheckPackages, CheckThen, ShutDown
<1>3. CASE \E r \in Repos : Repository(r)
  BY <1>3 DEF Repository, BeginRepositoryPass, RepositorySynced, RepositoryFails,
     UpdateRepositoryStatus, AnnotateRepository
<1>4. CASE \E p \in Pkgs : Package(p)
  BY <1>4 DEF Package, BeginPackagePass, ReconcileSource, PackageFails,
     UpdatePackageStatus, AnnotatePackage, AnnotatePackageFails
<1>5. CASE Stopped \/ UNCHANGED vars
  BY <1>5 DEF Stopped, vars
<1> QED
  BY <1>1, <1>2, <1>3, <1>4, <1>5 DEF Next


(* An object after a step of the Localbuild worker: as it was, or stamped  *)
(* with the start time of its pass, which it did not bear.                 *)
Restamped(old, new) ==
  new # old => /\ lbp.pc # "idle" /\ old.start # lbp.start /\ new.start = lbp.start
               /\ new.observed = old.observed /\ new.synced = old.synced /\ new.url = old.url

(* Its pass ends, goes on with its start time, or begins with that of the  *)
(* Localbuild it has seen.                                                 *)
PassGoesOn ==
  \/ lbp'.pc = "idle" /\ lbp'.start = 0
  \/ lbp.pc # "idle" /\ lbp'.start = lbp.start
  \/ lbp.pc = "idle" /\ lbp'.start = seen.lb.start

(* The Localbuild worker stamps objects and does nothing else to them. *)
LEMMA LocalbuildEffect ==
  ASSUME TypeOK, Localbuild
  PROVE  /\ UNCHANGED <<run, lb, gitea, seen, gitp, pkgp, pushed, done>>
         /\ \A r \in Repos : Restamped(git[r], git'[r])
         /\ \A p \in Pkgs : git'[p] = git[p] /\ Restamped(pkg[p], pkg'[p])
         /\ PassGoesOn
<1> USE DEF session, objects, workers, history, IdleLocalbuild
<1>1. ASSUME NEW c \in Core, ReconcileGitRepo(c)
      PROVE  \A r \in Repos : Restamped(git[r], git'[r]) /\ (r \in Pkgs => git'[r] = git[r])
  <2>1. c \in Repos /\ c \notin Pkgs
    BY NamesDiffer DEF Repos
  <2> QED
    BY <1>1, <2>1 DEF ReconcileGitRepo, WriteFails, Restamped, TypeOK, Object
<1>2. ASSUME NEW p \in Pkgs, ReconcileCustomPkg(p)
      PROVE  \A q \in Pkgs : Restamped(pkg[q], pkg'[q])
  BY <1>2 DEF ReconcileCustomPkg, WriteFails, Restamped, TypeOK, Object
<1>3. UNCHANGED <<run, lb, gitea, seen, gitp, pkgp, pushed, done>>
  BY DEF Localbuild, BeginLocalbuild, EmbeddedAppsDone, CustomPackagesDone, ReconcileGitRepo,
     ReconcileEmbeddedApp, ReconcileCustomPkg, ReconcileCustomPkgFails, CheckApplications,
     CheckRepositories, CheckPackages, CheckThen, ShutDown
<1>6. PassGoesOn
  <2> USE DEF TypeOK, LocalbuildPass, PassGoesOn
  <2>1. CASE BeginLocalbuild
    BY <2>1 DEF BeginLocalbuild
  <2>2. CASE EmbeddedAppsDone \/ CustomPackagesDone
    BY <2>2 DEF EmbeddedAppsDone, CustomPackagesDone
  <2>3. ASSUME NEW c \in Core, ReconcileGitRepo(c)
        PROVE  PassGoesOn
    <3>1. lbp' = IdleLocalbuild \/ lbp' = [lbp EXCEPT !.core = @ \ {c}, !.item = c, !.url = seen.git[c].url]
      BY <2>3 DEF ReconcileGitRepo
    <3>2. CASE lbp' = IdleLocalbuild
      BY <3>2
    <3>3. CASE lbp' = [lbp EXCEPT !.core = @ \ {c}, !.item = c, !.url = seen.git[c].url]
      <4>1. lbp'.start = lbp.start
        BY <3>3
      <4> QED
        BY <2>3, <4>1 DEF ReconcileGitRepo
    <3> QED
      BY <3>1, <3>2, <3>3
  <2>4. CASE \E p \in Pkgs : ReconcileCustomPkg(p) \/ ReconcileCustomPkgFails(p)
    BY <2>4 DEF ReconcileCustomPkg, ReconcileCustomPkgFails
  <2>5. CASE CheckApplications \/ CheckRepositories \/ CheckPackages \/ ShutDown
    BY <2>5 DEF CheckApplications, CheckRepositories, CheckPackages, CheckThen, ShutDown
  <2>6. ASSUME NEW c \in Core, ReconcileEmbeddedApp(c)
        PROVE  PassGoesOn
    <3>1. lbp' = IdleLocalbuild \/ lbp' = [lbp EXCEPT !.item = None, !.url = FALSE]
      BY <2>6 DEF ReconcileEmbeddedApp
    <3>2. CASE lbp' = IdleLocalbuild
      BY <3>2
    <3>3. CASE lbp' = [lbp EXCEPT !.item = None, !.url = FALSE]
      <4>1. lbp'.start = lbp.start
        BY <3>3
      <4> QED
        BY <2>6, <4>1 DEF ReconcileEmbeddedApp
    <3> QED
      BY <3>1, <3>2, <3>3
  <2> QED
    BY <2>1, <2>2, <2>3, <2>4, <2>5, <2>6 DEF Localbuild
<1>4. \/ git' = git
      \/ \E c \in Core : ReconcileGitRepo(c)
  BY DEF Localbuild, BeginLocalbuild, EmbeddedAppsDone, CustomPackagesDone,
     ReconcileEmbeddedApp, ReconcileCustomPkg, ReconcileCustomPkgFails, CheckApplications,
     CheckRepositories, CheckPackages, CheckThen, ShutDown
<1>5. \/ pkg' = pkg
      \/ \E p \in Pkgs : ReconcileCustomPkg(p)
  BY DEF Localbuild, BeginLocalbuild, EmbeddedAppsDone, CustomPackagesDone, ReconcileGitRepo,
     ReconcileEmbeddedApp, ReconcileCustomPkgFails, CheckApplications,
     CheckRepositories, CheckPackages, CheckThen, ShutDown
<1> QED
  BY <1>1, <1>2, <1>3, <1>4, <1>5, <1>6 DEF Restamped, Repos

(* What the source of a package does to the repositories: at most, it      *)
(* creates the one of its own name, without a URL.                         *)
LEMMA SourceEffect ==
  ASSUME TypeOK, pkgp.name \in Pkgs, ReconcileSource
  PROVE  /\ UNCHANGED <<run, lb, gitea, seen, lbp, gitp, pkg, pushed>>
         /\ \A r \in Repos :
              /\ git'[r].observed = git[r].observed /\ git'[r].synced = git[r].synced
              /\ git'[r].url = git[r].url /\ git'[r].start \in {git[r].start, pkgp.read.start}
              /\ git[r].start # 0 => git'[r] = git[r]
         /\ pkgp'.pc = "status" /\ pkgp'.name = pkgp.name /\ pkgp'.read = pkgp.read
         /\ pkgp'.synced <=> (seen.git[pkgp.name].start # 0 /\ seen.git[pkgp.name].url)
         /\ done' = IF pkgp'.synced THEN done \cup {pkgp.name} ELSE done
<1>1. pkgp.name \in Repos
  BY DEF Repos
<1>2. git' = git \/ (git[pkgp.name].start = 0 /\
                     git' = [git EXCEPT ![pkgp.name].start = pkgp.read.start])
  BY DEF ReconcileSource
<1>3. \A r \in Repos :
        /\ git'[r].observed = git[r].observed /\ git'[r].synced = git[r].synced
        /\ git'[r].url = git[r].url /\ git'[r].start \in {git[r].start, pkgp.read.start}
        /\ git[r].start # 0 => git'[r] = git[r]
  BY <1>1, <1>2 DEF TypeOK, Object
<1> QED
  BY <1>3 DEF ReconcileSource, TypeOK, PackagePass, session

(* One end of the work of a GitRepository pass: the content is pushed. *)
LEMMA PushedPass ==
  ASSUME TypeOK, RepositorySynced
  PROVE  /\ gitp'.pc = "status" /\ gitp'.name = gitp.name /\ gitp'.read = gitp.read
         /\ gitp'.synced /\ (gitp'.url <=> gitp.name \in gitea)
<1>1. PICK u : u = (gitp.name \in gitea)
  OBVIOUS
<1>2. gitp' = [gitp EXCEPT !.pc = "status", !.synced = TRUE, !.url = u]
  BY <1>1 DEF RepositorySynced
<1>3. /\ gitp'.pc = "status" /\ gitp'.name = gitp.name /\ gitp'.read = gitp.read
      /\ gitp'.synced = TRUE /\ gitp'.url = u
  BY <1>2 DEF TypeOK, RepositoryPass
<1> QED
  BY <1>1, <1>3

(* The other end: an error, which leaves what the pass has read. *)
LEMMA FailedPass ==
  ASSUME TypeOK, RepositoryFails
  PROVE  /\ gitp'.pc = "status" /\ gitp'.name = gitp.name /\ gitp'.read = gitp.read
         /\ gitp'.synced = gitp.synced /\ gitp'.url = gitp.url
  BY DEF RepositoryFails, TypeOK, RepositoryPass

(* Every step keeps the bound on the start times. *)
LEMMA StampStep ==
  ASSUME TypeOK, StampInv, [Next]_vars
  PROVE  StampInv'
<1> USE DEF StampInv
<1>1. CASE WriteLocalbuild \/ UNCHANGED vars \/ \E c \in Core : ArgoReports(c)
  BY <1>1 DEF WriteLocalbuild, ArgoReports, vars, workers, history, session, objects, TypeOK
<1>2. CASE NextRun
  <2>1. \A n \in Nat : n <= run => n <= run'
    BY <1>2 DEF NextRun, TypeOK
  <2> QED
    BY <1>2, <2>1 DEF NextRun, objects, Server, IdlePass, IdleLocalbuild, Missing, TypeOK, Object
<1>3. ASSUME NEW kind \in Kinds, Deliver(kind)
      PROVE  StampInv'
  <2>1. seen'.git \in {seen.git, git} /\ seen'.pkg \in {seen.pkg, pkg} /\ seen'.lb \in {seen.lb, lb}
    BY <1>3 DEF Deliver, Server, Kinds, TypeOK
  <2> QED
    BY <1>3, <2>1 DEF Deliver, workers, objects, session
<1>4. CASE Localbuild
  BY <1>4, LocalbuildEffect DEF Restamped, PassGoesOn, TypeOK
<1>5. ASSUME NEW r \in Repos, Repository(r)
      PROVE  StampInv'
  <2>1. CASE BeginRepositoryPass(r)
    BY <2>1 DEF BeginRepositoryPass, IdlePass, objects, session
  <2>2. CASE RepositorySynced \/ RepositoryFails
    <3>1. gitp'.read = gitp.read
      BY <2>2, PushedPass, FailedPass
    <3> QED
      BY <2>2, <3>1 DEF RepositorySynced, RepositoryFails, session
  <2>3. CASE UpdateRepositoryStatus
    <3>1. \A q \in Repos : git'[q].start = git[q].start /\ git'[q].observed = git[q].observed
      BY <2>3 DEF UpdateRepositoryStatus, AfterStatus, TypeOK, Object
    <3> QED
      BY <2>3, <3>1 DEF UpdateRepositoryStatus, session, TypeOK, RepositoryPass
  <2>4. CASE AnnotateRepository
    <3>1. \A q \in Repos : /\ git'[q].start = git[q].start
                           /\ git'[q].observed \in {git[q].observed, gitp.read.start}
      BY <2>4 DEF AnnotateRepository, TypeOK, Object
    <3> QED
      BY <2>4, <3>1 DEF AnnotateRepository, session, IdlePass, Missing, TypeOK
  <2> QED
    BY <1>5, <2>1, <2>2, <2>3, <2>4 DEF Repository
<1>6. ASSUME NEW p \in Pkgs, Package(p)
      PROVE  StampInv'
  <2>1. CASE BeginPackagePass(p)
    BY <2>1 DEF BeginPackagePass, IdlePass, objects, session
  <2>2. CASE pkgp.name \in Pkgs /\ ReconcileSource
    BY <2>2, SourceEffect
  <2>3. CASE PackageFails
    BY <2>3 DEF PackageFails, objects, session, TypeOK, PackagePass
  <2>4. CASE UpdatePackageStatus
    <3>1. \A q \in Pkgs : pkg'[q].start = pkg[q].start /\ pkg'[q].observed = pkg[q].observed
      BY <2>4 DEF UpdatePackageStatus, AfterStatus, TypeOK, Object
    <3> QED
      BY <2>4, <3>1 DEF UpdatePackageStatus, session, TypeOK, PackagePass
  <2>5. CASE AnnotatePackage
    <3>1. \A q \in Pkgs : /\ pkg'[q].start = pkg[q].start
                          /\ pkg'[q].observed \in {pkg[q].observed, pkgp.read.start}
      BY <2>5 DEF AnnotatePackage, TypeOK, Object
    <3> QED
      BY <2>5, <3>1 DEF AnnotatePackage, session, IdlePass, Missing, TypeOK
  <2>6. CASE AnnotatePackageFails
    BY <2>6 DEF AnnotatePackageFails, IdlePass, Missing, objects, session, TypeOK
  <2> QED
    BY <1>6, <2>1, <2>2, <2>3, <2>4, <2>5, <2>6 DEF Package
<1> QED
  BY <1>1, <1>2, <1>3, <1>4, <1>5, <1>6 DEF Next, Stopped

(* What was stamped in this invocation keeps the worker in it. *)
LEMMA FreshStep ==
  ASSUME TypeOK, StampInv, FreshInv, [Next]_vars
  PROVE  FreshInv'
<1> USE DEF FreshInv, NoneStamped
<1>1. CASE WriteLocalbuild \/ UNCHANGED vars \/ \E c \in Core : ArgoReports(c)
  BY <1>1 DEF WriteLocalbuild, ArgoReports, vars, workers, history, session, objects, TypeOK
<1>2. CASE NextRun
  <2>1. run' # 0 /\ \A n \in Nat : n <= run => n # run'
    BY <1>2 DEF NextRun, TypeOK
  <2>2. NoneStamped'
    BY <1>2, <2>1 DEF NextRun, objects, Server, IdlePass, Missing, TypeOK, Object, StampInv
  <2> QED
    BY <1>2, <2>2 DEF NextRun, objects, Server, IdleLocalbuild
<1>3. ASSUME NEW kind \in Kinds, Deliver(kind)
      PROVE  FreshInv'
  <2>1. seen'.git \in {seen.git, git} /\ seen'.pkg \in {seen.pkg, pkg} /\ seen'.lb \in {seen.lb, lb}
    BY <1>3 DEF Deliver, Server, Kinds, TypeOK
  <2> QED
    BY <1>3, <2>1 DEF Deliver, workers, objects, session
<1>4. CASE Localbuild
  <2>1. CASE seen.lb.start = run /\ (lbp.pc # "idle" => lbp.start = run)
    BY <1>4, <2>1, LocalbuildEffect DEF PassGoesOn
  <2>2. CASE NoneStamped /\ ~(seen.lb.start = run /\ (lbp.pc # "idle" => lbp.start = run))
    BY <1>4, <2>2, LocalbuildEffect DEF PassGoesOn, Restamped, StampInv
  <2> QED
    BY <2>1, <2>2
<1>5. ASSUME NEW r \in Repos, Repository(r)
      PROVE  FreshInv'
  <2>1. CASE BeginRepositoryPass(r)
    BY <2>1 DEF BeginRepositoryPass, IdlePass, objects, session
  <2>2. CASE RepositorySynced \/ RepositoryFails
    <3>1. gitp'.read = gitp.read
      BY <2>2, PushedPass, FailedPass
    <3> QED
      BY <2>2, <3>1 DEF RepositorySynced, RepositoryFails, session
  <2>3. CASE UpdateRepositoryStatus
    <3>1. \A q \in Repos : git'[q].start = git[q].start
      BY <2>3 DEF UpdateRepositoryStatus, AfterStatus, TypeOK, Object
    <3> QED
      BY <2>3, <3>1 DEF UpdateRepositoryStatus, session, TypeOK, RepositoryPass
  <2>4. CASE AnnotateRepository
    <3>1. \A q \in Repos : git'[q].start = git[q].start
      BY <2>4 DEF AnnotateRepository, TypeOK, Object
    <3> QED
      BY <2>4, <3>1 DEF AnnotateRepository, session, IdlePass, Missing, TypeOK, StampInv
  <2> QED
    BY <1>5, <2>1, <2>2, <2>3, <2>4 DEF Repository
<1>6. ASSUME NEW p \in Pkgs, Package(p)
      PROVE  FreshInv'
  <2>1. CASE BeginPackagePass(p)
    BY <2>1 DEF BeginPackagePass, IdlePass, objects, session
  <2>2. CASE pkgp.name \in Pkgs /\ ReconcileSource
    BY <2>2, SourceEffect
  <2>3. CASE PackageFails
    BY <2>3 DEF PackageFails, objects, session, TypeOK, PackagePass
  <2>4. CASE UpdatePackageStatus
    <3>1. \A q \in Pkgs : pkg'[q].start = pkg[q].start
      BY <2>4 DEF UpdatePackageStatus, AfterStatus, TypeOK, Object
    <3> QED
      BY <2>4, <3>1 DEF UpdatePackageStatus, session, TypeOK, PackagePass
  <2>5. CASE AnnotatePackage
    <3>1. \A q \in Pkgs : pkg'[q].start = pkg[q].start
      BY <2>5 DEF AnnotatePackage, TypeOK, Object
    <3> QED
      BY <2>5, <3>1 DEF AnnotatePackage, session, IdlePass, Missing, TypeOK, StampInv
  <2>6. CASE AnnotatePackageFails
    BY <2>6 DEF AnnotatePackageFails, IdlePass, Missing, objects, session, TypeOK, StampInv
  <2> QED
    BY <1>6, <2>1, <2>2, <2>3, <2>4, <2>5, <2>6 DEF Package
<1> QED
  BY <1>1, <1>2, <1>3, <1>4, <1>5, <1>6 DEF Next, Stopped

----------------------------------------------------------------------------
(* Reports of repositories *)

(* What a pass of the GitRepository worker has pushed. *)
PushInv ==
  /\ gitp.pc # "idle" => gitp.name \in Repos
  /\ gitp.pc \in {"idle", "reconcile"} => ~gitp.synced
  /\ gitp.synced => gitp.name \in pushed

(* Where no pass fails, one that has read this invocation has pushed.      *)
UnfailingInv ==
  Faultless({"repoerr"}) =>
    /\ gitp.pc \in {"status", "annotate"} => gitp.name \in pushed
    /\ \A r \in Repos : git[r].observed = run \/ seen.git[r].observed = run => r \in pushed

(* Where caches do not trail, a pass that has read this invocation writes  *)
(* its status to the object it has read, so no older report survives.      *)
CurrentInv ==
  Faultless({"lag"}) =>
    /\ \A r \in Repos : git[r].synced /\ git[r].observed = run => r \in pushed
    /\ gitp.pc \in {"reconcile", "status"} /\ gitp.read.start = run => git[gitp.name] = gitp.read
    /\ gitp.pc = "annotate" /\ gitp.read.start = run /\ git[gitp.name].synced
         => gitp.name \in pushed

(* In the first invocation there is no older report.                       *)
FirstInv ==
  run = 1 => \A r \in Repos : git[r].synced \/ seen.git[r].synced => r \in pushed

RepositoryInv == PushInv /\ UnfailingInv /\ CurrentInv /\ FirstInv

(* Whatever bears this invocation in a report is earned. *)
LEMMA RepositoryStep ==
  ASSUME TypeOK, StampInv, FreshInv, RepositoryInv, [Next]_vars
  PROVE  RepositoryInv'
<1>0. scenario' = scenario
  BY ScenarioKept
<1> USE <1>0 DEF RepositoryInv, PushInv, UnfailingInv, CurrentInv, FirstInv, Faultless
<1>1. CASE WriteLocalbuild \/ UNCHANGED vars \/ \E c \in Core : ArgoReports(c)
  BY <1>1 DEF WriteLocalbuild, ArgoReports, vars, workers, history, session, objects, TypeOK
<1>2. CASE NextRun
  <2>1. run' # 1 /\ run' # 0 /\ \A n \in Nat : n <= run => n # run'
    <3>1. run \in Nat /\ run # 0 /\ run' = run + 1
      BY <1>2 DEF NextRun, TypeOK, StampInv
    <3> QED
      BY ONLY <3>1
  <2>2. \A r \in Repos : git'[r].observed # run' /\ seen'.git[r].observed # run'
    BY <1>2, <2>1 DEF NextRun, objects, Server, TypeOK, Object, StampInv
  <2>3. gitp'.pc = "idle" /\ ~gitp'.synced
    BY <1>2 DEF NextRun, IdlePass
  <2> QED
    BY <2>1, <2>2, <2>3
<1>3. ASSUME NEW kind \in Kinds, Deliver(kind)
      PROVE  RepositoryInv'
  <2>1. seen'.git \in {seen.git, git}
    BY <1>3 DEF Deliver, Server, Kinds, TypeOK
  <2> QED
    BY <1>3, <2>1 DEF Deliver, workers, objects, session, history
<1>4. CASE Localbuild
  <2>1. UNCHANGED <<run, seen, gitp, pushed>>
    BY <1>4, LocalbuildEffect
  <2>2. \A r \in Repos : git'[r].synced = git[r].synced /\ git'[r].observed = git[r].observed
    BY <1>4, LocalbuildEffect DEF Restamped
  <2>3. gitp.read.start = run => \A r \in Repos : git[r].start = run => git'[r] = git[r]
    BY <1>4, LocalbuildEffect DEF Restamped, FreshInv, NoneStamped
  <2>4. gitp.pc # "idle" => gitp.name \in Repos
    OBVIOUS
  <2> QED
    BY <2>1, <2>2, <2>3, <2>4
<1>5. ASSUME NEW r \in Repos, Repository(r)
      PROVE  RepositoryInv'
  <2> USE DEF session
  <2>1. CASE BeginRepositoryPass(r)
    <3>1. Faultless({"lag"}) => seen.git = git
      BY <2>1 DEF BeginRepositoryPass, MayWork, UpToDate, Server
    <3> QED
      BY <2>1, <3>1 DEF BeginRepositoryPass, IdlePass, objects, history
  <2>2. CASE RepositorySynced
    BY <1>5, <2>2 DEF RepositorySynced, TypeOK, RepositoryPass
  <2>3. CASE RepositoryFails
    BY <1>5, <2>3 DEF RepositoryFails, MayInject, history, TypeOK, RepositoryPass
  <2>4. CASE UpdateRepositoryStatus /\ gitp.name = r
    <3>1. \A q \in Repos : git'[q].observed = git[q].observed /\ git'[q].start = git[q].start
      BY <2>4 DEF UpdateRepositoryStatus, AfterStatus, TypeOK, Object
    <3>2. \A q \in Repos : git'[q].synced => git[q].synced \/ (q = r /\ gitp.synced)
      BY <2>4 DEF UpdateRepositoryStatus, AfterStatus, TypeOK, Object
    <3>3. git[r] = gitp.read /\ git'[r].synced => gitp.synced
      BY <2>4 DEF UpdateRepositoryStatus, AfterStatus, TypeOK, Object
    <3> QED
      BY <2>4, <3>1, <3>2, <3>3 DEF UpdateRepositoryStatus, history, TypeOK, RepositoryPass
  <2>5. CASE AnnotateRepository /\ gitp.name = r
    <3>1. \A q \in Repos : /\ git'[q].synced = git[q].synced
                           /\ git'[q].observed = IF q = r THEN gitp.read.start ELSE git[q].observed
      BY <2>5 DEF AnnotateRepository, TypeOK, Object
    <3> QED
      BY <2>5, <3>1 DEF AnnotateRepository, history, IdlePass
  <2> QED
    BY <1>5, <2>1, <2>2, <2>3, <2>4, <2>5 DEF Repository
<1>6. ASSUME NEW p \in Pkgs, Package(p)
      PROVE  RepositoryInv'
  <2>1. CASE \/ BeginPackagePass(p) \/ PackageFails \/ UpdatePackageStatus
             \/ AnnotatePackage \/ AnnotatePackageFails
    BY <2>1 DEF BeginPackagePass, PackageFails, UpdatePackageStatus, AnnotatePackage,
       AnnotatePackageFails, objects, session, history
  <2>2. CASE pkgp.name \in Pkgs /\ ReconcileSource
    <3>1. UNCHANGED <<run, seen, gitp, pushed>>
      BY <2>2, SourceEffect
    <3>2. \A r \in Repos : git'[r].synced = git[r].synced /\ git'[r].observed = git[r].observed
      BY <2>2, SourceEffect
    <3>3. run # 0 /\ \A r \in Repos : git[r].start = run => git'[r] = git[r]
      BY <2>2, SourceEffect DEF StampInv
    <3> QED
      BY <3>1, <3>2, <3>3
  <2> QED
    BY <1>6, <2>1, <2>2 DEF Package
<1> QED
  BY <1>1, <1>2, <1>3, <1>4, <1>5, <1>6 DEF Next, Stopped

----------------------------------------------------------------------------
(* Reports of packages *)

(* A package repository keeps its start time, and one of this invocation   *)
(* that has its URL was pushed.                                            *)
MadeInv ==
  /\ \A p \in Pkgs : seen.git[p].start # 0 => git[p].start # 0
  /\ \A p \in Pkgs : git[p].url /\ git[p].start = run => p \in pushed
  /\ gitp.pc # "idle" /\ gitp.name \in Pkgs =>
       /\ git[gitp.name].start # 0
       /\ gitp.url /\ git[gitp.name].start = run => gitp.name \in pushed

(* The cache shows the repository of the package with its URL. *)
Shown(p) == seen.git[p].start # 0 /\ seen.git[p].url

(* A report of an earlier invocation cannot mislead this one, since the    *)
(* repository it stands for is in the cache from the start.                *)
ShownInv ==
  /\ \A p \in done : git[p].url
  /\ \A p \in Pkgs : pkg[p].synced \/ seen.pkg[p].synced => p \in done \/ Shown(p)
  /\ pkgp.pc # "idle" /\ pkgp.synced => pkgp.name \in done \/ Shown(pkgp.name)

(* Where no pass fails, every pass works the status out again.             *)
UnfailingPackageInv ==
  Faultless({"pkgerr"}) =>
    /\ pkgp.pc \in {"status", "annotate"} /\ (pkgp.synced \/ pkg[pkgp.name].synced)
         => pkgp.name \in done
    /\ \A p \in Pkgs : \/ pkg[p].synced /\ pkg[p].observed = run
                       \/ seen.pkg[p].synced /\ seen.pkg[p].observed = run
                       => p \in done

(* In the first invocation every status is one of this invocation.         *)
FirstPackageInv ==
  run = 1 =>
    /\ \A p \in Pkgs : pkg[p].synced \/ seen.pkg[p].synced => p \in done
    /\ pkgp.pc # "idle" /\ pkgp.synced => pkgp.name \in done

PackageInv == MadeInv /\ ShownInv /\ UnfailingPackageInv /\ FirstPackageInv

(* A package that bears this invocation in a report was processed in it,   *)
(* and its repository, if it is of this invocation, was pushed.            *)
LEMMA PackageStep ==
  ASSUME TypeOK, UrlInv, StampInv, PackageInv, [Next]_vars
  PROVE  PackageInv'
<1>0. scenario' = scenario
  BY ScenarioKept
<1> USE <1>0 DEF PackageInv, MadeInv, Shown, ShownInv, UnfailingPackageInv, FirstPackageInv, Faultless
<1>1. CASE WriteLocalbuild \/ UNCHANGED vars \/ \E c \in Core : ArgoReports(c)
  BY <1>1 DEF WriteLocalbuild, ArgoReports, vars, workers, history, session, objects, TypeOK
<1>2. CASE NextRun
  <2>1. run' # 1 /\ run' # 0 /\ \A n \in Nat : n <= run => n # run'
    <3>1. run \in Nat /\ run # 0 /\ run' = run + 1
      BY <1>2 DEF NextRun, TypeOK, StampInv
    <3> QED
      BY ONLY <3>1
  <2>2. \A p \in Pkgs : /\ pkg'[p].observed # run' /\ seen'.pkg[p].observed # run'
                        /\ git'[p].start # run'
    BY <1>2, <2>1 DEF NextRun, objects, Server, TypeOK, Object, StampInv, Repos
  <2>3. gitp'.pc = "idle" /\ pkgp'.pc = "idle" /\ done' = {}
    BY <1>2 DEF NextRun, IdlePass
  <2>4. \A p \in Pkgs : pkg'[p].synced \/ seen'.pkg[p].synced => Shown(p)'
    BY <1>2 DEF NextRun, objects, Server, UrlInv
  <2>5. \A p \in Pkgs : seen'.git[p] = git'[p]
    BY <1>2 DEF NextRun, objects, Server
  <2> QED
    BY <2>1, <2>2, <2>3, <2>4, <2>5
<1>3. ASSUME NEW kind \in Kinds, Deliver(kind)
      PROVE  PackageInv'
  <2>1. seen'.git \in {seen.git, git} /\ seen'.pkg \in {seen.pkg, pkg}
    BY <1>3 DEF Deliver, Server, Kinds, TypeOK
  <2>2. \A p \in Pkgs : Shown(p) => Shown(p)'
    BY <2>1 DEF UrlInv
  <2>3. UNCHANGED <<run, git, pkg, gitp, pkgp, pushed, done>>
    BY <1>3 DEF Deliver, workers, objects, session, history
  <2> HIDE DEF Shown
  <2> QED
    BY <2>1, <2>2, <2>3 DEF UrlInv
<1>4. CASE Localbuild
  <2>1. UNCHANGED <<run, seen, gitp, pkgp, pushed, done>> /\ \A p \in Pkgs : git'[p] = git[p]
    BY <1>4, LocalbuildEffect
  <2>2. \A p \in Pkgs : pkg'[p].synced = pkg[p].synced /\ pkg'[p].observed = pkg[p].observed
    BY <1>4, LocalbuildEffect DEF Restamped
  <2>3. done \subseteq Pkgs /\ (pkgp.pc # "idle" => pkgp.name \in Pkgs)
    BY DEF TypeOK, UrlInv
  <2> QED
    BY <2>1, <2>2, <2>3
<1>5. ASSUME NEW r \in Repos, Repository(r)
      PROVE  PackageInv'
  <2>0. UNCHANGED <<run, pkg, pkgp, seen, done>> /\ done \subseteq Pkgs
    BY <1>5 DEF Repository, BeginRepositoryPass, RepositorySynced, RepositoryFails,
       UpdateRepositoryStatus, AnnotateRepository, session, objects, history, TypeOK
  <2>1. CASE BeginRepositoryPass(r)
    BY <2>0, <2>1 DEF BeginRepositoryPass, IdlePass, objects, history, UrlInv
  <2>2. CASE RepositorySynced
    BY <2>0, <2>2, PushedPass DEF RepositorySynced
  <2>3. CASE RepositoryFails
    BY <2>0, <2>3, FailedPass DEF RepositoryFails, history
  <2>4. CASE UpdateRepositoryStatus /\ gitp.name = r
    <3>1. \A q \in Repos : /\ git'[q].start = git[q].start
                           /\ git'[q].url => git[q].url \/ (q = r /\ gitp.url)
      BY <2>4 DEF UpdateRepositoryStatus, AfterStatus, TypeOK, Object
    <3>2. \A p \in Pkgs : git[p].url => git'[p].url
      BY <2>4 DEF UpdateRepositoryStatus, AfterStatus, TypeOK, Object, Repos, UrlInv
    <3>3. gitp'.name = gitp.name /\ gitp'.url = gitp.url /\ pushed' = pushed /\ gitp.pc # "idle"
      BY <2>4 DEF UpdateRepositoryStatus, history, TypeOK, RepositoryPass
    <3> QED
      BY <2>0, <2>4, <3>1, <3>2, <3>3 DEF Repos
  <2>5. CASE AnnotateRepository /\ gitp.name = r
    <3>1. \A q \in Repos : git'[q].url = git[q].url /\ git'[q].start = git[q].start
      BY <2>5 DEF AnnotateRepository, TypeOK, Object
    <3> QED
      BY <2>0, <2>5, <3>1 DEF AnnotateRepository, history, IdlePass, Repos
  <2> QED
    BY <1>5, <2>1, <2>2, <2>3, <2>4, <2>5 DEF Repository
<1>6. ASSUME NEW p \in Pkgs, Package(p)
      PROVE  PackageInv'
  <2>1. CASE BeginPackagePass(p)
    BY <2>1 DEF BeginPackagePass, IdlePass, objects, session, history
  <2>2. CASE pkgp.name = p /\ ReconcileSource
    <3>1. UNCHANGED <<run, seen, gitp, pkg, pushed>>
      BY <2>2, SourceEffect
    <3>2. \A q \in Pkgs : /\ git'[q].url = git[q].url
                          /\ git[q].start # 0 => git'[q].start = git[q].start
      BY <2>2, SourceEffect DEF Repos
    <3>3. /\ pkgp'.pc = "status" /\ pkgp'.name = p /\ (pkgp'.synced <=> Shown(p))
          /\ done' = IF pkgp'.synced THEN done \cup {p} ELSE done
      BY <2>2, SourceEffect
    <3>4. done \subseteq Pkgs /\ \A q \in Pkgs : git[q].url => git[q].start # 0
      BY DEF TypeOK, UrlInv
    <3>5. Shown(p) => git[p].url
      BY DEF UrlInv
    <3> QED
      BY <3>1, <3>2, <3>3, <3>4, <3>5
  <2>3. CASE PackageFails /\ pkgp.name = p
    <3>1. pkgp'.pc = "status" /\ pkgp'.name = p /\ pkgp'.synced = pkgp.synced
      BY <2>3 DEF PackageFails, TypeOK, PackagePass
    <3>2. UNCHANGED <<run, git, pkg, seen, gitp, pushed, done>> /\ pkgp.pc # "idle"
      BY <2>3 DEF PackageFails, objects, history, session
    <3>3. "pkgerr" \in scenario.env
      BY <2>3 DEF PackageFails, MayInject
    <3> QED
      BY <2>3, <3>1, <3>2, <3>3
  <2>4. CASE UpdatePackageStatus /\ pkgp.name = p
    <3>1. \A q \in Pkgs : /\ pkg'[q].synced => pkg[q].synced \/ (q = p /\ pkgp.synced)
                          /\ pkg'[q].observed = pkg[q].observed
      BY <2>4 DEF UpdatePackageStatus, AfterStatus, TypeOK, Object
    <3> QED
      BY <2>4, <3>1 DEF UpdatePackageStatus, session, history, TypeOK, PackagePass
  <2>5. CASE AnnotatePackage /\ pkgp.name = p
    <3>1. \A q \in Pkgs : /\ pkg'[q].synced = pkg[q].synced
                          /\ q # p => pkg'[q].observed = pkg[q].observed
      BY <2>5 DEF AnnotatePackage, TypeOK, Object
    <3> QED
      BY <2>5, <3>1 DEF AnnotatePackage, session, history, IdlePass
  <2>6. CASE AnnotatePackageFails
    BY <2>6 DEF AnnotatePackageFails, IdlePass, objects, session, history
  <2> QED
    BY <1>6, <2>1, <2>2, <2>3, <2>4, <2>5, <2>6 DEF Package
<1> QED
  BY <1>1, <1>2, <1>3, <1>4, <1>5, <1>6 DEF Next, Stopped

----------------------------------------------------------------------------
(* A list of the exit check that leads on was found in order. *)
LEMMA ListInOrder ==
  ASSUME TypeOK, [Next]_vars
  PROVE  /\ lbp.pc = "repositories" /\ lbp'.pc = "packages"
              => MayWork /\ \A r \in Repos : RepositoryReady(seen.git[r], lbp.start)
         /\ lbp.pc = "packages" /\ lbp'.pc = "shutdown"
              => \A p \in Pkgs : PackageReady(seen.pkg[p], lbp.start)
<1>1. CASE NextRun
  BY <1>1 DEF NextRun, IdleLocalbuild
<1>2. CASE Localbuild
  <2> USE DEF TypeOK, LocalbuildPass, IdleLocalbuild
  <2>1. CASE BeginLocalbuild \/ EmbeddedAppsDone \/ CustomPackagesDone
    BY <2>1 DEF BeginLocalbuild, EmbeddedAppsDone, CustomPackagesDone
  <2>2. ASSUME NEW c \in Core, ReconcileGitRepo(c) \/ ReconcileEmbeddedApp(c)
        PROVE  lbp.pc = "embedded"
    BY <2>2 DEF ReconcileGitRepo, ReconcileEmbeddedApp
  <2>3. ASSUME NEW p \in Pkgs, ReconcileCustomPkg(p) \/ ReconcileCustomPkgFails(p)
        PROVE  lbp.pc = "custom"
    BY <2>3 DEF ReconcileCustomPkg, ReconcileCustomPkgFails
  <2>4. CASE CheckApplications \/ ShutDown
    BY <2>4 DEF CheckApplications, CheckThen, ShutDown
  <2>5. CASE CheckRepositories
    BY <2>5 DEF CheckRepositories, CheckThen
  <2>6. CASE CheckPackages
    BY <2>6 DEF CheckPackages, CheckThen
  <2> QED
    BY <1>2, <2>1, <2>2, <2>3, <2>4, <2>5, <2>6 DEF Localbuild
<1>3. CASE UNCHANGED lbp
  BY <1>3
<1>4. CASE \/ WriteLocalbuild \/ \E kind \in Kinds : Deliver(kind)
           \/ \E c \in Core : ArgoReports(c)
           \/ \E r \in Repos : Repository(r)
           \/ \E p \in Pkgs : Package(p)
  <2>1. UNCHANGED lbp
    BY <1>4 DEF WriteLocalbuild, Deliver, ArgoReports, workers, Repository, BeginRepositoryPass,
       RepositorySynced, RepositoryFails, UpdateRepositoryStatus, AnnotateRepository,
       Package, BeginPackagePass, ReconcileSource, PackageFails,
       UpdatePackageStatus, AnnotatePackage, AnnotatePackageFails
  <2> QED
    BY <2>1
<1> QED
  BY <1>1, <1>2, <1>3, <1>4 DEF Next, Stopped, vars

(* All the invariants together, in every environment. *)
IInv == TypeOK /\ UrlInv /\ StampInv /\ FreshInv /\ RepositoryInv /\ PackageInv

LEMMA Invariance == Spec => []IInv
<1>1. Init => UrlInv /\ StampInv /\ FreshInv /\ RepositoryInv /\ PackageInv
  BY DEF Init, Missing, IdlePass, IdleLocalbuild, Server, Repos, UrlInv, StampInv, FreshInv,
     NoneStamped, RepositoryInv, PushInv, UnfailingInv, CurrentInv, FirstInv, PackageInv,
     MadeInv, Shown, ShownInv, UnfailingPackageInv, FirstPackageInv
<1>2. IInv /\ [Next]_vars => UrlInv' /\ StampInv' /\ FreshInv' /\ RepositoryInv' /\ PackageInv'
  BY UrlStep, StampStep, FreshStep, RepositoryStep, PackageStep DEF IInv
<1> QED
  BY <1>1, <1>2, TypeCorrect, PTL DEF Spec, IInv

(* What the exit check takes for a repository of this invocation was       *)
(* pushed in it: with caches that trail, with a manager that starts before *)
(* the Localbuild is written, after invocations that were interrupted or   *)
(* failed, and with a failing pass where caches do not trail.              *)
THEOREM RepositoriesEarned == Spec => RepositoriesCounted
<1>1. IInv /\ [Next]_vars =>
        (/\ lbp.pc = "repositories" /\ lbp'.pc = "packages" /\ lbp.start = run
         /\ Faultless({"lag"}) \/ Faultless({"repoerr"}) \/ run = 1
         => \A r \in Repos : seen.git[r].start = run => r \in pushed)
  <2> SUFFICES ASSUME IInv, [Next]_vars, NEW r \in Repos,
                      lbp.pc = "repositories", lbp'.pc = "packages", lbp.start = run,
                      Faultless({"lag"}) \/ Faultless({"repoerr"}) \/ run = 1,
                      seen.git[r].start = run
               PROVE  r \in pushed
    OBVIOUS
  <2>1. seen.git[r].synced /\ seen.git[r].observed = run
    BY ListInOrder DEF IInv, RepositoryReady
  <2>2. CASE Faultless({"repoerr"}) \/ run = 1
    BY <2>1, <2>2 DEF IInv, RepositoryInv, UnfailingInv, FirstInv
  <2>3. CASE Faultless({"lag"})
    <3>1. seen.git = git
      BY <2>3, ListInOrder DEF IInv, MayWork, UpToDate, Faultless, Server
    <3> QED
      BY <2>1, <2>3, <3>1 DEF IInv, RepositoryInv, CurrentInv
  <2> QED
    BY <2>2, <2>3
<1> QED
  BY <1>1, Invariance, PTL DEF Spec, RepositoriesCounted

(* What it takes for a ready package was processed without error in this   *)
(* invocation, and a repository made for it in this invocation was pushed, *)
(* whether or not the list of repositories showed it.                      *)
THEOREM PackagesEarned == Spec => PackagesCounted
<1>1. IInv /\ [Next]_vars =>
        (/\ lbp.pc = "packages" /\ lbp'.pc = "shutdown" /\ lbp.start = run
         /\ Faultless({"pkgerr"}) \/ run = 1
         => \A p \in Pkgs : seen.pkg[p] # Missing =>
              p \in done /\ (git[p].start = run => p \in pushed))
  <2> SUFFICES ASSUME IInv, [Next]_vars, NEW p \in Pkgs,
                      lbp.pc = "packages", lbp'.pc = "shutdown", lbp.start = run,
                      Faultless({"pkgerr"}) \/ run = 1, seen.pkg[p] # Missing
               PROVE  p \in done /\ (git[p].start = run => p \in pushed)
    OBVIOUS
  <2>1. seen.pkg[p].synced /\ seen.pkg[p].observed = run
    BY ListInOrder DEF IInv, PackageReady
  <2>2. p \in done
    BY <2>1 DEF IInv, PackageInv, UnfailingPackageInv, FirstPackageInv
  <2> QED
    BY <2>2 DEF IInv, PackageInv, MadeInv, ShownInv
<1> QED
  BY <1>1, Invariance, PTL DEF Spec, PackagesCounted
=============================================================================
