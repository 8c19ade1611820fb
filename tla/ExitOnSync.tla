----------------------------- MODULE ExitOnSync -----------------------------
(***************************************************************************)
(* When may `idpbuilder create` stop?  build.Run starts the controller     *)
(* manager and only then writes the Localbuild object with its start time  *)
(* and the packages of the command line.  Three workers follow: Localbuild *)
(* stamps the start time on the objects it owns and decides to exit,       *)
(* CustomPackage stamps the repositories of the packages, GitRepository    *)
(* pushes their content (its inside is the module GitRepositorySync).      *)
(*                                                                         *)
(* A run number stands for a cli-start-time; a package has one local       *)
(* source, whose GitRepository bears the name of the package.              *)
(***************************************************************************)
EXTENDS Naturals

CONSTANTS
  Core,         \* the embedded packages: argocd, nginx, gitea
  Pkgs,         \* the custom packages
  Scenarios     \* the environments a behaviour may run in, with their bounds

EnvKinds ==
  { "early",     \* the manager reconciles before the Localbuild of this run is written
    "lag",       \* informer caches trail the API server
    "apierr",    \* writing a CustomPackage fails in a Localbuild pass
    "repoerr",   \* a GitRepository pass fails
    "pkgerr",    \* a CustomPackage pass fails
    "annotate",  \* the API server fails an annotation apply
    "leftover",  \* a run is not given a package that an earlier run was given
    "interrupt" } \* the user stops a run before it exits

ASSUME ScenarioAssumption ==
  /\ Core \cap Pkgs = {} /\ "none" \notin Core \cup Pkgs
  /\ Scenarios \subseteq [env : SUBSET EnvKinds,  \* what may go wrong
                          pkgs : SUBSET Pkgs,     \* what a command line may name
                          runs : Nat,             \* bound: invocations
                          faults : Nat]           \* bound: failures injected

Repos == Core \cup Pkgs

VARIABLES
  scenario, \* the scenario of this behaviour; it never changes
  run,      \* current invocation
  cli,      \* build.Run: "starting", "waiting" for the manager, "exited"
  given,    \* the packages of this command line
  lb,       \* the Localbuild object: start time and packages
  git,      \* GitRepository objects
  pkg,      \* CustomPackage objects
  app,      \* Argo CD Applications of the embedded packages
  gitea,    \* the repositories that exist in Gitea
  seen,     \* the informer caches, one per kind
  queue,    \* work queue of the CustomPackage controller
  lbp,      \* pass of the Localbuild worker
  gitp,     \* pass of the GitRepository worker
  pkgp,     \* pass of the CustomPackage worker
  pushed,   \* history: repositories synced to Gitea by a pass of this run
  done,     \* history: packages processed without error by a pass of this run
  faults    \* failures injected so far

objects == <<lb, git, pkg, app, gitea>>
workers == <<lbp, gitp, pkgp>>
history == <<pushed, done>>
session == <<scenario, run, cli, given>>
vars == <<scenario, run, cli, given, lb, git, pkg, app, gitea, seen, queue, lbp, gitp, pkgp, pushed, done, faults>>

None == "none"
(* start = 0: the object does not exist; observed = 0: no such annotation. *)
Object == [start : Nat, observed : Nat, synced : BOOLEAN, url : BOOLEAN]
Missing == [start |-> 0, observed |-> 0, synced |-> FALSE, url |-> FALSE]
Health == {"none", "unknown", "progressing", "healthy"}
IdleLocalbuild == [pc |-> "idle", start |-> 0, core |-> {}, pkgs |-> {}, item |-> None, url |-> FALSE]
IdlePass == [pc |-> "idle", name |-> None, read |-> Missing, synced |-> FALSE, url |-> FALSE]

Server == [lb |-> lb, git |-> git, pkg |-> pkg, app |-> app]
Kinds == {"lb", "git", "pkg", "app"}

MayInject(kind) == kind \in scenario.env /\ faults < scenario.faults

Init ==
  /\ scenario \in Scenarios
  /\ run = 1 /\ cli = "starting" /\ given \in SUBSET scenario.pkgs
  /\ lb = [start |-> 0, pkgs |-> {}]
  /\ git = [r \in Repos |-> Missing]
  /\ pkg = [p \in Pkgs |-> Missing]
  /\ app = [c \in Core |-> "none"]
  /\ gitea = {}
  /\ seen = Server
  /\ queue = {}
  /\ lbp = IdleLocalbuild /\ gitp = IdlePass /\ pkgp = IdlePass
  /\ pushed = {} /\ done = {}
  /\ faults = 0

----------------------------------------------------------------------------
(* When a worker may take a step *)

Running == cli # "exited"
UpToDate == "lag" \in scenario.env \/ seen = Server
MayWork == Running /\ UpToDate

----------------------------------------------------------------------------
(* The command line *)

(* Run: CreateOrUpdate of the Localbuild, after RunControllers. *)
WriteLocalbuild ==
  /\ cli = "starting"
  /\ cli' = "waiting"
  /\ lb' = [start |-> run, pkgs |-> given]
  /\ UNCHANGED <<scenario, run, given, git, pkg, app, gitea, seen, queue, workers, history, faults>>

(* The next invocation: fresh caches, whose first list enqueues every object. *)
NextRun ==
  /\ run < scenario.runs
  /\ cli = "exited" \/ "interrupt" \in scenario.env
  /\ run' = run + 1
  /\ cli' = "starting"
  /\ given' \in SUBSET scenario.pkgs
  /\ "leftover" \in scenario.env \/ given \subseteq given'
  /\ seen' = Server
  /\ queue' = {p \in Pkgs : pkg[p] # Missing}
  /\ lbp' = IdleLocalbuild /\ gitp' = IdlePass /\ pkgp' = IdlePass
  /\ pushed' = {} /\ done' = {}
  /\ UNCHANGED <<scenario, objects, faults>>

(* An informer catches up with the server and enqueues what changed. *)
Deliver(kind) ==
  /\ Running
  /\ seen[kind] # Server[kind]
  /\ seen' = [seen EXCEPT ![kind] = Server[kind]]
  /\ queue' = IF kind = "pkg" THEN queue \cup {p \in Pkgs : seen.pkg[p] # pkg[p]} ELSE queue
  /\ UNCHANGED <<session, objects, workers, history, faults>>

(* Argo CD computes the health of an Application. *)
ArgoReports(c) ==
  /\ MayWork
  /\ app[c] = "progressing"
  /\ app' = [app EXCEPT ![c] = "healthy"]
  /\ UNCHANGED <<session, lb, git, pkg, gitea, seen, queue, workers, history, faults>>

----------------------------------------------------------------------------
(* The Localbuild worker *)

(* Reconcile reads the object once; every later step uses that snapshot. *)
BeginLocalbuild ==
  /\ MayWork
  /\ lbp.pc = "idle"
  /\ seen.lb.start # 0
  /\ "early" \in scenario.env \/ cli = "waiting"
  /\ lbp' = [IdleLocalbuild EXCEPT !.pc = "embedded", !.start = seen.lb.start,
                                   !.core = Core, !.pkgs = seen.lb.pkgs]
  /\ UNCHANGED <<session, objects, seen, queue, gitp, pkgp, history, faults>>

(* controllerutil.CreateOrUpdate stamps a start time: it reads the cache,  *)
(* writes only if that differs, and fails if the cached version is old.    *)
WriteFails(cached, server, start) == cached.start # start /\ cached # server

(* The repository of an embedded package; an error ends the pass. *)
ReconcileGitRepo(c) ==
  /\ MayWork
  /\ lbp.pc = "embedded" /\ lbp.item = None /\ c \in lbp.core
  /\ IF WriteFails(seen.git[c], git[c], lbp.start)
     THEN lbp' = IdleLocalbuild /\ UNCHANGED git
     ELSE /\ git' = IF seen.git[c].start = lbp.start THEN git
                    ELSE [git EXCEPT ![c].start = lbp.start]
          /\ lbp' = [lbp EXCEPT !.core = @ \ {c}, !.item = c, !.url = seen.git[c].url]
  /\ UNCHANGED <<session, lb, pkg, app, gitea, seen, queue, gitp, pkgp, history, faults>>

(* The rest of reconcileEmbeddedApp: the Application gets the URL that the *)
(* repository had a moment ago, which may still be empty.                  *)
ReconcileEmbeddedApp(c) ==
  /\ MayWork
  /\ lbp.pc = "embedded" /\ lbp.item = c
  /\ IF seen.app[c] # app[c]
     THEN lbp' = IdleLocalbuild /\ UNCHANGED app
     ELSE /\ app' = [app EXCEPT ![c] = IF ~lbp.url THEN "unknown"
                                       ELSE IF @ = "healthy" THEN @ ELSE "progressing"]
          /\ lbp' = [lbp EXCEPT !.item = None, !.url = FALSE]
  /\ UNCHANGED <<session, lb, git, pkg, gitea, seen, queue, gitp, pkgp, history, faults>>

EmbeddedAppsDone ==
  /\ MayWork
  /\ lbp.pc = "embedded" /\ lbp.item = None /\ lbp.core = {}
  /\ lbp' = [lbp EXCEPT !.pc = "custom"]
  /\ UNCHANGED <<session, objects, seen, queue, gitp, pkgp, history, faults>>

(* CreateOrUpdate of a CustomPackage.  reconcileCustomPkgDir, -File and    *)
(* -Url only log its error and go on.                                      *)
ReconcileCustomPkg(p) ==
  /\ MayWork
  /\ lbp.pc = "custom" /\ p \in lbp.pkgs
  /\ lbp' = [lbp EXCEPT !.pkgs = @ \ {p}]
  /\ pkg' = IF seen.pkg[p].start = lbp.start \/ WriteFails(seen.pkg[p], pkg[p], lbp.start)
             THEN pkg ELSE [pkg EXCEPT ![p].start = lbp.start]
  /\ UNCHANGED <<session, lb, git, app, gitea, seen, queue, gitp, pkgp, history, faults>>

ReconcileCustomPkgFails(p) ==
  /\ MayWork
  /\ lbp.pc = "custom" /\ p \in lbp.pkgs
  /\ MayInject("apierr")
  /\ lbp' = [lbp EXCEPT !.pkgs = @ \ {p}]
  /\ faults' = faults + 1
  /\ UNCHANGED <<session, objects, seen, queue, gitp, pkgp, history>>

CustomPackagesDone ==
  /\ MayWork
  /\ lbp.pc = "custom" /\ lbp.pkgs = {}
  /\ lbp' = [lbp EXCEPT !.pc = "applications"]
  /\ UNCHANGED <<session, objects, seen, queue, gitp, pkgp, history, faults>>

(* Mutant: the annotation is enough. *)
RepositoryObserved(o, start) ==
  o.start # start \/ o.observed = start

(* shouldShutDown, the loop over repositories: one that was last stamped   *)
(* by another invocation does not count.                                   *)
RepositoryReady(o, start) ==
  o.start # start \/ (o.synced /\ o.observed = start)

(* Mutant: the annotation is enough. *)
PackageObserved(o, start) == o # Missing => (o.start = start /\ o.observed = start)

(* The loop over packages: one stamped by another invocation blocks. *)
PackageReady(o, start) ==
  o # Missing => (o.start = start /\ o.synced /\ o.observed = start)

(* One list of the exit check: go on to the next one or end the pass. *)
CheckThen(ok, next) ==
  /\ MayWork
  /\ lbp' = IF ok THEN [lbp EXCEPT !.pc = next] ELSE IdleLocalbuild
  /\ UNCHANGED <<session, objects, seen, queue, gitp, pkgp, history, faults>>

CheckApplications ==
  /\ lbp.pc = "applications"
  /\ CheckThen(\A c \in Core : seen.app[c] \in {"none", "healthy"}, "repositories")

CheckRepositories ==
  /\ lbp.pc = "repositories"
  /\ CheckThen(\A r \in Repos : RepositoryReady(seen.git[r], lbp.start), "packages")

CheckPackages ==
  /\ lbp.pc = "packages"
  /\ CheckThen(\A p \in Pkgs : PackageReady(seen.pkg[p], lbp.start), "shutdown")

(* postProcessReconcile calls CancelFunc, which ends Run and all workers. *)
ShutDown ==
  /\ lbp.pc = "shutdown"
  /\ MayWork
  /\ cli' = "exited"
  /\ lbp' = IdleLocalbuild
  /\ UNCHANGED <<scenario, run, given, objects, seen, queue, gitp, pkgp, history, faults>>

----------------------------------------------------------------------------
(* The GitRepository worker, whose passes are requeued without end *)

BeginRepositoryPass(r) ==
  /\ MayWork
  /\ gitp.pc = "idle"
  /\ seen.git[r].start # 0
  /\ gitp' = [IdlePass EXCEPT !.pc = "reconcile", !.name = r, !.read = seen.git[r],
                             !.url = seen.git[r].url]
  /\ UNCHANGED <<session, objects, seen, queue, lbp, pkgp, history, faults>>

(* The content is in Gitea; the rest is still only in memory.  A pass that *)
(* had to create the repository does not learn its internal URL.           *)
RepositorySynced ==
  /\ MayWork
  /\ gitp.pc = "reconcile"
  /\ gitp' = [gitp EXCEPT !.pc = "status", !.synced = TRUE, !.url = gitp.name \in gitea]
  /\ gitea' = gitea \cup {gitp.name}
  /\ pushed' = pushed \cup {gitp.name}
  /\ UNCHANGED <<session, lb, git, pkg, app, seen, queue, lbp, pkgp, done, faults>>

(* Mutant: an error skips the deferred post-processing. *)
RepositoryFailsUnreported ==
  /\ MayWork
  /\ gitp.pc = "reconcile"
  /\ MayInject("repoerr")
  /\ gitp' = [gitp EXCEPT !.pc = "failed"]
  /\ faults' = faults + 1
  /\ UNCHANGED <<session, objects, seen, queue, lbp, pkgp, history>>

(* An error, before or after Gitea was asked to create the repository. *)
RepositoryFails ==
  /\ MayWork
  /\ gitp.pc = "reconcile"
  /\ MayInject("repoerr")
  /\ gitea' \in {gitea, gitea \cup {gitp.name}}
  /\ gitp' = [gitp EXCEPT !.pc = "status"]
  /\ faults' = faults + 1
  /\ UNCHANGED <<session, lb, git, pkg, app, seen, queue, lbp, pkgp, history>>

(* A status update from a version of the object that is no longer the      *)
(* current one is a conflict, which is logged and otherwise ignored.       *)
AfterStatus(o, pass) ==
  IF o = pass.read THEN [o EXCEPT !.synced = pass.synced, !.url = pass.url] ELSE o

UpdateRepositoryStatus ==
  /\ MayWork
  /\ gitp.pc = "status"
  /\ git' = [git EXCEPT ![gitp.name] = AfterStatus(@, gitp)]
  /\ gitp' = [gitp EXCEPT !.pc = "annotate"]
  /\ UNCHANGED <<session, lb, pkg, app, gitea, seen, queue, lbp, pkgp, history, faults>>

(* UpdateSyncAnnotation applies the start time the pass has read. *)
AnnotateRepository ==
  /\ MayWork
  /\ gitp.pc = "annotate"
  /\ git' = [git EXCEPT ![gitp.name].observed = gitp.read.start]
  /\ gitp' = IdlePass
  /\ UNCHANGED <<session, lb, pkg, app, gitea, seen, queue, lbp, pkgp, history, faults>>

----------------------------------------------------------------------------
(* The CustomPackage worker.  Unlike a repository, a package whose pass    *)
(* ended without error and synced is looked at again only after an event.  *)

BeginPackagePass(p) ==
  /\ MayWork
  /\ pkgp.pc = "idle"
  /\ p \in queue
  /\ queue' = queue \ {p}
  /\ pkgp' = [IdlePass EXCEPT !.pc = "source", !.name = p, !.read = seen.pkg[p],
                             !.synced = seen.pkg[p].synced]
  /\ UNCHANGED <<session, objects, seen, lbp, gitp, history, faults>>

(* Mutant: a repository that exists is taken to have its URL. *)
ReconcileSourceWithoutURL ==
  /\ MayWork
  /\ pkgp.pc = "source"
  /\ LET cached == seen.git[pkgp.name] IN
     /\ pkgp' = [pkgp EXCEPT !.pc = "status", !.synced = TRUE]
     /\ git' = IF cached.start # 0 \/ git[pkgp.name].start # 0 THEN git
               ELSE [git EXCEPT ![pkgp.name].start = pkgp.read.start]
  /\ done' = done \cup {pkgp.name}
  /\ UNCHANGED <<session, lb, pkg, app, gitea, seen, queue, lbp, gitp, pushed, faults>>

(* reconcileArgoCDSourceFromLocal: an existing repository is owned by this *)
(* very package, whose priority is not higher than its own, so it is used  *)
(* as it is.  A new one (or one the cache has not shown yet) has no URL.   *)
ReconcileSource ==
  /\ MayWork
  /\ pkgp.pc = "source"
  /\ LET cached == seen.git[pkgp.name] IN
     /\ pkgp' = [pkgp EXCEPT !.pc = "status", !.synced = cached.start # 0 /\ cached.url]
     /\ git' = IF cached.start # 0 \/ git[pkgp.name].start # 0 THEN git
               ELSE [git EXCEPT ![pkgp.name].start = pkgp.read.start]
  /\ done' = IF pkgp'.synced THEN done \cup {pkgp.name} ELSE done
  /\ UNCHANGED <<session, lb, pkg, app, gitea, seen, queue, lbp, gitp, pushed, faults>>

(* An error before Synced is computed leaves the value that was read. *)
PackageFails ==
  /\ MayWork
  /\ pkgp.pc = "source"
  /\ MayInject("pkgerr")
  /\ pkgp' = [pkgp EXCEPT !.pc = "status"]
  /\ queue' = queue \cup {pkgp.name}
  /\ faults' = faults + 1
  /\ UNCHANGED <<session, objects, seen, lbp, gitp, history>>

UpdatePackageStatus ==
  /\ MayWork
  /\ pkgp.pc = "status"
  /\ pkg' = [pkg EXCEPT ![pkgp.name] = AfterStatus(@, pkgp)]
  /\ pkgp' = [pkgp EXCEPT !.pc = "annotate"]
  /\ UNCHANGED <<session, lb, git, app, gitea, seen, queue, lbp, gitp, history, faults>>

(* Mutant: a package whose repository has no URL yet waits for an event. *)
NoRequeue == queue' = queue

(* Reconcile asks for another pass (RequeueAfter) if it is not synced. *)
Requeue == queue' = IF pkgp.synced THEN queue ELSE queue \cup {pkgp.name}

AnnotatePackage ==
  /\ MayWork
  /\ pkgp.pc = "annotate"
  /\ pkg' = [pkg EXCEPT ![pkgp.name].observed = pkgp.read.start]
  /\ pkgp' = IdlePass
  /\ Requeue
  /\ UNCHANGED <<session, lb, git, app, gitea, seen, lbp, gitp, history, faults>>

(* The error is logged; nothing enqueues the package again. *)
AnnotatePackageFails ==
  /\ MayWork
  /\ pkgp.pc = "annotate"
  /\ MayInject("annotate")
  /\ pkgp' = IdlePass
  /\ Requeue
  /\ faults' = faults + 1
  /\ UNCHANGED <<session, objects, seen, lbp, gitp, history>>

----------------------------------------------------------------------------

Localbuild ==
  \/ BeginLocalbuild \/ EmbeddedAppsDone \/ CustomPackagesDone
  \/ \E c \in Core : ReconcileGitRepo(c) \/ ReconcileEmbeddedApp(c)
  \/ \E p \in Pkgs : ReconcileCustomPkg(p) \/ ReconcileCustomPkgFails(p)
  \/ CheckApplications \/ CheckRepositories \/ CheckPackages \/ ShutDown

Repository(r) ==
  \/ BeginRepositoryPass(r)
  \/ gitp.name = r /\ (RepositorySynced \/ RepositoryFails
                        \/ UpdateRepositoryStatus \/ AnnotateRepository)

Package(p) ==
  \/ BeginPackagePass(p)
  \/ pkgp.name = p /\ (ReconcileSource \/ PackageFails \/ UpdatePackageStatus
                        \/ AnnotatePackage \/ AnnotatePackageFails)

(* After the last invocation. *)
Stopped == cli = "exited" /\ run = scenario.runs /\ UNCHANGED vars

Next ==
  \/ WriteLocalbuild \/ NextRun
  \/ \E kind \in Kinds : Deliver(kind)
  \/ \E c \in Core : ArgoReports(c)
  \/ Localbuild
  \/ \E r \in Repos : Repository(r)
  \/ \E p \in Pkgs : Package(p)
  \/ Stopped

Spec == Init /\ [][Next]_vars

(* Localbuild and GitRepository passes are always requeued; the queues are *)
(* first in, first out; the informers and Argo CD work.  Nobody has to     *)
(* start another invocation.                                               *)
FairSpec ==
  /\ Spec
  /\ WF_vars(WriteLocalbuild)
  /\ \A kind \in Kinds : WF_vars(Deliver(kind))
  /\ \A c \in Core : WF_vars(ArgoReports(c))
  /\ WF_vars(Localbuild)
  /\ \A r \in Repos : SF_vars(Repository(r))
  /\ \A p \in Pkgs : SF_vars(Package(p))

----------------------------------------------------------------------------

LocalbuildPass ==
  [pc : {"idle", "embedded", "custom", "applications", "repositories", "packages", "shutdown"},
   start : Nat, core : SUBSET Core, pkgs : SUBSET Pkgs, item : Core \cup {None}, url : BOOLEAN]
RepositoryPass ==
  [pc : {"idle", "reconcile", "status", "annotate"}, name : Repos \cup {None},
   read : Object, synced : BOOLEAN, url : BOOLEAN]
PackagePass ==
  [pc : {"idle", "source", "status", "annotate"}, name : Pkgs \cup {None},
   read : Object, synced : BOOLEAN, url : BOOLEAN]

TypeOK ==
  /\ scenario \in Scenarios
  /\ run \in Nat /\ faults \in Nat
  /\ cli \in {"starting", "waiting", "exited"}
  /\ given \in SUBSET Pkgs
  /\ lb \in [start : Nat, pkgs : SUBSET Pkgs]
  /\ git \in [Repos -> Object]
  /\ pkg \in [Pkgs -> Object]
  /\ app \in [Core -> Health]
  /\ seen \in [lb : [start : Nat, pkgs : SUBSET Pkgs], git : [Repos -> Object],
               pkg : [Pkgs -> Object], app : [Core -> Health]]
  /\ queue \in SUBSET Pkgs
  /\ lbp \in LocalbuildPass /\ gitp \in RepositoryPass /\ pkgp \in PackagePass
  /\ gitea \in SUBSET Repos
  /\ pushed \in SUBSET Repos /\ done \in SUBSET Pkgs

(* The scenarios in which what the exit check sees is what has happened:   *)
(* the manager waits for the Localbuild, caches do not trail, and packages *)
(* are created and processed without error.                                *)
Faultless(kinds) == scenario.env \cap kinds = {}
SafeEnv == Faultless({"early", "lag", "apierr", "pkgerr"})

(* idpbuilder exits only when, in this very invocation, every embedded     *)
(* package was pushed to Gitea and its Application was healthy, every      *)
(* package of the command line was processed without error, and every      *)
(* package repository created by this invocation was pushed: no report of  *)
(* an earlier or an interrupted invocation is mistaken for one of this,    *)
(* and no repository is overlooked because it appeared after the exit      *)
(* check had listed them.                                                  *)
SyncedAtExit ==
  SafeEnv /\ cli = "exited" =>
    /\ Core \subseteq pushed
    /\ \A c \in Core : app[c] = "healthy"
    /\ \A p \in given : p \in done /\ (git[p].start = run => p \in pushed)

(* It exits only when the content of every package of the command line has *)
(* been pushed in this invocation.                                         *)
ExitMeansSynced ==
  cli = "exited" => Core \cup given \subseteq pushed /\ given \subseteq done

(* Nothing more can be asked of an exit check that lists from caches that  *)
(* may trail: what it lists is true.  Going on from the repositories, it   *)
(* has seen none of this invocation that was not pushed in this invocation *)
(* - unless a failing pass and a status lost to a trailing cache combine,  *)
(* which leaves the report of an earlier invocation in place.              *)
RepositoriesCounted ==
  [][ /\ lbp.pc = "repositories" /\ lbp'.pc = "packages" /\ lbp.start = run
      /\ Faultless({"lag"}) \/ Faultless({"repoerr"}) \/ run = 1
      => \A r \in Repos : seen.git[r].start = run => r \in pushed ]_vars

(* Going on from the packages, it has seen none that was not processed     *)
(* without error in this invocation, and the repository that was created   *)
(* for such a package in this invocation was pushed: also if the list of   *)
(* the repositories did not show it.  A failing pass keeps the report of   *)
(* an earlier invocation.                                                  *)
PackagesCounted ==
  [][ /\ lbp.pc = "packages" /\ lbp'.pc = "shutdown" /\ lbp.start = run
      /\ Faultless({"pkgerr"}) \/ run = 1
      => \A p \in Pkgs : seen.pkg[p] # Missing =>
           p \in done /\ (git[p].start = run => p \in pushed) ]_vars

(* What the second loop of the exit check relies on: a package that is     *)
(* ready has the repository of its source, with its URL, in the cluster.   *)
ReadyPackageHasRepository ==
  \A p \in Pkgs : pkg[p].synced => git[p].start # 0 /\ git[p].url

(* The last invocation exits by itself, whatever failed on the way, unless *)
(* an annotation was lost or a package of an earlier command line dropped. *)
EventuallyExits ==
  Faultless({"annotate", "leftover"}) => ((run = scenario.runs) ~> (cli = "exited"))
=============================================================================
