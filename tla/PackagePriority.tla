--------------------------- MODULE PackagePriority ---------------------------
(***************************************************************************)
(* `idpbuilder create --package A --package B`: when several packages      *)
(* define the same Argo CD application, the one with the highest priority, *)
(* its place in the command line, is to have it.  Localbuild decides which *)
(* CustomPackage objects there are, and deletes lower ones; the            *)
(* CustomPackage worker steps back for a higher one, and creates the       *)
(* GitRepository and the Application; the garbage collector of Kubernetes  *)
(* removes the repositories of deleted packages.                           *)
(*                                                                         *)
(* The items are package files that define one application.  Nothing here  *)
(* waits for the exit: the command runs with --no-exit until it is         *)
(* stopped, and may be run again with other packages.                      *)
(***************************************************************************)
EXTENDS Naturals, Sequences, FiniteSets

CONSTANTS
  Items,        \* the package files
  Names,        \* names of CustomPackage objects
  RepoNames,    \* names of GitRepository objects
  Scenarios     \* the environments a behaviour may run in, with their bounds

Kinds == {"pkg", "repo", "app"}
EnvKinds ==
  { "apierr",      \* a write of the Localbuild worker fails
    "pkgerr",      \* a CustomPackage pass fails
    "report",      \* the write of a status or an annotation fails
    "interrupt" }  \* a run is stopped before it has come to rest

LocationKinds == {"dir", "file", "url"}
CommandLine == Seq([item : Items, kind : LocationKinds])   \* --package, in order

Scenario == [lines : Seq(CommandLine),          \* the invocations
             name : [Items -> Names],           \* getCustomPackageName
             repo : [Items -> RepoNames],       \* localRepoName
             env : SUBSET EnvKinds,             \* what may go wrong
             lag : SUBSET Kinds,                \* informer caches that trail the API server
             faults : Nat]                      \* bound: failures injected

ASSUME PriorityAssumption ==
  /\ "none" \notin Items \cup Names
  /\ IsFiniteSet(Names) /\ IsFiniteSet(RepoNames)
  /\ Scenarios \subseteq Scenario
  /\ \A s \in Scenarios : s.lines # <<>>

VARIABLES
  scenario, \* the scenario of this behaviour; it never changes
  run,      \* current invocation, which stands for its start time
  pkg,      \* CustomPackage objects
  repo,     \* GitRepository objects
  app,      \* the Argo CD Application
  seen,     \* the informer caches, one per kind
  queue,    \* work queue of the CustomPackage controller
  lbp,      \* pass of the Localbuild worker
  pkgp,     \* pass of the CustomPackage worker
  faults    \* failures injected so far

objects == <<pkg, repo, app>>
session == <<scenario, run>>
vars == <<scenario, run, pkg, repo, app, seen, queue, lbp, pkgp, faults>>

None == "none"
(* uid = 0: there is no such object.  An object without an item has neither *)
(* a spec nor the annotations of Localbuild.                               *)
Package == [uid : Nat, item : Items \cup {None}, priority : Nat, start : Nat,
            observed : Nat, synced : BOOLEAN]
Missing == [uid |-> 0, item |-> None, priority |-> 0, start |-> 0, observed |-> 0, synced |-> FALSE]
(* A repository with the package that owns it and the path it is made of.  *)
Repository == [owner : Names \cup {None}, uid : Nat, item : Items \cup {None}, url : BOOLEAN]
NoRepository == [owner |-> None, uid |-> 0, item |-> None, url |-> FALSE]
Application == [item : Items \cup {None}, url : BOOLEAN]
NoApplication == [item |-> None, url |-> FALSE]
IdleLocalbuild == [pc |-> "list", work |-> {}, todo |-> {}, yields |-> FALSE]
IdlePackage == [pc |-> "idle", name |-> None, read |-> Missing, synced |-> FALSE,
                url |-> FALSE, again |-> FALSE]

Line == scenario.lines[run]
Server == [pkg |-> pkg, repo |-> repo, app |-> app]
HasPriority(p) == p.item # None

(* Uids are only compared: one that nothing refers to may be used again.   *)
UidsInUse ==
  {pkg[n].uid : n \in Names} \cup {seen.pkg[n].uid : n \in Names} \cup {pkgp.read.uid}
  \cup {repo[r].uid : r \in RepoNames} \cup {seen.repo[r].uid : r \in RepoNames}
FreshUid == CHOOSE u \in 1..Cardinality(UidsInUse) + 1 : u \notin UidsInUse

MayInject(kind) == kind \in scenario.env /\ faults < scenario.faults
MayWork == \A kind \in Kinds \ scenario.lag : seen[kind] = Server[kind]

(* Mutant: the index counts from one less. *)
IndexOffByOne(line, i) == Cardinality({j \in 1..(i - 1) : line[j].kind = line[i].kind}) - 1
(* ParsePackageStrings makes a list of each kind of location; the priority *)
(* of an argument is the index in its list.                                *)
Index(line, i) == Cardinality({j \in 1..(i - 1) : line[j].kind = line[i].kind})
Job(line, i) == [item |-> line[i].item, priority |-> Index(line, i)]

(* ReconcileArgoAppsWithGitea takes one list after the other, and each     *)
(* backwards.                                                              *)
Turn == [dir |-> 1, file |-> 2, url |-> 3]
Precedes(line, i, j) ==
  \/ Turn[line[i].kind] < Turn[line[j].kind]
  \/ line[i].kind = line[j].kind /\ i > j

Init ==
  /\ scenario \in Scenarios
  /\ run = 1
  /\ pkg = [n \in Names |-> Missing]
  /\ repo = [r \in RepoNames |-> NoRepository]
  /\ app = NoApplication
  /\ seen = Server
  /\ queue = {}
  /\ lbp = IdleLocalbuild /\ pkgp = IdlePackage
  /\ faults = 0

----------------------------------------------------------------------------
(* The cluster *)

(* An informer catches up and enqueues the packages that changed. *)
Deliver(kind) ==
  /\ seen[kind] # Server[kind]
  /\ seen' = [seen EXCEPT ![kind] = Server[kind]]
  /\ queue' = IF kind = "pkg" THEN queue \cup {n \in Names : seen.pkg[n] # pkg[n]} ELSE queue
  /\ UNCHANGED <<session, objects, lbp, pkgp, faults>>

(* The GitRepository controller fills the repository and publishes its URL. *)
ServeRepository(r) ==
  /\ repo[r].owner # None /\ ~repo[r].url
  /\ repo' = [repo EXCEPT ![r].url = TRUE]
  /\ UNCHANGED <<session, pkg, app, seen, queue, lbp, pkgp, faults>>

(* The owner of the repository, an object with its uid, is gone. *)
CollectGarbage(r) ==
  /\ repo[r].owner # None
  /\ pkg[repo[r].owner].uid # repo[r].uid
  /\ repo' = [repo EXCEPT ![r] = NoRepository]
  /\ UNCHANGED <<session, pkg, app, seen, queue, lbp, pkgp, faults>>

(* The next invocation: fresh caches, whose first list enqueues everything. *)
NextRun ==
  /\ run < Len(scenario.lines)
  /\ "interrupt" \in scenario.env \/ (app.url /\ seen = Server /\ queue = {} /\ pkgp = IdlePackage)
  /\ run' = run + 1
  /\ seen' = Server
  /\ queue' = {n \in Names : pkg[n] # Missing}
  /\ lbp' = IdleLocalbuild /\ pkgp' = IdlePackage
  /\ UNCHANGED <<scenario, objects, faults>>

----------------------------------------------------------------------------
(* The Localbuild worker: reconcileCustomPkg for every item *)

BeginLocalbuild ==
  /\ MayWork
  /\ lbp = IdleLocalbuild
  /\ lbp' = [lbp EXCEPT !.work = DOMAIN Line]
  /\ UNCHANGED <<session, objects, seen, queue, pkgp, faults>>

(* The argument whose turn it is. *)
Current(i) == i \in lbp.work /\ \A j \in lbp.work \ {i} : Precedes(Line, i, j)
NextItem(i) == lbp' = [IdleLocalbuild EXCEPT !.work = lbp.work \ {i}]

(* Mutant: packages of the same priority are deleted too. *)
ListExistingEqual(i) ==
  /\ MayWork
  /\ lbp.pc = "list" /\ Current(i)
  /\ LET this == Job(Line, i).priority
         existing == {n \in Names : HasPriority(seen.pkg[n])}
         lower == {n \in existing : seen.pkg[n].priority <= this}
     IN IF existing = lower
        THEN lbp' = [lbp EXCEPT !.pc = "delete", !.todo = lower]
        ELSE \E some \in SUBSET lower :
               lbp' = [lbp EXCEPT !.pc = "delete", !.todo = some, !.yields = TRUE]
  /\ UNCHANGED <<session, objects, seen, queue, pkgp, faults>>

(* The loop over the list, in any order: it deletes what is lower than the *)
(* item, and ends at the first package that is higher.  Equal ones stay.   *)
ListExisting(i) ==
  /\ MayWork
  /\ lbp.pc = "list" /\ Current(i)
  /\ LET this == Job(Line, i).priority
         existing == {n \in Names : HasPriority(seen.pkg[n])}
         lower == {n \in existing : seen.pkg[n].priority < this}
         higher == {n \in existing : seen.pkg[n].priority > this}
     IN IF higher = {}
        THEN lbp' = [lbp EXCEPT !.pc = "delete", !.todo = lower]
        ELSE \E some \in SUBSET lower :
               lbp' = [lbp EXCEPT !.pc = "delete", !.todo = some, !.yields = TRUE]
  /\ UNCHANGED <<session, objects, seen, queue, pkgp, faults>>

DeleteLower(n) ==
  /\ MayWork
  /\ lbp.pc = "delete" /\ n \in lbp.todo
  /\ pkg' = [pkg EXCEPT ![n] = Missing]
  /\ lbp' = [lbp EXCEPT !.todo = @ \ {n}]
  /\ UNCHANGED <<session, repo, app, seen, queue, pkgp, faults>>

Yield(i) ==
  /\ MayWork
  /\ lbp.pc = "delete" /\ Current(i) /\ lbp.todo = {} /\ lbp.yields
  /\ NextItem(i)
  /\ UNCHANGED <<session, objects, seen, queue, pkgp, faults>>

(* controllerutil.CreateOrUpdate of the CustomPackage, which fails when    *)
(* the cache has not the version of the server.                            *)
CreateOrUpdatePackage(i) ==
  /\ MayWork
  /\ lbp.pc = "delete" /\ Current(i) /\ lbp.todo = {} /\ ~lbp.yields
  /\ LET this == Job(Line, i)
         n == scenario.name[this.item]
         wanted(o) == [o EXCEPT !.item = this.item, !.priority = this.priority, !.start = run]
     IN IF seen.pkg[n] # pkg[n] THEN UNCHANGED pkg
        ELSE IF pkg[n] = Missing
        THEN pkg' = [pkg EXCEPT ![n] = [wanted(Missing) EXCEPT !.uid = FreshUid]]
        ELSE pkg' = [pkg EXCEPT ![n] = wanted(@)]
  /\ NextItem(i)
  /\ UNCHANGED <<session, repo, app, seen, queue, pkgp, faults>>

(* The error of a list or a write is logged, and the next item follows. *)
ItemFails(i) ==
  /\ MayWork
  /\ Current(i)
  /\ MayInject("apierr")
  /\ NextItem(i)
  /\ faults' = faults + 1
  /\ UNCHANGED <<session, objects, seen, queue, pkgp>>

Localbuild ==
  \/ BeginLocalbuild \/ \E n \in Names : DeleteLower(n)
  \/ \E i \in DOMAIN Line : ListExisting(i) \/ Yield(i) \/ CreateOrUpdatePackage(i) \/ ItemFails(i)

----------------------------------------------------------------------------
(* The CustomPackage worker *)

BeginPackagePass(n) ==
  /\ MayWork
  /\ pkgp.pc = "idle"
  /\ n \in queue
  /\ queue' = queue \ {n}
  /\ pkgp' = IF seen.pkg[n] = Missing THEN pkgp
             ELSE [IdlePackage EXCEPT !.pc = "arbitrate", !.name = n, !.read = seen.pkg[n],
                                      !.synced = seen.pkg[n].synced]
  /\ UNCHANGED <<session, objects, seen, lbp, faults>>

(* Mutant: a package that is there goes on. *)
NeverSuperseded == FALSE

(* shouldReconcile: another package of the application is higher. *)
Superseded ==
  /\ HasPriority(pkgp.read)
  /\ \E m \in Names \ {pkgp.name} :
       HasPriority(seen.pkg[m]) /\ seen.pkg[m].priority > pkgp.read.priority

(* A superseded package is not looked at again; one without a spec has no  *)
(* file to read.                                                           *)
ShouldReconcile ==
  /\ MayWork
  /\ pkgp.pc = "arbitrate"
  /\ pkgp' = IF Superseded THEN [pkgp EXCEPT !.pc = "status", !.synced = FALSE]
             ELSE IF ~HasPriority(pkgp.read) THEN [pkgp EXCEPT !.pc = "status", !.again = TRUE]
             ELSE [pkgp EXCEPT !.pc = "source"]
  /\ UNCHANGED <<session, objects, seen, queue, lbp, faults>>

(* shouldTakeOverGitRepository; a package may be its own competitor. *)
ShouldTakeOver(r) ==
  LET owner == seen.pkg[seen.repo[r].owner]
  IN ~HasPriority(owner) \/ pkgp.read.priority > owner.priority

(* Mutant: not looked at again without a URL.                              *)
UseRepositoryOnce(url) ==
  pkgp' = [pkgp EXCEPT !.pc = "application", !.synced = url, !.url = url]
(* The repository is one the package has, with or without its URL. *)
UseRepository(url) ==
  pkgp' = [pkgp EXCEPT !.pc = "application", !.synced = url, !.url = url, !.again = ~url]
Error == pkgp' = [pkgp EXCEPT !.pc = "status", !.again = TRUE]

(* reconcileArgoCDSource.  SetControllerReference refuses a repository     *)
(* that another package owns, so that a takeover is an error until the     *)
(* repository is gone with its owner.                                      *)
ReconcileSource ==
  /\ MayWork
  /\ pkgp.pc = "source"
  /\ LET r == scenario.repo[pkgp.read.item]
         cached == seen.repo[r]
         mine == [cached EXCEPT !.owner = pkgp.name, !.uid = pkgp.read.uid, !.item = pkgp.read.item]
     IN CASE cached.owner = None ->
               /\ UseRepository(FALSE)
               /\ repo' = IF repo[r].owner = None THEN [repo EXCEPT ![r] = mine] ELSE repo
          [] cached.owner # None /\ ~ShouldTakeOver(r) ->
               UseRepository(cached.url) /\ UNCHANGED repo
          [] cached.owner # None /\ ShouldTakeOver(r) ->
               IF cached.owner # pkgp.name \/ (mine # cached /\ cached # repo[r])
               THEN Error /\ UNCHANGED repo
               ELSE /\ UseRepository(cached.url)
                    /\ repo' = IF mine = cached THEN repo ELSE [repo EXCEPT ![r] = mine]
  /\ UNCHANGED <<session, pkg, app, seen, queue, lbp, faults>>

(* The Application of the file, with the URL of the repository: a new one  *)
(* is looked at again, one that has changed in between is an error.        *)
ReconcileApplication ==
  /\ MayWork
  /\ pkgp.pc = "application"
  /\ LET fails == seen.app # app
     IN /\ pkgp' = [pkgp EXCEPT !.pc = "status", !.again = @ \/ fails \/ app = NoApplication]
        /\ app' = IF fails THEN app ELSE [item |-> pkgp.read.item, url |-> pkgp.url]
  /\ UNCHANGED <<session, pkg, repo, seen, queue, lbp, faults>>

PackageFails ==
  /\ MayWork
  /\ pkgp.pc \in {"arbitrate", "source", "application"}
  /\ MayInject("pkgerr")
  /\ Error
  /\ faults' = faults + 1
  /\ UNCHANGED <<session, objects, seen, queue, lbp>>

(* A status that was computed for another version is refused, the error is *)
(* logged.                                                                 *)
UpdateStatus ==
  /\ MayWork
  /\ pkgp.pc = "status"
  /\ pkg' = IF pkg[pkgp.name] = pkgp.read THEN [pkg EXCEPT ![pkgp.name].synced = pkgp.synced] ELSE pkg
  /\ pkgp' = [pkgp EXCEPT !.pc = "annotate"]
  /\ UNCHANGED <<session, repo, app, seen, queue, lbp, faults>>

StatusFails ==
  /\ MayWork
  /\ pkgp.pc = "status"
  /\ MayInject("report")
  /\ pkgp' = [pkgp EXCEPT !.pc = "annotate"]
  /\ faults' = faults + 1
  /\ UNCHANGED <<session, objects, seen, queue, lbp>>

EndPass ==
  /\ pkgp' = IdlePackage
  /\ queue' = IF pkgp.again THEN queue \cup {pkgp.name} ELSE queue

(* UpdateSyncAnnotation is a server-side apply: of a package that has been *)
(* deleted it makes a new object, with this annotation and nothing else.   *)
Annotate ==
  /\ MayWork
  /\ pkgp.pc = "annotate"
  /\ LET n == pkgp.name
     IN IF pkgp.read.start = 0 THEN UNCHANGED pkg
        ELSE IF pkg[n] = Missing
        THEN pkg' = [pkg EXCEPT ![n] = [Missing EXCEPT !.uid = FreshUid, !.observed = pkgp.read.start]]
        ELSE pkg' = [pkg EXCEPT ![n].observed = pkgp.read.start]
  /\ EndPass
  /\ UNCHANGED <<session, repo, app, seen, lbp, faults>>

AnnotateFails ==
  /\ MayWork
  /\ pkgp.pc = "annotate"
  /\ MayInject("report")
  /\ EndPass
  /\ faults' = faults + 1
  /\ UNCHANGED <<session, objects, seen, lbp>>

CustomPackage(n) ==
  \/ BeginPackagePass(n)
  \/ pkgp.name = n /\ ( \/ ShouldReconcile \/ ReconcileSource \/ ReconcileApplication
                        \/ PackageFails \/ UpdateStatus \/ StatusFails
                        \/ Annotate \/ AnnotateFails )

----------------------------------------------------------------------------

Next ==
  \/ \E kind \in Kinds : Deliver(kind)
  \/ \E r \in RepoNames : ServeRepository(r) \/ CollectGarbage(r)
  \/ NextRun \/ Localbuild
  \/ \E n \in Names : CustomPackage(n)

Spec == Init /\ [][Next]_vars

(* Localbuild passes are requeued, the queue of packages is first in,      *)
(* first out, and the cluster works.  Nobody has to start another run.     *)
FairSpec ==
  /\ Spec
  /\ \A kind \in Kinds : WF_vars(Deliver(kind))
  /\ \A r \in RepoNames : WF_vars(ServeRepository(r)) /\ WF_vars(CollectGarbage(r))
  /\ WF_vars(Localbuild)
  /\ \A n \in Names : SF_vars(CustomPackage(n))

----------------------------------------------------------------------------
(* Properties *)

(* Types. *)
TypeOK ==
  /\ scenario \in Scenarios
  /\ run \in 1..Len(scenario.lines)
  /\ pkg \in [Names -> Package]
  /\ repo \in [RepoNames -> Repository]
  /\ app \in Application
  /\ seen \in [pkg : [Names -> Package], repo : [RepoNames -> Repository], app : Application]
  /\ queue \subseteq Names
  /\ lbp \in [pc : {"list", "delete"}, work : SUBSET DOMAIN Line,
               todo : SUBSET Names, yields : BOOLEAN]
  /\ pkgp \in [pc : {"idle", "arbitrate", "source", "application", "status", "annotate"},
               name : Names \cup {None}, read : Package, synced : BOOLEAN,
               url : BOOLEAN, again : BOOLEAN]
  /\ faults \in 0..scenario.faults

Given(r) == {Job(scenario.lines[r], i) : i \in DOMAIN scenario.lines[r]}
(* What is given last of the highest priority. *)
Winner == CHOOSE w \in Given(run) : \A v \in Given(run) : v.priority <= w.priority
WinnerName == scenario.name[Winner.item]

(* Guard: there is a winner, nothing is level with it, what an earlier     *)
(* command line has given has its priority still, and items that share a   *)
(* CustomPackage share no GitRepository and are seen as they are.          *)
Orderly ==
  /\ Given(run) # {} /\ \A r \in 1..run : Given(r) \subseteq Given(run)
  /\ \A v \in Given(run) \ {Winner} : v.priority < Winner.priority
  /\ \A v, w \in Given(run) :
       v # w /\ scenario.name[v.item] = scenario.name[w.item] =>
         scenario.repo[v.item] # scenario.repo[w.item] /\ scenario.lag = {}

(* Once the package of the highest priority exists, and once it has the    *)
(* Application, no step of this invocation takes either from it: no delete *)
(* or overwrite by reconcileCustomPkg, no pass of a lower package that     *)
(* began on an older list.                                                 *)
WinnerStays ==
  [][ Orderly /\ run' = run =>
        /\ (pkg[WinnerName].item = Winner.item /\ pkg[WinnerName].priority = Winner.priority)
             => pkg'[WinnerName].item = Winner.item
        /\ app.item = Winner.item => app'.item = Winner.item ]_vars

(* What the exit check says of packages. *)
PackagesReady ==
  /\ \E n \in Names : pkg[n].start # 0
  /\ \A n \in Names : pkg[n].start # 0 =>
       pkg[n].synced /\ pkg[n].start = run /\ pkg[n].observed = run

Won ==
  /\ app = [item |-> Winner.item, url |-> TRUE]
  /\ repo[scenario.repo[Winner.item]].item = Winner.item

(* Guard: no package of the command line is skipped over an error, and a   *)
(* pass that reports a package as synced has applied its Application.      *)
ErrorsSurface == scenario.env \cap {"apierr", "pkgerr"} = {} /\ "app" \notin scenario.lag

(* When the exit check at the end of a Localbuild pass finds every package *)
(* synced in this invocation, the Application and its repository are made  *)
(* of the winner, not of a package that was there before.                  *)
ReadyMeansWon ==
  Orderly /\ ErrorsSurface /\ lbp = IdleLocalbuild /\ PackagesReady => Won

(* Guard: no report is lost. *)
ReportsLand == "report" \notin scenario.env

(* The last invocation comes to give the Application and the repository to *)
(* the winner, and every package to a report of this invocation, whatever  *)
(* the order of creation, deletion, takeover and garbage collection.       *)
EventuallyWon ==
  [](Orderly /\ ReportsLand /\ run = Len(scenario.lines) => <>(Won /\ PackagesReady))
=============================================================================
