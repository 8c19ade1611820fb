# A verification of idpbuilder

idpbuilder starts a local Kubernetes cluster, installs Argo CD, Gitea and
ingress-nginx in it, and keeps git repositories in that Gitea in step with
directories of the user.  This fork adds priorities for competing packages and
the `stacks` commands, which make a cluster and publish a whole git worktree to
it.  The modules here
model the parts of it in which order, failure and concurrency decide what the
user gets; TLC checks them on small instances, and TLAPS proves some of the
results for every instance.

Line numbers refer to the sources under `src/`; `PROJECT.json` names, for every
definition that models code, the lines it stands for.

## Inventory

| Part | State | Operations | Talks to | What is hard |
|---|---|---|---|---|
| `build.Run` (`pkg/build/build.go`) | the start time of the run | install the CRDs, start the manager, write the Localbuild, wait for the end | API server, manager | controllers run before the object of this run is written |
| Localbuild controller (`pkg/controllers/localbuild`) | Localbuild, `shouldShutdown` | install core packages; create repositories, applications and custom packages; passwords; exit check; cancel | API server, Gitea, Argo CD | an exit check over caches, errors that are logged and dropped, goroutines of installers |
| CustomPackage controller (`pkg/controllers/custompackage`) | CustomPackage status | arbitrate priorities, take over repositories, create the sources and applications | GitRepository objects | status and annotation are two writes; competing packages |
| GitRepository controller (`pkg/controllers/gitrepository`) | GitRepository status, clones on disk | create in Gitea or GitHub, clone, copy, commit, push, report | Gitea, the user's directory | a commit that is not pushed, partial copies, lost answers |
| `util.RepoMap`, clone helpers (`pkg/util`) | clones with a lock each | clone, open, check out, pull | other repositories | two locks, one clone for several refs |
| `stacks sync` (`pkg/cmd/stacks/sync.go`) | cache clone with HEAD, index, worktree, rewrite metadata; lock file | snapshot a worktree, rewrite image pins, commit, push | git, Gitea, other `stacks` processes | a cache that survives crashes, edits during the copy, two processes, pushes that are refused or unanswered |
| `stacks sync --watch` (`root.go`) | hash last synced, hash pending, debounce time | poll, debounce, sync, retry | the two above and below | edits during a sync, failures after the push |
| refresh of Argo CD (`sync.go`, `sync_planner.go`) | none of its own | plan the affected applications, refresh the root, then its children, wait for the revision | Argo CD | the set of applications changes between the two lists; superseded revisions; timeouts |
| `stacks create`, Talos (`create.go`, `talos.go`) | the cluster, kubectl's configuration, Tailscale devices, a goroutine and its channel | delete, create, label, bootstrap, sync | talosctl, kind, kubectl, scripts | a cleanup that runs beside the creation; reruns on what a failure left; errors that are ignored |
| kind cluster (`pkg/kind`) | the cluster, its flags | render, correct, create, recreate | kind | flags of an earlier invocation |
| installers (`localbuild/installer.go`, `gitea.go`, ...) | one timeout channel, the status | apply, wait until ready, get a token | API server, Gitea | one timeout for all, the first error cancels the others, each new token deletes the old |
| passwords (`localbuild/controller.go`, `util/gitea.go`, `util/argocd.go`) | secrets | change the password in the service, then in the secret | Gitea, Argo CD | two writes without a transaction, dropped errors |
| CRDs, CoreDNS, TLS, `get`, `delete`, `version`, printers, logger, telemetry | none | single calls, output | | |

What makes each part correct:

* *GitRepository controller.*  A commit has the whole directory; what is
  reported as synced is in Gitea; the content gets there in the end.
* *Localbuild, CustomPackage, exit check.*  The command ends only when
  everything it was given is in Gitea and healthy, and it does end.
* *Cluster, installers, passwords.*  A command works with the flags its cluster
  has; a password or token in a secret is the one the service takes; every
  package is installed in spite of passes that fail.
* *stacks create.*  A success leaves a complete cluster, and a new one when that
  was asked for; nothing that an earlier or this command started spoils it; a
  command returns.
* *stacks sync.*  What is pushed is a version of this worktree and nothing
  else; "synced" and "No changes to sync" are true; a failure leaves a cache
  that the next sync can use; nothing that was reported as synced is lost.
* *Watch loop.*  When it rests, Gitea has the worktree and Argo CD has been
  told of it.

The hazards behind these statements are listed in `PROJECT.json` with the line
at which they bite and the properties that cover them.

## Modules

| Module | Of | Contents |
|---|---|---|
| `GitRepositorySync` | GitRepository controller | one repository with a local source, from the user's directory to the exit check |
| `GitRepositorySyncProofs` | | proofs about it |
| `ExitOnSync` | Localbuild, CustomPackage and GitRepository controllers, `build.Run` | the exit decision over objects, caches and runs; the inside of a repository pass is abstracted |
| `ExitOnSyncProofs` | | proofs about it |
| `StacksSnapshot` | `stacks sync`, snapshot and push | worktrees, cache clones, branches in Gitea, lock, any number of processes |
| `SnapshotContract` | the same | what a snapshot promises, without cache, clone, lock and metadata |
| `StacksSnapshotProofs` | the same | its safety and its refinement of the contract, for every number of processes, caches, branches and files |
| `StacksPinsProofs` | the same | the bootstrap rewrite: no kustomization is published without its pins |
| `StacksWatch` | watch loop and refresh | the loop, the refresh in its modes, Argo CD |
| `RefreshPlan` | planner of the refresh | which applications a change concerns, by the index of the code and by what Argo CD renders |
| `StacksWatchProofs` | both | its safety for all repositories, kustomizations and edits: what the index has to have, and what the loop does with it |
| `PackagePriority` | Localbuild and CustomPackage controllers | several package files with one application: priorities, deletion, takeover, garbage collection |
| `PackagePriorityProofs` | the same | its safety for all package files, names and command lines |
| `CoreSetup` | `build.Run`, kind cluster, Localbuild controller | the cluster and its flags, the installers of a pass, tokens and passwords |
| `CoreSetupProofs` | the same | its safety for every number of commands and faults |
| `StacksCreate` | `stacks create` on kind and Talos | commands run one after the other on what the last one left, the asynchronous cleanup |
| `StacksCreateProofs` | the same | its safety for every number of workers and commands |
| `MC...` | | constants of the instances |

`StacksSnapshot` implements `SnapshotContract` (`KeepsContract`, checked as a
property by `INSTANCE ... WITH`).  `StacksWatch` is written on top of the
contract: its snapshot reads texts one after the other and ends in one push, a
no-op or an error, and has no cache.  It extends `RefreshPlan`.  `ExitOnSync` composes the three
controllers; it takes from `GitRepositorySync` that a pass either puts the
content in Gitea and reports it or reports a failure.  `PackagePriority` has the
same two workers and looks at what `ExitOnSync` leaves out: several packages for
one application.  It knows no exit, and the passes of the GitRepository
controller are one action of it.  `CoreSetup` is what comes before them: a pass of
the Localbuild controller up to the step that `ExitOnSync` begins with, which is
`Apps` or `Exit` there.  `StacksCreate` ends in a `stacks sync` and a `--watch`,
which are the phase "snapshot" and the modules above.

### GitRepositorySync

The files of the directory have numbers for contents, a larger one being newer.
`gitea`, `clone`, `repo` and `cache` are the repository in Gitea, the clone in
the temporary directory of the run, the object in the API server and its copy in
the informer cache.  One reconcile is a pass of steps in the order of the code:
`BeginPass` (96-134 of `gitrepository/controller.go`), `GetCredentials`,
`GetOrCreateRepository`, `OpenOrClone`, `CopyFile` once per file in any order,
`AddAllAndCommit`, `PushToRemote`, and then the two writes of
`postProcessReconcile`, `UpdateStatus` and `UpdateSyncAnnotation`.  Every error
path of the code goes to the status update, as the deferred call does.  Between
any two steps the user edits or deletes files, other writers change the object,
other clients push, and the command may be started again.

### ExitOnSync

`git`, `pkg`, `app` and `lb` are the objects, `seen` their copies in the
informer caches, `lbp`, `gitp` and `pkgp` the passes of the three workers (each
controller has one, `MaxConcurrentReconciles` is not set).  A Localbuild pass
stamps the start time of the run on repositories, applications and packages, one
write a step, and then reads three lists, one a step, to decide on the exit.
`pushed` and `done` are history: what really happened in this run.

The exit is promised in two ways.  `SyncedAtExit` says that nothing is
missing at the exit, in a first invocation the content of every package
included, whose repository it has then created; it needs caches
that do not trail and a manager that waits for the Localbuild, which the code
does not ensure, and is checked there against everything else.
`RepositoriesCounted` and `PackagesCounted` say what remains true of the code as it
runs: what the exit check does list, and takes for a part of this invocation, was
done in it.

### StacksSnapshot and SnapshotContract

A file of the worktree is one text; a file of the cache is the text it was
copied from and the release pins it was rewritten with.  A cache clone has HEAD,
index, worktree, remote-tracking branches and the metadata of the rewrite; HEAD
is 0 when it is unborn, which a cache is until it is cloned (`CloneCache`, with
whatever branch is the default of Gitea) and again from `CheckoutOrphan` to the
commit.  The steps of `pushSnapshotToRemote` are the actions
from `ListFiles` to `Save`; git commands are modelled by what they do to these
(`Checkout` moves each file that differs between HEAD and the branch and refuses
when index or worktree differ from HEAD there, where an unborn HEAD is the empty
tree, `Commit` refuses to commit nothing, `Accepts` is the fast-forward rule of the server).  `Fails` ends a
snapshot anywhere and leaves the cache as it is.  `during` and `held` are
history: the texts each file has had, and the commits the branch has pointed to,
since the snapshot began.  `create` is a process that takes no lock.

### StacksWatch

`last` and `pending` are the hashes of the loop, here the texts themselves;
`settled` says that the debounce time has passed.  `ListApps`, `RefreshRoot`,
`Observed`, `ListAppsAgain`, `RefreshApp` and `RefreshDone` are
`refreshAfterSync`.  Argo CD is external: an application observes the head of
the branch when it is told to, when it is new, or whenever it likes, but only the
first two are counted on; an operation of the root creates and prunes the other
applications.  `owed` is history: the last commit of this watcher that
changed what an application is rendered from.

The planner is in `RefreshPlan`, whose definitions are functions of a tree (the
worktree or a commit: a text for each file).  `Index` is the walk of
`addKustomizeDependencies` with its list of kustomizations seen (a place of the
walk is what is left to look at, with that list), `Indexable` the error it may end in, `Names` is `parseApplicationName` over files, `Affected` is
`planAffectedApplications`.  `ListApps` and `ListAppsAgain` make the plan of the
worktree as it is at that moment and of the applications there are; `PlanFails`
is the error, after the push.  The reference is `Reached`: the files that
kustomize comes to from the path of an application, in the commit that Argo CD
renders.  `RestMeansRefreshed` compares the two over whole behaviours: what the
plans of all the syncs have annotated covers every application whose rendering
a commit of the watcher has changed.

### PackagePriority

The items are package files that define one Argo CD application; a command line
is a sequence of them, each in a directory, a file or a URL.  `Index` is the
priority of an argument, `Precedes` the order in which Localbuild takes them, and
`lbp.work` the positions it has still to come to.  `scenario.name` and
`scenario.repo` say which items have a CustomPackage or a GitRepository in
common: the names are made of the base names of the package file and of its
directory.  `ListExisting`, `DeleteLower`, `Yield` and `CreateOrUpdatePackage`
are `reconcileCustomPkg`; `ShouldReconcile`, `ReconcileSource`,
`ReconcileApplication`, `UpdateStatus` and `Annotate` are a pass of a package.
`seen` has one cache per kind, and `scenario.lag` says which of them trail.  Uids
are needed for the garbage collector: a package that is deleted and created
again is another owner.  A takeover is an error until the garbage collector has
removed the repository, because `SetControllerReference` refuses an object that
has a controller already.  The server-side apply of the annotation creates a
package without a spec when the package was deleted during the pass.  A run
begins when its Localbuild is written; what an earlier start does is in
`ExitOnSync`.

### CoreSetup

`pc` is the command, from `Cluster.Reconcile` (`ReconcileKind`) and `isCompatible`
(`CheckFlags`) to the Localbuild it writes and the exit; the controllers may
begin a pass as soon as there is a Localbuild.  `step` is the pass, `inst` its
three goroutines, which interleave until the first error (`EndPass`, `Cancelled`)
or until all are over (`AllOver`).  `timer` is the channel of `time.After`, a
variable of the package: one value, for whichever installer takes it.  `secret`
and `service` are the passwords and the token on either side of each change;
`login` and `held` are what a pass has in its variables.  The steps from
`ArgoSecret` to `GiteaPatch` are the requests of `updateArgocdPassword` and
`updateGiteaPassword` one by one, with the answers that they take for an error
and those that they drop.  Gitea and Argo CD are external: `BecomeReady` is a
start of a pod, which in the case of Gitea sets the password of the secret.

### StacksCreate

A command is a walk down `Line`, the phases of `createKind` or
`createTalosDocker` in their order, without those that its flags leave out
(`Skipped`); `After` is the next.  A phase either has its
effect on the cluster, on kubectl's configuration or on the devices of the
Tailscale network, or fails by the environment; the error is returned through
the deferred wait for the goroutine (`Unwind`), or ignored where the code ignores
it.  `cleanup`, `answer` and `waited` are the goroutine, its channel and the
`sync.Once` with its error.  A cluster has the number of the command that made
it, its nodes, the capacity asked for, what has been done in it, and the cluster
that kubectl's context of its name leads to.  A command starts on what the last
one left: some containers, an old context, devices of an old cluster.

## Runs

A run expects "pass", or it expects the violation of something the repository
says about itself; the second kind shows a disagreement listed under
"findings".

The environments of one run are its `Scenarios`: a scenario says what may go
wrong (`env`, a set of names that each module explains), what the command lines
or modes are, and how much of it there may be.  A behaviour has one scenario,
which the variable `scenario` keeps; a property that holds in some environments
only has a state predicate over the scenario as its guard, so that the same
formula is checked here and proved below.  The guards are

| Guard | Says |
|---|---|
| `GitRepositorySync!PushesAccepted` | Gitea refuses no push |
| `GitRepositorySync!SafeEnv` | besides, either the passes succeed or their reports land |
| `ExitOnSync!SafeEnv` | the manager waits for the Localbuild, caches do not trail, packages are created and processed without error |
| `StacksSnapshot!OneLock` | whoever uses a cache takes the lock, and for one branch |
| `StacksSnapshot!SafeEnv` | besides, no file is a link, and the inputs of the rewrite rest while it runs |
| `StacksSnapshot!NoReset` | nobody replaces the history of a branch (`--reset-local-history`) |
| `StacksSnapshot!OneCache(p)` | whoever syncs to the branch of p does so through its cache |
| `StacksWatch!RefreshesLand` | a sync that has pushed also refreshes |
| `StacksWatch!IndexIsOfCommit` | the references of every tree lead to something and in no circle, what a directory or a kustomization contributes by being there is not deleted, and references do not change during a sync |
| `StacksWatch!EditsSeen` | besides `RefreshesLand`, the loop sees every edit before its sync, and no sync waits for an application that its own commit removes |
| `PackagePriority!Orderly` | something is given, one item has the highest priority, what was given before has its priority still, items that share a CustomPackage share no repository and no trailing cache |
| `PackagePriority!ErrorsSurface` | besides, no package is skipped over an error, and a package reported as synced has applied its Application |
| `PackagePriority!ReportsLand` | besides `Orderly`, no status or annotation is lost |
| `CoreSetup!Guarded(kinds)` | the kinds of `EnvKinds` that it names do not occur |
| `StacksCreate!Faultless(kinds)` | the same |

| Run | Checks | Shows |
|---|---|---|
| GitRepo, `MCGitRepositorySync` | `TypeOK`, `ReadyMeansPushed`, `ReportsPublished`, `CommitIsComplete`, `AcceptedIsPublished`, `EventuallyReady` | A repository of two files through two invocations, in four environments: passes that fail anywhere, reports that are lost or race with other writers, everything but a refused push, and everything. No report is false, no commit is incomplete, and both the content and its report come through. |
| GitRepoLostPush (violation), `MCGitRepositorySync` | `EventuallyPublished` | One refused push loses the commit for the rest of the invocation: the next pass finds a clean worktree and reports it as synced. |
| ExitSafe, `MCExitOnSync` | `TypeOK`, `SyncedAtExit`, `ReadyPackageHasRepository`, `RepositoriesCounted`, `PackagesCounted` | Two invocations, the first of them interrupted or failing anywhere, packages dropped from the second command line; a first invocation with two packages; one with every fault; and the exit check as it runs, on trailing caches or under a manager that starts before the Localbuild is written: what it accepts was done in this invocation, all of it where caches do not trail, and what it has seen in every case. |
| ExitLive, `MCExitOnSync` | `EventuallyExits` | Failing passes and writes before a second invocation, and caches that trail the API server: the last invocation comes to its exit. |
| ExitRerun (violation), `MCExitOnSync` | `ExitMeansSynced` | On a second invocation a package does not take over the repository it owns already, so its start time is not stamped and the exit check passes over it: create exits before the changed content is pushed. |
| Snap, `MCStacksSnapshot` | `TypeOK`, `PushIsOwn`, `PinnedWhenAsked`, `FailsForCause`, `CacheExclusive`, `SyncedStays`, `KeepsContract` | One watcher with the bootstrap rewrite; two processes on one cache, with and without the rewrite, or with and without --reset-local-history; two caches that push to one branch; a history that is replaced. Whatever failed before, what is pushed is of the worktree, a success is true, and a failure has a cause outside the cache. |
| SnapBranches (violation), `MCStacksSnapshot` | `OwnPush` | Two branches have two locks and one default cache: one process pushes what the other has put into it. |
| Watch, `MCStacksWatch` | `TypeOK`, `RestMeansRefreshed`, `SeenIsPublished`, `SeenIsObserved` | Edits at any time, syncs that fail, kustomizations that come to share files, a root that adds or replaces applications, commits of others and every fault: when the loop rests every application whose files changed has been told to look, so the plan misses none, and edits the loop sees come to Gitea and to Argo CD. |
| WatchMidsync (violation), `MCStacksWatch` | `EventuallyPublished` | An edit while a sync runs, behind the copy: the loop takes its hash as synced and rests while Gitea has the old text. |
| Priority, `MCPackagePriority` | `TypeOK`, `ReadyMeansWon`, `WinnerStays`, `EventuallyWon` | Packages of one application, with CustomPackage objects of their own or one between them, a repository of their own or one between them: a second invocation that adds a package of a higher priority, with and without an interruption; directories and files; failing passes and writes; each informer cache trailing. The highest priority wins, keeps what it has, and is what the exit check waits for. |
| Create, `MCStacksCreate` | `TypeOK`, `SuccessIsComplete`, `RecreateIsFresh`, `StrictIsClean`, `OthersUntouched`, `DevicesStay`, `EventuallyReturns` | Three creates in a row, on kind and on Talos, with and without --recreate, --strict-access and --enforce-slo: every phase may fail or be interrupted, clusters survive their destruction, the cleanup of the goroutine ends early, late or with an error. What a successful create leaves is complete and, recreated, new; the cleanup never reaches the devices of the new cluster; and every create returns. |
| Setup, `MCCoreSetup` | `TypeOK`, `FlagsMatch`, `PasswordsAgree`, `TokenIsCurrent`, `ExitMeansRotated`, `EventuallyReady` | One to three invocations of create, with and without --dev-password and --recreate: installers that fail beside each other, the one timeout, lost tokens and status updates, stale secrets, pods that restart, failures around a change of password, interruptions. Flags, passwords and tokens match, and the core packages come up. |

The scenarios of each run are in the module `MC...` it names.

### Excluded environments

Outside the guards the properties fail, and TLC shows how.  Where the
repository says otherwise and one of the runs above shows it, it is a finding;
these are the others, each with the line that makes the difference:

| Without the guard | What TLC finds | Line |
|---|---|---|
| `GitRepositorySync!SafeEnv`: passes and reports both fail | the status update of a failed pass fails and its annotation does not: Synced of an earlier invocation counts as of this one | gitrepository/controller.go:120 |
| `ExitOnSync!SafeEnv`: early | the Localbuild of the last invocation is reconciled before this one is written, and the command exits on the old reports | build.go:236 |
| `RepositoriesCounted`: trailing caches and failing passes together | two passes of an embedded repository fail, of which the first has read it as it was before this invocation stamped it and the second as it was before the first wrote its annotation: both status updates conflict, Synced of the earlier invocation stays, and the annotation makes it a report of this one | gitrepository/controller.go:120 |
| lag | the exit check lists repositories from a cache that does not hold the one a package has just created | localbuild/controller.go:370 |
| apierr | a CustomPackage that could not be created is only logged, and the exit check has no package to wait for | localbuild/controller.go:619 |
| pkgerr | a failed pass of a package keeps Synced of an earlier invocation and writes the annotation of this one | custompackage/controller.go:64 |
| `EventuallyExits`, leftover | a package of an earlier command line has an old start time and the exit check never passes | localbuild/controller.go:421 |
| annotate | a lost annotation of a synced package is never written again | custompackage/controller.go:69 |
| `StacksSnapshot!SafeEnv`: race | an input of the rewrite is edited between its copy and the metadata, which records the new text as published | sync.go:759 |
| `NoReset`, for `PinnedWhenAsked` | a snapshot that replaces the history fails, and leaves a cache without HEAD and without the deleted file of the pins; the next one has no HEAD to go back to, finds that no input has changed, and publishes the old pins | sync.go:631, 656 |
| `NoReset` or `OneCache`, for `FailsForCause` | a sync with `--reset-local-history` is killed between add and commit, or the first sync into an empty Gitea is and another cache makes the branch: HEAD is unborn and the index is not empty, nothing is reset, and git refuses the checkout in every later plain sync, until what was added is what the branch has | sync.go:639, 651 |
| `OneLock` | `create --watch` takes no lock: beside a sync, a snapshot is reported a success that was never on the branch | root.go:146 |
| `NoLinks` | a link that comes to name another file, or replaces a file, makes os.Symlink fail in every later sync; one that becomes a regular file is written through the link in the cache, into the file it names | sync.go:1135, 1142 |
| `StacksWatch!EditsSeen`: unsynced | an edit before the first hash is never published | root.go:539 |
| lostack, timeout | a sync pushes and fails, the user takes the edit back, and the loop finds the hash of its last success | root.go:561 |
| vanish | a file that vanishes while it is hashed ends the loop | root.go:558 |
| `EditsSeen`: an application of the plan is removed by the root | the sync fails after its push, the user takes the edit back, and the loop finds the hash of its last success | root.go:561, sync.go:210 |
| `IndexIsOfCommit`: a manifest of a plain directory, or a kustomization, is deleted | the index of the worktree does not have it any more: the application that lost it is not refreshed | sync_planner.go:249 |
| a reference to nothing, or a source path deleted by the commit | the plan fails after the push, and the retry finds nothing to push: nothing is refreshed, of any application | sync_planner.go:201, sync.go:75 |
| references edited during a sync | the plan is made of the worktree, not of the commit: an application whose reference to a changed file is taken out of it meanwhile is missed, though the commit still has it | sync_planner.go:168 |
| `RefreshesLand`: refresh, timeout | the retry of a failed refresh finds nothing to push and refreshes nothing | root.go:579, sync.go:75 |
| `PackagePriority!Orderly`: items that share CustomPackage and repository (`app.yaml` and `manifests` in both directories) | a second invocation that adds the higher one does not change the repository, which the package owns already: the Application is served from the lower directory, and is reported as synced | custompackage/controller.go:116 |
| a package given at a lower index than before | it steps back for its own object of before, whose start time stays old: the exit never comes | localbuild/controller.go:474 |
| a package given at a higher index than before | its own object is deleted and created again; it uses the repository of the old one, which the garbage collector then removes for good | localbuild/controller.go:484 |
| a directory and a file | an index counts in the list of its kind, so that both have priority 0 and both reconcile the Application | localbuild/controller.go:259 |
| two packages in the opposite order | each has the priority the other has still: both reconcile the Application | custompackage/controller.go:181 |
| one cache, one CustomPackage for two items | between the list and the update the cache catches up, and the lower item overwrites the higher, until the next pass | localbuild/controller.go:462 |
| `PackagePriority!ErrorsSurface` | the status is set before the Application is written: when that fails the package is reported as synced | custompackage/controller.go:386 |
| `PackagePriority!ReportsLand` | a lost status of a synced package is never written again | custompackage/controller.go:64 |
| `CoreSetup!Guarded`: early | a command that ends between making the cluster and writing the Localbuild leaves no flags to compare with: the next one works with others than the cluster has | build.go:136 |
| rotate | the password is changed, and an error or an interruption comes before the secret: every later pass of Gitea fails with the old password, and that of Argo CD leaves it so | localbuild/controller.go:811 |
| argodown, read | Argo CD answers with an error, or a secret cannot be read: the change is skipped without an error, and the command ends | localbuild/controller.go:769 |
| lag | a pass that reads a secret without its token makes another, which deletes the one that was in use | localbuild/gitea.go:106 |
| `StacksCreate!Faultless`: switch, on kind | nothing selects the context of a kind cluster that exists: the bootstrap goes to the cluster kubectl is turned to | create.go:604 |
| phase, interrupt, on kind | the patch of the registry address is a step of the creation, which a rerun skips | create.go:160 |
| kubectl | the context of the old cluster survives, and a cluster that survived its destruction is taken for the new one | create.go:573 |

A failed `talosctl cluster show` is taken for "no cluster" and removes the context of a
healthy cluster; the creation then fails, because its names are taken, and that
is what `SuccessIsComplete` allows.  Without `--recreate`, `--strict-access` does not
look at the error of the cleanup before the creation.

`EventuallyReady` of `GitRepositorySync` is stated of scenarios with "conflict" only: the others leave
out the interleavings in which the owner writes during a pass, and may so shut
the owner out for ever, which the code does not.

### Bounds

The bounds are fields of the scenarios (`edits`, `runs`, `syncs`, `foreign`,
`faults`), each in the guard of the actions it bounds.

* `GitRepositorySync`: two files give incomplete copies; `edits` counts from the
  first text, 2, so that 4 is two edits after it; two invocations give a report
  of an earlier one; two faults give a failed pass with a failed status.
* `ExitOnSync`: one embedded package, and one custom package, or two in a single
  invocation, so that the exit check can find one ready and another not; two
  invocations give leftovers and stale reports; one fault in each.  Trailing
  caches multiply the states: a custom package is taken with them in one
  invocation (`Anything`), two invocations with the embedded package alone
  (`CachedCore`); what a package needs of two invocations with trailing caches is
  not run but proved (`PackagesEarned`, for any number of packages and runs).
* `StacksSnapshot`: two processes are all that a lock, a branch or a cache can
  be contended by in a pair-wise argument; two files separate an input of the
  rewrite from what it rewrites; three snapshots give one that prepares the
  cache, one that fails and one that is misled; a scenario varies either the
  processes or the rewrite, but for one that has both a rewrite and a history
  that is replaced.  Where a plain sync follows one with `--reset-local-history`
  in the same cache, a file has two texts besides its absence, so that what the
  failed one has added may be neither that of HEAD nor that of the branch.
* `StacksWatch`: a root and two children, the second of which a text of the root
  adds or puts in the place of the first; the first has a kustomization that
  refers to a shared one and comes to refer to a file more, the second is a
  directory: seven files, of which an edit changes any number.  Each scenario
  has the worktrees its question needs; two edits, of which one may fall into a
  sync or before its retry; one fault; one commit of somebody else.  Larger
  graphs are not needed for the walk to matter (the mutant `IndexOnce` follows one
  reference and is caught); the list of those seen would only decide in a graph
  with a circle, which kustomize refuses.
* `PackagePriority`: three items, so that the loser of one arbitration may meet
  another; two invocations, the second of which adds a higher package; a fault;
  one trailing cache at a time, and that of the packages in a single invocation.

* `CoreSetup`: up to three invocations, so that flags and clusters of two can
  meet those of a third; two faults: one to leave a state and one in it; the
  scenarios part the faults by what they can do to each other.
* `StacksCreate`: three commands, to leave a cluster, to replace it, and to come
  upon what the second left; two workers, so that containers may survive in
  part; two faults, and three where a cluster survives, is not seen and has its
  cleanup fail.

Deadlock checking is off in the runs of `StacksWatch`, which rests when the bounds
are used up or when an error of the hash has ended the loop, and in `Create` and
`Setup`, which end when the last command has.

### Fairness

* `GitRepositorySync!FairSpec`: a pass is always followed by another (an error
  is requeued, success asks for `RequeueAfter`), the informer delivers, the
  owner stamps the start time.  Nothing is assumed of the user or of faults.
* `ExitOnSync!FairSpec`: Localbuild passes are requeued.  A repository or a
  package has strong fairness because its worker is shared: the work queue is
  first in, first out, so that an object that is queued again and again is
  taken again and again.  A package is only queued when the code queues it.
* `PackagePriority!FairSpec`: as in `ExitOnSync`; besides, the GitRepository
  controller publishes the URL of a repository, and the garbage collector
  removes what has lost its owner.  Nobody has to start another invocation.
* `CoreSetup!FairSpec`: commands and passes go on, and a pod that is asked for
  comes up.  The installers are goroutines of one pass: none is for ever
  overtaken, before it has applied anything, by another that fails (strong
  fairness of `Apply`).  Without that, nginx might never be installed while the
  ingress of Argo CD is refused for want of it.
* `StacksCreate!FairSpec`: a command goes on as long as it has something to do,
  and the cleanup script ends; the code sets neither a limit.
* `StacksWatch!FairSpec`: the ticker ticks, commands return, the debounce time
  and the timeout pass, Argo CD follows a refresh annotation, looks at new
  applications and carries out operations.  No webhook and no poll of Argo CD is
  counted on, for the refresh of the loop is what is to be shown sufficient.

### What the findings say

* GitRepoLostPush, `src/pkg/controllers/gitrepository/controller.go:208`: addAllAndCommit commits before the push; when the push fails, the next pass finds a clean worktree, returns push = false and the pass is reported as Synced, so the commit never reaches Gitea in this run. src/pkg/controllers/gitrepository/controller.go:180-181 says "Keep requeueing to detect source file changes, but addAllAndCommit already checks if there are changes before pushing", src/docs/pluggable-packages.md:69 says "The primary purpose of the in-cluster git server is to sync local files to it, then make them available for ArgoCD to use."
* ExitRerun, `src/pkg/controllers/custompackage/controller.go:116`: On a second create, reconcileArgoCDSourceFromLocal finds the package's own repository, thisPriority > ownerPriority is false, and the repository is returned without its new start time; shouldShutDown skips it as not of this invocation and create exits although its content was not pushed. src/pkg/cmd/create/root.go:40 says "When set, idpbuilder will not exit after all packages are synced.", i.e. by default it exits after they are.
* SnapBranches, `src/pkg/cmd/stacks/sync.go:588`: The default cache directory has no branch in its name while syncLockPath (src/pkg/cmd/stacks/root.go:298) does, so two branches use one clone at a time; src/pkg/cmd/stacks/root.go:274 advises "stop the active watcher/sync or use a separate --cache-dir or --branch". The run shows one of them pushing files of the other worktree.
* WatchMidsync, `src/pkg/cmd/stacks/root.go:583`: After a sync the loop takes a new hash of the worktree as what was synced: a file edited behind the copy is in that hash and not in Gitea, and the loop rests. src/pkg/cmd/stacks/root.go:216 says of --watch "continue syncing local worktree changes".

## Proofs

TLAPS proves the theorems below for every set of files and packages and for
every set of scenarios, that is for every environment and every bound.  The
assumptions are the `ASSUME`s of the modules (a scenario is a record of known
kinds and natural numbers, the sets of names are disjoint), which TLC evaluates
in every run.

| Theorem | States |
|---|---|
| `GitRepositorySyncProofs!TypeCorrect` | Types, for every set of files and every scenario. |
| `GitRepositorySyncProofs!CommitsComplete` | Every commit to be pushed or reported holds every file of the directory, under every failure of the environment. |
| `GitRepositorySyncProofs!ReadyIsTrue` | In every scenario in which pushes are accepted and either the passes or their reports succeed, the exit check accepts a repository only if its content is in Gitea, for any number of invocations, edits and faults. |
| `GitRepositorySyncProofs!ReportsArePublished` | In every scenario in which pushes are accepted, a commit reported as synced is the one Gitea holds. |
| `ExitOnSyncProofs!TypeCorrect` | Types, for every set of packages and every scenario. |
| `ExitOnSyncProofs!RepositoriesEarned` | When the exit check goes on from the list of repositories, each that it takes for one of this invocation was pushed in it: with trailing caches, an early manager, interrupted invocations and lost writes, for any number of packages and invocations; failing passes of a repository are allowed in the first invocation, and in every one where caches do not trail. |
| `ExitOnSyncProofs!PackagesEarned` | When it goes on from the list of packages, each that it has seen was processed without error in this invocation, and a repository made for one in this invocation was pushed, whatever the caches showed and whatever failed but a pass of a package of an earlier invocation. |
| `ExitOnSyncProofs!ReadyHasSource` | In every scenario, with trailing caches and lost annotations, a ready package has the repository of its source with its URL. |
| `CoreSetupProofs!TypeCorrect` | Types, for every sequence of commands, flags and faults. |
| `CoreSetupProofs!RunsWithItsFlags` | A command that gets past the check of the flags has those that the cluster was made with, unless one was interrupted before it wrote them, and runs without --dev-password only where no service has that password. |
| `CoreSetupProofs!SecretsAreTrue` | Without the two faults of the guard, a secret has the password that its service takes, outside the steps that are changing it, whatever passes fail, restart or are interrupted. |
| `CoreSetupProofs!TokensWork` | Once the status says that Gitea is available its secret has a token; without the faults of the guard a token in the secret is the one Gitea takes, outside the steps that are changing it. |
| `CoreSetupProofs!ExitIsRotated` | A command with --dev-password that has ended well leaves both secrets with that password, under the guard of the property. |
| `StacksSnapshotProofs!TypeCorrect` | Types, for every number of processes, caches, branches and files. |
| `StacksSnapshotProofs!OnePerCache` | Where whoever uses a cache takes its one lock, no two processes are at work in one cache. |
| `StacksSnapshotProofs!PushesItsOwn` | In every scenario of the guard, what a snapshot pushes was, file by file, in its worktree while it ran, whatever earlier snapshots left in the cache and whoever else pushes. |
| `StacksSnapshotProofs!FailsWithCause` | In every scenario of the guard, a snapshot that met no fault fails only for a file that vanished, a branch that another pushed to, a branch that is not there, or a checkout that git refuses from an unborn HEAD; and the last never where nobody resets a history and a branch has one cache: there every cache that has anything in its index has a HEAD to be reset to. |
| `StacksSnapshotProofs!SyncedIsKept` | Where caches are locked and nobody replaces a history, what a snapshot reported as synced stays in the history of its branch. |
| `StacksSnapshotProofs!ContractKept` | In every scenario of the guard, every behaviour of snapshots with caches, locks, metadata, faults and lost answers is one of the contract, which has none of these. |
| `StacksPinsProofs!RewritesAreKept` | A successful sync with the bootstrap rewrite leaves no kustomization on the branch without the release pins of its time, though it skips the rewrite when the hashes have not changed; unless an input is edited meanwhile or a history is replaced. |
| `StacksCreateProofs!TypeCorrect` | Types, for every set of workers, every sequence of commands and every bound on the faults. |
| `StacksCreateProofs!CompleteAtSuccess` | A create that succeeds has done every phase whose error it returns, on a cluster with all its nodes and, on Talos, the capacity asked for, whatever earlier commands left half done. |
| `StacksCreateProofs!FreshAfterRecreate` | A successful create with --recreate leaves another cluster than it found, although every error of the destruction is ignored; unless kubectl cannot forget a context. |
| `StacksCreateProofs!CleanWhenStrict` | A successful create with --recreate and --strict-access leaves no device of a predecessor in the network, whenever the goroutine ends. |
| `StacksCreateProofs!OthersAreLeft` | Nothing is bootstrapped in another cluster, on Talos even where the user turns kubectl to one between two commands. |
| `StacksCreateProofs!DevicesAreKept` | From the root application on, no step of this command or of a goroutine removes a device. |
| `PackagePriorityProofs!TypeCorrect` | Types, for every set of package files and names, every sequence of command lines and every bound on the faults. |
| `PackagePriorityProofs!WinnerKept` | In an orderly invocation nothing takes the package or the Application from the item of the highest priority once it has them, whatever passes began on older lists, whatever fails, and whatever an earlier invocation left. |
| `PackagePriorityProofs!ReadyIsWon` | Under the guard of the property, when the exit check finds every package synced in this invocation, the Application and its repository are made of the item of the highest priority, with uids that are used again, trailing caches and interrupted invocations. |
| `StacksWatchProofs!TypeCorrect` | Types, for every repository, every set of scenarios and every bound on edits and faults. |
| `StacksWatchProofs!PlanCovers` | A change from one commit to the next that makes a difference to how kustomize renders an application is found in the index that the walk makes of the worktree, though the worktree may be another tree with the same references. |
| `StacksWatchProofs!RestRefreshed` | Under the guards of the property, when the loop rests every application has observed the last commit of this watcher that changed it, or has been told to look, or is new, whatever syncs failed, whatever was edited between the steps, and whatever applications the root created or pruned meanwhile. |

*GitRepositorySync.*  `ReadyMeansPushed` is not inductive: whether a report is
true depends on where it comes from.  `CopyInv` follows a pass from the listing
to the report (what has been copied is at least as new as when the run began)
and needs nothing of the environment; with it every commit is complete.
`ReportInv` says of each place a report passes through, the pass, the object and
the cache, that a report which the exit check could take for one of this run is
about pushed content; `CloneInv` says that the clone has nothing that Gitea
lacks except between commit and push.  Both need the guard of their property.

*ExitOnSync.*  The invariants hold in every environment; what an environment
spoils is a premise of the conjunct.  `StampInv` bounds every start time, on the
server, in the caches and in the workers, by the invocation.  `FreshInv` deals with
the early manager: the Localbuild worker may be on an old pass only as long as
nothing anywhere bears this invocation, so that no stamp is ever taken back.
`RepositoryInv` has three arguments for a report of this invocation to be true:
where no pass fails, because the annotation alone is earned (`UnfailingInv`);
where caches do not trail, because the pass writes its status to the very object
it has read (`CurrentInv`); and in the first invocation, because there is no older
report (`FirstInv`).  `PackageInv` needs no cache to be current: a report of an
earlier invocation stands for a repository that the caches show with its URL from
the start of this one (`ShownInv`), so that every pass works the status out again
with the same result, and a package repository with a URL was pushed by the
invocation that made it (`MadeInv`).  `LocalbuildEffect` and `SourceEffect` state what
a step does to the objects, and the invariants use them instead of the actions.
`UrlInv` says that only the status update of a pass writes a URL, that a pass which
has read one finds the repository in Gitea, and that a URL stays; it gives
`ReadyHasSource` and half of `PackageInv`.

*StacksSnapshot.*  Any number of processes, caches, branches and files, with
every order of their steps.  `LockInv` says that whoever is at work holds the
lock it takes; with `OneLock` that makes a cache belong to one process, which is
`CacheExclusive`.  `SafeInv` follows each snapshot on its own: `SourceOf` keeps the
listing within what was in the worktree since it began; `CopyOf` says for each
step how much of the cache, of its index and of its HEAD is of the worktree;
`BranchOf` places HEAD in what the branch has been since the snapshot began;
`OutcomeOf` is what an ended snapshot may report.  `ClonedInv` and `RootInv` are about
the one failure that a cache can cause: a directory that is not cloned is empty,
and where nobody resets a history and a branch has one cache, a HEAD that is
unborn means that the branch does not exist, so that there is nothing to check
out.  One lemma for each step keeps
these for its process, and one (`OthersKeep`) says that no other process disturbs
them: a cache is changed by its process only, and the branch only grows in what
was seen of it.  `SyncedInv` needs the history of commits to be transitive
(`HistoryInv`).  `ContractKept` then shows that each step, seen through the
refinement mapping, is a step of `SnapshotContract` or none: starts, edits and
ends are those of the contract, a push is its publication even when the answer is
lost, and everything else goes unseen.

*Pins.*  A sync with the bootstrap rewrite skips it when no input has changed,
by hashes that it keeps beside the cache.  `MetaPins` says that what was hashed
together was pinned together; `SavedOf`, that a cache with hashes has a HEAD and
its branch exists; `CommitPins`, that a commit with a pin holds the file it is
of; `WayOf`, that on the way to the commit each kustomization is pinned already or
will be rewritten.  The proof shows where the shortcut would break: an edit between the copy
and the hashes ("race"), and a cache that has lost its HEAD (`NoReset`).

*CoreSetup.*  Whether a secret is true depends on the pass that is changing it,
on the pods it talks to and on the command that asked for the change.  `BuildInv`
says in which cluster there is a Localbuild, `StaticInv` and `FlagsInv` follow the
flags from the command line to the cluster, into the Localbuild and to the
comparison that the next command makes.  `AgreeInv` says at each step of the
rotation which password the service takes and that its pod still answers;
`TokenInv` places every token that a status shows in the secret; `RotatedInv`
says what a pass has changed by the time it has reached each step.
`InstallerEffect` and `PasswordsEffect` state what the steps of the installers and
of the rotation may touch, so that every invariant is carried over them without
opening their actions again.  Each part has the guard of its property.

*StacksCreate.*  No property of a successful create is inductive: it is about
all the steps since the command began, and about what earlier commands left.
`KindAfter` and `TalosAfter` say what follows each step, for every command line:
with them `Place` keeps the command on its line.  `AsyncInv` says that the channel
holds the answer of the goroutine until it is read, that nothing passes the wait
before the root application without it, and that with --strict-access a bad answer
is passed by nothing; `DeviceInv`, that after a good one only the new cluster has
devices.  `ClusterInv` says from which step on the cluster is whole and kubectl
turned to it; `FreshInv`, that a cluster which survived its destruction has lost
its context and is caught by the check of it; `BootInv`, that of the phases before
the present one, in the order `Rank`, the fatal ones are done in this cluster.

*PackagePriority.*  Neither property is inductive: a lower package may have read
its list, its repository or the Application long before the winner came.  The
invariant speaks of a `Top`, an item whose priority is above all that was given
so far and that shares its names as `Orderly` says; the `Winner` of an orderly
invocation is one (`WinnerIsTop`; that there is a highest priority at all is
`HighestExists`, by the well-foundedness of the numbers).  `OriginInv` and
`PassInv` say that every object, cached object and read comes from a command
line, so that whatever is not the winner is lower.  `WinnerInv` follows the
winner: what a cache has of it the server has (`Cached`), a pass that has read it
is about the object there is (`Read`), no pass of another package goes past the
arbitration once the Application is the winner's (`Applied`), and no list of
Localbuild has its package among those to delete or to overwrite (`Spared`).
`GivenInv` says that its turn in a pass makes its package, `RepoInv` that a
repository owned by it is for its uid and its item, whatever the garbage
collector and the reuse of uids do, and `SyncedInv` that a status that says synced,
wherever it is on its way, is true of the Application and the repository.  Every
step within an invocation has a lemma for each part; the next invocation, which
may bring another winner, is a section of its own.  The proof assumes that the
names are finitely many, for a fresh uid to exist.

*StacksWatch.*  The plan is made of the worktree at the time, and what matters is
the difference of two commits as Argo CD renders them.  The first part is about
trees alone.  Of two recursive functions, the walk of `Index` and what is below a
path, nothing is known until they are shown to exist: they only collect, so the
least closed sets are a solution (`Fixpoint`).  `Underway` is the invariant of the
walk (all that is not yet in the index is left to be looked at); each step of it
reads another kustomization or leaves less to do, so that it ends, by the
well-foundedness of the numbers twice, with a set that is closed under references,
which has all that an application reaches (`IndexComplete`).  `PlanCovers` carries
that from the worktree to the commits: if no file of the index differed, no
kustomization would, the same would be reached in both, and the rendering would
be the same.  It needs `IndexIsOfCommit` of the trees, and that references lead in
no circle, as kustomize demands.  The second part is about the loop.  `TextsInv`
takes the texts of every commit from worktrees of the user, `ReferencesInv` keeps
the references of the worktree those of the commit until the last plan is made,
and `HandInv` says of an application that is behind that it is for the last commit,
that this commit changed it, and at which steps it is still to be told.  The plan
has it at both lists (`PlanHas`), and no error can come between
(`PlanIsMade`, `HandWatcher`).

Only model-checked: liveness under fairness (`AcceptedIsPublished`,
`EventuallyReady`, `EventuallyExits`, `SeenIsPublished`, `SeenIsObserved`,
`EventuallyReturns`, `EventuallyWon`).
Liveness and ENABLED are out of the reach of the prover, and so is induction
over data with the theorems of the library and everything about RECURSIVE
operators; the modules have none.

## Abstractions

* Contents are model values or numbers; hashes are the contents they stand for
  (no collisions).  Formatting, logging, output and telemetry are left out.
* `GitRepositorySync`: a second Reconcile of the same object never runs beside
  the first, as controller-runtime guarantees; the template substitution in
  embedded sources does not change which files there are.
* `ExitOnSync`: one pass of the GitRepository controller is atomic up to its
  report.  The additional requeue after an Application has first been created is
  left out: `Requeue` covers packages that are not synced.  Packages have one
  local source and different names; priorities are in the plan.
* `StacksSnapshot`: symbolic links lead one level and are not inputs of the
  rewrite; a worktree is never empty; the script that rewrites image pins is
  external and replaces every pin; HEAD of a new clone is on any of the branches;
  the `index.lock` of a killed git is not modelled.  The inputs of the rewrite are edited during a rewriting sync only with "race".
* `CoreSetup`: the manifests of a package are applied in one step, and its
  deployments are one; an installer that a pass leaves behind may still take the
  timeout, which can only spare a later pass; the pod of Gitea does not restart
  between the change of its password and that of the secret without "rotate";
  CRDs, CoreDNS and certificates are applied before the Localbuild is written,
  and their failures are those of "early".  A change of the Gitea password that gets
  no answer is an error, while the code looks into the answer that is not there
  (localbuild/controller.go:808).
* `StacksCreate`: the inside of the scripts and of the phases after the creation is
  abstracted to "done in this cluster"; clusters under legacy names, the parsing of
  capacities and telemetry are left out.
* `RefreshPlan`: a kustomization has one list of references, whatever field they
  are in; references to URLs are no references, and none lead in a circle in a
  repository that Argo CD can render; paths that leave the repository
  are not there; an application has one source; a manifest defines one application.
* `StacksWatch`: the hash of the worktree is taken in one step; there is always a
  root application; a revision newer than the commit ends the wait at once,
  while the code does so at the timeout when its cache does not have the newer
  commit (both return the same error).  The same module stands for
  `create --watch` after `create` has synced, but for the bootstrap rewrite.

## Plan

In this order; each module with its properties, runs and proofs.

1. `RepoLocks`: `RepoMap`, the two locks of `reconcileRemoteRepoContent` and the
   checkout of refs in a shared clone; no deadlock, and the content of the ref
   that was asked for.
2. `KindConfig`: `ensureCorrectConfig` against "port and label on one node".
3. `ensureGiteaRepository` and the webhook under lost answers.

Not planned, with the reason in `PROJECT.json`: output and single calls.
