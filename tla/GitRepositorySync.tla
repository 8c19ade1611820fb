------------------------- MODULE GitRepositorySync -------------------------
(***************************************************************************)
(* The GitRepository controller for one local-directory repository: it     *)
(* copies the package directory of the user into a working clone, commits, *)
(* pushes to Gitea, and then reports in two separate API writes, the       *)
(* status (Synced, internal URL) and the last-observed-cli-start-time      *)
(* annotation.  Localbuild's exit check reads both through the informer    *)
(* cache.                                                                  *)
(*                                                                         *)
(* A file's content is the number of the edit that wrote it, so a larger   *)
(* number is a newer content.  Runs of the command line are numbered; a    *)
(* run number stands for its cli-start-time.                               *)
(***************************************************************************)
EXTENDS Naturals

CONSTANTS
  Files,        \* the files of the package directory
  Scenarios     \* the environments a behaviour may run in, with their bounds

EnvKinds ==
  { "pass",      \* a call before the report fails: credentials, get, create, clone, copy
    "push",      \* Gitea does not accept a push
    "lostack",   \* Gitea accepts a push and the answer is lost (gitHTTPTimeout)
    "foreign",   \* somebody else pushes a commit to the Gitea repository
    "delete",    \* the user deletes files of the directory
    "conflict",  \* other writers of the object race with a pass
    "status",    \* the API server fails a status update
    "annotate" } \* the API server fails an annotation apply

ASSUME BoundsAssumption ==
  Scenarios \subseteq [env : SUBSET EnvKinds,  \* what the environment may do
                       edits : Nat,             \* bound: number of the last edit
                       runs : Nat,              \* bound: invocations of the command line
                       faults : Nat]            \* bound: failures it injects

Absent == 0      \* the file does not exist
Truncated == 1   \* os.Create emptied the destination and the copy went no further
FirstEdit == 2

VARIABLES
  scenario,  \* the scenario of this behaviour; it never changes
  src,       \* src[f]: content of f in the user's directory
  edits,     \* number of the last edit
  floor,     \* history: content f had when this run began, Absent once deleted
  run,       \* current invocation
  gitea,     \* the Gitea repository
  clone,     \* the clone under the run's temporary directory
  repo,      \* the GitRepository object in the API server
  cache,     \* the object in the informer cache
  lag,       \* the cache holds an older resourceVersion than the server
  pass,      \* the reconciler's pass: program counter and locals
  faults     \* failures injected so far

env == <<scenario, src, edits, floor>>
vars == <<scenario, src, edits, floor, run, gitea, clone, repo, cache, lag, pass, faults>>

Content == Nat
Tree == [Files -> Content]
Object == [start : Nat, observed : Nat, synced : BOOLEAN, url : BOOLEAN]
PassPC == {"idle", "creds", "lookup", "clone", "copy", "commit", "push", "status", "annotate"}

(* The named fault of the environment may still be injected. *)
MayInject(kind) == kind \in scenario.env /\ faults < scenario.faults

Init ==
  /\ scenario \in Scenarios
  /\ src = [f \in Files |-> FirstEdit]
  /\ edits = FirstEdit
  /\ floor = src
  /\ run = 1
  /\ gitea = [exists |-> FALSE, tree |-> [f \in Files |-> Absent]]
  /\ clone = [present |-> FALSE, wt |-> [f \in Files |-> Absent],
              head |-> [f \in Files |-> Absent], behind |-> FALSE]
  /\ repo = [start |-> 1, observed |-> 0, synced |-> FALSE, url |-> FALSE]
  /\ cache = repo
  /\ lag = FALSE
  /\ pass = [pc |-> "idle", obj |-> repo, dirty |-> FALSE, todo |-> {}, fresh |-> FALSE]
  /\ faults = 0

----------------------------------------------------------------------------
(* The user's directory *)

EditFile(f) ==
  /\ edits < scenario.edits
  /\ edits' = edits + 1
  /\ src' = [src EXCEPT ![f] = edits + 1]
  /\ UNCHANGED <<scenario, floor, run, gitea, clone, repo, cache, lag, pass, faults>>

DeleteFile(f) ==
  /\ MayInject("delete")
  /\ src[f] # Absent
  /\ src' = [src EXCEPT ![f] = Absent]
  /\ floor' = [floor EXCEPT ![f] = Absent]
  /\ faults' = faults + 1
  /\ UNCHANGED <<scenario, edits, run, gitea, clone, repo, cache, lag, pass>>

----------------------------------------------------------------------------
(* The run: a new invocation has a new temporary directory and a new start *)
(* time, which the owner (Localbuild, CustomPackage) writes to the object. *)

Restart ==
  /\ run < scenario.runs
  /\ run' = run + 1
  /\ floor' = src
  /\ clone' = [clone EXCEPT !.present = FALSE]
  /\ pass' = [pass EXCEPT !.pc = "idle"]
  /\ UNCHANGED <<scenario, src, edits, gitea, repo, cache, lag, faults>>

OwnerUpdate ==
  /\ repo.start # run
  /\ "conflict" \in scenario.env \/ pass.pc = "idle"
  /\ repo' = [repo EXCEPT !.start = run]
  /\ lag' = TRUE
  /\ pass' = [pass EXCEPT !.dirty = TRUE]
  /\ UNCHANGED <<env, run, gitea, clone, cache, faults>>

(* The informer delivers the latest version of the object. *)
SyncCache ==
  /\ lag
  /\ cache' = repo
  /\ lag' = FALSE
  /\ UNCHANGED <<env, run, gitea, clone, repo, pass, faults>>

(* Another client of Gitea pushes: the clone no longer contains the head of *)
(* the remote branch.                                                       *)
ForeignPush(f) ==
  /\ MayInject("foreign")
  /\ gitea.exists
  /\ edits < scenario.edits
  /\ edits' = edits + 1
  /\ gitea' = [gitea EXCEPT !.tree[f] = edits + 1]
  /\ clone' = [clone EXCEPT !.behind = TRUE]
  /\ faults' = faults + 1
  /\ UNCHANGED <<scenario, src, floor, run, repo, cache, lag, pass>>

----------------------------------------------------------------------------
(* The reconciler *)

(* Mutant: Synced is not reset, as in the CustomPackage controller. *)
BeginPassKeepsSynced ==
  /\ pass.pc = "idle"
  /\ "conflict" \in scenario.env \/ ~lag
  /\ pass' = [pc |-> "creds", obj |-> cache, dirty |-> lag, todo |-> {}, fresh |-> FALSE]
  /\ UNCHANGED <<env, run, gitea, clone, repo, cache, lag, faults>>

(* Reconcile: the object is read from the cache and Synced reset locally. *)
BeginPass ==
  /\ pass.pc = "idle"
  /\ "conflict" \in scenario.env \/ ~lag
  /\ pass' = [pc |-> "creds", obj |-> [cache EXCEPT !.synced = FALSE],
              dirty |-> lag, todo |-> {}, fresh |-> FALSE]
  /\ UNCHANGED <<env, run, gitea, clone, repo, cache, lag, faults>>

(* Any error skips to the deferred postProcessReconcile. *)
FailPass ==
  /\ pass.pc \in {"creds", "lookup", "clone", "copy"}
  /\ MayInject("pass")
  /\ pass' = [pass EXCEPT !.pc = "status"]
  /\ faults' = faults + 1
  /\ UNCHANGED <<env, run, gitea, clone, repo, cache, lag>>

GetCredentials ==
  /\ pass.pc = "creds"
  /\ pass' = [pass EXCEPT !.pc = "lookup"]
  /\ UNCHANGED <<env, run, gitea, clone, repo, cache, lag, faults>>

(* Mutant: the repository that was found comes without its internal URL. *)
GetRepositoryWithoutURL ==
  /\ pass.pc = "lookup"
  /\ pass' = [pass EXCEPT !.pc = "clone", !.fresh = TRUE]
  /\ gitea' = [gitea EXCEPT !.exists = TRUE]
  /\ UNCHANGED <<env, run, clone, repo, cache, lag, faults>>

(* getRepository, and createRepository when Gitea answers 404.  Only an    *)
(* existing repository comes with its internal URL.                        *)
GetOrCreateRepository ==
  /\ pass.pc = "lookup"
  /\ pass' = [pass EXCEPT !.pc = "clone", !.fresh = ~gitea.exists]
  /\ gitea' = [gitea EXCEPT !.exists = TRUE]
  /\ UNCHANGED <<env, run, clone, repo, cache, lag, faults>>

(* Gitea creates the repository but the answer does not arrive. *)
CreateLostAnswer ==
  /\ pass.pc = "lookup"
  /\ ~gitea.exists
  /\ MayInject("pass")
  /\ gitea' = [gitea EXCEPT !.exists = TRUE]
  /\ pass' = [pass EXCEPT !.pc = "status"]
  /\ faults' = faults + 1
  /\ UNCHANGED <<env, run, clone, repo, cache, lag>>

(* CloneRemoteRepoToDir: an existing clone is opened as it is; with no Ref *)
(* nothing is pulled.  writeRepoContents then lists the directory.         *)
OpenOrClone ==
  /\ pass.pc = "clone"
  /\ clone' = IF clone.present THEN clone
              ELSE [present |-> TRUE, wt |-> gitea.tree, head |-> gitea.tree, behind |-> FALSE]
  /\ pass' = [pass EXCEPT !.pc = "copy", !.todo = {f \in Files : src[f] # Absent}]
  /\ UNCHANGED <<env, run, gitea, repo, cache, lag, faults>>

(* Mutant: a file that the clone already has is not copied again. *)
CopyFileOnce(f) ==
  /\ pass.pc = "copy"
  /\ f \in pass.todo
  /\ src[f] # Absent
  /\ clone' = IF clone.wt[f] = Absent THEN [clone EXCEPT !.wt[f] = src[f]] ELSE clone
  /\ pass' = [pass EXCEPT !.todo = @ \ {f}]
  /\ UNCHANGED <<env, run, gitea, repo, cache, lag, faults>>

(* CopyDirectory copies one listed file; nothing is ever removed. *)
CopyFile(f) ==
  /\ pass.pc = "copy"
  /\ f \in pass.todo
  /\ src[f] # Absent
  /\ clone' = [clone EXCEPT !.wt[f] = src[f]]
  /\ pass' = [pass EXCEPT !.todo = @ \ {f}]
  /\ UNCHANGED <<env, run, gitea, repo, cache, lag, faults>>

(* A listed file is gone: Stat fails, or Copy has already truncated the    *)
(* destination when opening the source fails.                              *)
CopyVanished(f) ==
  /\ pass.pc = "copy"
  /\ f \in pass.todo
  /\ src[f] = Absent
  /\ \E c \in {clone.wt[f], Truncated} : clone' = [clone EXCEPT !.wt[f] = c]
  /\ pass' = [pass EXCEPT !.pc = "status"]
  /\ UNCHANGED <<env, run, gitea, repo, cache, lag, faults>>

(* Mutant: the commit does not wait for the whole directory. *)
CopyDoneEarly ==
  /\ pass.pc = "copy"
  /\ pass' = [pass EXCEPT !.pc = "commit"]
  /\ UNCHANGED <<env, run, gitea, clone, repo, cache, lag, faults>>

CopyDone ==
  /\ pass.pc = "copy"
  /\ pass.todo = {}
  /\ pass' = [pass EXCEPT !.pc = "commit"]
  /\ UNCHANGED <<env, run, gitea, clone, repo, cache, lag, faults>>

(* The object after a pass without error, ready for the status update. *)
Reported(p) ==
  [p EXCEPT !.pc = "status", !.obj.synced = TRUE, !.obj.url = ~p.fresh]

(* Mutant: the commit is reported without being pushed. *)
CommitWithoutPush ==
  /\ pass.pc = "commit"
  /\ clone' = [clone EXCEPT !.head = clone.wt]
  /\ pass' = Reported(pass)
  /\ UNCHANGED <<env, run, gitea, repo, cache, lag, faults>>

(* addAllAndCommit: a clean worktree needs no push, anything else does. *)
AddAllAndCommit ==
  /\ pass.pc = "commit"
  /\ IF clone.wt = clone.head
     THEN pass' = Reported(pass) /\ UNCHANGED clone
     ELSE /\ pass' = [pass EXCEPT !.pc = "push"]
          /\ clone' = [clone EXCEPT !.head = clone.wt]
  /\ UNCHANGED <<env, run, gitea, repo, cache, lag, faults>>

(* pushToRemote: Gitea accepts only a fast-forward. *)
PushToRemote ==
  /\ pass.pc = "push"
  /\ ~clone.behind
  /\ gitea' = [gitea EXCEPT !.tree = clone.head]
  /\ pass' = Reported(pass)
  /\ UNCHANGED <<env, run, clone, repo, cache, lag, faults>>

(* Mutant: a rejected push leaves the pass in a place no step handles. *)
PushRejectedStuck ==
  /\ pass.pc = "push"
  /\ clone.behind
  /\ pass' = [pass EXCEPT !.pc = "rejected"]
  /\ UNCHANGED <<env, run, gitea, clone, repo, cache, lag, faults>>

PushRejected ==
  /\ pass.pc = "push"
  /\ clone.behind
  /\ pass' = [pass EXCEPT !.pc = "status"]
  /\ UNCHANGED <<env, run, gitea, clone, repo, cache, lag, faults>>

PushFails ==
  /\ pass.pc = "push"
  /\ MayInject("push")
  /\ pass' = [pass EXCEPT !.pc = "status"]
  /\ faults' = faults + 1
  /\ UNCHANGED <<env, run, gitea, clone, repo, cache, lag>>

PushLostAnswer ==
  /\ pass.pc = "push"
  /\ ~clone.behind
  /\ MayInject("lostack")
  /\ gitea' = [gitea EXCEPT !.tree = clone.head]
  /\ pass' = [pass EXCEPT !.pc = "status"]
  /\ faults' = faults + 1
  /\ UNCHANGED <<env, run, clone, repo, cache, lag>>

(* postProcessReconcile, first write: the status, under optimistic         *)
(* concurrency.  An error is logged and the annotation is written anyway.  *)
UpdateStatus ==
  /\ pass.pc = "status"
  /\ ~pass.dirty
  /\ repo' = [repo EXCEPT !.synced = pass.obj.synced, !.url = pass.obj.url]
  /\ lag' = (lag \/ repo' # repo)
  /\ pass' = [pass EXCEPT !.pc = "annotate"]
  /\ UNCHANGED <<env, run, gitea, clone, cache, faults>>

StatusConflict ==
  /\ pass.pc = "status"
  /\ pass.dirty
  /\ pass' = [pass EXCEPT !.pc = "annotate"]
  /\ UNCHANGED <<env, run, gitea, clone, repo, cache, lag, faults>>

StatusFails ==
  /\ pass.pc = "status"
  /\ MayInject("status")
  /\ pass' = [pass EXCEPT !.pc = "annotate"]
  /\ faults' = faults + 1
  /\ UNCHANGED <<env, run, gitea, clone, repo, cache, lag>>

(* postProcessReconcile, second write: a forced server-side apply of the   *)
(* start time read at the beginning of the pass.  The pass is over; both   *)
(* results of Reconcile enqueue the next one.                              *)
UpdateSyncAnnotation ==
  /\ pass.pc = "annotate"
  /\ repo' = [repo EXCEPT !.observed = pass.obj.start]
  /\ lag' = (lag \/ repo' # repo)
  /\ pass' = [pass EXCEPT !.pc = "idle"]
  /\ UNCHANGED <<env, run, gitea, clone, cache, faults>>

AnnotationFails ==
  /\ pass.pc = "annotate"
  /\ MayInject("annotate")
  /\ pass' = [pass EXCEPT !.pc = "idle"]
  /\ faults' = faults + 1
  /\ UNCHANGED <<env, run, gitea, clone, repo, cache, lag>>

----------------------------------------------------------------------------

Reconcile ==
  \/ BeginPass \/ FailPass
  \/ GetCredentials \/ GetOrCreateRepository \/ CreateLostAnswer
  \/ OpenOrClone \/ CopyDone \/ \E f \in Files : CopyFile(f) \/ CopyVanished(f)
  \/ AddAllAndCommit
  \/ PushToRemote \/ PushRejected \/ PushFails \/ PushLostAnswer
  \/ UpdateStatus \/ StatusConflict \/ StatusFails
  \/ UpdateSyncAnnotation \/ AnnotationFails

Environment ==
  \/ \E f \in Files : EditFile(f) \/ DeleteFile(f) \/ ForeignPush(f)
  \/ Restart

Next == Environment \/ OwnerUpdate \/ SyncCache \/ Reconcile

Spec == Init /\ [][Next]_vars

(* The work queue always holds the object again after a pass (an error is  *)
(* requeued with backoff, success after requeueTime), the informer keeps   *)
(* delivering, and the owner is reconciled itself.  The environment owes   *)
(* nothing.                                                                *)
FairSpec ==
  /\ Spec
  /\ WF_vars(Reconcile) /\ WF_vars(SyncCache) /\ WF_vars(OwnerUpdate)

----------------------------------------------------------------------------
(* What Localbuild's shouldShutDown accepts of a GitRepository of this run *)

Ready == cache.start = run /\ cache.observed = run /\ cache.synced

(* Gitea holds, of every file the user has not deleted since, the content  *)
(* it had when the run began, or a newer one.                              *)
Covered(tree) == \A f \in Files : tree[f] >= floor[f]
Pushed == Covered(gitea.tree)

TypeOK ==
  /\ scenario \in Scenarios
  /\ src \in Tree /\ floor \in Tree
  /\ edits \in Nat /\ run \in Nat /\ faults \in Nat
  /\ gitea \in [exists : BOOLEAN, tree : Tree]
  /\ clone \in [present : BOOLEAN, wt : Tree, head : Tree, behind : BOOLEAN]
  /\ repo \in Object /\ cache \in Object
  /\ lag \in BOOLEAN
  /\ pass \in [pc : PassPC, obj : Object, dirty : BOOLEAN, todo : SUBSET Files, fresh : BOOLEAN]

(* The scenarios in which a pushed content and its report cannot come      *)
(* apart: every push is accepted, and either the passes or their reports   *)
(* succeed.                                                                *)
Faultless(kinds) == scenario.env \cap kinds = {}
PushesAccepted == Faultless({"push", "foreign"})
PassesSucceed == Faultless({"pass", "lostack", "delete"})
ReportsLand == Faultless({"conflict", "status"})
SafeEnv == PushesAccepted /\ (PassesSucceed \/ ReportsLand)

(* The exit check is only ever satisfied by a repository whose content has *)
(* reached Gitea in this run: although the status and the annotation are   *)
(* written by separate calls that may each be lost, and are read through a *)
(* cache, the two never combine into a false report.                       *)
ReadyMeansPushed == SafeEnv /\ Ready => Pushed

(* The commit a pass is about to report as synced is in Gitea, not only in *)
(* the clone: the status never names an unpublished state.                 *)
ReportsPublished ==
  PushesAccepted /\ pass.pc = "status" /\ pass.obj.synced => clone.head = gitea.tree

(* Whatever failed before, a commit that is to be pushed or reported has   *)
(* every file of the directory, none stale and none left truncated by a    *)
(* copy that went wrong.                                                   *)
CommitIsComplete ==
  (pass.pc = "push" \/ (pass.pc = "status" /\ pass.obj.synced)) => Covered(clone.head)

(* Once the user stops editing, every file he has is in Gitea for good.    *)
EventuallyPublished ==
  <>[](\A f \in Files : src[f] # Absent => gitea.tree[f] = src[f])

(* The same, of the scenarios in which Gitea refuses no push.              *)
AcceptedIsPublished == PushesAccepted => EventuallyPublished

(* The last run's exit check comes to accept the repository for good, and  *)
(* the internal URL a package waits for is published, whatever fails.      *)
(* (A scenario without "conflict" leaves out every interleaving in which   *)
(* the owner writes during a pass, and may so shut it out for ever.)       *)
EventuallyReady == ~Faultless({"conflict"}) => <>[](Ready /\ repo.url)
=============================================================================
