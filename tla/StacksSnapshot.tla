--------------------------- MODULE StacksSnapshot ---------------------------
(***************************************************************************)
(* `stacks sync`: pushSnapshot publishes a local git worktree as a commit  *)
(* on a branch of the in-cluster Gitea, through a cache clone that stays   *)
(* on disk between invocations.  Several processes may do so: watchers,    *)
(* single syncs, and `stacks create`.  A file lock keyed by cache and      *)
(* branch guards `sync`, not `create`.                                     *)
(*                                                                         *)
(* A file of the worktree is one text; a file of the cache is the text it  *)
(* was copied from and, for the kustomizations that the bootstrap rewrite  *)
(* changes in place, the text of the release pins it was rewritten with.   *)
(* Some texts are symbolic links to another file.                          *)
(***************************************************************************)
EXTENDS Naturals, Sequences

CONSTANTS
  Procs,           \* processes that publish
  Worktrees, Caches, Branches,
  Files,           \* the files that may be in a worktree
  Kustomizations,  \* those whose image pins the bootstrap rewrite changes
  Pins,            \* the file with the release pins
  Texts,           \* contents of a file
  NoFile,          \* the content of a file that does not exist
  LinkTo,          \* the texts that are symbolic links, with the file they name
  Scenarios        \* the environments a behaviour may run in, with their bounds

EnvKinds ==
  { "fail",      \* a command, a read or a write fails
    "lostack",   \* Gitea accepts a push and the answer is lost
    "race" }     \* inputs of the rewrite are edited while a rewriting sync runs

Option == [worktree : Worktrees, cache : Caches, branch : Branches,
           locks : BOOLEAN, reset : BOOLEAN, rewrite : BOOLEAN]

Scenario == [procs : SUBSET Procs,                        \* who publishes
             options : [Procs -> Option],                 \* the command lines
             texts : [Worktrees -> [Files -> SUBSET Texts]],  \* what files may hold
             env : SUBSET EnvKinds,                       \* what may go wrong
             edits : Nat,                                 \* bound: edits of the worktrees
             syncs : Nat,                                 \* bound: snapshots begun
             faults : Nat]                                \* bound: commands that fail

ASSUME InstanceAssumption ==
  /\ Kustomizations \subseteq Files /\ Pins \in Files \ Kustomizations
  /\ NoFile \in Texts
  /\ \E L \in SUBSET (Texts \ {NoFile}) : LinkTo \in [L -> Files \ (Kustomizations \cup {Pins})]
  /\ "nobody" \notin Procs
  /\ Scenarios \subseteq Scenario

VARIABLES
  scenario,  \* the scenario of this behaviour; it never changes
  src,       \* src[w][f]: text of f in worktree w
  commits,   \* every commit ever made, numbered from 1
  remote,    \* remote[b]: the commit the branch points to in Gitea, 0 if there is no branch
  cache,     \* the cache clones
  lock,      \* lock[c][b]: who holds the lock file
  pc, loc,   \* of the processes: where they are, and the locals of pushSnapshot
  during,    \* history: the texts of every file since the snapshot of p began
  held,      \* history: what the branch of p has pointed to since then
  edits, syncs, faults

vars == <<scenario, src, commits, remote, cache, lock, pc, loc, during, held, edits, syncs, faults>>
counters == <<scenario, edits, syncs, faults>>
history == <<during, held>>

Nobody == "nobody"
Inputs == Kustomizations \cup {Pins}
IsLink(t) == t \in DOMAIN LinkTo
(* A worktree is not empty; an input of the rewrite is no link, and no link *)
(* leads to a link.                                                         *)
Worktree == {s \in [Files -> Texts] :
               /\ \E f \in Files : s[f] # NoFile
               /\ \A f \in Files : IsLink(s[f]) => /\ f \notin Inputs
                                                   /\ \A t \in DOMAIN LinkTo : LinkTo[t] # f}
Blob == [text : Texts, pin : Texts]
Plain(t) == [text |-> t, pin |-> NoFile]
Absent == Plain(NoFile)
EmptyTree == [f \in Files |-> Absent]
Tree(c) == IF c = 0 THEN EmptyTree ELSE commits[c].tree
Entry == [src : Texts, cache : Blob]
NoEntry == [src |-> NoFile, cache |-> Absent]

Options == scenario.options
Of(p) == cache[Options[p].cache]
Text(p, f) == src[Options[p].worktree][f]
InSnapshot == {"list", "reset", "fetch", "checkout", "plan", "stale", "copy", "rewrite",
               "add", "diff", "commit", "revparse", "push", "save"}
Outcomes == {"none", "noop", "synced",
             "failed",    \* a command failed
             "missing",   \* a file was not there
             "conflict",  \* the cache was not as the command needs it
             "nobranch",  \* Gitea has other branches only
             "refused"}   \* not a fast-forward
Locals == [files |-> {}, todo |-> {}, touched |-> FALSE, commit |-> 0, outcome |-> "none"]

Init ==
  /\ scenario \in Scenarios
  /\ src \in [Worktrees -> Worktree]
  /\ \A w \in Worktrees, f \in Files : src[w][f] \in scenario.texts[w][f]
  /\ commits = <<>>
  /\ remote = [b \in Branches |-> 0]
  /\ cache = [c \in Caches |-> [cloned |-> FALSE, head |-> 0, wt |-> EmptyTree, index |-> EmptyTree,
                                tracking |-> [b \in Branches |-> 0],
                                meta |-> [f \in Inputs |-> NoEntry]]]
  /\ lock = [c \in Caches |-> [b \in Branches |-> Nobody]]
  /\ pc = [p \in Procs |-> "idle"]
  /\ loc = [p \in Procs |-> Locals]
  /\ during = [p \in Procs |-> [f \in Files |-> {}]]
  /\ held = [p \in Procs |-> {}]
  /\ edits = 0 /\ syncs = 0 /\ faults = 0

----------------------------------------------------------------------------

Goto(p, place) == pc' = [pc EXCEPT ![p] = place]
Report(p, outcome) == loc' = [loc EXCEPT ![p].outcome = outcome]
Change(p, c) == cache' = [cache EXCEPT ![Options[p].cache] = c]

(* The user edits, creates or deletes a file. *)
EditFile(w, f, t) ==
  /\ edits < scenario.edits
  /\ t \in scenario.texts[w][f] \ {src[w][f]}
  /\ [src[w] EXCEPT ![f] = t] \in Worktree
  /\ f \in Inputs /\ "race" \notin scenario.env =>
       \A p \in Procs : ~(Options[p].worktree = w /\ Options[p].rewrite /\ pc[p] \in InSnapshot)
  /\ src' = [src EXCEPT ![w][f] = t]
  /\ during' = [p \in Procs |-> IF Options[p].worktree = w /\ pc[p] \in InSnapshot
                                THEN [during[p] EXCEPT ![f] = @ \cup {t}] ELSE during[p]]
  /\ edits' = edits + 1
  /\ UNCHANGED <<scenario, commits, remote, cache, lock, pc, loc, held, syncs, faults>>

----------------------------------------------------------------------------
(* The commands *)

(* Mutant: the lock is taken without looking who holds it. *)
AcquireHeldLock(p) ==
  /\ pc[p] = "idle"
  /\ LET o == Options[p] IN
     lock' = IF o.locks THEN [lock EXCEPT ![o.cache][o.branch] = p] ELSE lock
  /\ Goto(p, "ready")
  /\ UNCHANGED <<src, commits, remote, cache, loc, history, counters>>

(* withSyncLock, without waiting; `create` goes on without the lock. *)
AcquireLock(p) ==
  /\ pc[p] = "idle"
  /\ LET o == Options[p] IN
     /\ o.locks => lock[o.cache][o.branch] = Nobody
     /\ lock' = IF o.locks THEN [lock EXCEPT ![o.cache][o.branch] = p] ELSE lock
  /\ Goto(p, "ready")
  /\ UNCHANGED <<src, commits, remote, cache, loc, history, counters>>

(* The command returns, or the process ends: the lock is gone with it. *)
Leave(p) ==
  /\ pc[p] = "ready"
  /\ LET o == Options[p] IN
     lock' = IF o.locks THEN [lock EXCEPT ![o.cache][o.branch] = Nobody] ELSE lock
  /\ Goto(p, "idle")
  /\ loc' = [loc EXCEPT ![p] = Locals]
  /\ UNCHANGED <<src, commits, remote, cache, history, counters>>

(* A single sync, or one more of a watcher. *)
BeginSync(p) ==
  /\ pc[p] = "ready"
  /\ syncs < scenario.syncs
  /\ syncs' = syncs + 1
  /\ Goto(p, "list")
  /\ loc' = [loc EXCEPT ![p] = Locals]
  /\ during' = [during EXCEPT ![p] = [f \in Files |-> {Text(p, f)}]]
  /\ held' = [held EXCEPT ![p] = {remote[Options[p].branch]}]
  /\ UNCHANGED <<scenario, src, commits, remote, cache, lock, edits, faults>>

(* Any command, read or write may fail; sync returns the error and leaves  *)
(* the cache as it is.                                                     *)
Fails(p) ==
  /\ pc[p] \in InSnapshot \ {"save"}
  /\ "fail" \in scenario.env /\ faults < scenario.faults
  /\ faults' = faults + 1
  /\ Goto(p, "ready") /\ Report(p, "failed")
  /\ UNCHANGED <<src, commits, remote, cache, lock, history, scenario, edits, syncs>>

----------------------------------------------------------------------------
(* pushSnapshotToRemote *)

(* snapshotFiles: git ls-files, without what is not there. *)
ListFiles(p) ==
  /\ pc[p] = "list"
  /\ loc' = [loc EXCEPT ![p].files = {f \in Files : Text(p, f) # NoFile}]
  /\ Goto(p, "reset")
  /\ UNCHANGED <<src, commits, remote, cache, lock, history, counters>>

(* git clone, where there is no cache: HEAD is the default branch of the   *)
(* repository, which may be any, or not there.                             *)
CloneCache(p) ==
  /\ pc[p] = "reset"
  /\ ~Of(p).cloned
  /\ \E b \in Branches : Change(p, [Of(p) EXCEPT
       !.cloned = TRUE, !.tracking = remote,
       !.head = remote[b], !.wt = Tree(remote[b]), !.index = Tree(remote[b])])
  /\ UNCHANGED <<src, commits, remote, lock, pc, loc, history, counters>>

(* resetCacheGitState: reset --hard and clean, unless HEAD is unborn. *)
ResetCache(p) ==
  /\ pc[p] = "reset"
  /\ Of(p).cloned
  /\ LET c == Of(p) IN
     IF c.head = 0 THEN UNCHANGED cache
     ELSE Change(p, [c EXCEPT !.wt = Tree(c.head), !.index = Tree(c.head)])
  /\ Goto(p, IF Options[p].reset THEN "checkout" ELSE "fetch")
  /\ UNCHANGED <<src, commits, remote, lock, loc, history, counters>>

Fetch(p) ==
  /\ pc[p] = "fetch"
  /\ Change(p, [Of(p) EXCEPT !.tracking = remote])
  /\ Goto(p, "checkout")
  /\ UNCHANGED <<src, commits, remote, lock, loc, history, counters>>

(* Mutant: a cache that has the branch stays where it is. *)
CheckoutOwn(p) ==
  /\ pc[p] = "checkout"
  /\ ~Options[p].reset
  /\ LET to == Of(p).tracking[Options[p].branch]
     IN /\ to # 0
        /\ IF Of(p).head # 0 THEN UNCHANGED cache
           ELSE Change(p, [Of(p) EXCEPT !.head = to, !.wt = Tree(to), !.index = Tree(to)])
  /\ Goto(p, "plan")
  /\ UNCHANGED <<src, commits, remote, lock, loc, history, counters>>

(* git checkout -B, a merge of the branch into index and files; the tree   *)
(* of an unborn HEAD is empty.  A file that the branch does not change, or *)
(* that the index has as the branch does, is left alone.  Any other one is *)
(* replaced if it is as HEAD has it; otherwise git refuses.                *)
Checkout(p) ==
  /\ pc[p] = "checkout"
  /\ ~Options[p].reset
  /\ LET c == Of(p)
         from == Tree(c.head)
         target == Tree(c.tracking[Options[p].branch])
         Stays(f) == \/ from[f] = target[f]
                     \/ c.index[f] = target[f] /\ (target[f] # Absent \/ c.wt[f] = Absent)
         Clean(f) == c.index[f] = from[f] /\ c.wt[f] \in {from[f], Absent}
     IN /\ c.tracking[Options[p].branch] # 0
        /\ IF \A f \in Files : Stays(f) \/ Clean(f)
           THEN /\ Change(p, [c EXCEPT
                     !.head = c.tracking[Options[p].branch],
                     !.wt = [f \in Files |-> IF Stays(f) THEN c.wt[f] ELSE target[f]],
                     !.index = [f \in Files |-> IF Stays(f) THEN c.index[f] ELSE target[f]]])
                /\ Goto(p, "plan") /\ UNCHANGED loc
           ELSE UNCHANGED cache /\ Goto(p, "ready") /\ Report(p, "conflict")
  /\ UNCHANGED <<src, commits, remote, lock, history, counters>>

(* git checkout --orphan: no HEAD, index and files as they are.  Without   *)
(* --reset-local-history only while Gitea has no branch at all.            *)
CheckoutOrphan(p) ==
  /\ pc[p] = "checkout"
  /\ Options[p].reset \/ Of(p).tracking[Options[p].branch] = 0
  /\ IF Options[p].reset \/ \A b \in Branches : remote[b] = 0
     THEN Change(p, [Of(p) EXCEPT !.head = 0]) /\ Goto(p, "plan") /\ UNCHANGED loc
     ELSE UNCHANGED cache /\ Goto(p, "ready") /\ Report(p, "nobranch")
  /\ UNCHANGED <<src, commits, remote, lock, history, counters>>

(* planCacheReconcileFiles: with the rewrite, an input is left alone when  *)
(* both of its hashes are those of the metadata; any other one forces the  *)
(* rewrite.                                                                *)
Kept(p) ==
  IF Options[p].rewrite
  THEN {f \in loc[p].files \cap Inputs : Of(p).meta[f] = [src |-> Text(p, f), cache |-> Of(p).wt[f]]}
  ELSE {}

(* Mutant: a changed input does not force the rewrite. *)
PlanUnforced(p) ==
  /\ pc[p] = "plan"
  /\ IF Options[p].rewrite /\ \E f \in loc[p].files \cap Inputs : Text(p, f) = NoFile
     THEN Goto(p, "ready") /\ Report(p, "missing")
     ELSE /\ loc' = [loc EXCEPT ![p].todo = loc[p].files \ Kept(p)]
          /\ Goto(p, "stale")
  /\ UNCHANGED <<src, commits, remote, cache, lock, history, counters>>

Plan(p) ==
  /\ pc[p] = "plan"
  /\ IF Options[p].rewrite /\ \E f \in loc[p].files \cap Inputs : Text(p, f) = NoFile
     THEN Goto(p, "ready") /\ Report(p, "missing")
     ELSE /\ loc' = [loc EXCEPT ![p].todo = loc[p].files \ Kept(p),
                                ![p].touched = (loc[p].files \cap Inputs) \ Kept(p) # {}]
          /\ Goto(p, "stale")
  /\ UNCHANGED <<src, commits, remote, cache, lock, history, counters>>

(* Mutant: what the worktree has no longer stays in the cache. *)
LeaveStale(p) ==
  /\ pc[p] = "stale"
  /\ Goto(p, "copy")
  /\ UNCHANGED <<src, commits, remote, cache, lock, loc, history, counters>>

RemoveStale(p) ==
  /\ pc[p] = "stale"
  /\ LET c == Of(p)
         stale == {f \in Files \ loc[p].files : c.wt[f] # Absent}
     IN /\ Change(p, [c EXCEPT !.wt = [f \in Files |-> IF f \in stale THEN Absent ELSE c.wt[f]]])
        /\ loc' = [loc EXCEPT ![p].touched = @ \/ stale \cap Inputs # {}]
  /\ Goto(p, "copy")
  /\ UNCHANGED <<src, commits, remote, lock, history, counters>>

(* Mutant: a file of the same name is taken for the same. *)
CopyNewFile(p, f) ==
  /\ pc[p] = "copy"
  /\ f \in loc[p].todo
  /\ IF Text(p, f) = NoFile
     THEN UNCHANGED cache /\ Goto(p, "ready") /\ Report(p, "missing")
     ELSE /\ IF Of(p).wt[f] # Absent THEN UNCHANGED cache
             ELSE Change(p, [Of(p) EXCEPT !.wt[f] = Plain(Text(p, f))])
          /\ loc' = [loc EXCEPT ![p].todo = @ \ {f}]
          /\ UNCHANGED pc
  /\ UNCHANGED <<src, commits, remote, lock, history, counters>>

(* One round of reconcileCacheWorktree, in any order of the names.  A new  *)
(* link cannot replace a file; a new regular file is written through a     *)
(* link.                                                                   *)
CopyFile(p, f) ==
  /\ pc[p] = "copy"
  /\ f \in loc[p].todo
  /\ LET t == Text(p, f)
         old == Of(p).wt[f]
         to == IF IsLink(old.text) THEN LinkTo[old.text] ELSE f
         blocked == IsLink(t) /\ old \notin {Absent, Plain(t)}
     IN IF t = NoFile \/ blocked
        THEN UNCHANGED cache /\ Goto(p, "ready") /\ Report(p, IF blocked THEN "conflict" ELSE "missing")
        ELSE /\ Change(p, [Of(p) EXCEPT !.wt[IF IsLink(t) THEN f ELSE to] = Plain(t)])
             /\ loc' = [loc EXCEPT ![p].todo = @ \ {f}]
             /\ UNCHANGED pc
  /\ UNCHANGED <<src, commits, remote, lock, history, counters>>

CopyDone(p) ==
  /\ pc[p] = "copy"
  /\ loc[p].todo = {}
  /\ Goto(p, IF Options[p].rewrite /\ loc[p].touched THEN "rewrite" ELSE "add")
  /\ UNCHANGED <<src, commits, remote, cache, lock, loc, history, counters>>

(* rewriteBootstrapImagePins: the script of the worktree reads the pins    *)
(* there and changes the kustomizations of the cache in place.             *)
Rewrite(p) ==
  /\ pc[p] = "rewrite"
  /\ IF Text(p, Pins) = NoFile
     THEN UNCHANGED cache /\ Goto(p, "ready") /\ Report(p, "missing")
     ELSE /\ LET c == Of(p)
                 rewritten == {k \in Kustomizations : c.wt[k] # Absent}
             IN Change(p, [c EXCEPT !.wt = [f \in Files |->
                  IF f \in rewritten THEN [c.wt[f] EXCEPT !.pin = Text(p, Pins)] ELSE c.wt[f]]])
          /\ Goto(p, "add") /\ UNCHANGED loc
  /\ UNCHANGED <<src, commits, remote, lock, history, counters>>

----------------------------------------------------------------------------
(* Commit, push, and the metadata *)

Add(p) ==
  /\ pc[p] = "add"
  /\ Change(p, [Of(p) EXCEPT !.index = Of(p).wt])
  /\ Goto(p, "diff")
  /\ UNCHANGED <<src, commits, remote, lock, loc, history, counters>>

Diff(p) ==
  /\ pc[p] = "diff"
  /\ IF Of(p).index = Tree(Of(p).head)
     THEN Goto(p, "save") /\ Report(p, "noop")
     ELSE Goto(p, "commit") /\ UNCHANGED loc
  /\ UNCHANGED <<src, commits, remote, cache, lock, history, counters>>

(* Mutant: HEAD is moved, and the commit is never written. *)
CommitUnwritten(p) ==
  /\ pc[p] = "commit"
  /\ Change(p, [Of(p) EXCEPT !.head = Len(commits) + 1])
  /\ Goto(p, "push")
  /\ UNCHANGED <<src, commits, remote, lock, loc, history, counters>>

(* git commit, with nothing to commit an error; and git rev-parse HEAD. *)
Commit(p) ==
  /\ pc[p] = "commit"
  /\ LET c == Of(p)
         new == Len(commits) + 1
         past == IF c.head = 0 THEN {} ELSE commits[c.head].past \cup {c.head}
     IN IF c.index = Tree(c.head)
        THEN UNCHANGED <<commits, cache>> /\ Goto(p, "ready") /\ Report(p, "conflict")
        ELSE /\ commits' = Append(commits, [tree |-> c.index, past |-> past])
             /\ Change(p, [c EXCEPT !.head = new])
             /\ loc' = [loc EXCEPT ![p].commit = new]
             /\ Goto(p, "push")
  /\ UNCHANGED <<src, remote, lock, history, counters>>

(* Mutant: every push is forced. *)
AcceptsAny(p) == Of(p).head # 0

(* Gitea accepts a push that is forced or fast-forward. *)
Accepts(p) ==
  LET old == remote[Options[p].branch]
  IN Options[p].reset \/ old \in {0, Of(p).head} \cup commits[Of(p).head].past

Publish(p) ==
  /\ remote' = [remote EXCEPT ![Options[p].branch] = Of(p).head]
  /\ held' = [q \in Procs |-> IF pc[q] \in InSnapshot /\ Options[q].branch = Options[p].branch
                              THEN held[q] \cup {Of(p).head} ELSE held[q]]

Push(p) ==
  /\ pc[p] = "push" /\ Of(p).head # 0
  /\ Accepts(p)
  /\ Publish(p)
  /\ Change(p, [Of(p) EXCEPT !.tracking[Options[p].branch] = Of(p).head])
  /\ Goto(p, "save") /\ Report(p, "synced")
  /\ UNCHANGED <<src, commits, lock, during, counters>>

PushLostAnswer(p) ==
  /\ pc[p] = "push" /\ Of(p).head # 0
  /\ "lostack" \in scenario.env /\ faults < scenario.faults
  /\ faults' = faults + 1
  /\ Accepts(p)
  /\ Publish(p)
  /\ Goto(p, "ready") /\ Report(p, "failed")
  /\ UNCHANGED <<src, commits, cache, lock, during, scenario, edits, syncs>>

PushRefused(p) ==
  /\ pc[p] = "push"
  /\ Of(p).head # 0 => ~Accepts(p)
  /\ Goto(p, "ready") /\ Report(p, "refused")
  /\ UNCHANGED <<src, commits, remote, cache, lock, history, counters>>

(* The snapshot returns.  With the rewrite, saveBootstrapRewriteMetadata   *)
(* takes the hashes of the moment it runs; a file that is gone leaves the  *)
(* metadata as it was, and the error is dropped.                           *)
Save(p) ==
  /\ pc[p] = "save"
  /\ LET saved == loc[p].files \cap Inputs
     IN IF Options[p].rewrite /\ \A f \in saved : Text(p, f) # NoFile /\ Of(p).wt[f] # Absent
        THEN Change(p, [Of(p) EXCEPT !.meta = [f \in Inputs |->
               IF f \in saved THEN [src |-> Text(p, f), cache |-> Of(p).wt[f]] ELSE NoEntry]])
        ELSE UNCHANGED cache
  /\ Goto(p, "ready")
  /\ UNCHANGED <<src, commits, remote, lock, loc, history, counters>>

----------------------------------------------------------------------------

Snapshot(p) ==
  \/ ListFiles(p) \/ CloneCache(p) \/ ResetCache(p) \/ Fetch(p) \/ Checkout(p)
  \/ CheckoutOrphan(p) \/ Plan(p) \/ RemoveStale(p) \/ \E f \in Files : CopyFile(p, f)
  \/ CopyDone(p) \/ Rewrite(p) \/ Add(p) \/ Diff(p) \/ Commit(p)
  \/ Push(p) \/ PushLostAnswer(p) \/ PushRefused(p) \/ Save(p) \/ Fails(p)

Next ==
  \/ \E w \in Worktrees, f \in Files, t \in Texts : EditFile(w, f, t)
  \/ \E p \in scenario.procs : AcquireLock(p) \/ Leave(p) \/ BeginSync(p) \/ Snapshot(p)

Spec == Init /\ [][Next]_vars

----------------------------------------------------------------------------
(* Correctness *)

Snaps == [Files -> Blob]
Commits == [tree : Snaps, past : SUBSET Nat]
Clones == [cloned : BOOLEAN, head : Nat, wt : Snaps, index : Snaps, tracking : [Branches -> Nat],
           meta : [Inputs -> Entry]]
LocalsSet == [files : SUBSET Files, todo : SUBSET Files, touched : BOOLEAN, commit : Nat,
              outcome : Outcomes]

(* Every variable has its type, and commit numbers name commits. *)
TypeOK ==
  /\ scenario \in Scenarios
  /\ src \in [Worktrees -> [Files -> Texts]]
  /\ commits \in Seq(Commits)
  /\ remote \in [Branches -> Nat] /\ \A b \in Branches : remote[b] <= Len(commits)
  /\ cache \in [Caches -> Clones]
  /\ \A c \in Caches : /\ cache[c].head <= Len(commits)
                      /\ \A b \in Branches : cache[c].tracking[b] <= Len(commits)
  /\ lock \in [Caches -> [Branches -> Procs \cup {Nobody}]]
  /\ pc \in [Procs -> {"idle", "ready"} \cup InSnapshot]
  /\ loc \in [Procs -> LocalsSet]
  /\ during \in [Procs -> [Files -> SUBSET Texts]]
  /\ held \in [Procs -> SUBSET Nat] /\ \A p \in Procs : \A h \in held[p] : h <= Len(commits)
  /\ edits \in Nat /\ syncs \in Nat /\ faults \in Nat

(* The texts of commit c are texts the files of p's worktree had since its *)
(* snapshot began.                                                         *)
Matches(p, c) == \A f \in Files : Tree(c)[f].text \in during[p][f]

(* The scenarios in which the use of a cache is what its authors thought:  *)
(* whoever uses it holds the one lock it has, no file is a link, and the   *)
(* inputs of the rewrite rest while it runs.                               *)
OneLock ==
  \A p, q \in scenario.procs : Options[p].cache = Options[q].cache =>
    Options[p].locks /\ Options[p].branch = Options[q].branch
NoLinks == \A w \in Worktrees, f \in Files : \A t \in scenario.texts[w][f] : ~IsLink(t)
SafeEnv == OneLock /\ NoLinks /\ "race" \notin scenario.env
NoReset == \A p \in Procs : ~Options[p].reset

(* What a process is about to push was all in its worktree during this     *)
(* snapshot: nothing is left over from an earlier, a failed or a foreign   *)
(* use of the cache (resetCacheGitState, removeStaleCachePaths).           *)
OwnPush == \A p \in Procs : pc[p] = "push" => Matches(p, Of(p).head)
PushIsOwn == SafeEnv => OwnPush

(* A snapshot that was asked to rewrite the kustomizations has published   *)
(* none without the release pins of its time, where nobody replaces the    *)
(* history: a cache without HEAD keeps what a failed sync left in it.      *)
PinnedWhenAsked ==
  SafeEnv /\ NoReset => \A p \in Procs :
    Options[p].rewrite /\ loc[p].outcome \in {"noop", "synced"} =>
    \E h \in held[p] : \A k \in Kustomizations :
      Tree(h)[k] # Absent => Tree(h)[k].pin \in during[p][Pins] \ {NoFile}

(* Nobody publishes the branch of p through another cache. *)
OneCache(p) == \A q \in scenario.procs :
  Options[q].branch = Options[p].branch => Options[q].cache = Options[p].cache

(* A snapshot that did not meet a fault fails for a cause outside the      *)
(* cache: a file was deleted while it ran, or somebody else moved the      *)
(* branch.  Earlier failures leave no cache unusable, unless its HEAD is   *)
(* unborn, for then nothing is reset (resetCacheGitState); and that takes  *)
(* --reset-local-history, or a second cache that creates the branch.       *)
FailsForCause ==
  SafeEnv => \A p \in Procs :
    /\ loc[p].outcome = "conflict" => Of(p).head = 0 /\ ~(NoReset /\ OneCache(p))
    /\ loc[p].outcome = "missing" => \E f \in Files : NoFile \in during[p][f]
    /\ loc[p].outcome = "refused" => \E h, g \in held[p] : h # g

(* No two processes are in a snapshot of the same cache. *)
CacheExclusive ==
  OneLock => \A p, q \in Procs :
    pc[p] \in InSnapshot /\ pc[q] \in InSnapshot /\ Options[p].cache = Options[q].cache => p = q

(* What a process was told is synced stays in the history of the branch,   *)
(* whoever else pushes, unless somebody asks to replace the history.       *)
SyncedStays ==
  OneLock /\ NoReset =>
    \A p \in Procs : loc[p].outcome = "synced" =>
      LET head == remote[Options[p].branch]
      IN head # 0 /\ loc[p].commit \in {head} \cup commits[head].past

(* The contract of a snapshot: see SnapshotContract. *)
Contract == INSTANCE SnapshotContract WITH
  published <- [b \in Branches |-> [f \in Files |-> Tree(remote[b])[f].text]],
  open <- [p \in Procs |-> pc[p] \in InSnapshot],
  ok <- [p \in Procs |-> pc[p] \notin InSnapshot /\ loc[p].outcome \in {"noop", "synced"}],
  seen <- [p \in Procs |-> {[f \in Files |-> Tree(h)[f].text] : h \in held[p]}],
  worktree <- [p \in Procs |-> Options[p].worktree],
  branch <- [p \in Procs |-> Options[p].branch]
KeepsContract == Contract!Spec

=============================================================================
