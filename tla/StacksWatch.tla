----------------------------- MODULE StacksWatch -----------------------------
(***************************************************************************)
(* `stacks sync --watch`: a loop polls the hash of the worktree, waits     *)
(* until it has settled, publishes a snapshot on the branch in Gitea, and  *)
(* refreshes the Argo CD applications that the changed files belong to,    *)
(* the root application first, until they have observed the commit.  A     *)
(* sync that fails is retried.                                             *)
(*                                                                         *)
(* Of a snapshot there is what SnapshotContract promises of it: texts read *)
(* one after the other, and one push.  Which applications a change         *)
(* concerns, and what Argo CD makes of a commit, is in RefreshPlan.        *)
(***************************************************************************)
EXTENDS RefreshPlan

CONSTANTS
  Order,      \* the files in the order of `git ls-files`
  Worktrees,  \* by name: what the worktree is at first, and what edits make of it
  Scenarios   \* the environments a behaviour may run in, with their bounds

EnvKinds ==
  { "midsync",   \* the worktree is edited while a sync runs
    "unsynced",  \* it is edited before the loop has taken its first hash
    "fail",      \* a sync fails before its push
    "lostack",   \* Gitea accepts a push and the answer is lost
    "refresh",   \* listing or annotating applications fails
    "timeout",   \* Argo CD is slower than --sync-wait-timeout
    "vanish" }   \* a file is deleted while it is hashed

Scenario == [env : SUBSET EnvKinds,            \* what may go wrong
             mode : {"affected", "all", "none"},  \* --refresh-mode
             worktree : DOMAIN Worktrees,      \* what the user, and others, may push
             edits : Nat,                      \* bound: edits of the worktree
             foreign : Nat,                    \* bound: commits of others
             faults : Nat]                     \* bound: faults

(* The place of a text that a snapshot has not read yet. *)
Unread == "unread"

ASSUME InstanceAssumption ==
  /\ {Order[i] : i \in DOMAIN Order} = Files /\ Unread \notin Texts \cup {NoFile}
  /\ \A w \in DOMAIN Worktrees : Worktrees[w].first \in Trees /\ Worktrees[w].next \subseteq Trees
  /\ Scenarios \subseteq Scenario

VARIABLES
  scenario,   \* the scenario of this behaviour; it never changes
  src,        \* the worktree
  commits,    \* the commits of the branch
  pc,         \* where the loop is
  last, pending,  \* the hashes that the loop compares
  settled,    \* the debounce time has passed since lastChange
  base, snap, \* the commit that the running snapshot fetched, and the texts it has read
  commit,     \* the last commit of this watcher
  todo, plan, \* applications to annotate, and to wait for
  argo,       \* the applications in the cluster
  owed,       \* history: the last commit of this watcher that changed an application
  edits, foreign, faults

vars == <<scenario, src, commits, pc, last, pending, settled, base, snap, commit, owed, todo, plan, argo,
          edits, foreign, faults>>
loop == <<last, pending, settled>>
own == <<base, snap, commit, owed>>
refresh == <<todo, plan>>
counters == <<scenario, edits, foreign, faults>>

Mode == scenario.mode
NoHash == [f \in Files |-> Unread]
Tip == Len(commits)
Application == [observed : Nat, annotated : BOOLEAN, operation : {"none", "due", "running"}]
New == [observed |-> 0, annotated |-> FALSE, operation |-> "none"]

Init ==
  /\ scenario \in Scenarios
  /\ src = Worktrees[scenario.worktree].first
  /\ commits = <<src>>
  /\ pc = "start"
  /\ last = NoHash /\ pending = NoHash /\ settled = FALSE
  /\ base = 1 /\ snap = NoHash /\ commit = 1
  /\ todo = {} /\ plan = {}
  /\ owed = [u \in Units |-> 1]
  /\ argo = [a \in {Root} \cup Children(src) |-> [New EXCEPT !.observed = 1]]
  /\ edits = 0 /\ foreign = 0 /\ faults = 0

InSync == {"copy", "push", "list", "refreshroot", "waitroot", "relist", "refresh", "wait", "rehash"}

(* The user edits files. *)
Edit(tree) ==
  /\ edits < scenario.edits /\ tree # src
  /\ pc \in InSync => "midsync" \in scenario.env
  /\ pc = "start" => "unsynced" \in scenario.env
  /\ src' = tree
  /\ edits' = edits + 1
  /\ UNCHANGED <<commits, pc, loop, own, refresh, argo, scenario, foreign, faults>>

(* Somebody else pushes to the branch. *)
ForeignPush(tree) ==
  /\ foreign < scenario.foreign /\ tree # commits[Tip]
  /\ commits' = Append(commits, tree)
  /\ foreign' = foreign + 1
  /\ UNCHANGED <<src, pc, loop, own, refresh, argo, scenario, edits, faults>>

Fault(kind) ==
  /\ kind \in scenario.env /\ faults < scenario.faults
  /\ faults' = faults + 1

----------------------------------------------------------------------------
(* watchAndSyncWithFuncs *)

Start ==
  /\ pc = "start"
  /\ last' = src /\ pc' = "tick"
  /\ UNCHANGED <<src, commits, pending, settled, own, refresh, argo, counters>>

(* The worktree is again what it was at the last sync. *)
TickReverted ==
  /\ pc = "tick" /\ pending # NoHash /\ src = last
  /\ pending' = NoHash
  /\ UNCHANGED <<src, commits, pc, last, settled, own, refresh, argo, counters>>

TickChanged ==
  /\ pc = "tick" /\ src \notin {last, pending}
  /\ pending' = src /\ settled' = FALSE
  /\ UNCHANGED <<src, commits, pc, last, own, refresh, argo, counters>>

Debounce ==
  /\ pc = "tick" /\ pending # NoHash /\ ~settled
  /\ settled' = TRUE
  /\ UNCHANGED <<src, commits, pc, last, pending, own, refresh, argo, counters>>

TickSync ==
  /\ pc = "tick" /\ pending = src /\ src # last /\ settled
  /\ pc' = "copy" /\ base' = Tip /\ snap' = NoHash
  /\ UNCHANGED <<src, commits, loop, commit, owed, refresh, argo, counters>>

(* An error of snapshotHash ends the loop. *)
HashFails ==
  /\ pc \in {"tick", "rehash"}
  /\ Fault("vanish")
  /\ pc' = "dead"
  /\ UNCHANGED <<src, commits, loop, own, refresh, argo, scenario, edits, foreign>>

(* Mutant: an error of sync ends the wait for this change. *)
GiveUp ==
  /\ pc' = "tick" /\ settled' = FALSE
  /\ last' = src /\ pending' = NoHash

(* sync returns an error: the loop goes on, after another debounce time. *)
Retry ==
  /\ pc' = "tick" /\ settled' = FALSE
  /\ UNCHANGED <<last, pending>>

(* sync returns without error: the hash is taken anew. *)
Rehash ==
  /\ pc = "rehash"
  /\ last' = src /\ pending' = NoHash /\ pc' = "tick"
  /\ UNCHANGED <<src, commits, settled, own, refresh, argo, counters>>

----------------------------------------------------------------------------
(* sync: the snapshot *)

Copy(i) ==
  /\ pc = "copy" /\ snap[Order[i]] = Unread
  /\ \A j \in 1..(i - 1) : snap[Order[j]] # Unread
  /\ snap' = [snap EXCEPT ![Order[i]] = src[Order[i]]]
  /\ UNCHANGED <<src, commits, pc, loop, base, commit, owed, refresh, argo, counters>>

CopyDone ==
  /\ pc = "copy" /\ \A f \in Files : snap[f] # Unread
  /\ pc' = "push"
  /\ UNCHANGED <<src, commits, loop, own, refresh, argo, counters>>

Noop ==
  /\ pc = "push" /\ snap = commits[base]
  /\ pc' = "rehash"
  /\ UNCHANGED <<src, commits, loop, own, refresh, argo, counters>>

Publish ==
  /\ pc = "push" /\ snap # commits[base]
  /\ base = Tip
  /\ commits' = Append(commits, snap)
  /\ owed' = [a \in Units |-> IF SameRendering(snap, commits[Tip], a) THEN owed[a] ELSE Tip + 1]

Push ==
  /\ Publish
  /\ commit' = Tip + 1
  /\ pc' = IF Mode = "none" THEN "rehash" ELSE "list"
  /\ UNCHANGED <<src, loop, base, snap, refresh, argo, counters>>

PushLostAnswer ==
  /\ Publish
  /\ Fault("lostack")
  /\ Retry
  /\ UNCHANGED <<src, base, snap, commit, refresh, argo, scenario, edits, foreign>>

PushRefused ==
  /\ pc = "push" /\ snap # commits[base]
  /\ base # Tip
  /\ Retry
  /\ UNCHANGED <<src, commits, own, refresh, argo, counters>>

SyncFails ==
  /\ pc \in {"copy", "push"}
  /\ Fault("fail")
  /\ Retry
  /\ UNCHANGED <<src, commits, own, refresh, argo, scenario, edits, foreign>>

----------------------------------------------------------------------------
(* refreshAfterSync *)

Live == DOMAIN argo
Changed == {f \in Files : commits[commit][f] # commits[commit - 1][f]}
(* The plan is made from the worktree as it is now, not from the commit.   *)
(* An application that cannot be indexed fails it, after the push.         *)
Plannable == Mode = "all" \/ Indexable(src, Live)
Planned == IF Mode = "all" THEN Live ELSE Affected(src, Live, Changed)

Annotate(names) ==
  todo' = names /\ plan' = names /\ pc' = "refresh"

(* Mutant: with a changed root, nothing but the root is refreshed. *)
RootOnly ==
  /\ pc = "relist"
  /\ pc' = "rehash"
  /\ UNCHANGED <<src, commits, loop, own, refresh, argo, counters>>

ListApps ==
  /\ pc = "list" /\ Plannable
  /\ LET planned == Planned
     IN IF Root \in planned THEN pc' = "refreshroot" /\ UNCHANGED refresh
        ELSE IF planned = {} THEN pc' = "rehash" /\ UNCHANGED refresh
        ELSE Annotate(planned)
  /\ UNCHANGED <<src, commits, loop, own, argo, counters>>

(* Mutant: the list of the last sync is not cleared. *)
RefreshRootOnList ==
  /\ pc = "refreshroot"
  /\ argo' = [argo EXCEPT ![Root].annotated = TRUE]
  /\ plan' = {Root} /\ pc' = "waitroot"
  /\ UNCHANGED <<src, commits, loop, own, todo, counters>>

RefreshRoot ==
  /\ pc = "refreshroot"
  /\ argo' = [argo EXCEPT ![Root].annotated = TRUE]
  /\ plan' = {Root} /\ todo' = {} /\ pc' = "waitroot"
  /\ UNCHANGED <<src, commits, loop, own, counters>>

(* The plan is made anew of the applications that there are now. *)
ListAppsAgain ==
  /\ pc = "relist" /\ Plannable
  /\ LET children == Planned \ {Root}
     IN IF children = {} THEN pc' = "rehash" /\ UNCHANGED refresh ELSE Annotate(children)
  /\ UNCHANGED <<src, commits, loop, own, argo, counters>>

PlanFails ==
  /\ pc \in {"list", "relist"} /\ ~Plannable
  /\ Retry
  /\ UNCHANGED <<src, commits, own, refresh, argo, counters>>

(* refreshApplications goes on after an error and returns it at the end. *)
RefreshApp(a) ==
  /\ pc = "refresh" /\ a \in todo \cap Live
  /\ argo' = [argo EXCEPT ![a].annotated = TRUE]
  /\ todo' = todo \ {a}
  /\ UNCHANGED <<src, commits, pc, loop, own, plan, counters>>

RefreshDone ==
  /\ pc = "refresh" /\ todo \cap Live = {}
  /\ IF todo = {} THEN pc' = "wait" /\ UNCHANGED loop ELSE Retry
  /\ UNCHANGED <<src, commits, own, refresh, argo, counters>>

RefreshFails ==
  /\ pc \in {"list", "refreshroot", "relist", "refresh"}
  /\ Fault("refresh")
  /\ Retry
  /\ UNCHANGED <<src, commits, own, refresh, argo, scenario, edits, foreign>>

(* waitForApplicationsObserved *)
Waited == {a \in plan \cap Live : argo[a].observed = commit /\ argo[a].operation # "running"}
Superseded == \E a \in plan \cap Live : argo[a].observed > commit

Observed ==
  /\ pc \in {"waitroot", "wait"} /\ Waited = plan
  /\ pc' = IF pc = "waitroot" THEN "relist" ELSE "rehash"
  /\ UNCHANGED <<src, commits, loop, own, refresh, argo, counters>>

SyncSuperseded ==
  /\ pc \in {"waitroot", "wait"} /\ Waited # plan
  /\ Superseded
  /\ Retry
  /\ UNCHANGED <<src, commits, own, refresh, argo, counters>>

(* In a scenario without "timeout", Argo CD answers in time for every     *)
(* application that exists.                                                *)
TimesOut ==
  /\ pc \in {"waitroot", "wait"} /\ Waited # plan
  /\ "timeout" \in scenario.env \/ ~(plan \subseteq Live)
  /\ Retry
  /\ UNCHANGED <<src, commits, own, refresh, argo, counters>>

----------------------------------------------------------------------------
(* Argo CD *)

(* A refresh, a webhook or a poll compares an application with the head. *)
Observe(a) ==
  /\ a \in Live
  /\ argo[a].observed # Tip \/ argo[a].annotated
  /\ UNCHANGED <<src, commits, pc, loop, own, refresh, counters>>
  /\ LET old == argo[a].observed
         differs == old = 0 \/ ~SameRendering(commits[old], commits[Tip], a)
     IN argo' = [argo EXCEPT ![a] = [observed |-> Tip, annotated |-> FALSE,
                   operation |-> IF differs /\ Builds(commits[Tip], a) THEN "due" ELSE argo[a].operation]]

(* Argo CD has a reason to look: a refresh, or a new application. *)
Look(a) == a \in Live /\ (argo[a].annotated \/ argo[a].observed = 0) /\ Observe(a)

StartOperation(a) ==
  /\ a \in Live /\ argo[a].operation = "due"
  /\ argo' = [argo EXCEPT ![a].operation = "running"]
  /\ UNCHANGED <<src, commits, pc, loop, own, refresh, counters>>

(* The operation of the root creates and prunes the applications. *)
FinishOperation(a) ==
  /\ a \in Live /\ argo[a].operation = "running"
  /\ UNCHANGED <<src, commits, pc, loop, own, refresh, counters>>
  /\ LET done == [argo EXCEPT ![a].operation = "none"]
         defined == {Root} \cup Children(commits[argo[a].observed])
     IN argo' = IF a = Root THEN [b \in defined |-> IF b \in Live THEN done[b] ELSE New] ELSE done

----------------------------------------------------------------------------

Watcher ==
  \/ Start \/ TickReverted \/ TickChanged \/ TickSync \/ Rehash
  \/ \E i \in DOMAIN Order : Copy(i)
  \/ CopyDone \/ Noop \/ Push \/ PushRefused
  \/ ListApps \/ RefreshRoot \/ ListAppsAgain \/ \E a \in Units : RefreshApp(a)
  \/ PlanFails \/ RefreshDone \/ Observed \/ SyncSuperseded

Faults == HashFails \/ PushLostAnswer \/ SyncFails \/ RefreshFails

Next ==
  \/ \E tree \in Worktrees[scenario.worktree].next : Edit(tree) \/ ForeignPush(tree)
  \/ Watcher \/ Debounce \/ TimesOut \/ Faults
  \/ \E a \in Units : Observe(a) \/ StartOperation(a) \/ FinishOperation(a)

Spec == Init /\ [][Next]_vars

(* The ticker ticks, commands return, the debounce time and the timeout    *)
(* pass; Argo CD follows an annotation, looks at new applications and      *)
(* carries out its operations.  No webhook and no poll is counted on.      *)
Fairness ==
  /\ WF_vars(Watcher) /\ WF_vars(Debounce) /\ WF_vars(TimesOut)
  /\ \A a \in Units : WF_vars(Look(a)) /\ WF_vars(StartOperation(a)) /\ WF_vars(FinishOperation(a))
FairSpec == Spec /\ Fairness

----------------------------------------------------------------------------
(* Correctness *)

TypeOK ==
  /\ scenario \in Scenarios
  /\ src \in Trees
  /\ commits \in Seq(Trees) /\ commit \in 1..Tip /\ base \in 1..Tip /\ owed \in [Units -> 1..Tip]
  /\ pc \in {"start", "tick", "dead"} \cup InSync
  /\ last \in Trees \cup {NoHash} /\ pending \in Trees \cup {NoHash}
  /\ settled \in BOOLEAN
  /\ snap \in [Files -> Texts \cup {NoFile, Unread}]
  /\ plan \subseteq Units /\ todo \subseteq plan
  /\ Root \in Live /\ Live \subseteq Units
  /\ argo \in [Live -> Application] /\ \A a \in Live : argo[a].observed <= Tip
  /\ edits \in 0..scenario.edits /\ foreign \in 0..scenario.foreign /\ faults \in 0..scenario.faults

(* The scenarios in which a sync that has pushed also refreshes.           *)
Faultless(kinds) == scenario.env \cap kinds = {}
RefreshesLand ==
  Faultless({"lostack", "refresh", "timeout"}) /\ scenario.foreign = 0 /\ Mode # "none"
(* Those in which the index, made of the worktree, is one of the commit.   *)
(* Every reference leads to something, in every application, be it defined *)
(* or not; what is found in a directory and not by a reference is never    *)
(* deleted; and where the worktree is edited while a sync runs, references *)
(* stay what they are.                                                     *)
Found(f) == \/ \E d \in DOMAIN Kustomization : Kustomization[d] = f
            \/ \E d \in Dirs \ DOMAIN Kustomization : f \in Holds[d]
SameReferences(tree, other) ==
  \A d \in DOMAIN Kustomization :
    LET k == Kustomization[d] IN Refs[k][tree[k]] = Refs[k][other[k]]
Given(s) == {Worktrees[s.worktree].first} \cup Worktrees[s.worktree].next
IndexedScenarios == {s \in Scenarios :
  \/ s.mode = "all"
  \/ /\ \A tree \in Given(s) : Indexable(tree, Units) /\ NoCircle(tree)
     /\ \A tree \in Given(s), f \in Files : Found(f) => Present(tree, f)
     /\ "midsync" \in s.env => \A tree, other \in Given(s) : SameReferences(tree, other)}
IndexIsOfCommit == scenario \in IndexedScenarios
(* Those in which no sync waits for an application that its own commit     *)
(* removes: it would fail after its push, and an edit that is taken back   *)
(* before the retry leaves Gitea with what was pushed.                     *)
KeepingScenarios == {s \in Scenarios :
  \A tree, other \in Given(s) : \A a \in Children(tree) \ Children(other) :
    s.mode = "affected" /\ SameRendering(tree, other, a)}
(* Those in which, besides, the loop sees every edit before its sync.      *)
EditsSeen == /\ RefreshesLand /\ Faultless({"midsync", "unsynced", "vanish"})
             /\ scenario \in KeepingScenarios

(* When the loop rests, no application is behind with its files: it has    *)
(* observed the last commit of this watcher that changed them, or a later  *)
(* one, or it has been told to look, or it has never looked.  What         *)
(* refreshAfterSync does over all the syncs and retries is enough, and the *)
(* plan misses no application: none that shares files with others, none    *)
(* that has just come to depend on them.                                   *)
RestMeansRefreshed ==
  RefreshesLand /\ IndexIsOfCommit /\ pc = "tick" /\ pending = NoHash =>
    \A a \in Live :
      argo[a].observed >= owed[a] \/ argo[a].annotated \/ argo[a].observed = 0

(* Once the edits have ended, the branch comes to hold the worktree. *)
EventuallyPublished == <>[](commits[Tip] = src)

(* So it does where the loop sees every edit, whatever syncs fail. *)
SeenIsPublished == EditsSeen => EventuallyPublished

(* There every application comes to observe its files in the worktree, by  *)
(* the refreshes of the loop alone.                                        *)
SeenIsObserved ==
  <>[](EditsSeen /\ IndexIsOfCommit =>
         \A a \in Live : argo[a].observed # 0 /\ SameRendering(commits[argo[a].observed], src, a))
=============================================================================
