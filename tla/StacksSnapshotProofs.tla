------------------------ MODULE StacksSnapshotProofs ------------------------
(***************************************************************************)
(* What `stacks sync` keeps of its snapshots, for any processes, caches,   *)
(* branches and files.                                                     *)
(*                                                                         *)
(*   TypeCorrect     Spec => []TypeOK                                      *)
(*   OnePerCache     Spec => []CacheExclusive                              *)
(*   PushesItsOwn    Spec => []PushIsOwn                                   *)
(*   FailsWithCause  Spec => []FailsForCause                               *)
(*   SyncedIsKept    Spec => []SyncedStays                                 *)
(*   ContractKept    Spec /\ SafeEnv => KeepsContract                      *)
(*                                                                         *)
(* LockInv gives a cache to one process; HistoryInv and TextInv say what   *)
(* commits and worktrees are.  SafeInv follows one snapshot: what it knows *)
(* of its worktree (SourceOf), how much of it has come to the cache, the   *)
(* index and the commit (CopyOf), where HEAD is in the history of the      *)
(* branch (BranchOf), and what the ended one may report (OutcomeOf).       *)
(* ClonedInv and RootInv say where the HEAD of a cache may be unborn.      *)
(* SyncedInv relates that report to what the branch has published.  The    *)
(* refinement follows from these, step by step.                            *)
(***************************************************************************)
EXTENDS StacksSnapshot, TLAPS

Open(p) == pc[p] \in InSnapshot
Remote(p) == remote[Options[p].branch]
Tracked(p) == Of(p).tracking[Options[p].branch]

(* Whoever is at work holds the lock that it takes. *)
LockInv ==
  \A p \in Procs : pc[p] # "idle" =>
    /\ p \in scenario.procs
    /\ Options[p].locks => lock[Options[p].cache][Options[p].branch] = p

(* The history of a commit is that of its parent, and the parent. *)
HistoryInv ==
  \A i \in 1..Len(commits) :
    /\ commits[i].past \subseteq 1..(i - 1)
    /\ \A j \in commits[i].past : commits[j].past \subseteq commits[i].past

(* The worktrees are not empty, and have the texts of the scenario.        *)
TextInv ==
  \A w \in Worktrees : /\ \E f \in Files : src[w][f] # NoFile
                      /\ \A f \in Files : src[w][f] \in scenario.texts[w][f]

(* Where no worktree has a link, no cache and no commit has one, and the   *)
(* metadata are of files that were copied as they are.                     *)
Unlinked(tree) == \A f \in Files : ~IsLink(tree[f].text)
CloneOk(c) ==
  /\ Unlinked(c.wt) /\ Unlinked(c.index)
  /\ \A f \in Inputs : c.meta[f].src = c.meta[f].cache.text
CommitsOk == \A i \in 1..Len(commits) : Unlinked(commits[i].tree)

(* What a snapshot knows of its worktree.                                  *)
SourceOf(p) ==
  Open(p) =>
    /\ \A f \in Files : Text(p, f) \in during[p][f]
    /\ Options[p].rewrite => \A f \in Inputs : during[p][f] = {Text(p, f)}
    /\ pc[p] = "list" => loc[p].todo = {}
    /\ pc[p] # "list" =>
         /\ \A f \in Files \ loc[p].files : NoFile \in during[p][f]
         /\ loc[p].files # {} /\ loc[p].todo \subseteq loc[p].files

(* What it has made of the cache: at first that of HEAD, then file by file *)
(* that of the worktree, in the index, and in a commit.                    *)
Copied(p, f) == Of(p).wt[f].text \in during[p][f] /\ (f \in loc[p].files => Of(p).wt[f].text # NoFile)
CopyOf(p) ==
  /\ pc[p] \in {"fetch", "checkout"} /\ Of(p).head # 0 =>
       Of(p).wt = Tree(Of(p).head) /\ Of(p).index = Tree(Of(p).head)
  /\ pc[p] = "stale" => \A f \in loc[p].files \ loc[p].todo : Copied(p, f)
  /\ pc[p] = "copy" => \A f \in Files \ loc[p].todo : Copied(p, f)
  /\ pc[p] \in {"rewrite", "add", "diff", "commit", "push", "save"} => \A f \in Files : Copied(p, f)
  /\ pc[p] \in {"diff", "commit", "push", "save"} => Of(p).index = Of(p).wt
  /\ pc[p] = "commit" => Of(p).index # Tree(Of(p).head)
  /\ pc[p] \in {"push", "save"} => Of(p).head # 0 /\ Of(p).index = Tree(Of(p).head)

(* Where its HEAD is: on what the branch has been since the snapshot began,*)
(* or nowhere.                                                             *)
BranchOf(p) ==
  Open(p) =>
    /\ Remote(p) \in held[p]
    /\ ~Options[p].reset =>
         /\ pc[p] \in {"checkout", "plan", "stale", "copy", "rewrite", "add", "diff", "commit", "push"} =>
              Tracked(p) \in held[p]
         /\ pc[p] \in {"plan", "stale", "copy", "rewrite", "add", "diff", "commit"} => Of(p).head = Tracked(p)
         /\ pc[p] = "push" => Tracked(p) \in {0} \cup commits[Of(p).head].past
    /\ Options[p].reset /\ pc[p] \in {"plan", "stale", "copy", "rewrite", "add", "diff", "commit"} =>
         Of(p).head = 0

(* What it has reported is so.                                             *)
OutcomeOf(p) ==
  /\ Open(p) /\ pc[p] # "save" => loc[p].outcome = "none"
  /\ pc[p] = "save" => loc[p].outcome \in {"noop", "synced"}
  /\ pc[p] = "idle" => loc[p].outcome = "none"
  /\ loc[p].outcome = "conflict" => Of(p).head = 0
  /\ loc[p].outcome = "missing" => \E f \in Files : NoFile \in during[p][f]
  /\ loc[p].outcome = "refused" => \E h, g \in held[p] : h # g
  /\ loc[p].outcome \in {"noop", "synced"} => \E h \in held[p] : Matches(p, h)

(* A clone that was not made yet has nothing, and whoever is past that      *)
(* point has one.                                                          *)
Past(p) == Open(p) /\ pc[p] \notin {"list", "reset"}
ClonedInv ==
  /\ \A c \in Caches : ~cache[c].cloned =>
       cache[c].head = 0 /\ \A f \in Inputs : cache[c].meta[f] = NoEntry
  /\ \A p \in Procs : Past(p) => Of(p).cloned

ProcessInv(p) == SourceOf(p) /\ CopyOf(p) /\ BranchOf(p) /\ OutcomeOf(p)
SafeInv ==
  SafeEnv =>
    /\ CommitsOk /\ \A c \in Caches : CloneOk(cache[c])
    /\ \A p \in Procs : ProcessInv(p)

(* Where nobody replaces a history and one cache publishes the branch, its *)
(* HEAD is unborn only as long as there is no branch: so the checkout of   *)
(* the branch begins at a HEAD to which the cache was reset.               *)
RootOf(p) ==
  /\ Of(p).head = 0 => Remote(p) = 0
  /\ pc[p] = "checkout" => Tracked(p) = Remote(p)
  /\ loc[p].outcome # "conflict"
RootInv == SafeEnv /\ NoReset => \A p \in scenario.procs : OneCache(p) => RootOf(p)

(* What was pushed stays below the head of the branch.                     *)
SyncedOf(p) ==
  /\ Open(p) /\ pc[p] # "save" => loc[p].outcome = "none"
  /\ pc[p] = "push" => Of(p).head # 0 /\ loc[p].commit = Of(p).head
  /\ loc[p].outcome = "synced" =>
       Remote(p) # 0 /\ loc[p].commit \in {Remote(p)} \cup commits[Remote(p)].past
KeepsHistory == OneLock /\ NoReset
SyncedInv == KeepsHistory => \A p \in Procs : SyncedOf(p)

----------------------------------------------------------------------------
(* Types *)

(* The command line of a process.                                          *)
LEMMA OptionsType ==
  ASSUME TypeOK, NEW p \in Procs
  PROVE  Options[p] \in Option
BY InstanceAssumption DEF TypeOK, Scenario, Options

(* Blobs, trees and entries that stand for nothing.                        *)
LEMMA NothingType ==
  Absent \in Blob /\ EmptyTree \in Snaps /\ NoEntry \in Entry /\ Locals \in LocalsSet
BY InstanceAssumption DEF Absent, Plain, Blob, EmptyTree, Snaps, NoEntry, Entry, Locals, LocalsSet, Outcomes

(* The tree of a commit.                                                   *)
LEMMA TreeType ==
  ASSUME TypeOK, NEW i \in Nat, i <= Len(commits)
  PROVE  Tree(i) \in Snaps
<1>1. commits \in Seq(Commits)
  BY DEF TypeOK
<1>2. CASE i = 0
  BY <1>2, NothingType DEF Tree
<1>3. CASE i # 0
  <2>1. commits[i] \in Commits
    BY <1>1, <1>3
  <2> QED
    BY <1>3, <2>1 DEF Tree, Commits
<1> QED
  BY <1>2, <1>3

(* The cache of a process.                                                 *)
LEMMA CacheType ==
  ASSUME TypeOK, NEW p \in Procs
  PROVE  /\ Of(p) \in Clones /\ Of(p).head <= Len(commits)
         /\ \A b \in Branches : Of(p).tracking[b] <= Len(commits)
BY OptionsType DEF TypeOK, Of, Option

(* A process that is at work changes only its own cache.                   *)
CacheEffect(p) ==
  /\ cache' \in [Caches -> Clones]
  /\ Of(p)'.head <= Len(commits') /\ \A b \in Branches : Of(p)'.tracking[b] <= Len(commits')
  /\ \A c \in Caches : c # Options[p].cache => cache'[c] = cache[c]

(* A change of the cache.                                                  *)
LEMMA ChangeEffect ==
  ASSUME TypeOK, NEW p \in Procs, NEW c \in Clones, UNCHANGED scenario, Change(p, c),
         c.head <= Len(commits'), \A b \in Branches : c.tracking[b] <= Len(commits')
  PROVE  CacheEffect(p) /\ Of(p)' = c
<1>1. Options[p].cache \in Caches /\ Options' = Options
  BY OptionsType DEF Option, Options
<1>2. cache \in [Caches -> Clones]
  BY DEF TypeOK
<1>3. Of(p)' = c
  BY <1>1, <1>2 DEF Change, Of
<1> QED
  BY <1>1, <1>2, <1>3 DEF Change, CacheEffect

(* A step that leaves the cache alone.                                     *)
LEMMA NoCacheEffect ==
  ASSUME TypeOK, NEW p \in Procs, UNCHANGED <<scenario, cache>>,
         commits' \in Seq(Commits), Len(commits) <= Len(commits')
  PROVE  CacheEffect(p) /\ Of(p)' = Of(p)
<1>1. Of(p)' = Of(p)
  BY DEF Of, Options
<1>2. Of(p) \in Clones /\ Of(p).head <= Len(commits) /\ \A b \in Branches : Of(p).tracking[b] <= Len(commits)
  BY CacheType
<1>3. cache' \in [Caches -> Clones]
  BY DEF TypeOK
<1> QED
  BY <1>1, <1>2, <1>3 DEF CacheEffect, TypeOK, Clones

(* A process that is at work changes only its own locals.                  *)
LocalEffect(p) ==
  /\ pc' \in [Procs -> {"idle", "ready"} \cup InSnapshot] /\ pc'[p] # "idle"
  /\ loc' \in [Procs -> LocalsSet]
  /\ \A q \in Procs : q # p => pc'[q] = pc[q] /\ loc'[q] = loc[q]

(* A step to another place, with its outcome or other locals.              *)
LEMMA GotoEffect ==
  ASSUME TypeOK, NEW p \in Procs, NEW place \in {"ready"} \cup InSnapshot, Goto(p, place),
         \/ UNCHANGED loc
         \/ \E outcome \in Outcomes : Report(p, outcome)
         \/ \E l \in LocalsSet : loc' = [loc EXCEPT ![p] = l]
  PROVE  LocalEffect(p)
<1>1. pc \in [Procs -> {"idle", "ready"} \cup InSnapshot] /\ loc \in [Procs -> LocalsSet]
  BY DEF TypeOK
<1>2. /\ pc' \in [Procs -> {"idle", "ready"} \cup InSnapshot] /\ pc'[p] # "idle"
      /\ \A q \in Procs : q # p => pc'[q] = pc[q]
  BY <1>1 DEF Goto, InSnapshot
<1>3. loc' \in [Procs -> LocalsSet] /\ \A q \in Procs : q # p => loc'[q] = loc[q]
  <2>1. CASE UNCHANGED loc
    BY <1>1, <2>1
  <2>2. ASSUME NEW l \in LocalsSet, loc' = [loc EXCEPT ![p] = l]
        PROVE  loc' \in [Procs -> LocalsSet] /\ \A q \in Procs : q # p => loc'[q] = loc[q]
    BY <1>1, <2>2
  <2>3. ASSUME NEW outcome \in Outcomes, Report(p, outcome)
        PROVE  \E l \in LocalsSet : loc' = [loc EXCEPT ![p] = l]
    <3>1. [loc[p] EXCEPT !.outcome = outcome] \in LocalsSet
      BY <1>1 DEF LocalsSet
    <3> QED
      BY <2>3, <3>1 DEF Report
  <2> QED
    BY <2>1, <2>2, <2>3
<1> QED
  BY <1>2, <1>3 DEF LocalEffect

(* The commit of the index.                                                *)
NewCommit(p) ==
  [tree |-> Of(p).index,
   past |-> IF Of(p).head = 0 THEN {} ELSE commits[Of(p).head].past \cup {Of(p).head}]

(* What a step of a snapshot may change: the process, its cache, a commit  *)
(* more, and the branch.                                                   *)
SnapshotEffect(p) ==
  /\ UNCHANGED <<scenario, src, lock, during, edits, syncs>> /\ faults' \in Nat
  /\ pc[p] \in InSnapshot
  /\ LocalEffect(p) /\ CacheEffect(p)
  /\ commits' \in Seq(Commits) /\ Len(commits) <= Len(commits')
  /\ \A i \in 1..Len(commits) : commits'[i] = commits[i]
  /\ UNCHANGED commits \/ commits' = Append(commits, NewCommit(p))
  /\ UNCHANGED <<remote, held>> \/ Publish(p)

(* Each step of a snapshot has that effect.                                *)
LEMMA SnapshotStep ==
  ASSUME TypeOK, NEW p \in Procs, Snapshot(p)
  PROVE  SnapshotEffect(p)
<1>0. /\ pc \in [Procs -> {"idle", "ready"} \cup InSnapshot] /\ loc \in [Procs -> LocalsSet]
      /\ commits \in Seq(Commits) /\ Len(commits) \in Nat /\ faults \in Nat
      /\ Options[p] \in Option
  BY OptionsType DEF TypeOK
<1>1. ASSUME UNCHANGED <<scenario, cache, commits>>
      PROVE  CacheEffect(p)
  BY <1>1, <1>0, NoCacheEffect
<1>2. ASSUME NEW c \in Clones, UNCHANGED <<scenario, commits>>, Change(p, c),
             c.head <= Len(commits), \A b \in Branches : c.tracking[b] <= Len(commits)
      PROVE  CacheEffect(p)
  BY <1>2, ChangeEffect
<1>3. /\ Of(p) \in Clones /\ Of(p).head <= Len(commits) /\ Tree(Of(p).head) \in Snaps
      /\ \A b \in Branches : Of(p).tracking[b] <= Len(commits)
  BY CacheType, TreeType DEF Clones
<1>4. CASE ListFiles(p)
  <2>1. [loc[p] EXCEPT !.files = {f \in Files : Text(p, f) # NoFile}] \in LocalsSet
    BY <1>0 DEF LocalsSet
  <2>2. LocalEffect(p)
    BY <1>4, <2>1, GotoEffect DEF ListFiles, InSnapshot
  <2> QED
    BY <1>0, <1>1, <1>4, <2>2 DEF ListFiles, InSnapshot, history, counters, SnapshotEffect
<1>5. CASE ResetCache(p)
  <2>1. [Of(p) EXCEPT !.wt = Tree(Of(p).head), !.index = Tree(Of(p).head)] \in Clones
    BY <1>3 DEF Clones
  <2>2. CacheEffect(p)
    BY <1>1, <1>2, <1>3, <1>5, <2>1 DEF counters, ResetCache, Clones
  <2>3. LocalEffect(p)
    BY <1>5, GotoEffect DEF ResetCache, InSnapshot
  <2> QED
    BY <1>0, <1>5, <2>2, <2>3 DEF ResetCache, InSnapshot, history, counters, SnapshotEffect
<1>22. CASE CloneCache(p)
  <2>1. remote \in [Branches -> Nat] /\ \A b \in Branches : remote[b] <= Len(commits)
    BY DEF TypeOK
  <2>2. PICK b \in Branches : Change(p, [Of(p) EXCEPT
          !.cloned = TRUE, !.tracking = remote,
          !.head = remote[b], !.wt = Tree(remote[b]), !.index = Tree(remote[b])])
    BY <1>22 DEF CloneCache
  <2> DEFINE h == remote[b]
             t == Tree(h)
             c == [Of(p) EXCEPT !.cloned = TRUE, !.tracking = remote, !.head = h, !.wt = t, !.index = t]
  <2>3. h \in Nat /\ h <= Len(commits) /\ t \in Snaps
    BY <2>1, TreeType
  <2>4. c \in Clones /\ c.head = h /\ c.tracking = remote
    <3> HIDE DEF h, t
    <3>1. Of(p) \in Clones
      BY <1>3
    <3> QED
      BY <2>1, <2>3, <3>1 DEF Clones
  <2>5. CacheEffect(p)
    <3>1. Change(p, c) /\ UNCHANGED <<scenario, commits>>
      BY <1>22, <2>2 DEF CloneCache, counters
    <3> HIDE DEF c, h, t
    <3> QED
      BY <1>2, <2>1, <2>3, <2>4, <3>1
  <2>6. LocalEffect(p)
    BY <1>0, <1>22 DEF CloneCache, LocalEffect, InSnapshot
  <2> QED
    BY <1>0, <1>22, <2>5, <2>6 DEF CloneCache, InSnapshot, history, counters, SnapshotEffect
<1>6. CASE Fetch(p)
  <2>1. remote \in [Branches -> Nat] /\ \A b \in Branches : remote[b] <= Len(commits)
    BY DEF TypeOK
  <2>2. [Of(p) EXCEPT !.tracking = remote] \in Clones
    BY <1>3, <2>1 DEF Clones
  <2>3. CacheEffect(p)
    BY <1>2, <1>3, <1>6, <2>1, <2>2 DEF counters, Fetch, Clones
  <2>4. LocalEffect(p)
    BY <1>6, GotoEffect DEF Fetch, InSnapshot
  <2> QED
    BY <1>0, <1>6, <2>3, <2>4 DEF Fetch, InSnapshot, history, counters, SnapshotEffect

<1>7. CASE Checkout(p)
  <2> DEFINE b == Options[p].branch
             t == Tree(Of(p).tracking[b])
             W(f) == t[f]
  <2>1. b \in Branches /\ Of(p).tracking[b] \in Nat /\ t \in Snaps
    BY <1>0, <1>3, TreeType DEF Option, Clones
  <2>2. PICK wt \in [Files -> Blob], index \in [Files -> Blob] :
          \/ Change(p, [Of(p) EXCEPT !.head = Of(p).tracking[b], !.wt = wt, !.index = index])
          \/ UNCHANGED cache
    <3>1. Of(p).wt \in [Files -> Blob] /\ Of(p).index \in [Files -> Blob] /\ t \in [Files -> Blob]
      BY <1>3, <2>1 DEF Clones, Snaps
    <3>2. ASSUME NEW old \in [Files -> Blob], NEW M(_)
          PROVE  [f \in Files |-> IF M(f) THEN t[f] ELSE old[f]] \in [Files -> Blob]
      BY <3>1
    <3> QED
      BY <1>7, <3>1, <3>2 DEF Checkout
  <2>3. [Of(p) EXCEPT !.head = Of(p).tracking[b], !.wt = wt, !.index = index] \in Clones
    BY <1>3, <2>1 DEF Clones, Snaps
  <2>4. UNCHANGED <<scenario, commits>>
    BY <1>7 DEF counters, Checkout
  <2>5. CacheEffect(p)
    BY <1>1, <1>2, <1>3, <2>1, <2>2, <2>3, <2>4 DEF Clones
  <2>6. \/ Goto(p, "plan") /\ UNCHANGED loc
        \/ Goto(p, "ready") /\ Report(p, "conflict")
    BY <1>7 DEF Checkout
  <2>7. LocalEffect(p)
    BY <2>6, GotoEffect DEF InSnapshot, Outcomes
  <2>8. pc[p] \in InSnapshot /\ UNCHANGED <<src, commits, remote, lock, history, counters>>
    BY <1>7 DEF Checkout, InSnapshot
  <2> QED
    BY <1>0, <2>5, <2>7, <2>8 DEF history, counters, SnapshotEffect
<1>8. CASE CheckoutOrphan(p)
  <2>1. [Of(p) EXCEPT !.head = 0] \in Clones
    BY <1>3 DEF Clones
  <2>2. \/ Change(p, [Of(p) EXCEPT !.head = 0]) /\ Goto(p, "plan") /\ UNCHANGED loc
        \/ UNCHANGED cache /\ Goto(p, "ready") /\ Report(p, "nobranch")
    BY <1>8 DEF CheckoutOrphan
  <2>3. CacheEffect(p)
    <3>1. 0 <= Len(commits)
      BY <1>0
    <3>2. UNCHANGED <<scenario, commits>>
      BY <1>8 DEF CheckoutOrphan, counters
    <3> QED
      BY <1>1, <1>2, <1>3, <2>1, <2>2, <3>1, <3>2 DEF Clones
  <2>4. LocalEffect(p)
    BY <2>2, GotoEffect DEF InSnapshot, Outcomes
  <2> QED
    BY <1>0, <1>8, <2>3, <2>4 DEF CheckoutOrphan, InSnapshot, history, counters, SnapshotEffect
<1>9. CASE Plan(p)
  <2>1. LocalEffect(p)
    <3>1. ASSUME NEW todo \in SUBSET Files, NEW touched \in BOOLEAN
          PROVE  [loc[p] EXCEPT !.todo = todo, !.touched = touched] \in LocalsSet
      BY <1>0 DEF LocalsSet
    <3>2. loc[p].files \subseteq Files
      BY <1>0 DEF LocalsSet
    <3>3. PICK todo \in SUBSET Files, touched \in BOOLEAN :
            \/ Goto(p, "ready") /\ Report(p, "missing")
            \/ Goto(p, "stale") /\ loc' = [loc EXCEPT ![p].todo = todo, ![p].touched = touched]
      BY <1>9, <3>2 DEF Plan
    <3>4. [loc EXCEPT ![p].todo = todo, ![p].touched = touched]
            = [loc EXCEPT ![p] = [loc[p] EXCEPT !.todo = todo, !.touched = touched]]
      BY <1>0
    <3> QED
      BY <3>1, <3>3, <3>4, GotoEffect DEF InSnapshot, Outcomes
  <2> QED
    BY <1>0, <1>1, <1>9, <2>1 DEF Plan, InSnapshot, history, counters, SnapshotEffect
<1>10. CASE RemoveStale(p)
  <2> DEFINE wt == [f \in Files |-> IF f \in {g \in Files \ loc[p].files : Of(p).wt[g] # Absent}
                                    THEN Absent ELSE Of(p).wt[f]]
  <2>1. [Of(p) EXCEPT !.wt = wt] \in Clones
    BY <1>3, NothingType DEF Clones, Snaps
  <2>2. CacheEffect(p)
    BY <1>2, <1>3, <1>10, <2>1 DEF counters, RemoveStale, Clones
  <2>3. LocalEffect(p)
    <3>1. ASSUME NEW touched \in BOOLEAN
          PROVE  [loc[p] EXCEPT !.touched = touched] \in LocalsSet
      BY <1>0 DEF LocalsSet
    <3>2. loc[p].touched \in BOOLEAN
      BY <1>0 DEF LocalsSet
    <3> QED
      BY <1>10, <3>1, <3>2, GotoEffect DEF RemoveStale, InSnapshot
  <2> QED
    BY <1>0, <1>10, <2>2, <2>3 DEF RemoveStale, InSnapshot, history, counters, SnapshotEffect
<1>11. ASSUME NEW f \in Files, CopyFile(p, f)
       PROVE  SnapshotEffect(p)
  <2>1. Plain(Text(p, f)) \in Blob
    BY <1>0, InstanceAssumption DEF TypeOK, Text, Option, Plain, Blob
  <2>2. ASSUME NEW g PROVE [Of(p) EXCEPT !.wt[g] = Plain(Text(p, f))] \in Clones
    <3>1. [Of(p).wt EXCEPT ![g] = Plain(Text(p, f))] \in Snaps
      BY <1>3, <2>1 DEF Clones, Snaps
    <3> QED
      BY <1>3, <3>1 DEF Clones
  <2>3. \/ /\ UNCHANGED cache /\ Goto(p, "ready")
           /\ Report(p, "conflict") \/ Report(p, "missing")
        \/ /\ \E g : Change(p, [Of(p) EXCEPT !.wt[g] = Plain(Text(p, f))])
           /\ loc' = [loc EXCEPT ![p].todo = @ \ {f}] /\ UNCHANGED pc
    BY <1>11 DEF CopyFile
  <2>4. UNCHANGED <<src, commits, remote, lock, history, counters>> /\ pc[p] \in InSnapshot
    BY <1>11 DEF CopyFile, InSnapshot
  <2>5. CacheEffect(p)
    <3>1. UNCHANGED <<scenario, commits>>
      BY <2>4 DEF counters
    <3>2. ASSUME NEW g, Change(p, [Of(p) EXCEPT !.wt[g] = Plain(Text(p, f))])
          PROVE  CacheEffect(p)
      <4> DEFINE c == [Of(p) EXCEPT !.wt[g] = Plain(Text(p, f))]
      <4>1. c \in Clones /\ c.head = Of(p).head /\ c.tracking = Of(p).tracking
        BY <1>3, <2>2 DEF Clones
      <4> HIDE DEF c
      <4> QED
        BY <1>2, <1>3, <3>1, <3>2, <4>1 DEF c
    <3> QED
      BY <1>1, <2>3, <3>1, <3>2
  <2>6. LocalEffect(p)
    <3>1. [loc[p] EXCEPT !.todo = @ \ {f}] \in LocalsSet
      BY <1>0 DEF LocalsSet
    <3>2. UNCHANGED pc => Goto(p, pc[p])
      BY <1>0 DEF Goto
    <3> QED
      BY <2>3, <2>4, <3>1, <3>2, GotoEffect DEF InSnapshot, Outcomes
  <2> QED
    BY <1>0, <2>4, <2>5, <2>6 DEF history, counters, SnapshotEffect
<1>12. CASE CopyDone(p)
  <2>1. LocalEffect(p)
    BY <1>12, GotoEffect DEF CopyDone, InSnapshot
  <2> QED
    BY <1>0, <1>1, <1>12, <2>1 DEF CopyDone, InSnapshot, history, counters, SnapshotEffect
<1>13. CASE Rewrite(p)
  <2> DEFINE wt == [f \in Files |-> IF f \in {k \in Kustomizations : Of(p).wt[k] # Absent}
                                    THEN [Of(p).wt[f] EXCEPT !.pin = Text(p, Pins)] ELSE Of(p).wt[f]]
  <2>1. Text(p, Pins) \in Texts
    BY <1>0, InstanceAssumption DEF TypeOK, Text, Option
  <2>2. wt \in Snaps
    BY <1>3, <2>1 DEF Clones, Snaps, Blob
  <2>3. [Of(p) EXCEPT !.wt = wt] \in Clones
    BY <1>3, <2>2 DEF Clones
  <2>4. CacheEffect(p)
    BY <1>1, <1>2, <1>3, <1>13, <2>3 DEF counters, Rewrite, Clones
  <2>5. LocalEffect(p)
    BY <1>13, GotoEffect DEF Rewrite, InSnapshot, Outcomes
  <2> QED
    BY <1>0, <1>13, <2>4, <2>5 DEF Rewrite, InSnapshot, history, counters, SnapshotEffect
<1>14. CASE Add(p)
  <2>1. [Of(p) EXCEPT !.index = Of(p).wt] \in Clones
    BY <1>3 DEF Clones
  <2>2. CacheEffect(p)
    BY <1>2, <1>3, <1>14, <2>1 DEF counters, Add, Clones
  <2>3. LocalEffect(p)
    BY <1>14, GotoEffect DEF Add, InSnapshot
  <2> QED
    BY <1>0, <1>14, <2>2, <2>3 DEF Add, InSnapshot, history, counters, SnapshotEffect
<1>15. CASE Diff(p)
  <2>1. LocalEffect(p)
    BY <1>15, GotoEffect DEF Diff, InSnapshot, Outcomes
  <2> QED
    BY <1>0, <1>1, <1>15, <2>1 DEF Diff, InSnapshot, history, counters, SnapshotEffect
<1>16. CASE Commit(p)
  <2> DEFINE c == Of(p)
             new == Len(commits) + 1
             past == IF c.head = 0 THEN {} ELSE commits[c.head].past \cup {c.head}
             commit == [tree |-> c.index, past |-> past]
  <2>1. CASE c.index = Tree(c.head)
    <3>1. LocalEffect(p)
      BY <1>16, <2>1, GotoEffect DEF Commit, InSnapshot, Outcomes
    <3> QED
      BY <1>0, <1>1, <1>16, <2>1, <3>1 DEF Commit, InSnapshot, history, counters, SnapshotEffect
  <2>2. CASE c.index # Tree(c.head)
    <3>1. commit \in Commits
      <4>1. c.head # 0 => commits[c.head] \in Commits
        BY <1>0, <1>3 DEF Clones
      <4> QED
        BY <1>3, <4>1 DEF Commits, Clones
    <3>2. commits' = Append(commits, commit) /\ Change(p, [c EXCEPT !.head = new]) /\ UNCHANGED scenario
      BY <1>16, <2>2 DEF counters, Commit
    <3>3. /\ commits' \in Seq(Commits) /\ Len(commits') = new
          /\ \A i \in 1..Len(commits) : commits'[i] = commits[i]
      BY <1>0, <3>1, <3>2
    <3>4. [c EXCEPT !.head = new] \in Clones
      <4>1. new \in Nat /\ c \in Clones
        BY <1>0, <1>3
      <4> HIDE DEF c, new
      <4> QED
        BY <4>1 DEF Clones
    <3>5. \A b \in Branches : c.tracking[b] \in Nat
      BY <1>3 DEF Clones
    <3>6. CacheEffect(p)
      <4> HIDE DEF c, new, commit
      <4>1. [c EXCEPT !.head = new].head = new /\ [c EXCEPT !.head = new].tracking = c.tracking
        BY <1>3 DEF Clones, c
      <4>2. new \in Nat /\ \A b \in Branches : c.tracking[b] <= new
        BY <1>0, <1>3, <3>5 DEF new, c
      <4>3. [c EXCEPT !.head = new].head <= Len(commits')
        BY <3>3, <4>1, <4>2
      <4>4. \A b \in Branches : [c EXCEPT !.head = new].tracking[b] <= Len(commits')
        BY <3>3, <4>1, <4>2
      <4> QED
        BY <3>2, <3>4, <4>3, <4>4, ChangeEffect
    <3>7. LocalEffect(p)
      <4>1. new \in Nat
        BY <1>0
      <4>2. [loc[p] EXCEPT !.commit = new] \in LocalsSet
        BY <1>0, <4>1 DEF LocalsSet
      <4>3. Goto(p, "push") /\ loc' = [loc EXCEPT ![p].commit = new]
        BY <1>16, <2>2 DEF Commit
      <4> QED
        BY <4>2, <4>3, GotoEffect DEF InSnapshot
    <3>8. UNCHANGED <<src, remote, lock, history, counters>> /\ pc[p] \in InSnapshot
      BY <1>16 DEF Commit, InSnapshot
    <3>9. Len(commits) <= Len(commits')
      BY <1>0, <3>3
    <3>10. commits' = Append(commits, NewCommit(p))
      BY <3>2 DEF NewCommit
    <3> QED
      BY <1>0, <3>3, <3>6, <3>7, <3>8, <3>9, <3>10 DEF history, counters, SnapshotEffect
  <2> QED
    BY <2>1, <2>2
<1>17. CASE Push(p)
  <2>1. Options[p].branch \in Branches /\ Of(p).head \in Nat
    BY <1>0, <1>3 DEF Option, Clones
  <2>2. [Of(p) EXCEPT !.tracking[Options[p].branch] = Of(p).head] \in Clones
    BY <1>3, <2>1 DEF Clones
  <2>3. CacheEffect(p)
    BY <1>2, <1>3, <1>17, <2>1, <2>2 DEF counters, Push, Clones
  <2>4. LocalEffect(p)
    BY <1>17, GotoEffect DEF Push, InSnapshot, Outcomes
  <2> QED
    BY <1>0, <1>17, <2>3, <2>4 DEF Push, InSnapshot, counters, SnapshotEffect
<1>18. CASE PushLostAnswer(p)
  <2>1. LocalEffect(p)
    BY <1>18, GotoEffect DEF PushLostAnswer, InSnapshot, Outcomes
  <2> QED
    BY <1>0, <1>1, <1>18, <2>1 DEF PushLostAnswer, InSnapshot, history, counters, SnapshotEffect
<1>19. CASE PushRefused(p)
  <2>1. LocalEffect(p)
    BY <1>19, GotoEffect DEF PushRefused, InSnapshot, Outcomes
  <2> QED
    BY <1>0, <1>1, <1>19, <2>1 DEF PushRefused, InSnapshot, history, counters, SnapshotEffect
<1>20. CASE Save(p)
  <2> DEFINE saved == loc[p].files \cap Inputs
             meta == [f \in Inputs |-> IF f \in saved THEN [src |-> Text(p, f), cache |-> Of(p).wt[f]] ELSE NoEntry]
  <2>1. meta \in [Inputs -> Entry]
    <3>1. \A f \in Inputs : Text(p, f) \in Texts /\ Of(p).wt[f] \in Blob
      BY <1>0, <1>3, InstanceAssumption DEF TypeOK, Text, Option, Inputs, Clones, Snaps
    <3> QED
      BY <3>1, NothingType DEF Entry
  <2>2. [Of(p) EXCEPT !.meta = meta] \in Clones
    BY <1>3, <2>1 DEF Clones
  <2>3. CacheEffect(p)
    BY <1>1, <1>2, <1>3, <1>20, <2>2 DEF counters, Save, Clones
  <2>4. LocalEffect(p)
    BY <1>20, GotoEffect DEF Save, InSnapshot
  <2> QED
    BY <1>0, <1>20, <2>3, <2>4 DEF Save, InSnapshot, history, counters, SnapshotEffect
<1>21. CASE Fails(p)
  <2>1. LocalEffect(p)
    BY <1>21, GotoEffect DEF Fails, InSnapshot, Outcomes
  <2> QED
    BY <1>0, <1>1, <1>21, <2>1 DEF Fails, InSnapshot, history, counters, SnapshotEffect
<1> QED
  BY <1>4, <1>5, <1>6, <1>7, <1>8, <1>9, <1>10, <1>11, <1>12, <1>13, <1>14, <1>15, <1>16, <1>17, <1>18, <1>19,
     <1>20, <1>21, <1>22 DEF Snapshot

(* Types hold at the start.                                                *)
LEMMA TypeInit == Init => TypeOK
<1> SUFFICES ASSUME Init PROVE TypeOK
  OBVIOUS
<1>1. /\ commits = <<>> /\ commits \in Seq(Commits) /\ Len(commits) = 0
      /\ src \in [Worktrees -> [Files -> Texts]]
  BY DEF Init, Worktree
<1>2. cache \in [Caches -> Clones]
  <2>1. [f \in Inputs |-> NoEntry] \in [Inputs -> Entry]
    BY NothingType
  <2> QED
    BY <2>1, NothingType DEF Init, Clones
<1>3. /\ \A c \in Caches : cache[c].head = 0 /\ \A b \in Branches : cache[c].tracking[b] = 0
      /\ loc \in [Procs -> LocalsSet]
  BY NothingType DEF Init
<1>4. /\ lock \in [Caches -> [Branches -> Procs \cup {Nobody}]]
      /\ pc \in [Procs -> {"idle", "ready"} \cup InSnapshot]
      /\ during \in [Procs -> [Files -> SUBSET Texts]]
      /\ held \in [Procs -> SUBSET Nat] /\ \A p \in Procs : held[p] = {}
  BY DEF Init
<1>5. remote \in [Branches -> Nat] /\ \A b \in Branches : remote[b] = 0
  BY DEF Init
<1>6. scenario \in Scenarios /\ edits \in Nat /\ syncs \in Nat /\ faults \in Nat
  BY DEF Init
<1> QED
  BY <1>1, <1>2, <1>3, <1>4, <1>5, <1>6 DEF TypeOK

(* What a step of a snapshot publishes, or not, keeps its type.            *)
LEMMA PublishType ==
  ASSUME TypeOK, NEW p \in Procs, SnapshotEffect(p)
  PROVE  /\ remote' \in [Branches -> Nat] /\ \A b \in Branches : remote'[b] <= Len(commits')
         /\ held' \in [Procs -> SUBSET Nat] /\ \A q \in Procs : \A h \in held'[q] : h <= Len(commits')
<1>1. /\ remote \in [Branches -> Nat] /\ \A b \in Branches : remote[b] <= Len(commits)
      /\ held \in [Procs -> SUBSET Nat] /\ \A q \in Procs : \A h \in held[q] : h <= Len(commits)
      /\ Len(commits) \in Nat
  BY DEF TypeOK
<1>2. Len(commits') \in Nat /\ Len(commits) <= Len(commits')
  BY DEF SnapshotEffect
<1>3. Of(p).head \in Nat /\ Of(p).head <= Len(commits)
  BY CacheType DEF Clones
<1>4. CASE UNCHANGED <<remote, held>>
  BY <1>1, <1>2, <1>4
<1>5. CASE Publish(p)
  <2>1. remote' \in [Branches -> Nat] /\ \A b \in Branches : remote'[b] <= Len(commits')
    <3>1. remote' = [remote EXCEPT ![Options[p].branch] = Of(p).head]
      BY <1>5 DEF Publish
    <3>2. remote' \in [Branches -> Nat] /\ \A b \in Branches : remote'[b] \in {remote[b], Of(p).head}
      BY <1>1, <1>3, <3>1
    <3> QED
      BY <1>1, <1>2, <1>3, <3>2
  <2>2. held' \in [Procs -> SUBSET Nat] /\ \A q \in Procs : held'[q] \subseteq held[q] \cup {Of(p).head}
    BY <1>1, <1>3, <1>5 DEF Publish
  <2> QED
    BY <1>1, <1>2, <1>3, <2>1, <2>2
<1> QED
  BY <1>4, <1>5 DEF SnapshotEffect

(* Every step keeps the types.                                             *)
LEMMA TypeStep ==
  ASSUME TypeOK, [Next]_vars
  PROVE  TypeOK'
<1>1. ASSUME NEW w \in Worktrees, NEW f \in Files, NEW t \in Texts, EditFile(w, f, t)
      PROVE  TypeOK'
  <2>1. src' \in [Worktrees -> [Files -> Texts]] /\ edits' \in Nat
    BY <1>1 DEF EditFile, TypeOK
  <2>2. during' \in [Procs -> [Files -> SUBSET Texts]]
    BY <1>1 DEF EditFile, TypeOK
  <2> QED
    BY <1>1, <2>1, <2>2 DEF EditFile, TypeOK
<1>2. ASSUME NEW p \in scenario.procs, AcquireLock(p) \/ Leave(p) \/ BeginSync(p)
      PROVE  TypeOK'
  <2>1. p \in Procs /\ Options[p] \in Option
    BY OptionsType, InstanceAssumption DEF TypeOK, Scenario
  <2>2. /\ lock \in [Caches -> [Branches -> Procs \cup {Nobody}]]
        /\ pc \in [Procs -> {"idle", "ready"} \cup InSnapshot] /\ loc \in [Procs -> LocalsSet]
    BY DEF TypeOK
  <2>3. CASE AcquireLock(p)
    <3>1. lock' \in [Caches -> [Branches -> Procs \cup {Nobody}]]
      BY <2>1, <2>2, <2>3 DEF AcquireLock
    <3>2. pc' \in [Procs -> {"idle", "ready"} \cup InSnapshot]
      BY <2>2, <2>3 DEF AcquireLock, Goto
    <3> QED
      BY <2>3, <3>1, <3>2 DEF AcquireLock, TypeOK, history, counters
  <2>4. CASE Leave(p)
    <3>1. lock' \in [Caches -> [Branches -> Procs \cup {Nobody}]]
      BY <2>1, <2>2, <2>4 DEF Leave
    <3>2. pc' \in [Procs -> {"idle", "ready"} \cup InSnapshot] /\ loc' \in [Procs -> LocalsSet]
      BY <2>2, <2>4, NothingType DEF Leave, Goto
    <3> QED
      BY <2>4, <3>1, <3>2 DEF Leave, TypeOK, history, counters
  <2>5. CASE BeginSync(p)
    <3>1. pc' \in [Procs -> {"idle", "ready"} \cup InSnapshot] /\ loc' \in [Procs -> LocalsSet]
      BY <2>2, <2>5, NothingType DEF BeginSync, Goto, InSnapshot
    <3>2. during' \in [Procs -> [Files -> SUBSET Texts]]
      BY <2>1, <2>5 DEF BeginSync, TypeOK, Text, Option
    <3>3. Options[p].branch \in Branches
      BY <2>1 DEF Option
    <3>4. held' \in [Procs -> SUBSET Nat] /\ \A q \in Procs : \A h \in held'[q] : h <= Len(commits)
      BY <2>5, <3>3 DEF BeginSync, TypeOK
    <3> QED
      BY <2>5, <3>1, <3>2, <3>4 DEF BeginSync, TypeOK
  <2> QED
    BY <1>2, <2>3, <2>4, <2>5
<1>3. ASSUME NEW p \in scenario.procs, Snapshot(p)
      PROVE  TypeOK'
  <2>1. p \in Procs /\ Options[p].cache \in Caches
    BY OptionsType, InstanceAssumption DEF TypeOK, Scenario, Option
  <2>2. SnapshotEffect(p)
    BY <1>3, <2>1, SnapshotStep
  <2>3. /\ cache' \in [Caches -> Clones]
        /\ \A c \in Caches : /\ cache'[c].head <= Len(commits')
                            /\ \A b \in Branches : cache'[c].tracking[b] <= Len(commits')
    <3>1. Len(commits) \in Nat /\ Len(commits') \in Nat /\ Len(commits) <= Len(commits')
      BY <2>2 DEF SnapshotEffect, TypeOK
    <3>2. Of(p)' = cache'[Options[p].cache]
      BY <2>2 DEF SnapshotEffect, Of, Options
    <3>3. \A c \in Caches : /\ cache[c].head \in Nat /\ cache[c].head <= Len(commits)
                            /\ \A b \in Branches : cache[c].tracking[b] \in Nat /\ cache[c].tracking[b] <= Len(commits)
      BY DEF TypeOK, Clones
    <3> QED
      BY <2>1, <2>2, <3>1, <3>2, <3>3 DEF SnapshotEffect, CacheEffect
  <2> QED
    BY <2>1, <2>2, <2>3, PublishType DEF SnapshotEffect, LocalEffect, TypeOK
<1>4. CASE UNCHANGED vars
  BY <1>4 DEF vars, TypeOK
<1> QED
  BY <1>1, <1>2, <1>3, <1>4 DEF Next

----------------------------------------------------------------------------
(* The lock and the history *)

(* Who acts is a process, and the scenario stays.                          *)
LEMMA Actors ==
  ASSUME TypeOK, [Next]_vars
  PROVE  scenario' = scenario /\ Options' = Options /\ scenario.procs \subseteq Procs
<1>1. scenario.procs \subseteq Procs
  BY InstanceAssumption DEF TypeOK, Scenario
<1>2. ASSUME NEW p \in scenario.procs, Snapshot(p)
      PROVE  scenario' = scenario
  BY <1>1, <1>2, SnapshotStep DEF SnapshotEffect
<1> QED
  BY <1>1, <1>2 DEF Next, vars, EditFile, AcquireLock, Leave, BeginSync, counters, Options

(* Locks are taken only when they are free, and freed by who holds them.   *)
LEMMA LockStep ==
  ASSUME TypeOK, LockInv, [Next]_vars
  PROVE  LockInv'
<1>1. scenario' = scenario /\ Options' = Options /\ scenario.procs \subseteq Procs
  BY Actors
<1>2. pc \in [Procs -> {"idle", "ready"} \cup InSnapshot] /\ lock \in [Caches -> [Branches -> Procs \cup {Nobody}]]
  BY DEF TypeOK
<1>3. Nobody \notin Procs
  BY InstanceAssumption DEF Nobody
<1>4. \A p \in Procs : Options[p].cache \in Caches /\ Options[p].branch \in Branches
  BY OptionsType DEF Option
<1>5. ASSUME NEW w \in Worktrees, NEW f \in Files, NEW t \in Texts, EditFile(w, f, t)
      PROVE  LockInv'
  BY <1>1, <1>5 DEF EditFile, LockInv
<1>6. ASSUME NEW p \in scenario.procs, AcquireLock(p)
      PROVE  LockInv'
  BY <1>1, <1>2, <1>3, <1>4, <1>6 DEF AcquireLock, Goto, LockInv
<1>7. ASSUME NEW p \in scenario.procs, Leave(p)
      PROVE  LockInv'
  BY <1>1, <1>2, <1>3, <1>4, <1>7 DEF Leave, Goto, LockInv
<1>8. ASSUME NEW p \in scenario.procs, BeginSync(p)
      PROVE  LockInv'
  BY <1>1, <1>2, <1>8 DEF BeginSync, Goto, LockInv
<1>9. ASSUME NEW p \in scenario.procs, Snapshot(p)
      PROVE  LockInv'
  <2>1. SnapshotEffect(p) /\ p \in Procs
    BY <1>1, <1>9, SnapshotStep
  <2> QED
    BY <1>1, <1>2, <2>1 DEF SnapshotEffect, LocalEffect, LockInv, InSnapshot
<1>10. CASE UNCHANGED vars
  BY <1>1, <1>10 DEF vars, LockInv
<1> QED
  BY <1>5, <1>6, <1>7, <1>8, <1>9, <1>10 DEF Next

(* Where there is one lock for a cache, one process is at work with it.    *)
LEMMA OneAtWork ==
  ASSUME TypeOK, LockInv, OneLock, NEW p \in Procs, NEW q \in Procs,
         pc[p] # "idle", pc[q] # "idle", Options[p].cache = Options[q].cache
  PROVE  p = q
BY DEF LockInv, OneLock

(* The history grows by a commit on top of one it has.                     *)
LEMMA HistoryStep ==
  ASSUME TypeOK, HistoryInv, [Next]_vars
  PROVE  HistoryInv'
<1>1. CASE UNCHANGED commits
  BY <1>1 DEF HistoryInv
<1>2. ASSUME NEW p \in Procs, SnapshotEffect(p), commits' = Append(commits, NewCommit(p))
      PROVE  HistoryInv'
  <2> DEFINE n == Len(commits)
             h == Of(p).head
  <2>1. commits \in Seq(Commits) /\ n \in Nat /\ h \in Nat /\ h <= n
    BY CacheType DEF TypeOK, Clones
  <2>2. /\ Len(commits') = n + 1 /\ commits'[n + 1] = NewCommit(p)
        /\ \A i \in 1..n : commits'[i] = commits[i]
    BY <1>2, <2>1
  <2>3. /\ NewCommit(p).past \subseteq 1..n
        /\ \A j \in NewCommit(p).past : commits[j].past \subseteq NewCommit(p).past
    <3>1. CASE h = 0
      BY <3>1 DEF NewCommit
    <3>2. CASE h # 0
      <4>1. h \in 1..n /\ NewCommit(p).past = commits[h].past \cup {h}
        BY <2>1, <3>2 DEF NewCommit
      <4> QED
        BY <2>1, <4>1 DEF HistoryInv
    <3> QED
      BY <3>1, <3>2
  <2> HIDE DEF n
  <2>4. ASSUME NEW i \in 1..(n + 1)
        PROVE  /\ commits'[i].past \subseteq 1..(i - 1)
               /\ \A j \in commits'[i].past : commits'[j].past \subseteq commits'[i].past
    <3>1. CASE i = n + 1
      BY <2>1, <2>2, <2>3, <3>1
    <3>2. CASE i \in 1..n
      BY <2>1, <2>2, <3>2 DEF HistoryInv, n
    <3> QED
      BY <2>1, <2>4, <3>1, <3>2
  <2> QED
    BY <2>2, <2>4 DEF HistoryInv
<1>3. ASSUME NEW p \in scenario.procs, Snapshot(p)
      PROVE  HistoryInv'
  BY <1>1, <1>2, <1>3, Actors, SnapshotStep DEF SnapshotEffect
<1> QED
  BY <1>1, <1>3 DEF Next, vars, EditFile, AcquireLock, Leave, BeginSync

(* The texts stay those of the scenario.                                   *)
LEMMA TextStep ==
  ASSUME TypeOK, TextInv, [Next]_vars
  PROVE  TextInv'
<1>1. CASE UNCHANGED src
  BY <1>1, Actors DEF TextInv
<1>2. ASSUME NEW w \in Worktrees, NEW f \in Files, NEW t \in Texts, EditFile(w, f, t)
      PROVE  TextInv'
  BY <1>2, Actors DEF EditFile, TextInv, Worktree, TypeOK
<1>3. ASSUME NEW p \in scenario.procs, Snapshot(p)
      PROVE  TextInv'
  BY <1>1, <1>3, Actors, SnapshotStep DEF SnapshotEffect
<1> QED
  BY <1>1, <1>2, <1>3 DEF Next, vars, AcquireLock, Leave, BeginSync

----------------------------------------------------------------------------
(* A step of a snapshot *)

(* What a step of a snapshot leaves as it was.                             *)
LEMMA Frame ==
  ASSUME TypeOK, NEW p \in Procs, SnapshotEffect(p)
  PROVE  /\ Options' = Options /\ during' = during
         /\ \A q \in Procs : \A f \in Files : Text(q, f)' = Text(q, f)
         /\ \A q \in Procs : held[q] \subseteq held'[q]
         /\ \A i \in 0..Len(commits) : Tree(i)' = Tree(i)
         /\ \A q \in Procs : \A h \in held[q] : Matches(q, h)' <=> Matches(q, h)
<1>1. Options' = Options /\ during' = during /\ \A q \in Procs : \A f \in Files : Text(q, f)' = Text(q, f)
  BY DEF SnapshotEffect, Options, Text
<1>2. \A i \in 0..Len(commits) : Tree(i)' = Tree(i)
  <2>1. Len(commits) \in Nat
    BY DEF TypeOK
  <2> QED
    BY <2>1 DEF SnapshotEffect, Tree
<1>3. \A q \in Procs : held[q] \subseteq held'[q]
  BY DEF SnapshotEffect, Publish, TypeOK
<1>4. \A q \in Procs : \A h \in held[q] : h \in 0..Len(commits)
  BY DEF TypeOK
<1> QED
  BY <1>1, <1>2, <1>3, <1>4 DEF Matches

(* The cache after a change of it.                                         *)
LEMMA ChangeOf ==
  ASSUME TypeOK, NEW p \in Procs, NEW c, UNCHANGED scenario, Change(p, c)
  PROVE  Of(p)' = c
<1>1. Options[p].cache \in Caches /\ Options' = Options
  BY OptionsType DEF Option, Options
<1> QED
  BY <1>1 DEF Change, Of, TypeOK

(* What is so of a process, and of its cache.                              *)
OwnInv(p) == CloneOk(Of(p)) /\ SourceOf(p) /\ CopyOf(p) /\ BranchOf(p) /\ OutcomeOf(p)

(* Of an absent file, and of the trees of commits.                         *)
LEMMA UnlinkedTree ==
  ASSUME TypeOK, CommitsOk
  PROVE  ~IsLink(NoFile) /\ \A i \in 0..Len(commits) : Unlinked(Tree(i))
<1>1. ~IsLink(NoFile)
  BY InstanceAssumption DEF IsLink
<1>2. Unlinked(Tree(0))
  BY <1>1 DEF Tree, EmptyTree, Absent, Plain, Unlinked
<1>3. \A i \in 1..Len(commits) : Tree(i) = commits[i].tree
  BY DEF Tree
<1>4. Len(commits) \in Nat
  BY DEF TypeOK
<1> QED
  BY <1>1, <1>2, <1>3, <1>4 DEF CommitsOk

(* What was found of the worktree stays so.                                *)
LEMMA SourceStays ==
  ASSUME TypeOK, NEW p \in Procs, SourceOf(p), SnapshotEffect(p), pc[p] # "list", pc'[p] # "list",
         loc'[p].files = loc[p].files, loc'[p].todo \subseteq loc[p].files
  PROVE  SourceOf(p)'
<1>1. Inputs \subseteq Files
  BY InstanceAssumption DEF Inputs
<1> QED
  BY <1>1, Frame DEF SourceOf, Open, SnapshotEffect

(* A step on the way reports nothing.                                      *)
LEMMA NoOutcomeYet ==
  ASSUME NEW p \in Procs, OutcomeOf(p), pc[p] \in InSnapshot \ {"save"}, pc'[p] \in InSnapshot \ {"save"},
         loc'[p].outcome = loc[p].outcome
  PROVE  OutcomeOf(p)'
BY DEF OutcomeOf, Open

(* The steps at the HEAD that was checked out.                             *)
AtHead == {"plan", "stale", "copy", "rewrite", "add", "diff", "commit"}

(* HEAD stays where it is, and the branch in Gitea too.                    *)
LEMMA BranchStays ==
  ASSUME NEW p \in Procs, BranchOf(p), UNCHANGED <<scenario, remote, held>>,
         pc[p] \in InSnapshot, pc'[p] \in {"reset", "save", "ready"} \/ (pc[p] \in AtHead /\ pc'[p] \in AtHead),
         Of(p)'.head = Of(p).head, Of(p)'.tracking = Of(p).tracking
  PROVE  BranchOf(p)'
BY DEF BranchOf, Open, AtHead, Options, Remote, Tracked

(* A failed step: the cache stays, and the outcome is as it may be.        *)
LEMMA FailedStep ==
  ASSUME TypeOK, NEW p \in Procs, OwnInv(p), SnapshotEffect(p), pc'[p] = "ready", UNCHANGED cache,
         NEW outcome \in {"failed", "conflict", "missing", "nobranch", "refused"}, loc'[p].outcome = outcome,
         outcome = "conflict" => Of(p).head = 0,
         outcome = "missing" => \E f \in Files : NoFile \in during[p][f],
         outcome = "refused" => \E h, g \in held'[p] : h # g
  PROVE  OwnInv(p)'
<1>1. Of(p)' = Of(p) /\ during' = during
  BY Frame DEF Of
<1> QED
  BY <1>1 DEF OwnInv, CloneOk, Unlinked, SourceOf, CopyOf, BranchOf, OutcomeOf, Open, InSnapshot

(* ListFiles: what is listed was there.                                    *)
LEMMA ListFilesKeeps ==
  ASSUME TypeOK, TextInv, NEW p \in Procs, OwnInv(p), ListFiles(p)
  PROVE  OwnInv(p)'
<1>1. SnapshotEffect(p)
  BY SnapshotStep DEF Snapshot
<1>2. /\ pc[p] = "list" /\ pc'[p] = "reset" /\ loc'[p] = [loc[p] EXCEPT !.files = {f \in Files : Text(p, f) # NoFile}]
      /\ UNCHANGED <<scenario, cache, remote, held, commits>>
  BY DEF ListFiles, Goto, TypeOK, history, counters
<1>3. Of(p)' = Of(p) /\ Options' = Options /\ during' = during /\ \A f \in Files : Text(p, f)' = Text(p, f)
  BY <1>1, <1>2, Frame DEF Of
<1>4. SourceOf(p)'
  <2>1. \E f \in Files : Text(p, f) # NoFile
    BY OptionsType DEF TextInv, Text, Option
  <2>2. loc[p] \in LocalsSet
    BY DEF TypeOK
  <2>3. loc'[p].files = {f \in Files : Text(p, f) # NoFile} /\ loc'[p].todo = loc[p].todo
    BY <1>2, <2>2 DEF LocalsSet
  <2>4. Options[p].rewrite => \A f \in Inputs : during[p][f] = {Text(p, f)}
    BY <1>2 DEF OwnInv, SourceOf, Open, InSnapshot
  <2>5. Inputs \subseteq Files
    BY InstanceAssumption DEF Inputs
  <2>6. \A f \in Files : Text(p, f) \in during[p][f]
    BY <1>2 DEF OwnInv, SourceOf, Open, InSnapshot
  <2>7. loc[p].todo = {}
    BY <1>2 DEF OwnInv, SourceOf, Open, InSnapshot
  <2> QED
    BY <1>2, <1>3, <2>1, <2>3, <2>4, <2>5, <2>6, <2>7 DEF SourceOf
<1>5. CloneOk(Of(p))' /\ CopyOf(p)'
  BY <1>2, <1>3 DEF OwnInv, CloneOk, Unlinked, CopyOf
<1>6. OutcomeOf(p)'
  <2>1. loc'[p].outcome = loc[p].outcome
    BY <1>2 DEF TypeOK, LocalsSet
  <2> QED
    BY <1>2, <2>1, NoOutcomeYet DEF OwnInv, InSnapshot
<1>7. BranchOf(p)'
  BY <1>2, <1>3, BranchStays DEF OwnInv, AtHead, InSnapshot
<1> QED
  BY <1>4, <1>5, <1>6, <1>7 DEF OwnInv

(* CloneCache: the files are those of the default branch.                  *)
LEMMA CloneCacheKeeps ==
  ASSUME TypeOK, CommitsOk, NEW p \in Procs, OwnInv(p), CloneCache(p)
  PROVE  OwnInv(p)'
<1>1. SnapshotEffect(p)
  BY SnapshotStep DEF Snapshot
<1>2. pc[p] = "reset" /\ pc'[p] = "reset" /\ UNCHANGED <<scenario, loc, remote, held, commits>>
  BY DEF CloneCache, history, counters
<1>3. Options' = Options /\ during' = during /\ \A f \in Files : Text(p, f)' = Text(p, f)
  BY <1>1, Frame
<1>4. PICK b \in Branches : Of(p)' = [Of(p) EXCEPT
        !.cloned = TRUE, !.tracking = remote,
        !.head = remote[b], !.wt = Tree(remote[b]), !.index = Tree(remote[b])]
  BY <1>2, ChangeOf DEF CloneCache
<1>5. remote[b] \in 0..Len(commits) /\ Of(p) \in Clones
  BY CacheType DEF TypeOK
<1>6. Of(p)'.wt = Tree(remote[b]) /\ Of(p)'.index = Tree(remote[b]) /\ Of(p)'.meta = Of(p).meta
  BY <1>4, <1>5 DEF Clones
<1>7. CloneOk(Of(p))'
  <2>1. Unlinked(Tree(remote[b]))
    BY <1>5, UnlinkedTree
  <2> QED
    BY <1>6, <2>1 DEF OwnInv, CloneOk, Unlinked
<1>8. CopyOf(p)'
  BY <1>2 DEF CopyOf
<1>9. SourceOf(p)'
  BY <1>1, <1>2, SourceStays DEF OwnInv, SourceOf, Open, InSnapshot
<1>10. OutcomeOf(p)'
  BY <1>2, NoOutcomeYet DEF OwnInv, InSnapshot
<1>11. BranchOf(p)'
  BY <1>2, <1>3 DEF OwnInv, BranchOf, Open, InSnapshot, Remote
<1> QED
  BY <1>7, <1>8, <1>9, <1>10, <1>11 DEF OwnInv

(* ResetCache: the files are those of HEAD again.                          *)
LEMMA ResetCacheKeeps ==
  ASSUME TypeOK, CommitsOk, NEW p \in Procs, OwnInv(p), ResetCache(p)
  PROVE  OwnInv(p)'
<1>1. SnapshotEffect(p)
  BY SnapshotStep DEF Snapshot
<1>2. /\ pc[p] = "reset" /\ pc'[p] = IF Options[p].reset THEN "checkout" ELSE "fetch"
      /\ UNCHANGED <<scenario, loc, remote, held, commits>>
  BY DEF ResetCache, Goto, TypeOK, history, counters
<1>3. Options' = Options /\ during' = during /\ \A f \in Files : Text(p, f)' = Text(p, f)
  BY <1>1, <1>2, Frame
<1>4. Of(p) \in Clones /\ Of(p).head \in 0..Len(commits)
  BY CacheType DEF Clones, TypeOK
<1>5. /\ Of(p)'.head = Of(p).head /\ Of(p)'.meta = Of(p).meta
      /\ Of(p)'.head # 0 => Of(p)'.wt = Tree(Of(p).head) /\ Of(p)'.index = Tree(Of(p).head)
      /\ Of(p)'.head = 0 => Of(p)' = Of(p)
  <2>1. CASE Of(p).head = 0
    BY <1>2, <2>1 DEF ResetCache, Of, Options
  <2>2. CASE Of(p).head # 0
    <3>1. Of(p)' = [Of(p) EXCEPT !.wt = Tree(Of(p).head), !.index = Tree(Of(p).head)]
      BY <1>2, <2>2, ChangeOf DEF ResetCache
    <3> QED
      BY <1>4, <2>2, <3>1 DEF Clones
  <2> QED
    BY <2>1, <2>2
<1>6. Unlinked(Tree(Of(p).head))
  BY <1>4, UnlinkedTree
<1>7. CloneOk(Of(p))'
  BY <1>5, <1>6 DEF OwnInv, CloneOk, Unlinked
<1>8. CopyOf(p)'
  BY <1>2, <1>5 DEF CopyOf, Tree
<1>9. SourceOf(p)'
  BY <1>1, <1>2, SourceStays DEF OwnInv, SourceOf, Open, InSnapshot
<1>10. OutcomeOf(p)'
  BY <1>2, NoOutcomeYet DEF OwnInv, InSnapshot
<1>11. BranchOf(p)'
  BY <1>2, <1>3 DEF OwnInv, BranchOf, Open, InSnapshot, Remote
<1> QED
  BY <1>7, <1>8, <1>9, <1>10, <1>11 DEF OwnInv

(* Fetch: what is tracked is what the branch is now.                       *)
LEMMA FetchKeeps ==
  ASSUME TypeOK, NEW p \in Procs, OwnInv(p), Fetch(p)
  PROVE  OwnInv(p)'
<1>1. SnapshotEffect(p)
  BY SnapshotStep DEF Snapshot
<1>2. /\ pc[p] = "fetch" /\ pc'[p] = "checkout"
      /\ UNCHANGED <<scenario, loc, remote, held, commits>>
  BY DEF Fetch, Goto, TypeOK, history, counters
<1>3. Options' = Options /\ during' = during /\ \A f \in Files : Text(p, f)' = Text(p, f)
  BY <1>1, <1>2, Frame
<1>4. Of(p) \in Clones
  BY CacheType
<1>5. Of(p)' = [Of(p) EXCEPT !.tracking = remote]
  BY <1>2, ChangeOf DEF Fetch
<1>6. Tracked(p)' = Remote(p) /\ Remote(p)' = Remote(p)
  BY <1>2, <1>3, <1>4, <1>5 DEF Tracked, Remote, Clones
<1>7. /\ Of(p)'.head = Of(p).head /\ Of(p)'.wt = Of(p).wt /\ Of(p)'.index = Of(p).index
      /\ Of(p)'.meta = Of(p).meta
  BY <1>4, <1>5 DEF Clones
<1>8. CloneOk(Of(p))' /\ CopyOf(p)'
  BY <1>2, <1>7 DEF OwnInv, CloneOk, Unlinked, CopyOf, Tree
<1>9. SourceOf(p)'
  BY <1>1, <1>2, SourceStays DEF OwnInv, SourceOf, Open, InSnapshot
<1>10. OutcomeOf(p)'
  BY <1>2, NoOutcomeYet DEF OwnInv, InSnapshot
<1>11. BranchOf(p)'
  BY <1>2, <1>3, <1>6 DEF OwnInv, BranchOf, Open, InSnapshot
<1> QED
  BY <1>8, <1>9, <1>10, <1>11 DEF OwnInv

(* Checkout: HEAD is what is tracked, and so is the tree.                  *)
LEMMA CheckoutKeeps ==
  ASSUME TypeOK, CommitsOk, NEW p \in Procs, OwnInv(p), Checkout(p)
  PROVE  OwnInv(p)'
<1> DEFINE to == Of(p).tracking[Options[p].branch]
           from == Tree(Of(p).head)
           target == Tree(to)
           Stays(f) == \/ from[f] = target[f]
                       \/ Of(p).index[f] = target[f] /\ (target[f] # Absent \/ Of(p).wt[f] = Absent)
           Clean(f) == Of(p).index[f] = from[f] /\ Of(p).wt[f] \in {from[f], Absent}
<1>1. SnapshotEffect(p)
  BY SnapshotStep DEF Snapshot
<1>2. pc[p] = "checkout" /\ ~Options[p].reset /\ UNCHANGED <<scenario, remote, held, commits>>
  BY DEF Checkout, history, counters
<1>3. Options' = Options /\ during' = during /\ \A f \in Files : Text(p, f)' = Text(p, f)
  BY <1>1, <1>2, Frame
<1>4. Of(p).head # 0 => \A f \in Files : Clean(f)
  BY <1>2 DEF OwnInv, CopyOf
<1>5. CASE ~\A f \in Files : Stays(f) \/ Clean(f)
  <2>1. pc'[p] = "ready" /\ loc'[p].outcome = "conflict" /\ UNCHANGED cache
    BY <1>5 DEF Checkout, Goto, Report, TypeOK, LocalsSet
  <2>2. Of(p).head = 0
    BY <1>4, <1>5
  <2> QED
    BY <1>1, <2>1, <2>2, FailedStep
<1>6. CASE \A f \in Files : Stays(f) \/ Clean(f)
  <2>1. /\ Change(p, [Of(p) EXCEPT !.head = to,
                                   !.wt = [f \in Files |-> IF Stays(f) THEN Of(p).wt[f] ELSE target[f]],
                                   !.index = [f \in Files |-> IF Stays(f) THEN Of(p).index[f] ELSE target[f]]])
        /\ pc'[p] = "plan" /\ UNCHANGED loc
    BY <1>6 DEF Checkout, Goto, TypeOK
  <2>2. Of(p) \in Clones /\ to \in 0..Len(commits)
    BY CacheType, OptionsType DEF Clones, Option, TypeOK
  <2>3. /\ Of(p)'.head = to /\ Of(p)'.meta = Of(p).meta /\ Of(p)'.tracking = Of(p).tracking
        /\ Of(p)'.wt = [f \in Files |-> IF Stays(f) THEN Of(p).wt[f] ELSE target[f]]
        /\ Of(p)'.index = [f \in Files |-> IF Stays(f) THEN Of(p).index[f] ELSE target[f]]
    <3> HIDE DEF to, from, target, Stays, Clean
    <3>1. Of(p)' = [Of(p) EXCEPT !.head = to,
                                 !.wt = [f \in Files |-> IF Stays(f) THEN Of(p).wt[f] ELSE target[f]],
                                 !.index = [f \in Files |-> IF Stays(f) THEN Of(p).index[f] ELSE target[f]]]
      BY <1>2, <2>1, ChangeOf
    <3> QED
      BY <2>2, <3>1 DEF Clones
  <2>4. Unlinked(target)
    BY <2>2, UnlinkedTree DEF target
  <2>5. CloneOk(Of(p))'
    <3> HIDE DEF to, from, target, Stays, Clean
    <3>1. CloneOk(Of(p))
      BY DEF OwnInv
    <3>2. Unlinked(Of(p)'.wt) /\ Unlinked(Of(p)'.index)
      BY <2>3, <2>4, <3>1 DEF CloneOk, Unlinked
    <3> QED
      BY <2>3, <3>1, <3>2 DEF CloneOk
  <2>6. BranchOf(p)'
    <3>1. Tracked(p)' = to /\ to \in held[p]
      BY <1>2, <1>3, <2>3 DEF OwnInv, BranchOf, Tracked, to, Open, InSnapshot
    <3> QED
      BY <1>2, <1>3, <2>1, <2>3, <3>1 DEF OwnInv, BranchOf, Remote, Open, InSnapshot
  <2>7. SourceOf(p)'
    BY <1>1, <1>2, <2>1, SourceStays DEF OwnInv, SourceOf, Open, InSnapshot
  <2>8. OutcomeOf(p)'
    BY <1>2, <2>1, NoOutcomeYet DEF OwnInv, InSnapshot
  <2>9. CopyOf(p)'
    BY <2>1 DEF CopyOf
  <2> QED
    BY <2>5, <2>6, <2>7, <2>8, <2>9 DEF OwnInv
<1> QED
  BY <1>5, <1>6

(* CheckoutOrphan: a cache without the branch begins anew.                 *)
LEMMA CheckoutOrphanKeeps ==
  ASSUME TypeOK, NEW p \in Procs, OwnInv(p), CheckoutOrphan(p)
  PROVE  OwnInv(p)'
<1>1. SnapshotEffect(p)
  BY SnapshotStep DEF Snapshot
<1>2. /\ pc[p] = "checkout" /\ UNCHANGED <<scenario, remote, held, commits>>
      /\ Options[p].reset \/ Tracked(p) = 0
  BY DEF CheckoutOrphan, Tracked, history, counters
<1>3. Options' = Options /\ during' = during /\ \A f \in Files : Text(p, f)' = Text(p, f)
  BY <1>1, <1>2, Frame
<1>4. CASE Change(p, [Of(p) EXCEPT !.head = 0]) /\ Goto(p, "plan") /\ UNCHANGED loc
  <2>1. Of(p) \in Clones /\ Of(p)' = [Of(p) EXCEPT !.head = 0] /\ pc'[p] = "plan"
    BY <1>2, <1>4, CacheType, ChangeOf DEF Goto, TypeOK
  <2>2. /\ Of(p)'.head = 0 /\ Of(p)'.meta = Of(p).meta /\ Of(p)'.tracking = Of(p).tracking
        /\ Of(p)'.wt = Of(p).wt /\ Of(p)'.index = Of(p).index
    BY <2>1 DEF Clones
  <2>3. CloneOk(Of(p))'
    BY <2>2 DEF OwnInv, CloneOk, Unlinked
  <2>4. Tracked(p)' = Tracked(p)
    BY <1>3, <2>2 DEF Tracked
  <2>5. SourceOf(p)'
    BY <1>1, <1>2, <1>4, <2>1, SourceStays DEF OwnInv, SourceOf, Open, InSnapshot
  <2>6. OutcomeOf(p)'
    BY <1>2, <1>4, <2>1, NoOutcomeYet DEF OwnInv, InSnapshot
  <2>7. BranchOf(p)'
    BY <1>2, <1>3, <2>1, <2>2, <2>4 DEF OwnInv, BranchOf, Open, InSnapshot, Remote
  <2> QED
    BY <2>1, <2>3, <2>5, <2>6, <2>7 DEF OwnInv, CopyOf
<1>5. CASE UNCHANGED cache /\ Goto(p, "ready") /\ Report(p, "nobranch")
  <2>1. pc'[p] = "ready" /\ loc'[p].outcome = "nobranch"
    BY <1>5 DEF Goto, Report, TypeOK, LocalsSet
  <2> QED
    BY <1>1, <1>5, <2>1, FailedStep
<1> QED
  BY <1>4, <1>5 DEF CheckoutOrphan

(* Plan: what is not to be copied is in the cache as it was.               *)
LEMMA PlanKeeps ==
  ASSUME TypeOK, NEW p \in Procs, OwnInv(p), Plan(p)
  PROVE  OwnInv(p)'
<1>1. SnapshotEffect(p)
  BY SnapshotStep DEF Snapshot
<1>2. pc[p] = "plan" /\ UNCHANGED <<scenario, cache, remote, held, commits>>
  BY DEF Plan, history, counters
<1>3. Of(p)' = Of(p) /\ Options' = Options /\ during' = during /\ \A f \in Files : Text(p, f)' = Text(p, f)
  BY <1>1, <1>2, Frame DEF Of
<1>4. loc[p] \in LocalsSet /\ loc[p].files \subseteq Files /\ Inputs \subseteq Files
  BY InstanceAssumption DEF TypeOK, LocalsSet, Inputs
<1>5. \A f \in Files : Text(p, f) \in during[p][f]
  BY <1>2 DEF OwnInv, SourceOf, Open, InSnapshot
<1>6. CASE Options[p].rewrite /\ \E f \in loc[p].files \cap Inputs : Text(p, f) = NoFile
  <2>1. pc'[p] = "ready" /\ loc'[p].outcome = "missing"
    BY <1>4, <1>6 DEF Plan, Goto, Report, TypeOK, LocalsSet
  <2>2. \E f \in Files : NoFile \in during[p][f]
    BY <1>4, <1>5, <1>6
  <2> QED
    BY <1>1, <1>2, <2>1, <2>2, FailedStep
<1>7. CASE ~(Options[p].rewrite /\ \E f \in loc[p].files \cap Inputs : Text(p, f) = NoFile)
  <2>1. /\ pc'[p] = "stale" /\ loc'[p].files = loc[p].files /\ loc'[p].outcome = loc[p].outcome
        /\ loc'[p].todo = loc[p].files \ Kept(p)
    BY <1>4, <1>7 DEF Plan, Goto, TypeOK, LocalsSet
  <2>2. ASSUME NEW f \in Kept(p)
        PROVE  Copied(p, f)
    <3>1. f \in Inputs /\ Text(p, f) # NoFile /\ Of(p).meta[f] = [src |-> Text(p, f), cache |-> Of(p).wt[f]]
      BY <1>7, <2>2 DEF Kept
    <3>2. Of(p).wt[f].text = Text(p, f)
      BY <3>1 DEF OwnInv, CloneOk
    <3> QED
      BY <1>4, <1>5, <3>1, <3>2 DEF Copied
  <2>3. CopyOf(p)'
    BY <1>3, <2>1, <2>2 DEF CopyOf, Copied
  <2>4. SourceOf(p)'
    BY <1>1, <1>2, <2>1, SourceStays DEF OwnInv
  <2>5. OutcomeOf(p)'
    BY <1>2, <2>1, NoOutcomeYet DEF OwnInv, InSnapshot
  <2>6. BranchOf(p)'
    BY <1>2, <1>3, <2>1, BranchStays DEF OwnInv, AtHead, InSnapshot
  <2> QED
    BY <1>3, <2>3, <2>4, <2>5, <2>6 DEF OwnInv, CloneOk, Unlinked
<1> QED
  BY <1>6, <1>7

(* RemoveStale: no file is left that is not listed.                        *)
LEMMA RemoveStaleKeeps ==
  ASSUME TypeOK, CommitsOk, NEW p \in Procs, OwnInv(p), RemoveStale(p)
  PROVE  OwnInv(p)'
<1>1. SnapshotEffect(p)
  BY SnapshotStep DEF Snapshot
<1>2. pc[p] = "stale" /\ pc'[p] = "copy" /\ UNCHANGED <<scenario, remote, held, commits>>
  BY DEF RemoveStale, Goto, TypeOK, history, counters
<1>3. Options' = Options /\ during' = during /\ \A f \in Files : Text(p, f)' = Text(p, f)
  BY <1>1, Frame
<1>4. Of(p) \in Clones /\ loc[p] \in LocalsSet
  BY CacheType DEF TypeOK
<1>5. loc'[p].files = loc[p].files /\ loc'[p].todo = loc[p].todo /\ loc'[p].outcome = loc[p].outcome
  BY <1>4 DEF RemoveStale, TypeOK, LocalsSet
<1>6. /\ Of(p)'.head = Of(p).head /\ Of(p)'.meta = Of(p).meta /\ Of(p)'.tracking = Of(p).tracking
      /\ Of(p)'.index = Of(p).index
      /\ \A f \in loc[p].files \cap Files : Of(p)'.wt[f] = Of(p).wt[f]
      /\ \A f \in Files \ loc[p].files : Of(p)'.wt[f] = Absent
  <2> DEFINE stale == {f \in Files \ loc[p].files : Of(p).wt[f] # Absent}
             wt == [f \in Files |-> IF f \in stale THEN Absent ELSE Of(p).wt[f]]
  <2>1. Of(p)' = [Of(p) EXCEPT !.wt = wt]
    BY <1>2, ChangeOf DEF RemoveStale
  <2> QED
    BY <1>4, <2>1 DEF Clones
<1>7. Absent.text = NoFile /\ ~IsLink(NoFile)
  BY UnlinkedTree DEF Absent, Plain
<1>8. CloneOk(Of(p))'
  BY <1>6, <1>7 DEF OwnInv, CloneOk, Unlinked
<1>9. CopyOf(p)'
  <2>1. \A f \in Files \ loc[p].files : NoFile \in during[p][f]
    BY <1>2 DEF OwnInv, SourceOf, Open, InSnapshot
  <2>2. \A f \in loc[p].files \ loc[p].todo : Copied(p, f)
    BY <1>2 DEF OwnInv, CopyOf
  <2>3. \A f \in Files \ loc[p].todo : Copied(p, f)'
    BY <1>3, <1>5, <1>6, <1>7, <2>1, <2>2 DEF Copied
  <2> QED
    BY <1>2, <1>5, <2>3 DEF CopyOf
<1>10. SourceOf(p)'
  BY <1>1, <1>2, <1>5, SourceStays DEF OwnInv, SourceOf, Open, InSnapshot
<1>11. OutcomeOf(p)'
  BY <1>2, <1>5, NoOutcomeYet DEF OwnInv, InSnapshot
<1>12. BranchOf(p)'
  BY <1>2, <1>6, BranchStays DEF OwnInv, AtHead, InSnapshot
<1> QED
  BY <1>8, <1>9, <1>10, <1>11, <1>12 DEF OwnInv

(* CopyFile: one more file is as the worktree has, or had, it.             *)
LEMMA CopyFileKeeps ==
  ASSUME TypeOK, TextInv, NoLinks, NEW p \in Procs, OwnInv(p), NEW f \in Files, CopyFile(p, f)
  PROVE  OwnInv(p)'
<1>1. SnapshotEffect(p)
  BY SnapshotStep DEF Snapshot
<1>2. pc[p] = "copy" /\ f \in loc[p].todo /\ UNCHANGED <<scenario, remote, held, commits>>
  BY DEF CopyFile, history, counters
<1>3. Options' = Options /\ during' = during /\ \A g \in Files : Text(p, g)' = Text(p, g)
  BY <1>1, Frame
<1>4. Of(p) \in Clones /\ loc[p] \in LocalsSet
  BY CacheType DEF TypeOK
<1>5. ~IsLink(Text(p, f)) /\ ~IsLink(Of(p).wt[f].text)
  BY OptionsType DEF OwnInv, CloneOk, Unlinked, TextInv, NoLinks, Text, Option
<1>6. Text(p, f) \in during[p][f]
  BY <1>2 DEF OwnInv, SourceOf, Open, InSnapshot
<1>7. CASE Text(p, f) = NoFile
  <2>1. pc'[p] = "ready" /\ loc'[p].outcome = "missing" /\ UNCHANGED cache
    BY <1>4, <1>5, <1>7 DEF CopyFile, Goto, Report, TypeOK, LocalsSet
  <2> QED
    BY <1>1, <1>6, <1>7, <2>1, FailedStep
<1>8. CASE Text(p, f) # NoFile
  <2>1. /\ Change(p, [Of(p) EXCEPT !.wt[f] = Plain(Text(p, f))])
        /\ loc' = [loc EXCEPT ![p].todo = @ \ {f}] /\ UNCHANGED pc
    BY <1>5, <1>8 DEF CopyFile
  <2>2. /\ loc'[p].files = loc[p].files /\ loc'[p].todo = loc[p].todo \ {f}
        /\ loc'[p].outcome = loc[p].outcome
    BY <1>4, <2>1 DEF TypeOK, LocalsSet
  <2>3. /\ Of(p)'.head = Of(p).head /\ Of(p)'.meta = Of(p).meta /\ Of(p)'.tracking = Of(p).tracking
        /\ Of(p)'.index = Of(p).index /\ Of(p)'.wt[f] = Plain(Text(p, f))
        /\ \A g \in Files \ {f} : Of(p)'.wt[g] = Of(p).wt[g]
    <3>1. Of(p)' = [Of(p) EXCEPT !.wt[f] = Plain(Text(p, f))]
      BY <1>2, <2>1, ChangeOf
    <3> QED
      BY <1>4, <3>1 DEF Clones, Snaps
  <2>4. Plain(Text(p, f)).text = Text(p, f)
    BY DEF Plain
  <2>5. CloneOk(Of(p))'
    BY <1>5, <2>3, <2>4 DEF OwnInv, CloneOk, Unlinked
  <2>6. CopyOf(p)'
    <3>1. \A g \in Files \ loc[p].todo : Copied(p, g)
      BY <1>2 DEF OwnInv, CopyOf
    <3>2. \A g \in Files \ loc'[p].todo : Copied(p, g)'
      BY <1>3, <1>6, <1>8, <2>2, <2>3, <2>4, <3>1 DEF Copied
    <3> QED
      BY <1>2, <2>1, <3>2 DEF CopyOf
  <2>7. SourceOf(p)'
    BY <1>1, <1>2, <2>1, <2>2, SourceStays DEF OwnInv, SourceOf, Open, InSnapshot
  <2>8. OutcomeOf(p)'
    BY <1>2, <2>1, <2>2, NoOutcomeYet DEF OwnInv, InSnapshot
  <2>9. BranchOf(p)'
    BY <1>2, <2>1, <2>3, BranchStays DEF OwnInv, AtHead, InSnapshot
  <2> QED
    BY <2>5, <2>6, <2>7, <2>8, <2>9 DEF OwnInv
<1> QED
  BY <1>7, <1>8

(* CopyDone: all of them are.                                              *)
LEMMA CopyDoneKeeps ==
  ASSUME TypeOK, NEW p \in Procs, OwnInv(p), CopyDone(p)
  PROVE  OwnInv(p)'
<1>1. SnapshotEffect(p)
  BY SnapshotStep DEF Snapshot
<1>2. /\ pc[p] = "copy" /\ pc'[p] \in {"rewrite", "add"} /\ loc[p].todo = {}
      /\ UNCHANGED <<scenario, cache, loc, remote, held, commits>>
  BY DEF CopyDone, Goto, TypeOK, history, counters
<1>3. Of(p)' = Of(p) /\ Options' = Options /\ during' = during
  BY <1>1, <1>2, Frame DEF Of
<1>4. CopyOf(p)'
  BY <1>2, <1>3 DEF OwnInv, CopyOf, Copied
<1>5. SourceOf(p)'
  BY <1>1, <1>2, SourceStays DEF OwnInv, SourceOf, Open, InSnapshot
<1>6. OutcomeOf(p)'
  BY <1>2, NoOutcomeYet DEF OwnInv, InSnapshot
<1>7. BranchOf(p)'
  BY <1>2, <1>3, BranchStays DEF OwnInv, AtHead, InSnapshot
<1> QED
  BY <1>3, <1>4, <1>5, <1>6, <1>7 DEF OwnInv, CloneOk, Unlinked

(* Rewrite: pins are added, the texts stay.                                *)
LEMMA RewriteKeeps ==
  ASSUME TypeOK, NEW p \in Procs, OwnInv(p), Rewrite(p)
  PROVE  OwnInv(p)'
<1>1. SnapshotEffect(p)
  BY SnapshotStep DEF Snapshot
<1>2. pc[p] = "rewrite" /\ UNCHANGED <<scenario, remote, held, commits>>
  BY DEF Rewrite, history, counters
<1>3. Options' = Options /\ during' = during /\ \A f \in Files : Text(p, f)' = Text(p, f)
  BY <1>1, Frame
<1>4. Of(p) \in Clones /\ Pins \in Files
  BY CacheType, InstanceAssumption
<1>5. CASE Text(p, Pins) = NoFile
  <2>1. pc'[p] = "ready" /\ loc'[p].outcome = "missing" /\ UNCHANGED cache
    BY <1>5 DEF Rewrite, Goto, Report, TypeOK, LocalsSet
  <2>2. NoFile \in during[p][Pins]
    BY <1>2, <1>4, <1>5 DEF OwnInv, SourceOf, Open, InSnapshot
  <2> QED
    BY <1>1, <1>4, <2>1, <2>2, FailedStep
<1>6. CASE Text(p, Pins) # NoFile
  <2> DEFINE wt == [f \in Files |-> IF f \in {k \in Kustomizations : Of(p).wt[k] # Absent}
                                    THEN [Of(p).wt[f] EXCEPT !.pin = Text(p, Pins)] ELSE Of(p).wt[f]]
  <2>1. pc'[p] = "add" /\ UNCHANGED loc /\ Change(p, [Of(p) EXCEPT !.wt = wt])
    BY <1>6 DEF Rewrite, Goto, TypeOK
  <2>2. Of(p)' = [Of(p) EXCEPT !.wt = wt]
    BY <1>2, <2>1, ChangeOf
  <2>3. \A f \in Files : wt[f].text = Of(p).wt[f].text
    BY <1>4 DEF Clones, Snaps, Blob
  <2>4. /\ Of(p)'.head = Of(p).head /\ Of(p)'.meta = Of(p).meta /\ Of(p)'.tracking = Of(p).tracking
        /\ Of(p)'.index = Of(p).index
        /\ \A f \in Files : Of(p)'.wt[f].text = Of(p).wt[f].text
    BY <1>4, <2>2, <2>3 DEF Clones
  <2>5. CloneOk(Of(p))'
    BY <2>4 DEF OwnInv, CloneOk, Unlinked
  <2>6. CopyOf(p)'
    BY <1>2, <1>3, <2>1, <2>4 DEF OwnInv, CopyOf, Copied
  <2>7. SourceOf(p)'
    BY <1>1, <1>2, <2>1, SourceStays DEF OwnInv, SourceOf, Open, InSnapshot
  <2>8. OutcomeOf(p)'
    BY <1>2, <2>1, NoOutcomeYet DEF OwnInv, InSnapshot
  <2>9. BranchOf(p)'
    BY <1>2, <2>1, <2>4, BranchStays DEF OwnInv, AtHead, InSnapshot
  <2> QED
    BY <2>5, <2>6, <2>7, <2>8, <2>9 DEF OwnInv
<1> QED
  BY <1>5, <1>6

(* Add: the index is the worktree of the cache.                            *)
LEMMA AddKeeps ==
  ASSUME TypeOK, NEW p \in Procs, OwnInv(p), Add(p)
  PROVE  OwnInv(p)'
<1>1. SnapshotEffect(p)
  BY SnapshotStep DEF Snapshot
<1>2. pc[p] = "add" /\ pc'[p] = "diff" /\ UNCHANGED <<scenario, loc, remote, held, commits>>
  BY DEF Add, Goto, TypeOK, history, counters
<1>3. Options' = Options /\ during' = during
  BY <1>1, Frame
<1>4. /\ Of(p)'.head = Of(p).head /\ Of(p)'.meta = Of(p).meta /\ Of(p)'.tracking = Of(p).tracking
      /\ Of(p)'.index = Of(p).wt /\ Of(p)'.wt = Of(p).wt
  BY <1>2, CacheType, ChangeOf DEF Add, Clones
<1>5. CloneOk(Of(p))'
  BY <1>4 DEF OwnInv, CloneOk, Unlinked
<1>6. CopyOf(p)'
  BY <1>2, <1>3, <1>4 DEF OwnInv, CopyOf, Copied
<1>7. SourceOf(p)'
  BY <1>1, <1>2, SourceStays DEF OwnInv, SourceOf, Open, InSnapshot
<1>8. OutcomeOf(p)'
  BY <1>2, NoOutcomeYet DEF OwnInv, InSnapshot
<1>9. BranchOf(p)'
  BY <1>2, <1>4, BranchStays DEF OwnInv, AtHead, InSnapshot
<1> QED
  BY <1>5, <1>6, <1>7, <1>8, <1>9 DEF OwnInv

(* Diff: without a change HEAD has the files already.                      *)
LEMMA DiffKeeps ==
  ASSUME TypeOK, NEW p \in Procs, OwnInv(p), Diff(p)
  PROVE  OwnInv(p)'
<1>1. SnapshotEffect(p)
  BY SnapshotStep DEF Snapshot
<1>2. pc[p] = "diff" /\ UNCHANGED <<scenario, cache, remote, held, commits>>
  BY DEF Diff, history, counters
<1>3. Of(p)' = Of(p) /\ Options' = Options /\ during' = during
  BY <1>1, <1>2, Frame DEF Of
<1>4. \A f \in Files : Copied(p, f)
  BY <1>2 DEF OwnInv, CopyOf
<1>5. Of(p).index = Of(p).wt /\ loc[p] \in LocalsSet
  BY <1>2 DEF OwnInv, CopyOf, TypeOK
<1>6. CASE Of(p).index = Tree(Of(p).head)
  <2>1. /\ pc'[p] = "save" /\ loc'[p].files = loc[p].files /\ loc'[p].todo = loc[p].todo
        /\ loc'[p].outcome = "noop"
    BY <1>5, <1>6 DEF Diff, Goto, Report, TypeOK, LocalsSet
  <2>2. Of(p).head # 0
    <3>1. PICK f \in loc[p].files : TRUE
      BY <1>2 DEF OwnInv, SourceOf, Open, InSnapshot
    <3>2. f \in Files /\ Of(p).wt[f].text # NoFile
      BY <1>4, <1>5, <3>1 DEF Copied, LocalsSet
    <3> QED
      BY <1>5, <1>6, <3>2 DEF Tree, EmptyTree, Absent, Plain
  <2>3. Of(p).head \in held[p] /\ Matches(p, Of(p).head)
    BY <1>2, <1>4, <1>5, <1>6, <2>2 DEF OwnInv, BranchOf, Open, InSnapshot, Matches, Copied
  <2>4. \E h \in held'[p] : Matches(p, h)'
    BY <1>1, <2>3, Frame
  <2>5. CopyOf(p)'
    BY <1>2, <1>3, <1>4, <1>5, <1>6, <2>1, <2>2 DEF CopyOf, Copied, Tree
  <2>6. SourceOf(p)'
    BY <1>1, <1>2, <2>1, SourceStays DEF OwnInv, SourceOf, Open, InSnapshot
  <2>7. OutcomeOf(p)'
    BY <2>1, <2>4 DEF OutcomeOf, Open
  <2>8. BranchOf(p)'
    BY <1>2, <1>3, <2>1, BranchStays DEF OwnInv, AtHead, InSnapshot
  <2> QED
    BY <1>3, <2>5, <2>6, <2>7, <2>8 DEF OwnInv, CloneOk, Unlinked
<1>7. CASE Of(p).index # Tree(Of(p).head)
  <2>1. pc'[p] = "commit" /\ UNCHANGED loc
    BY <1>7 DEF Diff, Goto, TypeOK
  <2>2. CopyOf(p)'
    BY <1>2, <1>3, <1>4, <1>5, <1>7, <2>1 DEF CopyOf, Copied, Tree
  <2>3. SourceOf(p)'
    BY <1>1, <1>2, <2>1, SourceStays DEF OwnInv, SourceOf, Open, InSnapshot
  <2>4. OutcomeOf(p)'
    BY <1>2, <2>1, NoOutcomeYet DEF OwnInv, InSnapshot
  <2>5. BranchOf(p)'
    BY <1>2, <1>3, <2>1, BranchStays DEF OwnInv, AtHead, InSnapshot
  <2> QED
    BY <1>3, <2>2, <2>3, <2>4, <2>5 DEF OwnInv, CloneOk, Unlinked
<1> QED
  BY <1>6, <1>7

(* Commit: the new HEAD is on top of the old one.                          *)
LEMMA CommitKeeps ==
  ASSUME TypeOK, NEW p \in Procs, OwnInv(p), Commit(p)
  PROVE  OwnInv(p)'
<1>1. SnapshotEffect(p)
  BY SnapshotStep DEF Snapshot
<1>2. pc[p] = "commit" /\ Of(p).index # Tree(Of(p).head) /\ UNCHANGED <<scenario, remote, held>>
  BY DEF Commit, OwnInv, CopyOf, history, counters
<1>3. Options' = Options /\ during' = during
  BY <1>1, Frame
<1>4. Of(p) \in Clones /\ loc[p] \in LocalsSet /\ commits \in Seq(Commits)
  BY CacheType DEF TypeOK
<1>5. /\ commits' = Append(commits, NewCommit(p)) /\ Change(p, [Of(p) EXCEPT !.head = Len(commits) + 1])
      /\ loc' = [loc EXCEPT ![p].commit = Len(commits) + 1] /\ pc'[p] = "push"
  BY <1>2 DEF Commit, NewCommit, Goto, TypeOK
<1>6. /\ Of(p)'.head = Len(commits) + 1 /\ Of(p)'.meta = Of(p).meta /\ Of(p)'.tracking = Of(p).tracking
      /\ Of(p)'.index = Of(p).index /\ Of(p)'.wt = Of(p).wt
  BY <1>2, <1>4, <1>5, ChangeOf DEF Clones
<1>7. loc'[p].files = loc[p].files /\ loc'[p].todo = loc[p].todo /\ loc'[p].outcome = loc[p].outcome
  BY <1>4, <1>5 DEF TypeOK, LocalsSet
<1>8. commits'[Len(commits) + 1] = NewCommit(p) /\ Len(commits) + 1 # 0
  BY <1>4, <1>5
<1>9. CloneOk(Of(p))'
  BY <1>6 DEF OwnInv, CloneOk, Unlinked
<1>10. CopyOf(p)'
  <2>1. Of(p)'.index = commits'[Of(p)'.head].tree
    BY <1>6, <1>8 DEF NewCommit
  <2>2. Of(p)'.head # 0
    BY <1>6, <1>8
  <2>3. Of(p).index = Of(p).wt /\ \A f \in Files : Copied(p, f)
    BY <1>2 DEF OwnInv, CopyOf
  <2> QED
    BY <1>3, <1>5, <1>6, <1>7, <2>1, <2>2, <2>3 DEF CopyOf, Copied, Tree
<1>11. SourceOf(p)'
  BY <1>1, <1>2, <1>5, <1>7, SourceStays DEF OwnInv, SourceOf, Open, InSnapshot
<1>12. OutcomeOf(p)'
  BY <1>2, <1>5, <1>7, NoOutcomeYet DEF OwnInv, InSnapshot
<1>13. BranchOf(p)'
  <2>1. Tracked(p)' = Tracked(p) /\ Remote(p)' = Remote(p)
    BY <1>2, <1>3, <1>6 DEF Tracked, Remote
  <2>2. Remote(p) \in held[p] /\ (~Options[p].reset => Tracked(p) \in held[p] /\ Of(p).head = Tracked(p))
    BY <1>2 DEF OwnInv, BranchOf, Open, InSnapshot
  <2>3. Of(p).head \in {0} \cup commits'[Of(p)'.head].past
    BY <1>6, <1>8 DEF NewCommit
  <2> QED
    BY <1>2, <1>3, <1>5, <2>1, <2>2, <2>3 DEF BranchOf
<1> QED
  BY <1>9, <1>10, <1>11, <1>12, <1>13 DEF OwnInv

(* Push: the branch has the commit, or the step fails.                     *)
LEMMA PushKeeps ==
  ASSUME TypeOK, NEW p \in Procs, OwnInv(p), Push(p)
  PROVE  OwnInv(p)'
<1>1. SnapshotEffect(p)
  BY SnapshotStep DEF Snapshot
<1>2. pc[p] = "push" /\ pc'[p] = "save" /\ Publish(p) /\ UNCHANGED <<scenario, commits>>
  BY DEF Push, Goto, TypeOK, counters
<1>3. Options' = Options /\ during' = during
  BY <1>1, Frame
<1>4. Of(p) \in Clones /\ loc[p] \in LocalsSet /\ Options[p].branch \in Branches
  BY CacheType, OptionsType DEF TypeOK, Option
<1>5. loc'[p].files = loc[p].files /\ loc'[p].todo = loc[p].todo /\ loc'[p].outcome = "synced"
  BY <1>4 DEF Push, Report, TypeOK, LocalsSet
<1>6. /\ Of(p)'.head = Of(p).head /\ Of(p)'.meta = Of(p).meta
      /\ Of(p)'.index = Of(p).index /\ Of(p)'.wt = Of(p).wt
  BY <1>2, <1>4, ChangeOf DEF Push, Clones
<1>7. Remote(p)' = Of(p).head /\ Of(p).head \in held'[p]
  BY <1>2, <1>3, <1>4 DEF Publish, Remote, TypeOK, InSnapshot
<1>8. CloneOk(Of(p))'
  BY <1>6 DEF OwnInv, CloneOk, Unlinked
<1>9. CopyOf(p)'
  BY <1>2, <1>3, <1>5, <1>6 DEF OwnInv, CopyOf, Copied, Tree
<1>10. SourceOf(p)'
  BY <1>1, <1>2, <1>5, SourceStays DEF OwnInv, SourceOf, Open, InSnapshot
<1>11. OutcomeOf(p)'
  <2>1. \A f \in Files : Tree(Of(p).head)[f].text \in during[p][f]
    BY <1>2 DEF OwnInv, CopyOf, Copied
  <2>2. \E h \in held'[p] : \A f \in Files : (IF h = 0 THEN EmptyTree ELSE commits'[h].tree)[f].text \in during'[p][f]
    BY <1>2, <1>3, <1>7, <2>1 DEF Tree
  <2> QED
    BY <1>2, <1>5, <2>2 DEF OutcomeOf, Open, Matches, Tree
<1>12. BranchOf(p)'
  BY <1>2, <1>7 DEF BranchOf
<1> QED
  BY <1>8, <1>9, <1>10, <1>11, <1>12 DEF OwnInv

(* PushRefused: the branch has moved; that is a cause.                     *)
LEMMA PushRefusedKeeps ==
  ASSUME TypeOK, NEW p \in Procs, OwnInv(p), PushRefused(p)
  PROVE  OwnInv(p)'
<1>1. SnapshotEffect(p)
  BY SnapshotStep DEF Snapshot
<1>2. pc[p] = "push" /\ Of(p).head # 0
  BY DEF PushRefused, OwnInv, CopyOf
<1>3. ~Options[p].reset /\ Remote(p) \notin {0, Of(p).head} \cup commits[Of(p).head].past
  BY <1>2 DEF PushRefused, Accepts, Remote
<1>4. Remote(p) \in held[p] /\ Tracked(p) \in held[p] /\ Tracked(p) \in {0} \cup commits[Of(p).head].past
  BY <1>2, <1>3 DEF OwnInv, BranchOf, Open, InSnapshot
<1>5. \E h, g \in held'[p] : h # g
  BY <1>3, <1>4 DEF PushRefused, history
<1>6. pc'[p] = "ready" /\ loc'[p].outcome = "refused" /\ UNCHANGED cache
  BY DEF PushRefused, Goto, Report, TypeOK, LocalsSet
<1> QED
  BY <1>1, <1>5, <1>6, FailedStep

(* Save: the snapshot ends, with what was pushed.                          *)
LEMMA SaveKeeps ==
  ASSUME TypeOK, NEW p \in Procs, OwnInv(p), Save(p)
  PROVE  OwnInv(p)'
<1>1. SnapshotEffect(p)
  BY SnapshotStep DEF Snapshot
<1>2. pc[p] = "save" /\ pc'[p] = "ready" /\ UNCHANGED <<scenario, loc, remote, held, commits>>
  BY DEF Save, Goto, TypeOK, history, counters
<1>3. Options' = Options /\ during' = during
  BY <1>1, Frame
<1>4. CloneOk(Of(p))'
  <2>1. CASE UNCHANGED cache
    BY <1>3, <2>1 DEF OwnInv, CloneOk, Unlinked, Of
  <2>2. CASE cache' # cache
    <3> DEFINE saved == loc[p].files \cap Inputs
               meta == [f \in Inputs |-> IF f \in saved THEN [src |-> Text(p, f), cache |-> Of(p).wt[f]] ELSE NoEntry]
    <3>1. Options[p].rewrite /\ Of(p)' = [Of(p) EXCEPT !.meta = meta]
      BY <1>2, <2>2, ChangeOf DEF Save
    <3>2. Of(p)'.wt = Of(p).wt /\ Of(p)'.index = Of(p).index /\ Of(p)'.meta = meta
      BY <3>1, CacheType DEF Clones
    <3>3. \A f \in saved : Of(p).wt[f].text = Text(p, f)
      BY <1>2, <3>1, InstanceAssumption DEF OwnInv, SourceOf, CopyOf, Copied, Open, InSnapshot, Inputs
    <3> QED
      BY <3>2, <3>3 DEF OwnInv, CloneOk, Unlinked, NoEntry, Absent, Plain
  <2> QED
    BY <2>1, <2>2
<1>5. CopyOf(p)' /\ SourceOf(p)' /\ BranchOf(p)'
  BY <1>2 DEF CopyOf, SourceOf, BranchOf, Open, InSnapshot
<1>6. OutcomeOf(p)'
  BY <1>2, <1>3 DEF OwnInv, OutcomeOf, Open, InSnapshot, Matches, Tree
<1> QED
  BY <1>4, <1>5, <1>6 DEF OwnInv

(* A failure reports what it is.                                           *)
LEMMA FailsKeeps ==
  ASSUME TypeOK, NEW p \in Procs, OwnInv(p), Fails(p) \/ PushLostAnswer(p)
  PROVE  OwnInv(p)'
<1>1. SnapshotEffect(p)
  BY SnapshotStep DEF Snapshot
<1>2. pc'[p] = "ready" /\ loc'[p].outcome = "failed" /\ UNCHANGED cache
  BY DEF Fails, PushLostAnswer, Goto, Report, TypeOK, LocalsSet
<1> QED
  BY <1>1, <1>2, FailedStep

(* Every step of a snapshot.                                               *)
LEMMA SnapshotKeeps ==
  ASSUME TypeOK, TextInv, CommitsOk, NoLinks, NEW p \in Procs, OwnInv(p), Snapshot(p)
  PROVE  OwnInv(p)'
BY ListFilesKeeps, CloneCacheKeeps, ResetCacheKeeps, FetchKeeps, CheckoutKeeps, CheckoutOrphanKeeps, PlanKeeps,
   RemoveStaleKeeps, CopyFileKeeps, CopyDoneKeeps, RewriteKeeps, AddKeeps, DiffKeeps, CommitKeeps, PushKeeps, PushRefusedKeeps,
   SaveKeeps, FailsKeeps DEF Snapshot

----------------------------------------------------------------------------
(* Safety of a snapshot *)

(* What holds of a process is not disturbed by a step of another one.      *)
LEMMA OthersKeep ==
  ASSUME TypeOK, LockInv, OneLock, NEW p \in Procs, NEW q \in Procs, q # p, SnapshotEffect(p), ProcessInv(q)
  PROVE  ProcessInv(q)'
<1>1. /\ Options' = Options /\ during' = during /\ held[q] \subseteq held'[q]
      /\ \A f \in Files : Text(q, f)' = Text(q, f)
      /\ \A i \in 0..Len(commits) : Tree(i)' = Tree(i)
      /\ \A h \in held[q] : Matches(q, h)' <=> Matches(q, h)
  BY Frame
<1>2. pc'[q] = pc[q] /\ loc'[q] = loc[q] /\ pc[p] # "idle"
  BY DEF SnapshotEffect, LocalEffect, InSnapshot
<1>3. Of(q)' = Of(q) \/ loc[q].outcome = "none" => OutcomeOf(q)'
  BY <1>1, <1>2 DEF ProcessInv, OutcomeOf, Open
<1>4. CASE pc[q] = "idle"
  BY <1>2, <1>3, <1>4 DEF ProcessInv, SourceOf, CopyOf, BranchOf, OutcomeOf, Open, InSnapshot
<1>5. CASE pc[q] # "idle"
  <2>1. Options[q].cache # Options[p].cache /\ Options[q].cache \in Caches
    BY <1>2, <1>5, OneAtWork, OptionsType DEF Option
  <2>2. Of(q)' = Of(q)
    BY <1>1, <2>1 DEF SnapshotEffect, CacheEffect, Of
  <2>3. Of(q).head \in 0..Len(commits)
    BY CacheType DEF Clones, TypeOK
  <2>4. SourceOf(q)'
    BY <1>1, <1>2, InstanceAssumption DEF ProcessInv, SourceOf, Open, Inputs
  <2>5. CopyOf(q)'
    <3>1. \A f \in Files : Copied(q, f)' <=> Copied(q, f)
      BY <1>1, <1>2, <2>2 DEF Copied
    <3>2. (IF Of(q).head = 0 THEN EmptyTree ELSE commits'[Of(q).head].tree) = Tree(Of(q).head)
      BY <1>1, <2>3 DEF Tree
    <3>3. loc[q].files \subseteq Files
      BY DEF TypeOK, LocalsSet
    <3> QED
      BY <1>2, <2>2, <3>1, <3>2, <3>3 DEF ProcessInv, CopyOf, Tree
  <2>6. BranchOf(q)'
    <3>1. Open(q) => Remote(q)' \in held'[q]
      <4>1. CASE UNCHANGED <<remote, held>>
        BY <1>1, <4>1 DEF ProcessInv, BranchOf, Remote
      <4>2. CASE Publish(p)
        <5>1. Options[q].branch \in Branches /\ Options[p].branch \in Branches
          BY OptionsType DEF Option
        <5>2. remote' = [remote EXCEPT ![Options[p].branch] = Of(p).head]
          BY <4>2 DEF Publish
        <5>3. CASE Options[q].branch = Options[p].branch
          BY <1>1, <4>2, <5>1, <5>2, <5>3 DEF Publish, Remote, Open, TypeOK
        <5>4. CASE Options[q].branch # Options[p].branch
          BY <1>1, <5>1, <5>2, <5>4 DEF ProcessInv, BranchOf, Remote, TypeOK
        <5> QED
          BY <5>3, <5>4
      <4> QED
        BY <4>1, <4>2 DEF SnapshotEffect
    <3>2. Tracked(q)' = Tracked(q)
      BY <1>1, <2>2 DEF Tracked
    <3>3. pc[q] = "push" => commits'[Of(q).head] = commits[Of(q).head]
      BY <2>3 DEF ProcessInv, CopyOf, SnapshotEffect
    <3> QED
      BY <1>1, <1>2, <2>2, <3>1, <3>2, <3>3 DEF ProcessInv, BranchOf, Open
  <2> QED
    BY <1>3, <2>2, <2>4, <2>5, <2>6 DEF ProcessInv
<1> QED
  BY <1>4, <1>5

(* Nor is it by the user, and a process begins well.                       *)
LEMMA EditKeeps ==
  ASSUME TypeOK, "race" \notin scenario.env, NEW w \in Worktrees, NEW f \in Files, NEW t \in Texts,
         EditFile(w, f, t), NEW p \in Procs, ProcessInv(p)
  PROVE  ProcessInv(p)'
<1>1. /\ UNCHANGED <<pc, loc, cache, held, commits, remote, scenario>> /\ Options' = Options /\ Of(p)' = Of(p)
      /\ src' = [src EXCEPT ![w][f] = t]
  BY DEF EditFile, Options, Of
<1>2. \A g \in Files : during[p][g] \subseteq during'[p][g]
  BY DEF EditFile, TypeOK
<1>3. SourceOf(p)'
  <2> SUFFICES ASSUME Open(p) PROVE SourceOf(p)'
    BY <1>1 DEF SourceOf, Open
  <2>1. Options[p].worktree \in Worktrees /\ Inputs \subseteq Files
    BY OptionsType, InstanceAssumption DEF Option, Inputs
  <2>2. \A g \in Files : Text(p, g)' = IF Options[p].worktree = w /\ g = f THEN t ELSE Text(p, g)
    BY <1>1, <2>1 DEF Text, TypeOK
  <2>3. \A g \in Files : Text(p, g)' \in during'[p][g]
    BY <2>2 DEF EditFile, ProcessInv, SourceOf, Open, TypeOK
  <2>4. Options[p].rewrite => \A g \in Inputs : Text(p, g)' = Text(p, g) /\ during'[p][g] = during[p][g]
    BY <2>1, <2>2 DEF EditFile, Open, TypeOK
  <2> QED
    BY <1>1, <1>2, <2>1, <2>3, <2>4 DEF ProcessInv, SourceOf, Open
<1>4. CopyOf(p)'
  <2>1. \A g \in Files : Copied(p, g) => Copied(p, g)'
    BY <1>1, <1>2 DEF Copied
  <2>2. loc[p].files \subseteq Files
    BY DEF TypeOK, LocalsSet
  <2> QED
    BY <1>1, <2>1, <2>2 DEF ProcessInv, CopyOf, Tree
<1>5. BranchOf(p)'
  BY <1>1 DEF ProcessInv, BranchOf, Open, Remote, Tracked
<1>6. OutcomeOf(p)'
  <2>1. \A h \in held[p] : Matches(p, h) => Matches(p, h)'
    BY <1>1, <1>2 DEF Matches, Tree
  <2> QED
    BY <1>1, <1>2, <2>1 DEF ProcessInv, OutcomeOf, Open
<1> QED
  BY <1>3, <1>4, <1>5, <1>6 DEF ProcessInv

(* A command starts a snapshot, ends one, or takes and frees its lock.     *)
LEMMA CommandKeeps ==
  ASSUME TypeOK, NEW p \in Procs, AcquireLock(p) \/ Leave(p) \/ BeginSync(p), NEW q \in Procs, ProcessInv(q)
  PROVE  ProcessInv(q)'
<1>1. UNCHANGED <<src, commits, remote, cache, scenario>> /\ Options' = Options /\ Of(q)' = Of(q)
      /\ \A f \in Files : Text(q, f)' = Text(q, f)
  BY DEF AcquireLock, Leave, BeginSync, counters, Options, Of, Text
<1>2. CASE q # p
  <2>1. pc'[q] = pc[q] /\ loc'[q] = loc[q] /\ during'[q] = during[q] /\ held'[q] = held[q]
    BY <1>2 DEF AcquireLock, Leave, BeginSync, Goto, history, TypeOK
  <2>2. SourceOf(q)' /\ BranchOf(q)'
    BY <1>1, <2>1, InstanceAssumption DEF ProcessInv, SourceOf, BranchOf, Open, Remote, Tracked, Inputs
  <2>3. CopyOf(q)'
    <3>1. \A f \in Files : Copied(q, f)' <=> Copied(q, f)
      BY <1>1, <2>1 DEF Copied
    <3>2. loc[q].files \subseteq Files
      BY DEF TypeOK, LocalsSet
    <3> QED
      BY <1>1, <2>1, <3>1, <3>2 DEF ProcessInv, CopyOf, Tree
  <2>4. OutcomeOf(q)'
    BY <1>1, <2>1 DEF ProcessInv, OutcomeOf, Open, Matches, Tree
  <2> QED
    BY <2>2, <2>3, <2>4 DEF ProcessInv
<1>3. CASE q = p /\ (AcquireLock(p) \/ Leave(p))
  <2>1. /\ pc'[q] \in {"ready", "idle"} /\ UNCHANGED <<during, held>>
        /\ (pc'[q] = "ready" /\ loc'[q] = loc[q]) \/ loc'[q].outcome = "none"
    BY <1>3 DEF AcquireLock, Leave, Goto, history, TypeOK, Locals
  <2> QED
    BY <1>1, <2>1 DEF ProcessInv, SourceOf, CopyOf, BranchOf, OutcomeOf, Open, InSnapshot, Matches, Tree
<1>4. CASE q = p /\ BeginSync(p)
  <2>1. pc'[q] = "list" /\ loc'[q] = Locals /\ during'[q] = [f \in Files |-> {Text(q, f)}] /\ held'[q] = {Remote(q)}
    BY <1>4 DEF BeginSync, Goto, TypeOK, Remote
  <2>2. Remote(q)' = Remote(q) /\ Inputs \subseteq Files
    BY <1>1, InstanceAssumption DEF Remote, Inputs
  <2> QED
    BY <1>1, <2>1, <2>2 DEF ProcessInv, SourceOf, CopyOf, BranchOf, OutcomeOf, Open, Locals
<1> QED
  BY <1>2, <1>3, <1>4

(* Every step keeps the invariant.                                         *)
LEMMA SafeStep ==
  ASSUME TypeOK, LockInv, TextInv, SafeInv, [Next]_vars
  PROVE  SafeInv'
<1>1. scenario' = scenario /\ Options' = Options /\ scenario.procs \subseteq Procs
  BY Actors
<1> SUFFICES ASSUME SafeEnv PROVE SafeInv'
  BY <1>1 DEF SafeInv, SafeEnv, OneLock, NoLinks
<1>2. CommitsOk /\ (\A c \in Caches : CloneOk(cache[c])) /\ \A p \in Procs : ProcessInv(p)
  BY DEF SafeInv
<1>3. OneLock /\ NoLinks /\ "race" \notin scenario.env
  BY DEF SafeEnv
<1>4. CASE UNCHANGED <<cache, commits>> /\ \A p \in Procs : ProcessInv(p)'
  BY <1>2, <1>4 DEF SafeInv, CommitsOk, CloneOk, Unlinked
<1>5. ASSUME NEW w \in Worktrees, NEW f \in Files, NEW t \in Texts, EditFile(w, f, t)
      PROVE  SafeInv'
  BY <1>2, <1>3, <1>4, <1>5, EditKeeps DEF EditFile
<1>6. ASSUME NEW p \in scenario.procs, AcquireLock(p) \/ Leave(p) \/ BeginSync(p)
      PROVE  SafeInv'
  <2>1. UNCHANGED <<cache, commits>> /\ p \in Procs
    BY <1>1, <1>6 DEF AcquireLock, Leave, BeginSync
  <2> QED
    BY <1>2, <1>4, <1>6, <2>1, CommandKeeps
<1>7. ASSUME NEW p \in scenario.procs, Snapshot(p)
      PROVE  SafeInv'
  <2>1. p \in Procs /\ Options[p].cache \in Caches /\ SnapshotEffect(p)
    BY <1>1, <1>7, OptionsType, SnapshotStep DEF Option
  <2>2. OwnInv(p)
    BY <1>2, <2>1 DEF OwnInv, ProcessInv, Of
  <2>3. OwnInv(p)'
    BY <1>2, <1>3, <1>7, <2>1, <2>2, SnapshotKeeps
  <2>4. \A q \in Procs : ProcessInv(q)'
    BY <1>2, <1>3, <2>1, <2>3, OthersKeep DEF OwnInv, ProcessInv
  <2>5. \A c \in Caches : CloneOk(cache'[c])
    <3>1. CloneOk(cache'[Options[p].cache])
      BY <1>1, <2>3 DEF OwnInv, Of, CloneOk, Unlinked
    <3> QED
      BY <1>2, <2>1, <3>1 DEF SnapshotEffect, CacheEffect, CloneOk, Unlinked
  <2>6. CommitsOk'
    <3>1. CASE UNCHANGED commits
      BY <1>2, <3>1 DEF CommitsOk
    <3>2. CASE commits' = Append(commits, NewCommit(p))
      <4>1. Unlinked(NewCommit(p).tree)
        BY <2>2 DEF OwnInv, CloneOk, NewCommit
      <4>2. commits \in Seq(Commits) /\ Len(commits) \in Nat
        BY DEF TypeOK
      <4>3. /\ Len(commits') = Len(commits) + 1 /\ commits'[Len(commits) + 1] = NewCommit(p)
            /\ \A i \in 1..Len(commits) : commits'[i] = commits[i]
        BY <3>2, <4>2
      <4>4. \A i \in 1..Len(commits') : i = Len(commits) + 1 \/ i \in 1..Len(commits)
        BY <4>2, <4>3
      <4> QED
        BY <1>2, <4>1, <4>3, <4>4 DEF CommitsOk
    <3> QED
      BY <2>1, <3>1, <3>2 DEF SnapshotEffect
  <2> QED
    BY <2>4, <2>5, <2>6 DEF SafeInv, CloneOk, Unlinked
<1>8. CASE UNCHANGED vars
  <2>1. UNCHANGED <<cache, commits, pc, loc, during, held>>
        /\ \A p \in Procs : /\ Of(p)' = Of(p) /\ Options[p]' = Options[p]
                            /\ Remote(p)' = Remote(p) /\ Tracked(p)' = Tracked(p)
    BY <1>8 DEF vars, Of, Options, Remote, Tracked
  <2>2. /\ \A p \in Procs, f \in Files : (Copied(p, f)' <=> Copied(p, f)) /\ Text(p, f)' = Text(p, f)
        /\ \A i \in Nat : Tree(i)' = Tree(i)
    BY <1>8, <2>1 DEF vars, Copied, Text, Tree, Options
  <2>3. ASSUME NEW p \in Procs
        PROVE  ProcessInv(p)'
    <3>1. ProcessInv(p) /\ loc[p].files \subseteq Files /\ Of(p).head \in Nat
      BY <1>2, CacheType DEF TypeOK, LocalsSet, Clones
    <3>2. SourceOf(p)'
      BY <2>1, <2>2, <3>1, InstanceAssumption DEF ProcessInv, SourceOf, Open, Inputs
    <3>3. CopyOf(p)'
      BY <2>1, <2>2, <3>1 DEF ProcessInv, CopyOf
    <3>4. BranchOf(p)'
      BY <2>1, <3>1 DEF ProcessInv, BranchOf, Open
    <3>5. OutcomeOf(p)'
      <4>1. \A h \in held[p] : Matches(p, h)' <=> Matches(p, h)
        BY <2>1, <2>2 DEF Matches, TypeOK
      <4> QED
        BY <2>1, <3>1, <4>1 DEF ProcessInv, OutcomeOf, Open
    <3> QED
      BY <3>2, <3>3, <3>4, <3>5 DEF ProcessInv
  <2> QED
    BY <1>4, <2>1, <2>3
<1> QED
  BY <1>5, <1>6, <1>7, <1>8 DEF Next

----------------------------------------------------------------------------
(* What was synced stays *)

(* The three kinds of steps of a snapshot: the commit, those on the way to *)
(* it or to an end, and the push; the last one is Save.                    *)
LEMMA OutcomeStep ==
  ASSUME TypeOK, NEW p \in Procs, Snapshot(p)
  PROVE  \/ /\ pc[p] = "commit" /\ pc'[p] = "push" /\ UNCHANGED remote
            /\ loc'[p].commit = Len(commits) + 1 /\ loc'[p].outcome = loc[p].outcome
            /\ Of(p)'.head = Len(commits) + 1
         \/ /\ pc[p] # "save" /\ pc'[p] \in InSnapshot \ {"save", "push"} /\ UNCHANGED remote
            /\ loc'[p].outcome = loc[p].outcome
         \/ /\ pc'[p] \in {"ready", "save"} /\ loc'[p].outcome \notin {"none", "synced"}
            /\ UNCHANGED remote \/ PushLostAnswer(p)
         \/ Push(p)
         \/ /\ pc'[p] = "ready" /\ UNCHANGED <<loc, remote, commits, scenario>>
<1>1. pc \in [Procs -> {"idle", "ready"} \cup InSnapshot] /\ loc \in [Procs -> LocalsSet]
  BY DEF TypeOK
<1>2. CASE Commit(p)
  <2>1. UNCHANGED <<scenario, remote>>
    BY <1>2 DEF Commit, counters
  <2>2. CASE Of(p).index = Tree(Of(p).head)
    BY <1>1, <1>2, <2>1, <2>2 DEF Commit, Goto, Report, LocalsSet
  <2>3. CASE Of(p).index # Tree(Of(p).head)
    <3>1. Change(p, [Of(p) EXCEPT !.head = Len(commits) + 1])
      BY <1>2, <2>3 DEF Commit
    <3>2. Of(p)'.head = Len(commits) + 1
      BY <2>1, <3>1, ChangeOf, CacheType DEF Clones
    <3> QED
      BY <1>1, <1>2, <2>1, <2>3, <3>2 DEF Commit, Goto, LocalsSet
  <2> QED
    BY <2>2, <2>3
<1>3. CASE ListFiles(p) \/ ResetCache(p) \/ Fetch(p) \/ CopyDone(p) \/ Add(p) \/ Diff(p)
  BY <1>1, <1>3 DEF ListFiles, ResetCache, Fetch, CopyDone, Add, Diff, Goto, Report, InSnapshot, LocalsSet
<1>4. CASE Checkout(p) \/ CheckoutOrphan(p) \/ Rewrite(p)
  <2>1. \/ pc[p] # "save" /\ UNCHANGED loc /\ (Goto(p, "plan") \/ Goto(p, "add"))
        \/ Goto(p, "ready") /\ \E outcome \in {"conflict", "nobranch", "missing"} : Report(p, outcome)
    BY <1>4 DEF Checkout, CheckoutOrphan, Rewrite
  <2>2. UNCHANGED remote
    BY <1>4 DEF Checkout, CheckoutOrphan, Rewrite
  <2> QED
    BY <1>1, <2>1, <2>2 DEF Goto, Report, InSnapshot, LocalsSet
<1>7. CASE Plan(p)
  BY <1>1, <1>7 DEF Plan, Goto, Report, InSnapshot, LocalsSet
<1>8. CASE RemoveStale(p)
  BY <1>1, <1>8 DEF RemoveStale, Goto, InSnapshot, LocalsSet
<1>9. ASSUME NEW f \in Files, CopyFile(p, f)
      PROVE  /\ UNCHANGED remote
             /\ \/ pc[p] = "copy" /\ pc'[p] = "copy" /\ loc'[p].outcome = loc[p].outcome
                \/ pc'[p] = "ready" /\ loc'[p].outcome \in {"conflict", "missing"}
  BY <1>1, <1>9 DEF CopyFile, Goto, Report, LocalsSet
<1>5. CASE PushLostAnswer(p) \/ PushRefused(p) \/ Fails(p)
  BY <1>1, <1>5 DEF PushLostAnswer, PushRefused, Fails, Goto, Report, LocalsSet
<1>6. CASE Save(p)
  BY <1>1, <1>6 DEF Save, Goto, counters
<1>10. CASE CloneCache(p)
  BY <1>1, <1>10 DEF CloneCache, InSnapshot
<1> QED
  BY <1>2, <1>3, <1>4, <1>5, <1>6, <1>7, <1>8, <1>9, <1>10 DEF Snapshot, InSnapshot

(* A push that is not forced adds to the history of the branch, for those  *)
(* who were synced before, too.                                            *)
LEMMA PushAdds ==
  ASSUME TypeOK, HistoryInv, NEW p \in Procs, ~Options[p].reset, Push(p) \/ PushLostAnswer(p),
         NEW q \in Procs, Remote(q) # 0, NEW c \in {Remote(q)} \cup commits[Remote(q)].past
  PROVE  Remote(q)' # 0 /\ c \in {Remote(q)'} \cup commits[Remote(q)'].past
<1> DEFINE h == Of(p).head
<1>1. /\ Options[p].branch \in Branches /\ Options[q].branch \in Branches /\ remote \in [Branches -> Nat]
      /\ Options' = Options
  BY OptionsType DEF Option, TypeOK, Push, PushLostAnswer, counters, Options
<1>2. h # 0 /\ h \in 1..Len(commits)
  BY CacheType DEF Clones, TypeOK, Push, PushLostAnswer
<1>3. remote' = [remote EXCEPT ![Options[p].branch] = h]
  BY DEF Push, PushLostAnswer, Publish
<1>4. CASE Options[q].branch # Options[p].branch
  BY <1>1, <1>3, <1>4 DEF Remote
<1>5. CASE Options[q].branch = Options[p].branch
  <2>1. Remote(q)' = h
    BY <1>1, <1>3, <1>5 DEF Remote
  <2>2. Remote(q) \in {h} \cup commits[h].past
    BY <1>5 DEF Push, PushLostAnswer, Accepts, Remote
  <2>3. c \in {h} \cup commits[h].past
    BY <1>2, <2>2 DEF HistoryInv
  <2> QED
    BY <1>2, <2>1, <2>3
<1> QED
  BY <1>4, <1>5

(* A step of a snapshot, for the one who takes it.                         *)
LEMMA SyncedOwn ==
  ASSUME TypeOK, HistoryInv, NEW p \in Procs, Snapshot(p), SyncedOf(p)
  PROVE  SyncedOf(p)'
<1>1. SnapshotEffect(p) /\ Options' = Options
  BY SnapshotStep, Frame
<1>2. Remote(p) \in 0..Len(commits) /\ Len(commits) \in Nat
  BY OptionsType DEF TypeOK, Option, Remote
<1>3. UNCHANGED remote => Remote(p)' = Remote(p)
  BY <1>1 DEF Remote
<1>4. CASE /\ pc[p] = "commit" /\ pc'[p] = "push" /\ UNCHANGED remote
           /\ loc'[p].commit = Len(commits) + 1 /\ loc'[p].outcome = loc[p].outcome
           /\ Of(p)'.head = Len(commits) + 1
  BY <1>2, <1>4 DEF SyncedOf, Open, InSnapshot
<1>5. CASE /\ pc[p] # "save" /\ pc'[p] \in InSnapshot \ {"save", "push"} /\ UNCHANGED remote
           /\ loc'[p].outcome = loc[p].outcome
  BY <1>1, <1>5 DEF SyncedOf, Open, SnapshotEffect
<1>6. CASE pc'[p] \in {"ready", "save"} /\ loc'[p].outcome \notin {"none", "synced"}
  BY <1>6 DEF SyncedOf, Open, InSnapshot
<1>7. CASE Push(p)
  <2>1. pc[p] = "push" /\ pc'[p] = "save" /\ loc'[p].commit = loc[p].commit
    BY <1>7 DEF Push, Goto, Report, TypeOK, LocalsSet
  <2>2. Remote(p)' = Of(p).head
    BY <1>1, <1>7, OptionsType DEF Push, Publish, Remote, Option, TypeOK
  <2> QED
    BY <2>1, <2>2 DEF SyncedOf
<1>8. CASE pc'[p] = "ready" /\ UNCHANGED <<loc, remote, commits, scenario>>
  BY <1>3, <1>8 DEF SyncedOf, Open, InSnapshot
<1> QED
  BY <1>4, <1>5, <1>6, <1>7, <1>8, OutcomeStep

(* And for the others.                                                     *)
LEMMA SyncedOthers ==
  ASSUME TypeOK, LockInv, HistoryInv, KeepsHistory, NEW p \in Procs, Snapshot(p), NEW q \in Procs, q # p, SyncedOf(q)
  PROVE  SyncedOf(q)'
<1>1. SnapshotEffect(p) /\ Options' = Options /\ ~Options[p].reset
  BY SnapshotStep, Frame DEF KeepsHistory, NoReset
<1>2. pc'[q] = pc[q] /\ loc'[q] = loc[q] /\ pc[p] # "idle"
  BY <1>1 DEF SnapshotEffect, LocalEffect, InSnapshot
<1>3. pc[q] = "push" => Of(q)' = Of(q)
  <2> SUFFICES ASSUME pc[q] = "push" PROVE Of(q)' = Of(q)
    OBVIOUS
  <2>1. Options[q].cache # Options[p].cache /\ Options[q].cache \in Caches
    BY <1>2, OneAtWork, OptionsType DEF KeepsHistory, NoReset, Option
  <2> QED
    BY <1>1, <2>1 DEF SnapshotEffect, CacheEffect, Of
<1>4. ASSUME loc[q].outcome = "synced"
      PROVE  Remote(q)' # 0 /\ loc[q].commit \in {Remote(q)'} \cup commits'[Remote(q)'].past
  <2>1. Remote(q) # 0 /\ loc[q].commit \in {Remote(q)} \cup commits[Remote(q)].past
    BY <1>4 DEF SyncedOf
  <2>2. CASE UNCHANGED remote
    <3>1. Remote(q)' = Remote(q) /\ Remote(q) \in 1..Len(commits)
      BY <1>1, <2>1, <2>2, OptionsType DEF Remote, TypeOK, Option
    <3> QED
      BY <1>1, <2>1, <3>1 DEF SnapshotEffect
  <2>3. CASE Push(p) \/ PushLostAnswer(p)
    <3>1. UNCHANGED commits
      BY <2>3 DEF Push, PushLostAnswer
    <3>2. Remote(q)' # 0 /\ loc[q].commit \in {Remote(q)'} \cup commits[Remote(q)'].past
      BY <1>1, <2>1, <2>3, PushAdds
    <3> QED
      BY <3>1, <3>2
  <2> QED
    BY <2>2, <2>3, OutcomeStep
<1> QED
  BY <1>2, <1>3, <1>4 DEF SyncedOf, Open

(* Every step keeps it.                                                    *)
LEMMA SyncedStep ==
  ASSUME TypeOK, LockInv, HistoryInv, SyncedInv, [Next]_vars
  PROVE  SyncedInv'
<1>1. scenario' = scenario /\ Options' = Options /\ scenario.procs \subseteq Procs
  BY Actors
<1> SUFFICES ASSUME KeepsHistory, NEW q \in Procs PROVE SyncedOf(q)'
  BY <1>1 DEF SyncedInv, KeepsHistory, NoReset, OneLock
<1>2. SyncedOf(q)
  BY DEF SyncedInv
<1>3. ASSUME UNCHANGED <<commits, remote, cache>>,
             \/ pc'[q] = pc[q] /\ loc'[q] = loc[q]
             \/ pc'[q] \in {"ready", "idle"} /\ loc'[q] = loc[q]
             \/ loc'[q] = Locals /\ pc'[q] # "push"
      PROVE  SyncedOf(q)'
  <2>1. Of(q)' = Of(q) /\ Remote(q)' = Remote(q)
    BY <1>1, <1>3 DEF Of, Remote
  <2> QED
    BY <1>2, <1>3, <2>1 DEF SyncedOf, Open, Locals, InSnapshot
<1>4. ASSUME NEW p \in scenario.procs, AcquireLock(p) \/ Leave(p) \/ BeginSync(p)
      PROVE  SyncedOf(q)'
  BY <1>1, <1>3, <1>4 DEF AcquireLock, Leave, BeginSync, Goto, TypeOK
<1>5. ASSUME NEW p \in scenario.procs, Snapshot(p)
      PROVE  SyncedOf(q)'
  BY <1>1, <1>2, <1>5, SyncedOwn, SyncedOthers
<1>6. CASE UNCHANGED vars \/ \E w \in Worktrees, f \in Files, t \in Texts : EditFile(w, f, t)
  BY <1>3, <1>6 DEF EditFile, vars
<1> QED
  BY <1>4, <1>5, <1>6 DEF Next

----------------------------------------------------------------------------
(* Where HEAD is unborn *)

(* A clone stays one, and nothing but the making of it changes what is not.*)
LEMMA ClonedChange ==
  ASSUME TypeOK, NEW p \in Procs, Snapshot(p)
  PROVE  /\ Of(p).cloned => Of(p)'.cloned
         /\ UNCHANGED cache \/ Past(p) \/ Of(p)'.cloned
         /\ Past(p)' => Past(p) \/ Of(p).cloned
<1>1. SnapshotEffect(p) /\ Options' = Options /\ UNCHANGED scenario /\ Of(p) \in Clones
  BY SnapshotStep, Frame, CacheType DEF SnapshotEffect
<1>2. pc \in [Procs -> {"idle", "ready"} \cup InSnapshot]
  BY DEF TypeOK
<1>3. Of(p)'.cloned = Of(p).cloned \/ CloneCache(p)
  <2>1. ASSUME UNCHANGED cache
        PROVE  Of(p)'.cloned = Of(p).cloned
    BY <1>1, <2>1 DEF Of
  <2>2. ASSUME NEW c, Change(p, c), c.cloned = Of(p).cloned
        PROVE  Of(p)'.cloned = Of(p).cloned
    BY <1>1, <2>2, ChangeOf
  <2>3. CASE ListFiles(p) \/ Plan(p) \/ CopyDone(p) \/ Diff(p) \/ PushLostAnswer(p) \/ PushRefused(p) \/ Fails(p)
    BY <2>1, <2>3 DEF ListFiles, Plan, CopyDone, Diff, PushLostAnswer, PushRefused, Fails
  <2>4. CASE ResetCache(p)
    BY <1>1, <2>1, <2>2, <2>4 DEF ResetCache, Clones
  <2>5. CASE Fetch(p)
    BY <1>1, <2>2, <2>5 DEF Fetch, Clones
  <2>6. CASE Checkout(p)
    BY <1>1, <2>1, <2>2, <2>6 DEF Checkout, Clones
  <2>7. CASE CheckoutOrphan(p)
    BY <1>1, <2>1, <2>2, <2>7 DEF CheckoutOrphan, Clones
  <2>8. CASE RemoveStale(p)
    BY <1>1, <2>2, <2>8 DEF RemoveStale, Clones
  <2>9. ASSUME NEW f \in Files, CopyFile(p, f)
        PROVE  Of(p)'.cloned = Of(p).cloned
    <3>1. ASSUME NEW g, Change(p, [Of(p) EXCEPT !.wt[g] = Plain(Text(p, f))])
          PROVE  Of(p)'.cloned = Of(p).cloned
      BY <1>1, <2>2, <3>1 DEF Clones
    <3>2. UNCHANGED cache \/ \E g : Change(p, [Of(p) EXCEPT !.wt[g] = Plain(Text(p, f))])
      BY <2>9 DEF CopyFile
    <3> QED
      BY <2>1, <3>1, <3>2
  <2>10. CASE Rewrite(p)
    BY <1>1, <2>1, <2>2, <2>10 DEF Rewrite, Clones
  <2>11. CASE Add(p)
    BY <1>1, <2>2, <2>11 DEF Add, Clones
  <2>12. CASE Commit(p)
    <3>1. CASE Change(p, [Of(p) EXCEPT !.head = Len(commits) + 1])
      BY <1>1, <2>2, <3>1 DEF Clones
    <3> QED
      BY <2>1, <2>12, <3>1 DEF Commit
  <2>13. CASE Push(p)
    BY <1>1, <2>2, <2>13 DEF Push, Clones
  <2>14. CASE Save(p)
    BY <1>1, <2>1, <2>2, <2>14 DEF Save, Clones
  <2> QED
    BY <2>3, <2>4, <2>5, <2>6, <2>7, <2>8, <2>9, <2>10, <2>11, <2>12, <2>13, <2>14 DEF Snapshot
<1>4. CASE CloneCache(p)
  <2>1. PICK b \in Branches : Of(p)' = [Of(p) EXCEPT
          !.cloned = TRUE, !.tracking = remote,
          !.head = remote[b], !.wt = Tree(remote[b]), !.index = Tree(remote[b])]
    BY <1>1, <1>4, ChangeOf DEF CloneCache
  <2>2. Of(p)'.cloned
    BY <1>1, <2>1 DEF Clones
  <2> QED
    BY <1>4, <2>2 DEF CloneCache, Past, Open
<1>5. CASE ResetCache(p)
  BY <1>3, <1>5 DEF ResetCache, CloneCache
<1>6. CASE ListFiles(p)
  BY <1>2, <1>3, <1>6 DEF ListFiles, CloneCache, Goto, Past, Open
<1>7. CASE Fails(p)
  BY <1>2, <1>3, <1>7 DEF Fails, CloneCache, Goto, Past, Open, InSnapshot
<1>8. ASSUME ~CloneCache(p), ~ResetCache(p), ~ListFiles(p), ~Fails(p)
      PROVE  Past(p)
  BY <1>8 DEF Snapshot, Fetch, Checkout, CheckoutOrphan, Plan, RemoveStale, CopyFile, CopyDone, Rewrite, Add, Diff,
     Commit, Push, PushLostAnswer, PushRefused, Save, Past, Open, InSnapshot
<1> QED
  BY <1>3, <1>4, <1>5, <1>6, <1>7, <1>8

(* Every step keeps it.                                                    *)
LEMMA ClonedStep ==
  ASSUME TypeOK, ClonedInv, [Next]_vars
  PROVE  ClonedInv'
<1>1. scenario' = scenario /\ Options' = Options /\ scenario.procs \subseteq Procs
  BY Actors
<1>2. ASSUME UNCHANGED cache, \A q \in Procs : Past(q)' => Past(q)
      PROVE  ClonedInv'
  BY <1>1, <1>2 DEF ClonedInv, Of
<1>3. ASSUME NEW p \in scenario.procs, AcquireLock(p) \/ Leave(p) \/ BeginSync(p)
      PROVE  ClonedInv'
  <2>1. UNCHANGED cache /\ \A q \in Procs : pc'[q] \in {pc[q], "idle", "ready", "list"}
    BY <1>3 DEF AcquireLock, Leave, BeginSync, Goto, TypeOK
  <2> QED
    BY <1>2, <2>1 DEF Past, Open, InSnapshot
<1>4. ASSUME NEW p \in scenario.procs, Snapshot(p)
      PROVE  ClonedInv'
  <2>1. p \in Procs /\ SnapshotEffect(p) /\ Options[p].cache \in Caches
    BY <1>1, <1>4, SnapshotStep, OptionsType DEF Option
  <2>2. \A c \in Caches : c # Options[p].cache => cache'[c] = cache[c]
    BY <2>1 DEF SnapshotEffect, CacheEffect
  <2>3. Of(p)' = cache'[Options[p].cache] /\ Of(p) = cache[Options[p].cache]
    BY <1>1 DEF Of
  <2>4. /\ Of(p).cloned => Of(p)'.cloned
        /\ UNCHANGED cache \/ Past(p) \/ Of(p)'.cloned
        /\ Past(p)' => Past(p) \/ Of(p).cloned
    BY <1>4, <2>1, ClonedChange
  <2>5. Past(p) => Of(p).cloned
    BY <2>1 DEF ClonedInv
  <2>6. \A c \in Caches : cache[c].cloned => cache'[c].cloned
    BY <2>2, <2>3, <2>4
  <2>7. \A c \in Caches : ~cache'[c].cloned => cache'[c] = cache[c]
    BY <2>2, <2>3, <2>4, <2>5
  <2>8. ASSUME NEW q \in Procs, Past(q)'
        PROVE  Of(q)'.cloned
    <3>1. Options[q].cache \in Caches /\ Of(q)' = cache'[Options[q].cache] /\ Of(q) = cache[Options[q].cache]
      BY <1>1, OptionsType DEF Option, Of
    <3>2. Of(q).cloned
      <4>1. q # p => pc'[q] = pc[q]
        BY <2>1 DEF SnapshotEffect, LocalEffect
      <4> QED
        BY <2>4, <2>5, <2>8, <4>1 DEF ClonedInv, Past, Open
    <3> QED
      BY <2>6, <3>1, <3>2
  <2> QED
    BY <2>7, <2>8 DEF ClonedInv
<1>5. CASE UNCHANGED vars \/ \E w \in Worktrees, f \in Files, t \in Texts : EditFile(w, f, t)
  BY <1>2, <1>5 DEF EditFile, vars, Past, Open
<1> QED
  BY <1>3, <1>4, <1>5 DEF Next

(* HEAD becomes unborn only where the branch is not tracked; a snapshot    *)
(* comes to the checkout with what Gitea has; and the cache is in its way  *)
(* only there, at a HEAD that is unborn.                                   *)
LEMMA HeadStep ==
  ASSUME TypeOK, TextInv, CommitsOk, NoLinks, NEW p \in Procs, ~Options[p].reset, OwnInv(p), Snapshot(p)
  PROVE  /\ \/ Of(p)'.head = Of(p).head \/ Of(p)'.head # 0 \/ ~Of(p).cloned
            \/ pc[p] = "checkout" /\ Tracked(p) = 0
         /\ pc'[p] = "checkout" => Tracked(p)' = Remote(p)'
         /\ loc'[p].outcome = "conflict" => pc[p] = "checkout" /\ Of(p).head = 0 /\ Tracked(p) # 0
<1> DEFINE HeadGoal == \/ Of(p)'.head = Of(p).head \/ Of(p)'.head # 0 \/ ~Of(p).cloned
                       \/ pc[p] = "checkout" /\ Tracked(p) = 0
           ConflictGoal == loc'[p].outcome = "conflict" => pc[p] = "checkout" /\ Of(p).head = 0 /\ Tracked(p) # 0
<1>1. SnapshotEffect(p) /\ Options' = Options /\ UNCHANGED scenario /\ Of(p) \in Clones
  BY SnapshotStep, Frame, CacheType DEF SnapshotEffect
<1>2. pc \in [Procs -> {"idle", "ready"} \cup InSnapshot] /\ loc \in [Procs -> LocalsSet]
  BY DEF TypeOK
<1>3. pc[p] # "save" => loc[p].outcome = "none"
  BY <1>1 DEF OwnInv, OutcomeOf, Open, SnapshotEffect
<1>4. pc[p] = "save" => loc[p].outcome # "conflict"
  BY DEF OwnInv, OutcomeOf
<1>5. ASSUME UNCHANGED cache
      PROVE  Of(p)'.head = Of(p).head
  BY <1>1, <1>5 DEF Of
<1>6. ASSUME NEW c, Change(p, c)
      PROVE  Of(p)' = c
  BY <1>1, <1>6, ChangeOf
<1>7. HeadGoal
  <2>1. CASE ListFiles(p) \/ Plan(p) \/ CopyDone(p) \/ Diff(p) \/ PushLostAnswer(p) \/ PushRefused(p) \/ Fails(p)
    BY <1>5, <2>1 DEF ListFiles, Plan, CopyDone, Diff, PushLostAnswer, PushRefused, Fails
  <2>2. CASE CloneCache(p)
    BY <2>2 DEF CloneCache
  <2>3. CASE ResetCache(p)
    BY <1>1, <1>5, <1>6, <2>3 DEF ResetCache, Clones
  <2>4. CASE Fetch(p)
    BY <1>1, <1>6, <2>4 DEF Fetch, Clones
  <2>5. CASE Checkout(p)
    <3>1. Tracked(p) # 0
      BY <2>5 DEF Checkout, Tracked
    <3>2. PICK wt, index : UNCHANGED cache \/ Change(p, [Of(p) EXCEPT !.head = Tracked(p), !.wt = wt, !.index = index])
      BY <2>5 DEF Checkout, Tracked
    <3>3. CASE Change(p, [Of(p) EXCEPT !.head = Tracked(p), !.wt = wt, !.index = index])
      BY <1>1, <1>6, <3>1, <3>3 DEF Clones
    <3> QED
      BY <1>5, <3>2, <3>3
  <2>6. CASE CheckoutOrphan(p)
    BY <2>6 DEF CheckoutOrphan, Tracked
  <2>7. CASE RemoveStale(p)
    BY <1>1, <1>6, <2>7 DEF RemoveStale, Clones
  <2>8. ASSUME NEW f \in Files, CopyFile(p, f)
        PROVE  HeadGoal
    <3>1. ASSUME NEW g, Change(p, [Of(p) EXCEPT !.wt[g] = Plain(Text(p, f))])
          PROVE  HeadGoal
      BY <1>1, <1>6, <3>1 DEF Clones
    <3>2. UNCHANGED cache \/ \E g : Change(p, [Of(p) EXCEPT !.wt[g] = Plain(Text(p, f))])
      BY <2>8 DEF CopyFile
    <3> QED
      BY <1>5, <3>1, <3>2
  <2>9. CASE Rewrite(p)
    BY <1>1, <1>5, <1>6, <2>9 DEF Rewrite, Clones
  <2>10. CASE Add(p)
    BY <1>1, <1>6, <2>10 DEF Add, Clones
  <2>11. CASE Commit(p)
    <3>1. Len(commits) + 1 # 0
      BY DEF TypeOK
    <3>2. CASE Change(p, [Of(p) EXCEPT !.head = Len(commits) + 1])
      BY <1>1, <1>6, <3>1, <3>2 DEF Clones
    <3> QED
      BY <1>5, <2>11, <3>2 DEF Commit
  <2>12. CASE Push(p)
    BY <1>1, <1>6, <2>12 DEF Push, Clones
  <2>13. CASE Save(p)
    BY <1>1, <1>5, <1>6, <2>13 DEF Save, Clones
  <2> QED
    BY <2>1, <2>2, <2>3, <2>4, <2>5, <2>6, <2>7, <2>8, <2>9, <2>10, <2>11, <2>12, <2>13 DEF Snapshot
<1>8. ASSUME pc'[p] = "checkout"
      PROVE  Tracked(p)' = Remote(p)'
  <2>1. Fetch(p)
    BY <1>2, <1>8 DEF Snapshot, ListFiles, CloneCache, ResetCache, Checkout, CheckoutOrphan, Plan, RemoveStale,
       CopyFile, CopyDone, Rewrite, Add, Diff, Commit, Push, PushLostAnswer, PushRefused, Save, Fails, Goto
  <2>2. Of(p)' = [Of(p) EXCEPT !.tracking = remote] /\ UNCHANGED remote
    BY <1>6, <2>1 DEF Fetch
  <2>3. Of(p)'.tracking = remote
    BY <1>1, <2>2 DEF Clones
  <2> QED
    BY <1>1, <2>2, <2>3 DEF Tracked, Remote
<1>9. ConflictGoal
  <2> SUFFICES ASSUME loc'[p].outcome = "conflict"
               PROVE  pc[p] = "checkout" /\ Of(p).head = 0 /\ Tracked(p) # 0
    OBVIOUS
  <2>1. \/ Checkout(p) \/ Commit(p) \/ \E f \in Files : CopyFile(p, f)
    <3>1. CASE ListFiles(p) \/ CloneCache(p) \/ ResetCache(p) \/ Fetch(p) \/ RemoveStale(p) \/ CopyDone(p) \/ Add(p)
      BY <1>2, <1>3, <3>1 DEF ListFiles, CloneCache, ResetCache, Fetch, RemoveStale, CopyDone, Add, LocalsSet
    <3>2. CASE CheckoutOrphan(p) \/ Plan(p) \/ Rewrite(p) \/ Diff(p)
      BY <1>2, <1>3, <3>2 DEF CheckoutOrphan, Plan, Rewrite, Diff, Report, LocalsSet
    <3>3. CASE Push(p) \/ PushLostAnswer(p) \/ PushRefused(p) \/ Fails(p) \/ Save(p)
      BY <1>2, <1>4, <3>3 DEF Push, PushLostAnswer, PushRefused, Fails, Save, Report, LocalsSet
    <3> QED
      BY <3>1, <3>2, <3>3 DEF Snapshot
  <2>2. ~Commit(p)
    <3> SUFFICES ASSUME Commit(p) PROVE FALSE
      OBVIOUS
    <3>1. pc[p] = "commit" /\ Of(p).index # Tree(Of(p).head)
      BY DEF Commit, OwnInv, CopyOf
    <3>2. loc' = [loc EXCEPT ![p].commit = Len(commits) + 1]
      BY <3>1 DEF Commit
    <3> QED
      BY <1>2, <1>3, <3>1, <3>2 DEF LocalsSet
  <2>3. ASSUME NEW f \in Files, CopyFile(p, f)
        PROVE  FALSE
    <3>1. ~IsLink(Text(p, f)) /\ pc[p] = "copy"
      BY <2>3, OptionsType DEF CopyFile, TextInv, NoLinks, Text, Option
    <3>2. Report(p, "missing") \/ loc' = [loc EXCEPT ![p].todo = @ \ {f}]
      BY <2>3, <3>1 DEF CopyFile
    <3> QED
      BY <1>2, <1>3, <3>1, <3>2 DEF Report, LocalsSet
  <2>4. Checkout(p)
    BY <2>1, <2>2, <2>3
  <2>5. pc[p] = "checkout" /\ Tracked(p) # 0
    BY <2>4 DEF Checkout, Tracked
  <2>6. UNCHANGED cache
    <3>1. UNCHANGED cache \/ UNCHANGED loc
      BY <2>4 DEF Checkout
    <3> QED
      BY <1>3, <2>5, <3>1
  <2>7. OutcomeOf(p)'
    <3>1. OwnInv(p)'
      BY <2>4, CheckoutKeeps
    <3> QED
      BY <3>1 DEF OwnInv
  <2> QED
    BY <1>5, <2>5, <2>6, <2>7 DEF OutcomeOf
<1> QED
  BY <1>7, <1>8, <1>9

(* Every step keeps what is known of an unborn HEAD.                       *)
LEMMA RootStep ==
  ASSUME TypeOK, LockInv, TextInv, ClonedInv, SafeInv, RootInv, [Next]_vars
  PROVE  RootInv'
<1>1. scenario' = scenario /\ Options' = Options /\ scenario.procs \subseteq Procs
  BY Actors
<1> SUFFICES ASSUME SafeEnv, NoReset, NEW p \in scenario.procs, OneCache(p) PROVE RootOf(p)'
  BY <1>1 DEF RootInv, SafeEnv, OneLock, NoLinks, NoReset, OneCache
<1>2. RootOf(p) /\ OneLock /\ NoLinks /\ p \in Procs /\ Options[p].cache \in Caches /\ Options[p].branch \in Branches
  BY <1>1, OptionsType DEF RootInv, SafeEnv, Option
<1>3. ASSUME UNCHANGED <<cache, remote>>, pc'[p] = "checkout" => pc[p] = "checkout",
             loc'[p] = loc[p] \/ loc'[p].outcome = "none"
      PROVE  RootOf(p)'
  BY <1>1, <1>2, <1>3 DEF RootOf, Of, Remote, Tracked
<1>4. ASSUME NEW q \in scenario.procs, AcquireLock(q) \/ Leave(q) \/ BeginSync(q)
      PROVE  RootOf(p)'
  <2>1. UNCHANGED <<cache, remote>>
    BY <1>4 DEF AcquireLock, Leave, BeginSync
  <2>2. pc'[p] \in {pc[p], "idle", "ready", "list"}
    BY <1>1, <1>2, <1>4 DEF AcquireLock, Leave, BeginSync, Goto, TypeOK
  <2>3. loc'[p] = loc[p] \/ loc'[p].outcome = "none"
    BY <1>1, <1>2, <1>4 DEF AcquireLock, Leave, BeginSync, TypeOK, Locals
  <2> QED
    BY <1>3, <2>1, <2>2, <2>3
<1>5. ASSUME NEW q \in scenario.procs, Snapshot(q)
      PROVE  RootOf(p)'
  <2>1. q \in Procs /\ SnapshotEffect(q) /\ ~Options[q].reset /\ Options[q].branch \in Branches
    BY <1>1, <1>5, OptionsType, SnapshotStep DEF NoReset, Option
  <2>2. \/ UNCHANGED remote
        \/ /\ remote' = [remote EXCEPT ![Options[q].branch] = Of(q).head]
           /\ Of(q).head # 0 /\ Of(q)'.head = Of(q).head
    <3>1. CASE Push(q)
      <4>1. Of(q)'.head = Of(q).head
        BY <1>1, <2>1, <3>1, CacheType, ChangeOf DEF Push, Clones
      <4> QED
        BY <3>1, <4>1 DEF Push, Publish
    <3>2. CASE PushLostAnswer(q)
      BY <1>1, <3>2 DEF PushLostAnswer, Publish, Of
    <3> QED
      BY <1>5, <2>1, <3>1, <3>2, OutcomeStep
  <2>3. CASE Options[q].cache # Options[p].cache
    <3>1. Options[q].branch # Options[p].branch
      BY <1>5, <2>3 DEF OneCache
    <3>2. Remote(p)' = Remote(p)
      BY <1>1, <1>2, <2>1, <2>2, <3>1 DEF Remote, TypeOK
    <3>3. Of(p)' = Of(p) /\ pc'[p] = pc[p] /\ loc'[p] = loc[p]
      BY <1>1, <1>2, <2>1, <2>3 DEF SnapshotEffect, CacheEffect, LocalEffect, Of
    <3> QED
      BY <1>1, <1>2, <3>2, <3>3 DEF RootOf, Tracked
  <2>4. CASE Options[q].cache = Options[p].cache
    <3>1. Options[q].branch = Options[p].branch
      BY <1>2, <1>5, <2>4 DEF OneLock
    <3>2. /\ Of(q) = Of(p) /\ Of(q)' = Of(p)' /\ Remote(q) = Remote(p) /\ Remote(q)' = Remote(p)'
          /\ Tracked(q) = Tracked(p) /\ Tracked(q)' = Tracked(p)'
      BY <1>1, <2>4, <3>1 DEF Of, Remote, Tracked
    <3>3. OneCache(q) /\ RootOf(q)
      <4>1. OneCache(q)
        BY <2>4, <3>1 DEF OneCache
      <4> QED
        BY <1>5, <4>1 DEF RootInv
    <3>4. OwnInv(q)
      BY <1>2, <2>1, <2>4 DEF SafeInv, OwnInv, ProcessInv, Of
    <3>5. /\ \/ Of(q)'.head = Of(q).head \/ Of(q)'.head # 0 \/ ~Of(q).cloned
             \/ pc[q] = "checkout" /\ Tracked(q) = 0
          /\ pc'[q] = "checkout" => Tracked(q)' = Remote(q)'
          /\ loc'[q].outcome = "conflict" => pc[q] = "checkout" /\ Of(q).head = 0 /\ Tracked(q) # 0
      BY <1>2, <1>5, <2>1, <3>4, HeadStep DEF SafeInv
    <3>6. Of(p)'.head = 0 => Remote(p)' = 0
      <4> SUFFICES ASSUME Of(p)'.head = 0 PROVE Remote(p)' = 0
        OBVIOUS
      <4>1. UNCHANGED remote /\ Remote(p)' = Remote(p)
        BY <1>1, <2>2, <3>2 DEF Remote
      <4>2. ~Of(q).cloned => Of(q).head = 0
        BY <1>2, <2>4 DEF ClonedInv, Of
      <4> QED
        BY <1>2, <3>2, <3>3, <3>5, <4>1, <4>2 DEF RootOf
    <3>7. pc[p] # "idle" /\ pc[q] # "idle" => p = q
      BY <1>2, <2>1, <2>4, OneAtWork
    <3>8. pc[q] # "idle" /\ (p # q => pc'[p] = pc[p] /\ loc'[p] = loc[p])
      BY <1>2, <2>1 DEF SnapshotEffect, LocalEffect, InSnapshot
    <3>9. pc'[p] = "checkout" => Tracked(p)' = Remote(p)'
      BY <3>5, <3>7, <3>8
    <3>10. loc'[p].outcome # "conflict"
      BY <1>2, <3>3, <3>5, <3>8 DEF RootOf
    <3> QED
      BY <3>6, <3>9, <3>10 DEF RootOf
  <2> QED
    BY <2>3, <2>4
<1>6. CASE UNCHANGED vars \/ \E w \in Worktrees, f \in Files, t \in Texts : EditFile(w, f, t)
  BY <1>3, <1>6 DEF EditFile, vars
<1> QED
  BY <1>4, <1>5, <1>6 DEF Next

----------------------------------------------------------------------------
(* The inductive invariant, and what follows from it *)

IInv == TypeOK /\ LockInv /\ HistoryInv /\ TextInv /\ ClonedInv /\ SafeInv /\ RootInv /\ SyncedInv

(* It holds at the start.                                                  *)
LEMMA Begins == Init => IInv
<1> SUFFICES ASSUME Init PROVE IInv
  OBVIOUS
<1>1. TypeOK
  BY TypeInit
<1>2. LockInv /\ HistoryInv /\ SyncedInv
  BY DEF Init, LockInv, HistoryInv, SyncedInv, SyncedOf, Locals, Open, InSnapshot
<1>3. TextInv
  BY DEF Init, TextInv, Worktree
<1>4. ~IsLink(NoFile) /\ Inputs \subseteq Files
  BY InstanceAssumption DEF IsLink, Inputs
<1>5. \A c \in Caches : CloneOk(cache[c])
  BY <1>4 DEF Init, CloneOk, Unlinked, EmptyTree, NoEntry, Absent, Plain
<1>6. CommitsOk
  BY DEF Init, CommitsOk
<1>7. \A p \in Procs : ProcessInv(p)
  BY DEF Init, ProcessInv, SourceOf, CopyOf, BranchOf, OutcomeOf, Locals, Open, InSnapshot
<1>8. ClonedInv
  BY DEF Init, ClonedInv, Past, Open, InSnapshot
<1>9. RootInv
  <2>1. \A p \in scenario.procs : p \in Procs /\ Options[p].cache \in Caches /\ Options[p].branch \in Branches
    BY <1>1, OptionsType, InstanceAssumption DEF TypeOK, Scenario, Option
  <2> QED
    BY <2>1 DEF Init, RootInv, RootOf, Of, Remote, Tracked, Locals
<1> QED
  BY <1>1, <1>2, <1>3, <1>5, <1>6, <1>7, <1>8, <1>9 DEF IInv, SafeInv

(* Every behaviour keeps it.                                               *)
LEMMA Inductive == Spec => []IInv
<1>1. ASSUME IInv, [Next]_vars
      PROVE  IInv'
  BY <1>1, TypeStep, LockStep, HistoryStep, TextStep, ClonedStep, SafeStep, RootStep, SyncedStep DEF IInv
<1> QED
  BY <1>1, Begins, PTL DEF Spec

(* Types, for every number of processes, caches, branches and files.       *)
THEOREM TypeCorrect == Spec => []TypeOK
<1>1. IInv => TypeOK
  BY DEF IInv
<1> QED
  BY <1>1, Inductive, PTL

(* withSyncLock: two processes are never in a snapshot of one cache, where *)
(* both take the lock of its one branch.                                   *)
THEOREM OnePerCache == Spec => []CacheExclusive
<1>1. IInv => CacheExclusive
  BY OneAtWork DEF IInv, CacheExclusive, InSnapshot
<1> QED
  BY <1>1, Inductive, PTL

(* What is pushed was all in the worktree during this snapshot.            *)
THEOREM PushesItsOwn == Spec => []PushIsOwn
<1>1. IInv => PushIsOwn
  <2> SUFFICES ASSUME IInv, SafeEnv, NEW p \in Procs, pc[p] = "push" PROVE Matches(p, Of(p).head)
    BY DEF PushIsOwn, OwnPush
  <2>1. CopyOf(p)
    BY DEF IInv, SafeInv, ProcessInv
  <2> QED
    BY <2>1 DEF CopyOf, Copied, Matches
<1> QED
  BY <1>1, Inductive, PTL

(* A snapshot that met no fault fails for a cause outside the cache, or at *)
(* an unborn HEAD, and that only after a --reset-local-history or beside a *)
(* second cache of the branch.                                             *)
THEOREM FailsWithCause == Spec => []FailsForCause
<1>1. IInv => FailsForCause
  <2> SUFFICES ASSUME IInv, SafeEnv, NEW p \in Procs
               PROVE  /\ loc[p].outcome = "conflict" => Of(p).head = 0 /\ ~(NoReset /\ OneCache(p))
                      /\ loc[p].outcome = "missing" => \E f \in Files : NoFile \in during[p][f]
                      /\ loc[p].outcome = "refused" => \E h, g \in held[p] : h # g
    BY DEF FailsForCause
  <2>1. OutcomeOf(p)
    BY DEF IInv, SafeInv, ProcessInv
  <2>2. loc[p].outcome = "conflict" => p \in scenario.procs
    BY <2>1 DEF OutcomeOf, IInv, LockInv
  <2>3. NoReset /\ p \in scenario.procs /\ OneCache(p) => loc[p].outcome # "conflict"
    BY DEF IInv, RootInv, RootOf
  <2> QED
    BY <2>1, <2>2, <2>3 DEF OutcomeOf
<1> QED
  BY <1>1, Inductive, PTL

(* What was reported synced stays in the history of the branch.            *)
THEOREM SyncedIsKept == Spec => []SyncedStays
<1>1. IInv => SyncedStays
  BY DEF IInv, SyncedInv, SyncedOf, KeepsHistory, NoReset, SyncedStays, Remote
<1> QED
  BY <1>1, Inductive, PTL

----------------------------------------------------------------------------
(* The contract *)

(* What the contract sees of a state.                                      *)
TextsOf(i) == [f \in Files |-> Tree(i)[f].text]
Published == [b \in Branches |-> [f \in Files |-> Tree(remote[b])[f].text]]
Opened == [p \in Procs |-> pc[p] \in InSnapshot]
Success == {"noop", "synced"}
Succeeded == [p \in Procs |-> pc[p] \notin InSnapshot /\ loc[p].outcome \in Success]
Seen == [p \in Procs |-> {[f \in Files |-> Tree(h)[f].text] : h \in held[p]}]
WorktreeOf == [p \in Procs |-> Options[p].worktree]
BranchTo == [p \in Procs |-> Options[p].branch]

(* Commits that are there keep their texts, and with them the branches and *)
(* what they have pointed to.                                              *)
LEMMA SeesCommits ==
  ASSUME TypeOK, [Next]_vars
  PROVE  /\ UNCHANGED <<WorktreeOf, BranchTo>>
         /\ \A i \in 0..Len(commits) : TextsOf(i)' = TextsOf(i)
         /\ UNCHANGED remote => UNCHANGED Published
         /\ UNCHANGED held => UNCHANGED Seen
<1>1. Options' = Options
  BY Actors
<1>2. \A i \in 0..Len(commits) : Tree(i)' = Tree(i)
  <2>1. CASE UNCHANGED commits
    BY <2>1 DEF Tree
  <2>2. ASSUME NEW p \in scenario.procs, Snapshot(p)
        PROVE  \A i \in 0..Len(commits) : Tree(i)' = Tree(i)
    BY <2>2, Actors, SnapshotStep, Frame
  <2> QED
    BY <2>1, <2>2 DEF Next, vars, EditFile, AcquireLock, Leave, BeginSync
<1>3. /\ \A b \in Branches : remote[b] \in 0..Len(commits)
      /\ \A p \in Procs : \A h \in held[p] : h \in 0..Len(commits)
  BY DEF TypeOK
<1>4. UNCHANGED remote => UNCHANGED Published
  BY <1>2, <1>3 DEF Published
<1>5. ASSUME UNCHANGED held, NEW p \in Procs
      PROVE  {TextsOf(h) : h \in held[p]}' = {TextsOf(h) : h \in held[p]}
  BY <1>2, <1>3, <1>5 DEF TextsOf
<1> QED
  BY <1>1, <1>2, <1>4, <1>5 DEF WorktreeOf, BranchTo, TextsOf, Seen

(* A push, with its answer or without, is a step Publish of the contract.  *)
LEMMA SeesPush ==
  ASSUME TypeOK, NEW p \in scenario.procs, Push(p) \/ PushLostAnswer(p)
  PROVE  LET version == Published'[BranchTo[p]]
         IN /\ Published' = [Published EXCEPT ![BranchTo[p]] = version]
            /\ version = TextsOf(Of(p).head)
            /\ Seen' = [q \in Procs |-> IF Opened[q] /\ BranchTo[q] = BranchTo[p]
                                        THEN Seen[q] \cup {version} ELSE Seen[q]]
<1> DEFINE h == Of(p).head
           version == Published'[BranchTo[p]]
<1>0. [Next]_vars
  BY DEF Next, Snapshot
<1>1. p \in Procs /\ UNCHANGED <<scenario, commits>> /\ Publish(p)
  BY Actors, <1>0 DEF Push, PushLostAnswer, counters
<1>2. Options[p].branch \in Branches /\ BranchTo[p] = Options[p].branch
  BY <1>1, OptionsType DEF Option, BranchTo
<1>3. \A i : TextsOf(i)' = TextsOf(i)
  BY <1>1 DEF TextsOf, Tree
<1>4. Published = [b \in Branches |-> TextsOf(remote[b])] /\ Published' = [b \in Branches |-> TextsOf(remote'[b])]
  BY <1>3 DEF Published, TextsOf
<1>5. remote' = [remote EXCEPT ![Options[p].branch] = h] /\ remote \in [Branches -> Nat]
  BY <1>1 DEF Publish, TypeOK
<1>6. version = TextsOf(h)
  BY <1>2, <1>4, <1>5
<1>7. Published' = [Published EXCEPT ![BranchTo[p]] = version]
  BY <1>2, <1>4, <1>5
<1>8. Seen = [q \in Procs |-> {TextsOf(i) : i \in held[q]}] /\ Seen' = [q \in Procs |-> {TextsOf(i) : i \in held'[q]}]
  BY <1>3 DEF Seen, TextsOf
<1>9. held' = [q \in Procs |-> IF Opened[q] /\ BranchTo[q] = BranchTo[p] THEN held[q] \cup {h} ELSE held[q]]
  BY <1>1 DEF Publish, Opened, BranchTo
<1>10. Seen' = [q \in Procs |-> IF Opened[q] /\ BranchTo[q] = BranchTo[p]
                               THEN Seen[q] \cup {version} ELSE Seen[q]]
  <2>1. \A q \in Procs : Seen'[q] = IF Opened[q] /\ BranchTo[q] = BranchTo[p] THEN Seen[q] \cup {version} ELSE Seen[q]
    BY <1>6, <1>8, <1>9
  <2> QED
    BY <1>8, <2>1
<1> QED
  BY <1>6, <1>7, <1>10

(* Who is in a snapshot, and whose last one was a success.                 *)
LEMMA SeesPlaces ==
  ASSUME TypeOK, NEW p \in Procs, LocalEffect(p), pc[p] \in InSnapshot
  PROVE  /\ Opened[p] /\ ~Succeeded[p]
         /\ pc'[p] \in InSnapshot => UNCHANGED <<Opened, Succeeded>>
         /\ pc'[p] \notin InSnapshot =>
              /\ Opened' = [Opened EXCEPT ![p] = FALSE]
              /\ Succeeded' = [Succeeded EXCEPT ![p] = loc'[p].outcome \in Success]
<1>1. \A q \in Procs : q # p => pc'[q] = pc[q] /\ loc'[q] = loc[q]
  BY DEF LocalEffect
<1>2. Opened[p] /\ ~Succeeded[p]
  BY DEF Opened, Succeeded
<1>3. CASE pc'[p] \in InSnapshot
  <2>1. \A q \in Procs : /\ (pc'[q] \in InSnapshot) = (pc[q] \in InSnapshot)
                         /\ (pc'[q] \notin InSnapshot /\ loc'[q].outcome \in Success)
                              = (pc[q] \notin InSnapshot /\ loc[q].outcome \in Success)
    BY <1>1, <1>3
  <2> QED
    BY <1>2, <1>3, <2>1, Zenon DEF Opened, Succeeded
<1>4. CASE pc'[p] \notin InSnapshot
  <2>1. /\ Opened' = [Opened EXCEPT ![p] = pc'[p] \in InSnapshot]
        /\ Succeeded' = [Succeeded EXCEPT ![p] = pc'[p] \notin InSnapshot /\ loc'[p].outcome \in Success]
    BY <1>1 DEF Opened, Succeeded
  <2>2. (pc'[p] \in InSnapshot) = FALSE
    BY <1>4, SMT
  <2>3. (pc'[p] \notin InSnapshot /\ loc'[p].outcome \in Success) = (loc'[p].outcome \in Success)
    BY <1>4, SMT
  <2> QED
    BY <1>2, <1>4, <2>1, <2>2, <2>3, Zenon
<1> QED
  BY <1>2, <1>3, <1>4

(* The commands start, and end, a snapshot or its report.                  *)
LEMMA CommandRefines ==
  ASSUME TypeOK, [Next]_vars, NEW p \in scenario.procs, AcquireLock(p) \/ Leave(p) \/ BeginSync(p)
  PROVE  [Contract!Next]_(Contract!vars)
<1>1. p \in Procs /\ UNCHANGED <<src, remote, commits, scenario>> /\ UNCHANGED <<WorktreeOf, BranchTo, Published>>
  BY Actors, SeesCommits DEF AcquireLock, Leave, BeginSync, counters
<1>2. CASE AcquireLock(p)
  <2>1. UNCHANGED <<Opened, Succeeded>>
    BY <1>1, <1>2 DEF AcquireLock, Goto, Opened, Succeeded, Success, TypeOK, InSnapshot, LocalsSet
  <2>2. UNCHANGED Seen
    BY <1>2, SeesCommits DEF AcquireLock, history
  <2> QED
    BY <1>1, <1>2, <2>1, <2>2 DEF AcquireLock, history, Contract!vars, Contract!commandLines,
       Published, Opened, Succeeded, Success, Seen, WorktreeOf, BranchTo
<1>3. CASE Leave(p)
  <2>1. UNCHANGED Opened /\ ~Opened[p] /\ Succeeded' = [Succeeded EXCEPT ![p] = FALSE]
    <3>1. pc[p] = "ready" /\ pc' = [pc EXCEPT ![p] = "idle"] /\ loc'[p].outcome = "none"
      BY <1>1, <1>3 DEF Leave, Goto, TypeOK, Locals
    <3>2. \A q \in Procs : q # p => pc'[q] = pc[q] /\ loc'[q] = loc[q]
      BY <1>3, <3>1 DEF Leave, TypeOK
    <3>3. \A q \in Procs : (pc'[q] \in InSnapshot) = (pc[q] \in InSnapshot)
      BY <3>1, <3>2 DEF TypeOK, InSnapshot
    <3>4. UNCHANGED Opened /\ ~Opened[p]
      BY <1>1, <3>1, <3>3, Zenon DEF Opened, InSnapshot
    <3>5. ~(pc'[p] \notin InSnapshot /\ loc'[p].outcome \in Success)
      BY <3>1 DEF Success
    <3>6. Succeeded' = [Succeeded EXCEPT ![p] = FALSE]
      BY <1>1, <3>2, <3>5 DEF Succeeded
    <3> QED
      BY <3>4, <3>6
  <2>2. UNCHANGED <<Seen, during>>
    BY <1>3, SeesCommits DEF Leave, history
  <2>3. Contract!Forget(p)
    BY <1>1, <2>1, <2>2 DEF Contract!Forget, Contract!commandLines,
       Published, Opened, Succeeded, Success, Seen, WorktreeOf, BranchTo
  <2> QED
    BY <1>1, <2>3 DEF Contract!Next
<1>4. CASE BeginSync(p)
  <2>1. ~Opened[p] /\ Opened' = [Opened EXCEPT ![p] = TRUE] /\ Succeeded' = [Succeeded EXCEPT ![p] = FALSE]
    BY <1>1, <1>4 DEF BeginSync, Goto, Opened, Succeeded, Success, TypeOK, InSnapshot, Locals
  <2>2. during' = [during EXCEPT ![p] = [f \in Files |-> {src[WorktreeOf[p]][f]}]]
    BY <1>1, <1>4 DEF BeginSync, WorktreeOf, Text
  <2>3. Seen' = [Seen EXCEPT ![p] = {Published[BranchTo[p]]}]
    <3>1. Options[p].branch \in Branches
      BY <1>1, OptionsType DEF Option
    <3>2. \A i : TextsOf(i)' = TextsOf(i)
      BY <1>1 DEF TextsOf, Tree
    <3>3. Seen = [q \in Procs |-> {TextsOf(i) : i \in held[q]}] /\ Seen' = [q \in Procs |-> {TextsOf(i) : i \in held'[q]}]
      BY <3>2 DEF Seen, TextsOf
    <3>4. Published[BranchTo[p]] = TextsOf(remote[Options[p].branch])
      BY <1>1, <3>1 DEF Published, BranchTo, TextsOf
    <3>5. held' = [held EXCEPT ![p] = {remote[Options[p].branch]}] /\ held \in [Procs -> SUBSET Nat]
      BY <1>4 DEF BeginSync, TypeOK
    <3> QED
      BY <1>1, <3>3, <3>4, <3>5
  <2>4. Contract!Begin(p)
    BY <1>1, <2>1, <2>2, <2>3 DEF Contract!Begin, Contract!commandLines,
       Published, Opened, Succeeded, Success, Seen, WorktreeOf, BranchTo
  <2> QED
    BY <1>1, <2>4 DEF Contract!Next
<1> QED
  BY <1>2, <1>3, <1>4

(* A step of a snapshot goes on unseen, publishes, or ends the snapshot.   *)
LEMMA SnapshotRefines ==
  ASSUME TypeOK, LockInv, TextInv, SafeInv, SafeEnv, [Next]_vars, NEW p \in scenario.procs, Snapshot(p)
  PROVE  [Contract!Next]_(Contract!vars)
<1>1. /\ p \in Procs /\ SnapshotEffect(p) /\ UNCHANGED <<src, during, scenario, WorktreeOf, BranchTo>>
      /\ pc[p] \in InSnapshot
  BY Actors, SeesCommits, SnapshotStep DEF SnapshotEffect
<1>2. /\ Opened[p] /\ ~Succeeded[p]
      /\ pc'[p] \in InSnapshot => UNCHANGED <<Opened, Succeeded>>
      /\ pc'[p] \notin InSnapshot =>
           /\ Opened' = [Opened EXCEPT ![p] = FALSE]
           /\ Succeeded' = [Succeeded EXCEPT ![p] = loc'[p].outcome \in Success]
  BY <1>1, SeesPlaces DEF SnapshotEffect
<1>3. ProcessInv(p) /\ ProcessInv(p)'
  BY <1>1, SafeStep DEF SafeInv, SafeEnv, OneLock, NoLinks, Options
<1>4. CASE Push(p) \/ PushLostAnswer(p)
  <2> DEFINE version == Published'[BranchTo[p]]
  <2>1. /\ Published' = [Published EXCEPT ![BranchTo[p]] = version] /\ version = TextsOf(Of(p).head)
        /\ Seen' = [q \in Procs |-> IF Opened[q] /\ BranchTo[q] = BranchTo[p] THEN Seen[q] \cup {version} ELSE Seen[q]]
    BY <1>4, SeesPush
  <2>2. \A f \in Files : version[f] \in during[p][f]
    <3>1. pc[p] = "push"
      BY <1>4 DEF Push, PushLostAnswer
    <3> QED
      BY <1>3, <2>1, <3>1 DEF ProcessInv, CopyOf, Copied, TextsOf
  <2>3. Opened' \in {Opened, [Opened EXCEPT ![p] = FALSE]} /\ UNCHANGED Succeeded
    <3>1. pc'[p] \in {"save", "ready"} /\ (pc'[p] = "ready" => loc'[p].outcome = "failed")
      BY <1>1, <1>4 DEF Push, PushLostAnswer, Goto, Report, TypeOK, LocalsSet
    <3>2. CASE pc'[p] = "save"
      BY <1>2, <3>2 DEF InSnapshot
    <3>3. CASE pc'[p] = "ready"
      <4>1. Opened' = [Opened EXCEPT ![p] = FALSE]
        BY <1>2, <3>3 DEF InSnapshot
      <4>2. (loc'[p].outcome \in Success) = FALSE
        BY <3>1, <3>3 DEF Success
      <4>3. Succeeded' = [Succeeded EXCEPT ![p] = FALSE]
        BY <1>2, <3>3, <4>2 DEF InSnapshot
      <4>4. Succeeded[p] = FALSE /\ Succeeded = [q \in Procs |-> Succeeded[q]]
        BY <1>1, <1>2 DEF Succeeded
      <4> QED
        BY <4>1, <4>3, <4>4
    <3> QED
      BY <3>1, <3>2, <3>3
  <2>4. Contract!Publish(p)
    BY <1>1, <1>2, <2>1, <2>2, <2>3 DEF Contract!Publish, Contract!IsOf, Contract!commandLines,
       Published, Opened, Succeeded, Success, Seen, WorktreeOf, BranchTo
  <2> QED
    BY <1>1, <2>4 DEF Contract!Next
<1>5. CASE UNCHANGED <<remote, held>> /\ pc'[p] \in InSnapshot
  <2>1. UNCHANGED <<Opened, Succeeded>>
    BY <1>1, <1>2, <1>5
  <2>2. UNCHANGED <<Published, Seen>>
    BY <1>5, SeesCommits
  <2> QED
    BY <1>1, <2>1, <2>2 DEF Contract!vars, Contract!commandLines,
       Published, Opened, Succeeded, Success, Seen, WorktreeOf, BranchTo
<1>6. CASE UNCHANGED <<remote, held>> /\ pc'[p] \notin InSnapshot
  <2> DEFINE success == loc'[p].outcome \in Success
  <2>1. Opened' = [Opened EXCEPT ![p] = FALSE] /\ Succeeded' = [Succeeded EXCEPT ![p] = success]
    BY <1>2, <1>6
  <2>2. UNCHANGED <<Published, Seen>>
    BY <1>6, SeesCommits
  <2>3. success => \E version \in Seen[p] : \A f \in Files : version[f] \in during[p][f]
    <3> SUFFICES ASSUME success PROVE \E version \in Seen[p] : \A f \in Files : version[f] \in during[p][f]
      OBVIOUS
    <3>1. PICK h \in held'[p] : Matches(p, h)'
      BY <1>3 DEF ProcessInv, OutcomeOf, Success
    <3>2. \A f \in Files : TextsOf(h)'[f] \in during[p][f]
      BY <1>1, <3>1 DEF Matches, TextsOf
    <3>3. TextsOf(h)' \in Seen'[p]
      BY <1>1, <3>1 DEF Seen, TextsOf
    <3> QED
      BY <2>2, <3>2, <3>3
  <2>4. ASSUME NEW s \in BOOLEAN, s = success
        PROVE  Contract!Next
    <3>1. Contract!End(p, s)
      BY <1>1, <1>2, <2>1, <2>2, <2>3, <2>4 DEF Contract!End, Contract!IsOf, Contract!commandLines,
         Published, Opened, Succeeded, Success, Seen, WorktreeOf, BranchTo
    <3> QED
      BY <1>1, <3>1 DEF Contract!Next
  <2>5. CASE success
    <3>1. TRUE = success
      BY <2>5
    <3> QED
      BY <2>4, <3>1
  <2>6. CASE ~success
    <3>1. FALSE = success
      BY <2>6
    <3> QED
      BY <2>4, <3>1
  <2> QED
    BY <2>5, <2>6
<1>7. (Push(p) \/ PushLostAnswer(p)) \/ UNCHANGED <<remote, held>>
  BY DEF Snapshot, ListFiles, CloneCache, ResetCache, Fetch, Checkout, CheckoutOrphan, Plan, RemoveStale, CopyFile, CopyDone,
     Rewrite, Add, Diff, Commit, PushRefused, Save, Fails, history
<1> QED
  BY <1>4, <1>5, <1>6, <1>7

(* Every step, and every behaviour.                                        *)
LEMMA StepRefines ==
  ASSUME IInv, SafeEnv, [Next]_vars
  PROVE  [Contract!Next]_(Contract!vars)
<1>1. ASSUME NEW w \in Worktrees, NEW f \in Files, NEW t \in Texts, EditFile(w, f, t)
      PROVE  Contract!Edit(w, f, t)
  <2>1. UNCHANGED <<WorktreeOf, BranchTo, Published, Seen, Opened, Succeeded>>
    BY <1>1, SeesCommits DEF IInv, EditFile, Opened, Succeeded
  <2>2. during' = [p \in Procs |-> IF WorktreeOf[p] = w /\ Opened[p]
                                   THEN [during[p] EXCEPT ![f] = @ \cup {t}] ELSE during[p]]
    BY <1>1 DEF EditFile, WorktreeOf, Opened
  <2> QED
    BY <1>1, <2>1, <2>2 DEF EditFile, Contract!Edit, Contract!commandLines,
       Published, Opened, Succeeded, Success, Seen, WorktreeOf, BranchTo
<1>2. ASSUME NEW p \in scenario.procs, AcquireLock(p) \/ Leave(p) \/ BeginSync(p)
      PROVE  [Contract!Next]_(Contract!vars)
  BY <1>2, CommandRefines DEF IInv
<1>3. ASSUME NEW p \in scenario.procs, Snapshot(p)
      PROVE  [Contract!Next]_(Contract!vars)
  BY <1>3, SnapshotRefines DEF IInv
<1>4. CASE UNCHANGED vars
  <2>1. UNCHANGED <<WorktreeOf, BranchTo, Published, Seen, Opened, Succeeded>>
    BY <1>4, SeesCommits DEF IInv, vars, Opened, Succeeded
  <2> QED
    BY <1>4, <2>1 DEF vars, Contract!vars, Contract!commandLines,
       Published, Opened, Succeeded, Success, Seen, WorktreeOf, BranchTo
<1> QED
  BY <1>1, <1>2, <1>3, <1>4 DEF Next, Contract!Next

(* pushSnapshot keeps its contract wherever the cache is used as it is     *)
(* meant to be: it publishes only what its worktree had meanwhile, and it  *)
(* reports a success only for such a version.                              *)
THEOREM ContractKept == Spec /\ SafeEnv => KeepsContract
<1>1. Init => Contract!Init
  <2> SUFFICES ASSUME Init PROVE Contract!Init
    OBVIOUS
  <2>1. TypeOK
    BY TypeInit
  <2>2. \A p \in Procs : Options[p].worktree \in Worktrees /\ Options[p].branch \in Branches
    BY <2>1, OptionsType DEF Option
  <2>3. WorktreeOf \in [Procs -> Worktrees] /\ BranchTo \in [Procs -> Branches]
    BY <2>2 DEF WorktreeOf, BranchTo
  <2>4. \A b, c \in Branches : Published[b] = Published[c]
    BY DEF Init, Published
  <2>5. Opened = [p \in Procs |-> FALSE] /\ Succeeded = [p \in Procs |-> FALSE]
    <3>1. \A p \in Procs : /\ (pc[p] \in InSnapshot) = FALSE
                           /\ (pc[p] \notin InSnapshot /\ loc[p].outcome \in Success) = FALSE
      <4>1. \A p \in Procs : pc[p] \notin InSnapshot /\ loc[p].outcome \notin Success
        BY DEF Init, InSnapshot, Success, Locals
      <4>2. ASSUME NEW p \in Procs
            PROVE  /\ (pc[p] \in InSnapshot) = FALSE
                   /\ (pc[p] \notin InSnapshot /\ loc[p].outcome \in Success) = FALSE
        <5>1. (pc[p] \in InSnapshot) = FALSE
          BY <4>1
        <5>2. (pc[p] \notin InSnapshot /\ loc[p].outcome \in Success) = FALSE
          BY <4>1
        <5> QED
          BY <5>1, <5>2
      <4> QED
        BY <4>2, Zenon
    <3> QED
      BY <3>1, Zenon DEF Opened, Succeeded
  <2>6. Seen = [p \in Procs |-> {}]
    BY DEF Init, Seen
  <2>7. src \in [Worktrees -> [Files -> Texts]]
    BY <2>1 DEF TypeOK
  <2> QED
    BY <2>3, <2>4, <2>5, <2>6, <2>7 DEF Init, Contract!Init, Published, Opened, Succeeded, Success, Seen, WorktreeOf, BranchTo
<1>2. IInv /\ SafeEnv /\ [Next]_vars => SafeEnv'
  BY Actors DEF IInv, SafeEnv, OneLock, NoLinks
<1>3. IInv /\ SafeEnv /\ [Next]_vars => [Contract!Next]_(Contract!vars)
  BY StepRefines
<1> QED
  BY <1>1, <1>2, <1>3, Inductive, PTL DEF Spec, KeepsContract, Contract!Spec

=============================================================================
