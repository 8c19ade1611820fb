-------------------------- MODULE StacksPinsProofs --------------------------
(***************************************************************************)
(* `stacks sync` with the bootstrap rewrite publishes no kustomization     *)
(* without the release pins of its time, where nobody replaces a history.  *)
(*                                                                         *)
(*   RewritesAreKept  Spec => []PinnedWhenAsked                            *)
(*                                                                         *)
(* The danger is the shortcut: a kustomization whose hashes are those of   *)
(* the metadata is not copied, and without a changed input nothing is      *)
(* rewritten.  It is safe because the metadata are of files that were      *)
(* pinned together (MetaPins), because a cache with metadata has the tree  *)
(* of a commit (SavedOf, WayOf), and because a commit that has a pin has   *)
(* the file it is of (TreePins): that file is in the worktree and has not  *)
(* changed, or its removal forces the rewrite.                             *)
(***************************************************************************)
EXTENDS StacksSnapshotProofs

PinEnv == SafeEnv /\ NoReset

(* In a commit, a pin is that of the file next to it.                      *)
TreePins(tree) == \A k \in Kustomizations : tree[k].pin \in {NoFile, tree[Pins].text}
CommitPins == \A i \in 1..Len(commits) : TreePins(commits[i].tree)

(* In the metadata, that of the file they were saved with.                 *)
MetaPins(c) ==
  \A k \in Kustomizations : c.meta[k].cache # Absent =>
    c.meta[k].cache.pin = c.meta[Pins].src /\ c.meta[Pins].src # NoFile

(* A branch that was there stays, and metadata are saved when it is there. *)
TrackInv == \A c \in Caches, b \in Branches : cache[c].tracking[b] # 0 => remote[b] # 0
HasMeta(c) == \E f \in Inputs : c.meta[f] # NoEntry
SavedOf(p) == HasMeta(Of(p)) => Of(p).head # 0 /\ Remote(p) # 0

(* On the way to the commit: the kustomizations of the cache are pinned    *)
(* already, or will be rewritten; without the rewrite they are plain.      *)
PinnedWith(p) ==
  \A k \in Kustomizations : Of(p).wt[k] # Absent =>
    Of(p).wt[k].pin = Text(p, Pins) /\ Text(p, Pins) # NoFile
KeptOf(p) ==
  /\ loc[p].files \cap Inputs \cap loc[p].todo = {}
  /\ \A k \in Kustomizations \cap loc[p].files :
       /\ Of(p).wt[Pins] # Absent
       /\ Pins \in loc[p].files => Of(p).wt[k].pin = Text(p, Pins) /\ Text(p, Pins) # NoFile
RewriteOf(p) ==
  Options[p].rewrite =>
    /\ pc[p] = "stale" /\ ~loc[p].touched => KeptOf(p)
    /\ pc[p] = "copy" /\ ~loc[p].touched => loc[p].todo \cap Inputs = {} /\ PinnedWith(p)
    /\ pc[p] \in {"add", "diff", "commit", "push", "save"} => PinnedWith(p)
PlainOf(p) ==
  ~Options[p].rewrite =>
    /\ pc[p] # "rewrite"
    /\ pc[p] = "stale" => loc[p].todo = loc[p].files
    /\ pc[p] = "copy" => \A k \in Kustomizations \ loc[p].todo : Of(p).wt[k].pin = NoFile
    /\ pc[p] \in {"add", "diff", "commit"} => \A k \in Kustomizations : Of(p).wt[k].pin = NoFile

(* What was reported is so.                                                *)
PinReported(p) ==
  \E h \in held[p] : \A k \in Kustomizations :
    Tree(h)[k] # Absent => Tree(h)[k].pin \in during[p][Pins] \ {NoFile}
WayOf(p) ==
  /\ pc[p] = "plan" /\ HasMeta(Of(p)) => Of(p).wt = Tree(Of(p).head)
  /\ RewriteOf(p) /\ PlainOf(p)
  /\ pc[p] = "save" => Remote(p) # 0
  /\ Options[p].rewrite /\ loc[p].outcome \in {"noop", "synced"} => PinReported(p)

PinInv ==
  PinEnv =>
    /\ CommitPins /\ TrackInv
    /\ \A c \in Caches : MetaPins(cache[c])
    /\ \A p \in scenario.procs : SavedOf(p)
    /\ \A p \in Procs : WayOf(p)

----------------------------------------------------------------------------
(* A step of a snapshot *)

(* What is so of a process and of its cache.                               *)
PinOwn(p) == MetaPins(Of(p)) /\ SavedOf(p) /\ WayOf(p)

(* The metadata stay, HEAD is not lost, nor is the branch.                 *)
LEMMA MetaStays ==
  ASSUME NEW p \in Procs, PinOwn(p), Of(p)'.meta = Of(p).meta,
         Of(p).head # 0 => Of(p)'.head # 0, Remote(p) # 0 => Remote(p)' # 0
  PROVE  MetaPins(Of(p))' /\ SavedOf(p)'
BY DEF PinOwn, MetaPins, SavedOf, HasMeta

(* Where nothing is said of the way, and nothing is reported.              *)
LEMMA OffTheWay ==
  ASSUME NEW p \in Procs, pc'[p] \in {"idle", "ready", "list", "reset", "fetch", "checkout"},
         loc'[p].outcome \notin {"noop", "synced"}
  PROVE  WayOf(p)'
BY DEF WayOf, RewriteOf, PlainOf

(* A failed step.                                                          *)
LEMMA FailedPins ==
  ASSUME TypeOK, NEW p \in Procs, PinOwn(p), Snapshot(p), UNCHANGED cache, pc'[p] = "ready",
         loc'[p].outcome \notin {"noop", "synced"}, Remote(p) # 0 => Remote(p)' # 0
  PROVE  PinOwn(p)'
<1>1. Of(p)' = Of(p)
  BY SnapshotStep, Frame DEF Of
<1> QED
  BY <1>1, MetaStays, OffTheWay DEF PinOwn

(* On the way: nothing is reported, and no branch is needed.               *)
LEMMA OnTheWay ==
  ASSUME NEW p \in Procs, OutcomeOf(p), Open(p), pc[p] # "save", loc'[p].outcome = loc[p].outcome,
         pc'[p] # "save", RewriteOf(p)', PlainOf(p)',
         pc'[p] = "plan" /\ HasMeta(Of(p))' => Of(p)'.wt = Tree(Of(p).head)'
  PROVE  WayOf(p)'
BY DEF WayOf, OutcomeOf

(* The first steps.                                                        *)
LEMMA FirstPins ==
  ASSUME TypeOK, NEW p \in Procs, OwnInv(p), PinOwn(p), ListFiles(p) \/ ResetCache(p) \/ Fetch(p)
  PROVE  PinOwn(p)'
<1>1. SnapshotEffect(p) /\ Options' = Options
  BY SnapshotStep, Frame DEF Snapshot
<1>2. /\ pc[p] \in {"list", "reset", "fetch"} /\ pc'[p] \in {"reset", "fetch", "checkout"}
      /\ loc'[p].outcome = loc[p].outcome /\ UNCHANGED <<scenario, remote>>
  BY DEF ListFiles, ResetCache, Fetch, Goto, TypeOK, LocalsSet, counters
<1>3. Of(p)'.meta = Of(p).meta /\ Of(p)'.head = Of(p).head
  <2>1. CASE UNCHANGED cache
    BY <1>1, <2>1 DEF Of
  <2>2. CASE ResetCache(p) /\ Of(p).head # 0
    <3>1. Of(p)' = [Of(p) EXCEPT !.wt = Tree(Of(p).head), !.index = Tree(Of(p).head)]
      BY <1>2, <2>2, ChangeOf DEF ResetCache
    <3> QED
      BY <3>1, CacheType DEF Clones
  <2>3. CASE Fetch(p)
    <3>1. Of(p)' = [Of(p) EXCEPT !.tracking = remote]
      BY <1>2, <2>3, ChangeOf DEF Fetch
    <3> QED
      BY <3>1, CacheType DEF Clones
  <2> QED
    BY <2>1, <2>2, <2>3 DEF ListFiles, ResetCache
<1>4. loc'[p].outcome = "none" /\ Remote(p)' = Remote(p)
  BY <1>1, <1>2 DEF OwnInv, OutcomeOf, Open, InSnapshot, Remote
<1> QED
  BY <1>2, <1>3, <1>4, MetaStays, OffTheWay DEF PinOwn

(* A new clone has no metadata.                                            *)
LEMMA ClonePins ==
  ASSUME TypeOK, ClonedInv, NEW p \in Procs, OwnInv(p), PinOwn(p), CloneCache(p)
  PROVE  PinOwn(p)'
<1>1. pc[p] = "reset" /\ pc'[p] = "reset" /\ UNCHANGED <<scenario, loc>>
  BY DEF CloneCache, counters
<1>2. PICK b \in Branches : Of(p)' = [Of(p) EXCEPT
        !.cloned = TRUE, !.tracking = remote,
        !.head = remote[b], !.wt = Tree(remote[b]), !.index = Tree(remote[b])]
  BY <1>1, ChangeOf DEF CloneCache
<1>3. Of(p)'.meta = Of(p).meta
  BY <1>2, CacheType DEF Clones
<1>4. ~HasMeta(Of(p))
  BY OptionsType DEF CloneCache, ClonedInv, Of, Option, HasMeta
<1>5. MetaPins(Of(p))' /\ SavedOf(p)'
  BY <1>3, <1>4 DEF PinOwn, MetaPins, SavedOf, HasMeta
<1>6. loc'[p].outcome = "none"
  BY <1>1 DEF OwnInv, OutcomeOf, Open, InSnapshot
<1> QED
  BY <1>1, <1>5, <1>6, OffTheWay DEF PinOwn

(* A cache with metadata has a HEAD, and comes to that of the branch.      *)
LEMMA CheckoutPins ==
  ASSUME TypeOK, NEW p \in Procs, OwnInv(p), PinOwn(p), Checkout(p)
  PROVE  PinOwn(p)'
<1> DEFINE to == Of(p).tracking[Options[p].branch]
           from == Tree(Of(p).head)
           target == Tree(to)
           Stays(f) == \/ from[f] = target[f]
                       \/ Of(p).index[f] = target[f] /\ (target[f] # Absent \/ Of(p).wt[f] = Absent)
           Clean(f) == Of(p).index[f] = from[f] /\ Of(p).wt[f] \in {from[f], Absent}
           wt == [f \in Files |-> IF Stays(f) THEN Of(p).wt[f] ELSE target[f]]
           index == [f \in Files |-> IF Stays(f) THEN Of(p).index[f] ELSE target[f]]
<1>1. SnapshotEffect(p) /\ Options' = Options /\ Snapshot(p)
  BY SnapshotStep, Frame DEF Snapshot
<1>2. pc[p] = "checkout" /\ ~Options[p].reset /\ to # 0 /\ UNCHANGED <<scenario, remote, commits>>
  BY DEF Checkout, history, counters
<1>3. Of(p) \in Clones /\ to \in 0..Len(commits) /\ Remote(p)' = Remote(p)
  BY <1>1, <1>2, CacheType, OptionsType DEF Clones, Option, TypeOK, Remote
<1>4. CASE ~\A f \in Files : Stays(f) \/ Clean(f)
  <2>1. pc'[p] = "ready" /\ loc'[p].outcome = "conflict" /\ UNCHANGED cache
    BY <1>4 DEF Checkout, Goto, Report, TypeOK, LocalsSet
  <2> QED
    BY <1>1, <1>3, <2>1, FailedPins
<1>5. CASE \A f \in Files : Stays(f) \/ Clean(f)
  <2>1. /\ Change(p, [Of(p) EXCEPT !.head = to, !.wt = wt, !.index = index])
        /\ pc'[p] = "plan" /\ UNCHANGED loc
    BY <1>5 DEF Checkout, Goto, TypeOK
  <2>2. Of(p)'.head = to /\ Of(p)'.meta = Of(p).meta /\ Of(p)'.wt = wt
    <3> HIDE DEF to, wt, index
    <3>1. Of(p)' = [Of(p) EXCEPT !.head = to, !.wt = wt, !.index = index]
      BY <1>2, <2>1, ChangeOf
    <3> QED
      BY <1>3, <3>1 DEF Clones
  <2>3. ASSUME HasMeta(Of(p))
        PROVE  wt = target
    <3>1. Of(p).wt = from /\ Of(p).index = from
      BY <1>2, <2>3 DEF OwnInv, CopyOf, PinOwn, SavedOf
    <3>2. \A f \in Files : wt[f] = target[f]
      BY <3>1
    <3>3. target = [f \in Files |-> target[f]]
      BY <1>3, TreeType DEF Snaps, TypeOK
    <3> QED
      BY <3>2, <3>3
  <2>4. WayOf(p)'
    <3>1. RewriteOf(p)' /\ PlainOf(p)'
      BY <2>1 DEF RewriteOf, PlainOf
    <3>2. HasMeta(Of(p))' => Of(p)'.wt = Tree(Of(p).head)'
      BY <1>2, <2>2, <2>3 DEF HasMeta, Tree
    <3> QED
      BY <1>2, <2>1, <3>1, <3>2, OnTheWay DEF OwnInv, Open, InSnapshot
  <2> QED
    BY <1>2, <1>3, <2>2, <2>4, MetaStays DEF PinOwn
<1> QED
  BY <1>4, <1>5

(* A cache without the branch has no metadata.                             *)
LEMMA OrphanPins ==
  ASSUME TypeOK, NEW p \in Procs, ~Options[p].reset, OwnInv(p), PinOwn(p), CheckoutOrphan(p)
  PROVE  PinOwn(p)'
<1>1. SnapshotEffect(p) /\ Options' = Options /\ Snapshot(p)
  BY SnapshotStep, Frame DEF Snapshot
<1>2. pc[p] = "checkout" /\ UNCHANGED <<scenario, remote>>
  BY DEF CheckoutOrphan, history, counters
<1>3. CASE Change(p, [Of(p) EXCEPT !.head = 0]) /\ Goto(p, "plan") /\ UNCHANGED loc /\ \A b \in Branches : remote[b] = 0
  <2>1. pc'[p] = "plan" /\ Of(p)'.meta = Of(p).meta
    BY <1>2, <1>3, CacheType, ChangeOf DEF Goto, TypeOK, Clones
  <2>2. ~HasMeta(Of(p))
    BY <1>3, OptionsType DEF PinOwn, SavedOf, Remote, Option
  <2>3. ~HasMeta(Of(p))' /\ SavedOf(p)' /\ MetaPins(Of(p))'
    BY <2>1, <2>2 DEF HasMeta, SavedOf, PinOwn, MetaPins
  <2>4. RewriteOf(p)' /\ PlainOf(p)'
    BY <2>1 DEF RewriteOf, PlainOf
  <2> QED
    BY <1>2, <1>3, <2>1, <2>3, <2>4, OnTheWay DEF OwnInv, PinOwn, Open, InSnapshot
<1>4. CASE UNCHANGED cache /\ Goto(p, "ready") /\ Report(p, "nobranch")
  <2>1. pc'[p] = "ready" /\ loc'[p].outcome = "nobranch" /\ Remote(p)' = Remote(p)
    BY <1>1, <1>2, <1>4 DEF Goto, Report, TypeOK, LocalsSet, Remote
  <2> QED
    BY <1>1, <1>4, <2>1, FailedPins
<1> QED
  BY <1>3, <1>4 DEF CheckoutOrphan

(* Plan: what is left alone is pinned with the text of the pins, if they   *)
(* are in the worktree, and they are in the cache.                         *)
LEMMA PlanPins ==
  ASSUME TypeOK, CommitPins, NEW p \in Procs, OwnInv(p), PinOwn(p), Plan(p)
  PROVE  PinOwn(p)'
<1>1. SnapshotEffect(p) /\ Options' = Options /\ Snapshot(p) /\ Text(p, Pins)' = Text(p, Pins)
  BY SnapshotStep, Frame, InstanceAssumption DEF Snapshot
<1>2. pc[p] = "plan" /\ UNCHANGED <<scenario, cache, remote>>
  BY DEF Plan, history, counters
<1>3. Of(p)' = Of(p) /\ Remote(p)' = Remote(p)
  BY <1>1, <1>2 DEF Of, Remote
<1>4. loc[p] \in LocalsSet /\ loc[p].files \subseteq Files
  BY DEF TypeOK, LocalsSet
<1>5. CASE Options[p].rewrite /\ \E f \in loc[p].files \cap Inputs : Text(p, f) = NoFile
  <2>1. pc'[p] = "ready" /\ loc'[p].outcome = "missing"
    BY <1>4, <1>5 DEF Plan, Goto, Report, TypeOK, LocalsSet
  <2> QED
    BY <1>1, <1>2, <1>3, <2>1, FailedPins
<1>6. CASE ~(Options[p].rewrite /\ \E f \in loc[p].files \cap Inputs : Text(p, f) = NoFile)
  <2>1. /\ pc'[p] = "stale" /\ loc'[p].files = loc[p].files /\ loc'[p].outcome = loc[p].outcome
        /\ loc'[p].todo = loc[p].files \ Kept(p)
        /\ loc'[p].touched = ((loc[p].files \cap Inputs) \ Kept(p) # {})
    BY <1>4, <1>6 DEF Plan, Goto, TypeOK, LocalsSet
  <2>2. PlainOf(p)'
    BY <1>1, <2>1 DEF PlainOf, Kept
  <2>3. ASSUME Options[p].rewrite, ~loc'[p].touched
        PROVE  KeptOf(p)'
    <3>1. \A f \in loc[p].files \cap Inputs :
            /\ f \in Kept(p) /\ Text(p, f) # NoFile
            /\ Of(p).meta[f].src = Text(p, f) /\ Of(p).meta[f].cache = Of(p).wt[f]
      <4>1. (loc[p].files \cap Inputs) \ Kept(p) = {}
        BY <2>1, <2>3
      <4>2. ASSUME NEW f \in loc[p].files \cap Inputs
            PROVE  /\ f \in Kept(p) /\ Text(p, f) # NoFile
                   /\ Of(p).meta[f].src = Text(p, f) /\ Of(p).meta[f].cache = Of(p).wt[f]
        <5>1. f \in Kept(p) /\ Text(p, f) # NoFile
          BY <1>6, <2>3, <4>1
        <5>2. Of(p).meta[f] = [src |-> Text(p, f), cache |-> Of(p).wt[f]]
          BY <2>3, <5>1 DEF Kept
        <5> QED
          BY <5>1, <5>2
      <4> QED
        BY <4>2
    <3>2. loc'[p].files \cap Inputs \cap loc'[p].todo = {}
      BY <2>1, <3>1
    <3>3. ASSUME NEW k \in Kustomizations \cap loc[p].files
          PROVE  /\ Of(p).wt[Pins] # Absent
                 /\ Pins \in loc[p].files => Of(p).wt[k].pin = Text(p, Pins) /\ Text(p, Pins) # NoFile
      <4>1. k \in Inputs /\ Pins \in Inputs
        BY DEF Inputs
      <4>2. Of(p).meta[k].src = Text(p, k) /\ Of(p).meta[k].cache = Of(p).wt[k] /\ Text(p, k) # NoFile
        BY <3>1, <4>1
      <4>3. Of(p).meta[k].cache.text = Text(p, k)
        BY <4>1, <4>2 DEF OwnInv, CloneOk
      <4>4. Of(p).meta[k].cache # Absent
        BY <4>2, <4>3 DEF Absent, Plain
      <4>5. Of(p).wt[k].pin = Of(p).meta[Pins].src /\ Of(p).meta[Pins].src # NoFile
        BY <4>2, <4>4 DEF PinOwn, MetaPins
      <4>6. HasMeta(Of(p))
        BY <4>1, <4>4 DEF HasMeta, NoEntry
      <4>7. Of(p).wt = Tree(Of(p).head) /\ Of(p).head # 0 /\ Of(p).head \in 1..Len(commits)
        BY <1>2, <4>6, CacheType DEF PinOwn, WayOf, SavedOf, Clones, TypeOK
      <4>8. Of(p).wt[k].pin \in {NoFile, Of(p).wt[Pins].text}
        BY <4>7 DEF CommitPins, TreePins, Tree
      <4>9. Of(p).wt[Pins] # Absent
        BY <4>5, <4>8 DEF Absent, Plain
      <4>10. Pins \in loc[p].files => Of(p).meta[Pins].src = Text(p, Pins)
        BY <3>1, <4>1
      <4> QED
        BY <4>5, <4>9, <4>10
    <3> QED
      BY <1>1, <1>3, <2>1, <3>2, <3>3 DEF KeptOf
  <2>4. RewriteOf(p)'
    BY <1>1, <2>1, <2>3 DEF RewriteOf
  <2>5. WayOf(p)'
    BY <1>2, <2>1, <2>2, <2>4, OnTheWay DEF OwnInv, Open, InSnapshot
  <2> QED
    BY <1>3, <2>5, MetaStays DEF PinOwn
<1> QED
  BY <1>5, <1>6

(* RemoveStale: without a stale input, the pins are in the worktree.       *)
LEMMA StalePins ==
  ASSUME TypeOK, NEW p \in Procs, OwnInv(p), PinOwn(p), RemoveStale(p)
  PROVE  PinOwn(p)'
<1>1. SnapshotEffect(p) /\ Options' = Options /\ Text(p, Pins)' = Text(p, Pins)
  BY SnapshotStep, Frame, InstanceAssumption DEF Snapshot
<1>2. pc[p] = "stale" /\ pc'[p] = "copy" /\ UNCHANGED <<scenario, remote>>
  BY DEF RemoveStale, Goto, TypeOK, history, counters
<1>3. Of(p) \in Clones /\ loc[p] \in LocalsSet
  BY CacheType DEF TypeOK
<1>4. /\ loc'[p].files = loc[p].files /\ loc'[p].todo = loc[p].todo /\ loc'[p].outcome = loc[p].outcome
      /\ ~loc'[p].touched => /\ ~loc[p].touched
                             /\ \A f \in Inputs \cap (Files \ loc[p].files) : Of(p).wt[f] = Absent
  BY <1>3 DEF RemoveStale, TypeOK, LocalsSet
<1>5. /\ Of(p)'.head = Of(p).head /\ Of(p)'.meta = Of(p).meta
      /\ \A f \in loc[p].files \cap Files : Of(p)'.wt[f] = Of(p).wt[f]
      /\ \A f \in Files \ loc[p].files : Of(p)'.wt[f] = Absent
  <2> DEFINE stale == {f \in Files \ loc[p].files : Of(p).wt[f] # Absent}
             wt == [f \in Files |-> IF f \in stale THEN Absent ELSE Of(p).wt[f]]
  <2>1. Of(p)' = [Of(p) EXCEPT !.wt = wt]
    BY <1>2, ChangeOf DEF RemoveStale
  <2> QED
    BY <1>3, <2>1 DEF Clones
<1>6. Kustomizations \subseteq Files /\ Pins \in Files /\ Inputs \subseteq Files /\ Pins \in Inputs
  BY InstanceAssumption DEF Inputs
<1>7. ASSUME Options[p].rewrite, ~loc'[p].touched
      PROVE  loc'[p].todo \cap Inputs = {} /\ PinnedWith(p)'
  <2>1. KeptOf(p)
    BY <1>2, <1>4, <1>7 DEF PinOwn, WayOf, RewriteOf
  <2>2. loc[p].todo \subseteq loc[p].files
    BY <1>2 DEF OwnInv, SourceOf, Open, InSnapshot
  <2>3. ASSUME NEW k \in Kustomizations, Of(p)'.wt[k] # Absent
        PROVE  Of(p)'.wt[k].pin = Text(p, Pins) /\ Text(p, Pins) # NoFile
    <3>1. k \in loc[p].files
      BY <1>5, <1>6, <2>3
    <3>2. Pins \in loc[p].files
      BY <1>4, <1>6, <1>7, <2>1, <3>1 DEF KeptOf
    <3> QED
      BY <1>5, <1>6, <2>1, <3>1, <3>2 DEF KeptOf
  <2> QED
    BY <1>1, <1>4, <2>1, <2>2, <2>3 DEF KeptOf, PinnedWith
<1>8. RewriteOf(p)'
  BY <1>1, <1>2, <1>7 DEF RewriteOf
<1>9. PlainOf(p)'
  <2>1. ~Options[p].rewrite => loc[p].todo = loc[p].files
    BY <1>2 DEF PinOwn, WayOf, PlainOf
  <2> QED
    BY <1>1, <1>2, <1>4, <1>5, <1>6, <2>1 DEF PlainOf, Absent, Plain
<1>10. WayOf(p)'
  BY <1>2, <1>4, <1>8, <1>9, OnTheWay DEF OwnInv, Open, InSnapshot
<1> QED
  BY <1>1, <1>2, <1>5, <1>10, MetaStays DEF PinOwn, Remote

(* A copied kustomization is plain, and forces the rewrite if there is one. *)
LEMMA CopyPins ==
  ASSUME TypeOK, TextInv, NoLinks, NEW p \in Procs, OwnInv(p), PinOwn(p), NEW f \in Files, CopyFile(p, f)
  PROVE  PinOwn(p)'
<1>1. SnapshotEffect(p) /\ Options' = Options /\ Snapshot(p) /\ Text(p, Pins)' = Text(p, Pins)
  BY SnapshotStep, Frame, InstanceAssumption DEF Snapshot
<1>2. pc[p] = "copy" /\ f \in loc[p].todo /\ UNCHANGED <<scenario, remote>>
  BY DEF CopyFile, history, counters
<1>3. Of(p) \in Clones /\ loc[p] \in LocalsSet /\ Remote(p)' = Remote(p)
  BY <1>1, <1>2, CacheType DEF TypeOK, Remote
<1>4. ~IsLink(Text(p, f)) /\ ~IsLink(Of(p).wt[f].text)
  BY OptionsType DEF OwnInv, CloneOk, Unlinked, TextInv, NoLinks, Text, Option
<1>5. CASE Text(p, f) = NoFile
  <2>1. pc'[p] = "ready" /\ loc'[p].outcome = "missing" /\ UNCHANGED cache
    BY <1>3, <1>4, <1>5 DEF CopyFile, Goto, Report, TypeOK, LocalsSet
  <2> QED
    BY <1>1, <1>3, <2>1, FailedPins
<1>6. CASE Text(p, f) # NoFile
  <2>1. /\ Change(p, [Of(p) EXCEPT !.wt[f] = Plain(Text(p, f))])
        /\ loc' = [loc EXCEPT ![p].todo = @ \ {f}] /\ UNCHANGED pc
    BY <1>4, <1>6 DEF CopyFile
  <2>2. /\ loc'[p].touched = loc[p].touched /\ loc'[p].todo = loc[p].todo \ {f}
        /\ loc'[p].outcome = loc[p].outcome
    BY <1>3, <2>1 DEF TypeOK, LocalsSet
  <2>3. /\ Of(p)'.head = Of(p).head /\ Of(p)'.meta = Of(p).meta /\ Of(p)'.wt[f].pin = NoFile
        /\ \A g \in Files \ {f} : Of(p)'.wt[g] = Of(p).wt[g]
    <3>1. Of(p)' = [Of(p) EXCEPT !.wt[f] = Plain(Text(p, f))]
      BY <1>2, <2>1, ChangeOf
    <3> QED
      BY <1>3, <3>1 DEF Clones, Snaps, Plain
  <2>4. Kustomizations \subseteq Files /\ Kustomizations \subseteq Inputs
    BY InstanceAssumption DEF Inputs
  <2>5. RewriteOf(p)'
    <3>1. ASSUME Options[p].rewrite, ~loc[p].touched
          PROVE  loc'[p].todo \cap Inputs = {} /\ PinnedWith(p)'
      <4>1. loc[p].todo \cap Inputs = {} /\ PinnedWith(p)
        BY <1>2, <3>1 DEF PinOwn, WayOf, RewriteOf
      <4>2. \A k \in Kustomizations : Of(p)'.wt[k] = Of(p).wt[k]
        BY <1>2, <2>3, <2>4, <4>1
      <4> QED
        BY <1>1, <2>2, <4>1, <4>2 DEF PinnedWith
    <3> QED
      BY <1>1, <1>2, <2>1, <2>2, <3>1 DEF RewriteOf
  <2>6. PlainOf(p)'
    <3>1. ~Options[p].rewrite => \A k \in Kustomizations \ loc[p].todo : Of(p).wt[k].pin = NoFile
      BY <1>2 DEF PinOwn, WayOf, PlainOf
    <3> QED
      BY <1>1, <1>2, <2>1, <2>2, <2>3, <2>4, <3>1 DEF PlainOf
  <2>7. WayOf(p)'
    BY <1>2, <2>1, <2>2, <2>5, <2>6, OnTheWay DEF OwnInv, Open, InSnapshot
  <2> QED
    BY <1>3, <2>3, <2>7, MetaStays DEF PinOwn
<1> QED
  BY <1>5, <1>6

(* CopyDone, without a rewrite where nothing was touched.                  *)
LEMMA CopiedPins ==
  ASSUME TypeOK, NEW p \in Procs, OwnInv(p), PinOwn(p), CopyDone(p)
  PROVE  PinOwn(p)'
<1>1. SnapshotEffect(p) /\ Options' = Options /\ Text(p, Pins)' = Text(p, Pins)
  BY SnapshotStep, Frame, InstanceAssumption DEF Snapshot
<1>2. /\ pc[p] = "copy" /\ loc[p].todo = {} /\ UNCHANGED <<scenario, cache, remote, loc>>
      /\ pc'[p] = IF Options[p].rewrite /\ loc[p].touched THEN "rewrite" ELSE "add"
  BY DEF CopyDone, Goto, TypeOK, history, counters
<1>3. Of(p)' = Of(p) /\ Remote(p)' = Remote(p)
  BY <1>1, <1>2 DEF Of, Remote
<1>4. RewriteOf(p)'
  BY <1>1, <1>2, <1>3 DEF PinOwn, WayOf, RewriteOf, PinnedWith
<1>5. PlainOf(p)'
  BY <1>1, <1>2, <1>3 DEF PinOwn, WayOf, PlainOf
<1>6. WayOf(p)'
  BY <1>2, <1>4, <1>5, OnTheWay DEF OwnInv, Open, InSnapshot
<1> QED
  BY <1>3, <1>6, MetaStays DEF PinOwn

(* Every kustomization is pinned.                                          *)
LEMMA RewritePins ==
  ASSUME TypeOK, NEW p \in Procs, OwnInv(p), PinOwn(p), Options[p].rewrite, Rewrite(p)
  PROVE  PinOwn(p)'
<1>1. SnapshotEffect(p) /\ Options' = Options /\ Snapshot(p) /\ Text(p, Pins)' = Text(p, Pins)
  BY SnapshotStep, Frame, InstanceAssumption DEF Snapshot
<1>2. pc[p] = "rewrite" /\ UNCHANGED <<scenario, remote>>
  BY DEF Rewrite, history, counters
<1>3. Of(p) \in Clones /\ Remote(p)' = Remote(p) /\ Kustomizations \subseteq Files
  BY <1>1, <1>2, CacheType, InstanceAssumption DEF Remote
<1>4. CASE Text(p, Pins) = NoFile
  <2>1. pc'[p] = "ready" /\ loc'[p].outcome = "missing" /\ UNCHANGED cache
    BY <1>4 DEF Rewrite, Goto, Report, TypeOK, LocalsSet
  <2> QED
    BY <1>1, <1>3, <2>1, FailedPins
<1>5. CASE Text(p, Pins) # NoFile
  <2> DEFINE wt == [f \in Files |-> IF f \in {k \in Kustomizations : Of(p).wt[k] # Absent}
                                    THEN [Of(p).wt[f] EXCEPT !.pin = Text(p, Pins)] ELSE Of(p).wt[f]]
  <2>1. pc'[p] = "add" /\ UNCHANGED loc /\ Change(p, [Of(p) EXCEPT !.wt = wt])
    BY <1>5 DEF Rewrite, Goto, TypeOK
  <2>2. Of(p)' = [Of(p) EXCEPT !.wt = wt]
    BY <1>2, <2>1, ChangeOf
  <2>3. Of(p)'.head = Of(p).head /\ Of(p)'.meta = Of(p).meta /\ Of(p)'.wt = wt
    BY <1>3, <2>2 DEF Clones
  <2>4. \A k \in Kustomizations : wt[k] # Absent => wt[k].pin = Text(p, Pins)
    BY <1>3 DEF Clones, Snaps, Blob
  <2>5. RewriteOf(p)' /\ PlainOf(p)'
    BY <1>1, <1>5, <2>1, <2>3, <2>4 DEF RewriteOf, PlainOf, PinnedWith
  <2>6. WayOf(p)'
    BY <1>2, <2>1, <2>5, OnTheWay DEF OwnInv, Open, InSnapshot
  <2> QED
    BY <1>3, <2>3, <2>6, MetaStays DEF PinOwn
<1> QED
  BY <1>4, <1>5

(* The index, and the commit, are of that.                                 *)
LEMMA AddPins ==
  ASSUME TypeOK, NEW p \in Procs, OwnInv(p), PinOwn(p), Add(p)
  PROVE  PinOwn(p)'
<1>1. SnapshotEffect(p) /\ Options' = Options /\ Text(p, Pins)' = Text(p, Pins)
  BY SnapshotStep, Frame, InstanceAssumption DEF Snapshot
<1>2. pc[p] = "add" /\ pc'[p] = "diff" /\ UNCHANGED <<scenario, loc, remote>>
  BY DEF Add, Goto, TypeOK, history, counters
<1>3. Of(p)'.head = Of(p).head /\ Of(p)'.meta = Of(p).meta /\ Of(p)'.wt = Of(p).wt
  BY <1>2, CacheType, ChangeOf DEF Add, Clones
<1>4. RewriteOf(p)' /\ PlainOf(p)'
  BY <1>1, <1>2, <1>3 DEF PinOwn, WayOf, RewriteOf, PlainOf, PinnedWith
<1>5. WayOf(p)'
  BY <1>2, <1>4, OnTheWay DEF OwnInv, Open, InSnapshot
<1> QED
  BY <1>1, <1>2, <1>3, <1>5, MetaStays DEF PinOwn, Remote

(* A version with the pins of the time, once it is the branch, is what is  *)
(* reported.                                                               *)
LEMMA ReportedPins ==
  ASSUME TypeOK, NEW p \in Procs, SnapshotEffect(p), OwnInv(p), pc[p] \in {"diff", "push"}, PinnedWith(p),
         Of(p).index = Tree(Of(p).head), Of(p).head \in held'[p], UNCHANGED commits
  PROVE  PinReported(p)'
<1>1. during' = during /\ Text(p, Pins) \in during[p][Pins]
  BY Frame, InstanceAssumption DEF OwnInv, SourceOf, Open, InSnapshot
<1>2. Of(p).wt = Of(p).index
  BY DEF OwnInv, CopyOf
<1>3. \A k \in Kustomizations : Tree(Of(p).head)[k] # Absent =>
        Tree(Of(p).head)[k].pin \in during[p][Pins] \ {NoFile}
  BY <1>1, <1>2 DEF PinnedWith
<1>4. (IF Of(p).head = 0 THEN EmptyTree ELSE commits'[Of(p).head].tree) = Tree(Of(p).head)
  BY DEF Tree
<1> QED
  BY <1>1, <1>3, <1>4 DEF PinReported, Tree

(* Without a change, the branch is there already.                          *)
LEMMA DiffPins ==
  ASSUME TypeOK, TrackInv, NEW p \in Procs, ~Options[p].reset, OwnInv(p), OwnInv(p)', PinOwn(p), Diff(p)
  PROVE  PinOwn(p)'
<1>1. SnapshotEffect(p) /\ Options' = Options /\ Text(p, Pins)' = Text(p, Pins) /\ held[p] \subseteq held'[p]
  BY SnapshotStep, Frame, InstanceAssumption DEF Snapshot
<1>2. pc[p] = "diff" /\ UNCHANGED <<scenario, cache, remote, commits>>
  BY DEF Diff, history, counters
<1>3. Of(p)' = Of(p) /\ Remote(p)' = Remote(p) /\ loc[p] \in LocalsSet
  BY <1>1, <1>2 DEF Of, Remote, TypeOK
<1>4. RewriteOf(p)' /\ PlainOf(p)'
  <2>1. pc'[p] \in {"save", "commit"}
    BY DEF Diff, Goto, TypeOK
  <2> QED
    BY <1>1, <1>2, <1>3, <2>1 DEF PinOwn, WayOf, RewriteOf, PlainOf, PinnedWith
<1>5. CASE Of(p).index = Tree(Of(p).head)
  <2>1. pc'[p] = "save"
    BY <1>5 DEF Diff, Goto, TypeOK
  <2>2. Of(p).head # 0 /\ Of(p).head = Tracked(p) /\ Tracked(p) \in held[p]
    BY <1>2, <1>3, <2>1 DEF OwnInv, CopyOf, BranchOf, Open, InSnapshot
  <2>3. Remote(p) # 0
    BY <2>2, OptionsType DEF TrackInv, Tracked, Of, Remote, Option
  <2>4. Options[p].rewrite => PinReported(p)'
    <3>1. Options[p].rewrite => PinnedWith(p)
      BY <1>2 DEF PinOwn, WayOf, RewriteOf
    <3> QED
      BY <1>1, <1>2, <1>5, <2>2, <3>1, ReportedPins
  <2>5. WayOf(p)'
    BY <1>1, <1>3, <1>4, <2>1, <2>3, <2>4 DEF WayOf
  <2> QED
    BY <1>3, <2>5, MetaStays DEF PinOwn
<1>6. CASE Of(p).index # Tree(Of(p).head)
  <2>1. pc'[p] = "commit" /\ UNCHANGED loc
    BY <1>6 DEF Diff, Goto, TypeOK
  <2>2. WayOf(p)'
    BY <1>2, <1>4, <2>1, OnTheWay DEF OwnInv, Open, InSnapshot
  <2> QED
    BY <1>3, <2>2, MetaStays DEF PinOwn
<1> QED
  BY <1>5, <1>6

(* The commit becomes HEAD.                                                *)
LEMMA CommitPinsOwn ==
  ASSUME TypeOK, NEW p \in Procs, OwnInv(p), PinOwn(p), Commit(p)
  PROVE  PinOwn(p)'
<1>1. SnapshotEffect(p) /\ Options' = Options /\ Text(p, Pins)' = Text(p, Pins)
  BY SnapshotStep, Frame, InstanceAssumption DEF Snapshot
<1>2. pc[p] = "commit" /\ Of(p).index # Tree(Of(p).head) /\ UNCHANGED <<scenario, remote>>
  BY DEF Commit, OwnInv, CopyOf, history, counters
<1>3. /\ Change(p, [Of(p) EXCEPT !.head = Len(commits) + 1])
      /\ loc' = [loc EXCEPT ![p].commit = Len(commits) + 1] /\ pc'[p] = "push"
  BY <1>2 DEF Commit, Goto, TypeOK
<1>4. Of(p)'.head = Len(commits) + 1 /\ Of(p)'.meta = Of(p).meta /\ Of(p)'.wt = Of(p).wt
  BY <1>2, <1>3, CacheType, ChangeOf DEF Clones
<1>5. Len(commits) + 1 # 0 /\ loc'[p].outcome = loc[p].outcome
  BY <1>3 DEF TypeOK, LocalsSet
<1>6. RewriteOf(p)' /\ PlainOf(p)'
  BY <1>1, <1>2, <1>3, <1>4 DEF PinOwn, WayOf, RewriteOf, PlainOf, PinnedWith
<1>7. WayOf(p)'
  BY <1>2, <1>3, <1>5, <1>6, OnTheWay DEF OwnInv, Open, InSnapshot
<1> QED
  BY <1>1, <1>2, <1>4, <1>5, <1>7, MetaStays DEF PinOwn, Remote

(* A push makes the branch, whatever answer comes.                         *)
LEMMA PushPins ==
  ASSUME TypeOK, NEW p \in Procs, OwnInv(p), PinOwn(p), Push(p) \/ PushLostAnswer(p)
  PROVE  PinOwn(p)'
<1>1. SnapshotEffect(p) /\ Options' = Options /\ Text(p, Pins)' = Text(p, Pins) /\ Snapshot(p)
  BY SnapshotStep, Frame, InstanceAssumption DEF Snapshot
<1>2. pc[p] = "push" /\ Of(p).head # 0 /\ Publish(p) /\ UNCHANGED scenario
  BY DEF Push, PushLostAnswer, counters
<1>3. Remote(p)' = Of(p).head /\ Of(p).head \in held'[p]
  BY <1>1, <1>2, OptionsType DEF Publish, Remote, TypeOK, InSnapshot, Option
<1>4. CASE PushLostAnswer(p)
  <2>1. pc'[p] = "ready" /\ loc'[p].outcome = "failed" /\ UNCHANGED cache
    BY <1>4 DEF PushLostAnswer, Goto, Report, TypeOK, LocalsSet
  <2> QED
    BY <1>1, <1>2, <1>3, <2>1, FailedPins
<1>5. CASE Push(p)
  <2>1. pc'[p] = "save"
    BY <1>5 DEF Push, Goto, TypeOK
  <2>2. Of(p)'.head = Of(p).head /\ Of(p)'.meta = Of(p).meta /\ Of(p)'.wt = Of(p).wt
    BY <1>2, <1>5, CacheType, ChangeOf DEF Push, Clones
  <2>3. RewriteOf(p)' /\ PlainOf(p)'
    BY <1>1, <1>2, <2>1, <2>2 DEF PinOwn, WayOf, RewriteOf, PlainOf, PinnedWith
  <2>4. Options[p].rewrite => PinReported(p)'
    <3>1. Options[p].rewrite => PinnedWith(p)
      BY <1>2 DEF PinOwn, WayOf, RewriteOf
    <3>2. UNCHANGED commits
      BY <1>5 DEF Push
    <3>3. Of(p).index = Tree(Of(p).head)
      BY <1>2 DEF OwnInv, CopyOf
    <3> QED
      BY <1>1, <1>2, <1>3, <3>1, <3>2, <3>3, ReportedPins
  <2>5. WayOf(p)'
    BY <1>1, <1>2, <1>3, <2>1, <2>3, <2>4 DEF WayOf
  <2> QED
    BY <1>2, <1>3, <2>2, <2>5, MetaStays DEF PinOwn
<1> QED
  BY <1>4, <1>5

(* Save: what is hashed together is pinned together.                       *)
LEMMA SavePins ==
  ASSUME TypeOK, NEW p \in Procs, OwnInv(p), OwnInv(p)', PinOwn(p), Save(p)
  PROVE  PinOwn(p)'
<1>1. SnapshotEffect(p) /\ Options' = Options /\ Text(p, Pins)' = Text(p, Pins)
  BY SnapshotStep, Frame, InstanceAssumption DEF Snapshot
<1>2. pc[p] = "save" /\ pc'[p] = "ready" /\ UNCHANGED <<scenario, loc, remote, held, during, commits>>
  BY DEF Save, Goto, TypeOK, history, counters
<1>3. Remote(p)' = Remote(p) /\ Remote(p) # 0 /\ Of(p).head # 0
  BY <1>1, <1>2 DEF PinOwn, WayOf, OwnInv, CopyOf, Remote
<1>4. WayOf(p)'
  BY <1>1, <1>2 DEF PinOwn, WayOf, RewriteOf, PlainOf, PinReported, Tree
<1>5. CASE UNCHANGED cache
  <2>1. Of(p)' = Of(p)
    BY <1>1, <1>5 DEF Of
  <2> QED
    BY <1>3, <1>4, <2>1, MetaStays DEF PinOwn
<1>6. CASE cache' # cache
  <2> DEFINE saved == loc[p].files \cap Inputs
             meta == [f \in Inputs |-> IF f \in saved THEN [src |-> Text(p, f), cache |-> Of(p).wt[f]] ELSE NoEntry]
  <2>1. Options[p].rewrite /\ Of(p)' = [Of(p) EXCEPT !.meta = meta]
    BY <1>2, <1>6, ChangeOf DEF Save
  <2>2. Of(p)'.meta = meta /\ Of(p)'.head = Of(p).head
    BY <2>1, CacheType DEF Clones
  <2>3. SavedOf(p)'
    BY <1>3, <2>2 DEF SavedOf
  <2>4. ASSUME NEW k \in Kustomizations, meta[k].cache # Absent
        PROVE  meta[k].cache.pin = meta[Pins].src /\ meta[Pins].src # NoFile
    <3>1. k \in Inputs /\ Pins \in Inputs /\ k \in Files /\ Pins \in Files
      BY InstanceAssumption DEF Inputs
    <3>2. k \in saved
      BY <2>4, <3>1 DEF NoEntry
    <3>3. meta[k].cache = Of(p).wt[k]
      BY <3>1, <3>2
    <3>4. Of(p).wt[k].pin = Text(p, Pins) /\ Text(p, Pins) # NoFile
      BY <1>2, <2>1, <2>4, <3>3 DEF PinOwn, WayOf, RewriteOf, PinnedWith
    <3>5. Pins \in loc[p].files
      <4>1. during[p][Pins] = {Text(p, Pins)}
        BY <1>2, <2>1, <3>1 DEF OwnInv, SourceOf, Open, InSnapshot
      <4>2. Pins \notin loc[p].files => NoFile \in during[p][Pins]
        BY <1>2, <3>1 DEF OwnInv, SourceOf, Open, InSnapshot
      <4> QED
        BY <3>4, <4>1, <4>2
    <3>6. meta[Pins].src = Text(p, Pins)
      BY <3>1, <3>5
    <3> QED
      BY <3>3, <3>4, <3>6
  <2>5. MetaPins(Of(p))'
    BY <2>2, <2>4 DEF MetaPins
  <2> QED
    BY <1>4, <2>3, <2>5 DEF PinOwn
<1> QED
  BY <1>5, <1>6

(* Every step of a snapshot.                                               *)
LEMMA SnapshotPins ==
  ASSUME TypeOK, TextInv, CommitsOk, NoLinks, ClonedInv, CommitPins, TrackInv, NEW p \in Procs, ~Options[p].reset,
         OwnInv(p), PinOwn(p), Snapshot(p)
  PROVE  PinOwn(p)'
<1>1. OwnInv(p)' /\ SnapshotEffect(p)
  BY SnapshotKeeps, SnapshotStep
<1>2. CASE Rewrite(p)
  <2>1. Options[p].rewrite
    BY <1>2 DEF Rewrite, PinOwn, WayOf, PlainOf
  <2> QED
    BY <1>2, <2>1, RewritePins
<1>3. CASE PushRefused(p) \/ Fails(p)
  <2>1. /\ pc'[p] = "ready" /\ loc'[p].outcome \in {"refused", "failed"} /\ UNCHANGED <<cache, remote>>
        /\ Remote(p)' = Remote(p)
    BY <1>1, <1>3, Frame DEF PushRefused, Fails, Goto, Report, TypeOK, LocalsSet, Remote
  <2> QED
    BY <2>1, FailedPins
<1> QED
  BY <1>1, <1>2, <1>3, FirstPins, ClonePins, CheckoutPins, OrphanPins, PlanPins, StalePins, CopyPins,
     CopiedPins, AddPins, DiffPins, CommitPinsOwn, PushPins, SavePins DEF Snapshot

(* What a cache knows of the branches stays.                               *)
TrackingKept(p) == Of(p)'.tracking = Of(p).tracking

(* Only a clone, a fetch and a push change it.                            *)
LEMMA TrackingStays ==
  ASSUME TypeOK, NEW p \in Procs, Snapshot(p)
  PROVE  TrackingKept(p) \/ CloneCache(p) \/ Fetch(p) \/ Push(p)
<1>1. SnapshotEffect(p) /\ Options' = Options /\ UNCHANGED scenario
  BY SnapshotStep, Frame DEF SnapshotEffect
<1>2. Of(p) \in Clones
  BY CacheType
<1>3. ASSUME UNCHANGED cache
      PROVE  TrackingKept(p)
  BY <1>1, <1>3 DEF TrackingKept, Of
<1>4. ASSUME NEW c, Change(p, c), c.tracking = Of(p).tracking
      PROVE  TrackingKept(p)
  BY <1>1, <1>4, ChangeOf DEF TrackingKept
<1>5. CASE ListFiles(p) \/ Plan(p) \/ CopyDone(p) \/ Diff(p) \/ PushLostAnswer(p) \/ PushRefused(p) \/ Fails(p)
  BY <1>3, <1>5 DEF ListFiles, Plan, CopyDone, Diff, PushLostAnswer, PushRefused, Fails
<1>6. CASE ResetCache(p)
  BY <1>2, <1>3, <1>4, <1>6 DEF ResetCache, Clones
<1>7. CASE Checkout(p)
  BY <1>2, <1>3, <1>4, <1>7 DEF Checkout, Clones
<1>8. CASE CheckoutOrphan(p)
  BY <1>2, <1>3, <1>4, <1>8 DEF CheckoutOrphan, Clones
<1>9. CASE RemoveStale(p)
  BY <1>2, <1>4, <1>9 DEF RemoveStale, Clones
<1>10. ASSUME NEW f \in Files, CopyFile(p, f)
       PROVE  TrackingKept(p)
  <2>1. ASSUME NEW g, Change(p, [Of(p) EXCEPT !.wt[g] = Plain(Text(p, f))])
        PROVE  TrackingKept(p)
    BY <1>2, <1>4, <2>1 DEF Clones
  <2>2. UNCHANGED cache \/ \E g : Change(p, [Of(p) EXCEPT !.wt[g] = Plain(Text(p, f))])
    BY <1>10 DEF CopyFile
  <2> QED
    BY <1>3, <2>1, <2>2
<1>11. CASE Rewrite(p)
  BY <1>2, <1>3, <1>4, <1>11 DEF Rewrite, Clones
<1>12. CASE Add(p)
  BY <1>2, <1>4, <1>12 DEF Add, Clones
<1>13. CASE Commit(p)
  <2>1. CASE UNCHANGED cache
    BY <1>3, <2>1
  <2>2. CASE Change(p, [Of(p) EXCEPT !.head = Len(commits) + 1])
    BY <1>2, <1>4, <2>2 DEF Clones
  <2> QED
    BY <1>13, <2>1, <2>2 DEF Commit
<1>14. CASE Save(p)
  BY <1>2, <1>3, <1>4, <1>14 DEF Save, Clones
<1> QED
  BY <1>5, <1>6, <1>7, <1>8, <1>9, <1>10, <1>11, <1>12, <1>13, <1>14 DEF Snapshot

----------------------------------------------------------------------------
(* Every step *)

(* Branches and commits, after a step of a snapshot.                       *)
LEMMA BranchesStay ==
  ASSUME TypeOK, TrackInv, NEW p \in Procs, Snapshot(p)
  PROVE  TrackInv' /\ \A q \in Procs : Remote(q) # 0 => Remote(q)' # 0
<1>1. SnapshotEffect(p) /\ Options' = Options
  BY SnapshotStep, Frame
<1>2. \A b \in Branches : remote[b] # 0 => remote'[b] # 0
  <2>1. CASE Push(p) \/ PushLostAnswer(p)
    BY <2>1, OptionsType DEF Push, PushLostAnswer, Publish, TypeOK, Option
  <2> QED
    BY <2>1, OutcomeStep
<1>3. \A q \in Procs : Remote(q) # 0 => Remote(q)' # 0
  BY <1>1, <1>2, OptionsType DEF Remote, Option
<1>4. \A b \in Branches : Of(p)'.tracking[b] # 0 => remote'[b] # 0
  <2>1. Of(p) \in Clones /\ Options[p].branch \in Branches /\ Options[p].cache \in Caches
        /\ remote \in [Branches -> Nat]
    BY CacheType, OptionsType DEF TypeOK, Option
  <2>2. \A b \in Branches : Of(p).tracking[b] # 0 => remote[b] # 0
    BY <2>1 DEF TrackInv, Of
  <2>3. CASE Of(p)'.tracking = Of(p).tracking
    BY <1>2, <2>2, <2>3
  <2>4. CASE Fetch(p)
    <3>1. Of(p)' = [Of(p) EXCEPT !.tracking = remote] /\ UNCHANGED remote
      BY <2>4, ChangeOf DEF Fetch, counters
    <3> QED
      BY <2>1, <3>1 DEF Clones
  <2>5. CASE Push(p)
    <3>1. Of(p)' = [Of(p) EXCEPT !.tracking[Options[p].branch] = Of(p).head]
      BY <2>5, ChangeOf DEF Push, counters
    <3>2. Of(p)'.tracking = [Of(p).tracking EXCEPT ![Options[p].branch] = Of(p).head]
      BY <2>1, <3>1 DEF Clones
    <3>3. Of(p).head # 0 /\ remote' = [remote EXCEPT ![Options[p].branch] = Of(p).head]
      BY <2>5 DEF Push, Publish
    <3> QED
      BY <1>2, <2>1, <2>2, <3>2, <3>3 DEF Clones
  <2>6. CASE CloneCache(p)
    <3>1. PICK b \in Branches : Of(p)' = [Of(p) EXCEPT
            !.cloned = TRUE, !.tracking = remote,
            !.head = remote[b], !.wt = Tree(remote[b]), !.index = Tree(remote[b])]
      BY <2>6, ChangeOf DEF CloneCache, counters
    <3>2. UNCHANGED remote
      BY <2>6 DEF CloneCache
    <3>3. Of(p)'.tracking = remote
      BY <2>1, <3>1 DEF Clones
    <3> QED
      BY <3>2, <3>3
  <2>7. TrackingKept(p) \/ CloneCache(p) \/ Fetch(p) \/ Push(p)
    BY TrackingStays
  <2> QED
    BY <2>3, <2>4, <2>5, <2>6, <2>7 DEF TrackingKept
<1>5. TrackInv'
  <2>1. Of(p)' = cache'[Options[p].cache]
    BY <1>1 DEF Of
  <2> QED
    BY <1>1, <1>2, <1>4, <2>1 DEF TrackInv, SnapshotEffect, CacheEffect
<1> QED
  BY <1>3, <1>5

(* A new commit has pins of its own pins file, or none.                    *)
LEMMA CommitsArePinned ==
  ASSUME TypeOK, CommitPins, NEW p \in Procs, OwnInv(p), PinOwn(p), Snapshot(p)
  PROVE  CommitPins'
<1>1. SnapshotEffect(p) /\ commits \in Seq(Commits) /\ Len(commits) \in Nat
  BY SnapshotStep DEF TypeOK
<1>2. CASE UNCHANGED commits
  BY <1>2 DEF CommitPins
<1>3. CASE commits' # commits
  <2>1. pc[p] = "commit"
    BY <1>3 DEF Snapshot, ListFiles, CloneCache, ResetCache, Fetch, Checkout, CheckoutOrphan, Plan, RemoveStale,
       CopyFile, CopyDone, Rewrite, Add, Diff, Commit, Push, PushLostAnswer, PushRefused, Save, Fails
  <2>2. Of(p).index = Of(p).wt /\ Inputs \subseteq Files /\ Pins \in Inputs /\ Kustomizations \subseteq Files
    BY <2>1, InstanceAssumption DEF OwnInv, CopyOf, Inputs
  <2>3. TreePins(Of(p).wt)
    <3>1. CASE Options[p].rewrite
      <4>1. Of(p).wt[Pins].text = Text(p, Pins)
        BY <2>1, <2>2, <3>1 DEF OwnInv, CopyOf, SourceOf, Copied, Open, InSnapshot
      <4>2. PinnedWith(p)
        BY <2>1, <3>1 DEF PinOwn, WayOf, RewriteOf
      <4> QED
        BY <4>1, <4>2 DEF PinnedWith, TreePins, Absent, Plain
    <3>2. CASE ~Options[p].rewrite
      BY <2>1, <3>2 DEF PinOwn, WayOf, PlainOf, TreePins
    <3> QED
      BY <3>1, <3>2
  <2>4. commits' = Append(commits, NewCommit(p)) /\ NewCommit(p).tree = Of(p).wt
    BY <1>1, <1>3, <2>2 DEF SnapshotEffect, NewCommit
  <2>5. /\ Len(commits') = Len(commits) + 1 /\ commits'[Len(commits) + 1] = NewCommit(p)
        /\ \A i \in 1..Len(commits) : commits'[i] = commits[i]
    BY <1>1, <2>4
  <2>6. \A i \in 1..Len(commits') : i = Len(commits) + 1 \/ i \in 1..Len(commits)
    BY <1>1, <2>5
  <2> QED
    BY <2>3, <2>4, <2>5, <2>6 DEF CommitPins
<1> QED
  BY <1>2, <1>3

(* What others do leaves the way of a process, and what it reported.       *)
LEMMA OthersPins ==
  ASSUME TypeOK, LockInv, OneLock, TrackInv, NEW p \in Procs, Snapshot(p), NEW q \in Procs, q # p, WayOf(q)
  PROVE  WayOf(q)'
<1>1. /\ SnapshotEffect(p) /\ Options' = Options /\ during' = during /\ held[q] \subseteq held'[q]
      /\ Text(q, Pins)' = Text(q, Pins) /\ \A i \in 0..Len(commits) : Tree(i)' = Tree(i)
  BY SnapshotStep, Frame, InstanceAssumption
<1>2. pc'[q] = pc[q] /\ loc'[q] = loc[q] /\ pc[p] # "idle"
  BY <1>1 DEF SnapshotEffect, LocalEffect, InSnapshot
<1>3. PinReported(q) => PinReported(q)'
  <2> SUFFICES ASSUME PinReported(q) PROVE PinReported(q)'
    OBVIOUS
  <2>1. PICK h \in held[q] : \A k \in Kustomizations :
          Tree(h)[k] # Absent => Tree(h)[k].pin \in during[q][Pins] \ {NoFile}
    BY DEF PinReported
  <2>2. h \in 0..Len(commits)
    BY DEF TypeOK
  <2>3. (IF h = 0 THEN EmptyTree ELSE commits'[h].tree) = Tree(h)
    BY <1>1, <2>2 DEF Tree
  <2> QED
    BY <1>1, <2>1, <2>3 DEF PinReported, Tree
<1>4. Remote(q) # 0 => Remote(q)' # 0
  BY BranchesStay
<1>5. CASE pc[q] = "idle"
  BY <1>1, <1>2, <1>3, <1>5 DEF WayOf, RewriteOf, PlainOf
<1>6. CASE pc[q] # "idle"
  <2>1. Options[q].cache # Options[p].cache /\ Options[q].cache \in Caches
    BY <1>2, <1>6, OneAtWork, OptionsType DEF Option
  <2>2. Of(q)' = Of(q)
    BY <1>1, <2>1 DEF SnapshotEffect, CacheEffect, Of
  <2>3. Of(q).head \in 0..Len(commits)
    BY CacheType DEF Clones, TypeOK
  <2>4. RewriteOf(q)' /\ PlainOf(q)'
    BY <1>1, <1>2, <2>2 DEF WayOf, RewriteOf, PlainOf, PinnedWith, KeptOf
  <2>5. pc[q] = "plan" /\ HasMeta(Of(q))' => Of(q)'.wt = Tree(Of(q).head)'
    <3>1. (IF Of(q).head = 0 THEN EmptyTree ELSE commits'[Of(q).head].tree) = Tree(Of(q).head)
      BY <1>1, <2>3 DEF Tree
    <3> QED
      BY <2>2, <3>1 DEF WayOf, HasMeta, Tree
  <2> QED
    BY <1>1, <1>2, <1>3, <1>4, <2>4, <2>5 DEF WayOf
<1> QED
  BY <1>5, <1>6

(* The user does not touch the inputs of a rewrite while it runs.          *)
LEMMA EditPins ==
  ASSUME TypeOK, "race" \notin scenario.env, NEW w \in Worktrees, NEW f \in Files, NEW t \in Texts,
         EditFile(w, f, t), NEW p \in Procs, WayOf(p)
  PROVE  WayOf(p)'
<1>1. /\ UNCHANGED <<pc, loc, cache, held, commits, remote, scenario>> /\ Options' = Options /\ Of(p)' = Of(p)
      /\ src' = [src EXCEPT ![w][f] = t]
  BY DEF EditFile, Options, Of
<1>2. Pins \in Files /\ Pins \in Inputs /\ Options[p].worktree \in Worktrees
  BY OptionsType, InstanceAssumption DEF Inputs, Option
<1>3. during[p][Pins] \subseteq during'[p][Pins]
  BY <1>2 DEF EditFile, TypeOK
<1>4. Options[p].rewrite /\ pc[p] \in InSnapshot => Text(p, Pins)' = Text(p, Pins)
  BY <1>1, <1>2 DEF EditFile, Text, TypeOK
<1>5. RewriteOf(p)'
  BY <1>1, <1>4 DEF WayOf, RewriteOf, PinnedWith, KeptOf, InSnapshot
<1>6. PlainOf(p)'
  BY <1>1 DEF WayOf, PlainOf
<1>7. PinReported(p) => PinReported(p)'
  BY <1>1, <1>3 DEF PinReported, Tree
<1> QED
  BY <1>1, <1>5, <1>6, <1>7 DEF WayOf, Remote, HasMeta, Tree

(* Nor do the commands.                                                    *)
LEMMA CommandPins ==
  ASSUME TypeOK, NEW p \in Procs, AcquireLock(p) \/ Leave(p) \/ BeginSync(p), NEW q \in Procs, WayOf(q)
  PROVE  WayOf(q)'
<1>1. UNCHANGED <<src, commits, remote, cache, scenario>> /\ Options' = Options /\ Of(q)' = Of(q)
      /\ Text(q, Pins)' = Text(q, Pins)
  BY DEF AcquireLock, Leave, BeginSync, counters, Options, Of, Text
<1>2. CASE pc'[q] \in {"idle", "ready", "list"} /\ loc'[q].outcome = "none"
  BY <1>2, OffTheWay
<1>3. CASE /\ pc'[q] = pc[q] \/ (pc[q] \in {"idle", "ready"} /\ pc'[q] \in {"idle", "ready"})
           /\ loc'[q] = loc[q] /\ during'[q] = during[q] /\ held'[q] = held[q]
  <2>1. RewriteOf(q)' /\ PlainOf(q)'
    BY <1>1, <1>3 DEF WayOf, RewriteOf, PlainOf, PinnedWith, KeptOf
  <2>2. PinReported(q) => PinReported(q)'
    BY <1>1, <1>3 DEF PinReported, Tree
  <2> QED
    BY <1>1, <1>3, <2>1, <2>2 DEF WayOf, Remote, HasMeta, Tree
<1>4. CASE AcquireLock(p)
  BY <1>3, <1>4 DEF AcquireLock, Goto, history, TypeOK
<1>5. CASE Leave(p) \/ BeginSync(p)
  BY <1>2, <1>3, <1>5 DEF Leave, BeginSync, Goto, history, TypeOK, Locals
<1> QED
  BY <1>4, <1>5

(* Every step keeps the invariant.                                         *)
LEMMA PinStep ==
  ASSUME TypeOK, LockInv, TextInv, ClonedInv, SafeInv, PinInv, [Next]_vars
  PROVE  PinInv'
<1>1. scenario' = scenario /\ Options' = Options /\ scenario.procs \subseteq Procs
  BY Actors
<1> SUFFICES ASSUME PinEnv PROVE PinInv'
  BY <1>1 DEF PinInv, PinEnv, SafeEnv, OneLock, NoLinks, NoReset
<1>2. /\ CommitPins /\ TrackInv /\ \A c \in Caches : MetaPins(cache[c])
      /\ \A p \in scenario.procs : SavedOf(p)
      /\ \A p \in Procs : WayOf(p)
  BY DEF PinInv
<1>3. /\ CommitsOk /\ (\A c \in Caches : CloneOk(cache[c])) /\ \A p \in Procs : ProcessInv(p)
      /\ OneLock /\ NoLinks /\ NoReset /\ "race" \notin scenario.env
  BY DEF PinEnv, SafeEnv, SafeInv
<1>4. ASSUME UNCHANGED <<cache, commits, remote>>, \A p \in Procs : WayOf(p)'
      PROVE  PinInv'
  BY <1>1, <1>2, <1>4 DEF PinInv, CommitPins, TrackInv, MetaPins, SavedOf, HasMeta, Of, Remote
<1>5. ASSUME NEW w \in Worktrees, NEW f \in Files, NEW t \in Texts, EditFile(w, f, t)
      PROVE  PinInv'
  BY <1>2, <1>3, <1>4, <1>5, EditPins DEF EditFile
<1>6. ASSUME NEW p \in scenario.procs, AcquireLock(p) \/ Leave(p) \/ BeginSync(p)
      PROVE  PinInv'
  <2>1. UNCHANGED <<cache, commits, remote>> /\ p \in Procs
    BY <1>1, <1>6 DEF AcquireLock, Leave, BeginSync
  <2> QED
    BY <1>2, <1>4, <1>6, <2>1, CommandPins
<1>7. ASSUME NEW p \in scenario.procs, Snapshot(p)
      PROVE  PinInv'
  <2>1. p \in Procs /\ Options[p].cache \in Caches /\ SnapshotEffect(p) /\ ~Options[p].reset
    BY <1>1, <1>3, <1>7, OptionsType, SnapshotStep DEF Option, NoReset
  <2>2. OwnInv(p) /\ PinOwn(p)
    BY <1>2, <1>3, <2>1 DEF OwnInv, ProcessInv, PinOwn, Of
  <2>3. PinOwn(p)'
    BY <1>2, <1>3, <1>7, <2>1, <2>2, SnapshotPins
  <2>4. \A q \in Procs : WayOf(q)'
    BY <1>2, <1>3, <1>7, <2>1, <2>3, OthersPins DEF PinOwn
  <2>5. TrackInv' /\ (\A q \in Procs : Remote(q) # 0 => Remote(q)' # 0) /\ CommitPins'
    BY <1>2, <1>7, <2>1, <2>2, BranchesStay, CommitsArePinned
  <2>6. \A c \in Caches : c # Options[p].cache => cache'[c] = cache[c]
    BY <2>1 DEF SnapshotEffect, CacheEffect
  <2>7. \A c \in Caches : MetaPins(cache'[c])
    <3>1. MetaPins(cache'[Options[p].cache])
      BY <1>1, <2>3 DEF PinOwn, Of, MetaPins
    <3> QED
      BY <1>2, <2>6, <3>1 DEF MetaPins
  <2>8. ASSUME NEW q \in scenario.procs
        PROVE  SavedOf(q)'
    <3>1. q \in Procs /\ Options[q].cache \in Caches
      BY <1>1, OptionsType DEF Option
    <3>2. CASE Options[q].cache = Options[p].cache
      <4>1. Options[q].branch = Options[p].branch
        BY <1>3, <3>2 DEF OneLock
      <4> QED
        BY <1>1, <2>3, <3>2, <4>1 DEF PinOwn, SavedOf, HasMeta, Of, Remote
    <3>3. CASE Options[q].cache # Options[p].cache
      <4>1. Of(q)' = Of(q)
        BY <1>1, <2>6, <3>1, <3>3 DEF Of
      <4> QED
        BY <1>2, <2>5, <3>1, <4>1 DEF SavedOf, HasMeta
    <3> QED
      BY <3>2, <3>3
  <2> QED
    BY <1>1, <2>4, <2>5, <2>7, <2>8 DEF PinInv, MetaPins
<1>8. CASE UNCHANGED vars
  <2>1. ASSUME NEW p \in Procs
        PROVE  RewriteOf(p)' /\ PlainOf(p)'
    <3>1. /\ UNCHANGED <<pc, loc>> /\ Of(p)' = Of(p) /\ Options[p]' = Options[p]
          /\ \A f \in Files : Text(p, f)' = Text(p, f)
      BY <1>8 DEF vars, Of, Options, Text
    <3>2. Pins \in Files /\ WayOf(p)
      BY <1>2, InstanceAssumption
    <3>3. PinnedWith(p)' <=> PinnedWith(p)
      BY <3>1, <3>2 DEF PinnedWith
    <3>4. KeptOf(p)' <=> KeptOf(p)
      BY <3>1, <3>2 DEF KeptOf
    <3>5. RewriteOf(p) /\ PlainOf(p)
      BY <3>2 DEF WayOf
    <3> QED
      BY <3>1, <3>3, <3>4, <3>5 DEF RewriteOf, PlainOf
  <2>2. \A p \in Procs : PinReported(p) => PinReported(p)'
    BY <1>8 DEF vars, PinReported, Tree
  <2>3. \A p \in Procs : WayOf(p)'
    BY <1>1, <1>2, <1>8, <2>1, <2>2 DEF vars, WayOf, HasMeta, Of, Remote, Tree
  <2> QED
    BY <1>4, <1>8, <2>3 DEF vars
<1> QED
  BY <1>5, <1>6, <1>7, <1>8 DEF Next

(* What a rewriting sync has published had the release pins of its time.   *)
THEOREM RewritesAreKept == Spec => []PinnedWhenAsked
<1>1. Init => PinInv
  <2> SUFFICES ASSUME Init PROVE PinInv
    OBVIOUS
  <2>1. ~HasMeta([meta |-> [f \in Inputs |-> NoEntry]])
    BY DEF HasMeta
  <2>2. /\ \A c \in Caches : /\ cache[c].meta = [f \in Inputs |-> NoEntry]
                            /\ \A b \in Branches : cache[c].tracking[b] = 0
        /\ \A p \in Procs : pc[p] = "idle" /\ loc[p].outcome = "none"
        /\ commits = <<>> /\ TypeOK
    BY TypeInit DEF Init, Locals
  <2>3. \A c \in Caches : ~HasMeta(cache[c]) /\ MetaPins(cache[c])
    BY <2>2 DEF HasMeta, MetaPins, NoEntry, Inputs
  <2>4. \A p \in Procs : WayOf(p)
    BY <2>2 DEF WayOf, RewriteOf, PlainOf
  <2>5. \A p \in scenario.procs : SavedOf(p)
    BY <2>2, <2>3, OptionsType, InstanceAssumption DEF SavedOf, Of, Option, TypeOK, Scenario
  <2> QED
    BY <2>2, <2>3, <2>4, <2>5 DEF PinInv, CommitPins, TrackInv
<1>2. IInv /\ PinInv /\ [Next]_vars => PinInv'
  BY PinStep DEF IInv
<1>3. PinInv => PinnedWhenAsked
  BY DEF PinInv, PinEnv, WayOf, PinReported, PinnedWhenAsked
<1> QED
  BY <1>1, <1>2, <1>3, Inductive, PTL DEF Spec

=============================================================================
