-------------------------- MODULE MCStacksSnapshot --------------------------
(* Instances of StacksSnapshot for TLC. *)
EXTENDS StacksSnapshot, TLC

CONSTANTS sync1, sync2,        \* the processes
          work, work2,         \* worktrees
          clone, clone2,       \* cache directories
          main, other,         \* branches
          kust, pins, app, lib,  \* files: the first two are inputs of the rewrite
          none, t1, t2, link   \* contents: the last one is a link to lib

OneLink == link :> lib

(* `stacks sync` of a worktree through a cache to main. *)
Sync(w, c) == [worktree |-> w, cache |-> c, branch |-> main,
               locks |-> TRUE, reset |-> FALSE, rewrite |-> FALSE]
Rewrites(o) == [o EXCEPT !.rewrite = TRUE]
Resets(o) == [o EXCEPT !.reset = TRUE]

(* The worktrees ws have files of fs with texts of ts, another worktree is  *)
(* one file that never changes.                                             *)
Holding(ws, fs, ts) == [w \in Worktrees |-> [f \in Files |->
  IF w \in ws THEN (IF f \in fs THEN ts ELSE {none}) ELSE {IF f = app THEN t1 ELSE none}]]

Case(o1, o2, holding, kinds, e, s, f) ==
  [procs |-> Procs, options |-> sync1 :> o1 @@ sync2 :> o2, texts |-> holding,
   env |-> kinds, edits |-> e, syncs |-> s, faults |-> f]
Alone(c) == [c EXCEPT !.procs = {sync1}]

(* One `sync --watch --seed-images`. *)
Watcher == Alone(Case(Rewrites(Sync(work, clone)), Sync(work, clone),
  Holding({work}, {kust, pins}, {none, t1, t2}), {"fail", "lostack"}, 2, 3, 2))

(* A sync with and one without the rewrite, with the default cache. *)
SameCache == Case(Rewrites(Sync(work, clone)), Sync(work, clone),
  Holding({work}, {kust, pins}, {none, t1}), {"fail", "lostack"}, 2, 3, 1)

(* Two users, each with a worktree and a cache. *)
TwoCaches == Case(Sync(work, clone), Sync(work2, clone2),
  Holding(Worktrees, {app}, {none, t1, t2}), {"fail", "lostack"}, 1, 3, 1)

(* A sync, and one with --reset-local-history, of one worktree and cache;   *)
(* one file has two texts, so that what a failed one has added may differ   *)
(* from the branch.                                                         *)
ResetsSameCache == Case(Sync(work, clone), Resets(Sync(work, clone)),
  [Holding({work}, {app, lib}, {none, t1}) EXCEPT ![work][app] = {none, t1, t2}],
  {"fail"}, 1, 3, 2)

(* The history of the branch is replaced from another cache. *)
Replaced == Case(Sync(work, clone), Resets(Sync(work2, clone2)),
  Holding(Worktrees, {app, lib}, {none, t1}), {}, 0, 3, 0)

(* `sync --reset-local-history` with the rewrite, again and again. *)
ResetsAndRewrites == Alone(Case(Resets(Rewrites(Sync(work, clone))), Sync(work, clone),
  Holding({work}, {kust, pins}, {none, t1}), {"fail"}, 2, 3, 1))

Disciplined == {Watcher, SameCache, TwoCaches, ResetsSameCache, ResetsAndRewrites, Replaced}

(* Two branches through the same cache. *)
TwoBranches == {Case(Sync(work, clone), [Sync(work2, clone) EXCEPT !.branch = other],
  Holding(Worktrees, {app, lib}, {none, t1}), {}, 0, 2, 0)}
=============================================================================
