-------------------------- MODULE SnapshotContract --------------------------
(***************************************************************************)
(* What a snapshot promises to those who call pushSnapshot, without cache, *)
(* clone, lock or metadata: it publishes only texts that its worktree had  *)
(* while it ran, and it reports success only if the branch has pointed to  *)
(* such a version since it began.                                          *)
(***************************************************************************)
CONSTANTS Procs, Worktrees, Branches, Files, Texts

VARIABLES
  worktree,   \* worktree[p]: the worktree that p publishes
  branch,     \* branch[p]: the branch it publishes to
  src,        \* the texts of the worktrees
  published,  \* the texts the branches point to
  open,       \* who is in a snapshot
  ok,         \* whose last snapshot was reported a success
  during,     \* the texts of each file of the worktree of p since its snapshot began
  seen        \* the versions the branch of p has had since then

commandLines == <<worktree, branch>>
vars == <<commandLines, src, published, open, ok, during, seen>>

Init ==
  /\ worktree \in [Procs -> Worktrees] /\ branch \in [Procs -> Branches]
  /\ src \in [Worktrees -> [Files -> Texts]]
  /\ \A b, c \in Branches : published[b] = published[c]
  /\ open = [p \in Procs |-> FALSE]
  /\ ok = [p \in Procs |-> FALSE]
  /\ during = [p \in Procs |-> [f \in Files |-> {}]]
  /\ seen = [p \in Procs |-> {}]

IsOf(version, p) == \A f \in Files : version[f] \in during[p][f]

Edit(w, f, t) ==
  /\ src' = [src EXCEPT ![w][f] = t]
  /\ during' = [p \in Procs |-> IF worktree[p] = w /\ open[p]
                                THEN [during[p] EXCEPT ![f] = @ \cup {t}] ELSE during[p]]
  /\ UNCHANGED <<commandLines, published, open, ok, seen>>

Begin(p) ==
  /\ ~open[p]
  /\ open' = [open EXCEPT ![p] = TRUE]
  /\ ok' = [ok EXCEPT ![p] = FALSE]
  /\ during' = [during EXCEPT ![p] = [f \in Files |-> {src[worktree[p]][f]}]]
  /\ seen' = [seen EXCEPT ![p] = {published[branch[p]]}]
  /\ UNCHANGED <<commandLines, src, published>>

(* The answer of Gitea may be lost: then the snapshot fails as it ends. *)
Publish(p) ==
  LET version == published'[branch[p]]
  IN /\ open[p]
     /\ IsOf(version, p)
     /\ published' = [published EXCEPT ![branch[p]] = version]
     /\ seen' = [q \in Procs |-> IF open[q] /\ branch[q] = branch[p]
                                 THEN seen[q] \cup {version} ELSE seen[q]]
     /\ open' \in {open, [open EXCEPT ![p] = FALSE]}
     /\ UNCHANGED <<commandLines, src, ok, during>>

End(p, success) ==
  /\ open[p]
  /\ success => \E version \in seen[p] : IsOf(version, p)
  /\ open' = [open EXCEPT ![p] = FALSE]
  /\ ok' = [ok EXCEPT ![p] = success]
  /\ UNCHANGED <<commandLines, src, published, during, seen>>

(* The process ends, and nobody looks at its last result any more. *)
Forget(p) ==
  /\ ~open[p]
  /\ ok' = [ok EXCEPT ![p] = FALSE]
  /\ UNCHANGED <<commandLines, src, published, open, during, seen>>

Next ==
  \/ \E w \in Worktrees, f \in Files, t \in Texts : Edit(w, f, t)
  \/ \E p \in Procs : \/ Begin(p) \/ Publish(p) \/ Forget(p)
                      \/ \E success \in BOOLEAN : End(p, success)

Spec == Init /\ [][Next]_vars

=============================================================================
