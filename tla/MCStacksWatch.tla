---------------------------- MODULE MCStacksWatch ----------------------------
(* Instances of StacksWatch for TLC.  The repository is like that of the   *)
(* tests of the planner: the kustomization of the root application lists   *)
(* the manifests of two others; the first of these has a kustomization of  *)
(* its own, which refers to another, the second is a directory.            *)
EXTENDS StacksWatch, TLC

MCOrder == << "active", "app1", "app2", "extra", "kust1", "raw2", "shared" >>
MCFiles == {MCOrder[i] : i \in DOMAIN MCOrder}
MCDirs == {"overlay", "dir1", "dir2", "common"}

MCPathOf == "root" :> "overlay" @@ "a1" :> "dir1" @@ "a2" :> "dir2"
MCHolds == "overlay" :> {"active"} @@ "dir1" :> {"kust1"} @@ "dir2" :> {"raw2"} @@ "common" :> {"shared"}
MCKustomization == "overlay" :> "active" @@ "dir1" :> "kust1" @@ "common" :> "shared"
Always(paths) == [t \in {"t1", "t2", "t3"} |-> paths]
MCRefs == "active" :> ("t1" :> <<"app1">> @@ "t2" :> <<"app1", "app2">> @@ "t3" :> <<"app2">>)
  @@ "kust1" :> ("t1" :> <<"common">> @@ "t2" :> <<"common", "extra">> @@ "t3" :> <<"extra">>)
  @@ "shared" :> Always(<<>>)
MCDefines == "app1" :> "a1" @@ "app2" :> "a2"

(* The worktrees. *)
First == [f \in MCFiles |-> IF f = "extra" THEN "none" ELSE "t1"]
Both == [First EXCEPT !["active"] = "t2"]
Other == [First EXCEPT !["active"] = "t3"]
With(tree, f) == [tree EXCEPT ![f] = "t2"]
Added(tree) == [tree EXCEPT !["kust1"] = "t2", !["extra"] = "t1"]
Dangling == With(First, "kust1")

MCWorktrees ==
  [ grows |-> [first |-> First, next |-> {First, Added(First), With(Added(Both), "extra")}],
    fixed |-> [first |-> Both, next |-> {Both, With(Both, "shared"), With(With(Both, "raw2"), "app1")}],
    replaces |-> [first |-> First, next |-> {First, Other}],
    dangles |-> [first |-> First, next |-> {Both, Dangling}],
    idle |-> [first |-> First, next |-> {With(First, "shared"), With(First, "extra")}],
    small |-> [first |-> First, next |-> {First, With(First, "shared")}] ]

Case(kinds, m, w, e, o, f) ==
  [env |-> kinds, mode |-> m, worktree |-> w, edits |-> e, foreign |-> o, faults |-> f]

(* Edits between the syncs, and syncs that fail before their push.         *)
SyncsFail == Case({"fail"}, "affected", "grows", 2, 0, 1)
(* Edits at any time, that change no reference.                            *)
EditsAnytime == Case({"midsync", "unsynced"}, "affected", "fixed", 2, 0, 0)
AllReplaced == Case({"midsync"}, "all", "replaces", 2, 0, 0)
(* In mode "all", without an application that is removed.                  *)
AllKept == Case({"fail"}, "all", "small", 2, 0, 1)
(* A reference to nothing, and faults after the push.                      *)
RefreshFault == Case({"refresh", "timeout", "lostack", "vanish"}, "affected", "dangles", 1, 0, 1)
(* A commit of somebody else, and a file that no application uses.         *)
Foreign == Case({"timeout"}, "affected", "idle", 1, 1, 0)
NoRefresh == Case({"fail"}, "none", "small", 1, 1, 1)

Mixed == {SyncsFail, EditsAnytime, AllReplaced, AllKept, RefreshFault, Foreign, NoRefresh}

Midsync == {Case({"midsync"}, "affected", "small", 2, 0, 0)}
=============================================================================
