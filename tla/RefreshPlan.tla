----------------------------- MODULE RefreshPlan -----------------------------
(***************************************************************************)
(* Which Argo CD applications a change of files concerns.  `stacks sync`   *)
(* builds an index of the applications there are, by a walk from the path  *)
(* of each over the kustomizations of the worktree, and looks the changed  *)
(* files up in it.  Argo CD renders an application from a commit; what it  *)
(* then depends on is here the reference for the index.                    *)
(*                                                                         *)
(* A tree (a worktree or a commit) gives each file a text, or NoFile.  The *)
(* text of a kustomization says what it refers to.                         *)
(***************************************************************************)
EXTENDS Naturals, Sequences, FiniteSets

CONSTANTS
  Root,           \* the root application
  Apps,           \* the applications it may define
  Files, Dirs,    \* the paths of the repository
  Texts, NoFile,  \* what a file may hold, and a file that is not there
  PathOf,         \* the source path of each application
  Holds,          \* the manifests under each directory
  Kustomization,  \* the kustomization of a directory that is made for one
  Refs,           \* the paths that a text of a kustomization refers to
  Defines,        \* the application that a manifest defines
  Overlay         \* the files of the overlay of the root application

Units == Apps \cup {Root}
Paths == Files \cup Dirs
Trees == [Files -> Texts \cup {NoFile}]

ASSUME LayoutAssumption ==
  /\ Root \notin Apps /\ NoFile \notin Texts /\ Files \cap Dirs = {} /\ IsFiniteSet(Files)
  /\ PathOf \in [Units -> Paths] /\ Holds \in [Dirs -> SUBSET Files]
  /\ DOMAIN Kustomization \subseteq Dirs /\ \A d \in DOMAIN Kustomization : Kustomization[d] \in Holds[d]
  /\ \A d \in DOMAIN Kustomization : Refs[Kustomization[d]] \in [Texts -> Seq(Paths)]
  /\ DOMAIN Defines \subseteq Files /\ \A f \in DOMAIN Defines : Defines[f] \in Apps
  /\ \A d \in DOMAIN Kustomization : Kustomization[d] \notin DOMAIN Defines
  /\ Overlay \subseteq Files

Present(tree, f) == tree[f] # NoFile
Manifests(tree, d) == {f \in Holds[d] : Present(tree, f)}
Exists(tree, p) == IF p \in Files THEN Present(tree, p) ELSE Manifests(tree, p) # {}
(* Without its kustomization, a directory is one of manifests.             *)
Kustomized(tree, d) == d \in DOMAIN Kustomization /\ Present(tree, Kustomization[d])

----------------------------------------------------------------------------
(* The index *)

(* In the place of a path that is referred to and is not there. *)
Missing == "missing"

(* Mutant: the walk does not follow the references of a kustomization that *)
(* another one refers to.                                                  *)
IndexOnce(tree, a) ==
  LET path == PathOf[a]
      k == Kustomization[path]
      below == {Refs[k][tree[k]][i] : i \in DOMAIN Refs[k][tree[k]]}
  IN IF Kustomized(tree, path) THEN {k} \cup (below \cap Files) ELSE Manifests(tree, path)

(* addKustomizeDependencies: of a place in the walk, the first part is the *)
(* paths left to be looked at, the second the kustomizations that have been *)
(* read.                                                                   *)
Places == Seq(Paths) \X SUBSET Files
Index(tree, a) ==
  LET walk[at \in Places] ==
        LET todo == at[1]
            seen == at[2]
            p == Head(todo)
            rest == Tail(todo)
            k == Kustomization[p]
        IN IF todo = <<>> THEN {}
           ELSE IF ~Exists(tree, p) THEN {Missing}
           ELSE IF p \in Files THEN {p} \cup walk[<<rest, seen>>]
           ELSE IF ~Kustomized(tree, p) THEN Manifests(tree, p) \cup walk[<<rest, seen>>]
           ELSE IF k \in seen THEN walk[<<rest, seen>>]
           ELSE {k} \cup walk[<<Refs[k][tree[k]] \o rest, seen \cup {k}>>]
  IN walk[<<<<PathOf[a]>>, {}>>]

(* buildApplicationDependencyIndex, of the applications in live. *)
Indexable(tree, live) == \A a \in live : Missing \notin Index(tree, a)

(* parseApplicationName *)
Names(tree, fs) == {Defines[f] : f \in {g \in fs \cap DOMAIN Defines : Present(tree, g)}}

(* planAffectedApplications *)
Affected(tree, live, changed) ==
  LET changedNames == Names(tree, changed)
      exact == [a \in live |-> Index(tree, a)]
  IN {a \in live :
        \/ a = Root /\ changed \cap Overlay # {}
        \/ a \in changedNames
        \/ exact[a] \cap changed # {}
        \/ Names(tree, exact[a]) \cap changedNames # {}}

----------------------------------------------------------------------------
(* What Argo CD makes of a commit *)

Uses(tree, p) ==
  IF p \in Files \/ ~Exists(tree, p) THEN {}
  ELSE IF ~Kustomized(tree, p) THEN Manifests(tree, p)
  ELSE LET k == Kustomization[p] IN {k} \cup {Refs[k][tree[k]][i] : i \in DOMAIN Refs[k][tree[k]]}

(* kustomize refuses references that lead in a circle.                     *)
NoCircle(tree) ==
  \A ds \in (SUBSET Dirs) \ {{}} : \E d \in ds : Uses(tree, d) \cap ds = {}
Reached(tree, a) ==
  LET below[p \in Paths] == {p} \cup UNION {below[q] : q \in Uses(tree, p)}
  IN below[PathOf[a]]
(* A reference to nothing is an error of kustomize. *)
Builds(tree, a) == \A p \in Reached(tree, a) : Exists(tree, p)
Rendered(tree, a) == [f \in Reached(tree, a) \cap Files |-> tree[f]]
SameRendering(tree, other, a) == tree = other \/ Rendered(tree, a) = Rendered(other, a)
Children(tree) == Names(tree, Reached(tree, Root) \cap Files)
=============================================================================
