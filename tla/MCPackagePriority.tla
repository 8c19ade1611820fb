-------------------------- MODULE MCPackagePriority --------------------------
(* Constants of the instances of PackagePriority. *)
EXTENDS PackagePriority

MCItems == {"a", "b", "c"}
MCNames == {"p1", "p2", "p3"}
MCRepoNames == {"r1", "r2", "r3"}

Dirs(list) == [i \in DOMAIN list |-> [item |-> list[i], kind |-> "dir"]]
File(item) == <<[item |-> item, kind |-> "file"]>>

Apart == [a |-> "p1", b |-> "p2", c |-> "p3"]
Same == [a |-> "p1", b |-> "p1", c |-> "p1"]
OwnRepos == [a |-> "r1", b |-> "r2", c |-> "r3"]
OneRepo == [a |-> "r1", b |-> "r1", c |-> "r1"]

Setting(ls, n, r, e, l, f) ==
  [lines |-> ls, name |-> n, repo |-> r, env |-> e, lag |-> l, faults |-> f]

A == Dirs(<<"a">>)
AB == Dirs(<<"a", "b">>)

MCScenarios ==
  { Setting(<<A, AB>>, Same, OwnRepos, {"interrupt"}, {}, 0),
    Setting(<<A, AB>>, Apart, OneRepo, {"interrupt"}, {}, 0),
    Setting(<<AB>>, Apart, OneRepo, {"pkgerr", "apierr"}, {}, 1),
    Setting(<<A, A \o File("c") \o File("b")>>, Apart, OneRepo, {}, {}, 0),
    Setting(<<AB>>, Apart, OneRepo, {}, {"pkg"}, 0),
    Setting(<<A, AB>>, Apart, OneRepo, {}, {"repo"}, 0),
    Setting(<<A, AB>>, Apart, OwnRepos, {}, {"app"}, 0),
    Setting(<<AB>>, Apart, OwnRepos, {"report"}, {}, 1) }
=============================================================================
