------------------------ MODULE MCGitRepositorySync ------------------------
(* Instances of GitRepositorySync for TLC. *)
EXTENDS GitRepositorySync

Scenario(kinds, e, r, f) == [env |-> kinds, edits |-> e, runs |-> r, faults |-> f]

(* Any call of a pass before its report may fail, but status updates reach *)
(* the object: no other writer and no API failure.                         *)
FailingPasses == Scenario({"pass", "lostack", "delete", "annotate"}, 4, 2, 2)

(* Passes succeed; reports race with other writers and may be lost.        *)
LostReports == Scenario({"conflict", "status", "annotate"}, 4, 2, 2)

(* Everything but a push that Gitea does not accept. *)
AllButPush == Scenario(EnvKinds \ {"push", "foreign"}, 2, 2, 1)

(* Everything that can go wrong, once.        *)
Anything == Scenario(EnvKinds, 3, 2, 1)

SafetyAndLiveness == {FailingPasses, LostReports, AllButPush, Anything}

RejectedPush == {Scenario({"push"}, 3, 1, 1)}
=============================================================================
