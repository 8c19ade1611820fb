---------------------------- MODULE MCExitOnSync ----------------------------
(* Instances of ExitOnSync for TLC. *)
EXTENDS ExitOnSync

CONSTANTS p1, p2

Scenario(kinds, packages, r, f) ==
  [env |-> kinds, pkgs |-> packages, runs |-> r, faults |-> f]

(* Two invocations, the first of which the user may interrupt anywhere. *)
Interrupted == Scenario({"leftover", "interrupt"}, {p1}, 2, 0)

(* Two invocations with a failure the exit decision is safe against. *)
Again == Scenario({"repoerr", "annotate", "leftover"}, {p1}, 2, 1)

(* The first invocation, with two packages. *)
First == Scenario({}, {p1, p2}, 1, 0)

(* Everything that can go wrong, in one invocation. *)
Anything == Scenario(EnvKinds, {p1}, 1, 1)

(* The exit check as it really runs: under a manager that does not wait    *)
(* for the Localbuild, in an invocation after one that was interrupted.    *)
Early == Scenario({"early", "interrupt"}, {p1}, 2, 0)

(* Of the embedded packages alone: with failing passes, and from caches    *)
(* that trail.                                                             *)
EarlyFailures == Scenario({"early", "interrupt", "repoerr"}, {}, 2, 1)
CachedCore == Scenario({"lag", "early", "interrupt", "annotate"}, {}, 2, 1)

Safety == {Interrupted, Again, First, Anything, Early, EarlyFailures, CachedCore}

(* Failures after which a run still comes to its end. *)
FailThenAgain == Scenario({"repoerr", "pkgerr", "apierr"}, {p1}, 2, 1)

(* Caches that trail the API server. *)
Trailing == Scenario({"lag"}, {p1}, 1, 0)

Liveness == {FailThenAgain, Trailing}

(* Nothing goes wrong; the command line is simply run again. *)
Rerun == {Scenario({}, {p1}, 2, 0)}
=============================================================================
