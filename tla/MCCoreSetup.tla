---------------------------- MODULE MCCoreSetup ----------------------------
(* Instances of CoreSetup for TLC. *)
EXTENDS CoreSetup

Call(recreates, given, static) == [recreate |-> recreates, flags |-> given, static |-> static]
Plain == Call(FALSE, 1, FALSE)
Static == Call(FALSE, 1, TRUE)
Other == Call(FALSE, 2, FALSE)
Anew == Call(TRUE, 2, TRUE)

Case(kinds, rs, f) == [env |-> kinds, runs |-> rs, faults |-> f]

Installs == Case({"api", "slow", "token", "status", "lag", "restart", "interrupt"}, <<Plain>>, 2)
Changes == Case({"api", "token", "status", "login", "lag", "restart", "read", "interrupt"}, <<Static, Static>>, 2)
Breaks == Case({"rotate", "restart", "argodown", "read", "interrupt"}, <<Static, Static>>, 2)
Repeats == Case({"unhealthy", "interrupt", "api", "early"}, <<Static, Plain, Anew>>, 2)
Flags == Case({"interrupt", "unhealthy", "api"}, <<Plain, Other, Anew>>, 2)

Setups == {Installs, Changes, Breaks, Repeats, Flags}
=============================================================================
