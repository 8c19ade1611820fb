--------------------------- MODULE MCStacksCreate ---------------------------
(* Instances of StacksCreate for TLC. *)
EXTENDS StacksCreate

CONSTANTS w1, w2

Run(recreates, stricts, slos, n, skips) ==
  [recreate |-> recreates, strict |-> stricts, slo |-> slos, size |-> n, skip |-> skips]
Plain == Run(FALSE, FALSE, FALSE, 1, {"azure", "argoinit"})
Fresh == Run(TRUE, TRUE, FALSE, 1, {"azure", "images"})
Larger == Run(FALSE, TRUE, TRUE, 2, {"kubeconfig"})
Lenient == Run(TRUE, FALSE, FALSE, 2, {"azure", "images", "argoinit"})

Case(kinds, p, rs, f) == [env |-> kinds, provider |-> p, runs |-> rs, faults |-> f]

(* A cluster that is not quite destroyed, and its devices.                 *)
Recreated == Case({"destroy", "show", "cleanup"}, "talos", <<Plain, Fresh, Plain>>, 3)
(* Any phase fails or is interrupted, and the command is run again.        *)
Again == Case({"phase", "interrupt", "tolerated", "switch"}, "talos", <<Plain, Plain, Larger>>, 2)
(* Everything, with and without --strict-access.                           *)
Strictly == Case(EnvKinds, "talos", <<Plain, Fresh, Larger>>, 2)
Leniently == Case(EnvKinds, "talos", <<Lenient, Plain, Lenient>>, 2)
OnKind == Case(EnvKinds, "kind", <<Plain, Fresh, Plain>>, 2)
KindPatched == Case({"destroy", "tolerated", "cleanup", "show"}, "kind", <<Plain, Lenient, Larger>>, 1)

Creates == {Recreated, Again, Strictly, Leniently, OnKind, KindPatched}
=============================================================================
