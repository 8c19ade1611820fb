SPECIFICATION Spec
CONSTANTS
  c1 = c1
  p1 = p1
  p2 = p2
  Core = {c1}
  Pkgs = {p1}
  Scenarios <- Rerun
INVARIANTS ExitMeansSynced
