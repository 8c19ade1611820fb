SPECIFICATION Spec
CONSTANTS
  sync1 = sync1
  sync2 = sync2
  work = work
  work2 = work2
  clone = clone
  clone2 = clone2
  main = main
  other = other
  kust = kust
  pins = pins
  app = app
  lib = lib
  none = none
  t1 = t1
  t2 = t2
  link = link
  Procs = {sync1, sync2}
  Worktrees = {work, work2}
  Caches = {clone, clone2}
  Branches = {main, other}
  Files = {kust, pins, app, lib}
  Kustomizations = {kust}
  Pins = pins
  Texts = {none, t1, t2, link}
  NoFile = none
  LinkTo <- OneLink
  Scenarios <- TwoBranches
INVARIANTS OwnPush
