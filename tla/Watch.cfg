SPECIFICATION FairSpec
CONSTANTS
  Root = "root"
  Apps = {"a1", "a2"}
  Files <- MCFiles
  Dirs <- MCDirs
  Texts = {"t1", "t2", "t3"}
  NoFile = "none"
  PathOf <- MCPathOf
  Holds <- MCHolds
  Kustomization <- MCKustomization
  Refs <- MCRefs
  Defines <- MCDefines
  Overlay = {"active"}
  Order <- MCOrder
  Worktrees <- MCWorktrees
  Scenarios <- Mixed
INVARIANTS TypeOK RestMeansRefreshed
PROPERTIES SeenIsPublished SeenIsObserved
CHECK_DEADLOCK FALSE
