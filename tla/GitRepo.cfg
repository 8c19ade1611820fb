SPECIFICATION FairSpec
CONSTANTS
  f1 = f1
  f2 = f2
  Files = {f1, f2}
  Scenarios <- SafetyAndLiveness
INVARIANTS TypeOK ReadyMeansPushed ReportsPublished CommitIsComplete
PROPERTIES AcceptedIsPublished EventuallyReady
