SPECIFICATION FairSpec
CONSTANTS
  f1 = f1
  Files = {f1}
  Scenarios <- RejectedPush
PROPERTIES EventuallyPublished
