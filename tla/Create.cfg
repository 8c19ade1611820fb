SPECIFICATION FairSpec
CONSTANTS
  w1 = w1
  w2 = w2
  Workers = {w1, w2}
  Scenarios <- Creates
INVARIANTS TypeOK SuccessIsComplete RecreateIsFresh StrictIsClean OthersUntouched
PROPERTIES DevicesStay EventuallyReturns
CHECK_DEADLOCK FALSE
