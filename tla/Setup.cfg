SPECIFICATION FairSpec
CONSTANTS
  Scenarios <- Setups
INVARIANTS TypeOK FlagsMatch PasswordsAgree TokenIsCurrent ExitMeansRotated
PROPERTIES EventuallyReady
CHECK_DEADLOCK FALSE
