SPECIFICATION FairSpec
CONSTANTS
  Items <- MCItems
  Names <- MCNames
  RepoNames <- MCRepoNames
  Scenarios <- MCScenarios
INVARIANTS TypeOK ReadyMeansWon
PROPERTIES WinnerStays EventuallyWon
