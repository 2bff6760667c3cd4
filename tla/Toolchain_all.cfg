CONSTANTS
  Sizes <- MCSizes
  TestSizes <- MCTestSizes
SPECIFICATION FairSpec
INVARIANTS FoundAreMinimal NoTwoAlike NothingMissed
INVARIANTS CompletedIsForbidden TestsCanComplete
PROPERTY Ends
