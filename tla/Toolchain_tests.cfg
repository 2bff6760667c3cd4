CONSTANTS
  Sizes <- MCSizesWithOpen
  TestSizes <- MCOpenSizes
SPECIFICATION FairSpec
INVARIANT TestsCanComplete
