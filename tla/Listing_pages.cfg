SPECIFICATION FairSpec
CONSTANTS
  Keys <- MCKeys
  Queries <- MCQueries
  None = None
  MaxChanges = 1
INVARIANTS TypeOK ItemsAscend SteadyKeysListed
PROPERTY ListingEnds
CHECK_DEADLOCK FALSE
