CONSTANTS
  MaxListing = 1
  MaxMount = 2
SPECIFICATION FairSpec
INVARIANTS TypeOK QuitMeansGone
PROPERTIES AbortedListingEnds MountingEnds
CHECK_DEADLOCK FALSE
