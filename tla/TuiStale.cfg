CONSTANTS
  MaxListing = 2
  MaxMount = 1
SPECIFICATION FairSpec
PROPERTIES FollowsItsOwn
CHECK_DEADLOCK FALSE
