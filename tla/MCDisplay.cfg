SPECIFICATION FairSpec
CONSTANTS
  NetworkDepth = 2
  UiDepth = 1
CONSTRAINT WifiFirst
INVARIANTS TypeOK FlagsTrue NetworkTold
PROPERTIES FollowsPeer NetworkFollowed
