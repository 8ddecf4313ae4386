SPECIFICATION MCSpec
CONSTANTS
  Preload = 2
  Matching = {1, 2, 4, 5}
  MaxPost = 5
  MaxUnstored = 2
  Feeds <- MCFeeds
  Things = {1, 2}
  SelfPosts = {1}
  OptionSets <- MCOptionSets
  ThingTTL = 1
  CleanInterval = 1
  Batch = 2
  Table = {1, 2, 3, 4}
  SentIDs = {1, 2}
  Presses <- MCPresses
  MaxUps = 3
  BaseTop = 1
  BaseOf = 4
  Scale = 4
  Members = 4
  Subreddits <- MCSubreddits
  Liked <- MCLiked
  Related <- MCRelated
  Interval = 1
  MaxShown = 1
  MaxRating = 1
INVARIANTS VendorsInvariant SplitsAtShare
PROPERTIES Remembers Suggests
CHECK_DEADLOCK FALSE
