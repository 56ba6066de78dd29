SPECIFICATION FairSpec
CONSTANTS
  KeywordsMin = 2
  KeywordsMax = 3
  AttemptTimeout = 2
  Budget = 3
  Texts <- MCTexts
  Trim <- MCTrim
  Lower <- MCLower
  Replies <- MCReplies
  FeedItems <- MCFeedItems
  Since = 1
  Stored = {"old"}
  CommonPaths = {"/rss", "/feed", "/atom.xml"}
  Pages <- MCPages
  Addresses = {"public", "private"}
  Public = {"public"}
INVARIANTS TypeOK CallsEndInTime NoSecondPurchase RepliesAreSane SearchIsSound
PROPERTIES CallEnds
CHECK_DEADLOCK FALSE
