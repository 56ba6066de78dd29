SPECIFICATION Spec
CONSTANTS
  s1 = s1
  s2 = s2
  i1 = i1
  i2 = i2
  i3 = i3
  Jobs = {j1, j2}
  Sources <- MCSources
  FeedOf <- MCFeedOf
  Concurrency = 2
  MaxArticles <- MCNoCap
  MaxTicks = 2
  Faults = {"panic"}
INVARIANTS StaysUp
