SPECIFICATION Spec
CONSTANTS
  u1 = u1
  u2 = u2
  c1 = c1
  c2 = c2
  Users = {u1, u2}
  Clients = {c1, c2}
  ClientUser <- MCOneEach
  Workers = {w1}
  FeedIds = {f1, f2}
  Articles = {a1}
  Sources = {s1}
  KeywordLists <- MCKeywordLists
  ArticleWords <- MCArticleWords
  FeedMaxPerUser = 2
  FeedKeywordsMin = 5
  MinMatches = 2
  RatioNum = 2
  RatioDen = 5
  Faults = {"db", "ai", "crash"}
  None = None
INVARIANTS TypeOK OneRowPerFeed NoTrivialMatch StrongMatchDelivered PollMatchesListUnlessRaced
PROPERTIES ReadIsFinal
SYMMETRY MCSymmetry
