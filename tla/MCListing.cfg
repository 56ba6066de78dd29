SPECIFICATION Spec
CONSTANTS
  Tables = {"articles", "sources", "feeds", "feedArticles", "suggestions"}
  Rows = {1, 2, 3, 4}
  Stored = {1, 2}
  Info <- MCInfo
  Edits <- MCEdits
  RawParams <- MCRawParams
  RawFilters <- MCRawFilters
  RawPicks <- MCRawPicks
  IntMax = 31
  Int32Max = 15
  DefaultPageSize = 2
  MaxPageSize = 3
  SuggestionLimit = 2
  Window = 1
  MaxClock = 2
INVARIANTS TypeOK WalkIsExact TotalFitsPage
PROPERTIES RightPage SuggestionsAreHonest
CHECK_DEADLOCK FALSE
