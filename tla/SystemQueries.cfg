SPECIFICATION Spec
CONSTANTS
  Records = {1, 2, 3}
  Present = {1, 2}
  PageSize = 1
  MaxChanges = 2
  Queries <- MCQueries
  Asks <- MCAsks
  Invalid = {3}
  Rows = 1
  NoList = NoList
INVARIANT ViewsAreLive
INVARIANT FoundIfAlwaysThere
INVARIANT FailuresStayApart
INVARIANT ListingsAreComplete
INVARIANT PagesFollowTheHub
