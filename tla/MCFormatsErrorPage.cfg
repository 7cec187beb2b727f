SPECIFICATION FairSpec
CONSTANTS
  NULL = NULL
  Wildcard = Wildcard
  Types <- MCTypes
  Names <- MCNames
  Headers <- MCHeaders
  Menus <- MCMenus
  GraphFormats <- MCGraphFormats
  ResultsFormats <- MCResultsFormats
  Requests <- MCRequests
  CountSpace = 2
  Depth = 4
INVARIANT FailureIsAnswered
CHECK_DEADLOCK FALSE
