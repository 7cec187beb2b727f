SPECIFICATION FairSpec
CONSTANTS
  NULL = NULL
  Wildcard = Wildcard
  Types <- MCTypes
  Names <- MCNames
  Headers <- MCHeaders
  Menus <- MCMenus
  GraphFormats <- MCGraphFormats
  ResultsFormats <- MCResultsFormats
  Requests <- MCRequests
  CountSpace = 2
  Depth = 4
INVARIANTS TypeOK ChosenIsBest AcceptIsHonoured ArgumentGoesFirst DescriptionIsNotRefused OnlyAcceptEndsProcess
PROPERTIES ImplementsNegotiation EveryRequestEnds
CHECK_DEADLOCK FALSE
