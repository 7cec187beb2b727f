SPECIFICATION FairSpec
CONSTANTS
  NULL = NULL
  Messages <- MCMessages
  ServerName <- MCServerName
  DataPath <- MCDataPath
  InsertPath <- MCInsertPath
  DeletePath <- MCDeletePath
  GraphKey <- MCGraphKey
  DefaultKey <- MCDefaultKey
  ContentKey <- MCContentKey
  Stored <- MCStored
INVARIANTS TypeOK LoadsAsDeclared InsertsWhatWasSent GraphIsTheOneNamed LinkLeadsToGraph AbortsOnlyOnEmptyName
PROPERTY EveryMessageIsAnswered
CHECK_DEADLOCK FALSE
