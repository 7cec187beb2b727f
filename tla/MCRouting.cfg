SPECIFICATION FairSpec
CONSTANTS
  NULL = NULL
  FREED = FREED
  Table <- MCTable
  Methods <- MCMethods
  Paths <- MCPaths
INVARIANTS
  TypeOK
  AnsweredByFirst
  GlobIsOwn
  BooksFirst
  AllowIsTrue
PROPERTY RedirectsEnd
