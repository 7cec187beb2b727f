SPECIFICATION RetrySpec
CONSTANTS
  g1 = g1
  g2 = g2
  t1 = t1
  t2 = t2
  DefaultGraph = DefaultGraph
  NULL = NULL
  Graphs <- MCGraphs
  Triples <- MCOneTriple
  Docs <- MCOrderlyDocs
  Addresses <- MCOrderlyAddresses
  GraphOf <- MCGraphOf
  IdSpace = 2
  LongSpace = 4
  Seeds = {1}
  MaxAttempts = 2
  CountSpace = 1
  StorageFaults = {"logged"}
  WriteThrough = FALSE
PROPERTY NewGraphEventually
PROPERTY EveryHandlerReturns
