SPECIFICATION Spec
CONSTANTS
  g1 = g1
  g2 = g2
  t1 = t1
  t2 = t2
  DefaultGraph = DefaultGraph
  NULL = NULL
  Graphs <- MCGraphs
  Triples <- MCTriples
  Docs <- MCDocs
  Addresses <- MCAddresses
  GraphOf <- MCGraphOf
  IdSpace = 2
  LongSpace = 4
  Seeds = {1}
  MaxAttempts = 2
  CountSpace = 2
  StorageFaults = {"logged"}
  WriteThrough = TRUE
INVARIANT NewGraphIsReadable
