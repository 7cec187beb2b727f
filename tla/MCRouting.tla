------------------------------ MODULE MCRouting -----------------------------
(***************************************************************************)
(* Routing with the table that RedStore registers.                         *)
(***************************************************************************)
EXTENDS Routing

RedStore == INSTANCE RouteTable

MCTable == RedStore!RedStoreTable

MCMethods == {"GET", "HEAD", "POST", "PUT", "DELETE", "OPTIONS", "FOOBAR"}

\* A path of every row, with a slash or two more, with something more; one
\* nobody knows, an empty one and "*".
MCPaths ==
  {<<"/query">>, <<"/query", "/">>, <<"/query", "/", "/">>, <<"/sparql">>, <<"/sparql", "/">>,
   <<"/data">>, <<"/data", "/">>, <<"/data", "/", "g">>, <<"/data", "base", "/">>,
   <<"/insert">>, <<"/delete">>, <<"/graphs">>, <<"/load">>, <<"/">>, <<"/", "/">>,
   <<"/description">>, <<"/favicon.ico">>, <<"/robots.txt">>, <<"/other">>, <<>>, <<"*">>}

\* Every request has a row: the dispatcher's own answers are those for which
\* the last handler gets no memory.
ASSUME LastRowTakesAll ==
  \A method \in MCMethods, path \in MCPaths : Offered(Last(Table), method, path)

\* The hypothesis of GlobsAreOwn.
ASSUME TableIsApart == GlobsApart
=============================================================================
