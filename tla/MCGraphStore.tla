---------------------------- MODULE MCGraphStore ----------------------------
(***************************************************************************)
(* Small instances of GraphStore: two graphs and two statements, every way *)
(* to address a graph, and documents for every way a parser can behave.    *)
(***************************************************************************)
EXTENDS GraphStore, TLC

CONSTANTS g1, g2, t1, t2

MCGraphs == {g1, g2}
MCTriples == {t1, t2}

\* Identifiers 0 and 1; with MaxAttempts = 2 both can be taken.
MCGraphOf == (0 :> g1) @@ (1 :> g2)

Addr(graph, path, dflt) == [graph |-> graph, path |-> path, dflt |-> dflt]
MCAddresses ==
  {Addr(NULL, g1, FALSE), Addr(g2, g1, FALSE),
   Addr(NULL, NULL, TRUE), Addr(NULL, g1, TRUE), Addr(g1, NULL, TRUE), Addr(NULL, NULL, FALSE)}

\* Clean documents, empty ones, a message before, after or between the
\* statements, at each level.
MCDocs ==
  {<<>>, <<t1, t2>>, <<"error", t2>>, <<t1, "warn">>, <<t1, "fatal", t2>>}

\* For the run with a buffered storage: one statement, and a document whose
\* parser gives up, after which the process stops.
MCOneTriple == {t1}
MCOrderlyDocs == {<<>>, <<t1>>, <<"fatal", t1, "fatal">>}
MCOrderlyAddresses == {Addr(g1, NULL, FALSE), Addr(NULL, NULL, FALSE)}
=============================================================================
