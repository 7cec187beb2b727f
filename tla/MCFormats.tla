------------------------------ MODULE MCFormats -----------------------------
(***************************************************************************)
(* Instances of Formats.                                                   *)
(***************************************************************************)
EXTENDS Formats

CONSTANT Depth    \* the length of the longer Accept headers

Offer(d, t, n) == [type |-> t, q |-> n, desc |-> d]

\* As in Redland, a type of low quality, two types of one format, one type of
\* two formats.
MCGraphFormats ==
  <<Offer("ntriples", "text/plain", 1), Offer("rdfxml", "application/rdf+xml", 10),
    Offer("html", "application/xhtml+xml", 10), Offer("html", "text/html", 10)>>
MCResultsFormats ==
  <<Offer("xml", "application/xml", 10), Offer("csv", "text/plain", 6),
    Offer("html", "text/html", 10)>>
MCMenus == {PageTypes, MCGraphFormats, MCResultsFormats}

MCTypes == {o.type : o \in UNION {Range(m) : m \in MCMenus}} \cup {"image/png"}
MCNames == {o.desc : o \in UNION {Range(m) : m \in MCMenus}}
q(value, width) == [value |-> value, width |-> width]
Params == {NULL, q(0, 1), q(0, 3), q(50, 3)}
Element(t, p) == [type |-> t, param |-> p]

\* One element of any kind or two of many.
MCShortHeaders ==
  LET any == {Element(t, p) : t \in MCTypes \cup {Wildcard}, p \in Params \cup {q(150, 3), q(4, 4)}}
                \cup {Element(NULL, NULL)}
      many == {Element(t, p) : t \in {"text/html", "text/plain", "image/png", Wildcard},
                               p \in {NULL, q(0, 3), q(50, 3)}} \cup {Element(NULL, NULL)}
  IN [1 .. 1 -> any] \cup [1 .. 2 -> many]

\* More elements, of four qualities.
MCLongHeaders ==
  LET few == {Element("text/html", q(0, 3)), Element("text/plain", NULL),
              Element("text/plain", q(50, 3)), Element(Wildcard, q(10, 3))}
  IN UNION {[1 .. n -> few] : n \in 3 .. Depth}

MCHeaders == MCShortHeaders \cup MCLongHeaders

\* Every handler with every short header, both loops with the long ones, and
\* every handler with every kind of name for the format.
MCRequests ==
  LET kinds == {<<"graphs", "GET", FALSE>>, <<"query", "GET", TRUE>>, <<"query", "GET", FALSE>>,
                <<"sparql", "GET", FALSE>>, <<"sparql", "POST", FALSE>>,
                <<"description", "GET", FALSE>>, <<"data", "GET", FALSE>>}
      with(k, f, h) ==
        [op |-> k[1], method |-> k[2], query |-> k[3], format |-> f, accept |-> h]
  IN {with(k, NULL, h) : k \in kinds, h \in MCShortHeaders \cup {NULL}}
     \cup {with(k, NULL, h) : k \in {<<"graphs", "GET", FALSE>>, <<"data", "GET", FALSE>>},
                             h \in MCLongHeaders}
     \cup {with(k, f, <<Element("image/png", NULL)>>) :
             k \in kinds, f \in {"rdfxml", "html", "text", "unsupported"}}
=============================================================================
