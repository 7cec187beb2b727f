------------------------------- MODULE Formats ------------------------------
(***************************************************************************)
(* The format of a response: the handlers that negotiate one, and the      *)
(* error pages, which negotiate another one.  What librdf delivers is a    *)
(* choice of the environment; which format is sent with which status code  *)
(* is the subject here.                                                    *)
(***************************************************************************)
EXTENDS Negotiate

CONSTANTS
  GraphFormats,    \* librdf_serializer_get_description
  ResultsFormats,  \* librdf_query_results_formats_get_description
  Requests,        \* what clients send: operation, arguments, Accept
  CountSpace       \* query_count is counted modulo this bound

\* A request: whether it has a query argument; NULL is no format argument
\* and no Accept header, or an empty one.
Request == [op : {"graphs", "query", "sparql", "description", "data"},
            method : {"GET", "POST"}, query : BOOLEAN,
            format : {NULL} \cup STRING, accept : {NULL} \cup Seq(Written)]

\* "text/plain,text/html,application/xhtml+xml"
PageTypes ==
  LET page(t) == [type |-> t, q |-> 10, desc |-> t]
  IN <<page("text/plain"), page("text/html"), page("application/xhtml+xml")>>

\* The defaults of format_graph_stream and format_bindings_query_result are
\* names of formats that Redland has.
ASSUME FormatsAssumption ==
  /\ {PageTypes, GraphFormats, ResultsFormats} \subseteq Menus
  /\ \E o \in Range(GraphFormats) : o.desc = "rdfxml"
  /\ \E o \in Range(ResultsFormats) : o.desc = "xml"
  /\ NULL \notin [desc : STRING \cup Names, type : STRING \cup Types]
  /\ Requests \subseteq Request /\ {r.accept : r \in Requests} \subseteq {NULL} \cup Headers
  /\ CountSpace \in Nat \ {0}

VARIABLES
  request,       \* the request in hand, or NULL
  at,            \* the function that negotiates; or "idle", "respond", "crashed"
  ready, chosen, \* the negotiation has returned, and what: NULL or format and type
  code,          \* the status code of the page being made
  response,
  query_count

handler_vars == <<request, at, ready, chosen, code, response, query_count>>
vars == <<negotiate_vars, handler_vars>>

\* The service description: at its own path, or a bare GET of /sparql.
Describes(r) ==
  r.op = "description" \/ (r.op = "sparql" /\ ~ r.query /\ r.method = "GET")

redstore_is_html_format(str) == str \in {"html", "text/html", "application/xhtml+xml"}
redstore_is_text_format(str) == str \in {"text", "text/plain"}

Init ==
  /\ NegotiateInit
  /\ request = NULL /\ at = "idle"
  /\ ready = FALSE /\ chosen = NULL
  /\ code = 200 /\ response = NULL
  /\ query_count = 0
-----------------------------------------------------------------------------
(* Negotiation by a handler                                                *)

Asking == at \in {"index", "page", "describe", "graph", "bindings"} /\ ~ ready

MenuAt == CASE at \in {"index", "page"} -> PageTypes
            [] at \in {"describe", "graph"} -> GraphFormats
            [] at = "bindings" -> ResultsFormats

DefaultAt == CASE at \in {"index", "page"} -> "text/plain"
               [] at = "describe" -> "text/html"
               [] at = "graph" -> "rdfxml"
               [] at = "bindings" -> "xml"

\* redstore_negotiate_string takes any name, redstore_negotiate_format looks
\* it up.
redstore_get_format_by_name(name) ==
  IF at \in {"index", "page"} THEN [desc |-> name, type |-> name]
  ELSE LET found == {k \in DOMAIN MenuAt : MenuAt[k].desc = name}
       IN IF found = {} THEN NULL ELSE [desc |-> name, type |-> MenuAt[Min(found)].type]

\* A list of types that is more than the wildcard; NULL is no header or an
\* empty one.
HasAccept == request.accept # NULL /\ request.accept # <<[type |-> Wildcard, param |-> NULL]>>

negotiate_by_name ==
  /\ Asking
  /\ request.format # NULL \/ ~ HasAccept
  /\ chosen' = redstore_get_format_by_name(IF request.format # NULL THEN request.format ELSE DefaultAt)
  /\ ready' = TRUE
  /\ UNCHANGED <<negotiate_vars, request, at, code, response, query_count>>

\* negotiate_by_accept that does not look for a format argument first.
AcceptGoesFirst ==
  /\ Asking
  /\ HasAccept
  /\ call(request.accept, MenuAt, IF at \in {"index", "page"} THEN "choose" ELSE "format")
  /\ UNCHANGED handler_vars

negotiate_by_accept ==
  /\ Asking
  /\ request.format = NULL /\ HasAccept
  /\ call(request.accept, MenuAt, IF at \in {"index", "page"} THEN "choose" ELSE "format")
  /\ UNCHANGED handler_vars

negotiate_returns ==
  /\ return
  /\ chosen' = IF best = NULL THEN NULL ELSE [desc |-> best.desc, type |-> best.type]
  /\ ready' = TRUE
  /\ UNCHANGED <<request, at, code, response, query_count>>
-----------------------------------------------------------------------------
(* The handlers                                                            *)

\* The function that negotiates next; what was chosen is not passed on.
Enter(place) == at' = place /\ ready' = FALSE /\ chosen' = NULL

redstore_page_new_with_message(c_) == Enter("page") /\ code' = c_ /\ UNCHANGED response

Answer(c_, t) ==
  /\ at' = "respond" /\ ready' = FALSE /\ chosen' = NULL
  /\ response' = [code |-> c_, type |-> t] /\ UNCHANGED code

\* strcmp of a NULL format.
Crash == at' = "crashed" /\ UNCHANGED <<ready, chosen, code, response>>

perform_query(r) ==
  \/ redstore_page_new_with_message(500) /\ UNCHANGED query_count
  \/ /\ query_count' = (query_count + 1) % CountSpace
     /\ \/ Enter("bindings") /\ UNCHANGED <<code, response>>
        \/ Enter("graph") /\ UNCHANGED <<code, response>>
        \/ \E c_ \in {500, 501} : redstore_page_new_with_message(c_)

\* The dispatcher has called a handler.  A GET of a graph, like the others,
\* may find nothing, or fail, and it may name no graph, or two.
begin(r) ==
  /\ request' = r
  /\ \/ r.op = "graphs" /\ Enter("index") /\ UNCHANGED <<code, response, query_count>>
     \/ r.op \in {"query", "sparql"} /\ r.query /\ perform_query(r)
     \/ r.op = "query" /\ ~ r.query /\ Answer(200, "text/html") /\ UNCHANGED query_count
     \/ /\ Describes(r)
        /\ Enter("describe") /\ UNCHANGED <<code, response, query_count>>
     \/ /\ r.op = "sparql" /\ ~ r.query /\ r.method # "GET"
        /\ redstore_page_new_with_message(400) /\ UNCHANGED query_count
     \/ /\ r.op = "data" /\ UNCHANGED query_count
        /\ \/ Enter("graph") /\ UNCHANGED <<code, response>>
           \/ \E c_ \in {400, 404, 500} : redstore_page_new_with_message(c_)
  /\ UNCHANGED negotiate_vars

\* The contexts are asked for after the negotiation; for a wildcard alone,
\* nothing has been negotiated then.
handle_graph_index ==
  /\ at = "index" /\ ready
  /\ \/ redstore_page_new_with_message(500)
     \/ chosen = NULL /\ Crash
     \/ /\ chosen # NULL
        /\ IF redstore_is_text_format(chosen.desc) THEN Answer(200, "text/plain")
           ELSE IF redstore_is_html_format(chosen.desc) THEN Answer(200, "text/html")
           ELSE redstore_page_new_with_message(406)
  /\ UNCHANGED <<negotiate_vars, request, query_count>>

\* When the handler returns NULL the request goes on to the rows after it: the
\* one that answers 404, or, for a GET of /sparql/, the one that redirects.
PassedOn ==
  \/ redstore_page_new_with_message(404)
  \/ request.op = "sparql" /\ Answer(301, "text/html")

\* handle_description_get without the HTML that is sent when no format was found.
DescriptionOnlyIfAsked ==
  /\ at = "describe" /\ ready
  /\ IF chosen # NULL /\ chosen.desc = "html" THEN Answer(200, "text/html")
     ELSE PassedOn \/ (Enter("graph") /\ UNCHANGED <<code, response>>)
  /\ UNCHANGED <<negotiate_vars, request, query_count>>

\* The description's own storage, model or stream may fail.
handle_description_get ==
  /\ at = "describe" /\ ready
  /\ IF chosen = NULL \/ chosen.desc = "html" THEN Answer(200, "text/html")
     ELSE PassedOn \/ (Enter("graph") /\ UNCHANGED <<code, response>>)
  /\ UNCHANGED <<negotiate_vars, request, query_count>>

\* format_graph_stream and format_bindings_query_result
format_result ==
  /\ at \in {"graph", "bindings"} /\ ready
  /\ IF chosen = NULL THEN redstore_page_new_with_message(406)
     ELSE Answer(200, chosen.type) \/ redstore_page_new_with_message(500)
  /\ UNCHANGED <<negotiate_vars, request, query_count>>

\* page_is_made in plain text whatever was negotiated.
PlainPage ==
  /\ at = "page" /\ ready
  /\ IF chosen = NULL THEN Crash ELSE Answer(code, "text/plain")
  /\ UNCHANGED <<negotiate_vars, request, query_count>>

\* The format is compared before anything is made of it.
page_is_made ==
  /\ at = "page" /\ ready
  /\ IF chosen = NULL THEN Crash
     ELSE Answer(code, IF redstore_is_html_format(chosen.desc) THEN "text/html" ELSE "text/plain")
  /\ UNCHANGED <<negotiate_vars, request, query_count>>

redhttp_response_send ==
  /\ at = "respond"
  /\ at' = "idle" /\ request' = NULL /\ response' = NULL /\ code' = 200
  /\ UNCHANGED <<negotiate_vars, ready, chosen, query_count>>

Handler ==
  \/ negotiate_by_name \/ negotiate_by_accept \/ negotiate_returns
  \/ handle_graph_index \/ handle_description_get \/ format_result \/ page_is_made
  \/ redhttp_response_send
  \/ NegotiateStep /\ UNCHANGED handler_vars

redhttp_server_dispatch_request == at = "idle" /\ \E r \in Requests : begin(r)

Next == Handler \/ redhttp_server_dispatch_request

Spec == Init /\ [][Next]_vars

\* The thread goes on with a request.
FairSpec == Spec /\ WF_vars(Handler)
-----------------------------------------------------------------------------
(* Properties                                                              *)

\* Every variable of the handlers and of the negotiation has its type.
TypeOK ==
  /\ NegotiateTypeOK
  /\ request = NULL \/ request \in Request
  /\ at \in {"idle", "index", "page", "describe", "graph", "bindings", "respond", "crashed"}
  /\ ready \in BOOLEAN
  /\ chosen = NULL \/ DOMAIN chosen = {"desc", "type"}
  /\ code \in {200, 400, 404, 406, 500, 501}
  /\ response = NULL \/ (response.code \in Nat /\ response.type \in Types)
  /\ query_count \in 0 .. CountSpace - 1

\* The types in the client's Accept header decide.
ByAccept == request.format = NULL /\ HasAccept
Asked == {request.accept[k].type : k \in DOMAIN request.accept}
TypesOn(m) == {m[n].type : n \in DOMAIN m}

\* The query form, which is HTML for everybody.
IsForm(r) == r.op = "query" /\ ~ r.query

\* A response, an error page too, is of a type the client accepts, where XHTML
\* counts as HTML; and 406 means that nothing the serializers or the results
\* formatters produce was on the list.  /graphs never refuses an Accept header.
\* Exempt are the query form, a redirect, and a description, which is HTML for
\* want of another format (utils.c:106-191, pages.c:72-139, graphs.c:145,
\* formatters.c:26-133, description.c:507).
AcceptIsHonoured ==
  at = "respond" /\ ByAccept =>
    /\ \/ Asked \cap {Wildcard, response.type} # {}
       \/ response.type = "text/html" /\ "application/xhtml+xml" \in Asked
       \/ IsForm(request) \/ response.code = 301
       \/ Describes(request) /\ response = [code |-> 200, type |-> "text/html"]
    /\ response.code = 406 =>
         /\ request.op \in {"data", "query", "sparql"}
         /\ \E m \in {GraphFormats, ResultsFormats} : Asked \cap ({Wildcard} \cup TypesOn(m)) = {}

\* The pairs of a name and a type that a request may name: those of the index;
\* of a graph or a description; of a query, depending on its results.
Pairs(m) == {<<o.desc, o.type>> : o \in Range(m)}
IndexPairs == {<<"text", "text/plain">>, <<"text/plain", "text/plain">>, <<"html", "text/html">>,
               <<"text/html", "text/html">>, <<"application/xhtml+xml", "text/html">>}
PairsFor(r) ==
  IF r.op = "graphs" THEN {IndexPairs}
  ELSE IF r.op = "data" \/ Describes(r) THEN {Pairs(GraphFormats)}
  ELSE {Pairs(GraphFormats), Pairs(ResultsFormats)}
Unnamed(pairs) == \A p \in pairs : p[1] # request.format

\* A format argument goes before the Accept header and is not overruled by it,
\* for a graph, the index, the result of a query and the description: a 200 is
\* in this format and of its type, and 406 means there is none of this name.
\* Exempt are the query form and, for the name html or one that is unknown, the
\* description in HTML (utils.c:106-191, formatters.c:34, 87, graphs.c:147).
ArgumentGoesFirst ==
  at = "respond" /\ request.format # NULL =>
    /\ response.code = 200 =>
         \/ \E pairs \in PairsFor(request) : <<request.format, response.type>> \in pairs
         \/ IsForm(request)
         \/ /\ Describes(request) /\ response.type = "text/html"
            /\ request.format = "html" \/ Unnamed(Pairs(GraphFormats))
    /\ response.code = 406 => \E pairs \in PairsFor(request) : Unnamed(pairs)

\* The description negotiates twice, with different defaults, and the second
\* negotiation never refuses what the first has agreed to
\* (description.c:507, formatters.c:34).
DescriptionIsNotRefused ==
  at = "respond" /\ Describes(request) => response.code \in {200, 301, 404, 500}

\* The process ends in a negotiation only over an Accept header, never over a
\* format argument: over one without a type of a page, at a strcmp of NULL
\* (pages.c:99, graphs.c:158), or over one with an element without text, like
\* "text/html,", at an assertion (negotiate.c:211).
OnlyAcceptEndsProcess ==
  /\ at = "crashed" => ByAccept /\ Asked \cap ({Wildcard} \cup TypesOn(PageTypes)) = {}
  /\ pc = "aborted" => ByAccept /\ NULL \in Asked

\* Every request comes to an end: the sort terminates, and the pages that
\* report a failed negotiation do not fail in turn, except by the end of the
\* process.
EveryRequestEnds == request # NULL ~> (request = NULL \/ at = "crashed" \/ pc = "aborted")

\* What cannot be negotiated is answered with a page (graphs.c:163-166).
FailureIsAnswered == at # "crashed"
=============================================================================
