------------------------------- MODULE Routing ------------------------------
(***************************************************************************)
(* How a request finds its handler: the dispatcher of                      *)
(* src/redhttp/server.c, which offers the request to one row of the route  *)
(* table after the other until a handler answers, and has answers of its   *)
(* own for what is left.  RedStore's table is in RouteTable.               *)
(*                                                                         *)
(* A path is a sequence of pieces, cut where the code may look: "/data"    *)
(* and a following "/", a last "/".                                        *)
(***************************************************************************)
EXTENDS Integers, Sequences, SequencesExt

CONSTANTS
  Table,    \* the rows, in the order in which they were added
  Methods,  \* what clients may send as method
  Paths,    \* and as path, unescaped
  NULL,     \* C's NULL; as method or path of a row: any
  FREED     \* a pointer to what has been freed

\* What a handler does: returns NULL always; answers, if it gets the memory for
\* its response (pages.c:90, 128) and nothing else fails for which it has no
\* page (description.c:540); looks at the end of the path.
Functions == {"passes", "answers", "remove_trailing_slash"}

\* A row: with glob, its path ends in a "*", which is not part of path here.
Rows == [method : Methods \cup {NULL}, path : Seq(STRING) \cup {NULL},
         glob : BOOLEAN, func : Functions]

Requests == [method : Methods, path : Seq(STRING)]

\* Codes; 0 is whatever the handler likes.
Codes == {0, 200, 301, 404, 405}

\* An answer: who gave it (0: the dispatcher), its code, the Allow header,
\* whether it has content, where it sends the client.
Answers == [by : 0 .. Len(Table), code : Codes, allow : SUBSET Methods, content : BOOLEAN,
            location : Seq(STRING) \cup {NULL}]

Answer(by, code, allow, content, location) ==
  [by |-> by, code |-> code, allow |-> allow, content |-> content, location |-> location]

ASSUME RoutingAssumption ==
  /\ Table \in Seq(Rows)
  /\ \A i \in DOMAIN Table : Table[i].glob => Table[i].path # NULL
  /\ {"GET", "HEAD", "OPTIONS"} \subseteq Methods
  /\ Paths \subseteq Seq(STRING)
  /\ NULL \notin Methods \cup Seq(STRING) \cup Requests \cup Answers
  /\ FREED \notin Seq(STRING) \cup {NULL}

VARIABLES
  request,   \* method and path of the request being dispatched, or NULL
  it,        \* the row the dispatcher is at
  path_glob, \* the request's field
  declined,  \* history: the rows whose handlers have returned NULL
  response   \* the answer

vars == <<request, it, path_glob, declined, response>>

-----------------------------------------------------------------------------
(* match_route                                                             *)

AnyMethod(row) == TRUE
Method(row) == row.method \in {NULL, request.method}

\* The rest of the path, after what stands before the row's "*".
RestWithPath(row) == request.path
Rest(row) == SubSeq(request.path, Len(row.path) + 1, Len(request.path))

Path(row) ==
  \/ row.path = NULL
  \/ row.glob /\ IsPrefix(row.path, request.path)
  \/ ~ row.glob /\ row.path = request.path

match_route(row) == Method(row) /\ Path(row)

\* The old glob is freed; an empty new one does not replace it.
redhttp_request_set_path_glob(glob) ==
  path_glob' = IF glob # <<>> THEN glob
               ELSE IF path_glob # NULL THEN FREED ELSE NULL

-----------------------------------------------------------------------------
(* redhttp_server_dispatch_request                                         *)

\* The request has been read.
redhttp_request_read(method, path) ==
  /\ request = NULL
  /\ request' = [method |-> method, path |-> path]
  /\ it' = 1
  /\ path_glob' = NULL
  /\ declined' = {}
  /\ response' = NULL

Star == <<"*">>
Dispatching == request # NULL /\ response = NULL

\* Rows whose path is this one as it stands, a "*" at its end included.
Exactly(row, path) == (IF row.glob THEN row.path \o Star ELSE row.path) = path

\* The methods of these rows, or of all when path is NULL, and OPTIONS; where
\* there is a GET there is a HEAD.
MethodsOf(path) ==
  {row.method : row \in {r \in Range(Table) : path = NULL \/ Exactly(r, path)}} \ {NULL}
AllowedAnywhere(path) == MethodsOf(NULL)
Allowed(path) == MethodsOf(path)
WithHead(methods) ==
  {"OPTIONS"} \cup methods \cup IF "GET" \in methods THEN {"HEAD"} ELSE {}

check_allowed_responses(code, path) ==
  response' = Answer(0, code, WithHead(Allowed(path)), code # 200, NULL)

\* The request is not for a resource.
dispatch_server ==
  /\ Dispatching /\ it = 1
  /\ request.path = Star
  /\ IF request.method = "OPTIONS"
       THEN check_allowed_responses(200, NULL)
       ELSE response' = Answer(0, 405, {"OPTIONS"}, TRUE, NULL)
  /\ UNCHANGED <<request, it, path_glob, declined>>

AtRow == Dispatching /\ request.path # Star /\ it <= Len(Table)

SameRow == it' = it
NextRow == it' = it + 1

no_match ==
  /\ AtRow
  /\ ~ match_route(Table[it])
  /\ NextRow
  /\ UNCHANGED <<request, path_glob, declined, response>>

Match ==
  /\ AtRow
  /\ match_route(Table[it])
  /\ IF Table[it].glob THEN redhttp_request_set_path_glob(Rest(Table[it])) ELSE UNCHANGED path_glob

EndsInSlash == request.path # <<>> /\ Last(request.path) = "/"

\* The handler returns NULL: it always does, or could not make a response, or
\* remove_trailing_slash saw no slash or got no memory.
handler_declines ==
  /\ Match
  /\ declined' = declined \cup {it}
  /\ NextRow
  /\ UNCHANGED <<request, response>>

handler_answers ==
  /\ Match
  /\ Table[it].func = "answers"
  /\ response' = Answer(it, 0, {}, TRUE, NULL)
  /\ UNCHANGED <<request, it, declined>>

WithSlash(path) == path
WithoutSlash(path) == IF path = <<>> THEN path ELSE Front(path)

\* The byte before an empty path may be anything, a slash too.  strcpy puts the
\* end of the string one byte behind the buffer before the slash is cut off;
\* what that does to the heap is not modelled.
remove_trailing_slash ==
  /\ Match
  /\ Table[it].func = "remove_trailing_slash"
  /\ EndsInSlash \/ request.path = <<>>
  /\ response' = Answer(it, 301, {}, TRUE, WithoutSlash(request.path))
  /\ UNCHANGED <<request, it, declined>>

\* No handler has answered.
AtEnd == Dispatching /\ request.path # Star /\ it = Len(Table) + 1

\* HEAD is answered where GET has a row.
answer_head ==
  /\ AtEnd
  /\ request.method = "HEAD"
  /\ response' = Answer(0, IF "GET" \in MethodsOf(request.path) THEN 200 ELSE 404,
                       {}, FALSE, NULL)
  /\ UNCHANGED <<request, it, path_glob, declined>>

\* Some other method has a row.
KnownPath == \E row \in Range(Table) : Exactly(row, request.path)

answer_allowed ==
  /\ AtEnd
  /\ request.method # "HEAD"
  /\ KnownPath
  /\ check_allowed_responses(IF request.method = "OPTIONS" THEN 200 ELSE 405, request.path)
  /\ UNCHANGED <<request, it, path_glob, declined>>

answer_not_found ==
  /\ AtEnd
  /\ request.method # "HEAD"
  /\ ~ KnownPath
  /\ response' = Answer(0, 404, {}, TRUE, NULL)
  /\ UNCHANGED <<request, it, path_glob, declined>>

\* The response has been sent.
redhttp_request_free ==
  /\ response # NULL
  /\ request' = NULL
  /\ it' = 1
  /\ path_glob' = NULL
  /\ declined' = {}
  /\ response' = NULL

\* The client goes where it is sent, before anything else: the response is
\* sent and the next request is read.
Redirected == response # NULL /\ response.location \notin {NULL, <<>>}

follow ==
  /\ Redirected
  /\ request' = [method |-> "GET", path |-> response.location]
  /\ it' = 1
  /\ path_glob' = NULL
  /\ declined' = {}
  /\ response' = NULL

-----------------------------------------------------------------------------
Init ==
  /\ request = NULL
  /\ it = 1
  /\ path_glob = NULL
  /\ declined = {}
  /\ response = NULL

Dispatch ==
  \/ dispatch_server \/ no_match
  \/ handler_declines \/ handler_answers \/ remove_trailing_slash
  \/ answer_head \/ answer_allowed \/ answer_not_found

Next ==
  \/ \E method \in Methods, path \in Paths : redhttp_request_read(method, path)
  \/ Dispatch
  \/ ~ Redirected /\ redhttp_request_free
  \/ follow

Spec == Init /\ [][Next]_vars

\* The thread runs, and clients follow redirects at once.
FairSpec == Spec /\ WF_vars(Dispatch) /\ WF_vars(follow)

-----------------------------------------------------------------------------
(* Properties                                                              *)

\* A row is meant for a request, said without the dispatcher's operators.
Offered(row, method, path) ==
  /\ row.method = NULL \/ row.method = method
  /\ \/ row.path = NULL
     \/ row.path = path
     \/ row.glob /\ \E n \in 0 .. Len(path) : SubSeq(path, 1, n) = row.path

\* Every variable has its type.
TypeOK ==
  /\ request \in Requests \cup {NULL}
  /\ it \in 1 .. Len(Table) + 1
  /\ path_glob \in Seq(STRING) \cup {NULL, FREED}
  /\ declined \subseteq 1 .. it - 1
  /\ response \in Answers \cup {NULL}

\* A request is answered by a handler that was registered for it, and every
\* earlier one that was has been asked and has declined; the dispatcher
\* answers itself when all have (redhttp/server.c:380-387).
AnsweredByFirst ==
  response # NULL /\ request.path # Star =>
    /\ response.by # 0 => Offered(Table[response.by], request.method, request.path)
    /\ \A i \in DOMAIN Table :
         Offered(Table[i], request.method, request.path) =>
           i \in declined \/ (response.by # 0 /\ response.by <= i)

\* What GlobIsOwn asks of a table: no glob is a prefix of another one that
\* takes the same method.
GlobsApart ==
  \A i, j \in DOMAIN Table :
    /\ Table[i].glob /\ Table[j].glob
    /\ Table[i].method = NULL \/ Table[j].method = NULL \/ Table[i].method = Table[j].method
    /\ IsPrefix(Table[i].path, Table[j].path)
    => i = j

\* What BooksFirst asks of a table: the rows that only pass
\* take every request, and stand before the others.
PassesFirst ==
  \A i, j \in DOMAIN Table :
    Table[i].func = "passes" =>
      /\ Table[i].method = NULL /\ Table[i].path = NULL
      /\ Table[j].func # "passes" => i < j

\* A handler of a glob finds the rest of its own path, or NULL when there is
\* none, and never the freed glob of another row: request.c:156 leaves it
\* when the new one is empty, and data.c tells the default graph from a named
\* one by it (data.c:227).
GlobIsOwn ==
  /\ path_glob # FREED
  /\ response # NULL /\ response.by # 0 /\ Table[response.by].glob =>
       request.path = IF path_glob = NULL THEN Table[response.by].path
                      ELSE Table[response.by].path \o path_glob

\* Whoever answers, the handlers that count the request, log it and reset
\* the error buffer have run (redstore.c:226-228); only "*" is answered
\* without them, and what is no request, with the 400 of server.c:270, which
\* never comes to the dispatcher.
BooksFirst ==
  response # NULL /\ request.path # Star =>
    \A i \in DOMAIN Table : Table[i].func = "passes" => i \in declined

\* A method named in an Allow header of the dispatcher's has a row of its own
\* that takes this path, where HEAD goes with GET (redhttp/server.c:307-357).
\* In RedStore, whose last row takes everything, the dispatcher only comes to
\* this when that row has no memory for its 404.
AllowIsTrue ==
  response # NULL /\ request.path # Star =>
    \A m \in response.allow \ {"OPTIONS"} :
      \E row \in Range(Table) :
        /\ row.method \in {m} \cup IF m = "HEAD" THEN {"GET"} ELSE {}
        /\ Offered(row, row.method, request.path)

\* Who follows a redirect gets an answer in the end that is none, however
\* many slashes there were.
RedirectsEnd == Redirected ~> response # NULL /\ response.location \in {NULL, <<>>}
=============================================================================
