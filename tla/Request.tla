------------------------------- MODULE Request ------------------------------
(***************************************************************************)
(* From the bytes of a connection to the operation on the triplestore: how *)
(* the request parser of src/redhttp takes a request from a client that    *)
(* sends it piece by piece and may stop or hang up at any point, and which *)
(* graph and which content the handlers of src/data.c and src/update.c     *)
(* then hand to librdf.  What librdf makes of them is GraphStore's.        *)
(*                                                                         *)
(* A message is the lines of the head and the bytes of the body; the       *)
(* server has a line or it does not (redhttp_request_read_line drops one   *)
(* that the end of the connection cuts).  URLs are written without their   *)
(* "http://".                                                              *)
(***************************************************************************)
EXTENDS Url

CONSTANTS
  Messages,        \* what clients send, see Message
  ServerName,      \* the address and port of the server
  DataPath, InsertPath, DeletePath,     \* "/data", "/insert", "/delete"
  GraphKey, DefaultKey, ContentKey,     \* "graph", "default", "content"
  Stored           \* URIs of the graphs in the store

VARIABLES
  message,         \* what the client means to send
  sent,            \* how many lines and bytes of it are on the way
  closed,          \* the client sends no more
  taken,           \* how many of them the server has read
  pc,              \* where the server is
  headers,         \* request->headers
  arguments,       \* request->arguments
  response,        \* the status code; 200 for all that librdf decides
  work             \* what librdf was called for

vars == <<message, sent, closed, taken, pc, headers, arguments, response, work>>

\* A request line that can be used or not; the header lines, of which one
\* without a colon has no key; the body.
Header ==
  [key : {NULL}, value : {NULL}]
    \cup [key : {"", "Host"}, value : {NULL} \cup Seq(Byte)]
    \cup [key : {"Content-Type"}, value : {NULL, "form", "rdf"}]
    \cup [key : {"Content-Length"}, value : {NULL} \cup Nat]
Message == [valid : BOOLEAN, method : {"GET", "HEAD", "PUT", "POST", "DELETE"},
            target : Seq(Byte), version : {"0.9", "1.1"},
            headers : Seq(Header), body : Seq(Byte)]

\* What librdf is called with: a graph, NULL for the default one or a new one.
Work == [op : {"load", "create", "replace", "read", "clear", "remove", "insert", "delete"},
         graph : {NULL} \cup Seq(Byte), content : Seq(Byte)]

\* The head ends with a blank line.
Lines(m) == Len(m.headers) + 2
Total(m) == Lines(m) + Len(m.body)

\* The target up to its first "?", and what follows it.
Question(target) == Min({k \in DOMAIN target : target[k] = 63} \cup {Len(target) + 1})
Path(target) == redhttp_url_unescape(SubSeq(target, 1, Question(target) - 1))
Query(target) == SubSeq(target, Question(target) + 1, Len(target))

AtData(m) == IsPrefix(DataPath, Path(m.target))

\* Of the other pages only those that do not exist are asked for: a GET of the
\* rest changes nothing, and /load reads no body (Routing, GraphStore).  The path
\* of the data needs no escape.
ASSUME RequestAssumption ==
  /\ NULL \notin {"", "Host", "Content-Type", "Content-Length", 200} \cup Seq(Byte) \cup Work
  /\ ServerName \in Seq(Byte)
  /\ DataPath \in Seq(Byte \ {37, 43, 63})
  /\ {GraphKey, DefaultKey, ContentKey} \subseteq Seq(Lower) \ {<<>>}
  /\ GraphKey # DefaultKey
  /\ Stored \subseteq Seq(Byte) \ {<<>>}
  /\ Messages \subseteq Message
  /\ \A m \in Messages :
       /\ m.version = "0.9" => m.headers = <<>>
       /\ \/ AtData(m)
          \/ m.method = "POST" /\ Path(m.target) \in {InsertPath, DeletePath}
          \/ m.method = "GET" /\ Path(m.target) \notin {InsertPath, DeletePath}

-----------------------------------------------------------------------------
(* The connection                                                          *)

Init ==
  /\ message \in Messages
  /\ sent = 0
  /\ closed = FALSE
  /\ taken = 0
  /\ pc = "status"
  /\ headers = <<>>
  /\ arguments = <<>>
  /\ response = NULL
  /\ work = NULL

server == <<taken, pc, headers, arguments, response, work>>

Send ==
  /\ ~ closed
  /\ sent < Total(message)
  /\ sent' = sent + 1
  /\ UNCHANGED <<message, closed, server>>

HangUp ==
  /\ ~ closed
  /\ closed' = TRUE
  /\ UNCHANGED <<message, sent, server>>

\* fgetc and fread wait until there is something to read or nothing will come.
LineArrived == taken < sent
EndOfFile == closed /\ taken = sent
Unread == SubSeq(message.body, taken - Lines(message) + 1, sent - Lines(message))

Got(n) == SubSeq(Unread, 1, Min({n, Len(Unread)}))
fread(n) ==
  /\ closed \/ Len(Unread) >= n
  /\ taken' = taken + Len(Got(n))

Reply(status) ==
  /\ response' = status
  /\ pc' = "done"

Abort ==
  /\ pc' = "aborted"
  /\ UNCHANGED response

-----------------------------------------------------------------------------
(* The request parser                                                      *)

redhttp_request_read_status_line ==
  /\ pc = "status"
  /\ \/ EndOfFile /\ Reply(400) /\ UNCHANGED <<taken, arguments>>
     \/ /\ LineArrived
        /\ taken' = taken + 1
        /\ LET added == redhttp_request_parse_arguments(Query(message.target))
           IN \/ ~ message.valid /\ Reply(400) /\ UNCHANGED arguments
              \/ message.valid /\ AddAborts(added) /\ Abort /\ UNCHANGED arguments
              \/ /\ message.valid
                 /\ ~ AddAborts(added)
                 /\ arguments' = added
                 /\ pc' = IF message.version = "0.9" THEN "dispatch" ELSE "headers"
                 /\ UNCHANGED response
  /\ UNCHANGED <<message, sent, closed, headers, work>>

\* The value of the first header of this name.
redhttp_headers_get(list, key) ==
  LET at == {k \in DOMAIN list : list[k].key = key}
  IN IF at = {} THEN NULL ELSE list[Min(at)].value

\* A line without a colon or without a value is passed over.
redhttp_headers_parse_line ==
  /\ pc = "headers"
  /\ LineArrived
  /\ taken < Lines(message) - 1
  /\ taken' = taken + 1
  /\ LET line == message.headers[taken]
     IN \/ (line.key = NULL \/ line.value = NULL) /\ UNCHANGED <<headers, pc, response>>
        \/ line.key = "" /\ line.value # NULL /\ Abort /\ UNCHANGED headers
        \/ /\ line.key \notin {NULL, ""}
           /\ line.value # NULL
           /\ headers' = Append(headers, line)
           /\ UNCHANGED <<pc, response>>
  /\ UNCHANGED <<message, sent, closed, arguments, work>>

OverAtBlankLine ==
  /\ pc = "headers"
  /\ LineArrived
  /\ taken = Lines(message) - 1
  /\ taken' = taken + 1
  /\ pc' = "content"
  /\ UNCHANGED <<message, sent, closed, headers, arguments, response, work>>

\* The head is over at the blank line or where the connection ends.
headers_end ==
  /\ pc = "headers"
  /\ \/ EndOfFile /\ UNCHANGED taken
     \/ LineArrived /\ taken = Lines(message) - 1 /\ taken' = taken + 1
  /\ pc' = "content"
  /\ UNCHANGED <<message, sent, closed, headers, arguments, response, work>>

ContentType == redhttp_headers_get(headers, "Content-Type")
ContentLength == redhttp_headers_get(headers, "Content-Length")

no_form ==
  /\ pc = "content"
  /\ \/ message.method # "POST" /\ pc' = "dispatch" /\ UNCHANGED response
     \/ /\ message.method = "POST"
        /\ ContentType = NULL \/ ContentLength = NULL
        /\ Reply(400)
     \/ /\ message.method = "POST"
        /\ ContentType \notin {NULL, "form"}
        /\ ContentLength # NULL
        /\ pc' = "dispatch"
        /\ UNCHANGED response
  /\ UNCHANGED <<message, sent, closed, taken, headers, arguments, work>>

\* redhttp_request_read, which hands the body to redhttp_request_parse_arguments.
FormTaken(added) == arguments' = added \o arguments
TakeForm(added) == arguments' = arguments \o added
read_form ==
  /\ pc = "content"
  /\ message.method = "POST"
  /\ ContentType = "form"
  /\ ContentLength # NULL
  /\ fread(ContentLength)
  /\ LET added == redhttp_request_parse_arguments(Got(ContentLength))
     IN \/ Len(Got(ContentLength)) # ContentLength /\ Reply(400) /\ UNCHANGED arguments
        \/ /\ Len(Got(ContentLength)) = ContentLength
           /\ AddAborts(added)
           /\ Abort
           /\ UNCHANGED arguments
        \/ /\ Len(Got(ContentLength)) = ContentLength
           /\ ~ AddAborts(added)
           /\ TakeForm(added)
           /\ pc' = "dispatch"
           /\ UNCHANGED response
  /\ UNCHANGED <<message, sent, closed, headers, work>>

-----------------------------------------------------------------------------
(* The handlers                                                            *)

redhttp_request_get_host ==
  LET host == redhttp_headers_get(headers, "Host")
  IN IF host = NULL THEN ServerName ELSE host

PathOnly == redhttp_request_get_host \o SubSeq(message.target, 1, Question(message.target) - 1)
redhttp_request_get_url == redhttp_request_get_host \o message.target

\* An argument is taken to be an absolute URI.
get_graph_node ==
  LET graph == redhttp_request_get_argument(arguments, GraphKey)
  IN IF graph = NULL THEN redhttp_request_get_url ELSE graph

HasGraph == redhttp_request_argument_exists(arguments, GraphKey)
HasDefault == redhttp_request_argument_exists(arguments, DefaultKey)
HasPath == Path(message.target) # DataPath

Call(op, graph, content) ==
  /\ work' = [op |-> op, graph |-> graph, content |-> content]
  /\ Reply(200)

\* parse_data_from_request_body: the bytes, if as many come as were declared.
BodyBegun == Len(Got(ContentLength)) # 0
BodyComplete == Len(Got(ContentLength)) = ContentLength
parse_data_from_request_body(op, graph) ==
  \/ /\ ContentLength \in {NULL, 0}
     /\ Reply(400)
     /\ UNCHANGED <<taken, work>>
  \/ /\ ContentLength \notin {NULL, 0}
     /\ fread(ContentLength)
     /\ \/ ~ BodyComplete /\ Reply(500) /\ UNCHANGED work
        \/ BodyComplete /\ Call(op, graph, Got(ContentLength))

Refuses(status) == Reply(status) /\ UNCHANGED <<taken, work>>

handle_data_post ==
  \/ HasDefault /\ parse_data_from_request_body("load", NULL)
  \/ ~ HasDefault /\ (HasGraph \/ HasPath) /\ parse_data_from_request_body("load", get_graph_node)
  \/ ~ HasDefault /\ ~ HasGraph /\ ~ HasPath /\ parse_data_from_request_body("create", NULL)

handle_data_put ==
  \/ HasDefault /\ Refuses(501)
  \/ ~ HasDefault /\ parse_data_from_request_body("replace", get_graph_node)

\* handle_data_get and handle_data_head address the graph alike.
handle_data_get ==
  /\ Call("read", IF HasDefault THEN NULL ELSE get_graph_node, <<>>)
  /\ UNCHANGED taken

handle_data_delete ==
  /\ \/ HasDefault /\ Call("clear", NULL, <<>>)
     \/ ~ HasDefault /\ Call("remove", get_graph_node, <<>>)
  /\ UNCHANGED taken

Unclear ==
  \/ HasGraph /\ HasDefault
  \/ message.method # "POST" /\ ~ HasGraph /\ ~ HasDefault /\ ~ HasPath

handle_data ==
  /\ pc = "dispatch"
  /\ AtData(message)
  /\ \/ Unclear /\ Refuses(400)
     \/ ~ Unclear /\ message.method = "POST" /\ handle_data_post
     \/ ~ Unclear /\ message.method = "PUT" /\ handle_data_put
     \/ ~ Unclear /\ message.method \in {"GET", "HEAD"} /\ handle_data_get
     \/ ~ Unclear /\ message.method = "DELETE" /\ handle_data_delete
  /\ UNCHANGED <<message, sent, closed, headers, arguments>>

\* handle_insert_post and handle_delete_post.
handle_form_post(path, op) ==
  /\ pc = "dispatch"
  /\ message.method = "POST"
  /\ Path(message.target) = path
  /\ LET content == redhttp_request_get_argument(arguments, ContentKey)
     IN \/ content = NULL /\ Refuses(400)
        \/ /\ content # NULL
           /\ Call(op, redhttp_request_get_argument(arguments, GraphKey), content)
           /\ UNCHANGED taken
  /\ UNCHANGED <<message, sent, closed, headers, arguments>>

handle_insert_post == handle_form_post(InsertPath, "insert")
handle_delete_post == handle_form_post(DeletePath, "delete")

\* The last rows of the table: remove_trailing_slash, which may find no memory,
\* and handle_not_found.
handle_not_found ==
  /\ pc = "dispatch"
  /\ message.method = "GET"
  /\ ~ AtData(message)
  /\ Refuses(404) \/ (IsSuffix(<<47>>, Path(message.target)) /\ Refuses(301))
  /\ UNCHANGED <<message, sent, closed, headers, arguments>>

-----------------------------------------------------------------------------
(* The index of the graphs                                                 *)

server_root_url(host) == host \o <<47>>

Occurs(part, str) ==
  \E k \in 1 .. Len(str) - Len(part) + 1 : SubSeq(str, k, k + Len(part) - 1) = part

\* Where handle_html_graph_index, asked of this host, lets the entry of a
\* graph lead.
Link(host, uri, junk) ==
  IF Occurs(server_root_url(host), uri) THEN uri
  ELSE host \o DataPath \o <<47, 63>> \o GraphKey \o <<61>> \o redhttp_url_escape(uri, junk)

-----------------------------------------------------------------------------
\* The process is over, or the reply is sent and the connection closed.
Server ==
  \/ redhttp_request_read_status_line
  \/ redhttp_headers_parse_line
  \/ headers_end
  \/ no_form
  \/ read_form
  \/ handle_data
  \/ handle_insert_post
  \/ handle_delete_post
  \/ handle_not_found

Next == Send \/ HangUp \/ Server

Spec == Init /\ [][Next]_vars
FairSpec == Spec /\ WF_vars(Server)

-----------------------------------------------------------------------------
(* Properties                                                              *)

\* Every variable has its type; the server is never ahead of the client, and
\* no header and no argument is kept with an empty value (request.c,
\* headers.c).
TypeOK ==
  /\ message \in Message
  /\ sent \in 0 .. Total(message)
  /\ closed \in BOOLEAN
  /\ taken \in 0 .. sent
  /\ pc \in {"status", "headers", "content", "dispatch", "done", "aborted"}
  /\ \A k \in DOMAIN headers : headers[k] \in Range(message.headers)
  /\ \A k \in DOMAIN arguments :
       arguments[k].key \in Seq(Byte) /\ arguments[k].value \in {NULL} \cup (Seq(Byte) \ {<<>>})
  /\ response \in {NULL, 200, 301, 400, 404, 500, 501}
  /\ work \in {NULL} \cup Work
  /\ (work # NULL) <=> (response = 200)

\* What the client says of itself, read off the message.
Says(m, key) ==
  LET at == {k \in DOMAIN m.headers : m.headers[k].key = key /\ m.headers[k].value # NULL}
  IN IF at = {} THEN NULL ELSE m.headers[Min(at)].value
Host(m) == IF Says(m, "Host") = NULL THEN ServerName ELSE Says(m, "Host")
IsForm(m) == m.method = "POST" /\ m.version # "0.9" /\ Says(m, "Content-Type") = "form"
Declared(m) == SubSeq(m.body, 1, Min({Says(m, "Content-Length"), Len(m.body)}))

\* A form sent to /data is read by the parser, and then again by the handler.
FormToData(m) == IsForm(m) /\ AtData(m)

\* What is loaded is as many bytes as the client declared, all of them, wherever
\* the connection ends: neither a cut head nor a cut body is ever taken for the
\* whole (update.c:216, request.c:521).  They are the bytes behind the head; of
\* a form sent to /data, of which the parser has read the declared body already,
\* they are the bytes behind that body, whatever the client sends there.
LoadsAsDeclared ==
  (work # NULL /\ work.op \in {"load", "create", "replace"})
    => LET n == Says(message, "Content-Length")
           before == IF FormToData(message) THEN n ELSE 0
       IN /\ n \in Nat \ {0}
          /\ before + n <= Len(message.body)
          /\ work.content = SubSeq(message.body, before + 1, before + n)

\* What is inserted or deleted is the content argument of the query string or,
\* where that has none, of the form: the query string goes first, and a form
\* counts only as a whole (request.c:526, update.c:360).
InsertsWhatWasSent ==
  (work # NULL /\ work.op \in {"insert", "delete"})
    => LET query == redhttp_request_parse_arguments(Query(message.target))
           form == redhttp_request_parse_arguments(Declared(message))
           from == IF redhttp_request_argument_exists(query, ContentKey) THEN query ELSE form
       IN work.content = redhttp_request_get_argument(from, ContentKey)

\* Once the head is there, a request whose graph argument is missing or empty
\* is about the graph its own URL names, query string and all, by the first
\* Host header that says something (request.c:372, data.c:81).  A head that is
\* cut may have lost its Host, and the request is carried out all the same.
GraphIsTheOneNamed ==
  (/\ work # NULL
   /\ work.op \in {"read", "load", "replace", "remove"}
   /\ sent >= Lines(message)
   /\ ~ HasDefault
   /\ redhttp_request_get_argument(arguments, GraphKey) = NULL)
    => work.graph = Host(message) \o message.target

\* The server has answered the client that follows the link of uri in the index,
\* which was made for the host that the client names.
Follows(uri, junk) ==
  /\ pc = "done" /\ sent >= Lines(message)
  /\ message.valid /\ message.method = "GET"
  /\ Host(message) \o message.target = Link(Host(message), uri, junk)

Direct(uri) == Occurs(server_root_url(Host(message)), uri)

\* A URI on this host leads to its graph if its path is below /data and its
\* query string names neither a graph nor the default one.
IdentifiesGraph(target) ==
  LET query == redhttp_request_parse_arguments(Query(target))
  IN /\ AtData(message) /\ Path(target) # DataPath
     /\ ~ redhttp_request_argument_exists(query, DefaultKey)
     /\ redhttp_request_get_argument(query, GraphKey) = NULL

\* Who follows the link of a graph in the index is served from that graph: for
\* every URI without bytes above 127 that the index escapes, and for those on
\* this host, printed as they are, that pass IdentifiesGraph.  The others on
\* this host lead elsewhere, to a 404, a 400 or another graph; so may those that
\* are cut at a "#" by the client or hold the URL of this host further on and
\* lead to another one: these the server never sees (graphs.c:71, url.c:88,
\* request.c:170).
LinkLeadsToGraph ==
  \A uri \in Stored, junk \in {47, 65} :
    /\ Follows(uri, junk)
    /\ IF Direct(uri) THEN IdentifiesGraph(message.target) ELSE Range(uri) \subseteq 1 .. 127
    => work # NULL /\ work.graph = uri

\* An argument or a header without a name, in the message itself.
Nameless(str) ==
  \E k \in DOMAIN str :
    /\ k = 1 \/ str[k - 1] \in {38, 59}
    /\ str[k] \in {38, 59, 61} \/ IsPrefix(<<37, 48, 48>>, SubSeq(str, k, Len(str)))

\* The assertions of redhttp_headers_add end the process only on an argument
\* or a header with an empty name, never on a stray separator at the end
\* (headers.c:52, request.c:183).
AbortsOnlyOnEmptyName ==
  pc = "aborted"
    => \/ Nameless(Query(message.target))
       \/ IsForm(message) /\ Nameless(Declared(message))
       \/ \E k \in DOMAIN message.headers : message.headers[k].key = ""

\* As long as the body declared is there.
Complete ==
  /\ sent = Total(message)
  /\ ~ FormToData(message)
  /\ Says(message, "Content-Length") # NULL
       => Says(message, "Content-Length") <= Len(message.body)

\* A client that has sent all it announced gets its answer without hanging up,
\* and so does whoever hangs up: the server never waits for more, except for
\* the second copy of a form sent to /data (request.c:521, update.c:216).
EveryMessageIsAnswered == (closed \/ Complete) ~> (pc \in {"done", "aborted"})
=============================================================================
