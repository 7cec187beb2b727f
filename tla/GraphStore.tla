----------------------------- MODULE GraphStore -----------------------------
(***************************************************************************)
(* The RDF graph store behind RedStore's HTTP interface: the handlers of   *)
(* src/data.c and src/update.c that read and change the triplestore, the   *)
(* Redland log handler that fills error_buffer, the identifier generator   *)
(* that names new graphs, and the life of the process around them          *)
(* (start-up, termination signal, orderly clean-up, abrupt end).           *)
(*                                                                         *)
(* The server is single threaded and handles one request at a time, so     *)
(* requests do not interleave.  What does interleave with the steps of a   *)
(* request is the outside: each librdf call may fail, the parser may log   *)
(* between two statements, the storage may write its buffers to disk, a    *)
(* signal may arrive and the process may die.  A request is therefore a    *)
(* dispatch step followed by one step per librdf call that can change the  *)
(* storage.                                                                *)
(*                                                                         *)
(* librdf itself is not part of the repository; its calls are modelled     *)
(* from how src/ uses them.  A graph is a set of triples.                  *)
(***************************************************************************)
EXTENDS Integers, Sequences, Functions

CONSTANTS
  Graphs,         \* URIs that can name a graph
  Triples,        \* RDF statements
  DefaultGraph,   \* the context of a statement stored without a graph URI
  NULL,           \* C's NULL
  Docs,           \* what a parser can deliver for a document, see below
  Addresses,      \* how a request can address a graph, see below
  GraphOf,        \* the URI built from the identifier with these low 32 bits
  IdSpace,        \* number of identifiers: 2^32
  LongSpace,      \* number of values of an unsigned long: 2^64
  Seeds,          \* what random() can return after a start
  MaxAttempts,    \* tries at an unused identifier: 10
  CountSpace,     \* number of values of request_count: 2^64
  StorageFaults,  \* how a failing storage call can behave
  WriteThrough    \* TRUE: every storage call reaches the disk at once

Numbers == 0 .. CountSpace - 1
Contexts == Graphs \cup {DefaultGraph}
Quads == Contexts \X Triples

\* Levels at which librdf logs; a document is a sequence of the statements
\* the parser produces and the messages it logs on the way.
Levels == {"warn", "error", "fatal"}

\* How the Graph Store Protocol request names its graph: the ?graph=
\* argument, the path below /data, the ?default argument.
AllAddresses == [graph : Graphs \cup {NULL}, path : Graphs \cup {NULL}, dflt : BOOLEAN]

\* What parse_data_from_request_body finds: no usable Content-Length; fewer
\* bytes than announced; no parser for the content type; a document.
Bodies == [status : {"badLength", "short", "noParser"}, doc : {<<>>}]
            \cup [status : {"ok"}, doc : Docs]
NoBody == [status |-> "ok", doc |-> <<>>]

ASSUME ConstantsAssumption ==
  /\ DefaultGraph \notin Graphs
  /\ NULL \notin Contexts
  /\ Triples \cap Levels = {}
  /\ Docs \subseteq Seq(Triples \cup Levels)
  /\ Addresses \subseteq AllAddresses
  /\ IdSpace \in Nat \ {0}
  /\ LongSpace \in Nat \ {0}
  /\ CountSpace \in Nat \ {0}
  /\ MaxAttempts \in Nat \ {0}
  /\ GraphOf \in [0 .. IdSpace - 1 -> Graphs]
  /\ Seeds \subseteq Nat
  /\ StorageFaults \subseteq {"logged", "silent"}
  /\ WriteThrough \in BOOLEAN

VARIABLES
  store,          \* the quads librdf answers from
  durable,        \* the quads on disk
  error_buffer,   \* NULL, or the requests whose error messages it holds
  request_count,  \* requests dispatched since the start
  base_id,        \* genid.c's static counter, 0 when not seeded
  running,        \* the flag main loops on
  pc,             \* where the process is
  req,            \* the request being handled
  stream,         \* what is left of the document's stream
  todo,           \* what is left of an iterator or stream over the store
  attempts,       \* post_to_new_graph's loop counter
  err,            \* remove_all_statements has seen a failure
  response,       \* the response a handler returned
  before          \* history: the store when the request was dispatched

disk == <<store, durable>>
counters == <<request_count, base_id, running>>
session == <<req, before>>
locals == <<stream, todo, attempts, err>>
vars == <<store, durable, error_buffer, request_count, base_id, running,
          pc, req, stream, todo, attempts, err, response, before>>

Ops == {"BAD", "HEAD", "GET", "PUT", "POST", "POSTNEW", "DELETE", "DELETEALL",
        "INSERT", "UNINSERT", "LOAD"}
Requests == [op : Ops, graph : Contexts \cup {NULL}, body : Bodies]

Codes == {200, 201, 400, 404, 406, 500, 501}
Responses == [code : Codes, errors : SUBSET Numbers, body : SUBSET Triples]

\* A buffer of messages is never NULL, nor is a request with its answer.
ASSUME NullAssumption ==
  /\ \A buffer \in SUBSET Numbers : NULL # buffer
  /\ NULL \notin [op : Ops, graph : Contexts \cup {NULL}, doc : SUBSET Triples, code : Codes]
  /\ <<>> \in Docs

Steps == {"genid", "body", "clear", "load", "remove", "unload", "graphs", "triples", "respond"}

\* The thread is in fread on the client's socket, or in the parser of /load,
\* which fetches a document: nothing in the code bounds either in time.
Waiting == pc = "body" \/ (pc = "load" /\ req.op = "LOAD")

\* The triples of graph c in the set of quads s.
Content(s, c) == {t \in Triples : <<c, t>> \in s}
QuadsOf(s, c) == {q \in s : q[1] = c}
Statements(doc) == Range(doc) \cap Triples

-----------------------------------------------------------------------------
(* Storage calls, replies and log messages                                 *)

Write(s) ==
  /\ store' = s
  /\ durable' = IF WriteThrough THEN s ELSE durable

Messages(buffer) == IF buffer = NULL THEN {} ELSE buffer

\* redland_log_handler: a message at any level creates the buffer, only an
\* error message leaves text in it.
Logged(level) ==
  Messages(error_buffer) \cup (IF level = "error" THEN {request_count} ELSE {})

\* A call that does not touch the storage may log an error, whether it fails
\* or not.
MayLog == error_buffer' \in {error_buffer, Logged("error")}

\* A librdf call has failed, with or without telling the log handler.
Fails(fault) ==
  error_buffer' = IF fault = "logged" THEN Logged("error") ELSE error_buffer

NoLocals == /\ stream' = <<>>
            /\ todo' = {}
            /\ attempts' = 0
            /\ err' = FALSE

\* redstore_page_new_with_message: the page quotes the error buffer.
Reply(code) ==
  /\ pc' = "respond"
  /\ response' = [code |-> code,
                  errors |-> Messages(error_buffer'),
                  body |-> {}]
  /\ NoLocals

\* A response that does not go through that page.
ReplyWith(code, body) ==
  /\ pc' = "respond"
  /\ response' = [code |-> code, errors |-> {}, body |-> body]
  /\ NoLocals

Goto(step, s, set) ==
  /\ pc' = step
  /\ stream' = s
  /\ todo' = set
  /\ attempts' = 0
  /\ err' = FALSE
  /\ response' = NULL

-----------------------------------------------------------------------------
(* Dispatch and the handlers                                               *)

NoReset == error_buffer

\* reset_error_buffer: the messages of the request before are dropped.
reset_error_buffer == NULL

\* The three handlers every request runs through first: request_counter,
\* request_log, reset_error_buffer.  Then librdf may log an error while the
\* handler looks at the request.  Nobody looks at running here: whoever waits
\* on a socket of the same round is served after the signal, too.
Dispatch(op, graph, body) ==
  /\ pc = "idle"
  /\ request_count' = (request_count + 1) % CountSpace
  /\ error_buffer' \in {reset_error_buffer, Messages(reset_error_buffer) \cup {request_count'}}
  /\ req' = [op |-> op, graph |-> graph, body |-> body]
  /\ UNCHANGED <<disk, base_id, running, before>>

\* The request cannot be read: 400 from the HTTP library, no handler runs.
redhttp_request_read_fails ==
  /\ pc = "idle"
  /\ req' = [op |-> "BAD", graph |-> NULL, body |-> NoBody]
  /\ ReplyWith(400, {})
  /\ UNCHANGED <<disk, error_buffer, counters, before>>

\* The graph the request names: ?graph= wins over the path.
NodeOf(a) == IF a.graph # NULL THEN a.graph ELSE a.path

BadAddress(a) == \/ a.graph # NULL /\ a.dflt
                 \/ a.graph = NULL /\ a.path = NULL /\ ~ a.dflt
DefaultAddress(a) == a.graph = NULL /\ a.dflt
NamedAddress(a) == ~ BadAddress(a) /\ ~ a.dflt

\* librdf_model_contains_context: a graph exists while it holds a triple.
contains_context(c) == Content(store, c) # {}

handle_data_head(a) ==
  /\ Dispatch("HEAD", NodeOf(a), NoBody)
  /\ \/ BadAddress(a) /\ Reply(400)
     \/ DefaultAddress(a) /\ ReplyWith(200, {})
     \/ /\ NamedAddress(a)
        /\ \/ Reply(500)                                \* get_graph_node
           \/ contains_context(NodeOf(a)) /\ ReplyWith(200, {})
           \/ ~ contains_context(NodeOf(a)) /\ Reply(404)

\* format_graph_stream: the Accept header may rule out every format, the
\* serialiser may be missing, and it may fail once the headers are out.
format_graph_stream(triples) ==
  \/ Reply(406)
  \/ Reply(500)
  \/ ReplyWith(200, triples)
  \/ /\ StorageFaults # {}
     /\ \E sent \in SUBSET triples : ReplyWith(200, sent)

handle_data_get(a) ==
  /\ Dispatch("GET", IF DefaultAddress(a) THEN DefaultGraph ELSE NodeOf(a), NoBody)
  /\ \/ BadAddress(a) /\ Reply(400)
     \/ /\ DefaultAddress(a)
        /\ \/ Reply(500)                                \* model_as_stream
           \/ format_graph_stream({q[2] : q \in store})
     \/ /\ NamedAddress(a)
        /\ \/ Reply(500)                                \* get_graph_node
           \/ ~ contains_context(NodeOf(a)) /\ Reply(404)
           \/ /\ contains_context(NodeOf(a))
              /\ format_graph_stream(Content(store, NodeOf(a)))

\* parse_data_from_buffer: base URI, parser or stream cannot be created, or
\* the stream is handed to the processor.
parse_data_from_buffer(body, step) ==
  \/ Reply(500)
  \/ Goto(step, body.doc, {})

\* The length is looked at and a buffer made; then the body is read.
parse_data_from_request_body(body) ==
  \/ body.status = "badLength" /\ Reply(400)
  \/ body.status # "badLength" /\ (Reply(500) \/ Goto("body", <<>>, {}))

handle_data_put(a, body) ==
  /\ Dispatch("PUT", NodeOf(a), body)
  /\ \/ BadAddress(a) /\ Reply(400)
     \/ DefaultAddress(a) /\ Reply(501)
     \/ /\ NamedAddress(a)
        /\ \/ Reply(500)                                \* get_graph_node
           \/ parse_data_from_request_body(body)

handle_data_post(a, body) ==
  \/ /\ a.graph # NULL /\ a.dflt
     /\ Dispatch("POST", NULL, body)
     /\ Reply(400)
  \/ /\ DefaultAddress(a)
     /\ Dispatch("POST", DefaultGraph, body)
     /\ parse_data_from_request_body(body)
  \/ /\ NamedAddress(a)
     /\ Dispatch("POST", NodeOf(a), body)
     /\ \/ Reply(500)                                   \* get_graph_node
        \/ parse_data_from_request_body(body)
  \/ /\ a.graph = NULL /\ a.path = NULL /\ ~ a.dflt
     /\ Dispatch("POSTNEW", NULL, body)
     /\ Goto("genid", <<>>, {})

handle_data_delete(a) ==
  \/ /\ BadAddress(a)
     /\ Dispatch("DELETE", NULL, NoBody)
     /\ Reply(400)
  \/ /\ DefaultAddress(a)
     /\ Dispatch("DELETEALL", NULL, NoBody)
     /\ \/ Reply(500)                                   \* get_contexts
        \/ Goto("graphs", <<>>, {g \in Graphs : contains_context(g)})
  \/ /\ NamedAddress(a)
     /\ Dispatch("DELETE", NodeOf(a), NoBody)
     /\ \/ Reply(500)                                   \* get_graph_node
        \/ ~ contains_context(NodeOf(a)) /\ Reply(404)
        \/ contains_context(NodeOf(a)) /\ Goto("remove", <<>>, {})

\* /insert and /delete take the document from the "content" argument and
\* default to the default graph.
FormGraph(graph) == IF graph = NULL THEN DefaultGraph ELSE graph

handle_insert_post(graph, body) ==
  /\ Dispatch("INSERT", FormGraph(graph), body)
  /\ \/ body.status = "badLength" /\ Reply(400)         \* no content
     \/ body.status = "ok" /\ parse_data_from_buffer(body, "load")

handle_delete_post(graph, body) ==
  /\ Dispatch("UNINSERT", FormGraph(graph), body)
  /\ \/ body.status = "badLength" /\ Reply(400)         \* no content
     \/ body.status = "ok" /\ parse_data_from_buffer(body, "unload")

\* /load fetches a URI into the graph argument, or the graph of that URI.
handle_load_post(uri, graph, body) ==
  /\ Dispatch("LOAD", IF graph = NULL THEN uri ELSE graph, body)
  /\ \/ uri = NULL /\ Reply(400)
     \/ /\ uri # NULL /\ body.status = "ok"
        /\ \/ Reply(400)                                \* a malformed URI
           \/ parse_data_from_buffer(body, "load")

-----------------------------------------------------------------------------
(* The librdf calls a handler makes on the storage                         *)

StuckBase(id) == id
NextBase(id) == (id + 1) % LongSpace

AnyIdentifier(graph) == TRUE
Unused(graph) == ~ contains_context(graph)

OneTooMany == attempts < MaxAttempts
TryAgain == attempts + 1 < MaxAttempts

SameAttempt == UNCHANGED attempts
NextAttempt == attempts' = attempts + 1

\* One turn of post_to_new_graph's loop, redstore_genid included.
post_to_new_graph ==
  /\ pc = "genid"
  /\ MayLog
  /\ \E seed \in Seeds :
       LET id == IF base_id = 0 THEN seed ELSE base_id
           graph == GraphOf[id % IdSpace]
       IN /\ base_id' = NextBase(id)
          /\ \/ Reply(500) /\ UNCHANGED req             \* new_graph_node
             \/ /\ Unused(graph)
                /\ req' = [req EXCEPT !.graph = graph]
                /\ parse_data_from_request_body(req.body)
             \/ /\ ~ Unused(graph)
                /\ TryAgain
                /\ NextAttempt
                /\ UNCHANGED <<pc, req, stream, todo, err, response>>
             \/ /\ ~ Unused(graph)
                /\ ~ TryAgain
                /\ Reply(500)
                /\ UNCHANGED req
  /\ UNCHANGED <<disk, request_count, running, before>>

\* fread returns: the client has sent what it announced, or has gone; the
\* parser may be unknown; PUT clears the graph before it loads.
read_body ==
  /\ pc = "body"
  /\ MayLog
  /\ \/ req.body.status # "ok" /\ Reply(500)
     \/ /\ req.body.status = "ok"
        /\ parse_data_from_buffer(req.body, IF req.op = "PUT" THEN "clear" ELSE "load")
  /\ UNCHANGED <<disk, counters, session>>

EverythingGone(c) == {}
\* librdf_model_context_remove_statements.
Without(c) == store \ QuadsOf(store, c)

\* clear_and_load_stream_into_graph: whatever librdf returns for the clear,
\* the load goes ahead.
clear_graph ==
  /\ pc = "clear"
  /\ \/ /\ Write(Without(req.graph))
        /\ error_buffer' = error_buffer
     \/ \E left \in SUBSET QuadsOf(store, req.graph), fault \in StorageFaults :
          /\ Write(Without(req.graph) \cup left)
          /\ Fails(fault)
  /\ pc' = "load"
  /\ UNCHANGED <<counters, session, locals, response>>

WrongContext(t) == <<DefaultGraph, t>>
Target(t) == <<req.graph, t>>

\* librdf_model_context_add_statements: the next statement is added.
add_statement ==
  /\ pc = "load"
  /\ stream # <<>>
  /\ Head(stream) \in Triples
  /\ Write(store \cup {Target(Head(stream))})
  /\ stream' = Tail(stream)
  /\ UNCHANGED <<error_buffer, counters, pc, session, todo, attempts, err, response>>

\* ... or the storage refuses it, and the call returns non-zero.
add_statement_fails ==
  /\ pc = "load"
  /\ stream # <<>>
  /\ Head(stream) \in Triples
  /\ \E fault \in StorageFaults : Fails(fault)
  /\ Reply(500)
  /\ UNCHANGED <<disk, counters, session>>

UncheckedLoadCode == IF req.op = "POSTNEW" THEN 201 ELSE 200
ClientErrorCode == IF error_buffer # NULL THEN 400
                   ELSE IF req.op = "POSTNEW" THEN 201 ELSE 200
LoadCode == IF error_buffer # NULL THEN 500
            ELSE IF req.op = "POSTNEW" THEN 201 ELSE 200

\* The end of load_stream_into_graph or load_stream_into_new_graph.
load_stream_ends ==
  /\ pc = "load"
  /\ stream = <<>>
  /\ error_buffer' = error_buffer
  /\ Reply(LoadCode)
  /\ UNCHANGED <<disk, counters, session>>

\* delete_stream_from_graph: a failed removal is just not counted.
remove_statement ==
  /\ pc = "unload"
  /\ stream # <<>>
  /\ Head(stream) \in Triples
  /\ \/ /\ Write(store \ {Target(Head(stream))})
        /\ error_buffer' = error_buffer
     \/ /\ \E fault \in StorageFaults : Fails(fault)
        /\ UNCHANGED <<disk>>
  /\ stream' = Tail(stream)
  /\ UNCHANGED <<counters, pc, session, todo, attempts, err, response>>

UncheckedUnloadCode == 200
UnloadCode == IF error_buffer # NULL THEN 500 ELSE 200

delete_stream_ends ==
  /\ pc = "unload"
  /\ stream = <<>>
  /\ error_buffer' = error_buffer
  /\ Reply(UnloadCode)
  /\ UNCHANGED <<disk, counters, session>>

\* handle_data_delete of a named graph.
remove_graph ==
  /\ pc = "remove"
  /\ \/ /\ Write(Without(req.graph))
        /\ error_buffer' = error_buffer
        /\ Reply(200)
     \/ \E left \in SUBSET QuadsOf(store, req.graph), fault \in StorageFaults :
          /\ Write(Without(req.graph) \cup left)
          /\ Fails(fault)
          /\ Reply(500)
  /\ UNCHANGED <<counters, session>>

\* remove_all_statements, first loop: the named graphs, in iterator order.
\* A NULL from the iterator ends the loop early, and nobody counts it.
remove_next_graph ==
  /\ pc = "graphs"
  /\ \E g \in todo :
       \/ /\ Write(Without(g))
          /\ todo' = todo \ {g}
          /\ UNCHANGED <<error_buffer, err>>
       \/ \E left \in SUBSET QuadsOf(store, g), fault \in StorageFaults :
            /\ Write(Without(g) \cup left)
            /\ Fails(fault)
            /\ err' = TRUE
            /\ todo' = todo \ {g}
       \/ /\ \E fault \in StorageFaults : Fails(fault)
          /\ todo' = {}
          /\ UNCHANGED <<disk, err>>
  /\ UNCHANGED <<counters, pc, session, stream, attempts, response>>

\* Then a stream over what is left is opened.
stream_model ==
  /\ pc = "graphs"
  /\ todo = {}
  /\ \/ MayLog /\ Reply(500)
     \/ /\ pc' = "triples"
        /\ todo' = store
        /\ UNCHANGED <<error_buffer, stream, attempts, err, response>>
  /\ UNCHANGED <<disk, counters, session>>

\* Second loop: librdf_model_remove_statement takes a statement out of the
\* default graph and fails when it is not there.
remove_next_statement ==
  /\ pc = "triples"
  /\ \E q \in todo :
       LET target == <<DefaultGraph, q[2]>>
       IN \/ /\ target \in store
             /\ Write(store \ {target})
             /\ todo' = todo \ {q}
             /\ UNCHANGED <<error_buffer, err>>
          \/ /\ target \notin store
             /\ todo' = todo \ {q}
             /\ err' = TRUE
             /\ UNCHANGED <<disk, error_buffer>>
          \/ /\ \E fault \in StorageFaults : Fails(fault)
             /\ \/ todo' = todo \ {q} /\ err' = TRUE
                \/ todo' = {} /\ UNCHANGED err            \* a NULL statement
             /\ UNCHANGED <<disk>>
  /\ UNCHANGED <<counters, pc, session, stream, attempts, response>>

CountedOnlyCode == IF err THEN 500 ELSE 200
RemoveAllCode == IF err \/ error_buffer # NULL THEN 500 ELSE 200

remove_all_ends ==
  /\ pc = "triples"
  /\ todo = {}
  /\ error_buffer' = error_buffer
  /\ Reply(RemoveAllCode)
  /\ UNCHANGED <<disk, counters, session>>

-----------------------------------------------------------------------------
(* The process                                                             *)

\* The process is gone; a new one will open what is on disk.
Gone(s) ==
  /\ pc' = "down"
  /\ store' = s
  /\ before' = s
  /\ durable' = s
  /\ error_buffer' = NULL
  /\ request_count' = 0
  /\ base_id' = 0
  /\ running' = TRUE
  /\ req' = NULL
  /\ response' = NULL
  /\ NoLocals

\* redland_log_handler on a message of the parser.  A fatal one stops the
\* server after this request, or at once if it was already stopping.
redland_log_handler ==
  /\ pc \in {"load", "unload"}
  /\ stream # <<>>
  /\ Head(stream) \in Levels
  /\ \/ /\ Head(stream) = "fatal" => running
        /\ error_buffer' = Logged(Head(stream))
        /\ running' = (running /\ Head(stream) # "fatal")
        /\ stream' = Tail(stream)
        /\ UNCHANGED <<disk, request_count, base_id, pc, session, todo, attempts, err, response>>
     \/ /\ Head(stream) = "fatal" /\ ~ running
        /\ Gone(durable)

\* redhttp_server_run serves the sockets that are ready, and returns.
redhttp_server_run ==
  /\ pc = "while"
  /\ running
  /\ pc' = "idle"
  /\ UNCHANGED <<disk, error_buffer, counters, session, locals, response>>

redhttp_server_run_returns ==
  /\ pc = "idle"
  /\ pc' = "while"
  /\ UNCHANGED <<disk, error_buffer, counters, session, locals, response>>

redhttp_response_send ==
  /\ pc = "respond"
  /\ pc' = "idle"
  /\ req' = NULL
  /\ response' = NULL
  /\ before' = store
  /\ UNCHANGED <<disk, error_buffer, counters, locals>>

termination_handler ==
  /\ pc # "down"
  /\ running
  /\ running' = FALSE
  /\ UNCHANGED <<disk, error_buffer, request_count, base_id, pc, session, locals, response>>

\* main leaves its loop and frees model and storage, which writes buffers.
cleanup ==
  /\ pc = "while"
  /\ ~ running
  /\ Gone(store)

\* main up to its loop, with -n (new) or not, loading an input file (-f)
\* into the default graph; a failing step ends in the same clean-up.
main(new, file) ==
  /\ pc = "down"
  /\ \E read \in 0 .. Len(file) :
       LET old == IF new THEN {} ELSE durable
           seen == SubSeq(file, 1, read)
           s == old \cup ({DefaultGraph} \X Statements(seen))
           logs == Range(seen) \cap Levels
       IN \/ /\ read = Len(file)
             /\ pc' = "while"
             /\ store' = s
             /\ before' = s
             /\ durable' = IF WriteThrough THEN s ELSE old
             /\ error_buffer' = IF logs = {} THEN NULL
                                ELSE IF "error" \in logs THEN {0} ELSE {}
             /\ running' = ("fatal" \notin logs)
             /\ UNCHANGED <<request_count, base_id, req, locals, response>>
          \/ Gone(s)

\* The storage writes its buffers when it likes; the process dies.
flush ==
  /\ pc # "down"
  /\ ~ WriteThrough
  /\ durable # store
  /\ durable' = store
  /\ UNCHANGED <<store, error_buffer, counters, pc, session, locals, response>>

crash ==
  /\ pc # "down"
  /\ Gone(durable)

-----------------------------------------------------------------------------
Init ==
  /\ durable \in SUBSET Quads
  /\ store = durable
  /\ before = durable
  /\ error_buffer = NULL
  /\ request_count = 0
  /\ base_id = 0
  /\ running = TRUE
  /\ pc = "down"
  /\ req = NULL
  /\ stream = <<>>
  /\ todo = {}
  /\ attempts = 0
  /\ err = FALSE
  /\ response = NULL

Handlers ==
  \/ redhttp_request_read_fails
  \/ \E a \in Addresses : handle_data_head(a) \/ handle_data_get(a) \/ handle_data_delete(a)
  \/ \E a \in Addresses, body \in Bodies : handle_data_put(a, body) \/ handle_data_post(a, body)
  \/ \E g \in Graphs \cup {NULL}, body \in Bodies :
       handle_insert_post(g, body) \/ handle_delete_post(g, body)
  \/ \E u, g \in Graphs \cup {NULL}, body \in Bodies : handle_load_post(u, g, body)

StorageSteps ==
  \/ post_to_new_graph \/ read_body
  \/ clear_graph \/ add_statement \/ add_statement_fails \/ load_stream_ends
  \/ remove_statement \/ delete_stream_ends \/ remove_graph
  \/ remove_next_graph \/ stream_model \/ remove_next_statement \/ remove_all_ends
  \/ redland_log_handler

Process ==
  \/ redhttp_server_run \/ redhttp_server_run_returns
  \/ redhttp_response_send
  \/ termination_handler
  \/ cleanup
  \/ \E new \in BOOLEAN, file \in Docs : main(new, file)
  \/ flush
  \/ crash

Next == Handlers \/ StorageSteps \/ Process

Spec == Init /\ [][Next]_vars

\* The thread runs on whenever it has something to do and does not wait for
\* somebody else: a client's body or answer, or the document behind /load.
FairSpec == Spec /\ WF_vars(StorageSteps /\ ~ Waiting)

\* In addition librdf does not refuse for ever to make the node and the
\* parser for a new graph, nor the clients to send what they announce.
RetrySpec == FairSpec /\ SF_vars(post_to_new_graph /\ pc' = "body")
                      /\ SF_vars(read_body /\ req.op = "POSTNEW" /\ pc' = "load")
-----------------------------------------------------------------------------
(* Properties                                                              *)

\* Every variable has its type; the request and the response are there
\* exactly while a request is being handled, and the storage is only written
\* for a request whose graph is known.
TypeOK ==
  /\ store \in SUBSET Quads
  /\ durable \in SUBSET Quads
  /\ before \in SUBSET Quads
  /\ error_buffer \in {NULL} \cup SUBSET Numbers
  /\ request_count \in Numbers
  /\ base_id \in 0 .. LongSpace - 1
  /\ running \in BOOLEAN
  /\ pc \in Steps \cup {"down", "while", "idle"}
  /\ stream \in Seq(Triples \cup Levels)
  /\ todo \in SUBSET (Contexts \cup Quads)
  /\ attempts \in 0 .. MaxAttempts - 1
  /\ err \in BOOLEAN
  /\ IF pc \in Steps THEN req \in Requests ELSE req = NULL
  /\ pc \in {"body", "clear", "load", "remove", "unload"} => req.graph \in Contexts
  /\ IF pc = "respond" THEN response \in Responses ELSE response = NULL

Responding(codes) == pc = "respond" /\ response.code \in codes

\* What request r, done completely, makes of the quads s.
Expected(r, s) ==
  LET new == {r.graph} \X Statements(r.body.doc)
  IN CASE r.op \in {"POST", "POSTNEW", "INSERT", "LOAD"} -> s \cup new
       [] r.op = "PUT" -> (s \ QuadsOf(s, r.graph)) \cup new
       [] r.op = "UNINSERT" -> s \ new
       [] r.op = "DELETE" -> s \ QuadsOf(s, r.graph)
       [] r.op = "DELETEALL" -> {}
       [] OTHER -> s

\* A 2xx response means the request was carried out to the letter: every
\* statement of the document, nothing else, no statement left over from a
\* replaced or deleted graph (update.c:26-121, data.c:117-180, 411-467).
\* It assumes that a storage call that fails tells the log handler.
SuccessIsExact == Responding({200, 201}) => store = Expected(req, before)

\* A 4xx or 501 response means the request left no trace in the store.
RejectionChangesNothing == Responding({400, 404, 406, 501}) => store = before

\* At no point of a request, completed or failing half-way, does a graph
\* other than the one it names differ from what it was at dispatch;
\* DELETE of the default graph only ever removes.
OnlyTargetTouched ==
  pc \in Steps =>
    IF req.op = "DELETEALL" THEN store \subseteq before
    ELSE \A c \in Contexts \ {req.graph} : Content(store, c) = Content(before, c)

\* 201 Created names a graph that did not exist when the request arrived,
\* whatever identifiers clients, earlier POSTs and earlier processes used.
CreatedGraphIsNew == Responding({201}) => Content(before, req.graph) = {}

\* A response quotes Redland messages of its own request only, never those
\* of the start-up file or of an earlier client's request (redstore.c:70).
ErrorsAreOwn == pc = "respond" => response.errors \subseteq {request_count}

\* A document in which the parser found an error is never acknowledged.
AcknowledgedIsClean ==
  Responding({200, 201}) => Range(req.body.doc) \cap {"error", "fatal"} = {}

\* With a write-through storage, a process that dies in the middle of a
\* request leaves every graph but the one being written as it was.
CrashTearsOnlyTarget ==
  [][(pc \in Steps /\ pc' = "down") =>
       IF req.op = "DELETEALL" THEN durable' \subseteq before
       ELSE \A c \in Contexts \ {req.graph} : Content(durable', c) = Content(before, c)]_vars

\* Every handler comes to its response, whatever librdf fails to do on the
\* way and however many identifiers are taken (data.c:133-180, 188-205,
\* update.c:26-121), unless the process ends, or a client's body or the
\* document behind a /load never arrives, for which the code waits without a
\* limit (update.c:224, 320).
EveryHandlerReturns ==
  \/ pc \in Steps ~> pc \in {"respond", "down"}
  \/ <>[]Waiting

\* A client that keeps POSTing readable documents to /data gets a new graph
\* sooner or later, although one request tries only MaxAttempts identifiers,
\* if the process lives and some identifier stays free: a refused POST has
\* moved base_id on (genid.c:44, data.c:188-204).
NewGraphEventually ==
  \A id \in 0 .. IdSpace - 1 :
    /\ []<>(pc = "genid")
    /\ <>[](pc # "down")
    /\ <>[](pc = "genid" => req.body.status = "ok")
    /\ <>[](~ contains_context(GraphOf[id]))
    => []<>(pc = "load" /\ req.op = "POSTNEW")

\* The graph announced by 201 can be read back
\* (sparql11-http-rdf-update_test.pl:218-220).
NewGraphIsReadable == Responding({201}) => contains_context(req.graph)

\* PUT replaces the graph (sparql11-http-rdf-update_test.pl:171-178),
\* whatever librdf's removal call returns.
PutReplaces ==
  Responding({200}) /\ req.op = "PUT" => Content(store, req.graph) = Statements(req.body.doc)

\* A request refused because Redland logged something tells the client what
\* (NEWS.md: "Redland error messages are now sent back to the user").
FailureIsExplained ==
  Responding({500}) /\ error_buffer # NULL => response.errors # {}

\* The store implements its contract: a request takes effect for its client
\* when the handler returns its response.
content == IF pc = "respond" THEN store ELSE before
exchange == IF pc = "respond"
            THEN [op |-> req.op, graph |-> req.graph,
                  doc |-> Statements(req.body.doc), code |-> response.code]
            ELSE NULL
Contract == INSTANCE StoreContract
ImplementsContract == Contract!Spec
=============================================================================
