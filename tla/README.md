# RedStore in TLA+

A verification project for RedStore, the RDF triplestore with an HTTP
interface built on Redland (librdf). The modules are translated from the C
sources under `src/src/`; line numbers below refer to those files.

| file | what it is |
|---|---|
| `GraphStore.tla` | the handlers that read and change the store, step by step, with the process around them |
| `StoreContract.tla` | what the store promises: a request takes effect at once and its code says how much of it was done |
| `GraphStoreProofs.tla` | theorems about `GraphStore`, checked by TLAPS for all values of the constants, and that it implements `StoreContract` |
| `Server.tla` | the process: `main`, the accept loop, a request from accept to close, signals, fatal messages, clients |
| `ServerProofs.tla` | theorems about `Server` |
| `Routing.tla` | how a request finds its handler: the dispatcher, over any route table |
| `RouteTable.tla` | RedStore's route table |
| `RoutingProofs.tla` | theorems about `Routing` |
| `MediaTypes.tla` | what an `Accept` header and a menu of formats consist of, and how they compare |
| `Negotiation.tla` | content negotiation with a sequence: the specification |
| `NegotiationProofs.tla` | theorems about `Negotiation` |
| `Negotiate.tla` | content negotiation with the linked list of redhttp/negotiate.c, pointer by pointer; refines `Negotiation` |
| `NegotiateProofs.tla` | the steps of the proof that `Negotiate` implements `Negotiation` |
| `Formats.tla` | the handlers and error pages that negotiate, on top of `Negotiate` |
| `FormatsProofs.tla` | theorems about `Formats`, that refinement among them |
| `Url.tla` | escaping, and the arguments of a request: operators on byte sequences |
| `UrlProofs.tla` | what the functions of `Url` compute, for every sequence of bytes |
| `Request.tla` | from the bytes of a connection to the graph and content that librdf is called with |
| `RequestProofs.tla` | theorems about `Request` |
| `MC*.tla` and their `.cfg` files | small instances for TLC |

## 1. Inventory

RedStore is one process with one thread. `main` (redstore.c:290) opens the
storage, loads an optional file, opens the listening sockets and then calls
`redhttp_server_run` while the flag `running` is set. That function waits in
`select`, accepts a connection, reads one request, runs it through the chain
of handlers, sends the response, closes the connection. A signal handler and
the log function clear `running`.

| component | state | operations | interaction |
|---|---|---|---|
| graph store protocol, data.c | the librdf model and storage | HEAD, GET, PUT, POST, DELETE on `/data` | called by the dispatcher; calls update.c, genid.c, librdf |
| updates, update.c | the same | POST to `/insert`, `/delete`, `/load`; body reader | the stream of a parser feeds the storage while the log handler listens |
| log handler, redstore.c:99 | `error_buffer` | add a message, reset | called back by librdf inside any other call |
| identifier generator, genid.c | a static counter | next identifier | called by `post_to_new_graph` |
| life cycle, redstore.c:290 | `running`, `exit_code` | start, signal, fatal message, clean-up | owns everything else |
| HTTP loop, redhttp/server.c | sockets, handler list | listen, run, dispatch, free | calls handlers, sends responses |
| requests, redhttp/request.c | one request | read, parse, free | reads the client's socket, blocking |
| responses, redhttp/response.c | one response, `headers_sent` | send | called by the loop and by streaming handlers |
| headers, redhttp/headers.c | a list | add, set, get | used for headers and arguments |
| negotiation, redhttp/negotiate.c, utils.c | a sorted list | parse, choose | used by every handler that has formats |
| escaping, redhttp/url.c | none | escape, unescape | used by requests and pages |
| queries, query.c, formatters.c | `query_count` | run, format | streams results into the socket |
| description, description.c | its own model | build, GET | counts triples and queries; `import_count`, which it shows too, is never counted up |
| graph index, pages, images | none | GET | constant or read-only |

What is hard here is not parallelism between requests (there is none) but

* **partial failure**: a change is a series of librdf calls, each may fail,
  and there is no transaction; the status code is all the client learns;
* **side channels**: parsers report errors through a callback into a global
  buffer, not through results, and handlers derive the status from it;
* **the end of the process**: by signal, by a fatal log message, by `exit` in
  the middle of a request, or by a crash, with storages that may buffer;
* **names**: identifiers of new graphs come from a counter that restarts at a
  random place and is cut to 32 bits;
* **blocking**: one slow client, or a `/load` of the server's own URI, stops
  everything.

The hazards, each at its line, are in `PROJECT.json`.

What makes each component correct: the store does exactly what its status
code says and touches only the graph it was asked to; messages reach the
client who caused them; a new graph is new; what was acknowledged survives an
orderly stop; every request is answered; a response's headers are sent once;
the loop leaves when told; the route table selects the handler the method and
path call for; negotiation picks the best type both sides name, and what cannot be
negotiated is answered all the same; a body is loaded whole or not at all, into
the graph the request names; escaping is undone by unescaping.

## 2. The model of the store

### State

| variable | code |
|---|---|
| `store` | what librdf answers from: a set of (context, triple) |
| `durable` | what a later process would find on disk |
| `error_buffer` | the global of the same name: `NULL`, or the set of requests whose error text it holds (number 0: start-up). The empty set is a buffer without text, which a warning leaves (redstore.c:109-117) |
| `request_count`, `running` | the globals of the same names |
| `base_id` | the static in genid.c, 0 before it is seeded |
| `pc` | which librdf loop of which handler is running; `idle` between requests, `down` when there is no process |
| `req` | the request: operation, graph, body |
| `stream`, `todo`, `attempts`, `err` | locals: rest of the parser's stream, rest of an iterator over the store, loop counters of `post_to_new_graph` and `remove_all_statements` |
| `response` | what the handler returned |
| `before` | history: the store at dispatch |

A document is what its parser delivers: a sequence of triples and of log
levels, in the order in which they appear. The bodies add what can go wrong
before: no usable Content-Length, fewer bytes than announced, no parser.

### Actions

A request is one dispatch action, named after its handler
(`handle_data_put`, `handle_load_post`, ...), which includes the counter, the
log line and the reset of the error buffer and every check up to the first
call that changes the storage or waits for the client; then one action per librdf call that can change
it:

| actions | code |
|---|---|
| `read_body` | `fread` of the body and the making of the parser, update.c:224-264 |
| `post_to_new_graph` | one turn of the loop, data.c:188-205, with genid.c |
| `clear_graph` | update.c:90 |
| `add_statement`, `add_statement_fails`, `load_stream_ends` | the inside of `librdf_model_context_add_statements`, update.c:33 and 61, and the code after it |
| `remove_statement`, `delete_stream_ends` | update.c:96-121 |
| `remove_graph` | data.c:451-466 |
| `remove_next_graph`, `stream_model`, `remove_next_statement`, `remove_all_ends` | data.c:117-180 |
| `redland_log_handler` | redstore.c:99, when the parser logs between statements |
| `redhttp_response_send` | server.c:279 |
| `redhttp_server_run`, `redhttp_server_run_returns` | the loop of `main`, which alone looks at `running`: requests of a round that has begun are dispatched after a signal, too |
| `termination_handler`, `cleanup`, `main` | redstore.c:36, 419-445, 290-421 |
| `flush`, `crash` | the outside: the storage writes its buffers, the process dies |

Every librdf call that can change the storage may also fail. A failing
removal of a graph may leave any part of it. `StorageFaults` says whether a
failing call logs (`"logged"`), fails without a word (`"silent"`), both, or
whether no call fails at all. librdf itself is not in the repository; it is
modelled from the way the sources call it, and those definitions are marked
external.

Two points about real storages matter to a reader. RedStore's default
storage is in memory (redstore.h), so what is said about `durable` concerns
the storages that have a disk. `WriteThrough` distinguishes those that write
at once from those that write when they are closed or when they like.

### Left out of the module

The text of pages and messages, the choice of the format (any outcome is
allowed), the memory of the process (failing `malloc`s with their 500s are
merged with the other 500s of the same place), and the HTTP layer below the
handlers.

## 3. The model of the process

`Server` looks at the same program from the outside: not at what a handler
does to the store, but at when it runs, what the client gets and how the
process ends. `GraphStore` takes over where `Server` says `dispatch`.

| variable | code |
|---|---|
| `pc` | where the one thread is: a step of `main` (`Setup`), the loop (`while`, `redhttp_server_run`, `select`, `scan`), a request (`identify` ... `close`), the clean-up |
| `running`, `exit_code` | the globals of the same names (globals.c) |
| `status` | how the process ended: exit code 0, another one, `exit(-1)` in `redstore_log`, a signal |
| `sockets`, `ready` | the server's array of listening sockets; what `select` returned and the round has not come to |
| `storage` | not open, open, freed |
| `conn`, `response`, `headers_sent`, `version` | the accepted connection; what the handler returned, with content (`page`) or without (`empty`); the fields of response and request of these names |
| `queue` | connections in the kernel, for each socket |
| `phase`, `kind`, `wire` | each client: connected, request sent, `stalled` (its headers are sent, but it sends no body or does not read its answer), hung up, served; what it asks for; what it has been sent |
| `late`, `fatal` | history: connections accepted after `running` was cleared; a fatal message has been logged |

`setup(i)` and `setup_fails(i)` are the steps of redstore.c:383-417 and their
`goto cleanup`; `while`, `redhttp_server_run` and `select` are separate
because a signal falls between them; `accept` takes the sockets in array
order and `scan_ends` goes back to `main`. `identify`,
`redhttp_request_read`, the three `dispatch_` actions with `stream` and
`fetch_returns`, `redhttp_response_send` and `close` are
`redhttp_server_handle_request` in order. `termination_handler` may run
between any two steps and interrupts only `select` (`signal()` restarts
reads); `redland_log_handler` is a fatal message from librdf in any place
that calls it. `broken_pipe` is what happens without a SIGPIPE handler.

The thread waits in `select`, and in three kinds of call without a time limit:
a read from a client that has not sent everything (request.c:75, 522,
update.c:224), a write to one that does not read (formatters.c:63,
response.c:275), the fetch of a `/load` (update.c:320). `Held` says that it is
in one of the three. `transmit` leaves it to the client whether it will send its
body and take its answer (`sent`) or not (`stalled`); the steps that depend
on this stay possible for a stalled client, which may come round, but nothing
makes them happen.

A client's request is one unit: a body that a handler reads from the socket
counts as part of `redhttp_request_read`, so a client that stops within the
body holds the thread there, one call earlier than in the code. A client who
hangs up may leave a request whose headers end early, which the code takes
for complete. `/load` of the server's own URI is the one case in which the
server is its own client (`Self`); an abandoned connection of this kind stays
in the queue, and the model has one of them at a time. A `/load` from
elsewhere waits in the same place (`fetch`), and may wait for ever. The kernel's queue has
`Backlog` places. Option parsing, and signals before the handlers are
installed, come before `Init`.

## 4. The model of routing

`Routing` fills the place of `dispatch` in `Server` from the other side: which
handler gets the request. One request at a time, one action per row of the
table that the dispatcher looks at.

| variable | code |
|---|---|
| `request` | method and path of the request in hand |
| `it` | the row the loop of server.c:381 is at, by number |
| `path_glob` | the field of the request; `FREED` once it points at freed memory, which `redhttp_request_set_path_glob` leaves behind when the new glob is empty |
| `declined` | history: rows whose handler returned NULL |
| `response` | who answered (0: the dispatcher itself), the code if it is known here, the Allow header, whether there is content, the Location of a redirect |

`Table` is a constant, so the theorems hold for every table; `RouteTable` is
the one that `redstore_setup_http_server` builds, in its order. A handler is
known by what it may do to routing: it `passes` always (the counter, the log,
the reset of the error buffer), `answers`, or is `remove_trailing_slash`. One that
`answers` may return NULL all the same: when it gets no memory for its response
(pages.c:90, 128), and for a service description that cannot be built
(description.c:540). The request then goes on to the rows after it, and when
the last one has failed, too, the dispatcher answers itself. A path is a sequence of pieces, cut
where the code may look. `follow` is a client that goes where a redirect
sends it. With an empty path `remove_trailing_slash` reads the byte before
the string: it may then redirect or not.

The limit of 50 methods in an Allow header and its length are left out;
RedStore uses five methods.

## 5. The model of content negotiation

| variable | code |
|---|---|
| `pc` | where the negotiation is: `parse` between two elements of the header, `sort` and `pass` in the two loops of `redhttp_negotiate_sort`, `choose` in the loops that choose |
| `rest`, `menu`, `loop` | what is left of the header; what can be chosen; which copy of the choosing loops runs, `redhttp_negotiate_choose` (`choose`) or the one in `redstore_negotiate_format` (`format`) |
| `nodes`, `next`, `first` | the allocated `redhttp_negotiate_t`, their `next` pointers, and the pointer to the first |
| `a`, `b`, `c`, `e` | the locals of `redhttp_negotiate_sort` |
| `s`, `it`, `best_score`, `best` | the offer and the node that are compared; the best so far |
| `request`, `at`, `ready`, `chosen`, `code`, `response`, `query_count` | in `Formats`: the request, the function that negotiates, whether it has got its answer and which, the code of the page being made, the response, and the global |

`Negotiation` has the same steps with a sequence in the place of the nodes: an
element finds its place behind those of its quality or a better one, in one
step. `Negotiate` implements it, and the refinement mapping (`Abstract`) reads
the sequence off the pointers; while the sort runs, the node that was added
last does not count yet. The steps of the sort are then stutters, except the
one that ends it.

An element is written as a type and a parameter `q`, with its value in
hundredths and the number of characters it takes, because the scan of
negotiate.c:99 stops three characters before the end of the element and so
never reads `q=0` or `q=1`. An element without any text before its comma runs
into the assertion of `redhttp_negotiate_add` and ends the process. The type
itself is a model value.

`Formats` adds the callers: which menu, which default, what a missing format
leads to. The service description negotiates twice, in
`handle_description_get` and again in `format_graph_stream`; an error page
negotiates for itself, after the handler's negotiation failed. What librdf
finds (a query that fails, a graph that is not there) is free, and so is
whether a request to `/data` names one graph (else 400). A description that
cannot be built goes on to the later rows (`PassedOn`): 404, or for GET of
`/sparql/` the redirect of `remove_trailing_slash`.

Left out: elements of blanks only (the length in `redhttp_negotiate_add` then
wraps around), formats of librdf without a MIME type, failing `malloc`s.

## 6. The model of a request

`Request` has one connection. The client sends the lines of the head and the
bytes of the body one by one (`Send`) and may stop for ever or hang up at any
point (`HangUp`); the server reads them as request.c does.

| variable | code |
|---|---|
| `message` | what the client means to send: request line, header lines, body |
| `sent`, `closed`, `taken` | how much of it is on the way, whether more will come, how much the server has read from the socket |
| `pc` | `status`, `headers`, `content` in `redhttp_request_read`, `dispatch` in a handler, `done`; `aborted` by an assertion |
| `headers`, `arguments` | the lists of the request |
| `response`, `work` | the status code; operation, graph and content that librdf was called with |

Strings whose text matters (targets, arguments, hosts, graphs) are sequences of
bytes, and `Url` has the functions that take them apart: `redhttp_url_unescape`,
`redhttp_url_escape`, `redhttp_request_parse_arguments`, the two lookups. They
are recursive functions over sequences, so TLC runs them on any input and
`UrlProofs` can reason about them. Names of headers are values. `Host` is the client's own word for what the message
says; the properties compare it with what the server has understood.

Everything that librdf decides is a 200 here: `GraphStore` takes over with the
graph and the content in `work`. Of the other paths RedStore serves, none
changes the store through a body or `graph` argument but `/load`, and none is
asked for here (`RequestAssumption`). What is asked for is what has no handler
at all: a link of the index may lead there, and `handle_not_found` answers 404,
or 301 where the path ends in a slash. A form sent to `/data` is read twice, by the
request parser and by the handler, which takes what stands behind the body. URLs stand without their
`http://`, and a `graph` argument is taken for an absolute URI. The other
assumptions are about constants of the code: `/data` contains no `?`, `%` and `+`, the three
names of arguments are in lower case and not empty, `graph` and `default` are
two, and the URIs of stored graphs are not empty, which raptor refuses.

Left out: NUL bytes and carriage returns within a line, negative values of
Content-Length (`GraphStore` has them as `badLength` or `short`), relative
`graph` arguments, methods that only begin with POST, failing `malloc`s.

## 7. Runs

| run | question | states |
|---|---|---|
| `store` | what do the codes say about the store, with failures logged; do the steps refine `StoreContract` | 840 000 |
| `orderly` | does every handler come to its response unless it waits for somebody else; does a client who repeats a POST get a new graph; with a storage that buffers | 140 000 |
| `server` | responses, stop requests and exit codes, with two clients, two sockets and everything that can go wrong | 4 400 000 |
| `server_served` | is a client served, is a stop request obeyed, and what alone prevents it | 490 000 |
| `routing` | with RedStore's table: who answers, what is in `path_glob`, are the books kept, what is in an Allow header, do redirects end | 4 300 |
| `formats` | is the best type chosen, is the answer of an accepted type, does the list do what the sequence does, does it end | 440 000 |
| `request` | is what is loaded, inserted, deleted and read what the client sent and named; is everybody answered | 180 000 |
| `empty_graph` | violated: a 201 names a graph that cannot be read | |
| `warning` | violated: a 500 because of Redland tells nothing | |
| `silent_clear` | violated: a PUT answered 200 keeps old triples | |
| `server_signal` | violated: a signal stops the server | |
| `error_page` | violated: what cannot be negotiated is answered | |

**Bounds.** Two named graphs and the default graph are what it takes for a
request to disturb another graph, for `?graph=` to disagree with the path and
for both identifiers to be taken. Two triples are what it takes for a load to
stop half-way and for a clear to leave a part. The documents
(`MCDocs`) have a message of each level before, between or after statements,
and one has none. `IdSpace` = 2 and `MaxAttempts` = 2 let a POST exhaust its
attempts; `LongSpace` = 4 lets the counter wrap to the unseeded 0;
`CountSpace` = 2 makes the request before and the one at hand distinct. There
is no bound on the length of a behaviour. `orderly` has one
triple, because its state has the disk as a second store, and `CountSpace` = 1,
since nothing in it depends on whose message it was. With two identifiers, two
attempts and a counter that is seeded anew after 3, a request may try the same
identifier twice and miss the one that is free.

Of the process, two clients and two sockets are what it takes for one
connection to wait behind another, on the same socket or on the next one, and
for a signal to arrive in the middle of a round; `Backlog` = 2 lets both wait
on one socket. `server_served` keeps one place per queue and the three kinds of
request that hold the thread in different places: one whose result is streamed,
a `/load` from elsewhere and a `/load` of the own URI.
`server_signal` needs nobody but the thread and the signal.

For routing, the paths (`MCPaths`) are all those of the table, several of them
with one or two slashes behind them or with more below, an unknown one, the
empty one and `*`; the methods are those of the table and `OPTIONS` and one
that has no row. The last row of RedStore's table takes everything
(`LastRowTakesAll`), so the dispatcher comes to the answers it has of its own,
HEAD, OPTIONS and 405, only when that row has failed, and `AllowIsTrue` is about
these. `TableIsApart` checks the hypothesis of `GlobsAreOwn`.

For negotiation, one element of any kind, two of many and three or four of
four kinds, with four qualities, are what the sort needs to swap at the head
and further down, to meet equal qualities on both sides, and to make a second
pass; `Menus` are the three the handlers use, cut down to a type of low
quality, a format with two types and a type with two formats. Headers are
crossed with every handler for short ones and with one handler for each of the
two loops for long ones.

For requests, a path, an argument's name or a host has one letter. The query
strings have the arguments with and without a value, in both orders, with
separators in odd places, with escapes in names and values; the bodies are
shorter than declared, as long, longer, and sent twice; the graphs' URIs have
each byte that an escape has to hide, and there are URIs on this host: below
`/data`, with and without arguments that name a graph, `/data` itself, and
others that RedStore serves nothing under. One client is enough: the process serves
one connection at a time, and a request is freed before the next.

**Fairness.** In `GraphStore`, `FairSpec` assumes only that the handler goes on
as long as it does not wait for somebody else: weak fairness of
`StorageSteps /\ ~ Waiting`. The server has one
thread and nothing else to do, and librdf calls are taken to return, except the
parser of `/load`, which fetches its document; `Waiting` is that call and the
`fread` of a body. `EveryHandlerReturns` names it: a handler comes to its response, or the process
ends, or it waits for ever. Nothing is assumed about signals or crashes.
`RetrySpec` adds strong fairness (run `orderly`) of the successful turn of
`post_to_new_graph` and of the successful `read_body` of a POST to `/data`:
librdf does not refuse for ever to make a node and a parser, nor the client to
send the body it announced. `NewGraphEventually` states its other premises
itself: the client keeps asking with readable documents, the process lives,
some identifier stays free.

In `Server`, `FairSpec` is weak fairness of `Thread /\ ~ Held`, the steps the
thread takes when nothing goes wrong and nobody holds it; `fetch_returns` has
no fairness: a time limit would be the fetching library's, the sources set
none. Nobody counts on clients or on remote servers. So the liveness properties
name their exceptions: `<>[]Held`, one connection that keeps the thread for
ever by a read, a write or a fetch, and, for a stop request, a thread
parked in `select`.

In `Routing`, `FairSpec` is weak fairness of the dispatcher, which calls one
handler after the other without waiting, and of `follow`: `RedirectsEnd` is
about clients that follow redirects, at once. In `Formats` it is weak fairness
of the handler: the loops run on, librdf returns. In `Request` it is weak
fairness of the server, which waits in `fgetc` and `fread` as long as nothing
has come and nobody has hung up; nothing is assumed about the client, and
`EveryMessageIsAnswered` says for which clients the server does not wait.

**Deadlock** is checked in the runs of `GraphStore` and `Routing`. Those of
`Server`, `Formats` and `Request` stop when the process has ended, those of
`Request` also when the client is silent or served, and say `CHECK_DEADLOCK
FALSE`; that a process ends only in the ways the code has is
`SuccessMeansClean`, `OnlyAcceptEndsProcess` and `AbortsOnlyOnEmptyName`.

### What the violated runs show

* `empty_graph`: `load_stream_into_new_graph` answers 201 with a Location
  when no message was logged, also for a document without statements. librdf
  knows a context only through its triples, so GET of the Location is 404.
  The integration test says of a POST that the new graph can be read again.
* `warning`: `redland_log_handler` creates the buffer for a message of any
  level and fills it for errors only; the handlers take the buffer's existence
  for a failure. After a warning a complete load is answered 500 without an
  explanation.
* `silent_clear`: `clear_and_load_stream_into_graph` ignores the result of the
  removal, which data.c tests everywhere. If librdf refuses without logging,
  PUT adds instead of replacing and answers 200. `SuccessIsExact` therefore
  holds under `StorageFaults = {"logged"}` only, and its theorem says so.
* `server_signal`: a signal that arrives when `main` has tested `running` and
  `select` has not begun to wait clears the flag, and the thread waits for a
  connection all the same. `StopsUnlessParked` shows that this and a held
  thread are the only ways in which a stop request is not obeyed; the test
  suite's `stop_redstore` sends its signal repeatedly, which helps.
* `error_page`: `redstore_page_new_with_message` compares the negotiated format
  before it tests it. A client whose `Accept` header has none of the three
  types of a page (an RDF client, `application/rdf+xml`) and whose request ends
  in an error page ends the process; so does the graph index, whose branch for
  "No acceptable format supported." is behind the comparison. `OnlyAcceptEndsProcess`
  shows which headers end the process: those without a type of a page, here, and
  those with an element without text, at an assertion (negotiate.c:211).

### What the models have besides

Three things that a user would not expect are in the models as the code has
them. No run is violated by them; the properties are worded so that they say them.

* The dispatcher answers HEAD where GET has a row (server.c:389-399), as the
  library's test expects (check_server.tc:117), but only when no row has answered.
  RedStore's last row answers every request, so HEAD of `/query`, `/graphs` and
  every other page outside `/data` is a 404 (`AnsweredByFirst`).
* The request parser reads the body of every form (request.c:522). The handler of
  `/data` then reads as many bytes again: it loads what the client sends behind
  the body, and waits for it if nothing comes (`LoadsAsDeclared`, and the
  exception in `EveryMessageIsAnswered`).
* The index prints the URI of a graph as its own link where it contains the URL
  of this host (graphs.c:71). But RedStore serves graphs below `/data` only:
  a graph `http://host/z` has a link that is 404, one named `http://host/data`
  one that is 400, and one with an argument `default` or `graph` in its URI a
  link to that graph. `IdentifiesGraph` says which links do lead to their graph.

## 8. Proofs

`GraphStoreProofs.tla` proves, for all values of the constants that satisfy
its two assumptions (`ConstantsAssumption`, and `NullAssumption`, which keeps
`NULL` apart from the values it stands beside):

| theorem | statement | further assumption |
|---|---|---|
| `TypeCorrect` | `[]TypeOK` | |
| `RequestsAreConfined` | `[](OnlyTargetTouched /\ RejectionChangesNothing /\ CreatedGraphIsNew)` | |
| `RejectionsAreClean`, `NewGraphsAreNew` | its parts `[]RejectionChangesNothing`, `[]CreatedGraphIsNew` | |
| `AcknowledgementsAreClean` | `[]AcknowledgedIsClean` | |
| `ResponsesQuoteTheirOwn` | `[]ErrorsAreOwn` | |
| `SuccessesAreExact` | `[]SuccessIsExact` | `StorageFaults \subseteq {"logged"}` |
| `CrashIsConfined` | `CrashTearsOnlyTarget` | `WriteThrough` |
| `ContractIsKept` | `ImplementsContract`: the handlers, call by call, implement `StoreContract` | `WriteThrough`, `StorageFaults \subseteq {"logged"}` |

None of these is inductive. The invariants, in the order in which they build
on each other:

* `Typed`: `TypeOK` and, for each operation, the places where it can be
  (`StageOK`): a PUT is never at `unload`.
* `Confined`: `before` and `store` agree outside the request's graph, are
  equal until the first change (`Untouched`), and a POST of a new graph has an
  empty target in `before`.
* `Synced`: with write-through, `durable = store` whenever a process is there.
* `Reported`: the error buffer is own while a request is being handled.
* `Noticed`: what has been read of the document and contained an error has
  left a buffer that is not `NULL`.
* `Exact`: the store equals the effect of what has been read so far, or the
  buffer is not `NULL`, or `err` is set. This is what ties the status code,
  which looks at the buffer only, to the store.
* `Progress`: at every moment of a request the store lies between what it was
  and what the request makes of it (`Between`), and what is left of the
  parser's stream comes from the document. This is what a 500 promises.

`ContractIsKept` goes step by step: the step that makes the response is the
contract's answer (`AnswerIsAllowed`), every other step of a handler leaves
what the contract sees alone (`WorkIsInvisible`), and a crash within a request
is the contract's `Vanish`. Its hypotheses are those of the run `store`, and
both are needed: a storage that buffers may show after a crash what was removed
from several graphs, and the run `silent_clear` shows what a failure without a
message does.

The dispatch actions are summarised once (`Accept(r)`: what any handler does
to the state, lemma `HandlersAccept`), so that each invariant has one case for
dispatch and one per storage step.

`ServerProofs.tla` proves every safety property of `Server`, for any number
of clients and sockets and any backlog, from `ServerAssumption`:

| theorem | statement | inductive invariant |
|---|---|---|
| `TypeCorrect` | `[]TypeOK` | `Typed`: the types; a socket that `select` named has a connection until it is accepted; `running` only while `exit_code` is 0 |
| `SuccessIsClean` | `[]SuccessMeansClean` | `Ending`: where the storage is open, and that the clean-up finds it open or `exit_code` set |
| `LastRound` | `[]StopsPromptly` | `Rounds`: connections accepted late and sockets left in the round are together at most the sockets |
| `ResponsesAreSingle` | `[]OneResponse` | `Apart`: no peer is in two queues, or queued and being served; `Answering`: what has been sent and which version was read at each place |

`TypeOK` is not inductive: that a living process counts at most one fatal
message needs that `running` is cleared by the first, and that `accept` finds
a connection needs what `select` saw to be still there, whatever the network
does in between.

`RoutingProofs.tla` proves for any table, methods and paths, from
`RoutingAssumption`:

| theorem | statement | inductive invariant |
|---|---|---|
| `TypeCorrect` | `[]TypeOK` | `Typed`: the types, and no response without a request |
| `FirstAnswers` | `[]AnsweredByFirst` | `AskedInOrder`: every row before `it` that the request was meant for has declined, and who answered is at `it` |
| `GlobsAreOwn` | `GlobsApart` gives `[]GlobIsOwn` | `GlobKept`: a glob that is there was set by a row the dispatcher has come past, and is what that row leaves of the path |
| `BooksAreFirst` | `PassesFirst` gives `[]BooksFirst` | from `AskedInOrder` and `Given`: what the dispatcher's own answers say is what the table says of the path, and no row that passes has answered |
| `AllowIsAlwaysTrue` | `[]AllowIsTrue` | from `Given` |
| `RedStoreBooksFirst` | `[]BooksFirst` for RedStore's table and any methods and paths | that its rows satisfy `PassesFirst` |

`MatchIsOffered` ties the C comparison of prefixes (`match_route`) to what a
row means (`Offered`). `GlobsApart` says that no glob is a prefix of another
one for the same method. Without it a second glob row can find a freed
pointer, which is why it is an assumption about tables and not a theorem;
the library does not enforce it.

The books depend on what the table's handlers do, and the theorem names what it
needs as a hypothesis on the table. `PassesFirst`: the rows that only keep
books take every request and come before all others.

`NegotiationProofs.tla` proves, for any headers and menus, from
`NegotiationAssumption`:

| theorem | statement | inductive invariant |
|---|---|---|
| `TypeCorrect` | `[]TypeOK` | `Typed`: the types and the order |
| `ListIsInOrder` | `[]InOrder` | the same, with a lemma on inserting into a sequence in order |
| `BestIsFound` | `[]ChosenIsBest` | `Choosing`: the best so far is the first best of the pairs the loops have come past (`BestSoFar`), those counted in that were left out by the early end of the inner loop, which the order makes sound |

`FormatsProofs.tla` proves every safety property of `Formats`, and the
refinement, from `NegotiationAssumption` and `FormatsAssumption`:

| theorem | statement | inductive invariant |
|---|---|---|
| `ListIsAbstract` | `ImplementsNegotiation` | `Inv` of `NegotiateProofs` |
| `BestIsChosen` | `[]ChosenIsBest` | carried over from `BestIsFound` by the refinement |
| `TypesAreKept` | `[]TypeOK` | `Shown` |
| `AcceptIsAlwaysHonoured`, `ArgumentAlwaysGoesFirst`, `DescriptionIsSent`, `OnlyAcceptEnds` | `[]AcceptIsHonoured`, `[]ArgumentGoesFirst`, `[]DescriptionIsNotRefused`, `[]OnlyAcceptEndsProcess` | `Shown` |

`Inv` says of the linked list that there is an arrangement `l` of all nodes
(`Holds`): the pointers follow `l` from `first` to the end (`Linked`); while the
sort runs, `l` is in the order of the qualities except for the node that was
added last, which stands at some place `p` on its way forward from the end, and the
pass is at a place `x` (`Sorted`); between the sorts `l` is in order
(`AtRest`). A swap moves it by one place, so that the pointers follow
another arrangement, and the sort ends when the node has come behind those of
its quality or a better one, which is where `Negotiation` puts it. The
refinement mapping reads the sequence off the pointers with a recursive
function, `Chain`; an arrangement determines what it computes.

`Shown` is `TypeOK` with `AcceptIsRead` (what the list and the rest of the
header hold is together what the client asked for), `Decided` (what a
negotiation found is on the menu and on the header, and nothing only if they
share nothing), `Underway` (which requests can be at which function, and with
which code an error page is being made) and the four properties themselves.

`RequestProofs.tla` proves, for any messages, paths and names, from
`RequestAssumption`:

| theorem | statement | inductive invariant |
|---|---|---|
| `MessageIsUnderstood` | `[]Understood` | `Typed`; `Placed`: where in the message the server is at each `pc`; `Heard`: the headers kept are the usable ones among the lines read, in their order; `Worked`: what librdf was called with |
| `LoadsAreWhole` | `[]LoadsAsDeclared` | from `Understood` (`Before`: a handler begins to read behind the head or, of a form, behind the body) |
| `GraphIsNamed` | `[]GraphIsTheOneNamed` | from `Understood`: with a whole head the first Host header kept is the first that says something |
| `InsertsAreSent` | `[]InsertsWhatWasSent` | `Listed`: the arguments are at any moment those of the query string, or those and then the ones of the complete form; `Addressed`: which content and graph librdf was called with |
| `LinksLead` | `[]LinkLeadsToGraph` | from the same, and `Refused`: why a GET that is over was not carried out |
| `AbortsAreNamed` | `[]AbortsOnlyOnEmptyName` | `Listed`, at the two places that add arguments and the one that adds headers |
| `MessageIsServed`, `TypesAreKept` | `[](Listed /\ Answered /\ Addressed)`, `[]TypeOK` | `Answered`: the code of the answer fits what librdf was called with |

`UrlProofs.tla` has what these need about strings. Each function of `Url` that
walks along a string takes a piece off its front and goes on with a shorter
rest; `PeelingEnds` shows that there is such a function, whatever the pieces
(it is put together from functions that are right up to a given length), so
that the recursive definitions may be unfolded. A statement about all
strings then follows from a shortest one for which it would be wrong. In this
way `EscapeComesBack`: unescaping gives back what was escaped, for every string
of the bytes 1 to 127. `EscapedIsOneArgument` adds that an escaped string has no
separator in it, and `ParsedOne` that a name, `=` and such a string are one
argument with this name and the unescaped string for its value. `LinksLead` puts
them together for the link that `Link` builds.

Every safety property that a passing run checks, and both refinements, are thus
theorems; so is the action property of `GraphStore`. Each is a
theorem about `Spec`, which the `FairSpec` of the same module implies.
Liveness (`EveryHandlerReturns`, `NewGraphEventually`, `ServedUnlessHeld`,
`StopsUnlessParked`, `RedirectsEnd`, `EveryRequestEnds`,
`EveryMessageIsAnswered`) is model-checked only: fairness rests on `ENABLED`,
which the prover cannot treat.

## 9. Plan

1. `GraphStore`, `StoreContract`, runs and the theorems above: done.
2. `Server`, its runs and theorems: done.
3. `Routing`, `RouteTable`, their runs and theorems: done.
4. `MediaTypes`, `Negotiation`, `Negotiate`, `Formats`: done, with the
   theorems on `Negotiation`.
5. `Url`, `Request`, their runs and theorems: done.
6. The proof that `GraphStore` implements `StoreContract`: done.
7. The proof that `Negotiate` implements `Negotiation`, and the theorems on
   `Formats`: done.
8. The theorems on what `Url` computes and on `Request`'s arguments: done.
9. Open: a model of `redhttp/response.c` and of the counts that
   `description.c` makes.

## 10. Not modelled

* What librdf and raptor do inside a call: parsers, serialisers, query
  evaluation, storages. They are free to do what the sources allow for.
* The content of the service description, of the index and of the pages, and
  of log lines; constant text and HTML.
* The addresses of the two ends of a connection. `len` in
  redhttp/server.c:181 is set once for a round, so that after an IPv4
  connection the logged address of an IPv6 one may be cut; nothing else
  depends on it.
* The signal handler's output through stdio (redstore.c:43), which the
  interrupted thread may be using: undefined inside libc.
* The 400 of redhttp/server.c:270, which is sent before any row is asked, is not
  counted or logged; `BooksFirst` is about the dispatcher.
* What `remove_trailing_slash` does to the heap: its copy of the path goes into a
  buffer that is one byte short (redstore.c:87-89).
* Where a link of the index leads that a browser cuts at a `#`, or that names
  this host somewhere behind its own.
* The end of an acknowledged change in an orderly stop: librdf writes its
  buffers when the storage is freed. `SuccessMeansClean` says that a process
  that reports success has freed it.
* Construction of redirects and error pages by redhttp/response.c, dates.
* Failing `malloc`s that are not tested, or are the dispatcher's own, and negative Content-Length in
  `Request`.
* The Mac OS X wrapper, the example server of redhttp, the build scripts.
