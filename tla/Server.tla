------------------------------- MODULE Server -------------------------------
(***************************************************************************)
(* The process of RedStore and its HTTP loop: main of src/redstore.c, the  *)
(* accept loop of src/redhttp/server.c, the order in which a request is    *)
(* read, handled, answered and closed, and who sends the headers.          *)
(*                                                                         *)
(* There is one thread.  Around it are clients, who connect, send their    *)
(* request, stop half-way, read no answer or hang up when they like; a     *)
(* kernel that queues connections; signals, which run their handler        *)
(* between any two steps of the thread; and librdf, which may log a fatal  *)
(* message in any call and waits for documents that /load names.           *)
(*                                                                         *)
(* What the handlers do to the store is the subject of GraphStore.         *)
(***************************************************************************)
EXTENDS Integers, Sequences, FiniteSets

CONSTANTS
  Sockets,   \* positions of the listening sockets in the server's array
  Clients,
  Self,      \* RedStore as a client of its own, when /load names its own URI
  NULL,      \* C's NULL
  Backlog,   \* connections the kernel queues for a socket
  Kinds      \* what clients ask for

\* What a client can ask for: a page; a result that its handler streams
\* into the socket; either of them in HTTP/0.9; a request line that is none;
\* a POST without the headers it needs; a /load of a document elsewhere, or
\* of a URI this server serves.
AllKinds == {"page", "stream", "simple", "garbled", "bad", "load", "self"}

ASSUME ServerAssumption ==
  /\ Sockets \subseteq Nat
  /\ IsFiniteSet(Sockets)
  /\ Self \notin Clients
  /\ NULL \notin Clients \cup {Self, "0.9", "1.0", "page", "empty"}
  /\ Backlog \in Nat \ {0}
  /\ Kinds \subseteq AllKinds

Peers == Clients \cup {Self}

VARIABLES
  pc,            \* where the thread is
  running,       \* the flag main loops on
  exit_code,     \* what main will return
  status,        \* how the process ended
  sockets,       \* the listening sockets
  storage,       \* the storage: not open, open, or freed, its buffers written
  ready,         \* select's result, as far as it has not been looked at
  conn,          \* the connection being served
  response,      \* what the handler has returned
  headers_sent,  \* its field of that name
  version,       \* the HTTP version of the request, as far as it has been read
  queue,         \* connections waiting in the kernel, for each socket
  phase,         \* each peer's side of its connection
  kind,          \* what it asks for
  wire,          \* what it has been sent
  late,          \* history: connections accepted after running was cleared
  fatal          \* history: a fatal message has been logged

process == <<pc, running, exit_code, status, fatal>>
connection == <<conn, response, headers_sent, version>>
network == <<queue, phase, kind, wire>>
vars == <<pc, running, exit_code, status, sockets, storage, ready, conn,
          response, headers_sent, version, queue, phase, kind, wire, late, fatal>>

\* main, in order; then the loop; then a request.
Setup == <<"redstore_setup_http_server", "redstore_setup_storage", "librdf_new_model",
           "redstore_load_input_file", "description_init", "redhttp_server_listen", "while">>
Loop == {"while", "redhttp_server_run", "select", "scan"}
Request == {"identify", "read", "dispatch", "fetch", "stream", "send", "close"}
Cleanup == {"free_storage", "free_server"}
Places == {Setup[i] : i \in 1 .. 7} \cup Loop \cup Request \cup Cleanup \cup {"exited"}

Alive == pc # "exited"

\* The thread is in a call that may never return, for no call has a time
\* limit: it reads from a client that does not send, writes to one that does
\* not read, or fetches a document for /load.
Held ==
  \/ pc = "fetch"
  \/ /\ conn # NULL
     /\ \/ pc = "read" /\ phase[conn] = "connected"
        \/ pc \in {"read", "dispatch", "stream", "send", "close"} /\ phase[conn] = "stalled"

-----------------------------------------------------------------------------
(* Ends and fatal messages                                                 *)

\* The process ends; the kernel takes its descriptors.
Exit(how) ==
  /\ pc' = "exited"
  /\ status' = how

FatalAgain(next) ==
  /\ fatal' = TRUE
  /\ exit_code' = exit_code + 1
  /\ running' = FALSE
  /\ pc' = next
  /\ UNCHANGED status

\* redstore_log on a fatal message: the server stops at its next look at
\* running, or, when it was stopping already, exits on the spot.
redstore_fatal(next) ==
  /\ fatal' = TRUE
  /\ exit_code' = exit_code + 1
  /\ running' = FALSE
  /\ IF running THEN pc' = next /\ UNCHANGED status
                ELSE Exit("immediate")

-----------------------------------------------------------------------------
(* main                                                                    *)

\* One of main's steps succeeds.  The storage is there after its step, the
\* sockets after theirs: those that could be bound.
setup(i) ==
  /\ pc = Setup[i]
  /\ pc' = Setup[i + 1]
  /\ storage' = IF Setup[i] = "redstore_setup_storage" THEN "open" ELSE storage
  /\ IF Setup[i] = "redhttp_server_listen"
       THEN sockets' \in SUBSET Sockets \ {{}}
       ELSE UNCHANGED sockets
  /\ UNCHANGED <<running, exit_code, status, fatal, ready, connection, network, late>>

\* Or it fails, and main goes to its clean-up.
setup_fails(i) ==
  /\ pc = Setup[i]
  /\ redstore_fatal("free_storage")
  /\ UNCHANGED <<sockets, storage, ready, connection, network, late>>

KeepGoing == pc' = "redhttp_server_run"
TestRunning == pc' = IF running THEN "redhttp_server_run" ELSE "free_storage"

while ==
  /\ pc = "while"
  /\ TestRunning
  /\ UNCHANGED <<running, exit_code, status, fatal, sockets, storage, ready,
                 connection, network, late>>

\* librdf writes its buffers when model and storage are freed.
free_storage ==
  /\ pc = "free_storage"
  /\ pc' = "free_server"
  /\ storage' = IF storage = "open" THEN "freed" ELSE storage
  /\ UNCHANGED <<running, exit_code, status, fatal, sockets, ready, connection, network, late>>

ExitSuccess == Exit("success")
ExitCode == Exit(IF exit_code = 0 THEN "success" ELSE "failure")

\* redhttp_server_free closes the listening sockets, main returns.
free_server ==
  /\ pc = "free_server"
  /\ ExitCode
  /\ UNCHANGED <<running, exit_code, fatal, sockets, storage, ready, connection, network, late>>

-----------------------------------------------------------------------------
(* redhttp_server_run                                                      *)

\* The thread is on its way from main's test to the system call.
redhttp_server_run ==
  /\ pc = "redhttp_server_run"
  /\ pc' = "select"
  /\ UNCHANGED <<running, exit_code, status, fatal, sockets, storage, ready,
                 connection, network, late>>

\* select waits until a connection is queued.
select ==
  /\ pc = "select"
  /\ \E s \in sockets : queue[s] # <<>>
  /\ ready' = {s \in sockets : queue[s] # <<>>}
  /\ pc' = "scan"
  /\ UNCHANGED <<running, exit_code, status, fatal, sockets, storage, connection, network, late>>

\* It fails otherwise than by a signal.
select_fails ==
  /\ pc = "select"
  /\ Exit("failure")
  /\ UNCHANGED <<running, exit_code, fatal, sockets, storage, ready, connection, network, late>>

AfterFirst(s) == {}
Others(s) == ready \ {s}

\* The ready sockets are gone through in array order, one connection each.
accept ==
  /\ pc = "scan"
  /\ \E s \in ready :
       /\ \A r \in ready : s <= r
       /\ conn' = Head(queue[s])
       /\ queue' = [queue EXCEPT ![s] = Tail(@)]
       /\ ready' = Others(s)
  /\ pc' = "identify"
  /\ response' = NULL
  /\ headers_sent' = FALSE
  /\ version' = NULL
  /\ late' = IF running THEN late ELSE late + 1
  /\ UNCHANGED <<running, exit_code, status, fatal, sockets, storage, phase, kind, wire>>

\* The connection is gone again, or there is no descriptor left for it.
accept_fails ==
  /\ pc = "scan"
  /\ ready # {}
  /\ Exit("failure")
  /\ UNCHANGED <<running, exit_code, fatal, sockets, storage, ready, connection, network, late>>

scan_ends ==
  /\ pc = "scan"
  /\ ready = {}
  /\ pc' = "while"
  /\ UNCHANGED <<running, exit_code, status, fatal, sockets, storage, ready,
                 connection, network, late>>

-----------------------------------------------------------------------------
(* redhttp_server_handle_request                                           *)

\* The addresses of both ends are looked up; if that fails the connection is
\* closed without a word.
identify ==
  /\ pc = "identify"
  /\ pc' \in {"read", "close"}
  /\ UNCHANGED <<running, exit_code, status, fatal, sockets, storage, ready,
                 connection, network, late>>

\* redhttp_request_read waits until it has a request, or something else, or
\* the client hangs up, which may have left it a request, headers without
\* their end, or nothing.
redhttp_request_read ==
  /\ pc = "read"
  /\ phase[conn] # "connected"
  /\ \/ /\ kind[conn] \notin {"garbled", "bad"}
        /\ version' = IF kind[conn] = "simple" THEN "0.9" ELSE "1.0"
        /\ pc' = "dispatch"
        /\ UNCHANGED response
     \/ /\ \/ phase[conn] = "gone" /\ version' \in {NULL, "1.0"}
           \/ kind[conn] = "garbled" /\ version' = NULL
           \/ kind[conn] = "bad" /\ version' = "1.0"
        /\ pc' = "send"
        /\ response' = "page"
  /\ UNCHANGED <<running, exit_code, status, fatal, sockets, storage, ready,
                 conn, headers_sent, network, late>>

\* redhttp_response_send, as far as what it writes: headers, unless they are
\* out already or the version has none, and the content of a page.
Headers == IF version \in {NULL, "0.9"} THEN <<>> ELSE <<"headers">>
HeadersAlways == Headers
HeadersOnce == IF headers_sent THEN <<>> ELSE Headers
Written(r) == IF r = "page" THEN Append(HeadersOnce, "body") ELSE HeadersOnce

Send(r) ==
  /\ wire' = [wire EXCEPT ![conn] = @ \o Written(r)]
  /\ headers_sent' = TRUE
  /\ UNCHANGED <<queue, phase, kind>>

\* The handler returns a page, or a response without content, or sends the
\* headers itself and goes on to stream a result, or fetches a document.
dispatch_page ==
  /\ pc = "dispatch"
  /\ pc' = "send"
  /\ response' \in {"page", "empty"}
  /\ UNCHANGED <<running, exit_code, status, fatal, sockets, storage, ready,
                 conn, headers_sent, version, network, late>>

dispatch_stream ==
  /\ pc = "dispatch"
  /\ kind[conn] \in {"stream", "simple"}
  /\ Send("empty")
  /\ pc' = "stream"
  /\ response' = "empty"
  /\ UNCHANGED <<running, exit_code, status, fatal, sockets, storage, ready,
                 conn, version, late>>

\* The serialiser writes all it has, once the client has taken it, or fails,
\* which only the log will tell.
stream ==
  /\ pc = "stream"
  /\ \/ wire' = [wire EXCEPT ![conn] = Append(@, "body")]
     \/ UNCHANGED wire
  /\ pc' = "send"
  /\ UNCHANGED <<running, exit_code, status, fatal, sockets, storage, ready,
                 connection, queue, phase, kind, late>>

\* /load: the parser fetches the document.  For an own URI the fetching
\* library connects to a listening socket, or waits for room in its queue.
\* An abandoned connection of this kind stays in the queue; the model has one
\* of them at a time.
dispatch_load ==
  /\ pc = "dispatch"
  /\ kind[conn] \in {"load", "self"}
  /\ pc' = "fetch"
  /\ \/ \E s \in sockets :
          /\ kind[conn] = "self"
          /\ phase[Self] = "away"
          /\ Len(queue[s]) < Backlog
          /\ queue' = [queue EXCEPT ![s] = Append(@, Self)]
          /\ phase' = [phase EXCEPT ![Self] = "sent"]
     \/ UNCHANGED <<queue, phase>>
  /\ UNCHANGED <<running, exit_code, status, fatal, sockets, storage, ready,
                 connection, kind, wire, late>>

\* The document has come, or none: the fetching library has a time limit of
\* its own, or has not; nothing in the sources sets one.
fetch_returns ==
  /\ pc = "fetch"
  /\ pc' = "send"
  /\ response' = "page"
  /\ phase' = [phase EXCEPT ![Self] = IF @ = "away" THEN @ ELSE "gone"]
  /\ UNCHANGED <<running, exit_code, status, fatal, sockets, storage, ready,
                 conn, headers_sent, version, queue, kind, wire, late>>

\* The response is sent, headers and all if the handler has not done so, as
\* soon as the client takes it.
redhttp_response_send ==
  /\ pc = "send"
  /\ Send(response)
  /\ pc' = "close"
  /\ UNCHANGED <<running, exit_code, status, fatal, sockets, storage, ready,
                 conn, response, version, late>>

\* redhttp_request_free closes the connection; what was written for somebody
\* who has hung up is lost.
close ==
  /\ pc = "close"
  /\ pc' = "scan"
  /\ conn' = NULL
  /\ response' = NULL
  /\ headers_sent' = FALSE
  /\ version' = NULL
  /\ IF conn = Self \/ phase[conn] = "gone"
       THEN /\ phase' = [phase EXCEPT ![conn] = "away"]
            /\ wire' = [wire EXCEPT ![conn] = <<>>]
       ELSE /\ phase' = [phase EXCEPT ![conn] = "done"]
            /\ UNCHANGED wire
  /\ UNCHANGED <<running, exit_code, status, fatal, sockets, storage, ready, queue, kind, late>>

-----------------------------------------------------------------------------
(* What happens to the thread                                              *)

\* The handler interrupts select; reads are restarted.  main has installed
\* it before its first step here.
termination_handler ==
  /\ Alive
  /\ running' = FALSE
  /\ pc' = IF pc = "select" THEN "while" ELSE pc
  /\ UNCHANGED <<exit_code, status, fatal, sockets, storage, ready, connection, network, late>>

\* librdf logs a fatal message in one of its calls.
redland_log_handler ==
  /\ pc \in {"redstore_setup_storage", "librdf_new_model", "redstore_load_input_file",
             "description_init", "dispatch", "fetch", "stream", "free_storage"}
  /\ redstore_fatal(pc)
  /\ UNCHANGED <<sockets, storage, ready, connection, network, late>>

\* Writing to a client that has gone ends the process: nobody handles
\* SIGPIPE.
broken_pipe ==
  /\ pc \in {"stream", "send", "close"}
  /\ phase[conn] = "gone"
  /\ Exit("killed")
  /\ UNCHANGED <<running, exit_code, fatal, sockets, storage, ready, connection, network, late>>

-----------------------------------------------------------------------------
(* The clients                                                             *)

connect(c, s, k) ==
  /\ Alive
  /\ s \in sockets
  /\ phase[c] = "away"
  /\ Len(queue[s]) < Backlog
  /\ queue' = [queue EXCEPT ![s] = Append(@, c)]
  /\ phase' = [phase EXCEPT ![c] = "connected"]
  /\ kind' = [kind EXCEPT ![c] = k]
  /\ UNCHANGED <<process, sockets, storage, ready, connection, wire, late>>

\* The request is sent and its answer will be read; or its headers are, and
\* whether a body follows and the answer is read is up to the client.
transmit(c) ==
  /\ phase[c] = "connected"
  /\ \E p \in {"sent", "stalled"} : phase' = [phase EXCEPT ![c] = p]
  /\ UNCHANGED <<process, sockets, storage, ready, connection, queue, kind, wire, late>>

hang_up(c) ==
  /\ phase[c] \in {"connected", "sent", "stalled"}
  /\ phase' = [phase EXCEPT ![c] = "gone"]
  /\ UNCHANGED <<process, sockets, storage, ready, connection, queue, kind, wire, late>>

\* The client has read what there is and goes.
leave(c) ==
  /\ phase[c] = "done"
  /\ phase' = [phase EXCEPT ![c] = "away"]
  /\ wire' = [wire EXCEPT ![c] = <<>>]
  /\ kind' = [kind EXCEPT ![c] = "page"]
  /\ UNCHANGED <<process, sockets, storage, ready, connection, queue, late>>

-----------------------------------------------------------------------------
Init ==
  /\ pc = Setup[1]
  /\ running = TRUE
  /\ exit_code = 0
  /\ status = "alive"
  /\ sockets = {}
  /\ storage = "none"
  /\ ready = {}
  /\ conn = NULL
  /\ response = NULL
  /\ headers_sent = FALSE
  /\ version = NULL
  /\ queue = [s \in Sockets |-> <<>>]
  /\ phase = [c \in Peers |-> "away"]
  /\ kind = [c \in Peers |-> "page"]
  /\ wire = [c \in Peers |-> <<>>]
  /\ late = 0
  /\ fatal = FALSE

\* What the thread does when nothing goes wrong.
Thread ==
  \/ \E i \in 1 .. 6 : setup(i)
  \/ while \/ free_storage \/ free_server
  \/ redhttp_server_run \/ select \/ accept \/ scan_ends
  \/ identify \/ redhttp_request_read
  \/ dispatch_page \/ dispatch_stream \/ dispatch_load \/ stream
  \/ redhttp_response_send \/ close

Trouble ==
  \/ \E i \in 1 .. 6 : setup_fails(i)
  \/ select_fails \/ accept_fails \/ fetch_returns
  \/ termination_handler \/ redland_log_handler \/ broken_pipe

Network ==
  \E c \in Clients :
    \/ \E s \in Sockets, k \in Kinds : connect(c, s, k)
    \/ transmit(c) \/ hang_up(c) \/ leave(c)

Next == Thread \/ Trouble \/ Network

Spec == Init /\ [][Next]_vars

\* The thread runs whenever nobody else holds it; nobody can count on clients
\* or on the servers behind a /load.
FairSpec == Spec /\ WF_vars(Thread /\ ~ Held)
-----------------------------------------------------------------------------
(* Properties                                                              *)

\* Every variable has its type; there is a connection exactly while a
\* request is in hand, and at most one fatal message in a living process.
TypeOK ==
  /\ pc \in Places
  /\ running \in BOOLEAN
  /\ exit_code \in 0 .. 2
  /\ Alive => exit_code <= 1
  /\ status \in {"alive", "success", "failure", "immediate", "killed"}
  /\ status = "alive" <=> Alive
  /\ sockets \in SUBSET Sockets
  /\ storage \in {"none", "open", "freed"}
  /\ ready \in SUBSET sockets
  /\ conn \in Peers \cup {NULL}
  /\ pc \in Request => conn # NULL
  /\ Alive /\ pc \notin Request => conn = NULL
  /\ response \in {NULL, "page", "empty"}
  /\ headers_sent \in BOOLEAN
  /\ version \in {NULL, "0.9", "1.0"}
  /\ queue \in [Sockets -> Seq(Peers)]
  /\ phase \in [Peers -> {"away", "connected", "sent", "stalled", "gone", "done"}]
  /\ kind \in [Peers -> AllKinds]
  /\ wire \in [Peers -> Seq({"headers", "body"})]
  /\ late \in Nat
  /\ fatal \in BOOLEAN

\* A client receives one set of headers, first, and one body, although the
\* streaming handlers send the headers themselves and the loop sends every
\* response once more (response.c:245, server.c:279); in HTTP/0.9, and when
\* its request line could not be read, a body only.
OneResponse ==
  \A c \in Peers :
    phase[c] # "gone" =>
      wire[c] \in IF kind[c] \in {"simple", "garbled"} THEN {<<>>, <<"body">>}
                  ELSE {<<>>, <<"headers">>, <<"headers", "body">>}

\* After the signal or a fatal message each listening socket gives at most
\* one more connection, wherever in the loop it arrived (server.c:179,
\* redstore.c:419).
StopsPromptly == late <= Cardinality(sockets)

\* Who sees the process succeed can rely on it: the storage was freed and
\* nothing fatal was logged, whatever signals and messages came in which
\* order (NEWS.md: "non-zero exit code if there was a fatal error").
SuccessMeansClean == status = "success" => storage = "freed" /\ ~ fatal

\* Whoever has sent a request is served, or closed, in the end, on whichever
\* socket and behind whomever, unless the process ends or one connection
\* holds the thread for ever: a client who does not finish its request
\* (request.c:75, 522, update.c:224) or does not read its answer
\* (formatters.c:63, response.c:275), or a /load whose document does not come
\* (update.c:320), from the server itself or from elsewhere.
ServedUnlessHeld ==
  \A c \in Clients :
    \/ phase[c] \in {"sent", "stalled"} ~> (phase[c] \in {"gone", "done"} \/ ~ Alive)
    \/ <>[]Held

\* A stop request is obeyed unless the thread is held for ever that way or
\* parked in select with no connection coming.
StopsUnlessParked ==
  \/ ~ running ~> ~ Alive
  \/ <>[]Held
  \/ <>[](pc = "select")

\* A stop request is obeyed (redstore.c:52: "Signal the main thead to stop").
SignalStopsServer == ~ running ~> ~ Alive
=============================================================================
