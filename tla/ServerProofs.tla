----------------------------- MODULE ServerProofs -----------------------------
(***************************************************************************)
(* Theorems about Server, for any number of sockets and clients.           *)
(***************************************************************************)
EXTENDS Server, FiniteSetTheorems, SequenceTheorems, TLAPS

\* main's steps before its loop, spelt out, and the order they come in.
Starting == {"redstore_setup_http_server", "redstore_setup_storage", "librdf_new_model",
             "redstore_load_input_file", "description_init", "redhttp_server_listen"}
Following == {<<"redstore_setup_http_server", "redstore_setup_storage">>,
              <<"redstore_setup_storage", "librdf_new_model">>,
              <<"librdf_new_model", "redstore_load_input_file">>,
              <<"redstore_load_input_file", "description_init">>,
              <<"description_init", "redhttp_server_listen">>,
              <<"redhttp_server_listen", "while">>}

LEMMA SetupOrder ==
  ASSUME NEW i \in 1 .. 6
  PROVE  <<Setup[i], Setup[i + 1]>> \in Following
<1>1. i \in {1, 2, 3, 4, 5, 6}
  OBVIOUS
<1>. QED
  BY <1>1 DEF Setup, Following

LEMMA PlacesAre == Places = Starting \cup Loop \cup Request \cup Cleanup \cup {"exited"}
<1>1. 1 .. 7 = {1, 2, 3, 4, 5, 6, 7}
  OBVIOUS
<1>2. {Setup[i] : i \in 1 .. 7} = Starting \cup {"while"}
  BY <1>1 DEF Setup, Starting
<1>. QED
  BY <1>2 DEF Places, Loop

-----------------------------------------------------------------------------
(* Types, and where each variable can have which value                     *)

\* TypeOK in two halves: the thread and the network.
Pieces == Seq({"headers", "body"})

ThreadTyped ==
  /\ pc \in Places
  /\ running \in BOOLEAN
  /\ exit_code \in 0 .. 2
  /\ Alive => exit_code <= 1
  /\ status \in {"alive", "success", "failure", "immediate", "killed"}
  /\ status = "alive" <=> Alive
  /\ sockets \in SUBSET Sockets
  /\ storage \in {"none", "open", "freed"}
  /\ ready \in SUBSET sockets
  /\ conn \in Peers \cup {NULL}
  /\ pc \in Request => conn # NULL
  /\ Alive /\ pc \notin Request => conn = NULL
  /\ response \in {NULL, "page", "empty"}
  /\ headers_sent \in BOOLEAN
  /\ version \in {NULL, "0.9", "1.0"}
  /\ late \in Nat
  /\ fatal \in BOOLEAN

NetworkTyped ==
  /\ queue \in [Sockets -> Seq(Peers)]
  /\ phase \in [Peers -> {"away", "connected", "sent", "stalled", "gone", "done"}]
  /\ kind \in [Peers -> AllKinds]
  /\ wire \in [Peers -> Pieces]

LEMMA Halves == TypeOK <=> ThreadTyped /\ NetworkTyped
  BY DEF TypeOK, ThreadTyped, NetworkTyped, Pieces

\* select's result lists sockets with a connection; before the loop there
\* is neither; a living process has at most the one fatal message that
\* stopped it.
Booked ==
  /\ \A s \in ready : queue[s] # <<>>
  /\ pc \in Starting \cup {"while", "redhttp_server_run", "select"} => ready = {}
  /\ pc \in Starting => sockets = {}
  /\ running => exit_code = 0
  /\ Alive => (fatal <=> exit_code = 1)

Typed == ThreadTyped /\ NetworkTyped /\ Booked

LEMMA TypedInit == Init => Typed
<1>. SUFFICES ASSUME Init PROVE Typed
  OBVIOUS
<1>1. pc \in Starting /\ pc \in Places /\ pc \notin Request /\ Alive
  BY PlacesAre DEF Init, Setup, Starting, Request, Alive
<1>2. ThreadTyped
  <2>1. exit_code \in 0 .. 2 /\ late \in Nat /\ exit_code <= 1
    BY DEF Init
  <2>2. sockets \in SUBSET Sockets /\ ready \in SUBSET sockets
    BY DEF Init
  <2>. QED
    BY <1>1, <2>1, <2>2 DEF Init, ThreadTyped
<1>3. NetworkTyped
  BY DEF Init, NetworkTyped, Pieces, AllKinds
<1>4. Booked
  BY <1>1 DEF Init, Booked, Alive
<1>. QED
  BY <1>2, <1>3, <1>4 DEF Typed

LEMMA AppendBody ==
  /\ Append(<<>>, "body") = <<"body">>
  /\ Append(<<"headers">>, "body") = <<"headers", "body">>
<1>1. ASSUME NEW s \in Pieces, NEW t \in Pieces, Len(t) = Len(s) + 1,
             \A i \in 1 .. Len(s) : t[i] = s[i], t[Len(s) + 1] = "body"
      PROVE  Append(s, "body") = t
  <2>1. /\ Append(s, "body") \in Pieces
        /\ Len(Append(s, "body")) = Len(s) + 1
        /\ \A i \in 1 .. Len(s) + 1 : Append(s, "body")[i] = t[i]
    BY <1>1, AppendProperties DEF Pieces
  <2>. QED
    BY <1>1, <2>1, SeqEqual DEF Pieces
<1>2. /\ <<>> \in Pieces /\ <<"headers">> \in Pieces
      /\ <<"body">> \in Pieces /\ <<"headers", "body">> \in Pieces
  BY DEF Pieces
<1>3. Append(<<>>, "body") = <<"body">>
  <2>. DEFINE t == <<"body">>
  <2>1. Len(t) = Len(<<>>) + 1 /\ t[Len(<<>>) + 1] = "body" /\ \A i \in 1 .. Len(<<>>) : t[i] = <<>>[i]
    OBVIOUS
  <2>. HIDE DEF t
  <2>2. t \in Pieces
    BY <1>2 DEF t
  <2>. QED
    BY <1>1, <1>2, <2>1, <2>2 DEF t
<1>4. Append(<<"headers">>, "body") = <<"headers", "body">>
  <2>. DEFINE s == <<"headers">>
              t == <<"headers", "body">>
  <2>1. Len(t) = Len(s) + 1 /\ t[Len(s) + 1] = "body" /\ \A i \in 1 .. Len(s) : t[i] = s[i]
    OBVIOUS
  <2>2. s \in Pieces /\ t \in Pieces
    BY <1>2
  <2>. HIDE DEF s, t
  <2>3. Append(s, "body") = t
    BY <1>1, <2>1, <2>2
  <2>. QED
    BY <2>3 DEF s, t
<1>. QED
  BY <1>3, <1>4

\* What redhttp_response_send writes.
LEMMA WrittenIs ==
  ASSUME NEW r
  PROVE  Written(r) = IF headers_sent \/ version \in {NULL, "0.9"}
                        THEN IF r = "page" THEN <<"body">> ELSE <<>>
                        ELSE IF r = "page" THEN <<"headers", "body">> ELSE <<"headers">>
  BY AppendBody DEF Written, HeadersOnce, Headers

LEMMA SendTyped ==
  ASSUME NetworkTyped, NEW r, Send(r), conn \in Peers
  PROVE  NetworkTyped'
<1>1. Written(r) \in Pieces
  <2>1. /\ <<>> \in Pieces /\ <<"headers">> \in Pieces
        /\ <<"body">> \in Pieces /\ <<"headers", "body">> \in Pieces
    BY DEF Pieces
  <2>. QED
    BY <2>1, WrittenIs
<1>2. wire[conn] \o Written(r) \in Pieces
  BY <1>1, ConcatProperties DEF NetworkTyped, Pieces
<1>. QED
  BY <1>2 DEF Send, NetworkTyped

\* No step of the network touches the thread.
LEMMA NetworkStep ==
  ASSUME Typed, Network
  PROVE  NetworkTyped' /\ UNCHANGED <<process, sockets, storage, ready, connection, late>>
<1>1. ASSUME NEW c \in Clients, NEW s \in Sockets, NEW k \in Kinds, connect(c, s, k)
      PROVE  NetworkTyped'
  <2>1. c \in Peers /\ k \in AllKinds
    BY ServerAssumption DEF Peers
  <2>2. queue' \in [Sockets -> Seq(Peers)]
    BY <1>1, <2>1 DEF connect, Typed, NetworkTyped
  <2>. QED
    BY <1>1, <2>1, <2>2 DEF connect, Typed, NetworkTyped
<1>2. ASSUME NEW c \in Clients, transmit(c) PROVE NetworkTyped'
  BY <1>2 DEF transmit, Typed, NetworkTyped
<1>3. ASSUME NEW c \in Clients, hang_up(c) PROVE NetworkTyped'
  BY <1>3 DEF hang_up, Typed, NetworkTyped
<1>4. ASSUME NEW c \in Clients, leave(c) PROVE NetworkTyped'
  <2>1. "page" \in AllKinds /\ <<>> \in Pieces
    BY DEF AllKinds, Pieces
  <2>. QED
    BY <1>4, <2>1 DEF leave, Typed, NetworkTyped
<1>5. UNCHANGED <<process, sockets, storage, ready, connection, late>>
  BY DEF Network, connect, transmit, hang_up, leave
<1>. QED
  BY <1>1, <1>2, <1>3, <1>4, <1>5 DEF Network

\* A connection once queued stays until it is accepted.
LEMMA NetworkKeeps ==
  ASSUME Typed, Network, NEW s \in Sockets, queue[s] # <<>>
  PROVE  queue'[s] # <<>>
<1>1. ASSUME NEW c \in Clients, NEW t \in Sockets, NEW k \in Kinds, connect(c, t, k)
      PROVE  queue'[s] # <<>>
  <2>1. queue[s] \in Seq(Peers) /\ c \in Peers
    BY DEF Typed, NetworkTyped, Peers
  <2>2. Append(queue[s], c) # <<>>
    BY <2>1
  <2>. QED
    BY <1>1, <2>2 DEF connect, Typed, NetworkTyped
<1>2. ASSUME NEW c \in Clients, transmit(c) \/ hang_up(c) \/ leave(c)
      PROVE  queue'[s] # <<>>
  BY <1>2 DEF transmit, hang_up, leave
<1>. QED
  BY <1>1, <1>2 DEF Network

\* After a fatal message the process has counted it once, or it has ended.
LEMMA FatalIs ==
  ASSUME ThreadTyped, Booked, Alive, NEW next \in Places \ {"exited"}, redstore_fatal(next)
  PROVE  /\ running' = FALSE /\ fatal' = TRUE
         /\ exit_code' \in 0 .. 2
         /\ Alive' => exit_code' = 1
         /\ pc' \in {next, "exited"}
         /\ status' \in {"alive", "immediate"}
         /\ status' = "alive" <=> Alive'
<1>1. status = "alive" /\ "exited" # next
  BY DEF ThreadTyped
<1>2. CASE running
  <2>1. exit_code = 0 /\ exit_code' = exit_code + 1
    BY <1>2 DEF Booked, redstore_fatal
  <2>. QED
    BY <1>1, <1>2, <2>1 DEF redstore_fatal, Alive
<1>3. CASE ~ running
  <2>1. exit_code \in 0 .. 1 /\ exit_code' = exit_code + 1
    BY DEF ThreadTyped, redstore_fatal
  <2>2. exit_code' \in 0 .. 2
    BY <2>1
  <2>. QED
    BY <1>1, <1>3, <2>2 DEF redstore_fatal, Exit, Alive
<1>. QED
  BY <1>2, <1>3

LEMMA TypedStep ==
  ASSUME Typed, [Next]_vars
  PROVE  Typed'
<1>. USE PlacesAre DEF Typed
<1>1. ASSUME NEW i \in 1 .. 6, setup(i) PROVE Typed'
  <2>1. <<pc, pc'>> \in Following
    BY <1>1, SetupOrder DEF setup
  <2>2. sockets' \in SUBSET Sockets /\ (pc' \in Starting => sockets' = {})
    BY <1>1, <2>1 DEF setup, ThreadTyped, Booked, Following, Starting
  <2>3. ThreadTyped' /\ Booked'
    BY <1>1, <2>1, <2>2
       DEF setup, ThreadTyped, Booked, Following, Starting, Loop, Request, Cleanup, Alive,
           connection, network
  <2>. QED
    BY <1>1, <2>3 DEF setup, network, NetworkTyped
<1>2. ASSUME NEW i \in 1 .. 6, setup_fails(i) PROVE Typed'
  <2>1. pc \in Starting
    BY <1>2, SetupOrder DEF setup_fails, Following, Starting
  <2>a. Alive /\ "free_storage" \in Places \ {"exited"}
    BY <2>1 DEF Alive, Starting, Cleanup
  <2>b. redstore_fatal("free_storage")
    BY <1>2 DEF setup_fails
  <2>c. /\ running' = FALSE /\ fatal' = TRUE
        /\ exit_code' \in 0 .. 2
        /\ Alive' => exit_code' = 1
        /\ pc' \in {"free_storage", "exited"}
        /\ status' \in {"alive", "immediate"}
        /\ status' = "alive" <=> Alive'
    BY <2>a, <2>b, FatalIs
  <2>2. ThreadTyped'
    <3>1. UNCHANGED <<sockets, storage, ready, conn, response, headers_sent, version, late>>
      BY <1>2 DEF setup_fails, connection
    <3>2. conn = NULL /\ pc' \notin Request /\ pc' \in Places
      BY <2>a, <2>1, <2>c DEF ThreadTyped, Starting, Request, Cleanup
    <3>3. Alive' => exit_code' <= 1
      BY <2>c
    <3>. QED
      BY <2>c, <3>1, <3>2, <3>3 DEF ThreadTyped
  <2>3. Booked'
    BY <1>2, <2>1, <2>c DEF setup_fails, Booked, Starting, network
  <2>. QED
    BY <1>2, <2>2, <2>3 DEF setup_fails, network, NetworkTyped
<1>3. CASE while \/ free_storage \/ free_server \/ redhttp_server_run \/ scan_ends \/ identify
  <2>1. ThreadTyped' /\ Booked'
    BY <1>3
       DEF while, TestRunning, free_storage, free_server, ExitCode, Exit, redhttp_server_run,
           scan_ends, identify, ThreadTyped, Booked, Starting, Loop, Request, Cleanup, Alive,
           connection, network
  <2>. QED
    BY <1>3, <2>1
       DEF while, free_storage, free_server, redhttp_server_run, scan_ends, identify,
           network, NetworkTyped
<1>4. CASE select
  BY <1>4
     DEF select, ThreadTyped, NetworkTyped, Booked, Starting, Loop, Request, Alive,
         connection, network
<1>5. CASE accept
  <2>. PICK s \in ready : /\ conn' = Head(queue[s])
                          /\ queue' = [queue EXCEPT ![s] = Tail(@)]
                          /\ ready' = ready \ {s}
    BY <1>5 DEF accept, Others
  <2>1. queue[s] \in Seq(Peers) /\ queue[s] # <<>> /\ s \in Sockets
    BY DEF ThreadTyped, NetworkTyped, Booked
  <2>2. conn' \in Peers /\ queue' \in [Sockets -> Seq(Peers)]
    BY <2>1, HeadTailProperties DEF NetworkTyped
  <2>3. conn' # NULL
    BY <2>2, ServerAssumption DEF Peers
  <2>4. \A r \in ready' : queue'[r] # <<>>
    BY DEF NetworkTyped, ThreadTyped, Booked
  <2>5. ThreadTyped'
    <3>1. late' \in Nat /\ ready' \in SUBSET sockets'
      BY <1>5 DEF accept, ThreadTyped
    <3>2. /\ UNCHANGED <<running, exit_code, status, fatal, sockets, storage>>
          /\ response' = NULL /\ headers_sent' = FALSE /\ version' = NULL
          /\ pc' = "identify" /\ pc = "scan"
      BY <1>5 DEF accept
    <3>3. pc' \in Request /\ pc' \in Places /\ Alive /\ Alive'
      BY <3>2 DEF Request, Alive
    <3>. QED
      BY <2>2, <2>3, <3>1, <3>2, <3>3 DEF ThreadTyped
  <2>6. Booked'
    BY <1>5, <2>4 DEF accept, Booked, Starting, Alive
  <2>. QED
    BY <1>5, <2>2, <2>5, <2>6 DEF accept, NetworkTyped
<1>6. CASE redhttp_request_read \/ dispatch_page
  <2>1. ThreadTyped' /\ Booked'
    BY <1>6
       DEF redhttp_request_read, dispatch_page, ThreadTyped, Booked, Starting, Request, Alive,
           network
  <2>. QED
    BY <1>6, <2>1 DEF redhttp_request_read, dispatch_page, network, NetworkTyped
<1>16. CASE select_fails \/ accept_fails \/ broken_pipe
  <2>1. /\ UNCHANGED <<running, exit_code, fatal, sockets, storage, ready, conn, response,
                        headers_sent, version, queue, phase, kind, wire, late>>
        /\ pc' = "exited" /\ status' \in {"failure", "killed"}
    BY <1>6, <1>16 DEF select_fails, accept_fails, broken_pipe, Exit, connection, network
  <2>2. pc' \in Places /\ pc' \notin Request /\ pc' \notin Starting /\ ~ Alive'
    BY <2>1 DEF Request, Starting, Alive
  <2>3. ThreadTyped'
    BY <2>1, <2>2 DEF ThreadTyped
  <2>4. Booked'
    BY <2>1, <2>2 DEF Booked
  <2>. QED
    BY <2>1, <2>3, <2>4 DEF NetworkTyped
<1>7. CASE dispatch_stream \/ redhttp_response_send
  <2>1. pc \in Request /\ conn \in Peers /\ queue' = queue
    BY <1>7 DEF dispatch_stream, redhttp_response_send, Send, ThreadTyped, Request
  <2>2. NetworkTyped'
    BY <1>7, <2>1, SendTyped DEF dispatch_stream, redhttp_response_send
  <2>3. /\ UNCHANGED <<running, exit_code, status, fatal, sockets, storage, ready, conn,
                        version, late>>
        /\ pc' \in {"stream", "close"} /\ headers_sent' = TRUE
        /\ response' \in {response, "empty"}
    BY <1>7 DEF dispatch_stream, redhttp_response_send, Send
  <2>4. ThreadTyped'
    BY <2>1, <2>3 DEF ThreadTyped, Request, Alive
  <2>5. Booked'
    BY <2>1, <2>3 DEF Booked, Request, Starting, Alive
  <2>. QED
    BY <2>2, <2>4, <2>5
<1>8. CASE stream
  <2>1. pc = "stream" /\ conn \in Peers
    BY <1>8 DEF stream, ThreadTyped, Request
  <2>2. Append(wire[conn], "body") \in Pieces
    BY <2>1, AppendProperties DEF NetworkTyped, Pieces
  <2>3. wire' \in [Peers -> Pieces]
    BY <1>8, <2>2 DEF stream, NetworkTyped
  <2>. QED
    BY <1>8, <2>3
       DEF stream, ThreadTyped, NetworkTyped, Booked, Starting, Request, Alive, connection
<1>9. CASE dispatch_load
  <2>1. /\ phase' \in [Peers -> {"away", "connected", "sent", "stalled", "gone", "done"}]
        /\ queue' \in [Sockets -> Seq(Peers)]
        /\ \A s \in Sockets : queue[s] # <<>> => queue'[s] # <<>>
    <3>1. CASE UNCHANGED <<queue, phase>>
      BY <3>1 DEF NetworkTyped
    <3>2. ASSUME NEW s \in sockets, queue' = [queue EXCEPT ![s] = Append(@, Self)],
                 phase' = [phase EXCEPT ![Self] = "sent"]
          PROVE  <2>1
      <4>a. s \in Sockets /\ Self \in Peers /\ queue[s] \in Seq(Peers)
        BY DEF NetworkTyped, ThreadTyped, Peers
      <4>1. Append(queue[s], Self) \in Seq(Peers) /\ Append(queue[s], Self) # <<>>
        BY <4>a, AppendProperties
      <4>. QED
        BY <3>2, <4>a, <4>1 DEF NetworkTyped
    <3>. QED
      BY <1>9, <3>1, <3>2 DEF dispatch_load
  <2>2. ThreadTyped'
    BY <1>9 DEF dispatch_load, ThreadTyped, Request, Alive, connection
  <2>3. Booked'
    BY <1>9, <2>1 DEF dispatch_load, ThreadTyped, Booked, Starting, Alive, connection
  <2>. QED
    BY <1>9, <2>1, <2>2, <2>3 DEF dispatch_load, NetworkTyped
<1>10. CASE fetch_returns
  <2>1. phase' \in [Peers -> {"away", "connected", "sent", "stalled", "gone", "done"}]
    BY <1>10 DEF fetch_returns, NetworkTyped, Peers
  <2>. QED
    BY <1>10, <2>1
       DEF fetch_returns, ThreadTyped, NetworkTyped, Booked, Starting, Request, Alive
<1>11. CASE close
  <2>1. phase' \in [Peers -> {"away", "connected", "sent", "stalled", "gone", "done"}]
    BY <1>11 DEF close, NetworkTyped
  <2>2. wire' \in [Peers -> Pieces]
    <3>1. <<>> \in Pieces
      BY DEF Pieces
    <3>. QED
      BY <1>11, <3>1 DEF close, NetworkTyped
  <2>3. /\ UNCHANGED <<running, exit_code, status, fatal, sockets, storage, ready, queue, kind, late>>
        /\ pc = "close" /\ pc' = "scan" /\ conn' = NULL
        /\ response' = NULL /\ headers_sent' = FALSE /\ version' = NULL
    BY <1>11 DEF close
  <2>4. pc' \in Places /\ pc' \notin Request /\ pc' \notin Starting /\ Alive /\ Alive'
    BY <2>3 DEF Loop, Request, Starting, Alive
  <2>5. ThreadTyped'
    BY <2>3, <2>4 DEF ThreadTyped
  <2>6. Booked'
    BY <2>3, <2>4 DEF Booked
  <2>. QED
    BY <2>1, <2>2, <2>3, <2>5, <2>6 DEF NetworkTyped
<1>12. CASE termination_handler
  <2>1. /\ UNCHANGED <<exit_code, status, fatal, sockets, storage, ready, conn, response,
                        headers_sent, version, queue, phase, kind, wire, late>>
        /\ running' = FALSE /\ Alive /\ pc' = IF pc = "select" THEN "while" ELSE pc
    BY <1>12 DEF termination_handler, connection, network
  <2>2. /\ pc' \in Places /\ Alive' /\ (pc' \in Request <=> pc \in Request)
        /\ pc' \in Starting <=> pc \in Starting
        /\ pc' \in Starting \cup {"while", "redhttp_server_run", "select"} <=>
             pc \in Starting \cup {"while", "redhttp_server_run", "select"}
    BY <2>1 DEF ThreadTyped, Loop, Request, Starting, Alive
  <2>3. ThreadTyped'
    BY <2>1, <2>2 DEF ThreadTyped
  <2>4. Booked'
    BY <2>1, <2>2 DEF Booked
  <2>. QED
    BY <2>1, <2>3, <2>4 DEF NetworkTyped
<1>13. CASE redland_log_handler
  <2>a. Alive /\ pc \in Places \ {"exited"}
    BY <1>13 DEF redland_log_handler, Alive, ThreadTyped
  <2>b. redstore_fatal(pc)
    BY <1>13 DEF redland_log_handler
  <2>c. /\ running' = FALSE /\ fatal' = TRUE
        /\ exit_code' \in 0 .. 2
        /\ Alive' => exit_code' = 1
        /\ pc' \in {pc, "exited"}
        /\ status' \in {"alive", "immediate"}
        /\ status' = "alive" <=> Alive'
    BY <2>a, <2>b, FatalIs
  <2>1. ThreadTyped'
    <3>1. UNCHANGED <<sockets, storage, ready, conn, response, headers_sent, version, late>>
      BY <1>13 DEF redland_log_handler, connection
    <3>2. /\ pc' \in Request => conn # NULL
          /\ Alive' /\ pc' \notin Request => conn = NULL
          /\ pc' \in Places
      BY <2>a, <2>c DEF ThreadTyped, Request, Alive
    <3>3. Alive' => exit_code' <= 1
      BY <2>c
    <3>. QED
      BY <2>c, <3>1, <3>2, <3>3 DEF ThreadTyped
  <2>2. Booked'
    BY <1>13, <2>c DEF redland_log_handler, Booked, Starting, network
  <2>. QED
    BY <1>13, <2>1, <2>2 DEF redland_log_handler, network, NetworkTyped
<1>14. CASE Network
  <2>1. NetworkTyped' /\ UNCHANGED <<process, sockets, storage, ready, connection, late>>
    BY <1>14, NetworkStep
  <2>2. \A s \in ready : queue'[s] # <<>>
    BY <1>14, NetworkKeeps DEF ThreadTyped, Booked
  <2>3. ThreadTyped' /\ Booked'
    BY <2>1, <2>2 DEF ThreadTyped, Booked, Alive, process, connection
  <2>. QED
    BY <2>1, <2>3
<1>15. CASE UNCHANGED vars
  BY <1>15 DEF vars, ThreadTyped, NetworkTyped, Booked, Alive
<1>. QED
  BY <1>1, <1>2, <1>3, <1>4, <1>5, <1>6, <1>7, <1>8, <1>9, <1>10, <1>11, <1>12, <1>13, <1>14, <1>15,
     <1>16
     DEF Next, Thread, Trouble

\* TypeOK holds in every behaviour.
THEOREM TypeCorrect == Spec => []TypeOK
<1>1. Typed => TypeOK
  BY Halves DEF Typed
<1>. QED
  BY <1>1, TypedInit, TypedStep, PTL DEF Spec

-----------------------------------------------------------------------------
(* The end of the process                                                  *)

\* Where the storage is open; what main's clean-up finds and leaves.
Ending ==
  /\ pc \in {"redstore_setup_http_server", "redstore_setup_storage"} => storage = "none"
  /\ pc \in {"librdf_new_model", "redstore_load_input_file", "description_init",
             "redhttp_server_listen"} \cup Loop \cup Request => storage = "open"
  /\ pc = "free_storage" => storage = "open" \/ exit_code = 1
  /\ pc = "free_server" => storage = "freed" \/ exit_code = 1
  /\ pc \in Cleanup => ~ running
  /\ SuccessMeansClean

LEMMA EndingStep ==
  ASSUME Typed, Ending, [Next]_vars
  PROVE  Ending'
<1>. USE DEF Ending, SuccessMeansClean
<1>1. ASSUME NEW i \in 1 .. 6, setup(i) PROVE Ending'
  <2>1. <<pc, pc'>> \in Following /\ Setup[i] = pc
    BY <1>1, SetupOrder DEF setup
  <2>2. status' = "alive"
    BY <1>1, <2>1 DEF setup, Following, Typed, ThreadTyped, Alive
  <2>3. storage' = IF pc = "redstore_setup_storage" THEN "open" ELSE storage
    BY <1>1, <2>1 DEF setup
  <2>. QED
    BY <2>1, <2>2, <2>3 DEF Following, Loop, Request, Cleanup
<1>2. ASSUME NEW i \in 1 .. 6, setup_fails(i) PROVE Ending'
  <2>1. Alive /\ "free_storage" \in Places \ {"exited"}
    BY <1>2, SetupOrder, PlacesAre DEF setup_fails, Following, Alive, Cleanup
  <2>2. redstore_fatal("free_storage")
    BY <1>2 DEF setup_fails
  <2>3. /\ running' = FALSE
        /\ Alive' => exit_code' = 1
        /\ pc' \in {"free_storage", "exited"}
        /\ status' \in {"alive", "immediate"}
    BY <2>1, <2>2, FatalIs DEF Typed
  <2>. QED
    BY <2>3 DEF Loop, Request, Cleanup, Alive
<1>3. CASE redland_log_handler
  <2>1. Alive /\ pc \in Places \ {"exited"} /\ pc # "free_server"
    BY <1>3 DEF redland_log_handler, Alive, Typed, ThreadTyped
  <2>2. redstore_fatal(pc) /\ storage' = storage
    BY <1>3 DEF redland_log_handler
  <2>3. /\ running' = FALSE
        /\ Alive' => exit_code' = 1
        /\ pc' \in {pc, "exited"}
        /\ status' \in {"alive", "immediate"}
    BY <2>1, <2>2, FatalIs DEF Typed
  <2>. QED
    BY <2>1, <2>2, <2>3 DEF Loop, Request, Cleanup, Alive
<1>4. CASE while
  BY <1>4 DEF while, TestRunning, Loop, Request, Cleanup
<1>5. CASE free_storage
  BY <1>5 DEF free_storage, Loop, Request, Cleanup
<1>6. CASE free_server
  <2>1. /\ pc = "free_server" /\ pc' = "exited"
        /\ status' = IF exit_code = 0 THEN "success" ELSE "failure"
        /\ UNCHANGED <<storage, fatal, exit_code, running>>
    BY <1>6 DEF free_server, ExitCode, Exit
  <2>2. exit_code = 0 => storage = "freed" /\ ~ fatal
    BY <2>1 DEF Typed, Booked, Alive
  <2>. QED
    BY <2>1, <2>2 DEF Loop, Request, Cleanup
<1>7. CASE \/ redhttp_server_run \/ select \/ accept \/ scan_ends \/ identify
           \/ redhttp_request_read \/ dispatch_page \/ dispatch_stream \/ dispatch_load \/ stream
           \/ redhttp_response_send \/ close \/ fetch_returns
  <2>1. /\ pc \in Loop \cup Request /\ pc' \in Loop \cup Request
        /\ UNCHANGED <<storage, status, fatal>>
    BY <1>7
       DEF redhttp_server_run, select, accept, scan_ends, identify, redhttp_request_read,
           dispatch_page, dispatch_stream, dispatch_load, stream, redhttp_response_send, close,
           fetch_returns, Loop, Request
  <2>. QED
    BY <2>1 DEF Loop, Request, Cleanup
<1>8. CASE select_fails \/ accept_fails \/ broken_pipe
  BY <1>8 DEF select_fails, accept_fails, broken_pipe, Exit, Loop, Request, Cleanup
<1>9. CASE termination_handler
  BY <1>9 DEF termination_handler, Loop, Request, Cleanup
<1>10. CASE Network
  BY <1>10, NetworkStep DEF process, Loop, Request, Cleanup
<1>11. CASE UNCHANGED vars
  BY <1>11 DEF vars
<1>. QED
  BY <1>1, <1>2, <1>3, <1>4, <1>5, <1>6, <1>7, <1>8, <1>9, <1>10, <1>11
     DEF Next, Thread, Trouble

\* SuccessMeansClean holds in every behaviour: no order of signals, failures
\* and fatal messages lets main return success with unwritten buffers.
THEOREM SuccessIsClean == Spec => []SuccessMeansClean
<1>1. Init => Ending
  BY DEF Init, Setup, Ending, SuccessMeansClean, Loop, Request, Cleanup
<1>2. Typed /\ Ending /\ [Next]_vars => Ending'
  BY EndingStep
<1>3. Ending => SuccessMeansClean
  BY DEF Ending
<1>. QED
  BY <1>1, <1>2, <1>3, TypedInit, TypedStep, PTL DEF Spec

-----------------------------------------------------------------------------
(* Connections after a stop request                                        *)

\* What was accepted late and what is still to be accepted in this round are
\* together at most one connection for each socket, and there is no next
\* round.
Rounds ==
  /\ running => late = 0
  /\ pc \in Starting \cup {"redhttp_server_run", "select"} => late = 0
  /\ pc \in {"scan"} \cup Request => late + Cardinality(ready) <= Cardinality(sockets)
  /\ StopsPromptly

\* The sets are finite, so their sizes are numbers.
LEMMA Sizes ==
  ASSUME NEW S \in SUBSET Sockets, NEW R \in SUBSET S
  PROVE  /\ IsFiniteSet(R) /\ IsFiniteSet(S)
         /\ Cardinality(R) \in Nat /\ Cardinality(S) \in Nat
         /\ Cardinality(R) <= Cardinality(S)
<1>1. IsFiniteSet(S)
  BY ServerAssumption, FS_Subset
<1>. QED
  BY <1>1, FS_Subset, FS_CardinalityType

LEMMA RoundsStep ==
  ASSUME Typed, Typed', Rounds, [Next]_vars
  PROVE  Rounds'
<1>. USE DEF Rounds, StopsPromptly
<1>a. /\ Cardinality(ready) \in Nat /\ Cardinality(sockets) \in Nat /\ late \in Nat
      /\ Cardinality(ready) <= Cardinality(sockets)
      /\ IsFiniteSet(ready)
  BY Sizes DEF Typed, ThreadTyped
<1>b. /\ Cardinality(ready') \in Nat /\ Cardinality(sockets') \in Nat
      /\ Cardinality(ready') <= Cardinality(sockets')
  <2>1. sockets' \in SUBSET Sockets /\ ready' \in SUBSET sockets'
    BY DEF Typed, ThreadTyped
  <2>. QED
    BY <2>1, Sizes
<1>1. ASSUME NEW i \in 1 .. 6, setup(i) PROVE Rounds'
  <2>1. <<pc, pc'>> \in Following /\ late' = late /\ running' = running
    BY <1>1, SetupOrder DEF setup
  <2>2. late = 0 /\ pc' \notin {"scan"} \cup Request
    BY <2>1 DEF Following, Starting, Request
  <2>. QED
    BY <1>b, <2>1, <2>2
<1>2. ASSUME NEW i \in 1 .. 6, setup_fails(i) PROVE Rounds'
  <2>1. UNCHANGED <<late, sockets, ready>> /\ running' = FALSE /\ pc' \in {"free_storage", "exited"}
    BY <1>2 DEF setup_fails, redstore_fatal, Exit
  <2>. QED
    BY <2>1 DEF Starting, Request
<1>3. CASE redland_log_handler
  <2>1. UNCHANGED <<late, sockets, ready>> /\ running' = FALSE /\ pc' \in {pc, "exited"}
    BY <1>3 DEF redland_log_handler, redstore_fatal, Exit
  <2>. QED
    BY <2>1 DEF Starting, Request
<1>4. CASE while
  BY <1>4 DEF while, TestRunning, Starting, Request
<1>5. CASE select
  BY <1>5, <1>b DEF select, Starting, Request
<1>6. CASE accept
  <2>1. PICK s \in ready : ready' = ready \ {s}
    BY <1>6 DEF accept, Others
  <2>2. Cardinality(ready') = Cardinality(ready) - 1
    BY <1>a, <2>1, FS_RemoveElement
  <2>3. /\ pc = "scan" /\ pc' = "identify"
        /\ late' = IF running THEN late ELSE late + 1
        /\ UNCHANGED <<running, sockets>>
    BY <1>6 DEF accept
  <2>4. late' + Cardinality(ready') <= Cardinality(sockets)
    BY <1>a, <2>2, <2>3
  <2>5. late' <= Cardinality(sockets) /\ late' \in Nat
    BY <1>a, <1>b, <2>3, <2>4
  <2>. QED
    BY <2>3, <2>4, <2>5 DEF Starting, Request
<1>7. CASE \/ identify \/ redhttp_request_read \/ dispatch_page \/ dispatch_stream
           \/ dispatch_load \/ stream \/ redhttp_response_send \/ close \/ fetch_returns
  <2>1. UNCHANGED <<late, sockets, ready, running>> /\ pc \in Request /\ pc' \in {"scan"} \cup Request
    BY <1>7
       DEF identify, redhttp_request_read, dispatch_page, dispatch_stream, dispatch_load, stream,
           redhttp_response_send, close, fetch_returns, Request
  <2>. QED
    BY <2>1 DEF Starting, Request
<1>8. CASE free_storage \/ free_server \/ select_fails \/ accept_fails \/ broken_pipe \/ scan_ends
  BY <1>8
     DEF free_storage, free_server, ExitCode, select_fails, accept_fails, broken_pipe, Exit, scan_ends,
         Starting, Request
<1>9. CASE redhttp_server_run \/ termination_handler
  BY <1>9 DEF redhttp_server_run, termination_handler, Starting, Request
<1>10. CASE Network
  BY <1>10, NetworkStep DEF process
<1>11. CASE UNCHANGED vars
  BY <1>11 DEF vars
<1>. QED
  BY <1>1, <1>2, <1>3, <1>4, <1>5, <1>6, <1>7, <1>8, <1>9, <1>10, <1>11
     DEF Next, Thread, Trouble

\* StopsPromptly holds in every behaviour, for any number of sockets: the
\* round that the stop request finds in progress is the last.
THEOREM LastRound == Spec => []StopsPromptly
<1>1. Init => Rounds
  <2>1. Cardinality({}) = 0
    BY FS_EmptySet
  <2>. QED
    BY <2>1 DEF Init, Setup, Rounds, StopsPromptly, Request
<1>2. Typed /\ Rounds /\ [Next]_vars => Rounds'
  BY TypedStep, RoundsStep
<1>3. Rounds => StopsPromptly
  BY DEF Rounds
<1>. QED
  BY <1>1, <1>2, <1>3, TypedInit, TypedStep, PTL DEF Spec

-----------------------------------------------------------------------------
(* Responses                                                               *)

\* Nobody has two connections: those in the queues are different, and none
\* of them is the one being served; who waits has been sent nothing.
Apart ==
  /\ \A s, t \in Sockets : \A i \in 1 .. Len(queue[s]), j \in 1 .. Len(queue[t]) :
       queue[s][i] = queue[t][j] => s = t /\ i = j
  /\ \A s \in Sockets : \A i \in 1 .. Len(queue[s]) :
       /\ queue[s][i] # conn
       /\ phase[queue[s][i]] \in {"connected", "sent", "stalled", "gone"}
       /\ wire[queue[s][i]] = <<>>
  /\ conn # NULL => phase[conn] \in {"connected", "sent", "stalled", "gone"}
  /\ \A c \in Peers : phase[c] = "away" => wire[c] = <<>>

\* What the connection being served has been sent, at each place, and what
\* the version says of the request, as long as somebody is there.
Answering ==
  /\ pc \in {"identify", "read", "dispatch", "fetch"} => wire[conn] = <<>> /\ ~ headers_sent
  /\ pc = "stream" => headers_sent /\ response = "empty" /\ wire[conn] = Headers
  /\ pc = "send" => IF headers_sent
                      THEN response = "empty" /\ wire[conn] \in {Headers, Append(Headers, "body")}
                      ELSE response \in {"page", "empty"} /\ wire[conn] = <<>>
  /\ pc \in {"dispatch", "fetch", "stream", "send"} /\ phase[conn] # "gone" =>
       version = IF kind[conn] = "simple" THEN "0.9"
                 ELSE IF kind[conn] = "garbled" THEN NULL ELSE "1.0"
  /\ OneResponse

LEMMA ApartStep ==
  ASSUME Typed, Apart, [Next]_vars
  PROVE  Apart'
<1>. USE DEF Apart
<1>a. /\ \A s \in Sockets : queue[s] \in Seq(Peers)
      /\ \A s \in Sockets : \A i \in 1 .. Len(queue[s]) : queue[s][i] \in Peers
      /\ conn \in Peers \cup {NULL} /\ NULL \notin Peers /\ Self \in Peers
  <2>1. \A s \in Sockets : queue[s] \in Seq(Peers)
    BY DEF Typed, NetworkTyped
  <2>2. conn \in Peers \cup {NULL} /\ NULL \notin Peers /\ Self \in Peers
    BY ServerAssumption DEF Typed, ThreadTyped, Peers
  <2>. QED
    BY <2>1, <2>2
<1>0. CASE UNCHANGED <<queue, phase, wire, conn>>
  BY <1>0
\* A connection joins a queue.
<1>b. ASSUME NEW c \in Peers, NEW s \in Sockets, phase[c] = "away", phase'[c] \in {"connected", "sent"},
             \A d \in Peers \ {c} : phase'[d] = phase[d],
             queue' = [queue EXCEPT ![s] = Append(@, c)], UNCHANGED <<wire, conn>>
      PROVE  Apart'
  <2>1. c # conn /\ \A u \in Sockets : \A i \in 1 .. Len(queue[u]) : queue[u][i] # c
    BY <1>a, <1>b
  <2>2. /\ Len(queue'[s]) = Len(queue[s]) + 1
        /\ \A i \in 1 .. Len(queue[s]) : queue'[s][i] = queue[s][i]
        /\ queue'[s][Len(queue[s]) + 1] = c
    BY <1>a, <1>b, AppendProperties DEF Typed, NetworkTyped
  <2>3. \A u \in Sockets \ {s} : queue'[u] = queue[u]
    BY <1>b DEF Typed, NetworkTyped
  <2>4. \A i \in 1 .. Len(queue'[s]) : i \in 1 .. Len(queue[s]) \/ i = Len(queue[s]) + 1
    BY <1>a, <2>2
  <2>5. \A u \in Sockets : \A i \in 1 .. Len(queue'[u]) :
          \/ i \in 1 .. Len(queue[u]) /\ queue'[u][i] = queue[u][i]
          \/ u = s /\ i = Len(queue[s]) + 1 /\ queue'[u][i] = c
    BY <2>2, <2>3, <2>4
  <2>6. \A u, v \in Sockets : \A i \in 1 .. Len(queue'[u]), j \in 1 .. Len(queue'[v]) :
          queue'[u][i] = queue'[v][j] => u = v /\ i = j
    BY <2>1, <2>5, SMTT(30)
  <2>7. \A u \in Sockets : \A i \in 1 .. Len(queue'[u]) :
          /\ queue'[u][i] # conn'
          /\ phase'[queue'[u][i]] \in {"connected", "sent", "stalled", "gone"}
          /\ wire'[queue'[u][i]] = <<>>
    BY <1>a, <1>b, <2>1, <2>5
  <2>8. /\ conn' # NULL => phase'[conn'] \in {"connected", "sent", "stalled", "gone"}
        /\ \A d \in Peers : phase'[d] = "away" => wire'[d] = <<>>
    BY <1>a, <1>b, <2>1
  <2>. QED
    BY <2>6, <2>7, <2>8
\* More is sent to the connection being served.
<1>c. ASSUME conn \in Peers, \A d \in Peers \ {conn} : wire'[d] = wire[d],
             UNCHANGED <<queue, phase, conn>>
      PROVE  Apart'
  BY <1>a, <1>c
\* A peer's phase changes, and it may lose what it was sent.
<1>d. ASSUME NEW c \in Peers, phase[c] # "away",
             \/ phase[c] \in {"connected", "sent", "stalled", "gone"}
                /\ phase'[c] \in {"connected", "sent", "stalled", "gone"}
                /\ wire' = wire
             \/ phase[c] = "done" /\ wire'[c] = <<>>,
             \A d \in Peers \ {c} : phase'[d] = phase[d] /\ wire'[d] = wire[d],
             UNCHANGED <<queue, conn>>
      PROVE  Apart'
  BY <1>a, <1>d
<1>1. CASE \/ \E i \in 1 .. 6 : setup(i) \/ setup_fails(i)
           \/ while \/ free_storage \/ free_server \/ redhttp_server_run \/ select \/ scan_ends
           \/ identify \/ redhttp_request_read \/ dispatch_page \/ select_fails \/ accept_fails
           \/ termination_handler \/ redland_log_handler \/ broken_pipe
  <2>1. UNCHANGED <<queue, phase, wire, conn>>
    BY <1>1
       DEF setup, setup_fails, while, free_storage, free_server, redhttp_server_run, select,
           scan_ends, identify, redhttp_request_read, dispatch_page, select_fails, accept_fails,
           termination_handler, redland_log_handler, broken_pipe, connection, network
  <2>. QED
    BY <1>0, <2>1
<1>2. CASE dispatch_stream \/ stream \/ redhttp_response_send
  <2>1. pc \in Request /\ UNCHANGED <<queue, phase, conn>>
    BY <1>2 DEF dispatch_stream, stream, redhttp_response_send, Send, Request, connection
  <2>2. conn \in Peers
    BY <1>a, <2>1 DEF Typed, ThreadTyped
  <2>3. \A d \in Peers \ {conn} : wire'[d] = wire[d]
    BY <1>2 DEF dispatch_stream, stream, redhttp_response_send, Send, Typed, NetworkTyped
  <2>. QED
    BY <1>c, <2>1, <2>2, <2>3
<1>3. CASE accept
  <2>1. PICK s \in ready : /\ conn' = Head(queue[s])
                           /\ queue' = [queue EXCEPT ![s] = Tail(@)]
    BY <1>3 DEF accept
  <2>2. s \in Sockets /\ queue[s] # <<>> /\ queue[s] \in Seq(Peers)
    BY <1>a DEF Typed, ThreadTyped, Booked
  <2>3. /\ conn' = queue[s][1] /\ 1 \in 1 .. Len(queue[s])
        /\ Len(queue'[s]) = Len(queue[s]) - 1
        /\ \A i \in 1 .. Len(queue'[s]) : i + 1 \in 1 .. Len(queue[s]) /\ queue'[s][i] = queue[s][i + 1]
    BY <2>1, <2>2, HeadTailProperties DEF Typed, NetworkTyped
  <2>4. \A u \in Sockets \ {s} : queue'[u] = queue[u]
    BY <2>1 DEF Typed, NetworkTyped
  <2>5. \A u \in Sockets : \A i \in 1 .. Len(queue'[u]) :
          IF u = s THEN i + 1 \in 1 .. Len(queue[u]) /\ queue'[u][i] = queue[u][i + 1]
                   ELSE i \in 1 .. Len(queue[u]) /\ queue'[u][i] = queue[u][i]
    BY <2>3, <2>4
  <2>6. UNCHANGED <<phase, wire>>
    BY <1>3 DEF accept
  <2>7. \A u, v \in Sockets : \A i \in 1 .. Len(queue'[u]), j \in 1 .. Len(queue'[v]) :
          queue'[u][i] = queue'[v][j] => u = v /\ i = j
    <3>. TAKE u, v \in Sockets
    <3>. TAKE i \in 1 .. Len(queue'[u]), j \in 1 .. Len(queue'[v])
    <3>. HAVE queue'[u][i] = queue'[v][j]
    <3>1. i \in Nat /\ j \in Nat
      OBVIOUS
    <3>2. CASE u = s /\ v = s
      <4>1. /\ i + 1 \in 1 .. Len(queue[s]) /\ j + 1 \in 1 .. Len(queue[s])
            /\ queue[s][i + 1] = queue[s][j + 1]
        BY <2>5, <3>2
      <4>2. i + 1 = j + 1
        BY <2>2, <4>1
      <4>. QED
        BY <3>1, <3>2, <4>2
    <3>. QED
      BY <2>2, <2>5, <3>2
  <2>8. \A u \in Sockets : \A i \in 1 .. Len(queue'[u]) :
          /\ queue'[u][i] # conn'
          /\ phase'[queue'[u][i]] \in {"connected", "sent", "stalled", "gone"}
          /\ wire'[queue'[u][i]] = <<>>
    <3>. TAKE u \in Sockets
    <3>. TAKE i \in 1 .. Len(queue'[u])
    <3>1. i \in Nat \ {0}
      OBVIOUS
    <3>2. CASE u = s
      <4>1. i + 1 \in 1 .. Len(queue[s]) /\ queue'[u][i] = queue[s][i + 1] /\ i + 1 # 1
        BY <2>5, <3>1, <3>2
      <4>. QED
        BY <2>2, <2>3, <2>6, <4>1
    <3>. QED
      BY <2>2, <2>3, <2>5, <2>6, <3>2, SMTT(60)
  <2>9. conn' # NULL => phase'[conn'] \in {"connected", "sent", "stalled", "gone"}
    BY <2>2, <2>3, <2>6
  <2>. QED
    BY <2>6, <2>7, <2>8, <2>9
<1>4. CASE close
  <2>1. conn \in Peers
    BY <1>4, <1>a DEF close, Typed, ThreadTyped, Request
  <2>2. /\ conn' = NULL /\ queue' = queue
        /\ \A d \in Peers \ {conn} : phase'[d] = phase[d] /\ wire'[d] = wire[d]
        /\ phase'[conn] = "away" => wire'[conn] = <<>>
    BY <1>4, <2>1 DEF close, Typed, NetworkTyped
  <2>. QED
    BY <1>a, <2>1, <2>2
<1>5. CASE dispatch_load
  <2>1. UNCHANGED <<wire, conn>>
    BY <1>5 DEF dispatch_load, connection
  <2>2. CASE UNCHANGED <<queue, phase>>
    BY <1>0, <2>1, <2>2
  <2>3. ASSUME NEW s \in sockets, phase[Self] = "away", queue' = [queue EXCEPT ![s] = Append(@, Self)],
               phase' = [phase EXCEPT ![Self] = "sent"]
        PROVE  Apart'
    <3>1. s \in Sockets /\ phase'[Self] = "sent" /\ \A d \in Peers \ {Self} : phase'[d] = phase[d]
      BY <1>a, <2>3 DEF Typed, ThreadTyped, NetworkTyped
    <3>. QED
      BY <1>a, <1>b, <2>1, <2>3, <3>1
  <2>. QED
    BY <1>5, <2>2, <2>3 DEF dispatch_load
<1>6. CASE fetch_returns
  <2>1. /\ UNCHANGED <<queue, conn, wire>>
        /\ phase'[Self] = IF phase[Self] = "away" THEN "away" ELSE "gone"
        /\ \A d \in Peers \ {Self} : phase'[d] = phase[d]
    BY <1>6, <1>a DEF fetch_returns, Typed, NetworkTyped
  <2>. QED
    BY <1>a, <2>1
<1>7. ASSUME NEW c \in Clients, NEW s \in Sockets, NEW k \in Kinds, connect(c, s, k)
      PROVE  Apart'
  <2>1. /\ c \in Peers /\ phase'[c] = "connected" /\ \A d \in Peers \ {c} : phase'[d] = phase[d]
        /\ UNCHANGED <<wire, conn>>
    BY <1>7 DEF connect, connection, Typed, NetworkTyped, Peers
  <2>. QED
    BY <1>7, <1>b, <2>1 DEF connect
<1>8. ASSUME NEW c \in Clients, transmit(c) \/ hang_up(c) \/ leave(c) PROVE Apart'
  <2>1. c \in Peers /\ UNCHANGED <<queue, conn>> /\ phase[c] # "away"
    BY <1>8 DEF transmit, hang_up, leave, connection, Peers
  <2>2. \A d \in Peers \ {c} : phase'[d] = phase[d] /\ wire'[d] = wire[d]
    BY <1>8, <2>1 DEF transmit, hang_up, leave, Typed, NetworkTyped
  <2>3. \/ /\ phase[c] \in {"connected", "sent", "stalled", "gone"}
           /\ phase'[c] \in {"connected", "sent", "stalled", "gone"}
           /\ wire' = wire
        \/ phase[c] = "done" /\ wire'[c] = <<>>
    BY <1>8, <2>1 DEF transmit, hang_up, leave, Typed, NetworkTyped
  <2>. QED
    BY <1>d, <2>1, <2>2, <2>3
<1>9. CASE UNCHANGED vars
  BY <1>0, <1>9 DEF vars
<1>. QED
  BY <1>1, <1>2, <1>3, <1>4, <1>5, <1>6, <1>7, <1>8, <1>9 DEF Next, Thread, Trouble, Network

LEMMA AnsweringStep ==
  ASSUME Typed, Apart, Answering, [Next]_vars
  PROVE  Answering'
<1>. USE DEF Answering, OneResponse, Headers
<1>a. /\ conn \in Peers \cup {NULL} /\ (pc \in Request => conn \in Peers)
      /\ wire \in [Peers -> Pieces] /\ kind \in [Peers -> AllKinds]
      /\ NULL \notin Peers /\ NULL # "1.0"
  BY ServerAssumption DEF Typed, ThreadTyped, NetworkTyped, Peers
<1>b. Append(<<"headers">>, "body") = <<"headers", "body">> /\ Append(<<>>, "body") = <<"body">>
  BY AppendBody
\* The thread is not in a request, or has just come out of one.
<1>c. ASSUME UNCHANGED <<wire, kind, phase>>, pc' \notin {"identify", "read", "dispatch", "fetch", "stream", "send"}
      PROVE  Answering'
  BY <1>c
<1>1. ASSUME NEW i \in 1 .. 6, setup(i) PROVE Answering'
  <2>1. <<pc, pc'>> \in Following /\ UNCHANGED <<wire, kind, phase>>
    BY <1>1, SetupOrder DEF setup, network
  <2>. QED
    BY <1>c, <2>1 DEF Following
<1>2. CASE \/ while \/ free_storage \/ free_server \/ redhttp_server_run \/ select \/ scan_ends
           \/ select_fails \/ accept_fails \/ broken_pipe
  <2>1. /\ UNCHANGED <<wire, kind, phase>>
        /\ pc' \in {"redhttp_server_run", "free_storage", "free_server", "exited", "select", "scan", "while"}
    BY <1>2
       DEF while, TestRunning, free_storage, free_server, ExitCode, redhttp_server_run, select,
           scan_ends, select_fails, accept_fails, broken_pipe, Exit, network
  <2>. QED
    BY <1>c, <2>1
<1>3. ASSUME NEW i \in 1 .. 6, setup_fails(i) PROVE Answering'
  <2>1. UNCHANGED <<wire, kind, phase>> /\ pc' \in {"free_storage", "exited"}
    BY <1>3 DEF setup_fails, redstore_fatal, Exit, network
  <2>. QED
    BY <1>c, <2>1
<1>4. CASE redland_log_handler
  <2>1. UNCHANGED <<conn, response, headers_sent, version, wire, kind, phase>> /\ pc' \in {pc, "exited"}
    BY <1>4 DEF redland_log_handler, redstore_fatal, Exit, network, connection
  <2>. QED
    BY <2>1
<1>5. CASE termination_handler
  <2>1. UNCHANGED <<conn, response, headers_sent, version, wire, kind, phase>> /\ pc' \in {pc, "while"}
    BY <1>5 DEF termination_handler, network, connection
  <2>. QED
    BY <2>1
<1>6. CASE accept
  <2>1. PICK s \in ready : conn' = Head(queue[s])
    BY <1>6 DEF accept
  <2>2. s \in Sockets /\ queue[s] \in Seq(Peers) /\ queue[s] # <<>>
    BY DEF Typed, ThreadTyped, NetworkTyped, Booked
  <2>3. conn' = queue[s][1] /\ 1 \in 1 .. Len(queue[s])
    BY <2>1, <2>2
  <2>4. wire[conn'] = <<>>
    BY <2>2, <2>3 DEF Apart
  <2>5. pc' = "identify" /\ headers_sent' = FALSE /\ UNCHANGED <<wire, kind, phase>>
    BY <1>6 DEF accept
  <2>. QED
    BY <2>4, <2>5
<1>7. CASE identify \/ redhttp_request_read \/ dispatch_page
  <2>1. /\ UNCHANGED <<conn, headers_sent, wire, kind, phase>>
        /\ pc \in {"identify", "read", "dispatch"}
        /\ \/ pc' \in {"read", "close", "dispatch"}
           \/ pc' = "send" /\ response' \in {"page", "empty"}
    BY <1>7 DEF identify, redhttp_request_read, dispatch_page, connection, network
  <2>2. CASE redhttp_request_read
    <3>1. pc' \in {"dispatch", "send"} /\ phase[conn] # "gone" =>
            version' = IF kind[conn] = "simple" THEN "0.9"
                       ELSE IF kind[conn] = "garbled" THEN NULL ELSE "1.0"
      BY <2>2 DEF redhttp_request_read
    <3>. QED
      BY <2>1, <2>2, <3>1 DEF redhttp_request_read
  <2>3. CASE identify \/ dispatch_page
    <3>1. version' = version /\ (pc = "dispatch" \/ pc' \in {"read", "close"})
      BY <2>3 DEF identify, dispatch_page, connection
    <3>. QED
      BY <2>1, <2>3, <3>1 DEF identify, dispatch_page
  <2>. QED
    BY <1>7, <2>2, <2>3
<1>8. CASE dispatch_stream
  <2>1. /\ pc = "dispatch" /\ pc' = "stream" /\ headers_sent' = TRUE /\ response' = "empty"
        /\ UNCHANGED <<conn, kind, phase, version>> /\ conn \in Peers
    BY <1>8, <1>a DEF dispatch_stream, Send, Request
  <2>2. wire[conn] = <<>> /\ ~ headers_sent
    BY <2>1
  <2>3. wire' = [wire EXCEPT ![conn] = wire[conn] \o Written("empty")]
    BY <1>8 DEF dispatch_stream, Send
  <2>4. Written("empty") = Headers
    BY <2>2, WrittenIs
  <2>5. <<>> \o Headers = Headers
    <3>1. <<>> \o <<"headers">> = <<"headers">> /\ <<>> \o <<>> = <<>>
      OBVIOUS
    <3>. QED
      BY <3>1
  <2>6. wire' = [wire EXCEPT ![conn] = Headers]
    BY <2>2, <2>3, <2>4, <2>5
  <2>7. wire'[conn] = Headers /\ \A d \in Peers \ {conn} : wire'[d] = wire[d]
    BY <1>a, <2>1, <2>6
  <2>. QED
    BY <2>1, <2>7
<1>9. CASE stream
  <2>1. /\ pc = "stream" /\ pc' = "send" /\ UNCHANGED <<conn, kind, phase, version, response, headers_sent>>
        /\ conn \in Peers
    BY <1>9, <1>a DEF stream, Request, connection
  <2>2. /\ wire'[conn] \in {Headers, Append(Headers, "body")}
        /\ \A d \in Peers \ {conn} : wire'[d] = wire[d]
    BY <1>9, <1>a, <2>1 DEF stream
  <2>3. phase[conn] # "gone" =>
          Headers = IF kind[conn] \in {"simple", "garbled"} THEN <<>> ELSE <<"headers">>
    BY <1>a, <2>1
  <2>4. phase[conn] # "gone" =>
          wire'[conn] \in IF kind[conn] \in {"simple", "garbled"} THEN {<<>>, <<"body">>}
                          ELSE {<<"headers">>, <<"headers", "body">>}
    BY <1>b, <2>2, <2>3
  <2>5. OneResponse'
    BY <2>1, <2>2, <2>4
  <2>. QED
    BY <2>1, <2>2, <2>5
<1>10. CASE redhttp_response_send
  <2>1. /\ pc = "send" /\ pc' = "close" /\ UNCHANGED <<conn, kind, phase, response>> /\ conn \in Peers
    BY <1>10, <1>a DEF redhttp_response_send, Send, Request
  <2>2. wire' = [wire EXCEPT ![conn] = wire[conn] \o Written(response)]
    BY <1>10 DEF redhttp_response_send, Send
  <2>3. phase[conn] # "gone" =>
          wire[conn] \o Written(response) \in IF kind[conn] \in {"simple", "garbled"}
                                                THEN {<<>>, <<"body">>}
                                                ELSE {<<"headers">>, <<"headers", "body">>}
    <3>. SUFFICES ASSUME phase[conn] # "gone"
                  PROVE  wire[conn] \o Written(response) \in IF kind[conn] \in {"simple", "garbled"}
                                                               THEN {<<>>, <<"body">>}
                                                               ELSE {<<"headers">>, <<"headers", "body">>}
      OBVIOUS
    <3>0. version \in {NULL, "0.9"} <=> kind[conn] \in {"simple", "garbled"}
      BY <1>a, <2>1
    <3>1. CASE headers_sent
      <4>1. Written(response) = <<>>
        BY <2>1, <3>1, WrittenIs
      <4>2. wire[conn] \in Seq({"headers", "body"})
        BY <1>a, <2>1 DEF Pieces
      <4>3. wire[conn] \o <<>> = wire[conn]
        BY <4>2
      <4>. QED
        BY <1>b, <2>1, <3>0, <3>1, <4>1, <4>3
    <3>2. CASE ~ headers_sent
      <4>1. Written(response) \in IF kind[conn] \in {"simple", "garbled"}
                                   THEN {<<>>, <<"body">>}
                                   ELSE {<<"headers">>, <<"headers", "body">>}
        BY <2>1, <3>0, <3>2, WrittenIs
      <4>2. /\ <<>> \o <<>> = <<>> /\ <<>> \o <<"body">> = <<"body">>
            /\ <<>> \o <<"headers">> = <<"headers">>
            /\ <<>> \o <<"headers", "body">> = <<"headers", "body">>
        OBVIOUS
      <4>. QED
        BY <2>1, <3>2, <4>1, <4>2
    <3>. QED
      BY <3>1, <3>2
  <2>4. wire'[conn] = wire[conn] \o Written(response) /\ \A d \in Peers \ {conn} : wire'[d] = wire[d]
    BY <1>a, <2>1, <2>2
  <2>. QED
    BY <2>1, <2>3, <2>4
<1>11. CASE dispatch_load \/ fetch_returns
  <2>1. /\ UNCHANGED <<conn, headers_sent, version, wire, kind>>
        /\ pc \in {"dispatch", "fetch"}
        /\ pc' = "fetch" \/ (pc' = "send" /\ response' = "page")
    BY <1>11 DEF dispatch_load, fetch_returns, connection
  <2>2. \A d \in Peers : phase'[d] = phase[d] \/ phase'[d] = "gone" \/ wire[d] = <<>>
    BY <1>11 DEF dispatch_load, fetch_returns, Typed, NetworkTyped, Apart
  <2>3. conn \in Peers /\ (phase'[conn] = phase[conn] \/ phase'[conn] = "gone")
    <3>1. conn \in Peers /\ phase[conn] # "away"
      BY <1>a, <2>1 DEF Request, Apart
    <3>. QED
      BY <1>11, <3>1 DEF dispatch_load, fetch_returns, Typed, NetworkTyped
  <2>4. OneResponse'
    BY <2>1, <2>2
  <2>. QED
    BY <2>1, <2>3, <2>4
<1>12. CASE close
  <2>1. pc' = "scan" /\ kind' = kind /\ conn \in Peers
    BY <1>12, <1>a DEF close, Request
  <2>2. \A d \in Peers \ {conn} : wire'[d] = wire[d] /\ phase'[d] = phase[d]
    BY <1>12, <1>a, <2>1 DEF close, Typed, NetworkTyped
  <2>3. wire'[conn] = <<>> \/ (wire'[conn] = wire[conn] /\ phase[conn] # "gone")
    BY <1>12, <1>a, <2>1 DEF close
  <2>. QED
    BY <2>1, <2>2, <2>3
<1>13. ASSUME NEW c \in Clients, NEW s \in Sockets, NEW k \in Kinds, connect(c, s, k)
       PROVE  Answering'
  <2>1. /\ c \in Peers /\ phase[c] = "away" /\ wire' = wire
        /\ UNCHANGED <<pc, conn, response, headers_sent, version>>
        /\ \A d \in Peers \ {c} : kind'[d] = kind[d] /\ phase'[d] = phase[d]
    BY <1>13, <1>a DEF connect, process, connection, Peers, Typed, NetworkTyped
  <2>2. wire[c] = <<>> /\ c # conn
    <3>1. phase[c] \notin {"connected", "sent", "stalled", "gone"} /\ c # NULL
      BY <1>a, <2>1
    <3>. QED
      BY <2>1, <3>1 DEF Apart
  <2>3. OneResponse'
    BY <2>1, <2>2
  <2>4. pc \in Request => kind'[conn] = kind[conn] /\ phase'[conn] = phase[conn]
    BY <1>a, <2>1, <2>2
  <2>. QED
    BY <2>1, <2>3, <2>4 DEF Request
<1>14. ASSUME NEW c \in Clients, transmit(c) \/ hang_up(c) PROVE Answering'
  <2>1. UNCHANGED <<pc, conn, response, headers_sent, version, wire, kind>>
    BY <1>14 DEF transmit, hang_up, process, connection
  <2>2. \A d \in Peers : phase[d] = "gone" => phase'[d] = "gone"
    BY <1>14 DEF transmit, hang_up, Typed, NetworkTyped
  <2>3. OneResponse'
    BY <2>1, <2>2
  <2>4. pc \in Request => (phase[conn] = "gone" => phase'[conn] = "gone")
    BY <1>a, <2>2
  <2>. QED
    BY <2>1, <2>3, <2>4 DEF Request
<1>15. ASSUME NEW c \in Clients, leave(c) PROVE Answering'
  <2>1. /\ c \in Peers /\ phase[c] = "done" /\ wire'[c] = <<>>
        /\ UNCHANGED <<pc, conn, response, headers_sent, version>>
        /\ \A d \in Peers \ {c} : kind'[d] = kind[d] /\ wire'[d] = wire[d] /\ phase'[d] = phase[d]
    BY <1>15, <1>a DEF leave, process, connection, Peers, Typed, NetworkTyped
  <2>2. c # conn
    <3>1. phase[c] \notin {"connected", "sent", "stalled", "gone"} /\ c # NULL
      BY <1>a, <2>1
    <3>. QED
      BY <3>1 DEF Apart
  <2>3. OneResponse'
    BY <2>1
  <2>4. pc \in Request =>
          kind'[conn] = kind[conn] /\ wire'[conn] = wire[conn] /\ phase'[conn] = phase[conn]
    BY <1>a, <2>1, <2>2
  <2>. QED
    BY <2>1, <2>3, <2>4 DEF Request
<1>16. CASE UNCHANGED vars
  BY <1>16 DEF vars
<1>. QED
  BY <1>1, <1>2, <1>3, <1>4, <1>5, <1>6, <1>7, <1>8, <1>9, <1>10, <1>11, <1>12, <1>13, <1>14,
     <1>15, <1>16
     DEF Next, Thread, Trouble, Network

\* OneResponse holds in every behaviour: whoever sends the headers, handler
\* or loop, a client has them once and first, and at most one body.
THEOREM ResponsesAreSingle == Spec => []OneResponse
<1>1. Init => Apart /\ Answering
  <2>1. Init => \A s \in Sockets : Len(queue[s]) = 0
    BY DEF Init
  <2>. QED
    BY <2>1, ServerAssumption DEF Init, Setup, Apart, Answering, OneResponse, Peers
<1>2. Typed /\ Apart /\ Answering /\ [Next]_vars => Apart' /\ Answering'
  BY ApartStep, AnsweringStep
<1>3. Answering => OneResponse
  BY DEF Answering
<1>. QED
  BY <1>1, <1>2, <1>3, TypedInit, TypedStep, PTL DEF Spec
=============================================================================
