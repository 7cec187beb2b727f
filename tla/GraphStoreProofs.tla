-------------------------- MODULE GraphStoreProofs --------------------------
(***************************************************************************)
(* Theorems about GraphStore, for every choice of its constants.           *)
(*                                                                         *)
(* The proofs rest on two summaries.  Accept(r) is all that a handler's    *)
(* dispatch step can do with a request r: refuse it, or enter the storage  *)
(* step its operation calls for.  Stages lists which operation may be in   *)
(* which step.  From the invariants follows in the end that the store with *)
(* all its steps, failures and crashes does what StoreContract says.       *)
(***************************************************************************)
EXTENDS GraphStore, TLAPS

Loaders == {"INSERT", "LOAD"}

\* The storage steps a handler can enter, with the operations that do.
Entries == ({"load"} \X Loaders)
             \cup {<<"body", "PUT">>, <<"body", "POST">>, <<"unload", "UNINSERT">>,
                   <<"genid", "POSTNEW">>, <<"remove", "DELETE">>, <<"graphs", "DELETEALL">>}
\* The steps an operation can be in before it has its response.
Stages == Entries \cup {<<"body", "POSTNEW">>, <<"clear", "PUT">>, <<"load", "PUT">>,
                         <<"load", "POST">>, <<"load", "POSTNEW">>, <<"triples", "DELETEALL">>}

\* The buffer after the dispatch: reset, or with a message logged since.
Fresh == request_count' \in Numbers /\ error_buffer' \in {NULL, {request_count'}}

Refused(r) ==
  /\ pc' = "respond"
  /\ stream' = <<>>
  /\ todo' = {}
  /\ response' \in Responses
  /\ response'.errors \subseteq {request_count'}
  /\ \/ response'.code \in {400, 404, 406, 500, 501}
     \/ response'.code = 200 /\ r.op \in {"HEAD", "GET"}

Started(r) ==
  /\ <<pc', r.op>> \in Entries
  /\ r.graph \in Contexts \/ pc' \in {"genid", "graphs"}
  /\ stream' = IF pc' \in {"load", "unload"} THEN r.body.doc ELSE <<>>
  /\ todo' \in SUBSET Graphs
  /\ response' = NULL
  /\ Fresh

\* The operations that carry no document.
Bodiless == {"BAD", "HEAD", "GET", "DELETE", "DELETEALL"}

Handled(r) == (Refused(r) \/ Started(r)) /\ attempts' = 0 /\ err' = FALSE

Accept(r) ==
  /\ pc = "idle"
  /\ UNCHANGED <<store, durable, base_id, running, before>>
  /\ req' = r
  /\ request_count' \in Numbers
  /\ Fresh \/ error_buffer' = error_buffer
  /\ r.op \in Bodiless => r.body = NoBody
  /\ Handled(r)

-----------------------------------------------------------------------------
(* What the handlers do                                                    *)

LEMMA BodyType ==
  /\ NoBody \in Bodies
  /\ \A b \in Bodies : b.doc \in Seq(Triples \cup Levels)
  BY ConstantsAssumption, NullAssumption DEF Bodies, NoBody

\* The graph a request names is a graph unless the address is refused.
LEMMA AddressType ==
  ASSUME NEW a \in Addresses
  PROVE  /\ NodeOf(a) \in Contexts \cup {NULL}
         /\ NamedAddress(a) => NodeOf(a) \in Contexts
  BY ConstantsAssumption DEF AllAddresses, NodeOf, NamedAddress, BadAddress, Contexts

\* The first three handlers leave a buffer with no message of another request.
LEMMA DispatchFresh ==
  ASSUME NEW op, NEW g, NEW body, TypeOK, Dispatch(op, g, body)
  PROVE  Fresh
<1>1. request_count' \in Numbers
  BY ConstantsAssumption DEF Dispatch, Numbers, TypeOK
<1>. QED
  BY <1>1 DEF Dispatch, Fresh, reset_error_buffer, Messages

\* A reply to a request that has just been dispatched quotes its own messages.
LEMMA DispatchReply ==
  ASSUME NEW r \in Requests, Fresh,
         Reply(400) \/ Reply(404) \/ Reply(406) \/ Reply(500) \/ Reply(501)
  PROVE  Handled(r)
  BY DEF Handled, Fresh, Messages, Reply, NoLocals, Refused, Responses, Codes

LEMMA ReadReply ==
  ASSUME NEW r \in Requests, r.op \in {"HEAD", "GET"},
         \E body \in SUBSET Triples : ReplyWith(200, body)
  PROVE  Handled(r)
  BY DEF Handled, ReplyWith, NoLocals, Refused, Responses, Codes

\* Parsing fails, or hands the whole document to the stream processor.
LEMMA ParseEntry ==
  ASSUME NEW r \in Requests, NEW step \in {"load", "unload"},
         Fresh, r.graph \in Contexts, <<step, r.op>> \in Entries,
         parse_data_from_buffer(r.body, step)
  PROVE  Handled(r)
<1>1. CASE Goto(step, r.body.doc, {})
  BY <1>1 DEF Handled, Goto, Started
<1>2. CASE Reply(500)
  BY <1>2, DispatchReply
<1>. QED
  BY <1>1, <1>2 DEF parse_data_from_buffer

\* A body without a length is refused, or the handler goes on to read it.
LEMMA BodyEntry ==
  ASSUME NEW r \in Requests, Fresh, r.graph \in Contexts, <<"body", r.op>> \in Entries,
         parse_data_from_request_body(r.body)
  PROVE  Handled(r)
<1>1. CASE Goto("body", <<>>, {})
  BY <1>1 DEF Handled, Goto, Started
<1>2. CASE Reply(400) \/ Reply(500)
  BY <1>2, DispatchReply
<1>. QED
  BY <1>1, <1>2 DEF parse_data_from_request_body

\* The dispatch step leaves the store alone and empties the error buffer.
LEMMA DispatchAccept ==
  ASSUME NEW op \in Ops, NEW g \in Contexts \cup {NULL}, NEW body \in Bodies,
         TypeOK, Dispatch(op, g, body), op \in Bodiless => body = NoBody,
         Handled([op |-> op, graph |-> g, body |-> body])
  PROVE  \E r \in Requests : Accept(r)
<1>. DEFINE r == [op |-> op, graph |-> g, body |-> body]
<1>1. r \in Requests
  BY DEF Requests
<1>2. Fresh /\ request_count' \in Numbers
  BY DispatchFresh DEF Fresh
<1>. QED
  BY <1>1, <1>2 DEF Accept, Dispatch, disk

LEMMA HeadAccepted ==
  ASSUME TypeOK, NEW a \in Addresses, handle_data_head(a)
  PROVE  \E r \in Requests : Accept(r)
<1>. DEFINE r == [op |-> "HEAD", graph |-> NodeOf(a), body |-> NoBody]
<1>1. r \in Requests /\ r.op = "HEAD"
  BY BodyType, AddressType DEF Requests, Ops
<1>2. Dispatch("HEAD", NodeOf(a), NoBody) /\ Fresh
  BY DispatchFresh DEF handle_data_head
<1>3. Handled(r)
  <2>. HIDE DEF r
  <2>1. CASE Reply(400) \/ Reply(404) \/ Reply(500)
    BY <1>1, <1>2, <2>1, DispatchReply
  <2>2. CASE ReplyWith(200, {})
    BY <1>1, <2>2, ReadReply
  <2>. QED
    BY <2>1, <2>2 DEF handle_data_head
<1>. QED
  BY <1>1, <1>2, <1>3, AddressType, BodyType, DispatchAccept DEF Ops, Bodiless

LEMMA GetAccepted ==
  ASSUME TypeOK, NEW a \in Addresses, handle_data_get(a)
  PROVE  \E r \in Requests : Accept(r)
<1>. DEFINE g == IF DefaultAddress(a) THEN DefaultGraph ELSE NodeOf(a)
            r == [op |-> "GET", graph |-> g, body |-> NoBody]
<1>1. g \in Contexts \cup {NULL}
  BY AddressType DEF Contexts
<1>2. Dispatch("GET", g, NoBody) /\ Fresh
  BY DispatchFresh DEF handle_data_get
<1>. HIDE DEF g
<1>3. r \in Requests /\ r.op = "GET"
  BY <1>1, BodyType DEF Requests, Ops
<1>4. Handled(r)
  <2>. HIDE DEF r
  <2>1. CASE Reply(400) \/ Reply(404) \/ Reply(406) \/ Reply(500)
    BY <1>2, <1>3, <2>1, DispatchReply
  <2>2. CASE \E body \in SUBSET Triples : ReplyWith(200, body)
    BY <1>3, <2>2, ReadReply
  <2>3. {q[2] : q \in store} \in SUBSET Triples /\ Content(store, NodeOf(a)) \in SUBSET Triples
    BY DEF TypeOK, Quads, Content
  <2>4. ASSUME NEW set \in SUBSET Triples, format_graph_stream(set)
        PROVE  \/ Reply(406) \/ Reply(500)
               \/ \E body \in SUBSET Triples : ReplyWith(200, body)
    BY <2>4 DEF format_graph_stream
  <2>. QED
    BY <2>1, <2>2, <2>3, <2>4 DEF handle_data_get
<1>. QED
  BY <1>1, <1>2, <1>4, BodyType, DispatchAccept DEF Ops, Bodiless

LEMMA PutAccepted ==
  ASSUME TypeOK, NEW a \in Addresses, NEW body \in Bodies, handle_data_put(a, body)
  PROVE  \E r \in Requests : Accept(r)
<1>. DEFINE r == [op |-> "PUT", graph |-> NodeOf(a), body |-> body]
<1>1. r \in Requests /\ r.op = "PUT" /\ r.body = body /\ r.graph = NodeOf(a)
  BY AddressType DEF Requests, Ops
<1>2. Dispatch("PUT", NodeOf(a), body) /\ Fresh
  BY DispatchFresh DEF handle_data_put
<1>3. Handled(r)
  <2>. HIDE DEF r
  <2>1. CASE Reply(400) \/ Reply(500) \/ Reply(501)
    BY <1>1, <1>2, <2>1, DispatchReply
  <2>2. CASE NamedAddress(a) /\ parse_data_from_request_body(body)
    BY <1>1, <1>2, <2>2, AddressType, BodyEntry DEF Entries
  <2>. QED
    BY <2>1, <2>2 DEF handle_data_put
<1>. QED
  BY <1>1, <1>2, <1>3, AddressType, DispatchAccept DEF Ops, Bodiless

LEMMA PostAccepted ==
  ASSUME TypeOK, NEW a \in Addresses, NEW body \in Bodies, handle_data_post(a, body)
  PROVE  \E r \in Requests : Accept(r)
<1>1. ASSUME NEW g \in Contexts \cup {NULL}, Dispatch("POST", g, body),
             Reply(400) \/ Reply(500) \/ (g \in Contexts /\ parse_data_from_request_body(body))
      PROVE  \E r \in Requests : Accept(r)
  <2>. DEFINE r == [op |-> "POST", graph |-> g, body |-> body]
  <2>1. r \in Requests /\ r.op = "POST" /\ r.body = body /\ r.graph = g
    BY DEF Requests, Ops
  <2>2. Fresh
    BY <1>1, DispatchFresh
  <2>3. Handled(r)
    <3>. HIDE DEF r
    <3>1. CASE Reply(400) \/ Reply(500)
      BY <2>1, <2>2, <3>1, DispatchReply
    <3>2. CASE g \in Contexts /\ parse_data_from_request_body(body)
      BY <2>1, <2>2, <3>2, BodyEntry DEF Entries
    <3>. QED
      BY <1>1, <3>1, <3>2
  <2>. QED
    BY <1>1, <2>3, DispatchAccept DEF Ops, Bodiless
<1>2. CASE Dispatch("POSTNEW", NULL, body) /\ Goto("genid", <<>>, {})
  <2>. DEFINE r == [op |-> "POSTNEW", graph |-> NULL, body |-> body]
  <2>1. Handled(r)
    BY <1>2, DispatchFresh DEF Handled, Started, Goto, Entries
  <2>. QED
    BY <1>2, <2>1, DispatchAccept DEF Ops, Bodiless
<1>3. CASE Dispatch("POST", NULL, body) /\ Reply(400)
  BY <1>1, <1>3
<1>4. CASE Dispatch("POST", DefaultGraph, body) /\ parse_data_from_request_body(body)
  BY <1>1, <1>4 DEF Contexts
<1>5. CASE /\ NamedAddress(a)
           /\ Dispatch("POST", NodeOf(a), body)
           /\ Reply(500) \/ parse_data_from_request_body(body)
  BY <1>1, <1>5, AddressType
<1>. QED
  BY <1>2, <1>3, <1>4, <1>5 DEF handle_data_post

LEMMA DeleteAccepted ==
  ASSUME TypeOK, NEW a \in Addresses, handle_data_delete(a)
  PROVE  \E r \in Requests : Accept(r)
<1>1. ASSUME NEW op \in {"DELETE", "DELETEALL"}, NEW g \in Contexts \cup {NULL},
             Dispatch(op, g, NoBody),
             \/ Reply(400) \/ Reply(404) \/ Reply(500)
             \/ op = "DELETE" /\ g \in Contexts /\ Goto("remove", <<>>, {})
             \/ op = "DELETEALL" /\ \E set \in SUBSET Graphs : Goto("graphs", <<>>, set)
      PROVE  \E r \in Requests : Accept(r)
  <2>. DEFINE r == [op |-> op, graph |-> g, body |-> NoBody]
  <2>1. r \in Requests /\ r.op = op /\ r.graph = g
    BY BodyType DEF Requests, Ops
  <2>2. Fresh
    BY <1>1, DispatchFresh
  <2>3. Handled(r)
    <3>. HIDE DEF r
    <3>1. CASE Reply(400) \/ Reply(404) \/ Reply(500)
      BY <2>1, <2>2, <3>1, DispatchReply
    <3>2. CASE op = "DELETE" /\ g \in Contexts /\ Goto("remove", <<>>, {})
      BY <2>1, <2>2, <3>2 DEF Handled, Started, Goto, Entries
    <3>3. CASE op = "DELETEALL" /\ \E set \in SUBSET Graphs : Goto("graphs", <<>>, set)
      BY <2>1, <2>2, <3>3 DEF Handled, Started, Goto, Entries
    <3>. QED
      BY <1>1, <3>1, <3>2, <3>3
  <2>. QED
    BY <1>1, <2>3, BodyType, DispatchAccept DEF Ops, Bodiless
<1>2. CASE Dispatch("DELETE", NULL, NoBody) /\ Reply(400)
  BY <1>1, <1>2
<1>3. CASE /\ Dispatch("DELETEALL", NULL, NoBody)
           /\ Reply(500) \/ Goto("graphs", <<>>, {g \in Graphs : contains_context(g)})
  BY <1>1, <1>3
<1>4. CASE /\ NamedAddress(a)
           /\ Dispatch("DELETE", NodeOf(a), NoBody)
           /\ Reply(404) \/ Reply(500) \/ Goto("remove", <<>>, {})
  BY <1>1, <1>4, AddressType
<1>. QED
  BY <1>2, <1>3, <1>4 DEF handle_data_delete

\* The handlers that take the document from a form or fetch it.
LEMMA FormAccepted ==
  ASSUME TypeOK, NEW u \in Graphs \cup {NULL}, NEW g \in Graphs \cup {NULL}, NEW body \in Bodies,
         \/ handle_insert_post(g, body)
         \/ handle_delete_post(g, body)
         \/ handle_load_post(u, g, body)
  PROVE  \E r \in Requests : Accept(r)
<1>1. ASSUME NEW step \in {"load", "unload"}, NEW op \in {"INSERT", "UNINSERT", "LOAD"},
             NEW c \in Contexts \cup {NULL},
             Dispatch(op, c, body), <<step, op>> \in Entries,
             Reply(400) \/ (c \in Contexts /\ parse_data_from_buffer(body, step))
      PROVE  \E r \in Requests : Accept(r)
  <2>. DEFINE r == [op |-> op, graph |-> c, body |-> body]
  <2>1. r \in Requests /\ r.op = op /\ r.body = body /\ r.graph = c
    BY DEF Requests, Ops
  <2>2. Fresh
    BY <1>1, DispatchFresh
  <2>3. Handled(r)
    <3>. HIDE DEF r
    <3>1. CASE Reply(400)
      BY <2>1, <2>2, <3>1, DispatchReply
    <3>2. CASE c \in Contexts /\ parse_data_from_buffer(body, step)
      BY <1>1, <2>1, <2>2, <3>2, ParseEntry
    <3>. QED
      BY <1>1, <3>1, <3>2
  <2>. QED
    BY <1>1, <2>3, DispatchAccept DEF Ops, Bodiless
<1>2. FormGraph(g) \in Contexts /\ g \in Contexts \cup {NULL} /\ u \in Contexts \cup {NULL}
  BY DEF FormGraph, Contexts
<1>3. /\ <<"load", "INSERT">> \in Entries
      /\ <<"load", "LOAD">> \in Entries
      /\ <<"unload", "UNINSERT">> \in Entries
  BY DEF Entries, Loaders
<1>4. CASE handle_insert_post(g, body)
  BY <1>1, <1>2, <1>3, <1>4 DEF handle_insert_post
<1>5. CASE handle_delete_post(g, body)
  BY <1>1, <1>2, <1>3, <1>5 DEF handle_delete_post
<1>6. CASE handle_load_post(u, g, body)
  <2>. DEFINE c == IF g = NULL THEN u ELSE g
  <2>1. c \in Contexts \cup {NULL} /\ (u # NULL => c \in Contexts)
    BY <1>2
  <2>2. Dispatch("LOAD", c, body) /\ (Reply(400) \/ (u # NULL /\ parse_data_from_buffer(body, "load")))
    BY <1>6 DEF handle_load_post
  <2>. HIDE DEF c
  <2>. QED
    BY <1>1, <1>3, <2>1, <2>2
<1>. QED
  BY <1>4, <1>5, <1>6

LEMMA UnreadableAccepted ==
  ASSUME TypeOK, redhttp_request_read_fails
  PROVE  \E r \in Requests : Accept(r)
<1>. DEFINE r == [op |-> "BAD", graph |-> NULL, body |-> NoBody]
<1>1. r \in Requests
  BY BodyType DEF Requests, Ops
<1>2. Handled(r)
  BY DEF redhttp_request_read_fails, ReplyWith, NoLocals, Handled, Refused, Responses, Codes
<1>. QED
  BY <1>1, <1>2 DEF redhttp_request_read_fails, Accept, TypeOK, counters, disk

\* Whatever handler a request is dispatched to, the summary holds.
LEMMA HandlersAccept ==
  ASSUME TypeOK, Handlers
  PROVE  \E r \in Requests : Accept(r)
  BY HeadAccepted, GetAccepted, PutAccepted, PostAccepted, DeleteAccepted, FormAccepted,
     UnreadableAccepted DEF Handlers

-----------------------------------------------------------------------------
(* Type correctness                                                        *)

StageOK == pc \in Steps \ {"respond"} => <<pc, req.op>> \in Stages
Typed == TypeOK /\ StageOK

LEMMA AcceptTyped ==
  ASSUME Typed, NEW r \in Requests, Accept(r)
  PROVE  Typed'
<1>1. r.body.doc \in Seq(Triples \cup Levels) /\ <<>> \in Seq(Triples \cup Levels)
  BY BodyType DEF Requests
<1>2. 0 \in 0 .. MaxAttempts - 1 /\ SUBSET Graphs \subseteq SUBSET (Contexts \cup Quads)
  BY ConstantsAssumption DEF Contexts
<1>. /\ error_buffer' \in {NULL} \cup SUBSET Numbers
     /\ request_count' \in Numbers
  BY DEF Accept, Fresh, Typed, TypeOK
<1>3. CASE Refused(r)
  BY <1>1, <1>2, <1>3 DEF Accept, Handled, Refused, Typed, TypeOK, StageOK, Steps
<1>4. CASE Started(r)
  <2>1. pc' \in Steps \ {"respond", "triples"} /\ <<pc', r.op>> \in Stages
    BY <1>4 DEF Started, Entries, Stages, Loaders, Steps
  <2>2. pc' \in {"clear", "load", "remove", "unload"} => r.graph \in Contexts
    BY <1>4 DEF Started
  <2>3. stream' \in Seq(Triples \cup Levels) /\ todo' \in SUBSET (Contexts \cup Quads) /\ response' = NULL
    BY <1>1, <1>2, <1>4 DEF Started
  <2>4. attempts' \in 0 .. MaxAttempts - 1 /\ err' \in BOOLEAN /\ req' \in Requests
    BY <1>2 DEF Accept, Handled
  <2>5. /\ <<store', durable', before'>> = <<store, durable, before>>
        /\ <<base_id', running'>> = <<base_id, running>>
    BY DEF Accept
  <2>6. pc' = "body" => req'.graph \in Contexts
    BY <1>4 DEF Accept, Started
  <2>7. TypeOK'
    BY <2>1, <2>2, <2>3, <2>4, <2>5, <2>6 DEF Accept, Typed, TypeOK, Steps
  <2>8. StageOK'
    BY <2>1 DEF Accept, StageOK
  <2>. QED
    BY <2>7, <2>8 DEF Typed
<1>. QED
  BY <1>3, <1>4 DEF Accept, Handled

LEMMA WriteTyped ==
  ASSUME NEW s \in SUBSET Quads, durable \in SUBSET Quads, Write(s)
  PROVE  store' \in SUBSET Quads /\ durable' \in SUBSET Quads
  BY DEF Write

LEMMA FailsTyped ==
  ASSUME TypeOK, NEW fault \in StorageFaults, Fails(fault)
  PROVE  error_buffer' \in {NULL} \cup SUBSET Numbers
  BY DEF Fails, Logged, Messages, TypeOK

LEMMA MayLogTyped ==
  ASSUME TypeOK, MayLog
  PROVE  error_buffer' \in {NULL} \cup SUBSET Numbers
  BY DEF MayLog, Logged, Messages, TypeOK

\* A storage step that ends with a reply.
LEMMA ReplyTyped ==
  ASSUME NEW code \in Codes, Typed, Reply(code),
         error_buffer' \in {NULL} \cup SUBSET Numbers,
         store' \in SUBSET Quads, durable' \in SUBSET Quads,
         req' \in Requests, base_id' \in 0 .. LongSpace - 1,
         UNCHANGED <<request_count, running, before>>
  PROVE  Typed'
<1>1. <<>> \in Seq(Triples \cup Levels) /\ 0 \in 0 .. MaxAttempts - 1
  BY ConstantsAssumption
<1>2. response' \in Responses
  BY DEF Reply, Responses, Messages
<1>. QED
  BY <1>1, <1>2 DEF Reply, NoLocals, Typed, TypeOK, StageOK, Steps

LEMMA GoneTyped ==
  ASSUME NEW s \in SUBSET Quads, Gone(s)
  PROVE  Typed'
<1>1. /\ 0 \in 0 .. MaxAttempts - 1 /\ 0 \in 0 .. LongSpace - 1 /\ 0 \in Numbers
      /\ <<>> \in Seq(Triples \cup Levels)
  BY ConstantsAssumption DEF Numbers
<1>. QED
  BY <1>1 DEF Gone, NoLocals, Typed, TypeOK, StageOK, Steps

LEMMA InitTyped == Init => Typed
<1>1. /\ 0 \in 0 .. MaxAttempts - 1 /\ 0 \in 0 .. LongSpace - 1 /\ 0 \in Numbers
      /\ <<>> \in Seq(Triples \cup Levels)
  BY ConstantsAssumption DEF Numbers
<1>. QED
  BY <1>1 DEF Init, Typed, TypeOK, StageOK, Steps

\* One turn of the search for an unused identifier: it fails, finds one and
\* goes on to the document, or tries the next.
LEMMA SearchTurn ==
  ASSUME TypeOK, post_to_new_graph
  PROVE  /\ base_id' \in 0 .. LongSpace - 1
         /\ UNCHANGED <<store, durable, request_count, running, before>>
         /\ MayLog
         /\ \/ Reply(500) /\ req' = req
            \/ \E graph \in Graphs :
                 /\ Content(store, graph) = {}
                 /\ req' = [req EXCEPT !.graph = graph]
                 /\ Reply(400) \/ Reply(500) \/ Goto("body", <<>>, {})
            \/ /\ attempts' \in 0 .. MaxAttempts - 1
               /\ UNCHANGED <<pc, req, stream, todo, err, response>>
<1>. DEFINE id(seed) == IF base_id = 0 THEN seed ELSE base_id
            graph(seed) == GraphOf[id(seed) % IdSpace]
<1>1. PICK seed \in Seeds :
        /\ base_id' = NextBase(id(seed))
        /\ \/ Reply(500) /\ UNCHANGED req
           \/ /\ Unused(graph(seed))
              /\ req' = [req EXCEPT !.graph = graph(seed)]
              /\ parse_data_from_request_body(req.body)
           \/ /\ ~ Unused(graph(seed))
              /\ TryAgain
              /\ NextAttempt
              /\ UNCHANGED <<pc, req, stream, todo, err, response>>
           \/ /\ ~ Unused(graph(seed))
              /\ ~ TryAgain
              /\ Reply(500)
              /\ UNCHANGED req
  BY DEF post_to_new_graph
<1>2. id(seed) \in Nat
  BY ConstantsAssumption DEF TypeOK
<1>. HIDE DEF id
<1>3. graph(seed) \in Graphs
  <2>1. id(seed) % IdSpace \in 0 .. IdSpace - 1
    BY <1>2, ConstantsAssumption
  <2>. QED
    BY <2>1, ConstantsAssumption
<1>. HIDE DEF graph
<1>4. base_id' \in 0 .. LongSpace - 1
  BY <1>1, <1>2, ConstantsAssumption DEF NextBase
<1>5. UNCHANGED <<store, durable, request_count, running, before>> /\ MayLog
  BY DEF post_to_new_graph, disk
<1>6. TryAgain /\ NextAttempt => attempts' \in 0 .. MaxAttempts - 1
  BY ConstantsAssumption DEF TryAgain, NextAttempt, TypeOK
<1>7. parse_data_from_request_body(req.body)
        => Reply(400) \/ Reply(500) \/ Goto("body", <<>>, {})
  BY DEF parse_data_from_request_body
<1>8. Unused(graph(seed)) => Content(store, graph(seed)) = {}
  BY DEF Unused, contains_context
<1>. QED
  BY <1>1, <1>3, <1>4, <1>5, <1>6, <1>7, <1>8

\* The body is there, or not, or not understood.
LEMMA BodyRead ==
  ASSUME Typed, read_body
  PROVE  /\ pc = "body" /\ MayLog
         /\ UNCHANGED <<store, durable, request_count, base_id, running, req, before>>
         /\ req \in Requests /\ req.graph \in Contexts
         /\ req.op \in {"PUT", "POST", "POSTNEW"}
         /\ \/ Reply(500)
            \/ req.op = "PUT" /\ Goto("clear", req.body.doc, {})
            \/ req.op # "PUT" /\ Goto("load", req.body.doc, {})
<1>1. pc = "body" /\ pc \in Steps \ {"respond"}
  BY DEF read_body, Steps
<1>2. req \in Requests /\ req.graph \in Contexts
  BY <1>1 DEF Typed, TypeOK
<1>3. <<"body", req.op>> \in Stages
  BY <1>1 DEF Typed, StageOK
<1>4. req.op \in {"PUT", "POST", "POSTNEW"}
  BY <1>3 DEF Stages, Entries, Loaders
<1>. QED
  BY <1>1, <1>2, <1>4 DEF read_body, parse_data_from_buffer, disk, counters, session

\* Only the steps that know their graph write to it.
LEMMA StorageStepsTyped ==
  ASSUME Typed, StorageSteps
  PROVE  Typed'
<1>. USE DEF Typed, counters, session, disk, locals
<1>1. CASE post_to_new_graph
  <2>1. pc = "genid"
    BY <1>1 DEF post_to_new_graph
  <2>2. CASE Reply(500) /\ req' = req
    BY <1>1, <2>1, <2>2, SearchTurn, MayLogTyped, ReplyTyped DEF TypeOK, Codes, Steps
  <2>3. ASSUME NEW graph \in Graphs, req' = [req EXCEPT !.graph = graph],
               Reply(400) \/ Reply(500) \/ Goto("body", <<>>, {})
        PROVE  Typed'
    <3>1. req' \in Requests /\ req'.graph \in Contexts /\ req'.op = req.op /\ req.body \in Bodies
      BY <2>1, <2>3 DEF TypeOK, Steps, Requests, Contexts
    <3>2. CASE Reply(400) \/ Reply(500)
      BY <1>1, <2>1, <3>1, <3>2, SearchTurn, MayLogTyped, ReplyTyped DEF TypeOK, Codes, Steps
    <3>3. CASE Goto("body", <<>>, {})
      <4>1. req.op = "POSTNEW" /\ <<"body", "POSTNEW">> \in Stages
        BY <2>1 DEF StageOK, Steps, Stages, Entries, Loaders
      <4>2. 0 \in 0 .. MaxAttempts - 1 /\ <<>> \in Seq(Triples \cup Levels)
        BY <3>1, BodyType, ConstantsAssumption
      <4>3. /\ base_id' \in 0 .. LongSpace - 1
            /\ UNCHANGED <<store, durable, request_count, running, before>>
            /\ error_buffer' \in {NULL} \cup SUBSET Numbers
        BY <1>1, SearchTurn, MayLogTyped
      <4>4. /\ pc' = "body" /\ stream' = <<>> /\ todo' = {}
            /\ attempts' = 0 /\ err' = FALSE /\ response' = NULL
        BY <3>3 DEF Goto
      <4>. QED
        BY <3>1, <4>1, <4>2, <4>3, <4>4 DEF TypeOK, StageOK, Steps
    <3>. QED
      BY <2>3, <3>2, <3>3
  <2>4. CASE /\ attempts' \in 0 .. MaxAttempts - 1
             /\ UNCHANGED <<pc, req, stream, todo, err, response>>
    BY <1>1, <2>4, SearchTurn, MayLogTyped DEF TypeOK, StageOK
  <2>. QED
    BY <1>1, <2>2, <2>3, <2>4, SearchTurn
<1>2. CASE clear_graph
  <2>1. store' \in SUBSET Quads /\ durable' \in SUBSET Quads
    BY <1>2 DEF clear_graph, Write, Without, QuadsOf, TypeOK
  <2>2. error_buffer' \in {NULL} \cup SUBSET Numbers
    BY <1>2, FailsTyped DEF clear_graph, TypeOK
  <2>. QED
    BY <1>2, <2>1, <2>2 DEF clear_graph, TypeOK, StageOK, Steps, Stages, Entries, Loaders
<1>3. CASE add_statement
  <2>1. Target(Head(stream)) \in Quads
    BY <1>3 DEF add_statement, Target, TypeOK, Quads
  <2>2. store' \in SUBSET Quads /\ durable' \in SUBSET Quads
    BY <1>3, <2>1 DEF add_statement, Write, TypeOK
  <2>3. Tail(stream) \in Seq(Triples \cup Levels)
    BY <1>3 DEF add_statement, TypeOK
  <2>. QED
    BY <1>3, <2>2, <2>3 DEF add_statement, TypeOK, StageOK, Steps
<1>4. CASE add_statement_fails
  BY <1>4, FailsTyped, ReplyTyped DEF add_statement_fails, TypeOK, Codes, Steps
<1>5. CASE load_stream_ends
  <2>1. LoadCode \in Codes
    BY DEF LoadCode, Codes
  <2>. QED
    BY <1>5, <2>1, ReplyTyped DEF load_stream_ends, TypeOK, Steps
<1>6. CASE remove_statement
  <2>1. store' \in SUBSET Quads /\ durable' \in SUBSET Quads
    BY <1>6 DEF remove_statement, Write, TypeOK
  <2>2. error_buffer' \in {NULL} \cup SUBSET Numbers
    BY <1>6, FailsTyped DEF remove_statement, TypeOK
  <2>3. Tail(stream) \in Seq(Triples \cup Levels)
    BY <1>6 DEF remove_statement, TypeOK
  <2>. QED
    BY <1>6, <2>1, <2>2, <2>3 DEF remove_statement, TypeOK, StageOK, Steps
<1>7. CASE delete_stream_ends
  <2>1. UnloadCode \in Codes
    BY DEF UnloadCode, Codes
  <2>. QED
    BY <1>7, <2>1, ReplyTyped DEF delete_stream_ends, TypeOK, Steps
<1>8. CASE remove_graph
  <2>1. store' \in SUBSET Quads /\ durable' \in SUBSET Quads
    BY <1>8 DEF remove_graph, Write, Without, QuadsOf, TypeOK
  <2>2. error_buffer' \in {NULL} \cup SUBSET Numbers
    BY <1>8, FailsTyped DEF remove_graph, TypeOK
  <2>3. Reply(200) \/ Reply(500)
    BY <1>8 DEF remove_graph
  <2>. QED
    BY <1>8, <2>1, <2>2, <2>3, ReplyTyped DEF remove_graph, TypeOK, Codes, Steps
<1>9. CASE remove_next_graph
  <2>1. store' \in SUBSET Quads /\ durable' \in SUBSET Quads
    BY <1>9 DEF remove_next_graph, Write, Without, QuadsOf, TypeOK
  <2>2. error_buffer' \in {NULL} \cup SUBSET Numbers
    BY <1>9, FailsTyped DEF remove_next_graph, TypeOK
  <2>3. todo' \in SUBSET (Contexts \cup Quads) /\ err' \in BOOLEAN
    BY <1>9 DEF remove_next_graph, TypeOK
  <2>. QED
    BY <1>9, <2>1, <2>2, <2>3 DEF remove_next_graph, TypeOK, StageOK, Steps
<1>10. CASE stream_model
  <2>1. CASE Reply(500)
    BY <1>10, <2>1, MayLogTyped, ReplyTyped DEF stream_model, TypeOK, Codes, Steps
  <2>2. CASE pc' = "triples" /\ todo' = store /\ UNCHANGED <<stream, attempts, err, response>>
    <3>1. req.op = "DELETEALL" /\ <<"triples", "DELETEALL">> \in Stages
      BY <1>10 DEF stream_model, StageOK, Steps, Stages, Entries, Loaders
    <3>2. error_buffer' \in {NULL} \cup SUBSET Numbers
      BY <1>10, MayLogTyped DEF stream_model, TypeOK
    <3>. QED
      BY <1>10, <2>2, <3>1, <3>2 DEF stream_model, TypeOK, StageOK, Steps
  <2>. QED
    BY <1>10, <2>1, <2>2 DEF stream_model
<1>11. CASE remove_next_statement
  <2>1. store' \in SUBSET Quads /\ durable' \in SUBSET Quads
    BY <1>11 DEF remove_next_statement, Write, TypeOK
  <2>2. error_buffer' \in {NULL} \cup SUBSET Numbers
    BY <1>11, FailsTyped DEF remove_next_statement, TypeOK
  <2>3. todo' \in SUBSET (Contexts \cup Quads) /\ err' \in BOOLEAN
    BY <1>11 DEF remove_next_statement, TypeOK
  <2>. QED
    BY <1>11, <2>1, <2>2, <2>3 DEF remove_next_statement, TypeOK, StageOK, Steps
<1>12. CASE remove_all_ends
  <2>1. RemoveAllCode \in Codes
    BY DEF RemoveAllCode, Codes
  <2>. QED
    BY <1>12, <2>1, ReplyTyped DEF remove_all_ends, TypeOK, Steps
<1>13. CASE redland_log_handler
  <2>1. CASE Gone(durable)
    BY <2>1, GoneTyped DEF TypeOK
  <2>2. CASE ~ Gone(durable)
    <3>1. Logged(Head(stream)) \in SUBSET Numbers
      BY DEF Logged, Messages, TypeOK
    <3>2. Tail(stream) \in Seq(Triples \cup Levels)
      BY <1>13 DEF redland_log_handler, TypeOK
    <3>. QED
      BY <1>13, <2>2, <3>1, <3>2 DEF redland_log_handler, TypeOK, StageOK, Steps
  <2>. QED
    BY <2>1, <2>2
<1>14. CASE read_body
  <2>. /\ UNCHANGED <<store, durable, request_count, base_id, running, req, before>>
       /\ error_buffer' \in {NULL} \cup SUBSET Numbers
       /\ req \in Requests /\ req.graph \in Contexts
       /\ req.op \in {"PUT", "POST", "POSTNEW"}
    BY <1>14, BodyRead, MayLogTyped
  <2>1. CASE Reply(500)
    BY <2>1, ReplyTyped DEF TypeOK, Codes
  <2>2. ASSUME NEW step \in {"clear", "load"}, <<step, req.op>> \in Stages,
               Goto(step, req.body.doc, {})
        PROVE  Typed'
    <3>1. 0 \in 0 .. MaxAttempts - 1 /\ req.body.doc \in Seq(Triples \cup Levels)
      BY BodyType, ConstantsAssumption DEF Requests
    <3>. QED
      BY <2>2, <3>1 DEF Goto, TypeOK, StageOK, Steps
  <2>3. <<"clear", "PUT">> \in Stages /\ <<"load", "POST">> \in Stages /\ <<"load", "POSTNEW">> \in Stages
    BY DEF Stages
  <2>. QED
    BY <1>14, <2>1, <2>2, <2>3, BodyRead
<1>. QED
  BY <1>1, <1>2, <1>3, <1>4, <1>5, <1>6, <1>7, <1>8, <1>9, <1>10, <1>11, <1>12, <1>13, <1>14
     DEF StorageSteps

\* Starting up yields a server at its loop on the old quads and the file's, or
\* nothing.
LEMMA StartUp ==
  ASSUME TypeOK, NEW new \in BOOLEAN, NEW file \in Docs, main(new, file)
  PROVE  \E s \in SUBSET Quads :
           \/ Gone(s)
           \/ /\ pc' = "while" /\ running' \in BOOLEAN
              /\ store' = s /\ before' = s /\ durable' \in SUBSET Quads
              /\ WriteThrough => durable' = s
              /\ error_buffer' \in {NULL, {}, {0}}
              /\ UNCHANGED <<request_count, base_id, req, locals, response>>
<1>. DEFINE old == IF new THEN {} ELSE durable
            s(read) == old \cup ({DefaultGraph} \X Statements(SubSeq(file, 1, read)))
<1>1. old \in SUBSET Quads
  BY DEF TypeOK
<1>. HIDE DEF old
<1>2. \A read \in 0 .. Len(file) : s(read) \in SUBSET Quads
  BY <1>1 DEF Statements, Quads, Contexts
<1>. HIDE DEF s
<1>3. PICK read \in 0 .. Len(file) :
        \/ /\ pc' = "while" /\ store' = s(read) /\ before' = s(read)
           /\ durable' = IF WriteThrough THEN s(read) ELSE old
           /\ error_buffer' \in {NULL, {}, {0}} /\ running' \in BOOLEAN
           /\ UNCHANGED <<request_count, base_id, req, locals, response>>
        \/ Gone(s(read))
  <2>1. PICK read \in 0 .. Len(file) :
          LET seen == SubSeq(file, 1, read)
              logs == Range(seen) \cap Levels
          IN \/ /\ pc' = "while" /\ store' = s(read) /\ before' = s(read)
                /\ durable' = IF WriteThrough THEN s(read) ELSE old
                /\ error_buffer' = IF logs = {} THEN NULL
                                   ELSE IF "error" \in logs THEN {0} ELSE {}
                /\ running' = ("fatal" \notin logs)
                /\ UNCHANGED <<request_count, base_id, req, locals, response>>
             \/ Gone(s(read))
    BY DEF main, old, s
  <2>. QED
    BY <2>1
<1>. QED
  BY <1>1, <1>2, <1>3

LEMMA ProcessTyped ==
  ASSUME Typed, Process
  PROVE  Typed'
<1>. USE DEF Typed, counters, session, disk, locals
<1>1. CASE redhttp_response_send
  BY <1>1 DEF redhttp_response_send, TypeOK, StageOK, Steps
<1>2. CASE termination_handler
  BY <1>2 DEF termination_handler, TypeOK, StageOK
<1>3. CASE cleanup
  BY <1>3, GoneTyped DEF cleanup, TypeOK
<1>4. CASE \E new \in BOOLEAN, file \in Docs : main(new, file)
  <2>1. PICK s \in SUBSET Quads :
           \/ Gone(s)
           \/ /\ pc' = "while" /\ running' \in BOOLEAN
              /\ store' = s /\ before' = s /\ durable' \in SUBSET Quads
              /\ WriteThrough => durable' = s
              /\ error_buffer' \in {NULL, {}, {0}}
              /\ UNCHANGED <<request_count, base_id, req, locals, response>>
    BY <1>4, StartUp
  <2>2. {0} \in SUBSET Numbers /\ pc = "down"
    BY <1>4, ConstantsAssumption DEF Numbers, main
  <2>3. CASE Gone(s)
    BY <2>3, GoneTyped
  <2>. QED
    BY <2>1, <2>2, <2>3 DEF TypeOK, StageOK, Steps
<1>5. CASE flush
  BY <1>5 DEF flush, TypeOK, StageOK
<1>7. CASE redhttp_server_run \/ redhttp_server_run_returns
  BY <1>7 DEF redhttp_server_run, redhttp_server_run_returns, TypeOK, StageOK, Steps
<1>6. CASE crash
  BY <1>6, GoneTyped DEF crash, TypeOK
<1>. QED
  BY <1>1, <1>2, <1>3, <1>4, <1>5, <1>6, <1>7 DEF Process

LEMMA NextTyped ==
  ASSUME Typed, [Next]_vars
  PROVE  Typed'
<1>1. CASE Handlers
  BY <1>1, HandlersAccept, AcceptTyped DEF Typed
<1>2. CASE UNCHANGED vars
  BY <1>2 DEF vars, Typed, TypeOK, StageOK
<1>. QED
  BY <1>1, <1>2, StorageStepsTyped, ProcessTyped DEF Next

\* Every variable keeps its type and an operation is only ever in one of its
\* own steps (the handlers of data.c and update.c).
THEOREM TypeCorrect == Spec => []TypeOK
<1>1. Typed => TypeOK
  BY DEF Typed
<1>. QED
  BY <1>1, InitTyped, NextTyped, PTL DEF Spec

-----------------------------------------------------------------------------
(* What a request can touch                                                *)

\* Before its first write a request sees the store as it was at dispatch; a
\* new graph is still unknown to the quads of that moment.
Untouched ==
  /\ pc \in {"down", "while", "idle", "genid", "body", "clear", "remove"} => store = before
  /\ pc \in {"body", "load"} /\ req.op = "POSTNEW" => Content(before, req.graph) = {}

Confined == Untouched /\ OnlyTargetTouched /\ RejectionChangesNothing /\ CreatedGraphIsNew

\* A step that writes to the graph of the request keeps the others.
LEMMA OnlyTargetKept ==
  ASSUME Typed, OnlyTargetTouched, pc \in Steps, pc' \in Steps, UNCHANGED session,
         \/ store' = store
         \/ req.op = "DELETEALL" /\ store' \subseteq store
         \/ /\ req.op # "DELETEALL" /\ req.graph \in Contexts
            /\ \/ \E t : store' = store \cup {<<req.graph, t>>} \/ store' = store \ {<<req.graph, t>>}
               \/ store \ QuadsOf(store, req.graph) \subseteq store' /\ store' \subseteq store
  PROVE  OnlyTargetTouched'
<1>1. store \in SUBSET Quads /\ req' = req /\ before' = before
  BY DEF Typed, TypeOK, session
<1>2. CASE store' = store
  BY <1>1, <1>2 DEF OnlyTargetTouched, Content
<1>3. CASE req.op = "DELETEALL" /\ store' \subseteq store
  BY <1>1, <1>3 DEF OnlyTargetTouched
<1>4. CASE /\ req.op # "DELETEALL" /\ req.graph \in Contexts
           /\ \/ \E t : store' = store \cup {<<req.graph, t>>} \/ store' = store \ {<<req.graph, t>>}
              \/ store \ QuadsOf(store, req.graph) \subseteq store' /\ store' \subseteq store
  <2>1. ASSUME NEW c \in Contexts \ {req.graph}
        PROVE  Content(store', c) = Content(store, c)
    BY <1>1, <1>4, <2>1 DEF Content, QuadsOf
  <2>2. \A c \in Contexts \ {req.graph} : Content(store, c) = Content(before, c)
    BY <1>4 DEF OnlyTargetTouched
  <2>3. \A c \in Contexts \ {req.graph} : Content(store', c) = Content(before, c)
    BY <2>1, <2>2
  <2>. QED
    BY <1>1, <1>4, <2>3 DEF OnlyTargetTouched, Content
<1>. QED
  BY <1>2, <1>3, <1>4

LEMMA AcceptConfined ==
  ASSUME Confined, NEW r \in Requests, Accept(r)
  PROVE  Confined'
<1>1. store' = store /\ before' = store /\ req' = r /\ pc' \in Steps
  BY DEF Confined, Untouched, Accept, Handled, Refused, Started, Entries, Steps
<1>2. pc' = "respond" => response'.code # 201
  BY DEF Accept, Handled, Refused, Started, Entries
<1>3. ~ (pc' \in {"body", "load"} /\ r.op = "POSTNEW")
  BY DEF Accept, Handled, Refused, Started, Entries, Loaders
<1>. QED
  BY <1>1, <1>2, <1>3 DEF Confined, Untouched, OnlyTargetTouched, RejectionChangesNothing,
                          CreatedGraphIsNew, Responding, Content

LEMMA GoneConfined ==
  ASSUME NEW s, Gone(s)
  PROVE  Confined'
  BY DEF Gone, Confined, Untouched, OnlyTargetTouched, RejectionChangesNothing,
         CreatedGraphIsNew, Responding, Steps, Content

\* A reply after the storage was written is a success or a server error.
LEMMA ReplyConfined ==
  ASSUME NEW code \in {200, 201, 500}, Confined, Reply(code), UNCHANGED session,
         OnlyTargetTouched',
         code = 201 => pc = "load" /\ req.op = "POSTNEW"
  PROVE  Confined'
<1>1. pc' = "respond" /\ response'.code = code /\ req' = req /\ before' = before
  BY DEF Reply, session
<1>2. RejectionChangesNothing' /\ Untouched'
  BY <1>1 DEF RejectionChangesNothing, Responding, Untouched
<1>3. CreatedGraphIsNew'
  BY <1>1 DEF Confined, Untouched, CreatedGraphIsNew, Responding, Content
<1>. QED
  BY <1>2, <1>3 DEF Confined

LEMMA StorageStepsConfined ==
  ASSUME Typed, Confined, StorageSteps
  PROVE  Confined'
<1>. USE DEF counters, disk, locals
<1>1. CASE post_to_new_graph
  <2>1. pc = "genid" /\ store = before /\ store' = store /\ before' = before
    BY <1>1, SearchTurn DEF post_to_new_graph, Confined, Untouched, Typed
  <2>2. OnlyTargetTouched' /\ RejectionChangesNothing'
    BY <2>1 DEF OnlyTargetTouched, RejectionChangesNothing, Content
  <2>3. CASE (Reply(400) \/ Reply(500)) /\ store' = before'
    BY <2>2, <2>3 DEF Reply, Confined, Untouched, CreatedGraphIsNew, Responding
  <2>4. ASSUME NEW graph \in Graphs, Content(store, graph) = {},
               req' = [req EXCEPT !.graph = graph],
               Goto("body", <<>>, {})
        PROVE  Confined'
    <3>1. req'.graph = graph
      BY <2>1, <2>4 DEF Typed, TypeOK, Steps, Requests
    <3>. QED
      BY <2>1, <2>2, <2>4, <3>1 DEF Goto, Confined, Untouched, CreatedGraphIsNew, Responding
  <2>5. CASE UNCHANGED <<pc, req, stream, todo, err, response>>
    BY <2>1, <2>2, <2>5 DEF Confined, Untouched, CreatedGraphIsNew, Responding
  <2>. QED
    BY <1>1, <2>1, <2>3, <2>4, <2>5, SearchTurn DEF Typed
<1>2. CASE clear_graph
  <2>1. pc = "clear" /\ req.op = "PUT" /\ req.graph \in Contexts
    BY <1>2 DEF clear_graph, Typed, TypeOK, StageOK, Steps, Stages, Entries, Loaders
  <2>2. store \ QuadsOf(store, req.graph) \subseteq store' /\ store' \subseteq store
    BY <1>2 DEF clear_graph, Write, Without, QuadsOf
  <2>3. OnlyTargetTouched'
    BY <1>2, <2>1, <2>2, OnlyTargetKept DEF clear_graph, Confined, Steps
  <2>. QED
    BY <1>2, <2>1, <2>3 DEF clear_graph, session, Confined, Untouched,
         RejectionChangesNothing, CreatedGraphIsNew, Responding
<1>3. CASE add_statement
  <2>1. pc = "load" /\ req.op # "DELETEALL" /\ req.graph \in Contexts
    BY <1>3 DEF add_statement, Typed, TypeOK, StageOK, Steps, Stages, Entries, Loaders
  <2>2. \E t : store' = store \cup {<<req.graph, t>>}
    BY <1>3 DEF add_statement, Write, Target
  <2>3. OnlyTargetTouched'
    BY <1>3, <2>1, <2>2, OnlyTargetKept DEF add_statement, Confined, Steps
  <2>. QED
    BY <1>3, <2>1, <2>3 DEF add_statement, session, Confined, Untouched,
         RejectionChangesNothing, CreatedGraphIsNew, Responding, Content
<1>4. CASE add_statement_fails
  <2>1. OnlyTargetTouched'
    BY <1>4, OnlyTargetKept DEF add_statement_fails, Confined, Steps, Reply
  <2>. QED
    BY <1>4, <2>1, ReplyConfined DEF add_statement_fails
<1>5. CASE load_stream_ends
  <2>1. OnlyTargetTouched'
    BY <1>5, OnlyTargetKept DEF load_stream_ends, Confined, Steps, Reply
  <2>2. LoadCode \in {200, 201, 500} /\ (LoadCode = 201 => req.op = "POSTNEW")
    BY DEF LoadCode
  <2>. QED
    BY <1>5, <2>1, <2>2, ReplyConfined DEF load_stream_ends
<1>6. CASE remove_statement
  <2>1. pc = "unload" /\ req.op # "DELETEALL" /\ req.graph \in Contexts
    BY <1>6 DEF remove_statement, Typed, TypeOK, StageOK, Steps, Stages, Entries, Loaders
  <2>2. store' = store \/ \E t : store' = store \ {<<req.graph, t>>}
    BY <1>6 DEF remove_statement, Write, Target
  <2>3. OnlyTargetTouched'
    BY <1>6, <2>1, <2>2, OnlyTargetKept DEF remove_statement, Confined, Steps
  <2>. QED
    BY <1>6, <2>1, <2>3 DEF remove_statement, session, Confined, Untouched,
         RejectionChangesNothing, CreatedGraphIsNew, Responding
<1>7. CASE delete_stream_ends
  <2>1. OnlyTargetTouched'
    BY <1>7, OnlyTargetKept DEF delete_stream_ends, Confined, Steps, Reply
  <2>2. UnloadCode \in {200, 500}
    BY DEF UnloadCode
  <2>. QED
    BY <1>7, <2>1, <2>2, ReplyConfined DEF delete_stream_ends
<1>8. CASE remove_graph
  <2>1. pc = "remove" /\ req.op # "DELETEALL" /\ req.graph \in Contexts
    BY <1>8 DEF remove_graph, Typed, TypeOK, StageOK, Steps, Stages, Entries, Loaders
  <2>2. store \ QuadsOf(store, req.graph) \subseteq store' /\ store' \subseteq store
    BY <1>8 DEF remove_graph, Write, Without, QuadsOf
  <2>3. Reply(200) \/ Reply(500)
    BY <1>8 DEF remove_graph
  <2>4. OnlyTargetTouched'
    BY <1>8, <2>1, <2>2, <2>3, OnlyTargetKept DEF remove_graph, Confined, Steps, Reply
  <2>. QED
    BY <1>8, <2>3, <2>4, ReplyConfined DEF remove_graph
<1>9. CASE remove_next_graph
  <2>1. pc = "graphs" /\ req.op = "DELETEALL"
    BY <1>9 DEF remove_next_graph, Typed, StageOK, Steps, Stages, Entries, Loaders
  <2>2. store' \subseteq store
    BY <1>9 DEF remove_next_graph, Write, Without, QuadsOf
  <2>3. OnlyTargetTouched'
    BY <1>9, <2>1, <2>2, OnlyTargetKept DEF remove_next_graph, Confined, Steps
  <2>. QED
    BY <1>9, <2>1, <2>3 DEF remove_next_graph, session, Confined, Untouched,
         RejectionChangesNothing, CreatedGraphIsNew, Responding
<1>10. CASE stream_model
  <2>1. OnlyTargetTouched'
    BY <1>10, OnlyTargetKept DEF stream_model, Confined, Steps, Reply
  <2>2. CASE Reply(500)
    BY <1>10, <2>1, <2>2, ReplyConfined DEF stream_model
  <2>3. CASE pc' = "triples"
    BY <1>10, <2>1, <2>3 DEF stream_model, session, Confined, Untouched,
         RejectionChangesNothing, CreatedGraphIsNew, Responding
  <2>. QED
    BY <1>10, <2>2, <2>3 DEF stream_model
<1>11. CASE remove_next_statement
  <2>1. pc = "triples" /\ req.op = "DELETEALL"
    BY <1>11 DEF remove_next_statement, Typed, StageOK, Steps, Stages, Entries, Loaders
  <2>2. store' \subseteq store
    BY <1>11 DEF remove_next_statement, Write
  <2>3. OnlyTargetTouched'
    BY <1>11, <2>1, <2>2, OnlyTargetKept DEF remove_next_statement, Confined, Steps
  <2>. QED
    BY <1>11, <2>1, <2>3 DEF remove_next_statement, session, Confined, Untouched,
         RejectionChangesNothing, CreatedGraphIsNew, Responding
<1>12. CASE remove_all_ends
  <2>1. OnlyTargetTouched'
    BY <1>12, OnlyTargetKept DEF remove_all_ends, Confined, Steps, Reply
  <2>2. RemoveAllCode \in {200, 500}
    BY DEF RemoveAllCode
  <2>. QED
    BY <1>12, <2>1, <2>2, ReplyConfined DEF remove_all_ends
<1>13. CASE redland_log_handler
  <2>1. CASE Gone(durable)
    BY <2>1, GoneConfined
  <2>2. CASE ~ Gone(durable)
    <3>1. UNCHANGED <<store, before, pc, req, response>> /\ pc \in {"load", "unload"}
      BY <1>13, <2>2 DEF redland_log_handler, session
    <3>2. OnlyTargetTouched'
      BY <3>1 DEF Confined, OnlyTargetTouched, Content
    <3>. QED
      BY <3>1, <3>2 DEF Confined, Untouched, RejectionChangesNothing, CreatedGraphIsNew,
                       Responding, Content
  <2>. QED
    BY <2>1, <2>2
<1>14. CASE read_body
  <2>1. /\ pc = "body" /\ store = before
        /\ UNCHANGED <<store, req, before>>
    BY <1>14, BodyRead DEF Confined, Untouched
  <2>2. OnlyTargetTouched' /\ RejectionChangesNothing'
    BY <2>1 DEF OnlyTargetTouched, RejectionChangesNothing, Content
  <2>3. CASE Reply(500)
    BY <2>1, <2>2, <2>3 DEF Reply, Confined, Untouched, CreatedGraphIsNew, Responding
  <2>4. ASSUME NEW step \in {"clear", "load"}, Goto(step, req.body.doc, {})
        PROVE  Confined'
    BY <2>1, <2>2, <2>4 DEF Goto, Confined, Untouched, CreatedGraphIsNew, Responding, Content
  <2>. QED
    BY <1>14, <2>3, <2>4, BodyRead
<1>. QED
  BY <1>1, <1>2, <1>3, <1>4, <1>5, <1>6, <1>7, <1>8, <1>9, <1>10, <1>11, <1>12, <1>13, <1>14
     DEF StorageSteps

LEMMA ProcessConfined ==
  ASSUME Typed, Confined, Process
  PROVE  Confined'
<1>. USE DEF counters, disk, locals, session
<1>1. CASE redhttp_response_send
  BY <1>1 DEF redhttp_response_send, Confined, Untouched, OnlyTargetTouched,
       RejectionChangesNothing, CreatedGraphIsNew, Responding, Steps
<1>2. CASE termination_handler
  BY <1>2 DEF termination_handler, Confined, Untouched, OnlyTargetTouched,
       RejectionChangesNothing, CreatedGraphIsNew, Responding, Content
<1>3. CASE cleanup
  BY <1>3, GoneConfined DEF cleanup
<1>4. CASE \E new \in BOOLEAN, file \in Docs : main(new, file)
  BY <1>4, StartUp, GoneConfined DEF Typed, Confined, Untouched, OnlyTargetTouched,
       RejectionChangesNothing, CreatedGraphIsNew, Responding, Steps
<1>7. CASE redhttp_server_run \/ redhttp_server_run_returns
  BY <1>7 DEF redhttp_server_run, redhttp_server_run_returns, Confined, Untouched,
       OnlyTargetTouched, RejectionChangesNothing, CreatedGraphIsNew, Responding, Steps
<1>5. CASE flush
  BY <1>5 DEF flush, Confined, Untouched, OnlyTargetTouched,
       RejectionChangesNothing, CreatedGraphIsNew, Responding, Content
<1>6. CASE crash
  BY <1>6, GoneConfined DEF crash
<1>. QED
  BY <1>1, <1>2, <1>3, <1>4, <1>5, <1>6, <1>7 DEF Process

LEMMA NextConfined ==
  ASSUME Typed, Confined, [Next]_vars
  PROVE  Confined'
<1>1. CASE Handlers
  BY <1>1, HandlersAccept, AcceptConfined DEF Typed
<1>2. CASE UNCHANGED vars
  BY <1>2 DEF vars, Confined, Untouched, OnlyTargetTouched, RejectionChangesNothing,
              CreatedGraphIsNew, Responding, Content
<1>. QED
  BY <1>1, <1>2, StorageStepsConfined, ProcessConfined DEF Next

\* A request, finished or not, only ever changes the graph it names; a refused
\* one changes nothing; 201 names a graph that did not exist before.
THEOREM RequestsAreConfined ==
  Spec => [](OnlyTargetTouched /\ RejectionChangesNothing /\ CreatedGraphIsNew)
<1>1. Init => Confined
  BY DEF Init, Confined, Untouched, OnlyTargetTouched, RejectionChangesNothing,
         CreatedGraphIsNew, Responding, Steps
<1>2. Typed /\ Confined /\ [Next]_vars => (Typed /\ Confined)'
  BY NextTyped, NextConfined
<1>3. Confined => OnlyTargetTouched /\ RejectionChangesNothing /\ CreatedGraphIsNew
  BY DEF Confined
<1>. QED
  BY InitTyped, <1>1, <1>2, <1>3, PTL DEF Spec

\* A request that is refused with a 4xx code or 501 leaves the store as it
\* found it: every check comes before the first change (data.c, update.c).
THEOREM RejectionsAreClean == Spec => []RejectionChangesNothing
  BY RequestsAreConfined, PTL

\* 201 names a graph that had no triples when the request came, wherever the
\* counter of identifiers is (data.c:197, genid.c:38).
THEOREM NewGraphsAreNew == Spec => []CreatedGraphIsNew
  BY RequestsAreConfined, PTL

-----------------------------------------------------------------------------
(* What is on disk                                                         *)

Synced == WriteThrough => durable = store

LEMMA NextSynced ==
  ASSUME Typed, Synced, [Next]_vars
  PROVE  Synced'
<1>. USE DEF counters, disk, locals, session
<1>1. ASSUME NEW s, Gone(s) PROVE Synced'
  BY <1>1 DEF Gone, Synced
<1>2. ASSUME NEW s, Write(s) PROVE Synced'
  BY <1>2 DEF Write, Synced
<1>3. CASE store' = store /\ durable' = durable
  BY <1>3 DEF Synced
<1>4. CASE Handlers
  BY <1>3, <1>4, HandlersAccept DEF Accept, Typed
<1>5. CASE StorageSteps
  <2>1. CASE post_to_new_graph
    BY <1>3, <2>1, SearchTurn DEF Typed
  <2>10. CASE read_body
    BY <1>3, <2>10, BodyRead
  <2>2. CASE clear_graph
    BY <1>2, <2>2 DEF clear_graph
  <2>3. CASE add_statement
    BY <1>2, <2>3 DEF add_statement
  <2>4. CASE add_statement_fails \/ load_stream_ends \/ delete_stream_ends \/ stream_model \/ remove_all_ends
    BY <1>3, <2>4 DEF add_statement_fails, load_stream_ends, delete_stream_ends, stream_model, remove_all_ends
  <2>5. CASE remove_statement
    BY <1>2, <1>3, <2>5 DEF remove_statement
  <2>6. CASE remove_graph
    BY <1>2, <2>6 DEF remove_graph
  <2>7. CASE remove_next_graph
    BY <1>2, <1>3, <2>7 DEF remove_next_graph
  <2>8. CASE remove_next_statement
    BY <1>2, <1>3, <2>8 DEF remove_next_statement
  <2>9. CASE redland_log_handler
    BY <1>1, <1>3, <2>9 DEF redland_log_handler
  <2>. QED
    BY <1>5, <2>1, <2>2, <2>3, <2>4, <2>5, <2>6, <2>7, <2>8, <2>9, <2>10 DEF StorageSteps
<1>6. CASE Process
  <2>1. CASE \E new \in BOOLEAN, file \in Docs : main(new, file)
    BY <1>1, <2>1, StartUp DEF Typed, Synced
  <2>2. CASE \/ redhttp_response_send \/ termination_handler
             \/ redhttp_server_run \/ redhttp_server_run_returns
    BY <1>3, <2>2 DEF redhttp_response_send, termination_handler, redhttp_server_run,
       redhttp_server_run_returns
  <2>3. CASE cleanup \/ crash
    BY <1>1, <2>3 DEF cleanup, crash
  <2>4. CASE flush
    BY <2>4 DEF flush, Synced
  <2>. QED
    BY <1>6, <2>1, <2>2, <2>3, <2>4 DEF Process
<1>7. CASE UNCHANGED vars
  BY <1>3, <1>7 DEF vars
<1>. QED
  BY <1>4, <1>5, <1>6, <1>7 DEF Next

\* Only a crash, or a fatal message while stopping, ends the process in the
\* middle of a request; neither writes.
LEMMA DeathWritesNothing ==
  ASSUME Typed, Next, pc \in Steps, pc' = "down"
  PROVE  durable' = durable
<1>1. ASSUME Gone(durable) PROVE durable' = durable
  BY <1>1 DEF Gone
<1>2. CASE Handlers
  BY <1>2, HandlersAccept DEF Accept, Typed
<1>3. CASE StorageSteps
  <2>1. CASE post_to_new_graph
    BY <2>1, SearchTurn DEF Typed, Reply, Goto, Steps
  <2>5. CASE read_body
    BY <2>5, BodyRead
  <2>2. CASE redland_log_handler
    BY <1>1, <2>2 DEF redland_log_handler, Steps
  <2>3. CASE \/ clear_graph \/ add_statement \/ add_statement_fails \/ load_stream_ends
             \/ remove_statement \/ delete_stream_ends
    BY <2>3 DEF clear_graph, add_statement, add_statement_fails, load_stream_ends,
                remove_statement, delete_stream_ends, Reply, Steps
  <2>4. CASE \/ remove_graph \/ remove_next_graph \/ stream_model
             \/ remove_next_statement \/ remove_all_ends
    BY <2>4 DEF remove_graph, remove_next_graph, stream_model, remove_next_statement,
                remove_all_ends, Reply, Steps
  <2>. QED
    BY <1>3, <2>1, <2>2, <2>3, <2>4, <2>5 DEF StorageSteps
<1>4. CASE Process
  BY <1>1, <1>4 DEF Process, redhttp_server_run, redhttp_server_run_returns,
                    redhttp_response_send, termination_handler, cleanup, main,
                    flush, crash, Steps
<1>. QED
  BY <1>2, <1>3, <1>4 DEF Next

\* With a write-through storage, a process that dies during a request tears no
\* graph but the one being written.
THEOREM CrashIsConfined ==
  ASSUME WriteThrough
  PROVE  Spec => CrashTearsOnlyTarget
<1>. DEFINE Inv == Typed /\ Confined /\ Synced
<1>1. Init => Inv
  BY InitTyped DEF Init, Synced, Confined, Untouched, OnlyTargetTouched,
     RejectionChangesNothing, CreatedGraphIsNew, Responding, Steps
<1>2. Inv /\ [Next]_vars => Inv'
  BY NextTyped, NextConfined, NextSynced
<1>3. Inv /\ [Next]_vars =>
        [(pc \in Steps /\ pc' = "down") =>
           IF req.op = "DELETEALL" THEN durable' \subseteq before
           ELSE \A c \in Contexts \ {req.graph} : Content(durable', c) = Content(before, c)]_vars
  <2>1. SUFFICES ASSUME Inv, Next, pc \in Steps, pc' = "down"
                 PROVE  IF req.op = "DELETEALL" THEN durable' \subseteq before
                        ELSE \A c \in Contexts \ {req.graph} : Content(durable', c) = Content(before, c)
    OBVIOUS
  <2>2. durable' = store
    BY <2>1, DeathWritesNothing DEF Synced
  <2>. QED
    BY <2>1, <2>2 DEF Confined, OnlyTargetTouched
<1>. QED
  BY <1>1, <1>2, <1>3, PTL DEF Spec, CrashTearsOnlyTarget

-----------------------------------------------------------------------------
(* What a response says                                                    *)

\* While a request is handled, the buffer holds no message but its own.
Own == {NULL} \cup SUBSET {request_count}
Reported ==
  /\ pc \in Steps \ {"respond"} => error_buffer \in Own
  /\ ErrorsAreOwn

LEMMA LogsAreOwn ==
  ASSUME error_buffer \in Own
  PROVE  /\ \A level : Logged(level) \in SUBSET {request_count}
         /\ \A fault : Fails(fault) => error_buffer' \in Own
         /\ MayLog => error_buffer' \in Own
  BY DEF Logged, MayLog, Fails, Messages, Own

\* A storage step keeps the buffer its own, and ends in a reply or not at all.
LEMMA StorageStepReports ==
  ASSUME Typed, StorageSteps, error_buffer \in Own
  PROVE  \/ Gone(durable)
         \/ /\ error_buffer' \in Own /\ request_count' = request_count
            /\ pc' # "respond" \/ \E code : Reply(code)
<1>. USE DEF counters, disk, locals
<1>1. CASE post_to_new_graph
  BY <1>1, SearchTurn, LogsAreOwn DEF Typed, Goto, post_to_new_graph
<1>12. CASE read_body
  BY <1>12, BodyRead, LogsAreOwn DEF Goto
<1>2. CASE clear_graph
  BY <1>2, LogsAreOwn DEF clear_graph
<1>3. CASE add_statement
  BY <1>3 DEF add_statement
<1>4. CASE add_statement_fails
  BY <1>4, LogsAreOwn DEF add_statement_fails
<1>5. CASE load_stream_ends \/ delete_stream_ends \/ remove_all_ends
  BY <1>5 DEF load_stream_ends, delete_stream_ends, remove_all_ends
<1>6. CASE remove_statement
  BY <1>6, LogsAreOwn DEF remove_statement
<1>7. CASE remove_graph
  BY <1>7, LogsAreOwn DEF remove_graph
<1>8. CASE remove_next_graph
  BY <1>8, LogsAreOwn DEF remove_next_graph
<1>9. CASE stream_model
  BY <1>9, LogsAreOwn DEF stream_model
<1>10. CASE remove_next_statement
  BY <1>10, LogsAreOwn DEF remove_next_statement
<1>11. CASE redland_log_handler
  BY <1>11, LogsAreOwn DEF redland_log_handler, Own
<1>. QED
  BY <1>1, <1>2, <1>3, <1>4, <1>5, <1>6, <1>7, <1>8, <1>9, <1>10, <1>11, <1>12 DEF StorageSteps

LEMMA NextReported ==
  ASSUME Typed, Reported, [Next]_vars
  PROVE  Reported'
<1>. USE DEF counters, disk, locals
<1>1. ASSUME NEW s, Gone(s) PROVE Reported'
  BY <1>1 DEF Gone, Reported, ErrorsAreOwn, Steps
<1>2. CASE Handlers
  BY <1>2, HandlersAccept DEF Typed, Accept, Handled, Refused, Started, Entries,
     Fresh, Steps, Reported, Own, ErrorsAreOwn
<1>3. CASE StorageSteps
  <2>1. error_buffer \in Own
    BY <1>3 DEF Reported, StorageSteps, Steps, post_to_new_graph, read_body, clear_graph, add_statement,
       add_statement_fails, load_stream_ends, remove_statement, delete_stream_ends, remove_graph,
       remove_next_graph, stream_model, remove_next_statement, remove_all_ends, redland_log_handler
  <2>2. CASE error_buffer' \in Own /\ request_count' = request_count /\ pc' # "respond"
    BY <2>2 DEF Reported, ErrorsAreOwn, Own
  <2>3. ASSUME NEW code, error_buffer' \in Own, request_count' = request_count, Reply(code)
        PROVE  Reported'
    BY <2>3 DEF Reported, ErrorsAreOwn, Own, Messages, Reply
  <2>. QED
    BY <1>1, <1>3, <2>1, <2>2, <2>3, StorageStepReports
<1>4. CASE Process
  <2>1. CASE \E new \in BOOLEAN, file \in Docs : main(new, file)
    BY <1>1, <2>1, StartUp DEF Typed, Reported, ErrorsAreOwn, Steps
  <2>2. CASE redhttp_response_send \/ redhttp_server_run \/ redhttp_server_run_returns
    BY <2>2 DEF redhttp_response_send, redhttp_server_run, redhttp_server_run_returns,
       Reported, ErrorsAreOwn, Steps
  <2>3. CASE termination_handler \/ flush
    BY <2>3 DEF termination_handler, flush, Reported, ErrorsAreOwn, Own
  <2>4. CASE cleanup \/ crash
    BY <1>1, <2>4 DEF cleanup, crash
  <2>. QED
    BY <1>4, <2>1, <2>2, <2>3, <2>4 DEF Process
<1>5. CASE UNCHANGED vars
  BY <1>5 DEF vars, Reported, ErrorsAreOwn, Own
<1>. QED
  BY <1>2, <1>3, <1>4, <1>5 DEF Next

\* A response never quotes a message logged for another request or by the
\* start-up file.
THEOREM ResponsesQuoteTheirOwn == Spec => []ErrorsAreOwn
<1>1. Init => Reported
  BY DEF Init, Reported, ErrorsAreOwn, Steps
<1>2. Typed /\ Reported /\ [Next]_vars => (Typed /\ Reported)'
  BY NextTyped, NextReported
<1>3. Reported => ErrorsAreOwn
  BY DEF Reported
<1>. QED
  BY InitTyped, <1>1, <1>2, <1>3, PTL DEF Spec

\* The error and fatal messages of the document that are still to come
\* account for all of them while nothing has been logged.
Bad == {"error", "fatal"}
Noticed ==
  /\ AcknowledgedIsClean
  /\ pc \in Steps /\ req.op \in Bodiless => req.body = NoBody
  /\ pc = "clear" => stream = req.body.doc
  /\ pc \in {"load", "unload"} /\ error_buffer = NULL => Range(req.body.doc) \cap Bad \subseteq Range(stream)

LEMMA RangeTail ==
  ASSUME NEW S, NEW s \in Seq(S), s # <<>>
  PROVE  Range(s) = {Head(s)} \cup Range(Tail(s))
<1>1. /\ Len(s) \in Nat /\ Len(s) >= 1 /\ Head(s) = s[1]
      /\ DOMAIN s = 1 .. Len(s) /\ DOMAIN Tail(s) = 1 .. Len(s) - 1
      /\ \A i \in 1 .. Len(s) - 1 : Tail(s)[i] = s[i + 1]
  OBVIOUS
<1>2. ASSUME NEW x \in Range(s) PROVE x \in {Head(s)} \cup Range(Tail(s))
  <2>1. PICK i \in 1 .. Len(s) : x = s[i]
    BY <1>1 DEF Range
  <2>2. CASE i = 1
    BY <1>1, <2>1, <2>2
  <2>3. CASE i # 1
    <3>1. i - 1 \in 1 .. Len(s) - 1 /\ Tail(s)[i - 1] = x
      BY <1>1, <2>1, <2>3
    <3>. QED
      BY <1>1, <3>1 DEF Range
  <2>. QED
    BY <2>2, <2>3
<1>3. Head(s) \in Range(s)
  BY <1>1 DEF Range
<1>4. ASSUME NEW i \in 1 .. Len(s) - 1 PROVE Tail(s)[i] \in Range(s)
  BY <1>1 DEF Range
<1>5. Range(Tail(s)) \subseteq Range(s)
  BY <1>1, <1>4 DEF Range
<1>. QED
  BY <1>2, <1>3, <1>5

LEMMA RangeEmpty == Range(<<>>) = {}
  BY DEF Range

\* A buffer is not NULL.
LEMMA LogsSetBuffer ==
  ASSUME Typed
  PROVE  /\ \A level : Logged(level) # NULL
         /\ Fails("logged") => error_buffer' # NULL
<1>1. \A level : Logged(level) \in SUBSET Numbers
  BY DEF Logged, Messages, Typed, TypeOK
<1>. QED
  BY <1>1, NullAssumption DEF Fails

LEMMA StorageStepsNoticed ==
  ASSUME Typed, Noticed, StorageSteps
  PROVE  Noticed'
<1>. USE DEF counters, disk, locals, session
<1>1. CASE post_to_new_graph
  <2>1. pc = "genid" /\ req.op = "POSTNEW" /\ req \in Requests
    BY <1>1 DEF post_to_new_graph, Typed, TypeOK, StageOK, Steps, Stages, Entries, Loaders
  <2>2. ASSUME NEW code \in {400, 500}, Reply(code), req'.op = req.op, req'.body = req.body
        PROVE  Noticed'
    BY <2>1, <2>2 DEF Reply, Noticed, AcknowledgedIsClean, Responding, Bodiless
  <2>3. ASSUME NEW graph \in Graphs, req' = [req EXCEPT !.graph = graph],
               Reply(400) \/ Reply(500) \/ Goto("body", <<>>, {})
        PROVE  Noticed'
    <3>1. req'.op = req.op /\ req'.body = req.body
      BY <2>1, <2>3 DEF Requests
    <3>2. CASE Goto("body", <<>>, {})
      BY <2>1, <3>1, <3>2 DEF Goto, Noticed, AcknowledgedIsClean, Responding, Bodiless
    <3>. QED
      BY <2>2, <2>3, <3>1, <3>2
  <2>4. CASE UNCHANGED <<pc, req, stream, todo, err, response>>
    BY <2>1, <2>4 DEF Noticed, AcknowledgedIsClean, Responding, Bodiless
  <2>. QED
    BY <1>1, <2>2, <2>3, <2>4, SearchTurn DEF Typed
<1>2. CASE clear_graph
  BY <1>2 DEF clear_graph, Noticed, AcknowledgedIsClean, Responding, Steps
<1>3. CASE add_statement
  <2>1. Range(stream) = {Head(stream)} \cup Range(stream')
    BY <1>3, RangeTail DEF add_statement, Typed, TypeOK
  <2>2. Head(stream) \notin Bad
    BY <1>3, ConstantsAssumption DEF add_statement, Bad, Levels
  <2>. QED
    BY <1>3, <2>1, <2>2 DEF add_statement, Noticed, AcknowledgedIsClean, Responding
<1>4. CASE add_statement_fails
  BY <1>4 DEF add_statement_fails, Reply, Noticed, AcknowledgedIsClean, Responding, Steps
<1>5. CASE load_stream_ends
  BY <1>5, RangeEmpty DEF load_stream_ends, Reply, LoadCode, Noticed, AcknowledgedIsClean,
     Responding, Steps, Bad
<1>6. CASE remove_statement
  <2>1. Range(stream) = {Head(stream)} \cup Range(stream')
    BY <1>6, RangeTail DEF remove_statement, Typed, TypeOK
  <2>2. Head(stream) \notin Bad
    BY <1>6, ConstantsAssumption DEF remove_statement, Bad, Levels
  <2>3. error_buffer' = NULL => error_buffer = NULL
    BY <1>6, LogsSetBuffer DEF remove_statement, Fails
  <2>. QED
    BY <1>6, <2>1, <2>2, <2>3 DEF remove_statement, Noticed, AcknowledgedIsClean, Responding
<1>7. CASE delete_stream_ends
  BY <1>7, RangeEmpty DEF delete_stream_ends, Reply, UnloadCode, Noticed, AcknowledgedIsClean,
     Responding, Steps, Bad
<1>8. CASE remove_graph \/ remove_next_graph \/ stream_model \/ remove_next_statement \/ remove_all_ends
  <2>1. req.op \in Bodiless /\ pc \in Steps
    BY <1>8 DEF remove_graph, remove_next_graph, stream_model, remove_next_statement, remove_all_ends,
       Typed, StageOK, Steps, Stages, Entries, Loaders, Bodiless
  <2>2. Range(req.body.doc) \cap Bad = {}
    BY <2>1, RangeEmpty DEF Noticed, NoBody
  <2>3. req' = req /\ pc' \notin {"clear", "load", "unload"}
    BY <1>8 DEF remove_graph, remove_next_graph, stream_model, remove_next_statement,
       remove_all_ends, Reply
  <2>. QED
    BY <2>1, <2>2, <2>3 DEF Noticed, AcknowledgedIsClean, Responding, Bad
<1>9. CASE redland_log_handler
  <2>1. CASE Gone(durable)
    BY <2>1 DEF Gone, Noticed, AcknowledgedIsClean, Responding, Steps
  <2>2. CASE ~ Gone(durable)
    <3>1. error_buffer' # NULL
      BY <1>9, <2>2, LogsSetBuffer DEF redland_log_handler
    <3>. QED
      BY <1>9, <2>2, <3>1 DEF redland_log_handler, Noticed, AcknowledgedIsClean, Responding, Steps
  <2>. QED
    BY <2>1, <2>2
<1>10. CASE read_body
  <2>1. pc \in Steps /\ req.op \notin Bodiless /\ req' = req
    BY <1>10, BodyRead DEF Steps, Bodiless
  <2>2. CASE Reply(500)
    BY <2>1, <2>2 DEF Reply, Noticed, AcknowledgedIsClean, Responding
  <2>3. ASSUME NEW step \in {"clear", "load"}, Goto(step, req.body.doc, {})
        PROVE  Noticed'
    BY <2>1, <2>3 DEF Goto, Noticed, AcknowledgedIsClean, Responding
  <2>. QED
    BY <1>10, <2>2, <2>3, BodyRead
<1>. QED
  BY <1>1, <1>2, <1>3, <1>4, <1>5, <1>6, <1>7, <1>8, <1>9, <1>10 DEF StorageSteps

LEMMA NextNoticed ==
  ASSUME Typed, Noticed, [Next]_vars
  PROVE  Noticed'
<1>. USE DEF counters, disk, locals, session
<1>1. ASSUME NEW s, Gone(s) PROVE Noticed'
  BY <1>1 DEF Gone, Noticed, AcknowledgedIsClean, Responding, Steps
<1>2. CASE Handlers
  <2>1. PICK r \in Requests : Accept(r)
    BY <1>2, HandlersAccept DEF Typed
  <2>2. CASE Refused(r)
    <3>1. r.op \in {"HEAD", "GET"} => Range(r.body.doc) = {}
      BY <2>1, RangeEmpty DEF Accept, Bodiless, NoBody
    <3>. QED
      BY <2>1, <2>2, <3>1 DEF Accept, Refused, Noticed, AcknowledgedIsClean, Responding
  <2>3. CASE Started(r)
    BY <2>1, <2>3 DEF Accept, Started, Entries, Noticed, AcknowledgedIsClean, Responding
  <2>. QED
    BY <2>1, <2>2, <2>3 DEF Accept, Handled
<1>3. CASE Process
  <2>1. CASE \E new \in BOOLEAN, file \in Docs : main(new, file)
    BY <1>1, <2>1, StartUp DEF Typed, Noticed, AcknowledgedIsClean, Responding, Steps
  <2>2. CASE redhttp_response_send \/ redhttp_server_run \/ redhttp_server_run_returns
    BY <2>2 DEF redhttp_response_send, redhttp_server_run, redhttp_server_run_returns,
       Noticed, AcknowledgedIsClean, Responding, Steps
  <2>3. CASE termination_handler \/ flush
    BY <2>3 DEF termination_handler, flush, Noticed, AcknowledgedIsClean, Responding
  <2>4. CASE cleanup \/ crash
    BY <1>1, <2>4 DEF cleanup, crash
  <2>. QED
    BY <1>3, <2>1, <2>2, <2>3, <2>4 DEF Process
<1>4. CASE UNCHANGED vars
  BY <1>4 DEF vars, Noticed, AcknowledgedIsClean, Responding
<1>. QED
  BY <1>2, <1>3, <1>4, StorageStepsNoticed DEF Next

\* A document with an error in it is never acknowledged.
THEOREM AcknowledgementsAreClean == Spec => []AcknowledgedIsClean
<1>1. Init => Noticed
  BY DEF Init, Noticed, AcknowledgedIsClean, Responding, Steps
<1>2. Typed /\ Noticed /\ [Next]_vars => (Typed /\ Noticed)'
  BY NextTyped, NextNoticed
<1>3. Noticed => AcknowledgedIsClean
  BY DEF Noticed
<1>. QED
  BY InitTyped, <1>1, <1>2, <1>3, PTL DEF Spec

-----------------------------------------------------------------------------
(* A success is exact when failing storage calls are logged                *)

\* While nothing has failed, what the steps still to come do completes the
\* request.  The second loop of remove_all_statements is the subtle part: it
\* takes a statement of a graph out of the default graph, so a quad already
\* passed may only be left if the same triple is still to fail there.
Exact ==
  /\ SuccessIsExact
  /\ pc = "clear" => stream = req.body.doc
  /\ error_buffer = NULL =>
       /\ pc = "load" =>
            store \cup ({req.graph} \X Statements(stream)) = Expected(req, before)
       /\ pc = "unload" =>
            store \ ({req.graph} \X Statements(stream)) = Expected(req, before)
       /\ pc = "triples" /\ ~ err =>
            \A q \in store : \/ q \in todo
                             \/ /\ <<DefaultGraph, q[2]>> \in todo
                                /\ <<DefaultGraph, q[2]>> \notin store

\* What a finished request has made of the store, operation by operation.
LEMMA ExpectedCases ==
  ASSUME NEW r \in Requests, NEW s
  PROVE  LET new == {r.graph} \X Statements(r.body.doc)
         IN /\ r.op \in {"POST", "POSTNEW", "INSERT", "LOAD"} => Expected(r, s) = s \cup new
            /\ r.op = "PUT" => Expected(r, s) = (s \ QuadsOf(s, r.graph)) \cup new
            /\ r.op = "UNINSERT" => Expected(r, s) = s \ new
            /\ r.op = "DELETE" => Expected(r, s) = s \ QuadsOf(s, r.graph)
            /\ r.op = "DELETEALL" => Expected(r, s) = {}
            /\ r.op \in {"HEAD", "GET"} => Expected(r, s) = s
  BY DEF Expected

LEMMA StatementsTail ==
  ASSUME Typed, stream # <<>>
  PROVE  /\ Head(stream) \in Triples => Statements(stream) = {Head(stream)} \cup Statements(Tail(stream))
         /\ Head(stream) \notin Triples => Statements(stream) = Statements(Tail(stream))
<1>1. Range(stream) = {Head(stream)} \cup Range(Tail(stream))
  BY RangeTail DEF Typed, TypeOK
<1>. QED
  BY <1>1 DEF Statements

LEMMA StatementsEmpty == Statements(<<>>) = {}
  BY RangeEmpty DEF Statements

LEMMA StorageStepsExact ==
  ASSUME StorageFaults \subseteq {"logged"}, Typed, Confined, Exact, StorageSteps
  PROVE  Exact'
<1>. USE DEF counters, disk, locals, session
<1>1. CASE post_to_new_graph
  <2>1. /\ pc = "genid" /\ req.op = "POSTNEW" /\ req \in Requests
        /\ store = before /\ store' = store /\ before' = before
    BY <1>1, SearchTurn DEF post_to_new_graph, Typed, TypeOK, StageOK, Steps, Stages, Entries,
       Loaders, Confined, Untouched
  <2>2. ASSUME NEW code \in {400, 500}, Reply(code) PROVE Exact'
    BY <2>2 DEF Reply, Exact, SuccessIsExact, Responding
  <2>3. CASE Goto("body", <<>>, {})
    BY <2>3 DEF Goto, Exact, SuccessIsExact, Responding
  <2>4. CASE UNCHANGED <<pc, req, stream, todo, err, response>>
    BY <2>1, <2>4 DEF Exact, SuccessIsExact, Responding
  <2>. QED
    BY <1>1, <2>2, <2>3, <2>4, SearchTurn DEF Typed
<1>2. CASE clear_graph
  <2>1. pc = "clear" /\ req.op = "PUT" /\ req \in Requests /\ store = before /\ stream = req.body.doc
    BY <1>2 DEF clear_graph, Typed, TypeOK, StageOK, Steps, Stages, Entries, Loaders,
       Confined, Untouched, Exact
  <2>2. Expected(req, before) = (before \ QuadsOf(before, req.graph)) \cup ({req.graph} \X Statements(stream))
    BY <2>1, ExpectedCases
  <2>3. error_buffer' = NULL => store' = Without(req.graph)
    BY <1>2, LogsSetBuffer DEF clear_graph, Write
  <2>. QED
    BY <1>2, <2>1, <2>2, <2>3 DEF clear_graph, Without, Exact, SuccessIsExact, Responding
<1>3. CASE add_statement
  <2>1. Statements(stream) = {Head(stream)} \cup Statements(stream')
    BY <1>3, StatementsTail DEF add_statement
  <2>2. store' = store \cup {<<req.graph, Head(stream)>>}
    BY <1>3 DEF add_statement, Write, Target
  <2>3. store' \cup ({req.graph} \X Statements(stream')) = store \cup ({req.graph} \X Statements(stream))
    BY <2>1, <2>2
  <2>. QED
    BY <1>3, <2>3 DEF add_statement, Exact, SuccessIsExact, Responding
<1>4. CASE add_statement_fails
  BY <1>4 DEF add_statement_fails, Reply, Exact, SuccessIsExact, Responding
<1>5. CASE load_stream_ends
  <2>1. error_buffer = NULL => store = Expected(req, before)
    BY <1>5, StatementsEmpty DEF load_stream_ends, Exact
  <2>. QED
    BY <1>5, <2>1 DEF load_stream_ends, Reply, LoadCode, Exact, SuccessIsExact, Responding
<1>6. CASE remove_statement
  <2>1. Statements(stream) = {Head(stream)} \cup Statements(stream')
    BY <1>6, StatementsTail DEF remove_statement
  <2>2. error_buffer' = NULL => error_buffer = NULL /\ store' = store \ {<<req.graph, Head(stream)>>}
    BY <1>6, LogsSetBuffer DEF remove_statement, Write, Target
  <2>3. error_buffer' = NULL =>
          store' \ ({req.graph} \X Statements(stream')) = store \ ({req.graph} \X Statements(stream))
    BY <2>1, <2>2
  <2>. QED
    BY <1>6, <2>2, <2>3 DEF remove_statement, Exact, SuccessIsExact, Responding
<1>7. CASE delete_stream_ends
  <2>1. error_buffer = NULL => store = Expected(req, before)
    BY <1>7, StatementsEmpty DEF delete_stream_ends, Exact
  <2>. QED
    BY <1>7, <2>1 DEF delete_stream_ends, Reply, UnloadCode, Exact, SuccessIsExact, Responding
<1>8. CASE remove_graph
  <2>1. pc = "remove" /\ req.op = "DELETE" /\ req \in Requests /\ store = before
    BY <1>8 DEF remove_graph, Typed, TypeOK, StageOK, Steps, Stages, Entries, Loaders,
       Confined, Untouched
  <2>2. Expected(req, before) = before \ QuadsOf(before, req.graph)
    BY <2>1, ExpectedCases
  <2>3. CASE store' = Without(req.graph) /\ Reply(200)
    BY <1>8, <2>1, <2>2, <2>3 DEF remove_graph, Without, Reply, Exact, SuccessIsExact, Responding
  <2>4. CASE Reply(500)
    BY <2>4 DEF Reply, Exact, SuccessIsExact, Responding
  <2>. QED
    BY <1>8, <2>3, <2>4 DEF remove_graph, Write
<1>9. CASE remove_next_graph
  BY <1>9 DEF remove_next_graph, Exact, SuccessIsExact, Responding
<1>10. CASE stream_model
  BY <1>10 DEF stream_model, Reply, Exact, SuccessIsExact, Responding
<1>11. CASE remove_next_statement
  <2>1. /\ pc = "triples" /\ pc' = "triples" /\ UNCHANGED session
    BY <1>11 DEF remove_next_statement
  <2>2. SUFFICES ASSUME error_buffer' = NULL, ~ err', NEW p \in store'
                 PROVE  \/ p \in todo'
                        \/ <<DefaultGraph, p[2]>> \in todo' /\ <<DefaultGraph, p[2]>> \notin store'
    BY <2>1 DEF Exact, SuccessIsExact, Responding
  <2>3. PICK q \in todo :
          /\ <<DefaultGraph, q[2]>> \in store
          /\ store' = store \ {<<DefaultGraph, q[2]>>}
          /\ todo' = todo \ {q}
          /\ error_buffer = NULL /\ ~ err
    BY <1>11, <2>2, LogsSetBuffer DEF remove_next_statement, Write
  <2>4. \A d \in store : d \in todo \/ (<<DefaultGraph, d[2]>> \in todo /\ <<DefaultGraph, d[2]>> \notin store)
    BY <2>1, <2>3 DEF Exact
  <2>5. <<DefaultGraph, q[2]>> \in todo
    BY <2>3, <2>4
  <2>. QED
    BY <2>2, <2>3, <2>4, <2>5
<1>12. CASE remove_all_ends
  <2>1. req.op = "DELETEALL" /\ req \in Requests
    BY <1>12 DEF remove_all_ends, Typed, TypeOK, StageOK, Steps, Stages, Entries, Loaders
  <2>2. error_buffer = NULL /\ ~ err => store = Expected(req, before)
    BY <1>12, <2>1, ExpectedCases DEF remove_all_ends, Exact
  <2>. QED
    BY <1>12, <2>2 DEF remove_all_ends, Reply, RemoveAllCode, Exact, SuccessIsExact, Responding
<1>13. CASE redland_log_handler
  <2>1. CASE Gone(durable)
    BY <2>1 DEF Gone, Exact, SuccessIsExact, Responding
  <2>2. CASE ~ Gone(durable)
    <3>1. error_buffer' # NULL
      BY <1>13, <2>2, LogsSetBuffer DEF redland_log_handler
    <3>. QED
      BY <1>13, <2>2, <3>1 DEF redland_log_handler, Exact, SuccessIsExact, Responding
  <2>. QED
    BY <2>1, <2>2
<1>14. CASE read_body
  <2>1. /\ store = before /\ UNCHANGED <<store, req, before>>
        /\ req \in Requests /\ req.op \in {"PUT", "POST", "POSTNEW"}
    BY <1>14, BodyRead DEF Confined, Untouched
  <2>2. CASE Reply(500)
    BY <2>2 DEF Reply, Exact, SuccessIsExact, Responding
  <2>3. CASE req.op = "PUT" /\ Goto("clear", req.body.doc, {})
    BY <2>1, <2>3 DEF Goto, Exact, SuccessIsExact, Responding
  <2>4. CASE req.op # "PUT" /\ Goto("load", req.body.doc, {})
    <3>1. Expected(req, before) = before \cup ({req.graph} \X Statements(req.body.doc))
      BY <2>1, <2>4, ExpectedCases
    <3>. QED
      BY <2>1, <2>4, <3>1 DEF Goto, Exact, SuccessIsExact, Responding
  <2>. QED
    BY <1>14, <2>2, <2>3, <2>4, BodyRead
<1>. QED
  BY <1>1, <1>2, <1>3, <1>4, <1>5, <1>6, <1>7, <1>8, <1>9, <1>10, <1>11, <1>12, <1>13, <1>14
     DEF StorageSteps

LEMMA NextExact ==
  ASSUME StorageFaults \subseteq {"logged"}, Typed, Confined, Exact, [Next]_vars
  PROVE  Exact'
<1>. USE DEF counters, disk, locals, session
<1>1. ASSUME NEW s, Gone(s) PROVE Exact'
  BY <1>1 DEF Gone, Exact, SuccessIsExact, Responding
<1>2. CASE Handlers
  <2>1. PICK r \in Requests : Accept(r)
    BY <1>2, HandlersAccept DEF Typed
  <2>2. store' = before' /\ req' = r
    BY <2>1 DEF Accept, Confined, Untouched
  <2>3. CASE Refused(r)
    <3>1. r.op \in {"HEAD", "GET"} => Expected(r, before') = before'
      BY ExpectedCases
    <3>. QED
      BY <2>2, <2>3, <3>1 DEF Refused, Exact, SuccessIsExact, Responding
  <2>4. CASE Started(r)
    <3>1. pc' = "load" => Expected(r, before') = before' \cup ({r.graph} \X Statements(r.body.doc))
      BY <2>4, ExpectedCases DEF Started, Entries, Loaders
    <3>2. pc' = "unload" => Expected(r, before') = before' \ ({r.graph} \X Statements(r.body.doc))
      BY <2>4, ExpectedCases DEF Started, Entries, Loaders
    <3>. QED
      BY <2>2, <2>4, <3>1, <3>2 DEF Started, Entries, Exact, SuccessIsExact, Responding
  <2>. QED
    BY <2>1, <2>3, <2>4 DEF Accept, Handled
<1>3. CASE Process
  <2>1. CASE \E new \in BOOLEAN, file \in Docs : main(new, file)
    BY <1>1, <2>1, StartUp DEF Typed, Exact, SuccessIsExact, Responding
  <2>2. CASE redhttp_response_send \/ redhttp_server_run \/ redhttp_server_run_returns
    BY <2>2 DEF redhttp_response_send, redhttp_server_run, redhttp_server_run_returns,
       Exact, SuccessIsExact, Responding
  <2>3. CASE termination_handler \/ flush
    BY <2>3 DEF termination_handler, flush, Exact, SuccessIsExact, Responding
  <2>4. CASE cleanup \/ crash
    BY <1>1, <2>4 DEF cleanup, crash
  <2>. QED
    BY <1>3, <2>1, <2>2, <2>3, <2>4 DEF Process
<1>4. CASE UNCHANGED vars
  BY <1>4 DEF vars, Exact, SuccessIsExact, Responding
<1>. QED
  BY <1>2, <1>3, <1>4, StorageStepsExact DEF Next

\* Where a failing storage call reaches the log handler, 200 and 201 mean that
\* the request was carried out to the letter.
THEOREM SuccessesAreExact ==
  ASSUME StorageFaults \subseteq {"logged"}
  PROVE  Spec => []SuccessIsExact
<1>. DEFINE Inv == Typed /\ Confined /\ Exact
<1>1. Init => Inv
  BY InitTyped DEF Init, Exact, SuccessIsExact, Confined, Untouched, OnlyTargetTouched,
     RejectionChangesNothing, CreatedGraphIsNew, Responding, Steps
<1>2. Inv /\ [Next]_vars => Inv'
  BY NextTyped, NextConfined, NextExact
<1>3. Inv => SuccessIsExact
  BY DEF Exact
<1>. QED
  BY <1>1, <1>2, <1>3, PTL DEF Spec

-----------------------------------------------------------------------------
(* The contract                                                            *)
(*                                                                         *)
(* A step that ends in a response is the contract's Answer.  What the code *)
(* of that response promises follows from the invariants above, except for *)
(* 500: there the store has to be somewhere between the start and the end  *)
(* of the request, which Progress says of every moment of it.              *)

\* The quads that the document of request r stands for.
New(r) == {r.graph} \X Statements(r.body.doc)

\* s is what request r can have made of the quads old by some moment.
Between(r, old, s) ==
  /\ r.op \in {"POST", "POSTNEW", "INSERT", "LOAD"} => old \subseteq s /\ s \subseteq old \cup New(r)
  /\ r.op = "PUT" => old \ QuadsOf(old, r.graph) \subseteq s /\ s \subseteq old \cup New(r)
  /\ r.op = "UNINSERT" => old \ New(r) \subseteq s /\ s \subseteq old
  /\ r.op = "DELETE" => old \ QuadsOf(old, r.graph) \subseteq s /\ s \subseteq old
  /\ r.op = "DELETEALL" => s \subseteq old
  /\ r.op \in {"BAD", "HEAD", "GET"} => s = old

\* What is left of the stream comes from the document.
Pending == pc \in {"clear", "load", "unload"} => Statements(stream) \subseteq Statements(req.body.doc)
HalfDone == pc \in Steps => Between(req, before, store)
OnlyPostCreates == Responding({201}) => req.op = "POSTNEW"

Progress == Pending /\ HalfDone /\ OnlyPostCreates

-----------------------------------------------------------------------------
(* Progress is an invariant                                                *)

LEMMA NothingDone == \A r, s : Between(r, s, s)
  BY DEF Between

LEMMA GoneProgress ==
  ASSUME NEW s, Gone(s)
  PROVE  Progress'
  BY DEF Gone, Progress, Pending, HalfDone, OnlyPostCreates, Responding, Steps

LEMMA AcceptProgress ==
  ASSUME Confined, NEW r \in Requests, Accept(r)
  PROVE  Progress'
<1>1. store' = before' /\ req' = r
  BY DEF Accept, Confined, Untouched
<1>2. HalfDone'
  BY <1>1, NothingDone DEF HalfDone
<1>3. CASE Refused(r)
  BY <1>2, <1>3 DEF Refused, Progress, Pending, OnlyPostCreates, Responding
<1>4. CASE Started(r)
  BY <1>1, <1>2, <1>4 DEF Started, Entries, Progress, Pending, OnlyPostCreates, Responding
<1>. QED
  BY <1>3, <1>4 DEF Accept, Handled

\* A reply to a request whose store has not moved since.
LEMMA ReplyProgress ==
  ASSUME Progress, pc \in Steps, NEW code, Reply(code), UNCHANGED <<req, before>>,
         store' = store \/ Between(req, before, store'),
         code = 201 => req.op = "POSTNEW"
  PROVE  Progress'
  BY DEF Reply, Progress, Pending, HalfDone, OnlyPostCreates, Responding

\* A step that stays within the request.
LEMMA StepProgress ==
  ASSUME Progress, pc \in Steps, pc' # "respond", UNCHANGED <<req, before>>,
         store' = store \/ Between(req, before, store'),
         pc' \in {"clear", "load", "unload"} =>
           /\ pc \in {"clear", "load", "unload"}
           /\ Statements(stream') \subseteq Statements(stream)
  PROVE  Progress'
  BY DEF Progress, Pending, HalfDone, OnlyPostCreates, Responding

LEMMA StorageStepsProgress ==
  ASSUME Typed, Confined, Progress, StorageSteps
  PROVE  Progress'
<1>. USE DEF counters, disk, locals, session
<1>1. CASE post_to_new_graph
  <2>1. /\ pc = "genid" /\ req \in Requests
        /\ store = before /\ store' = store /\ before' = before
    BY <1>1, SearchTurn DEF post_to_new_graph, Typed, TypeOK, Steps, Confined, Untouched
  <2>2. HalfDone'
    BY <2>1, NothingDone DEF HalfDone
  <2>3. ASSUME NEW code \in {400, 500}, Reply(code) PROVE Progress'
    BY <2>2, <2>3 DEF Reply, Progress, Pending, OnlyPostCreates, Responding
  <2>4. CASE Goto("body", <<>>, {})
    BY <2>2, <2>4 DEF Goto, Progress, Pending, OnlyPostCreates, Responding
  <2>5. CASE UNCHANGED <<pc, req, stream, todo, err, response>>
    BY <2>1, <2>2, <2>5 DEF Progress, Pending, OnlyPostCreates, Responding
  <2>. QED
    BY <1>1, <2>3, <2>4, <2>5, SearchTurn DEF Typed
<1>2. CASE clear_graph
  <2>1. pc = "clear" /\ req.op = "PUT" /\ store = before
    BY <1>2 DEF clear_graph, Typed, StageOK, Steps, Stages, Entries, Loaders, Confined, Untouched
  <2>2. store \ QuadsOf(store, req.graph) \subseteq store' /\ store' \subseteq store
    BY <1>2 DEF clear_graph, Write, Without, QuadsOf
  <2>3. Between(req, before, store')
    BY <2>1, <2>2 DEF Between
  <2>. QED
    BY <1>2, <2>1, <2>3, StepProgress DEF clear_graph, Steps
<1>3. CASE add_statement
  <2>1. pc = "load" /\ req.op \in {"POST", "INSERT", "LOAD", "PUT", "POSTNEW"}
    BY <1>3 DEF add_statement, Typed, StageOK, Steps, Stages, Entries, Loaders
  <2>2. Statements(stream) = {Head(stream)} \cup Statements(stream')
    BY <1>3, StatementsTail DEF add_statement
  <2>3. store' = store \cup {<<req.graph, Head(stream)>>}
    BY <1>3 DEF add_statement, Write, Target
  <2>4. Head(stream) \in Statements(req.body.doc)
    BY <2>1, <2>2 DEF Progress, Pending
  <2>5. <<req.graph, Head(stream)>> \in New(req)
    BY <2>4 DEF New
  <2>6. Between(req, before, store)
    BY <2>1 DEF Progress, HalfDone, Steps
  <2>7. Between(req, before, store')
    BY <2>1, <2>3, <2>5, <2>6 DEF Between
  <2>. QED
    BY <1>3, <2>1, <2>2, <2>7, StepProgress DEF add_statement, Steps
<1>4. CASE add_statement_fails
  BY <1>4, ReplyProgress DEF add_statement_fails, Steps
<1>5. CASE load_stream_ends
  <2>1. LoadCode = 201 => req.op = "POSTNEW"
    BY DEF LoadCode
  <2>. QED
    BY <1>5, <2>1, ReplyProgress DEF load_stream_ends, Steps
<1>6. CASE remove_statement
  <2>1. pc = "unload" /\ req.op = "UNINSERT"
    BY <1>6 DEF remove_statement, Typed, StageOK, Steps, Stages, Entries, Loaders
  <2>2. Statements(stream) = {Head(stream)} \cup Statements(stream')
    BY <1>6, StatementsTail DEF remove_statement
  <2>3. store' = store \/ store' = store \ {<<req.graph, Head(stream)>>}
    BY <1>6 DEF remove_statement, Write, Target
  <2>4. <<req.graph, Head(stream)>> \in New(req)
    BY <2>1, <2>2 DEF Progress, Pending, New
  <2>5. Between(req, before, store)
    BY <2>1 DEF Progress, HalfDone, Steps
  <2>6. Between(req, before, store')
    BY <2>1, <2>3, <2>4, <2>5 DEF Between
  <2>. QED
    BY <1>6, <2>1, <2>2, <2>6, StepProgress DEF remove_statement, Steps
<1>7. CASE delete_stream_ends
  <2>1. UnloadCode # 201
    BY DEF UnloadCode
  <2>. QED
    BY <1>7, <2>1, ReplyProgress DEF delete_stream_ends, Steps
<1>8. CASE remove_graph
  <2>1. pc = "remove" /\ req.op = "DELETE" /\ store = before
    BY <1>8 DEF remove_graph, Typed, StageOK, Steps, Stages, Entries, Loaders, Confined, Untouched
  <2>2. store \ QuadsOf(store, req.graph) \subseteq store' /\ store' \subseteq store
    BY <1>8 DEF remove_graph, Write, Without, QuadsOf
  <2>3. Between(req, before, store')
    BY <2>1, <2>2 DEF Between
  <2>4. Reply(200) \/ Reply(500)
    BY <1>8 DEF remove_graph
  <2>. QED
    BY <1>8, <2>1, <2>3, <2>4, ReplyProgress DEF remove_graph, Steps
<1>9. CASE remove_next_graph \/ remove_next_statement
  <2>1. pc \in {"graphs", "triples"} /\ req.op = "DELETEALL"
    BY <1>9 DEF remove_next_graph, remove_next_statement, Typed, StageOK, Steps, Stages, Entries, Loaders
  <2>2. store' \subseteq store
    BY <1>9 DEF remove_next_graph, remove_next_statement, Write, Without, QuadsOf
  <2>3. Between(req, before, store)
    BY <2>1 DEF Progress, HalfDone, Steps
  <2>4. Between(req, before, store')
    BY <2>1, <2>2, <2>3 DEF Between
  <2>. QED
    BY <1>9, <2>1, <2>4, StepProgress DEF remove_next_graph, remove_next_statement, Steps
<1>10. CASE stream_model
  <2>1. CASE Reply(500)
    BY <1>10, <2>1, ReplyProgress DEF stream_model, Steps
  <2>2. CASE pc' = "triples"
    BY <1>10, <2>2, StepProgress DEF stream_model, Steps
  <2>. QED
    BY <1>10, <2>1, <2>2 DEF stream_model
<1>11. CASE remove_all_ends
  <2>1. RemoveAllCode # 201
    BY DEF RemoveAllCode
  <2>. QED
    BY <1>11, <2>1, ReplyProgress DEF remove_all_ends, Steps
<1>12. CASE redland_log_handler
  <2>1. CASE Gone(durable)
    BY <2>1, GoneProgress
  <2>2. CASE ~ Gone(durable)
    <3>1. /\ UNCHANGED <<store, before, req, pc>> /\ pc \in {"load", "unload"}
          /\ stream # <<>> /\ stream' = Tail(stream)
      BY <1>12, <2>2 DEF redland_log_handler
    <3>2. Statements(stream') \subseteq Statements(stream)
      BY <1>12, <3>1, StatementsTail
    <3>. QED
      BY <3>1, <3>2, StepProgress DEF Steps
  <2>. QED
    BY <2>1, <2>2
<1>13. CASE read_body
  <2>1. /\ pc \in Steps /\ UNCHANGED <<store, req, before>>
    BY <1>13, BodyRead DEF Steps
  <2>2. HalfDone'
    BY <2>1 DEF Progress, HalfDone
  <2>3. CASE Reply(500)
    BY <2>1, <2>3, ReplyProgress
  <2>4. ASSUME NEW step \in {"clear", "load"}, Goto(step, req.body.doc, {})
        PROVE  Progress'
    BY <2>1, <2>2, <2>4 DEF Goto, Progress, Pending, OnlyPostCreates, Responding
  <2>. QED
    BY <1>13, <2>3, <2>4, BodyRead
<1>. QED
  BY <1>1, <1>2, <1>3, <1>4, <1>5, <1>6, <1>7, <1>8, <1>9, <1>10, <1>11, <1>12, <1>13 DEF StorageSteps

LEMMA NextProgress ==
  ASSUME Typed, Confined, Progress, [Next]_vars
  PROVE  Progress'
<1>. USE DEF counters, disk, locals, session
<1>1. CASE Handlers
  BY <1>1, HandlersAccept, AcceptProgress DEF Typed
<1>2. CASE Process
  <2>1. CASE \E new \in BOOLEAN, file \in Docs : main(new, file)
    BY <2>1, StartUp, GoneProgress DEF Typed, Progress, Pending, HalfDone, OnlyPostCreates,
       Responding, Steps
  <2>2. CASE redhttp_response_send \/ redhttp_server_run \/ redhttp_server_run_returns
    BY <2>2 DEF redhttp_response_send, redhttp_server_run, redhttp_server_run_returns,
       Progress, Pending, HalfDone, OnlyPostCreates, Responding, Steps
  <2>3. CASE termination_handler \/ flush
    BY <2>3 DEF termination_handler, flush, Progress, Pending, HalfDone, OnlyPostCreates, Responding
  <2>4. CASE cleanup \/ crash
    BY <2>4, GoneProgress DEF cleanup, crash
  <2>. QED
    BY <1>2, <2>1, <2>2, <2>3, <2>4 DEF Process
<1>3. CASE UNCHANGED vars
  BY <1>3 DEF vars, Progress, Pending, HalfDone, OnlyPostCreates, Responding
<1>. QED
  BY <1>1, <1>2, <1>3, StorageStepsProgress DEF Next
-----------------------------------------------------------------------------
(* Every step is a step of the contract, or none                           *)

Inv == Typed /\ Confined /\ Synced /\ Exact /\ Progress

LEMMA InvHolds ==
  ASSUME StorageFaults \subseteq {"logged"}
  PROVE  Spec => []Inv
<1>1. Init => Inv
  BY InitTyped DEF Init, Inv, Confined, Untouched, OnlyTargetTouched, RejectionChangesNothing,
     CreatedGraphIsNew, Synced, Exact, SuccessIsExact, Progress, Pending, HalfDone,
     OnlyPostCreates, Responding, Steps
<1>2. Inv /\ [Next]_vars => Inv'
  BY NextTyped, NextConfined, NextSynced, NextExact, NextProgress DEF Inv
<1>. QED
  BY <1>1, <1>2, PTL DEF Spec

LEMMA MappedInit == Init => Contract!Init
  BY DEF Init, content, exchange, Contract!Init, Contract!Quads, Contract!Contexts, Quads, Contexts

\* A response is an answer the contract allows.
LEMMA AnswerIsAllowed ==
  ASSUME Inv', pc # "respond", pc' = "respond", before' = before
  PROVE  Contract!Answer
<1>0. /\ content = before /\ content' = store' /\ exchange = NULL
      /\ exchange' = [op |-> req'.op, graph |-> req'.graph,
                      doc |-> Statements(req'.body.doc), code |-> response'.code]
  BY DEF content, exchange
<1>1. /\ req' \in Requests /\ response' \in Responses
      /\ store' \in SUBSET Quads
  BY DEF Inv, Typed, TypeOK, Steps
<1>2. /\ req'.op \in Ops /\ req'.graph \in Contexts \cup {NULL} /\ response'.code \in Codes
      /\ Statements(req'.body.doc) \in SUBSET Triples
  BY <1>1 DEF Requests, Responses, Statements
<1>3. /\ exchange'.op = req'.op /\ exchange'.graph = req'.graph /\ exchange'.code = response'.code
      /\ {exchange'.graph} \X exchange'.doc = New(req')
  BY <1>0 DEF New
<1>4. exchange' \in Contract!Exchanges
  BY <1>0, <1>2 DEF Contract!Exchanges, Contract!Ops, Contract!Adders, Contract!Readers, Contract!Codes,
     Contract!Contexts, Ops, Codes, Contexts
<1>5. Contract!In(req'.graph) = QuadsOf(before, req'.graph)
  BY <1>0 DEF Contract!In, QuadsOf
<1>6. response'.code \in {200, 201} =>
        content' = Contract!Done(req'.op, req'.graph, New(req'))
  <2>1. SUFFICES ASSUME response'.code \in {200, 201}
                 PROVE  store' = Contract!Done(req'.op, req'.graph, New(req'))
    BY <1>0
  <2>2. store' = Expected(req', before)
    BY <2>1 DEF Inv, Exact, SuccessIsExact, Responding
  <2>3. Expected(req', before) = Contract!Done(req'.op, req'.graph, New(req'))
    BY <1>0, <1>2, <1>5 DEF Expected, New, Contract!Done, Contract!Adders, Contract!Readers, Ops
  <2>. QED
    BY <2>2, <2>3
<1>7. Contract!Partly(req'.op, req'.graph, New(req'), content')
  <2>1. Between(req', before, store')
    BY DEF Inv, Progress, HalfDone, Steps
  <2>. QED
    BY <1>0, <1>1, <1>2, <1>5, <2>1 DEF Between, Contract!Partly, Contract!Adders, Contract!Readers, Ops,
       Contract!Quads, Contract!Contexts, Quads, Contexts
<1>8. response'.code \in {400, 404, 406, 501} => content' = content
  BY <1>0 DEF Inv, Confined, RejectionChangesNothing, Responding
<1>9. response'.code = 201 => req'.op = "POSTNEW" /\ Contract!In(req'.graph) = {}
  <2>1. SUFFICES ASSUME response'.code = 201
                 PROVE  req'.op = "POSTNEW" /\ QuadsOf(before, req'.graph) = {}
    BY <1>5
  <2>2. Content(before, req'.graph) = {} /\ req'.op = "POSTNEW"
    BY <2>1 DEF Inv, Confined, CreatedGraphIsNew, Progress, OnlyPostCreates, Responding
  <2>3. before \in SUBSET Quads
    BY DEF Inv, Typed, TypeOK
  <2>. QED
    BY <2>2, <2>3 DEF Content, QuadsOf, Quads
<1>. QED
  BY <1>0, <1>2, <1>3, <1>4, <1>6, <1>7, <1>8, <1>9 DEF Contract!Answer, Codes

\* Before its response a request is invisible.
LEMMA WorkIsInvisible ==
  ASSUME pc # "respond", pc' # "respond", before' = before
  PROVE  UNCHANGED Contract!vars
  BY DEF Contract!vars, content, exchange

\* A process that ends has changed one graph at most, or removed quads.
LEMMA EndIsVanishing ==
  ASSUME Inv, NEW s, Gone(s), pc # "down", s = durable \/ (s = store /\ pc = "while"), WriteThrough
  PROVE  Contract!Vanish
<1>1. s = store /\ store \in SUBSET Quads /\ before \in SUBSET Quads
  BY DEF Inv, Synced, Typed, TypeOK
<1>2. content' = store /\ exchange' = NULL
  BY <1>1 DEF Gone, content, exchange
<1>3. pc \notin Steps => store = before
  BY DEF Inv, Confined, Untouched, Typed, TypeOK
<1>4. content' \subseteq content \/ \E c \in Contexts : \A q \in Quads : q[1] # c => (q \in content' <=> q \in content)
  <2>1. CASE pc = "respond" \/ pc \notin Steps
    BY <1>2, <1>3, <2>1 DEF content
  <2>2. CASE pc \in Steps \ {"respond"} /\ req.op = "DELETEALL"
    BY <1>2, <2>2 DEF content, Inv, Confined, OnlyTargetTouched
  <2>3. CASE pc \in Steps \ {"respond"} /\ req.op # "DELETEALL"
    <3>1. \A c \in Contexts \ {req.graph} : Content(store, c) = Content(before, c)
      BY <2>3 DEF Inv, Confined, OnlyTargetTouched
    <3>2. \A q \in Quads : q[1] # req.graph => (q \in store <=> q \in before)
      BY <3>1 DEF Content, Quads
    <3>3. DefaultGraph \in Contexts
      BY DEF Contexts
    <3>. QED
      BY <1>1, <1>2, <2>3, <3>2, <3>3 DEF content, Quads
  <2>. QED
    BY <2>1, <2>2, <2>3
<1>5. exchange # NULL => content' = content
  BY <1>2 DEF content, exchange
<1>. QED
  BY <1>1, <1>2, <1>4, <1>5 DEF Contract!Vanish, Contract!Quads, Contract!Contexts, Quads, Contexts

\* A start takes the quads on disk or none, and those of a file.
LEMMA StartIsStart ==
  ASSUME Inv, WriteThrough, NEW new \in BOOLEAN, NEW file \in Docs, main(new, file)
  PROVE  Contract!Start
<1>. DEFINE old == IF new THEN {} ELSE durable
            s(read) == old \cup ({DefaultGraph} \X Statements(SubSeq(file, 1, read)))
<1>1. PICK read \in 0 .. Len(file) :
        \/ pc' = "while" /\ store' = s(read) /\ before' = s(read)
        \/ Gone(s(read))
  BY DEF main
<1>2. pc = "down" /\ pc' # "respond" /\ before' = s(read)
  BY <1>1 DEF main, Gone
<1>3. durable = before
  BY <1>2 DEF Inv, Synced, Confined, Untouched
<1>4. content = durable /\ exchange = NULL /\ content' = s(read) /\ exchange' = NULL
  BY <1>2, <1>3 DEF content, exchange
<1>5. old \in {content, {}}
  BY <1>4
<1>6. Statements(SubSeq(file, 1, read)) \subseteq Triples
  BY DEF Statements
<1>7. old \subseteq content' /\ content' \subseteq old \cup ({DefaultGraph} \X Triples)
  BY <1>4, <1>6
<1>. QED
  BY <1>4, <1>5, <1>7 DEF Contract!Start

LEMMA ProcessIsAllowed ==
  ASSUME Inv, WriteThrough, Process
  PROVE  [Contract!Next]_Contract!vars
<1>. USE DEF counters, disk, locals, session
<1>1. CASE redhttp_response_send
  <2>1. pc = "respond" /\ pc' = "idle" /\ before' = store
    BY <1>1 DEF redhttp_response_send
  <2>2. req \in Requests /\ response \in Responses /\ Statements(req.body.doc) \in SUBSET Triples
    BY <2>1 DEF Inv, Typed, TypeOK, Steps, Statements
  <2>3. exchange \in [op : Ops, graph : Contexts \cup {NULL}, doc : SUBSET Triples, code : Codes]
    BY <2>1, <2>2 DEF exchange, Requests, Responses
  <2>4. Contract!Deliver
    BY <2>1, <2>3, NullAssumption DEF Contract!Deliver, content, exchange
  <2>. QED
    BY <2>4 DEF Contract!Next
<1>2. CASE termination_handler \/ flush \/ redhttp_server_run \/ redhttp_server_run_returns
  BY <1>2 DEF termination_handler, flush, redhttp_server_run, redhttp_server_run_returns,
              Contract!vars, content, exchange
<1>3. CASE cleanup
  BY <1>3, EndIsVanishing DEF cleanup, Contract!Next
<1>4. CASE \E new \in BOOLEAN, file \in Docs : main(new, file)
  BY <1>4, StartIsStart DEF Contract!Next
<1>5. CASE crash
  BY <1>5, EndIsVanishing DEF crash, Contract!Next
<1>. QED
  BY <1>1, <1>2, <1>3, <1>4, <1>5 DEF Process

LEMMA StepIsAllowed ==
  ASSUME Inv, Inv', WriteThrough, [Next]_vars
  PROVE  [Contract!Next]_Contract!vars
<1>. USE DEF counters, disk, locals, session
<1>1. CASE Handlers
  <2>1. pc # "respond" /\ before' = before
    BY <1>1, HandlersAccept DEF Inv, Typed, Accept
  <2>. QED
    BY <2>1, AnswerIsAllowed, WorkIsInvisible DEF Contract!Next
<1>2. CASE StorageSteps
  <2>1. pc # "respond" /\ pc # "down"
    BY <1>2 DEF StorageSteps, post_to_new_graph, read_body, clear_graph, add_statement,
       add_statement_fails, load_stream_ends, remove_statement, delete_stream_ends, remove_graph,
       remove_next_graph, stream_model, remove_next_statement, remove_all_ends, redland_log_handler
  <2>2. CASE Gone(durable)
    BY <2>1, <2>2, EndIsVanishing DEF Contract!Next
  <2>3. CASE before' = before
    BY <2>1, <2>3, AnswerIsAllowed, WorkIsInvisible DEF Contract!Next
  <2>4. before' = before \/ Gone(durable)
    BY <1>2 DEF StorageSteps, post_to_new_graph, read_body, clear_graph, add_statement,
       add_statement_fails, load_stream_ends, remove_statement, delete_stream_ends, remove_graph,
       remove_next_graph, stream_model, remove_next_statement, remove_all_ends, redland_log_handler
  <2>. QED
    BY <2>2, <2>3, <2>4
<1>3. CASE Process
  BY <1>3, ProcessIsAllowed
<1>4. CASE UNCHANGED vars
  BY <1>4 DEF vars, Contract!vars, content, exchange
<1>. QED
  BY <1>1, <1>2, <1>3, <1>4 DEF Next

\* The handlers of data.c and update.c with their librdf calls, failures,
\* signals and crashes do what the contract says, if the storage writes
\* through and logs its failures: 200 and 201 mean all of the request, 4xx
\* and 501 none of it, 500 and a crash a part of it and of it only.
THEOREM ContractIsKept ==
  ASSUME WriteThrough, StorageFaults \subseteq {"logged"}
  PROVE  Spec => ImplementsContract
<1>1. Inv /\ Inv' /\ [Next]_vars => [Contract!Next]_Contract!vars
  BY StepIsAllowed
<1>2. Spec => []Inv
  BY InvHolds
<1>. QED
  BY MappedInit, <1>1, <1>2, PTL DEF Spec, ImplementsContract, Contract!Spec
=============================================================================
