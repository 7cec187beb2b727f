---------------------------- MODULE StoreContract ----------------------------
(***************************************************************************)
(* What RedStore promises the users of its graph store, without saying how:*)
(* a set of quads, requests that take effect at once and are answered with *)
(* a status code, and a process that may vanish.  The code says how much   *)
(* of the request was done: 200 and 201 all of it, 4xx and 501 nothing,    *)
(* 500 some part of it.                                                    *)
(***************************************************************************)
CONSTANTS Graphs, Triples, DefaultGraph, NULL

Contexts == Graphs \cup {DefaultGraph}
Quads == Contexts \X Triples

VARIABLES
  content,    \* the quads clients can read
  exchange    \* the request being answered and its code, or NULL

vars == <<content, exchange>>

In(c) == {q \in content : q[1] = c}

Adders == {"POST", "POSTNEW", "INSERT", "LOAD"}
Readers == {"BAD", "HEAD", "GET"}

\* The request done completely, for the graph c and the quads the document
\* stands for there.
Done(op, c, new) ==
  CASE op \in Adders -> content \cup new
    [] op = "PUT" -> (content \ In(c)) \cup new
    [] op = "UNINSERT" -> content \ new
    [] op = "DELETE" -> content \ In(c)
    [] op = "DELETEALL" -> {}
    [] op \in Readers -> content

\* s is a possible result of the request done in part.
Partly(op, c, new, s) ==
  /\ s \in SUBSET Quads
  /\ CASE op \in Adders -> content \subseteq s /\ s \subseteq content \cup new
       [] op = "PUT" -> content \ In(c) \subseteq s /\ s \subseteq content \cup new
       [] op = "UNINSERT" -> content \ new \subseteq s /\ s \subseteq content
       [] op = "DELETE" -> content \ In(c) \subseteq s /\ s \subseteq content
       [] op = "DELETEALL" -> s \subseteq content
       [] op \in Readers -> s = content

Ops == Adders \cup Readers \cup {"PUT", "UNINSERT", "DELETE", "DELETEALL"}
Codes == {200, 201, 400, 404, 406, 500, 501}
Exchanges == [op : Ops, graph : Contexts \cup {NULL}, doc : SUBSET Triples, code : Codes]

Init == content \in SUBSET Quads /\ exchange = NULL

\* A request takes effect and is answered; doc is the set of statements of
\* its document.
Answer ==
  /\ exchange = NULL
  /\ exchange' \in Exchanges
  /\ LET x == exchange'
         new == {x.graph} \X x.doc
     IN /\ CASE x.code \in {200, 201} -> content' = Done(x.op, x.graph, new)
             [] x.code = 500 -> Partly(x.op, x.graph, new, content')
             [] OTHER -> content' = content
        /\ x.code = 201 => x.op = "POSTNEW" /\ In(x.graph) = {}

Deliver == exchange # NULL /\ exchange' = NULL /\ content' = content

\* The process ends.  A request it was working on may have been done in
\* part: one graph was being written, or all of them removed.
Vanish ==
  /\ exchange' = NULL
  /\ content' \in SUBSET Quads
  /\ exchange # NULL => content' = content
  /\ \/ content' \subseteq content
     \/ \E c \in Contexts : \A q \in Quads : q[1] # c => (q \in content' <=> q \in content)

\* A process starts on the old data or on none and loads a file into the
\* default graph.
Start ==
  /\ exchange = NULL /\ exchange' = NULL
  /\ \E old \in {content, {}} :
       old \subseteq content' /\ content' \subseteq old \cup ({DefaultGraph} \X Triples)

Next == Answer \/ Deliver \/ Vanish \/ Start

Spec == Init /\ [][Next]_vars
=============================================================================
