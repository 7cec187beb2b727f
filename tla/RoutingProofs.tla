---------------------------- MODULE RoutingProofs ----------------------------
(***************************************************************************)
(* Theorems about Routing, for any route table, methods and paths.         *)
(***************************************************************************)
EXTENDS Routing, SequenceTheorems, TLAPS

LEMMA TableRows ==
  ASSUME NEW i \in DOMAIN Table
  PROVE  /\ i \in 1 .. Len(Table)
         /\ Table[i] \in Rows
         /\ Table[i].glob => Table[i].path \in Seq(STRING)
<1>1. Table \in Seq(Rows)
  BY RoutingAssumption
<1>2. i \in 1 .. Len(Table) /\ Table[i] \in Rows
  BY <1>1
<1>3. Table[i].path \in Seq(STRING) \cup {NULL}
  BY <1>2 DEF Rows
<1>4. Table[i].glob => Table[i].path # NULL
  BY RoutingAssumption
<1>. QED
  BY <1>2, <1>3, <1>4

\* A path begins with another one, in both ways of saying it.
LEMMA PrefixIsSubSeq ==
  ASSUME NEW s \in Seq(STRING), NEW t \in Seq(STRING)
  PROVE  /\ IsPrefix(s, t) <=> \E n \in 0 .. Len(t) : SubSeq(t, 1, n) = s
         /\ IsPrefix(s, s)
<1>1. SubSeq(s, 1, Len(s)) = s
  BY SubSeqFull
<1>2. ASSUME NEW n \in 0 .. Len(t) PROVE Len(SubSeq(t, 1, n)) = n
  OBVIOUS
<1>3. Len(s) \in Nat /\ Len(t) \in Nat
  OBVIOUS
<1>4. IsPrefix(s, s)
  BY <1>3 DEF IsPrefix
<1>5. ASSUME IsPrefix(s, t) PROVE \E n \in 0 .. Len(t) : SubSeq(t, 1, n) = s
  <2>1. Len(s) \in 0 .. Len(t) /\ SubSeq(t, 1, Len(s)) = s
    BY <1>1, <1>3, <1>5 DEF IsPrefix
  <2>. QED
    BY <2>1
<1>6. ASSUME NEW n \in 0 .. Len(t), SubSeq(t, 1, n) = s PROVE IsPrefix(s, t)
  <2>1. Len(s) = n
    BY <1>2, <1>6
  <2>. QED
    BY <1>1, <1>6, <2>1 DEF IsPrefix
<1>. QED
  BY <1>4, <1>5, <1>6

\* match_route takes a row exactly when it is meant for the request.
LEMMA MatchIsOffered ==
  ASSUME request \in Requests, NEW i \in DOMAIN Table
  PROVE  match_route(Table[i]) <=> Offered(Table[i], request.method, request.path)
<1>. DEFINE row == Table[i]
<1>1. row \in Rows /\ (row.glob => row.path \in Seq(STRING)) /\ row.glob \in BOOLEAN
  BY TableRows DEF Rows
<1>2. request.path \in Seq(STRING)
  BY DEF Requests
<1>3. row.path = NULL \/ row.path \in Seq(STRING)
  BY <1>1 DEF Rows
<1>. HIDE DEF row
<1>4. row.glob =>
        (IsPrefix(row.path, request.path)
           <=> \E n \in 0 .. Len(request.path) : SubSeq(request.path, 1, n) = row.path)
  BY <1>1, <1>2, PrefixIsSubSeq
<1>5. row.glob /\ row.path = request.path => IsPrefix(row.path, request.path)
  BY <1>2, PrefixIsSubSeq
<1>6. Method(row) <=> row.method = NULL \/ row.method = request.method
  BY DEF Method
<1>7. match_route(row) <=> Offered(row, request.method, request.path)
  BY <1>1, <1>4, <1>5, <1>6 DEF match_route, Path, Offered
<1>. QED
  BY <1>7 DEF row

\* A path is what the glob's row has of it and the rest.
LEMMA RestIsRest ==
  ASSUME NEW s \in Seq(STRING), NEW t \in Seq(STRING), IsPrefix(s, t),
         NEW rest, rest = SubSeq(t, Len(s) + 1, Len(t))
  PROVE  /\ rest \in Seq(STRING)
         /\ s \o rest = t
         /\ rest = <<>> => s = t
<1>1. Len(s) \in Nat /\ Len(t) \in Nat /\ Len(s) <= Len(t) /\ SubSeq(t, 1, Len(s)) = s
  BY SubSeqFull DEF IsPrefix
<1>2. rest \in Seq(STRING)
  BY <1>1, SubSeqProperties
<1>3. SubSeq(t, 1, Len(s)) \o SubSeq(t, Len(s) + 1, Len(t)) = SubSeq(t, 1, Len(t))
  <2>1. 1 \in 1 .. Len(t) + 1 /\ Len(s) \in 1 - 1 .. Len(t) /\ Len(t) \in Len(s) .. Len(t)
    BY <1>1
  <2>. QED
    BY <2>1, ConcatAdjacentSubSeq
<1>4. s \o rest = t
  BY <1>1, <1>3, SubSeqFull
<1>. QED
  BY <1>2, <1>4, ConcatEmptySeq

-----------------------------------------------------------------------------
(* Types                                                                   *)

LEMMA AllowedAreMethods ==
  ASSUME NEW path
  PROVE  WithHead(Allowed(path)) \in SUBSET Methods
<1>1. \A row \in Range(Table) : row.method \in Methods \cup {NULL}
  <2>1. \A i \in DOMAIN Table : Table[i].method \in Methods \cup {NULL}
    BY TableRows DEF Rows
  <2>. QED
    BY <2>1 DEF Range
<1>2. MethodsOf(path) \subseteq Methods
  BY <1>1 DEF MethodsOf
<1>. QED
  BY <1>2, RoutingAssumption DEF WithHead, Allowed

LEMMA AnswersTyped ==
  /\ \A code \in Codes, allow \in SUBSET Methods :
       /\ Answer(0, code, allow, TRUE, NULL) \in Answers
       /\ Answer(0, code, allow, FALSE, NULL) \in Answers
  /\ \A by \in 0 .. Len(Table), code \in Codes, location \in Seq(STRING) \cup {NULL} :
       Answer(by, code, {}, TRUE, location) \in Answers
<1>1. Len(Table) \in Nat
  BY RoutingAssumption
<1>. QED
  BY <1>1 DEF Answer, Answers, Codes

\* TypeOK, with what the variables say of one another.
Typed ==
  /\ request \in Requests \cup {NULL}
  /\ it \in 1 .. Len(Table) + 1
  /\ path_glob \in Seq(STRING) \cup {NULL, FREED}
  /\ declined \subseteq 1 .. it - 1
  /\ response \in Answers \cup {NULL}
  /\ response # NULL => request # NULL

LEMMA TypedInit == Init => Typed
<1>1. Len(Table) \in Nat
  BY RoutingAssumption
<1>. QED
  BY <1>1 DEF Init, Typed

LEMMA MatchTyped ==
  ASSUME Typed, Match
  PROVE  /\ it \in 1 .. Len(Table)
         /\ request \in Requests
         /\ path_glob' \in Seq(STRING) \cup {NULL, FREED}
<1>. USE DEF Typed
<1>1. it \in 1 .. Len(Table) /\ request \in Requests
  BY RoutingAssumption DEF Match, AtRow, Dispatching
<1>2. Table[it].glob => Rest(Table[it]) \in Seq(STRING)
  <2>1. Table[it].glob => Table[it].path \in Seq(STRING)
    BY <1>1, TableRows, RoutingAssumption
  <2>2. request.path \in Seq(STRING)
    BY <1>1 DEF Requests
  <2>. QED
    BY <2>1, <2>2, SubSeqProperties DEF Rest
<1>. QED
  BY <1>1, <1>2 DEF Match, redhttp_request_set_path_glob

\* A handler's answer is one, and its own.
LEMMA HandlerAnswers ==
  ASSUME Typed, handler_answers \/ remove_trailing_slash
  PROVE  response' \in Answers /\ response'.by = it
<1>1. /\ it \in 0 .. Len(Table) /\ 0 \in Codes /\ 301 \in Codes
      /\ request.path \in Seq(STRING)
  <2>1. it \in 1 .. Len(Table) /\ request \in Requests
    BY MatchTyped DEF handler_answers, remove_trailing_slash
  <2>. QED
    BY <2>1, RoutingAssumption DEF Codes, Requests
<1>2. WithoutSlash(request.path) \in Seq(STRING)
  <2>1. \A i \in 1 .. Len(request.path) - 1 : request.path[i] \in STRING
    BY <1>1
  <2>2. SubSeq(request.path, 1, Len(request.path) - 1) \in Seq(STRING)
    BY <1>1, <2>1, SubSeqProperties
  <2>3. Front(request.path) = SubSeq(request.path, 1, Len(request.path) - 1)
    BY DEF Front
  <2>. QED
    BY <1>1, <2>2, <2>3 DEF WithoutSlash
<1>3. PICK code \in Codes, location \in Seq(STRING) \cup {NULL} :
        response' = Answer(it, code, {}, TRUE, location)
  BY <1>1, <1>2, ZenonT(40) DEF handler_answers, remove_trailing_slash
<1>. QED
  BY <1>1, <1>3, AnswersTyped, Zenon DEF Answer

LEMMA TypedStep == Typed /\ [Next]_vars => Typed'
<1>. SUFFICES ASSUME Typed, [Next]_vars PROVE Typed'
  OBVIOUS
<1>. USE DEF Typed
<1>1. Len(Table) \in Nat
  BY RoutingAssumption
<1>2. ASSUME NEW method \in Methods, NEW path \in Paths, redhttp_request_read(method, path)
      PROVE  Typed'
  <2>1. path \in Seq(STRING)
    BY RoutingAssumption
  <2>. QED
    BY <1>1, <1>2, <2>1 DEF redhttp_request_read, Requests
<1>3. CASE dispatch_server
  <2>1. response' \in Answers
    <3>1. 200 \in Codes /\ 405 \in Codes /\ {"OPTIONS"} \in SUBSET Methods
      BY RoutingAssumption DEF Codes
    <3>2. CASE request.method = "OPTIONS"
      <4>1. response' = Answer(0, 200, WithHead(Allowed(NULL)), FALSE, NULL)
        BY <1>3, <3>2 DEF dispatch_server, check_allowed_responses
      <4>. QED
        BY <3>1, <4>1, AllowedAreMethods, AnswersTyped
    <3>3. CASE request.method # "OPTIONS"
      <4>1. response' = Answer(0, 405, {"OPTIONS"}, TRUE, NULL)
        BY <1>3, <3>3 DEF dispatch_server
      <4>. QED
        BY <3>1, <4>1, AnswersTyped, ZenonT(40)
    <3>. QED
      BY <3>2, <3>3
  <2>. QED
    BY <1>3, <2>1 DEF dispatch_server, Dispatching
<1>4. CASE no_match
  BY <1>1, <1>4 DEF no_match, AtRow, NextRow
<1>6. CASE handler_declines
  BY <1>1, <1>6, MatchTyped DEF handler_declines, NextRow
<1>7. CASE handler_answers
  BY <1>7, MatchTyped, HandlerAnswers, RoutingAssumption DEF handler_answers
<1>8. CASE remove_trailing_slash
  BY <1>8, MatchTyped, HandlerAnswers, RoutingAssumption DEF remove_trailing_slash
<1>9. CASE answer_head
  <2>1. response' \in Answers
    <3>1. 200 \in Codes /\ 404 \in Codes /\ {} \in SUBSET Methods
      BY DEF Codes
    <3>2. PICK code \in Codes : response' = Answer(0, code, {}, FALSE, NULL)
      BY <1>9, <3>1, ZenonT(40) DEF answer_head
    <3>. QED
      BY <3>1, <3>2, AnswersTyped, Zenon
  <2>. QED
    BY <1>9, <2>1 DEF answer_head, AtEnd, Dispatching
<1>10. CASE answer_allowed
  <2>1. response' \in Answers
    <3>1. 200 \in Codes /\ 405 \in Codes
      BY DEF Codes
    <3>2. CASE request.method = "OPTIONS"
      <4>1. response' = Answer(0, 200, WithHead(Allowed(request.path)), FALSE, NULL)
        BY <1>10, <3>2 DEF answer_allowed, check_allowed_responses
      <4>. QED
        BY <3>1, <4>1, AllowedAreMethods, AnswersTyped
    <3>3. CASE request.method # "OPTIONS"
      <4>1. response' = Answer(0, 405, WithHead(Allowed(request.path)), TRUE, NULL)
        <5>1. check_allowed_responses(405, request.path)
          BY <1>10, <3>3 DEF answer_allowed
        <5>2. (405 # 200) = TRUE
          OBVIOUS
        <5>. QED
          BY <5>1, <5>2, Zenon DEF check_allowed_responses
      <4>. QED
        BY <3>1, <4>1, AllowedAreMethods, AnswersTyped, ZenonT(40)
    <3>. QED
      BY <3>2, <3>3
  <2>. QED
    BY <1>10, <2>1 DEF answer_allowed, AtEnd, Dispatching
<1>11. CASE answer_not_found
  <2>1. response' \in Answers
    <3>1. 404 \in Codes /\ {} \in SUBSET Methods
      BY DEF Codes
    <3>2. response' = Answer(0, 404, {}, TRUE, NULL)
      BY <1>11 DEF answer_not_found
    <3>. QED
      BY <3>1, <3>2, AnswersTyped, ZenonT(40)
  <2>. QED
    BY <1>11, <2>1 DEF answer_not_found, AtEnd, Dispatching
<1>12. CASE redhttp_request_free
  BY <1>1, <1>12 DEF redhttp_request_free
<1>13. CASE follow
  <2>1. response.location \in Seq(STRING)
    BY <1>13 DEF follow, Redirected, Answers
  <2>. QED
    BY <1>1, <1>13, <2>1, RoutingAssumption DEF follow, Requests
<1>14. CASE UNCHANGED vars
  BY <1>14 DEF vars
<1>. QED
  BY <1>2, <1>3, <1>4, <1>6, <1>7, <1>8, <1>9, <1>10, <1>11, <1>12, <1>13, <1>14
     DEF Next, Dispatch

\* Every variable keeps its type, and only rows before the one the dispatcher
\* is at have declined.
THEOREM TypeCorrect == Spec => []TypeOK
<1>1. Spec => []Typed
  BY TypedInit, TypedStep, PTL DEF Spec
<1>2. Typed => TypeOK
  BY DEF Typed, TypeOK, Requests, Answers
<1>. QED
  BY <1>1, <1>2, PTL

-----------------------------------------------------------------------------
(* Who is asked                                                            *)

For(i) == Offered(Table[i], request.method, request.path)

\* What the dispatcher has gone past has declined, and where it has stopped is
\* who has answered.
AskedInOrder ==
  request # NULL /\ request.path # Star =>
    /\ \A i \in DOMAIN Table : i < it /\ For(i) => i \in declined
    /\ response # NULL =>
         \/ response.by = 0 /\ it = Len(Table) + 1
         \/ response.by = it /\ it \in DOMAIN Table /\ For(it)

LEMMA MatchIsFor ==
  ASSUME Typed, Match
  PROVE  it \in DOMAIN Table /\ request # NULL /\ For(it)
<1>1. it \in DOMAIN Table /\ request \in Requests /\ match_route(Table[it])
  BY RoutingAssumption DEF Typed, Match, AtRow, Dispatching
<1>. QED
  BY <1>1, MatchIsOffered DEF For, Match, AtRow, Dispatching

LEMMA AskedStep == Typed /\ AskedInOrder /\ [Next]_vars => AskedInOrder'
<1>. SUFFICES ASSUME Typed, AskedInOrder, [Next]_vars PROVE AskedInOrder'
  OBVIOUS
<1>0. /\ Len(Table) \in Nat
      /\ DOMAIN Table = 1 .. Len(Table)
      /\ it \in 1 .. Len(Table) + 1
  BY RoutingAssumption DEF Typed
<1>1. ASSUME NEW method \in Methods, NEW path \in Paths, redhttp_request_read(method, path)
      PROVE  AskedInOrder'
  BY <1>0, <1>1 DEF redhttp_request_read, AskedInOrder
<1>2. CASE dispatch_server
  BY <1>2 DEF dispatch_server, AskedInOrder
<1>3. CASE no_match
  <2>1. request \in Requests /\ it \in DOMAIN Table
    BY <1>0, <1>3 DEF Typed, no_match, AtRow, Dispatching
  <2>2. ~ For(it)
    BY <1>3, <2>1, MatchIsOffered DEF no_match, For
  <2>3. /\ request' = request /\ declined' = declined /\ it' = it + 1
        /\ response = NULL /\ response' = response
        /\ request # NULL /\ request.path # Star
    BY <1>3 DEF no_match, NextRow, AtRow, Dispatching
  <2>. QED
    BY <1>0, <2>2, <2>3 DEF AskedInOrder, For
<1>4. CASE handler_declines
  <2>1. /\ request' = request /\ declined' = declined \cup {it} /\ it' = it + 1
        /\ response = NULL /\ response' = response
        /\ request # NULL /\ request.path # Star
    BY <1>4 DEF handler_declines, NextRow, Match, AtRow, Dispatching
  <2>. QED
    BY <1>0, <2>1 DEF AskedInOrder, For
<1>5. ASSUME Match, response'.by = it, UNCHANGED <<request, it, declined>>
      PROVE  AskedInOrder'
  BY <1>0, <1>5, MatchIsFor DEF AskedInOrder, For, Match, AtRow
<1>6. CASE handler_answers \/ remove_trailing_slash
  BY <1>5, <1>6, HandlerAnswers DEF handler_answers, remove_trailing_slash
<1>8. ASSUME AtEnd, response'.by = 0, UNCHANGED <<request, it, path_glob, declined>>
      PROVE  AskedInOrder'
  BY <1>8 DEF AskedInOrder, For, AtEnd, Dispatching
<1>9. CASE answer_head
  BY <1>8, <1>9 DEF answer_head, Answer
<1>10. CASE answer_allowed
  <2>1. response'.by = 0
    BY <1>10 DEF answer_allowed, check_allowed_responses, Answer
  <2>. QED
    BY <1>8, <1>10, <2>1 DEF answer_allowed
<1>11. CASE answer_not_found
  BY <1>8, <1>11 DEF answer_not_found, Answer
<1>12. CASE redhttp_request_free
  BY <1>12 DEF redhttp_request_free, AskedInOrder
<1>13. CASE follow
  BY <1>0, <1>13 DEF follow, AskedInOrder
<1>14. CASE UNCHANGED vars
  BY <1>14 DEF vars, AskedInOrder, For
<1>. QED
  BY <1>1, <1>2, <1>3, <1>4, <1>6, <1>9, <1>10, <1>11, <1>12, <1>13, <1>14
     DEF Next, Dispatch

\* Whatever the table, an answer comes from a handler that was registered for
\* the request, and every earlier one has been asked and has declined.
THEOREM FirstAnswers == Spec => []AnsweredByFirst
<1>1. Init => Typed /\ AskedInOrder
  BY TypedInit DEF Init, AskedInOrder
<1>2. Spec => [](Typed /\ AskedInOrder)
  BY <1>1, TypedStep, AskedStep, PTL DEF Spec
<1>3. Typed /\ AskedInOrder => AnsweredByFirst
  <2>. SUFFICES ASSUME Typed, AskedInOrder, response # NULL, request.path # Star
                PROVE  /\ response.by # 0 => For(response.by)
                       /\ \A i \in DOMAIN Table :
                            For(i) => i \in declined \/ (response.by # 0 /\ response.by <= i)
    BY DEF AnsweredByFirst, For
  <2>1. DOMAIN Table = 1 .. Len(Table) /\ Len(Table) \in Nat
    BY RoutingAssumption
  <2>. QED
    BY <2>1 DEF Typed, AskedInOrder
<1>. QED
  BY <1>2, <1>3, PTL

-----------------------------------------------------------------------------
(* Whose glob it is                                                        *)

LEMMA PrefixesOfOne ==
  ASSUME NEW s \in Seq(STRING), NEW t \in Seq(STRING), NEW u \in Seq(STRING),
         IsPrefix(s, u), IsPrefix(t, u), Len(s) <= Len(t)
  PROVE  IsPrefix(s, t)
<1>1. /\ Len(s) \in Nat /\ Len(t) \in Nat /\ Len(u) \in Nat
      /\ Len(t) <= Len(u)
  BY DEF IsPrefix
<1>2. SubSeq(u, 1, Len(s)) = s /\ SubSeq(u, 1, Len(t)) = t
  BY SubSeqFull DEF IsPrefix
<1>3. \A i \in 1 .. Len(s) : s[i] = t[i]
  BY <1>1, <1>2
<1>4. /\ SubSeq(t, 1, Len(s)) \in Seq(STRING)
      /\ Len(SubSeq(t, 1, Len(s))) = Len(s)
      /\ \A i \in 1 .. Len(s) : SubSeq(t, 1, Len(s))[i] = t[i]
  BY <1>1
<1>5. SubSeq(t, 1, Len(s)) = s
  BY <1>3, <1>4, SeqEqual
<1>. QED
  BY <1>1, <1>5, SubSeqFull DEF IsPrefix

\* No request is offered to the handlers of two globs.
OneGlob ==
  \A i, j \in DOMAIN Table, method \in Methods, path \in Seq(STRING) :
    /\ Table[i].glob /\ Offered(Table[i], method, path)
    /\ Table[j].glob /\ Offered(Table[j], method, path)
    => i = j

LEMMA ApartIsOne == GlobsApart => OneGlob
<1>. SUFFICES ASSUME GlobsApart, NEW i \in DOMAIN Table, NEW j \in DOMAIN Table,
                     NEW method \in Methods, NEW path \in Seq(STRING),
                     Table[i].glob, Offered(Table[i], method, path),
                     Table[j].glob, Offered(Table[j], method, path)
              PROVE  i = j
  BY DEF OneGlob
<1>1. Table[i].path \in Seq(STRING) /\ Table[j].path \in Seq(STRING)
  BY TableRows
<1>2. \A k \in {i, j} : Table[k].path # NULL
  BY RoutingAssumption
<1>3. IsPrefix(Table[i].path, path) /\ IsPrefix(Table[j].path, path)
  BY <1>1, <1>2, PrefixIsSubSeq DEF Offered
<1>4. Len(Table[i].path) \in Nat /\ Len(Table[j].path) \in Nat
  BY <1>1
<1>5. IsPrefix(Table[i].path, Table[j].path) \/ IsPrefix(Table[j].path, Table[i].path)
  BY <1>1, <1>3, <1>4, PrefixesOfOne
<1>6. Table[i].method = NULL \/ Table[j].method = NULL \/ Table[i].method = Table[j].method
  BY DEF Offered
<1>. QED
  BY <1>5, <1>6 DEF GlobsApart

\* A glob that is there is the rest of the path after the row that set it.
GlobOf(i) ==
  /\ Table[i].glob
  /\ For(i)
  /\ path_glob \in Seq(STRING)
  /\ request.path = Table[i].path \o path_glob

GlobKept ==
  /\ path_glob # NULL =>
       /\ request # NULL
       /\ \E i \in DOMAIN Table : GlobOf(i) /\ (i < it \/ (response # NULL /\ i = it))
  /\ GlobIsOwn

LEMMA GlobStep == OneGlob /\ Typed /\ GlobKept /\ [Next]_vars => GlobKept'
<1>. SUFFICES ASSUME OneGlob, Typed, GlobKept, [Next]_vars PROVE GlobKept'
  OBVIOUS
<1>0. /\ Len(Table) \in Nat
      /\ DOMAIN Table = 1 .. Len(Table)
      /\ it \in 1 .. Len(Table) + 1
      /\ NULL \notin Seq(STRING) /\ FREED \notin Seq(STRING) \cup {NULL}
  BY RoutingAssumption DEF Typed
\* A match: of a glob, whose rest is kept if there is one; or not.
<1>1. ASSUME Match, request' = request
      PROVE  /\ it \in DOMAIN Table /\ request # NULL
             /\ path_glob' # FREED
             /\ path_glob' # NULL =>
                  \E i \in DOMAIN Table : GlobOf(i)' /\ (i < it \/ i = it)
             /\ Table[it].glob =>
                  request.path = IF path_glob' = NULL THEN Table[it].path
                                 ELSE Table[it].path \o path_glob'
  <2>1. it \in DOMAIN Table /\ request # NULL /\ request \in Requests /\ For(it)
    BY <1>1, MatchIsFor DEF Typed
  <2>2. CASE ~ Table[it].glob
    <3>1. path_glob' = path_glob
      BY <1>1, <2>2 DEF Match
    <3>. QED
      BY <1>0, <1>1, <2>1, <2>2, <3>1 DEF GlobKept, GlobIsOwn, GlobOf, For, Match, AtRow, Dispatching
  <2>3. CASE Table[it].glob
    <3>1. path_glob = NULL
      <4>. SUFFICES ASSUME path_glob # NULL PROVE FALSE
        OBVIOUS
      <4>1. PICK i \in DOMAIN Table : GlobOf(i) /\ i < it
        BY <1>1 DEF GlobKept, Match, AtRow, Dispatching
      <4>2. request.method \in Methods /\ request.path \in Seq(STRING)
        BY <2>1 DEF Requests
      <4>3. i = it
        BY <2>1, <2>3, <4>1, <4>2 DEF OneGlob, GlobOf, For
      <4>. QED
        BY <1>0, <4>1, <4>3
    <3>2. IsPrefix(Table[it].path, request.path)
      <4>1. Table[it].path # NULL
        BY <2>1, <2>3, RoutingAssumption
      <4>. QED
        BY <1>1, <2>3, <4>1 DEF Match, match_route, Path
    <3>3. Table[it].path \in Seq(STRING) /\ request.path \in Seq(STRING)
      BY <2>1, <2>3, TableRows DEF Requests
    <3>4. /\ Rest(Table[it]) \in Seq(STRING)
          /\ Table[it].path \o Rest(Table[it]) = request.path
          /\ Rest(Table[it]) = <<>> => Table[it].path = request.path
      <4>1. Rest(Table[it]) = SubSeq(request.path, Len(Table[it].path) + 1, Len(request.path))
        BY DEF Rest
      <4>. QED
        BY <3>2, <3>3, <4>1, RestIsRest
    <3>5. path_glob' = IF Rest(Table[it]) # <<>> THEN Rest(Table[it]) ELSE NULL
      BY <1>1, <2>3, <3>1 DEF Match, redhttp_request_set_path_glob
    <3>6. \A i \in DOMAIN Table : path_glob' # NULL /\ i = it => GlobOf(i)'
      BY <1>1, <2>1, <2>3, <3>4, <3>5 DEF GlobOf, For
    <3>. QED
      BY <1>0, <2>1, <3>4, <3>5, <3>6
  <2>. QED
    BY <2>2, <2>3
\* The dispatcher's own answers and its going on leave the glob alone.
<1>2. ASSUME UNCHANGED <<request, path_glob>>, it' \in {it, it + 1}, response = NULL,
             it' = it \/ response' = NULL,
             response' = NULL \/ response'.by = 0
      PROVE  GlobKept'
  <2>1. path_glob # FREED
    BY DEF GlobKept, GlobIsOwn
  <2>2. GlobIsOwn'
    BY <1>2, <2>1 DEF GlobIsOwn
  <2>3. ASSUME path_glob' # NULL
        PROVE  request' # NULL /\ \E i \in DOMAIN Table : GlobOf(i)' /\ i < it'
    <3>1. PICK i \in DOMAIN Table : GlobOf(i) /\ i < it
      BY <1>2, <2>3 DEF GlobKept
    <3>2. GlobOf(i)' /\ i < it'
      BY <1>0, <1>2, <3>1 DEF GlobOf, For
    <3>. QED
      BY <1>2, <2>3, <3>2 DEF GlobKept
  <2>. QED
    BY <2>2, <2>3 DEF GlobKept
<1>3. ASSUME path_glob' = NULL, response' = NULL PROVE GlobKept'
  BY <1>0, <1>3 DEF GlobKept, GlobIsOwn
<1>4. ASSUME NEW method \in Methods, NEW path \in Paths, redhttp_request_read(method, path)
      PROVE  GlobKept'
  BY <1>3, <1>4 DEF redhttp_request_read
<1>5. CASE dispatch_server
  <2>1. response'.by = 0
    BY <1>5 DEF dispatch_server, check_allowed_responses, Answer
  <2>. QED
    BY <1>0, <1>2, <1>5, <2>1 DEF dispatch_server, Dispatching
<1>6. CASE no_match
  BY <1>0, <1>2, <1>6 DEF no_match, NextRow, AtRow, Dispatching
<1>7. CASE handler_declines
  <2>1. Match /\ request' = request /\ it' = it + 1 /\ response' = NULL
    BY <1>7 DEF handler_declines, NextRow, Match, AtRow, Dispatching
  <2>2. path_glob' # FREED /\ request' # NULL
    BY <1>1, <2>1
  <2>3. GlobIsOwn'
    BY <2>1, <2>2 DEF GlobIsOwn
  <2>4. ASSUME path_glob' # NULL PROVE \E i \in DOMAIN Table : GlobOf(i)' /\ i < it'
    <3>1. PICK i \in DOMAIN Table : GlobOf(i)' /\ (i < it \/ i = it)
      BY <1>1, <2>1, <2>4
    <3>2. i < it'
      BY <1>0, <2>1, <3>1
    <3>. QED
      BY <3>1, <3>2
  <2>. QED
    BY <2>2, <2>3, <2>4 DEF GlobKept
<1>8. ASSUME Match, response' # NULL, response'.by = it, UNCHANGED <<request, it>>
      PROVE  GlobKept'
  <2>1. path_glob' # FREED /\ request' # NULL
    BY <1>1, <1>8
  <2>2. GlobIsOwn'
    BY <1>1, <1>8, <2>1 DEF GlobIsOwn
  <2>3. ASSUME path_glob' # NULL
        PROVE  \E i \in DOMAIN Table : GlobOf(i)' /\ (i < it' \/ (response' # NULL /\ i = it'))
    <3>1. PICK i \in DOMAIN Table : GlobOf(i)' /\ (i < it \/ i = it)
      BY <1>1, <1>8, <2>3
    <3>. QED
      BY <1>8, <3>1
  <2>. QED
    BY <2>1, <2>2, <2>3 DEF GlobKept
<1>9. CASE handler_answers \/ remove_trailing_slash
  <2>1. response' # NULL /\ response'.by = it
    BY <1>9, HandlerAnswers, RoutingAssumption
  <2>. QED
    BY <1>8, <1>9, <2>1 DEF handler_answers, remove_trailing_slash
<1>11. CASE answer_head
  BY <1>0, <1>2, <1>11 DEF answer_head, Answer, AtEnd, Dispatching
<1>12. CASE answer_allowed
  <2>1. response'.by = 0
    BY <1>12 DEF answer_allowed, check_allowed_responses, Answer
  <2>. QED
    BY <1>0, <1>2, <1>12, <2>1 DEF answer_allowed, AtEnd, Dispatching
<1>13. CASE answer_not_found
  BY <1>0, <1>2, <1>13 DEF answer_not_found, Answer, AtEnd, Dispatching
<1>14. CASE redhttp_request_free
  BY <1>3, <1>14 DEF redhttp_request_free
<1>15. CASE follow
  BY <1>3, <1>15 DEF follow
<1>16. CASE UNCHANGED vars
  BY <1>16 DEF vars, GlobKept, GlobIsOwn, GlobOf, For
<1>. QED
  BY <1>4, <1>5, <1>6, <1>7, <1>9, <1>11, <1>12, <1>13, <1>14, <1>15, <1>16
     DEF Next, Dispatch

\* Whatever the table, if its globs are apart, a handler finds the rest of its
\* own path in path_glob and nobody a freed one.
THEOREM GlobsAreOwn ==
  ASSUME GlobsApart
  PROVE  Spec => []GlobIsOwn
<1>1. Init => Typed /\ GlobKept
  BY TypedInit, RoutingAssumption DEF Init, GlobKept, GlobIsOwn
<1>2. Typed /\ GlobKept /\ [Next]_vars => (Typed /\ GlobKept)'
  BY TypedStep, GlobStep, ApartIsOne
<1>3. GlobKept => GlobIsOwn
  BY DEF GlobKept
<1>. QED
  BY <1>1, <1>2, <1>3, PTL DEF Spec
-----------------------------------------------------------------------------
(* What is answered                                                        *)

\* A row named for the whole of a path is meant for it.
LEMMA ExactlyIsOffered ==
  ASSUME NEW i \in DOMAIN Table, NEW path \in Seq(STRING), Exactly(Table[i], path)
  PROVE  Offered(Table[i], Table[i].method, path)
<1>. DEFINE row == Table[i]
<1>1. /\ row.path \in Seq(STRING) \cup {NULL} /\ row.glob \in BOOLEAN
      /\ row.glob => row.path \in Seq(STRING)
  BY TableRows DEF Rows
<1>2. IF row.glob THEN row.path \o Star = path ELSE row.path = path
  BY DEF Exactly
<1>. HIDE DEF row
<1>3. CASE ~ row.glob
  <2>1. row.path = path
    BY <1>2, <1>3
  <2>. QED
    BY <2>1 DEF Offered, row
<1>4. CASE row.glob
  <2>1. PICK s \in Seq(STRING) : s = row.path /\ s \o Star = path
    BY <1>1, <1>2, <1>4
  <2>2. Star = <<Star[1]>> /\ Len(Star) = 1
    BY DEF Star
  <2>3. Len(s) \in Nat /\ Len(path) = Len(s) + 1 /\ \A k \in 1 .. Len(s) : path[k] = s[k]
    <3>1. PICK S : S = STRING \cup {Star[1]}
      OBVIOUS
    <3>2. s \in Seq(S) /\ Star[1] \in S
      BY <3>1
    <3>3. path = Append(s, Star[1])
      BY <2>1, <2>2, <3>2, AppendIsConcat
    <3>. QED
      BY <3>2, <3>3, AppendProperties
  <2>4. SubSeq(path, 1, Len(s)) = s
    <3>1. /\ SubSeq(path, 1, Len(s)) \in Seq(STRING)
          /\ Len(SubSeq(path, 1, Len(s))) = Len(s)
          /\ \A k \in 1 .. Len(s) : SubSeq(path, 1, Len(s))[k] = path[k]
      BY <2>3
    <3>. QED
      BY <2>3, <3>1, SeqEqual
  <2>5. \E n \in 0 .. Len(path) : SubSeq(path, 1, n) = row.path
    BY <2>1, <2>3, <2>4
  <2>. QED
    BY <1>4, <2>5 DEF Offered, row
<1>. QED
  BY <1>1, <1>3, <1>4

\* What the dispatcher answers itself is made of the rows for the path, and a
\* handler's answer is not made by one that passes.
Given ==
  response # NULL =>
    /\ response.by # 0 => Table[response.by].func # "passes" /\ response.allow = {}
    /\ response.by = 0 /\ request.path # Star =>
         response.allow \subseteq WithHead(Allowed(request.path))

LEMMA GivenStep == Typed /\ Given /\ [Next]_vars => Given'
<1>. SUFFICES ASSUME Typed, Given, [Next]_vars PROVE Given'
  OBVIOUS
<1>1. ASSUME response' = NULL PROVE Given'
  BY <1>1 DEF Given
<1>2. CASE dispatch_server
  <2>1. request'.path = Star /\ response'.by = 0
    BY <1>2 DEF dispatch_server, check_allowed_responses, Answer
  <2>. QED
    BY <2>1 DEF Given
<1>3. CASE handler_answers \/ remove_trailing_slash
  <2>1. it \in 1 .. Len(Table) /\ response'.by = it /\ response'.allow = {} /\ Table[it].func # "passes"
    <3>1. it \in 1 .. Len(Table)
      BY <1>3, MatchTyped DEF handler_answers, remove_trailing_slash
    <3>2. PICK n, code, location : n = it /\ response' = Answer(n, code, {}, TRUE, location)
      BY <1>3, ZenonT(40) DEF handler_answers, remove_trailing_slash
    <3>3. response'.by = it /\ response'.allow = {}
      BY <3>2 DEF Answer
    <3>4. Table[it].func # "passes"
      BY <1>3 DEF handler_answers, remove_trailing_slash
    <3>. QED
      BY <3>1, <3>3, <3>4
  <2>. QED
    BY <2>1 DEF Given
<1>4. CASE answer_head
  <2>1. response'.by = 0 /\ response'.allow = {}
    BY <1>4 DEF answer_head, Answer
  <2>. QED
    BY <2>1 DEF Given, Answer
<1>5. CASE answer_allowed
  <2>1. request' = request
    BY <1>5 DEF answer_allowed
  <2>2. PICK code : response' = Answer(0, code, WithHead(Allowed(request.path)), code # 200, NULL)
    BY <1>5 DEF answer_allowed, check_allowed_responses
  <2>3. response'.by = 0 /\ response'.allow = WithHead(Allowed(request.path))
    BY <2>2 DEF Answer
  <2>. QED
    BY <2>1, <2>3 DEF Given
<1>6. CASE answer_not_found
  <2>1. response'.by = 0 /\ response'.allow = {}
    BY <1>6 DEF answer_not_found, Answer
  <2>. QED
    BY <2>1 DEF Given
<1>7. CASE no_match \/ handler_declines
  BY <1>1, <1>7 DEF no_match, handler_declines, Match, AtRow, Dispatching
<1>8. CASE redhttp_request_free \/ follow
  BY <1>1, <1>8 DEF redhttp_request_free, follow
<1>9. ASSUME NEW method \in Methods, NEW path \in Paths, redhttp_request_read(method, path)
      PROVE  Given'
  BY <1>1, <1>9 DEF redhttp_request_read
<1>10. CASE UNCHANGED vars
  BY <1>10 DEF vars, Given
<1>. QED
  BY <1>2, <1>3, <1>4, <1>5, <1>6, <1>7, <1>8, <1>9, <1>10 DEF Next, Dispatch

LEMMA AllGiven == Spec => [](Typed /\ AskedInOrder /\ Given)
<1>1. Init => Typed /\ AskedInOrder /\ Given
  BY TypedInit DEF Init, AskedInOrder, Given
<1>. QED
  BY <1>1, TypedStep, AskedStep, GivenStep, PTL DEF Spec

\* If the handlers that count, log and reset stand first in the table and take
\* every request, they have run before anybody answers (redstore.c:226-228).
THEOREM BooksAreFirst ==
  ASSUME PassesFirst
  PROVE  Spec => []BooksFirst
<1>1. Typed /\ AskedInOrder /\ Given => BooksFirst
  <2>. SUFFICES ASSUME Typed, AskedInOrder, Given, response # NULL, request.path # Star,
                       NEW i \in DOMAIN Table, Table[i].func = "passes"
                PROVE  i \in declined
    BY DEF BooksFirst
  <2>1. DOMAIN Table = 1 .. Len(Table) /\ Len(Table) \in Nat
    BY RoutingAssumption
  <2>2. For(i)
    BY DEF PassesFirst, For, Offered
  <2>3. i < it
    BY <2>1 DEF Typed, AskedInOrder, Given, PassesFirst
  <2>. QED
    BY <2>2, <2>3 DEF Typed, AskedInOrder
<1>. QED
  BY <1>1, AllGiven, PTL

\* For any table every method of an Allow header has a row of its own that takes
\* the path (redhttp/server.c:307-357).
THEOREM AllowIsAlwaysTrue == Spec => []AllowIsTrue
<1>1. Typed /\ Given => AllowIsTrue
  <2>. SUFFICES ASSUME Typed, Given, response # NULL, request.path # Star,
                       NEW m \in response.allow \ {"OPTIONS"}
                PROVE  \E row \in Range(Table) :
                         /\ row.method \in {m} \cup IF m = "HEAD" THEN {"GET"} ELSE {}
                         /\ Offered(row, row.method, request.path)
    BY DEF AllowIsTrue
  <2>1. request.path \in Seq(STRING)
    BY DEF Typed, Requests
  <2>2. m \in WithHead(Allowed(request.path)) \ {"OPTIONS"}
    BY DEF Given
  <2>3. PICK n \in MethodsOf(request.path) : n = m \/ (m = "HEAD" /\ n = "GET")
    BY <2>2 DEF WithHead, Allowed
  <2>4. PICK i \in DOMAIN Table : Exactly(Table[i], request.path) /\ Table[i].method = n /\ n # NULL
    <3>1. request.path # NULL
      BY <2>1, RoutingAssumption
    <3>. QED
      BY <2>3, <3>1 DEF MethodsOf, Range
  <2>5. Offered(Table[i], n, request.path)
    BY <2>1, <2>4, ExactlyIsOffered
  <2>6. Table[i] \in Range(Table) /\ Table[i].method = n
    BY <2>4 DEF Range
  <2>. QED
    BY <2>3, <2>5, <2>6
<1>. QED
  BY <1>1, AllGiven, PTL

-----------------------------------------------------------------------------
(* RedStore's table                                                        *)

RedStore == INSTANCE RouteTable

\* The first three rows only pass, for every request; the others do not.
BooksThenOthers(rows) ==
  /\ Len(rows) >= 3
  /\ \A k \in 1 .. Len(rows) : IF k <= 3 THEN /\ rows[k].func = "passes"
                                             /\ rows[k].method = NULL /\ rows[k].path = NULL
                               ELSE rows[k].func # "passes"

Others(rows) == \A k \in 1 .. Len(rows) : rows[k].func # "passes"

LEMMA BooksPass == BooksThenOthers(RedStore!Books)
BY DEF RedStore!Books, RedStore!Row, BooksThenOthers

LEMMA OthersDoNot == Others(RedStore!Handlers) /\ Others(RedStore!Slash) /\ Others(RedStore!NotFound)
<1>1. Others(RedStore!Handlers)
  <2>1. \A k \in 1 .. 22 : RedStore!Handlers[k].func # "passes"
    BY DEF RedStore!Handlers, RedStore!Row, RedStore!Glob, RedStore!Data
  <2>2. Len(RedStore!Handlers) = 22
    BY DEF RedStore!Handlers
  <2>. QED
    BY <2>1, <2>2 DEF Others
<1>2. Others(RedStore!Slash) /\ Others(RedStore!NotFound)
  BY DEF RedStore!Slash, RedStore!NotFound, RedStore!Row, Others
<1>. QED
  BY <1>1, <1>2

LEMMA OthersBehind ==
  ASSUME NEW S, NEW s \in Seq(S), NEW t \in Seq(S), BooksThenOthers(s), Others(t)
  PROVE  s \o t \in Seq(S) /\ BooksThenOthers(s \o t)
<1>1. /\ s \o t \in Seq(S) /\ Len(s) \in Nat /\ Len(t) \in Nat
      /\ Len(s \o t) = Len(s) + Len(t)
      /\ \A k \in 1 .. Len(s) + Len(t) :
           (s \o t)[k] = IF k <= Len(s) THEN s[k] ELSE t[k - Len(s)]
  BY ConcatProperties, LenProperties
<1>2. Len(s) >= 3
  BY DEF BooksThenOthers
<1>3. ASSUME NEW k \in 1 .. Len(s \o t)
      PROVE  IF k <= 3 THEN /\ (s \o t)[k].func = "passes"
                            /\ (s \o t)[k].method = NULL /\ (s \o t)[k].path = NULL
             ELSE (s \o t)[k].func # "passes"
  <2>1. CASE k <= Len(s)
    <3>1. k \in 1 .. Len(s) /\ (s \o t)[k] = s[k]
      BY <1>1, <2>1
    <3>. QED
      BY <3>1 DEF BooksThenOthers
  <2>2. CASE ~ k <= Len(s)
    <3>1. k - Len(s) \in 1 .. Len(t) /\ (s \o t)[k] = t[k - Len(s)] /\ ~ k <= 3
      BY <1>1, <1>2, <2>2
    <3>. QED
      BY <3>1 DEF Others
  <2>. QED
    BY <2>1, <2>2
<1>. QED
  BY <1>1, <1>2, <1>3 DEF BooksThenOthers

LEMMA PartsAreSequences ==
  \E S : {RedStore!Books, RedStore!Handlers, RedStore!Slash, RedStore!NotFound} \subseteq Seq(S)
<1>1. PICK S : S = Range(RedStore!Books) \cup Range(RedStore!Handlers)
                     \cup Range(RedStore!Slash) \cup Range(RedStore!NotFound)
  OBVIOUS
<1>2. RedStore!Books \in Seq(Range(RedStore!Books))
  BY DEF RedStore!Books, Range
<1>3. RedStore!Handlers \in Seq(Range(RedStore!Handlers))
  BY DEF RedStore!Handlers, Range
<1>4. /\ RedStore!Slash \in Seq(Range(RedStore!Slash))
      /\ RedStore!NotFound \in Seq(Range(RedStore!NotFound))
  BY DEF RedStore!Slash, RedStore!NotFound, Range
<1>5. {RedStore!Books, RedStore!Handlers, RedStore!Slash, RedStore!NotFound} \subseteq Seq(S)
  BY <1>1, <1>2, <1>3, <1>4
<1>. QED
  BY <1>5

LEMMA TableInOrder ==
  ASSUME Table = RedStore!RedStoreTable
  PROVE  PassesFirst
<1>1. PICK S : {RedStore!Books, RedStore!Handlers, RedStore!Slash, RedStore!NotFound} \subseteq Seq(S)
  BY PartsAreSequences
<1>2. PICK front : front = RedStore!Books \o RedStore!Handlers
  OBVIOUS
<1>3. front \in Seq(S) /\ BooksThenOthers(front)
  BY <1>1, <1>2, BooksPass, OthersDoNot, OthersBehind
<1>4. PICK most : most = front \o RedStore!Slash
  OBVIOUS
<1>5. most \in Seq(S) /\ BooksThenOthers(most)
  BY <1>1, <1>3, <1>4, OthersDoNot, OthersBehind
<1>6. Table = most \o RedStore!NotFound
  BY <1>2, <1>4 DEF RedStore!RedStoreTable
<1>7. Table \in Seq(S) /\ BooksThenOthers(Table)
  BY <1>1, <1>5, <1>6, OthersDoNot, OthersBehind
<1>8. DOMAIN Table = 1 .. Len(Table)
  BY <1>7
<1>. QED
  BY <1>7, <1>8 DEF BooksThenOthers, PassesFirst

\* In the order in which redstore_setup_http_server adds its rows, the counter,
\* the log line and the reset of the error buffer come before every answer
\* (redstore.c:217-258).
THEOREM RedStoreBooksFirst ==
  ASSUME Table = RedStore!RedStoreTable
  PROVE  Spec => []BooksFirst
BY TableInOrder, BooksAreFirst
=============================================================================
