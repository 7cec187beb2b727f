--------------------------- MODULE FormatsProofs ---------------------------
(***************************************************************************)
(* Theorems about Formats, for any formats and requests.                   *)
(***************************************************************************)
EXTENDS Formats, NegotiateProofs

-----------------------------------------------------------------------------
(* The negotiation is that of Negotiation                                  *)

Negotiators == {"index", "page", "describe", "graph", "bindings"}

RequestKnown == at # "idle" => request \in Requests

Base == Inv /\ RequestKnown

LEMMA MenuOfPlace ==
  ASSUME at \in Negotiators
  PROVE  MenuAt \in Menus /\ MenuAt \in {PageTypes, GraphFormats, ResultsFormats}
  BY FormatsAssumption DEF Negotiators, MenuAt

LEMMA AcceptIsHeader ==
  ASSUME request \in Requests, HasAccept
  PROVE  request.accept \in Headers
<1>1. request.accept \in {r.accept : r \in Requests}
  OBVIOUS
<1>. QED
  BY <1>1, FormatsAssumption DEF HasAccept

\* A handler leaves the negotiation alone, or does one of its steps.
LEMMA NextNegotiates ==
  ASSUME RequestKnown, [Next]_vars
  PROVE  Calls \/ NegotiateStep \/ return \/ UNCHANGED negotiate_vars
<1>1. CASE negotiate_by_accept
  <2>1. request \in Requests /\ at \in Negotiators /\ HasAccept
    BY <1>1 DEF negotiate_by_accept, Asking, RequestKnown, Negotiators
  <2>2. request.accept \in Headers /\ MenuAt \in Menus
    BY <2>1, AcceptIsHeader, MenuOfPlace
  <2>3. PICK l \in {"choose", "format"} : call(request.accept, MenuAt, l)
    BY <1>1 DEF negotiate_by_accept
  <2>. QED
    BY <2>2, <2>3 DEF Calls
<1>2. CASE redhttp_server_dispatch_request
  BY <1>2 DEF redhttp_server_dispatch_request, begin
<1>3. CASE Handler /\ ~ negotiate_by_accept
  BY <1>3 DEF Handler, negotiate_by_name, negotiate_returns, handle_graph_index,
              handle_description_get, format_result, page_is_made, redhttp_response_send
<1>4. CASE UNCHANGED vars
  BY <1>4 DEF vars
<1>. QED
  BY <1>1, <1>2, <1>3, <1>4 DEF Next

LEMMA RequestStep ==
  ASSUME RequestKnown, [Next]_vars
  PROVE  RequestKnown'
<1>1. CASE redhttp_server_dispatch_request
  BY <1>1 DEF redhttp_server_dispatch_request, begin, RequestKnown
<1>2. CASE redhttp_response_send
  BY <1>2 DEF redhttp_response_send, RequestKnown
<1>3. CASE Handler /\ ~ redhttp_response_send
  <2>1. request' = request /\ (at = "idle" => at' = "idle")
    BY <1>3 DEF Handler, negotiate_by_name, negotiate_by_accept, negotiate_returns, handle_graph_index,
                handle_description_get, format_result, page_is_made, handler_vars
  <2>. QED
    BY <2>1 DEF RequestKnown
<1>4. CASE UNCHANGED vars
  BY <1>4 DEF vars, handler_vars, RequestKnown
<1>. QED
  BY <1>1, <1>2, <1>3, <1>4 DEF Next

LEMMA BaseInit == Init => Base /\ Abstract!Init
  BY StartsIdle DEF Init, Base, RequestKnown

LEMMA BaseStep == Base /\ [Next]_vars => Base' /\ [Abstract!Next]_(Abstract!vars)
  BY NextNegotiates, RequestStep, StepIsAbstract DEF Base

\* The linked list of negotiate.c, its sort and the two loops do what
\* Negotiation says, whatever the headers, the menus and the order of the
\* requests (negotiate.c:44-242, utils.c:118-146).
THEOREM ListIsAbstract == Spec => ImplementsNegotiation
BY BaseInit, BaseStep, PTL DEF Spec, ImplementsNegotiation, Abstract!Spec

\* The two instances of Negotiation are the same.
LEMMA SameInstance ==
  /\ Abstract!Init <=> N!Init
  /\ [Abstract!Next]_(Abstract!vars) <=> [N!Next]_(N!vars)
  /\ Abstract!ChosenIsBest <=> N!ChosenIsBest
<1>2. Abstract!Init <=> N!Init
  BY DEF Abstract!Init, N!Init
<1>3. UNCHANGED Abstract!vars <=> UNCHANGED N!vars
  BY DEF Abstract!vars, N!vars
<1>4. Abstract!call <=> N!call
  BY DEF Abstract!call, N!call
<1>5. Abstract!redhttp_negotiate_add <=> N!redhttp_negotiate_add
  BY DEF Abstract!redhttp_negotiate_add, N!redhttp_negotiate_add, Abstract!choice, N!choice,
         Abstract!Quality, N!Quality, Abstract!InsertAt, N!InsertAt
<1>6. Abstract!assertion_fails <=> N!assertion_fails
  BY DEF Abstract!assertion_fails, N!assertion_fails, Abstract!choice, N!choice
<1>7. Abstract!parse_ends <=> N!parse_ends
  BY DEF Abstract!parse_ends, N!parse_ends, Abstract!choice, N!choice
<1>8. Abstract!improves <=> N!improves
  BY DEF Abstract!improves, N!improves, Abstract!NextOffer, N!NextOffer, Abstract!NextElement,
         N!NextElement, Abstract!Match, N!Match, Abstract!Score, N!Score
<1>9. Abstract!does_not_improve <=> N!does_not_improve
  BY DEF Abstract!does_not_improve, N!does_not_improve, Abstract!NextElement, N!NextElement,
         Abstract!Match, N!Match, Abstract!Score, N!Score
<1>10. Abstract!next_offer <=> N!next_offer
  BY DEF Abstract!next_offer, N!next_offer, Abstract!NextOffer, N!NextOffer
<1>11. Abstract!choose_ends <=> N!choose_ends
  BY DEF Abstract!choose_ends, N!choose_ends, Abstract!choice, N!choice
<1>12. Abstract!return <=> N!return
  BY DEF Abstract!return, N!return
<1>13. Abstract!Next <=> N!Next
  BY <1>4, <1>5, <1>6, <1>7, <1>8, <1>9, <1>10, <1>11, <1>12 DEF Abstract!Next, N!Next
<1>14. Abstract!ChosenIsBest <=> N!ChosenIsBest
  BY DEF Abstract!ChosenIsBest, N!ChosenIsBest, Abstract!Match, N!Match, Abstract!Score, N!Score
<1>15. [Abstract!Next]_(Abstract!vars) <=> [N!Next]_(N!vars)
  BY <1>3, <1>13
<1>. QED
  BY <1>2, <1>14, <1>15

\* Whatever the header and the menu, the result is the first offer of the
\* highest score: what Negotiation promises holds of the linked list
\* (negotiate.c:44-69, utils.c:118-146).
THEOREM BestIsChosen == Spec => []ChosenIsBest
<1>1. N!Spec => []N!ChosenIsBest
  BY N!BestIsFound, NegotiationAssumption, SameTypes
<1>2. Spec => N!Spec
  BY BaseInit, BaseStep, SameInstance, PTL DEF Spec, N!Spec
<1>. QED
  BY <1>1, <1>2, SameInstance, PTL DEF ChosenIsBest
-----------------------------------------------------------------------------
(* What is answered                                                        *)

\* The types of the elements that have been read.
Read == {nodes[k].type : k \in DOMAIN nodes}
Unread == {rest[k].type : k \in DOMAIN rest}

AcceptIsRead ==
  pc # "idle" =>
    /\ at \in Negotiators /\ ~ ready /\ ByAccept /\ menu = MenuAt
    /\ Read \cup Unread = Asked
    /\ pc \in {"choose", "done"} => rest = <<>>
    /\ pc = "aborted" => NULL \in Unread

\* The client accepts nothing on the menu m.
NoneOn(m) == Asked \cap ({Wildcard} \cup TypesOn(m)) = {}

Wanted == IF request.format # NULL THEN request.format ELSE DefaultAt

Decided ==
  ready /\ at \in Negotiators =>
    IF ByAccept
    THEN IF chosen = NULL THEN NoneOn(MenuAt)
         ELSE \E o \in Range(MenuAt) :
                chosen = [desc |-> o.desc, type |-> o.type] /\ Asked \cap {Wildcard, o.type} # {}
    ELSE chosen = redstore_get_format_by_name(Wanted)

\* The first negotiation of a description has found a format.
Agreed ==
  \E o \in Range(GraphFormats) :
    IF ByAccept THEN Asked \cap {Wildcard, o.type} # {}
    ELSE request.format # NULL => o.desc = request.format

\* An error page says 406 if a negotiation has found nothing.
Refused ==
  /\ IF request.op = "graphs" THEN ~ ByAccept
     ELSE /\ request.op \in {"data", "query", "sparql"}
          /\ ByAccept => NoneOn(GraphFormats) \/ NoneOn(ResultsFormats)
  /\ request.format # NULL => \E pairs \in PairsFor(request) : Unnamed(pairs)

Underway ==
  /\ at = "index" => request.op = "graphs"
  /\ at = "describe" => Describes(request)
  /\ at = "graph" => IF Describes(request) THEN Agreed ELSE request.op \in {"data", "query", "sparql"}
  /\ at = "bindings" => request.op \in {"query", "sparql"} /\ request.query
  /\ at = "page" =>
       /\ code # 200 /\ (code = 406 => Refused)
       /\ Describes(request) => code \in {404, 500}

CrashIsByAccept ==
  at = "crashed" => ByAccept /\ Asked \cap ({Wildcard} \cup TypesOn(PageTypes)) = {}

Answered == AcceptIsHonoured /\ ArgumentGoesFirst /\ DescriptionIsNotRefused /\ CrashIsByAccept

Shown == TypeOK /\ AcceptIsRead /\ Decided /\ Underway /\ Answered

LEMMA UnreadTail ==
  ASSUME rest \in Seq(Written), rest # <<>>
  PROVE  /\ Head(rest).type \in Unread
         /\ Unread = {Head(rest).type} \cup {Tail(rest)[k].type : k \in DOMAIN Tail(rest)}
<1>. DEFINE t == Tail(rest)
<1>1. /\ rest[1] = Head(rest) /\ t \in Seq(Written) /\ Len(t) = Len(rest) - 1
      /\ Len(rest) \in Nat /\ Len(rest) > 0
      /\ \A k \in 1 .. Len(t) : t[k] = rest[k + 1]
  BY HeadTailProperties
<1>. HIDE DEF t
<1>2. DOMAIN rest = 1 .. Len(rest) /\ DOMAIN t = 1 .. Len(t)
  BY <1>1, LenProperties
<1>3. ASSUME NEW k \in DOMAIN rest
      PROVE  rest[k].type = Head(rest).type \/ \E j \in DOMAIN t : rest[k].type = t[j].type
  <2>1. CASE k = 1
    BY <1>1, <2>1
  <2>2. CASE k # 1
    <3>1. k - 1 \in DOMAIN t /\ (k - 1) + 1 = k
      BY <1>1, <1>2, <2>2
    <3>. QED
      BY <1>1, <1>2, <3>1
  <2>. QED
    BY <2>1, <2>2
<1>4. ASSUME NEW j \in DOMAIN t PROVE j + 1 \in DOMAIN rest /\ t[j] = rest[j + 1]
  BY <1>1, <1>2
<1>5. 1 \in DOMAIN rest
  BY <1>1, <1>2
<1>6. Head(rest).type \in Unread
  BY <1>1, <1>5 DEF Unread
<1>7. {t[j].type : j \in DOMAIN t} \subseteq Unread
  BY <1>4 DEF Unread
<1>8. ASSUME NEW v \in Unread
      PROVE  v \in {Head(rest).type} \cup {t[j].type : j \in DOMAIN t}
  <2>1. PICK k \in DOMAIN rest : v = rest[k].type
    BY DEF Unread
  <2>. QED
    BY <1>3, <2>1
<1>. QED
  BY <1>6, <1>7, <1>8 DEF t

\* The steps of a negotiation lose no element of the header.
LEMMA ReadStep ==
  ASSUME Inv, NegotiateStep
  PROVE  /\ (Read \cup Unread)' = Read \cup Unread
         /\ UNCHANGED menu /\ pc # "idle" /\ pc' # "idle"
         /\ (pc \in {"choose", "done"} => rest = <<>>) /\ pc' \in {"choose", "done"} => rest' = <<>>
         /\ pc' = "aborted" => NULL \in Unread'
<1>0. rest \in Seq(Written) /\ nodes \in Seq(Elements)
  BY DEF Inv, NegotiateTypeOK
<1>1. CASE redhttp_negotiate_add
  <2>1. rest # <<>> /\ rest' = rest /\ pc = "parse" /\ pc' = "sort" /\ menu' = menu
    BY <1>1 DEF redhttp_negotiate_add, choice
  <2>2. PICK y : y = [type |-> Head(rest).type, q |-> Quality(Head(rest))]
    OBVIOUS
  <2>3. nodes' = Append(nodes, y) /\ y.type = Head(rest).type
    BY <1>1, <2>2 DEF redhttp_negotiate_add
  <2>4. Read' = Read \cup {y.type}
    BY <1>0, <2>3 DEF Read
  <2>5. y.type \in Unread /\ Unread' = Unread
    BY <1>0, <2>1, <2>3, UnreadTail DEF Unread
  <2>. QED
    BY <2>1, <2>4, <2>5
<1>2. CASE sort_ends
  <2>1. /\ rest' = Tail(rest) /\ nodes' = nodes /\ pc = "sort" /\ pc' = "parse" /\ menu' = menu
        /\ Sorting
    BY <1>2 DEF sort_ends, choice, list_vars, Sorting
  <2>2. rest # <<>> /\ Size \in DOMAIN nodes /\ nodes[Size].type = Head(rest).type
    BY <1>0, <2>1 DEF Inv, AddsHead, Size
  <2>3. Head(rest).type \in Read /\ Read' = Read
    BY <2>1, <2>2 DEF Read
  <2>4. Unread = {Head(rest).type} \cup Unread'
    BY <1>0, <2>1, <2>2, UnreadTail DEF Unread
  <2>. QED
    BY <2>1, <2>3, <2>4
<1>3. CASE ~ redhttp_negotiate_add /\ ~ sort_ends
  <2>1. /\ UNCHANGED <<nodes, rest, menu>> /\ pc # "idle" /\ pc' # "idle"
        /\ (pc \in {"choose", "done"} => rest = <<>>) /\ pc' \in {"choose", "done"} => rest = <<>>
    BY <1>3 DEF NegotiateStep, sort_pass, sort_swap, sort_advance, pass_ends, assertion_fails,
                parse_ends, improves, does_not_improve, next_offer, choose_ends, Comparing,
                choice, list_vars
  <2>2. Unread' = Unread /\ Read' = Read
    BY <2>1 DEF Read, Unread
  <2>3. CASE assertion_fails
    <3>1. rest # <<>> /\ Head(rest).type = NULL
      BY <2>3 DEF assertion_fails
    <3>. QED
      BY <1>0, <2>1, <2>2, <3>1, UnreadTail
  <2>4. CASE ~ assertion_fails
    <3>1. pc' # "aborted"
      BY <1>3, <2>4 DEF NegotiateStep, sort_pass, sort_swap, sort_advance, pass_ends,
                parse_ends, improves, does_not_improve, next_offer, choose_ends, Comparing, choice
    <3>. QED
      BY <2>1, <2>2, <3>1
  <2>. QED
    BY <2>3, <2>4
<1>. QED
  BY <1>1, <1>2, <1>3

LEMMA MenuEntries ==
  ASSUME NEW m \in Menus
  PROVE  /\ m \in Seq(Offers) /\ DOMAIN m = 1 .. Len(m)
         /\ \A o \in Range(m) : o \in Offers /\ o.type \in Types /\ o.desc \in Names
         /\ \A k \in DOMAIN m : m[k] \in Range(m)
<1>1. m \in Seq(Offers) /\ DOMAIN m = 1 .. Len(m)
  BY NegotiationAssumption
<1>2. ASSUME NEW o \in Range(m) PROVE o \in Offers /\ o.type \in Types /\ o.desc \in Names
  <2>1. PICK k \in DOMAIN m : o = m[k]
    BY DEF Range
  <2>2. o \in Offers
    BY <1>1, <2>1
  <2>. QED
    BY <2>2 DEF Offers
<1>. QED
  BY <1>1, <1>2 DEF Range

LEMMA MenusAreNotEmpty ==
  /\ \E o \in Range(PageTypes) : TRUE
  /\ \E o \in Range(GraphFormats) : TRUE
  /\ \E o \in Range(ResultsFormats) : TRUE
<1>1. PageTypes[1] \in Range(PageTypes)
  BY DEF PageTypes, Range
<1>. QED
  BY <1>1, FormatsAssumption

\* The result of the choice in terms of what the client has sent.
LEMMA BestOfAsked ==
  ASSUME Inv, ChosenIsBest, AcceptIsRead, pc = "done"
  PROVE  IF best = NULL THEN NoneOn(MenuAt)
         ELSE best \in Range(MenuAt) /\ Asked \cap {Wildcard, best.type} # {}
<1>1. PICK l : Holds(l)
  BY DEF Inv
<1>2. /\ Arrangement(l) /\ Linked(l) /\ Size \in Nat /\ nodes \in [Places -> Elements]
  BY <1>1, Sizes DEF Inv, Holds
<1>3. /\ at \in Negotiators /\ menu = MenuAt /\ Read = Asked
  <2>1. rest = <<>>
    BY DEF AcceptIsRead
  <2>2. Unread = {}
    BY <2>1 DEF Unread
  <2>. QED
    BY <2>2 DEF AcceptIsRead
<1>4. /\ menu \in Menus /\ \E o \in Range(menu) : TRUE
  BY <1>3, MenuOfPlace, MenusAreNotEmpty
<1>5. DOMAIN menu = 1 .. Len(menu) /\ \A k \in DOMAIN menu : menu[k] \in Offers
  BY <1>4, MenuEntries
<1>6. DOMAIN list = 1 .. Len(list) /\ Len(list) = Size /\ \A k \in Places : list[k] = nodes[l[k]]
  <2>1. list = [k \in Places |-> nodes[l[k]]]
    BY <1>2, ListFound DEF Listed, Sorting
  <2>. QED
    BY <1>2, <2>1 DEF Places
<1>7. \A v : v \in Asked <=> \E j \in 1 .. Len(list) : v = list[j].type
  <2>1. DOMAIN nodes = Places
    BY <1>2
  <2>2. ASSUME NEW k \in Places PROVE \E j \in Places : nodes[k] = list[j]
    BY <1>2, <1>6 DEF Arrangement
  <2>3. ASSUME NEW j \in Places PROVE \E k \in Places : nodes[k] = list[j]
    BY <1>2, <1>6 DEF Arrangement
  <2>4. Places = 1 .. Len(list)
    BY <1>6 DEF Places
  <2>5. ASSUME NEW v \in Asked PROVE \E j \in 1 .. Len(list) : v = list[j].type
    <3>1. PICK k \in Places : v = nodes[k].type
      BY <1>3, <2>1 DEF Read
    <3>2. PICK j \in Places : nodes[k] = list[j]
      BY <2>2
    <3>. QED
      BY <2>4, <3>1, <3>2
  <2>6. ASSUME NEW j \in 1 .. Len(list) PROVE list[j].type \in Asked
    <3>1. PICK k \in Places : nodes[k] = list[j]
      BY <2>3, <2>4
    <3>. QED
      BY <1>3, <2>1, <3>1 DEF Read
  <2>. QED
    BY <2>5, <2>6
<1>8. CASE best = NULL
  <2>1. \A n \in 1 .. Len(menu), j \in 1 .. Len(list) : list[j].type \notin {Wildcard, menu[n].type}
    BY <1>8 DEF ChosenIsBest, Abstract!ChosenIsBest, Abstract!Match, phase, Sorting
  <2>2. ASSUME NEW v \in Asked, v \in {Wildcard} \cup TypesOn(menu) PROVE FALSE
    <3>1. PICK j \in 1 .. Len(list) : v = list[j].type
      BY <1>7
    <3>2. \E n \in 1 .. Len(menu) : v \in {Wildcard, menu[n].type}
      <4>1. CASE v = Wildcard
        BY <1>4, <1>5, <4>1 DEF Range
      <4>2. CASE v \in TypesOn(menu)
        BY <1>5, <4>2 DEF TypesOn
      <4>. QED
        BY <2>2, <4>1, <4>2
    <3>. QED
      BY <2>1, <3>1, <3>2
  <2>. QED
    BY <1>3, <1>8, <2>2 DEF NoneOn
<1>9. CASE best # NULL
  <2>1. PICK n \in 1 .. Len(menu), j \in 1 .. Len(list) :
          best = menu[n] /\ list[j].type \in {Wildcard, menu[n].type}
    BY <1>9 DEF ChosenIsBest, Abstract!ChosenIsBest, Abstract!Match, phase, Sorting
  <2>2. list[j].type \in Asked
    BY <1>7
  <2>3. best \in Range(menu)
    BY <1>5, <2>1 DEF Range
  <2>. QED
    BY <1>3, <1>9, <2>1, <2>2, <2>3
<1>. QED
  BY <1>8, <1>9

\* What a name finds in a list of formats.
LEMMA FoundByName ==
  ASSUME at \in {"describe", "graph", "bindings"}, NEW name
  PROVE  IF \E o \in Range(MenuAt) : o.desc = name
         THEN \E o \in Range(MenuAt) :
                o.desc = name /\ redstore_get_format_by_name(name) = [desc |-> name, type |-> o.type]
         ELSE redstore_get_format_by_name(name) = NULL
<1>. DEFINE found == {k \in DOMAIN MenuAt : MenuAt[k].desc = name}
<1>1. MenuAt \in Menus
  BY MenuOfPlace DEF Negotiators
<1>2. DOMAIN MenuAt = 1 .. Len(MenuAt) /\ \A k \in DOMAIN MenuAt : MenuAt[k] \in Range(MenuAt)
  BY <1>1, MenuEntries
<1>3. redstore_get_format_by_name(name) =
        IF found = {} THEN NULL ELSE [desc |-> name, type |-> MenuAt[Min(found)].type]
  BY DEF redstore_get_format_by_name
<1>4. (\E o \in Range(MenuAt) : o.desc = name) <=> found # {}
  BY <1>2 DEF Range
<1>5. found # {} => Min(found) \in found
  <2>1. found \subseteq Nat
    BY <1>2
  <2>. HIDE DEF found
  <2>. SUFFICES ASSUME found # {} PROVE Min(found) \in found
    OBVIOUS
  <2>2. PICK m \in found : \A k \in found : m <= k
    BY <2>1, LeastNumber
  <2>. QED
    BY <2>2 DEF Min
<1>6. CASE found = {}
  BY <1>3, <1>4, <1>6
<1>7. CASE found # {}
  <2>1. Min(found) \in DOMAIN MenuAt /\ MenuAt[Min(found)].desc = name
    BY <1>5, <1>7
  <2>2. MenuAt[Min(found)] \in Range(MenuAt)
    BY <1>2, <2>1
  <2>. HIDE DEF found
  <2>. QED
    BY <1>3, <1>4, <1>7, <2>1, <2>2
<1>. QED
  BY <1>6, <1>7
-----------------------------------------------------------------------------
(* One lemma per step                                                      *)

LEMMA Pages ==
  /\ {"text/plain", "text/html"} \subseteq Types \cap Names
  /\ TypesOn(PageTypes) = {"text/plain", "text/html", "application/xhtml+xml"}
  /\ \A o \in Range(PageTypes) : o.desc = o.type /\ o.type \in TypesOn(PageTypes)
<1>1. /\ DOMAIN PageTypes = {1, 2, 3}
      /\ PageTypes[1].type = "text/plain" /\ PageTypes[1].desc = "text/plain"
      /\ PageTypes[2].type = "text/html" /\ PageTypes[2].desc = "text/html"
      /\ PageTypes[3].type = "application/xhtml+xml" /\ PageTypes[3].desc = "application/xhtml+xml"
  BY DEF PageTypes
<1>2. PageTypes \in Menus
  BY FormatsAssumption
<1>3. /\ PageTypes[1] \in Range(PageTypes) /\ PageTypes[2] \in Range(PageTypes)
  BY <1>1 DEF Range
<1>4. {"text/plain", "text/html"} \subseteq Types \cap Names
  BY <1>1, <1>2, <1>3, MenuEntries
<1>5. \A o \in Range(PageTypes) : \E k \in {1, 2, 3} : o = PageTypes[k]
  BY <1>1 DEF Range
<1>6. TypesOn(PageTypes) = {PageTypes[k].type : k \in {1, 2, 3}}
  BY <1>1 DEF TypesOn
<1>7. TypesOn(PageTypes) = {"text/plain", "text/html", "application/xhtml+xml"}
  BY <1>1, <1>6
<1>. QED
  BY <1>1, <1>4, <1>5, <1>7

LEMMA NotNull ==
  ASSUME NEW d \in STRING \cup Names, NEW t \in STRING \cup Types
  PROVE  [desc |-> d, type |-> t] # NULL
<1>1. [desc |-> d, type |-> t] \in [desc : STRING \cup Names, type : STRING \cup Types]
  OBVIOUS
<1>. QED
  BY <1>1, FormatsAssumption

\* What depends on the request alone.
LEMMA SameRequest ==
  ASSUME request' = request
  PROVE  /\ ByAccept' <=> ByAccept
         /\ Asked' = Asked
         /\ \A m : NoneOn(m)' <=> NoneOn(m)
         /\ Describes(request)' <=> Describes(request)
         /\ Agreed' <=> Agreed
         /\ Refused' <=> Refused
         /\ PairsFor(request)' = PairsFor(request)
         /\ \A pairs : Unnamed(pairs)' <=> Unnamed(pairs)
<1>1. ByAccept' <=> ByAccept
  BY DEF ByAccept, HasAccept
<1>2. Asked' = Asked
  BY DEF Asked
<1>3. \A m : NoneOn(m)' <=> NoneOn(m)
  BY <1>2 DEF NoneOn
<1>4. Describes(request)' <=> Describes(request)
  BY DEF Describes
<1>5. Agreed' <=> Agreed
  BY <1>1, <1>2 DEF Agreed
<1>6. PairsFor(request)' = PairsFor(request)
  BY DEF PairsFor, Pairs, IndexPairs, Describes
<1>7. \A pairs : Unnamed(pairs)' <=> Unnamed(pairs)
  BY DEF Unnamed
<1>8. Refused' <=> Refused
  BY <1>1, <1>3, <1>6, <1>7 DEF Refused
<1>. QED
  BY <1>1, <1>2, <1>3, <1>4, <1>5, <1>6, <1>7, <1>8

\* A handler only acts when the negotiation rests.
LEMMA AtRestThen ==
  ASSUME AcceptIsRead, ready \/ at \notin Negotiators, UNCHANGED negotiate_vars
  PROVE  pc = "idle" /\ AcceptIsRead'
BY DEF AcceptIsRead, negotiate_vars

LEMMA RequestTyped ==
  ASSUME request \in Requests
  PROVE  /\ request \in Request
         /\ request.format # NULL => request.format \in STRING
<1>1. request \in Request
  BY FormatsAssumption
<1>. QED
  BY <1>1 DEF Request

\* At a page, only an Accept header leaves nothing to choose.
LEMMA PageFormat ==
  ASSUME Decided, Base, ready, at \in {"index", "page"}
  PROVE  /\ chosen = NULL => ByAccept /\ NoneOn(PageTypes)
         /\ chosen # NULL /\ request.format # NULL => chosen.desc = request.format
         /\ chosen # NULL /\ ByAccept =>
              /\ chosen.desc \in {"text/plain", "text/html", "application/xhtml+xml"}
              /\ Asked \cap {Wildcard, chosen.desc} # {}
<1>1. MenuAt = PageTypes /\ DefaultAt = "text/plain"
  BY DEF MenuAt, DefaultAt
<1>2. CASE ByAccept
  <2>0. request.format = NULL
    BY <1>2 DEF ByAccept
  <2>1. CASE chosen = NULL
    BY <1>1, <1>2, <2>1 DEF Decided, Negotiators
  <2>2. CASE chosen # NULL
    <3>1. PICK o \in Range(PageTypes) :
            chosen = [desc |-> o.desc, type |-> o.type] /\ Asked \cap {Wildcard, o.type} # {}
      BY <1>1, <1>2, <2>2 DEF Decided, Negotiators
    <3>2. o.desc = o.type /\ o.type \in {"text/plain", "text/html", "application/xhtml+xml"}
      BY Pages
    <3>3. chosen.desc = o.type
      BY <3>1, <3>2
    <3>. QED
      BY <2>0, <2>2, <3>1, <3>2, <3>3
  <2>. QED
    BY <2>0, <2>1, <2>2
<1>3. CASE ~ ByAccept
  <2>0. request \in Requests
    BY DEF Base, RequestKnown
  <2>1. Wanted \in (STRING \cup Names) \cap (STRING \cup Types)
    <3>1. "text/plain" \in Names \cap Types
      BY Pages
    <3>2. request.format # NULL => request.format \in STRING
      BY <2>0, RequestTyped
    <3>. QED
      BY <1>1, <3>1, <3>2 DEF Wanted
  <2>2. chosen = [desc |-> Wanted, type |-> Wanted]
    BY <1>3 DEF Decided, Negotiators, redstore_get_format_by_name
  <2>3. chosen # NULL
    BY <2>1, <2>2, NotNull
  <2>4. request.format # NULL => chosen.desc = request.format
    BY <2>2 DEF Wanted
  <2>. QED
    BY <1>3, <2>3, <2>4
<1>. QED
  BY <1>2, <1>3

\* What a serializer or a formatter is asked for.
LEMMA ResultFormat ==
  ASSUME Decided, Base, ready, at \in {"describe", "graph", "bindings"}
  PROVE  IF chosen = NULL
         THEN IF ByAccept THEN NoneOn(MenuAt) ELSE \A o \in Range(MenuAt) : o.desc # Wanted
         ELSE \E o \in Range(MenuAt) :
                /\ chosen.type = o.type /\ o.type \in Types
                /\ IF ByAccept THEN Asked \cap {Wildcard, o.type} # {} ELSE o.desc = Wanted
<1>1. at \in Negotiators /\ MenuAt \in Menus
  BY MenuOfPlace DEF Negotiators
<1>2. \A o \in Range(MenuAt) : o.type \in Types /\ o.desc \in Names
  BY <1>1, MenuEntries
<1>3. CASE ByAccept
  BY <1>1, <1>2, <1>3 DEF Decided
<1>4. CASE ~ ByAccept
  <2>1. chosen = redstore_get_format_by_name(Wanted)
    BY <1>1, <1>4 DEF Decided
  <2>2. CASE \E o \in Range(MenuAt) : o.desc = Wanted
    <3>1. PICK o \in Range(MenuAt) : o.desc = Wanted /\ chosen = [desc |-> Wanted, type |-> o.type]
      BY <2>1, <2>2, FoundByName
    <3>2. chosen # NULL
      BY <1>2, <3>1, NotNull
    <3>. QED
      BY <1>2, <1>4, <3>1, <3>2
  <2>3. CASE ~ \E o \in Range(MenuAt) : o.desc = Wanted
    BY <1>4, <2>1, <2>3, FoundByName
  <2>. QED
    BY <2>2, <2>3
<1>. QED
  BY <1>3, <1>4
\* The status codes of the handlers.
Codes == {200, 400, 404, 406, 500, 501}

LEMMA PartsOfTypeOK ==
  ASSUME TypeOK
  PROVE  /\ NegotiateTypeOK /\ (request = NULL \/ request \in Request)
         /\ chosen = NULL \/ DOMAIN chosen = {"desc", "type"}
         /\ code \in Codes
         /\ response = NULL \/ (response.code \in Nat /\ response.type \in Types)
         /\ query_count \in 0 .. CountSpace - 1
BY DEF TypeOK, Codes

\* After Enter, only the reason why the function is called is left to show.
LEMMA Entered ==
  ASSUME Shown, Base', ready \/ at \notin Negotiators, UNCHANGED <<negotiate_vars, response>>,
         NEW place \in Negotiators, Enter(place),
         code' \in Codes, query_count' \in 0 .. CountSpace - 1
  PROVE  TypeOK' /\ AcceptIsRead' /\ Decided' /\ Answered'
<1>1. at' = place /\ place # "idle" /\ place # "respond" /\ place # "crashed"
  BY DEF Enter, Negotiators
<1>2. request' \in Requests
  BY <1>1 DEF Base, RequestKnown
<1>3. request' \in Request
  BY <1>2, FormatsAssumption
<1>4. /\ ready' = FALSE /\ chosen' = NULL /\ response' = response
      /\ response = NULL \/ (response.code \in Nat /\ response.type \in Types)
  BY PartsOfTypeOK DEF Shown, Enter
<1>5. at' \in {"idle", "index", "page", "describe", "graph", "bindings", "respond", "crashed"}
  BY <1>1 DEF Negotiators
<1>6. NegotiateTypeOK'
  BY DEF Base, Inv
<1>7. TypeOK'
  BY <1>3, <1>4, <1>5, <1>6, ZenonT(40) DEF TypeOK, Codes
<1>8. AcceptIsRead'
  BY AtRestThen DEF Shown
<1>. QED
  BY <1>1, <1>4, <1>7, <1>8 DEF Decided, Answered, AcceptIsHonoured, ArgumentGoesFirst,
     DescriptionIsNotRefused, CrashIsByAccept

\* After Answer, what is answered is left to show.
LEMMA Responded ==
  ASSUME Shown, Base', ready \/ at \notin Negotiators, UNCHANGED negotiate_vars,
         NEW c_ \in Codes \cup {301}, NEW t \in Types, Answer(c_, t),
         query_count' \in 0 .. CountSpace - 1
  PROVE  /\ TypeOK' /\ AcceptIsRead' /\ Decided' /\ Underway' /\ CrashIsByAccept'
         /\ response'.code = c_ /\ response'.type = t
         /\ (t = "text/html" /\ c_ = 200) => response' = [code |-> 200, type |-> "text/html"]
<1>1. at' = "respond" /\ response' = [code |-> c_, type |-> t]
  BY DEF Answer
<1>2. request' \in Requests
  BY <1>1 DEF Base, RequestKnown
<1>3. request' \in Request
  BY <1>2, FormatsAssumption
<1>4. /\ ready' = FALSE /\ chosen' = NULL /\ code' \in Codes
  BY PartsOfTypeOK DEF Shown, Answer
<1>5. response'.code = c_ /\ response'.type = t /\ c_ \in Nat
  BY <1>1 DEF Codes
<1>6. NegotiateTypeOK'
  BY DEF Base, Inv
<1>7. TypeOK'
  BY <1>1, <1>3, <1>4, <1>5, <1>6, ZenonT(40) DEF TypeOK, Codes
<1>8. AcceptIsRead'
  BY AtRestThen DEF Shown
<1>. QED
  BY <1>1, <1>4, <1>5, <1>7, <1>8 DEF Decided, Underway, CrashIsByAccept

\* The process ends at a page.
LEMMA Crashed ==
  ASSUME Shown, Base, Base', ready, at \in {"index", "page"}, chosen = NULL,
         Crash, UNCHANGED <<negotiate_vars, request, query_count>>
  PROVE  Shown'
<1>1. ByAccept /\ NoneOn(PageTypes)
  BY PageFormat DEF Shown
<1>2. at' = "crashed" /\ UNCHANGED <<ready, chosen, code, response>>
  BY DEF Crash
<1>3. ByAccept' /\ Asked' = Asked
  BY <1>1, SameRequest
<1>4. CrashIsByAccept'
  BY <1>1, <1>3 DEF CrashIsByAccept, NoneOn
<1>5. NegotiateTypeOK'
  BY DEF Base, Inv
<1>6. TypeOK'
  BY <1>2, <1>5 DEF Shown, TypeOK
<1>7. AcceptIsRead'
  BY AtRestThen DEF Shown
<1>. QED
  BY <1>2, <1>4, <1>6, <1>7 DEF Shown, Decided, Underway, Answered, AcceptIsHonoured,
     ArgumentGoesFirst, DescriptionIsNotRefused, Negotiators

LEMMA PageEntered ==
  ASSUME Shown, Base', ready \/ at \notin Negotiators, UNCHANGED negotiate_vars,
         NEW k \in Codes \ {200}, redstore_page_new_with_message(k),
         query_count' \in 0 .. CountSpace - 1,
         k = 406 => Refused', Describes(request)' => k \in {404, 500}
  PROVE  Shown'
<1>1. Enter("page") /\ code' = k /\ k # 200 /\ response' = response
  BY DEF redstore_page_new_with_message
<1>2. TypeOK' /\ AcceptIsRead' /\ Decided' /\ Answered'
  BY <1>1, Entered DEF Negotiators
<1>3. Underway'
  BY <1>1 DEF Underway, Enter
<1>. QED
  BY <1>2, <1>3 DEF Shown

LEMMA IndexShown ==
  ASSUME Shown, Base, Base', handle_graph_index
  PROVE  Shown'
<1>1. /\ at = "index" /\ ready /\ UNCHANGED <<negotiate_vars, request, query_count>>
      /\ request.op = "graphs" /\ query_count' \in 0 .. CountSpace - 1
  BY PartsOfTypeOK DEF handle_graph_index, Shown, Underway
<1>2. ASSUME NEW k \in Codes \ {200}, redstore_page_new_with_message(k),
             k = 406 => ~ ByAccept /\ (request.format # NULL => Unnamed(IndexPairs))
      PROVE  Shown'
  <2>1. PairsFor(request) = {IndexPairs}
    BY <1>1 DEF PairsFor
  <2>2. k = 406 => Refused
    BY <1>1, <1>2, <2>1 DEF Refused
  <2>3. (k = 406 => Refused') /\ ~ Describes(request)'
    BY <1>1, <2>2, SameRequest DEF Describes
  <2>. QED
    BY <1>1, <1>2, <2>3, PageEntered
<1>3. CASE redstore_page_new_with_message(500)
  BY <1>2, <1>3 DEF Codes
<1>4. CASE chosen = NULL /\ Crash
  BY <1>1, <1>4, Crashed
<1>5. CASE chosen # NULL
  <2>1. ByAccept => /\ chosen.desc \in {"text/plain", "text/html", "application/xhtml+xml"}
                    /\ Asked \cap {Wildcard, chosen.desc} # {}
    BY <1>1, <1>5, PageFormat DEF Shown
  <2>0. request.format # NULL => chosen.desc = request.format /\ ~ ByAccept
    BY <1>1, <1>5, PageFormat DEF Shown, ByAccept
  <2>2. (ByAccept' <=> ByAccept) /\ Asked' = Asked /\ PairsFor(request)' = {IndexPairs}
    BY <1>1, SameRequest DEF PairsFor
  <2>3. ASSUME NEW t \in {"text/plain", "text/html"}, Answer(200, t),
               ByAccept => \/ Asked \cap {Wildcard, t} # {}
                           \/ t = "text/html" /\ "application/xhtml+xml" \in Asked,
               request.format # NULL => <<request.format, t>> \in IndexPairs
        PROVE  Shown'
    <3>1. /\ TypeOK' /\ AcceptIsRead' /\ Decided' /\ Underway' /\ CrashIsByAccept'
          /\ response'.code = 200 /\ response'.type = t
      BY <1>1, <2>3, Responded, Pages DEF Codes
    <3>2. AcceptIsHonoured'
      BY <2>2, <2>3, <3>1 DEF AcceptIsHonoured
    <3>3. ArgumentGoesFirst'
      BY <1>1, <2>2, <2>3, <3>1 DEF ArgumentGoesFirst
    <3>4. DescriptionIsNotRefused'
      BY <3>1 DEF DescriptionIsNotRefused
    <3>. QED
      BY <3>1, <3>2, <3>3, <3>4 DEF Shown, Answered
  <2>4. CASE redstore_is_text_format(chosen.desc) /\ Answer(200, "text/plain")
    <3>1. ByAccept => Asked \cap {Wildcard, "text/plain"} # {}
      BY <2>1, <2>4 DEF redstore_is_text_format
    <3>2. Answer(200, "text/plain")
      BY <2>4
    <3>3. request.format # NULL => <<request.format, "text/plain">> \in IndexPairs
      BY <2>0, <2>4 DEF redstore_is_text_format, IndexPairs
    <3>. QED
      BY <2>3, <3>1, <3>2, <3>3
  <2>5. CASE redstore_is_html_format(chosen.desc) /\ Answer(200, "text/html")
    <3>1. ByAccept => Asked \cap {Wildcard, "text/html"} # {} \/ "application/xhtml+xml" \in Asked
                        \/ Wildcard \in Asked
      BY <2>1, <2>5 DEF redstore_is_html_format
    <3>2. ByAccept => Asked \cap {Wildcard, "text/html"} # {} \/ "application/xhtml+xml" \in Asked
      BY <3>1
    <3>3. Answer(200, "text/html")
      BY <2>5
    <3>4. request.format # NULL => <<request.format, "text/html">> \in IndexPairs
      BY <2>0, <2>5 DEF redstore_is_html_format, IndexPairs
    <3>. QED
      BY <2>3, <3>2, <3>3, <3>4
  <2>6. CASE /\ ~ redstore_is_text_format(chosen.desc) /\ ~ redstore_is_html_format(chosen.desc)
             /\ redstore_page_new_with_message(406)
    <3>1. ~ ByAccept
      BY <2>1, <2>6 DEF redstore_is_text_format, redstore_is_html_format
    <3>2. request.format # NULL => Unnamed(IndexPairs)
      BY <2>0, <2>6 DEF redstore_is_text_format, redstore_is_html_format, Unnamed, IndexPairs
    <3>. QED
      BY <1>2, <2>6, <3>1, <3>2 DEF Codes
  <2>. QED
    BY <1>3, <1>4, <1>5, <2>4, <2>5, <2>6 DEF handle_graph_index
<1>. QED
  BY <1>3, <1>4, <1>5 DEF handle_graph_index

\* The argument of a description that is sent as HTML.
LEMMA DescriptionFormat ==
  ASSUME Decided, Base, ready, at = "describe", chosen = NULL \/ chosen.desc = "html",
         request.format # NULL
  PROVE  request.format = "html" \/ Unnamed(Pairs(GraphFormats))
<1>1. /\ MenuAt = GraphFormats /\ ~ ByAccept /\ Wanted = request.format
      /\ chosen = redstore_get_format_by_name(Wanted)
  BY DEF MenuAt, ByAccept, Wanted, Decided, Negotiators
<1>2. CASE chosen = NULL
  <2>1. \A o \in Range(GraphFormats) : o.desc # request.format
    BY <1>1, <1>2, ResultFormat
  <2>. QED
    BY <2>1 DEF Unnamed, Pairs
<1>3. CASE chosen # NULL
  <2>1. chosen.desc = request.format
    BY <1>1, <1>3, FoundByName
  <2>. QED
    BY <1>3, <2>1
<1>. QED
  BY <1>2, <1>3

\* What a request for a graph or for bindings may name.
LEMMA MenuIsNamed ==
  ASSUME at \in {"graph", "bindings"}, request.op \in {"data", "query", "sparql"} \/ Describes(request),
         Describes(request) \/ request.op = "data" => at = "graph"
  PROVE  Pairs(MenuAt) \in PairsFor(request)
<1>1. request.op # "graphs"
  BY DEF Describes
<1>2. MenuAt = IF at = "graph" THEN GraphFormats ELSE ResultsFormats
  BY DEF MenuAt
<1>. QED
  BY <1>1, <1>2 DEF PairsFor

LEMMA DescriptionShown ==
  ASSUME Shown, Base, Base', handle_description_get
  PROVE  Shown'
<1>1. /\ at = "describe" /\ ready /\ UNCHANGED <<negotiate_vars, request, query_count>>
      /\ Describes(request) /\ query_count' \in 0 .. CountSpace - 1
  BY PartsOfTypeOK DEF handle_description_get, Shown, Underway
<1>2. Describes(request)' /\ (Agreed' <=> Agreed)
  BY <1>1, SameRequest
<1>3. CASE Answer(200, "text/html") /\ (chosen = NULL \/ chosen.desc = "html")
  <2>1. /\ TypeOK' /\ AcceptIsRead' /\ Decided' /\ Underway' /\ CrashIsByAccept'
        /\ response' = [code |-> 200, type |-> "text/html"]
    BY <1>1, <1>3, Responded, Pages DEF Codes
  <2>2. request.format # NULL => request.format = "html" \/ Unnamed(Pairs(GraphFormats))
    BY <1>1, <1>3, DescriptionFormat DEF Shown
  <2>3. ArgumentGoesFirst'
    BY <1>1, <1>2, <2>1, <2>2 DEF ArgumentGoesFirst, Unnamed, Pairs
  <2>4. AcceptIsHonoured' /\ DescriptionIsNotRefused'
    BY <1>2, <2>1 DEF AcceptIsHonoured, DescriptionIsNotRefused
  <2>. QED
    BY <2>1, <2>3, <2>4 DEF Shown, Answered
<1>4. CASE redstore_page_new_with_message(404)
  BY <1>1, <1>4, PageEntered DEF Codes
<1>6. CASE Answer(301, "text/html")
  <2>1. /\ TypeOK' /\ AcceptIsRead' /\ Decided' /\ Underway' /\ CrashIsByAccept'
        /\ response'.code = 301
    BY <1>1, <1>6, Responded, Pages
  <2>2. AcceptIsHonoured' /\ ArgumentGoesFirst' /\ DescriptionIsNotRefused'
    BY <2>1 DEF AcceptIsHonoured, ArgumentGoesFirst, DescriptionIsNotRefused
  <2>. QED
    BY <2>1, <2>2 DEF Shown, Answered
<1>5. CASE chosen # NULL /\ Enter("graph") /\ UNCHANGED <<code, response>>
  <2>1. MenuAt = GraphFormats
    BY <1>1 DEF MenuAt
  <2>2. PICK o \in Range(GraphFormats) :
          IF ByAccept THEN Asked \cap {Wildcard, o.type} # {} ELSE o.desc = Wanted
    BY <1>1, <1>5, <2>1, ResultFormat DEF Shown
  <2>3. Agreed
    BY <2>2 DEF Agreed, Wanted
  <2>4. code' \in Codes
    BY <1>5, PartsOfTypeOK DEF Shown
  <2>5. TypeOK' /\ AcceptIsRead' /\ Decided' /\ Answered'
    BY <1>1, <1>5, <2>4, Entered DEF Negotiators
  <2>6. Underway'
    BY <1>2, <1>5, <2>3 DEF Underway, Enter
  <2>. QED
    BY <2>5, <2>6 DEF Shown
<1>. QED
  BY <1>3, <1>4, <1>5, <1>6 DEF handle_description_get, PassedOn

LEMMA ResultShown ==
  ASSUME Shown, Base, Base', format_result
  PROVE  Shown'
<1>1. /\ at \in {"graph", "bindings"} /\ ready /\ UNCHANGED <<negotiate_vars, request, query_count>>
      /\ query_count' \in 0 .. CountSpace - 1
  BY PartsOfTypeOK DEF format_result, Shown
<1>2. /\ (Describes(request)' <=> Describes(request)) /\ (Refused' <=> Refused)
      /\ (ByAccept' <=> ByAccept) /\ Asked' = Asked
  BY <1>1, SameRequest
<1>3. /\ Describes(request) => at = "graph" /\ Agreed
      /\ ~ Describes(request) => request.op \in {"data", "query", "sparql"}
      /\ at = "bindings" => request.op \in {"query", "sparql"}
      /\ Pairs(MenuAt) \in PairsFor(request)
  <2>1. /\ Describes(request) => at = "graph" /\ Agreed
        /\ ~ Describes(request) => request.op \in {"data", "query", "sparql"}
        /\ at = "bindings" => request.op \in {"query", "sparql"}
    BY <1>1 DEF Shown, Underway, Describes
  <2>. QED
    BY <1>1, <2>1, MenuIsNamed
<1>4. /\ MenuAt = IF at = "graph" THEN GraphFormats ELSE ResultsFormats
      /\ at = "graph" => Wanted = IF request.format # NULL THEN request.format ELSE "rdfxml"
      /\ request.format # NULL => ~ ByAccept /\ Wanted = request.format
  BY <1>1 DEF MenuAt, DefaultAt, Wanted, ByAccept
<1>5. CASE chosen = NULL /\ redstore_page_new_with_message(406)
  <2>1. IF ByAccept THEN NoneOn(MenuAt) ELSE \A o \in Range(MenuAt) : o.desc # Wanted
    BY <1>1, <1>5, ResultFormat DEF Shown
  <2>2. ASSUME Describes(request) PROVE FALSE
    <3>1. at = "graph" /\ MenuAt = GraphFormats
      BY <1>3, <1>4, <2>2
    <3>2. PICK o \in Range(GraphFormats) :
            IF ByAccept THEN Asked \cap {Wildcard, o.type} # {}
            ELSE request.format # NULL => o.desc = request.format
      BY <1>3, <2>2 DEF Agreed
    <3>3. o.type \in TypesOn(GraphFormats)
      BY DEF TypesOn, Range
    <3>4. CASE ByAccept
      BY <2>1, <3>1, <3>2, <3>3, <3>4 DEF NoneOn
    <3>5. CASE ~ ByAccept
      BY <1>4, <2>1, <3>1, <3>2, <3>5, FormatsAssumption
    <3>. QED
      BY <3>4, <3>5
  <2>4. request.format # NULL => Unnamed(Pairs(MenuAt))
    BY <1>4, <2>1 DEF Unnamed, Pairs
  <2>3. Refused
    BY <1>1, <1>3, <1>4, <2>1, <2>2, <2>4 DEF Refused
  <2>. QED
    BY <1>1, <1>2, <1>5, <2>2, <2>3, PageEntered DEF Codes
<1>6. CASE redstore_page_new_with_message(500)
  BY <1>1, <1>6, PageEntered DEF Codes
<1>7. CASE chosen # NULL /\ Answer(200, chosen.type)
  <2>1. PICK o \in Range(MenuAt) :
          /\ chosen.type = o.type /\ o.type \in Types
          /\ IF ByAccept THEN Asked \cap {Wildcard, o.type} # {} ELSE o.desc = Wanted
    BY <1>1, <1>7, ResultFormat DEF Shown
  <2>2. PICK t : t = chosen.type
    OBVIOUS
  <2>3. t \in Types /\ Answer(200, t)
    BY <1>7, <2>1, <2>2
  <2>4. /\ TypeOK' /\ AcceptIsRead' /\ Decided' /\ Underway' /\ CrashIsByAccept'
        /\ response'.code = 200 /\ response'.type = t
    BY <1>1, <2>3, Responded DEF Codes
  <2>5. AcceptIsHonoured'
    BY <1>2, <2>1, <2>2, <2>4 DEF AcceptIsHonoured
  <2>6. ArgumentGoesFirst'
    <3>1. request.format # NULL => <<request.format, t>> \in Pairs(MenuAt)
      BY <1>4, <2>1, <2>2 DEF Pairs
    <3>2. PairsFor(request)' = PairsFor(request)
      BY <1>1, SameRequest
    <3>. QED
      BY <1>1, <1>3, <2>4, <3>1, <3>2 DEF ArgumentGoesFirst
  <2>7. DescriptionIsNotRefused'
    BY <2>4 DEF DescriptionIsNotRefused
  <2>. QED
    BY <2>4, <2>5, <2>6, <2>7 DEF Shown, Answered
<1>. QED
  BY <1>5, <1>6, <1>7 DEF format_result

LEMMA PageShown ==
  ASSUME Shown, Base, Base', page_is_made
  PROVE  Shown'
<1>1. /\ at = "page" /\ ready /\ UNCHANGED <<negotiate_vars, request, query_count>>
      /\ query_count' \in 0 .. CountSpace - 1 /\ code \in Codes
      /\ code # 200 /\ (code = 406 => Refused) /\ (Describes(request) => code \in {404, 500})
  BY PartsOfTypeOK DEF page_is_made, Shown, Underway
<1>2. CASE chosen = NULL
  BY <1>1, <1>2, Crashed DEF page_is_made
<1>3. CASE chosen # NULL
  <2>1. PICK k : k = code
    OBVIOUS
  <2>2. PICK t : t = IF redstore_is_html_format(chosen.desc) THEN "text/html" ELSE "text/plain"
    OBVIOUS
  <2>3. k \in Codes /\ t \in Types /\ Answer(k, t)
    BY <1>1, <1>3, <2>1, <2>2, Pages DEF page_is_made
  <2>4. /\ TypeOK' /\ AcceptIsRead' /\ Decided' /\ Underway' /\ CrashIsByAccept'
        /\ response'.code = k /\ response'.type = t
    BY <1>1, <2>3, Responded
  <2>5. /\ (Describes(request)' <=> Describes(request)) /\ (ByAccept' <=> ByAccept) /\ Asked' = Asked
    BY <1>1, SameRequest
  <2>6. ASSUME ByAccept
        PROVE  Asked \cap {Wildcard, t} # {} \/ (t = "text/html" /\ "application/xhtml+xml" \in Asked)
    <3>1. /\ chosen.desc \in {"text/plain", "text/html", "application/xhtml+xml"}
          /\ Asked \cap {Wildcard, chosen.desc} # {}
      BY <1>1, <1>3, <2>6, PageFormat DEF Shown
    <3>2. t = IF chosen.desc = "text/plain" THEN "text/plain" ELSE "text/html"
      BY <2>2, <3>1 DEF redstore_is_html_format
    <3>. QED
      BY <3>1, <3>2
  <2>7. ASSUME ByAccept, k = 406
        PROVE  /\ request.op \in {"data", "query", "sparql"}
               /\ NoneOn(GraphFormats) \/ NoneOn(ResultsFormats)
    BY <1>1, <2>1, <2>7 DEF Refused
  <2>8. AcceptIsHonoured'
    BY <1>1, <2>4, <2>5, <2>6, <2>7 DEF AcceptIsHonoured, NoneOn
  <2>9. ArgumentGoesFirst'
    <3>1. k # 200 /\ (k = 406 /\ request.format # NULL => \E pairs \in PairsFor(request) : Unnamed(pairs))
      BY <1>1, <2>1 DEF Refused
    <3>2. PairsFor(request)' = PairsFor(request) /\ \A pairs : Unnamed(pairs)' <=> Unnamed(pairs)
      BY <1>1, SameRequest
    <3>. QED
      BY <1>1, <2>4, <3>1, <3>2 DEF ArgumentGoesFirst
  <2>10. DescriptionIsNotRefused'
    BY <1>1, <2>1, <2>4, <2>5 DEF DescriptionIsNotRefused
  <2>. QED
    BY <2>4, <2>8, <2>9, <2>10 DEF Shown, Answered
<1>. QED
  BY <1>2, <1>3
LEMMA BeginShown ==
  ASSUME Shown, Base, Base', redhttp_server_dispatch_request
  PROVE  Shown'
<1>1. PICK r \in Requests : begin(r)
  BY DEF redhttp_server_dispatch_request
<1>2. /\ at = "idle" /\ at \notin Negotiators /\ UNCHANGED negotiate_vars /\ request' = r
      /\ query_count \in 0 .. CountSpace - 1 /\ code \in Codes
  BY <1>1, PartsOfTypeOK DEF redhttp_server_dispatch_request, begin, Shown, Negotiators
<1>3. (query_count + 1) % CountSpace \in 0 .. CountSpace - 1
  BY <1>2, FormatsAssumption
<1>4. ASSUME NEW place \in {"index", "describe", "graph", "bindings"}, Enter(place),
             UNCHANGED <<code, response>>, query_count' \in 0 .. CountSpace - 1,
             place = "index" => r.op = "graphs",
             place = "describe" => Describes(r),
             place = "graph" => ~ Describes(r) /\ r.op \in {"data", "query", "sparql"},
             place = "bindings" => r.op \in {"query", "sparql"} /\ r.query
      PROVE  Shown'
  <2>1. TypeOK' /\ AcceptIsRead' /\ Decided' /\ Answered'
    BY <1>2, <1>4, Entered DEF Negotiators
  <2>2. Underway'
    BY <1>2, <1>4 DEF Underway, Enter, Describes
  <2>. QED
    BY <2>1, <2>2 DEF Shown
<1>5. ASSUME NEW k \in {400, 404, 500, 501}, redstore_page_new_with_message(k),
             query_count' \in 0 .. CountSpace - 1, ~ Describes(r)
      PROVE  Shown'
  <2>1. ~ Describes(request)'
    BY <1>2, <1>5 DEF Describes
  <2>2. k \in Codes \ {200} /\ k # 406
    BY DEF Codes
  <2>. QED
    BY <1>2, <1>5, <2>1, <2>2, PageEntered
<1>6. CASE r.op = "graphs" /\ Enter("index") /\ UNCHANGED <<code, response, query_count>>
  BY <1>2, <1>4, <1>6
<1>7. CASE r.op \in {"query", "sparql"} /\ r.query /\ perform_query(r)
  <2>1. ~ Describes(r)
    BY <1>7 DEF Describes
  <2>2. CASE redstore_page_new_with_message(500) /\ UNCHANGED query_count
    BY <1>2, <1>5, <2>1, <2>2
  <2>3. CASE /\ query_count' = (query_count + 1) % CountSpace
             /\ Enter("bindings") /\ UNCHANGED <<code, response>>
    BY <1>3, <1>4, <1>7, <2>3
  <2>4. CASE /\ query_count' = (query_count + 1) % CountSpace
             /\ Enter("graph") /\ UNCHANGED <<code, response>>
    BY <1>3, <1>4, <1>7, <2>1, <2>4
  <2>5. CASE /\ query_count' = (query_count + 1) % CountSpace
             /\ \E k \in {500, 501} : redstore_page_new_with_message(k)
    BY <1>3, <1>5, <2>1, <2>5
  <2>. QED
    BY <1>7, <2>2, <2>3, <2>4, <2>5 DEF perform_query
<1>8. CASE r.op = "query" /\ ~ r.query /\ Answer(200, "text/html") /\ UNCHANGED query_count
  <2>1. /\ TypeOK' /\ AcceptIsRead' /\ Decided' /\ Underway' /\ CrashIsByAccept'
        /\ response' = [code |-> 200, type |-> "text/html"]
    BY <1>2, <1>8, Responded, Pages DEF Codes
  <2>2. IsForm(request)' /\ ~ Describes(request)'
    BY <1>2, <1>8 DEF IsForm, Describes
  <2>3. AcceptIsHonoured' /\ ArgumentGoesFirst' /\ DescriptionIsNotRefused'
    BY <2>1, <2>2 DEF AcceptIsHonoured, ArgumentGoesFirst, DescriptionIsNotRefused
  <2>. QED
    BY <2>1, <2>3 DEF Shown, Answered
<1>9. CASE Describes(r) /\ Enter("describe") /\ UNCHANGED <<code, response, query_count>>
  BY <1>2, <1>4, <1>9
<1>10. CASE /\ r.op = "sparql" /\ ~ r.query /\ r.method # "GET"
            /\ redstore_page_new_with_message(400) /\ UNCHANGED query_count
  BY <1>2, <1>5, <1>10 DEF Describes
<1>11. CASE /\ r.op = "data" /\ UNCHANGED query_count
            /\ Enter("graph") /\ UNCHANGED <<code, response>>
  BY <1>2, <1>4, <1>11 DEF Describes
<1>12. CASE /\ r.op = "data" /\ UNCHANGED query_count
            /\ \E k \in {400, 404, 500} : redstore_page_new_with_message(k)
  BY <1>2, <1>5, <1>12 DEF Describes
<1>. QED
  BY <1>1, <1>6, <1>7, <1>8, <1>9, <1>10, <1>11, <1>12 DEF begin

LEMMA SendShown ==
  ASSUME Shown, Base, Base', redhttp_response_send
  PROVE  Shown'
<1>1. /\ at = "respond" /\ at' = "idle" /\ request' = NULL /\ response' = NULL /\ code' = 200
      /\ UNCHANGED <<negotiate_vars, ready, chosen, query_count>>
  BY DEF redhttp_response_send
<1>2. AcceptIsRead'
  BY <1>1, AtRestThen DEF Shown, Negotiators
<1>3. NegotiateTypeOK'
  BY DEF Base, Inv
<1>4. TypeOK'
  BY <1>1, <1>3 DEF Shown, TypeOK
<1>. QED
  BY <1>1, <1>2, <1>4 DEF Shown, Decided, Underway, Answered, AcceptIsHonoured, ArgumentGoesFirst,
     DescriptionIsNotRefused, CrashIsByAccept, Negotiators

\* While a function negotiates, the request and its reason are the same.
LEMMA StillUnderway ==
  ASSUME Shown, at \in Negotiators, UNCHANGED <<request, at, code, response, query_count>>
  PROVE  Underway' /\ Answered'
<1>1. /\ Describes(request)' <=> Describes(request)
      /\ Agreed' <=> Agreed
      /\ Refused' <=> Refused
  BY SameRequest
<1>2. Underway'
  BY <1>1 DEF Shown, Underway
<1>. QED
  BY <1>2 DEF Negotiators, Answered, AcceptIsHonoured, ArgumentGoesFirst,
     DescriptionIsNotRefused, CrashIsByAccept

LEMMA ByNameShown ==
  ASSUME Shown, Base, Base', negotiate_by_name
  PROVE  Shown'
<1>1. /\ at \in Negotiators /\ ~ ready /\ ~ ByAccept /\ ready' = TRUE
      /\ UNCHANGED <<negotiate_vars, request, at, code, response, query_count>>
      /\ chosen' = redstore_get_format_by_name(Wanted)
  BY DEF negotiate_by_name, Asking, ByAccept, Negotiators, Wanted
<1>2. pc = "idle"
  BY <1>1 DEF Shown, AcceptIsRead
<1>3. AcceptIsRead'
  BY <1>1, <1>2 DEF AcceptIsRead, negotiate_vars
<1>4. ~ ByAccept'
  BY <1>1, SameRequest
<1>5. MenuAt' = MenuAt /\ Wanted' = Wanted
  BY <1>1 DEF MenuAt, Wanted, DefaultAt
<1>6. redstore_get_format_by_name(Wanted)' = redstore_get_format_by_name(Wanted)
  BY <1>1, <1>5 DEF redstore_get_format_by_name
<1>7. Decided'
  BY <1>1, <1>4, <1>6 DEF Decided
<1>8. chosen' = NULL \/ DOMAIN chosen' = {"desc", "type"}
  BY <1>1 DEF redstore_get_format_by_name
<1>9. NegotiateTypeOK'
  BY DEF Base, Inv
<1>10. TypeOK'
  BY <1>1, <1>8, <1>9 DEF Shown, TypeOK
<1>. QED
  BY <1>1, <1>3, <1>7, <1>10, StillUnderway DEF Shown

LEMMA ByAcceptShown ==
  ASSUME Shown, Base, Base', negotiate_by_accept
  PROVE  Shown'
<1>1. PICK l : call(request.accept, MenuAt, l)
  BY DEF negotiate_by_accept
<1>2. /\ at \in Negotiators /\ ~ ready /\ ByAccept /\ pc = "idle" /\ pc' = "parse"
      /\ UNCHANGED <<handler_vars, nodes>> /\ rest' = request.accept /\ menu' = MenuAt
  BY <1>1 DEF negotiate_by_accept, Asking, ByAccept, Negotiators, call, list_vars
<1>3. UNCHANGED <<request, at, ready, chosen, code, response, query_count>>
  BY <1>2 DEF handler_vars
<1>4. nodes' = <<>>
  BY <1>2 DEF Base, Inv, Idle
<1>5. Read' = {} /\ Unread' = Asked /\ Asked' = Asked /\ MenuAt' = MenuAt
  BY <1>2, <1>3, <1>4 DEF Read, Unread, Asked, MenuAt
<1>6. ByAccept'
  BY <1>2, <1>3, SameRequest
<1>7. AcceptIsRead'
  BY <1>2, <1>3, <1>5, <1>6 DEF AcceptIsRead
<1>8. NegotiateTypeOK'
  BY DEF Base, Inv
<1>9. TypeOK'
  BY <1>3, <1>8 DEF Shown, TypeOK
<1>10. Decided'
  BY <1>2, <1>3 DEF Decided
<1>. QED
  BY <1>2, <1>3, <1>7, <1>9, <1>10, StillUnderway DEF Shown

LEMMA NegotiatesShown ==
  ASSUME Shown, Base, Base', NegotiateStep, UNCHANGED handler_vars
  PROVE  Shown'
<1>1. UNCHANGED <<request, at, ready, chosen, code, response, query_count>>
  BY DEF handler_vars
<1>2. /\ (Read \cup Unread)' = Read \cup Unread
      /\ menu' = menu /\ pc # "idle"
      /\ (pc \in {"choose", "done"} => rest = <<>>) /\ pc' \in {"choose", "done"} => rest' = <<>>
      /\ pc' = "aborted" => NULL \in Unread'
  BY ReadStep DEF Base
<1>3. at \in Negotiators /\ ~ ready /\ ByAccept
  BY <1>2 DEF Shown, AcceptIsRead
<1>4. Asked' = Asked /\ MenuAt' = MenuAt /\ ByAccept'
  BY <1>1, <1>3, SameRequest DEF MenuAt
<1>5. AcceptIsRead'
  BY <1>1, <1>2, <1>3, <1>4 DEF Shown, AcceptIsRead
<1>6. NegotiateTypeOK'
  BY DEF Base, Inv
<1>7. TypeOK'
  BY <1>1, <1>6 DEF Shown, TypeOK
<1>8. Decided'
  BY <1>1, <1>3 DEF Decided
<1>. QED
  BY <1>1, <1>3, <1>5, <1>7, <1>8, StillUnderway DEF Shown

LEMMA ReturnsShown ==
  ASSUME Shown, Base, Base', ChosenIsBest, negotiate_returns
  PROVE  Shown'
<1>1. /\ pc = "done" /\ pc' = "idle" /\ ready' = TRUE
      /\ UNCHANGED <<request, at, code, response, query_count>>
      /\ chosen' = IF best = NULL THEN NULL ELSE [desc |-> best.desc, type |-> best.type]
  BY DEF negotiate_returns, return
<1>2. at \in Negotiators /\ ~ ready /\ ByAccept
  BY <1>1 DEF Shown, AcceptIsRead
<1>3. IF best = NULL THEN NoneOn(MenuAt)
      ELSE best \in Range(MenuAt) /\ Asked \cap {Wildcard, best.type} # {}
  BY <1>1, BestOfAsked DEF Shown, Base
<1>4. Asked' = Asked /\ MenuAt' = MenuAt /\ ByAccept'
  BY <1>1, <1>2, SameRequest DEF MenuAt
<1>5. Decided'
  <2>1. CASE best = NULL
    <3>1. NoneOn(MenuAt)' /\ chosen' = NULL
      BY <1>1, <1>3, <1>4, <2>1 DEF NoneOn
    <3>. QED
      BY <1>4, <3>1 DEF Decided
  <2>2. CASE best # NULL
    <3>1. PICK o \in Range(MenuAt) : o = best
      BY <1>3, <2>2
    <3>2. chosen' = [desc |-> o.desc, type |-> o.type] /\ Asked \cap {Wildcard, o.type} # {}
      BY <1>1, <1>3, <2>2, <3>1
    <3>3. o \in Range(MenuAt')
      BY <1>4, <3>1
    <3>4. chosen' # NULL
      <4>1. o.desc \in Names /\ o.type \in Types
        BY <1>2, <3>1, MenuOfPlace, MenuEntries
      <4>. QED
        BY <3>2, <4>1, NotNull
    <3>. QED
      BY <1>4, <3>2, <3>3, <3>4 DEF Decided
  <2>. QED
    BY <2>1, <2>2
<1>6. AcceptIsRead'
  BY <1>1 DEF AcceptIsRead
<1>7. chosen' = NULL \/ DOMAIN chosen' = {"desc", "type"}
  BY <1>1
<1>8. NegotiateTypeOK'
  BY DEF Base, Inv
<1>9. TypeOK'
  BY <1>1, <1>7, <1>8 DEF Shown, TypeOK
<1>. QED
  BY <1>1, <1>2, <1>5, <1>6, <1>9, StillUnderway DEF Shown
LEMMA StutterShown ==
  ASSUME Shown, Base', UNCHANGED vars
  PROVE  Shown'
<1>1. UNCHANGED <<request, at, ready, chosen, code, response, query_count>> /\ UNCHANGED negotiate_vars
  BY DEF vars, handler_vars
<1>2. UNCHANGED <<pc, rest, nodes, menu>>
  BY <1>1 DEF negotiate_vars, list_vars, choice
<1>3. NegotiateTypeOK'
  BY DEF Base, Inv
<1>4. TypeOK'
  BY <1>1, <1>3 DEF Shown, TypeOK
<1>5. /\ ByAccept' <=> ByAccept
      /\ Asked' = Asked /\ MenuAt' = MenuAt /\ Wanted' = Wanted
      /\ Agreed' <=> Agreed
      /\ Refused' <=> Refused
  BY <1>1, SameRequest DEF MenuAt, Wanted, DefaultAt
<1>6. Read' = Read /\ Unread' = Unread
  BY <1>2 DEF Read, Unread
<1>7. AcceptIsRead'
  BY <1>1, <1>2, <1>5, <1>6 DEF Shown, AcceptIsRead
<1>8. redstore_get_format_by_name(Wanted)' = redstore_get_format_by_name(Wanted)
  BY <1>1, <1>5 DEF redstore_get_format_by_name
<1>9. NoneOn(MenuAt)' <=> NoneOn(MenuAt)
  BY <1>5 DEF NoneOn
<1>10. Decided'
  BY <1>1, <1>5, <1>8, <1>9 DEF Shown, Decided
<1>11. Describes(request)' <=> Describes(request)
  BY <1>1, SameRequest
<1>12. Underway'
  BY <1>1, <1>5, <1>11 DEF Shown, Underway
<1>13. ArgumentGoesFirst'
  <2>1. PairsFor(request)' = PairsFor(request) /\ \A pairs : Unnamed(pairs)' <=> Unnamed(pairs)
    BY <1>1, SameRequest
  <2>2. Unnamed(Pairs(GraphFormats))' <=> Unnamed(Pairs(GraphFormats))
    BY <1>1 DEF Unnamed, Pairs
  <2>. QED
    BY <1>1, <1>11, <2>1, <2>2 DEF Shown, Answered, ArgumentGoesFirst, IsForm
<1>14. AcceptIsHonoured'
  BY <1>1, <1>5, <1>11 DEF Shown, Answered, AcceptIsHonoured, IsForm
<1>15. DescriptionIsNotRefused' /\ CrashIsByAccept'
  BY <1>1, <1>5, <1>11 DEF Shown, Answered, DescriptionIsNotRefused, CrashIsByAccept
<1>. QED
  BY <1>4, <1>7, <1>10, <1>12, <1>13, <1>14, <1>15 DEF Shown, Answered

LEMMA ShownInit == Init => Shown
<1>. SUFFICES ASSUME Init PROVE Shown
  OBVIOUS
<1>1. /\ pc = "idle" /\ request = NULL /\ at = "idle" /\ ready = FALSE /\ chosen = NULL
      /\ code = 200 /\ response = NULL /\ query_count = 0
  BY DEF Init, NegotiateInit
<1>2. NegotiateTypeOK /\ 0 \in 0 .. CountSpace - 1
  BY BaseInit, FormatsAssumption DEF Base, Inv
<1>3. TypeOK
  BY <1>1, <1>2 DEF TypeOK
<1>. QED
  BY <1>1, <1>3 DEF Shown, AcceptIsRead, Decided, Underway, Answered, AcceptIsHonoured,
     ArgumentGoesFirst, DescriptionIsNotRefused, CrashIsByAccept

LEMMA ShownStep == Shown /\ Base /\ Base' /\ ChosenIsBest /\ [Next]_vars => Shown'
<1>. SUFFICES ASSUME Shown, Base, Base', ChosenIsBest, [Next]_vars PROVE Shown'
  OBVIOUS
<1>1. CASE negotiate_by_name
  BY <1>1, ByNameShown
<1>2. CASE negotiate_by_accept
  BY <1>2, ByAcceptShown
<1>3. CASE negotiate_returns
  BY <1>3, ReturnsShown
<1>4. CASE handle_graph_index
  BY <1>4, IndexShown
<1>5. CASE handle_description_get
  BY <1>5, DescriptionShown
<1>6. CASE format_result
  BY <1>6, ResultShown
<1>7. CASE page_is_made
  BY <1>7, PageShown
<1>8. CASE redhttp_response_send
  BY <1>8, SendShown
<1>9. CASE NegotiateStep /\ UNCHANGED handler_vars
  BY <1>9, NegotiatesShown
<1>10. CASE redhttp_server_dispatch_request
  BY <1>10, BeginShown
<1>11. CASE UNCHANGED vars
  BY <1>11, StutterShown
<1>. QED
  BY <1>1, <1>2, <1>3, <1>4, <1>5, <1>6, <1>7, <1>8, <1>9, <1>10, <1>11 DEF Next, Handler

LEMMA ShownAlways == Spec => []Shown
<1>1. Spec => [](ChosenIsBest /\ Base)
  BY BaseInit, BaseStep, BestIsChosen, PTL DEF Spec
<1>. QED
  BY <1>1, ShownInit, ShownStep, PTL DEF Spec

\* The state of a handler, of its negotiation and of its response is well
\* formed, whatever is requested and whichever step fails (utils.c:106-191,
\* negotiate.c:44-242, pages.c:72-139).
THEOREM TypesAreKept == Spec => []TypeOK
BY ShownAlways, PTL DEF Shown

\* Whatever the Accept header, the index, a graph, the result of a query, an
\* error page is of a type on it, and 406 means that the formats have none of
\* its types; for the three exceptions see AcceptIsHonoured
\* (utils.c:106-191, pages.c:72-139, graphs.c:145, formatters.c:26-133).
THEOREM AcceptIsAlwaysHonoured == Spec => []AcceptIsHonoured
BY ShownAlways, PTL DEF Shown, Answered

\* The format argument of a request decides what is sent, and whether anything
\* is: for graphs, results, the index and the description
\* (utils.c:148-191, formatters.c:34, 87, graphs.c:147).
THEOREM ArgumentAlwaysGoesFirst == Spec => []ArgumentGoesFirst
BY ShownAlways, PTL DEF Shown, Answered

\* Once the first negotiation of a description has found a format, the second
\* does too, though its default is another one (description.c:507,
\* formatters.c:34).
THEOREM DescriptionIsSent == Spec => []DescriptionIsNotRefused
BY ShownAlways, PTL DEF Shown, Answered

\* Negotiations end the process in two ways, and only over an Accept header:
\* without any type of a page, and with an element without text
\* (pages.c:99, graphs.c:158, negotiate.c:211).
THEOREM OnlyAcceptEnds == Spec => []OnlyAcceptEndsProcess
<1>1. Shown => OnlyAcceptEndsProcess
  <2>. SUFFICES ASSUME Shown PROVE OnlyAcceptEndsProcess
    OBVIOUS
  <2>1. pc = "aborted" => ByAccept /\ NULL \in Asked
    BY DEF Shown, AcceptIsRead
  <2>. QED
    BY <2>1 DEF Shown, Answered, CrashIsByAccept, OnlyAcceptEndsProcess
<1>. QED
  BY <1>1, ShownAlways, PTL
=============================================================================
