--------------------------- MODULE RequestProofs ----------------------------
(***************************************************************************)
(* Theorems about Request, for any messages, paths and names: what is      *)
(* loaded is as long as the client declared, what is inserted is an        *)
(* argument it sent, the graph is the one the URL or a link names, and the *)
(* process ends only on an empty name.                                     *)
(*                                                                         *)
(* All rest on Understood: where in the message the server is, and that    *)
(* the headers it keeps are those of the lines it has read.  On top of it, *)
(* Listed says where the arguments come from, Answered and Addressed what  *)
(* librdf is called with, and Refused why it is not.                       *)
(***************************************************************************)
EXTENDS Request, UrlProofs

-----------------------------------------------------------------------------
(* Arguments without a name                                                *)

ZeroAt(str, k) == k + 2 <= Len(str) /\ str[k] = 37 /\ str[k + 1] = 48 /\ str[k + 2] = 48

LEMMA ZeroIsPrefix ==
  ASSUME NEW str \in Seq(Byte), NEW k \in DOMAIN str
  PROVE  IsPrefix(<<37, 48, 48>>, SubSeq(str, k, Len(str))) <=> ZeroAt(str, k)
<1> DEFINE zero == <<37, 48, 48>>
           t == SubSeq(str, k, Len(str))
           u == SubSeq(t, 1, 3)
<1>1. Len(str) \in Nat /\ k \in 1 .. Len(str) /\ k - 1 \in Nat /\ (k - 1) + 1 = k
  BY LenProperties
<1>2. /\ t \in Seq(Byte)
      /\ Len(t) = Len(str) - (k - 1)
      /\ \A j \in 1 .. Len(str) - (k - 1) : t[j] = str[(k - 1) + j]
  <2>1. LET b == SubSeq(str, (k - 1) + 1, Len(str))
        IN /\ b \in Seq(Byte)
           /\ Len(b) = IF k - 1 <= Len(str) THEN Len(str) - (k - 1) ELSE 0
           /\ \A j \in 1 .. Len(str) - (k - 1) : b[j] = str[(k - 1) + j]
    BY <1>1, Behind
  <2>. QED
    BY <1>1, <2>1
<1>3. zero \in Seq(Byte) /\ Len(zero) = 3 /\ zero[1] = 37 /\ zero[2] = 48 /\ zero[3] = 48
  BY DEF Byte
<1>4. SubSeq(zero, 1, Len(zero)) = zero
  BY <1>3, SubSeqFull
<1> HIDE DEF zero, t
<1>5. ASSUME Len(t) >= 3
      PROVE  zero = u <=> t[1] = 37 /\ t[2] = 48 /\ t[3] = 48
  <2>1. 4 \in 1 .. Len(t) + 1 /\ 4 - 1 = 3
    BY <1>2, <1>5
  <2>2. /\ SubSeq(t, 1, 4 - 1) \in Seq(Byte)
        /\ Len(SubSeq(t, 1, 4 - 1)) = 4 - 1
        /\ \A j \in 1 .. 4 - 1 : SubSeq(t, 1, 4 - 1)[j] = t[j]
    BY <1>2, <2>1, FrontOf
  <2>3. u \in Seq(Byte) /\ Len(u) = 3 /\ u[1] = t[1] /\ u[2] = t[2] /\ u[3] = t[3]
    BY <2>1, <2>2
  <2> HIDE DEF u
  <2>4. (\A j \in 1 .. 3 : zero[j] = u[j]) => zero = u
    BY <1>3, <2>3, SeqEqual
  <2>. QED
    BY <1>3, <2>3, <2>4
<1>6. IsPrefix(zero, t) <=> 3 <= Len(t) /\ zero = u
  BY <1>3, <1>4 DEF IsPrefix
<1>7. 3 <= Len(t) <=> k + 2 <= Len(str)
  BY <1>1, <1>2, SMTT(30)
<1>8. ASSUME k + 2 <= Len(str)
      PROVE  t[1] = str[k] /\ t[2] = str[k + 1] /\ t[3] = str[k + 2]
  BY <1>1, <1>2, <1>8, SMTT(30)
<1>. QED
  BY <1>5, <1>6, <1>7, <1>8 DEF ZeroAt, zero, t

LEMMA NamelessAt ==
  ASSUME NEW str \in Seq(Byte)
  PROVE  Nameless(str) <=> \E k \in 1 .. Len(str) :
           /\ k = 1 \/ str[k - 1] \in {38, 59}
           /\ str[k] \in {38, 59, 61} \/ ZeroAt(str, k)
<1>1. DOMAIN str = 1 .. Len(str)
  BY LenProperties
<1>2. \A k \in DOMAIN str : IsPrefix(<<37, 48, 48>>, SubSeq(str, k, Len(str))) <=> ZeroAt(str, k)
  BY ZeroIsPrefix
<1> DEFINE starts(k) == k = 1 \/ str[k - 1] \in {38, 59}
           ends(k) == str[k] \in {38, 59, 61}
           zero(k) == IsPrefix(<<37, 48, 48>>, SubSeq(str, k, Len(str)))
<1>3. Nameless(str) <=> \E k \in DOMAIN str : starts(k) /\ (ends(k) \/ zero(k))
  BY DEF Nameless
<1> HIDE DEF starts, ends
<1>4. Nameless(str) <=> \E k \in 1 .. Len(str) : starts(k) /\ (ends(k) \/ ZeroAt(str, k))
  BY <1>1, <1>2, <1>3, Zenon
<1>. QED
  BY <1>4 DEF starts, ends

LEMMA NamelessBehind ==
  ASSUME NEW input \in Seq(Byte), Nameless(AfterAmp(input))
  PROVE  Nameless(input)
<1> DEFINE n == First({38, 59}, input)
           s == AfterAmp(input)
<1>1. Len(input) \in Nat /\ n \in Nat \ {0} /\ (n <= Len(input) => input[n] \in {38, 59})
  BY FirstTyped, LenProperties
<1>2. /\ s \in Seq(Byte)
      /\ Len(s) = IF n <= Len(input) THEN Len(input) - n ELSE 0
      /\ \A k \in 1 .. Len(input) - n : s[k] = input[n + k]
  <2>1. n \in Nat /\ s = SubSeq(input, n + 1, Len(input))
    BY <1>1 DEF AfterAmp
  <2> HIDE DEF n, s
  <2>. QED
    BY <2>1, Behind
<1> HIDE DEF n, s
<1>3. PICK k \in 1 .. Len(s) :
        /\ k = 1 \/ s[k - 1] \in {38, 59}
        /\ s[k] \in {38, 59, 61} \/ ZeroAt(s, k)
  BY <1>2, NamelessAt DEF s
<1>4. n <= Len(input) /\ k \in 1 .. Len(input) - n /\ n + k \in 1 .. Len(input)
  BY <1>1, <1>2
<1>5. (n + k) - 1 = n + (k - 1) /\ s[k] = input[n + k]
  BY <1>1, <1>2, <1>4
<1>6. input[(n + k) - 1] \in {38, 59}
  <2>1. CASE k = 1
    BY <1>1, <1>4, <1>5, <2>1
  <2>2. CASE k # 1
    <3>1. s[k - 1] = input[n + (k - 1)]
      BY <1>2, <1>4, <2>2
    <3>. QED
      BY <1>3, <1>5, <2>2, <3>1
  <2>. QED
    BY <2>1, <2>2
<1>7. ZeroAt(s, k) => ZeroAt(input, n + k)
  <2> SUFFICES ASSUME ZeroAt(s, k) PROVE ZeroAt(input, n + k)
    OBVIOUS
  <2>1. k + 2 <= Len(input) - n /\ (n + k) + 2 <= Len(input)
    BY <1>1, <1>2, <1>4 DEF ZeroAt
  <2>2. s[k + 1] = input[(n + k) + 1] /\ s[k + 2] = input[(n + k) + 2]
    BY <1>1, <1>2, <1>4, <2>1
  <2>. QED
    BY <1>5, <2>1, <2>2 DEF ZeroAt
<1>. QED
  BY <1>3, <1>4, <1>5, <1>6, <1>7, NamelessAt

LEMMA NoNameIsNameless ==
  ASSUME NEW input \in Seq(Byte), input # <<>>, Argument(UpToAmp(input)).key = <<>>
  PROVE  Nameless(input)
<1> DEFINE n == First({38, 59}, input)
           part == UpToAmp(input)
           m == First({61}, part)
           name == SubSeq(part, 1, m - 1)
<1>1. /\ Len(input) \in Nat \ {0}
      /\ n \in 1 .. Len(input) + 1
      /\ n <= Len(input) => input[n] \in {38, 59}
  BY FirstTyped, EmptySeq
<1>2. /\ part \in Seq(Byte)
      /\ Len(part) = n - 1
      /\ \A k \in 1 .. n - 1 : part[k] = input[k]
  BY <1>1, FrontOf DEF UpToAmp
<1>3. unescaped[name] = <<>>
  BY DEF Argument, redhttp_url_unescape
<1> HIDE DEF n, part
<1>4. m \in 1 .. Len(part) + 1 /\ (m <= Len(part) => part[m] = 61)
  BY <1>2, FirstTyped
<1>5. /\ name \in Seq(Byte)
      /\ Len(name) = m - 1
      /\ \A k \in 1 .. m - 1 : name[k] = part[k]
  BY <1>2, <1>4, FrontOf
<1> HIDE DEF m, name
<1>6. CASE name = <<>>
  <2>1. m = 1
    BY <1>4, <1>5, <1>6, EmptySeq
  <2>2. CASE n = 1
    BY <1>1, <2>2, NamelessAt
  <2>3. CASE n # 1
    <3>1. part[1] = 61 /\ part[1] = input[1]
      BY <1>1, <1>2, <1>4, <2>1, <2>3
    <3>. QED
      BY <1>1, <3>1, NamelessAt
  <2>. QED
    BY <2>2, <2>3
<1>7. CASE name # <<>>
  <2>1. UnescapedPiece[name] = <<>>
    <3>1. UnescapedRest[name] \in Seq(Byte) /\ UnescapedPiece[name] \in Seq(Byte)
      BY <1>5, UnescapedParts DEF Shortens
    <3>2. UnescapedPiece[name] \o unescaped[UnescapedRest[name]] = <<>>
      BY <1>3, <1>5, <1>7, Unescaped
    <3>. QED
      BY <3>1, <3>2, Unescaped, ConcatEqualIffEmpty
  <2>2. StartsWithEscape(name) /\ Escaped(name) = 0
    <3>1. \A x : <<x>> # <<>>
      OBVIOUS
    <3>. QED
      BY <1>5, <1>7, <2>1, <3>1 DEF UnescapedPiece
  <2>3. Len(name) >= 3 /\ name[1] = 37 /\ name[2] = 48 /\ name[3] = 48
    <3>1. /\ hex_decode(name[2]) \in 0 .. 15
          /\ hex_decode(name[3]) \in 0 .. 15
      BY <2>2, Digit DEF StartsWithEscape
    <3>2. hex_decode(name[2]) = 0 /\ hex_decode(name[3]) = 0
      <4>1. \A a, b \in 0 .. 15 : 16 * a + b = 0 => a = 0 /\ b = 0
        <5> TAKE a, b \in 0 .. 15
        <5>1. a >= 1 \/ b >= 1 => 16 * a + b >= 1
          BY SMTT(30)
        <5>. QED
          BY <5>1
      <4>. QED
        BY <2>2, <3>1, <4>1, Zenon DEF Escaped
    <3>. QED
      BY <2>2, <3>2, Digit DEF StartsWithEscape
  <2>4. 3 <= Len(input) /\ input[1] = 37 /\ input[2] = 48 /\ input[3] = 48
    BY <1>1, <1>2, <1>4, <1>5, <2>3, SMTT(30)
  <2>5. ZeroAt(input, 1)
    BY <2>4 DEF ZeroAt
  <2>. QED
    BY <1>1, <2>5, NamelessAt
<1>. QED
  BY <1>6, <1>7

\* An argument without a name is one in the text.
LEMMA AbortsAreNameless ==
  ASSUME NEW all \in Seq(Byte), AddAborts(parsed[all])
  PROVE  Nameless(all)
<1> DEFINE Bad == {str \in Seq(Byte) : AddAborts(parsed[str]) /\ ~ Nameless(str)}
<1> SUFFICES ASSUME Bad # {} PROVE FALSE
  OBVIOUS
<1>1. PICK str \in Bad : \A other \in Seq(Byte) : Len(other) < Len(str) => other \notin Bad
  <2> HIDE DEF Bad
  <2>1. Bad \in SUBSET Seq(Byte)
    BY DEF Bad
  <2>. QED
    BY <2>1, Shortest
<1>2. str \in Seq(Byte) /\ AddAborts(parsed[str]) /\ ~ Nameless(str)
  BY <1>1
<1>3. str # <<>>
  BY <1>2, Parsed DEF AddAborts
<1> DEFINE first == Argument(UpToAmp(str))
           others == parsed[AfterAmp(str)]
<1>4. /\ AfterAmp(str) \in Seq(Byte) /\ Len(AfterAmp(str)) < Len(str)
      /\ first \in ArgumentRecord
      /\ others \in Seq(ArgumentRecord)
      /\ parsed[str] = <<first>> \o others
  BY <1>2, <1>3, Parsed, ArgumentTyped
<1>5. first.key # <<>>
  BY <1>2, <1>3, NoNameIsNameless
<1>6. ~ AddAborts(others)
  BY <1>1, <1>2, <1>4, NamelessBehind
<1> HIDE DEF first, others, Bad
<1>7. PICK k \in DOMAIN parsed[str] : parsed[str][k].key = <<>>
  BY <1>2 DEF AddAborts
<1>8. /\ <<first>> \in Seq(ArgumentRecord) /\ Len(<<first>>) = 1 /\ <<first>>[1] = first
  BY <1>4
<1>9. /\ Len(others) \in Nat
      /\ DOMAIN others = 1 .. Len(others)
      /\ DOMAIN parsed[str] = 1 .. 1 + Len(others)
      /\ \A j \in 1 .. 1 + Len(others) : parsed[str][j] = IF j <= 1 THEN <<first>>[j] ELSE others[j - 1]
  BY <1>4, <1>8, ConcatProperties, LenProperties
<1>10. CASE k = 1
  BY <1>5, <1>7, <1>8, <1>9, <1>10
<1>11. CASE k # 1
  BY <1>6, <1>7, <1>9, <1>11, SMTT(30) DEF AddAborts
<1>. QED
  BY <1>10, <1>11

-----------------------------------------------------------------------------
(* The headers                                                             *)

HeaderNames == {"Host", "Content-Type", "Content-Length"}

\* The places of a header in a list; the lines among the first n that say it.
At(list, key) == {k \in DOMAIN list : list[k].key = key}
SaidAt(m, key, n) ==
  {k \in DOMAIN m.headers : k <= n /\ m.headers[k].key = key /\ m.headers[k].value # NULL}
SaidBy(m, key, n) ==
  IF SaidAt(m, key, n) = {} THEN NULL ELSE m.headers[Min(SaidAt(m, key, n))].value

\* The list keeps what the first n lines say.
Keeps(list, m, n) ==
  \A key \in HeaderNames :
    /\ At(list, key) = {} <=> SaidAt(m, key, n) = {}
    /\ redhttp_headers_get(list, key) = SaidBy(m, key, n)

LEMMA GetIsFirst ==
  ASSUME NEW list, NEW key
  PROVE  redhttp_headers_get(list, key) =
           IF At(list, key) = {} THEN NULL ELSE list[Min(At(list, key))].value
BY DEF redhttp_headers_get, At

LEMMA GetOfAppend ==
  ASSUME NEW list \in Seq(Header), NEW line \in Header, NEW key
  PROVE  /\ At(Append(list, line), key) = {} <=> At(list, key) = {} /\ line.key # key
         /\ redhttp_headers_get(Append(list, line), key) =
              IF At(list, key) # {} THEN redhttp_headers_get(list, key)
              ELSE IF line.key = key THEN line.value ELSE NULL
<1> DEFINE more == Append(list, line)
<1>1. /\ Len(more) = Len(list) + 1
      /\ DOMAIN more = 1 .. Len(list) + 1
      /\ DOMAIN list = 1 .. Len(list)
      /\ Len(list) \in Nat
      /\ more[Len(list) + 1] = line
      /\ \A k \in 1 .. Len(list) : more[k] = list[k]
  BY AppendProperties, LenProperties
<1>2. At(list, key) \in SUBSET Nat /\ \A k \in At(list, key) : k <= Len(list) + 1
  BY <1>1 DEF At
<1>3. CASE line.key # key
  <2>1. At(more, key) = At(list, key)
    BY <1>1, <1>3 DEF At
  <2>2. At(list, key) # {} => Min(At(list, key)) \in At(list, key)
    BY <1>2, MinIsLeast
  <2>3. \A k \in At(list, key) : more[k] = list[k]
    BY <1>1 DEF At
  <2>. QED
    BY <1>3, <2>1, <2>2, <2>3, GetIsFirst
<1>4. CASE line.key = key
  <2>1. At(more, key) = At(list, key) \cup {Len(list) + 1}
    BY <1>1, <1>4 DEF At
  <2>2. Min(At(more, key)) = IF At(list, key) = {} THEN Len(list) + 1 ELSE Min(At(list, key))
    <3> HIDE DEF more
    <3>1. Len(list) + 1 \in Nat
      BY <1>1
    <3>. QED
      BY <1>2, <2>1, <3>1, MinOfMore
  <2>3. At(list, key) # {} => Min(At(list, key)) \in At(list, key)
    BY <1>2, MinIsLeast
  <2>4. \A k \in At(list, key) : more[k] = list[k]
    BY <1>1 DEF At
  <2>. QED
    BY <1>1, <1>4, <2>1, <2>2, <2>3, <2>4, GetIsFirst
<1>. QED
  BY <1>3, <1>4

LEMMA SaidByMore ==
  ASSUME NEW m \in Message, NEW key, NEW n \in Nat, n + 1 \in DOMAIN m.headers
  PROVE  LET line == m.headers[n + 1]
             said == line.key = key /\ line.value # NULL
         IN /\ SaidAt(m, key, n + 1) = {} <=> SaidAt(m, key, n) = {} /\ ~ said
            /\ SaidBy(m, key, n + 1) =
                 IF SaidAt(m, key, n) # {} THEN SaidBy(m, key, n)
                 ELSE IF said THEN line.value ELSE NULL
<1> DEFINE line == m.headers[n + 1]
           said == line.key = key /\ line.value # NULL
<1>1. DOMAIN m.headers = 1 .. Len(m.headers) /\ Len(m.headers) \in Nat
  BY DEF Message
<1>2. SaidAt(m, key, n) \in SUBSET Nat /\ \A k \in SaidAt(m, key, n) : k <= n + 1
  BY <1>1 DEF SaidAt
<1>3. CASE ~ said
  <2>1. SaidAt(m, key, n + 1) = SaidAt(m, key, n)
    BY <1>1, <1>3 DEF SaidAt
  <2>. QED
    BY <1>3, <2>1 DEF SaidBy
<1>4. CASE said
  <2>1. SaidAt(m, key, n + 1) = SaidAt(m, key, n) \cup {n + 1}
    BY <1>1, <1>4 DEF SaidAt
  <2>2. Min(SaidAt(m, key, n + 1)) =
          IF SaidAt(m, key, n) = {} THEN n + 1 ELSE Min(SaidAt(m, key, n))
    BY <1>2, <2>1, MinOfMore
  <2>. QED
    BY <1>4, <2>1, <2>2 DEF SaidBy
<1>. QED
  BY <1>3, <1>4

\* Behind the last line there is nothing more to say.
LEMMA SaidByAll ==
  ASSUME NEW m \in Message, NEW key, NEW n \in Int, n >= Len(m.headers)
  PROVE  /\ SaidBy(m, key, n) = Says(m, key)
         /\ SaidAt(m, key, n) = SaidAt(m, key, Len(m.headers))
<1>1. DOMAIN m.headers = 1 .. Len(m.headers) /\ Len(m.headers) \in Nat
  BY DEF Message
<1>2. /\ SaidAt(m, key, n) = {k \in DOMAIN m.headers : m.headers[k].key = key /\ m.headers[k].value # NULL}
      /\ SaidAt(m, key, n) = SaidAt(m, key, Len(m.headers))
  BY <1>1 DEF SaidAt
<1>. QED
  BY <1>2 DEF SaidBy, Says

LEMMA KeepsAll ==
  ASSUME NEW list, NEW m \in Message, NEW n \in Int, n >= Len(m.headers), NEW p \in Int,
         p >= Len(m.headers)
  PROVE  Keeps(list, m, n) <=> Keeps(list, m, p)
BY SaidByAll DEF Keeps

-----------------------------------------------------------------------------
(* Where the server is in the message                                      *)

\* The connection has ended within the head.
Cut == closed /\ taken = sent /\ taken < Lines(message)

\* All of the head has been read that there will ever be, or that HTTP/0.9 has.
HeadOver == taken >= Lines(message) \/ Cut \/ message.version = "0.9"

Loading == {"load", "create", "replace"}
Naming == {"read", "load", "replace", "remove"}

\* How much of the body the parser has read for the handlers of /data.
Before == IF FormToData(message) THEN ContentLength ELSE 0

Typed ==
  /\ message \in Messages
  /\ message \in Message
  /\ message.version = "0.9" => message.headers = <<>>
  /\ sent \in 0 .. Total(message)
  /\ closed \in BOOLEAN
  /\ taken \in 0 .. sent
  /\ pc \in {"status", "headers", "content", "dispatch", "done", "aborted"}
  /\ headers \in Seq(Header)

Placed ==
  /\ pc = "status" => taken = 0
  /\ pc = "headers" => taken \in 1 .. Lines(message) - 1 /\ message.version # "0.9"
  /\ pc = "content" => (taken = Lines(message) \/ Cut) /\ message.version # "0.9"
  /\ pc = "dispatch" => HeadOver
  /\ pc = "dispatch" /\ taken >= Lines(message) /\ AtData(message)
       => Before \in Nat /\ taken = Lines(message) + Before

Heard == Keeps(headers, message, taken - 1)

\* What librdf was called with, in terms of the headers the server has.
Worked ==
  work # NULL =>
    /\ pc = "done"
    /\ HeadOver
    /\ work.op \in Loading =>
         /\ taken > Lines(message)
         /\ ContentLength \in Nat \ {0}
         /\ Before + ContentLength <= Len(message.body)
         /\ work.content = SubSeq(message.body, Before + 1, Before + ContentLength)
    /\ (work.op \in Naming /\ ~ HasDefault
        /\ redhttp_request_get_argument(arguments, GraphKey) = NULL)
         => work.graph = redhttp_request_get_url

Understood == Typed /\ Placed /\ Heard /\ Worked

LEMMA MessageTypes ==
  ASSUME NEW m \in Message
  PROVE  /\ m.headers \in Seq(Header)
         /\ m.body \in Seq(Byte)
         /\ Len(m.headers) \in Nat
         /\ Len(m.body) \in Nat
         /\ Lines(m) = Len(m.headers) + 2
         /\ Total(m) = Lines(m) + Len(m.body)
         /\ Lines(m) \in Nat
         /\ Total(m) \in Nat
<1>1. m.headers \in Seq(Header) /\ m.body \in Seq(Byte)
  BY DEF Message
<1>2. Len(m.headers) \in Nat /\ Len(m.body) \in Nat
  BY <1>1, LenProperties
<1>3. Lines(m) = Len(m.headers) + 2 /\ Total(m) = Lines(m) + Len(m.body)
  BY DEF Lines, Total
<1>4. Lines(m) \in Nat
  BY <1>2, <1>3
<1>5. Total(m) \in Nat
  <2>1. Lines(m) + Len(m.body) \in Nat
    BY <1>2, <1>4
  <2>. QED
    BY <1>3, <2>1, Zenon
<1>. QED
  BY <1>1, <1>2, <1>3, <1>4, <1>5

\* A header that has been heard has a type.
LEMMA LengthTyped ==
  ASSUME headers \in Seq(Header)
  PROVE  ContentLength \in {NULL} \cup Nat
<1>1. CASE At(headers, "Content-Length") = {}
  BY <1>1, GetIsFirst DEF ContentLength
<1>2. CASE At(headers, "Content-Length") # {}
  <2>1. At(headers, "Content-Length") \in SUBSET Nat
    BY DEF At
  <2> DEFINE k == Min(At(headers, "Content-Length"))
  <2>2. k \in At(headers, "Content-Length")
    BY <1>2, <2>1, MinIsLeast
  <2>3. headers[k] \in Header /\ headers[k].key = "Content-Length"
    BY <2>2 DEF At
  <2>4. headers[k].value \in {NULL} \cup Nat
    BY <2>3 DEF Header
  <2>. QED
    BY <1>2, <2>4, GetIsFirst DEF ContentLength
<1>. QED
  BY <1>1, <1>2

LEMMA Between ==
  ASSUME NEW n \in Nat, NEW s \in 0 .. n, NEW t \in 0 .. s
  PROVE  s \in Nat /\ t \in Nat /\ t <= s /\ s <= n
OBVIOUS

LEMMA Ranges ==
  ASSUME Typed
  PROVE  /\ message \in Message
         /\ Len(message.headers) \in Nat
         /\ Lines(message) = Len(message.headers) + 2
         /\ Lines(message) \in Nat
         /\ Total(message) \in Nat
         /\ message.body \in Seq(Byte)
         /\ Len(message.body) \in Nat
         /\ Total(message) = Lines(message) + Len(message.body)
         /\ sent \in Nat
         /\ taken \in Nat
         /\ taken <= sent
         /\ sent <= Total(message)
<1>1. message \in Message /\ sent \in 0 .. Total(message) /\ taken \in 0 .. sent
  BY DEF Typed
<1>2. /\ Len(message.headers) \in Nat
      /\ Lines(message) = Len(message.headers) + 2
      /\ Lines(message) \in Nat
      /\ Total(message) \in Nat
      /\ message.body \in Seq(Byte)
      /\ Len(message.body) \in Nat
      /\ Total(message) = Lines(message) + Len(message.body)
  BY <1>1, MessageTypes
<1>3. sent \in Nat /\ taken \in Nat /\ taken <= sent /\ sent <= Total(message)
  BY <1>1, <1>2, Between, Zenon
<1>. QED
  BY <1>1, <1>2, <1>3

\* What fread returns: the next bytes of the body, or fewer at the end.
LEMMA GotTyped ==
  ASSUME Typed, NEW n \in Nat, taken >= Lines(message) \/ taken = sent
  PROVE  /\ Got(n) \in Seq(Byte)
         /\ Len(Got(n)) \in 0 .. n
         /\ taken + Len(Got(n)) <= sent
         /\ taken + Len(Got(n)) \in Nat
         /\ taken < Lines(message) => Len(Got(n)) = 0
         /\ \A p \in Nat : taken = Lines(message) + p /\ Len(Got(n)) = n /\ n > 0
              => p + n <= Len(message.body) /\ Got(n) = SubSeq(message.body, p + 1, p + n)
<1> DEFINE l == Lines(message)
           b == message.body
<1>1. /\ b \in Seq(Byte)
      /\ Len(b) \in Nat
      /\ l \in Nat
      /\ sent \in Nat
      /\ taken \in Nat
      /\ taken <= sent
      /\ sent <= l + Len(b)
  BY Ranges
<1> HIDE DEF l, b
<1> DEFINE bytes == Len(Unread)
           k == Min({n, bytes})
<1>2. \A i \in taken - l + 1 .. sent - l : b[i] \in Byte
  <2> TAKE i \in taken - l + 1 .. sent - l
  <2>1. i \in 1 .. Len(b)
    BY <1>1 DEF l
  <2>. QED
    BY <1>1, <2>1
<1>3. /\ Unread \in Seq(Byte)
      /\ bytes = IF taken - l + 1 <= sent - l THEN (sent - l) - (taken - l + 1) + 1 ELSE 0
  BY <1>1, <1>2, SubSeqProperties DEF Unread, l, b
<1>4. bytes \in Nat /\ bytes = sent - taken
  BY <1>1, <1>3
<1>5. k = (IF n <= bytes THEN n ELSE bytes) /\ k \in Nat
  BY <1>4, MinOfTwo
<1>6. Got(n) = SubSeq(Unread, 1, k)
  BY DEF Got
<1> HIDE DEF bytes, k
<1>7. \A i \in 1 .. k : Unread[i] \in Byte
  BY <1>3, <1>4, <1>5 DEF bytes
<1>8. Got(n) \in Seq(Byte) /\ Len(Got(n)) = IF 1 <= k THEN k - 1 + 1 ELSE 0
  BY <1>5, <1>6, <1>7, SubSeqProperties
<1>9. Got(n) \in Seq(Byte) /\ Len(Got(n)) = k
  BY <1>5, <1>8
<1>10. ASSUME NEW p \in Nat, taken = l + p, k = n, n > 0
       PROVE  p + n <= Len(b) /\ Got(n) = SubSeq(b, p + 1, p + n)
  <2>1. n <= (sent - l) - p /\ sent - l \in 1 .. Len(b) /\ p + 1 \in 1 .. Len(b)
    BY <1>1, <1>4, <1>5, <1>10
  <2>2. Unread = SubSeq(b, p + 1, sent - l)
    <3>1. taken - l + 1 = p + 1
      BY <1>1, <1>10
    <3>. QED
      BY <3>1 DEF Unread, l, b
  <2>3. n \in 1 .. (sent - l) - (p + 1) + 1 /\ 1 \in 1 .. (sent - l) - (p + 1) + 1
    BY <1>1, <1>10, <2>1
  <2>4. SubSeq(SubSeq(b, p + 1, sent - l), 1, n) = SubSeq(b, (p + 1) + 1 - 1, (p + 1) + n - 1)
    BY <1>1, <2>1, <2>3, SubSeqOfSubSeq
  <2>5. (p + 1) + 1 - 1 = p + 1 /\ (p + 1) + n - 1 = p + n
    BY <1>10
  <2>6. p + n <= Len(b)
    BY <1>1, <2>1
  <2>. QED
    BY <1>6, <1>10, <2>2, <2>4, <2>5, <2>6
<1>. QED
  BY <1>1, <1>4, <1>5, <1>9, <1>10 DEF l, b

-----------------------------------------------------------------------------
(* The invariant                                                           *)

LEMMA InitUnderstood == Init => Understood
<1> SUFFICES ASSUME Init PROVE Understood
  OBVIOUS
<1>1. message \in Messages /\ message \in Message /\ (message.version = "0.9" => message.headers = <<>>)
  BY RequestAssumption DEF Init
<1>2. Total(message) \in Nat
  BY <1>1, MessageTypes
<1>3. Typed
  <2>1. sent \in 0 .. Total(message) /\ taken \in 0 .. sent
    BY <1>2 DEF Init
  <2>2. /\ closed \in BOOLEAN
        /\ pc \in {"status", "headers", "content", "dispatch", "done", "aborted"}
        /\ headers \in Seq(Header)
    BY EmptySeq DEF Init
  <2>. QED
    BY <1>1, <2>1, <2>2 DEF Typed
<1>4. Heard
  <2> USE DEF Heard, Keeps
  <2> TAKE key \in HeaderNames
  <2>1. At(headers, key) = {}
    BY DEF Init, At
  <2>3. redhttp_headers_get(headers, key) = NULL
    BY <2>1, GetIsFirst
  <2>2. SaidAt(message, key, taken - 1) = {}
    <3>1. DOMAIN message.headers = 1 .. Len(message.headers)
      BY <1>1, MessageTypes
    <3>. QED
      BY <3>1 DEF Init, SaidAt
  <2>. QED
    BY <2>1, <2>2, <2>3 DEF SaidBy
<1>. QED
  BY <1>3, <1>4 DEF Init, Understood, Placed, Worked

\* The client's steps touch nothing the server has, and nothing comes after
\* the end of the connection.
LEMMA ClientKeeps == Understood /\ (Send \/ HangUp \/ UNCHANGED vars) => Understood'
<1> SUFFICES ASSUME Understood, Send \/ HangUp \/ UNCHANGED vars
             PROVE  Understood'
  OBVIOUS
<1>1. /\ UNCHANGED <<message, taken, pc, headers, arguments, response, work>>
      /\ sent' \in 0 .. Total(message)
      /\ sent <= sent'
      /\ closed' \in BOOLEAN
      /\ closed => closed' /\ sent' = sent
  <2>1. CASE Send
    BY <2>1, Ranges DEF Send, server, Understood, Typed
  <2>2. CASE HangUp
    BY <2>2, Ranges DEF HangUp, server, Understood, Typed
  <2>3. CASE UNCHANGED vars
    BY <2>3, Ranges DEF vars, Understood, Typed
  <2>. QED
    BY <2>1, <2>2, <2>3
<1>2. Typed'
  BY <1>1, Ranges DEF Understood, Typed
<1>3. Cut => Cut'
  BY <1>1 DEF Cut
<1>4. HeadOver => HeadOver'
  BY <1>1, <1>3 DEF HeadOver
<1>9. ContentLength' = ContentLength /\ Before' = Before
  BY <1>1 DEF ContentLength, Before
<1>5. Placed'
  BY <1>1, <1>3, <1>4, <1>9 DEF Understood, Placed
<1>6. Heard'
  BY <1>1 DEF Understood, Heard
<1>7. Worked'
  BY <1>1, <1>4, <1>9 DEF Understood, Worked, HasDefault, redhttp_request_get_url,
                   redhttp_request_get_host
<1>. QED
  BY <1>2, <1>5, <1>6, <1>7 DEF Understood

\* Nothing is said before the first header line.
LEMMA SaidByNone ==
  ASSUME NEW m \in Message, NEW key, NEW n \in Int, n <= 0
  PROVE  SaidAt(m, key, n) = {} /\ SaidBy(m, key, n) = NULL
<1>1. DOMAIN m.headers = 1 .. Len(m.headers)
  BY MessageTypes
<1>2. SaidAt(m, key, n) = {}
  BY <1>1 DEF SaidAt
<1>. QED
  BY <1>2 DEF SaidBy

LEMMA Zero ==
  ASSUME NEW t \in {0, 1}
  PROVE  t - 1 \in Int /\ t - 1 <= 0
OBVIOUS

LEMMA StatusLineKeeps == Understood /\ redhttp_request_read_status_line => Understood'
<1> SUFFICES ASSUME Understood, redhttp_request_read_status_line PROVE Understood'
  OBVIOUS
<1>1. /\ UNCHANGED <<message, sent, closed, headers, work>>
      /\ pc = "status"
      /\ \/ pc' \in {"done", "aborted"}
         \/ pc' = "dispatch" /\ message.version = "0.9" /\ taken' = taken + 1
         \/ pc' = "headers" /\ message.version # "0.9" /\ taken' = taken + 1
      /\ taken' = taken \/ (taken' = taken + 1 /\ taken < sent)
  BY DEF redhttp_request_read_status_line, Reply, Abort, LineArrived
<1>2. taken = 0 /\ work = NULL
  BY <1>1 DEF Understood, Placed, Worked
<1>3. /\ message \in Message
      /\ Lines(message) \in Nat
      /\ Lines(message) >= 2
      /\ sent \in Nat
  BY Ranges DEF Understood
<1>4. taken' \in {0, 1} /\ taken' \in 0 .. sent
  BY <1>1, <1>2, <1>3
<1>5. Typed'
  BY <1>1, <1>4 DEF Understood, Typed
<1>6. Placed'
  BY <1>1, <1>2, <1>3, <1>4 DEF Placed, HeadOver
<1>7. Heard'
  <2>1. taken - 1 \in Int /\ taken - 1 <= 0 /\ taken' - 1 \in Int /\ taken' - 1 <= 0
    BY <1>2, <1>4, Zero, Zenon
  <2>2. ASSUME NEW key
        PROVE  /\ SaidAt(message, key, taken' - 1) = SaidAt(message, key, taken - 1)
               /\ SaidBy(message, key, taken' - 1) = SaidBy(message, key, taken - 1)
    BY <1>3, <2>1, SaidByNone
  <2>. QED
    BY <1>1, <2>2 DEF Understood, Heard, Keeps
<1>8. Worked'
  BY <1>1, <1>2 DEF Worked
<1>. QED
  BY <1>5, <1>6, <1>7, <1>8 DEF Understood

LEMMA NextLine ==
  ASSUME NEW n \in Nat, NEW l, l = n + 2, NEW t \in 1 .. l - 1, t < l - 1, NEW s \in Nat, t < s
  PROVE  /\ t \in 1 .. n
         /\ t \in Nat
         /\ t - 1 \in Nat
         /\ (t - 1) + 1 = t
         /\ (t + 1) - 1 = t
         /\ t + 1 \in 0 .. s
         /\ t + 1 \in 1 .. l - 1
OBVIOUS

LEMMA HeaderLineKeeps == Understood /\ redhttp_headers_parse_line => Understood'
<1> SUFFICES ASSUME Understood, redhttp_headers_parse_line PROVE Understood'
  OBVIOUS
<1> DEFINE line == message.headers[taken]
<1>1. /\ UNCHANGED <<message, sent, closed, work>>
      /\ pc = "headers"
      /\ taken < sent
      /\ taken < Lines(message) - 1
      /\ taken' = taken + 1
      /\ \/ line.key = NULL /\ UNCHANGED <<headers, pc>>
         \/ line.value = NULL /\ UNCHANGED <<headers, pc>>
         \/ line.key = "" /\ pc' = "aborted" /\ UNCHANGED headers
         \/ line.key \notin {NULL, ""} /\ line.value # NULL /\ headers' = Append(headers, line)
              /\ UNCHANGED pc
  BY DEF redhttp_headers_parse_line, Abort, LineArrived
<1>2. work = NULL /\ taken \in 1 .. Lines(message) - 1 /\ message.version # "0.9"
  BY <1>1 DEF Understood, Placed, Worked
<1>3. /\ message \in Message
      /\ Lines(message) = Len(message.headers) + 2
      /\ Len(message.headers) \in Nat
      /\ message.headers \in Seq(Header)
      /\ sent \in Nat
      /\ headers \in Seq(Header)
  BY Ranges, MessageTypes DEF Understood, Typed
<1>4. /\ taken \in 1 .. Len(message.headers)
      /\ taken \in Nat
      /\ taken - 1 \in Nat
      /\ (taken - 1) + 1 = taken
      /\ (taken + 1) - 1 = taken
      /\ taken + 1 \in 0 .. sent
      /\ taken + 1 \in 1 .. Lines(message) - 1
  BY <1>1, <1>2, <1>3, NextLine, Zenon
<1>5. line \in Header
  BY <1>3, <1>4, ElementOfSeq
<1>6. taken' \in 0 .. sent /\ taken' \in 1 .. Lines(message) - 1
  BY <1>1, <1>4, Zenon
<1>7. headers' \in Seq(Header)
  BY <1>1, <1>3, <1>5, AppendProperties, ZenonT(40)
<1>8. Typed'
  BY <1>1, <1>6, <1>7 DEF Understood, Typed
<1>9. Placed'
  BY <1>1, <1>2, <1>6 DEF Placed
<1>10. Heard'
  <2> SUFFICES ASSUME NEW key \in HeaderNames
               PROVE  /\ At(headers', key) = {} <=> SaidAt(message, key, taken) = {}
                      /\ redhttp_headers_get(headers', key) = SaidBy(message, key, taken)
    <3>1. taken' - 1 = taken
      BY <1>1, <1>4, Zenon
    <3>. QED
      BY <1>1, <3>1 DEF Heard, Keeps
  <2>1. /\ At(headers, key) = {} <=> SaidAt(message, key, taken - 1) = {}
        /\ redhttp_headers_get(headers, key) = SaidBy(message, key, taken - 1)
    BY DEF Understood, Heard, Keeps
  <2>2. /\ SaidAt(message, key, taken) = {}
             <=> SaidAt(message, key, taken - 1) = {} /\ ~ (line.key = key /\ line.value # NULL)
        /\ SaidBy(message, key, taken) =
             IF SaidAt(message, key, taken - 1) # {} THEN SaidBy(message, key, taken - 1)
             ELSE IF line.key = key /\ line.value # NULL THEN line.value ELSE NULL
    <3> DEFINE n == taken - 1
    <3>1. n \in Nat /\ n + 1 = taken
      BY <1>4
    <3>2. n + 1 \in DOMAIN message.headers
      BY <1>3, <1>4, <3>1
    <3> HIDE DEF n
    <3>3. LET l == message.headers[n + 1]
              said == l.key = key /\ l.value # NULL
          IN /\ SaidAt(message, key, n + 1) = {} <=> SaidAt(message, key, n) = {} /\ ~ said
             /\ SaidBy(message, key, n + 1) =
                  IF SaidAt(message, key, n) # {} THEN SaidBy(message, key, n)
                  ELSE IF said THEN l.value ELSE NULL
      BY <1>3, <3>1, <3>2, SaidByMore, Zenon
    <3>. QED
      BY <3>1, <3>3, Zenon DEF n
  <2>3. SaidAt(message, key, taken - 1) = {} => SaidBy(message, key, taken - 1) = NULL
    BY DEF SaidBy
  <2>4. /\ At(Append(headers, line), key) = {} <=> At(headers, key) = {} /\ line.key # key
        /\ redhttp_headers_get(Append(headers, line), key) =
             IF At(headers, key) # {} THEN redhttp_headers_get(headers, key)
             ELSE IF line.key = key THEN line.value ELSE NULL
    BY <1>3, <1>5, GetOfAppend
  <2>5. CASE line.key = ""
    <3>1. line.key # key
      BY <2>5 DEF HeaderNames
    <3>. QED
      BY <1>1, <2>1, <2>2, <2>3, <2>4, <3>1, Zenon
  <2>6. CASE line.value = NULL
    <3>1. headers' = headers
      BY <1>1, <2>6
    <3>. QED
      BY <2>1, <2>2, <2>3, <2>6, <3>1
  <2>7. CASE line.key = NULL
    <3>1. line.key # key
      BY <2>7, RequestAssumption DEF HeaderNames
    <3>. QED
      BY <1>1, <2>1, <2>2, <2>3, <2>4, <3>1, Zenon
  <2>8. CASE line.key \notin {NULL, ""} /\ line.value # NULL
    BY <1>1, <2>1, <2>2, <2>4, <2>8
  <2>. QED
    BY <2>5, <2>6, <2>7, <2>8
<1>11. Worked'
  BY <1>1, <1>2 DEF Worked
<1>. QED
  BY <1>8, <1>9, <1>10, <1>11 DEF Understood

LEMMA BlankLine ==
  ASSUME NEW n \in Nat, NEW l, l = n + 2, NEW t, t = l - 1, NEW s \in Nat, t < s
  PROVE  /\ t + 1 = l
         /\ t + 1 \in 0 .. s
         /\ t - 1 \in Int /\ t - 1 >= n
         /\ (t + 1) - 1 \in Int /\ (t + 1) - 1 >= n
OBVIOUS

LEMMA HeadEndKeeps == Understood /\ headers_end => Understood'
<1> SUFFICES ASSUME Understood, headers_end PROVE Understood'
  OBVIOUS
<1>1. /\ UNCHANGED <<message, sent, closed, headers, arguments, work>>
      /\ pc = "headers"
      /\ pc' = "content"
      /\ \/ closed /\ taken = sent /\ taken' = taken
         \/ taken < sent /\ taken = Lines(message) - 1 /\ taken' = taken + 1
  BY DEF headers_end, EndOfFile, LineArrived
<1>2. work = NULL /\ taken \in 1 .. Lines(message) - 1 /\ message.version # "0.9"
  BY <1>1 DEF Understood, Placed, Worked
<1>3. /\ message \in Message
      /\ Lines(message) = Len(message.headers) + 2
      /\ Lines(message) \in Nat
      /\ Len(message.headers) \in Nat
      /\ sent \in Nat
  BY Ranges DEF Understood
<1>4. Worked'
  BY <1>1, <1>2 DEF Worked
<1>5. CASE closed /\ taken = sent /\ taken' = taken
  <2>1. taken < Lines(message)
    BY <1>2, <1>3
  <2>2. Typed'
    BY <1>1, <1>5 DEF Understood, Typed
  <2>3. Placed'
    BY <1>1, <1>2, <1>5, <2>1 DEF Placed, Cut
  <2>4. Heard'
    BY <1>1, <1>5 DEF Understood, Heard
  <2>. QED
    BY <1>4, <2>2, <2>3, <2>4 DEF Understood
<1>6. CASE taken < sent /\ taken = Lines(message) - 1 /\ taken' = taken + 1
  <2>1. /\ taken + 1 = Lines(message)
        /\ taken + 1 \in 0 .. sent
        /\ taken - 1 \in Int /\ taken - 1 >= Len(message.headers)
        /\ (taken + 1) - 1 \in Int /\ (taken + 1) - 1 >= Len(message.headers)
    BY <1>3, <1>6, BlankLine, Zenon
  <2>2. Typed'
    BY <1>1, <1>6, <2>1 DEF Understood, Typed
  <2>3. Placed'
    BY <1>1, <1>2, <1>6, <2>1 DEF Placed
  <2>4. Heard'
    <3>1. Keeps(headers, message, (taken + 1) - 1)
      BY <1>3, <2>1, KeepsAll DEF Understood, Heard
    <3>. QED
      BY <1>1, <1>6, <3>1 DEF Heard
  <2>. QED
    BY <1>4, <2>2, <2>3, <2>4 DEF Understood
<1>. QED
  BY <1>1, <1>5, <1>6

-----------------------------------------------------------------------------
(* Reading the body                                                        *)

LEMMA Forward ==
  ASSUME NEW t \in Nat, NEW d \in Nat, NEW n \in Nat, NEW l, l = n + 2
  PROVE  /\ t + d \in Nat
         /\ t + d >= t
         /\ d = 0 => t + d = t
         /\ t >= l => t - 1 \in Int /\ t - 1 >= n /\ (t + d) - 1 \in Int /\ (t + d) - 1 >= n /\ t + d >= l
         /\ t >= l /\ d > 0 => t + d > l
OBVIOUS

\* A read moves on in the body, and nowhere if the head was cut.
LEMMA ReadKeeps ==
  ASSUME Typed, Heard, NEW n \in Nat, taken >= Lines(message) \/ Cut,
         taken' = taken + Len(Got(n)), UNCHANGED <<message, sent, closed, headers>>
  PROVE  /\ taken' \in 0 .. sent
         /\ taken >= Lines(message) => taken' >= Lines(message)
         /\ Cut => taken' = taken /\ Len(Got(n)) = 0
         /\ taken >= Lines(message) /\ Len(Got(n)) > 0 => taken' > Lines(message)
         /\ Heard'
<1> DEFINE d == Len(Got(n))
<1>1. /\ message \in Message
      /\ Lines(message) = Len(message.headers) + 2
      /\ Len(message.headers) \in Nat
      /\ taken \in Nat
      /\ sent \in Nat
  BY Ranges
<1>2. taken >= Lines(message) \/ taken = sent
  BY DEF Cut
<1>3. d \in 0 .. n /\ taken + d <= sent /\ taken + d \in Nat /\ (taken < Lines(message) => d = 0)
  BY <1>2, GotTyped
<1> HIDE DEF d
<1>4. d \in Nat
  BY <1>3
<1>5. /\ taken + d >= taken
      /\ d = 0 => taken + d = taken
      /\ taken >= Lines(message) =>
           /\ taken - 1 \in Int /\ taken - 1 >= Len(message.headers)
           /\ (taken + d) - 1 \in Int /\ (taken + d) - 1 >= Len(message.headers)
           /\ taken + d >= Lines(message)
      /\ taken >= Lines(message) /\ d > 0 => taken + d > Lines(message)
  BY <1>1, <1>4, Forward, SMTT(30)
<1>6. taken + d \in 0 .. sent
  BY <1>1, <1>3
<1>7. Heard'
  <2>1. CASE taken >= Lines(message)
    <3>1. Keeps(headers, message, (taken + d) - 1)
      BY <1>1, <1>5, <2>1, KeepsAll DEF Heard
    <3>. QED
      BY <3>1 DEF Heard, d
  <2>2. CASE Cut
    <3>1. taken' = taken
      BY <1>3, <1>5, <2>2 DEF Cut, d
    <3>. QED
      BY <3>1 DEF Heard
  <2>. QED
    BY <2>1, <2>2
<1>8. Cut => d = 0
  BY <1>3 DEF Cut
<1>. QED
  BY <1>5, <1>6, <1>7, <1>8 DEF d

\* Once all lines are read, a header is what the client says.
LEMMA HeardAll ==
  ASSUME Typed, Heard, taken >= Lines(message) \/ message.version = "0.9", NEW key \in HeaderNames
  PROVE  redhttp_headers_get(headers, key) = Says(message, key)
<1>1. /\ message \in Message
      /\ Lines(message) = Len(message.headers) + 2
      /\ Len(message.headers) \in Nat
      /\ taken \in Nat
  BY Ranges
<1>2. redhttp_headers_get(headers, key) = SaidBy(message, key, taken - 1)
  BY DEF Heard, Keeps
<1>3. CASE taken >= Lines(message)
  <2>1. taken - 1 \in Int /\ taken - 1 >= Len(message.headers)
    BY <1>1, <1>3
  <2>. QED
    BY <1>1, <1>2, <2>1, SaidByAll
<1>4. CASE message.version = "0.9"
  <2>1. DOMAIN message.headers = {}
    BY <1>4 DEF Typed
  <2>2. SaidAt(message, key, taken - 1) = {} /\ Says(message, key) = NULL
    BY <2>1 DEF SaidAt, Says
  <2>. QED
    BY <1>2, <2>2 DEF SaidBy
<1>. QED
  BY <1>3, <1>4

LEMMA OldHasNoLength ==
  ASSUME Typed, Heard, message.version = "0.9"
  PROVE  ContentLength = NULL
<1>1. Says(message, "Content-Length") = NULL
  <2>1. DOMAIN message.headers = {}
    BY DEF Typed
  <2>. QED
    BY <2>1 DEF Says
<1>. QED
  BY <1>1, HeardAll DEF HeaderNames, ContentLength

LEMMA NoFormKeeps == Understood /\ no_form => Understood'
<1> SUFFICES ASSUME Understood, no_form PROVE Understood'
  OBVIOUS
<1>1. /\ UNCHANGED <<message, sent, closed, taken, headers, arguments, work>>
      /\ pc = "content"
      /\ pc' \in {"dispatch", "done"}
      /\ pc' = "dispatch" => message.method # "POST" \/ ContentType # "form"
  BY DEF no_form, Reply
<1>2. work = NULL /\ (taken = Lines(message) \/ Cut) /\ message.version # "0.9"
  BY <1>1 DEF Understood, Placed, Worked
<1>3. Lines(message) \in Nat /\ taken \in Nat
  BY Ranges DEF Understood
<1>4. ~ taken > Lines(message) /\ (taken >= Lines(message) \/ Cut)
  BY <1>2, <1>3 DEF Cut
<1>5. Typed'
  BY <1>1 DEF Understood, Typed
<1>9. ASSUME pc' = "dispatch", taken >= Lines(message) PROVE ~ FormToData(message)
  BY <1>1, <1>9, HeardAll DEF Understood, HeaderNames, ContentType, IsForm, FormToData
<1>10. ASSUME pc' = "dispatch", taken >= Lines(message)
       PROVE  Before' \in Nat /\ taken = Lines(message) + Before'
  BY <1>1, <1>3, <1>4, <1>9, <1>10 DEF Before
<1>6. Placed'
  BY <1>1, <1>4, <1>10 DEF Placed, HeadOver, Cut
<1>7. Heard'
  BY <1>1 DEF Understood, Heard
<1>8. Worked'
  BY <1>1, <1>2 DEF Worked
<1>. QED
  BY <1>5, <1>6, <1>7, <1>8 DEF Understood

LEMMA FormKeeps == Understood /\ read_form => Understood'
<1> SUFFICES ASSUME Understood, read_form PROVE Understood'
  OBVIOUS
<1>1. /\ UNCHANGED <<message, sent, closed, headers, work>>
      /\ pc = "content"
      /\ pc' \in {"done", "aborted", "dispatch"}
      /\ message.method = "POST"
      /\ ContentType = "form"
      /\ ContentLength # NULL
      /\ taken' = taken + Len(Got(ContentLength))
      /\ pc' = "dispatch" => Len(Got(ContentLength)) = ContentLength
  BY DEF read_form, fread, Reply, Abort
<1>2. work = NULL /\ (taken = Lines(message) \/ Cut) /\ message.version # "0.9"
  BY <1>1 DEF Understood, Placed, Worked
<1>3. Typed /\ Heard /\ Lines(message) \in Nat /\ taken \in Nat
  BY Ranges DEF Understood
<1>4. ContentLength \in Nat
  BY <1>1, <1>3, LengthTyped DEF Typed
<1>5. taken >= Lines(message) \/ Cut
  BY <1>2, <1>3
<1>6. /\ taken' \in 0 .. sent
      /\ taken >= Lines(message) => taken' >= Lines(message)
      /\ Cut => taken' = taken
      /\ Heard'
  BY <1>1, <1>3, <1>4, <1>5, ReadKeeps
<1>7. Typed'
  BY <1>1, <1>6 DEF Understood, Typed
<1>8. HeadOver'
  BY <1>1, <1>5, <1>6 DEF HeadOver, Cut
<1>9. ASSUME pc' = "dispatch", taken' >= Lines(message), AtData(message)
      PROVE  Before' \in Nat /\ taken' = Lines(message) + Before'
  <2>1. ~ Cut
    <3>1. CASE Cut
      <4>1. taken < Lines(message) /\ taken' = taken
        BY <1>6, <3>1 DEF Cut
      <4>. QED
        BY <1>3, <1>9, <4>1
    <3>. QED
      BY <3>1
  <2>2. taken = Lines(message) /\ taken >= Lines(message)
    BY <1>2, <1>3, <2>1
  <2>3. FormToData(message)
    BY <1>1, <1>2, <1>3, <1>9, <2>2, HeardAll DEF HeaderNames, ContentType, IsForm, FormToData
  <2>4. Before' = ContentLength
    BY <1>1, <2>3 DEF Before, ContentLength
  <2>. QED
    BY <1>1, <1>4, <1>9, <2>2, <2>4
<1>10. Placed'
  BY <1>1, <1>8, <1>9 DEF Placed
<1>11. Worked'
  BY <1>1, <1>2 DEF Worked
<1>. QED
  BY <1>6, <1>7, <1>10, <1>11 DEF Understood

-----------------------------------------------------------------------------
(* The handlers                                                            *)

\* What is read for a handler and handed on is the body declared.
LEMMA BodyKeeps ==
  ASSUME Understood, pc = "dispatch", AtData(message), NEW op, NEW graph,
         parse_data_from_request_body(op, graph),
         UNCHANGED <<message, sent, closed, headers, arguments>>
  PROVE  /\ Typed'
         /\ Heard'
         /\ HeadOver'
         /\ pc' = "done"
         /\ work' # NULL =>
              /\ work'.op = op
              /\ work'.graph = graph
              /\ taken' > Lines(message)
              /\ ContentLength \in Nat \ {0}
              /\ Before + ContentLength <= Len(message.body)
              /\ work'.content = SubSeq(message.body, Before + 1, Before + ContentLength)
<1>1. /\ Typed /\ Heard /\ HeadOver /\ work = NULL
      /\ taken >= Lines(message) => Before \in Nat /\ taken = Lines(message) + Before
  BY DEF Understood, Placed, Worked
<1>2. Lines(message) \in Nat /\ taken \in Nat
  BY <1>1, Ranges
<1>3. CASE ContentLength \in {NULL, 0} /\ Reply(400) /\ UNCHANGED <<taken, work>>
  <2>1. pc' = "done"
    BY <1>3 DEF Reply
  <2>2. Typed' /\ Heard' /\ HeadOver'
    BY <1>1, <1>3, <2>1 DEF Typed, Heard, HeadOver, Cut
  <2>. QED
    BY <1>1, <1>3, <2>1, <2>2
<1>4. CASE /\ ContentLength \notin {NULL, 0}
           /\ fread(ContentLength)
           /\ \/ ~ BodyComplete /\ Reply(500) /\ UNCHANGED work
              \/ BodyComplete /\ Call(op, graph, Got(ContentLength))
  <2>1. ContentLength \in Nat \ {0}
    BY <1>1, <1>4, LengthTyped DEF Typed
  <2>2. taken >= Lines(message) \/ Cut
    BY <1>1, <1>4, OldHasNoLength DEF HeadOver
  <2>3. taken' = taken + Len(Got(ContentLength)) /\ pc' = "done"
    BY <1>4 DEF fread, Reply, Call
  <2>4. /\ taken' \in 0 .. sent
        /\ taken >= Lines(message) => taken' >= Lines(message)
        /\ Cut => taken' = taken /\ Len(Got(ContentLength)) = 0
        /\ taken >= Lines(message) /\ Len(Got(ContentLength)) > 0 => taken' > Lines(message)
        /\ Heard'
    BY <1>1, <2>1, <2>2, <2>3, ReadKeeps
  <2>5. Typed'
    BY <1>1, <2>3, <2>4 DEF Typed
  <2>6. HeadOver'
    BY <2>2, <2>4 DEF HeadOver, Cut
  <2>7. ASSUME work' # NULL
        PROVE  /\ work' = [op |-> op, graph |-> graph, content |-> Got(ContentLength)]
               /\ Len(Got(ContentLength)) = ContentLength
    BY <1>1, <1>4, <2>7 DEF Call, BodyComplete
  <2>8. ASSUME work' # NULL
        PROVE  /\ taken' > Lines(message)
               /\ taken >= Lines(message)
    <3>1. Len(Got(ContentLength)) > 0
      BY <2>1, <2>7, <2>8
    <3>2. ~ Cut
      BY <2>4, <3>1
    <3>. QED
      BY <2>2, <2>4, <3>1, <3>2
  <2>9. ASSUME work' # NULL
        PROVE  /\ Before + ContentLength <= Len(message.body)
               /\ Got(ContentLength) = SubSeq(message.body, Before + 1, Before + ContentLength)
    <3>1. Before \in Nat /\ taken = Lines(message) + Before /\ taken >= Lines(message)
      BY <1>1, <2>8, <2>9
    <3>2. Len(Got(ContentLength)) = ContentLength /\ ContentLength > 0 /\ ContentLength \in Nat
      BY <2>1, <2>7, <2>9
    <3> DEFINE n == ContentLength
               p == Before
    <3> HIDE DEF n, p
    <3>3. p \in Nat /\ n \in Nat /\ Len(Got(n)) = n /\ n > 0 /\ taken = Lines(message) + p
      BY <3>1, <3>2 DEF n, p
    <3>4. p + n <= Len(message.body) /\ Got(n) = SubSeq(message.body, p + 1, p + n)
      BY <1>1, <3>1, <3>3, GotTyped
    <3>. QED
      BY <3>4 DEF n, p
  <2>. QED
    BY <2>1, <2>3, <2>4, <2>5, <2>6, <2>7, <2>8, <2>9
<1>. QED
  BY <1>3, <1>4 DEF parse_data_from_request_body

\* Everything else leaves the rest of the message unread.
LEMMA StayKeeps ==
  ASSUME Understood, pc = "dispatch", pc' = "done",
         UNCHANGED <<message, sent, closed, taken, headers, arguments>>
  PROVE  Typed' /\ Heard' /\ HeadOver'
BY DEF Understood, Placed, Typed, Heard, HeadOver, Cut

LEMMA DataKeeps == Understood /\ handle_data => Understood'
<1> SUFFICES ASSUME Understood, handle_data PROVE Understood'
  OBVIOUS
<1>1. /\ UNCHANGED <<message, sent, closed, headers, arguments>>
      /\ pc = "dispatch"
      /\ AtData(message)
  BY DEF handle_data
<1>2. work = NULL
  BY <1>1 DEF Understood, Worked
<1>3. /\ ContentLength' = ContentLength
      /\ Before' = Before
      /\ HasDefault' = HasDefault
      /\ redhttp_request_get_url' = redhttp_request_get_url
  BY <1>1 DEF ContentLength, Before, HasDefault, redhttp_request_get_url, redhttp_request_get_host
<1>4. redhttp_request_get_argument(arguments, GraphKey) = NULL => get_graph_node = redhttp_request_get_url
  BY DEF get_graph_node
<1>5. CASE \E op \in Loading : \E graph :
              /\ parse_data_from_request_body(op, graph)
              /\ HasDefault \/ op = "create" \/ graph = get_graph_node
  <2>1. PICK op \in Loading : \E graph :
              /\ parse_data_from_request_body(op, graph)
              /\ HasDefault \/ op = "create" \/ graph = get_graph_node
    BY <1>5
  <2>6. PICK graph : /\ parse_data_from_request_body(op, graph)
                     /\ HasDefault \/ op = "create" \/ graph = get_graph_node
    BY <2>1
  <2>2. /\ Typed' /\ Heard' /\ HeadOver'
        /\ pc' = "done"
        /\ work' # NULL =>
              /\ work'.op = op
              /\ work'.graph = graph
              /\ taken' > Lines(message)
              /\ ContentLength \in Nat \ {0}
              /\ Before + ContentLength <= Len(message.body)
              /\ work'.content = SubSeq(message.body, Before + 1, Before + ContentLength)
    BY <1>1, <2>6, BodyKeeps
  <2>3. Placed'
    BY <2>2 DEF Placed
  <2>4. ASSUME work' # NULL, work'.op \in Naming, ~ HasDefault,
               redhttp_request_get_argument(arguments, GraphKey) = NULL
        PROVE  work'.graph = redhttp_request_get_url
    <3>1. op # "create"
      BY <2>2, <2>4 DEF Naming
    <3>. QED
      BY <1>4, <2>2, <2>4, <2>6, <3>1
  <2>5. Worked'
    <3> SUFFICES ASSUME work' # NULL
                 PROVE  /\ pc' = "done"
                        /\ HeadOver'
                        /\ taken' > Lines(message)
                        /\ ContentLength \in Nat \ {0}
                        /\ Before + ContentLength <= Len(message.body)
                        /\ work'.content = SubSeq(message.body, Before + 1, Before + ContentLength)
                        /\ (work'.op \in Naming /\ ~ HasDefault
                            /\ redhttp_request_get_argument(arguments, GraphKey) = NULL)
                              => work'.graph = redhttp_request_get_url
      BY <1>1, <1>3, Zenon DEF Worked
    <3>. QED
      BY <2>2, <2>4
  <2>. QED
    BY <2>2, <2>3, <2>5 DEF Understood
<1>6. CASE \/ \E status : Refuses(status)
           \/ handle_data_get
           \/ handle_data_delete
  <2>1. pc' = "done" /\ UNCHANGED taken
    BY <1>6 DEF Refuses, handle_data_get, handle_data_delete, Call, Reply
  <2>2. work' # NULL =>
          /\ work'.op \in {"read", "remove", "clear"}
          /\ HasDefault \/ work'.graph = get_graph_node
    BY <1>2, <1>6 DEF Refuses, handle_data_get, handle_data_delete, Call
  <2>3. Typed' /\ Heard' /\ HeadOver'
    BY <1>1, <2>1, StayKeeps
  <2>4. Placed'
    BY <2>1 DEF Placed
  <2>5. ASSUME work' # NULL PROVE work'.op \notin Loading
    BY <2>2, <2>5 DEF Loading
  <2>6. Worked'
    BY <1>1, <1>3, <1>4, <2>1, <2>2, <2>3, <2>5 DEF Worked
  <2>. QED
    BY <2>3, <2>4, <2>6 DEF Understood
<1>7. \/ \E op \in Loading : \E graph :
              /\ parse_data_from_request_body(op, graph)
              /\ HasDefault \/ op = "create" \/ graph = get_graph_node
      \/ \E status : Refuses(status)
      \/ handle_data_get
      \/ handle_data_delete
  <2>1. CASE Unclear /\ Refuses(400)
    BY <2>1
  <2>2. CASE handle_data_post
    BY <2>2 DEF handle_data_post, Loading
  <2>3. CASE handle_data_put
    BY <2>3 DEF handle_data_put, Loading
  <2>. QED
    BY <2>1, <2>2, <2>3 DEF handle_data
<1>. QED
  BY <1>5, <1>6, <1>7

LEMMA NotFoundKeeps ==
  ASSUME Understood, handle_not_found
  PROVE  Understood'
<1>1. /\ UNCHANGED <<message, sent, closed, taken, headers, arguments, work>>
      /\ pc = "dispatch"
      /\ pc' = "done"
  BY DEF handle_not_found, Refuses, Reply
<1>2. work = NULL
  BY <1>1 DEF Understood, Worked
<1>3. Typed' /\ Heard' /\ HeadOver'
  BY <1>1, StayKeeps
<1>4. Placed' /\ Worked'
  BY <1>1, <1>2 DEF Placed, Worked
<1>. QED
  BY <1>3, <1>4 DEF Understood

LEMMA FormPostKeeps ==
  ASSUME Understood, handle_insert_post \/ handle_delete_post
  PROVE  Understood'
<1>1. PICK op \in {"insert", "delete"} : \E path : handle_form_post(path, op)
  BY DEF handle_insert_post, handle_delete_post
<1>2. /\ UNCHANGED <<message, sent, closed, taken, headers, arguments>>
      /\ pc = "dispatch"
      /\ pc' = "done"
      /\ work' = work \/ work'.op = op
  BY <1>1 DEF handle_form_post, Refuses, Call, Reply
<1>3. work = NULL
  BY <1>2 DEF Understood, Worked
<1>4. Typed' /\ Heard' /\ HeadOver'
  BY <1>2, StayKeeps
<1>5. work' # NULL => work'.op \notin Loading /\ work'.op \notin Naming
  BY <1>1, <1>2, <1>3 DEF Loading, Naming
<1>6. Placed' /\ Worked'
  BY <1>2, <1>4, <1>5 DEF Placed, Worked
<1>. QED
  BY <1>4, <1>6 DEF Understood

-----------------------------------------------------------------------------
(* The arguments                                                           *)

QueryArguments == redhttp_request_parse_arguments(Query(message.target))
FormArguments == redhttp_request_parse_arguments(Declared(message))

\* The query string, and behind it the whole form.
FromQuery == arguments = QueryArguments
FromBoth ==
  /\ message.method = "POST"
  /\ Declared(message) \in Seq(Byte)
  /\ arguments = QueryArguments \o FormArguments

Listed ==
  /\ pc = "status" => arguments = <<>>
  /\ pc \in {"headers", "content"} => FromQuery
  /\ pc = "dispatch" \/ work # NULL => FromQuery \/ FromBoth
  /\ arguments = <<>> \/ FromQuery \/ FromBoth

LEMMA TargetParts ==
  ASSUME NEW target \in Seq(Byte)
  PROVE  /\ Question(target) \in 1 .. Len(target) + 1
         /\ Question(target) \in Nat \ {0}
         /\ Query(target) \in Seq(Byte)
         /\ Question(target) <= Len(target) => target[Question(target)] = 63
         /\ \A k \in DOMAIN target : target[k] = 63 => Question(target) <= k
<1>1. Question(target) = First({63}, target)
  BY DEF Question, First
<1>2. /\ Question(target) \in 1 .. Len(target) + 1
      /\ Question(target) \in Nat \ {0}
      /\ Question(target) <= Len(target) => target[Question(target)] \in {63}
      /\ \A k \in DOMAIN target : target[k] \in {63} => Question(target) <= k
  BY <1>1, FirstTyped
<1>3. Query(target) \in Seq(Byte)
  BY <1>2, Behind DEF Query
<1>. QED
  BY <1>2, <1>3

LEMMA TargetTyped ==
  ASSUME Typed
  PROVE  message.target \in Seq(Byte) /\ Query(message.target) \in Seq(Byte)
<1>1. message.target \in Seq(Byte)
  BY DEF Typed, Message
<1>. QED
  BY <1>1, TargetParts

LEMMA ListedTyped ==
  ASSUME Typed, Listed
  PROVE  arguments \in Seq(ArgumentRecord) /\ QueryArguments \in Seq(ArgumentRecord)
<1>1. QueryArguments \in Seq(ArgumentRecord)
  BY TargetTyped, Parsed DEF QueryArguments, redhttp_request_parse_arguments
<1>2. FromBoth => arguments \in Seq(ArgumentRecord)
  <2>1. Declared(message) \in Seq(Byte) => FormArguments \in Seq(ArgumentRecord)
    BY Parsed DEF FormArguments, redhttp_request_parse_arguments
  <2>. QED
    BY <1>1, <2>1, ConcatProperties DEF FromBoth
<1>3. <<>> \in Seq(ArgumentRecord)
  BY EmptySeq
<1>. QED
  BY <1>1, <1>2, <1>3 DEF Listed, FromQuery

\* What has been read of the form, if anything, is the form.
LEMMA FormRead ==
  ASSUME Understood, read_form, Len(Got(ContentLength)) = ContentLength
  PROVE  \/ Got(ContentLength) = <<>>
         \/ /\ IsForm(message)
            /\ Declared(message) \in Seq(Byte)
            /\ Got(ContentLength) = Declared(message)
<1>1. /\ pc = "content" /\ message.method = "POST"
      /\ ContentType = "form" /\ ContentLength # NULL
  BY DEF read_form
<1>2. (taken = Lines(message) \/ Cut) /\ message.version # "0.9"
  BY <1>1 DEF Understood, Placed
<1>3. /\ Typed /\ Heard /\ headers \in Seq(Header)
      /\ Lines(message) \in Nat /\ taken \in Nat
      /\ message.body \in Seq(Byte) /\ Len(message.body) \in Nat
  BY Ranges DEF Understood, Typed
<1> DEFINE n == ContentLength
<1>4. n \in Nat
  BY <1>1, <1>3, LengthTyped
<1> HIDE DEF n
<1>5. taken >= Lines(message) \/ taken = sent
  BY <1>2, <1>3 DEF Cut
<1>6. /\ Got(n) \in Seq(Byte)
      /\ taken < Lines(message) => Len(Got(n)) = 0
      /\ (taken = Lines(message) /\ Len(Got(n)) = n /\ n > 0)
           => n <= Len(message.body) /\ Got(n) = SubSeq(message.body, 1, n)
  <2>1. /\ Got(n) \in Seq(Byte)
        /\ taken < Lines(message) => Len(Got(n)) = 0
        /\ \A p \in Nat : taken = Lines(message) + p /\ Len(Got(n)) = n /\ n > 0
             => p + n <= Len(message.body) /\ Got(n) = SubSeq(message.body, p + 1, p + n)
    BY <1>3, <1>4, <1>5, GotTyped
  <2>2. Lines(message) + 0 = Lines(message) /\ 0 + n = n /\ 0 + 1 = 1 /\ 0 \in Nat
    BY <1>3, <1>4
  <2>3. taken = Lines(message) /\ Len(Got(n)) = n /\ n > 0
          => 0 + n <= Len(message.body) /\ Got(n) = SubSeq(message.body, 0 + 1, 0 + n)
    BY <2>1, <2>2
  <2>. QED
    BY <2>1, <2>2, <2>3
<1>7. Len(Got(n)) = n
  BY DEF n
<1>8. CASE n = 0
  BY <1>6, <1>7, <1>8, EmptyIsShort DEF n
<1>9. CASE n # 0
  <2>1. taken = Lines(message) /\ taken >= Lines(message)
    <3>1. ~ taken < Lines(message)
      BY <1>6, <1>7, <1>9
    <3>. QED
      BY <1>2, <1>3, <3>1 DEF Cut
  <2>2. n > 0
    BY <1>4, <1>9
  <2>3. n <= Len(message.body) /\ Got(n) = SubSeq(message.body, 1, n)
    BY <1>6, <1>7, <2>1, <2>2
  <2>4. Says(message, "Content-Length") = n /\ Says(message, "Content-Type") = "form"
    BY <1>1, <1>3, <2>1, HeardAll DEF HeaderNames, ContentLength, ContentType, n
  <2>5. Min({n, Len(message.body)}) = n
    BY <1>3, <1>4, <2>3, MinOfTwo
  <2>6. Declared(message) = Got(n)
    BY <2>3, <2>4, <2>5 DEF Declared
  <2>7. IsForm(message)
    BY <1>1, <1>2, <2>4 DEF IsForm
  <2>. QED
    BY <1>6, <2>6, <2>7 DEF n
<1>. QED
  BY <1>8, <1>9

LEMMA ListedInit == Init => Listed
BY DEF Init, Listed

LEMMA ListedNext ==
  ASSUME Understood, Listed, [Next]_vars
  PROVE  Listed'
<1>1. CASE Send \/ HangUp \/ UNCHANGED vars
  <2>1. UNCHANGED <<message, pc, arguments, work>>
    BY <1>1 DEF Send, HangUp, vars, server
  <2>. QED
    BY <2>1 DEF Listed, FromQuery, FromBoth, QueryArguments, FormArguments
<1>2. ASSUME Server
      PROVE  message' = message /\ QueryArguments' = QueryArguments /\ FormArguments' = FormArguments
  <2>1. message' = message
    BY <1>2 DEF Server, redhttp_request_read_status_line, redhttp_headers_parse_line, headers_end,
                no_form, read_form, handle_data, handle_insert_post, handle_delete_post, handle_form_post,
                handle_not_found
  <2>. QED
    BY <2>1 DEF QueryArguments, FormArguments
<1>3. CASE redhttp_request_read_status_line
  <2>1. work' = NULL /\ message' = message
    BY <1>3 DEF redhttp_request_read_status_line, Understood, Worked
  <2>2. \/ pc' \in {"done", "aborted"} /\ arguments' = arguments
        \/ pc' \in {"headers", "dispatch"} /\ arguments' = QueryArguments
    BY <1>3 DEF redhttp_request_read_status_line, Reply, Abort, QueryArguments
  <2>3. arguments = <<>>
    BY <1>3 DEF redhttp_request_read_status_line, Listed
  <2>. QED
    BY <2>1, <2>2, <2>3 DEF Listed, FromQuery, QueryArguments
<1>4. CASE redhttp_headers_parse_line \/ headers_end
  <2>1. work' = NULL /\ UNCHANGED <<message, arguments>>
    BY <1>4 DEF redhttp_headers_parse_line, headers_end, Understood, Worked
  <2>2. pc = "headers" /\ pc' \in {"headers", "content", "aborted"}
    BY <1>4 DEF redhttp_headers_parse_line, headers_end, Abort
  <2>. QED
    BY <2>1, <2>2 DEF Listed, FromQuery, QueryArguments
<1>5. CASE no_form
  <2>1. work' = NULL /\ UNCHANGED <<message, arguments>>
    BY <1>5 DEF no_form, Understood, Worked
  <2>2. pc = "content" /\ pc' \in {"dispatch", "done"}
    BY <1>5 DEF no_form, Reply
  <2>. QED
    BY <2>1, <2>2 DEF Listed, FromQuery, QueryArguments
<1>6. CASE read_form
  <2>1. /\ work' = NULL /\ message' = message
        /\ pc = "content" /\ message.method = "POST"
    BY <1>6 DEF read_form, Understood, Worked
  <2>2. arguments = QueryArguments /\ arguments \in Seq(ArgumentRecord)
    BY <2>1, ListedTyped DEF Understood, Listed, FromQuery
  <2>3. CASE pc' \in {"done", "aborted"} /\ arguments' = arguments
    BY <1>2, <1>6, <2>1, <2>2, <2>3 DEF Listed, FromQuery, Server
  <2>4. CASE /\ pc' = "dispatch"
             /\ Len(Got(ContentLength)) = ContentLength
             /\ TakeForm(redhttp_request_parse_arguments(Got(ContentLength)))
    <3>1. CASE Got(ContentLength) = <<>>
      <4>1. arguments' = arguments \o <<>>
        BY <2>4, <3>1, Parsed DEF TakeForm, redhttp_request_parse_arguments
      <4>2. arguments' = arguments
        BY <2>2, <4>1, ConcatEmptySeq
      <4>. QED
        BY <1>2, <1>6, <2>1, <2>2, <2>4, <4>2 DEF Listed, FromQuery, Server
    <3>2. CASE Declared(message) \in Seq(Byte) /\ Got(ContentLength) = Declared(message)
      <4>1. arguments' = QueryArguments \o FormArguments
        BY <2>2, <2>4, <3>2 DEF TakeForm, FormArguments
      <4>2. FromBoth'
        BY <1>2, <1>6, <2>1, <3>2, <4>1 DEF FromBoth, Server
      <4>. QED
        BY <2>1, <2>4, <4>2 DEF Listed
    <3>. QED
      BY <1>6, <2>4, <3>1, <3>2, FormRead
  <2>. QED
    BY <1>6, <2>3, <2>4 DEF read_form, Reply, Abort
<1>7. CASE handle_data \/ handle_insert_post \/ handle_delete_post \/ handle_not_found
  <2>1. pc = "dispatch" /\ UNCHANGED <<message, arguments>>
    BY <1>7 DEF handle_data, handle_insert_post, handle_delete_post, handle_form_post, handle_not_found
  <2>2. pc' = "done"
    <3>1. \A op, graph : parse_data_from_request_body(op, graph) => pc' = "done"
      BY DEF parse_data_from_request_body, Reply, Call
    <3>. QED
      BY <1>7, <3>1 DEF handle_data, handle_data_post, handle_data_put, handle_data_get,
           handle_data_delete, handle_insert_post, handle_delete_post, handle_form_post,
           handle_not_found, Refuses, Reply, Call
  <2>. QED
    BY <2>1, <2>2 DEF Listed, FromQuery, FromBoth, QueryArguments, FormArguments
<1>. QED
  BY <1>1, <1>3, <1>4, <1>5, <1>6, <1>7 DEF Next, Server

-----------------------------------------------------------------------------
(* The assertions                                                          *)

LEMMA LineIsThere ==
  ASSUME Understood, pc = "headers", taken < Lines(message) - 1
  PROVE  taken \in DOMAIN message.headers
<1> DEFINE l == Lines(message)
           n == Len(message.headers)
<1>1. DOMAIN message.headers = 1 .. n /\ n \in Nat /\ l = n + 2
  <2>1. message.headers \in Seq(Header) /\ n \in Nat /\ l = n + 2
    BY MessageTypes DEF Understood, Typed
  <2>. QED
    BY <2>1
<1>2. taken \in 1 .. l - 1 /\ taken < l - 1
  BY DEF Understood, Placed
<1> HIDE DEF l, n
<1>3. taken \in 1 .. n
  BY <1>1, <1>2
<1>. QED
  BY <1>1, <1>3

LEMMA AbortsNext ==
  ASSUME Understood, AbortsOnlyOnEmptyName, [Next]_vars
  PROVE  AbortsOnlyOnEmptyName'
<1> DEFINE excused == \/ Nameless(Query(message.target))
                      \/ IsForm(message) /\ Nameless(Declared(message))
                      \/ \E k \in DOMAIN message.headers : message.headers[k].key = ""
<1>1. CASE Send \/ HangUp \/ UNCHANGED vars
  <2>1. UNCHANGED <<message, pc>>
    BY <1>1 DEF Send, HangUp, vars, server
  <2>. QED
    BY <2>1 DEF AbortsOnlyOnEmptyName
<1>2. SUFFICES ASSUME Server, pc' = "aborted" PROVE excused /\ message' = message
  BY <1>1 DEF Next, AbortsOnlyOnEmptyName
<1>3. message' = message
  BY <1>2 DEF Server, redhttp_request_read_status_line, redhttp_headers_parse_line, headers_end,
              no_form, read_form, handle_data, handle_insert_post, handle_delete_post, handle_form_post,
              handle_not_found
<1>4. CASE redhttp_request_read_status_line
  <2>1. AddAborts(parsed[Query(message.target)])
    BY <1>2, <1>4 DEF redhttp_request_read_status_line, Reply, redhttp_request_parse_arguments
  <2>2. Query(message.target) \in Seq(Byte)
    BY TargetTyped DEF Understood
  <2>. QED
    BY <1>3, <2>1, <2>2, AbortsAreNameless
<1>5. CASE redhttp_headers_parse_line
  <2>1. pc = "headers" /\ message.headers[taken].key = "" /\ taken < Lines(message) - 1
    BY <1>2, <1>5 DEF redhttp_headers_parse_line
  <2>2. taken \in DOMAIN message.headers
    BY <2>1, LineIsThere
  <2>. QED
    BY <1>3, <2>1, <2>2
<1>6. CASE read_form
  <2>1. /\ AddAborts(parsed[Got(ContentLength)])
        /\ Len(Got(ContentLength)) = ContentLength
    BY <1>2, <1>6 DEF read_form, Reply, redhttp_request_parse_arguments
  <2>2. Got(ContentLength) # <<>>
    BY <2>1, Parsed DEF AddAborts
  <2>3. /\ IsForm(message)
        /\ Declared(message) \in Seq(Byte)
        /\ Got(ContentLength) = Declared(message)
    BY <1>6, <2>1, <2>2, FormRead
  <2>. QED
    BY <1>3, <2>1, <2>3, AbortsAreNameless
<1>7. CASE headers_end \/ no_form
  BY <1>2, <1>7 DEF headers_end, no_form, Reply
<1>8. CASE handle_data \/ handle_insert_post \/ handle_delete_post \/ handle_not_found
  <2>1. pc' = "done"
    <3>1. \A op, graph : parse_data_from_request_body(op, graph) => pc' = "done"
      BY DEF parse_data_from_request_body, Reply, Call
    <3>. QED
      BY <1>8, <3>1 DEF handle_data, handle_data_post, handle_data_put, handle_data_get,
           handle_data_delete, handle_insert_post, handle_delete_post, handle_form_post,
           handle_not_found, Refuses, Reply, Call
  <2>. QED
    BY <1>2, <2>1
<1>. QED
  BY <1>2, <1>4, <1>5, <1>6, <1>7, <1>8 DEF Server

-----------------------------------------------------------------------------
(* The answer                                                              *)

Answered ==
  /\ response \in {NULL, 200, 301, 400, 404, 500, 501}
  /\ work \in {NULL} \cup Work
  /\ (work # NULL) <=> (response = 200)
  /\ \A k \in DOMAIN headers : headers[k] \in Range(message.headers)

\* Which content and which graph librdf was called with.
Addressed ==
  work # NULL =>
    /\ work.op \in {"insert", "delete"} =>
         /\ work.content # NULL
         /\ work.content = redhttp_request_get_argument(arguments, ContentKey)
    /\ message.method # "POST" => HasDefault \/ work.graph = get_graph_node

LEMMA HostTyped ==
  ASSUME Typed
  PROVE  redhttp_request_get_host \in Seq(Byte)
<1>1. redhttp_headers_get(headers, "Host") \in {NULL} \cup Seq(Byte)
  <2>1. CASE At(headers, "Host") = {}
    BY <2>1, GetIsFirst
  <2>2. CASE At(headers, "Host") # {}
    <3>1. At(headers, "Host") \in SUBSET Nat
      BY DEF At, Typed
    <3> DEFINE k == Min(At(headers, "Host"))
    <3>2. k \in At(headers, "Host")
      BY <2>2, <3>1, MinIsLeast
    <3>3. headers[k] \in Header /\ headers[k].key = "Host"
      BY <3>2 DEF At, Typed
    <3>4. headers[k].value \in {NULL} \cup Seq(Byte)
      BY <3>3, RequestAssumption DEF Header
    <3>. QED
      BY <2>2, <3>4, GetIsFirst
  <2>. QED
    BY <2>1, <2>2
<1>. QED
  BY <1>1, RequestAssumption DEF redhttp_request_get_host

LEMMA HostNamed ==
  ASSUME NEW m \in Message
  PROVE  Host(m) \in Seq(Byte)
<1> DEFINE said == {k \in DOMAIN m.headers : m.headers[k].key = "Host" /\ m.headers[k].value # NULL}
<1>1. CASE said = {}
  BY <1>1, RequestAssumption DEF Host, Says
<1>2. CASE said # {}
  <2>1. m.headers \in Seq(Header) /\ said \in SUBSET Nat
    BY MessageTypes
  <2> DEFINE k == Min(said)
  <2>2. k \in said
    BY <1>2, <2>1, MinIsLeast
  <2>3. m.headers[k] \in Header /\ m.headers[k].key = "Host" /\ m.headers[k].value # NULL
    <3>1. \A j \in said : /\ j \in 1 .. Len(m.headers)
                         /\ m.headers[j].key = "Host" /\ m.headers[j].value # NULL
      BY <2>1
    <3> HIDE DEF said, k
    <3>2. k \in 1 .. Len(m.headers) /\ m.headers[k].key = "Host" /\ m.headers[k].value # NULL
      BY <2>2, <3>1
    <3>. QED
      BY <2>1, <3>2, ElementOfSeq
  <2>4. m.headers[k].value \in Seq(Byte)
    BY <2>3, RequestAssumption DEF Header
  <2>5. Says(m, "Host") = m.headers[k].value
    BY <1>2 DEF Says
  <2>. QED
    BY <2>3, <2>4, <2>5 DEF Host
<1>. QED
  BY <1>1, <1>2

LEMMA NodeTyped ==
  ASSUME Typed, Listed
  PROVE  /\ get_graph_node \in Seq(Byte)
         /\ \A key : redhttp_request_get_argument(arguments, key) \in {NULL} \cup Seq(Byte)
<1>1. \A key : redhttp_request_get_argument(arguments, key) \in {NULL} \cup Seq(Byte)
  BY ListedTyped, GetTyped
<1>2. redhttp_request_get_url \in Seq(Byte)
  BY HostTyped, TargetTyped, ConcatProperties DEF redhttp_request_get_url
<1>. QED
  BY <1>1, <1>2 DEF get_graph_node

Operations == {"load", "create", "replace", "read", "clear", "remove", "insert", "delete"}

LEMMA CallTyped ==
  ASSUME NEW op \in Operations, NEW graph \in {NULL} \cup Seq(Byte), NEW content \in Seq(Byte),
         Call(op, graph, content)
  PROVE  /\ work' \in Work /\ work' # NULL /\ response' = 200
         /\ work'.op = op /\ work'.graph = graph /\ work'.content = content
<1>1. work' \in Work
  BY DEF Call, Work, Operations
<1>. QED
  BY <1>1, RequestAssumption DEF Call, Reply

LEMMA BodyTyped ==
  ASSUME Understood, pc = "dispatch", NEW op \in Loading, NEW graph \in {NULL} \cup Seq(Byte),
         parse_data_from_request_body(op, graph)
  PROVE  \/ work' = work /\ response' \in {400, 500}
         \/ work' \in Work /\ work' # NULL /\ response' = 200 /\ work'.op = op /\ work'.graph = graph
<1>1. CASE ContentLength \in {NULL, 0} /\ Reply(400) /\ UNCHANGED <<taken, work>>
  BY <1>1 DEF Reply
<1>2. CASE ~ BodyComplete /\ Reply(500) /\ UNCHANGED work
  BY <1>2 DEF Reply
<1>3. CASE /\ ContentLength \notin {NULL, 0}
           /\ BodyComplete
           /\ Call(op, graph, Got(ContentLength))
  <2>1. /\ Typed /\ HeadOver /\ Heard /\ headers \in Seq(Header)
        /\ taken \in Nat /\ Lines(message) \in Nat
    BY Ranges DEF Understood, Placed, Typed
  <2>2. ContentLength \in Nat
    BY <1>3, <2>1, LengthTyped
  <2>3. taken >= Lines(message) \/ taken = sent
    BY <1>3, <2>1, OldHasNoLength DEF HeadOver, Cut
  <2>4. Got(ContentLength) \in Seq(Byte)
    BY <2>1, <2>2, <2>3, GotTyped
  <2>5. op \in Operations
    BY DEF Loading, Operations
  <2> DEFINE content == Got(ContentLength)
  <2>6. content \in Seq(Byte) /\ Call(op, graph, content)
    BY <1>3, <2>4
  <2> HIDE DEF content
  <2>. QED
    BY <2>5, <2>6, CallTyped
<1>. QED
  BY <1>1, <1>2, <1>3 DEF parse_data_from_request_body

LEMMA ParserAnswers ==
  ASSUME Understood, Answered, Addressed, pc # "dispatch", Server
  PROVE  Answered' /\ Addressed'
<1> DEFINE parser == \/ redhttp_request_read_status_line \/ redhttp_headers_parse_line
                     \/ headers_end \/ no_form \/ read_form
<1>1. parser
  BY DEF Server, handle_data, handle_insert_post, handle_delete_post, handle_form_post, handle_not_found
<1>2. pc # "done" /\ work' = work /\ message' = message /\ response' \in {response, 400}
  BY <1>1, ZenonT(40) DEF redhttp_request_read_status_line, redhttp_headers_parse_line, headers_end,
              no_form, read_form, Reply, Abort
<1>3. work = NULL
  BY <1>2 DEF Understood, Worked
<1>4. \A k \in DOMAIN headers' : headers'[k] \in Range(message.headers)
  <2>1. CASE headers' = headers
    BY <2>1 DEF Answered
  <2>2. CASE redhttp_headers_parse_line /\ headers' = Append(headers, message.headers[taken])
    <3>1. pc = "headers" /\ taken < Lines(message) - 1
      BY <2>2 DEF redhttp_headers_parse_line
    <3>2. message.headers \in Seq(Header) /\ headers \in Seq(Header)
      BY MessageTypes DEF Understood, Typed
    <3>3. taken \in DOMAIN message.headers
      BY <3>1, LineIsThere
    <3> DEFINE line == message.headers[taken]
    <3>4. line \in Header /\ line \in Range(message.headers)
      BY <3>2, <3>3 DEF Range
    <3> HIDE DEF line
    <3>5. /\ Len(headers) \in Nat
          /\ DOMAIN headers = 1 .. Len(headers)
          /\ DOMAIN headers' = 1 .. Len(headers) + 1
          /\ \A k \in 1 .. Len(headers) : headers'[k] = headers[k]
          /\ headers'[Len(headers) + 1] = line
      BY <2>2, <3>2, <3>4, AppendProperties, LenProperties DEF line
    <3>6. \A k \in 1 .. Len(headers) + 1 : k \in 1 .. Len(headers) \/ k = Len(headers) + 1
      BY <3>5
    <3>. QED
      BY <3>4, <3>5, <3>6 DEF Answered
  <2>. QED
    BY <1>1, <2>1, <2>2 DEF redhttp_request_read_status_line, redhttp_headers_parse_line,
                            headers_end, no_form, read_form
<1>. QED
  BY <1>2, <1>3, <1>4 DEF Answered, Addressed

LEMMA HandlersAnswer ==
  ASSUME Understood, Listed, Answered, pc = "dispatch", Server
  PROVE  Answered' /\ Addressed'
<1>1. handle_data \/ handle_insert_post \/ handle_delete_post \/ handle_not_found
  BY DEF Server, redhttp_request_read_status_line, redhttp_headers_parse_line, headers_end,
         no_form, read_form
<1>2. work = NULL /\ UNCHANGED <<message, headers, arguments>>
  BY <1>1 DEF Understood, Worked, handle_data, handle_insert_post, handle_delete_post, handle_form_post,
              handle_not_found
<1>3. /\ get_graph_node \in Seq(Byte)
      /\ \A key : redhttp_request_get_argument(arguments, key) \in {NULL} \cup Seq(Byte)
  BY NodeTyped DEF Understood
<1>4. HasDefault' = HasDefault /\ get_graph_node' = get_graph_node
  BY <1>2 DEF HasDefault, get_graph_node, redhttp_request_get_url, redhttp_request_get_host
<1>5. \/ work' = NULL /\ response' \in {301, 400, 404, 500, 501}
      \/ /\ work' \in Work /\ work' # NULL /\ response' = 200
         /\ work'.op \in {"insert", "delete"} =>
              /\ work'.content # NULL
              /\ work'.content = redhttp_request_get_argument(arguments, ContentKey)
         /\ message.method # "POST" => HasDefault \/ work'.graph = get_graph_node
  <2>1. CASE \E status \in {301, 400, 404, 501} : Refuses(status)
    BY <1>2, <2>1 DEF Refuses, Reply
  <2>2. CASE \E op \in Loading, graph \in {NULL, get_graph_node} :
               /\ parse_data_from_request_body(op, graph)
               /\ message.method # "POST" => graph = get_graph_node
    <3>1. PICK op \in Loading, graph \in {NULL, get_graph_node} :
               /\ parse_data_from_request_body(op, graph)
               /\ message.method # "POST" => graph = get_graph_node
      BY <2>2
    <3>2. graph \in {NULL} \cup Seq(Byte)
      BY <1>3
    <3>3. \/ work' = work /\ response' \in {400, 500}
          \/ work' \in Work /\ work' # NULL /\ response' = 200 /\ work'.op = op /\ work'.graph = graph
      BY <3>1, <3>2, BodyTyped
    <3>4. op \notin {"insert", "delete"}
      BY DEF Loading
    <3>. QED
      BY <1>2, <3>1, <3>3, <3>4
  <2>3. CASE \E op \in {"read", "clear", "remove"}, graph \in {NULL, get_graph_node} :
               /\ Call(op, graph, <<>>)
               /\ HasDefault \/ graph = get_graph_node
    <3>1. PICK op \in {"read", "clear", "remove"}, graph \in {NULL, get_graph_node} :
               /\ Call(op, graph, <<>>)
               /\ HasDefault \/ graph = get_graph_node
      BY <2>3
    <3>2. graph \in {NULL} \cup Seq(Byte) /\ op \in Operations /\ <<>> \in Seq(Byte)
      BY <1>3, EmptySeq DEF Operations
    <3> DEFINE none == <<>>
    <3> HIDE DEF none
    <3>3. work' \in Work /\ work' # NULL /\ response' = 200 /\ work'.op = op /\ work'.graph = graph
      <4>1. none \in Seq(Byte) /\ Call(op, graph, none)
        BY <3>1, <3>2 DEF none
      <4>. QED
        BY <3>2, <4>1, CallTyped, SMTT(30)
    <3>. QED
      BY <3>1, <3>3
  <2>4. CASE \E op \in {"insert", "delete"} :
               LET content == redhttp_request_get_argument(arguments, ContentKey)
               IN /\ message.method = "POST"
                  /\ content # NULL
                  /\ Call(op, redhttp_request_get_argument(arguments, GraphKey), content)
    <3> DEFINE content == redhttp_request_get_argument(arguments, ContentKey)
               graph == redhttp_request_get_argument(arguments, GraphKey)
    <3>1. PICK op \in {"insert", "delete"} :
               message.method = "POST" /\ content # NULL /\ Call(op, graph, content)
      BY <2>4
    <3>2. graph \in {NULL} \cup Seq(Byte) /\ content \in Seq(Byte) /\ op \in Operations
      BY <1>3, <3>1 DEF Operations
    <3> HIDE DEF content, graph
    <3>3. work' \in Work /\ work' # NULL /\ response' = 200 /\ work'.content = content
      BY <3>1, <3>2, CallTyped, SMTT(30)
    <3>. QED
      BY <3>1, <3>3 DEF content
  <2>5. CASE handle_insert_post \/ handle_delete_post
    BY <2>1, <2>4, <2>5 DEF handle_insert_post, handle_delete_post, handle_form_post
  <2>6. CASE handle_data
    <3>1. CASE message.method = "POST" /\ handle_data_post
      BY <2>2, <3>1 DEF handle_data_post, Loading
    <3>2. CASE handle_data_put
      BY <2>1, <2>2, <3>2 DEF handle_data_put, Loading
    <3>3. CASE handle_data_get
      BY <2>3, <3>3 DEF handle_data_get
    <3>4. CASE handle_data_delete
      BY <2>3, <3>4 DEF handle_data_delete
    <3>. QED
      BY <2>1, <2>6, <3>1, <3>2, <3>3, <3>4 DEF handle_data
  <2>7. CASE handle_not_found
    BY <2>1, <2>7 DEF handle_not_found
  <2>. QED
    BY <1>1, <2>5, <2>6, <2>7
<1>6. Answered'
  BY <1>2, <1>5 DEF Answered
<1>7. Addressed'
  BY <1>2, <1>4, <1>5 DEF Addressed
<1>. QED
  BY <1>6, <1>7

LEMMA AnsweredNext ==
  ASSUME Understood, Listed, Answered, Addressed, [Next]_vars
  PROVE  Answered' /\ Addressed'
<1>1. CASE Send \/ HangUp \/ UNCHANGED vars
  <2>1. UNCHANGED <<message, headers, arguments, response, work>>
    BY <1>1 DEF Send, HangUp, vars, server
  <2>. QED
    BY <2>1 DEF Answered, Addressed, HasDefault, get_graph_node, redhttp_request_get_url,
                redhttp_request_get_host
<1>2. CASE Server
  BY <1>2, ParserAnswers, HandlersAnswer
<1>. QED
  BY <1>1, <1>2 DEF Next

-----------------------------------------------------------------------------
(* Links                                                                   *)

LEMMA DataPathTyped ==
  /\ DataPath \in Seq(Byte)
  /\ DataPath \in Seq(Plain)
  /\ \A k \in 1 .. Len(DataPath) : DataPath[k] # 63
<1> DEFINE S == Byte \ {37, 43, 63}
<1>1. DataPath \in Seq(S)
  BY RequestAssumption
<1>2. S \subseteq Byte /\ S \subseteq Plain
  BY DEF Plain
<1>3. \A k \in 1 .. Len(DataPath) : DataPath[k] \in S
  BY <1>1, ElementOfSeq
<1>4. \A ch \in S : ch # 63
  OBVIOUS
<1> HIDE DEF S
<1>. QED
  BY <1>1, <1>2, <1>3, <1>4, SeqMonotonic

\* Where the index says that a graph is, split at the "?".
LEMMA LinkSplits ==
  ASSUME NEW host \in Seq(Byte), NEW target \in Seq(Byte), NEW e \in Seq(Byte),
         Equal(host \o target, host \o DataPath \o <<47, 63>> \o GraphKey \o << 61 >> \o e)
  PROVE  /\ Equal(Query(target), (GraphKey \o << 61 >>) \o e)
         /\ Equal(Path(target), DataPath \o << 47 >>)
<1> DEFINE mark == <<47, 63>>
           eq == <<61>>
           front == DataPath \o mark
           back == (GraphKey \o eq) \o e
           n == Len(DataPath)
<1>1. /\ DataPath \in Seq(Byte) /\ GraphKey \in Seq(Byte)
      /\ mark \in Seq(Byte) /\ Len(mark) = 2 /\ mark[1] = 47 /\ mark[2] = 63
      /\ eq \in Seq(Byte)
  <2>1. \A key \in Seq(Lower) : key \in Seq(Byte)
    BY DEF Lower, Byte
  <2>2. /\ mark \in Seq(Byte) /\ Len(mark) = 2 /\ mark[1] = 47 /\ mark[2] = 63
        /\ eq \in Seq(Byte)
    BY DEF Byte
  <2>3. DataPath \in Seq(Byte)
    BY DataPathTyped
  <2> HIDE DEF mark, eq
  <2>. QED
    BY <2>1, <2>2, <2>3, RequestAssumption, ZenonT(40)
<1> HIDE DEF mark, eq
<1>2. front \in Seq(Byte) /\ GraphKey \o eq \in Seq(Byte) /\ back \in Seq(Byte)
  BY <1>1, ConcatProperties
<1>3. host \o target = host \o (front \o back)
  <2> DEFINE key == GraphKey
             data == DataPath
  <2> HIDE DEF key, data
  <2>1. key \in Seq(Byte) /\ data \in Seq(Byte)
    BY <1>1 DEF key, data
  <2>2. host \o target = ((((host \o data) \o mark) \o key) \o eq) \o e
    BY DEF Equal, mark, eq, key, data
  <2>3. Equal(((((host \o data) \o mark) \o key) \o eq) \o e, host \o ((data \o mark) \o ((key \o eq) \o e)))
    BY <1>1, <2>1, Regroup, Zenon
  <2>. QED
    BY <2>2, <2>3, Zenon DEF Equal, key, data
<1>4. target = front \o back
  <2>1. front \o back \in Seq(Byte)
    BY <1>2, ConcatProperties
  <2> HIDE DEF front, back
  <2>. QED
    BY <1>3, <2>1, ConcatSimplifications, ZenonT(30)
<1>5. /\ n \in Nat
      /\ Len(front) = n + 2
      /\ \A k \in 1 .. n : front[k] = DataPath[k]
      /\ front[n + 1] = 47 /\ front[n + 2] = 63
  <2>1. /\ Len(front) = Len(DataPath) + Len(mark)
        /\ \A k \in 1 .. Len(DataPath) + Len(mark) :
             front[k] = IF k <= Len(DataPath) THEN DataPath[k] ELSE mark[k - Len(DataPath)]
    <3>1. Joined(front, DataPath, mark)
      BY <1>1, Joins, Zenon
    <3>. QED
      BY <3>1, Zenon DEF Joined
  <2>2. n \in Nat
    BY <1>1, LenProperties
  <2> HIDE DEF front, n
  <2>3. Len(front) = n + 2 /\ \A k \in 1 .. n + 2 : front[k] = IF k <= n THEN DataPath[k] ELSE mark[k - n]
    BY <1>1, <2>1 DEF n
  <2>4. /\ n + 1 \in 1 .. n + 2 /\ ~ n + 1 <= n /\ (n + 1) - n = 1
        /\ n + 2 \in 1 .. n + 2 /\ ~ n + 2 <= n /\ (n + 2) - n = 2
    BY <2>2
  <2>5. front[n + 1] = mark[1] /\ front[n + 2] = mark[2]
    BY <2>3, <2>4
  <2>6. \A k \in 1 .. n : front[k] = DataPath[k]
    BY <2>2, <2>3
  <2>. QED
    BY <1>1, <2>2, <2>3, <2>5, <2>6
<1>6. \A k \in 1 .. n : DataPath[k] # 63
  BY DataPathTyped
<1>7. /\ Len(target) = (n + 2) + Len(back) /\ Len(back) \in Nat
      /\ \A k \in 1 .. n + 2 : target[k] = front[k]
      /\ SubSeq(target, Len(front) + 1, Len(target)) = back
  <2>1. SubSeq(front \o back, Len(front) + 1, Len(front \o back)) = back
    BY <1>2, Parts, ZenonT(40)
  <2> HIDE DEF front, back
  <2>2. /\ Len(front \o back) = Len(front) + Len(back)
        /\ \A k \in 1 .. Len(front) + Len(back) :
             (front \o back)[k] = IF k <= Len(front) THEN front[k] ELSE back[k - Len(front)]
    BY <1>2, ConcatProperties
  <2>3. Len(back) \in Nat
    BY <1>2, LenProperties
  <2> HIDE DEF n
  <2>4. /\ Len(target) = (n + 2) + Len(back)
        /\ \A k \in 1 .. (n + 2) + Len(back) : target[k] = IF k <= n + 2 THEN front[k] ELSE back[k - (n + 2)]
    BY <1>4, <1>5, <2>2
  <2>5. \A k \in 1 .. n + 2 : k \in 1 .. (n + 2) + Len(back) /\ k <= n + 2
    BY <1>5, <2>3
  <2>. QED
    BY <1>4, <2>1, <2>3, <2>4, <2>5
<1> HIDE DEF front, back, n
<1>8. Question(target) = n + 2
  <2> DEFINE q == Question(target)
  <2>1. /\ q \in 1 .. Len(target) + 1
        /\ q <= Len(target) => target[q] = 63
        /\ \A k \in DOMAIN target : target[k] = 63 => q <= k
    BY TargetParts
  <2>2. DOMAIN target = 1 .. Len(target) /\ Len(target) \in Nat
    BY LenProperties
  <2> HIDE DEF q
  <2>3. q <= n + 2
    <3>1. n + 2 \in DOMAIN target /\ target[n + 2] = 63
      BY <1>5, <1>7, <2>2
    <3>. QED
      BY <2>1, <3>1
  <2>4. ~ q <= n
    <3> SUFFICES ASSUME q <= n PROVE FALSE
      OBVIOUS
    <3>1. q \in 1 .. n /\ q \in 1 .. n + 2 /\ q <= Len(target)
      BY <1>5, <1>7, <2>1
    <3>2. target[q] = DataPath[q]
      BY <1>5, <1>7, <3>1
    <3>. QED
      BY <1>6, <2>1, <3>1, <3>2
  <2>5. q # n + 1
    <3>1. n + 1 \in 1 .. n + 2 /\ n + 1 <= Len(target)
      BY <1>5, <1>7
    <3>2. target[n + 1] = 47
      BY <1>5, <1>7, <3>1
    <3>. QED
      BY <2>1, <3>1, <3>2
  <2>6. q = n + 2
    BY <1>5, <2>1, <2>3, <2>4, <2>5
  <2>. QED
    BY <2>6 DEF q
<1>9. Query(target) = back
  BY <1>5, <1>7, <1>8 DEF Query
<1> DEFINE slash == << 47 >>
           path == DataPath \o slash
           cut == SubSeq(target, 1, (n + 2) - 1)
<1>10. /\ slash \in Seq(Plain) /\ slash \in Seq(Byte) /\ Len(slash) = 1 /\ slash[1] = 47
  BY DEF Plain, Byte
<1> HIDE DEF slash
<1>11. path \in Seq(Plain)
  BY <1>10, DataPathTyped, ConcatProperties
<1>12. /\ path \in Seq(Byte)
       /\ Len(path) = n + 1
       /\ \A k \in 1 .. n + 1 : path[k] = IF k <= n THEN DataPath[k] ELSE 47
  <2>1. path \in Seq(Byte) /\ Joined(path, DataPath, slash)
    BY <1>1, <1>10, Joins, Zenon
  <2> HIDE DEF path
  <2>2. /\ Len(path) = n + 1
        /\ \A k \in 1 .. n + 1 : path[k] = IF k <= n THEN DataPath[k] ELSE slash[k - n]
    BY <1>10, <2>1 DEF Joined, n
  <2>3. \A k \in 1 .. n + 1 : ~ k <= n => k - n = 1
    BY <1>5
  <2>. QED
    BY <1>10, <2>1, <2>2, <2>3
<1>13. /\ cut \in Seq(Byte)
       /\ Len(cut) = n + 1
       /\ \A k \in 1 .. n + 1 : cut[k] = target[k]
  <2>1. n + 2 \in 1 .. Len(target) + 1 /\ (n + 2) - 1 = n + 1
    BY <1>5, <1>7
  <2>. QED
    BY <2>1, FrontOf
<1> HIDE DEF path, cut
<1>14. \A k \in 1 .. n + 1 : cut[k] = path[k]
  <2> TAKE k \in 1 .. n + 1
  <2>1. k \in 1 .. n + 2 /\ cut[k] = front[k]
    BY <1>5, <1>7, <1>13
  <2>2. k \in 1 .. n \/ k = n + 1
    BY <1>5
  <2>. QED
    BY <1>5, <1>12, <2>1, <2>2
<1>15. cut = path
  BY <1>12, <1>13, <1>14, SeqEqual
<1>16. Path(target) = path
  BY <1>8, <1>11, <1>15, PlainStays DEF Path, redhttp_url_unescape, cut
<1>. QED
  BY <1>9, <1>16, Zenon DEF Equal, back, eq, path, slash

\* The path of a link is below /data.
LEMMA LinkIsAtData ==
  ASSUME Path(message.target) = DataPath \o << 47 >>
  PROVE  AtData(message) /\ HasPath
<1> DEFINE path == DataPath \o << 47 >>
<1>1. DataPath \in Seq(Byte) /\ << 47 >> \in Seq(Byte) /\ Len(<< 47 >>) = 1
  BY DataPathTyped DEF Byte
<1>2. SubSeq(path, 1, Len(DataPath)) = DataPath
  BY <1>1, Parts
<1>3. Len(path) = Len(DataPath) + 1 /\ Len(DataPath) \in Nat
  BY <1>1, ConcatProperties, LenProperties
<1>4. SubSeq(DataPath, 1, Len(DataPath)) = DataPath
  BY <1>1, SubSeqFull
<1> HIDE DEF path
<1>5. IsPrefix(DataPath, path)
  BY <1>2, <1>3, <1>4 DEF IsPrefix
<1>6. path # DataPath
  BY <1>3
<1>. QED
  BY <1>5, <1>6 DEF AtData, HasPath, path

\* The argument of a link is the URI of the graph.
LEMMA LinkIsRead ==
  ASSUME NEW uri \in Stored, Range(uri) \subseteq 1 .. 127, NEW junk \in {47, 65},
         NEW query, query = parsed[(GraphKey \o << 61 >>) \o redhttp_url_escape(uri, junk)]
  PROVE  /\ ~ redhttp_request_argument_exists(query, DefaultKey)
         /\ redhttp_request_get_argument(query, GraphKey) = uri
         /\ uri # NULL
<1> DEFINE e == redhttp_url_escape(uri, junk)
<1>1. uri \in Seq(Byte) /\ uri # <<>> /\ uri # NULL
  <2>1. NULL \notin Seq(Byte) /\ Stored \subseteq Seq(Byte) \ {<<>>}
    BY RequestAssumption
  <2>. QED
    BY <2>1
<1>2. uri \in Seq(1 .. 127)
  <2>1. uri \in Seq(Range(uri))
    BY <1>1, SeqOfRange
  <2>. QED
    BY <2>1, SeqMonotonic
<1>3. unescaped[e] = uri /\ OneArgument(e)
  BY <1>1, <1>2, EscapeComesBack, EscapedIsOneArgument
<1> HIDE DEF e
<1>4. GraphKey \in Seq(Lower) /\ DefaultKey \in Seq(Lower) /\ GraphKey # DefaultKey
  BY RequestAssumption
<1>5. query = <<[key |-> GraphKey, value |-> Kept(unescaped[e])]>>
  BY <1>3, <1>4, ParsedOne DEF e
<1>6. DOMAIN query = {1} /\ query[1].key = GraphKey /\ query[1].value = uri
  BY <1>1, <1>3, <1>5 DEF Kept
<1>7. ~ SameKey(GraphKey, DefaultKey) /\ SameKey(GraphKey, GraphKey)
  BY <1>4, LowerIsLower
<1>8. ~ redhttp_request_argument_exists(query, DefaultKey)
  BY <1>6, <1>7 DEF redhttp_request_argument_exists
<1>9. redhttp_request_get_argument(query, GraphKey) = uri
  <2>1. Named(query, GraphKey) = {1}
    BY <1>6, <1>7 DEF Named
  <2>2. Min({1}) = 1
    <3>1. \A x \in {1} : 1 <= x
      OBVIOUS
    <3>. QED
      BY <3>1, LeastIsMin
  <2>. QED
    BY <1>6, <2>1, <2>2, GetIsNamed
<1>. QED
  BY <1>1, <1>8, <1>9

\* Why a GET is not carried out.
Refused ==
  pc = "done" /\ message.method = "GET" /\ work = NULL
    => \/ ~ message.valid
       \/ closed /\ sent < Lines(message)
       \/ ~ AtData(message)
       \/ Unclear

LEMMA RefusedNext ==
  ASSUME Understood, Refused, Answered', [Next]_vars
  PROVE  Refused'
<1>1. CASE UNCHANGED vars
  BY <1>1 DEF Refused, vars, Unclear, HasGraph, HasDefault, HasPath
<1>2. CASE Send \/ HangUp
  <2>1. /\ UNCHANGED <<message, pc, arguments, work>>
        /\ closed => closed' /\ sent' = sent
    BY <1>2 DEF Send, HangUp, server
  <2>2. Unclear' = Unclear
    BY <2>1 DEF Unclear, HasGraph, HasDefault, HasPath
  <2>. QED
    BY <2>1, <2>2 DEF Refused
<1>3. SUFFICES ASSUME Server, pc' = "done", message.method = "GET", work' = NULL
               PROVE  /\ UNCHANGED <<message, sent, closed>>
                      /\ \/ ~ message.valid
                         \/ closed /\ sent < Lines(message)
                         \/ ~ AtData(message)
                         \/ Unclear'
  <2>1. CASE Server
    <3>1. message' = message
      BY <2>1 DEF Server, redhttp_request_read_status_line, redhttp_headers_parse_line, headers_end,
                no_form, read_form, handle_data, handle_insert_post, handle_delete_post,
                handle_form_post, handle_not_found
    <3>. QED
      BY <1>3, <2>1, <3>1 DEF Refused
  <2>. QED
    BY <1>1, <1>2, <2>1 DEF Next
<1>4. CASE redhttp_request_read_status_line
  <2>1. /\ UNCHANGED <<message, sent, closed>>
        /\ pc = "status"
        /\ ~ message.valid \/ (closed /\ taken = sent)
    BY <1>3, <1>4 DEF redhttp_request_read_status_line, EndOfFile, Abort
  <2>2. taken = 0 /\ Lines(message) \in Nat /\ Lines(message) = Len(message.headers) + 2
        /\ Len(message.headers) \in Nat
    BY <2>1, Ranges DEF Understood, Placed
  <2>. QED
    BY <2>1, <2>2
<1>5. ~ redhttp_headers_parse_line /\ ~ headers_end /\ ~ no_form /\ ~ read_form
      /\ ~ handle_insert_post /\ ~ handle_delete_post
  BY <1>3 DEF redhttp_headers_parse_line, headers_end, no_form, read_form, handle_insert_post,
              handle_delete_post, handle_form_post, Abort, Reply
<1>6. CASE handle_not_found
  BY <1>6 DEF handle_not_found
<1>7. CASE handle_data
  <2>1. /\ UNCHANGED <<message, sent, closed, arguments>>
        /\ Unclear \/ handle_data_get
    BY <1>3, <1>7 DEF handle_data
  <2>2. ~ handle_data_get
    <3>1. handle_data_get => response' = 200
      BY DEF handle_data_get, Call, Reply
    <3>. QED
      BY <1>3, <3>1 DEF Answered
  <2>3. Unclear' = Unclear
    BY <2>1 DEF Unclear, HasGraph, HasDefault, HasPath
  <2>. QED
    BY <2>1, <2>2, <2>3
<1>. QED
  BY <1>3, <1>4, <1>5, <1>6, <1>7 DEF Server

LEMMA LinksLeadOn ==
  ASSUME Understood, Listed, Addressed, Refused
  PROVE  LinkLeadsToGraph
<1> SUFFICES ASSUME NEW uri \in Stored, NEW junk \in {47, 65}, Follows(uri, junk),
                    IF Direct(uri) THEN IdentifiesGraph(message.target) ELSE Range(uri) \subseteq 1 .. 127
             PROVE  work # NULL /\ work.graph = uri
  BY DEF LinkLeadsToGraph
<1> DEFINE host == Host(message)
           target == message.target
<1>1. /\ pc = "done" /\ sent >= Lines(message)
      /\ message.valid /\ message.method = "GET"
      /\ host \o target = Link(host, uri, junk)
  BY DEF Follows
<1>2. /\ Typed /\ Heard /\ Lines(message) \in Nat /\ sent \in Nat /\ taken \in Nat
      /\ target \in Seq(Byte) /\ host \in Seq(Byte)
      /\ uri \in Seq(Byte)
  <2>1. Typed /\ Heard /\ Lines(message) \in Nat /\ sent \in Nat /\ taken \in Nat
    BY Ranges DEF Understood
  <2>2. target \in Seq(Byte)
    BY <2>1, TargetTyped
  <2>3. host \in Seq(Byte)
    BY HostNamed DEF Understood, Typed
  <2>4. uri \in Seq(Byte)
    BY RequestAssumption, ZenonT(40)
  <2>. QED
    BY <2>1, <2>2, <2>3, <2>4
\* What is carried out is a request for the graph of the arguments.
<1>3. ASSUME work # NULL
      PROVE  /\ redhttp_request_get_host = host
             /\ arguments = redhttp_request_parse_arguments(Query(target))
             /\ HasDefault \/ work.graph = get_graph_node
  <2>1. HeadOver /\ ~ Cut
    BY <1>1, <1>2, <1>3 DEF Understood, Worked, Cut
  <2>2. redhttp_headers_get(headers, "Host") = Says(message, "Host")
    BY <1>2, <2>1, HeardAll DEF HeadOver, HeaderNames
  <2>3. redhttp_request_get_host = host
    BY <2>2 DEF Host, redhttp_request_get_host
  <2>. QED
    BY <1>1, <1>3, <2>3 DEF Listed, FromQuery, FromBoth, QueryArguments, Addressed
\* It is carried out.
<1>4. ASSUME AtData(message), HasPath,
             ~ redhttp_request_argument_exists(redhttp_request_parse_arguments(Query(target)), DefaultKey)
      PROVE  work # NULL
  <2>1. ~ HasDefault
    BY <1>1, <1>4 DEF Listed, FromQuery, FromBoth, QueryArguments, HasDefault,
                      redhttp_request_argument_exists
  <2>. QED
    BY <1>1, <1>2, <1>4, <2>1 DEF Refused, Unclear
<1> HIDE DEF host, target
<1>5. CASE Direct(uri)
  <2> DEFINE query == redhttp_request_parse_arguments(Query(target))
  <2>1. host \o target = uri
    BY <1>1, <1>5 DEF Link, Direct, host
  <2>2. /\ AtData(message) /\ HasPath
        /\ ~ redhttp_request_argument_exists(query, DefaultKey)
        /\ redhttp_request_get_argument(query, GraphKey) = NULL
    BY <1>5 DEF IdentifiesGraph, HasPath, target
  <2>3. work # NULL
    BY <1>4, <2>2
  <2>. QED
    BY <1>3, <2>1, <2>2, <2>3 DEF HasDefault, get_graph_node, redhttp_request_get_url, target
<1>6. CASE ~ Direct(uri)
  <2> DEFINE e == redhttp_url_escape(uri, junk)
  <2>1. e \in Seq(Byte)
    BY <1>2, Escapes
  <2>2. Equal(host \o target, host \o DataPath \o <<47, 63>> \o GraphKey \o << 61 >> \o e)
    BY <1>1, <1>6 DEF Equal, Link, Direct, host
  <2>3. Query(target) = (GraphKey \o << 61 >>) \o e /\ Path(target) = DataPath \o << 47 >>
    <3> HIDE DEF e
    <3>1. Equal(Query(target), (GraphKey \o << 61 >>) \o e) /\ Equal(Path(target), DataPath \o << 47 >>)
      BY <1>2, <2>1, <2>2, LinkSplits
    <3>. QED
      BY <3>1 DEF Equal
  <2>4. AtData(message) /\ HasPath
    BY <2>3, LinkIsAtData DEF target
  <2>5. ~ redhttp_request_argument_exists(redhttp_request_parse_arguments(Query(target)), DefaultKey)
    BY <1>6, <2>3, LinkIsRead, SMTT(30) DEF redhttp_request_parse_arguments
  <2>6. work # NULL
    BY <1>4, <2>4, <2>5
  <2>7. ~ HasDefault /\ get_graph_node = uri
    <3>1. redhttp_request_get_argument(arguments, GraphKey) = uri /\ uri # NULL
      BY <1>3, <1>6, <2>3, <2>6, LinkIsRead, SMTT(30) DEF redhttp_request_parse_arguments
    <3>. QED
      BY <1>3, <2>5, <2>6, <3>1 DEF HasDefault, get_graph_node
  <2>. QED
    BY <1>3, <2>6, <2>7
<1>. QED
  BY <1>5, <1>6

-----------------------------------------------------------------------------
(* The theorems                                                            *)

\* The server knows where it is in the message, and its headers are those of
\* the lines behind it.
THEOREM MessageIsUnderstood == Spec => []Understood
<1>1. Init => Understood
  BY InitUnderstood
<1>2. Understood /\ [Next]_vars => Understood'
  <2> SUFFICES ASSUME Understood, [Next]_vars PROVE Understood'
    OBVIOUS
  <2>1. CASE Send \/ HangUp \/ UNCHANGED vars
    BY <2>1, ClientKeeps
  <2>2. CASE redhttp_request_read_status_line
    BY <2>2, StatusLineKeeps
  <2>3. CASE redhttp_headers_parse_line
    BY <2>3, HeaderLineKeeps
  <2>4. CASE headers_end
    BY <2>4, HeadEndKeeps
  <2>5. CASE no_form
    BY <2>5, NoFormKeeps
  <2>6. CASE read_form
    BY <2>6, FormKeeps
  <2>7. CASE handle_data
    BY <2>7, DataKeeps
  <2>8. CASE handle_insert_post \/ handle_delete_post
    BY <2>8, FormPostKeeps
  <2>9. CASE handle_not_found
    BY <2>9, NotFoundKeeps
  <2>. QED
    BY <2>1, <2>2, <2>3, <2>4, <2>5, <2>6, <2>7, <2>8, <2>9 DEF Next, Server
<1>. QED
  BY <1>1, <1>2, PTL DEF Spec

\* What is loaded into a graph is as many bytes as the client declared and all
\* of them, wherever the connection ends: the body, or what stands behind it if
\* the parser took the body for a form already.
THEOREM LoadsAreWhole == Spec => []LoadsAsDeclared
<1>1. Understood => LoadsAsDeclared
  <2> SUFFICES ASSUME Understood, work # NULL, work.op \in Loading
               PROVE  LET n == Says(message, "Content-Length")
                          before == IF FormToData(message) THEN n ELSE 0
                      IN /\ n \in Nat \ {0}
                         /\ before + n <= Len(message.body)
                         /\ work.content = SubSeq(message.body, before + 1, before + n)
    BY DEF LoadsAsDeclared, Loading
  <2>1. /\ taken > Lines(message)
        /\ ContentLength \in Nat \ {0}
        /\ Before + ContentLength <= Len(message.body)
        /\ work.content = SubSeq(message.body, Before + 1, Before + ContentLength)
    BY DEF Understood, Worked
  <2>2. Typed /\ Heard /\ Lines(message) \in Nat /\ taken \in Nat
    BY Ranges DEF Understood
  <2>3. taken >= Lines(message)
    BY <2>1, <2>2
  <2>4. Says(message, "Content-Length") = ContentLength
    BY <2>2, <2>3, HeardAll DEF HeaderNames, ContentLength
  <2>. QED
    BY <2>1, <2>4 DEF Before
<1>. QED
  BY <1>1, MessageIsUnderstood, PTL

\* Once the head is there, a request without a graph argument is about the
\* graph its own URL names.
THEOREM GraphIsNamed == Spec => []GraphIsTheOneNamed
<1>1. Understood => GraphIsTheOneNamed
  <2> SUFFICES ASSUME Understood, work # NULL, work.op \in Naming, sent >= Lines(message),
                      ~ HasDefault, redhttp_request_get_argument(arguments, GraphKey) = NULL
               PROVE  work.graph = Host(message) \o message.target
    BY DEF GraphIsTheOneNamed, Naming
  <2>1. HeadOver /\ work.graph = redhttp_request_get_url
    BY DEF Understood, Worked
  <2>2. Typed /\ Heard /\ Lines(message) \in Nat /\ sent \in Nat /\ taken \in Nat
    BY Ranges DEF Understood
  <2>3. ~ Cut
    BY <2>2 DEF Cut
  <2>4. redhttp_headers_get(headers, "Host") = Says(message, "Host")
    BY <2>1, <2>2, <2>3, HeardAll DEF HeadOver, HeaderNames
  <2>. QED
    BY <2>1, <2>4 DEF Host, redhttp_request_get_url, redhttp_request_get_host
<1>. QED
  BY <1>1, MessageIsUnderstood, PTL

\* The arguments are those of the query string and of the whole form, and the
\* answer fits what librdf was called with.
THEOREM MessageIsServed == Spec => [](Listed /\ Answered /\ Addressed)
<1>1. Init => Listed /\ Answered /\ Addressed
  <2>1. Init => Answered /\ Addressed
    <3>1. NULL # 200
      BY RequestAssumption
    <3>2. Init => DOMAIN headers = {}
      BY DEF Init
    <3>. QED
      BY <3>1, <3>2 DEF Init, Answered, Addressed
  <2>. QED
    BY <2>1, ListedInit
<1>2. Understood /\ (Listed /\ Answered /\ Addressed) /\ [Next]_vars
        => (Listed /\ Answered /\ Addressed)'
  BY ListedNext, AnsweredNext
<1>. QED
  BY <1>1, <1>2, MessageIsUnderstood, PTL DEF Spec

\* Every variable has its type: the server is never ahead of the client, no
\* header and no argument is kept with an empty value, and librdf is called
\* exactly for the requests that are not refused.
THEOREM TypesAreKept == Spec => []TypeOK
<1>1. Understood /\ Listed /\ Answered => TypeOK
  <2> SUFFICES ASSUME Understood, Listed, Answered PROVE TypeOK
    OBVIOUS
  <2>1. Typed
    BY DEF Understood
  <2>2. \A k \in DOMAIN arguments : arguments[k] \in ArgumentRecord
    BY <2>1, ListedTyped
  <2>3. \A k \in DOMAIN arguments :
          arguments[k].key \in Seq(Byte) /\ arguments[k].value \in {NULL} \cup (Seq(Byte) \ {<<>>})
    BY <2>2 DEF ArgumentRecord
  <2>. QED
    BY <2>1, <2>3 DEF TypeOK, Typed, Answered
<1>. QED
  BY <1>1, MessageIsUnderstood, MessageIsServed, PTL

\* What is inserted or deleted is the content argument of the query string or,
\* where that has none, of the form as a whole.
THEOREM InsertsAreSent == Spec => []InsertsWhatWasSent
<1>1. Understood /\ Listed /\ Addressed => InsertsWhatWasSent
  <2> SUFFICES ASSUME Understood, Listed, Addressed, work # NULL, work.op \in {"insert", "delete"}
               PROVE  work.content = redhttp_request_get_argument(
                        IF redhttp_request_argument_exists(QueryArguments, ContentKey)
                        THEN QueryArguments ELSE FormArguments, ContentKey)
    BY DEF InsertsWhatWasSent, QueryArguments, FormArguments
  <2>1. /\ work.content # NULL
        /\ work.content = redhttp_request_get_argument(arguments, ContentKey)
    BY DEF Addressed
  <2>2. QueryArguments \in Seq(ArgumentRecord)
    BY ListedTyped DEF Understood
  <2>3. CASE FromQuery
    <3>1. redhttp_request_argument_exists(arguments, ContentKey)
      BY <2>1, GetIsNamed
    <3>. QED
      BY <2>1, <2>3, <3>1 DEF FromQuery
  <2>4. CASE FromBoth
    <3>1. FormArguments \in Seq(ArgumentRecord)
      BY <2>4, Parsed DEF FromBoth, FormArguments, redhttp_request_parse_arguments
    <3>. QED
      BY <2>1, <2>2, <2>4, <3>1, GetOfBoth DEF FromBoth
  <2>. QED
    BY <2>3, <2>4 DEF Listed
<1>. QED
  BY <1>1, MessageIsUnderstood, MessageIsServed, PTL

\* The assertions of redhttp_headers_add end the process only on an argument
\* or a header with an empty name.
THEOREM AbortsAreNamed == Spec => []AbortsOnlyOnEmptyName
<1>1. Init => AbortsOnlyOnEmptyName
  BY DEF Init, AbortsOnlyOnEmptyName
<1>2. Understood /\ AbortsOnlyOnEmptyName /\ [Next]_vars => AbortsOnlyOnEmptyName'
  BY AbortsNext
<1>. QED
  BY <1>1, <1>2, MessageIsUnderstood, PTL DEF Spec

\* Who follows the link of a graph in the index is served from that graph: of
\* any URI that the index escapes, if it is ASCII, and of those on this host
\* that are below /data and name no other graph in their query string.
THEOREM LinksLead == Spec => []LinkLeadsToGraph
<1>1. Understood /\ Listed /\ Addressed /\ Refused => LinkLeadsToGraph
  BY LinksLeadOn
<1>2. Init => Refused
  BY DEF Init, Refused
<1>3. Understood /\ Refused /\ Answered' /\ [Next]_vars => Refused'
  BY RefusedNext
<1>. QED
  BY <1>1, <1>2, <1>3, MessageIsUnderstood, MessageIsServed, PTL DEF Spec
=============================================================================
