--------------------------------- MODULE Url ---------------------------------
(***************************************************************************)
(* Escaping of URLs and the arguments of a request.  A string is the       *)
(* sequence of its bytes, without the NUL that ends it.                    *)
(***************************************************************************)
EXTENDS Integers, Sequences, SequencesExt, FiniteSetsExt

CONSTANT NULL

Byte == 1 .. 255
Lower == 97 .. 122
Upper == 65 .. 90
Digits == 48 .. 57

\* -1 if ch is not a hexadecimal digit.
hex_decode(ch) ==
  CASE ch \in Digits -> ch - 48
    [] ch \in 65 .. 70 -> ch - 55
    [] ch \in 97 .. 102 -> ch - 87
    [] OTHER -> -1

StartsWithEscape(str) ==
  Len(str) >= 3 /\ str[1] = 37 /\ hex_decode(str[2]) # -1 /\ hex_decode(str[3]) # -1

\* What is no escape goes straight through; an escaped NUL ends the string.
unescaped[str \in Seq(Byte)] ==
  IF str = <<>> THEN <<>>
  ELSE IF StartsWithEscape(str)
  THEN LET ch == 16 * hex_decode(str[2]) + hex_decode(str[3])
       IN IF ch = 0 THEN <<>> ELSE <<ch>> \o unescaped[SubSeq(str, 4, Len(str))]
  ELSE <<IF str[1] = 43 THEN 32 ELSE str[1]>> \o unescaped[Tail(str)]

redhttp_url_unescape(str) == unescaped[str]

PlusIsSafe(ch) == ch \in Lower \cup Upper \cup Digits \cup {43, 45, 46, 95, 126}
isurlsafe(ch) == ch \in Lower \cup Upper \cup Digits \cup {45, 46, 95, 126}

HexDigit(n) == IF n < 10 THEN 48 + n ELSE 55 + n

\* A byte above 127 is a negative char, and the first digit is read from
\* before the table of digits: junk is what is there.
Escape(ch, junk) ==
  IF isurlsafe(ch) THEN <<ch>>
  ELSE <<37, IF ch > 127 THEN junk ELSE HexDigit(ch \div 16), HexDigit(ch % 16)>>

redhttp_url_escape(str, junk) ==
  LET escaped[rest \in Seq(Byte)] ==
        IF rest = <<>> THEN <<>> ELSE Escape(rest[1], junk) \o escaped[Tail(rest)]
  IN escaped[str]

\* redhttp_headers_add: no value and an empty one are the same.
KeptAsItIs(value) == value
Kept(value) == IF value = <<>> THEN NULL ELSE value

\* The arguments in the order in which they stand in the query string or the
\* form.  One ends at "&" or ";"; behind the last of these there need not be one.
First(set, str) == Min({k \in DOMAIN str : str[k] \in set} \cup {Len(str) + 1})
AfterAmp(input) == SubSeq(input, First({38, 59}, input) + 1, Len(input))
UpToAmp(input) == SubSeq(input, 1, First({38, 59}, input) - 1)
Argument(part) ==
  [key |-> redhttp_url_unescape(SubSeq(part, 1, First({61}, part) - 1)),
   value |-> Kept(redhttp_url_unescape(SubSeq(part, First({61}, part) + 1, Len(part))))]

parsed[input \in Seq(Byte)] ==
  IF input = <<>> THEN <<>> ELSE <<Argument(UpToAmp(input))>> \o parsed[AfterAmp(input)]

OneAfterTheLastAmp(input) ==
  parsed[input] \o (IF input # <<>> /\ Last(input) = 38 THEN <<Argument(<<>>)>> ELSE <<>>)
redhttp_request_parse_arguments(input) == parsed[input]

\* redhttp_headers_add asserts that there is a key.
AddAborts(arguments) == \E k \in DOMAIN arguments : arguments[k].key = <<>>

SameKey(key, other) ==
  LET lower(str) == [k \in DOMAIN str |-> IF str[k] \in Upper THEN str[k] + 32 ELSE str[k]]
  IN lower(key) = lower(other)

\* The value of the first argument of this name; NULL if it is empty or there
\* is none.
redhttp_request_get_argument(arguments, key) ==
  LET at == {k \in DOMAIN arguments : SameKey(arguments[k].key, key)}
  IN IF at = {} THEN NULL ELSE arguments[Min(at)].value

redhttp_request_argument_exists(arguments, key) ==
  \E k \in DOMAIN arguments : SameKey(arguments[k].key, key)
=============================================================================
