----------------------------- MODULE MediaTypes -----------------------------
(***************************************************************************)
(* What an Accept header and a menu are made of, and how an element of one *)
(* compares with an offer of the other.                                    *)
(***************************************************************************)
EXTENDS Integers, Sequences, SequencesExt

CONSTANTS
  Types,      \* MIME types
  Names,      \* the names of formats
  Wildcard,   \* "*/*"
  NULL,
  Headers,    \* the Accept headers clients send, as written
  Menus       \* what the server can choose from

\* An element of an Accept header as written: the type, Wildcard, or NULL if
\* there is no text before the comma; and its q parameter, NULL or its value
\* in hundredths with the number of characters that follow "q=".
Written == [type : Types \cup {Wildcard, NULL},
            param : {NULL} \cup [value : Nat, width : Nat]]
Elements == [type : Types \cup {Wildcard}, q : 0 .. 10]
\* A menu lists the types of each format; desc is the name
\* of the format.
Offers == [type : Types, q : 0 .. 10, desc : Names]

ASSUME NegotiationAssumption ==
  /\ Headers \subseteq Seq(Written)
  /\ Menus \subseteq Seq(Offers)
  /\ NULL \notin Offers

\* Quality without the test for values above 1.
QualityUnbounded(w) ==
  IF w.param # NULL /\ w.param.width >= 2 THEN (w.param.value + 5) \div 10 ELSE 10

\* The scan stops three characters before the end of the element, so a
\* value of one digit is never read and counts as 1; values above 1 are
\* ignored.  Tenths, rounded.
Quality(w) ==
  IF w.param # NULL /\ w.param.width >= 2 /\ w.param.value <= 100
  THEN (w.param.value + 5) \div 10
  ELSE 10

\* Match without the wildcard.
MatchExactly(offer, element) == element.type = offer.type

\* redhttp_negotiate_compare_types
Match(offer, element) == element.type \in {Wildcard, offer.type}

Score(offer, element) == offer.q * element.q
=============================================================================
