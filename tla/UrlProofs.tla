------------------------------ MODULE UrlProofs ------------------------------
(***************************************************************************)
(* What the functions of Url compute, for any strings.                     *)
(*                                                                         *)
(* They take a string apart from the front, piece by piece.  That such a   *)
(* function exists, and then has the values its definition gives it, is    *)
(* shown once for all of them: the functions that are right up to some     *)
(* length exist for every length and agree as far as they reach, and a     *)
(* counterexample would leave a shortest one.                              *)
(***************************************************************************)
EXTENDS Url, SequenceTheorems, WellFoundedInduction, TLAPS

-----------------------------------------------------------------------------
(* The first of a set of places                                            *)

LEMMA MinIsLeast ==
  ASSUME NEW S \in SUBSET Nat, S # {}
  PROVE  Min(S) \in S /\ \A x \in S : Min(S) <= x
<1> DEFINE less == OpToRel(<, Nat)
<1>1. IsWellFoundedOn(less, Nat)
  BY NatLessThanWellFounded, Zenon
<1>2. PICK n \in S : \A m \in S : <<m, n>> \notin less
  <2> HIDE DEF less
  <2>. QED
    BY <1>1, WFMin
<1>3. \A m \in S : n <= m
  <2> TAKE m \in S
  <2>1. m \in Nat /\ n \in Nat
    OBVIOUS
  <2>2. ~ m < n
    BY <1>2, <2>1 DEF OpToRel
  <2>. QED
    BY <2>1, <2>2
<1>. QED
  BY <1>3 DEF Min

LEMMA LeastIsMin ==
  ASSUME NEW S \in SUBSET Nat, NEW n \in S, \A x \in S : n <= x
  PROVE  Min(S) = n
<1>1. Min(S) \in S /\ Min(S) <= n
  BY MinIsLeast
<1>2. n <= Min(S) /\ Min(S) \in Nat /\ n \in Nat
  BY <1>1
<1>. QED
  BY <1>1, <1>2

\* A place behind the others does not change which is the first.
LEMMA MinOfMore ==
  ASSUME NEW S \in SUBSET Nat, NEW n \in Nat, \A x \in S : x <= n
  PROVE  Min(S \cup {n}) = IF S = {} THEN n ELSE Min(S)
<1>1. CASE S = {}
  BY <1>1, LeastIsMin
<1>2. CASE S # {}
  <2>1. Min(S) \in S /\ \A x \in S : Min(S) <= x
    BY <1>2, MinIsLeast
  <2>2. \A x \in S \cup {n} : Min(S) <= x
    BY <2>1
  <2>. QED
    BY <1>2, <2>1, <2>2, LeastIsMin
<1>. QED
  BY <1>1, <1>2

LEMMA MinOfTwo ==
  ASSUME NEW m \in Nat, NEW n \in Nat
  PROVE  Min({m, n}) = IF m <= n THEN m ELSE n
<1>1. CASE m <= n
  <2>1. \A x \in {m, n} : m <= x
    BY <1>1
  <2>. QED
    BY <1>1, <2>1, LeastIsMin
<1>2. CASE ~ m <= n
  <2>1. \A x \in {m, n} : n <= x
    BY <1>2
  <2>. QED
    BY <1>2, <2>1, LeastIsMin
<1>. QED
  BY <1>1, <1>2

-----------------------------------------------------------------------------
(* Functions that take a string apart from the front                       *)

\* f takes the first piece of a string, goes on with the rest, and puts what
\* it makes of the pieces together.
Peels(f, S, piece, rest) ==
  f = [str \in Seq(S) |-> IF str = <<>> THEN <<>> ELSE piece[str] \o f[rest[str]]]

Shortens(S, rest) ==
  /\ rest \in [Seq(S) -> Seq(S)]
  /\ \A str \in Seq(S) : str # <<>> => Len(rest[str]) < Len(str)

\* The functions that do so with the strings up to the length of a given one.
Known(S, A, piece, rest) ==
  [limit \in Seq(S) |->
     {f \in [Seq(S) -> Seq(A)] :
        /\ f[<<>>] = <<>>
        /\ \A str \in Seq(S) :
             str # <<>> /\ Len(str) <= Len(limit) => f[str] = piece[str] \o f[rest[str]]}]

\* Of sequences, some are the shortest.
LEMMA Shortest ==
  ASSUME NEW S, NEW Bad \in SUBSET Seq(S), Bad # {}
  PROVE  \E str \in Bad : \A other \in Seq(S) : Len(other) < Len(str) => other \notin Bad
<1> DEFINE lengths == {Len(str) : str \in Bad}
<1>1. lengths \in SUBSET Nat /\ lengths # {}
  BY LenProperties
<1>2. Min(lengths) \in lengths /\ \A n \in lengths : Min(lengths) <= n
  <2> HIDE DEF lengths
  <2>. QED
    BY <1>1, MinIsLeast
<1>3. PICK str \in Bad : Len(str) = Min(lengths)
  BY <1>2
<1>4. ASSUME NEW other \in Seq(S), Len(other) < Len(str)
      PROVE  other \notin Bad
  <2>1. Len(other) \in Nat /\ Len(str) \in Nat
    BY LenProperties
  <2>2. other \in Bad => Len(str) <= Len(other)
    BY <1>2, <1>3
  <2>. QED
    BY <1>4, <2>1, <2>2
<1>. QED
  BY <1>4

LEMMA EmptyIsShort ==
  ASSUME NEW S, NEW str \in Seq(S)
  PROVE  Len(str) \in Nat /\ (Len(str) = 0 <=> str = <<>>)
BY EmptySeq, LenProperties

LEMMA KnownForAll ==
  ASSUME NEW S, NEW A, NEW piece \in [Seq(S) -> Seq(A)], NEW rest, Shortens(S, rest)
  PROVE  \A limit \in Seq(S) : Known(S, A, piece, rest)[limit] # {}
<1> DEFINE Bad == {limit \in Seq(S) : Known(S, A, piece, rest)[limit] = {}}
<1> SUFFICES ASSUME Bad # {} PROVE FALSE
  OBVIOUS
<1>1. PICK limit \in Bad : \A other \in Seq(S) : Len(other) < Len(limit) => other \notin Bad
  <2> HIDE DEF Bad
  <2>1. Bad \in SUBSET Seq(S)
    BY DEF Bad
  <2>. QED
    BY <2>1, Shortest
<1>2. /\ limit \in Seq(S)
      /\ Len(limit) \in Nat
      /\ Known(S, A, piece, rest)[limit] = {}
  BY EmptyIsShort
<1>3. limit # <<>>
  <2> DEFINE f == [str \in Seq(S) |-> <<>>]
  <2>1. f \in [Seq(S) -> Seq(A)] /\ f[<<>>] = <<>>
    BY EmptySeq
  <2>2. \A str \in Seq(S) : ~ (str # <<>> /\ Len(str) <= Len(<<>>))
    BY EmptyIsShort, EmptySeq
  <2>3. f \in Known(S, A, piece, rest)[<<>>]
    BY <2>1, <2>2, EmptySeq DEF Known
  <2>. QED
    BY <1>2, <2>3
<1>4. Tail(limit) \in Seq(S)
  BY <1>2, <1>3, HeadTailProperties
<1>5. PICK f : f \in Known(S, A, piece, rest)[Tail(limit)]
  <2>1. Len(Tail(limit)) < Len(limit)
    BY <1>2, <1>3, HeadTailProperties
  <2>. QED
    BY <1>1, <1>4, <2>1
<1> DEFINE g == [str \in Seq(S) |-> IF str = <<>> THEN <<>> ELSE piece[str] \o f[rest[str]]]
<1>6. f \in [Seq(S) -> Seq(A)] /\ f[<<>>] = <<>>
  BY <1>5, <1>4 DEF Known
<1>7. ASSUME NEW str \in Seq(S)
      PROVE  rest[str] \in Seq(S) /\ f[rest[str]] \in Seq(A) /\ piece[str] \in Seq(A)
  BY <1>6 DEF Shortens
<1>8. g \in [Seq(S) -> Seq(A)] /\ g[<<>>] = <<>>
  <2>1. \A str \in Seq(S) : piece[str] \o f[rest[str]] \in Seq(A)
    BY <1>7, ConcatProperties
  <2>. QED
    BY <2>1, EmptySeq
<1>9. ASSUME NEW str \in Seq(S), Len(str) <= Len(Tail(limit))
      PROVE  g[str] = f[str]
  BY <1>5, <1>6, <1>9, SMTT(30) DEF Known
<1>10. ASSUME NEW str \in Seq(S), str # <<>>, Len(str) <= Len(limit)
      PROVE  g[str] = piece[str] \o g[rest[str]]
  <2>1. Len(rest[str]) < Len(str) /\ rest[str] \in Seq(S)
    BY <1>10 DEF Shortens
  <2>2. Len(rest[str]) <= Len(Tail(limit))
    BY <1>2, <1>3, <1>10, <2>1, HeadTailProperties, EmptyIsShort
  <2>3. g[rest[str]] = f[rest[str]]
    BY <1>9, <2>1, <2>2
  <2>4. g[str] = piece[str] \o f[rest[str]]
    BY <1>10
  <2>. QED
    BY <2>3, <2>4
<1>11. g \in Known(S, A, piece, rest)[limit]
  <2> HIDE DEF g
  <2>. QED
    BY <1>8, <1>10 DEF Known
<1>. QED
  BY <1>2, <1>11

Agree(f, g, str) == f[str] = g[str]

\* Two such functions agree as far as they both reach.
LEMMA KnownIsSame ==
  ASSUME NEW S, NEW A, NEW piece \in [Seq(S) -> Seq(A)], NEW rest, Shortens(S, rest)
  PROVE  \A l, m, str \in Seq(S) : Len(str) <= Len(l) /\ Len(str) <= Len(m) =>
           \A f \in Known(S, A, piece, rest)[l], g \in Known(S, A, piece, rest)[m] : Agree(f, g, str)
<1> SUFFICES ASSUME NEW l \in Seq(S), NEW m \in Seq(S), NEW all \in Seq(S),
                    NEW f \in Known(S, A, piece, rest)[l], NEW g \in Known(S, A, piece, rest)[m],
                    Len(all) <= Len(l), Len(all) <= Len(m)
             PROVE  f[all] = g[all]
  BY DEF Agree
<1> DEFINE Bad == {str \in Seq(S) : Len(str) <= Len(l) /\ Len(str) <= Len(m) /\ f[str] # g[str]}
<1> SUFFICES ASSUME Bad # {} PROVE FALSE
  OBVIOUS
<1>1. PICK str \in Bad : \A other \in Seq(S) : Len(other) < Len(str) => other \notin Bad
  <2> HIDE DEF Bad
  <2>1. Bad \in SUBSET Seq(S)
    BY DEF Bad
  <2>. QED
    BY <2>1, Shortest
<1>2. str \in Seq(S) /\ Len(str) <= Len(l) /\ Len(str) <= Len(m) /\ f[str] # g[str]
  BY <1>1
<1>3. str # <<>>
  BY <1>2 DEF Known
<1>4. rest[str] \in Seq(S) /\ Len(rest[str]) < Len(str)
  BY <1>2, <1>3 DEF Shortens
<1>5. Len(rest[str]) <= Len(l) /\ Len(rest[str]) <= Len(m)
  BY <1>2, <1>4, EmptyIsShort
<1>6. f[rest[str]] = g[rest[str]]
  BY <1>1, <1>4, <1>5
<1>. QED
  BY <1>2, <1>3, <1>6 DEF Known

\* There is a function that peels, whatever the pieces.
LEMMA PeelingEnds ==
  ASSUME NEW S, NEW A, NEW piece \in [Seq(S) -> Seq(A)], NEW rest, Shortens(S, rest)
  PROVE  \E f : Peels(f, S, piece, rest)
<1> DEFINE known == Known(S, A, piece, rest)
           upto == [str \in Seq(S) |-> CHOOSE f \in known[str] : TRUE]
           f == [str \in Seq(S) |-> upto[str][str]]
<1>1. \A str \in Seq(S) : upto[str] \in known[str]
  BY KnownForAll
<1>2. \A l, m, str \in Seq(S) : Len(str) <= Len(l) /\ Len(str) <= Len(m) =>
         \A F \in known[l], G \in known[m] : Agree(F, G, str)
  BY KnownIsSame
<1>3. \A str \in Seq(S) : \A F \in known[str] :
        IF str = <<>> THEN F[str] = <<>> ELSE F[str] = piece[str] \o F[rest[str]]
  BY EmptyIsShort, SMTT(30) DEF Known
<1> HIDE DEF known, upto
<1>4. ASSUME NEW str \in Seq(S)
      PROVE  f[str] = IF str = <<>> THEN <<>> ELSE piece[str] \o f[rest[str]]
  <2>1. CASE str = <<>>
    BY <1>1, <1>3, <2>1
  <2>2. CASE str # <<>>
    <3>1. rest[str] \in Seq(S) /\ Len(rest[str]) < Len(str)
      BY <2>2 DEF Shortens
    <3>2. Len(rest[str]) <= Len(str) /\ Len(rest[str]) <= Len(rest[str])
      BY <3>1, EmptyIsShort
    <3>3. upto[str][rest[str]] = upto[rest[str]][rest[str]]
      <4>1. Agree(upto[str], upto[rest[str]], rest[str])
        BY <1>1, <1>2, <3>1, <3>2
      <4>. QED
        BY <4>1 DEF Agree
    <3>4. f[rest[str]] = upto[str][rest[str]]
      BY <3>1, <3>3
    <3>5. upto[str][str] = piece[str] \o upto[str][rest[str]]
      BY <1>1, <1>3, <2>2
    <3>6. f[str] = upto[str][str]
      OBVIOUS
    <3>. QED
      BY <2>2, <3>4, <3>5, <3>6, Zenon
  <2>. QED
    BY <2>1, <2>2
<1>5. f = [str \in Seq(S) |-> f[str]]
  OBVIOUS
<1> HIDE DEF f
<1>6. Peels(f, S, piece, rest)
  BY <1>4, <1>5 DEF Peels
<1>. QED
  BY <1>6

LEMMA PeelsOnce ==
  ASSUME NEW S, NEW piece, NEW rest, NEW f, Peels(f, S, piece, rest), NEW str \in Seq(S)
  PROVE  f[str] = IF str = <<>> THEN <<>> ELSE piece[str] \o f[rest[str]]
BY DEF Peels

LEMMA PeelsTyped ==
  ASSUME NEW S, NEW A, NEW piece \in [Seq(S) -> Seq(A)], NEW rest, Shortens(S, rest),
         NEW f, Peels(f, S, piece, rest)
  PROVE  \A str \in Seq(S) : f[str] \in Seq(A)
<1> DEFINE Bad == {str \in Seq(S) : f[str] \notin Seq(A)}
<1> SUFFICES ASSUME Bad # {} PROVE FALSE
  OBVIOUS
<1>1. PICK str \in Bad : \A other \in Seq(S) : Len(other) < Len(str) => other \notin Bad
  <2> HIDE DEF Bad
  <2>1. Bad \in SUBSET Seq(S)
    BY DEF Bad
  <2>. QED
    BY <2>1, Shortest
<1>2. str \in Seq(S) /\ f[str] \notin Seq(A)
  OBVIOUS
<1>3. f[str] = IF str = <<>> THEN <<>> ELSE piece[str] \o f[rest[str]]
  BY <1>2, PeelsOnce
<1>4. str # <<>>
  BY <1>2, <1>3, EmptySeq
<1>5. rest[str] \in Seq(S) /\ f[rest[str]] \in Seq(A)
  BY <1>1, <1>2, <1>4 DEF Shortens
<1>. QED
  BY <1>2, <1>3, <1>4, <1>5, ConcatProperties

-----------------------------------------------------------------------------
(* What the functions of Url compute                                       *)

Escaped(str) == 16 * hex_decode(str[2]) + hex_decode(str[3])
UnescapedPiece ==
  [str \in Seq(Byte) |->
     IF str = <<>> THEN <<>>
     ELSE IF StartsWithEscape(str) THEN IF Escaped(str) = 0 THEN <<>> ELSE <<Escaped(str)>>
     ELSE <<IF str[1] = 43 THEN 32 ELSE str[1]>>]
UnescapedRest ==
  [str \in Seq(Byte) |->
     IF str = <<>> THEN <<>>
     ELSE IF StartsWithEscape(str) THEN IF Escaped(str) = 0 THEN <<>> ELSE SubSeq(str, 4, Len(str))
     ELSE Tail(str)]

LEMMA Digit ==
  ASSUME NEW ch
  PROVE  /\ hex_decode(ch) \in -1 .. 15
         /\ hex_decode(ch) = 0 <=> ch = 48
BY DEF hex_decode, Digits

LEMMA Behind ==
  ASSUME NEW S, NEW str \in Seq(S), NEW n \in Nat
  PROVE  /\ SubSeq(str, n + 1, Len(str)) \in Seq(S)
         /\ Len(SubSeq(str, n + 1, Len(str))) = IF n <= Len(str) THEN Len(str) - n ELSE 0
         /\ \A k \in 1 .. Len(str) - n : SubSeq(str, n + 1, Len(str))[k] = str[n + k]
         /\ str # <<>> /\ n # 0 => Len(SubSeq(str, n + 1, Len(str))) < Len(str)
<1>1. Len(str) \in Nat /\ (str # <<>> => Len(str) > 0)
  BY EmptyIsShort
<1>2. \A k \in n + 1 .. Len(str) : str[k] \in S
  BY <1>1, ElementOfSeq
<1> DEFINE t == SubSeq(str, n + 1, Len(str))
<1>3. /\ t \in Seq(S)
      /\ Len(t) = IF n + 1 <= Len(str) THEN Len(str) - (n + 1) + 1 ELSE 0
      /\ \A k \in 1 .. Len(str) - (n + 1) + 1 : t[k] = str[n + 1 + k - 1]
  BY <1>1, <1>2, SubSeqProperties
<1> HIDE DEF t
<1>. QED
  BY <1>1, <1>3 DEF t

LEMMA UnescapedParts ==
  /\ UnescapedPiece \in [Seq(Byte) -> Seq(Byte)]
  /\ Shortens(Byte, UnescapedRest)
<1>1. ASSUME NEW str \in Seq(Byte), str # <<>>
      PROVE  /\ Len(str) \in Nat \ {0}
             /\ str[1] \in Byte
             /\ Tail(str) \in Seq(Byte) /\ Len(Tail(str)) < Len(str)
             /\ SubSeq(str, 4, Len(str)) \in Seq(Byte) /\ Len(SubSeq(str, 4, Len(str))) < Len(str)
  <2>1. Len(str) \in Nat \ {0}
    BY <1>1, EmptySeq
  <2>2. str[1] \in Byte
    BY <2>1, ElementOfSeq
  <2>3. SubSeq(str, 3 + 1, Len(str)) \in Seq(Byte) /\ Len(SubSeq(str, 3 + 1, Len(str))) < Len(str)
    BY <1>1, Behind
  <2>4. 3 + 1 = 4
    OBVIOUS
  <2>5. Tail(str) \in Seq(Byte) /\ Len(Tail(str)) < Len(str)
    BY <1>1, <2>1, HeadTailProperties
  <2>. QED
    BY <2>1, <2>2, <2>3, <2>4, <2>5
<1>2. ASSUME NEW str \in Seq(Byte), StartsWithEscape(str)
      PROVE  Escaped(str) \in 0 .. 255
  <2>1. hex_decode(str[2]) \in 0 .. 15 /\ hex_decode(str[3]) \in 0 .. 15
    BY <1>2, Digit DEF StartsWithEscape
  <2>2. \A m, n \in 0 .. 15 : 16 * m + n \in 0 .. 255
    OBVIOUS
  <2>. QED
    BY <2>1, <2>2, Zenon DEF Escaped
<1>3. ASSUME NEW str \in Seq(Byte)
      PROVE  UnescapedPiece[str] \in Seq(Byte)
  <2>1. <<>> \in Seq(Byte) /\ \A ch \in Byte : <<ch>> \in Seq(Byte)
    OBVIOUS
  <2>2. CASE str = <<>>
    BY <2>1, <2>2 DEF UnescapedPiece
  <2>3. CASE str # <<>> /\ StartsWithEscape(str)
    <3>1. Escaped(str) # 0 => Escaped(str) \in Byte
      BY <1>2, <2>3 DEF Byte
    <3>. QED
      BY <2>1, <2>3, <3>1 DEF UnescapedPiece
  <2>4. CASE str # <<>> /\ ~ StartsWithEscape(str)
    <3>1. (IF str[1] = 43 THEN 32 ELSE str[1]) \in Byte
      BY <1>1, <2>4 DEF Byte
    <3>. QED
      BY <2>1, <2>4, <3>1 DEF UnescapedPiece
  <2>. QED
    BY <2>2, <2>3, <2>4
<1>4. ASSUME NEW str \in Seq(Byte)
      PROVE  /\ UnescapedRest[str] \in Seq(Byte)
             /\ str # <<>> => Len(UnescapedRest[str]) < Len(str)
  <2>1. <<>> \in Seq(Byte) /\ Len(<<>>) = 0
    BY EmptySeq
  <2>. QED
    BY <1>1, <2>1 DEF UnescapedRest
<1>5. /\ UnescapedPiece = [str \in Seq(Byte) |-> UnescapedPiece[str]]
      /\ UnescapedRest = [str \in Seq(Byte) |-> UnescapedRest[str]]
  BY DEF UnescapedPiece, UnescapedRest
<1>. QED
  BY <1>3, <1>4, <1>5 DEF Shortens

\* The equation by which unescaped is defined does define it.
LEMMA UnescapedPeels == Peels(unescaped, Byte, UnescapedPiece, UnescapedRest)
<1> DEFINE body(f, str) ==
             IF str = <<>> THEN <<>>
             ELSE IF StartsWithEscape(str)
             THEN LET ch == 16 * hex_decode(str[2]) + hex_decode(str[3])
                  IN IF ch = 0 THEN <<>> ELSE <<ch>> \o f[SubSeq(str, 4, Len(str))]
             ELSE <<IF str[1] = 43 THEN 32 ELSE str[1]>> \o f[Tail(str)]
           all(f) == [str \in Seq(Byte) |-> body(f, str)]
           peeled(f, str) ==
             IF str = <<>> THEN <<>> ELSE UnescapedPiece[str] \o f[UnescapedRest[str]]
           peels(f) == [str \in Seq(Byte) |-> peeled(f, str)]
<1>1. ASSUME NEW f, f[<<>>] = <<>>, NEW str \in Seq(Byte)
      PROVE  body(f, str) = peeled(f, str)
  <2>1. <<>> \o <<>> = <<>>
    BY EmptySeq, ConcatEmptySeq
  <2>. QED
    BY <1>1, <2>1 DEF UnescapedPiece, UnescapedRest, Escaped
<1>2. ASSUME NEW f
      PROVE  f = all(f) <=> f = peels(f)
  <2>1. <<>> \in Seq(Byte)
    BY EmptySeq
  <2>2. f = all(f) => f[<<>>] = <<>>
    <3>1. all(f)[<<>>] = <<>>
      BY <2>1
    <3> HIDE DEF all
    <3>. QED
      BY <3>1
  <2>3. f = peels(f) => f[<<>>] = <<>>
    <3>1. peels(f)[<<>>] = <<>>
      BY <2>1
    <3> HIDE DEF peels
    <3>. QED
      BY <3>1
  <2>4. f[<<>>] = <<>> => all(f) = peels(f)
    <3> HIDE DEF body, peeled
    <3>. QED
      BY <1>1
  <2> HIDE DEF all, peels
  <2>. QED
    BY <2>2, <2>3, <2>4
<1>3. \E f : f = peels(f)
  <2>1. \E f : Peels(f, Byte, UnescapedPiece, UnescapedRest)
    BY UnescapedParts, PeelingEnds
  <2>. QED
    BY <2>1 DEF Peels
<1>4. \E f : f = all(f)
  <2> HIDE DEF all, peels
  <2>. QED
    BY <1>2, <1>3
<1>5. unescaped = CHOOSE f : f = all(f)
  BY DEF unescaped
<1>6. unescaped = peels(unescaped)
  <2> HIDE DEF all, peels
  <2>. QED
    BY <1>2, <1>4, <1>5
<1>. QED
  BY <1>6 DEF Peels

LEMMA Unescaped ==
  /\ unescaped[<<>>] = <<>>
  /\ \A str \in Seq(Byte) :
       /\ unescaped[str] \in Seq(Byte)
       /\ str # <<>> => unescaped[str] = UnescapedPiece[str] \o unescaped[UnescapedRest[str]]
<1>1. <<>> \in Seq(Byte)
  BY EmptySeq
<1>2. \A str \in Seq(Byte) : unescaped[str] \in Seq(Byte)
  BY UnescapedParts, UnescapedPeels, PeelsTyped
<1>3. \A str \in Seq(Byte) :
        unescaped[str] = IF str = <<>> THEN <<>> ELSE UnescapedPiece[str] \o unescaped[UnescapedRest[str]]
  BY UnescapedPeels, PeelsOnce
<1>. QED
  BY <1>1, <1>2, <1>3

-----------------------------------------------------------------------------
(* Arguments                                                               *)

LEMMA FirstTyped ==
  ASSUME NEW str \in Seq(Byte), NEW set
  PROVE  /\ First(set, str) \in 1 .. Len(str) + 1
         /\ First(set, str) \in Nat \ {0}
         /\ First(set, str) <= Len(str) => str[First(set, str)] \in set
         /\ \A k \in DOMAIN str : str[k] \in set => First(set, str) <= k
<1> DEFINE at == {k \in DOMAIN str : str[k] \in set} \cup {Len(str) + 1}
<1>1. Len(str) \in Nat /\ DOMAIN str = 1 .. Len(str)
  BY LenProperties
<1>2. at \in SUBSET Nat /\ at # {}
  BY <1>1
<1> HIDE DEF at
<1>3. Min(at) \in at /\ \A k \in at : Min(at) <= k
  BY <1>2, MinIsLeast
<1>4. First(set, str) = Min(at)
  BY DEF First, at
<1>. QED
  BY <1>1, <1>3, <1>4 DEF at

ArgumentRecord == [key : Seq(Byte), value : {NULL} \cup (Seq(Byte) \ {<<>>})]
ParsedPiece == [input \in Seq(Byte) |-> <<Argument(UpToAmp(input))>>]
ParsedRest == [input \in Seq(Byte) |-> AfterAmp(input)]

\* The front of a string, up to a place.
LEMMA FrontOf ==
  ASSUME NEW S, NEW str \in Seq(S), NEW n \in 1 .. Len(str) + 1
  PROVE  /\ SubSeq(str, 1, n - 1) \in Seq(S)
         /\ Len(SubSeq(str, 1, n - 1)) = n - 1
         /\ \A k \in 1 .. n - 1 : SubSeq(str, 1, n - 1)[k] = str[k]
<1>1. Len(str) \in Nat /\ n \in Int /\ n - 1 \in Int /\ n - 1 >= 0
  BY LenProperties
<1>2. \A k \in 1 .. n - 1 : str[k] \in S
  BY <1>1, ElementOfSeq
<1>3. /\ SubSeq(str, 1, n - 1) \in Seq(S)
      /\ Len(SubSeq(str, 1, n - 1)) = IF 1 <= n - 1 THEN n - 1 - 1 + 1 ELSE 0
      /\ \A k \in 1 .. n - 1 - 1 + 1 : SubSeq(str, 1, n - 1)[k] = str[1 + k - 1]
  BY <1>1, <1>2, SubSeqProperties
<1> DEFINE t == SubSeq(str, 1, n - 1)
<1> HIDE DEF t
<1>. QED
  BY <1>1, <1>3 DEF t

LEMMA ArgumentTyped ==
  ASSUME NEW part \in Seq(Byte)
  PROVE  Argument(part) \in ArgumentRecord
<1> DEFINE n == First({61}, part)
<1>1. n \in 1 .. Len(part) + 1 /\ n \in Nat \ {0}
  BY FirstTyped
<1> HIDE DEF n
<1>2. SubSeq(part, 1, n - 1) \in Seq(Byte) /\ SubSeq(part, n + 1, Len(part)) \in Seq(Byte)
  BY <1>1, FrontOf, Behind
<1>3. /\ redhttp_url_unescape(SubSeq(part, 1, n - 1)) \in Seq(Byte)
      /\ redhttp_url_unescape(SubSeq(part, n + 1, Len(part))) \in Seq(Byte)
  BY <1>2, Unescaped DEF redhttp_url_unescape
<1>4. \A value \in Seq(Byte) : Kept(value) \in {NULL} \cup (Seq(Byte) \ {<<>>})
  BY DEF Kept
<1>. QED
  BY <1>3, <1>4 DEF Argument, ArgumentRecord, n

LEMMA AmpParts ==
  ASSUME NEW input \in Seq(Byte)
  PROVE  /\ UpToAmp(input) \in Seq(Byte)
         /\ AfterAmp(input) \in Seq(Byte)
         /\ input # <<>> => Len(AfterAmp(input)) < Len(input)
<1>1. First({38, 59}, input) \in 1 .. Len(input) + 1 /\ First({38, 59}, input) \in Nat \ {0}
  BY FirstTyped
<1>. QED
  BY <1>1, FrontOf, Behind DEF UpToAmp, AfterAmp

LEMMA ParsedParts ==
  /\ ParsedPiece \in [Seq(Byte) -> Seq(ArgumentRecord)]
  /\ Shortens(Byte, ParsedRest)
<1>1. \A input \in Seq(Byte) : <<Argument(UpToAmp(input))>> \in Seq(ArgumentRecord)
  <2>1. \A x \in ArgumentRecord : <<x>> \in Seq(ArgumentRecord)
    OBVIOUS
  <2>. QED
    BY <2>1, AmpParts, ArgumentTyped
<1>. QED
  BY <1>1, AmpParts DEF ParsedPiece, ParsedRest, Shortens

LEMMA ParsedPeels == Peels(parsed, Byte, ParsedPiece, ParsedRest)
<1> DEFINE all(f) ==
             [input \in Seq(Byte) |->
                IF input = <<>> THEN <<>> ELSE <<Argument(UpToAmp(input))>> \o f[AfterAmp(input)]]
<1>1. ASSUME NEW f
      PROVE  Peels(f, Byte, ParsedPiece, ParsedRest) <=> f = all(f)
  <2>1. \A input \in Seq(Byte) :
          /\ ParsedPiece[input] = <<Argument(UpToAmp(input))>>
          /\ ParsedRest[input] = AfterAmp(input)
    BY DEF ParsedPiece, ParsedRest
  <2>2. [input \in Seq(Byte) |->
           IF input = <<>> THEN <<>> ELSE ParsedPiece[input] \o f[ParsedRest[input]]] = all(f)
    BY <2>1
  <2>. QED
    BY <2>2, Zenon DEF Peels
<1>2. \E f : f = all(f)
  BY <1>1, ParsedParts, PeelingEnds
<1>3. parsed = CHOOSE f : f = all(f)
  BY DEF parsed
<1> HIDE DEF all
<1>. QED
  BY <1>1, <1>2, <1>3

LEMMA Parsed ==
  /\ parsed[<<>>] = <<>>
  /\ \A input \in Seq(Byte) :
       /\ parsed[input] \in Seq(ArgumentRecord)
       /\ UpToAmp(input) \in Seq(Byte) /\ AfterAmp(input) \in Seq(Byte)
       /\ input # <<>> =>
            /\ Len(AfterAmp(input)) < Len(input)
            /\ parsed[input] = <<Argument(UpToAmp(input))>> \o parsed[AfterAmp(input)]
<1>1. <<>> \in Seq(Byte)
  BY EmptySeq
<1>2. \A input \in Seq(Byte) : parsed[input] \in Seq(ArgumentRecord)
  BY ParsedParts, ParsedPeels, PeelsTyped
<1>3. \A input \in Seq(Byte) :
        parsed[input] = IF input = <<>> THEN <<>> ELSE ParsedPiece[input] \o parsed[ParsedRest[input]]
  BY ParsedPeels, PeelsOnce
<1>. QED
  BY <1>1, <1>2, <1>3, AmpParts DEF ParsedPiece, ParsedRest

-----------------------------------------------------------------------------
(* The value of an argument                                                *)

Named(arguments, key) == {k \in DOMAIN arguments : SameKey(arguments[k].key, key)}

LEMMA GetIsNamed ==
  ASSUME NEW a, NEW key
  PROVE  /\ redhttp_request_get_argument(a, key) =
              IF Named(a, key) = {} THEN NULL ELSE a[Min(Named(a, key))].value
         /\ redhttp_request_argument_exists(a, key) <=> Named(a, key) # {}
BY DEF redhttp_request_get_argument, redhttp_request_argument_exists, Named

LEMMA GetTyped ==
  ASSUME NEW a \in Seq(ArgumentRecord), NEW key
  PROVE  redhttp_request_get_argument(a, key) \in {NULL} \cup (Seq(Byte) \ {<<>>})
<1>1. CASE Named(a, key) = {}
  BY <1>1, GetIsNamed
<1>2. CASE Named(a, key) # {}
  <2>1. Named(a, key) \in SUBSET Nat /\ Named(a, key) \subseteq DOMAIN a
    BY DEF Named
  <2>2. Min(Named(a, key)) \in DOMAIN a
    BY <1>2, <2>1, MinIsLeast
  <2>3. \A k \in DOMAIN a : a[k].value \in {NULL} \cup (Seq(Byte) \ {<<>>})
    <3> TAKE k \in DOMAIN a
    <3>1. a[k] \in ArgumentRecord
      OBVIOUS
    <3>. QED
      BY <3>1 DEF ArgumentRecord
  <2>. QED
    BY <1>2, <2>2, <2>3, GetIsNamed, Zenon
<1>. QED
  BY <1>1, <1>2

\* The arguments that stand in front hide those behind them.
LEMMA GetOfBoth ==
  ASSUME NEW a \in Seq(ArgumentRecord), NEW b \in Seq(ArgumentRecord), NEW key
  PROVE  redhttp_request_get_argument(a \o b, key) =
           redhttp_request_get_argument(IF redhttp_request_argument_exists(a, key) THEN a ELSE b, key)
<1> DEFINE both == a \o b
           n == Len(a)
<1>1. /\ n \in Nat /\ Len(b) \in Nat
      /\ DOMAIN a = 1 .. n /\ DOMAIN b = 1 .. Len(b) /\ DOMAIN both = 1 .. n + Len(b)
      /\ \A k \in 1 .. n + Len(b) : both[k] = IF k <= n THEN a[k] ELSE b[k - n]
  BY ConcatProperties, LenProperties
<1> HIDE DEF both, n
<1>2. Named(a, key) \in SUBSET Nat /\ Named(b, key) \in SUBSET Nat /\ Named(both, key) \in SUBSET Nat
  BY <1>1 DEF Named
<1>3. CASE Named(a, key) # {}
  <2>1. Min(Named(a, key)) \in Named(a, key) /\ \A x \in Named(a, key) : Min(Named(a, key)) <= x
    BY <1>2, <1>3, MinIsLeast
  <2> DEFINE m == Min(Named(a, key))
  <2> HIDE DEF m
  <2>2. m \in 1 .. n /\ SameKey(a[m].key, key) /\ \A x \in Named(a, key) : m <= x
    BY <1>1, <2>1 DEF Named, m
  <2>3. m \in Named(both, key)
    BY <1>1, <2>2 DEF Named
  <2>4. ASSUME NEW x \in Named(both, key) PROVE m <= x
    <3>1. x \in 1 .. n + Len(b) /\ SameKey(both[x].key, key)
      BY <1>1 DEF Named
    <3>2. CASE x <= n
      BY <1>1, <2>2, <3>1, <3>2 DEF Named
    <3>3. CASE ~ x <= n
      BY <1>1, <2>2, <3>1, <3>3
    <3>. QED
      BY <3>2, <3>3
  <2>5. Min(Named(both, key)) = m
    BY <1>2, <2>3, <2>4, LeastIsMin
  <2>6. both[m] = a[m]
    BY <1>1, <2>2
  <2>7. redhttp_request_get_argument(both, key) = a[m].value
    BY <2>3, <2>5, <2>6, GetIsNamed
  <2>8. redhttp_request_get_argument(a, key) = a[m].value
    BY <1>3, GetIsNamed DEF m
  <2>9. redhttp_request_argument_exists(a, key)
    BY <1>3, GetIsNamed
  <2>. QED
    BY <2>7, <2>8, <2>9 DEF both
<1>4. CASE Named(a, key) = {}
  <2>1. \A k \in 1 .. n + Len(b) : k \in Named(both, key) <=> k - n \in Named(b, key)
    <3> TAKE k \in 1 .. n + Len(b)
    <3>1. CASE k <= n
      <4>1. k \in DOMAIN a /\ both[k] = a[k] /\ k - n \notin DOMAIN b
        BY <1>1, <3>1
      <4>. QED
        BY <1>4, <4>1 DEF Named
    <3>2. CASE ~ k <= n
      <4>1. k \in DOMAIN both /\ both[k] = b[k - n] /\ k - n \in DOMAIN b
        BY <1>1, <3>2
      <4>. QED
        BY <4>1 DEF Named
    <3>. QED
      BY <3>1, <3>2
  <2>2. Named(b, key) \subseteq 1 .. Len(b) /\ Named(both, key) \subseteq 1 .. n + Len(b)
    BY <1>1 DEF Named
  <2>3. CASE Named(b, key) = {}
    <3>1. Named(both, key) = {}
      BY <2>1, <2>2, <2>3
    <3>. QED
      BY <1>4, <2>3, <3>1, GetIsNamed DEF both
  <2>4. CASE Named(b, key) # {}
    <3> DEFINE m == Min(Named(b, key))
    <3>1. m \in Named(b, key) /\ \A x \in Named(b, key) : m <= x
      BY <1>2, <2>4, MinIsLeast
    <3> HIDE DEF m
    <3>2. m \in 1 .. Len(b) /\ n + m \in 1 .. n + Len(b) /\ (n + m) - n = m /\ n + m \in Nat
      BY <1>1, <2>2, <3>1
    <3>3. n + m \in Named(both, key)
      BY <2>1, <3>1, <3>2
    <3>4. ASSUME NEW x \in Named(both, key) PROVE n + m <= x
      <4>1. x \in 1 .. n + Len(b) /\ x - n \in Named(b, key)
        BY <2>1, <2>2
      <4>2. m <= x - n
        BY <3>1, <4>1
      <4>. QED
        BY <1>1, <3>2, <4>1, <4>2
    <3>5. Min(Named(both, key)) = n + m
      BY <1>2, <3>3, <3>4, LeastIsMin
    <3>6. both[n + m] = b[m]
      BY <1>1, <3>2
    <3>. QED
      BY <1>4, <2>4, <3>3, <3>5, <3>6, GetIsNamed DEF m, both
  <2>. QED
    BY <2>3, <2>4
<1>. QED
  BY <1>3, <1>4

-----------------------------------------------------------------------------
(* Taking apart what was put together                                      *)

LEMMA Parts ==
  ASSUME NEW S, NEW s \in Seq(S), NEW t \in Seq(S)
  PROVE  /\ SubSeq(s \o t, 1, Len(s)) = s
         /\ SubSeq(s \o t, Len(s) + 1, Len(s \o t)) = t
<1> DEFINE all == s \o t
           n == Len(s)
<1>1. /\ n \in Nat /\ Len(t) \in Nat
      /\ all \in Seq(S)
      /\ Len(all) = n + Len(t)
      /\ \A k \in 1 .. n + Len(t) : all[k] = IF k <= n THEN s[k] ELSE t[k - n]
  BY ConcatProperties, LenProperties
<1> HIDE DEF all, n
<1>2. SubSeq(all, 1, n) = s
  <2> DEFINE front == SubSeq(all, 1, n)
  <2>1. n + 1 \in 1 .. Len(all) + 1 /\ (n + 1) - 1 = n
    BY <1>1
  <2>2. /\ SubSeq(all, 1, (n + 1) - 1) \in Seq(S)
        /\ Len(SubSeq(all, 1, (n + 1) - 1)) = (n + 1) - 1
        /\ \A k \in 1 .. (n + 1) - 1 : SubSeq(all, 1, (n + 1) - 1)[k] = all[k]
    BY <1>1, <2>1, FrontOf
  <2>3. front \in Seq(S) /\ Len(front) = n /\ \A k \in 1 .. n : front[k] = all[k]
    BY <2>1, <2>2
  <2> HIDE DEF front
  <2>4. Len(front) = Len(s) /\ \A k \in 1 .. Len(front) : front[k] = s[k]
    BY <1>1, <2>3 DEF n
  <2>5. front = s
    BY <2>3, <2>4, SeqEqual
  <2>. QED
    BY <2>5 DEF front
<1>3. SubSeq(all, n + 1, Len(all)) = t
  <2> DEFINE back == SubSeq(all, n + 1, Len(all))
  <2>1. /\ back \in Seq(S)
        /\ Len(back) = IF n <= Len(all) THEN Len(all) - n ELSE 0
        /\ \A k \in 1 .. Len(all) - n : back[k] = all[n + k]
    BY <1>1, Behind
  <2> HIDE DEF back
  <2>2. Len(back) = Len(t) /\ \A k \in 1 .. Len(back) : back[k] = t[k]
    <3>1. Len(back) = Len(t) /\ Len(all) - n = Len(t)
      BY <1>1, <2>1
    <3>2. ASSUME NEW k \in 1 .. Len(t) PROVE back[k] = t[k]
      <4>1. n + k \in 1 .. n + Len(t) /\ ~ n + k <= n /\ (n + k) - n = k
        BY <1>1
      <4>2. back[k] = all[n + k]
        BY <2>1, <3>1
      <4>3. all[n + k] = t[(n + k) - n]
        BY <1>1, <4>1
      <4>. QED
        BY <4>1, <4>2, <4>3
    <3>. QED
      BY <3>1, <3>2
  <2>3. back = t
    BY <2>1, <2>2, SeqEqual
  <2>. QED
    BY <2>3 DEF back
<1>. QED
  BY <1>2, <1>3 DEF all, n

LEMMA FirstAndRest ==
  ASSUME NEW S, NEW s \in Seq(S), s # <<>>
  PROVE  /\ s[1] \in S
         /\ Tail(s) \in Seq(S)
         /\ Len(Tail(s)) < Len(s)
         /\ s = <<s[1]>> \o Tail(s)
<1>1. Len(s) \in Nat \ {0} /\ s[1] \in S
  BY EmptySeq, ElementOfSeq
<1>2. /\ Tail(s) \in Seq(S)
      /\ Len(Tail(s)) = Len(s) - 1
      /\ \A i \in 1 .. Len(Tail(s)) : Tail(s)[i] = s[i + 1]
  BY HeadTailProperties
<1> DEFINE t == Tail(s)
           one == <<s[1]>>
           all == one \o t
<1>3. one \in Seq(S) /\ Len(one) = 1 /\ one[1] = s[1]
  BY <1>1
<1> HIDE DEF t, one
<1>4. /\ all \in Seq(S)
      /\ Len(all) = 1 + Len(t)
      /\ \A i \in 1 .. 1 + Len(t) : all[i] = IF i <= 1 THEN one[i] ELSE t[i - 1]
  <2>1. t \in Seq(S)
    BY <1>2 DEF t
  <2>2. /\ all \in Seq(S)
        /\ Len(all) = Len(one) + Len(t)
        /\ \A i \in 1 .. Len(one) + Len(t) : all[i] = IF i <= Len(one) THEN one[i] ELSE t[i - Len(one)]
    BY <1>3, <2>1, ConcatProperties
  <2> HIDE DEF all
  <2>. QED
    BY <1>3, <2>2
<1> HIDE DEF all
<1>5. Len(all) = Len(s)
  BY <1>1, <1>2, <1>4 DEF t
<1>6. \A i \in 1 .. Len(all) : all[i] = s[i]
  <2> TAKE i \in 1 .. Len(all)
  <2>1. CASE i = 1
    BY <1>3, <1>4, <2>1
  <2>2. CASE i # 1
    <3>1. all[i] = t[i - 1] /\ i - 1 \in 1 .. Len(t) /\ (i - 1) + 1 = i
      BY <1>1, <1>2, <1>4, <2>2 DEF t
    <3>2. t[i - 1] = s[(i - 1) + 1]
      BY <1>2, <3>1 DEF t
    <3>. QED
      BY <3>1, <3>2
  <2>. QED
    BY <2>1, <2>2
<1>7. all = s
  BY <1>4, <1>5, <1>6, SeqEqual
<1>. QED
  BY <1>1, <1>2, <1>7 DEF all, one, t

Equal(x, y) == x = y

\* all is s and behind it t.
Joined(all, s, t) ==
  /\ Len(all) = Len(s) + Len(t)
  /\ \A k \in 1 .. Len(s) + Len(t) : all[k] = IF k <= Len(s) THEN s[k] ELSE t[k - Len(s)]

LEMMA Joins ==
  \A S : \A s, t, u \in Seq(S) :
    /\ s \o t \in Seq(S)
    /\ Joined(s \o t, s, t)
    /\ Equal((s \o t) \o u, s \o (t \o u))
<1> TAKE S
<1> TAKE s, t, u \in Seq(S)
<1>1. s \o t \in Seq(S) /\ Joined(s \o t, s, t)
  BY ConcatProperties DEF Joined
<1>2. Equal((s \o t) \o u, s \o (t \o u))
  BY ConcatAssociative DEF Equal
<1>. QED
  BY <1>1, <1>2

LEMMA Regroup ==
  \A S : \A a, b, c, d, e, f \in Seq(S) :
    Equal(((((a \o b) \o c) \o d) \o e) \o f, a \o ((b \o c) \o ((d \o e) \o f)))
<1> TAKE S
<1> TAKE a, b, c, d, e, f \in Seq(S)
<1> DEFINE bc == b \o c
           de == d \o e
           abc == a \o bc
           rest == de \o f
<1>1. bc \in Seq(S) /\ de \in Seq(S) /\ Equal((a \o b) \o c, abc)
  BY Joins, Zenon
<1> HIDE DEF bc
<1>2. abc \in Seq(S)
  BY <1>1, Joins, Zenon
<1>3. Equal((abc \o d) \o e, abc \o de)
  <2> HIDE DEF abc
  <2>. QED
    BY <1>2, Joins, Zenon
<1> HIDE DEF de
<1>4. rest \in Seq(S)
  BY <1>1, Joins, Zenon
<1>5. Equal((abc \o de) \o f, abc \o rest)
  <2> HIDE DEF abc
  <2>. QED
    BY <1>1, <1>2, Joins, Zenon
<1>6. Equal(abc \o rest, a \o (bc \o rest))
  <2> HIDE DEF rest
  <2>. QED
    BY <1>1, <1>4, Joins, Zenon
<1> HIDE DEF abc, rest
<1>7. ((((a \o b) \o c) \o d) \o e) \o f = a \o (bc \o rest)
  BY <1>1, <1>3, <1>5, <1>6, Zenon DEF Equal
<1>. QED
  BY <1>7, Zenon DEF Equal, bc, de, rest

-----------------------------------------------------------------------------
(* Escaping and back                                                       *)

LEMMA UnescapedPlain ==
  ASSUME NEW ch \in Byte \ {37, 43}, NEW str \in Seq(Byte)
  PROVE  unescaped[<<ch>> \o str] = <<ch>> \o unescaped[str]
<1> DEFINE all == <<ch>> \o str
<1>1. <<ch>> \in Seq(Byte) /\ Len(<<ch>>) = 1 /\ <<ch>>[1] = ch
  OBVIOUS
<1>2. all \in Seq(Byte) /\ Len(all) = 1 + Len(str) /\ all[1] = ch /\ all # <<>>
  <2>1. /\ all \in Seq(Byte)
        /\ Len(all) = 1 + Len(str)
        /\ \A k \in 1 .. 1 + Len(str) : all[k] = IF k <= 1 THEN <<ch>>[k] ELSE str[k - 1]
    BY <1>1, ConcatProperties
  <2>2. Len(str) \in Nat
    BY LenProperties
  <2> HIDE DEF all
  <2>. QED
    BY <1>1, <2>1, <2>2, EmptySeq
<1>3. Tail(all) = str
  <2>1. Tail(all) = SubSeq(all, 2, Len(all))
    BY <1>2, TailIsSubSeq
  <2>2. SubSeq(all, 1 + 1, Len(all)) = str
    BY <1>1, Parts
  <2>3. 1 + 1 = 2
    OBVIOUS
  <2>. QED
    BY <2>1, <2>2, <2>3
<1> HIDE DEF all
<1>4. UnescapedPiece[all] = <<ch>> /\ UnescapedRest[all] = str
  BY <1>2, <1>3 DEF UnescapedPiece, UnescapedRest, StartsWithEscape
<1>. QED
  BY <1>2, <1>4, Unescaped DEF all

LEMMA UnescapedEscape ==
  ASSUME NEW three \in Seq(Byte), Len(three) = 3, StartsWithEscape(three), Escaped(three) # 0,
         NEW str \in Seq(Byte)
  PROVE  unescaped[three \o str] = <<Escaped(three)>> \o unescaped[str]
<1> DEFINE all == three \o str
<1>1. /\ all \in Seq(Byte)
      /\ Len(all) = Len(three) + Len(str)
      /\ \A k \in 1 .. Len(three) + Len(str) :
           all[k] = IF k <= Len(three) THEN three[k] ELSE str[k - Len(three)]
  BY ConcatProperties
<1>2. SubSeq(all, Len(three) + 1, Len(all)) = str
  BY Parts
<1> HIDE DEF all
<1>3. Len(str) \in Nat /\ Len(three) + 1 = 4
  BY LenProperties
<1>4. SubSeq(all, 4, Len(all)) = str
  BY <1>2, <1>3, Zenon
<1>5. Len(all) >= 3 /\ all # <<>>
  BY <1>1, <1>3, EmptySeq
<1>6. all[1] = three[1] /\ all[2] = three[2] /\ all[3] = three[3]
  <2>1. \A k \in 1 .. 3 : k \in 1 .. Len(three) + Len(str) /\ k <= Len(three)
    BY <1>3
  <2>2. \A k \in 1 .. 3 : all[k] = three[k]
    BY <1>1, <2>1
  <2>. QED
    BY <2>2
<1>7. StartsWithEscape(all)
  BY <1>5, <1>6, Zenon DEF StartsWithEscape
<1>8. Escaped(all) = Escaped(three)
  BY <1>6, Zenon DEF Escaped
<1>9. UnescapedPiece[all] = <<Escaped(three)>> /\ UnescapedRest[all] = str
  BY <1>1, <1>4, <1>5, <1>7, <1>8, Zenon DEF UnescapedPiece, UnescapedRest
<1>10. unescaped[all] = UnescapedPiece[all] \o unescaped[UnescapedRest[all]]
  BY <1>1, <1>5, Unescaped
<1>. QED
  BY <1>9, <1>10, Zenon DEF all

EscapedPiece(junk) == [str \in Seq(Byte) |-> IF str = <<>> THEN <<>> ELSE Escape(str[1], junk)]
EscapedRest == [str \in Seq(Byte) |-> IF str = <<>> THEN <<>> ELSE Tail(str)]

\* The string is one argument, not several.
OneArgument(str) == str \in Seq(Byte) /\ \A k \in DOMAIN str : str[k] \notin {38, 59}

LEMMA EscapeTyped ==
  ASSUME NEW ch \in Byte, NEW junk \in {47, 65}
  PROVE  OneArgument(Escape(ch, junk))
<1>1. CASE isurlsafe(ch)
  <2>1. Escape(ch, junk) = <<ch>> /\ ch \notin {38, 59}
    BY <1>1 DEF Escape, isurlsafe, Lower, Upper, Digits
  <2>2. <<ch>> \in Seq(Byte) /\ \A k \in DOMAIN <<ch>> : <<ch>>[k] = ch
    OBVIOUS
  <2>. QED
    BY <2>1, <2>2 DEF OneArgument
<1>2. CASE ~ isurlsafe(ch)
  <2> DEFINE h == IF ch > 127 THEN junk ELSE HexDigit(ch \div 16)
             l == HexDigit(ch % 16)
  <2>1. ch \div 16 \in 0 .. 15 /\ ch % 16 \in 0 .. 15
    BY DEF Byte
  <2>2. \A n \in 0 .. 15 : HexDigit(n) \in (47 .. 57) \cup (65 .. 70)
    BY DEF HexDigit
  <2>3. h \in (47 .. 57) \cup (65 .. 70) /\ l \in (47 .. 57) \cup (65 .. 70)
    <3>1. HexDigit(ch \div 16) \in (47 .. 57) \cup (65 .. 70)
      BY <2>1, <2>2, Zenon
    <3>2. HexDigit(ch % 16) \in (47 .. 57) \cup (65 .. 70)
      BY <2>1, <2>2, Zenon
    <3>. QED
      BY <3>1, <3>2
  <2>4. Escape(ch, junk) = <<37, h, l>>
    BY <1>2 DEF Escape
  <2> HIDE DEF h, l
  <2>5. \A x, y \in (47 .. 57) \cup (65 .. 70) : OneArgument(<<37, x, y>>)
    BY DEF OneArgument, Byte
  <2>. QED
    BY <2>3, <2>4, <2>5, Zenon
<1>. QED
  BY <1>1, <1>2

LEMMA EscapedParts ==
  ASSUME NEW junk \in {47, 65}
  PROVE  /\ EscapedPiece(junk) \in [Seq(Byte) -> Seq(Byte)]
         /\ Shortens(Byte, EscapedRest)
<1>1. <<>> \in Seq(Byte)
  BY EmptySeq
<1>2. \A str \in Seq(Byte) : str # <<>> =>
        /\ Escape(str[1], junk) \in Seq(Byte)
        /\ Tail(str) \in Seq(Byte)
        /\ Len(Tail(str)) < Len(str)
  BY FirstAndRest, EscapeTyped DEF OneArgument
<1>. QED
  BY <1>1, <1>2 DEF EscapedPiece, EscapedRest, Shortens

LEMMA EscapePeels ==
  ASSUME NEW junk \in {47, 65}
  PROVE  \E f : /\ Peels(f, Byte, EscapedPiece(junk), EscapedRest)
                /\ \A str \in Seq(Byte) : redhttp_url_escape(str, junk) = f[str]
<1> DEFINE all(f) ==
             [rest \in Seq(Byte) |->
                IF rest = <<>> THEN <<>> ELSE Escape(rest[1], junk) \o f[Tail(rest)]]
           escaped == CHOOSE f : f = all(f)
<1>1. ASSUME NEW f
      PROVE  Peels(f, Byte, EscapedPiece(junk), EscapedRest) <=> f = all(f)
  <2>1. \A str \in Seq(Byte) : str # <<>> =>
          /\ EscapedPiece(junk)[str] = Escape(str[1], junk)
          /\ EscapedRest[str] = Tail(str)
    BY DEF EscapedPiece, EscapedRest
  <2>2. [str \in Seq(Byte) |->
           IF str = <<>> THEN <<>> ELSE EscapedPiece(junk)[str] \o f[EscapedRest[str]]] = all(f)
    BY <2>1
  <2>. QED
    BY <2>2, Zenon DEF Peels
<1>2. \E f : f = all(f)
  BY <1>1, EscapedParts, PeelingEnds, ZenonT(40)
<1>3. \A str : redhttp_url_escape(str, junk) = escaped[str]
  BY DEF redhttp_url_escape
<1>4. escaped = all(escaped)
  <2> HIDE DEF all
  <2>. QED
    BY <1>2
<1> HIDE DEF all, escaped
<1>. QED
  BY <1>1, <1>3, <1>4

LEMMA Escapes ==
  ASSUME NEW junk \in {47, 65}
  PROVE  /\ redhttp_url_escape(<<>>, junk) = <<>>
         /\ \A str \in Seq(Byte) :
              /\ redhttp_url_escape(str, junk) \in Seq(Byte)
              /\ str # <<>> =>
                   redhttp_url_escape(str, junk) =
                     Escape(str[1], junk) \o redhttp_url_escape(Tail(str), junk)
<1>1. PICK f : /\ Peels(f, Byte, EscapedPiece(junk), EscapedRest)
               /\ \A str \in Seq(Byte) : redhttp_url_escape(str, junk) = f[str]
  BY EscapePeels
<1>2. <<>> \in Seq(Byte)
  BY EmptySeq
<1>3. \A str \in Seq(Byte) : f[str] \in Seq(Byte)
  BY <1>1, EscapedParts, PeelsTyped
<1>4. \A str \in Seq(Byte) :
        f[str] = IF str = <<>> THEN <<>> ELSE EscapedPiece(junk)[str] \o f[EscapedRest[str]]
  BY <1>1, PeelsOnce
<1>5. ASSUME NEW str \in Seq(Byte), str # <<>>
      PROVE  redhttp_url_escape(str, junk) = Escape(str[1], junk) \o redhttp_url_escape(Tail(str), junk)
  <2>1. Tail(str) \in Seq(Byte)
    BY <1>5, FirstAndRest
  <2>2. EscapedPiece(junk)[str] = Escape(str[1], junk) /\ EscapedRest[str] = Tail(str)
    BY <1>5 DEF EscapedPiece, EscapedRest
  <2>3. f[str] = EscapedPiece(junk)[str] \o f[EscapedRest[str]]
    BY <1>4, <1>5
  <2>. QED
    BY <1>1, <2>1, <2>2, <2>3
<1>. QED
  BY <1>1, <1>2, <1>3, <1>4, <1>5

LEMMA OneOfBoth ==
  ASSUME NEW s, OneArgument(s), NEW t, OneArgument(t)
  PROVE  OneArgument(s \o t)
<1> DEFINE all == s \o t
           n == Len(s)
<1>1. /\ n \in Nat /\ Len(t) \in Nat
      /\ DOMAIN s = 1 .. n /\ DOMAIN t = 1 .. Len(t)
      /\ all \in Seq(Byte)
      /\ DOMAIN all = 1 .. n + Len(t)
      /\ \A k \in 1 .. n + Len(t) : all[k] = IF k <= n THEN s[k] ELSE t[k - n]
  BY ConcatProperties, LenProperties DEF OneArgument
<1> HIDE DEF all, n
<1>2. \A k \in 1 .. n + Len(t) : IF k <= n THEN k \in DOMAIN s ELSE k - n \in DOMAIN t
  BY <1>1
<1>3. \A k \in DOMAIN all : all[k] \notin {38, 59}
  <2> TAKE k \in DOMAIN all
  <2>1. k \in 1 .. n + Len(t)
    BY <1>1
  <2>2. CASE k <= n
    <3>1. all[k] = s[k] /\ k \in DOMAIN s
      BY <1>1, <1>2, <2>1, <2>2
    <3>. QED
      BY <3>1 DEF OneArgument
  <2>3. CASE ~ k <= n
    <3>1. all[k] = t[k - n] /\ k - n \in DOMAIN t
      BY <1>1, <1>2, <2>1, <2>3
    <3>. QED
      BY <3>1 DEF OneArgument
  <2>. QED
    BY <2>2, <2>3
<1>. QED
  BY <1>1, <1>3 DEF OneArgument, all

LEMMA EscapedIsOneArgument ==
  ASSUME NEW all \in Seq(Byte), NEW junk \in {47, 65}
  PROVE  OneArgument(redhttp_url_escape(all, junk))
<1> DEFINE Bad == {str \in Seq(Byte) : ~ OneArgument(redhttp_url_escape(str, junk))}
<1> SUFFICES ASSUME Bad # {} PROVE FALSE
  OBVIOUS
<1>1. PICK str \in Bad : \A other \in Seq(Byte) : Len(other) < Len(str) => other \notin Bad
  <2> HIDE DEF Bad
  <2>1. Bad \in SUBSET Seq(Byte)
    BY DEF Bad
  <2>. QED
    BY <2>1, Shortest
<1>2. OneArgument(<<>>)
  BY EmptySeq DEF OneArgument
<1>3. str \in Seq(Byte) /\ str # <<>>
  BY <1>2, Escapes
<1>4. str[1] \in Byte /\ Tail(str) \in Seq(Byte) /\ Len(Tail(str)) < Len(str)
  BY <1>3, FirstAndRest
<1>5. OneArgument(Escape(str[1], junk)) /\ OneArgument(redhttp_url_escape(Tail(str), junk))
  BY <1>1, <1>4, EscapeTyped
<1>6. OneArgument(redhttp_url_escape(str, junk))
  <2>1. redhttp_url_escape(str, junk) = Escape(str[1], junk) \o redhttp_url_escape(Tail(str), junk)
    BY <1>3, Escapes
  <2>. QED
    BY <1>5, <2>1, OneOfBoth
<1>. QED
  BY <1>6

LEMMA DigitComesBack == \A n \in 0 .. 15 : HexDigit(n) \in Byte /\ hex_decode(HexDigit(n)) = n
<1> TAKE n \in 0 .. 15
<1>1. CASE n < 10
  <2>1. 48 + n \in 48 .. 57 /\ (48 + n) - 48 = n
    BY <1>1
  <2>. QED
    BY <1>1, <2>1 DEF HexDigit, hex_decode, Digits, Byte
<1>2. CASE ~ n < 10
  <2>1. 55 + n \in 65 .. 70 /\ 55 + n \notin 48 .. 57 /\ (55 + n) - 55 = n
    BY <1>2
  <2>. QED
    BY <1>2, <2>1 DEF HexDigit, hex_decode, Digits, Byte
<1>. QED
  BY <1>1, <1>2

\* A byte that is no negative char comes back from its escape.
LEMMA ByteComesBack ==
  ASSUME NEW ch \in 1 .. 127, NEW junk \in {47, 65}, NEW str \in Seq(Byte)
  PROVE  unescaped[Escape(ch, junk) \o str] = <<ch>> \o unescaped[str]
<1>1. CASE isurlsafe(ch)
  <2>1. Escape(ch, junk) = <<ch>>
    BY <1>1 DEF Escape
  <2>2. ch \in Byte \ {37, 43}
    BY <1>1 DEF isurlsafe, Lower, Upper, Digits, Byte
  <2>. QED
    BY <2>1, <2>2, UnescapedPlain
<1>2. CASE ~ isurlsafe(ch)
  <2> DEFINE m == ch \div 16
             n == ch % 16
  <2>1. m \in 0 .. 15 /\ n \in 0 .. 15 /\ 16 * m + n = ch /\ ch # 0 /\ ~ ch > 127
    OBVIOUS
  <2> HIDE DEF m, n
  <2>2. Escape(ch, junk) = <<37, HexDigit(m), HexDigit(n)>>
    BY <1>2, <2>1 DEF Escape, m, n
  <2>3. /\ HexDigit(m) \in Byte /\ hex_decode(HexDigit(m)) = m
        /\ HexDigit(n) \in Byte /\ hex_decode(HexDigit(n)) = n
    BY <2>1, DigitComesBack
  <2>4. \A x, y \in Byte : <<37, x, y>> \in Seq(Byte)
    BY DEF Byte
  <2>5. <<37, HexDigit(m), HexDigit(n)>> \in Seq(Byte)
    BY <2>3, <2>4
  <2>6. 16 * hex_decode(HexDigit(m)) + hex_decode(HexDigit(n)) = ch
    BY <2>1, <2>3, Zenon
  <2> DEFINE three == <<37, HexDigit(m), HexDigit(n)>>
  <2>7. Len(three) = 3 /\ three[1] = 37 /\ three[2] = HexDigit(m) /\ three[3] = HexDigit(n)
    OBVIOUS
  <2> HIDE DEF three
  <2>8. three \in Seq(Byte) /\ Escape(ch, junk) = three
    BY <2>2, <2>5 DEF three
  <2>9. Escaped(three) = ch
    BY <2>6, <2>7, Zenon DEF Escaped
  <2>10. StartsWithEscape(three)
    <3>1. \A d \in 0 .. 15 : d # -1
      OBVIOUS
    <3>2. Len(three) >= 3
      BY <2>7
    <3>. QED
      BY <2>1, <2>3, <2>7, <3>1, <3>2, Zenon DEF StartsWithEscape
  <2>. QED
    BY <2>1, <2>7, <2>8, <2>9, <2>10, UnescapedEscape, SMTT(30)
<1>. QED
  BY <1>1, <1>2

\* Unescaping undoes escaping, for every string without bytes above 127
\* (url.c:51-132).
THEOREM EscapeComesBack ==
  ASSUME NEW all \in Seq(1 .. 127), NEW junk \in {47, 65}
  PROVE  unescaped[redhttp_url_escape(all, junk)] = all
<1> DEFINE Bad == {str \in Seq(1 .. 127) : unescaped[redhttp_url_escape(str, junk)] # str}
<1> SUFFICES ASSUME Bad # {} PROVE FALSE
  OBVIOUS
<1>1. PICK str \in Bad : \A other \in Seq(1 .. 127) : Len(other) < Len(str) => other \notin Bad
  <2> HIDE DEF Bad
  <2>1. Bad \in SUBSET Seq(1 .. 127)
    BY DEF Bad
  <2>. QED
    BY <2>1, Shortest
<1>2. \A other \in Seq(1 .. 127) : other \in Seq(Byte)
  BY DEF Byte
<1>3. str \in Seq(1 .. 127) /\ str # <<>>
  BY Escapes, Unescaped
<1>4. /\ str[1] \in 1 .. 127
      /\ Tail(str) \in Seq(1 .. 127)
      /\ Len(Tail(str)) < Len(str)
      /\ str = <<str[1]>> \o Tail(str)
  BY <1>3, FirstAndRest
<1>5. unescaped[redhttp_url_escape(Tail(str), junk)] = Tail(str)
  BY <1>1, <1>4
<1>6. redhttp_url_escape(str, junk) = Escape(str[1], junk) \o redhttp_url_escape(Tail(str), junk)
  BY <1>2, <1>3, Escapes, ZenonT(40)
<1>7. redhttp_url_escape(Tail(str), junk) \in Seq(Byte)
  BY <1>2, <1>4, Escapes
<1>8. unescaped[Escape(str[1], junk) \o redhttp_url_escape(Tail(str), junk)] =
        <<str[1]>> \o unescaped[redhttp_url_escape(Tail(str), junk)]
  BY <1>4, <1>7, ByteComesBack
<1>9. unescaped[redhttp_url_escape(str, junk)] = str
  BY <1>4, <1>5, <1>6, <1>8, Zenon
<1>. QED
  BY <1>9

\* What needs no unescaping.
Plain == Byte \ {37, 43}

LEMMA PlainStays ==
  ASSUME NEW all \in Seq(Plain)
  PROVE  unescaped[all] = all
<1> DEFINE Bad == {str \in Seq(Plain) : unescaped[str] # str}
<1> SUFFICES ASSUME Bad # {} PROVE FALSE
  OBVIOUS
<1>1. PICK str \in Bad : \A other \in Seq(Plain) : Len(other) < Len(str) => other \notin Bad
  <2> HIDE DEF Bad
  <2>1. Bad \in SUBSET Seq(Plain)
    BY DEF Bad
  <2>. QED
    BY <2>1, Shortest
<1>2. \A other \in Seq(Plain) : other \in Seq(Byte)
  BY DEF Byte, Plain
<1>3. str \in Seq(Plain) /\ str # <<>>
  BY Unescaped
<1>4. /\ str[1] \in Plain
      /\ Tail(str) \in Seq(Plain)
      /\ Len(Tail(str)) < Len(str)
      /\ str = <<str[1]>> \o Tail(str)
  BY <1>3, FirstAndRest
<1>5. unescaped[Tail(str)] = Tail(str)
  BY <1>1, <1>4
<1>6. str[1] \in Byte \ {37, 43}
  BY <1>4 DEF Plain
<1>7. unescaped[<<str[1]>> \o Tail(str)] = <<str[1]>> \o unescaped[Tail(str)]
  BY <1>2, <1>4, <1>6, UnescapedPlain
<1>8. unescaped[str] = str
  BY <1>4, <1>5, <1>7, Zenon
<1>. QED
  BY <1>8

\* n is the first place of str that holds one of set, or else that behind it.
IsFirst(n, set, str) ==
  /\ n \in 1 .. Len(str) + 1
  /\ n <= Len(str) => str[n] \in set
  /\ \A k \in 1 .. Len(str) : k < n => str[k] \notin set

LEMMA FirstIs ==
  \A str \in Seq(Byte) : \A set, n : IsFirst(n, set, str) => Equal(First(set, str), n)
<1> SUFFICES ASSUME NEW str \in Seq(Byte), NEW set, NEW n, IsFirst(n, set, str)
             PROVE  First(set, str) = n
  BY DEF Equal
<1> DEFINE m == First(set, str)
<1>1. Len(str) \in Nat /\ DOMAIN str = 1 .. Len(str)
  BY LenProperties
<1>2. /\ m \in 1 .. Len(str) + 1
      /\ m <= Len(str) => str[m] \in set
      /\ \A k \in DOMAIN str : str[k] \in set => m <= k
  BY FirstTyped
<1> HIDE DEF m
<1>3. n \in 1 .. Len(str) + 1 /\ ~ m < n
  BY <1>1, <1>2 DEF IsFirst
<1>4. ~ n < m
  BY <1>1, <1>2 DEF IsFirst
<1>5. m = n
  BY <1>1, <1>2, <1>3, <1>4
<1>. QED
  BY <1>5 DEF m

\* An argument that ends with the string is all that the string holds.
LEMMA ParsedOne ==
  ASSUME NEW key \in Seq(Lower), NEW str, OneArgument(str)
  PROVE  parsed[(key \o <<61>>) \o str] = <<[key |-> key, value |-> Kept(unescaped[str])]>>
<1> DEFINE eq == <<61>>
           front == key \o eq
           all == front \o str
           n == Len(key)
<1>1. key \in Seq(Byte) /\ str \in Seq(Byte) /\ eq \in Seq(Byte) /\ Len(eq) = 1 /\ eq[1] = 61
  BY DEF OneArgument, Byte, Lower
<1> HIDE DEF eq
<1>2. /\ n \in Nat
      /\ front \in Seq(Byte)
      /\ Len(front) = n + 1
      /\ \A k \in 1 .. n : front[k] = key[k]
      /\ front[n + 1] = 61
  <2>1. /\ front \in Seq(Byte)
        /\ Len(front) = Len(key) + Len(eq)
        /\ \A k \in 1 .. Len(key) + Len(eq) :
             front[k] = IF k <= Len(key) THEN key[k] ELSE eq[k - Len(key)]
    BY <1>1, ConcatProperties
  <2>2. n \in Nat
    BY LenProperties
  <2> HIDE DEF front, n
  <2>3. Len(front) = n + 1 /\ \A k \in 1 .. n + 1 : front[k] = IF k <= n THEN key[k] ELSE eq[k - n]
    BY <1>1, <2>1, <2>2 DEF n
  <2>4. n + 1 \in 1 .. n + 1 /\ ~ n + 1 <= n /\ (n + 1) - n = 1
    BY <2>2
  <2>5. front[n + 1] = eq[1]
    BY <2>3, <2>4
  <2>6. \A k \in 1 .. n : front[k] = key[k]
    BY <2>2, <2>3
  <2>. QED
    BY <1>1, <2>1, <2>2, <2>3, <2>5, <2>6
<1>3. all = key \o (eq \o str)
  BY <1>1, ConcatAssociative
<1>4. /\ SubSeq(all, 1, n) = key
      /\ SubSeq(all, Len(front) + 1, Len(all)) = str
  <2>1. eq \o str \in Seq(Byte)
    BY <1>1, ConcatProperties
  <2>2. SubSeq(key \o (eq \o str), 1, n) = key
    BY <1>1, <2>1, Parts
  <2>3. SubSeq(all, Len(front) + 1, Len(all)) = str
    BY <1>1, <1>2, Parts
  <2>. QED
    BY <1>3, <2>2, <2>3
<1>5. OneArgument(all)
  <2>1. \A k \in DOMAIN front : front[k] \notin {38, 59}
    <3> HIDE DEF front, n
    <3> TAKE k \in DOMAIN front
    <3>1. k \in 1 .. n + 1
      BY <1>2
    <3>2. CASE k = n + 1
      BY <1>2, <3>2
    <3>3. CASE k # n + 1
      <4>1. k \in 1 .. n
        BY <1>2, <3>1, <3>3
      <4>2. key[k] \in Lower
        BY <4>1, ElementOfSeq DEF n
      <4>3. \A ch \in Lower : ch \notin {38, 59}
        BY DEF Lower
      <4>. QED
        BY <1>2, <4>1, <4>2, <4>3, SMTT(30)
    <3>. QED
      BY <3>2, <3>3
  <2>2. OneArgument(front)
    BY <1>2, <2>1 DEF OneArgument
  <2> HIDE DEF front
  <2>. QED
    BY <2>2, OneOfBoth
<1>6. /\ all \in Seq(Byte)
      /\ Len(str) \in Nat
      /\ Len(all) = n + 1 + Len(str)
      /\ \A k \in 1 .. n + 1 : all[k] = front[k]
  <2> HIDE DEF front
  <2>1. /\ all \in Seq(Byte)
        /\ Len(all) = Len(front) + Len(str)
        /\ \A k \in 1 .. Len(front) + Len(str) :
             all[k] = IF k <= Len(front) THEN front[k] ELSE str[k - Len(front)]
    <3>1. all \in Seq(Byte) /\ Joined(all, front, str)
      BY <1>1, <1>2, Joins, Zenon
    <3>. QED
      BY <3>1, Zenon DEF Joined
  <2>2. Len(str) \in Nat
    BY <1>1, LenProperties
  <2> HIDE DEF all, n
  <2>. QED
    BY <1>2, <2>1, <2>2
<1> HIDE DEF front, all
<1>7. First({38, 59}, all) = Len(all) + 1
  <2>1. Len(all) + 1 \in 1 .. Len(all) + 1 /\ ~ Len(all) + 1 <= Len(all) /\ DOMAIN all = 1 .. Len(all)
    BY <1>2, <1>6, LenProperties
  <2>2. \A k \in 1 .. Len(all) : k < Len(all) + 1 => all[k] \notin {38, 59}
    BY <1>5, <2>1 DEF OneArgument
  <2>3. IsFirst(Len(all) + 1, {38, 59}, all)
    BY <2>1, <2>2 DEF IsFirst
  <2>. QED
    BY <1>6, <2>3, FirstIs, Zenon DEF Equal
<1>8. First({61}, all) = n + 1
  <2>1. n + 1 \in 1 .. Len(all) + 1 /\ all[n + 1] \in {61}
    BY <1>2, <1>6
  <2>2. \A k \in 1 .. Len(all) : k < n + 1 => all[k] \notin {61}
    <3> TAKE k \in 1 .. Len(all)
    <3> HAVE k < n + 1
    <3>1. k \in 1 .. n /\ k \in 1 .. n + 1
      BY <1>2
    <3>2. key[k] \in Lower
      BY <3>1, ElementOfSeq
    <3>3. \A ch \in Lower : ch \notin {61}
      BY DEF Lower
    <3>. QED
      BY <1>2, <1>6, <3>1, <3>2, <3>3, Zenon
  <2>3. IsFirst(n + 1, {61}, all)
    BY <2>1, <2>2 DEF IsFirst
  <2>. QED
    BY <1>6, <2>3, FirstIs, Zenon DEF Equal
<1>9. UpToAmp(all) = all /\ AfterAmp(all) = <<>>
  <2>1. (Len(all) + 1) - 1 = Len(all) /\ SubSeq(all, 1, Len(all)) = all
    BY <1>2, <1>6, SubSeqFull
  <2>2. SubSeq(all, (Len(all) + 1) + 1, Len(all)) = <<>>
    <3>1. (Len(all) + 1) + 1 \in Int /\ Len(all) \in Int /\ Len(all) < (Len(all) + 1) + 1
      BY <1>2, <1>6
    <3>. QED
      BY <3>1, SubSeqEmpty
  <2>. QED
    BY <1>7, <2>1, <2>2 DEF UpToAmp, AfterAmp
<1>10. Argument(all) = [key |-> key, value |-> Kept(unescaped[str])]
  <2>1. (n + 1) - 1 = n /\ Len(front) + 1 = (n + 1) + 1
    BY <1>2
  <2>2. unescaped[key] = key
    <3>1. Lower \subseteq Plain
      BY DEF Lower, Byte, Plain
    <3>2. key \in Seq(Plain)
      BY <3>1, SeqMonotonic
    <3>. QED
      BY <3>2, PlainStays
  <2>. QED
    BY <1>4, <1>8, <2>1, <2>2 DEF Argument, redhttp_url_unescape
<1>11. all # <<>>
  BY <1>2, <1>6, EmptySeq
<1>12. parsed[all] = <<Argument(all)>> \o <<>>
  BY <1>6, <1>9, <1>11, Parsed
<1>13. <<Argument(all)>> \in Seq(ArgumentRecord)
  <2>1. Argument(all) \in ArgumentRecord
    BY <1>6, ArgumentTyped
  <2>. QED
    BY <2>1
<1>14. parsed[all] = <<Argument(all)>>
  BY <1>12, <1>13, ConcatEmptySeq
<1>. QED
  BY <1>10, <1>14 DEF all, front, eq

LEMMA LowerIsLower ==
  ASSUME NEW key \in Seq(Lower), NEW other \in Seq(Lower)
  PROVE  SameKey(key, other) <=> key = other
<1>1. \A str \in Seq(Lower) :
        [k \in DOMAIN str |-> IF str[k] \in Upper THEN str[k] + 32 ELSE str[k]] = str
  <2> TAKE str \in Seq(Lower)
  <2>1. \A k \in DOMAIN str : str[k] \notin Upper
    <3>1. \A ch \in Lower : ch \notin Upper
      BY DEF Lower, Upper
    <3>2. \A k \in DOMAIN str : str[k] \in Lower
      OBVIOUS
    <3>. QED
      BY <3>1, <3>2, Zenon
  <2>2. str = [k \in DOMAIN str |-> str[k]]
    OBVIOUS
  <2>. QED
    BY <2>1, <2>2
<1>. QED
  BY <1>1 DEF SameKey
=============================================================================
