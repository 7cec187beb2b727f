-------------------------- MODULE NegotiateProofs --------------------------
(***************************************************************************)
(* The linked list of redhttp/negotiate.c and its sort implement the list  *)
(* of Negotiation, for any headers and menus.                              *)
(*                                                                         *)
(* At every moment the nodes are arranged in some order l, which the       *)
(* pointers follow.  A sort begins with one node, the new one, out of      *)
(* order at the end; each pass moves it one place up, and places z and     *)
(* behind it are never looked at again.  The new node is left out of the   *)
(* abstract list until the sort ends, so that the passes are stuttering    *)
(* steps and the end of the sort inserts it.                               *)
(***************************************************************************)
EXTENDS Negotiate, SequenceTheorems, WellFoundedInduction, TLAPS

N == INSTANCE NegotiationProofs WITH pc <- phase

-----------------------------------------------------------------------------
(* The invariant                                                           *)

Size == Len(nodes)
Places == 1 .. Size

\* The node at place k of l; there is none behind the last.
NodeAt(l, k) == IF k = Size + 1 THEN 0 ELSE l[k]

\* Every node is at one place of l.
Arrangement(l) ==
  /\ l \in [Places -> Places]
  /\ \A j, k \in Places : l[j] = l[k] => j = k
  /\ \A n \in Places : \E k \in Places : l[k] = n

\* The pointers follow l.
Linked(l) ==
  /\ first = NodeAt(l, 1)
  /\ \A k \in Places : next[l[k]] = NodeAt(l, k + 1)

Before(l, j, k) == nodes[l[j]].q >= nodes[l[k]].q

Ordered(l, S) == \A j, k \in S : j < k => Before(l, j, k)

\* The new node is at place p of l, behind it are only nodes of less quality,
\* and the passes are over at place z: the new node is just before it, or in
\* its place.
Rising(l, p, z) ==
  /\ l[p] = Size
  /\ e = NodeAt(l, z)
  /\ Ordered(l, Places \ {p})
  /\ \A k \in Places : p < k => ~ Before(l, k, p)
  /\ IF p < z THEN p = z - 1 ELSE \A k \in Places : k < p => Before(l, k, p)

\* A pass has come to place x.
Passing(l, z, x) ==
  /\ a = l[x] /\ b = NodeAt(l, x + 1)
  /\ c = IF x = 1 THEN first ELSE l[x - 1]
  /\ x = z \/ x + 1 < z

\* The sort is about the element that was read last.
AddsHead ==
  Sorting =>
    /\ rest # <<>> /\ Head(rest).type # NULL
    /\ Size > 0
    /\ nodes[Size] = [type |-> Head(rest).type, q |-> Quality(Head(rest))]

Sorted(l) ==
  Sorting =>
    \E p \in Places, z \in 2 .. Size + 1 :
      /\ Rising(l, p, z)
      /\ pc = "pass" => \E x \in Places : Passing(l, z, x)

AtRest(l) ==
  ~ Sorting =>
    /\ Ordered(l, Places)
    /\ a = 0 /\ b = 0 /\ c = 0 /\ e = 0

Looking(l) ==
  pc = "choose" =>
    /\ \E x \in 1 .. Size + 1 : it = NodeAt(l, x)
    /\ s > Len(menu) => it = first

Idle == pc = "idle" => nodes = <<>>

Holds(l) == Arrangement(l) /\ Linked(l) /\ Sorted(l) /\ AtRest(l) /\ Looking(l)

Inv == NegotiateTypeOK /\ Idle /\ AddsHead /\ \E l : Holds(l)
-----------------------------------------------------------------------------
(* What Chain, list and i are, for an arrangement that the pointers follow *)

LEMMA LeastNumber ==
  ASSUME NEW S, S \subseteq Nat, S # {}
  PROVE  \E m \in S : \A k \in S : m <= k
<1>1. PICK m \in S : \A k \in S : ~ (<<k, m>> \in OpToRel(<, Nat))
  BY WFMin, NatLessThanWellFounded
<1>2. ASSUME NEW k \in S PROVE m <= k
  <2>1. m \in Nat /\ k \in Nat
    OBVIOUS
  <2>2. CASE k < m
    <3>1. <<k, m>> \in OpToRel(<, Nat)
      BY <2>1, <2>2 DEF OpToRel
    <3>. QED
      BY <1>1, <3>1
  <2>. QED
    BY <2>1, <2>2
<1>. QED
  BY <1>2

\* Following the pointers from first gives the arrangement.
LEMMA ChainFound == \A l : Size \in Nat /\ Arrangement(l) /\ Linked(l) => Chain = l
<1>. SUFFICES ASSUME NEW l, Size \in Nat, Arrangement(l), Linked(l) PROVE Chain = l
  OBVIOUS
<1>. DEFINE step(g) == [k \in 1 .. Len(nodes) |-> IF k = 1 THEN first ELSE next[g[k - 1]]]
<1>1. l = step(l)
  <2>1. l = [k \in Places |-> l[k]]
    BY DEF Arrangement
  <2>2. ASSUME NEW k \in Places PROVE l[k] = IF k = 1 THEN first ELSE next[l[k - 1]]
    <3>1. CASE k = 1
      BY <3>1 DEF Linked, NodeAt, Places
    <3>2. CASE k # 1
      <4>1. k - 1 \in Places /\ (k - 1) + 1 = k /\ k # Size + 1
        BY <3>2 DEF Places
      <4>. QED
        BY <3>2, <4>1 DEF Linked, NodeAt
    <3>. QED
      BY <3>1, <3>2
  <2>. QED
    BY <2>1, <2>2 DEF Places, Size
<1>2. ASSUME NEW g, g = step(g) PROVE g = l
  <2>. DEFINE D == {k \in Places : g[k] # l[k]}
  <2>1. ASSUME D # {} PROVE FALSE
    <3>0. D \subseteq Nat /\ \A k \in Places : k \notin D => g[k] = l[k]
      BY DEF Places
    <3>1. PICK m \in D : \A k \in D : m <= k
      <4>. HIDE DEF D
      <4>. QED
        BY <2>1, <3>0, LeastNumber
    <3>2. m \in Places /\ g[m] # l[m]
      OBVIOUS
    <3>3. /\ g[m] = IF m = 1 THEN first ELSE next[g[m - 1]]
          /\ l[m] = IF m = 1 THEN first ELSE next[l[m - 1]]
      BY <1>1, <1>2, <3>2 DEF Places, Size
    <3>4. CASE m = 1
      BY <3>2, <3>3, <3>4
    <3>5. CASE m # 1
      <4>1. m - 1 \in Places /\ ~ (m <= m - 1)
        BY <3>2, <3>5 DEF Places
      <4>2. g[m - 1] = l[m - 1]
        BY <3>0, <3>1, <4>1
      <4>. QED
        BY <3>2, <3>3, <3>5, <4>2
    <3>. QED
      BY <3>4, <3>5
  <2>2. g = [k \in Places |-> g[k]] /\ l = [k \in Places |-> l[k]]
    BY <1>2 DEF Places, Size, Arrangement
  <2>. QED
    BY <2>1, <2>2
<1>3. Chain = CHOOSE g : g = step(g)
  BY DEF Chain
<1>. HIDE DEF step
<1>. QED
  BY <1>1, <1>2, <1>3

LEMMA Removed ==
  ASSUME NEW S, NEW l \in Seq(S), NEW p \in 1 .. Len(l)
  PROVE  RemoveAt(l, p) = [k \in 1 .. Len(l) - 1 |-> IF k < p THEN l[k] ELSE l[k + 1]]
<1>. DEFINE front == SubSeq(l, 1, p - 1)
            back == SubSeq(l, p + 1, Len(l))
            both == front \o back
<1>0. Len(l) \in Nat /\ p \in Nat
  OBVIOUS
<1>1. /\ front \in Seq(S) /\ Len(front) = p - 1
      /\ \A k \in 1 .. p - 1 : front[k] = l[k]
  BY SubSeqProperties
<1>2. /\ back \in Seq(S) /\ Len(back) = Len(l) - p
      /\ \A k \in 1 .. Len(l) - p : back[k] = l[p + k]
  BY SubSeqProperties
<1>3. RemoveAt(l, p) = both
  BY DEF RemoveAt
<1>. HIDE DEF front, back
<1>4. /\ both \in Seq(S) /\ Len(both) = Len(front) + Len(back)
      /\ \A k \in 1 .. Len(front) + Len(back) :
           both[k] = IF k <= Len(front) THEN front[k] ELSE back[k - Len(front)]
  BY <1>1, <1>2, ConcatProperties
<1>. HIDE DEF both
<1>5. Len(front) + Len(back) = Len(l) - 1
  BY <1>0, <1>1, <1>2
<1>7. both = [k \in 1 .. Len(l) - 1 |-> both[k]]
  BY <1>4, <1>5
<1>6. ASSUME NEW k \in 1 .. Len(l) - 1
      PROVE  both[k] = IF k < p THEN l[k] ELSE l[k + 1]
  <2>0. both[k] = IF k <= p - 1 THEN front[k] ELSE back[k - (p - 1)]
    BY <1>1, <1>4, <1>5
  <2>1. CASE k < p
    <3>1. k \in 1 .. p - 1 /\ k <= p - 1
      BY <2>1
    <3>. QED
      BY <1>1, <2>0, <2>1, <3>1
  <2>2. CASE k >= p
    <3>1. k - (p - 1) \in 1 .. Len(l) - p /\ p + (k - (p - 1)) = k + 1 /\ ~ (k <= p - 1)
      BY <2>2
    <3>2. both[k] = back[k - (p - 1)]
      BY <2>0, <3>1
    <3>. QED
      BY <1>2, <2>2, <3>1, <3>2
  <2>. QED
    BY <1>0, <2>1, <2>2
<1>. QED
  BY <1>3, <1>6, <1>7

LEMMA PlaceFound ==
  ASSUME Size \in Nat, NEW l, Arrangement(l), Linked(l), NEW k \in Places
  PROVE  PlaceOf(l[k]) = k
<1>1. Chain = l /\ DOMAIN Chain = Places
  BY ChainFound DEF Arrangement
<1>2. ASSUME NEW j \in Places, l[j] = l[k] PROVE j = k
  BY <1>2 DEF Arrangement
<1>. QED
  BY <1>1, <1>2 DEF PlaceOf

\* The abstract list, where p is the place of the new node.
Listed(l, p) ==
  IF Sorting
  THEN [k \in 1 .. Size - 1 |-> nodes[IF k < p THEN l[k] ELSE l[k + 1]]]
  ELSE [k \in Places |-> nodes[l[k]]]

LEMMA ListFound ==
  \A l, p :
    /\ Size \in Nat /\ Arrangement(l) /\ Linked(l)
    /\ Sorting => p \in Places /\ l[p] = Size
    => list = Listed(l, p)
<1>. SUFFICES ASSUME NEW l, NEW p, Size \in Nat, Arrangement(l), Linked(l),
                     Sorting => p \in Places /\ l[p] = Size
              PROVE  list = Listed(l, p)
  OBVIOUS
<1>1. Chain = l /\ l \in [1 .. Size -> Places]
  BY ChainFound DEF Arrangement, Places
<1>2. CASE Sorting
  <2>1. p \in Places /\ PlaceOf(Len(nodes)) = p
    BY <1>2, PlaceFound DEF Size
  <2>2. l \in Seq(Places) /\ Len(l) = Size
    BY <1>1
  <2>3. RemoveAt(l, p) = [k \in 1 .. Size - 1 |-> IF k < p THEN l[k] ELSE l[k + 1]]
    <3>1. p \in 1 .. Len(l)
      BY <2>1, <2>2 DEF Places
    <3>. QED
      BY <2>2, <3>1, Removed
  <2>4. order = RemoveAt(l, p)
    BY <1>1, <1>2, <2>1 DEF order
  <2>. QED
    BY <1>2, <2>3, <2>4 DEF list, Listed
<1>3. CASE ~ Sorting
  BY <1>1, <1>3 DEF list, order, Listed, Places
<1>. QED
  BY <1>2, <1>3

LEMMA IndexFound ==
  \A l, x :
    /\ Size \in Nat /\ Arrangement(l) /\ Linked(l)
    /\ pc = "choose" /\ x \in 1 .. Size + 1 /\ it = NodeAt(l, x)
    => i = x
<1>. SUFFICES ASSUME NEW l, Size \in Nat, Arrangement(l), Linked(l),
                     pc = "choose", NEW x \in 1 .. Size + 1, it = NodeAt(l, x)
              PROVE  i = x
  OBVIOUS
<1>1. CASE x = Size + 1
  BY <1>1 DEF i, NodeAt, Size
<1>2. CASE x # Size + 1
  <2>1. x \in Places /\ it = l[x]
    BY <1>2 DEF Places, NodeAt
  <2>2. it # 0
    BY <2>1 DEF Arrangement, Places
  <2>. QED
    BY <2>1, <2>2, PlaceFound DEF i
<1>. QED
  BY <1>1, <1>2

\* The same after a step.
LEMMA FoundAfterStep ==
  /\ (\A l : Size \in Nat /\ Arrangement(l) /\ Linked(l) => Chain = l)'
  /\ (\A l, p :
        /\ Size \in Nat /\ Arrangement(l) /\ Linked(l)
        /\ Sorting => p \in Places /\ l[p] = Size
        => list = Listed(l, p))'
  /\ (\A l, x :
        /\ Size \in Nat /\ Arrangement(l) /\ Linked(l)
        /\ pc = "choose" /\ x \in 1 .. Size + 1 /\ it = NodeAt(l, x)
        => i = x)'
  BY ChainFound, ListFound, IndexFound, PTL
-----------------------------------------------------------------------------
(* The steps                                                               *)

LEMMA Sizes ==
  ASSUME NegotiateTypeOK
  PROVE  /\ Size \in Nat
         /\ nodes \in [Places -> Elements] /\ next \in [Places -> 0 .. Size]
         /\ {first, a, b, c, e, it} \subseteq 0 .. Size
  BY DEF NegotiateTypeOK, Size, Places

LEMMA SameTypes == N!Offers = Offers /\ N!Written = Written
  BY DEF N!Offers, Offers, N!Written, Written

LEMMA QualityInTenths ==
  ASSUME NEW w \in Written
  PROVE  Quality(w) \in 0 .. 10
  BY N!QualityType, NegotiationAssumption, SameTypes DEF N!Quality, Quality

\* A step of the abstract list that changes nothing.
Stutter == UNCHANGED <<phase, rest, list, menu, loop, s, i, best_score, best>>

LEMMA AddArranges ==
  ASSUME Inv, redhttp_negotiate_add, NEW l, Holds(l)
  PROVE  /\ Size' = Size + 1
         /\ nodes' \in Seq(Elements)
         /\ nodes'[Size + 1] = [type |-> Head(rest).type, q |-> Quality(Head(rest))]
         /\ \A k \in Places : nodes'[k] = nodes[k]
         /\ next' \in [1 .. Size + 1 -> 0 .. Size + 1]
         /\ next'[Size + 1] = 0
         /\ \A k \in Places : next'[k] = IF k = l[Size] THEN Size + 1 ELSE next[k]
         /\ first' = IF Size = 0 THEN Size + 1 ELSE first
<1>0. /\ NegotiateTypeOK /\ Arrangement(l) /\ Linked(l)
  BY DEF Inv, Holds
<1>1. /\ Size \in Nat /\ next \in [Places -> 0 .. Size]
      /\ nodes \in Seq(Elements) /\ rest \in Seq(Written)
  BY <1>0, Sizes DEF NegotiateTypeOK
<1>2. next \in Seq(0 .. Size) /\ Len(next) = Size
  BY <1>1 DEF Places
<1>. DEFINE y == [type |-> Head(rest).type, q |-> Quality(Head(rest))]
            more == Append(next, 0)
<1>3. y \in Elements
  <2>1. Head(rest) \in Written /\ Head(rest).type # NULL
    BY <1>1 DEF redhttp_negotiate_add
  <2>. QED
    BY <2>1, QualityInTenths DEF Elements, Written
<1>4. nodes' = Append(nodes, y)
  BY DEF redhttp_negotiate_add
<1>. HIDE DEF y
<1>5. /\ Size' = Size + 1 /\ nodes' \in Seq(Elements) /\ nodes'[Size + 1] = y
      /\ \A k \in Places : nodes'[k] = nodes[k]
  BY <1>1, <1>3, <1>4 DEF Size, Places
<1>6. /\ more \in [1 .. Size + 1 -> 0 .. Size + 1] /\ more[Size + 1] = 0
      /\ \A k \in Places : more[k] = next[k]
  <2>1. /\ more \in Seq(0 .. Size + 1) /\ Len(more) = Size + 1 /\ more[Size + 1] = 0
        /\ \A k \in 1 .. Size : more[k] = next[k]
    <3>1. next \in Seq(0 .. Size + 1) /\ 0 \in 0 .. Size + 1
      BY <1>1, <1>2 DEF Places
    <3>. QED
      BY <1>1, <1>2, <3>1
  <2>. HIDE DEF more
  <2>. QED
    BY <1>1, <2>1, LenProperties DEF Places
<1>7. Chain = l /\ l \in [Places -> Places]
  BY <1>0, <1>1, ChainFound DEF Arrangement
<1>8. first = IF Size = 0 THEN 0 ELSE l[1]
  BY <1>0, <1>1 DEF Linked, NodeAt
<1>9. CASE first = 0
  <2>1. Size = 0
    BY <1>1, <1>7, <1>8, <1>9 DEF Places
  <2>2. next' = more /\ first' = Size + 1
    BY <1>5, <1>9 DEF redhttp_negotiate_add, Size
  <2>. QED
    BY <1>5, <1>6, <2>1, <2>2 DEF Places, y
<1>10. CASE first # 0
  <2>1. Size \in Places /\ Last(Chain) = l[Size] /\ l[Size] \in Places
    <3>1. Size \in Places
      BY <1>1, <1>8, <1>10 DEF Places
    <3>2. l \in [1 .. Size -> Places]
      BY <1>7 DEF Places
    <3>3. Len(l) = Size
      BY <1>1, <3>2
    <3>. QED
      BY <1>7, <3>1, <3>3 DEF Last
  <2>2. next' = [more EXCEPT ![l[Size]] = Size + 1] /\ first' = first
    BY <1>5, <1>10, <2>1 DEF redhttp_negotiate_add, Size
  <2>3. l[Size] \in 1 .. Size + 1 /\ l[Size] # Size + 1 /\ Size # 0
    BY <1>1, <2>1 DEF Places
  <2>4. /\ next' \in [1 .. Size + 1 -> 0 .. Size + 1] /\ next'[Size + 1] = 0
        /\ \A k \in Places : next'[k] = IF k = l[Size] THEN Size + 1 ELSE next[k]
    <3>. HIDE DEF more
    <3>. QED
      BY <1>1, <1>6, <2>2, <2>3 DEF Places
  <2>. QED
    BY <1>5, <2>2, <2>3, <2>4 DEF y
<1>. QED
  BY <1>9, <1>10

LEMMA AddStep ==
  ASSUME Inv, redhttp_negotiate_add
  PROVE  Inv' /\ Stutter
<1>1. PICK l : Holds(l)
  BY DEF Inv
<1>m. PICK m : m = [k \in 1 .. Size + 1 |-> IF k = Size + 1 THEN Size + 1 ELSE l[k]]
  OBVIOUS
<1>. DEFINE y == [type |-> Head(rest).type, q |-> Quality(Head(rest))]
<1>2. /\ NegotiateTypeOK /\ Arrangement(l) /\ Linked(l) /\ Size \in Nat
      /\ pc = "parse" /\ pc' = "sort" /\ ~ Sorting /\ Sorting'
      /\ UNCHANGED <<rest, a, b, c, e, menu, loop, s, it, best_score, best>>
  BY <1>1, Sizes DEF Inv, Holds, redhttp_negotiate_add, Sorting, sort_vars, choice
<1>3. /\ Size' = Size + 1
      /\ nodes' \in Seq(Elements)
      /\ nodes'[Size + 1] = y
      /\ \A k \in Places : nodes'[k] = nodes[k]
      /\ next' \in [1 .. Size + 1 -> 0 .. Size + 1]
      /\ next'[Size + 1] = 0
      /\ \A k \in Places : next'[k] = IF k = l[Size] THEN Size + 1 ELSE next[k]
      /\ first' = IF Size = 0 THEN Size + 1 ELSE first
  BY <1>1, AddArranges
<1>. HIDE DEF y
<1>4. /\ Places' = 1 .. Size + 1 /\ m[Size + 1] = Size + 1
      /\ \A k \in Places : m[k] = l[k] /\ k \in Places' /\ k # Size + 1 /\ l[k] \in Places
  <2>1. Places' = 1 .. Size + 1 /\ Size + 1 \in 1 .. Size + 1
    BY <1>2, <1>3 DEF Places
  <2>2. ASSUME NEW k \in Places PROVE k \in 1 .. Size + 1 /\ k # Size + 1 /\ l[k] \in Places
    BY <1>2 DEF Places, Arrangement
  <2>. QED
    BY <1>m, <2>1, <2>2
<1>5. ASSUME NEW k \in Places' PROVE k \in Places \/ k = Size + 1
  <2>1. k \in 1 .. Size + 1
    BY <1>4
  <2>. QED
    BY <1>2, <2>1 DEF Places
<1>n. PICK p : p = Size + 1
  OBVIOUS
<1>6. /\ Ordered(l, Places) /\ e = 0
  BY <1>1, <1>2 DEF Holds, AtRest
<1>7. Arrangement(m)'
  <2>1. m \in [Places' -> Places']
    BY <1>2, <1>3, <1>4, <1>5, <1>m
  <2>2. ASSUME NEW j \in Places', NEW k \in Places', m[j] = m[k] PROVE j = k
    BY <1>2, <1>4, <1>5, <2>2 DEF Arrangement, Places
  <2>3. ASSUME NEW n \in Places' PROVE \E k \in Places' : m[k] = n
    <3>1. CASE n \in Places
      BY <1>2, <1>4, <3>1 DEF Arrangement
    <3>2. CASE n = Size + 1
      BY <1>4, <3>2
    <3>. QED
      BY <1>5, <3>1, <3>2
  <2>. QED
    BY <2>1, <2>2, <2>3 DEF Arrangement
<1>8. Linked(m)'
  <2>1. first' = NodeAt(m, 1)'
    BY <1>2, <1>3, <1>4 DEF Linked, NodeAt, Places
  <2>2. ASSUME NEW k \in Places' PROVE next'[m[k]] = NodeAt(m, k + 1)'
    <3>1. CASE k = Size + 1
      BY <1>3, <1>4, <3>1 DEF NodeAt
    <3>2. CASE k \in Places /\ k = Size
      <4>1. next'[m[k]] = Size + 1
        BY <1>3, <1>4, <3>2
      <4>2. NodeAt(m, k + 1)' = m[Size + 1]
        BY <1>2, <1>3, <3>2 DEF NodeAt
      <4>. QED
        BY <1>4, <4>1, <4>2
    <3>3. CASE k \in Places /\ k # Size
      <4>1. k + 1 \in Places /\ Size \in Places
        BY <1>2, <3>3 DEF Places
      <4>2. l[k] # l[Size]
        BY <1>2, <3>3, <4>1 DEF Arrangement
      <4>3. next'[m[k]] = l[k + 1]
        <5>1. next[l[k]] = l[k + 1]
          BY <1>2, <3>3, <4>1 DEF Linked, NodeAt, Places
        <5>. QED
          BY <1>3, <1>4, <3>3, <4>2, <5>1
      <4>4. NodeAt(m, k + 1)' = m[k + 1]
        BY <1>2, <1>3, <4>1 DEF NodeAt, Places
      <4>. QED
        BY <1>4, <4>1, <4>3, <4>4
    <3>. QED
      BY <1>5, <3>1, <3>2, <3>3
  <2>. QED
    BY <2>1, <2>2 DEF Linked
<1>9. Sorted(m)'
  <2>1. p \in Places' /\ p + 1 \in 2 .. Size' + 1
    BY <1>2, <1>3, <1>4, <1>n
  <2>2. e' = NodeAt(m, p + 1)'
    BY <1>2, <1>3, <1>6, <1>n DEF NodeAt
  <2>3. Ordered(m, Places \ {p})'
    <3>1. ASSUME NEW j \in Places' \ {p}, NEW k \in Places' \ {p}, j < k
          PROVE  nodes'[m[j]].q >= nodes'[m[k]].q
      <4>1. j \in Places /\ k \in Places /\ m[j] = l[j] /\ m[k] = l[k]
        BY <1>4, <1>5, <1>n
      <4>2. nodes[l[j]].q >= nodes[l[k]].q
        BY <1>6, <3>1, <4>1 DEF Ordered, Before
      <4>. QED
        BY <1>3, <1>4, <4>1, <4>2, ZenonT(40)
    <3>. QED
      BY <1>3, <3>1 DEF Ordered, Before
  <2>4. \A k \in Places' : ~ (p < k)
    BY <1>2, <1>4, <1>n
  <2>5. Rising(m, p, p + 1)'
    BY <1>2, <1>3, <1>4, <1>n, <2>2, <2>3, <2>4 DEF Rising
  <2>. QED
    BY <1>2, <2>1, <2>5 DEF Sorted
<1>10. Holds(m)'
  BY <1>2, <1>7, <1>8, <1>9 DEF Holds, AtRest, Looking
<1>11. Stutter
  <2>1. list = [k \in Places |-> nodes[l[k]]]
    BY <1>2, ListFound DEF Listed
  <2>2. list' = [k \in 1 .. Size' - 1 |-> nodes'[IF k < Size + 1 THEN m[k] ELSE m[k + 1]]]
    BY <1>2, <1>3, <1>4, <1>7, <1>8, FoundAfterStep DEF Listed
  <2>3. 1 .. Size' - 1 = Places
    BY <1>2, <1>3 DEF Places
  <2>4. ASSUME NEW k \in Places PROVE nodes'[IF k < Size + 1 THEN m[k] ELSE m[k + 1]] = nodes[l[k]]
    BY <1>2, <1>3, <1>4, <2>4 DEF Places
  <2>5. list' = list
    BY <2>1, <2>2, <2>3, <2>4
  <2>6. phase' = phase /\ i' = i
    BY <1>2 DEF phase, i, Sorting
  <2>. QED
    BY <1>2, <2>5, <2>6 DEF Stutter
<1>12. NegotiateTypeOK'
  BY <1>2, <1>3 DEF NegotiateTypeOK, Size
<1>13. AddsHead' /\ Idle'
  <2>1. rest # <<>> /\ Head(rest).type # NULL
    BY DEF redhttp_negotiate_add
  <2>2. Size' > 0 /\ nodes'[Size'] = y
    BY <1>2, <1>3
  <2>. QED
    BY <1>2, <2>1, <2>2 DEF AddsHead, Idle, y
<1>. QED
  BY <1>10, <1>11, <1>12, <1>13 DEF Inv

\* A step that leaves the nodes and the pointers alone.
LEMMA ListStays ==
  ASSUME UNCHANGED list_vars, NEW l
  PROVE  /\ Size' = Size /\ Places' = Places
         /\ Arrangement(l)' <=> Arrangement(l)
         /\ Linked(l)' <=> Linked(l)
         /\ \A k : NodeAt(l, k)' = NodeAt(l, k)
         /\ \A j, k : Before(l, j, k)' <=> Before(l, j, k)
         /\ \A S : Ordered(l, S)' <=> Ordered(l, S)
  BY DEF list_vars, Size, Places, Arrangement, Linked, NodeAt, Before, Ordered

LEMMA AbstractListStays ==
  ASSUME Inv, UNCHANGED list_vars, Sorting' <=> Sorting
  PROVE  list' = list
<1>1. PICK l : Holds(l)
  BY DEF Inv
<1>2. /\ Arrangement(l) /\ Linked(l) /\ Size \in Nat
      /\ Arrangement(l)' /\ Linked(l)' /\ Size' = Size /\ Places' = Places /\ nodes' = nodes
  BY <1>1, Sizes, ListStays DEF Inv, Holds, list_vars
<1>3. PICK p : Sorting => p \in Places /\ l[p] = Size
  BY <1>1 DEF Holds, Sorted, Rising
<1>4. list = Listed(l, p)
  BY <1>2, <1>3, ListFound
<1>5. list' = Listed(l, p)'
  BY <1>2, <1>3, FoundAfterStep
<1>6. Listed(l, p)' = Listed(l, p)
  BY <1>2 DEF Listed
<1>. QED
  BY <1>4, <1>5, <1>6

\* The passes of the sort are hidden.
LEMMA PassIsHidden ==
  ASSUME Inv, Sorting, Sorting', UNCHANGED <<rest, list_vars, menu, loop, s, it, best_score, best>>
  PROVE  Stutter /\ AddsHead' /\ Idle'
<1>1. list' = list
  BY AbstractListStays DEF list_vars
<1>2. phase' = phase /\ i' = i
  BY DEF phase, i, Sorting
<1>3. AddsHead' /\ Idle'
  BY DEF Inv, AddsHead, Idle, Sorting, list_vars, Size
<1>. QED
  BY <1>1, <1>2, <1>3 DEF Stutter

LEMMA PassStep ==
  ASSUME Inv, sort_pass
  PROVE  Inv' /\ Stutter
<1>0. /\ pc = "sort" /\ pc' = "pass" /\ Sorting /\ Sorting' /\ UNCHANGED list_vars
      /\ UNCHANGED <<rest, e, menu, loop, s, it, best_score, best>>
  BY DEF sort_pass, Sorting, choice, list_vars
<1>1. PICK l : Holds(l)
  BY DEF Inv
<1>2. PICK p \in Places, z \in 2 .. Size + 1 : Rising(l, p, z)
  BY <1>0, <1>1 DEF Holds, Sorted
<1>3. /\ NegotiateTypeOK /\ Arrangement(l) /\ Linked(l) /\ Size \in Nat /\ Size > 0
  BY <1>0, <1>1, Sizes DEF Inv, Holds, AddsHead
<1>4. 1 \in Places /\ first = l[1] /\ next[first] = NodeAt(l, 2)
  BY <1>3 DEF Linked, NodeAt, Places
<1>5. z # 2
  BY <1>2, <1>4 DEF Rising, sort_pass
<1>6. Passing(l, z, 1)'
  <2>1. a' = l[1] /\ b' = NodeAt(l, 1 + 1)' /\ c' = first' /\ 1 + 1 < z
    BY <1>0, <1>4, <1>5, ListStays DEF sort_pass, list_vars
  <2>. QED
    BY <2>1 DEF Passing
<1>7. Rising(l, p, z)'
  BY <1>0, <1>2, ListStays DEF Rising
<1>8. Holds(l)'
  BY <1>0, <1>1, <1>3, <1>4, <1>6, <1>7, ListStays DEF Holds, Sorted, AtRest, Looking
<1>9. NegotiateTypeOK'
  <2>1. /\ first \in 0 .. Size /\ next[first] \in 0 .. Size
    BY <1>3, <1>4, Sizes DEF Places, Arrangement
  <2>. QED
    BY <1>0, <1>3, <2>1 DEF NegotiateTypeOK, sort_pass, list_vars, Size
<1>. QED
  BY <1>0, <1>8, <1>9, PassIsHidden DEF Inv

LEMMA EndOfPassStep ==
  ASSUME Inv, pass_ends
  PROVE  Inv' /\ Stutter
<1>0. /\ pc' = "sort" /\ Sorting /\ Sorting' /\ UNCHANGED list_vars
      /\ UNCHANGED <<rest, a, b, c, e, menu, loop, s, it, best_score, best>>
  BY DEF pass_ends, Sorting, choice, list_vars, sort_vars
<1>1. PICK l : Holds(l)
  BY DEF Inv
<1>2. PICK p \in Places, z \in 2 .. Size + 1 : Rising(l, p, z)
  BY <1>0, <1>1 DEF Holds, Sorted
<1>3. Rising(l, p, z)'
  BY <1>0, <1>2, ListStays DEF Rising
<1>4. Holds(l)'
  BY <1>0, <1>1, <1>3, ListStays DEF Holds, Sorted, AtRest, Looking
<1>5. NegotiateTypeOK'
  BY <1>0 DEF Inv, NegotiateTypeOK, list_vars
<1>. QED
  BY <1>0, <1>4, <1>5, PassIsHidden DEF Inv

LEMMA NodesInRange ==
  ASSUME Size \in Nat, NEW l, Arrangement(l)
  PROVE  /\ \A k \in Places : l[k] \in 0 .. Size /\ l[k] # 0
         /\ \A k \in 1 .. Size + 1 : NodeAt(l, k) \in 0 .. Size
<1>1. ASSUME NEW n \in Places PROVE n \in 0 .. Size /\ n # 0
  BY DEF Places
<1>2. ASSUME NEW k \in Places PROVE l[k] \in Places
  BY DEF Arrangement
<1>3. ASSUME NEW k \in 1 .. Size + 1, k # Size + 1 PROVE k \in Places
  BY <1>3 DEF Places
<1>. QED
  BY <1>1, <1>2, <1>3 DEF NodeAt

LEMMA PlacesDiffer ==
  ASSUME Size \in Nat, NEW l, Arrangement(l), NEW j \in 1 .. Size + 1, NEW k \in 1 .. Size + 1,
         NodeAt(l, j) = NodeAt(l, k)
  PROVE  j = k
<1>1. \A n \in Places : l[n] # 0
  BY DEF Arrangement, Places
<1>2. \A n \in 1 .. Size + 1 : n \in Places \/ n = Size + 1
  BY DEF Places
<1>3. \A n \in Places : n # Size + 1
  BY DEF Places
<1>. QED
  BY <1>1, <1>2, <1>3 DEF NodeAt, Arrangement

LEMMA Comparable ==
  ASSUME NegotiateTypeOK, NEW l, Arrangement(l),
         NEW j \in Places, NEW k \in Places, NEW n \in Places
  PROVE  /\ ~ Before(l, j, k) => Before(l, k, j)
         /\ Before(l, j, k) /\ Before(l, k, n) => Before(l, j, n)
         /\ Before(l, j, j)
<1>1. /\ nodes[l[j]].q \in 0 .. 10 /\ nodes[l[k]].q \in 0 .. 10 /\ nodes[l[n]].q \in 0 .. 10
  BY Sizes DEF Arrangement, Elements
<1>. QED
  BY <1>1 DEF Before

\* Where the variables of a pass are that goes on.
LEMMA PassGoesOn ==
  ASSUME Inv, NEW l, Arrangement(l), Linked(l),
         NEW z \in 2 .. Size + 1, NEW x \in Places,
         e = NodeAt(l, z), Passing(l, z, x), a # e
  PROVE  /\ x + 1 < z /\ x + 1 \in Places /\ x + 2 \in 1 .. Size + 1
         /\ a = l[x] /\ b = l[x + 1]
         /\ next[a] = b /\ next[b] = NodeAt(l, x + 2)
         /\ NodeAt(l, x + 2) = e <=> x + 2 = z
<1>0. Size \in Nat
  BY Sizes DEF Inv
<1>1. x # z
  BY <1>0 DEF Passing, NodeAt, Places
<1>2. x + 1 < z /\ x + 1 \in Places /\ x + 2 \in 1 .. Size + 1 /\ (x + 1) + 1 = x + 2
  BY <1>0, <1>1 DEF Passing, Places
<1>3. a = l[x] /\ b = l[x + 1]
  BY <1>0, <1>2 DEF Passing, NodeAt, Places
<1>4. next[l[x]] = NodeAt(l, x + 1) /\ next[l[x + 1]] = NodeAt(l, x + 2)
  BY <1>2 DEF Linked
<1>5. NodeAt(l, x + 1) = l[x + 1]
  BY <1>0, <1>2 DEF NodeAt, Places
<1>6. z \in 1 .. Size + 1
  BY <1>0
<1>. QED
  BY <1>0, <1>2, <1>3, <1>4, <1>5, <1>6, PlacesDiffer

LEMMA AdvanceStep ==
  ASSUME Inv, sort_advance
  PROVE  Inv' /\ Stutter
<1>0. /\ pc = "pass" /\ pc' = "pass" /\ Sorting /\ Sorting' /\ UNCHANGED list_vars
      /\ UNCHANGED <<rest, menu, loop, s, it, best_score, best>>
      /\ a # e /\ nodes[a].q >= nodes[b].q
      /\ c' = a /\ a' = next[a] /\ b' = next[a'] /\ e' = IF b' = e THEN a' ELSE e
  BY DEF sort_advance, Sorting, choice, list_vars
<1>1. PICK l : Holds(l)
  BY DEF Inv
<1>2. PICK p \in Places, z \in 2 .. Size + 1 :
        Rising(l, p, z) /\ \E x \in Places : Passing(l, z, x)
  BY <1>0, <1>1 DEF Holds, Sorted
<1>3. PICK x \in Places : Passing(l, z, x)
  BY <1>2
<1>4. /\ NegotiateTypeOK /\ Arrangement(l) /\ Linked(l) /\ Size \in Nat
  BY <1>0, <1>1, Sizes DEF Inv, Holds
<1>5. /\ x + 1 < z /\ x + 1 \in Places /\ x + 2 \in 1 .. Size + 1
      /\ a = l[x] /\ b = l[x + 1]
      /\ next[a] = b /\ next[b] = NodeAt(l, x + 2)
      /\ NodeAt(l, x + 2) = e <=> x + 2 = z
  BY <1>0, <1>2, <1>3, <1>4, PassGoesOn DEF Rising
<1>6. Before(l, x, x + 1)
  BY <1>0, <1>5 DEF Before
<1>7. PICK y : y = IF x + 2 = z THEN x + 1 ELSE z
  OBVIOUS
<1>8. /\ y \in 2 .. Size + 1 /\ (x + 1 = y \/ (x + 1) + 1 < y)
  BY <1>4, <1>5, <1>7 DEF Places
<1>9. IF p < y THEN p = y - 1 ELSE \A k \in Places : k < p => Before(l, k, p)
  <2>1. CASE x + 2 # z
    BY <1>2, <1>7, <2>1 DEF Rising
  <2>2. CASE x + 2 = z /\ p >= z
    <3>1. ~ (p < z) /\ ~ (p < x + 1)
      BY <1>4, <2>2 DEF Places
    <3>. QED
      BY <1>2, <1>7, <2>2, <3>1 DEF Rising
  <2>3. CASE x + 2 = z /\ ~ (p >= z)
    <3>1. p = x + 1 /\ y = x + 1 /\ ~ (p < y)
      <4>1. p < z
        BY <1>4, <2>3 DEF Places
      <4>2. p = z - 1
        BY <1>2, <4>1 DEF Rising
      <4>. QED
        BY <1>4, <1>7, <2>3, <4>2 DEF Places
    <3>2. ASSUME NEW k \in Places, k < p PROVE Before(l, k, p)
      <4>1. CASE k = x
        BY <1>6, <3>1, <4>1
      <4>2. CASE k # x
        <5>1. k < x /\ k # p /\ x # p
          BY <1>4, <3>1, <3>2, <4>2 DEF Places
        <5>2. Before(l, k, x)
          BY <1>2, <5>1 DEF Rising, Ordered
        <5>. QED
          BY <1>4, <1>5, <1>6, <3>1, <5>2, Comparable
      <4>. QED
        BY <4>1, <4>2
    <3>. QED
      BY <3>1, <3>2
  <2>. QED
    BY <2>1, <2>2, <2>3
<1>10. /\ a' = l[x + 1] /\ b' = NodeAt(l, x + 2) /\ c' = l[x]
       /\ e' = NodeAt(l, y)
  <2>1. NodeAt(l, x + 1) = l[x + 1]
    BY <1>4, <1>5 DEF NodeAt, Places
  <2>. QED
    BY <1>0, <1>2, <1>5, <1>7, <2>1 DEF list_vars, Rising
<1>11. Rising(l, p, y)'
  BY <1>0, <1>2, <1>9, <1>10, ListStays DEF Rising
<1>12. Passing(l, y, x + 1)'
  <2>1. (x + 1) + 1 = x + 2 /\ x + 1 # 1 /\ (x + 1) - 1 = x
    BY <1>4 DEF Places
  <2>. QED
    BY <1>0, <1>8, <1>10, <2>1, ListStays DEF Passing
<1>13. Holds(l)'
  <2>1. Sorted(l)'
    BY <1>0, <1>5, <1>8, <1>11, <1>12, ListStays DEF Sorted
  <2>. QED
    BY <1>0, <1>4, <2>1, ListStays DEF Holds, AtRest, Looking
<1>14. NegotiateTypeOK'
  <2>1. {a', b', c', e'} \subseteq 0 .. Size
    BY <1>4, <1>5, <1>8, <1>10, NodesInRange
  <2>. QED
    BY <1>0, <1>4, <2>1 DEF NegotiateTypeOK, list_vars, Size
<1>. QED
  BY <1>0, <1>13, <1>14, PassIsHidden DEF Inv

\* The pointers after a swap: the nodes a and b have changed places.
LEMMA SwapArranges ==
  ASSUME NegotiateTypeOK, sort_swap, NEW l, Arrangement(l), Linked(l),
         NEW x \in Places, x + 1 \in Places,
         a = l[x], b = l[x + 1], c = IF x = 1 THEN first ELSE l[x - 1],
         next[b] = NodeAt(l, x + 2),
         NEW m, m = [k \in Places |-> IF k = x THEN l[x + 1] ELSE IF k = x + 1 THEN l[x] ELSE l[k]]
  PROVE  /\ Size' = Size /\ Places' = Places /\ nodes' = nodes
         /\ first' \in 0 .. Size /\ next' \in [Places -> 0 .. Size]
         /\ Arrangement(m)' /\ Linked(m)'
         /\ next'[a] = NodeAt(m, x + 2)'
<1>1. /\ Size \in Nat /\ next \in [Places -> 0 .. Size] /\ first \in 0 .. Size
      /\ Size' = Size /\ Places' = Places /\ nodes' = nodes
  BY Sizes DEF sort_swap, Size, Places
<1>2. /\ x \in 1 .. Size /\ x + 1 \in 1 .. Size /\ x # x + 1
      /\ \A k \in Places : k # x => k + 1 # x + 1
      /\ \A k \in Places : k + 1 # x + 1 => k # x
  BY <1>1 DEF Places
<1>3. /\ m[x] = b /\ m[x + 1] = a
      /\ \A k \in Places : k # x /\ k # x + 1 => m[k] = l[k]
  BY <1>2 DEF Places
<1>4. /\ l \in [Places -> Places]
      /\ \A j, k \in Places : l[j] = l[k] => j = k
      /\ \A n \in Places : \E k \in Places : l[k] = n
  BY DEF Arrangement
<1>5. a \in Places /\ b \in Places /\ a # b
  BY <1>2, <1>4
<1>6. Arrangement(m)'
  <2>1. m \in [Places -> Places]
    BY <1>4
  <2>2. ASSUME NEW j \in Places, NEW k \in Places, m[j] = m[k] PROVE j = k
    BY <1>2, <1>3, <1>4, <2>2
  <2>3. ASSUME NEW n \in Places PROVE \E k \in Places : m[k] = n
    <3>1. PICK k \in Places : l[k] = n
      BY <1>4
    <3>. QED
      BY <1>3, <3>1
  <2>. QED
    BY <1>1, <2>1, <2>2, <2>3 DEF Arrangement
<1>7. first = l[1] /\ (a = first <=> x = 1) /\ 1 \in Places
  <2>1. 1 \in Places /\ 1 # Size + 1
    BY <1>1, <1>2 DEF Places
  <2>. QED
    BY <1>4, <2>1 DEF Linked, NodeAt
<1>8. /\ first' = IF x = 1 THEN b ELSE first
      /\ next' \in [Places -> 0 .. Size]
      /\ next'[a] = next[b] /\ next'[b] = a
      /\ x # 1 => next'[l[x - 1]] = b
      /\ \A k \in Places : k # x /\ k # x + 1 /\ (x # 1 => k # x - 1) => next'[l[k]] = next[l[k]]
  <2>. DEFINE linked == [next EXCEPT ![a] = next[b], ![b] = a]
  <2>1. /\ linked \in [Places -> 0 .. Size] /\ linked[a] = next[b] /\ linked[b] = a
        /\ \A n \in Places : n # a /\ n # b => linked[n] = next[n]
    <3>1. a \in 0 .. Size /\ next[b] \in 0 .. Size
      BY <1>1, <1>5 DEF Places
    <3>. QED
      BY <1>1, <1>5, <3>1
  <2>2. \A k \in Places : k # x /\ k # x + 1 => l[k] # a /\ l[k] # b /\ l[k] \in Places
    BY <1>2, <1>4
  <2>3. CASE x = 1
    <3>1. first' = b /\ next' = linked
      BY <1>7, <2>3 DEF sort_swap
    <3>. HIDE DEF linked
    <3>. QED
      BY <2>1, <2>2, <2>3, <3>1
  <2>4. CASE x # 1
    <3>1. /\ first' = first /\ next' = [linked EXCEPT ![c] = b] /\ c = l[x - 1]
      BY <1>7, <2>4 DEF sort_swap
    <3>2. x - 1 \in Places /\ x - 1 # x /\ x - 1 # x + 1
      BY <1>1, <1>2, <2>4 DEF Places
    <3>3. c \in Places /\ c # a /\ c # b /\ b \in 0 .. Size
      <4>. HIDE DEF linked
      <4>1. c \in Places /\ c # a /\ c # b
        BY <2>2, <3>1, <3>2
      <4>2. b \in 0 .. Size
        BY <1>1, <1>5 DEF Places
      <4>. QED
        BY <4>1, <4>2
    <3>4. \A k \in Places : k # x - 1 => l[k] # c
      BY <1>4, <3>1, <3>2
    <3>. HIDE DEF linked
    <3>. QED
      BY <2>1, <2>2, <2>4, <3>1, <3>3, <3>4
  <2>. QED
    BY <2>3, <2>4
<1>9. first' \in 0 .. Size
  BY <1>1, <1>5, <1>8 DEF Places
<1>10. \A k : NodeAt(m, k)' = IF k = Size + 1 THEN 0 ELSE m[k]
  BY <1>1 DEF NodeAt
<1>11. next'[a] = NodeAt(m, x + 2)'
  <2>1. x + 2 = Size + 1 \/ (x + 2 \in Places /\ x + 2 # x /\ x + 2 # x + 1)
    BY <1>1, <1>2 DEF Places
  <2>. QED
    BY <1>3, <1>8, <1>10, <2>1 DEF NodeAt
<1>12. ASSUME NEW k \in Places PROVE next'[m[k]] = NodeAt(m, k + 1)'
  <2>1. CASE k = x
    <3>1. x + 1 # Size + 1
      BY <1>1, <1>2
    <3>. QED
      BY <1>3, <1>8, <1>10, <2>1, <3>1
  <2>2. CASE k = x + 1
    <3>1. k + 1 = x + 2
      BY <1>2, <2>2
    <3>. QED
      BY <1>3, <1>11, <2>2, <3>1
  <2>3. CASE x # 1 /\ k = x - 1
    <3>1. k + 1 = x /\ k # x /\ k # x + 1 /\ x # Size + 1
      BY <1>1, <1>2, <2>3
    <3>. QED
      BY <1>3, <1>8, <1>10, <2>3, <3>1
  <2>4. CASE k # x /\ k # x + 1 /\ (x # 1 => k # x - 1)
    <3>1. k + 1 # x /\ k + 1 # x + 1 /\ (k + 1 = Size + 1 \/ k + 1 \in Places)
      BY <1>1, <1>2, <2>4 DEF Places
    <3>2. next'[m[k]] = next[l[k]] /\ next[l[k]] = NodeAt(l, k + 1)
      BY <1>3, <1>8, <2>4 DEF Linked
    <3>. QED
      BY <1>3, <1>10, <3>1, <3>2 DEF NodeAt
  <2>. QED
    BY <2>1, <2>2, <2>3, <2>4
<1>13. first' = NodeAt(m, 1)'
  <2>1. 1 # Size + 1 /\ 1 # x + 1
    BY <1>1, <1>2
  <2>. QED
    BY <1>3, <1>7, <1>8, <1>10, <2>1
<1>14. Linked(m)'
  BY <1>1, <1>12, <1>13 DEF Linked
<1>. QED
  BY <1>1, <1>6, <1>8, <1>9, <1>11, <1>14

\* A swap moves the new node one place up, and it is the last of its pass.
LEMMA SwapStep ==
  ASSUME Inv, sort_swap
  PROVE  Inv' /\ Stutter
<1>0. /\ pc = "pass" /\ pc' = "pass" /\ Sorting /\ Sorting'
      /\ UNCHANGED <<rest, nodes, menu, loop, s, it, best_score, best>>
      /\ a # e /\ nodes[a].q < nodes[b].q
      /\ c' = b /\ a' = a /\ b' = next'[a] /\ e' = IF b' = e THEN a ELSE e
  BY DEF sort_swap, Sorting, choice
<1>1. PICK l : Holds(l)
  BY DEF Inv
<1>2. PICK p \in Places, z \in 2 .. Size + 1 :
        Rising(l, p, z) /\ \E x \in Places : Passing(l, z, x)
  BY <1>0, <1>1 DEF Holds, Sorted
<1>3. PICK x \in Places : Passing(l, z, x)
  BY <1>2
<1>4. /\ NegotiateTypeOK /\ Arrangement(l) /\ Linked(l) /\ Size \in Nat
  BY <1>0, <1>1, Sizes DEF Inv, Holds
<1>5. /\ x + 1 < z /\ x + 1 \in Places /\ x + 2 \in 1 .. Size + 1
      /\ a = l[x] /\ b = l[x + 1]
      /\ next[a] = b /\ next[b] = NodeAt(l, x + 2)
      /\ NodeAt(l, x + 2) = e <=> x + 2 = z
  BY <1>0, <1>2, <1>3, <1>4, PassGoesOn DEF Rising
<1>6. ~ Before(l, x, x + 1)
  <2>1. nodes[l[x]].q \in 0 .. 10 /\ nodes[l[x + 1]].q \in 0 .. 10
    BY <1>4, <1>5, Sizes DEF Arrangement, Elements
  <2>. QED
    BY <1>0, <1>5, <2>1 DEF Before
<1>7. p = x + 1 /\ z = x + 2
  <2>1. p = x \/ p = x + 1
    <3>. SUFFICES ASSUME p # x, p # x + 1 PROVE Before(l, x, x + 1)
      BY <1>6
    <3>1. x < x + 1
      BY <1>4 DEF Places
    <3>. QED
      BY <1>2, <1>5, <3>1 DEF Rising, Ordered
  <2>2. p < z
    BY <1>4, <1>5, <2>1 DEF Places
  <2>3. p = z - 1
    BY <1>2, <2>2 DEF Rising
  <2>. QED
    BY <1>4, <1>5, <2>1, <2>3 DEF Places
<1>8. PICK m : m = [k \in Places |-> IF k = x THEN l[x + 1] ELSE IF k = x + 1 THEN l[x] ELSE l[k]]
  OBVIOUS
<1>9. c = IF x = 1 THEN first ELSE l[x - 1]
  BY <1>3 DEF Passing
<1>10. /\ Size' = Size /\ Places' = Places
       /\ first' \in 0 .. Size /\ next' \in [Places -> 0 .. Size]
       /\ Arrangement(m)' /\ Linked(m)'
       /\ next'[a] = NodeAt(m, x + 2)'
  BY <1>4, <1>5, <1>8, <1>9, SwapArranges
<1>11. /\ m[x] = l[x + 1] /\ m[x + 1] = l[x]
       /\ \A k \in Places : k # x /\ k # x + 1 => m[k] = l[k]
       /\ x \in Nat /\ x # x + 1 /\ x < x + 1 /\ x + 1 <= Size
  BY <1>4, <1>5, <1>8 DEF Places
<1>12. NodeAt(m, x + 2)' = NodeAt(l, x + 2) /\ e = NodeAt(l, x + 2)
  <2>1. x + 2 = Size + 1 \/ (x + 2 \in Places /\ x + 2 # x /\ x + 2 # x + 1)
    BY <1>4, <1>11 DEF Places
  <2>. QED
    BY <1>5, <1>7, <1>10, <1>11, <2>1 DEF NodeAt
<1>13. a' = m[x + 1] /\ b' = NodeAt(m, x + 2)' /\ c' = m[x] /\ e' = m[x + 1]
  BY <1>0, <1>5, <1>10, <1>11, <1>12
<1>14. Rising(m, x, x + 1)'
  <2>1. m[x] = Size'
    BY <1>2, <1>7, <1>10, <1>11 DEF Rising
  <2>2. e' = NodeAt(m, x + 1)'
    BY <1>4, <1>10, <1>11, <1>13 DEF NodeAt
  <2>3. ASSUME NEW j \in Places \ {x}, NEW k \in Places \ {x}, j < k
        PROVE  nodes[m[j]].q >= nodes[m[k]].q
    <3>. DEFINE from(n) == IF n = x + 1 THEN x ELSE n
    <3>1. /\ from(j) \in Places \ {p} /\ from(k) \in Places \ {p}
          /\ m[j] = l[from(j)] /\ m[k] = l[from(k)]
      BY <1>7, <1>11
    <3>2. from(j) < from(k)
      BY <1>4, <1>11, <2>3 DEF Places
    <3>. HIDE DEF from
    <3>. QED
      BY <1>2, <3>1, <3>2 DEF Rising, Ordered, Before
  <2>4. ASSUME NEW k \in Places, x < k
        PROVE  ~ (nodes[m[k]].q >= nodes[m[x]].q)
    <3>1. CASE k = x + 1
      BY <1>6, <1>11, <3>1 DEF Before
    <3>2. CASE k # x + 1
      <4>1. p < k /\ k # x
        BY <1>4, <1>7, <1>11, <2>4, <3>2 DEF Places
      <4>. QED
        BY <1>2, <1>7, <1>11, <3>2, <4>1 DEF Rising, Before
    <3>. QED
      BY <3>1, <3>2
  <2>5. x < x + 1 /\ x = (x + 1) - 1
    BY <1>11
  <2>. QED
    BY <1>0, <1>10, <2>1, <2>2, <2>3, <2>4, <2>5 DEF Rising, Ordered, Before
<1>15. Passing(m, x + 1, x + 1)'
  <2>1. (x + 1) + 1 = x + 2 /\ x + 1 # 1 /\ (x + 1) - 1 = x
    BY <1>11, <1>4 DEF Places
  <2>. QED
    BY <1>13, <2>1 DEF Passing
<1>16. Holds(m)'
  <2>1. x + 1 \in 2 .. Size' + 1 /\ x \in Places' /\ x + 1 \in Places'
    BY <1>4, <1>5, <1>10 DEF Places
  <2>2. Sorted(m)'
    BY <1>14, <1>15, <2>1 DEF Sorted
  <2>. QED
    BY <1>0, <1>10, <2>2 DEF Holds, AtRest, Looking
<1>17. list' = list
  <2>1. list = Listed(l, p)
    BY <1>2, <1>4, ListFound DEF Rising
  <2>2. list' = Listed(m, x)'
    <3>1. x \in Places' /\ m[x] = Size' /\ Size' \in Nat
      BY <1>4, <1>10, <1>14 DEF Rising
    <3>. QED
      BY <1>10, <3>1, FoundAfterStep
  <2>3. ASSUME NEW k \in 1 .. Size - 1
        PROVE  (IF k < p THEN l[k] ELSE l[k + 1]) = IF k < x THEN m[k] ELSE m[k + 1]
    <3>1. k \in Places /\ k + 1 \in Places
      BY <1>4 DEF Places
    <3>2. CASE k < x
      <4>1. k < p /\ k # x /\ k # x + 1
        BY <1>7, <1>11, <3>2
      <4>. QED
        BY <1>11, <3>1, <3>2, <4>1
    <3>3. CASE k = x
      BY <1>7, <1>11, <3>3
    <3>4. CASE k > x
      <4>1. ~ (k < p) /\ ~ (k < x) /\ k + 1 # x /\ k + 1 # x + 1
        BY <1>7, <1>11, <3>4
      <4>. QED
        BY <1>11, <3>1, <4>1
    <3>. QED
      BY <1>11, <3>2, <3>3, <3>4
  <2>. QED
    BY <1>0, <1>10, <2>1, <2>2, <2>3 DEF Listed
<1>18. Stutter
  <2>1. phase' = phase /\ i' = i
    BY <1>0 DEF phase, i, Sorting
  <2>. QED
    BY <1>0, <1>17, <2>1 DEF Stutter
<1>19. NegotiateTypeOK'
  <2>1. {a', b', c', e'} \subseteq 0 .. Size
    <3>1. l[x] \in 0 .. Size /\ l[x + 1] \in 0 .. Size /\ NodeAt(l, x + 2) \in 0 .. Size
      BY <1>4, <1>5, NodesInRange
    <3>. QED
      BY <1>11, <1>12, <1>13, <3>1
  <2>. QED
    BY <1>0, <1>4, <1>10, <2>1 DEF NegotiateTypeOK, Size, Places
<1>20. AddsHead' /\ Idle'
  BY <1>0, <1>10 DEF Inv, AddsHead, Idle, Sorting
<1>. QED
  BY <1>16, <1>18, <1>19, <1>20 DEF Inv

LEMMA Inserting ==
  ASSUME NEW S, NEW l \in Seq(S), NEW p \in 1 .. Len(l) + 1, NEW x \in S
  PROVE  /\ InsertAt(l, p, x) \in Seq(S)
         /\ Len(InsertAt(l, p, x)) = Len(l) + 1
         /\ \A k \in 1 .. Len(l) + 1 :
              InsertAt(l, p, x)[k] = IF k < p THEN l[k] ELSE IF k = p THEN x ELSE l[k - 1]
<1>1. InsertAt(l, p, x) = N!InsertAt(l, p, x)
  BY DEF InsertAt, N!InsertAt
<1>2. /\ N!InsertAt(l, p, x) \in Seq(S)
      /\ Len(N!InsertAt(l, p, x)) = Len(l) + 1
      /\ \A k \in 1 .. Len(l) + 1 :
           N!InsertAt(l, p, x)[k] = IF k < p THEN l[k] ELSE IF k = p THEN x ELSE l[k - 1]
  BY N!Inserted, NegotiationAssumption, SameTypes
<1>. QED
  BY <1>1, <1>2

\* When the sort ends, the new element has been put in its place.
LEMMA SortEndStep ==
  ASSUME Inv, sort_ends
  PROVE  Inv' /\ Abstract!redhttp_negotiate_add
<1>0. /\ pc = "sort" /\ pc' = "parse" /\ Sorting /\ ~ Sorting' /\ UNCHANGED list_vars
      /\ UNCHANGED <<menu, loop, s, it, best_score, best>>
      /\ rest' = Tail(rest) /\ a' = 0 /\ b' = 0 /\ c' = 0 /\ e' = 0 /\ e = next[first]
  BY DEF sort_ends, Sorting, choice
<1>1. PICK l : Holds(l)
  BY DEF Inv
<1>2. PICK p \in Places, z \in 2 .. Size + 1 : Rising(l, p, z)
  BY <1>0, <1>1 DEF Holds, Sorted
<1>. DEFINE y == [type |-> Head(rest).type, q |-> Quality(Head(rest))]
<1>3. /\ NegotiateTypeOK /\ Arrangement(l) /\ Linked(l) /\ Size \in Nat /\ Size > 0
      /\ rest # <<>> /\ Head(rest).type # NULL /\ nodes[Size] = y
  BY <1>0, <1>1, Sizes DEF Inv, Holds, AddsHead
<1>. HIDE DEF y
<1>4. z = 2
  <2>1. 1 \in Places /\ 2 \in 1 .. Size + 1 /\ z \in 1 .. Size + 1 /\ 1 # Size + 1
    BY <1>3 DEF Places
  <2>2. NodeAt(l, 2) = NodeAt(l, z)
    <3>1. first = l[1] /\ next[l[1]] = NodeAt(l, 2)
      BY <1>3, <2>1 DEF Linked, NodeAt
    <3>. QED
      BY <1>0, <1>2, <3>1 DEF Rising
  <2>. QED
    BY <1>3, <2>1, <2>2, PlacesDiffer
<1>5. \A k \in Places : nodes[l[k]] \in Elements /\ nodes[l[k]].q \in 0 .. 10
  BY <1>3, Sizes DEF Arrangement, Elements
<1>6. nodes[l[p]] = y
  BY <1>2, <1>3 DEF Rising
<1>7. \A k \in Places : k < p => nodes[l[k]].q >= y.q
  <2>1. CASE p < z
    BY <1>2, <1>3, <1>4, <2>1 DEF Rising, Places
  <2>2. CASE ~ (p < z)
    BY <1>2, <1>6, <2>2 DEF Rising, Before
  <2>. QED
    BY <2>1, <2>2
<1>8. \A k \in Places : p < k => nodes[l[k]].q < y.q
  BY <1>2, <1>5, <1>6 DEF Rising, Before
<1>9. /\ list = [k \in 1 .. Size - 1 |-> nodes[IF k < p THEN l[k] ELSE l[k + 1]]]
      /\ list' = [k \in Places |-> nodes[l[k]]]
  <2>1. list = Listed(l, p)
    BY <1>2, <1>3, ListFound DEF Rising
  <2>2. list' = Listed(l, p)'
    BY <1>0, <1>3, ListStays, FoundAfterStep
  <2>. QED
    BY <1>0, <2>1, <2>2, ListStays DEF Listed, list_vars
<1>10. /\ list \in Seq(Elements) /\ Len(list) = Size - 1
       /\ \A k \in 1 .. Size - 1 : list[k] = IF k < p THEN nodes[l[k]] ELSE nodes[l[k + 1]]
  <2>1. \A k \in 1 .. Size - 1 : k \in Places /\ k + 1 \in Places
    BY <1>3 DEF Places
  <2>2. list \in [1 .. Size - 1 -> Elements]
    BY <1>5, <1>9, <2>1
  <2>. QED
    BY <1>3, <1>9, <2>2
<1>11. Ordered(l, Places)
  <2>1. ASSUME NEW j \in Places, NEW k \in Places, j < k PROVE nodes[l[j]].q >= nodes[l[k]].q
    <3>1. CASE j = p
      BY <1>5, <1>6, <1>8, <2>1, <3>1
    <3>2. CASE k = p
      BY <1>6, <1>7, <2>1, <3>2
    <3>3. CASE j # p /\ k # p
      BY <1>2, <2>1, <3>3 DEF Rising, Ordered, Before
    <3>. QED
      BY <3>1, <3>2, <3>3
  <2>. QED
    BY <2>1 DEF Ordered, Before
<1>12. Holds(l)'
  BY <1>0, <1>3, <1>11, ListStays DEF Holds, Sorted, AtRest, Looking
<1>13. NegotiateTypeOK'
  BY <1>0, <1>3 DEF NegotiateTypeOK, list_vars
<1>14. Inv'
  BY <1>0, <1>12, <1>13 DEF Inv, AddsHead, Idle
<1>15. list' = InsertAt(list, p, y)
  <2>1. p \in 1 .. Len(list) + 1 /\ y \in Elements
    BY <1>3, <1>5, <1>6, <1>10 DEF Places
  <2>2. /\ InsertAt(list, p, y) \in Seq(Elements)
        /\ Len(InsertAt(list, p, y)) = Size
        /\ \A k \in 1 .. Size :
             InsertAt(list, p, y)[k] = IF k < p THEN list[k] ELSE IF k = p THEN y ELSE list[k - 1]
    <3>1. Len(list) + 1 = Size
      BY <1>3, <1>10
    <3>2. list \in Seq(Elements)
      BY <1>10
    <3>3. /\ InsertAt(list, p, y) \in Seq(Elements)
          /\ Len(InsertAt(list, p, y)) = Len(list) + 1
          /\ \A k \in 1 .. Len(list) + 1 :
               InsertAt(list, p, y)[k] = IF k < p THEN list[k] ELSE IF k = p THEN y ELSE list[k - 1]
      BY <2>1, <3>2, Inserting
    <3>. QED
      BY <3>1, <3>3
  <2>3. ASSUME NEW k \in Places
        PROVE  (IF k < p THEN list[k] ELSE IF k = p THEN y ELSE list[k - 1]) = nodes[l[k]]
    <3>1. CASE k < p
      <4>1. k \in 1 .. Size - 1
        BY <1>3, <3>1 DEF Places
      <4>. QED
        BY <1>10, <3>1, <4>1
    <3>2. CASE k = p
      BY <1>3, <1>6, <3>2 DEF Places
    <3>3. CASE k > p
      <4>1. k - 1 \in 1 .. Size - 1 /\ ~ (k - 1 < p) /\ (k - 1) + 1 = k /\ ~ (k < p) /\ k # p
        BY <1>3, <3>3 DEF Places
      <4>. QED
        BY <1>10, <4>1
    <3>. QED
      BY <1>3, <3>1, <3>2, <3>3 DEF Places
  <2>4. InsertAt(list, p, y) = [k \in 1 .. Size |-> InsertAt(list, p, y)[k]]
    BY <2>2
  <2>. QED
    BY <1>9, <2>2, <2>3, <2>4 DEF Places
<1>16. \E n \in 0 .. Len(list) :
         /\ \A j \in 1 .. n : list[j].q >= y.q
         /\ \A j \in n + 1 .. Len(list) : list[j].q < y.q
         /\ list' = InsertAt(list, n + 1, y)
  <2>1. p - 1 \in 0 .. Len(list) /\ (p - 1) + 1 = p
    BY <1>3, <1>10 DEF Places
  <2>2. ASSUME NEW j \in 1 .. p - 1 PROVE list[j].q >= y.q
    <3>1. j \in 1 .. Size - 1 /\ j \in Places /\ j < p
      BY <1>3 DEF Places
    <3>. QED
      BY <1>7, <1>10, <3>1
  <2>3. ASSUME NEW j \in (p - 1) + 1 .. Len(list) PROVE list[j].q < y.q
    <3>1. j \in 1 .. Size - 1 /\ j + 1 \in Places /\ p < j + 1 /\ ~ (j < p)
      BY <1>3, <1>10 DEF Places
    <3>. QED
      BY <1>8, <1>10, <3>1
  <2>. QED
    BY <1>15, <2>1, <2>2, <2>3
<1>17. phase = "parse" /\ phase' = phase /\ i' = i
  BY <1>0 DEF phase, i, Sorting
<1>. QED
  BY <1>0, <1>3, <1>14, <1>16, <1>17
     DEF Abstract!redhttp_negotiate_add, Abstract!choice, y, Abstract!Quality, Quality,
         Abstract!InsertAt, InsertAt

\* Outside the sort the list only changes when it is freed.
LEMMA QuietStep ==
  ASSUME Inv, ~ Sorting, ~ Sorting', UNCHANGED <<list_vars, sort_vars>>,
         NEW l, Holds(l), Looking(l)'
  PROVE  Holds(l)' /\ list' = list /\ AddsHead'
<1>1. list' = list
  BY AbstractListStays
<1>2. Holds(l)'
  BY ListStays DEF Holds, Sorted, AtRest, sort_vars
<1>. QED
  BY <1>1, <1>2 DEF AddsHead

\* An element without a type ends the process in both.
LEMMA AssertionStep ==
  ASSUME Inv, assertion_fails
  PROVE  Inv' /\ Abstract!assertion_fails
<1>0. /\ pc = "parse" /\ pc' = "aborted" /\ ~ Sorting /\ ~ Sorting'
      /\ UNCHANGED <<rest, list_vars, sort_vars, menu, loop, s, it, best_score, best>>
  BY DEF assertion_fails, Sorting, choice
<1>1. PICK l : Holds(l)
  BY DEF Inv
<1>2. Holds(l)' /\ list' = list /\ AddsHead'
  BY <1>0, <1>1, QuietStep DEF Looking
<1>3. NegotiateTypeOK' /\ Idle'
  BY <1>0 DEF Inv, NegotiateTypeOK, Idle, list_vars, sort_vars
<1>4. phase = "parse" /\ phase' = "aborted" /\ i' = i
  BY <1>0 DEF phase, i
<1>. QED
  BY <1>0, <1>2, <1>3, <1>4 DEF Inv, assertion_fails, Abstract!assertion_fails, Abstract!choice

\* Where the loops are in the list.
LEMMA ListRead ==
  ASSUME Inv, NEW l, Holds(l), pc = "choose", NEW x \in 1 .. Size + 1, it = NodeAt(l, x)
  PROVE  /\ i = x /\ list \in Seq(Elements) /\ Len(list) = Size
         /\ it # 0 <=> i <= Len(list)
         /\ it # 0 => /\ x + 1 \in 1 .. Size + 1 /\ next[it] = NodeAt(l, x + 1)
                      /\ nodes[it] \in Elements /\ nodes[it] = list[i]
<1>1. /\ NegotiateTypeOK /\ Size \in Nat /\ Arrangement(l) /\ Linked(l) /\ ~ Sorting
  BY Sizes DEF Inv, Holds, Sorting
<1>2. list = [k \in Places |-> nodes[l[k]]]
  BY <1>1, ListFound DEF Listed
<1>3. \A k \in Places : nodes[l[k]] \in Elements /\ l[k] # 0
  BY <1>1, Sizes, NodesInRange DEF Arrangement
<1>4. list \in Seq(Elements) /\ Len(list) = Size
  <2>1. list \in [1 .. Size -> Elements]
    BY <1>2, <1>3 DEF Places
  <2>. QED
    BY <1>1, <2>1
<1>5. i = x
  BY <1>1, IndexFound
<1>6. it # 0 <=> x \in Places
  BY <1>1, <1>3 DEF NodeAt, Places
<1>7. x \in Places <=> x <= Size
  BY <1>1 DEF Places
<1>8. ASSUME x \in Places
      PROVE  /\ x + 1 \in 1 .. Size + 1 /\ next[it] = NodeAt(l, x + 1)
             /\ nodes[it] \in Elements /\ nodes[it] = list[x]
  <2>1. it = l[x]
    BY <1>1, <1>8 DEF NodeAt, Places
  <2>2. x + 1 \in 1 .. Size + 1
    BY <1>1, <1>8 DEF Places
  <2>. QED
    BY <1>1, <1>2, <1>3, <1>8, <2>1, <2>2 DEF Linked
<1>. QED
  BY <1>4, <1>5, <1>6, <1>7, <1>8

LEMMA StartOfChoiceStep ==
  ASSUME Inv, parse_ends
  PROVE  Inv' /\ Abstract!parse_ends
<1>0. /\ pc = "parse" /\ pc' = "choose" /\ ~ Sorting /\ ~ Sorting' /\ it' = first
      /\ UNCHANGED <<rest, list_vars, sort_vars, menu, loop, s, best_score, best>>
  BY DEF parse_ends, Sorting
<1>1. PICK l : Holds(l)
  BY DEF Inv
<1>2. /\ NegotiateTypeOK /\ Arrangement(l) /\ Linked(l) /\ Size \in Nat
      /\ Arrangement(l)' /\ Linked(l)' /\ Size' = Size /\ first' = first
  BY <1>0, <1>1, Sizes, ListStays DEF Inv, Holds, list_vars
<1>3. it' = NodeAt(l, 1)'
  BY <1>0, <1>2 DEF Linked
<1>4. Looking(l)'
  BY <1>0, <1>2, <1>3 DEF Looking
<1>5. Holds(l)' /\ list' = list /\ AddsHead'
  BY <1>0, <1>1, <1>4, QuietStep
<1>6. NegotiateTypeOK' /\ Idle'
  <2>1. first \in 0 .. Size
    BY <1>2, Sizes
  <2>. QED
    BY <1>0, <1>2, <2>1 DEF NegotiateTypeOK, Idle, list_vars, sort_vars, Size
<1>7. i = 1 /\ i' = 1
  <2>1. i = 1
    BY <1>0 DEF i
  <2>2. 1 \in 1 .. Size' + 1
    BY <1>2
  <2>. QED
    BY <1>0, <1>2, <1>3, <2>1, <2>2, FoundAfterStep
<1>8. phase = "parse" /\ phase' = "choose"
  BY <1>0 DEF phase
<1>. QED
  BY <1>0, <1>5, <1>6, <1>7, <1>8 DEF Inv, parse_ends, Abstract!parse_ends, Abstract!choice

LEMMA MenuType ==
  ASSUME NegotiateTypeOK
  PROVE  menu \in Seq(Offers)
<1>1. menu \in Menus \/ menu = <<>>
  BY DEF NegotiateTypeOK
<1>2. <<>> \in Seq(Offers)
  OBVIOUS
<1>. QED
  BY <1>1, <1>2, NegotiationAssumption

\* A step of the loops takes the next offer, or the next element of the list.
LEMMA LoopStep ==
  ASSUME Inv, Comparing, NextOffer \/ (it # 0 /\ NextElement),
         UNCHANGED <<pc, rest, list_vars, sort_vars, menu, loop>>
  PROVE  /\ AddsHead' /\ Idle' /\ \E l : Holds(l)'
         /\ phase = "choose" /\ phase' = "choose" /\ list' = list
         /\ i' = IF NextOffer THEN 1 ELSE i + 1
         /\ s' \in 1 .. Len(menu) + 1 /\ it' \in 0 .. Size
<1>0. pc = "choose" /\ pc' = "choose" /\ ~ Sorting /\ ~ Sorting' /\ s <= Len(menu)
  BY DEF Comparing, Sorting
<1>1. PICK l : Holds(l)
  BY DEF Inv
<1>2. PICK x \in 1 .. Size + 1 : it = NodeAt(l, x)
  BY <1>0, <1>1 DEF Holds, Looking
<1>3. /\ NegotiateTypeOK /\ Arrangement(l) /\ Linked(l) /\ Size \in Nat
      /\ Arrangement(l)' /\ Linked(l)' /\ Size' = Size /\ first' = first
  BY <1>1, Sizes, ListStays DEF Inv, Holds, list_vars
<1>4. s \in 1 .. Len(menu) + 1 /\ Len(menu) \in Nat
  <2>1. menu \in Seq(Offers)
    BY <1>3, MenuType
  <2>. QED
    BY <1>3, <2>1 DEF NegotiateTypeOK
<1>5. PICK y : y = IF NextOffer THEN 1 ELSE x + 1
  OBVIOUS
<1>6. y \in 1 .. Size + 1 /\ it' = NodeAt(l, y) /\ (NextOffer \/ (s' = s /\ i = x))
  <2>1. CASE NextOffer
    <3>1. 1 \in 1 .. Size + 1
      BY <1>3
    <3>. QED
      BY <1>3, <1>5, <2>1, <3>1 DEF NextOffer, Linked
  <2>2. CASE ~ NextOffer
    <3>1. it # 0 /\ it' = next[it] /\ s' = s
      BY <2>2 DEF NextElement
    <3>. QED
      BY <1>0, <1>1, <1>2, <1>5, <2>2, <3>1, ListRead
  <2>. QED
    BY <2>1, <2>2
<1>7. it' = NodeAt(l, y)' /\ y \in 1 .. Size' + 1 /\ NodeAt(l, y) \in 0 .. Size
  BY <1>3, <1>6, ListStays, NodesInRange
<1>8. s' \in 1 .. Len(menu) + 1 /\ (s' > Len(menu) => it' = first')
  <2>1. CASE NextOffer
    BY <1>0, <1>3, <1>4, <2>1 DEF NextOffer
  <2>2. CASE ~ NextOffer
    BY <1>0, <1>4, <1>6, <2>2
  <2>. QED
    BY <2>1, <2>2
<1>9. Looking(l)'
  BY <1>7, <1>8 DEF Looking
<1>10. Holds(l)' /\ list' = list /\ AddsHead'
  BY <1>0, <1>1, <1>9, QuietStep
<1>11. i' = y
  BY <1>0, <1>3, <1>7, FoundAfterStep
<1>12. phase = "choose" /\ phase' = "choose" /\ Idle'
  BY <1>0 DEF phase, Idle
<1>. QED
  BY <1>5, <1>6, <1>7, <1>8, <1>10, <1>11, <1>12

LEMMA Comparison ==
  ASSUME Inv, Comparing, it # 0
  PROVE  /\ s \in 1 .. Len(menu) /\ menu[s] \in Offers /\ menu[s] \in Range(menu)
         /\ i <= Len(list) /\ nodes[it] = list[i] /\ best_score \in -1 .. 100
         /\ Score(menu[s], nodes[it]) \in 0 .. 100
<1>1. PICK l : Holds(l)
  BY DEF Inv
<1>2. PICK x \in 1 .. Size + 1 : it = NodeAt(l, x)
  BY <1>1 DEF Holds, Looking, Comparing
<1>3. i <= Len(list) /\ nodes[it] \in Elements /\ nodes[it] = list[i]
  BY <1>1, <1>2, ListRead DEF Comparing
<1>4. menu \in Seq(Offers) /\ s \in 1 .. Len(menu) + 1 /\ best_score \in -1 .. 100
  BY MenuType DEF Inv, NegotiateTypeOK
<1>5. s \in 1 .. Len(menu) /\ menu[s] \in Offers
  BY <1>4 DEF Comparing
<1>6. menu[s] \in Range(menu)
  BY <1>4, <1>5 DEF Range
<1>7. Score(menu[s], nodes[it]) \in 0 .. 100
  <2>1. /\ menu[s] \in N!Offers /\ nodes[it] \in N!Elements
    BY <1>3, <1>5, SameTypes DEF N!Elements, Elements
  <2>2. N!Score(menu[s], nodes[it]) \in 0 .. 100
    BY <2>1, N!ScoreOrder, NegotiationAssumption, SameTypes
  <2>. QED
    BY <2>2 DEF N!Score, Score
<1>. QED
  BY <1>3, <1>4, <1>5, <1>6, <1>7

LEMMA ImprovementStep ==
  ASSUME Inv, improves
  PROVE  Inv' /\ Abstract!improves
<1>0. /\ Comparing /\ it # 0
      /\ Match(menu[s], nodes[it]) /\ Score(menu[s], nodes[it]) > best_score
      /\ best_score' = Score(menu[s], nodes[it]) /\ best' = menu[s]
      /\ IF loop = "choose" THEN NextOffer ELSE NextElement
      /\ UNCHANGED <<pc, rest, list_vars, sort_vars, menu, loop>>
  BY DEF improves
<1>1. /\ s \in 1 .. Len(menu) /\ menu[s] \in Offers /\ menu[s] \in Range(menu)
      /\ i <= Len(list) /\ nodes[it] = list[i]
      /\ Score(menu[s], nodes[it]) \in 0 .. 100
  BY <1>0, Comparison
<1>2. /\ AddsHead' /\ Idle' /\ \E l : Holds(l)'
      /\ phase = "choose" /\ phase' = "choose" /\ list' = list
      /\ i' = IF NextOffer THEN 1 ELSE i + 1
      /\ s' \in 1 .. Len(menu) + 1 /\ it' \in 0 .. Size
  BY <1>0, LoopStep
<1>3. NegotiateTypeOK'
  <2>1. best_score' \in -1 .. 100
    BY <1>0, <1>1
  <2>. QED
    BY <1>0, <1>1, <1>2, <2>1, SMTT(30) DEF Inv, NegotiateTypeOK, list_vars, sort_vars, Size
<1>4. ~ (NextOffer /\ NextElement)
  BY <1>1 DEF NextOffer, NextElement
<1>5. IF loop = "choose" THEN Abstract!NextOffer ELSE Abstract!NextElement
  BY <1>0, <1>2, <1>4 DEF Abstract!NextOffer, Abstract!NextElement, NextOffer, NextElement
<1>6. /\ Abstract!Match(menu[s], list[i]) /\ Abstract!Score(menu[s], list[i]) > best_score
      /\ best_score' = Abstract!Score(menu[s], list[i])
  BY <1>0, <1>1 DEF Abstract!Match, Match, Abstract!Score, Score
<1>. QED
  BY <1>0, <1>1, <1>2, <1>3, <1>5, <1>6 DEF Inv, Abstract!improves

LEMMA NoImprovementStep ==
  ASSUME Inv, does_not_improve
  PROVE  Inv' /\ Abstract!does_not_improve
<1>0. /\ Comparing /\ it # 0
      /\ Match(menu[s], nodes[it]) => Score(menu[s], nodes[it]) <= best_score
      /\ NextElement
      /\ UNCHANGED <<pc, rest, list_vars, sort_vars, menu, loop, best_score, best>>
  BY DEF does_not_improve
<1>1. /\ s \in 1 .. Len(menu) /\ i <= Len(list) /\ nodes[it] = list[i]
      /\ best_score \in -1 .. 100 /\ Score(menu[s], nodes[it]) \in 0 .. 100
  BY <1>0, Comparison
<1>2. /\ AddsHead' /\ Idle' /\ \E l : Holds(l)'
      /\ phase = "choose" /\ phase' = "choose" /\ list' = list
      /\ i' = IF NextOffer THEN 1 ELSE i + 1
      /\ s' \in 1 .. Len(menu) + 1 /\ it' \in 0 .. Size
  BY <1>0, LoopStep
<1>3. NegotiateTypeOK'
  BY <1>0, <1>2 DEF Inv, NegotiateTypeOK, list_vars, sort_vars, Size
<1>4. ~ NextOffer
  BY <1>0, <1>1 DEF NextOffer, NextElement
<1>5. Abstract!NextElement
  BY <1>0, <1>2, <1>4 DEF Abstract!NextElement, NextElement
<1>6. ~ (Abstract!Match(menu[s], list[i]) /\ Abstract!Score(menu[s], list[i]) > best_score)
  <2>1. ~ (Match(menu[s], nodes[it]) /\ Score(menu[s], nodes[it]) > best_score)
    <3>1. \A u \in 0 .. 100, v \in -1 .. 100 : u <= v => ~ (u > v)
      OBVIOUS
    <3>. QED
      BY <1>0, <1>1, <3>1, Zenon
  <2>. QED
    BY <1>1, <2>1 DEF Abstract!Match, Match, Abstract!Score, Score
<1>. QED
  BY <1>0, <1>1, <1>2, <1>3, <1>5, <1>6 DEF Inv, Abstract!does_not_improve

LEMMA NextOfferStep ==
  ASSUME Inv, next_offer
  PROVE  Inv' /\ Abstract!next_offer
<1>0. /\ Comparing /\ it = 0 /\ NextOffer
      /\ UNCHANGED <<pc, rest, list_vars, sort_vars, menu, loop, best_score, best>>
  BY DEF next_offer
<1>1. PICK l : Holds(l)
  BY DEF Inv
<1>2. PICK x \in 1 .. Size + 1 : it = NodeAt(l, x)
  BY <1>0, <1>1 DEF Holds, Looking, Comparing
<1>3. /\ Size \in Nat /\ Len(list) = Size /\ i = x /\ ~ (i <= Len(list))
  BY <1>0, <1>1, <1>2, ListRead, Sizes DEF Inv, Comparing
<1>4. i > Len(list)
  BY <1>3
<1>5. /\ AddsHead' /\ Idle' /\ \E k : Holds(k)'
      /\ phase = "choose" /\ phase' = "choose" /\ list' = list
      /\ i' = IF NextOffer THEN 1 ELSE i + 1
      /\ s' \in 1 .. Len(menu) + 1 /\ it' \in 0 .. Size
  BY <1>0, LoopStep
<1>6. NegotiateTypeOK'
  BY <1>0, <1>5 DEF Inv, NegotiateTypeOK, list_vars, sort_vars, Size
<1>7. Abstract!NextOffer
  BY <1>0, <1>5 DEF Abstract!NextOffer, NextOffer
<1>. QED
  BY <1>0, <1>4, <1>5, <1>6, <1>7 DEF Inv, Comparing, Abstract!next_offer

LEMMA EndOfChoiceStep ==
  ASSUME Inv, choose_ends
  PROVE  Inv' /\ Abstract!choose_ends
<1>0. /\ pc = "choose" /\ pc' = "done" /\ s > Len(menu) /\ ~ Sorting /\ ~ Sorting'
      /\ UNCHANGED <<rest, list_vars, sort_vars, menu, loop, s, it, best_score, best>>
  BY DEF choose_ends, Sorting, choice
<1>1. PICK l : Holds(l)
  BY DEF Inv
<1>2. Holds(l)' /\ list' = list /\ AddsHead'
  BY <1>0, <1>1, QuietStep DEF Looking
<1>3. NegotiateTypeOK' /\ Idle'
  BY <1>0 DEF Inv, NegotiateTypeOK, Idle, list_vars, sort_vars
<1>4. i = 1 /\ i' = 1
  <2>1. Arrangement(l) /\ Linked(l) /\ it = first /\ Size \in Nat
    BY <1>0, <1>1, Sizes DEF Inv, Holds, Looking
  <2>2. it = NodeAt(l, 1) /\ 1 \in 1 .. Size + 1
    BY <2>1 DEF Linked
  <2>3. i = 1
    BY <1>0, <2>1, <2>2, IndexFound
  <2>. QED
    BY <1>0, <2>3 DEF i
<1>5. phase = "choose" /\ phase' = "done"
  BY <1>0 DEF phase, Sorting
<1>. QED
  BY <1>0, <1>2, <1>3, <1>4, <1>5 DEF Inv, Abstract!choose_ends, Abstract!choice

\* With no node, every variable of the list is at rest.
Empty ==
  /\ nodes = <<>> /\ next = <<>> /\ first = 0
  /\ a = 0 /\ b = 0 /\ c = 0 /\ e = 0
  /\ ~ Sorting /\ pc # "choose"

LEMMA NoNodes == Empty => (\E l : Holds(l)) /\ AddsHead /\ list = <<>> /\ i = 1
<1>. SUFFICES ASSUME Empty PROVE Holds(<<>>) /\ AddsHead /\ list = <<>> /\ i = 1
  OBVIOUS
<1>1. Size = 0 /\ Places = {}
  BY DEF Empty, Size, Places
<1>2. Arrangement(<<>>)
  BY <1>1 DEF Arrangement
<1>3. Linked(<<>>)
  BY <1>1 DEF Empty, Linked, NodeAt
<1>4. Holds(<<>>)
  BY <1>1, <1>2, <1>3 DEF Empty, Holds, Sorted, AtRest, Looking, Ordered
<1>5. list = [k \in Places |-> nodes[<<>>[k]]]
  BY <1>1, <1>2, <1>3, ListFound DEF Empty, Listed
<1>6. list = <<>>
  BY <1>1, <1>5
<1>. QED
  BY <1>4, <1>6 DEF Empty, AddsHead, i

LEMMA NoNodesAfterStep == Empty' => ((\E l : Holds(l)) /\ AddsHead /\ list = <<>> /\ i = 1)'
  BY NoNodes, PTL

LEMMA ReturnStep ==
  ASSUME Inv, return
  PROVE  Inv' /\ Abstract!return
<1>0. /\ pc = "done" /\ pc' = "idle" /\ ~ Sorting /\ ~ Sorting'
      /\ nodes' = <<>> /\ next' = <<>> /\ first' = 0 /\ it' = 0 /\ best' = NULL
      /\ UNCHANGED <<rest, a, b, c, e, menu, loop, s, best_score>>
  BY DEF return, Sorting, sort_vars
<1>1. PICK l : Holds(l)
  BY DEF Inv
<1>2. Empty'
  <2>1. a = 0 /\ b = 0 /\ c = 0 /\ e = 0
    BY <1>0, <1>1 DEF Holds, AtRest
  <2>. QED
    BY <1>0, <2>1 DEF Empty
<1>3. (\E k : Holds(k)') /\ AddsHead' /\ list' = <<>> /\ i' = 1
  BY <1>2, NoNodesAfterStep
<1>4. NegotiateTypeOK'
  BY <1>0, <1>2 DEF Inv, NegotiateTypeOK, Empty
<1>5. Idle' /\ i = 1 /\ phase = "done" /\ phase' = "idle"
  BY <1>0 DEF Idle, i, phase
<1>. QED
  BY <1>0, <1>3, <1>4, <1>5 DEF Inv, Abstract!return

LEMMA CallStep ==
  ASSUME Inv, NEW h \in Headers, NEW m \in Menus, NEW l \in {"choose", "format"}, call(h, m, l)
  PROVE  Inv' /\ Abstract!call
<1>0. /\ pc = "idle" /\ pc' = "parse" /\ ~ Sorting /\ ~ Sorting'
      /\ rest' = h /\ menu' = m /\ loop' = l
      /\ s' = 1 /\ it' = 0 /\ best_score' = -1 /\ best' = NULL
      /\ UNCHANGED <<nodes, next, first, a, b, c, e>>
  BY DEF call, Sorting, list_vars, sort_vars
<1>1. PICK k : Holds(k)
  BY DEF Inv
<1>2. Empty'
  <2>1. a = 0 /\ b = 0 /\ c = 0 /\ e = 0
    BY <1>0, <1>1 DEF Holds, AtRest
  <2>2. nodes = <<>>
    BY <1>0 DEF Inv, Idle
  <2>3. next = <<>> /\ first = 0
    BY <2>2 DEF Inv, NegotiateTypeOK
  <2>. QED
    BY <1>0, <2>1, <2>2, <2>3 DEF Empty
<1>3. (\E n : Holds(n)') /\ AddsHead' /\ list' = <<>> /\ i' = 1
  BY <1>2, NoNodesAfterStep
<1>4. NegotiateTypeOK'
  <2>1. h \in Seq(Written) /\ m \in Seq(Offers)
    BY NegotiationAssumption
  <2>2. 1 \in 1 .. Len(m) + 1 /\ 0 \in 0 .. Len(nodes')
    BY <1>2, <2>1 DEF Empty
  <2>. QED
    BY <1>0, <1>2, <2>1, <2>2 DEF Inv, NegotiateTypeOK, Empty
<1>5. Idle' /\ phase = "idle" /\ phase' = "parse"
  BY <1>0 DEF Idle, phase
<1>. QED
  BY <1>0, <1>3, <1>4, <1>5 DEF Inv, Abstract!call

-----------------------------------------------------------------------------
(* The refinement                                                          *)

LEMMA StartsIdle == NegotiateInit => Inv /\ Abstract!Init
<1>. SUFFICES ASSUME NegotiateInit PROVE Inv /\ Abstract!Init
  OBVIOUS
<1>1. Empty
  BY DEF NegotiateInit, Empty, Sorting
<1>2. (\E l : Holds(l)) /\ AddsHead /\ list = <<>> /\ i = 1
  BY <1>1, NoNodes
<1>3. NegotiateTypeOK
  BY DEF NegotiateInit, NegotiateTypeOK
<1>4. Idle /\ phase = "idle"
  BY DEF NegotiateInit, Idle, phase, Sorting
<1>. QED
  BY <1>2, <1>3, <1>4 DEF Inv, NegotiateInit, Abstract!Init

\* What a caller of the negotiation may do with its variables.
Calls == \E h \in Headers, m \in Menus, l \in {"choose", "format"} : call(h, m, l)

LEMMA NothingHappens ==
  ASSUME Inv, UNCHANGED negotiate_vars
  PROVE  Inv' /\ Stutter
<1>0. /\ UNCHANGED <<pc, rest, nodes, next, first, a, b, c, e, menu, loop, s, it, best_score, best>>
  BY DEF negotiate_vars, list_vars, sort_vars, choice
<1>s. (Sorting' <=> Sorting) /\ UNCHANGED list_vars
  BY <1>0 DEF list_vars, Sorting
<1>1. PICK l : Holds(l)
  BY DEF Inv
<1>2. Holds(l)'
  <2>1. /\ Size' = Size /\ Places' = Places /\ Arrangement(l)' /\ Linked(l)'
        /\ \A p, z : Rising(l, p, z)' <=> Rising(l, p, z)
        /\ \A z, x : Passing(l, z, x)' <=> Passing(l, z, x)
    BY <1>0, <1>1, <1>s, ListStays DEF Holds, Rising, Passing
  <2>2. Sorted(l)'
    BY <1>0, <1>1, <1>s, <2>1 DEF Holds, Sorted
  <2>3. AtRest(l)' /\ Looking(l)'
    BY <1>0, <1>1, <1>s, <2>1, ListStays DEF Holds, AtRest, Looking
  <2>. QED
    BY <2>1, <2>2, <2>3 DEF Holds
<1>3. NegotiateTypeOK' /\ Idle' /\ AddsHead'
  BY <1>0, <1>s DEF Inv, NegotiateTypeOK, Idle, AddsHead, Size
<1>4. list' = list
  BY <1>s, AbstractListStays
<1>5. phase' = phase /\ i' = i
  BY <1>0 DEF phase, i, PlaceOf, Chain, Sorting
<1>. QED
  BY <1>0, <1>2, <1>3, <1>4, <1>5 DEF Inv, Stutter

\* Every step of a program that negotiates keeps the invariant and is a step
\* of the abstract list, or none.
LEMMA StepIsAbstract ==
  ASSUME Inv, Calls \/ NegotiateStep \/ return \/ UNCHANGED negotiate_vars
  PROVE  Inv' /\ [Abstract!Next]_(Abstract!vars)
<1>0. Stutter => UNCHANGED Abstract!vars
  BY DEF Stutter, Abstract!vars
<1>1. CASE Calls
  BY <1>1, CallStep DEF Calls, Abstract!Next
<1>2. CASE redhttp_negotiate_add
  BY <1>0, <1>2, AddStep
<1>3. CASE sort_pass
  BY <1>0, <1>3, PassStep
<1>4. CASE sort_swap
  BY <1>0, <1>4, SwapStep
<1>5. CASE sort_advance
  BY <1>0, <1>5, AdvanceStep
<1>6. CASE pass_ends
  BY <1>0, <1>6, EndOfPassStep
<1>7. CASE sort_ends
  BY <1>7, SortEndStep DEF Abstract!Next
<1>8. CASE assertion_fails
  BY <1>8, AssertionStep DEF Abstract!Next
<1>9. CASE parse_ends
  BY <1>9, StartOfChoiceStep DEF Abstract!Next
<1>10. CASE improves
  BY <1>10, ImprovementStep DEF Abstract!Next
<1>11. CASE does_not_improve
  BY <1>11, NoImprovementStep DEF Abstract!Next
<1>12. CASE next_offer
  BY <1>12, NextOfferStep DEF Abstract!Next
<1>13. CASE choose_ends
  BY <1>13, EndOfChoiceStep DEF Abstract!Next
<1>14. CASE return
  BY <1>14, ReturnStep DEF Abstract!Next
<1>15. CASE UNCHANGED negotiate_vars
  BY <1>0, <1>15, NothingHappens
<1>. QED
  BY <1>1, <1>2, <1>3, <1>4, <1>5, <1>6, <1>7, <1>8, <1>9, <1>10, <1>11, <1>12, <1>13,
     <1>14, <1>15 DEF NegotiateStep
============================================================================
