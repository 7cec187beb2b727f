-------------------------- MODULE NegotiationProofs --------------------------
(***************************************************************************)
(* Theorems about Negotiation, for any headers and menus.                  *)
(***************************************************************************)
EXTENDS Negotiation, SequenceTheorems, TLAPS

\* Where the elements of a list are after an insertion.
LEMMA Inserted ==
  ASSUME NEW S, NEW l \in Seq(S), NEW p \in 1 .. Len(l) + 1, NEW x \in S
  PROVE  /\ InsertAt(l, p, x) \in Seq(S)
         /\ Len(InsertAt(l, p, x)) = Len(l) + 1
         /\ \A k \in 1 .. Len(l) + 1 :
              InsertAt(l, p, x)[k] = IF k < p THEN l[k] ELSE IF k = p THEN x ELSE l[k - 1]
<1>. DEFINE front == SubSeq(l, 1, p - 1)
            back == SubSeq(l, p, Len(l))
<1>0. Len(l) \in Nat /\ p \in Nat
  OBVIOUS
<1>1. /\ front \in Seq(S) /\ Len(front) = p - 1
      /\ \A k \in 1 .. p - 1 : front[k] = l[k]
  BY SubSeqProperties
<1>2. /\ back \in Seq(S) /\ Len(back) = Len(l) - p + 1
      /\ \A k \in 1 .. Len(l) - p + 1 : back[k] = l[p + k - 1]
  BY SubSeqProperties
<1>. DEFINE single == <<x>>
            begun == front \o single
<1>3. single \in Seq(S) /\ Len(single) = 1 /\ single[1] = x
  OBVIOUS
<1>4. InsertAt(l, p, x) = begun \o back
  BY DEF InsertAt
<1>. HIDE DEF front, back, single
<1>5. /\ begun \in Seq(S) /\ Len(begun) = p
      /\ \A k \in 1 .. p : begun[k] = IF k < p THEN l[k] ELSE x
  <2>1. /\ begun \in Seq(S) /\ Len(begun) = Len(front) + Len(single)
        /\ \A k \in 1 .. Len(front) + Len(single) :
             begun[k] = IF k <= Len(front) THEN front[k] ELSE single[k - Len(front)]
    BY <1>1, <1>3, ConcatProperties
  <2>2. ASSUME NEW k \in 1 .. p PROVE begun[k] = IF k < p THEN l[k] ELSE x
    <3>1. CASE k < p
      <4>1. k \in 1 .. Len(front) + Len(single) /\ k <= Len(front)
        BY <1>1, <1>3, <3>1
      <4>2. begun[k] = front[k]
        BY <2>1, <4>1
      <4>. QED
        BY <1>1, <3>1, <4>2
    <3>2. CASE k = p
      <4>1. begun[k] = single[1]
        BY <1>1, <1>3, <2>1, <3>2
      <4>. QED
        BY <1>3, <3>2, <4>1
    <3>3. k < p \/ k = p
      BY <1>0
    <3>. QED
      BY <3>1, <3>2, <3>3, Zenon
  <2>. QED
    BY <1>0, <1>1, <1>3, <2>1, <2>2
<1>. HIDE DEF begun
<1>6. /\ begun \o back \in Seq(S) /\ Len(begun \o back) = Len(begun) + Len(back)
      /\ \A k \in 1 .. Len(begun) + Len(back) :
           (begun \o back)[k] = IF k <= Len(begun) THEN begun[k] ELSE back[k - Len(begun)]
  BY <1>2, <1>5, ConcatProperties
<1>7. Len(begun) + Len(back) = Len(l) + 1
  BY <1>2, <1>5
<1>8. ASSUME NEW k \in 1 .. Len(l) + 1
      PROVE  (begun \o back)[k] = IF k < p THEN l[k] ELSE IF k = p THEN x ELSE l[k - 1]
  <2>1. CASE k <= p
    <3>1. (begun \o back)[k] = begun[k]
      BY <1>5, <1>6, <1>7, <2>1
    <3>. QED
      BY <1>5, <2>1, <3>1
  <2>2. CASE k > p
    <3>1. k - p \in 1 .. Len(l) - p + 1 /\ p + (k - p) - 1 = k - 1
      BY <2>2
    <3>2. (begun \o back)[k] = back[k - p]
      BY <1>5, <1>6, <1>7, <2>2
    <3>. QED
      BY <1>2, <2>2, <3>1, <3>2
  <2>3. k <= p \/ k > p
    BY <1>0
  <2>. QED
    BY <2>1, <2>2, <2>3, Zenon
<1>. QED
  BY <1>4, <1>6, <1>7, <1>8

LEMMA QualitiesCompare ==
  ASSUME NEW u \in 0 .. 10, NEW v \in 0 .. 10, NEW w \in 0 .. 10
  PROVE  /\ u < v => v >= u
         /\ u < v /\ w >= v => w >= u
  OBVIOUS

\* Where an element is inserted behind those of at least its quality, the
\* list stays in order.
LEMMA InsertionKeepsOrder ==
  ASSUME list \in Seq(Elements), InOrder,
         NEW x \in Elements, NEW n \in 0 .. Len(list),
         \A j \in 1 .. n : list[j].q >= x.q,
         \A j \in n + 1 .. Len(list) : list[j].q < x.q,
         list' = InsertAt(list, n + 1, x)
  PROVE  list' \in Seq(Elements) /\ InOrder'
<1>1. /\ list' \in Seq(Elements) /\ Len(list') = Len(list) + 1
      /\ \A k \in 1 .. Len(list) + 1 :
           list'[k] = IF k < n + 1 THEN list[k] ELSE IF k = n + 1 THEN x ELSE list[k - 1]
  BY Inserted
<1>2. ASSUME NEW k \in 1 .. Len(list) PROVE list[k].q \in 0 .. 10
  <2>1. list[k] \in Elements
    OBVIOUS
  <2>. QED
    BY <2>1 DEF Elements
<1>3. x.q \in 0 .. 10
  BY DEF Elements
<1>4. ASSUME NEW j \in 1 .. Len(list'), NEW k \in 1 .. Len(list'), j < k
      PROVE  list'[j].q >= list'[k].q
  <2>1. j \in 1 .. Len(list) + 1 /\ k \in 1 .. Len(list) + 1
    BY <1>1
  <2>2. CASE k < n + 1
    BY <1>1, <1>4, <2>1, <2>2 DEF InOrder
  <2>3. CASE k = n + 1
    BY <1>1, <1>4, <2>1, <2>3
  <2>4. CASE k > n + 1 /\ j < n + 1
    <3>1. list'[k] = list[k - 1] /\ k - 1 \in n + 1 .. Len(list)
      BY <1>1, <2>1, <2>4
    <3>2. list'[j] = list[j] /\ j \in 1 .. n
      BY <1>1, <2>1, <2>4
    <3>3. list[k - 1].q < x.q /\ list[j].q >= x.q
      BY <3>1, <3>2
    <3>4. list[k - 1].q \in 0 .. 10 /\ list[j].q \in 0 .. 10
      BY <1>2, <3>1, <3>2
    <3>. QED
      BY <1>3, <3>1, <3>2, <3>3, <3>4, QualitiesCompare
  <2>5. CASE k > n + 1 /\ j = n + 1
    <3>1. list'[k] = list[k - 1] /\ k - 1 \in n + 1 .. Len(list)
      BY <1>1, <2>1, <2>5
    <3>2. list'[j] = x
      BY <1>1, <2>1, <2>5
    <3>3. list[k - 1].q < x.q
      BY <3>1
    <3>4. list[k - 1].q \in 0 .. 10
      BY <1>2, <3>1
    <3>. QED
      BY <1>3, <3>1, <3>2, <3>3, <3>4, QualitiesCompare
  <2>6. CASE k > n + 1 /\ j > n + 1
    <3>1. list'[k] = list[k - 1] /\ k - 1 \in 1 .. Len(list)
      BY <1>1, <2>1, <2>6
    <3>2. list'[j] = list[j - 1] /\ j - 1 \in 1 .. Len(list) /\ j - 1 < k - 1
      BY <1>1, <1>4, <2>1, <2>6
    <3>. QED
      BY <3>1, <3>2 DEF InOrder
  <2>. QED
    BY <2>1, <2>2, <2>3, <2>4, <2>5, <2>6
<1>. QED
  BY <1>1, <1>4 DEF InOrder

LEMMA QualityType ==
  ASSUME NEW w \in Written
  PROVE  Quality(w) \in 0 .. 10
<1>1. CASE w.param = NULL
  BY <1>1 DEF Quality
<1>2. CASE w.param # NULL
  <2>1. w.param.value \in Nat /\ w.param.width \in Nat
    BY <1>2 DEF Written
  <2>2. ASSUME w.param.value <= 100 PROVE (w.param.value + 5) \div 10 \in 0 .. 10
    BY <2>1, <2>2
  <2>. QED
    BY <2>2 DEF Quality
<1>. QED
  BY <1>1, <1>2

LEMMA ScoresCompare ==
  ASSUME NEW u \in 0 .. 100, NEW v \in 0 .. 100, NEW w \in Int
  PROVE  /\ ~ (u > w) => u <= w
         /\ u <= w /\ v > w => u < v
  OBVIOUS

LEMMA LessIsAtMost ==
  ASSUME NEW u \in 0 .. 100, NEW v \in 0 .. 100, u < v
  PROVE  u <= v
  OBVIOUS

LEMMA ScoreIsNotNegative ==
  ASSUME NEW u \in 0 .. 100
  PROVE  ~ (u <= -1)
  OBVIOUS

LEMMA ScoreOrder ==
  ASSUME NEW o \in Offers, NEW x \in Elements, NEW y \in Elements
  PROVE  /\ Score(o, x) \in 0 .. 100
         /\ y.q <= x.q => Score(o, y) <= Score(o, x)
<1>. DEFINE u == o.q
            v == x.q
            w == y.q
<1>1. u \in 0 .. 10 /\ v \in 0 .. 10 /\ w \in 0 .. 10
  BY DEF Offers, Elements
<1>2. Score(o, x) = u * v /\ Score(o, y) = u * w
  BY DEF Score
<1>. HIDE DEF u, v, w
<1>3. u * v \in 0 .. 100 /\ (w <= v => u * w <= u * v)
  <2>1. \/ u = 0 \/ u = 1 \/ u = 2 \/ u = 3 \/ u = 4 \/ u = 5
        \/ u = 6 \/ u = 7 \/ u = 8 \/ u = 9 \/ u = 10
    BY <1>1
  <2>. QED
    BY <1>1, <2>1
<1>. QED
  BY <1>2, <1>3 DEF u, v, w
-----------------------------------------------------------------------------
(* Types, and the order of the list                                        *)

Typed == TypeOK /\ InOrder

LEMMA TypedInit == Init => Typed
<1>. SUFFICES ASSUME Init PROVE Typed
  OBVIOUS
<1>1. TypeOK
  BY DEF Init, TypeOK
<1>2. InOrder
  BY DEF Init, InOrder
<1>. QED
  BY <1>1, <1>2 DEF Typed

LEMMA TypedStep == Typed /\ [Next]_vars => Typed'
<1>. SUFFICES ASSUME Typed, [Next]_vars PROVE Typed'
  OBVIOUS
<1>. USE DEF Typed
<1>1. CASE call
  <2>1. TypeOK'
    BY <1>1, NegotiationAssumption DEF TypeOK, call
  <2>. QED
    BY <1>1, <2>1 DEF InOrder, call
<1>2. CASE redhttp_negotiate_add
  <2>. DEFINE x == [type |-> Head(rest).type, q |-> Quality(Head(rest))]
  <2>1. Head(rest) \in Written /\ Tail(rest) \in Seq(Written) /\ Head(rest).type # NULL
    BY <1>2 DEF TypeOK, redhttp_negotiate_add
  <2>2. x \in Elements
    BY <2>1, QualityType DEF Elements, Written
  <2>3. PICK n \in 0 .. Len(list) :
          /\ \A j \in 1 .. n : list[j].q >= x.q
          /\ \A j \in n + 1 .. Len(list) : list[j].q < x.q
          /\ list' = InsertAt(list, n + 1, x)
    BY <1>2 DEF redhttp_negotiate_add
  <2>. HIDE DEF x
  <2>4. list' \in Seq(Elements) /\ InOrder'
    BY <2>2, <2>3, InsertionKeepsOrder DEF TypeOK
  <2>. QED
    BY <1>2, <2>1, <2>4 DEF TypeOK, redhttp_negotiate_add, choice
<1>3. CASE assertion_fails
  BY <1>3 DEF TypeOK, InOrder, assertion_fails, choice
<1>4. CASE parse_ends
  BY <1>4 DEF TypeOK, InOrder, parse_ends, choice
<1>5. CASE improves
  <2>1. /\ menu[s] \in Offers /\ list[i] \in Elements /\ menu[s] # NULL
    BY <1>5, NegotiationAssumption DEF TypeOK, improves
  <2>2. Score(menu[s], list[i]) \in 0 .. 100
    BY <2>1, ScoreOrder
  <2>3. TypeOK'
    BY <1>5, <2>1, <2>2, SMTT(30) DEF TypeOK, improves, NextOffer, NextElement
  <2>. QED
    BY <1>5, <2>3 DEF InOrder, improves
<1>6. CASE does_not_improve
  BY <1>6 DEF TypeOK, InOrder, does_not_improve, NextElement
<1>7. CASE next_offer
  BY <1>7 DEF TypeOK, InOrder, next_offer, NextOffer
<1>8. CASE choose_ends
  BY <1>8 DEF TypeOK, InOrder, choose_ends, choice
<1>9. CASE return
  BY <1>9 DEF TypeOK, InOrder, return
<1>10. CASE UNCHANGED vars
  BY <1>10 DEF TypeOK, InOrder, vars
<1>. QED
  BY <1>1, <1>2, <1>3, <1>4, <1>5, <1>6, <1>7, <1>8, <1>9, <1>10 DEF Next

\* The variables have their types (negotiate.c:92-115: a quality is a tenth).
THEOREM TypeCorrect == Spec => []TypeOK
<1>1. Typed => TypeOK
  BY DEF Typed
<1>. QED
  BY TypedInit, TypedStep, <1>1, PTL DEF Spec

\* The list is in order whenever the parser or a loop looks at it
\* (negotiate.c:165-242).
THEOREM ListIsInOrder == Spec => []InOrder
<1>1. Typed => InOrder
  BY DEF Typed
<1>. QED
  BY TypedInit, TypedStep, <1>1, PTL DEF Spec
-----------------------------------------------------------------------------
(* The choice                                                              *)

\* The pairs the loops have come past, or could leave out.
Past(m, k) == m < s \/ (m = s /\ k < i)

\* Nothing that has been passed scores more than the best, which is the
\* first of its score.
BestSoFar ==
  pc \in {"choose", "done"} =>
    /\ \A m \in 1 .. Len(menu), k \in 1 .. Len(list) :
         Past(m, k) /\ Match(menu[m], list[k]) => Score(menu[m], list[k]) <= best_score
    /\ best = NULL => best_score = -1
    /\ best # NULL =>
         \E n \in 1 .. Len(menu), j \in 1 .. Len(list) :
           /\ best = menu[n] /\ Match(menu[n], list[j]) /\ Score(menu[n], list[j]) = best_score
           /\ \A m \in 1 .. Len(menu), k \in 1 .. Len(list) :
                m < n /\ Match(menu[m], list[k]) => Score(menu[m], list[k]) < best_score
    /\ pc = "done" => s > Len(menu)

\* Before the loops nothing has been chosen.
Unchosen == pc = "parse" => s = 1 /\ i = 1 /\ best = NULL /\ best_score = -1

Choosing == Typed /\ Unchosen /\ BestSoFar

LEMMA ChoosingInit == Init => Choosing
  BY TypedInit DEF Init, Choosing, Unchosen, BestSoFar

\* The loops go on past pairs that do not improve on the best.
LEMMA GoingOn ==
  ASSUME Choosing, pc = "choose", UNCHANGED <<list, menu, best_score, best>>,
         pc' = "choose" \/ (pc' = "done" /\ s' > Len(menu)),
         \A m \in 1 .. Len(menu), k \in 1 .. Len(list) :
           Past(m, k)' /\ Match(menu[m], list[k]) =>
             Past(m, k) \/ Score(menu[m], list[k]) <= best_score
  PROVE  BestSoFar'
<1>1. ASSUME NEW m \in 1 .. Len(menu), NEW k \in 1 .. Len(list),
             Past(m, k)', Match(menu[m], list[k])
      PROVE  Score(menu[m], list[k]) <= best_score
  BY <1>1 DEF Choosing, BestSoFar
<1>2. best = NULL => best_score = -1
  BY DEF Choosing, BestSoFar
<1>3. best # NULL =>
        \E n \in 1 .. Len(menu), j \in 1 .. Len(list) :
          /\ best = menu[n] /\ Match(menu[n], list[j]) /\ Score(menu[n], list[j]) = best_score
          /\ \A m \in 1 .. Len(menu), k \in 1 .. Len(list) :
               m < n /\ Match(menu[m], list[k]) => Score(menu[m], list[k]) < best_score
  BY DEF Choosing, BestSoFar
<1>4. pc' = "done" => s' > Len(menu')
  OBVIOUS
<1>. QED
  BY <1>1, <1>2, <1>3, <1>4 DEF BestSoFar

\* A better pair becomes the best.  Leaving the inner loop skips pairs of the
\* same offer further down the list, which score no more because the list is
\* in order.
LEMMA ImprovementIsBest ==
  ASSUME Choosing, improves
  PROVE  BestSoFar'
<1>1. /\ s \in 1 .. Len(menu) /\ i \in 1 .. Len(list)
      /\ menu \in Seq(Offers) /\ list \in Seq(Elements) /\ InOrder
      /\ best_score \in Int
  BY DEF Choosing, Typed, TypeOK, improves
<1>2. /\ pc = "choose" /\ Match(menu[s], list[i]) /\ Score(menu[s], list[i]) > best_score
      /\ best_score' = Score(menu[s], list[i]) /\ best' = menu[s]
      /\ UNCHANGED <<pc, list, menu>>
  BY DEF improves
<1>3. menu[s] \in Offers /\ list[i] \in Elements
  BY <1>1
<1>4. menu[s] # NULL
  BY <1>3, NegotiationAssumption
<1>5. ASSUME NEW m \in 1 .. Len(menu), NEW k \in 1 .. Len(list)
      PROVE  Score(menu[m], list[k]) \in 0 .. 100
  <2>1. menu[m] \in Offers /\ list[k] \in Elements
    BY <1>1
  <2>. QED
    BY <2>1, ScoreOrder
<1>6. ASSUME NEW m \in 1 .. Len(menu), NEW k \in 1 .. Len(list),
             Past(m, k), Match(menu[m], list[k])
      PROVE  Score(menu[m], list[k]) < best_score'
  <2>1. Score(menu[m], list[k]) <= best_score
    BY <1>2, <1>6 DEF Choosing, BestSoFar
  <2>2. Score(menu[m], list[k]) \in 0 .. 100 /\ Score(menu[s], list[i]) \in 0 .. 100
    BY <1>1, <1>5
  <2>. QED
    BY <1>1, <1>2, <2>1, <2>2, ScoresCompare
<1>7. ASSUME NEW k \in i .. Len(list)
      PROVE  Score(menu[s], list[k]) <= best_score'
  <2>1. k \in 1 .. Len(list) /\ list[k] \in Elements
    BY <1>1
  <2>2. list[k].q <= list[i].q
    <3>1. CASE k = i
      BY <1>3, <3>1 DEF Elements
    <3>2. CASE i < k
      BY <1>1, <2>1, <3>2 DEF InOrder
    <3>. QED
      BY <1>1, <3>1, <3>2
  <2>. QED
    BY <1>2, <1>3, <2>1, <2>2, ScoreOrder
<1>8. ASSUME NEW m \in 1 .. Len(menu), NEW k \in 1 .. Len(list),
             Past(m, k)', Match(menu[m], list[k])
      PROVE  Score(menu[m], list[k]) <= best_score'
  <2>1. Past(m, k) \/ (m = s /\ k \in i .. Len(list))
    <3>1. CASE NextOffer
      BY <1>1, <1>8, <3>1 DEF Past, NextOffer
    <3>2. CASE NextElement
      BY <1>1, <1>8, <3>2 DEF Past, NextElement
    <3>. QED
      BY <3>1, <3>2 DEF improves
  <2>2. CASE Past(m, k)
    <3>1. Score(menu[m], list[k]) < best_score'
      BY <1>6, <1>8, <2>2
    <3>2. Score(menu[m], list[k]) \in 0 .. 100 /\ best_score' \in 0 .. 100
      BY <1>1, <1>2, <1>5
    <3>. QED
      BY <3>1, <3>2, LessIsAtMost
  <2>. QED
    BY <1>7, <2>1, <2>2
<1>9. \A m \in 1 .. Len(menu), k \in 1 .. Len(list) :
        m < s /\ Match(menu[m], list[k]) => Score(menu[m], list[k]) < best_score'
  BY <1>6 DEF Past
<1>10. best' # NULL /\ pc' # "done"
  BY <1>2, <1>4
<1>11. \E n \in 1 .. Len(menu'), j \in 1 .. Len(list') :
         /\ best' = menu'[n] /\ Match(menu'[n], list'[j]) /\ Score(menu'[n], list'[j]) = best_score'
         /\ \A m \in 1 .. Len(menu'), k \in 1 .. Len(list') :
              m < n /\ Match(menu'[m], list'[k]) => Score(menu'[m], list'[k]) < best_score'
  BY <1>1, <1>2, <1>9
<1>. QED
  BY <1>2, <1>8, <1>10, <1>11 DEF BestSoFar

LEMMA ChoosingStep == Choosing /\ [Next]_vars => Choosing'
<1>. SUFFICES ASSUME Choosing, [Next]_vars PROVE Unchosen' /\ BestSoFar'
  BY TypedStep DEF Choosing
<1>0. /\ s \in 1 .. Len(menu) + 1 /\ i \in Nat \ {0} /\ Len(list) \in Nat
  BY DEF Choosing, Typed, TypeOK
<1>1. CASE call
  BY <1>1 DEF call, Unchosen, BestSoFar
<1>2. CASE redhttp_negotiate_add
  BY <1>2 DEF Choosing, redhttp_negotiate_add, choice, Unchosen, BestSoFar
<1>3. CASE assertion_fails
  BY <1>3 DEF assertion_fails, Unchosen, BestSoFar
<1>4. CASE parse_ends
  <2>1. s' = 1 /\ i' = 1 /\ best' = NULL /\ best_score' = -1 /\ pc' = "choose"
    BY <1>4 DEF parse_ends, Choosing, Unchosen, choice
  <2>2. \A m \in 1 .. Len(menu'), k \in 1 .. Len(list') : ~ Past(m, k)'
    BY <2>1 DEF Past
  <2>. QED
    BY <2>1, <2>2 DEF Unchosen, BestSoFar
<1>5. CASE improves
  <2>1. BestSoFar'
    BY <1>5, ImprovementIsBest
  <2>. QED
    BY <1>5, <2>1 DEF improves, Unchosen
<1>6. CASE does_not_improve
  <2>1. ASSUME NEW m \in 1 .. Len(menu), NEW k \in 1 .. Len(list),
               Past(m, k)', Match(menu[m], list[k]), ~ Past(m, k)
        PROVE  Score(menu[m], list[k]) <= best_score
    <3>1. m = s /\ k = i
      BY <1>0, <1>6, <2>1 DEF Past, does_not_improve, NextElement
    <3>2. menu[m] \in Offers /\ list[k] \in Elements /\ best_score \in Int
      BY DEF Choosing, Typed, TypeOK
    <3>3. Score(menu[m], list[k]) \in 0 .. 100
      BY <3>2, ScoreOrder
    <3>4. ~ (Score(menu[m], list[k]) > best_score)
      BY <1>6, <2>1, <3>1 DEF does_not_improve
    <3>. QED
      BY <3>2, <3>3, <3>4, ScoresCompare
  <2>2. BestSoFar'
    BY <1>6, <2>1, GoingOn DEF does_not_improve
  <2>. QED
    BY <1>6, <2>2 DEF does_not_improve, Unchosen
<1>7. CASE next_offer
  <2>1. ASSUME NEW m \in 1 .. Len(menu), NEW k \in 1 .. Len(list), Past(m, k)'
        PROVE  Past(m, k)
    BY <1>0, <1>7, <2>1 DEF Past, next_offer, NextOffer
  <2>2. BestSoFar'
    BY <1>7, <2>1, GoingOn DEF next_offer
  <2>. QED
    BY <1>7, <2>2 DEF next_offer, Unchosen
<1>8. CASE choose_ends
  <2>1. s' > Len(menu) /\ UNCHANGED choice /\ pc' = "done" /\ UNCHANGED list /\ pc = "choose"
    BY <1>8 DEF choose_ends, choice
  <2>2. \A m, k : Past(m, k)' <=> Past(m, k)
    BY <2>1 DEF Past, choice
  <2>3. BestSoFar'
    BY <2>1, <2>2, GoingOn DEF choice
  <2>. QED
    BY <2>1, <2>3 DEF Unchosen
<1>9. CASE return
  BY <1>9 DEF return, Unchosen, BestSoFar
<1>10. CASE UNCHANGED vars
  BY <1>10 DEF Choosing, vars, Unchosen, BestSoFar, Past
<1>. QED
  BY <1>1, <1>2, <1>3, <1>4, <1>5, <1>6, <1>7, <1>8, <1>9, <1>10 DEF Next

LEMMA BestIsChosen == Choosing => ChosenIsBest
<1>. SUFFICES ASSUME Choosing, pc = "done" PROVE ChosenIsBest
  BY DEF ChosenIsBest
<1>1. /\ s > Len(menu) /\ s \in Nat /\ Len(menu) \in Nat
  BY DEF Choosing, Typed, TypeOK, BestSoFar
<1>2. ASSUME NEW m \in 1 .. Len(menu), NEW k \in 1 .. Len(list), Match(menu[m], list[k])
      PROVE  Score(menu[m], list[k]) <= best_score /\ Score(menu[m], list[k]) \in 0 .. 100
  <2>1. Past(m, k)
    BY <1>1 DEF Past
  <2>2. menu[m] \in Offers /\ list[k] \in Elements
    BY DEF Choosing, Typed, TypeOK
  <2>. QED
    BY <1>2, <2>1, <2>2, ScoreOrder DEF Choosing, BestSoFar
<1>3. CASE best = NULL
  <2>1. best_score = -1
    BY <1>3 DEF Choosing, BestSoFar
  <2>2. ASSUME NEW m \in 1 .. Len(menu), NEW k \in 1 .. Len(list), Match(menu[m], list[k])
        PROVE  FALSE
    <3>1. Score(menu[m], list[k]) <= -1 /\ Score(menu[m], list[k]) \in 0 .. 100
      BY <1>2, <2>1, <2>2
    <3>. QED
      BY <3>1, ScoreIsNotNegative
  <2>. QED
    BY <1>3, <2>2 DEF ChosenIsBest
<1>4. CASE best # NULL
  <2>1. PICK n \in 1 .. Len(menu), j \in 1 .. Len(list) :
          /\ best = menu[n] /\ Match(menu[n], list[j]) /\ Score(menu[n], list[j]) = best_score
          /\ \A m \in 1 .. Len(menu), k \in 1 .. Len(list) :
               m < n /\ Match(menu[m], list[k]) => Score(menu[m], list[k]) < best_score
    BY <1>4 DEF Choosing, BestSoFar
  <2>2. ASSUME NEW m \in 1 .. Len(menu), NEW k \in 1 .. Len(list), Match(menu[m], list[k])
        PROVE  /\ Score(menu[m], list[k]) <= Score(menu[n], list[j])
               /\ m < n => Score(menu[m], list[k]) < Score(menu[n], list[j])
    BY <1>2, <2>1, <2>2
  <2>. QED
    BY <1>4, <2>1, <2>2 DEF ChosenIsBest
<1>. QED
  BY <1>3, <1>4

\* Whatever the header and the menu, the loops find the first offer of the
\* highest score, also with the early exit of redhttp_negotiate_choose
\* (negotiate.c:44-69, utils.c:118-146).
THEOREM BestIsFound == Spec => []ChosenIsBest
BY ChoosingInit, ChoosingStep, BestIsChosen, PTL DEF Spec
=============================================================================
