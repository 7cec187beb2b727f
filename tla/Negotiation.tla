---------------------------- MODULE Negotiation ----------------------------
(***************************************************************************)
(* Content negotiation: an Accept header is read into a list, element by   *)
(* element, and one of the types on a menu is chosen.  The list is a       *)
(* sequence here, and an element finds its place in one step; Negotiate    *)
(* has the linked list of redhttp/negotiate.c and shows that its sort does *)
(* this.                                                                   *)
(***************************************************************************)
EXTENDS MediaTypes

VARIABLES
  pc,          \* "idle", "parse", "choose", "done", "aborted"
  rest,        \* what is left of the header
  list,        \* redhttp_negotiate_t: the elements so far
  menu, loop,  \* the arguments, and which of the two loops chooses
  s, i,        \* the offer and the element that are compared next
  best_score,
  best         \* the offer chosen so far, or NULL

vars == <<pc, rest, list, menu, loop, s, i, best_score, best>>
choice == <<menu, loop, s, i, best_score, best>>

Init ==
  /\ pc = "idle"
  /\ rest = <<>> /\ list = <<>>
  /\ menu = <<>> /\ loop = "choose"
  /\ s = 1 /\ i = 1
  /\ best_score = -1 /\ best = NULL

\* A caller has a header and a menu.
call ==
  /\ pc = "idle"
  /\ pc' = "parse"
  /\ rest' \in Headers /\ list' = <<>>
  /\ menu' \in Menus /\ loop' \in {"choose", "format"}
  /\ s' = 1 /\ i' = 1
  /\ best_score' = -1 /\ best' = NULL

\* An element comes behind those of at least its quality and before the
\* others.
redhttp_negotiate_add ==
  /\ pc = "parse" /\ rest # <<>> /\ Head(rest).type # NULL
  /\ rest' = Tail(rest)
  /\ LET x == [type |-> Head(rest).type, q |-> Quality(Head(rest))]
     IN \E n \in 0 .. Len(list) :
          /\ \A j \in 1 .. n : list[j].q >= x.q
          /\ \A j \in n + 1 .. Len(list) : list[j].q < x.q
          /\ list' = InsertAt(list, n + 1, x)
  /\ UNCHANGED <<pc, choice>>

\* An element without a type runs into the assertion of
\* redhttp_negotiate_add.
assertion_fails ==
  /\ pc = "parse" /\ rest # <<>> /\ Head(rest).type = NULL
  /\ pc' = "aborted"
  /\ UNCHANGED <<rest, list, choice>>

parse_ends ==
  /\ pc = "parse" /\ rest = <<>>
  /\ pc' = "choose"
  /\ UNCHANGED <<rest, list, choice>>

NextOffer == s' = s + 1 /\ i' = 1
NextElement == i' = i + 1 /\ UNCHANGED s

\* The element improves on the best so far.  redhttp_negotiate_choose then
\* leaves the inner loop, redstore_negotiate_format goes on.
improves ==
  /\ pc = "choose" /\ s <= Len(menu) /\ i <= Len(list)
  /\ Match(menu[s], list[i]) /\ Score(menu[s], list[i]) > best_score
  /\ best_score' = Score(menu[s], list[i])
  /\ best' = menu[s]
  /\ IF loop = "choose" THEN NextOffer ELSE NextElement
  /\ UNCHANGED <<pc, rest, list, menu, loop>>

does_not_improve ==
  /\ pc = "choose" /\ s <= Len(menu) /\ i <= Len(list)
  /\ ~ (Match(menu[s], list[i]) /\ Score(menu[s], list[i]) > best_score)
  /\ NextElement
  /\ UNCHANGED <<pc, rest, list, menu, loop, best_score, best>>

next_offer ==
  /\ pc = "choose" /\ s <= Len(menu) /\ i > Len(list)
  /\ NextOffer
  /\ UNCHANGED <<pc, rest, list, menu, loop, best_score, best>>

choose_ends ==
  /\ pc = "choose" /\ s > Len(menu)
  /\ pc' = "done"
  /\ UNCHANGED <<rest, list, choice>>

\* The caller takes the result; the list is freed.
return ==
  /\ pc = "done"
  /\ pc' = "idle"
  /\ list' = <<>> /\ best' = NULL
  /\ UNCHANGED <<rest, menu, loop, s, i, best_score>>

Next ==
  \/ call
  \/ redhttp_negotiate_add \/ assertion_fails \/ parse_ends
  \/ improves \/ does_not_improve \/ next_offer \/ choose_ends
  \/ return

Spec == Init /\ [][Next]_vars
-----------------------------------------------------------------------------
(* Properties                                                              *)

TypeOK ==
  /\ pc \in {"idle", "parse", "choose", "done", "aborted"}
  /\ rest \in Seq(Written)
  /\ list \in Seq(Elements)
  /\ menu \in Seq(Offers)
  /\ loop \in {"choose", "format"}
  /\ s \in 1 .. Len(menu) + 1
  /\ i \in Nat \ {0}
  /\ best_score \in -1 .. 100
  /\ best \in Offers \cup {NULL}

\* The list is in the order of preference at every moment: the break of
\* redhttp_negotiate_choose (negotiate.c:58) relies on it.
InOrder == \A j, k \in 1 .. Len(list) : j < k => list[j].q >= list[k].q

\* The result is the first offer of the highest score, a wildcard counting
\* as the type it stands for, and there is none only if no offer is on the
\* list: also when the inner loop is left early, with equal scores, and with
\* qualities of 0 (negotiate.c:44-69, utils.c:118-146).
ChosenIsBest ==
  pc = "done" =>
    IF best = NULL
    THEN \A n \in 1 .. Len(menu), j \in 1 .. Len(list) : ~ Match(menu[n], list[j])
    ELSE \E n \in 1 .. Len(menu), j \in 1 .. Len(list) :
           /\ best = menu[n] /\ Match(menu[n], list[j])
           /\ \A m \in 1 .. Len(menu), k \in 1 .. Len(list) :
                Match(menu[m], list[k]) =>
                  /\ Score(menu[m], list[k]) <= Score(menu[n], list[j])
                  /\ m < n => Score(menu[m], list[k]) < Score(menu[n], list[j])
=============================================================================
