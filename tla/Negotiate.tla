----------------------------- MODULE Negotiate ------------------------------
(***************************************************************************)
(* Content negotiation as redhttp/negotiate.c does it: the elements of the *)
(* Accept header are nodes of a linked list, a bubble sort puts the list   *)
(* in order after each of them, and the two loops that choose a type walk  *)
(* it.  A module that negotiates adds the caller.                          *)
(***************************************************************************)
EXTENDS MediaTypes

VARIABLES
  pc,           \* as in Negotiation; "sort" and "pass" are the outer and
                \* the inner loop of redhttp_negotiate_sort
  rest,         \* what is left of the header
  nodes,        \* the nodes in the order of their allocation
  next, first,  \* the pointers of the list; 0 is NULL
  a, b, c, e,   \* the locals of redhttp_negotiate_sort
  menu, loop, s, it, best_score, best

list_vars == <<nodes, next, first>>
sort_vars == <<a, b, c, e>>
choice == <<menu, loop, s, it, best_score, best>>
negotiate_vars == <<pc, rest, list_vars, sort_vars, choice>>

\* The nodes in the order of the list, all of which can be reached from first.
Chain[k \in 1 .. Len(nodes)] == IF k = 1 THEN first ELSE next[Chain[k - 1]]

NegotiateInit ==
  /\ pc = "idle"
  /\ rest = <<>>
  /\ nodes = <<>> /\ next = <<>> /\ first = 0
  /\ a = 0 /\ b = 0 /\ c = 0 /\ e = 0
  /\ menu = <<>> /\ loop = "choose"
  /\ s = 1 /\ it = 0 /\ best_score = -1 /\ best = NULL

call(h, m, l) ==
  /\ pc = "idle"
  /\ pc' = "parse"
  /\ rest' = h
  /\ menu' = m /\ loop' = l
  /\ s' = 1 /\ it' = 0 /\ best_score' = -1 /\ best' = NULL
  /\ UNCHANGED <<list_vars, sort_vars>>

\* A new node at the end of the list, which is then sorted.
redhttp_negotiate_add ==
  /\ pc = "parse" /\ rest # <<>> /\ Head(rest).type # NULL
  /\ nodes' = Append(nodes, [type |-> Head(rest).type, q |-> Quality(Head(rest))])
  /\ IF first = 0
     THEN first' = Len(nodes') /\ next' = Append(next, 0)
     ELSE /\ next' = [Append(next, 0) EXCEPT ![Last(Chain)] = Len(nodes')]
          /\ UNCHANGED first
  /\ pc' = "sort"
  /\ UNCHANGED <<rest, sort_vars, choice>>

\* while (e != (*first)->next)
sort_pass ==
  /\ pc = "sort" /\ e # next[first]
  /\ pc' = "pass"
  /\ c' = first /\ a' = first /\ b' = next[first]
  /\ UNCHANGED <<rest, list_vars, e, choice>>

\* sort_swap that takes equal qualities for an inversion.
SwapOfEquals ==
  /\ pc = "pass" /\ a # e /\ nodes[a].q <= nodes[b].q
  /\ LET linked == [next EXCEPT ![a] = next[b], ![b] = a]
     IN IF a = first
        THEN first' = b /\ next' = linked
        ELSE next' = [linked EXCEPT ![c] = b] /\ UNCHANGED first
  /\ c' = b
  /\ b' = next'[a]
  /\ e' = IF b' = e THEN a ELSE e
  /\ UNCHANGED <<pc, rest, nodes, a, choice>>

\* The nodes a and b change places; c is the node before them.
sort_swap ==
  /\ pc = "pass" /\ a # e /\ nodes[a].q < nodes[b].q
  /\ LET linked == [next EXCEPT ![a] = next[b], ![b] = a]
     IN IF a = first
        THEN first' = b /\ next' = linked
        ELSE next' = [linked EXCEPT ![c] = b] /\ UNCHANGED first
  /\ c' = b
  /\ b' = next'[a]
  /\ e' = IF b' = e THEN a ELSE e
  /\ UNCHANGED <<pc, rest, nodes, a, choice>>

sort_advance ==
  /\ pc = "pass" /\ a # e /\ nodes[a].q >= nodes[b].q
  /\ c' = a
  /\ a' = next[a]
  /\ b' = next[a']
  /\ e' = IF b' = e THEN a' ELSE e
  /\ UNCHANGED <<pc, rest, list_vars, choice>>

\* pass_ends that forgets how far the list is sorted.
PassForgetsEnd ==
  /\ pc = "pass" /\ a = e
  /\ pc' = "sort"
  /\ e' = 0
  /\ UNCHANGED <<rest, list_vars, a, b, c, choice>>

pass_ends ==
  /\ pc = "pass" /\ a = e
  /\ pc' = "sort"
  /\ UNCHANGED <<rest, list_vars, sort_vars, choice>>

\* The list is sorted, and the parser goes on behind the comma.
sort_ends ==
  /\ pc = "sort" /\ e = next[first]
  /\ pc' = "parse"
  /\ rest' = Tail(rest)
  /\ a' = 0 /\ b' = 0 /\ c' = 0 /\ e' = 0
  /\ UNCHANGED <<list_vars, choice>>

\* An element without a type runs into the assertion of
\* redhttp_negotiate_add.
assertion_fails ==
  /\ pc = "parse" /\ rest # <<>> /\ Head(rest).type = NULL
  /\ pc' = "aborted"
  /\ UNCHANGED <<rest, list_vars, sort_vars, choice>>

parse_ends ==
  /\ pc = "parse" /\ rest = <<>>
  /\ pc' = "choose"
  /\ it' = first
  /\ UNCHANGED <<rest, list_vars, sort_vars, menu, loop, s, best_score, best>>

Comparing == pc = "choose" /\ s <= Len(menu)
NextOffer == s' = s + 1 /\ it' = first
NextElement == it' = next[it] /\ UNCHANGED s

\* improves that takes the last of equal scores.
ImprovesOnEqual ==
  /\ Comparing /\ it # 0
  /\ Match(menu[s], nodes[it]) /\ Score(menu[s], nodes[it]) >= best_score
  /\ best_score' = Score(menu[s], nodes[it])
  /\ best' = menu[s]
  /\ IF loop = "choose" THEN NextOffer ELSE NextElement
  /\ UNCHANGED <<pc, rest, list_vars, sort_vars, menu, loop>>

improves ==
  /\ Comparing /\ it # 0
  /\ Match(menu[s], nodes[it]) /\ Score(menu[s], nodes[it]) > best_score
  /\ best_score' = Score(menu[s], nodes[it])
  /\ best' = menu[s]
  /\ IF loop = "choose" THEN NextOffer ELSE NextElement
  /\ UNCHANGED <<pc, rest, list_vars, sort_vars, menu, loop>>

does_not_improve ==
  /\ Comparing /\ it # 0
  /\ Match(menu[s], nodes[it]) => Score(menu[s], nodes[it]) <= best_score
  /\ NextElement
  /\ UNCHANGED <<pc, rest, list_vars, sort_vars, menu, loop, best_score, best>>

next_offer ==
  /\ Comparing /\ it = 0
  /\ NextOffer
  /\ UNCHANGED <<pc, rest, list_vars, sort_vars, menu, loop, best_score, best>>

choose_ends ==
  /\ pc = "choose" /\ s > Len(menu)
  /\ pc' = "done"
  /\ UNCHANGED <<rest, list_vars, sort_vars, choice>>

\* The caller takes the result; redhttp_negotiate_free.
return ==
  /\ pc = "done"
  /\ pc' = "idle"
  /\ nodes' = <<>> /\ next' = <<>> /\ first' = 0
  /\ it' = 0 /\ best' = NULL
  /\ UNCHANGED <<rest, sort_vars, menu, loop, s, best_score>>

\* The steps between a call and its return.
NegotiateStep ==
  \/ redhttp_negotiate_add \/ sort_pass \/ sort_swap \/ sort_advance
  \/ pass_ends \/ sort_ends \/ assertion_fails \/ parse_ends
  \/ improves \/ does_not_improve \/ next_offer \/ choose_ends
-----------------------------------------------------------------------------
(* Properties                                                              *)

NegotiateTypeOK ==
  /\ pc \in {"idle", "parse", "sort", "pass", "choose", "done", "aborted"}
  /\ rest \in Seq(Written)
  /\ nodes \in Seq(Elements)
  /\ next \in [1 .. Len(nodes) -> 0 .. Len(nodes)]
  /\ {first, a, b, c, e, it} \subseteq 0 .. Len(nodes)
  /\ menu \in Menus \cup {<<>>}
  /\ loop \in {"choose", "format"}
  /\ s \in 1 .. Len(menu) + 1
  /\ best_score \in -1 .. 100
  /\ best \in {NULL} \cup Range(menu)

\* While the list is being sorted, the element that was added last is not
\* on the abstract list yet.
Sorting == pc \in {"sort", "pass"}
phase == IF Sorting THEN "parse" ELSE pc
PlaceOf(n) == CHOOSE k \in DOMAIN Chain : Chain[k] = n
order == IF Sorting THEN RemoveAt(Chain, PlaceOf(Len(nodes))) ELSE Chain
list == [k \in DOMAIN order |-> nodes[order[k]]]
i == IF pc # "choose" THEN 1 ELSE IF it = 0 THEN Len(nodes) + 1 ELSE PlaceOf(it)

Abstract == INSTANCE Negotiation WITH pc <- phase

\* The linked list and its sort do what Negotiation says: an element is put
\* in its place among the others, which keep their order, and the loops look
\* at all pairs, in the order of the list (negotiate.c:44-242,
\* utils.c:118-146).
ImplementsNegotiation == Abstract!Spec

\* The result is the first offer of the highest score, and there is none
\* only if no offer is on the list (Negotiation).
ChosenIsBest == Abstract!ChosenIsBest
=============================================================================
