----------------------------- MODULE OneTimeLink -----------------------------
(***************************************************************************)
(* What the service promises about its links, whatever the code looks      *)
(* like: a link is created with a budget of views, every view is handed    *)
(* out once, and a link that is gone (used up or expired) never answers    *)
(* again.  SecretStore implements this specification; each action here is  *)
(* one indivisible step, although the code needs several.                  *)
(***************************************************************************)
EXTENDS Integers, FiniteSets, TLAPS

CONSTANTS
    Ids,        \* every id a link can have
    CallerIds,  \* the ids a caller of AddEntry may choose itself
    Budgets,    \* the numbers of views a link can be created with
    Capacity    \* how many links may be live at once

VARIABLES
    live,    \* the links that still answer
    budget,  \* budget[i]: the views link i was created with, 0 if it never was
    views    \* views[i]: how often the secret of link i was handed out

linkVars == <<live, budget, views>>

Init ==
    /\ live = {}
    /\ budget = [i \in Ids |-> 0]
    /\ views = [i \in Ids |-> 0]

\* An id is given out once; only a caller that names an id itself can have
\* it reused, replacing what the link held.
Create(i, n) ==
    /\ i \in CallerIds \/ budget[i] = 0
    /\ i \in live \/ Cardinality(live) < Capacity
    /\ live' = live \cup {i}
    /\ budget' = [budget EXCEPT ![i] = n]
    /\ views' = [views EXCEPT ![i] = 0]

\* A live link hands out its secret once more; the last view ends it.
View(i) ==
    /\ i \in live
    /\ views[i] < budget[i]
    /\ views' = [views EXCEPT ![i] = views[i] + 1]
    /\ live' = IF views[i] + 1 < budget[i] THEN live ELSE live \ {i}
    /\ UNCHANGED budget

Expire(i) ==
    /\ i \in live
    /\ live' = live \ {i}
    /\ UNCHANGED <<budget, views>>

Next ==
    \E i \in Ids :
        \/ \E n \in Budgets : Create(i, n)
        \/ View(i)
        \/ Expire(i)

Spec == Init /\ [][Next]_linkVars

-----------------------------------------------------------------------------
(* What follows from it *)

\* A link that is gone, used up or expired, is gone for good: it never answers
\* again, nobody sees its secret once more, and no other secret gets its place.
\* (Only of an id that a caller chose can the latter not be said.)
GoneForGood ==
    [][\A i \in Ids \ CallerIds :
          budget[i] # 0 /\ i \notin live =>
              /\ i \notin live'
              /\ views'[i] = views[i] /\ budget'[i] = budget[i]]_linkVars

\* Every id has its budget and its views.
LEMMA Numbered == Spec => [](DOMAIN budget = Ids /\ DOMAIN views = Ids)
  <1>1. Init => DOMAIN budget = Ids /\ DOMAIN views = Ids
    BY DEF Init
  <1>2. /\ DOMAIN budget = Ids /\ DOMAIN views = Ids
        /\ [Next]_linkVars
        => (DOMAIN budget = Ids /\ DOMAIN views = Ids)'
    BY DEF Next, Create, View, Expire, linkVars
  <1>. QED
    BY <1>1, <1>2, PTL DEF Spec

\* For every number of links, budgets and callers.
THEOREM GoneStaysGone == Spec => GoneForGood
  <1>1. ASSUME DOMAIN budget = Ids, DOMAIN views = Ids, [Next]_linkVars,
               NEW i \in Ids \ CallerIds, budget[i] # 0, i \notin live
        PROVE  i \notin live' /\ views'[i] = views[i] /\ budget'[i] = budget[i]
    <2>1. ASSUME NEW j \in Ids, NEW n \in Budgets, Create(j, n)
          PROVE  i # j
      BY <1>1, <2>1 DEF Create
    <2>. QED
      BY <1>1, <2>1 DEF Next, Create, View, Expire, linkVars
  <1>2. /\ DOMAIN budget = Ids /\ DOMAIN views = Ids
        /\ [Next]_linkVars
        => [\A i \in Ids \ CallerIds :
               budget[i] # 0 /\ i \notin live =>
                   /\ i \notin live'
                   /\ views'[i] = views[i] /\ budget'[i] = budget[i]]_linkVars
    BY <1>1
  <1>. QED
    BY <1>2, Numbered, PTL DEF Spec, GoneForGood
=============================================================================
