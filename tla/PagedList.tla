------------------------------- MODULE PagedList -------------------------------
(***************************************************************************)
(* What the list of stake pools promises to a user whose calls overlap:    *)
(* the rows on the screen, the page they count as and the number of results*)
(* are at every moment of one answer, and the answer is a page of the list *)
(* as it was at one moment since the page was asked for.  In what order the*)
(* answers come is not promised.                                           *)
(***************************************************************************)
EXTENDS Integers

CONSTANTS
  PerPage,     \* pools on a page
  PoolCounts,  \* the numbers of pools there may be
  Pages        \* the numbers of pages that may be asked for

VARIABLES
  pools,   \* the number of pools in the list
  asked,   \* the pages that are asked for and not answered
  answers, \* the answers on their way to the screen
  screen   \* the answer on the screen

vars == <<pools, asked, answers, screen>>

\* The positions of a page in a list of n pools; without any, n is not known.
Positions(page, n) == {i \in 1..n : PerPage * (page - 1) < i /\ i <= PerPage * page}

Snapshot(page, n) ==
  [page |-> page, rows |-> Positions(page, n),
   total |-> IF Positions(page, n) = {} THEN 0 ELSE n]

Blank == [page |-> -1, rows |-> {}, total |-> 0]

Init ==
  /\ pools \in PoolCounts
  /\ asked = {1}
  /\ answers = {}
  /\ screen = Blank

Change ==
  /\ pools' \in PoolCounts
  /\ UNCHANGED <<asked, answers, screen>>

Ask ==
  /\ \E page \in Pages : asked' = asked \cup {page}
  /\ UNCHANGED <<pools, answers, screen>>

\* There is no page 0.  A page that is asked for several times may stay asked for.
Answer ==
  /\ \E page \in asked \ {0} :
       /\ answers' = answers \cup {Snapshot(page, pools)}
       /\ asked' \in {asked, asked \ {page}}
  /\ UNCHANGED <<pools, screen>>

Show ==
  /\ \E a \in answers :
       /\ screen' = a
       /\ answers' \in {answers, answers \ {a}}
  /\ UNCHANGED <<pools, asked>>

Lose ==
  /\ asked' \subseteq asked
  /\ answers' \subseteq answers
  /\ UNCHANGED <<pools, screen>>

Next == Change \/ Ask \/ Answer \/ Show \/ Lose

Spec == Init /\ [][Next]_vars
=============================================================================
