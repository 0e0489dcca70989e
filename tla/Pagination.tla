------------------------------ MODULE Pagination ------------------------------
(***************************************************************************)
(* The pagination component (pagination.js): the current page, the totals  *)
(* it was last told, the window of page numbers it offers as buttons, and  *)
(* which of the First, Back, Next and Last buttons are shown.              *)
(* Its methods are operators from one state of the component to the next.  *)
(***************************************************************************)
EXTENDS Integers

CONSTANT PerPage  \* items on a page

ASSUME PerPageAssumption == PerPage \in Nat \ {0}

NoPage == -1  \* JavaScript's undefined for a page

MaxButtons == 5

Smaller(a, b) == IF a <= b THEN a ELSE b
Larger(a, b)  == IF a >= b THEN a ELSE b

PageCount(items) == (items + PerPage - 1) \div PerPage  \* Math.ceil(items / PerPage)

Buttons == {"First", "Back", "Next", "Last"}

\* displayPages holds consecutive numbers: it is modelled by the set of them,
\* and undefined by the empty set.  display is the set of the buttons shown.
Pager == [initialized: BOOLEAN, displayPages: SUBSET Nat, currentPage: Nat \cup {NoPage},
          totalItems: Nat, totalPages: Nat, display: SUBSET Buttons]

NewPager ==
  [initialized |-> FALSE, displayPages |-> {}, currentPage |-> NoPage,
   totalItems |-> 0, totalPages |-> 0,
   display |-> {"First", "Back"}]

PagesOnly(p, items)  == [p EXCEPT !.totalPages = PageCount(items)]  \* a mutant: the old total stays
SetMetrics(p, items) == [p EXCEPT !.totalItems = items, !.totalPages = PageCount(items)]

-----------------------------------------------------------------------------
(***************************************************************************)
(* setupDisplayPages, when there are more pages than buttons: the window   *)
(* ends two pages after the current one, if there are so many, and starts  *)
(* so that it holds five.                                                  *)
(***************************************************************************)
To(page, pages)   == Smaller(page + 2, pages)
Unshifted(page, pages) == Larger(page - (MaxButtons - (To(page, pages) - page)), 0)  \* a mutant
From(page, pages) == Larger(page - (MaxButtons - (To(page, pages) - page)), 0) + 1

Window(page, pages) ==
  IF pages <= MaxButtons THEN 1..pages
  ELSE From(page, pages)..(From(page, pages) + MaxButtons - 1)

\* A mutant of Shown: Next and Last also on the last page.
OnePageMore(page, pages) ==
  IF pages <= MaxButtons THEN {}
  ELSE {"Next", "Last"} \cup {b \in {"First", "Back"} : page > 1}

Shown(page, pages) ==
  IF pages <= MaxButtons THEN {}
  ELSE {b \in Buttons : \/ b = "First" /\ From(page, pages) > 1
                        \/ b = "Back" /\ page > 1
                        \/ b = "Next" /\ page < pages
                        \/ b = "Last" /\ To(page, pages) < pages}

SetupDisplayPages(p, page) ==
  IF page > p.totalPages THEN p
  ELSE [p EXCEPT !.displayPages = Window(page, p.totalPages), !.display = Shown(page, p.totalPages)]

SetCurrentPage(p, page) ==
  IF p.currentPage = page THEN p
  ELSE [SetupDisplayPages(p, page) EXCEPT !.currentPage = page]

\* Only the first answer sets the component up; it shows page 1.
SetupPagination(p, items) ==
  [SetCurrentPage(SetMetrics(p, items), 1) EXCEPT !.initialized = TRUE]

-----------------------------------------------------------------------------
(***************************************************************************)
(* The window is what a user can reach with one click: it holds the page   *)
(* asked for and only pages that exist, as many as there are buttons; and  *)
(* First and Last are shown exactly when they lead out of it.              *)
(***************************************************************************)
WindowOK(page, pages) ==
  /\ page \in Window(page, pages)
  /\ Window(page, pages) \subseteq 1..pages
  /\ pages > MaxButtons =>
       /\ \E from \in 1..pages : Window(page, pages) = from..(from + MaxButtons - 1)
       /\ "First" \in Shown(page, pages) <=> 1 \notin Window(page, pages)
       /\ "Last" \in Shown(page, pages) <=> pages \notin Window(page, pages)
       /\ "Back" \in Shown(page, pages) <=> page - 1 \in 1..pages
       /\ "Next" \in Shown(page, pages) <=> page + 1 \in 1..pages
=============================================================================
