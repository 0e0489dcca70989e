----------------------------- MODULE StakePoolList -----------------------------
(***************************************************************************)
(* The list of stake pools (listStakePools of stakePools.js and its page   *)
(* StakePools/Index.cshtml) with its Pagination, and the web service that  *)
(* answers it.  Nothing keeps the user from asking for another page while  *)
(* one is being fetched, and the answers may come in any order, as errors, *)
(* or not at all.  Pools are registered and retire in the meantime.        *)
(***************************************************************************)
EXTENDS Pagination

CONSTANTS
  PoolCounts,   \* the numbers of pools there may be
  MaxChanges,   \* bound on the changes of their number
  MaxRequests,  \* bound on the fetches under way at once
  MaxPage       \* bound on the page that is asked for

ASSUME ListAssumption ==
  /\ PoolCounts \subseteq Nat
  /\ MaxChanges \in Nat
  /\ MaxRequests \in Nat \ {0}
  /\ MaxPage \in Nat

VARIABLES
  pools,       \* the number of pools active in the current epoch
  changes,     \* how often it has changed (bound)
  list,        \* the list component
  pager,       \* its pagination
  requests,    \* its calls of /api/v1/stakepool by slot
  overlapped,  \* a page was asked for while another was under way (history)
  broken       \* a call was lost or failed (history)

listVars == <<pools, changes, list, pager, requests, overlapped, broken>>

Slots == 1..MaxRequests

NoTotal == -1  \* JavaScript's undefined for totalStakePools

\* rows holds the positions of the pools shown in the list of all pools.
List == [isLoading: BOOLEAN, initialized: BOOLEAN, errorFetching: BOOLEAN,
         currentPage: (Nat \ {0}) \cup {NoPage}, total: Nat \cup {NoTotal}, rows: SUBSET Nat]

\* A call is sent, answered (ok or failed), or its slot is idle.
Stage   == {"idle", "sent", "ok", "failed"}
Request == [stage: Stage, page: Nat, total: Nat, rows: SUBSET Nat]
Idle       == [stage |-> "idle", page |-> 0, total |-> 0, rows |-> {}]
Sent(page) == [stage |-> "sent", page |-> page, total |-> 0, rows |-> {}]

Waiting == \E i \in Slots : requests[i].stage # "idle"

\* The page as it is once x-init has called fetchStakePoolsPage(1).
Init ==
  /\ pools \in PoolCounts
  /\ changes = 0
  /\ list = [isLoading |-> TRUE, initialized |-> FALSE, errorFetching |-> FALSE,
             currentPage |-> NoPage, total |-> NoTotal, rows |-> {}]
  /\ pager = NewPager
  /\ requests = [i \in Slots |-> IF i = 1 THEN Sent(1) ELSE Idle]
  /\ overlapped = FALSE
  /\ broken = FALSE

-----------------------------------------------------------------------------
(***************************************************************************)
(* The user's clicks.                                                      *)
(***************************************************************************)

\* The fetch of a page begins.
FetchStakePoolsPage(page) ==
  /\ \E i \in Slots :
       /\ requests[i].stage = "idle"
       /\ \A j \in 1..(i - 1) : requests[j].stage # "idle"
       /\ requests' = [requests EXCEPT ![i] = Sent(page)]
  /\ list' = [list EXCEPT !.isLoading = TRUE]
  /\ overlapped' = (overlapped \/ Waiting)

\* A mutant of Click: the callback is not called.
ClickSilently(page) ==
  /\ pager.initialized
  /\ pager.currentPage # page
  /\ page <= MaxPage
  /\ pager' = SetCurrentPage(pager, page)
  /\ UNCHANGED <<pools, changes, list, requests, overlapped, broken>>

\* pagination.setCurrentPage(page, true), from a button that is shown once
\* the pagination is initialized; the same page again does nothing.
Click(page) ==
  /\ pager.initialized
  /\ pager.currentPage # page
  /\ page <= MaxPage
  /\ pager' = SetCurrentPage(pager, page)
  /\ FetchStakePoolsPage(page)
  /\ UNCHANGED <<pools, changes, broken>>

ClickFirst == "First" \in pager.display /\ Click(1)
ClickPage(page) == page \in pager.displayPages /\ Click(page)
ClickNext == "Next" \in pager.display /\ Click(pager.currentPage + 1)
ClickLast == "Last" \in pager.display /\ Click(pager.totalPages)

\* Back goes from the page of the rows, not from the page asked for last.
TwoBack   == list.currentPage - 2  \* a mutant
FromShown == list.currentPage - 1
ClickBack == "Back" \in pager.display /\ Click(FromShown)

-----------------------------------------------------------------------------
(***************************************************************************)
(* The service: StakePoolsController.List, down to the queries.            *)
(***************************************************************************)
Offset(page) == PerPage * (page - 1)

Answer(i, r) == requests' = [requests EXCEPT ![i] = r]

\* The total is a column of the page's rows: without rows it is 0.
TotalSeen(offset) == IF offset < pools THEN pools ELSE 0

ListStakePools(i) ==
  LET offset == Offset(requests[i].page) IN
  /\ requests[i].stage = "sent"
  /\ offset >= 0
  /\ Answer(i, [requests[i] EXCEPT !.stage = "ok", !.total = TotalSeen(offset),
                  !.rows = (offset + 1)..Smaller(offset + PerPage, pools)])
  /\ UNCHANGED <<pools, changes, list, pager, overlapped, broken>>

\* An error on the way, or the offset does not fit the uint it is bound to.
ListFails(i) ==
  /\ requests[i].stage = "sent"
  /\ Answer(i, [requests[i] EXCEPT !.stage = "failed"])
  /\ broken' = TRUE
  /\ UNCHANGED <<pools, changes, list, pager, overlapped>>

PoolsChange ==
  /\ changes < MaxChanges
  /\ pools' \in PoolCounts \ {pools}
  /\ changes' = changes + 1
  /\ UNCHANGED <<list, pager, requests, overlapped, broken>>

-----------------------------------------------------------------------------
(***************************************************************************)
(* The promise callbacks of fetchStakePoolsPage.                           *)
(***************************************************************************)

\* The callback has kept the page it was called with.
LatestClicked(i) == IF pager.initialized THEN pager.currentPage ELSE 1  \* a mutant
PageFetched(i)   == requests[i].page

ReplyOk(i) ==
  /\ requests[i].stage = "ok"
  /\ list' = [list EXCEPT !.isLoading = FALSE, !.initialized = TRUE,
                !.currentPage = PageFetched(i), !.total = requests[i].total,
                !.rows = requests[i].rows]
  /\ pager' = IF pager.initialized THEN SetMetrics(pager, requests[i].total)
              ELSE SetupPagination(pager, requests[i].total)
  /\ Answer(i, Idle)
  /\ UNCHANGED <<pools, changes, overlapped, broken>>

\* The second callback gets the first one's empty array: it takes undefined
\* for the total and throws at data.stakePools.map.
ReplyNotOk(i) ==
  /\ requests[i].stage = "failed"
  /\ list' = [list EXCEPT !.errorFetching = TRUE, !.total = NoTotal]
  /\ Answer(i, Idle)
  /\ UNCHANGED <<pools, changes, pager, overlapped, broken>>

\* The promise is rejected; nothing catches it.
Lose(i) ==
  /\ requests[i].stage # "idle"
  /\ Answer(i, Idle)
  /\ broken' = TRUE
  /\ UNCHANGED <<pools, changes, list, pager, overlapped>>

-----------------------------------------------------------------------------
ClickNow == ClickFirst \/ ClickBack \/ ClickNext \/ ClickLast
              \/ \E page \in pager.displayPages : ClickPage(page)

Reply(i) == ReplyOk(i) \/ ReplyNotOk(i)

Next ==
  \/ ClickNow
  \/ PoolsChange
  \/ \E i \in Slots : ListStakePools(i) \/ ListFails(i) \/ Reply(i) \/ Lose(i)

Spec == Init /\ [][Next]_listVars

\* A call that is neither lost nor failed is answered, and the page's event
\* loop runs its callbacks; the user need not click.
Fairness == \A i \in Slots : WF_listVars(ListStakePools(i)) /\ WF_listVars(Reply(i))

FairSpec == Spec /\ Fairness

-----------------------------------------------------------------------------
TypeOK ==
  /\ pools \in PoolCounts
  /\ changes \in 0..MaxChanges
  /\ list \in List
  /\ pager \in Pager
  /\ pager.initialized => NoPage \notin {pager.currentPage, list.currentPage}
  /\ requests \in [Slots -> Request]
  /\ \A i \in Slots : requests[i].stage = "ok" => requests[i].page # 0
  /\ overlapped \in BOOLEAN
  /\ broken \in BOOLEAN

\* "Showing a to b of n results".
Showing == ((pager.currentPage - 1) * PerPage + 1)
             ..Smaller(pager.currentPage * PerPage, pager.totalItems)

\* A user who waits for each page before asking for the next sees the rows
\* that the line under the table names, through errors, lost calls and
\* changes of the number of pools.
ShowsWhatItSays ==
  list.initialized /\ ~list.isLoading /\ ~overlapped => list.rows = Showing

\* The line under the table names the rows, whenever nothing is under way
\* and nothing has gone wrong.
ShowingIsTrue == list.initialized /\ ~Waiting /\ ~broken => list.rows = Showing

\* While the number of pools stays the same, no click, however many are
\* under way, asks for a page that does not exist: such a page's answer
\* would have the total 0 and the pagination would lose its pages.
NeverBeyondEnd ==
  changes = 0 =>
    \A i \in Slots : requests[i].stage # "idle" =>
      requests[i].page <= Larger(1, PageCount(pools))

\* ... and so the pagination keeps the right totals, and its window and
\* buttons are right for the page it is at.
PagerFits ==
  changes = 0 /\ pager.initialized =>
    /\ pager.totalItems = pools
    /\ pager.currentPage \in 1..pager.totalPages =>
         /\ pager.displayPages = Window(pager.currentPage, pager.totalPages)
         /\ WindowOK(pager.currentPage, pager.totalPages)

\* The inductive invariant behind NeverBeyondEnd and PagerFits: with a steady
\* number of pools every answer brings that number, every page asked for and
\* shown exists (or is page 0 of Back, or page 1 of no pools), and the buttons
\* are those of the pagination's page.
LastPage == Larger(1, PageCount(pools))

SteadyInv ==
  changes = 0 =>
    /\ list.currentPage <= LastPage
    /\ \A i \in Slots :
         /\ requests[i].stage # "idle" => requests[i].page <= LastPage
         /\ requests[i].stage = "ok" => requests[i].page >= 1 /\ requests[i].total = pools
    /\ ~pager.initialized => pager = NewPager
    /\ pager.initialized =>
         /\ pager.totalItems = pools
         /\ pager.totalPages = PageCount(pools)
         /\ pager.currentPage \in 0..LastPage
         /\ pager.currentPage <= pager.totalPages =>
              /\ pager.displayPages = Window(pager.currentPage, pager.totalPages)
              /\ pager.display = Shown(pager.currentPage, pager.totalPages)
         /\ pager.currentPage > pager.totalPages =>
              pager.displayPages = {} /\ pager.display \subseteq {"First", "Back"}

\* The inductive invariant behind ShowsWhatItSays: the rows of an answer are
\* those its page and its total name; and as long as nothing has overlapped,
\* the one call under way is for the page the pagination is at.
RowsOf(page, items) == ((page - 1) * PerPage + 1)..Smaller(page * PerPage, items)

AloneInv ==
  /\ \A i \in Slots : requests[i].stage = "ok" =>
       requests[i].rows = RowsOf(requests[i].page, requests[i].total)
  /\ list.initialized <=> pager.initialized
  /\ ~pager.initialized => pager = NewPager
  /\ ~overlapped =>
       /\ \A i, j \in Slots :
            requests[i].stage # "idle" /\ requests[j].stage # "idle" => i = j
       /\ \A i \in Slots : requests[i].stage # "idle" =>
            /\ list.isLoading
            /\ requests[i].page = (IF pager.initialized THEN pager.currentPage ELSE 1)
       /\ ShowsWhatItSays

\* The list implements what PagedList promises: however many pages are under
\* way, and whatever fails or is lost, the rows, their page and the total that
\* list and pagination keep apart are those of one answer.
OnTheWay(stage) == {i \in Slots : requests[i].stage = stage}

AskedPages == {requests[i].page : i \in OnTheWay("sent")}

Answers == {[page |-> requests[i].page, rows |-> requests[i].rows, total |-> requests[i].total] :
              i \in OnTheWay("ok")}

Screen == [page |-> list.currentPage, rows |-> list.rows, total |-> pager.totalItems]

Promise == INSTANCE PagedList WITH
  Pages <- 0..MaxPage, asked <- AskedPages, answers <- Answers, screen <- Screen

KeepsSnapshots == Promise!Spec

\* A page that is asked for with nothing else under way arrives.
PageArrives ==
  [](~broken /\ ~overlapped) =>
    \A n \in UNION {1..PageCount(c) : c \in PoolCounts} :
      (pager.currentPage = n) ~> (list.currentPage = n \/ pager.currentPage # n)
=============================================================================
