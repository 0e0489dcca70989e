------------------------- MODULE StakePoolList_proofs -------------------------
(***************************************************************************)
(* Theorems about Pagination, for any number of pages, and about           *)
(* StakePoolList, for any numbers of pools, any size of a page and any     *)
(* number of calls under way at once.                                      *)
(***************************************************************************)
EXTENDS StakePoolList, TLAPS

USE PerPageAssumption, ListAssumption

\* Whichever of the existing pages is asked for, and however many there are,
\* the window and the buttons of pagination.js are right.
THEOREM WindowIsRight ==
  ASSUME NEW pages \in Nat, NEW page \in 1..pages
  PROVE  WindowOK(page, pages)
<1> USE DEF Window, Shown, MaxButtons
<1>1. CASE pages <= 5
  BY <1>1 DEF WindowOK
<1>2. CASE pages > 5
  <2>1. To(page, pages) \in page..pages /\ To(page, pages) <= page + 2
    BY DEF To, Smaller
  <2>2. From(page, pages) \in 1..(pages - 4)
    BY <1>2 DEF From, To, Larger, Smaller
  <2>3. page \in From(page, pages)..(From(page, pages) + 4)
    BY <1>2 DEF From, To, Larger, Smaller
  <2>4. To(page, pages) < pages <=> From(page, pages) + 4 < pages
    BY <1>2 DEF From, To, Larger, Smaller
  <2> DEFINE f == From(page, pages)
  <2>5. Window(page, pages) = f..(f + 4) /\ f \in 1..pages
    BY <1>2, <2>2
  <2>6. Window(page, pages) \subseteq 1..pages
    BY <2>2, <2>5
  <2>7. /\ f > 1 <=> 1 \notin f..(f + 4)
        /\ To(page, pages) < pages <=> pages \notin f..(f + 4)
    <3> HIDE DEF f
    <3>1. QED
      BY <1>2, <2>2, <2>4 DEF f
  <2>8. \E from \in 1..pages : Window(page, pages) = from..(from + MaxButtons - 1)
    BY <1>2, <2>5
  <2>9. /\ "First" \in Shown(page, pages) <=> f > 1
        /\ "Back" \in Shown(page, pages) <=> page > 1
        /\ "Next" \in Shown(page, pages) <=> page < pages
        /\ "Last" \in Shown(page, pages) <=> To(page, pages) < pages
    BY <1>2 DEF Buttons
  <2>10. page > 1 <=> page - 1 \in 1..pages
    OBVIOUS
  <2>11. page < pages <=> page + 1 \in 1..pages
    OBVIOUS
  <2> HIDE DEF f, Window, Shown
  <2>12. /\ "First" \in Shown(page, pages) <=> 1 \notin Window(page, pages)
         /\ "Last" \in Shown(page, pages) <=> pages \notin Window(page, pages)
    BY <2>5, <2>7, <2>9, Zenon
  <2>13. /\ "Back" \in Shown(page, pages) <=> page - 1 \in 1..pages
         /\ "Next" \in Shown(page, pages) <=> page + 1 \in 1..pages
    BY <2>9, <2>10, <2>11, Zenon
  <2>14. page \in Window(page, pages)
    BY <2>3, <2>5 DEF f
  <2>15. QED
    BY <2>6, <2>8, <2>12, <2>13, <2>14, Zenon DEF WindowOK
<1>3. QED
  BY <1>1, <1>2

\* Page 0, which Back may ask for, has a window of existing pages too.
LEMMA WindowWithin ==
  ASSUME NEW pages \in Nat, NEW page \in 0..pages
  PROVE  Window(page, pages) \subseteq 1..pages
BY DEF Window, From, To, Larger, Smaller, MaxButtons

\* Math.ceil: the least number of pages that hold all items.
LEMMA PageCountType == \A items \in Nat : PageCount(items) \in Nat
BY DEF PageCount

LEMMA PageCountHolds ==
  ASSUME NEW items \in Nat
  PROVE  PerPage * PageCount(items) <= items + PerPage - 1
BY DEF PageCount

\* A page that exists has a first item.
LEMMA PageHasItems ==
  ASSUME NEW items \in Nat, NEW page \in 1..PageCount(items)
  PROVE  PerPage * (page - 1) < items
<1> DEFINE n == PageCount(items)
<1>1. n \in Nat /\ page <= n /\ page \in Nat \ {0}
  BY PageCountType
<1>2. PerPage * n <= items + PerPage - 1
  BY PageCountHolds
<1> HIDE DEF n
<1>3. PerPage * (n - page) >= 0
  BY <1>1
<1>4. PerPage * (n - page) = PerPage * n - PerPage * page
  BY <1>1
<1>5. PerPage * (page - 1) = PerPage * page - PerPage
  BY <1>1
<1>6. PerPage * page \in Int /\ PerPage * n \in Int
  BY <1>1
<1>7. QED
  BY <1>2, <1>3, <1>4, <1>5, <1>6

\* What is on a page, without a product of two numbers.
LEMMA RowsOfPage ==
  ASSUME NEW items \in Nat, NEW page \in Nat \ {0}
  PROVE  /\ PerPage * (page - 1) \in Nat
         /\ PerPage * page = PerPage * (page - 1) + PerPage
         /\ \A i \in Int : i \in RowsOf(page, items) <=>
              i \in 1..items /\ PerPage * (page - 1) < i /\ i <= PerPage * page
<1> DEFINE o == PerPage * (page - 1)
<1>1. o \in Nat /\ PerPage * page = o + PerPage
  <2>1. page - 1 \in Nat
    OBVIOUS
  <2>2. QED
    BY <2>1
<1>2. RowsOf(page, items) = (o + 1)..Smaller(o + PerPage, items)
  BY <1>1 DEF RowsOf
<1> HIDE DEF o
<1>3. \A i \in Int : i \in RowsOf(page, items) <=> i \in 1..items /\ o < i /\ i <= o + PerPage
  BY <1>1, <1>2 DEF Smaller
<1>4. QED
  BY <1>1, <1>3 DEF o

\* An earlier page ends before a later one begins.
LEMMA PagesInOrder ==
  ASSUME NEW p \in Nat \ {0}, NEW q \in Nat \ {0}, p < q
  PROVE  PerPage * p <= PerPage * (q - 1)
<1> DEFINE d == q - 1 - p
<1>1. d \in Nat /\ q - 1 = p + d
  OBVIOUS
<1> HIDE DEF d
<1>2. PerPage * (p + d) = PerPage * p + PerPage * d /\ PerPage * d \in Nat /\ PerPage * p \in Nat
  BY <1>1
<1>3. QED
  BY <1>1, <1>2

\* The pages divide the pools among them, whatever the number of pools and the
\* size of a page: each page has some, and each pool is on exactly one page.
THEOREM PagesPartition ==
  ASSUME NEW items \in Nat
  PROVE  /\ \A page \in 1..PageCount(items) : RowsOf(page, items) # {} /\ RowsOf(page, items) \subseteq 1..items
         /\ \A i \in 1..items : \E page \in 1..PageCount(items) : i \in RowsOf(page, items)
         /\ \A p, q \in 1..PageCount(items) : p # q => RowsOf(p, items) \cap RowsOf(q, items) = {}
<1>0. PageCount(items) \in Nat
  BY PageCountType
<1>1. ASSUME NEW page \in 1..PageCount(items)
      PROVE  RowsOf(page, items) # {} /\ RowsOf(page, items) \subseteq 1..items
  <2> DEFINE o == PerPage * (page - 1)
  <2>1. page \in Nat \ {0} /\ o < items
    BY <1>0, PageHasItems
  <2>2. /\ o \in Nat /\ PerPage * page = o + PerPage
        /\ \A i \in Int : i \in RowsOf(page, items) <=> i \in 1..items /\ o < i /\ i <= o + PerPage
    BY <2>1, RowsOfPage
  <2>3. RowsOf(page, items) \subseteq Int
    BY DEF RowsOf
  <2> HIDE DEF o
  <2>4. o + 1 \in RowsOf(page, items)
    BY <2>1, <2>2
  <2>5. QED
    BY <2>2, <2>3, <2>4
<1>2. ASSUME NEW i \in 1..items PROVE \E page \in 1..PageCount(items) : i \in RowsOf(page, items)
  <2> DEFINE k == (i - 1) \div PerPage
             page == k + 1
             o == PerPage * k
  <2>1. k \in Nat /\ o \in Nat /\ o <= i - 1 /\ i - 1 < o + PerPage
    OBVIOUS
  <2> HIDE DEF k
  <2>2. page \in Nat \ {0} /\ page - 1 = k
    BY <2>1
  <2>3. page <= PageCount(items)
    <3> DEFINE n == PageCount(items)
               b == PerPage * n
    <3>1. n \in Nat /\ b \in Nat /\ items + PerPage - 1 < b + PerPage
      BY <1>0 DEF PageCount
    <3>2. CASE n < page
      <4> DEFINE d == k - n
      <4>1. d \in Nat /\ k = n + d
        BY <2>1, <3>1, <3>2
      <4> HIDE DEF d, n
      <4>2. o = b + PerPage * d /\ PerPage * d \in Nat
        BY <3>1, <4>1
      <4> HIDE DEF o, b
      <4>3. QED
        BY <2>1, <3>1, <4>2
    <3>3. QED
      BY <2>2, <3>1, <3>2
  <2>4. i \in RowsOf(page, items)
    <3>1. /\ PerPage * page = PerPage * (page - 1) + PerPage
          /\ i \in RowsOf(page, items) <=>
               i \in 1..items /\ PerPage * (page - 1) < i /\ i <= PerPage * page
      BY <2>2, RowsOfPage
    <3>2. PerPage * (page - 1) = o
      BY <2>2
    <3> HIDE DEF o, page
    <3>3. QED
      BY <2>1, <3>1, <3>2
  <2>5. QED
    BY <1>0, <2>2, <2>3, <2>4
<1>3. ASSUME NEW p \in 1..PageCount(items), NEW q \in 1..PageCount(items), p < q
      PROVE  RowsOf(p, items) \cap RowsOf(q, items) = {}
  <2>1. p \in Nat \ {0} /\ q \in Nat \ {0} /\ RowsOf(p, items) \subseteq Int
    BY <1>0 DEF RowsOf
  <2> DEFINE a == PerPage * p
             b == PerPage * (q - 1)
  <2>2. a <= b
    BY <1>3, <2>1, PagesInOrder
  <2>3. \A i \in Int : i \in RowsOf(p, items) => i <= a
    BY <2>1, RowsOfPage
  <2>4. \A i \in Int : i \in RowsOf(q, items) => b < i
    BY <2>1, RowsOfPage
  <2>5. a \in Int /\ b \in Int
    BY <2>1
  <2> HIDE DEF a, b
  <2>6. QED
    BY <2>1, <2>2, <2>3, <2>4, <2>5
<1>4. ASSUME NEW p \in 1..PageCount(items), NEW q \in 1..PageCount(items), p # q
      PROVE  RowsOf(p, items) \cap RowsOf(q, items) = {}
  <2>1. p < q \/ q < p
    BY <1>0, <1>4
  <2>2. QED
    BY <1>3, <2>1
<1>5. QED
  BY <1>1, <1>2, <1>4

-----------------------------------------------------------------------------
\* The methods of the pagination return paginations.
LEMMA PagerTypes ==
  ASSUME NEW p \in Pager, NEW page \in Nat, NEW items \in Nat
  PROVE  /\ SetMetrics(p, items) \in Pager
         /\ SetCurrentPage(p, page) \in Pager
         /\ SetCurrentPage(p, page).initialized = p.initialized
         /\ SetupPagination(p, items) \in Pager
<1>1. \A q \in Pager : SetupDisplayPages(q, page) \in Pager
                       /\ SetupDisplayPages(q, page).initialized = q.initialized
  <2> SUFFICES ASSUME NEW q \in Pager
               PROVE  SetupDisplayPages(q, page) \in Pager
                      /\ SetupDisplayPages(q, page).initialized = q.initialized
    OBVIOUS
  <2>1. Window(page, q.totalPages) \in SUBSET Nat
    BY DEF Window, From, To, Larger, Smaller, MaxButtons, Pager
  <2>2. Shown(page, q.totalPages) \in SUBSET Buttons
    BY DEF Shown
  <2>3. QED
    BY <2>1, <2>2 DEF SetupDisplayPages, Pager
<1>2. \A q \in Pager : SetupDisplayPages(q, 1) \in Pager
  <2> SUFFICES ASSUME NEW q \in Pager PROVE SetupDisplayPages(q, 1) \in Pager
    OBVIOUS
  <2>1. Window(1, q.totalPages) \in SUBSET Nat
    BY DEF Window, From, To, Larger, Smaller, MaxButtons, Pager
  <2>2. Shown(1, q.totalPages) \in SUBSET Buttons
    BY DEF Shown
  <2>3. QED
    BY <2>1, <2>2 DEF SetupDisplayPages, Pager
<1>3. SetMetrics(p, items) \in Pager
  BY PageCountType DEF SetMetrics, Pager
<1>4. SetCurrentPage(p, page) \in Pager /\ SetCurrentPage(p, page).initialized = p.initialized
  BY <1>1 DEF SetCurrentPage, Pager
<1>5. SetCurrentPage(SetMetrics(p, items), 1) \in Pager
  BY <1>2, <1>3 DEF SetCurrentPage, Pager
<1>6. QED
  BY <1>3, <1>4, <1>5 DEF SetupPagination, Pager

LEMMA RequestTypes == Idle \in Request /\ \A page \in Nat : Sent(page) \in Request
BY DEF Idle, Sent, Request, Stage

\* A click asks for one page more: everything else is as it was.
LEMMA ClickIsOne ==
  ASSUME TypeOK, NEW page \in Nat, Click(page)
  PROVE  \E i \in Slots :
           /\ requests[i].stage = "idle"
           /\ requests' = [requests EXCEPT ![i] = Sent(page)]
           /\ requests' \in [Slots -> Request]
BY RequestTypes DEF Click, FetchStakePoolsPage, TypeOK

\* Whatever the button, the page asked for is a number.
LEMMA ClickTarget ==
  ASSUME TypeOK, ClickNow
  PROVE  \E page \in Nat : Click(page)
<1>1. CASE ClickFirst
  BY <1>1 DEF ClickFirst
<1>2. CASE ClickBack
  <2>1. pager.initialized /\ FromShown \in Nat
    BY <1>2 DEF ClickBack, Click, FromShown, TypeOK, List
  <2>2. QED
    BY <1>2, <2>1 DEF ClickBack
<1>3. CASE ClickNext
  <2>1. pager.initialized /\ pager.currentPage \in Nat
    BY <1>3 DEF ClickNext, Click, TypeOK, Pager
  <2>2. QED
    BY <1>3, <2>1 DEF ClickNext
<1>4. CASE ClickLast
  BY <1>4 DEF ClickLast, TypeOK, Pager
<1>5. ASSUME NEW page \in pager.displayPages, ClickPage(page) PROVE \E q \in Nat : Click(q)
  BY <1>5 DEF ClickPage, TypeOK, Pager
<1>6. QED
  BY <1>1, <1>2, <1>3, <1>4, <1>5 DEF ClickNow

LEMMA TypeInit == Init => TypeOK
<1> SUFFICES ASSUME Init PROVE TypeOK
  OBVIOUS
<1>1. NewPager \in Pager
  BY DEF NewPager, Pager, Buttons
<1>2. /\ requests \in [Slots -> Request]
      /\ \A i \in Slots : requests[i].stage # "ok"
  BY RequestTypes DEF Init, Idle, Sent
<1>3. list \in List
  BY DEF Init, List, NoPage, NoTotal
<1>4. pager \in Pager /\ ~pager.initialized
  BY <1>1 DEF Init, NewPager
<1>5. pools \in PoolCounts /\ changes = 0
  BY DEF Init
<1>6. overlapped \in BOOLEAN /\ broken \in BOOLEAN
  BY DEF Init
<1>7. changes \in 0..MaxChanges
  BY <1>5
<1>8. QED
  BY <1>2, <1>3, <1>4, <1>5, <1>6, <1>7 DEF TypeOK

LEMMA TypeNext == TypeOK /\ [Next]_listVars => TypeOK'
<1> SUFFICES ASSUME TypeOK, [Next]_listVars PROVE TypeOK'
  OBVIOUS
<1>1. CASE ClickNow
  <2>1. PICK page \in Nat : Click(page)
    BY <1>1, ClickTarget
  <2>2. PICK i \in Slots : /\ requests' = [requests EXCEPT ![i] = Sent(page)]
                           /\ requests' \in [Slots -> Request]
    BY <2>1, ClickIsOne
  <2>3. \A j \in Slots : requests'[j].stage = "ok" => requests'[j].page # 0
    BY <2>2 DEF TypeOK, Sent
  <2>4. pager' \in Pager /\ pager'.currentPage = page
    <3>1. pager' = SetCurrentPage(pager, page) /\ pager \in Pager
      BY <2>1 DEF Click, TypeOK
    <3>2. pager' \in Pager
      BY <3>1, PagerTypes, PageCountType
    <3>3. pager'.currentPage = page
      BY <3>1 DEF SetCurrentPage, SetupDisplayPages, Pager
    <3>4. QED
      BY <3>2, <3>3
  <2>5. list' \in List /\ list'.currentPage = list.currentPage /\ pager.initialized
    BY <2>1 DEF Click, FetchStakePoolsPage, TypeOK, List
  <2>6. QED
    BY <2>1, <2>2, <2>3, <2>4, <2>5 DEF Click, FetchStakePoolsPage, TypeOK, NoPage
<1>2. CASE PoolsChange
  BY <1>2 DEF PoolsChange, TypeOK
<1>3. ASSUME NEW i \in Slots, ListStakePools(i) PROVE TypeOK'
  <2> DEFINE offset == Offset(requests[i].page)
             rows == (offset + 1)..Smaller(offset + PerPage, pools)
  <2>1. pools \in Nat /\ requests[i] \in Request /\ offset \in Int /\ offset >= 0
    BY <1>3 DEF ListStakePools, TypeOK, Offset, Request
  <2>2. TotalSeen(offset) \in Nat /\ rows \in SUBSET Nat
    BY <2>1 DEF TotalSeen, Smaller
  <2>3. requests[i].page # 0
    BY <2>1 DEF Offset
  <2> HIDE DEF offset, rows
  <2>4. requests' = [requests EXCEPT ![i] = [requests[i] EXCEPT !.stage = "ok",
                       !.total = TotalSeen(offset), !.rows = rows]]
    BY <1>3 DEF ListStakePools, Answer, offset, rows
  <2>5. requests' \in [Slots -> Request]
        /\ \A j \in Slots : requests'[j].stage = "ok" => requests'[j].page # 0
    BY <2>1, <2>2, <2>3, <2>4 DEF TypeOK, Request, Stage
  <2>6. QED
    BY <1>3, <2>5 DEF ListStakePools, TypeOK
<1>4. ASSUME NEW i \in Slots, ListFails(i) PROVE TypeOK'
  BY <1>4 DEF ListFails, Answer, TypeOK, Request, Stage
<1>5. ASSUME NEW i \in Slots, ReplyOk(i) PROVE TypeOK'
  <2>1. requests[i] \in Request /\ requests[i].page # 0
    BY <1>5 DEF ReplyOk, TypeOK
  <2>2. requests' \in [Slots -> Request]
        /\ \A j \in Slots : requests'[j].stage = "ok" => requests'[j].page # 0
    BY <1>5, RequestTypes DEF ReplyOk, Answer, TypeOK, Idle
  <2>3. list' \in List /\ list'.currentPage # NoPage
    <3>1. /\ requests[i].page \in Nat \ {0} /\ requests[i].total \in Nat
          /\ requests[i].rows \in SUBSET Nat
      BY <2>1 DEF Request
    <3>2. list' \in List /\ list'.currentPage = requests[i].page
      BY <1>5, <3>1 DEF ReplyOk, PageFetched, TypeOK, List
    <3>3. QED
      BY <3>1, <3>2 DEF NoPage
  <2>4. pager' \in Pager
    BY <1>5, <2>1, PagerTypes DEF ReplyOk, TypeOK, Request
  <2>5. pager'.currentPage # NoPage
    <3>1. CASE pager.initialized
      BY <1>5, <3>1 DEF ReplyOk, TypeOK, Pager, SetMetrics
    <3>2. CASE ~pager.initialized
      <4>1. pager'.currentPage = 1
        BY <1>5, <3>2 DEF ReplyOk, TypeOK, Pager, SetMetrics, SetupPagination, SetCurrentPage,
           SetupDisplayPages
      <4>2. QED
        BY <4>1 DEF NoPage
    <3>3. QED
      BY <3>1, <3>2
  <2>6. QED
    BY <1>5, <2>2, <2>3, <2>4, <2>5 DEF ReplyOk, TypeOK
<1>6. ASSUME NEW i \in Slots, ReplyNotOk(i) PROVE TypeOK'
  BY <1>6, RequestTypes DEF ReplyNotOk, Answer, TypeOK, List, Idle
<1>7. ASSUME NEW i \in Slots, Lose(i) PROVE TypeOK'
  BY <1>7, RequestTypes DEF Lose, Answer, TypeOK, Idle
<1>8. CASE UNCHANGED listVars
  BY <1>8 DEF listVars, TypeOK
<1>9. QED
  BY <1>1, <1>2, <1>3, <1>4, <1>5, <1>6, <1>7, <1>8 DEF Next, Reply

\* Every variable of the list keeps to its type and its bound.
THEOREM TypeCorrect == Spec => []TypeOK
<1>1. QED
  BY TypeInit, TypeNext, PTL DEF Spec

-----------------------------------------------------------------------------
(***************************************************************************)
(* A user who waits sees the rows that the line under the table names.     *)
(***************************************************************************)
OneWaits == \A i, j \in Slots :
              requests[i].stage # "idle" /\ requests[j].stage # "idle" => i = j

AskedFor == IF pager.initialized THEN pager.currentPage ELSE 1

LoadsPage == \A i \in Slots : requests[i].stage # "idle" =>
               list.isLoading /\ requests[i].page = AskedFor

AnswersOK == \A i \in Slots : requests[i].stage = "ok" =>
               requests[i].rows = RowsOf(requests[i].page, requests[i].total)

PagerOK == /\ list.initialized <=> pager.initialized
           /\ ~pager.initialized => pager = NewPager

LEMMA AloneByPart ==
  AloneInv <=> /\ AnswersOK
               /\ PagerOK
               /\ ~overlapped => OneWaits /\ LoadsPage /\ ShowsWhatItSays
BY DEF AloneInv, AnswersOK, PagerOK, OneWaits, LoadsPage, AskedFor

\* What the service answers: the total it can see names the rows.
LEMMA AnswerNamesRows ==
  ASSUME NEW page \in Nat, page # 0, pools \in Nat
  PROVE  (Offset(page) + 1)..Smaller(Offset(page) + PerPage, pools)
           = RowsOf(page, TotalSeen(Offset(page)))
<1>1. /\ Offset(page) \in Int
      /\ (page - 1) * PerPage = Offset(page)
      /\ page * PerPage = Offset(page) + PerPage
  BY DEF Offset
<1>2. Offset(page) >= 0
  <2>1. page - 1 \in Nat
    OBVIOUS
  <2>2. QED
    BY <2>1 DEF Offset
<1> DEFINE o == Offset(page)
<1>3. RowsOf(page, TotalSeen(o)) = (o + 1)..Smaller(o + PerPage, TotalSeen(o))
  BY <1>1 DEF RowsOf
<1> HIDE DEF o
<1>4. o \in Int /\ o >= 0
  BY <1>1, <1>2 DEF o
<1>5. (o + 1)..Smaller(o + PerPage, pools) = (o + 1)..Smaller(o + PerPage, TotalSeen(o))
  BY <1>4 DEF TotalSeen, Smaller
<1>6. QED
  BY <1>3, <1>5 DEF o

\* A slot that becomes idle, or a call that fails, disturbs no other call.
LEMMA QuietReply ==
  ASSUME TypeOK, AnswersOK, NEW i \in Slots, requests[i].stage # "idle",
         NEW r, Answer(i, r), r.stage \in {"idle", "failed"}, r.stage # "idle" => r.page = requests[i].page
  PROVE  /\ AnswersOK'
         /\ OneWaits => OneWaits'
         /\ \A j \in Slots : requests'[j].stage # "idle" =>
              requests[j].stage # "idle" /\ requests'[j].page = requests[j].page
<1>1. \A j \in Slots : requests'[j] = IF j = i THEN r ELSE requests[j]
  BY DEF Answer, TypeOK
<1>2. QED
  BY <1>1 DEF AnswersOK, OneWaits

LEMMA AloneInit == Init => AloneInv
<1> SUFFICES ASSUME Init PROVE AloneInv
  OBVIOUS
<1>1. \A i \in Slots : requests[i] = IF i = 1 THEN Sent(1) ELSE Idle
  BY DEF Init
<1>2. AnswersOK /\ OneWaits
  BY <1>1 DEF AnswersOK, OneWaits, Sent, Idle
<1>3. ~list.initialized /\ list.isLoading /\ pager = NewPager /\ ~pager.initialized
  BY DEF Init, NewPager
<1>4. LoadsPage
  BY <1>1, <1>3 DEF LoadsPage, AskedFor, Sent, Idle
<1>5. QED
  BY <1>2, <1>3, <1>4, AloneByPart DEF PagerOK, ShowsWhatItSays

LEMMA AloneNext == TypeOK /\ AloneInv /\ [Next]_listVars => AloneInv'
<1> SUFFICES ASSUME TypeOK, AloneInv, [Next]_listVars
             PROVE  /\ AnswersOK'
                    /\ PagerOK'
                    /\ ~overlapped' => OneWaits' /\ LoadsPage' /\ ShowsWhatItSays'
  BY DEF AloneInv, AnswersOK, PagerOK, OneWaits, LoadsPage, AskedFor
<1>1. /\ AnswersOK
      /\ PagerOK
      /\ ~overlapped => OneWaits /\ LoadsPage /\ ShowsWhatItSays
  BY AloneByPart
<1> DEFINE Goal == /\ AnswersOK'
                   /\ PagerOK'
                   /\ ~overlapped' => OneWaits' /\ LoadsPage' /\ ShowsWhatItSays'
<1>2. CASE ClickNow
  <2>1. PICK page \in Nat : Click(page)
    BY <1>2, ClickTarget
  <2>2. PICK i \in Slots : /\ requests[i].stage = "idle"
                           /\ requests' = [requests EXCEPT ![i] = Sent(page)]
    BY <2>1, ClickIsOne
  <2>3. \A j \in Slots : requests'[j] = IF j = i THEN Sent(page) ELSE requests[j]
    BY <2>2 DEF TypeOK
  <2>4. pager.initialized /\ pager'.initialized /\ pager'.currentPage = page
    <3>1. pager' = SetCurrentPage(pager, page) /\ pager \in Pager /\ pager.initialized
      BY <2>1 DEF Click, TypeOK
    <3>2. pager'.initialized
      BY <3>1, PagerTypes, PageCountType
    <3>3. pager'.currentPage = page
      BY <3>1 DEF SetCurrentPage, SetupDisplayPages, Pager
    <3>4. QED
      BY <3>1, <3>2, <3>3
  <2>5. list'.isLoading /\ list'.initialized = list.initialized
    BY <2>1 DEF Click, FetchStakePoolsPage, TypeOK, List
  <2>6. AnswersOK'
    BY <1>1, <2>3 DEF AnswersOK, Sent
  <2>7. PagerOK'
    BY <1>1, <2>4, <2>5 DEF PagerOK
  <2>8. ASSUME ~overlapped' PROVE OneWaits' /\ LoadsPage' /\ ShowsWhatItSays'
    <3>1. \A j \in Slots : requests[j].stage = "idle"
      BY <2>1, <2>8 DEF Click, FetchStakePoolsPage, Waiting
    <3>2. OneWaits'
      BY <2>3, <3>1 DEF OneWaits
    <3>3. LoadsPage'
      BY <2>3, <2>4, <2>5, <3>1 DEF LoadsPage, AskedFor, Sent
    <3>4. QED
      BY <2>5, <3>2, <3>3 DEF ShowsWhatItSays
  <2>9. QED
    BY <2>6, <2>7, <2>8
<1>3. CASE PoolsChange \/ UNCHANGED listVars
  BY <1>1, <1>3 DEF PoolsChange, listVars, AnswersOK, PagerOK, OneWaits, LoadsPage, AskedFor,
     ShowsWhatItSays, Showing
<1>4. ASSUME NEW i \in Slots, ListStakePools(i) PROVE Goal
  <2> DEFINE page == requests[i].page
             r == [requests[i] EXCEPT !.stage = "ok", !.total = TotalSeen(Offset(page)),
                     !.rows = (Offset(page) + 1)..Smaller(Offset(page) + PerPage, pools)]
  <2>1. requests[i] \in Request /\ page \in Nat /\ page # 0 /\ pools \in Nat
    BY <1>4 DEF ListStakePools, TypeOK, Request, Offset
  <2>2. r.stage = "ok" /\ r.page = page /\ r.rows = RowsOf(page, r.total)
    <3>1. (Offset(page) + 1)..Smaller(Offset(page) + PerPage, pools)
            = RowsOf(page, TotalSeen(Offset(page)))
      BY <2>1, AnswerNamesRows
    <3>2. QED
      BY <2>1, <3>1 DEF Request
  <2>3. \A j \in Slots : requests'[j] = IF j = i THEN r ELSE requests[j]
    BY <1>4 DEF ListStakePools, Answer, TypeOK
  <2>4. requests[i].stage # "idle" /\ UNCHANGED <<list, pager, overlapped>>
    BY <1>4 DEF ListStakePools
  <2> HIDE DEF r
  <2>5. AnswersOK'
    BY <1>1, <2>2, <2>3 DEF AnswersOK
  <2>6. OneWaits => OneWaits'
    BY <2>2, <2>3, <2>4 DEF OneWaits
  <2>7. LoadsPage => LoadsPage'
    BY <2>2, <2>3, <2>4 DEF LoadsPage, AskedFor
  <2>8. QED
    BY <1>1, <2>4, <2>5, <2>6, <2>7 DEF PagerOK, ShowsWhatItSays, Showing
<1>5. ASSUME NEW i \in Slots, ListFails(i) \/ Lose(i) PROVE Goal
  <2>1. PICK r : /\ Answer(i, r)
                 /\ r.stage \in {"idle", "failed"}
                 /\ r.stage # "idle" => r.page = requests[i].page
    <3>1. requests[i] \in Request
      BY DEF TypeOK
    <3>2. QED
      BY <1>5, <3>1 DEF ListFails, Lose, Idle, Request
  <2>2. requests[i].stage # "idle" /\ UNCHANGED <<list, pager, overlapped>>
    BY <1>5 DEF ListFails, Lose
  <2>3. AnswersOK' /\ (OneWaits => OneWaits') /\ (LoadsPage => LoadsPage')
    BY <1>1, <2>1, <2>2, QuietReply DEF LoadsPage, AskedFor
  <2>4. QED
    BY <1>1, <2>2, <2>3 DEF PagerOK, ShowsWhatItSays, Showing
<1>6. ASSUME NEW i \in Slots, ReplyNotOk(i) PROVE Goal
  <2>1. /\ requests[i].stage # "idle" /\ Answer(i, Idle)
        /\ UNCHANGED <<pager, overlapped>>
        /\ list'.isLoading = list.isLoading
        /\ list'.initialized = list.initialized
    BY <1>6 DEF ReplyNotOk, TypeOK, List
  <2>2. AnswersOK' /\ (OneWaits => OneWaits') /\ (LoadsPage => LoadsPage')
    BY <1>1, <2>1, QuietReply DEF LoadsPage, AskedFor, Idle
  <2>3. LoadsPage => ShowsWhatItSays'
    BY <2>1 DEF LoadsPage, ShowsWhatItSays
  <2>4. QED
    BY <1>1, <2>1, <2>2, <2>3 DEF PagerOK
<1>7. ASSUME NEW i \in Slots, ReplyOk(i) PROVE Goal
  <2>1. /\ requests[i] \in Request /\ requests[i].stage = "ok"
        /\ requests[i].page \in Nat \ {0} /\ requests[i].total \in Nat
    BY <1>7 DEF ReplyOk, TypeOK, Request
  <2>2. Answer(i, Idle) /\ UNCHANGED overlapped
    BY <1>7 DEF ReplyOk
  <2>3. /\ list'.initialized /\ list'.rows = requests[i].rows
    BY <1>7 DEF ReplyOk, TypeOK, List
  <2>4. pager'.initialized /\ pager'.totalItems = requests[i].total
        /\ pager'.currentPage = AskedFor
    <3>1. CASE pager.initialized
      BY <1>7, <3>1 DEF ReplyOk, TypeOK, Pager, SetMetrics, AskedFor
    <3>2. CASE ~pager.initialized
      BY <1>1, <1>7, <3>2 DEF ReplyOk, PagerOK, NewPager, SetupPagination, SetMetrics,
         SetCurrentPage, SetupDisplayPages, AskedFor, NoPage
    <3>3. QED
      BY <3>1, <3>2
  <2>5. AnswersOK' /\ (OneWaits => OneWaits')
    BY <1>1, <2>1, <2>2, QuietReply DEF Idle
  <2>6. ASSUME ~overlapped' PROVE OneWaits' /\ LoadsPage' /\ ShowsWhatItSays'
    <3>1. OneWaits /\ LoadsPage /\ requests[i].page = AskedFor
      BY <1>1, <2>1, <2>2, <2>6 DEF LoadsPage
    <3>2. \A j \in Slots : requests'[j].stage = "idle"
      BY <2>1, <2>2, <3>1 DEF OneWaits, Answer, TypeOK, Idle
    <3>3. LoadsPage'
      BY <3>2 DEF LoadsPage
    <3>4. list'.rows = RowsOf(pager'.currentPage, pager'.totalItems)
      BY <1>1, <2>1, <2>3, <2>4, <3>1 DEF AnswersOK
    <3>5. QED
      BY <2>5, <3>1, <3>3, <3>4 DEF ShowsWhatItSays, Showing, RowsOf
  <2>7. QED
    BY <2>3, <2>4, <2>5, <2>6 DEF PagerOK
<1>8. QED
  BY <1>2, <1>3, <1>4, <1>5, <1>6, <1>7 DEF Next, Reply

\* Every answer names its rows, and while nothing has overlapped the one call
\* under way is for the page that the pagination is at.
THEOREM AloneInvariant == Spec => []AloneInv
<1>1. QED
  BY TypeCorrect, AloneInit, AloneNext, PTL DEF Spec

\* A user who waits for each page before asking for the next always sees the
\* rows that the line under the table names.
THEOREM AlwaysShowsWhatItSays == Spec => []ShowsWhatItSays
<1>1. AloneInv => ShowsWhatItSays
  BY DEF AloneInv, ShowsWhatItSays
<1>2. QED
  BY <1>1, AloneInvariant, PTL

-----------------------------------------------------------------------------
(***************************************************************************)
(* With a steady number of pools no page is asked for that does not exist. *)
(***************************************************************************)
InRange == \A i \in Slots :
  /\ requests[i].stage # "idle" => requests[i].page <= LastPage
  /\ requests[i].stage = "ok" => requests[i].page >= 1 /\ requests[i].total = pools

\* The buttons are those of page number at out of the pages of all pools.
AtPage(p) ==
  /\ p.totalItems = pools
  /\ p.totalPages = PageCount(pools)
  /\ p.currentPage \in 0..LastPage
  /\ p.currentPage <= p.totalPages =>
       /\ p.displayPages = Window(p.currentPage, p.totalPages)
       /\ p.display = Shown(p.currentPage, p.totalPages)
  /\ p.currentPage > p.totalPages =>
       p.displayPages = {} /\ p.display \subseteq {"First", "Back"}

LEMMA SteadyByPart ==
  SteadyInv <=> (changes = 0 =>
                   /\ list.currentPage <= LastPage
                   /\ InRange
                   /\ ~pager.initialized => pager = NewPager
                   /\ pager.initialized => AtPage(pager))
BY DEF SteadyInv, InRange, AtPage

LEMMA LastPageType ==
  ASSUME pools \in Nat
  PROVE  LastPage \in Nat \ {0} /\ PageCount(pools) \in 0..LastPage
         /\ (PageCount(pools) # 0 => LastPage = PageCount(pools))
         /\ (PageCount(pools) = 0 => LastPage = 1)
BY PageCountType DEF LastPage, Larger

\* With no more than the pages there are, the pagination holds no other
\* button than those.
LEMMA ButtonsInRange ==
  ASSUME NEW p \in Pager, AtPage(p), pools \in Nat
  PROVE  p.displayPages \subseteq 1..PageCount(pools)
<1>1. p.totalPages \in Nat /\ p.totalPages = PageCount(pools) /\ p.currentPage \in Nat
  BY LastPageType DEF AtPage, Pager
<1>2. CASE p.currentPage <= p.totalPages
  BY <1>1, <1>2, WindowWithin DEF AtPage
<1>3. CASE p.currentPage > p.totalPages
  BY <1>3 DEF AtPage
<1>4. QED
  BY <1>1, <1>2, <1>3

\* A click on a button that is shown asks for a page that exists, for page 1
\* or for page 0.
LEMMA ClickInRange ==
  ASSUME TypeOK, pager.initialized => AtPage(pager), list.currentPage <= LastPage, ClickNow
  PROVE  \E page \in 0..LastPage : Click(page)
<1>1. /\ LastPage \in Nat \ {0} /\ PageCount(pools) \in 0..LastPage
      /\ pools \in Nat /\ pager \in Pager
  BY LastPageType DEF TypeOK
<1>2. ASSUME NEW page, Click(page)
      PROVE  /\ AtPage(pager)
             /\ pager.displayPages \subseteq 1..PageCount(pools)
             /\ list.currentPage \in 1..LastPage
             /\ pager.currentPage \in Nat /\ pager.totalPages = PageCount(pools)
  <2>1. pager.initialized /\ AtPage(pager)
    BY <1>2 DEF Click
  <2>2. list.currentPage \in Nat \ {0}
    BY <2>1 DEF TypeOK, List
  <2>3. QED
    BY <1>1, <2>1, <2>2, ButtonsInRange DEF AtPage
<1>3. CASE ClickFirst
  BY <1>1, <1>3 DEF ClickFirst
<1>4. CASE ClickBack
  <2>1. FromShown \in 0..LastPage
    BY <1>1, <1>2, <1>4 DEF ClickBack, FromShown
  <2>2. QED
    BY <1>4, <2>1 DEF ClickBack
<1>5. CASE ClickNext
  <2>1. AtPage(pager) /\ pager.currentPage \in Nat /\ pager.totalPages = PageCount(pools)
    BY <1>2, <1>5 DEF ClickNext
  <2>2. "Next" \in pager.display
    BY <1>5 DEF ClickNext
  <2>3. pager.currentPage <= pager.totalPages
    BY <1>1, <2>1, <2>2 DEF AtPage
  <2>4. "Next" \in Shown(pager.currentPage, pager.totalPages)
    BY <2>1, <2>2, <2>3 DEF AtPage
  <2>5. pager.currentPage < pager.totalPages
    BY <2>4 DEF Shown
  <2>6. pager.currentPage + 1 \in 0..LastPage
    BY <1>1, <2>1, <2>5
  <2>7. QED
    BY <1>5, <2>6 DEF ClickNext
<1>6. CASE ClickLast
  <2>1. pager.totalPages \in 0..LastPage
    BY <1>1, <1>2, <1>6 DEF ClickLast
  <2>2. QED
    BY <1>6, <2>1 DEF ClickLast
<1>7. ASSUME NEW page \in pager.displayPages, ClickPage(page)
      PROVE  \E q \in 0..LastPage : Click(q)
  <2>1. page \in 0..LastPage
    BY <1>1, <1>2, <1>7 DEF ClickPage
  <2>2. QED
    BY <1>7, <2>1 DEF ClickPage
<1>8. QED
  BY <1>3, <1>4, <1>5, <1>6, <1>7 DEF ClickNow

\* Going to such a page leaves the pagination in order.
LEMMA GoToPage ==
  ASSUME NEW p \in Pager, AtPage(p), pools \in Nat, NEW page \in 0..LastPage
  PROVE  AtPage(SetCurrentPage(p, page))
<1>1. /\ LastPage \in Nat \ {0} /\ PageCount(pools) \in 0..LastPage
      /\ PageCount(pools) # 0 => LastPage = PageCount(pools)
      /\ PageCount(pools) = 0 => LastPage = 1
  BY LastPageType
<1>2. p.totalPages = PageCount(pools) /\ p.currentPage \in 0..LastPage
  BY DEF AtPage
<1>3. CASE p.currentPage = page
  BY <1>3 DEF SetCurrentPage
<1>4. CASE p.currentPage # page /\ page <= p.totalPages
  <2> DEFINE q == SetCurrentPage(p, page)
  <2>1. /\ q.totalItems = p.totalItems /\ q.totalPages = p.totalPages /\ q.currentPage = page
        /\ q.displayPages = Window(page, p.totalPages) /\ q.display = Shown(page, p.totalPages)
    BY <1>1, <1>2, <1>4 DEF SetCurrentPage, SetupDisplayPages, Pager
  <2> HIDE DEF q
  <2>2. AtPage(q)
    BY <1>1, <1>2, <1>4, <2>1 DEF AtPage
  <2>3. QED
    BY <2>2 DEF q
<1>5. CASE p.currentPage # page /\ page > p.totalPages
  <2> DEFINE q == SetCurrentPage(p, page)
  <2>1. /\ q.totalItems = p.totalItems /\ q.totalPages = p.totalPages /\ q.currentPage = page
        /\ q.displayPages = p.displayPages /\ q.display = p.display
    BY <1>5 DEF SetCurrentPage, SetupDisplayPages, Pager
  <2>2. p.totalPages = 0 /\ p.currentPage = 0
    BY <1>1, <1>2, <1>5
  <2>3. p.displayPages = {} /\ p.display = {}
    BY <2>2 DEF AtPage, Window, Shown, MaxButtons
  <2> HIDE DEF q
  <2>4. AtPage(q)
    BY <1>2, <1>5, <2>1, <2>2, <2>3 DEF AtPage
  <2>5. QED
    BY <2>4 DEF q
<1>6. QED
  BY <1>1, <1>2, <1>3, <1>4, <1>5

\* The first answer sets the pagination up at page 1.
LEMMA SetsUp ==
  ASSUME pools \in Nat
  PROVE  AtPage(SetupPagination(NewPager, pools))
<1>1. /\ LastPage \in Nat \ {0} /\ PageCount(pools) \in 0..LastPage
      /\ PageCount(pools) = 0 => LastPage = 1
  BY LastPageType
<1> DEFINE q == SetupPagination(NewPager, pools)
<1>2. q.totalItems = pools /\ q.totalPages = PageCount(pools) /\ q.currentPage = 1
  BY DEF SetupPagination, SetCurrentPage, SetupDisplayPages, SetMetrics, NewPager, NoPage
<1>3. CASE 1 <= PageCount(pools)
  <2>1. q.displayPages = Window(1, PageCount(pools)) /\ q.display = Shown(1, PageCount(pools))
    BY <1>1, <1>3 DEF SetupPagination, SetCurrentPage, SetupDisplayPages, SetMetrics, NewPager,
       NoPage
  <2> HIDE DEF q
  <2>2. AtPage(q)
    BY <1>1, <1>2, <1>3, <2>1 DEF AtPage
  <2>3. QED
    BY <2>2 DEF q
<1>4. CASE PageCount(pools) = 0
  <2>1. q.displayPages = {} /\ q.display = {"First", "Back"}
    BY <1>4 DEF SetupPagination, SetCurrentPage, SetupDisplayPages, SetMetrics, NewPager,
       NoPage
  <2> HIDE DEF q
  <2>2. AtPage(q)
    BY <1>1, <1>2, <1>4, <2>1 DEF AtPage
  <2>3. QED
    BY <2>2 DEF q
<1>5. QED
  BY <1>1, <1>3, <1>4

\* The total that the service sees for a page that exists is the number of pools.
LEMMA SeesTotal ==
  ASSUME pools \in Nat, NEW page \in 1..LastPage
  PROVE  TotalSeen(Offset(page)) = pools
<1>1. CASE PageCount(pools) # 0
  <2>1. page \in 1..PageCount(pools)
    BY <1>1, LastPageType
  <2>2. Offset(page) < pools
    BY <2>1, PageHasItems DEF Offset
  <2>3. QED
    BY <2>2 DEF TotalSeen
<1>2. CASE PageCount(pools) = 0
  <2>1. page = 1
    BY <1>2, LastPageType
  <2>2. Offset(page) = 0
    BY <2>1 DEF Offset
  <2>3. QED
    BY <2>2 DEF TotalSeen
<1>3. QED
  BY <1>1, <1>2

\* The invariant without its precondition, as the steps of a steady number of
\* pools preserve it.
Steady == /\ list.currentPage <= LastPage
          /\ InRange
          /\ ~pager.initialized => pager = NewPager
          /\ pager.initialized => AtPage(pager)

LEMMA SteadyInit == Init => SteadyInv
<1> SUFFICES ASSUME Init PROVE Steady
  BY SteadyByPart DEF Steady
<1>1. \A i \in Slots : requests[i] = IF i = 1 THEN Sent(1) ELSE Idle
  BY DEF Init
<1>2. pools \in Nat /\ LastPage \in Nat \ {0}
  BY LastPageType DEF Init
<1>3. InRange
  BY <1>1, <1>2 DEF InRange, Sent, Idle
<1>4. list.currentPage <= LastPage /\ pager = NewPager /\ ~pager.initialized
  BY <1>2 DEF Init, NoPage, NewPager
<1>5. QED
  BY <1>3, <1>4 DEF Steady

\* A call that is answered or dropped, and a pagination that stays at a page
\* of the same pools.
LEMMA SteadyReply ==
  ASSUME TypeOK, Steady, NEW i \in Slots, NEW r, Answer(i, r), pools' = pools,
         r.stage # "idle" => r.page <= LastPage,
         r.stage = "ok" => r.page >= 1 /\ r.total = pools
  PROVE  LastPage' = LastPage /\ InRange'
<1>1. \A j \in Slots : requests'[j] = IF j = i THEN r ELSE requests[j]
  BY DEF Answer, TypeOK
<1>2. LastPage' = LastPage
  BY DEF LastPage
<1>3. QED
  BY <1>1, <1>2 DEF Steady, InRange

LEMMA SteadyNext == TypeOK /\ SteadyInv /\ [Next]_listVars => SteadyInv'
<1> SUFFICES ASSUME TypeOK, SteadyInv, [Next]_listVars, changes' = 0
             PROVE  Steady'
  BY DEF Steady, SteadyInv, InRange, AtPage
<1>1. changes = 0 /\ pools' = pools /\ pools \in Nat /\ ~PoolsChange
  <2>1. ~PoolsChange
    BY DEF PoolsChange, TypeOK
  <2>2. UNCHANGED <<changes, pools>>
    BY <2>1 DEF Next, ClickNow, ClickFirst, ClickBack, ClickNext, ClickLast, ClickPage, Click,
       ListStakePools, ListFails, Reply, ReplyOk, ReplyNotOk, Lose, listVars
  <2>3. QED
    BY <2>1, <2>2 DEF TypeOK
<1>2. Steady
  BY <1>1, SteadyByPart DEF Steady
<1>3. /\ LastPage' = LastPage /\ LastPage \in Nat \ {0}
      /\ \A p : AtPage(p)' <=> AtPage(p)
  BY <1>1, LastPageType DEF LastPage, AtPage
<1>4. CASE ClickNow
  <2>1. PICK page \in 0..LastPage : Click(page)
    BY <1>2, <1>4, ClickInRange DEF Steady
  <2>2. page \in Nat
    BY <1>3
  <2>3. PICK i \in Slots : requests' = [requests EXCEPT ![i] = Sent(page)]
    BY <2>1, <2>2, ClickIsOne
  <2>4. \A j \in Slots : requests'[j] = IF j = i THEN Sent(page) ELSE requests[j]
    BY <2>3 DEF TypeOK
  <2>5. InRange'
    BY <1>1, <1>2, <1>3, <2>4 DEF Steady, InRange, Sent
  <2>6. list'.currentPage = list.currentPage
    BY <2>1 DEF Click, FetchStakePoolsPage, TypeOK, List
  <2>7. pager.initialized /\ pager' = SetCurrentPage(pager, page) /\ pager \in Pager
    BY <2>1 DEF Click, TypeOK
  <2>8. pager'.initialized
    BY <2>2, <2>7, PagerTypes, PageCountType
  <2>9. AtPage(SetCurrentPage(pager, page))
    BY <1>1, <1>2, <2>7, GoToPage DEF Steady
  <2>10. AtPage(pager)'
    BY <1>1, <2>7, <2>9 DEF AtPage, LastPage
  <2>11. QED
    BY <1>2, <1>3, <2>5, <2>6, <2>8, <2>10 DEF Steady
<1>5. ASSUME NEW i \in Slots, ListStakePools(i) PROVE Steady'
  <2> DEFINE page == requests[i].page
             r == [requests[i] EXCEPT !.stage = "ok", !.total = TotalSeen(Offset(page)),
                     !.rows = (Offset(page) + 1)..Smaller(Offset(page) + PerPage, pools)]
  <2>1. requests[i] \in Request /\ page \in Nat /\ page # 0
    BY <1>5 DEF ListStakePools, TypeOK, Request, Offset
  <2>2. page \in 1..LastPage
    BY <1>2, <1>3, <1>5, <2>1 DEF ListStakePools, Steady, InRange
  <2>3. r.stage = "ok" /\ r.page = page /\ r.total = pools
    BY <1>1, <2>1, <2>2, SeesTotal DEF Request
  <2>4. Answer(i, r)
    BY <1>5 DEF ListStakePools
  <2> HIDE DEF r
  <2>5. InRange'
    BY <1>1, <1>2, <1>3, <2>2, <2>3, <2>4, SteadyReply
  <2>6. UNCHANGED <<list, pager>>
    BY <1>5 DEF ListStakePools
  <2>7. QED
    BY <1>1, <1>2, <1>3, <2>5, <2>6 DEF Steady, AtPage
<1>6. ASSUME NEW i \in Slots, ListFails(i) \/ ReplyNotOk(i) \/ Lose(i) PROVE Steady'
  <2>1. PICK r : /\ Answer(i, r)
                 /\ r.stage # "idle" => r.page <= LastPage
                 /\ r.stage # "ok"
    <3>1. requests[i] \in Request
      BY DEF TypeOK
    <3>2. QED
      BY <1>2, <1>6, <3>1 DEF ListFails, ReplyNotOk, Lose, Idle, Request, Steady, InRange
  <2>2. InRange'
    BY <1>1, <1>2, <2>1, SteadyReply
  <2>3. pager' = pager /\ list'.currentPage = list.currentPage
    BY <1>6 DEF ListFails, ReplyNotOk, Lose, TypeOK, List
  <2>4. QED
    BY <1>1, <1>2, <1>3, <2>2, <2>3 DEF Steady, AtPage
<1>7. ASSUME NEW i \in Slots, ReplyOk(i) PROVE Steady'
  <2>1. /\ requests[i].stage = "ok" /\ requests[i].page <= LastPage
        /\ requests[i].total = pools
    BY <1>2, <1>7 DEF ReplyOk, Steady, InRange
  <2>2. InRange'
    BY <1>1, <1>2, <1>7, SteadyReply DEF ReplyOk, Idle
  <2>3. list'.currentPage = requests[i].page
    BY <1>7 DEF ReplyOk, PageFetched, TypeOK, List
  <2>4. pager'.initialized /\ AtPage(pager')
    <3>1. CASE pager.initialized
      <4>1. pager' = SetMetrics(pager, pools) /\ AtPage(pager) /\ pager \in Pager
        BY <1>2, <1>7, <2>1, <3>1 DEF ReplyOk, Steady, TypeOK
      <4>2. pager' = pager
        BY <4>1 DEF SetMetrics, AtPage, Pager
      <4>3. QED
        BY <3>1, <4>1, <4>2
    <3>2. CASE ~pager.initialized
      <4>1. pager' = SetupPagination(NewPager, pools)
        BY <1>2, <1>7, <2>1, <3>2 DEF ReplyOk, Steady
      <4>2. AtPage(pager')
        BY <1>1, <4>1, SetsUp
      <4>3. pager'.initialized
        BY <4>1 DEF SetupPagination, SetCurrentPage, SetupDisplayPages, SetMetrics, NewPager
      <4>4. QED
        BY <4>2, <4>3
    <3>3. QED
      BY <3>1, <3>2
  <2>5. AtPage(pager)'
    BY <1>1, <2>4 DEF AtPage, LastPage
  <2>6. QED
    BY <1>3, <2>1, <2>2, <2>3, <2>4, <2>5 DEF Steady
<1>8. CASE UNCHANGED listVars
  BY <1>2, <1>3, <1>8 DEF listVars, Steady, InRange, AtPage
<1>9. QED
  BY <1>1, <1>4, <1>5, <1>6, <1>7, <1>8 DEF Next, Reply

\* While the number of pools is steady, every answer brings it and every
\* button leads to a page that exists, to page 1 or, from page 1, to page 0.
THEOREM SteadyInvariant == Spec => []SteadyInv
<1>1. QED
  BY TypeCorrect, SteadyInit, SteadyNext, PTL DEF Spec

\* While the number of pools is steady, the list asks for no page after the last.
THEOREM NeverAsksBeyondEnd == Spec => []NeverBeyondEnd
<1>1. SteadyInv => NeverBeyondEnd
  BY DEF SteadyInv, NeverBeyondEnd, LastPage
<1>2. QED
  BY <1>1, SteadyInvariant, PTL

\* While the number of pools is steady, the pagination counts all pools, and its
\* window and buttons are right whenever it is at a page that exists.
THEOREM PagerAlwaysFits == Spec => []PagerFits
<1>1. TypeOK /\ SteadyInv => PagerFits
  <2> SUFFICES ASSUME TypeOK, SteadyInv, changes = 0, pager.initialized
               PROVE  /\ pager.totalItems = pools
                      /\ pager.currentPage \in 1..pager.totalPages =>
                           /\ pager.displayPages = Window(pager.currentPage, pager.totalPages)
                           /\ WindowOK(pager.currentPage, pager.totalPages)
    BY DEF PagerFits
  <2>1. pager.totalItems = pools
    BY DEF SteadyInv
  <2>2. ASSUME pager.currentPage \in 1..pager.totalPages
        PROVE  /\ pager.displayPages = Window(pager.currentPage, pager.totalPages)
               /\ WindowOK(pager.currentPage, pager.totalPages)
    <3>1. pager.totalPages \in Nat
      BY DEF TypeOK, Pager
    <3>2. pager.displayPages = Window(pager.currentPage, pager.totalPages)
      BY <2>2, <3>1 DEF SteadyInv
    <3>3. QED
      BY <2>2, <3>1, <3>2, WindowIsRight
  <2>3. QED
    BY <2>1, <2>2
<1>2. QED
  BY <1>1, TypeCorrect, SteadyInvariant, PTL

-----------------------------------------------------------------------------
(***************************************************************************)
(* However many pages are under way, the screen is one page of the list as *)
(* it was at one moment.                                                   *)
(***************************************************************************)

\* The service answers with a page of the list as it is.
LEMMA AnswerIsSnapshot ==
  ASSUME NEW page \in Nat \ {0}, pools \in Nat
  PROVE  [page |-> page, rows |-> (Offset(page) + 1)..Smaller(Offset(page) + PerPage, pools),
          total |-> TotalSeen(Offset(page))] = Promise!Snapshot(page, pools)
<1> DEFINE o == Offset(page)
           rows == (o + 1)..Smaller(o + PerPage, pools)
<1>1. o = PerPage * (page - 1) /\ o \in Nat /\ PerPage * page = o + PerPage
  <2>1. page - 1 \in Nat
    OBVIOUS
  <2>2. QED
    BY <2>1 DEF Offset
<1>2. Promise!Positions(page, pools) = {i \in 1..pools : o < i /\ i <= o + PerPage}
  BY <1>1 DEF Promise!Positions
<1> HIDE DEF o
<1>3. Promise!Positions(page, pools) = rows
  BY <1>1, <1>2 DEF Smaller
<1>4. rows = {} <=> ~(o < pools)
  <2>1. o < pools => o + 1 \in rows
    BY <1>1 DEF Smaller
  <2>2. ~(o < pools) => rows = {}
    BY <1>1 DEF Smaller
  <2>3. QED
    BY <2>1, <2>2
<1>5. TotalSeen(o) = IF rows = {} THEN 0 ELSE pools
  BY <1>4 DEF TotalSeen
<1> HIDE DEF rows
<1>6. [page |-> page, rows |-> rows, total |-> TotalSeen(o)] = Promise!Snapshot(page, pools)
  BY <1>3, <1>5 DEF Promise!Snapshot
<1>7. QED
  BY <1>6 DEF o, rows

\* What one call carries of the abstract list, if it is at this stage.
AnswerOf(r) == [page |-> r.page, rows |-> r.rows, total |-> r.total]
AskedBy(r)  == IF r.stage = "sent" THEN {r.page} ELSE {}
AnswerIn(r) == IF r.stage = "ok" THEN {AnswerOf(r)} ELSE {}

\* A step that changes one call leaves what the others carry.
LEMMA OneCall ==
  ASSUME TypeOK, NEW i \in Slots, NEW r, requests' = [requests EXCEPT ![i] = r]
  PROVE  \E A, B : /\ AskedPages = A \cup AskedBy(requests[i]) /\ AskedPages' = A \cup AskedBy(r)
                   /\ Answers = B \cup AnswerIn(requests[i]) /\ Answers' = B \cup AnswerIn(r)
<1> DEFINE A == {requests[j].page : j \in OnTheWay("sent") \ {i}}
           B == {AnswerOf(requests[j]) : j \in OnTheWay("ok") \ {i}}
<1>1. \A j \in Slots : requests'[j] = IF j = i THEN r ELSE requests[j]
  BY DEF TypeOK
<1>2. AskedPages = A \cup AskedBy(requests[i]) /\ AskedPages' = A \cup AskedBy(r)
  BY <1>1 DEF AskedPages, OnTheWay, AskedBy
<1>3. Answers = B \cup AnswerIn(requests[i]) /\ Answers' = B \cup AnswerIn(r)
  BY <1>1 DEF Answers, OnTheWay, AnswerIn, AnswerOf
<1>4. QED
  BY <1>2, <1>3

\* Every step is a step of the abstract list, or changes nothing of it.
LEMMA SnapshotStep ==
  ASSUME TypeOK, [Next]_listVars
  PROVE  [Promise!Next]_(Promise!vars)
<1> USE DEF Promise!Next, Promise!vars
<1>1. CASE ClickNow
  <2>1. PICK page \in Nat : Click(page)
    BY <1>1, ClickTarget
  <2>2. PICK i \in Slots : /\ requests[i].stage = "idle"
                           /\ requests' = [requests EXCEPT ![i] = Sent(page)]
    BY <2>1, ClickIsOne
  <2>3. AskedPages' = AskedPages \cup {page} /\ Answers' = Answers
    <3>1. /\ AskedBy(requests[i]) = {} /\ AnswerIn(requests[i]) = {}
          /\ AskedBy(Sent(page)) = {page} /\ AnswerIn(Sent(page)) = {}
      BY <2>2 DEF AskedBy, AnswerIn, Sent
    <3>2. PICK A, B : /\ AskedPages = A \cup AskedBy(requests[i]) /\ AskedPages' = A \cup AskedBy(Sent(page))
                      /\ Answers = B \cup AnswerIn(requests[i]) /\ Answers' = B \cup AnswerIn(Sent(page))
      BY <2>2, OneCall
    <3>3. QED
      BY <3>1, <3>2
  <2>4. Screen' = Screen /\ pools' = pools
    <3>1. UNCHANGED <<list.currentPage, list.rows>>
      BY <2>1 DEF Click, FetchStakePoolsPage, TypeOK, List
    <3>2. pager'.totalItems = pager.totalItems
      BY <2>1 DEF Click, TypeOK, Pager, SetCurrentPage, SetupDisplayPages
    <3>3. QED
      BY <2>1, <3>1, <3>2 DEF Screen, Click
  <2>5. page \in 0..MaxPage
    BY <2>1 DEF Click
  <2>6. QED
    BY <2>3, <2>4, <2>5 DEF Promise!Ask
<1>2. CASE PoolsChange
  BY <1>2 DEF PoolsChange, Promise!Change, AskedPages, Answers, Screen, OnTheWay
<1>3. ASSUME NEW i \in Slots, ListStakePools(i) PROVE Promise!Answer
  <2> DEFINE page == requests[i].page
             r == [requests[i] EXCEPT !.stage = "ok", !.total = TotalSeen(Offset(page)),
                     !.rows = (Offset(page) + 1)..Smaller(Offset(page) + PerPage, pools)]
  <2>1. requests[i] \in Request /\ requests[i].stage = "sent" /\ page \in Nat \ {0} /\ pools \in Nat
    BY <1>3 DEF ListStakePools, TypeOK, Request, Offset
  <2>2. r.stage = "ok" /\ AnswerOf(r) = Promise!Snapshot(page, pools)
    BY <2>1, AnswerIsSnapshot DEF Request, AnswerOf
  <2>3. requests' = [requests EXCEPT ![i] = r] /\ UNCHANGED <<pools, list, pager>>
    BY <1>3 DEF ListStakePools, Answer
  <2> HIDE DEF r
  <2>4. PICK A, B : /\ AskedPages = A \cup {page} /\ AskedPages' = A
                    /\ Answers = B /\ Answers' = B \cup {Promise!Snapshot(page, pools)}
    <3>1. /\ AskedBy(requests[i]) = {page} /\ AnswerIn(requests[i]) = {}
          /\ AskedBy(r) = {} /\ AnswerIn(r) = {Promise!Snapshot(page, pools)}
      BY <2>1, <2>2 DEF AskedBy, AnswerIn
    <3>2. PICK A, B : /\ AskedPages = A \cup AskedBy(requests[i]) /\ AskedPages' = A \cup AskedBy(r)
                      /\ Answers = B \cup AnswerIn(requests[i]) /\ Answers' = B \cup AnswerIn(r)
      BY <2>3, OneCall
    <3> HIDE DEF page
    <3>3. /\ AskedPages = A \cup {page} /\ AskedPages' = A
          /\ Answers = B /\ Answers' = B \cup {Promise!Snapshot(page, pools)}
      BY <3>1, <3>2
    <3>4. QED
      BY <3>3
  <2>5. AskedPages' \in {AskedPages, AskedPages \ {page}}
    <3>1. CASE page \in A
      BY <2>4, <3>1
    <3>2. CASE page \notin A
      BY <2>4, <3>2
    <3>3. QED
      BY <3>1, <3>2
  <2>6. Screen' = Screen
    BY <2>3 DEF Screen
  <2>7. page \in AskedPages \ {0}
    BY <2>1, <2>4
  <2>8. Answers' = Answers \cup {Promise!Snapshot(page, pools)}
    BY <2>4
  <2> HIDE DEF page
  <2>9. QED
    BY <2>3, <2>5, <2>6, <2>7, <2>8 DEF Promise!Answer
<1>4. ASSUME NEW i \in Slots, ListFails(i) \/ ReplyNotOk(i) \/ Lose(i) PROVE Promise!Lose
  <2>1. PICK r : requests' = [requests EXCEPT ![i] = r] /\ AskedBy(r) = {} /\ AnswerIn(r) = {}
    <3> DEFINE f == [requests[i] EXCEPT !.stage = "failed"]
    <3>1. AskedBy(f) = {} /\ AnswerIn(f) = {} /\ AskedBy(Idle) = {} /\ AnswerIn(Idle) = {}
      <4>1. requests[i] \in Request
        BY DEF TypeOK
      <4>2. f.stage = "failed"
        BY <4>1 DEF Request
      <4> HIDE DEF f
      <4>3. QED
        BY <4>2 DEF AskedBy, AnswerIn, Idle
    <3>2. requests' = [requests EXCEPT ![i] = f] \/ requests' = [requests EXCEPT ![i] = Idle]
      BY <1>4 DEF ListFails, ReplyNotOk, Lose, Answer
    <3> HIDE DEF f
    <3>3. QED
      BY <3>1, <3>2
  <2>2. AskedPages' \subseteq AskedPages /\ Answers' \subseteq Answers
    <3>1. PICK A, B : /\ AskedPages = A \cup AskedBy(requests[i]) /\ AskedPages' = A \cup AskedBy(r)
                      /\ Answers = B \cup AnswerIn(requests[i]) /\ Answers' = B \cup AnswerIn(r)
      BY <2>1, OneCall
    <3>2. QED
      BY <2>1, <3>1
  <2>3. Screen' = Screen /\ pools' = pools
    BY <1>4 DEF ListFails, ReplyNotOk, Lose, Screen, TypeOK, List
  <2>4. QED
    BY <2>2, <2>3 DEF Promise!Lose
<1>5. ASSUME NEW i \in Slots, ReplyOk(i) PROVE Promise!Show
  <2> DEFINE a == AnswerOf(requests[i])
  <2>1. requests[i].stage = "ok" /\ requests' = [requests EXCEPT ![i] = Idle] /\ pools' = pools
    BY <1>5 DEF ReplyOk, Answer
  <2>2. PICK A, B : AskedPages = A /\ AskedPages' = A /\ Answers = B \cup {a} /\ Answers' = B
    <3>1. /\ AskedBy(requests[i]) = {} /\ AnswerIn(requests[i]) = {a}
          /\ AskedBy(Idle) = {} /\ AnswerIn(Idle) = {}
      BY <2>1 DEF AskedBy, AnswerIn, Idle
    <3>2. PICK A, B : /\ AskedPages = A \cup AskedBy(requests[i]) /\ AskedPages' = A \cup AskedBy(Idle)
                      /\ Answers = B \cup AnswerIn(requests[i]) /\ Answers' = B \cup AnswerIn(Idle)
      BY <2>1, OneCall
    <3> HIDE DEF a
    <3>3. AskedPages = A /\ AskedPages' = A /\ Answers = B \cup {a} /\ Answers' = B
      BY <3>1, <3>2
    <3>4. QED
      BY <3>3
  <2>3. list'.currentPage = requests[i].page /\ list'.rows = requests[i].rows
    BY <1>5 DEF ReplyOk, PageFetched, TypeOK, List
  <2>4. pager'.totalItems = requests[i].total
    BY <1>5 DEF ReplyOk, TypeOK, Pager, SetMetrics, SetupPagination, SetCurrentPage, SetupDisplayPages
  <2>5. Screen' = a
    BY <2>3, <2>4 DEF Screen, AnswerOf
  <2> HIDE DEF a
  <2>6. Answers' \in {Answers, Answers \ {a}}
    <3>1. CASE a \in B
      BY <2>2, <3>1
    <3>2. CASE a \notin B
      BY <2>2, <3>2
    <3>3. QED
      BY <3>1, <3>2
  <2>7. QED
    BY <2>1, <2>2, <2>5, <2>6 DEF Promise!Show
<1>6. CASE UNCHANGED listVars
  BY <1>6 DEF listVars, AskedPages, Answers, Screen, OnTheWay
<1>7. QED
  BY <1>1, <1>2, <1>3, <1>4, <1>5, <1>6 DEF Next, Reply

\* The list implements PagedList: through clicks and answers in any order,
\* errors and lost calls, the rows, their page and the total that the list and
\* the pagination keep apart are those of one answer, and so of one moment.
THEOREM ListKeepsSnapshots == Spec => KeepsSnapshots
<1>1. Init => Promise!Init
  <2> SUFFICES ASSUME Init PROVE Promise!Init
    OBVIOUS
  <2>1. 1 \in Slots /\ \A i \in Slots : requests[i] = IF i = 1 THEN Sent(1) ELSE Idle
    BY DEF Init, Slots
  <2>2. OnTheWay("sent") = {1} /\ OnTheWay("ok") = {}
    BY <2>1 DEF OnTheWay, Sent, Idle
  <2>3. AskedPages = {1} /\ Answers = {}
    BY <2>1, <2>2 DEF AskedPages, Answers, Sent
  <2>4. Screen = Promise!Blank /\ pools \in PoolCounts
    BY DEF Init, Screen, NewPager, NoPage, Promise!Blank
  <2>5. QED
    BY <2>3, <2>4 DEF Promise!Init
<1>2. TypeOK /\ [Next]_listVars => [Promise!Next]_(Promise!vars)
  BY SnapshotStep
<1>3. QED
  BY <1>1, <1>2, TypeCorrect, PTL DEF Spec, KeepsSnapshots, Promise!Spec
=============================================================================
