------------------------------ MODULE EpochViewer ------------------------------
(***************************************************************************)
(* The page of one epoch (Epochs/Viewer.cshtml with epochs.js): it fetches *)
(* the epoch, then its statistics of delegation and supply, and the blocks *)
(* for the heatmap, each on its own, while the database moves.  The list   *)
(* of stake pools on the same page is StakePoolList.                       *)
(***************************************************************************)
EXTENDS ChainDb

CONSTANTS
  HalfHours,     \* columns of the heatmap: half hours of a day (48)
  CellTime,      \* seconds of a half hour (1800)
  EpochDays,     \* days of an epoch (5)
  SlotTime,      \* seconds of a slot (1; 20 in the Byron era)
  ClockChange    \* seconds by which a clock is put forward or back (3600)

DayTime == HalfHours * CellTime

ASSUME ViewerAssumption ==
  /\ HalfHours \in Nat \ {0} /\ CellTime \in Nat \ {0} /\ EpochDays \in Nat \ {0}
  /\ SlotTime \in Nat \ {0} /\ ClockChange \in Nat
  /\ (MaxSlot + 1) * SlotTime = EpochDays * DayTime

VARIABLES
  rewarded,     \* epochs with rows in public.reward
  opened,       \* the epoch the page was opened for, as an option
  current,      \* $store.currentEpoch.number, as an option
  initialized,  \* of epochViewer
  notFound,     \* epoch.notFound
  panel,        \* isLoading, errors.fetching and data of each part of the page
  request       \* how far the fetch of each part has come

pageVars == <<opened, current, initialized, notFound, panel, request>>
vars == <<chainVars, rewarded, pageVars>>

\* What may be undefined in the code is the empty set or the set of its value.
Undefined == {}
IsOption(x, S) == x \subseteq S /\ \A u, v \in x : u = v

Statistics == {"delegation", "supply"}
Parts      == {"epoch", "blocks"} \cup Statistics
\* What the data of a part comes down to: an epoch is its number; the delegation
\* statistics say if there are rewards; the supply statistics only exist.
Data == [epoch |-> EpochNo, delegation |-> BOOLEAN, supply |-> {TRUE},
         blocks |-> SUBSET Block]

\* A reply is ok with its data, or 404, or another status (500), or never
\* comes: lost.
Stage == {"none", "sent", "ok", "404", "500", "lost"}

Blank   == [loading |-> FALSE, error |-> FALSE, data |-> Undefined]
Loading == [Blank EXCEPT !.loading = TRUE]
Unsent  == [stage |-> "none", data |-> Undefined]
Sent    == [stage |-> "sent", data |-> Undefined]

Init ==
  /\ ChainInit
  /\ rewarded = {}
  /\ opened = Undefined
  /\ current = Undefined
  /\ initialized = FALSE
  /\ notFound = FALSE
  /\ panel = [k \in Parts |-> Blank]
  /\ request = [k \in Parts |-> Unsent]

-----------------------------------------------------------------------------
(***************************************************************************)
(* The environment: db-sync, and the epoch preview in the page's header,   *)
(* which keeps the store: of what EpochPreview does, only that it shows    *)
(* the number of an epoch that it was given by the database, maybe late.   *)
(***************************************************************************)
CalculateRewards ==
  /\ \E e \in EpochNo \ rewarded :
       /\ \E i \in DOMAIN chain : chain[i].epoch > e
       /\ rewarded' = rewarded \cup {e}
  /\ UNCHANGED <<chainVars, pageVars>>

PreviewStores ==
  /\ opened # Undefined
  /\ \E e \in epochs : current' = {e}
  /\ UNCHANGED <<chainVars, rewarded, opened, initialized, notFound, panel, request>>

-----------------------------------------------------------------------------
(***************************************************************************)
(* Opening the page.                                                       *)
(***************************************************************************)

\* OnGet asks for the current epoch first, whatever the address says, and
\* its exception leaves no page.  Then x-init runs initialize, up to its await.
\* One load of the page: a page loaded again shares nothing with it.
OpenPage ==
  /\ opened = Undefined
  /\ epochs # {} /\ EpochRows(CurrentEpochRow) # {}
  /\ \E e \in EpochNo : opened' = {e}
  /\ current' = Undefined
  /\ initialized' = FALSE
  /\ notFound' = FALSE
  /\ panel' = [k \in Parts |-> IF k = "epoch" THEN Loading ELSE Blank]
  /\ request' = [k \in Parts |-> IF k = "epoch" THEN Sent ELSE Unsent]
  /\ UNCHANGED <<chainVars, rewarded>>

-----------------------------------------------------------------------------
(***************************************************************************)
(* The server: the queries find what is in the database when they run.     *)
(***************************************************************************)
Reply(k, r) ==
  /\ request[k].stage = "sent"
  /\ request' = [request EXCEPT ![k] = r]
  /\ UNCHANGED <<chainVars, rewarded, opened, current, initialized, notFound, panel>>

Ok(d) == [stage |-> "ok", data |-> {d}]

\* A mutant of AnswerEpoch: the row after the one asked for.
AnswerNextEpoch == \E e \in opened : Reply("epoch", Ok(e + 1))
\* The service throws NotFound when there is no row; the controller makes it 404.
AnswerEpoch ==
  \E e \in opened :
    \/ e \in epochs /\ Reply("epoch", Ok(e))
    \/ e \notin epochs /\ Reply("epoch", [stage |-> "404", data |-> Undefined])

\* RewardsCalculated: the sum over no rows is null.  Without the epoch's row the
\* query's single row is missing and it throws (AnswerFails).
AnswerDelegation ==
  \E e \in opened \cap epochs : Reply("delegation", Ok(e \in rewarded))

AnswerSupply == opened \cap epochs # {} /\ Reply("supply", Ok(TRUE))

\* GetEpochBlocks: the epoch's blocks, whose order the heatmap does not look at;
\* none is an empty reply.
AnswerBlocks ==
  Reply("blocks", Ok({chain[i] : i \in {j \in DOMAIN chain : chain[j].epoch \in opened}}))

\* An exception that the controllers do not expect, a query's timeout included.
AnswerFails(k) == Reply(k, [stage |-> "500", data |-> Undefined])

\* The request or its reply is lost: the promise is rejected and nothing runs.
LoseFetch(k) ==
  /\ request[k].stage \in {"sent", "ok", "404", "500"}
  /\ request' = [request EXCEPT ![k].stage = "lost"]
  /\ UNCHANGED <<chainVars, rewarded, opened, current, initialized, notFound, panel>>

-----------------------------------------------------------------------------
(***************************************************************************)
(* The page's callbacks.  What a promise's callbacks do up to the next     *)
(* await is one turn of the event loop, and one action.                    *)
(***************************************************************************)
Ended(k) == [request[k] EXCEPT !.stage = "none"]
Loaded(k)  == [loading |-> FALSE, error |-> FALSE, data |-> request[k].data]
Failed(k)  == [panel[k] EXCEPT !.loading = FALSE, !.error = TRUE]

\* A mutant of StartsLoading: the flags are set when the replies come.
NotYetLoading(p) == p
\* fetchEpochStatistics: both parts are marked before their fetches.
StartsLoading(p) == [k \in Parts |-> IF k \in Statistics THEN Loading ELSE p[k]]

\* x-init of the heatmap, when its template appears.
StartsBlocks(p) == [p EXCEPT !["blocks"] = Loading]

\* The epoch has come: its statistics are asked for, and the template that
\* now shows the epoch asks for its blocks.
EpochArrives ==
  /\ request["epoch"].stage = "ok"
  /\ panel' = StartsBlocks(StartsLoading([panel EXCEPT !["epoch"] = Loaded("epoch")]))
  /\ request' = [k \in Parts |-> IF k = "epoch" THEN Ended(k) ELSE Sent]
  /\ initialized' = TRUE
  /\ UNCHANGED <<chainVars, rewarded, opened, current, notFound>>

\* A mutant of EpochNotFound: the statistics are fetched whatever the answer.
NotFoundGoesOn ==
  /\ request["epoch"].stage = "404"
  /\ notFound' = TRUE
  /\ panel' = StartsLoading([panel EXCEPT !["epoch"].loading = FALSE])
  /\ request' = [k \in Parts |-> IF k = "epoch" THEN Ended(k)
                                 ELSE IF k \in Statistics THEN Sent ELSE request[k]]
  /\ initialized' = TRUE
  /\ UNCHANGED <<chainVars, rewarded, opened, current>>

EpochNotFound ==
  /\ request["epoch"].stage = "404"
  /\ notFound' = TRUE
  /\ panel' = [panel EXCEPT !["epoch"].loading = FALSE]
  /\ request' = [request EXCEPT !["epoch"] = Ended("epoch")]
  /\ initialized' = TRUE
  /\ UNCHANGED <<chainVars, rewarded, opened, current>>

\* Another error: the statistics are fetched all the same.
EpochFails ==
  /\ request["epoch"].stage = "500"
  /\ panel' = StartsLoading([panel EXCEPT !["epoch"] = Failed("epoch")])
  /\ request' = [k \in Parts |-> IF k = "epoch" THEN Ended(k)
                                 ELSE IF k \in Statistics THEN Sent ELSE request[k]]
  /\ initialized' = TRUE
  /\ UNCHANGED <<chainVars, rewarded, opened, current, notFound>>

Settle(k, p) ==
  /\ panel' = [panel EXCEPT ![k] = p]
  /\ request' = [request EXCEPT ![k] = Ended(k)]
  /\ UNCHANGED <<chainVars, rewarded, opened, current, initialized, notFound>>

StatisticsArrive(k) == request[k].stage = "ok" /\ Settle(k, Loaded(k))
\* A mutant of StatisticsFail: the second callback is skipped after an error.
ErrorOnly(k) == request[k].stage = "500" /\ Settle(k, [panel[k] EXCEPT !.error = TRUE])
StatisticsFail(k)   == request[k].stage = "500" /\ Settle(k, Failed(k))

BlocksArrive == request["blocks"].stage = "ok" /\ Settle("blocks", Loaded("blocks"))

\* setupChart is called without blocks and throws: isLoading stays.
BlocksFail ==
  request["blocks"].stage = "500" /\ Settle("blocks", [panel["blocks"] EXCEPT !.error = TRUE])

-----------------------------------------------------------------------------
ServerStep(k) ==
  \/ k = "epoch" /\ AnswerEpoch
  \/ k = "delegation" /\ AnswerDelegation
  \/ k = "supply" /\ AnswerSupply
  \/ k = "blocks" /\ AnswerBlocks
  \/ AnswerFails(k)

PageStep(k) ==
  \/ k = "epoch" /\ (EpochArrives \/ EpochNotFound \/ EpochFails)
  \/ k \in Statistics /\ (StatisticsArrive(k) \/ StatisticsFail(k))
  \/ k = "blocks" /\ (BlocksArrive \/ BlocksFail)

Next ==
  \/ ChainNext /\ UNCHANGED <<rewarded, pageVars>>
  \/ CalculateRewards \/ PreviewStores
  \/ OpenPage
  \/ \E k \in Parts : ServerStep(k) \/ PageStep(k) \/ LoseFetch(k)

Spec == Init /\ [][Next]_vars

\* What is asked is answered, if only with an error (the service has 3 minutes
\* for a query and the gRPC client 5 for a call), and the event loop runs.
FairSpec == Spec /\ \A k \in Parts : WF_vars(ServerStep(k) \/ PageStep(k))

-----------------------------------------------------------------------------
(***************************************************************************)
(* What the templates of Viewer.cshtml show.                               *)
(***************************************************************************)
SaysNotFound    == initialized /\ ~panel["epoch"].error /\ notFound
ShowsEpoch      == initialized /\ ~panel["epoch"].error /\ panel["epoch"].data # Undefined
ShowsStatistics == ShowsEpoch /\ ~panel["delegation"].loading  \* and reads both statistics

\* The links to the next and to the previous epoch.
AlwaysNext    == ShowsEpoch  \* a mutant
ShowsNext     == ShowsEpoch /\ (current = Undefined \/ panel["epoch"].data # current)
ShowsPrevious == ShowsEpoch /\ (current = Undefined \/ panel["epoch"].data # {1})

\* The reader's clock during an epoch: the time of day, in seconds, when the epoch
\* starts, and the slot before which the clock is put forward or back (summer time).
Clock == [start : 0..(DayTime - 1), changes : 0..(MaxSlot + 1), by : (-ClockChange)..ClockChange]

\* The time of a block on that clock, from the midnight before the epoch's start.
LocalTime(b, r) == r.start + b.slot * SlotTime + (IF b.slot >= r.changes THEN r.by ELSE 0)

\* The heatmap: one series for each date from the epoch's first, one column for
\* each half hour; a cell holds the blocks whose amounts it adds up.
OneDayShort(n) == 0..(n - 1)  \* a mutant of Days: as many series as days
Days(n)        == 0..n        \* addDays 0 to 5
Cells          == Days(EpochDays) \X (0..(HalfHours - 1))
Cell(blocks, r, c) ==
  {b \in blocks : /\ LocalTime(b, r) \div DayTime = c[1]
                  /\ (LocalTime(b, r) % DayTime) \div CellTime = c[2]}

-----------------------------------------------------------------------------
TypeOK ==
  /\ ChainTypeOK
  /\ rewarded \subseteq EpochNo
  /\ IsOption(opened, EpochNo)
  /\ IsOption(current, EpochNo)
  /\ initialized \in BOOLEAN
  /\ notFound \in BOOLEAN
  /\ panel = [k \in Parts |-> panel[k]]
  /\ request = [k \in Parts |-> request[k]]
  /\ \A k \in Parts :
       /\ panel[k] \in [loading : BOOLEAN, error : BOOLEAN, data : SUBSET Data[k]]
       /\ request[k] \in [stage : Stage, data : SUBSET Data[k]]
       /\ IsOption(panel[k].data, Data[k]) /\ IsOption(request[k].data, Data[k])

\* The block of statistics appears with the delegation but reads the supply too: a
\* statistic that it reads and that is not there has failed, or, for the supply
\* only, is still on its way (the flags are set before the template looks at them).
MissingStatisticIsDue ==
  ShowsStatistics =>
    \A k \in Statistics : panel[k].data = Undefined => panel[k].error \/ panel[k].loading

\* A page that says that there is no such epoch has asked for nothing else and
\* waits for nothing.
NotFoundIsFinal ==
  SaysNotFound =>
    \A k \in Parts : ~panel[k].loading /\ panel[k].data = Undefined /\ request[k].stage \notin {"sent", "ok"}

\* No page holds data of an epoch that does not exist (still: rows of epochs
\* stay), whichever of its fetches was answered before or after a rollback.
DataOfExistingEpoch ==
  \A k \in Statistics \cup {"epoch"} :
    panel[k].data # Undefined => opened # Undefined /\ opened \subseteq epochs

\* The inductive invariant behind the three: what has come in is of an epoch
\* whose row was there, and rows stay; before the page is initialized it has asked
\* for the epoch only, and afterwards the epoch's answer has been dealt with: either
\* it was not found and all else is untouched, or each statistic is under way,
\* has failed, or is there.
ViewerInv ==
  /\ \A k \in Parts : request[k].stage = "ok" => request[k].data # Undefined
  /\ \A k \in Statistics \cup {"epoch"} :
       panel[k].data # Undefined \/ request[k].data # Undefined =>
         opened # Undefined /\ opened \subseteq epochs
  /\ opened = Undefined => ~initialized /\ request["epoch"].stage = "none"
  /\ initialized => request["epoch"].stage = "none"
  /\ notFound => initialized
  /\ ~initialized \/ notFound =>
       \A k \in Parts \ {"epoch"} : panel[k] = Blank /\ request[k] = Unsent
  /\ ~initialized => panel["epoch"].data = Undefined
  /\ notFound => panel["epoch"].data = Undefined /\ ~panel["epoch"].loading
  /\ initialized /\ ~notFound =>
       \A k \in Statistics : panel[k].loading \/ panel[k].error \/ panel[k].data # Undefined

\* When the header knows the current epoch and no earlier row is late, the links
\* lead to epochs that exist, whichever of header and page was answered first
\* (but for the previous link, which is there at epoch 0 and is not at epoch 1).
LinksLead ==
  current # Undefined /\ current = {CurrentEpochRow} /\ epochs = 0..CurrentEpochRow =>
    \A e \in panel["epoch"].data :
      /\ ShowsNext => e + 1 \in epochs
      /\ ShowsPrevious /\ e > 0 => e - 1 \in epochs

\* Whenever in the reader's day the epoch starts, every block that the heatmap was
\* given is counted in exactly one cell, but for a block after a change of the clock
\* that is carried by it past the last date, or back before the first.
CountedOnce(blocks, b, r) ==
  \E c \in Cells : /\ b \in Cell(blocks, r, c)
                   /\ \A d \in Cells \ {c} : b \notin Cell(blocks, r, d)
CarriedOut(b, r) ==
  /\ b.slot >= r.changes
  /\ \/ LocalTime(b, r) - (EpochDays + 1) * DayTime \in 0..(r.by - 1)
     \/ LocalTime(b, r) \in r.by..(-1)
HeatmapCountsBlocks ==
  \A blocks \in panel["blocks"].data, r \in Clock :
    \A b \in blocks : CountedOnce(blocks, b, r) \/ CarriedOut(b, r)

\* No part of the page waits for ever, but for a fetch that is lost and for the
\* heatmap after an error.
PartsSettle ==
  \A k \in Parts :
    panel[k].loading ~>
      \/ ~panel[k].loading
      \/ request[k].stage = "lost"
      \/ k = "blocks" /\ panel[k].error
=============================================================================
