----------------------------- MODULE EpochPreview -----------------------------
(***************************************************************************)
(* The epoch preview in the header of every page (epoch-preview.js), on    *)
(* top of the push path of BlockFeed: a page fetches the current epoch     *)
(* when it is opened and at every NewEpoch, and takes the slot number from *)
(* every NewBlock.  A fetch is answered by two queries of the database,    *)
(* one after the other, and the answers of several fetches may reach the   *)
(* page in any order, or not at all.                                       *)
(***************************************************************************)
EXTENDS BlockFeed

CONSTANT MaxFetches  \* bound on the fetches of a page under way at once

ASSUME PreviewAssumption == MaxFetches \in Nat \ {0}

VARIABLES
  shown,    \* per page, the epoch it shows, or Hidden (epoch undefined)
  errors,   \* per page, errors.fetching
  fetches   \* per page, its calls of /api/v1/epoch by slot

previewVars == <<shown, errors, fetches>>
allVars == <<vars, previewVars>>

Slots == 1..MaxFetches

(***************************************************************************)
(* A fetch is sent; the first query has read the epoch row (epochRead);    *)
(* the reply is on its way (ok, or failed with a status that is not ok);   *)
(* its body is being parsed.  The history field knew is the epoch of the   *)
(* announcement that made the page send the fetch; an epoch that is shown  *)
(* keeps it from the fetch it came from.                                   *)
(***************************************************************************)
Stage  == {"idle", "sent", "epochRead", "ok", "failed", "body"}
Fetch  == [stage: Stage, number: EpochNo \cup {NoEpoch}, slot: 0..MaxSlot,
           knew: EpochNo \cup {NoEpoch}]
Idle       == [stage |-> "idle", number |-> NoEpoch, slot |-> 0, knew |-> NoEpoch]
Sent(knew) == [stage |-> "sent", number |-> NoEpoch, slot |-> 0, knew |-> knew]

Shown  == [number: EpochNo, slot: 0..MaxSlot, knew: EpochNo \cup {NoEpoch}]
Hidden == [number |-> NoEpoch, slot |-> 0, knew |-> NoEpoch]

Init ==
  /\ FeedInit
  /\ shown = [p \in Pages |-> Hidden]
  /\ errors = [p \in Pages |-> FALSE]
  /\ fetches = [p \in Pages |-> [i \in Slots |-> Idle]]

-----------------------------------------------------------------------------
(***************************************************************************)
(* The page's callbacks.                                                   *)
(***************************************************************************)

\* updateEpoch: the call of fetch.
UpdateEpoch(p, knew) ==
  \E i \in Slots :
    /\ fetches[p][i].stage = "idle"
    /\ \A j \in 1..(i - 1) : fetches[p][j].stage # "idle"
    /\ fetches' = [fetches EXCEPT ![p][i] = Sent(knew)]

\* initFetchEpoch, in a page whose scripts start afresh: the connection is
\* started and the epoch fetched without waiting for it.
InitFetchEpoch(p) ==
  /\ OpenPage(p)
  /\ shown' = [shown EXCEPT ![p] = Hidden]
  /\ errors' = [errors EXCEPT ![p] = FALSE]
  /\ fetches' = [fetches EXCEPT ![p] = [i \in Slots |-> IF i = 1 THEN Sent(NoEpoch) ELSE Idle]]

OnNewEpoch(p) ==
  /\ HandleNewEpoch(p)
  /\ UpdateEpoch(p, Head(inbox[p]).epoch)
  /\ UNCHANGED <<shown, errors>>

\* No epoch is shown: the block is ignored.  Otherwise only its slot is used.
OnNewBlock(p) ==
  /\ HandleNewBlock(p)
  /\ shown' = IF shown[p] = Hidden THEN shown
              ELSE [shown EXCEPT ![p].slot = Head(inbox[p]).slot]
  /\ UNCHANGED <<errors, fetches>>

-----------------------------------------------------------------------------
(***************************************************************************)
(* The answer of GET /api/v1/epoch: CardanoAPI.GetCurrentEpoch.            *)
(***************************************************************************)

Answer(p, i, f) == fetches' = [fetches EXCEPT ![p][i] = f]

\* The first call, GetCurrentEpoch of the service.
ReadEpoch(p, i) ==
  /\ host = "up"
  /\ fetches[p][i].stage = "sent"
  /\ epochs # {}
  /\ Answer(p, i, [fetches[p][i] EXCEPT !.stage = "epochRead", !.number = CurrentEpochRow])
  /\ UNCHANGED <<vars, shown, errors>>

\* The second, GetLatestBlock of that epoch: the database may have changed.
ReadBlock(p, i) ==
  /\ host = "up"
  /\ fetches[p][i].stage = "epochRead"
  /\ EpochRows(fetches[p][i].number) # {}
  /\ Answer(p, i, [fetches[p][i] EXCEPT !.stage = "ok",
                     !.slot = LatestBlockForEpoch(fetches[p][i].number).slot])
  /\ UNCHANGED <<vars, shown, errors>>

\* A query finds no row and throws, or the service or database fails: the
\* controller catches nothing and the page gets status 500.
AnswerFails(p, i) ==
  /\ host = "up"
  /\ fetches[p][i].stage \in {"sent", "epochRead"}
  /\ Answer(p, i, [fetches[p][i] EXCEPT !.stage = "failed"])
  /\ UNCHANGED <<vars, shown, errors>>

-----------------------------------------------------------------------------
(***************************************************************************)
(* The promise callbacks of updateEpoch.                                   *)
(***************************************************************************)

\* result.ok: result.json() is another promise.
ReplyOk(p, i) ==
  /\ fetches[p][i].stage = "ok"
  /\ Answer(p, i, [fetches[p][i] EXCEPT !.stage = "body"])
  /\ UNCHANGED <<vars, shown, errors>>

\* A mutant of ReplyNotOk: the status of the reply is not looked at.
StatusIgnored(p, i) ==
  /\ fetches[p][i].stage = "failed"
  /\ shown' = [shown EXCEPT ![p] = [number |-> fetches[p][i].number, slot |-> 0,
                                    knew |-> fetches[p][i].knew]]
  /\ Answer(p, i, Idle)
  /\ UNCHANGED <<vars, errors>>

\* Not ok: the error is recorded and, in the same turn, the second callback
\* finds it.
ReplyNotOk(p, i) ==
  /\ fetches[p][i].stage = "failed"
  /\ errors' = [errors EXCEPT ![p] = TRUE]
  /\ shown' = [shown EXCEPT ![p] = Hidden]
  /\ Answer(p, i, Idle)
  /\ UNCHANGED vars

\* What the second callback shows: it looks at errors.fetching, not at the
\* reply it belongs to.
OwnReplyOnly(p, f)  == [number |-> f.number, slot |-> f.slot, knew |-> f.knew]  \* a mutant
EpochToShow(p, f) ==
  IF errors[p] THEN Hidden ELSE [number |-> f.number, slot |-> f.slot, knew |-> f.knew]

ReplyBody(p, i) ==
  /\ fetches[p][i].stage = "body"
  /\ shown' = [shown EXCEPT ![p] = EpochToShow(p, fetches[p][i])]
  /\ Answer(p, i, Idle)
  /\ UNCHANGED <<vars, errors>>

\* The request or its reply is lost: the promise is rejected, and without a
\* catch nothing happens.
LoseFetch(p, i) ==
  /\ fetches[p][i].stage # "idle"
  /\ Answer(p, i, Idle)
  /\ UNCHANGED <<vars, shown, errors>>

-----------------------------------------------------------------------------
FeedStep ==
  /\ \/ ChainNext /\ UNCHANGED feedVars
     \/ ServerNext
     \/ WorkerNext
     \/ \E p \in Pages : Connect(p) \/ Disconnect(p)
  /\ UNCHANGED previewVars

FetchStep(p, i) ==
  \/ ReadEpoch(p, i) \/ ReadBlock(p, i) \/ AnswerFails(p, i)
  \/ ReplyOk(p, i) \/ ReplyNotOk(p, i) \/ ReplyBody(p, i) \/ LoseFetch(p, i)

Next ==
  \/ FeedStep
  \/ \E p \in Pages : InitFetchEpoch(p) \/ OnNewEpoch(p) \/ OnNewBlock(p)
  \/ \E p \in Pages, i \in Slots : FetchStep(p, i)

Spec == Init /\ [][Next]_allVars

\* As in BlockFeed; and a fetch that is neither lost nor failed is answered.
Fairness ==
  /\ WF_allVars(Poll /\ UNCHANGED previewVars)
  /\ WF_allVars(Write /\ UNCHANGED previewVars)
  /\ WF_allVars(WorkerNext /\ host = "up" /\ UNCHANGED previewVars)
  /\ \A p \in Pages :
       /\ WF_allVars(OnNewEpoch(p)) /\ WF_allVars(OnNewBlock(p))
       /\ \A i \in Slots : WF_allVars(FetchStep(p, i))

FairSpec == Spec /\ Fairness

-----------------------------------------------------------------------------
TypeOK ==
  /\ FeedTypeOK
  /\ shown \in [Pages -> Shown \cup {Hidden}]
  /\ errors \in [Pages -> BOOLEAN]
  /\ fetches \in [Pages -> [Slots -> Fetch]]
  /\ \A p \in Pages : \A i \in Slots :
       fetches[p][i].stage \in {"epochRead", "ok", "body"} => fetches[p][i].number \in EpochNo

\* After a failed fetch a page shows no epoch, whatever answers of other
\* fetches come in afterwards, and whatever blocks.
ErrorHidesPreview == \A p \in Pages : errors[p] => shown[p] = Hidden

\* The epoch shown is not older than the announcement that made the page ask
\* for it, if epoch rows are there as soon as their first block: of all the
\* places a block passes between the database and the page, none is ahead
\* of what the query reads.
AnswersItsAnnouncement ==
  ~EpochRowLags =>
    \A p \in Pages : shown[p] # Hidden => shown[p].number >= shown[p].knew

\* The inductive invariant behind AnswersItsAnnouncement: no epoch on its way
\* to a page is without its row, so neither is an announcement that a page has
\* acted on; and what the query has read for it is not older.
EpochsUnderWay ==
  {chain[i].epoch : i \in DOMAIN chain}
    \cup {b.epoch : b \in {c \in {server.latestBlock} : server.pc = "write"}}
    \cup {wire[i].epoch : i \in DOMAIN wire}
    \cup {b.epoch : b \in {c \in {worker.block} : worker.pc = "publish"}}
    \cup UNION {{inbox[p][i].epoch : i \in DOMAIN inbox[p]} : p \in Pages}

PreviewInv ==
  /\ ErrorHidesPreview
  /\ ~EpochRowLags =>
       /\ EpochsUnderWay \subseteq epochs
       /\ \A p \in Pages : \A i \in Slots :
            /\ fetches[p][i].knew \in epochs \cup {NoEpoch}
            /\ fetches[p][i].stage \in {"epochRead", "ok", "body"} =>
                 fetches[p][i].number >= fetches[p][i].knew
  /\ AnswersItsAnnouncement

\* A page that stays connected comes to show the slot of the chain's tip (if
\* it shows an epoch at all) even when a fetch is answered late with an old
\* slot: the handler sends its latest block again and again.
SlotSelfHeals ==
  \A p \in Pages :
    <>[](conn[p] = "on") => <>[](shown[p] = Hidden \/ shown[p].slot = LatestBlock.slot)
=============================================================================
