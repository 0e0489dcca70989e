------------------------------ MODULE BlockFeed ------------------------------
(***************************************************************************)
(* The push path of the system: the BlockUpdates handler of the DbSyncAPI  *)
(* service polls the database and writes blocks to a gRPC stream; the      *)
(* EpochWatchWorker of the web application reads the stream and broadcasts *)
(* NewEpoch and NewBlock to every page connected to the SignalR hub.       *)
(*                                                                         *)
(* Four kinds of process run concurrently: the database (ChainDb), the     *)
(* stream's handler, the worker, and the pages.                            *)
(***************************************************************************)
EXTENDS ChainDb

CONSTANTS
  Pages,        \* the browser pages
  WireCap,      \* blocks the stream buffers before WriteAsync has to wait
  InboxCap,     \* messages a connection buffers before a broadcast has to wait
  MaxRestarts   \* bound on the operator's restarts of the web application

ASSUME FeedAssumption ==
  /\ WireCap \in Nat \ {0}
  /\ InboxCap \in Nat \ {0}
  /\ MaxRestarts \in Nat

VARIABLES
  server,    \* the BlockUpdates handler: pc, latestBlock, lastBlockSent
  stream,    \* the gRPC call: "open", or "broken" by an error on either side
  wire,      \* blocks written to the stream and not read yet, oldest first
  host,      \* the web application's process: "up" or "down"
  worker,    \* EpochWatchWorker: pc, currentEpoch, block
  conn,      \* each page's hub connection
  inbox,     \* per page, the hub messages not handled yet, oldest first
  heard,     \* per page, the kind and epoch of the last message it handled (history)
  restarts   \* restarts of the web application so far (bound)

feedVars == <<server, stream, wire, host, worker, conn, inbox, heard, restarts>>
vars == <<chainVars, feedVars>>

NoEpoch == -1

\* The messages of IBlocksHubClient.
EpochMessage == [kind: {"NewEpoch"}, epoch: EpochNo]
BlockMessage == [kind: {"NewBlock"}, epoch: EpochNo, slot: 0..MaxSlot]
Message      == EpochMessage \cup BlockMessage

NewEpoch(e) == [kind |-> "NewEpoch", epoch |-> e]
NewBlock(b) == [kind |-> "NewBlock", epoch |-> b.epoch, slot |-> b.slot]

\* Nothing heard in this session.
Silence == [kind |-> "silence", epoch |-> NoEpoch]
Heard   == {Silence} \cup [kind: {"NewEpoch", "NewBlock"}, epoch: EpochNo]

FreshServer == [pc |-> "poll", latestBlock |-> NoBlock, lastBlockSent |-> NoBlock]
UnsetWorker == [pc |-> "read", currentEpoch |-> NoEpoch, block |-> NoBlock]  \* a mutant: null
FreshWorker == [pc |-> "read", currentEpoch |-> 0, block |-> NoBlock]

FeedInit ==
  /\ ChainInit
  /\ server = FreshServer
  /\ stream = "open"
  /\ wire = << >>
  /\ host = "up"
  /\ worker = FreshWorker
  /\ conn = [p \in Pages |-> "off"]
  /\ inbox = [p \in Pages |-> << >>]
  /\ heard = [p \in Pages |-> Silence]
  /\ restarts = 0

-----------------------------------------------------------------------------
(***************************************************************************)
(* The BlockUpdates handler.  Its delay between two polls is the time      *)
(* between two of its steps.                                               *)
(***************************************************************************)

ShouldSend(lastSent, latest) == lastSent = NoBlock \/ lastSent.no < latest.no

\* lastBlockSent after block b is written: the code never assigns it.
Assigned(lastSent, b)      == b  \* a mutant: lastBlockSent = latestBlock
LastSentAfter(lastSent, b) == lastSent

\* await GetLatestBlock and the test; when the test fails the loop goes round
\* with nothing changed.
Poll ==
  /\ stream = "open"
  /\ server.pc = "poll"
  /\ chain # << >>
  /\ ShouldSend(server.lastBlockSent, LatestBlock)
  /\ server' = [server EXCEPT !.pc = "write", !.latestBlock = LatestBlock]
  /\ UNCHANGED <<chainVars, stream, wire, host, worker, conn, inbox, heard, restarts>>

\* GetLatestBlock throws on an empty table: the call ends with an error.
PollFails ==
  /\ stream = "open"
  /\ server.pc = "poll"
  /\ chain = << >>
  /\ stream' = "broken"
  /\ UNCHANGED <<chainVars, server, wire, host, worker, conn, inbox, heard, restarts>>

\* await WriteAsync: waits while the stream's window is full.
Write ==
  /\ stream = "open"
  /\ server.pc = "write"
  /\ Len(wire) < WireCap
  /\ wire' = Append(wire, server.latestBlock)
  /\ server' = [pc |-> "poll", latestBlock |-> NoBlock,
                lastBlockSent |-> LastSentAfter(server.lastBlockSent, server.latestBlock)]
  /\ UNCHANGED <<chainVars, stream, host, worker, conn, inbox, heard, restarts>>

\* The service or the network fails; the last blocks on the way may be lost.
BreakStream ==
  /\ stream = "open"
  /\ stream' = "broken"
  /\ \E n \in 0..Len(wire) : wire' = SubSeq(wire, 1, n)
  /\ UNCHANGED <<chainVars, server, host, worker, conn, inbox, heard, restarts>>

-----------------------------------------------------------------------------
(***************************************************************************)
(* The EpochWatchWorker and the hub.  A broadcast reaches every connection *)
(* at once and is awaited: the next one waits until there is room again on *)
(* all of them.                                                            *)
(***************************************************************************)

Connected == {p \in Pages : conn[p] = "on"}

NotAwaited(m) ==  \* a mutant: not awaited, a message may overtake one sent before
  /\ \A p \in Connected : Len(inbox[p]) < InboxCap
  /\ inbox' = [p \in Pages |-> IF p \in Connected THEN <<m>> \o inbox[p] ELSE inbox[p]]
Broadcast(m) ==
  /\ \A p \in Connected : Len(inbox[p]) < InboxCap
  /\ inbox' = [p \in Pages |-> IF p \in Connected THEN Append(inbox[p], m) ELSE inbox[p]]

Later(current, e)     == e > current  \* a mutant: only a later epoch is announced
IsNewEpoch(current, e) == e # current

\* A mutant of AnnounceEpoch: the assignment to currentEpoch is missing.
AnnounceOnly ==
  /\ host = "up"
  /\ worker.pc = "read"
  /\ wire # << >>
  /\ IsNewEpoch(worker.currentEpoch, Head(wire).epoch)
  /\ Broadcast(NewEpoch(Head(wire).epoch))
  /\ worker' = [worker EXCEPT !.pc = "publish", !.block = Head(wire)]
  /\ wire' = Tail(wire)
  /\ UNCHANGED <<chainVars, server, stream, host, conn, heard, restarts>>

\* A block of another epoch than the last: NewEpoch first.
AnnounceEpoch ==
  /\ host = "up"
  /\ worker.pc = "read"
  /\ wire # << >>
  /\ IsNewEpoch(worker.currentEpoch, Head(wire).epoch)
  /\ Broadcast(NewEpoch(Head(wire).epoch))
  /\ worker' = [pc |-> "publish", currentEpoch |-> Head(wire).epoch, block |-> Head(wire)]
  /\ wire' = Tail(wire)
  /\ UNCHANGED <<chainVars, server, stream, host, conn, heard, restarts>>

\* ... then, after the await, its NewBlock.
PublishAnnounced ==
  /\ host = "up"
  /\ worker.pc = "publish"
  /\ Broadcast(NewBlock(worker.block))
  /\ worker' = [worker EXCEPT !.pc = "read", !.block = NoBlock]
  /\ UNCHANGED <<chainVars, server, stream, wire, host, conn, heard, restarts>>

\* A block of the same epoch: NewBlock only.
PublishBlock ==
  /\ host = "up"
  /\ worker.pc = "read"
  /\ wire # << >>
  /\ ~IsNewEpoch(worker.currentEpoch, Head(wire).epoch)
  /\ Broadcast(NewBlock(Head(wire)))
  /\ wire' = Tail(wire)
  /\ UNCHANGED <<chainVars, server, stream, host, worker, conn, heard, restarts>>

\* The error of a broken stream surfaces at the await foreach, after the
\* blocks that were buffered.  ExecuteAsync does not catch it: the host stops
\* and takes every connection with it.
StopHost ==
  /\ host = "up"
  /\ worker.pc = "read"
  /\ stream = "broken"
  /\ wire = << >>
  /\ host' = "down"
  /\ conn' = [p \in Pages |-> IF conn[p] \in {"starting", "on"} THEN "closed" ELSE conn[p]]
  /\ inbox' = [p \in Pages |-> << >>]
  /\ UNCHANGED <<chainVars, server, stream, wire, worker, heard, restarts>>

\* An operator starts the application again (docker-compose.yml has no
\* restart policy for it): a new worker opens a new stream.
RestartHost ==
  /\ host = "down"
  /\ restarts < MaxRestarts
  /\ host' = "up"
  /\ stream' = "open"
  /\ server' = FreshServer
  /\ worker' = FreshWorker
  /\ restarts' = restarts + 1
  /\ UNCHANGED <<chainVars, wire, conn, inbox, heard>>

-----------------------------------------------------------------------------
(***************************************************************************)
(* A page's end of its connection.                                         *)
(***************************************************************************)

\* The user opens or reloads the page; connection.start() begins.
OpenPage(p) ==
  /\ host = "up"
  /\ conn' = [conn EXCEPT ![p] = "starting"]
  /\ inbox' = [inbox EXCEPT ![p] = << >>]
  /\ heard' = [heard EXCEPT ![p] = Silence]
  /\ UNCHANGED <<chainVars, server, stream, wire, host, worker, restarts>>

Connect(p) ==
  /\ host = "up"
  /\ conn[p] = "starting"
  /\ conn' = [conn EXCEPT ![p] = "on"]
  /\ UNCHANGED <<chainVars, server, stream, wire, host, worker, inbox, heard, restarts>>

\* start() fails, or the connection drops: withAutomaticReconnect is not
\* used and the failure is only logged, so the page stays unconnected.
Disconnect(p) ==
  /\ conn[p] \in {"starting", "on"}
  /\ conn' = [conn EXCEPT ![p] = "closed"]
  /\ inbox' = [inbox EXCEPT ![p] = << >>]
  /\ UNCHANGED <<chainVars, server, stream, wire, host, worker, heard, restarts>>

\* The page's callback for the next message of its connection.
Handle(p, kind) ==
  /\ inbox[p] # << >>
  /\ Head(inbox[p]).kind = kind
  /\ inbox' = [inbox EXCEPT ![p] = Tail(@)]
  /\ heard' = [heard EXCEPT ![p] = [kind |-> kind, epoch |-> Head(inbox[p]).epoch]]
  /\ UNCHANGED <<chainVars, server, stream, wire, host, worker, conn, restarts>>

HandleNewEpoch(p) == Handle(p, "NewEpoch")
HandleNewBlock(p) == Handle(p, "NewBlock")

-----------------------------------------------------------------------------
ServerNext == Poll \/ PollFails \/ Write \/ BreakStream
WorkerNext == AnnounceEpoch \/ PublishAnnounced \/ PublishBlock \/ StopHost \/ RestartHost
PageNext(p) ==
  \/ OpenPage(p) \/ Connect(p) \/ Disconnect(p)
  \/ HandleNewEpoch(p) \/ HandleNewBlock(p)

FeedNext ==
  \/ ChainNext /\ UNCHANGED feedVars
  \/ ServerNext
  \/ WorkerNext
  \/ \E p \in Pages : PageNext(p)

FeedSpec == FeedInit /\ [][FeedNext]_vars

\* The handler's loop, the worker's loop and a page's event loop keep going;
\* the chain, failures, operators and users need not.
FeedFairness ==
  /\ WF_vars(Poll) /\ WF_vars(Write)
  /\ WF_vars(AnnounceEpoch) /\ WF_vars(PublishAnnounced) /\ WF_vars(PublishBlock)
  /\ WF_vars(StopHost)
  /\ \A p \in Pages : WF_vars(HandleNewEpoch(p)) /\ WF_vars(HandleNewBlock(p))

FairFeedSpec == FeedSpec /\ FeedFairness

-----------------------------------------------------------------------------
FeedTypeOK ==
  /\ ChainTypeOK
  /\ server \in [pc: {"poll", "write"}, latestBlock: Block \cup {NoBlock},
                 lastBlockSent: Block \cup {NoBlock}]
  /\ server.pc = "write" => server.latestBlock \in Block
  /\ stream \in {"open", "broken"}
  /\ wire \in Seq(Block)
  /\ Len(wire) <= WireCap
  /\ host \in {"up", "down"}
  /\ worker \in [pc: {"read", "publish"}, currentEpoch: EpochNo, block: Block \cup {NoBlock}]
  /\ worker.pc = "publish" => worker.block \in Block /\ worker.block.epoch = worker.currentEpoch
  /\ conn \in [Pages -> {"off", "starting", "on", "closed"}]
  /\ inbox \in [Pages -> Seq(Message)]
  /\ \A p \in Pages : Len(inbox[p]) <= InboxCap
  /\ heard \in [Pages -> Heard]
  /\ restarts \in 0..MaxRestarts

(***************************************************************************)
(* What the pages are promised (EpochAnnouncements), and the session that  *)
(* implements it: a page is in a session while its connection is on.       *)
(***************************************************************************)
NoSession == [kind |-> "off", epoch |-> NoEpoch]
Session   == [p \in Pages |-> IF conn[p] = "on" THEN heard[p] ELSE NoSession]

Announcements == INSTANCE EpochAnnouncements WITH session <- Session

\* The push path keeps that promise through polling, buffering, epoch
\* changes, rollbacks across an epoch boundary, late connections and restarts.
KeepsAnnouncements == Announcements!Spec

\* The message before the i-th of a page's inbox, and the last one sent to it.
Before(p, i) == IF i = 1 THEN heard[p] ELSE inbox[p][i - 1]
LastSentTo(p) == IF inbox[p] = << >> THEN heard[p] ELSE inbox[p][Len(inbox[p])]

\* Every message on its way to a connected page may follow the one before it:
\* no NewBlock of another epoch, no NewEpoch that changes nothing.
InboxInOrder ==
  \A p \in Connected : \A i \in DOMAIN inbox[p] :
    Announcements!Follows(Before(p, i), inbox[p][i])

\* As long as the node has not gone over to another fork, no page is told of an
\* older epoch or block after a newer one, however often a tip is read and sent
\* again and wherever it waits: in the handler, on the wire, in the worker.
NotAfter(m, n) ==
  \/ m.epoch < n.epoch
  \/ m.epoch = n.epoch /\ (m.kind = "NewBlock" /\ n.kind = "NewBlock" => m.slot <= n.slot)

NeverGoesBack ==
  rollbacks = 0 =>
    \A p \in Pages : \A i \in DOMAIN inbox[p] :
      /\ heard[p].epoch <= inbox[p][i].epoch
      /\ \A j \in 1..(i - 1) : NotAfter(inbox[p][j], inbox[p][i])

\* The inductive invariant behind InboxInOrder: the last message sent to a
\* connected page is what the worker has sent last, or the page was too late
\* for it and has been sent nothing; the inboxes are in order; and a session
\* starts in silence and ends with its inbox.
UpToDate(m) ==
  \/ m = Silence
  \/ /\ m.kind = (IF worker.pc = "publish" THEN "NewEpoch" ELSE "NewBlock")
     /\ m.epoch = worker.currentEpoch

SessionInv(p) ==
  /\ conn[p] # "on" => inbox[p] = << >>
  /\ conn[p] = "starting" => heard[p] = Silence
  /\ conn[p] = "on" => /\ host = "up"
                       /\ UpToDate(LastSentTo(p))

FeedInv == InboxInOrder /\ \A p \in Pages : SessionInv(p)

\* If the web application stays up over a chain that is not empty, the worker
\* comes to the epoch of the chain's tip, rollbacks included: the handler
\* polls without end and nothing it has sent before keeps it from sending.
FeedCatchesUp ==
  <>[](host = "up" /\ chain # << >>) => <>[](chain # << >> /\ worker.currentEpoch = LatestBlock.epoch)

\* The handler's test compares the latest block with the last one it has sent
\* and lets a block through once.  It does not hold: nothing is assigned to
\* lastBlockSent, and every poll sends the latest block again.
SendsOnlyNewer == \A i \in 1..(Len(wire) - 1) : ShouldSend(wire[i], wire[i + 1])
=============================================================================
