------------------------- MODULE EpochPreview_proofs -------------------------
(***************************************************************************)
(* Theorems about BlockFeed, for any set of pages, any bounds and any      *)
(* lengths of the buffers, and then about EpochPreview, which extends it,  *)
(* for any number of fetches under way at once.                            *)
(***************************************************************************)
EXTENDS EpochPreview, ChainDb_proofs

USE ChainAssumption, FeedAssumption, PreviewAssumption

-----------------------------------------------------------------------------
(***************************************************************************)
(* The push path.                                                          *)
(***************************************************************************)
LEMMA MessageTypes ==
  /\ \A e \in EpochNo : NewEpoch(e) \in Message
  /\ \A b \in Block : NewBlock(b) \in Message
BY DEF NewEpoch, NewBlock, Message, EpochMessage, BlockMessage, Block

\* A broadcast adds one message to the inbox of each connected page and
\* leaves the others alone.
LEMMA BroadcastType ==
  ASSUME inbox \in [Pages -> Seq(Message)],
         \A p \in Pages : Len(inbox[p]) <= InboxCap,
         NEW m \in Message, Broadcast(m)
  PROVE  /\ inbox' \in [Pages -> Seq(Message)]
         /\ \A p \in Pages : Len(inbox'[p]) <= InboxCap
         /\ \A p \in Pages : inbox'[p] = IF conn[p] = "on" THEN Append(inbox[p], m) ELSE inbox[p]
<1>1. \A p \in Pages : inbox[p] \in Seq(Message) /\ Append(inbox[p], m) \in Seq(Message)
                        /\ Len(Append(inbox[p], m)) = Len(inbox[p]) + 1
  OBVIOUS
<1>2. \A p \in Pages : conn[p] = "on" => Len(inbox[p]) + 1 <= InboxCap
  BY <1>1 DEF Broadcast, Connected
<1>3. inbox' = [p \in Pages |-> IF conn[p] = "on" THEN Append(inbox[p], m) ELSE inbox[p]]
  BY DEF Broadcast, Connected
<1>4. QED
  BY <1>1, <1>2, <1>3

LEMMA FeedTypeInit == FeedInit => FeedTypeOK
BY ChainTypeInit DEF FeedInit, FeedTypeOK, FreshServer, FreshWorker, Heard, EpochNo

LEMMA FeedTypeNext == FeedTypeOK /\ [FeedNext]_vars => FeedTypeOK'
<1> SUFFICES ASSUME FeedTypeOK, [FeedNext]_vars PROVE FeedTypeOK'
  OBVIOUS
<1> USE DEF FeedTypeOK
<1>1. CASE ChainNext /\ UNCHANGED feedVars
  BY <1>1, ChainTypeNext DEF feedVars
<1>2. ChainTypeOK' \/ ~UNCHANGED chainVars
  BY DEF chainVars, ChainTypeOK
<1>3. CASE Poll
  BY <1>2, <1>3, LatestBlockType DEF Poll
<1>4. CASE PollFails
  BY <1>2, <1>4 DEF PollFails
<1>5. CASE Write
  <2>1. server.latestBlock \in Block /\ wire' \in Seq(Block) /\ Len(wire') <= WireCap
    BY <1>5 DEF Write
  <2>2. QED
    BY <1>2, <1>5, <2>1 DEF Write, LastSentAfter
<1>6. CASE BreakStream
  <2>1. PICK n \in 0..Len(wire) : wire' = SubSeq(wire, 1, n)
    BY <1>6 DEF BreakStream
  <2>2. wire' \in Seq(Block) /\ Len(wire') = n
    BY <1>2, <2>1, SubSeqProperties
  <2>3. QED
    BY <1>2, <1>6, <2>1, <2>2 DEF BreakStream
<1>7. CASE AnnounceEpoch
  <2>1. wire # << >> /\ Head(wire) \in Block /\ Tail(wire) \in Seq(Block)
        /\ Len(Tail(wire)) <= WireCap
    BY <1>7, HeadTailProperties DEF AnnounceEpoch
  <2>2. Head(wire).epoch \in EpochNo
    BY <2>1 DEF Block
  <2>3. /\ inbox' \in [Pages -> Seq(Message)]
        /\ \A p \in Pages : Len(inbox'[p]) <= InboxCap
    BY <1>7, <2>2, MessageTypes, BroadcastType DEF AnnounceEpoch
  <2>4. QED
    BY <1>2, <1>7, <2>1, <2>2, <2>3 DEF AnnounceEpoch
<1>8. CASE PublishAnnounced
  <2>1. worker.block \in Block
    BY <1>8 DEF PublishAnnounced
  <2>2. /\ inbox' \in [Pages -> Seq(Message)]
        /\ \A p \in Pages : Len(inbox'[p]) <= InboxCap
    BY <1>8, <2>1, MessageTypes, BroadcastType DEF PublishAnnounced
  <2>3. QED
    BY <1>2, <1>8, <2>2 DEF PublishAnnounced
<1>9. CASE PublishBlock
  <2>1. wire # << >> /\ Head(wire) \in Block /\ Tail(wire) \in Seq(Block)
        /\ Len(Tail(wire)) <= WireCap
    BY <1>9, HeadTailProperties DEF PublishBlock
  <2>2. /\ inbox' \in [Pages -> Seq(Message)]
        /\ \A p \in Pages : Len(inbox'[p]) <= InboxCap
    BY <1>9, <2>1, MessageTypes, BroadcastType DEF PublishBlock
  <2>3. QED
    BY <1>2, <1>9, <2>1, <2>2 DEF PublishBlock
<1>10. CASE StopHost
  BY <1>2, <1>10 DEF StopHost
<1>11. CASE RestartHost
  BY <1>2, <1>11 DEF RestartHost, FreshServer, FreshWorker, EpochNo
<1>12. ASSUME NEW p \in Pages, PageNext(p) PROVE FeedTypeOK'
  <2>1. CASE OpenPage(p)
    BY <1>2, <2>1 DEF OpenPage, Heard
  <2>2. CASE Connect(p)
    BY <1>2, <2>2 DEF Connect
  <2>3. CASE Disconnect(p)
    BY <1>2, <2>3 DEF Disconnect
  <2>4. ASSUME NEW k \in {"NewEpoch", "NewBlock"}, Handle(p, k) PROVE FeedTypeOK'
    <3>1. inbox[p] \in Seq(Message) /\ inbox[p] # << >>
      BY <2>4 DEF Handle
    <3>2. Head(inbox[p]) \in Message /\ Tail(inbox[p]) \in Seq(Message)
          /\ Len(Tail(inbox[p])) <= InboxCap
      BY <3>1, HeadTailProperties
    <3>3. Head(inbox[p]).epoch \in EpochNo
      BY <3>2 DEF Message, EpochMessage, BlockMessage
    <3>4. QED
      BY <1>2, <2>4, <3>2, <3>3 DEF Handle, Heard
  <2>5. QED
    BY <1>12, <2>1, <2>2, <2>3, <2>4 DEF PageNext, HandleNewEpoch, HandleNewBlock
<1>13. CASE UNCHANGED vars
  BY <1>2, <1>13 DEF vars, feedVars
<1>14. QED
  BY <1>1, <1>3, <1>4, <1>5, <1>6, <1>7, <1>8, <1>9, <1>10, <1>11, <1>12, <1>13
     DEF FeedNext, ServerNext, WorkerNext

\* Every variable of the push path keeps to its type and its bound.
THEOREM FeedTypeCorrect == FeedSpec => []FeedTypeOK
<1>1. QED
  BY FeedTypeInit, FeedTypeNext, PTL DEF FeedSpec

-----------------------------------------------------------------------------
(***************************************************************************)
(* Messages come to a page in an order it may rely on.                     *)
(***************************************************************************)

Order(p) == \A i \in DOMAIN inbox[p] : Announcements!Follows(Before(p, i), inbox[p][i])

\* The last element of a sequence is the last of its tail, or its head.
LEMMA LastOfTail ==
  ASSUME NEW S, NEW s \in Seq(S), s # << >>
  PROVE  IF Tail(s) = << >> THEN Head(s) = s[Len(s)]
         ELSE Tail(s)[Len(Tail(s))] = s[Len(s)]
<1>1. Len(s) \in Nat \ {0} /\ Head(s) = s[1]
  BY EmptySeq
<1>2. Tail(s) \in Seq(S) /\ Len(Tail(s)) = Len(s) - 1
  BY HeadTailProperties
<1>3. \A i \in 1..Len(Tail(s)) : Tail(s)[i] = s[i + 1]
  BY HeadTailProperties
<1>4. CASE Len(s) = 1
  <2>1. Len(Tail(s)) = 0
    BY <1>2, <1>4
  <2>2. Tail(s) = << >>
    BY <1>2, <2>1, EmptySeq
  <2>3. QED
    BY <1>1, <1>4, <2>2
<1>5. CASE Len(s) # 1
  <2>1. Len(Tail(s)) \in Nat \ {0} /\ Len(Tail(s)) + 1 = Len(s)
    BY <1>1, <1>2, <1>5
  <2>2. Tail(s) # << >>
    BY <2>1, EmptySeq
  <2>3. Len(Tail(s)) \in 1..Len(Tail(s))
    BY <2>1
  <2>4. QED
    BY <1>3, <2>1, <2>2, <2>3
<1>6. QED
  BY <1>4, <1>5

\* One message more, which may follow the last one.
LEMMA SendKeepsOrder ==
  ASSUME FeedTypeOK, NEW p \in Pages, NEW m \in Message,
         inbox'[p] = Append(inbox[p], m), heard'[p] = heard[p],
         Order(p), Announcements!Follows(LastSentTo(p), m)
  PROVE  Order(p)' /\ LastSentTo(p)' = m
<1>1. inbox[p] \in Seq(Message)
  BY DEF FeedTypeOK
<1>2. /\ Len(inbox'[p]) = Len(inbox[p]) + 1
      /\ DOMAIN inbox'[p] = 1..(Len(inbox[p]) + 1)
      /\ \A i \in 1..Len(inbox[p]) : inbox'[p][i] = inbox[p][i]
      /\ inbox'[p][Len(inbox[p]) + 1] = m
      /\ inbox'[p] # << >>
  BY <1>1
<1>3. ASSUME NEW i \in DOMAIN inbox'[p]
      PROVE  Announcements!Follows(Before(p, i)', inbox'[p][i])
  <2>1. CASE i = Len(inbox[p]) + 1
    <3>1. Before(p, i)' = LastSentTo(p)
      <4>1. CASE inbox[p] = << >>
        BY <2>1, <4>1, <1>1 DEF Before, LastSentTo
      <4>2. CASE inbox[p] # << >>
        BY <2>1, <4>2, <1>1, <1>2 DEF Before, LastSentTo
      <4>3. QED
        BY <4>1, <4>2
    <3>2. QED
      BY <2>1, <3>1, <1>2
  <2>2. CASE i \in 1..Len(inbox[p])
    <3>1. Before(p, i)' = Before(p, i) /\ inbox'[p][i] = inbox[p][i]
      BY <2>2, <1>1, <1>2 DEF Before
    <3>2. QED
      BY <2>2, <3>1, <1>1 DEF Order
  <2>3. QED
    BY <1>1, <1>2, <2>1, <2>2
<1>4. QED
  BY <1>2, <1>3 DEF Order, LastSentTo

\* One message less: the page has heard it instead.
LEMMA HandleKeepsOrder ==
  ASSUME FeedTypeOK, NEW p \in Pages, NEW k, Handle(p, k), Order(p)
  PROVE  /\ Order(p)'
         /\ LastSentTo(p)'.kind = LastSentTo(p).kind
         /\ LastSentTo(p)'.epoch = LastSentTo(p).epoch
<1>1. inbox[p] \in Seq(Message) /\ inbox[p] # << >>
  BY DEF FeedTypeOK, Handle
<1>2. /\ inbox'[p] = Tail(inbox[p])
      /\ heard'[p] = [kind |-> Head(inbox[p]).kind, epoch |-> Head(inbox[p]).epoch]
  BY DEF FeedTypeOK, Handle
<1>3. /\ Tail(inbox[p]) \in Seq(Message)
      /\ Len(Tail(inbox[p])) = Len(inbox[p]) - 1
      /\ \A i \in 1..Len(Tail(inbox[p])) : Tail(inbox[p])[i] = inbox[p][i + 1]
      /\ Head(inbox[p]) = inbox[p][1]
  BY <1>1, HeadTailProperties
<1>4. ASSUME NEW i \in DOMAIN inbox'[p]
      PROVE  Announcements!Follows(Before(p, i)', inbox'[p][i])
  <2>1. i \in 1..Len(Tail(inbox[p])) /\ i + 1 \in DOMAIN inbox[p]
    BY <1>1, <1>2, <1>3
  <2>2. inbox'[p][i] = inbox[p][i + 1]
    BY <1>2, <1>3, <2>1
  <2>3. Announcements!Follows(inbox[p][i], inbox[p][i + 1])
    <3>1. Announcements!Follows(Before(p, i + 1), inbox[p][i + 1])
      BY <2>1 DEF Order
    <3>2. i \in Nat /\ i + 1 # 1 /\ (i + 1) - 1 = i
      BY <2>1
    <3>3. Before(p, i + 1) = inbox[p][i]
      BY <3>2 DEF Before
    <3>4. QED
      BY <3>1, <3>3
  <2>4. Before(p, i)'.kind = inbox[p][i].kind /\ Before(p, i)'.epoch = inbox[p][i].epoch
    <3>1. CASE i = 1
      <4>1. Before(p, i)' = heard'[p]
        BY <3>1 DEF Before
      <4>2. QED
        BY <1>2, <1>3, <3>1, <4>1
    <3>2. CASE i # 1
      <4>1. i - 1 \in 1..Len(Tail(inbox[p])) /\ (i - 1) + 1 = i
        BY <1>3, <2>1, <3>2
      <4>2. Before(p, i)' = inbox'[p][i - 1]
        BY <3>2 DEF Before
      <4>3. QED
        BY <1>2, <1>3, <4>1, <4>2
    <3>3. QED
      BY <3>1, <3>2
  <2>5. QED
    BY <2>2, <2>3, <2>4 DEF Announcements!Follows, Announcements!NoEpoch
<1>5. LastSentTo(p)'.kind = LastSentTo(p).kind /\ LastSentTo(p)'.epoch = LastSentTo(p).epoch
  <2>1. LastSentTo(p) = inbox[p][Len(inbox[p])]
    BY <1>1 DEF LastSentTo
  <2>2. LastSentTo(p)' = IF Tail(inbox[p]) = << >> THEN heard'[p]
                         ELSE Tail(inbox[p])[Len(Tail(inbox[p]))]
    BY <1>2 DEF LastSentTo
  <2>3. IF Tail(inbox[p]) = << >> THEN Head(inbox[p]) = inbox[p][Len(inbox[p])]
        ELSE Tail(inbox[p])[Len(Tail(inbox[p]))] = inbox[p][Len(inbox[p])]
    BY <1>1, LastOfTail
  <2>4. CASE Tail(inbox[p]) = << >>
    <3>1. LastSentTo(p)' = heard'[p] /\ Head(inbox[p]) = LastSentTo(p)
      BY <2>1, <2>2, <2>3, <2>4
    <3>2. QED
      BY <1>2, <3>1
  <2>5. CASE Tail(inbox[p]) # << >>
    <3>1. LastSentTo(p)' = LastSentTo(p)
      BY <2>1, <2>2, <2>3, <2>5
    <3>2. QED
      BY <3>1
  <2>6. QED
    BY <2>4, <2>5
<1>6. QED
  BY <1>4, <1>5 DEF Order

PageOK(p) == (conn[p] = "on" => Order(p)) /\ SessionInv(p)

LEMMA FeedInvByPage == FeedInv <=> \A p \in Pages : PageOK(p)
BY DEF FeedInv, PageOK, InboxInOrder, Order, Connected

\* A step that touches neither the page's connection nor the worker.
LEMMA QuietStep ==
  ASSUME NEW p \in Pages, PageOK(p), UNCHANGED <<host, worker>>,
         conn'[p] = conn[p], inbox'[p] = inbox[p], heard'[p] = heard[p]
  PROVE  PageOK(p)'
BY DEF PageOK, Order, Before, SessionInv, UpToDate, LastSentTo

\* A broadcast that may follow what the worker has sent before.
LEMMA BroadcastStep ==
  ASSUME FeedTypeOK, NEW p \in Pages, PageOK(p), NEW m \in Message, Broadcast(m),
         UNCHANGED <<host, conn, heard>>,
         UpToDate(LastSentTo(p)) => Announcements!Follows(LastSentTo(p), m),
         UpToDate(m)'
  PROVE  PageOK(p)'
<1>1. inbox'[p] = IF conn[p] = "on" THEN Append(inbox[p], m) ELSE inbox[p]
  BY BroadcastType DEF FeedTypeOK
<1>2. CASE conn[p] = "on"
  <2>1. Order(p)' /\ LastSentTo(p)' = m
    BY <1>1, <1>2, SendKeepsOrder DEF PageOK, SessionInv
  <2>2. UpToDate(LastSentTo(p))'
    BY <2>1 DEF UpToDate
  <2>3. QED
    BY <1>2, <2>1, <2>2 DEF PageOK, SessionInv
<1>3. CASE conn[p] # "on"
  BY <1>1, <1>3 DEF PageOK, SessionInv
<1>4. QED
  BY <1>2, <1>3

LEMMA FeedInvInit == FeedInit => FeedInv
BY FeedInvByPage DEF FeedInit, PageOK, SessionInv, Silence

LEMMA FeedInvNext == FeedTypeOK /\ FeedInv /\ [FeedNext]_vars => FeedInv'
<1> SUFFICES ASSUME FeedTypeOK, FeedInv, [FeedNext]_vars, NEW p \in Pages
             PROVE  PageOK(p)'
  BY FeedInvByPage DEF FeedInv, PageOK, InboxInOrder, Order, Connected
<1>1. PageOK(p)
  BY FeedInvByPage
<1>2. CASE UNCHANGED <<host, worker, conn, inbox, heard>>
  BY <1>1, <1>2, QuietStep
<1>3. CASE AnnounceEpoch
  <2> DEFINE e == Head(wire).epoch
  <2>1. Head(wire) \in Block /\ e \in EpochNo
    <3>1. Head(wire) \in Block
      BY <1>3, HeadTailProperties DEF AnnounceEpoch, FeedTypeOK
    <3>2. QED
      BY <3>1 DEF Block
  <2>2. PICK m \in Message : m = NewEpoch(e)
    BY <2>1, MessageTypes
  <2>3. UpToDate(LastSentTo(p)) => Announcements!Follows(LastSentTo(p), m)
    BY <2>2, <1>3, <2>1 DEF UpToDate, AnnounceEpoch, IsNewEpoch, Announcements!Follows,
       Announcements!NoEpoch, Silence, NoEpoch, NewEpoch, EpochNo
  <2>4. UpToDate(m)'
    BY <2>2, <1>3 DEF UpToDate, AnnounceEpoch, NewEpoch
  <2>5. QED
    BY <1>1, <1>3, <2>2, <2>3, <2>4, BroadcastStep DEF AnnounceEpoch
<1>4. CASE PublishAnnounced
  <2>1. worker.block \in Block /\ worker.block.epoch = worker.currentEpoch
    BY <1>4 DEF PublishAnnounced, FeedTypeOK
  <2>2. PICK m \in Message : m = NewBlock(worker.block)
    BY <2>1, MessageTypes
  <2>3. UpToDate(LastSentTo(p)) => Announcements!Follows(LastSentTo(p), m)
    BY <2>2, <1>4, <2>1 DEF UpToDate, PublishAnnounced, Announcements!Follows,
       Announcements!NoEpoch, Silence, NoEpoch, NewBlock
  <2>4. UpToDate(m)'
    BY <2>2, <1>4, <2>1 DEF UpToDate, PublishAnnounced, NewBlock, FeedTypeOK
  <2>5. QED
    BY <1>1, <1>4, <2>2, <2>3, <2>4, BroadcastStep DEF PublishAnnounced
<1>5. CASE PublishBlock
  <2>1. Head(wire) \in Block /\ Head(wire).epoch = worker.currentEpoch
    BY <1>5, HeadTailProperties DEF PublishBlock, FeedTypeOK, IsNewEpoch
  <2>2. PICK m \in Message : m = NewBlock(Head(wire))
    BY <2>1, MessageTypes
  <2>3. UpToDate(LastSentTo(p)) => Announcements!Follows(LastSentTo(p), m)
    BY <2>2, <1>5, <2>1 DEF UpToDate, PublishBlock, Announcements!Follows,
       Announcements!NoEpoch, Silence, NoEpoch, NewBlock
  <2>4. UpToDate(m)'
    BY <2>2, <1>5, <2>1 DEF UpToDate, PublishBlock, NewBlock
  <2>5. QED
    BY <1>1, <1>5, <2>2, <2>3, <2>4, BroadcastStep DEF PublishBlock
<1>6. CASE StopHost
  <2>1. conn'[p] \notin {"starting", "on"} /\ inbox'[p] = << >>
    BY <1>6 DEF StopHost, FeedTypeOK
  <2>2. QED
    BY <2>1 DEF PageOK, SessionInv
<1>7. CASE RestartHost
  <2>1. conn[p] # "on" /\ UNCHANGED <<conn, inbox, heard>>
    BY <1>1, <1>7 DEF RestartHost, PageOK, SessionInv
  <2>2. QED
    BY <1>1, <2>1 DEF PageOK, SessionInv
<1>8. ASSUME NEW q \in Pages, PageNext(q) PROVE PageOK(p)'
  <2>1. UNCHANGED <<host, worker>>
    BY <1>8 DEF PageNext, OpenPage, Connect, Disconnect, HandleNewEpoch, HandleNewBlock, Handle
  <2>2. CASE p # q
    <3>1. conn'[p] = conn[p] /\ inbox'[p] = inbox[p] /\ heard'[p] = heard[p]
      BY <1>8, <2>2 DEF PageNext, OpenPage, Connect, Disconnect, HandleNewEpoch,
         HandleNewBlock, Handle, FeedTypeOK
    <3>2. QED
      BY <1>1, <2>1, <3>1, QuietStep
  <2>3. CASE OpenPage(p)
    BY <2>3 DEF OpenPage, FeedTypeOK, PageOK, SessionInv
  <2>4. CASE Connect(p)
    <3>1. conn'[p] = "on" /\ inbox'[p] = << >> /\ heard'[p] = Silence /\ host' = "up"
      BY <1>1, <2>4 DEF Connect, FeedTypeOK, PageOK, SessionInv
    <3>2. LastSentTo(p)' = Silence
      BY <3>1 DEF LastSentTo
    <3>3. QED
      BY <3>1, <3>2 DEF PageOK, SessionInv, Order, UpToDate
  <2>5. CASE Disconnect(p)
    BY <2>5 DEF Disconnect, FeedTypeOK, PageOK, SessionInv
  <2>6. ASSUME NEW k, Handle(p, k) PROVE PageOK(p)'
    <3>1. conn[p] = "on" /\ conn'[p] = "on" /\ Order(p)
      BY <1>1, <2>6 DEF Handle, PageOK, SessionInv
    <3>2. /\ Order(p)'
          /\ LastSentTo(p)'.kind = LastSentTo(p).kind
          /\ LastSentTo(p)'.epoch = LastSentTo(p).epoch
      BY <2>6, <3>1, HandleKeepsOrder
    <3>3. LastSentTo(p) # Silence
      <4>1. inbox[p] \in Seq(Message) /\ inbox[p] # << >>
        BY <2>6 DEF Handle, FeedTypeOK
      <4>2. Len(inbox[p]) \in 1..Len(inbox[p])
        BY <4>1, EmptySeq
      <4>3. LastSentTo(p) \in Message
        BY <4>1, <4>2 DEF LastSentTo
      <4>4. QED
        BY <4>3 DEF Message, EpochMessage, BlockMessage, Silence
    <3>4. UpToDate(LastSentTo(p))'
      BY <1>1, <2>1, <3>1, <3>2, <3>3 DEF UpToDate, PageOK, SessionInv
    <3>5. QED
      BY <1>1, <2>1, <3>1, <3>2, <3>4 DEF PageOK, SessionInv
  <2>7. QED
    BY <1>8, <2>2, <2>3, <2>4, <2>5, <2>6 DEF PageNext, HandleNewEpoch, HandleNewBlock
<1>9. CASE ServerNext
  BY <1>2, <1>9 DEF ServerNext, Poll, PollFails, Write, BreakStream
<1>10. QED
  BY <1>2, <1>3, <1>4, <1>5, <1>6, <1>7, <1>8, <1>9
     DEF FeedNext, WorkerNext, vars, feedVars

\* The inductive invariant of the push path holds throughout.
THEOREM FeedInvariant == FeedSpec => []FeedInv
<1>1. QED
  BY FeedTypeCorrect, FeedInvInit, FeedInvNext, PTL DEF FeedSpec

\* No NewBlock of another epoch reaches a page unannounced, and no NewEpoch
\* names the epoch the page knows: with any number of pages, of epochs, of
\* rollbacks and restarts, and buffers of any length.
THEOREM InboxAlwaysInOrder == FeedSpec => []InboxInOrder
<1>1. FeedInv => InboxInOrder
  BY DEF FeedInv
<1>2. QED
  BY <1>1, FeedInvariant, PTL

-----------------------------------------------------------------------------
(***************************************************************************)
(* Without a rollback no page is told of an older block after a newer one. *)
(* A block goes from the tip of the chain through the handler, the wire    *)
(* and the worker to the inboxes: at every place it is not older than what *)
(* is ahead of it on that way.                                             *)
(***************************************************************************)
NotOlder(b, c) == NotAfter(NewBlock(b), NewBlock(c))

InWorker  == {b \in {worker.block} : worker.pc = "publish"}
OnWire    == {wire[i] : i \in DOMAIN wire}
InHandler == {b \in {server.latestBlock} : server.pc = "write"}
AtTip     == {chain[i] : i \in DOMAIN chain \cap {Len(chain)}}
Coming    == InWorker \cup OnWire \cup InHandler \cup AtTip

WireAscends == \A i, j \in DOMAIN wire : i < j => NotOlder(wire[i], wire[j])

PathInOrder ==
  /\ WireAscends
  /\ \A b \in InWorker, c \in OnWire \cup InHandler \cup AtTip : NotOlder(b, c)
  /\ \A b \in OnWire, c \in InHandler \cup AtTip : NotOlder(b, c)
  /\ \A b \in InHandler, c \in AtTip : NotOlder(b, c)
  /\ AtTip = {} => Coming = {}

\* Nothing that page p has been told comes after block b.
ToldBefore(p, b) ==
  /\ heard[p].epoch <= b.epoch
  /\ \A i \in DOMAIN inbox[p] : NotAfter(inbox[p][i], NewBlock(b))

InboxAscends(p) ==
  \A i \in DOMAIN inbox[p] :
    /\ heard[p].epoch <= inbox[p][i].epoch
    /\ \A j \in 1..(i - 1) : NotAfter(inbox[p][j], inbox[p][i])

PageAscends(p) ==
  /\ InboxAscends(p)
  /\ \A b \in Coming : ToldBefore(p, b)
  /\ AtTip = {} => inbox[p] = << >> /\ heard[p] = Silence

OrderInv == rollbacks = 0 => PathInOrder /\ \A p \in Pages : PageAscends(p)

LEMMA NotOlderMeans ==
  ASSUME NEW b, NEW c
  PROVE  NotOlder(b, c) <=> \/ b.epoch < c.epoch
                            \/ b.epoch = c.epoch /\ b.slot <= c.slot
BY DEF NotOlder, NotAfter, NewBlock

LEMMA NotOlderReflexive ==
  ASSUME NEW b \in Block
  PROVE  NotOlder(b, b)
<1>1. b.epoch \in Nat /\ b.slot \in Nat
  BY DEF Block, EpochNo
<1>2. QED
  BY <1>1, NotOlderMeans

LEMMA NotOlderTransitive ==
  ASSUME NEW b \in Block, NEW c \in Block, NEW d \in Block, NotOlder(b, c), NotOlder(c, d)
  PROVE  NotOlder(b, d)
<1>1. \A x \in {b, c, d} : x.epoch \in Nat /\ x.slot \in Nat
  BY DEF Block, EpochNo
<1>2. QED
  BY <1>1, NotOlderMeans

\* A message that does not come after a block comes after no newer one.
LEMMA ToldBeforeNewer ==
  ASSUME FeedTypeOK, NEW p \in Pages, NEW b \in Block, NEW c \in Block,
         ToldBefore(p, b), NotOlder(b, c)
  PROVE  ToldBefore(p, c)
<1>1. b.epoch \in Nat /\ b.slot \in Nat /\ c.epoch \in Nat /\ c.slot \in Nat
  BY DEF Block, EpochNo
<1>2. b.epoch < c.epoch \/ (b.epoch = c.epoch /\ b.slot <= c.slot)
  BY NotOlderMeans
<1>3. heard[p].epoch \in Int
  BY DEF FeedTypeOK, Heard, Silence, NoEpoch, EpochNo
<1>4. heard[p].epoch <= c.epoch
  BY <1>1, <1>2, <1>3 DEF ToldBefore
<1>5. ASSUME NEW i \in DOMAIN inbox[p]
      PROVE  NotAfter(inbox[p][i], NewBlock(c))
  <2>1. PICK m \in Message : m = inbox[p][i]
    BY DEF FeedTypeOK
  <2>2. NotAfter(m, NewBlock(b))
    BY <2>1 DEF ToldBefore
  <2>3. m.epoch < b.epoch \/ (m.epoch = b.epoch /\ (m.kind = "NewBlock" => m.slot <= b.slot))
    BY <2>2 DEF NotAfter, NewBlock
  <2>4. m.epoch \in Nat /\ (m.kind = "NewBlock" => m.slot \in Nat)
    BY DEF Message, EpochMessage, BlockMessage, EpochNo
  <2>5. m.epoch < c.epoch \/ (m.epoch = c.epoch /\ (m.kind = "NewBlock" => m.slot <= c.slot))
    BY <1>1, <1>2, <2>3, <2>4
  <2>6. QED
    BY <2>1, <2>5 DEF NotAfter, NewBlock
<1>6. QED
  BY <1>4, <1>5 DEF ToldBefore

LEMMA ComingTypes ==
  FeedTypeOK => Coming \subseteq Block /\ (AtTip = {} <=> chain = << >>)
<1> SUFFICES ASSUME FeedTypeOK PROVE Coming \subseteq Block /\ (AtTip = {} <=> chain = << >>)
  OBVIOUS
<1>1. chain \in Seq(Block) /\ wire \in Seq(Block)
  BY DEF FeedTypeOK, ChainTypeOK
<1>2. AtTip \subseteq Block /\ (AtTip = {} <=> chain = << >>)
  <2>1. CASE chain = << >>
    BY <2>1 DEF AtTip
  <2>2. CASE chain # << >>
    <3>1. Len(chain) \in DOMAIN chain
      BY <1>1, <2>2, EmptySeq
    <3>2. chain[Len(chain)] \in AtTip
      BY <3>1 DEF AtTip
    <3>3. QED
      BY <1>1, <2>2, <3>2 DEF AtTip
  <2>3. QED
    BY <2>1, <2>2
<1>3. OnWire \subseteq Block
  BY <1>1 DEF OnWire
<1>4. InWorker \subseteq Block /\ InHandler \subseteq Block
  BY DEF InWorker, InHandler, FeedTypeOK
<1>5. QED
  BY <1>2, <1>3, <1>4 DEF Coming

LEMMA OrderInit == FeedInit => OrderInv
<1> SUFFICES ASSUME FeedInit PROVE PathInOrder /\ \A p \in Pages : PageAscends(p)
  BY DEF OrderInv
<1>1. InWorker = {} /\ OnWire = {} /\ InHandler = {}
  BY DEF FeedInit, FreshServer, FreshWorker, InWorker, OnWire, InHandler
<1>2. FeedTypeOK
  BY FeedTypeInit
<1>3. PathInOrder
  BY <1>1 DEF PathInOrder, WireAscends, Coming, FeedInit
<1>4. ASSUME NEW p \in Pages PROVE PageAscends(p)
  <2>1. inbox[p] = << >> /\ heard[p] = Silence
    BY DEF FeedInit
  <2>2. \A b \in Block : ToldBefore(p, b)
    BY <2>1 DEF ToldBefore, Silence, NoEpoch, Block, EpochNo
  <2>3. QED
    BY <1>2, <2>1, <2>2, ComingTypes DEF PageAscends, InboxAscends
<1>5. QED
  BY <1>3, <1>4

\* What the wire loses, at either end, leaves the rest in order.
LEMMA WireShrinks ==
  ASSUME FeedTypeOK, WireAscends,
         \/ wire' = wire
         \/ wire # << >> /\ wire' = Tail(wire)
         \/ \E n \in 0..Len(wire) : wire' = SubSeq(wire, 1, n)
  PROVE  OnWire' \subseteq OnWire /\ WireAscends'
<1>1. wire \in Seq(Block)
  BY DEF FeedTypeOK
<1>2. CASE wire' = wire
  BY <1>2 DEF OnWire, WireAscends
<1>3. CASE wire # << >> /\ wire' = Tail(wire)
  <2>1. PICK t \in Seq(Block) :
          /\ t = Tail(wire)
          /\ Len(t) = Len(wire) - 1
          /\ \A i \in 1..Len(t) : t[i] = wire[i + 1]
    BY <1>1, <1>3, HeadTailProperties
  <2>2. ASSUME NEW i \in DOMAIN wire'
        PROVE  i \in Nat /\ i + 1 \in DOMAIN wire /\ wire'[i] = wire[i + 1]
    <3>1. wire' = t
      BY <1>3, <2>1
    <3>2. i \in DOMAIN t /\ DOMAIN t = 1..Len(t) /\ Len(t) \in Nat
      BY <3>1
    <3>3. i \in Nat /\ i \in 1..Len(t) /\ i + 1 \in 1..Len(wire)
      BY <1>1, <2>1, <3>2
    <3>4. i + 1 \in DOMAIN wire
      BY <1>1, <3>3
    <3>5. wire'[i] = wire[i + 1]
      BY <2>1, <3>1, <3>3
    <3>6. QED
      BY <3>3, <3>4, <3>5
  <2>3. \A i, j \in DOMAIN wire' : i < j => i + 1 < j + 1
    BY <2>2
  <2>4. QED
    BY <2>2, <2>3 DEF OnWire, WireAscends
<1>4. ASSUME NEW n \in 0..Len(wire), wire' = SubSeq(wire, 1, n)
      PROVE  OnWire' \subseteq OnWire /\ WireAscends'
  <2>1. \A i \in DOMAIN wire' : i \in DOMAIN wire /\ wire'[i] = wire[i]
    BY <1>1, <1>4
  <2>2. QED
    BY <2>1 DEF OnWire, WireAscends
<1>5. QED
  BY <1>2, <1>3, <1>4

LEMMA WireGrows ==
  ASSUME FeedTypeOK, WireAscends, NEW b \in Block, wire' = Append(wire, b),
         \A c \in OnWire : NotOlder(c, b)
  PROVE  OnWire' = OnWire \cup {b} /\ WireAscends'
<1>1. wire \in Seq(Block)
  BY DEF FeedTypeOK
<1>2. /\ DOMAIN wire' = 1..(Len(wire) + 1) /\ DOMAIN wire = 1..Len(wire) /\ Len(wire) \in Nat
      /\ \A i \in 1..Len(wire) : wire'[i] = wire[i]
      /\ wire'[Len(wire) + 1] = b
  BY <1>1
<1>3. OnWire' = OnWire \cup {b}
  <2>1. DOMAIN wire' = DOMAIN wire \cup {Len(wire) + 1}
    BY <1>2
  <2>2. QED
    BY <1>2, <2>1 DEF OnWire
<1>4. ASSUME NEW i \in DOMAIN wire', NEW j \in DOMAIN wire', i < j
      PROVE  NotOlder(wire'[i], wire'[j])
  <2>1. i \in DOMAIN wire /\ wire'[i] = wire[i]
    BY <1>2, <1>4
  <2>2. CASE j \in DOMAIN wire
    BY <1>2, <1>4, <2>1, <2>2 DEF WireAscends
  <2>3. CASE j = Len(wire) + 1
    BY <1>2, <2>1, <2>3 DEF OnWire
  <2>4. QED
    BY <1>2, <2>2, <2>3
<1>5. QED
  BY <1>3, <1>4 DEF WireAscends, NotOlder, NotAfter, NewBlock

\* Less is under way: what is left is in order.
LEMMA PathShrinks ==
  ASSUME PathInOrder, InWorker' \subseteq InWorker, OnWire' \subseteq OnWire, WireAscends',
         InHandler' \subseteq InHandler, AtTip' = AtTip
  PROVE  PathInOrder' /\ Coming' \subseteq Coming
BY DEF PathInOrder, Coming, NotOlder, NotAfter, NewBlock

\* The block the worker publishes next is not newer than any other under way.
LEMMA HeadIsOldest ==
  ASSUME FeedTypeOK, PathInOrder, worker.pc = "read", wire # << >>
  PROVE  Head(wire) \in OnWire /\ \A c \in Coming : NotOlder(Head(wire), c)
<1>1. wire \in Seq(Block)
  BY DEF FeedTypeOK
<1>2. Head(wire) = wire[1] /\ 1 \in DOMAIN wire
  BY <1>1, EmptySeq
<1>3. Head(wire) \in OnWire /\ Head(wire) \in Block
  BY <1>1, <1>2 DEF OnWire
<1>4. ASSUME NEW i \in DOMAIN wire PROVE NotOlder(Head(wire), wire[i])
  <2>1. i = 1 \/ 1 < i
    BY <1>1
  <2>2. QED
    BY <1>2, <1>3, <2>1, NotOlderReflexive DEF PathInOrder, WireAscends
<1>5. InWorker = {}
  BY DEF InWorker
<1>6. QED
  BY <1>3, <1>4, <1>5 DEF Coming, PathInOrder, OnWire

LEMMA TipMoves ==
  ASSUME FeedTypeOK, PathInOrder, AddBlock, UNCHANGED feedVars
  PROVE  PathInOrder' /\ \E b \in Block :
           /\ Coming' \subseteq Coming \cup {b}
           /\ AtTip' = {b}
           /\ chain # << >> => LatestBlock \in Coming /\ NotOlder(LatestBlock, b)
<1>1. PICK b \in Block : Extends(b) /\ chain' = Append(chain, b)
  BY DEF AddBlock
<1>2. chain \in Seq(Block)
  BY DEF FeedTypeOK, ChainTypeOK
<1>3. AtTip' = {b}
  <2>1. Len(chain') = Len(chain) + 1 /\ chain'[Len(chain) + 1] = b
        /\ DOMAIN chain' = 1..(Len(chain) + 1) /\ Len(chain) \in Nat
    BY <1>1, <1>2
  <2>2. DOMAIN chain' \cap {Len(chain')} = {Len(chain) + 1}
    BY <2>1
  <2>3. QED
    BY <2>1, <2>2 DEF AtTip
<1>4. InWorker' = InWorker /\ OnWire' = OnWire /\ InHandler' = InHandler /\ wire' = wire
  BY DEF feedVars, InWorker, OnWire, InHandler
<1>5. chain # << >> => /\ LatestBlock \in AtTip /\ LatestBlock \in Block
                       /\ NotOlder(LatestBlock, b)
  <2>1. SUFFICES ASSUME chain # << >>
                 PROVE  LatestBlock \in AtTip /\ LatestBlock \in Block /\ NotOlder(LatestBlock, b)
    OBVIOUS
  <2>2. Len(chain) \in DOMAIN chain
    BY <1>2, <2>1, EmptySeq
  <2>3. LatestBlock \in AtTip /\ LatestBlock \in Block
    BY <1>2, <2>2 DEF LatestBlock, AtTip
  <2>4. \A x \in {LatestBlock, b} : x.epoch \in Nat /\ x.slot \in Nat
    BY <2>3 DEF Block, EpochNo
  <2>5. LatestBlock.epoch < b.epoch \/ (LatestBlock.epoch = b.epoch /\ LatestBlock.slot <= b.slot)
    BY <1>1, <2>1, <2>4 DEF Extends
  <2>6. QED
    BY <2>3, <2>5, NotOlderMeans
<1>6. ASSUME NEW c \in InWorker \cup OnWire \cup InHandler PROVE NotOlder(c, b)
  <2>1. c \in Block /\ chain # << >>
    BY ComingTypes DEF PathInOrder, Coming
  <2>2. NotOlder(c, LatestBlock)
    BY <1>5, <2>1 DEF PathInOrder
  <2>3. QED
    BY <1>5, <2>1, <2>2, NotOlderTransitive
<1>7. WireAscends'
  BY <1>4 DEF PathInOrder, WireAscends, NotOlder, NotAfter, NewBlock
<1>8. PathInOrder'
  BY <1>3, <1>4, <1>6, <1>7 DEF PathInOrder, NotOlder, NotAfter, NewBlock
<1>9. QED
  BY <1>3, <1>4, <1>5, <1>8 DEF Coming

LEMMA PathNext ==
  ASSUME FeedTypeOK, PathInOrder, [FeedNext]_vars, rollbacks' = 0
  PROVE  PathInOrder'
<1>1. ~Rollback
  BY DEF Rollback, FeedTypeOK, ChainTypeOK
<1>2. CASE AddBlock /\ UNCHANGED feedVars
  BY <1>2, TipMoves
<1>3. CASE Poll
  <2>1. InHandler = {} /\ AtTip = {LatestBlock} /\ InHandler' = {LatestBlock}
    <3>1. chain \in Seq(Block) /\ chain # << >>
      BY <1>3 DEF Poll, FeedTypeOK, ChainTypeOK
    <3>2. Len(chain) \in DOMAIN chain
      BY <3>1, EmptySeq
    <3>3. server'.pc = "write" /\ server'.latestBlock = LatestBlock /\ server.pc = "poll"
      BY <1>3 DEF Poll, FeedTypeOK
    <3>4. QED
      BY <3>2, <3>3 DEF InHandler, AtTip, LatestBlock
  <2>2. AtTip' = AtTip /\ InWorker' = InWorker /\ OnWire' = OnWire /\ wire' = wire
    BY <1>3 DEF Poll, chainVars, AtTip, InWorker, OnWire
  <2>3. WireAscends'
    BY <2>2 DEF PathInOrder, WireAscends, NotOlder, NotAfter, NewBlock
  <2>4. NotOlder(LatestBlock, LatestBlock)
    BY <2>1, ComingTypes, NotOlderReflexive DEF Coming
  <2>5. \A b \in InWorker \cup OnWire : NotOlder(b, LatestBlock)
    BY <2>1 DEF PathInOrder
  <2>6. QED
    BY <2>1, <2>2, <2>3, <2>4, <2>5 DEF PathInOrder, Coming, NotOlder, NotAfter, NewBlock
<1>4. CASE Write
  <2>1. server.latestBlock \in Block /\ InHandler = {server.latestBlock}
    BY <1>4 DEF Write, FeedTypeOK, InHandler
  <2>2. AtTip' = AtTip /\ InWorker' = InWorker /\ InHandler' = {}
    BY <1>4 DEF Write, chainVars, AtTip, InWorker, InHandler
  <2>3. OnWire' = OnWire \cup {server.latestBlock} /\ WireAscends'
    BY <1>4, <2>1, WireGrows DEF Write, PathInOrder
  <2>4. QED
    BY <2>1, <2>2, <2>3 DEF PathInOrder, Coming, NotOlder, NotAfter, NewBlock
<1>5. CASE AnnounceEpoch
  <2>1. AtTip' = AtTip /\ InHandler' = InHandler /\ InWorker = {} /\ InWorker' = {Head(wire)}
    BY <1>5 DEF AnnounceEpoch, chainVars, AtTip, InHandler, InWorker
  <2>2. OnWire' \subseteq OnWire /\ WireAscends'
    BY <1>5, WireShrinks DEF AnnounceEpoch, PathInOrder
  <2>3. Head(wire) \in OnWire /\ \A c \in Coming : NotOlder(Head(wire), c)
    BY <1>5, HeadIsOldest DEF AnnounceEpoch
  <2>4. QED
    BY <2>1, <2>2, <2>3 DEF PathInOrder, Coming, NotOlder, NotAfter, NewBlock
<1>6. CASE /\ worker' = worker \/ worker'.pc = "read"
           /\ server' = server \/ server'.pc = "poll"
           /\ chain' = chain
           /\ \/ wire' = wire
              \/ wire # << >> /\ wire' = Tail(wire)
              \/ \E n \in 0..Len(wire) : wire' = SubSeq(wire, 1, n)
  <2>1. InWorker' \subseteq InWorker /\ InHandler' \subseteq InHandler /\ AtTip' = AtTip
    BY <1>6 DEF InWorker, InHandler, AtTip
  <2>2. OnWire' \subseteq OnWire /\ WireAscends'
    BY <1>6, WireShrinks DEF PathInOrder
  <2>3. QED
    BY <2>1, <2>2, PathShrinks
<1>7. CASE WriteEpochRow /\ UNCHANGED feedVars
  BY <1>6, <1>7 DEF WriteEpochRow, feedVars
<1>8. CASE PollFails \/ BreakStream \/ StopHost \/ RestartHost \/ PublishBlock
  BY <1>6, <1>8 DEF PollFails, BreakStream, StopHost, RestartHost, PublishBlock, chainVars,
     FreshServer, FreshWorker
<1>9. CASE PublishAnnounced
  BY <1>6, <1>9 DEF PublishAnnounced, chainVars, FeedTypeOK
<1>10. ASSUME NEW p \in Pages, PageNext(p) PROVE PathInOrder'
  BY <1>6, <1>10 DEF PageNext, OpenPage, Connect, Disconnect, HandleNewEpoch, HandleNewBlock,
     Handle, chainVars
<1>11. CASE UNCHANGED vars
  BY <1>6, <1>11 DEF vars, chainVars, feedVars
<1>12. QED
  BY <1>1, <1>2, <1>3, <1>4, <1>5, <1>7, <1>8, <1>9, <1>10, <1>11
     DEF FeedNext, ChainNext, ServerNext, WorkerNext

LEMMA QuietPageAscends ==
  ASSUME NEW p \in Pages, PageAscends(p), inbox'[p] = inbox[p], heard'[p] = heard[p],
         Coming' \subseteq Coming, AtTip' = AtTip
  PROVE  PageAscends(p)'
BY DEF PageAscends, InboxAscends, ToldBefore, NotAfter, NewBlock

LEMMA SilentPageAscends ==
  ASSUME FeedTypeOK', NEW p \in Pages, inbox'[p] = << >>,
         \/ heard'[p] = Silence
         \/ heard'[p] = heard[p] /\ PageAscends(p) /\ Coming' \subseteq Coming /\ AtTip' = AtTip
  PROVE  PageAscends(p)'
<1>1. CASE heard'[p] = Silence
  <2>1. \A b \in Coming' : b.epoch \in Nat
    <3>1. (Coming \subseteq Block)'
      BY ComingTypes, PTL
    <3>2. QED
      BY <3>1 DEF Block, EpochNo
  <2>2. \A b \in Coming' : heard'[p].epoch <= b.epoch
    BY <1>1, <2>1 DEF Silence, NoEpoch
  <2>3. QED
    BY <1>1, <2>2 DEF PageAscends, InboxAscends, ToldBefore
<1>2. CASE heard'[p] = heard[p] /\ PageAscends(p) /\ Coming' \subseteq Coming /\ AtTip' = AtTip
  BY <1>2 DEF PageAscends, InboxAscends, ToldBefore
<1>3. QED
  BY <1>1, <1>2

\* A broadcast of the block that is the oldest under way.
LEMMA BroadcastAscends ==
  ASSUME FeedTypeOK, PathInOrder, NEW p \in Pages, PageAscends(p),
         NEW b \in Coming, NEW m \in Message, m \in {NewEpoch(b.epoch), NewBlock(b)}, Broadcast(m),
         heard' = heard, AtTip' = AtTip,
         Coming' \subseteq Coming, \A c \in Coming' : NotOlder(b, c)
  PROVE  PageAscends(p)'
<1>1. inbox'[p] = IF conn[p] = "on" THEN Append(inbox[p], m) ELSE inbox[p]
  BY BroadcastType DEF FeedTypeOK
<1>2. CASE conn[p] # "on"
  BY <1>1, <1>2, QuietPageAscends
<1>3. CASE conn[p] = "on"
  <2>1. inbox[p] \in Seq(Message) /\ b \in Block
    BY ComingTypes DEF FeedTypeOK
  <2>2. /\ DOMAIN inbox'[p] = 1..(Len(inbox[p]) + 1) /\ DOMAIN inbox[p] = 1..Len(inbox[p])
        /\ Len(inbox[p]) \in Nat
        /\ \A i \in 1..Len(inbox[p]) : inbox'[p][i] = inbox[p][i]
        /\ inbox'[p][Len(inbox[p]) + 1] = m
    BY <1>1, <1>3, <2>1
  <2>3. ToldBefore(p, b)
    BY DEF PageAscends
  <2>4. m.epoch = b.epoch /\ (m.kind = "NewBlock" => m = NewBlock(b))
    BY DEF NewEpoch, NewBlock
  <2>5. \A i \in DOMAIN inbox[p] : NotAfter(inbox[p][i], m)
    BY <2>3, <2>4 DEF ToldBefore, NotAfter, NewBlock
  <2>6. ASSUME NEW i \in DOMAIN inbox'[p]
        PROVE  /\ heard'[p].epoch <= inbox'[p][i].epoch
               /\ \A j \in 1..(i - 1) : NotAfter(inbox'[p][j], inbox'[p][i])
    <3>1. \A j \in 1..(i - 1) : j \in DOMAIN inbox[p]
      BY <2>2
    <3>2. CASE i = Len(inbox[p]) + 1
      BY <2>2, <2>3, <2>4, <2>5, <3>1, <3>2 DEF ToldBefore
    <3>3. CASE i \in DOMAIN inbox[p]
      BY <2>2, <3>1, <3>3 DEF PageAscends, InboxAscends
    <3>4. QED
      BY <2>2, <3>2, <3>3
  <2>7. ASSUME NEW c \in Coming' PROVE ToldBefore(p, c)'
    <3>1. c \in Block /\ NotOlder(b, c) /\ ToldBefore(p, c)
      BY ComingTypes DEF PageAscends
    <3>2. NotAfter(m, NewBlock(c))
      BY <2>4, <3>1, NotOlderMeans DEF NotAfter, NewBlock
    <3>3. ASSUME NEW i \in DOMAIN inbox'[p] PROVE NotAfter(inbox'[p][i], NewBlock(c))
      <4>1. CASE i = Len(inbox[p]) + 1
        BY <2>2, <3>2, <4>1
      <4>2. CASE i \in DOMAIN inbox[p]
        BY <2>2, <3>1, <4>2 DEF ToldBefore
      <4>3. QED
        BY <2>2, <4>1, <4>2
    <3>4. QED
      BY <3>1, <3>3 DEF ToldBefore, NotAfter, NewBlock
  <2>8. AtTip' # {}
    BY DEF PathInOrder
  <2>9. QED
    BY <2>6, <2>7, <2>8 DEF PageAscends, InboxAscends, NotAfter
<1>4. QED
  BY <1>2, <1>3

\* What a page handles comes before what is left in its inbox.
LEMMA HandleAscends ==
  ASSUME FeedTypeOK, NEW p \in Pages, NEW k, Handle(p, k), PageAscends(p),
         Coming' = Coming, AtTip' = AtTip
  PROVE  PageAscends(p)'
<1>1. inbox[p] \in Seq(Message) /\ inbox[p] # << >>
  BY DEF FeedTypeOK, Handle
<1>2. inbox'[p] = Tail(inbox[p]) /\ heard'[p].epoch = Head(inbox[p]).epoch
  BY DEF FeedTypeOK, Handle
<1>3. /\ Tail(inbox[p]) \in Seq(Message)
      /\ Len(Tail(inbox[p])) = Len(inbox[p]) - 1
      /\ \A i \in 1..Len(Tail(inbox[p])) : Tail(inbox[p])[i] = inbox[p][i + 1]
      /\ Head(inbox[p]) = inbox[p][1] /\ 1 \in DOMAIN inbox[p]
  BY <1>1, EmptySeq, HeadTailProperties
<1>4. ASSUME NEW i \in DOMAIN inbox'[p]
      PROVE  i \in Nat /\ i + 1 \in DOMAIN inbox[p] /\ inbox'[p][i] = inbox[p][i + 1]
  <2>1. i \in 1..Len(Tail(inbox[p]))
    BY <1>2, <1>3
  <2>2. i \in Nat /\ i + 1 \in 1..Len(inbox[p])
    BY <1>1, <1>3, <2>1
  <2>3. QED
    BY <1>1, <1>2, <1>3, <2>1, <2>2
<1>5. ASSUME NEW m \in Message, NEW n, NotAfter(m, n), n.epoch \in Int
      PROVE  m.epoch <= n.epoch
  BY <1>5 DEF NotAfter, Message, EpochMessage, BlockMessage, EpochNo
<1>6. ASSUME NEW i \in DOMAIN inbox'[p]
      PROVE  /\ heard'[p].epoch <= inbox'[p][i].epoch
             /\ \A j \in 1..(i - 1) : NotAfter(inbox'[p][j], inbox'[p][i])
  <2>1. i \in Nat /\ i + 1 \in DOMAIN inbox[p] /\ inbox'[p][i] = inbox[p][i + 1]
    BY <1>4
  <2>2. \A j \in 1..((i + 1) - 1) : NotAfter(inbox[p][j], inbox[p][i + 1])
    BY <2>1 DEF PageAscends, InboxAscends
  <2>3. 1 \in 1..((i + 1) - 1)
    <3>1. i \in 1..Len(Tail(inbox[p]))
      BY <1>2, <1>3
    <3>2. QED
      BY <3>1
  <2>4. NotAfter(Head(inbox[p]), inbox'[p][i])
    BY <1>3, <2>1, <2>2, <2>3
  <2>5. inbox'[p][i].epoch \in Int /\ Head(inbox[p]) \in Message
    <3>1. inbox'[p][i] \in Message /\ Head(inbox[p]) \in Message
      BY <1>1, <1>3, <2>1
    <3>2. QED
      BY <3>1 DEF Message, EpochMessage, BlockMessage, EpochNo
  <2>6. heard'[p].epoch <= inbox'[p][i].epoch
    BY <1>2, <1>5, <2>4, <2>5
  <2>7. ASSUME NEW j \in 1..(i - 1) PROVE NotAfter(inbox'[p][j], inbox'[p][i])
    <3>1. j \in DOMAIN inbox'[p] /\ j + 1 \in 1..((i + 1) - 1)
      <4>1. i \in 1..Len(Tail(inbox[p])) /\ DOMAIN inbox'[p] = 1..Len(Tail(inbox[p]))
        BY <1>2, <1>3
      <4>2. QED
        BY <2>1, <4>1
    <3>2. inbox'[p][j] = inbox[p][j + 1]
      BY <1>4, <3>1
    <3>3. QED
      BY <2>1, <2>2, <3>1, <3>2
  <2>8. QED
    BY <2>6, <2>7
<1>7. ASSUME NEW c \in Coming' PROVE ToldBefore(p, c)'
  <2>1. ToldBefore(p, c) /\ c \in Block
    BY <1>7, ComingTypes DEF PageAscends
  <2>2. NotAfter(Head(inbox[p]), NewBlock(c)) /\ Head(inbox[p]) \in Message
    BY <1>1, <1>3, <2>1 DEF ToldBefore
  <2>3. NewBlock(c).epoch = c.epoch /\ c.epoch \in Int
    BY <2>1 DEF NewBlock, Block, EpochNo
  <2>4. heard'[p].epoch <= c.epoch
    BY <1>2, <1>5, <2>2, <2>3
  <2>5. \A i \in DOMAIN inbox'[p] : NotAfter(inbox'[p][i], NewBlock(c))
    BY <1>4, <2>1 DEF ToldBefore
  <2>6. QED
    BY <2>4, <2>5 DEF ToldBefore, NotAfter, NewBlock
<1>8. AtTip' # {}
  BY <1>1 DEF PageAscends
<1>9. QED
  BY <1>6, <1>7, <1>8 DEF PageAscends, InboxAscends, NotAfter

LEMMA PageNextAscends ==
  ASSUME FeedTypeOK, FeedTypeOK', PathInOrder, [FeedNext]_vars, rollbacks' = 0,
         NEW p \in Pages, PageAscends(p)
  PROVE  PageAscends(p)'
<1>1. ~Rollback
  BY DEF Rollback, FeedTypeOK, ChainTypeOK
<1>2. CASE AddBlock /\ UNCHANGED feedVars
  <2>1. PICK b \in Block : /\ Coming' \subseteq Coming \cup {b}
                           /\ AtTip' = {b}
                           /\ chain # << >> => LatestBlock \in Coming /\ NotOlder(LatestBlock, b)
    BY <1>2, TipMoves
  <2>2. inbox' = inbox /\ heard' = heard
    BY <1>2 DEF feedVars
  <2>3. CASE chain = << >>
    <3>1. inbox[p] = << >> /\ heard[p] = Silence
      BY <2>3, ComingTypes DEF PageAscends
    <3>2. inbox'[p] = << >> /\ heard'[p] = Silence
      BY <2>2, <3>1
    <3>3. QED
      BY <3>2, SilentPageAscends
  <2>4. CASE chain # << >>
    <3>1. LatestBlock \in Block /\ ToldBefore(p, LatestBlock)
      BY <2>1, <2>4, ComingTypes DEF PageAscends
    <3>2. ToldBefore(p, b)
      BY <2>1, <2>4, <3>1, ToldBeforeNewer
    <3>3. \A c \in Coming' : ToldBefore(p, c)
      BY <2>1, <3>2 DEF PageAscends
    <3>4. QED
      BY <2>1, <2>2, <3>3 DEF PageAscends, InboxAscends, ToldBefore, NotAfter, NewBlock
  <2>5. QED
    BY <2>3, <2>4
<1>3. CASE AnnounceEpoch \/ PublishBlock
  <2>1. Head(wire) \in OnWire /\ \A c \in Coming : NotOlder(Head(wire), c)
    BY <1>3, HeadIsOldest DEF AnnounceEpoch, PublishBlock
  <2>2. PICK b \in Coming : b = Head(wire) /\ b \in Block
    BY <2>1, ComingTypes DEF Coming
  <2>3. AtTip' = AtTip /\ InHandler' = InHandler
    BY <1>3 DEF AnnounceEpoch, PublishBlock, chainVars, AtTip, InHandler
  <2>4. OnWire' \subseteq OnWire
    BY <1>3, WireShrinks DEF AnnounceEpoch, PublishBlock, PathInOrder
  <2>5. InWorker' \subseteq InWorker \cup {b}
    BY <1>3, <2>2 DEF AnnounceEpoch, PublishBlock, InWorker
  <2>6. Coming' \subseteq Coming
    BY <2>2, <2>3, <2>4, <2>5 DEF Coming
  <2>7. b.epoch \in EpochNo
    BY <2>2 DEF Block
  <2>8. PICK m \in Message : m \in {NewEpoch(b.epoch), NewBlock(b)} /\ Broadcast(m)
    BY <1>3, <2>2, <2>7, MessageTypes DEF AnnounceEpoch, PublishBlock
  <2>9. heard' = heard
    BY <1>3 DEF AnnounceEpoch, PublishBlock
  <2>10. QED
    BY <2>1, <2>2, <2>3, <2>6, <2>8, <2>9, BroadcastAscends
<1>4. CASE PublishAnnounced
  <2>1. worker.block \in Block /\ InWorker = {worker.block}
    BY <1>4 DEF PublishAnnounced, FeedTypeOK, InWorker
  <2>2. PICK b \in Coming : b = worker.block
    BY <2>1 DEF Coming
  <2>3. AtTip' = AtTip /\ InHandler' = InHandler /\ OnWire' = OnWire /\ InWorker' = {}
    BY <1>4 DEF PublishAnnounced, chainVars, AtTip, InHandler, OnWire, InWorker, FeedTypeOK
  <2>4. Coming' \subseteq OnWire \cup InHandler \cup AtTip /\ Coming' \subseteq Coming
    BY <2>3 DEF Coming
  <2>5. \A c \in Coming' : NotOlder(b, c)
    BY <2>1, <2>2, <2>4 DEF PathInOrder
  <2>6. PICK m \in Message : m = NewBlock(b) /\ Broadcast(m)
    BY <1>4, <2>1, <2>2, MessageTypes DEF PublishAnnounced
  <2>7. heard' = heard
    BY <1>4 DEF PublishAnnounced
  <2>8. QED
    BY <2>3, <2>4, <2>5, <2>6, <2>7, BroadcastAscends
<1>5. ASSUME UNCHANGED chain, worker' = worker \/ worker'.pc = "read",
             \/ UNCHANGED <<server, wire>>
             \/ Poll \/ Write \/ BreakStream
             \/ server'.pc = "poll" /\ wire' = wire
      PROVE  Coming' \subseteq Coming /\ AtTip' = AtTip
  <2>1. AtTip' = AtTip /\ InWorker' \subseteq InWorker
    BY <1>5 DEF AtTip, InWorker
  <2>2. CASE UNCHANGED <<server, wire>> \/ (server'.pc = "poll" /\ wire' = wire)
    <3>1. OnWire' = OnWire /\ InHandler' \subseteq InHandler
      BY <2>2 DEF OnWire, InHandler
    <3>2. QED
      BY <2>1, <3>1 DEF Coming
  <2>3. CASE Poll
    <3>1. Len(chain) \in DOMAIN chain
      BY <2>3, EmptySeq DEF Poll, FeedTypeOK, ChainTypeOK
    <3>2. LatestBlock \in AtTip
      BY <3>1 DEF AtTip, LatestBlock
    <3>3. OnWire' = OnWire /\ InHandler' = {LatestBlock}
      BY <2>3 DEF Poll, OnWire, InHandler, FeedTypeOK
    <3>4. QED
      BY <2>1, <3>2, <3>3 DEF Coming
  <2>4. CASE Write
    <3>1. server.latestBlock \in Block /\ server.latestBlock \in InHandler /\ InHandler' = {}
      BY <2>4 DEF Write, FeedTypeOK, InHandler
    <3>2. wire \in Seq(Block) /\ wire' = Append(wire, server.latestBlock)
      BY <2>4 DEF Write, FeedTypeOK
    <3>3. OnWire' \subseteq OnWire \cup {server.latestBlock}
      BY <3>1, <3>2 DEF OnWire
    <3>4. QED
      BY <2>1, <3>1, <3>3 DEF Coming
  <2>5. CASE BreakStream
    <3>1. OnWire' \subseteq OnWire /\ InHandler' = InHandler
      BY <2>5, WireShrinks DEF BreakStream, InHandler, PathInOrder
    <3>2. QED
      BY <2>1, <3>1 DEF Coming
  <2>6. QED
    BY <1>5, <2>2, <2>3, <2>4, <2>5
<1>6. CASE ServerNext \/ RestartHost \/ (WriteEpochRow /\ UNCHANGED feedVars) \/ UNCHANGED vars
  <2>1. inbox' = inbox /\ heard' = heard
    BY <1>6 DEF ServerNext, Poll, PollFails, Write, BreakStream, RestartHost, feedVars, vars
  <2>2. Coming' \subseteq Coming /\ AtTip' = AtTip
    BY <1>5, <1>6 DEF ServerNext, Poll, PollFails, Write, BreakStream, RestartHost, FreshServer,
       FreshWorker, WriteEpochRow, chainVars, feedVars, vars
  <2>3. QED
    BY <2>1, <2>2, QuietPageAscends
<1>7. CASE StopHost
  <2>1. inbox'[p] = << >> /\ heard' = heard
    BY <1>7 DEF StopHost
  <2>2. Coming' \subseteq Coming /\ AtTip' = AtTip
    BY <1>5, <1>7 DEF StopHost, chainVars
  <2>3. QED
    BY <2>1, <2>2, SilentPageAscends
<1>8. ASSUME NEW q \in Pages, PageNext(q) PROVE PageAscends(p)'
  <2>1. UNCHANGED <<chainVars, server, wire, worker>>
    BY <1>8 DEF PageNext, OpenPage, Connect, Disconnect, HandleNewEpoch, HandleNewBlock, Handle
  <2>2. Coming' = Coming /\ AtTip' = AtTip
    BY <2>1 DEF chainVars, Coming, InWorker, OnWire, InHandler, AtTip
  <2>3. CASE Connect(q) \/ p # q
    <3>1. inbox'[p] = inbox[p] /\ heard'[p] = heard[p]
      BY <1>8, <2>3 DEF PageNext, OpenPage, Connect, Disconnect, HandleNewEpoch,
         HandleNewBlock, Handle, FeedTypeOK
    <3>2. QED
      BY <2>2, <3>1, QuietPageAscends
  <2>4. CASE OpenPage(p) \/ Disconnect(p)
    <3>1. inbox'[p] = << >> /\ heard'[p] \in {heard[p], Silence}
      BY <2>4 DEF OpenPage, Disconnect, FeedTypeOK
    <3>2. QED
      BY <2>2, <3>1, SilentPageAscends
  <2>5. ASSUME NEW k, Handle(p, k) PROVE PageAscends(p)'
    BY <2>2, <2>5, HandleAscends
  <2>6. QED
    BY <1>8, <2>3, <2>4, <2>5 DEF PageNext, HandleNewEpoch, HandleNewBlock
<1>9. QED
  BY <1>1, <1>2, <1>3, <1>4, <1>6, <1>7, <1>8 DEF FeedNext, ChainNext, WorkerNext

LEMMA OrderNext == FeedTypeOK /\ FeedTypeOK' /\ OrderInv /\ [FeedNext]_vars => OrderInv'
<1> SUFFICES ASSUME FeedTypeOK, FeedTypeOK', OrderInv, [FeedNext]_vars, rollbacks' = 0
             PROVE  PathInOrder' /\ \A p \in Pages : PageAscends(p)'
  BY DEF OrderInv
<1>1. rollbacks = 0
  <2>1. rollbacks' \in {rollbacks, rollbacks + 1}
    BY DEF FeedNext, ChainNext, AddBlock, WriteEpochRow, Rollback, chainVars, ServerNext,
       WorkerNext, PageNext, Poll, PollFails, Write, BreakStream, AnnounceEpoch,
       PublishAnnounced, PublishBlock, StopHost, RestartHost, OpenPage, Connect, Disconnect,
       HandleNewEpoch, HandleNewBlock, Handle, vars
  <2>2. QED
    BY <2>1 DEF FeedTypeOK, ChainTypeOK
<1>2. PathInOrder /\ \A p \in Pages : PageAscends(p)
  BY <1>1 DEF OrderInv
<1>3. QED
  BY <1>2, PathNext, PageNextAscends

\* The inductive invariant of the order of the blocks holds throughout.
THEOREM OrderInvariant == FeedSpec => []OrderInv
<1>1. QED
  BY FeedTypeCorrect, OrderInit, OrderNext, PTL DEF FeedSpec

\* As long as no rollback has happened, no page is told of an older epoch or
\* block after a newer one: with any number of pages and restarts, however
\* often the tip is sent again, and whatever is lost on the way.
THEOREM FeedNeverGoesBack == FeedSpec => []NeverGoesBack
<1>1. OrderInv => NeverGoesBack
  BY DEF OrderInv, PageAscends, InboxAscends, NeverGoesBack
<1>2. QED
  BY <1>1, OrderInvariant, PTL


-----------------------------------------------------------------------------
(***************************************************************************)
(* The push path implements EpochAnnouncements.                            *)
(***************************************************************************)

LEMMA SessionInit == FeedInit => Announcements!Init
BY DEF FeedInit, Session, NoSession, NoEpoch, Announcements!Init, Announcements!Off,
   Announcements!NoEpoch

\* What a page hears may follow what it has heard.
LEMMA HandleReceives ==
  ASSUME FeedTypeOK, FeedInv, NEW p \in Pages, NEW k \in {"NewEpoch", "NewBlock"}, Handle(p, k)
  PROVE  \E e \in EpochNo : \/ Announcements!Receive(p, Announcements!EpochOf(e))
                            \/ Announcements!Receive(p, Announcements!BlockOf(e))
<1>1. inbox[p] \in Seq(Message) /\ inbox[p] # << >>
  BY DEF FeedTypeOK, Handle
<1>2. Head(inbox[p]) = inbox[p][1] /\ Head(inbox[p]) \in Message /\ 1 \in DOMAIN inbox[p]
  BY <1>1, EmptySeq
<1>3. PICK e \in EpochNo : e = Head(inbox[p]).epoch
  BY <1>2 DEF Message, EpochMessage, BlockMessage
<1>4. conn[p] = "on" /\ p \in Connected
  BY <1>1 DEF FeedInv, SessionInv, Connected
<1>5. Announcements!Follows(heard[p], inbox[p][1])
  <2>1. Announcements!Follows(Before(p, 1), inbox[p][1])
    BY <1>2, <1>4 DEF FeedInv, InboxInOrder
  <2>2. QED
    BY <2>1 DEF Before
<1>6. Session[p] = heard[p] /\ Session \in [Pages -> {NoSession} \cup Heard]
  BY <1>4 DEF Session, FeedTypeOK
<1>7. Announcements!Follows(Session[p], [kind |-> k, epoch |-> e])
  BY <1>2, <1>3, <1>5, <1>6 DEF Handle, Announcements!Follows
<1>8. Session' = [Session EXCEPT ![p] = [kind |-> k, epoch |-> e]]
  BY <1>3, <1>4 DEF Handle, Session, FeedTypeOK
<1>9. QED
  BY <1>7, <1>8 DEF Announcements!Receive, Announcements!EpochOf, Announcements!BlockOf

LEMMA SessionNext ==
  FeedTypeOK /\ FeedInv /\ [FeedNext]_vars => [Announcements!Next]_Session
<1> SUFFICES ASSUME FeedTypeOK, FeedInv, [FeedNext]_vars
             PROVE  [Announcements!Next]_Session
  OBVIOUS
<1>1. CASE UNCHANGED <<conn, heard>>
  BY <1>1 DEF Session
<1>2. CASE StopHost
  <2>1. \A q \in Pages : conn'[q] # "on"
    BY <1>2 DEF StopHost, FeedTypeOK
  <2>2. Announcements!Leave(Pages)
    BY <2>1 DEF Session, Announcements!Leave, Announcements!Off, NoSession, NoEpoch,
       Announcements!NoEpoch
  <2>3. QED
    BY <2>2 DEF Announcements!Next
<1>3. ASSUME NEW p \in Pages, PageNext(p) PROVE Announcements!Next
  <2>1. CASE OpenPage(p) \/ Disconnect(p)
    <3>1. /\ conn'[p] # "on"
          /\ \A q \in Pages \ {p} : conn'[q] = conn[q] /\ heard'[q] = heard[q]
      BY <2>1 DEF OpenPage, Disconnect, FeedTypeOK
    <3>2. Announcements!Leave({p})
      BY <3>1 DEF Session, Announcements!Leave, Announcements!Off, NoSession, NoEpoch,
         Announcements!NoEpoch
    <3>3. QED
      BY <3>2 DEF Announcements!Next
  <2>2. CASE Connect(p)
    <3>1. Session[p] = Announcements!Off
      BY <2>2 DEF Connect, Session, NoSession, NoEpoch, Announcements!Off,
         Announcements!NoEpoch
    <3>2. heard[p] = Announcements!Silence
      BY <2>2 DEF Connect, FeedInv, SessionInv, Silence, NoEpoch, Announcements!Silence,
         Announcements!NoEpoch
    <3>3. Session' = [Session EXCEPT ![p] = heard[p]]
      BY <2>2 DEF Connect, Session, FeedTypeOK
    <3>4. QED
      BY <3>1, <3>2, <3>3 DEF Announcements!Join, Announcements!Next
  <2>3. ASSUME NEW k \in {"NewEpoch", "NewBlock"}, Handle(p, k) PROVE Announcements!Next
    BY <2>3, HandleReceives DEF Announcements!Next
  <2>4. QED
    BY <1>3, <2>1, <2>2, <2>3 DEF PageNext, HandleNewEpoch, HandleNewBlock
<1>4. CASE ChainNext /\ UNCHANGED feedVars
  BY <1>1, <1>4 DEF feedVars
<1>5. CASE ServerNext \/ AnnounceEpoch \/ PublishAnnounced \/ PublishBlock \/ RestartHost
  BY <1>1, <1>5 DEF ServerNext, Poll, PollFails, Write, BreakStream, AnnounceEpoch,
     PublishAnnounced, PublishBlock, RestartHost
<1>6. QED
  BY <1>1, <1>2, <1>3, <1>4, <1>5 DEF FeedNext, WorkerNext, vars, feedVars

\* A page that is connected may count on announcements: every behaviour of
\* the push path is one of EpochAnnouncements.
THEOREM FeedKeepsAnnouncements == FeedSpec => KeepsAnnouncements
<1>1. QED
  BY FeedTypeCorrect, FeedInvariant, SessionInit, SessionNext, PTL
     DEF FeedSpec, KeepsAnnouncements, Announcements!Spec

-----------------------------------------------------------------------------
(***************************************************************************)
(* The preview is a client of the push path: it adds nothing to it.        *)
(***************************************************************************)
LEMMA PreviewStepIsFeedStep == [Next]_allVars => [FeedNext]_vars
<1> SUFFICES ASSUME [Next]_allVars PROVE [FeedNext]_vars
  OBVIOUS
<1>1. CASE FeedStep
  BY <1>1 DEF FeedStep, FeedNext, PageNext
<1>2. ASSUME NEW p \in Pages, InitFetchEpoch(p) \/ OnNewEpoch(p) \/ OnNewBlock(p)
      PROVE  FeedNext
  BY <1>2 DEF InitFetchEpoch, OnNewEpoch, OnNewBlock, FeedNext, PageNext
<1>3. ASSUME NEW p \in Pages, NEW i \in Slots, FetchStep(p, i) PROVE UNCHANGED vars
  BY <1>3 DEF FetchStep, ReadEpoch, ReadBlock, AnswerFails, ReplyOk, ReplyNotOk,
     ReplyBody, LoseFetch
<1>4. QED
  BY <1>1, <1>2, <1>3 DEF Next, allVars

\* Whatever BlockFeed keeps, a page with its preview keeps.
THEOREM PreviewUsesFeed == Spec => FeedSpec
<1>1. Init => FeedInit
  BY DEF Init
<1>2. QED
  BY <1>1, PreviewStepIsFeedStep, PTL DEF Spec, FeedSpec

\* A page with its preview may count on announcements like any other client ...
THEOREM PreviewKeepsAnnouncements == Spec => KeepsAnnouncements
BY PreviewUsesFeed, FeedKeepsAnnouncements

\* ... and is not told of an older epoch or block after a newer one.
THEOREM PreviewNeverGoesBack == Spec => []NeverGoesBack
BY PreviewUsesFeed, FeedNeverGoesBack

-----------------------------------------------------------------------------
HasNumber == {"epochRead", "ok", "body"}

LEMMA IdleType == Idle \in Fetch /\ \A k \in EpochNo \cup {NoEpoch} : Sent(k) \in Fetch
<1>1. NoEpoch \in EpochNo \cup {NoEpoch} /\ 0 \in 0..MaxSlot
  OBVIOUS
<1>2. QED
  BY <1>1 DEF Idle, Sent, Fetch, Stage

\* A change of one fetch of one page keeps the type of all.
LEMMA AnswerType ==
  ASSUME TypeOK, NEW p \in Pages, NEW i \in Slots, NEW f \in Fetch,
         f.stage \in HasNumber => f.number \in EpochNo, Answer(p, i, f)
  PROVE  /\ fetches' \in [Pages -> [Slots -> Fetch]]
         /\ \A q \in Pages : \A j \in Slots :
              /\ fetches'[q][j].stage \in HasNumber => fetches'[q][j].number \in EpochNo
              /\ fetches'[q][j] = IF q = p /\ j = i THEN f ELSE fetches[q][j]
BY DEF TypeOK, Answer, HasNumber

LEMMA TypeInit == Init => TypeOK
<1> SUFFICES ASSUME Init PROVE TypeOK
  OBVIOUS
<1>1. FeedTypeOK
  BY FeedTypeInit DEF Init
<1>2. QED
  BY <1>1, IdleType DEF Init, TypeOK, Idle

LEMMA TypeNext == TypeOK /\ [Next]_allVars => TypeOK'
<1> SUFFICES ASSUME TypeOK, [Next]_allVars PROVE TypeOK'
  OBVIOUS
<1>1. FeedTypeOK'
  BY FeedTypeNext, PreviewStepIsFeedStep DEF TypeOK
<1>2. CASE UNCHANGED previewVars
  BY <1>1, <1>2 DEF TypeOK, previewVars
<1>3. ASSUME NEW p \in Pages, InitFetchEpoch(p) PROVE TypeOK'
  BY <1>1, <1>3, IdleType DEF TypeOK, InitFetchEpoch, Idle, Sent
<1>4. ASSUME NEW p \in Pages, OnNewEpoch(p) PROVE TypeOK'
  <2>1. Head(inbox[p]).epoch \in EpochNo
    <3>1. Head(inbox[p]) \in Message
      BY <1>4, HeadTailProperties DEF OnNewEpoch, HandleNewEpoch, Handle, TypeOK, FeedTypeOK
    <3>2. QED
      BY <3>1 DEF Message, EpochMessage, BlockMessage
  <2>2. PICK i \in Slots : Answer(p, i, Sent(Head(inbox[p]).epoch))
    BY <1>4 DEF OnNewEpoch, UpdateEpoch, Answer
  <2>3. Sent(Head(inbox[p]).epoch) \in Fetch /\ Sent(Head(inbox[p]).epoch).stage \notin HasNumber
    BY <2>1, IdleType DEF Sent, HasNumber
  <2>4. QED
    BY <1>1, <1>4, <2>2, <2>3, AnswerType DEF TypeOK, OnNewEpoch, HasNumber
<1>5. ASSUME NEW p \in Pages, OnNewBlock(p) PROVE TypeOK'
  <2>1. Head(inbox[p]).slot \in 0..MaxSlot
    <3>1. Head(inbox[p]) \in Message /\ Head(inbox[p]).kind = "NewBlock"
      BY <1>5, HeadTailProperties DEF OnNewBlock, HandleNewBlock, Handle, TypeOK, FeedTypeOK
    <3>2. QED
      BY <3>1 DEF Message, EpochMessage, BlockMessage
  <2>2. shown' \in [Pages -> Shown \cup {Hidden}]
    BY <1>5, <2>1 DEF OnNewBlock, TypeOK, Shown, Hidden
  <2>3. QED
    BY <1>1, <1>5, <2>2 DEF TypeOK, OnNewBlock
<1>6. ASSUME NEW p \in Pages, NEW i \in Slots, FetchStep(p, i) PROVE TypeOK'
  <2>1. fetches[p][i] \in Fetch
    BY DEF TypeOK
  <2>2. CASE ReadEpoch(p, i)
    <3> DEFINE f == [fetches[p][i] EXCEPT !.stage = "epochRead", !.number = CurrentEpochRow]
    <3>1. CurrentEpochRow \in EpochNo
      BY <2>2, CurrentEpochRowIsNewest DEF ReadEpoch, TypeOK, FeedTypeOK, ChainTypeOK
    <3>2. f \in Fetch /\ f.number \in EpochNo
      BY <2>1, <3>1 DEF Fetch, Stage
    <3>3. QED
      BY <1>1, <2>2, <3>2, AnswerType DEF ReadEpoch, TypeOK, HasNumber
  <2>3. CASE ReadBlock(p, i)
    <3> DEFINE e == fetches[p][i].number
               f == [fetches[p][i] EXCEPT !.stage = "ok", !.slot = LatestBlockForEpoch(e).slot]
    <3>1. LatestBlockForEpoch(e) \in Block
      <4>1. EpochRows(e) \subseteq 0..Len(chain) /\ Len(chain) \in Nat /\ EpochRows(e) # {}
        BY <2>3 DEF ReadBlock, EpochRows, TypeOK, FeedTypeOK, ChainTypeOK
      <4>2. Max(EpochRows(e)) \in DOMAIN chain
        BY <4>1, MaxOfBounded DEF EpochRows
      <4>3. QED
        BY <4>2 DEF LatestBlockForEpoch, TypeOK, FeedTypeOK, ChainTypeOK
    <3>2. f \in Fetch /\ f.number \in EpochNo
      BY <2>1, <2>3, <3>1 DEF Fetch, Stage, Block, ReadBlock, TypeOK
    <3>3. QED
      BY <1>1, <2>3, <3>2, AnswerType DEF ReadBlock, TypeOK, HasNumber
  <2>4. CASE AnswerFails(p, i)
    <3> DEFINE f == [fetches[p][i] EXCEPT !.stage = "failed"]
    <3>1. f \in Fetch /\ f.stage \notin HasNumber
      BY <2>1 DEF Fetch, Stage, HasNumber
    <3>2. QED
      BY <1>1, <2>4, <3>1, AnswerType DEF AnswerFails, TypeOK, HasNumber
  <2>5. CASE ReplyOk(p, i)
    <3> DEFINE f == [fetches[p][i] EXCEPT !.stage = "body"]
    <3>1. f \in Fetch /\ f.number \in EpochNo
      BY <2>1, <2>5 DEF Fetch, Stage, ReplyOk, TypeOK
    <3>2. QED
      BY <1>1, <2>5, <3>1, AnswerType DEF ReplyOk, TypeOK, HasNumber
  <2>6. Idle \in Fetch /\ Idle.stage \notin HasNumber
    BY IdleType DEF Idle, HasNumber
  <2>7. CASE ReplyNotOk(p, i)
    BY <1>1, <2>6, <2>7, AnswerType DEF ReplyNotOk, TypeOK, HasNumber
  <2>8. CASE ReplyBody(p, i)
    <3>1. EpochToShow(p, fetches[p][i]) \in Shown \cup {Hidden}
      BY <2>1, <2>8 DEF ReplyBody, EpochToShow, Shown, Fetch, TypeOK
    <3>2. QED
      BY <1>1, <2>6, <2>8, <3>1, AnswerType DEF ReplyBody, TypeOK, HasNumber
  <2>9. CASE LoseFetch(p, i)
    BY <1>1, <2>6, <2>9, AnswerType DEF LoseFetch, TypeOK, HasNumber
  <2>10. QED
    BY <1>6, <2>2, <2>3, <2>4, <2>5, <2>7, <2>8, <2>9 DEF FetchStep
<1>7. QED
  BY <1>2, <1>3, <1>4, <1>5, <1>6 DEF Next, FeedStep, allVars

\* Every variable of the preview keeps to its type and its bound.
THEOREM TypeCorrect == Spec => []TypeOK
<1>1. QED
  BY TypeInit, TypeNext, PTL DEF Spec

-----------------------------------------------------------------------------
(***************************************************************************)
(* After an error no epoch is shown.                                       *)
(***************************************************************************)
LEMMA ErrorHidesNext ==
  TypeOK /\ ErrorHidesPreview /\ [Next]_allVars => ErrorHidesPreview'
<1> SUFFICES ASSUME TypeOK, ErrorHidesPreview, [Next]_allVars, NEW q \in Pages
             PROVE  errors'[q] => shown'[q] = Hidden
  BY DEF ErrorHidesPreview
<1> USE DEF ErrorHidesPreview
<1>1. CASE UNCHANGED previewVars
  BY <1>1 DEF previewVars
<1>2. ASSUME NEW p \in Pages, InitFetchEpoch(p) \/ OnNewEpoch(p) \/ OnNewBlock(p)
      PROVE  errors'[q] => shown'[q] = Hidden
  BY <1>2 DEF TypeOK, InitFetchEpoch, OnNewEpoch, OnNewBlock
<1>3. ASSUME NEW p \in Pages, NEW i \in Slots, FetchStep(p, i)
      PROVE  errors'[q] => shown'[q] = Hidden
  <2>1. CASE UNCHANGED <<shown, errors>>
    BY <2>1
  <2>2. CASE ReplyNotOk(p, i)
    BY <2>2 DEF TypeOK, ReplyNotOk
  <2>3. CASE ReplyBody(p, i)
    BY <2>3 DEF TypeOK, ReplyBody, EpochToShow
  <2>4. QED
    BY <1>3, <2>1, <2>2, <2>3 DEF FetchStep, ReadEpoch, ReadBlock, AnswerFails, ReplyOk, LoseFetch
<1>4. QED
  BY <1>1, <1>2, <1>3 DEF Next, FeedStep, allVars

-----------------------------------------------------------------------------
(***************************************************************************)
(* When a row of public.epoch is there as soon as the epoch's first block, *)
(* no epoch is anywhere between the database and a page without its row.   *)
(***************************************************************************)
RowsFirst == ~EpochRowLags => EpochsUnderWay \subseteq epochs

\* The same, place by place.
LEMMA UnderWayByPlace ==
  EpochsUnderWay \subseteq epochs <=>
    /\ \A i \in DOMAIN chain : chain[i].epoch \in epochs
    /\ server.pc = "write" => server.latestBlock.epoch \in epochs
    /\ \A i \in DOMAIN wire : wire[i].epoch \in epochs
    /\ worker.pc = "publish" => worker.block.epoch \in epochs
    /\ \A p \in Pages : \A i \in DOMAIN inbox[p] : inbox[p][i].epoch \in epochs
BY DEF EpochsUnderWay

LEMMA RowsFirstInit == FeedInit => RowsFirst
<1> SUFFICES ASSUME FeedInit PROVE EpochsUnderWay \subseteq epochs
  BY DEF RowsFirst
<1>1. \A i \in DOMAIN chain : chain[i].epoch \in epochs
  <2>1. SUFFICES ASSUME NEW i \in DOMAIN chain PROVE chain[i].epoch \in epochs
    OBVIOUS
  <2>2. chain \in Seq(Block)
    BY FeedTypeInit DEF FeedTypeOK, ChainTypeOK
  <2>3. chain[i].epoch \in 0..chain[i].epoch
    <3>1. chain[i] \in Block
      BY <2>2
    <3>2. QED
      BY <3>1 DEF Block, EpochNo
  <2>4. QED
    BY <2>3 DEF FeedInit, ChainInit
<1>2. QED
  BY <1>1, UnderWayByPlace DEF FeedInit, FreshServer, FreshWorker

LEMMA EpochRowsStay == [FeedNext]_vars => epochs \subseteq epochs'
<1> SUFFICES ASSUME [FeedNext]_vars PROVE epochs \subseteq epochs'
  OBVIOUS
<1>1. CASE ChainNext
  BY <1>1, ChainKeepsEpochRows
<1>2. CASE UNCHANGED chainVars
  BY <1>2 DEF chainVars
<1>3. QED
  BY <1>1, <1>2 DEF FeedNext, ServerNext, WorkerNext, PageNext, Poll, PollFails, Write,
     BreakStream, AnnounceEpoch, PublishAnnounced, PublishBlock, StopHost, RestartHost,
     OpenPage, Connect, Disconnect, HandleNewEpoch, HandleNewBlock, Handle, vars

LEMMA RowsFirstNext == FeedTypeOK /\ RowsFirst /\ [FeedNext]_vars => RowsFirst'
<1> SUFFICES ASSUME FeedTypeOK, ~EpochRowLags, EpochsUnderWay \subseteq epochs, [FeedNext]_vars
             PROVE  (EpochsUnderWay \subseteq epochs)'
  BY DEF RowsFirst
<1>1. /\ \A i \in DOMAIN chain : chain[i].epoch \in epochs
      /\ server.pc = "write" => server.latestBlock.epoch \in epochs
      /\ \A i \in DOMAIN wire : wire[i].epoch \in epochs
      /\ worker.pc = "publish" => worker.block.epoch \in epochs
      /\ \A p \in Pages : \A i \in DOMAIN inbox[p] : inbox[p][i].epoch \in epochs
  BY UnderWayByPlace
<1>2. epochs \subseteq epochs'
  BY EpochRowsStay
<1>3. (\A i \in DOMAIN chain : chain[i].epoch \in epochs)'
  <2>1. CASE AddBlock
    <3>1. PICK b \in Block : chain' = Append(chain, b) /\ epochs' = epochs \cup {b.epoch}
      BY <2>1 DEF AddBlock
    <3>2. chain \in Seq(Block)
      BY DEF FeedTypeOK, ChainTypeOK
    <3>3. QED
      BY <1>1, <3>1, <3>2
  <2>2. CASE Rollback
    <3>1. chain \in Seq(Block)
      BY DEF FeedTypeOK, ChainTypeOK
    <3>2. PICK n \in 1..(Len(chain) - 1) : chain' = SubSeq(chain, 1, n)
      BY <2>2 DEF Rollback
    <3>3. Len(chain') = n /\ \A i \in 1..n : chain'[i] = chain[i]
      BY <3>1, <3>2
    <3>4. QED
      BY <1>1, <1>2, <3>1, <3>2, <3>3
  <2>3. CASE UNCHANGED chain
    BY <1>1, <1>2, <2>3
  <2>4. QED
    BY <2>1, <2>2, <2>3 DEF FeedNext, ChainNext, WriteEpochRow, chainVars, ServerNext,
       WorkerNext, PageNext, Poll, PollFails, Write, BreakStream, AnnounceEpoch,
       PublishAnnounced, PublishBlock, StopHost, RestartHost, OpenPage, Connect, Disconnect,
       HandleNewEpoch, HandleNewBlock, Handle, vars
<1>4. (server.pc = "write" => server.latestBlock.epoch \in epochs)'
  <2>1. CASE Poll
    <3>1. Len(chain) \in DOMAIN chain
      BY <2>1, EmptySeq DEF Poll, FeedTypeOK, ChainTypeOK
    <3>2. LatestBlock.epoch \in epochs
      BY <1>1, <3>1 DEF LatestBlock
    <3>3. QED
      BY <1>2, <2>1, <3>2 DEF Poll, FeedTypeOK
  <2>2. CASE server' = server
    BY <1>1, <1>2, <2>2
  <2>3. CASE server'.pc # "write"
    BY <2>3
  <2>4. QED
    BY <2>1, <2>2, <2>3 DEF FreshServer, FeedNext, ChainNext, AddBlock, WriteEpochRow,
       Rollback, feedVars, ServerNext,
       WorkerNext, PageNext, Poll, PollFails, Write, BreakStream, AnnounceEpoch,
       PublishAnnounced, PublishBlock, StopHost, RestartHost, OpenPage, Connect, Disconnect,
       HandleNewEpoch, HandleNewBlock, Handle, vars
<1>5. (\A i \in DOMAIN wire : wire[i].epoch \in epochs)'
  <2>1. CASE Write
    <3>1. wire \in Seq(Block) /\ wire' = Append(wire, server.latestBlock)
      BY <2>1 DEF Write, FeedTypeOK
    <3>2. server.latestBlock.epoch \in epochs
      BY <1>1, <2>1 DEF Write
    <3>3. QED
      BY <1>1, <1>2, <3>1, <3>2
  <2>2. CASE wire' = wire
    BY <1>1, <1>2, <2>2
  <2>3. CASE wire # << >> /\ wire' = Tail(wire)
    <3>1. wire \in Seq(Block)
      BY DEF FeedTypeOK
    <3>2. /\ Len(Tail(wire)) = Len(wire) - 1
          /\ \A i \in 1..Len(Tail(wire)) : Tail(wire)[i] = wire[i + 1]
          /\ Tail(wire) \in Seq(Block)
      BY <2>3, <3>1, HeadTailProperties
    <3>3. ASSUME NEW i \in DOMAIN wire' PROVE wire'[i].epoch \in epochs'
      <4>1. i \in 1..Len(Tail(wire)) /\ i + 1 \in DOMAIN wire
        BY <2>3, <3>1, <3>2
      <4>2. QED
        BY <1>1, <1>2, <2>3, <3>2, <4>1
    <3>4. QED
      BY <3>3
  <2>4. CASE BreakStream
    <3>1. wire \in Seq(Block)
      BY DEF FeedTypeOK
    <3>2. PICK n \in 0..Len(wire) : wire' = SubSeq(wire, 1, n)
      BY <2>4 DEF BreakStream
    <3>3. \A i \in DOMAIN wire' : i \in DOMAIN wire /\ wire'[i] = wire[i]
      BY <3>1, <3>2
    <3>4. QED
      BY <1>1, <1>2, <3>3
  <2>5. QED
    BY <2>1, <2>2, <2>3, <2>4 DEF FeedNext, ChainNext, AddBlock, WriteEpochRow, Rollback,
       feedVars, ServerNext, WorkerNext, PageNext, Poll, PollFails, Write, BreakStream, AnnounceEpoch,
       PublishAnnounced, PublishBlock, StopHost, RestartHost, OpenPage, Connect, Disconnect,
       HandleNewEpoch, HandleNewBlock, Handle, vars
<1>6. (worker.pc = "publish" => worker.block.epoch \in epochs)'
  <2>1. CASE AnnounceEpoch
    <3>1. Head(wire) = wire[1] /\ 1 \in DOMAIN wire
      BY <2>1, EmptySeq DEF AnnounceEpoch, FeedTypeOK
    <3>2. QED
      BY <1>1, <1>2, <2>1, <3>1 DEF AnnounceEpoch
  <2>2. CASE worker' = worker
    BY <1>1, <1>2, <2>2
  <2>3. CASE worker'.pc # "publish"
    BY <2>3
  <2>4. CASE PublishAnnounced
    BY <2>4 DEF PublishAnnounced, FeedTypeOK
  <2>5. QED
    BY <2>1, <2>2, <2>3, <2>4 DEF FreshWorker, FeedNext, ChainNext, AddBlock,
       WriteEpochRow, Rollback, feedVars, ServerNext,
       WorkerNext, PageNext, Poll, PollFails, Write, BreakStream, AnnounceEpoch,
       PublishAnnounced, PublishBlock, StopHost, RestartHost, OpenPage, Connect, Disconnect,
       HandleNewEpoch, HandleNewBlock, Handle, vars
<1>7. ASSUME NEW p \in Pages, NEW i \in DOMAIN inbox'[p] PROVE inbox'[p][i].epoch \in epochs'
  <2>1. inbox[p] \in Seq(Message)
    BY DEF FeedTypeOK
  <2>2. ASSUME NEW m \in Message, Broadcast(m), m.epoch \in epochs
        PROVE  inbox'[p][i].epoch \in epochs'
    <3>1. inbox'[p] = IF conn[p] = "on" THEN Append(inbox[p], m) ELSE inbox[p]
      BY <2>2, BroadcastType DEF FeedTypeOK
    <3>2. QED
      BY <1>1, <1>2, <2>1, <2>2, <3>1
  <2>3. CASE AnnounceEpoch \/ PublishBlock
    <3>1. Head(wire) = wire[1] /\ 1 \in DOMAIN wire
      BY <2>3, EmptySeq DEF AnnounceEpoch, PublishBlock, FeedTypeOK
    <3>2. Head(wire) \in Block
      BY <3>1 DEF FeedTypeOK
    <3>3. Head(wire).epoch \in EpochNo
      BY <3>2 DEF Block
    <3>4. PICK m \in Message : Broadcast(m) /\ m.epoch = Head(wire).epoch
      BY <2>3, <3>2, <3>3, MessageTypes DEF AnnounceEpoch, PublishBlock, NewEpoch, NewBlock
    <3>5. QED
      BY <1>1, <2>2, <3>1, <3>4
  <2>4. CASE PublishAnnounced
    <3>1. worker.block \in Block /\ worker.block.epoch \in epochs
      BY <1>1, <2>4 DEF PublishAnnounced, FeedTypeOK
    <3>2. PICK m \in Message : Broadcast(m) /\ m.epoch = worker.block.epoch
      BY <2>4, <3>1, MessageTypes DEF PublishAnnounced, NewBlock
    <3>3. QED
      BY <2>2, <3>1, <3>2
  <2>5. CASE inbox'[p] = inbox[p] \/ inbox'[p] = << >>
    BY <1>1, <1>2, <2>5
  <2>6. ASSUME NEW k, Handle(p, k) PROVE inbox'[p][i].epoch \in epochs'
    <3>1. inbox[p] # << >> /\ inbox'[p] = Tail(inbox[p])
      BY <2>6 DEF Handle, FeedTypeOK
    <3>2. /\ Len(Tail(inbox[p])) = Len(inbox[p]) - 1
          /\ \A j \in 1..Len(Tail(inbox[p])) : Tail(inbox[p])[j] = inbox[p][j + 1]
          /\ Tail(inbox[p]) \in Seq(Message)
      BY <2>1, <3>1, HeadTailProperties
    <3>3. i \in 1..Len(Tail(inbox[p])) /\ i + 1 \in DOMAIN inbox[p]
      BY <2>1, <3>1, <3>2
    <3>4. QED
      BY <1>1, <1>2, <3>1, <3>2, <3>3
  <2>7. ASSUME NEW q \in Pages, PageNext(q), PageNext(q) => q = p \/ inbox'[p] = inbox[p]
        PROVE  inbox'[p][i].epoch \in epochs'
    BY <2>5, <2>6, <2>7 DEF PageNext, OpenPage, Connect, Disconnect, HandleNewEpoch,
       HandleNewBlock, Handle, FeedTypeOK
  <2>8. ASSUME NEW q \in Pages, PageNext(q) PROVE q = p \/ inbox'[p] = inbox[p]
    BY <2>8 DEF PageNext, OpenPage, Connect, Disconnect, HandleNewEpoch, HandleNewBlock,
       Handle, FeedTypeOK
  <2>9. CASE StopHost \/ UNCHANGED inbox
    BY <2>5, <2>9 DEF StopHost
  <2>10. QED
    BY <2>3, <2>4, <2>7, <2>8, <2>9 DEF FeedNext, feedVars, ServerNext, WorkerNext, Poll,
       PollFails, Write, BreakStream, RestartHost, vars
<1>8. QED
  BY <1>3, <1>4, <1>5, <1>6, <1>7 DEF EpochsUnderWay

\* If epoch rows are there as soon as their first block, no epoch is under way
\* to a page without its row.
THEOREM EpochsUnderWayHaveRows == FeedSpec => []RowsFirst
<1>1. QED
  BY FeedTypeCorrect, RowsFirstInit, RowsFirstNext, PTL DEF FeedSpec

-----------------------------------------------------------------------------
(***************************************************************************)
(* The epoch shown answers the announcement that asked for it.             *)
(***************************************************************************)
FetchOK(f) ==
  /\ f.knew \in epochs \cup {NoEpoch}
  /\ f.stage \in HasNumber => f.number >= f.knew

FetchesOK == \A p \in Pages : \A i \in Slots : FetchOK(fetches[p][i])
ShownOK   == \A p \in Pages : shown[p] # Hidden => shown[p].number >= shown[p].knew

LEMMA PreviewInvParts ==
  PreviewInv <=> ErrorHidesPreview /\ RowsFirst /\ (~EpochRowLags => FetchesOK /\ ShownOK)
BY DEF PreviewInv, RowsFirst, FetchesOK, FetchOK, ShownOK, HasNumber, AnswersItsAnnouncement

LEMMA PreviewInvInit == Init => PreviewInv
<1> SUFFICES ASSUME Init PROVE PreviewInv
  OBVIOUS
<1>1. RowsFirst
  BY RowsFirstInit DEF Init
<1>2. FetchesOK
  BY DEF Init, FetchesOK, FetchOK, Idle, HasNumber
<1>3. QED
  BY <1>1, <1>2, PreviewInvParts DEF Init, ErrorHidesPreview, ShownOK

\* A fetch that changes to one in order leaves all in order.
LEMMA AnswerKeepsFetches ==
  ASSUME TypeOK, FetchesOK, epochs \subseteq epochs',
         NEW p \in Pages, NEW i \in Slots, NEW f, Answer(p, i, f),
         f.knew \in epochs \cup {NoEpoch}, f.stage \in HasNumber => f.number >= f.knew
  PROVE  FetchesOK'
<1>1. SUFFICES ASSUME NEW q \in Pages, NEW j \in Slots
               PROVE  FetchOK(fetches[q][j])'
  BY DEF FetchesOK
<1>2. fetches'[q][j] = IF q = p /\ j = i THEN f ELSE fetches[q][j]
  BY DEF Answer, TypeOK
<1>3. FetchOK(fetches[q][j])
  BY DEF FetchesOK
<1>4. QED
  BY <1>2, <1>3 DEF FetchOK

LEMMA FetchesOKNext ==
  ASSUME TypeOK, RowsFirst, ~EpochRowLags, FetchesOK, [Next]_allVars
  PROVE  FetchesOK'
<1>1. epochs \subseteq epochs'
  BY EpochRowsStay, PreviewStepIsFeedStep
<1>2. CASE UNCHANGED fetches
  BY <1>1, <1>2 DEF FetchesOK, FetchOK
<1>3. ASSUME NEW p \in Pages, InitFetchEpoch(p) PROVE FetchesOK'
  <2>1. \A q \in Pages : \A j \in Slots :
          fetches'[q][j] \in {fetches[q][j], Idle, Sent(NoEpoch)}
    BY <1>3 DEF InitFetchEpoch, TypeOK
  <2>2. QED
    BY <1>1, <2>1 DEF FetchesOK, FetchOK, Idle, Sent, HasNumber
<1>4. ASSUME NEW p \in Pages, OnNewEpoch(p) PROVE FetchesOK'
  <2> DEFINE e == Head(inbox[p]).epoch
  <2>1. PICK i \in Slots : Answer(p, i, Sent(e))
    BY <1>4 DEF OnNewEpoch, UpdateEpoch, Answer
  <2>2. e \in epochs
    <3>1. Head(inbox[p]) = inbox[p][1] /\ 1 \in DOMAIN inbox[p]
      BY <1>4, EmptySeq DEF OnNewEpoch, HandleNewEpoch, Handle, TypeOK, FeedTypeOK
    <3>2. QED
      BY <3>1, UnderWayByPlace DEF RowsFirst
  <2>3. QED
    BY <1>1, <2>1, <2>2, AnswerKeepsFetches DEF Sent, HasNumber
<1>5. ASSUME NEW p \in Pages, NEW i \in Slots, FetchStep(p, i) PROVE FetchesOK'
  <2> DEFINE f == fetches[p][i]
  <2>1. f \in Fetch /\ f.knew \in epochs \cup {NoEpoch}
        /\ (f.stage \in HasNumber => f.number >= f.knew)
    BY DEF FetchesOK, FetchOK, TypeOK
  <2>2. CASE ReadEpoch(p, i)
    <3>1. CurrentEpochRow >= f.knew
      <4>1. epochs \subseteq EpochNo /\ CurrentEpochRow \in epochs
            /\ \A e \in epochs : CurrentEpochRow >= e
        BY <2>2, CurrentEpochRowIsNewest DEF ReadEpoch, TypeOK, FeedTypeOK, ChainTypeOK
      <4>2. QED
        BY <2>1, <4>1 DEF NoEpoch, EpochNo
    <3>2. QED
      BY <1>1, <2>1, <2>2, <3>1, AnswerKeepsFetches DEF ReadEpoch, Fetch
  <2>3. CASE ReadBlock(p, i)
    BY <1>1, <2>1, <2>3, AnswerKeepsFetches DEF ReadBlock, Fetch, HasNumber
  <2>4. CASE AnswerFails(p, i)
    BY <1>1, <2>1, <2>4, AnswerKeepsFetches DEF AnswerFails, Fetch, HasNumber
  <2>5. CASE ReplyOk(p, i)
    BY <1>1, <2>1, <2>5, AnswerKeepsFetches DEF ReplyOk, Fetch, HasNumber
  <2>6. CASE ReplyNotOk(p, i) \/ ReplyBody(p, i) \/ LoseFetch(p, i)
    BY <1>1, <2>6, AnswerKeepsFetches DEF ReplyNotOk, ReplyBody, LoseFetch, Idle, HasNumber
  <2>7. QED
    BY <1>5, <2>2, <2>3, <2>4, <2>5, <2>6 DEF FetchStep
<1>6. QED
  BY <1>2, <1>3, <1>4, <1>5 DEF Next, FeedStep, previewVars, OnNewBlock, allVars

LEMMA ShownOKNext ==
  ASSUME TypeOK, FetchesOK, ShownOK, [Next]_allVars
  PROVE  ShownOK'
<1> SUFFICES ASSUME NEW q \in Pages, shown'[q] # Hidden
             PROVE  shown'[q].number >= shown'[q].knew
  BY DEF ShownOK
<1>1. CASE shown'[q] = shown[q]
  BY <1>1 DEF ShownOK
<1>2. ASSUME NEW p \in Pages, OnNewBlock(p) PROVE shown'[q].number >= shown'[q].knew
  <2>1. CASE shown[p] # Hidden /\ q = p
    <3>1. shown[p] \in Shown
      BY <2>1 DEF TypeOK
    <3>2. shown'[q].number = shown[q].number /\ shown'[q].knew = shown[q].knew
      BY <1>2, <2>1, <3>1 DEF OnNewBlock, TypeOK, Shown
    <3>3. QED
      BY <2>1, <3>2 DEF ShownOK
  <2>2. CASE ~(shown[p] # Hidden /\ q = p)
    BY <1>1, <1>2, <2>2 DEF OnNewBlock, TypeOK
  <2>3. QED
    BY <2>1, <2>2
<1>3. ASSUME NEW p \in Pages, InitFetchEpoch(p) PROVE shown'[q] \in {shown[q], Hidden}
  BY <1>3 DEF InitFetchEpoch, TypeOK
<1>4. ASSUME NEW p \in Pages, NEW i \in Slots, ReplyBody(p, i)
      PROVE  shown'[q].number >= shown'[q].knew
  <2>1. fetches[p][i].number >= fetches[p][i].knew
    BY <1>4 DEF ReplyBody, FetchesOK, FetchOK, HasNumber
  <2>2. CASE q = p
    <3>1. shown'[q] = EpochToShow(p, fetches[p][i])
      BY <1>4, <2>2 DEF ReplyBody, TypeOK
    <3>2. QED
      BY <2>1, <3>1 DEF EpochToShow
  <2>3. CASE q # p
    BY <1>1, <1>4, <2>3 DEF ReplyBody, TypeOK
  <2>4. QED
    BY <2>2, <2>3
<1>5. ASSUME NEW p \in Pages, NEW i \in Slots, ReplyNotOk(p, i) PROVE shown'[q] \in {shown[q], Hidden}
  BY <1>5 DEF ReplyNotOk, TypeOK
<1>6. QED
  BY <1>1, <1>2, <1>3, <1>4, <1>5 DEF Next, FeedStep, previewVars, OnNewEpoch, FetchStep,
     ReadEpoch, ReadBlock, AnswerFails, ReplyOk, LoseFetch, allVars

\* The preview's inductive invariant holds throughout.
THEOREM PreviewInvariant == Spec => []PreviewInv
<1>1. TypeOK /\ PreviewInv /\ [Next]_allVars => PreviewInv'
  <2> SUFFICES ASSUME TypeOK, PreviewInv, [Next]_allVars PROVE PreviewInv'
    OBVIOUS
  <2>1. ErrorHidesPreview'
    BY ErrorHidesNext, PreviewInvParts
  <2>2. RowsFirst'
    BY RowsFirstNext, PreviewStepIsFeedStep, PreviewInvParts DEF TypeOK
  <2>3. ~EpochRowLags => FetchesOK' /\ ShownOK'
    BY FetchesOKNext, ShownOKNext, PreviewInvParts
  <2>4. QED
    BY <2>1, <2>2, <2>3
       DEF PreviewInv, RowsFirst, FetchesOK, FetchOK, ShownOK, HasNumber, AnswersItsAnnouncement
<1>2. QED
  BY <1>1, TypeCorrect, PreviewInvInit, PTL DEF Spec

\* However many fetches are under way and in whatever order their answers and
\* the blocks come in, a page whose fetch has failed shows no epoch.
THEOREM ErrorAlwaysHides == Spec => []ErrorHidesPreview
<1>1. PreviewInv => ErrorHidesPreview
  BY DEF PreviewInv
<1>2. QED
  BY <1>1, PreviewInvariant, PTL

\* A page never shows an older epoch than the announcement it asked for.
THEOREM AnnouncementsAreAnswered == Spec => []AnswersItsAnnouncement
<1>1. PreviewInv => AnswersItsAnnouncement
  BY DEF PreviewInv
<1>2. QED
  BY <1>1, PreviewInvariant, PTL
=============================================================================
