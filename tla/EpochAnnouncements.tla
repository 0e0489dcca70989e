-------------------------- MODULE EpochAnnouncements --------------------------
(***************************************************************************)
(* What a page may count on once it is connected to the blocks hub: the    *)
(* epoch of the blocks it receives never changes unannounced.  A session   *)
(* is a series of messages in which each NewEpoch names another epoch than *)
(* the message before it and is followed by a block of that epoch, and     *)
(* each NewBlock is of the epoch of the message before it.  Only the first *)
(* message of a session may be of any epoch.                               *)
(***************************************************************************)
EXTENDS Integers

CONSTANTS
  Pages,    \* the browser pages
  EpochNo   \* epoch numbers

VARIABLE
  session   \* per page, the last message of its session

NoEpoch == -1

Off        == [kind |-> "off", epoch |-> NoEpoch]       \* not connected
Silence    == [kind |-> "silence", epoch |-> NoEpoch]   \* nothing received yet
EpochOf(e) == [kind |-> "NewEpoch", epoch |-> e]
BlockOf(e) == [kind |-> "NewBlock", epoch |-> e]

\* Message n may come right after m.
Follows(m, n) ==
  \/ /\ n.kind = "NewBlock"
     /\ m.kind # "off"
     /\ m.epoch \in {NoEpoch, n.epoch}
  \/ /\ n.kind = "NewEpoch"
     /\ m.kind \in {"silence", "NewBlock"}
     /\ m.epoch # n.epoch

Init == session = [p \in Pages |-> Off]

Join(p) ==
  /\ session[p] = Off
  /\ session' = [session EXCEPT ![p] = Silence]

Receive(p, m) ==
  /\ Follows(session[p], m)
  /\ session' = [session EXCEPT ![p] = m]

\* One page leaves, or the web application stops and all of them do.
Leave(P) == session' = [p \in Pages |-> IF p \in P THEN Off ELSE session[p]]

Next ==
  \/ \E p \in Pages : Join(p)
  \/ \E p \in Pages, e \in EpochNo : Receive(p, EpochOf(e)) \/ Receive(p, BlockOf(e))
  \/ \E P \in SUBSET Pages : Leave(P)

Spec == Init /\ [][Next]_session
=============================================================================
