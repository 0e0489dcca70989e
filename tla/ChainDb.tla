------------------------------- MODULE ChainDb -------------------------------
(***************************************************************************)
(* The part of the cardano-db-sync database that the DbSyncAPI service     *)
(* reads for its live data: the tables public.block and public.epoch.      *)
(* The tables are written by cardano-db-sync, which is not part of this    *)
(* repository: the actions that write them are an environment, modelled    *)
(* from what the service's queries and the schema dump (db_schema.sql)     *)
(* allow.  The operators that read them translate the service's queries.   *)
(***************************************************************************)
EXTENDS Integers, Sequences, FiniteSetsExt

CONSTANTS
  MaxEpoch,      \* the highest epoch number that is ever reached
  MaxSlot,       \* the last slot of an epoch
  MaxBlocks,     \* bound on the length of the chain
  MaxRollbacks,  \* bound on the number of rollbacks of the node
  EpochRowLags   \* db-sync writes an epoch's row later than its first block

ASSUME ChainAssumption ==
  /\ MaxEpoch \in Nat
  /\ MaxSlot \in Nat
  /\ MaxBlocks \in Nat
  /\ MaxRollbacks \in Nat
  /\ EpochRowLags \in BOOLEAN

VARIABLES
  chain,     \* rows of public.block by id: oldest first
  epochs,    \* the numbers in public.epoch.no
  rollbacks  \* rollbacks so far (only bounds the environment)

chainVars == <<chain, epochs, rollbacks>>

EpochNo == 0..MaxEpoch
BlockNo == 1..MaxBlocks
Block   == [no: BlockNo, epoch: EpochNo, slot: 0..MaxSlot]

\* C#'s null for a Block; in comparisons of numbers it is never looked at.
NoBlock == [no |-> 0, epoch |-> 0, slot |-> 0]

(***************************************************************************)
(* The service's queries.                                                  *)
(***************************************************************************)

\* GetLatestBlock: the row with the highest id.  QuerySingleAsync throws on
\* an empty table: callers guard with chain # <<>>.
LatestBlock == chain[Len(chain)]

\* GetCurrentEpoch: ORDER BY no DESC LIMIT 1.  QuerySingleAsync throws on an
\* empty table: callers guard with epochs # {}.
OldestEpochRow  == Min(epochs)  \* a mutant: ORDER BY no ASC
CurrentEpochRow == Max(epochs)

\* The rows of one epoch, and the last of them by id (GetLatestBlockForEpoch).
EpochRows(e) == {i \in DOMAIN chain : chain[i].epoch = e}
LatestBlockForEpoch(e) == chain[Max(EpochRows(e))]

(***************************************************************************)
(* The environment: cardano-db-sync following its node.                    *)
(***************************************************************************)

\* The service may be up before db-sync has inserted its first block, and
\* db-sync may have been following the chain for any number of epochs.
ChainInit ==
  /\ chain \in {<< >>} \cup {<<b>> : b \in [no: {1} \cap BlockNo, epoch: EpochNo, slot: {0}]}
  /\ epochs = UNION {0..chain[i].epoch : i \in DOMAIN chain}
  /\ rollbacks = 0

\* A later slot of the tip's epoch, or a slot of the next epoch; any epoch
\* when the database is empty.
Extends(b) ==
  /\ b.no = Len(chain) + 1
  /\ \/ chain = << >>
     \/ /\ chain # << >>
        /\ b.epoch = LatestBlock.epoch
        /\ b.slot > LatestBlock.slot
     \/ /\ chain # << >>
        /\ b.epoch = LatestBlock.epoch + 1

AddBlock ==
  /\ \E b \in Block :
       /\ Extends(b)
       /\ chain' = Append(chain, b)
       /\ epochs' = IF EpochRowLags THEN epochs ELSE epochs \cup {b.epoch}
  /\ UNCHANGED rollbacks

\* The row of an epoch that has blocks, written late.
WriteEpochRow ==
  /\ EpochRowLags
  /\ \E i \in DOMAIN chain :
       /\ chain[i].epoch \notin epochs
       /\ epochs' = epochs \cup {chain[i].epoch}
  /\ UNCHANGED <<chain, rollbacks>>

\* The node switches to another fork: db-sync deletes the blocks after the
\* fork point.  Nothing deletes rows of public.epoch: no foreign key leads
\* from it to public.block.
Rollback ==
  /\ rollbacks < MaxRollbacks
  /\ \E n \in 1..(Len(chain) - 1) : chain' = SubSeq(chain, 1, n)
  /\ rollbacks' = rollbacks + 1
  /\ UNCHANGED epochs

ChainNext == AddBlock \/ WriteEpochRow \/ Rollback

ChainTypeOK ==
  /\ chain \in Seq(Block)
  /\ Len(chain) <= MaxBlocks
  /\ epochs \subseteq EpochNo
  /\ rollbacks \in 0..MaxRollbacks
=============================================================================
