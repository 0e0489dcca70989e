------------------------------ MODULE StakePools ------------------------------
(***************************************************************************)
(* The stake pools of the DbSyncAPI service (StakePoolQueries.cs,          *)
(* StakePoolService.cs): a page of the pools of an epoch, or one pool, put *)
(* together by several queries that share no transaction, while            *)
(* cardano-db-sync writes the certificates it finds in new blocks.         *)
(***************************************************************************)
EXTENDS Integers, Sequences, FiniteSets, SequencesExt

CONSTANTS
  NumPools,      \* pools, by their public.pool_hash.id: 1..NumPools
  MaxEpoch,      \* bound on the epochs
  MaxCerts,      \* bound on the certificates
  MaxRollbacks   \* bound on the rollbacks of the node

ASSUME PoolsAssumption ==
  /\ NumPools \in Nat \ {0} /\ MaxEpoch \in Nat /\ MaxCerts \in Nat \ {0} /\ MaxRollbacks \in Nat

VARIABLES
  epoch,      \* the highest public.epoch.no
  certs,      \* rows of pool_update and pool_retire, by the order of the chain
  stakes,     \* rows of epoch_stake, summed by pool and epoch
  rollbacks,  \* so far (only bounds the environment)
  q           \* the request that is being answered

tables == <<epoch, certs, stakes, rollbacks>>
vars == <<tables, q>>

Pools  == 1..NumPools
Epochs == 0..MaxEpoch
\* A registration counts from its active epoch, a retirement from its retiring
\* epoch; meta: the registration came with a row of pool_metadata_ref; tx: the epoch
\* and the number of its transaction.
Certs == [kind : {"update", "retire"}, pool : Pools, epoch : 0..(MaxEpoch + 3), meta : BOOLEAN,
          tx : (-1..MaxEpoch) \X (1..MaxCerts)]
Stakes == [pool : Pools, epoch : Epochs]

Updates(p) == {i \in DOMAIN certs : certs[i].kind = "update" /\ certs[i].pool = p}
Retires(p) == {i \in DOMAIN certs : certs[i].kind = "retire" /\ certs[i].pool = p}

NoUrl == 0
\* A row of the answer: since is the active epoch, terms stand for pledge, margin
\* and cost and are the update they are from, url is the update whose metadata
\* reference it is.
Rows == [pool : Pools \cup {0}, since : 0..(MaxEpoch + 3), terms : 0..MaxCerts,
         url : 0..MaxCerts, delegation : 0..(MaxEpoch + 1)]

Init ==
  /\ epoch = 0
  /\ certs \in {<< >>} \cup {<<[kind |-> "update", pool |-> p, epoch |-> 0, meta |-> m, tx |-> <<-1, 1>>]>> :
                               p \in Pools, m \in BOOLEAN}
  /\ stakes = {}
  /\ rollbacks = 0
  /\ q = [kind |-> "none", pc |-> "idle"]

-----------------------------------------------------------------------------
(***************************************************************************)
(* The environment: certificates as the ledger allows them.                *)
(***************************************************************************)
NewTx == <<epoch, Len(certs) + 1>>

\* The transaction of the last certificate, if it may hold this one as well.
SameTx(p) ==
  {t \in {Last(certs).tx : i \in DOMAIN certs} :
     t[1] = epoch /\ Last(certs).kind = "update" /\ \A i \in Updates(p) : certs[i].tx # t}

Certify(c) ==
  /\ Len(certs) < MaxCerts
  /\ certs' = Append(certs, c)
  /\ UNCHANGED <<epoch, stakes, rollbacks, q>>

\* A registration becomes active two epochs later, the update of one three.
Register ==
  \E p \in Pools, m \in BOOLEAN, d \in {2, 3} :
    \E t \in {NewTx} \cup SameTx(p) :
      Certify([kind |-> "update", pool |-> p, epoch |-> epoch + d, meta |-> m, tx |-> t])

\* Only a registered pool can announce that it retires, in a later epoch.
Retire ==
  \E p \in Pools, e \in (epoch + 1)..MaxEpoch :
    /\ \E i \in Updates(p) : \A j \in Retires(p) : j < i \/ certs[j].epoch > epoch
    /\ Certify([kind |-> "retire", pool |-> p, epoch |-> e, meta |-> FALSE, tx |-> NewTx])

\* The stake of an epoch is that of pools active in it.
NewEpoch ==
  /\ epoch < MaxEpoch
  /\ epoch' = epoch + 1
  /\ \E S \in SUBSET {p \in Pools : \E i \in Updates(p) : certs[i].epoch <= epoch + 1} :
       stakes' = stakes \cup {[pool |-> p, epoch |-> epoch + 1] : p \in S}
  /\ UNCHANGED <<certs, rollbacks, q>>

\* Deleting a block deletes, by foreign keys, all that came with it.
Rollback ==
  /\ rollbacks < MaxRollbacks
  /\ rollbacks' = rollbacks + 1
  /\ \E n \in 0..(Len(certs) - 1) : certs' = SubSeq(certs, 1, n)
  /\ stakes' \in {stakes, {s \in stakes : s.epoch < epoch}}
  /\ UNCHANGED <<epoch, q>>

-----------------------------------------------------------------------------
(***************************************************************************)
(* The queries.                                                            *)
(***************************************************************************)

\* A mutant of Search: the pools are taken from pool_hash.
SearchHashes(e) == Pools
\* The pools with an update that is active by epoch e and, after the left join
\* with pool_retire, a row without retirement or with one that is not past.
Search(e) ==
  {p \in Pools : /\ \E i \in Updates(p) : certs[i].epoch <= e
                 /\ \/ Retires(p) = {}
                    \/ \E j \in Retires(p) : certs[j].epoch >= e}

OffsetOnly(s, offset, limit) == SubSeq(s, offset + 1, Len(s))  \* a mutant: no LIMIT
Page(s, offset, limit) == SubSeq(s, offset + 1, IF offset + limit < Len(s) THEN offset + limit ELSE Len(s))

\* ORDER BY hash_id.
Ascending(S) ==
  CHOOSE s \in [1..Cardinality(S) -> S] : \A i, j \in DOMAIN s : i < j => s[i] < s[j]

\* COUNT(*) OVER () is a column of the page's rows: an empty page has no total.
Total(e, page) == IF page = << >> THEN 0 ELSE Cardinality(Search(e))

\* The metadata references that the join by transaction finds for an update:
\* those of every pool registered in that transaction.
References(i) == {j \in DOMAIN certs : certs[j].kind = "update" /\ certs[j].tx = certs[i].tx /\ certs[j].meta}

EveryUpdate(p, e) == Updates(p)  \* a mutant: no Where
UpToEpoch(p, e) == {i \in Updates(p) : certs[i].epoch <= e}

Newest(S) == {i \in S : \A j \in S : certs[j].epoch <= certs[i].epoch}

\* The first epoch, but 0 is taken for "not yet set".
Since(S) ==
  LET later == {certs[i].epoch : i \in S} \ {0}
  IN  IF later = {} THEN 0 ELSE CHOOSE e \in later : \A f \in later : e <= f

\* The updates are applied in the order of their active epochs, in any order
\* within an epoch: the last gives the terms, the last with metadata the url.
Folded(p, e) ==
  LET S == UpToEpoch(p, e)
      withUrl == {i \in S : References(i) # {}}
      urls(last) == IF last \in withUrl THEN References(last) ELSE UNION {References(i) : i \in Newest(withUrl)}
  IN  UNION {{[since |-> Since(S), terms |-> last, url |-> u] :
                u \in IF withUrl = {} THEN {NoUrl} ELSE urls(last)} : last \in Newest(S)}

\* SUM(amount) over all epochs up to e; null without rows.
StakeRows(p, e) == {s \in stakes : s.pool = p /\ s.epoch <= e}

-----------------------------------------------------------------------------
(***************************************************************************)
(* ListStakePools, ListStakePoolsByEpoch and GetStakePool, one action for  *)
(* each query.                                                             *)
(***************************************************************************)
Unknown == -1  \* the epoch, while it is null

AskList ==
  /\ q.pc = "idle"
  /\ \E e \in Epochs \cup {Unknown}, offset \in 0..NumPools, limit \in Pools :
       q' = [kind |-> "list", pc |-> IF e = Unknown THEN "epoch" ELSE "search", epoch |-> e, began |-> epoch, rolled |-> rollbacks,
             offset |-> offset, limit |-> limit, total |-> 0, found |-> << >>, rows |-> << >>]
  /\ UNCHANGED tables

AskPool ==
  /\ q.pc = "idle"
  /\ \E p \in Pools :
       q' = [kind |-> "get", pc |-> "epoch", epoch |-> Unknown, began |-> epoch, rolled |-> rollbacks,
             offset |-> 0, limit |-> 1, total |-> 0, found |-> <<p>>, rows |-> << >>]
  /\ UNCHANGED tables

Step(pc, r) == q.pc = pc /\ q' = r /\ UNCHANGED tables

ReadEpoch ==
  Step("epoch", [q EXCEPT !.epoch = epoch, !.began = epoch, !.pc = IF q.kind = "list" THEN "search" ELSE "updates"])

SearchPools ==
  LET page == Page(Ascending(Search(q.epoch)), q.offset, q.limit)
  IN  Step("search", [q EXCEPT !.found = page, !.total = Total(q.epoch, page),
                               !.pc = IF page = << >> THEN "done" ELSE "updates"])

ThisPool == q.found[Len(q.rows) + 1]

\* No update at all: the list throws, a single pool is not found.  No update up
\* to the epoch (of a single pool only, but for rollbacks): nothing is set.
ReadUpdates ==
  /\ q.pc = "updates"
  /\ LET p == ThisPool IN
     \/ /\ Updates(p) = {}
        /\ q' = [q EXCEPT !.pc = IF q.kind = "list" THEN "thrown" ELSE "notFound"]
     \/ /\ Updates(p) # {} /\ UpToEpoch(p, q.epoch) = {}
        /\ q' = [q EXCEPT !.pc = "stake", !.rows = Append(@,
                   [pool |-> IF q.kind = "list" THEN p ELSE 0, since |-> 0, terms |-> 0, url |-> NoUrl, delegation |-> 0])]
     \/ \E d \in Folded(p, q.epoch) :
          q' = [q EXCEPT !.pc = "stake", !.rows = Append(@,
                  [pool |-> p, since |-> d.since, terms |-> d.terms, url |-> d.url, delegation |-> 0])]
  /\ UNCHANGED tables

\* The reply cannot hold a pool whose address was not set.  Of a single pool the
\* client takes the metadata's Uri from a text that is empty without metadata,
\* and throws.
Sendable ==
  CASE q.kind = "list" /\ (\E n \in DOMAIN q.rows : q.rows[n].terms = 0) -> "noAddress"
    [] q.kind = "get" /\ q.rows[1].url = NoUrl -> "badUri"
    [] OTHER -> "done"

\* A null sum is read as ulong: 0, or an exception of the library.
ReadStake ==
  /\ q.pc = "stake"
  /\ LET n == Len(q.rows)
         amount == StakeRows(q.rows[n].pool, q.epoch) IN
     \/ q' = [q EXCEPT !.rows[n].delegation = Cardinality(amount),
                       !.pc = IF n < Len(q.found) THEN "updates" ELSE Sendable]
     \/ amount = {} /\ q' = [q EXCEPT !.pc = "noStake"]
  /\ UNCHANGED tables

Next ==
  \/ Register \/ Retire \/ NewEpoch \/ Rollback
  \/ AskList \/ AskPool
  \/ ReadEpoch \/ SearchPools \/ ReadUpdates \/ ReadStake

Spec == Init /\ [][Next]_vars

-----------------------------------------------------------------------------
PCs == {"epoch", "search", "updates", "stake", "done", "thrown", "noAddress", "badUri", "notFound", "noStake"}

TypeOK ==
  /\ epoch \in Epochs
  /\ certs \in Seq(Certs) /\ Len(certs) <= MaxCerts
  /\ stakes \subseteq Stakes
  /\ rollbacks \in 0..MaxRollbacks
  /\ \/ q = [kind |-> "none", pc |-> "idle"]
     \/ /\ q.kind \in {"list", "get"} /\ q.pc \in PCs
        /\ q.epoch \in Epochs \cup {Unknown} /\ q.began \in Epochs /\ q.rolled \in 0..MaxRollbacks
        /\ q.offset \in 0..NumPools /\ q.limit \in Pools
        /\ q.total \in 0..NumPools
        /\ q.found \in Seq(Pools) /\ Len(q.found) <= q.limit
        /\ q.rows \in Seq(Rows) /\ Len(q.rows) <= Len(q.found)

\* What a request for an epoch that has begun answers is what the tables say
\* of that epoch when it is done: the pools of one page of it, in order, and of
\* each, or of the single pool asked for, the newest terms and the newest url
\* that the pool itself had registered by then; a pool that is not found had
\* registered nothing by then.  The queries of one answer see different states of
\* the tables, but certificates count from later epochs on; only a rollback
\* changes the past.  The url is another pool's for pools that were registered in
\* one transaction; and a pool that was registered again after a retirement is
\* not listed, until it announces another one.
Undisturbed == q.epoch <= q.began /\ rollbacks = q.rolled

NobodyReturned == \A p \in Pools : \A i \in Retires(p), j \in Updates(p) : j < i

RowAsOf(r, p, e) ==
  LET S == {i \in Updates(p) : certs[i].epoch <= e}
      M == {i \in S : certs[i].meta} IN
  /\ r.pool = p
  /\ r.terms \in Newest(S)
  /\ (\A i \in S : certs[i].epoch > 0) =>
       \E i \in S : r.since = certs[i].epoch /\ \A j \in S : r.since <= certs[j].epoch
  /\ (\A i \in S : References(i) \subseteq {i}) => r.url \in IF M = {} THEN {NoUrl} ELSE Newest(M)
  /\ r.delegation = Cardinality({s \in stakes : s.pool = p /\ s.epoch <= e})

AnswersAsOfEpoch ==
  /\ q.pc = "done" /\ Undisturbed =>
       \A n \in DOMAIN q.rows : RowAsOf(q.rows[n], q.found[n], q.epoch)
  /\ q.pc = "notFound" /\ Undisturbed => UpToEpoch(q.found[1], q.epoch) = {}
  /\ q.pc = "done" /\ q.kind = "list" /\ Undisturbed /\ NobodyReturned =>
       /\ \A n, m \in DOMAIN q.found : n < m => q.found[n] < q.found[m]
       /\ Range(q.found) \subseteq Search(q.epoch)
       /\ q.found # << >> =>
            /\ q.total = Cardinality(Search(q.epoch))
            /\ Cardinality({p \in Search(q.epoch) : p < q.found[1]}) = q.offset
            /\ Len(q.found) = q.limit \/ \A p \in Search(q.epoch) : p <= Last(q.found)

\* A pool that the search has found has an update, up to the epoch asked for,
\* when its details are read ("There should be atleast an update for the pool
\* id", which the code throws otherwise), but for a rollback between the queries.
FoundStaysFound == q.pc \in {"thrown", "noAddress"} => ~Undisturbed

\* The delegation of a pool that has stake in the epoch asked for, one that has
\* begun, is its stake of that epoch.
DelegationOfEpoch ==
  q.pc = "done" /\ Undisturbed =>
    \A n \in DOMAIN q.rows :
      [pool |-> q.rows[n].pool, epoch |-> q.epoch] \in stakes =>
        q.rows[n].delegation = Cardinality({s \in stakes : s.pool = q.rows[n].pool /\ s.epoch = q.epoch})
=============================================================================
