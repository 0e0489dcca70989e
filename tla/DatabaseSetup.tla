---------------------------- MODULE DatabaseSetup ----------------------------
(***************************************************************************)
(* The set-up of the database that every start of the DbSyncAPI service    *)
(* does before it serves calls (Startup.Configure, SetupQueries.cs): create*)
(* the table of versions, read it, and upgrade if it has no row or one of  *)
(* an older version.  Several instances may start at once, any may end at  *)
(* any point, and a start that comes later takes up what it finds.         *)
(*                                                                         *)
(* Nothing but Postgres keeps concurrent upgrades apart: the statements of *)
(* the upgrade are one batch, which Npgsql sends as one transaction, at    *)
(* READ COMMITTED.  Its locks and what it sees of other transactions are   *)
(* modelled as far as these statements reach them.                         *)
(***************************************************************************)
EXTENDS Integers, Sequences

CONSTANT MaxStarts  \* bound on the starts of the service

ASSUME StartsAssumption == MaxStarts \in Nat

VARIABLES
  table,     \* public.silvestretool_upgrades exists
  rows,      \* its committed rows, by the start that inserted them
  index,     \* the committed idx_tx_in_tx_out_id, by the start that created it
  start,     \* how far each start is in Configure
  txn,       \* the transaction of its upgrade, which Postgres runs on its own
  disturbed  \* a process ended or a transaction was aborted from outside (history)

database == <<table, rows, index>>
vars == <<database, start, txn, disturbed>>

Starts  == 1..MaxStarts
Older   == 0   \* a row that a version before 1.0.0 left
Plain   == 0   \* the index of cardano-db-sync's schema, without tx_out_index
NoIndex == -1
Rows    == {Older} \cup Starts

\* The statements of UpgradeDatabase in their order.
RecordFirst == <<"delete", "insert", "drop", "create">>  \* a mutant
IndexLast   == <<"drop", "delete", "insert", "create">>  \* a mutant
Statements  == <<"drop", "create", "delete", "insert">>
Positions   == 1..(Len(Statements) + 1)

\* at is the statement that runs next; lock the transaction's lock on
\* public.tx_in; built: its new index is in pg_class, uncommitted; seen: the
\* rows in the snapshot of its DELETE; deleted: those it has deleted.
Txn == [state : {"none", "running", "committed", "aborted"}, at : Positions,
        lock : {"none", "share", "exclusive"}, built : BOOLEAN,
        seen : SUBSET Rows, deleted : SUBSET Rows]
NoTxn == [state |-> "none", at |-> 1, lock |-> "none", built |-> FALSE, seen |-> {}, deleted |-> {}]

Running(s) == txn[s].state = "running"

\* Transaction s is at this statement.
At(s, statement) ==
  /\ Running(s)
  /\ txn[s].at <= Len(Statements)
  /\ Statements[txn[s].at] = statement

Init ==
  /\ table \in BOOLEAN
  /\ rows \in {{}, {Older}}
  /\ rows # {} => table
  /\ index \in {NoIndex, Plain}
  /\ start = [s \in Starts |-> "off"]
  /\ txn = [s \in Starts |-> NoTxn]
  /\ disturbed = FALSE

-----------------------------------------------------------------------------
(***************************************************************************)
(* RequiresUpgradeAsync.                                                   *)
(***************************************************************************)

Goes(s, from, to) ==
  /\ start[s] = from
  /\ start' = [start EXCEPT ![s] = to]

\* The service is started: SetupDatabase is called.
Start(s) ==
  /\ Goes(s, "off", "table")
  /\ UNCHANGED <<database, txn, disturbed>>

\* A mutant of CheckTable: CREATE TABLE without IF NOT EXISTS.
CreateAlways(s) ==
  /\ Goes(s, "table", IF table THEN "ended" ELSE "creating")
  /\ UNCHANGED <<database, txn, disturbed>>
\* IF NOT EXISTS is decided before the table is created ...
CheckTable(s) ==
  /\ Goes(s, "table", IF table THEN "version" ELSE "creating")
  /\ UNCHANGED <<database, txn, disturbed>>

\* ... and fails when another start has created it in the meantime: its name is
\* in the catalog's unique index, and the exception ends the process.
CreateTable(s) ==
  /\ Goes(s, "creating", IF table THEN "ended" ELSE "version")
  /\ table' = TRUE
  /\ UNCHANGED <<rows, index, txn, disturbed>>

\* A mutant of IsCurrent: a row of any version will do.
AnyVersion(r) == TRUE
\* databaseVersion is not null and not smaller than 1.0.0.
IsCurrent(r) == r # Older

\* QuerySingleOrDefaultAsync throws when there are several rows.
ReadVersion(s) ==
  /\ \/ Goes(s, "version", "ended") /\ \E r, t \in rows : r # t
     \/ Goes(s, "version", "serving") /\ \E r \in rows : rows = {r} /\ IsCurrent(r)
     \/ Goes(s, "version", "upgrade") /\ (rows = {} \/ \E r \in rows : rows = {r} /\ ~IsCurrent(r))
  /\ UNCHANGED <<database, txn, disturbed>>

-----------------------------------------------------------------------------
(***************************************************************************)
(* UpgradeDatabase.                                                        *)
(***************************************************************************)

\* A mutant of SendUpgrade: nothing waits for the batch.
SendOnly(s) ==
  /\ Goes(s, "upgrade", "serving")
  /\ txn' = [txn EXCEPT ![s].state = "running"]
  /\ UNCHANGED <<database, disturbed>>
\* The batch is sent, on another connection.
SendUpgrade(s) ==
  /\ Goes(s, "upgrade", "upgrading")
  /\ txn' = [txn EXCEPT ![s].state = "running"]
  /\ UNCHANGED <<database, disturbed>>

Others(s) == Starts \ {s}

\* The effect of a statement on the transaction's own state.
Executed(s, t) ==
  /\ txn' = [txn EXCEPT ![s] = [t EXCEPT !.at = t.at + 1]]
  /\ UNCHANGED <<database, start, disturbed>>

\* Postgres keeps the next statement of transaction s waiting for transaction t:
\* a DROP INDEX that finds an index for every lock of tx_in, a CREATE INDEX for an
\* exclusive one or an uncommitted index of the same name, a DELETE for the end of
\* whoever has deleted a row of its snapshot.
Awaits(s, t) ==
  \/ At(s, "drop") /\ index # NoIndex /\ txn[t].lock # "none"
  \/ At(s, "create") /\ (txn[t].lock = "exclusive" \/ txn[t].built)
  \/ At(s, "delete") /\ txn[t].deleted \cap txn[s].seen # {}

Free(s) == \A t \in Others(s) : ~Awaits(s, t)

\* DROP INDEX IF EXISTS locks the index's table, tx_in, when it finds an index,
\* and looks the name up again once it has the lock.
DropIndex(s) ==
  /\ At(s, "drop") /\ Free(s)
  /\ \/ index = NoIndex /\ Executed(s, txn[s])
     \/ /\ index # NoIndex
        /\ Executed(s, [txn[s] EXCEPT !.lock = "exclusive"])

Dropped(s) == txn[s].lock = "exclusive"

\* CREATE INDEX shares its lock of tx_in with others of its kind, but waits for
\* an uncommitted index of the same name ...
CreateIndex(s) ==
  /\ At(s, "create") /\ Free(s)
  /\ Dropped(s) \/ index = NoIndex
  /\ Executed(s, [txn[s] EXCEPT !.built = TRUE, !.lock = IF @ = "none" THEN "share" ELSE @])

End(t, state) == [t EXCEPT !.state = state, !.lock = "none", !.built = FALSE, !.seen = {}, !.deleted = {}]

\* ... and fails when there is one.
CreateFails(s) ==
  /\ At(s, "create")
  /\ ~Dropped(s) /\ index # NoIndex
  /\ txn' = [txn EXCEPT ![s] = End(txn[s], "aborted")]
  /\ UNCHANGED <<database, start, disturbed>>

\* DELETE takes the rows that are committed when it begins ...
BeginDelete(s) ==
  /\ At(s, "delete") /\ txn[s].seen = {} /\ rows # {}
  /\ txn' = [txn EXCEPT ![s].seen = rows]
  /\ UNCHANGED <<database, start, disturbed>>

\* ... and waits for those that another transaction has deleted.
DeleteRows(s) ==
  /\ At(s, "delete") /\ Free(s) /\ (txn[s].seen = {} => rows = {})
  /\ Executed(s, [txn[s] EXCEPT !.deleted = txn[s].seen \cap rows])

InsertRow(s) == At(s, "insert") /\ Executed(s, txn[s])

Commit(s) ==
  /\ Running(s) /\ txn[s].at = Len(Statements) + 1
  /\ rows' = (rows \ txn[s].deleted) \cup {s}
  /\ index' = s
  /\ txn' = [txn EXCEPT ![s] = End(txn[s], "committed")]
  /\ UNCHANGED <<table, start, disturbed>>

\* The awaited batch has come back, or its exception ends the process.
Finish(s) ==
  /\ \/ txn[s].state = "committed" /\ Goes(s, "upgrading", "serving")
     \/ txn[s].state = "aborted" /\ Goes(s, "upgrading", "ended")
  /\ UNCHANGED <<database, txn, disturbed>>

-----------------------------------------------------------------------------
(***************************************************************************)
(* Failures.                                                               *)
(***************************************************************************)

\* The process is stopped or crashes, loses the database, or the 500 seconds
\* of the command pass.  What it has sent may be executed all the same.
EndProcess(s) ==
  /\ start[s] \notin {"off", "ended"}
  /\ start' = [start EXCEPT ![s] = "ended"]
  /\ disturbed' = TRUE
  /\ UNCHANGED <<database, txn>>

\* The transaction is cancelled, fails, or Postgres restarts.
Abort(s) ==
  /\ Running(s)
  /\ txn' = [txn EXCEPT ![s] = End(txn[s], "aborted")]
  /\ disturbed' = TRUE
  /\ UNCHANGED <<database, start>>

-----------------------------------------------------------------------------
Client(s) == CheckTable(s) \/ CreateTable(s) \/ ReadVersion(s) \/ SendUpgrade(s) \/ Finish(s)

Server(s) ==
  \/ DropIndex(s) \/ CreateIndex(s) \/ CreateFails(s)
  \/ BeginDelete(s) \/ DeleteRows(s) \/ InsertRow(s) \/ Commit(s)

Next == \E s \in Starts : Start(s) \/ Client(s) \/ Server(s) \/ EndProcess(s) \/ Abort(s)

Spec == Init /\ [][Next]_vars

\* A process goes on with its set-up, and Postgres with a transaction that
\* waits for no other; nobody need start the service.
Fairness == \A s \in Starts : WF_vars(Client(s)) /\ WF_vars(Server(s))

FairSpec == Spec /\ Fairness

-----------------------------------------------------------------------------
Stages == {"off", "table", "creating", "version", "upgrade", "upgrading", "serving", "ended"}

TypeOK ==
  /\ table \in BOOLEAN
  /\ rows \in SUBSET Rows
  /\ index \in {NoIndex, Plain} \cup Starts
  /\ start \in [Starts -> Stages]
  /\ txn \in [Starts -> Txn]
  /\ \A s \in Starts : Running(s) => start[s] \in {"upgrading", "ended"}
  /\ disturbed \in BOOLEAN

\* The table of versions never has more than one row, however many instances
\* upgrade at once and wherever they end: with two, every later start of the
\* service would throw at QuerySingleOrDefaultAsync.  And what the row says is
\* true: it is there if and only if the index of the same upgrade is.
OneVersionRow ==
  /\ \A r, t \in rows : r = t
  /\ \A s \in Starts : s \in rows <=> index = s

\* The upgrades of several starts never wait for each other in a circle, and not
\* even in a row: the one that another waits for runs, and waits for nobody.
\* The order of the statements keeps a transaction that holds rows from needing
\* a lock of tx_in, which it would have to wait for.
NoUpgradeDeadlock ==
  \A s \in Starts : \A t \in Others(s) : Awaits(s, t) => Running(t) /\ Free(t)

\* The inductive invariant behind it and the refinement: a transaction that
\* has created its index is the only one that holds tx_in exclusively or has
\* built, so that no other changes the rows between its DELETE and its commit.
\* This is what the order of the statements is for.
StartInv(s) ==
  /\ start[s] \in {"off", "table", "creating", "version", "upgrade"} => txn[s].state = "none"
  /\ start[s] \in {"version", "upgrade", "upgrading", "serving"} => table
  /\ start[s] = "serving" => index \in Starts

TxnInv(s) ==
  /\ txn[s].state = "none" => txn[s] = NoTxn
  /\ txn[s].state # "none" => table
  /\ txn[s].state = "committed" => index \in Starts
  /\ txn[s].state # "committed" => index # s
  /\ ~Running(s) => txn[s].lock = "none" /\ ~txn[s].built
  /\ txn[s].deleted # {} => txn[s].built
  /\ Running(s) =>
       /\ txn[s].built <=> txn[s].at > 2
       /\ txn[s].built => txn[s].lock # "none"
       /\ ~txn[s].built => txn[s].seen = {} /\ txn[s].lock # "share"
       /\ txn[s].at = 1 => txn[s].lock = "none"
       /\ txn[s].lock = "exclusive" => index # NoIndex
       /\ txn[s].lock = "share" => index = NoIndex
       /\ txn[s].seen \subseteq rows
       /\ txn[s].at > 3 => txn[s].deleted = rows

Apart(s, t) ==
  /\ txn[s].lock = "exclusive" => txn[t].lock = "none"
  /\ ~(txn[s].built /\ txn[t].built)

SetupInv ==
  /\ OneVersionRow
  /\ rows # {} => table
  /\ \A s \in Starts : StartInv(s) /\ TxnInv(s)
  /\ \A s \in Starts : \A t \in Others(s) : Apart(s, t)

\* The set-up implements the promise of UpgradedDatabase.
Version ==
  CASE rows = {} -> "none"
    [] rows = {Older} -> "older"
    [] \E s \in Starts : rows = {s} -> "current"
    [] OTHER -> "ambiguous"

Promise == INSTANCE UpgradedDatabase WITH
  version <- Version, indexed <- index \in Starts, serving <- {s \in Starts : start[s] = "serving"}

KeepsPromise == Promise!Spec

\* Every start comes to serve or to end, whatever the others hold or wait for,
\* and when nothing disturbs them they do not all end each other: one serves.
SetupSettles ==
  /\ \A s \in Starts : start[s] # "off" ~> start[s] \in {"serving", "ended"}
  /\ \A s \in Starts : start[s] # "off" ~> (disturbed \/ \E t \in Starts : start[t] = "serving")
=============================================================================
