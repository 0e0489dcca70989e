------------------------- MODULE DatabaseSetup_proofs -------------------------
(* Theorems about DatabaseSetup, for any number of starts of the service. *)
EXTENDS DatabaseSetup, TLAPS

USE StartsAssumption

LEMMA StartsAreNat == Starts \subseteq Nat /\ 0 \notin Starts /\ -1 \notin Starts
BY DEF Starts

\* There are four statements.
LEMMA PositionsAre == Positions = 1..5
<1>1. Len(Statements) = 4
  BY DEF Statements
<1>2. QED
  BY <1>1 DEF Positions

\* The statements, by their number.
LEMMA AtNumber ==
  ASSUME NEW s \in Starts, TypeOK
  PROVE  /\ Len(Statements) = 4
         /\ At(s, "drop")   <=> Running(s) /\ txn[s].at = 1
         /\ At(s, "create") <=> Running(s) /\ txn[s].at = 2
         /\ At(s, "delete") <=> Running(s) /\ txn[s].at = 3
         /\ At(s, "insert") <=> Running(s) /\ txn[s].at = 4
<1>1. Len(Statements) = 4
  BY DEF Statements
<1>2. txn[s].at \in 1..5
  BY PositionsAre DEF TypeOK, Txn
<1>3. Statements[1] = "drop" /\ Statements[2] = "create" /\ Statements[3] = "delete" /\ Statements[4] = "insert"
  BY DEF Statements
<1>4. QED
  BY <1>1, <1>2, <1>3 DEF At

\* Transactions stay transactions.
LEMMA TxnTypes ==
  ASSUME NEW t \in Txn
  PROVE  /\ End(t, "committed") \in Txn /\ End(t, "committed").state = "committed"
         /\ End(t, "aborted") \in Txn /\ End(t, "aborted").state = "aborted"
         /\ t.at <= 4 => [t EXCEPT !.at = t.at + 1] \in Txn
<1>1. t.at <= 4 => t.at + 1 \in Positions
  BY PositionsAre DEF Txn
<1>2. {} \in SUBSET Rows
  OBVIOUS
<1>3. QED
  BY <1>1, <1>2 DEF Txn, End

\* A step of Postgres that changes one transaction, and leaves the processes.
LEMMA Replaces ==
  ASSUME TypeOK, NEW s \in Starts, NEW r \in Txn, r.state = "running" => Running(s),
         txn' = [txn EXCEPT ![s] = r], start' = start
  PROVE  /\ txn' \in [Starts -> Txn]
         /\ \A t \in Starts : Running(t)' => start'[t] \in {"upgrading", "ended"}
BY DEF TypeOK, Running

\* Every step keeps the variables to their types.
LEMMA TypeStep ==
  ASSUME TypeOK, [Next]_vars
  PROVE  TypeOK'
<1>1. Len(Statements) = 4
  BY DEF Statements
<1> USE StartsAreNat DEF TypeOK, database
<1>2. CASE UNCHANGED vars
  BY <1>2 DEF vars, Running
<1>3. CASE Next
  <2>1. PICK s \in Starts : Start(s) \/ Client(s) \/ Server(s) \/ EndProcess(s) \/ Abort(s)
    BY <1>3 DEF Next
  <2>2. CASE Start(s)
    BY <2>2 DEF Start, Goes, Stages, Running
  <2>3. CASE CheckTable(s)
    BY <2>3 DEF CheckTable, Goes, Stages, Running
  <2>4. CASE CreateTable(s)
    BY <2>4 DEF CreateTable, Goes, Stages, Running
  <2>5. CASE ReadVersion(s)
    BY <2>5 DEF ReadVersion, Goes, Stages, Running
  <2>6. CASE SendUpgrade(s)
    BY <2>6 DEF SendUpgrade, Goes, Stages, Running, Txn
  <2>7. CASE Finish(s)
    BY <2>7 DEF Finish, Goes, Stages, Running
  <2>8. CASE DropIndex(s)
    <3>1. PICK l \in {"none", "share", "exclusive"} : Executed(s, [txn[s] EXCEPT !.lock = l])
      <4>1. txn[s] \in Txn /\ txn[s] = [txn[s] EXCEPT !.lock = txn[s].lock]
        BY DEF Txn
      <4>2. QED
        BY <2>8, <4>1 DEF DropIndex, Txn
    <3> DEFINE t == [txn[s] EXCEPT !.lock = l]
               r == [t EXCEPT !.at = t.at + 1]
    <3>2. t \in Txn /\ t.at <= 4 /\ r.state = "running" /\ Running(s)
      BY <2>8, AtNumber DEF DropIndex, Txn, Running
    <3>3. r \in Txn
      BY <3>2, TxnTypes
    <3>4. txn' = [txn EXCEPT ![s] = r] /\ start' = start
      BY <3>1 DEF Executed
    <3> HIDE DEF r
    <3>5. QED
      BY <2>8, <3>1, <3>2, <3>3, <3>4, Replaces DEF Executed
  <2>9. CASE CreateIndex(s)
    <3> DEFINE t == [txn[s] EXCEPT !.built = TRUE, !.lock = IF @ = "none" THEN "share" ELSE @]
               r == [t EXCEPT !.at = t.at + 1]
    <3>1. txn[s] \in Txn /\ txn[s].at <= 4 /\ Running(s)
      BY <2>9, AtNumber DEF CreateIndex
    <3>2. t \in Txn /\ t.at <= 4 /\ r.state = "running" /\ Running(s)
      BY <3>1 DEF Txn, Running
    <3>3. r \in Txn
      BY <3>2, TxnTypes
    <3>4. txn' = [txn EXCEPT ![s] = r] /\ start' = start
      BY <2>9 DEF CreateIndex, Executed
    <3> HIDE DEF r
    <3>5. QED
      BY <2>9, <3>2, <3>3, <3>4, Replaces DEF CreateIndex, Executed
  <2>10. CASE CreateFails(s)
    <3> DEFINE r == End(txn[s], "aborted")
    <3>1. r \in Txn /\ (r.state = "running" => Running(s))
      BY <2>10, AtNumber, TxnTypes, <1>1 DEF CreateFails, Running, Txn
    <3>2. txn' = [txn EXCEPT ![s] = r] /\ start' = start
      BY <2>10 DEF CreateFails
    <3> HIDE DEF r
    <3>3. QED
      BY <2>10, <3>1, <3>2, Replaces DEF CreateFails
  <2>11. CASE BeginDelete(s)
    BY <2>11, <1>1 DEF BeginDelete, Running, Txn
  <2>12. CASE DeleteRows(s)
    <3> DEFINE t == [txn[s] EXCEPT !.deleted = txn[s].seen \cap rows]
               r == [t EXCEPT !.at = t.at + 1]
    <3>2. t \in Txn /\ t.at <= 4 /\ r.state = "running" /\ Running(s)
      BY <2>12, AtNumber DEF DeleteRows, Txn, Running
    <3>3. r \in Txn
      BY <3>2, TxnTypes
    <3>4. txn' = [txn EXCEPT ![s] = r] /\ start' = start
      BY <2>12 DEF DeleteRows, Executed
    <3> HIDE DEF r
    <3>5. QED
      BY <2>12, <3>2, <3>3, <3>4, Replaces DEF DeleteRows, Executed
  <2>13. CASE InsertRow(s)
    <3> DEFINE r == [txn[s] EXCEPT !.at = txn[s].at + 1]
    <3>1. txn[s] \in Txn /\ txn[s].at <= 4 /\ Running(s)
      BY <2>13, AtNumber DEF InsertRow
    <3>2. r \in Txn
      BY <3>1, TxnTypes
    <3>3. txn' = [txn EXCEPT ![s] = r] /\ start' = start
      BY <2>13 DEF InsertRow, Executed
    <3> HIDE DEF r
    <3>4. QED
      BY <2>13, <3>1, <3>2, <3>3, Replaces DEF InsertRow, Executed
  <2>14. CASE Commit(s)
    <3> DEFINE r == End(txn[s], "committed")
    <3>1. r \in Txn /\ r.state = "committed"
      BY TxnTypes
    <3>2. txn' = [txn EXCEPT ![s] = r] /\ start' = start
      BY <2>14 DEF Commit
    <3>3. rows' \in SUBSET Rows /\ index' \in Starts
      BY <2>14 DEF Commit, Rows
    <3> HIDE DEF r
    <3>4. QED
      BY <2>14, <3>1, <3>2, <3>3, Replaces DEF Commit
  <2>15. CASE EndProcess(s)
    BY <2>15 DEF EndProcess, Stages, Running
  <2>16. CASE Abort(s)
    <3> DEFINE r == End(txn[s], "aborted")
    <3>1. r \in Txn /\ (r.state = "running" => Running(s))
      BY <2>16, AtNumber, TxnTypes, <1>1 DEF Abort, Running, Txn
    <3>2. txn' = [txn EXCEPT ![s] = r] /\ start' = start
      BY <2>16 DEF Abort
    <3> HIDE DEF r
    <3>3. QED
      BY <2>16, <3>1, <3>2, Replaces DEF Abort
  <2>17. QED
    BY <2>1, <2>2, <2>3, <2>4, <2>5, <2>6, <2>7, <2>8, <2>9, <2>10, <2>11, <2>12, <2>13, <2>14, <2>15, <2>16
       DEF Client, Server
<1>4. QED
  BY <1>2, <1>3

\* Every variable keeps to its type, and a transaction runs only while the
\* process that sent it waits for it or has ended.
THEOREM TypeCorrect == Spec => []TypeOK
<1>1. Init => TypeOK
  <2>1. NoTxn \in Txn /\ NoTxn.state = "none"
    BY PositionsAre DEF NoTxn, Txn
  <2>2. {{}, {Older}} \subseteq SUBSET Rows
    BY DEF Rows
  <2>3. QED
    BY <2>1, <2>2, StartsAreNat DEF Init, TypeOK, Stages, Running
<1>2. QED
  BY <1>1, TypeStep, PTL DEF Spec

-----------------------------------------------------------------------------
\* A step of Postgres that changes one transaction, and nothing else, keeps the
\* invariant if it keeps it for this one.
LEMMA TxnStep ==
  ASSUME TypeOK, SetupInv, NEW s \in Starts, NEW r \in Txn,
         txn' = [txn EXCEPT ![s] = r], UNCHANGED <<database, start>>,
         r.state # "none", txn[s].state # "none",
         r.state = "committed" <=> txn[s].state = "committed",
         TxnInv(s)',
         \A t \in Others(s) : Apart(s, t)' /\ Apart(t, s)'
  PROVE  SetupInv'
<1> USE DEF TypeOK, SetupInv, database
<1>1. OneVersionRow' /\ (rows # {} => table)'
  BY DEF OneVersionRow
<1>2. \A t \in Others(s) : t \in Starts /\ txn'[t] = txn[t]
  BY DEF Others
<1>3. ASSUME NEW t \in Starts PROVE StartInv(t)'
  <2>1. txn'[t].state = "none" <=> txn[t].state = "none"
    BY <1>2 DEF Others
  <2>2. StartInv(t)
    OBVIOUS
  <2>3. QED
    BY <2>1, <2>2 DEF StartInv
<1>4. ASSUME NEW t \in Starts PROVE TxnInv(t)'
  <2>1. CASE t = s
    BY <2>1
  <2>2. CASE t # s
    <3>1. txn'[t] = txn[t] /\ TxnInv(t)
      BY <2>2
    <3>2. QED
      BY <3>1 DEF TxnInv, Running
  <2>3. QED
    BY <2>1, <2>2
<1>5. ASSUME NEW t \in Starts, NEW u \in Others(t) PROVE Apart(t, u)'
  <2>1. CASE t = s
    BY <2>1
  <2>2. CASE u = s
    BY <2>2 DEF Others
  <2>3. CASE t # s /\ u # s
    <3>1. txn'[t] = txn[t] /\ txn'[u] = txn[u] /\ Apart(t, u)
      BY <2>3 DEF Others
    <3>2. QED
      BY <3>1 DEF Apart
  <2>4. QED
    BY <2>1, <2>2, <2>3
<1>6. QED
  BY <1>1, <1>3, <1>4, <1>5

\* The end of a transaction.
LEMMA AbortStep ==
  ASSUME TypeOK, SetupInv, NEW s \in Starts, Running(s),
         txn' = [txn EXCEPT ![s] = End(txn[s], "aborted")], UNCHANGED <<database, start>>
  PROVE  SetupInv'
<1> DEFINE r == End(txn[s], "aborted")
<1>1. r \in Txn /\ r.state = "aborted" /\ r.lock = "none" /\ ~r.built /\ r.deleted = {}
  BY TxnTypes DEF End, TypeOK, Txn
<1> HIDE DEF r
<1>2. txn'[s] = r
  BY DEF TypeOK, r
<1>3. TxnInv(s)
  BY DEF SetupInv
<1>4. TxnInv(s)'
  BY <1>1, <1>2, <1>3 DEF TxnInv, Running, database
<1>5. \A t \in Others(s) : Apart(s, t)' /\ Apart(t, s)'
  BY <1>1, <1>2 DEF Apart
<1>6. QED
  BY <1>1, <1>4, <1>5, TxnStep DEF Running, r

\* A statement that is executed: the number of the next one.
LEMMA ExecutedStep ==
  ASSUME TypeOK, NEW s \in Starts, NEW t \in Txn, Executed(s, t), t.at <= 4, t.state = "running"
  PROVE  /\ txn'[s] \in Txn
         /\ txn' = [txn EXCEPT ![s] = txn'[s]]
         /\ txn'[s].state = "running" /\ txn'[s].at = t.at + 1 /\ txn'[s].lock = t.lock
         /\ txn'[s].built = t.built /\ txn'[s].seen = t.seen /\ txn'[s].deleted = t.deleted
         /\ UNCHANGED <<database, start>>
<1> DEFINE r == [t EXCEPT !.at = t.at + 1]
<1>1. r \in Txn
  BY TxnTypes
<1>2. r.state = "running" /\ r.at = t.at + 1 /\ r.lock = t.lock /\ r.built = t.built
      /\ r.seen = t.seen /\ r.deleted = t.deleted
  BY DEF Txn
<1>3. txn' = [txn EXCEPT ![s] = r]
  BY DEF Executed
<1> HIDE DEF r
<1>4. txn'[s] = r
  BY <1>3 DEF TypeOK
<1>5. QED
  BY <1>1, <1>2, <1>3, <1>4 DEF Executed

\* A step of a process, which changes how far it is.
LEMMA ClientStep ==
  ASSUME TypeOK, SetupInv, NEW s \in Starts, NEW to \in Stages,
         start' = [start EXCEPT ![s] = to], UNCHANGED <<rows, index, txn>>,
         table => table', StartInv(s)'
  PROVE  SetupInv'
<1>1. ASSUME NEW t \in Starts PROVE StartInv(t)' /\ TxnInv(t)'
  <2>1. StartInv(t)'
    <3>1. CASE t = s
      BY <3>1
    <3>2. CASE t # s
      <4>1. start'[t] = start[t] /\ txn'[t] = txn[t] /\ StartInv(t)
        BY <3>2 DEF TypeOK, SetupInv
      <4>2. QED
        BY <4>1 DEF StartInv
    <3>3. QED
      BY <3>1, <3>2
  <2>2. TxnInv(t)
    BY DEF SetupInv
  <2>3. TxnInv(t)'
    BY <2>2 DEF TxnInv, Running
  <2>4. QED
    BY <2>1, <2>3
<1>2. (rows # {} => table)' /\ OneVersionRow'
  BY DEF SetupInv, OneVersionRow
<1>3. \A t \in Starts : \A u \in Others(t) : Apart(t, u)'
  BY DEF SetupInv, Apart
<1>4. QED
  BY <1>1, <1>2, <1>3 DEF SetupInv

\* What a commit finds: the transaction has deleted every row, and no other has
\* come as far as to build its index.
LEMMA CommitStep ==
  ASSUME TypeOK, SetupInv, NEW s \in Starts, Commit(s)
  PROVE  SetupInv'
<1> DEFINE r == End(txn[s], "committed")
<1>1. r \in Txn /\ r.state = "committed" /\ r.lock = "none" /\ ~r.built /\ r.deleted = {}
  BY TxnTypes DEF End, TypeOK, Txn
<1> HIDE DEF r
<1>2. txn' = [txn EXCEPT ![s] = r] /\ index' = s /\ table' = table /\ start' = start
  BY DEF Commit, r
<1>3. txn'[s] = r /\ \A t \in Others(s) : txn'[t] = txn[t] /\ t \in Starts /\ t # s
  BY <1>2 DEF TypeOK, Others
<1>4. Running(s) /\ txn[s].built /\ txn[s].lock # "none" /\ txn[s].deleted = rows /\ table
  <2>1. Running(s) /\ txn[s].at = 5
    <3>1. Len(Statements) = 4
      BY DEF Statements
    <3>2. QED
      BY <3>1 DEF Commit
  <2>2. TxnInv(s)
    BY DEF SetupInv
  <2>3. QED
    BY <2>1, <2>2 DEF TxnInv, Running
<1>5. rows' = {s}
  BY <1>4 DEF Commit
<1>6. OneVersionRow' /\ (rows # {} => table)'
  BY <1>2, <1>4, <1>5 DEF OneVersionRow
<1>7. ASSUME NEW t \in Starts PROVE StartInv(t)'
  <2>1. txn'[t].state = "none" <=> txn[t].state = "none"
    BY <1>1, <1>3, <1>4 DEF Others, Running
  <2>2. StartInv(t)
    BY DEF SetupInv
  <2>3. QED
    BY <2>1, <2>2, <1>2 DEF StartInv
<1>8. TxnInv(s)'
  BY <1>1, <1>2, <1>3, <1>4 DEF TxnInv, Running
<1>9. ASSUME NEW t \in Others(s) PROVE TxnInv(t)'
  <2>1. TxnInv(t) /\ t \in Starts /\ t # s /\ txn'[t] = txn[t]
    BY <1>3 DEF SetupInv
  <2>2. ~txn[t].built /\ txn[t].lock # "exclusive"
    BY <1>4, <2>1 DEF SetupInv, Apart, Others
  <2>3. txn[t].state = "running" => txn[t].at <= 2 /\ txn[t].seen = {} /\ txn[t].lock = "none"
    <3>1. txn[t].at \in 1..5 /\ txn[t].lock \in {"none", "share", "exclusive"}
      BY <2>1, PositionsAre DEF TypeOK, Txn
    <3>2. QED
      BY <2>1, <2>2, <3>1 DEF TxnInv, Running
  <2>4. txn[t].state = "running" => txn[t].at \in {1, 2}
    BY <2>1, <2>3, PositionsAre DEF TypeOK, Txn
  <2>5. QED
    BY <2>1, <2>2, <2>3, <2>4, <1>2 DEF TxnInv, Running
<1>10. \A t \in Starts : TxnInv(t)'
  BY <1>8, <1>9 DEF Others
<1>11. ASSUME NEW t \in Starts, NEW u \in Others(t) PROVE Apart(t, u)'
  <2>1. CASE t = s
    BY <2>1, <1>1, <1>3 DEF Apart
  <2>2. CASE u = s
    BY <2>2, <1>1, <1>3, <1>4 DEF Apart, Others
  <2>3. CASE t # s /\ u # s
    <3>1. txn'[t] = txn[t] /\ txn'[u] = txn[u] /\ Apart(t, u)
      BY <2>3, <1>3 DEF Others, SetupInv
    <3>2. QED
      BY <3>1 DEF Apart
  <2>4. QED
    BY <2>1, <2>2, <2>3
<1>12. QED
  BY <1>6, <1>7, <1>10, <1>11 DEF SetupInv

\* The batch is sent: the transaction begins.
LEMMA SendStep ==
  ASSUME TypeOK, SetupInv, NEW s \in Starts, SendUpgrade(s)
  PROVE  SetupInv'
<1> DEFINE r == [NoTxn EXCEPT !.state = "running"]
<1>1. StartInv(s) /\ TxnInv(s) /\ start[s] = "upgrade" /\ txn[s] = NoTxn
  BY DEF SetupInv, SendUpgrade, Goes, StartInv, TxnInv
<1>2. r.state = "running" /\ r.at = 1 /\ r.lock = "none" /\ r.built = FALSE /\ r.seen = {} /\ r.deleted = {}
  BY DEF NoTxn
<1>3. txn' = [txn EXCEPT ![s] = r] /\ start' = [start EXCEPT ![s] = "upgrading"] /\ UNCHANGED <<table, rows, index>>
  BY <1>1 DEF SendUpgrade, Goes, database
<1> HIDE DEF r
<1>4. txn'[s] = r /\ start'[s] = "upgrading"
      /\ \A t \in Others(s) : txn'[t] = txn[t] /\ start'[t] = start[t] /\ t \in Starts /\ t # s
  BY <1>3 DEF TypeOK, Others
<1>5. table /\ index # s
  BY <1>1 DEF StartInv, TxnInv, NoTxn
<1>6. OneVersionRow' /\ (rows # {} => table)'
  BY <1>3 DEF OneVersionRow, SetupInv
<1>7. ASSUME NEW t \in Starts PROVE StartInv(t)' /\ TxnInv(t)'
  <2>1. CASE t = s
    <3>1. StartInv(s)'
      BY <1>3, <1>4, <1>5 DEF StartInv
    <3>2. TxnInv(s)'
      BY <1>2, <1>3, <1>4, <1>5 DEF TxnInv, Running
    <3>3. QED
      BY <2>1, <3>1, <3>2
  <2>2. CASE t # s
    <3>1. txn'[t] = txn[t] /\ start'[t] = start[t] /\ StartInv(t) /\ TxnInv(t)
      BY <2>2, <1>4 DEF Others, SetupInv
    <3>2. StartInv(t)'
      BY <3>1, <1>3 DEF StartInv
    <3>3. TxnInv(t)'
      BY <3>1, <1>3 DEF TxnInv, Running
    <3>4. QED
      BY <3>2, <3>3
  <2>3. QED
    BY <2>1, <2>2
<1>8. ASSUME NEW t \in Starts, NEW u \in Others(t) PROVE Apart(t, u)'
  <2>1. CASE t = s
    BY <2>1, <1>2, <1>4 DEF Apart
  <2>2. CASE u = s
    BY <2>2, <1>2, <1>4 DEF Apart
  <2>3. CASE t # s /\ u # s
    <3>1. txn'[t] = txn[t] /\ txn'[u] = txn[u] /\ Apart(t, u)
      BY <2>3, <1>4 DEF Others, SetupInv
    <3>2. QED
      BY <3>1 DEF Apart
  <2>4. QED
    BY <2>1, <2>2, <2>3
<1>9. QED
  BY <1>6, <1>7, <1>8 DEF SetupInv

\* DROP INDEX locks the table only when no other transaction has a lock of it.
LEMMA DropStep ==
  ASSUME TypeOK, SetupInv, NEW s \in Starts, DropIndex(s)
  PROVE  SetupInv'
<1>1. PICK l \in {"none", "exclusive"} :
        /\ Executed(s, [txn[s] EXCEPT !.lock = l])
        /\ l = "none" => index = NoIndex
        /\ l = "exclusive" => index # NoIndex /\ \A t \in Others(s) : txn[t].lock = "none"
  <2>1. txn[s] \in Txn /\ TxnInv(s) /\ Running(s) /\ txn[s].at = 1
    BY AtNumber DEF TypeOK, DropIndex, SetupInv
  <2>2. txn[s].lock = "none"
    BY <2>1 DEF TxnInv
  <2>3. txn[s] = [txn[s] EXCEPT !.lock = "none"]
    BY <2>1, <2>2 DEF Txn
  <2>4. index # NoIndex => \A t \in Others(s) : txn[t].lock = "none"
    BY DEF DropIndex, Free, Awaits
  <2>5. QED
    BY <2>3, <2>4 DEF DropIndex
<1> DEFINE t0 == [txn[s] EXCEPT !.lock = l]
<1>2. TxnInv(s) /\ txn[s] \in Txn /\ Running(s) /\ txn[s].at = 1 /\ ~txn[s].built
  BY AtNumber DEF TypeOK, DropIndex, SetupInv, TxnInv
<1>3. t0 \in Txn /\ t0.at = 1 /\ t0.state = "running" /\ t0.lock = l /\ t0.built = txn[s].built
      /\ t0.seen = txn[s].seen /\ t0.deleted = txn[s].deleted
  BY <1>2 DEF Txn, Running
<1>0. Executed(s, t0)
  BY <1>1
<1> HIDE DEF t0
<1> DEFINE r == txn'[s]
<1>4. /\ r \in Txn /\ txn' = [txn EXCEPT ![s] = r] /\ r.state = "running" /\ r.at = 2 /\ r.lock = l
      /\ ~r.built /\ r.seen = txn[s].seen /\ r.deleted = txn[s].deleted
      /\ UNCHANGED <<database, start>>
  BY <1>0, <1>2, <1>3, ExecutedStep
<1>5. TxnInv(s)'
  BY <1>1, <1>2, <1>4 DEF TxnInv, Running, database
<1>6. ASSUME NEW t \in Others(s) PROVE Apart(s, t)' /\ Apart(t, s)'
  <2>1. txn'[t] = txn[t] /\ t \in Starts /\ s \in Others(t) /\ TxnInv(t)
    BY <1>4 DEF Others, TypeOK, SetupInv
  <2>2. txn[t].lock = "exclusive" => l = "none"
    <3>1. txn[t].lock = "exclusive" => index # NoIndex
      BY <2>1 DEF TxnInv
    <3>2. QED
      BY <1>1, <3>1
  <2>3. QED
    BY <1>1, <1>4, <2>1, <2>2 DEF Apart
<1> HIDE DEF r
<1>7. QED
  BY <1>2, <1>4, <1>5, <1>6, TxnStep DEF Running, r

\* CREATE INDEX builds when nobody else has built or locked the table.
LEMMA BuildStep ==
  ASSUME TypeOK, SetupInv, NEW s \in Starts, CreateIndex(s)
  PROVE  SetupInv'
<1> DEFINE l == IF txn[s].lock = "none" THEN "share" ELSE txn[s].lock
           t0 == [txn[s] EXCEPT !.built = TRUE, !.lock = l]
<1>1. TxnInv(s) /\ txn[s] \in Txn /\ Running(s) /\ txn[s].at = 2 /\ ~txn[s].built
  <2>1. TxnInv(s) /\ txn[s] \in Txn /\ Running(s) /\ txn[s].at = 2
    BY AtNumber DEF TypeOK, CreateIndex, SetupInv
  <2>2. QED
    BY <2>1 DEF TxnInv
<1>2. t0 \in Txn /\ t0.at = 2 /\ t0.state = "running" /\ t0.lock = l /\ t0.built
      /\ t0.seen = txn[s].seen /\ t0.deleted = txn[s].deleted
  BY <1>1 DEF Txn, Running
<1>3. l \in {"share", "exclusive"} /\ (l = "share" => index = NoIndex) /\ (l = "exclusive" => index # NoIndex)
      /\ (l = "exclusive" => txn[s].lock = "exclusive")
  BY <1>1 DEF CreateIndex, Dropped, TxnInv, Txn
<1>4. Executed(s, t0)
  BY DEF CreateIndex
<1> HIDE DEF t0, l
<1> DEFINE r == txn'[s]
<1>5. /\ r \in Txn /\ txn' = [txn EXCEPT ![s] = r] /\ r.state = "running" /\ r.at = 3 /\ r.lock = l
      /\ r.built /\ r.seen = txn[s].seen
      /\ UNCHANGED <<database, start>>
  BY <1>1, <1>2, <1>4, ExecutedStep
<1>6. TxnInv(s)'
  BY <1>1, <1>3, <1>5 DEF TxnInv, Running, database
<1>7. ASSUME NEW t \in Others(s) PROVE Apart(s, t)' /\ Apart(t, s)'
  <2>1. txn'[t] = txn[t] /\ t \in Starts /\ s \in Others(t) /\ ~txn[t].built /\ txn[t].lock # "exclusive"
    BY <1>5 DEF Others, TypeOK, SetupInv, CreateIndex, Free, Awaits
  <2>2. txn[s].lock = "exclusive" => txn[t].lock = "none"
    BY DEF SetupInv, Apart
  <2>3. QED
    BY <1>3, <1>5, <2>1, <2>2 DEF Apart
<1> HIDE DEF r
<1>8. QED
  BY <1>1, <1>5, <1>6, <1>7, TxnStep DEF Running, r

\* DELETE and INSERT touch no lock of tx_in; what DELETE has seen is still what
\* there is when it gets the rows, for nobody commits while this one has built.
LEMMA DeleteStep ==
  ASSUME TypeOK, SetupInv, NEW s \in Starts, BeginDelete(s) \/ DeleteRows(s) \/ InsertRow(s)
  PROVE  SetupInv'
<1>1. TxnInv(s) /\ txn[s] \in Txn /\ Running(s) /\ txn[s].at \in {3, 4}
  BY AtNumber DEF TypeOK, SetupInv, BeginDelete, DeleteRows, InsertRow
<1>2. /\ txn[s].built /\ txn[s].lock # "none" /\ txn[s].seen \subseteq rows
      /\ txn[s].at = 4 => txn[s].deleted = rows
      /\ txn[s].lock = "exclusive" => index # NoIndex
      /\ txn[s].lock = "share" => index = NoIndex
      /\ index # s /\ table
  BY <1>1 DEF TxnInv, Running
<1>3. SUFFICES ASSUME NEW r \in Txn, txn' = [txn EXCEPT ![s] = r], UNCHANGED <<database, start>>,
                      r.state = "running", r.lock = txn[s].lock, r.built,
                      r.at \in {3, 4, 5}, r.seen \subseteq rows, r.at > 3 => r.deleted = rows
               PROVE  SetupInv'
  <2>1. CASE BeginDelete(s)
    <3> DEFINE r == [txn[s] EXCEPT !.seen = rows]
    <3>1. r \in Txn /\ r.state = "running" /\ r.lock = txn[s].lock /\ r.built /\ r.at = 3 /\ r.seen = rows
      BY <2>1, <1>1, <1>2, AtNumber DEF BeginDelete, Txn, TypeOK, Running
    <3>2. txn' = [txn EXCEPT ![s] = r] /\ UNCHANGED <<database, start>>
      BY <2>1 DEF BeginDelete
    <3> HIDE DEF r
    <3>3. r.at \in {3, 4, 5} /\ r.seen \subseteq rows /\ (r.at > 3 => r.deleted = rows)
      BY <3>1
    <3>4. QED
      BY <1>3, <3>1, <3>2, <3>3
  <2>2. CASE DeleteRows(s)
    <3> DEFINE t0 == [txn[s] EXCEPT !.deleted = txn[s].seen \cap rows]
    <3>1. txn[s].at = 3 /\ Executed(s, t0)
      BY <2>2, AtNumber DEF DeleteRows
    <3>2. t0 \in Txn /\ t0.at = 3 /\ t0.state = "running" /\ t0.lock = txn[s].lock /\ t0.built
          /\ t0.seen = txn[s].seen /\ t0.deleted = txn[s].seen \cap rows
      BY <3>1, <1>1, <1>2 DEF Txn, Running
    <3>3. txn[s].seen = rows
      BY <2>2, <1>2 DEF DeleteRows, SetupInv, OneVersionRow
    <3> HIDE DEF t0
    <3>4. QED
      BY <1>2, <1>3, <3>1, <3>2, <3>3, ExecutedStep
  <2>3. CASE InsertRow(s)
    <3>1. txn[s].at = 4 /\ Executed(s, txn[s])
      BY <2>3, AtNumber DEF InsertRow
    <3>2. QED
      BY <1>1, <1>2, <1>3, <3>1, ExecutedStep DEF Running
  <2>4. QED
    BY <2>1, <2>2, <2>3
<1>4. txn'[s] = r /\ UNCHANGED <<table, rows, index>>
  BY <1>3 DEF TypeOK, database
<1>5. TxnInv(s)'
  BY <1>2, <1>3, <1>4 DEF TxnInv, Running
<1>6. ASSUME NEW t \in Others(s) PROVE Apart(s, t)' /\ Apart(t, s)'
  <2>1. txn'[t] = txn[t] /\ Apart(s, t) /\ Apart(t, s)
    BY <1>3 DEF Others, TypeOK, SetupInv
  <2>2. QED
    BY <1>2, <1>3, <1>4, <2>1 DEF Apart
<1>7. QED
  BY <1>1, <1>3, <1>5, <1>6, TxnStep DEF Running

\* One case per action; those of Postgres keep the transaction's own invariant
\* and its distance to the others.
LEMMA SetupStep ==
  ASSUME TypeOK, SetupInv, [Next]_vars
  PROVE  SetupInv'
<1>1. CASE UNCHANGED vars
  <2>1. UNCHANGED <<table, rows, index, start, txn>>
    BY <1>1 DEF vars, database
  <2>2. QED
    BY <2>1 DEF SetupInv, OneVersionRow, StartInv, TxnInv, Apart, Running
<1>2. CASE Next
  <2>1. PICK s \in Starts : Start(s) \/ Client(s) \/ Server(s) \/ EndProcess(s) \/ Abort(s)
    BY <1>2 DEF Next
  <2>2. StartInv(s) /\ TxnInv(s) /\ txn[s] \in Txn /\ start[s] \in Stages
    BY DEF SetupInv, TypeOK
  <2>3. CASE Start(s)
    BY <2>3, <2>2, ClientStep DEF Start, Goes, StartInv, TypeOK, database, Stages
  <2>4. CASE CheckTable(s)
    <3> DEFINE to == IF table THEN "version" ELSE "creating"
    <3>1. to \in Stages /\ start' = [start EXCEPT ![s] = to] /\ start'[s] = to /\ UNCHANGED <<table, rows, index, txn>>
      BY <2>4 DEF CheckTable, Goes, database, Stages, TypeOK
    <3>2. StartInv(s)'
      BY <2>4, <2>2, <3>1 DEF CheckTable, Goes, StartInv
    <3>3. QED
      BY <3>1, <3>2, ClientStep
  <2>5. CASE CreateTable(s)
    <3> DEFINE to == IF table THEN "ended" ELSE "version"
    <3>1. to \in Stages /\ start' = [start EXCEPT ![s] = to] /\ start'[s] = to /\ UNCHANGED <<rows, index, txn>> /\ table'
      BY <2>5 DEF CreateTable, Goes, Stages, TypeOK
    <3>2. StartInv(s)'
      BY <2>5, <2>2, <3>1 DEF CreateTable, Goes, StartInv
    <3>3. QED
      BY <3>1, <3>2, ClientStep
  <2>6. CASE ReadVersion(s)
    <3>1. PICK to \in {"ended", "serving", "upgrade"} :
            /\ Goes(s, "version", to)
            /\ to = "serving" => \E r \in rows : IsCurrent(r)
      BY <2>6 DEF ReadVersion
    <3>2. to \in Stages /\ start' = [start EXCEPT ![s] = to] /\ start'[s] = to /\ UNCHANGED <<table, rows, index, txn>>
      BY <2>6, <3>1 DEF ReadVersion, Goes, database, Stages, TypeOK
    <3>3. to = "serving" => index \in Starts
      BY <3>1 DEF SetupInv, OneVersionRow, IsCurrent, TypeOK, Rows
    <3>4. StartInv(s)'
      BY <2>2, <3>1, <3>2, <3>3 DEF Goes, StartInv
    <3>5. QED
      BY <3>2, <3>4, ClientStep
  <2>7. CASE SendUpgrade(s)
    BY <2>7, <2>1, SendStep
  <2>8. CASE Finish(s)
    <3>1. PICK to \in {"ended", "serving"} :
            /\ Goes(s, "upgrading", to)
            /\ to = "serving" => txn[s].state = "committed"
      BY <2>8 DEF Finish
    <3>2. to \in Stages /\ start' = [start EXCEPT ![s] = to] /\ start'[s] = to /\ UNCHANGED <<table, rows, index, txn>>
      BY <2>8, <3>1 DEF Finish, Goes, database, Stages, TypeOK
    <3>3. StartInv(s)'
      BY <2>2, <3>1, <3>2 DEF Goes, StartInv, TxnInv
    <3>4. QED
      BY <3>2, <3>3, ClientStep
  <2>9. CASE EndProcess(s)
    <3>1. start' = [start EXCEPT ![s] = "ended"] /\ start'[s] = "ended" /\ UNCHANGED <<table, rows, index, txn>>
      BY <2>9 DEF EndProcess, database, TypeOK
    <3>2. StartInv(s)'
      BY <3>1 DEF StartInv
    <3>3. QED
      BY <3>1, <3>2, ClientStep DEF Stages
  <2>10. CASE DropIndex(s)
    BY <2>10, DropStep
  <2>11. CASE CreateIndex(s)
    BY <2>11, BuildStep
  <2>12. CASE CreateFails(s)
    BY <2>12, AtNumber, AbortStep DEF CreateFails
  <2>13. CASE BeginDelete(s) \/ DeleteRows(s) \/ InsertRow(s)
    BY <2>13, DeleteStep
  <2>14. CASE Commit(s)
    BY <2>14, CommitStep
  <2>15. CASE Abort(s)
    BY <2>15, AbortStep DEF Abort
  <2>16. QED
    BY <2>1, <2>3, <2>4, <2>5, <2>6, <2>7, <2>8, <2>9, <2>10, <2>11, <2>12, <2>13, <2>14, <2>15
       DEF Client, Server
<1>3. QED
  BY <1>1, <1>2

-----------------------------------------------------------------------------
\* The database and every set-up are as SetupInv says, in every state.
THEOREM SetupInvariant == Spec => []SetupInv
<1>1. Init => SetupInv
  <2> SUFFICES ASSUME Init PROVE SetupInv
    OBVIOUS
  <2>1. Older \notin Starts /\ Plain \notin Starts /\ NoIndex \notin Starts
    BY StartsAreNat DEF Older, NoIndex, Plain
  <2>2. OneVersionRow
    BY <2>1 DEF Init, OneVersionRow
  <2>3. \A s \in Starts : txn[s] = NoTxn /\ start[s] = "off" /\ index # s
    BY <2>1 DEF Init
  <2>4. NoTxn.state = "none" /\ NoTxn.lock = "none" /\ NoTxn.built = FALSE /\ NoTxn.deleted = {}
    BY DEF NoTxn
  <2>5. \A s \in Starts : StartInv(s) /\ TxnInv(s)
    BY <2>3, <2>4 DEF StartInv, TxnInv, Running
  <2>6. \A s \in Starts : \A t \in Others(s) : Apart(s, t)
    BY <2>3, <2>4 DEF Apart, Others
  <2>7. QED
    BY <2>2, <2>5, <2>6 DEF SetupInv, Init
<1>2. QED
  BY <1>1, TypeCorrect, SetupStep, PTL DEF Spec

\* The table of versions never has more than one row, and the row and the index
\* are of the same upgrade, for any number of starts.
THEOREM AlwaysOneVersionRow == Spec => []OneVersionRow
<1>1. SetupInv => OneVersionRow
  BY DEF SetupInv
<1>2. QED
  BY <1>1, SetupInvariant, PTL

\* However many upgrades run at once, the one that another waits for waits for
\* nobody: if it has built its index it needs no lock any more, and nobody else
\* has come as far as to delete a row; if it has only locked tx_in, it alone has.
THEOREM NeverUpgradeDeadlock == Spec => []NoUpgradeDeadlock
<1>1. TypeOK /\ SetupInv => NoUpgradeDeadlock
  <2> SUFFICES ASSUME TypeOK, SetupInv, NEW s \in Starts, NEW t \in Others(s), Awaits(s, t)
               PROVE  Running(t) /\ Free(t)
    BY DEF NoUpgradeDeadlock
  <2>1. t \in Starts /\ TxnInv(s) /\ TxnInv(t) /\ txn[t] \in Txn /\ Apart(s, t)
    BY DEF Others, SetupInv, TypeOK
  <2>2. At(s, "delete") => txn[s].built
    BY <2>1, AtNumber DEF TxnInv
  <2>3. txn[t].lock # "none"
    BY <2>1, <2>2 DEF Awaits, Apart, TxnInv
  <2>4. Running(t) /\ txn[t].at \in 1..5 /\ (txn[t].built \/ (txn[t].lock = "exclusive" /\ txn[t].at = 2))
    BY <2>1, <2>3, PositionsAre DEF TxnInv, Txn
  <2>5. ASSUME NEW u \in Others(t) PROVE ~Awaits(t, u)
    <3>1. u \in Starts /\ TxnInv(u) /\ Apart(t, u)
      BY <2>1, <2>5 DEF Others, SetupInv
    <3>2. ~At(t, "drop")
      BY <2>1, <2>4, AtNumber DEF TxnInv
    <3>3. At(t, "create") => txn[u].lock = "none" /\ ~txn[u].built
      BY <2>1, <2>4, <3>1, AtNumber DEF TxnInv, Apart
    <3>4. At(t, "delete") => txn[u].deleted = {}
      BY <2>1, <3>1, AtNumber DEF TxnInv, Apart
    <3>5. QED
      BY <3>2, <3>3, <3>4 DEF Awaits
  <2>6. QED
    BY <2>4, <2>5 DEF Free
<1>2. QED
  BY <1>1, TypeCorrect, SetupInvariant, PTL

\* The table of versions holds the row of a start exactly when the index is of
\* a start: then the version is the current one.
LEMMA CurrentVersion ==
  ASSUME TypeOK, OneVersionRow, index \in Starts
  PROVE  Version = "current"
<1>1. index \in rows
  BY DEF OneVersionRow
<1>2. rows = {index}
  BY <1>1 DEF OneVersionRow
<1>3. Older \notin Starts
  BY StartsAreNat DEF Older
<1>4. rows # {} /\ rows # {Older}
  BY <1>2, <1>3
<1>5. QED
  BY <1>2, <1>4 DEF Version

Serving == {s \in Starts : start[s] = "serving"}

\* How a step of one process changes the set of those that serve.
LEMMA ServingStep ==
  ASSUME TypeOK, NEW s \in Starts, NEW to, start' = [start EXCEPT ![s] = to]
  PROVE  /\ to = "serving" => Serving' = Serving \cup {s}
         /\ to # "serving" => Serving' = Serving \ {s}
         /\ to # "serving" /\ start[s] # "serving" => Serving' = Serving
BY DEF TypeOK, Serving

\* Every step is a step of the abstract database, or changes nothing of it.
LEMMA PromiseStep ==
  ASSUME TypeOK, SetupInv, [Next]_vars, TypeOK', SetupInv'
  PROVE  [Promise!Next]_(Promise!vars)
<1> DEFINE indexed == index \in Starts
<1>1. SUFFICES \/ UNCHANGED <<Version, indexed, Serving>>
               \/ Version' = "current" /\ indexed' /\ Serving' = Serving
               \/ \E s \in Starts : /\ Version = "current" /\ indexed
                                    /\ Serving' = Serving \cup {s} /\ UNCHANGED <<Version, indexed>>
               \/ \E s \in Starts : Serving' = Serving \ {s} /\ UNCHANGED <<Version, indexed>>
  BY DEF Promise!Next, Promise!vars, Promise!Upgrade, Promise!Serve, Promise!Leave, Serving
<1>2. UNCHANGED rows => Version' = Version
  BY DEF Version
<1>3. UNCHANGED index => indexed' = indexed
  OBVIOUS
<1>4. UNCHANGED start => Serving' = Serving
  BY DEF Serving
<1>5. indexed => Version = "current"
  BY CurrentVersion DEF SetupInv
<1>6. CASE UNCHANGED vars
  BY <1>2, <1>3, <1>4, <1>6 DEF vars, database
<1>7. CASE Next
  <2>1. PICK s \in Starts : Start(s) \/ Client(s) \/ Server(s) \/ EndProcess(s) \/ Abort(s)
    BY <1>7 DEF Next
  <2>2. CASE Start(s) \/ CheckTable(s) \/ CreateTable(s) \/ SendUpgrade(s)
    <3>1. PICK to : to # "serving" /\ start' = [start EXCEPT ![s] = to]
      BY <2>2 DEF Start, CheckTable, CreateTable, SendUpgrade, Goes
    <3>2. start[s] # "serving" /\ UNCHANGED <<rows, index>>
      BY <2>2 DEF Start, CheckTable, CreateTable, SendUpgrade, Goes, database
    <3>3. Serving' = Serving
      BY <3>1, <3>2, ServingStep
    <3>4. QED
      BY <1>1, <1>2, <1>3, <3>2, <3>3
  <2>3. CASE ReadVersion(s) \/ Finish(s)
    <3>1. PICK to : /\ start' = [start EXCEPT ![s] = to]
                    /\ start'[s] = to
                    /\ start[s] \in {"version", "upgrading"}
      BY <2>3 DEF ReadVersion, Finish, Goes, TypeOK
    <3>2. UNCHANGED <<rows, index>>
      BY <2>3 DEF ReadVersion, Finish, database
    <3>3. to = "serving" => indexed
      BY <3>1, <3>2 DEF SetupInv, StartInv
    <3>4. QED
      BY <1>1, <1>2, <1>3, <1>5, <3>1, <3>2, <3>3, ServingStep
  <2>4. CASE EndProcess(s)
    <3>1. PICK to : to # "serving" /\ start' = [start EXCEPT ![s] = to] /\ UNCHANGED <<rows, index>>
      BY <2>4 DEF EndProcess, database
    <3>2. Serving' = Serving \ {s}
      BY <3>1, ServingStep
    <3>3. QED
      BY <1>1, <1>2, <1>3, <3>1, <3>2
  <2>5. CASE Commit(s)
    <3>1. UNCHANGED start /\ indexed'
      BY <2>5 DEF Commit
    <3>2. Version' = "current"
      <4>1. TypeOK' /\ OneVersionRow' /\ (index \in Starts)'
        BY <3>1 DEF SetupInv
      <4>2. (TypeOK /\ OneVersionRow /\ index \in Starts => Version = "current")'
        BY CurrentVersion, PTL
      <4>3. QED
        BY <4>1, <4>2
    <3>3. QED
      BY <1>1, <1>4, <3>1, <3>2
  <2>6. CASE (Server(s) /\ ~Commit(s)) \/ Abort(s)
    <3>1. UNCHANGED <<rows, index, start>>
      BY <2>6 DEF Server, DropIndex, CreateIndex, CreateFails, BeginDelete, DeleteRows, InsertRow, Executed, Abort, database
    <3>2. QED
      BY <1>1, <1>2, <1>3, <1>4, <3>1
  <2>7. QED
    BY <2>1, <2>2, <2>3, <2>4, <2>5, <2>6 DEF Client
<1>8. QED
  BY <1>6, <1>7

\* The set-up implements what UpgradedDatabase promises: no start serves calls
\* on a database of an older version, version and index change in one step and
\* no upgrade is undone, for any number of starts that end anywhere.
THEOREM SetupKeepsPromise == Spec => KeepsPromise
<1>1. Init => Promise!Init
  <2> SUFFICES ASSUME Init PROVE Promise!Init
    OBVIOUS
  <2>1. Plain \notin Starts /\ NoIndex \notin Starts /\ Older \notin Starts
    BY StartsAreNat DEF Plain, NoIndex, Older
  <2>2. Version \in {"none", "older"}
    <3>1. rows \in {{}, {Older}} /\ \A s \in Starts : rows # {s}
      BY <2>1 DEF Init
    <3>2. CASE rows = {}
      BY <3>1, <3>2 DEF Version
    <3>3. CASE rows = {Older}
      BY <3>1, <3>3 DEF Version
    <3>4. QED
      BY <3>1, <3>2, <3>3
  <2>3. {s \in Starts : start[s] = "serving"} = {}
    BY DEF Init
  <2>4. (index \in Starts) = FALSE
    BY <2>1 DEF Init
  <2>5. QED
    BY <2>2, <2>3, <2>4 DEF Promise!Init
<1>2. TypeOK /\ SetupInv /\ [Next]_vars /\ TypeOK' /\ SetupInv' => [Promise!Next]_(Promise!vars)
  BY PromiseStep
<1>3. QED
  BY <1>1, <1>2, TypeCorrect, SetupInvariant, PTL DEF Spec, KeepsPromise, Promise!Spec
=============================================================================
