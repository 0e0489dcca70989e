----------------------------- MODULE Transactions -----------------------------
(***************************************************************************)
(* The page of one transaction (transactions.js, Transactions/Viewer) and  *)
(* the query that answers it (TransactionQueries, TransactionService),     *)
(* while cardano-db-sync adds transactions and rolls them back.            *)
(***************************************************************************)
EXTENDS Integers, Sequences, FiniteSetsExt

CONSTANTS
  MaxTxs,      \* bound on the transactions
  MaxOuts,     \* bound on the outputs of a transaction
  MaxAmount,   \* the amount of an output is 1..MaxAmount
  Labels,      \* metadata labels (tx_metadata.key)
  Accounts,    \* reward accounts that may be withdrawn from
  MaxRollbacks \* bound on the rollbacks of the node

ASSUME TransactionsAssumption ==
  /\ MaxTxs \in Nat /\ MaxOuts \in Nat \ {0} /\ MaxAmount \in Nat \ {0} /\ MaxRollbacks \in Nat
  /\ Labels \subseteq Nat /\ IsFiniteSet(Labels) /\ IsFiniteSet(Accounts)

VARIABLES
  txs,        \* rows of public.tx by id, each with its rows in the other tables
  rollbacks,  \* so far (only bounds the environment)
  page,       \* the transaction the page is for, and transactionViewer's flags
  request     \* its fetch and the reply

vars == <<txs, rollbacks, page, request>>

\* An input names its output by the transaction's id and the output's index.
TxIds  == 1..MaxTxs
Output == TxIds \X (1..MaxOuts)
\* A transaction may be without outputs: nothing in the schema asks for a tx_out.
Outs == UNION {[1..n -> 1..MaxAmount] : n \in 0..MaxOuts}
Tx == [outs : Outs, ins : SUBSET Output, labels : SUBSET Labels,
       withdrawals : SUBSET Accounts]

\* The reply: how often each output is listed, the amounts and the total, and
\* the labels of the metadata.  The history field known is the transaction in
\* the tables when they were read, and alone says that no output's id is that of
\* a transaction of which more than one output has been spent.
NoReply == [stage |-> "none", listed |-> << >>, outs |-> << >>, total |-> 0, labels |-> {},
            known |-> {}, alone |-> TRUE]

Init ==
  /\ txs = << >>
  /\ rollbacks = 0
  /\ page = [tx |-> 0, loading |-> FALSE, initialized |-> FALSE, error |-> FALSE, found |-> FALSE]
  /\ request = NoReply

-----------------------------------------------------------------------------
(***************************************************************************)
(* The environment.                                                        *)
(***************************************************************************)
Unspent == {o \in Output : /\ o[1] <= Len(txs) /\ o[2] <= Len(txs[o[1]].outs)
                           /\ \A t \in DOMAIN txs : o \notin txs[t].ins}

\* A transaction of a chain spends what is unspent.
AddTx ==
  /\ Len(txs) < MaxTxs
  /\ \E outs \in Outs, ins \in SUBSET Unspent, labels \in SUBSET Labels,
        withdrawals \in SUBSET Accounts :
       txs' = Append(txs, [outs |-> outs, ins |-> ins, labels |-> labels, withdrawals |-> withdrawals])
  /\ UNCHANGED <<rollbacks, page, request>>

Rollback ==
  /\ rollbacks < MaxRollbacks
  /\ \E n \in 0..(Len(txs) - 1) : txs' = SubSeq(txs, 1, n)
  /\ rollbacks' = rollbacks + 1
  /\ UNCHANGED <<page, request>>

-----------------------------------------------------------------------------
(***************************************************************************)
(* GetTransactionOutputs: one row for each combination of an output with   *)
(* what the left joins find, or with null (no element) where they find     *)
(* nothing.                                                                *)
(***************************************************************************)
Inner(S)  == {{x} : x \in S}  \* a mutant: an inner join
OrNull(S) == IF S = {} THEN {{}} ELSE {{x} : x \in S}

\* public.tx_out.id: outputs are numbered over all transactions.
OutId(t, i) == MapThenSumSet(LAMBDA u : Len(txs[u].outs), 1..(t - 1)) + i

EveryInput(t, i) == UNION {{u} \X txs[u].ins : u \in DOMAIN txs}  \* a mutant: a cross join
\* The join compares the output's own id with tx_in.tx_out_id, the id of a
\* transaction (GetEpochCirculationStatistics joins it with tx_out.tx_id): it finds
\* the inputs that spend what the transaction of that id paid.
InputsJoined(t, i) ==
  UNION {{u} \X {o \in txs[u].ins : o[1] = OutId(t, i)} : u \in DOMAIN txs}

Rows(t) ==
  UNION {{i} \X OrNull(txs[t].labels) \X OrNull(InputsJoined(t, i)) \X OrNull(txs[t].withdrawals) :
           i \in DOMAIN txs[t].outs}

\* Every row adds its output, and its label unless that is 0, which is also
\* what a label that is null is read as.
TimesListed(rows, i) == Cardinality({r \in rows : r[1] = i})
AllLabels(rows)      == UNION {r[2] : r \in rows}  \* a mutant: label 0 is listed
LabelsListed(rows)   == {k \in UNION {r[2] : r \in rows} : k > 0}

OutSum(t) == MapThenSumSet(LAMBDA i : txs[t].outs[i], DOMAIN txs[t].outs)

Alone(t) ==
  \A i \in DOMAIN txs[t].outs :
    Cardinality({o \in Output : o[1] = OutId(t, i) /\ \E u \in DOMAIN txs : o \in txs[u].ins}) <= 1

-----------------------------------------------------------------------------
(***************************************************************************)
(* The server.                                                             *)
(***************************************************************************)
Reply(r) == request.stage = "sent" /\ request' = r /\ UNCHANGED <<txs, rollbacks, page>>

KnownOf(t) == IF t \in DOMAIN txs THEN {txs[t]} ELSE {}

\* Without rows there is no transaction in the service's reply, and status 404:
\* also of a transaction that is there without outputs, whose inner join is empty.
AnswerNotFound ==
  /\ \A t \in DOMAIN txs : t = page.tx => Rows(t) = {}
  /\ Reply([NoReply EXCEPT !.stage = "404", !.known = KnownOf(page.tx)])

AnswerTransaction ==
  /\ page.tx \in DOMAIN txs
  /\ LET rows == Rows(page.tx) IN
       /\ rows # {}
       /\ Reply([stage |-> "ok", listed |-> [i \in DOMAIN txs[page.tx].outs |-> TimesListed(rows, i)],
                 outs |-> txs[page.tx].outs, total |-> OutSum(page.tx), labels |-> LabelsListed(rows),
                 known |-> KnownOf(page.tx), alone |-> Alone(page.tx)])

\* The database or the service fails; or a label's json is null, which cannot be
\* put in the reply.
AnswerFails == Reply([NoReply EXCEPT !.stage = "500"])

LoseFetch ==
  /\ request.stage \in {"sent", "ok", "404", "500"}
  /\ request' = [NoReply EXCEPT !.stage = "lost"]
  /\ UNCHANGED <<txs, rollbacks, page>>

-----------------------------------------------------------------------------
(***************************************************************************)
(* The page: fetchTransaction and its callbacks.                           *)
(***************************************************************************)
OpenPage ==
  /\ page.tx = 0
  /\ \E t \in TxIds : page' = [page EXCEPT !.tx = t, !.loading = TRUE]
  /\ request' = [NoReply EXCEPT !.stage = "sent"]
  /\ UNCHANGED <<txs, rollbacks>>

HandleOk ==
  /\ request.stage = "ok"
  /\ page' = [page EXCEPT !.found = TRUE, !.loading = FALSE, !.initialized = TRUE]
  /\ request' = [request EXCEPT !.stage = "handled"]
  /\ UNCHANGED <<txs, rollbacks>>

\* A mutant of HandleNotOk: the flags are set by the callback of the data only.
HandleStatusOnly ==
  /\ request.stage \in {"404", "500"}
  /\ page' = [page EXCEPT !.error = request.stage # "404"]
  /\ request' = [request EXCEPT !.stage = "handled"]
  /\ UNCHANGED <<txs, rollbacks>>
HandleNotOk ==
  /\ request.stage \in {"404", "500"}
  /\ page' = [page EXCEPT !.error = request.stage # "404", !.loading = FALSE, !.initialized = TRUE]
  /\ request' = [request EXCEPT !.stage = "handled"]
  /\ UNCHANGED <<txs, rollbacks>>

Answer == AnswerNotFound \/ AnswerTransaction \/ AnswerFails
Handle == HandleOk \/ HandleNotOk

Next == AddTx \/ Rollback \/ OpenPage \/ Answer \/ Handle \/ LoseFetch

Spec == Init /\ [][Next]_vars

\* A fetch is answered, if only with an error, and the event loop runs.
FairSpec == Spec /\ WF_vars(Answer) /\ WF_vars(Handle)

-----------------------------------------------------------------------------
\* The templates of Transactions/Viewer.cshtml.
SaysNotFound     == page.initialized /\ ~page.error /\ ~page.found
ShowsTransaction == page.initialized /\ ~page.error /\ page.found

TypeOK ==
  /\ txs \in Seq(Tx) /\ Len(txs) <= MaxTxs
  /\ rollbacks \in 0..MaxRollbacks
  /\ page \in [tx : TxIds \cup {0}, loading : BOOLEAN, initialized : BOOLEAN, error : BOOLEAN, found : BOOLEAN]
  /\ request.stage \in {"none", "sent", "ok", "404", "500", "lost", "handled"}
  /\ DOMAIN request.listed = DOMAIN request.outs
  /\ request.labels \subseteq Labels \ {0}
  /\ request.known \subseteq Tx

\* A left join has a row for each match, and one where there is none.
LeftJoined(S) == IF S = {} THEN 1 ELSE Cardinality(S)

\* The page lists every output of the transaction and every label but 0: an
\* output once for each pair of a label and a withdrawal (so once, of a
\* transaction with at most one of each), and more often only where its id is
\* that of a transaction of which two outputs have been spent.
ListsEveryOutput ==
  ShowsTransaction =>
    \A t \in request.known :
      /\ request.outs = t.outs /\ request.labels = t.labels \ {0}
      /\ LET pairs == LeftJoined(t.labels) * LeftJoined(t.withdrawals) IN
           \A i \in DOMAIN t.outs :
             /\ request.listed[i] >= pairs
             /\ request.alone => request.listed[i] = pairs

\* "Transaction wasn't found" is said of a transaction that was in the database only
\* if it has no outputs; whatever else it has none of, it is found.
NotFoundIsOfNoOutput == SaysNotFound => \A t \in request.known : t.outs = << >>

\* The outputs listed add up to the "Total Sent" above them.
OutputsAddUp ==
  ShowsTransaction =>
    MapThenSumSet(LAMBDA i : request.listed[i] * request.outs[i], DOMAIN request.outs) = request.total

\* A page whose fetch is not lost comes to an end of loading.
PageSettles == page.loading ~> (~page.loading \/ request.stage = "lost")
=============================================================================
