------------------------- MODULE Transactions_proofs -------------------------
(***************************************************************************)
(* Theorems about Transactions, for any number of transactions, outputs,   *)
(* labels and accounts.                                                    *)
(***************************************************************************)
EXTENDS Transactions, FiniteSetTheorems, TLAPS

USE TransactionsAssumption

\* The rows of a transaction, of which there is one for each of its outputs, and
\* of which no label is left that the transaction does not have.
LEMMA RowsOfTx ==
  ASSUME NEW t
  PROVE  /\ \A r \in Rows(t) : /\ r[1] \in DOMAIN txs[t].outs
                               /\ r[2] \in OrNull(txs[t].labels)
                               /\ r[3] \in OrNull(InputsJoined(t, r[1]))
                               /\ r[4] \in OrNull(txs[t].withdrawals)
                               /\ r = <<r[1], r[2], r[3], r[4]>>
         /\ \A i \in DOMAIN txs[t].outs : \A l \in OrNull(txs[t].labels),
               o \in OrNull(InputsJoined(t, i)), w \in OrNull(txs[t].withdrawals) :
              <<i, l, o, w>> \in Rows(t)
BY DEF Rows

LEMMA OrNullHasOne ==
  ASSUME NEW S
  PROVE  OrNull(S) # {} /\ (\A x \in OrNull(S) : x \subseteq S)
BY DEF OrNull

\* Each transaction of the tables that has outputs has rows, its labels among them.
LEMMA TxHasRows ==
  ASSUME TypeOK, NEW t \in DOMAIN txs, txs[t].outs # << >>
  PROVE  /\ Rows(t) # {}
         /\ \A r \in Rows(t) : r[2] \subseteq txs[t].labels
         /\ \A k \in txs[t].labels : \E r \in Rows(t) : k \in r[2]
<1>1. txs[t] \in Tx
  BY DEF TypeOK
<1>2. PICK n \in 0..MaxOuts : txs[t].outs \in [1..n -> 1..MaxAmount]
  BY <1>1 DEF Tx, Outs
<1>3. 1 \in DOMAIN txs[t].outs
  <2>1. n # 0
    BY <1>2
  <2>2. QED
    BY <1>2, <2>1
<1>4. PICK l \in OrNull(txs[t].labels), o \in OrNull(InputsJoined(t, 1)), w \in OrNull(txs[t].withdrawals) : TRUE
  BY OrNullHasOne
<1>5. <<1, l, o, w>> \in Rows(t)
  BY <1>3, <1>4, RowsOfTx
<1>6. \A r \in Rows(t) : r[2] \subseteq txs[t].labels
  BY RowsOfTx, OrNullHasOne
<1>7. ASSUME NEW k \in txs[t].labels PROVE \E r \in Rows(t) : k \in r[2]
  <2>1. {k} \in OrNull(txs[t].labels)
    BY DEF OrNull
  <2>2. <<1, {k}, o, w>> \in Rows(t)
    BY <1>3, <1>4, <2>1, RowsOfTx
  <2>3. <<1, {k}, o, w>>[2] = {k}
    OBVIOUS
  <2>4. QED
    BY <2>2, <2>3
<1>8. QED
  BY <1>5, <1>6, <1>7

\* Without outputs there are no rows: the join with them is an inner one.
LEMMA NoOutputNoRow ==
  ASSUME NEW t, txs[t].outs = << >>
  PROVE  Rows(t) = {}
BY DEF Rows

LEMMA TxInTables ==
  ASSUME TypeOK, NEW t \in DOMAIN txs
  PROVE  txs[t] \in Tx
BY DEF TypeOK

LEMMA LabelsOfTx ==
  ASSUME TypeOK, NEW t \in DOMAIN txs, Rows(t) # {}
  PROVE  LabelsListed(Rows(t)) = txs[t].labels \ {0} /\ txs[t].labels \subseteq Labels
<1>0. txs[t].outs # << >>
  BY NoOutputNoRow
<1>1. txs[t].labels \subseteq Labels
  BY TxInTables DEF Tx
<1>2. \A k \in LabelsListed(Rows(t)) : k \in txs[t].labels /\ k # 0
  BY <1>0, <1>1, TxHasRows DEF LabelsListed
<1>3. ASSUME NEW k \in txs[t].labels \ {0} PROVE k \in LabelsListed(Rows(t))
  <2>1. k \in Nat /\ k > 0
    <3>1. k \in Labels /\ k # 0
      BY <1>1
    <3>2. k \in Nat
      BY <3>1
    <3>3. QED
      BY <3>1, <3>2
  <2>2. PICK r \in Rows(t) : k \in r[2]
    BY <1>0, TxHasRows
  <2>3. QED
    BY <2>1, <2>2 DEF LabelsListed
<1>4. QED
  BY <1>1, <1>2, <1>3

-----------------------------------------------------------------------------
Stages == {"none", "sent", "ok", "404", "500", "lost", "handled"}

\* The fields of the request.
Shape ==
  request = [stage |-> request.stage, listed |-> request.listed, outs |-> request.outs, total |-> request.total,
             labels |-> request.labels, known |-> request.known, alone |-> request.alone]

LEMMA NoReplyFields ==
  /\ NoReply.stage = "none" /\ NoReply.listed = << >> /\ NoReply.outs = << >> /\ NoReply.total = 0
  /\ NoReply.labels = {} /\ NoReply.known = {} /\ NoReply.alone = TRUE
BY DEF NoReply

\* What an environment's step leaves is a database.
LEMMA TablesStep ==
  ASSUME TypeOK, AddTx \/ Rollback
  PROVE  txs' \in Seq(Tx) /\ Len(txs') <= MaxTxs /\ rollbacks' \in 0..MaxRollbacks
<1>1. txs \in Seq(Tx) /\ Len(txs) \in Nat
  BY DEF TypeOK
<1>2. CASE AddTx
  <2>1. PICK outs \in Outs, ins \in SUBSET Unspent,
             labels \in SUBSET Labels, withdrawals \in SUBSET Accounts :
          txs' = Append(txs, [outs |-> outs, ins |-> ins, labels |-> labels, withdrawals |-> withdrawals])
    BY <1>2 DEF AddTx
  <2>2. [outs |-> outs, ins |-> ins, labels |-> labels, withdrawals |-> withdrawals] \in Tx
    BY DEF Tx, Unspent
  <2>3. txs' \in Seq(Tx) /\ Len(txs') = Len(txs) + 1
    BY <1>1, <2>1, <2>2
  <2>4. QED
    BY <1>1, <1>2, <2>3 DEF AddTx, TypeOK
<1>3. CASE Rollback
  <2>1. PICK n \in 0..(Len(txs) - 1) : txs' = SubSeq(txs, 1, n)
    BY <1>3 DEF Rollback
  <2>2. txs' \in Seq(Tx) /\ Len(txs') = n
    BY <1>1, <2>1
  <2>3. QED
    BY <1>1, <1>3, <2>2 DEF Rollback, TypeOK
<1>4. QED
  BY <1>2, <1>3

LEMMA TypeStep ==
  ASSUME TypeOK, Shape, [Next]_vars
  PROVE  TypeOK' /\ Shape'
<1> USE DEF TypeOK
<1>1. CASE UNCHANGED vars
  BY <1>1 DEF vars, Shape
<1>2. CASE AddTx \/ Rollback
  <2>1. UNCHANGED <<page, request>>
    BY <1>2 DEF AddTx, Rollback
  <2>2. QED
    BY <1>2, <2>1, TablesStep DEF Shape
<1>3. CASE OpenPage
  BY <1>3, NoReplyFields DEF OpenPage, NoReply, Shape
<1>4. CASE AnswerNotFound
  <2>1. KnownOf(page.tx) \subseteq Tx
    BY TxInTables DEF KnownOf
  <2>2. QED
    BY <1>4, <2>1, NoReplyFields DEF AnswerNotFound, Reply, NoReply, Shape
<1>5. CASE AnswerTransaction
  <2> DEFINE t == page.tx
             rows == Rows(t)
  <2>1. KnownOf(t) \subseteq Tx
    BY TxInTables DEF KnownOf
  <2>2. LabelsListed(rows) \subseteq Labels \ {0}
    BY <1>5, LabelsOfTx DEF AnswerTransaction
  <2> DEFINE listed == [i \in DOMAIN txs[t].outs |-> TimesListed(rows, i)]
             r == [stage |-> "ok", listed |-> listed, outs |-> txs[t].outs, total |-> OutSum(t),
                   labels |-> LabelsListed(rows), known |-> KnownOf(t), alone |-> Alone(t)]
  <2>3. request' = r /\ UNCHANGED <<txs, rollbacks, page>>
    BY <1>5 DEF AnswerTransaction, Reply
  <2>4. DOMAIN listed = DOMAIN txs[t].outs
    OBVIOUS
  <2> HIDE DEF t, rows, listed
  <2>5. QED
    BY <2>1, <2>2, <2>3, <2>4 DEF Shape
<1>6. CASE AnswerFails
  BY <1>6, NoReplyFields DEF AnswerFails, Reply, NoReply, Shape
<1>7. CASE LoseFetch
  BY <1>7, NoReplyFields DEF LoseFetch, NoReply, Shape
<1>8. CASE HandleOk \/ HandleNotOk
  <2>1. request' = [request EXCEPT !.stage = "handled"] /\ UNCHANGED <<txs, rollbacks>>
    BY <1>8 DEF HandleOk, HandleNotOk
  <2>2. Shape' /\ request'.stage = "handled" /\ UNCHANGED <<request.listed, request.outs, request.labels, request.known>>
    BY <2>1 DEF Shape
  <2>3. page' \in [tx : TxIds \cup {0}, loading : BOOLEAN, initialized : BOOLEAN, error : BOOLEAN, found : BOOLEAN]
    BY <1>8 DEF HandleOk, HandleNotOk
  <2>4. QED
    BY <2>1, <2>2, <2>3
<1>9. QED
  BY <1>1, <1>2, <1>3, <1>4, <1>5, <1>6, <1>7, <1>8 DEF Next, Answer, Handle

LEMMA TypeInit == Init => TypeOK /\ Shape
BY NoReplyFields DEF Init, TypeOK, Shape, NoReply

LEMMA TypeAndShape == Spec => [](TypeOK /\ Shape)
BY TypeInit, TypeStep, PTL DEF Spec

\* The tables, the page and its request keep to their types, and the labels of a
\* reply to those there are.
THEOREM TypeCorrect == Spec => []TypeOK
BY TypeAndShape, PTL

-----------------------------------------------------------------------------
(***************************************************************************)
(* How often an output is listed.                                          *)
(***************************************************************************)
LEMMA AtMostOne ==
  ASSUME NEW S, IsFiniteSet(S), Cardinality(S) <= 1
  PROVE  \A x, y \in S : x = y
<1>1. SUFFICES ASSUME NEW x \in S, NEW y \in S, x # y PROVE FALSE
  OBVIOUS
<1>2. S # {} /\ Cardinality(S) \in Nat
  BY FS_CardinalityType
<1>3. Cardinality(S) # 0
  BY <1>2, FS_EmptySet
<1>4. Cardinality(S) = 1
  BY <1>2, <1>3
<1>5. \E z : S = {z}
  BY <1>4, FS_Singleton
<1>6. QED
  BY <1>1, <1>5

LEMMA OrNullFinite ==
  ASSUME NEW S, IsFiniteSet(S)
  PROVE  /\ IsFiniteSet(OrNull(S)) /\ Cardinality(OrNull(S)) = LeftJoined(S)
         /\ LeftJoined(S) \in Nat \ {0}
         /\ (\A x, y \in S : x = y) => LeftJoined(S) = 1
<1>1. Cardinality(S) \in Nat
  BY FS_CardinalityType
<1>2. CASE S = {}
  <2>1. OrNull(S) = {{}} /\ LeftJoined(S) = 1
    BY <1>2 DEF OrNull, LeftJoined
  <2>2. IsFiniteSet({{}}) /\ Cardinality({{}}) = 1
    BY FS_Singleton
  <2>3. QED
    BY <2>1, <2>2
<1>3. CASE S # {}
  <2> DEFINE f == [x \in S |-> {x}]
             T == {{x} : x \in S}
  <2>1. OrNull(S) = T /\ LeftJoined(S) = Cardinality(S)
    BY <1>3 DEF OrNull, LeftJoined
  <2>2. f \in Injection(S, T) /\ f \in Surjection(S, T)
    BY DEF Injection, IsInjective, Surjection
  <2> HIDE DEF f, T
  <2>3. IsFiniteSet(T) /\ Cardinality(T) = Cardinality(S)
    BY <2>2, FS_Surjection
  <2>4. Cardinality(S) # 0
    BY <1>3, FS_EmptySet
  <2>5. ASSUME \A x, y \in S : x = y PROVE Cardinality(S) = 1
    <3>1. PICK x \in S : S = {x}
      BY <1>3, <2>5
    <3>2. QED
      BY <3>1, FS_Singleton
  <2>6. QED
    BY <1>1, <2>1, <2>3, <2>4, <2>5
<1>4. QED
  BY <1>2, <1>3

LEMMA UpToIsFinite ==
  ASSUME NEW n \in Nat
  PROVE  IsFiniteSet(1..n)
<1>1. 1 \in Int /\ n \in Int
  OBVIOUS
<1>2. QED
  BY <1>1, FS_Interval

LEMMA OutputsAreFinite == IsFiniteSet(Output)
<1>1. IsFiniteSet(1..MaxTxs) /\ IsFiniteSet(1..MaxOuts)
  BY UpToIsFinite
<1>2. QED
  BY <1>1, FS_Product DEF Output, TxIds

\* What is joined to an output is finite.
LEMMA JoinedAreFinite ==
  ASSUME TypeOK, NEW t \in DOMAIN txs, NEW i
  PROVE  /\ IsFiniteSet(txs[t].labels) /\ IsFiniteSet(txs[t].withdrawals)
         /\ IsFiniteSet(InputsJoined(t, i))
<1>1. txs \in Seq(Tx) /\ DOMAIN txs = 1..Len(txs) /\ Len(txs) \in Nat
  BY DEF TypeOK
<1>2. \A u \in DOMAIN txs : txs[u] \in Tx
  BY <1>1
<1>3. IsFiniteSet(txs[t].labels) /\ IsFiniteSet(txs[t].withdrawals)
  BY <1>2, FS_Subset DEF Tx
<1>4. IsFiniteSet(DOMAIN txs)
  BY <1>1, UpToIsFinite
<1>5. IsFiniteSet((DOMAIN txs) \X Output)
  BY <1>4, OutputsAreFinite, FS_Product
<1>6. InputsJoined(t, i) \in SUBSET ((DOMAIN txs) \X Output)
  BY <1>2 DEF InputsJoined, Tx
<1>7. QED
  BY <1>3, <1>5, <1>6, FS_Subset

\* How often an output is listed: once for each combination of a label, an input
\* that the join by its id finds and a withdrawal, where nothing counts as one.
THEOREM ListedOncePerCombination ==
  ASSUME TypeOK, NEW t \in DOMAIN txs, NEW i \in DOMAIN txs[t].outs
  PROVE  TimesListed(Rows(t), i)
         = LeftJoined(txs[t].labels) * (LeftJoined(InputsJoined(t, i)) * LeftJoined(txs[t].withdrawals))
<1> DEFINE L == OrNull(txs[t].labels)
           I == OrNull(InputsJoined(t, i))
           W == OrNull(txs[t].withdrawals)
           R == {r \in Rows(t) : r[1] = i}
           P == L \X (I \X W)
           f == [x \in P |-> <<i, x[1], x[2][1], x[2][2]>>]
<1>1. /\ IsFiniteSet(L) /\ Cardinality(L) = LeftJoined(txs[t].labels)
      /\ IsFiniteSet(I) /\ Cardinality(I) = LeftJoined(InputsJoined(t, i))
      /\ IsFiniteSet(W) /\ Cardinality(W) = LeftJoined(txs[t].withdrawals)
  BY JoinedAreFinite, OrNullFinite
<1>2. IsFiniteSet(P) /\ Cardinality(P) = Cardinality(L) * (Cardinality(I) * Cardinality(W))
  <2> HIDE DEF L, I, W
  <2>1. IsFiniteSet(I \X W) /\ Cardinality(I \X W) = Cardinality(I) * Cardinality(W)
    BY <1>1, FS_Product
  <2> DEFINE Q == I \X W
  <2>2. IsFiniteSet(Q) /\ Cardinality(Q) = Cardinality(I) * Cardinality(W) /\ P = L \X Q
    BY <2>1
  <2> HIDE DEF P, Q
  <2>3. IsFiniteSet(L \X Q) /\ Cardinality(L \X Q) = Cardinality(L) * Cardinality(Q)
    BY <1>1, <2>2, FS_Product
  <2>4. QED
    BY <2>2, <2>3
<1>3. \A x \in P : f[x] \in R
  <2>1. ASSUME NEW x \in P PROVE f[x] \in R
    <3>1. x[1] \in L /\ x[2][1] \in I /\ x[2][2] \in W
      OBVIOUS
    <3>2. <<i, x[1], x[2][1], x[2][2]>> \in Rows(t)
      BY <3>1, RowsOfTx
    <3>3. <<i, x[1], x[2][1], x[2][2]>>[1] = i
      OBVIOUS
    <3>4. QED
      BY <3>2, <3>3
  <2>2. QED
    BY <2>1
<1>4. ASSUME NEW r \in R PROVE \E x \in P : f[x] = r
  <2>1. r[1] = i /\ r[2] \in L /\ r[3] \in I /\ r[4] \in W /\ r = <<i, r[2], r[3], r[4]>>
    BY RowsOfTx
  <2> DEFINE x == <<r[2], <<r[3], r[4]>>>>
  <2>2. x \in P
    BY <2>1
  <2>3. x[1] = r[2] /\ x[2][1] = r[3] /\ x[2][2] = r[4]
    OBVIOUS
  <2>4. f[x] = r
    BY <2>1, <2>2, <2>3
  <2>5. QED
    BY <2>2, <2>4
<1>5. \A x, y \in P : f[x] = f[y] => x = y
  <2> HIDE DEF L, I, W
  <2>1. SUFFICES ASSUME NEW x \in P, NEW y \in P, f[x] = f[y] PROVE x = y
    OBVIOUS
  <2>2. /\ x = <<x[1], x[2]>> /\ x[2] = <<x[2][1], x[2][2]>>
        /\ y = <<y[1], y[2]>> /\ y[2] = <<y[2][1], y[2][2]>>
    OBVIOUS
  <2>3. <<i, x[1], x[2][1], x[2][2]>> = <<i, y[1], y[2][1], y[2][2]>>
    BY <2>1
  <2>4. x[1] = y[1] /\ x[2][1] = y[2][1] /\ x[2][2] = y[2][2]
    BY <2>3
  <2>5. x[2] = y[2]
    <3>1. <<x[2][1], x[2][2]>> = <<y[2][1], y[2][2]>>
      BY <2>4
    <3>2. QED
      BY <2>2, <3>1
  <2>6. <<x[1], x[2]>> = <<y[1], y[2]>>
    BY <2>4, <2>5
  <2>7. QED
    BY <2>2, <2>6
<1>6. f \in Surjection(P, R) /\ f \in Injection(P, R)
  <2> HIDE DEF P, R
  <2>1. f \in [P -> R]
    BY <1>3
  <2> HIDE DEF f
  <2>2. QED
    BY <2>1, <1>4, <1>5 DEF Surjection, Injection, IsInjective
<1>7. Cardinality(R) = Cardinality(P)
  <2> HIDE DEF P, R, f
  <2>1. QED
    BY <1>2, <1>6, FS_Surjection
<1>8. QED
  BY <1>1, <1>2, <1>7 DEF TimesListed

\* So for each pair of a label and a withdrawal at least once; and no more often,
\* where nothing is joined to it by its id more than once.
LEMMA ListedPerPair ==
  ASSUME TypeOK, NEW t \in DOMAIN txs, NEW i \in DOMAIN txs[t].outs,
         NEW pairs, pairs = LeftJoined(txs[t].labels) * LeftJoined(txs[t].withdrawals)
  PROVE  /\ TimesListed(Rows(t), i) >= pairs
         /\ (\A x, y \in InputsJoined(t, i) : x = y) => TimesListed(Rows(t), i) = pairs
<1> DEFINE l == LeftJoined(txs[t].labels)
           w == LeftJoined(txs[t].withdrawals)
           n == LeftJoined(InputsJoined(t, i))
<1>1. l \in Nat /\ w \in Nat /\ n \in Nat /\ n >= 1
  <2>1. l \in Nat \ {0} /\ w \in Nat \ {0} /\ n \in Nat \ {0}
    BY JoinedAreFinite, OrNullFinite
  <2> HIDE DEF l, w, n
  <2>2. QED
    BY <2>1
<1>2. TimesListed(Rows(t), i) = l * (n * w)
  BY ListedOncePerCombination
<1>3. (\A x, y \in InputsJoined(t, i) : x = y) => n = 1
  BY JoinedAreFinite, OrNullFinite
<1> HIDE DEF l, w, n
<1>4. l * (n * w) >= l * w /\ (n = 1 => l * (n * w) = l * w)
  <2>1. PICK m \in Nat : n = m + 1
    <3>1. n - 1 \in Nat /\ n = (n - 1) + 1
      BY <1>1
    <3>2. QED
      BY <3>1
  <2>2. n * w = m * w + w /\ m * w \in Nat
    BY <1>1, <2>1
  <2>3. l * (m * w + w) = l * (m * w) + l * w /\ l * (m * w) \in Nat /\ l * w \in Nat
    BY <1>1, <2>2
  <2>4. QED
    BY <1>1, <2>2, <2>3
<1>5. pairs = l * w
  BY DEF l, w
<1>6. QED
  BY <1>2, <1>3, <1>4, <1>5

-----------------------------------------------------------------------------
(***************************************************************************)
(* The inductive invariant: no output is spent twice; what the reply says  *)
(* is true of the transaction that was read for it; the page has found the *)
(* transaction if it has been given one, and has nothing more to expect    *)
(* once it is initialized.                                                 *)
(***************************************************************************)
SpentOnce == \A u, v \in DOMAIN txs : txs[u].ins \cap txs[v].ins # {} => u = v

Truthful ==
  \A t \in request.known :
    /\ request.outs = t.outs /\ request.labels = t.labels \ {0}
    /\ LET pairs == LeftJoined(t.labels) * LeftJoined(t.withdrawals) IN
         \A i \in DOMAIN t.outs :
           /\ request.listed[i] >= pairs
           /\ request.alone => request.listed[i] = pairs

PageInv ==
  /\ request.stage = "404" => \A t \in request.known : t.outs = << >>
  /\ request.stage = "ok" => Truthful
  /\ request.stage # "none" => page.tx # 0
  /\ page.initialized => request.stage = "handled"
  /\ page.found => page.initialized /\ Truthful
  /\ NotFoundIsOfNoOutput

\* An input that joins an output is one of those that Alone counts, and it is in
\* one transaction only.
LEMMA AloneJoinsOne ==
  ASSUME TypeOK, SpentOnce, NEW t \in DOMAIN txs, Alone(t), NEW i \in DOMAIN txs[t].outs
  PROVE  \A x, y \in InputsJoined(t, i) : x = y
<1> DEFINE S == {o \in Output : o[1] = OutId(t, i) /\ \E u \in DOMAIN txs : o \in txs[u].ins}
<1>1. IsFiniteSet(Output)
  BY OutputsAreFinite
<1>2. IsFiniteSet(S)
  BY <1>1, FS_Subset
<1>3. Cardinality(S) <= 1
  BY DEF Alone
<1>4. \A o, p \in S : o = p
  <2> HIDE DEF S
  <2>1. QED
    BY <1>2, <1>3, AtMostOne
<1>5. ASSUME NEW x \in InputsJoined(t, i)
      PROVE  x = <<x[1], x[2]>> /\ x[1] \in DOMAIN txs /\ x[2] \in txs[x[1]].ins /\ x[2] \in S
  <2>1. PICK u \in DOMAIN txs : x \in {u} \X {o \in txs[u].ins : o[1] = OutId(t, i)}
    BY DEF InputsJoined
  <2>2. txs[u].ins \subseteq Output
    BY <2>1, TxInTables DEF Tx
  <2>3. QED
    BY <2>1, <2>2
<1>6. SUFFICES ASSUME NEW x \in InputsJoined(t, i), NEW y \in InputsJoined(t, i) PROVE x = y
  OBVIOUS
<1>7. x[2] = y[2]
  BY <1>4, <1>5
<1>8. x[1] = y[1]
  BY <1>5, <1>7 DEF SpentOnce
<1>9. QED
  BY <1>5, <1>7, <1>8

LEMMA SpentOnceStep ==
  ASSUME TypeOK, SpentOnce, [Next]_vars
  PROVE  SpentOnce'
<1>1. txs \in Seq(Tx) /\ Len(txs) \in Nat /\ DOMAIN txs = 1..Len(txs)
  BY DEF TypeOK
<1>2. CASE UNCHANGED txs
  BY <1>2 DEF SpentOnce
<1>3. CASE AddTx
  <2>1. PICK r : txs' = Append(txs, r) /\ r \in Tx /\ r.ins \subseteq Unspent
    <3>1. PICK outs \in Outs, ins \in SUBSET Unspent,
               labels \in SUBSET Labels, withdrawals \in SUBSET Accounts :
            txs' = Append(txs, [outs |-> outs, ins |-> ins, labels |-> labels, withdrawals |-> withdrawals])
      BY <1>3 DEF AddTx
    <3> DEFINE r == [outs |-> outs, ins |-> ins, labels |-> labels, withdrawals |-> withdrawals]
    <3>2. r \in Tx /\ r.ins \subseteq Unspent
      BY DEF Tx, Unspent
    <3> HIDE DEF r
    <3>3. QED
      BY <3>1, <3>2 DEF r
  <2>2. \A u \in DOMAIN txs : r.ins \cap txs[u].ins = {}
    BY <2>1 DEF Unspent
  <2>3. DOMAIN txs' = 1..(Len(txs) + 1) /\ txs'[Len(txs) + 1] = r /\ \A u \in DOMAIN txs : txs'[u] = txs[u]
    BY <1>1, <2>1
  <2>4. SUFFICES ASSUME NEW u \in DOMAIN txs', NEW v \in DOMAIN txs', txs'[u].ins \cap txs'[v].ins # {}
                 PROVE  u = v
    BY DEF SpentOnce
  <2>5. CASE u \in DOMAIN txs /\ v \in DOMAIN txs
    BY <2>3, <2>4, <2>5 DEF SpentOnce
  <2>6. CASE u \notin DOMAIN txs /\ v \in DOMAIN txs
    <3>1. u = Len(txs) + 1
      BY <1>1, <2>3, <2>6
    <3>2. QED
      BY <2>2, <2>3, <2>4, <2>6, <3>1
  <2>7. CASE u \in DOMAIN txs /\ v \notin DOMAIN txs
    <3>1. v = Len(txs) + 1
      BY <1>1, <2>3, <2>7
    <3>2. QED
      BY <2>2, <2>3, <2>4, <2>7, <3>1
  <2>8. CASE u \notin DOMAIN txs /\ v \notin DOMAIN txs
    BY <1>1, <2>3, <2>8
  <2>9. QED
    BY <2>5, <2>6, <2>7, <2>8
<1>4. CASE Rollback
  <2>1. PICK n \in 0..(Len(txs) - 1) : txs' = SubSeq(txs, 1, n)
    BY <1>4 DEF Rollback
  <2>2. DOMAIN txs' = 1..n /\ \A u \in 1..n : txs'[u] = txs[u] /\ u \in DOMAIN txs
    BY <1>1, <2>1
  <2>3. QED
    BY <2>2 DEF SpentOnce
<1>5. QED
  BY <1>2, <1>3, <1>4 DEF Next, vars, Answer, AnswerNotFound, AnswerTransaction, AnswerFails, Reply,
     Handle, HandleOk, HandleNotOk, LoseFetch, OpenPage

LEMMA PageStep ==
  ASSUME TypeOK, Shape, SpentOnce, PageInv, [Next]_vars
  PROVE  PageInv'
<1> USE DEF PageInv, NotFoundIsOfNoOutput, SaysNotFound
<1>1. page \in [tx : TxIds \cup {0}, loading : BOOLEAN, initialized : BOOLEAN, error : BOOLEAN, found : BOOLEAN]
  BY DEF TypeOK
<1>2. CASE UNCHANGED <<page, request>>
  BY <1>2 DEF Truthful
<1>3. CASE OpenPage
  <2>1. PICK t \in TxIds : page' = [page EXCEPT !.tx = t, !.loading = TRUE]
    BY <1>3 DEF OpenPage
  <2>2. page'.tx # 0 /\ page'.initialized = page.initialized /\ page'.found = page.found
        /\ page'.error = page.error
    BY <1>1, <2>1 DEF TxIds
  <2>3. ~page.initialized
    BY <1>3 DEF OpenPage
  <2>4. request'.stage = "sent"
    BY <1>3, NoReplyFields DEF OpenPage, NoReply
  <2>5. QED
    BY <2>2, <2>3, <2>4
<1>4. CASE AnswerNotFound
  <2>1. \A t \in KnownOf(page.tx) : t.outs = << >>
    BY <1>4, TxHasRows DEF AnswerNotFound, KnownOf
  <2>2. /\ request'.stage = "404" /\ request'.known = KnownOf(page.tx)
        /\ UNCHANGED page /\ request.stage = "sent"
    BY <1>4, NoReplyFields DEF AnswerNotFound, Reply, NoReply
  <2>3. QED
    BY <2>1, <2>2
<1>5. CASE AnswerTransaction
  <2> DEFINE t == page.tx
             listed == [i \in DOMAIN txs[t].outs |-> TimesListed(Rows(t), i)]
  <2>1. t \in DOMAIN txs /\ Rows(t) # {} /\ UNCHANGED page /\ request.stage = "sent"
    BY <1>5 DEF AnswerTransaction, Reply
  <2>2. /\ request'.stage = "ok" /\ request'.listed = listed /\ request'.outs = txs[t].outs
        /\ request'.labels = LabelsListed(Rows(t)) /\ request'.known = KnownOf(t) /\ request'.alone = Alone(t)
    BY <1>5 DEF AnswerTransaction, Reply
  <2> HIDE DEF t
  <2>3. request'.known = {txs[t]}
    BY <2>1, <2>2 DEF KnownOf
  <2>4. request'.labels = txs[t].labels \ {0}
    BY <2>1, <2>2, LabelsOfTx
  <2>5. \A i \in DOMAIN txs[t].outs : request'.listed[i] = TimesListed(Rows(t), i)
    BY <2>2
  <2> DEFINE pairs == LeftJoined(txs[t].labels) * LeftJoined(txs[t].withdrawals)
  <2>6. ASSUME NEW i \in DOMAIN txs[t].outs
        PROVE  TimesListed(Rows(t), i) >= pairs /\ (request'.alone => TimesListed(Rows(t), i) = pairs)
    <3>1. Alone(t) => \A x, y \in InputsJoined(t, i) : x = y
      BY <2>1, AloneJoinsOne
    <3>2. QED
      BY <2>1, <2>2, <3>1, ListedPerPair
  <2>8. Truthful'
    BY <2>2, <2>3, <2>4, <2>5, <2>6 DEF Truthful
  <2>9. QED
    BY <2>1, <2>2, <2>8
<1>6. CASE AnswerFails \/ LoseFetch
  <2>1. request'.stage \in {"500", "lost"} /\ UNCHANGED page /\ request.stage \notin {"none", "handled"}
    BY <1>6, NoReplyFields DEF AnswerFails, LoseFetch, Reply, NoReply
  <2>2. QED
    BY <2>1
<1>7. CASE HandleOk \/ HandleNotOk
  <2>1. request' = [request EXCEPT !.stage = "handled"]
    BY <1>7 DEF HandleOk, HandleNotOk
  <2>2. /\ request'.stage = "handled" /\ request'.listed = request.listed /\ request'.outs = request.outs
        /\ request'.labels = request.labels /\ request'.known = request.known /\ request'.alone = request.alone
    BY <2>1 DEF Shape
  <2>3. Truthful => Truthful'
    BY <2>2 DEF Truthful
  <2>4. CASE HandleOk
    <3>1. page'.found /\ page'.initialized /\ page'.tx = page.tx /\ request.stage = "ok"
      BY <2>4, <1>1 DEF HandleOk
    <3>2. QED
      BY <2>2, <2>3, <3>1
  <2>5. CASE HandleNotOk
    <3>1. page'.found = page.found /\ page'.initialized /\ page'.tx = page.tx
          /\ page'.error = (request.stage # "404") /\ request.stage \in {"404", "500"}
      BY <2>5, <1>1 DEF HandleNotOk
    <3>2. QED
      BY <2>2, <2>3, <3>1
  <2>6. QED
    BY <1>7, <2>4, <2>5
<1>8. QED
  BY <1>2, <1>3, <1>4, <1>5, <1>6, <1>7 DEF Next, vars, Answer, Handle, AddTx, Rollback

\* The page says that it found no transaction only of one that was not in the
\* database when it was asked for, or was there without outputs.
THEOREM NotFoundIsAlwaysOfNoOutput == Spec => []NotFoundIsOfNoOutput
<1>1. Init => SpentOnce /\ PageInv
  BY NoReplyFields DEF Init, SpentOnce, PageInv, NotFoundIsOfNoOutput, SaysNotFound
<1>2. PageInv => NotFoundIsOfNoOutput
  BY DEF PageInv
<1>3. QED
  BY <1>1, <1>2, TypeAndShape, SpentOnceStep, PageStep, PTL DEF Spec

\* The page lists every label, and every output once for each pair of a label and
\* a withdrawal where the join by its id matches once at most, and at least so
\* often otherwise, for any chain in which no output is spent twice.
THEOREM AlwaysListsEveryOutput == Spec => []ListsEveryOutput
<1>1. Init => SpentOnce /\ PageInv
  BY NoReplyFields DEF Init, SpentOnce, PageInv, NotFoundIsOfNoOutput, SaysNotFound
<1>2. PageInv => ListsEveryOutput
  BY DEF PageInv, ListsEveryOutput, ShowsTransaction, Truthful
<1>3. QED
  BY <1>1, <1>2, TypeAndShape, SpentOnceStep, PageStep, PTL DEF Spec
=============================================================================
