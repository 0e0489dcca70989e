--------------------------- MODULE ChainDb_proofs ---------------------------
(***************************************************************************)
(* Lemmas about ChainDb for the modules that build on it: its types, its   *)
(* queries, and that rows of public.epoch stay.                            *)
(***************************************************************************)
EXTENDS ChainDb, SequenceTheorems, WellFoundedInduction, TLAPS

USE ChainAssumption

LEMMA ChainTypeInit == ChainInit => ChainTypeOK
<1> SUFFICES ASSUME ChainInit PROVE ChainTypeOK
  OBVIOUS
<1> USE DEF ChainInit, ChainTypeOK, Block, BlockNo, EpochNo
<1>1. CASE chain = << >>
  BY <1>1
<1>2. CASE chain # << >>
  <2>1. PICK b \in [no: {1} \cap BlockNo, epoch: EpochNo, slot: {0}] : chain = <<b>>
    BY <1>2
  <2>2. chain \in Seq(Block) /\ Len(chain) = 1 /\ DOMAIN chain = {1} /\ chain[1] = b
    BY <2>1
  <2>3. b.no = 1 /\ 1 <= MaxBlocks /\ b.epoch \in 0..MaxEpoch
    BY <2>1
  <2>4. epochs = UNION {0..b.epoch}
    BY <2>2
  <2>5. epochs \subseteq EpochNo
    BY <2>3, <2>4
  <2>6. QED
    BY <2>2, <2>3, <2>5
<1>3. QED
  BY <1>1, <1>2

LEMMA ChainTypeNext == ChainTypeOK /\ ChainNext => ChainTypeOK'
<1> SUFFICES ASSUME ChainTypeOK, ChainNext PROVE ChainTypeOK'
  OBVIOUS
<1> USE DEF ChainTypeOK
<1>1. CASE AddBlock
  <2>1. PICK b \in Block :
          /\ Extends(b)
          /\ chain' = Append(chain, b)
          /\ epochs' = IF EpochRowLags THEN epochs ELSE epochs \cup {b.epoch}
    BY <1>1 DEF AddBlock
  <2>2. b.epoch \in EpochNo /\ b.no \in BlockNo
    BY DEF Block
  <2>3. b.no = Len(chain) + 1
    BY <2>1 DEF Extends
  <2>4. chain' \in Seq(Block) /\ Len(chain') = Len(chain) + 1
    BY <2>1
  <2>5. QED
    BY <1>1, <2>1, <2>2, <2>3, <2>4 DEF AddBlock, BlockNo
<1>2. CASE WriteEpochRow
  <2>1. PICK i \in DOMAIN chain : epochs' = epochs \cup {chain[i].epoch}
    BY <1>2 DEF WriteEpochRow
  <2>2. chain[i] \in Block
    OBVIOUS
  <2>3. QED
    BY <1>2, <2>1, <2>2 DEF WriteEpochRow, Block
<1>3. CASE Rollback
  <2>1. PICK n \in 1..(Len(chain) - 1) : chain' = SubSeq(chain, 1, n)
    BY <1>3 DEF Rollback
  <2>2. chain' \in Seq(Block) /\ Len(chain') = n
    BY <2>1, SubSeqProperties
  <2>3. QED
    BY <1>3, <2>2 DEF Rollback
<1>4. QED
  BY <1>1, <1>2, <1>3 DEF ChainNext

LEMMA LatestBlockType == ChainTypeOK /\ chain # << >> => LatestBlock \in Block
BY DEF ChainTypeOK, LatestBlock

\* Whatever db-sync does, rollbacks included, the row of an epoch stays.
LEMMA ChainKeepsEpochRows == ChainNext => epochs \subseteq epochs'
BY DEF ChainNext, AddBlock, WriteEpochRow, Rollback

-----------------------------------------------------------------------------
\* A set of numbers with a bound has a largest element, and Max returns it.
LEMMA MaxOfBounded ==
  ASSUME NEW n \in Nat, NEW S, S \subseteq 0..n, S # {}
  PROVE  Max(S) \in S /\ \A e \in S : Max(S) >= e
<1> DEFINE Gaps == {n - e : e \in S}
           Less == {xy \in Nat \X Nat : xy[1] < xy[2]}
<1>1. Gaps \subseteq Nat
  OBVIOUS
<1>2. Gaps # {}
  <2>1. PICK e \in S : TRUE
    OBVIOUS
  <2>2. n - e \in Gaps
    BY <2>1
  <2>3. QED
    BY <2>2
<1>3. IsWellFoundedOn(Less, Nat)
  BY NatLessThanWellFounded DEF OpToRel
<1>4. PICK g \in Gaps : \A h \in Gaps : <<h, g>> \notin Less
  <2> HIDE DEF Gaps, Less
  <2>1. QED
    BY <1>1, <1>2, <1>3, WFMin
<1>5. \A h \in Gaps : ~(h < g)
  <2>1. SUFFICES ASSUME NEW h \in Gaps, h < g PROVE FALSE
    OBVIOUS
  <2>2. <<h, g>> \in Less
    BY <1>1, <2>1
  <2>3. QED
    BY <1>4, <2>2
<1>6. PICK x \in S : g = n - x
  OBVIOUS
<1>7. \A y \in S : x >= y
  <2>1. SUFFICES ASSUME NEW y \in S PROVE x >= y
    OBVIOUS
  <2>2. ~(n - y < n - x)
    BY <1>5, <1>6
  <2>3. x \in 0..n /\ y \in 0..n
    OBVIOUS
  <2>4. QED
    BY <2>2, <2>3
<1>8. QED
  BY <1>7 DEF Max

LEMMA CurrentEpochRowIsNewest ==
  ASSUME ChainTypeOK, epochs # {}
  PROVE  CurrentEpochRow \in epochs /\ \A e \in epochs : CurrentEpochRow >= e
<1>1. epochs \subseteq 0..MaxEpoch
  BY DEF ChainTypeOK, EpochNo
<1>2. QED
  BY <1>1, MaxOfBounded DEF CurrentEpochRow
=============================================================================
