------------------------- MODULE EpochViewer_proofs -------------------------
(***************************************************************************)
(* Theorems about EpochViewer, for any bounds of the database and any      *)
(* division of an epoch into slots, half hours and days.                   *)
(***************************************************************************)
EXTENDS EpochViewer, ChainDb_proofs

USE ChainAssumption, ViewerAssumption

-----------------------------------------------------------------------------
(***************************************************************************)
(* The type of one part of the page and of its fetch.                      *)
(***************************************************************************)
PanelOK(k, p)   == /\ p \in [loading : BOOLEAN, error : BOOLEAN, data : SUBSET Data[k]]
                   /\ IsOption(p.data, Data[k])
RequestOK(k, r) == /\ r \in [stage : Stage, data : SUBSET Data[k]]
                   /\ IsOption(r.data, Data[k])

PageTypeOK ==
  /\ panel = [k \in Parts |-> panel[k]]
  /\ request = [k \in Parts |-> request[k]]
  /\ \A k \in Parts : PanelOK(k, panel[k]) /\ RequestOK(k, request[k])

LEMMA TypeByPart ==
  TypeOK <=> /\ ChainTypeOK
             /\ rewarded \subseteq EpochNo
             /\ IsOption(opened, EpochNo)
             /\ IsOption(current, EpochNo)
             /\ initialized \in BOOLEAN
             /\ notFound \in BOOLEAN
             /\ PageTypeOK
BY DEF TypeOK, PageTypeOK, PanelOK, RequestOK

LEMMA TypeByPartNext ==
  /\ ChainTypeOK' /\ PageTypeOK'
  /\ rewarded' \subseteq EpochNo /\ IsOption(opened', EpochNo) /\ IsOption(current', EpochNo)
  /\ initialized' \in BOOLEAN /\ notFound' \in BOOLEAN
  => TypeOK'
BY DEF TypeOK, PageTypeOK, PanelOK, RequestOK

LEMMA FreshParts ==
  ASSUME NEW k
  PROVE  PanelOK(k, Blank) /\ PanelOK(k, Loading) /\ RequestOK(k, Unsent) /\ RequestOK(k, Sent)
BY DEF PanelOK, RequestOK, Blank, Loading, Unsent, Sent, Stage, Undefined, IsOption

LEMMA ChangedParts ==
  ASSUME NEW k, NEW p, NEW r, PanelOK(k, p), RequestOK(k, r)
  PROVE  /\ \A b \in BOOLEAN : PanelOK(k, [p EXCEPT !.loading = b])
         /\ \A b \in BOOLEAN : PanelOK(k, [p EXCEPT !.error = b])
         /\ \A b, c \in BOOLEAN : PanelOK(k, [p EXCEPT !.loading = b, !.error = c])
         /\ PanelOK(k, [loading |-> FALSE, error |-> FALSE, data |-> r.data])
         /\ \A s \in Stage : RequestOK(k, [r EXCEPT !.stage = s])
BY DEF PanelOK, RequestOK

LEMMA AnswerTypes ==
  /\ \A k : \A d \in Data[k] : RequestOK(k, Ok(d))
  /\ \A k : \A s \in Stage : RequestOK(k, [stage |-> s, data |-> Undefined])
<1>1. ASSUME NEW k, NEW d \in Data[k] PROVE RequestOK(k, Ok(d))
  BY DEF RequestOK, Ok, Stage, IsOption
<1>2. ASSUME NEW k, NEW s \in Stage PROVE RequestOK(k, [stage |-> s, data |-> Undefined])
  BY DEF RequestOK, Undefined, IsOption
<1>3. QED
  BY <1>1, <1>2

LEMMA DataTypes ==
  /\ Data["epoch"] = EpochNo /\ Data["delegation"] = BOOLEAN
  /\ Data["supply"] = {TRUE} /\ Data["blocks"] = SUBSET Block
BY DEF Data

-----------------------------------------------------------------------------
(***************************************************************************)
(* Types.                                                                  *)
(***************************************************************************)
LEMMA TypeInit == Init => TypeOK
<1> SUFFICES ASSUME Init PROVE TypeOK
  OBVIOUS
<1>1. ChainTypeOK
  BY ChainTypeInit DEF Init
<1>2. PageTypeOK
  BY FreshParts DEF Init, PageTypeOK
<1>3. QED
  BY <1>1, <1>2, TypeByPart DEF Init, Undefined, IsOption

\* A fetch changes one request, a callback also one panel.
LEMMA OneRequest ==
  ASSUME PageTypeOK, NEW k \in Parts, NEW r, RequestOK(k, r),
         request' = [request EXCEPT ![k] = r], UNCHANGED panel
  PROVE  PageTypeOK'
BY DEF PageTypeOK

LEMMA OnePart ==
  ASSUME PageTypeOK, NEW k \in Parts, NEW p, NEW r, PanelOK(k, p), RequestOK(k, r),
         panel' = [panel EXCEPT ![k] = p], request' = [request EXCEPT ![k] = r]
  PROVE  PageTypeOK'
BY DEF PageTypeOK

LEMMA EndedType ==
  ASSUME PageTypeOK, NEW k \in Parts
  PROVE  RequestOK(k, Ended(k)) /\ PanelOK(k, Loaded(k)) /\ PanelOK(k, Failed(k))
BY ChangedParts DEF PageTypeOK, Ended, Loaded, Failed, Stage

LEMMA ServerType ==
  ASSUME TypeOK, NEW k \in Parts, ServerStep(k)
  PROVE  /\ PageTypeOK'
         /\ UNCHANGED <<chainVars, rewarded, opened, current, initialized, notFound, panel>>
<1> DEFINE Same == UNCHANGED <<chainVars, rewarded, opened, current, initialized, notFound, panel>>
<1>1. ASSUME NEW r, RequestOK(k, r), Reply(k, r) PROVE PageTypeOK' /\ Same
  BY <1>1, OneRequest, TypeByPart DEF Reply
<1>2. CASE k = "epoch" /\ AnswerEpoch
  <2>1. PICK e \in opened :
          \/ Reply("epoch", Ok(e))
          \/ Reply("epoch", [stage |-> "404", data |-> Undefined])
    BY <1>2 DEF AnswerEpoch
  <2>2. e \in Data["epoch"] /\ "404" \in Stage
    BY DataTypes DEF TypeOK, IsOption, Stage
  <2>3. QED
    BY <1>1, <1>2, <2>1, <2>2, AnswerTypes
<1>3. CASE k = "delegation" /\ AnswerDelegation
  <2>1. PICK e \in opened : Reply("delegation", Ok(e \in rewarded))
    BY <1>3 DEF AnswerDelegation
  <2>2. (e \in rewarded) \in Data["delegation"]
    BY DataTypes
  <2>3. QED
    BY <1>1, <1>3, <2>1, <2>2, AnswerTypes
<1>4. CASE k = "supply" /\ AnswerSupply
  BY <1>1, <1>4, AnswerTypes, DataTypes DEF AnswerSupply
<1>5. CASE k = "blocks" /\ AnswerBlocks
  <2> DEFINE S == {j \in DOMAIN chain : chain[j].epoch \in opened}
             B == {chain[i] : i \in S}
  <2>1. B \subseteq Block
    BY DEF TypeOK, ChainTypeOK
  <2>2. B \in Data["blocks"]
    BY <2>1, DataTypes
  <2>3. Reply("blocks", Ok(B))
    BY <1>5 DEF AnswerBlocks
  <2> HIDE DEF B
  <2>4. QED
    BY <1>1, <1>5, <2>2, <2>3, AnswerTypes
<1>6. CASE AnswerFails(k)
  BY <1>1, <1>6, AnswerTypes DEF AnswerFails, Stage
<1>7. QED
  BY <1>2, <1>3, <1>4, <1>5, <1>6 DEF ServerStep

LEMMA PageType ==
  ASSUME TypeOK, NEW k \in Parts, PageStep(k)
  PROVE  /\ PageTypeOK' /\ UNCHANGED <<chainVars, rewarded, opened, current>>
         /\ initialized' \in BOOLEAN /\ notFound' \in BOOLEAN
<1> DEFINE Others == /\ UNCHANGED <<chainVars, rewarded, opened, current>>
                     /\ initialized' \in BOOLEAN /\ notFound' \in BOOLEAN
<1>1. PageTypeOK
  BY TypeByPart
<1>2. ASSUME NEW p, PanelOK(k, p), Settle(k, p) PROVE PageTypeOK' /\ Others
  BY <1>1, <1>2, OnePart, EndedType DEF Settle, TypeOK
<1>3. CASE k = "epoch" /\ EpochArrives
  <2>1. ASSUME NEW j \in Parts PROVE PanelOK(j, panel'[j]) /\ RequestOK(j, request'[j])
    BY <1>1, <1>3, EndedType, FreshParts
       DEF EpochArrives, StartsBlocks, StartsLoading, PageTypeOK
  <2>2. panel' = [j \in Parts |-> panel'[j]] /\ request' = [j \in Parts |-> request'[j]]
    <3> DEFINE q == StartsLoading([panel EXCEPT !["epoch"] = Loaded("epoch")])
    <3>1. q = [j \in Parts |-> q[j]]
      BY DEF StartsLoading
    <3> HIDE DEF q
    <3>2. panel' = [j \in Parts |-> panel'[j]]
      <4>1. panel' = [q EXCEPT !["blocks"] = Loading]
        BY <1>3 DEF EpochArrives, StartsBlocks, q
      <4>2. QED
        BY <3>1, <4>1
    <3>3. request' = [j \in Parts |-> request'[j]]
      BY <1>3 DEF EpochArrives
    <3>4. QED
      BY <3>2, <3>3
  <2>3. QED
    BY <1>3, <2>1, <2>2 DEF EpochArrives, PageTypeOK, TypeOK
<1>4. CASE k = "epoch" /\ EpochNotFound
  <2>1. PanelOK("epoch", [panel["epoch"] EXCEPT !.loading = FALSE])
    BY <1>1, <1>4, ChangedParts DEF PageTypeOK
  <2>2. PageTypeOK'
    BY <1>1, <1>4, <2>1, OnePart, EndedType DEF EpochNotFound
  <2>3. QED
    BY <1>4, <2>2 DEF EpochNotFound, TypeOK
<1>5. CASE k = "epoch" /\ EpochFails
  <2>1. ASSUME NEW j \in Parts PROVE PanelOK(j, panel'[j]) /\ RequestOK(j, request'[j])
    BY <1>1, <1>5, EndedType, FreshParts DEF EpochFails, StartsLoading, PageTypeOK
  <2>2. panel' = [j \in Parts |-> panel'[j]] /\ request' = [j \in Parts |-> request'[j]]
    BY <1>5 DEF EpochFails, StartsLoading
  <2>3. QED
    BY <1>5, <2>1, <2>2 DEF EpochFails, PageTypeOK, TypeOK
<1>6. CASE StatisticsArrive(k) \/ StatisticsFail(k)
  BY <1>1, <1>2, <1>6, EndedType DEF StatisticsArrive, StatisticsFail
<1>7. CASE k = "blocks" /\ (BlocksArrive \/ BlocksFail)
  BY <1>1, <1>2, <1>7, EndedType, ChangedParts DEF BlocksArrive, BlocksFail, PageTypeOK
<1>8. QED
  BY <1>3, <1>4, <1>5, <1>6, <1>7 DEF PageStep

LEMMA LoseType ==
  ASSUME TypeOK, NEW k \in Parts, LoseFetch(k)
  PROVE  /\ PageTypeOK'
         /\ UNCHANGED <<chainVars, rewarded, opened, current, initialized, notFound, panel>>
<1>1. RequestOK(k, [request[k] EXCEPT !.stage = "lost"])
  BY TypeByPart, ChangedParts DEF PageTypeOK, Stage
<1>2. request' = [request EXCEPT ![k] = [request[k] EXCEPT !.stage = "lost"]]
  BY DEF LoseFetch
<1>3. QED
  BY <1>1, <1>2, OneRequest, TypeByPart DEF LoseFetch

LEMMA TypeNext == TypeOK /\ [Next]_vars => TypeOK'
<1> SUFFICES ASSUME TypeOK, [Next]_vars PROVE TypeOK'
  OBVIOUS
<1>1. ASSUME UNCHANGED chainVars PROVE ChainTypeOK'
  BY <1>1 DEF TypeOK, ChainTypeOK, chainVars
<1>2. ASSUME UNCHANGED <<panel, request>> PROVE PageTypeOK'
  BY <1>2, TypeByPart DEF PageTypeOK
<1>3. CASE ChainNext /\ UNCHANGED <<rewarded, pageVars>>
  <2>1. ChainTypeOK'
    BY <1>3, ChainTypeNext DEF TypeOK
  <2>2. QED
    BY <1>2, <1>3, <2>1, TypeByPartNext DEF TypeOK, pageVars
<1>4. CASE CalculateRewards
  BY <1>1, <1>2, <1>4, TypeByPartNext DEF CalculateRewards, TypeOK, pageVars
<1>5. CASE PreviewStores
  <2>1. IsOption(current', EpochNo)
    BY <1>5 DEF PreviewStores, TypeOK, ChainTypeOK, IsOption
  <2>2. QED
    BY <1>1, <1>2, <1>5, <2>1, TypeByPartNext DEF PreviewStores, TypeOK
<1>6. CASE OpenPage
  <2>1. PageTypeOK'
    BY <1>6, FreshParts DEF OpenPage, PageTypeOK
  <2>2. IsOption(opened', EpochNo) /\ IsOption(current', EpochNo)
    BY <1>6 DEF OpenPage, IsOption, Undefined
  <2>3. QED
    BY <1>1, <1>6, <2>1, <2>2, TypeByPartNext DEF OpenPage, TypeOK
<1>7. ASSUME NEW k \in Parts, ServerStep(k) \/ PageStep(k) \/ LoseFetch(k) PROVE TypeOK'
  BY <1>1, <1>7, ServerType, PageType, LoseType, TypeByPartNext DEF TypeOK
<1>8. CASE UNCHANGED vars
  BY <1>1, <1>2, <1>8, TypeByPartNext DEF TypeOK, vars, pageVars
<1>9. QED
  BY <1>3, <1>4, <1>5, <1>6, <1>7, <1>8 DEF Next

\* Every variable of the page of an epoch keeps to its type.
THEOREM TypeCorrect == Spec => []TypeOK
BY TypeInit, TypeNext, PTL DEF Spec

-----------------------------------------------------------------------------
(***************************************************************************)
(* What has been asked for, what has come in, and what the page says.      *)
(***************************************************************************)
LEMMA OpenedOption ==
  ASSUME TypeOK, NEW e \in opened
  PROVE  opened = {e}
BY DEF TypeOK, IsOption

\* What the server replies: data come from epochs whose row is there.
LEMMA ServerReplies ==
  ASSUME TypeOK, NEW k \in Parts, ServerStep(k)
  PROVE  /\ request[k].stage = "sent"
         /\ \E r : /\ request' = [request EXCEPT ![k] = r]
                   /\ r.stage = "ok" => r.data # Undefined
                   /\ k # "blocks" /\ r.data # Undefined => opened # Undefined /\ opened \subseteq epochs
<1>1. ASSUME NEW r, Reply(k, r), r.stage = "ok" => r.data # Undefined,
             k # "blocks" /\ r.data # Undefined => opened # Undefined /\ opened \subseteq epochs
      PROVE  /\ request[k].stage = "sent"
             /\ \E s : /\ request' = [request EXCEPT ![k] = s]
                       /\ s.stage = "ok" => s.data # Undefined
                       /\ k # "blocks" /\ s.data # Undefined => opened # Undefined /\ opened \subseteq epochs
  BY <1>1 DEF Reply
<1>2. \A d : Ok(d).data = {d} /\ Ok(d).data # Undefined
  BY DEF Ok, Undefined
<1>3. \A e \in opened : e \in epochs => opened # Undefined /\ opened \subseteq epochs
  BY OpenedOption DEF Undefined
<1>4. ASSUME NEW r, Reply(k, r), r.stage # "ok", r.data = Undefined
      PROVE  /\ request[k].stage = "sent"
             /\ \E s : /\ request' = [request EXCEPT ![k] = s]
                       /\ s.stage = "ok" => s.data # Undefined
                       /\ k # "blocks" /\ s.data # Undefined => opened # Undefined /\ opened \subseteq epochs
  BY <1>1, <1>4
<1>5. CASE k = "epoch" /\ AnswerEpoch
  <2>1. PICK e \in opened :
          \/ e \in epochs /\ Reply("epoch", Ok(e))
          \/ Reply("epoch", [stage |-> "404", data |-> Undefined])
    BY <1>5 DEF AnswerEpoch
  <2>2. CASE e \in epochs /\ Reply("epoch", Ok(e))
    BY <1>1, <1>2, <1>3, <1>5, <2>2
  <2>3. CASE Reply("epoch", [stage |-> "404", data |-> Undefined])
    BY <1>4, <1>5, <2>3
  <2>4. QED
    BY <2>1, <2>2, <2>3
<1>6. CASE k = "delegation" /\ AnswerDelegation
  <2>1. PICK e \in opened \cap epochs : Reply("delegation", Ok(e \in rewarded))
    BY <1>6 DEF AnswerDelegation
  <2>2. QED
    BY <1>1, <1>2, <1>3, <1>6, <2>1
<1>7. CASE k = "supply" /\ AnswerSupply
  <2>1. opened \cap epochs # {} /\ Reply("supply", Ok(TRUE))
    BY <1>7 DEF AnswerSupply
  <2>2. QED
    BY <1>1, <1>2, <1>3, <1>7, <2>1
<1>8. CASE k = "blocks" /\ AnswerBlocks
  <2> DEFINE B == {chain[i] : i \in {j \in DOMAIN chain : chain[j].epoch \in opened}}
  <2>1. Reply("blocks", Ok(B))
    BY <1>8 DEF AnswerBlocks
  <2> HIDE DEF B
  <2>2. QED
    BY <1>1, <1>2, <1>8, <2>1
<1>9. CASE AnswerFails(k)
  <2>1. Reply(k, [stage |-> "500", data |-> Undefined])
    BY <1>9 DEF AnswerFails
  <2>2. QED
    BY <1>4, <2>1
<1>10. QED
  BY <1>5, <1>6, <1>7, <1>8, <1>9 DEF ServerStep

LEMMA ViewerInit == Init => ViewerInv
BY DEF Init, ViewerInv, Blank, Unsent, Undefined, Parts, Statistics

LEMMA ViewerServer ==
  ASSUME TypeOK, ViewerInv, NEW k \in Parts, ServerStep(k)
  PROVE  ViewerInv'
<1>1. PICK r : /\ request' = [request EXCEPT ![k] = r]
               /\ r.stage = "ok" => r.data # Undefined
               /\ k # "blocks" /\ r.data # Undefined => opened # Undefined /\ opened \subseteq epochs
  BY ServerReplies
<1>2. UNCHANGED <<chainVars, opened, initialized, notFound, panel>> /\ request[k].stage = "sent"
  BY ServerType, ServerReplies
<1>3. DOMAIN request = Parts
  BY TypeByPart DEF PageTypeOK
<1>4. k = "epoch" => ~initialized
  BY <1>2 DEF ViewerInv
<1>5. k # "epoch" => initialized /\ ~notFound
  BY <1>2 DEF ViewerInv, Unsent
<1>6. QED
  BY <1>1, <1>2, <1>3, <1>4, <1>5 DEF ViewerInv, chainVars, Statistics, Parts

LEMMA ViewerLose ==
  ASSUME TypeOK, ViewerInv, NEW k \in Parts, LoseFetch(k)
  PROVE  ViewerInv'
<1>1. /\ request[k].stage \in {"sent", "ok", "404", "500"}
      /\ request' = [request EXCEPT ![k].stage = "lost"]
      /\ UNCHANGED <<chainVars, opened, initialized, notFound, panel>>
  BY DEF LoseFetch
<1>2. DOMAIN request = Parts /\ request[k] \in [stage : Stage, data : SUBSET Data[k]]
  BY TypeByPart DEF PageTypeOK, RequestOK
<1>3. request'[k].stage = "lost" /\ request'[k].data = request[k].data
  BY <1>1, <1>2
<1>4. \A j \in Parts \ {k} : request'[j] = request[j]
  BY <1>1, <1>2
<1>5. k = "epoch" => ~initialized
  BY <1>1 DEF ViewerInv
<1>6. k # "epoch" => initialized /\ ~notFound
  BY <1>1 DEF ViewerInv, Unsent
<1>7. QED
  BY <1>1, <1>3, <1>4, <1>5, <1>6 DEF ViewerInv, chainVars, Statistics, Parts

LEMMA ViewerPage ==
  ASSUME TypeOK, ViewerInv, NEW k \in Parts, PageStep(k)
  PROVE  ViewerInv'
<1>1. PageTypeOK /\ UNCHANGED chainVars
  BY TypeByPart, PageType
<1>2. /\ DOMAIN request = Parts /\ DOMAIN panel = Parts
      /\ \A j \in Parts : /\ panel[j] \in [loading : BOOLEAN, error : BOOLEAN, data : SUBSET Data[j]]
                          /\ request[j] \in [stage : Stage, data : SUBSET Data[j]]
  BY <1>1 DEF PageTypeOK, PanelOK, RequestOK
<1>3. \A j \in Parts : Ended(j).stage = "none" /\ Ended(j).data = request[j].data
  BY <1>2 DEF Ended
<1>4. \A j \in Parts : Failed(j).error = TRUE /\ Failed(j).loading = FALSE /\ Failed(j).data = panel[j].data
  BY <1>2 DEF Failed
<1> USE DEF Statistics, Parts
<1>5. CASE k = "epoch" /\ EpochArrives
  <2>1. request["epoch"].data # Undefined /\ ~initialized /\ ~notFound
    BY <1>5 DEF EpochArrives, ViewerInv
  <2>2. /\ panel'["epoch"] = Loaded("epoch")
        /\ \A j \in Parts \ {"epoch"} : panel'[j] = Loading
    BY <1>2, <1>5 DEF EpochArrives, StartsBlocks, StartsLoading
  <2>3. /\ request'["epoch"] = Ended("epoch")
        /\ \A j \in Parts \ {"epoch"} : request'[j] = Sent
    BY <1>5 DEF EpochArrives
  <2>4. UNCHANGED <<epochs, opened, notFound>> /\ initialized'
    BY <1>1, <1>5 DEF EpochArrives, chainVars
  <2>5. QED
    BY <1>3, <2>1, <2>2, <2>3, <2>4 DEF ViewerInv, Loaded, Loading, Blank, Sent
<1>6. CASE k = "epoch" /\ EpochNotFound
  <2>1. ~initialized /\ opened' = opened /\ epochs' = epochs /\ initialized' /\ notFound'
    BY <1>1, <1>6 DEF EpochNotFound, ViewerInv, chainVars
  <2>2. /\ panel'["epoch"].loading = FALSE /\ panel'["epoch"].data = panel["epoch"].data
        /\ \A j \in Parts \ {"epoch"} : panel'[j] = panel[j]
    BY <1>2, <1>6 DEF EpochNotFound
  <2>3. /\ request'["epoch"] = Ended("epoch")
        /\ \A j \in Parts \ {"epoch"} : request'[j] = request[j]
    BY <1>2, <1>6 DEF EpochNotFound
  <2>4. opened # Undefined
    <3>1. request["epoch"].stage # "none"
      BY <1>6 DEF EpochNotFound
    <3>2. QED
      BY <3>1, <2>1 DEF ViewerInv
  <2>5. QED
    BY <1>3, <2>1, <2>2, <2>3, <2>4 DEF ViewerInv
<1>7. CASE k = "epoch" /\ EpochFails
  <2>1. ~initialized /\ opened' = opened /\ epochs' = epochs /\ initialized' /\ notFound' = notFound /\ ~notFound
        /\ opened # Undefined
    BY <1>1, <1>7 DEF EpochFails, ViewerInv, chainVars
  <2>2. /\ panel'["epoch"] = Failed("epoch")
        /\ \A j \in Statistics : panel'[j] = Loading
        /\ panel'["blocks"] = panel["blocks"]
    BY <1>2, <1>7 DEF EpochFails, StartsLoading
  <2>3. /\ request'["epoch"] = Ended("epoch")
        /\ \A j \in Statistics : request'[j] = Sent
        /\ request'["blocks"] = request["blocks"]
    BY <1>7 DEF EpochFails
  <2>4. QED
    BY <1>3, <1>4, <2>1, <2>2, <2>3 DEF ViewerInv, Loading, Blank, Sent
<1>8. ASSUME NEW p, k # "epoch", Settle(k, p), request[k].stage \in {"ok", "500"},
             p.data # Undefined => panel[k].data # Undefined \/ request[k].data # Undefined,
             k \in Statistics => p.loading \/ p.error \/ p.data # Undefined
      PROVE  ViewerInv'
  <2>1. initialized /\ ~notFound
    BY <1>8 DEF ViewerInv, Unsent
  <2>2. /\ panel'[k] = p /\ request'[k] = Ended(k)
        /\ \A j \in Parts \ {k} : panel'[j] = panel[j] /\ request'[j] = request[j]
        /\ UNCHANGED <<opened, initialized, notFound, epochs>>
    BY <1>1, <1>2, <1>8 DEF Settle, chainVars
  <2>3. QED
    BY <1>3, <1>8, <2>1, <2>2 DEF ViewerInv
<1>9. CASE k \in Statistics /\ StatisticsArrive(k)
  <2>1. Loaded(k).data = request[k].data /\ request[k].data # Undefined
    BY <1>9 DEF StatisticsArrive, Loaded, ViewerInv
  <2>2. QED
    BY <1>8, <1>9, <2>1 DEF StatisticsArrive
<1>10. CASE k \in Statistics /\ StatisticsFail(k)
  BY <1>4, <1>8, <1>10 DEF StatisticsFail
<1>11. CASE k = "blocks" /\ BlocksArrive
  BY <1>8, <1>11 DEF BlocksArrive, Loaded
<1>12. CASE k = "blocks" /\ BlocksFail
  BY <1>2, <1>8, <1>12 DEF BlocksFail
<1>13. QED
  BY <1>5, <1>6, <1>7, <1>9, <1>10, <1>11, <1>12 DEF PageStep

LEMMA ViewerNext == TypeOK /\ ViewerInv /\ [Next]_vars => ViewerInv'
<1> SUFFICES ASSUME TypeOK, ViewerInv, [Next]_vars PROVE ViewerInv'
  OBVIOUS
<1>1. ASSUME epochs \subseteq epochs', UNCHANGED <<opened, initialized, notFound, panel, request>>
      PROVE  ViewerInv'
  BY <1>1 DEF ViewerInv
<1>2. CASE ChainNext /\ UNCHANGED <<rewarded, pageVars>>
  BY <1>1, <1>2, ChainKeepsEpochRows DEF pageVars
<1>3. CASE CalculateRewards \/ PreviewStores \/ UNCHANGED vars
  BY <1>1, <1>3 DEF CalculateRewards, PreviewStores, vars, pageVars, chainVars
<1>4. CASE OpenPage
  <2>1. opened' # Undefined /\ ~initialized' /\ ~notFound'
    BY <1>4 DEF OpenPage, Undefined
  <2>2. /\ panel'["epoch"] = Loading /\ request'["epoch"] = Sent
        /\ \A k \in Parts \ {"epoch"} : panel'[k] = Blank /\ request'[k] = Unsent
    BY <1>4 DEF OpenPage, Parts
  <2>3. \A k \in Parts : panel'[k].data = Undefined /\ request'[k].data = Undefined
                         /\ request'[k].stage # "ok"
    BY <2>2 DEF Loading, Blank, Sent, Unsent
  <2>4. QED
    BY <2>1, <2>2, <2>3 DEF ViewerInv, Parts, Statistics
<1>5. ASSUME NEW k \in Parts, ServerStep(k) \/ PageStep(k) \/ LoseFetch(k) PROVE ViewerInv'
  BY <1>5, ViewerServer, ViewerPage, ViewerLose
<1>6. QED
  BY <1>2, <1>3, <1>4, <1>5 DEF Next

\* The inductive invariant holds of every page of an epoch.
THEOREM ViewerInvariant == Spec => []ViewerInv
BY TypeInit, TypeNext, ViewerInit, ViewerNext, PTL DEF Spec

\* A page that says that there is no such epoch asks for nothing more.
THEOREM NotFoundIsAlwaysFinal == Spec => []NotFoundIsFinal
<1>1. ViewerInv => NotFoundIsFinal
  <2>1. SUFFICES ASSUME ViewerInv, SaysNotFound, NEW k \in Parts
                 PROVE  /\ ~panel[k].loading /\ panel[k].data = Undefined
                        /\ request[k].stage \notin {"sent", "ok"}
    BY DEF NotFoundIsFinal
  <2>2. initialized /\ notFound
    BY <2>1 DEF SaysNotFound
  <2>3. CASE k = "epoch"
    BY <2>1, <2>2, <2>3 DEF ViewerInv
  <2>4. CASE k # "epoch"
    <3>1. panel[k] = Blank /\ request[k] = Unsent
      BY <2>1, <2>2, <2>4 DEF ViewerInv
    <3>2. QED
      BY <3>1 DEF Blank, Unsent
  <2>5. QED
    BY <2>3, <2>4
<1>2. QED
  BY <1>1, ViewerInvariant, PTL

\* What the page holds is of an epoch that exists, whatever the order of answers.
THEOREM DataAreOfExistingEpoch == Spec => []DataOfExistingEpoch
<1>1. ViewerInv => DataOfExistingEpoch
  BY DEF ViewerInv, DataOfExistingEpoch
<1>2. QED
  BY <1>1, ViewerInvariant, PTL

\* What the block of statistics reads and does not find has failed or is on its way.
THEOREM MissingStatisticIsAlwaysDue == Spec => []MissingStatisticIsDue
<1>1. ViewerInv => MissingStatisticIsDue
  <2>1. SUFFICES ASSUME ViewerInv, ShowsStatistics, NEW k \in Statistics,
                        panel[k].data = Undefined
                 PROVE  panel[k].error \/ panel[k].loading
    BY DEF MissingStatisticIsDue
  <2>2. initialized /\ panel["epoch"].data # Undefined
    BY <2>1 DEF ShowsStatistics, ShowsEpoch
  <2>3. ~notFound
    BY <2>1, <2>2 DEF ViewerInv
  <2>4. QED
    BY <2>1, <2>2, <2>3 DEF ViewerInv
<1>2. QED
  BY <1>1, ViewerInvariant, PTL

-----------------------------------------------------------------------------
(***************************************************************************)
(* The heatmap.                                                            *)
(***************************************************************************)

\* What lies below the n-th multiple lies in one of the first n parts.
LEMMA QuotientBelow ==
  ASSUME NEW m \in Nat, NEW d \in Nat \ {0}, NEW n \in Nat, m < n * d
  PROVE  m \div d \in 0..(n - 1)
<1> DEFINE q == m \div d
<1>1. q \in Nat /\ d * q <= m
  OBVIOUS
<1> HIDE DEF q
<1>2. ASSUME q >= n PROVE FALSE
  <2>1. d * (q - n) >= 0
    BY <1>1, <1>2
  <2>2. d * (q - n) = d * q - d * n /\ d * n = n * d /\ d * q \in Int /\ n * d \in Int
    BY <1>1
  <2>3. QED
    BY <1>1, <2>1, <2>2
<1>3. QED
  BY <1>1, <1>2 DEF q

\* The time of a block without a change of the clock: on one of the dates that the
\* epoch touches.
LEMMA UnchangedTime ==
  ASSUME NEW b \in Block, NEW r \in Clock
  PROVE  /\ DayTime \in Nat \ {0}
         /\ r.start + b.slot * SlotTime \in Nat
         /\ r.start + b.slot * SlotTime < (EpochDays + 1) * DayTime
<1>1. DayTime \in Nat \ {0}
  BY DEF DayTime
<1>2. b.slot \in Nat /\ b.slot + 1 <= MaxSlot + 1 /\ r.start \in Nat /\ r.start < DayTime
  BY <1>1 DEF Block, Clock
<1> DEFINE rest == MaxSlot - b.slot
<1>3. rest \in Nat /\ MaxSlot + 1 = b.slot + 1 + rest
  BY <1>2
<1> HIDE DEF rest
<1>4. b.slot * SlotTime \in Nat /\ rest * SlotTime \in Nat
  BY <1>2, <1>3
<1>5. (MaxSlot + 1) * SlotTime = b.slot * SlotTime + SlotTime + rest * SlotTime
  <2>1. \A i, j \in Nat : (i + 1 + j) * SlotTime = i * SlotTime + SlotTime + j * SlotTime
    OBVIOUS
  <2>2. (b.slot + 1 + rest) * SlotTime = b.slot * SlotTime + SlotTime + rest * SlotTime
    BY <1>2, <1>3, <2>1
  <2>3. QED
    BY <1>3, <2>2
<1>6. b.slot * SlotTime < EpochDays * DayTime
  BY <1>1, <1>4, <1>5
<1>7. (EpochDays + 1) * DayTime = EpochDays * DayTime + DayTime /\ EpochDays * DayTime \in Nat
  BY <1>1
<1>8. QED
  BY <1>1, <1>2, <1>4, <1>6, <1>7

\* A time on one of those dates has a cell.
LEMMA TimeHasCell ==
  ASSUME NEW t \in Nat, t < (EpochDays + 1) * DayTime
  PROVE  <<t \div DayTime, (t % DayTime) \div CellTime>> \in Cells
<1>1. DayTime \in Nat \ {0}
  BY DEF DayTime
<1>2. t \div DayTime \in 0..EpochDays
  BY <1>1, QuotientBelow
<1> DEFINE m == t % DayTime
<1>3. m \in Nat /\ m < DayTime
  BY <1>1
<1> HIDE DEF m
<1>4. m \div CellTime \in 0..(HalfHours - 1)
  BY <1>3, QuotientBelow DEF DayTime
<1>5. QED
  BY <1>2, <1>4 DEF Cells, Days, m

\* Whenever in the reader's day the epoch starts, every block is counted in exactly
\* one cell, but for those that a change of the clock carries past the dates.
THEOREM HeatmapAlwaysCounts == Spec => []HeatmapCountsBlocks
<1>1. TypeOK => HeatmapCountsBlocks
  <2>1. SUFFICES ASSUME TypeOK, NEW blocks \in panel["blocks"].data, NEW r \in Clock,
                        NEW b \in blocks
                 PROVE  CountedOnce(blocks, b, r) \/ CarriedOut(b, r)
    BY DEF HeatmapCountsBlocks
  <2>2. panel["blocks"].data \subseteq Data["blocks"]
    <3>1. "blocks" \in Parts
      BY DEF Parts
    <3>2. PanelOK("blocks", panel["blocks"])
      BY <2>1, <3>1, TypeByPart DEF PageTypeOK
    <3>3. QED
      BY <3>2 DEF PanelOK
  <2>3. b \in Block
    BY <2>2, DataTypes
  <2> DEFINE u == r.start + b.slot * SlotTime
             t == LocalTime(b, r)
             n == (EpochDays + 1) * DayTime
  <2>4. DayTime \in Nat \ {0} /\ u \in Nat /\ u < n
    BY <2>3, UnchangedTime
  <2>5. n \in Nat
    BY <2>4
  <2>6. t = u \/ (b.slot >= r.changes /\ t = u + r.by)
    BY <2>4 DEF LocalTime
  <2>7. r.by \in Int
    BY DEF Clock
  <2>8. CASE t \in Nat /\ t < n
    <3> DEFINE c == <<t \div DayTime, (t % DayTime) \div CellTime>>
    <3>1. c \in Cells /\ b \in Cell(blocks, r, c)
      BY <2>8, TimeHasCell DEF Cell
    <3>2. ASSUME NEW d \in Cells, b \in Cell(blocks, r, d) PROVE d = c
      BY <3>2 DEF Cell, Cells
    <3>3. QED
      BY <3>1, <3>2 DEF CountedOnce
  <2>9. CASE ~(t \in Nat /\ t < n)
    <3> HIDE DEF u, t, n
    <3>1. b.slot >= r.changes /\ t = u + r.by
      BY <2>4, <2>6, <2>9
    <3>2. t - n \in 0..(r.by - 1) \/ t \in r.by..(-1)
      BY <2>4, <2>5, <2>7, <2>9, <3>1
    <3>3. QED
      BY <3>1, <3>2 DEF CarriedOut, t, n
  <2>10. QED
    BY <2>8, <2>9
<1>2. QED
  BY <1>1, TypeCorrect, PTL

-----------------------------------------------------------------------------
(***************************************************************************)
(* The links.                                                              *)
(***************************************************************************)
EpochDataExist == panel["epoch"].data \subseteq epochs /\ request["epoch"].data \subseteq epochs

LEMMA EpochIsPart ==
  /\ "epoch" \in Parts /\ "epoch" \notin Statistics /\ "epoch" # "blocks"
  /\ \A p \in {Blank, Loading} : p.data = {}
  /\ \A r \in {Unsent, Sent} : r.data = {}
BY DEF Parts, Statistics, Blank, Loading, Unsent, Sent, Undefined

LEMMA EpochDataStep ==
  ASSUME TypeOK, EpochDataExist, [Next]_vars
  PROVE  EpochDataExist'
<1> USE EpochIsPart DEF EpochDataExist
<1>1. panel = [k \in Parts |-> panel[k]] /\ request = [k \in Parts |-> request[k]]
  BY DEF TypeOK
<1>2. /\ panel["epoch"] \in [loading : BOOLEAN, error : BOOLEAN, data : SUBSET Data["epoch"]]
      /\ request["epoch"] \in [stage : Stage, data : SUBSET Data["epoch"]]
  BY DEF TypeOK
<1>3. ASSUME epochs \subseteq epochs', UNCHANGED <<panel, request>> PROVE EpochDataExist'
  BY <1>3
<1>4. ASSUME UNCHANGED epochs, panel'["epoch"].data \subseteq panel["epoch"].data \cup request["epoch"].data,
             request'["epoch"].data \subseteq request["epoch"].data \cup epochs
      PROVE  EpochDataExist'
  BY <1>4
<1>5. CASE UNCHANGED vars
  BY <1>3, <1>5 DEF vars, chainVars, pageVars
<1>6. CASE Next
  <2>1. CASE ChainNext /\ UNCHANGED <<rewarded, pageVars>>
    BY <2>1, <1>3, ChainKeepsEpochRows DEF pageVars
  <2>2. CASE CalculateRewards \/ PreviewStores
    BY <2>2, <1>3 DEF CalculateRewards, PreviewStores, chainVars, pageVars
  <2>3. CASE OpenPage
    BY <2>3 DEF OpenPage, Loading, Sent, Undefined
  <2>4. CASE \E k \in Parts : LoseFetch(k)
    <3>1. PICK k \in Parts : LoseFetch(k)
      BY <2>4
    <3>2. request'["epoch"].data = request["epoch"].data
      BY <3>1, <1>1, <1>2 DEF LoseFetch
    <3>3. QED
      BY <3>1, <3>2, <1>4 DEF LoseFetch, chainVars
  <2>5. CASE \E k \in Parts : ServerStep(k)
    <3>1. PICK k \in Parts : ServerStep(k)
      BY <2>5
    <3>2. UNCHANGED <<epochs, panel>>
      BY <3>1 DEF ServerStep, AnswerEpoch, AnswerDelegation, AnswerSupply, AnswerBlocks, AnswerFails, Reply, chainVars
    <3>3. CASE k # "epoch"
      <4>1. PICK r : request' = [request EXCEPT ![k] = r]
        BY <3>1, <3>3 DEF ServerStep, AnswerDelegation, AnswerSupply, AnswerBlocks, AnswerFails, Reply
      <4>2. request'["epoch"] = request["epoch"]
        BY <4>1, <3>3, <1>1
      <4>3. QED
        BY <3>2, <4>2, <1>4
    <3>4. CASE k = "epoch"
      <4>1. PICK r : request' = [request EXCEPT !["epoch"] = r] /\ r.data \subseteq epochs
        BY <3>1, <3>4 DEF ServerStep, AnswerEpoch, AnswerFails, Reply, Ok, Undefined
      <4>2. request'["epoch"] = r
        BY <4>1, <1>1
      <4>3. QED
        BY <3>2, <4>1, <4>2, <1>4
    <3>5. QED
      BY <3>3, <3>4
  <2>6. CASE \E k \in Parts : PageStep(k)
    <3>1. PICK k \in Parts : PageStep(k)
      BY <2>6
    <3>2. CASE EpochArrives
      <4>1. panel'["epoch"] = Loaded("epoch") /\ request'["epoch"] = Ended("epoch")
        BY <3>2, <1>1 DEF EpochArrives, StartsBlocks, StartsLoading
      <4>2. QED
        BY <3>2, <4>1, <1>2, <1>4 DEF EpochArrives, Loaded, Ended, chainVars
    <3>3. CASE EpochNotFound
      <4>1. panel'["epoch"] = [panel["epoch"] EXCEPT !.loading = FALSE] /\ request'["epoch"] = Ended("epoch")
        BY <3>3, <1>1 DEF EpochNotFound
      <4>2. QED
        BY <3>3, <4>1, <1>2, <1>4 DEF EpochNotFound, Ended, chainVars
    <3>4. CASE EpochFails
      <4>1. panel'["epoch"] = Failed("epoch") /\ request'["epoch"] = Ended("epoch")
        BY <3>4, <1>1 DEF EpochFails, StartsLoading
      <4>2. QED
        BY <3>4, <4>1, <1>2, <1>4 DEF EpochFails, Failed, Ended, chainVars
    <3>5. CASE k # "epoch"
      <4>1. PICK p : Settle(k, p)
        BY <3>1, <3>5 DEF PageStep, StatisticsArrive, StatisticsFail, BlocksArrive, BlocksFail
      <4>2. panel'["epoch"] = panel["epoch"] /\ request'["epoch"] = request["epoch"]
        BY <4>1, <3>5, <1>1 DEF Settle
      <4>3. QED
        BY <4>1, <4>2, <1>4 DEF Settle, chainVars
    <3>6. QED
      BY <3>1, <3>2, <3>3, <3>4, <3>5 DEF PageStep
  <2>7. QED
    BY <1>6, <2>1, <2>2, <2>3, <2>4, <2>5, <2>6 DEF Next
<1>7. QED
  BY <1>5, <1>6

\* When the header knows the current epoch, the page's links lead to epochs that
\* exist, in whatever order the header and the page were answered.
THEOREM LinksAlwaysLead == Spec => []LinksLead
<1>1. Init => EpochDataExist
  BY EpochIsPart DEF Init, EpochDataExist
<1>2. TypeOK /\ EpochDataExist => LinksLead
  <2>1. SUFFICES ASSUME TypeOK, EpochDataExist, current # Undefined, current = {CurrentEpochRow},
                        epochs = 0..CurrentEpochRow, NEW e \in panel["epoch"].data
                 PROVE  /\ ShowsNext => e + 1 \in epochs
                        /\ ShowsPrevious /\ e > 0 => e - 1 \in epochs
    BY DEF LinksLead
  <2>2. e \in epochs /\ IsOption(panel["epoch"].data, Data["epoch"]) /\ ChainTypeOK
    BY <2>1, EpochIsPart DEF EpochDataExist, TypeOK
  <2>3. CurrentEpochRow \in epochs /\ epochs \subseteq Nat
    BY <2>2, CurrentEpochRowIsNewest DEF ChainTypeOK, EpochNo
  <2>4. panel["epoch"].data = {e}
    BY <2>1, <2>2 DEF IsOption
  <2>5. ShowsNext => e # CurrentEpochRow
    BY <2>1, <2>4 DEF ShowsNext
  <2>6. QED
    BY <2>1, <2>2, <2>3, <2>5
<1>3. QED
  BY <1>1, <1>2, TypeCorrect, EpochDataStep, PTL DEF Spec
=============================================================================
