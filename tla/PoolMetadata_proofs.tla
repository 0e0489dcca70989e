------------------------- MODULE PoolMetadata_proofs -------------------------
(***************************************************************************)
(* Theorems about PoolMetadata, for any addresses, rows of a page and      *)
(* any number of pages.                                                    *)
(***************************************************************************)
EXTENDS PoolMetadata, TLAPS

USE MetadataAssumption

\* A row's fetch is of the parameter made of the row's address; until it has been
\* handled the row is as it was made, and afterwards it is what the answer was.
RowIs(r, l) ==
  /\ l.url = Parameter(r.url) /\ l.stage # "none"
  /\ l.stage \in {"answered", "handled"} =>
       /\ l.answer # "none"
       /\ l.answer # "failed" => r.url.site \in WebSites
  /\ l.stage # "handled" => r.isLoading /\ ~r.initialized /\ ~r.hasMetadataError /\ r.ticker = NoUrl
  /\ l.stage = "handled" =>
       /\ ~r.isLoading
       /\ r.initialized <=> l.answer \in {"found", "blank"}
       /\ r.hasMetadataError <=> l.answer = "failed"
       /\ r.ticker = IF l.answer = "found" THEN l.url ELSE NoUrl

RowsInv == page > 0 => \A i \in Places : RowIs(rows[i], lookups[page][i])

MetadataInv == TypeOK /\ RowsInv /\ SurvivesServers

Untouched == UNCHANGED <<host, featured, bulk>>

\* Exceptions that are not caught are of a silent server, or of an address that no
\* server can be asked for; what is answered otherwise is of an address of the web.
LEMMA Outcomes ==
  ASSUME NEW u \in Urls, NEW s \in Meets(u)
  PROVE  /\ GetMetadata(s) \in {"found", "throws", "null"}
         /\ GetMetadata(s) = "throws" => s = "silent" \/ u.site \notin WebSites
         /\ GetMetadata(s) # "throws" => u.site \in WebSites
<1>1. NoUrl.site \notin WebSites
  BY DEF NoUrl
<1>2. QED
  BY <1>1 DEF GetMetadata, Uncaught, Servers, Meets

LEMMA Parameters ==
  ASSUME NEW u \in Urls
  PROVE  Parameter(u) \in Urls /\ Parameter(u).site = u.site
<1>1. CASE u = NoUrl
  <2>1. Parameter(u) = NoUrl
    <3>1. NoUrl \in [site : {0}, rest : {FALSE}]
      BY DEF NoUrl
    <3>2. \A v \in [site : {0}, rest : {FALSE}] : [v EXCEPT !.rest = FALSE] = v
      OBVIOUS
    <3>3. QED
      BY <1>1, <3>1, <3>2 DEF Parameter
  <2>2. QED
    BY <1>1, <2>1 DEF Urls
<1>2. CASE u \in [site : Sites, rest : BOOLEAN]
  <2>1. Parameter(u) \in [site : Sites, rest : BOOLEAN] /\ Parameter(u).site = u.site
    BY <1>2 DEF Parameter
  <2>2. QED
    BY <2>1 DEF Urls
<1>3. QED
  BY <1>1, <1>2 DEF Urls

LEMMA InitInv == Init => MetadataInv
<1> SUFFICES ASSUME Init PROVE MetadataInv
  OBVIOUS
<1>1. TypeOK
  BY DEF Init, TypeOK, Lookup, Stages, Answers, Box, Lambda, Places, Unsent, NoLambda, Urls
<1>2. RowsInv /\ SurvivesServers
  BY DEF Init, RowsInv, SurvivesServers
<1>3. QED
  BY <1>1, <1>2 DEF MetadataInv

\* What a step of a row's fetch leaves of the page.
LEMMA LookupKeeps ==
  ASSUME MetadataInv, Untouched, UNCHANGED page,
         NEW g \in 1..MaxPages, NEW i \in Places, NEW l \in Lookup, NEW r,
         lookups' = [lookups EXCEPT ![g][i] = l],
         rows' = IF g = page THEN [rows EXCEPT ![i] = r] ELSE rows,
         g = page => r \in Row /\ RowIs(r, l)
  PROVE  MetadataInv'
<1>1. lookups \in [1..MaxPages -> [Places -> Lookup]] /\ page \in 0..MaxPages
      /\ rows \in IF page = 0 THEN {<< >>} ELSE [Places -> Row]
  BY DEF MetadataInv, TypeOK
<1>2. lookups' \in [1..MaxPages -> [Places -> Lookup]]
  <2> DEFINE m == [lookups[g] EXCEPT ![i] = l]
  <2>1. lookups[g] \in [Places -> Lookup]
    BY <1>1
  <2>2. m \in [Places -> Lookup]
    BY <2>1
  <2>3. lookups' = [lookups EXCEPT ![g] = m]
    OBVIOUS
  <2> HIDE DEF m
  <2>4. QED
    BY <1>1, <2>2, <2>3
<1>3. /\ lookups'[g][i] = l
      /\ \A h \in 1..MaxPages, j \in Places : h # g \/ j # i => lookups'[h][j] = lookups[h][j]
  BY <1>1
<1>4. rows' \in IF page = 0 THEN {<< >>} ELSE [Places -> Row]
  BY <1>1
<1>5. TypeOK'
  BY <1>2, <1>4 DEF MetadataInv, TypeOK, Untouched
<1>6. RowsInv'
  <2> SUFFICES ASSUME page > 0, NEW j \in Places PROVE RowIs(rows[j], lookups[page][j])'
    BY DEF RowsInv
  <2>1. page \in 1..MaxPages /\ rows \in [Places -> Row] /\ RowIs(rows[j], lookups[page][j])
    BY <1>1 DEF MetadataInv, RowsInv
  <2>2. CASE g = page /\ j = i
    <3>1. RowIs(r, l) /\ rows'[j] = r /\ lookups'[page][j] = l
      BY <1>3, <2>1, <2>2
    <3>2. QED
      BY <3>1 DEF RowIs
  <2>3. CASE ~(g = page /\ j = i)
    <3>1. rows'[j] = rows[j] /\ lookups'[page][j] = lookups[page][j]
      BY <1>3, <2>1, <2>3
    <3>2. QED
      BY <2>1, <3>1 DEF RowIs
  <2>4. QED
    BY <2>2, <2>3
<1>7. SurvivesServers'
  BY DEF MetadataInv, SurvivesServers, Untouched
<1>8. QED
  BY <1>5, <1>6, <1>7 DEF MetadataInv

LEMMA LookupInv ==
  ASSUME MetadataInv, NEW g \in 1..MaxPages, NEW i \in Places, LookupStep(g, i) \/ LoseLookup(g, i)
  PROVE  MetadataInv'
<1> DEFINE r == rows[i]
           l == lookups[g][i]
<1>1. l \in Lookup /\ (g = page => r \in Row /\ RowIs(r, l))
  <2>1. l \in Lookup /\ page \in 0..MaxPages
    BY DEF MetadataInv, TypeOK
  <2>2. ASSUME g = page PROVE r \in Row /\ RowIs(r, l)
    BY <2>2 DEF MetadataInv, TypeOK, RowsInv
  <2>3. QED
    BY <2>1, <2>2
<1>2. l.url \in Urls /\ (g = page => l.url.site = r.url.site)
  <2>1. g = page => r.url \in Urls /\ l.url = Parameter(r.url)
    BY <1>1 DEF RowIs, Row
  <2>2. QED
    BY <1>1, <2>1, Parameters DEF Lookup
<1>3. CASE AnswerLookup(g, i)
  <2>1. PICK s \in Meets(l.url) :
          Moves(g, i, {"sent"}, [l EXCEPT !.stage = "answered", !.answer = AnswerOf(s)])
    BY <1>3 DEF AnswerLookup
  <2> DEFINE m == [l EXCEPT !.stage = "answered", !.answer = AnswerOf(s)]
  <2>2. l.stage = "sent" /\ lookups' = [lookups EXCEPT ![g][i] = m]
    BY <2>1 DEF Moves
  <2>3. AnswerOf(s) \in {"found", "blank", "failed"} /\ (AnswerOf(s) # "failed" => l.url.site \in WebSites)
    BY <1>2, <2>1, Outcomes DEF AnswerOf
  <2>4. m \in Lookup /\ m.stage = "answered" /\ m.answer = AnswerOf(s) /\ m.url = l.url
    BY <1>1, <2>3 DEF Lookup, Stages, Answers
  <2>5. Untouched /\ UNCHANGED <<page, rows>>
    BY <1>3 DEF AnswerLookup, Untouched, clientVars
  <2>6. rows' = IF g = page THEN [rows EXCEPT ![i] = r] ELSE rows
    BY <2>5 DEF MetadataInv, TypeOK
  <2> HIDE DEF m, r, l
  <2>7. g = page => RowIs(r, m)
    BY <1>1, <1>2, <2>2, <2>3, <2>4 DEF RowIs
  <2>8. QED
    BY <1>1, <2>2, <2>4, <2>5, <2>6, <2>7, LookupKeeps
<1>4. ASSUME NEW answers, NEW t, Handle(g, i, answers), ToRow(g, i, t),
             g = page /\ l.stage = "answered" /\ l.answer \in answers =>
               t \in Row /\ RowIs(t, [l EXCEPT !.stage = "handled"])
      PROVE  MetadataInv'
  <2> DEFINE m == [l EXCEPT !.stage = "handled"]
  <2>1. l.stage = "answered" /\ l.answer \in answers /\ lookups' = [lookups EXCEPT ![g][i] = m]
    BY <1>4 DEF Handle, Moves
  <2>2. rows' = IF g = page THEN [rows EXCEPT ![i] = t] ELSE rows
    BY <1>4 DEF ToRow, IsShown
  <2>3. m \in Lookup
    BY <1>1 DEF Lookup, Stages
  <2>4. Untouched /\ UNCHANGED page
    BY <1>4 DEF Handle, Untouched
  <2>5. g = page => t \in Row /\ RowIs(t, m)
    BY <1>4, <2>1
  <2> HIDE DEF m
  <2>6. QED
    BY <2>1, <2>2, <2>3, <2>4, <2>5, LookupKeeps
<1>5. CASE LookupArrives(g, i)
  <2> DEFINE t == [r EXCEPT !.isLoading = FALSE, !.initialized = TRUE,
                     !.ticker = IF l.answer = "found" THEN l.url ELSE NoUrl]
  <2>1. Handle(g, i, {"found", "blank"}) /\ ToRow(g, i, t)
    BY <1>5 DEF LookupArrives
  <2>2. ASSUME g = page, l.stage = "answered", l.answer \in {"found", "blank"}
        PROVE  t \in Row /\ RowIs(t, [l EXCEPT !.stage = "handled"])
    <3>1. t \in Row
      BY <1>1, <1>2, <2>2 DEF Row, Urls
    <3>2. t.url = r.url /\ t.ticker = (IF l.answer = "found" THEN l.url ELSE NoUrl)
          /\ ~t.isLoading /\ t.initialized /\ t.hasMetadataError = r.hasMetadataError
      BY <1>1, <2>2 DEF Row
    <3>3. RowIs(r, l)
      BY <1>1, <2>2
    <3> HIDE DEF t, r
    <3>4. QED
      BY <1>1, <2>2, <3>1, <3>2, <3>3 DEF RowIs, Lookup
  <2> HIDE DEF t
  <2>3. QED
    BY <1>4, <2>1, <2>2
<1>6. CASE LookupFails(g, i)
  <2> DEFINE t == [r EXCEPT !.hasMetadataError = TRUE, !.isLoading = FALSE]
  <2>1. Handle(g, i, {"failed"}) /\ ToRow(g, i, t)
    BY <1>6 DEF LookupFails
  <2>2. ASSUME g = page, l.stage = "answered", l.answer \in {"failed"}
        PROVE  t \in Row /\ RowIs(t, [l EXCEPT !.stage = "handled"])
    <3>1. t \in Row /\ t.url = r.url /\ t.ticker = r.ticker
          /\ ~t.isLoading /\ t.initialized = r.initialized /\ t.hasMetadataError
      BY <1>1, <2>2 DEF Row
    <3>2. RowIs(r, l)
      BY <1>1, <2>2
    <3> HIDE DEF t, r
    <3>3. QED
      BY <1>1, <2>2, <3>1, <3>2 DEF RowIs, Lookup
  <2> HIDE DEF t
  <2>3. QED
    BY <1>4, <2>1, <2>2
<1>7. CASE LoseLookup(g, i)
  <2> DEFINE m == [l EXCEPT !.stage = "lost"]
  <2>1. l.stage \in {"sent", "answered"} /\ lookups' = [lookups EXCEPT ![g][i] = m]
    BY <1>7 DEF LoseLookup, Moves
  <2>2. m \in Lookup /\ m.stage = "lost" /\ m.url = l.url
    BY <1>1 DEF Lookup, Stages
  <2>3. Untouched /\ UNCHANGED <<page, rows>>
    BY <1>7 DEF LoseLookup, Untouched, clientVars
  <2>4. rows' = IF g = page THEN [rows EXCEPT ![i] = r] ELSE rows
    BY <2>3 DEF MetadataInv, TypeOK
  <2> HIDE DEF m, r, l
  <2>5. g = page => RowIs(r, m)
    BY <1>1, <2>1, <2>2 DEF RowIs
  <2>6. QED
    BY <1>1, <2>1, <2>2, <2>3, <2>4, <2>5, LookupKeeps
<1>8. QED
  BY <1>3, <1>5, <1>6, <1>7 DEF LookupStep

LEMMA ShowPageInv ==
  ASSUME MetadataInv, ShowPage
  PROVE  MetadataInv'
<1>1. PICK urls \in [Places -> Urls] :
       /\ rows' = [i \in Places |-> [url |-> urls[i], ticker |-> NoUrl, isLoading |-> TRUE,
                                     initialized |-> FALSE, hasMetadataError |-> FALSE]]
       /\ lookups' = [lookups EXCEPT ![page + 1] =
                        [i \in Places |-> [Unsent EXCEPT !.stage = "sent", !.url = Parameter(urls[i])]]]
  BY DEF ShowPage
<1>2. page \in 0..MaxPages /\ page < MaxPages /\ page' = page + 1 /\ page + 1 \in 1..MaxPages /\ Untouched
  <2>1. page < MaxPages /\ page' = page + 1 /\ Untouched
    BY DEF ShowPage, Untouched
  <2>2. page \in 0..MaxPages
    BY DEF MetadataInv, TypeOK
  <2>3. QED
    BY <2>1, <2>2
<1> DEFINE sent == [i \in Places |-> [Unsent EXCEPT !.stage = "sent", !.url = Parameter(urls[i])]]
<1>3. \A i \in Places : sent[i] \in Lookup /\ sent[i].stage = "sent" /\ sent[i].url = Parameter(urls[i])
  <2> SUFFICES ASSUME NEW i \in Places
               PROVE  sent[i] \in Lookup /\ sent[i].stage = "sent" /\ sent[i].url = Parameter(urls[i])
    OBVIOUS
  <2>1. Parameter(urls[i]) \in Urls
    BY Parameters
  <2>2. QED
    BY <2>1 DEF Lookup, Stages, Answers, Unsent
<1>4. sent \in [Places -> Lookup]
  BY <1>3
<1> HIDE DEF sent
<1>5. lookups' \in [1..MaxPages -> [Places -> Lookup]] /\ lookups'[page + 1] = sent
  BY <1>1, <1>2, <1>4 DEF MetadataInv, TypeOK, sent
<1>6. rows' \in [Places -> Row]
  BY <1>1 DEF Row, Urls
<1>7. TypeOK'
  <2>1. page' \in 0..MaxPages /\ page' # 0
    BY <1>2
  <2>2. QED
    BY <1>2, <1>5, <1>6, <2>1 DEF MetadataInv, TypeOK, Untouched
<1>8. RowsInv'
  <2> SUFFICES ASSUME NEW i \in Places PROVE RowIs(rows[i], lookups[page][i])'
    BY DEF RowsInv
  <2>1. lookups'[page'][i].stage = "sent" /\ lookups'[page'][i].url = Parameter(urls[i])
    BY <1>2, <1>3, <1>5
  <2>2. rows'[i].url = urls[i] /\ rows'[i].isLoading /\ ~rows'[i].initialized
        /\ ~rows'[i].hasMetadataError /\ rows'[i].ticker = NoUrl
    BY <1>1
  <2>3. QED
    BY <2>1, <2>2 DEF RowIs
<1>9. SurvivesServers'
  BY <1>2 DEF MetadataInv, SurvivesServers, Untouched
<1>10. QED
  BY <1>7, <1>8, <1>9 DEF MetadataInv

\* The featured pool and the lists with metadata leave the rows alone.
LEMMA FeaturedInv ==
  ASSUME MetadataInv, FeaturedStep \/ LoseFeatured
  PROVE  MetadataInv'
<1>1. UNCHANGED <<host, page, rows, lookups, bulk>>
  BY DEF FeaturedStep, LoseFeatured, AnswerFeatured, FeaturedFails, FeaturedAnswer, FeaturedArrives,
         FeaturedNotOk, FeaturedRejected, Featured
<1>2. featured \in Box /\ (featured.initialized /\ ~featured.errorFetching => featured.hasPool)
  BY DEF MetadataInv, TypeOK
<1>3. featured' \in Box /\ (featured'.initialized /\ ~featured'.errorFetching => featured'.hasPool)
  <2>1. CASE AnswerFeatured \/ FeaturedFails \/ FeaturedRejected \/ LoseFeatured
    <3>1. PICK to \in {"answered", "noContent", "lost"}, a \in {"failed", "found"} :
            \/ featured' = [featured EXCEPT !.stage = to]
            \/ featured' = [[featured EXCEPT !.answer = a] EXCEPT !.stage = to]
      BY <2>1 DEF AnswerFeatured, FeaturedFails, FeaturedRejected, LoseFeatured, FeaturedAnswer, Featured
    <3>2. QED
      BY <1>2, <3>1 DEF Box, Stages, Answers
  <2>2. CASE FeaturedArrives
    BY <1>2, <2>2 DEF FeaturedArrives, Featured, Box, Stages
  <2>3. CASE FeaturedNotOk
    BY <1>2, <2>3 DEF FeaturedNotOk, Featured, Box, Stages
  <2>4. QED
    BY <2>1, <2>2, <2>3 DEF FeaturedStep
<1>4. TypeOK'
  BY <1>1, <1>3 DEF MetadataInv, TypeOK
<1>5. RowsInv' /\ SurvivesServers'
  BY <1>1 DEF MetadataInv, RowsInv, RowIs, SurvivesServers
<1>6. QED
  BY <1>4, <1>5 DEF MetadataInv

LEMMA BulkInv ==
  ASSUME MetadataInv, ListWithMetadata \/ \E i \in Places : LambdaEnds(i)
  PROVE  MetadataInv'
<1>1. UNCHANGED <<page, rows, lookups, featured>> /\ host = "up"
  BY DEF ListWithMetadata, LambdaEnds, clientVars
<1>2. bulk \in [Places -> Lambda]
  BY DEF MetadataInv, TypeOK
<1>3. ASSUME host' \in {"up", "down"}, bulk' \in [Places -> Lambda], SurvivesServers' PROVE MetadataInv'
  BY <1>1, <1>3 DEF MetadataInv, TypeOK, RowsInv, RowIs
<1>4. CASE ListWithMetadata
  <2>1. bulk' \in [Places -> Lambda] /\ host' = host
    BY <1>4 DEF ListWithMetadata, Lambda, NoLambda
  <2>2. QED
    BY <1>1, <1>3, <2>1 DEF SurvivesServers
<1>5. ASSUME NEW i \in Places, LambdaEnds(i) PROVE MetadataInv'
  <2>1. PICK s \in Meets(bulk[i].url) :
          /\ host' = IF GetMetadata(s) = "throws" THEN "down" ELSE host
          /\ bulk' = [bulk EXCEPT ![i] = [bulk[i] EXCEPT
                        !.stage = IF GetMetadata(s) = "throws" THEN "thrown" ELSE "assigned",
                        !.silent = s = "silent"]]
    BY <1>5 DEF LambdaEnds
  <2> DEFINE m == [bulk[i] EXCEPT !.stage = IF GetMetadata(s) = "throws" THEN "thrown" ELSE "assigned",
                                  !.silent = s = "silent"]
  <2>2. bulk[i] \in Lambda
    BY <1>2
  <2>3. m \in Lambda /\ m.url = bulk[i].url /\ (m.silent <=> s = "silent")
        /\ m.stage = (IF GetMetadata(s) = "throws" THEN "thrown" ELSE "assigned")
    BY <2>2 DEF Lambda
  <2>4. bulk' = [bulk EXCEPT ![i] = m]
    BY <2>1
  <2> HIDE DEF m
  <2>5. bulk' \in [Places -> Lambda] /\ bulk'[i] = m
    BY <1>2, <2>3, <2>4
  <2>6. host' = "down" => GetMetadata(s) = "throws"
    BY <1>1, <2>1
  <2>7. GetMetadata(s) = "throws" => s = "silent" \/ bulk[i].url.site \notin WebSites
    BY <2>2, Outcomes DEF Lambda
  <2>8. SurvivesServers'
    BY <2>3, <2>5, <2>6, <2>7 DEF SurvivesServers
  <2>9. QED
    BY <1>1, <1>3, <2>1, <2>5, <2>8
<1>6. QED
  BY <1>4, <1>5

LEMMA MetadataInvariant == Spec => []MetadataInv
<1>1. MetadataInv /\ [Next]_vars => MetadataInv'
  <2> SUFFICES ASSUME MetadataInv, [Next]_vars PROVE MetadataInv'
    OBVIOUS
  <2>1. CASE UNCHANGED vars
    BY <2>1 DEF vars, clientVars, MetadataInv, TypeOK, RowsInv, RowIs, SurvivesServers
  <2>2. CASE ShowPage
    BY <2>2, ShowPageInv
  <2>3. CASE \E g \in 1..MaxPages, i \in Places : LookupStep(g, i) \/ LoseLookup(g, i)
    BY <2>3, LookupInv
  <2>4. CASE FeaturedStep \/ LoseFeatured
    BY <2>4, FeaturedInv
  <2>5. CASE ListWithMetadata \/ \E i \in Places : LambdaEnds(i)
    BY <2>5, BulkInv
  <2>6. QED
    BY <2>1, <2>2, <2>3, <2>4, <2>5 DEF Next
<1>2. QED
  BY <1>1, InitInv, PTL DEF Spec

\* Every variable keeps to its type, and a featured pool that is shown without an
\* error is there.
THEOREM TypeCorrect == Spec => []TypeOK
<1>1. MetadataInv => TypeOK
  BY DEF MetadataInv
<1>2. QED
  BY <1>1, MetadataInvariant, PTL

\* A row shows what its own fetch has brought under the parameter made of its own
\* address, for any number of pages whose fetches are answered late.
THEOREM RowsAlwaysShowTheirAnswers == Spec => []RowsShowTheirAnswers
<1>1. MetadataInv => RowsShowTheirAnswers
  <2> SUFFICES ASSUME MetadataInv, NEW i \in DOMAIN rows,
                      NEW l, l = lookups[page][i], NEW r, r = rows[i]
               PROVE  /\ r.isLoading <=> l.stage # "handled"
                      /\ r.initialized <=> l.stage = "handled" /\ l.answer \in {"found", "blank"}
                      /\ r.hasMetadataError <=> l.stage = "handled" /\ l.answer \in {"failed"}
                      /\ r.ticker = IF l.stage = "handled" /\ l.answer \in {"found"}
                                    THEN Parameter(r.url) ELSE NoUrl
                      /\ r.initialized => r.url.site \in WebSites
    BY DEF RowsShowTheirAnswers
  <2>1. page # 0 /\ page > 0 /\ i \in Places
    <3>1. page = 0 => DOMAIN rows = {}
      BY DEF MetadataInv, TypeOK
    <3>2. page # 0 /\ page \in 0..MaxPages /\ rows \in [Places -> Row]
      BY <3>1 DEF MetadataInv, TypeOK
    <3>3. QED
      BY <3>2
  <2>2. RowIs(r, l)
    BY <2>1 DEF MetadataInv, RowsInv
  <2>3. QED
    BY <2>2 DEF RowIs
<1>2. QED
  BY <1>1, MetadataInvariant, PTL

\* Only a list with metadata takes the web application down, by an address that no
\* server can be asked for, by none, or by a server that keeps silent.
THEOREM AlwaysSurvivesServers == Spec => []SurvivesServers
<1>1. MetadataInv => SurvivesServers
  BY DEF MetadataInv
<1>2. QED
  BY <1>1, MetadataInvariant, PTL
=============================================================================
