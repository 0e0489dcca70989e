----------------------------- MODULE PoolMetadata -----------------------------
(***************************************************************************)
(* The metadata of stake pools, which their owners publish on servers of   *)
(* their own: the web application asks for it when the page of the pools   *)
(* has its rows (fetchStakePoolMetadata of stakePools.js), for the page's  *)
(* featured pool (featuredPool), and for all pools of a list that is asked *)
(* for with includeMetadata, in lambdas that nothing waits for.            *)
(***************************************************************************)
EXTENDS Integers

CONSTANTS
  Sites,    \* what addresses of metadata are made of, up to the first & or #
  WebSites, \* those of a scheme that HttpClient asks: http or https
  MaxRows,  \* rows of a page, and pools of a list with metadata
  MaxPages  \* bound on the pages that the user sees one after the other

ASSUME MetadataAssumption ==
  /\ Sites \subseteq Nat \ {0} /\ WebSites \subseteq Sites
  /\ MaxRows \in Nat \ {0} /\ MaxPages \in Nat

VARIABLES
  host,      \* the web application's process
  page,      \* how many pages have been shown
  rows,      \* the row objects of the page that is shown
  lookups,   \* per page and row, the fetch of the row's metadata
  featured,  \* the box of the featured pool, and its fetch
  bulk       \* the lambdas of a list with includeMetadata

clientVars == <<page, rows, featured>>
vars == <<host, clientVars, lookups, bulk>>

\* An address, and whether it goes on after an & or a #.  NoUrl is that of a pool
\* that has registered none, and metadata that are not there or all null.
NoUrl == [site |-> 0, rest |-> FALSE]
Urls  == [site : Sites, rest : BOOLEAN] \cup {NoUrl}

Places  == 1..MaxRows
\* The address is the one that the list gives for the pool, be it another pool's
\* (StakePools); the metadata are named by the address that they come from.
Row     == [url : Urls, ticker : Urls, isLoading : BOOLEAN, initialized : BOOLEAN,
            hasMetadataError : BOOLEAN]
\* The fetch of an address: found metadata, nulls, or a status that is not ok.
Stages  == {"none", "sent", "answered", "noContent", "lost", "handled"}
Answers == {"none", "found", "blank", "failed"}
Lookup  == [stage : Stages, answer : Answers, url : Urls]
Box     == [stage : Stages, answer : Answers, isLoading : BOOLEAN, initialized : BOOLEAN,
            errorFetching : BOOLEAN, hasPool : BOOLEAN]
Lambda  == [stage : {"none", "awaiting", "assigned", "thrown"}, url : Urls, silent : BOOLEAN]

Unsent == [stage |-> "none", answer |-> "none", url |-> NoUrl]
NoLambda == [stage |-> "none", url |-> NoUrl, silent |-> FALSE]

\* The page has called fetchStakePool for the featured pool.
Init ==
  /\ host = "up"
  /\ page = 0
  /\ rows = << >>
  /\ lookups = [g \in 1..MaxPages |-> [i \in Places |-> Unsent]]
  /\ featured = [stage |-> "sent", answer |-> "none", isLoading |-> TRUE, initialized |-> FALSE,
                 errorFetching |-> FALSE, hasPool |-> FALSE]
  /\ bulk = [i \in Places |-> NoLambda]

-----------------------------------------------------------------------------
(***************************************************************************)
(* MetadataAPI.GetMetadata, by what the pool's server does.                *)
(***************************************************************************)

\* Exceptions that are not caught: of an address that is not there, of one with a
\* scheme that HttpClient does not ask (ftp, ipfs), and of the end of the time that
\* HttpClient waits for a server.
Uncaught == {"noAddress", "otherScheme", "silent"}
Servers  == {"serves", "refuses", "unreachable", "malformed", "silent"}

\* What a call for this address may meet.
Meets(u) ==
  IF u = NoUrl THEN {"noAddress"} ELSE IF u.site \in WebSites THEN Servers ELSE {"otherScheme"}

UncaughtToo(s) ==  \* a mutant: HttpRequestException is not caught
  CASE s = "serves" -> "found" [] s \in Uncaught \cup {"unreachable"} -> "throws" [] OTHER -> "null"
GetMetadata(s) ==
  CASE s = "serves" -> "found" [] s \in Uncaught -> "throws" [] OTHER -> "null"

-----------------------------------------------------------------------------
(***************************************************************************)
(* The rows of the list.                                                   *)
(***************************************************************************)

\* encodeURI leaves & and # as they are: what follows is not part of the parameter.
Parameter(u) == [u EXCEPT !.rest = FALSE]

\* A page of the list has come in: its rows are new objects, and each asks for
\* its metadata.  The fetches of the rows before are still under way.
ShowPage ==
  /\ page < MaxPages
  /\ page' = page + 1
  /\ \E urls \in [Places -> Urls] :
       /\ rows' = [i \in Places |-> [url |-> urls[i], ticker |-> NoUrl, isLoading |-> TRUE,
                                     initialized |-> FALSE, hasMetadataError |-> FALSE]]
       /\ lookups' = [lookups EXCEPT ![page + 1] =
                        [i \in Places |-> [Unsent EXCEPT !.stage = "sent", !.url = Parameter(urls[i])]]]
  /\ UNCHANGED <<host, featured, bulk>>

Moves(g, i, from, l) ==
  /\ lookups[g][i].stage \in from
  /\ lookups' = [lookups EXCEPT ![g][i] = l]

\* StakePoolsController.GetMetadata: without an address the text "null" is no
\* Uri; without metadata all fields are null; an exception is status 500.
AnswerOf(s) == CASE GetMetadata(s) = "found" -> "found" [] GetMetadata(s) = "null" -> "blank" [] OTHER -> "failed"
AnswerLookup(g, i) ==
  /\ host = "up"
  /\ \E s \in Meets(lookups[g][i].url) :
       Moves(g, i, {"sent"}, [lookups[g][i] EXCEPT !.stage = "answered", !.answer = AnswerOf(s)])
  /\ UNCHANGED <<host, clientVars, bulk>>

\* The row object of a fetch is one of the page shown only if it was sent for it.
SamePlace(g) == TRUE  \* a mutant: the row is found by its place
IsShown(g)   == g = page

ToRow(g, i, r) == rows' = IF IsShown(g) THEN [rows EXCEPT ![i] = r] ELSE rows

Handle(g, i, answers) ==
  /\ lookups[g][i].answer \in answers
  /\ Moves(g, i, {"answered"}, [lookups[g][i] EXCEPT !.stage = "handled"])
  /\ UNCHANGED <<host, page, featured, bulk>>

\* The answer is parsed and stored in the row.
LookupArrives(g, i) ==
  /\ Handle(g, i, {"found", "blank"})
  /\ ToRow(g, i, [rows[i] EXCEPT !.isLoading = FALSE, !.initialized = TRUE,
                    !.ticker = IF lookups[g][i].answer = "found" THEN lookups[g][i].url ELSE NoUrl])

\* A mutant of LookupFails: isLoading is left.
ErrorOnly(g, i) ==
  /\ Handle(g, i, {"failed"})
  /\ ToRow(g, i, [rows[i] EXCEPT !.hasMetadataError = TRUE])
LookupFails(g, i) ==
  /\ Handle(g, i, {"failed"})
  /\ ToRow(g, i, [rows[i] EXCEPT !.hasMetadataError = TRUE, !.isLoading = FALSE])

\* The promise is rejected; nothing catches it.
LoseLookup(g, i) ==
  /\ Moves(g, i, {"sent", "answered"}, [lookups[g][i] EXCEPT !.stage = "lost"])
  /\ UNCHANGED <<host, clientVars, bulk>>

-----------------------------------------------------------------------------
(***************************************************************************)
(* The featured pool.                                                      *)
(***************************************************************************)
Featured(from, to, box) ==
  /\ featured.stage = from
  /\ featured' = [box EXCEPT !.stage = to]
  /\ UNCHANGED <<host, page, rows, lookups, bulk>>

FeaturedAnswer(a) == Featured("sent", "answered", [featured EXCEPT !.answer = a])

\* CardanoAPI.GetStakePool: a pool that is not known is null, status 204; the
\* text "" of a pool without address is no Uri.
AnswerFeatured ==
  /\ host = "up"
  /\ \/ Featured("sent", "noContent", featured)
     \/ \E u \in Urls : \E s \in Meets(u) :
          FeaturedAnswer(IF GetMetadata(s) = "throws" THEN "failed" ELSE "found")

\* The service or its database fails: status 500.
FeaturedFails == host = "up" /\ FeaturedAnswer("failed")

FeaturedArrives ==
  /\ featured.answer = "found"
  /\ Featured("answered", "handled", [featured EXCEPT !.isLoading = FALSE, !.initialized = TRUE, !.hasPool = TRUE])

\* A mutant of FeaturedNotOk: the error is not kept.
ErrorDropped ==
  /\ featured.answer = "failed"
  /\ Featured("answered", "handled", [featured EXCEPT !.isLoading = FALSE, !.initialized = TRUE])
\* Not ok: the error is kept, and the second callback finds no data.
FeaturedNotOk ==
  /\ featured.answer = "failed"
  /\ Featured("answered", "handled",
              [featured EXCEPT !.errorFetching = TRUE, !.isLoading = FALSE, !.initialized = TRUE])

\* Status 204 is ok, but parsing its empty body rejects the promise: no second
\* callback; as when the call is lost.
FeaturedRejected == Featured("noContent", "lost", featured)
LoseFeatured == Featured("sent", "lost", featured) \/ Featured("answered", "lost", featured)

-----------------------------------------------------------------------------
(***************************************************************************)
(* ListStakePools with includeMetadata.                                    *)
(***************************************************************************)

\* Parallel.ForEach starts the lambda of each pool and goes on at its first
\* await: the list is answered with what the lambdas have assigned by then.  One
\* such list, of whose pools each has any address.
ListWithMetadata ==
  /\ host = "up"
  /\ \A i \in Places : bulk[i].stage = "none"
  /\ \E urls \in [Places -> Urls] :
       bulk' = [i \in Places |-> [NoLambda EXCEPT !.stage = "awaiting", !.url = urls[i]]]
  /\ UNCHANGED <<host, clientVars, lookups>>

\* The lambda goes on: it assigns what it got, if only nulls, or its exception,
\* which no task holds, ends the process.
LambdaEnds(i) ==
  /\ host = "up"
  /\ bulk[i].stage = "awaiting"
  /\ \E s \in Meets(bulk[i].url) :
       LET throws == GetMetadata(s) = "throws" IN
       /\ host' = IF throws THEN "down" ELSE host
       /\ bulk' = [bulk EXCEPT ![i] = [bulk[i] EXCEPT !.stage = IF throws THEN "thrown" ELSE "assigned",
                                                      !.silent = s = "silent"]]
  /\ UNCHANGED <<clientVars, lookups>>

-----------------------------------------------------------------------------
LookupStep(g, i) == AnswerLookup(g, i) \/ LookupArrives(g, i) \/ LookupFails(g, i)
FeaturedStep == AnswerFeatured \/ FeaturedFails \/ FeaturedArrives \/ FeaturedNotOk \/ FeaturedRejected

Next ==
  \/ ShowPage
  \/ \E g \in 1..MaxPages, i \in Places : LookupStep(g, i) \/ LoseLookup(g, i)
  \/ FeaturedStep \/ LoseFeatured
  \/ ListWithMetadata \/ \E i \in Places : LambdaEnds(i)

Spec == Init /\ [][Next]_vars

\* A call that is not lost is answered, at the latest when the time of
\* HttpClient is up, and the event loop runs.
Fairness ==
  /\ \A g \in 1..MaxPages, i \in Places : WF_vars(LookupStep(g, i))
  /\ WF_vars(FeaturedStep)

FairSpec == Spec /\ Fairness

-----------------------------------------------------------------------------
TypeOK ==
  /\ host \in {"up", "down"}
  /\ page \in 0..MaxPages
  /\ rows \in IF page = 0 THEN {<< >>} ELSE [Places -> Row]
  /\ lookups \in [1..MaxPages -> [Places -> Lookup]]
  /\ featured \in Box
  /\ featured.initialized /\ ~featured.errorFetching => featured.hasPool
  /\ bulk \in [Places -> Lambda]

\* A row shows what its own fetch has brought, which is what was found under the
\* parameter made of its own address: the metadata, an error, or still nothing,
\* however late the answers for the rows of earlier pages come.  (The address may be
\* another pool's, and what is found under its parameter another address's.)
RowsShowTheirAnswers ==
  \A i \in DOMAIN rows :
    LET l == lookups[page][i]
        Handled(answers) == l.stage = "handled" /\ l.answer \in answers IN
    /\ rows[i].isLoading        <=> l.stage # "handled"
    /\ rows[i].initialized      <=> Handled({"found", "blank"})
    /\ rows[i].hasMetadataError <=> Handled({"failed"})
    /\ rows[i].ticker = IF Handled({"found"}) THEN Parameter(rows[i].url) ELSE NoUrl
    /\ rows[i].initialized => rows[i].url.site \in WebSites

\* No server takes the web application down by refusing, by being unreachable or
\* by what it answers, and no page does: only a list with includeMetadata that
\* meets an address no server can be asked for, or none, or a server that keeps
\* silent, possibly long after the list has been answered.
SurvivesServers ==
  host = "down" =>
    \E i \in Places : bulk[i].stage = "thrown" /\ (bulk[i].silent \/ bulk[i].url.site \notin WebSites)

\* While the web application is up, a row comes to an end of loading unless its
\* fetch is lost or another page is shown, and so does the featured pool unless
\* its call is lost or it is answered with no content.
MetadataSettles ==
  [](host = "up") =>
    /\ \A g \in 1..MaxPages, i \in Places :
         (page = g) ~> (page # g \/ ~rows[i].isLoading \/ lookups[g][i].stage = "lost")
    /\ featured.isLoading ~> (~featured.isLoading \/ featured.stage = "lost")
=============================================================================
