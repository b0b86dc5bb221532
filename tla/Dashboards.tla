----------------------------- MODULE Dashboards -----------------------------
(***************************************************************************)
(* The pages that read many instruments at once: the views over the        *)
(* registry and over fixed lists, the news feed, the scan of the whole     *)
(* market, the signal of a curve and the symbol search, one request at a   *)
(* time, while other clients change the registry.                          *)
(***************************************************************************)
EXTENDS NewsFeed, MarketScan, TermStructure, SymbolSearch

\* The instruments that were tracked as the present request began.
VARIABLE atFirst

pageVars == <<viewVars, feedVars, scanVars, curveVars, searchVars, atFirst>>

PagesTypeOK ==
    /\ ViewsTypeOK /\ FeedTypeOK /\ ScanTypeOK /\ CurveTypeOK /\ SearchTypeOK
    /\ atFirst \subseteq Instruments

Known == {x \in Instruments : IsTracked(x)}

PagesInit ==
    /\ ViewsInit /\ FeedInit /\ ScanInit /\ CurveInit /\ SearchInit
    /\ atFirst = Known

Watch == atFirst' = IF view' = "none" THEN {tracked'[i] : i \in DOMAIN tracked'} ELSE atFirst

\* Scan, curve and search do not read the registry: to begin them before anything
\* is removed is as good as later.
NoRegistry == view = "none" /\ tracked = Book

PagesNext ==
    \/ /\ scan = "none" /\ curve = "none" /\ class = "none"
       /\ FeedNext
       /\ Watch
       /\ UNCHANGED <<scanVars, curveVars, searchVars>>
    \/ /\ NoRegistry /\ curve = "none" /\ class = "none"
       /\ ScanNext
       /\ UNCHANGED <<viewVars, feedVars, curveVars, searchVars, atFirst>>
    \/ /\ NoRegistry /\ scan = "none" /\ class = "none"
       /\ CurveNext
       /\ UNCHANGED <<viewVars, feedVars, scanVars, searchVars, atFirst>>
    \/ /\ NoRegistry /\ scan = "none" /\ curve = "none"
       /\ SearchNext
       /\ UNCHANGED <<viewVars, feedVars, scanVars, curveVars, atFirst>>

\* Requests are served to their end; none has to come.
Serve ==
    /\ UNCHANGED <<scanVars, curveVars, searchVars>>
    /\ \/ RowProgress /\ view # "none" /\ UNCHANGED feedVars
       \/ FeedProgress
    /\ Watch

PagesSpec == PagesInit /\ [][PagesNext]_pageVars /\ WF_pageVars(Serve)

-----------------------------------------------------------------------------
(* The rows.                                                               *)

\* What became of the i-th item, by what its worker has met and not by its row.
Reads(i) == saw[i] \subseteq Optional

\* The failure of one row stays in that row: a view over a list shows every item
\* once, in the order of the list where it does not rank; a row is a reading
\* unless the instrument was gone or a call it needs has failed, whatever became
\* of the others, and says what it lacks; an instrument that is still tracked is
\* never taken for one that is gone.
FailureStaysLocal ==
    (view \in RowViews /\ phase \in {"returned", "raised"}) =>
        LET answer == RowAnswer
            shown == {answer.rows[p].of : p \in DOMAIN answer.rows}
        IN  /\ phase = "returned"
            /\ \A i \in DOMAIN batch :
                  /\ got[i].of = batch[i]
                  /\ got[i].ok <=> Reads(i)
                  /\ got[i].lacks = saw[i]
                  /\ saw[i] = {"gone"} => ({batch[i], about} \cap atFirst) \ Known # {}
            /\ view = "sectors" =>
                  /\ shown = {batch[i] : i \in {j \in DOMAIN batch : Reads(j)}}
                  /\ answer.errors = {batch[i] : i \in DOMAIN batch} \ shown
                  /\ Len(answer.rows) + Cardinality(answer.errors) = Len(batch)
                  /\ answer.raised <=> \A i \in DOMAIN batch : ~ Reads(i)
            /\ view \notin {"screen", "sectors"} => answer.rows = got

-----------------------------------------------------------------------------
(* The feed.                                                               *)

HasKey(x, story) == Key[x] = Key[story]

\* The stories that the wire of the i-th target carried, or the world wire in
\* its place, may have.
Carried(i) ==
    IF got[i].raw = <<>> /\ got[i].of \in Crypto
      THEN {n \in Stories : got[i].of \in Mentions[n]}
      ELSE {got[i].raw[j] : j \in DOMAIN got[i].raw}

HeadlinesMerged ==
    LET answer == FeedAnswer
    IN  /\ \A i, j \in DOMAIN headlines :
              Key[headlines[i].story] = Key[headlines[j].story] => i = j
        /\ stage = "fetching" =>
              /\ \A t \in DOMAIN got : \A j \in DOMAIN got[t].raw :
                    Key[got[t].raw[j]] # NoKey =>
                        \E i \in DOMAIN headlines :
                           /\ HasKey(headlines[i].story, got[t].raw[j])
                           /\ got[t].of \in headlines[i].tags
              /\ \A i \in DOMAIN headlines : \A x \in headlines[i].tags :
                    \E t \in DOMAIN got :
                       /\ got[t].of = x
                       /\ \E n \in Carried(t) : HasKey(headlines[i].story, n)
        /\ stage = "tagging" => \A i \in DOMAIN headlines :
              LET mentioned == Mentions[headlines[i].story]
              IN  /\ headlines[i].tags \subseteq mentioned \cap atFirst
                  /\ mentioned \cap Known \subseteq headlines[i].tags
        /\ \A p, q \in DOMAIN answer :
              p < q => Date[answer[p].story] >= Date[answer[q].story]
        /\ \A h \in {headlines[i] : i \in DOMAIN headlines} :
              \/ \E p \in DOMAIN answer : answer[p] = h
              \/ \A p \in DOMAIN answer : Date[answer[p].story] >= Date[h.story]

FailsOnlyAsAWhole ==
    stage = "fetching" =>
        /\ FeedRaises <=> batch # <<>> /\ \A t \in DOMAIN got : ~ got[t].ok
        /\ FeedAnswer = <<>> => FeedRaises \/ batch = <<>> \/ \E t \in DOMAIN got : got[t].ok

\* The feed of several wires that overlap, fail and are empty: no story is in it
\* twice; its tags are the instruments whose wires carried it (of the world wire:
\* those the text mentions, tracked as the story was read); it is sorted newest
\* first, and what the limit cuts off is no newer than what it leaves.  It is an
\* error only if every one of its targets has failed, and at least one: an empty
\* feed without an error means that some wire has answered, or that there is none.
FeedIsWhole == FeedEnds => HeadlinesMerged /\ FailsOnlyAsAWhole

-----------------------------------------------------------------------------
(* The rankings.                                                           *)

\* What "best to worst" of the screens means: readings before errors, the more
\* constructive before the less, and the higher score first.  Of a score of 0,
\* which the code ranks below the others of its label, nothing is said but its
\* label.
Better(r1, r2) ==
    \/ r1.ok /\ ~ r2.ok
    \/ /\ r1.ok /\ r2.ok
       /\ LET l1 == LabelRank(TRUE, r1.figure)
              l2 == LabelRank(TRUE, r2.figure)
          IN  \/ l1 > l2
              \/ l1 = l2 /\ 0 \notin {r1.figure, r2.figure} /\ r1.figure > r2.figure

\* A screen shows the best rows it has, in order: no row stands before a better
\* one, and the limit cuts off none that is better than one it leaves.
BestRankedFirst ==
    (view = "screen" /\ phase = "returned") =>
        LET best == RowAnswer.rows
        IN  /\ \A p, q \in DOMAIN best : p < q => ~ Better(best[q], best[p])
            /\ \A i \in DOMAIN got :
                  \/ \E p \in DOMAIN best : best[p] = got[i]
                  \/ \A p \in DOMAIN best : ~ Better(got[i], best[p])

-----------------------------------------------------------------------------
(* The strengthening that the proofs rest on.                              *)

\* Where the requests are, and with them the pool and the registry.
RequestsInv ==
    /\ view \in RowViews \cup {"none", "map", "news"}
    /\ view = "none" => phase = "idle" /\ atFirst = Known
    /\ Known \subseteq atFirst
    /\ stage = "none" <=> view # "news"
    /\ stage \in {"wire", "tagging"} => phase = "idle"
    /\ stage = "fetching" => phase # "idle" /\ batch \in Seq(Instruments)
    /\ view = "map" => batch = SectorEtfs

\* What a row is made of: its list, what its worker has met, and the instruments it
\* may look up.
RowsInv ==
    view \in RowViews =>
        /\ phase # "idle"
        /\ about \in atFirst \cup {"none"}
        /\ view = "brief" => about \in atFirst
        /\ view = "sectors" => batch = SectorEtfs
        /\ DOMAIN saw = DOMAIN batch
        /\ \A i \in DOMAIN batch :
              /\ batch[i] \in ItemsOf(view)
              /\ view \in {"watchlist", "screen"} => batch[i] \in atFirst
              /\ state[i] \in {"queued", "running", "done"}
              /\ state[i] = "queued" => saw[i] = {}
              /\ state[i] = "running" => saw[i] \in {{}, {"gone"}}
              /\ saw[i] = {"gone"} => ({batch[i], about} \cap atFirst) \ Known # {}
              /\ state[i] = "done" =>
                    \E figure \in FiguresOf(view) : result[i] = RowOf(batch[i], saw[i], figure)

PagesInv ==
    /\ FanInv /\ ViewsTypeOK /\ atFirst \subseteq Instruments
    /\ RequestsInv /\ RowsInv

-----------------------------------------------------------------------------
(* The scan.                                                               *)

\* The sessions that are compared are those that were found: each with its own
\* rows, the newer first, none on a weekend, and every weekday that is passed by
\* was asked for in vain.
SessionsAreTheirOwn ==
    scan # "none" =>
        /\ \A k \in DOMAIN found :
              found[k].of = found[k].day /\ IsWeekday(found[k].day)
        /\ \A k, l \in DOMAIN found : k < l => found[k].day < found[l].day
        /\ \A d \in Days :
              (IsWeekday(d) /\ d < back) =>
                  d \in void <=> \A k \in DOMAIN found : found[k].day # d

MovedUp == {t \in DOMAIN move : move[t] > 0}
MovedDown == {t \in DOMAIN move : move[t] < 0}

\* A ticker that is among the gainers or losers and among the most active.
TagsFollowMoves ==
    \A k \in DOMAIN hits :
        /\ hits[k].dir = "up" /\ hits[k].move < 0 => Cardinality(MovedUp) < TopN
        /\ hits[k].dir = "down" /\ hits[k].move > 0 => Cardinality(MovedDown) < TopN

\* The hit list puts names whose signals agree with their move before all
\* others, then the larger score and the larger move, and none twice; a name
\* whose signals outweigh its move is never one of agreement; and none is tagged
\* with a direction it has not moved in, unless fewer tickers than a list holds
\* have moved that way.
HitsRankedByAgreement ==
    scan = "listed" =>
        /\ TagsFollowMoves
        /\ \A p, q \in DOMAIN hits : p < q =>
              /\ hits[q].confluence => hits[p].confluence
              /\ hits[p].confluence = hits[q].confluence =>
                    \/ Abs(hits[p].score) > Abs(hits[q].score)
                    \/ /\ Abs(hits[p].score) = Abs(hits[q].score)
                       /\ Abs(hits[p].move) >= Abs(hits[q].move)
        /\ \A p, q \in DOMAIN hits : hits[p].ticker = hits[q].ticker => p = q
        /\ \A p \in DOMAIN hits : hits[p].confluence =>
              \/ hits[p].move > 0 /\ hits[p].bias = "long"
              \/ hits[p].move < 0 /\ hits[p].bias = "short"

-----------------------------------------------------------------------------
(* The curves.                                                             *)

EndsAreNearestAndFarthest ==
    LET priced == {chain[i] : i \in {j \in DOMAIN chain : chain[j].price # NoFigure}}
        latest == IF curve = "read" THEN now ELSE prior
    IN  curve \in {"read", "compared"} =>
            \E near, far \in priced :
                /\ \A p \in priced : /\ near.expiration <= p.expiration
                                     /\ p.expiration <= far.expiration
                /\ latest.front = near.price /\ latest.back = far.price

Stress == {"stress spike", "stress building", "stress intensifying"}
Calm == {"stress resolving", "complacency", "stress receding"}

\* The back of a curve for its front has fallen from r1 to r2.
Fell(r1, r2) == r2.back * r1.front < r1.back * r2.front

ReadFollowsTheCurve ==
    (curve = "compared" /\ now.front # 0 /\ prior.front # 0 /\ now.structure # "flat") =>
        /\ VixRead(now, prior) \in Stress <=> Fell(prior, now)
        /\ VixRead(now, prior) \in Calm <=> Fell(now, prior)

\* In whatever order the provider answers, a reading is that of the nearest and of
\* the farthest expiration that has a price.  Between two readings with a front the
\* VIX is said to show more stress exactly if its back has fallen for its front and
\* less exactly if it has risen, through contango, backwardation and every flip but
\* one to a flat curve, of which the text says that it is stable.
CurveIsReadRight == EndsAreNearestAndFarthest /\ ReadFollowsTheCurve

-----------------------------------------------------------------------------
(* The search.                                                             *)

\* Suggestions hold no symbol twice and no more than asked for, and a symbol of
\* the broker or of a curated list that matches is missing only if they are full.
SuggestionsComplete ==
    class # "none" =>
        LET shown == {suggested[i] : i \in DOMAIN suggested}
            brokers == {s \in {broker[i] : i \in DOMAIN broker} : (class = "etf") = (s \in IsEtf)}
        IN  /\ Cardinality(shown) = Len(suggested)
            /\ Len(suggested) <= most
            /\ shown \subseteq brokers \cup matching
            /\ Len(suggested) = most \/ brokers \cup matching \subseteq shown
=============================================================================
