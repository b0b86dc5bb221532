------------------------------- MODULE Views -------------------------------
(***************************************************************************)
(* The views that go through a list and make a row of every item: over the *)
(* registry (watchlist, volatility, COT, screens), over fixed lists (sector*)
(* ETFs, macro panels, curves) and over the parts of the brief of one instrument.  *)
(* Each takes its list when it begins; rows take minutes, while clients    *)
(* remove instruments and provider calls fail.                             *)
(*                                                                         *)
(* Of a row are kept whether it is a reading or an error, which of its     *)
(* provider calls it lacks, and the figure it is ranked by.                *)
(***************************************************************************)
EXTENDS FanOut, Rankings

CONSTANTS Instruments,
          Book,        \* the registry at first, oldest first
          Crypto, CotCoded, Curved, Proxied,   \* with that asset, code, curve, ETF
          Screened,    \* of the asset that is screened: crypto or forex
          SectorEtfs,              \* a list of items, without duplicates
          Figures,     \* scores
          Weeks,       \* weekly changes
          Limit        \* rows that a screen answers

\* No instrument is listed twice, and figures are numbers.
ASSUME BookAssumption ==
    /\ Book \in Seq(Instruments)
    /\ \A i, j \in DOMAIN Book : Book[i] = Book[j] => i = j
ASSUME SectorEtfsAssumption ==
    /\ SectorEtfs # <<>> /\ SectorEtfs \in Seq({SectorEtfs[i] : i \in DOMAIN SectorEtfs})
    /\ \A i, j \in DOMAIN SectorEtfs : SectorEtfs[i] = SectorEtfs[j] => i = j
ASSUME FiguresAssumption == Figures \subseteq Int /\ Weeks \subseteq Int /\ Limit \in Int

VARIABLES tracked,   \* the registry, oldest first
          view,      \* the view that is computed, or "none"
          about,     \* the instrument of the brief, or "none"
          saw        \* saw[i]: what has failed for the i-th item: calls, or "gone"

viewVars == <<fanVars, tracked, view, about, saw>>

RowViews == {"watchlist", "custom", "volatility", "cot", "screen", "sectors", "macro",
             "curves", "brief"}

IsTracked(x) == \E i \in DOMAIN tracked : tracked[i] = x

ViewsTypeOK ==
    /\ FanTypeOK
    /\ Cardinality(Running) <= width
    /\ tracked \in Seq(Instruments)
    /\ \A i, j \in DOMAIN tracked : tracked[i] = tracked[j] => i = j
    /\ about \in Instruments \cup {"none"}
    /\ view \in RowViews => DOMAIN saw = DOMAIN batch

ViewsInit ==
    /\ FanInit
    /\ tracked = Book
    /\ view = "none"
    /\ about = "none"
    /\ saw = <<>>

-----------------------------------------------------------------------------
(* The lists.                                                              *)

\* cot.dashboard: the futures that have a CFTC code.
CotItems == Among(tracked, CotCoded)

\* The screens without symbols: the instruments of their asset.
ScreenItems == Among(tracked, Screened)

Panels == <<"rates", "dollar_fx", "macro_tiles", "indices", "calendar">>

\* CURVE_SPECS and _UNAVAILABLE.
CurveRoots == <<"GC", "CL", "NG", "VIX">>
Unavailable == {"GC", "CL", "NG"}

\* The parts of analysis.brief, each of them optional.
BriefParts(x) ==
    <<"regime", "price">>
    \o (IF x \in CotCoded THEN <<"positioning">> ELSE <<>>)
    \o (IF x \in Curved THEN <<"curve">> ELSE <<>>)
    \o <<"headlines">>

\* watchlist, custom_watchlist.dashboard, volatility.dashboard: all of them.
ListOf(v) ==
    CASE v \in {"watchlist", "custom", "volatility"} -> tracked
      [] v = "cot" -> CotItems
      [] v = "screen" -> ScreenItems
      [] v = "sectors" -> SectorEtfs
      [] v = "macro" -> Panels
      [] v = "curves" -> CurveRoots

\* Those that use parallel_map; the others are loops.
WidthOf(v) == IF v \in {"watchlist", "sectors", "macro"} THEN MaxWorkers ELSE 1

Ask(v, list, x) ==
    /\ view = "none"
    /\ view' = v
    /\ about' = x
    /\ saw' = [i \in DOMAIN list |-> {}]
    /\ Begin(list, WidthOf(v))
    /\ UNCHANGED tracked

AskView == \E v \in RowViews \ {"brief"} : Ask(v, ListOf(v), "none")

AskBrief == \E x \in Instruments : IsTracked(x) /\ Ask("brief", BriefParts(x), x)

-----------------------------------------------------------------------------
(* The rows.                                                               *)

\* instrument_summary: the ETF of a future is a bonus.
SummaryCalls(x) == {"bars"} \cup IF x \in Proxied THEN {"proxy"} ELSE {}

\* custom_watchlist._metrics; an empty or short answer is no better than an error.
MetricsCalls == {"bars"}

\* volatility.dashboard: the same for its three years.
VolatilityCalls == {"bars"}

\* cot._one: the reports of the contract.
ReportCalls == {"report"}

\* _build of brain_crypto and brain_forex: they can do without the volatility read.
ScreenCalls == {"bars", "vol"}

\* The macro panels, the calls of one kind together: a tile or an index that fails
\* is an entry of its panel.
PanelCalls == [rates |-> {"curve"}, dollar_fx |-> {"dollar"}, macro_tiles |-> {"tile"},
               indices |-> {"index"}, calendar |-> {"events"}]

\* A root without a source is answered with a note, without a call.
CurveCalls(x) == IF x \in Unavailable THEN {} ELSE {"curve"}

\* Calls that a row may lack and be a reading still.
Optional == {"proxy", "vol", "tile", "index"}

Calls(v, x) ==
    CASE v = "watchlist" -> SummaryCalls(x)
      [] v = "screen" -> ScreenCalls
      [] v = "macro" -> PanelCalls[x]
      [] v = "curves" -> CurveCalls(x)
      [] v = "custom" -> MetricsCalls
      [] v = "volatility" -> VolatilityCalls
      [] v = "cot" -> ReportCalls
      [] v \in {"sectors", "brief"} -> {"bars"}

\* The instrument that the worker looks up again, by its id.
LooksUp(i) ==
    IF view \in {"watchlist", "screen"} THEN {batch[i]}
    ELSE IF view = "brief" /\ batch[i] \in {"price", "positioning", "headlines"} THEN {about}
    ELSE {}

\* A worker begins, up to its first provider call: reg.resolve raises for what
\* has been removed.
TakeRow(i) ==
    /\ view \in RowViews
    /\ Take(i)
    /\ saw' = [saw EXCEPT ![i] =
                 IF \A x \in LooksUp(i) : IsTracked(x) THEN {} ELSE {"gone"}]
    /\ UNCHANGED <<tracked, view, about>>

ReadingOf(x, ok, lacks, figure) ==
    [of |-> x, ok |-> ok, lacks |-> lacks, figure |-> IF ok THEN figure ELSE NoFigure]

\* Mutant: an instrument that is gone reads like one that has all it needs.
RowOfAnything(x, lacks, figure) ==
    ReadingOf(x, lacks \ {"gone"} \subseteq Optional, lacks, figure)

\* The row: any exception makes it an error row, except that of an optional call,
\* which the row then lacks.
RowOf(x, lacks, figure) == ReadingOf(x, lacks \subseteq Optional, lacks, figure)

\* What a reading may say: a weekly change may be missing for want of bars.
FiguresOf(v) ==
    CASE v = "screen" -> Figures
      [] v = "sectors" -> Weeks \cup {NoFigure}
      [] v \notin {"screen", "sectors"} -> {NoFigure}

\* The items and the rows of a view.
ItemsOf(v) ==
    CASE v \in {"watchlist", "custom", "volatility", "cot", "screen"} -> Instruments
      [] v = "sectors" -> {SectorEtfs[i] : i \in DOMAIN SectorEtfs}
      [] v = "macro" -> {Panels[i] : i \in DOMAIN Panels}
      [] v = "curves" -> {CurveRoots[i] : i \in DOMAIN CurveRoots}
      [] v = "brief" -> {"regime", "price", "positioning", "curve", "headlines"}

RowsOf(v, x) ==
    {RowOf(x, lacks, figure) :
        lacks \in (SUBSET Calls(v, x)) \cup {{"gone"}}, figure \in FiguresOf(v)}

ASSUME RowsAssumption ==
    \A v \in RowViews : ItemsOf(v) \subseteq Items
                        /\ \A x \in ItemsOf(v) : RowsOf(v, x) \subseteq ResultsOf[x]

\* The worker ends, with those of its provider calls that have failed.
FinishRow(i) ==
    /\ view \in RowViews
    /\ \E failed \in SUBSET Calls(view, batch[i]), figure \in FiguresOf(view) :
          /\ saw[i] = {} \/ failed = {}
          /\ saw' = [saw EXCEPT ![i] = @ \cup failed]
          /\ Finish(i, RowOf(batch[i], saw'[i], figure))
    /\ UNCHANGED <<tracked, view, about>>

-----------------------------------------------------------------------------
(* The answers.                                                            *)

ErrorFree(rows) == Picked(rows, {i \in DOMAIN rows : rows[i].ok})

\* sector_rotation: error rows go to a map of their own, and it raises if there
\* is no other.
SectorAnswer ==
    LET good == ErrorFree(got)
        errors == {got[i].of : i \in {j \in DOMAIN got : ~ got[j].ok}}
    IN  [rows |-> RankDesc(good, LAMBDA r : WeekKey(r.figure)),
         errors |-> errors,
         raised |-> good = <<>> /\ errors # {}]

\* Mutant: the limit comes before the ranking.
ScreenAnswerCutFirst ==
    [rows |-> RankDesc(UpTo(Limit, got), LAMBDA r : ScreenKey(r.ok, r.figure)),
     errors |-> {}, raised |-> FALSE]

\* The screens: error rows are ranked last.
ScreenAnswer ==
    [rows |-> UpTo(Limit, RankDesc(got, LAMBDA r : ScreenKey(r.ok, r.figure))),
     errors |-> {}, raised |-> FALSE]

RowAnswer ==
    CASE view = "sectors" -> SectorAnswer
      [] view = "screen" -> ScreenAnswer
      [] view \in RowViews \ {"screen", "sectors"} ->
            [rows |-> got, errors |-> {}, raised |-> FALSE]

-----------------------------------------------------------------------------

\* Another client removes an instrument.  One that is added after a list has been
\* taken is in the next one.
Untrack(x) ==
    /\ IsTracked(x)
    /\ tracked' = Among(tracked, Instruments \ {x})
    /\ UNCHANGED <<fanVars, view, about, saw>>

\* The answer is sent.
SendRows ==
    /\ view \in RowViews
    /\ Leave
    /\ view' = "none"
    /\ about' = "none"
    /\ saw' = <<>>
    /\ UNCHANGED tracked

\* parallel_map on its own, with a function that may raise; the views' never do.
MapItems ==
    \/ /\ view = "none"
       /\ Begin(SectorEtfs, MaxWorkers)
       /\ view' = "map"
    \/ /\ view = "map"
       /\ \/ \E i \in DOMAIN batch :
                \/ Take(i)
                \/ Fail(i)
                \/ Finish(i, RowOf(batch[i], {}, NoFigure))
          \/ Leave
       /\ view' = IF phase' = "idle" THEN "none" ELSE view

RowProgress ==
    \/ \E i \in DOMAIN batch : TakeRow(i) \/ FinishRow(i)
    \/ Iterate /\ UNCHANGED <<tracked, view, about, saw>>
    \/ MapItems /\ UNCHANGED <<tracked, about, saw>>

ViewsNext ==
    \/ \E x \in Instruments : Untrack(x)
    \/ AskView \/ AskBrief
    \/ RowProgress
    \/ SendRows
=============================================================================
