----------------------------- MODULE Conviction -----------------------------
(***************************************************************************)
(* The judgements of the research services, as pure operators: the macro   *)
(* regime (services/analysis.py), the three brains (brain.py,              *)
(* brain_common.py, brain_crypto.py, brain_forex.py), the trade setups     *)
(* (signals.py, market_setup.py), the news pulse (news_pulse.py) and how   *)
(* the decision brief weighs them against each other (decision_brief.py).  *)
(*                                                                         *)
(* A service compares each figure it is given with fixed thresholds, so a  *)
(* figure is represented by the band it lies in.  A World has the bands of *)
(* everything the providers answer for one symbol at one time; a figure a  *)
(* provider does not have, or fails to give, is None: the services catch   *)
(* the exception and go on without it.                                     *)
(***************************************************************************)
EXTENDS Integers

CONSTANT None

ASSUME NoneAssumption == None \notin Int

Votes == {-1, 0, 1}
Reading == Votes \cup {None}

World ==
    [vix : {"contango", "flat", "backwardation", None}, \* VIX structure
     leaders : {"defensive", "cyclical", "even", None}, \* leading sectors
     usd : (-2 .. 2) \cup {None},  \* USD week; 2 and -2 are beyond 0.3 %
     spx : Reading,                \* S&P 500 week, by sign
     pe : Reading,                 \* P/E against its median: 1 is cheap
     dcf : Reading,                \* DCF gap: 1 is cheap
     quality : Reading,            \* Piotroski score: 1 is strong
     growth : Reading,             \* revenue growth: 1 is growing
     analyst : Reading,            \* implied upside, beyond 10 % or not
     trend : {"uptrend", "recovering", "rolling over", "downtrend", None},
     rsi : {"oversold", "weak", "middle", "strong", "overbought", None},
     grades : Votes,               \* change of the analyst consensus
     targets : Votes,              \* price targets, month against quarter
     insiders : Votes,             \* share of acquisitions
     congress : Votes,             \* net purchases, by sign
     priced : BOOLEAN,             \* instrument_summary has a price
     week : Reading, month : Reading,  \* price changes, by sign
     vol : {"calm", "normal", "elevated", "stressed", None},
     news : (-2 .. 2) \cup {None}, \* polarity of the symbol's headlines;
                                   \* None: there are no headlines
     wire : (-2 .. 2) \cup {None}] \* the same of the general feed

Sign(n) == IF n > 0 THEN 1 ELSE IF n < 0 THEN -1 ELSE 0

\* An input that is missing does not vote.
Vote(v) == IF v = None THEN 0 ELSE v

-----------------------------------------------------------------------------
(* The macro regime.                                                       *)

VixVote(structure) ==
    IF structure = None THEN 0 ELSE IF structure = "backwardation" THEN -1 ELSE 1

SectorVote(leaders) ==
    IF leaders = "defensive" THEN -1 ELSE IF leaders = "cyclical" THEN 1 ELSE 0

RegimeScore(w) ==
    VixVote(w.vix) + SectorVote(w.leaders) - Sign(Vote(w.usd)) + Vote(w.spx)

Answered(w) ==
    w.vix # None \/ w.leaders # None \/ w.usd # None \/ w.spx # None

Regime(w) ==
    IF ~ Answered(w) THEN "unknown"
    ELSE IF RegimeScore(w) >= 2 THEN "risk-on"
    ELSE IF RegimeScore(w) <= -2 THEN "risk-off"
    ELSE "mixed"

Regimes == {"unknown", "risk-on", "risk-off", "mixed"}

MacroLean(regime) ==
    IF regime = "risk-on" THEN 1 ELSE IF regime = "risk-off" THEN -1 ELSE 0

-----------------------------------------------------------------------------
(* The brains: a score and a label.                                        *)

\* The DCF gap only stands in for a P/E without a history.
Valuation(w) == IF w.pe # None THEN w.pe ELSE w.dcf

\* What the dashboard of fundamentals knows without an FMP key.
Unfunded(w) ==
    [w EXCEPT !.pe = None, !.dcf = None, !.quality = None, !.growth = None,
              !.analyst = None]

EquityScore(w, regime) ==
    Vote(Valuation(w)) + Vote(w.quality) + Vote(w.growth) + Vote(w.analyst)
      + MacroLean(regime)

EquityLabel(score) ==
    IF score >= 3 THEN "constructive" ELSE IF score <= -2 THEN "cautious" ELSE "neutral"

\* There is a fundamental signal at all.
Grounded(w) ==
    Valuation(w) # None \/ w.quality # None \/ w.growth # None \/ w.analyst # None

EquityVerdict(w, regime) ==
    [conviction |-> IF Grounded(w) THEN EquityLabel(EquityScore(w, regime))
                                   ELSE "insufficient",
     score |-> EquityScore(w, regime)]

\* Momentum votes when the week and the month agree.
MomentumVote(w) ==
    IF w.week = w.month THEN Vote(w.week) ELSE 0

VolVote(vol) == IF vol = "stressed" THEN -1 ELSE 0

\* A strong dollar lifts a pair that is quoted per USD, weighs on one that is
\* quoted in USD, as crypto is, and says nothing of a cross.
UsdVote(usd, pair) ==
    IF usd \notin {-2, 2} \/ pair = "cross" THEN 0
    ELSE IF (usd = 2) <=> (pair = "per USD") THEN 1 ELSE -1

Pairs == {"per USD", "in USD", "cross"}

MarketLabel(score) ==
    IF score >= 2 THEN "constructive" ELSE IF score <= -2 THEN "cautious" ELSE "neutral"

MarketVerdict(w, regime, pair) ==
    IF ~ w.priced THEN [conviction |-> "insufficient", score |-> None]
    ELSE LET score == MomentumVote(w) + MacroLean(regime) + VolVote(w.vol)
                        + UsdVote(w.usd, pair)
         IN  [conviction |-> MarketLabel(score), score |-> score]

Labels == {"constructive", "neutral", "cautious", "insufficient"}

-----------------------------------------------------------------------------
(* The setups.                                                             *)

TrendPoints(trend) ==
    IF trend = "uptrend" THEN 2
    ELSE IF trend = "recovering" THEN 1
    ELSE IF trend = "rolling over" THEN -1
    ELSE IF trend = "downtrend" THEN -2
    ELSE 0

MomentumPoints(rsi) ==
    IF rsi \in {"strong", "overbought"} THEN 1
    ELSE IF rsi \in {"weak", "oversold"} THEN -1
    ELSE 0

\* Selling by members of Congress is shown but takes no point away.
SmartPoints(w) == w.insiders + (IF w.congress > 0 THEN 1 ELSE 0)

\* A low-weight vote of the brain, None when it raised.
ContextLean(label) ==
    IF label = "constructive" THEN 1 ELSE IF label = "cautious" THEN -1 ELSE 0

Bias(score) ==
    IF score >= 2 THEN "long" ELSE IF score <= -2 THEN "short" ELSE "neutral"

\* Mutant: the context is reported and left out of the score.
SetupWithoutContext(w, context) ==
    LET own == TrendPoints(w.trend) + MomentumPoints(w.rsi)
                 + w.grades + w.targets + SmartPoints(w)
    IN  [bias |-> Bias(own), score |-> own + context, context |-> context,
         stretched |-> w.rsi \in {"overbought", "oversold"}]

TradeSetup(w, context) ==
    LET score == TrendPoints(w.trend) + MomentumPoints(w.rsi)
                   + w.grades + w.targets + SmartPoints(w) + context
    IN  [bias |-> Bias(score), score |-> score, context |-> context,
         stretched |-> w.rsi \in {"overbought", "oversold"}]

MarketSetup(w) ==
    LET score == TrendPoints(w.trend) + MomentumPoints(w.rsi)
    IN  [bias |-> Bias(score), score |-> score, context |-> 0,
         stretched |-> w.rsi \in {"overbought", "oversold"}]

\* What both answer without an FMP key.
SetupDisabled ==
    [bias |-> None, score |-> 0, context |-> 0, stretched |-> FALSE]

-----------------------------------------------------------------------------
(* The news pulse.                                                         *)

\* The lean of the headlines, of which None means that there are none.
NewsLean(polarity) ==
    IF Vote(polarity) >= 2 THEN 1 ELSE IF Vote(polarity) <= -2 THEN -1 ELSE 0

BiasLean(bias) == IF bias = "long" THEN 1 ELSE IF bias = "short" THEN -1 ELSE 0

Direction(score) == IF score >= 1 THEN "up" ELSE IF score <= -1 THEN "down" ELSE "neutral"

Directions == {"up", "down", "neutral"}

\* The rule-based direction: headlines and technical bias together.
Blend(polarity, bias) == Direction(NewsLean(polarity) + BiasLean(bias))

DirectionLean(direction) ==
    IF direction = "up" THEN 1 ELSE IF direction = "down" THEN -1 ELSE 0

-----------------------------------------------------------------------------
(* The weighing of fundamental, technical and news reads.  A section that  *)
(* is absent or failed is None.                                            *)

FundamentalLean(conviction) ==
    IF conviction = None THEN 0
    ELSE IF conviction.score # None /\ conviction.score # 0 THEN Sign(conviction.score)
    ELSE ContextLean(conviction.conviction)

TechnicalLean(setup) == IF setup = None THEN 0 ELSE BiasLean(setup.bias)

PulseLean(pulse) == IF pulse = None THEN 0 ELSE DirectionLean(pulse.direction)

Opposed(a, b) == a * b = -1

ConflictClass(fund, tech, news) ==
    IF tech = 0 /\ fund = 0 THEN "none"
    ELSE IF Opposed(fund, tech) THEN "fundamental_conflict"
    ELSE IF tech # 0 /\ fund = 0 THEN "momentum_only"
    ELSE IF Opposed(news, tech) THEN "news_conflict"
    ELSE "aligned"

\* An exhausted price or a nervous market turn medium into high.
Caution(class, strained) ==
    IF class = "fundamental_conflict" THEN "high"
    ELSE IF class \in {"momentum_only", "news_conflict"}
      THEN IF strained THEN "high" ELSE "medium"
    ELSE "low"
=============================================================================
