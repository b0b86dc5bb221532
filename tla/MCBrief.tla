------------------------------ MODULE MCBrief ------------------------------
(* Values of the constants of DecisionBrief for TLC.                       *)
EXTENDS DecisionBrief

\* A rising share with sound fundamentals and bad news.
Bull ==
    [vix |-> "contango", leaders |-> "cyclical", usd |-> -1, spx |-> 1,
     pe |-> 1, dcf |-> 1, quality |-> 1, growth |-> 1, analyst |-> 1,
     trend |-> "uptrend", rsi |-> "strong", grades |-> 1, targets |-> 0,
     insiders |-> 0, congress |-> 1, priced |-> TRUE, week |-> 1, month |-> 1,
     vol |-> "normal", news |-> -2, wire |-> 2]

\* It rises although the fundamentals are poor; the dollar is strong.
Rally ==
    [Bull EXCEPT !.pe = -1, !.dcf = 0, !.quality = -1, !.growth = 0,
                 !.analyst = -1, !.usd = 2, !.rsi = "overbought",
                 !.vol = "elevated", !.news = 0]

\* It rises a little on poor fundamentals.
Drift ==
    [Rally EXCEPT !.rsi = "middle", !.grades = 0, !.congress = -1,
                  !.vol = "calm", !.news = -1, !.spx = -1, !.month = -1]

\* An asset without fundamentals falls in a good market.
Bare ==
    [Bull EXCEPT !.pe = None, !.dcf = None, !.quality = None, !.growth = None,
                 !.analyst = None, !.trend = "downtrend", !.rsi = "weak",
                 !.grades = 0, !.congress = 0, !.week = -1, !.month = -1]

\* Everything falls.
Slump ==
    [Bull EXCEPT !.vix = "backwardation", !.leaders = "defensive", !.usd = 2,
                 !.spx = -1, !.pe = None, !.dcf = -1, !.quality = 0,
                 !.growth = -1, !.analyst = 0, !.trend = "rolling over",
                 !.rsi = "oversold", !.grades = -1, !.insiders = -1,
                 !.congress = 0, !.week = -1, !.month = -1,
                 !.vol = "stressed", !.news = -2, !.wire = None]

\* No provider answers.
Dark ==
    [vix |-> None, leaders |-> None, usd |-> None, spx |-> None,
     pe |-> None, dcf |-> None, quality |-> None, growth |-> None,
     analyst |-> None, trend |-> None, rsi |-> None, grades |-> 0,
     targets |-> 0, insiders |-> 0, congress |-> 0, priced |-> FALSE,
     week |-> None, month |-> None, vol |-> None, news |-> None, wire |-> None]

MCWorlds == {Bull, Rally, Drift, Bare, Slump, Dark}

\* cot only matters for futures, which the language model is left out of, and
\* pair only for currency pairs, of which those in USD are judged as crypto is.
MCRequests ==
    {r \in Request : /\ r.cot => r.asset = "futures"
                     /\ r.pair = "in USD" <=> r.asset # "forex"
                     /\ r.llm => r.asset \in {"equity", "crypto"} /\ r.fmp
                     /\ ~ r.fmp => r.asset \in {"equity", "crypto"}}
=============================================================================
