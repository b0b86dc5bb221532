------------------------------- MODULE MCViews -------------------------------
(***************************************************************************)
(* Dashboards for TLC: a future and two coins, three sector ETFs, two      *)
(* macro panels, four stories, two of them the same under two dates, and   *)
(* three tickers.  A screen goes over all three instruments, as it would   *)
(* over three coins, for the limit to leave two rows and to cut off one.   *)
(***************************************************************************)
EXTENDS Dashboards

MCInstruments == {"gold", "btc", "eth"}
MCBook == <<"gold", "btc", "eth">>
MCSectorEtfs == <<"xlk", "xle", "xlf">>
MCItems == MCInstruments \cup Range(MCSectorEtfs) \cup Range(Panels) \cup Range(CurveRoots)
           \cup Range(BriefParts("gold"))

MCStories == {"old", "rally", "rerun", "blank"}
MCKey == [old |-> "a", rally |-> "b", rerun |-> "b", blank |-> "none"]
MCDate == [old |-> 1, rally |-> 2, rerun |-> 3, blank |-> 0]
MCMentions == [old |-> {"gold"}, rally |-> {"btc", "eth"}, rerun |-> {"eth"}, blank |-> {"btc"}]
MCWires == {<<>>, <<"old", "rally">>, <<"rerun", "blank">>, <<"rally", "rerun", "old">>}

MCVolume == [aaa |-> 3, bbb |-> 2, ccc |-> 1]
MCTickers == <<"aaa", "bbb", "ccc">>

\* Several scores of one label, 0 among them, and one of a better label.
MCFigures == {-1, 0, 1, 2}
MCWeeks == {-1, 2}
MCMoves == {-3, -1, 0, 2, 4}
MCExtras == {-2, 0, 1}

\* Three expirations in disorder, and two points of the same one.
MCPrices == {0, 1, 2, 3}
Quoted(order, prices) ==
    {[i \in DOMAIN order |-> [expiration |-> order[i], price |-> price[i]]] :
        price \in [DOMAIN order -> prices \cup {NoFigure}]}
MCChains == Quoted(<<2, 3, 1>>, MCPrices) \cup Quoted(<<1, 1>>, {1, 2})

MCMajors == [equity |-> <<"aapl", "msft", "jpm">>, etf |-> <<"spy", "qqq">>, forex |-> <<"eurusd", "usdjpy">>,
             crypto |-> <<"btc", "eth">>, futures |-> <<"gc", "ng", "zc">>]
MCTemplates == <<"gc", "cl", "gc">>
MCBrokerLists == {<<>>, <<"aapl">>, <<"spy", "aapl">>, <<"msft", "brk", "msft">>, <<"qqq", "qqq">>}

\* What fn may return: rows and news.
MCResultsOf ==
    [x \in MCItems |->
        UNION {RowsOf(v, x) : v \in {w \in RowViews : x \in ItemsOf(w)}}
        \cup IF x \in MCInstruments THEN [of : {x}, ok : BOOLEAN, raw : MCWires] ELSE {}]
=============================================================================
