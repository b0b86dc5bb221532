--------------------------- MODULE MCPriceFetch ---------------------------
(* Values of the constants of PriceOutage for TLC: the routes of the pair   *)
(* EURUSD that views take.                                                  *)
EXTENDS PriceOutage, PriceRoutes, TLC

CONSTANTS watchlist, macro   \* threads that serve two views

MCChain == <<"fmp", "tiingo">>
MCEod == 2

MCThreads == {watchlist, macro}
MCAsked == (watchlist :> {"proxy_fx"}) @@ (macro :> {"macro_fx"})
MCFns == Reached[3, UNION {MCAsked[t] : t \in MCThreads}]
MCPlan == [f \in MCFns |-> Routes[f]]
MCGuarded == MCFns \ DOMAIN Rest
MCBreakerOf == [f \in MCFns |-> BreakerName(f)]
MCNames == {BreakerName(f) : f \in MCFns}
MCProviders == {"fmp", "tiingo"}
MCTtl == [f \in MCFns |-> MCEod]
MCLag == [f \in MCFns |-> (MCEod - 1) * Height(f, DOMAIN Routes)]
MCBreakers == [f \in MCFns |->
    Height(f, MCGuarded) + (IF f \in MCGuarded THEN 1 ELSE 0)]
=============================================================================
