---------------------------- MODULE PriceRoutes ----------------------------
(***************************************************************************)
(* The price functions of obb_layer/market.py and obb_layer/macro.py and   *)
(* the sources each goes through.  A name stands for a function with its   *)
(* arguments, since every one has an entry in the cache, by its module.    *)
(* Symbols are resolved to FMP's tickers, so that functions for different  *)
(* symbols of one market share the entry of the REST fetch.                *)
(***************************************************************************)
EXTENDS Integers, Sequences, FiniteSets

CONSTANT Chain   \* settings.eod_provider_chain

Strict(x) == <<[of |-> x, strict |-> TRUE]>>
Lenient(x) == <<[of |-> x, strict |-> FALSE]>>

\* eod_with_fallback: the exception of any provider is kept for the end.
EodChain == [i \in DOMAIN Chain |-> Strict(Chain[i])[1]]

\* FMP REST by ticker: fmp.historical_eod_full, cached, without a breaker.
Rest == [eod_pair  |-> Strict("fmp"),
         eod_index |-> Strict("fmp"),
         eod_etf   |-> Strict("fmp")]

\* The resolved tickers: 6E=F, EUR/USD and EURUSD=X are all the pair EURUSD.
FmpRoutes == [futures |-> Strict("eod_pair"),
              fx      |-> Strict("eod_pair")]

\* The EOD provider chain.
ChainRoutes == [equity      |-> EodChain,
                etf         |-> EodChain,
                proxy_index |-> EodChain]

\* proxy_history by the shape of its symbol, other than an index.
ProxyRoutes == [proxy_fx |-> Strict("fx"), proxy_etf |-> Strict("etf")]

\* macro.py: FMP first, whose failures are swallowed, then the chain; an index
\* also tries an ETF that follows it.
MacroRoutes ==
    [macro_fx    |-> Lenient("eod_pair") \o EodChain,
     macro_index |-> Lenient("eod_index") \o Lenient("eod_etf") \o EodChain]

Routes == [f \in DOMAIN Rest \cup DOMAIN FmpRoutes \cup DOMAIN ChainRoutes
                   \cup DOMAIN ProxyRoutes \cup DOMAIN MacroRoutes |->
    CASE f \in DOMAIN Rest        -> Rest[f]
      [] f \in DOMAIN FmpRoutes   -> FmpRoutes[f]
      [] f \in DOMAIN ChainRoutes -> ChainRoutes[f]
      [] f \in DOMAIN ProxyRoutes -> ProxyRoutes[f]
      [] f \in DOMAIN MacroRoutes -> MacroRoutes[f]]

\* circuit.py names a breaker by the function and its arguments, without the
\* module: both modules have an fx_history, whose breakers for EURUSD are one.
BreakerName(f) == IF f = "macro_fx" THEN "fx" ELSE f

\* What f reads through.
Below(f) == {Routes[f][i].of : i \in DOMAIN Routes[f]} \cap DOMAIN Routes

\* The functions that are run when those of fs are called.
Reached[n \in Nat, fs \in SUBSET DOMAIN Routes] ==
    IF n = 0 THEN fs ELSE Reached[n - 1, fs \cup UNION {Below(f) : f \in fs}]

\* The longest way down from f, counted in functions of fs below it.
Height(f, fs) ==
    LET H[g \in DOMAIN Routes] ==
          IF Below(g) = {} THEN 0
          ELSE CHOOSE n \in 0 .. Cardinality(DOMAIN Routes) :
                  /\ \E h \in Below(g) : n = H[h] + (IF h \in fs THEN 1 ELSE 0)
                  /\ \A h \in Below(g) : n >= H[h] + (IF h \in fs THEN 1 ELSE 0)
    IN  H[f]
=============================================================================
