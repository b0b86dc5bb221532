---------------------------- MODULE MCTtlCache ----------------------------
(* Values of the constants of CacheLoad for TLC.                           *)
EXTENDS CacheLoad, TLC

CONSTANTS quote, eod

MCKeys == {quote, eod}

\* A short and a long TTL; quote asks a provider, eod reads through another
\* cache whose data may be one tick old.
MCTtl == (quote :> 1) @@ (eod :> 2)
MCLag == (quote :> 0) @@ (eod :> 1)
=============================================================================
