----------------------------- MODULE MCHistory -----------------------------
(* Values of the constants of HistoryCoverage for TLC: two instruments, of  *)
(* which one has a short code.                                              *)
EXTENDS HistoryCoverage, TLC

CONSTANTS gold, coin,              \* instruments
          goldId, goldCode, coinId \* futures:GC=F, GC, crypto:BTC-USD

MCIdOf == (gold :> goldId) @@ (coin :> coinId)
MCCodeOf == (gold :> goldCode) @@ (coin :> coinId)
=============================================================================
