----------------------------- MODULE MCRegistry -----------------------------
(* Values of the constants of RegistryHistory for TLC: two defaults and an  *)
(* instrument of the user.                                                  *)
EXTENDS RegistryHistory, TLC

CONSTANTS eur, gold, mine,             \* instruments
          eurId, goldId, mineId,       \* their ids
          eurusd, xauusd, btc          \* symbols

MCIdOf == (eur :> eurId) @@ (gold :> goldId) @@ (mine :> mineId)
MCBook == <<[ref |-> eurusd, item |-> eur], [ref |-> xauusd, item |-> gold]>>

\* Every instrument has a symbol of its own.
MCNames == (eur :> {eurusd}) @@ (gold :> {xauusd}) @@ (mine :> {btc})

\* The user's instrument has the symbol of a default under another asset, as
\* crypto:XAUUSD would.
AliasNames == (eur :> {eurusd}) @@ (gold :> {xauusd}) @@ (mine :> {xauusd})

MCLabel == (eur :> eurusd) @@ (gold :> xauusd) @@ (mine :> btc)

MCPrunes == {<<mineId>>, <<xauusd, mineId>>, <<goldId, xauusd>>}

Requesters == Permutations(Clients)
=============================================================================
