----------------------------- MODULE MCAccounts -----------------------------
(* Values of the constants of AccountsHistory for TLC.                     *)
EXTENDS AccountsHistory, TLC

BrowsersAlike == Permutations(Browsers)
=============================================================================
