------------------------------ MODULE MCAlerts ------------------------------
(* Values of the constants of AlertsHistory for TLC.                       *)
EXTENDS AlertsHistory, TLC

CONSTANTS gold, macro

MCSeries == {gold, macro}

\* No key "score" in the points of an instrument, none but two in the regime's.
Reading(regime, percentile, score) ==
    [m \in ValidMetrics |-> CASE m = "regime" -> regime
                              [] m = "percentile" -> percentile
                              [] m = "score" -> score
                              [] m = "vol" -> Missing]

MCReadings ==
    (gold :> {Reading(0, 89, Missing), Reading(1, 90, Missing)})
    @@ (macro :> {Reading(0, Missing, 0)})

Post(s, metric, op, threshold) ==
    [series |-> s, metric |-> metric, op |-> op, threshold |-> threshold]

MCPosts == {Post(gold, "percentile", ">=", 90), Post(gold, "percentile", "<", 90),
            Post(macro, "vol", ">", 1), Post(gold, "regime", ">", 1)}

IdsAlike == Permutations(Ids)
=============================================================================
