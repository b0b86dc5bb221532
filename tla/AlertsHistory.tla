--------------------------- MODULE AlertsHistory ---------------------------
(***************************************************************************)
(* Alerts with a record of what each evaluation could have seen, to state  *)
(* what an answer put together from several transactions is worth.         *)
(***************************************************************************)
EXTENDS Alerts, FiniteSets

VARIABLES since,   \* since[r][s]: the points s had when r listed the rules
          on,      \* on[r]: the rules that have been enabled since then
          gone     \* the ids whose removal was answered with success

historyVars == <<vars, since, on, gone>>

IdsOf(rows) == {rows[i].id : i \in DOMAIN rows}

EnabledIds(rows) == {rows[i].id : i \in {j \in DOMAIN rows : rows[j].enabled}}

HistoryInit ==
    /\ Init
    /\ since = [r \in Requests |-> [s \in Series |-> 0]]
    /\ on = [r \in Requests |-> {}]
    /\ gone = {}

Lists(r) ==
    /\ ListRules(r)
    /\ since' = [since EXCEPT ![r] = [s \in Series |-> Len(points[s])]]
    /\ on' = [on EXCEPT ![r] = EnabledIds(alerts)]
    /\ UNCHANGED gone

Removes(id) ==
    /\ RemoveRule(id)
    /\ gone' = IF id \in IdsOf(alerts) THEN gone \cup {id} ELSE gone
    /\ UNCHANGED <<since, on>>

ChangesRules ==
    /\ \/ \E p \in Posts, id \in Ids : AddRule(p, id)
       \/ \E id \in Ids, enabled \in BOOLEAN : SetEnabled(id, enabled)
    /\ on' = [r \in Requests |->
                IF pc[r] = "reading" THEN on[r] \cup EnabledIds(alerts') ELSE on[r]]
    /\ UNCHANGED <<since, gone>>

GoesOn ==
    /\ \/ \E s \in Series : \E point \in Readings[s] : Record(s, point)
       \/ Midnight
       \/ \E r \in Requests : ReadPoint(r)
    /\ UNCHANGED <<since, on, gone>>

HistoryNext ==
    \/ \E r \in Requests : Lists(r)
    \/ \E id \in Ids : Removes(id)
    \/ ChangesRules
    \/ GoesOn

HistorySpec == HistoryInit /\ [][HistoryNext]_historyVars

-----------------------------------------------------------------------------
(* Properties.                                                             *)

\* The points of s that were the latest at some time since r listed the rules.
Current(r, s) ==
    {points[s][n] : n \in {m \in DOMAIN points[s] : m >= since[r][s]}}

\* An evaluation is no snapshot, but none of its flags is stale: each is what
\* its rule says of a point that was the latest while the request was served,
\* or of a series that had no point when it began.
FlagsAreCurrent ==
    \A r \in Requests : \A i \in DOMAIN flags[r] :
        LET flag == flags[r][i]
            s == flag.row.rule.series
        IN  \/ \E point \in Current(r, s) : flag.triggered <=> Holds(flag.row.rule, point)
            \/ flag.status = "no data yet" /\ since[r][s] = 0

\* Rules that say the opposite of each other.
Opposite(rule1, rule2) ==
    /\ rule1.series = rule2.series
    /\ rule1.metric = rule2.metric
    /\ rule1.threshold = rule2.threshold
    /\ {rule1.op, rule2.op} \in {{">=", "<"}, {">", "<="}, {"==", "!="}}

\* Two opposite rules are both on, or both off, in one answer only if their
\* series got a point while the request was served.
ContradictionNeedsNewPoint ==
    \A r \in Requests : \A i, j \in DOMAIN flags[r] :
        LET a == flags[r][i]
            b == flags[r][j]
        IN  (/\ Opposite(a.row.rule, b.row.rule)
             /\ a.status = "ok" /\ b.status = "ok"
             /\ a.triggered = b.triggered)
            => Len(points[a.row.rule.series]) > since[r][a.row.rule.series]

\* The badge counts no rule that was off, or gone, all the time.
DisabledIsNotCounted ==
    \A r \in Requests :
        count[r] <= Cardinality({i \in DOMAIN flags[r] : flags[r][i].row.id \in on[r]})

\* A rule that a user has removed does not come back, whoever toggles it late.
RemovedStaysRemoved == IdsOf(alerts) \cap gone = {}
-----------------------------------------------------------------------------
(* The strengthening that the proofs rest on.                              *)

\* The point behind a flag: one recorded when the request listed the rules or
\* later, or the last one of that time.
FromPoint(r, flag) ==
    LET s == flag.row.rule.series
    IN  \/ flag.status = "no data yet" /\ since[r][s] = 0
        \/ \E n \in DOMAIN points[s] :
              /\ n >= since[r][s]
              /\ flag.triggered <=> Holds(flag.row.rule, points[s][n])
              /\ flag.status = "ok" => Comparable(flag.row.rule, points[s][n])

FlagsHavePoints ==
    /\ since \in [Requests -> [Series -> Nat]]
    /\ \A r \in Requests :
          /\ \A s \in Series : since[r][s] <= Len(points[s])
          /\ \A i \in DOMAIN flags[r] : FromPoint(r, flags[r][i])

\* What a request has still to evaluate, it has found on if it takes it for on.
CountsAreFair ==
    /\ on \in [Requests -> SUBSET Ids]
    /\ \A r \in Requests : \A i \in DOMAIN todo[r] :
          todo[r][i].enabled => todo[r][i].id \in on[r]
    /\ DisabledIsNotCounted

AlertsInv ==
    /\ TypeOK
    /\ FlagsHavePoints
    /\ CountsAreFair
    /\ gone \subseteq used
    /\ RemovedStaysRemoved
=============================================================================
