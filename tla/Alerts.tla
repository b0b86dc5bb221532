------------------------------- MODULE Alerts -------------------------------
(***************************************************************************)
(* services/alerts.py over the tables alerts and snapshots of app/db.py:   *)
(* users add, remove and toggle rules on recorded series, one transaction  *)
(* each; an evaluation reads the rules in one transaction and then, rule   *)
(* by rule, the latest point of the rule's series in a transaction of its  *)
(* own, so that everything may change between two of them.                 *)
(*                                                                         *)
(* The recorder is that of DailyHistory, of which DailyHistoryProofs shows *)
(* what matters here: a series gets at most one point a day, in order.     *)
(* Figures and levels are small numbers.                                   *)
(***************************************************************************)
EXTENDS Integers, Sequences

CONSTANTS Requests,     \* evaluations that may run at once
          Series,
          Readings,     \* Readings[s]: the points the recorder may write to s
          Posts,        \* the rules that users post, valid or not
          Ids,          \* uuid4().hex[:8], no two alike
          MaxPoints     \* bound on the points of a series

NumericMetrics == {"vol", "percentile", "score"}
CategoricalMetrics == {"regime"}
ValidMetrics == NumericMetrics \cup CategoricalMetrics

NumericOps == {">", ">=", "<", "<="}
CategoricalOps == {"==", "!="}

\* A threshold that is no number, or blank where a level is wanted; and None.
Unfit == -1
Missing == -1

\* A figure of a point that float() refuses.  The recorder writes numbers and
\* None; a row with anything else has another origin.
NoNumber == -2

Rule == [series : Series, metric : ValidMetrics,
         op : NumericOps \cup CategoricalOps, threshold : Int]
Row == [id : Ids, rule : Rule, enabled : BOOLEAN]
Point == [ValidMetrics -> Int]
Statuses == {"ok", "no data yet", "not in snapshot", "could not compare"}
Flag == [row : Row, status : Statuses, triggered : BOOLEAN]

ASSUME ReadingsAssumption == Readings \in [Series -> SUBSET Point]
ASSUME PostsAssumption ==
    Posts \subseteq [series : Series, metric : STRING, op : STRING, threshold : Int]

VARIABLES alerts,    \* the table alerts, in the order of created_at
          used,      \* the ids given so far
          points,    \* the table snapshots, per series in the order of ts
          today,     \* the series that have today's point
          pc,        \* pc[r]: where request r is in evaluate()
          todo,      \* todo[r]: the rules that remain of its local list
          flags,     \* flags[r]: its local list evaluated
          count      \* count[r]: its local triggered

tables == <<alerts, used, points, today>>
locals == <<pc, todo, flags, count>>
vars == <<tables, locals>>

TypeOK ==
    /\ alerts \in Seq(Row)
    /\ used \subseteq Ids
    /\ \A i \in DOMAIN alerts :
          /\ alerts[i].id \in used
          /\ \A j \in DOMAIN alerts : alerts[i].id = alerts[j].id => i = j
    /\ points \in [Series -> Seq(Point)]
    /\ today \subseteq Series
    /\ pc \in [Requests -> {"idle", "reading", "answered"}]
    /\ todo \in [Requests -> Seq(Row)]
    /\ \A r \in Requests : pc[r] = "reading" => todo[r] # <<>>
    /\ flags \in [Requests -> Seq(Flag)]
    /\ count \in [Requests -> Nat]

Init ==
    /\ alerts = <<>>
    /\ used = {}
    /\ points = [s \in Series |-> <<>>]
    /\ today = {}
    /\ pc = [r \in Requests |-> "idle"]
    /\ todo = [r \in Requests |-> <<>>]
    /\ flags = [r \in Requests |-> <<>>]
    /\ count = [r \in Requests |-> 0]

-----------------------------------------------------------------------------
(* Rules.                                                                  *)

\* add_rule's checks; the router turns their RuleError into a 400.
Accepted(p) ==
    \/ p.metric \in NumericMetrics /\ p.op \in NumericOps /\ p.threshold # Unfit
    \/ p.metric \in CategoricalMetrics /\ p.op \in CategoricalOps /\ p.threshold # Unfit

AddRule(p, id) ==
    /\ Accepted(p)
    /\ id \notin used
    /\ alerts' = Append(alerts, [id |-> id, rule |-> p, enabled |-> TRUE])
    /\ used' = used \cup {id}
    /\ UNCHANGED <<points, today, locals>>

WithoutNth(rows, n) ==
    [i \in 1 .. Len(rows) - 1 |-> IF i < n THEN rows[i] ELSE rows[i + 1]]

RemoveRule(id) ==
    /\ \/ \E n \in DOMAIN alerts : alerts[n].id = id /\ alerts' = WithoutNth(alerts, n)
       \/ (\A n \in DOMAIN alerts : alerts[n].id # id) /\ UNCHANGED alerts
    /\ UNCHANGED <<used, points, today, locals>>

\* Mutant: the row is written back as the page has it.
SetEnabledByReplace(id, on) ==
    /\ id \in used
    /\ \E p \in Posts :
          /\ Accepted(p)
          /\ alerts' = Append(SelectSeq(alerts, LAMBDA row : row.id # id),
                              [id |-> id, rule |-> p, enabled |-> on])
    /\ UNCHANGED <<used, points, today, locals>>

\* An UPDATE: nothing happens to a rule that another request has removed.
SetEnabled(id, on) ==
    /\ alerts' = [i \in DOMAIN alerts |->
                    IF alerts[i].id = id THEN [alerts[i] EXCEPT !.enabled = on] ELSE alerts[i]]
    /\ UNCHANGED <<used, points, today, locals>>

-----------------------------------------------------------------------------
(* The recorder.                                                           *)

Record(s, point) ==
    /\ s \notin today
    /\ Len(points[s]) < MaxPoints
    /\ points' = [points EXCEPT ![s] = Append(@, point)]
    /\ today' = today \cup {s}
    /\ UNCHANGED <<alerts, used, locals>>

Midnight ==
    /\ today # {}
    /\ today' = {}
    /\ UNCHANGED <<alerts, used, points, locals>>

-----------------------------------------------------------------------------
(* evaluate().                                                             *)

\* Mutant: the wrong one of two neighbouring operators.
CompareStrictly(op, a, b) ==
    CASE op \in {">", ">="} -> a > b
      [] op \in {"<", "<="} -> a < b
      [] op = "==" -> a = b
      [] op = "!=" -> a # b

Compare(op, a, b) ==
    CASE op = ">"  -> a > b
      [] op = ">=" -> a >= b
      [] op = "<"  -> a < b
      [] op = "<=" -> a <= b
      [] op = "==" -> a = b
      [] op = "!=" -> a # b

Comparable(rule, point) ==
    /\ point[rule.metric] # Missing
    /\ rule.metric \in NumericMetrics => point[rule.metric] # NoNumber

Holds(rule, point) ==
    /\ Comparable(rule, point)
    /\ Compare(rule.op, point[rule.metric], rule.threshold)

\* Mutant: ORDER BY ts without DESC.
OldestOf(ps) == ps[1]

LatestOf(ps) == ps[Len(ps)]

EvaluateRule(row) ==
    LET ps == points[row.rule.series]
        status == IF ps = <<>> THEN "no data yet"
                  ELSE IF LatestOf(ps)[row.rule.metric] = Missing THEN "not in snapshot"
                  ELSE IF ~ Comparable(row.rule, LatestOf(ps)) THEN "could not compare"
                  ELSE "ok"
    IN  [row |-> row, status |-> status,
         triggered |-> status = "ok" /\ Holds(row.rule, LatestOf(ps))]

\* The rules are read: a list of the request's own from here on.
ListRules(r) ==
    /\ pc[r] # "reading"
    /\ todo' = [todo EXCEPT ![r] = alerts]
    /\ flags' = [flags EXCEPT ![r] = <<>>]
    /\ count' = [count EXCEPT ![r] = 0]
    /\ pc' = [pc EXCEPT ![r] = IF alerts = <<>> THEN "answered" ELSE "reading"]
    /\ UNCHANGED tables

\* Mutant: every rule that holds is counted.
CountedAnyway(flag) == flag.triggered

Counted(flag) == flag.row.enabled /\ flag.triggered

\* One rule is evaluated against the latest point of its series.
ReadPoint(r) ==
    LET flag == EvaluateRule(Head(todo[r]))
    IN  /\ pc[r] = "reading"
        /\ flags' = [flags EXCEPT ![r] = Append(@, flag)]
        /\ count' = [count EXCEPT ![r] = IF Counted(flag) THEN @ + 1 ELSE @]
        /\ todo' = [todo EXCEPT ![r] = Tail(@)]
        /\ pc' = [pc EXCEPT ![r] = IF Len(todo[r]) = 1 THEN "answered" ELSE "reading"]
        /\ UNCHANGED tables

Next ==
    \/ \E p \in Posts, id \in Ids : AddRule(p, id)
    \/ \E id \in Ids : RemoveRule(id)
    \/ \E id \in Ids, on \in BOOLEAN : SetEnabled(id, on)
    \/ \E s \in Series : \E point \in Readings[s] : Record(s, point)
    \/ Midnight
    \/ \E r \in Requests : ListRules(r) \/ ReadPoint(r)

Spec == Init /\ [][Next]_vars
=============================================================================
