---------------------------- MODULE AlertsProofs ----------------------------
(***************************************************************************)
(* Proofs about Alerts and AlertsHistory for any number of evaluations at  *)
(* once, any series, readings and rules, and histories of any length.      *)
(***************************************************************************)
EXTENDS AlertsHistory, TLAPS, FiniteSetTheorems, SequenceTheorems

-----------------------------------------------------------------------------
(* The helpers.                                                            *)

LEMMA WithoutNthIsShorter ==
    ASSUME NEW S, NEW rows \in Seq(S), NEW n \in DOMAIN rows
    PROVE  /\ WithoutNth(rows, n) \in Seq(S)
           /\ \A i \in DOMAIN WithoutNth(rows, n) :
                 \E j \in DOMAIN rows :
                    /\ j = (IF i < n THEN i ELSE i + 1)
                    /\ WithoutNth(rows, n)[i] = rows[j]
<1>1. DOMAIN rows = 1 .. Len(rows) /\ Len(rows) \in Nat /\ n \in 1 .. Len(rows)
  OBVIOUS
<1>2. Len(rows) - 1 \in Nat
  BY <1>1
<1>3. DOMAIN WithoutNth(rows, n) = 1 .. Len(rows) - 1
  BY DEF WithoutNth
<1>4. ASSUME NEW i \in 1 .. Len(rows) - 1
      PROVE  /\ (IF i < n THEN i ELSE i + 1) \in DOMAIN rows
             /\ WithoutNth(rows, n)[i] = rows[IF i < n THEN i ELSE i + 1]
             /\ WithoutNth(rows, n)[i] \in S
  <2>1. (IF i < n THEN i ELSE i + 1) \in 1 .. Len(rows)
    BY <1>1
  <2>2. WithoutNth(rows, n)[i] = rows[IF i < n THEN i ELSE i + 1]
    BY <1>1 DEF WithoutNth
  <2> QED
    BY <1>1, <2>1, <2>2, ElementOfSeq
<1>5. WithoutNth(rows, n) \in [1 .. Len(rows) - 1 -> S]
  BY <1>3, <1>4 DEF WithoutNth
<1> QED
  BY <1>2, <1>3, <1>4, <1>5, SeqDef

LEMMA RowsOfRules ==
    ASSUME NEW p \in Posts, NEW id \in Ids, Accepted(p)
    PROVE  [id |-> id, rule |-> p, enabled |-> TRUE] \in Row
<1>1. /\ p.metric \in ValidMetrics /\ p.op \in NumericOps \cup CategoricalOps
  BY DEF Accepted, ValidMetrics
<1>2. p \in Rule
  BY <1>1, PostsAssumption DEF Rule
<1> QED
  BY <1>2 DEF Row

\* A flag says of its rule what the latest point of its series says.
LEMMA FlagOfRule ==
    ASSUME TypeOK, NEW row \in Row
    PROVE  LET flag == EvaluateRule(row)
               ps == points[row.rule.series]
           IN  /\ flag \in Flag
               /\ flag.row = row
               /\ ps = <<>> => flag.status = "no data yet"
               /\ ps # <<>> =>
                     /\ Len(ps) \in DOMAIN ps
                     /\ flag.triggered <=> Holds(row.rule, ps[Len(ps)])
                     /\ flag.status = "ok" => Comparable(row.rule, ps[Len(ps)])
<1> DEFINE ps == points[row.rule.series]
           level == LatestOf(ps)[row.rule.metric]
           status == IF ps = <<>> THEN "no data yet"
                     ELSE IF level = Missing THEN "not in snapshot"
                     ELSE IF ~ Comparable(row.rule, LatestOf(ps)) THEN "could not compare"
                     ELSE "ok"
           triggered == status = "ok" /\ Holds(row.rule, LatestOf(ps))
<1>1. row.rule.series \in Series /\ ps \in Seq(Point)
  BY DEF TypeOK, Row, Rule
<1>2. /\ Holds(row.rule, LatestOf(ps)) => Comparable(row.rule, LatestOf(ps))
      /\ Comparable(row.rule, LatestOf(ps)) => level # Missing
  BY DEF Holds, Comparable
<1>3. LatestOf(ps) = ps[Len(ps)]
  BY DEF LatestOf
<1>4. ps # <<>> => Len(ps) \in DOMAIN ps
  BY <1>1, EmptySeq
<1>5. EvaluateRule(row) = [row |-> row, status |-> status, triggered |-> triggered]
  BY DEF EvaluateRule
<1>6. status \in Statuses /\ triggered \in BOOLEAN
  BY DEF Statuses
<1>7. /\ ps = <<>> => status = "no data yet"
      /\ ps # <<>> => /\ triggered <=> Holds(row.rule, LatestOf(ps))
                      /\ status = "ok" => Comparable(row.rule, LatestOf(ps))
  BY <1>2
<1> HIDE DEF status, triggered
<1>8. /\ EvaluateRule(row) \in Flag
      /\ EvaluateRule(row).row = row
      /\ EvaluateRule(row).status = status
      /\ EvaluateRule(row).triggered = triggered
  BY <1>5, <1>6 DEF Flag
<1> QED
  BY <1>3, <1>4, <1>7, <1>8

-----------------------------------------------------------------------------
(* Types, and that no two rules have an id in common.                      *)

RulesOK ==
    /\ alerts \in Seq(Row)
    /\ used \subseteq Ids
    /\ \A i \in DOMAIN alerts :
          /\ alerts[i].id \in used
          /\ \A j \in DOMAIN alerts : alerts[i].id = alerts[j].id => i = j

LEMMA AddRules ==
    ASSUME RulesOK, NEW p \in Posts, NEW id \in Ids, AddRule(p, id)
    PROVE  RulesOK' /\ IdsOf(alerts') = IdsOf(alerts) \cup {id}
<1> DEFINE new == [id |-> id, rule |-> p, enabled |-> TRUE]
<1>1. new \in Row /\ new.id = id
  BY RowsOfRules DEF AddRule
<1>2. alerts' = Append(alerts, new) /\ used' = used \cup {id} /\ id \notin used
  BY DEF AddRule
<1> HIDE DEF new
<1>3. /\ alerts \in Seq(Row) /\ Len(alerts) \in Nat /\ DOMAIN alerts = 1 .. Len(alerts)
  BY DEF RulesOK
<1>4. /\ alerts' \in Seq(Row) /\ DOMAIN alerts' = 1 .. Len(alerts) + 1
      /\ \A i \in DOMAIN alerts : alerts'[i] = alerts[i]
      /\ alerts'[Len(alerts) + 1] = new
  BY <1>1, <1>2, <1>3, AppendProperties
<1>5. \A i \in DOMAIN alerts' : i \in DOMAIN alerts \/ i = Len(alerts) + 1
  BY <1>3, <1>4
<1>6. RulesOK'
  BY <1>1, <1>2, <1>3, <1>4, <1>5 DEF RulesOK
<1>7. IdsOf(alerts') = IdsOf(alerts) \cup {id}
  BY <1>1, <1>3, <1>4, <1>5 DEF IdsOf
<1> QED
  BY <1>6, <1>7

LEMMA RemoveRules ==
    ASSUME RulesOK, NEW id \in Ids, RemoveRule(id)
    PROVE  /\ RulesOK'
           /\ IdsOf(alerts') \subseteq IdsOf(alerts) \ {id}
<1>1. CASE (\A n \in DOMAIN alerts : alerts[n].id # id) /\ UNCHANGED alerts
  BY <1>1 DEF RulesOK, RemoveRule, IdsOf
<1>2. ASSUME NEW n \in DOMAIN alerts, alerts[n].id = id, alerts' = WithoutNth(alerts, n)
      PROVE  RulesOK' /\ IdsOf(alerts') \subseteq IdsOf(alerts) \ {id}
  <2>1. alerts \in Seq(Row) /\ DOMAIN alerts = 1 .. Len(alerts) /\ Len(alerts) \in Nat
    BY DEF RulesOK
  <2>2. /\ alerts' \in Seq(Row)
        /\ \A i \in DOMAIN alerts' :
              \E j \in DOMAIN alerts :
                 j = (IF i < n THEN i ELSE i + 1) /\ alerts'[i] = alerts[j]
    BY <1>2, <2>1, WithoutNthIsShorter
  <2>3. \A i \in DOMAIN alerts' : i \in Int
    BY <2>2
  <2>4. \A i, k \in DOMAIN alerts' : alerts'[i].id = alerts'[k].id => i = k
    BY <2>1, <2>2, <2>3 DEF RulesOK
  <2>5. \A i \in DOMAIN alerts' : alerts'[i].id \in IdsOf(alerts) \ {id}
    <3> SUFFICES ASSUME NEW i \in DOMAIN alerts'
                 PROVE  alerts'[i].id \in IdsOf(alerts) \ {id}
      OBVIOUS
    <3>1. PICK j \in DOMAIN alerts :
             j = (IF i < n THEN i ELSE i + 1) /\ alerts'[i] = alerts[j]
      BY <2>2
    <3>2. j # n
      BY <2>1, <2>3, <3>1
    <3> QED
      BY <1>2, <3>1, <3>2 DEF RulesOK, IdsOf
  <2>6. \A i \in DOMAIN alerts' : alerts'[i].id \in used'
    BY <2>5 DEF RulesOK, IdsOf, RemoveRule
  <2> QED
    BY <2>2, <2>4, <2>5, <2>6 DEF RulesOK, IdsOf, RemoveRule
<1> QED
  BY <1>1, <1>2 DEF RemoveRule

LEMMA SetRules ==
    ASSUME RulesOK, NEW id \in Ids, NEW enabled \in BOOLEAN, SetEnabled(id, enabled)
    PROVE  RulesOK' /\ IdsOf(alerts') = IdsOf(alerts)
<1>1. alerts \in Seq(Row) /\ DOMAIN alerts = 1 .. Len(alerts) /\ Len(alerts) \in Nat
  BY DEF RulesOK
<1>2. alerts' = [i \in DOMAIN alerts |->
                   IF alerts[i].id = id THEN [alerts[i] EXCEPT !.enabled = enabled]
                   ELSE alerts[i]]
  BY DEF SetEnabled
<1>3. \A i \in DOMAIN alerts : alerts'[i] \in Row /\ alerts'[i].id = alerts[i].id
  <2> SUFFICES ASSUME NEW i \in DOMAIN alerts
               PROVE  alerts'[i] \in Row /\ alerts'[i].id = alerts[i].id
    OBVIOUS
  <2>1. alerts[i] \in Row
    BY <1>1, ElementOfSeq
  <2>2. /\ [alerts[i] EXCEPT !.enabled = enabled] \in Row
        /\ [alerts[i] EXCEPT !.enabled = enabled].id = alerts[i].id
    BY <2>1 DEF Row
  <2> QED
    BY <1>2, <2>1, <2>2
<1>4. DOMAIN alerts' = DOMAIN alerts /\ alerts' \in Seq(Row)
  <2>1. alerts' \in [1 .. Len(alerts) -> Row]
    BY <1>1, <1>2, <1>3
  <2> QED
    BY <1>1, <2>1, SeqDef
<1> QED
  BY <1>3, <1>4 DEF RulesOK, IdsOf, SetEnabled

LocalsOK ==
    /\ pc \in [Requests -> {"idle", "reading", "answered"}]
    /\ todo \in [Requests -> Seq(Row)]
    /\ \A r \in Requests : pc[r] = "reading" => todo[r] # <<>>
    /\ flags \in [Requests -> Seq(Flag)]
    /\ count \in [Requests -> Nat]

PointsOK == points \in [Series -> Seq(Point)] /\ today \subseteq Series

LEMMA TypeParts == TypeOK <=> RulesOK /\ PointsOK /\ LocalsOK
  BY DEF TypeOK, RulesOK, PointsOK, LocalsOK

LEMMA InitTypes == Init => TypeOK
  BY DEF Init, TypeOK

LEMMA RecordTypes ==
    ASSUME TypeOK, NEW s \in Series, NEW point \in Readings[s], Record(s, point)
    PROVE  TypeOK'
<1>1. point \in Point
  BY ReadingsAssumption
<1>2. points[s] \in Seq(Point)
  BY DEF TypeOK
<1>3. Append(points[s], point) \in Seq(Point)
  BY <1>1, <1>2
<1> QED
  BY <1>3 DEF TypeOK, Record, locals

LEMMA MidnightTypes ==
    ASSUME TypeOK, Midnight
    PROVE  TypeOK'
  BY DEF TypeOK, Midnight, locals

LEMMA ListTypes ==
    ASSUME TypeOK, NEW r \in Requests, ListRules(r)
    PROVE  TypeOK'
<1>1. RulesOK' /\ PointsOK'
  BY TypeParts DEF RulesOK, PointsOK, ListRules, tables
<1>2. LocalsOK'
  BY DEF TypeOK, LocalsOK, ListRules
<1> QED
  BY <1>1, <1>2, TypeParts DEF TypeOK, RulesOK, PointsOK, LocalsOK

LEMMA ReadTypes ==
    ASSUME TypeOK, NEW r \in Requests, ReadPoint(r)
    PROVE  TypeOK' /\ Head(todo[r]) \in Row /\ EvaluateRule(Head(todo[r])) \in Flag
<1> DEFINE row == Head(todo[r])
           flag == EvaluateRule(row)
<1>1. todo[r] \in Seq(Row) /\ todo[r] # <<>> /\ flags[r] \in Seq(Flag) /\ count[r] \in Nat
  BY DEF TypeOK, ReadPoint
<1>2. row \in Row /\ Tail(todo[r]) \in Seq(Row) /\ Len(Tail(todo[r])) = Len(todo[r]) - 1
      /\ Len(todo[r]) \in Nat
  BY <1>1, HeadTailProperties
<1>3. flag \in Flag
  BY <1>2, FlagOfRule
<1>4. /\ flags' = [flags EXCEPT ![r] = Append(flags[r], flag)]
      /\ count' = [count EXCEPT ![r] = IF Counted(flag) THEN count[r] + 1 ELSE count[r]]
      /\ todo' = [todo EXCEPT ![r] = Tail(todo[r])]
      /\ pc' = [pc EXCEPT ![r] = IF Len(todo[r]) = 1 THEN "answered" ELSE "reading"]
      /\ UNCHANGED tables
  BY DEF ReadPoint
<1> HIDE DEF row, flag
<1>5. Append(flags[r], flag) \in Seq(Flag)
  BY <1>1, <1>3
<1>6. pc'[r] = "reading" => Tail(todo[r]) # <<>>
  <2>1. Len(todo[r]) # 1 => Len(Tail(todo[r])) # 0
    BY <1>2
  <2>2. pc'[r] = "reading" => Len(todo[r]) # 1
    BY <1>4 DEF TypeOK
  <2>3. Len(<<>>) = 0
    OBVIOUS
  <2> QED
    BY <2>1, <2>2, <2>3
<1>7. LocalsOK'
  BY <1>1, <1>2, <1>4, <1>5, <1>6 DEF TypeOK, LocalsOK
<1>8. RulesOK' /\ PointsOK'
  BY <1>4, TypeParts DEF RulesOK, PointsOK, tables
<1>9. TypeOK'
  BY <1>7, <1>8 DEF TypeOK, RulesOK, PointsOK, LocalsOK
<1> QED
  BY <1>2, <1>3, <1>9 DEF row, flag

LEMMA RuleTypes ==
    ASSUME TypeOK, RulesOK', UNCHANGED <<points, today, locals>>
    PROVE  TypeOK'
  BY DEF TypeOK, RulesOK, locals

LEMMA NextTypes ==
    ASSUME TypeOK, [Next]_vars
    PROVE  TypeOK'
<1>1. ASSUME NEW p \in Posts, NEW id \in Ids, AddRule(p, id)
      PROVE  TypeOK'
  BY <1>1, AddRules, RuleTypes, TypeParts DEF AddRule
<1>2. ASSUME NEW id \in Ids, RemoveRule(id)
      PROVE  TypeOK'
  BY <1>2, RemoveRules, RuleTypes, TypeParts DEF RemoveRule
<1>3. ASSUME NEW id \in Ids, NEW enabled \in BOOLEAN, SetEnabled(id, enabled)
      PROVE  TypeOK'
  BY <1>3, SetRules, RuleTypes, TypeParts DEF SetEnabled
<1>4. CASE UNCHANGED vars
  BY <1>4 DEF TypeOK, vars, tables, locals
<1> QED
  BY <1>1, <1>2, <1>3, <1>4, RecordTypes, MidnightTypes, ListTypes, ReadTypes DEF Next

\* Type correctness, and that ids are given once and belong to one rule each.
THEOREM TypeCorrect == Spec => []TypeOK
<1>1. Init => TypeOK
  BY InitTypes
<1>2. TypeOK /\ [Next]_vars => TypeOK'
  BY NextTypes
<1> QED
  BY <1>1, <1>2, PTL DEF Spec

-----------------------------------------------------------------------------
(* Where the flags come from.                                              *)

LEMMA PointsStay ==
    ASSUME FlagsHavePoints, UNCHANGED <<since, points, flags>>
    PROVE  FlagsHavePoints'
  BY ZenonT(60) DEF FlagsHavePoints, FromPoint

LEMMA ListsHasPoints ==
    ASSUME TypeOK, FlagsHavePoints, NEW r \in Requests, Lists(r)
    PROVE  FlagsHavePoints'
<1>1. /\ points' = points
      /\ flags' = [flags EXCEPT ![r] = <<>>]
      /\ since' = [since EXCEPT ![r] = [s \in Series |-> Len(points[s])]]
  BY DEF Lists, ListRules, tables
<1>2. \A s \in Series : Len(points[s]) \in Nat
  BY DEF TypeOK
<1>3. since' \in [Requests -> [Series -> Nat]]
  BY <1>1, <1>2 DEF FlagsHavePoints
<1>4. ASSUME NEW q \in Requests
      PROVE  /\ \A s \in Series : since'[q][s] <= Len(points[s])
             /\ \A i \in DOMAIN flags'[q] : FromPoint(q, flags[q][i])' /\ q # r
  <2>1. CASE q = r
    BY <1>1, <1>2, <2>1 DEF TypeOK, FlagsHavePoints
  <2>2. CASE q # r
    BY ZenonT(60), <1>1, <2>2 DEF TypeOK, FlagsHavePoints, FromPoint
  <2> QED
    BY <2>1, <2>2
<1> QED
  BY <1>1, <1>3, <1>4 DEF FlagsHavePoints, FromPoint

LEMMA RecordHasPoints ==
    ASSUME TypeOK, FlagsHavePoints, NEW s \in Series, NEW point \in Readings[s],
           Record(s, point), UNCHANGED since
    PROVE  FlagsHavePoints'
<1>1. /\ points' = [points EXCEPT ![s] = Append(points[s], point)]
      /\ flags' = flags
  BY DEF Record, locals
<1>2. point \in Point
  BY ReadingsAssumption
<1>3. \A t \in Series :
         /\ Len(points[t]) <= Len(points'[t])
         /\ \A n \in DOMAIN points[t] : n \in DOMAIN points'[t] /\ points'[t][n] = points[t][n]
  <2> SUFFICES ASSUME NEW t \in Series
               PROVE  /\ Len(points[t]) <= Len(points'[t])
                      /\ \A n \in DOMAIN points[t] :
                            n \in DOMAIN points'[t] /\ points'[t][n] = points[t][n]
    OBVIOUS
  <2>1. points[t] \in Seq(Point) /\ DOMAIN points[t] = 1 .. Len(points[t])
        /\ Len(points[t]) \in Nat
    BY DEF TypeOK
  <2>2. CASE t = s
    BY <1>1, <1>2, <2>1, <2>2, AppendProperties DEF TypeOK
  <2>3. CASE t # s
    BY <1>1, <2>1, <2>3 DEF TypeOK
  <2> QED
    BY <2>2, <2>3
<1>4. ASSUME NEW r \in Requests, NEW i \in DOMAIN flags[r]
      PROVE  FromPoint(r, flags[r][i])'
  <2> DEFINE flag == flags[r][i]
             t == flag.row.rule.series
  <2>1. FromPoint(r, flag)
    BY DEF FlagsHavePoints
  <2>2. flag \in Flag
    <3>1. flags[r] \in Seq(Flag)
      BY DEF TypeOK
    <3> QED
      BY <3>1, ElementOfSeq
  <2> HIDE DEF flag
  <2>3. t \in Series
    BY <2>2 DEF Flag, Row, Rule
  <2>4. CASE flag.status = "no data yet" /\ since[r][t] = 0
    BY <1>1, <2>4 DEF FromPoint, flag
  <2>5. ASSUME NEW n \in DOMAIN points[t],
               n >= since[r][t],
               flag.triggered <=> Holds(flag.row.rule, points[t][n]),
               flag.status = "ok" => Comparable(flag.row.rule, points[t][n])
        PROVE  FromPoint(r, flags[r][i])'
    <3>1. n \in DOMAIN points'[t] /\ points'[t][n] = points[t][n]
      BY <1>3, <2>3
    <3> QED
      BY <1>1, <2>5, <3>1 DEF FromPoint, flag
  <2> QED
    BY <2>1, <2>4, <2>5 DEF FromPoint
<1>5. \A r \in Requests, t \in Series : since[r][t] <= Len(points'[t])
  <2> SUFFICES ASSUME NEW r \in Requests, NEW t \in Series
               PROVE  since[r][t] <= Len(points'[t])
    OBVIOUS
  <2>1. points'[t] \in Seq(Point) /\ points[t] \in Seq(Point)
    BY RecordTypes DEF TypeOK
  <2>2. since[r][t] \in Nat /\ since[r][t] <= Len(points[t])
    BY DEF FlagsHavePoints
  <2> QED
    BY <1>3, <2>1, <2>2
<1> QED
  BY <1>1, <1>4, <1>5 DEF FlagsHavePoints

\* A new flag is what its rule says of the latest point there is.
LEMMA NewFlagHasPoint ==
    ASSUME TypeOK, FlagsHavePoints, NEW r \in Requests, NEW row \in Row
    PROVE  FromPoint(r, EvaluateRule(row))
<1> DEFINE flag == EvaluateRule(row)
           s == row.rule.series
           ps == points[s]
<1>1. /\ s \in Series /\ ps \in Seq(Point) /\ since[r][s] \in Nat
      /\ since[r][s] <= Len(ps)
  BY DEF TypeOK, Row, Rule, FlagsHavePoints
<1>2. /\ flag.row = row
      /\ ps = <<>> => flag.status = "no data yet"
      /\ ps # <<>> =>
            /\ Len(ps) \in DOMAIN ps
            /\ flag.triggered <=> Holds(row.rule, ps[Len(ps)])
            /\ flag.status = "ok" => Comparable(row.rule, ps[Len(ps)])
  BY FlagOfRule
<1> HIDE DEF flag
<1>3. CASE ps = <<>>
  <2>1. Len(ps) = 0
    BY <1>3
  <2>2. since[r][s] = 0
    BY <1>1, <2>1
  <2> QED
    BY <1>2, <1>3, <2>2 DEF FromPoint, flag
<1>4. CASE ps # <<>>
  <2>1. /\ Len(ps) \in DOMAIN ps /\ Len(ps) >= since[r][s]
        /\ flag.triggered <=> Holds(flag.row.rule, ps[Len(ps)])
        /\ flag.status = "ok" => Comparable(flag.row.rule, ps[Len(ps)])
    BY <1>1, <1>2, <1>4
  <2> QED
    BY <1>2, <2>1 DEF FromPoint, flag
<1> QED
  BY <1>3, <1>4

LEMMA ReadHasPoints ==
    ASSUME TypeOK, FlagsHavePoints, NEW r \in Requests, ReadPoint(r), UNCHANGED since
    PROVE  FlagsHavePoints'
<1> DEFINE flag == EvaluateRule(Head(todo[r]))
<1>1. /\ points' = points
      /\ flags' = [flags EXCEPT ![r] = Append(flags[r], flag)]
  BY DEF ReadPoint, tables
<1>2. flag \in Flag /\ FromPoint(r, flag) /\ flags[r] \in Seq(Flag)
  BY ReadTypes, NewFlagHasPoint DEF TypeOK
<1> HIDE DEF flag
<1>3. \A q \in Requests : \A i \in DOMAIN flags'[q] : FromPoint(q, flags'[q][i])
  <2> SUFFICES ASSUME NEW q \in Requests, NEW i \in DOMAIN flags'[q]
               PROVE  FromPoint(q, flags'[q][i])
    OBVIOUS
  <2>1. CASE q # r
    BY <1>1, <2>1 DEF TypeOK, FlagsHavePoints
  <2>2. CASE q = r
    <3>1. flags'[q] = Append(flags[r], flag)
      BY <1>1, <2>2 DEF TypeOK
    <3>2. flags[r] \in Seq(Flag) /\ DOMAIN flags[r] = 1 .. Len(flags[r])
          /\ Len(flags[r]) \in Nat
      BY <1>2
    <3>3. /\ \A k \in 1 .. Len(flags[r]) : Append(flags[r], flag)[k] = flags[r][k]
          /\ Append(flags[r], flag)[Len(flags[r]) + 1] = flag
          /\ DOMAIN Append(flags[r], flag) = 1 .. Len(flags[r]) + 1
      BY <1>2, <3>2, AppendProperties
    <3>4. i \in 1 .. Len(flags[r]) \/ i = Len(flags[r]) + 1
      BY <3>1, <3>2, <3>3
    <3> QED
      BY <1>2, <2>2, <3>1, <3>2, <3>3, <3>4 DEF FlagsHavePoints
  <2> QED
    BY <2>1, <2>2
<1> QED
  BY ZenonT(60), <1>1, <1>3 DEF FlagsHavePoints, FromPoint

-----------------------------------------------------------------------------
(* What the count may count.                                               *)

OnFlags(r) == {i \in DOMAIN flags[r] : flags[r][i].row.id \in on[r]}

LEMMA PlacesAreFinite ==
    ASSUME NEW S, NEW s \in Seq(S), NEW T, T \subseteq DOMAIN s
    PROVE  IsFiniteSet(T) /\ Cardinality(T) \in Nat
<1>1. PICK n \in Nat : DOMAIN s = 1 .. n
  OBVIOUS
<1>2. 1 \in Int /\ n \in Int
  OBVIOUS
<1>3. IsFiniteSet(1 .. n)
  BY ONLY <1>2, FS_Interval
<1>4. IsFiniteSet(T)
  BY <1>1, <1>3, FS_Subset
<1> QED
  BY <1>4, FS_CardinalityType

LEMMA OnFlagsAreFinite ==
    ASSUME TypeOK, NEW r \in Requests
    PROVE  IsFiniteSet(OnFlags(r)) /\ Cardinality(OnFlags(r)) \in Nat
<1>1. flags[r] \in Seq(Flag)
  BY DEF TypeOK
<1>2. OnFlags(r) \subseteq DOMAIN flags[r]
  BY DEF OnFlags
<1> QED
  BY <1>1, <1>2, PlacesAreFinite

LEMMA EnabledHaveIds ==
    ASSUME TypeOK
    PROVE  EnabledIds(alerts) \subseteq Ids
<1>1. \A i \in DOMAIN alerts : alerts[i].id \in Ids
  BY DEF TypeOK
<1> QED
  BY <1>1 DEF EnabledIds

LEMMA CountsStay ==
    ASSUME CountsAreFair, UNCHANGED <<todo, flags, count, on>>
    PROVE  CountsAreFair'
  BY DEF CountsAreFair, DisabledIsNotCounted

LEMMA ChangesCountsFairly ==
    ASSUME TypeOK, TypeOK', CountsAreFair, ChangesRules
    PROVE  CountsAreFair'
<1>1. UNCHANGED <<todo, flags, count>>
  BY DEF ChangesRules, AddRule, SetEnabled, locals
<1>2. EnabledIds(alerts') \subseteq Ids
  <2>1. \A i \in DOMAIN alerts' : alerts'[i].id \in Ids
    BY DEF TypeOK
  <2> QED
    BY <2>1 DEF EnabledIds
<1>3. on' = [r \in Requests |->
               IF pc[r] = "reading" THEN on[r] \cup EnabledIds(alerts') ELSE on[r]]
  BY DEF ChangesRules
<1>4. on' \in [Requests -> SUBSET Ids] /\ \A r \in Requests : on[r] \subseteq on'[r]
  BY <1>2, <1>3 DEF CountsAreFair
<1>5. ASSUME NEW r \in Requests
      PROVE  count[r] <= Cardinality({i \in DOMAIN flags[r] : flags[r][i].row.id \in on'[r]})
  <2> DEFINE later == {i \in DOMAIN flags[r] : flags[r][i].row.id \in on'[r]}
  <2>1. OnFlags(r) \subseteq later
    BY <1>4 DEF OnFlags
  <2>2. IsFiniteSet(later) /\ Cardinality(later) \in Nat
    <3>1. flags[r] \in Seq(Flag)
      BY DEF TypeOK
    <3> QED
      BY <3>1, PlacesAreFinite
  <2>3. Cardinality(OnFlags(r)) <= Cardinality(later)
    BY <2>1, <2>2, FS_Subset
  <2>4. count[r] <= Cardinality(OnFlags(r))
    BY DEF CountsAreFair, DisabledIsNotCounted, OnFlags
  <2>5. count[r] \in Nat /\ Cardinality(OnFlags(r)) \in Nat
    BY OnFlagsAreFinite DEF TypeOK
  <2> QED
    BY <2>2, <2>3, <2>4, <2>5
<1>6. \A r \in Requests : \A i \in DOMAIN todo[r] :
          todo[r][i].enabled => todo[r][i].id \in on'[r]
  BY <1>4 DEF CountsAreFair
<1> QED
  BY <1>1, <1>4, <1>5, <1>6 DEF CountsAreFair, DisabledIsNotCounted

LEMMA ListsCountsFairly ==
    ASSUME TypeOK, CountsAreFair, NEW r \in Requests, Lists(r)
    PROVE  CountsAreFair'
<1>1. /\ todo' = [todo EXCEPT ![r] = alerts]
      /\ flags' = [flags EXCEPT ![r] = <<>>]
      /\ count' = [count EXCEPT ![r] = 0]
      /\ on' = [on EXCEPT ![r] = EnabledIds(alerts)]
  BY DEF Lists, ListRules
<1>2. on' \in [Requests -> SUBSET Ids]
  BY <1>1, EnabledHaveIds DEF CountsAreFair
<1>3. ASSUME NEW q \in Requests
      PROVE  /\ \A i \in DOMAIN todo'[q] : todo'[q][i].enabled => todo'[q][i].id \in on'[q]
             /\ count'[q] <= Cardinality({i \in DOMAIN flags'[q] :
                                            flags'[q][i].row.id \in on'[q]})
  <2>1. CASE q = r
    <3>1. todo'[q] = alerts /\ flags'[q] = <<>> /\ count'[q] = 0 /\ on'[q] = EnabledIds(alerts)
      BY <1>1, <2>1 DEF TypeOK, CountsAreFair
    <3>2. {i \in DOMAIN flags'[q] : flags'[q][i].row.id \in on'[q]} = {}
      BY <3>1
    <3>3. \A i \in DOMAIN alerts : alerts[i].enabled => alerts[i].id \in EnabledIds(alerts)
      BY DEF EnabledIds
    <3> QED
      BY <3>1, <3>2, <3>3, FS_EmptySet
  <2>2. CASE q # r
    <3>1. todo'[q] = todo[q] /\ flags'[q] = flags[q] /\ count'[q] = count[q] /\ on'[q] = on[q]
      BY <1>1, <2>2 DEF TypeOK, CountsAreFair
    <3> QED
      BY <3>1 DEF CountsAreFair, DisabledIsNotCounted
  <2> QED
    BY <2>1, <2>2
<1> QED
  BY <1>2, <1>3 DEF CountsAreFair, DisabledIsNotCounted

LEMMA ReadCountsFairly ==
    ASSUME TypeOK, CountsAreFair, NEW r \in Requests, ReadPoint(r), UNCHANGED on
    PROVE  CountsAreFair'
<1> DEFINE row == Head(todo[r])
           flag == EvaluateRule(row)
<1>1. /\ todo' = [todo EXCEPT ![r] = Tail(todo[r])]
      /\ flags' = [flags EXCEPT ![r] = Append(flags[r], flag)]
      /\ count' = [count EXCEPT ![r] = IF Counted(flag) THEN count[r] + 1 ELSE count[r]]
  BY DEF ReadPoint
<1>2. flag \in Flag /\ flag.row = row /\ row \in Row
  BY ReadTypes, FlagOfRule
<1>3. /\ todo[r] \in Seq(Row) /\ todo[r] # <<>> /\ flags[r] \in Seq(Flag) /\ count[r] \in Nat
      /\ Len(flags[r]) \in Nat /\ DOMAIN flags[r] = 1 .. Len(flags[r])
  BY DEF TypeOK, ReadPoint
<1> DEFINE n == Len(flags[r]) + 1
<1>4. /\ DOMAIN flags'[r] = 1 .. n
      /\ \A i \in 1 .. Len(flags[r]) : flags'[r][i] = flags[r][i]
      /\ flags'[r][n] = flag
  <2>1. flags'[r] = Append(flags[r], flag)
    BY <1>1 DEF TypeOK
  <2> QED
    BY <1>2, <1>3, <2>1, AppendProperties
<1>5. row = todo[r][1] /\ 1 \in DOMAIN todo[r]
      /\ \A i \in DOMAIN Tail(todo[r]) :
            i + 1 \in DOMAIN todo[r] /\ Tail(todo[r])[i] = todo[r][i + 1]
  BY <1>3, HeadTailProperties, EmptySeq
<1>6. Counted(flag) => row.id \in on[r]
  <2>1. Counted(flag) => row.enabled
    BY <1>2 DEF Counted
  <2> QED
    BY <1>5, <2>1 DEF CountsAreFair
<1> HIDE DEF row, flag
<1>7. ASSUME NEW q \in Requests, NEW i \in DOMAIN todo'[q], todo'[q][i].enabled
      PROVE  todo'[q][i].id \in on[q]
  <2>1. CASE q = r
    <3>1. todo'[q] = Tail(todo[r])
      BY <1>1, <2>1 DEF TypeOK
    <3> QED
      BY <1>5, <1>7, <2>1, <3>1 DEF CountsAreFair
  <2>2. CASE q # r
    BY <1>1, <1>7, <2>2 DEF TypeOK, CountsAreFair
  <2> QED
    BY <2>1, <2>2
<1>8. count'[r] <= Cardinality({i \in DOMAIN flags'[r] : flags'[r][i].row.id \in on[r]})
  <2> DEFINE later == {i \in DOMAIN flags'[r] : flags'[r][i].row.id \in on[r]}
  <2>1. count[r] <= Cardinality(OnFlags(r))
    BY DEF CountsAreFair, DisabledIsNotCounted, OnFlags
  <2>2. IsFiniteSet(OnFlags(r)) /\ Cardinality(OnFlags(r)) \in Nat
    BY OnFlagsAreFinite
  <2>3. n \notin OnFlags(r)
    BY <1>3 DEF OnFlags
  <2>4. later = IF row.id \in on[r] THEN OnFlags(r) \cup {n} ELSE OnFlags(r)
    BY <1>2, <1>3, <1>4 DEF OnFlags
  <2>5. Cardinality(OnFlags(r) \cup {n}) = Cardinality(OnFlags(r)) + 1
    BY <2>2, <2>3, FS_AddElement
  <2>6. count'[r] = IF Counted(flag) THEN count[r] + 1 ELSE count[r]
    BY <1>1 DEF TypeOK
  <2> HIDE DEF later
  <2>7. count'[r] <= Cardinality(later)
    <3>1. CASE row.id \in on[r]
      <4>1. Cardinality(later) = Cardinality(OnFlags(r)) + 1
        BY <2>4, <2>5, <3>1
      <4> QED
        BY <1>3, <2>1, <2>2, <2>6, <4>1
    <3>2. CASE row.id \notin on[r]
      <4>1. later = OnFlags(r) /\ count'[r] = count[r]
        BY <1>6, <2>4, <2>6, <3>2
      <4> QED
        BY <2>1, <4>1
    <3> QED
      BY <3>1, <3>2
  <2> QED
    BY <2>7 DEF later
<1>9. ASSUME NEW q \in Requests, q # r
      PROVE  count'[q] <= Cardinality({i \in DOMAIN flags'[q] : flags'[q][i].row.id \in on[q]})
  <2>1. count'[q] = count[q] /\ flags'[q] = flags[q]
    BY <1>1, <1>9 DEF TypeOK
  <2> QED
    BY <2>1 DEF CountsAreFair, DisabledIsNotCounted
<1> QED
  BY <1>7, <1>8, <1>9 DEF CountsAreFair, DisabledIsNotCounted

-----------------------------------------------------------------------------
(* The invariant of AlertsHistory and what follows from it.                *)

LEMMA InitInv == HistoryInit => AlertsInv
<1> SUFFICES ASSUME HistoryInit
             PROVE  AlertsInv
  OBVIOUS
<1>1. TypeOK
  BY InitTypes DEF HistoryInit
<1>2. FlagsHavePoints
  BY DEF HistoryInit, Init, FlagsHavePoints
<1>3. CountsAreFair
  <2>1. ASSUME NEW r \in Requests
        PROVE  count[r] <= Cardinality({i \in DOMAIN flags[r] : flags[r][i].row.id \in on[r]})
    <3>1. flags[r] = <<>> /\ count[r] = 0
      BY DEF HistoryInit, Init
    <3>2. {i \in DOMAIN flags[r] : flags[r][i].row.id \in on[r]} = {}
      BY <3>1
    <3> QED
      BY <3>1, <3>2, FS_EmptySet
  <2>2. DisabledIsNotCounted
    BY <2>1 DEF DisabledIsNotCounted
  <2> QED
    BY <2>2 DEF HistoryInit, Init, CountsAreFair
<1>4. gone \subseteq used /\ RemovedStaysRemoved
  BY DEF HistoryInit, RemovedStaysRemoved
<1> QED
  BY <1>1, <1>2, <1>3, <1>4 DEF AlertsInv

LEMMA ListsInv ==
    ASSUME AlertsInv, NEW r \in Requests, Lists(r)
    PROVE  AlertsInv'
<1>1. TypeOK'
  BY ListTypes DEF AlertsInv, Lists
<1>2. FlagsHavePoints' /\ CountsAreFair'
  BY ListsHasPoints, ListsCountsFairly DEF AlertsInv
<1>3. UNCHANGED <<alerts, used, gone>>
  BY DEF Lists, ListRules, tables
<1> QED
  BY <1>1, <1>2, <1>3 DEF AlertsInv, RemovedStaysRemoved, IdsOf

LEMMA RemovesInv ==
    ASSUME AlertsInv, NEW id \in Ids, Removes(id)
    PROVE  AlertsInv'
<1>1. RulesOK' /\ IdsOf(alerts') \subseteq IdsOf(alerts) \ {id}
  BY RemoveRules, TypeParts DEF AlertsInv, Removes
<1>2. UNCHANGED <<used, points, today, locals, since, on>>
  BY DEF Removes, RemoveRule
<1>3. TypeOK' /\ FlagsHavePoints' /\ CountsAreFair'
  BY <1>1, <1>2, RuleTypes, PointsStay, CountsStay DEF AlertsInv, locals
<1>4. IdsOf(alerts) \subseteq used
  BY DEF AlertsInv, TypeOK, IdsOf
<1>5. gone' \subseteq gone \cup {id} /\ (gone' = gone \/ id \in IdsOf(alerts))
  BY DEF Removes
<1> QED
  BY <1>1, <1>2, <1>3, <1>4, <1>5 DEF AlertsInv, RemovedStaysRemoved, IdsOf

LEMMA ChangesInv ==
    ASSUME AlertsInv, ChangesRules
    PROVE  AlertsInv'
<1>1. RulesOK' /\ IdsOf(alerts') \cap gone = {} /\ used \subseteq used'
  <2>1. ASSUME NEW p \in Posts, NEW id \in Ids, AddRule(p, id)
        PROVE  RulesOK' /\ IdsOf(alerts') \cap gone = {} /\ used \subseteq used'
    BY <2>1, AddRules, TypeParts DEF AlertsInv, RemovedStaysRemoved, AddRule
  <2>2. ASSUME NEW id \in Ids, NEW enabled \in BOOLEAN, SetEnabled(id, enabled)
        PROVE  RulesOK' /\ IdsOf(alerts') \cap gone = {} /\ used \subseteq used'
    BY <2>2, SetRules, TypeParts DEF AlertsInv, RemovedStaysRemoved, SetEnabled
  <2> QED
    BY <2>1, <2>2 DEF ChangesRules
<1>2. UNCHANGED <<points, today, locals, since, gone>>
  BY DEF ChangesRules, AddRule, SetEnabled
<1>3. TypeOK' /\ FlagsHavePoints'
  BY <1>1, <1>2, RuleTypes, PointsStay DEF AlertsInv, locals
<1>4. CountsAreFair'
  BY <1>3, ChangesCountsFairly DEF AlertsInv
<1> QED
  BY <1>1, <1>2, <1>3, <1>4 DEF AlertsInv, RemovedStaysRemoved, IdsOf

LEMMA GoesOnInv ==
    ASSUME AlertsInv, GoesOn
    PROVE  AlertsInv'
<1>1. UNCHANGED <<alerts, used, since, on, gone>>
  BY DEF GoesOn, Record, Midnight, ReadPoint, tables
<1>2. TypeOK' /\ FlagsHavePoints' /\ CountsAreFair'
  <2>1. ASSUME NEW s \in Series, NEW point \in Readings[s], Record(s, point)
        PROVE  TypeOK' /\ FlagsHavePoints' /\ CountsAreFair'
    BY <1>1, <2>1, RecordTypes, RecordHasPoints, CountsStay DEF AlertsInv, Record, locals
  <2>2. CASE Midnight
    BY <1>1, <2>2, MidnightTypes, PointsStay, CountsStay DEF AlertsInv, Midnight, locals
  <2>3. ASSUME NEW r \in Requests, ReadPoint(r)
        PROVE  TypeOK' /\ FlagsHavePoints' /\ CountsAreFair'
    BY <1>1, <2>3, ReadTypes, ReadHasPoints, ReadCountsFairly DEF AlertsInv
  <2> QED
    BY <2>1, <2>2, <2>3 DEF GoesOn
<1> QED
  BY <1>1, <1>2 DEF AlertsInv, RemovedStaysRemoved, IdsOf

LEMMA NextInv ==
    ASSUME AlertsInv, [HistoryNext]_historyVars
    PROVE  AlertsInv'
<1>1. CASE UNCHANGED historyVars
  <2>1. UNCHANGED <<alerts, used, todo, flags, count, points, since, on, gone>>
    BY <1>1 DEF historyVars, vars, tables, locals
  <2>2. TypeOK'
    BY <1>1, NextTypes DEF historyVars, AlertsInv
  <2> QED
    BY <2>1, <2>2, PointsStay, CountsStay DEF AlertsInv, RemovedStaysRemoved, IdsOf
<1> QED
  BY <1>1, ListsInv, RemovesInv, ChangesInv, GoesOnInv DEF HistoryNext

THEOREM InvariantHolds == HistorySpec => []AlertsInv
<1>1. HistoryInit => AlertsInv
  BY InitInv
<1>2. AlertsInv /\ [HistoryNext]_historyVars => AlertsInv'
  BY NextInv
<1> QED
  BY <1>1, <1>2, PTL DEF HistorySpec

\* Put together from several transactions, an evaluation is never stale.
THEOREM NoFlagIsStale == HistorySpec => []FlagsAreCurrent
<1>1. AlertsInv => FlagsAreCurrent
  <2> SUFFICES ASSUME AlertsInv, NEW r \in Requests, NEW i \in DOMAIN flags[r]
               PROVE  LET flag == flags[r][i]
                          s == flag.row.rule.series
                      IN  \/ \E point \in Current(r, s) :
                                flag.triggered <=> Holds(flag.row.rule, point)
                          \/ flag.status = "no data yet" /\ since[r][s] = 0
    BY DEF FlagsAreCurrent
  <2>1. FromPoint(r, flags[r][i])
    BY DEF AlertsInv, FlagsHavePoints
  <2> QED
    BY <2>1 DEF FromPoint, Current
<1> QED
  BY <1>1, InvariantHolds, PTL

\* The badge of the page counts no rule that was off all the time.
THEOREM CountIsFair == HistorySpec => []DisabledIsNotCounted
<1>1. AlertsInv => DisabledIsNotCounted
  BY DEF AlertsInv, CountsAreFair
<1> QED
  BY <1>1, InvariantHolds, PTL

\* A removal is final, whatever toggles are under way.
THEOREM RemovalIsFinal == HistorySpec => []RemovedStaysRemoved
<1>1. AlertsInv => RemovedStaysRemoved
  BY DEF AlertsInv
<1> QED
  BY <1>1, InvariantHolds, PTL

LEMMA OppositesDisagree ==
    ASSUME NEW op1, NEW op2, NEW a \in Int, NEW b \in Int,
           {op1, op2} \in {{">=", "<"}, {">", "<="}, {"==", "!="}}
    PROVE  Compare(op1, a, b) <=> ~ Compare(op2, a, b)
<1>1. /\ Compare(">=", a, b) <=> a >= b
      /\ Compare("<", a, b) <=> a < b
  BY DEF Compare
<1>2. /\ Compare(">", a, b) <=> a > b
      /\ Compare("<=", a, b) <=> a <= b
  BY DEF Compare
<1>3. /\ Compare("==", a, b) <=> a = b
      /\ Compare("!=", a, b) <=> a # b
  BY DEF Compare
<1>4. CASE {op1, op2} = {">=", "<"}
  <2>1. (op1 = ">=" /\ op2 = "<") \/ (op1 = "<" /\ op2 = ">=")
    BY <1>4
  <2> QED
    BY <1>1, <2>1
<1>5. CASE {op1, op2} = {">", "<="}
  <2>1. (op1 = ">" /\ op2 = "<=") \/ (op1 = "<=" /\ op2 = ">")
    BY <1>5
  <2> QED
    BY <1>2, <2>1
<1>6. CASE {op1, op2} = {"==", "!="}
  <2>1. (op1 = "==" /\ op2 = "!=") \/ (op1 = "!=" /\ op2 = "==")
    BY <1>6
  <2> QED
    BY <1>3, <2>1
<1> QED
  BY <1>4, <1>5, <1>6

\* Without a new point there is one point to see, and it decides every flag.
LEMMA OnePointDecides ==
    ASSUME AlertsInv, NEW r \in Requests, NEW i \in DOMAIN flags[r],
           flags[r][i].status = "ok",
           ~ (Len(points[flags[r][i].row.rule.series])
                 > since[r][flags[r][i].row.rule.series])
    PROVE  LET rule == flags[r][i].row.rule
               ps == points[rule.series]
           IN  /\ rule \in Rule /\ ps[Len(ps)] \in Point
               /\ flags[r][i].triggered \in BOOLEAN
               /\ flags[r][i].triggered
                     <=> Compare(rule.op, ps[Len(ps)][rule.metric], rule.threshold)
<1> DEFINE flag == flags[r][i]
           rule == flag.row.rule
           s == rule.series
           ps == points[s]
<1>1. flag \in Flag
  <2>1. flags[r] \in Seq(Flag)
    BY DEF AlertsInv, TypeOK
  <2> QED
    BY <2>1, ElementOfSeq
<1>2. FromPoint(r, flag)
  BY DEF AlertsInv, FlagsHavePoints
<1>3. flag.status = "ok" /\ ~ (Len(ps) > since[r][s])
  OBVIOUS
<1> HIDE DEF flag
<1>4. rule \in Rule /\ s \in Series /\ flag.triggered \in BOOLEAN
  BY <1>1 DEF Flag, Row, Rule
<1>5. PICK n \in DOMAIN ps : /\ n >= since[r][s]
                             /\ flag.triggered <=> Holds(rule, ps[n])
                             /\ Comparable(rule, ps[n])
  BY <1>2, <1>3 DEF FromPoint
<1>6. /\ ps \in Seq(Point) /\ since[r][s] \in Nat /\ since[r][s] <= Len(ps)
      /\ Len(ps) \in Nat /\ DOMAIN ps = 1 .. Len(ps)
  BY <1>4 DEF AlertsInv, TypeOK, FlagsHavePoints
<1>7. n = Len(ps)
  BY <1>3, <1>5, <1>6
<1>8. ps[n] \in Point
  BY <1>5, <1>6, ElementOfSeq
<1>9. flag.triggered <=> Compare(rule.op, ps[n][rule.metric], rule.threshold)
  BY <1>5 DEF Holds
<1> QED
  BY <1>4, <1>7, <1>8, <1>9 DEF flag

\* Two rules that say the opposite contradict each other in an answer only if
\* their series got a point between the two reads.
THEOREM NoContradictionWithoutNews == HistorySpec => []ContradictionNeedsNewPoint
<1>1. AlertsInv => ContradictionNeedsNewPoint
  <2> SUFFICES ASSUME AlertsInv, NEW r \in Requests,
                      NEW i \in DOMAIN flags[r], NEW j \in DOMAIN flags[r],
                      Opposite(flags[r][i].row.rule, flags[r][j].row.rule),
                      flags[r][i].status = "ok", flags[r][j].status = "ok",
                      flags[r][i].triggered = flags[r][j].triggered,
                      ~ (Len(points[flags[r][i].row.rule.series])
                            > since[r][flags[r][i].row.rule.series])
               PROVE  FALSE
    BY DEF ContradictionNeedsNewPoint
  <2> DEFINE rule1 == flags[r][i].row.rule
             rule2 == flags[r][j].row.rule
             ps == points[rule1.series]
             level == ps[Len(ps)][rule1.metric]
             op1 == rule1.op
             op2 == rule2.op
             threshold == rule1.threshold
  <2>1. /\ rule1.series = rule2.series /\ rule1.metric = rule2.metric
        /\ rule1.threshold = rule2.threshold
        /\ {op1, op2} \in {{">=", "<"}, {">", "<="}, {"==", "!="}}
    BY DEF Opposite
  <2>2. /\ rule1 \in Rule /\ ps[Len(ps)] \in Point
        /\ flags[r][i].triggered \in BOOLEAN
        /\ flags[r][i].triggered <=> Compare(op1, level, threshold)
    BY OnePointDecides
  <2>3. flags[r][j].triggered <=> Compare(op2, level, threshold)
    BY <2>1, OnePointDecides
  <2>4. level \in Int /\ threshold \in Int
    BY <2>2 DEF Rule, Point
  <2> HIDE DEF level, op1, op2, threshold
  <2>5. Compare(op1, level, threshold) <=> ~ Compare(op2, level, threshold)
    BY ONLY <2>1, <2>4, OppositesDisagree
  <2> QED
    BY <2>2, <2>3, <2>5
<1> QED
  BY <1>1, InvariantHolds, PTL
=============================================================================
