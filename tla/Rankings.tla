------------------------------ MODULE Rankings ------------------------------
(***************************************************************************)
(* How the services pick and order rows: Python's list comprehensions with *)
(* a condition, its stable sort by a key in descending order, and a slice  *)
(* of the first ones.                                                      *)
(***************************************************************************)
EXTENDS Integers, Sequences, FiniteSets

CONSTANT NoFigure   \* None

ASSUME NoFigureAssumption == NoFigure \notin Int

\* The elements of s at the indices in I, in their order.
Picked(s, I) ==
    [p \in 1 .. Cardinality(I) |-> s[CHOOSE i \in I : Cardinality({j \in I : j <= i}) = p]]

\* [x for x in s if x in S]
Among(s, S) == Picked(s, {i \in DOMAIN s : s[i] \in S})

\* The indices of s where an element is met for the first time.
Firsts(s) == {i \in DOMAIN s : \A j \in 1 .. i - 1 : s[j] # s[i]}

\* Keys are pairs and compare like Python's tuples.
Above(k1, k2) == k1[1] > k2[1] \/ (k1[1] = k2[1] /\ k1[2] > k2[2])

\* The rows by their keys k: equal rows keep their order.
Ranked(rows, k) ==
    LET Ahead(j, i) == Above(k[j], k[i]) \/ (j < i /\ ~ Above(k[i], k[j]))
        Place(i) == 1 + Cardinality({j \in DOMAIN rows : Ahead(j, i)})
    IN  [p \in DOMAIN rows |-> rows[CHOOSE i \in DOMAIN rows : Place(i) = p]]

\* sorted(rows, key=Key, reverse=True)
RankDesc(rows, Key(_)) == Ranked(rows, [i \in DOMAIN rows |-> Key(rows[i])])

\* rows[: max(1, limit)]
UpTo(limit, rows) ==
    LET n == IF limit > 1 THEN limit ELSE 1
    IN  SubSeq(rows, 1, IF n < Len(rows) THEN n ELSE Len(rows))

\* sector_rotation: (change is not None, change or 0).
WeekKey(change) == IF change = NoFigure THEN <<0, 0>> ELSE <<1, change>>

\* RANK of the labels that market_conviction gives, an error below all.
LabelRank(ok, score) ==
    IF ~ ok THEN -1 ELSE IF score >= 2 THEN 3 ELSE IF score <= -2 THEN 1 ELSE 2

\* The screens: (RANK, score or -99), for which 0 is as good as None.
ScreenKey(ok, score) ==
    <<LabelRank(ok, score), IF score \in {0, NoFigure} THEN -99 ELSE score>>
=============================================================================
