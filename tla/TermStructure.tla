--------------------------- MODULE TermStructure ---------------------------
(***************************************************************************)
(* analysis.term_structure_signal for the root that has a source, the VIX: *)
(* its forward curve as of now and as of some days ago, each an answer of  *)
(* the provider reduced to its ends (services/term_structure.py), and what *)
(* is said of the change.  The other roots, GC, CL and NG, are errors of   *)
(* the signal before anything is fetched for them.                         *)
(*                                                                         *)
(* The provider is external: it answers points in any order, two of one    *)
(* expiration and points without a price among them.  Expirations and      *)
(* prices are small numbers, and the spread in percent is compared as the  *)
(* fraction it is, without its rounding.                                   *)
(***************************************************************************)
EXTENDS Integers, Sequences, FiniteSets, SequencesExt, Rankings

CONSTANTS Chains,    \* the answers of the provider considered
          Prices

Points == [expiration : Nat, price : Prices \cup {NoFigure}]

\* The fractions of a front are compared.
ASSUME ChainsAssumption == Chains \subseteq Seq(Points) /\ Prices \subseteq Nat

VARIABLES curve,     \* where the signal is
          chain,     \* the last answer of the provider
          now, prior   \* the two readings

curveVars == <<curve, chain, now, prior>>

NoReading == [structure |-> "none", front |-> 0, back |-> 0]
Structures == {"contango", "backwardation", "flat"}
Reading == [structure : Structures, front : Prices, back : Prices] \cup {NoReading}

CurveTypeOK ==
    /\ curve \in {"none", "asked", "read", "compared", "failed"}
    /\ chain \in Chains \cup {<<>>}
    /\ now \in Reading /\ prior \in Reading

CurveInit ==
    /\ curve = "none"
    /\ chain = <<>>
    /\ now = NoReading /\ prior = NoReading

-----------------------------------------------------------------------------
(* One curve.                                                              *)

Priced(answer) == Picked(answer, {i \in DOMAIN answer : answer[i].price # NoFigure})

\* Mutant: in the order of the answer.
CurveUnsorted(answer) == Priced(answer)

\* The points that have a price, by expiration.
CurveOf(answer) == RankDesc(Priced(answer), LAMBDA p : <<-p.expiration, 0>>)

\* _classify: by the ends.
Classified(points) ==
    LET front == points[1].price
        back == points[Len(points)].price
    IN  [structure |-> IF back > front THEN "contango"
                       ELSE IF back < front THEN "backwardation" ELSE "flat",
         front |-> front, back |-> back]

-----------------------------------------------------------------------------
(* The comparison.                                                         *)

\* A spread in percent needs a front.
Spread(r) == r.front # 0

Wider(r1, r2) == (r1.back - r1.front) * r2.front > (r2.back - r2.front) * r1.front

Flip(n, p) == n.structure # p.structure

\* _ts_compare
Trend(n, p) ==
    IF ~ Spread(n) \/ ~ Spread(p) \/ Flip(n, p) \/ n.structure = "flat" THEN "none"
    ELSE LET up == n.structure = "contango"
         IN  IF Wider(n, p) THEN (IF up THEN "steepening" ELSE "easing")
             ELSE IF Wider(p, n) THEN (IF up THEN "flattening" ELSE "deepening")
             ELSE "stable"

\* _ts_interpret for the VIX.
Says == [steepening |-> "complacency", flattening |-> "stress building",
         deepening |-> "stress intensifying", easing |-> "stress receding"]

VixRead(n, p) ==
    IF Flip(n, p) /\ n.structure = "backwardation" THEN "stress spike"
    ELSE IF Flip(n, p) /\ n.structure = "contango" THEN "stress resolving"
    ELSE IF Trend(n, p) \in DOMAIN Says THEN Says[Trend(n, p)] ELSE "stable"

-----------------------------------------------------------------------------

AskSignal ==
    /\ curve = "none"
    /\ curve' = "asked"
    /\ UNCHANGED <<chain, now, prior>>

\* The answer comes; fewer than two points with a price are no curve, and the
\* signal of the root an error.
ReadCurve(stage, reading) ==
    /\ chain' \in Chains
    /\ LET points == CurveOf(chain')
       IN  IF Len(points) < 2
             THEN curve' = "failed" /\ reading' = NoReading
             ELSE curve' = stage /\ reading' = Classified(points)

ReadNow ==
    /\ curve = "asked"
    /\ UNCHANGED prior
    /\ ReadCurve("read", now)

\* curve(code, date=prior_date)
ReadPrior ==
    /\ curve = "read"
    /\ UNCHANGED now
    /\ ReadCurve("compared", prior)

\* A provider that raises has the same effect.
CurveRaises ==
    /\ curve \in {"asked", "read"}
    /\ curve' = "failed"
    /\ chain' = <<>>
    /\ UNCHANGED <<now, prior>>

SendSignal ==
    /\ curve \in {"compared", "failed"}
    /\ curve' = "none"
    /\ chain' = <<>>
    /\ now' = NoReading /\ prior' = NoReading

CurveNext == AskSignal \/ ReadNow \/ ReadPrior \/ CurveRaises \/ SendSignal
=============================================================================
