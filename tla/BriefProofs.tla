---------------------------- MODULE BriefProofs ----------------------------
(***************************************************************************)
(* Proofs about the decision brief, for any requests, any answers of the   *)
(* providers and any number of changes and failures.                       *)
(***************************************************************************)
EXTENDS DecisionBrief, TLAPS

(***************************************************************************)
(* The judgements.                                                         *)
(***************************************************************************)

LEMMA NoneIsNoNumber == \A v \in Votes \cup (-2 .. 2) \cup (-8 .. 8) : v # None
BY NoneAssumption DEF Votes

LEMMA RegimeType == ASSUME NEW w \in World PROVE Regime(w) \in Regimes
BY DEF Regime, Regimes

LEMMA LeanTypes ==
    /\ \A r \in Regimes \cup {None} : MacroLean(r) \in Votes
    /\ \A l \in Labels : ContextLean(l) \in Votes
    /\ \A v \in Reading : Vote(v) \in Votes
BY DEF MacroLean, ContextLean, Vote, Votes, Reading

\* The verdict on a share has a score within five votes, and a label on the side
\* of its score.
LEMMA EquityVerdictType ==
    ASSUME NEW w, {w.pe, w.dcf, w.quality, w.growth, w.analyst} \subseteq Reading,
           NEW r \in Regimes \cup {None}
    PROVE  LET v == EquityVerdict(w, r)
           IN  /\ v \in ConvictionRead
               /\ v.conviction = "constructive" => v.score \in 1 .. 5
               /\ v.conviction = "cautious" => v.score \in -5 .. -1
<1>1. /\ Vote(Valuation(w)) \in Votes
      /\ Vote(w.quality) \in Votes
      /\ Vote(w.growth) \in Votes
      /\ Vote(w.analyst) \in Votes
  BY LeanTypes DEF Valuation
<1>2. MacroLean(r) \in Votes
  BY LeanTypes
<1>3. EquityScore(w, r) \in -5 .. 5
  BY <1>1, <1>2 DEF EquityScore, Votes
<1> QED
  BY <1>3 DEF EquityVerdict, EquityLabel, ConvictionRead, Labels

LEMMA MarketVerdictType ==
    ASSUME NEW w \in World, NEW r \in Regimes \cup {None}, NEW u \in Pairs
    PROVE  LET v == MarketVerdict(w, r, u)
           IN  /\ v \in ConvictionRead
               /\ v.conviction = "constructive" => v.score \in 1 .. 5
               /\ v.conviction = "cautious" => v.score \in -5 .. -1
<1>1. MomentumVote(w) \in Votes
  BY LeanTypes DEF World, MomentumVote, Votes
<1>2. MacroLean(r) \in Votes
  BY LeanTypes
<1>3. VolVote(w.vol) \in Votes /\ UsdVote(w.usd, u) \in Votes
  <2>1. VolVote(w.vol) \in Votes
    BY DEF VolVote, Votes
  <2>2. UsdVote(w.usd, u) \in Votes
    BY DEF UsdVote, Votes
  <2> QED
    BY <2>1, <2>2
<1> DEFINE score == MomentumVote(w) + MacroLean(r) + VolVote(w.vol) + UsdVote(w.usd, u)
<1>4. score \in -4 .. 4
  BY <1>1, <1>2, <1>3 DEF Votes
<1>5. CASE ~ w.priced
  BY <1>5 DEF MarketVerdict, ConvictionRead, Labels
<1>6. CASE w.priced
  <2>1. MarketVerdict(w, r, u) = [conviction |-> MarketLabel(score), score |-> score]
    BY <1>6 DEF MarketVerdict
  <2> QED
    BY <1>4, <2>1 DEF MarketLabel, ConvictionRead, Labels
<1> QED
  BY <1>5, <1>6

LEMMA SetupTypes ==
    ASSUME NEW w \in World, NEW c \in Votes
    PROVE  /\ TradeSetup(w, c) \in SetupRead
           /\ TradeSetup(w, c).bias = Bias(TradeSetup(w, c).score)
           /\ MarketSetup(w) \in SetupRead
           /\ MarketSetup(w).bias = Bias(MarketSetup(w).score)
           /\ SetupDisabled \in SetupRead
           /\ SetupDisabled.bias = None
<1>1. /\ TrendPoints(w.trend) \in -2 .. 2
      /\ MomentumPoints(w.rsi) \in Votes
  BY DEF TrendPoints, MomentumPoints, Votes
<1>2. w.grades \in Votes /\ w.targets \in Votes /\ SmartPoints(w) \in -1 .. 2
  <2>1. w.grades \in Votes /\ w.targets \in Votes /\ w.insiders \in Votes
    BY DEF World
  <2>2. IF w.congress > 0 THEN SmartPoints(w) = w.insiders + 1
                          ELSE SmartPoints(w) = w.insiders + 0
    BY DEF SmartPoints
  <2> QED
    BY <2>1, <2>2 DEF Votes
<1> DEFINE own == TrendPoints(w.trend) + MomentumPoints(w.rsi)
           all == own + w.grades + w.targets + SmartPoints(w) + c
<1>3. own \in -8 .. 8 /\ all \in -8 .. 8
  BY <1>1, <1>2 DEF Votes
<1>4. \A n \in Int : Bias(n) \in {"long", "short", "neutral", None}
  BY DEF Bias
<1>5. 0 \in Votes /\ 0 \in -8 .. 8
  BY DEF Votes
<1> QED
  BY <1>3, <1>4, <1>5 DEF TradeSetup, MarketSetup, SetupDisabled, SetupRead

(***************************************************************************)
(* The answers of the sections.                                            *)
(***************************************************************************)

LEMMA StateTypes ==
    ASSUME TypeOK
    PROVE  /\ request \in Request
           /\ world \in World
           /\ RegimesRead \subseteq Regimes \cup {None}
<1>1. request \in Request /\ world \in World
  BY RequestsAssumption, WorldsAssumption DEF TypeOK
<1> QED
  BY <1>1, RegimeType DEF TypeOK, RegimesRead

LEMMA EquityVerdictsType ==
    ASSUME TypeOK, NEW v \in EquityVerdicts
    PROVE  /\ v \in ConvictionRead
           /\ v.conviction = "constructive" => v.score \in 1 .. 5
           /\ v.conviction = "cautious" => v.score \in -5 .. -1
<1> DEFINE w == IF request.fmp THEN world ELSE Unfunded(world)
<1>1. {w.pe, w.dcf, w.quality, w.growth, w.analyst} \subseteq Reading
  <2>1. CASE request.fmp
    BY <2>1, StateTypes DEF World
  <2>2. CASE ~ request.fmp
    <3>1. /\ w.pe = None /\ w.dcf = None /\ w.quality = None
          /\ w.growth = None /\ w.analyst = None
      BY <2>2, StateTypes DEF Unfunded, World
    <3> HIDE DEF w
    <3> QED
      BY <3>1 DEF Reading
  <2> QED
    BY <2>1, <2>2
<1>2. PICK r \in RegimesRead : v = EquityVerdict(w, r)
  BY DEF EquityVerdicts
<1> HIDE DEF w
<1> QED
  BY <1>1, <1>2, StateTypes, EquityVerdictType

LEMMA SetupAnswerTypes ==
    ASSUME TypeOK, NEW s \in SetupAnswers
    PROVE  s \in SetupRead /\ s.bias \in {None, Bias(s.score)}
<1>1. Contexts \subseteq Votes
  <2>1. ASSUME NEW v \in EquityVerdicts
        PROVE  ContextLean(v.conviction) \in Votes
    <3>1. v \in ConvictionRead
      BY EquityVerdictsType
    <3> QED
      BY <3>1, LeanTypes DEF ConvictionRead
  <2> QED
    BY <2>1 DEF Contexts, Votes
<1>2. 0 \in Votes
  BY DEF Votes
<1> QED
  BY <1>1, <1>2, StateTypes, SetupTypes DEF SetupAnswers

LEMMA AnswerTypes ==
    ASSUME TypeOK, NEW n \in Names, n # "news_pulse", NEW a \in Answers(n)
    PROVE  /\ n = "conviction" =>
                 /\ a \in ConvictionRead
                 /\ a.conviction = "constructive" => a.score \in 1 .. 5
                 /\ a.conviction = "cautious" => a.score \in -5 .. -1
           /\ n = "setup" => a \in SetupRead /\ a.bias \in {None, Bias(a.score)}
           /\ n = "volatility" => a \in [regime : VolRegimes]
           /\ n \notin {"smart_money", "filings", "news"} => a # None
<1>1. CASE n = "conviction"
  <2>1. a \in ConvictionAnswers
    BY <1>1 DEF Answers
  <2>2. request.pair \in Pairs
    BY StateTypes DEF Request
  <2>3. \/ a \in EquityVerdicts
        \/ \E r \in RegimesRead : a = MarketVerdict(world, r, request.pair)
    BY <2>1 DEF ConvictionAnswers
  <2>4. /\ a \in ConvictionRead
        /\ a.conviction = "constructive" => a.score \in 1 .. 5
        /\ a.conviction = "cautious" => a.score \in -5 .. -1
    BY <2>2, <2>3, StateTypes, EquityVerdictsType, MarketVerdictType
  <2> QED
    BY <1>1, <2>4, AnswersAssumption
<1>2. CASE n = "setup"
  <2>1. a \in SetupAnswers
    BY <1>2 DEF Answers
  <2> QED
    BY <1>2, <2>1, SetupAnswerTypes, AnswersAssumption
<1>3. CASE n = "volatility"
  <2>1. a = [regime |-> world.vol] /\ world.vol \in VolRegimes
    BY <1>3, StateTypes DEF Answers, World, VolRegimes
  <2> QED
    BY <1>3, <2>1, AnswersAssumption
<1>4. CASE n \notin {"conviction", "setup", "volatility"}
  <2>1. n \notin {"smart_money", "filings", "news"} => a = "read"
    BY <1>4 DEF Answers
  <2>2. "read" # None
    BY AnswersAssumption
  <2> QED
    BY <1>4, <2>1, <2>2
<1> QED
  BY <1>1, <1>2, <1>3, <1>4

LEMMA PulseTypes ==
    ASSUME TypeOK, NEW polarity \in (-2 .. 2) \cup {None},
           NEW bias \in {"long", "short", "neutral", None},
           NEW p \in PulseAnswer(polarity, bias)
    PROVE  p \in PulseRead
<1>1. Blend(polarity, bias) \in Directions
  BY DEF Blend, Direction, Directions
<1> QED
  BY <1>1 DEF PulseAnswer, PulseRead

(***************************************************************************)
(* The inductive invariant.                                                *)
(***************************************************************************)

LEMMA PlanNames == Plan \subseteq Names
BY DEF Plan, Names

LEMMA BriefInit == Init => BriefInv
<1> SUFFICES ASSUME Init PROVE BriefInv
  OBVIOUS
<1>1. \A n \in Names : sections[n] = None
  BY DEF Init
<1>2. {"conviction", "setup", "volatility", "news_pulse"} \subseteq Names
  BY DEF Names
<1>3. TypeOK
  <2>1. moves \in 0 .. MaxMoves /\ pc \in {"resolve", "ensure", "macro", "sections", "done"}
    BY BoundsAssumption DEF Init
  <2>2. DOMAIN sections = Names
    BY DEF Init
  <2> QED
    BY <1>1, <1>2, <2>1, <2>2 DEF Init, TypeOK
<1>4. Accounting
  BY <1>1 DEF Init, Accounting
<1> QED
  BY <1>1, <1>2, <1>3, <1>4
    DEF BriefInv, LabelsFollowScores, BiasFollowsScore

\* What steps that leave the sections alone have in common.
LEMMA SameSections ==
    ASSUME BriefInv, UNCHANGED sections, TypeOK', Accounting'
    PROVE  BriefInv'
BY DEF BriefInv, LabelsFollowScores, BiasFollowsScore

LEMMA ResolveStep == BriefInv /\ Resolve => BriefInv'
<1> SUFFICES ASSUME BriefInv, Resolve PROVE BriefInv'
  OBVIOUS
<1>1. TypeOK'
  BY DEF BriefInv, TypeOK, Resolve
<1>2. Accounting'
  BY DEF BriefInv, Accounting, Resolve
<1> QED
  BY <1>1, <1>2, SameSections DEF Resolve

LEMMA EnsureStep == BriefInv /\ Ensure => BriefInv'
<1> SUFFICES ASSUME BriefInv, Ensure PROVE BriefInv'
  OBVIOUS
<1>1. TypeOK'
  BY DEF BriefInv, TypeOK, Ensure
<1>2. Accounting'
  BY DEF BriefInv, Accounting, Ensure
<1> QED
  BY <1>1, <1>2, SameSections DEF Ensure

LEMMA ReadMacroStep == BriefInv /\ ReadMacro => BriefInv'
<1> SUFFICES ASSUME BriefInv, ReadMacro PROVE BriefInv'
  OBVIOUS
<1>1. macro' \in Regimes \cup {None}
  BY StateTypes, RegimeType DEF BriefInv, ReadMacro
<1>2. TypeOK'
  BY <1>1, PlanNames DEF BriefInv, TypeOK, ReadMacro
<1>3. Plan' = Plan
  BY DEF ReadMacro, Plan, Market
<1>4. Accounting'
  BY <1>3, PlanNames DEF BriefInv, Accounting, ReadMacro
<1> QED
  BY <1>2, <1>4, SameSections DEF ReadMacro

\* The bookkeeping of a section that is answered; only smart money, filings and
\* news may be answered with nothing.
LEMMA FinishAccounts ==
    ASSUME BriefInv, NEW n \in Names, IsNext(n), NEW a, Finish(n, a),
           n \notin {"smart_money", "filings", "news"} => a # None
    PROVE  Accounting'
<1>1. /\ pc = "sections" /\ pc' = pc /\ n \in todo
      /\ errors' = errors
      /\ todo' = todo \ {n}
      /\ Plan' = Plan
  BY DEF IsNext, Finish, Plan, Market
<1>2. /\ sections'[n] = a
      /\ \A m \in Names \ {n} : sections'[m] = sections[m]
  BY DEF Finish, BriefInv, TypeOK
<1>3. /\ todo \cup errors \subseteq Plan
      /\ n \notin errors
      /\ \A m \in Names \ Plan : sections[m] = None
      /\ \A m \in todo \cup errors : sections[m] = None
      /\ todo \cap errors = {}
      /\ \A m \in Plan \ (todo \cup errors \cup {"smart_money", "filings", "news"}) :
            sections[m] # None
  BY <1>1 DEF BriefInv, Accounting
<1>4. \A m \in Names \ Plan : sections'[m] = None
  BY <1>1, <1>2, <1>3
<1>5. \A m \in todo' \cup errors' : sections'[m] = None
  BY <1>1, <1>2, <1>3, PlanNames
<1>6. \A m \in Plan \ (todo' \cup errors' \cup {"smart_money", "filings", "news"}) :
         sections'[m] # None
  <2> SUFFICES ASSUME NEW m \in Plan \ (todo' \cup errors'),
                      m \notin {"smart_money", "filings", "news"}
               PROVE  sections'[m] # None
    OBVIOUS
  <2>1. CASE m = n
    BY <1>2, <2>1
  <2>2. CASE m # n
    BY <1>1, <1>2, <1>3, <2>2, PlanNames
  <2> QED
    BY <2>1, <2>2
<1> QED
  BY <1>1, <1>3, <1>4, <1>5, <1>6 DEF Accounting

LEMMA AnswerStep ==
    ASSUME BriefInv, NEW n \in Names, Answer(n)
    PROVE  BriefInv'
<1>1. PICK a \in Answers(n) : Finish(n, a)
  BY DEF Answer
<1>2. IsNext(n) /\ n # "news_pulse" /\ TypeOK
  BY DEF Answer, BriefInv
<1>3. /\ DOMAIN sections' = Names
      /\ sections'[n] = a
      /\ \A m \in Names \ {n} : sections'[m] = sections[m]
  BY <1>1 DEF Finish, BriefInv, TypeOK
<1>4. {"conviction", "setup", "volatility", "news_pulse"} \subseteq Names
  BY DEF Names
<1>5. /\ sections'["conviction"] \in ConvictionRead \cup {None}
      /\ LabelsFollowScores'
  BY <1>1, <1>2, <1>3, <1>4, AnswerTypes DEF BriefInv, TypeOK, LabelsFollowScores
<1>6. /\ sections'["setup"] \in SetupRead \cup {None}
      /\ BiasFollowsScore'
  BY <1>1, <1>2, <1>3, <1>4, AnswerTypes DEF BriefInv, TypeOK, BiasFollowsScore
<1>7. sections'["news_pulse"] \in PulseRead \cup {None}
  BY <1>2, <1>3, <1>4 DEF BriefInv, TypeOK
<1>8. sections'["volatility"] \in [regime : VolRegimes] \cup {None}
  BY <1>1, <1>2, <1>3, <1>4, AnswerTypes DEF TypeOK
<1>9. TypeOK'
  BY <1>1, <1>3, <1>5, <1>6, <1>7, <1>8 DEF BriefInv, TypeOK, Answer, Finish
<1>10. Accounting'
  BY <1>1, <1>2, AnswerTypes, FinishAccounts
<1> QED
  BY <1>5, <1>6, <1>7, <1>9, <1>10 DEF BriefInv

LEMMA FailStep ==
    ASSUME BriefInv, NEW n \in Names, Fail(n)
    PROVE  BriefInv'
<1>1. TypeOK'
  BY DEF BriefInv, TypeOK, Fail
<1>2. Plan' = Plan
  BY DEF Fail, Plan, Market
<1>3. Accounting'
  BY <1>2 DEF BriefInv, Accounting, Fail, IsNext
<1> QED
  BY <1>1, <1>3, SameSections DEF Fail

LEMMA PulseStep == BriefInv /\ Pulse => BriefInv'
<1> SUFFICES ASSUME BriefInv, Pulse PROVE BriefInv'
  OBVIOUS
<1>1. IsNext("news_pulse") /\ TypeOK
  BY DEF Pulse, BriefInv
<1>2. PICK added \in IF request.asset = "equity" THEN {tracked, TRUE} ELSE {tracked},
           bias \in {None} \cup (IF request.asset = "futures" THEN {}
                                   ELSE {s.bias : s \in SetupAnswers}) :
           /\ tracked' = added
           /\ \E polarity \in {None, IF added THEN world.news ELSE world.wire} :
                 \E answer \in PulseAnswer(polarity, bias) : Finish("news_pulse", answer)
  BY DEF Pulse
<1>3. PICK polarity \in {None, IF added THEN world.news ELSE world.wire} :
         \E answer \in PulseAnswer(polarity, bias) : Finish("news_pulse", answer)
  BY <1>2
<1>4. PICK p \in PulseAnswer(polarity, bias) : Finish("news_pulse", p)
  BY <1>3
<1>5. bias \in {"long", "short", "neutral", None}
  BY <1>1, <1>2, SetupAnswerTypes DEF SetupRead
<1>6. polarity \in (-2 .. 2) \cup {None}
  BY <1>1, <1>3, StateTypes DEF World
<1>7. p \in PulseRead
  BY <1>1, <1>4, <1>5, <1>6, PulseTypes
<1>8. {"conviction", "setup", "volatility", "news_pulse"} \subseteq Names
  BY DEF Names
<1>9. /\ DOMAIN sections' = Names
      /\ sections'["news_pulse"] = p
      /\ \A m \in Names \ {"news_pulse"} : sections'[m] = sections[m]
  BY <1>4, <1>8 DEF Finish, BriefInv, TypeOK
<1>10. tracked' \in BOOLEAN
  BY <1>1, <1>2 DEF TypeOK
<1>11. TypeOK'
  BY <1>4, <1>7, <1>8, <1>9, <1>10 DEF BriefInv, TypeOK, Finish
<1>12. Accounting'
  BY <1>1, <1>4, <1>7, <1>8, AnswersAssumption, FinishAccounts
<1>13. LabelsFollowScores' /\ BiasFollowsScore'
  BY <1>7, <1>8, <1>9
    DEF BriefInv, LabelsFollowScores, BiasFollowsScore
<1> QED
  BY <1>11, <1>12, <1>13 DEF BriefInv

LEMMA ComposeStep == BriefInv /\ Compose => BriefInv'
<1> SUFFICES ASSUME BriefInv, Compose PROVE BriefInv'
  OBVIOUS
<1>1. TypeOK'
  BY DEF BriefInv, TypeOK, Compose
<1>2. Plan' = Plan
  BY DEF Compose, Plan, Market
<1>3. Accounting'
  BY <1>2 DEF BriefInv, Accounting, Compose
<1> QED
  BY <1>1, <1>3, SameSections DEF Compose

LEMMA MoveStep ==
    ASSUME BriefInv, NEW w \in Worlds, Move(w)
    PROVE  BriefInv'
<1>1. moves' \in 0 .. MaxMoves
  BY BoundsAssumption DEF BriefInv, TypeOK, Move
<1>2. TypeOK'
  BY <1>1 DEF BriefInv, TypeOK, Move
<1>3. Plan' = Plan
  BY DEF Move, Plan, Market
<1>4. Accounting'
  BY <1>3 DEF BriefInv, Accounting, Move
<1> QED
  BY <1>2, <1>4, SameSections DEF Move

LEMMA RemoveStep == BriefInv /\ Remove => BriefInv'
<1> SUFFICES ASSUME BriefInv, Remove PROVE BriefInv'
  OBVIOUS
<1>1. TypeOK'
  BY DEF BriefInv, TypeOK, Remove
<1>2. Plan' = Plan
  BY DEF Remove, Plan, Market
<1>3. Accounting'
  BY <1>2 DEF BriefInv, Accounting, Remove
<1> QED
  BY <1>1, <1>3, SameSections DEF Remove

LEMMA BriefStep == BriefInv /\ [Next]_vars => BriefInv'
<1> SUFFICES ASSUME BriefInv, [Next]_vars PROVE BriefInv'
  OBVIOUS
<1>1. CASE UNCHANGED vars
  <2>1. Plan' = Plan
    BY <1>1 DEF vars, Plan, Market
  <2>2. TypeOK' /\ Accounting'
    BY <1>1, <2>1 DEF vars, BriefInv, TypeOK, Accounting
  <2> QED
    BY <1>1, <2>2, SameSections DEF vars
<1>2. CASE Step
  BY <1>2, ResolveStep, EnsureStep, ReadMacroStep, AnswerStep, FailStep,
     PulseStep, ComposeStep DEF Step
<1>3. CASE \E w \in Worlds : Move(w)
  BY <1>3, MoveStep
<1>4. CASE Remove
  BY <1>4, RemoveStep
<1> QED
  BY <1>1, <1>2, <1>3, <1>4 DEF Next

(***************************************************************************)
(* The theorems.                                                           *)
(***************************************************************************)

LEMMA BriefInvariant == SafeSpec => []BriefInv
BY BriefInit, BriefStep, PTL DEF SafeSpec

\* A brief that waits, is put together or is done has the sections of the types
\* its readers, _conflict above all, take for granted.
THEOREM BriefTypes == SafeSpec => []TypeOK
<1>1. BriefInv => TypeOK
  BY DEF BriefInv
<1> QED
  BY <1>1, BriefInvariant, PTL

\* Whatever fails and whoever removes the instrument, every section that is
\* promised for the asset, but for smart money and filings, is answered,
\* reported as an error or explained as skipped, and only one of the three.
THEOREM SectionsAccounted == SafeSpec => []EverySectionAccounted
<1>1. BriefInv => EverySectionAccounted
  <2> SUFFICES ASSUME BriefInv, pc = "done",
                      NEW n \in Offered \ {"smart_money", "filings"}
               PROVE  /\ sections[n] # None \/ n \in errors \/ n \in Skipped
                      /\ ~ (sections[n] # None /\ n \in errors)
                      /\ ~ (n \in Skipped /\ (sections[n] # None \/ n \in errors))
    BY DEF EverySectionAccounted
  <2>1. /\ errors \subseteq Plan
        /\ \A m \in Names \ Plan : sections[m] = None
        /\ \A m \in errors : sections[m] = None
        /\ \A m \in Plan \ (errors \cup {"smart_money", "filings", "news"}) :
              sections[m] # None
    BY DEF BriefInv, Accounting
  <2>2. /\ n \in Names
        /\ request.asset \in Assets
    BY StateTypes DEF Offered, Names, BriefInv, Request
  <2>3. CASE n \in Plan
    <3>1. n # "news" => sections[n] # None \/ n \in errors
      BY <2>1, <2>3
    <3>2. n \in Skipped => Absent(n)
      BY <2>2, <2>3 DEF Skipped, Plan, Market, Absent
    <3>3. n = "news" => inst
      BY <2>3 DEF Plan, Market
    <3>4. n = "news" /\ Absent(n) => n \in Skipped
      BY <3>3 DEF Skipped
    <3> QED
      BY <2>1, <3>1, <3>2, <3>4 DEF Absent
  <2>4. CASE n \notin Plan
    <3>1. sections[n] = None /\ n \notin errors
      BY <2>1, <2>2, <2>4
    <3>2. n \in Skipped
      <4>1. CASE inst
        BY <2>2, <2>4, <3>1, <4>1 DEF Offered, Plan, Market, Skipped, Absent, Assets
      <4>2. CASE ~ inst
        BY <2>2, <2>4, <4>2 DEF Offered, Plan, Market, Skipped, Assets
      <4> QED
        BY <4>1, <4>2
    <3> QED
      BY <3>1, <3>2
  <2> QED
    BY <2>3, <2>4
<1> QED
  BY <1>1, BriefInvariant, PTL

\* A setup against a labelled conviction it has itself counted stands on three
\* points of its own.
THEOREM Opposition == SafeSpec => []OppositionOutweighed
<1>1. BriefInv => OppositionOutweighed
  <2> DEFINE c == sections["conviction"]
             s == sections["setup"]
  <2> SUFFICES ASSUME BriefInv, Class = "fundamental_conflict",
                      ContextLean(c.conviction) # 0,
                      ContextLean(c.conviction) = s.context
               PROVE  (s.score - s.context) * Tech >= 3
    BY DEF OppositionOutweighed
  <2>1. Opposed(Fund, Tech)
    BY DEF Class, ConflictClass
  <2>2. c # None /\ s # None
    BY <2>1 DEF Opposed, Fund, Tech, FundamentalLean, TechnicalLean, BiasLean,
                Sign, ContextLean
  <2>3. s \in SetupRead /\ s.bias \in {None, Bias(s.score)}
    BY <2>2 DEF BriefInv, TypeOK, BiasFollowsScore
  <2>4. Tech = BiasLean(s.bias)
    BY <2>2 DEF Tech, TechnicalLean
  <2>5. CASE c.conviction = "constructive"
    <3>1. c.score \in 1 .. 5
      BY <2>2, <2>5 DEF BriefInv, LabelsFollowScores
    <3>2. Fund = 1 /\ s.context = 1
      BY <2>2, <2>5, <3>1, NoneAssumption DEF Fund, FundamentalLean, Sign, ContextLean
    <3>3. Tech = -1
      BY <2>1, <2>4, <3>2 DEF Opposed, BiasLean
    <3>4. s.score \in -8 .. 8 /\ s.score <= -2
      BY <2>3, <2>4, <3>3, AnswersAssumption DEF SetupRead, BiasLean, Bias
    <3> QED
      BY <3>2, <3>3, <3>4
  <2>6. CASE c.conviction = "cautious"
    <3>1. c.score \in -5 .. -1
      BY <2>2, <2>6 DEF BriefInv, LabelsFollowScores
    <3>2. Fund = -1 /\ s.context = -1
      BY <2>2, <2>6, <3>1, NoneAssumption DEF Fund, FundamentalLean, Sign, ContextLean
    <3>3. Tech = 1
      BY <2>1, <2>4, <3>2 DEF Opposed, BiasLean
    <3>4. s.score \in -8 .. 8 /\ s.score >= 2
      BY <2>3, <2>4, <3>3, AnswersAssumption DEF SetupRead, BiasLean, Bias
    <3> QED
      BY <3>2, <3>3, <3>4
  <2> QED
    BY <2>5, <2>6 DEF ContextLean
<1> QED
  BY <1>1, BriefInvariant, PTL
=============================================================================
