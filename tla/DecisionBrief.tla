--------------------------- MODULE DecisionBrief ---------------------------
(***************************************************************************)
(* decision_brief.brief: one call asks every service about one symbol, one *)
(* after the other, and puts the answers together.  Seconds to minutes may *)
(* pass between two of the calls, in which the market moves, caches expire *)
(* and other clients remove the instrument; and every call may raise.      *)
(*                                                                         *)
(* One request is followed from its beginning to its answer.  A section    *)
(* holds what the service returned, of which the brief shows a part.       *)
(***************************************************************************)
EXTENDS Conviction, FiniteSets

CONSTANTS Requests,   \* the requests that may be made
          Worlds,     \* what the providers may answer
          MaxMoves,   \* how often that may change during the request
          MaxErrors   \* how many sections may fail

Assets == {"equity", "crypto", "forex", "futures"}

\* asset is the one asked for or inferred (an ETF takes the path of an equity);
\* fmp and llm tell which keys are configured, cot whether the instrument has a
\* COT code, pair how the USD figures in it.
Request == [asset : Assets, fmp : BOOLEAN, llm : BOOLEAN,
            cot : BOOLEAN, pair : Pairs]

ASSUME RequestsAssumption == Requests \subseteq Request
ASSUME WorldsAssumption == Worlds \subseteq World
ASSUME BoundsAssumption == MaxMoves \in Nat /\ MaxErrors \in Nat

VARIABLES request,   \* the request, constant
          tracked,   \* the symbol is in the registry
          world,     \* what the providers, or the caches before them, answer now
          moves,     \* how often that has changed
          pc,        \* where the request is
          inst,      \* the brief has found or made an instrument
          macro,     \* the regime that frames the brief
          todo,      \* the sections still to be asked for
          sections,  \* what was answered, None for a section without answer
          errors     \* the sections that raised

vars == <<request, tracked, world, moves, pc, inst, macro, todo, sections, errors>>

Names == {"conviction", "setup", "smart_money", "filings", "brief",
          "positioning", "volatility", "news", "news_pulse"}

Market == request.asset \in {"crypto", "forex"}

Init ==
    /\ request \in Requests
    /\ tracked \in BOOLEAN
    /\ world \in Worlds
    /\ moves = 0
    /\ pc = "resolve"
    /\ inst = FALSE
    /\ macro = None
    /\ todo = {}
    /\ sections = [n \in Names |-> None]
    /\ errors = {}

-----------------------------------------------------------------------------
(* The beginning of the brief.                                             *)

\* The sections of the asset; those about an instrument need one.
Plan ==
    {"news_pulse"}
      \cup (IF request.asset = "equity"
              THEN {"conviction", "setup", "smart_money", "filings"} ELSE {})
      \cup (IF Market THEN {"setup"} ELSE {})
      \cup (IF Market /\ inst THEN {"conviction"} ELSE {})
      \cup (IF request.asset = "futures" /\ inst THEN {"brief"} ELSE {})
      \cup (IF request.asset = "futures" /\ inst /\ request.cot
              THEN {"positioning"} ELSE {})
      \cup (IF inst THEN {"volatility", "news"} ELSE {})

Resolve ==
    /\ pc = "resolve"
    /\ inst' = tracked
    /\ pc' = IF request.asset = "equity" /\ ~ tracked THEN "ensure" ELSE "macro"
    /\ UNCHANGED <<request, tracked, world, moves, macro, todo, sections, errors>>

\* A share that is not tracked is added to the registry, if that succeeds.
Ensure ==
    /\ pc = "ensure"
    /\ \/ tracked' = TRUE /\ inst' = TRUE
       \/ UNCHANGED <<tracked, inst>>
    /\ pc' = "macro"
    /\ UNCHANGED <<request, world, moves, macro, todo, sections, errors>>

\* regime() catches whatever its inputs raise.
ReadMacro ==
    /\ pc = "macro"
    /\ macro' = Regime(world)
    /\ todo' = Plan
    /\ pc' = "sections"
    /\ UNCHANGED <<request, tracked, world, moves, inst, sections, errors>>

-----------------------------------------------------------------------------
(* The sections.                                                           *)

\* The regime is cached: it is the one of the frame or, once that has expired,
\* the one of the moment.
RegimesRead == {macro, Regime(world)}

EquityVerdicts ==
    {EquityVerdict(IF request.fmp THEN world ELSE Unfunded(world), r) :
       r \in RegimesRead}

\* The brain's vote in a setup is 0 if the brain raises.
Contexts == {0} \cup {ContextLean(v.conviction) : v \in EquityVerdicts}

SetupAnswers ==
    IF ~ request.fmp THEN {SetupDisabled}
    ELSE IF request.asset = "equity" THEN {TradeSetup(world, c) : c \in Contexts}
    ELSE {MarketSetup(world)}

ConvictionAnswers ==
    IF request.asset = "equity" THEN EquityVerdicts
    ELSE {MarketVerdict(world, r, request.pair) : r \in RegimesRead}

\* What a section may hold if its call returns.  Disabled or empty smart money,
\* filings and news leave no section; the details of some do not matter here.
Answers(n) ==
    IF n = "conviction" THEN ConvictionAnswers
    ELSE IF n = "setup" THEN SetupAnswers
    ELSE IF n = "smart_money" THEN {IF request.fmp THEN "read" ELSE None}
    ELSE IF n = "filings" THEN IF request.fmp THEN {"read", None} ELSE {None}
    ELSE IF n = "volatility" THEN {[regime |-> world.vol]}
    ELSE IF n = "news" THEN {IF world.news = None THEN None ELSE "read"}
    ELSE {"read"}

\* These resolve the instrument again, which may be gone.
NeedsRow(n) ==
    \/ n \in {"brief", "positioning", "volatility", "news"}
    \/ n = "conviction" /\ Market

\* conviction comes before setup for an equity and after it otherwise.
Turn(n) ==
    IF n = "conviction" THEN IF request.asset = "equity" THEN 1 ELSE 3
    ELSE [setup |-> 2, smart_money |-> 3, filings |-> 4, brief |-> 3,
          positioning |-> 4, volatility |-> 5, news |-> 6, news_pulse |-> 7][n]

IsNext(n) == pc = "sections" /\ n \in todo /\ \A m \in todo : Turn(n) <= Turn(m)

Finish(n, answer) ==
    /\ sections' = [sections EXCEPT ![n] = answer]
    /\ todo' = todo \ {n}
    /\ UNCHANGED <<request, world, moves, pc, inst, macro, errors>>

Answer(n) ==
    /\ IsNext(n)
    /\ n # "news_pulse"
    /\ NeedsRow(n) => tracked
    /\ \E answer \in Answers(n) : Finish(n, answer)
    /\ UNCHANGED tracked

\* Mutant: grab lets the exception through.
FailUncaught(n) ==
    /\ IsNext(n)
    /\ Cardinality(errors) < MaxErrors \/ (NeedsRow(n) /\ ~ tracked)
    /\ pc' = "raised"
    /\ UNCHANGED <<request, tracked, world, moves, inst, macro, todo, sections, errors>>

\* grab notes the exception and the brief goes on.
Fail(n) ==
    /\ IsNext(n)
    /\ Cardinality(errors) < MaxErrors \/ (NeedsRow(n) /\ ~ tracked)
    /\ errors' = errors \cup {n}
    /\ todo' = todo \ {n}
    /\ UNCHANGED <<request, tracked, world, moves, pc, inst, macro, sections>>

\* The rule-based direction, or that of the language model, if one is
\* configured, answers, and there are headlines to show it.
PulseAnswer(polarity, bias) ==
    [direction : {Blend(polarity, bias)}, engine : {"rule-based"},
     polarity : {polarity}, technical : {bias}]
      \cup (IF request.llm /\ polarity # None
              THEN [direction : Directions, engine : {"llm"},
                    polarity : {polarity}, technical : {bias}]
              ELSE {})

\* pulse resolves the symbol again, and adds a share that is gone once more;
\* it scores the headlines of the instrument, without one those of the general
\* feed, and none if the feed raises; it reads the setup a second time, and
\* goes on without it if that raises.
Pulse ==
    /\ IsNext("news_pulse")
    /\ \E added \in IF request.asset = "equity" THEN {tracked, TRUE} ELSE {tracked},
          bias \in {None} \cup (IF request.asset = "futures" THEN {}
                                  ELSE {s.bias : s \in SetupAnswers}) :
          \E polarity \in {None, IF added THEN world.news ELSE world.wire} :
              /\ \E answer \in PulseAnswer(polarity, bias) :
                    Finish("news_pulse", answer)
              /\ tracked' = added

Compose ==
    /\ pc = "sections"
    /\ todo = {}
    /\ pc' = "done"
    /\ UNCHANGED <<request, tracked, world, moves, inst, macro, todo, sections, errors>>

-----------------------------------------------------------------------------
(* What happens around the request.                                        *)

\* The market moves, a provider fails or recovers, headlines age.
Move(w) ==
    /\ pc # "done"
    /\ moves < MaxMoves
    /\ w # world
    /\ world' = w
    /\ moves' = moves + 1
    /\ UNCHANGED <<request, tracked, pc, inst, macro, todo, sections, errors>>

\* Another client removes the instrument.
Remove ==
    /\ pc # "done"
    /\ tracked
    /\ tracked' = FALSE
    /\ UNCHANGED <<request, world, moves, pc, inst, macro, todo, sections, errors>>

Step ==
    \/ Resolve
    \/ Ensure
    \/ ReadMacro
    \/ \E n \in Names : Answer(n) \/ Fail(n)
    \/ Pulse
    \/ Compose

Next == Step \/ (\E w \in Worlds : Move(w)) \/ Remove

SafeSpec == Init /\ [][Next]_vars

\* The thread of the request runs on: its calls end, by their timeouts at the
\* latest.
Spec == SafeSpec /\ WF_vars(Step)

-----------------------------------------------------------------------------
(* The answer.                                                             *)

Fund == FundamentalLean(sections["conviction"])
Tech == TechnicalLean(sections["setup"])
News == PulseLean(sections["news_pulse"])

Class == ConflictClass(Fund, Tech, News)

Strained ==
    \/ sections["setup"] # None /\ sections["setup"].stretched
    \/ /\ sections["volatility"] # None
       /\ sections["volatility"].regime \in {"stressed", "elevated"}

Absent(n) == sections[n] = None /\ n \notin errors

\* Mutant: a conviction that was not attempted is not explained.
SkippedWithoutConviction ==
    IF ~ inst
      THEN {"volatility", "news"}
             \cup (IF request.asset = "futures" THEN {"brief", "positioning"} ELSE {})
      ELSE {n \in {"volatility", "news"} : Absent(n)}

\* The sections explained in "skipped".
Skipped ==
    IF ~ inst
      THEN {"volatility", "news"}
             \cup (IF Market THEN {"conviction"} ELSE {})
             \cup (IF request.asset = "futures" THEN {"brief", "positioning"} ELSE {})
      ELSE {n \in {"volatility", "news"} : Absent(n)}
             \cup {n \in {"positioning"} :
                     request.asset = "futures" /\ Absent(n) /\ ~ request.cot}
             \cup {n \in {"conviction"} : Market /\ Absent(n)}

\* The sections the module's header promises for the asset.
Offered ==
    {"volatility", "news", "news_pulse"}
      \cup (IF request.asset = "futures" THEN {"brief", "positioning"}
                                         ELSE {"conviction", "setup"})
      \cup (IF request.asset = "equity" THEN {"smart_money", "filings"} ELSE {})

-----------------------------------------------------------------------------
(* Properties.                                                             *)

ConvictionRead ==
    [conviction : Labels, score : (-5 .. 5) \cup {None}]
SetupRead ==
    [bias : {"long", "short", "neutral", None}, score : -8 .. 8,
     context : Votes, stretched : BOOLEAN]
VolRegimes == {"calm", "normal", "elevated", "stressed", None}
PulseRead ==
    [direction : Directions, engine : {"rule-based", "llm"},
     polarity : (-2 .. 2) \cup {None},
     technical : {"long", "short", "neutral", None}]

\* An answer is never taken for a missing one.
ASSUME AnswersAssumption ==
    None \notin ConvictionRead \cup SetupRead \cup PulseRead
                   \cup [regime : VolRegimes] \cup {"read", "long", "short"}

TypeOK ==
    /\ request \in Requests
    /\ tracked \in BOOLEAN
    /\ world \in Worlds
    /\ moves \in 0 .. MaxMoves
    /\ pc \in {"resolve", "ensure", "macro", "sections", "done"}
    /\ inst \in BOOLEAN
    /\ macro \in Regimes \cup {None}
    /\ todo \subseteq Names
    /\ errors \subseteq Names
    /\ DOMAIN sections = Names
    /\ sections["conviction"] \in ConvictionRead \cup {None}
    /\ sections["setup"] \in SetupRead \cup {None}
    /\ sections["news_pulse"] \in PulseRead \cup {None}
    /\ sections["volatility"] \in [regime : VolRegimes] \cup {None}

\* An agent that reads a brief can tell what is missing from it and why: each
\* section promised for the asset is answered, reported in "errors" or explained
\* in "skipped", and only one of the three, whatever fails and whoever removes
\* the instrument meanwhile.  Smart money and filings are another matter.
EverySectionAccounted ==
    pc = "done" =>
        \A n \in Offered \ {"smart_money", "filings"} :
            /\ sections[n] # None \/ n \in errors \/ n \in Skipped
            /\ ~ (sections[n] # None /\ n \in errors)
            /\ ~ (n \in Skipped /\ (sections[n] # None \/ n \in errors))

\* A setup contains the brain's conviction as a vote, so a setup that goes
\* against a conviction with a label stands on three points of its own at least,
\* when both have read the same conviction.
OppositionOutweighed ==
    LET c == sections["conviction"]
        s == sections["setup"]
    IN  /\ pc = "done"
        /\ request.asset = "equity"
        /\ Class = "fundamental_conflict"
        /\ ContextLean(c.conviction) # 0
        /\ ContextLean(c.conviction) = s.context
        => (s.score - s.context) * Tech >= 3

\* No failure sinks the brief: every request is answered.
AlwaysAnswered == <>(pc = "done")

\* What the note of the class says, "technical, fundamental and news reads
\* agree": the headlines read for the symbol do not oppose its setup.
AlignedReadsAgree ==
    pc = "done" /\ Class = "aligned" /\ sections["news_pulse"] # None =>
        ~ Opposed(NewsLean(sections["news_pulse"].polarity), Tech)

-----------------------------------------------------------------------------
(* The strengthening that the proofs rest on.                              *)

\* The bookkeeping of brief: a section is planned, waits, and is then answered
\* or has raised; only smart money, filings and news may leave nothing.
Accounting ==
    /\ pc \in {"resolve", "ensure", "macro"} =>
          todo = {} /\ errors = {} /\ \A n \in Names : sections[n] = None
    /\ pc \in {"sections", "done"} =>
          /\ todo \cup errors \subseteq Plan
          /\ \A n \in Names \ Plan : sections[n] = None
          /\ \A n \in todo \cup errors : sections[n] = None
          /\ todo \cap errors = {}
          /\ \A n \in Plan \ (todo \cup errors \cup {"smart_money", "filings", "news"}) :
                sections[n] # None
    /\ pc = "done" => todo = {}

\* A label goes with the sign of its score.
LabelsFollowScores ==
    LET c == sections["conviction"]
    IN  c # None =>
          /\ c.conviction = "constructive" => c.score \in 1 .. 5
          /\ c.conviction = "cautious" => c.score \in -5 .. -1

BiasFollowsScore ==
    LET s == sections["setup"]
    IN  s # None => s.bias \in {None, Bias(s.score)}

BriefInv ==
    TypeOK /\ Accounting /\ LabelsFollowScores /\ BiasFollowsScore
=============================================================================
