----------------------------- MODULE MarketScan -----------------------------
(***************************************************************************)
(* The morning scan of the whole market: obb_layer/grouped.py walks back   *)
(* from today to the two latest sessions that the data provider answers,   *)
(* services/movers.py ranks the moves between them, and daily_hitlist of   *)
(* services/signals.py scores and ranks the largest ones.                  *)
(*                                                                         *)
(* The rows of a session are represented by the day they are of, moves by  *)
(* a small number of percent.  What follows the walk reads nothing that    *)
(* others write and is two steps.                                           *)
(***************************************************************************)
EXTENDS Integers, Sequences, FiniteSets, SequencesExt, Rankings

CONSTANTS Lookback,    \* days
          Tickers,     \* in the order of the provider's answer
          Volume,      \* their dollar volume
          Moves, Extras,   \* percent; points of catalyst and smart money
          TopN, MinMove, ScanDepth, HitLimit,
          NoRows

VARIABLES scan,       \* where the scan is
          weekday,    \* of today, 0 is Monday
          back,       \* d, in days before today
          rows,       \* rows of the latest fetch
          found,      \* the sessions found
          failing,    \* last_error is not None
          void,       \* the days that were asked for in vain
          move,       \* move[t]: the change between the sessions, in percent
          extra,      \* extra[t]: the points of its enrichment
          hits        \* the hit list

scanVars == <<scan, weekday, back, rows, found, failing, void, move, extra, hits>>

Count == 2
Days == 0 .. Lookback - 1
Session == [day : Days, of : Days]
Names == {Tickers[i] : i \in DOMAIN Tickers}

\* Tickers are listed once; figures are numbers; of its grades and of its insiders
\* a ticker gets a point at most.
ASSUME ScanAssumption ==
    /\ Lookback \in Nat /\ NoRows \notin Nat
    /\ Tickers \in Seq(Names)
    /\ \A i, j \in DOMAIN Tickers : Tickers[i] = Tickers[j] => i = j
    /\ \A t \in Names : Volume[t] \in Int
    /\ Moves \subseteq Int /\ Extras \subseteq -2 .. 2
    /\ {TopN, MinMove, ScanDepth, HitLimit} \subseteq Nat \ {0}

Hit == [ticker : Names, dir : {"up", "down"}, move : Int, score : Int,
        bias : {"long", "short", "neutral"}, confluence : BOOLEAN]

ScanTypeOK ==
    /\ scan \in {"none", "walking", "ranking", "listed", "unavailable", "refused"}
    /\ weekday \in 0 .. 6
    /\ back \in 0 .. Lookback
    /\ rows \in Days \cup {NoRows}
    /\ found \in Seq(Session) /\ Len(found) <= Count
    /\ failing \in BOOLEAN
    /\ void \subseteq Days
    /\ hits \in Seq(Hit)

ScanInit ==
    /\ scan = "none"
    /\ weekday = 0 /\ back = 0
    /\ rows = NoRows
    /\ found = <<>>
    /\ failing = FALSE
    /\ void = {}
    /\ move = <<>> /\ extra = <<>>
    /\ hits = <<>>

-----------------------------------------------------------------------------
(* recent_trading_days.                                                    *)

AskHits ==
    /\ scan = "none"
    /\ scan' = "walking"
    /\ weekday' \in 0 .. 6
    /\ UNCHANGED <<back, rows, found, failing, void, move, extra, hits>>

IsWeekday(d) == (weekday - d) % 7 < 5

Walking == scan = "walking" /\ back < Lookback /\ Len(found) < Count

\* Mutant: the rows of the day before stay where they are.
RowsOfFailureKept == rows

RowsOfFailure == NoRows

\* One day: a weekend is passed by; a call that is refused, a RuntimeError, is
\* remembered and the day passed by.
WalkDay ==
    /\ Walking
    /\ back' = back + 1
    /\ IF ~ IsWeekday(back)
         THEN UNCHANGED <<rows, found, failing, void>>
         ELSE /\ \E outcome \in {"rows", "empty", "error"} :
                    /\ rows' = CASE outcome = "rows" -> back
                                 [] outcome = "empty" -> NoRows
                                 [] outcome = "error" -> RowsOfFailure
                    /\ failing' = (failing \/ outcome = "error")
                    /\ void' = IF outcome = "rows" THEN void ELSE void \cup {back}
              /\ found' = IF rows' = NoRows THEN found
                          ELSE Append(found, [day |-> back, of |-> rows'])
    /\ UNCHANGED <<scan, weekday, move, extra, hits>>

\* Any other exception, as of an answer that is no JSON, ends the walk whatever it
\* has found, and movers() with it.
WalkBreaks ==
    /\ Walking /\ IsWeekday(back)
    /\ scan' = "unavailable"
    /\ UNCHANGED <<weekday, back, rows, found, failing, void, move, extra, hits>>

\* Without a session the walk raises its last error, and movers() raises with
\* fewer than two; the hit list is then empty and says why.
TooFew ==
    /\ scan = "walking" /\ ~ Walking
    /\ Len(found) < Count
    /\ scan' = IF found = <<>> /\ failing THEN "refused" ELSE "unavailable"
    /\ UNCHANGED <<weekday, back, rows, found, failing, void, move, extra, hits>>

-----------------------------------------------------------------------------
(* compute_movers, over what passes its floors.                            *)

Abs(n) == IF n < 0 THEN -n ELSE n

Ascending(ts, m) == RankDesc(ts, LAMBDA t : <<-m[t], 0>>)

LastOnes(n, ts) == SubSeq(ts, IF n < Len(ts) THEN Len(ts) - n + 1 ELSE 1, Len(ts))

Movers(ts, m) ==
    [gainers |-> Reverse(LastOnes(TopN, Ascending(ts, m))),
     losers |-> UpTo(TopN, Ascending(ts, m)),
     active |-> UpTo(TopN, RankDesc(ts, LAMBDA t : <<Volume[t], 0>>))]

-----------------------------------------------------------------------------
(* daily_hitlist.                                                          *)

\* hitlist_candidates: the first list a ticker is in gives its direction.
Candidates(ts, m) ==
    LET lists == Movers(ts, m)
        tagged == [i \in DOMAIN lists.gainers |-> <<lists.gainers[i], "up">>]
               \o [i \in DOMAIN lists.losers |-> <<lists.losers[i], "down">>]
               \o [i \in DOMAIN lists.active |->
                     <<lists.active[i], IF m[lists.active[i]] >= 0 THEN "up" ELSE "down">>]
    IN  Picked(tagged, Firsts([i \in DOMAIN tagged |-> tagged[i][1]]))

\* The largest moves, from MinMove on.
Scanned(ts, m) ==
    LET cs == Candidates(ts, m)
        large == Picked(cs, {i \in DOMAIN cs : Abs(m[cs[i][1]]) >= MinMove})
    IN  UpTo(ScanDepth, RankDesc(large, LAMBDA c : <<Abs(m[c[1]]), 0>>))

\* score_candidate: the day's move counts two.
MovePoints(n) == IF n > 0 THEN 2 ELSE IF n < 0 THEN -2 ELSE 0

Score(c, m, x) ==
    LET points == MovePoints(m[c[1]])
        score == points + x[c[1]]
    IN  [ticker |-> c[1], dir |-> c[2], move |-> m[c[1]], score |-> score,
         bias |-> IF score >= 2 THEN "long" ELSE IF score <= -2 THEN "short" ELSE "neutral",
         confluence |-> \/ points > 0 /\ x[c[1]] > 0
                        \/ points < 0 /\ x[c[1]] < 0]

\* Mutant: the score is not taken for its size.
HitKeySigned(h) == <<(IF h.confluence THEN 100 ELSE 0) + h.score, Abs(h.move)>>

\* rank_hitlist: confluence, then |score|, then |move|, as a pair.
HitKey(h) == <<(IF h.confluence THEN 100 ELSE 0) + Abs(h.score), Abs(h.move)>>

HitList(ts, m, x) ==
    LET cs == Scanned(ts, m)
    IN  UpTo(HitLimit, RankDesc([i \in DOMAIN cs |-> Score(cs[i], m, x)], HitKey))

\* The locals of the walk are gone, and with them, here, what day it was.
WalkIsOver ==
    /\ weekday' = 0 /\ back' = 0
    /\ rows' = NoRows
    /\ found' = <<>>
    /\ failing' = FALSE
    /\ void' = {}

\* movers() has its two sessions.
Compare ==
    /\ scan = "walking" /\ ~ Walking
    /\ Len(found) = Count
    /\ scan' = "ranking"
    /\ WalkIsOver
    /\ UNCHANGED <<move, extra, hits>>

ListHits ==
    /\ scan = "ranking"
    /\ scan' = "listed"
    /\ \E passing \in SUBSET Names :
          LET ts == Among(Tickers, passing)
          IN  /\ move' \in [passing -> Moves]
              /\ extra' \in [passing -> Extras]
              /\ hits' = HitList(ts, move', extra')
    /\ UNCHANGED <<weekday, back, rows, found, failing, void>>

SendHits ==
    /\ scan \in {"listed", "unavailable", "refused"}
    /\ scan' = "none"
    /\ WalkIsOver
    /\ move' = <<>> /\ extra' = <<>>
    /\ hits' = <<>>

ScanNext == AskHits \/ WalkDay \/ WalkBreaks \/ TooFew \/ Compare \/ ListHits \/ SendHits
=============================================================================
