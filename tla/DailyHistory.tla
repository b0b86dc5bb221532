---------------------------- MODULE DailyHistory ----------------------------
(***************************************************************************)
(* The daily history: the pre-cache thread of app/precache.py warms the    *)
(* views over and over and ends every cycle with services/history.         *)
(* record_all, which writes at most one point per series and UTC day       *)
(* through record_snapshot_daily of app/db.py.                             *)
(*                                                                         *)
(* record_snapshot_daily reads the clock twice: for the day it looks up    *)
(* and for the timestamp of the point it inserts.  Midnight, a crash or a  *)
(* failing provider or database may come between any two steps.  The       *)
(* other warmers leave nothing the history reads but cached responses, and *)
(* a point is abstracted to its series, its day and its level.             *)
(***************************************************************************)
EXTENDS Integers, Sequences

CONSTANTS Instruments,  \* what can be tracked
          Names,        \* ids and codes
          IdOf,         \* IdOf[i]: the id of i, as futures:GC=F
          CodeOf,       \* CodeOf[i]: its short code, as GC
          Levels,       \* the readings of an instrument's volatility
          Climates,     \* the readings of the macro regime
          MaxDay,       \* bound on the days
          MaxCrashes    \* bound on the crashes

ASSUME NamesAssumption ==
    /\ IdOf \in [Instruments -> Names]
    /\ CodeOf \in [Instruments -> Names]
ASSUME BoundsAssumption == MaxDay \in Nat /\ MaxCrashes \in Nat

VARIABLES day,      \* the UTC date
          tracked,  \* the instruments in the registry
          points,   \* points[s]: the rows of series s, oldest first
          phase,    \* where the thread is in its cycle
          step,     \* where it is in record_snapshot_daily
          todo,     \* readings of the present phase not yet recorded
          current,  \* the reading being recorded
          dayRead,  \* the day it looks up
          tsRead,   \* the day of the timestamp it inserts
          crashes   \* number of crashes so far

clock == <<day, tracked, crashes>>
recorder == <<phase, step, todo, current, dayRead, tsRead>>
vars == <<clock, points, recorder>>

Days == 0 .. MaxDay

VolSeries(n) == <<"vol", n>>
Macro == <<"regime", "macro">>
AllSeries == {VolSeries(n) : n \in Names} \cup {Macro}

Readings == [series : AllSeries, level : Levels \cup Climates]
NoReading == [series |-> Macro, level |-> "none"]

Phases == {"down", "waiting", "listing", "vol", "judging", "macro"}

TypeOK ==
    /\ day \in Days
    /\ tracked \subseteq Instruments
    /\ points \in [AllSeries -> Seq([day : Days, level : Levels \cup Climates])]
    /\ phase \in Phases
    /\ step \in {"between", "dated", "stamped"}
    /\ todo \subseteq Readings
    /\ step # "between" => phase \in {"vol", "macro"} /\ current \in todo
    /\ dayRead \in Days
    /\ tsRead \in Days
    /\ crashes \in 0 .. MaxCrashes

Rest ==
    /\ step' = "between"
    /\ current' = NoReading
    /\ dayRead' = 0
    /\ tsRead' = 0

Init ==
    /\ day = 0
    /\ tracked \in SUBSET Instruments
    /\ points = [s \in AllSeries |-> <<>>]
    /\ phase = "down"
    /\ step = "between"
    /\ todo = {}
    /\ current = NoReading
    /\ dayRead = 0
    /\ tsRead = 0
    /\ crashes = 0

-----------------------------------------------------------------------------
(* Around the thread.                                                      *)

Midnight ==
    /\ day < MaxDay
    /\ day' = day + 1
    /\ UNCHANGED <<tracked, crashes, points, recorder>>

\* A user adds an instrument to the registry or removes one.
Retrack ==
    /\ \E i \in Instruments :
          tracked' \in {tracked \cup {i}, tracked \ {i}}
    /\ UNCHANGED <<day, crashes, points, recorder>>

\* The application starts the thread, which warms at once.
Start ==
    /\ phase = "down"
    /\ phase' = "listing"
    /\ UNCHANGED <<clock, points, step, todo, current, dayRead, tsRead>>

Crash ==
    /\ phase # "down"
    /\ crashes < MaxCrashes
    /\ crashes' = crashes + 1
    /\ phase' = "down"
    /\ todo' = {}
    /\ Rest
    /\ UNCHANGED <<day, tracked, points>>

-----------------------------------------------------------------------------
(* A cycle.                                                                *)

\* The interval has passed.
Wake ==
    /\ phase = "waiting"
    /\ phase' = "listing"
    /\ UNCHANGED <<clock, points, step, todo, current, dayRead, tsRead>>

\* volatility.dashboard: a reading of every tracked instrument whose data came.
ReadVol ==
    /\ phase = "listing"
    /\ \E ok \in SUBSET tracked : \E l \in [ok -> Levels] :
          todo' = {[series |-> VolSeries(IdOf[i]), level |-> l[i]] : i \in ok}
    /\ phase' = "vol"
    /\ UNCHANGED <<clock, points, step, current, dayRead, tsRead>>

\* The regime, from its cache or computed.
ReadMacro ==
    /\ phase = "judging"
    /\ \E l \in Climates : todo' = {[series |-> Macro, level |-> l]}
    /\ phase' = "macro"
    /\ UNCHANGED <<clock, points, step, current, dayRead, tsRead>>

\* The loop over a part's readings ends.
After(p) == CASE p = "listing" -> "judging" [] p = "vol" -> "judging"
              [] p = "judging" -> "waiting" [] p = "macro" -> "waiting"

PartDone ==
    /\ phase \in {"vol", "macro"}
    /\ todo = {}
    /\ phase' = After(phase)
    /\ UNCHANGED <<clock, points, step, todo, current, dayRead, tsRead>>

\* Mutant: the exception ends the thread.
PartFailsForGood ==
    /\ phase \in {"listing", "vol", "judging", "macro"}
    /\ phase' = "dead"
    /\ todo' = {}
    /\ Rest
    /\ UNCHANGED <<clock, points>>

\* An exception ends the part it is raised in, with the readings it has left,
\* and not the cycle.
PartFails ==
    /\ phase \in {"listing", "vol", "judging", "macro"}
    /\ phase' = After(phase)
    /\ todo' = {}
    /\ Rest
    /\ UNCHANGED <<clock, points>>

-----------------------------------------------------------------------------
(* record_snapshot_daily.                                                  *)

ReadDay ==
    /\ phase \in {"vol", "macro"}
    /\ step = "between"
    /\ current' \in todo
    /\ dayRead' = day
    /\ step' = "dated"
    /\ UNCHANGED <<clock, points, phase, todo, tsRead>>

\* Mutant: the timestamp is read before the day.
ReadTsFirst ==
    /\ step = "dated"
    /\ tsRead' = dayRead
    /\ dayRead' = day
    /\ step' = "stamped"
    /\ UNCHANGED <<clock, points, phase, todo, current>>

ReadTs ==
    /\ step = "dated"
    /\ tsRead' = day
    /\ step' = "stamped"
    /\ UNCHANGED <<clock, points, phase, todo, current, dayRead>>

HasPoint(s, d) == \E n \in DOMAIN points[s] : points[s][n].day = d

\* Mutant: the loop ends at the first series that has its point.
WriteBreaks ==
    LET s == current.series
    IN  /\ step = "stamped"
        /\ points' = IF HasPoint(s, dayRead) THEN points
                     ELSE [points EXCEPT ![s] =
                              Append(@, [day |-> tsRead, level |-> current.level])]
        /\ todo' = IF HasPoint(s, dayRead) THEN {} ELSE todo \ {current}
        /\ Rest
        /\ UNCHANGED <<clock, phase>>

\* One transaction: nothing if the day has its point, else insert.
Write ==
    LET s == current.series
    IN  /\ step = "stamped"
        /\ points' = IF HasPoint(s, dayRead) THEN points
                     ELSE [points EXCEPT ![s] =
                              Append(@, [day |-> tsRead, level |-> current.level])]
        /\ todo' = todo \ {current}
        /\ Rest
        /\ UNCHANGED <<clock, phase>>

Cycle ==
    \/ Wake \/ ReadVol \/ ReadMacro \/ PartDone \/ PartFails
    \/ ReadDay \/ ReadTs \/ Write

Next == Midnight \/ Retrack \/ Start \/ Crash \/ Cycle

\* The thread runs, and the application is started again when it is down.
Fairness == WF_vars(Cycle) /\ WF_vars(Start)

Spec == Init /\ [][Next]_vars /\ Fairness

-----------------------------------------------------------------------------
(* Properties.                                                             *)

\* Whatever midnights, crashes and failures come between the two clock readings
\* and the insert, no day gets two points of a series, and the rows of a series
\* are in the order of their days: history's newest row is the latest written.
OnePointPerDay ==
    \A s \in AllSeries : \A m, n \in DOMAIN points[s] :
        m < n => points[s][m].day < points[s][n].day

\* Nothing that fails, at whatever step, stops the recorder for good: once
\* readings and the database work again, the day gets its point of the regime.
DayGetsItsPoint ==
    <>[][~ PartFails]_vars =>
        \A d \in Days : day = d ~> day > d \/ HasPoint(Macro, d)
=============================================================================
