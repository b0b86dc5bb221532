-------------------------- MODULE HistoryCoverage --------------------------
(***************************************************************************)
(* DailyHistory with a record of its cycles, to state what a cycle that    *)
(* ran undisturbed within one day leaves behind.                           *)
(***************************************************************************)
EXTENDS DailyHistory

VARIABLES began,  \* the day the present cycle began
          clean,  \* nothing has failed in it
          read,   \* the series it has readings of
          due     \* the series an undisturbed cycle of today had readings of

covVars == <<vars, began, clean, read, due>>

CovInit ==
    /\ Init
    /\ began = 0
    /\ clean = TRUE
    /\ read = {}
    /\ due = {}

CovBegin ==
    /\ Start \/ Wake
    /\ began' = day
    /\ clean' = TRUE
    /\ read' = {}
    /\ UNCHANGED due

CovRead ==
    /\ ReadVol \/ ReadMacro
    /\ read' = read \cup {r.series : r \in todo'}
    /\ UNCHANGED <<began, clean, due>>

CovPartDone ==
    /\ PartDone
    /\ due' = IF phase' = "waiting" /\ clean /\ began = day THEN due \cup read ELSE due
    /\ UNCHANGED <<began, clean, read>>

CovFails ==
    /\ PartFails
    /\ clean' = FALSE
    /\ UNCHANGED <<began, read, due>>

CovRecord ==
    /\ ReadDay \/ ReadTs \/ Write \/ Retrack \/ Crash
    /\ UNCHANGED <<began, clean, read, due>>

CovMidnight ==
    /\ Midnight
    /\ due' = {}
    /\ UNCHANGED <<began, clean, read>>

CovNext ==
    \/ CovBegin \/ CovRead \/ CovPartDone \/ CovFails \/ CovRecord \/ CovMidnight

CovSpec == CovInit /\ [][CovNext]_covVars

\* The record holds nothing up, so DailyHistory's fairness is the same here.
FairCovSpec == CovSpec /\ Fairness

-----------------------------------------------------------------------------
(* Properties.                                                             *)

\* A cycle that began and ended on the same day without a failure leaves a point
\* of that day for everything it had a reading of, whatever earlier cycles of
\* the day had recorded, missed or lost in a crash.
CycleRecordsItsDay == \A s \in due : HasPoint(s, day)

\* The series of an instrument has its code in its name: db.py, the routers and
\* the web page all call gold's 'vol:GC'.
SeriesGoByCode ==
    \A i \in Instruments :
        VolSeries(IdOf[i]) \in due => HasPoint(VolSeries(CodeOf[i]), day)
=============================================================================
