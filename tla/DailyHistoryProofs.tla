------------------------- MODULE DailyHistoryProofs -------------------------
(***************************************************************************)
(* Proofs about DailyHistory and HistoryCoverage for any instruments,      *)
(* readings and number of days and crashes.                                *)
(***************************************************************************)
EXTENDS HistoryCoverage, TLAPS, SequenceTheorems

\* The clock only goes on, so what the recorder has read of it is in order, and
\* no point is later than the day the recorder looks up.
PointsBy(s, d) == \A n \in DOMAIN points[s] : points[s][n].day <= d

ClockInv ==
    /\ \A s \in AllSeries : PointsBy(s, day)
    /\ step # "between" => dayRead <= day /\ PointsBy(current.series, dayRead)
    /\ step = "stamped" => dayRead <= tsRead /\ tsRead <= day

DayInv == TypeOK /\ ClockInv /\ OnePointPerDay

Point == [day : Days, level : Levels \cup Climates]

LEMMA DaysAreInts == Days \subseteq Int /\ 0 \in Days
  BY BoundsAssumption DEF Days

LEMMA InitDay == Init => DayInv
  BY DaysAreInts, BoundsAssumption
  DEF Init, DayInv, TypeOK, ClockInv, PointsBy, OnePointPerDay, Phases

\* Steps that neither write a point nor read the clock.
LEMMA QuietDay ==
    ASSUME DayInv, TypeOK', points' = points, day' \in {day, day + 1},
           \/ step' = "between"
           \/ UNCHANGED <<step, current, dayRead, tsRead>>
    PROVE  DayInv'
  <1>1. day \in Int /\ day' >= day
    BY DaysAreInts DEF DayInv, TypeOK
  <1>2. \A s \in AllSeries : \A n \in DOMAIN points[s] : points[s][n].day \in Int
    <2> SUFFICES ASSUME NEW s \in AllSeries, NEW n \in DOMAIN points[s]
                 PROVE  points[s][n].day \in Int
      OBVIOUS
    <2>1. points[s] \in Seq(Point)
      BY DEF DayInv, TypeOK, Point
    <2>2. points[s][n] \in Point
      BY <2>1, ElementOfSeq
    <2> QED
      BY <2>2, DaysAreInts DEF Point
  <1>3. dayRead \in Int /\ tsRead \in Int
    BY DaysAreInts DEF DayInv, TypeOK
  <1>4. \A s \in AllSeries : PointsBy(s, day)'
    BY <1>1, <1>2 DEF DayInv, ClockInv, PointsBy
  <1>5. ClockInv'
    BY <1>1, <1>3, <1>4 DEF DayInv, ClockInv, PointsBy
  <1>6. OnePointPerDay'
    BY DEF DayInv, OnePointPerDay
  <1> QED
    BY <1>5, <1>6 DEF DayInv

LEMMA ReadDayKeeps == DayInv /\ ReadDay => DayInv'
  <1> SUFFICES ASSUME DayInv, ReadDay PROVE DayInv'
    OBVIOUS
  <1>1. TypeOK'
    BY DEF DayInv, TypeOK, ReadDay, clock
  <1>2. current' \in todo /\ todo \subseteq Readings
    BY DEF ReadDay, DayInv, TypeOK
  <1>3. current'.series \in AllSeries
    BY <1>2 DEF Readings
  <1>4. ClockInv'
    BY <1>3, DaysAreInts DEF DayInv, TypeOK, ClockInv, PointsBy, ReadDay, clock
  <1>5. OnePointPerDay'
    BY DEF DayInv, OnePointPerDay, ReadDay
  <1> QED
    BY <1>1, <1>4, <1>5 DEF DayInv

LEMMA ReadTsKeeps == DayInv /\ ReadTs => DayInv'
  <1> SUFFICES ASSUME DayInv, ReadTs PROVE DayInv'
    OBVIOUS
  <1>1. TypeOK'
    BY DEF DayInv, TypeOK, ReadTs, clock
  <1>2. ClockInv'
    BY DaysAreInts DEF DayInv, TypeOK, ClockInv, PointsBy, ReadTs, clock
  <1>3. OnePointPerDay'
    BY DEF DayInv, OnePointPerDay, ReadTs
  <1> QED
    BY <1>1, <1>2, <1>3 DEF DayInv

\* The insert: every earlier point of the series is of an earlier day.
LEMMA WriteKeeps == DayInv /\ Write => DayInv'
  <1> SUFFICES ASSUME DayInv, Write PROVE DayInv'
    OBVIOUS
  <1> DEFINE s == current.series
             p == [day |-> tsRead, level |-> current.level]
  <1>1. current \in Readings /\ step = "stamped"
    BY DEF DayInv, TypeOK, Write
  <1>2. s \in AllSeries /\ p \in Point
    BY <1>1 DEF Readings, Point, DayInv, TypeOK
  <1>3. points[s] \in Seq(Point)
    BY <1>2 DEF DayInv, TypeOK, Point
  <1>4. /\ dayRead \in Int /\ tsRead \in Int /\ day \in Int
        /\ dayRead <= tsRead /\ tsRead <= day
        /\ PointsBy(s, dayRead)
    BY <1>1, DaysAreInts DEF DayInv, TypeOK, ClockInv
  <1>5. step' = "between" /\ day' = day /\ todo' \subseteq todo
    BY DEF Write, Rest, clock
  <1>6. CASE HasPoint(s, dayRead)
    <2>1. points' = points
      BY <1>6 DEF Write
    <2>2. TypeOK'
      BY <2>1, DaysAreInts DEF Write, Rest, clock, DayInv, TypeOK
    <2> QED
      BY <1>5, <2>1, <2>2, QuietDay
  <1>7. CASE ~ HasPoint(s, dayRead)
    <2> DEFINE q == Append(points[s], p)
    <2>1. points' = [points EXCEPT ![s] = q]
      BY <1>7 DEF Write
    <2>2. /\ q \in Seq(Point)
          /\ Len(q) = Len(points[s]) + 1
          /\ \A n \in 1 .. Len(points[s]) : q[n] = points[s][n]
          /\ q[Len(points[s]) + 1] = p
      BY <1>2, <1>3, AppendProperties
    <2>3. DOMAIN points[s] = 1 .. Len(points[s]) /\ Len(points[s]) \in Nat
      BY <1>3
    <2>4. DOMAIN q = 1 .. Len(points[s]) + 1
      BY <2>2
    <2>5. \A n \in DOMAIN points[s] : points[s][n].day \in Int /\ points[s][n].day < tsRead
      <3> SUFFICES ASSUME NEW n \in DOMAIN points[s]
                   PROVE  points[s][n].day \in Int /\ points[s][n].day < tsRead
        OBVIOUS
      <3>1. points[s][n] \in Point
        BY <1>3, <2>3, ElementOfSeq
      <3>2. points[s][n].day \in Int
        BY <3>1, DaysAreInts DEF Point
      <3>3. points[s][n].day <= dayRead /\ points[s][n].day # dayRead
        BY <1>4, <1>7 DEF PointsBy, HasPoint
      <3> QED
        BY <1>4, <3>2, <3>3
    <2> HIDE DEF q
    <2>6. points' \in [AllSeries -> Seq(Point)]
      BY <2>1, <2>2 DEF DayInv, TypeOK, Point
    <2>7. TypeOK'
      BY <2>6, DaysAreInts DEF Write, Rest, clock, DayInv, TypeOK, Point
    <2>8. /\ \A r \in AllSeries : r # s => points'[r] = points[r]
          /\ points'[s] = q
      BY <1>2, <2>1 DEF DayInv, TypeOK
    <2>9. \A r \in AllSeries : PointsBy(r, day)'
      <3>1. ASSUME NEW n \in DOMAIN q PROVE q[n].day <= day
        <4>1. CASE n \in DOMAIN points[s]
          BY <4>1, <1>4, <2>2, <2>3, <2>5
        <4>2. CASE n = Len(points[s]) + 1
          BY <4>2, <1>4, <2>2
        <4> QED
          BY <4>1, <4>2, <2>3, <2>4
      <3> QED
        BY <1>5, <2>8, <3>1 DEF PointsBy, DayInv, ClockInv
    <2>10. OnePointPerDay'
      <3>1. ASSUME NEW m \in DOMAIN q, NEW n \in DOMAIN q, m < n
            PROVE  q[m].day < q[n].day
        <4>1. m \in DOMAIN points[s]
          BY <2>3, <2>4, <3>1
        <4>2. CASE n \in DOMAIN points[s]
          BY <4>1, <4>2, <1>2, <2>2, <2>3, <3>1 DEF DayInv, OnePointPerDay
        <4>3. CASE n = Len(points[s]) + 1
          BY <4>1, <4>3, <2>2, <2>3, <2>5
        <4> QED
          BY <4>2, <4>3, <2>3, <2>4
      <3> QED
        BY <2>8, <3>1 DEF DayInv, OnePointPerDay
    <2> QED
      BY <1>5, <2>7, <2>9, <2>10 DEF DayInv, ClockInv
  <1> QED
    BY <1>6, <1>7

\* The steps that only move the thread along.
LEMMA OtherTypes ==
    ASSUME TypeOK,
           \/ Midnight \/ Retrack \/ Start \/ Crash
           \/ Wake \/ ReadVol \/ ReadMacro \/ PartDone \/ PartFails
    PROVE  TypeOK'
  <1> USE DaysAreInts DEF TypeOK, clock, recorder, Phases
  <1>1. CASE Midnight
    <2>1. day' \in Days
      BY <1>1, BoundsAssumption DEF Midnight, Days
    <2> QED
      BY <1>1, <2>1 DEF Midnight
  <1>2. CASE Retrack
    BY <1>2 DEF Retrack
  <1>3. CASE Start \/ Wake
    BY <1>3 DEF Start, Wake
  <1>4. CASE Crash
    <2>1. crashes' \in 0 .. MaxCrashes
      BY <1>4, BoundsAssumption DEF Crash
    <2> QED
      BY <1>4, <2>1 DEF Crash, Rest
  <1>5. CASE ReadVol
    <2>0. PICK ok \in SUBSET tracked : \E l \in [ok -> Levels] :
             todo' = {[series |-> VolSeries(IdOf[i]), level |-> l[i]] : i \in ok}
      BY <1>5 DEF ReadVol
    <2>1. PICK l \in [ok -> Levels] :
             todo' = {[series |-> VolSeries(IdOf[i]), level |-> l[i]] : i \in ok}
      BY <2>0
    <2>2. \A i \in ok : VolSeries(IdOf[i]) \in AllSeries /\ l[i] \in Levels
      BY <2>1, NamesAssumption DEF AllSeries
    <2>3. todo' \subseteq Readings
      BY <2>1, <2>2 DEF Readings
    <2> QED
      BY <1>5, <2>3 DEF ReadVol
  <1>6. CASE ReadMacro
    <2>1. todo' \subseteq Readings
      BY <1>6 DEF ReadMacro, Readings, AllSeries
    <2> QED
      BY <1>6, <2>1 DEF ReadMacro
  <1>7. CASE PartDone
    BY <1>7 DEF PartDone, After
  <1>8. CASE PartFails
    BY <1>8 DEF PartFails, After, Rest
  <1> QED
    BY <1>1, <1>2, <1>3, <1>4, <1>5, <1>6, <1>7, <1>8

LEMMA StepDay == DayInv /\ [Next]_vars => DayInv'
  <1> SUFFICES ASSUME DayInv, [Next]_vars PROVE DayInv'
    OBVIOUS
  <1>1. CASE \/ Midnight \/ Retrack \/ Start \/ Crash
             \/ Wake \/ ReadVol \/ ReadMacro \/ PartDone \/ PartFails
    <2>1. TypeOK'
      BY <1>1, OtherTypes DEF DayInv
    <2>2. points' = points /\ day' \in {day, day + 1}
      BY <1>1 DEF Midnight, Retrack, Start, Crash, Wake, ReadVol, ReadMacro, PartDone,
                  PartFails, clock
    <2>3. step' = "between" \/ UNCHANGED <<step, current, dayRead, tsRead>>
      BY <1>1 DEF Midnight, Retrack, Start, Crash, Wake, ReadVol, ReadMacro, PartDone,
                  PartFails, Rest, recorder
    <2> QED
      BY <2>1, <2>2, <2>3, QuietDay
  <1>2. CASE UNCHANGED vars
    <2>1. TypeOK'
      BY <1>2 DEF vars, clock, recorder, DayInv, TypeOK
    <2> QED
      BY <1>2, <2>1, QuietDay DEF vars, clock, recorder
  <1> QED
    BY <1>1, <1>2, ReadDayKeeps, ReadTsKeeps, WriteKeeps DEF Next, Cycle

LEMMA AlwaysDay == Spec => []DayInv
  BY InitDay, StepDay, PTL DEF Spec

\* The recorder's state keeps its types.
THEOREM RecorderTypes == Spec => []TypeOK
  <1>1. DayInv => TypeOK
    BY DEF DayInv
  <1> QED
    BY <1>1, AlwaysDay, PTL

\* Whatever midnights, crashes and failures come between the steps of
\* record_snapshot_daily, a series has at most one point per day, in order.
THEOREM OnePoint == Spec => []OnePointPerDay
  <1>1. DayInv => OnePointPerDay
    BY DEF DayInv
  <1> QED
    BY <1>1, AlwaysDay, PTL

-----------------------------------------------------------------------------
(* What an undisturbed cycle leaves behind.                                *)

\* In a cycle that is still of its first day and without a failure, whatever was
\* read has its point or waits for it, and what record_snapshot_daily reads of
\* the clock is that day.  Between two parts nothing waits.
Working == phase \in {"listing", "vol", "judging", "macro"}

Waits(s) == \E r \in todo : r.series = s

CycleInv ==
    /\ began \in Days /\ read \subseteq AllSeries /\ due \subseteq AllSeries
    /\ began <= day
    /\ step # "between" => began <= dayRead
    /\ phase \notin {"vol", "macro"} => todo = {}
    /\ (Working /\ clean /\ began = day) => \A s \in read : HasPoint(s, day) \/ Waits(s)
    /\ CycleRecordsItsDay

CoverInv == DayInv /\ CycleInv

LEMMA InitCover == CovInit => CoverInv
  BY InitDay, DaysAreInts
  DEF CovInit, Init, CoverInv, CycleInv, CycleRecordsItsDay, Working

LEMMA CovIsNext == CovNext => Next
  BY DEF CovNext, CovBegin, CovRead, CovPartDone, CovFails, CovRecord, CovMidnight,
         Next, Cycle

LEMMA CoverBegins == CoverInv /\ CovBegin => CycleInv'
  <1> SUFFICES ASSUME CoverInv, CovBegin PROVE CycleInv'
    OBVIOUS
  <1>1. phase' = "listing" /\ UNCHANGED <<day, points, step, todo, dayRead>>
    BY DEF CovBegin, Start, Wake, clock
  <1>2. todo = {} /\ step = "between"
    BY DEF CovBegin, Start, Wake, CoverInv, CycleInv, DayInv, TypeOK
  <1>3. began' = day /\ read' = {} /\ due' = due
    BY DEF CovBegin
  <1>4. day \in Days /\ day \in Int
    BY DaysAreInts DEF CoverInv, DayInv, TypeOK
  <1> QED
    BY <1>1, <1>2, <1>3, <1>4
    DEF CoverInv, CycleInv, CycleRecordsItsDay, HasPoint, Working

LEMMA CoverReads == CoverInv /\ CovRead => CycleInv'
  <1> SUFFICES ASSUME CoverInv, CovRead PROVE CycleInv'
    OBVIOUS
  <1>1. /\ phase \in {"listing", "judging"} /\ phase' \in {"vol", "macro"}
        /\ UNCHANGED <<day, points, step, dayRead, began, clean, due>>
        /\ read' = read \cup {r.series : r \in todo'}
    BY DEF CovRead, ReadVol, ReadMacro, clock
  <1>2. todo = {}
    BY <1>1 DEF CoverInv, CycleInv
  <1>3. todo' \subseteq Readings
    BY OtherTypes DEF CovRead, CoverInv, DayInv, TypeOK
  <1>4. \A r \in todo' : r.series \in AllSeries
    BY <1>3 DEF Readings
  <1>5. \A s \in read' : s \in read \/ Waits(s)'
    BY <1>1 DEF Waits
  <1>6. (Working /\ clean /\ began = day)' =>
           \A s \in read' : HasPoint(s, day)' \/ Waits(s)'
    <2> SUFFICES ASSUME clean, began = day, NEW s \in read' PROVE HasPoint(s, day)' \/ Waits(s)'
      BY <1>1
    <2>1. s \in read => HasPoint(s, day)
      BY <1>1, <1>2 DEF CoverInv, CycleInv, Working, Waits
    <2> QED
      BY <1>1, <1>5, <2>1 DEF HasPoint
  <1>7. CycleRecordsItsDay'
    BY <1>1 DEF CoverInv, CycleInv, CycleRecordsItsDay, HasPoint
  <1> QED
    BY <1>1, <1>4, <1>6, <1>7 DEF CoverInv, CycleInv

LEMMA CoverPartDone == CoverInv /\ CovPartDone => CycleInv'
  <1> SUFFICES ASSUME CoverInv, CovPartDone PROVE CycleInv'
    OBVIOUS
  <1>1. /\ phase \in {"vol", "macro"} /\ todo = {} /\ phase' \in {"judging", "waiting"}
        /\ UNCHANGED <<day, points, step, todo, dayRead, began, clean, read>>
    BY DEF CovPartDone, PartDone, After, clock
  <1>2. (clean /\ began = day) => \A s \in read : HasPoint(s, day)
    BY <1>1 DEF CoverInv, CycleInv, Working, Waits
  <1>3. due' \subseteq due \cup read /\ (due' # due => clean /\ began = day)
    BY DEF CovPartDone
  <1>4. CycleRecordsItsDay'
    BY <1>1, <1>2, <1>3 DEF CoverInv, CycleInv, CycleRecordsItsDay, HasPoint
  <1>5. (Working /\ clean /\ began = day)' => \A s \in read' : HasPoint(s, day)'
    BY <1>1, <1>2 DEF HasPoint
  <1> QED
    BY <1>1, <1>3, <1>4, <1>5 DEF CoverInv, CycleInv

LEMMA CoverFails == CoverInv /\ CovFails => CycleInv'
  <1> SUFFICES ASSUME CoverInv, CovFails PROVE CycleInv'
    OBVIOUS
  <1>1. /\ todo' = {} /\ step' = "between" /\ ~ clean'
        /\ UNCHANGED <<day, points, began, read, due>>
    BY DEF CovFails, PartFails, Rest, clock
  <1> QED
    BY <1>1 DEF CoverInv, CycleInv, CycleRecordsItsDay, HasPoint

LEMMA CoverMidnight == CoverInv /\ CovMidnight => CycleInv'
  <1> SUFFICES ASSUME CoverInv, CovMidnight PROVE CycleInv'
    OBVIOUS
  <1>1. /\ day' = day + 1 /\ due' = {}
        /\ UNCHANGED <<points, phase, step, todo, dayRead, began, clean, read>>
    BY DEF CovMidnight, Midnight, recorder
  <1>2. began' <= day' /\ began' # day'
    BY <1>1, DaysAreInts DEF CoverInv, CycleInv, DayInv, TypeOK
  <1> QED
    BY <1>1, <1>2 DEF CoverInv, CycleInv, CycleRecordsItsDay

\* In a cycle of one day the write leaves a point of that day, whether it finds
\* one or inserts it, and takes away none.
LEMMA CoverWrite == CoverInv /\ Write /\ UNCHANGED <<began, clean, read, due>> => CycleInv'
  <1> SUFFICES ASSUME CoverInv, Write, UNCHANGED <<began, clean, read, due>> PROVE CycleInv'
    OBVIOUS
  <1>0. PICK s0 : s0 = current.series
    OBVIOUS
  <1> DEFINE p == [day |-> tsRead, level |-> current.level]
  <1>1. /\ step = "stamped" /\ step' = "between" /\ todo' = todo \ {current}
        /\ UNCHANGED <<day, phase>>
    BY DEF Write, Rest, clock
  <1>2. current \in Readings /\ s0 \in AllSeries
    BY <1>0, <1>1 DEF CoverInv, DayInv, TypeOK, Readings
  <1>3. points[s0] \in Seq(Point) /\ p \in Point
    BY <1>1, <1>2 DEF CoverInv, DayInv, TypeOK, Point, Readings
  <1>4. began = day => dayRead = day /\ tsRead = day
    BY <1>1, DaysAreInts DEF CoverInv, CycleInv, DayInv, TypeOK, ClockInv
  <1>5. \A s \in AllSeries : HasPoint(s, day) => HasPoint(s, day)'
    <2>1. CASE points' = points
      BY <1>1, <2>1 DEF HasPoint
    <2>2. CASE points' = [points EXCEPT ![s0] = Append(@, p)]
      <3> SUFFICES ASSUME NEW s \in AllSeries, NEW n \in DOMAIN points[s], points[s][n].day = day
                   PROVE  n \in DOMAIN points'[s] /\ points'[s][n] = points[s][n]
        BY <1>1 DEF HasPoint
      <3>1. CASE s # s0
        BY <2>2, <3>1 DEF CoverInv, DayInv, TypeOK
      <3>2. CASE s = s0
        <4>1. points'[s] = Append(points[s], p)
          BY <2>2, <3>2, <1>2 DEF CoverInv, DayInv, TypeOK
        <4> QED
          BY <4>1, <3>2, <1>3, AppendProperties
      <3> QED
        BY <3>1, <3>2
    <2> QED
      BY <1>0, <2>1, <2>2 DEF Write
  <1>6. began = day => HasPoint(s0, day)'
    <2>1. CASE HasPoint(s0, dayRead)
      BY <1>2, <1>4, <1>5, <2>1
    <2>2. ASSUME began = day, ~ HasPoint(s0, dayRead) PROVE HasPoint(s0, day)'
      <3>1. points'[s0] = Append(points[s0], p)
        BY <2>2, <1>0, <1>2 DEF Write, CoverInv, DayInv, TypeOK
      <3>2. /\ Len(points[s0]) + 1 \in DOMAIN points'[s0]
            /\ points'[s0][Len(points[s0]) + 1] = p
        BY <3>1, <1>3, AppendProperties
      <3> QED
        BY <3>2, <2>2, <1>1, <1>4 DEF HasPoint
    <2> QED
      BY <2>1, <2>2
  <1>7. (Working /\ clean /\ began = day)' =>
           \A s \in read' : HasPoint(s, day)' \/ Waits(s)'
    <2> SUFFICES ASSUME Working, clean, began = day, NEW s \in read
                 PROVE  HasPoint(s, day)' \/ Waits(s)'
      BY <1>1 DEF Working
    <2>1. HasPoint(s, day) \/ Waits(s)
      BY DEF CoverInv, CycleInv
    <2>2. CASE HasPoint(s, day)
      BY <2>2, <1>5 DEF CoverInv, CycleInv
    <2>3. CASE Waits(s)
      <3>1. PICK r \in todo : r.series = s
        BY <2>3 DEF Waits
      <3>2. CASE r = current
        BY <3>1, <3>2, <1>0, <1>6
      <3>3. CASE r # current
        BY <3>1, <3>3, <1>1 DEF Waits
      <3> QED
        BY <3>2, <3>3
    <2> QED
      BY <2>1, <2>2, <2>3
  <1>8. CycleRecordsItsDay'
    BY <1>5 DEF CoverInv, CycleInv, CycleRecordsItsDay
  <1>9. phase' \notin {"vol", "macro"} => todo' = {}
    BY <1>1 DEF CoverInv, CycleInv
  <1> QED
    BY <1>1, <1>7, <1>8, <1>9 DEF CoverInv, CycleInv

LEMMA CoverRecord == CoverInv /\ CovRecord => CycleInv'
  <1> SUFFICES ASSUME CoverInv, CovRecord PROVE CycleInv'
    OBVIOUS
  <1> USE DEF CoverInv, CycleInv, CycleRecordsItsDay, HasPoint, Waits, Working
  <1>1. CASE ReadDay
    <2>1. dayRead' = day /\ UNCHANGED <<day, points, phase, todo, began, clean, read, due>>
      BY <1>1 DEF ReadDay, CovRecord, clock
    <2> QED
      BY <2>1
  <1>2. CASE ReadTs
    <2>1. /\ step = "dated"
          /\ UNCHANGED <<day, points, phase, todo, dayRead, began, clean, read, due>>
      BY <1>2 DEF ReadTs, CovRecord, clock
    <2> QED
      BY <2>1
  <1>3. CASE Write
    BY <1>3, CoverWrite DEF CovRecord
  <1>4. CASE Retrack
    <2>1. UNCHANGED <<day, points, phase, step, todo, dayRead, began, clean, read, due>>
      BY <1>4 DEF Retrack, CovRecord, recorder
    <2> QED
      BY <2>1
  <1>5. CASE Crash
    <2>1. /\ phase' = "down" /\ todo' = {} /\ step' = "between"
          /\ UNCHANGED <<day, points, began, clean, read, due>>
      BY <1>5 DEF Crash, Rest, CovRecord
    <2> QED
      BY <2>1
  <1> QED
    BY <1>1, <1>2, <1>3, <1>4, <1>5 DEF CovRecord

LEMMA StepCover == CoverInv /\ [CovNext]_covVars => CoverInv'
  <1> SUFFICES ASSUME CoverInv, [CovNext]_covVars PROVE CoverInv'
    OBVIOUS
  <1>1. DayInv'
    BY CovIsNext, StepDay DEF CoverInv, covVars
  <1>2. CASE UNCHANGED covVars
    <2>1. CycleInv'
      BY <1>2 DEF covVars, vars, clock, recorder, CoverInv, CycleInv, CycleRecordsItsDay,
                  HasPoint, Waits, Working
    <2> QED
      BY <1>1, <2>1 DEF CoverInv
  <1>3. CASE CovNext
    <2>1. CycleInv'
      BY <1>3, CoverBegins, CoverReads, CoverPartDone, CoverFails, CoverRecord, CoverMidnight
      DEF CovNext
    <2> QED
      BY <1>1, <2>1 DEF CoverInv
  <1> QED
    BY <1>2, <1>3

\* A cycle that ran within one day without a failure leaves a point of that day
\* for everything it had a reading of, whatever registry edits, earlier cycles
\* and crashes came before.
THEOREM CyclesRecord == CovSpec => []CycleRecordsItsDay
  <1>1. CoverInv => CycleRecordsItsDay
    BY DEF CoverInv, CycleInv
  <1> QED
    BY InitCover, StepCover, <1>1, PTL DEF CovSpec
=============================================================================
