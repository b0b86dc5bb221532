------------------------- MODULE ConcurrencyProofs -------------------------
(***************************************************************************)
(* Proofs about the code that several threads are in at once: the breakers *)
(* of CircuitBreaker and CircuitHistory for any threads, keys, threshold   *)
(* and cooldown, the pool of FanOut for any items, results and number of   *)
(* workers, and the pages of Dashboards that are computed with it.         *)
(***************************************************************************)
EXTENDS CircuitHistory, Dashboards, TLAPS, FiniteSetTheorems, SequenceTheorems

-----------------------------------------------------------------------------
(* The breakers.                                                           *)

\* The breakers' own invariant.
BreakerInv == TypeOK /\ OpenIffThreshold

LEMMA OneMoreInRange ==
    ASSUME NEW n \in 0 .. MaxFailures
    PROVE  /\ OneMore(n) \in 0 .. MaxFailures
           /\ OneMore(n) > 0
           /\ n >= FailThreshold => OneMore(n) >= FailThreshold
           /\ n < FailThreshold => OneMore(n) = n + 1
  BY FailThresholdAssumption, MaxFailuresAssumption DEF OneMore

LEMMA InitBreaker == Init => BreakerInv
  BY FailThresholdAssumption, MaxFailuresAssumption, CooldownAssumption
  DEF Init, BreakerInv, TypeOK, OpenIffThreshold, Outside, Inside

LEMMA AttemptBreaker ==
    ASSUME BreakerInv, NEW c \in Callers, NEW k \in Keys, Attempt(c, k)
    PROVE  BreakerInv'
  BY DEF BreakerInv, TypeOK, OpenIffThreshold, Attempt, Refuse, Admit, Enter, Outside, Inside

LEMMA ReplyBreaker ==
    ASSUME BreakerInv, NEW c \in Callers, NEW o \in {"succeeded", "failed"}, Reply(c, o)
    PROVE  BreakerInv'
  BY DEF BreakerInv, TypeOK, OpenIffThreshold, Reply, Outside, Inside

LEMMA SuccessBreaker ==
    ASSUME BreakerInv, NEW c \in Callers, RecordSuccess(c)
    PROVE  BreakerInv'
  <1> USE DEF BreakerInv, RecordSuccess
  <1>1. TypeOK'
    BY MaxFailuresAssumption, CooldownAssumption DEF TypeOK, Outside, Inside
  <1>2. OpenIffThreshold'
    BY FailThresholdAssumption DEF TypeOK, OpenIffThreshold
  <1> QED
    BY <1>1, <1>2

LEMMA FailureBreaker ==
    ASSUME BreakerInv, NEW c \in Callers, RecordFailure(c)
    PROVE  BreakerInv'
  <1> DEFINE k == key[c]
             n == OneMore(failures[k])
  <1>1. k \in Keys /\ failures[k] \in 0 .. MaxFailures
    BY DEF BreakerInv, TypeOK
  <1>2. n \in 0 .. MaxFailures
    BY <1>1, OneMoreInRange
  <1>3. failures' = [failures EXCEPT ![k] = n]
    BY DEF RecordFailure
  <1>4. CASE Opens(n)
    <2>1. /\ opened' = [opened EXCEPT ![k] = TRUE]
          /\ cooling' = [cooling EXCEPT ![k] = Cooldown]
      BY <1>4 DEF RecordFailure, CooldownLeft
    <2>2. TypeOK'
      BY <1>1, <1>2, <1>3, <2>1, CooldownAssumption
      DEF BreakerInv, TypeOK, RecordFailure, Outside, Inside
    <2>3. OpenIffThreshold'
      BY <1>1, <1>2, <1>3, <1>4, <2>1 DEF BreakerInv, TypeOK, OpenIffThreshold, Opens
    <2> QED
      BY <2>2, <2>3 DEF BreakerInv
  <1>5. CASE ~ Opens(n)
    <2>1. UNCHANGED <<opened, cooling>>
      BY <1>5 DEF RecordFailure
    <2>2. TypeOK'
      BY <1>1, <1>2, <1>3, <2>1 DEF BreakerInv, TypeOK, RecordFailure, Outside, Inside
    <2>3. ~ (failures[k] >= FailThreshold)
      BY <1>1, <1>5, OneMoreInRange DEF Opens
    <2>4. OpenIffThreshold'
      BY <1>1, <1>2, <1>3, <1>5, <2>1, <2>3 DEF BreakerInv, TypeOK, OpenIffThreshold, Opens
    <2> QED
      BY <2>2, <2>4 DEF BreakerInv
  <1> QED
    BY <1>4, <1>5

LEMMA TickBreaker == BreakerInv /\ Tick => BreakerInv'
  BY CooldownAssumption DEF BreakerInv, TypeOK, OpenIffThreshold, Tick

LEMMA ToggleBreaker ==
    ASSUME BreakerInv, NEW k \in Keys, Toggle(k)
    PROVE  BreakerInv'
  BY DEF BreakerInv, TypeOK, OpenIffThreshold, Toggle

LEMMA StepBreaker == BreakerInv /\ [Next]_vars => BreakerInv'
  <1> SUFFICES ASSUME BreakerInv, [Next]_vars PROVE BreakerInv'
    OBVIOUS
  <1>1. CASE Tick
    BY <1>1, TickBreaker
  <1>2. CASE \E k \in Keys : Toggle(k)
    BY <1>2, ToggleBreaker
  <1>3. ASSUME NEW c \in Callers, Proceed(c) PROVE BreakerInv'
    BY <1>3, ReplyBreaker, SuccessBreaker, FailureBreaker DEF Proceed
  <1>4. ASSUME NEW c \in Callers, NEW k \in Keys, Attempt(c, k) PROVE BreakerInv'
    BY <1>4, AttemptBreaker
  <1>5. CASE UNCHANGED vars
    BY <1>5 DEF vars, BreakerInv, TypeOK, OpenIffThreshold
  <1> QED
    BY <1>1, <1>2, <1>3, <1>4, <1>5 DEF Next

LEMMA AlwaysBreakerInv == SafeSpec => []BreakerInv
  <1>1. Init => BreakerInv
    BY InitBreaker
  <1>2. BreakerInv /\ [Next]_vars => BreakerInv'
    BY StepBreaker
  <1> QED
    BY <1>1, <1>2, PTL DEF SafeSpec

\* The breakers' fields and the threads' program counters keep their types.
THEOREM BreakerTypes == Spec => []TypeOK
  <1>1. BreakerInv => TypeOK
    BY DEF BreakerInv
  <1> QED
    BY <1>1, AlwaysBreakerInv, PTL DEF Spec

\* Under every interleaving of admitted calls and late outcomes, _opened_at is
\* set exactly while _failures has reached the threshold.
THEOREM OpenExactlyAtThreshold == Spec => []OpenIffThreshold
  <1>1. BreakerInv => OpenIffThreshold
    BY DEF BreakerInv
  <1> QED
    BY <1>1, AlwaysBreakerInv, PTL DEF Spec
-----------------------------------------------------------------------------
(* The history of a breaker.                                               *)

LEMMA InFlightCard ==
    ASSUME NEW k \in Keys
    PROVE  /\ IsFiniteSet(InFlight(k))
           /\ Cardinality(InFlight(k)) \in Nat
           /\ Cardinality(InFlight(k)) <= Cardinality(Callers)
           /\ Cardinality(Callers) \in Nat
  <1>1. InFlight(k) \subseteq Callers
    BY DEF InFlight
  <1> QED
    BY <1>1, CallersAssumption, FS_Subset, FS_CardinalityType

\* A thread that records its outcome leaves the flight of its own key only.
LEMMA Landing ==
    ASSUME TypeOK, NEW c \in Callers, pc[c] \in Inside,
           NEW where \in Outside, pc' = [pc EXCEPT ![c] = where], key' = key,
           NEW k \in Keys
    PROVE  Cardinality(InFlight(k)') =
              IF k = key[c] THEN Cardinality(InFlight(k)) - 1
                            ELSE Cardinality(InFlight(k))
  <1>0. where \notin Inside
    BY DEF Outside, Inside
  <1>1. CASE k = key[c]
    <2>1. c \in InFlight(k)
      BY <1>1 DEF InFlight
    <2>2. InFlight(k)' = InFlight(k) \ {c}
      BY <1>0, <1>1 DEF InFlight, TypeOK
    <2>3. IsFiniteSet(InFlight(k))
      BY InFlightCard
    <2>4. Cardinality(InFlight(k) \ {c}) = Cardinality(InFlight(k)) - 1
      BY ONLY <2>1, <2>3, FS_RemoveElement
    <2> QED
      BY <1>1, <2>2, <2>4
  <1>2. CASE k # key[c]
    <2>1. InFlight(k)' = InFlight(k)
      BY <1>0, <1>2 DEF InFlight, TypeOK
    <2> QED
      BY <1>2, <2>1
  <1> QED
    BY <1>1, <1>2

LEMMA InitHist == HistInit => HistInv
  <1> SUFFICES ASSUME HistInit PROVE HistInv
    OBVIOUS
  <1>1. TypeOK /\ OpenIffThreshold
    BY InitBreaker DEF HistInit, BreakerInv
  <1>2. HistTypeOK
    BY CooldownAssumption DEF HistInit, HistTypeOK, Never
  <1>3. CooldownFromLastFailure /\ BurstBudget
    BY DEF HistInit, Init, CooldownFromLastFailure, BurstBudget, Refusing
  <1> QED
    BY <1>1, <1>2, <1>3 DEF HistInv

LEMMA AttemptHist ==
    ASSUME HistInv, NEW c \in Callers, NEW k \in Keys, HAttempt(c, k)
    PROVE  HistInv'
  <1> USE DEF HistInv, HAttempt
  <1>1. BreakerInv'
    BY AttemptBreaker DEF BreakerInv
  <1>2. UNCHANGED <<failures, opened, cooling, quiet, burst>>
    BY DEF Attempt, Refuse, Admit, Enter
  <1>3. HistTypeOK' /\ CooldownFromLastFailure'
    BY <1>2 DEF HistTypeOK, CooldownFromLastFailure
  <1>4. ASSUME NEW j \in Keys, Refusing(j) PROVE InFlight(j)' = InFlight(j)
    <2>1. CASE Refuse(c, k)
      BY <2>1 DEF Refuse, Enter, InFlight, TypeOK, Outside, Inside
    <2>2. CASE Admit(c, k)
      <3>1. j # k
        BY <2>2, <1>4 DEF Admit
      <3> QED
        BY <2>2, <3>1 DEF Admit, Enter, InFlight, TypeOK, Outside, Inside
    <2> QED
      BY <2>1, <2>2 DEF Attempt
  <1>5. BurstBudget'
    BY <1>2, <1>4 DEF BurstBudget, Refusing
  <1> QED
    BY <1>1, <1>3, <1>5 DEF BreakerInv

LEMMA ReplyHist ==
    ASSUME HistInv, NEW c \in Callers, HReply(c)
    PROVE  HistInv'
  <1> USE DEF HistInv, HReply
  <1>1. PICK o \in {"succeeded", "failed"} : Reply(c, o)
    OBVIOUS
  <1>2. BreakerInv'
    BY <1>1, ReplyBreaker DEF BreakerInv
  <1>3. UNCHANGED <<failures, opened, cooling, quiet, burst>>
    BY <1>1 DEF Reply
  <1>4. \A j \in Keys : InFlight(j)' = InFlight(j)
    BY <1>1 DEF Reply, InFlight, TypeOK, Inside
  <1>5. HistTypeOK' /\ CooldownFromLastFailure'
    BY <1>3 DEF HistTypeOK, CooldownFromLastFailure
  <1>6. BurstBudget'
    BY <1>3, <1>4 DEF BurstBudget, Refusing
  <1> QED
    BY <1>2, <1>5, <1>6 DEF BreakerInv

LEMMA SuccessHist ==
    ASSUME HistInv, NEW c \in Callers, HSuccess(c)
    PROVE  HistInv'
  <1> USE DEF HistInv, HSuccess
  <1> DEFINE k == key[c]
  <1>1. BreakerInv'
    BY SuccessBreaker DEF BreakerInv
  <1>2. HistTypeOK'
    BY DEF HistTypeOK, TypeOK
  <1>3. CooldownFromLastFailure'
    BY DEF CooldownFromLastFailure, RecordSuccess, TypeOK
  <1>4. \A j \in Keys : Cardinality(InFlight(j)') =
                          IF j = k THEN Cardinality(InFlight(j)) - 1
                                   ELSE Cardinality(InFlight(j))
    BY Landing DEF RecordSuccess, Outside, Inside
  <1>5. BurstBudget'
    BY <1>4 DEF BurstBudget, Refusing, RecordSuccess, TypeOK, HistTypeOK
  <1> QED
    BY <1>1, <1>2, <1>3, <1>5 DEF BreakerInv

LEMMA FailureHist ==
    ASSUME HistInv, NEW c \in Callers, HFailure(c)
    PROVE  HistInv'
  <1> USE DEF HistInv, HFailure
  <1>0. PICK k \in Keys : k = key[c]
    BY DEF TypeOK
  <1> DEFINE n == OneMore(failures[k])
             N == Cardinality(Callers)
             flight(j) == Cardinality(InFlight(j))
  <1>1. BreakerInv'
    BY FailureBreaker DEF BreakerInv
  <1>2. /\ failures[k] \in 0 .. MaxFailures
        /\ burst[k] \in Nat
        /\ failures' = [failures EXCEPT ![k] = n]
        /\ burst' = [burst EXCEPT ![k] = @ + 1]
        /\ quiet' = [quiet EXCEPT ![k] = 0]
    BY <1>0 DEF TypeOK, HistTypeOK, RecordFailure
  <1>3. HistTypeOK'
    BY <1>2, CooldownAssumption DEF HistTypeOK, Never
  <1>4. \A j \in Keys : Cardinality(InFlight(j)') =
                          IF j = k THEN flight(j) - 1 ELSE flight(j)
    BY <1>0, Landing DEF RecordFailure, Outside, Inside
  <1>5. \A j \in Keys : flight(j) \in Nat /\ flight(j) <= N /\ N \in Nat
    BY InFlightCard
  <1>6. CASE Opens(n)
    <2>1. /\ opened' = [opened EXCEPT ![k] = TRUE]
          /\ cooling' = [cooling EXCEPT ![k] = Cooldown]
      BY <1>0, <1>6 DEF RecordFailure, CooldownLeft
    <2>2. CooldownFromLastFailure'
      BY <1>2, <2>1, CooldownAssumption DEF CooldownFromLastFailure, TypeOK, HistTypeOK
    <2>3. burst[k] + flight(k) <= FailThreshold - 1 + N
      <3>1. CASE Refusing(k)
        BY <1>2, <3>1 DEF BurstBudget
      <3>2. CASE ~ Refusing(k)
        <4>1. burst[k] <= FailThreshold - 1
          BY <1>2, <3>2, FailThresholdAssumption, MaxFailuresAssumption
          DEF BurstBudget, OpenIffThreshold, TypeOK
        <4> QED
          BY <1>2, <1>5, <4>1, FailThresholdAssumption
      <3> QED
        BY <3>1, <3>2
    <2>4. Refusing(k)'
      BY <1>2, <2>1, CooldownAssumption DEF Refusing, TypeOK
    <2>5. burst[k]' + Cardinality(InFlight(k)') <= FailThreshold - 1 + N
      BY <1>2, <1>4, <1>5, <2>3, FailThresholdAssumption DEF HistTypeOK
    <2>6. ASSUME NEW j \in Keys, j # k
          PROVE  /\ Refusing(j)' <=> Refusing(j)
                 /\ UNCHANGED <<burst[j], opened[j], failures[j]>>
                 /\ Cardinality(InFlight(j)') = flight(j)
      BY <1>2, <1>4, <2>1, <2>6 DEF Refusing, TypeOK, HistTypeOK
    <2>7. BurstBudget'
      BY <2>4, <2>5, <2>6 DEF BurstBudget
    <2> QED
      BY <1>1, <1>3, <2>2, <2>7 DEF BreakerInv
  <1>7. CASE ~ Opens(n)
    <2>1. UNCHANGED <<opened, cooling>>
      BY <1>0, <1>7 DEF RecordFailure
    <2>2. failures[k] < FailThreshold /\ n = failures[k] + 1
      BY <1>2, <1>7, OneMoreInRange, FailThresholdAssumption DEF Opens
    <2>3. ~ opened[k]
      BY <1>2, <2>2, FailThresholdAssumption, MaxFailuresAssumption DEF OpenIffThreshold
    <2>4. CooldownFromLastFailure'
      BY <1>2, <2>1, <2>3 DEF CooldownFromLastFailure, TypeOK, HistTypeOK
    <2>5. burst[k]' <= failures[k]' /\ ~ opened[k]'
      <3>1. burst[k] <= failures[k]
        BY <1>2, <2>3 DEF BurstBudget, Refusing
      <3>2. burst[k]' = burst[k] + 1 /\ failures[k]' = failures[k] + 1
        BY <1>2, <2>2 DEF TypeOK, HistTypeOK
      <3> QED
        BY <1>2, <2>1, <2>3, <3>1, <3>2
    <2>6. ASSUME NEW j \in Keys, j # k
          PROVE  /\ Refusing(j)' <=> Refusing(j)
                 /\ UNCHANGED <<burst[j], opened[j], failures[j]>>
                 /\ Cardinality(InFlight(j)') = flight(j)
      BY <1>2, <1>4, <2>1, <2>6 DEF Refusing, TypeOK, HistTypeOK
    <2>7. BurstBudget'
      <3>1. ~ Refusing(k)'
        BY <2>5 DEF Refusing
      <3> QED
        BY <2>5, <2>6, <3>1 DEF BurstBudget
    <2> QED
      BY <1>1, <1>3, <2>4, <2>7 DEF BreakerInv
  <1> QED
    BY <1>6, <1>7

LEMMA TickHist == HistInv /\ HTick => HistInv'
  <1> SUFFICES ASSUME HistInv, HTick PROVE HistInv'
    OBVIOUS
  <1> USE DEF HistInv, HTick
  <1>1. BreakerInv'
    BY TickBreaker DEF BreakerInv
  <1>2. HistTypeOK'
    BY CooldownAssumption DEF HistTypeOK, Never
  <1>3. CooldownFromLastFailure'
    BY CooldownAssumption DEF CooldownFromLastFailure, Tick, TypeOK, HistTypeOK, Never
  <1>4. \A j \in Keys : InFlight(j)' = InFlight(j)
    BY DEF Tick, InFlight
  <1>5. ASSUME NEW j \in Keys
        PROVE  /\ Refusing(j)' => Refusing(j) /\ burst[j]' = burst[j]
               /\ ~ Refusing(j)' /\ Refusing(j) => burst[j]' = 0 /\ opened[j]'
               /\ ~ Refusing(j) => burst[j]' <= burst[j]
               /\ opened[j]' = opened[j] /\ failures[j]' = failures[j]
    <2>1. /\ cooling[j] \in Nat
          /\ cooling[j]' = IF cooling[j] > 0 THEN cooling[j] - 1 ELSE 0
      BY CooldownAssumption DEF Tick, TypeOK
    <2>2. burst[j]' = IF cooling[j] = 1 THEN 0 ELSE burst[j]
      OBVIOUS
    <2>3. opened' = opened /\ failures' = failures
      BY DEF Tick
    <2>4. burst[j] \in Nat
      BY DEF HistTypeOK
    <2> QED
      BY <2>1, <2>2, <2>3, <2>4 DEF Refusing
  <1>6. BurstBudget'
    <2> SUFFICES ASSUME NEW j \in Keys
                 PROVE  /\ Refusing(j)' =>
                              burst[j]' + Cardinality(InFlight(j)')
                                 <= FailThreshold - 1 + Cardinality(Callers)
                        /\ ~ Refusing(j)' =>
                              burst[j]' <= IF opened[j]' THEN 0 ELSE failures[j]'
      BY DEF BurstBudget
    <2>1. burst[j] \in Nat /\ burst[j]' \in Nat /\ failures[j] \in Nat
      BY <1>2, MaxFailuresAssumption DEF HistTypeOK, TypeOK
    <2>2. CASE Refusing(j)
      BY <1>4, <1>5, <2>1, <2>2 DEF BurstBudget
    <2>3. CASE ~ Refusing(j)
      BY <1>5, <2>1, <2>3 DEF BurstBudget
    <2> QED
      BY <2>2, <2>3
  <1> QED
    BY <1>1, <1>2, <1>3, <1>6 DEF BreakerInv

LEMMA ToggleHist ==
    ASSUME HistInv, NEW k \in Keys, HToggle(k)
    PROVE  HistInv'
  <1> USE DEF HistInv, HToggle
  <1>1. BreakerInv'
    BY ToggleBreaker DEF BreakerInv
  <1>2. UNCHANGED <<failures, opened, cooling, pc, key, quiet, burst>>
    BY DEF Toggle
  <1>3. HistTypeOK' /\ CooldownFromLastFailure'
    BY <1>2 DEF HistTypeOK, CooldownFromLastFailure
  <1>4. BurstBudget'
    BY <1>2 DEF BurstBudget, Refusing, InFlight
  <1> QED
    BY <1>1, <1>3, <1>4 DEF BreakerInv

LEMMA StepHist == HistInv /\ [HistNext]_histVars => HistInv'
  <1> SUFFICES ASSUME HistInv, [HistNext]_histVars PROVE HistInv'
    OBVIOUS
  <1>1. CASE HTick
    BY <1>1, TickHist
  <1>2. CASE \E k \in Keys : HToggle(k)
    BY <1>2, ToggleHist
  <1>3. CASE \E c \in Callers : \E k \in Keys : HAttempt(c, k)
    BY <1>3, AttemptHist
  <1>4. CASE \E c \in Callers : HReply(c)
    BY <1>4, ReplyHist
  <1>5. CASE \E c \in Callers : HSuccess(c)
    BY <1>5, SuccessHist
  <1>6. CASE \E c \in Callers : HFailure(c)
    BY <1>6, FailureHist
  <1>7. CASE UNCHANGED histVars
    BY <1>7
    DEF histVars, vars, HistInv, TypeOK, OpenIffThreshold, HistTypeOK,
        CooldownFromLastFailure, BurstBudget, Refusing, InFlight
  <1> QED
    BY <1>1, <1>2, <1>3, <1>4, <1>5, <1>6, <1>7 DEF HistNext

LEMMA AlwaysHistInv == HistSpec => []HistInv
  <1>1. HistInit => HistInv
    BY InitHist
  <1>2. HistInv /\ [HistNext]_histVars => HistInv'
    BY StepHist
  <1> QED
    BY <1>1, <1>2, PTL DEF HistSpec

\* However many keys, threads and ticks: the failing calls of a key between two
\* recoveries or cooldowns are fewer than the threshold and the threads together.
THEOREM BurstIsBounded == HistSpec => []BoundedBurst
  <1>1. HistInv => BoundedBurst
    <2> SUFFICES ASSUME HistInv, NEW k \in Keys
                 PROVE  burst[k] <= FailThreshold - 1 + Cardinality(Callers)
      BY DEF BoundedBurst
    <2>1. /\ Cardinality(InFlight(k)) \in Nat
          /\ Cardinality(Callers) \in Nat
          /\ burst[k] \in Nat
          /\ failures[k] \in Nat
      BY InFlightCard, MaxFailuresAssumption DEF HistInv, HistTypeOK, TypeOK
    <2> QED
      BY <2>1, FailThresholdAssumption
      DEF HistInv, BurstBudget, OpenIffThreshold
  <1> QED
    BY <1>1, AlwaysHistInv, PTL

\* An open circuit always counts its cooldown from the last recorded failure.
THEOREM CooldownIsFromLastFailure == HistSpec => []CooldownFromLastFailure
  <1>1. HistInv => CooldownFromLastFailure
    BY DEF HistInv
  <1> QED
    BY <1>1, AlwaysHistInv, PTL

-----------------------------------------------------------------------------
(* The pool.                                                               *)

LEMMA InitInv == FanInit => FanInv
  BY MaxWorkersAssumption DEF FanInit, FanInv, FanTypeOK, TakenInOrder, Phases, NextOut

LEMMA BeginInv ==
    ASSUME FanInv, NEW list \in Seq(Items), NEW workers \in 1 .. MaxWorkers,
           Begin(list, workers)
    PROVE  FanInv'
<1>1. DOMAIN list = 1 .. Len(list) /\ Len(list) \in Nat
  OBVIOUS
<1>2. FanTypeOK'
  BY DEF Begin, FanTypeOK, States, Phases
<1>3. TakenInOrder'
  <2>1. CASE list = <<>>
    BY <2>1 DEF Begin, TakenInOrder
  <2>2. CASE list # <<>>
    <3>1. Len(list) > 0 /\ batch' = list /\ phase' = "open" /\ got' = <<>>
      BY <1>1, <2>2, EmptySeq DEF Begin
    <3> QED
      BY <1>1, <3>1 DEF TakenInOrder, NextOut
  <2> QED
    BY <2>1, <2>2
<1> QED
  BY <1>2, <1>3 DEF Begin, FanInv, Busy

\* A future that somebody works on, or will, has a caller that waits.
LEMMA LiveFuturesAreAwaited ==
    ASSUME FanInv, NEW i \in DOMAIN batch, state[i] \in {"queued", "running"}
    PROVE  phase \in Busy
<1>1. batch \in Seq(Items) /\ DOMAIN batch = 1 .. Len(batch)
  BY DEF FanInv, FanTypeOK
<1>2. phase # "idle"
  BY <1>1 DEF FanInv
<1>3. phase # "returned"
  BY <1>1 DEF FanInv, TakenInOrder
<1>4. phase # "raised"
  BY DEF FanInv, TakenInOrder, Busy
<1> QED
  BY <1>2, <1>3, <1>4 DEF FanInv, FanTypeOK, Phases, Busy

\* A change to a future that is not taken yet, and not that of a failure that is
\* being raised, leaves the caller's state as it was.
LEMMA TakenStays ==
    ASSUME FanInv, NEW i \in DOMAIN batch, state[i] \in {"queued", "running"},
           NEW s \in States \ {"queued"}, state' = [state EXCEPT ![i] = s],
           \A j \in DOMAIN batch : j # i => result'[j] = result[j],
           UNCHANGED <<batch, got, phase>>
    PROVE  TakenInOrder'
<1>0. batch \in Seq(Items) /\ got \in Seq(Results) /\ state \in [DOMAIN batch -> States]
  BY DEF FanInv, FanTypeOK
<1>1. /\ DOMAIN batch = 1 .. Len(batch) /\ Len(batch) \in Nat /\ Len(got) \in Nat
      /\ state \in [DOMAIN batch -> States]
  BY <1>0
<1>2. Len(got) <= Len(batch)
  BY DEF FanInv, TakenInOrder
<1>3. \A j \in 1 .. Len(got) : j # i /\ state'[j] = state[j] /\ result'[j] = result[j]
  BY <1>1, <1>2 DEF FanInv, TakenInOrder
<1>4. phase \in {"joining", "raised"} => i # NextOut
  BY DEF FanInv, TakenInOrder
<1> QED
  BY <1>1, <1>2, <1>3, <1>4 DEF FanInv, TakenInOrder, NextOut

LEMMA TakeInv ==
    ASSUME FanInv, NEW i \in DOMAIN batch, Take(i)
    PROVE  FanInv'
<1>1. phase \in Busy
  BY LiveFuturesAreAwaited DEF Take
<1>2. FanTypeOK'
  BY DEF FanInv, FanTypeOK, Take, States
<1>3. TakenInOrder'
  BY TakenStays DEF Take, States
<1> QED
  BY <1>1, <1>2, <1>3 DEF FanInv, FanTypeOK, Take

LEMMA FinishInv ==
    ASSUME FanInv, NEW i \in DOMAIN batch, NEW v \in ResultsOf[batch[i]], Finish(i, v)
    PROVE  FanInv'
<1>1. state[i] = "running"
  BY DEF Finish, Running
<1>2. v \in Results
  BY DEF FanInv, FanTypeOK, Results
<1>3. FanTypeOK'
  BY <1>2 DEF FanInv, FanTypeOK, Finish, States
<1>4. TakenInOrder'
  BY <1>1, TakenStays DEF Finish, FanInv, FanTypeOK, States
<1> QED
  BY <1>1, <1>3, <1>4 DEF FanInv, FanTypeOK, Finish

LEMMA FailInv ==
    ASSUME FanInv, NEW i \in DOMAIN batch, Fail(i)
    PROVE  FanInv'
<1>1. state[i] = "running"
  BY DEF Fail, Running
<1>2. FanTypeOK'
  BY DEF FanInv, FanTypeOK, Fail, States
<1>3. TakenInOrder'
  BY <1>1, TakenStays DEF Fail, States
<1> QED
  BY <1>2, <1>3 DEF FanInv, FanTypeOK, Fail

LEMMA CollectInv ==
    ASSUME FanInv, Collect
    PROVE  FanInv'
<1>1. /\ DOMAIN batch = 1 .. Len(batch) /\ Len(batch) \in Nat
      /\ got \in Seq(Results) /\ Len(got) \in Nat
      /\ NextOut \in DOMAIN batch /\ state[NextOut] = "done"
      /\ phase = "open"
      /\ UNCHANGED <<batch, width, state, result>>
  BY DEF FanInv, FanTypeOK, Collect
<1>2. result[NextOut] \in Results
  <2>1. result[NextOut] \in ResultsOf[batch[NextOut]] /\ batch[NextOut] \in Items
    BY <1>1 DEF FanInv, FanTypeOK
  <2> QED
    BY <2>1 DEF Results
<1>3. /\ got' \in Seq(Results) /\ Len(got') = Len(got) + 1
      /\ \A j \in 1 .. Len(got) : got'[j] = got[j]
      /\ got'[NextOut] = result[NextOut]
  <2> DEFINE r == result[NextOut]
  <2>1. got' = Append(got, r)
    BY DEF Collect
  <2>2. got \in Seq(Results) /\ r \in Results
    BY <1>1, <1>2
  <2> HIDE DEF r
  <2>3. /\ Append(got, r) \in Seq(Results) /\ Len(Append(got, r)) = Len(got) + 1
        /\ \A j \in 1 .. Len(got) : Append(got, r)[j] = got[j]
        /\ Append(got, r)[Len(got) + 1] = r
    BY <2>2, AppendProperties
  <2> QED
    BY <2>1, <2>3 DEF r, NextOut
<1>4. phase' \in {"open", "returned"} /\ (phase' = "returned" <=> NextOut = Len(batch))
  BY DEF Collect
<1>5. FanTypeOK'
  BY <1>1, <1>3, <1>4 DEF FanInv, FanTypeOK, Phases
<1>6. TakenInOrder'
  <2>1. NextOut = Len(got) + 1 /\ NextOut' = Len(got') + 1
    BY DEF NextOut
  <2>2. \A j \in 1 .. Len(got') : state[j] = "done" /\ got'[j] = result[j]
    <3> SUFFICES ASSUME NEW j \in 1 .. Len(got) + 1
                 PROVE  state[j] = "done" /\ got'[j] = result[j]
      BY <1>3
    <3>1. CASE j = NextOut
      BY <1>1, <1>3, <3>1
    <3>2. CASE j # NextOut
      <4>1. j \in 1 .. Len(got)
        BY <1>1, <2>1, <3>2
      <4> QED
        BY <1>3, <4>1 DEF FanInv, TakenInOrder
    <3> QED
      BY <3>1, <3>2
  <2>3. NextOut <= Len(batch) /\ Len(got') = NextOut
    BY <1>1, <1>3, <2>1
  <2>4. phase' = "open" => NextOut' \in DOMAIN batch
    <3>1. phase' = "open" => NextOut # Len(batch)
      BY <1>4
    <3>2. NextOut \in Nat /\ NextOut' = NextOut + 1
      BY <1>1, <2>1, <2>3
    <3> QED
      BY <1>1, <2>3, <3>1, <3>2
  <2>5. phase' = "returned" => Len(got') = Len(batch)
    BY <1>4, <2>3
  <2> QED
    BY <1>1, <1>4, <2>2, <2>3, <2>4, <2>5 DEF TakenInOrder
<1> QED
  BY <1>1, <1>4, <1>5, <1>6, LiveFuturesAreAwaited DEF FanInv, Busy, TakenInOrder

LEMMA CollectRaisesInv ==
    ASSUME FanInv, CollectRaises
    PROVE  FanInv'
<1>1. /\ phase = "open" /\ phase' = "joining"
      /\ NextOut \in DOMAIN batch /\ state[NextOut] = "failed"
      /\ state' = [i \in DOMAIN batch |->
                      IF state[i] = "queued" THEN "cancelled" ELSE state[i]]
      /\ UNCHANGED <<batch, width, result, got>>
  BY DEF CollectRaises
<1>2. /\ DOMAIN batch = 1 .. Len(batch) /\ Len(batch) \in Nat /\ Len(got) \in Nat
      /\ state \in [DOMAIN batch -> States]
  BY DEF FanInv, FanTypeOK
<1>3. FanTypeOK'
  BY <1>1, <1>2 DEF FanInv, FanTypeOK, States, Phases
<1>4. TakenInOrder'
  BY <1>1, <1>2 DEF FanInv, TakenInOrder, NextOut
<1> QED
  BY <1>1, <1>2, <1>3, <1>4 DEF FanInv, Busy

LEMMA JoinInv ==
    ASSUME FanInv, Join
    PROVE  FanInv'
<1>1. FanTypeOK'
  BY DEF FanInv, FanTypeOK, Join, Phases
<1>2. TakenInOrder'
  BY DEF FanInv, TakenInOrder, Join, NextOut
<1> QED
  BY <1>1, <1>2 DEF FanInv, Join, Running

LEMMA LeaveInv ==
    ASSUME FanInv, Leave
    PROVE  FanInv'
<1>1. FanTypeOK'
  BY MaxWorkersAssumption DEF FanTypeOK, Leave, Phases
<1>2. TakenInOrder'
  BY DEF TakenInOrder, Leave
<1> QED
  BY <1>1, <1>2 DEF FanInv, Leave

LEMMA NextInv ==
    ASSUME FanInv, [FanNext]_fanVars
    PROVE  FanInv'
<1>1. CASE UNCHANGED fanVars
  BY <1>1 DEF fanVars, FanInv, FanTypeOK, TakenInOrder, NextOut
<1>2. CASE FanProgress
  BY <1>2, TakeInv, FinishInv, FailInv, CollectInv, CollectRaisesInv, JoinInv
  DEF FanProgress, Iterate, Work
<1> QED
  BY <1>1, <1>2, BeginInv, LeaveInv DEF FanNext

\* The bookkeeping of list(pool.map(...)): what the caller holds are the results
\* of the first items, in their order, and nobody works on after the call has ended.
THEOREM ResultsInOrder == FanSafeSpec => []FanInv
<1>1. FanInit => FanInv
  BY InitInv
<1>2. FanInv /\ [FanNext]_fanVars => FanInv'
  BY NextInv
<1> QED
  BY <1>1, <1>2, PTL DEF FanSafeSpec

-----------------------------------------------------------------------------
(* The refinement of OrderedMap: a worker that finishes or raises settles  *)
(* an item, the last result is the return, the end of the wait for the     *)
(* pool is the raise, and every other step is invisible.                   *)

Answers == [i \in DOMAIN batch |-> Outcome(i)]
CallerHas == IF phase = "returned" THEN got ELSE IF phase = "raised" THEN Raised ELSE NoReply

LEMMA InitMaps == FanInit => Map!Init
  BY DEF FanInit, Map!Init, Busy, Outcome

LEMMA BeginMaps ==
    ASSUME FanInv, NEW list \in Seq(Items), NEW workers \in 1 .. MaxWorkers,
           Begin(list, workers)
    PROVE  Map!Ask
<1>1. Map!Idle
  BY DEF Begin, FanInv, Map!Idle
<1>2. Answers' = [i \in DOMAIN batch' |-> Pending]
  BY DEF Begin, Answers, Outcome
<1>3. (phase \in Busy)' = (batch' # <<>>)
  BY DEF Begin, Busy
<1>4. CallerHas' = IF batch' = <<>> THEN <<>> ELSE NoReply
  BY DEF Begin, CallerHas
<1> QED
  BY <1>1, <1>2, <1>3, <1>4 DEF Begin, Map!Ask, Answers, CallerHas

\* A step that changes neither outcomes nor reply is invisible.
LEMMA Invisible ==
    ASSUME FanInv, batch' = batch, (phase \in Busy)' = (phase \in Busy),
           \A i \in DOMAIN batch : Outcome(i)' = Outcome(i),
           CallerHas' = CallerHas
    PROVE  UNCHANGED Map!vars
<1>1. Answers' = Answers
  BY DEF Answers
<1> QED
  BY <1>1 DEF Map!vars, Answers, CallerHas

LEMMA TakeMaps ==
    ASSUME FanInv, NEW i \in DOMAIN batch, Take(i)
    PROVE  UNCHANGED Map!vars
<1>1. \A j \in DOMAIN batch : Outcome(j)' = Outcome(j)
  BY DEF Take, Outcome, FanInv, FanTypeOK
<1>2. CallerHas' = CallerHas /\ (phase \in Busy)' = (phase \in Busy) /\ batch' = batch
  BY DEF Take, CallerHas
<1> QED
  BY <1>1, <1>2, Invisible

\* A future that ends is an item settled.
LEMMA Settles ==
    ASSUME FanInv, NEW i \in DOMAIN batch, state[i] = "running",
           NEW v \in ResultsOf[batch[i]] \cup {Failed},
           Outcome(i)' = v,
           \A j \in DOMAIN batch : j # i => Outcome(j)' = Outcome(j),
           UNCHANGED <<batch, got, phase>>
    PROVE  Map!Settle(i)
<1>1. phase \in Busy
  BY LiveFuturesAreAwaited
<1>2. Answers[i] = Pending
  BY DEF Answers, Outcome
<1>3. Answers' = [Answers EXCEPT ![i] = v]
  BY DEF Answers
<1>4. CallerHas' = CallerHas /\ (phase \in Busy)' = (phase \in Busy)
  BY DEF CallerHas
<1> QED
  BY <1>1, <1>2, <1>3, <1>4 DEF Map!Settle, Answers, CallerHas

LEMMA FinishMaps ==
    ASSUME FanInv, NEW i \in DOMAIN batch, NEW v \in ResultsOf[batch[i]], Finish(i, v)
    PROVE  Map!Settle(i)
<1>1. state[i] = "running" /\ UNCHANGED <<batch, got, phase>>
  BY DEF Finish, Running
<1>2. Outcome(i)' = v
  BY DEF Finish, Outcome, FanInv, FanTypeOK
<1>3. \A j \in DOMAIN batch : j # i => Outcome(j)' = Outcome(j)
  BY DEF Finish, Outcome, FanInv, FanTypeOK
<1> QED
  BY <1>1, <1>2, <1>3, Settles

LEMMA FailMaps ==
    ASSUME FanInv, NEW i \in DOMAIN batch, Fail(i)
    PROVE  Map!Settle(i)
<1>1. state[i] = "running" /\ UNCHANGED <<batch, got, phase>>
  BY DEF Fail, Running
<1>2. Outcome(i)' = Failed
  BY DEF Fail, Outcome, FanInv, FanTypeOK
<1>3. \A j \in DOMAIN batch : j # i => Outcome(j)' = Outcome(j)
  BY DEF Fail, Outcome, FanInv, FanTypeOK
<1> QED
  BY <1>1, <1>2, <1>3, Settles

LEMMA CollectMaps ==
    ASSUME FanInv, Collect
    PROVE  Map!Return \/ UNCHANGED Map!vars
<1>1. \A j \in DOMAIN batch : Outcome(j)' = Outcome(j)
  BY DEF Collect, Outcome
<1>2. phase = "open" /\ UNCHANGED <<batch, state, result>>
  BY DEF Collect
<1>3. CASE NextOut # Len(batch)
  <2>1. phase' = "open"
    BY <1>3 DEF Collect
  <2>2. CallerHas' = CallerHas /\ (phase \in Busy)' = (phase \in Busy)
    BY <1>2, <2>1 DEF CallerHas
  <2> QED
    BY <1>1, <1>2, <2>2, Invisible
<1>4. CASE NextOut = Len(batch)
  <2>1. phase' = "returned"
    BY <1>4 DEF Collect
  <2>2. /\ got' \in Seq(Results) /\ Len(got') = Len(batch)
        /\ \A j \in DOMAIN batch : state[j] = "done" /\ got'[j] = result[j]
    <3>1. FanInv'
      BY CollectInv
    <3> QED
      BY <1>2, <2>1, <3>1 DEF FanInv, TakenInOrder, FanTypeOK
  <2>3. \A j \in DOMAIN batch : Outcome(j) = result[j] /\ result[j] \in Results
    <3> SUFFICES ASSUME NEW j \in DOMAIN batch
                 PROVE  Outcome(j) = result[j] /\ result[j] \in Results
      OBVIOUS
    <3>1. result[j] \in ResultsOf[batch[j]] /\ batch[j] \in Items
      BY <2>2 DEF FanInv, FanTypeOK
    <3> QED
      BY <2>2, <3>1 DEF Outcome, Results
  <2>4. got' = Answers
    <3>1. DOMAIN got' = DOMAIN batch
      BY <2>2 DEF FanInv, FanTypeOK
    <3>2. got' = [j \in DOMAIN got' |-> got'[j]]
      BY <2>2
    <3> QED
      BY <2>2, <2>3, <3>1, <3>2 DEF Answers
  <2>5. \A j \in DOMAIN batch : Answers[j] \notin {Pending, Failed}
    BY <2>3, OutcomeAssumption DEF Answers
  <2>6. Answers' = Answers
    BY <1>1, <1>2 DEF Answers
  <2>7. phase \in Busy /\ ~ (phase \in Busy)' /\ CallerHas' = got'
    BY <1>2, <2>1 DEF Busy, CallerHas
  <2> QED
    BY <1>2, <2>4, <2>5, <2>6, <2>7 DEF Map!Return, Answers, CallerHas
<1> QED
  BY <1>3, <1>4

LEMMA CollectRaisesMaps ==
    ASSUME FanInv, CollectRaises
    PROVE  UNCHANGED Map!vars
<1>1. \A j \in DOMAIN batch : Outcome(j)' = Outcome(j)
  BY DEF CollectRaises, Outcome
<1>2. CallerHas' = CallerHas /\ (phase \in Busy)' = (phase \in Busy) /\ batch' = batch
  BY DEF CollectRaises, CallerHas, Busy
<1> QED
  BY <1>1, <1>2, Invisible

LEMMA JoinMaps ==
    ASSUME FanInv, Join
    PROVE  Map!Raise
<1>1. phase = "joining" /\ phase' = "raised" /\ UNCHANGED <<batch, state, result, got>>
  BY DEF Join
<1>2. NextOut \in DOMAIN batch /\ Answers[NextOut] = Failed
  BY <1>1 DEF FanInv, TakenInOrder, Answers, Outcome
<1>3. \A j \in 1 .. NextOut - 1 : Answers[j] \notin {Pending, Failed}
  <2> SUFFICES ASSUME NEW j \in 1 .. NextOut - 1
               PROVE  Answers[j] \in Results
    BY OutcomeAssumption
  <2>1. j \in DOMAIN batch /\ j \in 1 .. Len(got)
    BY <1>2 DEF FanInv, FanTypeOK, NextOut
  <2>2. state[j] = "done" /\ result[j] \in ResultsOf[batch[j]] /\ batch[j] \in Items
    BY <2>1 DEF FanInv, FanTypeOK, TakenInOrder
  <2> QED
    BY <2>1, <2>2 DEF Answers, Outcome, Results
<1>4. Answers' = Answers
  BY <1>1 DEF Answers, Outcome
<1>5. phase \in Busy /\ ~ (phase \in Busy)' /\ CallerHas' = Raised
  BY <1>1 DEF Busy, CallerHas
<1> QED
  BY <1>1, <1>2, <1>3, <1>4, <1>5 DEF Map!Raise, Answers, CallerHas

LEMMA LeaveMaps ==
    ASSUME FanInv, Leave
    PROVE  Map!Leave
<1>1. Answers' = <<>>
  BY DEF Leave, Answers
<1>2. ~ (phase \in Busy) /\ ~ (phase \in Busy)' /\ CallerHas' = NoReply /\ batch' = <<>>
  BY DEF Leave, Busy, CallerHas
<1> QED
  BY <1>1, <1>2 DEF Map!Leave, Answers, CallerHas

LEMMA NextMaps ==
    ASSUME FanInv, [FanNext]_fanVars
    PROVE  [Map!Next]_(Map!vars)
<1>1. CASE UNCHANGED fanVars
  <2>1. \A j \in DOMAIN batch : Outcome(j)' = Outcome(j)
    BY <1>1 DEF fanVars, Outcome
  <2> QED
    BY <1>1, <2>1, Invisible DEF fanVars, CallerHas
<1>2. CASE FanProgress
  BY <1>2, TakeMaps, FinishMaps, FailMaps, CollectMaps, CollectRaisesMaps, JoinMaps
  DEF FanProgress, Iterate, Work, Map!Next, Map!Progress
<1> QED
  BY <1>1, <1>2, BeginMaps, LeaveMaps DEF FanNext, Map!Next

\* parallel_map is an ordered map: whatever the number of workers and however
\* they interleave, its results come in the order of the items, and the exception
\* it raises is that of the first item that has one.
THEOREM PoolImplementsOrderedMap == FanSafeSpec => Map!SafeSpec
<1>1. FanInit => Map!Init
  BY InitMaps
<1>2. FanInv /\ [FanNext]_fanVars => [Map!Next]_(Map!vars)
  BY NextMaps
<1> QED
  BY <1>1, <1>2, ResultsInOrder, PTL DEF FanSafeSpec, Map!SafeSpec

-----------------------------------------------------------------------------
(* Picking and ordering rows.                                              *)

Precedes(R, I, i) == {j \in I : <<j, i>> \in R}

PlaceIn(R, I, i) == 1 + Cardinality(Precedes(R, I, i))

StrictOrder(R, I) ==
    /\ \A i \in I : <<i, i>> \notin R
    /\ \A i, j, k \in I : <<i, j>> \in R /\ <<j, k>> \in R => <<i, k>> \in R
    /\ \A i, j \in I : i # j => <<i, j>> \in R \/ <<j, i>> \in R

\* Counting what precedes it numbers a finite set along an order.
LEMMA Numbered ==
    ASSUME NEW I, IsFiniteSet(I), NEW R, StrictOrder(R, I)
    PROVE  /\ Cardinality(I) \in Nat
           /\ \A i \in I : PlaceIn(R, I, i) \in 1 .. Cardinality(I)
           /\ \A i, j \in I : PlaceIn(R, I, i) < PlaceIn(R, I, j) <=> <<i, j>> \in R
           /\ \A i, j \in I : PlaceIn(R, I, i) = PlaceIn(R, I, j) => i = j
           /\ \A p \in 1 .. Cardinality(I) : \E i \in I : PlaceIn(R, I, i) = p
  <1> DEFINE n == Cardinality(I)
  <1>a. PICK place : place = [i \in I |-> PlaceIn(R, I, i)]
    OBVIOUS
  <1>b. \A i \in I : place[i] = 1 + Cardinality(Precedes(R, I, i))
    BY <1>a DEF PlaceIn
  <1>1. n \in Nat /\ IsFiniteSet(1 .. n) /\ Cardinality(1 .. n) = n
    BY FS_CardinalityType, FS_Interval
  <1>2. ASSUME NEW i \in I PROVE place[i] \in 1 .. n
    <2>1. IsFiniteSet(I \ {i}) /\ Cardinality(I \ {i}) = n - 1
      BY FS_RemoveElement
    <2>2. Precedes(R, I, i) \in SUBSET (I \ {i})
      BY DEF Precedes, StrictOrder
    <2>3. Cardinality(Precedes(R, I, i)) <= n - 1 /\ IsFiniteSet(Precedes(R, I, i))
      BY <2>1, <2>2, FS_Subset
    <2>4. Cardinality(Precedes(R, I, i)) \in Nat
      BY <2>3, FS_CardinalityType
    <2> QED
      BY <1>1, <1>b, <2>3, <2>4
  <1>3. ASSUME NEW i \in I, NEW j \in I, <<i, j>> \in R PROVE place[i] < place[j]
    <2>1. Precedes(R, I, i) \in SUBSET Precedes(R, I, j) /\ Precedes(R, I, i) # Precedes(R, I, j)
      BY <1>3 DEF Precedes, StrictOrder
    <2>2. IsFiniteSet(Precedes(R, I, i)) /\ IsFiniteSet(Precedes(R, I, j))
      BY FS_Subset DEF Precedes
    <2>3. /\ Cardinality(Precedes(R, I, i)) \in Nat /\ Cardinality(Precedes(R, I, j)) \in Nat
          /\ Cardinality(Precedes(R, I, i)) <= Cardinality(Precedes(R, I, j))
          /\ Cardinality(Precedes(R, I, i)) # Cardinality(Precedes(R, I, j))
      BY <2>1, <2>2, FS_CardinalityType, FS_Subset
    <2> QED
      BY <2>3, <1>b
  <1>4. \A i, j \in I : place[i] < place[j] <=> <<i, j>> \in R
    <2> SUFFICES ASSUME NEW i \in I, NEW j \in I, place[i] < place[j] PROVE <<i, j>> \in R
      BY <1>3
    <2>1. i # j /\ ~ (place[j] < place[i])
      BY <1>2
    <2> QED
      BY <1>3, <2>1 DEF StrictOrder
  <1>5. \A i, j \in I : place[i] = place[j] => i = j
    <2> SUFFICES ASSUME NEW i \in I, NEW j \in I, place[i] = place[j] PROVE i = j
      OBVIOUS
    <2>1. ~ (place[i] < place[j]) /\ ~ (place[j] < place[i])
      BY <1>2
    <2> QED
      BY <1>3, <2>1 DEF StrictOrder
  <1>6. place \in Injection(I, 1 .. n)
    BY <1>a, <1>2, <1>5 DEF Injection, IsInjective
  <1>7. place \in Surjection(I, 1 .. n)
    BY <1>1, <1>6, FS_Injection
  <1>8. \A p \in 1 .. n : \E i \in I : place[i] = p
    BY <1>7 DEF Surjection
  <1> QED
    BY <1>a, <1>1, <1>2, <1>4, <1>5, <1>8

\* s and what is picked of it: e says where each element comes from.
Embeds(e, r, s, I) ==
    /\ e \in [DOMAIN r -> I]
    /\ \A p \in DOMAIN r : r[p] = s[e[p]]
    /\ \A p, q \in DOMAIN r : e[p] = e[q] => p = q
    /\ \A i \in I : \E p \in DOMAIN r : e[p] = i

LEMMA PickedInOrder ==
    ASSUME NEW T, NEW s \in Seq(T), NEW I \in SUBSET (DOMAIN s)
    PROVE  /\ IsFiniteSet(I) /\ Cardinality(I) \in Nat
           /\ Picked(s, I) \in Seq(T) /\ Len(Picked(s, I)) = Cardinality(I)
           /\ DOMAIN Picked(s, I) = 1 .. Cardinality(I)
           /\ \E e : /\ Embeds(e, Picked(s, I), s, I)
                     /\ \A p, q \in DOMAIN Picked(s, I) : p < q => e[p] < e[q]
  <1>a. PICK R : R = {ij \in I \X I : ij[1] < ij[2]}
    OBVIOUS
  <1>c. PICK n : n = Cardinality(I)
    OBVIOUS
  <1>d. PICK e : e = [p \in 1 .. n |-> CHOOSE i \in I : Cardinality({j \in I : j <= i}) = p]
    OBVIOUS
  <1>e. PICK r : r = Picked(s, I)
    OBVIOUS
  <1>1. DOMAIN s = 1 .. Len(s) /\ Len(s) \in Nat /\ I \subseteq Int
    BY LenProperties
  <1>2. IsFiniteSet(I)
    <2>1. IsFiniteSet(1 .. Len(s)) /\ I \in SUBSET (1 .. Len(s))
      BY <1>1, FS_Interval
    <2> QED
      BY <2>1, FS_Subset
  <1>3. \A i, j \in I : <<i, j>> \in R <=> i < j
    BY <1>a
  <1>4. StrictOrder(R, I)
    BY <1>1, <1>3 DEF StrictOrder
  <1>5. /\ n \in Nat
        /\ \A i \in I : PlaceIn(R, I, i) \in 1 .. n
        /\ \A i, j \in I : PlaceIn(R, I, i) < PlaceIn(R, I, j) <=> <<i, j>> \in R
        /\ \A i, j \in I : PlaceIn(R, I, i) = PlaceIn(R, I, j) => i = j
        /\ \A p \in 1 .. n : \E i \in I : PlaceIn(R, I, i) = p
    BY <1>c, <1>2, <1>4, Numbered
  <1>6. ASSUME NEW i \in I PROVE Cardinality({j \in I : j <= i}) = PlaceIn(R, I, i)
    <2>1. {j \in I : j <= i} = Precedes(R, I, i) \cup {i} /\ i \notin Precedes(R, I, i)
      BY <1>1, <1>3 DEF Precedes
    <2>2. IsFiniteSet(Precedes(R, I, i)) /\ Cardinality(Precedes(R, I, i)) \in Nat
      BY <1>2, FS_Subset, FS_CardinalityType DEF Precedes
    <2>3. Cardinality(Precedes(R, I, i) \cup {i}) = Cardinality(Precedes(R, I, i)) + 1
      BY <2>1, <2>2, FS_AddElement
    <2>4. Cardinality({j \in I : j <= i}) = Cardinality(Precedes(R, I, i)) + 1
      BY <2>1, <2>3
    <2> QED
      BY <2>2, <2>4 DEF PlaceIn
  <1>7. ASSUME NEW p \in 1 .. n PROVE e[p] \in I /\ PlaceIn(R, I, e[p]) = p
    <2>1. \E i \in I : Cardinality({j \in I : j <= i}) = p
      BY <1>5, <1>6
    <2>2. e[p] \in I /\ Cardinality({j \in I : j <= e[p]}) = p
      BY <1>d, <2>1
    <2> QED
      BY <1>6, <2>2
  <1>8. r = [p \in 1 .. n |-> s[e[p]]]
    BY <1>c, <1>d, <1>e DEF Picked
  <1>9. \A p \in 1 .. n : s[e[p]] \in T
    BY <1>1, <1>7, ElementOfSeq
  <1>10. r \in Seq(T) /\ Len(r) = n /\ DOMAIN r = 1 .. n
    <2>1. r \in [1 .. n -> T]
      BY <1>8, <1>9
    <2>2. r \in Seq(T)
      BY <1>5, <2>1, SeqDef
    <2> QED
      BY <1>5, <1>8, <2>2, LenProperties
  <1>11. Embeds(e, r, s, I)
    <2>1. e \in [1 .. n -> I]
      BY <1>7, <1>d
    <2>2. \A i \in I : \E p \in 1 .. n : e[p] = i
      BY <1>5, <1>7
    <2> QED
      BY <1>7, <1>8, <1>10, <2>1, <2>2 DEF Embeds
  <1>12. \A p, q \in DOMAIN r : p < q => e[p] < e[q]
    BY <1>3, <1>5, <1>7, <1>10
  <1> QED
    BY <1>c, <1>e, <1>2, <1>5, <1>10, <1>11, <1>12

\* What is picked are elements of s, at indices in I, and only those.
LEMMA PickedElements ==
    ASSUME NEW T, NEW s \in Seq(T), NEW I \in SUBSET (DOMAIN s)
    PROVE  /\ Picked(s, I) \in Seq(T)
           /\ \A p \in DOMAIN Picked(s, I) : \E i \in I : Picked(s, I)[p] = s[i]
           /\ \A i \in I : \E p \in DOMAIN Picked(s, I) : Picked(s, I)[p] = s[i]
           /\ (\A i, j \in I : s[i] = s[j] => i = j) =>
                 \A p, q \in DOMAIN Picked(s, I) : Picked(s, I)[p] = Picked(s, I)[q] => p = q
  <1>1. PICK e : Embeds(e, Picked(s, I), s, I)
    BY PickedInOrder
  <1> QED
    BY <1>1, PickedInOrder DEF Embeds

LEMMA AmongElements ==
    ASSUME NEW T, NEW s \in Seq(T), NEW S
    PROVE  /\ Among(s, S) \in Seq(T)
           /\ \A p \in DOMAIN Among(s, S) : Among(s, S)[p] \in S
                                           /\ \E i \in DOMAIN s : Among(s, S)[p] = s[i]
           /\ \A i \in DOMAIN s : s[i] \in S => \E p \in DOMAIN Among(s, S) : Among(s, S)[p] = s[i]
           /\ (\A i, j \in DOMAIN s : s[i] = s[j] => i = j) =>
                 \A p, q \in DOMAIN Among(s, S) : Among(s, S)[p] = Among(s, S)[q] => p = q
  <1>1. PICK I \in SUBSET (DOMAIN s) : I = {i \in DOMAIN s : s[i] \in S}
    OBVIOUS
  <1>2. Among(s, S) = Picked(s, I)
    BY <1>1 DEF Among
  <1>3. \A i \in I : i \in DOMAIN s /\ s[i] \in S
    BY <1>1
  <1>4. \A i \in DOMAIN s : s[i] \in S => i \in I
    BY <1>1
  <1>5. PICK r : r = Picked(s, I)
    OBVIOUS
  <1>6. /\ r \in Seq(T)
        /\ \A p \in DOMAIN r : \E i \in I : r[p] = s[i]
        /\ \A i \in I : \E p \in DOMAIN r : r[p] = s[i]
        /\ (\A i, j \in I : s[i] = s[j] => i = j) => \A p, q \in DOMAIN r : r[p] = r[q] => p = q
    BY SMTT(30), <1>5, PickedElements
  <1>7. \A p \in DOMAIN r : r[p] \in S /\ \E i \in DOMAIN s : r[p] = s[i]
    BY <1>3, <1>6
  <1>8. \A i \in DOMAIN s : s[i] \in S => \E p \in DOMAIN r : r[p] = s[i]
    BY <1>4, <1>6
  <1>9. (\A i, j \in DOMAIN s : s[i] = s[j] => i = j) => \A p, q \in DOMAIN r : r[p] = r[q] => p = q
    BY <1>3, <1>6
  <1>10. r = Among(s, S)
    BY <1>2, <1>5
  <1> QED
    BY <1>6, <1>7, <1>8, <1>9, <1>10

\* A ranking is a permutation in which nothing stands before what is above it,
\* and equal rows keep their order.
LEMMA RankedInOrder ==
    ASSUME NEW T, NEW s \in Seq(T), NEW k,
           \A i \in DOMAIN s : k[i][1] \in Int /\ k[i][2] \in Int
    PROVE  /\ Ranked(s, k) \in Seq(T) /\ Len(Ranked(s, k)) = Len(s)
           /\ DOMAIN Ranked(s, k) = DOMAIN s
           /\ \E e : /\ Embeds(e, Ranked(s, k), s, DOMAIN s)
                     /\ \A p, q \in DOMAIN s : p < q => ~ Above(k[e[q]], k[e[p]])
  <1> DEFINE Before(j, i) == Above(k[j], k[i]) \/ (j < i /\ ~ Above(k[i], k[j]))
  <1>a. PICK n : n = Len(s)
    OBVIOUS
  <1>b. PICK I : I = 1 .. n
    OBVIOUS
  <1>c. PICK R : R = {ij \in I \X I : Before(ij[1], ij[2])}
    OBVIOUS
  <1>e. PICK e : e = [p \in I |-> CHOOSE i \in I : 1 + Cardinality({j \in I : Before(j, i)}) = p]
    OBVIOUS
  <1>f. PICK r : r = Ranked(s, k)
    OBVIOUS
  <1>1. DOMAIN s = I /\ n \in Nat /\ I \subseteq Int
    BY <1>a, <1>b, LenProperties
  <1>2. IsFiniteSet(I) /\ Cardinality(I) = n
    BY <1>b, <1>1, FS_Interval
  <1>3. \A i, j \in I : <<i, j>> \in R <=> Before(i, j)
    BY <1>c
  <1>4. StrictOrder(R, I)
    <2>1. \A i \in I : k[i][1] \in Int /\ k[i][2] \in Int
      BY <1>1
    <2>2. \A i \in I : <<i, i>> \notin R
      BY <1>1, <1>3, <2>1 DEF Above
    <2>3. \A i, j, l \in I : <<i, j>> \in R /\ <<j, l>> \in R => <<i, l>> \in R
      <3> SUFFICES ASSUME NEW i \in I, NEW j \in I, NEW l \in I, Before(i, j), Before(j, l)
                   PROVE  Before(i, l)
        BY <1>3
      <3>a. PICK a1, a2, b1, b2, c1, c2 : /\ a1 = k[i][1] /\ a2 = k[i][2]
                                          /\ b1 = k[j][1] /\ b2 = k[j][2]
                                          /\ c1 = k[l][1] /\ c2 = k[l][2]
        OBVIOUS
      <3>1. /\ i \in Int /\ j \in Int /\ l \in Int
            /\ a1 \in Int /\ a2 \in Int /\ b1 \in Int /\ b2 \in Int /\ c1 \in Int /\ c2 \in Int
        BY <1>1, <2>1, <3>a
      <3>2. \/ a1 > b1 \/ (a1 = b1 /\ a2 > b2)
            \/ i < j /\ ~ (b1 > a1 \/ (b1 = a1 /\ b2 > a2))
        BY <3>a DEF Above
      <3>3. \/ b1 > c1 \/ (b1 = c1 /\ b2 > c2)
            \/ j < l /\ ~ (c1 > b1 \/ (c1 = b1 /\ c2 > b2))
        BY <3>a DEF Above
      <3>4. \/ a1 > c1 \/ (a1 = c1 /\ a2 > c2)
            \/ i < l /\ ~ (c1 > a1 \/ (c1 = a1 /\ c2 > a2))
        BY <3>1, <3>2, <3>3
      <3> QED
        BY <3>a, <3>4 DEF Above
    <2>4. \A i, j \in I : i # j => <<i, j>> \in R \/ <<j, i>> \in R
      BY SMTT(30), <1>1, <1>3, <2>1 DEF Above
    <2> QED
      BY <2>2, <2>3, <2>4 DEF StrictOrder
  <1>5. ASSUME NEW i \in I PROVE {j \in I : Before(j, i)} = Precedes(R, I, i)
    BY <1>3 DEF Precedes
  <1>6. r = [p \in I |-> s[e[p]]]
    BY <1>e, <1>f, <1>1 DEF Ranked
  <1> HIDE DEF Before
  <1>9. /\ \A i \in I : PlaceIn(R, I, i) \in I
        /\ \A i, j \in I : PlaceIn(R, I, i) < PlaceIn(R, I, j) <=> <<i, j>> \in R
        /\ \A i, j \in I : PlaceIn(R, I, i) = PlaceIn(R, I, j) => i = j
        /\ \A p \in I : \E i \in I : PlaceIn(R, I, i) = p
    BY SMTT(30), <1>b, <1>1, <1>2, <1>4, Numbered
  <1>10. ASSUME NEW p \in I PROVE e[p] \in I /\ PlaceIn(R, I, e[p]) = p
    <2>1. PICK i \in I : PlaceIn(R, I, i) = p
      BY <1>9
    <2>2. 1 + Cardinality({j \in I : Before(j, i)}) = p
      BY <1>5, <2>1 DEF PlaceIn
    <2>3. e[p] \in I /\ 1 + Cardinality({j \in I : Before(j, e[p])}) = p
      BY <1>e, <2>2
    <2> QED
      BY <1>5, <2>3 DEF PlaceIn
  <1>11. \A p \in I : s[e[p]] \in T
    BY <1>a, <1>b, <1>10, ElementOfSeq
  <1>12. r \in Seq(T) /\ Len(r) = n /\ DOMAIN r = I
    <2>1. r \in [1 .. n -> T]
      BY <1>b, <1>6, <1>11
    <2>2. r \in Seq(T)
      BY <1>1, <2>1, SeqDef
    <2> QED
      BY <1>b, <1>1, <1>6, <2>2, LenProperties
  <1>13. Embeds(e, r, s, DOMAIN s)
    <2>1. e \in [I -> I]
      BY <1>e, <1>10
    <2>2. \A i \in I : \E p \in I : e[p] = i
      BY <1>9, <1>10
    <2>3. \A p, q \in I : e[p] = e[q] => p = q
      BY <1>10
    <2>4. \A p \in I : r[p] = s[e[p]]
      BY <1>6
    <2> QED
      BY <1>1, <1>12, <2>1, <2>2, <2>3, <2>4 DEF Embeds
  <1>14. ASSUME NEW p \in I, NEW q \in I, p < q PROVE ~ Above(k[e[q]], k[e[p]])
    <2>1. Before(e[p], e[q])
      BY <1>3, <1>9, <1>10, <1>14
    <2>2. k[e[p]][1] \in Int /\ k[e[p]][2] \in Int /\ k[e[q]][1] \in Int /\ k[e[q]][2] \in Int
      BY <1>1, <1>10
    <2>3. Above(k[e[p]], k[e[q]]) \/ ~ Above(k[e[q]], k[e[p]])
      BY <2>1 DEF Before
    <2> QED
      BY <2>2, <2>3 DEF Above
  <1> QED
    BY <1>a, <1>f, <1>1, <1>12, <1>13, <1>14

LEMMA UpToPrefix ==
    ASSUME NEW T, NEW s \in Seq(T), NEW limit \in Int
    PROVE  /\ UpTo(limit, s) \in Seq(T)
           /\ DOMAIN UpTo(limit, s) = 1 .. Len(UpTo(limit, s))
           /\ Len(UpTo(limit, s)) \in 0 .. Len(s)
           /\ limit >= 1 => Len(UpTo(limit, s)) <= limit
           /\ Len(UpTo(limit, s)) < Len(s) => Len(UpTo(limit, s)) >= limit
           /\ \A p \in 1 .. Len(UpTo(limit, s)) : UpTo(limit, s)[p] = s[p]
  <1> DEFINE n == IF limit > 1 THEN limit ELSE 1
             m == IF n < Len(s) THEN n ELSE Len(s)
  <1>1. Len(s) \in Nat /\ m \in 0 .. Len(s) /\ UpTo(limit, s) = SubSeq(s, 1, m)
    BY LenProperties DEF UpTo
  <1>2. \A i \in 1 .. m : s[i] \in T
    BY <1>1, ElementOfSeq
  <1>3. /\ SubSeq(s, 1, m) \in Seq(T)
        /\ Len(SubSeq(s, 1, m)) = m
        /\ \A i \in 1 .. m : SubSeq(s, 1, m)[i] = s[i]
    BY <1>1, <1>2, SubSeqProperties
  <1> QED
    BY <1>1, <1>3, LenProperties
-----------------------------------------------------------------------------
(* The walk to the latest sessions.                                        *)

WalkInv ==
    /\ scan \in {"none", "walking", "ranking", "listed", "unavailable", "refused"}
    /\ weekday \in 0 .. 6
    /\ back \in 0 .. Lookback
    /\ rows \in Days \cup {NoRows}
    /\ failing \in BOOLEAN
    /\ found \in Seq(Session) /\ Len(found) <= Count
    /\ void \subseteq Days
    /\ scan = "none" => found = <<>> /\ back = 0
    /\ \A k \in DOMAIN found :
          /\ found[k].of = found[k].day /\ IsWeekday(found[k].day)
          /\ found[k].day < back
    /\ \A k, l \in DOMAIN found : k < l => found[k].day < found[l].day
    /\ \A d \in Days :
          /\ d \in void => d < back
          /\ (IsWeekday(d) /\ d < back) => (d \in void <=> \A k \in DOMAIN found : found[k].day # d)

LEMMA FoundDays ==
    ASSUME found \in Seq(Session)
    PROVE  \A k \in DOMAIN found : found[k].day \in Int
  <1>1. \A k \in DOMAIN found : found[k] \in Session
    BY LenProperties, ElementOfSeq
  <1>2. \A s \in Session : s.day \in Days
    BY DEF Session
  <1> QED
    BY <1>1, <1>2 DEF Days

\* Before the first day.
LEMMA NothingFound ==
    /\ 0 \in 0 .. Lookback /\ 0 \in 0 .. 6
    /\ <<>> \in Seq(Session) /\ Len(<<>>) <= Count /\ DOMAIN <<>> = {}
    /\ \A d \in Days : ~ (d < 0)
  BY ScanAssumption, EmptySeq DEF Days, Count

\* A session that is found is newer than none of those found before.
LEMMA SessionFound ==
    ASSUME WalkInv, Len(found) < Count, back \in Days, IsWeekday(back),
           found' = Append(found, [day |-> back, of |-> back]),
           back' = back + 1, void' = void, weekday' = weekday
    PROVE  /\ found' \in Seq(Session) /\ Len(found') <= Count
           /\ \A k \in DOMAIN found' :
                 /\ found'[k].of = found'[k].day /\ IsWeekday(found'[k].day)
                 /\ found'[k].day < back'
           /\ \A k, l \in DOMAIN found' : k < l => found'[k].day < found'[l].day
           /\ \A d \in Days :
                 /\ d \in void' => d < back'
                 /\ (IsWeekday(d) /\ d < back') =>
                       (d \in void' <=> \A k \in DOMAIN found' : found'[k].day # d)
  <1> DEFINE n == Len(found)
  <1>1. PICK session : session = [day |-> back, of |-> back]
    OBVIOUS
  <1>2. session \in Session /\ session.day = back /\ session.of = back
    BY <1>1 DEF Session
  <1>3. found \in Seq(Session) /\ n \in Nat /\ DOMAIN found = 1 .. n
    BY LenProperties DEF WalkInv
  <1>4. /\ found' \in Seq(Session) /\ Len(found') = n + 1
        /\ \A i \in 1 .. n : found'[i] = found[i]
        /\ found'[n + 1] = session
    BY <1>1, <1>2, <1>3, AppendProperties
  <1>5. DOMAIN found' = 1 .. n + 1
    BY <1>4, LenProperties
  <1>6. \A k \in 1 .. n : found[k].day \in Int
    BY <1>3, FoundDays
  <1>7. \A k \in DOMAIN found' : k \in 1 .. n \/ k = n + 1
    BY <1>3, <1>5
  <1>8. back \in Int
    BY DEF Days
  <1>9. \A k \in DOMAIN found' :
              /\ found'[k].of = found'[k].day /\ IsWeekday(found'[k].day)
              /\ found'[k].day < back'
    BY <1>2, <1>3, <1>4, <1>6, <1>7, <1>8 DEF WalkInv
  <1>10. \A k, l \in DOMAIN found' : k < l => found'[k].day < found'[l].day
    <2> SUFFICES ASSUME NEW k \in DOMAIN found', NEW l \in DOMAIN found', k < l
                 PROVE  found'[k].day < found'[l].day
      OBVIOUS
    <2>1. k \in 1 .. n
      BY <1>3, <1>5
    <2>2. CASE l \in 1 .. n
      BY <1>3, <1>4, <2>1, <2>2 DEF WalkInv
    <2>3. CASE l = n + 1
      BY <1>2, <1>3, <1>4, <2>1, <2>3 DEF WalkInv
    <2> QED
      BY <1>7, <2>2, <2>3
  <1>11. \A d \in Days :
              /\ d \in void' => d < back'
              /\ (IsWeekday(d) /\ d < back') =>
                    (d \in void' <=> \A k \in DOMAIN found' : found'[k].day # d)
    <2> SUFFICES ASSUME NEW d \in Days
                 PROVE  /\ d \in void => d < back + 1
                        /\ (IsWeekday(d) /\ d < back + 1) =>
                              (d \in void <=> \A k \in DOMAIN found' : found'[k].day # d)
      OBVIOUS
    <2>1. d \in Int /\ back \in Int
      BY DEF Days
    <2>2. d \in void => d < back
      BY DEF WalkInv
    <2>3. (\A k \in DOMAIN found' : found'[k].day # d) <=>
             d # back /\ \A k \in DOMAIN found : found[k].day # d
      BY <1>2, <1>3, <1>4, <1>5, <1>7
    <2>4. CASE d = back
      BY <2>1, <2>2, <2>3, <2>4
    <2>5. CASE d # back
      BY <2>1, <2>2, <2>3, <2>5 DEF WalkInv
    <2> QED
      BY <2>4, <2>5
  <1> QED
    BY <1>3, <1>4, <1>9, <1>10, <1>11 DEF Count

LEMMA WalkDayInv == WalkInv /\ WalkDay => WalkInv'
  <1> SUFFICES ASSUME WalkInv, WalkDay PROVE WalkInv'
    OBVIOUS
  <1>1. /\ Lookback \in Nat /\ NoRows \notin Nat
        /\ back \in Nat /\ back < Lookback /\ back \in Days /\ Len(found) < Count
        /\ back' = back + 1 /\ weekday' = weekday /\ scan' = scan /\ scan = "walking"
    BY ScanAssumption DEF WalkInv, WalkDay, Walking, Days
  <1>2. back' \in 0 .. Lookback
    BY <1>1
  <1>3. \A d \in Days : d \in Int
    BY DEF Days
  <1>4. ASSUME ~ IsWeekday(back) PROVE WalkInv'
    <2>1. UNCHANGED <<rows, found, failing, void>>
      BY <1>4 DEF WalkDay
    <2>2. found \in Seq(Session) /\ \A k \in DOMAIN found : found[k].day \in Int
      BY FoundDays DEF WalkInv
    <2>3. \A d \in Days : IsWeekday(d) /\ d < back + 1 => d < back
      BY <1>1, <1>3, <1>4
    <2> QED
      BY <1>1, <1>2, <1>3, <2>1, <2>2, <2>3 DEF WalkInv, IsWeekday
  <1>5. ASSUME IsWeekday(back), rows' = back, void' = void PROVE WalkInv'
    <2>1. found' = Append(found, [day |-> back, of |-> back]) /\ failing' \in BOOLEAN
      BY <1>1, <1>5 DEF WalkDay, WalkInv
    <2>2. \A d : IsWeekday(d)' <=> IsWeekday(d)
      BY <1>1 DEF IsWeekday
    <2> QED
      BY <1>1, <1>2, <1>5, <2>1, <2>2, SessionFound DEF WalkInv, IsWeekday
  <1>6. ASSUME IsWeekday(back), rows' = NoRows, void' = void \cup {back} PROVE WalkInv'
    <2>1. found' = found /\ failing' \in BOOLEAN
      BY <1>6 DEF WalkDay, WalkInv
    <2>2. found \in Seq(Session) /\ \A k \in DOMAIN found : found[k].day \in Int
      BY FoundDays DEF WalkInv
    <2>3. \A k \in DOMAIN found : found[k].day < back + 1 /\ found[k].day # back
      BY <1>1, <2>2 DEF WalkInv
    <2>4. \A d \in Days : d < back + 1 => d < back \/ d = back
      BY <1>1, <1>3
    <2>5. \A d \in void : d < back + 1
      BY <1>1, <1>3 DEF WalkInv
    <2> QED
      BY <1>1, <1>2, <1>6, <2>1, <2>2, <2>3, <2>4, <2>5 DEF WalkInv, IsWeekday
  <1>7. IsWeekday(back) => \/ rows' = back /\ void' = void
                           \/ rows' = NoRows /\ void' = void \cup {back}
    BY <1>1 DEF WalkDay, RowsOfFailure
  <1> QED
    BY <1>4, <1>5, <1>6, <1>7

LEMMA ScanStepInv == WalkInv /\ [ScanNext]_scanVars => WalkInv'
  <1> SUFFICES ASSUME WalkInv, [ScanNext]_scanVars PROVE WalkInv'
    OBVIOUS
  <1>1. CASE AskHits
    BY <1>1, NothingFound DEF AskHits, WalkInv
  <1>2. CASE TooFew \/ WalkBreaks
    BY <1>2 DEF TooFew, WalkBreaks, Walking, WalkInv, IsWeekday
  <1>3. ASSUME WalkIsOver, scan' \in {"none", "ranking"} PROVE WalkInv'
    <2>1. found' = <<>> /\ back' = 0 /\ void' = {} /\ weekday' = 0
          /\ rows' = NoRows /\ failing' = FALSE
      BY <1>3 DEF WalkIsOver
    <2> QED
      BY <1>3, <2>1, NothingFound DEF WalkInv
  <1>4. CASE Compare
    BY <1>3, <1>4 DEF Compare
  <1>5. CASE SendHits
    BY <1>3, <1>5 DEF SendHits
  <1>6. CASE ListHits
    BY <1>6 DEF ListHits, WalkInv, IsWeekday
  <1>7. CASE UNCHANGED scanVars
    BY <1>7 DEF scanVars, WalkInv, IsWeekday
  <1> QED
    BY <1>1, <1>2, <1>4, <1>5, <1>6, <1>7, WalkDayInv DEF ScanNext

LEMMA AlwaysWalkInv == PagesSpec => []WalkInv
<1>1. PagesInit => WalkInv
  <2> SUFFICES ASSUME ScanInit PROVE WalkInv
    BY DEF PagesInit
  <2> QED
    BY NothingFound DEF ScanInit, WalkInv
<1>2. WalkInv /\ [PagesNext]_pageVars => WalkInv'
  <2>1. [PagesNext]_pageVars => [ScanNext]_scanVars
    BY DEF PagesNext, pageVars
  <2> QED
    BY <2>1, ScanStepInv
<1> QED
  BY <1>1, <1>2, PTL DEF PagesSpec

\* Whatever day it is and whichever calls are refused, find nothing or break the
\* walk: the sessions of recent_trading_days are each of their own day, none of a
\* weekend, newest first, and every weekday between them that is passed by was
\* asked for in vain.
THEOREM WalkFindsSessions == PagesSpec => []SessionsAreTheirOwn
<1>1. WalkInv => SessionsAreTheirOwn
  BY DEF WalkInv, SessionsAreTheirOwn
<1> QED
  BY <1>1, AlwaysWalkInv, PTL

-----------------------------------------------------------------------------
(* The pages: their steps are steps of the pool.                           *)

LEMMA SameElements ==
    ASSUME NEW s \in Seq(Instruments)
    PROVE  {s[i] : i \in DOMAIN s} = {x \in Instruments : \E i \in DOMAIN s : s[i] = x}
  <1>1. \A i \in DOMAIN s : s[i] \in Instruments
    BY LenProperties, ElementOfSeq
  <1> QED
    BY <1>1

LEMMA WiderSeq ==
    ASSUME NEW S, NEW T, S \subseteq T, NEW s \in Seq(S)
    PROVE  s \in Seq(T)
  <1>1. Len(s) \in Nat /\ DOMAIN s = 1 .. Len(s) /\ s \in [1 .. Len(s) -> S]
    BY LenProperties
  <1>2. s \in [1 .. Len(s) -> T]
    BY <1>1
  <1> QED
    BY <1>1, <1>2, SeqDef

LEMMA BriefItems == ASSUME NEW x PROVE BriefParts(x) \in Seq(ItemsOf("brief"))
  <1>1. PICK T : T = {"regime", "price", "positioning", "curve", "headlines"}
    OBVIOUS
  <1>2. PICK a, b, c, d : /\ a = <<"regime", "price">>
                          /\ b = IF x \in CotCoded THEN <<"positioning">> ELSE <<>>
                          /\ c = IF x \in Curved THEN <<"curve">> ELSE <<>>
                          /\ d = <<"headlines">>
    OBVIOUS
  <1>3. a \in Seq(T) /\ d \in Seq(T)
    BY <1>1, <1>2
  <1>4. b \in Seq(T) /\ c \in Seq(T)
    BY <1>1, <1>2
  <1>5. a \o b \in Seq(T)
    BY <1>3, <1>4, ConcatProperties
  <1>6. (a \o b) \o c \in Seq(T)
    BY <1>4, <1>5, ConcatProperties
  <1>7. ((a \o b) \o c) \o d \in Seq(T)
    BY <1>3, <1>6, ConcatProperties
  <1>8. BriefParts(x) = ((a \o b) \o c) \o d
    BY <1>2 DEF BriefParts
  <1>9. ItemsOf("brief") = T
    BY <1>1 DEF ItemsOf
  <1> QED
    BY <1>7, <1>8, <1>9

LEMMA ListItems ==
    ASSUME tracked \in Seq(Instruments), NEW v \in RowViews \ {"brief"}
    PROVE  ListOf(v) \in Seq(ItemsOf(v))
  <1>1. CASE v \in {"watchlist", "custom", "volatility"}
    BY <1>1 DEF ListOf, ItemsOf
  <1>2. CASE v = "cot"
    BY <1>2, AmongElements DEF ListOf, ItemsOf, CotItems
  <1>3. CASE v = "screen"
    BY <1>3, AmongElements DEF ListOf, ItemsOf, ScreenItems
  <1>4. CASE v = "sectors"
    BY <1>4, SectorEtfsAssumption DEF ListOf, ItemsOf
  <1>5. CASE v = "macro"
    <2>1. PICK T : T = {Panels[i] : i \in DOMAIN Panels}
      OBVIOUS
    <2>2. Panels \in Seq(T)
      BY <2>1 DEF Panels
    <2> QED
      BY <1>5, <2>1, <2>2 DEF ListOf, ItemsOf
  <1>6. CASE v = "curves"
    <2>1. PICK T : T = {CurveRoots[i] : i \in DOMAIN CurveRoots}
      OBVIOUS
    <2>2. CurveRoots \in Seq(T)
      BY <2>1 DEF CurveRoots
    <2> QED
      BY <1>6, <2>1, <2>2 DEF ListOf, ItemsOf
  <1> QED
    BY <1>1, <1>2, <1>3, <1>4, <1>5, <1>6 DEF RowViews

LEMMA InstrumentsAreItems == Instruments \subseteq Items
  <1>1. "watchlist" \in RowViews /\ ItemsOf("watchlist") = Instruments
    BY DEF RowViews, ItemsOf
  <1> QED
    BY <1>1, RowsAssumption

LEMMA SectorsAreItems == SectorEtfs \in Seq(Items) /\ SectorEtfs \in Seq(ItemsOf("sectors"))
  <1>1. "sectors" \in RowViews /\ SectorEtfs \in Seq(ItemsOf("sectors"))
    BY SectorEtfsAssumption DEF RowViews, ItemsOf
  <1> QED
    BY <1>1, RowsAssumption, WiderSeq

\* The row that a worker leaves is one that fn may return.
LEMMA FinishedRow ==
    ASSUME PagesInv, NEW i \in DOMAIN batch, view \in RowViews, i \in Running,
           NEW failed \in SUBSET Calls(view, batch[i]), NEW figure \in FiguresOf(view),
           saw[i] = {} \/ failed = {}
    PROVE  /\ RowOf(batch[i], saw[i] \cup failed, figure) \in ResultsOf[batch[i]]
           /\ saw[i] \in {{}, {"gone"}} /\ saw[i] \cup failed \in (SUBSET Calls(view, batch[i])) \cup {{"gone"}}
  <1>1. saw[i] \in {{}, {"gone"}} /\ batch[i] \in ItemsOf(view)
    BY DEF PagesInv, RowsInv, Running
  <1>2. saw[i] \cup failed \in (SUBSET Calls(view, batch[i])) \cup {{"gone"}}
    BY <1>1
  <1>3. RowOf(batch[i], saw[i] \cup failed, figure) \in RowsOf(view, batch[i])
    BY <1>2 DEF RowsOf
  <1> QED
    BY <1>1, <1>2, <1>3, RowsAssumption

LEMMA RowsAreFanSteps == PagesInv /\ (ViewsNext \/ RowProgress) => [FanNext]_fanVars
  <1> SUFFICES ASSUME PagesInv, ViewsNext \/ RowProgress PROVE [FanNext]_fanVars
    OBVIOUS
  <1>0. tracked \in Seq(Instruments) /\ MaxWorkers \in 1 .. MaxWorkers /\ 1 \in 1 .. MaxWorkers
    BY MaxWorkersAssumption DEF PagesInv, ViewsTypeOK
  <1>1. CASE \E x \in Instruments : Untrack(x)
    BY <1>1 DEF Untrack
  <1>2. ASSUME NEW v \in RowViews, NEW list \in Seq(ItemsOf(v)), NEW x, Ask(v, list, x)
        PROVE  FanNext
    <2>1. list \in Seq(Items)
      BY RowsAssumption, WiderSeq
    <2>2. WidthOf(v) \in 1 .. MaxWorkers
      BY <1>0 DEF WidthOf
    <2> QED
      BY <1>2, <2>1, <2>2 DEF Ask, FanNext
  <1>3. CASE AskView
    BY <1>0, <1>2, <1>3, ListItems DEF AskView
  <1>4. CASE AskBrief
    <2>1. "brief" \in RowViews
      BY DEF RowViews
    <2> QED
      BY <1>2, <1>4, <2>1, BriefItems DEF AskBrief
  <1>5. ASSUME NEW i \in DOMAIN batch, TakeRow(i) PROVE FanNext
    BY <1>5 DEF TakeRow, FanNext, FanProgress, Work
  <1>6. ASSUME NEW i \in DOMAIN batch, FinishRow(i) PROVE FanNext
    <2>1. PICK failed \in SUBSET Calls(view, batch[i]), figure \in FiguresOf(view) :
               /\ saw[i] = {} \/ failed = {}
               /\ saw' = [saw EXCEPT ![i] = @ \cup failed]
               /\ Finish(i, RowOf(batch[i], saw'[i], figure))
      BY <1>6 DEF FinishRow
    <2>2. view \in RowViews /\ i \in Running /\ i \in DOMAIN saw
      BY <1>6, <2>1 DEF FinishRow, Finish, PagesInv, RowsInv
    <2>3. saw'[i] = saw[i] \cup failed
      BY <2>1, <2>2
    <2>4. RowOf(batch[i], saw'[i], figure) \in ResultsOf[batch[i]]
      BY <2>1, <2>2, <2>3, FinishedRow
    <2> QED
      BY <2>1, <2>4 DEF FanNext, FanProgress, Work
  <1>7. CASE Iterate
    BY <1>7 DEF FanNext, FanProgress
  <1>8. CASE MapItems
    <2>1. CASE view = "none" /\ Begin(SectorEtfs, MaxWorkers)
      BY <1>0, <2>1, SectorsAreItems DEF FanNext
    <2>2. ASSUME NEW i \in DOMAIN batch, Take(i) \/ Fail(i) PROVE FanNext
      BY <2>2 DEF FanNext, FanProgress, Work
    <2>3. ASSUME view = "map", NEW i \in DOMAIN batch, Finish(i, RowOf(batch[i], {}, NoFigure))
          PROVE  FanNext
      <3>1. batch = SectorEtfs
        BY <2>3 DEF PagesInv, RequestsInv
      <3>2. batch[i] \in ItemsOf("sectors") /\ "sectors" \in RowViews
        BY <2>3, <3>1 DEF ItemsOf, RowViews
      <3>3. NoFigure \in FiguresOf("sectors")
        BY DEF FiguresOf
      <3>4. RowOf(batch[i], {}, NoFigure) \in RowsOf("sectors", batch[i])
        BY <3>3 DEF RowsOf
      <3>5. RowOf(batch[i], {}, NoFigure) \in ResultsOf[batch[i]]
        BY <3>2, <3>4, RowsAssumption
      <3> QED
        BY <2>3, <3>5 DEF FanNext, FanProgress, Work
    <2>4. CASE Leave
      BY <2>4 DEF FanNext
    <2> QED
      BY <1>8, <2>1, <2>2, <2>3, <2>4 DEF MapItems
  <1>9. CASE SendRows
    BY <1>9 DEF SendRows, FanNext
  <1> QED
    BY <1>1, <1>3, <1>4, <1>5, <1>6, <1>7, <1>8, <1>9 DEF ViewsNext, RowProgress

LEMMA FetchesAreFanSteps == PagesInv /\ (AskNews \/ FeedProgress \/ SendFeed) => [FanNext]_fanVars
  <1> SUFFICES ASSUME PagesInv, AskNews \/ FeedProgress \/ SendFeed PROVE [FanNext]_fanVars
    OBVIOUS
  <1>0. tracked \in Seq(Instruments) /\ MaxWorkers \in 1 .. MaxWorkers
    BY MaxWorkersAssumption DEF PagesInv, ViewsTypeOK
  <1>1. ASSUME NEW list \in Seq(Instruments), FetchFor(list) PROVE FanNext
    <2>1. list \in Seq(Items)
      BY InstrumentsAreItems, WiderSeq
    <2> QED
      BY <1>0, <1>1, <2>1 DEF FetchFor, FanNext
  <1>2. Targets \in Seq(Instruments) /\ \A x \in Instruments : <<x>> \in Seq(Instruments)
    BY <1>0, AmongElements DEF Targets
  <1>3. CASE AskNews
    BY <1>1, <1>2, <1>3 DEF AskNews
  <1>4. CASE WireRaises
    BY <1>1, <1>2, <1>4 DEF WireRaises
  <1>5. CASE WireAnswers \/ TagStory \/ MergeTarget
    BY <1>5 DEF WireAnswers, TagStory, MergeTarget, viewVars
  <1>6. ASSUME NEW i \in DOMAIN batch, TakeTarget(i) PROVE FanNext
    BY <1>6 DEF TakeTarget, FanNext, FanProgress, Work
  <1>7. ASSUME NEW i \in DOMAIN batch, FetchEnds(i) PROVE FanNext
    <2>1. batch \in Seq(Instruments)
      BY <1>7 DEF FetchEnds, PagesInv, RequestsInv
    <2>2. batch[i] \in Instruments
      BY <2>1, LenProperties, ElementOfSeq
    <2>3. ASSUME NEW ok \in BOOLEAN, NEW raw \in Wires \cup {<<>>},
                 Finish(i, [of |-> batch[i], ok |-> ok, raw |-> raw])
          PROVE  FanNext
      BY <2>2, <2>3, FetchedAssumption DEF FanNext, FanProgress, Work
    <2> QED
      BY <1>7, <2>3 DEF FetchEnds
  <1>8. CASE SendFeed
    BY <1>8 DEF SendFeed, FanNext
  <1> QED
    BY <1>3, <1>4, <1>5, <1>6, <1>7, <1>8 DEF FeedProgress

LEMMA PagesAreFanSteps == PagesInv /\ [PagesNext]_pageVars => [FanNext]_fanVars
  BY RowsAreFanSteps, FetchesAreFanSteps DEF PagesNext, FeedNext, pageVars, viewVars, fanVars

-----------------------------------------------------------------------------
(* Their strengthening is inductive.                                       *)

\* A pool runs no more threads than it has.
LEMMA RunningNext ==
    ASSUME FanInv, Cardinality(Running) <= width, [FanNext]_fanVars
    PROVE  Cardinality(Running)' <= width'
  <1>1. IsFiniteSet(Running) /\ Cardinality(Running) \in Nat /\ width \in Nat /\ width >= 1
    <2>1. batch \in Seq(Items) /\ width \in 1 .. MaxWorkers
      BY DEF FanInv, FanTypeOK
    <2>2. Len(batch) \in Nat /\ DOMAIN batch = 1 .. Len(batch)
      BY <2>1, LenProperties
    <2>3. IsFiniteSet(1 .. Len(batch))
      BY <2>2, FS_Interval
    <2>4. Running \in SUBSET (1 .. Len(batch))
      BY <2>2 DEF Running
    <2>5. IsFiniteSet(Running) /\ Cardinality(Running) \in Nat
      BY <2>3, <2>4, FS_Subset, FS_CardinalityType
    <2> QED
      BY <2>1, <2>5, MaxWorkersAssumption
  <1>2. ASSUME Running' \in SUBSET Running, width' = width PROVE Cardinality(Running)' <= width'
    <2>1. Cardinality(Running') <= Cardinality(Running) /\ Cardinality(Running') \in Nat
      BY <1>1, <1>2, FS_Subset, FS_CardinalityType
    <2> QED
      BY <1>1, <1>2, <2>1
  <1>3. ASSUME NEW i \in DOMAIN batch, Take(i) PROVE Cardinality(Running)' <= width'
    <2>1. Running' \in SUBSET (Running \cup {i}) /\ i \notin Running /\ width' = width
          /\ Cardinality(Running) < width
      BY <1>3 DEF Take, Running, FanInv, FanTypeOK
    <2>2. IsFiniteSet(Running \cup {i}) /\ Cardinality(Running \cup {i}) = Cardinality(Running) + 1
      BY <1>1, <2>1, FS_AddElement
    <2>3. Cardinality(Running') <= Cardinality(Running) + 1 /\ Cardinality(Running') \in Nat
      BY <2>1, <2>2, FS_Subset, FS_CardinalityType
    <2> QED
      BY <1>1, <2>1, <2>3
  <1>4. ASSUME Running' = {}, width' \in Nat PROVE Cardinality(Running)' <= width'
    BY <1>4, FS_EmptySet
  <1>5. ASSUME NEW list \in Seq(Items), NEW workers \in 1 .. MaxWorkers, Begin(list, workers)
        PROVE  Running' = {} /\ width' \in Nat
    BY <1>5 DEF Begin, Running
  <1>6. CASE Leave
    BY <1>4, <1>6 DEF Leave, Running
  <1>7. ASSUME NEW i \in DOMAIN batch, Fail(i) \/ \E v \in ResultsOf[batch[i]] : Finish(i, v)
        PROVE  Running' \in SUBSET Running /\ width' = width
    BY <1>7 DEF Fail, Finish, Running, FanInv, FanTypeOK
  <1>8. CASE Iterate \/ UNCHANGED fanVars
    <2>1. Running' \in SUBSET Running /\ width' = width
      BY <1>8 DEF Iterate, Collect, CollectRaises, Join, Running, fanVars
    <2> QED
      BY <1>2, <2>1
  <1> QED
    BY <1>2, <1>3, <1>4, <1>5, <1>6, <1>7, <1>8 DEF FanNext, FanProgress, Work

LEMMA KnownAre ==
    ASSUME tracked \in Seq(Instruments)
    PROVE  Known = {tracked[i] : i \in DOMAIN tracked}
  BY SameElements DEF Known, IsTracked

\* Other clients only remove instruments.
LEMMA RegistryNext ==
    ASSUME PagesInv, [PagesNext]_pageVars
    PROVE  /\ tracked' \in Seq(Instruments)
           /\ \A i, j \in DOMAIN tracked' : tracked'[i] = tracked'[j] => i = j
           /\ {tracked'[i] : i \in DOMAIN tracked'} = Known'
           /\ Known' \subseteq Known
  <1>1. /\ tracked \in Seq(Instruments)
        /\ \A i, j \in DOMAIN tracked : tracked[i] = tracked[j] => i = j
    BY DEF PagesInv, ViewsTypeOK
  <1>2. tracked' = tracked \/ \E x \in Instruments : tracked' = Among(tracked, Instruments \ {x})
    BY DEF PagesNext, FeedNext, ViewsNext, Untrack, AskView, AskBrief, Ask, RowProgress,
           TakeRow, FinishRow, MapItems, SendRows, AskNews, FeedProgress, WireRaises, WireAnswers,
           TagStory, MergeTarget, TakeTarget, FetchEnds, SendFeed, pageVars, viewVars
  <1>3. CASE tracked' = tracked
    BY <1>1, <1>3, SameElements DEF Known, IsTracked
  <1>4. ASSUME NEW x \in Instruments, tracked' = Among(tracked, Instruments \ {x})
        PROVE  /\ tracked' \in Seq(Instruments)
               /\ \A i, j \in DOMAIN tracked' : tracked'[i] = tracked'[j] => i = j
               /\ \A p \in DOMAIN tracked' : \E i \in DOMAIN tracked : tracked'[p] = tracked[i]
    <2>0. PICK S : S = Instruments \ {x}
      OBVIOUS
    <2>1. tracked' = Among(tracked, S)
      BY <1>4, <2>0
    <2>2. tracked' \in Seq(Instruments)
      BY <1>1, <2>1, AmongElements
    <2>3. \A i, j \in DOMAIN tracked' : tracked'[i] = tracked'[j] => i = j
      BY ONLY <1>1, <2>1, AmongElements
    <2>4. \A p \in DOMAIN tracked' : \E i \in DOMAIN tracked : tracked'[p] = tracked[i]
      BY ONLY <1>1, <2>1, AmongElements
    <2> QED
      BY <2>2, <2>3, <2>4
  <1>5. CASE \E x \in Instruments : tracked' = Among(tracked, Instruments \ {x})
    <2>1. /\ tracked' \in Seq(Instruments)
          /\ \A i, j \in DOMAIN tracked' : tracked'[i] = tracked'[j] => i = j
          /\ \A p \in DOMAIN tracked' : \E i \in DOMAIN tracked : tracked'[p] = tracked[i]
      BY <1>4, <1>5
    <2>2. {tracked'[i] : i \in DOMAIN tracked'} = Known'
      BY <2>1, SameElements DEF Known, IsTracked
    <2>3. Known' \subseteq Known
      BY <2>1 DEF Known, IsTracked
    <2> QED
      BY <2>1, <2>2, <2>3
  <1> QED
    BY <1>2, <1>3, <1>5

\* What the steps that read no row may change.
LEMMA RowsKept ==
    ASSUME PagesInv, UNCHANGED <<fanVars, view, about, saw>>, Known' \subseteq Known,
           atFirst' = atFirst \/ view = "none"
    PROVE  RowsInv'
  <1>1. view' = view /\ about' = about /\ saw' = saw /\ batch' = batch /\ state' = state
        /\ result' = result /\ phase' = phase
    BY DEF fanVars
  <1>2. CASE view \notin RowViews
    BY <1>1, <1>2 DEF RowsInv
  <1>3. CASE view \in RowViews
    <2>1. view # "none" /\ atFirst' = atFirst
      BY <1>3 DEF RowViews
    <2> QED
      BY <1>1, <1>3, <2>1 DEF PagesInv, RowsInv
  <1> QED
    BY <1>2, <1>3

LEMMA AskRows ==
    ASSUME PagesInv, NEW v \in RowViews, NEW list \in Seq(ItemsOf(v)), NEW x,
           Ask(v, list, x), Watch, UNCHANGED feedVars,
           v = "brief" => x \in Known, v # "brief" => x = "none",
           v = "sectors" => list = SectorEtfs,
           v \in {"watchlist", "screen"} => \A i \in DOMAIN list : list[i] \in Known
    PROVE  RequestsInv' /\ RowsInv' /\ atFirst' = atFirst /\ about' \in Instruments \cup {"none"}
  <1>1. v \notin {"none", "map", "news"}
    BY DEF RowViews
  <1>2. /\ view' = v /\ about' = x /\ batch' = list /\ tracked' = tracked /\ view = "none"
        /\ state' = [i \in DOMAIN list |-> "queued"] /\ saw' = [i \in DOMAIN list |-> {}]
        /\ phase' # "idle" /\ atFirst' = atFirst /\ atFirst = Known /\ Known' = Known
        /\ stage' = stage
    BY <1>1 DEF Ask, Begin, Watch, Known, IsTracked, PagesInv, RequestsInv, feedVars
  <1>3. RequestsInv'
    BY <1>1, <1>2 DEF PagesInv, RequestsInv
  <1>4. \A i \in DOMAIN list : list[i] \in ItemsOf(v)
    BY LenProperties, ElementOfSeq
  <1>5. RowsInv'
    BY <1>2, <1>4 DEF RowsInv
  <1>6. Known \subseteq Instruments
    BY DEF Known
  <1> QED
    BY <1>2, <1>3, <1>5, <1>6

LEMMA TakeRowRows ==
    ASSUME PagesInv, NEW i \in DOMAIN batch, TakeRow(i), Watch
    PROVE  RowsInv'
  <1>1. /\ view \in RowViews /\ view # "none"
        /\ UNCHANGED <<tracked, view, about, batch, result, phase, atFirst>>
        /\ state[i] = "queued" /\ state' = [state EXCEPT ![i] = "running"]
        /\ state \in [DOMAIN batch -> States]
    BY DEF TakeRow, Take, Watch, RowViews, PagesInv, FanInv, FanTypeOK
  <1>2. PICK gone \in {{}, {"gone"}} :
             /\ saw' = [saw EXCEPT ![i] = gone]
             /\ gone = {"gone"} => \E x \in LooksUp(i) : ~ IsTracked(x)
    BY DEF TakeRow
  <1>3. RowsInv /\ DOMAIN saw = DOMAIN batch /\ Known' = Known /\ atFirst \subseteq Instruments
    BY <1>1 DEF PagesInv, RowsInv, Known, IsTracked
  <1>4. gone = {"gone"} => ({batch[i], about} \cap atFirst) \ Known # {}
    <2> SUFFICES ASSUME NEW x \in LooksUp(i), ~ IsTracked(x)
                 PROVE  x \in {batch[i], about} /\ x \in atFirst /\ x \notin Known
      BY <1>2
    <2>1. x \in {batch[i], about} /\ x \in atFirst
      BY <1>1, <1>3 DEF LooksUp, RowsInv
    <2> QED
      BY <2>1 DEF Known
  <1>5. ASSUME NEW j \in DOMAIN batch, j # i
        PROVE  state'[j] = state[j] /\ saw'[j] = saw[j]
    BY <1>1, <1>2, <1>3, <1>5
  <1>6. state'[i] = "running" /\ saw'[i] = gone /\ DOMAIN saw' = DOMAIN batch
    BY <1>1, <1>2, <1>3
  <1> QED
    BY <1>1, <1>2, <1>3, <1>4, <1>5, <1>6 DEF RowsInv

LEMMA NeverGone == ASSUME NEW v \in RowViews, NEW x \in ItemsOf(v) PROVE "gone" \notin Calls(v, x)
  <1>1. CASE v = "macro"
    <2>1. x \in {"rates", "dollar_fx", "macro_tiles", "indices", "calendar"}
      BY <1>1 DEF ItemsOf, Panels
    <2> QED
      BY <1>1, <2>1 DEF Calls, PanelCalls
  <1>2. CASE v # "macro"
    BY <1>2 DEF RowViews, Calls, SummaryCalls, ScreenCalls, CurveCalls, MetricsCalls,
                VolatilityCalls, ReportCalls
  <1> QED
    BY <1>1, <1>2

LEMMA FinishRowRows ==
    ASSUME PagesInv, NEW i \in DOMAIN batch, FinishRow(i), Watch
    PROVE  RowsInv'
  <1>0. PICK failed \in SUBSET Calls(view, batch[i]), figure \in FiguresOf(view) :
             /\ saw[i] = {} \/ failed = {}
             /\ saw' = [saw EXCEPT ![i] = @ \cup failed]
             /\ Finish(i, RowOf(batch[i], saw'[i], figure))
    BY DEF FinishRow
  <1>1. /\ view \in RowViews /\ view # "none"
        /\ UNCHANGED <<tracked, view, about, batch, phase, atFirst>>
        /\ state[i] = "running" /\ state' = [state EXCEPT ![i] = "done"]
        /\ result' = [result EXCEPT ![i] = RowOf(batch[i], saw'[i], figure)]
        /\ state \in [DOMAIN batch -> States] /\ DOMAIN result = DOMAIN batch
    BY <1>0 DEF FinishRow, Finish, Running, Watch, RowViews, PagesInv, FanInv, FanTypeOK
  <1>2. RowsInv /\ DOMAIN saw = DOMAIN batch /\ Known' = Known /\ batch[i] \in ItemsOf(view)
    BY <1>1 DEF PagesInv, RowsInv, Known, IsTracked
  <1>3. saw'[i] = saw[i] \cup failed /\ "gone" \notin failed /\ saw[i] \in {{}, {"gone"}}
    BY <1>0, <1>1, <1>2, NeverGone DEF RowsInv
  <1>4. saw'[i] = {"gone"} => saw[i] = {"gone"}
    BY <1>0, <1>3
  <1>5. ASSUME NEW j \in DOMAIN batch, j # i
        PROVE  state'[j] = state[j] /\ saw'[j] = saw[j] /\ result'[j] = result[j]
    BY <1>0, <1>1, <1>2, <1>5
  <1>6. /\ state'[i] = "done" /\ DOMAIN saw' = DOMAIN batch
        /\ result'[i] = RowOf(batch[i], saw'[i], figure)
    BY <1>0, <1>1, <1>2
  <1> QED
    BY <1>1, <1>2, <1>4, <1>5, <1>6 DEF RowsInv

\* A step within a request.
LEMMA StaysInRequest ==
    ASSUME PagesInv, Known' \subseteq Known, Watch, tracked' \in Seq(Instruments),
           {tracked'[i] : i \in DOMAIN tracked'} = Known',
           UNCHANGED <<view, stage, batch>>,
           phase' = phase \/ (phase # "idle" /\ phase' # "idle")
    PROVE  RequestsInv' /\ atFirst' \subseteq Instruments /\ (view # "none" => atFirst' = atFirst)
  <1>1. Known' \subseteq Instruments
    BY DEF Known
  <1>2. RequestsInv /\ atFirst \subseteq Instruments
    BY DEF PagesInv
  <1>3. /\ view = "none" => phase = "idle" /\ phase' = "idle" /\ atFirst' = Known'
        /\ view # "none" => atFirst' = atFirst
    BY <1>2 DEF RequestsInv, Watch
  <1> QED
    BY <1>1, <1>2, <1>3 DEF RequestsInv

\* A request that has been answered.
LEMMA RequestAnswered ==
    ASSUME Watch, {tracked'[i] : i \in DOMAIN tracked'} = Known',
           view' = "none", phase' = "idle", stage' = "none"
    PROVE  RequestsInv' /\ RowsInv' /\ atFirst' \subseteq Instruments
  <1>1. atFirst' = Known' /\ Known' \subseteq Instruments
    BY DEF Watch, Known
  <1> QED
    BY <1>1 DEF RequestsInv, RowsInv, RowViews

LEMMA ViewsStep ==
    ASSUME PagesInv, ViewsNext, UNCHANGED feedVars, Watch,
           tracked' \in Seq(Instruments), Known' \subseteq Known,
           {tracked'[i] : i \in DOMAIN tracked'} = Known'
    PROVE  RequestsInv' /\ RowsInv' /\ atFirst' \subseteq Instruments
           /\ about' \in Instruments \cup {"none"}
  <1>0. /\ RequestsInv /\ RowsInv /\ FanInv /\ tracked \in Seq(Instruments)
        /\ atFirst \subseteq Instruments /\ about \in Instruments \cup {"none"}
        /\ stage' = stage
    BY DEF PagesInv, ViewsTypeOK, feedVars
  <1>1. ASSUME UNCHANGED <<fanVars, view, about, saw>>
        PROVE  RequestsInv' /\ RowsInv' /\ atFirst' \subseteq Instruments /\ about' \in Instruments \cup {"none"}
    <2>1. batch' = batch /\ phase' = phase
      BY <1>1 DEF fanVars
    <2> QED
      BY <1>0, <1>1, <2>1, StaysInRequest, RowsKept
  <1>2. CASE \E x \in Instruments : Untrack(x)
    BY <1>1, <1>2 DEF Untrack
  <1>3. CASE AskView
    <2>1. PICK v \in RowViews \ {"brief"} : Ask(v, ListOf(v), "none")
      BY <1>3 DEF AskView
    <2>2. ListOf(v) \in Seq(ItemsOf(v))
      BY <1>0, ListItems
    <2>3. \A i \in DOMAIN tracked : tracked[i] \in Known
      BY <1>0, KnownAre
    <2>4. v = "watchlist" => \A i \in DOMAIN ListOf(v) : ListOf(v)[i] \in Known
      BY <2>3 DEF ListOf
    <2>5. v = "screen" => \A i \in DOMAIN ListOf(v) : ListOf(v)[i] \in Known
      <3>1. PICK r : r = Among(tracked, Screened)
        OBVIOUS
      <3>2. \A p \in DOMAIN r : \E i \in DOMAIN tracked : r[p] = tracked[i]
        BY ONLY <1>0, <3>1, AmongElements
      <3>3. v = "screen" => ListOf(v) = r
        BY <3>1 DEF ListOf, ScreenItems
      <3> QED
        BY <2>3, <3>2, <3>3
    <2>6. v = "sectors" => ListOf(v) = SectorEtfs
      BY DEF ListOf
    <2>7. RequestsInv' /\ RowsInv' /\ atFirst' = atFirst /\ about' \in Instruments \cup {"none"}
      BY <2>1, <2>2, <2>4, <2>5, <2>6, AskRows
    <2> QED
      BY <1>0, <2>7
  <1>4. CASE AskBrief
    <2>1. PICK x \in Instruments : IsTracked(x) /\ Ask("brief", BriefParts(x), x)
      BY <1>4 DEF AskBrief
    <2>2. BriefParts(x) \in Seq(ItemsOf("brief")) /\ "brief" \in RowViews /\ x \in Known
      BY <2>1, BriefItems DEF RowViews, Known
    <2>3. RequestsInv' /\ RowsInv' /\ atFirst' = atFirst /\ about' \in Instruments \cup {"none"}
      BY <2>1, <2>2, AskRows
    <2> QED
      BY <1>0, <2>3
  <1>5. ASSUME NEW i \in DOMAIN batch, TakeRow(i) \/ FinishRow(i)
        PROVE  RequestsInv' /\ RowsInv' /\ atFirst' \subseteq Instruments /\ about' \in Instruments \cup {"none"}
    <2>1. UNCHANGED <<view, about, batch, phase>>
      BY <1>5 DEF TakeRow, Take, FinishRow, Finish
    <2> QED
      BY <1>0, <1>5, <2>1, StaysInRequest, TakeRowRows, FinishRowRows
  <1>6. CASE Iterate /\ UNCHANGED <<tracked, view, about, saw>>
    <2>1. /\ batch' = batch /\ result' = result
          /\ phase # "idle" /\ phase' # "idle"
          /\ view \in RowViews => state' = state
      BY <1>0, <1>6 DEF Iterate, Collect, CollectRaises, Join, RowsInv, FanInv, TakenInOrder
    <2>2. RequestsInv' /\ atFirst' \subseteq Instruments /\ (view # "none" => atFirst' = atFirst)
      BY <1>0, <1>6, <2>1, StaysInRequest
    <2>3. "none" \notin RowViews /\ Known' = Known
      BY <1>6 DEF RowViews, Known, IsTracked
    <2>4. RowsInv'
      BY <1>0, <1>6, <2>1, <2>2, <2>3 DEF RowsInv
    <2> QED
      BY <1>0, <1>6, <2>2, <2>4
  <1>7. CASE MapItems /\ UNCHANGED <<tracked, about, saw>>
    <2>0. {"none", "map"} \cap RowViews = {}
      BY DEF RowViews
    <2>1. view \in {"none", "map"} /\ view' \in {"none", "map"} /\ RowsInv'
      BY <1>7, <2>0 DEF MapItems, RowsInv
    <2>2. CASE view' = "none"
      <3>1. phase' = "idle"
        BY <1>7, <2>2 DEF MapItems
      <3>2. stage' = "none"
        BY <1>0, <2>1 DEF RequestsInv
      <3> QED
        BY <1>0, <1>7, <2>2, <3>1, <3>2, RequestAnswered
    <2>3. CASE view' = "map"
      <3>1. batch' = SectorEtfs
        BY <1>0, <1>7, <2>3 DEF MapItems, Begin, Take, Fail, Finish, Leave, RequestsInv
      <3>2. atFirst' = atFirst /\ stage' = "none" /\ Known' \subseteq atFirst
        BY <1>0, <2>1, <2>3 DEF Watch, RequestsInv
      <3>3. RequestsInv'
        BY <2>3, <3>1, <3>2 DEF RequestsInv
      <3> QED
        BY <1>0, <1>7, <2>1, <3>2, <3>3
    <2> QED
      BY <2>1, <2>2, <2>3
  <1>8. CASE SendRows
    <2>1. view' = "none" /\ about' = "none" /\ phase' = "idle" /\ stage' = "none"
      BY <1>0, <1>8 DEF SendRows, Leave, RowViews, RequestsInv
    <2> QED
      BY <2>1, RequestAnswered
  <1> QED
    BY <1>2, <1>3, <1>4, <1>5, <1>6, <1>7, <1>8 DEF ViewsNext, RowProgress

LEMMA FeedStep ==
    ASSUME PagesInv, AskNews \/ FeedProgress \/ SendFeed, Watch,
           tracked' \in Seq(Instruments), Known' \subseteq Known,
           {tracked'[i] : i \in DOMAIN tracked'} = Known'
    PROVE  RequestsInv' /\ RowsInv' /\ atFirst' \subseteq Instruments
           /\ about' \in Instruments \cup {"none"}
  <1>0. /\ RequestsInv /\ RowsInv /\ FanInv /\ tracked \in Seq(Instruments)
        /\ atFirst \subseteq Instruments /\ about \in Instruments \cup {"none"}
    BY DEF PagesInv, ViewsTypeOK
  <1>1. "none" \notin RowViews /\ "news" \notin RowViews
    BY DEF RowViews
  <1>2. Targets \in Seq(Instruments) /\ \A x \in Instruments : <<x>> \in Seq(Instruments)
    BY <1>0, AmongElements DEF Targets
  <1>3. ASSUME NEW list \in Seq(Instruments), FetchFor(list)
        PROVE  stage' = "fetching" /\ phase' # "idle" /\ batch' = list
    BY <1>3 DEF FetchFor, Begin
  <1>4. CASE AskNews
    <2>1. /\ view = "none" /\ view' = "news" /\ about' = about /\ atFirst' = atFirst
          /\ phase = "idle"
      BY <1>0, <1>4 DEF AskNews, Watch, RequestsInv
    <2>2. \/ stage' = "fetching" /\ phase' # "idle" /\ batch' \in Seq(Instruments)
          \/ stage' = "wire" /\ phase' = phase
      BY <1>2, <1>3, <1>4 DEF AskNews, fanVars
    <2>3. RequestsInv'
      BY <1>0, <2>1, <2>2 DEF RequestsInv
    <2> QED
      BY <1>0, <1>1, <2>1, <2>3 DEF RowsInv
  <1>5. ASSUME view = "news", view' = view, about' = about
        PROVE  RowsInv' /\ about' \in Instruments \cup {"none"} /\ atFirst' = atFirst
               /\ atFirst' \subseteq Instruments
    BY <1>0, <1>1, <1>5 DEF RowsInv, Watch
  <1>6. CASE WireRaises
    <2>1. stage' = "fetching" /\ phase' # "idle" /\ batch' \in Seq(Instruments)
          /\ view' = view /\ about' = about
      BY <1>2, <1>3, <1>6 DEF WireRaises
    <2>2. view = "news"
      BY <1>0, <1>6 DEF WireRaises, RequestsInv
    <2>3. RequestsInv'
      BY <1>0, <1>5, <2>1, <2>2 DEF RequestsInv
    <2> QED
      BY <1>5, <2>1, <2>2, <2>3
  <1>7. CASE WireAnswers
    <2>1. /\ stage' = "tagging" /\ stage = "wire"
          /\ UNCHANGED <<view, about, phase, batch>>
      BY <1>7 DEF WireAnswers, viewVars, fanVars
    <2>2. view = "news"
      BY <1>0, <2>1 DEF RequestsInv
    <2>3. RequestsInv'
      BY <1>0, <1>5, <2>1, <2>2 DEF RequestsInv
    <2> QED
      BY <1>5, <2>1, <2>2, <2>3
  <1>8. CASE TagStory \/ MergeTarget \/ \E i \in DOMAIN batch : TakeTarget(i) \/ FetchEnds(i)
    <2>1. UNCHANGED <<stage, view, about, phase, batch>> /\ stage # "none"
      BY <1>8 DEF TagStory, MergeTarget, TakeTarget, FetchEnds, Take, Finish, viewVars, fanVars, feedVars
    <2>2. view = "news"
      BY <1>0, <2>1 DEF RequestsInv
    <2> QED
      BY <1>0, <1>5, <2>1, <2>2, StaysInRequest
  <1>9. CASE SendFeed
    <2>1. view' = "none" /\ stage' = "none" /\ about' = about
      BY <1>9 DEF SendFeed
    <2>2. phase' = "idle"
      BY <1>0, <1>9 DEF SendFeed, Leave, FeedEnds, RequestsInv, fanVars
    <2> QED
      BY <1>0, <2>1, <2>2, RequestAnswered
  <1> QED
    BY <1>4, <1>6, <1>7, <1>8, <1>9 DEF FeedProgress

\* No step that is not of the pages' views or of the feed touches what they keep.
LEMMA OthersStep ==
    ASSUME PagesInv, UNCHANGED <<viewVars, feedVars, atFirst>>
    PROVE  RequestsInv' /\ RowsInv' /\ atFirst' \subseteq Instruments
           /\ about' \in Instruments \cup {"none"}
  <1>1. UNCHANGED <<tracked, view, about, saw, stage>> /\ UNCHANGED fanVars
        /\ batch' = batch /\ phase' = phase
    BY DEF viewVars, feedVars, fanVars
  <1>2. Known' = Known
    BY <1>1 DEF Known, IsTracked
  <1>3. RowsInv'
    BY <1>1, <1>2, RowsKept
  <1>4. RequestsInv'
    BY <1>1, <1>2 DEF PagesInv, RequestsInv
  <1> QED
    BY <1>1, <1>3, <1>4 DEF PagesInv, ViewsTypeOK

LEMMA PagesInvNext == PagesInv /\ [PagesNext]_pageVars => PagesInv'
  <1> SUFFICES ASSUME PagesInv, [PagesNext]_pageVars PROVE PagesInv'
    OBVIOUS
  <1>1. [FanNext]_fanVars
    BY PagesAreFanSteps
  <1>2. FanInv' /\ FanTypeOK'
    BY <1>1, NextInv DEF PagesInv, FanInv
  <1>3. Cardinality(Running)' <= width'
    BY <1>1, RunningNext DEF PagesInv, ViewsTypeOK
  <1>4. /\ tracked' \in Seq(Instruments)
        /\ \A i, j \in DOMAIN tracked' : tracked'[i] = tracked'[j] => i = j
        /\ {tracked'[i] : i \in DOMAIN tracked'} = Known'
        /\ Known' \subseteq Known
    BY RegistryNext
  <1>5. \/ FeedNext /\ Watch
        \/ UNCHANGED <<viewVars, feedVars, atFirst>>
    BY DEF PagesNext, pageVars
  <1>6. RequestsInv' /\ RowsInv' /\ atFirst' \subseteq Instruments
        /\ about' \in Instruments \cup {"none"}
    BY <1>4, <1>5, ViewsStep, FeedStep, OthersStep DEF FeedNext
  <1>7. ViewsTypeOK'
    BY <1>2, <1>3, <1>4, <1>6 DEF ViewsTypeOK, RowsInv
  <1> QED
    BY <1>2, <1>6, <1>7 DEF PagesInv

LEMMA PagesInvInit == PagesInit => PagesInv
  <1> SUFFICES ASSUME PagesInit PROVE PagesInv
    OBVIOUS
  <1>1. FanInv /\ batch = <<>> /\ width = 1 /\ phase = "idle"
    BY InitInv DEF PagesInit, ViewsInit, FanInit
  <1>2. Running = {} /\ Cardinality(Running) = 0
    BY <1>1, EmptySeq, FS_EmptySet DEF Running
  <1>3. /\ tracked \in Seq(Instruments) /\ view = "none" /\ about = "none" /\ stage = "none"
        /\ atFirst = Known
        /\ \A i, j \in DOMAIN tracked : tracked[i] = tracked[j] => i = j
    BY BookAssumption DEF PagesInit, ViewsInit, FeedInit
  <1>4. ViewsTypeOK
    BY <1>1, <1>2, <1>3 DEF ViewsTypeOK, FanInv, RowViews
  <1>5. RequestsInv /\ RowsInv /\ Known \subseteq Instruments
    BY <1>1, <1>3 DEF RequestsInv, RowsInv, RowViews, Known
  <1> QED
    BY <1>1, <1>3, <1>4, <1>5 DEF PagesInv

LEMMA AlwaysPagesInv == PagesSpec => []PagesInv
<1> QED
  BY PagesInvInit, PagesInvNext, PTL DEF PagesSpec

\* Whatever page asks for it, every call of parallel_map is one of the ordered map.
THEOREM PagesImplementOrderedMap == PagesSpec => Map!SafeSpec
<1>1. PagesInit => Map!Init
  BY InitMaps DEF PagesInit, ViewsInit
<1>2. PagesInv /\ [PagesNext]_pageVars => [Map!Next]_(Map!vars)
  BY PagesAreFanSteps, NextMaps DEF PagesInv
<1> QED
  BY <1>1, <1>2, AlwaysPagesInv, PTL DEF PagesSpec, Map!SafeSpec

-----------------------------------------------------------------------------
(* What has become of the rows.                                            *)

LEMMA ImageCardinality ==
    ASSUME NEW S, IsFiniteSet(S), NEW f, \A a, b \in S : f[a] = f[b] => a = b
    PROVE  Cardinality({f[a] : a \in S}) = Cardinality(S)
  <1>1. PICK T : T = {f[a] : a \in S}
    OBVIOUS
  <1>2. PICK g : g = [a \in S |-> f[a]]
    OBVIOUS
  <1>3. g \in Surjection(S, T)
    BY <1>1, <1>2 DEF Surjection
  <1>4. g \in Injection(S, T)
    BY <1>1, <1>2 DEF Injection, IsInjective
  <1> QED
    BY <1>1, <1>3, <1>4, FS_Surjection

\* A view over a list never fails, and answers a row of every item.
LEMMA RowsComeBack ==
    ASSUME PagesInv, view \in RowViews, phase \in {"returned", "raised"}
    PROVE  /\ phase = "returned"
           /\ got \in Seq(Results) /\ Len(got) = Len(batch)
           /\ DOMAIN got = 1 .. Len(batch) /\ DOMAIN batch = 1 .. Len(batch) /\ Len(batch) \in Nat
           /\ \A i \in DOMAIN batch :
                 \E figure \in FiguresOf(view) : got[i] = RowOf(batch[i], saw[i], figure)
  <1>1. RowsInv /\ FanInv
    BY DEF PagesInv
  <1>2. phase = "returned"
    BY <1>1 DEF RowsInv, FanInv, TakenInOrder
  <1>3. Len(got) = Len(batch) /\ got \in Seq(Results) /\ batch \in Seq(Items)
    BY <1>1, <1>2 DEF FanInv, FanTypeOK, TakenInOrder
  <1>4. DOMAIN got = 1 .. Len(batch) /\ DOMAIN batch = 1 .. Len(batch) /\ Len(batch) \in Nat
    BY <1>3, LenProperties
  <1>5. \A i \in DOMAIN batch : state[i] = "done" /\ got[i] = result[i]
    BY <1>1, <1>3, <1>4 DEF FanInv, TakenInOrder
  <1>6. \A i \in DOMAIN batch :
              \E figure \in FiguresOf(view) : result[i] = RowOf(batch[i], saw[i], figure)
    BY <1>1, <1>5 DEF RowsInv
  <1> QED
    BY <1>2, <1>3, <1>4, <1>5, <1>6

LEMMA RowFields ==
    ASSUME NEW x, NEW lacks, NEW figure
    PROVE  /\ RowOf(x, lacks, figure).of = x
           /\ RowOf(x, lacks, figure).ok <=> lacks \subseteq Optional
           /\ RowOf(x, lacks, figure).ok \in BOOLEAN
           /\ RowOf(x, lacks, figure).lacks = lacks
           /\ RowOf(x, lacks, figure).figure \in {figure, NoFigure}
           /\ RowOf(x, lacks, figure).ok => RowOf(x, lacks, figure).figure = figure
           /\ ~ RowOf(x, lacks, figure).ok => RowOf(x, lacks, figure).figure = NoFigure
  BY DEF RowOf, ReadingOf

\* sector_rotation: the sectors that are shown and those that are errors.
LEMMA SectorsSplit ==
    ASSUME PagesInv, view = "sectors", phase \in {"returned", "raised"}
    PROVE  LET answer == SectorAnswer
               shown == {answer.rows[p].of : p \in DOMAIN answer.rows}
           IN  /\ shown = {batch[i] : i \in {j \in DOMAIN batch : Reads(j)}}
               /\ answer.errors = {batch[i] : i \in DOMAIN batch} \ shown
               /\ Len(answer.rows) + Cardinality(answer.errors) = Len(batch)
               /\ answer.raised <=> \A i \in DOMAIN batch : ~ Reads(i)
  <1>a. PICK I : I = {i \in DOMAIN got : got[i].ok}
    OBVIOUS
  <1>b. PICK good : good = Picked(got, I)
    OBVIOUS
  <1>c. PICK k : k = [i \in DOMAIN good |-> WeekKey(good[i].figure)]
    OBVIOUS
  <1>d. PICK rows1 : rows1 = Ranked(good, k)
    OBVIOUS
  <1>e. PICK n : n = Len(batch)
    OBVIOUS
  <1>f. PICK J : J = (1 .. n) \ I
    OBVIOUS
  <1>0. view \in RowViews /\ batch = SectorEtfs /\ batch # <<>>
    BY SectorEtfsAssumption DEF RowViews, PagesInv, RowsInv
  <1>1. /\ got \in Seq(Results) /\ DOMAIN got = 1 .. n /\ DOMAIN batch = 1 .. n /\ n \in Nat
        /\ \A i \in 1 .. n :
              \E figure \in FiguresOf(view) : got[i] = RowOf(batch[i], saw[i], figure)
    BY <1>0, <1>e, RowsComeBack
  <1>2. \A i \in 1 .. n : /\ got[i].of = batch[i]
                          /\ got[i].ok <=> Reads(i)
                          /\ got[i].figure \in Int \cup {NoFigure}
    <2>1. FiguresOf(view) \subseteq Int \cup {NoFigure}
      BY FiguresAssumption DEF FiguresOf
    <2> QED
      BY <1>1, <2>1, RowFields DEF Reads
  <1>3. I = {i \in 1 .. n : Reads(i)} /\ J = {i \in 1 .. n : ~ Reads(i)} /\ I \in SUBSET (DOMAIN got)
    BY <1>a, <1>f, <1>1, <1>2
  <1>4. /\ IsFiniteSet(I) /\ Cardinality(I) \in Nat
        /\ good \in Seq(Results) /\ Len(good) = Cardinality(I)
        /\ DOMAIN good = 1 .. Cardinality(I)
        /\ \E e : Embeds(e, good, got, I)
    BY <1>b, <1>1, <1>3, PickedInOrder
  <1>5. PICK e : Embeds(e, good, got, I)
    BY <1>4
  <1>6. \A i \in DOMAIN good : k[i][1] \in Int /\ k[i][2] \in Int
    <2>1. \A i \in DOMAIN good : good[i].figure \in Int \cup {NoFigure}
      BY <1>2, <1>3, <1>5 DEF Embeds
    <2>2. \A figure \in Int \cup {NoFigure} : WeekKey(figure)[1] \in Int /\ WeekKey(figure)[2] \in Int
      BY DEF WeekKey
    <2> QED
      BY <1>c, <2>1, <2>2
  <1>7. /\ rows1 \in Seq(Results) /\ Len(rows1) = Len(good) /\ DOMAIN rows1 = DOMAIN good
        /\ \E f : Embeds(f, rows1, good, DOMAIN good)
    BY <1>d, <1>4, <1>6, RankedInOrder
  <1>8. PICK f : Embeds(f, rows1, good, DOMAIN good)
    BY <1>7
  <1>9. {rows1[p].of : p \in DOMAIN rows1} = {batch[i] : i \in I}
    <2>1. \A p \in DOMAIN rows1 : \E i \in I : rows1[p].of = batch[i]
      BY <1>2, <1>3, <1>5, <1>8 DEF Embeds
    <2>2. \A i \in I : \E p \in DOMAIN rows1 : rows1[p].of = batch[i]
      <3> SUFFICES ASSUME NEW i \in I PROVE \E p \in DOMAIN rows1 : rows1[p].of = batch[i]
        OBVIOUS
      <3>1. PICK q \in DOMAIN good : e[q] = i
        BY <1>5 DEF Embeds
      <3>2. PICK p \in DOMAIN rows1 : f[p] = q
        BY <1>8 DEF Embeds
      <3> QED
        BY <1>2, <1>3, <1>5, <1>8, <3>1, <3>2 DEF Embeds
    <2> QED
      BY <2>1, <2>2
  <1>10. \A i, j \in 1 .. n : batch[i] = batch[j] => i = j
    BY <1>0, <1>1, SectorEtfsAssumption
  <1>11. PICK errs : errs = {batch[i] : i \in J}
    OBVIOUS
  <1>12. SectorAnswer.errors = errs
    <2>1. {j \in DOMAIN got : ~ got[j].ok} = J
      BY <1>1, <1>2, <1>3
    <2>2. {got[i].of : i \in J} = errs
      BY <1>2, <1>3, <1>11
    <2> QED
      BY <2>1, <2>2 DEF SectorAnswer
  <1>13. errs = {batch[i] : i \in DOMAIN batch} \ {batch[i] : i \in I}
    BY <1>1, <1>3, <1>10, <1>11
  <1>14. Cardinality(I) + Cardinality(J) = n /\ IsFiniteSet(J) /\ Cardinality(J) \in Nat
    <2>1. IsFiniteSet(1 .. n) /\ Cardinality(1 .. n) = n
      BY <1>1, FS_Interval
    <2>2. J \in SUBSET (1 .. n)
      BY <1>3
    <2>3. IsFiniteSet(J) /\ Cardinality(J) \in Nat
      BY <2>1, <2>2, FS_Subset, FS_CardinalityType
    <2>4. I \cup J = 1 .. n /\ I \cap J = {}
      BY <1>3
    <2>5. Cardinality(I \cup J) = Cardinality(I) + Cardinality(J) - Cardinality(I \cap J)
      BY <1>4, <2>3, FS_Union
    <2>6. Cardinality(I \cap J) = 0 /\ Cardinality(I \cup J) = n
      BY <2>1, <2>4, FS_EmptySet
    <2> QED
      BY <1>4, <2>3, <2>5, <2>6
  <1>15. Cardinality(errs) = Cardinality(J)
    BY <1>3, <1>10, <1>11, <1>14, ImageCardinality
  <1>16. ErrorFree(got) = good
    BY <1>a, <1>b DEF ErrorFree
  <1>17. SectorAnswer.rows = rows1
    BY <1>c, <1>d, <1>16 DEF SectorAnswer, RankDesc
  <1>18. SectorAnswer.raised <=> \A i \in 1 .. n : ~ Reads(i)
    <2>1. SectorAnswer.raised <=> good = <<>> /\ errs # {}
      BY <1>12, <1>16 DEF SectorAnswer
    <2>2. good = <<>> <=> I = {}
      BY <1>4, EmptySeq, FS_EmptySet
    <2>3. 1 \in 1 .. n
      BY <1>0, <1>1, <1>e, SectorsAreItems, EmptySeq
    <2>4. I = {} <=> \A i \in 1 .. n : ~ Reads(i)
      BY <1>3
    <2>5. I = {} => errs # {}
      BY <1>3, <1>11, <2>3
    <2> QED
      BY <2>1, <2>2, <2>4, <2>5
  <1>19. {i \in DOMAIN batch : Reads(i)} = I
    BY <1>1, <1>3
  <1>20. Len(rows1) + Cardinality(errs) = Len(batch)
    BY <1>4, <1>7, <1>14, <1>15, <1>e
  <1>21. SectorAnswer.raised <=> \A i \in DOMAIN batch : ~ Reads(i)
    BY <1>1, <1>18
  <1> QED
    BY ZenonT(60), <1>9, <1>12, <1>13, <1>17, <1>19, <1>20, <1>21

\* Every view over a list answers a row of every item: the failure of one, in
\* instrument_summary, _metrics, _one, _build, _panel and the others, stays in that
\* row, and reg.resolve raises only for what was removed.
THEOREM RowsFailAlone == PagesSpec => []FailureStaysLocal
<1>1. PagesInv => FailureStaysLocal
  <2> SUFFICES ASSUME PagesInv, view \in RowViews, phase \in {"returned", "raised"}
               PROVE  FailureStaysLocal
    BY DEF FailureStaysLocal
  <2>1. /\ phase = "returned"
        /\ \A i \in DOMAIN batch :
              \E figure \in FiguresOf(view) : got[i] = RowOf(batch[i], saw[i], figure)
    BY RowsComeBack
  <2>2. \A i \in DOMAIN batch :
              /\ got[i].of = batch[i]
              /\ got[i].ok <=> Reads(i)
              /\ got[i].lacks = saw[i]
    BY <2>1, RowFields DEF Reads
  <2>3. \A i \in DOMAIN batch : saw[i] = {"gone"} => ({batch[i], about} \cap atFirst) \ Known # {}
    BY DEF PagesInv, RowsInv
  <2>4. view \notin {"screen", "sectors"} => RowAnswer.rows = got
    BY DEF RowAnswer
  <2>5. view = "sectors" => RowAnswer = SectorAnswer
    BY DEF RowAnswer
  <2>6. view = "sectors" =>
           LET answer == RowAnswer
               shown == {answer.rows[p].of : p \in DOMAIN answer.rows}
           IN  /\ shown = {batch[i] : i \in {j \in DOMAIN batch : Reads(j)}}
               /\ answer.errors = {batch[i] : i \in DOMAIN batch} \ shown
               /\ Len(answer.rows) + Cardinality(answer.errors) = Len(batch)
               /\ answer.raised <=> \A i \in DOMAIN batch : ~ Reads(i)
    BY <2>5, SectorsSplit
  <2> QED
    BY <2>1, <2>2, <2>3, <2>4, <2>6 DEF FailureStaysLocal
<1> QED
  BY <1>1, AlwaysPagesInv, PTL

-----------------------------------------------------------------------------
(* The screens.                                                            *)

\* A row of a screen has a score, an error row has none.
IsScored(r) ==
    /\ r.ok \in BOOLEAN
    /\ r.ok => r.figure \in Int
    /\ ~ r.ok => r.figure = NoFigure

KeyOf(r) == ScreenKey(r.ok, r.figure)

LEMMA ScreenKeys ==
    ASSUME NEW r, IsScored(r)
    PROVE  KeyOf(r)[1] \in Int /\ KeyOf(r)[2] \in Int
  BY DEF IsScored, KeyOf, ScreenKey, LabelRank

\* What is better has the higher key.
LEMMA BetterIsAbove ==
    ASSUME NEW r, NEW s, IsScored(r), IsScored(s), Better(r, s)
    PROVE  Above(KeyOf(r), KeyOf(s))
  <1>1. CASE r.ok /\ ~ s.ok
    <2>1. KeyOf(r)[1] >= 1 /\ KeyOf(r)[1] \in Int /\ KeyOf(s)[1] = -1
      BY <1>1 DEF IsScored, KeyOf, ScreenKey, LabelRank
    <2> QED
      BY <2>1 DEF Above
  <1>2. CASE r.ok /\ s.ok
    <2>1. PICK a, b : a = r.figure /\ b = s.figure
      OBVIOUS
    <2>2. a \in Int /\ b \in Int /\ a # NoFigure /\ b # NoFigure
      BY <1>2, <2>1, NoFigureAssumption DEF IsScored
    <2>3. /\ KeyOf(r)[1] = LabelRank(TRUE, a) /\ KeyOf(s)[1] = LabelRank(TRUE, b)
          /\ KeyOf(r)[2] = (IF a = 0 THEN -99 ELSE a) /\ KeyOf(s)[2] = (IF b = 0 THEN -99 ELSE b)
      BY <1>2, <2>1, <2>2 DEF KeyOf, ScreenKey, LabelRank
    <2>4. \/ LabelRank(TRUE, a) > LabelRank(TRUE, b)
          \/ LabelRank(TRUE, a) = LabelRank(TRUE, b) /\ a > b /\ a # 0 /\ b # 0
      BY <1>2, <2>1 DEF Better
    <2>5. a > b /\ a # 0 /\ b # 0 /\ LabelRank(TRUE, a) = LabelRank(TRUE, b) =>
             (IF a = 0 THEN -99 ELSE a) > (IF b = 0 THEN -99 ELSE b)
      BY <2>2 DEF LabelRank
    <2> QED
      BY <2>3, <2>4, <2>5 DEF Above
  <1> QED
    BY <1>1, <1>2 DEF Better, IsScored

\* A screen that is complete.
LEMMA ScreenRanked ==
    ASSUME PagesInv, view = "screen", phase = "returned"
    PROVE  LET best == ScreenAnswer.rows
           IN  /\ \A p, q \in DOMAIN best : p < q => ~ Better(best[q], best[p])
               /\ \A i \in DOMAIN got :
                     \/ \E p \in DOMAIN best : best[p] = got[i]
                     \/ \A p \in DOMAIN best : ~ Better(got[i], best[p])
  <1>a. PICK k : k = [i \in DOMAIN got |-> KeyOf(got[i])]
    OBVIOUS
  <1>b. PICK r : r = Ranked(got, k)
    OBVIOUS
  <1>c. PICK best : best = UpTo(Limit, r)
    OBVIOUS
  <1>d. PICK n : n = Len(batch)
    OBVIOUS
  <1>1. /\ got \in Seq(Results) /\ DOMAIN got = 1 .. n /\ DOMAIN batch = 1 .. n /\ n \in Nat
        /\ Len(got) = n
        /\ \A i \in 1 .. n :
              \E figure \in FiguresOf(view) : got[i] = RowOf(batch[i], saw[i], figure)
    <2>1. view \in RowViews
      BY DEF RowViews
    <2> QED
      BY <1>d, <2>1, RowsComeBack
  <1>2. \A i \in 1 .. n : IsScored(got[i])
    <2>1. FiguresOf(view) \subseteq Int
      BY FiguresAssumption DEF FiguresOf
    <2> QED
      BY <1>1, <2>1, RowFields DEF IsScored
  <1>3. \A i \in DOMAIN got : k[i] = KeyOf(got[i]) /\ k[i][1] \in Int /\ k[i][2] \in Int
    BY <1>a, <1>1, <1>2, ScreenKeys
  <1>4. /\ r \in Seq(Results) /\ Len(r) = n /\ DOMAIN r = 1 .. n
        /\ \E e : /\ Embeds(e, r, got, DOMAIN got)
                  /\ \A p, q \in DOMAIN got : p < q => ~ Above(k[e[q]], k[e[p]])
    BY ONLY <1>b, <1>1, <1>3, RankedInOrder
  <1>5. PICK e : /\ Embeds(e, r, got, DOMAIN got)
                 /\ \A p, q \in DOMAIN got : p < q => ~ Above(k[e[q]], k[e[p]])
    BY <1>4
  <1>6. \A p \in 1 .. n : e[p] \in 1 .. n /\ r[p] = got[e[p]]
    BY <1>1, <1>4, <1>5 DEF Embeds
  <1>7. \A p, q \in 1 .. n : p < q => ~ Better(r[q], r[p])
    <2> SUFFICES ASSUME NEW p \in 1 .. n, NEW q \in 1 .. n, p < q, Better(r[q], r[p])
                 PROVE  FALSE
      OBVIOUS
    <2>1. IsScored(r[p]) /\ IsScored(r[q])
      BY <1>2, <1>6
    <2>2. Above(KeyOf(r[q]), KeyOf(r[p]))
      BY <2>1, BetterIsAbove
    <2>3. k[e[q]] = KeyOf(r[q]) /\ k[e[p]] = KeyOf(r[p])
      BY <1>1, <1>3, <1>6
    <2> QED
      BY <1>1, <1>5, <2>2, <2>3
  <1>8. ASSUME NEW i \in 1 .. n PROVE \E p \in 1 .. n : r[p] = got[i]
    <2>1. PICK p \in DOMAIN r : e[p] = i
      BY <1>1, <1>5 DEF Embeds
    <2>2. r[p] = got[e[p]]
      BY <1>5 DEF Embeds
    <2> QED
      BY <1>4, <2>1, <2>2
  <1>9. PICK m : m = Len(best)
    OBVIOUS
  <1>10. /\ DOMAIN best = 1 .. m /\ m \in 0 .. n
         /\ \A p \in 1 .. m : best[p] = r[p]
    <2>1. Limit \in Int
      BY FiguresAssumption
    <2> QED
      BY <1>c, <1>4, <1>9, <2>1, UpToPrefix
  <1>11. \A p \in DOMAIN best : p \in 1 .. n
    BY <1>1, <1>10
  <1>12. \A p, q \in DOMAIN best : p < q => ~ Better(best[q], best[p])
    BY <1>7, <1>10, <1>11
  <1>13. ASSUME NEW i \in DOMAIN got
         PROVE  \/ \E p \in DOMAIN best : best[p] = got[i]
                \/ \A p \in DOMAIN best : ~ Better(got[i], best[p])
    <2>1. PICK q \in 1 .. n : r[q] = got[i]
      BY <1>1, <1>8
    <2>2. CASE q <= m
      <3>1. q \in DOMAIN best
        BY <1>10, <2>2
      <3> QED
        BY <1>10, <2>1, <3>1
    <2>3. CASE ~ (q <= m)
      <3>1. \A p \in DOMAIN best : p < q /\ best[p] = r[p]
        BY <1>1, <1>10, <2>3
      <3> QED
        BY <1>7, <1>11, <2>1, <3>1
    <2> QED
      BY <2>2, <2>3
  <1>14. ScreenAnswer.rows = best
    BY <1>a, <1>b, <1>c DEF ScreenAnswer, RankDesc, KeyOf
  <1> QED
    BY <1>12, <1>13, <1>14

\* The sort of the screens by (RANK, score or -99) and its slice: no row stands
\* before a better one, and the limit cuts off none that is better than it leaves; of
\* a score of 0 this says its label alone.
THEOREM ScreensKeepTheBest == PagesSpec => []BestRankedFirst
<1>1. PagesInv => BestRankedFirst
  <2> SUFFICES ASSUME PagesInv, view = "screen", phase = "returned" PROVE BestRankedFirst
    BY DEF BestRankedFirst
  <2>1. RowAnswer = ScreenAnswer
    BY DEF RowAnswer
  <2> QED
    BY <2>1, ScreenRanked DEF BestRankedFirst
<1> QED
  BY <1>1, AlwaysPagesInv, PTL

-----------------------------------------------------------------------------
(* The suggestions.                                                        *)

\* What holds somewhere in a sequence has a first place.
LEMMA FirstPlace ==
    ASSUME NEW T, NEW s \in Seq(T), NEW I \in SUBSET (DOMAIN s), I # {}
    PROVE  \E i \in I : \A j \in I : i <= j
  <1>1. PICK r : r = Picked(s, I)
    OBVIOUS
  <1>2. /\ IsFiniteSet(I) /\ Cardinality(I) \in Nat /\ DOMAIN r = 1 .. Cardinality(I)
        /\ \E e : /\ Embeds(e, r, s, I)
                  /\ \A p, q \in DOMAIN r : p < q => e[p] < e[q]
    BY <1>1, PickedInOrder
  <1>3. PICK e : /\ Embeds(e, r, s, I)
                 /\ \A p, q \in DOMAIN r : p < q => e[p] < e[q]
    BY <1>2
  <1>4. 1 \in DOMAIN r
    BY <1>2, FS_EmptySet
  <1>5. I \subseteq Int
    BY LenProperties
  <1>6. e[1] \in I
    BY <1>3, <1>4 DEF Embeds
  <1>7. ASSUME NEW j \in I PROVE e[1] <= j
    <2>1. PICK p \in DOMAIN r : e[p] = j
      BY <1>3 DEF Embeds
    <2>2. p = 1 \/ 1 < p
      BY <1>2, <2>1
    <2> QED
      BY <1>3, <1>4, <1>5, <1>6, <2>1, <2>2
  <1> QED
    BY <1>6, <1>7

\* Of the elements of a sequence, each once.
LEMMA FirstsElements ==
    ASSUME NEW T, NEW s \in Seq(T), NEW r, r = Picked(s, Firsts(s))
    PROVE  /\ r \in Seq(T)
           /\ \A p, q \in DOMAIN r : r[p] = r[q] => p = q
           /\ \A p \in DOMAIN r : \E i \in DOMAIN s : r[p] = s[i]
           /\ \A i \in DOMAIN s : \E p \in DOMAIN r : r[p] = s[i]
  <1>1. PICK I : I = Firsts(s)
    OBVIOUS
  <1>2. /\ I \in SUBSET (DOMAIN s)
        /\ \A i \in I : \A j \in 1 .. i - 1 : s[j] # s[i]
        /\ \A i \in DOMAIN s : (\A j \in 1 .. i - 1 : s[j] # s[i]) => i \in I
    BY <1>1 DEF Firsts
  <1>3. DOMAIN s = 1 .. Len(s) /\ Len(s) \in Nat
    BY LenProperties
  <1>4. \A i, j \in I : s[i] = s[j] => i = j
    <2> SUFFICES ASSUME NEW i \in I, NEW j \in I, s[i] = s[j], i # j PROVE FALSE
      OBVIOUS
    <2>1. i \in 1 .. Len(s) /\ j \in 1 .. Len(s)
      BY <1>2, <1>3
    <2>2. i \in 1 .. j - 1 \/ j \in 1 .. i - 1
      BY <1>3, <2>1
    <2> QED
      BY <1>2, <2>2
  <1>5. ASSUME NEW i \in DOMAIN s PROVE \E j \in I : s[j] = s[i]
    <2>1. PICK J : J = {j \in DOMAIN s : s[j] = s[i]}
      OBVIOUS
    <2>2. J \in SUBSET (DOMAIN s) /\ i \in J /\ \A j \in DOMAIN s : j \in J <=> s[j] = s[i]
      BY <2>1
    <2>3. J # {}
      BY <2>2
    <2>4. PICK j \in J : \A l \in J : j <= l
      BY <2>2, <2>3, FirstPlace
    <2>5. \A l \in 1 .. j - 1 : l \in DOMAIN s /\ ~ (j <= l)
      BY <1>3, <2>2
    <2>6. j \in I
      BY <1>2, <2>2, <2>4, <2>5
    <2> QED
      BY <2>2, <2>6
  <1>6. r = Picked(s, I)
    BY <1>1
  <1>7. /\ r \in Seq(T)
        /\ \A p \in DOMAIN r : \E i \in I : r[p] = s[i]
        /\ \A i \in I : \E p \in DOMAIN r : r[p] = s[i]
        /\ \A p, q \in DOMAIN r : r[p] = r[q] => p = q
    <2>1. r \in Seq(T)
      BY ONLY <1>2, <1>6, s \in Seq(T), PickedElements
    <2>2. \A p \in DOMAIN r : \E i \in I : r[p] = s[i]
      BY ONLY <1>2, <1>6, s \in Seq(T), PickedElements
    <2>3. \A i \in I : \E p \in DOMAIN r : r[p] = s[i]
      BY ONLY <1>2, <1>6, s \in Seq(T), PickedElements
    <2>4. \A p, q \in DOMAIN r : r[p] = r[q] => p = q
      BY ONLY <1>2, <1>4, <1>6, s \in Seq(T), PickedElements
    <2> QED
      BY <2>1, <2>2, <2>3, <2>4
  <1>8. \A i \in DOMAIN s : \E p \in DOMAIN r : r[p] = s[i]
    BY <1>5, <1>7
  <1> QED
    BY <1>2, <1>7, <1>8

\* A list, and after it what else is wanted of another, up to a number.
FillUp(a, M, W, limit) ==
    LET all == a \o UpTo(limit - Len(a), Among(M, W))
    IN  SubSeq(all, 1, IF limit < Len(all) THEN limit ELSE Len(all))

\* Two lists without duplicates, what is wanted, and what of it is not yet there.
CanFill(T, a, A, M, S, W, limit) ==
    /\ a \in Seq(T) /\ M \in Seq(T) /\ limit \in Nat \ {0}
    /\ \A i, j \in DOMAIN a : a[i] = a[j] => i = j
    /\ \A i, j \in DOMAIN M : M[i] = M[j] => i = j
    /\ \A i \in DOMAIN a : a[i] \in A
    /\ \A x \in A : \E i \in DOMAIN a : a[i] = x
    /\ \A x : x \in W <=> x \in S /\ x \notin A

Filled(T, out, A, M, S, limit) ==
    /\ out \in Seq(T) /\ Len(out) \in Nat /\ Len(out) <= limit /\ DOMAIN out = 1 .. Len(out)
    /\ \A p, q \in DOMAIN out : out[p] = out[q] => p = q
    /\ \A p \in DOMAIN out : out[p] \in A \cup S
    /\ Len(out) = limit \/
          /\ \A x \in A : \E p \in DOMAIN out : out[p] = x
          /\ \A i \in DOMAIN M : M[i] \in S => \E p \in DOMAIN out : out[p] = M[i]

LEMMA FilledUp ==
    ASSUME NEW T, NEW a, NEW A, NEW M, NEW S, NEW W, NEW limit, CanFill(T, a, A, M, S, W, limit)
    PROVE  Filled(T, FillUp(a, M, W, limit), A, M, S, limit)
  <1>g. /\ a \in Seq(T) /\ M \in Seq(T) /\ limit \in Nat \ {0}
        /\ \A i, j \in DOMAIN a : a[i] = a[j] => i = j
        /\ \A i, j \in DOMAIN M : M[i] = M[j] => i = j
        /\ \A i \in DOMAIN a : a[i] \in A
        /\ \A x \in A : \E i \in DOMAIN a : a[i] = x
        /\ \A x : x \in W <=> x \in S /\ x \notin A
    BY DEF CanFill
  <1>h. PICK out : out = FillUp(a, M, W, limit)
    OBVIOUS
  <1>0. PICK all : /\ all = a \o UpTo(limit - Len(a), Among(M, W))
                   /\ out = SubSeq(all, 1, IF limit < Len(all) THEN limit ELSE Len(all))
    BY <1>g, <1>h DEF FillUp
  <1>a. PICK b : b = Among(M, W)
    OBVIOUS
  <1>b. PICK c : c = UpTo(limit - Len(a), b)
    BY <1>g
  <1>c. PICK n, m : n = Len(a) /\ m = Len(c)
    BY <1>g
  <1>e. /\ \A i \in DOMAIN a : a[i] \in A
        /\ \A x \in A : \E i \in DOMAIN a : a[i] = x
        /\ \A x \in W : x \in S /\ x \notin A
        /\ \A x \in S : x \notin A => x \in W
    BY <1>g, <1>0
  <1>d. PICK l : l = IF limit < Len(all) THEN limit ELSE Len(all)
    BY <1>g
  <1>1. n \in Nat /\ DOMAIN a = 1 .. n
    BY <1>g, <1>c, LenProperties
  <1>2. /\ b \in Seq(T)
        /\ \A p \in DOMAIN b : b[p] \in W
        /\ \A i \in DOMAIN M : M[i] \in W => \E p \in DOMAIN b : b[p] = M[i]
        /\ \A p, q \in DOMAIN b : b[p] = b[q] => p = q
    <2>1. b \in Seq(T)
      BY ONLY <1>a, AmongElements, <1>g
    <2>2. \A p \in DOMAIN b : b[p] \in W
      BY ONLY <1>a, AmongElements, <1>g
    <2>3. \A i \in DOMAIN M : M[i] \in W => \E p \in DOMAIN b : b[p] = M[i]
      BY ONLY <1>a, AmongElements, <1>g
    <2>4. \A p, q \in DOMAIN b : b[p] = b[q] => p = q
      BY ONLY <1>a, AmongElements, <1>g
    <2> QED
      BY <1>g, <2>1, <2>2, <2>3, <2>4
  <1>3. /\ c \in Seq(T) /\ DOMAIN c = 1 .. m /\ m \in 0 .. Len(b) /\ Len(b) \in Nat
        /\ m < Len(b) => m >= limit - n
        /\ \A p \in 1 .. m : c[p] = b[p]
        /\ DOMAIN b = 1 .. Len(b)
    <2>1. limit - n \in Int /\ c = UpTo(limit - n, b)
      BY <1>g, <1>1, <1>b, <1>c
    <2>2. Len(b) \in Nat /\ DOMAIN b = 1 .. Len(b)
      BY <1>g, <1>2, LenProperties
    <2> QED
      BY <1>g, <1>2, <1>c, <2>1, <2>2, UpToPrefix
  <1>4. /\ all \in Seq(T) /\ Len(all) = n + m
        /\ \A p \in 1 .. n : all[p] = a[p]
        /\ \A p \in n + 1 .. n + m : all[p] = c[p - n]
    BY <1>g, <1>0, <1>1, <1>3, <1>a, <1>b, <1>c, ConcatProperties
  <1>5. l \in 0 .. n + m /\ l <= limit /\ (l < limit => l = n + m)
    BY <1>g, <1>1, <1>3, <1>4, <1>d
  <1>6. /\ out \in Seq(T) /\ Len(out) = l /\ DOMAIN out = 1 .. l
        /\ \A p \in 1 .. l : out[p] = all[p]
    <2>1. \A p \in 1 .. l : all[p] \in T
      BY <1>g, <1>1, <1>3, <1>4, <1>5, ElementOfSeq
    <2>2. out = SubSeq(all, 1, l)
      BY <1>g, <1>0, <1>d
    <2>3. out \in Seq(T) /\ Len(out) = l /\ \A p \in 1 .. l : out[p] = all[p]
      BY ONLY <1>g, <1>4, <1>5, <1>1, <1>3, <2>1, <2>2, SubSeqProperties
    <2> QED
      BY <1>g, <2>3, LenProperties
  <1>7. \A p \in 1 .. l : \/ p \in 1 .. n /\ out[p] = a[p] /\ a[p] \in A
                          \/ p - n \in 1 .. m /\ out[p] = b[p - n] /\ b[p - n] \in W
    <2> SUFFICES ASSUME NEW p \in 1 .. l
                 PROVE  \/ p \in 1 .. n /\ out[p] = a[p] /\ a[p] \in A
                        \/ p - n \in 1 .. m /\ out[p] = b[p - n] /\ b[p - n] \in W
      OBVIOUS
    <2>1. CASE p <= n
      <3>1. p \in 1 .. n /\ p \in DOMAIN a
        BY ONLY <1>g, <1>1, <2>1, p \in 1 .. l
      <3>2. a[p] \in A
        BY ONLY <1>g, <1>e, <3>1
      <3> QED
        BY ONLY <1>g, <1>4, <1>6, <3>1, <3>2, p \in 1 .. l
    <2>2. CASE ~ (p <= n)
      <3>1. p \in n + 1 .. n + m /\ p - n \in 1 .. m /\ p - n \in DOMAIN b
        BY <1>g, <1>1, <1>3, <1>5, <2>2
      <3> QED
        BY ONLY <1>g, <1>2, <1>3, <1>4, <1>6, <3>1, p \in 1 .. l
    <2> QED
      BY <1>g, <2>1, <2>2
  <1>8. \A p \in DOMAIN out : out[p] \in A \cup S
    BY ONLY <1>g, <1>6, <1>7, <1>e
  <1>9. \A p, q \in DOMAIN out : out[p] = out[q] => p = q
    <2>0. DOMAIN out = 1 .. l
      BY <1>g, <1>6
    <2> SUFFICES ASSUME NEW p \in DOMAIN out, NEW q \in DOMAIN out, out[p] = out[q] PROVE p = q
      OBVIOUS
    <2>a. p \in 1 .. l /\ q \in 1 .. l
      BY ONLY <1>g, <2>0, p \in DOMAIN out, q \in DOMAIN out
    <2>1. CASE p \in 1 .. n /\ out[p] = a[p] /\ q \in 1 .. n /\ out[q] = a[q]
      BY <1>g, <1>1, <2>1
    <2>2. CASE /\ p - n \in 1 .. m /\ out[p] = b[p - n] /\ q - n \in 1 .. m /\ out[q] = b[q - n]
      <3>1. p - n \in DOMAIN b /\ q - n \in DOMAIN b /\ b[p - n] = b[q - n]
        BY ONLY <1>g, <1>3, <2>2, out[p] = out[q]
      <3>2. p - n = q - n
        BY ONLY <1>g, <1>2, <3>1
      <3> QED
        BY ONLY <1>g, <1>1, <1>5, <3>2, <2>a
    <2>3. \A x \in W : x \notin A
      BY <1>g, <1>e
    <2> QED
      BY ONLY <1>g, <1>7, <2>1, <2>2, <2>3, <2>a, out[p] = out[q]
  <1>10. ASSUME l < limit
         PROVE  /\ \A x \in A : \E p \in DOMAIN out : out[p] = x
                /\ \A i \in DOMAIN M : M[i] \in S => \E p \in DOMAIN out : out[p] = M[i]
    <2>1. l = n + m /\ m = Len(b)
      <3>1. l < limit /\ l \in Nat /\ limit \in Nat /\ n \in Nat /\ m \in Nat /\ Len(b) \in Nat
        BY <1>g, <1>1, <1>3, <1>5, <1>10
      <3>2. l = n + m /\ m <= Len(b) /\ (m < Len(b) => m >= limit - n)
        BY ONLY <1>g, <1>1, <1>3, <1>5, <3>1
      <3> QED
        BY ONLY <1>g, <3>1, <3>2
    <2>2. \A x \in A : \E p \in DOMAIN out : out[p] = x
      <3> SUFFICES ASSUME NEW x \in A PROVE \E p \in DOMAIN out : out[p] = x
        OBVIOUS
      <3>1. PICK i \in DOMAIN a : a[i] = x
        BY <1>g, <1>e
      <3>2. i \in 1 .. n /\ i \in 1 .. l
        BY ONLY <1>g, <1>1, <1>3, <2>1, <3>1
      <3> QED
        BY ONLY <1>g, <1>4, <1>6, <3>1, <3>2
    <2>3. ASSUME NEW p \in DOMAIN b PROVE \E q \in DOMAIN out : out[q] = b[p]
      <3>1. p + n \in 1 .. l /\ p + n \in n + 1 .. n + m /\ (p + n) - n = p /\ p \in 1 .. m
        BY ONLY <1>g, <1>1, <1>3, <2>1, p \in DOMAIN b
      <3>2. all[p + n] = c[p] /\ c[p] = b[p]
        BY ONLY <1>g, <1>3, <1>4, <3>1
      <3> QED
        BY ONLY <1>g, <1>6, <3>1, <3>2
    <2>4. ASSUME NEW i \in DOMAIN M, M[i] \in S PROVE \E p \in DOMAIN out : out[p] = M[i]
      <3>1. CASE M[i] \in A
        BY <1>g, <2>2, <3>1
      <3>2. CASE M[i] \notin A
        <4>1. PICK p \in DOMAIN b : b[p] = M[i]
          BY ONLY <1>g, <1>2, <1>e, <2>4, <3>2, i \in DOMAIN M
        <4> QED
          BY ONLY <1>g, <2>3, <4>1
      <3> QED
        BY <1>g, <3>1, <3>2
    <2> QED
      BY <1>g, <2>2, <2>4
  <1>11. l \in Nat /\ l <= limit /\ (l = limit \/ l < limit) /\ Len(out) = l
    BY ONLY <1>1, <1>3, <1>5, <1>6, <1>g
  <1> QED
    <2>1. Filled(T, out, A, M, S, limit)
      BY ONLY <1>g, <1>6, <1>8, <1>9, <1>10, <1>11 DEF Filled
    <2> QED
      BY <1>h, <2>1

Symbols == Curated \cup UNION {Range(b) : b \in BrokerLists}

LEMMA Lists ==
    /\ Templates \in Seq(Symbols)
    /\ \A a \in DOMAIN Majors : Majors[a] \in Seq(Symbols)
    /\ \A b \in BrokerLists : b \in Seq(Symbols)
  <1>1. PICK C, U : C = Curated /\ U = UNION {Range(b) : b \in BrokerLists}
    OBVIOUS
  <1>2. C \subseteq Symbols /\ U \subseteq Symbols
    BY <1>1 DEF Symbols
  <1>3. Templates \in Seq(C) /\ \A a \in DOMAIN Majors : Majors[a] \in Seq(C)
    BY <1>1, SearchAssumption
  <1>4. \A b \in BrokerLists : b \in Seq(U)
    BY <1>1, SearchAssumption
  <1> QED
    BY <1>2, <1>3, <1>4, WiderSeq

\* What the broker has that is of the class, each once.
LEMMA BrokersOnce ==
    ASSUME NEW r, r = Once(BrokerHits), broker' \in Seq(Symbols)
    PROVE  /\ r \in Seq(Symbols)
           /\ \A i, j \in DOMAIN r : r[i] = r[j] => i = j
           /\ {r[i] : i \in DOMAIN r} =
                 {s \in {broker'[i] : i \in DOMAIN broker'} : (class' = "etf") = (s \in IsEtf)}
  <1>a. PICK b, I : b = broker' /\ I = {i \in DOMAIN b : (class' = "etf") = (b[i] \in IsEtf)}
    OBVIOUS
  <1>b. PICK h : h = Picked(b, I)
    OBVIOUS
  <1>1. b \in Seq(Symbols) /\ I \in SUBSET (DOMAIN b) /\ h = BrokerHits
    BY <1>a, <1>b DEF BrokerHits
  <1>2. \A i \in DOMAIN b : i \in I <=> ((class' = "etf") = (b[i] \in IsEtf))
    BY <1>a
  <1>3. h \in Seq(Symbols)
    BY ONLY <1>1, <1>b, PickedElements
  <1>4. \A p \in DOMAIN h : \E i \in I : h[p] = b[i]
    BY ONLY <1>1, <1>b, PickedElements
  <1>5. \A i \in I : \E p \in DOMAIN h : h[p] = b[i]
    BY ONLY <1>1, <1>b, PickedElements
  <1>6. r = Picked(h, Firsts(h))
    BY <1>1 DEF Once
  <1>7. /\ r \in Seq(Symbols)
        /\ \A p, q \in DOMAIN r : r[p] = r[q] => p = q
        /\ \A p \in DOMAIN r : \E i \in DOMAIN h : r[p] = h[i]
        /\ \A i \in DOMAIN h : \E p \in DOMAIN r : r[p] = h[i]
    BY ONLY <1>3, <1>6, FirstsElements
  <1>8. \A p \in DOMAIN r : \E i \in DOMAIN b : r[p] = b[i] /\ i \in I
    BY ONLY <1>1, <1>4, <1>7
  <1>9. \A i \in I : \E p \in DOMAIN r : r[p] = b[i]
    BY ONLY <1>5, <1>7
  <1> QED
    BY <1>a, <1>2, <1>7, <1>8, <1>9

LEMMA TemplatesOnce ==
    ASSUME NEW r, r = Once(Matching(Templates))
    PROVE  /\ r \in Seq(Symbols)
           /\ \A i, j \in DOMAIN r : r[i] = r[j] => i = j
           /\ \A i \in DOMAIN r : r[i] \in matching'
           /\ \A i \in DOMAIN Templates :
                 Templates[i] \in matching' => \E p \in DOMAIN r : r[p] = Templates[i]
  <1>a. PICK S, t : S = matching' /\ t = Among(Templates, S)
    OBVIOUS
  <1>1. Templates \in Seq(Symbols)
    BY Lists
  <1>2. t \in Seq(Symbols)
    BY ONLY <1>a, <1>1, AmongElements
  <1>3. \A p \in DOMAIN t : t[p] \in S
    BY ONLY <1>a, <1>1, AmongElements
  <1>4. \A i \in DOMAIN Templates : Templates[i] \in S => \E p \in DOMAIN t : t[p] = Templates[i]
    BY ONLY <1>a, <1>1, AmongElements
  <1>5. r = Picked(t, Firsts(t))
    BY <1>a DEF Once, Matching
  <1>6. /\ r \in Seq(Symbols)
        /\ \A p, q \in DOMAIN r : r[p] = r[q] => p = q
        /\ \A p \in DOMAIN r : \E i \in DOMAIN t : r[p] = t[i]
        /\ \A i \in DOMAIN t : \E p \in DOMAIN r : r[p] = t[i]
    BY ONLY <1>2, <1>5, FirstsElements
  <1>7. \A i \in DOMAIN r : r[i] \in S
    BY ONLY <1>3, <1>6
  <1>8. \A i \in DOMAIN Templates : Templates[i] \in S => \E p \in DOMAIN r : r[p] = Templates[i]
    BY ONLY <1>4, <1>6
  <1> QED
    BY <1>a, <1>6, <1>7, <1>8

LEMMA SearchCompletes ==
    ASSUME Search
    PROVE  SuggestionsComplete' /\ SearchTypeOK'
  <1>a. PICK c, S, most1, b, out : /\ c = class' /\ S = matching' /\ most1 = most'
                                   /\ b = broker' /\ out = suggested'
    OBVIOUS
  <1>b. PICK B : B = {s \in {b[i] : i \in DOMAIN b} : (c = "etf") = (s \in IsEtf)}
    OBVIOUS
  <1>1. /\ c \in {"equity", "etf", "forex", "crypto", "futures"} /\ c \in DOMAIN Majors
        /\ most1 \in 1 .. MaxLimit /\ most1 \in Nat \ {0}
        /\ b \in BrokerLists /\ b \in Seq(Symbols)
        /\ c \notin {"equity", "etf"} => b = <<>>
        /\ S \subseteq Range(Majors[c]) \cup (IF c = "futures" THEN Range(Templates) ELSE {})
    BY <1>a, SearchAssumption, Lists DEF Search
  <1>2. PICK M : M = Majors[c]
    OBVIOUS
  <1>3. M \in Seq(Symbols) /\ \A i, j \in DOMAIN M : M[i] = M[j] => i = j
    BY <1>1, <1>2, Lists, SearchAssumption
  <1>4. \A f : Range(f) = {f[i] : i \in DOMAIN f}
    BY DEF Range
  <1>5. c \notin {"equity", "etf"} => B = {}
    BY <1>1, <1>b, EmptySeq
  <1>6. \E a, A, W :
           /\ a \in Seq(Symbols)
           /\ \A i, j \in DOMAIN a : a[i] = a[j] => i = j
           /\ A = {a[i] : i \in DOMAIN a} /\ W = S \ A
           /\ out = FillUp(a, M, W, most1)
           /\ B \subseteq A /\ A \subseteq B \cup S
           /\ S \subseteq A \cup {M[i] : i \in DOMAIN M}
    <2>1. CASE c \in {"equity", "etf"}
      <3>1. PICK a : a = Once(BrokerHits)
        OBVIOUS
      <3>2. /\ a \in Seq(Symbols)
            /\ \A i, j \in DOMAIN a : a[i] = a[j] => i = j
            /\ {a[i] : i \in DOMAIN a} = B
        BY <1>1, <1>a, <1>b, <3>1, BrokersOnce
      <3>3. PICK A, W, all : /\ A = {a[i] : i \in DOMAIN a} /\ W = S \ A
                           /\ all = a \o UpTo(most1 - Len(a), Among(M, W))
        OBVIOUS
      <3>4. ListedHits = all
        BY <1>2, <1>4, <1>a, <3>1, <3>3 DEF ListedHits, CuratedHits
      <3>5. out = SubSeq(all, 1, IF most1 < Len(all) THEN most1 ELSE Len(all))
        BY <1>a, <2>1, <3>4 DEF Search, Hits
      <3>6. S \subseteq {M[i] : i \in DOMAIN M}
        BY <1>1, <1>2, <1>4, <2>1
      <3>7. out = FillUp(a, M, W, most1)
        BY ONLY <3>3, <3>5 DEF FillUp
      <3> QED
        BY ONLY <3>2, <3>3, <3>6, <3>7
    <2>2. CASE c \in {"forex", "crypto"}
      <3>1. PICK A, W, all : A = {} /\ W = S \ A /\ all = <<>> \o UpTo(most1 - Len(<<>>), Among(M, W))
        OBVIOUS
      <3>2. W = S /\ most1 - Len(<<>>) = most1
        BY <1>1, <3>1
      <3>3. UpTo(most1, Among(M, S)) \in Seq(Symbols)
        <4>1. PICK r : r = Among(M, S)
          OBVIOUS
        <4>2. r \in Seq(Symbols)
          BY ONLY <1>3, <4>1, AmongElements
        <4> QED
          BY <1>1, <4>1, <4>2, UpToPrefix
      <3>4. all = UpTo(most1, Among(M, S))
        BY <3>1, <3>2, <3>3, ConcatEmptySeq
      <3>5. out = SubSeq(all, 1, IF most1 < Len(all) THEN most1 ELSE Len(all))
        BY <1>2, <1>a, <2>2, <3>4 DEF Search, Hits, Matching
      <3>6. S \subseteq {M[i] : i \in DOMAIN M}
        BY <1>1, <1>2, <1>4, <2>2
      <3>7. <<>> \in Seq(Symbols) /\ DOMAIN <<>> = {}
        BY EmptySeq
      <3>8. PICK a : a = <<>>
        OBVIOUS
      <3>9. a \in Seq(Symbols) /\ DOMAIN a = {} /\ A = {a[i] : i \in DOMAIN a}
        BY <3>1, <3>7, <3>8
      <3>10. all = a \o UpTo(most1 - Len(a), Among(M, W))
        BY <3>1, <3>8
      <3>11. B = {}
        BY <1>5, <2>2
      <3>12. out = FillUp(a, M, W, most1)
        BY ONLY <3>1, <3>5, <3>10 DEF FillUp
      <3> QED
        BY ONLY <3>1, <3>6, <3>9, <3>11, <3>12
    <2>3. CASE c = "futures"
      <3>1. PICK a : a = Once(Matching(Templates))
        OBVIOUS
      <3>2. /\ a \in Seq(Symbols)
            /\ \A i, j \in DOMAIN a : a[i] = a[j] => i = j
            /\ \A i \in DOMAIN a : a[i] \in S
            /\ \A i \in DOMAIN Templates : Templates[i] \in S => \E p \in DOMAIN a : a[p] = Templates[i]
        BY <1>a, <3>1, TemplatesOnce
      <3>3. PICK A, W, all : /\ A = {a[i] : i \in DOMAIN a} /\ W = S \ A
                           /\ all = a \o UpTo(most1 - Len(a), Among(M, W))
        OBVIOUS
      <3>4. FuturesHits = all
        BY <1>2, <1>4, <1>a, <2>3, <3>1, <3>3 DEF FuturesHits
      <3>5. out = SubSeq(all, 1, IF most1 < Len(all) THEN most1 ELSE Len(all))
        BY <1>a, <2>3, <3>4 DEF Search, Hits
      <3>6. S \subseteq {a[i] : i \in DOMAIN a} \cup {M[i] : i \in DOMAIN M}
        <4>1. \A x \in S : x \in Range(M) \/ x \in Range(Templates)
          BY <1>1, <1>2, <2>3
        <4> QED
          BY <1>4, <3>2, <4>1
      <3>7. A \subseteq S /\ B = {}
        BY <1>5, <2>3, <3>2, <3>3
      <3>8. out = FillUp(a, M, W, most1)
        BY ONLY <3>3, <3>5 DEF FillUp
      <3> QED
        BY ONLY <3>2, <3>3, <3>6, <3>7, <3>8
    <2> QED
      BY <1>1, <2>1, <2>2, <2>3
  <1>7. PICK a, A, W :
           /\ a \in Seq(Symbols)
           /\ \A i, j \in DOMAIN a : a[i] = a[j] => i = j
           /\ A = {a[i] : i \in DOMAIN a} /\ W = S \ A
           /\ out = FillUp(a, M, W, most1)
           /\ B \subseteq A /\ A \subseteq B \cup S
           /\ S \subseteq A \cup {M[i] : i \in DOMAIN M}
    BY ONLY <1>6
  <1>b2. /\ CanFill(Symbols, a, A, M, S, W, most1)
         /\ \A x \in S : x \in A \/ \E i \in DOMAIN M : x = M[i]
    BY ONLY <1>1, <1>3, <1>7 DEF CanFill
  <1>8. /\ out \in Seq(Symbols)
        /\ Cardinality({out[p] : p \in DOMAIN out}) = Len(out)
        /\ Len(out) <= most1
        /\ {out[p] : p \in DOMAIN out} \subseteq B \cup S
        /\ Len(out) = most1 \/ B \cup S \subseteq {out[p] : p \in DOMAIN out}
    <2>0. out = FillUp(a, M, W, most1) /\ B \subseteq A /\ A \subseteq B \cup S
      BY ONLY <1>7
    <2>1. Filled(Symbols, out, A, M, S, most1)
      BY ONLY <1>b2, <2>0, FilledUp
    <2>2. /\ out \in Seq(Symbols) /\ Len(out) \in Nat /\ Len(out) <= most1 /\ DOMAIN out = 1 .. Len(out)
          /\ \A p, q \in DOMAIN out : out[p] = out[q] => p = q
          /\ \A p \in DOMAIN out : out[p] \in A \cup S
          /\ Len(out) = most1 \/
                /\ \A x \in A : \E p \in DOMAIN out : out[p] = x
                /\ \A i \in DOMAIN M : M[i] \in S => \E p \in DOMAIN out : out[p] = M[i]
      BY ONLY <2>1 DEF Filled
    <2>4. Cardinality({out[p] : p \in DOMAIN out}) = Len(out)
      <3>a. PICK D, L : D = DOMAIN out /\ L = Len(out)
        OBVIOUS
      <3>1. D = 1 .. L /\ L \in Nat
        BY ONLY <2>2, <3>a
      <3>2. IsFiniteSet(D) /\ Cardinality(D) = L
        BY ONLY <3>1, FS_Interval
      <3>3. DOMAIN out = D /\ \A p, q \in D : out[p] = out[q] => p = q
        BY ONLY <2>2, <3>a
      <3>4. Cardinality({out[p] : p \in D}) = Cardinality(D)
        BY ONLY <3>2, <3>3, ImageCardinality
      <3> QED
        BY ONLY <3>2, <3>4, <3>a
    <2>5. {out[p] : p \in DOMAIN out} \subseteq B \cup S
      BY ONLY <2>0, <2>2
    <2>6. Len(out) = most1 \/ B \cup S \subseteq {out[p] : p \in DOMAIN out}
      BY ONLY <1>b2, <2>0, <2>2
    <2> QED
      BY ONLY <2>2, <2>4, <2>5, <2>6
  <1>9. SuggestionsComplete'
    BY <1>8, <1>a, <1>b DEF SuggestionsComplete
  <1>10. S \subseteq Curated
    <2>1. PICK X : X = Curated
      OBVIOUS
    <2>2. Templates \in Seq(X) /\ Majors[c] \in Seq(X)
      BY <1>1, <2>1, SearchAssumption
    <2>3. /\ \A i \in DOMAIN Majors[c] : Majors[c][i] \in X
          /\ \A i \in DOMAIN Templates : Templates[i] \in X
      BY ONLY <2>2, ElementOfSeq, LenProperties
    <2>4. \A x \in S : \/ \E i \in DOMAIN Majors[c] : x = Majors[c][i]
                       \/ \E i \in DOMAIN Templates : x = Templates[i]
      BY <1>1, <1>4
    <2> QED
      BY ONLY <2>1, <2>3, <2>4
  <1> QED
    BY <1>1, <1>8, <1>9, <1>10, <1>a DEF SearchTypeOK, Symbols

SearchInv == SuggestionsComplete /\ SearchTypeOK

LEMMA SearchStepInv == SearchInv /\ [SearchNext]_searchVars => SearchInv'
  <1> SUFFICES ASSUME SearchInv, [SearchNext]_searchVars PROVE SearchInv'
    OBVIOUS
  <1>1. CASE Search
    BY <1>1, SearchCompletes DEF SearchInv
  <1>2. CASE SendSuggestions
    BY <1>2, SearchAssumption, EmptySeq DEF SendSuggestions, SearchInv, SuggestionsComplete, SearchTypeOK
  <1>3. CASE UNCHANGED searchVars
    BY <1>3 DEF searchVars, SearchInv, SuggestionsComplete, SearchTypeOK
  <1> QED
    BY <1>1, <1>2, <1>3 DEF SearchNext

LEMMA AlwaysSearchInv == PagesSpec => []SearchInv
<1>1. PagesInit => SearchInv
  BY SearchAssumption, EmptySeq DEF PagesInit, SearchInit, SearchInv, SuggestionsComplete, SearchTypeOK
<1>2. SearchInv /\ [PagesNext]_pageVars => SearchInv'
  <2>1. [PagesNext]_pageVars => [SearchNext]_searchVars
    BY DEF PagesNext, pageVars
  <2> QED
    BY <2>1, SearchStepInv
<1> QED
  BY <1>1, <1>2, PTL DEF PagesSpec

\* symbol_search.search, for every query, class, limit and answer of the broker:
\* no symbol twice, no more than the limit, and no match left out that had a place.
THEOREM SearchMissesNothing == PagesSpec => []SuggestionsComplete
  BY AlwaysSearchInv, PTL DEF SearchInv

-----------------------------------------------------------------------------
(* The curves.                                                             *)

\* The points of an answer that have a price.
PricedPoints(answer) == {answer[i] : i \in {j \in DOMAIN answer : answer[j].price # NoFigure}}

\* A curve begins with the nearest of the points that have a price and ends with the
\* farthest.
LEMMA CurveInOrder ==
    ASSUME NEW answer \in Seq(Points), NEW r, r = CurveOf(answer), Len(r) >= 2
    PROVE  \E near, far \in PricedPoints(answer) :
              /\ near.price \in Prices /\ far.price \in Prices
              /\ \A x \in PricedPoints(answer) : /\ near.expiration <= x.expiration
                                                 /\ x.expiration <= far.expiration
              /\ r[1] = near /\ r[Len(r)] = far
  <1>a. PICK I : I = {j \in DOMAIN answer : answer[j].price # NoFigure}
    OBVIOUS
  <1>b. PICK s : s = Picked(answer, I)
    OBVIOUS
  <1>c. PICK k : k = [i \in DOMAIN s |-> <<-s[i].expiration, 0>>]
    OBVIOUS
  <1>d. PICK n : n = Len(s)
    OBVIOUS
  <1>1. I \in SUBSET (DOMAIN answer) /\ \A i \in I : answer[i] \in Points /\ answer[i].price # NoFigure
    BY <1>a, ElementOfSeq
  <1>2. /\ s \in Seq(Points) /\ DOMAIN s = 1 .. n /\ n \in Nat
        /\ \E f : Embeds(f, s, answer, I)
    <2>1. /\ s \in Seq(Points) /\ \E f : Embeds(f, s, answer, I)
      BY ONLY <1>1, <1>b, answer \in Seq(Points), PickedInOrder
    <2> QED
      BY ONLY <2>1, <1>d, LenProperties
  <1>3. PICK f : Embeds(f, s, answer, I)
    BY <1>2
  <1>4. \A p \in 1 .. n : s[p] \in Points /\ s[p] \in PricedPoints(answer) /\ s[p].price \in Prices
    <2> SUFFICES ASSUME NEW p \in 1 .. n
                 PROVE  s[p] \in Points /\ s[p] \in PricedPoints(answer) /\ s[p].price \in Prices
      OBVIOUS
    <2>1. PICK i \in I : s[p] = answer[i]
      BY <1>2, <1>3 DEF Embeds
    <2>2. s[p] \in Points /\ s[p].price # NoFigure
      BY <1>1, <2>1
    <2> QED
      BY <1>a, <2>1, <2>2 DEF PricedPoints, Points
  <1>5. ASSUME NEW x \in PricedPoints(answer) PROVE \E p \in 1 .. n : s[p] = x
    <2>1. PICK i \in I : x = answer[i]
      BY <1>a DEF PricedPoints
    <2>2. PICK p \in DOMAIN s : f[p] = i
      BY <1>3, <2>1 DEF Embeds
    <2>3. s[p] = answer[f[p]]
      BY <1>3 DEF Embeds
    <2> QED
      BY <1>2, <2>1, <2>2, <2>3
  <1>6. \A i \in 1 .. n : /\ k[i][1] = -s[i].expiration /\ k[i][2] = 0
                          /\ s[i].expiration \in Int
                          /\ k[i][1] \in Int /\ k[i][2] \in Int
    BY <1>2, <1>4, <1>c DEF Points
  <1>7. r = Ranked(s, k)
    BY <1>a, <1>b, <1>c DEF CurveOf, Priced, RankDesc
  <1>8. /\ r \in Seq(Points) /\ Len(r) = n /\ DOMAIN r = 1 .. n
        /\ \E e : /\ Embeds(e, r, s, 1 .. n)
                  /\ \A p, q \in 1 .. n : p < q => ~ Above(k[e[q]], k[e[p]])
    <2>1. \A i \in DOMAIN s : k[i][1] \in Int /\ k[i][2] \in Int
      BY <1>2, <1>6
    <2>2. /\ Ranked(s, k) \in Seq(Points) /\ Len(Ranked(s, k)) = Len(s)
          /\ DOMAIN Ranked(s, k) = DOMAIN s
          /\ \E e : /\ Embeds(e, Ranked(s, k), s, DOMAIN s)
                    /\ \A p, q \in DOMAIN s : p < q => ~ Above(k[e[q]], k[e[p]])
      BY ONLY <1>2, <2>1, RankedInOrder
    <2> QED
      BY <1>2, <1>7, <1>d, <2>2
  <1>9. PICK e : /\ Embeds(e, r, s, 1 .. n)
                 /\ \A p, q \in 1 .. n : p < q => ~ Above(k[e[q]], k[e[p]])
    BY <1>8
  <1>10. /\ \A p \in 1 .. n : e[p] \in 1 .. n /\ r[p] = s[e[p]]
         /\ \A i \in 1 .. n : \E p \in 1 .. n : e[p] = i
    BY <1>8, <1>9 DEF Embeds
  <1>11. \A p, q \in 1 .. n : p < q => r[p].expiration <= r[q].expiration
    <2> SUFFICES ASSUME NEW p \in 1 .. n, NEW q \in 1 .. n, p < q
                 PROVE  r[p].expiration <= r[q].expiration
      OBVIOUS
    <2>1. PICK i, j : i = e[p] /\ j = e[q]
      OBVIOUS
    <2>2. i \in 1 .. n /\ j \in 1 .. n /\ r[p] = s[i] /\ r[q] = s[j]
      BY <1>10, <2>1
    <2>3. ~ Above(k[j], k[i])
      BY <1>9, <2>1
    <2>4. ~ (-s[j].expiration > -s[i].expiration)
      BY <1>6, <2>2, <2>3 DEF Above
    <2> QED
      BY <1>6, <2>2, <2>4
  <1>12. \A p \in 1 .. n : r[p].expiration \in Int /\ r[p] \in PricedPoints(answer) /\ r[p].price \in Prices
    BY <1>4, <1>6, <1>10
  <1>13. n >= 2 /\ 1 \in 1 .. n /\ n \in 1 .. n /\ Len(r) = n
    BY <1>2, <1>8
  <1>14. \A p \in 1 .. n : r[1].expiration <= r[p].expiration /\ r[p].expiration <= r[n].expiration
    <2> SUFFICES ASSUME NEW p \in 1 .. n
                 PROVE  r[1].expiration <= r[p].expiration /\ r[p].expiration <= r[n].expiration
      OBVIOUS
    <2>1. (p = 1 \/ 1 < p) /\ (p = n \/ p < n)
      BY <1>2
    <2> QED
      BY <1>11, <1>12, <1>13, <2>1
  <1>15. ASSUME NEW x \in PricedPoints(answer) PROVE \E p \in 1 .. n : r[p] = x
    <2>1. PICK i \in 1 .. n : s[i] = x
      BY <1>5
    <2>2. PICK p \in 1 .. n : e[p] = i
      BY <1>10
    <2> QED
      BY <1>10, <2>1, <2>2
  <1> QED
    BY SMTT(30), <1>12, <1>13, <1>14, <1>15

\* A reading says what its own ends are.
Consistent(r) ==
    r.structure = IF r.back > r.front THEN "contango"
                  ELSE IF r.back < r.front THEN "backwardation" ELSE "flat"

IsReading(r) == r \in [structure : Structures, front : Prices, back : Prices] /\ Consistent(r)

CurveInv ==
    /\ CurveTypeOK /\ CurveIsReadRight
    /\ curve \in {"read", "compared"} => IsReading(now)
    /\ curve = "compared" => IsReading(prior)

\* The curve of an answer has a length.
LEMMA CurveLength ==
    ASSUME NEW answer \in Chains
    PROVE  Len(CurveOf(answer)) \in Nat
  <1>1. answer \in Seq(Points)
    BY ChainsAssumption
  <1>2. PICK I : I = {j \in DOMAIN answer : answer[j].price # NoFigure}
    OBVIOUS
  <1>3. Priced(answer) = Picked(answer, I) /\ I \in SUBSET (DOMAIN answer)
    BY <1>2 DEF Priced
  <1>4. Priced(answer) \in Seq(Points)
    BY ONLY <1>1, <1>3, PickedInOrder
  <1>5. PICK s : s = Priced(answer)
    OBVIOUS
  <1>6. PICK k : k = [i \in DOMAIN s |-> <<-s[i].expiration, 0>>]
    OBVIOUS
  <1>7. \A i \in DOMAIN s : k[i][1] \in Int /\ k[i][2] \in Int
    <2> SUFFICES ASSUME NEW i \in DOMAIN s PROVE k[i][1] \in Int /\ k[i][2] \in Int
      OBVIOUS
    <2>1. s[i] \in Points
      BY ONLY <1>4, <1>5, i \in DOMAIN s, ElementOfSeq
    <2> QED
      BY <1>6, <2>1 DEF Points
  <1>8. CurveOf(answer) = Ranked(s, k)
    BY <1>5, <1>6 DEF CurveOf, RankDesc
  <1>9. CurveOf(answer) \in Seq(Points)
    BY ONLY <1>4, <1>5, <1>7, <1>8, RankedInOrder
  <1> QED
    BY <1>9, LenProperties

\* The ends of the answer are those of the reading.
EndsOf(answer, r) ==
    \E near, far \in PricedPoints(answer) :
       /\ \A x \in PricedPoints(answer) : /\ near.expiration <= x.expiration
                                          /\ x.expiration <= far.expiration
       /\ r.front = near.price /\ r.back = far.price

LEMMA CurveRead ==
    ASSUME NEW answer \in Chains, Len(CurveOf(answer)) >= 2,
           NEW r, r = Classified(CurveOf(answer))
    PROVE  IsReading(r) /\ EndsOf(answer, r)
  <1>a. PICK points : points = CurveOf(answer)
    OBVIOUS
  <1>1. Len(points) >= 2 /\ r = Classified(points) /\ answer \in Seq(Points)
    BY <1>a, ChainsAssumption
  <1>2. PICK near, far \in PricedPoints(answer) :
              /\ near.price \in Prices /\ far.price \in Prices
              /\ \A x \in PricedPoints(answer) : /\ near.expiration <= x.expiration
                                                 /\ x.expiration <= far.expiration
              /\ points[1] = near /\ points[Len(points)] = far
    BY ONLY <1>a, <1>1, CurveInOrder
  <1>3. r = [structure |-> IF far.price > near.price THEN "contango"
                           ELSE IF far.price < near.price THEN "backwardation" ELSE "flat",
             front |-> near.price, back |-> far.price]
    BY <1>1, <1>2 DEF Classified
  <1>4. IsReading(r)
    BY <1>2, <1>3 DEF IsReading, Structures, Consistent
  <1>5. r.front = near.price /\ r.back = far.price
    BY <1>3
  <1> QED
    BY <1>2, <1>4, <1>5 DEF EndsOf

\* What is said of two readings follows the back for the front.
LEMMA ReadFollows ==
    ASSUME NEW n, IsReading(n), NEW p, IsReading(p),
           n.front # 0, p.front # 0, n.structure # "flat"
    PROVE  /\ VixRead(n, p) \in Stress <=> Fell(p, n)
           /\ VixRead(n, p) \in Calm <=> Fell(n, p)
  <1>a. PICK nf, nb, pf, pb : nf = n.front /\ nb = n.back /\ pf = p.front /\ pb = p.back
    OBVIOUS
  <1>1. nf \in Nat \ {0} /\ nb \in Nat /\ pf \in Nat \ {0} /\ pb \in Nat
    BY <1>a, ChainsAssumption DEF IsReading
  <1>2. PICK x, z : x = nb * pf /\ z = pb * nf
    OBVIOUS
  <1>3. x \in Int /\ z \in Int
    BY <1>1, <1>2
  <1>4. /\ Fell(p, n) <=> x < z
        /\ Fell(n, p) <=> z < x
    BY <1>1, <1>2, <1>a DEF Fell
  <1>5. PICK y : y = nf * pf
    OBVIOUS
  <1>6. /\ y \in Int
        /\ (nb - nf) * pf = x - y /\ (pb - pf) * nf = z - y
    BY <1>1, <1>2, <1>5
  <1>7. /\ Wider(n, p) <=> x > z
        /\ Wider(p, n) <=> z > x
    BY <1>3, <1>6, <1>a DEF Wider
  <1>8. /\ nb > nf <=> x > y
        /\ nb < nf <=> x < y
        /\ pb > pf <=> z > y
        /\ pb < pf <=> z < y
    <2>1. ASSUME NEW i \in Int, NEW m \in Nat \ {0} PROVE (i > 0 <=> i * m > 0) /\ (i < 0 <=> i * m < 0)
      BY <2>1
    <2>2. /\ nb - nf > 0 <=> x - y > 0
          /\ nb - nf < 0 <=> x - y < 0
          /\ pb - pf > 0 <=> z - y > 0
          /\ pb - pf < 0 <=> z - y < 0
      BY ONLY <1>1, <1>6, <2>1
    <2> QED
      BY ONLY <1>1, <1>3, <1>6, <2>2
  <1>9. /\ n.structure = (IF x > y THEN "contango" ELSE IF x < y THEN "backwardation" ELSE "flat")
        /\ p.structure = (IF z > y THEN "contango" ELSE IF z < y THEN "backwardation" ELSE "flat")
    BY <1>8, <1>a DEF IsReading, Consistent
  <1>10. CASE Flip(n, p)
    <2>1. CASE n.structure = "backwardation"
      <3>1. VixRead(n, p) = "stress spike"
        BY <1>10, <2>1 DEF VixRead
      <3>2. x < z
        BY <1>3, <1>6, <1>9, <1>10, <2>1 DEF Flip
      <3>3. VixRead(n, p) \in Stress /\ VixRead(n, p) \notin Calm
        BY <3>1 DEF Stress, Calm
      <3> QED
        BY <1>3, <1>4, <3>2, <3>3
    <2>2. CASE n.structure = "contango"
      <3>1. VixRead(n, p) = "stress resolving"
        BY <1>10, <2>2 DEF VixRead
      <3>2. z < x
        BY <1>3, <1>6, <1>9, <1>10, <2>2 DEF Flip
      <3>3. VixRead(n, p) \in Calm /\ VixRead(n, p) \notin Stress
        BY <3>1 DEF Stress, Calm
      <3> QED
        BY <1>3, <1>4, <3>2, <3>3
    <2> QED
      BY <1>9, <2>1, <2>2
  <1>11. CASE ~ Flip(n, p)
    <2>1. VixRead(n, p) = IF Trend(n, p) \in DOMAIN Says THEN Says[Trend(n, p)] ELSE "stable"
      BY <1>11 DEF VixRead
    <2>2. /\ DOMAIN Says = {"steepening", "flattening", "deepening", "easing"}
          /\ Says["steepening"] = "complacency" /\ Says["flattening"] = "stress building"
          /\ Says["deepening"] = "stress intensifying" /\ Says["easing"] = "stress receding"
      BY DEF Says
    <2>3. Spread(n) /\ Spread(p)
      BY DEF Spread
    <2>6. /\ \A v \in {"stress building", "stress intensifying"} : v \in Stress /\ v \notin Calm
          /\ \A v \in {"complacency", "stress receding"} : v \in Calm /\ v \notin Stress
          /\ "stable" \notin Stress \cup Calm
      BY DEF Stress, Calm
    <2>4. CASE n.structure = "contango"
      <3>1. Trend(n, p) = IF x > z THEN "steepening" ELSE IF z > x THEN "flattening" ELSE "stable"
        BY <1>7, <1>11, <2>3, <2>4 DEF Trend
      <3>2. VixRead(n, p) = IF x > z THEN "complacency" ELSE IF z > x THEN "stress building" ELSE "stable"
        BY <2>1, <2>2, <3>1
      <3>3. /\ x > z => VixRead(n, p) \in Calm /\ VixRead(n, p) \notin Stress
            /\ z > x => VixRead(n, p) \in Stress /\ VixRead(n, p) \notin Calm
            /\ ~ (x > z) /\ ~ (z > x) => VixRead(n, p) \notin Stress \cup Calm
        <4>1. ~ (x > z /\ z > x)
          BY <1>3
        <4>2. CASE x > z
          <5>1. VixRead(n, p) = "complacency"
            BY <3>2, <4>2
          <5> QED
            BY <2>6, <4>1, <4>2, <5>1
        <4>3. CASE z > x
          <5>1. VixRead(n, p) = "stress building"
            BY <3>2, <4>1, <4>3
          <5> QED
            BY <2>6, <4>1, <4>3, <5>1
        <4>4. CASE ~ (x > z) /\ ~ (z > x)
          BY <2>6, <3>2, <4>4
        <4> QED
          BY <4>2, <4>3, <4>4
      <3> QED
        BY <1>3, <1>4, <3>3
    <2>5. CASE n.structure = "backwardation"
      <3>1. Trend(n, p) = IF x > z THEN "easing" ELSE IF z > x THEN "deepening" ELSE "stable"
        BY <1>7, <1>11, <2>3, <2>5 DEF Trend
      <3>2. VixRead(n, p) = IF x > z THEN "stress receding" ELSE IF z > x THEN "stress intensifying" ELSE "stable"
        BY <2>1, <2>2, <3>1
      <3>3. /\ x > z => VixRead(n, p) \in Calm /\ VixRead(n, p) \notin Stress
            /\ z > x => VixRead(n, p) \in Stress /\ VixRead(n, p) \notin Calm
            /\ ~ (x > z) /\ ~ (z > x) => VixRead(n, p) \notin Stress \cup Calm
        <4>1. ~ (x > z /\ z > x)
          BY <1>3
        <4>2. CASE x > z
          <5>1. VixRead(n, p) = "stress receding"
            BY <3>2, <4>2
          <5> QED
            BY <2>6, <4>1, <4>2, <5>1
        <4>3. CASE z > x
          <5>1. VixRead(n, p) = "stress intensifying"
            BY <3>2, <4>1, <4>3
          <5> QED
            BY <2>6, <4>1, <4>3, <5>1
        <4>4. CASE ~ (x > z) /\ ~ (z > x)
          BY <2>6, <3>2, <4>4
        <4> QED
          BY <4>2, <4>3, <4>4
      <3> QED
        BY <1>3, <1>4, <3>3
    <2> QED
      BY <1>9, <2>4, <2>5
  <1> QED
    BY <1>10, <1>11

LEMMA CurveStepInv == CurveInv /\ [CurveNext]_curveVars => CurveInv'
  <1> SUFFICES ASSUME CurveInv, [CurveNext]_curveVars PROVE CurveInv'
    OBVIOUS
  <1> USE DEF CurveInv
  <1>1. CASE AskSignal
    BY <1>1 DEF AskSignal, CurveTypeOK, CurveIsReadRight, EndsAreNearestAndFarthest, ReadFollowsTheCurve
  <1>2. ASSUME curve' = "failed", chain' \in Chains \cup {<<>>}, now' \in Reading, prior' \in Reading
        PROVE  CurveInv'
    BY <1>2 DEF CurveTypeOK, CurveIsReadRight, EndsAreNearestAndFarthest, ReadFollowsTheCurve
  <1>3. CASE ReadNow
    <2>1. curve = "asked" /\ prior' = prior /\ prior \in Reading /\ chain' \in Chains
      BY <1>3 DEF ReadNow, ReadCurve, CurveTypeOK
    <2>2. CASE Len(CurveOf(chain')) < 2
      <3>1. curve' = "failed" /\ now' \in Reading
        BY <1>3, <2>2 DEF ReadNow, ReadCurve, Reading
      <3> QED
        BY <1>2, <2>1, <3>1
    <2>3. CASE ~ (Len(CurveOf(chain')) < 2)
      <3>1. curve' = "read" /\ now' = Classified(CurveOf(chain'))
        BY <1>3, <2>3 DEF ReadNow, ReadCurve
      <3>2. IsReading(now') /\ EndsOf(chain', now')
        BY <2>1, <2>3, <3>1, CurveLength, CurveRead
      <3>3. EndsAreNearestAndFarthest'
        BY <3>1, <3>2 DEF EndsAreNearestAndFarthest, EndsOf, PricedPoints
      <3> QED
        BY <2>1, <3>1, <3>2, <3>3
        DEF CurveTypeOK, Reading, CurveIsReadRight, ReadFollowsTheCurve, IsReading, Consistent
    <2> QED
      BY <2>2, <2>3
  <1>4. CASE ReadPrior
    <2>1. curve = "read" /\ now' = now /\ now \in Reading /\ chain' \in Chains /\ IsReading(now)
      BY <1>4 DEF ReadPrior, ReadCurve, CurveTypeOK
    <2>2. CASE Len(CurveOf(chain')) < 2
      <3>1. curve' = "failed" /\ prior' \in Reading
        BY <1>4, <2>2 DEF ReadPrior, ReadCurve, Reading
      <3> QED
        BY <1>2, <2>1, <3>1
    <2>3. CASE ~ (Len(CurveOf(chain')) < 2)
      <3>1. curve' = "compared" /\ prior' = Classified(CurveOf(chain'))
        BY <1>4, <2>3 DEF ReadPrior, ReadCurve
      <3>2. IsReading(prior') /\ EndsOf(chain', prior')
        BY <2>1, <2>3, <3>1, CurveLength, CurveRead
      <3>3. EndsAreNearestAndFarthest'
        BY <3>1, <3>2 DEF EndsAreNearestAndFarthest, EndsOf, PricedPoints
      <3>4. ReadFollowsTheCurve'
        BY <2>1, <3>1, <3>2, ReadFollows DEF ReadFollowsTheCurve
      <3>5. IsReading(now)' /\ IsReading(prior)'
        BY <2>1, <3>2 DEF IsReading, Consistent
      <3> QED
        BY <2>1, <3>1, <3>2, <3>3, <3>4, <3>5 DEF CurveTypeOK, Reading, CurveIsReadRight, IsReading
    <2> QED
      BY <2>2, <2>3
  <1>5. CASE CurveRaises
    BY <1>2, <1>5 DEF CurveRaises, CurveTypeOK
  <1>6. CASE SendSignal
    BY <1>6 DEF SendSignal, Reading, CurveTypeOK, CurveIsReadRight, EndsAreNearestAndFarthest, ReadFollowsTheCurve
  <1>7. CASE UNCHANGED curveVars
    BY <1>7 DEF curveVars, CurveTypeOK, CurveIsReadRight, EndsAreNearestAndFarthest, ReadFollowsTheCurve,
                IsReading, Consistent
  <1> QED
    BY <1>1, <1>3, <1>4, <1>5, <1>6, <1>7 DEF CurveNext

LEMMA AlwaysCurveInv == PagesSpec => []CurveInv
<1>1. PagesInit => CurveInv
  BY DEF PagesInit, CurveInit, Reading, CurveInv, CurveTypeOK, CurveIsReadRight,
         EndsAreNearestAndFarthest, ReadFollowsTheCurve
<1>2. CurveInv /\ [PagesNext]_pageVars => CurveInv'
  <2>1. [PagesNext]_pageVars => [CurveNext]_curveVars
    BY DEF PagesNext, pageVars
  <2> QED
    BY <2>1, CurveStepInv
<1> QED
  BY <1>1, <1>2, PTL DEF PagesSpec

\* term_structure_signal, for any answers of the provider: a reading is that of the
\* nearest and of the farthest expiration with a price, and what is said of the VIX
\* follows its back for its front.
THEOREM CurvesAreReadRight == PagesSpec => []CurveIsReadRight
  BY AlwaysCurveInv, PTL DEF CurveInv

-----------------------------------------------------------------------------
(* The hit list.                                                           *)

\* What is first met at different indices differs.
LEMMA FirstsApart ==
    ASSUME NEW T, NEW s \in Seq(T)
    PROVE  Firsts(s) \in SUBSET (DOMAIN s) /\ \A i, j \in Firsts(s) : s[i] = s[j] => i = j
  <1>1. PICK I : I = Firsts(s)
    OBVIOUS
  <1>2. /\ I \in SUBSET (DOMAIN s)
        /\ \A i \in I : \A j \in 1 .. i - 1 : s[j] # s[i]
    BY <1>1 DEF Firsts
  <1>3. DOMAIN s = 1 .. Len(s) /\ Len(s) \in Nat
    BY LenProperties
  <1>4. \A i, j \in I : s[i] = s[j] => i = j
    <2> SUFFICES ASSUME NEW i \in I, NEW j \in I, s[i] = s[j], i # j PROVE FALSE
      OBVIOUS
    <2>1. i \in 1 .. Len(s) /\ j \in 1 .. Len(s)
      BY <1>2, <1>3
    <2>2. i \in 1 .. j - 1 \/ j \in 1 .. i - 1
      BY <1>3, <2>1
    <2> QED
      BY <1>2, <2>2
  <1> QED
    BY <1>1, <1>2, <1>4

\* A list of the tickers in P, in ascending order of m.
Sorted(asc, P, m) ==
    /\ asc \in Seq(P)
    /\ \A p, q \in DOMAIN asc : asc[p] = asc[q] => p = q
    /\ \A t \in P : \E p \in DOMAIN asc : asc[p] = t
    /\ \A p, q \in DOMAIN asc : p < q => m[asc[p]] <= m[asc[q]]

LEMMA AscendingSorted ==
    ASSUME NEW P, NEW ts \in Seq(P), NEW m, \A t \in P : m[t] \in Int,
           \A i, j \in DOMAIN ts : ts[i] = ts[j] => i = j,
           \A t \in P : \E i \in DOMAIN ts : ts[i] = t
    PROVE  Sorted(Ascending(ts, m), P, m)
  <1>a. PICK k : k = [i \in DOMAIN ts |-> <<-m[ts[i]], 0>>]
    OBVIOUS
  <1>b. PICK r : r = Ranked(ts, k)
    OBVIOUS
  <1>c. PICK I : I = DOMAIN ts
    OBVIOUS
  <1>1. \A i \in I : ts[i] \in P /\ m[ts[i]] \in Int
    BY <1>c, LenProperties, ElementOfSeq
  <1>2. \A i \in I : k[i][1] = -m[ts[i]] /\ k[i][2] = 0
    BY <1>a, <1>c
  <1>3. \A i \in DOMAIN ts : k[i][1] \in Int /\ k[i][2] \in Int
    BY <1>1, <1>2, <1>c
  <1>4. /\ r \in Seq(P) /\ DOMAIN r = DOMAIN ts
        /\ \E e : /\ Embeds(e, r, ts, DOMAIN ts)
                  /\ \A p, q \in DOMAIN ts : p < q => ~ Above(k[e[q]], k[e[p]])
    BY ONLY <1>3, <1>b, RankedInOrder, ts \in Seq(P)
  <1>5. PICK e : /\ Embeds(e, r, ts, DOMAIN ts)
                 /\ \A p, q \in DOMAIN ts : p < q => ~ Above(k[e[q]], k[e[p]])
    BY <1>4
  <1>6. /\ \A p \in I : e[p] \in I /\ r[p] = ts[e[p]]
        /\ \A p, q \in I : e[p] = e[q] => p = q
        /\ \A i \in I : \E p \in I : e[p] = i
    BY ONLY <1>4, <1>5, <1>c DEF Embeds
  <1>7. \A p, q \in I : p < q => m[r[p]] <= m[r[q]]
    <2> SUFFICES ASSUME NEW p \in I, NEW q \in I, p < q PROVE m[r[p]] <= m[r[q]]
      OBVIOUS
    <2>1. PICK i, j : i = e[p] /\ j = e[q]
      OBVIOUS
    <2>2. i \in I /\ j \in I /\ r[p] = ts[i] /\ r[q] = ts[j]
      BY ONLY <1>6, <2>1, p \in I, q \in I
    <2>3. ~ Above(k[j], k[i])
      BY ONLY <1>5, <1>c, <2>1, p \in I, q \in I, p < q
    <2>4. PICK a, b : a = m[ts[i]] /\ b = m[ts[j]]
      OBVIOUS
    <2>5. a \in Int /\ b \in Int /\ k[i][1] = -a /\ k[j][1] = -b /\ k[i][2] = 0 /\ k[j][2] = 0
      BY ONLY <1>1, <1>2, <2>2, <2>4
    <2>6. a <= b
      BY ONLY <2>3, <2>5 DEF Above
    <2> QED
      BY ONLY <2>2, <2>4, <2>6
  <1>8. \A p, q \in I : r[p] = r[q] => p = q
    <2> SUFFICES ASSUME NEW p \in I, NEW q \in I, r[p] = r[q] PROVE p = q
      OBVIOUS
    <2>1. e[p] \in DOMAIN ts /\ e[q] \in DOMAIN ts /\ ts[e[p]] = ts[e[q]]
      BY ONLY <1>6, <1>c, p \in I, q \in I, r[p] = r[q]
    <2>2. e[p] = e[q]
      BY <2>1
    <2> QED
      BY ONLY <1>6, <2>2, p \in I, q \in I
  <1>9. \A t \in P : \E p \in I : r[p] = t
    <2> SUFFICES ASSUME NEW t \in P PROVE \E p \in I : r[p] = t
      OBVIOUS
    <2>1. PICK i \in DOMAIN ts : ts[i] = t
      OBVIOUS
    <2>2. PICK p \in I : e[p] = i
      BY ONLY <1>6, <1>c, <2>1
    <2> QED
      BY ONLY <1>6, <2>1, <2>2
  <1>10. r = Ascending(ts, m)
    BY <1>a, <1>b DEF Ascending, RankDesc
  <1>11. DOMAIN r = I
    BY <1>4, <1>c
  <1> QED
    BY ONLY <1>4, <1>7, <1>8, <1>9, <1>10, <1>11 DEF Sorted

\* What stands only at some places is no more than those.
LEMMA PlacesBound ==
    ASSUME NEW P, NEW m, NEW asc, Sorted(asc, P, m), NEW U \in SUBSET P,
           NEW a \in Int, NEW b \in Int,
           \A p \in DOMAIN asc : asc[p] \in U => p \in a .. b
    PROVE  Cardinality(U) \in Nat /\ Cardinality(U) <= IF a > b THEN 0 ELSE b - a + 1
  <1>a. PICK J : J = {p \in DOMAIN asc : asc[p] \in U}
    OBVIOUS
  <1>1. J \in SUBSET (a .. b)
    BY <1>a
  <1>2. IsFiniteSet(a .. b) /\ Cardinality(a .. b) = IF a > b THEN 0 ELSE b - a + 1
    BY FS_Interval
  <1>3. IsFiniteSet(J) /\ Cardinality(J) <= Cardinality(a .. b)
    BY ONLY <1>1, <1>2, FS_Subset
  <1>4. \A p, q \in J : asc[p] = asc[q] => p = q
    BY <1>a DEF Sorted
  <1>5. Cardinality({asc[p] : p \in J}) = Cardinality(J)
    BY ONLY <1>3, <1>4, ImageCardinality
  <1>6. {asc[p] : p \in J} = U
    <2>1. \A t \in U : \E p \in J : asc[p] = t
      BY <1>a DEF Sorted
    <2>2. \A p \in J : asc[p] \in U
      BY <1>a
    <2> QED
      BY ONLY <2>1, <2>2
  <1>7. Cardinality(J) \in Nat
    BY ONLY <1>3, FS_CardinalityType
  <1> QED
    BY ONLY <1>2, <1>3, <1>5, <1>6, <1>7

Ups(P, m) == {t \in P : m[t] > 0}
Downs(P, m) == {t \in P : m[t] < 0}

\* The gainers are the last of the ascending order, the losers the first: one of them
\* that has moved the other way means that too few have moved this way.
LEMMA GainersRise ==
    ASSUME NEW P, NEW m, \A t \in P : m[t] \in Int, NEW asc, Sorted(asc, P, m),
           NEW r, r = Reverse(LastOnes(TopN, asc))
    PROVE  /\ r \in Seq(P)
           /\ \A i \in DOMAIN r : m[r[i]] < 0 => Cardinality(Ups(P, m)) < TopN
  <1>a. PICK n, l : n = Len(asc) /\ l = TopN
    OBVIOUS
  <1>b. PICK f : f = IF l < n THEN n - l + 1 ELSE 1
    OBVIOUS
  <1>c. PICK s : s = SubSeq(asc, f, n)
    OBVIOUS
  <1>1. /\ asc \in Seq(P) /\ n \in Nat /\ DOMAIN asc = 1 .. n /\ l \in Nat \ {0}
        /\ \A p, q \in DOMAIN asc : p < q => m[asc[p]] <= m[asc[q]]
    BY <1>a, LenProperties, ScanAssumption DEF Sorted
  <1>2. \A i \in 1 .. n : asc[i] \in P /\ m[asc[i]] \in Int
    BY <1>1, ElementOfSeq
  <1>3. f \in 1 .. n + 1 /\ f \in Int /\ f > n - l
    BY ONLY <1>1, <1>b
  <1>4. /\ s \in Seq(P) /\ Len(s) = n - f + 1
        /\ \A i \in 1 .. n - f + 1 : s[i] = asc[f + i - 1]
    <2>1. \A i \in f .. n : asc[i] \in P
      BY ONLY <1>2, <1>3
    <2>2. n \in Int /\ s = SubSeq(asc, f, n)
      BY <1>1, <1>c
    <2>3. s \in Seq(P) /\ Len(s) = IF f <= n THEN n - f + 1 ELSE 0
      BY ONLY <1>1, <1>3, <2>1, <2>2, SubSeqProperties
    <2>4. \A i \in 1 .. n - f + 1 : s[i] = asc[f + i - 1]
      BY ONLY <1>1, <1>3, <2>1, <2>2, SubSeqProperties
    <2> QED
      BY ONLY <1>1, <1>3, <2>3, <2>4
  <1>5. r = [i \in 1 .. n - f + 1 |-> s[(n - f + 1) - i + 1]]
    BY <1>4, <1>a, <1>b, <1>c DEF Reverse, LastOnes
  <1>6. \A i \in 1 .. n - f + 1 : n - i + 1 \in f .. n /\ n - i + 1 \in 1 .. n /\ r[i] = asc[n - i + 1]
    <2> SUFFICES ASSUME NEW i \in 1 .. n - f + 1
                 PROVE  n - i + 1 \in f .. n /\ n - i + 1 \in 1 .. n /\ r[i] = asc[n - i + 1]
      OBVIOUS
    <2>1. PICK j : j = (n - f + 1) - i + 1
      OBVIOUS
    <2>2. /\ n - i + 1 \in f .. n /\ n - i + 1 \in 1 .. n
          /\ j \in 1 .. n - f + 1 /\ f + j - 1 = n - i + 1
      BY ONLY <1>1, <1>3, <2>1, i \in 1 .. n - f + 1
    <2>3. r[i] = s[j]
      BY <1>5, <2>1
    <2>4. s[j] = asc[f + j - 1]
      BY ONLY <1>4, <2>2
    <2> QED
      BY ONLY <2>2, <2>3, <2>4
  <1>7. n - f + 1 \in Nat /\ DOMAIN r = 1 .. n - f + 1
    BY <1>1, <1>3, <1>5
  <1>8. \A i \in 1 .. n - f + 1 : r[i] \in P
    BY ONLY <1>2, <1>6
  <1>9. r \in Seq(P)
    BY <1>5, <1>7, <1>8, IsASeq
  <1>10. ASSUME NEW i \in DOMAIN r, m[r[i]] < 0
         PROVE  Cardinality(Ups(P, m)) < TopN
    <2>1. PICK p : p = n - i + 1
      OBVIOUS
    <2>2. p \in f .. n /\ p \in 1 .. n /\ r[i] = asc[p]
      BY ONLY <1>6, <1>7, <2>1, i \in DOMAIN r
    <2>3. \A q \in DOMAIN asc : asc[q] \in Ups(P, m) => q \in p + 1 .. n
      <3> SUFFICES ASSUME NEW q \in DOMAIN asc, asc[q] \in Ups(P, m), ~ (q \in p + 1 .. n) PROVE FALSE
        OBVIOUS
      <3>1. m[asc[q]] > 0 /\ q \in 1 .. n /\ m[asc[q]] \in Int /\ m[asc[p]] \in Int
        BY <1>1, <1>2, <2>2 DEF Ups
      <3>2. q < p \/ q = p
        BY <1>1, <2>2, <3>1
      <3>3. m[asc[q]] <= m[asc[p]]
        BY <1>1, <2>2, <3>1, <3>2
      <3> QED
        BY ONLY <1>10, <2>2, <3>1, <3>3
    <2>4. Ups(P, m) \in SUBSET P /\ p + 1 \in Int /\ n \in Int
      BY <1>1, <2>2 DEF Ups
    <2>5. Cardinality(Ups(P, m)) \in Nat /\ Cardinality(Ups(P, m)) <= IF p + 1 > n THEN 0 ELSE n - (p + 1) + 1
      BY ONLY <2>3, <2>4, Sorted(asc, P, m), PlacesBound
    <2>6. (IF p + 1 > n THEN 0 ELSE n - (p + 1) + 1) < l
      BY ONLY <1>1, <1>3, <2>2
    <2> QED
      BY ONLY <1>1, <1>a, <2>2, <2>5, <2>6
  <1> QED
    BY ONLY <1>9, <1>10

LEMMA LosersFall ==
    ASSUME NEW P, NEW m, \A t \in P : m[t] \in Int, NEW asc, Sorted(asc, P, m),
           NEW r, r = UpTo(TopN, asc)
    PROVE  /\ r \in Seq(P)
           /\ \A i \in DOMAIN r : m[r[i]] > 0 => Cardinality(Downs(P, m)) < TopN
  <1>a. PICK n, l : n = Len(asc) /\ l = TopN
    OBVIOUS
  <1>1. /\ asc \in Seq(P) /\ n \in Nat /\ DOMAIN asc = 1 .. n /\ l \in Nat \ {0}
        /\ \A p, q \in DOMAIN asc : p < q => m[asc[p]] <= m[asc[q]]
    BY <1>a, LenProperties, ScanAssumption DEF Sorted
  <1>2. \A i \in 1 .. n : asc[i] \in P /\ m[asc[i]] \in Int
    BY <1>1, ElementOfSeq
  <1>3. l \in Int /\ l >= 1 /\ r = UpTo(l, asc)
    BY <1>1, <1>a
  <1>4. /\ r \in Seq(P) /\ DOMAIN r = 1 .. Len(r) /\ Len(r) \in 0 .. Len(asc) /\ Len(r) <= l
        /\ \A p \in 1 .. Len(r) : r[p] = asc[p]
    BY ONLY <1>1, <1>3, UpToPrefix
  <1>5. ASSUME NEW p \in DOMAIN r, m[r[p]] > 0
         PROVE  Cardinality(Downs(P, m)) < TopN
    <2>2. p \in 1 .. n /\ p <= l /\ r[p] = asc[p]
      BY ONLY <1>1, <1>4, <1>a, p \in DOMAIN r
    <2>3. \A q \in DOMAIN asc : asc[q] \in Downs(P, m) => q \in 1 .. p - 1
      <3> SUFFICES ASSUME NEW q \in DOMAIN asc, asc[q] \in Downs(P, m), ~ (q \in 1 .. p - 1) PROVE FALSE
        OBVIOUS
      <3>1. m[asc[q]] < 0 /\ q \in 1 .. n /\ m[asc[q]] \in Int /\ m[asc[p]] \in Int
        BY <1>1, <1>2, <2>2 DEF Downs
      <3>2. p < q \/ q = p
        BY <1>1, <2>2, <3>1
      <3>3. m[asc[p]] <= m[asc[q]]
        BY <1>1, <2>2, <3>1, <3>2
      <3> QED
        BY ONLY <1>5, <2>2, <3>1, <3>3
    <2>4. Downs(P, m) \in SUBSET P /\ p - 1 \in Int /\ 1 \in Int
      BY <1>1, <2>2 DEF Downs
    <2>5. Cardinality(Downs(P, m)) \in Nat /\ Cardinality(Downs(P, m)) <= IF 1 > p - 1 THEN 0 ELSE (p - 1) - 1 + 1
      BY ONLY <2>3, <2>4, Sorted(asc, P, m), PlacesBound
    <2>6. (IF 1 > p - 1 THEN 0 ELSE (p - 1) - 1 + 1) < l
      BY ONLY <1>1, <2>2
    <2> QED
      BY ONLY <1>1, <1>a, <2>2, <2>5, <2>6
  <1> QED
    BY ONLY <1>4, <1>5

\* A ticker with a direction, for moves m of the tickers in P.
Tag(P, m) ==
    {c \in P \X {"up", "down"} :
        /\ c[2] = "up" /\ m[c[1]] < 0 => Cardinality(Ups(P, m)) < TopN
        /\ c[2] = "down" /\ m[c[1]] > 0 => Cardinality(Downs(P, m)) < TopN}

Apart(s) == \A p, q \in DOMAIN s : s[p][1] = s[q][1] => p = q

LEMMA TaggedSeq ==
    ASSUME NEW P, NEW C, NEW s \in Seq(P), NEW w, \A i \in DOMAIN s : <<s[i], w[i]>> \in C
    PROVE  [i \in DOMAIN s |-> <<s[i], w[i]>>] \in Seq(C)
  <1>1. Len(s) \in Nat /\ DOMAIN s = 1 .. Len(s)
    BY LenProperties
  <1> QED
    BY <1>1, IsASeq

LEMMA CandidatesTagged ==
    ASSUME NEW P \in SUBSET Names, NEW ts \in Seq(P), NEW m, \A t \in P : m[t] \in Int,
           \A i, j \in DOMAIN ts : ts[i] = ts[j] => i = j,
           \A t \in P : \E i \in DOMAIN ts : ts[i] = t
    PROVE  Candidates(ts, m) \in Seq(Tag(P, m)) /\ Apart(Candidates(ts, m))
  <1>a. PICK asc : asc = Ascending(ts, m)
    OBVIOUS
  <1>b. PICK g, l, a : /\ g = Reverse(LastOnes(TopN, asc)) /\ l = UpTo(TopN, asc)
                       /\ a = UpTo(TopN, RankDesc(ts, LAMBDA t : <<Volume[t], 0>>))
    OBVIOUS
  <1>c. PICK C : C = Tag(P, m)
    OBVIOUS
  <1>1. Sorted(asc, P, m)
    BY <1>a, AscendingSorted
  <1>2. g \in Seq(P) /\ \A i \in DOMAIN g : m[g[i]] < 0 => Cardinality(Ups(P, m)) < TopN
    BY <1>1, <1>b, GainersRise
  <1>3. l \in Seq(P) /\ \A i \in DOMAIN l : m[l[i]] > 0 => Cardinality(Downs(P, m)) < TopN
    BY <1>1, <1>b, LosersFall
  <1>4. a \in Seq(P)
    <2>1. PICK k : k = [i \in DOMAIN ts |-> <<Volume[ts[i]], 0>>]
      OBVIOUS
    <2>2. PICK r : r = Ranked(ts, k)
      OBVIOUS
    <2>3. \A i \in DOMAIN ts : k[i][1] \in Int /\ k[i][2] \in Int
      <3>1. \A i \in DOMAIN ts : ts[i] \in Names
        BY LenProperties, ElementOfSeq
      <3> QED
        BY <2>1, <3>1, ScanAssumption
    <2>4. r \in Seq(P)
      BY ONLY <2>2, <2>3, ts \in Seq(P), RankedInOrder
    <2>5. a = UpTo(TopN, r)
      BY <1>b, <2>1, <2>2 DEF RankDesc
    <2>6. TopN \in Int
      BY ScanAssumption
    <2> QED
      BY ONLY <2>4, <2>5, <2>6, UpToPrefix
  <1>5. PICK G, L, A : /\ G = [i \in DOMAIN g |-> <<g[i], "up">>]
                       /\ L = [i \in DOMAIN l |-> <<l[i], "down">>]
                       /\ A = [i \in DOMAIN a |-> <<a[i], IF m[a[i]] >= 0 THEN "up" ELSE "down">>]
    OBVIOUS
  <1>6. /\ \A i \in DOMAIN g : g[i] \in P
        /\ \A i \in DOMAIN l : l[i] \in P
        /\ \A i \in DOMAIN a : a[i] \in P
    BY ONLY <1>2, <1>3, <1>4, LenProperties, ElementOfSeq
  <1>7. G \in Seq(C)
    <2>1. PICK w : w = [i \in DOMAIN g |-> "up"]
      OBVIOUS
    <2>2. \A i \in DOMAIN g : <<g[i], "up">> \in C
      BY <1>2, <1>6, <1>c DEF Tag
    <2>3. G = [i \in DOMAIN g |-> <<g[i], w[i]>>] /\ \A i \in DOMAIN g : <<g[i], w[i]>> \in C
      BY <1>5, <2>1, <2>2
    <2> QED
      BY ONLY <1>2, <2>3, TaggedSeq
  <1>8. L \in Seq(C)
    <2>1. PICK w : w = [i \in DOMAIN l |-> "down"]
      OBVIOUS
    <2>2. \A i \in DOMAIN l : <<l[i], "down">> \in C
      BY <1>3, <1>6, <1>c DEF Tag
    <2>3. L = [i \in DOMAIN l |-> <<l[i], w[i]>>] /\ \A i \in DOMAIN l : <<l[i], w[i]>> \in C
      BY <1>5, <2>1, <2>2
    <2> QED
      BY ONLY <1>3, <2>3, TaggedSeq
  <1>9. A \in Seq(C)
    <2>1. PICK w : w = [i \in DOMAIN a |-> IF m[a[i]] >= 0 THEN "up" ELSE "down"]
      OBVIOUS
    <2>2. \A i \in DOMAIN a : <<a[i], w[i]>> \in C
      BY <1>6, <1>c, <2>1 DEF Tag
    <2>3. A = [i \in DOMAIN a |-> <<a[i], w[i]>>]
      BY <1>5, <2>1
    <2> QED
      BY ONLY <1>4, <2>2, <2>3, TaggedSeq
  <1>10. PICK tagged : tagged = G \o L \o A
    OBVIOUS
  <1>11. tagged \in Seq(C)
    BY ONLY <1>7, <1>8, <1>9, <1>10, ConcatProperties
  <1>12. PICK k : k = [i \in DOMAIN tagged |-> tagged[i][1]]
    OBVIOUS
  <1>13. k \in Seq(P) /\ DOMAIN k = DOMAIN tagged /\ \A i \in DOMAIN tagged : k[i] = tagged[i][1]
    <2>1. Len(tagged) \in Nat /\ DOMAIN tagged = 1 .. Len(tagged)
      BY <1>11, LenProperties
    <2>2. \A i \in DOMAIN tagged : tagged[i] \in C
      BY <1>11, <2>1, ElementOfSeq
    <2>3. \A i \in DOMAIN tagged : tagged[i][1] \in P
      BY <1>c, <2>2 DEF Tag
    <2> QED
      BY <1>12, <2>1, <2>3, IsASeq
  <1>14. PICK I : I = Firsts(k)
    OBVIOUS
  <1>15. I \in SUBSET (DOMAIN tagged) /\ \A i, j \in I : k[i] = k[j] => i = j
    BY <1>13, <1>14, FirstsApart
  <1>16. PICK r : r = Picked(tagged, I)
    OBVIOUS
  <1>17. r \in Seq(C) /\ \E e : Embeds(e, r, tagged, I)
    BY ONLY <1>11, <1>15, <1>16, PickedInOrder
  <1>18. PICK e : Embeds(e, r, tagged, I)
    BY <1>17
  <1>19. Apart(r)
    <2> SUFFICES ASSUME NEW p \in DOMAIN r, NEW q \in DOMAIN r, r[p][1] = r[q][1] PROVE p = q
      BY DEF Apart
    <2>1. /\ e[p] \in I /\ e[q] \in I /\ r[p] = tagged[e[p]] /\ r[q] = tagged[e[q]]
          /\ e[p] = e[q] => p = q
      BY ONLY <1>18, p \in DOMAIN r, q \in DOMAIN r DEF Embeds
    <2>2. k[e[p]] = k[e[q]]
      BY ONLY <1>13, <1>15, <2>1, r[p][1] = r[q][1]
    <2> QED
      BY ONLY <1>15, <2>1, <2>2
  <1>20. r = Candidates(ts, m)
    <2>1. PICK M : M = Movers(ts, m)
      OBVIOUS
    <2>2. M.gainers = g /\ M.losers = l /\ M.active = a
      BY <1>a, <1>b, <2>1 DEF Movers
    <2>3. /\ G = [i \in DOMAIN M.gainers |-> <<M.gainers[i], "up">>]
          /\ L = [i \in DOMAIN M.losers |-> <<M.losers[i], "down">>]
          /\ A = [i \in DOMAIN M.active |->
                    <<M.active[i], IF m[M.active[i]] >= 0 THEN "up" ELSE "down">>]
      BY ONLY <1>5, <2>2, Zenon
    <2>4. Candidates(ts, m) =
              Picked(tagged, Firsts([i \in DOMAIN tagged |-> tagged[i][1]]))
      BY ONLY <1>10, <2>1, <2>3, Zenon DEF Candidates
    <2> QED
      BY ONLY <1>12, <1>14, <1>16, <2>4
  <1> QED
    BY <1>17, <1>19, <1>20, <1>c

LEMMA ScannedTagged ==
    ASSUME NEW P \in SUBSET Names, NEW ts \in Seq(P), NEW m, \A t \in P : m[t] \in Int,
           \A i, j \in DOMAIN ts : ts[i] = ts[j] => i = j,
           \A t \in P : \E i \in DOMAIN ts : ts[i] = t
    PROVE  Scanned(ts, m) \in Seq(Tag(P, m)) /\ Apart(Scanned(ts, m))
  <1>a. PICK C, cs : C = Tag(P, m) /\ cs = Candidates(ts, m)
    OBVIOUS
  <1>b. PICK I : I = {i \in DOMAIN cs : Abs(m[cs[i][1]]) >= MinMove}
    OBVIOUS
  <1>c. PICK large : large = Picked(cs, I)
    OBVIOUS
  <1>d. PICK k : k = [i \in DOMAIN large |-> <<Abs(m[large[i][1]]), 0>>]
    OBVIOUS
  <1>e. PICK r : r = Ranked(large, k)
    OBVIOUS
  <1>f. PICK s : s = UpTo(ScanDepth, r)
    OBVIOUS
  <1>1. cs \in Seq(C) /\ Apart(cs)
    BY <1>a, CandidatesTagged
  <1>2. I \in SUBSET (DOMAIN cs)
    BY <1>b
  <1>3. large \in Seq(C) /\ \E e : Embeds(e, large, cs, I)
    BY ONLY <1>1, <1>2, <1>c, PickedInOrder
  <1>4. PICK e : Embeds(e, large, cs, I)
    BY <1>3
  <1>5. Apart(large)
    BY ONLY <1>1, <1>2, <1>4 DEF Apart, Embeds
  <1>6. \A i \in DOMAIN large : k[i][1] \in Int /\ k[i][2] \in Int
    <2>1. \A i \in DOMAIN large : large[i] \in C
      BY ONLY <1>3, LenProperties, ElementOfSeq
    <2>2. \A i \in DOMAIN large : m[large[i][1]] \in Int
      BY <1>a, <2>1 DEF Tag
    <2>3. \A i \in DOMAIN large : Abs(m[large[i][1]]) \in Int
      BY ONLY <2>2 DEF Abs
    <2> QED
      BY <1>d, <2>3
  <1>7. r \in Seq(C) /\ DOMAIN r = DOMAIN large /\ \E f : Embeds(f, r, large, DOMAIN large)
    BY ONLY <1>3, <1>6, <1>e, RankedInOrder
  <1>8. PICK f : Embeds(f, r, large, DOMAIN large)
    BY <1>7
  <1>9. Apart(r)
    BY ONLY <1>5, <1>8 DEF Apart, Embeds
  <1>10. ScanDepth \in Int
    BY ScanAssumption
  <1>11. /\ s \in Seq(C) /\ DOMAIN s = 1 .. Len(s) /\ Len(s) \in 0 .. Len(r)
         /\ \A p \in 1 .. Len(s) : s[p] = r[p]
         /\ DOMAIN r = 1 .. Len(r) /\ Len(r) \in Nat
    BY ONLY <1>7, <1>10, <1>f, UpToPrefix, LenProperties
  <1>12. Apart(s)
    BY ONLY <1>9, <1>11 DEF Apart
  <1>13. s = Scanned(ts, m)
    <2>1. r = RankDesc(large, LAMBDA c : <<Abs(m[c[1]]), 0>>)
      BY ONLY <1>d, <1>e DEF RankDesc
    <2>2. s = UpTo(ScanDepth, RankDesc(large, LAMBDA c : <<Abs(m[c[1]]), 0>>))
      BY ONLY <1>f, <2>1
    <2> QED
      BY ONLY <1>a, <1>b, <1>c, <2>2 DEF Scanned
  <1> QED
    BY <1>11, <1>12, <1>13, <1>a

\* A hit as its candidate is scored.
Scored(P, m) ==
    {h \in Hit :
        /\ Abs(h.score) <= 4
        /\ h.dir = "up" /\ h.move < 0 => Cardinality(Ups(P, m)) < TopN
        /\ h.dir = "down" /\ h.move > 0 => Cardinality(Downs(P, m)) < TopN
        /\ h.confluence => \/ h.move > 0 /\ h.bias = "long"
                           \/ h.move < 0 /\ h.bias = "short"}

LEMMA ScoreScored ==
    ASSUME NEW P \in SUBSET Names, NEW m, \A t \in P : m[t] \in Int,
           NEW x, \A t \in P : x[t] \in -2 .. 2, NEW c \in Tag(P, m)
    PROVE  Score(c, m, x) \in Scored(P, m) /\ Score(c, m, x).ticker = c[1]
  <1>a. PICK t, d, a, b : t = c[1] /\ d = c[2] /\ a = m[c[1]] /\ b = x[c[1]]
    OBVIOUS
  <1>b. PICK points, score, bias, agree :
           /\ points = MovePoints(a) /\ score = points + b
           /\ bias = (IF score >= 2 THEN "long" ELSE IF score <= -2 THEN "short" ELSE "neutral")
           /\ agree = ((points > 0 /\ b > 0) \/ (points < 0 /\ b < 0))
    OBVIOUS
  <1>1. /\ t \in P /\ t \in Names /\ d \in {"up", "down"}
        /\ d = "up" /\ a < 0 => Cardinality(Ups(P, m)) < TopN
        /\ d = "down" /\ a > 0 => Cardinality(Downs(P, m)) < TopN
    BY <1>a DEF Tag
  <1>2. a \in Int /\ b \in -2 .. 2
    BY <1>1, <1>a
  <1>3. /\ points = (IF a > 0 THEN 2 ELSE IF a < 0 THEN -2 ELSE 0)
        /\ score \in Int /\ score = points + b
    BY ONLY <1>2, <1>b DEF MovePoints
  <1>4. Abs(score) <= 4
    BY ONLY <1>2, <1>3 DEF Abs
  <1>5. bias \in {"long", "short", "neutral"} /\ agree \in BOOLEAN
    BY ONLY <1>b
  <1>6. agree => (a > 0 /\ bias = "long") \/ (a < 0 /\ bias = "short")
    <2> SUFFICES ASSUME agree PROVE (a > 0 /\ bias = "long") \/ (a < 0 /\ bias = "short")
      OBVIOUS
    <2>1. (points > 0 /\ b > 0) \/ (points < 0 /\ b < 0)
      BY ONLY <1>b, agree
    <2>2. (a > 0 /\ score >= 2) \/ (a < 0 /\ score <= -2 /\ ~ (score >= 2))
      BY ONLY <1>2, <1>3, <2>1
    <2> QED
      BY ONLY <1>b, <2>2
  <1>7. PICK h : h = [ticker |-> t, dir |-> d, move |-> a, score |-> score, bias |-> bias, confluence |-> agree]
    OBVIOUS
  <1>8. h \in Scored(P, m)
    BY ONLY <1>1, <1>2, <1>3, <1>4, <1>5, <1>6, <1>7 DEF Scored, Hit
  <1>9. Score(c, m, x) = h
    BY ONLY <1>a, <1>b, <1>7 DEF Score
  <1> QED
    BY ONLY <1>7, <1>8, <1>9, <1>a

\* What the ranking promises of two hits, in terms of their keys.
LEMMA HitKeys ==
    ASSUME NEW g \in Hit, NEW h \in Hit, Abs(g.score) <= 4, Abs(h.score) <= 4,
           ~ Above(HitKey(h), HitKey(g))
    PROVE  /\ h.confluence => g.confluence
           /\ g.confluence = h.confluence =>
                 \/ Abs(g.score) > Abs(h.score)
                 \/ Abs(g.score) = Abs(h.score) /\ Abs(g.move) >= Abs(h.move)
  <1>1. PICK a, b, u, v : a = Abs(g.score) /\ b = Abs(h.score) /\ u = Abs(g.move) /\ v = Abs(h.move)
    OBVIOUS
  <1>2. /\ a \in 0 .. 4 /\ b \in 0 .. 4 /\ u \in Int /\ v \in Int
        /\ g.confluence \in BOOLEAN /\ h.confluence \in BOOLEAN
    BY <1>1 DEF Hit, Abs
  <1>3. /\ HitKey(g)[1] = (IF g.confluence THEN 100 ELSE 0) + a /\ HitKey(g)[2] = u
        /\ HitKey(h)[1] = (IF h.confluence THEN 100 ELSE 0) + b /\ HitKey(h)[2] = v
    BY <1>1 DEF HitKey
  <1> QED
    BY ONLY <1>1, <1>2, <1>3, ~ Above(HitKey(h), HitKey(g)) DEF Above

\* The tickers in P, their moves and their points.
Figured(P, ts, m, x) ==
    /\ P \in SUBSET Names /\ ts \in Seq(P)
    /\ \A t \in P : m[t] \in Int /\ x[t] \in -2 .. 2
    /\ \A i, j \in DOMAIN ts : ts[i] = ts[j] => i = j
    /\ \A t \in P : \E i \in DOMAIN ts : ts[i] = t

InOrder(list) ==
    /\ \A p, q \in DOMAIN list : list[p].ticker = list[q].ticker => p = q
    /\ \A p, q \in DOMAIN list : p < q =>
          /\ list[q].confluence => list[p].confluence
          /\ list[p].confluence = list[q].confluence =>
                \/ Abs(list[p].score) > Abs(list[q].score)
                \/ /\ Abs(list[p].score) = Abs(list[q].score)
                   /\ Abs(list[p].move) >= Abs(list[q].move)

LEMMA HitListRanked ==
    ASSUME NEW P, NEW ts, NEW m, NEW x, Figured(P, ts, m, x)
    PROVE  HitList(ts, m, x) \in Seq(Scored(P, m)) /\ InOrder(HitList(ts, m, x))
  <1>0. /\ P \in SUBSET Names /\ ts \in Seq(P)
        /\ \A t \in P : m[t] \in Int
        /\ \A t \in P : x[t] \in -2 .. 2
        /\ \A i, j \in DOMAIN ts : ts[i] = ts[j] => i = j
        /\ \A t \in P : \E i \in DOMAIN ts : ts[i] = t
    BY DEF Figured
  <1>e. PICK list : list = HitList(ts, m, x)
    OBVIOUS
  <1>a. PICK C, H, cs : C = Tag(P, m) /\ H = Scored(P, m) /\ cs = Scanned(ts, m)
    OBVIOUS
  <1>b. PICK s : s = [i \in DOMAIN cs |-> Score(cs[i], m, x)]
    OBVIOUS
  <1>c. PICK k : k = [i \in DOMAIN s |-> HitKey(s[i])]
    OBVIOUS
  <1>d. PICK r : r = Ranked(s, k)
    OBVIOUS
  <1>1. cs \in Seq(C) /\ Apart(cs)
    BY <1>0, <1>a, ScannedTagged
  <1>2. \A i \in DOMAIN cs : cs[i] \in C
    BY ONLY <1>1, LenProperties, ElementOfSeq
  <1>3. \A i \in DOMAIN cs : Score(cs[i], m, x) \in H /\ Score(cs[i], m, x).ticker = cs[i][1]
    BY <1>0, <1>2, <1>a, ScoreScored
  <1>4. s \in Seq(H) /\ DOMAIN s = DOMAIN cs /\ \A i \in DOMAIN s : s[i] \in H /\ s[i].ticker = cs[i][1]
    <2>1. Len(cs) \in Nat /\ DOMAIN cs = 1 .. Len(cs)
      BY <1>1, LenProperties
    <2> QED
      BY ONLY <1>3, <1>b, <2>1, IsASeq
  <1>5. \A h \in H : h \in Hit /\ Abs(h.score) <= 4
    BY <1>a DEF Scored
  <1>6. \A i \in DOMAIN s : k[i] = HitKey(s[i]) /\ k[i][1] \in Int /\ k[i][2] \in Int
    <2>1. \A h \in Hit : HitKey(h)[1] \in Int /\ HitKey(h)[2] \in Int
      BY DEF HitKey, Abs, Hit
    <2> QED
      BY ONLY <1>4, <1>5, <1>c, <2>1
  <1>7. /\ r \in Seq(H) /\ DOMAIN r = DOMAIN s
        /\ \E e : /\ Embeds(e, r, s, DOMAIN s)
                  /\ \A p, q \in DOMAIN s : p < q => ~ Above(k[e[q]], k[e[p]])
    BY ONLY <1>4, <1>6, <1>d, RankedInOrder
  <1>8. PICK e : /\ Embeds(e, r, s, DOMAIN s)
                 /\ \A p, q \in DOMAIN s : p < q => ~ Above(k[e[q]], k[e[p]])
    BY <1>7
  <1>9. /\ \A p \in DOMAIN r : e[p] \in DOMAIN s /\ r[p] = s[e[p]]
        /\ \A p, q \in DOMAIN r : e[p] = e[q] => p = q
    BY ONLY <1>8 DEF Embeds
  <1>10. \A p, q \in DOMAIN r : r[p].ticker = r[q].ticker => p = q
    BY ONLY <1>1, <1>4, <1>9 DEF Apart
  <1>11. \A p, q \in DOMAIN r : p < q => ~ Above(HitKey(r[q]), HitKey(r[p]))
    <2> SUFFICES ASSUME NEW p \in DOMAIN r, NEW q \in DOMAIN r, p < q
                 PROVE  ~ Above(HitKey(r[q]), HitKey(r[p]))
      OBVIOUS
    <2>1. PICK i, j : i = e[p] /\ j = e[q]
      OBVIOUS
    <2>2. i \in DOMAIN s /\ j \in DOMAIN s /\ r[p] = s[i] /\ r[q] = s[j]
      BY ONLY <1>9, <2>1, p \in DOMAIN r, q \in DOMAIN r
    <2>3. ~ Above(k[j], k[i])
      BY ONLY <1>7, <1>8, <2>1, p \in DOMAIN r, q \in DOMAIN r, p < q
    <2>4. k[i] = HitKey(r[p]) /\ k[j] = HitKey(r[q])
      BY ONLY <1>6, <2>2
    <2> QED
      BY ONLY <2>3, <2>4
  <1>12. list = UpTo(HitLimit, r)
    <2>1. r = RankDesc(s, HitKey)
      BY ONLY <1>c, <1>d DEF RankDesc
    <2> QED
      BY <1>a, <1>b, <1>e, <2>1 DEF HitList
  <1>13. HitLimit \in Int
    BY ScanAssumption
  <1>14. /\ list \in Seq(H) /\ DOMAIN list = 1 .. Len(list) /\ Len(list) \in 0 .. Len(r)
         /\ \A p \in 1 .. Len(list) : list[p] = r[p]
         /\ DOMAIN r = 1 .. Len(r) /\ Len(r) \in Nat
    BY ONLY <1>7, <1>12, <1>13, UpToPrefix, LenProperties
  <1>15. \A p \in DOMAIN list : p \in DOMAIN r /\ list[p] = r[p] /\ list[p] \in H
    BY ONLY <1>14, ElementOfSeq
  <1>16. \A p, q \in DOMAIN list : list[p].ticker = list[q].ticker => p = q
    BY ONLY <1>10, <1>15
  <1>17. ASSUME NEW p \in DOMAIN list, NEW q \in DOMAIN list, p < q
         PROVE  /\ list[q].confluence => list[p].confluence
                /\ list[p].confluence = list[q].confluence =>
                      \/ Abs(list[p].score) > Abs(list[q].score)
                      \/ /\ Abs(list[p].score) = Abs(list[q].score)
                         /\ Abs(list[p].move) >= Abs(list[q].move)
    <2>1. PICK g, h : g = list[p] /\ h = list[q]
      OBVIOUS
    <2>2. g \in Hit /\ h \in Hit /\ Abs(g.score) <= 4 /\ Abs(h.score) <= 4
      BY ONLY <1>5, <1>15, <2>1, p \in DOMAIN list, q \in DOMAIN list
    <2>3. ~ Above(HitKey(h), HitKey(g))
      BY ONLY <1>11, <1>15, <1>17, <2>1
    <2>4. /\ h.confluence => g.confluence
          /\ g.confluence = h.confluence =>
                \/ Abs(g.score) > Abs(h.score)
                \/ Abs(g.score) = Abs(h.score) /\ Abs(g.move) >= Abs(h.move)
      BY ONLY <2>2, <2>3, HitKeys
    <2> QED
      BY ONLY <2>1, <2>4
  <1> QED
    BY ONLY <1>14, <1>16, <1>17, <1>a, <1>e DEF InOrder

HitsInv == hits \in Seq(Hit) /\ HitsRankedByAgreement

LEMMA ListedHitsAre == ListHits => HitsInv'
  <1> SUFFICES ASSUME ListHits PROVE HitsInv'
    OBVIOUS
  <1>1. PICK P \in SUBSET Names :
           /\ move' \in [P -> Moves] /\ extra' \in [P -> Extras]
           /\ hits' = HitList(Among(Tickers, P), move', extra')
    BY DEF ListHits
  <1>2. PICK ts, m, x : ts = Among(Tickers, P) /\ m = move' /\ x = extra'
    OBVIOUS
  <1>3. Tickers \in Seq(Names) /\ \A i, j \in DOMAIN Tickers : Tickers[i] = Tickers[j] => i = j
    BY ScanAssumption
  <1>4. \A p \in DOMAIN ts : ts[p] \in P
    BY ONLY <1>2, <1>3, AmongElements
  <1>5. \A i \in DOMAIN Tickers : Tickers[i] \in P => \E p \in DOMAIN ts : ts[p] = Tickers[i]
    BY ONLY <1>2, <1>3, AmongElements
  <1>6. \A p, q \in DOMAIN ts : ts[p] = ts[q] => p = q
    BY ONLY <1>2, <1>3, AmongElements
  <1>7. ts \in Seq(P)
    <2>1. ts \in Seq(Names)
      BY ONLY <1>2, <1>3, AmongElements
    <2>2. Len(ts) \in Nat /\ DOMAIN ts = 1 .. Len(ts) /\ ts = [i \in 1 .. Len(ts) |-> ts[i]]
      BY <2>1, LenProperties
    <2> QED
      BY <1>4, <2>2, IsASeq
  <1>8. \A t \in P : \E p \in DOMAIN ts : ts[p] = t
    BY <1>5 DEF Names
  <1>9. /\ \A t \in P : m[t] \in Int
        /\ \A t \in P : x[t] \in -2 .. 2
        /\ DOMAIN m = P
    BY <1>1, <1>2, ScanAssumption
  <1>10. PICK h : h = hits'
    OBVIOUS
  <1>11. h \in Seq(Scored(P, m)) /\ InOrder(h)
    <2>1. h = HitList(ts, m, x)
      BY <1>1, <1>2, <1>10
    <2>2. Figured(P, ts, m, x)
      BY ONLY <1>6, <1>7, <1>8, <1>9, P \in SUBSET Names DEF Figured
    <2> QED
      BY ONLY <2>1, <2>2, HitListRanked
  <1>12. \A p \in DOMAIN h : h[p] \in Scored(P, m)
    BY ONLY <1>11, LenProperties, ElementOfSeq
  <1>13. h \in Seq(Hit)
    <2>1. Scored(P, m) \subseteq Hit
      BY DEF Scored
    <2> QED
      BY ONLY <1>11, <2>1, WiderSeq
  <1>14. MovedUp' = Ups(P, m) /\ MovedDown' = Downs(P, m)
    BY <1>2, <1>9 DEF MovedUp, MovedDown, Ups, Downs
  <1>15. TagsFollowMoves'
    BY <1>10, <1>12, <1>14 DEF TagsFollowMoves, Scored
  <1>16. \A p \in DOMAIN h : h[p].confluence =>
              \/ h[p].move > 0 /\ h[p].bias = "long"
              \/ h[p].move < 0 /\ h[p].bias = "short"
    BY <1>12 DEF Scored
  <1>17. HitsRankedByAgreement'
    BY <1>10, <1>11, <1>15, <1>16 DEF HitsRankedByAgreement, InOrder
  <1> QED
    BY <1>10, <1>13, <1>17 DEF HitsInv

LEMMA HitsStepInv == HitsInv /\ [ScanNext]_scanVars => HitsInv'
  <1> SUFFICES ASSUME HitsInv, [ScanNext]_scanVars PROVE HitsInv'
    OBVIOUS
  <1>1. CASE ListHits
    BY <1>1, ListedHitsAre
  <1>2. CASE SendHits
    BY <1>2, EmptySeq DEF SendHits, HitsInv, HitsRankedByAgreement
  <1>3. CASE AskHits \/ WalkDay \/ WalkBreaks \/ TooFew \/ Compare
    <2>1. hits' = hits /\ scan' # "listed"
      BY <1>3 DEF AskHits, WalkDay, WalkBreaks, Walking, TooFew, Compare
    <2> QED
      BY <2>1 DEF HitsInv, HitsRankedByAgreement
  <1>4. CASE UNCHANGED scanVars
    <2>1. hits' = hits /\ move' = move /\ scan' = scan
      BY <1>4 DEF scanVars
    <2>2. MovedUp' = MovedUp /\ MovedDown' = MovedDown
      BY <2>1 DEF MovedUp, MovedDown
    <2>3. TagsFollowMoves => TagsFollowMoves'
      BY <2>1, <2>2 DEF TagsFollowMoves
    <2> QED
      BY <2>1, <2>3 DEF HitsInv, HitsRankedByAgreement
  <1> QED
    BY <1>1, <1>2, <1>3, <1>4 DEF ScanNext

LEMMA AlwaysHitsInv == PagesSpec => []HitsInv
<1>1. PagesInit => HitsInv
  BY EmptySeq DEF PagesInit, ScanInit, HitsInv, HitsRankedByAgreement
<1>2. HitsInv /\ [PagesNext]_pageVars => HitsInv'
  <2>1. [PagesNext]_pageVars => [ScanNext]_scanVars
    BY DEF PagesNext, pageVars
  <2> QED
    BY <2>1, HitsStepInv
<1> QED
  BY <1>1, <1>2, PTL DEF PagesSpec

\* hitlist_candidates, score_candidate and rank_hitlist, for any tickers, moves, points
\* and depths of their lists.
THEOREM HitsAreRanked == PagesSpec => []HitsRankedByAgreement
  BY AlwaysHitsInv, PTL DEF HitsInv

-----------------------------------------------------------------------------
(* The feed.                                                               *)

\* What _fetch returns for a target.
FetchedFor(x, r) ==
    /\ r.of = x /\ r.ok \in BOOLEAN /\ r.raw \in Seq(Stories)
    /\ ~ r.ok => r.raw = <<>>

\* The targets differ, a fetch never raises, and nothing is merged before all are in.
FetchInv ==
    stage = "fetching" =>
        /\ wire = <<>>
        /\ \A i, j \in DOMAIN batch : batch[i] = batch[j] => i = j
        /\ \A i \in DOMAIN batch :
              /\ state[i] \in {"queued", "running", "done"}
              /\ state[i] = "done" => FetchedFor(batch[i], result[i])
        /\ merged > 0 => phase = "returned"

\* The list so far is that of the targets that have been merged.
MergedInv ==
    stage = "fetching" =>
        /\ \A t \in 1 .. merged : \A j \in DOMAIN got[t].raw :
              Key[got[t].raw[j]] # NoKey =>
                  \E i \in DOMAIN headlines : /\ HasKey(headlines[i].story, got[t].raw[j])
                                              /\ got[t].of \in headlines[i].tags
        /\ \A i \in DOMAIN headlines :
              /\ headlines[i].tags # {}
              /\ \A x \in headlines[i].tags : \E t \in 1 .. merged :
                    /\ got[t].ok /\ got[t].of = x
                    /\ \E n \in Carried(t) : HasKey(headlines[i].story, n)
        /\ errors = {got[t].of : t \in {u \in 1 .. merged : ~ got[u].ok}}

\* A tag of the world wire was tracked then and need not be now.
TaggedInv ==
    stage = "tagging" =>
        /\ merged = 0 /\ errors = {}
        /\ \A i \in DOMAIN headlines :
              LET mentioned == Mentions[headlines[i].story]
              IN  /\ headlines[i].tags \subseteq mentioned \cap atFirst
                  /\ mentioned \cap Known \subseteq headlines[i].tags

DistinctKeys(hs) == \A i, j \in DOMAIN hs : Key[hs[i].story] = Key[hs[j].story] => i = j

FeedInv ==
    /\ FeedTypeOK
    /\ DistinctKeys(headlines)
    /\ stage \in {"none", "wire"} => headlines = <<>> /\ errors = {} /\ merged = 0 /\ wire = <<>>
    /\ FetchInv /\ MergedInv /\ TaggedInv

\* What the merging of a wire raw of x makes of the list hs.
MergesInto(hs, x, raw, hs2) ==
    /\ hs2 \in Seq(Headline) /\ DistinctKeys(hs2)
    /\ \A j \in DOMAIN raw : Key[raw[j]] # NoKey =>
          \E i \in DOMAIN hs2 : HasKey(hs2[i].story, raw[j]) /\ x \in hs2[i].tags
    /\ \A i \in DOMAIN hs : /\ i \in DOMAIN hs2
                            /\ hs2[i].story = hs[i].story /\ hs[i].tags \subseteq hs2[i].tags
    /\ \A i \in DOMAIN hs2 :
          /\ hs2[i].tags # {}
          /\ \A y \in hs2[i].tags :
                \/ i \in DOMAIN hs /\ y \in hs[i].tags
                \/ y = x /\ \E j \in DOMAIN raw : HasKey(hs2[i].story, raw[j])

\* The stories of raw that are new: none has the key of one that is shown, and every
\* key of raw that is not shown is there once.
LEMMA NewStoriesAre ==
    ASSUME NEW raw \in Seq(Stories), NEW new, new = NewStories(raw)
    PROVE  /\ new \in Seq(Stories)
           /\ \A p, q \in DOMAIN new : Key[new[p]] = Key[new[q]] => p = q
           /\ \A p \in DOMAIN new : /\ ~ Shown(headlines, new[p])
                                    /\ \E j \in DOMAIN raw : new[p] = raw[j]
           /\ \A j \in DOMAIN raw : Key[raw[j]] # NoKey /\ ~ Shown(headlines, raw[j]) =>
                 \E p \in DOMAIN new : Key[new[p]] = Key[raw[j]]
  <1>a. PICK I : I = {j \in DOMAIN raw : /\ Key[raw[j]] # NoKey
                                         /\ ~ Shown(headlines, raw[j])
                                         /\ \A k \in 1 .. j - 1 : Key[raw[k]] # Key[raw[j]]}
    OBVIOUS
  <1>1. /\ I \in SUBSET (DOMAIN raw)
        /\ \A j \in I : ~ Shown(headlines, raw[j])
        /\ \A j \in I : \A k \in 1 .. j - 1 : Key[raw[k]] # Key[raw[j]]
    BY <1>a
  <1>2. DOMAIN raw = 1 .. Len(raw) /\ Len(raw) \in Nat
    BY LenProperties
  <1>3. new = Picked(raw, I)
    BY <1>a DEF NewStories
  <1>4. \A i, j \in I : Key[raw[i]] = Key[raw[j]] => i = j
    <2> SUFFICES ASSUME NEW i \in I, NEW j \in I, Key[raw[i]] = Key[raw[j]], i # j PROVE FALSE
      OBVIOUS
    <2>1. i \in 1 .. Len(raw) /\ j \in 1 .. Len(raw)
      BY <1>1, <1>2
    <2>2. i \in 1 .. j - 1 \/ j \in 1 .. i - 1
      BY <1>2, <2>1
    <2> QED
      BY <1>1, <2>2
  <1>5. new \in Seq(Stories) /\ \E e : Embeds(e, new, raw, I)
    BY <1>1, <1>3, PickedInOrder
  <1>6. PICK e : Embeds(e, new, raw, I)
    BY <1>5
  <1>7. /\ \A p \in DOMAIN new : e[p] \in I /\ new[p] = raw[e[p]]
        /\ \A p, q \in DOMAIN new : e[p] = e[q] => p = q
        /\ \A i \in I : \E p \in DOMAIN new : e[p] = i
    BY <1>6 DEF Embeds
  <1>8. ASSUME NEW j \in DOMAIN raw, Key[raw[j]] # NoKey, ~ Shown(headlines, raw[j])
        PROVE  \E p \in DOMAIN new : Key[new[p]] = Key[raw[j]]
    <2>1. PICK J : J = {i \in DOMAIN raw : Key[raw[i]] = Key[raw[j]]}
      OBVIOUS
    <2>2. J \in SUBSET (DOMAIN raw) /\ J # {}
      BY <2>1
    <2>3. PICK f \in J : \A i \in J : f <= i
      BY <2>2, FirstPlace
    <2>4. f \in DOMAIN raw /\ Key[raw[f]] = Key[raw[j]]
      BY <2>1, <2>3
    <2>5. \A k \in 1 .. f - 1 : Key[raw[k]] # Key[raw[f]]
      <3> SUFFICES ASSUME NEW k \in 1 .. f - 1, Key[raw[k]] = Key[raw[f]] PROVE FALSE
        OBVIOUS
      <3>1. k \in DOMAIN raw /\ k < f /\ k \in Int /\ f \in Int
        BY <1>2, <2>4
      <3>2. k \in J
        BY <2>1, <2>4, <3>1
      <3> QED
        BY <2>3, <3>1, <3>2
    <2>6. ~ Shown(headlines, raw[f])
      BY <1>8, <2>4 DEF Shown
    <2>7. f \in I
      BY <1>a, <1>8, <2>4, <2>5, <2>6
    <2> QED
      BY <1>7, <2>4, <2>7
  <1>9. \A p, q \in DOMAIN new : Key[new[p]] = Key[new[q]] => p = q
    BY <1>4, <1>7
  <1>10. \A p \in DOMAIN new : /\ ~ Shown(headlines, new[p])
                               /\ \E j \in DOMAIN raw : new[p] = raw[j]
    BY <1>1, <1>7
  <1> QED
    BY <1>5, <1>8, <1>9, <1>10

LEMMA MergeMerges ==
    ASSUME NEW x \in Instruments, NEW raw \in Seq(Stories),
           headlines \in Seq(Headline), DistinctKeys(headlines),
           \A i \in DOMAIN headlines : headlines[i].tags # {},
           Merge(x, raw)
    PROVE  MergesInto(headlines, x, raw, headlines')
  <1>a. PICK hs : hs = headlines
    OBVIOUS
  <1>b. PICK new : new = NewStories(raw)
    OBVIOUS
  <1>c. PICK old : old = [i \in DOMAIN hs |-> FurtherTag(hs[i], x, raw)]
    OBVIOUS
  <1>d. PICK add : add = [p \in DOMAIN new |-> [story |-> new[p], tags |-> {x}]]
    OBVIOUS
  <1>e. PICK hs2 : hs2 = headlines'
    OBVIOUS
  <1>f. PICK m, n : m = Len(hs) /\ n = Len(new)
    OBVIOUS
  <1>1. hs2 = old \o add
    BY <1>a, <1>b, <1>c, <1>d, <1>e DEF Merge
  <1>2. /\ new \in Seq(Stories)
        /\ \A p, q \in DOMAIN new : Key[new[p]] = Key[new[q]] => p = q
        /\ \A p \in DOMAIN new : /\ ~ Shown(hs, new[p])
                                 /\ \E j \in DOMAIN raw : new[p] = raw[j]
        /\ \A j \in DOMAIN raw : Key[raw[j]] # NoKey /\ ~ Shown(hs, raw[j]) =>
              \E p \in DOMAIN new : Key[new[p]] = Key[raw[j]]
    BY <1>a, <1>b, NewStoriesAre
  <1>3. m \in Nat /\ n \in Nat /\ DOMAIN hs = 1 .. m /\ DOMAIN new = 1 .. n /\ hs \in Seq(Headline)
    BY <1>a, <1>2, <1>f, LenProperties
  <1>4. \A i \in 1 .. m : hs[i] \in Headline /\ hs[i].tags # {}
    BY <1>a, <1>3, <1>f, ElementOfSeq
  <1>5. ASSUME NEW i \in 1 .. m
        PROVE  /\ old[i] \in Headline /\ old[i].story = hs[i].story
               /\ hs[i].tags \subseteq old[i].tags
               /\ \A j \in DOMAIN raw : HasKey(hs[i].story, raw[j]) => x \in old[i].tags
               /\ \A y \in old[i].tags :
                     \/ y \in hs[i].tags
                     \/ y = x /\ \E j \in DOMAIN raw : HasKey(hs[i].story, raw[j])
    <2>1. old[i] = FurtherTag(hs[i], x, raw) /\ hs[i] \in Headline
      BY <1>c, <1>3, <1>4
    <2>2. CASE \E j \in DOMAIN raw : Key[raw[j]] = Key[hs[i].story]
      <3>1. old[i] = [hs[i] EXCEPT !.tags = @ \cup {x}]
        BY <2>1, <2>2 DEF FurtherTag
      <3>2. old[i] \in Headline /\ old[i].story = hs[i].story /\ old[i].tags = hs[i].tags \cup {x}
        BY <2>1, <3>1 DEF Headline
      <3> QED
        BY <2>2, <3>2 DEF HasKey
    <2>3. CASE ~ \E j \in DOMAIN raw : Key[raw[j]] = Key[hs[i].story]
      <3>1. old[i] = hs[i]
        BY <2>1, <2>3 DEF FurtherTag
      <3>2. \A j \in DOMAIN raw : HasKey(hs[i].story, raw[j]) => x \in old[i].tags
        BY <2>3 DEF HasKey
      <3> QED
        BY <2>1, <3>1, <3>2
    <2> QED
      BY <2>2, <2>3
  <1>6. old \in Seq(Headline) /\ Len(old) = m
    <2>1. old \in [1 .. m -> Headline]
      BY <1>c, <1>3, <1>5
    <2>2. old \in Seq(Headline)
      BY <1>3, <2>1, SeqDef
    <2> QED
      BY <1>3, <2>1, <2>2, LenProperties
  <1>7. \A p \in 1 .. n : add[p].story = new[p] /\ add[p].tags = {x} /\ new[p] \in Stories
    BY <1>d, <1>f, <1>2, <1>3, ElementOfSeq
  <1>8. add \in Seq(Headline) /\ Len(add) = n
    <2>1. \A p \in 1 .. n : [story |-> new[p], tags |-> {x}] \in Headline
      BY <1>7 DEF Headline
    <2>2. add \in [1 .. n -> Headline]
      BY <1>d, <1>3, <2>1
    <2>3. add \in Seq(Headline)
      BY <1>3, <2>2, SeqDef
    <2> QED
      BY <1>3, <2>2, <2>3, LenProperties
  <1>9. /\ hs2 \in Seq(Headline) /\ DOMAIN hs2 = 1 .. m + n
        /\ \A i \in 1 .. m + n : hs2[i] = IF i <= m THEN old[i] ELSE add[i - m]
    <2>1. /\ old \o add \in Seq(Headline) /\ Len(old \o add) = m + n
          /\ \A i \in 1 .. m + n : (old \o add)[i] = IF i <= m THEN old[i] ELSE add[i - m]
      BY <1>6, <1>8, ConcatProperties
    <2>2. hs2 \in Seq(Headline) /\ Len(hs2) = m + n
      BY <1>1, <2>1
    <2>3. DOMAIN hs2 = 1 .. m + n
      BY <2>2, LenProperties
    <2> QED
      BY <1>1, <2>1, <2>2, <2>3
  <1>10. \A i \in 1 .. m : i \in 1 .. m + n /\ hs2[i] = old[i]
    BY <1>3, <1>9
  <1>11. \A p \in 1 .. n : m + p \in 1 .. m + n /\ hs2[m + p] = add[p]
    <2> SUFFICES ASSUME NEW p \in 1 .. n PROVE m + p \in 1 .. m + n /\ hs2[m + p] = add[p]
      OBVIOUS
    <2>1. m + p \in 1 .. m + n /\ ~ (m + p <= m) /\ (m + p) - m = p
      BY <1>3
    <2>2. hs2[m + p] = add[(m + p) - m]
      BY <1>9, <2>1
    <2> QED
      BY <2>1, <2>2
  <1>12. \A i \in 1 .. m + n : i \in 1 .. m \/ (~ (i <= m) /\ i - m \in 1 .. n /\ hs2[i] = add[i - m])
    <2> SUFFICES ASSUME NEW i \in 1 .. m + n, i \notin 1 .. m
                 PROVE  ~ (i <= m) /\ i - m \in 1 .. n /\ hs2[i] = add[i - m]
      OBVIOUS
    <2>1. ~ (i <= m) /\ i - m \in 1 .. n
      BY <1>3
    <2> QED
      BY <1>9, <2>1
  <1>13. \A i, j \in 1 .. m : Key[hs[i].story] = Key[hs[j].story] => i = j
    BY <1>a, <1>3 DEF DistinctKeys
  <1>14. \A i \in 1 .. m, p \in 1 .. n : Key[hs[i].story] # Key[new[p]]
    BY <1>2, <1>3 DEF Shown
  <1>15. DistinctKeys(hs2)
    <2> SUFFICES ASSUME NEW i \in 1 .. m + n, NEW j \in 1 .. m + n,
                        Key[hs2[i].story] = Key[hs2[j].story]
                 PROVE  i = j
      BY <1>9 DEF DistinctKeys
    <2>1. CASE i \in 1 .. m /\ j \in 1 .. m
      BY <1>5, <1>10, <1>13, <2>1
    <2>2. CASE i \in 1 .. m /\ j \notin 1 .. m
      <3>1. j - m \in 1 .. n /\ hs2[j].story = new[j - m] /\ hs2[i].story = hs[i].story
        BY <1>5, <1>7, <1>10, <1>12, <2>2
      <3> QED
        BY <1>14, <2>2, <3>1
    <2>3. CASE i \notin 1 .. m /\ j \in 1 .. m
      <3>1. i - m \in 1 .. n /\ hs2[i].story = new[i - m] /\ hs2[j].story = hs[j].story
        BY <1>5, <1>7, <1>10, <1>12, <2>3
      <3> QED
        BY <1>14, <2>3, <3>1
    <2>4. CASE i \notin 1 .. m /\ j \notin 1 .. m
      <3>1. /\ i - m \in 1 .. n /\ hs2[i].story = new[i - m]
            /\ j - m \in 1 .. n /\ hs2[j].story = new[j - m]
        BY <1>7, <1>12, <2>4
      <3>2. i - m = j - m
        BY ZenonT(60), <1>2, <1>3, <3>1
      <3> QED
        BY <1>3, <3>2
    <2> QED
      BY <2>1, <2>2, <2>3, <2>4
  <1>16. ASSUME NEW j \in DOMAIN raw, Key[raw[j]] # NoKey
         PROVE  \E i \in 1 .. m + n : HasKey(hs2[i].story, raw[j]) /\ x \in hs2[i].tags
    <2>1. CASE Shown(hs, raw[j])
      <3>1. PICK i \in 1 .. m : HasKey(hs[i].story, raw[j])
        BY <1>3, <2>1 DEF Shown, HasKey
      <3>2. x \in old[i].tags /\ old[i].story = hs[i].story
        BY <1>5, <3>1
      <3> QED
        BY <1>10, <3>1, <3>2
    <2>2. CASE ~ Shown(hs, raw[j])
      <3>1. PICK p \in 1 .. n : Key[new[p]] = Key[raw[j]]
        BY <1>2, <1>3, <1>16, <2>2
      <3>2. hs2[m + p].story = new[p] /\ hs2[m + p].tags = {x} /\ m + p \in 1 .. m + n
        BY <1>7, <1>11
      <3> QED
        BY <3>1, <3>2 DEF HasKey
    <2> QED
      BY <2>1, <2>2
  <1>17. \A i \in 1 .. m : /\ i \in 1 .. m + n
                           /\ hs2[i].story = hs[i].story /\ hs[i].tags \subseteq hs2[i].tags
    BY <1>5, <1>10
  <1>18. ASSUME NEW i \in 1 .. m + n
         PROVE  /\ hs2[i].tags # {}
                /\ \A y \in hs2[i].tags :
                      \/ i \in 1 .. m /\ y \in hs[i].tags
                      \/ y = x /\ \E j \in DOMAIN raw : HasKey(hs2[i].story, raw[j])
    <2>1. CASE i \in 1 .. m
      BY <1>4, <1>5, <1>10, <2>1
    <2>2. CASE i \notin 1 .. m
      <3>1. i - m \in 1 .. n /\ hs2[i].story = new[i - m] /\ hs2[i].tags = {x}
        BY <1>7, <1>12, <2>2
      <3>2. \E j \in DOMAIN raw : new[i - m] = raw[j]
        BY <1>2, <1>3, <3>1
      <3> QED
        BY <3>1, <3>2 DEF HasKey
    <2> QED
      BY <2>1, <2>2
  <1> QED
    BY <1>a, <1>e, <1>3, <1>9, <1>15, <1>16, <1>17, <1>18 DEF MergesInto

\* A feed that has merged nothing.
LEMMA NoneMerged ==
    ASSUME FeedInv, stage = "fetching", merged = 0
    PROVE  headlines = <<>> /\ errors = {}
  <1>1. headlines \in Seq(Headline) /\ MergedInv
    BY DEF FeedInv, FeedTypeOK
  <1>2. DOMAIN headlines = 1 .. Len(headlines) /\ Len(headlines) \in Nat
    BY <1>1, LenProperties
  <1>3. \A i \in DOMAIN headlines : FALSE
    BY <1>1 DEF MergedInv
  <1>4. errors = {}
    BY <1>1 DEF MergedInv
  <1>5. Len(headlines) = 0
    BY <1>2, <1>3
  <1> QED
    BY <1>1, <1>4, <1>5, EmptySeq

LEMMA NothingYet ==
    ASSUME PagesInv', headlines' = <<>>, errors' = {}, merged' = 0, wire' \in Seq(Stories),
           stage' \in Stages, stage' \in {"none", "wire"} => wire' = <<>>, FetchInv'
    PROVE  FeedInv'
  <1>1. RequestsInv' /\ got' \in Seq(Results)
    BY DEF PagesInv, FanInv, FanTypeOK
  <1>2. headlines' \in Seq(Headline) /\ DOMAIN headlines' = {}
    <2>1. headlines' \in Seq(Headline) /\ Len(headlines') = 0
      BY EmptySeq
    <2>2. DOMAIN headlines' = 1 .. 0
      BY <2>1, LenProperties
    <2> QED
      BY <2>1, <2>2
  <1>3. 0 \in 0 .. Len(got')
    BY <1>1, LenProperties
  <1>4. FeedTypeOK'
    BY <1>1, <1>2, <1>3 DEF FeedTypeOK, RequestsInv
  <1>5. DistinctKeys(headlines)'
    BY <1>2 DEF DistinctKeys
  <1>6. MergedInv'
    BY <1>2 DEF MergedInv
  <1>7. TaggedInv'
    BY <1>2 DEF TaggedInv
  <1> QED
    BY <1>4, <1>5, <1>6, <1>7 DEF FeedInv

\* The targets of a feed differ.
LEMMA TargetsDiffer ==
    ASSUME PagesInv
    PROVE  /\ Targets \in Seq(Instruments)
           /\ \A i, j \in DOMAIN Targets : Targets[i] = Targets[j] => i = j
  <1>1. /\ tracked \in Seq(Instruments)
        /\ \A i, j \in DOMAIN tracked : tracked[i] = tracked[j] => i = j
    BY DEF PagesInv, ViewsTypeOK
  <1>2. PICK r : r = Among(tracked, NewsCapable)
    OBVIOUS
  <1>3. r \in Seq(Instruments)
    BY <1>1, <1>2, AmongElements
  <1>4. \A i, j \in DOMAIN r : r[i] = r[j] => i = j
    BY ONLY <1>1, <1>2, AmongElements
  <1>5. Targets = r
    BY <1>2 DEF Targets
  <1> QED
    BY <1>3, <1>4, <1>5

LEMMA FetchBegins ==
    ASSUME NEW list \in Seq(Instruments), \A i, j \in DOMAIN list : list[i] = list[j] => i = j,
           FetchFor(list), merged' = 0, wire' = <<>>
    PROVE  FetchInv' /\ stage' = "fetching"
  BY DEF FetchFor, Begin, FetchInv

\* A worker of the feed.
LEMMA FetchWorks ==
    ASSUME PagesInv, FeedInv, NEW i \in DOMAIN batch, TakeTarget(i) \/ FetchEnds(i)
    PROVE  merged = 0 /\ FetchInv'
  <1>1. /\ stage = "fetching" /\ FetchInv /\ FanInv /\ RequestsInv
        /\ UNCHANGED <<batch, phase, got, wire, merged, stage>>
    BY DEF TakeTarget, FetchEnds, Take, Finish, feedVars, FeedInv, PagesInv
  <1>2. state[i] # "done" /\ merged \in Nat
    <2>1. merged \in 0 .. Len(got) /\ got \in Seq(Results)
      BY <1>1 DEF FeedInv, FeedTypeOK, FanInv, FanTypeOK
    <2> QED
      BY <2>1, LenProperties DEF TakeTarget, FetchEnds, Take, Finish, Running
  <1>3. DOMAIN batch = 1 .. Len(batch) /\ batch \in Seq(Instruments)
    BY <1>1, LenProperties DEF RequestsInv
  <1>4. phase # "returned"
    BY <1>1, <1>2, <1>3 DEF FanInv, TakenInOrder
  <1>5. merged = 0
    BY <1>1, <1>2, <1>4 DEF FetchInv
  <1>6. \A j \in DOMAIN batch :
           /\ state'[j] \in {"queued", "running", "done"}
           /\ state'[j] = "done" => FetchedFor(batch[j], result'[j])
    <2>0. /\ state \in [DOMAIN batch -> States] /\ result \in [DOMAIN batch -> Results \cup {NoResult}]
          /\ \A j \in DOMAIN batch :
                /\ state[j] \in {"queued", "running", "done"}
                /\ state[j] = "done" => FetchedFor(batch[j], result[j])
      BY <1>1 DEF FanInv, FanTypeOK, FetchInv
    <2>1. CASE TakeTarget(i)
      <3>1. state' = [state EXCEPT ![i] = "running"] /\ result' = result
        BY <2>1 DEF TakeTarget, Take
      <3> QED
        BY <2>0, <3>1
    <2>2. ASSUME NEW r, FetchedFor(batch[i], r), Finish(i, r)
          PROVE  \A j \in DOMAIN batch :
                    /\ state'[j] \in {"queued", "running", "done"}
                    /\ state'[j] = "done" => FetchedFor(batch[j], result'[j])
      <3>1. state' = [state EXCEPT ![i] = "done"] /\ result' = [result EXCEPT ![i] = r]
        BY <2>2 DEF Finish
      <3> QED
        BY <2>0, <2>2, <3>1
    <2>3. FetchedFor(batch[i], [of |-> batch[i], ok |-> FALSE, raw |-> <<>>])
      BY EmptySeq DEF FetchedFor
    <2>4. \A raw \in Wires : FetchedFor(batch[i], [of |-> batch[i], ok |-> TRUE, raw |-> raw])
      BY StoriesAssumption DEF FetchedFor
    <2>5. CASE FetchEnds(i)
      BY <2>2, <2>3, <2>4, <2>5 DEF FetchEnds
    <2> QED
      BY <2>1, <2>5
  <1> QED
    BY <1>1, <1>5, <1>6 DEF FetchInv

\* While the caller waits for the targets nothing is merged, and none of them raises.
LEMMA FetchCollects ==
    ASSUME PagesInv, FeedInv, stage = "fetching", Iterate, UNCHANGED feedVars
    PROVE  merged = 0 /\ FetchInv'
  <1>1. /\ FetchInv /\ FanInv /\ UNCHANGED <<wire, merged, stage>>
        /\ merged \in 0 .. Len(got) /\ got \in Seq(Results)
    BY DEF feedVars, FeedInv, PagesInv, FeedTypeOK, FanInv, FanTypeOK
  <1>2. phase # "returned" /\ merged \in Nat
    BY <1>1, LenProperties DEF Iterate, Collect, CollectRaises, Join
  <1>3. merged = 0
    BY <1>1, <1>2 DEF FetchInv
  <1>4. \A j \in DOMAIN batch : state[j] # "failed"
    BY <1>1 DEF FetchInv
  <1>5. UNCHANGED <<batch, state, result>>
    <2>1. ~ CollectRaises
      BY <1>4 DEF CollectRaises
    <2>2. ~ Join
      BY <1>1, <1>4 DEF Join, FanInv, TakenInOrder
    <2> QED
      BY <2>1, <2>2 DEF Iterate, Collect
  <1> QED
    BY <1>1, <1>3, <1>5 DEF FetchInv

\* What the feed keeps while others take their steps.
LEMMA FeedKept ==
    ASSUME PagesInv, PagesInv', FeedInv, UNCHANGED feedVars, FetchInv',
           stage = "fetching" => UNCHANGED got,
           stage = "tagging" => atFirst' = atFirst,
           Known' \subseteq Known
    PROVE  FeedInv'
  <1>1. UNCHANGED <<stage, wire, merged, headlines, errors>>
    BY DEF feedVars
  <1>2. CASE stage \in {"none", "wire"}
    BY <1>1, <1>2, NothingYet DEF FeedInv, FeedTypeOK
  <1>3. RequestsInv' /\ got' \in Seq(Results)
    BY DEF PagesInv, FanInv, FanTypeOK
  <1>4. merged' \in 0 .. Len(got') /\ DistinctKeys(headlines)'
    <2>1. merged \in 0 .. Len(got) /\ (stage = "tagging" => merged = 0) /\ stage \in Stages
      BY DEF FeedInv, FeedTypeOK, TaggedInv
    <2>2. Len(got') \in Nat
      BY <1>3, LenProperties
    <2>3. CASE stage = "fetching"
      BY <1>1, <2>1, <2>3 DEF FeedInv, DistinctKeys
    <2>4. CASE stage # "fetching"
      <3>1. merged = 0
        BY <2>1, <2>4 DEF Stages, FeedInv
      <3> QED
        BY <1>1, <2>2, <3>1 DEF FeedInv, DistinctKeys
    <2> QED
      BY <2>3, <2>4
  <1>5. FeedTypeOK'
    BY <1>1, <1>3, <1>4 DEF FeedInv, FeedTypeOK, RequestsInv
  <1>6. MergedInv'
    BY <1>1 DEF FeedInv, MergedInv, Carried
  <1>7. TaggedInv'
    <2> SUFFICES ASSUME stage = "tagging" PROVE TaggedInv'
      BY <1>1 DEF TaggedInv
    <2> QED
      BY <1>1 DEF FeedInv, TaggedInv
  <1>8. CASE stage \notin {"none", "wire"}
    BY <1>1, <1>4, <1>5, <1>6, <1>7, <1>8 DEF FeedInv
  <1> QED
    BY <1>2, <1>8

\* _world_headline and _dedupe_sorted.
LEMMA StoryTagged ==
    ASSUME PagesInv, PagesInv', FeedInv, TagStory, atFirst' = atFirst
    PROVE  FeedInv'
  <1>a. PICK n : n = Head(wire)
    OBVIOUS
  <1>b. PICK h : h = [story |-> n, tags |-> {x \in Mentions[n] : IsTracked(x)}]
    OBVIOUS
  <1>c. PICK hs, hs2 : hs = headlines /\ hs2 = headlines'
    OBVIOUS
  <1>1. /\ stage = "tagging" /\ stage' = stage /\ merged' = merged /\ errors' = errors
        /\ wire # <<>> /\ wire' = Tail(wire) /\ got' = got
        /\ hs2 = IF Key[n] = NoKey \/ Shown(headlines, n) THEN hs ELSE Append(hs, h)
        /\ UNCHANGED tracked
    BY <1>a, <1>b, <1>c DEF TagStory, viewVars, fanVars
  <1>2. /\ wire \in Seq(Stories) /\ hs \in Seq(Headline) /\ DistinctKeys(hs) /\ merged = 0 /\ errors = {}
        /\ merged \in 0 .. Len(got) /\ errors \subseteq Instruments
        /\ \A i \in DOMAIN hs :
              /\ hs[i].tags \subseteq Mentions[hs[i].story] \cap atFirst
              /\ Mentions[hs[i].story] \cap Known \subseteq hs[i].tags
    BY <1>c, <1>1 DEF FeedInv, FeedTypeOK, TaggedInv
  <1>3. n \in Stories /\ wire' \in Seq(Stories)
    BY <1>a, <1>1, <1>2, HeadTailProperties
  <1>4. Mentions[n] \subseteq Instruments /\ Known \subseteq atFirst /\ Known' = Known
    BY <1>1, <1>3, StoriesAssumption DEF PagesInv, RequestsInv, Known, IsTracked
  <1>5. h.story = n /\ h.tags = Mentions[n] \cap Known /\ h \in Headline
    BY <1>b, <1>3, <1>4 DEF Headline, Known
  <1>6. /\ hs2 \in Seq(Headline) /\ DistinctKeys(hs2)
        /\ \A i \in DOMAIN hs2 :
              /\ hs2[i].tags \subseteq Mentions[hs2[i].story] \cap atFirst
              /\ Mentions[hs2[i].story] \cap Known \subseteq hs2[i].tags
    <2>1. CASE Key[n] = NoKey \/ Shown(headlines, n)
      BY <1>1, <1>2, <2>1
    <2>2. CASE ~ (Key[n] = NoKey \/ Shown(headlines, n))
      <3>1. PICK m : m = Len(hs)
        OBVIOUS
      <3>2. m \in Nat /\ DOMAIN hs = 1 .. m
        BY <1>2, <3>1, LenProperties
      <3>3. hs2 = Append(hs, h)
        BY <1>1, <2>2
      <3>4. hs2 \in Seq(Headline) /\ Len(hs2) = m + 1
            /\ (\A i \in 1 .. m : hs2[i] = hs[i]) /\ hs2[m + 1] = h
        BY <1>2, <1>5, <3>1, <3>3, AppendProperties
      <3>5. DOMAIN hs2 = 1 .. m + 1
        BY <3>4, LenProperties
      <3>6. \A i \in 1 .. m : Key[hs[i].story] # Key[n]
        BY <1>c, <2>2, <3>2 DEF Shown
      <3>7. \A i \in 1 .. m + 1 : i \in 1 .. m \/ i = m + 1
        BY <3>2
      <3>8. DistinctKeys(hs2)
        <4>1. \A i, j \in 1 .. m : Key[hs2[i].story] = Key[hs2[j].story] => i = j
          BY <1>2, <3>2, <3>4 DEF DistinctKeys
        <4>2. \A i \in 1 .. m : Key[hs2[i].story] # Key[hs2[m + 1].story]
          BY <1>5, <3>4, <3>6
        <4> QED
          BY <3>5, <3>7, <4>1, <4>2 DEF DistinctKeys
      <3>9. \A i \in 1 .. m : /\ hs2[i].tags \subseteq Mentions[hs2[i].story] \cap atFirst
                              /\ Mentions[hs2[i].story] \cap Known \subseteq hs2[i].tags
        BY <1>2, <3>2, <3>4
      <3>10. /\ hs2[m + 1].tags \subseteq Mentions[hs2[m + 1].story] \cap atFirst
             /\ Mentions[hs2[m + 1].story] \cap Known \subseteq hs2[m + 1].tags
        BY <1>4, <1>5, <3>4
      <3> QED
        BY <3>4, <3>5, <3>7, <3>8, <3>9, <3>10
    <2> QED
      BY <2>1, <2>2
  <1>7. TaggedInv'
    BY <1>c, <1>1, <1>2, <1>4, <1>6 DEF TaggedInv
  <1>8. FeedTypeOK'
    <2>1. stage' \in Stages /\ (stage' = "none" <=> view' # "news")
      BY <1>1 DEF PagesInv, RequestsInv, Stages
    <2> QED
      BY <1>c, <1>1, <1>2, <1>3, <1>6, <2>1 DEF FeedTypeOK
  <1>9. FetchInv' /\ MergedInv' /\ stage' \notin {"none", "wire"}
    BY <1>1 DEF FetchInv, MergedInv
  <1>10. DistinctKeys(headlines)'
    BY <1>c, <1>6 DEF DistinctKeys
  <1> QED
    BY <1>7, <1>8, <1>9, <1>10 DEF FeedInv

\* When the targets are in, each has its answer.
LEMMA TargetsAreIn ==
    ASSUME PagesInv, FeedInv, stage = "fetching", phase = "returned"
    PROVE  /\ Len(got) = Len(batch) /\ Len(batch) \in Nat
           /\ DOMAIN got = 1 .. Len(batch) /\ DOMAIN batch = 1 .. Len(batch)
           /\ \A t \in 1 .. Len(batch) : batch[t] \in Instruments /\ FetchedFor(batch[t], got[t])
           /\ \A t, u \in 1 .. Len(batch) : batch[t] = batch[u] => t = u
  <1>1. FanInv /\ FetchInv /\ batch \in Seq(Instruments) /\ got \in Seq(Results)
        /\ Len(got) = Len(batch)
    BY DEF PagesInv, RequestsInv, FeedInv, FanInv, FanTypeOK, TakenInOrder
  <1>2. Len(batch) \in Nat /\ DOMAIN got = 1 .. Len(batch) /\ DOMAIN batch = 1 .. Len(batch)
    BY <1>1, LenProperties
  <1>3. \A t \in 1 .. Len(batch) : batch[t] \in Instruments
    BY <1>1, ElementOfSeq
  <1>4. \A t \in 1 .. Len(batch) : FetchedFor(batch[t], got[t])
    BY <1>1, <1>2 DEF FanInv, TakenInOrder, FetchInv
  <1>5. \A t, u \in 1 .. Len(batch) : batch[t] = batch[u] => t = u
    BY <1>1, <1>2 DEF FetchInv
  <1> QED
    BY <1>1, <1>2, <1>3, <1>4, <1>5

\* The loop over the stories of one target.
LEMMA TargetMerges ==
    ASSUME PagesInv, FeedInv, MergeTarget, got[merged + 1].ok
    PROVE  \E raw : /\ MergesInto(headlines, got[merged + 1].of, raw, headlines')
                    /\ got[merged + 1].raw = <<>> \/ raw = got[merged + 1].raw
                    /\ \A j \in DOMAIN raw : raw[j] \in Carried(merged + 1)
  <1>a. PICK r : r = got[merged + 1]
    OBVIOUS
  <1>1. /\ stage = "fetching" /\ phase = "returned" /\ merged < Len(got) /\ merged \in 0 .. Len(got)
        /\ headlines \in Seq(Headline) /\ DistinctKeys(headlines)
        /\ \A i \in DOMAIN headlines : headlines[i].tags # {}
    BY DEF MergeTarget, FeedInv, FeedTypeOK, MergedInv
  <1>2. r.of \in Instruments /\ r.raw \in Seq(Stories)
    <2>1. merged + 1 \in 1 .. Len(batch)
      BY <1>1, TargetsAreIn
    <2> QED
      BY <1>a, <1>1, <2>1, TargetsAreIn DEF FetchedFor
  <1>3. CASE r.raw = <<>> /\ r.of \in Crypto
    <2>1. PICK raw \in Fallbacks(r.of) : Merge(r.of, raw)
      BY <1>a, <1>3 DEF MergeTarget
    <2>2. raw \in Seq(Stories) /\ \A j \in DOMAIN raw : r.of \in Mentions[raw[j]]
      <3>1. CASE raw = <<>>
        BY <3>1, EmptySeq
      <3>2. CASE raw # <<>>
        <4>1. PICK w \in Wires : raw = Picked(w, {j \in DOMAIN w : r.of \in Mentions[w[j]]})
          BY <2>1, <3>2 DEF Fallbacks
        <4>2. PICK I : I = {j \in DOMAIN w : r.of \in Mentions[w[j]]}
          OBVIOUS
        <4>3. I \in SUBSET (DOMAIN w) /\ \A j \in I : r.of \in Mentions[w[j]]
          BY <4>2
        <4>4. w \in Seq(Stories) /\ raw = Picked(w, I)
          BY <4>1, <4>2, StoriesAssumption
        <4>5. raw \in Seq(Stories) /\ \A p \in DOMAIN raw : \E i \in I : raw[p] = w[i]
          BY <4>3, <4>4, PickedElements
        <4> QED
          BY <4>3, <4>5
      <3> QED
        BY <3>1, <3>2
    <2>3. \A j \in DOMAIN raw : raw[j] \in Stories
      BY <2>2, LenProperties, ElementOfSeq
    <2>4. Carried(merged + 1) = {n \in Stories : r.of \in Mentions[n]}
      BY <1>a, <1>3 DEF Carried
    <2>5. \A j \in DOMAIN raw : raw[j] \in Carried(merged + 1)
      BY <2>2, <2>3, <2>4
    <2>6. MergesInto(headlines, r.of, raw, headlines')
      BY <1>1, <1>2, <2>1, <2>2, MergeMerges
    <2> QED
      BY <1>a, <1>3, <2>5, <2>6
  <1>4. CASE ~ (r.raw = <<>> /\ r.of \in Crypto)
    <2>1. Merge(r.of, r.raw)
      BY <1>a, <1>4 DEF MergeTarget
    <2>2. MergesInto(headlines, r.of, r.raw, headlines')
      BY <1>1, <1>2, <2>1, MergeMerges
    <2>3. Carried(merged + 1) = {r.raw[j] : j \in DOMAIN r.raw}
      BY <1>a, <1>4 DEF Carried
    <2>4. \A j \in DOMAIN r.raw : r.raw[j] \in Carried(merged + 1)
      BY <2>3
    <2> QED
      BY <1>a, <2>2, <2>4
  <1> QED
    BY <1>3, <1>4

LEMMA TargetMerged ==
    ASSUME PagesInv, PagesInv', FeedInv, MergeTarget
    PROVE  FeedInv'
  <1>a. PICK r : r = got[merged + 1]
    OBVIOUS
  <1>b. PICK hs, hs2 : hs = headlines /\ hs2 = headlines'
    OBVIOUS
  <1>1. /\ stage = "fetching" /\ phase = "returned" /\ merged < Len(got) /\ merged \in 0 .. Len(got)
        /\ merged' = merged + 1
        /\ UNCHANGED <<stage, wire, batch, state, result, got, phase>>
        /\ hs \in Seq(Headline) /\ DistinctKeys(hs) /\ errors \subseteq Instruments
        /\ wire \in Seq(Stories) /\ FetchInv
        /\ (IF ~ r.ok THEN errors' = errors \cup {r.of} /\ hs2 = hs ELSE errors' = errors)
    BY <1>a, <1>b DEF MergeTarget, FeedInv, FeedTypeOK, viewVars, fanVars
  <1>2. /\ \A t \in 1 .. merged : \A j \in DOMAIN got[t].raw :
              Key[got[t].raw[j]] # NoKey =>
                  \E i \in DOMAIN hs : /\ HasKey(hs[i].story, got[t].raw[j])
                                       /\ got[t].of \in hs[i].tags
        /\ \A i \in DOMAIN hs :
              /\ hs[i].tags # {}
              /\ \A x \in hs[i].tags : \E t \in 1 .. merged :
                    /\ got[t].ok /\ got[t].of = x
                    /\ \E n \in Carried(t) : HasKey(hs[i].story, n)
        /\ errors = {got[t].of : t \in {u \in 1 .. merged : ~ got[u].ok}}
    BY <1>b, <1>1 DEF FeedInv, MergedInv
  <1>3. /\ merged \in Nat /\ merged + 1 \in 1 .. Len(got) /\ merged + 1 \in 1 .. merged + 1
        /\ Len(got) \in Nat
        /\ \A t \in 1 .. merged + 1 : t \in 1 .. merged \/ t = merged + 1
        /\ \A t \in 1 .. merged : t \in 1 .. merged + 1
    BY <1>1, TargetsAreIn
  <1>4. r.of \in Instruments /\ r.ok \in BOOLEAN /\ (~ r.ok => r.raw = <<>>)
    BY <1>a, <1>1, <1>3, TargetsAreIn DEF FetchedFor
  <1>5. FetchInv'
    BY <1>1 DEF FetchInv
  <1>6. ASSUME hs2 \in Seq(Headline), DistinctKeys(hs2), errors' \subseteq Instruments,
               \A t \in 1 .. merged + 1 : \A j \in DOMAIN got[t].raw :
                  Key[got[t].raw[j]] # NoKey =>
                      \E i \in DOMAIN hs2 : /\ HasKey(hs2[i].story, got[t].raw[j])
                                            /\ got[t].of \in hs2[i].tags,
               \A i \in DOMAIN hs2 :
                  /\ hs2[i].tags # {}
                  /\ \A x \in hs2[i].tags : \E t \in 1 .. merged + 1 :
                        /\ got[t].ok /\ got[t].of = x
                        /\ \E n \in Carried(t) : HasKey(hs2[i].story, n),
               errors' = {got[t].of : t \in {u \in 1 .. merged + 1 : ~ got[u].ok}}
        PROVE  FeedInv'
    <2>1. headlines' = hs2 /\ merged' = merged + 1 /\ got' = got /\ stage' = "fetching"
      BY <1>b, <1>1
    <2>2. \A i \in DOMAIN hs2 :
              /\ hs2[i].tags # {}
              /\ \A x \in hs2[i].tags : \E t \in 1 .. merged + 1 :
                    /\ got[t].ok /\ got[t].of = x
                    /\ \E n \in Carried(t)' : HasKey(hs2[i].story, n)
      BY <1>6, <2>1 DEF Carried
    <2>3. errors' = {got'[t].of : t \in {u \in 1 .. merged' : ~ got'[u].ok}}
      BY <1>6, <2>1
    <2>4. \A t \in 1 .. merged' : \A j \in DOMAIN got'[t].raw :
              Key[got'[t].raw[j]] # NoKey =>
                  \E i \in DOMAIN headlines' : /\ HasKey(headlines'[i].story, got'[t].raw[j])
                                               /\ got'[t].of \in headlines'[i].tags
      BY <1>6, <2>1 DEF HasKey
    <2>5. \A i \in DOMAIN headlines' :
              /\ headlines'[i].tags # {}
              /\ \A x \in headlines'[i].tags : \E t \in 1 .. merged' :
                    /\ got'[t].ok /\ got'[t].of = x
                    /\ \E n \in Carried(t)' : HasKey(headlines'[i].story, n)
      BY <2>1, <2>2 DEF HasKey
    <2>6. MergedInv'
      BY <2>3, <2>4, <2>5 DEF MergedInv, HasKey
    <2>7. TaggedInv' /\ DistinctKeys(headlines)' /\ stage' \notin {"none", "wire"}
      BY <1>6, <2>1 DEF TaggedInv, DistinctKeys
    <2>8. stage' \in Stages /\ (stage' = "none" <=> view' # "news")
      BY <2>1 DEF PagesInv, RequestsInv, Stages
    <2>9. FeedTypeOK'
      BY <1>1, <1>3, <1>6, <2>1, <2>8 DEF FeedTypeOK
    <2> QED
      BY <1>5, <2>6, <2>7, <2>9 DEF FeedInv
  <1>7. CASE ~ r.ok
    <2>1. hs2 = hs /\ r.raw = <<>> /\ errors' = errors \cup {r.of} /\ errors' \subseteq Instruments
      BY <1>1, <1>4, <1>7
    <2>2. \A t \in 1 .. merged + 1 : \A j \in DOMAIN got[t].raw :
              Key[got[t].raw[j]] # NoKey =>
                  \E i \in DOMAIN hs2 : /\ HasKey(hs2[i].story, got[t].raw[j])
                                        /\ got[t].of \in hs2[i].tags
      <3>1. DOMAIN got[merged + 1].raw = {}
        BY <1>a, <2>1
      <3> QED
        BY <1>2, <1>3, <2>1, <3>1
    <2>3. errors' = {got[t].of : t \in {u \in 1 .. merged + 1 : ~ got[u].ok}}
      BY <1>a, <1>2, <1>3, <1>7, <2>1
    <2>4. \A i \in DOMAIN hs2 :
              /\ hs2[i].tags # {}
              /\ \A x \in hs2[i].tags : \E t \in 1 .. merged + 1 :
                    /\ got[t].ok /\ got[t].of = x
                    /\ \E n \in Carried(t) : HasKey(hs2[i].story, n)
      BY <1>2, <1>3, <2>1
    <2>5. hs2 \in Seq(Headline) /\ DistinctKeys(hs2)
      BY <1>1, <2>1
    <2> QED
      BY <1>6, <2>1, <2>2, <2>3, <2>4, <2>5
  <1>8. CASE r.ok
    <2>1. PICK raw : /\ MergesInto(hs, r.of, raw, hs2)
                     /\ r.raw = <<>> \/ raw = r.raw
                     /\ \A j \in DOMAIN raw : raw[j] \in Carried(merged + 1)
      BY <1>a, <1>b, <1>8, TargetMerges
    <2>2. /\ hs2 \in Seq(Headline) /\ DistinctKeys(hs2)
          /\ \A j \in DOMAIN raw : Key[raw[j]] # NoKey =>
                \E i \in DOMAIN hs2 : HasKey(hs2[i].story, raw[j]) /\ r.of \in hs2[i].tags
          /\ \A i \in DOMAIN hs : /\ i \in DOMAIN hs2
                                  /\ hs2[i].story = hs[i].story /\ hs[i].tags \subseteq hs2[i].tags
          /\ \A i \in DOMAIN hs2 :
                /\ hs2[i].tags # {}
                /\ \A y \in hs2[i].tags :
                      \/ i \in DOMAIN hs /\ y \in hs[i].tags
                      \/ y = r.of /\ \E j \in DOMAIN raw : HasKey(hs2[i].story, raw[j])
      BY <2>1 DEF MergesInto
    <2>3. ASSUME NEW t \in 1 .. merged + 1, NEW j \in DOMAIN got[t].raw, Key[got[t].raw[j]] # NoKey
          PROVE  \E i \in DOMAIN hs2 : HasKey(hs2[i].story, got[t].raw[j]) /\ got[t].of \in hs2[i].tags
      <3>1. CASE t \in 1 .. merged
        <4>1. PICK i \in DOMAIN hs : HasKey(hs[i].story, got[t].raw[j]) /\ got[t].of \in hs[i].tags
          BY <1>2, <2>3, <3>1
        <4> QED
          BY <2>2, <4>1
      <3>2. CASE t = merged + 1
        <4>1. got[t].raw = raw /\ got[t] = r
          BY <1>a, <2>1, <2>3, <3>2
        <4> QED
          BY <2>2, <2>3, <4>1
      <3> QED
        BY <1>3, <3>1, <3>2
    <2>4. ASSUME NEW i \in DOMAIN hs2, NEW x \in hs2[i].tags
          PROVE  \E t \in 1 .. merged + 1 : /\ got[t].ok /\ got[t].of = x
                                            /\ \E n \in Carried(t) : HasKey(hs2[i].story, n)
      <3>1. CASE i \in DOMAIN hs /\ x \in hs[i].tags
        <4>1. PICK t \in 1 .. merged : /\ got[t].ok /\ got[t].of = x
                                       /\ \E n \in Carried(t) : HasKey(hs[i].story, n)
          BY <1>2, <3>1
        <4>2. \E n \in Carried(t) : HasKey(hs2[i].story, n)
          BY <2>2, <3>1, <4>1
        <4> QED
          BY <1>3, <4>1, <4>2
      <3>2. CASE x = r.of /\ \E j \in DOMAIN raw : HasKey(hs2[i].story, raw[j])
        BY <1>a, <1>3, <1>8, <2>1, <3>2
      <3> QED
        BY <2>2, <3>1, <3>2
    <2>5. errors' = errors /\ errors' \subseteq Instruments
      BY <1>1, <1>8
    <2>6. errors' = {got[t].of : t \in {u \in 1 .. merged + 1 : ~ got[u].ok}}
      BY <1>a, <1>2, <1>3, <1>8, <2>5
    <2> QED
      BY <1>6, <2>2, <2>3, <2>4, <2>5, <2>6
  <1> QED
    BY <1>4, <1>7, <1>8

\* The pages' steps, for the feed.
LEMMA FeedInvNext == PagesInv /\ PagesInv' /\ FeedInv /\ [PagesNext]_pageVars => FeedInv'
  <1> SUFFICES ASSUME PagesInv, PagesInv', FeedInv, [PagesNext]_pageVars PROVE FeedInv'
    OBVIOUS
  <1>0. /\ RequestsInv /\ RequestsInv' /\ FeedTypeOK /\ FetchInv /\ Known' \subseteq Known
    BY RegistryNext DEF PagesInv, FeedInv
  <1>1. \/ ViewsNext /\ UNCHANGED feedVars /\ Watch
        \/ (AskNews \/ FeedProgress \/ SendFeed) /\ Watch
        \/ UNCHANGED <<viewVars, feedVars, atFirst>>
    BY DEF PagesNext, FeedNext, pageVars
  <1>2. CASE UNCHANGED <<viewVars, feedVars, atFirst>>
    <2>1. UNCHANGED fanVars /\ UNCHANGED <<batch, state, result, got, phase, stage, wire, merged, atFirst>>
      BY <1>2 DEF viewVars, fanVars, feedVars
    <2>2. FetchInv'
      BY <1>0, <2>1 DEF FetchInv
    <2> QED
      BY <1>0, <1>2, <2>1, <2>2, FeedKept
  <1>3. CASE ViewsNext /\ UNCHANGED feedVars /\ Watch
    <2>1. stage' = stage /\ wire' = wire /\ merged' = merged
      BY <1>3 DEF feedVars
    <2>2. stage \in {"tagging", "fetching"} => view = "news" /\ view' = "news"
      BY <1>0, <2>1 DEF FeedTypeOK, Stages, RequestsInv
    <2>3. stage = "tagging" => atFirst' = atFirst
      BY <1>3, <2>2 DEF Watch
    <2>4. stage = "fetching" => \/ UNCHANGED fanVars
                                \/ Iterate
      BY <1>3, <2>2 DEF ViewsNext, Untrack, AskView, AskBrief, Ask, RowProgress, TakeRow, FinishRow,
                        MapItems, SendRows, RowViews
    <2>5. CASE stage = "fetching" /\ Iterate
      <3>1. merged = 0 /\ FetchInv'
        BY <1>3, <2>5, FetchCollects
      <3>2. headlines = <<>> /\ errors = {}
        BY <2>5, <3>1, NoneMerged
      <3>3. UNCHANGED <<stage, wire, merged, headlines, errors>>
        BY <1>3 DEF feedVars
      <3>4. wire' \in Seq(Stories) /\ stage' \in Stages /\ stage' \notin {"none", "wire"}
        BY <1>0, <2>5, <3>3 DEF FeedTypeOK
      <3>5. headlines' = <<>> /\ errors' = {} /\ merged' = 0
        BY <3>1, <3>2, <3>3
      <3> QED
        BY <3>1, <3>4, <3>5, NothingYet
    <2>6. CASE stage = "fetching" /\ UNCHANGED fanVars
      <3>1. UNCHANGED <<batch, state, result, got, phase>>
        BY <2>6 DEF fanVars
      <3>2. FetchInv'
        BY <1>0, <2>1, <3>1 DEF FetchInv
      <3> QED
        BY <1>0, <1>3, <2>3, <3>1, <3>2, FeedKept
    <2>7. CASE stage # "fetching"
      <3>1. FetchInv'
        BY <2>1, <2>7 DEF FetchInv
      <3> QED
        BY <1>0, <1>3, <2>3, <2>7, <3>1, FeedKept
    <2> QED
      BY <2>4, <2>5, <2>6, <2>7
  <1>4. ASSUME NEW list \in Seq(Instruments), \A i, j \in DOMAIN list : list[i] = list[j] => i = j,
               FetchFor(list), stage \in {"none", "wire"},
               UNCHANGED <<wire, merged, headlines, errors>>
        PROVE  FeedInv'
    <2>1. headlines' = <<>> /\ errors' = {} /\ merged' = 0 /\ wire' = <<>>
      BY <1>4 DEF FeedInv
    <2>2. FetchInv' /\ stage' = "fetching"
      BY <1>4, <2>1, FetchBegins
    <2>3. wire' \in Seq(Stories) /\ stage' \in Stages
      BY <2>1, <2>2, EmptySeq DEF Stages
    <2> QED
      BY <2>1, <2>2, <2>3, NothingYet
  <1>5. ASSUME NEW x \in Instruments
        PROVE  <<x>> \in Seq(Instruments) /\ \A i, j \in DOMAIN <<x>> : <<x>>[i] = <<x>>[j] => i = j
    OBVIOUS
  <1>6. CASE AskNews
    <2>1. stage = "none"
      BY <1>0, <1>6 DEF AskNews, RequestsInv
    <2>2. UNCHANGED <<wire, merged, headlines, errors>>
      BY <1>6 DEF AskNews
    <2>3. CASE \E x \in Instruments : FetchFor(<<x>>)
      BY <1>4, <1>5, <2>1, <2>2, <2>3
    <2>4. CASE FetchFor(Targets)
      BY <1>4, <2>1, <2>2, <2>4, TargetsDiffer
    <2>5. CASE stage' = "wire"
      <3>1. headlines' = <<>> /\ errors' = {} /\ merged' = 0 /\ wire' = <<>>
        BY <2>1, <2>2 DEF FeedInv
      <3>2. FetchInv' /\ stage' \in Stages /\ wire' \in Seq(Stories)
        BY <2>5, <3>1, EmptySeq DEF FetchInv, Stages
      <3> QED
        BY <3>1, <3>2, NothingYet
    <2> QED
      BY <1>6, <2>3, <2>4, <2>5 DEF AskNews
  <1>7. CASE WireRaises
    BY <1>4, <1>7, TargetsDiffer DEF WireRaises
  <1>8. CASE WireAnswers
    <2>1. headlines' = <<>> /\ errors' = {} /\ merged' = 0
      BY <1>8 DEF WireAnswers, FeedInv
    <2>2. FetchInv' /\ stage' = "tagging" /\ stage' \in Stages /\ wire' \in Seq(Stories)
      BY <1>8, StoriesAssumption DEF WireAnswers, FetchInv, Stages
    <2> QED
      BY <2>1, <2>2, NothingYet
  <1>9. CASE TagStory /\ Watch
    <2>1. view' = "news"
      BY <1>0, <1>9 DEF TagStory, RequestsInv
    <2>2. atFirst' = atFirst
      BY <1>9, <2>1 DEF Watch
    <2> QED
      BY <1>9, <2>2, StoryTagged
  <1>10. CASE MergeTarget
    BY <1>10, TargetMerged
  <1>11. ASSUME NEW i \in DOMAIN batch, TakeTarget(i) \/ FetchEnds(i) PROVE FeedInv'
    <2>1. merged = 0 /\ FetchInv'
      BY <1>11, FetchWorks
    <2>2. stage = "fetching" /\ UNCHANGED <<stage, wire, merged, headlines, errors>>
      BY <1>11 DEF TakeTarget, FetchEnds, feedVars
    <2>3. headlines = <<>> /\ errors = {}
      BY <2>1, <2>2, NoneMerged
    <2>4. headlines' = <<>> /\ errors' = {} /\ merged' = 0
      BY <2>1, <2>2, <2>3
    <2>5. wire' \in Seq(Stories) /\ stage' \in Stages /\ stage' \notin {"none", "wire"}
      BY <1>0, <2>2 DEF FeedTypeOK
    <2> QED
      BY <2>1, <2>4, <2>5, NothingYet
  <1>12. CASE SendFeed
    <2>1. stage' = "none" /\ headlines' = <<>> /\ errors' = {} /\ merged' = 0 /\ wire' = <<>>
      BY <1>12 DEF SendFeed
    <2>2. FetchInv' /\ stage' \in Stages /\ wire' \in Seq(Stories)
      BY <2>1, EmptySeq DEF FetchInv, Stages
    <2> QED
      BY <2>1, <2>2, NothingYet
  <1> QED
    BY <1>1, <1>2, <1>3, <1>6, <1>7, <1>8, <1>9, <1>10, <1>11, <1>12 DEF FeedProgress

LEMMA FeedInvInit == PagesInit => FeedInv
  <1> SUFFICES ASSUME PagesInit PROVE FeedInv
    OBVIOUS
  <1>1. /\ stage = "none" /\ wire = <<>> /\ merged = 0 /\ headlines = <<>> /\ errors = {}
        /\ view = "none" /\ got = <<>>
    BY DEF PagesInit, FeedInit, ViewsInit, FanInit
  <1>2. /\ wire \in Seq(Stories) /\ headlines \in Seq(Headline) /\ got \in Seq(Results)
        /\ Len(got) = 0 /\ Len(headlines) = 0
    BY <1>1, EmptySeq
  <1>3. DOMAIN headlines = {}
    BY <1>2, LenProperties
  <1>4. FeedTypeOK
    BY <1>1, <1>2 DEF FeedTypeOK, Stages
  <1> QED
    BY <1>1, <1>3, <1>4 DEF FeedInv, DistinctKeys, FetchInv, MergedInv, TaggedInv

LEMMA AlwaysFeedInv == PagesSpec => []FeedInv
<1>1. PagesInv /\ PagesInv' /\ FeedInv /\ [PagesNext]_pageVars => FeedInv'
  BY FeedInvNext
<1> QED
  BY <1>1, FeedInvInit, AlwaysPagesInv, PTL DEF PagesSpec

\* The answer of the feed: newest first, and nothing newer is cut off.
LEMMA FeedRanked ==
    ASSUME FeedInv
    PROVE  /\ \A p, q \in DOMAIN FeedAnswer :
                 p < q => Date[FeedAnswer[p].story] >= Date[FeedAnswer[q].story]
           /\ \A i \in DOMAIN headlines :
                 \/ \E p \in DOMAIN FeedAnswer : FeedAnswer[p] = headlines[i]
                 \/ \A p \in DOMAIN FeedAnswer :
                       Date[FeedAnswer[p].story] >= Date[headlines[i].story]
  <1>a. PICK hs : hs = headlines
    OBVIOUS
  <1>b. PICK k : k = [i \in DOMAIN hs |-> <<Date[hs[i].story], 0>>]
    OBVIOUS
  <1>c. PICK r : r = Ranked(hs, k)
    OBVIOUS
  <1>d. PICK best : best = UpTo(FeedLimit, r)
    OBVIOUS
  <1>e. PICK n, m : n = Len(hs) /\ m = Len(best)
    OBVIOUS
  <1>1. hs \in Seq(Headline) /\ DOMAIN hs = 1 .. n /\ n \in Nat
    BY <1>a, <1>e, LenProperties DEF FeedInv, FeedTypeOK
  <1>2. \A i \in 1 .. n : Date[hs[i].story] \in Int
    <2>1. \A i \in 1 .. n : hs[i] \in Headline
      BY <1>1, <1>e, ElementOfSeq
    <2> QED
      BY <2>1, StoriesAssumption DEF Headline
  <1>3. \A i \in DOMAIN hs : k[i][1] = Date[hs[i].story] /\ k[i][2] = 0
                             /\ k[i][1] \in Int /\ k[i][2] \in Int
    BY <1>b, <1>1, <1>2
  <1>4. /\ r \in Seq(Headline) /\ Len(r) = n /\ DOMAIN r = 1 .. n
        /\ \E e : /\ Embeds(e, r, hs, DOMAIN hs)
                  /\ \A p, q \in DOMAIN hs : p < q => ~ Above(k[e[q]], k[e[p]])
    BY <1>c, <1>e, <1>1, <1>3, RankedInOrder
  <1>5. PICK e : /\ Embeds(e, r, hs, DOMAIN hs)
                 /\ \A p, q \in DOMAIN hs : p < q => ~ Above(k[e[q]], k[e[p]])
    BY <1>4
  <1>6. \A p \in 1 .. n : e[p] \in 1 .. n /\ r[p] = hs[e[p]]
    BY <1>1, <1>4, <1>5 DEF Embeds
  <1>7. \A i \in 1 .. n : \E p \in 1 .. n : e[p] = i
    BY <1>1, <1>4, <1>5 DEF Embeds
  <1>8. \A p, q \in 1 .. n : p < q => Date[r[p].story] >= Date[r[q].story]
    <2> SUFFICES ASSUME NEW p \in 1 .. n, NEW q \in 1 .. n, p < q
                 PROVE  Date[r[p].story] >= Date[r[q].story]
      OBVIOUS
    <2>1. ~ Above(k[e[q]], k[e[p]]) /\ e[p] \in 1 .. n /\ e[q] \in 1 .. n
      BY <1>1, <1>5, <1>6
    <2>2. /\ k[e[p]][1] = Date[hs[e[p]].story] /\ r[p] = hs[e[p]]
          /\ k[e[q]][1] = Date[hs[e[q]].story] /\ r[q] = hs[e[q]]
      BY <1>1, <1>3, <1>6, <2>1
    <2>3. Date[r[p].story] \in Int /\ Date[r[q].story] \in Int
      BY <1>2, <1>6
    <2>4. ~ (k[e[q]][1] > k[e[p]][1])
      BY <2>1 DEF Above
    <2> QED
      BY <2>2, <2>3, <2>4
  <1>9. /\ DOMAIN best = 1 .. m /\ m \in 0 .. n
        /\ m < n => m >= FeedLimit
        /\ \A p \in 1 .. m : best[p] = r[p]
    <2>1. FeedLimit \in Int
      BY StoriesAssumption
    <2> QED
      BY <1>d, <1>e, <1>4, <2>1, UpToPrefix
  <1>10. \A p \in DOMAIN best : p \in 1 .. n
    BY <1>1, <1>9
  <1>11. \A p, q \in DOMAIN best : p < q => Date[best[p].story] >= Date[best[q].story]
    BY <1>8, <1>9, <1>10
  <1>12. ASSUME NEW i \in DOMAIN hs
         PROVE  \/ \E p \in DOMAIN best : best[p] = hs[i]
                \/ \A p \in DOMAIN best : Date[best[p].story] >= Date[hs[i].story]
    <2>1. PICK q \in 1 .. n : e[q] = i
      BY <1>1, <1>7
    <2>2. r[q] = hs[i]
      BY <1>6, <2>1
    <2>3. CASE q <= m
      <3>1. q \in DOMAIN best
        BY <1>9, <2>3
      <3> QED
        BY <1>9, <2>2, <3>1
    <2>4. CASE ~ (q <= m)
      <3>1. \A p \in DOMAIN best : p < q /\ best[p] = r[p]
        BY <1>1, <1>9, <2>4
      <3> QED
        BY <1>8, <1>10, <2>2, <3>1
    <2> QED
      BY <2>3, <2>4
  <1>13. FeedAnswer = best
    BY <1>a, <1>b, <1>c, <1>d DEF FeedAnswer, RankDesc
  <1> QED
    BY <1>a, <1>11, <1>12, <1>13

\* The errors of a feed whose targets are all merged.
LEMMA FeedFails ==
    ASSUME PagesInv, FeedInv, stage = "fetching", phase = "returned", merged = Len(got)
    PROVE  FeedRaises <=> batch # <<>> /\ \A t \in DOMAIN got : ~ got[t].ok
  <1>a. PICK n : n = Len(batch)
    OBVIOUS
  <1>b. PICK bad : bad = {t \in 1 .. n : ~ got[t].ok}
    OBVIOUS
  <1>1. /\ merged = n /\ n \in Nat /\ DOMAIN got = 1 .. n /\ DOMAIN batch = 1 .. n
        /\ \A t \in 1 .. n : FetchedFor(batch[t], got[t])
        /\ \A t, u \in 1 .. n : batch[t] = batch[u] => t = u
    BY <1>a, TargetsAreIn
  <1>2. errors = {got[t].of : t \in bad} /\ \A t \in bad : got[t].of = batch[t]
    <2>1. errors = {got[t].of : t \in {u \in 1 .. merged : ~ got[u].ok}}
      BY DEF FeedInv, MergedInv
    <2> QED
      BY <1>b, <1>1, <2>1 DEF FetchedFor
  <1>3. bad \in SUBSET (1 .. n) /\ IsFiniteSet(1 .. n) /\ Cardinality(1 .. n) = n
    BY <1>b, <1>1, FS_Interval
  <1>4. IsFiniteSet(bad) /\ (Cardinality(bad) = n => bad = 1 .. n)
    BY <1>3, FS_Subset
  <1>5. Cardinality(errors) = Cardinality(bad)
    <2>1. errors = {batch[t] : t \in bad}
      BY <1>2
    <2>2. \A t, u \in bad : batch[t] = batch[u] => t = u
      BY <1>1, <1>3
    <2> QED
      BY <1>4, <2>1, <2>2, ImageCardinality
  <1>6. ASSUME FeedRaises PROVE batch # <<>> /\ \A t \in DOMAIN got : ~ got[t].ok
    <2>1. Cardinality(bad) = n /\ errors # {}
      BY <1>5, <1>6, <1>a DEF FeedRaises
    <2>2. bad = 1 .. n /\ bad # {}
      BY <1>2, <1>4, <2>1
    <2>3. \A t \in DOMAIN got : ~ got[t].ok
      BY <1>b, <1>1, <2>2
    <2>4. batch # <<>>
      BY <1>1, <2>2
    <2> QED
      BY <2>3, <2>4
  <1>7. ASSUME batch # <<>>, \A t \in DOMAIN got : ~ got[t].ok PROVE FeedRaises
    <2>1. bad = 1 .. n
      BY <1>b, <1>1, <1>7
    <2>2. n > 0
      <3>1. batch \in Seq(Instruments)
        BY DEF PagesInv, RequestsInv
      <3> QED
        BY <1>a, <1>1, <1>7, <3>1, EmptySeq
    <2>3. errors # {}
      BY <1>1, <1>2, <2>1, <2>2
    <2>4. \A i \in DOMAIN headlines : FALSE
      BY <1>1, <1>7 DEF FeedInv, MergedInv
    <2>5. headlines = <<>>
      <3>1. headlines \in Seq(Headline)
        BY DEF FeedInv, FeedTypeOK
      <3>2. DOMAIN headlines = 1 .. Len(headlines) /\ Len(headlines) \in Nat
        BY <3>1, LenProperties
      <3>3. Len(headlines) = 0
        BY <2>4, <3>2
      <3> QED
        BY <3>1, <3>3, EmptySeq
    <2>6. Cardinality(errors) = Len(batch)
      BY <1>a, <1>3, <1>5, <2>1
    <2> QED
      BY <2>3, <2>5, <2>6 DEF FeedRaises
  <1> QED
    BY <1>6, <1>7

\* feed(): however its wires overlap, fail and are empty, and whatever becomes of the
\* registry, the loop over their answers and _dedupe_sorted keep every story once
\* with the tags of those that carried it, sorted, and only if all of them have
\* failed is it an error.
THEOREM FeedsAreWhole == PagesSpec => []FeedIsWhole
<1>1. PagesInv /\ FeedInv => FeedIsWhole
  <2> SUFFICES ASSUME PagesInv, FeedInv, FeedEnds PROVE HeadlinesMerged /\ FailsOnlyAsAWhole
    BY DEF FeedIsWhole
  <2>1. stage = "fetching" => phase = "returned" /\ merged = Len(got)
    BY DEF FeedEnds
  <2>2. stage = "fetching" => DOMAIN got = 1 .. merged
    BY <2>1, TargetsAreIn
  <2>3. \A i, j \in DOMAIN headlines : Key[headlines[i].story] = Key[headlines[j].story] => i = j
    BY DEF FeedInv, DistinctKeys
  <2>4. stage = "fetching" =>
           /\ \A t \in DOMAIN got : \A j \in DOMAIN got[t].raw :
                 Key[got[t].raw[j]] # NoKey =>
                     \E i \in DOMAIN headlines :
                        /\ HasKey(headlines[i].story, got[t].raw[j])
                        /\ got[t].of \in headlines[i].tags
           /\ \A i \in DOMAIN headlines : \A x \in headlines[i].tags :
                 \E t \in DOMAIN got :
                    /\ got[t].of = x
                    /\ \E n \in Carried(t) : HasKey(headlines[i].story, n)
    BY <2>2 DEF FeedInv, MergedInv
  <2>5. stage = "tagging" => \A i \in DOMAIN headlines :
           LET mentioned == Mentions[headlines[i].story]
           IN  /\ headlines[i].tags \subseteq mentioned \cap atFirst
               /\ mentioned \cap Known \subseteq headlines[i].tags
    BY DEF FeedInv, TaggedInv
  <2>6. PICK answer : answer = FeedAnswer
    OBVIOUS
  <2>7. /\ \A p, q \in DOMAIN answer : p < q => Date[answer[p].story] >= Date[answer[q].story]
        /\ \A i \in DOMAIN headlines :
              \/ \E p \in DOMAIN answer : answer[p] = headlines[i]
              \/ \A p \in DOMAIN answer : Date[answer[p].story] >= Date[headlines[i].story]
    BY <2>6, FeedRanked
  <2>8. HeadlinesMerged
    BY <2>3, <2>4, <2>5, <2>6, <2>7 DEF HeadlinesMerged
  <2>9. FailsOnlyAsAWhole
    BY <2>1, FeedFails DEF FailsOnlyAsAWhole
  <2> QED
    BY <2>8, <2>9
<1> QED
  BY <1>1, AlwaysPagesInv, AlwaysFeedInv, PTL

-----------------------------------------------------------------------------
(* The types.                                                              *)

\* The variables of all pages have their types: with that what the pool, the walk,
\* the merge and the rankings return is what their callers expect.
THEOREM PagesTypes == PagesSpec => []PagesTypeOK
<1>1. PagesInv /\ FeedInv /\ WalkInv /\ HitsInv /\ CurveInv /\ SearchInv => PagesTypeOK
  BY DEF PagesInv, FeedInv, WalkInv, HitsInv, CurveInv, SearchInv, PagesTypeOK, ScanTypeOK
<1> QED
  BY <1>1, AlwaysPagesInv, AlwaysFeedInv, AlwaysWalkInv, AlwaysHitsInv, AlwaysCurveInv,
     AlwaysSearchInv, PTL
=============================================================================
