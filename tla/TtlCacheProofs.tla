-------------------------- MODULE TtlCacheProofs --------------------------
(***************************************************************************)
(* Proofs about TtlCache for any set of threads and keys, any TTLs and any *)
(* length of time: the types of its variables, the freshness of its        *)
(* answers, that every step of it is a step of FreshRead or leaves         *)
(* FreshRead's variables alone, and how often one TTL of a key is paid for *)
(* (CacheLoad).                                                            *)
(***************************************************************************)
EXTENDS CacheLoad, TLAPS, FiniteSetTheorems

LEMMA InitFresh == Init => FreshInv
  BY MaxTimeAssumption
  DEF Init, FreshInv, TypeOK, AnswersAreFresh, EntriesExpire, PendingIsFresh, Ended, Running

\* The clock: every instant that was not in the future stays so.
LEMMA TickFresh == FreshInv /\ Tick => FreshInv'
  <1> SUFFICES ASSUME FreshInv, Tick PROVE FreshInv'
    OBVIOUS
  <1> USE DEF FreshInv, Tick
  <1>1. TypeOK'
    BY DEF TypeOK
  <1>2. AnswersAreFresh'
    BY TtlAssumption, LagAssumption DEF AnswersAreFresh, FreshAt, TypeOK
  <1>3. EntriesExpire'
    BY DEF EntriesExpire, TypeOK, Entry
  <1>4. PendingIsFresh'
    BY DEF PendingIsFresh, TypeOK
  <1> QED
    BY <1>1, <1>2, <1>3, <1>4

LEMMA BeginFresh ==
    ASSUME FreshInv, NEW c \in Callers, NEW k \in Keys, Begin(c, k)
    PROVE  FreshInv'
  <1> USE DEF FreshInv, Begin
  <1>1. TypeOK'
    BY DEF TypeOK, Ended, Running
  <1>2. AnswersAreFresh'
    BY DEF AnswersAreFresh, FreshAt, TypeOK, Ended, Running
  <1>3. EntriesExpire'
    BY DEF EntriesExpire
  <1>4. PendingIsFresh'
    BY DEF PendingIsFresh, TypeOK, Ended, Running
  <1> QED
    BY <1>1, <1>2, <1>3, <1>4

\* A hit: the entry outlives the instant of the call, so its value is less than
\* a TTL and a lag older than that instant.
LEMMA LookupFresh ==
    ASSUME FreshInv, NEW c \in Callers, Lookup(c)
    PROVE  FreshInv'
  <1> USE DEF FreshInv, Lookup
  <1> DEFINE e == store[key[c]]
  <1>1. key[c] \in Keys /\ e \in Entry \cup {NoEntry}
    BY DEF TypeOK
  <1>2. Live(e, start[c]) => FreshAt(key[c], e.value, start[c]) /\ e.value <= now
    BY <1>1, NoEntryAssumption, TtlAssumption, LagAssumption
    DEF Live, EntriesExpire, FreshAt, TypeOK, Entry
  <1>3. TypeOK'
    BY <1>1, NoEntryAssumption DEF TypeOK, Live, Entry, Ended, Running
  <1>4. AnswersAreFresh'
    BY <1>1, <1>2 DEF AnswersAreFresh, FreshAt, TypeOK, Ended, Running
  <1>5. EntriesExpire'
    BY DEF EntriesExpire
  <1>6. PendingIsFresh'
    BY DEF PendingIsFresh, TypeOK, Ended, Running
  <1> QED
    BY <1>3, <1>4, <1>5, <1>6

LEMMA ProducedFresh ==
    ASSUME FreshInv, NEW c \in Callers, NEW v \in Producible(c), Produced(c, v)
    PROVE  FreshInv'
  <1> USE DEF FreshInv, Produced
  <1>1. v \in Int /\ v + Lag[key[c]] >= start[c] /\ v <= now
    BY LagAssumption DEF Producible, TypeOK
  <1>2. TypeOK'
    BY <1>1 DEF TypeOK, Ended, Running
  <1>3. AnswersAreFresh'
    BY DEF AnswersAreFresh, FreshAt, TypeOK, Ended, Running
  <1>4. EntriesExpire'
    BY DEF EntriesExpire
  <1>5. PendingIsFresh'
    BY <1>1 DEF PendingIsFresh, TypeOK, Ended, Running
  <1> QED
    BY <1>2, <1>3, <1>4, <1>5

LEMMA ProducerRaisesFresh ==
    ASSUME FreshInv, NEW c \in Callers, ProducerRaises(c)
    PROVE  FreshInv'
  <1> USE DEF FreshInv, ProducerRaises
  <1>1. TypeOK'
    BY DEF TypeOK, Ended, Running
  <1>2. AnswersAreFresh'
    BY DEF AnswersAreFresh, FreshAt, TypeOK, Ended, Running
  <1>3. EntriesExpire'
    BY DEF EntriesExpire
  <1>4. PendingIsFresh'
    BY DEF PendingIsFresh, TypeOK, Ended, Running
  <1> QED
    BY <1>1, <1>2, <1>3, <1>4

\* A fill: the expiry counts from the start of the call, and the value is as
\* good as one fetched at that instant.
LEMMA StoreFresh ==
    ASSUME FreshInv, NEW c \in Callers, Store(c)
    PROVE  FreshInv'
  <1> USE DEF FreshInv, Store
  <1>1. /\ key[c] \in Keys
        /\ value[c] \in Int
        /\ value[c] + Lag[key[c]] >= start[c]
        /\ value[c] <= now
        /\ start[c] \in Nat
        /\ Ttl[key[c]] \in Nat
        /\ Lag[key[c]] \in Nat
        /\ now \in Nat
    BY TtlAssumption, LagAssumption DEF PendingIsFresh, TypeOK
  <1>2. NewEntry(c) \in Entry
    BY <1>1 DEF NewEntry, Entry
  <1>3. TypeOK'
    BY <1>2 DEF TypeOK, Ended, Running
  <1>4. AnswersAreFresh'
    BY <1>1 DEF AnswersAreFresh, FreshAt, TypeOK, Ended, Running
  <1>5. EntriesExpire'
    <2>1. NewEntry(c).expires <= NewEntry(c).value + Lag[key[c]] + Ttl[key[c]]
      BY <1>1 DEF NewEntry
    <2>2. NewEntry(c).value <= now
      BY <1>1 DEF NewEntry
    <2> QED
      BY <2>1, <2>2, <1>1 DEF EntriesExpire, TypeOK
  <1>6. PendingIsFresh'
    BY DEF PendingIsFresh, TypeOK, Ended, Running
  <1> QED
    BY <1>3, <1>4, <1>5, <1>6

LEMMA StepFresh == FreshInv /\ [Next]_vars => FreshInv'
  <1> SUFFICES ASSUME FreshInv, [Next]_vars PROVE FreshInv'
    OBVIOUS
  <1>1. CASE Tick
    BY <1>1, TickFresh
  <1>2. ASSUME NEW c \in Callers, Call(c) PROVE FreshInv'
    BY <1>2, BeginFresh, LookupFresh, ProducedFresh, ProducerRaisesFresh, StoreFresh
    DEF Call
  <1>3. CASE UNCHANGED vars
    BY <1>3
    DEF vars, FreshInv, TypeOK, AnswersAreFresh, FreshAt, EntriesExpire, PendingIsFresh
  <1> QED
    BY <1>1, <1>2, <1>3 DEF Next

LEMMA AlwaysFreshInv == SafeSpec => []FreshInv
  <1>1. Init => FreshInv
    BY InitFresh
  <1>2. FreshInv /\ [Next]_vars => FreshInv'
    BY StepFresh
  <1> QED
    BY <1>1, <1>2, PTL DEF SafeSpec

\* The variables of get_or_set and of the store keep their types.
THEOREM TypeCorrect == Spec => []TypeOK
  <1>1. FreshInv => TypeOK
    BY DEF FreshInv
  <1> QED
    BY <1>1, AlwaysFreshInv, PTL DEF Spec

\* No call of get_or_set answers with data that was more than one TTL and one
\* lag old when the call was made, whatever the threads, TTLs and interleaving.
THEOREM Freshness == Spec => []AnswersAreFresh
  <1>1. FreshInv => AnswersAreFresh
    BY DEF FreshInv
  <1> QED
    BY <1>1, AlwaysFreshInv, PTL DEF Spec

-----------------------------------------------------------------------------
(* Refinement.                                                             *)

\* One lemma per step, each saying which step of FreshRead it is.
LEMMA InitMaps == Init => Abstract!Init
  BY DEF Init, Abstract!Init, Phase

LEMMA TickMaps == Tick => Abstract!Tick
  BY DEF Tick, Abstract!Tick

LEMMA BeginMaps ==
    ASSUME TypeOK, NEW c \in Callers, NEW k \in Keys, Begin(c, k)
    PROVE  Abstract!Ask(c, k)
  BY DEF Begin, TypeOK, Abstract!Ask, Phase, Ended, Running

\* Data that was not older than a TTL and a lag at the call is data FreshRead
\* may answer with.
LEMMA FreshIsAllowed ==
    ASSUME TypeOK, NEW c \in Callers, NEW v \in Int, v <= now,
           FreshAt(key[c], v, start[c])
    PROVE  v \in (start[c] - (Ttl[key[c]] + Lag[key[c]])) .. now
  BY TtlAssumption, LagAssumption DEF TypeOK, FreshAt

LEMMA LookupMaps ==
    ASSUME FreshInv, NEW c \in Callers, Lookup(c)
    PROVE  Abstract!Answer(c) \/ UNCHANGED Abstract!vars
  <1> DEFINE e == store[key[c]]
  <1>1. TypeOK /\ TypeOK'
    BY LookupFresh DEF FreshInv
  <1>2. CASE Live(e, start[c])
    <2>1. /\ pc[c] = "looking"
          /\ pc' = [pc EXCEPT ![c] = "done"]
          /\ value' = [value EXCEPT ![c] = e.value]
          /\ UNCHANGED <<now, store, key, start>>
      BY <1>2 DEF Lookup
    <2>2. e.value \in Int /\ e.value <= now /\ FreshAt(key[c], e.value, start[c])
      BY <1>1, <1>2, NoEntryAssumption, TtlAssumption, LagAssumption
      DEF FreshInv, Live, EntriesExpire, FreshAt, TypeOK, Entry
    <2>3. e.value \in (start[c] - (Ttl[key[c]] + Lag[key[c]])) .. now
      BY <1>1, <2>2, FreshIsAllowed
    <2> QED
      BY <1>1, <2>1, <2>3 DEF Abstract!Answer, TypeOK, Phase
  <1>3. CASE ~ Live(e, start[c])
    <2>1. /\ pc[c] = "looking"
          /\ pc' = [pc EXCEPT ![c] = "producing"]
          /\ UNCHANGED <<now, store, key, start, value>>
      BY <1>3 DEF Lookup
    <2> QED
      BY <1>1, <2>1 DEF Abstract!vars, TypeOK, Phase
  <1> QED
    BY <1>2, <1>3

LEMMA ProducedMaps ==
    ASSUME TypeOK, NEW c \in Callers, NEW v, Produced(c, v)
    PROVE  UNCHANGED Abstract!vars
  BY DEF Produced, TypeOK, Abstract!vars, Phase

LEMMA ProducerRaisesMaps ==
    ASSUME TypeOK, NEW c \in Callers, ProducerRaises(c)
    PROVE  Abstract!Fail(c)
  BY DEF ProducerRaises, TypeOK, Abstract!Fail, Phase

LEMMA StoreMaps ==
    ASSUME FreshInv, NEW c \in Callers, Store(c)
    PROVE  Abstract!Answer(c)
  <1>1. TypeOK /\ pc[c] = "storing"
    BY DEF FreshInv, Store
  <1>2. value[c] \in Int /\ value[c] <= now /\ FreshAt(key[c], value[c], start[c])
    BY <1>1 DEF FreshInv, PendingIsFresh, FreshAt, TypeOK
  <1>3. value[c] \in (start[c] - (Ttl[key[c]] + Lag[key[c]])) .. now
    BY <1>1, <1>2, FreshIsAllowed
  <1> QED
    BY <1>1, <1>3 DEF Store, TypeOK, Abstract!Answer, Phase

LEMMA StepMaps == FreshInv /\ [Next]_vars => [Abstract!Next]_(Abstract!vars)
  <1> SUFFICES ASSUME FreshInv, [Next]_vars
               PROVE  Abstract!Next \/ UNCHANGED Abstract!vars
    OBVIOUS
  <1>1. CASE Tick
    BY <1>1, TickMaps DEF Abstract!Next
  <1>2. ASSUME NEW c \in Callers, Call(c)
        PROVE  Abstract!Next \/ UNCHANGED Abstract!vars
    <2>1. TypeOK
      BY DEF FreshInv
    <2>2. CASE \E k \in Keys : Begin(c, k)
      BY <2>1, <2>2, BeginMaps DEF Abstract!Next
    <2>3. CASE Lookup(c)
      BY <2>3, LookupMaps DEF Abstract!Next
    <2>4. CASE \E v \in Producible(c) : Produced(c, v)
      BY <2>1, <2>4, ProducedMaps
    <2>5. CASE ProducerRaises(c)
      BY <2>1, <2>5, ProducerRaisesMaps DEF Abstract!Next
    <2>6. CASE Store(c)
      BY <2>6, StoreMaps DEF Abstract!Next
    <2> QED
      BY <1>2, <2>2, <2>3, <2>4, <2>5, <2>6 DEF Call
  <1>3. CASE UNCHANGED vars
    BY <1>3 DEF vars, Abstract!vars, Phase
  <1> QED
    BY <1>1, <1>2, <1>3 DEF Next

\* Every behaviour of the cache is, for its callers, a behaviour of FreshRead
\* (its safety part: the liveness part is model-checked).
THEOREM Refinement == SafeSpec => Abstract!SafeSpec
  <1>1. Init => Abstract!Init
    BY InitMaps
  <1>2. FreshInv /\ [Next]_vars => [Abstract!Next]_(Abstract!vars)
    BY StepMaps
  <1> QED
    BY <1>1, <1>2, AlwaysFreshInv, PTL DEF SafeSpec, Abstract!SafeSpec

-----------------------------------------------------------------------------
(* The load.                                                               *)

LEMMA Triangle ==
    ASSUME NEW i \in Nat, NEW j \in Nat, i <= j
    PROVE  /\ i * (i + 1) <= j * (j + 1)
           /\ i * (i + 1) - 2 * i <= j * (j + 1) - 2 * j
  <1>1. PICK d \in Nat : j = i + d
    BY j - i \in Nat, j = i + (j - i)
  <1>2. /\ j * (j + 1) = i * (i + 1) + 2 * (i * d) + d * d + d
        /\ i * d \in Nat
        /\ d * d \in Nat
        /\ d * d >= d
    BY <1>1
  <1> QED
    BY <1>1, <1>2

LEMMA BudgetGrows ==
    ASSUME NEW f \in Nat, NEW p \in Nat, NEW q \in Nat, NEW i \in Nat, NEW j \in Nat,
           i <= j
    PROVE  /\ q <= p /\ 2 * (f + p) <= i * (i + 1) => 2 * (f + q) <= j * (j + 1)
           /\ 2 * (f + i) <= i * (i + 1) => 2 * (f + j) <= j * (j + 1)
  <1> DEFINE a == i * (i + 1)
             b == j * (j + 1)
  <1>1. a \in Nat /\ b \in Nat /\ a <= b /\ a - 2 * i <= b - 2 * j
    BY Triangle
  <1> HIDE DEF a, b
  <1>2. /\ q <= p /\ 2 * (f + p) <= a => 2 * (f + q) <= b
        /\ 2 * (f + i) <= a => 2 * (f + j) <= b
    BY <1>1
  <1> QED
    BY <1>2 DEF a, b

LEMMA OneThreadMore ==
    ASSUME NEW m \in Nat
    PROVE  (m + 1) * (m + 2) = m * (m + 1) + 2 * (m + 1)
  OBVIOUS

LEMMA SetsCounted ==
    ASSUME NEW L, NEW M, M \subseteq Callers \ L
    PROVE  /\ IsFiniteSet(M) /\ IsFiniteSet(Callers \ L)
           /\ Cardinality(Callers \ L) \in Nat
           /\ Cardinality(M) \in Nat
           /\ Cardinality(M) <= Cardinality(Callers \ L)
           /\ Cardinality(Callers \ L) <= Cardinality(Callers)
           /\ Cardinality(Callers) \in Nat
  <1>1. /\ IsFiniteSet(Callers \ L)
        /\ Cardinality(Callers \ L) <= Cardinality(Callers)
    BY CallersAssumption, FS_Subset
  <1>2. IsFiniteSet(M) /\ Cardinality(M) <= Cardinality(Callers \ L)
    BY <1>1, FS_Subset
  <1> QED
    BY <1>1, <1>2, CallersAssumption, FS_CardinalityType

\* A call that has missed in the period is not left over from before it.
LEMMA ThreadsCounted ==
    ASSUME FreshInv, from \in Int
    PROVE  /\ IsFiniteSet(Missed) /\ IsFiniteSet(Callers \ Leftover)
           /\ Cardinality(Callers \ Leftover) \in Nat
           /\ Cardinality(Missed) \in Nat
           /\ Cardinality(Missed) <= Cardinality(Callers \ Leftover)
           /\ Cardinality(Callers \ Leftover) <= Cardinality(Callers)
           /\ Cardinality(Callers) \in Nat
  <1>1. Missed \subseteq Callers \ Leftover
    BY TtlAssumption, WatchedAssumption DEF Missed, Leftover, InPeriod, FreshInv, TypeOK
  <1> QED
    BY <1>1, SetsCounted

LEMMA ThreadsCountedNext ==
    ASSUME FreshInv', from' \in Int
    PROVE  /\ IsFiniteSet(Missed') /\ IsFiniteSet(Callers \ Leftover')
           /\ Cardinality(Callers \ Leftover') \in Nat
           /\ Cardinality(Missed') \in Nat
           /\ Cardinality(Missed') <= Cardinality(Callers \ Leftover')
  <1>1. Missed' \subseteq Callers \ Leftover'
    BY TtlAssumption, WatchedAssumption DEF Missed, Leftover, InPeriod, FreshInv, TypeOK
  <1> QED
    BY <1>1, SetsCounted

\* The two ways in which a step respects the budget.  Either it adds no call
\* that is to be paid for, or only while the entry does not serve ...
LEMMA StayWithin ==
    ASSUME FreshInv, FreshInv', LoadTypeOK, FillBudget,
           fills' = fills, from' = from,
           Leftover' \subseteq Leftover,
           Serves' <=> Serves,
           Serves => Missed' \subseteq Missed
    PROVE  FillBudget'
  <1> DEFINE m == Cardinality(Callers \ Leftover)
             p == Cardinality(Missed)
  <1>1. m \in Nat /\ m' \in Nat /\ p \in Nat /\ p' \in Nat /\ fills \in Nat
    BY ThreadsCounted, ThreadsCountedNext DEF LoadTypeOK
  <1>2. m <= m'
    <2>1. Callers \ Leftover \in SUBSET (Callers \ Leftover')
      OBVIOUS
    <2> QED
      BY <2>1, ThreadsCountedNext, FS_Subset DEF LoadTypeOK
  <1>3. Serves => p' <= p
    BY ThreadsCounted, FS_Subset DEF LoadTypeOK
  <1> HIDE DEF m, p
  <1>4. from # -1 =>
          /\ Serves => 2 * (fills + p) <= m * (m + 1)
          /\ ~ Serves => 2 * (fills + m) <= m * (m + 1)
    BY DEF FillBudget, m, p
  <1>5. /\ p' <= p /\ 2 * (fills + p) <= m * (m + 1) => 2 * (fills + p') <= m' * (m' + 1)
        /\ 2 * (fills + m) <= m * (m + 1) => 2 * (fills + m') <= m' * (m' + 1)
    BY <1>1, <1>2, BudgetGrows
  <1>6. from # -1 =>
          /\ Serves => 2 * (fills + p') <= m' * (m' + 1)
          /\ ~ Serves => 2 * (fills + m') <= m' * (m' + 1)
    BY <1>3, <1>4, <1>5
  <1> QED
    BY <1>6 DEF FillBudget, m, p

\* ... or it leaves an entry that serves, and what it has paid for is one call
\* less to pay for.
LEMMA ServeWithin ==
    ASSUME FreshInv, FreshInv', LoadTypeOK, FillBudget, fills' \in Nat, from' = from,
           Leftover' = Leftover, Serves',
           fills' + Cardinality(Missed') = fills + Cardinality(Missed)
    PROVE  FillBudget'
  <1> DEFINE m == Cardinality(Callers \ Leftover)
             p == Cardinality(Missed)
  <1>1. m \in Nat /\ p \in Nat /\ p' \in Nat /\ fills \in Nat /\ p <= m
    BY ThreadsCounted, ThreadsCountedNext DEF LoadTypeOK
  <1>2. m * (m + 1) \in Nat
    BY <1>1
  <1> HIDE DEF m, p
  <1>3. from # -1 =>
          /\ Serves => 2 * (fills + p) <= m * (m + 1)
          /\ ~ Serves => 2 * (fills + m) <= m * (m + 1)
    BY DEF FillBudget, m, p
  <1>4. from # -1 => 2 * (fills' + p') <= m * (m + 1)
    <2> SUFFICES ASSUME from # -1 PROVE 2 * (fills + p) <= m * (m + 1)
      BY DEF p
    <2>1. CASE Serves
      BY <1>3, <2>1
    <2>2. CASE ~ Serves
      BY <1>1, <1>2, <1>3, <2>2
    <2> QED
      BY <2>1, <2>2
  <1> QED
    BY <1>4 DEF FillBudget, m, p

\* A call that is left over ends the entry's service, and is over itself.
LEMMA LeftoverWithin ==
    ASSUME FreshInv, FreshInv', LoadTypeOK, FillBudget, fills' = fills, from' = from,
           NEW c \in Leftover, Leftover' = Leftover \ {c}, ~ Serves'
    PROVE  FillBudget'
  <1> DEFINE m == Cardinality(Callers \ Leftover)
             p == Cardinality(Missed)
  <1>1. m \in Nat /\ p \in Nat /\ fills \in Nat
    BY ThreadsCounted DEF LoadTypeOK
  <1>2. m' = m + 1
    <2>1. Callers \ Leftover' = (Callers \ Leftover) \cup {c} /\ c \notin Callers \ Leftover
      BY DEF Leftover
    <2>2. IsFiniteSet(Callers \ Leftover)
      BY ThreadsCounted DEF LoadTypeOK
    <2>3. Cardinality((Callers \ Leftover) \cup {c}) = Cardinality(Callers \ Leftover) + 1
      BY <2>1, <2>2, FS_AddElement
    <2> QED
      BY <2>1, <2>3
  <1>3. m * (m + 1) \in Nat /\ (m + 1) * (m + 2) = m * (m + 1) + 2 * (m + 1)
    BY <1>1, OneThreadMore
  <1> HIDE DEF m, p
  <1>4. from # -1 =>
          /\ Serves => 2 * (fills + p) <= m * (m + 1)
          /\ ~ Serves => 2 * (fills + m) <= m * (m + 1)
    BY DEF FillBudget, m, p
  <1>5. from # -1 => 2 * (fills + (m + 1)) <= (m + 1) * (m + 2)
    BY <1>1, <1>3, <1>4
  <1>6. (m + 1) + 1 = m + 2
    BY <1>1
  <1> QED
    BY <1>2, <1>5, <1>6 DEF FillBudget, m, p

LEMMA InitLoad == LoadInit => LoadInv
  BY InitFresh, MaxTimeAssumption DEF LoadInit, Init, LoadInv, LoadTypeOK, FillBudget

\* The period begins: no thread has missed more than once.
LEMMA WatchLoad == LoadInv /\ Watch => LoadInv'
  <1> SUFFICES ASSUME LoadInv, Watch PROVE LoadInv'
    OBVIOUS
  <1>1. FreshInv'
    BY DEF Watch, LoadInv, vars, FreshInv, TypeOK, AnswersAreFresh, FreshAt,
           EntriesExpire, PendingIsFresh
  <1>2. LoadTypeOK'
    BY DEF Watch, vars, LoadInv, LoadTypeOK, FreshInv, TypeOK
  <1>3. FillBudget'
    <2> DEFINE m == Cardinality(Callers \ Leftover')
               p == Cardinality(Missed')
    <2>1. m \in Nat /\ p \in Nat /\ p <= m
      BY <1>1, <1>2, ThreadsCountedNext DEF LoadTypeOK
    <2>2. fills' = 0
      BY DEF Watch, LoadInv, LoadTypeOK
    <2>3. m * (m + 1) >= 2 * m
      <3>1. CASE m = 0
        BY <3>1
      <3>2. CASE m # 0
        BY <3>2, <2>1, 1 <= m, Triangle
      <3> QED
        BY <3>1, <3>2
    <2> HIDE DEF m, p
    <2>4. 2 * (0 + p) <= m * (m + 1) /\ 2 * (0 + m) <= m * (m + 1)
      BY <2>1, <2>3
    <2> QED
      BY <2>2, <2>4 DEF FillBudget, m, p
  <1> QED
    BY <1>1, <1>2, <1>3 DEF LoadInv

LEMMA TickLoad == LoadInv /\ Tick /\ UNCHANGED <<from, fills>> => LoadInv'
  <1> SUFFICES ASSUME LoadInv, Tick, UNCHANGED <<from, fills>> PROVE LoadInv'
    OBVIOUS
  <1>1. FreshInv'
    BY TickFresh DEF LoadInv
  <1>2. LoadTypeOK'
    BY DEF Tick, LoadInv, LoadTypeOK, FreshInv, TypeOK
  <1>3. FillBudget'
    BY DEF Tick, LoadInv, FillBudget, Leftover, Missed, InPeriod, Serves
  <1> QED
    BY <1>1, <1>2, <1>3 DEF LoadInv

\* A call that begins is not left over; one that ends without a fill is not to be
\* paid for; and one that misses does so because the entry does not serve.
LEMMA UncountedLoad ==
    ASSUME LoadInv, NEW c \in Callers, Uncounted(c)
    PROVE  LoadInv'
  <1>1. FreshInv'
    BY BeginFresh, LookupFresh, ProducedFresh, ProducerRaisesFresh DEF LoadInv, Uncounted
  <1>2. now' = now /\ from' = from /\ fills' = fills /\ store' = store
    BY DEF Uncounted, Begin, Lookup, Produced, ProducerRaises
  <1>3. LoadTypeOK'
    BY <1>2 DEF LoadInv, LoadTypeOK
  <1>4. Serves' <=> Serves
    BY <1>2 DEF Serves
  <1>5. Leftover' \subseteq Leftover /\ (Serves => Missed' \subseteq Missed)
    <2> USE DEF LoadInv, FreshInv, TypeOK
    <2>1. CASE \E k \in Keys : Begin(c, k)
      <3>1. PICK k \in Keys : Begin(c, k)
        BY <2>1
      <3>2. Leftover' \subseteq Leftover
        BY <1>2, <3>1 DEF Begin, Leftover, Running, LoadTypeOK
      <3>3. Missed' \subseteq Missed
        BY <1>2, <3>1 DEF Begin, Missed, InPeriod
      <3> QED
        BY <3>2, <3>3
    <2>2. CASE Lookup(c)
      <3>1. Leftover' \subseteq Leftover
        BY <1>2, <2>2 DEF Lookup, Leftover, Running
      <3>2. Serves /\ InPeriod(c) => Live(store[key[c]], start[c])
        BY TtlAssumption, WatchedAssumption, NoEntryAssumption
        DEF Serves, InPeriod, Live, LoadTypeOK, Entry
      <3>3. ASSUME Serves PROVE Missed' \subseteq Missed
        <4>1. \A d \in Callers : InPeriod(d)' <=> InPeriod(d)
          BY <1>2, <2>2 DEF Lookup, InPeriod
        <4>2. \A d \in Callers : d # c => pc'[d] = pc[d]
          BY <2>2 DEF Lookup
        <4>3. InPeriod(c) => pc'[c] = "done"
          BY <2>2, <3>2, <3>3 DEF Lookup
        <4> QED
          BY <4>1, <4>2, <4>3 DEF Missed
      <3> QED
        BY <3>1, <3>3
    <2>3. CASE \E v \in Producible(c) : Produced(c, v)
      BY <1>2, <2>3 DEF Produced, Leftover, Running, Missed, InPeriod
    <2>4. CASE ProducerRaises(c)
      BY <1>2, <2>4 DEF ProducerRaises, Leftover, Running, Missed, InPeriod
    <2> QED
      BY <2>1, <2>2, <2>3, <2>4 DEF Uncounted
  <1>6. FillBudget'
    BY <1>1, <1>2, <1>4, <1>5, StayWithin DEF LoadInv
  <1> QED
    BY <1>1, <1>3, <1>6 DEF LoadInv

\* A fill: of another key, by a call of the period, by one left over from before
\* it, or by one that came after it.
LEMMA StoreLoad ==
    ASSUME LoadInv, NEW c \in Callers, CountedStore(c)
    PROVE  LoadInv'
  <1>1. FreshInv'
    BY StoreFresh DEF LoadInv, CountedStore
  <1>2. /\ pc[c] = "storing" /\ pc' = [pc EXCEPT ![c] = "done"]
        /\ store' = [store EXCEPT ![key[c]] = NewEntry(c)]
        /\ from' = from
        /\ fills' = IF InPeriod(c) THEN fills + 1 ELSE fills
        /\ UNCHANGED <<now, key, start, value>>
    BY DEF CountedStore, Store
  <1>3. LoadTypeOK'
    <2>1. InPeriod(c) => from # -1
      BY DEF InPeriod
    <2> QED
      BY <1>2, <2>1 DEF LoadInv, LoadTypeOK
  <1>4. /\ \A d \in Callers : InPeriod(d)' <=> InPeriod(d)
        /\ \A d \in Callers : d # c => pc'[d] = pc[d]
        /\ pc'[c] = "done"
    BY <1>2 DEF InPeriod, LoadInv, FreshInv, TypeOK
  <1>5. Missed' = Missed \ {c} /\ Leftover' = Leftover \ {c}
    BY <1>2, <1>4 DEF Missed, Leftover, Running
  <1>6. key[c] = Watched => (Serves' <=> start[c] >= from)
    <2> SUFFICES ASSUME key[c] = Watched PROVE Serves' <=> start[c] >= from
      OBVIOUS
    <2>1. /\ store \in [Keys -> Entry \cup {NoEntry}] /\ Watched \in Keys
          /\ Ttl[Watched] \in Nat /\ start[c] \in Nat /\ value[c] \in Int
          /\ from \in Int
      BY TtlAssumption, WatchedAssumption DEF LoadInv, LoadTypeOK, FreshInv, TypeOK
    <2>2. store'[Watched] = NewEntry(c)
      BY <1>2, <2>1
    <2>3. NewEntry(c) \in Entry /\ NewEntry(c).expires = start[c] + Ttl[Watched]
      BY <2>1 DEF NewEntry, Entry
    <2>4. NewEntry(c) # NoEntry
      BY <2>3, NoEntryAssumption DEF Entry
    <2>5. Serves' <=> start[c] + Ttl[Watched] >= from + Ttl[Watched]
      BY <1>2, <2>2, <2>3, <2>4 DEF Serves
    <2> QED
      BY <2>1, <2>5
  <1>7. FillBudget'
    <2>1. CASE key[c] # Watched
      <3>1. Serves' <=> Serves
        BY <1>2, <2>1, WatchedAssumption DEF Serves, LoadInv, FreshInv, TypeOK
      <3>2. fills' = fills
        BY <1>2, <2>1 DEF InPeriod
      <3> QED
        BY <1>1, <1>2, <1>5, <3>1, <3>2, StayWithin DEF LoadInv
    <2>2. CASE from = -1
      BY <1>2, <2>2 DEF FillBudget
    <2>3. CASE key[c] = Watched /\ from # -1 /\ start[c] < from
      <3>1. ~ InPeriod(c) /\ ~ Serves'
        <4>1. start[c] \in Int /\ from \in Int
          BY DEF LoadInv, LoadTypeOK, FreshInv, TypeOK
        <4> QED
          BY <1>6, <2>3, <4>1 DEF InPeriod
      <3>2. c \in Leftover
        BY <1>2, <2>3 DEF Leftover, Running
      <3> QED
        BY <1>1, <1>2, <1>5, <3>1, <3>2, LeftoverWithin DEF LoadInv
    <2>4. CASE key[c] = Watched /\ from # -1 /\ start[c] >= from
      <3>1. Serves'
        BY <1>6, <2>4
      <3>2. c \notin Leftover
        BY <2>4 DEF Leftover, LoadInv, LoadTypeOK, FreshInv, TypeOK
      <3>3. fills \in Nat /\ fills' \in Nat
        BY <1>3 DEF LoadInv, LoadTypeOK
      <3>4. c \in Missed <=> InPeriod(c)
        BY <1>2 DEF Missed
      <3>5. fills' + Cardinality(Missed') = fills + Cardinality(Missed)
        <4>1. IsFiniteSet(Missed) /\ Cardinality(Missed) \in Nat
          BY ThreadsCounted DEF LoadInv, LoadTypeOK
        <4>2. Cardinality(Missed') = IF c \in Missed THEN Cardinality(Missed) - 1
                                     ELSE Cardinality(Missed)
          BY <1>5, <4>1, FS_RemoveElement
        <4> QED
          BY <1>2, <3>3, <3>4, <4>1, <4>2
      <3> QED
        BY <1>1, <1>2, <1>5, <3>1, <3>2, <3>3, <3>5, ServeWithin DEF LoadInv
    <2> QED
      BY <2>1, <2>2, <2>3, <2>4 DEF LoadInv, LoadTypeOK, FreshInv, TypeOK
  <1> QED
    BY <1>1, <1>3, <1>7 DEF LoadInv

LEMMA StepLoad == LoadInv /\ [LoadNext]_loadVars => LoadInv'
  <1> SUFFICES ASSUME LoadInv, [LoadNext]_loadVars PROVE LoadInv'
    OBVIOUS
  <1>1. CASE UNCHANGED loadVars
    BY <1>1
    DEF loadVars, vars, LoadInv, FreshInv, TypeOK, AnswersAreFresh, FreshAt, EntriesExpire,
        PendingIsFresh, LoadTypeOK, FillBudget, Leftover, Missed, InPeriod, Serves
  <1> QED
    BY <1>1, WatchLoad, TickLoad, UncountedLoad, StoreLoad DEF LoadNext

\* However the calls of any number of threads interleave, with slow producers and
\* late writes of expired entries, n threads fill a key at most n (n + 1) / 2
\* times in one TTL.
THEOREM LoadIsBounded == LoadSpec => []FillsPerTtl
  <1>1. LoadInv => FillsPerTtl
    <2> SUFFICES ASSUME LoadInv PROVE FillsPerTtl
      OBVIOUS
    <2> DEFINE n == Cardinality(Callers)
               m == Cardinality(Callers \ Leftover)
               p == Cardinality(Missed)
    <2>1. n \in Nat /\ m \in Nat /\ p \in Nat /\ m <= n /\ fills \in Nat
      BY ThreadsCounted DEF LoadInv, LoadTypeOK
    <2>2. m * (m + 1) <= n * (n + 1) /\ m * (m + 1) \in Nat /\ n * (n + 1) \in Nat
      BY <2>1, Triangle
    <2>3. from = -1 => fills = 0
      BY DEF LoadInv, LoadTypeOK
    <2>4. from # -1 => 2 * (fills + p) <= m * (m + 1) \/ 2 * (fills + m) <= m * (m + 1)
      BY DEF LoadInv, FillBudget
    <2> HIDE DEF n, m, p
    <2>5. 2 * fills <= n * (n + 1)
      BY <2>1, <2>2, <2>3, <2>4
    <2>6. fills <= (n * (n + 1)) \div 2
      BY <2>1, <2>2, <2>5
    <2> QED
      BY <2>6 DEF FillsPerTtl, n
  <1> QED
    BY <1>1, InitLoad, StepLoad, PTL DEF LoadSpec
=============================================================================
