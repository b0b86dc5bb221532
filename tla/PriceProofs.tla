---------------------------- MODULE PriceProofs ----------------------------
(***************************************************************************)
(* Proofs about PriceFetch and PriceOutage for any threads, functions,     *)
(* sources, TTLs and breakers: the stacked caches and breakers of the      *)
(* functions that fetch price histories.                                   *)
(***************************************************************************)
EXTENDS PriceOutage, TLAPS, SequenceTheorems

LEMMA Sources ==
    ASSUME NEW f \in Fns
    PROVE  /\ Plan[f] \in Seq(Source)
           /\ Len(Plan[f]) \in Nat \ {0}
           /\ DOMAIN Plan[f] = 1 .. Len(Plan[f])
           /\ \A i \in 1 .. Len(Plan[f]) :
                 Plan[f][i].of \in Fns \cup Providers /\ Plan[f][i].strict \in BOOLEAN
  <1>1. Plan[f] \in Seq(Source) /\ Plan[f] # <<>>
    BY PlanAssumption
  <1>2. /\ Len(Plan[f]) \in Nat \ {0} /\ DOMAIN Plan[f] = 1 .. Len(Plan[f])
        /\ \A i \in 1 .. Len(Plan[f]) : Plan[f][i] \in Source
    BY <1>1, EmptySeq, LenProperties, ElementOfSeq
  <1> QED
    BY <1>1, <1>2 DEF Source

LEMMA Echoes ==
    ASSUME NEW f \in Fns
    PROVE  /\ Echo(f) \in Nat /\ Echo(f) <= Forgotten
           /\ f \in Guarded => Cooldown <= Echo(f)
  <1>1. Breakers[f] \in Nat /\ Cooldown \in Nat /\ (f \in Guarded => Breakers[f] >= 1)
    BY BreakersAssumption, BreakerAssumption
  <1>2. Breakers[f] * Cooldown \in Nat
    BY <1>1
  <1>3. ASSUME Breakers[f] >= 1 PROVE Cooldown <= Breakers[f] * Cooldown
    <2>1. PICK n \in Nat : Breakers[f] = n + 1
      BY <1>1, <1>3, Breakers[f] - 1 \in Nat, Breakers[f] = (Breakers[f] - 1) + 1
    <2>2. (n + 1) * Cooldown = n * Cooldown + Cooldown /\ n * Cooldown \in Nat
      BY <1>1
    <2> QED
      BY <1>1, <2>1, <2>2
  <1> QED
    BY <1>1, <1>2, <1>3, BreakersAssumption DEF Echo

LEMMA OneLayerMore ==
    ASSUME NEW n \in Nat, NEW d \in Nat, NEW c \in Nat
    PROVE  n * c + c <= (n + 1 + d) * c
  <1>1. (n + 1 + d) * c = n * c + c + d * c /\ n * c \in Nat /\ d * c \in Nat
    OBVIOUS
  <1> QED
    BY <1>1

LEMMA Layers ==
    ASSUME NEW f \in Fns, NEW i \in 1 .. Len(Plan[f]), Plan[f][i].of \in Fns
    PROVE  LET g == Plan[f][i].of
           IN  /\ f \in Guarded
               /\ Lag[f] >= Lag[g] + Ttl[g] - 1
               /\ Breakers[f] > Breakers[g]
               /\ Echo(g) + Cooldown <= Echo(f)
  <1> DEFINE g == Plan[f][i].of
  <1>1. i \in DOMAIN Plan[f]
    BY Sources
  <1>2. f \in Guarded /\ Lag[f] >= Lag[g] + Ttl[g] - 1
    BY <1>1, LayersAssumption
  <1>3. Breakers[f] \in Nat /\ Breakers[g] \in Nat /\ Breakers[f] >= Breakers[g] + 1
    BY <1>1, <1>2, BreakersAssumption
  <1>4. Cooldown \in Nat
    BY BreakerAssumption
  <1>5. PICK d \in Nat : Breakers[f] = Breakers[g] + 1 + d
    BY <1>3, Breakers[f] - (Breakers[g] + 1) \in Nat,
       Breakers[f] = Breakers[g] + 1 + (Breakers[f] - (Breakers[g] + 1))
  <1>6. Echo(g) + Cooldown <= Echo(f)
    BY <1>3, <1>4, <1>5, OneLayerMore DEF Echo
  <1> QED
    BY <1>2, <1>3, <1>6

-----------------------------------------------------------------------------
(* What the invariant says of each frame, whatever its stack.              *)

FrameInv ==
    /\ TypeOK /\ OutageTypeOK /\ PhasesAgree
    /\ AgesAddUp /\ Cache!EntriesExpire /\ Cache!PendingIsFresh /\ GotIsFresh
    /\ TriedInOrder /\ FailuresArePassedOver

\* The part of FrameInv that is about one frame, of the function f.
FrameOK(fr, f) ==
    /\ at[fr] > 0 => pc[fr] = "producing" /\ (f \in Guarded => gate[fr] = "calling")
    /\ gate[fr] \in Breaker!Inside => pc[fr] = "producing" /\ f \in Guarded
    /\ pc[fr] = "producing" /\ at[fr] = 0 /\ gate[fr] \notin Breaker!Inside => ~ hurt[fr]
    /\ start[fr] <= now
    /\ pc[fr] = "done" => Cache!FreshAt(f, value[fr], start[fr]) /\ value[fr] <= now
    /\ pc[fr] = "storing" => value[fr] + Lag[f] >= start[fr] /\ value[fr] <= now
    /\ pc[fr] = "producing" => got[fr] + Lag[f] >= start[fr] /\ got[fr] <= now
    /\ \A i \in 1 .. at[fr] - 1 : Plan[f][i].of \in tried[fr]
    /\ gate[fr] = "failed" \/ (gate[fr] = "succeeded" /\ ~ rows[fr]) =>
          \A i \in 1 .. Len(Plan[f]) : Plan[f][i].of \in tried[fr]

Types == TypeOK /\ OutageTypeOK /\ Cache!EntriesExpire

LEMMA FrameByFrame == FrameInv <=> Types /\ \A fr \in Frames : FrameOK(fr, fr[2])
  <1>1. \A fr \in Frames : fr[2] \in Fns /\ DOMAIN Plan[fr[2]] = 1 .. Len(Plan[fr[2]])
    BY Sources DEF Frames
  <1> QED
    BY <1>1 DEF FrameInv, Types, FrameOK, PhasesAgree, AgesAddUp, Cache!AnswersAreFresh,
       Cache!PendingIsFresh, GotIsFresh, TriedInOrder, FailuresArePassedOver

LEMMA FrameByFrameNext == FrameInv' <=> Types' /\ \A fr \in Frames : FrameOK(fr, fr[2])'
  <1>1. \A fr \in Frames : fr[2] \in Fns /\ DOMAIN Plan[fr[2]] = 1 .. Len(Plan[fr[2]])
    BY Sources DEF Frames
  <1> QED
    BY <1>1 DEF FrameInv, Types, FrameOK, PhasesAgree, AgesAddUp, Cache!AnswersAreFresh,
       Cache!PendingIsFresh, GotIsFresh, TriedInOrder, FailuresArePassedOver

Same(o) ==
    /\ at'[o] = at[o] /\ pc'[o] = pc[o] /\ gate'[o] = gate[o] /\ start'[o] = start[o]
    /\ value'[o] = value[o] /\ got'[o] = got[o] /\ rows'[o] = rows[o] /\ hurt'[o] = hurt[o]

\* A step of one frame leaves the others as they are.
LEMMA OneFrameMoves ==
    ASSUME FrameInv, NEW fr \in Frames, now' = now, Types', FrameOK(fr, fr[2])',
           \A o \in Frames : o # fr => Same(o) /\ tried[o] \subseteq tried'[o]
    PROVE  FrameInv'
  <1> SUFFICES ASSUME NEW o \in Frames, o # fr PROVE FrameOK(o, o[2])'
    BY FrameByFrameNext
  <1>1. FrameOK(o, o[2]) /\ Same(o) /\ tried[o] \subseteq tried'[o]
    BY FrameByFrame
  <1> QED
    BY <1>1 DEF FrameOK, Same, Cache!FreshAt

LEMMA InitFrames == OutageInit => FrameInv
  <1> SUFFICES ASSUME OutageInit PROVE FrameInv
    OBVIOUS
  <1> USE DEF OutageInit, Init, Cache!Init, Breaker!Init
  <1>1. TypeOK
    BY BreakerAssumption, Sources, EmptySeq DEF TypeOK, Cache!TypeOK, Breaker!TypeOK,
       Cache!Ended, Cache!Running, Breaker!Outside, Breaker!Inside, Frames
  <1>2. OutageTypeOK
    BY ForgottenAssumption DEF OutageTypeOK
  <1>3. PhasesAgree /\ TriedInOrder /\ FailuresArePassedOver
    BY DEF PhasesAgree, TriedInOrder, FailuresArePassedOver, Breaker!Inside
  <1>4. AgesAddUp /\ Cache!EntriesExpire /\ Cache!PendingIsFresh /\ GotIsFresh
    BY DEF AgesAddUp, Cache!AnswersAreFresh, Cache!EntriesExpire, Cache!PendingIsFresh,
       GotIsFresh
  <1> QED
    BY <1>1, <1>2, <1>3, <1>4 DEF FrameInv

LEMMA TickFrames == FrameInv /\ Tick /\ calm' \in 0 .. Forgotten /\ tried' = tried => FrameInv'
  <1> SUFFICES ASSUME FrameInv, Tick, calm' \in 0 .. Forgotten, tried' = tried
               PROVE  FrameInv'
    OBVIOUS
  <1> USE DEF FrameInv, Tick, Cache!Tick, bodyVars
  <1>1. TypeOK'
    BY BreakerAssumption DEF TypeOK, Cache!TypeOK, Breaker!TypeOK
  <1>2. OutageTypeOK'
    BY DEF OutageTypeOK
  <1>3. PhasesAgree' /\ TriedInOrder' /\ FailuresArePassedOver'
    BY DEF PhasesAgree, TriedInOrder, FailuresArePassedOver
  <1>4. AgesAddUp' /\ Cache!EntriesExpire' /\ Cache!PendingIsFresh' /\ GotIsFresh'
    BY DEF AgesAddUp, Cache!AnswersAreFresh, Cache!EntriesExpire, Cache!PendingIsFresh,
       GotIsFresh, Cache!FreshAt, TypeOK, Cache!TypeOK, Cache!Entry
  <1> QED
    BY <1>1, <1>2, <1>3, <1>4

LEMMA FrameTypes ==
    ASSUME FrameInv, NEW fr \in Frames
    PROVE  /\ fr[2] \in Fns /\ fr[1] \in Threads /\ fr = <<fr[1], fr[2]>>
           /\ now \in Nat /\ start[fr] \in Nat /\ value[fr] \in Int /\ got[fr] \in Int
           /\ at[fr] \in 0 .. Len(Plan[fr[2]])
           /\ pc[fr] \in Cache!Ended \cup Cache!Running
           /\ gate[fr] \in Breaker!Outside \cup Breaker!Inside
           /\ rows[fr] \in BOOLEAN /\ hurt[fr] \in BOOLEAN
           /\ Lag[fr[2]] \in Nat /\ Ttl[fr[2]] \in Nat \ {0}
           /\ [o \in Frames |-> o[2]][fr] = fr[2]
           /\ FrameOK(fr, fr[2])
  <1>1. fr[2] \in Fns /\ fr[1] \in Threads /\ fr = <<fr[1], fr[2]>>
    BY DEF Frames
  <1>2. FrameOK(fr, fr[2])
    BY FrameByFrame
  <1> QED
    BY <1>1, <1>2, Sources, TtlAssumption, LagAssumption
    DEF FrameInv, TypeOK, Cache!TypeOK, Breaker!TypeOK

\* A frame begins: called by a service, or by the frame below it.
LEMMA BeginFrames ==
    ASSUME FrameInv, NEW fr \in Frames, NEW f \in Fns, f = fr[2], Cache!Begin(fr, f),
           stack' \in [Threads -> Seq(Fns)], OutageTypeOK',
           \A o \in Frames : tried[o] \subseteq tried'[o],
           UNCHANGED <<breakerVars, bodyVars, filled>>
    PROVE  FrameInv'
  <1> USE DEF Cache!Begin, breakerVars, bodyVars
  <1>1. Types'
    BY DEF Types, FrameInv, TypeOK, Cache!TypeOK, Breaker!TypeOK, Cache!Ended, Cache!Running,
       Cache!EntriesExpire
  <1>2. \A o \in Frames : o # fr => Same(o) /\ tried[o] \subseteq tried'[o]
    BY DEF Same, FrameInv, TypeOK, Cache!TypeOK
  <1>3. FrameOK(fr, fr[2])'
    <2>1. at[fr] = 0 /\ gate[fr] \notin Breaker!Inside
      BY FrameTypes DEF FrameOK, Cache!Ended
    <2>2. pc'[fr] = "looking" /\ start'[fr] = now /\ now' = now
      BY DEF FrameInv, TypeOK, Cache!TypeOK
    <2> QED
      BY <2>1, <2>2, FrameTypes DEF FrameOK, Breaker!Inside
  <1> QED
    BY <1>1, <1>2, <1>3, OneFrameMoves

\* The entry of a function, if there is one.
LEMMA EntryFacts ==
    ASSUME FrameInv, NEW f \in Fns, store[f] # NoEntry
    PROVE  /\ store[f].expires \in Int /\ store[f].value \in Int
           /\ store[f].expires <= store[f].value + Lag[f] + Ttl[f]
           /\ store[f].value <= now
  BY DEF FrameInv, TypeOK, Cache!TypeOK, Cache!Entry, Cache!EntriesExpire

LEMMA LookFrames ==
    ASSUME FrameInv, NEW fr \in Frames, Look(fr), OutageTypeOK',
           tried' = [tried EXCEPT ![fr] = {}]
    PROVE  FrameInv'
  <1> DEFINE f == fr[2]
  <1> USE DEF Look, breakerVars
  <1>1. /\ pc[fr] = "looking"
        /\ \/ /\ Cache!Live(store[f], start[fr])
              /\ pc' = [pc EXCEPT ![fr] = "done"]
              /\ value' = [value EXCEPT ![fr] = store[f].value]
              /\ at' = at /\ rows' = [rows EXCEPT ![fr] = f \in filled]
           \/ /\ ~ Cache!Live(store[f], start[fr])
              /\ pc' = [pc EXCEPT ![fr] = "producing"]
              /\ value' = value /\ rows' = rows
              /\ at' = [at EXCEPT ![fr] = IF f \in Guarded THEN 0 ELSE 1]
        /\ UNCHANGED <<now, store, start>>
    BY FrameTypes DEF Cache!Lookup
  <1>2. f \in Fns /\ Len(Plan[f]) >= 1
    BY FrameTypes, Sources
  <1>3. Types'
    <2>1. value' \in [Frames -> Int] /\ pc' \in [Frames -> Cache!Ended \cup Cache!Running]
      BY <1>1, <1>2, EntryFacts
      DEF FrameInv, TypeOK, Cache!TypeOK, Cache!Ended, Cache!Running, Cache!Live
    <2>2. at' \in [Frames -> Nat] /\ \A o \in Frames : at'[o] <= Len(Plan[o[2]])
      <3>1. at' = at \/ at' = [at EXCEPT ![fr] = 0] \/ at' = [at EXCEPT ![fr] = 1]
        BY <1>1
      <3>2. \A o \in Frames : at[o] \in Nat /\ at[o] <= Len(Plan[o[2]]) /\ o[2] \in Fns
        BY DEF FrameInv, TypeOK, Frames
      <3>3. \A o \in Frames : at'[o] \in Nat /\ at'[o] <= Len(Plan[o[2]])
        BY <3>1, <3>2, Sources DEF FrameInv, TypeOK
      <3> QED
        BY <3>1, <3>3 DEF FrameInv, TypeOK
    <2>3. rows' \in [Frames -> BOOLEAN] /\ hurt' \in [Frames -> BOOLEAN]
      <3>1. rows' = rows \/ rows' = [rows EXCEPT ![fr] = TRUE]
                        \/ rows' = [rows EXCEPT ![fr] = FALSE]
        BY <1>1
      <3> QED
        BY <3>1 DEF FrameInv, TypeOK
    <2>4. got' \in [Frames -> Int]
      BY FrameTypes DEF FrameInv, TypeOK
    <2> QED
      BY <1>1, <2>1, <2>2, <2>3, <2>4
      DEF Types, FrameInv, TypeOK, Cache!TypeOK, Breaker!TypeOK, Cache!EntriesExpire
  <1>4. \A o \in Frames : o # fr => Same(o) /\ tried[o] \subseteq tried'[o]
    BY <1>1 DEF Same, FrameInv, TypeOK, Cache!TypeOK, OutageTypeOK
  <1>5. FrameOK(fr, f)'
    <2>1. at[fr] = 0 /\ gate[fr] \notin Breaker!Inside /\ start[fr] <= now
      BY SMTT(30), <1>1, FrameTypes DEF FrameOK
    <2>2. /\ gate' = gate /\ got'[fr] = start[fr] /\ start' = start /\ now' = now
          /\ hurt'[fr] = FALSE
      BY <1>1 DEF FrameInv, TypeOK
    <2>3. CASE pc' = [pc EXCEPT ![fr] = "done"]
      <3>1. pc'[fr] = "done" /\ value'[fr] = store[f].value /\ at'[fr] = 0
        BY <1>1, <2>1, <2>3 DEF FrameInv, TypeOK, Cache!TypeOK
      <3>2. Cache!FreshAt(f, value'[fr], start[fr]) /\ value'[fr] <= now
        <4>1. store[f] # NoEntry /\ store[f].expires > start[fr]
          BY <1>1, <2>1, <2>3, FrameTypes DEF Cache!Live, FrameInv, TypeOK, Cache!TypeOK
        <4>2. PICK e, v, l, d, b :
                 e = store[f].expires /\ v = store[f].value /\ l = Lag[f] /\ d = Ttl[f]
                 /\ b = start[fr]
          OBVIOUS
        <4>3. e \in Int /\ v \in Int /\ e <= v + l + d /\ v <= now
          BY <1>2, <4>1, <4>2, EntryFacts
        <4>4. l \in Nat /\ d \in Nat /\ b \in Nat
          BY <4>2, FrameTypes
        <4>5. v + l + d > b
          BY ONLY <4>3, <4>4, <4>1, <4>2
        <4> QED
          BY ONLY <3>1, <4>2, <4>3, <4>5 DEF Cache!FreshAt
      <3> QED
        BY <2>1, <2>2, <3>1, <3>2 DEF FrameOK, Cache!FreshAt, Breaker!Inside
    <2>4. CASE pc' = [pc EXCEPT ![fr] = "producing"]
      <3>1. pc'[fr] = "producing" /\ at'[fr] \in {0, 1} /\ (f \in Guarded => at'[fr] = 0)
        BY <1>1, <2>4, FrameTypes DEF FrameInv, TypeOK, Cache!TypeOK
      <3> QED
        BY <2>1, <2>2, <3>1, FrameTypes DEF FrameOK, Breaker!Inside
    <2> QED
      BY <1>1, <2>3, <2>4
  <1> QED
    BY <1>1, <1>3, <1>4, <1>5, OneFrameMoves

LEMMA RefusedFrames ==
    ASSUME FrameInv, NEW fr \in Frames, Refused(fr), UNCHANGED <<calm, tried>>
    PROVE  FrameInv'
  <1> USE DEF Refused, AtGate, Breaker!Refuse, Breaker!Enter, Cache!ProducerRaises, bodyVars
  <1>1. Types'
    BY DEF Types, FrameInv, TypeOK, Cache!TypeOK, Breaker!TypeOK, Cache!Ended, Breaker!Outside,
       OutageTypeOK, Cache!EntriesExpire
  <1>2. \A o \in Frames : o # fr => Same(o) /\ tried[o] \subseteq tried'[o]
    BY DEF Same, FrameInv, TypeOK, Cache!TypeOK, Breaker!TypeOK
  <1>3. FrameOK(fr, fr[2])'
    <2>1. /\ pc'[fr] = "failed" /\ gate'[fr] = "refused" /\ at'[fr] = 0
          /\ start'[fr] = start[fr] /\ now' = now
      BY DEF FrameInv, TypeOK, Cache!TypeOK, Breaker!TypeOK
    <2> QED
      BY <2>1, FrameTypes DEF FrameOK, Breaker!Inside
  <1> QED
    BY <1>1, <1>2, <1>3, OneFrameMoves

LEMMA AdmittedFrames ==
    ASSUME FrameInv, NEW fr \in Frames, Admitted(fr), OutageTypeOK',
           tried' = [tried EXCEPT ![fr] = {}]
    PROVE  FrameInv'
  <1> USE DEF Admitted, AtGate, Breaker!Admit, Breaker!Enter, cacheVars
  <1>1. Types'
    <2>1. at' \in [Frames -> Nat] /\ \A o \in Frames : at'[o] <= Len(Plan[o[2]])
      BY FrameTypes, Sources DEF FrameInv, TypeOK
    <2>2. gate' \in [Frames -> Breaker!Outside \cup Breaker!Inside]
      BY DEF FrameInv, TypeOK, Breaker!TypeOK, Breaker!Inside
    <2> QED
      BY <2>1, <2>2
      DEF Types, FrameInv, TypeOK, Cache!TypeOK, Breaker!TypeOK, Cache!EntriesExpire
  <1>2. \A o \in Frames : o # fr => Same(o) /\ tried[o] \subseteq tried'[o]
    BY DEF Same, FrameInv, TypeOK, Breaker!TypeOK, OutageTypeOK
  <1>3. FrameOK(fr, fr[2])'
    <2>1. gate'[fr] = "calling" /\ at'[fr] = 1
      BY DEF FrameInv, TypeOK, Breaker!TypeOK
    <2>2. UNCHANGED <<pc, start, now, got>>
      OBVIOUS
    <2> QED
      BY <2>1, <2>2, FrameTypes DEF FrameOK, Breaker!Inside
  <1> QED
    BY <1>1, <1>2, <1>3, OneFrameMoves

LEMMA RecordedFrames ==
    ASSUME FrameInv, NEW fr \in Frames, Recorded(fr), UNCHANGED <<calm, tried>>
    PROVE  FrameInv'
  <1> USE DEF Recorded, bodyVars
  <1>1. /\ \/ /\ gate[fr] = "succeeded"
              /\ gate' = [gate EXCEPT ![fr] = "ok"]
              /\ pc' = [pc EXCEPT ![fr] = "storing"]
              /\ value' = [value EXCEPT ![fr] = got[fr]]
           \/ /\ gate[fr] = "failed"
              /\ gate' = [gate EXCEPT ![fr] = "raised"]
              /\ pc' = [pc EXCEPT ![fr] = "failed"]
              /\ value' = value
        /\ pc[fr] = "producing"
        /\ UNCHANGED <<now, store, start>>
    BY DEF Breaker!RecordSuccess, Breaker!RecordFailure, Cache!Produced, Cache!ProducerRaises
  <1>2. at[fr] = 0
    BY <1>1, FrameTypes DEF FrameOK, Breaker!Inside
  <1>3. /\ failures' \in [Names -> 0 .. MaxFailures]
        /\ opened' \in [Names -> BOOLEAN] /\ cooling' \in [Names -> 0 .. Cooldown]
    <2>1. CASE Breaker!RecordSuccess(fr)
      BY <2>1, BreakerAssumption DEF Breaker!RecordSuccess, FrameInv, TypeOK, Breaker!TypeOK
    <2>2. CASE Breaker!RecordFailure(fr)
      <3>1. failures' \in [Names -> 0 .. MaxFailures]
        BY <2>2, BreakerAssumption
        DEF Breaker!RecordFailure, Breaker!OneMore, FrameInv, TypeOK, Breaker!TypeOK
      <3>2. /\ opened' = opened \/ opened' = [opened EXCEPT ![BreakerOf[fr[2]]] = TRUE]
            /\ cooling' = cooling \/ cooling' = [cooling EXCEPT ![BreakerOf[fr[2]]] = Cooldown]
        BY <2>2, FrameTypes DEF Breaker!RecordFailure, Breaker!CooldownLeft
      <3>3. Cooldown \in 0 .. Cooldown
        BY BreakerAssumption
      <3>4. opened \in [Names -> BOOLEAN] /\ cooling \in [Names -> 0 .. Cooldown]
        BY DEF FrameInv, TypeOK, Breaker!TypeOK
      <3>5. opened' \in [Names -> BOOLEAN]
        BY <3>2, <3>4
      <3>6. cooling' \in [Names -> 0 .. Cooldown]
        BY <3>2, <3>3, <3>4
      <3> QED
        BY <3>1, <3>5, <3>6
    <2> QED
      BY <2>1, <2>2
  <1>4. Types'
    <2>1. /\ gate' \in [Frames -> Breaker!Outside \cup Breaker!Inside]
          /\ pc' \in [Frames -> Cache!Ended \cup Cache!Running]
          /\ value' \in [Frames -> Int]
      BY <1>1, FrameTypes DEF FrameInv, TypeOK, Cache!TypeOK, Breaker!TypeOK, Breaker!Outside,
         Cache!Ended, Cache!Running
    <2> QED
      BY <1>1, <1>3, <2>1 DEF Types, FrameInv, TypeOK, Cache!TypeOK, Breaker!TypeOK,
         OutageTypeOK, Cache!EntriesExpire
  <1>5. \A o \in Frames : o # fr => Same(o) /\ tried[o] \subseteq tried'[o]
    BY <1>1 DEF Same, FrameInv, TypeOK, Cache!TypeOK, Breaker!TypeOK
  <1>6. FrameOK(fr, fr[2])'
    <2>1. /\ gate'[fr] \in {"ok", "raised"} /\ at'[fr] = 0
          /\ pc'[fr] = "failed" \/ (pc'[fr] = "storing" /\ value'[fr] = got[fr])
      BY <1>1, <1>2 DEF FrameInv, TypeOK, Cache!TypeOK, Breaker!TypeOK
    <2> QED
      BY <1>1, <2>1, FrameTypes DEF FrameOK, Breaker!Inside
  <1> QED
    BY <1>1, <1>4, <1>5, <1>6, OneFrameMoves

LEMMA KeepFrames ==
    ASSUME FrameInv, NEW fr \in Frames, Keep(fr), UNCHANGED <<calm, tried>>
    PROVE  FrameInv'
  <1> DEFINE f == fr[2]
             e == Cache!NewEntry(fr)
  <1> USE DEF Keep, bodyVars, breakerVars
  <1>1. /\ pc[fr] = "storing" /\ pc' = [pc EXCEPT ![fr] = "done"]
        /\ store' = [store EXCEPT ![f] = e]
        /\ UNCHANGED <<now, start, value>>
    BY FrameTypes DEF Cache!Store
  <1>2. e \in Cache!Entry /\ e.expires = start[fr] + Ttl[f] /\ e.value = value[fr]
    BY FrameTypes DEF Cache!NewEntry, Cache!Entry
  <1>3. f \in Fns /\ value[fr] + Lag[f] >= start[fr] /\ value[fr] <= now
    BY <1>1, FrameTypes DEF FrameOK
  <1>4. Types'
    <2>1. store' \in [Fns -> Cache!Entry \cup {NoEntry}]
      BY <1>1, <1>2, <1>3 DEF FrameInv, TypeOK, Cache!TypeOK
    <2>2. Cache!EntriesExpire'
      <3> SUFFICES ASSUME NEW g \in Fns, store'[g] # NoEntry
                   PROVE  /\ store'[g].expires <= store'[g].value + Lag[g] + Ttl[g]
                          /\ store'[g].value <= now
        BY <1>1 DEF Cache!EntriesExpire
      <3>1. CASE g = f
        BY <1>1, <1>2, <1>3, <3>1, FrameTypes DEF FrameInv, TypeOK, Cache!TypeOK
      <3>2. CASE g # f
        BY <1>1, <3>2, EntryFacts DEF FrameInv, TypeOK, Cache!TypeOK
      <3> QED
        BY <3>1, <3>2
    <2>3. pc' \in [Frames -> Cache!Ended \cup Cache!Running] /\ filled' \subseteq Fns
      BY <1>1, <1>3 DEF FrameInv, TypeOK, Cache!TypeOK, Cache!Ended
    <2> QED
      BY <1>1, <2>1, <2>2, <2>3
      DEF Types, FrameInv, TypeOK, Cache!TypeOK, Breaker!TypeOK, OutageTypeOK
  <1>5. \A o \in Frames : o # fr => Same(o) /\ tried[o] \subseteq tried'[o]
    BY <1>1 DEF Same, FrameInv, TypeOK, Cache!TypeOK
  <1>6. FrameOK(fr, f)'
    <2>1. pc'[fr] = "done" /\ Cache!FreshAt(f, value[fr], start[fr])
      BY <1>1, <1>3, FrameTypes DEF FrameInv, TypeOK, Cache!TypeOK, Cache!FreshAt
    <2> QED
      BY <1>1, <1>3, <2>1, FrameTypes DEF FrameOK, Cache!FreshAt
  <1> QED
    BY <1>1, <1>4, <1>5, <1>6, OneFrameMoves

\* What a source's outcome leaves fr with: when its answer was given, and
\* whether an exception is kept.
When(fr, outcome, when) == IF outcome = "error" THEN got[fr] ELSE when
Kept(fr, outcome) == IF outcome = "error" /\ Here(fr).strict THEN TRUE ELSE hurt[fr]

GoesOn(fr, outcome, when) ==
    /\ outcome # "rows" /\ at[fr] < Len(Plan[fr[2]])
    /\ at' = [at EXCEPT ![fr] = at[fr] + 1]
    /\ hurt' = [hurt EXCEPT ![fr] = Kept(fr, outcome)]
    /\ got' = [got EXCEPT ![fr] = When(fr, outcome, when)]
    /\ UNCHANGED <<rows, pc, value, gate>>

Returns(fr, outcome, when) ==
    /\ outcome = "rows" \/ at[fr] = Len(Plan[fr[2]])
    /\ at' = [at EXCEPT ![fr] = 0]
    /\ hurt' = hurt
    /\ got' = [got EXCEPT ![fr] = When(fr, outcome, when)]
    /\ \/ outcome = "rows" /\ rows' = [rows EXCEPT ![fr] = TRUE]
       \/ outcome # "rows" /\ rows' = [rows EXCEPT ![fr] = FALSE]
    /\ \/ /\ fr[2] \in Guarded /\ gate' = [gate EXCEPT ![fr] = "succeeded"]
          /\ UNCHANGED <<pc, value>>
       \/ /\ fr[2] \notin Guarded /\ pc' = [pc EXCEPT ![fr] = "storing"]
          /\ value' = [value EXCEPT ![fr] = When(fr, outcome, when)] /\ gate' = gate

Raises(fr, outcome) ==
    /\ outcome # "rows" /\ at[fr] = Len(Plan[fr[2]]) /\ Kept(fr, outcome)
    /\ at' = [at EXCEPT ![fr] = 0]
    /\ UNCHANGED <<hurt, got, rows, value>>
    /\ \/ /\ fr[2] \in Guarded /\ gate' = [gate EXCEPT ![fr] = "failed"]
          /\ pc' = pc
       \/ /\ fr[2] \notin Guarded /\ pc' = [pc EXCEPT ![fr] = "failed"]
          /\ gate' = gate

LEMMA TakeEffect ==
    ASSUME FrameInv, NEW fr \in Frames, NEW outcome \in Outcomes, NEW when,
           at[fr] > 0, Take(fr, outcome, when)
    PROVE  /\ \/ GoesOn(fr, outcome, when)
              \/ Returns(fr, outcome, when)
              \/ Raises(fr, outcome)
           /\ UNCHANGED <<now, store, start, failures, opened, cooling>>
  <1>1. /\ at[fr] <= Len(Plan[fr[2]]) /\ at[fr] \in Nat /\ Len(Plan[fr[2]]) \in Nat
        /\ hurt[fr] \in BOOLEAN /\ Here(fr).strict \in BOOLEAN
    BY FrameTypes, Sources DEF Here
  <1>2. ASSUME NEW w, NEW some \in BOOLEAN, BodyReturns(fr, w, some)
        PROVE  /\ at' = [at EXCEPT ![fr] = 0] /\ hurt' = hurt
               /\ got' = [got EXCEPT ![fr] = w] /\ rows' = [rows EXCEPT ![fr] = some]
               /\ \/ /\ fr[2] \in Guarded /\ gate' = [gate EXCEPT ![fr] = "succeeded"]
                     /\ UNCHANGED <<pc, value>>
                  \/ /\ fr[2] \notin Guarded /\ pc' = [pc EXCEPT ![fr] = "storing"]
                     /\ value' = [value EXCEPT ![fr] = w] /\ gate' = gate
               /\ UNCHANGED <<now, store, start, failures, opened, cooling>>
    BY <1>2 DEF BodyReturns, Breaker!Reply, Cache!Produced, cacheVars, breakerVars
  <1>3. ASSUME BodyRaises(fr)
        PROVE  /\ at' = [at EXCEPT ![fr] = 0]
               /\ UNCHANGED <<hurt, got, rows, value>>
               /\ \/ /\ fr[2] \in Guarded /\ gate' = [gate EXCEPT ![fr] = "failed"]
                     /\ pc' = pc
                  \/ /\ fr[2] \notin Guarded /\ pc' = [pc EXCEPT ![fr] = "failed"]
                     /\ gate' = gate
               /\ UNCHANGED <<now, store, start, failures, opened, cooling>>
    BY <1>3 DEF BodyRaises, Breaker!Reply, Cache!ProducerRaises, cacheVars, breakerVars
  <1>4. CASE outcome = "rows"
    <2>1. BodyReturns(fr, when, TRUE)
      BY <1>4 DEF Take
    <2> QED
      BY <1>2, <1>4, <2>1 DEF Returns, When
  <1>5. CASE outcome # "rows"
    <2>1. GoOn(fr, Kept(fr, outcome), When(fr, outcome, when))
      <3>1. CASE outcome = "empty"
        BY <3>1 DEF Take, Kept, When
      <3>2. CASE outcome = "error"
        <4>1. GoOn(fr, hurt[fr] \/ Here(fr).strict, got[fr])
          BY <3>2 DEF Take
        <4>2. (hurt[fr] \/ Here(fr).strict) = Kept(fr, outcome)
          BY <1>1, <3>2 DEF Kept
        <4> QED
          BY <3>2, <4>1, <4>2 DEF When
      <3> QED
        BY <1>5, <3>1, <3>2 DEF Outcomes
    <2>2. CASE at[fr] < Len(Plan[fr[2]])
      BY <1>5, <2>1, <2>2 DEF GoOn, GoesOn, cacheVars, breakerVars
    <2>3. CASE at[fr] = Len(Plan[fr[2]]) /\ Kept(fr, outcome)
      <3>1. BodyRaises(fr)
        BY <1>1, <2>1, <2>3 DEF GoOn
      <3> QED
        BY <1>3, <1>5, <2>3, <3>1 DEF Raises
    <2>4. CASE at[fr] = Len(Plan[fr[2]]) /\ ~ Kept(fr, outcome)
      <3>1. BodyReturns(fr, When(fr, outcome, when), FALSE)
        <4>1. ~ (at[fr] < Len(Plan[fr[2]]))
          BY <1>1, <2>4
        <4> QED
          BY <2>1, <2>4, <4>1, Zenon DEF GoOn
      <3> QED
        BY <1>2, <1>5, <2>4, <3>1 DEF Returns
    <2> QED
      BY <1>1, <2>2, <2>3, <2>4
  <1> QED
    BY <1>4, <1>5

LEMMA TakeFrames ==
    ASSUME FrameInv, NEW fr \in Frames, NEW outcome \in Outcomes, NEW when \in Int,
           at[fr] > 0, Take(fr, outcome, when),
           outcome # "error" => when + Lag[fr[2]] >= start[fr] /\ when <= now,
           stack' \in [Threads -> Seq(Fns)], filled' = filled, OutageTypeOK',
           \A o \in Frames : tried[o] \subseteq tried'[o],
           Here(fr).of \in tried'[fr]
    PROVE  FrameInv'
  <1> DEFINE f == fr[2]
             w == When(fr, outcome, when)
  <1>1. /\ at[fr] \in 1 .. Len(Plan[f]) /\ Len(Plan[f]) \in Nat
        /\ w \in Int /\ w + Lag[f] >= start[fr] /\ w <= now
        /\ pc[fr] = "producing" /\ (f \in Guarded => gate[fr] = "calling")
        /\ (f \notin Guarded => gate[fr] \notin Breaker!Inside)
        /\ start[fr] <= now
        /\ Kept(fr, outcome) = TRUE \/ Kept(fr, outcome) = FALSE
    <2>1. at[fr] \in 1 .. Len(Plan[f]) /\ Len(Plan[f]) \in Nat
      BY FrameTypes, Sources
    <2>2. /\ pc[fr] = "producing" /\ (f \in Guarded => gate[fr] = "calling")
          /\ (f \notin Guarded => gate[fr] \notin Breaker!Inside)
          /\ start[fr] <= now /\ got[fr] + Lag[f] >= start[fr] /\ got[fr] <= now
      BY FrameTypes DEF FrameOK
    <2>3. w \in Int /\ w + Lag[f] >= start[fr] /\ w <= now
      BY <2>2, FrameTypes DEF When
    <2>4. Kept(fr, outcome) = TRUE \/ Kept(fr, outcome) = FALSE
      BY FrameTypes DEF Kept
    <2> QED
      BY <2>1, <2>2, <2>3, <2>4
  <1>2. \A i \in 1 .. at[fr] : Plan[f][i].of \in tried'[fr]
    <2>1. \A i \in 1 .. at[fr] - 1 : Plan[f][i].of \in tried[fr]
      BY FrameTypes DEF FrameOK
    <2> QED
      BY <1>1, <2>1 DEF Here
  <1>3. /\ GoesOn(fr, outcome, when) \/ Returns(fr, outcome, when) \/ Raises(fr, outcome)
        /\ UNCHANGED <<now, store, start, failures, opened, cooling>>
    BY TakeEffect
  <1>4. Types'
    <2>1. /\ at' \in [Frames -> Nat] /\ \A o \in Frames : at'[o] <= Len(Plan[o[2]])
          /\ hurt' \in [Frames -> BOOLEAN] /\ got' \in [Frames -> Int]
          /\ rows' \in [Frames -> BOOLEAN] /\ value' \in [Frames -> Int]
          /\ pc' \in [Frames -> Cache!Ended \cup Cache!Running]
          /\ gate' \in [Frames -> Breaker!Outside \cup Breaker!Inside]
      <3> USE DEF FrameInv, TypeOK, Cache!TypeOK, Breaker!TypeOK
      <3> HIDE DEF w
      <3>1. CASE GoesOn(fr, outcome, when)
        <4>1. at' = [at EXCEPT ![fr] = at[fr] + 1] /\ at[fr] + 1 <= Len(Plan[f])
          BY <1>1, <3>1 DEF GoesOn
        <4>2. /\ hurt' = [hurt EXCEPT ![fr] = TRUE] \/ hurt' = [hurt EXCEPT ![fr] = FALSE]
              /\ got' = [got EXCEPT ![fr] = w] /\ UNCHANGED <<rows, pc, value, gate>>
          BY <1>1, <3>1 DEF GoesOn, w
        <4>3. at' \in [Frames -> Nat] /\ \A o \in Frames : at'[o] <= Len(Plan[o[2]])
          <5>1. at' \in [Frames -> Nat]
            BY <1>1, <4>1
          <5>2. ASSUME NEW o \in Frames PROVE at'[o] <= Len(Plan[o[2]])
            <6>1. CASE o = fr
              BY <4>1, <6>1
            <6>2. CASE o # fr
              BY <4>1, <6>2
            <6> QED
              BY <6>1, <6>2
          <5> QED
            BY <5>1, <5>2
        <4> QED
          BY <1>1, <4>2, <4>3
      <3>2. CASE Returns(fr, outcome, when)
        <4>1. at' \in [Frames -> Nat] /\ \A o \in Frames : at'[o] <= Len(Plan[o[2]])
          BY SMTT(30), <3>2, FrameTypes, Sources DEF Returns
        <4>2. hurt' \in [Frames -> BOOLEAN] /\ got' \in [Frames -> Int]
          BY <1>1, <3>2 DEF Returns, w
        <4>3. rows' \in [Frames -> BOOLEAN]
          BY <3>2 DEF Returns
        <4>4. /\ value' = value \/ value' = [value EXCEPT ![fr] = w]
              /\ pc' = pc \/ pc' = [pc EXCEPT ![fr] = "storing"]
              /\ gate' = gate \/ gate' = [gate EXCEPT ![fr] = "succeeded"]
          BY <3>2 DEF Returns, w
        <4>5. value' \in [Frames -> Int]
          BY <1>1, <4>4
        <4>6. pc' \in [Frames -> Cache!Ended \cup Cache!Running]
          BY <4>4 DEF Cache!Running
        <4>7. gate' \in [Frames -> Breaker!Outside \cup Breaker!Inside]
          BY <4>4 DEF Breaker!Inside
        <4> QED
          BY <4>1, <4>2, <4>3, <4>5, <4>6, <4>7
      <3>3. CASE Raises(fr, outcome)
        <4>1. at' \in [Frames -> Nat] /\ \A o \in Frames : at'[o] <= Len(Plan[o[2]])
          BY SMTT(30), <3>3, FrameTypes, Sources DEF Raises
        <4>2. /\ pc' \in [Frames -> Cache!Ended \cup Cache!Running]
              /\ gate' \in [Frames -> Breaker!Outside \cup Breaker!Inside]
          BY <3>3 DEF Raises, Cache!Ended, Breaker!Inside
        <4> QED
          BY <3>3, <4>1, <4>2 DEF Raises
      <3> QED
        BY <1>3, <3>1, <3>2, <3>3
    <2> QED
      BY <1>3, <2>1
      DEF Types, FrameInv, TypeOK, Cache!TypeOK, Breaker!TypeOK, Cache!EntriesExpire
  <1>5. \A o \in Frames : o # fr => Same(o) /\ tried[o] \subseteq tried'[o]
    BY <1>3 DEF GoesOn, Returns, Raises, Same, FrameInv, TypeOK, Cache!TypeOK, Breaker!TypeOK
  <1>6. FrameOK(fr, f)'
    <2>1. CASE GoesOn(fr, outcome, when)
      <3>1. at'[fr] = at[fr] + 1 /\ got'[fr] = w /\ UNCHANGED <<rows, pc, value, gate>>
        BY <2>1 DEF GoesOn, FrameInv, TypeOK
      <3> HIDE DEF w
      <3>2. \A i \in 1 .. at'[fr] - 1 : Plan[f][i].of \in tried'[fr]
        BY <1>1, <1>2, <3>1
      <3> QED
        BY <1>1, <1>3, <3>1, <3>2 DEF FrameOK, Breaker!Inside
    <2>2. CASE Returns(fr, outcome, when)
      <3>1. /\ at'[fr] = 0 /\ got'[fr] = w
            /\ rows'[fr] = TRUE \/ at[fr] = Len(Plan[f])
        BY <2>2 DEF Returns, FrameInv, TypeOK
      <3>2. \/ /\ f \in Guarded /\ gate'[fr] = "succeeded" /\ pc'[fr] = "producing"
            \/ /\ f \notin Guarded /\ pc'[fr] = "storing" /\ value'[fr] = w /\ gate' = gate
        BY <1>1, <2>2 DEF Returns, FrameInv, TypeOK, Cache!TypeOK, Breaker!TypeOK
      <3> HIDE DEF w
      <3> QED
        BY <1>1, <1>2, <1>3, <3>1, <3>2 DEF FrameOK, Breaker!Inside
    <2>3. CASE Raises(fr, outcome)
      <3>1. at'[fr] = 0 /\ got' = got /\ at[fr] = Len(Plan[f])
        BY <2>3 DEF Raises, FrameInv, TypeOK
      <3>2. \/ /\ f \in Guarded /\ gate'[fr] = "failed" /\ pc'[fr] = "producing"
            \/ /\ f \notin Guarded /\ pc'[fr] = "failed" /\ gate' = gate
        BY <1>1, <2>3 DEF Raises, FrameInv, TypeOK, Cache!TypeOK, Breaker!TypeOK
      <3> QED
        BY <1>1, <1>2, <1>3, <3>1, <3>2, FrameTypes DEF FrameOK, Breaker!Inside
    <2> QED
      BY <1>3, <2>1, <2>2, <2>3
  <1> QED
    BY <1>3, <1>4, <1>5, <1>6, OneFrameMoves

-----------------------------------------------------------------------------
(* The call stacks.                                                        *)

LEMMA Places ==
    ASSUME FrameInv, NEW t \in Threads
    PROVE  /\ stack[t] \in Seq(Fns) /\ Depth(t) \in Nat
           /\ \A i \in 1 .. Depth(t) :
                 /\ Place(t, i) \in Frames /\ Place(t, i)[1] = t
                 /\ stack[t][i] \in Fns /\ Place(t, i)[2] = stack[t][i]
  <1>1. stack[t] \in Seq(Fns) /\ Depth(t) \in Nat
    BY LenProperties DEF FrameInv, TypeOK, Depth
  <1>2. \A i \in 1 .. Depth(t) : stack[t][i] \in Fns
    BY <1>1, ElementOfSeq DEF Depth
  <1> QED
    BY <1>1, <1>2 DEF Place, Frames

LEMMA TopPlace ==
    ASSUME FrameInv, NEW fr \in Frames, OnTop(fr)
    PROVE  /\ Depth(fr[1]) \in Nat \ {0}
           /\ stack[fr[1]][Depth(fr[1])] = fr[2]
           /\ fr = Place(fr[1], Depth(fr[1]))
  BY Places, FrameTypes DEF OnTop, Place

\* No frame is in two places.
LEMMA OnePlace ==
    ASSUME FrameInv, StacksAreNested, NEW t \in Threads,
           NEW i \in 1 .. Depth(t), NEW j \in 1 .. Depth(t), stack[t][i] = stack[t][j]
    PROVE  i = j
  <1>1. Depth(t) \in Nat /\ Breakers[stack[t][i]] \in Nat
    BY Places, BreakersAssumption
  <1>2. \A a, b \in 1 .. Depth(t) : a < b => Breakers[stack[t][a]] > Breakers[stack[t][b]]
    BY DEF StacksAreNested
  <1>3. ~ (i < j) /\ ~ (j < i)
    BY <1>1, <1>2
  <1> QED
    BY <1>1, <1>3

\* The frame below the innermost one.
LEMMA CallerBelow ==
    ASSUME FrameInv, StacksAreNested, NEW fr \in Frames, OnTop(fr), Depth(fr[1]) > 1
    PROVE  LET c == Caller(fr)
           IN  /\ c \in Frames /\ c # fr /\ c[1] = fr[1]
               /\ c = Place(fr[1], Depth(fr[1]) - 1)
               /\ at[c] > 0 /\ Here(c).of = fr[2] /\ fr[2] \in tried[c]
               /\ start[c] <= start[fr]
               /\ at[c] \in 1 .. Len(Plan[c[2]])
               /\ c[2] \in Guarded
               /\ Lag[c[2]] >= Lag[fr[2]] + Ttl[fr[2]] - 1
               /\ Echo(fr[2]) + Cooldown <= Echo(c[2])
  <1> DEFINE c == Caller(fr)
             t == fr[1]
             d == Depth(t)
  <1>1. t \in Threads /\ d \in Nat /\ d - 1 \in 1 .. d /\ d \in 1 .. d /\ d - 1 \in 1 .. d - 1
    BY FrameTypes, Places
  <1>2. c = Place(t, d - 1) /\ fr = Place(t, d) /\ stack[t][d] = fr[2]
    BY TopPlace DEF Caller, Place
  <1>3. c \in Frames /\ c[1] = t /\ c[2] \in Fns /\ c[2] = stack[t][d - 1]
    BY <1>1, <1>2, Places
  <1>4. c # fr
    <2>1. stack[t][d - 1] # stack[t][d]
      BY <1>1, OnePlace
    <2> QED
      BY <1>2, <1>3, <2>1
  <1>5. at[c] > 0 /\ Here(c).of = fr[2] /\ fr[2] \in tried[c] /\ start[c] <= start[fr]
    <2>1. (d - 1) + 1 = d
      BY <1>1
    <2> QED
      BY <1>1, <1>2, <2>1 DEF StacksAreNested
  <1>6. at[c] \in 1 .. Len(Plan[c[2]])
    BY <1>3, <1>5, FrameTypes, Sources
  <1>7. Plan[c[2]][at[c]].of = fr[2] /\ fr[2] \in Fns
    BY <1>5, FrameTypes DEF Here
  <1>8. /\ c[2] \in Guarded /\ Lag[c[2]] >= Lag[fr[2]] + Ttl[fr[2]] - 1
        /\ Echo(fr[2]) + Cooldown <= Echo(c[2])
    BY <1>3, <1>6, <1>7, Layers
  <1> QED
    BY <1>2, <1>3, <1>4, <1>5, <1>6, <1>8

LEMMA StackStays ==
    ASSUME FrameInv, StacksAreNested, NEW fr \in Frames, OnTop(fr),
           stack' = stack, start' = start, pc'[fr] # "idle",
           \A o \in Frames : o # fr => /\ at'[o] = at[o] /\ pc'[o] = pc[o]
                                       /\ tried[o] \subseteq tried'[o]
    PROVE  StacksAreNested'
  <1> SUFFICES ASSUME NEW t \in Threads
               PROVE  /\ \A i \in 1 .. Depth(t) - 1 :
                            /\ at'[Place(t, i)] > 0
                            /\ Plan[stack[t][i]][at'[Place(t, i)]].of = stack[t][i + 1]
                            /\ stack[t][i + 1] \in tried'[Place(t, i)]
                            /\ start[Place(t, i)] <= start[Place(t, i + 1)]
                      /\ \A i, j \in 1 .. Depth(t) :
                            i < j => Breakers[stack[t][i]] > Breakers[stack[t][j]]
                      /\ \A i \in 1 .. Depth(t) : pc'[Place(t, i)] # "idle"
                      /\ \A f \in Fns : pc'[<<t, f>>] \notin Cache!Ended =>
                            \E i \in 1 .. Depth(t) : stack[t][i] = f
    BY ZenonT(60) DEF StacksAreNested, Depth, Place, Here
  <1>1. Depth(t) \in Nat
    BY Places
  <1>2. ASSUME NEW i \in 1 .. Depth(t) - 1
        PROVE  /\ at'[Place(t, i)] > 0
               /\ Plan[stack[t][i]][at'[Place(t, i)]].of = stack[t][i + 1]
               /\ stack[t][i + 1] \in tried'[Place(t, i)]
               /\ start[Place(t, i)] <= start[Place(t, i + 1)]
    <2>1. i \in 1 .. Depth(t) /\ Depth(t) \in 1 .. Depth(t) /\ i # Depth(t)
      BY <1>1
    <2>2. Place(t, i) \in Frames /\ Place(t, i) # fr
      <3>1. CASE t = fr[1]
        <4>1. stack[t][i] # stack[t][Depth(t)]
          BY <2>1, OnePlace
        <4> QED
          BY <2>1, <3>1, <4>1, TopPlace, Places
      <3>2. CASE t # fr[1]
        BY <2>1, <3>2, Places
      <3> QED
        BY <3>1, <3>2
    <2>3. /\ at[Place(t, i)] > 0 /\ Here(Place(t, i)).of = stack[t][i + 1]
          /\ stack[t][i + 1] \in tried[Place(t, i)]
          /\ start[Place(t, i)] <= start[Place(t, i + 1)]
      BY DEF StacksAreNested
    <2> QED
      BY <2>2, <2>3 DEF Here, Place
  <1>3. ASSUME NEW f \in Fns, pc'[<<t, f>>] \notin Cache!Ended
        PROVE  \E i \in 1 .. Depth(t) : stack[t][i] = f
    <2>1. CASE <<t, f>> = fr
      BY <2>1, TopPlace
    <2>2. CASE <<t, f>> # fr
      BY <1>3, <2>2 DEF StacksAreNested, Frames
    <2> QED
      BY <2>1, <2>2
  <1>4. ASSUME NEW i \in 1 .. Depth(t) PROVE pc'[Place(t, i)] # "idle"
    <2>1. CASE Place(t, i) = fr
      BY <2>1
    <2>2. CASE Place(t, i) # fr
      BY <2>2, Places DEF StacksAreNested
    <2> QED
      BY <2>1, <2>2
  <1> QED
    BY <1>2, <1>3, <1>4 DEF StacksAreNested

\* StacksAreNested for one thread t, whose stack is s.
Nested(t, s, at1, tried1, start1, pc1) ==
    /\ \A i \in 1 .. Len(s) - 1 :
          /\ at1[<<t, s[i]>>] > 0
          /\ Plan[s[i]][at1[<<t, s[i]>>]].of = s[i + 1]
          /\ s[i + 1] \in tried1[<<t, s[i]>>]
          /\ start1[<<t, s[i]>>] <= start1[<<t, s[i + 1]>>]
    /\ \A i, j \in 1 .. Len(s) : i < j => Breakers[s[i]] > Breakers[s[j]]
    /\ \A i \in 1 .. Len(s) : pc1[<<t, s[i]>>] # "idle"
    /\ \A f \in Fns : pc1[<<t, f>>] \notin Cache!Ended => \E i \in 1 .. Len(s) : s[i] = f

LEMMA NestedByThread ==
    StacksAreNested <=> \A t \in Threads : Nested(t, stack[t], at, tried, start, pc)
  BY DEF StacksAreNested, Nested, Depth, Place, Here

LEMMA NestedByThreadNext ==
    StacksAreNested' <=> \A t \in Threads : Nested(t, stack'[t], at', tried', start', pc')
  BY DEF StacksAreNested, Nested, Depth, Place, Here

\* A thread whose frames do not move stays as it is.
LEMMA NestedStays ==
    ASSUME FrameInv, StacksAreNested, NEW t \in Threads, stack'[t] = stack[t],
           \A f \in Fns :
              /\ at'[<<t, f>>] = at[<<t, f>>] /\ pc'[<<t, f>>] = pc[<<t, f>>]
              /\ start'[<<t, f>>] = start[<<t, f>>] /\ tried[<<t, f>>] \subseteq tried'[<<t, f>>]
    PROVE  Nested(t, stack'[t], at', tried', start', pc')
  <1>1. Nested(t, stack[t], at, tried, start, pc)
    BY NestedByThread
  <1>2. /\ Len(stack[t]) \in Nat
        /\ \A i \in 1 .. Len(stack[t]) : stack[t][i] \in Fns
    BY Places DEF Depth
  <1>3. ASSUME NEW i \in 1 .. Len(stack[t]) - 1
        PROVE  /\ at'[<<t, stack[t][i]>>] > 0
               /\ Plan[stack[t][i]][at'[<<t, stack[t][i]>>]].of = stack[t][i + 1]
               /\ stack[t][i + 1] \in tried'[<<t, stack[t][i]>>]
               /\ start'[<<t, stack[t][i]>>] <= start'[<<t, stack[t][i + 1]>>]
    <2>1. i \in 1 .. Len(stack[t]) /\ i + 1 \in 1 .. Len(stack[t])
      BY <1>2
    <2>2. stack[t][i] \in Fns /\ stack[t][i + 1] \in Fns
      BY <1>2, <2>1
    <2> QED
      BY <1>1, <2>2 DEF Nested
  <1>4. \A f \in Fns : pc'[<<t, f>>] \notin Cache!Ended => \E i \in 1 .. Len(stack[t]) : stack[t][i] = f
    BY <1>1 DEF Nested
  <1>5. \A i \in 1 .. Len(stack[t]) : pc'[<<t, stack[t][i]>>] # "idle"
    BY <1>1, <1>2 DEF Nested
  <1>6. Nested(t, stack[t], at', tried', start', pc')
    BY <1>1, <1>3, <1>4, <1>5 DEF Nested
  <1> QED
    BY <1>6

LEMMA RequestStacks ==
    ASSUME FrameInv, StacksAreNested, NEW t \in Threads, NEW f \in Fns, Request(t, f),
           tried' = tried
    PROVE  StacksAreNested'
  <1> USE DEF Request, Cache!Begin, bodyVars
  <1>1. /\ stack' = [stack EXCEPT ![t] = <<f>>] /\ pc' = [pc EXCEPT ![<<t, f>>] = "looking"]
        /\ start' = [start EXCEPT ![<<t, f>>] = now] /\ at' = at
    OBVIOUS
  <1>2. ASSUME NEW u \in Threads, u # t PROVE Nested(u, stack'[u], at', tried', start', pc')
    BY <1>1, <1>2, NestedStays DEF FrameInv, TypeOK, Cache!TypeOK, Frames
  <1>3. stack'[t] = <<f>>
    BY <1>1 DEF FrameInv, TypeOK
  <1>4. ASSUME NEW g \in Fns, g # f PROVE pc'[<<t, g>>] \in Cache!Ended
    <2>1. pc'[<<t, g>>] = pc[<<t, g>>]
      BY <1>1, <1>4 DEF FrameInv, TypeOK, Cache!TypeOK, Frames
    <2>2. pc[<<t, g>>] \notin Cache!Ended => \E i \in 1 .. Depth(t) : stack[t][i] = g
      BY DEF StacksAreNested
    <2>3. Depth(t) = 0 \/ (Depth(t) = 1 /\ pc[<<t, stack[t][1]>>] \in Cache!Ended)
      BY DEF Free
    <2> QED
      BY <2>1, <2>2, <2>3
  <1>5. Nested(t, stack'[t], at', tried', start', pc')
    <2>1. Len(<<f>>) = 1 /\ <<f>>[1] = f
      OBVIOUS
    <2>2. pc'[<<t, f>>] = "looking"
      BY <1>1 DEF FrameInv, TypeOK, Cache!TypeOK, Frames
    <2>3. Nested(t, <<f>>, at', tried', start', pc')
      BY <1>4, <2>1, <2>2 DEF Nested
    <2> QED
      BY <1>3, <2>3
  <1> QED
    BY <1>2, <1>5, NestedByThreadNext

LEMMA DescendStacks ==
    ASSUME FrameInv, StacksAreNested, NEW fr \in Frames, OnTop(fr), Descend(fr),
           tried' = [tried EXCEPT ![fr] = @ \cup {Here(fr).of}], OutageTypeOK
    PROVE  StacksAreNested'
  <1> DEFINE t == fr[1]
             g == Here(fr).of
             s == stack[t]
             d == Depth(t)
  <1> USE DEF Descend, Cache!Begin, bodyVars
  <1>1. /\ stack' = [stack EXCEPT ![t] = Append(s, g)]
        /\ pc' = [pc EXCEPT ![<<t, g>>] = "looking"]
        /\ start' = [start EXCEPT ![<<t, g>>] = now] /\ at' = at
        /\ g \in Fns /\ at[fr] > 0 /\ pc[fr] = "producing"
    BY DEF InBody
  <1>2. t \in Threads /\ fr = <<t, fr[2]>> /\ fr[2] \in Fns /\ start[fr] <= now
    BY FrameTypes DEF FrameOK
  <1>3. ASSUME NEW u \in Threads, u # t PROVE Nested(u, stack'[u], at', tried', start', pc')
    BY <1>1, <1>2, <1>3, NestedStays DEF FrameInv, TypeOK, Cache!TypeOK, OutageTypeOK, Frames
  <1>4. /\ d \in Nat \ {0} /\ s \in Seq(Fns) /\ Len(s) = d /\ s[d] = fr[2]
        /\ \A i \in 1 .. d : s[i] \in Fns
    BY <1>2, TopPlace, Places DEF Depth
  <1>5. /\ stack'[t] = Append(s, g) /\ Len(Append(s, g)) = d + 1
        /\ Append(s, g)[d + 1] = g /\ \A i \in 1 .. d : Append(s, g)[i] = s[i]
    BY <1>1, <1>2, <1>4, AppendProperties DEF FrameInv, TypeOK
  <1>6. Nested(t, s, at, tried, start, pc)
    BY <1>2, NestedByThread
  <1>7. Breakers[fr[2]] > Breakers[g] /\ Breakers[fr[2]] \in Nat /\ Breakers[g] \in Nat
    <2>1. PICK i : i = at[fr] /\ i \in 1 .. Len(Plan[fr[2]]) /\ Plan[fr[2]][i].of = g
      BY SMTT(30), <1>1, FrameTypes DEF Here
    <2>2. Breakers[fr[2]] > Breakers[g]
      BY <1>1, <1>2, <2>1, Layers
    <2> QED
      BY <1>1, <1>2, <2>2, BreakersAssumption
  <1>8. \A i \in 1 .. d : Breakers[s[i]] > Breakers[g]
    <2> SUFFICES ASSUME NEW i \in 1 .. d PROVE Breakers[s[i]] > Breakers[g]
      OBVIOUS
    <2>1. Breakers[s[i]] \in Nat
      BY <1>4, BreakersAssumption
    <2>2. CASE i = d
      BY <1>4, <1>7, <2>2
    <2>3. CASE i # d
      <3>1. i < d /\ i \in 1 .. Len(s) /\ d \in 1 .. Len(s)
        BY <1>4, <2>3
      <3>2. Breakers[s[i]] > Breakers[s[d]]
        BY <1>6, <3>1 DEF Nested
      <3> QED
        BY <1>4, <1>7, <2>1, <3>2
    <2> QED
      BY <2>2, <2>3
  <1>9. \A f \in Fns : f # g => /\ start'[<<t, f>>] = start[<<t, f>>]
                                /\ pc'[<<t, f>>] = pc[<<t, f>>]
    BY <1>1, <1>2 DEF FrameInv, TypeOK, Cache!TypeOK, Frames
  <1>10. start'[<<t, g>>] = now /\ pc'[<<t, g>>] = "looking"
    BY <1>1, <1>2 DEF FrameInv, TypeOK, Cache!TypeOK, Frames
  <1>11. \A i \in 1 .. d : s[i] # g
    BY <1>4, <1>7, <1>8, BreakersAssumption
  <1>12. g \in tried'[fr] /\ \A o \in Frames : tried[o] \subseteq tried'[o]
    BY DEF OutageTypeOK
  <1>13. Nested(t, Append(s, g), at', tried', start', pc')
    <2> DEFINE r == Append(s, g)
    <2> HIDE DEF r
    <2>0. Len(r) = d + 1 /\ r[d + 1] = g /\ \A i \in 1 .. d : r[i] = s[i]
      BY <1>5 DEF r
    <2>1. ASSUME NEW i \in 1 .. Len(r) - 1
          PROVE  /\ at'[<<t, r[i]>>] > 0
                 /\ Plan[r[i]][at'[<<t, r[i]>>]].of = r[i + 1]
                 /\ r[i + 1] \in tried'[<<t, r[i]>>]
                 /\ start'[<<t, r[i]>>] <= start'[<<t, r[i + 1]>>]
      <3>1. i \in 1 .. d /\ r[i] = s[i] /\ s[i] \in Fns /\ <<t, s[i]>> \in Frames
        BY <1>2, <1>4, <2>0 DEF Frames
      <3>2. CASE i = d
        <4>1. r[i] = fr[2] /\ r[i + 1] = g /\ <<t, r[i]>> = fr
          BY <1>2, <1>4, <2>0, <3>2
        <4>2. start'[fr] = start[fr]
          BY <1>2, <1>4, <1>9, <1>11, <3>2
        <4> QED
          BY <1>1, <1>2, <1>10, <1>12, <4>1, <4>2 DEF Here
      <3>3. CASE i # d
        <4>1. i \in 1 .. d - 1 /\ i + 1 \in 1 .. d
          BY <1>4, <3>1, <3>3
        <4>3. i \in 1 .. Len(s) - 1 /\ r[i + 1] = s[i + 1]
          BY <1>4, <2>0, <4>1
        <4>2. /\ start'[<<t, s[i]>>] = start[<<t, s[i]>>]
              /\ start'[<<t, s[i + 1]>>] = start[<<t, s[i + 1]>>]
          BY <1>4, <1>9, <1>11, <3>1, <4>1
        <4> QED
          BY <1>1, <1>6, <1>12, <3>1, <4>2, <4>3 DEF Nested
      <3> QED
        BY <3>2, <3>3
    <2>2. ASSUME NEW i \in 1 .. Len(r), NEW j \in 1 .. Len(r), i < j
          PROVE  Breakers[r[i]] > Breakers[r[j]]
      <3>1. i \in 1 .. d /\ r[i] = s[i] /\ (j \in 1 .. d \/ j = d + 1)
        BY <1>4, <2>0, <2>2
      <3> QED
        BY <1>4, <1>6, <1>8, <2>0, <2>2, <3>1 DEF Nested
    <2>3. ASSUME NEW f \in Fns, pc'[<<t, f>>] \notin Cache!Ended
          PROVE  \E i \in 1 .. Len(r) : r[i] = f
      <3>1. CASE f = g
        BY <1>4, <2>0, <3>1
      <3>2. CASE f # g
        <4>1. PICK i \in 1 .. d : s[i] = f
          BY <1>4, <1>6, <1>9, <2>3, <3>2 DEF Nested
        <4> QED
          BY <1>4, <2>0, <4>1
      <3> QED
        BY <3>1, <3>2
    <2>4. ASSUME NEW i \in 1 .. Len(r) PROVE pc'[<<t, r[i]>>] # "idle"
      <3>1. CASE i = d + 1
        BY <1>10, <2>0, <3>1
      <3>2. CASE i # d + 1
        <4>1. i \in 1 .. d /\ i \in 1 .. Len(s) /\ r[i] = s[i] /\ s[i] \in Fns /\ s[i] # g
          BY <1>4, <1>11, <2>0, <3>2
        <4> QED
          BY SMTT(30), <1>6, <1>9, <4>1 DEF Nested
      <3> QED
        BY <3>1, <3>2
    <2> QED
      BY <2>1, <2>2, <2>3, <2>4 DEF Nested, r
  <1> QED
    BY <1>3, <1>5, <1>13, NestedByThreadNext

\* The innermost frame has ended and leaves the stack; the one below it moves on.
LEMMA AscendStacks ==
    ASSUME FrameInv, StacksAreNested, NEW fr \in Frames, OnTop(fr), Depth(fr[1]) > 1,
           pc[fr] \in Cache!Ended,
           stack' = [stack EXCEPT ![fr[1]] = SubSeq(@, 1, Len(@) - 1)],
           start' = start, tried' = tried,
           pc'[Caller(fr)] # "idle",
           \A o \in Frames : o # Caller(fr) => at'[o] = at[o] /\ pc'[o] = pc[o]
    PROVE  StacksAreNested'
  <1> DEFINE t == fr[1]
             s == stack[t]
             d == Depth(t)
             r == SubSeq(s, 1, d - 1)
             c == Caller(fr)
  <1>1. t \in Threads /\ fr = <<t, fr[2]>> /\ fr[2] \in Fns
    BY FrameTypes
  <1>2. /\ d \in Nat /\ d > 1 /\ s \in Seq(Fns) /\ Len(s) = d /\ s[d] = fr[2]
        /\ \A i \in 1 .. d : s[i] \in Fns
    BY <1>1, TopPlace, Places DEF Depth
  <1>3. stack'[t] = r /\ Len(r) = d - 1 /\ \A i \in 1 .. d - 1 : r[i] = s[i]
    <2>1. Len(r) = d - 1 /\ \A i \in 1 .. d - 1 : r[i] = s[i]
      BY <1>2, SubSeqProperties
    <2> QED
      BY <1>1, <1>2, <2>1 DEF FrameInv, TypeOK
  <1>4. Nested(t, s, at, tried, start, pc)
    BY <1>1, NestedByThread
  <1>5. c = <<t, s[d - 1]>>
    BY DEF Caller
  <1>6. ASSUME NEW u \in Threads, u # t PROVE Nested(u, stack'[u], at', tried', start', pc')
    <2>1. stack'[u] = stack[u] /\ tried' = tried /\ start' = start
      BY <1>6 DEF FrameInv, TypeOK
    <2>2. \A f \in Fns : at'[<<u, f>>] = at[<<u, f>>] /\ pc'[<<u, f>>] = pc[<<u, f>>]
      BY <1>5, <1>6 DEF Frames
    <2> QED
      BY <2>1, <2>2, NestedStays
  <1>7. \A i \in 1 .. d - 2 : s[i] # s[d - 1]
    <2> SUFFICES ASSUME NEW i \in 1 .. d - 2, s[i] = s[d - 1] PROVE FALSE
      OBVIOUS
    <2>0. d \in Nat /\ d > 1
      BY <1>2
    <2>1. i \in 1 .. d /\ d - 1 \in 1 .. d /\ i # d - 1
      <3> HIDE DEF d
      <3> QED
        BY <2>0
    <2> QED
      BY <1>1, <2>1, OnePlace
  <1> HIDE DEF r
  <1>8. ASSUME NEW i \in 1 .. Len(r) - 1
        PROVE  /\ at'[<<t, r[i]>>] > 0
               /\ Plan[r[i]][at'[<<t, r[i]>>]].of = r[i + 1]
               /\ r[i + 1] \in tried'[<<t, r[i]>>]
               /\ start'[<<t, r[i]>>] <= start'[<<t, r[i + 1]>>]
    <2>0. i \in 1 .. d - 2 /\ i \in 1 .. d - 1 /\ i + 1 \in 1 .. d - 1 /\ i \in 1 .. d
      BY <1>2, <1>3
    <2>1. /\ i \in 1 .. Len(s) - 1
          /\ r[i] = s[i] /\ r[i + 1] = s[i + 1] /\ s[i] \in Fns
      BY <1>2, <1>3, <2>0
    <2>2. at'[<<t, s[i]>>] = at[<<t, s[i]>>]
      BY <1>1, <1>5, <1>7, <2>0, <2>1 DEF Frames
    <2> QED
      BY ZenonT(60), <1>4, <2>1, <2>2 DEF Nested
  <1>9. ASSUME NEW i \in 1 .. Len(r), NEW j \in 1 .. Len(r), i < j
        PROVE  Breakers[r[i]] > Breakers[r[j]]
    <2>1. i \in 1 .. Len(s) /\ j \in 1 .. Len(s) /\ r[i] = s[i] /\ r[j] = s[j]
      BY <1>2, <1>3
    <2> QED
      BY <1>4, <1>9, <2>1 DEF Nested
  <1>10. ASSUME NEW f \in Fns, pc'[<<t, f>>] \notin Cache!Ended
         PROVE  \E i \in 1 .. Len(r) : r[i] = f
    <2>1. CASE <<t, f>> = c
      BY <1>2, <1>3, <1>5, <2>1, d - 1 \in 1 .. d - 1
    <2>2. CASE <<t, f>> # c
      <3>1. pc[<<t, f>>] \notin Cache!Ended
        BY <1>1, <1>10, <2>2 DEF Frames
      <3>2. PICK i \in 1 .. d : s[i] = f
        BY <1>2, <1>4, <3>1 DEF Nested
      <3>3. i # d
        BY <1>1, <1>2, <3>1, <3>2
      <3> QED
        BY <1>2, <1>3, <3>2, <3>3, i \in 1 .. d - 1
    <2> QED
      BY <2>1, <2>2
  <1>11. ASSUME NEW i \in 1 .. Len(r) PROVE pc'[<<t, r[i]>>] # "idle"
    <2>1. i \in 1 .. Len(s) /\ r[i] = s[i] /\ s[i] \in Fns
      BY <1>2, <1>3
    <2> QED
      BY <1>1, <1>4, <2>1 DEF Nested, Frames
  <1>12. Nested(t, r, at', tried', start', pc')
    BY <1>8, <1>9, <1>10, <1>11 DEF Nested
  <1> QED
    BY <1>3, <1>6, <1>12, NestedByThreadNext

-----------------------------------------------------------------------------
(* The steps of a body.                                                    *)

LEMMA HereSource ==
    ASSUME FrameInv, NEW fr \in Frames, at[fr] > 0
    PROVE  Here(fr).of \in Fns \cup Providers /\ at[fr] \in 1 .. Len(Plan[fr[2]])
  BY FrameTypes, Sources DEF Here

LEMMA TriedGrows ==
    ASSUME FrameInv, NEW fr \in Frames, at[fr] > 0, calm' \in {0, calm},
           tried' = [tried EXCEPT ![fr] = @ \cup {Here(fr).of}]
    PROVE  /\ OutageTypeOK' /\ Here(fr).of \in tried'[fr]
           /\ \A o \in Frames : tried[o] \subseteq tried'[o]
  <1>1. calm' \in 0 .. Forgotten
    BY ForgottenAssumption DEF FrameInv, OutageTypeOK
  <1> QED
    BY <1>1, HereSource DEF FrameInv, OutageTypeOK

LEMMA AskFrames ==
    ASSUME FrameInv, NEW fr \in Frames, NEW outcome \in Outcomes, Ask(fr, outcome),
           calm' \in {0, calm}, tried' = [tried EXCEPT ![fr] = @ \cup {Here(fr).of}]
    PROVE  FrameInv'
  <1>1. now \in Int /\ now + Lag[fr[2]] >= start[fr] /\ now <= now
    BY FrameTypes DEF FrameOK
  <1>2. stack' \in [Threads -> Seq(Fns)] /\ filled' = filled
    BY DEF Ask, FrameInv, TypeOK
  <1>3. at[fr] > 0 /\ Take(fr, outcome, now)
    BY DEF Ask, InBody
  <1> QED
    BY <1>1, <1>2, <1>3, TriedGrows, TakeFrames

LEMMA DescendFrames ==
    ASSUME FrameInv, NEW fr \in Frames, Descend(fr), calm' = calm,
           tried' = [tried EXCEPT ![fr] = @ \cup {Here(fr).of}]
    PROVE  FrameInv'
  <1>1. PICK g \in Fns : g = Here(fr).of /\ Cache!Begin(<<fr[1], g>>, g)
    BY DEF Descend, Cache!Begin
  <1>2. PICK inner \in Frames : inner = <<fr[1], g>> /\ g = inner[2]
    <2>1. <<fr[1], g>> \in Frames
      BY FrameTypes DEF Frames
    <2> QED
      BY <2>1
  <1>3. stack' \in [Threads -> Seq(Fns)]
    <2>1. stack[fr[1]] \in Seq(Fns)
      BY FrameTypes, Places
    <2>2. Append(stack[fr[1]], g) \in Seq(Fns)
      BY <1>1, <2>1, AppendProperties
    <2> QED
      BY <1>1, <2>2 DEF Descend, FrameInv, TypeOK
  <1>4. UNCHANGED <<breakerVars, bodyVars, filled>>
    BY DEF Descend
  <1>5. OutageTypeOK' /\ \A o \in Frames : tried[o] \subseteq tried'[o]
    BY TriedGrows DEF Descend, InBody
  <1>6. Cache!Begin(inner, g)
    BY <1>1, <1>2
  <1> QED
    BY <1>2, <1>3, <1>4, <1>5, <1>6, BeginFrames

\* What the frame below gets is an outcome, and an answer fresh enough for it.
HandedUp(fr) == IF pc[fr] = "failed" THEN "error" ELSE IF rows[fr] THEN "rows" ELSE "empty"

LEMMA AscendTakes ==
    ASSUME FrameInv, StacksAreNested, NEW fr \in Frames, OnTop(fr), Ascend(fr)
    PROVE  LET c == Caller(fr)
           IN  /\ Depth(fr[1]) > 1 /\ pc[fr] \in Cache!Ended
               /\ Take(c, HandedUp(fr), value[fr]) /\ HandedUp(fr) \in Outcomes
               /\ HandedUp(fr) # "error" =>
                     value[fr] + Lag[c[2]] >= start[c] /\ value[fr] <= now
  <1> DEFINE c == Caller(fr)
  <1>1. Depth(fr[1]) > 1 /\ pc[fr] \in Cache!Ended
    BY DEF Ascend, Returning
  <1>2. Take(c, HandedUp(fr), value[fr])
    BY DEF Ascend, HandedUp
  <1>3. HandedUp(fr) \in Outcomes
    BY DEF HandedUp, Outcomes
  <1>4. ASSUME HandedUp(fr) # "error"
        PROVE  value[fr] + Lag[c[2]] >= start[c] /\ value[fr] <= now
    <2>1. pc[fr] = "done"
      <3>1. pc[fr] # "idle"
        BY TopPlace, FrameTypes DEF StacksAreNested
      <3> QED
        BY <1>1, <1>4, <3>1 DEF HandedUp, Cache!Ended
    <2>2. Cache!FreshAt(fr[2], value[fr], start[fr]) /\ value[fr] <= now
      BY <2>1, FrameTypes DEF FrameOK
    <2>3. start[c] <= start[fr] /\ Lag[c[2]] >= Lag[fr[2]] + Ttl[fr[2]] - 1 /\ c \in Frames
      BY <1>1, CallerBelow
    <2>4. /\ start[c] \in Nat /\ start[fr] \in Nat /\ value[fr] \in Int
          /\ Lag[c[2]] \in Nat /\ Lag[fr[2]] \in Nat /\ Ttl[fr[2]] \in Nat \ {0}
      BY <2>3, FrameTypes
    <2> QED
      BY <2>2, <2>3, <2>4 DEF Cache!FreshAt
  <1> QED
    BY <1>1, <1>2, <1>3, <1>4

LEMMA AscendFrames ==
    ASSUME FrameInv, StacksAreNested, NEW fr \in Frames, OnTop(fr), Ascend(fr),
           UNCHANGED <<calm, tried>>
    PROVE  FrameInv'
  <1> DEFINE c == Caller(fr)
  <1>1. /\ Depth(fr[1]) > 1 /\ Take(c, HandedUp(fr), value[fr]) /\ HandedUp(fr) \in Outcomes
        /\ HandedUp(fr) # "error" => value[fr] + Lag[c[2]] >= start[c] /\ value[fr] <= now
    BY AscendTakes
  <1>2. c \in Frames /\ at[c] > 0 /\ Here(c).of = fr[2] /\ fr[2] \in tried[c]
    BY <1>1, CallerBelow
  <1>3. value[fr] \in Int
    BY FrameTypes
  <1>4. stack' \in [Threads -> Seq(Fns)] /\ filled' = filled
    <2>1. /\ stack[fr[1]] \in Seq(Fns) /\ Len(stack[fr[1]]) \in Nat /\ Len(stack[fr[1]]) > 1
      BY <1>1, FrameTypes, Places DEF Depth
    <2>2. SubSeq(stack[fr[1]], 1, Len(stack[fr[1]]) - 1) \in Seq(Fns)
      BY <2>1, SubSeqProperties
    <2> QED
      BY <2>2 DEF Ascend, FrameInv, TypeOK
  <1>5. OutageTypeOK'
    BY DEF FrameInv, OutageTypeOK
  <1>6. Here(c).of \in tried'[c] /\ \A o \in Frames : tried[o] \subseteq tried'[o]
    BY <1>2
  <1> HIDE DEF c
  <1> QED
    BY <1>1, <1>2, <1>3, <1>4, <1>5, <1>6, TakeFrames

\* ... and the frame below, and no other, takes it.
LEMMA AscendMoves ==
    ASSUME FrameInv, StacksAreNested, NEW fr \in Frames, OnTop(fr), Ascend(fr)
    PROVE  LET c == Caller(fr)
               o == HandedUp(fr)
           IN  /\ GoesOn(c, o, value[fr]) \/ Returns(c, o, value[fr]) \/ Raises(c, o)
               /\ UNCHANGED <<now, store, start, failures, opened, cooling>>
  <1>1. /\ Depth(fr[1]) > 1 /\ Take(Caller(fr), HandedUp(fr), value[fr])
        /\ HandedUp(fr) \in Outcomes
    BY AscendTakes
  <1>2. Caller(fr) \in Frames /\ at[Caller(fr)] > 0
    BY <1>1, CallerBelow
  <1> QED
    BY <1>1, <1>2, TakeEffect

-----------------------------------------------------------------------------
(* The echo.                                                               *)

EchoInv == CoolingEchoes /\ FailuresEcho /\ HurtEchoes

\* Whether a thread waits for a provider or brings rows is up to its top frame.
LEMMA TopDecides ==
    ASSUME FrameInv, NEW fr \in Frames, OnTop(fr)
    PROVE  /\ AtProvider(fr[1]) <=> InBody(fr) /\ Here(fr).of \in Providers
           /\ BringsRows(fr[1]) <=>
                 rows[fr] /\ (gate[fr] = "succeeded" \/ pc[fr] \in {"storing", "done"})
  <1>1. fr = <<fr[1], fr[2]>> /\ fr[2] \in Fns
    BY FrameTypes
  <1>2. \A f \in Fns : OnTop(<<fr[1], f>>) <=> f = fr[2]
    BY DEF OnTop
  <1> QED
    BY <1>1, <1>2 DEF AtProvider, BringsRows, InBody

\* With the stack as it is, frames that do not move keep what is said of them.
LEMMA EchoOfOthers ==
    ASSUME FrameInv, EchoInv, NEW t \in Threads, stack'[t] = stack[t],
           \A o \in Frames : o[1] = t => Same(o), calm' \in {0, calm}
    PROVE  \A o \in Frames : o[1] = t =>
              /\ gate'[o] = "failed" => calm' + Cooldown <= Echo(o[2])
              /\ Returning(o)' /\ pc'[o] = "failed" => calm' <= Echo(o[2])
              /\ hurt'[o] /\ at'[o] > 0 /\ o[2] \in Guarded =>
                    calm' + Cooldown <= Echo(o[2]) \/ AtProvider(t)' \/ BringsRows(t)'
  <1>1. calm \in Nat /\ Cooldown \in Nat /\ calm' \in Nat /\ calm' <= calm
    BY ForgottenAssumption, BreakerAssumption DEF FrameInv, OutageTypeOK
  <1>2. \A f \in Fns : <<t, f>> \in Frames /\ <<t, f>>[1] = t /\ Same(<<t, f>>)
    BY DEF Frames
  <1>3. \A f \in Fns : OnTop(<<t, f>>)' <=> OnTop(<<t, f>>)
    BY DEF OnTop, Depth
  <1>4. AtProvider(t) => AtProvider(t)'
    BY <1>2, <1>3 DEF AtProvider, InBody, Here, Same
  <1>5. BringsRows(t) => BringsRows(t)'
    BY <1>2, <1>3 DEF BringsRows, Same
  <1> SUFFICES ASSUME NEW o \in Frames, o[1] = t
               PROVE  /\ gate'[o] = "failed" => calm' + Cooldown <= Echo(o[2])
                      /\ Returning(o)' /\ pc'[o] = "failed" => calm' <= Echo(o[2])
                      /\ hurt'[o] /\ at'[o] > 0 /\ o[2] \in Guarded =>
                            calm' + Cooldown <= Echo(o[2]) \/ AtProvider(t)' \/ BringsRows(t)'
    OBVIOUS
  <1>6. Same(o) /\ Echo(o[2]) \in Nat
    BY Echoes, FrameTypes
  <1>7. gate'[o] = "failed" => calm' + Cooldown <= Echo(o[2])
    BY <1>1, <1>6 DEF EchoInv, FailuresEcho, Same
  <1>8. Returning(o)' /\ pc'[o] = "failed" => calm' <= Echo(o[2])
    <2>1. Returning(o)' => Returning(o)
      BY <1>6 DEF Returning, OnTop, Depth, Same
    <2> QED
      BY <1>1, <1>6, <2>1 DEF EchoInv, FailuresEcho, Same
  <1>9. hurt'[o] /\ at'[o] > 0 /\ o[2] \in Guarded =>
            calm' + Cooldown <= Echo(o[2]) \/ AtProvider(t)' \/ BringsRows(t)'
    BY <1>1, <1>4, <1>5, <1>6 DEF EchoInv, HurtEchoes, Same
  <1> QED
    BY <1>7, <1>8, <1>9

\* A step of the top frame fr that leaves the stack as it is.
LEMMA EchoStays ==
    ASSUME FrameInv, StacksAreNested, EchoInv, NEW fr \in Frames, OnTop(fr),
           stack' = stack, \A o \in Frames : o # fr => Same(o),
           calm' \in {0, calm}, CoolingEchoes',
           gate'[fr] = "failed" => calm' + Cooldown <= Echo(fr[2]),
           Depth(fr[1]) > 1 /\ pc'[fr] = "failed" => calm' <= Echo(fr[2]),
           \/ /\ ~ AtProvider(fr[1]) /\ ~ BringsRows(fr[1])
              /\ at'[fr] > 0 /\ hurt'[fr] => at[fr] > 0 /\ hurt[fr]
           \/ calm' = 0
           \/ BringsRows(fr[1])'
    PROVE  EchoInv'
  <1>1. calm \in Nat /\ Cooldown \in Nat /\ calm' \in Nat /\ calm' <= calm
    BY ForgottenAssumption, BreakerAssumption DEF FrameInv, OutageTypeOK
  <1>2. ASSUME NEW o \in Frames, o[1] # fr[1]
        PROVE  /\ gate'[o] = "failed" => calm' + Cooldown <= Echo(o[2])
               /\ Returning(o)' /\ pc'[o] = "failed" => calm' <= Echo(o[2])
               /\ hurt'[o] /\ at'[o] > 0 /\ o[2] \in Guarded =>
                     calm' + Cooldown <= Echo(o[2]) \/ AtProvider(o[1])' \/ BringsRows(o[1])'
    <2>1. o[1] \in Threads /\ stack'[o[1]] = stack[o[1]]
      BY FrameTypes
    <2>2. \A p \in Frames : p[1] = o[1] => Same(p)
      BY <1>2
    <2> QED
      BY <2>1, <2>2, EchoOfOthers
  <1>3. ASSUME NEW o \in Frames, o[1] = fr[1]
        PROVE  /\ gate'[o] = "failed" => calm' + Cooldown <= Echo(o[2])
               /\ Returning(o)' /\ pc'[o] = "failed" => calm' <= Echo(o[2])
    <2>1. CASE o = fr
      BY <2>1 DEF Returning, Depth
    <2>2. CASE o # fr
      <3>1. Same(o) /\ Echo(o[2]) \in Nat
        BY <2>2, Echoes, FrameTypes
      <3>2. Returning(o)' => Returning(o)
        BY <3>1 DEF Returning, OnTop, Depth, Same
      <3> QED
        BY <1>1, <3>1, <3>2 DEF EchoInv, FailuresEcho, Same
    <2> QED
      BY <2>1, <2>2
  <1>4. ASSUME NEW o \in Frames, o[1] = fr[1], hurt'[o], at'[o] > 0, o[2] \in Guarded
        PROVE  calm' + Cooldown <= Echo(o[2]) \/ BringsRows(o[1])'
    <2>1. CASE calm' = 0
      BY <1>1, <1>4, <2>1, Echoes, FrameTypes
    <2>2. CASE BringsRows(fr[1])'
      BY <1>4, <2>2
    <2>3. CASE /\ ~ AtProvider(fr[1]) /\ ~ BringsRows(fr[1])
               /\ at'[fr] > 0 /\ hurt'[fr] => at[fr] > 0 /\ hurt[fr]
      <3>1. hurt[o] /\ at[o] > 0
        BY <1>4, <2>3 DEF Same
      <3>2. calm + Cooldown <= Echo(o[2])
        BY <1>4, <2>3, <3>1 DEF EchoInv, HurtEchoes
      <3> QED
        BY <1>1, <3>2, Echoes, FrameTypes
    <2> QED
      BY <2>1, <2>2, <2>3
  <1>5. FailuresEcho' /\ HurtEchoes'
    BY <1>2, <1>3, <1>4 DEF FailuresEcho, HurtEchoes, Echo
  <1> QED
    BY <1>5 DEF EchoInv

\* No cooldown starts in a step that leaves the breakers as they are.
LEMMA CoolingStays ==
    ASSUME FrameInv, CoolingEchoes, cooling' = cooling, calm' \in {0, calm}
    PROVE  CoolingEchoes'
  <1>1. calm \in Nat /\ calm' \in Nat /\ calm' <= calm
    BY ForgottenAssumption DEF FrameInv, OutageTypeOK
  <1> SUFFICES ASSUME NEW f \in Guarded, cooling[BreakerOf[f]] > 0
               PROVE  calm' + cooling[BreakerOf[f]] <= Echo(f)
    BY DEF CoolingEchoes, Echo
  <1>2. f \in Fns /\ BreakerOf[f] \in Names
    BY FnsAssumption, NamesAssumption
  <1>3. cooling[BreakerOf[f]] \in Nat /\ Echo(f) \in Nat
    BY <1>2, Echoes, BreakerAssumption DEF FrameInv, TypeOK, Breaker!TypeOK
  <1>4. calm + cooling[BreakerOf[f]] <= Echo(f)
    BY DEF CoolingEchoes
  <1> QED
    BY <1>1, <1>3, <1>4

OwnStep(fr) ==
    /\ stack' = stack /\ start' = start /\ now' = now
    /\ \A o \in Frames : o # fr => Same(o)

LEMMA LookSteps ==
    ASSUME FrameInv, StacksAreNested, EchoInv, NEW fr \in Frames, OnTop(fr), Look(fr),
           calm' = calm, tried' = [tried EXCEPT ![fr] = {}]
    PROVE  StacksAreNested' /\ EchoInv'
  <1> USE DEF Look, Cache!Lookup, breakerVars
  <1>1. /\ OwnStep(fr) /\ gate' = gate /\ cooling' = cooling /\ hurt'[fr] = FALSE
        /\ pc[fr] = "looking" /\ pc'[fr] \in {"done", "producing"}
    BY DEF OwnStep, Same, FrameInv, TypeOK, Cache!TypeOK
  <1>2. \A o \in Frames : o # fr => tried[o] \subseteq tried'[o]
    BY DEF FrameInv, OutageTypeOK
  <1>3. StacksAreNested'
    BY <1>1, <1>2, StackStays DEF OwnStep, Same
  <1>4. ~ AtProvider(fr[1]) /\ ~ BringsRows(fr[1]) /\ gate[fr] # "failed"
    BY <1>1, TopDecides, FrameTypes DEF InBody, FrameOK, Breaker!Inside
  <1>5. EchoInv'
    BY <1>1, <1>4, EchoStays, CoolingStays DEF OwnStep, EchoInv
  <1> QED
    BY <1>3, <1>5

LEMMA AdmittedSteps ==
    ASSUME FrameInv, StacksAreNested, EchoInv, NEW fr \in Frames, OnTop(fr), Admitted(fr),
           calm' = calm, tried' = [tried EXCEPT ![fr] = {}]
    PROVE  StacksAreNested' /\ EchoInv'
  <1> USE DEF Admitted, AtGate, Breaker!Admit, Breaker!Enter, cacheVars
  <1>1. /\ OwnStep(fr) /\ gate'[fr] = "calling" /\ cooling' = cooling /\ hurt' = hurt
        /\ pc[fr] = "producing" /\ at[fr] = 0 /\ pc' = pc /\ gate[fr] \in Breaker!Outside
    BY DEF OwnStep, Same, FrameInv, TypeOK, Cache!TypeOK, Breaker!TypeOK
  <1>2. \A o \in Frames : o # fr => tried[o] \subseteq tried'[o]
    BY DEF FrameInv, OutageTypeOK
  <1>3. StacksAreNested'
    BY <1>1, <1>2, StackStays DEF OwnStep, Same
  <1>4. /\ ~ AtProvider(fr[1]) /\ ~ BringsRows(fr[1]) /\ ~ hurt[fr]
    BY <1>1, TopDecides, FrameTypes DEF InBody, FrameOK, Breaker!Inside, Breaker!Outside
  <1>5. EchoInv'
    BY <1>1, <1>4, EchoStays, CoolingStays DEF OwnStep, EchoInv
  <1> QED
    BY <1>3, <1>5

LEMMA RefusedSteps ==
    ASSUME FrameInv, StacksAreNested, EchoInv, NEW fr \in Frames, OnTop(fr), Refused(fr),
           calm' = calm, tried' = tried
    PROVE  StacksAreNested' /\ EchoInv'
  <1> USE DEF Refused, AtGate, Breaker!Refuse, Breaker!Enter, Cache!ProducerRaises, bodyVars
  <1>1. /\ OwnStep(fr) /\ gate'[fr] = "refused" /\ cooling' = cooling /\ hurt' = hurt
        /\ pc[fr] = "producing" /\ at[fr] = 0 /\ at' = at /\ gate[fr] \in Breaker!Outside
        /\ pc'[fr] = "failed" /\ fr[2] \in Guarded /\ cooling[BreakerOf[fr[2]]] > 0
    BY DEF OwnStep, Same, FrameInv, TypeOK, Cache!TypeOK, Breaker!TypeOK, Breaker!Refusing
  <1>2. StacksAreNested'
    BY <1>1, StackStays DEF OwnStep, Same
  <1>3. ~ AtProvider(fr[1]) /\ ~ BringsRows(fr[1])
    BY <1>1, TopDecides DEF InBody, Breaker!Outside
  <1>4. calm <= Echo(fr[2])
    <2>1. calm + cooling[BreakerOf[fr[2]]] <= Echo(fr[2])
      BY <1>1 DEF EchoInv, CoolingEchoes
    <2>2. calm \in Nat /\ cooling[BreakerOf[fr[2]]] \in Nat /\ Echo(fr[2]) \in Nat
      BY FrameTypes, Echoes, ForgottenAssumption, BreakerAssumption, NamesAssumption
      DEF FrameInv, OutageTypeOK, TypeOK, Breaker!TypeOK
    <2> QED
      BY <2>1, <2>2
  <1>5. EchoInv'
    BY <1>1, <1>3, <1>4, EchoStays, CoolingStays DEF OwnStep, EchoInv
  <1> QED
    BY <1>2, <1>5

LEMMA KeepSteps ==
    ASSUME FrameInv, StacksAreNested, EchoInv, NEW fr \in Frames, OnTop(fr), Keep(fr),
           calm' = calm, tried' = tried
    PROVE  StacksAreNested' /\ EchoInv'
  <1> USE DEF Keep, Cache!Store, bodyVars, breakerVars
  <1>1. /\ OwnStep(fr) /\ gate' = gate /\ cooling' = cooling /\ hurt' = hurt /\ rows' = rows
        /\ pc[fr] = "storing" /\ at' = at /\ pc'[fr] = "done"
    BY DEF OwnStep, Same, FrameInv, TypeOK, Cache!TypeOK
  <1>2. StacksAreNested'
    BY <1>1, StackStays DEF OwnStep, Same
  <1>3. gate[fr] \notin Breaker!Inside /\ at[fr] = 0
    BY <1>1, FrameTypes DEF FrameOK
  <1>4. ~ AtProvider(fr[1]) /\ (~ rows[fr] => ~ BringsRows(fr[1]))
    BY <1>1, TopDecides DEF InBody
  <1>5. rows[fr] => BringsRows(fr[1])'
    <2>1. fr = <<fr[1], fr[2]>> /\ fr[2] \in Fns /\ OnTop(fr)'
      BY FrameTypes DEF OnTop, Depth
    <2> QED
      BY <1>1, <2>1 DEF BringsRows
  <1>6. EchoInv'
    BY <1>1, <1>3, <1>4, <1>5, EchoStays, CoolingStays DEF OwnStep, EchoInv, Breaker!Inside
  <1> QED
    BY <1>2, <1>6

LEMMA RecordedSteps ==
    ASSUME FrameInv, StacksAreNested, EchoInv, NEW fr \in Frames, OnTop(fr), Recorded(fr),
           calm' = calm, tried' = tried
    PROVE  StacksAreNested' /\ EchoInv'
  <1> USE DEF Recorded, bodyVars
  <1>1. /\ \/ /\ gate[fr] = "succeeded"
              /\ gate' = [gate EXCEPT ![fr] = "ok"]
              /\ pc' = [pc EXCEPT ![fr] = "storing"]
              /\ value' = [value EXCEPT ![fr] = got[fr]]
              /\ cooling' = [cooling EXCEPT ![BreakerOf[fr[2]]] = 0]
           \/ /\ gate[fr] = "failed"
              /\ gate' = [gate EXCEPT ![fr] = "raised"]
              /\ pc' = [pc EXCEPT ![fr] = "failed"]
              /\ value' = value
              /\ cooling' = cooling \/ cooling' = [cooling EXCEPT ![BreakerOf[fr[2]]] = Cooldown]
        /\ pc[fr] = "producing"
        /\ UNCHANGED <<now, store, start>>
    BY FrameTypes
    DEF Breaker!RecordSuccess, Breaker!RecordFailure, Cache!Produced, Cache!ProducerRaises,
        Breaker!CooldownLeft
  <1>2. at[fr] = 0 /\ at' = at /\ hurt' = hurt /\ rows' = rows
    BY <1>1, FrameTypes DEF FrameOK, Breaker!Inside
  <1>3. OwnStep(fr)
    BY <1>1 DEF OwnStep, Same, FrameInv, TypeOK, Cache!TypeOK, Breaker!TypeOK
  <1>4. /\ gate'[fr] \in {"ok", "raised"} /\ pc'[fr] \in {"storing", "failed"}
        /\ gate[fr] = "succeeded" => pc'[fr] = "storing"
    BY <1>1 DEF FrameInv, TypeOK, Cache!TypeOK, Breaker!TypeOK
  <1>5. StacksAreNested'
    BY <1>3, <1>4, StackStays DEF OwnStep, Same
  <1>6. /\ calm \in Nat /\ Cooldown \in Nat /\ fr[2] \in Fns /\ Echo(fr[2]) \in Nat
        /\ gate[fr] = "failed" => calm + Cooldown <= Echo(fr[2])
        /\ \A f \in Guarded : cooling[BreakerOf[f]] \in Nat /\ Echo(f) \in Nat
        /\ \A f \in Guarded :
              cooling[BreakerOf[f]] > 0 => calm + cooling[BreakerOf[f]] <= Echo(f)
    BY FrameTypes, Echoes, ForgottenAssumption, BreakerAssumption, FnsAssumption, NamesAssumption
    DEF FrameInv, OutageTypeOK, TypeOK, Breaker!TypeOK, EchoInv, FailuresEcho, CoolingEchoes
  <1>7. CoolingEchoes'
    <2> SUFFICES ASSUME NEW f \in Guarded, cooling'[BreakerOf[f]] > 0
                 PROVE  calm + cooling'[BreakerOf[f]] <= Echo(f)
      BY DEF CoolingEchoes, Echo
    <2> DEFINE n == BreakerOf[f]
    <2>1. n \in Names
      BY FnsAssumption, NamesAssumption
    <2>2. \/ cooling'[n] = cooling[n]
          \/ cooling'[n] = 0
          \/ n = BreakerOf[fr[2]] /\ cooling'[n] = Cooldown /\ gate[fr] = "failed"
      BY <1>1, <2>1 DEF FrameInv, TypeOK, Breaker!TypeOK
    <2>3. n = BreakerOf[fr[2]] /\ gate[fr] = "failed" => Echo(f) = Echo(fr[2])
      <3>1. gate[fr] = "failed" => fr[2] \in Guarded
        BY FrameTypes DEF FrameOK, Breaker!Inside
      <3> QED
        BY <3>1, SharedAssumption DEF Echo
    <2> QED
      BY <1>6, <2>2, <2>3
  <1>8. /\ ~ AtProvider(fr[1])
        /\ gate[fr] = "failed" \/ ~ rows[fr] => ~ BringsRows(fr[1])
    BY <1>1, <1>2, TopDecides DEF InBody
  <1>9. gate[fr] = "succeeded" /\ rows[fr] => BringsRows(fr[1])'
    <2>1. fr = <<fr[1], fr[2]>> /\ fr[2] \in Fns /\ OnTop(fr)'
      BY FrameTypes DEF OnTop, Depth
    <2> QED
      BY <1>2, <1>4, <2>1 DEF BringsRows
  <1>10. /\ pc'[fr] = "failed" => calm' <= Echo(fr[2])
         /\ gate'[fr] # "failed" /\ ~ (at'[fr] > 0)
    BY <1>1, <1>2, <1>4, <1>6
  <1>11. EchoInv'
    BY <1>1, <1>3, <1>7, <1>8, <1>9, <1>10, EchoStays DEF OwnStep
  <1> QED
    BY <1>5, <1>11

LEMMA AskSteps ==
    ASSUME FrameInv, StacksAreNested, EchoInv, NEW fr \in Frames, OnTop(fr),
           NEW outcome \in Outcomes, Ask(fr, outcome),
           calm' = IF outcome = "rows" THEN calm ELSE 0,
           tried' = [tried EXCEPT ![fr] = @ \cup {Here(fr).of}]
    PROVE  StacksAreNested' /\ EchoInv'
  <1>1. /\ at[fr] > 0 /\ pc[fr] = "producing" /\ stack' = stack /\ Take(fr, outcome, now)
    BY DEF Ask, InBody
  <1>2. /\ GoesOn(fr, outcome, now) \/ Returns(fr, outcome, now) \/ Raises(fr, outcome)
        /\ UNCHANGED <<now, store, start, failures, opened, cooling>>
    BY <1>1, TakeEffect
  <1>3. OwnStep(fr)
    BY <1>1, <1>2 DEF OwnStep, Same, GoesOn, Returns, Raises, FrameInv, TypeOK, Cache!TypeOK,
       Breaker!TypeOK
  <1>4. pc'[fr] \in {"producing", "storing", "failed"}
    BY <1>1, <1>2 DEF GoesOn, Returns, Raises, FrameInv, TypeOK, Cache!TypeOK
  <1>5. \A o \in Frames : o # fr => tried[o] \subseteq tried'[o]
    BY DEF FrameInv, OutageTypeOK
  <1>6. StacksAreNested'
    BY <1>3, <1>4, <1>5, StackStays DEF OwnStep, Same
  <1>7. CoolingEchoes'
    BY <1>2, CoolingStays DEF EchoInv
  <1>8. Cooldown \in Nat /\ Echo(fr[2]) \in Nat /\ (fr[2] \in Guarded => Cooldown <= Echo(fr[2]))
    BY FrameTypes, Echoes, BreakerAssumption
  <1>9. CASE outcome = "rows"
    <2>1. Returns(fr, outcome, now)
      BY <1>2, <1>9 DEF GoesOn, Raises
    <2>2. fr[2] \in Fns /\ fr = <<fr[1], fr[2]>> /\ OnTop(fr)'
      BY <1>1, FrameTypes DEF OnTop, Depth
    <2>3. /\ rows'[fr] = TRUE /\ pc'[fr] # "failed" /\ gate'[fr] # "failed"
          /\ gate'[fr] = "succeeded" \/ pc'[fr] = "storing"
      BY <1>1, <1>9, <2>1, FrameTypes
      DEF Returns, FrameInv, TypeOK, Cache!TypeOK, Breaker!TypeOK, FrameOK, Breaker!Inside
    <2>4. BringsRows(fr[1])'
      BY <2>2, <2>3 DEF BringsRows
    <2> QED
      BY <1>3, <1>6, <1>7, <1>9, <2>3, <2>4, EchoStays DEF OwnStep
  <1>10. CASE outcome # "rows"
    <2>1. calm' = 0
      BY <1>10
    <2>2. gate'[fr] = "failed" => fr[2] \in Guarded
      BY <1>2, FrameTypes
      DEF GoesOn, Returns, Raises, FrameInv, TypeOK, Breaker!TypeOK, FrameOK, Breaker!Inside
    <2> QED
      BY <1>3, <1>6, <1>7, <1>8, <2>1, <2>2, EchoStays DEF OwnStep
  <1> QED
    BY <1>9, <1>10

\* Frames that have ended, and those of threads that are outside, say nothing.
LEMMA EndedFrames ==
    ASSUME FrameInv, NEW o \in Frames, pc[o] \in Cache!Ended \cup {"looking"}
    PROVE  at[o] = 0 /\ gate[o] \notin Breaker!Inside
  BY FrameTypes DEF FrameOK, Cache!Ended

LEMMA FreeFrames ==
    ASSUME FrameInv, StacksAreNested, NEW o \in Frames, Free(o[1])
    PROVE  pc[o] \in Cache!Ended /\ ~ Returning(o)
  <1>1. o = <<o[1], o[2]>> /\ o[1] \in Threads /\ o[2] \in Fns
    BY FrameTypes
  <1>2. pc[<<o[1], o[2]>>] \notin Cache!Ended => \E i \in 1 .. Depth(o[1]) : stack[o[1]][i] = o[2]
    BY <1>1 DEF StacksAreNested
  <1>3. Depth(o[1]) = 0 \/ (Depth(o[1]) = 1 /\ pc[<<o[1], stack[o[1]][1]>>] \in Cache!Ended)
    BY DEF Free
  <1>4. pc[o] \in Cache!Ended
    BY <1>1, <1>2, <1>3
  <1> QED
    BY <1>3, <1>4 DEF Returning

LEMMA RequestEcho ==
    ASSUME FrameInv, StacksAreNested, EchoInv, NEW t \in Threads, NEW f \in Fns,
           Request(t, f), calm' = calm, tried' = tried
    PROVE  EchoInv'
  <1> USE DEF Request, Cache!Begin, bodyVars, breakerVars
  <1>1. /\ stack' = [stack EXCEPT ![t] = <<f>>] /\ pc' = [pc EXCEPT ![<<t, f>>] = "looking"]
        /\ UNCHANGED <<at, gate, hurt, rows, got, cooling>>
        /\ start' = [start EXCEPT ![<<t, f>>] = now]
        /\ value' = [value EXCEPT ![<<t, f>>] = 0]
    OBVIOUS
  <1>2. CoolingEchoes'
    BY <1>1, CoolingStays DEF EchoInv
  <1>3. ASSUME NEW o \in Frames, o[1] = t
        PROVE  gate'[o] # "failed" /\ ~ Returning(o)' /\ ~ (at'[o] > 0)
    <2>1. pc[o] \in Cache!Ended
      BY <1>3, FreeFrames
    <2>2. at[o] = 0 /\ gate[o] \notin Breaker!Inside
      BY <2>1, EndedFrames
    <2>3. stack'[t] = <<f>> /\ Len(<<f>>) = 1
      BY <1>1 DEF FrameInv, TypeOK
    <2> QED
      BY <1>1, <1>3, <2>2, <2>3 DEF Returning, Depth, Breaker!Inside
  <1>4. ASSUME NEW o \in Frames, o[1] # t
        PROVE  /\ gate'[o] = "failed" => calm' + Cooldown <= Echo(o[2])
               /\ Returning(o)' /\ pc'[o] = "failed" => calm' <= Echo(o[2])
               /\ hurt'[o] /\ at'[o] > 0 /\ o[2] \in Guarded =>
                     calm' + Cooldown <= Echo(o[2]) \/ AtProvider(o[1])' \/ BringsRows(o[1])'
    <2>1. o[1] \in Threads /\ stack'[o[1]] = stack[o[1]]
      BY <1>1, <1>4, FrameTypes DEF FrameInv, TypeOK
    <2>2. \A p \in Frames : p[1] = o[1] => Same(p)
      BY <1>1, <1>4 DEF Same, FrameInv, TypeOK, Cache!TypeOK
    <2> QED
      BY <2>1, <2>2, EchoOfOthers
  <1>5. FailuresEcho' /\ HurtEchoes'
    BY <1>3, <1>4 DEF FailuresEcho, HurtEchoes, Echo
  <1> QED
    BY <1>2, <1>5 DEF EchoInv

LEMMA DescendEcho ==
    ASSUME FrameInv, StacksAreNested, EchoInv, NEW fr \in Frames, OnTop(fr), Descend(fr),
           calm' = calm
    PROVE  EchoInv'
  <1> DEFINE t == fr[1]
  <1>1. PICK g \in Fns : /\ g = Here(fr).of /\ pc[<<t, g>>] \in Cache!Ended
                         /\ stack' = [stack EXCEPT ![t] = Append(stack[t], g)]
                         /\ pc' = [pc EXCEPT ![<<t, g>>] = "looking"]
                         /\ start' = [start EXCEPT ![<<t, g>>] = now]
                         /\ value' = [value EXCEPT ![<<t, g>>] = 0]
    BY DEF Descend, Cache!Begin
  <1>2. UNCHANGED <<at, gate, hurt, rows, got, cooling>> /\ InBody(fr)
    BY DEF Descend, bodyVars, breakerVars
  <1>3. t \in Threads /\ g \notin Providers
    BY <1>1, FrameTypes, PlanAssumption
  <1>4. CoolingEchoes'
    BY <1>2, CoolingStays DEF EchoInv
  <1>5. ~ AtProvider(t) /\ ~ BringsRows(t)
    <2>1. pc[fr] = "producing" /\ gate[fr] # "succeeded"
      BY <1>2, FrameTypes DEF InBody, FrameOK, Breaker!Inside
    <2> QED
      BY <1>1, <1>3, <2>1, TopDecides
  <1>6. PICK d \in Nat : /\ d > 0 /\ stack'[t] = Append(stack[t], g)
                         /\ Depth(t)' = d + 1 /\ stack'[t][d + 1] = g
    <2>1. /\ Depth(t) \in Nat \ {0} /\ stack[t] \in Seq(Fns) /\ Len(stack[t]) = Depth(t)
      BY <1>3, TopPlace, Places DEF Depth
    <2>2. stack'[t] = Append(stack[t], g)
      BY <1>1, <1>3 DEF FrameInv, TypeOK
    <2>3. Len(Append(stack[t], g)) = Len(stack[t]) + 1 /\ Append(stack[t], g)[Len(stack[t]) + 1] = g
      BY <2>1, AppendProperties
    <2> QED
      BY <2>1, <2>2, <2>3 DEF Depth
  <1>7. ASSUME NEW o \in Frames, o[1] = t
        PROVE  /\ gate'[o] = "failed" => calm' + Cooldown <= Echo(o[2])
               /\ ~ (Returning(o)' /\ pc'[o] = "failed")
               /\ hurt'[o] /\ at'[o] > 0 /\ o[2] \in Guarded => calm' + Cooldown <= Echo(o[2])
    <2>1. gate'[o] = "failed" => calm' + Cooldown <= Echo(o[2])
      BY <1>2 DEF EchoInv, FailuresEcho
    <2>2. ~ (Returning(o)' /\ pc'[o] = "failed")
      <3>1. OnTop(o)' => o = <<t, g>>
        BY <1>6, <1>7, FrameTypes DEF OnTop
      <3>2. <<t, g>> \in Frames
        BY <1>3 DEF Frames
      <3>3. pc'[<<t, g>>] = "looking"
        BY <1>1, <3>2 DEF FrameInv, TypeOK, Cache!TypeOK
      <3> QED
        BY <3>1, <3>3 DEF Returning
    <2>3. hurt'[o] /\ at'[o] > 0 /\ o[2] \in Guarded => calm' + Cooldown <= Echo(o[2])
      BY <1>2, <1>5, <1>7 DEF EchoInv, HurtEchoes
    <2> QED
      BY <2>1, <2>2, <2>3
  <1>8. ASSUME NEW o \in Frames, o[1] # t
        PROVE  /\ gate'[o] = "failed" => calm' + Cooldown <= Echo(o[2])
               /\ Returning(o)' /\ pc'[o] = "failed" => calm' <= Echo(o[2])
               /\ hurt'[o] /\ at'[o] > 0 /\ o[2] \in Guarded =>
                     calm' + Cooldown <= Echo(o[2]) \/ AtProvider(o[1])' \/ BringsRows(o[1])'
    <2>1. o[1] \in Threads /\ stack'[o[1]] = stack[o[1]]
      BY <1>1, <1>8, FrameTypes DEF FrameInv, TypeOK
    <2>2. \A p \in Frames : p[1] = o[1] => Same(p)
      BY SMTT(30), <1>1, <1>2, <1>8 DEF Same, FrameInv, TypeOK, Cache!TypeOK
    <2> QED
      BY <2>1, <2>2, EchoOfOthers
  <1>9. FailuresEcho' /\ HurtEchoes'
    BY <1>7, <1>8 DEF FailuresEcho, HurtEchoes, Echo
  <1> QED
    BY <1>4, <1>9 DEF EchoInv

LEMMA AscendSteps ==
    ASSUME FrameInv, StacksAreNested, EchoInv, NEW fr \in Frames, OnTop(fr), Ascend(fr),
           calm' = calm, tried' = tried
    PROVE  StacksAreNested' /\ EchoInv'
  <1>1. PICK c \in Frames : c = Caller(fr)
    BY AscendTakes, CallerBelow
  <1>2. PICK h \in Outcomes : h = HandedUp(fr)
    BY AscendTakes
  <1>3. Depth(fr[1]) > 1 /\ pc[fr] \in Cache!Ended
    BY AscendTakes
  <1>4. /\ c # fr /\ c[1] = fr[1] /\ at[c] > 0 /\ c[2] \in Guarded
        /\ c = Place(fr[1], Depth(fr[1]) - 1) /\ Echo(fr[2]) + Cooldown <= Echo(c[2])
    BY <1>1, <1>3, CallerBelow
  <1>5. /\ GoesOn(c, h, value[fr]) \/ Returns(c, h, value[fr]) \/ Raises(c, h)
        /\ UNCHANGED <<now, store, start, failures, opened, cooling>>
    BY <1>1, <1>2, AscendMoves
  <1>6. \A o \in Frames : o # c => Same(o)
    BY <1>5 DEF Same, GoesOn, Returns, Raises, FrameInv, TypeOK, Cache!TypeOK, Breaker!TypeOK
  <1>7. pc[c] = "producing" /\ gate[c] = "calling"
    BY <1>4, FrameTypes DEF FrameOK
  <1>8. /\ pc'[c] = "producing" /\ at' \in [Frames -> Nat]
        /\ gate'[c] \in {"calling", "succeeded", "failed"}
        /\ h = "rows" => gate'[c] = "succeeded" /\ rows'[c] = TRUE /\ at'[c] = 0
    <2>1. CASE GoesOn(c, h, value[fr])
      BY <1>7, <2>1, FrameTypes DEF GoesOn, FrameInv, TypeOK
    <2>2. CASE Returns(c, h, value[fr])
      BY <1>4, <1>7, <2>2 DEF Returns, FrameInv, TypeOK, Breaker!TypeOK
    <2>3. CASE Raises(c, h)
      BY <1>4, <1>7, <2>3 DEF Raises, FrameInv, TypeOK, Breaker!TypeOK
    <2> QED
      BY <1>5, <2>1, <2>2, <2>3
  <1>9. stack' = [stack EXCEPT ![fr[1]] = SubSeq(@, 1, Len(@) - 1)]
    BY DEF Ascend
  <1>10. StacksAreNested'
    BY <1>1, <1>3, <1>5, <1>6, <1>8, <1>9, AscendStacks DEF Same
  <1>11. CoolingEchoes'
    BY <1>5, CoolingStays DEF EchoInv
  <1>12. OnTop(c)' /\ \A o \in Frames : o[1] = fr[1] /\ OnTop(o)' => o = c
    <2>1. /\ fr[1] \in Threads /\ stack[fr[1]] \in Seq(Fns) /\ Len(stack[fr[1]]) = Depth(fr[1])
          /\ Depth(fr[1]) \in Nat
      BY FrameTypes, Places DEF Depth
    <2>2. PICK r : r = SubSeq(stack[fr[1]], 1, Depth(fr[1]) - 1)
      OBVIOUS
    <2>3. /\ Len(r) = Depth(fr[1]) - 1
          /\ r[Depth(fr[1]) - 1] = stack[fr[1]][Depth(fr[1]) - 1]
      BY <1>3, <2>1, <2>2, SubSeqProperties
    <2>4. stack'[fr[1]] = r
      BY <1>9, <2>1, <2>2 DEF FrameInv, TypeOK
    <2>5. c[2] = stack[fr[1]][Depth(fr[1]) - 1]
      BY <1>4 DEF Place
    <2>6. Depth(fr[1])' = Depth(fr[1]) - 1
      BY <2>3, <2>4 DEF Depth
    <2>7. Depth(fr[1])' > 0 /\ stack'[fr[1]][Depth(fr[1])'] = c[2]
      BY <1>3, <2>1, <2>3, <2>4, <2>5, <2>6
    <2>8. ASSUME NEW o \in Frames, o[1] = fr[1] PROVE OnTop(o)' <=> o = c
      <3>1. o = <<o[1], o[2]>> /\ c = <<c[1], c[2]>>
        BY FrameTypes
      <3> QED
        BY <1>4, <2>7, <2>8, <3>1 DEF OnTop
    <2> QED
      BY <1>4, <2>8
  <1>13. /\ calm \in Nat /\ Cooldown \in Nat
         /\ \A f \in Fns : Echo(f) \in Nat
         /\ c[2] \in Fns /\ fr[2] \in Fns
    BY Echoes, FrameTypes, ForgottenAssumption, BreakerAssumption DEF FrameInv, OutageTypeOK
  \* Without rows, every exception kept on this stack leaves room for a cooldown.
  <1>14. ASSUME h # "rows"
         PROVE  /\ \A o \in Frames : o[1] = fr[1] /\ hurt[o] /\ at[o] > 0 /\ o[2] \in Guarded =>
                      calm + Cooldown <= Echo(o[2])
                /\ Kept(c, h) => calm + Cooldown <= Echo(c[2])
    <2>1. ~ AtProvider(fr[1]) /\ ~ BringsRows(fr[1])
      <3>1. gate[fr] \notin Breaker!Inside
        BY <1>3, EndedFrames
      <3>2. ~ InBody(fr) /\ (pc[fr] = "failed" \/ ~ rows[fr])
        BY <1>2, <1>3, <1>14 DEF HandedUp, InBody, Cache!Ended
      <3> QED
        BY <1>3, <3>1, <3>2, TopDecides DEF Breaker!Inside, Cache!Ended
    <2>2. \A o \in Frames : o[1] = fr[1] /\ hurt[o] /\ at[o] > 0 /\ o[2] \in Guarded =>
             calm + Cooldown <= Echo(o[2])
      BY <2>1 DEF EchoInv, HurtEchoes
    <2>3. h = "error" => calm <= Echo(fr[2])
      <3>1. h = "error" => pc[fr] = "failed"
        BY <1>2 DEF HandedUp
      <3> QED
        BY <1>3, <3>1 DEF EchoInv, FailuresEcho, Returning
    <2>4. Kept(c, h) => hurt[c] \/ h = "error"
      BY DEF Kept
    <2> QED
      BY <1>4, <1>13, <2>2, <2>3, <2>4
  <1>15. ASSUME NEW o \in Frames, o[1] = fr[1]
         PROVE  /\ gate'[o] = "failed" => calm + Cooldown <= Echo(o[2])
                /\ ~ (Returning(o)' /\ pc'[o] = "failed")
                /\ hurt'[o] /\ at'[o] > 0 /\ o[2] \in Guarded =>
                      calm + Cooldown <= Echo(o[2]) \/ BringsRows(o[1])'
    <2>1. ~ (Returning(o)' /\ pc'[o] = "failed")
      BY <1>8, <1>12, <1>15 DEF Returning
    <2>2. CASE h = "rows"
      <3>1. BringsRows(o[1])'
        <4>1. c = <<o[1], c[2]>> /\ c[2] \in Fns
          BY <1>4, <1>15, FrameTypes
        <4> QED
          BY <1>8, <1>12, <2>2, <4>1 DEF BringsRows
      <3>2. gate'[o] = "failed" => calm + Cooldown <= Echo(o[2])
        <4>1. CASE o = c
          BY <1>8, <2>2, <4>1
        <4>2. CASE o # c
          BY <1>6, <4>2 DEF EchoInv, FailuresEcho, Same
        <4> QED
          BY <4>1, <4>2
      <3> QED
        BY <2>1, <3>1, <3>2
    <2>3. CASE h # "rows" /\ o # c
      <3>1. Same(o)
        BY <1>6, <2>3
      <3> QED
        BY <1>14, <1>15, <2>1, <2>3, <3>1 DEF Same, EchoInv, FailuresEcho
    <2>4. CASE h # "rows" /\ o = c
      <3>1. CASE GoesOn(c, h, value[fr])
        <4>1. gate'[c] = "calling" /\ (hurt'[c] => Kept(c, h))
          BY <1>7, <3>1 DEF GoesOn, FrameInv, TypeOK
        <4> QED
          BY <1>14, <2>1, <2>4, <4>1
      <3>2. CASE Returns(c, h, value[fr])
        <4>1. gate'[c] = "succeeded" /\ at'[c] = 0
          BY <1>4, <3>2 DEF Returns, FrameInv, TypeOK, Breaker!TypeOK
        <4> QED
          BY <2>1, <2>4, <4>1
      <3>3. CASE Raises(c, h)
        <4>1. Kept(c, h) /\ at'[c] = 0
          BY <3>3 DEF Raises, FrameInv, TypeOK
        <4> QED
          BY <1>14, <2>1, <2>4, <4>1
      <3> QED
        BY <1>5, <3>1, <3>2, <3>3
    <2> QED
      BY <2>2, <2>3, <2>4
  <1>16. ASSUME NEW o \in Frames, o[1] # fr[1]
         PROVE  /\ gate'[o] = "failed" => calm' + Cooldown <= Echo(o[2])
                /\ Returning(o)' /\ pc'[o] = "failed" => calm' <= Echo(o[2])
                /\ hurt'[o] /\ at'[o] > 0 /\ o[2] \in Guarded =>
                      calm' + Cooldown <= Echo(o[2]) \/ AtProvider(o[1])' \/ BringsRows(o[1])'
    <2>1. o[1] \in Threads /\ stack'[o[1]] = stack[o[1]]
      BY <1>9, <1>16, FrameTypes DEF FrameInv, TypeOK
    <2>2. \A p \in Frames : p[1] = o[1] => Same(p)
      BY <1>4, <1>6, <1>16
    <2> QED
      BY <2>1, <2>2, EchoOfOthers
  <1>17. FailuresEcho' /\ HurtEchoes'
    BY <1>15, <1>16 DEF FailuresEcho, HurtEchoes, Echo
  <1> QED
    BY <1>10, <1>11, <1>17 DEF EchoInv

\* A tick passes only while no exception is on its way.
LEMMA TickEcho ==
    ASSUME FrameInv, StacksAreNested, EchoInv, Tick, tried' = tried,
           calm' = IF calm < Forgotten THEN calm + 1 ELSE calm
    PROVE  StacksAreNested' /\ EchoInv'
  <1> USE DEF Tick, Cache!Tick, bodyVars
  <1>1. /\ UNCHANGED <<stack, pc, start, at, gate, hurt, rows>>
        /\ \A t \in Threads : Waits(t)
        /\ cooling' = [n \in Names |-> IF cooling[n] > 0 THEN cooling[n] - 1 ELSE 0]
    OBVIOUS
  <1>2. StacksAreNested'
    <2>1. ASSUME NEW t \in Threads PROVE Nested(t, stack'[t], at', tried', start', pc')
      BY <1>1, NestedByThread
    <2> QED
      BY <2>1, NestedByThreadNext
  <1>3. CoolingEchoes'
    <2> SUFFICES ASSUME NEW f \in Guarded, cooling'[BreakerOf[f]] > 0
                 PROVE  calm' + cooling'[BreakerOf[f]] <= Echo(f)
      BY DEF CoolingEchoes, Echo
    <2> DEFINE n == BreakerOf[f]
    <2>0. n \in Names /\ f \in Fns
      BY FnsAssumption, NamesAssumption
    <2>1. cooling[n] \in Nat /\ calm \in Nat /\ Forgotten \in Nat /\ Echo(f) \in Nat
      BY <2>0, Echoes, ForgottenAssumption, BreakerAssumption
      DEF FrameInv, OutageTypeOK, TypeOK, Breaker!TypeOK
    <2>2. cooling[n] > 0 /\ cooling'[n] = cooling[n] - 1
      BY <1>1, <2>0, <2>1
    <2>3. calm + cooling[n] <= Echo(f)
      BY <2>2 DEF EchoInv, CoolingEchoes
    <2> QED
      BY <2>1, <2>2, <2>3
  <1>4. ASSUME NEW o \in Frames, pc[o] = "producing" \/ Returning(o)
        PROVE  /\ AtProvider(o[1])
               /\ Returning(o) => pc[o] # "failed"
               /\ gate[o] \notin {"succeeded", "failed"}
    <2>1. o[1] \in Threads /\ o[2] \in Fns /\ o = <<o[1], o[2]>>
      BY FrameTypes
    <2>2. AtProvider(o[1])
      <3>1. ~ Free(o[1])
        BY <1>4, FreeFrames DEF Cache!Ended
      <3> QED
        BY <1>1, <2>1, <3>1 DEF Waits
    <2>3. PICK f \in Fns : InBody(<<o[1], f>>)
      BY <2>2 DEF AtProvider
    <2>4. Returning(o) => pc[o] # "failed"
      BY <2>1, <2>3 DEF Returning, InBody, OnTop
    <2>5. ASSUME gate[o] \in {"succeeded", "failed"} PROVE FALSE
      <3>1. at[o] = 0 /\ pc[o] = "producing"
        BY <2>5, FrameTypes DEF FrameOK, Breaker!Inside
      <3>2. PICK i \in 1 .. Depth(o[1]) : stack[o[1]][i] = o[2]
        BY <2>1, <3>1 DEF StacksAreNested, Cache!Ended
      <3>3. CASE i = Depth(o[1])
        BY <2>1, <2>3, <3>1, <3>2, <3>3 DEF InBody, OnTop
      <3>4. CASE i # Depth(o[1])
        <4>1. i \in 1 .. Depth(o[1]) - 1
          BY <2>1, <3>4, Places
        <4>2. at[Place(o[1], i)] > 0
          BY <2>1, <4>1 DEF StacksAreNested
        <4> QED
          BY <2>1, <3>1, <3>2, <4>2 DEF Place
      <3> QED
        BY <3>3, <3>4
    <2> QED
      BY <2>2, <2>4, <2>5
  <1>5. FailuresEcho'
    <2> SUFFICES ASSUME NEW o \in Frames
                 PROVE  gate[o] # "failed" /\ ~ (Returning(o) /\ pc[o] = "failed")
      BY <1>1 DEF FailuresEcho, Returning, OnTop, Depth
    <2>1. gate[o] = "failed" => pc[o] = "producing"
      BY FrameTypes DEF FrameOK, Breaker!Inside
    <2> QED
      BY <1>4, <2>1
  <1>6. HurtEchoes'
    <2> SUFFICES ASSUME NEW o \in Frames, at[o] > 0 PROVE AtProvider(o[1])
      BY ZenonT(60), <1>1 DEF HurtEchoes, AtProvider, InBody, OnTop, Depth, Here
    <2>1. pc[o] = "producing"
      BY FrameTypes DEF FrameOK
    <2> QED
      BY <1>4, <2>1
  <1> QED
    BY <1>2, <1>3, <1>5, <1>6 DEF EchoInv

-----------------------------------------------------------------------------
(* The theorems.                                                           *)

LEMMA OutageInvParts == OutageInv <=> FrameInv /\ StacksAreNested /\ EchoInv
  BY DEF OutageInv, FrameInv, EchoInv

LEMMA OutageInvPartsNext == OutageInv' <=> FrameInv' /\ StacksAreNested' /\ EchoInv'
  BY DEF OutageInv, FrameInv, EchoInv

LEMMA InitOutage == OutageInit => OutageInv
  <1> SUFFICES ASSUME OutageInit PROVE OutageInv
    OBVIOUS
  <1> USE DEF OutageInit, Init, Cache!Init, Breaker!Init
  <1>1. FrameInv
    BY InitFrames
  <1>2. ASSUME NEW t \in Threads PROVE Nested(t, stack[t], at, tried, start, pc)
    <2>1. stack[t] = <<>> /\ Len(stack[t]) = 0
      BY EmptySeq
    <2>2. \A f \in Fns : pc[<<t, f>>] \in Cache!Ended
      BY DEF Frames, Cache!Ended
    <2> QED
      BY <2>1, <2>2 DEF Nested
  <1>3. StacksAreNested
    BY <1>2, NestedByThread
  <1>4. EchoInv
    BY FnsAssumption, NamesAssumption DEF EchoInv, CoolingEchoes, FailuresEcho, HurtEchoes
  <1> QED
    BY <1>1, <1>3, <1>4, OutageInvParts

LEMMA StepOutage == OutageInv /\ [OutageNext]_outageVars => OutageInv'
  <1> SUFFICES ASSUME OutageInv, [OutageNext]_outageVars PROVE OutageInv'
    OBVIOUS
  <1>0. FrameInv /\ StacksAreNested /\ EchoInv
    BY OutageInvParts
  <1>1. CASE /\ Tick
             /\ calm' = IF calm < Forgotten THEN calm + 1 ELSE calm
             /\ UNCHANGED tried
    <2>1. calm' \in 0 .. Forgotten
      BY <1>0, <1>1, ForgottenAssumption DEF FrameInv, OutageTypeOK
    <2> QED
      BY <1>0, <1>1, <2>1, TickFrames, TickEcho, OutageInvPartsNext
  <1>2. ASSUME NEW t \in Threads, NEW f \in Fns, Request(t, f), UNCHANGED <<calm, tried>>
        PROVE  OutageInv'
    <2>1. <<t, f>> \in Frames /\ f = <<t, f>>[2] /\ Cache!Begin(<<t, f>>, f)
      BY <1>2 DEF Frames, Request
    <2>2. stack' \in [Threads -> Seq(Fns)] /\ UNCHANGED <<breakerVars, bodyVars, filled>>
      BY <1>0, <1>2 DEF Request, FrameInv, TypeOK
    <2>3. OutageTypeOK' /\ \A o \in Frames : tried[o] \subseteq tried'[o]
      BY <1>0, <1>2 DEF FrameInv, OutageTypeOK
    <2>4. FrameInv'
      BY <1>0, <2>1, <2>2, <2>3, BeginFrames
    <2> QED
      BY <1>0, <1>2, <2>4, RequestStacks, RequestEcho, OutageInvPartsNext
  <1>3. ASSUME NEW fr \in Frames, OnTop(fr), BodyBegins(fr)
        PROVE  OutageInv'
    <2>1. calm' = calm /\ tried' = [tried EXCEPT ![fr] = {}]
      BY <1>3 DEF BodyBegins
    <2>2. OutageTypeOK'
      BY <1>0, <2>1 DEF FrameInv, OutageTypeOK
    <2> QED
      BY <1>0, <1>3, <2>1, <2>2, LookFrames, LookSteps, AdmittedFrames, AdmittedSteps,
         OutageInvPartsNext DEF BodyBegins
  <1>4. ASSUME NEW fr \in Frames, OnTop(fr), Tries(fr)
        PROVE  OutageInv'
    <2>1. tried' = [tried EXCEPT ![fr] = @ \cup {Here(fr).of}]
      BY <1>4 DEF Tries
    <2>2. CASE Descend(fr) /\ calm' = calm
      BY <1>0, <1>4, <2>1, <2>2, DescendFrames, DescendStacks, DescendEcho, OutageInvPartsNext
      DEF FrameInv
    <2>3. ASSUME NEW outcome \in Outcomes, Ask(fr, outcome),
                 calm' = IF outcome = "rows" THEN calm ELSE 0
          PROVE  OutageInv'
      <3>1. calm' \in {0, calm}
        BY <2>3
      <3> QED
        BY <1>0, <1>4, <2>1, <2>3, <3>1, AskFrames, AskSteps, OutageInvPartsNext
    <2> QED
      BY <1>4, <2>2, <2>3 DEF Tries, Outcomes
  <1>5. ASSUME NEW fr \in Frames, OnTop(fr), UNCHANGED <<calm, tried>>,
               Refused(fr) \/ Ascend(fr) \/ Recorded(fr) \/ Keep(fr)
        PROVE  OutageInv'
    BY <1>0, <1>5, RefusedFrames, RefusedSteps, AscendFrames, AscendSteps, RecordedFrames,
       RecordedSteps, KeepFrames, KeepSteps, OutageInvPartsNext
  <1>6. CASE UNCHANGED outageVars
    <2> USE <1>6 DEF outageVars, vars, cacheVars, breakerVars, bodyVars
    <2>1. FrameInv'
      <3>1. Types'
        BY <1>0 DEF FrameInv, Types, TypeOK, OutageTypeOK, Cache!TypeOK, Breaker!TypeOK,
           Cache!EntriesExpire
      <3>2. ASSUME NEW fr \in Frames PROVE FrameOK(fr, fr[2])'
        <4>1. FrameOK(fr, fr[2])
          BY <1>0, FrameByFrame
        <4> QED
          BY <4>1 DEF FrameOK, Cache!FreshAt
      <3> QED
        BY <3>1, <3>2, FrameByFrameNext
    <2>2. StacksAreNested'
      <3>1. \A t \in Threads : Nested(t, stack'[t], at', tried', start', pc')
        BY <1>0, NestedByThread
      <3> QED
        BY <3>1, NestedByThreadNext
    <2>3. EchoInv'
      BY <1>0 DEF EchoInv, CoolingEchoes, FailuresEcho, HurtEchoes, Echo, Depth, Here, Returning,
         OnTop, InBody, AtProvider, BringsRows
    <2> QED
      BY <2>1, <2>2, <2>3, OutageInvPartsNext
  <1> QED
    BY <1>1, <1>2, <1>3, <1>4, <1>5, <1>6 DEF OutageNext, OutageProceed

LEMMA AlwaysOutageInv == OutageSpec => []OutageInv
  <1>1. OutageInit => OutageInv
    BY InitOutage
  <1>2. OutageInv /\ [OutageNext]_outageVars => OutageInv'
    BY StepOutage
  <1> QED
    BY <1>1, <1>2, PTL DEF OutageSpec

\* Stacks, entries, breakers and bodies keep their types: no body runs past the
\* end of its list of sources.
THEOREM PriceTypes == OutageSpec => []TypeOK
  <1>1. OutageInv => TypeOK
    BY DEF OutageInv
  <1> QED
    BY <1>1, AlwaysOutageInv, PTL

\* However many layers of cache are stacked, and whichever threads fill them,
\* the ages of their answers add up and no more.
THEOREM StackedAgesAddUp == OutageSpec => []AgesAddUp
  <1>1. OutageInv => AgesAddUp
    BY DEF OutageInv
  <1> QED
    BY <1>1, AlwaysOutageInv, PTL

\* No body gives up on a request before it has tried every source in its list.
THEOREM EverySourceIsTried == OutageSpec => []FailuresArePassedOver
  <1>1. OutageInv => FailuresArePassedOver
    BY DEF OutageInv
  <1> QED
    BY <1>1, AlwaysOutageInv, PTL

\* A function n breakers high, whose breaker others may share, refuses for less than
\* n cooldowns after the last failure of a provider, whatever it is stacked on.
THEOREM OutageEchoDiesOut == OutageSpec => []EchoDiesOut
  <1>1. OutageInv => EchoDiesOut
    <2> DEFINE n(f) == BreakerOf[f]
    <2> SUFFICES ASSUME OutageInv, NEW f \in Guarded, Breaker!Refusing(n(f))
                 PROVE  calm < Echo(f)
      BY DEF EchoDiesOut, Echo
    <2>1. cooling[n(f)] \in Nat /\ calm \in Nat /\ Echo(f) \in Nat
      BY Echoes, ForgottenAssumption, BreakerAssumption, FnsAssumption, NamesAssumption
      DEF OutageInv, OutageTypeOK, TypeOK, Breaker!TypeOK
    <2>2. cooling[n(f)] > 0 /\ calm + cooling[n(f)] <= Echo(f)
      BY DEF Breaker!Refusing, OutageInv, CoolingEchoes
    <2> QED
      BY <2>1, <2>2
  <1> QED
    BY <1>1, AlwaysOutageInv, PTL

-----------------------------------------------------------------------------
(* Each layer is a TtlCache, and each breaker a CircuitBreaker: what they  *)
(* promise does not depend on what they are stacked on.                    *)

\* A body that returns hands its cache what a producer may return.
LEMMA TakeIsCached ==
    ASSUME FrameInv, NEW fr \in Frames, NEW outcome \in Outcomes, NEW when \in Int,
           at[fr] > 0, Take(fr, outcome, when),
           outcome # "error" => when + Lag[fr[2]] >= start[fr] /\ when <= now
    PROVE  [Cache!Next]_(Cache!vars)
  <1> DEFINE w == When(fr, outcome, when)
  <1>1. /\ GoesOn(fr, outcome, when) \/ Returns(fr, outcome, when) \/ Raises(fr, outcome)
        /\ UNCHANGED <<now, store, start>>
    BY TakeEffect
  <1>2. pc[fr] = "producing" /\ got[fr] + Lag[fr[2]] >= start[fr] /\ got[fr] <= now
    BY FrameTypes DEF FrameOK
  <1>3. /\ w \in Int /\ w + Lag[fr[2]] >= start[fr] /\ w <= now
        /\ start[fr] \in Nat /\ now \in Nat /\ Lag[fr[2]] \in Nat
    BY <1>2, FrameTypes DEF When
  <1>4. w \in Cache!Producible(fr)
    <2> HIDE DEF w
    <2> QED
      BY <1>3 DEF Cache!Producible
  <1>5. CASE GoesOn(fr, outcome, when)
    BY <1>1, <1>5 DEF GoesOn, Cache!vars
  <1>6. CASE Returns(fr, outcome, when)
    <2>1. CASE UNCHANGED <<pc, value>>
      BY <1>1, <2>1 DEF Cache!vars
    <2>2. CASE pc' = [pc EXCEPT ![fr] = "storing"] /\ value' = [value EXCEPT ![fr] = w]
      <3>1. Cache!Produced(fr, w)
        BY <1>1, <1>2, <2>2 DEF Cache!Produced
      <3> HIDE DEF w
      <3> QED
        BY <1>4, <3>1 DEF Cache!Next, Cache!Call
    <2> QED
      BY <1>6, <2>1, <2>2 DEF Returns
  <1>7. CASE Raises(fr, outcome)
    <2>1. CASE UNCHANGED <<pc, value>>
      BY <1>1, <2>1 DEF Cache!vars
    <2>2. CASE pc' = [pc EXCEPT ![fr] = "failed"] /\ value' = value
      BY <1>1, <1>2, <2>2 DEF Cache!ProducerRaises, Cache!Next, Cache!Call
    <2> QED
      BY <1>7, <2>1, <2>2 DEF Raises
  <1> QED
    BY <1>1, <1>5, <1>6, <1>7

LEMMA TakeIsGuarded ==
    ASSUME FrameInv, NEW fr \in Frames, NEW outcome \in Outcomes, NEW when \in Int,
           at[fr] > 0, Take(fr, outcome, when)
    PROVE  [Breaker!Next]_(Breaker!vars)
  <1>1. /\ GoesOn(fr, outcome, when) \/ Returns(fr, outcome, when) \/ Raises(fr, outcome)
        /\ UNCHANGED <<failures, opened, cooling>>
    BY TakeEffect
  <1>2. fr[2] \in Fns /\ (fr[2] \in Guarded => gate[fr] = "calling")
    BY FrameTypes DEF FrameOK
  <1>3. CASE gate' = gate
    BY <1>1, <1>3 DEF Breaker!vars
  <1>4. ASSUME NEW o \in {"succeeded", "failed"}, fr[2] \in Guarded,
               gate' = [gate EXCEPT ![fr] = o]
        PROVE  [Breaker!Next]_(Breaker!vars)
    <2>1. Breaker!Reply(fr, o)
      BY <1>1, <1>2, <1>4, NamesAssumption DEF Breaker!Reply
    <2> QED
      BY <2>1 DEF Breaker!Next, Breaker!Proceed
  <1>5. CASE GoesOn(fr, outcome, when)
    BY <1>3, <1>5 DEF GoesOn
  <1>6. CASE Returns(fr, outcome, when)
    BY <1>3, <1>4, <1>6 DEF Returns
  <1>7. CASE Raises(fr, outcome)
    BY <1>3, <1>4, <1>7 DEF Raises
  <1> QED
    BY <1>1, <1>5, <1>6, <1>7

LEMMA StepsOfLayers ==
    OutageInv /\ [OutageNext]_outageVars =>
        [Cache!Next]_(Cache!vars) /\ [Breaker!Next]_(Breaker!vars)
  <1> SUFFICES ASSUME OutageInv, [OutageNext]_outageVars
               PROVE  [Cache!Next]_(Cache!vars) /\ [Breaker!Next]_(Breaker!vars)
    OBVIOUS
  <1>0. FrameInv /\ StacksAreNested
    BY OutageInvParts
  <1>1. ASSUME UNCHANGED cacheVars PROVE UNCHANGED Cache!vars
    BY <1>1 DEF cacheVars, Cache!vars
  <1>2. ASSUME UNCHANGED breakerVars PROVE UNCHANGED Breaker!vars
    BY <1>2 DEF breakerVars, Breaker!vars
  <1>3. CASE Tick
    BY <1>3 DEF Tick, Cache!Next, Breaker!Tick, Breaker!Next
  <1>4. ASSUME NEW t \in Threads, NEW f \in Fns, Request(t, f)
        PROVE  [Cache!Next]_(Cache!vars) /\ [Breaker!Next]_(Breaker!vars)
    <2>1. <<t, f>> \in Frames /\ Cache!Begin(<<t, f>>, f) /\ UNCHANGED breakerVars
      BY <1>4 DEF Frames, Request
    <2> QED
      BY <1>2, <2>1 DEF Cache!Next, Cache!Call
  <1>5. ASSUME NEW fr \in Frames, OnTop(fr), OutageProceed(fr)
        PROVE  [Cache!Next]_(Cache!vars) /\ [Breaker!Next]_(Breaker!vars)
    <2>0. /\ fr[2] \in Fns /\ now \in Nat /\ value[fr] \in Int /\ got[fr] \in Int
          /\ start[fr] \in Nat /\ Lag[fr[2]] \in Nat /\ start[fr] <= now
          /\ BreakerOf[fr[2]] \in Names
      BY <1>0, FrameTypes, NamesAssumption DEF FrameOK
    <2>1. CASE Look(fr)
      BY <1>2, <2>1 DEF Look, Cache!Next, Cache!Call
    <2>2. CASE Admitted(fr)
      BY <1>1, <2>0, <2>2 DEF Admitted, Breaker!Next, Breaker!Attempt
    <2>3. CASE Refused(fr)
      BY <2>0, <2>3 DEF Refused, Cache!Next, Cache!Call, Breaker!Next, Breaker!Attempt
    <2>4. CASE Keep(fr)
      BY <1>2, <2>4 DEF Keep, Cache!Next, Cache!Call
    <2>5. CASE Descend(fr)
      <3>1. PICK g \in Fns : g = Here(fr).of /\ Cache!Begin(<<fr[1], g>>, g)
        BY <2>5 DEF Descend, Cache!Begin
      <3>2. <<fr[1], g>> \in Frames /\ UNCHANGED breakerVars
        BY <2>5 DEF Frames, Descend
      <3> QED
        BY <1>2, <3>1, <3>2 DEF Cache!Next, Cache!Call
    <2>6. ASSUME NEW outcome \in Outcomes, Ask(fr, outcome)
          PROVE  [Cache!Next]_(Cache!vars) /\ [Breaker!Next]_(Breaker!vars)
      <3>1. at[fr] > 0 /\ Take(fr, outcome, now)
        BY <2>6 DEF Ask, InBody
      <3>2. now \in Int /\ now + Lag[fr[2]] >= start[fr] /\ now <= now
        BY <2>0
      <3> QED
        BY <1>0, <3>1, <3>2, TakeIsCached, TakeIsGuarded
    <2>7. CASE Ascend(fr)
      <3>1. PICK c \in Frames : c = Caller(fr) /\ at[c] > 0
        BY <1>0, <1>5, <2>7, AscendTakes, CallerBelow
      <3>2. /\ Take(c, HandedUp(fr), value[fr]) /\ HandedUp(fr) \in Outcomes
            /\ HandedUp(fr) # "error" =>
                  value[fr] + Lag[c[2]] >= start[c] /\ value[fr] <= now
        BY <1>0, <1>5, <2>7, <3>1, AscendTakes
      <3> QED
        BY <1>0, <2>0, <3>1, <3>2, TakeIsCached, TakeIsGuarded
    <2>8. CASE Recorded(fr)
      <3>1. CASE Breaker!RecordSuccess(fr) /\ Cache!Produced(fr, got[fr])
        <4>1. pc[fr] = "producing"
          BY <3>1 DEF Cache!Produced
        <4>2. got[fr] + Lag[fr[2]] >= start[fr] /\ got[fr] <= now
          BY <1>0, <4>1, FrameTypes DEF FrameOK
        <4>3. got[fr] \in Cache!Producible(fr)
          BY <2>0, <4>2 DEF Cache!Producible
        <4> QED
          BY <3>1, <4>3 DEF Cache!Next, Cache!Call, Breaker!Next, Breaker!Proceed
      <3>2. CASE Breaker!RecordFailure(fr) /\ Cache!ProducerRaises(fr)
        BY <3>2 DEF Cache!Next, Cache!Call, Breaker!Next, Breaker!Proceed
      <3> QED
        BY <2>8, <3>1, <3>2 DEF Recorded
    <2> QED
      BY <1>5, <2>1, <2>2, <2>3, <2>4, <2>5, <2>6, <2>7, <2>8
      DEF OutageProceed, BodyBegins, Tries, Outcomes
  <1>6. CASE UNCHANGED outageVars
    BY <1>1, <1>2, <1>6 DEF outageVars, vars
  <1> QED
    BY <1>3, <1>4, <1>5, <1>6 DEF OutageNext

\* Wherever a function is in the stack, its cache behaves as TtlCache says: what
\* the layers below hand it is what TtlCache lets a producer return.
THEOREM LayersAreCaches == OutageSpec => Cache!SafeSpec
  <1>1. OutageInit => Cache!Init
    BY DEF OutageInit, Init
  <1>2. OutageInv /\ [OutageNext]_outageVars => [Cache!Next]_(Cache!vars)
    BY StepsOfLayers
  <1> QED
    BY <1>1, <1>2, AlwaysOutageInv, PTL DEF OutageSpec, Cache!SafeSpec

\* However functions share breakers, each breaker behaves as CircuitBreaker says:
\* no thread gets past it, or is counted, in any other way.
THEOREM LayersAreGuarded == OutageSpec => Breaker!SafeSpec
  <1>1. OutageInit => Breaker!Init
    BY DEF OutageInit, Init
  <1>2. OutageInv /\ [OutageNext]_outageVars => [Breaker!Next]_(Breaker!vars)
    BY StepsOfLayers
  <1> QED
    BY <1>1, <1>2, AlwaysOutageInv, PTL DEF OutageSpec, Breaker!SafeSpec
=============================================================================
