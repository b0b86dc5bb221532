----------------------------- MODULE PriceFetch -----------------------------
(***************************************************************************)
(* The functions of obb_layer that fetch price histories, as they are      *)
(* stacked on each other: each is cached (cache/store.py), most have a     *)
(* circuit breaker under the cache (circuit.py), and their bodies go       *)
(* through a list of sources, which are providers or other functions of    *)
(* the same kind.  Cache and breakers are the modules TtlCache and         *)
(* CircuitBreaker: a caller of theirs is here a frame, one function on the *)
(* call stack of one thread, so that the frame of proxy_history is         *)
(* "producing" while that of fx_history, which it has called, looks up.    *)
(*                                                                         *)
(* A provider answers rows, or an empty list, or raises.  Only whether an  *)
(* answer has rows and when the provider gave it are kept.                 *)
(***************************************************************************)
EXTENDS Integers, Sequences

CONSTANTS Threads,
          Providers,      \* FMP REST and the providers of eod_provider_chain
          Fns,            \* cached functions, each with its arguments
          Guarded,        \* those under @guarded()
          Names,          \* of the breakers
          BreakerOf,      \* BreakerOf[f]: the one f is under, if it is Guarded
          Plan,           \* Plan[f]: the sources f goes through, in order
          Asked,          \* Asked[t]: the functions that thread t calls
          Ttl, Lag,       \* as in TtlCache; Lag is the age of the layers below
          FailThreshold, Cooldown, MaxFailures,   \* as in CircuitBreaker
          NoEntry, MaxTime

\* A source that is strict raises through f if nothing else answers rows; the
\* exceptions of the others are dropped.
Source == [of : Fns \cup Providers, strict : BOOLEAN]

ASSUME PlanAssumption ==
    /\ Plan \in [Fns -> Seq(Source)]
    /\ \A f \in Fns : Plan[f] # <<>>
    /\ Fns \cap Providers = {}
ASSUME TtlAssumption == Ttl \in [Fns -> Nat \ {0}]   \* TTL_SECONDS are positive
ASSUME LagAssumption == Lag \in [Fns -> Nat]
ASSUME NoEntryAssumption == NoEntry \notin [expires : Int, value : Int]
ASSUME BreakerAssumption ==
    /\ FailThreshold \in Nat \ {0} /\ Cooldown \in Nat \ {0}
    /\ MaxFailures \in Nat /\ MaxFailures >= FailThreshold
ASSUME FnsAssumption == Guarded \subseteq Fns /\ Asked \in [Threads -> SUBSET Fns]
ASSUME NamesAssumption == BreakerOf \in [Fns -> Names]

\* The functions that read through another one have a breaker, and are as old
\* as what they read may be: in whole ticks, an entry is served while it is
\* younger than its TTL.
ASSUME LayersAssumption ==
    \A f \in Fns : \A i \in DOMAIN Plan[f] :
        LET g == Plan[f][i].of
        IN  g \in Fns => /\ f \in Guarded
                         /\ g # f
                         /\ Lag[f] >= Lag[g] + Ttl[g] - 1

VARIABLES now, store, pc, start, value,      \* of TtlCache, pc[fr] per frame
          failures, opened, cooling, gate,   \* of CircuitBreaker, gate is its pc
          stack,    \* stack[t]: the functions thread t is in, innermost last
          at,       \* at[fr]: the source that fr is at, 0 outside the body
          hurt,     \* hurt[fr]: last_exc is not None
          got,      \* got[fr]: when the answer in fr's hands was given
          rows,     \* rows[fr]: that answer is not empty
          filled    \* the functions whose entry in the cache is not empty

cacheVars == <<now, store, pc, start, value>>
breakerVars == <<failures, opened, cooling, gate>>
bodyVars == <<at, hurt, got, rows>>
vars == <<cacheVars, breakerVars, stack, bodyVars, filled>>

Frames == Threads \X Fns

Cache == INSTANCE TtlCache WITH
    Callers <- Frames, Keys <- Fns, key <- [fr \in Frames |-> fr[2]]

\* What a function calls may raise whatever the state of the providers is.
Breaker == INSTANCE CircuitBreaker WITH
    Callers <- Frames, Keys <- Names, pc <- gate,
    key <- [fr \in Frames |-> BreakerOf[fr[2]]], up <- [n \in Names |-> FALSE]

\* What a provider may do: throttled ones answer [] as often as they raise.
Outcomes == {"rows", "empty", "error"}

TypeOK ==
    /\ Cache!TypeOK
    /\ Breaker!TypeOK
    /\ stack \in [Threads -> Seq(Fns)]
    /\ at \in [Frames -> Nat]
    /\ \A fr \in Frames : at[fr] <= Len(Plan[fr[2]])
    /\ hurt \in [Frames -> BOOLEAN]
    /\ got \in [Frames -> Int]
    /\ rows \in [Frames -> BOOLEAN]
    /\ filled \subseteq Fns

Init ==
    /\ Cache!Init
    /\ Breaker!Init
    /\ stack = [t \in Threads |-> <<>>]
    /\ at = [fr \in Frames |-> 0]
    /\ hurt = [fr \in Frames |-> FALSE]
    /\ got = [fr \in Frames |-> 0]
    /\ rows = [fr \in Frames |-> FALSE]
    /\ filled = {}

-----------------------------------------------------------------------------
(* The call stack of a thread.                                             *)

Depth(t) == Len(stack[t])

\* fr is the frame that thread fr[1] executes.
OnTop(fr) == Depth(fr[1]) > 0 /\ stack[fr[1]][Depth(fr[1])] = fr[2]

\* The outermost call of t has ended, or there has been none.
Free(t) == Depth(t) = 0 \/ (Depth(t) = 1 /\ pc[<<t, stack[t][1]>>] \in Cache!Ended)

\* The frame has ended and its answer or exception goes to the frame below it.
Returning(fr) == OnTop(fr) /\ Depth(fr[1]) > 1 /\ pc[fr] \in Cache!Ended

Caller(fr) == <<fr[1], stack[fr[1]][Depth(fr[1]) - 1]>>

\* A service calls f.
Request(t, f) ==
    /\ Free(t)
    /\ f \in Asked[t]
    /\ Cache!Begin(<<t, f>>, f)
    /\ stack' = [stack EXCEPT ![t] = <<f>>]
    /\ UNCHANGED <<breakerVars, bodyVars, filled>>

-----------------------------------------------------------------------------
(* One frame.                                                              *)

\* The locked lookup; on a miss the wrapped function is called, which is the
\* breaker's wrapper or the body.
Look(fr) ==
    /\ OnTop(fr)
    /\ Cache!Lookup(fr)
    /\ IF Cache!Live(store[fr[2]], start[fr])
         THEN rows' = [rows EXCEPT ![fr] = fr[2] \in filled] /\ UNCHANGED at
         ELSE /\ at' = [at EXCEPT ![fr] = IF fr[2] \in Guarded THEN 0 ELSE 1]
              /\ UNCHANGED rows
    /\ hurt' = [hurt EXCEPT ![fr] = FALSE]
    /\ got' = [got EXCEPT ![fr] = start[fr]]
    /\ UNCHANGED <<breakerVars, stack, filled>>

\* fr has missed and is about to ask its breaker.
AtGate(fr) == OnTop(fr) /\ pc[fr] = "producing" /\ at[fr] = 0 /\ fr[2] \in Guarded

\* check raises CircuitOpen, which leaves get_or_set like any exception.
Refused(fr) ==
    /\ AtGate(fr)
    /\ Breaker!Refuse(fr, BreakerOf[fr[2]])
    /\ Cache!ProducerRaises(fr)
    /\ UNCHANGED <<stack, bodyVars, filled>>

Admitted(fr) ==
    /\ AtGate(fr)
    /\ Breaker!Admit(fr, BreakerOf[fr[2]])
    /\ at' = [at EXCEPT ![fr] = 1]
    /\ UNCHANGED <<cacheVars, stack, hurt, got, rows, filled>>

InBody(fr) == OnTop(fr) /\ pc[fr] = "producing" /\ at[fr] > 0

Here(fr) == Plan[fr[2]][at[fr]]

\* Mutant: an empty answer is a failure for the breaker, though not for callers.
BodyReturnsOrFails(fr, when, some) ==
    /\ at' = [at EXCEPT ![fr] = 0]
    /\ got' = [got EXCEPT ![fr] = when]
    /\ rows' = [rows EXCEPT ![fr] = some]
    /\ UNCHANGED hurt
    /\ IF fr[2] \in Guarded
         THEN /\ Breaker!Reply(fr, IF some THEN "succeeded" ELSE "failed")
              /\ UNCHANGED cacheVars
         ELSE Cache!Produced(fr, when) /\ UNCHANGED breakerVars

\* The body returns, or raises: into the breaker, or without one into the cache.
BodyReturns(fr, when, some) ==
    /\ at' = [at EXCEPT ![fr] = 0]
    /\ got' = [got EXCEPT ![fr] = when]
    /\ rows' = [rows EXCEPT ![fr] = some]
    /\ UNCHANGED hurt
    /\ IF fr[2] \in Guarded
         THEN Breaker!Reply(fr, "succeeded") /\ UNCHANGED cacheVars
         ELSE Cache!Produced(fr, when) /\ UNCHANGED breakerVars

BodyRaises(fr) ==
    /\ at' = [at EXCEPT ![fr] = 0]
    /\ UNCHANGED <<hurt, got, rows>>
    /\ IF fr[2] \in Guarded
         THEN Breaker!Reply(fr, "failed") /\ UNCHANGED cacheVars
         ELSE Cache!ProducerRaises(fr) /\ UNCHANGED breakerVars

\* Mutant: one step past the last source.
GoOnPast(fr, hurtNow, when) ==
    IF at[fr] <= Len(Plan[fr[2]])
      THEN /\ at' = [at EXCEPT ![fr] = @ + 1]
           /\ hurt' = [hurt EXCEPT ![fr] = hurtNow]
           /\ got' = [got EXCEPT ![fr] = when]
           /\ UNCHANGED <<rows, cacheVars, breakerVars>>
      ELSE IF hurtNow THEN BodyRaises(fr) ELSE BodyReturns(fr, when, FALSE)

\* Without rows from this source the body goes on to the next; after the last it
\* raises if a strict source has raised, and answers [] otherwise.
GoOn(fr, hurtNow, when) ==
    IF at[fr] < Len(Plan[fr[2]])
      THEN /\ at' = [at EXCEPT ![fr] = @ + 1]
           /\ hurt' = [hurt EXCEPT ![fr] = hurtNow]
           /\ got' = [got EXCEPT ![fr] = when]
           /\ UNCHANGED <<rows, cacheVars, breakerVars>>
      ELSE IF hurtNow THEN BodyRaises(fr) ELSE BodyReturns(fr, when, FALSE)

\* Mutant: the first exception of a strict source ends the chain.
TakeUntilError(fr, outcome, when) ==
    CASE outcome = "rows"  -> BodyReturns(fr, when, TRUE)
      [] outcome = "empty" -> GoOn(fr, hurt[fr], when)
      [] outcome = "error" /\ ~ Here(fr).strict -> GoOn(fr, hurt[fr], got[fr])
      [] outcome = "error" /\ Here(fr).strict -> BodyRaises(fr)

\* What the present source has done, and when: fr returns rows, or goes on.
Take(fr, outcome, when) ==
    CASE outcome = "rows"  -> BodyReturns(fr, when, TRUE)
      [] outcome = "empty" -> GoOn(fr, hurt[fr], when)
      [] outcome = "error" -> GoOn(fr, hurt[fr] \/ Here(fr).strict, got[fr])

\* The call of a provider, of any length, ends.
Ask(fr, outcome) ==
    /\ InBody(fr)
    /\ Here(fr).of \in Providers
    /\ Take(fr, outcome, now)
    /\ UNCHANGED <<stack, filled>>

\* The body calls another cached function ...
Descend(fr) ==
    /\ InBody(fr)
    /\ Here(fr).of \in Fns
    /\ Cache!Begin(<<fr[1], Here(fr).of>>, Here(fr).of)
    /\ stack' = [stack EXCEPT ![fr[1]] = Append(@, Here(fr).of)]
    /\ UNCHANGED <<breakerVars, bodyVars, filled>>

\* ... and gets its answer or its exception, CircuitOpen among them.
Ascend(fr) ==
    /\ Returning(fr)
    /\ stack' = [stack EXCEPT ![fr[1]] = SubSeq(@, 1, Len(@) - 1)]
    /\ Take(Caller(fr),
            IF pc[fr] = "failed" THEN "error" ELSE IF rows[fr] THEN "rows" ELSE "empty",
            value[fr])
    /\ UNCHANGED filled

\* The breaker records the outcome and hands it to the cache.
Recorded(fr) ==
    /\ OnTop(fr)
    /\ \/ Breaker!RecordSuccess(fr) /\ Cache!Produced(fr, got[fr])
       \/ Breaker!RecordFailure(fr) /\ Cache!ProducerRaises(fr)
    /\ UNCHANGED <<stack, bodyVars, filled>>

\* The locked write: an empty answer is an entry like any other.
Keep(fr) ==
    /\ OnTop(fr)
    /\ Cache!Store(fr)
    /\ filled' = IF rows[fr] THEN filled \cup {fr[2]} ELSE filled \ {fr[2]}
    /\ UNCHANGED <<breakerVars, stack, bodyVars>>

-----------------------------------------------------------------------------

AtProvider(t) == \E f \in Fns : InBody(<<t, f>>) /\ Here(<<t, f>>).of \in Providers

\* A tick is minutes: time passes while threads are outside or wait for a
\* provider, and not between two steps of their own.
Waits(t) == Free(t) \/ AtProvider(t)

Tick ==
    /\ \A t \in Threads : Waits(t)
    /\ Cache!Tick
    /\ cooling' = [n \in Names |-> IF cooling[n] > 0 THEN cooling[n] - 1 ELSE 0]
    /\ UNCHANGED <<failures, opened, gate, stack, bodyVars, filled>>

Proceed(fr) ==
    \/ Look(fr)
    \/ Refused(fr)
    \/ Admitted(fr)
    \/ \E outcome \in Outcomes : Ask(fr, outcome)
    \/ Descend(fr)
    \/ Ascend(fr)
    \/ Recorded(fr)
    \/ Keep(fr)

Next ==
    \/ Tick
    \/ \E t \in Threads, f \in Fns : Request(t, f)
    \/ \E fr \in Frames : OnTop(fr) /\ Proceed(fr)

Spec == Init /\ [][Next]_vars
=============================================================================
