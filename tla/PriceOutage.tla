---------------------------- MODULE PriceOutage ----------------------------
(***************************************************************************)
(* PriceFetch with a record of the providers' failures, to state what the  *)
(* stacked layers owe a caller together: what no single cache or breaker   *)
(* can promise, because an outer layer caches and counts what an inner one *)
(* has answered.                                                           *)
(***************************************************************************)
EXTENDS PriceFetch

CONSTANTS Breakers,    \* Breakers[f]: how many breakers high f is stacked
          Forgotten    \* where calm saturates

ASSUME ForgottenAssumption == Forgotten \in Nat
ASSUME BreakersAssumption ==
    \A f \in Fns :
        /\ Breakers[f] \in Nat
        /\ Forgotten >= Breakers[f] * Cooldown
        /\ f \in Guarded =>
              /\ Breakers[f] >= 1
              /\ \A i \in DOMAIN Plan[f] :
                    LET g == Plan[f][i].of
                    IN  g \in Fns => Breakers[f] >= Breakers[g] + 1
\* Functions that share a breaker are equally high.
ASSUME SharedAssumption ==
    \A f, g \in Guarded : BreakerOf[f] = BreakerOf[g] => Breakers[f] = Breakers[g]

VARIABLES calm,    \* ticks since a provider last raised or answered []
          tried    \* tried[fr]: the sources that fr's body has tried

outageVars == <<vars, calm, tried>>

OutageInit ==
    /\ Init
    /\ calm = Forgotten
    /\ tried = [fr \in Frames |-> {}]

\* The body begins behind its breaker, or without one right after the lookup.
BodyBegins(fr) ==
    /\ Look(fr) \/ Admitted(fr)
    /\ tried' = [tried EXCEPT ![fr] = {}]
    /\ UNCHANGED calm

Tries(fr) ==
    /\ \/ Descend(fr) /\ UNCHANGED calm
       \/ Ask(fr, "rows") /\ UNCHANGED calm
       \/ \E outcome \in {"empty", "error"} : Ask(fr, outcome) /\ calm' = 0
    /\ tried' = [tried EXCEPT ![fr] = @ \cup {Here(fr).of}]

OutageProceed(fr) ==
    \/ BodyBegins(fr)
    \/ Tries(fr)
    \/ /\ Refused(fr) \/ Ascend(fr) \/ Recorded(fr) \/ Keep(fr)
       /\ UNCHANGED <<calm, tried>>

OutageNext ==
    \/ /\ Tick
       /\ calm' = IF calm < Forgotten THEN calm + 1 ELSE calm
       /\ UNCHANGED tried
    \/ \E t \in Threads, f \in Fns : Request(t, f) /\ UNCHANGED <<calm, tried>>
    \/ \E fr \in Frames : OnTop(fr) /\ OutageProceed(fr)

OutageSpec == OutageInit /\ [][OutageNext]_outageVars

-----------------------------------------------------------------------------
(* Properties.                                                             *)

\* The ages of stacked caches add up and no more: an answer of a function was
\* true at most its own TTL and those of the layers below it ago, whichever
\* threads filled which layer when.
AgesAddUp == Cache!AnswersAreFresh

\* The breakers of stacked functions echo an outage, since the refusal of an
\* inner one counts as a failure of the outer; but the echo dies out: once the
\* providers only answer rows, a function n breakers high refuses for less than n
\* cooldowns.
EchoDiesOut ==
    \A f \in Guarded : Breaker!Refusing(BreakerOf[f]) => calm < Breakers[f] * Cooldown

\* A failing provider is passed over: no body raises or answers [] before it
\* has tried every source in its list.
FailuresArePassedOver ==
    \A fr \in Frames :
        gate[fr] = "failed" \/ (gate[fr] = "succeeded" /\ ~ rows[fr])
           => \A i \in DOMAIN Plan[fr[2]] : Plan[fr[2]][i].of \in tried[fr]

-----------------------------------------------------------------------------
(* The strengthening that makes the three of them inductive.               *)

OutageTypeOK ==
    /\ calm \in 0 .. Forgotten
    /\ tried \in [Frames -> SUBSET (Fns \cup Providers)]

Place(t, i) == <<t, stack[t][i]>>

\* A frame that is not the innermost is in its body, at the source that the next
\* frame is for, and was called before it; no function is on a stack twice,
\* since breakers go down along it; what is on a stack has begun, and what is
\* on none has ended.
StacksAreNested ==
    \A t \in Threads :
        /\ \A i \in 1 .. Depth(t) - 1 :
              /\ at[Place(t, i)] > 0
              /\ Here(Place(t, i)).of = stack[t][i + 1]
              /\ stack[t][i + 1] \in tried[Place(t, i)]
              /\ start[Place(t, i)] <= start[Place(t, i + 1)]
        /\ \A i, j \in 1 .. Depth(t) :
              i < j => Breakers[stack[t][i]] > Breakers[stack[t][j]]
        /\ \A i \in 1 .. Depth(t) : pc[Place(t, i)] # "idle"
        /\ \A f \in Fns :
              pc[<<t, f>>] \notin Cache!Ended => \E i \in 1 .. Depth(t) : stack[t][i] = f

\* Where a frame is in the cache, in its breaker and in its body, which begins
\* without an exception.
PhasesAgree ==
    \A fr \in Frames :
        /\ at[fr] > 0 => /\ pc[fr] = "producing"
                         /\ fr[2] \in Guarded => gate[fr] = "calling"
        /\ gate[fr] \in Breaker!Inside => pc[fr] = "producing" /\ fr[2] \in Guarded
        /\ pc[fr] = "producing" /\ at[fr] = 0 /\ gate[fr] \notin Breaker!Inside
              => ~ hurt[fr]

\* The answer that a body has in hand is as fresh as its layer allows.
GotIsFresh ==
    \A fr \in Frames :
        pc[fr] = "producing" => got[fr] + Lag[fr[2]] >= start[fr] /\ got[fr] <= now

\* A body has tried the sources before the one it is at.
TriedInOrder ==
    \A fr \in Frames : \A i \in 1 .. at[fr] - 1 : Plan[fr[2]][i].of \in tried[fr]

Echo(f) == Breakers[f] * Cooldown

\* The cooldowns of a function's breaker run off within its echo.
CoolingEchoes ==
    \A f \in Guarded :
        cooling[BreakerOf[f]] > 0 => calm + cooling[BreakerOf[f]] <= Echo(f)

\* A failure on its way to a breaker leaves room for one more cooldown; one on
\* its way to the frame below does so for the breaker of that frame.
FailuresEcho ==
    \A fr \in Frames :
        /\ gate[fr] = "failed" => calm + Cooldown <= Echo(fr[2])
        /\ Returning(fr) /\ pc[fr] = "failed" => calm <= Echo(fr[2])

\* The innermost frame of t has an answer with rows, which all frames pass on.
BringsRows(t) ==
    \E f \in Fns :
        /\ OnTop(<<t, f>>)
        /\ rows[<<t, f>>]
        /\ gate[<<t, f>>] = "succeeded" \/ pc[<<t, f>>] \in {"storing", "done"}

\* So does an exception that a body has kept, unless its thread waits for a
\* provider, whose failure would start the echo again.
HurtEchoes ==
    \A fr \in Frames :
        hurt[fr] /\ at[fr] > 0 /\ fr[2] \in Guarded =>
            calm + Cooldown <= Echo(fr[2]) \/ AtProvider(fr[1]) \/ BringsRows(fr[1])

OutageInv ==
    /\ TypeOK /\ OutageTypeOK
    /\ StacksAreNested /\ PhasesAgree
    /\ AgesAddUp /\ Cache!EntriesExpire /\ Cache!PendingIsFresh /\ GotIsFresh
    /\ TriedInOrder /\ FailuresArePassedOver
    /\ CoolingEchoes /\ FailuresEcho /\ HurtEchoes
=============================================================================
