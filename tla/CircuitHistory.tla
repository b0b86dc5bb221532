--------------------------- MODULE CircuitHistory ---------------------------
(***************************************************************************)
(* CircuitBreaker with a record of what happened, to state what a breaker  *)
(* is for: how hard a failing provider is hit, for how long a provider is  *)
(* given up, and on whose failures.                                        *)
(***************************************************************************)
EXTENDS CircuitBreaker, FiniteSets

\* The thread pool of the server is finite.
ASSUME CallersAssumption == IsFiniteSet(Callers)

VARIABLES quiet,   \* quiet[k]: ticks since the last recorded failure of k
          burst    \* burst[k]: failures recorded since the last success or
                   \* the end of the last cooldown of k

histVars == <<vars, quiet, burst>>

\* quiet saturates when it can no longer matter.
Never == Cooldown + 1

HistInit ==
    /\ Init
    /\ quiet = [k \in Keys |-> Never]
    /\ burst = [k \in Keys |-> 0]

HAttempt(c, k) ==
    /\ Attempt(c, k)
    /\ UNCHANGED <<quiet, burst>>

HReply(c) ==
    /\ \E outcome \in {"succeeded", "failed"} : Reply(c, outcome)
    /\ UNCHANGED <<quiet, burst>>

HSuccess(c) ==
    /\ RecordSuccess(c)
    /\ burst' = [burst EXCEPT ![key[c]] = 0]
    /\ UNCHANGED quiet

HFailure(c) ==
    /\ RecordFailure(c)
    /\ burst' = [burst EXCEPT ![key[c]] = @ + 1]
    /\ quiet' = [quiet EXCEPT ![key[c]] = 0]

HTick ==
    /\ Tick
    /\ burst' = [k \in Keys |-> IF cooling[k] = 1 THEN 0 ELSE burst[k]]
    /\ quiet' = [k \in Keys |-> IF quiet[k] < Never THEN quiet[k] + 1 ELSE Never]

HToggle(k) ==
    /\ Toggle(k)
    /\ UNCHANGED <<quiet, burst>>

HistNext ==
    \/ HTick
    \/ \E k \in Keys : HToggle(k)
    \/ \E c \in Callers :
          \/ \E k \in Keys : HAttempt(c, k)
          \/ HReply(c)
          \/ HSuccess(c)
          \/ HFailure(c)

HistSpec == HistInit /\ [][HistNext]_histVars

\* With the fairness of CircuitBreaker; the record does not get in its way.
FairHistSpec == HistSpec /\ Fairness

-----------------------------------------------------------------------------
(* Properties.                                                             *)

\* A failing provider is not hammered: between two recoveries or cooldowns of a
\* key, at most the threshold less one, and then one per thread, of its calls
\* reach the provider and fail.
BoundedBurst ==
    \A k \in Keys : burst[k] <= FailThreshold - 1 + Cardinality(Callers)

\* A key is given up for no longer than a cooldown after a failure of that very
\* key, and every failure of an open circuit starts the cooldown anew: the time
\* left is always counted from the last recorded failure.
CooldownFromLastFailure ==
    \A k \in Keys :
        opened[k] => cooling[k] = IF quiet[k] < Cooldown
                                    THEN Cooldown - quiet[k]
                                    ELSE 0
-----------------------------------------------------------------------------
(* The strengthening that makes BoundedBurst inductive.                    *)

HistTypeOK ==
    /\ quiet \in [Keys -> 0 .. Never]
    /\ burst \in [Keys -> Nat]

\* The guarded calls of k whose outcome is not recorded yet.
InFlight(k) == {c \in Callers : pc[c] \in Inside /\ key[c] = k}

\* While calls are refused no new ones start, so the failures still to come are
\* among those in flight; otherwise the failures counted are those of the
\* breaker, or a trial has still to fail.
BurstBudget ==
    \A k \in Keys :
        /\ Refusing(k) =>
              burst[k] + Cardinality(InFlight(k))
                 <= FailThreshold - 1 + Cardinality(Callers)
        /\ ~ Refusing(k) =>
              burst[k] <= IF opened[k] THEN 0 ELSE failures[k]

HistInv ==
    /\ TypeOK
    /\ OpenIffThreshold
    /\ HistTypeOK
    /\ CooldownFromLastFailure
    /\ BurstBudget
=============================================================================
