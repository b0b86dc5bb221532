--------------------------- MODULE CircuitBreaker ---------------------------
(***************************************************************************)
(* circuit.py: one breaker per (function, arguments) around every provider *)
(* fetch.  A guarded call runs _Breaker.check under the breaker's lock,    *)
(* then the fetch without it, then record_success or record_failure under  *)
(* the lock again; those are the steps other threads can come between.     *)
(*                                                                         *)
(* Only the time left of a cooldown matters, never the time itself, so     *)
(* _opened_at is represented by whether it is set and by how many ticks of *)
(* the cooldown remain.  The model therefore needs no bound on time.       *)
(* _failures is only ever compared with the threshold (and printed): it    *)
(* saturates at MaxFailures.                                               *)
(***************************************************************************)
EXTENDS Integers

CONSTANTS Callers,        \* threads
          Keys,           \* breaker names: function and arguments
          FailThreshold,  \* fail_threshold
          Cooldown,       \* cooldown_s, in clock ticks
          MaxFailures     \* where the failure counter saturates

ASSUME FailThresholdAssumption == FailThreshold \in Nat \ {0}
ASSUME CooldownAssumption == Cooldown \in Nat \ {0}
ASSUME MaxFailuresAssumption ==
    MaxFailures \in Nat /\ MaxFailures >= FailThreshold

VARIABLES failures,  \* _failures, per breaker
          opened,    \* _opened_at is not None
          cooling,   \* ticks of the cooldown that remain
          pc,        \* pc[c]: where thread c is in wrapper
          key,       \* key[c]: its breaker
          up         \* up[k]: the provider answers k (the environment)

vars == <<failures, opened, cooling, pc, key, up>>

Outside == {"idle", "refused", "ok", "raised"}
Inside == {"calling", "succeeded", "failed"}

TypeOK ==
    /\ failures \in [Keys -> 0 .. MaxFailures]
    /\ opened \in [Keys -> BOOLEAN]
    /\ cooling \in [Keys -> 0 .. Cooldown]
    /\ pc \in [Callers -> Outside \cup Inside]
    /\ key \in [Callers -> Keys]
    /\ up \in [Keys -> BOOLEAN]

Init ==
    /\ failures = [k \in Keys |-> 0]
    /\ opened = [k \in Keys |-> FALSE]
    /\ cooling = [k \in Keys |-> 0]
    /\ pc = [c \in Callers |-> "idle"]
    /\ key \in [Callers -> Keys]
    /\ up \in [Keys -> BOOLEAN]

\* Mutant: check never lets a trial by.
RefusingForever(k) == opened[k]

\* check raises CircuitOpen; with the cooldown elapsed it lets every call by.
Refusing(k) == opened[k] /\ cooling[k] > 0

Enter(c, k, where) ==
    /\ pc[c] \in Outside
    /\ pc' = [pc EXCEPT ![c] = where]
    /\ key' = [key EXCEPT ![c] = k]
    /\ UNCHANGED <<failures, opened, cooling, up>>

Refuse(c, k) == Refusing(k) /\ Enter(c, k, "refused")

Admit(c, k) == ~ Refusing(k) /\ Enter(c, k, "calling")

\* The fetch returns, or raises.  A provider that is not up may do either.
Reply(c, outcome) ==
    /\ pc[c] = "calling"
    /\ outcome = "failed" => ~ up[key[c]]
    /\ pc' = [pc EXCEPT ![c] = outcome]
    /\ UNCHANGED <<failures, opened, cooling, key, up>>

\* Mutant: a success closes the circuit but does not reset the count.
RecordSuccessKeepsCount(c) ==
    /\ pc[c] = "succeeded"
    /\ opened' = [opened EXCEPT ![key[c]] = FALSE]
    /\ cooling' = [cooling EXCEPT ![key[c]] = 0]
    /\ pc' = [pc EXCEPT ![c] = "ok"]
    /\ UNCHANGED <<failures, key, up>>

RecordSuccess(c) ==
    /\ pc[c] = "succeeded"
    /\ failures' = [failures EXCEPT ![key[c]] = 0]
    /\ opened' = [opened EXCEPT ![key[c]] = FALSE]
    /\ cooling' = [cooling EXCEPT ![key[c]] = 0]
    /\ pc' = [pc EXCEPT ![c] = "ok"]
    /\ UNCHANGED <<key, up>>

OneMore(n) == IF n < MaxFailures THEN n + 1 ELSE n

\* Mutant: the threshold must be passed, not reached.
OpensLate(n) == n > FailThreshold

Opens(n) == n >= FailThreshold

\* Mutant: a failure lengthens what is left of the cooldown.
CooldownAdded(k) == cooling[k] + Cooldown

\* Mutant: a failure of an open circuit does not start the cooldown again.
CooldownOnce(k) == IF opened[k] THEN cooling[k] ELSE Cooldown

\* _opened_at is set to the present instant: a whole cooldown is left.
CooldownLeft(k) == Cooldown

\* Every failure at or past the threshold opens, or opens again.
RecordFailure(c) ==
    LET k == key[c]
        n == OneMore(failures[k])
    IN  /\ pc[c] = "failed"
        /\ failures' = [failures EXCEPT ![k] = n]
        /\ IF Opens(n)
             THEN /\ opened' = [opened EXCEPT ![k] = TRUE]
                  /\ cooling' = [cooling EXCEPT ![k] = CooldownLeft(k)]
             ELSE UNCHANGED <<opened, cooling>>
        /\ pc' = [pc EXCEPT ![c] = "raised"]
        /\ UNCHANGED <<key, up>>

Tick ==
    /\ cooling' = [k \in Keys |-> IF cooling[k] > 0 THEN cooling[k] - 1 ELSE 0]
    /\ UNCHANGED <<failures, opened, pc, key, up>>

\* Providers fail and recover on their own.
Toggle(k) ==
    /\ up' = [up EXCEPT ![k] = ~ @]
    /\ UNCHANGED <<failures, opened, cooling, pc, key>>

Attempt(c, k) == Refuse(c, k) \/ Admit(c, k)

Proceed(c) ==
    \/ \E outcome \in {"succeeded", "failed"} : Reply(c, outcome)
    \/ RecordSuccess(c)
    \/ RecordFailure(c)

Next ==
    \/ Tick
    \/ \E k \in Keys : Toggle(k)
    \/ \E c \in Callers : Proceed(c) \/ \E k \in Keys : Attempt(c, k)

\* Time passes; a fetch ends, by its timeout at the latest; and the pre-cache
\* loop asks for every key in each of its cycles, for as long as the process
\* runs.
Fairness ==
    /\ WF_vars(Tick)
    /\ \A c \in Callers : WF_vars(Proceed(c))
    /\ \A k \in Keys : SF_vars(\E c \in Callers : Attempt(c, k))

SafeSpec == Init /\ [][Next]_vars

Spec == SafeSpec /\ Fairness

-----------------------------------------------------------------------------
(* Properties.                                                             *)

\* A circuit is open exactly while the failures since the last success have
\* reached the threshold: no interleaving of late successes and failures can
\* leave it open without them, or closed with them.
OpenIffThreshold ==
    \A k \in Keys : opened[k] <=> failures[k] >= FailThreshold

\* Once its provider answers for good, a circuit closes and stays closed, even
\* if failures of earlier calls are still to be recorded.
Recovery ==
    \A k \in Keys : <>[] up[k] => <>[] ~ opened[k]
=============================================================================
