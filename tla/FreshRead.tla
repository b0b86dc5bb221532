----------------------------- MODULE FreshRead -----------------------------
(***************************************************************************)
(* What a cached fetch promises its callers, without saying how: a call    *)
(* ends by raising, or by answering with data that was true at some        *)
(* instant not more than Window[k] before the call was made.  A datum is   *)
(* represented by the instant at which the provider knew it.               *)
(***************************************************************************)
EXTENDS Integers

CONSTANTS Callers,   \* threads that call the cached functions
          Keys,      \* cached calls: a namespace and its arguments
          Window,    \* Window[k]: how old an answer for k may be when asked
          NoAnswer,  \* what a call that has not answered has answered
          MaxTime    \* bound on the clock

VARIABLES now,      \* the monotonic clock
          phase,    \* phase[c] \in {"idle", "waiting", "answered", "failed"}
          wants,    \* wants[c]: the key of c's latest call
          asked,    \* asked[c]: when c's latest call was made
          answer    \* answer[c]: what it answered

vars == <<now, phase, wants, asked, answer>>

Init ==
    /\ now = 0
    /\ phase = [c \in Callers |-> "idle"]
    /\ wants \in [Callers -> Keys]
    /\ asked = [c \in Callers |-> 0]
    /\ answer = [c \in Callers |-> NoAnswer]

Ask(c, k) ==
    /\ phase[c] # "waiting"
    /\ phase' = [phase EXCEPT ![c] = "waiting"]
    /\ wants' = [wants EXCEPT ![c] = k]
    /\ asked' = [asked EXCEPT ![c] = now]
    /\ answer' = [answer EXCEPT ![c] = NoAnswer]
    /\ UNCHANGED now

Answer(c) ==
    /\ phase[c] = "waiting"
    /\ phase' = [phase EXCEPT ![c] = "answered"]
    /\ \E v \in (asked[c] - Window[wants[c]]) .. now :
          answer' = [answer EXCEPT ![c] = v]
    /\ UNCHANGED <<now, wants, asked>>

Fail(c) ==
    /\ phase[c] = "waiting"
    /\ phase' = [phase EXCEPT ![c] = "failed"]
    /\ UNCHANGED <<now, wants, asked, answer>>

Tick ==
    /\ now < MaxTime
    /\ now' = now + 1
    /\ UNCHANGED <<phase, wants, asked, answer>>

Next ==
    \/ Tick
    \/ \E c \in Callers :
          \/ \E k \in Keys : Ask(c, k)
          \/ Answer(c)
          \/ Fail(c)

\* Every call ends.
Fairness == \A c \in Callers : WF_vars(Answer(c) \/ Fail(c))

SafeSpec == Init /\ [][Next]_vars

Spec == SafeSpec /\ Fairness
=============================================================================
