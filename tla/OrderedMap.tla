----------------------------- MODULE OrderedMap -----------------------------
(***************************************************************************)
(* What a caller of concurrency.parallel_map may rely on, threads and      *)
(* queue left out: every item of the list is computed at most once, in any *)
(* order; the call answers the results in the order of the items, or, if   *)
(* items have raised, with the exception of the first of them in that      *)
(* order, provided that everything before it has succeeded; and it answers.*)
(***************************************************************************)
EXTENDS Integers, Sequences

CONSTANTS Items,
          ResultsOf,   \* ResultsOf[x]: what may be computed for an item
          Pending, Failed, NoReply, Raised

VARIABLES asked,    \* the list of the present or latest call
          open,     \* the call has not been answered
          answers,  \* answers[i]: what the i-th item came to
          reply     \* what the caller gets

vars == <<asked, open, answers, reply>>

Init ==
    /\ asked = <<>>
    /\ open = FALSE
    /\ answers = <<>>
    /\ reply = NoReply

Idle == asked = <<>> /\ reply = NoReply

Ask ==
    /\ Idle
    /\ asked' \in Seq(Items)
    /\ answers' = [i \in DOMAIN asked' |-> Pending]
    /\ open' = (asked' # <<>>)
    /\ reply' = IF asked' = <<>> THEN <<>> ELSE NoReply

Settle(i) ==
    /\ open
    /\ answers[i] = Pending
    /\ \E v \in ResultsOf[asked[i]] \cup {Failed} : answers' = [answers EXCEPT ![i] = v]
    /\ UNCHANGED <<asked, open, reply>>

Return ==
    /\ open
    /\ \A i \in DOMAIN asked : answers[i] \notin {Pending, Failed}
    /\ reply' = answers
    /\ open' = FALSE
    /\ UNCHANGED <<asked, answers>>

Raise ==
    /\ open
    /\ \E i \in DOMAIN asked :
          /\ answers[i] = Failed
          /\ \A j \in 1 .. i - 1 : answers[j] \notin {Pending, Failed}
    /\ reply' = Raised
    /\ open' = FALSE
    /\ UNCHANGED <<asked, answers>>

\* The caller has what it wanted.
Leave ==
    /\ ~ open
    /\ asked' = <<>>
    /\ answers' = <<>>
    /\ reply' = NoReply
    /\ UNCHANGED open

Progress == Return \/ Raise \/ \E i \in DOMAIN asked : Settle(i)

Next == Progress \/ Ask \/ Leave

SafeSpec == Init /\ [][Next]_vars

Spec == SafeSpec /\ WF_vars(Progress)
=============================================================================
