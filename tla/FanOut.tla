------------------------------- MODULE FanOut -------------------------------
(***************************************************************************)
(* concurrency.parallel_map: a pool of at most MAX_WORKERS threads takes   *)
(* the items of a list from a queue, and the caller takes the results in   *)
(* the order of the items, as list(pool.map(fn, items)) does.  The first   *)
(* exception it meets cancels what is still queued; leaving the with block *)
(* then waits for the threads that run.                                    *)
(*                                                                         *)
(* A loop over a list that computes one row after the other is the same    *)
(* with a width of 1.                                                      *)
(***************************************************************************)
EXTENDS Integers, Sequences, FiniteSets

CONSTANTS Items,
          ResultsOf,     \* ResultsOf[x]: what fn may return for an item
          MaxWorkers,    \* MAX_WORKERS
          NoResult

Results == UNION {ResultsOf[x] : x \in Items}

ASSUME MaxWorkersAssumption == MaxWorkers \in Nat \ {0}
ASSUME NoResultAssumption == NoResult \notin Results

VARIABLES batch,    \* the items of the call
          width,    \* its workers
          state,    \* state[i]: the future of the i-th item
          result,   \* result[i]: what fn has returned for it
          got,      \* the results that the caller has taken
          phase     \* where the caller is

fanVars == <<batch, width, state, result, got, phase>>

States == {"queued", "running", "done", "failed", "cancelled"}
Phases == {"idle", "open", "joining", "returned", "raised"}
Busy == {"open", "joining"}

Running == {i \in DOMAIN batch : state[i] = "running"}

FanTypeOK ==
    /\ batch \in Seq(Items)
    /\ width \in 1 .. MaxWorkers
    /\ state \in [DOMAIN batch -> States]
    /\ result \in [DOMAIN batch -> Results \cup {NoResult}]
    /\ got \in Seq(Results)
    /\ phase \in Phases

FanInit ==
    /\ batch = <<>>
    /\ width = 1
    /\ state = <<>>
    /\ result = <<>>
    /\ got = <<>>
    /\ phase = "idle"

\* parallel_map is called.
Begin(list, workers) ==
    /\ phase = "idle"
    /\ batch' = list
    /\ width' = workers
    /\ state' = [i \in DOMAIN list |-> "queued"]
    /\ result' = [i \in DOMAIN list |-> NoResult]
    /\ got' = <<>>
    /\ phase' = IF list = <<>> THEN "returned" ELSE "open"

\* Mutant: a thread for every item.
TakeAnyway(i) ==
    /\ i \in DOMAIN batch
    /\ state[i] = "queued"
    /\ state' = [state EXCEPT ![i] = "running"]
    /\ UNCHANGED <<batch, width, result, got, phase>>

\* A free worker takes the first item of the queue.
Take(i) ==
    /\ i \in DOMAIN batch
    /\ state[i] = "queued"
    /\ \A j \in 1 .. i - 1 : state[j] # "queued"
    /\ Cardinality(Running) < width
    /\ state' = [state EXCEPT ![i] = "running"]
    /\ UNCHANGED <<batch, width, result, got, phase>>

\* fn returns.
Finish(i, v) ==
    /\ i \in Running
    /\ state' = [state EXCEPT ![i] = "done"]
    /\ result' = [result EXCEPT ![i] = v]
    /\ UNCHANGED <<batch, width, got, phase>>

\* fn raises.
Fail(i) ==
    /\ i \in Running
    /\ state' = [state EXCEPT ![i] = "failed"]
    /\ UNCHANGED <<batch, width, result, got, phase>>

\* The item whose result the caller waits for.
NextOut == Len(got) + 1

\* Mutant: results are taken as they come, as with as_completed.
CollectAsCompleted ==
    /\ phase = "open"
    /\ NextOut \in DOMAIN batch
    /\ \E i \in DOMAIN batch : state[i] = "done" /\ got' = Append(got, result[i])
    /\ phase' = IF NextOut = Len(batch) THEN "returned" ELSE "open"
    /\ UNCHANGED <<batch, width, state, result>>

\* The iterator yields a result; after the last one the pool is left.
Collect ==
    /\ phase = "open"
    /\ NextOut \in DOMAIN batch
    /\ state[NextOut] = "done"
    /\ got' = Append(got, result[NextOut])
    /\ phase' = IF NextOut = Len(batch) THEN "returned" ELSE "open"
    /\ UNCHANGED <<batch, width, state, result>>

\* It raises, and cancels the futures that no worker has taken.
CollectRaises ==
    /\ phase = "open"
    /\ NextOut \in DOMAIN batch
    /\ state[NextOut] = "failed"
    /\ state' = [i \in DOMAIN batch |->
                    IF state[i] = "queued" THEN "cancelled" ELSE state[i]]
    /\ phase' = "joining"
    /\ UNCHANGED <<batch, width, result, got>>

\* shutdown(wait=True) returns and the exception goes to the caller.
Join ==
    /\ phase = "joining"
    /\ Running = {}
    /\ phase' = "raised"
    /\ UNCHANGED <<batch, width, state, result, got>>

\* The call is over and its locals are gone.
Leave ==
    /\ phase \in {"returned", "raised"}
    /\ batch' = <<>>
    /\ width' = 1
    /\ state' = <<>>
    /\ result' = <<>>
    /\ got' = <<>>
    /\ phase' = "idle"

Iterate == Collect \/ CollectRaises \/ Join

Work(i) == Take(i) \/ Fail(i) \/ \E v \in ResultsOf[batch[i]] : Finish(i, v)

FanProgress == Iterate \/ \E i \in DOMAIN batch : Work(i)

FanNext ==
    \/ \E list \in Seq(Items), workers \in 1 .. MaxWorkers : Begin(list, workers)
    \/ FanProgress
    \/ Leave

FanSafeSpec == FanInit /\ [][FanNext]_fanVars

-----------------------------------------------------------------------------
(* The strengthening that the proofs rest on.                              *)

\* The caller has taken the results of the first items, and where it is says what
\* has become of the next.
TakenInOrder ==
    /\ Len(got) <= Len(batch)
    /\ \A i \in 1 .. Len(got) : state[i] = "done" /\ got[i] = result[i]
    /\ phase \in {"open", "joining", "raised"} => NextOut \in DOMAIN batch
    /\ phase = "returned" => Len(got) = Len(batch)
    /\ phase \in {"joining", "raised"} =>
          state[NextOut] = "failed" /\ \A i \in DOMAIN batch : state[i] # "queued"

FanInv ==
    /\ FanTypeOK
    /\ phase = "idle" => batch = <<>>
    /\ \A i \in DOMAIN batch :
          /\ state[i] = "running" => phase \in Busy
          /\ state[i] = "done" => result[i] \in ResultsOf[batch[i]]
    /\ TakenInOrder

-----------------------------------------------------------------------------
(* OrderedMap, seen from here.                                             *)

CONSTANTS Pending, Failed, NoReply, Raised

ASSUME OutcomeAssumption == Pending \notin Results /\ Failed \notin Results

Outcome(i) ==
    CASE state[i] = "done"   -> result[i]
      [] state[i] = "failed" -> Failed
      [] state[i] \in {"queued", "running", "cancelled"} -> Pending

Map == INSTANCE OrderedMap WITH
    asked <- batch,
    open <- phase \in Busy,
    answers <- [i \in DOMAIN batch |-> Outcome(i)],
    reply <- IF phase = "returned" THEN got
             ELSE IF phase = "raised" THEN Raised ELSE NoReply

\* The pool is, for its callers, an ordered map: results in the order of the
\* items, each computed once, the first exception in that order if there is one,
\* and always an answer, however the workers interleave.
ImplementsOrderedMap == Map!Spec
=============================================================================
