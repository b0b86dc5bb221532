------------------------------ MODULE TtlCache ------------------------------
(***************************************************************************)
(* cache/store.py: the in-process TTL cache every obb_layer function and   *)
(* several services read through.                                          *)
(*                                                                         *)
(* get_or_set takes the lock twice and runs the producer between the two   *)
(* critical sections, without the lock.  Threads of the web server, of the *)
(* MCP server and of the pre-cache loop run it concurrently, so there is   *)
(* one action per stretch of the code that another thread can observe: the *)
(* clock read, the locked lookup, the producer's return or exception, the  *)
(* locked write.                                                           *)
(*                                                                         *)
(* A value is represented by the instant at which the provider knew it,    *)
(* which is all that freshness depends on.  Lag[k] is how old the data of  *)
(* k's producer may already be: 0 for a provider, the window of the inner  *)
(* cache for a producer that itself reads through a cache.                 *)
(***************************************************************************)
EXTENDS Integers

CONSTANTS Callers,   \* threads
          Keys,      \* _key(namespace, payload), one per cached call
          Ttl,       \* TTL_SECONDS of the key's category, in clock ticks
          Lag,       \* how old the producer's own data may be
          NoEntry,   \* _store.get(key) is None
          MaxTime    \* bound on the clock

ASSUME TtlAssumption == Ttl \in [Keys -> Nat]
ASSUME LagAssumption == Lag \in [Keys -> Nat]
ASSUME NoEntryAssumption == NoEntry \notin [expires : Int, value : Int]
ASSUME MaxTimeAssumption == MaxTime \in Nat

VARIABLES now,     \* time.monotonic()
          store,   \* _store
          pc,      \* pc[c]: where thread c is in get_or_set
          key,     \* key[c]: its local key
          start,   \* start[c]: its local now, read before the lock
          value    \* value[c]: its local value, and its result once done

vars == <<now, store, pc, key, start, value>>

Entry == [expires : Int, value : Int]

\* "idle", "done" and "failed" are outside get_or_set; the two last tell how
\* the thread's latest call ended.
Ended == {"idle", "done", "failed"}
Running == {"looking", "producing", "storing"}

TypeOK ==
    /\ now \in Nat
    /\ store \in [Keys -> Entry \cup {NoEntry}]
    /\ pc \in [Callers -> Ended \cup Running]
    /\ key \in [Callers -> Keys]
    /\ start \in [Callers -> Nat]
    /\ value \in [Callers -> Int]

Init ==
    /\ now = 0
    /\ store = [k \in Keys |-> NoEntry]
    /\ pc = [c \in Callers |-> "idle"]
    /\ key \in [Callers -> Keys]
    /\ start = [c \in Callers |-> 0]
    /\ value = [c \in Callers |-> 0]

\* The call reads the clock before it asks for the lock.  Its local value is
\* not yet bound; 0 stands for that.
Begin(c, k) ==
    /\ pc[c] \in Ended
    /\ pc' = [pc EXCEPT ![c] = "looking"]
    /\ key' = [key EXCEPT ![c] = k]
    /\ start' = [start EXCEPT ![c] = now]
    /\ value' = [value EXCEPT ![c] = 0]
    /\ UNCHANGED <<now, store>>

\* Mutant: an entry is still served at the instant it expires.
LiveAtExpiry(e, t) == e # NoEntry /\ e.expires >= t

\* An entry is served only while it expires after the instant t.
Live(e, t) == e # NoEntry /\ e.expires > t

\* First critical section: a live entry is the answer, anything else a miss.
Lookup(c) ==
    /\ pc[c] = "looking"
    /\ \/ /\ Live(store[key[c]], start[c])
          /\ pc' = [pc EXCEPT ![c] = "done"]
          /\ value' = [value EXCEPT ![c] = store[key[c]].value]
       \/ /\ ~ Live(store[key[c]], start[c])
          /\ pc' = [pc EXCEPT ![c] = "producing"]
          /\ UNCHANGED value
    /\ UNCHANGED <<now, store, key, start>>

\* The producer, running without the lock, returns v ...
Produced(c, v) ==
    /\ pc[c] = "producing"
    /\ pc' = [pc EXCEPT ![c] = "storing"]
    /\ value' = [value EXCEPT ![c] = v]
    /\ UNCHANGED <<now, store, key, start>>

\* Mutant: a call whose producer raises starts over.
ProducerRaisesRetry(c) ==
    /\ pc[c] = "producing"
    /\ pc' = [pc EXCEPT ![c] = "looking"]
    /\ UNCHANGED <<now, store, key, start, value>>

\* Mutant: a producer that raises is taken to have returned nothing.
ProducerRaisesNothing(c) ==
    /\ pc[c] = "producing"
    /\ pc' = [pc EXCEPT ![c] = "storing"]
    /\ value' = [value EXCEPT ![c] = NoEntry]
    /\ UNCHANGED <<now, store, key, start>>

\* ... or raises, and then nothing is stored.
ProducerRaises(c) ==
    /\ pc[c] = "producing"
    /\ pc' = [pc EXCEPT ![c] = "failed"]
    /\ UNCHANGED <<now, store, key, start, value>>

\* Mutant: the expiry counts from the end of the call.
NewEntryLate(c) == [expires |-> now + Ttl[key[c]], value |-> value[c]]

\* Mutant: an entry expires one tick early.
NewEntryShort(c) == [expires |-> start[c] + Ttl[key[c]] - 1, value |-> value[c]]

\* The expiry counts from the clock read at the start of the call.
NewEntry(c) == [expires |-> start[c] + Ttl[key[c]], value |-> value[c]]

\* Second critical section: the write is unconditional, whatever another
\* thread has stored for the key meanwhile.
Store(c) ==
    /\ pc[c] = "storing"
    /\ store' = [store EXCEPT ![key[c]] = NewEntry(c)]
    /\ pc' = [pc EXCEPT ![c] = "done"]
    /\ UNCHANGED <<now, key, start, value>>

Tick ==
    /\ now < MaxTime
    /\ now' = now + 1
    /\ UNCHANGED <<store, pc, key, start, value>>

\* What the producer of c's key may return now.
Producible(c) == (start[c] - Lag[key[c]]) .. now

Call(c) ==
    \/ \E k \in Keys : Begin(c, k)
    \/ Lookup(c)
    \/ \E v \in Producible(c) : Produced(c, v)
    \/ ProducerRaises(c)
    \/ Store(c)

Next ==
    \/ Tick
    \/ \E c \in Callers : Call(c)

\* A thread inside get_or_set goes on: it holds the lock for a few dictionary
\* operations only, and every producer ends, since all its network calls have a
\* timeout.  No call is ever forced to begin.
Finish(c) ==
    \/ Lookup(c)
    \/ \E v \in Producible(c) : Produced(c, v)
    \/ ProducerRaises(c)
    \/ Store(c)

Fairness == \A c \in Callers : WF_vars(Finish(c))

SafeSpec == Init /\ [][Next]_vars

Spec == SafeSpec /\ Fairness

-----------------------------------------------------------------------------
(* Properties.                                                             *)

\* v was true at most Ttl[k] + Lag[k] before t; exactly Ttl[k] + Lag[k] is
\* already too old, unless the value is as good as a new fetch.
FreshAt(k, v, t) ==
    \/ v + Lag[k] >= t
    \/ v + Lag[k] + Ttl[k] > t

\* Whatever the interleaving of hits, slow producers and late writes, a call
\* answers with data that was at most one TTL (plus the producer's own lag) old
\* when the call was made, and never with data from the future.  A late write
\* may put an older value over a newer one; it must not make it live longer.
AnswersAreFresh ==
    \A c \in Callers :
        pc[c] = "done" =>
            /\ FreshAt(key[c], value[c], start[c])
            /\ value[c] <= now

\* The strengthening that makes AnswersAreFresh inductive: an entry expires
\* within a TTL of the instant its producer was asked, a value about to be
\* stored is as good as a new fetch, and no clock reading is in the future.
EntriesExpire ==
    \A k \in Keys :
        store[k] # NoEntry =>
            /\ store[k].expires <= store[k].value + Lag[k] + Ttl[k]
            /\ store[k].value <= now

PendingIsFresh ==
    \A c \in Callers :
        /\ start[c] <= now
        /\ pc[c] = "storing" =>
              value[c] + Lag[key[c]] >= start[c] /\ value[c] <= now

FreshInv == TypeOK /\ AnswersAreFresh /\ EntriesExpire /\ PendingIsFresh

-----------------------------------------------------------------------------
(* The cache implements FreshRead.                                         *)

Phase(p) ==
    CASE p = "idle" -> "idle"
      [] p = "done" -> "answered"
      [] p = "failed" -> "failed"
      [] OTHER -> "waiting"

Abstract == INSTANCE FreshRead WITH
    Window <- [k \in Keys |-> Ttl[k] + Lag[k]],
    NoAnswer <- NoEntry,
    phase <- [c \in Callers |-> Phase(pc[c])],
    wants <- key,
    asked <- start,
    answer <- [c \in Callers |-> IF pc[c] = "done" THEN value[c] ELSE NoEntry]

\* A caller sees an atomic read of data at most Ttl + Lag old that always ends:
\* the lock, the entries, the races between fills are invisible to it.
ImplementsFreshRead == Abstract!Spec
=============================================================================
