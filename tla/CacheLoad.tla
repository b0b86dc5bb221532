----------------------------- MODULE CacheLoad -----------------------------
(***************************************************************************)
(* How many times the TTL cache pays for the same answer.  The cache is    *)
(* there because "free providers throttle" (cache/store.py), yet misses    *)
(* are not shared between threads and a slow call may put back an entry    *)
(* that is already expired.  This module watches TtlCache during one TTL   *)
(* of one key, begun at an arbitrary instant, and counts the fills paid    *)
(* for by the calls made in it.                                            *)
(***************************************************************************)
EXTENDS TtlCache, FiniteSets

CONSTANT Watched   \* the key that is watched

ASSUME WatchedAssumption == Watched \in Keys

\* The thread pools of the server are finite.
ASSUME CallersAssumption == IsFiniteSet(Callers)

VARIABLES from,    \* when the watched period began, -1 before it
          fills    \* the entries for Watched stored by calls made in it

loadVars == <<vars, from, fills>>

LoadInit ==
    /\ Init
    /\ from = -1
    /\ fills = 0

\* The period may begin at any time.
Watch ==
    /\ from = -1
    /\ from' = now
    /\ UNCHANGED <<vars, fills>>

\* c was called on Watched less than a TTL after the period began.
InPeriod(c) ==
    /\ from # -1
    /\ key[c] = Watched
    /\ start[c] \in from .. (from + Ttl[Watched] - 1)

CountedStore(c) ==
    /\ Store(c)
    /\ fills' = IF InPeriod(c) THEN fills + 1 ELSE fills
    /\ UNCHANGED from

Uncounted(c) ==
    /\ \/ \E k \in Keys : Begin(c, k)
       \/ Lookup(c)
       \/ \E v \in Producible(c) : Produced(c, v)
       \/ ProducerRaises(c)
    /\ UNCHANGED <<from, fills>>

LoadNext ==
    \/ Watch
    \/ Tick /\ UNCHANGED <<from, fills>>
    \/ \E c \in Callers : CountedStore(c) \/ Uncounted(c)

LoadSpec == LoadInit /\ [][LoadNext]_loadVars /\ Fairness

\* During one TTL the calls of N threads fill one key at most 1 + ... + N times,
\* and not N times: every thread can miss once before the first fill, and every
\* call left over from before the period can, by writing its expired entry
\* late, make the threads that are free miss once more.
FillsPerTtl ==
    LET n == Cardinality(Callers) IN fills <= (n * (n + 1)) \div 2

-----------------------------------------------------------------------------
(* The strengthening that makes FillsPerTtl inductive.                     *)

LoadTypeOK ==
    /\ from \in Nat \cup {-1}
    /\ fills \in Nat
    /\ from <= now
    /\ from = -1 => fills = 0

\* The calls from before the period that can still store.
Leftover == {c \in Callers : pc[c] \in Running /\ key[c] = Watched /\ start[c] < from}

\* The calls of the period that have missed and can still store.
Missed == {c \in Callers : pc[c] \in {"producing", "storing"} /\ InPeriod(c)}

\* The entry answers every call of the period.
Serves == store[Watched] # NoEntry /\ store[Watched].expires >= from + Ttl[Watched]

\* With m threads that are not left over, the period pays at most 1 + ... + m
\* times: while the entry serves, only the calls that have missed are still to
\* be paid for, and otherwise each of the m may miss before it serves again.  A
\* call that is left over ends its service at most once, and is then one of m + 1.
FillBudget ==
    LET m == Cardinality(Callers \ Leftover)
    IN  from # -1 =>
            /\ Serves => 2 * (fills + Cardinality(Missed)) <= m * (m + 1)
            /\ ~ Serves => 2 * (fills + m) <= m * (m + 1)

LoadInv == FreshInv /\ LoadTypeOK /\ FillBudget
=============================================================================
