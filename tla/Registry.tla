------------------------------ MODULE Registry ------------------------------
(***************************************************************************)
(* The instrument registry: services/instruments.py over the watchlist     *)
(* table of app/db.py.  Every database call is a transaction of its own on *)
(* a new connection, so a request that looks and then writes is several    *)
(* steps, and requests of the web client and of the MCP client come        *)
(* between them.  The default book is seeded before the server takes       *)
(* requests, one transaction per instrument, and the process may die after *)
(* any of them.                                                            *)
(*                                                                         *)
(* An instrument answers to several names: its id, its code, its symbol    *)
(* and its label.  Names says which; letter case, which resolve ignores,   *)
(* is left out.  The reply of add, which reads the row back, changes       *)
(* nothing and is left out too.                                            *)
(***************************************************************************)
EXTENDS Integers, Sequences

CONSTANTS Clients,     \* requests in progress
          Items,       \* instruments, each a row of the watchlist table
          Refs,        \* what a request may call an instrument
          IdOf,        \* IdOf[i]: the id 'asset:symbol' of i
          Names,       \* Names[i]: its code and its symbol
          Label,       \* Label[i]: its label
          Book,        \* the default book: <<[ref, item], ...>>
          Prunes,      \* the prune requests considered: sequences of refs
          MaxCrashes   \* bound on the number of crashes

ASSUME NamesAssumption ==
    /\ Items # {}
    /\ IdOf \in [Items -> Refs]
    /\ Names \in [Items -> SUBSET Refs]
    /\ Label \in [Items -> Refs]
ASSUME PrunesAssumption == Prunes \subseteq Seq(Refs)
ASSUME MaxCrashesAssumption == MaxCrashes \in Nat
ASSUME IdsDiffer == \A i, j \in Items : IdOf[i] = IdOf[j] => i = j
\* A default is asked for by its symbol, which is no id: ids have a colon.
ASSUME BookAssumption ==
    /\ Book \in Seq([ref : Refs, item : Items])
    /\ \A n \in DOMAIN Book, i \in Items : Book[n].ref # IdOf[i]

VARIABLES rows,      \* the watchlist table in the order of added_at
          server,    \* "down", "seeding" or "up"
          seedAt,    \* position of the seeding loop in Book
          pc,        \* pc[c]: where request c is
          pos,       \* pos[c]: its position in its loop
          refs,      \* refs[c]: the refs a prune request was given
          target,    \* target[c]: the instrument prune resolved last
          added,     \* added[c]: what its reply lists as added
          removed,   \* removed[c]: what its reply lists as removed
          crashes    \* number of crashes so far

local == <<pc, pos, refs, target, added, removed>>
vars == <<rows, server, seedAt, local, crashes>>

Tracked == {rows[n] : n \in DOMAIN rows}

\* Mutant: a plain INSERT.
InsertAgain(i) == Append(rows, i)

\* INSERT OR IGNORE: the first row of an id stays.
Insert(i) == IF i \in Tracked THEN rows ELSE Append(rows, i)

Delete(i) ==
    LET n == CHOOSE n \in DOMAIN rows : rows[n] = i
    IN  IF i \in Tracked
          THEN SubSeq(rows, 1, n - 1) \o SubSeq(rows, n + 1, Len(rows))
          ELSE rows

\* What a reply says of a deletion: DELETE counts the rows it deleted.
Reported(i) == IF i \in Tracked THEN <<i>> ELSE <<>>

\* resolve reads the table twice: for the instrument with that id, and if there
\* is none for the oldest one that answers to the ref.
ById(r) == {i \in Tracked : IdOf[i] = r}
Answers(i, r) == r \in Names[i] \cup {IdOf[i], Label[i]}
Matches(r) == {n \in DOMAIN rows : Answers(rows[n], r)}
Oldest(r) == {n \in Matches(r) : \A m \in Matches(r) : n <= m}

Resting == {"idle", "ensured", "pruned", "replied"}
Working == {"checking", "adding", "getting", "matching", "deleting"}

TypeOK ==
    /\ rows \in Seq(Items)
    /\ \A m, n \in DOMAIN rows : rows[m] = rows[n] => m = n
    /\ server \in {"down", "seeding", "up"}
    /\ seedAt \in 1 .. (Len(Book) + 1)
    /\ pc \in [Clients -> Resting \cup Working]
    /\ pos \in [Clients -> Nat \ {0}]
    /\ refs \in [Clients -> Seq(Refs)]
    /\ target \in [Clients -> Items]
    /\ added \in [Clients -> Seq(Items)]
    /\ removed \in [Clients -> Seq(Items)]
    /\ crashes \in 0 .. MaxCrashes

AllIdle == [c \in Clients |-> "idle"]
AtStart == [c \in Clients |-> 1]
NoTarget == [c \in Clients |-> CHOOSE i \in Items : TRUE]
Nothing == [c \in Clients |-> <<>>]

Init ==
    /\ rows = <<>>
    /\ server = "down"
    /\ seedAt = 1
    /\ pc = AllIdle
    /\ pos = AtStart
    /\ refs = Nothing
    /\ target = NoTarget
    /\ added = Nothing
    /\ removed = Nothing
    /\ crashes = 0

-----------------------------------------------------------------------------
(* Startup and crashes.                                                    *)

\* seed_defaults does nothing unless the table is empty.
Boot ==
    /\ server = "down"
    /\ server' = IF rows = <<>> THEN "seeding" ELSE "up"
    /\ seedAt' = 1
    /\ UNCHANGED <<rows, local, crashes>>

SeedOne ==
    /\ server = "seeding"
    /\ seedAt <= Len(Book)
    /\ rows' = Insert(Book[seedAt].item)
    /\ seedAt' = seedAt + 1
    /\ UNCHANGED <<server, local, crashes>>

\* The loop ends, or a write fails: the application starts all the same.
SeedEnds ==
    /\ server = "seeding"
    /\ server' = "up"
    /\ UNCHANGED <<rows, seedAt, local, crashes>>

\* The process dies: the table is on disk, the requests are gone.
Crash ==
    /\ server # "down"
    /\ crashes < MaxCrashes
    /\ crashes' = crashes + 1
    /\ server' = "down"
    /\ pc' = AllIdle
    /\ pos' = AtStart
    /\ refs' = Nothing
    /\ target' = NoTarget
    /\ added' = Nothing
    /\ removed' = Nothing
    /\ UNCHANGED <<rows, seedAt>>

-----------------------------------------------------------------------------
(* Requests.                                                               *)

Accept(c) ==
    /\ server = "up"
    /\ pc[c] \in Resting
    /\ added' = [added EXCEPT ![c] = <<>>]
    /\ UNCHANGED <<server, seedAt, target, crashes>>

\* The request ends and its locals are gone; its reply lists added and removed.
End(c, how) ==
    /\ pc' = [pc EXCEPT ![c] = how]
    /\ pos' = [pos EXCEPT ![c] = 1]
    /\ refs' = [refs EXCEPT ![c] = <<>>]
    /\ target' = [target EXCEPT ![c] = NoTarget[c]]
    /\ UNCHANGED <<rows, server, seedAt, added, removed, crashes>>

\* add: one transaction.
AddOne(c, i) ==
    /\ Accept(c)
    /\ rows' = Insert(i)
    /\ pc' = [pc EXCEPT ![c] = "replied"]
    /\ removed' = [removed EXCEPT ![c] = <<>>]
    /\ UNCHANGED <<pos, refs>>

\* remove: one transaction, by id.
RemoveOne(c, i) ==
    /\ Accept(c)
    /\ rows' = Delete(i)
    /\ pc' = [pc EXCEPT ![c] = "replied"]
    /\ removed' = [removed EXCEPT ![c] = Reported(i)]
    /\ UNCHANGED <<pos, refs>>

\* ensure_default_book: resolve each default in turn, add it if unknown.
Ensure(c) ==
    /\ Accept(c)
    /\ pc' = [pc EXCEPT ![c] = "checking"]
    /\ pos' = [pos EXCEPT ![c] = 1]
    /\ removed' = [removed EXCEPT ![c] = <<>>]
    /\ UNCHANGED <<rows, refs>>

EnsureCheck(c) ==
    /\ pc[c] = "checking"
    /\ pos[c] <= Len(Book)
    /\ IF Matches(Book[pos[c]].ref) # {}
         THEN pos' = [pos EXCEPT ![c] = @ + 1] /\ UNCHANGED pc
         ELSE pc' = [pc EXCEPT ![c] = "adding"] /\ UNCHANGED pos
    /\ UNCHANGED <<rows, server, seedAt, refs, target, added, removed, crashes>>

\* Mutant: the return is indented into the loop, after the first addition.
EnsureAddReturns(c) ==
    LET i == Book[pos[c]].item
    IN  /\ pc[c] = "adding"
        /\ rows' = Insert(i)
        /\ added' = [added EXCEPT ![c] = Append(@, i)]
        /\ pos' = [pos EXCEPT ![c] = Len(Book) + 1]
        /\ pc' = [pc EXCEPT ![c] = "checking"]
        /\ UNCHANGED <<server, seedAt, refs, target, removed, crashes>>

EnsureAdd(c) ==
    LET i == Book[pos[c]].item
    IN  /\ pc[c] = "adding"
        /\ rows' = Insert(i)
        /\ added' = [added EXCEPT ![c] = Append(@, i)]
        /\ pos' = [pos EXCEPT ![c] = @ + 1]
        /\ pc' = [pc EXCEPT ![c] = "checking"]
        /\ UNCHANGED <<server, seedAt, refs, target, removed, crashes>>

EnsureReply(c) ==
    /\ pc[c] = "checking"
    /\ pos[c] > Len(Book)
    /\ End(c, "ensured")

\* prune: resolve each ref in turn and remove what it names.
Prune(c, rs) ==
    /\ Accept(c)
    /\ pc' = [pc EXCEPT ![c] = "getting"]
    /\ pos' = [pos EXCEPT ![c] = 1]
    /\ refs' = [refs EXCEPT ![c] = rs]
    /\ removed' = [removed EXCEPT ![c] = <<>>]
    /\ UNCHANGED rows

PruneGet(c) ==
    LET hit == ById(refs[c][pos[c]])
    IN  /\ pc[c] = "getting"
        /\ pos[c] <= Len(refs[c])
        /\ \/ /\ hit # {}
              /\ \E i \in hit : target' = [target EXCEPT ![c] = i]
              /\ pc' = [pc EXCEPT ![c] = "deleting"]
           \/ /\ hit = {}
              /\ pc' = [pc EXCEPT ![c] = "matching"]
              /\ UNCHANGED target
        /\ UNCHANGED <<rows, server, seedAt, pos, refs, added, removed, crashes>>

\* An unknown ref is reported as not found.
PruneMatch(c) ==
    LET r == refs[c][pos[c]]
    IN  /\ pc[c] = "matching"
        /\ \/ /\ \E n \in Oldest(r) : target' = [target EXCEPT ![c] = rows[n]]
              /\ pc' = [pc EXCEPT ![c] = "deleting"]
              /\ UNCHANGED pos
           \/ /\ Matches(r) = {}
              /\ pos' = [pos EXCEPT ![c] = @ + 1]
              /\ pc' = [pc EXCEPT ![c] = "getting"]
              /\ UNCHANGED target
        /\ UNCHANGED <<rows, server, seedAt, refs, added, removed, crashes>>

\* Mutant: whatever was resolved is reported as removed.
PruneDeleteUnchecked(c) ==
    /\ pc[c] = "deleting"
    /\ rows' = Delete(target[c])
    /\ removed' = [removed EXCEPT ![c] = Append(@, target[c])]
    /\ pos' = [pos EXCEPT ![c] = @ + 1]
    /\ pc' = [pc EXCEPT ![c] = "getting"]
    /\ target' = [target EXCEPT ![c] = NoTarget[c]]
    /\ UNCHANGED <<server, seedAt, refs, added, crashes>>

\* The row may be gone by now: then the ref is reported as not found.
PruneDelete(c) ==
    /\ pc[c] = "deleting"
    /\ rows' = Delete(target[c])
    /\ removed' = [removed EXCEPT ![c] = @ \o Reported(target[c])]
    /\ pos' = [pos EXCEPT ![c] = @ + 1]
    /\ pc' = [pc EXCEPT ![c] = "getting"]
    /\ target' = [target EXCEPT ![c] = NoTarget[c]]
    /\ UNCHANGED <<server, seedAt, refs, added, crashes>>

PruneReply(c) ==
    /\ pc[c] = "getting"
    /\ pos[c] > Len(refs[c])
    /\ End(c, "pruned")

\* A database call raises (the database is locked): what was done stays done.
Fail(c) ==
    /\ pc[c] \in Working
    /\ End(c, "idle")

Request(c) ==
    \/ \E i \in Items : AddOne(c, i) \/ RemoveOne(c, i)
    \/ Ensure(c)
    \/ \E rs \in Prunes : Prune(c, rs)

Proceed(c) ==
    \/ EnsureCheck(c) \/ EnsureAdd(c) \/ EnsureReply(c)
    \/ PruneGet(c) \/ PruneMatch(c) \/ PruneDelete(c) \/ PruneReply(c)
    \/ Fail(c)

Next ==
    \/ Boot \/ SeedOne \/ SeedEnds \/ Crash
    \/ \E c \in Clients : Request(c) \/ Proceed(c)

Spec == Init /\ [][Next]_vars
=============================================================================
