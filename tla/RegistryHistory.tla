-------------------------- MODULE RegistryHistory --------------------------
(***************************************************************************)
(* Registry with a record of what requests did, to state what a user may   *)
(* rely on: that the default book is there when ensure_default_book says   *)
(* so, that replies add up, and that seeding leaves a usable registry.     *)
(***************************************************************************)
EXTENDS Registry

VARIABLES lost,     \* lost[c]: a default, or a row that passed for one, was
                    \* removed during c's request
          balance,  \* balance[i]: times i was inserted, less the times a
                    \* reply listed it as removed
          touched   \* a request has changed the registry

histVars == <<vars, lost, balance, touched>>

BookItems == {Book[n].item : n \in DOMAIN Book}

\* What ensure_default_book takes for the n-th default: the default, or any
\* instrument that goes by its name.
StandsFor(n) == {Book[n].item} \cup {i \in Items : Answers(i, Book[n].ref)}

HistInit ==
    /\ Init
    /\ lost = [c \in Clients |-> FALSE]
    /\ balance = [i \in Items |-> 0]
    /\ touched = FALSE

\* What the present step inserts and deletes.
Inserted == Tracked' \ Tracked
Deleted == Tracked \ Tracked'

\* What a step of c adds to its reply's list of removals.
SaidRemoved(c, begins) ==
    LET told == IF begins THEN 0 ELSE Len(removed[c])
    IN  {removed'[c][n] : n \in told + 1 .. Len(removed'[c])}

Ensuring(d) == pc[d] \in {"checking", "adding", "ensured"}

\* c takes a step: its earlier record ends with a new request.
Record(c, begins) ==
    /\ balance' = [i \in Items |-> balance[i]
                      + (IF i \in Inserted THEN 1 ELSE 0)
                      - (IF i \in SaidRemoved(c, begins) THEN 1 ELSE 0)]
    /\ lost' = [d \in Clients |->
                   /\ Ensuring(d) /\ Ensuring(d)'
                   /\ ~ (d = c /\ begins)
                   /\ lost[d] \/ \E n \in DOMAIN Book : Deleted \cap StandsFor(n) # {}]
    /\ touched' = (touched \/ rows' # rows)

HBoot ==
    /\ Boot
    /\ UNCHANGED <<lost, balance, touched>>

HSeed ==
    /\ SeedOne
    /\ balance' = [i \in Items |-> balance[i] + (IF i \in Inserted THEN 1 ELSE 0)]
    /\ UNCHANGED <<lost, touched>>

HSeedEnds ==
    /\ SeedEnds
    /\ UNCHANGED <<lost, balance, touched>>

HCrash ==
    /\ Crash
    /\ lost' = [c \in Clients |-> FALSE]
    /\ UNCHANGED <<balance, touched>>

HistNext ==
    \/ HBoot \/ HSeed \/ HSeedEnds \/ HCrash
    \/ \E c \in Clients :
          \/ Request(c) /\ Record(c, TRUE)
          \/ Proceed(c) /\ Record(c, FALSE)

HistSpec == HistInit /\ [][HistNext]_histVars

-----------------------------------------------------------------------------
(* Properties.                                                             *)

\* When ensure_default_book replies, and until someone removes a default or a
\* row that passed for one, every default is tracked unless another row goes by
\* its name, whatever other requests of any kind ran meanwhile.  instruments.py
\* calls it to "guarantee the forex+metals book exists".
EnsureGuaranteesBook ==
    \A c \in Clients :
        pc[c] = "ensured" /\ ~ lost[c]
            => \A n \in DOMAIN Book : StandsFor(n) \cap Tracked # {}

\* Replies of racing removals add up: an instrument listed as removed was a row
\* that this very request deleted, so no two replies claim the same deletion.
RemovalsAddUp ==
    \A i \in Items : balance[i] = IF i \in Tracked THEN 1 ELSE 0

\* app/main.py says that seeding is a "no-op once the user has any tracked
\* instrument of their own": a startup skips it only after a user's change, or
\* with the whole book there.
StartupSeedsBook ==
    [][server = "down" /\ server' = "up" /\ ~ touched
          => BookItems \subseteq Tracked]_histVars
=============================================================================
