-------------------------- MODULE AccountsHistory --------------------------
(***************************************************************************)
(* Accounts with a record of what users have been told, to state what an   *)
(* answer is worth later, after races and restarts.                        *)
(***************************************************************************)
EXTENDS Accounts, FiniteSets

VARIABLES told,     \* told[n]: the passwords of the creations of n that were
                    \* confirmed, as often as they were
          signed,   \* signed[b]: when b was last signed in, or Never
          off       \* the accounts whose latest switch by an admin was off

CONSTANT Never

ASSUME NeverAssumption == Never \notin Int

historyVars == <<vars, told, signed, off>>

HistoryInit ==
    /\ Init
    /\ told = [n \in Names |-> {}]
    /\ signed = [b \in Browsers |-> Never]
    /\ off = {}

Signs(b) ==
    /\ \/ \E n \in Names, p \in Passwords :
             /\ LoginSubmit(b, n, p)
             /\ signed' = IF VerifyPassword(n, p) THEN [signed EXCEPT ![b] = now] ELSE signed
       \/ Unlock(b) /\ signed' = [signed EXCEPT ![b] = now]
       \/ Logout(b) /\ signed' = [signed EXCEPT ![b] = Never]
    /\ UNCHANGED <<told, off>>

Confirms(b) ==
    /\ Reply(b)
    /\ told' = [told EXCEPT ![post[b].name] = @ \cup {<<b, post[b].password>>}]
    /\ signed' = IF loop = b THEN [signed EXCEPT ![b] = now] ELSE signed
    /\ UNCHANGED off

Switches(b) ==
    /\ AdminSetDisabled(b)
    /\ off' = IF post[b].disabled /\ HasRow(post[b].name)
                THEN off \cup {post[b].name} ELSE off \ {post[b].name}
    /\ UNCHANGED <<told, signed>>

GoesOn ==
    /\ \/ Tick
       \/ Restart
       \/ \E b \in Browsers :
             \/ \E n \in Names, p \in Passwords : RegisterLooks(b, n, p)
             \/ \E what \in Creation \cup Switch : Gate(b, what)
             \/ RequireAdmin(b) \/ AdminLooks(b) \/ Create(b)
    /\ UNCHANGED <<told, signed, off>>

HistoryNext ==
    \/ GoesOn
    \/ \E b \in Browsers : Signs(b) \/ Confirms(b) \/ Switches(b)

HistorySpec == HistoryInit /\ [][HistoryNext]_historyVars

-----------------------------------------------------------------------------
(* Properties.                                                             *)

\* An account that was confirmed is its creator's: nobody else has been told
\* that the name is theirs, and the password is the one they chose.
OneOwner ==
    \A n \in Names :
        /\ Cardinality(told[n]) <= 1
        /\ \A owner \in told[n] : HasRow(n) /\ users[n].password = owner[2]

\* "an always-available bootstrap login": whoever is created, disabled or
\* enabled, the admin of the environment signs in and is an admin.
BootstrapAdmin ==
    AdminPassword # NoPassword =>
        VerifyPassword(AdminName, AdminPassword) /\ RoleOf(AdminName) = "admin"

\* A login lasts its time, restarts of the server included, and no longer.
LoginsLast ==
    \A b \in Browsers :
        SignedIn(b) <=> signed[b] # Never /\ signed[b] + SessionTtl >= now

\* An account that an admin has switched off stays off until an admin switches
\* it on: no creation under way brings it back.
OffStaysOff == \A n \in off : HasRow(n) /\ users[n].disabled
-----------------------------------------------------------------------------
(* The strengthening that the proofs rest on.                              *)

\* Whoever waits to confirm a creation has written the row, alone, and nobody has
\* been told yet.
PendingConfirmations ==
    \A b \in Browsers : pc[b] = "created" =>
        /\ HasRow(post[b].name)
        /\ users[post[b].name].password = post[b].password
        /\ told[post[b].name] = {}
        /\ \A c \in Browsers :
              pc[c] = "created" /\ post[c].name = post[b].name => c = b

ToldOnce == \A n \in Names : \A x, y \in told[n] : x = y

\* The admin of the environment needs no row, and no creation can make it one.
AdminHasNoRow ==
    AdminPassword # NoPassword =>
        /\ ~ HasRow(AdminName)
        /\ \A b \in Browsers : pc[b] = "absent" => post[b].name # AdminName

\* A cookie says when its browser was signed in.
CookiesAreDated ==
    /\ signed \in [Browsers -> Int \cup {Never}]
    /\ \A b \in Browsers :
          /\ cookie[b] = NoCookie <=> signed[b] = Never
          /\ cookie[b] # NoCookie =>
                cookie[b].key = secret /\ cookie[b].exp = signed[b] + SessionTtl

AccountsInv ==
    /\ TypeOK
    /\ told \in [Names -> SUBSET (Browsers \X Passwords)]
    /\ off \subseteq Names
    /\ OneOwner /\ ToldOnce /\ PendingConfirmations
    /\ AdminHasNoRow
    /\ CookiesAreDated
    /\ OffStaysOff
=============================================================================
