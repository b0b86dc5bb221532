------------------------------ MODULE Accounts ------------------------------
(***************************************************************************)
(* app/auth.py, the sign-in and account routes of app/main.py and the      *)
(* table users of app/db.py, with access control switched on.              *)
(*                                                                         *)
(* The middleware, /login and /register are coroutines: what they do       *)
(* between two awaits has the event loop to itself, loop being the request *)
(* that runs on it.  The admin routes are plain functions, which the       *)
(* server runs in threads beside the loop.  Every access to the table is a *)
(* transaction.  A session is nothing but a signed cookie, held by the     *)
(* browser; signatures and hashes are taken to do what they are for.       *)
(***************************************************************************)
EXTENDS Integers

CONSTANTS Browsers,
          Names,           \* usernames
          AdminName,       \* settings.admin_username
          TokenName,       \* the sentinel "token", for whoever has the Bearer token
          Passwords,
          AdminPassword,   \* settings.admin_password, or NoPassword
          NoPassword,
          SessionTtl,      \* SESSION_TTL, in ticks
          MaxTime,
          Nobody, NoAccount, NoCookie, NoPost

Roles == {"user", "admin"}
Account == [password : Passwords, role : Roles, disabled : BOOLEAN]
Cookie == [name : Names \cup {TokenName}, exp : Int, key : Nat]

Creation == [does : {"create"}, name : Names, password : Passwords, role : Roles]
Switch == [does : {"switch"}, name : Names, disabled : BOOLEAN]

ASSUME AdminAssumption ==
    /\ AdminName \in Names
    /\ NoPassword \notin Passwords
    /\ AdminPassword \in Passwords \cup {NoPassword}
ASSUME SessionAssumption == SessionTtl \in Nat /\ MaxTime \in Nat
ASSUME NoneAssumption ==
    /\ Nobody \notin Browsers
    /\ NoAccount \notin Account
    /\ NoCookie \notin Cookie
    /\ NoPost \notin Creation \cup Switch

VARIABLES now,      \* time.time()
          users,    \* the table users, by username
          cookie,   \* cookie[b]: the session cookie that browser b holds
          secret,   \* which key _secret() derives from the configuration
          pc,       \* pc[b]: where the request of b is
          post,     \* post[b]: what it asks for
          loop      \* the request that has the event loop, or Nobody

vars == <<now, users, cookie, secret, pc, post, loop>>

\* "idle": outside; "gated": past the middleware; "permitted": past
\* _require_admin; "absent": users.exists has said no; "created": the row is
\* written and the reply is not sent.
Phases == {"idle", "gated", "permitted", "absent", "created"}

TypeOK ==
    /\ now \in 0 .. MaxTime
    /\ users \in [Names -> Account \cup {NoAccount}]
    /\ cookie \in [Browsers -> Cookie \cup {NoCookie}]
    /\ secret \in Nat
    /\ pc \in [Browsers -> Phases]
    /\ post \in [Browsers -> Creation \cup Switch \cup {NoPost}]
    /\ \A b \in Browsers : pc[b] # "idle" => post[b] # NoPost
    /\ \A b \in Browsers : pc[b] \in {"absent", "created"} => post[b] \in Creation
    /\ loop \in Browsers \cup {Nobody}
    /\ loop # Nobody => pc[loop] \in {"absent", "created"}

Init ==
    /\ now = 0
    /\ users = [n \in Names |-> NoAccount]
    /\ cookie = [b \in Browsers |-> NoCookie]
    /\ secret = 0
    /\ pc = [b \in Browsers |-> "idle"]
    /\ post = [b \in Browsers |-> NoPost]
    /\ loop = Nobody

-----------------------------------------------------------------------------
(* Users.                                                                  *)

HasRow(n) == n \in Names /\ users[n] # NoAccount

IsEnvAdmin(n, p) == AdminPassword # NoPassword /\ n = AdminName /\ p = AdminPassword

VerifyPassword(n, p) ==
    \/ HasRow(n) /\ ~ users[n].disabled /\ users[n].password = p
    \/ IsEnvAdmin(n, p)

\* A row decides before the environment does.
RoleOf(n) ==
    IF HasRow(n) THEN IF users[n].disabled THEN "none" ELSE users[n].role
    ELSE IF AdminPassword # NoPassword /\ n = AdminName THEN "admin" ELSE "none"

\* Mutant: only the table is asked.
ExistsInTable(n) == HasRow(n)

Exists(n) == HasRow(n) \/ (AdminPassword # NoPassword /\ n = AdminName)

\* Mutant: INSERT OR REPLACE.
UserCreateReplaces(n, p, role) ==
    users' = [users EXCEPT ![n] = [password |-> p, role |-> role, disabled |-> FALSE]]

\* The insert; a row that is there makes it an IntegrityError, which is False.
UserCreate(n, p, role) ==
    users' = IF HasRow(n) THEN users
             ELSE [users EXCEPT ![n] = [password |-> p, role |-> role, disabled |-> FALSE]]

-----------------------------------------------------------------------------
(* Sessions.                                                               *)

IssueSession(n) == [name |-> n, exp |-> now + SessionTtl, key |-> secret]

\* verify_session: signed with the present key, and not expired.
SignedIn(b) ==
    /\ cookie[b] # NoCookie
    /\ cookie[b].key = secret
    /\ cookie[b].exp >= now

Done(b) ==
    /\ pc' = [pc EXCEPT ![b] = "idle"]
    /\ post' = [post EXCEPT ![b] = NoPost]

LoginSubmit(b, n, p) ==
    /\ pc[b] = "idle" /\ loop = Nobody
    /\ cookie' = IF VerifyPassword(n, p) THEN [cookie EXCEPT ![b] = IssueSession(n)] ELSE cookie
    /\ UNCHANGED <<now, users, secret, pc, post, loop>>

\* "?token=<bearer>": whatever session the browser holds, the request goes by,
\* and its answer brings a session of the sentinel, who is no admin.
Unlock(b) ==
    /\ pc[b] = "idle" /\ loop = Nobody
    /\ cookie' = [cookie EXCEPT ![b] = IssueSession(TokenName)]
    /\ UNCHANGED <<now, users, secret, pc, post, loop>>

Logout(b) ==
    /\ pc[b] = "idle" /\ loop = Nobody
    /\ cookie' = [cookie EXCEPT ![b] = NoCookie]
    /\ UNCHANGED <<now, users, secret, pc, post, loop>>

-----------------------------------------------------------------------------
(* /register: users.create looks, then inserts, without leaving the loop.  *)

RegisterLooks(b, n, p) ==
    /\ pc[b] = "idle" /\ loop = Nobody
    /\ ~ Exists(n)
    /\ post' = [post EXCEPT ![b] = [does |-> "create", name |-> n, password |-> p, role |-> "user"]]
    /\ pc' = [pc EXCEPT ![b] = "absent"]
    /\ loop' = b
    /\ UNCHANGED <<now, users, cookie, secret>>

-----------------------------------------------------------------------------
(* The admin routes.                                                       *)

\* auth_middleware lets the request by.  A Bearer header does so as well, and
\* makes its sender the sentinel: _require_admin then answers a 403.
Gate(b, what) ==
    /\ pc[b] = "idle" /\ loop = Nobody
    /\ SignedIn(b)
    /\ post' = [post EXCEPT ![b] = what]
    /\ pc' = [pc EXCEPT ![b] = "gated"]
    /\ UNCHANGED <<now, users, cookie, secret, loop>>

\* _require_admin, by the role that the account has now: 403 or on.
RequireAdmin(b) ==
    /\ pc[b] = "gated"
    /\ IF SignedIn(b) /\ RoleOf(cookie[b].name) = "admin"
         THEN pc' = [pc EXCEPT ![b] = "permitted"] /\ UNCHANGED post
         ELSE Done(b)
    /\ UNCHANGED <<now, users, cookie, secret, loop>>

AdminLooks(b) ==
    /\ pc[b] = "permitted" /\ post[b].does = "create"
    /\ IF Exists(post[b].name) THEN Done(b)
       ELSE pc' = [pc EXCEPT ![b] = "absent"] /\ UNCHANGED post
    /\ UNCHANGED <<now, users, cookie, secret, loop>>

AdminSetDisabled(b) ==
    /\ pc[b] = "permitted" /\ post[b].does = "switch"
    /\ users' = IF HasRow(post[b].name)
                  THEN [users EXCEPT ![post[b].name].disabled = post[b].disabled]
                  ELSE users
    /\ Done(b)
    /\ UNCHANGED <<now, cookie, secret, loop>>

-----------------------------------------------------------------------------
(* The second half of users.create, in either route.                       *)

\* user_create: True, or a 409 for whoever came second.
Create(b) ==
    /\ pc[b] = "absent"
    /\ UserCreate(post[b].name, post[b].password, post[b].role)
    /\ IF HasRow(post[b].name)
         THEN /\ Done(b)
              /\ loop' = IF loop = b THEN Nobody ELSE loop
         ELSE /\ pc' = [pc EXCEPT ![b] = "created"]
              /\ UNCHANGED <<post, loop>>
    /\ UNCHANGED <<now, cookie, secret>>

\* The reply; that of /register signs its sender in.
Reply(b) ==
    /\ pc[b] = "created"
    /\ cookie' = IF loop = b THEN [cookie EXCEPT ![b] = IssueSession(post[b].name)] ELSE cookie
    /\ loop' = IF loop = b THEN Nobody ELSE loop
    /\ Done(b)
    /\ UNCHANGED <<now, users, secret>>

-----------------------------------------------------------------------------

Tick ==
    /\ now < MaxTime
    /\ now' = now + 1
    /\ UNCHANGED <<users, cookie, secret, pc, post, loop>>

\* Mutant: a key of its own for every process.
RestartWithNewSecret ==
    /\ pc' = [b \in Browsers |-> "idle"]
    /\ post' = [b \in Browsers |-> NoPost]
    /\ loop' = Nobody
    /\ secret' = (secret + 1) % 2
    /\ UNCHANGED <<now, users, cookie>>

\* The process dies, with the requests it serves, and starts again.
Restart ==
    /\ pc' = [b \in Browsers |-> "idle"]
    /\ post' = [b \in Browsers |-> NoPost]
    /\ loop' = Nobody
    /\ UNCHANGED <<now, users, cookie, secret>>

Submit(b) ==
    \/ Logout(b) \/ Unlock(b)
    \/ \E n \in Names, p \in Passwords : LoginSubmit(b, n, p) \/ RegisterLooks(b, n, p)
    \/ \E what \in Creation \cup Switch : Gate(b, what)

Serve(b) == RequireAdmin(b) \/ AdminLooks(b) \/ AdminSetDisabled(b) \/ Create(b) \/ Reply(b)

Next ==
    \/ Tick
    \/ Restart
    \/ \E b \in Browsers : Submit(b) \/ Serve(b)

Spec == Init /\ [][Next]_vars
=============================================================================
