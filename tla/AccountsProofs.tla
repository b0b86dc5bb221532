--------------------------- MODULE AccountsProofs ---------------------------
(***************************************************************************)
(* Proofs about Accounts and AccountsHistory for any browsers, names and   *)
(* passwords, with or without an admin in the environment, and for any     *)
(* lifetime of a session.                                                  *)
(***************************************************************************)
EXTENDS AccountsHistory, TLAPS, FiniteSetTheorems

LEMMA FewToldAreOne ==
    ASSUME NEW S, \A x, y \in S : x = y
    PROVE  Cardinality(S) <= 1
<1>1. CASE S = {}
  BY <1>1, FS_EmptySet
<1>2. CASE S # {}
  <2>1. PICK x \in S : TRUE
    BY <1>2
  <2>2. S = {x}
    BY <2>1
  <2> QED
    BY <2>2, FS_Singleton
<1> QED
  BY <1>1, <1>2

-----------------------------------------------------------------------------
(* Every action preserves the types.                                       *)

LEMMA NewAccount ==
    ASSUME NEW p \in Passwords, NEW role \in Roles
    PROVE  [password |-> p, role |-> role, disabled |-> FALSE] \in Account
  BY DEF Account

LEMMA NewCookie ==
    ASSUME TypeOK, NEW n \in Names \cup {TokenName}
    PROVE  IssueSession(n) \in Cookie
  BY SessionAssumption DEF TypeOK, Cookie, IssueSession

LEMMA InitTypes == Init => TypeOK
  BY SessionAssumption DEF Init, TypeOK, Phases

LEMMA LoginTypes ==
    ASSUME TypeOK, NEW b \in Browsers, NEW n \in Names, NEW p \in Passwords,
           LoginSubmit(b, n, p)
    PROVE  TypeOK'
<1>1. cookie' \in [Browsers -> Cookie \cup {NoCookie}]
  BY NewCookie DEF TypeOK, LoginSubmit
<1> QED
  BY <1>1 DEF TypeOK, LoginSubmit

LEMMA UnlockTypes ==
    ASSUME TypeOK, NEW b \in Browsers, Unlock(b)
    PROVE  TypeOK'
<1>1. cookie' \in [Browsers -> Cookie \cup {NoCookie}]
  BY NewCookie DEF TypeOK, Unlock
<1> QED
  BY <1>1 DEF TypeOK, Unlock

LEMMA LogoutTypes ==
    ASSUME TypeOK, NEW b \in Browsers, Logout(b)
    PROVE  TypeOK'
  BY DEF TypeOK, Logout

LEMMA RegisterTypes ==
    ASSUME TypeOK, NEW b \in Browsers, NEW n \in Names, NEW p \in Passwords,
           RegisterLooks(b, n, p)
    PROVE  TypeOK'
<1> DEFINE new == [does |-> "create", name |-> n, password |-> p, role |-> "user"]
<1>1. new \in Creation
  BY DEF Creation, Roles
<1>2. post' = [post EXCEPT ![b] = new] /\ pc' = [pc EXCEPT ![b] = "absent"] /\ loop' = b
  BY DEF RegisterLooks
<1> HIDE DEF new
<1> QED
  BY <1>1, <1>2, NoneAssumption DEF TypeOK, RegisterLooks, Phases

LEMMA GateTypes ==
    ASSUME TypeOK, NEW b \in Browsers, NEW what \in Creation \cup Switch, Gate(b, what)
    PROVE  TypeOK'
  BY NoneAssumption DEF TypeOK, Gate, Phases

LEMMA RequireAdminTypes ==
    ASSUME TypeOK, NEW b \in Browsers, RequireAdmin(b)
    PROVE  TypeOK'
<1>1. CASE SignedIn(b) /\ RoleOf(cookie[b].name) = "admin"
  BY <1>1 DEF TypeOK, RequireAdmin, Phases
<1>2. CASE ~ (SignedIn(b) /\ RoleOf(cookie[b].name) = "admin")
  BY <1>2 DEF TypeOK, RequireAdmin, Done, Phases
<1> QED
  BY <1>1, <1>2

LEMMA AdminLooksTypes ==
    ASSUME TypeOK, NEW b \in Browsers, AdminLooks(b)
    PROVE  TypeOK'
<1>1. post[b] \in Creation
  BY NoneAssumption DEF TypeOK, AdminLooks, Creation, Switch
<1>2. CASE Exists(post[b].name)
  BY <1>2 DEF TypeOK, AdminLooks, Done, Phases
<1>3. CASE ~ Exists(post[b].name)
  BY <1>1, <1>3 DEF TypeOK, AdminLooks, Phases
<1> QED
  BY <1>2, <1>3

LEMMA SetDisabledTypes ==
    ASSUME TypeOK, NEW b \in Browsers, AdminSetDisabled(b)
    PROVE  TypeOK'
<1>1. post[b] \in Switch
  BY NoneAssumption DEF TypeOK, AdminSetDisabled, Creation, Switch
<1>2. post[b].name \in Names /\ post[b].disabled \in BOOLEAN
  BY <1>1 DEF Switch
<1>3. users' \in [Names -> Account \cup {NoAccount}]
  <2>1. CASE HasRow(post[b].name)
    <3>1. users[post[b].name] \in Account
      BY <1>2, <2>1 DEF TypeOK, HasRow
    <3>2. [users[post[b].name] EXCEPT !.disabled = post[b].disabled] \in Account
      BY <1>2, <3>1 DEF Account
    <3> QED
      BY <2>1, <3>2 DEF TypeOK, AdminSetDisabled
  <2>2. CASE ~ HasRow(post[b].name)
    BY <2>2 DEF TypeOK, AdminSetDisabled
  <2> QED
    BY <2>1, <2>2
<1> QED
  BY <1>3 DEF TypeOK, AdminSetDisabled, Done, Phases

LEMMA CreateTypes ==
    ASSUME TypeOK, NEW b \in Browsers, Create(b)
    PROVE  TypeOK'
<1>1. post[b] \in Creation
  BY DEF TypeOK, Create
<1>2. post[b].name \in Names /\ post[b].password \in Passwords /\ post[b].role \in Roles
  BY <1>1 DEF Creation
<1>3. users' \in [Names -> Account \cup {NoAccount}]
  BY <1>2, NewAccount DEF TypeOK, Create, UserCreate
<1>4. CASE HasRow(post[b].name)
  BY <1>3, <1>4 DEF TypeOK, Create, Done, Phases
<1>5. CASE ~ HasRow(post[b].name)
  BY <1>1, <1>3, <1>5 DEF TypeOK, Create, Phases
<1> QED
  BY <1>4, <1>5

LEMMA ReplyTypes ==
    ASSUME TypeOK, NEW b \in Browsers, Reply(b)
    PROVE  TypeOK'
<1>1. post[b].name \in Names
  BY DEF TypeOK, Reply, Creation
<1>2. cookie' \in [Browsers -> Cookie \cup {NoCookie}]
  BY <1>1, NewCookie DEF TypeOK, Reply
<1> QED
  BY <1>2 DEF TypeOK, Reply, Done, Phases

LEMMA TickTypes ==
    ASSUME TypeOK, Tick
    PROVE  TypeOK'
  BY SessionAssumption DEF TypeOK, Tick

LEMMA RestartTypes ==
    ASSUME TypeOK, Restart
    PROVE  TypeOK'
  BY DEF TypeOK, Restart, Phases

LEMMA NextTypes ==
    ASSUME TypeOK, [Next]_vars
    PROVE  TypeOK'
<1>1. CASE Tick \/ Restart
  BY <1>1, TickTypes, RestartTypes
<1>2. ASSUME NEW b \in Browsers, Submit(b)
      PROVE  TypeOK'
  BY <1>2, LogoutTypes, UnlockTypes, LoginTypes, RegisterTypes, GateTypes DEF Submit
<1>3. ASSUME NEW b \in Browsers, Serve(b)
      PROVE  TypeOK'
  BY <1>3, RequireAdminTypes, AdminLooksTypes, SetDisabledTypes, CreateTypes, ReplyTypes
  DEF Serve
<1>4. CASE UNCHANGED vars
  BY <1>4 DEF TypeOK, vars
<1> QED
  BY <1>1, <1>2, <1>3, <1>4 DEF Next

\* Type correctness of auth.py's state.
THEOREM TypeCorrect == Spec => []TypeOK
<1>1. Init => TypeOK
  BY InitTypes
<1>2. TypeOK /\ [Next]_vars => TypeOK'
  BY NextTypes
<1> QED
  BY <1>1, <1>2, PTL DEF Spec
-----------------------------------------------------------------------------
(* The history.  What an action leaves alone it cannot disturb.            *)

\* A creation that is confirmed is the only one of its name.
Owners == OneOwner /\ ToldOnce /\ PendingConfirmations

LEMMA InitInv == HistoryInit => AccountsInv
<1> SUFFICES ASSUME HistoryInit
             PROVE  AccountsInv
  OBVIOUS
<1>1. TypeOK /\ told \in [Names -> SUBSET (Browsers \X Passwords)] /\ off \subseteq Names
  BY InitTypes DEF HistoryInit
<1>2. OneOwner
  BY FS_EmptySet DEF HistoryInit, OneOwner
<1>3. ToldOnce /\ PendingConfirmations
  BY DEF HistoryInit, Init, ToldOnce, PendingConfirmations
<1>4. AdminHasNoRow /\ OffStaysOff
  BY AdminAssumption DEF HistoryInit, Init, AdminHasNoRow, OffStaysOff, HasRow
<1>5. CookiesAreDated
  BY DEF HistoryInit, Init, CookiesAreDated
<1> QED
  BY <1>1, <1>2, <1>3, <1>4, <1>5 DEF AccountsInv

\* As long as nobody is told anything, no row changes hands and no creation is
\* written, ownership stays as it is.
LEMMA OwnersStay ==
    ASSUME AccountsInv, told' = told,
           \A n \in Names : HasRow(n) =>
               HasRow(n)' /\ users'[n].password = users[n].password,
           \A b \in Browsers : pc'[b] = "created" =>
               pc[b] = "created" /\ post'[b] = post[b]
    PROVE  Owners'
<1> USE DEF AccountsInv
<1>1. OneOwner'
  BY DEF OneOwner
<1>2. ToldOnce'
  BY DEF ToldOnce
<1>3. PendingConfirmations'
  <2> SUFFICES ASSUME NEW b \in Browsers, pc'[b] = "created"
               PROVE  /\ users'[post'[b].name] # NoAccount
                      /\ users'[post'[b].name].password = post'[b].password
                      /\ told[post'[b].name] = {}
                      /\ \A c \in Browsers :
                            pc'[c] = "created" /\ post'[c].name = post'[b].name => c = b
    BY DEF PendingConfirmations, HasRow
  <2>1. pc[b] = "created" /\ post'[b] = post[b]
    OBVIOUS
  <2>2. post[b].name \in Names
    BY <2>1 DEF TypeOK, Creation
  <2> QED
    BY <2>1, <2>2 DEF PendingConfirmations, HasRow
<1> QED
  BY <1>1, <1>2, <1>3 DEF Owners

LEMMA SignsInv ==
    ASSUME AccountsInv, NEW b \in Browsers, Signs(b)
    PROVE  AccountsInv'
<1> USE DEF AccountsInv
<1>1. TypeOK'
  BY LoginTypes, LogoutTypes, UnlockTypes DEF Signs
<1>2. /\ UNCHANGED <<now, users, secret, pc, post, loop, told, off>>
  BY DEF Signs, LoginSubmit, Logout, Unlock
<1>3. Owners'
  BY <1>2, OwnersStay DEF HasRow
<1>4. AdminHasNoRow' /\ OffStaysOff'
  BY <1>2 DEF AdminHasNoRow, OffStaysOff, HasRow
<1>5. CookiesAreDated'
  <2>1. ASSUME NEW n \in Names \cup {TokenName},
               cookie' = [cookie EXCEPT ![b] = IssueSession(n)],
               signed' = [signed EXCEPT ![b] = now]
        PROVE  CookiesAreDated'
    <3>1. cookie' = [cookie EXCEPT ![b] = IssueSession(n)] /\ secret' = secret
      BY <1>2, <2>1
    <3>2. IssueSession(n) # NoCookie /\ now # Never
      BY NewCookie, NoneAssumption, NeverAssumption DEF TypeOK
    <3>3. IssueSession(n).key = secret /\ IssueSession(n).exp = now + SessionTtl
      BY DEF IssueSession
    <3> HIDE DEF AccountsInv
    <3>4. TypeOK /\ CookiesAreDated
      BY DEF AccountsInv
    <3> QED
      BY <2>1, <3>1, <3>2, <3>3, <3>4 DEF TypeOK, CookiesAreDated
  <2>2. ASSUME Logout(b), signed' = [signed EXCEPT ![b] = Never]
        PROVE  CookiesAreDated'
    BY <2>2 DEF TypeOK, CookiesAreDated, Logout
  <2>3. ASSUME UNCHANGED <<cookie, signed>>
        PROVE  CookiesAreDated'
    BY <1>2, <2>3 DEF CookiesAreDated
  <2> QED
    BY <2>1, <2>2, <2>3 DEF Signs, LoginSubmit, Unlock
<1> QED
  BY <1>1, <1>2, <1>3, <1>4, <1>5 DEF Owners

LEMMA ConfirmsInv ==
    ASSUME AccountsInv, NEW b \in Browsers, Confirms(b)
    PROVE  AccountsInv'
<1> USE DEF AccountsInv
<1> DEFINE n == post[b].name
           owner == <<b, post[b].password>>
<1>1. TypeOK'
  BY ReplyTypes DEF Confirms
<1>2. /\ pc[b] = "created" /\ n \in Names /\ post[b].password \in Passwords
      /\ UNCHANGED <<now, users, secret, off>>
      /\ pc' = [pc EXCEPT ![b] = "idle"]
      /\ post' = [post EXCEPT ![b] = NoPost]
  BY DEF Confirms, Reply, Done, TypeOK, Creation
<1>3. told' = [told EXCEPT ![n] = {owner}]
  <2>1. told[n] = {}
    BY <1>2 DEF PendingConfirmations
  <2> QED
    BY <2>1 DEF Confirms
<1>4. HasRow(n) /\ users[n].password = owner[2]
  BY <1>2 DEF PendingConfirmations
<1>5. told' \in [Names -> SUBSET (Browsers \X Passwords)]
  BY <1>2, <1>3
<1>6. OneOwner'
  <2>1. ASSUME NEW m \in Names
        PROVE  Cardinality(told'[m]) <= 1
    <3>1. CASE m = n
      <4>1. told'[m] = {owner}
        BY <1>2, <1>3, <3>1
      <4>2. \A x, y \in told'[m] : x = y
        BY <4>1
      <4> QED
        BY <4>2, FewToldAreOne
    <3>2. CASE m # n
      BY <1>2, <1>3, <3>2 DEF OneOwner
    <3> QED
      BY <3>1, <3>2
  <2>2. ASSUME NEW m \in Names, NEW o \in told'[m]
        PROVE  HasRow(m) /\ users[m].password = o[2]
    BY <1>2, <1>3, <1>4 DEF OneOwner
  <2> QED
    BY <1>2, <2>1, <2>2 DEF OneOwner, HasRow
<1>7. ToldOnce'
  BY <1>2, <1>3 DEF ToldOnce
<1>8. PendingConfirmations'
  <2> SUFFICES ASSUME NEW c \in Browsers, pc'[c] = "created"
               PROVE  /\ HasRow(post'[c].name)
                      /\ users[post'[c].name].password = post'[c].password
                      /\ told'[post'[c].name] = {}
                      /\ \A d \in Browsers :
                            pc'[d] = "created" /\ post'[d].name = post'[c].name => d = c
    BY <1>2 DEF PendingConfirmations, HasRow
  <2>1. c # b /\ pc[c] = "created" /\ post'[c] = post[c]
    BY <1>2 DEF TypeOK
  <2>2. post[c].name # n /\ post[c].name \in Names
    BY <1>2, <2>1 DEF PendingConfirmations, TypeOK, Creation
  <2>3. \A d \in Browsers : pc'[d] = "created" => pc[d] = "created" /\ post'[d] = post[d]
    BY <1>2 DEF TypeOK
  <2> QED
    BY <1>3, <2>1, <2>2, <2>3 DEF PendingConfirmations
<1>9. AdminHasNoRow' /\ OffStaysOff'
  BY <1>2 DEF AdminHasNoRow, OffStaysOff, HasRow, TypeOK
<1>10. CookiesAreDated'
  <2>1. CASE loop = b
    <3>1. /\ cookie' = [cookie EXCEPT ![b] = IssueSession(n)]
          /\ signed' = [signed EXCEPT ![b] = now]
      BY <2>1 DEF Confirms, Reply
    <3>2. IssueSession(n) # NoCookie /\ now # Never
      BY <1>2, NewCookie, NoneAssumption, NeverAssumption DEF TypeOK
    <3>3. IssueSession(n).key = secret /\ IssueSession(n).exp = now + SessionTtl
      BY DEF IssueSession
    <3>4. TypeOK /\ CookiesAreDated /\ secret' = secret
      BY <1>2
    <3> HIDE DEF AccountsInv, n, owner
    <3> QED
      BY <3>1, <3>2, <3>3, <3>4 DEF TypeOK, CookiesAreDated
  <2>2. CASE loop # b
    BY <1>2, <2>2 DEF Confirms, Reply, CookiesAreDated
  <2> QED
    BY <2>1, <2>2
<1> QED
  BY <1>1, <1>2, <1>5, <1>6, <1>7, <1>8, <1>9, <1>10

LEMMA SwitchesInv ==
    ASSUME AccountsInv, NEW b \in Browsers, Switches(b)
    PROVE  AccountsInv'
<1> USE DEF AccountsInv
<1> DEFINE n == post[b].name
<1>1. TypeOK'
  BY SetDisabledTypes DEF Switches
<1>2. /\ n \in Names /\ post[b].disabled \in BOOLEAN
      /\ UNCHANGED <<now, cookie, secret, told, signed>>
      /\ pc' = [pc EXCEPT ![b] = "idle"]
      /\ post' = [post EXCEPT ![b] = NoPost]
  BY NoneAssumption DEF Switches, AdminSetDisabled, Done, TypeOK, Creation, Switch
<1>3. \A m \in Names :
          IF HasRow(m)
            THEN /\ users'[m] \in Account
                 /\ users'[m].password = users[m].password
                 /\ users'[m].disabled =
                       (IF m = n THEN post[b].disabled ELSE users[m].disabled)
            ELSE users'[m] = users[m]
  BY <1>2 DEF Switches, AdminSetDisabled, TypeOK, HasRow, Account
<1>4. \A m \in Names : HasRow(m)' <=> HasRow(m)
  BY <1>3, NoneAssumption DEF HasRow
<1>5. Owners'
  <2>1. \A c \in Browsers : pc'[c] = "created" => pc[c] = "created" /\ post'[c] = post[c]
    BY <1>2 DEF TypeOK
  <2> QED
    BY <1>2, <1>3, <1>4, <2>1, OwnersStay
<1>6. AdminHasNoRow'
  BY <1>2, <1>4, AdminAssumption DEF AdminHasNoRow, TypeOK
<1>7. CookiesAreDated'
  BY <1>2 DEF CookiesAreDated
<1>8. OffStaysOff' /\ off' \subseteq Names
  BY <1>2, <1>3, <1>4 DEF OffStaysOff, Switches
<1> QED
  BY <1>1, <1>2, <1>5, <1>6, <1>7, <1>8 DEF Owners

LEMMA CreateInv ==
    ASSUME AccountsInv, NEW b \in Browsers, Create(b), UNCHANGED <<told, signed, off>>
    PROVE  AccountsInv'
<1> USE DEF AccountsInv
<1> DEFINE n == post[b].name
           new == [password |-> post[b].password, role |-> post[b].role, disabled |-> FALSE]
<1>1. TypeOK'
  BY CreateTypes
<1>2. /\ pc[b] = "absent" /\ n \in Names
      /\ post[b].password \in Passwords /\ post[b].role \in Roles
      /\ UNCHANGED <<now, cookie, secret>>
  BY DEF Create, TypeOK, Creation
<1>3. AdminHasNoRow'
  <2>1. AdminPassword # NoPassword => n # AdminName
    BY <1>2 DEF AdminHasNoRow
  <2>2. AdminPassword # NoPassword => ~ HasRow(AdminName)'
    BY <1>2, <2>1, AdminAssumption DEF AdminHasNoRow, Create, UserCreate, HasRow, TypeOK
  <2>3. \A c \in Browsers : pc'[c] = "absent" => pc[c] = "absent" /\ post'[c] = post[c]
    BY DEF Create, Done, TypeOK
  <2> QED
    BY <2>2, <2>3 DEF AdminHasNoRow
<1>4. CookiesAreDated'
  BY <1>2 DEF CookiesAreDated
<1>5. CASE HasRow(n)
  <2>1. users' = users /\ Done(b)
    BY <1>5 DEF Create, UserCreate
  <2>2. \A c \in Browsers : pc'[c] = "created" => pc[c] = "created" /\ post'[c] = post[c]
    BY <2>1 DEF Done, TypeOK
  <2>3. Owners'
    BY <2>1, <2>2, OwnersStay DEF HasRow
  <2>4. OffStaysOff'
    BY <2>1 DEF OffStaysOff, HasRow
  <2> QED
    BY <1>1, <1>3, <1>4, <2>3, <2>4 DEF Owners
<1>6. CASE ~ HasRow(n)
  <2>1. /\ users' = [users EXCEPT ![n] = new]
        /\ pc' = [pc EXCEPT ![b] = "created"]
        /\ post' = post
    BY <1>6 DEF Create, UserCreate
  <2>2. new # NoAccount /\ new.password = post[b].password
    BY <1>2, NewAccount, NoneAssumption
  <2> HIDE DEF new
  <2>3. told[n] = {} /\ n \notin off
    BY <1>2, <1>6 DEF OneOwner, OffStaysOff
  <2>4. \A c \in Browsers : pc[c] = "created" => post[c].name # n /\ post[c].name \in Names
    BY <1>6 DEF PendingConfirmations, TypeOK, Creation
  <2>5. OneOwner' /\ ToldOnce'
    BY <1>2, <2>1, <2>3 DEF OneOwner, ToldOnce, HasRow, TypeOK
  <2>6. PendingConfirmations'
    <3> SUFFICES ASSUME NEW c \in Browsers, pc'[c] = "created"
                 PROVE  /\ users'[post[c].name] # NoAccount
                        /\ users'[post[c].name].password = post[c].password
                        /\ told[post[c].name] = {}
                        /\ \A d \in Browsers :
                              pc'[d] = "created" /\ post[d].name = post[c].name => d = c
      <4>1. \A c \in Browsers : pc'[c] = "created" => post[c].name \in Names
        BY <1>2, <2>1, <2>4 DEF TypeOK
      <4> QED
        BY <2>1, <4>1 DEF PendingConfirmations, HasRow
    <3>1. \A d \in Browsers : d # b /\ pc'[d] = "created" => pc[d] = "created"
      BY <2>1 DEF TypeOK
    <3>2. CASE c = b
      BY <1>2, <2>1, <2>2, <2>3, <2>4, <3>1, <3>2 DEF TypeOK
    <3>3. CASE c # b
      <4>1. pc[c] = "created" /\ post[c].name # n /\ post[c].name \in Names
        BY <2>4, <3>1, <3>3
      <4> QED
        BY <1>2, <2>1, <2>4, <3>1, <4>1 DEF TypeOK, PendingConfirmations, HasRow
    <3> QED
      BY <3>2, <3>3
  <2>7. OffStaysOff'
    BY <1>2, <2>1, <2>3 DEF OffStaysOff, HasRow, TypeOK
  <2> QED
    BY <1>1, <1>3, <1>4, <2>5, <2>6, <2>7
<1> QED
  BY <1>5, <1>6

\* The other steps write no row, sign nobody in and tell nobody anything.
LEMMA QuietInv ==
    ASSUME AccountsInv, TypeOK', UNCHANGED <<users, cookie, secret, told, signed, off>>,
           \A b \in Browsers : pc'[b] = "created" => pc[b] = "created" /\ post'[b] = post[b],
           AdminPassword # NoPassword =>
               \A b \in Browsers : pc'[b] = "absent" => post'[b].name # AdminName
    PROVE  AccountsInv'
<1> USE DEF AccountsInv
<1>1. Owners'
  BY OwnersStay DEF HasRow
<1>2. AdminHasNoRow' /\ OffStaysOff'
  BY DEF AdminHasNoRow, OffStaysOff, HasRow
<1>3. CookiesAreDated'
  BY DEF CookiesAreDated
<1> QED
  BY <1>1, <1>2, <1>3 DEF Owners

LEMMA GoesOnInv ==
    ASSUME AccountsInv, GoesOn
    PROVE  AccountsInv'
<1> USE DEF AccountsInv
<1>1. CASE Tick
  BY <1>1, TickTypes, QuietInv DEF Tick, GoesOn, AdminHasNoRow
<1>2. CASE Restart
  BY <1>2, RestartTypes, QuietInv DEF Restart, GoesOn
<1>3. ASSUME NEW b \in Browsers, NEW n \in Names, NEW p \in Passwords,
             RegisterLooks(b, n, p)
      PROVE  AccountsInv'
  <2>1. TypeOK'
    BY <1>3, RegisterTypes
  <2>2. /\ pc' = [pc EXCEPT ![b] = "absent"]
        /\ \A c \in Browsers : c # b => post'[c] = post[c]
        /\ post'[b].name = n /\ ~ Exists(n)
        /\ UNCHANGED <<users, cookie, secret>>
    BY <1>3 DEF RegisterLooks, TypeOK
  <2> QED
    BY <2>1, <2>2, QuietInv DEF TypeOK, AdminHasNoRow, Exists, GoesOn
<1>4. ASSUME NEW b \in Browsers, NEW what \in Creation \cup Switch, Gate(b, what)
      PROVE  AccountsInv'
  <2>1. TypeOK'
    BY <1>4, GateTypes
  <2>2. /\ pc' = [pc EXCEPT ![b] = "gated"]
        /\ \A c \in Browsers : c # b => post'[c] = post[c]
        /\ UNCHANGED <<users, cookie, secret>>
    BY <1>4 DEF Gate, TypeOK
  <2> QED
    BY <2>1, <2>2, QuietInv DEF TypeOK, AdminHasNoRow, GoesOn
<1>5. ASSUME NEW b \in Browsers, RequireAdmin(b)
      PROVE  AccountsInv'
  <2>1. TypeOK'
    BY <1>5, RequireAdminTypes
  <2>2. /\ pc'[b] \in {"permitted", "idle"}
        /\ \A c \in Browsers : c # b => pc'[c] = pc[c] /\ post'[c] = post[c]
        /\ UNCHANGED <<users, cookie, secret>>
    BY <1>5 DEF RequireAdmin, Done, TypeOK
  <2> QED
    BY <2>1, <2>2, QuietInv DEF TypeOK, AdminHasNoRow, GoesOn
<1>6. ASSUME NEW b \in Browsers, AdminLooks(b)
      PROVE  AccountsInv'
  <2>1. TypeOK'
    BY <1>6, AdminLooksTypes
  <2>2. /\ pc'[b] \in {"absent", "idle"}
        /\ pc'[b] = "absent" => post'[b] = post[b] /\ ~ Exists(post[b].name)
        /\ \A c \in Browsers : c # b => pc'[c] = pc[c] /\ post'[c] = post[c]
        /\ UNCHANGED <<users, cookie, secret>>
    BY <1>6 DEF AdminLooks, Done, TypeOK
  <2> QED
    BY <2>1, <2>2, QuietInv DEF TypeOK, AdminHasNoRow, Exists, GoesOn
<1>7. ASSUME NEW b \in Browsers, Create(b)
      PROVE  AccountsInv'
  BY <1>7, CreateInv DEF GoesOn
<1> QED
  BY <1>1, <1>2, <1>3, <1>4, <1>5, <1>6, <1>7 DEF GoesOn

LEMMA NextInv ==
    ASSUME AccountsInv, [HistoryNext]_historyVars
    PROVE  AccountsInv'
<1>1. CASE UNCHANGED historyVars
  <2>1. TypeOK'
    BY <1>1, NextTypes DEF historyVars, AccountsInv
  <2> QED
    BY <1>1, <2>1, QuietInv DEF historyVars, vars, AccountsInv, AdminHasNoRow
<1> QED
  BY <1>1, SignsInv, ConfirmsInv, SwitchesInv, GoesOnInv DEF HistoryNext

-----------------------------------------------------------------------------
(* What follows for those who were told something.                         *)

THEOREM InvariantHolds == HistorySpec => []AccountsInv
<1>1. HistoryInit => AccountsInv
  BY InitInv
<1>2. AccountsInv /\ [HistoryNext]_historyVars => AccountsInv'
  BY NextInv
<1> QED
  BY <1>1, <1>2, PTL DEF HistorySpec

\* Of two creations of a name that race, in whichever routes, one is confirmed,
\* and its password is the account's from then on.
THEOREM NamesHaveOneOwner == HistorySpec => []OneOwner
<1>1. AccountsInv => OneOwner
  BY DEF AccountsInv
<1> QED
  BY <1>1, InvariantHolds, PTL

\* The admin of the environment always gets in and is always an admin.
THEOREM BootstrapAdminStays == HistorySpec => []BootstrapAdmin
<1>1. AccountsInv => BootstrapAdmin
  BY AdminAssumption DEF AccountsInv, AdminHasNoRow, BootstrapAdmin, VerifyPassword,
     IsEnvAdmin, RoleOf
<1> QED
  BY <1>1, InvariantHolds, PTL

\* A session is good for as long as it was issued for, across restarts.
THEOREM SessionsLast == HistorySpec => []LoginsLast
<1>1. AccountsInv => LoginsLast
  <2> SUFFICES ASSUME AccountsInv, NEW b \in Browsers
               PROVE  SignedIn(b) <=> signed[b] # Never /\ signed[b] + SessionTtl >= now
    BY DEF LoginsLast
  <2> QED
    BY DEF AccountsInv, CookiesAreDated, SignedIn
<1> QED
  BY <1>1, InvariantHolds, PTL

\* No creation brings an account back that an admin has switched off.
THEOREM SwitchedOffStays == HistorySpec => []OffStaysOff
<1>1. AccountsInv => OffStaysOff
  BY DEF AccountsInv
<1> QED
  BY <1>1, InvariantHolds, PTL
=============================================================================
