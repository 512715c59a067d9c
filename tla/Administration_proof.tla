--------------------------- MODULE Administration_proof ---------------------------
(***************************************************************************)
(* Proofs about Administration for any accounts, requests and settings.    *)
(***************************************************************************)
EXTENDS Administration, FiniteSetTheorems, SequenceTheorems, TLAPS

-----------------------------------------------------------------------------
(* The inductive invariant.                                                 *)

PCs == {"new", "lock", "read", "write", "edit", "save", "done"}
Ops == {"none", "access", "disable", "enable", "createAdmin", "reset", "createUser", "login", "change",
        "deleteGroup"}

Made == [role : {"ADMIN", "USER"}, permissions : Permissions, mode : {"ALL", "SELECTED"},
         groups : SUBSET Groups, disabled : BOOLEAN, mustChange : BOOLEAN, password : Nat \ {0}]
Rows == {Absent} \cup Made
Contents == [Fields -> Values]
SettingsRows == [revision : Nat, imports : Nat, fields : Contents]

Locals ==
    [pc : PCs, op : Ops, actor : Users \cup {Nobody}, target : Users \cup Groups \cup {Nobody},
     access : Accesses \cup {NoAccess}, seen : Rows, loaded : SettingsRows \cup {NoSettings},
     current : SettingsRows \cup {NoSettings}, patch : {<<>>} \cup [field : Fields, value : Values]]

Types ==
    /\ issued \in Nat \ {0}
    /\ user \in [Users -> Rows]
    /\ \A u \in Users : user[u].password <= issued
    /\ \A s \in sessions : s.user \in Users /\ Exists(s.user) /\ s.password \in 1..issued
    /\ temporary \subseteq 1..issued
    /\ groups \subseteq Groups
    /\ settings \in SettingsRows
    /\ lock \in Requests \cup {Nobody}
    /\ request \in [Requests -> Locals]

\* Of two copies of the settings the first is the older: the revision tells of
\* saves alone, so that the geofence may be another at the same revision.
Older(a, b) ==
    /\ a \in SettingsRows /\ a.revision <= b.revision /\ a.imports <= b.imports
    /\ a.revision = b.revision =>
         /\ \A field \in Fields \ {Geofence} : a.fields[field] = b.fields[field]
         /\ a.imports = b.imports => a = b

\* A request works on an account or a group, has checked what it must before it
\* writes, and its form is as old as its revision tells.
Knows(r) ==
    LET q == request[r] IN
    /\ q.pc \in {"lock", "read", "write"} /\ q.op # "deleteGroup" => q.target \in Users
    /\ q.pc \in {"lock", "read"} => q.op \in Locking
    /\ q.op \in {"access", "createUser", "createAdmin"} => q.access \in Accesses
    /\ q.op = "createUser" => q.access.role = "USER"
    /\ q.pc = "write" /\ q.op \in {"login", "change"} => q.seen \in Made
    /\ q.pc = "write" /\ q.op \in {"access", "disable", "enable"} => Exists(q.target)
    /\ q.pc \in {"edit", "save"} => Older(q.loaded, settings)
    /\ q.pc = "save" =>
         /\ Older(q.loaded, q.current) /\ Older(q.current, settings)
         /\ q.patch \in [field : Fields, value : Values]

RequestsKnow == \A r \in Requests : Knows(r)

\* Who counts administrators holds the lock.
Counting(r) == request[r].pc = "read" \/ (request[r].pc = "write" /\ request[r].op \in Locking)
LockHeld == \A r \in Requests : Counting(r) => lock = r

\* What is about to take an administrator away does not take the last one.
Removing(r) ==
    /\ request[r].pc = "write"
    /\ request[r].op = "disable" \/ (request[r].op = "access" /\ request[r].access.role = "USER")
RemovalsAllowed == \A r \in Requests : Removing(r) => ~LastAdmin(request[r].target)

IInv ==
    /\ Types /\ RequestsKnow /\ LockHeld /\ RemovalsAllowed
    /\ SomeAdmin /\ SessionsAreCurrent /\ TemporaryMustChange
-----------------------------------------------------------------------------
(* Types.                                                                   *)

LEMMA RestingType ==
    /\ New \in Locals /\ [New EXCEPT !.pc = "done"] \in Locals
    /\ \A access \in Accesses : access \in [role : {"ADMIN", "USER"}, permissions : Permissions,
                                           mode : {"ALL", "SELECTED"}, groups : SUBSET Groups]
<1>1. New \in Locals
  BY DEF New, Locals, PCs, Ops, Rows
<1>2. [New EXCEPT !.pc = "done"] \in Locals
  BY <1>1 DEF Locals, PCs
<1>3. \A access \in Accesses : access \in [role : {"ADMIN", "USER"}, permissions : Permissions,
                                           mode : {"ALL", "SELECTED"}, groups : SUBSET Groups]
  BY AdministrationAssumption DEF Accesses, Administrator, Access
<1> QED
  BY <1>1, <1>2, <1>3

LEMMA TypesSuffice == Types => TypeOK
<1> SUFFICES ASSUME Types PROVE TypeOK
  OBVIOUS
<1>1. ASSUME NEW u \in Users
      PROVE  user[u] \in {Absent} \union [role : {"ADMIN", "USER"}, permissions : Permissions,
                          mode : {"ALL", "SELECTED"}, groups : SUBSET Groups, disabled : BOOLEAN,
                          mustChange : BOOLEAN, password : 1..issued]
  <2>1. user[u] \in Rows /\ user[u].password <= issued
    BY DEF Types
  <2> QED
    BY <2>1 DEF Rows, Made, Types
<1> QED
  BY <1>1 DEF Types, TypeOK, SettingsRows, Contents, Locals, PCs

LEMMA InitInv == Init => IInv
<1> SUFFICES ASSUME Init PROVE IInv
  OBVIOUS
<1> USE AdministrationAssumption
<1> DEFINE first == Account(Administrator, FALSE, 1)
<1>1. /\ first \in Made /\ ~first.disabled /\ first.password = 1 /\ first.role = "ADMIN"
      /\ Absent.password = 0 /\ first # Absent
  BY DEF Made, Account, Absent, Administrator, Access
<1>u. user = [u \in Users |-> IF u \in Admins THEN first ELSE Absent]
  BY DEF Init
<1>s. \A s \in sessions : s.user \in Admins /\ s.password = 1
  BY DEF Init
<1> HIDE DEF first
<1>2. Absent \notin Made
  BY DEF Absent, Account, Made
<1>3. settings \in SettingsRows
  BY DEF Init, SettingsRows, Contents
<1>4. Types
  <2>1. user \in [Users -> Rows] /\ \A u \in Users : user[u].password <= 1
    BY <1>1, <1>u DEF Rows
  <2>2. \A s \in sessions : s.user \in Users /\ Exists(s.user) /\ s.password \in 1..1
    BY <1>1, <1>u, <1>s DEF Exists
  <2>3. /\ issued = 1 /\ temporary = {} /\ groups = Groups /\ lock = Nobody
        /\ request = [r \in Requests |-> New]
    BY DEF Init
  <2> QED
    BY <1>3, <2>1, <2>2, <2>3, RestingType DEF Types
<1>5. \A r \in Requests : request[r] = New
  BY DEF Init
<1>6. RequestsKnow /\ LockHeld /\ RemovalsAllowed
  BY <1>5 DEF RequestsKnow, Knows, LockHeld, Counting, RemovalsAllowed, Removing, New
<1>7. SomeAdmin
  BY <1>1, <1>u DEF SomeAdmin, EnabledAdmins
<1>8. SessionsAreCurrent /\ TemporaryMustChange
  BY <1>1, <1>u, <1>s DEF Init, SessionsAreCurrent, TemporaryMustChange
<1> QED
  BY <1>4, <1>6, <1>7, <1>8 DEF IInv
-----------------------------------------------------------------------------
(* What a step makes of the accounts.                                       *)

Keeps == UNCHANGED <<user, passwords>>

\* One account gets another row, with a new password or the one it had.
Rewrites(u, next) ==
    /\ u \in Users /\ next \in Made /\ user' = [user EXCEPT ![u] = next]
    /\ \/ Exists(u) /\ next.password = user[u].password /\ UNCHANGED passwords
       \/ /\ next.password = issued + 1 /\ issued' = issued + 1
          /\ temporary' = temporary \/ (temporary' = temporary \union {issued + 1} /\ next.mustChange)

\* A row with another access.
WithAccess(row, access) == [row EXCEPT !.role = access.role, !.permissions = access.permissions,
                                       !.mode = access.mode, !.groups = access.groups]
WithDisabled(row, disabled) == [row EXCEPT !.disabled = disabled]
WithPassword(row, password, mustChange) ==
    [row EXCEPT !.password = password, !.mustChange = mustChange]

\* What a changed row has in its fields.
LEMMA AccessParts ==
    ASSUME NEW row \in Made, NEW access \in Accesses
    PROVE  LET next == WithAccess(row, access) IN
           /\ next \in Made
           /\ next.role = access.role /\ next.permissions = access.permissions
           /\ next.mode = access.mode /\ next.groups = access.groups
           /\ next.disabled = row.disabled /\ next.mustChange = row.mustChange
           /\ next.password = row.password
  BY RestingType DEF Made, WithAccess

LEMMA DisabledParts ==
    ASSUME NEW row \in Made, NEW disabled \in BOOLEAN
    PROVE  LET next == WithDisabled(row, disabled) IN
           /\ next \in Made
           /\ next.role = row.role /\ next.permissions = row.permissions
           /\ next.mode = row.mode /\ next.groups = row.groups
           /\ next.disabled = disabled /\ next.mustChange = row.mustChange
           /\ next.password = row.password
  BY DEF Made, WithDisabled

LEMMA PasswordParts ==
    ASSUME NEW row \in Made, NEW password \in Nat \ {0}, NEW mustChange \in BOOLEAN
    PROVE  LET next == WithPassword(row, password, mustChange) IN
           /\ next \in Made
           /\ next.role = row.role /\ next.permissions = row.permissions
           /\ next.mode = row.mode /\ next.groups = row.groups
           /\ next.disabled = row.disabled /\ next.mustChange = mustChange
           /\ next.password = password
  BY DEF Made, WithPassword

LEMMA MadeRow ==
    ASSUME IInv, NEW u \in Users, Exists(u)
    PROVE  user[u] \in Made /\ issued + 1 \in Nat \ {0}
  BY DEF IInv, Types, Rows, Exists

LEMMA AbsentRow ==
    /\ Absent \notin Made /\ Absent.role = "NONE" /\ Absent.disabled = FALSE /\ Absent.mustChange = FALSE
    /\ Absent.password = 0
    /\ Absent = [role |-> "NONE", permissions |-> AllPermissions, mode |-> "ALL", groups |-> {},
                 disabled |-> FALSE, mustChange |-> FALSE, password |-> 0]
  BY DEF Absent, Account, Made, NoAccess, Access

LEMMA ChangePasswordRow ==
    ASSUME IInv, NEW r \in Requests, ChangePassword(r)
    PROVE  \/ Keeps /\ sessions' = sessions
           \/ \E u \in Users :
                /\ Rewrites(u, WithPassword(user[u], issued + 1, FALSE))
                /\ Exists(u) /\ ~user[u].disabled
                /\ sessions' = SessionsOfOthers(u) \union {[user |-> u, password |-> issued + 1, by |-> r]}
<1>0. request[r].target \in Users /\ request[r].seen \in Made
  BY DEF IInv, RequestsKnow, Knows, ChangePassword
<1>1. CASE ~StillVerified(r)
  BY <1>1 DEF ChangePassword, Keeps, passwords
<1>2. CASE StillVerified(r)
  <2> DEFINE u == request[r].target
  <2>1. user[u].password # 0 /\ ~user[u].disabled
    BY <1>0, <1>2 DEF StillVerified, Made
  <2>2. Exists(u)
    BY <2>1 DEF Exists, Absent, Account
  <2> DEFINE next == WithPassword(user[u], issued + 1, FALSE)
  <2>3. next \in Made /\ next.password = issued + 1
    BY <1>0, <2>2, MadeRow, PasswordParts
  <2>4. /\ issued' = issued + 1 /\ temporary' = temporary /\ user' = [user EXCEPT ![u] = next]
        /\ sessions' = SessionsOfOthers(u) \union {[user |-> u, password |-> issued + 1, by |-> r]}
    BY <1>2 DEF ChangePassword, WithPassword
  <2> HIDE DEF next
  <2>5. Rewrites(u, next)
    BY <1>0, <2>3, <2>4 DEF Rewrites
  <2> QED
    BY <1>0, <2>1, <2>2, <2>4, <2>5 DEF next
<1> QED
  BY <1>1, <1>2

LEMMA ResetPasswordRow ==
    ASSUME IInv, NEW r \in Requests, ResetPassword(r)
    PROVE  \/ Keeps /\ sessions' = sessions
           \/ \E u \in Users :
                /\ Rewrites(u, WithPassword(user[u], issued + 1, TRUE))
                /\ Exists(u) /\ sessions' = SessionsOfOthers(u)
<1>0. request[r].target \in Users
  BY DEF IInv, RequestsKnow, Knows, ResetPassword
<1>1. CASE ~Exists(request[r].target)
  BY <1>1 DEF ResetPassword, Keeps, passwords
<1>2. CASE Exists(request[r].target)
  <2> DEFINE u == request[r].target
             next == WithPassword(user[u], issued + 1, TRUE)
  <2>1. next \in Made /\ next.password = issued + 1 /\ next.mustChange = TRUE
    BY <1>0, <1>2, MadeRow, PasswordParts
  <2>2. /\ issued' = issued + 1 /\ temporary' = temporary \union {issued + 1}
        /\ user' = [user EXCEPT ![u] = next] /\ sessions' = SessionsOfOthers(u)
    BY <1>2 DEF ResetPassword, WithPassword
  <2> HIDE DEF next
  <2>3. Rewrites(u, next)
    BY <1>0, <2>1, <2>2 DEF Rewrites
  <2> QED
    BY <1>0, <1>2, <2>2, <2>3 DEF next
<1> QED
  BY <1>1, <1>2

LEMMA UpdateAccessRow ==
    ASSUME IInv, NEW r \in Requests, UpdateAccess(r)
    PROVE  LET u == request[r].target
               next == request[r].access
           IN  /\ Exists(u) /\ u \in Users /\ next \in Accesses /\ sessions' = sessions
               /\ Keeps \/ Rewrites(u, WithAccess(user[u], next))
<1>0. request[r].target \in Users /\ Exists(request[r].target) /\ request[r].access \in Accesses
  BY DEF IInv, RequestsKnow, Knows, UpdateAccess
<1> DEFINE u == request[r].target
           next == WithAccess(user[u], request[r].access)
<1>1. next \in Made /\ next.password = user[u].password
  BY <1>0, MadeRow, AccessParts
<1>2. (user' = user \/ user' = [user EXCEPT ![u] = next]) /\ UNCHANGED <<passwords, sessions>>
  BY DEF UpdateAccess, WithAccess
<1> HIDE DEF next
<1>3. Keeps \/ Rewrites(u, next)
  BY <1>0, <1>1, <1>2 DEF Rewrites, passwords, Keeps
<1> QED
  BY <1>0, <1>2, <1>3 DEF next

LEMMA DisableRow ==
    ASSUME IInv, NEW r \in Requests, Disable(r)
    PROVE  LET u == request[r].target
           IN  /\ Rewrites(u, WithDisabled(user[u], TRUE))
               /\ Exists(u) /\ sessions' = SessionsOfOthers(u)
<1>0. request[r].target \in Users /\ Exists(request[r].target)
  BY DEF IInv, RequestsKnow, Knows, Disable
<1> DEFINE u == request[r].target
           next == WithDisabled(user[u], TRUE)
<1>1. next \in Made /\ next.password = user[u].password
  BY <1>0, MadeRow, DisabledParts
<1>2. user' = [user EXCEPT ![u] = next] /\ UNCHANGED passwords /\ sessions' = SessionsOfOthers(u)
  BY DEF Disable, WithDisabled
<1> HIDE DEF next
<1>3. Rewrites(u, next)
  BY <1>0, <1>1, <1>2 DEF Rewrites, passwords
<1> QED
  BY <1>0, <1>2, <1>3 DEF next

LEMMA EnableRow ==
    ASSUME IInv, NEW r \in Requests, Enable(r)
    PROVE  /\ Exists(request[r].target) /\ sessions' = sessions
           /\ Keeps \/ LET u == request[r].target
                       IN  Rewrites(u, WithDisabled(user[u], FALSE))
<1>0. request[r].target \in Users /\ Exists(request[r].target)
  BY DEF IInv, RequestsKnow, Knows, Enable
<1> DEFINE u == request[r].target
           next == WithDisabled(user[u], FALSE)
<1>1. next \in Made /\ next.password = user[u].password
  BY <1>0, MadeRow, DisabledParts
<1>2. UNCHANGED <<passwords, sessions>> /\ (user' = [user EXCEPT ![u] = next] \/ UNCHANGED user)
  BY DEF Enable, WithDisabled
<1> HIDE DEF next
<1>3. Keeps \/ Rewrites(u, next)
  BY <1>0, <1>1, <1>2 DEF Rewrites, passwords, Keeps
<1> QED
  BY <1>0, <1>2, <1>3 DEF next, passwords

LEMMA CreateUserRow ==
    ASSUME IInv, NEW r \in Requests, CreateUser(r)
    PROVE  /\ sessions' = sessions
           /\ Keeps \/ LET u == request[r].target
                           next == request[r].access
                       IN  /\ ~Exists(u)
                           /\ Rewrites(u, Account(next, TRUE, issued + 1))
<1>0. request[r].target \in Users /\ request[r].access \in Accesses
  BY DEF IInv, RequestsKnow, Knows, CreateUser
<1> DEFINE u == request[r].target
           next == Account(request[r].access, TRUE, issued + 1)
<1>1. next \in Made /\ next.password = issued + 1 /\ next.mustChange
  BY <1>0, RestingType DEF Made, Account, IInv, Types
<1> DEFINE refused == Exists(u) \/ ~(request[r].access.groups \subseteq groups)
<1>2. CASE refused
  BY <1>2 DEF CreateUser, Keeps
<1>3. CASE ~refused
  <2>1. /\ issued' = issued + 1 /\ temporary' = temporary \union {issued + 1}
        /\ user' = [user EXCEPT ![u] = next] /\ sessions' = sessions
    BY <1>3 DEF CreateUser
  <2> QED
    BY <1>0, <1>1, <1>3, <2>1 DEF Rewrites
<1> QED
  BY <1>2, <1>3

\* The steps that leave every account as it is.
LEMMA KeepingSteps ==
    ASSUME IInv, NEW r \in Requests,
           Ask(r) \/ Login(r) \/ LockAdminCardinality(r) \/ ReadAccount(r) \/ SaveSettings(r)
    PROVE  Keeps
  BY DEF Ask, Begin, AskAdministration, AskDeletion, AskWithPassword, Logout, LoadSettings, PatchSettings,
         Login, LockAdminCardinality, ReadAccount, SaveSettings, Keeps

LEMMA OperatorCreatesRow ==
    ASSUME IInv, NEW u \in Users, NEW access \in Asked, OperatorCreates(u, access)
    PROVE  /\ ~Exists(u) /\ sessions' = sessions
           /\ Rewrites(u, Account(access, FALSE, issued + 1))
<1> DEFINE next == Account(access, FALSE, issued + 1)
<1>1. next \in Made /\ next.password = issued + 1
  BY AdministrationAssumption, RestingType DEF Made, Account, IInv, Types
<1>2. /\ ~Exists(u) /\ issued' = issued + 1 /\ temporary' = temporary /\ sessions' = sessions
      /\ user' = [user EXCEPT ![u] = next]
  BY DEF OperatorCreates
<1> HIDE DEF next
<1>3. Rewrites(u, next)
  BY <1>1, <1>2 DEF Rewrites
<1> QED
  BY <1>2, <1>3 DEF next

WithoutGroup(row, g) == [row EXCEPT !.groups = @ \ {g}]

LEMMA NoGrantGone == ASSUME NEW g PROVE WithoutGroup(Absent, g) = Absent
<1>1. {} \ {g} = {}
  OBVIOUS
<1>2. Absent = [role |-> "NONE", permissions |-> AllPermissions, mode |-> "ALL", groups |-> {},
                disabled |-> FALSE, mustChange |-> FALSE, password |-> 0]
  BY AbsentRow
<1>3. WithoutGroup(Absent, g) = [Absent EXCEPT !.groups = {}]
  BY <1>1, <1>2 DEF WithoutGroup
<1> QED
  BY <1>2, <1>3

LEMMA GrantGone ==
    ASSUME NEW g, NEW row \in Made
    PROVE  LET next == WithoutGroup(row, g) IN
           /\ next \in Made /\ next.groups = row.groups \ {g}
           /\ next.role = row.role /\ next.permissions = row.permissions
           /\ next.mode = row.mode /\ next.disabled = row.disabled
           /\ next.mustChange = row.mustChange /\ next.password = row.password
  BY DEF WithoutGroup, Made

\* A group goes from the grants of every account, and nothing else does.
Ungrants ==
    /\ UNCHANGED passwords /\ user' \in [Users -> Rows]
    /\ \A u \in Users :
         /\ Exists(u)' <=> Exists(u)
         /\ user'[u].role = user[u].role /\ user'[u].permissions = user[u].permissions
         /\ user'[u].mode = user[u].mode /\ user'[u].disabled = user[u].disabled
         /\ user'[u].mustChange = user[u].mustChange /\ user'[u].password = user[u].password

LEMMA DeleteGroupRows ==
    ASSUME IInv, NEW r \in Requests, DeleteGroup(r)
    PROVE  sessions' = sessions /\ Ungrants
<1>0. \A u \in Users : user[u] \in Rows
  BY DEF IInv, Types
<1>1. CASE request[r].target \notin groups
  BY <1>1 DEF DeleteGroup, Ungrants, passwords, IInv, Types, Exists
<1>2. CASE request[r].target \in groups
  <2> DEFINE g == request[r].target
             lost(u) == WithoutGroup(user[u], g)
  <2>1. user' = [u \in Users |-> lost(u)] /\ UNCHANGED <<passwords, sessions>>
    BY <1>2 DEF DeleteGroup, WithoutGroup
  <2>2. ASSUME NEW u \in Users
        PROVE  /\ lost(u) \in Rows /\ (lost(u) = Absent <=> user[u] = Absent)
               /\ lost(u).role = user[u].role /\ lost(u).permissions = user[u].permissions
               /\ lost(u).mode = user[u].mode /\ lost(u).disabled = user[u].disabled
               /\ lost(u).mustChange = user[u].mustChange /\ lost(u).password = user[u].password
    <3>1. CASE user[u] = Absent
      BY <3>1, NoGrantGone DEF Rows
    <3>2. CASE user[u] \in Made
      BY <3>2, GrantGone, AbsentRow DEF Rows
    <3> QED
      BY <1>0, <3>1, <3>2 DEF Rows
  <2> HIDE DEF lost
  <2> QED
    BY <2>1, <2>2 DEF Ungrants, passwords, Exists
<1> QED
  BY <1>1, <1>2

\* An account that exists goes on existing, with a password made so far.
AccountsGo ==
    /\ issued' \in Nat \ {0} /\ issued <= issued'
    /\ user' \in [Users -> Rows]
    /\ \A u \in Users : Exists(u) => Exists(u)'
    /\ \A u \in Users : user'[u].password <= issued'
    /\ temporary' \subseteq 1..issued'

LEMMA KeepsAccounts == ASSUME IInv, Keeps PROVE AccountsGo
  BY DEF IInv, Types, Keeps, passwords, AccountsGo, Exists

LEMMA RewritesAccounts ==
    ASSUME IInv, NEW u, NEW next, Rewrites(u, next)
    PROVE  AccountsGo
<1>1. u \in Users /\ next \in Made /\ user' = [user EXCEPT ![u] = next] /\ user \in [Users -> Rows]
      /\ issued \in Nat \ {0} /\ temporary \subseteq 1..issued
  BY DEF Rewrites, IInv, Types
<1>2. issued' \in {issued, issued + 1} /\ next.password <= issued' /\ temporary' \subseteq 1..issued'
  <2>1. CASE Exists(u) /\ next.password = user[u].password /\ UNCHANGED passwords
    BY <1>1, <2>1 DEF passwords, IInv, Types
  <2>2. CASE /\ next.password = issued + 1 /\ issued' = issued + 1
             /\ temporary' \in {temporary, temporary \union {issued + 1}}
    BY <1>1, <2>2
  <2> QED
    BY <2>1, <2>2 DEF Rewrites
<1>3. user' \in [Users -> Rows]
  BY <1>1 DEF Rows
<1>4. \A w \in Users : Exists(w) => Exists(w)'
  BY <1>1, AbsentRow DEF Exists
<1>5. \A w \in Users : user'[w].password <= issued'
  <2>1. \A w \in Users : user[w].password <= issued /\ user[w].password \in Nat
    BY DEF IInv, Types, Rows, Made, Absent, Account
  <2> QED
    BY <1>1, <1>2, <2>1
<1> QED
  BY <1>1, <1>2, <1>3, <1>4, <1>5 DEF AccountsGo

LEMMA UngrantsAccounts == ASSUME IInv, Ungrants PROVE AccountsGo
  BY DEF IInv, Types, Ungrants, passwords, AccountsGo

LEMMA AccountsStep == ASSUME IInv, [Next]_vars PROVE AccountsGo
<1>1. CASE UNCHANGED vars
  BY <1>1, KeepsAccounts DEF vars, Keeps, passwords
<1>2. ASSUME NEW r \in Requests,
             \/ ChangePassword(r) \/ ResetPassword(r) \/ UpdateAccess(r) \/ Disable(r) \/ Enable(r)
             \/ CreateUser(r) \/ DeleteGroup(r)
      PROVE  AccountsGo
  <2>1. CASE ChangePassword(r)
    BY <2>1, ChangePasswordRow, KeepsAccounts, RewritesAccounts
  <2>2. CASE ResetPassword(r)
    BY <2>2, ResetPasswordRow, KeepsAccounts, RewritesAccounts
  <2>3. CASE UpdateAccess(r)
    BY <2>3, UpdateAccessRow, KeepsAccounts, RewritesAccounts
  <2>4. CASE Disable(r)
    BY <2>4, DisableRow, RewritesAccounts
  <2>5. CASE Enable(r)
    BY <2>5, EnableRow, KeepsAccounts, RewritesAccounts
  <2>6. CASE CreateUser(r)
    BY <2>6, CreateUserRow, KeepsAccounts, RewritesAccounts
  <2>7. CASE DeleteGroup(r)
    BY <2>7, DeleteGroupRows, UngrantsAccounts
  <2> QED
    BY <1>2, <2>1, <2>2, <2>3, <2>4, <2>5, <2>6, <2>7
<1>3. ASSUME Operator PROVE AccountsGo
  <2>1. ASSUME NEW u \in Users, NEW access \in Asked, OperatorCreates(u, access) PROVE AccountsGo
    BY <2>1, OperatorCreatesRow, RewritesAccounts
  <2>2. ASSUME NEW value \in Values, ImportGeofence(value) PROVE AccountsGo
    BY <2>2, KeepsAccounts DEF ImportGeofence, Keeps
  <2> QED
    BY <1>3, <2>1, <2>2 DEF Operator
<1> QED
  BY <1>1, <1>2, <1>3, KeepingSteps, KeepsAccounts DEF Next, Serve
-----------------------------------------------------------------------------
(* What a step makes of the requests and the lock.                          *)

\* What a request holds from its beginning, and after a password was verified.
Beginning(pc, op, actor, target, access) ==
    [New EXCEPT !.pc = pc, !.op = op, !.actor = actor, !.target = target, !.access = access]
Verified(op, target, seen) == [New EXCEPT !.pc = "write", !.op = op, !.target = target, !.seen = seen]

LEMMA BeginningParts ==
    ASSUME NEW pc \in PCs, NEW op \in Ops, NEW actor \in Users \cup {Nobody},
           NEW target \in Users \cup Groups \cup {Nobody}, NEW access \in Accesses \cup {NoAccess}
    PROVE  LET q == Beginning(pc, op, actor, target, access)
           IN  q \in Locals /\ q.pc = pc /\ q.op = op /\ q.target = target /\ q.access = access
<1>1. New \in Locals
  BY RestingType
<1> DEFINE a == [New EXCEPT !.pc = pc, !.op = op, !.actor = actor]
<1>2. a \in Locals /\ a.pc = pc /\ a.op = op
  BY <1>1 DEF Locals
<1>3. Beginning(pc, op, actor, target, access) = [a EXCEPT !.target = target, !.access = access]
  BY DEF Beginning
<1> HIDE DEF a
<1> QED
  BY <1>2, <1>3 DEF Locals

LEMMA VerifiedParts ==
    ASSUME NEW op \in Ops, NEW target \in Users, NEW seen \in Rows
    PROVE  LET q == Verified(op, target, seen)
           IN  q \in Locals /\ q.pc = "write" /\ q.op = op /\ q.target = target /\ q.seen = seen
  BY RestingType DEF Locals, PCs, Verified

\* What a save and an import make of the settings.
SavedRow(row, revision, fields) == [row EXCEPT !.revision = revision, !.fields = fields]
ImportedRow(row, imports, fields) == [row EXCEPT !.imports = imports, !.fields = fields]

LEMMA SavedParts ==
    ASSUME NEW row \in SettingsRows, NEW revision \in Nat, NEW fields \in Contents
    PROVE  LET next == SavedRow(row, revision, fields)
           IN  /\ next \in SettingsRows /\ next.revision = revision /\ next.imports = row.imports
               /\ next.fields = fields
  BY DEF SettingsRows, SavedRow

LEMMA ImportedParts ==
    ASSUME NEW row \in SettingsRows, NEW imports \in Nat, NEW fields \in Contents
    PROVE  LET next == ImportedRow(row, imports, fields)
           IN  /\ next \in SettingsRows /\ next.revision = row.revision /\ next.imports = imports
               /\ next.fields = fields
  BY DEF SettingsRows, ImportedRow

\* One request goes on.
Goes(r, q) == q \in Locals /\ request' = [request EXCEPT ![r] = q]

LEMMA ServedGoes == ASSUME IInv, NEW r \in Requests, Served(r)
                    PROVE  Goes(r, [New EXCEPT !.pc = "done"]) /\ request'[r].pc = "done"
                           /\ request'[r].op = "none"
  BY RestingType DEF Served, Goes, New, IInv, Types

\* The settings row changes by a save or by an import.
SettingsGo ==
    \/ settings' = settings
    \/ /\ settings' \in SettingsRows /\ settings'.revision = settings.revision + 1
       /\ settings'.imports = settings.imports
    \/ /\ settings' \in SettingsRows /\ settings'.revision = settings.revision
       /\ settings'.imports = settings.imports + 1
       /\ \A field \in Fields \ {Geofence} : settings'.fields[field] = settings.fields[field]

LEMMA OlderGoes ==
    ASSUME IInv, SettingsGo, NEW a, Older(a, settings)
    PROVE  Older(a, settings')
<1>1. /\ a \in SettingsRows /\ a.revision \in Nat /\ a.imports \in Nat
      /\ settings.revision \in Nat /\ settings.imports \in Nat
  BY DEF IInv, Types, Older, SettingsRows
<1> QED
  BY <1>1 DEF SettingsGo, Older

\* Whoever does not go on knows as much as before.
LEMMA OthersKnow ==
    ASSUME IInv, AccountsGo, SettingsGo, NEW o \in Requests, request'[o] = request[o]
    PROVE  Knows(o)'
<1>1. Knows(o)
  BY DEF IInv, RequestsKnow
<1>2. request[o].pc = "write" /\ request[o].op \in {"access", "disable", "enable"}
        => request[o].target \in Users
  BY <1>1 DEF Knows
<1> QED
  BY <1>1, <1>2, OlderGoes DEF Knows, AccountsGo

\* A request that is asked, or refused at once, neither counts nor removes.
Begun(r) ==
    /\ \E q : Goes(r, q)
    /\ Knows(r)' /\ ~Counting(r) /\ ~Counting(r)' /\ ~Removing(r)'
    /\ settings' = settings /\ lock' \in {lock, Unlocked(r)}

LEMMA AskGoes == ASSUME IInv, NEW r \in Requests, Ask(r) PROVE Begun(r)
<1> USE AdministrationAssumption
<1>0. /\ settings \in SettingsRows /\ request[r] \in Locals /\ request \in [Requests -> Locals]
      /\ New \in Locals /\ Knows(r) /\ user \in [Users -> Rows] /\ Older(settings, settings)
  BY RestingType DEF IInv, Types, RequestsKnow, SettingsRows, Older
<1>1. ASSUME NEW q \in Locals, request' = [request EXCEPT ![r] = q], settings' = settings,
             lock' \in {lock, Unlocked(r)}, request[r].pc \in {"new", "edit"},
             q.pc \in {"lock", "write", "edit", "save", "done"},
             q.pc = "write" => q.op \notin Locking /\ q.op \notin {"access", "disable", "enable"},
             Knows(r)'
      PROVE  Begun(r)
  BY <1>0, <1>1 DEF Begun, Goes, Counting, Removing, Locking
<1>2. ASSUME NEW a \in Users, NEW u \in Users, NEW access \in Asked \union {NoAccess},
             NEW op \in Locking \union {"reset", "createUser"}, AskAdministration(r, a, op, u, access)
      PROVE  Begun(r)
  <2> DEFINE pc == IF op \in Locking THEN "lock" ELSE "write"
             actor == IF op = "access" THEN a ELSE Nobody
             q == Beginning(pc, op, actor, u, access)
  <2>1. /\ q \in Locals /\ q.pc = pc /\ q.op = op /\ q.target = u /\ q.access = access
        /\ op \in {"access", "disable", "enable"} => op \in Locking
        /\ op \notin {"login", "change", "deleteGroup"}
    <3>1. pc \in PCs /\ op \in Ops /\ actor \in Users \union {Nobody} /\ access \in Accesses \union {NoAccess}
      BY DEF PCs, Ops, Locking
    <3>2. q \in Locals /\ q.pc = pc /\ q.op = op /\ q.target = u /\ q.access = access
      <4> HIDE DEF pc, actor
      <4> QED
        BY <3>1, BeginningParts
    <3> QED
      BY <3>2 DEF Locking
  <2>2. /\ request' = [request EXCEPT ![r] = q] /\ request[r].pc = "new" /\ settings' = settings /\ lock' = lock
        /\ op = "createUser" => access.role = "USER"
        /\ op \in {"access", "createUser", "createAdmin"} => access \in Accesses
    BY <1>2 DEF AskAdministration, Begins, Beginning
  <2>3. request'[r] = q
    BY <1>0, <2>1, <2>2
  <2> HIDE DEF q
  <2>4. Knows(r)'
    BY <2>1, <2>2, <2>3 DEF Knows
  <2> QED
    BY <1>1, <2>1, <2>2, <2>4
<1>3. ASSUME NEW op \in {"login", "change"}, NEW u \in Users, NEW supplied \in 1..issued,
             AskWithPassword(r, op, u, supplied)
      PROVE  Begun(r)
  <2>1. CASE user[u].password = supplied /\ ~user[u].disabled
    <3> DEFINE q == Verified(op, u, user[u])
    <3>1. user[u] \in Made
      BY <1>0, <2>1 DEF Rows, Absent, Account
    <3>2. q \in Locals /\ q.pc = "write" /\ q.op = op /\ q.target = u /\ q.seen = user[u]
      BY <1>0, VerifiedParts DEF Ops
    <3>3. request' = [request EXCEPT ![r] = q] /\ request[r].pc = "new" /\ settings' = settings /\ lock' = lock
      BY <1>3, <2>1 DEF AskWithPassword, Verified
    <3>4. request'[r] = q
      BY <1>0, <3>2, <3>3
    <3> HIDE DEF q
    <3>5. Knows(r)'
      BY <3>1, <3>2, <3>4 DEF Knows
    <3> QED
      BY <1>1, <3>2, <3>3, <3>5 DEF Locking
  <2>2. CASE ~(user[u].password = supplied /\ ~user[u].disabled)
    <3> DEFINE q == [New EXCEPT !.pc = "done"]
    <3>1. q \in Locals /\ q.pc = "done" /\ q.op = "none"
      BY RestingType DEF New
    <3>2. request' = [request EXCEPT ![r] = q] /\ request[r].pc = "new" /\ settings' = settings /\ lock' = lock
      BY <1>3, <2>2 DEF AskWithPassword
    <3>3. request'[r] = q
      BY <1>0, <3>1, <3>2
    <3> HIDE DEF q
    <3>4. Knows(r)'
      BY <3>1, <3>3 DEF Knows
    <3> QED
      BY <1>1, <3>1, <3>2, <3>4
  <2> QED
    BY <2>1, <2>2
<1>4. ASSUME NEW s \in sessions, Logout(r, s) PROVE Begun(r)
  <2> DEFINE q == [New EXCEPT !.pc = "done"]
  <2>1. q \in Locals /\ q.pc = "done" /\ q.op = "none"
    BY RestingType DEF New
  <2>2. /\ request' = [request EXCEPT ![r] = q] /\ request[r].pc = "new" /\ settings' = settings
        /\ lock' = Unlocked(r)
    BY <1>4 DEF Logout, Served
  <2>3. request'[r] = q
    BY <1>0, <2>1, <2>2
  <2> HIDE DEF q
  <2>4. Knows(r)'
    BY <2>1, <2>3 DEF Knows
  <2> QED
    BY <1>1, <2>1, <2>2, <2>4
<1>5. ASSUME NEW a \in Users, LoadSettings(r, a) PROVE Begun(r)
  <2> DEFINE q == [New EXCEPT !.pc = "edit", !.actor = a, !.loaded = settings]
  <2>1. q \in Locals /\ q.pc = "edit" /\ q.op = "none" /\ q.loaded = settings
    BY <1>0 DEF Locals, PCs, New
  <2>2. request' = [request EXCEPT ![r] = q] /\ request[r].pc = "new" /\ settings' = settings /\ lock' = lock
    BY <1>5 DEF LoadSettings
  <2>3. request'[r] = q
    BY <1>0, <2>1, <2>2
  <2> HIDE DEF q
  <2>4. Knows(r)'
    BY <1>0, <2>1, <2>2, <2>3 DEF Knows
  <2> QED
    BY <1>1, <2>1, <2>2, <2>4
<1>6. ASSUME NEW field \in Fields, NEW value \in Values, PatchSettings(r, field, value) PROVE Begun(r)
  <2> DEFINE q == [request[r] EXCEPT !.pc = "save", !.current = settings,
                                     !.patch = [field |-> field, value |-> value]]
  <2>1. /\ q \in Locals /\ q.pc = "save" /\ q.op = request[r].op /\ q.access = request[r].access
        /\ q.target = request[r].target /\ q.loaded = request[r].loaded /\ q.current = settings
        /\ q.patch \in [field : Fields, value : Values]
    BY <1>0 DEF Locals, PCs
  <2>2. request' = [request EXCEPT ![r] = q] /\ request[r].pc = "edit" /\ settings' = settings /\ lock' = lock
    BY <1>0, <1>6 DEF PatchSettings
  <2>3. request'[r] = q
    BY <1>0, <2>1, <2>2
  <2> HIDE DEF q
  <2>4. Knows(r)'
    BY <1>0, <2>1, <2>2, <2>3 DEF Knows
  <2> QED
    BY <1>1, <2>1, <2>2, <2>4
<1>7. ASSUME NEW a \in Users, NEW g \in Groups, AskDeletion(r, a, g) PROVE Begun(r)
  <2> DEFINE q == Beginning("write", "deleteGroup", Nobody, g, NoAccess)
  <2>1. q \in Locals /\ q.pc = "write" /\ q.op = "deleteGroup"
    BY BeginningParts DEF PCs, Ops
  <2>2. request' = [request EXCEPT ![r] = q] /\ request[r].pc = "new" /\ settings' = settings /\ lock' = lock
    BY <1>7 DEF AskDeletion, Begins, Beginning
  <2>3. request'[r] = q
    BY <1>0, <2>1, <2>2
  <2> HIDE DEF q
  <2>4. Knows(r)'
    BY <2>1, <2>3 DEF Knows
  <2> QED
    BY <1>1, <2>1, <2>2, <2>4 DEF Locking
<1> QED
  BY <1>2, <1>3, <1>4, <1>5, <1>6, <1>7 DEF Ask, Begin

LEMMA LockGoes ==
    ASSUME IInv, NEW r \in Requests, LockAdminCardinality(r)
    PROVE  /\ \E q : Goes(r, q)
           /\ Knows(r)' /\ lock = Nobody /\ lock' = r /\ ~Removing(r)' /\ settings' = settings
<1>0. request[r] \in Locals /\ request \in [Requests -> Locals] /\ Knows(r)
  BY DEF IInv, Types, RequestsKnow
<1> DEFINE pc == IF request[r].op = "createAdmin" THEN "write" ELSE "read"
           q == [request[r] EXCEPT !.pc = pc]
<1>1. /\ q \in Locals /\ q.pc = pc /\ q.op = request[r].op /\ q.access = request[r].access
      /\ q.target = request[r].target
  BY <1>0 DEF Locals, PCs
<1>2. /\ request' = [request EXCEPT ![r] = q] /\ request[r].pc = "lock" /\ settings' = settings
      /\ lock = Nobody /\ lock' = r
  BY <1>0 DEF LockAdminCardinality
<1>3. request'[r] = q
  BY <1>0, <1>1, <1>2
<1> HIDE DEF q
<1>4. Knows(r)' /\ ~Removing(r)'
  BY <1>0, <1>1, <1>2, <1>3 DEF Knows, Removing
<1> QED
  BY <1>1, <1>2, <1>4 DEF Goes

LEMMA ReadGoes ==
    ASSUME IInv, NEW r \in Requests, ReadAccount(r)
    PROVE  /\ \E q : Goes(r, q)
           /\ Knows(r)' /\ settings' = settings
           /\ \/ lock' = Unlocked(r) /\ ~Counting(r)' /\ ~Removing(r)'
              \/ lock' = lock /\ lock = r
                 /\ (Removing(r)' => ~LastAdmin(request[r].target) /\ request'[r].target = request[r].target)
<1>0. request[r] \in Locals /\ request \in [Requests -> Locals] /\ Knows(r) /\ user \in [Users -> Rows]
  BY DEF IInv, Types, RequestsKnow
<1>1. CASE Refused(r)
  <2>1. Served(r) /\ settings' = settings
    BY <1>1 DEF ReadAccount
  <2>2. Goes(r, [New EXCEPT !.pc = "done"]) /\ request'[r].pc = "done" /\ request'[r].op = "none"
    BY <2>1, ServedGoes
  <2>3. Knows(r)' /\ ~Counting(r)' /\ ~Removing(r)'
    BY <2>2 DEF Knows, Counting, Removing
  <2> QED
    BY <2>1, <2>2, <2>3 DEF Served
<1>2. CASE ~Refused(r)
  <2> DEFINE q == [request[r] EXCEPT !.pc = "write", !.seen = user[request[r].target]]
  <2>1. request[r].pc = "read" /\ request[r].target \in Users
    BY <1>0 DEF ReadAccount, Knows, Locking
  <2>2. /\ q \in Locals /\ q.pc = "write" /\ q.op = request[r].op /\ q.access = request[r].access
        /\ q.target = request[r].target /\ q.seen = user[request[r].target]
    BY <1>0, <2>1 DEF Locals, PCs
  <2>3. request' = [request EXCEPT ![r] = q] /\ settings' = settings /\ lock' = lock /\ user' = user
    BY <1>0, <1>2 DEF ReadAccount
  <2>4. request'[r] = q
    BY <1>0, <2>2, <2>3
  <2>5. lock = r
    BY <2>1 DEF IInv, LockHeld, Counting
  <2>6. Exists(request[r].target) /\ Exists(request[r].target)'
    BY <1>2, <2>3 DEF Refused, Exists
  <2>7. request[r].op \in Locking
    BY <1>0, <2>1 DEF Knows
  <2> HIDE DEF q
  <2>8. Knows(r)'
    BY <1>0, <2>1, <2>2, <2>4, <2>6, <2>7 DEF Knows, Locking
  <2>9. Removing(r)' => ~LastAdmin(request[r].target) /\ request'[r].target = request[r].target
    BY <1>2, <2>2, <2>4 DEF Removing, Refused
  <2> QED
    BY <2>2, <2>3, <2>5, <2>8, <2>9 DEF Goes
<1> QED
  BY <1>1, <1>2

Writes(r) ==
    \/ Login(r) \/ ChangePassword(r) \/ ResetPassword(r) \/ UpdateAccess(r) \/ Disable(r) \/ Enable(r)
    \/ CreateUser(r) \/ DeleteGroup(r) \/ SaveSettings(r)

\* A saved form makes the next revision: what its transaction read, patched.
Saves(r) ==
    /\ SaveSettings(r) /\ request[r].pc = "save" /\ request[r].loaded.revision = settings.revision
    /\ settings' \in SettingsRows /\ settings'.revision = settings.revision + 1
    /\ settings'.imports = settings.imports
    /\ settings'.fields = Merged(request[r].current.fields, request[r].patch)

LEMMA SaveGoes == ASSUME IInv, NEW r \in Requests, SaveSettings(r) PROVE settings' = settings \/ Saves(r)
<1> DEFINE q == request[r]
           next == Merged(q.current.fields, q.patch)
<1>1. /\ q.pc = "save" /\ q.current \in SettingsRows /\ q.patch \in [field : Fields, value : Values]
      /\ settings \in SettingsRows
  BY DEF SaveSettings, IInv, RequestsKnow, Knows, Types, Older
<1>2. next \in Contents
  BY <1>1 DEF Merged, SettingsRows, Contents
<1>3. CASE next = q.current.fields \/ settings.revision # q.loaded.revision
  BY <1>3 DEF SaveSettings
<1>4. CASE ~(next = q.current.fields \/ settings.revision # q.loaded.revision)
  <2>1. settings' = SavedRow(settings, settings.revision + 1, next)
    BY <1>4 DEF SaveSettings, SavedRow
  <2> HIDE DEF next
  <2>2. settings.revision + 1 \in Nat
    BY <1>1 DEF SettingsRows
  <2>3. /\ settings' \in SettingsRows /\ settings'.revision = settings.revision + 1
        /\ settings'.imports = settings.imports /\ settings'.fields = next
    BY <1>1, <1>2, <2>1, <2>2, SavedParts
  <2> QED
    BY <1>1, <1>4, <2>3 DEF Saves, next
<1> QED
  BY <1>3, <1>4

LEMMA WriteGoes ==
    ASSUME IInv, NEW r \in Requests, Writes(r)
    PROVE  /\ \E q : Goes(r, q)
           /\ Knows(r)' /\ ~Counting(r)' /\ ~Removing(r)' /\ lock' = Unlocked(r)
           /\ settings' = settings \/ Saves(r)
<1>1. Served(r)
  BY DEF Writes, Login, ChangePassword, ResetPassword, UpdateAccess, Disable, Enable, CreateUser,
         DeleteGroup, SaveSettings
<1>2. settings' = settings \/ Saves(r)
  BY SaveGoes DEF Writes, Login, ChangePassword, ResetPassword, UpdateAccess, Disable, Enable, CreateUser,
                  DeleteGroup
<1>3. Goes(r, [New EXCEPT !.pc = "done"]) /\ request'[r].pc = "done" /\ request'[r].op = "none"
  BY <1>1, ServedGoes
<1>4. Knows(r)' /\ ~Counting(r)' /\ ~Removing(r)'
  BY <1>3 DEF Knows, Counting, Removing
<1> QED
  BY <1>1, <1>2, <1>3, <1>4 DEF Served

\* A step of the system, as a step of one request or of the operator.
LEMMA StepOfOne ==
    ASSUME Next
    PROVE  \/ Operator
           \/ \E r \in Requests : Ask(r) \/ LockAdminCardinality(r) \/ ReadAccount(r) \/ Writes(r)
  BY DEF Next, Serve, Writes

LEMMA ImportGoes ==
    ASSUME IInv, NEW value \in Values, ImportGeofence(value)
    PROVE  /\ settings' \in SettingsRows /\ SettingsGo /\ Keeps
           /\ UNCHANGED <<sessions, groups, audit, lock, request>>
<1>1. settings \in SettingsRows /\ Geofence \in Fields
  BY AdministrationAssumption DEF IInv, Types
<1> DEFINE fields == [settings.fields EXCEPT ![Geofence] = value]
<1>2. /\ fields \in Contents
      /\ \A field \in Fields \ {Geofence} : fields[field] = settings.fields[field]
  BY <1>1 DEF SettingsRows, Contents
<1>3. settings' = ImportedRow(settings, settings.imports + 1, fields)
  BY DEF ImportGeofence, ImportedRow
<1> HIDE DEF fields
<1>4. settings.imports + 1 \in Nat
  BY <1>1 DEF SettingsRows
<1>5. /\ settings' \in SettingsRows /\ settings'.revision = settings.revision
      /\ settings'.imports = settings.imports + 1 /\ settings'.fields = fields
  BY <1>1, <1>2, <1>3, <1>4, ImportedParts
<1> QED
  BY <1>2, <1>5 DEF SettingsGo, ImportGeofence, Keeps

LEMMA RequestsStep ==
    ASSUME IInv, AccountsGo, NEW r \in Requests,
           Ask(r) \/ LockAdminCardinality(r) \/ ReadAccount(r) \/ Writes(r)
    PROVE  /\ \E q : Goes(r, q)
           /\ RequestsKnow' /\ LockHeld'
           /\ lock' \in Requests \cup {Nobody} /\ settings' \in SettingsRows
           /\ settings' = settings \/ Saves(r)
<1>1. /\ \E q : Goes(r, q)
      /\ Knows(r)'
      /\ settings' = settings \/ Saves(r)
      /\ \/ lock' \in {lock, Unlocked(r)} /\ ~Counting(r)'
         \/ lock' = r /\ (lock = Nobody \/ lock = r)
  BY AskGoes, LockGoes, ReadGoes, WriteGoes DEF Begun
<1>2. settings' \in SettingsRows
  BY <1>1 DEF Saves, IInv, Types
<1>3. RequestsKnow'
  <2>1. SettingsGo
    BY <1>1 DEF Saves, SettingsGo
  <2>2. ASSUME NEW o \in Requests, o # r PROVE request'[o] = request[o]
    BY <1>1, <2>2 DEF Goes, IInv, Types
  <2> QED
    BY <1>1, <2>1, <2>2, OthersKnow DEF RequestsKnow
<1>4. lock' \in Requests \cup {Nobody}
  BY <1>1 DEF Unlocked, IInv, Types
<1>5. ASSUME NEW o \in Requests, Counting(o)' PROVE lock' = o
  <2>1. CASE o = r
    BY <1>1, <1>5, <2>1
  <2>2. CASE o # r
    <3>1. request'[o] = request[o]
      BY <1>1, <2>2 DEF Goes, IInv, Types
    <3>2. lock = o /\ o # Nobody
      BY <1>5, <3>1, AdministrationAssumption DEF Counting, IInv, LockHeld
    <3> QED
      BY <1>1, <2>2, <3>2 DEF Unlocked
  <2> QED
    BY <2>1, <2>2
<1> QED
  BY <1>1, <1>2, <1>3, <1>4, <1>5 DEF LockHeld

\* The operator's scripts work on no request, and take no lock.
LEMMA OperatorGoes ==
    ASSUME IInv, AccountsGo, Operator
    PROVE  /\ RequestsKnow' /\ LockHeld'
           /\ settings' \in SettingsRows
           /\ UNCHANGED <<groups, audit, lock, request, sessions>>
<1>1. SettingsGo /\ settings' \in SettingsRows /\ UNCHANGED <<groups, audit, lock, request, sessions>>
  BY ImportGoes DEF Operator, OperatorCreates, SettingsGo, IInv, Types
<1> QED
  BY <1>1, OthersKnow DEF RequestsKnow, LockHeld, Counting, IInv

\* Sessions are opened for accounts that exist and go with what they were
\* opened with.
SessionsGo ==
    /\ \A s \in sessions' : s.user \in Users /\ Exists(s.user)' /\ s.password \in 1..issued'
    /\ SessionsAreCurrent'

LEMMA KeptSessions ==
    ASSUME IInv, AccountsGo, sessions' \subseteq sessions,
           \A s \in sessions' : user'[s.user].password = user[s.user].password
                                /\ (user'[s.user].disabled => user[s.user].disabled)
    PROVE  SessionsGo
  BY DEF IInv, Types, AccountsGo, SessionsGo, SessionsAreCurrent

LEMMA RewrittenSessions ==
    ASSUME IInv, AccountsGo, NEW u, NEW next, Rewrites(u, next), sessions' = SessionsOfOthers(u)
    PROVE  SessionsGo
<1>1. \A s \in sessions' : s.user # u /\ s \in sessions /\ s.user \in Users
  BY DEF SessionsOfOthers, IInv, Types
<1> QED
  BY <1>1, KeptSessions DEF Rewrites, IInv, Types

LEMMA SessionsStep ==
    ASSUME IInv, AccountsGo, NEW r \in Requests,
           Ask(r) \/ LockAdminCardinality(r) \/ ReadAccount(r) \/ Writes(r)
    PROVE  SessionsGo
<1>0. user \in [Users -> Rows] /\ \A s \in sessions : s.user \in Users /\ Exists(s.user)
  BY DEF IInv, Types
<1>1. CASE Ask(r) \/ LockAdminCardinality(r) \/ ReadAccount(r) \/ SaveSettings(r)
  <2>1. user' = user
    BY <1>1, KeepingSteps DEF Keeps
  <2>2. sessions' \subseteq sessions
    BY <1>1 DEF Ask, Begin, AskAdministration, AskDeletion, AskWithPassword, Logout, LoadSettings,
                PatchSettings, LockAdminCardinality, ReadAccount, SaveSettings
  <2> QED
    BY <2>1, <2>2, KeptSessions
<1>2. CASE Login(r)
  <2>1. user' = user /\ issued' = issued
    BY <1>2, KeepingSteps DEF Keeps, passwords
  <2>2. request[r].target \in Users /\ request[r].seen \in Made
    BY <1>2 DEF Login, IInv, RequestsKnow, Knows
  <2> DEFINE u == request[r].target
             s == [user |-> u, password |-> user[u].password, by |-> r]
  <2>3. CASE ~StillVerified(r)
    BY <1>2, <2>1, <2>3, KeptSessions DEF Login
  <2>4. CASE StillVerified(r)
    <3>1. user[u].password \in 1..issued /\ ~user[u].disabled /\ user[u].password # 0
      BY <2>2, <2>4 DEF StillVerified, IInv, Types, Made
    <3>2. Exists(u)
      BY <3>1, AbsentRow DEF Exists
    <3>3. sessions' = sessions \union {s}
      BY <1>2, <2>4 DEF Login
    <3>4. s.user = u /\ s.password = user[u].password
      OBVIOUS
    <3> HIDE DEF u, s
    <3>5. u \in Users
      BY <2>2 DEF u
    <3> QED
      BY <1>0, <2>1, <3>1, <3>2, <3>3, <3>4, <3>5 DEF SessionsGo, SessionsAreCurrent, IInv, Types, Exists
  <2> QED
    BY <2>3, <2>4
<1>3. CASE ChangePassword(r)
  <2>1. CASE Keeps /\ sessions' = sessions
    BY <2>1, KeptSessions DEF Keeps
  <2>2. CASE \E u \in Users :
                /\ Rewrites(u, WithPassword(user[u], issued + 1, FALSE))
                /\ Exists(u) /\ ~user[u].disabled
                /\ sessions' = SessionsOfOthers(u) \union {[user |-> u, password |-> issued + 1, by |-> r]}
    <3>1. PICK u \in Users :
                /\ Rewrites(u, WithPassword(user[u], issued + 1, FALSE))
                /\ Exists(u) /\ ~user[u].disabled
                /\ sessions' = SessionsOfOthers(u) \union {[user |-> u, password |-> issued + 1, by |-> r]}
      BY <2>2
    <3> DEFINE next == WithPassword(user[u], issued + 1, FALSE)
               s == [user |-> u, password |-> issued + 1, by |-> r]
    <3>2. /\ next \in Made /\ user'[u] = next /\ next.password = issued + 1 /\ next.disabled = FALSE
          /\ \A w \in Users : w # u => user'[w] = user[w]
      <4>1. next \in Made /\ next.password = issued + 1 /\ next.disabled = user[u].disabled
        BY <3>1, MadeRow, PasswordParts
      <4>2. user[u].disabled \in BOOLEAN
        BY <3>1, MadeRow DEF Made
      <4> HIDE DEF next
      <4> QED
        BY <1>0, <3>1, <4>1, <4>2 DEF Rewrites, next
    <3>3. issued' = issued + 1 /\ issued \in Nat
      <4>1. user[u].password <= issued /\ issued \in Nat
        BY DEF IInv, Types
      <4> HIDE DEF next
      <4>2. next.password # user[u].password
        BY <3>2, <4>1
      <4> QED
        BY <3>1, <3>2, <4>1, <4>2 DEF Rewrites, next
    <3>4. s.user = u /\ s.password = issued + 1 /\ sessions' = SessionsOfOthers(u) \union {s}
      BY <3>1
    <3>5. Exists(u)'
      BY <3>2, AbsentRow DEF Exists
    <3> HIDE DEF next, s
    <3>6. \A t \in SessionsOfOthers(u) :
            /\ t.user \in Users /\ t.password \in 1..issued /\ Exists(t.user)' /\ user'[t.user] = user[t.user]
            /\ t.password = user[t.user].password /\ ~user[t.user].disabled
      BY <1>0, <3>2 DEF SessionsOfOthers, IInv, Types, SessionsAreCurrent, AccountsGo
    <3> QED
      BY <3>2, <3>3, <3>4, <3>5, <3>6 DEF SessionsGo, SessionsAreCurrent
  <2> QED
    BY <1>3, <2>1, <2>2, ChangePasswordRow
<1>4. CASE ResetPassword(r)
  BY <1>4, ResetPasswordRow, KeptSessions, RewrittenSessions DEF Keeps
<1>5. CASE UpdateAccess(r)
  <2> DEFINE u == request[r].target
             next == WithAccess(user[u], request[r].access)
  <2>1. CASE Keeps
    BY <1>5, <2>1, UpdateAccessRow, KeptSessions DEF Keeps
  <2>2. CASE ~Keeps
    <3>1. Rewrites(u, next) /\ sessions' = sessions /\ user[u] \in Made /\ request[r].access \in Accesses
      BY <1>5, <2>2, UpdateAccessRow, MadeRow
    <3>2. next.password = user[u].password /\ next.disabled = user[u].disabled
      BY <3>1, AccessParts
    <3> HIDE DEF next
    <3> QED
      BY <1>0, <3>1, <3>2, KeptSessions DEF Rewrites
  <2> QED
    BY <2>1, <2>2
<1>6. CASE Disable(r)
  BY <1>6, DisableRow, RewrittenSessions
<1>7. CASE Enable(r)
  <2>1. CASE Keeps
    BY <1>7, <2>1, EnableRow, KeptSessions DEF Keeps
  <2>2. CASE ~Keeps
    <3> DEFINE u == request[r].target
               next == WithDisabled(user[u], FALSE)
    <3>1. Rewrites(u, next) /\ sessions' = sessions /\ Exists(u)
      BY <1>7, <2>2, EnableRow
    <3>2. user[u] \in Made
      BY <3>1, MadeRow DEF Rewrites
    <3>3. next.password = user[u].password /\ next.disabled = FALSE
      BY <3>2, DisabledParts
    <3> HIDE DEF next
    <3> QED
      BY <1>0, <3>1, <3>3, KeptSessions DEF Rewrites
  <2> QED
    BY <2>1, <2>2
<1>8. CASE CreateUser(r)
  <2>1. sessions' = sessions /\ (Keeps \/ \E next :
           ~Exists(request[r].target) /\ Rewrites(request[r].target, next))
    BY <1>8, CreateUserRow
  <2>2. \A s \in sessions' : user'[s.user] = user[s.user]
    BY <1>0, <2>1 DEF Keeps, Rewrites
  <2> QED
    BY <2>1, <2>2, KeptSessions
<1>9. CASE DeleteGroup(r)
  <2>1. sessions' = sessions /\ \A s \in sessions' :
          user'[s.user].password = user[s.user].password /\ user'[s.user].disabled = user[s.user].disabled
    BY <1>0, <1>9, DeleteGroupRows DEF Ungrants
  <2> QED
    BY <2>1, KeptSessions
<1> QED
  BY <1>1, <1>2, <1>3, <1>4, <1>5, <1>6, <1>7, <1>8, <1>9 DEF Writes

LEMMA OperatorSessions == ASSUME IInv, AccountsGo, Operator PROVE SessionsGo
<1>0. user \in [Users -> Rows] /\ \A s \in sessions : s.user \in Users /\ Exists(s.user)
  BY DEF IInv, Types
<1>1. sessions' = sessions
  BY OperatorGoes
<1>2. \A s \in sessions : user'[s.user] = user[s.user]
  BY <1>0, OperatorCreatesRow, ImportGoes DEF Operator, Rewrites, Keeps
<1> QED
  BY <1>1, <1>2, KeptSessions
-----------------------------------------------------------------------------
(* Temporary passwords and the last administrator.                          *)

LEMMA RewrittenTemporary ==
    ASSUME IInv, NEW u, NEW next, Rewrites(u, next),
           next.password = user[u].password => next.mustChange = user[u].mustChange
    PROVE  TemporaryMustChange'
<1> SUFFICES ASSUME NEW w \in Users, user'[w].password \in temporary' PROVE user'[w].mustChange
  BY DEF TemporaryMustChange
<1>1. /\ u \in Users /\ user' = [user EXCEPT ![u] = next] /\ user \in [Users -> Rows]
      /\ issued \in Nat /\ temporary \subseteq 1..issued
      /\ user[w].password <= issued /\ user[u].password <= issued
  BY DEF Rewrites, IInv, Types
<1>2. user[w].password \in temporary => user[w].mustChange
  BY DEF IInv, TemporaryMustChange
<1>3. CASE Exists(u) /\ next.password = user[u].password /\ UNCHANGED passwords
  BY <1>1, <1>2, <1>3 DEF passwords
<1>4. CASE /\ next.password = issued + 1
           /\ temporary' = temporary \/ (temporary' = temporary \union {issued + 1} /\ next.mustChange)
  <2>1. CASE w = u
    BY <1>1, <1>4, <2>1
  <2>2. CASE w # u
    <3>1. user'[w] = user[w] /\ user[w].password # issued + 1
      BY <1>1, <2>2
    <3> QED
      BY <1>2, <1>4, <3>1
  <2> QED
    BY <2>1, <2>2
<1> QED
  BY <1>3, <1>4 DEF Rewrites

LEMMA KeptTemporary == ASSUME IInv, Keeps PROVE TemporaryMustChange'
  BY DEF IInv, TemporaryMustChange, Keeps, passwords

LEMMA TemporaryStep ==
    ASSUME IInv, NEW r \in Requests,
           Ask(r) \/ LockAdminCardinality(r) \/ ReadAccount(r) \/ Writes(r)
    PROVE  TemporaryMustChange'
<1>n. issued \in Nat /\ \A u \in Users : user[u].password <= issued /\ user[u].password \in Nat
  BY AbsentRow DEF IInv, Types, Rows, Made
<1>1. CASE Ask(r) \/ LockAdminCardinality(r) \/ ReadAccount(r) \/ SaveSettings(r) \/ Login(r)
  BY <1>1, KeepingSteps, KeptTemporary
<1>2. ASSUME NEW u \in Users, NEW next, Rewrites(u, next), next.password = issued + 1
      PROVE  TemporaryMustChange'
  <2>1. next.password # user[u].password
    BY <1>2, <1>n
  <2> QED
    BY <1>2, <2>1, RewrittenTemporary
<1>3. CASE ChangePassword(r) \/ ResetPassword(r)
  <2>1. Keeps \/ \E u \in Users, mustChange \in BOOLEAN :
                   Exists(u) /\ Rewrites(u, WithPassword(user[u], issued + 1, mustChange))
    BY <1>3, ChangePasswordRow, ResetPasswordRow
  <2>2. ASSUME NEW u \in Users, NEW mustChange \in BOOLEAN, Exists(u),
               Rewrites(u, WithPassword(user[u], issued + 1, mustChange))
        PROVE  TemporaryMustChange'
    BY <2>2, <1>2, MadeRow, PasswordParts
  <2> QED
    BY <2>1, <2>2, KeptTemporary
<1>4. CASE UpdateAccess(r)
  <2> DEFINE u == request[r].target
             next == WithAccess(user[u], request[r].access)
  <2>1. next.mustChange = user[u].mustChange
    BY <1>4, UpdateAccessRow, MadeRow, AccessParts
  <2>2. Keeps \/ Rewrites(u, next)
    BY <1>4, UpdateAccessRow
  <2> HIDE DEF next
  <2> QED
    BY <2>1, <2>2, KeptTemporary, RewrittenTemporary
<1>5. CASE Disable(r) \/ Enable(r)
  <2> DEFINE u == request[r].target
  <2>1. Exists(u) /\ (Keeps \/ \E disabled \in BOOLEAN : Rewrites(u, WithDisabled(user[u], disabled)))
    BY <1>5, DisableRow, EnableRow
  <2>2. ASSUME NEW disabled \in BOOLEAN, Rewrites(u, WithDisabled(user[u], disabled))
        PROVE  TemporaryMustChange'
    <3>1. WithDisabled(user[u], disabled).mustChange = user[u].mustChange
      BY <2>1, <2>2, MadeRow, DisabledParts DEF Rewrites
    <3> QED
      BY <2>2, <3>1, RewrittenTemporary
  <2> QED
    BY <2>1, <2>2, KeptTemporary
<1>6. CASE CreateUser(r)
  <2> DEFINE u == request[r].target
             next == Account(request[r].access, TRUE, issued + 1)
  <2>1. next.password = issued + 1 /\ (Keeps \/ Rewrites(u, next))
    BY <1>6, CreateUserRow DEF Account
  <2> HIDE DEF next
  <2> QED
    BY <1>2, <2>1, KeptTemporary DEF Rewrites
<1>7. CASE DeleteGroup(r)
  BY <1>7, DeleteGroupRows DEF Ungrants, IInv, TemporaryMustChange, passwords
<1> QED
  BY <1>1, <1>3, <1>4, <1>5, <1>6, <1>7 DEF Writes

LEMMA OperatorTemporary == ASSUME IInv, Operator PROVE TemporaryMustChange'
<1>n. issued \in Nat /\ \A u \in Users : user[u].password <= issued /\ user[u].password \in Nat
  BY AbsentRow DEF IInv, Types, Rows, Made
<1>1. ASSUME NEW u \in Users, NEW access \in Asked, OperatorCreates(u, access)
      PROVE  TemporaryMustChange'
  <2> DEFINE next == Account(access, FALSE, issued + 1)
  <2>1. Rewrites(u, next) /\ next.password = issued + 1
    BY <1>1, OperatorCreatesRow DEF Account
  <2> HIDE DEF next
  <2>2. next.password # user[u].password
    BY <1>n, <2>1
  <2> QED
    BY <2>1, <2>2, RewrittenTemporary
<1> QED
  BY <1>1, ImportGoes, KeptTemporary DEF Operator

\* Only who holds the lock takes an enabled administrator away, and only while
\* another is left.
AdminsGo(r) ==
    \/ EnabledAdmins' = EnabledAdmins
    \/ lock = r /\ EnabledAdmins \subseteq EnabledAdmins'
    \/ lock = r /\ Removing(r) /\ EnabledAdmins' = EnabledAdmins \ {request[r].target}

LEMMA RewrittenAdmins ==
    ASSUME IInv, NEW u, NEW next, Rewrites(u, next)
    PROVE  /\ next.role = "ADMIN" /\ ~next.disabled => EnabledAdmins' = EnabledAdmins \union {u}
           /\ next.role # "ADMIN" \/ next.disabled => EnabledAdmins' = EnabledAdmins \ {u}
           /\ next.role = user[u].role /\ next.disabled = user[u].disabled => EnabledAdmins' = EnabledAdmins
<1>1. u \in Users /\ user' = [user EXCEPT ![u] = next] /\ user \in [Users -> Rows]
  BY DEF Rewrites, IInv, Types
<1> QED
  BY <1>1 DEF EnabledAdmins

LEMMA AdminsStep ==
    ASSUME IInv, NEW r \in Requests,
           Ask(r) \/ LockAdminCardinality(r) \/ ReadAccount(r) \/ Writes(r)
    PROVE  AdminsGo(r)
<1>k. Keeps => AdminsGo(r)
  BY DEF Keeps, AdminsGo, EnabledAdmins
<1>l. request[r].pc = "write" /\ request[r].op \in Locking => lock = r
  BY DEF IInv, LockHeld, Counting
<1>1. CASE Ask(r) \/ LockAdminCardinality(r) \/ ReadAccount(r) \/ SaveSettings(r) \/ Login(r)
  BY <1>1, <1>k, KeepingSteps
<1>3. CASE ChangePassword(r) \/ ResetPassword(r)
  <2>1. Keeps \/ \E u \in Users, mustChange \in BOOLEAN :
                   Exists(u) /\ Rewrites(u, WithPassword(user[u], issued + 1, mustChange))
    BY <1>3, ChangePasswordRow, ResetPasswordRow
  <2>2. ASSUME NEW u \in Users, NEW mustChange \in BOOLEAN, Exists(u),
               Rewrites(u, WithPassword(user[u], issued + 1, mustChange))
        PROVE  AdminsGo(r)
    <3> DEFINE next == WithPassword(user[u], issued + 1, mustChange)
    <3>1. next.role = user[u].role /\ next.disabled = user[u].disabled
      BY <2>2, MadeRow, PasswordParts
    <3>2. Rewrites(u, next)
      BY <2>2
    <3> HIDE DEF next
    <3> QED
      BY <3>1, <3>2, RewrittenAdmins DEF AdminsGo
  <2> QED
    BY <1>k, <2>1, <2>2
<1>4. CASE UpdateAccess(r)
  <2> DEFINE u == request[r].target
             next == WithAccess(user[u], request[r].access)
  <2>1. /\ Keeps \/ Rewrites(u, next)
        /\ lock = r /\ request[r].pc = "write" /\ request[r].op = "access"
        /\ next.role = request[r].access.role /\ next.disabled = user[u].disabled
        /\ request[r].access.role \in {"ADMIN", "USER"}
    BY <1>4, <1>l, UpdateAccessRow, MadeRow, AccessParts, RestingType DEF UpdateAccess, Locking
  <2> HIDE DEF next
  <2>2. CASE Keeps
    BY <1>k, <2>2
  <2>3. CASE Rewrites(u, next) /\ request[r].access.role = "USER"
    BY <2>1, <2>3, RewrittenAdmins DEF AdminsGo, Removing
  <2>4. CASE Rewrites(u, next) /\ request[r].access.role = "ADMIN" /\ user[u].disabled
    <3>1. u \notin EnabledAdmins
      BY <2>4 DEF EnabledAdmins
    <3> QED
      BY <2>1, <2>4, <3>1, RewrittenAdmins DEF AdminsGo
  <2>5. CASE Rewrites(u, next) /\ request[r].access.role = "ADMIN" /\ ~user[u].disabled
    BY <2>1, <2>5, RewrittenAdmins DEF AdminsGo
  <2> QED
    BY <2>1, <2>2, <2>3, <2>4, <2>5
<1>5. CASE Disable(r)
  <2> DEFINE u == request[r].target
             next == WithDisabled(user[u], TRUE)
  <2>1. Rewrites(u, next) /\ lock = r /\ Removing(r) /\ Exists(u)
    BY <1>5, <1>l, DisableRow DEF Disable, Locking, Removing
  <2>2. next.disabled = TRUE
    BY <2>1, MadeRow, DisabledParts DEF Rewrites
  <2> HIDE DEF next
  <2> QED
    BY <2>1, <2>2, RewrittenAdmins DEF AdminsGo
<1>6. CASE Enable(r)
  <2> DEFINE u == request[r].target
             next == WithDisabled(user[u], FALSE)
  <2>1. (Keeps \/ Rewrites(u, next)) /\ lock = r /\ Exists(u)
    BY <1>6, <1>l, EnableRow DEF Enable, Locking
  <2>2. CASE Rewrites(u, next)
    <3>1. next.role = user[u].role /\ next.disabled = FALSE
      BY <2>1, <2>2, MadeRow, DisabledParts DEF Rewrites
    <3>2. next.role # "ADMIN" => u \notin EnabledAdmins
      BY <3>1 DEF EnabledAdmins
    <3> HIDE DEF next
    <3> QED
      BY <2>1, <2>2, <3>1, <3>2, RewrittenAdmins DEF AdminsGo
  <2> QED
    BY <1>k, <2>1, <2>2
<1>7. CASE CreateUser(r)
  <2> DEFINE u == request[r].target
             next == Account(request[r].access, TRUE, issued + 1)
  <2>1. CASE Keeps
    BY <1>k, <2>1
  <2>2. CASE ~Keeps
    <3>1. Rewrites(u, next) /\ ~Exists(u) /\ next.role = request[r].access.role /\ next.disabled = FALSE
      BY <1>7, <2>2, CreateUserRow DEF Account
    <3>2. u \notin EnabledAdmins
      BY <3>1, AbsentRow DEF Exists, EnabledAdmins
    <3> HIDE DEF next
    <3>3. CASE request[r].op = "createAdmin"
      <4>1. lock = r
        BY <1>7, <1>l, <3>3 DEF CreateUser, Locking
      <4> QED
        BY <3>1, <3>2, <4>1, RewrittenAdmins DEF AdminsGo
    <3>4. CASE request[r].op = "createUser"
      <4>1. request[r].access.role = "USER"
        BY <3>4 DEF IInv, RequestsKnow, Knows
      <4> QED
        BY <3>1, <3>2, <4>1, RewrittenAdmins DEF AdminsGo
    <3> QED
      BY <1>7, <3>3, <3>4 DEF CreateUser
  <2> QED
    BY <2>1, <2>2
<1>8. CASE DeleteGroup(r)
  BY <1>8, DeleteGroupRows DEF Ungrants, EnabledAdmins, AdminsGo
<1> QED
  BY <1>1, <1>3, <1>4, <1>5, <1>6, <1>7, <1>8 DEF Writes

LEMMA SomeAdminStep ==
    ASSUME IInv, AccountsGo, NEW r \in Requests,
           Ask(r) \/ LockAdminCardinality(r) \/ ReadAccount(r) \/ Writes(r)
    PROVE  SomeAdmin' /\ RemovalsAllowed'
<1>1. AdminsGo(r)
  BY AdminsStep
<1>2. SomeAdmin'
  <2>1. ASSUME Removing(r), EnabledAdmins' = EnabledAdmins \ {request[r].target}, EnabledAdmins' = {}
        PROVE  FALSE
    <3>1. EnabledAdmins = {request[r].target}
      BY <2>1 DEF IInv, SomeAdmin
    <3>2. Cardinality(EnabledAdmins) = 1
      BY <3>1, FS_Singleton
    <3>3. LastAdmin(request[r].target)
      BY <3>1, <3>2 DEF LastAdmin
    <3> QED
      BY <2>1, <3>3 DEF IInv, RemovalsAllowed
  <2> QED
    BY <1>1, <2>1 DEF AdminsGo, SomeAdmin, IInv
<1>3. ASSUME NEW o \in Requests, Removing(o)' PROVE ~LastAdmin(request[o].target)'
  <2>1. \E q : Goes(r, q)
    BY RequestsStep
  <2>2. CASE o # r
    <3>1. request'[o] = request[o]
      BY <2>1, <2>2 DEF Goes, IInv, Types
    <3>2. Removing(o) /\ lock = o
      BY <1>3, <3>1 DEF Removing, IInv, LockHeld, Counting, Locking
    <3>3. EnabledAdmins' = EnabledAdmins
      BY <1>1, <2>2, <3>2 DEF AdminsGo
    <3> QED
      BY <3>1, <3>2, <3>3 DEF IInv, RemovalsAllowed, LastAdmin
  <2>3. CASE o = r
    <3>1. ReadAccount(r) /\ ~LastAdmin(request[r].target) /\ request'[r].target = request[r].target
      BY <1>3, <2>3, AskGoes, LockGoes, ReadGoes, WriteGoes DEF Begun
    <3>2. EnabledAdmins' = EnabledAdmins
      BY <3>1, KeepingSteps DEF Keeps, EnabledAdmins
    <3> QED
      BY <2>3, <3>1, <3>2 DEF LastAdmin
  <2> QED
    BY <2>2, <2>3
<1> QED
  BY <1>2, <1>3 DEF RemovalsAllowed

\* The script that creates an account takes no lock, but adds at most one more
\* administrator: who was not the last one is not the last one then.
LEMMA OperatorAdmins ==
    ASSUME IInv, AccountsGo, Operator
    PROVE  SomeAdmin' /\ RemovalsAllowed'
<1>0. request' = request /\ user \in [Users -> Rows]
  BY OperatorGoes DEF IInv, Types
<1>1. CASE Keeps
  BY <1>0, <1>1 DEF Keeps, IInv, SomeAdmin, RemovalsAllowed, Removing, LastAdmin, EnabledAdmins
<1>2. ASSUME NEW u \in Users, NEW access \in Asked, OperatorCreates(u, access)
      PROVE  SomeAdmin' /\ RemovalsAllowed'
  <2> DEFINE next == Account(access, FALSE, issued + 1)
  <2>1. Rewrites(u, next) /\ ~Exists(u) /\ next.disabled = FALSE
    BY <1>2, OperatorCreatesRow DEF Account
  <2> HIDE DEF next
  <2>2. u \notin EnabledAdmins
    BY <2>1, AbsentRow DEF EnabledAdmins, Exists
  <2>3. EnabledAdmins \subseteq EnabledAdmins' /\ EnabledAdmins' \subseteq EnabledAdmins \union {u}
    BY <2>1, <2>2, RewrittenAdmins
  <2>4. SomeAdmin'
    BY <2>3 DEF IInv, SomeAdmin
  <2>5. ASSUME NEW o \in Requests, Removing(o)' PROVE ~LastAdmin(request[o].target)'
    <3> DEFINE t == request[o].target
    <3>1. Removing(o) /\ Exists(t) /\ ~LastAdmin(t)
      BY <1>0, <2>5 DEF Removing, IInv, RequestsKnow, Knows, RemovalsAllowed
    <3>2. t # u
      BY <2>1, <3>1
    <3>3. CASE t \notin EnabledAdmins'
      BY <1>0, <3>3 DEF LastAdmin
    <3>4. CASE t \in EnabledAdmins'
      <4>1. t \in EnabledAdmins
        BY <2>3, <3>2, <3>4
      <4>2. IsFiniteSet(EnabledAdmins')
        BY AdministrationAssumption, FS_Subset DEF EnabledAdmins
      <4>3. IsFiniteSet(EnabledAdmins) /\ Cardinality(EnabledAdmins) <= Cardinality(EnabledAdmins')
            /\ Cardinality(EnabledAdmins) \in Nat /\ Cardinality(EnabledAdmins') \in Nat
        BY <2>3, <4>2, FS_Subset, FS_CardinalityType
      <4>4. Cardinality(EnabledAdmins) > 1
        BY <3>1, <4>1, <4>3 DEF LastAdmin
      <4> QED
        BY <1>0, <4>3, <4>4 DEF LastAdmin
    <3> QED
      BY <3>3, <3>4
  <2> QED
    BY <2>4, <2>5 DEF RemovalsAllowed
<1> QED
  BY <1>1, <1>2, ImportGoes DEF Operator

LEMMA GroupsStep ==
    ASSUME IInv, NEW r \in Requests,
           Ask(r) \/ LockAdminCardinality(r) \/ ReadAccount(r) \/ Writes(r)
    PROVE  groups' \subseteq Groups
<1>1. groups' = groups \/ \E g : groups' = groups \ {g}
  BY DEF Ask, Begin, AskAdministration, AskDeletion, AskWithPassword, Logout, LoadSettings, PatchSettings,
         LockAdminCardinality, ReadAccount, Writes, Login, ChangePassword, ResetPassword, UpdateAccess,
         Disable, Enable, CreateUser, DeleteGroup, SaveSettings
<1> QED
  BY <1>1 DEF IInv, Types

LEMMA Invariance == Spec => []IInv
<1>1. IInv /\ [Next]_vars => IInv'
  <2> SUFFICES ASSUME IInv, [Next]_vars PROVE IInv'
    OBVIOUS
  <2>1. AccountsGo
    BY AccountsStep
  <2>2. CASE UNCHANGED vars
    BY <2>2 DEF vars, IInv, Types, RequestsKnow, Knows, LockHeld, Counting, RemovalsAllowed, Removing, Older,
                SomeAdmin, SessionsAreCurrent, TemporaryMustChange, Exists, EnabledAdmins, LastAdmin
  <2>3. CASE Operator
    <3>1. /\ RequestsKnow' /\ LockHeld' /\ RemovalsAllowed' /\ SomeAdmin' /\ SessionsGo
          /\ TemporaryMustChange'
      BY <2>1, <2>3, OperatorGoes, OperatorAdmins, OperatorSessions, OperatorTemporary
    <3>2. Types'
      BY <2>1, <2>3, <3>1, OperatorGoes DEF AccountsGo, SessionsGo, IInv, Types
    <3> QED
      BY <3>1, <3>2 DEF IInv, SessionsGo
  <2>4. ASSUME NEW r \in Requests, Ask(r) \/ LockAdminCardinality(r) \/ ReadAccount(r) \/ Writes(r)
        PROVE  IInv'
    <3>1. RequestsKnow' /\ LockHeld' /\ RemovalsAllowed' /\ SomeAdmin' /\ SessionsGo /\ TemporaryMustChange'
      BY <2>1, <2>4, RequestsStep, SomeAdminStep, SessionsStep, TemporaryStep
    <3>2. request' \in [Requests -> Locals]
      <4>1. \E q : Goes(r, q)
        BY <2>1, <2>4, RequestsStep
      <4> QED
        BY <4>1 DEF Goes, IInv, Types
    <3>3. groups' \subseteq Groups
      BY <2>4, GroupsStep
    <3>4. Types'
      BY <2>1, <2>4, <3>1, <3>2, <3>3, RequestsStep DEF AccountsGo, SessionsGo, Types
    <3> QED
      BY <3>1, <3>4 DEF IInv, SessionsGo
  <2> QED
    BY <2>2, <2>3, <2>4, StepOfOne
<1> QED
  BY <1>1, InitInv, PTL DEF Spec

\* Accounts, sessions, settings and the lock keep their types.
THEOREM TypeCorrect == Spec => []TypeOK
<1>1. IInv => TypeOK
  BY TypesSuffice DEF IInv
<1> QED
  BY <1>1, Invariance, PTL

\* However many administrators disable and demote each other at once, an
\* enabled one is left: who counts them holds the lock until it has written.
THEOREM AnAdminIsLeft == Spec => []SomeAdmin
<1>1. IInv => SomeAdmin
  BY DEF IInv
<1> QED
  BY <1>1, Invariance, PTL

\* Logins, changes, resets and disablings, in whatever order their statements
\* run, leave no session opened with an older password.
THEOREM SessionsStayCurrent == Spec => []SessionsAreCurrent
<1>1. IInv => SessionsAreCurrent
  BY DEF IInv
<1> QED
  BY <1>1, Invariance, PTL

\* A password an administrator was shown is never the lasting one.
THEOREM TemporaryIsChanged == Spec => []TemporaryMustChange
<1>1. IInv => TemporaryMustChange
  BY DEF IInv
<1> QED
  BY <1>1, Invariance, PTL

\* A form is saved only over the settings it showed and its transaction read,
\* whatever others saved between its load, its read and its write; what the
\* operator imports in between, the revision does not tell of.
THEOREM NoLostUpdate == Spec => NothingUnseenOverwritten
<1> DEFINE Seen == settings' # settings =>
                     settings'.imports > settings.imports \/ \E r \in Requests : SavedAsSeen(r)
<1>1. ASSUME IInv, NEW r \in Requests, Saves(r) PROVE SavedAsSeen(r)
  <2> DEFINE form == request[r].loaded
             read == request[r].current
             patch == request[r].patch
  <2>1. /\ request[r].pc = "save" /\ form.revision = settings.revision
        /\ settings'.fields = Merged(read.fields, patch)
        /\ Older(form, read) /\ Older(read, settings) /\ Older(form, settings)
        /\ patch.field \in Fields
    BY <1>1 DEF Saves, IInv, RequestsKnow, Knows
  <2>2. request'[r].pc = "done"
    BY <1>1, ServedGoes DEF Saves, SaveSettings
  <2>3. /\ read.revision \in Nat /\ form.revision \in Nat /\ settings.revision \in Nat
        /\ read.imports \in Nat /\ settings.imports \in Nat /\ form.imports \in Nat
        /\ read.fields \in Contents
    <3>1. form \in SettingsRows /\ read \in SettingsRows /\ settings \in SettingsRows
      BY <1>1, <2>1 DEF Older, IInv, Types
    <3> HIDE DEF form, read
    <3> QED
      BY <3>1 DEF SettingsRows
  <2>4. read.revision = settings.revision
    BY <2>1, <2>3 DEF Older
  <2>5. \A field \in Fields \ {Geofence} : form.fields[field] = settings.fields[field]
                                         /\ read.fields[field] = settings.fields[field]
    BY <2>1, <2>4 DEF Older
  <2>6. form.imports = settings.imports => form = settings
    BY <2>1 DEF Older
  <2>7. read.imports < settings.imports \/ read = settings
    BY <2>1, <2>3, <2>4 DEF Older
  <2>8. \A field \in Fields \ {patch.field} : settings'.fields[field] = read.fields[field]
    BY <2>1, <2>3 DEF Merged, Contents
  <2> QED
    BY <2>1, <2>2, <2>5, <2>6, <2>7, <2>8 DEF SavedAsSeen
<1>2. ASSUME IInv, Operator, settings' # settings PROVE settings'.imports > settings.imports
  <2>1. PICK value \in Values : ImportGeofence(value)
    BY <1>2 DEF Operator, OperatorCreates
  <2>2. settings \in SettingsRows
    BY <1>2 DEF IInv, Types
  <2>3. settings'.imports = settings.imports + 1 /\ settings.imports \in Nat
    BY <2>1, <2>2 DEF ImportGeofence, SettingsRows
  <2> QED
    BY <2>3
<1>3. IInv /\ [Next]_vars => [Seen]_vars
  <2> SUFFICES ASSUME IInv, Next, settings' # settings
               PROVE  settings'.imports > settings.imports \/ \E r \in Requests : SavedAsSeen(r)
    OBVIOUS
  <2>1. CASE Operator
    BY <1>2, <2>1
  <2>2. ASSUME NEW r \in Requests, Ask(r) \/ LockAdminCardinality(r) \/ ReadAccount(r) \/ Writes(r)
        PROVE  SavedAsSeen(r)
    BY <1>1, <2>2, AccountsStep, RequestsStep
  <2> QED
    BY <2>1, <2>2, StepOfOne
<1> QED
  BY <1>3, Invariance, PTL DEF Spec, NothingUnseenOverwritten
-----------------------------------------------------------------------------
(* The audit trail.                                                         *)

FunctionalKinds == {"USER_CREATED", "USER_ACCESS_CHANGED"}
VehicleKinds == {"USER_VEHICLE_ACCESS_CHANGED"}
SwitchKinds == {"USER_DISABLED", "USER_ENABLED"}
AccountKinds == FunctionalKinds \union VehicleKinds \union SwitchKinds
Kinds == AccountKinds \union {"OWN_PASSWORD_CHANGED", "USER_PASSWORD_RESET", "SETTINGS_UPDATED",
                              "VEHICLE_GROUP_DELETED"}

\* What a row may name.
VehicleRows == [mode : {"NONE", "ALL", "SELECTED"}, count : Nat]
FunctionalRows == [role : {"NONE", "ADMIN", "USER"}, permissions : Permissions]
Named == {Nothing} \union VehicleRows \union FunctionalRows
           \union {Shown(field, value) : field \in Fields, value \in Values}
Events == {e \in [kind : Kinds, about : Users \union Groups \union Fields,
                  previous : Named, next : Named] :
             e.kind \in VehicleKinds => e.next \in VehicleRows}

\* What the trail tells of an account and of a field, with the trail apart.
FunctionalFrom(u, rows, last) == \E first \in FirstFunctional(u) : Leads(rows, {}, first, last)
VehicleFrom(u, rows, cuts, last) == \E first \in FirstVehicle(u) : Leads(rows, cuts, first, last)
FieldFrom(field, rows, last) ==
    \E first \in Values : Leads(rows, {}, Shown(field, first), Shown(field, last))

AccountTells(u) ==
    /\ FunctionalFrom(u, Changes(FunctionalKinds, u), Functional(user[u]))
    /\ VehicleFrom(u, Changes(VehicleKinds, u), Deletions, Vehicle(user[u]))
    /\ Leads(Switches(u), {}, "USER_ENABLED", Switched(u))

FieldTells(field) ==
    \/ FieldFrom(field, Changes({"SETTINGS_UPDATED"}, field), settings.fields[field])
    \/ field = Geofence /\ settings.imports > 0

\* What a request read of its account under the lock is still so, but for the
\* grants: a group that is deleted meanwhile takes them away, and the trail leads
\* to what was read as well.
Remembers(r) ==
    LET q == request[r] IN
    q.pc = "write" /\ q.op \in {"access", "disable", "enable"} =>
         /\ q.seen.role = user[q.target].role /\ q.seen.permissions = user[q.target].permissions
         /\ q.seen.disabled = user[q.target].disabled
         /\ VehicleFrom(q.target, Changes(VehicleKinds, q.target), Deletions, Vehicle(q.seen))

\* Of an account that does not exist there is no row, and it is not one of the
\* first administrators.
Unheard(u) == u \notin Admins /\ Places(AccountKinds, u) = {}

AInv ==
    /\ audit \in Seq(Events)
    /\ \A u \in Users : IF Exists(u) THEN AccountTells(u) ELSE Unheard(u)
    /\ \A field \in Fields : FieldTells(field)
    /\ \A r \in Requests : Remembers(r)

LEMMA AuditSuffices == AInv => AuditTells
  BY DEF AInv, AuditTells, AccountTells, FieldTells, FunctionalFrom, VehicleFrom, FieldFrom,
         FunctionalLeadsTo, VehicleLeadsTo, FieldLeadsTo, FunctionalKinds, VehicleKinds

\* A trail that leads to x leads to y with one more row from x to y.
LEMMA LeadsOn ==
    ASSUME NEW rows, NEW cuts, NEW first, NEW x, NEW y, NEW n \in Nat, Leads(rows, cuts, first, x),
           \A e \in rows : e.at \in Nat /\ e.at < n,
           \A d \in cuts : d \in Nat /\ d < n
    PROVE  Leads(rows \union {[at |-> n, previous |-> x, next |-> y]}, cuts, first, y)
<1> DEFINE new == [at |-> n, previous |-> x, next |-> y]
           all == rows \union {new}
<1>1. new.at = n /\ new.previous = x /\ new.next = y
  OBVIOUS
<1> HIDE DEF new
<1>2. \A e \in all : e \in rows \/ e = new
  OBVIOUS
<1>3. ASSUME NEW e \in all, \A f \in all : e.at <= f.at
      PROVE  Follows(first, e.previous, {d \in cuts : d < e.at})
  <2>1. CASE e \in rows
    BY <1>3, <2>1 DEF Leads
  <2>2. CASE e = new
    <3>1. rows = {}
      BY <1>1, <1>3, <2>2
    <3>2. {d \in cuts : d < n} = cuts
      OBVIOUS
    <3> QED
      BY <1>1, <2>2, <3>1, <3>2 DEF Leads
  <2> QED
    BY <1>2, <2>1, <2>2
<1>4. ASSUME NEW e \in all, NEW f \in all, e.at < f.at,
             \A g \in all : g.at <= e.at \/ f.at <= g.at
      PROVE  Follows(e.next, f.previous, {d \in cuts : e.at < d /\ d < f.at})
  <2>1. e \in rows
    BY <1>1, <1>2, <1>4
  <2>2. CASE f \in rows
    BY <1>4, <2>1, <2>2 DEF Leads
  <2>3. CASE f = new
    <3>1. \A g \in rows : g.at <= e.at
      BY <1>1, <1>4, <2>3
    <3>2. Follows(e.next, x, {d \in cuts : e.at < d})
      BY <2>1, <3>1 DEF Leads
    <3>3. {d \in cuts : e.at < d /\ d < n} = {d \in cuts : e.at < d}
      OBVIOUS
    <3> QED
      BY <1>1, <2>3, <3>2, <3>3
  <2> QED
    BY <1>2, <2>2, <2>3
<1>5. ASSUME NEW e \in all, \A f \in all : f.at <= e.at
      PROVE  Follows(e.next, y, {d \in cuts : e.at < d})
  <2>1. e = new
    BY <1>1, <1>2, <1>5
  <2> QED
    BY <1>1, <2>1 DEF Follows
<1>6. all # {}
  OBVIOUS
<1> HIDE DEF all
<1>7. Leads(all, cuts, first, y)
  BY <1>3, <1>4, <1>5, <1>6 DEF Leads
<1> QED
  BY <1>7 DEF all, new

\* Whatever follows what follows, with one more deletion.
LEMMA FollowsOn ==
    ASSUME NEW a, NEW x, NEW y, NEW cuts, NEW n, Follows(a, x, cuts), Follows(x, y, {n}),
           a.count \in Nat, x.count \in Nat, y.count \in Nat
    PROVE  Follows(a, y, cuts \union {n})
  BY DEF Follows

\* A trail of vehicle access leads on when a deletion takes grants away.
LEMMA LeadsLonger ==
    ASSUME NEW rows, NEW cuts, NEW first, NEW x, NEW y, NEW n \in Nat, Leads(rows, cuts, first, x),
           \A e \in rows : e.at \in Nat /\ e.at < n /\ e.next.count \in Nat,
           \A d \in cuts : d \in Nat /\ d < n,
           first.count \in Nat, x.count \in Nat, y.count \in Nat, Follows(x, y, {n})
    PROVE  Leads(rows, cuts \union {n}, first, y)
<1> DEFINE more == cuts \union {n}
<1>1. rows = {} => Follows(first, y, more)
  BY FollowsOn DEF Leads
<1>2. ASSUME NEW e \in rows, \A f \in rows : e.at <= f.at
      PROVE  Follows(first, e.previous, {d \in more : d < e.at})
  <2>1. {d \in more : d < e.at} = {d \in cuts : d < e.at}
    OBVIOUS
  <2> QED
    BY <1>2, <2>1 DEF Leads
<1>3. ASSUME NEW e \in rows, NEW f \in rows, e.at < f.at,
             \A g \in rows : g.at <= e.at \/ f.at <= g.at
      PROVE  Follows(e.next, f.previous, {d \in more : e.at < d /\ d < f.at})
  <2>1. {d \in more : e.at < d /\ d < f.at} = {d \in cuts : e.at < d /\ d < f.at}
    OBVIOUS
  <2> QED
    BY <1>3, <2>1 DEF Leads
<1>4. ASSUME NEW e \in rows, \A f \in rows : f.at <= e.at
      PROVE  Follows(e.next, y, {d \in more : e.at < d})
  <2> DEFINE late == {d \in cuts : e.at < d}
  <2>1. {d \in more : e.at < d} = late \union {n}
    OBVIOUS
  <2>2. Follows(e.next, x, late)
    BY <1>4 DEF Leads
  <2>3. e.next.count \in Nat
    OBVIOUS
  <2> HIDE DEF late
  <2>4. Follows(e.next, y, late \union {n})
    BY <2>2, <2>3, FollowsOn
  <2> QED
    BY <2>1, <2>4
<1> HIDE DEF more
<1>5. Leads(rows, more, first, y)
  BY <1>1, <1>2, <1>3, <1>4 DEF Leads
<1> QED
  BY <1>5 DEF more

\* Where the rows go that a step appends.
Matching(new, kinds, u) == {j \in DOMAIN new : new[j].kind \in kinds /\ new[j].about = u}
Writing(new) == new \in Seq(Events) /\ audit' = audit \o new

\* The step records no deletion of a group.
NoDeletion(new) == \A j \in DOMAIN new : new[j].kind # "VEHICLE_GROUP_DELETED"

LEMMA WritingOne ==
    ASSUME audit \in Seq(Events), NEW e \in Events, audit' = Append(audit, e)
    PROVE  Writing(<<e>>) /\ DOMAIN <<e>> = {1} /\ <<e>>[1] = e
<1>1. <<e>> \in Seq(Events) /\ Append(audit, e) = audit \o <<e>>
  BY AppendIsConcat
<1>2. DOMAIN <<e>> = 1..1 /\ <<e>>[1] = e
  OBVIOUS
<1> QED
  BY <1>1, <1>2 DEF Writing

LEMMA WritingNothing ==
    ASSUME audit \in Seq(Events), audit' = audit
    PROVE  Writing(<<>>) /\ DOMAIN <<>> = {}
<1>1. <<>> \in Seq(Events) /\ audit \o <<>> = audit
  BY ConcatEmptySeq
<1>2. DOMAIN <<>> = {}
  OBVIOUS
<1> QED
  BY <1>1, <1>2 DEF Writing

LEMMA WritingPlaces ==
    ASSUME audit \in Seq(Events), NEW new, Writing(new)
    PROVE  /\ audit' \in Seq(Events) /\ Len(audit) \in Nat /\ DOMAIN audit = 1..Len(audit)
           /\ DOMAIN new \subseteq Nat \ {0}
           /\ DOMAIN audit' = DOMAIN audit \union {Len(audit) + j : j \in DOMAIN new}
           /\ \A i \in DOMAIN audit : audit'[i] = audit[i]
           /\ \A j \in DOMAIN new : audit'[Len(audit) + j] = new[j] /\ new[j] \in Events
<1>1. /\ new \in Seq(Events) /\ audit' = audit \o new
      /\ Len(audit) \in Nat /\ Len(new) \in Nat
      /\ DOMAIN audit = 1..Len(audit) /\ DOMAIN new = 1..Len(new)
      /\ \A j \in DOMAIN new : new[j] \in Events
  BY DEF Writing
<1>2. /\ audit' \in Seq(Events) /\ Len(audit') = Len(audit) + Len(new)
      /\ \A i \in 1..(Len(audit) + Len(new)) :
           audit'[i] = IF i <= Len(audit) THEN audit[i] ELSE new[i - Len(audit)]
  BY <1>1, ConcatProperties
<1>3. DOMAIN audit' = 1..(Len(audit) + Len(new))
  BY <1>2
<1>4. ASSUME NEW i \in Nat, i > Len(audit), i <= Len(audit) + Len(new)
      PROVE  \E j \in 1..Len(new) : i = Len(audit) + j
  <2>1. i - Len(audit) \in 1..Len(new) /\ i = Len(audit) + (i - Len(audit))
    BY <1>1, <1>4
  <2> QED
    BY <2>1
<1>6. \A j \in 1..Len(new) : Len(audit) + j \in 1..(Len(audit) + Len(new)) /\ ~(Len(audit) + j <= Len(audit))
                             /\ (Len(audit) + j) - Len(audit) = j
  BY <1>1
<1>5. 1..(Len(audit) + Len(new)) = (1..Len(audit)) \union {Len(audit) + j : j \in 1..Len(new)}
  <2>1. ASSUME NEW i \in 1..(Len(audit) + Len(new))
        PROVE  i \in (1..Len(audit)) \union {Len(audit) + j : j \in 1..Len(new)}
    <3>1. CASE i <= Len(audit)
      BY <1>1, <2>1, <3>1
    <3>2. CASE i > Len(audit)
      BY <1>1, <1>4, <2>1, <3>2
    <3> QED
      BY <1>1, <2>1, <3>1, <3>2
  <2>2. 1..Len(audit) \subseteq 1..(Len(audit) + Len(new))
    BY <1>1
  <2> QED
    BY <1>6, <2>1, <2>2
<1>7. \A j \in DOMAIN new : audit'[Len(audit) + j] = new[j]
  BY <1>1, <1>2, <1>6
<1>8. \A i \in DOMAIN audit : audit'[i] = audit[i]
  BY <1>1, <1>2
<1>9. DOMAIN audit' = DOMAIN audit \union {Len(audit) + j : j \in DOMAIN new}
  BY <1>1, <1>3, <1>5
<1>10. DOMAIN new \subseteq Nat \ {0}
  BY <1>1
<1> QED
  BY <1>1, <1>2, <1>7, <1>8, <1>9, <1>10

LEMMA PlacesGo ==
    ASSUME audit \in Seq(Events), NEW new, Writing(new), NEW kinds, NEW u
    PROVE  /\ \A i \in Places(kinds, u) : i \in Nat /\ i <= Len(audit) /\ audit'[i] = audit[i]
           /\ Places(kinds, u)' = Places(kinds, u) \union {Len(audit) + j : j \in Matching(new, kinds, u)}
           /\ \A j \in Matching(new, kinds, u) : audit'[Len(audit) + j] = new[j]
<1> DEFINE far == {Len(audit) + j : j \in Matching(new, kinds, u)}
           good(e) == e.kind \in kinds /\ e.about = u
<1>1. /\ Len(audit) \in Nat /\ DOMAIN audit = 1..Len(audit)
      /\ DOMAIN audit' = DOMAIN audit \union {Len(audit) + j : j \in DOMAIN new}
      /\ \A i \in DOMAIN audit : audit'[i] = audit[i]
      /\ \A j \in DOMAIN new : audit'[Len(audit) + j] = new[j]
  BY WritingPlaces
<1>2. \A i \in Places(kinds, u) : i \in Nat /\ i <= Len(audit) /\ audit'[i] = audit[i]
  BY <1>1 DEF Places
<1>3. \A j \in Matching(new, kinds, u) : audit'[Len(audit) + j] = new[j]
  BY <1>1 DEF Matching
<1>4. Places(kinds, u) = {i \in DOMAIN audit : good(audit[i])}
      /\ Places(kinds, u)' = {i \in DOMAIN audit' : good(audit'[i])}
      /\ Matching(new, kinds, u) = {j \in DOMAIN new : good(new[j])}
  BY DEF Places, Matching
<1> HIDE DEF good
<1>5. {i \in DOMAIN audit' : good(audit'[i])} = {i \in DOMAIN audit : good(audit[i])} \union far
  BY <1>1, <1>4
<1> QED
  BY <1>2, <1>3, <1>4, <1>5

LEMMA DeletionsGo ==
    ASSUME audit \in Seq(Events), NEW new, Writing(new)
    PROVE  /\ \A d \in Deletions : d \in Nat /\ d <= Len(audit)
           /\ NoDeletion(new) => Deletions' = Deletions
<1>1. \A d \in Deletions : d \in Nat /\ d <= Len(audit)
  BY WritingPlaces DEF Deletions
<1>2. ASSUME NoDeletion(new) PROVE Deletions' = Deletions
  <2>1. /\ DOMAIN audit' = DOMAIN audit \union {Len(audit) + j : j \in DOMAIN new}
        /\ \A i \in DOMAIN audit : audit'[i] = audit[i]
        /\ \A j \in DOMAIN new : audit'[Len(audit) + j] = new[j]
    BY WritingPlaces
  <2>2. ASSUME NEW i \in DOMAIN audit', audit'[i].kind = "VEHICLE_GROUP_DELETED" PROVE i \in DOMAIN audit
    BY <1>2, <2>1, <2>2 DEF NoDeletion
  <2>3. Deletions' = {i \in DOMAIN audit' : audit'[i].kind = "VEHICLE_GROUP_DELETED"}
    BY DEF Deletions
  <2> QED
    BY <2>1, <2>2, <2>3 DEF Deletions
<1> QED
  BY <1>1, <1>2

\* Where no row is about u, the rows about u are as they were.
LEMMA KeptRows ==
    ASSUME audit \in Seq(Events), NEW new, Writing(new), NEW kinds, NEW u, Matching(new, kinds, u) = {}
    PROVE  /\ Places(kinds, u)' = Places(kinds, u) /\ Changes(kinds, u)' = Changes(kinds, u)
           /\ kinds = {"USER_DISABLED", "USER_ENABLED"} => Switches(u)' = Switches(u)
<1>1. Places(kinds, u)' = Places(kinds, u) \union {Len(audit) + i : i \in Matching(new, kinds, u)}
      /\ \A i \in Places(kinds, u) : audit'[i] = audit[i]
  BY PlacesGo
<1>2. {Len(audit) + i : i \in Matching(new, kinds, u)} = {}
  OBVIOUS
<1>3. Places(kinds, u)' = Places(kinds, u)
  BY <1>1, <1>2
<1> QED
  BY <1>1, <1>3 DEF Changes, Switches, Opposite

\* A trail as the rows that match leave it: none, or one that goes on from x.
LEMMA ChangesGo ==
    ASSUME audit \in Seq(Events), NEW new, Writing(new), NEW kinds, NEW u, NEW cuts,
           NEW first, NEW x, NEW y, Leads(Changes(kinds, u), cuts, first, x),
           \A d \in cuts : d \in Nat /\ d <= Len(audit),
           \/ Matching(new, kinds, u) = {} /\ y = x
           \/ \E j \in DOMAIN new : /\ Matching(new, kinds, u) = {j}
                                    /\ new[j].previous = x /\ new[j].next = y
    PROVE  Leads(Changes(kinds, u)', cuts, first, y)
<1>1. CASE Matching(new, kinds, u) = {} /\ y = x
  <2>2. Changes(kinds, u)' = Changes(kinds, u)
    BY <1>1, KeptRows
  <2> QED
    BY <1>1, <2>2
<1>2. ASSUME NEW j \in DOMAIN new, Matching(new, kinds, u) = {j},
             new[j].previous = x, new[j].next = y
      PROVE  Leads(Changes(kinds, u)', cuts, first, y)
  <2> DEFINE n == Len(audit) + j
  <2>1. /\ Places(kinds, u)' = Places(kinds, u) \union {n} /\ audit'[n] = new[j]
        /\ \A i \in Places(kinds, u) : i \in Nat /\ i <= Len(audit) /\ audit'[i] = audit[i]
    BY <1>2, PlacesGo
  <2>2. j \in Nat \ {0} /\ Len(audit) \in Nat
    BY <1>2, WritingPlaces
  <2>3. n \in Nat /\ Len(audit) < n
    BY <2>2
  <2> HIDE DEF n
  <2>4. Changes(kinds, u)' = Changes(kinds, u) \union {[at |-> n, previous |-> x, next |-> y]}
    BY <1>2, <2>1 DEF Changes
  <2>5. \A f \in Changes(kinds, u) : f.at \in Nat /\ f.at < n
    BY <2>1, <2>2, <2>3 DEF Changes
  <2>6. \A d \in cuts : d \in Nat /\ d < n
    BY <2>2, <2>3
  <2>7. Leads(Changes(kinds, u) \union {[at |-> n, previous |-> x, next |-> y]}, cuts, first, y)
    BY <2>3, <2>5, <2>6, LeadsOn
  <2> QED
    BY <2>4, <2>7, Zenon
<1> QED
  BY <1>1, <1>2

LEMMA SwitchesGo ==
    ASSUME audit \in Seq(Events), NEW new, Writing(new), NEW u, NEW x, NEW y,
           Leads(Switches(u), {}, "USER_ENABLED", x),
           \/ Matching(new, SwitchKinds, u) = {} /\ y = x
           \/ \E j \in DOMAIN new : /\ Matching(new, SwitchKinds, u) = {j}
                                    /\ Opposite(new[j].kind) = x /\ new[j].kind = y
    PROVE  Leads(Switches(u)', {}, "USER_ENABLED", y)
<1>1. CASE Matching(new, SwitchKinds, u) = {} /\ y = x
  <2>2. Switches(u)' = Switches(u)
    BY <1>1, KeptRows DEF SwitchKinds
  <2> QED
    BY <1>1, <2>2
<1>2. ASSUME NEW j \in DOMAIN new, Matching(new, SwitchKinds, u) = {j},
             Opposite(new[j].kind) = x, new[j].kind = y
      PROVE  Leads(Switches(u)', {}, "USER_ENABLED", y)
  <2> DEFINE n == Len(audit) + j
  <2>1. /\ Places(SwitchKinds, u)' = Places(SwitchKinds, u) \union {n} /\ audit'[n] = new[j]
        /\ \A i \in Places(SwitchKinds, u) : i \in Nat /\ i <= Len(audit) /\ audit'[i] = audit[i]
    BY <1>2, PlacesGo
  <2>2. j \in Nat \ {0} /\ Len(audit) \in Nat
    BY <1>2, WritingPlaces
  <2>3. n \in Nat /\ Len(audit) < n
    BY <2>2
  <2> HIDE DEF n
  <2>4. Switches(u)' = Switches(u) \union {[at |-> n, previous |-> x, next |-> y]}
    BY <1>2, <2>1 DEF Switches, SwitchKinds, Opposite
  <2>5. \A f \in Switches(u) : f.at \in Nat /\ f.at < n
    BY <2>1, <2>2, <2>3 DEF Switches, SwitchKinds
  <2>7. Leads(Switches(u) \union {[at |-> n, previous |-> x, next |-> y]}, {}, "USER_ENABLED", y)
    BY <2>3, <2>5, LeadsOn
  <2> QED
    BY <2>4, <2>7, Zenon
<1> QED
  BY <1>1, <1>2

\* What is appended about u goes on from x to y: at most one row, and none when
\* nothing changed.
Onward(new, kinds, u, x, y) ==
    \/ Matching(new, kinds, u) = {} /\ y = x
    \/ \E j \in DOMAIN new : /\ Matching(new, kinds, u) = {j}
                             /\ new[j].previous = x /\ new[j].next = y
SwitchOnward(new, u, x, y) ==
    \/ Matching(new, SwitchKinds, u) = {} /\ y = x
    \/ \E j \in DOMAIN new : /\ Matching(new, SwitchKinds, u) = {j}
                             /\ Opposite(new[j].kind) = x /\ new[j].kind = y

\* The account goes from these values to its present ones.
Continues(new, u, functional, vehicle, switched) ==
    /\ Onward(new, FunctionalKinds, u, functional, Functional(user'[u]))
    /\ Onward(new, VehicleKinds, u, vehicle, Vehicle(user'[u]))
    /\ SwitchOnward(new, u, switched, Switched(u)')

\* The account is created where the trail may begin.
Starts(new, u) ==
    \E functional \in FirstFunctional(u), vehicle \in FirstVehicle(u) :
        Continues(new, u, functional, vehicle, "USER_ENABLED")

\* Unless r holds the lock, an account that exists keeps what others remember.
Undisturbed(new, u) ==
    /\ user'[u].role = user[u].role /\ user'[u].permissions = user[u].permissions
    /\ user'[u].disabled = user[u].disabled
    /\ Matching(new, VehicleKinds, u) = {}

\* What a step of r appends is what it changes, of one account and of all.
Recorded(r, new, u) ==
    IF Exists(u)
    THEN /\ Exists(u)' /\ (lock # r => Undisturbed(new, u))
         /\ \E vehicle : /\ VehicleFrom(u, Changes(VehicleKinds, u), Deletions, vehicle)
                         /\ Continues(new, u, Functional(user[u]), vehicle, Switched(u))
    ELSE IF Exists(u)' THEN Starts(new, u) ELSE Matching(new, AccountKinds, u) = {}
Records(r, new) ==
    /\ Writing(new) /\ NoDeletion(new)
    /\ \A u \in Users : Recorded(r, new, u)
    /\ \A field \in Fields : FieldTells(field)'

LEMMA FunctionalGo ==
    ASSUME audit \in Seq(Events), NEW new, Writing(new), NEW u, NEW x, NEW y,
           FunctionalFrom(u, Changes(FunctionalKinds, u), x), Onward(new, FunctionalKinds, u, x, y)
    PROVE  \E first \in FirstFunctional(u) : Leads(Changes(FunctionalKinds, u)', {}, first, y)
<1>1. PICK first \in FirstFunctional(u) : Leads(Changes(FunctionalKinds, u), {}, first, x)
  BY DEF FunctionalFrom
<1>2. Leads(Changes(FunctionalKinds, u)', {}, first, y)
  BY <1>1, ChangesGo DEF Onward
<1> QED
  BY <1>2

LEMMA VehicleGo ==
    ASSUME audit \in Seq(Events), NEW new, Writing(new), NoDeletion(new), NEW u, NEW x, NEW y,
           VehicleFrom(u, Changes(VehicleKinds, u), Deletions, x), Onward(new, VehicleKinds, u, x, y)
    PROVE  \E first \in FirstVehicle(u) : Leads(Changes(VehicleKinds, u)', Deletions', first, y)
<1>1. PICK first \in FirstVehicle(u) : Leads(Changes(VehicleKinds, u), Deletions, first, x)
  BY DEF VehicleFrom
<1>2. Deletions' = Deletions /\ \A d \in Deletions : d \in Nat /\ d <= Len(audit)
  BY DeletionsGo
<1>3. Leads(Changes(VehicleKinds, u)', Deletions, first, y)
  BY <1>1, <1>2, ChangesGo DEF Onward
<1> QED
  BY <1>2, <1>3

\* Where there is no row yet, the trail leads from anything to itself.
LEMMA NothingYet ==
    ASSUME NEW u, Unheard(u)
    PROVE  /\ \A x, cuts : Leads(Changes(FunctionalKinds, u), cuts, x, x)
           /\ \A x, cuts : Leads(Changes(VehicleKinds, u), cuts, x, x)
           /\ Leads(Switches(u), {}, "USER_ENABLED", "USER_ENABLED")
<1>1. /\ Places(FunctionalKinds, u) = {} /\ Places(VehicleKinds, u) = {}
      /\ Places(SwitchKinds, u) = {}
  BY DEF Unheard, Places, AccountKinds
<1>2. Changes(FunctionalKinds, u) = {} /\ Changes(VehicleKinds, u) = {} /\ Switches(u) = {}
  BY <1>1 DEF Changes, Switches, SwitchKinds
<1> QED
  BY <1>2 DEF Leads, Follows

\* The trail tells on, of all but what r itself remembers.
TellsOn(r) ==
    /\ audit' \in Seq(Events)
    /\ \A u \in Users : IF Exists(u)' THEN AccountTells(u)' ELSE Unheard(u)'
    /\ \A field \in Fields : FieldTells(field)'
    /\ \A o \in Requests : o # r /\ request'[o] = request[o] => Remembers(o)'

LEMMA RecordsTell ==
    ASSUME IInv, AInv, NEW r, NEW new, Records(r, new)
    PROVE  TellsOn(r)
<1>1. audit \in Seq(Events) /\ Writing(new) /\ NoDeletion(new)
  BY DEF AInv, Records
<1>2. audit' \in Seq(Events)
  BY <1>1, WritingPlaces
<1>3. ASSUME NEW u \in Users, NEW functional, NEW vehicle, NEW switched,
             FunctionalFrom(u, Changes(FunctionalKinds, u), functional),
             VehicleFrom(u, Changes(VehicleKinds, u), Deletions, vehicle),
             Leads(Switches(u), {}, "USER_ENABLED", switched),
             Continues(new, u, functional, vehicle, switched)
      PROVE  AccountTells(u)'
  <2>1. \E first \in FirstFunctional(u) :
            Leads(Changes(FunctionalKinds, u)', {}, first, Functional(user'[u]))
    BY <1>1, <1>3, FunctionalGo DEF Continues
  <2>2. \E first \in FirstVehicle(u) :
            Leads(Changes(VehicleKinds, u)', Deletions', first, Vehicle(user'[u]))
    BY <1>1, <1>3, VehicleGo DEF Continues
  <2>3. Leads(Switches(u)', {}, "USER_ENABLED", Switched(u)')
    BY <1>1, <1>3, SwitchesGo DEF Continues, SwitchOnward
  <2> QED
    BY <2>1, <2>2, <2>3 DEF AccountTells, FunctionalFrom, VehicleFrom, Functional, Vehicle
<1>4. ASSUME NEW u \in Users PROVE IF Exists(u)' THEN AccountTells(u)' ELSE Unheard(u)'
  <2>1. CASE Exists(u)
    <3>1. PICK vehicle : /\ VehicleFrom(u, Changes(VehicleKinds, u), Deletions, vehicle)
                         /\ Continues(new, u, Functional(user[u]), vehicle, Switched(u))
      BY <1>4, <2>1 DEF Records, Recorded
    <3>2. /\ FunctionalFrom(u, Changes(FunctionalKinds, u), Functional(user[u]))
          /\ Leads(Switches(u), {}, "USER_ENABLED", Switched(u))
      BY <1>4, <2>1 DEF AInv, AccountTells
    <3>3. Exists(u)'
      BY <1>4, <2>1 DEF Records, Recorded
    <3> QED
      BY <1>3, <1>4, <3>1, <3>2, <3>3
  <2>2. CASE ~Exists(u) /\ Exists(u)'
    <3>1. Unheard(u)
      BY <1>4, <2>2 DEF AInv
    <3>2. PICK functional \in FirstFunctional(u), vehicle \in FirstVehicle(u) :
              Continues(new, u, functional, vehicle, "USER_ENABLED")
      BY <1>4, <2>2 DEF Records, Recorded, Starts
    <3>3. /\ FunctionalFrom(u, Changes(FunctionalKinds, u), functional)
          /\ VehicleFrom(u, Changes(VehicleKinds, u), Deletions, vehicle)
          /\ Leads(Switches(u), {}, "USER_ENABLED", "USER_ENABLED")
      BY <3>1, <3>2, NothingYet DEF FunctionalFrom, VehicleFrom
    <3> QED
      BY <1>3, <1>4, <2>2, <3>2, <3>3
  <2>3. CASE ~Exists(u) /\ ~Exists(u)'
    <3>1. Unheard(u) /\ Matching(new, AccountKinds, u) = {}
      BY <1>4, <2>3 DEF AInv, Records, Recorded
    <3>2. Places(AccountKinds, u)' = Places(AccountKinds, u)
                                     \union {Len(audit) + j : j \in Matching(new, AccountKinds, u)}
      BY <1>1, PlacesGo
    <3>3. {Len(audit) + j : j \in Matching(new, AccountKinds, u)} = {}
      BY <3>1
    <3> QED
      BY <2>3, <3>1, <3>2, <3>3 DEF Unheard
  <2> QED
    BY <2>1, <2>2, <2>3
<1>5. ASSUME NEW o \in Requests, o # r, request'[o] = request[o] PROVE Remembers(o)'
  <2> SUFFICES ASSUME request[o].pc = "write", request[o].op \in {"access", "disable", "enable"}
               PROVE  Remembers(o)'
    BY <1>5 DEF Remembers
  <2>1. PICK u \in Users : u = request[o].target
    BY DEF IInv, RequestsKnow, Knows
  <2>2. lock = o /\ Exists(u)
    BY <2>1 DEF IInv, LockHeld, Counting, Locking, RequestsKnow, Knows
  <2>3. Undisturbed(new, u)
    BY <1>5, <2>1, <2>2 DEF Records, Recorded
  <2>4. /\ request[o].seen.role = user[u].role /\ request[o].seen.permissions = user[u].permissions
        /\ request[o].seen.disabled = user[u].disabled
        /\ VehicleFrom(u, Changes(VehicleKinds, u), Deletions, Vehicle(request[o].seen))
    BY <2>1 DEF AInv, Remembers
  <2>5. Onward(new, VehicleKinds, u, Vehicle(request[o].seen), Vehicle(request[o].seen))
    BY <2>3 DEF Onward, Undisturbed
  <2>6. \E first \in FirstVehicle(u) :
            Leads(Changes(VehicleKinds, u)', Deletions', first, Vehicle(request[o].seen))
    BY <1>1, <2>4, <2>5, VehicleGo
  <2>7. VehicleFrom(request[o].target, Changes(VehicleKinds, u)', Deletions', Vehicle(request[o].seen))
    BY <2>1, <2>6 DEF VehicleFrom
  <2>8. /\ request'[o].seen.role = user'[u].role /\ request'[o].seen.permissions = user'[u].permissions
        /\ request'[o].seen.disabled = user'[u].disabled
    BY <1>5, <2>3, <2>4 DEF Undisturbed
  <2> QED
    BY <1>5, <2>1, <2>7, <2>8 DEF Remembers, Vehicle
<1> QED
  BY <1>2, <1>4, <1>5 DEF Records, TellsOn


LEMMA FieldGo ==
    ASSUME audit \in Seq(Events), NEW new, Writing(new), NEW field, NEW x, NEW y,
           FieldFrom(field, Changes({"SETTINGS_UPDATED"}, field), x),
           Onward(new, {"SETTINGS_UPDATED"}, field, Shown(field, x), Shown(field, y))
    PROVE  \E first \in Values :
               Leads(Changes({"SETTINGS_UPDATED"}, field)', {}, Shown(field, first), Shown(field, y))
<1>1. PICK first \in Values :
          Leads(Changes({"SETTINGS_UPDATED"}, field), {}, Shown(field, first), Shown(field, x))
  BY DEF FieldFrom
<1> DEFINE from == Shown(field, first)
           left == Shown(field, x)
           right == Shown(field, y)
<1>2. Leads(Changes({"SETTINGS_UPDATED"}, field), {}, from, left)
      /\ Onward(new, {"SETTINGS_UPDATED"}, field, left, right)
  BY <1>1
<1> HIDE DEF from, left, right
<1>3. Leads(Changes({"SETTINGS_UPDATED"}, field)', {}, from, right)
  BY <1>2, ChangesGo DEF Onward
<1> QED
  BY <1>3 DEF from, right

\* About an account of which nothing is appended.
LEMMA Quiet ==
    ASSUME NEW new, NEW t, Matching(new, AccountKinds, t) = {}
    PROVE  /\ \A x : Onward(new, FunctionalKinds, t, x, x) /\ Onward(new, VehicleKinds, t, x, x)
           /\ \A x : SwitchOnward(new, t, x, x)
           /\ Matching(new, VehicleKinds, t) = {}
<1>1. /\ Matching(new, FunctionalKinds, t) = {} /\ Matching(new, VehicleKinds, t) = {}
      /\ Matching(new, SwitchKinds, t) = {}
  BY DEF Matching, AccountKinds
<1> QED
  BY <1>1 DEF Onward, SwitchOnward

LEMMA QuietAccount ==
    ASSUME AInv, NEW r, NEW new, NEW t \in Users, Matching(new, AccountKinds, t) = {},
           user'[t] = user[t]
    PROVE  Recorded(r, new, t)
<1>1. /\ Functional(user'[t]) = Functional(user[t]) /\ Vehicle(user'[t]) = Vehicle(user[t])
      /\ Switched(t)' = Switched(t) /\ (Exists(t)' <=> Exists(t))
  BY DEF Switched, Exists
<1>2. Exists(t) => VehicleFrom(t, Changes(VehicleKinds, t), Deletions, Vehicle(user[t]))
  BY DEF AInv, AccountTells
<1> QED
  BY <1>1, <1>2, Quiet DEF Recorded, Continues, Undisturbed

LEMMA QuietFields ==
    ASSUME AInv, NEW new, Writing(new), settings' = settings,
           \A field \in Fields : Matching(new, {"SETTINGS_UPDATED"}, field) = {}
    PROVE  \A field \in Fields : FieldTells(field)'
<1> SUFFICES ASSUME NEW field \in Fields PROVE FieldTells(field)'
  OBVIOUS
<1> DEFINE x == settings.fields[field]
<1>1. CASE FieldFrom(field, Changes({"SETTINGS_UPDATED"}, field), x)
  <2>1. Onward(new, {"SETTINGS_UPDATED"}, field, Shown(field, x), Shown(field, x))
    BY DEF Onward
  <2> HIDE DEF x
  <2>2. \E first \in Values :
            Leads(Changes({"SETTINGS_UPDATED"}, field)', {}, Shown(field, first), Shown(field, x))
    BY <1>1, <2>1, FieldGo DEF AInv
  <2> QED
    BY <2>2 DEF FieldTells, FieldFrom, x
<1>2. CASE field = Geofence /\ settings.imports > 0
  BY <1>2 DEF FieldTells
<1> QED
  BY <1>1, <1>2 DEF AInv, FieldTells

\* A step that appends nothing and changes nothing the trail tells of.
LEMMA NothingRecorded ==
    ASSUME AInv, NEW r, UNCHANGED <<user, settings, audit>>
    PROVE  Records(r, <<>>)
<1>1. Writing(<<>>) /\ DOMAIN <<>> = {}
  BY WritingNothing DEF AInv
<1>2. NoDeletion(<<>>) /\ \A kinds, t : Matching(<<>>, kinds, t) = {}
  BY <1>1 DEF NoDeletion, Matching
<1> QED
  BY <1>1, <1>2, QuietAccount, QuietFields DEF Records

\* The rows that carry neither a previous value nor a next one.
LEMMA BareEvent ==
    ASSUME NEW kind \in Kinds \ VehicleKinds, NEW about \in Users \union Groups \union Fields
    PROVE  LET e == Event(kind, about, Nothing, Nothing)
           IN  e \in Events /\ e.kind = kind /\ e.about = about
  BY DEF Event, Events, Named

LEMMA OneRow ==
    ASSUME AInv, NEW e \in Events, audit' = Append(audit, e), e.kind # "VEHICLE_GROUP_DELETED"
    PROVE  /\ Writing(<<e>>) /\ NoDeletion(<<e>>) /\ DOMAIN <<e>> = {1} /\ <<e>>[1] = e
           /\ \A kinds, t : Matching(<<e>>, kinds, t) = IF e.kind \in kinds /\ e.about = t THEN {1} ELSE {}
<1>1. Writing(<<e>>) /\ DOMAIN <<e>> = {1} /\ <<e>>[1] = e
  BY WritingOne DEF AInv
<1> QED
  BY <1>1 DEF Matching, NoDeletion

\* The rows about role and permissions and about vehicle access, each or neither.
Reported(new, u, one, e, two, f) ==
    /\ Writing(new) /\ NoDeletion(new)
    /\ \A t : t # u => Matching(new, AccountKinds, t) = {}
    /\ \A t : Matching(new, {"SETTINGS_UPDATED"}, t) = {}
    /\ IF one THEN Onward(new, FunctionalKinds, u, e.previous, e.next)
              ELSE \A x : Onward(new, FunctionalKinds, u, x, x)
    /\ IF two THEN Onward(new, VehicleKinds, u, f.previous, f.next)
              ELSE \A x : Onward(new, VehicleKinds, u, x, x)
    /\ \A x : SwitchOnward(new, u, x, x)

LEMMA TwoRows ==
    ASSUME AInv, NEW u, NEW e \in Events, NEW f \in Events, NEW one \in BOOLEAN, NEW two \in BOOLEAN,
           e.kind \in FunctionalKinds, e.about = u, f.kind \in VehicleKinds, f.about = u,
           NEW new, new = (IF one THEN <<e>> ELSE <<>>) \o (IF two THEN <<f>> ELSE <<>>),
           audit' = audit \o new
    PROVE  Reported(new, u, one, e, two, f)
<1> USE DEF Reported, FunctionalKinds, VehicleKinds, SwitchKinds, AccountKinds, Matching, NoDeletion, Onward,
            SwitchOnward
<1>1. CASE ~one /\ ~two
  <2>1. new = <<>>
    BY <1>1
  <2>2. <<>> \in Seq(Events) /\ DOMAIN <<>> = {}
    OBVIOUS
  <2> QED
    BY <1>1, <2>1, <2>2 DEF Writing
<1>2. CASE one /\ ~two
  <2>1. new = <<e>>
    BY <1>2
  <2>2. new \in Seq(Events) /\ DOMAIN new = {1} /\ new[1] = e
    BY <2>1
  <2> QED
    BY <1>2, <2>2 DEF Writing
<1>3. CASE ~one /\ two
  <2>1. new = <<f>>
    BY <1>3
  <2>2. new \in Seq(Events) /\ DOMAIN new = {1} /\ new[1] = f
    BY <2>1
  <2> QED
    BY <1>3, <2>2 DEF Writing
<1>4. CASE one /\ two
  <2>1. new = <<e, f>>
    BY <1>4
  <2>2. new \in Seq(Events) /\ DOMAIN new = {1, 2} /\ new[1] = e /\ new[2] = f
    BY <2>1
  <2>3. /\ Matching(new, FunctionalKinds, u) = {1} /\ Matching(new, VehicleKinds, u) = {2}
        /\ Matching(new, SwitchKinds, u) = {}
    BY <2>2
  <2>4. Writing(new) /\ NoDeletion(new)
    BY <2>2 DEF Writing
  <2>5. /\ \A t : t # u => Matching(new, AccountKinds, t) = {}
        /\ \A t : Matching(new, {"SETTINGS_UPDATED"}, t) = {}
    BY <2>2
  <2> HIDE DEF Matching
  <2> QED
    BY <1>4, <2>2, <2>3, <2>4, <2>5
<1> QED
  BY <1>1, <1>2, <1>3, <1>4


\* What the rows show is what they may name.
LEMMA RowShows ==
    /\ \A row \in Rows : Functional(row) \in FunctionalRows /\ Vehicle(row) \in VehicleRows
    /\ \A access \in Accesses \union {NoAccess} :
         Functional(access) \in FunctionalRows /\ Vehicle(access) \in VehicleRows
    /\ NoVehicle \in VehicleRows
<1>1. \A granted \in SUBSET Groups : Cardinality(granted) \in Nat
  BY AdministrationAssumption, FS_Subset, FS_CardinalityType
<1>2. \A row \in Rows : /\ row.role \in {"NONE", "ADMIN", "USER"} /\ row.permissions \in Permissions
                        /\ row.mode \in {"ALL", "SELECTED"} /\ row.groups \in SUBSET Groups
  BY AbsentRow, AdministrationAssumption DEF Rows, Made
<1>3. \A access \in Accesses \union {NoAccess} :
          /\ access.role \in {"NONE", "ADMIN", "USER"} /\ access.permissions \in Permissions
          /\ access.mode \in {"ALL", "SELECTED"} /\ access.groups \in SUBSET Groups
  BY RestingType, AdministrationAssumption DEF NoAccess, Access
<1> QED
  BY <1>1, <1>2, <1>3 DEF Functional, Vehicle, FunctionalRows, VehicleRows, NoVehicle

LEMMA AccessEvents ==
    ASSUME NEW u \in Users, NEW a \in FunctionalRows, NEW b \in FunctionalRows, NEW v \in VehicleRows,
           NEW w \in VehicleRows, NEW kind \in FunctionalKinds
    PROVE  /\ LET e == Event(kind, u, a, b)
              IN  e \in Events /\ e.kind = kind /\ e.about = u /\ e.previous = a /\ e.next = b
           /\ LET e == Event("USER_VEHICLE_ACCESS_CHANGED", u, v, w)
              IN  /\ e \in Events /\ e.kind = "USER_VEHICLE_ACCESS_CHANGED" /\ e.about = u
                  /\ e.previous = v /\ e.next = w
  BY DEF Event, Events, Named, FunctionalKinds, VehicleKinds, Kinds, AccountKinds

\* The rows and what they tell of, one action after the other.
LEMMA UpdateTells ==
    ASSUME IInv, AInv, NEW r \in Requests, UpdateAccess(r)
    PROVE  \E new : Records(r, new)
<1>0. PICK u \in Users : u = request[r].target
  BY DEF UpdateAccess, IInv, RequestsKnow, Knows
<1>1. PICK seen \in Rows : seen = request[r].seen
  BY DEF IInv, Types, Locals
<1>2. PICK next \in Accesses : next = request[r].access
  BY DEF UpdateAccess, IInv, RequestsKnow, Knows
<1>3. /\ Exists(u) /\ user[u] \in Made /\ user \in [Users -> Rows] /\ lock = r /\ settings' = settings
      /\ seen.role = user[u].role /\ seen.permissions = user[u].permissions
      /\ VehicleFrom(u, Changes(VehicleKinds, u), Deletions, Vehicle(seen))
  <2>1. request[r].pc = "write" /\ request[r].op = "access"
    BY DEF UpdateAccess
  <2>2. lock = r /\ Exists(u)
    BY <1>0, <2>1 DEF IInv, LockHeld, Counting, Locking, RequestsKnow, Knows
  <2>3. /\ seen.role = user[u].role /\ seen.permissions = user[u].permissions
        /\ VehicleFrom(u, Changes(VehicleKinds, u), Deletions, Vehicle(seen))
    BY <1>0, <1>1, <2>1 DEF AInv, Remembers
  <2> QED
    BY <2>2, <2>3, MadeRow DEF IInv, Types, UpdateAccess
<1>4. CASE UNCHANGED <<user, audit>>
  BY <1>3, <1>4, NothingRecorded
<1>5. CASE ~UNCHANGED <<user, audit>>
  <2> DEFINE row == WithAccess(user[u], next)
             e == Event("USER_ACCESS_CHANGED", u, Functional(seen), Functional(next))
             f == Event("USER_VEHICLE_ACCESS_CHANGED", u, Vehicle(seen), Vehicle(next))
             one == Functional(seen) # Functional(next)
             two == ~(seen.mode = next.mode /\ seen.groups = next.groups)
             new == (IF one THEN <<e>> ELSE <<>>) \o (IF two THEN <<f>> ELSE <<>>)
  <2>1. user' = [user EXCEPT ![u] = row] /\ audit' = audit \o AccessRows(u, seen, next)
    BY <1>0, <1>1, <1>2, <1>5 DEF UpdateAccess, WithAccess
  <2>2. AccessRows(u, seen, next) = new
    BY DEF AccessRows
  <2>3. /\ row.role = next.role /\ row.permissions = next.permissions /\ row.mode = next.mode
        /\ row.groups = next.groups /\ row.disabled = user[u].disabled /\ row \in Made
    BY <1>3, AccessParts
  <2>4. /\ Functional(row) = Functional(next) /\ Vehicle(row) = Vehicle(next)
        /\ Functional(seen) = Functional(user[u])
    BY <1>3, <2>3 DEF Functional, Vehicle
  <2>5. ~two => Vehicle(seen) = Vehicle(next)
    BY DEF Vehicle
  <2>6. /\ e \in Events /\ e.kind \in FunctionalKinds /\ e.about = u
        /\ e.previous = Functional(seen) /\ e.next = Functional(next)
        /\ f \in Events /\ f.kind \in VehicleKinds /\ f.about = u
        /\ f.previous = Vehicle(seen) /\ f.next = Vehicle(next)
    BY RowShows, AccessEvents DEF FunctionalKinds, VehicleKinds
  <2>7. user'[u] = row /\ \A t \in Users : t # u => user'[t] = user[t]
    BY <1>3, <2>1
  <2>8. one \in BOOLEAN /\ two \in BOOLEAN /\ (~one => Functional(seen) = Functional(next))
    OBVIOUS
  <2>0. new = (IF one THEN <<e>> ELSE <<>>) \o (IF two THEN <<f>> ELSE <<>>) /\ audit' = audit \o new
    BY <2>1, <2>2
  <2> HIDE DEF row, e, f, one, two, new
  <2>9. Reported(new, u, one, e, two, f)
    BY <2>6, <2>8, <2>0, TwoRows
  <2>10. Continues(new, u, Functional(user[u]), Vehicle(seen), Switched(u))
    <3>1. Onward(new, FunctionalKinds, u, Functional(user[u]), Functional(user'[u]))
      BY <2>4, <2>6, <2>7, <2>8, <2>9 DEF Reported
    <3>2. Onward(new, VehicleKinds, u, Vehicle(seen), Vehicle(user'[u]))
      BY <2>4, <2>5, <2>6, <2>7, <2>9 DEF Reported
    <3>3. Switched(u)' = Switched(u)
      BY <2>3, <2>7 DEF Switched
    <3> QED
      BY <2>9, <3>1, <3>2, <3>3 DEF Continues, Reported
  <2>11. Recorded(r, new, u)
    BY <1>3, <2>3, <2>7, <2>10, AbsentRow DEF Recorded, Exists
  <2>12. \A t \in Users : Recorded(r, new, t)
    BY <2>7, <2>9, <2>11, QuietAccount DEF Reported
  <2> QED
    BY <1>3, <2>9, <2>12, QuietFields DEF Records, Reported
<1> QED
  BY <1>4, <1>5

\* A row that is created shows its access, and is not disabled.
LEMMA CreatedShows ==
    ASSUME NEW access, NEW row, access.role \in {"ADMIN", "USER"}, row.role = access.role,
           row.permissions = access.permissions, row.mode = access.mode, row.groups = access.groups
    PROVE  row # Absent /\ Functional(row) = Functional(access) /\ Vehicle(row) = Vehicle(access)
  BY AbsentRow DEF Functional, Vehicle

LEMMA CreateTells ==
    ASSUME IInv, AInv, NEW r \in Requests, CreateUser(r)
    PROVE  \E new : Records(r, new)
<1>0. PICK u \in Users : u = request[r].target
  BY DEF CreateUser, IInv, RequestsKnow, Knows
<1>1. PICK next \in Accesses : next = request[r].access
  BY DEF CreateUser, IInv, RequestsKnow, Knows
<1>2. settings' = settings /\ user \in [Users -> Rows]
  BY DEF CreateUser, IInv, Types
<1>3. CASE UNCHANGED <<user, audit>>
  BY <1>2, <1>3, NothingRecorded
<1>4. CASE ~UNCHANGED <<user, audit>>
  <2> DEFINE row == Account(next, TRUE, issued + 1)
             e == Event("USER_CREATED", u, Functional(NoAccess), Functional(next))
             f == Event("USER_VEHICLE_ACCESS_CHANGED", u, NoVehicle, Vehicle(next))
             one == TRUE
             two == next.role # "ADMIN"
             new == (IF one THEN <<e>> ELSE <<>>) \o (IF two THEN <<f>> ELSE <<>>)
  <2>1. /\ ~Exists(u) /\ user' = [user EXCEPT ![u] = row] /\ audit' = audit \o CreationRows(u, next)
    BY <1>0, <1>1, <1>4 DEF CreateUser
  <2>2. CreationRows(u, next) = new
    BY DEF CreationRows
  <2>3. /\ row # Absent /\ Functional(row) = Functional(next) /\ Vehicle(row) = Vehicle(next)
        /\ row.disabled = FALSE
    <3>1. next.role \in {"ADMIN", "USER"}
      BY RestingType
    <3>3. /\ row.role = next.role /\ row.permissions = next.permissions /\ row.mode = next.mode
          /\ row.groups = next.groups /\ row.disabled = FALSE
      BY DEF Account
    <3> HIDE DEF row
    <3> QED
      BY <3>1, <3>3, CreatedShows
  <2>4. /\ e \in Events /\ e.kind \in FunctionalKinds /\ e.about = u
        /\ e.previous = Functional(NoAccess) /\ e.next = Functional(next)
        /\ f \in Events /\ f.kind \in VehicleKinds /\ f.about = u
        /\ f.previous = NoVehicle /\ f.next = Vehicle(next)
    BY RowShows, AccessEvents DEF FunctionalKinds, VehicleKinds
  <2>5. next.role = "ADMIN" => Vehicle(next) = Vehicle(NoAccess)
    <3>1. next.role = "ADMIN" => next = Administrator
      BY DEF Accesses, Access
    <3> QED
      BY <3>1 DEF Administrator, Access, NoAccess, Vehicle
  <2>6. user'[u] = row /\ \A t \in Users : t # u => user'[t] = user[t]
    BY <1>2, <2>1
  <2>7. new = (IF one THEN <<e>> ELSE <<>>) \o (IF two THEN <<f>> ELSE <<>>) /\ audit' = audit \o new
    BY <2>1, <2>2
  <2>8. one \in BOOLEAN /\ two \in BOOLEAN /\ one /\ (~two => Vehicle(next) = Vehicle(NoAccess))
    BY <2>5
  <2> HIDE DEF row, e, f, one, two, new
  <2>9. Reported(new, u, one, e, two, f)
    BY <2>4, <2>7, <2>8, TwoRows
  <2>10. Starts(new, u)
    <3>1. u \notin Admins
      BY <2>1 DEF AInv, Unheard
    <3>2. Functional(NoAccess) \in FirstFunctional(u) /\ {NoVehicle, Vehicle(NoAccess)} = FirstVehicle(u)
      BY <3>1 DEF FirstFunctional, FirstVehicle
    <3>3. Onward(new, FunctionalKinds, u, Functional(NoAccess), Functional(user'[u]))
      BY <2>3, <2>4, <2>6, <2>8, <2>9 DEF Reported
    <3>4. \E vehicle \in FirstVehicle(u) : Onward(new, VehicleKinds, u, vehicle, Vehicle(user'[u]))
      BY <2>3, <2>4, <2>6, <2>8, <2>9, <3>2 DEF Reported
    <3>5. SwitchOnward(new, u, "USER_ENABLED", Switched(u)')
      BY <2>3, <2>6, <2>9 DEF Reported, Switched
    <3> QED
      BY <3>2, <3>3, <3>4, <3>5 DEF Starts, Continues
  <2>11. Recorded(r, new, u)
    BY <2>1, <2>3, <2>6, <2>10 DEF Recorded, Exists
  <2>12. \A t \in Users : Recorded(r, new, t)
    BY <2>6, <2>9, <2>11, QuietAccount DEF Reported
  <2> QED
    BY <1>2, <2>9, <2>12, QuietFields DEF Records, Reported
<1> QED
  BY <1>3, <1>4

\* The operator's account has no rows: its first access is where they begin.
LEMMA OperatorTells ==
    ASSUME IInv, AInv, Operator
    PROVE  Records(Nobody, <<>>)
<1>1. Writing(<<>>) /\ DOMAIN <<>> = {}
  BY WritingNothing DEF AInv, Operator, OperatorCreates, ImportGeofence
<1>2. NoDeletion(<<>>) /\ \A kinds, t : Matching(<<>>, kinds, t) = {}
  BY <1>1 DEF NoDeletion, Matching
<1>3. ASSUME NEW u \in Users, NEW access \in Asked, OperatorCreates(u, access)
      PROVE  Records(Nobody, <<>>)
  <2> DEFINE row == Account(access, FALSE, issued + 1)
  <2>1. /\ ~Exists(u) /\ access.mode = "ALL" /\ user' = [user EXCEPT ![u] = row] /\ settings' = settings
        /\ user \in [Users -> Rows]
    BY <1>3 DEF OperatorCreates, IInv, Types
  <2>2. /\ row # Absent /\ Functional(row) = Functional(access) /\ Vehicle(row) = Vehicle(access)
        /\ row.disabled = FALSE
    <3>1. access \in Accesses
      BY AdministrationAssumption
    <3>2. access.role \in {"ADMIN", "USER"}
      BY <3>1, RestingType
    <3>3. /\ row.role = access.role /\ row.permissions = access.permissions /\ row.mode = access.mode
          /\ row.groups = access.groups /\ row.disabled = FALSE
      BY DEF Account
    <3> HIDE DEF row
    <3> QED
      BY <3>2, <3>3, CreatedShows
  <2>3. Vehicle(access) = Vehicle(NoAccess)
    <3>1. access \in Accesses
      BY AdministrationAssumption
    <3>2. CASE access.mode = "ALL" /\ access.groups = {}
      BY <3>2 DEF Vehicle, NoAccess, Access
    <3>3. CASE access.mode = "SELECTED"
      BY <2>1, <3>3
    <3> QED
      BY <3>1, <3>2, <3>3 DEF Accesses, Administrator, Access
  <2> HIDE DEF row
  <2>4. user'[u] = row /\ \A t \in Users : t # u => user'[t] = user[t]
    BY <2>1
  <2>5. u \notin Admins
    BY <2>1 DEF AInv, Unheard
  <2>6. Functional(access) \in FirstFunctional(u) /\ Vehicle(NoAccess) \in FirstVehicle(u)
    BY <2>5 DEF FirstFunctional, FirstVehicle
  <2>7. Continues(<<>>, u, Functional(access), Vehicle(NoAccess), "USER_ENABLED")
    BY <1>2, <2>2, <2>3, <2>4 DEF Continues, Onward, SwitchOnward, Switched
  <2>8. Recorded(Nobody, <<>>, u)
    BY <2>1, <2>2, <2>4, <2>6, <2>7 DEF Recorded, Starts, Exists
  <2>9. \A t \in Users : Recorded(Nobody, <<>>, t)
    BY <1>2, <2>4, <2>8, QuietAccount
  <2> QED
    BY <1>1, <1>2, <2>1, <2>9, QuietFields DEF Records
<1>4. ASSUME NEW value \in Values, ImportGeofence(value)
      PROVE  Records(Nobody, <<>>)
  <2>1. user' = user /\ settings'.imports = settings.imports + 1 /\ settings.imports \in Nat
        /\ \A field \in Fields \ {Geofence} : settings'.fields[field] = settings.fields[field]
    <3>1. settings \in SettingsRows
      BY DEF IInv, Types
    <3> QED
      BY <1>4, <3>1 DEF ImportGeofence, SettingsRows, Contents
  <2>2. ASSUME NEW field \in Fields PROVE FieldTells(field)'
    <3>1. CASE field = Geofence
      BY <2>1, <3>1 DEF FieldTells
    <3>2. CASE field # Geofence
      <4> DEFINE x == settings.fields[field]
      <4>1. FieldFrom(field, Changes({"SETTINGS_UPDATED"}, field), x)
        BY <3>2 DEF AInv, FieldTells
      <4>2. Onward(<<>>, {"SETTINGS_UPDATED"}, field, Shown(field, x), Shown(field, x))
        BY <1>2 DEF Onward
      <4>3. settings'.fields[field] = x
        BY <2>1, <3>2
      <4> HIDE DEF x
      <4>4. \E first \in Values :
                Leads(Changes({"SETTINGS_UPDATED"}, field)', {}, Shown(field, first), Shown(field, x))
        BY <1>1, <4>1, <4>2, FieldGo DEF AInv
      <4> QED
        BY <4>3, <4>4 DEF FieldTells, FieldFrom
    <3> QED
      BY <3>1, <3>2
  <2>3. \A t \in Users : Recorded(Nobody, <<>>, t)
    BY <1>2, <2>1, QuietAccount
  <2> QED
    BY <1>1, <1>2, <2>2, <2>3 DEF Records
<1> QED
  BY <1>3, <1>4 DEF Operator

\* The accounts' rows are as they were, but for the passwords and what else has
\* no bearing on the trail.
SameTold(t) ==
    /\ user'[t].role = user[t].role /\ user'[t].permissions = user[t].permissions
    /\ user'[t].mode = user[t].mode /\ user'[t].groups = user[t].groups
    /\ user'[t].disabled = user[t].disabled /\ (Exists(t)' <=> Exists(t))

\* A step that appends one row, of which no account and no setting tells.
LEMMA BesideTheTrail ==
    ASSUME AInv, NEW r, NEW e \in Events, audit' = Append(audit, e), settings' = settings,
           e.kind \in {"OWN_PASSWORD_CHANGED", "USER_PASSWORD_RESET"},
           \A t \in Users : SameTold(t)
    PROVE  Records(r, <<e>>)
<1>1. /\ Writing(<<e>>) /\ NoDeletion(<<e>>)
      /\ \A kinds, t : Matching(<<e>>, kinds, t) = IF e.kind \in kinds /\ e.about = t THEN {1} ELSE {}
  BY OneRow
<1>2. /\ \A t : Matching(<<e>>, AccountKinds, t) = {}
      /\ \A t : Matching(<<e>>, {"SETTINGS_UPDATED"}, t) = {}
  BY <1>1 DEF AccountKinds, FunctionalKinds, VehicleKinds, SwitchKinds
<1> DEFINE new == <<e>>
<1>3. /\ Writing(new) /\ NoDeletion(new) /\ \A t : Matching(new, AccountKinds, t) = {}
      /\ \A t : Matching(new, {"SETTINGS_UPDATED"}, t) = {}
  BY <1>1, <1>2
<1> HIDE DEF new
<1>4. ASSUME NEW t \in Users PROVE Recorded(r, new, t)
  <2>1. /\ Functional(user'[t]) = Functional(user[t]) /\ Vehicle(user'[t]) = Vehicle(user[t])
        /\ Switched(t)' = Switched(t)
    BY <1>4 DEF SameTold, Functional, Vehicle, Switched
  <2>2. Exists(t) => VehicleFrom(t, Changes(VehicleKinds, t), Deletions, Vehicle(user[t]))
    BY <1>4 DEF AInv, AccountTells
  <2> QED
    BY <1>3, <1>4, <2>1, <2>2, Quiet DEF Recorded, Continues, Undisturbed, SameTold
<1>5. Records(r, new)
  BY <1>3, <1>4, QuietFields DEF Records
<1> QED
  BY <1>5 DEF new

LEMMA PasswordTells ==
    ASSUME IInv, AInv, NEW r \in Requests, ChangePassword(r) \/ ResetPassword(r)
    PROVE  \E new : Records(r, new)
<1>0. PICK u \in Users : u = request[r].target
  BY DEF ChangePassword, ResetPassword, IInv, RequestsKnow, Knows
<1>1. settings' = settings /\ user \in [Users -> Rows]
  BY DEF ChangePassword, ResetPassword, IInv, Types
<1>2. CASE UNCHANGED <<user, audit>>
  BY <1>1, <1>2, NothingRecorded
<1>3. CASE ~UNCHANGED <<user, audit>>
  <2>1. PICK mustChange \in BOOLEAN, kind \in {"OWN_PASSWORD_CHANGED", "USER_PASSWORD_RESET"} :
          /\ Exists(u) /\ user' = [user EXCEPT ![u] = WithPassword(user[u], issued + 1, mustChange)]
          /\ audit' = Append(audit, Event(kind, u, Nothing, Nothing))
    <3>1. CASE ChangePassword(r)
      <4>1. StillVerified(r) /\ request[r].seen \in Made
        BY <1>3, <3>1 DEF ChangePassword, IInv, RequestsKnow, Knows
      <4>2. Exists(u)
        BY <1>0, <4>1, AbsentRow DEF StillVerified, Exists, Made
      <4> QED
        BY <1>0, <3>1, <4>1, <4>2 DEF ChangePassword, WithPassword
    <3>2. CASE ResetPassword(r)
      BY <1>0, <1>3, <3>2 DEF ResetPassword, WithPassword
    <3> QED
      BY <3>1, <3>2
  <2> DEFINE row == WithPassword(user[u], issued + 1, mustChange)
             e == Event(kind, u, Nothing, Nothing)
  <2>2. /\ row \in Made /\ row.role = user[u].role /\ row.permissions = user[u].permissions
        /\ row.mode = user[u].mode /\ row.groups = user[u].groups /\ row.disabled = user[u].disabled
    BY <2>1, MadeRow, PasswordParts
  <2>3. e \in Events /\ e.kind = kind
    BY BareEvent DEF Kinds, AccountKinds, VehicleKinds
  <2>4. user' = [user EXCEPT ![u] = row] /\ audit' = Append(audit, e)
    BY <2>1
  <2> HIDE DEF row, e
  <2>5. user'[u] = row /\ \A t \in Users : t # u => user'[t] = user[t]
    BY <1>1, <2>4
  <2>6. \A t \in Users : SameTold(t)
    BY <2>1, <2>2, <2>5, AbsentRow DEF SameTold, Exists
  <2>7. Records(r, <<e>>)
    BY <1>1, <2>3, <2>4, <2>6, BesideTheTrail
  <2> QED
    BY <2>7
<1> QED
  BY <1>2, <1>3

\* A disabling or enabling is recorded when the account was read otherwise.
LEMMA SwitchTells ==
    ASSUME IInv, AInv, NEW r \in Requests, lock = r, NEW u \in Users, Exists(u), NEW disabled \in BOOLEAN,
           user[u].disabled # disabled, settings' = settings,
           user' = [user EXCEPT ![u] = WithDisabled(user[u], disabled)],
           NEW kind \in SwitchKinds, kind = "USER_DISABLED" <=> disabled,
           audit' = Append(audit, Event(kind, u, Nothing, Nothing))
    PROVE  \E new : Records(r, new)
<1> DEFINE row == WithDisabled(user[u], disabled)
           e == Event(kind, u, Nothing, Nothing)
<1>1. /\ row \in Made /\ row.role = user[u].role /\ row.permissions = user[u].permissions
      /\ row.mode = user[u].mode /\ row.groups = user[u].groups /\ row.disabled = disabled
      /\ user[u].disabled \in BOOLEAN
  BY MadeRow, DisabledParts DEF Made
<1>2. e \in Events /\ e.kind = kind /\ e.about = u
  BY BareEvent DEF Kinds, AccountKinds, VehicleKinds, SwitchKinds
<1>3. user' = [user EXCEPT ![u] = row] /\ audit' = Append(audit, e) /\ user \in [Users -> Rows]
  BY DEF IInv, Types
<1>4. user'[u] = row /\ \A t \in Users : t # u => user'[t] = user[t]
  <2> HIDE DEF row, e
  <2> QED
    BY <1>3
<1>5. /\ Writing(<<e>>) /\ NoDeletion(<<e>>) /\ DOMAIN <<e>> = {1} /\ <<e>>[1] = e
      /\ \A kinds, t : Matching(<<e>>, kinds, t) = IF e.kind \in kinds /\ e.about = t THEN {1} ELSE {}
  <2> HIDE DEF row, e
  <2> QED
    BY <1>2, <1>3, OneRow DEF SwitchKinds
<1> DEFINE new == <<e>>
<1>6. /\ Writing(new) /\ NoDeletion(new) /\ DOMAIN new = {1} /\ new[1] = e
      /\ \A kinds, t : Matching(new, kinds, t) = IF e.kind \in kinds /\ e.about = t THEN {1} ELSE {}
  BY <1>5
<1> HIDE DEF row, e, new
<1>7. /\ Matching(new, SwitchKinds, u) = {1} /\ Matching(new, FunctionalKinds, u) = {}
      /\ Matching(new, VehicleKinds, u) = {}
      /\ \A t : t # u => Matching(new, AccountKinds, t) = {}
      /\ \A t : Matching(new, {"SETTINGS_UPDATED"}, t) = {}
  BY <1>2, <1>6 DEF AccountKinds, FunctionalKinds, VehicleKinds, SwitchKinds
<1>8. /\ Functional(user'[u]) = Functional(user[u]) /\ Vehicle(user'[u]) = Vehicle(user[u])
  BY <1>1, <1>4 DEF Functional, Vehicle
<1>9. Switched(u)' = kind /\ Opposite(kind) = Switched(u)
  BY <1>1, <1>4 DEF Switched, Opposite, SwitchKinds
<1>10. SwitchOnward(new, u, Switched(u), Switched(u)')
  BY <1>2, <1>6, <1>7, <1>9 DEF SwitchOnward
<1>11. Continues(new, u, Functional(user[u]), Vehicle(user[u]), Switched(u))
  BY <1>7, <1>8, <1>10 DEF Continues, Onward
<1>12. Exists(u)' /\ VehicleFrom(u, Changes(VehicleKinds, u), Deletions, Vehicle(user[u]))
  BY <1>1, <1>4, AbsentRow DEF Exists, AInv, AccountTells
<1>13. Recorded(r, new, u)
  BY <1>11, <1>12 DEF Recorded
<1>14. \A t \in Users : Recorded(r, new, t)
  BY <1>4, <1>7, <1>13, QuietAccount
<1> QED
  BY <1>6, <1>7, <1>14, QuietFields DEF Records

LEMMA DisablingTells ==
    ASSUME IInv, AInv, NEW r \in Requests, Disable(r) \/ Enable(r)
    PROVE  \E new : Records(r, new)
<1>0. PICK u \in Users : u = request[r].target
  BY DEF Disable, Enable, IInv, RequestsKnow, Knows
<1>1. /\ lock = r /\ Exists(u) /\ user[u] \in Made /\ user \in [Users -> Rows]
      /\ request[r].seen.disabled = user[u].disabled /\ settings' = settings
  <2>1. request[r].pc = "write" /\ request[r].op \in {"disable", "enable"} /\ settings' = settings
    BY DEF Disable, Enable
  <2>2. lock = r /\ Exists(u) /\ request[r].seen.disabled = user[u].disabled
    BY <1>0, <2>1 DEF IInv, LockHeld, Counting, Locking, RequestsKnow, Knows, AInv, Remembers
  <2> QED
    BY <2>1, <2>2, MadeRow DEF IInv, Types
<1>2. CASE Disable(r)
  <2>1. user' = [user EXCEPT ![u] = WithDisabled(user[u], TRUE)]
    BY <1>0, <1>2 DEF Disable, WithDisabled
  <2>2. CASE user[u].disabled
    <3>1. audit' = audit
      BY <1>0, <1>1, <1>2, <2>2 DEF Disable
    <3>2. WithDisabled(user[u], TRUE) = user[u]
      BY <1>1, <2>2 DEF WithDisabled, Made
    <3>3. user' = user
      BY <1>1, <2>1, <3>2
    <3> QED
      BY <1>1, <3>1, <3>3, NothingRecorded
  <2>3. CASE ~user[u].disabled
    <3>1. audit' = Append(audit, Event("USER_DISABLED", u, Nothing, Nothing))
      BY <1>0, <1>1, <1>2, <2>3 DEF Disable
    <3> QED
      BY <1>1, <2>1, <2>3, <3>1, SwitchTells DEF SwitchKinds
  <2> QED
    BY <2>2, <2>3
<1>3. CASE Enable(r)
  <2>1. CASE ~user[u].disabled
    <3>1. UNCHANGED <<user, audit>>
      BY <1>0, <1>1, <1>3, <2>1 DEF Enable
    <3> QED
      BY <1>1, <3>1, NothingRecorded
  <2>2. CASE user[u].disabled
    <3>1. /\ audit' = Append(audit, Event("USER_ENABLED", u, Nothing, Nothing))
          /\ user' = [user EXCEPT ![u] = WithDisabled(user[u], FALSE)]
      BY <1>0, <1>1, <1>3, <2>2 DEF Enable, WithDisabled
    <3> QED
      BY <1>1, <2>2, <3>1, SwitchTells DEF SwitchKinds
  <2> QED
    BY <2>1, <2>2
<1> QED
  BY <1>2, <1>3


\* What the transaction read the settings are, but for a geofence imported since.
LEMMA SaveTells ==
    ASSUME IInv, AInv, NEW r \in Requests, SaveSettings(r)
    PROVE  \E new : Records(r, new)
<1>1. user' = user
  BY DEF SaveSettings
<1>2. CASE UNCHANGED <<settings, audit>>
  BY <1>1, <1>2, NothingRecorded
<1>3. CASE ~UNCHANGED <<settings, audit>>
  <2> DEFINE read == request[r].current
             p == request[r].patch.field
             value == request[r].patch.value
             e == ChangeRow(request[r])
             next == Merged(read.fields, request[r].patch)
  <2>1. /\ audit' = Append(audit, e) /\ request[r].loaded.revision = settings.revision
        /\ settings' = SavedRow(settings, settings.revision + 1, next)
    BY <1>3 DEF SaveSettings, SavedRow
  <2>2. /\ Older(request[r].loaded, read) /\ Older(read, settings) /\ p \in Fields /\ value \in Values
        /\ request[r].loaded \in SettingsRows /\ read \in SettingsRows /\ settings \in SettingsRows
    BY DEF SaveSettings, IInv, Types, RequestsKnow, Knows, Older
  <2>3. read.fields \in Contents /\ read.fields[p] \in Values /\ next \in Contents
    BY <2>2 DEF SettingsRows, Contents, Merged
  <2>4. next[p] = value /\ \A field \in Fields \ {p} : next[field] = read.fields[field]
    BY <2>2, <2>3 DEF Merged, Contents
  <2>5. /\ e \in Events /\ e.kind = "SETTINGS_UPDATED" /\ e.about = p
        /\ e.previous = Shown(p, read.fields[p]) /\ e.next = Shown(p, value)
    BY <2>2, <2>3 DEF ChangeRow, Event, Events, Named, Kinds, VehicleKinds
  <2> HIDE DEF next, e
  <2>6. settings'.fields = next /\ settings'.imports = settings.imports
    <3>1. settings.revision + 1 \in Nat
      BY <2>2 DEF SettingsRows
    <3> QED
      BY <2>1, <2>2, <2>3, <3>1, SavedParts
  <2>7. /\ \A field \in Fields \ {Geofence} : read.fields[field] = settings.fields[field]
        /\ settings.imports > 0 \/ read = settings
    <3>1. /\ read.revision \in Nat /\ settings.revision \in Nat /\ request[r].loaded.revision \in Nat
          /\ read.imports \in Nat /\ settings.imports \in Nat
      BY <2>2 DEF SettingsRows
    <3>2. read.revision = settings.revision
      BY <2>1, <2>2, <3>1 DEF Older
    <3> QED
      BY <2>2, <3>1, <3>2 DEF Older
  <2> DEFINE new == <<e>>
  <2>8. /\ Writing(new) /\ NoDeletion(new) /\ DOMAIN new = {1} /\ new[1] = e
        /\ \A kinds, t : Matching(new, kinds, t) = IF e.kind \in kinds /\ e.about = t THEN {1} ELSE {}
    BY <2>1, <2>5, OneRow
  <2> HIDE DEF new
  <2>9. ASSUME NEW field \in Fields, field # Geofence \/ ~(settings.imports > 0)
        PROVE  FieldTells(field)'
    <3> DEFINE x == read.fields[field]
               y == next[field]
    <3>1. FieldFrom(field, Changes({"SETTINGS_UPDATED"}, field), x)
      BY <2>7, <2>9 DEF AInv, FieldTells
    <3>2. CASE field = p
      <4>1. Onward(new, {"SETTINGS_UPDATED"}, field, Shown(field, x), Shown(field, y))
        BY <2>4, <2>5, <2>8, <3>2 DEF Onward
      <4> HIDE DEF x, y
      <4>2. \E first \in Values :
                Leads(Changes({"SETTINGS_UPDATED"}, field)', {}, Shown(field, first), Shown(field, y))
        BY <2>8, <3>1, <4>1, FieldGo DEF AInv
      <4> QED
        BY <2>6, <4>2 DEF FieldTells, FieldFrom, y
    <3>3. CASE field # p
      <4>1. Onward(new, {"SETTINGS_UPDATED"}, field, Shown(field, x), Shown(field, x))
        BY <2>5, <2>8, <3>3 DEF Onward
      <4>2. y = x
        BY <2>4, <3>3
      <4> HIDE DEF x, y
      <4>3. \E first \in Values :
                Leads(Changes({"SETTINGS_UPDATED"}, field)', {}, Shown(field, first), Shown(field, y))
        BY <2>8, <3>1, <4>1, <4>2, FieldGo DEF AInv
      <4> QED
        BY <2>6, <4>3 DEF FieldTells, FieldFrom, y
    <3> QED
      BY <3>2, <3>3
  <2>10. \A field \in Fields : FieldTells(field)'
    BY <2>6, <2>9 DEF FieldTells
  <2>11. \A t : Matching(new, AccountKinds, t) = {}
    BY <2>5, <2>8 DEF AccountKinds, FunctionalKinds, VehicleKinds, SwitchKinds
  <2>12. \A t \in Users : Recorded(r, new, t)
    BY <1>1, <2>11, QuietAccount
  <2> QED
    BY <2>8, <2>10, <2>12 DEF Records
<1> QED
  BY <1>2, <1>3

\* Vehicle access after the deletion of a group: as it was, or with a grant less.
LEMMA DeletionFollows ==
    ASSUME NEW row \in Rows, NEW g \in Groups, NEW n
    PROVE  /\ Follows(Vehicle(row), Vehicle(WithoutGroup(row, g)), {n})
           /\ Functional(WithoutGroup(row, g)) = Functional(row)
           /\ WithoutGroup(row, g) \in Rows /\ (WithoutGroup(row, g) = Absent <=> row = Absent)
           /\ WithoutGroup(row, g).disabled = row.disabled
<1>1. CASE row = Absent
  BY <1>1, NoGrantGone DEF Follows, Rows
<1>2. CASE row \in Made
  <2> DEFINE next == WithoutGroup(row, g)
  <2>1. /\ next \in Made /\ next.groups = row.groups \ {g} /\ next.role = row.role
        /\ next.permissions = row.permissions /\ next.mode = row.mode /\ next.disabled = row.disabled
    BY <1>2, GrantGone
  <2>2. IsFiniteSet(row.groups) /\ Cardinality(row.groups) \in Nat
    BY <1>2, AdministrationAssumption, FS_Subset, FS_CardinalityType DEF Made
  <2>3. Cardinality(row.groups \ {g}) = IF g \in row.groups THEN Cardinality(row.groups) - 1
                                        ELSE Cardinality(row.groups)
    BY <2>2, FS_RemoveElement
  <2> HIDE DEF next
  <2>4. Vehicle(next).mode = Vehicle(row).mode /\ Vehicle(next).count = Cardinality(row.groups \ {g})
    BY <2>1 DEF Vehicle
  <2>5. Follows(Vehicle(row), Vehicle(next), {n})
    <3>1. CASE g \in row.groups
      BY <2>2, <2>3, <2>4, <3>1 DEF Follows, Vehicle
    <3>2. CASE g \notin row.groups
      <4>1. row.groups \ {g} = row.groups
        BY <3>2
      <4> QED
        BY <2>1, <4>1 DEF Follows, Vehicle
    <3> QED
      BY <3>1, <3>2
  <2>6. Functional(next) = Functional(row)
    BY <2>1 DEF Functional
  <2> QED
    BY <1>2, <2>1, <2>5, <2>6, AbsentRow DEF next, Rows
<1> QED
  BY <1>1, <1>2 DEF Rows

LEMMA DeleteTells ==
    ASSUME IInv, AInv, NEW r \in Requests, DeleteGroup(r)
    PROVE  TellsOn(r)
<1>0. /\ audit \in Seq(Events) /\ settings' = settings /\ user \in [Users -> Rows]
      /\ \A u \in Users : user[u] \in Rows
  BY DEF DeleteGroup, AInv, IInv, Types
<1>1. CASE UNCHANGED <<user, audit>>
  BY <1>0, <1>1, NothingRecorded, RecordsTell
<1>2. CASE ~UNCHANGED <<user, audit>>
  <2>1. PICK g \in Groups :
          /\ user' = [u \in Users |-> WithoutGroup(user[u], g)]
          /\ audit' = Append(audit, Event("VEHICLE_GROUP_DELETED", g, Nothing, Nothing))
    BY <1>2 DEF DeleteGroup, WithoutGroup, IInv, Types
  <2> DEFINE e == Event("VEHICLE_GROUP_DELETED", g, Nothing, Nothing)
             new == <<e>>
             n == Len(audit) + 1
  <2>2. e \in Events /\ e.kind = "VEHICLE_GROUP_DELETED"
    BY BareEvent DEF Kinds, AccountKinds, FunctionalKinds, VehicleKinds, SwitchKinds
  <2> HIDE DEF e
  <2>3. Writing(new) /\ DOMAIN new = {1} /\ new[1] = e
    BY <1>0, <2>1, <2>2, WritingOne DEF e
  <2> HIDE DEF new
  <2>4. /\ \A t : Matching(new, FunctionalKinds, t) = {} /\ Matching(new, VehicleKinds, t) = {}
        /\ \A t : Matching(new, SwitchKinds, t) = {} /\ Matching(new, AccountKinds, t) = {}
        /\ \A t : Matching(new, {"SETTINGS_UPDATED"}, t) = {}
    BY <2>2, <2>3 DEF Matching, AccountKinds, FunctionalKinds, VehicleKinds, SwitchKinds
  <2>5. /\ audit' \in Seq(Events) /\ n \in Nat /\ DOMAIN audit = 1..Len(audit) /\ Len(audit) < n
        /\ DOMAIN audit' = DOMAIN audit \union {n} /\ audit'[n] = e
        /\ \A i \in DOMAIN audit : audit'[i] = audit[i]
        /\ \A i \in DOMAIN audit : i \in Nat /\ i < n
    <3>1. /\ audit' \in Seq(Events) /\ Len(audit) \in Nat /\ DOMAIN audit = 1..Len(audit)
          /\ DOMAIN audit' = DOMAIN audit \union {Len(audit) + j : j \in DOMAIN new}
          /\ \A i \in DOMAIN audit : audit'[i] = audit[i]
          /\ \A j \in DOMAIN new : audit'[Len(audit) + j] = new[j]
      BY <1>0, <2>3, WritingPlaces
    <3>2. {Len(audit) + j : j \in DOMAIN new} = {n}
      BY <2>3
    <3> QED
      BY <2>3, <3>1, <3>2
  <2> HIDE DEF n
  <2>6. Deletions' = Deletions \union {n} /\ \A d \in Deletions : d \in Nat /\ d < n
    <3>1. Deletions' = {i \in DOMAIN audit' : audit'[i].kind = "VEHICLE_GROUP_DELETED"}
      BY DEF Deletions
    <3> QED
      BY <2>2, <2>5, <3>1 DEF Deletions
  <2>7. ASSUME NEW t \in Users, NEW v \in VehicleRows, NEW w \in VehicleRows,
               VehicleFrom(t, Changes(VehicleKinds, t), Deletions, v), Follows(v, w, {n})
        PROVE  \E first \in FirstVehicle(t) : Leads(Changes(VehicleKinds, t)', Deletions', first, w)
    <3>1. PICK first \in FirstVehicle(t) : Leads(Changes(VehicleKinds, t), Deletions, first, v)
      BY <2>7 DEF VehicleFrom
    <3>2. first \in VehicleRows
      BY RowShows DEF FirstVehicle, Accesses
    <3>3. Changes(VehicleKinds, t)' = Changes(VehicleKinds, t)
      BY <1>0, <2>3, <2>4, KeptRows
    <3>4. \A f \in Changes(VehicleKinds, t) : f.at \in Nat /\ f.at < n /\ f.next \in VehicleRows
      <4>1. \A i \in Places(VehicleKinds, t) : /\ i \in Nat /\ i < n /\ audit[i] \in Events
                                               /\ audit[i].kind \in VehicleKinds
        BY <1>0, <2>5 DEF Places
      <4> QED
        BY <4>1 DEF Changes, Events
    <3>5. \A x \in VehicleRows : x.count \in Nat
      BY DEF VehicleRows
    <3>6. Leads(Changes(VehicleKinds, t), Deletions \union {n}, first, w)
      BY <2>5, <2>6, <2>7, <3>1, <3>2, <3>4, <3>5, LeadsLonger
    <3> QED
      BY <2>6, <3>3, <3>6
  <2>8. ASSUME NEW u \in Users PROVE IF Exists(u)' THEN AccountTells(u)' ELSE Unheard(u)'
    <3> DEFINE row == WithoutGroup(user[u], g)
    <3>1. /\ Follows(Vehicle(user[u]), Vehicle(row), {n}) /\ Functional(row) = Functional(user[u])
          /\ row \in Rows /\ (row = Absent <=> user[u] = Absent) /\ row.disabled = user[u].disabled
      BY <1>0, DeletionFollows
    <3>2. user'[u] = row
      BY <2>1
    <3> HIDE DEF row
    <3>3. Vehicle(user[u]) \in VehicleRows /\ Vehicle(row) \in VehicleRows
      BY <1>0, <3>1, RowShows
    <3>4. CASE Exists(u)
      <4>1. AccountTells(u)
        BY <3>4 DEF AInv
      <4>2. \E first \in FirstVehicle(u) : Leads(Changes(VehicleKinds, u)', Deletions', first, Vehicle(row))
        BY <2>7, <3>1, <3>3, <4>1 DEF AccountTells
      <4>3. Changes(FunctionalKinds, u)' = Changes(FunctionalKinds, u) /\ Switches(u)' = Switches(u)
        BY <1>0, <2>3, <2>4, KeptRows DEF SwitchKinds
      <4>4. Functional(user'[u]) = Functional(user[u]) /\ Switched(u)' = Switched(u)
        BY <3>1, <3>2 DEF Switched
      <4>5. FunctionalFrom(u, Changes(FunctionalKinds, u), Functional(user[u]))'
        BY <4>1, <4>3, <4>4 DEF AccountTells, FunctionalFrom, Functional
      <4>6. VehicleFrom(u, Changes(VehicleKinds, u), Deletions, Vehicle(user[u]))'
        BY <3>2, <4>2 DEF VehicleFrom, Vehicle
      <4>7. Exists(u)'
        BY <3>1, <3>2, <3>4 DEF Exists
      <4> QED
        BY <4>1, <4>3, <4>4, <4>5, <4>6, <4>7 DEF AccountTells
    <3>5. CASE ~Exists(u)
      <4>1. ~Exists(u)'
        BY <3>1, <3>2, <3>5 DEF Exists
      <4>2. Places(AccountKinds, u)' = Places(AccountKinds, u)
        BY <1>0, <2>3, <2>4, KeptRows
      <4> QED
        BY <3>5, <4>1, <4>2 DEF AInv, Unheard
    <3> QED
      BY <3>4, <3>5
  <2>9. \A field \in Fields : FieldTells(field)'
    BY <1>0, <2>3, <2>4, QuietFields
  <2>10. ASSUME NEW o \in Requests, o # r, request'[o] = request[o] PROVE Remembers(o)'
    <3> SUFFICES ASSUME request[o].pc = "write", request[o].op \in {"access", "disable", "enable"}
                 PROVE  Remembers(o)'
      BY <2>10 DEF Remembers
    <3>1. PICK u \in Users : u = request[o].target
      BY DEF IInv, RequestsKnow, Knows
    <3>2. PICK seen \in Rows : seen = request[o].seen
      BY DEF IInv, Types, Locals
    <3>3. /\ seen.role = user[u].role /\ seen.permissions = user[u].permissions
          /\ seen.disabled = user[u].disabled
          /\ VehicleFrom(u, Changes(VehicleKinds, u), Deletions, Vehicle(seen))
      BY <3>1, <3>2 DEF AInv, Remembers
    <3>4. Vehicle(seen) \in VehicleRows /\ Follows(Vehicle(seen), Vehicle(seen), {n})
      BY RowShows DEF Follows
    <3>5. \E first \in FirstVehicle(u) : Leads(Changes(VehicleKinds, u)', Deletions', first, Vehicle(seen))
      BY <2>7, <3>3, <3>4
    <3>6. user'[u].role = user[u].role /\ user'[u].permissions = user[u].permissions
          /\ user'[u].disabled = user[u].disabled
      BY <3>1, DeleteGroupRows DEF Ungrants
    <3>7. VehicleFrom(request[o].target, Changes(VehicleKinds, u)', Deletions', Vehicle(request[o].seen))
      BY <3>1, <3>2, <3>5 DEF VehicleFrom
    <3> QED
      BY <2>10, <3>1, <3>2, <3>3, <3>6, <3>7 DEF Remembers, Vehicle
  <2> QED
    BY <2>5, <2>8, <2>9, <2>10 DEF TellsOn
<1> QED
  BY <1>1, <1>2

\* After its own step a request has something to remember only if it has just read
\* its account under the lock.
LEMMA OwnRemembers ==
    ASSUME IInv, AInv, NEW r \in Requests,
           Ask(r) \/ LockAdminCardinality(r) \/ ReadAccount(r) \/ Writes(r), TellsOn(r)
    PROVE  Remembers(r)'
<1>0. /\ request[r] \in Locals /\ request \in [Requests -> Locals] /\ Knows(r)
  BY DEF IInv, Types, RequestsKnow
<1>1. CASE Ask(r)
  <2>1. ~(request'[r].pc = "write" /\ request'[r].op \in {"access", "disable", "enable"})
    BY <1>1, AskGoes DEF Begun, Counting, Locking
  <2> QED
    BY <2>1 DEF Remembers
<1>2. CASE LockAdminCardinality(r)
  <2> DEFINE pc == IF request[r].op = "createAdmin" THEN "write" ELSE "read"
  <2>1. request'[r].pc = pc /\ request'[r].op = request[r].op
    BY <1>0, <1>2 DEF LockAdminCardinality, Locals
  <2> QED
    BY <2>1 DEF Remembers
<1>3. CASE ReadAccount(r)
  <2>1. CASE Refused(r)
    <3>1. request'[r].pc = "done"
      BY <1>3, <2>1, ServedGoes DEF ReadAccount
    <3> QED
      BY <3>1 DEF Remembers
  <2>2. CASE ~Refused(r)
    <3>1. PICK u \in Users : u = request[r].target
      BY <1>0, <1>3 DEF ReadAccount, Knows, Locking
    <3> DEFINE q == [request[r] EXCEPT !.pc = "write", !.seen = user[u]]
    <3>2. q.target = u /\ q.seen = user[u]
      BY <1>0, <3>1 DEF Locals
    <3>3. request' = [request EXCEPT ![r] = q] /\ user' = user
      BY <1>0, <1>3, <2>2, <3>1 DEF ReadAccount
    <3> HIDE DEF q
    <3>4. request'[r] = q
      BY <1>0, <3>3
    <3>5. Exists(u)'
      BY <2>2, <3>1, <3>3 DEF Refused, Exists
    <3>6. VehicleFrom(u, Changes(VehicleKinds, u)', Deletions', Vehicle(user'[u]))
      BY <3>5 DEF TellsOn, AccountTells, VehicleFrom, Vehicle
    <3> QED
      BY <3>2, <3>3, <3>4, <3>6 DEF Remembers, VehicleFrom, Vehicle
  <2> QED
    BY <2>1, <2>2
<1>4. CASE Writes(r)
  <2>1. ~Counting(r)'
    BY <1>4, WriteGoes
  <2> QED
    BY <2>1 DEF Remembers, Counting, Locking
<1> QED
  BY <1>1, <1>2, <1>3, <1>4

LEMMA AuditStep == ASSUME IInv, AInv, [Next]_vars PROVE AInv'
<1>1. CASE UNCHANGED vars
  <2>1. Records(Nobody, <<>>) /\ request' = request
    BY <1>1, NothingRecorded DEF vars
  <2> QED
    BY <2>1, RecordsTell, AdministrationAssumption DEF AInv, TellsOn
<1>2. CASE Operator
  <2>1. Records(Nobody, <<>>) /\ request' = request
    BY <1>2, OperatorTells DEF Operator, OperatorCreates, ImportGeofence
  <2> QED
    BY <2>1, RecordsTell, AdministrationAssumption DEF AInv, TellsOn
<1>3. ASSUME NEW r \in Requests, Ask(r) \/ LockAdminCardinality(r) \/ ReadAccount(r) \/ Writes(r)
      PROVE  AInv'
  <2>1. TellsOn(r)
    <3>1. CASE Ask(r) \/ LockAdminCardinality(r) \/ ReadAccount(r) \/ Login(r)
      <4>1. UNCHANGED <<user, settings, audit>>
        BY <3>1 DEF Ask, Begin, AskAdministration, AskDeletion, AskWithPassword, Logout, LoadSettings,
                    PatchSettings, LockAdminCardinality, ReadAccount, Login
      <4> QED
        BY <4>1, NothingRecorded, RecordsTell
    <3>2. CASE Writes(r) /\ ~Login(r) /\ ~DeleteGroup(r)
      BY <3>2, PasswordTells, UpdateTells, DisablingTells, CreateTells, SaveTells, RecordsTell DEF Writes
    <3>3. CASE DeleteGroup(r)
      BY <3>3, DeleteTells
    <3> QED
      BY <1>3, <3>1, <3>2, <3>3
  <2>2. Remembers(r)'
    BY <1>3, <2>1, OwnRemembers
  <2>3. \A o \in Requests : o # r => request'[o] = request[o]
    <3>1. \E q : Goes(r, q)
      BY <1>3, AccountsStep, RequestsStep DEF Next, Serve, Writes
    <3> QED
      BY <3>1 DEF Goes, IInv, Types
  <2> QED
    BY <2>1, <2>2, <2>3 DEF AInv, TellsOn
<1> QED
  BY <1>1, <1>2, <1>3, StepOfOne

LEMMA AuditInit == Init => AInv
<1> SUFFICES ASSUME Init PROVE AInv
  OBVIOUS
<1>1. audit = <<>> /\ DOMAIN <<>> = {} /\ <<>> \in Seq(Events)
  BY DEF Init
<1>2. \A kinds, u : Places(kinds, u) = {}
  BY <1>1 DEF Places
<1>3. \A kinds, u : Changes(kinds, u) = {} /\ Switches(u) = {}
  BY <1>2 DEF Changes, Switches
<1>4. \A x, cuts : Leads({}, cuts, x, x)
  BY DEF Leads, Follows
<1>5. ASSUME NEW u \in Users PROVE IF Exists(u) THEN AccountTells(u) ELSE Unheard(u)
  <2>1. CASE u \in Admins
    <3>1. user[u] = Account(Administrator, FALSE, 1)
      BY <2>1 DEF Init
    <3>2. /\ user[u].role = Administrator.role /\ user[u].permissions = Administrator.permissions
          /\ user[u].mode = Administrator.mode /\ user[u].groups = Administrator.groups
          /\ user[u].disabled = FALSE
      BY <3>1 DEF Account
    <3>3. /\ Functional(user[u]) = Functional(Administrator) /\ Vehicle(user[u]) = Vehicle(Administrator)
          /\ Switched(u) = "USER_ENABLED"
      BY <3>2 DEF Functional, Vehicle, Switched
    <3>4. AccountTells(u)
      BY <1>3, <1>4, <2>1, <3>3
         DEF AccountTells, FunctionalFrom, VehicleFrom, FirstFunctional, FirstVehicle
    <3>5. Exists(u)
      BY <3>2, AbsentRow DEF Exists, Administrator, Access
    <3> QED
      BY <3>4, <3>5
  <2>2. CASE u \notin Admins
    <3>1. ~Exists(u)
      BY <2>2 DEF Init, Exists
    <3> QED
      BY <1>2, <2>2, <3>1 DEF Unheard
  <2> QED
    BY <2>1, <2>2
<1>6. ASSUME NEW field \in Fields PROVE FieldTells(field)
  <2>1. settings.fields[field] \in Values
    BY DEF Init
  <2> QED
    BY <1>3, <1>4, <2>1 DEF FieldTells, FieldFrom
<1>7. \A r \in Requests : Remembers(r)
  BY DEF Init, Remembers, New
<1> QED
  BY <1>1, <1>5, <1>6, <1>7 DEF AInv

\* The audit trail tells the state, as far as its rows go, whatever requests,
\* deletions and scripts overlap: a row is written by the transaction that makes
\* the change, and what it names as previous was read under the lock, or under
\* the revision the write compares.
THEOREM TheTrailTells == Spec => []AuditTells
<1>1. AInv => AuditTells
  BY AuditSuffices
<1>2. IInv /\ AInv /\ [Next]_vars => AInv'
  BY AuditStep
<1> QED
  BY <1>1, <1>2, AuditInit, Invariance, PTL DEF Spec
=============================================================================
