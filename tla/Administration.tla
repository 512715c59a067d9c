----------------------------- MODULE Administration -----------------------------
(***************************************************************************)
(* Accounts, sessions and settings, as concurrent requests change them,    *)
(* and the operator's scripts beside them.                                 *)
(* A request authenticates once and then works with what it has read, so   *)
(* its account may have been disabled, demoted or given another password   *)
(* before its transaction commits.                                         *)
(* Sources: auth (auth.service, admin-users.service, the guards,           *)
(* auth-user-create), vehicle-groups, admin-settings, city-geofence and    *)
(* audit.                                                                  *)
(*                                                                         *)
(* Transactions run under READ COMMITTED: a statement sees what is         *)
(* committed, a written row is locked until its transaction ends.  What a  *)
(* transaction does from its first write on is one step.  A password is a  *)
(* number: its material is salted, and never comes twice.                  *)
(***************************************************************************)
EXTENDS Integers, Sequences, FiniteSets

CONSTANTS
    Requests,     \* requests, each served once
    Nobody,       \* no request
    Users,        \* accounts, those to be created included
    Admins,       \* enabled administrators at the start
    Permissions,  \* the permissions of an account, as one value
    AllPermissions, \* those of an administrator
    Groups,       \* vehicle groups
    Asked,        \* bound: the accesses administrators ask for
    Fields,       \* fields of the application settings
    Geofence,     \* cityGeofenceGeoJson
    Values,       \* values of a field
    Summary(_),   \* the rings and points of a geofence
    MaxImports    \* bound: imports of the geofence

\* Direct grants of a vehicle are left out: only create and updateAccess write them.
Access(role, permissions, mode, granted) ==
    [role |-> role, permissions |-> permissions, mode |-> mode, groups |-> granted]

\* What role, permissions and vehicleAccess let through.
Administrator == Access("ADMIN", AllPermissions, "ALL", {})
Accesses ==
    {Administrator}
      \union {Access("USER", p, "ALL", {}) : p \in Permissions}
      \union {Access("USER", p, "SELECTED", granted) : p \in Permissions, granted \in SUBSET Groups}

ASSUME AdministrationAssumption ==
    /\ Nobody \notin Requests \union Users /\ IsFiniteSet(Users) /\ IsFiniteSet(Groups)
    /\ Admins # {} /\ Admins \subseteq Users
    /\ AllPermissions \in Permissions /\ Asked \subseteq Accesses
    /\ Values # {} /\ Geofence \in Fields /\ MaxImports \in Nat

VARIABLES
    user,      \* the auth_users rows, their permissions and group grants
    sessions,  \* the auth_sessions rows
    issued,    \* passwords made so far
    temporary, \* those an administrator was shown
    groups,    \* the vehicle_groups rows
    settings,  \* the application_settings row; history: the imports so far
    audit,     \* the audit_events rows, by commit
    lock,      \* who holds ADMIN_CARDINALITY_ADVISORY_LOCK_KEY
    request    \* where each request is and what its locals hold

vars == <<user, sessions, issued, temporary, groups, settings, audit, lock, request>>
passwords == <<issued, temporary>>

Account(access, mustChange, password) ==
    [role |-> access.role, permissions |-> access.permissions, mode |-> access.mode,
     groups |-> access.groups, disabled |-> FALSE, mustChange |-> mustChange,
     password |-> password]

NoAccess == Access("NONE", AllPermissions, "ALL", {})
Absent == Account(NoAccess, FALSE, 0)
Exists(u) == user[u] # Absent

NoSettings == [revision |-> 0, imports |-> 0, fields |-> <<>>]

New == [pc |-> "new", op |-> "none", actor |-> Nobody, target |-> Nobody, access |-> NoAccess,
        seen |-> Absent, loaded |-> NoSettings, current |-> NoSettings, patch |-> <<>>]

Init ==
    /\ user = [u \in Users |-> IF u \in Admins THEN Account(Administrator, FALSE, 1) ELSE Absent]
    /\ sessions = {[user |-> u, password |-> 1, by |-> Nobody] : u \in Admins}
    /\ issued = 1
    /\ temporary = {}
    /\ \E value \in Values :
         settings = [revision |-> 1, imports |-> 0, fields |-> [f \in Fields |-> value]]
    /\ groups = Groups
    /\ audit = <<>>
    /\ lock = Nobody
    /\ request = [r \in Requests |-> New]

Unlocked(r) == IF lock = r THEN Nobody ELSE lock

\* The request is answered, and the advisory lock goes with its transaction.
Served(r) ==
    /\ request' = [request EXCEPT ![r] = [New EXCEPT !.pc = "done"]]
    /\ lock' = Unlocked(r)

\* A row of the trail: what it is about, and what it names of before and after.
Event(kind, about, previous, next) ==
    [kind |-> kind, about |-> about, previous |-> previous, next |-> next]
Nothing == 0

\* What the rows about role and permissions, and those about vehicle access, show.
Functional(row) == [role |-> row.role, permissions |-> row.permissions]
Vehicle(row) == [mode |-> row.mode, count |-> Cardinality(row.groups)]
NoVehicle == [mode |-> "NONE", count |-> 0]

AccessOf(row) == Access(row.role, row.permissions, row.mode, row.groups)
-----------------------------------------------------------------------------
(* The guards, and the kinds of requests.                                   *)

\* authenticate: a session of an account that is not disabled.
Authenticated(u) == \E s \in sessions : s.user = u /\ ~user[u].disabled

\* AdminOnly, and no pending change of the password.
Authorized(u) == Authenticated(u) /\ user[u].role = "ADMIN" /\ ~user[u].mustChange

\* Mutant: the advisory lock is not taken.
BeginsUnlocked(r, pc, op, actor, target, access) ==
    request' = [request EXCEPT ![r] = [New EXCEPT !.pc = IF pc = "lock" THEN "read" ELSE pc,
                                                  !.op = op, !.actor = actor,
                                                  !.target = target, !.access = access]]

Begins(r, pc, op, actor, target, access) ==
    request' = [request EXCEPT ![r] = [New EXCEPT !.pc = pc, !.op = op, !.actor = actor,
                                                  !.target = target, !.access = access]]

\* What needs the number of administrators takes the advisory lock first.
Locking == {"access", "disable", "enable", "createAdmin"}

\* disable and resetPassword refuse the actor's own account at once; updateAccess
\* alone looks at its actor again.
AskAdministration(r, a, op, u, access) ==
    /\ request[r].pc = "new" /\ Authorized(a)
    /\ op \in {"disable", "reset"} => u # a
    /\ op = "createAdmin" => access.role = "ADMIN"
    /\ op = "createUser" => access.role = "USER"
    /\ op \in {"disable", "enable", "reset"} => access = NoAccess
    /\ op \in {"access", "createAdmin", "createUser"} => access # NoAccess
    /\ Begins(r, IF op \in Locking THEN "lock" ELSE "write", op,
              IF op = "access" THEN a ELSE Nobody, u, access)
    /\ UNCHANGED <<user, sessions, passwords, groups, settings, audit, lock>>

AskDeletion(r, a, g) ==
    /\ request[r].pc = "new" /\ Authorized(a)
    /\ Begins(r, "write", "deleteGroup", Nobody, g, NoAccess)
    /\ UNCHANGED <<user, sessions, passwords, groups, settings, audit, lock>>

\* login and changePassword read the row and verify the supplied password.
AskWithPassword(r, op, u, supplied) ==
    /\ request[r].pc = "new" /\ supplied \in 1..issued
    /\ op = "change" => Authenticated(u)
    /\ IF user[u].password = supplied /\ ~user[u].disabled
       THEN request' = [request EXCEPT ![r] = [New EXCEPT !.pc = "write", !.op = op,
                                                          !.target = u, !.seen = user[u]]]
       ELSE request' = [request EXCEPT ![r] = [New EXCEPT !.pc = "done"]]
    /\ UNCHANGED <<user, sessions, passwords, groups, settings, audit, lock>>

Logout(r, s) ==
    /\ request[r].pc = "new" /\ s \in sessions /\ ~user[s.user].disabled
    /\ sessions' = sessions \ {s}
    /\ Served(r)
    /\ UNCHANGED <<user, passwords, groups, settings, audit>>
-----------------------------------------------------------------------------
(* Passwords and sessions.                                                  *)

\* Mutant: a disabling meanwhile goes unnoticed.
StillPassword(r) == user[request[r].target].password = request[r].seen.password

\* The row still has the password that was verified, and is not disabled.
StillVerified(r) ==
    user[request[r].target].password = request[r].seen.password /\ ~user[request[r].target].disabled

Login(r) ==
    LET u == request[r].target IN
    /\ request[r].pc = "write" /\ request[r].op = "login"
    /\ sessions' = IF StillVerified(r)
                   THEN sessions \union {[user |-> u, password |-> user[u].password, by |-> r]}
                   ELSE sessions
    /\ Served(r)
    /\ UNCHANGED <<user, passwords, groups, settings, audit>>

\* A password of its own ends every other session.
SessionsOfOthers(u) == {s \in sessions : s.user # u}

\* Mutant: the flag is cleared before the passwords are compared.
ClearThenChange(r) ==
    LET u == request[r].target IN
    /\ request[r].pc = "write" /\ request[r].op = "change"
    /\ user' = [user EXCEPT ![u].mustChange = FALSE]
    /\ Served(r)
    /\ UNCHANGED <<sessions, passwords, groups, settings, audit>>

ChangePassword(r) ==
    LET u == request[r].target IN
    /\ request[r].pc = "write" /\ request[r].op = "change"
    /\ IF StillVerified(r)
       THEN /\ issued' = issued + 1
            /\ user' = [user EXCEPT ![u].password = issued', ![u].mustChange = FALSE]
            /\ sessions' = SessionsOfOthers(u) \union {[user |-> u, password |-> issued', by |-> r]}
            /\ audit' = Append(audit, Event("OWN_PASSWORD_CHANGED", u, Nothing, Nothing))
       ELSE UNCHANGED <<user, sessions, issued, audit>>
    /\ Served(r)
    /\ UNCHANGED <<temporary, groups, settings>>

ResetPassword(r) ==
    LET u == request[r].target IN
    /\ request[r].pc = "write" /\ request[r].op = "reset"
    /\ IF Exists(u)
       THEN /\ issued' = issued + 1
            /\ temporary' = temporary \union {issued'}
            /\ user' = [user EXCEPT ![u].password = issued', ![u].mustChange = TRUE]
            /\ sessions' = SessionsOfOthers(u)
            /\ audit' = Append(audit, Event("USER_PASSWORD_RESET", u, Nothing, Nothing))
       ELSE UNCHANGED <<user, sessions, passwords, audit>>
    /\ Served(r)
    /\ UNCHANGED <<groups, settings>>
-----------------------------------------------------------------------------
(* Accounts.                                                                *)

LockAdminCardinality(r) ==
    /\ request[r].pc = "lock" /\ lock = Nobody
    /\ lock' = r
    /\ request' = [request EXCEPT ![r].pc = IF request[r].op = "createAdmin" THEN "write" ELSE "read"]
    /\ UNCHANGED <<user, sessions, passwords, groups, settings, audit>>

EnabledAdmins == {u \in Users : user[u].role = "ADMIN" /\ ~user[u].disabled}

\* An enabled administrator other than the last one may be disabled or demoted.
LastAdmin(u) == u \in EnabledAdmins /\ Cardinality(EnabledAdmins) <= 1

\* What updateAccess and disable refuse after reading the row.
Refused(r) ==
    LET q == request[r] IN
    \/ ~Exists(q.target)
    \/ /\ q.op = "access" /\ q.access.role = "USER"
       /\ LastAdmin(q.target) \/ (q.actor = q.target /\ user[q.target].role = "ADMIN")
    \/ q.op = "access" /\ q.access = AccessOf(user[q.target])
    \/ q.op = "disable" /\ LastAdmin(q.target)

\* Under the advisory lock: the row and the number of administrators.
ReadAccount(r) ==
    /\ request[r].pc = "read"
    /\ IF Refused(r) THEN Served(r)
       ELSE /\ request' = [request EXCEPT ![r].pc = "write", ![r].seen = user[request[r].target]]
            /\ UNCHANGED lock
    /\ UNCHANGED <<user, sessions, passwords, groups, settings, audit>>

\* A row on role and permissions and one on vehicle access, each if that differs
\* from what was read.
AccessRows(u, seen, next) ==
    (IF Functional(seen) = Functional(next) THEN <<>>
     ELSE <<Event("USER_ACCESS_CHANGED", u, Functional(seen), Functional(next))>>)
    \o (IF seen.mode = next.mode /\ seen.groups = next.groups THEN <<>>
        ELSE <<Event("USER_VEHICLE_ACCESS_CHANGED", u, Vehicle(seen), Vehicle(next))>>)

\* Refused when a group that is asked for is gone.
UpdateAccess(r) ==
    LET u == request[r].target
        next == request[r].access IN
    /\ request[r].pc = "write" /\ request[r].op = "access"
    /\ IF next.groups \subseteq groups
       THEN /\ user' = [user EXCEPT ![u] = [@ EXCEPT !.role = next.role,
                                                     !.permissions = next.permissions,
                                                     !.mode = next.mode, !.groups = next.groups]]
            /\ audit' = audit \o AccessRows(u, request[r].seen, next)
       ELSE UNCHANGED <<user, audit>>
    /\ Served(r)
    /\ UNCHANGED <<sessions, passwords, groups, settings>>

\* disable ends the sessions of a disabled account as well.
Disable(r) ==
    LET u == request[r].target IN
    /\ request[r].pc = "write" /\ request[r].op = "disable"
    /\ user' = [user EXCEPT ![u].disabled = TRUE]
    /\ sessions' = SessionsOfOthers(u)
    /\ audit' = IF request[r].seen.disabled THEN audit
                ELSE Append(audit, Event("USER_DISABLED", u, Nothing, Nothing))
    /\ Served(r)
    /\ UNCHANGED <<passwords, groups, settings>>

Enable(r) ==
    LET u == request[r].target IN
    /\ request[r].pc = "write" /\ request[r].op = "enable"
    /\ IF request[r].seen.disabled
       THEN /\ user' = [user EXCEPT ![u].disabled = FALSE]
            /\ audit' = Append(audit, Event("USER_ENABLED", u, Nothing, Nothing))
       ELSE UNCHANGED <<user, audit>>
    /\ Served(r)
    /\ UNCHANGED <<sessions, passwords, groups, settings>>

CreationRows(u, access) ==
    <<Event("USER_CREATED", u, Functional(NoAccess), Functional(access))>>
    \o (IF access.role = "ADMIN" THEN <<>>
        ELSE <<Event("USER_VEHICLE_ACCESS_CHANGED", u, NoVehicle, Vehicle(access))>>)

\* Mutant: the events are written although the login is taken.
CreateUserAudited(r) ==
    LET u == request[r].target IN
    /\ request[r].pc = "write" /\ request[r].op \in {"createUser", "createAdmin"}
    /\ audit' = audit \o CreationRows(u, request[r].access)
    /\ Served(r)
    /\ UNCHANGED <<user, sessions, passwords, groups, settings>>

\* The login is unique, and the groups asked for must be there.
CreateUser(r) ==
    LET u == request[r].target
        access == request[r].access IN
    /\ request[r].pc = "write" /\ request[r].op \in {"createUser", "createAdmin"}
    /\ IF Exists(u) \/ ~(access.groups \subseteq groups)
       THEN UNCHANGED <<user, passwords, audit>>
       ELSE /\ issued' = issued + 1
            /\ temporary' = temporary \union {issued'}
            /\ user' = [user EXCEPT ![u] = Account(access, TRUE, issued')]
            /\ audit' = audit \o CreationRows(u, access)
    /\ Served(r)
    /\ UNCHANGED <<sessions, groups, settings>>

\* createAuthUser: the operator's script knows no administrator and no trail.
OperatorCreates(u, access) ==
    /\ ~Exists(u) /\ access.mode = "ALL"
    /\ issued' = issued + 1
    /\ user' = [user EXCEPT ![u] = Account(access, FALSE, issued')]
    /\ UNCHANGED <<sessions, temporary, groups, settings, audit, lock, request>>

\* Every account's grant goes with the group; the row is about the group alone.
DeleteGroup(r) ==
    LET g == request[r].target IN
    /\ request[r].pc = "write" /\ request[r].op = "deleteGroup"
    /\ IF g \in groups
       THEN /\ groups' = groups \ {g}
            /\ user' = [u \in Users |-> [user[u] EXCEPT !.groups = @ \ {g}]]
            /\ audit' = Append(audit, Event("VEHICLE_GROUP_DELETED", g, Nothing, Nothing))
       ELSE UNCHANGED <<groups, user, audit>>
    /\ Served(r)
    /\ UNCHANGED <<sessions, passwords, settings>>
-----------------------------------------------------------------------------
(* Settings: what the form was loaded with, then the patch.                 *)

LoadSettings(r, a) ==
    /\ request[r].pc = "new" /\ Authorized(a)
    /\ request' = [request EXCEPT ![r] = [New EXCEPT !.pc = "edit", !.actor = a, !.loaded = settings]]
    /\ UNCHANGED <<user, sessions, passwords, groups, settings, audit, lock>>

\* Another request, authorized again; its transaction reads the current row.
PatchSettings(r, field, value) ==
    /\ request[r].pc = "edit" /\ Authorized(request[r].actor)
    /\ request' = [request EXCEPT ![r].pc = "save", ![r].current = settings,
                                  ![r].patch = [field |-> field, value |-> value]]
    /\ UNCHANGED <<user, sessions, passwords, groups, settings, audit, lock>>

\* validateMerged
Merged(fields, patch) == [fields EXCEPT ![patch.field] = patch.value]

\* The settings trail shows the field that changes, and of a geofence only what
\* its summary tells.
Shown(field, value) == IF field = Geofence THEN Summary(value) ELSE value

ChangeRow(q) ==
    Event("SETTINGS_UPDATED", q.patch.field,
          Shown(q.patch.field, q.current.fields[q.patch.field]),
          Shown(q.patch.field, q.patch.value))

\* Mutant: the revision is compared with the row that was read, not in the write.
SaveWhatWasRead(r) ==
    LET q == request[r]
        next == Merged(q.current.fields, q.patch) IN
    /\ q.pc = "save"
    /\ IF next = q.current.fields \/ q.current.revision # q.loaded.revision
       THEN UNCHANGED <<settings, audit>>
       ELSE /\ settings' = [settings EXCEPT !.revision = @ + 1, !.fields = next]
            /\ audit' = Append(audit, ChangeRow(q))
    /\ Served(r)
    /\ UNCHANGED <<user, sessions, passwords, groups>>

\* No change is accepted at once; a change only at the revision of the form, and
\* then every field is written as it was read, but the one that is patched.
SaveSettings(r) ==
    LET q == request[r]
        next == Merged(q.current.fields, q.patch) IN
    /\ q.pc = "save"
    /\ IF next = q.current.fields \/ settings.revision # q.loaded.revision
       THEN UNCHANGED <<settings, audit>>
       ELSE /\ settings' = [settings EXCEPT !.revision = @ + 1, !.fields = next]
            /\ audit' = Append(audit, ChangeRow(q))
    /\ Served(r)
    /\ UNCHANGED <<user, sessions, passwords, groups>>

\* replaceSingletonPolygon: the operator's script writes the geofence alone,
\* and neither moves the revision nor leaves a row.  An import of the polygon
\* that is there changes nothing and is left out.
ImportGeofence(value) ==
    /\ settings.imports < MaxImports /\ value # settings.fields[Geofence]
    /\ settings' = [settings EXCEPT !.imports = @ + 1, !.fields[Geofence] = value]
    /\ UNCHANGED <<user, sessions, passwords, groups, audit, lock, request>>
-----------------------------------------------------------------------------
\* What a request may begin with.
Begin(r) ==
    \/ \E a, u \in Users, access \in Asked \union {NoAccess},
          op \in Locking \union {"reset", "createUser"} : AskAdministration(r, a, op, u, access)
    \/ \E a \in Users, g \in Groups : AskDeletion(r, a, g)
    \/ \E op \in {"login", "change"}, u \in Users, supplied \in 1..issued :
         AskWithPassword(r, op, u, supplied)
    \/ \E s \in sessions : Logout(r, s)
    \/ \E a \in Users : LoadSettings(r, a)

Ask(r) ==
    \/ request[r].pc = "new" /\ Begin(r)
    \/ \E field \in Fields, value \in Values : PatchSettings(r, field, value)

Serve(r) ==
    \/ Ask(r)
    \/ Login(r) \/ ChangePassword(r) \/ ResetPassword(r)
    \/ LockAdminCardinality(r) \/ ReadAccount(r)
    \/ UpdateAccess(r) \/ Disable(r) \/ Enable(r) \/ CreateUser(r) \/ DeleteGroup(r)
    \/ SaveSettings(r)

\* The operator's scripts.
Operator ==
    \/ \E u \in Users, access \in Asked : OperatorCreates(u, access)
    \/ \E value \in Values : ImportGeofence(value)

Next == Operator \/ \E r \in Requests : Serve(r)

Spec == Init /\ [][Next]_vars
-----------------------------------------------------------------------------
(* Properties.                                                              *)

\* The rows and the locals have their types.
TypeOK ==
    /\ \A u \in Users : user[u] \in
         {Absent} \union [role : {"ADMIN", "USER"}, permissions : Permissions,
                          mode : {"ALL", "SELECTED"}, groups : SUBSET Groups, disabled : BOOLEAN,
                          mustChange : BOOLEAN, password : 1..issued]
    /\ \A s \in sessions : Exists(s.user) /\ s.password \in 1..issued
    /\ temporary \subseteq 1..issued
    /\ groups \subseteq Groups /\ settings.fields \in [Fields -> Values]
    /\ lock \in Requests \union {Nobody}
    /\ \A r \in Requests : request[r].pc \in {"new", "lock", "read", "write", "edit", "save", "done"}

\* An enabled administrator is left, whatever administrators do to each other
\* at the same time.
SomeAdmin == EnabledAdmins # {}

\* A session was opened with the password its account has now, and no session
\* is left of a disabled account: also when a login, a reset and a disabling
\* overlap.
SessionsAreCurrent ==
    \A s \in sessions : s.password = user[s.user].password /\ ~user[s.user].disabled

\* Who still has a password an administrator has seen must change it, also when
\* the owner's change and a reset overlap.
TemporaryMustChange ==
    \A u \in Users : user[u].password \in temporary => user[u].mustChange

\* Of vehicle access a deletion of a group takes grants away without a row of its own.
Follows(before, after, deletions) ==
    \/ after = before
    \/ deletions # {} /\ after.mode = before.mode /\ after.count < before.count

\* Rows that lead from first to last: each is where the one before it left off,
\* but for the deletions between them.
Leads(rows, deletions, first, last) ==
    /\ rows = {} => Follows(first, last, deletions)
    /\ \A e \in rows : (\A f \in rows : e.at <= f.at) =>
           Follows(first, e.previous, {d \in deletions : d < e.at})
    /\ \A e, f \in rows :
         e.at < f.at /\ (\A g \in rows : g.at <= e.at \/ f.at <= g.at) =>
             Follows(e.next, f.previous, {d \in deletions : e.at < d /\ d < f.at})
    /\ \A e \in rows : (\A f \in rows : f.at <= e.at) =>
           Follows(e.next, last, {d \in deletions : e.at < d})

\* The audit rows of these kinds about u.
Places(kinds, u) == {i \in DOMAIN audit : audit[i].kind \in kinds /\ audit[i].about = u}

Changes(kinds, u) ==
    {[at |-> i, previous |-> audit[i].previous, next |-> audit[i].next] : i \in Places(kinds, u)}

Deletions == {i \in DOMAIN audit : audit[i].kind = "VEHICLE_GROUP_DELETED"}

\* A disabling says that the account was enabled before, and the reverse.
Opposite(kind) == IF kind = "USER_DISABLED" THEN "USER_ENABLED" ELSE "USER_DISABLED"
Switches(u) ==
    {[at |-> i, previous |-> Opposite(audit[i].kind), next |-> audit[i].kind] :
        i \in Places({"USER_DISABLED", "USER_ENABLED"}, u)}

Switched(u) == IF user[u].disabled THEN "USER_DISABLED" ELSE "USER_ENABLED"

\* Where the rows about an account begin: at its first access, or at none if an
\* administrator created it.
FirstFunctional(u) ==
    IF u \in Admins THEN {Functional(Administrator)}
    ELSE {Functional(access) : access \in Asked \union {NoAccess}}

FirstVehicle(u) ==
    IF u \in Admins THEN {Vehicle(Administrator)} ELSE {NoVehicle, Vehicle(NoAccess)}

FunctionalLeadsTo(u, last) ==
    \E first \in FirstFunctional(u) :
        Leads(Changes({"USER_CREATED", "USER_ACCESS_CHANGED"}, u), {}, first, last)

VehicleLeadsTo(u, last) ==
    \E first \in FirstVehicle(u) :
        Leads(Changes({"USER_VEHICLE_ACCESS_CHANGED"}, u), Deletions, first, last)

FieldLeadsTo(field, last) ==
    \E first \in Values :
        Leads(Changes({"SETTINGS_UPDATED"}, field), {}, Shown(field, first), Shown(field, last))

\* The audit trail tells the state, as far as its rows go: one after the other
\* they lead from the first role and permissions of every account to the present
\* ones, from its first vehicle access to the present mode and number of groups,
\* from enabled to whether it is disabled now, and from the first to the present
\* value of every setting.  What a row names as previous is what the row before
\* it left; only the deletion of a group, which has a row of its own, takes
\* grants away in between, and only an import takes the geofence out of the trail.
AuditTells ==
    /\ \A u \in Users : Exists(u) =>
         /\ FunctionalLeadsTo(u, Functional(user[u]))
         /\ VehicleLeadsTo(u, Vehicle(user[u]))
         /\ Leads(Switches(u), {}, "USER_ENABLED", Switched(u))
    /\ \A field \in Fields :
         FieldLeadsTo(field, settings.fields[field]) \/ (field = Geofence /\ settings.imports > 0)

\* The form that is saved showed the fields as they are now, the geofence too
\* unless it was imported since; and the save changes no field but the one it
\* patches, unless it puts back a geofence imported after its transaction read it.
SavedAsSeen(r) ==
    LET form == request[r].loaded
        read == request[r].current
        patched == request[r].patch.field IN
    /\ request[r].pc = "save" /\ request'[r].pc = "done"
    /\ \A field \in Fields \ {Geofence} : form.fields[field] = settings.fields[field]
    /\ form.imports = settings.imports => form = settings
    /\ \A field \in Fields \ {patched} :
         \/ settings'.fields[field] = settings.fields[field]
         \/ field = Geofence /\ read.imports < settings.imports

\* A save overwrites nothing its editor has not seen, whoever saves between the
\* load of the form, the read and the write; only the operator's import, which
\* the revision does not tell of, can be overwritten.
NothingUnseenOverwritten ==
    [][settings' # settings =>
         settings'.imports > settings.imports \/ \E r \in Requests : SavedAsSeen(r)]_vars
=============================================================================
