----------------------------- MODULE Catalogue -----------------------------
(***************************************************************************)
(* The permission catalogue: the tables of modules/permission and          *)
(* modules/role, written by SeedAdmin on every boot of every instance and  *)
(* by the administrators' endpoints.                                       *)
(*                                                                         *)
(* Names are UNIQUE over all rows of a table, soft-deleted ones included,  *)
(* while every lookup sees only the rows that are not deleted.  gorm runs  *)
(* without transactions (SkipDefaultTransaction), so an action contains    *)
(* one statement, and an instance may die between any two of them.  Two    *)
(* groups of statements are one action: a lookup with its Preload          *)
(* (Preloaded), and a role's Save, the row and then its preloaded links    *)
(* (RoleSave), which only shortens the time between lookup and links.      *)
(***************************************************************************)
EXTENDS Integers, FiniteSets

CONSTANTS
    Instances,      \* processes that boot from the same database
    Requests,       \* administrators' requests that may be in flight together
    All,            \* permission.All
    Basic,          \* the permissions of the USER role
    NewNames,       \* further names that administrators may use
    Endpoints,      \* the endpoints that administrators call
    MaxPerms,       \* bound: rows of permissions
    MaxRoles,       \* bound: rows of roles
    MaxCrashes,     \* bound: instances that die
    MaxCalls        \* bound: requests of administrators

SeedRoles == {"ADMIN", "USER"}

ASSUME CatalogueAssumption ==
    /\ All # {} /\ Basic \subseteq All
    /\ NewNames \cap (All \cup SeedRoles) = {}
    /\ MaxPerms \in Nat /\ MaxRoles \in Nat
    /\ MaxCrashes \in Nat /\ MaxCalls \in Nat

VARIABLES
    perm,           \* permissions, a function on the ids handed out
    role,           \* roles with their role_permissions
    admin,          \* the users row of the bootstrap administrator
    member,         \* the users row of somebody who registers
    inst,           \* the local variables of each instance in SeedAdmin
    req,            \* the local variables of each administrator's request
    crashes,        \* how many instances have died
    calls,          \* how many requests administrators have made
    due,            \* history: the permissions last assigned to a role
    kept,           \* history: role permissions that a lost or stale write left behind
    torn,           \* history: an instance died while it wrote the administrator
    bare,           \* history: an account was made without a role
    touched         \* history: administrators have changed a seeded row

vars == <<perm, role, admin, member, inst, req, crashes, calls, due, kept, torn, bare, touched>>

PermIDs == 1..MaxPerms
RoleIDs == 1..MaxRoles
PermNames == All \cup NewNames
RoleNames == SeedRoles \cup NewNames

\* The wanted permissions of a seeded role.
Wanted(n) == IF n = "ADMIN" THEN All ELSE Basic

PermRow == [name : PermNames, deleted : BOOLEAN]
RoleRow == [name : RoleNames, deleted : BOOLEAN, perms : SUBSET PermIDs]
UserRow == [state : {"absent", "live", "deleted"}, roles : SUBSET RoleIDs]
BootSteps == {"down", "failed", "perm", "permCreate", "role", "roleCreate", "resolve", "link",
              "unlink", "user", "adminRole", "userCreate", "userRelink", "userLink", "serving"}
Instance == [pc : BootSteps, todo : SUBSET All, name : RoleNames \cup PermNames,
             id : 0..MaxRoles, perms : SUBSET PermIDs]
ReqSteps == {"idle", "roleInsert", "roleSave", "roleDelete", "assignResolve", "link", "unlink",
             "permInsert", "permSave", "permDelete", "regRole", "regInsert", "regRelink", "regLink"}
Request == [pc : ReqSteps, id : 0..(MaxPerms + MaxRoles), name : RoleNames \cup PermNames,
            names : SUBSET PermNames, perms : SUBSET PermIDs]

Down == [pc |-> "down", todo |-> {}, name |-> "ADMIN", id |-> 0, perms |-> {}]
Idle == [pc |-> "idle", id |-> 0, name |-> "ADMIN", names |-> {}, perms |-> {}]

-----------------------------------------------------------------------------
(* The tables *)

\* GetByName, GetByID and FindAllByNames do not see soft-deleted rows.
Live(table, k) == k \in DOMAIN table /\ ~table[k].deleted
Named(table, names) == {k \in DOMAIN table : Live(table, k) /\ table[k].name \in names}

FreeAmongLive(table, n, id) ==
    \A k \in DOMAIN table : Live(table, k) /\ table[k].name = n => k = id

\* The UNIQUE index does; id is the row that may keep its name.
NameFree(table, n, id) == \A k \in DOMAIN table : table[k].name = n => k = id

Put(table, k, row) == [i \in DOMAIN table \cup {k} |-> IF i = k THEN row ELSE table[i]]

\* Ids are handed out in order and rows are never removed.
PermCount == Cardinality(DOMAIN perm)
RoleCount == Cardinality(DOMAIN role)

\* Preload("Permissions").
Preloaded(id) == {p \in role[id].perms : Live(perm, p)}

\* The two statements of Association.Replace.
InsertLinks(id, ps) ==
    /\ role' = [role EXCEPT ![id].perms = @ \cup ps]
    /\ due' = [due EXCEPT ![id] = ps]
DeleteOtherLinks(id, ps) == role' = [role EXCEPT ![id].perms = @ \cap ps]

\* A write that links permissions again which it had read earlier.
Relink(id, ps) == kept' = [kept EXCEPT ![id] = @ \cup (ps \ role[id].perms)]

-----------------------------------------------------------------------------
(* SeedAdmin *)

At(i, pc) == inst[i].pc = pc
Goto(i, pc) == inst' = [inst EXCEPT ![i].pc = pc]

\* A fatal error ends the process; the supervisor starts it again.
Fatal(i) == inst' = [inst EXCEPT ![i] = [Down EXCEPT !.pc = "failed"]]

Boot(i) ==
    /\ inst[i].pc \in {"down", "failed"}
    /\ inst' = [inst EXCEPT ![i] = [Down EXCEPT !.pc = "perm", !.todo = All]]
    /\ UNCHANGED <<perm, role, admin, member, req, crashes, calls, due, kept, torn, bare, touched>>

\* After the loop over permission.All comes the ADMIN role.
NextName(q) == IF q.todo = {} THEN [q EXCEPT !.pc = "role", !.name = "ADMIN"]
               ELSE [q EXCEPT !.pc = "perm"]

\* One round of the loop: the lookup, and the insert when there is no row.
SeedPermission(i, n) ==
    LET q == [inst[i] EXCEPT !.todo = @ \ {n}, !.name = n]
    IN /\ At(i, "perm")
       /\ n \in inst[i].todo
       /\ inst' = [inst EXCEPT ![i] =
              IF Named(perm, {n}) = {} THEN [q EXCEPT !.pc = "permCreate"] ELSE NextName(q)]
       /\ UNCHANGED <<perm, role, admin, member, req, crashes, calls, due, kept, torn, bare, touched>>

SeedPermissionCreate(i) ==
    /\ At(i, "permCreate")
    /\ IF NameFree(perm, inst[i].name, 0)
       THEN /\ PermCount < MaxPerms
            /\ perm' = Put(perm, PermCount + 1, [name |-> inst[i].name, deleted |-> FALSE])
            /\ inst' = [inst EXCEPT ![i] = NextName(inst[i])]
       ELSE Fatal(i) /\ UNCHANGED perm
    /\ UNCHANGED <<role, admin, member, req, crashes, calls, due, kept, torn, bare, touched>>

ensureRoleNoLookup(i) ==
    /\ At(i, "role")
    /\ Goto(i, "roleCreate")
    /\ UNCHANGED <<perm, role, admin, member, req, crashes, calls, due, kept, torn, bare, touched>>

\* ensureRole, statement by statement.
ensureRole(i) ==
    LET found == Named(role, {inst[i].name})
    IN /\ At(i, "role")
       /\ IF found = {} THEN Goto(i, "roleCreate")
          ELSE \E k \in found : inst' = [inst EXCEPT ![i].pc = "resolve", ![i].id = k]
       /\ UNCHANGED <<perm, role, admin, member, req, crashes, calls, due, kept, torn, bare, touched>>

ensureRoleCreateUnset(i) ==
    LET k == RoleCount + 1
    IN /\ At(i, "roleCreate")
       /\ IF NameFree(role, inst[i].name, 0)
          THEN /\ k <= MaxRoles
               /\ role' = Put(role, k, [name |-> inst[i].name, deleted |-> FALSE, perms |-> {}])
               /\ Goto(i, "resolve")
          ELSE Fatal(i) /\ UNCHANGED role
       /\ UNCHANGED <<perm, admin, member, req, crashes, calls, due, kept, torn, bare, touched>>

ensureRoleCreate(i) ==
    LET k == RoleCount + 1
    IN /\ At(i, "roleCreate")
       /\ IF NameFree(role, inst[i].name, 0)
          THEN /\ k <= MaxRoles
               /\ role' = Put(role, k, [name |-> inst[i].name, deleted |-> FALSE, perms |-> {}])
               /\ inst' = [inst EXCEPT ![i].pc = "resolve", ![i].id = k]
          ELSE Fatal(i) /\ UNCHANGED role
       /\ UNCHANGED <<perm, admin, member, req, crashes, calls, due, kept, torn, bare, touched>>

ensureRoleResolve(i) ==
    /\ At(i, "resolve")
    /\ inst' = [inst EXCEPT ![i].pc = "link", ![i].perms = Named(perm, Wanted(inst[i].name))]
    /\ UNCHANGED <<perm, role, admin, member, req, crashes, calls, due, kept, torn, bare, touched>>

ensureRoleLink(i) ==
    /\ At(i, "link")
    /\ InsertLinks(inst[i].id, inst[i].perms)
    /\ Goto(i, "unlink")
    /\ UNCHANGED <<perm, admin, member, req, crashes, calls, kept, torn, bare, touched>>

ensureRoleUnlink(i) ==
    /\ At(i, "unlink")
    /\ DeleteOtherLinks(inst[i].id, inst[i].perms)
    /\ inst' = [inst EXCEPT ![i].pc = IF inst[i].name = "ADMIN" THEN "role" ELSE "user",
                            ![i].name = "USER", ![i].id = 0, ![i].perms = {}]
    /\ UNCHANGED <<perm, admin, member, req, crashes, calls, due, kept, torn, bare, touched>>

\* An administrator that exists is left as it is.
SeedUser(i) ==
    /\ At(i, "user")
    /\ inst' = [inst EXCEPT ![i] =
           [Down EXCEPT !.pc = IF admin.state = "live" THEN "serving" ELSE "adminRole"]]
    /\ UNCHANGED <<perm, role, admin, member, req, crashes, calls, due, kept, torn, bare, touched>>

SeedAdminRole(i) ==
    LET found == Named(role, {"ADMIN"})
    IN /\ At(i, "adminRole")
       /\ IF found = {} THEN Fatal(i)
          ELSE \E k \in found : inst' = [inst EXCEPT ![i].pc = "userCreate", ![i].id = k,
                                                     ![i].perms = Preloaded(k)]
       /\ UNCHANGED <<perm, role, admin, member, req, crashes, calls, due, kept, torn, bare, touched>>

\* Create of the user with its role: the row, then what was preloaded of the
\* role, then the link between the two.
SeedUserCreate(i) ==
    /\ At(i, "userCreate")
    /\ IF admin.state = "absent"
       THEN admin' = [admin EXCEPT !.state = "live"] /\ Goto(i, "userRelink")
       ELSE Fatal(i) /\ UNCHANGED admin
    /\ UNCHANGED <<perm, role, member, req, crashes, calls, due, kept, torn, bare, touched>>

SeedUserRelink(i) ==
    /\ At(i, "userRelink")
    /\ role' = [role EXCEPT ![inst[i].id].perms = @ \cup inst[i].perms]
    /\ Relink(inst[i].id, inst[i].perms)
    /\ Goto(i, "userLink")
    /\ UNCHANGED <<perm, admin, member, req, crashes, calls, due, torn, bare, touched>>

SeedUserLink(i) ==
    /\ At(i, "userLink")
    /\ admin' = [admin EXCEPT !.roles = @ \cup {inst[i].id}]
    /\ inst' = [inst EXCEPT ![i] = [Down EXCEPT !.pc = "serving"]]
    /\ UNCHANGED <<perm, role, member, req, crashes, calls, due, kept, torn, bare, touched>>

\* What an unfinished Replace leaves on file when nobody completes it.
LeftBehind(pc, id) == IF pc = "unlink" THEN [kept EXCEPT ![id] = @ \cup role[id].perms] ELSE kept

\* The process dies.  The requests it was serving are lost (Abort) before it.
Crash(i) ==
    /\ ~At(i, "down")
    /\ At(i, "serving") => \/ \E k \in Instances \ {i} : At(k, "serving")
                           \/ \A r \in Requests : req[r].pc = "idle"
    /\ crashes < MaxCrashes
    /\ crashes' = crashes + 1
    /\ inst' = [inst EXCEPT ![i] = Down]
    /\ kept' = LeftBehind(inst[i].pc, inst[i].id)
    /\ torn' = (torn \/ inst[i].pc \in {"userRelink", "userLink"})
    /\ UNCHANGED <<perm, role, admin, member, req, calls, due, bare, touched>>

-----------------------------------------------------------------------------
(* The administrators' endpoints *)

\* An endpoint is served while an instance is up and a slot is free.
Serves(r, e) ==
    /\ e \in Endpoints
    /\ req[r].pc = "idle"
    /\ \E i \in Instances : At(i, "serving")
    /\ calls < MaxCalls
    /\ calls' = calls + 1

ReqAt(r, pc) == req[r].pc = pc
Finish(r) == req' = [req EXCEPT ![r] = Idle]
Proceed(r, q) == req' = [req EXCEPT ![r] = q]

\* The first statement of every endpoint changes nothing: it looks a name up or
\* reads the row, and a name in use or a missing row ends the request.
CreateRole(r, n) ==
    /\ Serves(r, "createRole")
    /\ Named(role, {n}) = {}
    /\ Proceed(r, [Idle EXCEPT !.pc = "roleInsert", !.name = n])
    /\ UNCHANGED <<perm, role, admin, member, inst, crashes, due, kept, torn, bare, touched>>

UpdateRole(r, id, n) ==
    /\ Serves(r, "updateRole")
    /\ Live(role, id)
    /\ Proceed(r, [Idle EXCEPT !.pc = "roleSave", !.id = id, !.name = n, !.perms = Preloaded(id)])
    /\ UNCHANGED <<perm, role, admin, member, inst, crashes, due, kept, torn, bare, touched>>

DeleteRole(r, id) ==
    /\ Serves(r, "deleteRole")
    /\ Live(role, id)
    /\ Proceed(r, [Idle EXCEPT !.pc = "roleDelete", !.id = id])
    /\ UNCHANGED <<perm, role, admin, member, inst, crashes, due, kept, torn, bare, touched>>

AssignPermissions(r, id, ns) ==
    /\ Serves(r, "assign")
    /\ Live(role, id)
    /\ Proceed(r, [Idle EXCEPT !.pc = "assignResolve", !.id = id, !.names = ns])
    /\ UNCHANGED <<perm, role, admin, member, inst, crashes, due, kept, torn, bare, touched>>

CreatePermission(r, n) ==
    /\ Serves(r, "createPermission")
    /\ Named(perm, {n}) = {}
    /\ Proceed(r, [Idle EXCEPT !.pc = "permInsert", !.name = n])
    /\ UNCHANGED <<perm, role, admin, member, inst, crashes, due, kept, torn, bare, touched>>

UpdatePermission(r, id, n) ==
    /\ Serves(r, "updatePermission")
    /\ Live(perm, id)
    /\ Proceed(r, [Idle EXCEPT !.pc = "permSave", !.id = id, !.name = n])
    /\ UNCHANGED <<perm, role, admin, member, inst, crashes, due, kept, torn, bare, touched>>

DeletePermission(r, id) ==
    /\ Serves(r, "deletePermission")
    /\ Live(perm, id)
    /\ Proceed(r, [Idle EXCEPT !.pc = "permDelete", !.id = id])
    /\ UNCHANGED <<perm, role, admin, member, inst, crashes, due, kept, torn, bare, touched>>

\* The remaining statements.  A violated UNIQUE index ends the request.
RoleInsert(r) ==
    LET k == RoleCount + 1
    IN /\ ReqAt(r, "roleInsert")
       /\ IF NameFree(role, req[r].name, 0)
          THEN /\ k <= MaxRoles
               /\ role' = Put(role, k, [name |-> req[r].name, deleted |-> FALSE, perms |-> {}])
          ELSE UNCHANGED role
       /\ touched' = (touched \/ (req[r].name \in SeedRoles /\ role' # role))
       /\ Finish(r)
       /\ UNCHANGED <<perm, admin, member, inst, crashes, calls, due, kept, torn, bare>>

\* Save: the row with the new name, revived if it was deleted meanwhile, and
\* the permissions it had when it was read are linked again.
RoleSave(r) ==
    LET q == req[r]
        row == [name |-> q.name, deleted |-> FALSE, perms |-> role[q.id].perms \cup q.perms]
    IN /\ ReqAt(r, "roleSave")
       /\ IF NameFree(role, q.name, q.id)
          THEN role' = [role EXCEPT ![q.id] = row] /\ Relink(q.id, q.perms)
          ELSE UNCHANGED <<role, kept>>
       /\ touched' = (touched \/ role[q.id].name \in SeedRoles)
       /\ Finish(r)
       /\ UNCHANGED <<perm, admin, member, inst, crashes, calls, due, torn, bare>>

RoleDelete(r) ==
    LET id == req[r].id
    IN /\ ReqAt(r, "roleDelete")
       /\ role' = [role EXCEPT ![id].deleted = TRUE]
       /\ touched' = (touched \/ role[id].name \in SeedRoles)
       /\ Finish(r)
       /\ UNCHANGED <<perm, admin, member, inst, crashes, calls, due, kept, torn, bare>>

\* One name that does not exist refuses the whole request.
AssignResolve(r) ==
    LET q == req[r]
        found == Named(perm, q.names)
    IN /\ ReqAt(r, "assignResolve")
       /\ IF {perm[p].name : p \in found} = q.names
          THEN Proceed(r, [q EXCEPT !.pc = "link", !.perms = found])
          ELSE Finish(r)
       /\ UNCHANGED <<perm, role, admin, member, inst, crashes, calls, due, kept, torn, bare, touched>>

AssignLink(r) ==
    /\ ReqAt(r, "link")
    /\ InsertLinks(req[r].id, req[r].perms)
    /\ touched' = (touched \/ role[req[r].id].name \in SeedRoles)
    /\ Proceed(r, [req[r] EXCEPT !.pc = "unlink"])
    /\ UNCHANGED <<perm, admin, member, inst, crashes, calls, kept, torn, bare>>

AssignKeepOthers(r) ==
    /\ ReqAt(r, "unlink")
    /\ Finish(r)
    /\ UNCHANGED <<perm, role, admin, member, inst, crashes, calls, due, kept, torn, bare, touched>>

AssignUnlink(r) ==
    /\ ReqAt(r, "unlink")
    /\ DeleteOtherLinks(req[r].id, req[r].perms)
    /\ Finish(r)
    /\ UNCHANGED <<perm, admin, member, inst, crashes, calls, due, kept, torn, bare, touched>>

PermInsert(r) ==
    /\ ReqAt(r, "permInsert")
    /\ IF NameFree(perm, req[r].name, 0)
       THEN /\ PermCount < MaxPerms
            /\ perm' = Put(perm, PermCount + 1, [name |-> req[r].name, deleted |-> FALSE])
       ELSE UNCHANGED perm
    /\ touched' = (touched \/ (req[r].name \in All /\ perm' # perm))
    /\ Finish(r)
    /\ UNCHANGED <<role, admin, member, inst, crashes, calls, due, kept, torn, bare>>

PermSave(r) ==
    LET q == req[r]
    IN /\ ReqAt(r, "permSave")
       /\ IF NameFree(perm, q.name, q.id)
          THEN perm' = [perm EXCEPT ![q.id] = [name |-> q.name, deleted |-> FALSE]]
          ELSE UNCHANGED perm
       /\ touched' = (touched \/ perm[q.id].name \in All)
       /\ Finish(r)
       /\ UNCHANGED <<role, admin, member, inst, crashes, calls, due, kept, torn, bare>>

PermDelete(r) ==
    LET id == req[r].id
    IN /\ ReqAt(r, "permDelete")
       /\ perm' = [perm EXCEPT ![id].deleted = TRUE]
       /\ touched' = (touched \/ perm[id].name \in All)
       /\ Finish(r)
       /\ UNCHANGED <<role, admin, member, inst, crashes, calls, due, kept, torn, bare>>

\* Register: the checks of the name, the role, and Create as in SeedAdmin.
Register(r) ==
    /\ Serves(r, "register")
    /\ member.state # "live"
    /\ Proceed(r, [Idle EXCEPT !.pc = "regRole"])
    /\ UNCHANGED <<perm, role, admin, member, inst, crashes, due, kept, torn, bare, touched>>

RegisterRole(r) ==
    LET found == Named(role, {"USER"})
    IN /\ ReqAt(r, "regRole")
       /\ IF found = {} THEN Proceed(r, [req[r] EXCEPT !.pc = "regInsert"])
          ELSE \E k \in found : Proceed(r, [req[r] EXCEPT !.pc = "regInsert", !.id = k,
                                                         !.perms = Preloaded(k)])
       /\ UNCHANGED <<perm, role, admin, member, inst, crashes, calls, due, kept, torn, bare,
                      touched>>

RegisterWithoutRole(r) ==
    /\ ReqAt(r, "regInsert")
    /\ member' = [member EXCEPT !.state = "live"]
    /\ bare' = (bare \/ req[r].id = 0)
    /\ Finish(r)
    /\ UNCHANGED <<perm, role, admin, inst, crashes, calls, due, kept, torn, touched>>

\* Without a USER role the account is made without one.
RegisterInsert(r) ==
    /\ ReqAt(r, "regInsert")
    /\ IF member.state = "absent"
       THEN /\ member' = [member EXCEPT !.state = "live"]
            /\ IF req[r].id = 0 THEN Finish(r) ELSE Proceed(r, [req[r] EXCEPT !.pc = "regRelink"])
            /\ bare' = (bare \/ req[r].id = 0)
       ELSE Finish(r) /\ UNCHANGED <<member, bare>>
    /\ UNCHANGED <<perm, role, admin, inst, crashes, calls, due, kept, torn, touched>>

RegisterRelink(r) ==
    /\ ReqAt(r, "regRelink")
    /\ role' = [role EXCEPT ![req[r].id].perms = @ \cup req[r].perms]
    /\ Relink(req[r].id, req[r].perms)
    /\ Proceed(r, [req[r] EXCEPT !.pc = "regLink"])
    /\ UNCHANGED <<perm, admin, member, inst, crashes, calls, due, torn, bare, touched>>

RegisterLink(r) ==
    /\ ReqAt(r, "regLink")
    /\ member' = [member EXCEPT !.roles = @ \cup {req[r].id}]
    /\ Finish(r)
    /\ UNCHANGED <<perm, role, admin, inst, crashes, calls, due, kept, torn, bare, touched>>

\* The user module deletes the administrator.
DeleteAdmin ==
    /\ "deleteAdmin" \in Endpoints
    /\ admin.state = "live"
    /\ \E i \in Instances : At(i, "serving")
    /\ calls < MaxCalls
    /\ calls' = calls + 1
    /\ admin' = [admin EXCEPT !.state = "deleted"]
    /\ touched' = TRUE
    /\ UNCHANGED <<perm, role, member, inst, req, crashes, due, kept, torn, bare>>

\* A request is lost between two statements.
Abort(r) ==
    /\ ~ReqAt(r, "idle")
    /\ kept' = LeftBehind(req[r].pc, req[r].id)
    /\ bare' = (bare \/ req[r].pc \in {"regRelink", "regLink"})
    /\ Finish(r)
    /\ UNCHANGED <<perm, role, admin, member, inst, crashes, calls, due, torn, touched>>

-----------------------------------------------------------------------------
Init ==
    /\ perm = [k \in {} |-> 0]
    /\ role = [k \in {} |-> 0]
    /\ admin = [state |-> "absent", roles |-> {}]
    /\ member = [state |-> "absent", roles |-> {}]
    /\ inst = [i \in Instances |-> Down]
    /\ req = [r \in Requests |-> Idle]
    /\ crashes = 0
    /\ calls = 0
    /\ due = [k \in RoleIDs |-> {}]
    /\ kept = [k \in RoleIDs |-> {}]
    /\ torn = FALSE /\ bare = FALSE
    /\ touched = FALSE

SeedStep(i) ==
    \/ Boot(i)
    \/ (\E n \in All : SeedPermission(i, n)) \/ SeedPermissionCreate(i)
    \/ ensureRole(i) \/ ensureRoleCreate(i) \/ ensureRoleResolve(i)
    \/ ensureRoleLink(i) \/ ensureRoleUnlink(i)
    \/ SeedUser(i) \/ SeedAdminRole(i)
    \/ SeedUserCreate(i) \/ SeedUserRelink(i) \/ SeedUserLink(i)

Arrive(r) ==
    \/ \E n \in RoleNames : CreateRole(r, n) \/ \E id \in RoleIDs : UpdateRole(r, id, n)
    \/ \E n \in PermNames : CreatePermission(r, n) \/ \E id \in PermIDs : UpdatePermission(r, id, n)
    \/ \E id \in RoleIDs : DeleteRole(r, id) \/ \E ns \in SUBSET All : AssignPermissions(r, id, ns)
    \/ \E id \in PermIDs : DeletePermission(r, id)
    \/ Register(r)

Statement(r) ==
    \/ RoleInsert(r) \/ RoleSave(r) \/ RoleDelete(r)
    \/ AssignResolve(r) \/ AssignLink(r) \/ AssignUnlink(r)
    \/ PermInsert(r) \/ PermSave(r) \/ PermDelete(r)
    \/ RegisterRole(r) \/ RegisterInsert(r) \/ RegisterRelink(r) \/ RegisterLink(r)
    \/ Abort(r)

Next ==
    \/ \E i \in Instances : SeedStep(i) \/ Crash(i)
    \/ \E r \in Requests : Arrive(r) \/ Statement(r)
    \/ DeleteAdmin

Spec == Init /\ [][Next]_vars

\* A process that is up runs, and the supervisor starts it again when it is not.
FairSpec == Spec /\ \A i \in Instances : WF_vars(SeedStep(i))

-----------------------------------------------------------------------------
\* Every variable has its type, and no two rows of a table have one name, not
\* even when one of them is deleted and then revived by a stale save.
TypeOK ==
    /\ DOMAIN perm \subseteq PermIDs /\ \A k \in DOMAIN perm : perm[k] \in PermRow
    /\ DOMAIN role \subseteq RoleIDs /\ \A k \in DOMAIN role : role[k] \in RoleRow
    /\ \A j, k \in DOMAIN perm : perm[j].name = perm[k].name => j = k
    /\ \A j, k \in DOMAIN role : role[j].name = role[k].name => j = k
    /\ admin \in UserRow /\ member \in UserRow
    /\ inst \in [Instances -> Instance]
    /\ req \in [Requests -> Request]
    /\ crashes \in 0..MaxCrashes /\ calls \in 0..MaxCalls
    /\ due \in [RoleIDs -> SUBSET PermIDs]
    /\ kept \in [RoleIDs -> SUBSET PermIDs]
    /\ torn \in BOOLEAN /\ bare \in BOOLEAN /\ touched \in BOOLEAN

\* What SeedAdmin promises to have put on file.
Seeded ==
    /\ {perm[p].name : p \in Named(perm, All)} = All
    /\ \A n \in SeedRoles : \E k \in Named(role, {n}) :
        /\ {perm[p].name : p \in Preloaded(k)} = Wanted(n)
        /\ n = "ADMIN" => admin.state = "live" /\ k \in admin.roles

\* However often instances die and however their boots interleave, an instance
\* serves only when the whole catalogue is in place, as long as administrators
\* have not changed it, with one exception: an instance has died between writing
\* the administrator and linking its role, which no later boot repairs.
\* (Another instance may still be about to make that link.)
ServesSeeded ==
    (\E i \in Instances : At(i, "serving")) /\ ~touched /\ ~torn =>
        Seeded \/ \E i \in Instances : inst[i].pc \in {"userRelink", "userLink"}

\* A permission that the last AssignPermissions (or SeedAdmin) left out of a
\* role is gone from the role when no Replace is under way, unless a lost
\* request or a stale write of the role has kept it.
RevokedPermissionsStayRevoked ==
    \A k \in DOMAIN role :
        \/ role[k].perms \subseteq due[k] \cup kept[k]
        \/ \E r \in Requests : ReqAt(r, "unlink") /\ req[r].id = k
        \/ \E i \in Instances : At(i, "unlink") /\ inst[i].id = k

\* Instances that boot together and collide on a name, or die a few times, all
\* come up in the end unless administrators have changed the seeded rows.
BootConverges ==
    <>touched \/ \A i \in Instances : <>[]At(i, "serving")

\* However registrations of one name race, are lost between two statements and
\* meet changes of the USER role, the account that they leave has one role,
\* with two exceptions: the role was missing when it was looked up, or the
\* request was lost after the row had been written.  The name is then taken and
\* its owner may do nothing.
AccountsHaveTheirRole ==
    /\ Cardinality(member.roles) <= 1
    /\ member.state = "live" /\ member.roles = {} /\ ~bare =>
           \E r \in Requests : req[r].pc \in {"regRelink", "regLink"}
=============================================================================
