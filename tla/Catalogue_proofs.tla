-------------------------- MODULE Catalogue_proofs --------------------------
(***************************************************************************)
(* The permission catalogue for any number of instances, administrators,   *)
(* permissions and rows: how SeedAdmin, run by every boot of every         *)
(* instance, and the administrators' endpoints leave the tables.           *)
(***************************************************************************)
EXTENDS Catalogue, FiniteSetTheorems, TLAPS

-----------------------------------------------------------------------------
(* The inductive invariant *)

\* Ids are handed out in order, and no two rows have one name.
PermsOK ==
    /\ \E n \in 0..MaxPerms : DOMAIN perm = 1..n
    /\ \A k \in DOMAIN perm : perm[k] \in PermRow
    /\ \A j, k \in DOMAIN perm : perm[j].name = perm[k].name => j = k

RolesOK ==
    /\ \E n \in 0..MaxRoles : DOMAIN role = 1..n
    /\ \A k \in DOMAIN role : role[k] \in RoleRow
    /\ \A j, k \in DOMAIN role : role[j].name = role[k].name => j = k

RestOK ==
    /\ admin \in UserRow /\ member \in UserRow
    /\ crashes \in 0..MaxCrashes /\ calls \in 0..MaxCalls
    /\ due \in [RoleIDs -> SUBSET PermIDs]
    /\ kept \in [RoleIDs -> SUBSET PermIDs]
    /\ torn \in BOOLEAN /\ bare \in BOOLEAN /\ touched \in BOOLEAN

\* The rows that an instance or a request is going to write exist, and their
\* names fit.
InstOK(q) ==
    /\ q.pc = "permCreate" => q.name \in All
    /\ q.pc \in {"role", "roleCreate", "resolve", "link", "unlink"} => q.name \in SeedRoles
    /\ q.pc \in {"resolve", "link", "unlink", "userCreate", "userRelink", "userLink"} =>
          q.id \in DOMAIN role

ReqOK(q) ==
    /\ q.pc \in {"roleInsert", "roleSave"} => q.name \in RoleNames
    /\ q.pc \in {"permInsert", "permSave"} => q.name \in PermNames
    /\ q.pc \in {"roleSave", "roleDelete", "assignResolve", "link", "unlink", "regRelink", "regLink"} =>
          q.id \in DOMAIN role
    /\ q.pc = "regRole" => q.id = 0
    /\ q.pc = "regInsert" => q.id = 0 \/ q.id \in DOMAIN role
    /\ q.pc \in {"permSave", "permDelete"} => q.id \in DOMAIN perm

LocalsOK ==
    /\ inst \in [Instances -> Instance] /\ \A i \in Instances : InstOK(inst[i])
    /\ req \in [Requests -> Request] /\ \A r \in Requests : ReqOK(req[r])

\* Of the writers that are in the middle of a Replace on role k the one that
\* has linked last will leave what it has linked.
Replacing(k) ==
    \/ \E r \in Requests : ReqAt(r, "unlink") /\ req[r].id = k /\ req[r].perms = due[k]
    \/ \E i \in Instances : At(i, "unlink") /\ inst[i].id = k /\ inst[i].perms = due[k]

LinksOK == \A k \in DOMAIN role : role[k].perms \subseteq due[k] \cup kept[k] \/ Replacing(k)

\* A name is registered at most once, and by one request.
Linking(q) == q.pc \in {"regRelink", "regLink"}

AccountOK ==
    /\ \A r, s \in Requests : Linking(req[r]) /\ Linking(req[s]) => r = s
    /\ \A r \in Requests : Linking(req[r]) => member.state # "absent" /\ member.roles = {}
    /\ member.state = "absent" => member.roles = {}
    /\ member.roles = {} \/ \E k \in RoleIDs : member.roles = {k}
    /\ member.state = "live" /\ member.roles = {} /\ ~bare => \E r \in Requests : Linking(req[r])

\* What the boots have put on file, as long as nobody else has written it.
PermReady(n) == \E k \in DOMAIN perm : perm[k].name = n
PermsReady == \A n \in All : PermReady(n)
RoleReady(n) == \E k \in DOMAIN role : role[k].name = n /\ role[k].perms = Named(perm, Wanted(n))
RolesReady == RoleReady("ADMIN") /\ RoleReady("USER")

SeededRowsOK ==
    /\ \A k \in DOMAIN perm : perm[k].name \in All => ~perm[k].deleted
    /\ \A k \in DOMAIN role : role[k].name \in SeedRoles =>
          ~role[k].deleted /\ role[k].perms \subseteq Named(perm, Wanted(role[k].name))

RoleSteps == {"role", "roleCreate", "resolve", "link", "unlink"}
UserSteps == {"user", "adminRole", "userCreate", "userRelink", "userLink", "serving"}

\* How far the table must have come for an instance to be where it is, and what
\* it holds of the tables.
BootOK(q) ==
    /\ q.pc = "perm" => \A n \in All \ q.todo : PermReady(n)
    /\ q.pc = "permCreate" => \A n \in All \ (q.todo \cup {q.name}) : PermReady(n)
    /\ q.pc \in RoleSteps \cup UserSteps => PermsReady
    /\ q.pc \in RoleSteps /\ q.name = "USER" => RoleReady("ADMIN")
    /\ q.pc \in UserSteps => RolesReady
    /\ q.pc \in {"resolve", "link", "unlink"} => role[q.id].name = q.name
    /\ q.pc \in {"link", "unlink"} => q.perms = Named(perm, Wanted(q.name))
    /\ q.pc = "unlink" => q.perms \subseteq role[q.id].perms
    /\ q.pc \in {"userCreate", "userRelink", "userLink"} =>
          role[q.id].name = "ADMIN" /\ q.perms \subseteq Named(perm, All)
    /\ q.pc \in {"userRelink", "userLink", "serving"} => admin.state = "live"

\* Requests come in only when an instance serves.
ServedOK(q) ==
    /\ q.pc # "idle" => PermsReady /\ RolesReady
    /\ (q.pc = "regInsert" /\ q.id # 0) \/ Linking(q) =>
          role[q.id].name = "USER" /\ q.perms \subseteq Named(perm, Basic)
    /\ q.pc = "unlink" => role[q.id].name \notin SeedRoles

AdminLinking(i) == inst[i].pc \in {"userRelink", "userLink"}

AdminOK ==
    /\ admin.state \in {"absent", "live"}
    /\ admin.state = "live" /\ ~torn =>
          \/ \E k \in DOMAIN role : role[k].name = "ADMIN" /\ k \in admin.roles
          \/ \E i \in Instances : AdminLinking(i)

SeedOK ==
    /\ SeededRowsOK /\ AdminOK
    /\ \A i \in Instances : BootOK(inst[i])
    /\ \A r \in Requests : ServedOK(req[r])

Typed == PermsOK /\ RolesOK /\ RestOK /\ LocalsOK

CatalogueInv == Typed /\ LinksOK /\ AccountOK /\ (~touched => SeedOK)

-----------------------------------------------------------------------------
(* The tables *)

\* What the types say, with the ranges of ids written out.
LEMMA TablesTyped ==
    ASSUME Typed
    PROVE  /\ MaxPerms \in Nat /\ MaxRoles \in Nat /\ MaxCalls \in Nat /\ MaxCrashes \in Nat
           /\ \A k \in DOMAIN perm : k \in PermIDs /\ k # 0 /\ perm[k].name \in PermNames
                                     /\ perm[k].deleted \in BOOLEAN
           /\ \A k \in DOMAIN role : k \in RoleIDs /\ k \in 0..MaxRoles /\ k # 0
                                     /\ k \in 0..(MaxPerms + MaxRoles)
                                     /\ role[k].name \in RoleNames /\ role[k].deleted \in BOOLEAN
                                     /\ role[k].perms \in SUBSET PermIDs
           /\ PermIDs \subseteq 0..(MaxPerms + MaxRoles)
<1>1. MaxPerms \in Nat /\ MaxRoles \in Nat /\ MaxCalls \in Nat /\ MaxCrashes \in Nat
  BY CatalogueAssumption
<1>2. ASSUME NEW k \in DOMAIN perm
      PROVE  k \in PermIDs /\ k # 0 /\ perm[k].name \in PermNames /\ perm[k].deleted \in BOOLEAN
  BY <1>1 DEF Typed, PermsOK, PermIDs, PermRow
<1>3. ASSUME NEW k \in DOMAIN role
      PROVE  k \in RoleIDs /\ k \in 0..MaxRoles /\ k # 0 /\ k \in 0..(MaxPerms + MaxRoles)
  BY <1>1 DEF Typed, RolesOK, RoleIDs
<1>4. ASSUME NEW k \in DOMAIN role
      PROVE  role[k].name \in RoleNames /\ role[k].deleted \in BOOLEAN
             /\ role[k].perms \in SUBSET PermIDs
  BY DEF Typed, RolesOK, RoleRow
<1>5. PermIDs \subseteq 0..(MaxPerms + MaxRoles)
  BY <1>1 DEF PermIDs
<1> QED BY <1>1, <1>2, <1>3, <1>4, <1>5

LEMMA TypeParts == ASSUME Typed PROVE TypeOK
<1>1. /\ DOMAIN perm \subseteq PermIDs /\ \A k \in DOMAIN perm : perm[k] \in PermRow
      /\ \A j, k \in DOMAIN perm : perm[j].name = perm[k].name => j = k
  BY TablesTyped DEF Typed, PermsOK
<1>2. /\ DOMAIN role \subseteq RoleIDs /\ \A k \in DOMAIN role : role[k] \in RoleRow
      /\ \A j, k \in DOMAIN role : role[j].name = role[k].name => j = k
  BY TablesTyped DEF Typed, RolesOK
<1>3. RestOK /\ LocalsOK
  BY DEF Typed
<1> QED BY <1>1, <1>2, <1>3, Zenon DEF RestOK, LocalsOK, TypeOK

\* The next id is free.
LEMMA Counted ==
    ASSUME Typed
    PROVE  /\ PermCount \in 0..MaxPerms /\ DOMAIN perm = 1..PermCount
           /\ RoleCount \in 0..MaxRoles /\ DOMAIN role = 1..RoleCount
<1>1. PICK n \in 0..MaxPerms : DOMAIN perm = 1..n
  BY DEF Typed, PermsOK
<1>2. PICK m \in 0..MaxRoles : DOMAIN role = 1..m
  BY DEF Typed, RolesOK
<1>3. n \in Nat /\ m \in Nat
  BY <1>1, <1>2, TablesTyped
<1>4. Cardinality(1..n) = n /\ Cardinality(1..m) = m
  BY <1>3, FS_Interval
<1> QED BY <1>1, <1>2, <1>4 DEF PermCount, RoleCount

LEMMA NamedTyped ==
    ASSUME Typed, NEW S
    PROVE  /\ Named(perm, S) \in SUBSET PermIDs
           /\ \A k \in Named(perm, S) : k \in DOMAIN perm /\ ~perm[k].deleted /\ perm[k].name \in S
           /\ \A k \in DOMAIN perm : ~perm[k].deleted /\ perm[k].name \in S => k \in Named(perm, S)
           /\ \A k \in Named(role, S) : k \in DOMAIN role /\ ~role[k].deleted /\ role[k].name \in S
           /\ \A k \in DOMAIN role : ~role[k].deleted /\ role[k].name \in S => k \in Named(role, S)
BY TablesTyped DEF Named, Live

LEMMA PreloadedTyped ==
    ASSUME Typed, NEW k
    PROVE  Preloaded(k) \in SUBSET PermIDs /\ Preloaded(k) \subseteq role[k].perms
BY TablesTyped DEF Preloaded, Live

\* A new row of permissions.
LEMMA PermInserted ==
    ASSUME Typed, NEW n \in PermNames, NameFree(perm, n, 0), PermCount < MaxPerms,
           perm' = Put(perm, PermCount + 1, [name |-> n, deleted |-> FALSE])
    PROVE  /\ PermsOK' /\ perm' # perm
           /\ \A k \in DOMAIN perm : k \in DOMAIN perm' /\ perm'[k] = perm[k] /\ perm[k].name # n
           /\ \A k \in DOMAIN perm' : k \in DOMAIN perm \/ perm'[k] = [name |-> n, deleted |-> FALSE]
<1> DEFINE new == PermCount + 1
           row == [name |-> n, deleted |-> FALSE]
<1>1. /\ PermCount \in Nat /\ new \in 0..MaxPerms /\ new \notin DOMAIN perm
      /\ DOMAIN perm = 1..PermCount /\ DOMAIN perm \cup {new} = 1..new
  BY Counted, TablesTyped
<1>2. /\ DOMAIN perm' = DOMAIN perm \cup {new}
      /\ \A k \in DOMAIN perm' : perm'[k] = IF k = new THEN row ELSE perm[k]
  BY DEF Put
<1>3. \A k \in DOMAIN perm : perm[k].name # n
  BY TablesTyped DEF NameFree
<1>4. row \in PermRow /\ row.name = n
  BY DEF PermRow
<1> HIDE DEF row, new
<1>5. \E m \in 0..MaxPerms : DOMAIN perm' = 1..m
  BY <1>1, <1>2
<1>6. \A k \in DOMAIN perm' : perm'[k] \in PermRow
  <2>1. \A k \in DOMAIN perm : perm[k] \in PermRow
    BY DEF Typed, PermsOK
  <2> QED BY <1>1, <1>2, <1>4, <2>1
<1>7. \A j, k \in DOMAIN perm' : perm'[j].name = perm'[k].name => j = k
  <2>1. \A j, k \in DOMAIN perm : perm[j].name = perm[k].name => j = k
    BY DEF Typed, PermsOK
  <2>2. /\ \A k \in DOMAIN perm : perm'[k].name = perm[k].name
        /\ perm'[new].name = n
        /\ \A k \in DOMAIN perm' : k \in DOMAIN perm \/ k = new
    BY <1>1, <1>2, <1>4
  <2> SUFFICES ASSUME NEW j \in DOMAIN perm', NEW k \in DOMAIN perm', perm'[j].name = perm'[k].name
               PROVE  j = k
    OBVIOUS
  <2>3. CASE j \in DOMAIN perm /\ k \in DOMAIN perm
    BY <2>1, <2>2, <2>3
  <2>4. CASE j = new /\ k = new
    BY <2>4
  <2>5. CASE j = new /\ k \in DOMAIN perm
    BY <1>3, <2>2, <2>5
  <2>6. CASE j \in DOMAIN perm /\ k = new
    BY <1>3, <2>2, <2>6
  <2> QED BY <2>2, <2>3, <2>4, <2>5, <2>6
<1>8. PermsOK'
  BY <1>5, <1>6, <1>7 DEF PermsOK
<1>9. perm' # perm
  BY <1>1, <1>2
<1> QED BY <1>1, <1>2, <1>3, <1>8, <1>9 DEF row

\* Save of a row of permissions, when its name is free.
LEMMA PermSaved ==
    ASSUME Typed, NEW id \in DOMAIN perm, NEW n \in PermNames, NameFree(perm, n, id),
           perm' = [perm EXCEPT ![id] = [name |-> n, deleted |-> FALSE]]
    PROVE  /\ PermsOK' /\ DOMAIN perm' = DOMAIN perm
           /\ \A k \in DOMAIN perm : k # id => perm'[k] = perm[k] /\ perm[k].name # n
           /\ perm'[id].name = n
<1> DEFINE row == [name |-> n, deleted |-> FALSE]
<1>1. row \in PermRow /\ row.name = n
  BY DEF PermRow
<1>2. \A k \in DOMAIN perm : k # id => perm[k].name # n
  BY DEF NameFree
<1>3. DOMAIN perm' = DOMAIN perm /\ \A k \in DOMAIN perm : perm'[k] = IF k = id THEN row ELSE perm[k]
  OBVIOUS
<1> HIDE DEF row
<1>4. PermsOK'
  <2>1. /\ \E m \in 0..MaxPerms : DOMAIN perm = 1..m
        /\ \A k \in DOMAIN perm : perm[k] \in PermRow
        /\ \A j, k \in DOMAIN perm : perm[j].name = perm[k].name => j = k
    BY DEF Typed, PermsOK
  <2>2. \A k \in DOMAIN perm' : perm'[k] \in PermRow
    BY <1>1, <1>3, <2>1
  <2>3. \A k \in DOMAIN perm : perm'[k].name = IF k = id THEN n ELSE perm[k].name
    BY <1>1, <1>3
  <2>4. \A j, k \in DOMAIN perm' : perm'[j].name = perm'[k].name => j = k
    BY <1>2, <1>3, <2>1, <2>3
  <2> QED BY <1>3, <2>1, <2>2, <2>4 DEF PermsOK
<1> QED BY <1>1, <1>2, <1>3, <1>4

LEMMA PermDeleted ==
    ASSUME Typed, NEW id \in DOMAIN perm, perm' = [perm EXCEPT ![id].deleted = TRUE]
    PROVE  /\ PermsOK' /\ DOMAIN perm' = DOMAIN perm
           /\ \A k \in DOMAIN perm : k # id => perm'[k] = perm[k]
           /\ perm'[id].name = perm[id].name
<1> DEFINE row == [perm[id] EXCEPT !.deleted = TRUE]
<1>1. row \in PermRow /\ row.name = perm[id].name
  BY DEF PermRow, Typed, PermsOK
<1>3. DOMAIN perm' = DOMAIN perm /\ \A k \in DOMAIN perm : perm'[k] = IF k = id THEN row ELSE perm[k]
  OBVIOUS
<1> HIDE DEF row
<1>4. PermsOK'
  <2>1. \A k \in DOMAIN perm : perm[k] \in PermRow
    BY DEF Typed, PermsOK
  <2>2. \A k \in DOMAIN perm' : perm'[k] \in PermRow
    BY <1>1, <1>3, <2>1
  <2>3. \A k \in DOMAIN perm' : perm'[k].name = perm[k].name
    BY <1>1, <1>3
  <2>4. \E m \in 0..MaxPerms : DOMAIN perm' = 1..m
    BY <1>3 DEF Typed, PermsOK
  <2>5. \A j, k \in DOMAIN perm' : perm'[j].name = perm'[k].name => j = k
    <3>1. \A j, k \in DOMAIN perm : perm[j].name = perm[k].name => j = k
      BY DEF Typed, PermsOK
    <3>2. DOMAIN perm' = DOMAIN perm
      BY <1>3
    <3> QED BY <2>3, <3>1, <3>2
  <2> QED BY <2>2, <2>4, <2>5 DEF PermsOK
<1> QED BY <1>1, <1>3, <1>4

\* The same for roles.
LEMMA RoleInserted ==
    ASSUME Typed, NEW n \in RoleNames, NameFree(role, n, 0), RoleCount + 1 <= MaxRoles,
           role' = Put(role, RoleCount + 1, [name |-> n, deleted |-> FALSE, perms |-> {}])
    PROVE  /\ RolesOK' /\ role' # role /\ RoleCount + 1 \in DOMAIN role'
           /\ \A k \in DOMAIN role : k \in DOMAIN role' /\ role'[k] = role[k] /\ role[k].name # n
           /\ \A k \in DOMAIN role' : k \in DOMAIN role \/ k = RoleCount + 1
           /\ role'[RoleCount + 1] = [name |-> n, deleted |-> FALSE, perms |-> {}]
           /\ RoleCount + 1 \notin DOMAIN role
<1> DEFINE new == RoleCount + 1
           row == [name |-> n, deleted |-> FALSE, perms |-> {}]
<1>1. /\ RoleCount \in Nat /\ new \in 0..MaxRoles /\ new \notin DOMAIN role
      /\ DOMAIN role = 1..RoleCount /\ DOMAIN role \cup {new} = 1..new
  BY Counted, TablesTyped
<1>2. /\ DOMAIN role' = DOMAIN role \cup {new}
      /\ \A k \in DOMAIN role' : role'[k] = IF k = new THEN row ELSE role[k]
  BY DEF Put
<1>3. \A k \in DOMAIN role : role[k].name # n
  BY TablesTyped DEF NameFree
<1>4. row \in RoleRow /\ row.name = n
  BY DEF RoleRow
<1> HIDE DEF row, new
<1>5. \E m \in 0..MaxRoles : DOMAIN role' = 1..m
  BY <1>1, <1>2
<1>6. \A k \in DOMAIN role' : role'[k] \in RoleRow
  <2>1. \A k \in DOMAIN role : role[k] \in RoleRow
    BY DEF Typed, RolesOK
  <2> QED BY <1>1, <1>2, <1>4, <2>1
<1>7. \A j, k \in DOMAIN role' : role'[j].name = role'[k].name => j = k
  <2>1. \A j, k \in DOMAIN role : role[j].name = role[k].name => j = k
    BY DEF Typed, RolesOK
  <2>2. /\ \A k \in DOMAIN role : role'[k].name = role[k].name
        /\ role'[new].name = n
        /\ \A k \in DOMAIN role' : k \in DOMAIN role \/ k = new
    BY <1>1, <1>2, <1>4
  <2> SUFFICES ASSUME NEW j \in DOMAIN role', NEW k \in DOMAIN role', role'[j].name = role'[k].name
               PROVE  j = k
    OBVIOUS
  <2>3. CASE j \in DOMAIN role /\ k \in DOMAIN role
    BY <2>1, <2>2, <2>3
  <2>4. CASE j = new /\ k = new
    BY <2>4
  <2>5. CASE j = new /\ k \in DOMAIN role
    BY <1>3, <2>2, <2>5
  <2>6. CASE j \in DOMAIN role /\ k = new
    BY <1>3, <2>2, <2>6
  <2> QED BY <2>2, <2>3, <2>4, <2>5, <2>6
<1>8. RolesOK'
  BY <1>5, <1>6, <1>7 DEF RolesOK
<1>9. role' # role
  BY <1>1, <1>2
<1>10. new \in DOMAIN role' /\ role'[new] = row
  BY <1>2
<1> QED BY <1>1, <1>2, <1>3, <1>8, <1>9, <1>10 DEF row, new

\* A row of roles is written and keeps its name, or takes one that is free.
LEMMA RoleWritten ==
    ASSUME Typed, NEW id \in DOMAIN role, NEW row \in RoleRow,
           row.name = role[id].name \/ NameFree(role, row.name, id),
           role' = [role EXCEPT ![id] = row]
    PROVE  /\ RolesOK' /\ DOMAIN role' = DOMAIN role /\ role'[id] = row
           /\ \A k \in DOMAIN role : k # id => role'[k] = role[k]
<1>1. \A k \in DOMAIN role : k # id => role[k].name # row.name
  BY DEF NameFree, Typed, RolesOK
<1>2. DOMAIN role' = DOMAIN role /\ \A k \in DOMAIN role : role'[k] = IF k = id THEN row ELSE role[k]
  OBVIOUS
<1>3. RolesOK'
  <2>1. \A k \in DOMAIN role : role[k] \in RoleRow
    BY DEF Typed, RolesOK
  <2>2. \A k \in DOMAIN role' : role'[k] \in RoleRow
    BY <1>2, <2>1
  <2>3. \A k \in DOMAIN role : role'[k].name = IF k = id THEN row.name ELSE role[k].name
    BY <1>2
  <2>4. \E m \in 0..MaxRoles : DOMAIN role' = 1..m
    BY <1>2 DEF Typed, RolesOK
  <2>5. \A j, k \in DOMAIN role' : role'[j].name = role'[k].name => j = k
    <3>1. \A j, k \in DOMAIN role : role[j].name = role[k].name => j = k
      BY DEF Typed, RolesOK
    <3>2. DOMAIN role' = DOMAIN role
      BY <1>2
    <3> QED BY <1>1, <2>3, <3>1, <3>2
  <2> QED BY <2>2, <2>4, <2>5 DEF RolesOK
<1> QED BY <1>2, <1>3

\* A statement that writes the links of one role.
LEMMA RoleLinked ==
    ASSUME Typed, NEW id \in DOMAIN role, NEW ps \in SUBSET PermIDs,
           role' = [role EXCEPT ![id].perms = ps]
    PROVE  /\ RolesOK' /\ DOMAIN role' = DOMAIN role
           /\ \A k \in DOMAIN role : /\ k # id => role'[k] = role[k]
                                     /\ role'[k].name = role[k].name
                                     /\ role'[k].deleted = role[k].deleted
           /\ role'[id].perms = ps
<1> DEFINE row == [role[id] EXCEPT !.perms = ps]
<1>1. role[id] \in RoleRow
  BY DEF Typed, RolesOK
<1>2. /\ row \in RoleRow /\ row.name = role[id].name /\ row.deleted = role[id].deleted
      /\ row.perms = ps
  BY <1>1 DEF RoleRow
<1>3. role' = [role EXCEPT ![id] = row]
  OBVIOUS
<1> HIDE DEF row
<1>4. /\ RolesOK' /\ DOMAIN role' = DOMAIN role /\ role'[id] = row
      /\ \A k \in DOMAIN role : k # id => role'[k] = role[k]
  <2>1. PICK new \in RoleRow : new = row
    BY <1>2
  <2> QED BY <1>2, <1>3, <2>1, RoleWritten
<1> QED BY <1>2, <1>4

LEMMA RoleDeleted ==
    ASSUME Typed, NEW id \in DOMAIN role, role' = [role EXCEPT ![id].deleted = TRUE]
    PROVE  /\ RolesOK' /\ DOMAIN role' = DOMAIN role
           /\ \A k \in DOMAIN role : /\ k # id => role'[k] = role[k]
                                     /\ role'[k].name = role[k].name
                                     /\ role'[k].perms = role[k].perms
<1> DEFINE row == [role[id] EXCEPT !.deleted = TRUE]
<1>1. role[id] \in RoleRow
  BY DEF Typed, RolesOK
<1>2. row \in RoleRow /\ row.name = role[id].name /\ row.perms = role[id].perms
  BY <1>1 DEF RoleRow
<1>3. role' = [role EXCEPT ![id] = row]
  OBVIOUS
<1> HIDE DEF row
<1>4. /\ RolesOK' /\ DOMAIN role' = DOMAIN role /\ role'[id] = row
      /\ \A k \in DOMAIN role : k # id => role'[k] = role[k]
  <2>1. PICK new \in RoleRow : new = row
    BY <1>2
  <2> QED BY <1>2, <1>3, <2>1, RoleWritten
<1> QED BY <1>2, <1>4

-----------------------------------------------------------------------------
(* What a step leaves alone *)

InstMoves(i) ==
    /\ inst' \in [Instances -> Instance]
    /\ \A k \in Instances : k # i => inst'[k] = inst[k]

ReqMoves(r) ==
    /\ req' \in [Requests -> Request]
    /\ \A s \in Requests : s # r => req'[s] = req[s]

Grown == DOMAIN perm \subseteq DOMAIN perm' /\ DOMAIN role \subseteq DOMAIN role'

LEMMA InstTyped ==
    ASSUME Typed, NEW i \in Instances, InstMoves(i), InstOK(inst[i])', UNCHANGED req,
           PermsOK', RolesOK', RestOK', Grown
    PROVE  Typed'
<1>1. ASSUME NEW k \in Instances PROVE InstOK(inst[k])'
  <2>1. CASE k = i
    BY <2>1
  <2>2. CASE k # i
    BY <2>2 DEF InstMoves, Typed, LocalsOK, InstOK, Grown
  <2> QED BY <2>1, <2>2
<1>2. ASSUME NEW r \in Requests PROVE ReqOK(req[r])'
  BY DEF Typed, LocalsOK, ReqOK, Grown
<1>3. inst' \in [Instances -> Instance] /\ req' \in [Requests -> Request]
  BY DEF InstMoves, Typed, LocalsOK
<1> QED BY <1>1, <1>2, <1>3 DEF Typed, LocalsOK

LEMMA ReqTyped ==
    ASSUME Typed, NEW r \in Requests, ReqMoves(r), ReqOK(req[r])', UNCHANGED inst,
           PermsOK', RolesOK', RestOK', Grown
    PROVE  Typed'
<1>1. ASSUME NEW k \in Instances PROVE InstOK(inst[k])'
  BY DEF Typed, LocalsOK, InstOK, Grown
<1>2. ASSUME NEW s \in Requests PROVE ReqOK(req[s])'
  <2>1. CASE s = r
    BY <2>1
  <2>2. CASE s # r
    BY <2>2 DEF ReqMoves, Typed, LocalsOK, ReqOK, Grown
  <2> QED BY <2>1, <2>2
<1>3. inst' \in [Instances -> Instance] /\ req' \in [Requests -> Request]
  BY DEF ReqMoves, Typed, LocalsOK
<1> QED BY <1>1, <1>2, <1>3 DEF Typed, LocalsOK

\* Nobody begins or ends a Replace, and what a role gains is noted.
LEMMA LinksSame ==
    ASSUME LinksOK,
           \A i \in Instances : At(i, "unlink") => inst'[i] = inst[i],
           \A r \in Requests : ReqAt(r, "unlink") => req'[r] = req[r],
           \A k \in DOMAIN role' :
              \/ role'[k].perms = {}
              \/ /\ k \in DOMAIN role /\ due'[k] = due[k] /\ kept[k] \subseteq kept'[k]
                 /\ role'[k].perms \subseteq role[k].perms \cup kept'[k]
    PROVE  LinksOK'
<1> SUFFICES ASSUME NEW k \in DOMAIN role', role'[k].perms # {}
             PROVE  role'[k].perms \subseteq due'[k] \cup kept'[k] \/ Replacing(k)'
  BY DEF LinksOK
<1>1. /\ k \in DOMAIN role /\ due'[k] = due[k] /\ kept[k] \subseteq kept'[k]
      /\ role'[k].perms \subseteq role[k].perms \cup kept'[k]
  OBVIOUS
<1>2. CASE role[k].perms \subseteq due[k] \cup kept[k]
  BY <1>1, <1>2
<1>3. CASE Replacing(k)
  <2>1. CASE \E r \in Requests : ReqAt(r, "unlink") /\ req[r].id = k /\ req[r].perms = due[k]
    BY <1>1, <2>1 DEF Replacing, ReqAt
  <2>2. CASE \E i \in Instances : At(i, "unlink") /\ inst[i].id = k /\ inst[i].perms = due[k]
    BY <1>1, <2>2 DEF Replacing, At
  <2> QED BY <1>3, <2>1, <2>2 DEF Replacing
<1> QED BY <1>1, <1>2, <1>3 DEF LinksOK

LEMMA AccountSame ==
    ASSUME AccountOK, UNCHANGED <<member, bare>>,
           \A r \in Requests : Linking(req'[r]) <=> Linking(req[r])
    PROVE  AccountOK'
BY DEF AccountOK

\* Rows with seeded names keep them, and roles gain at most what they should
\* have.
PermsKept ==
    /\ \A k \in DOMAIN perm :
          /\ k \in DOMAIN perm'
          /\ perm[k].name \in All \/ perm'[k].name \in All =>
                perm'[k].name = perm[k].name /\ perm'[k].deleted = perm[k].deleted
    /\ \A k \in DOMAIN perm' \ DOMAIN perm : perm'[k].name \notin All

RolesKept ==
    /\ \A k \in DOMAIN role :
          /\ k \in DOMAIN role'
          /\ role[k].name \in SeedRoles \/ role'[k].name \in SeedRoles =>
                /\ role'[k].name = role[k].name /\ role'[k].deleted = role[k].deleted
                /\ role[k].perms \subseteq role'[k].perms
                /\ role'[k].perms \subseteq Named(perm, Wanted(role[k].name))
    /\ \A k \in DOMAIN role' \ DOMAIN role : ~role'[k].deleted /\ role'[k].perms = {}

LEMMA WantedIsSeeded == ASSUME NEW n PROVE Wanted(n) \subseteq All
BY CatalogueAssumption DEF Wanted

LEMMA NamedKept ==
    ASSUME PermsKept, NEW S, S \subseteq All
    PROVE  Named(perm, S)' = Named(perm, S)
<1>1. ASSUME NEW k PROVE k \in Named(perm, S) => k \in Named(perm, S)'
  BY DEF Named, Live, PermsKept
<1>2. ASSUME NEW k PROVE k \in Named(perm, S)' => k \in Named(perm, S)
  BY DEF Named, Live, PermsKept
<1> QED BY <1>1, <1>2

LEMMA ReadyKept ==
    ASSUME PermsKept, RolesKept
    PROVE  /\ \A n \in All : PermReady(n) => PermReady(n)'
           /\ PermsReady => PermsReady'
           /\ RoleReady("ADMIN") => RoleReady("ADMIN")'
           /\ RoleReady("USER") => RoleReady("USER")'
           /\ RolesReady => RolesReady'
           /\ \A n \in SeedRoles : Named(perm, Wanted(n))' = Named(perm, Wanted(n))
           /\ Named(perm, All)' = Named(perm, All) /\ Named(perm, Basic)' = Named(perm, Basic)
<1>1. ASSUME NEW n \in All, PermReady(n) PROVE PermReady(n)'
  BY <1>1 DEF PermReady, PermsKept
<1>2. \A n \in SeedRoles : Named(perm, Wanted(n))' = Named(perm, Wanted(n))
  BY NamedKept, WantedIsSeeded
<1>3. ASSUME NEW n \in SeedRoles, RoleReady(n) PROVE RoleReady(n)'
  <2>1. PICK k \in DOMAIN role : role[k].name = n /\ role[k].perms = Named(perm, Wanted(n))
    BY <1>3 DEF RoleReady
  <2>2. k \in DOMAIN role' /\ role'[k].name = n /\ role'[k].perms = Named(perm, Wanted(n))
    BY <2>1 DEF RolesKept
  <2> QED BY <1>2, <2>2 DEF RoleReady
<1>4. Named(perm, All)' = Named(perm, All) /\ Named(perm, Basic)' = Named(perm, Basic)
  BY NamedKept, CatalogueAssumption
<1>5. "ADMIN" \in SeedRoles /\ "USER" \in SeedRoles
  BY DEF SeedRoles
<1>6. PermsReady => PermsReady'
  BY <1>1 DEF PermsReady
<1>7. /\ RoleReady("ADMIN") => RoleReady("ADMIN")'
      /\ RoleReady("USER") => RoleReady("USER")'
  BY <1>3, <1>5
<1>8. RolesReady => RolesReady'
  BY <1>7 DEF RolesReady
<1> QED BY <1>1, <1>2, <1>4, <1>6, <1>7, <1>8

LEMMA BootKept ==
    ASSUME Typed, PermsKept, RolesKept, admin.state = "live" => admin'.state = "live",
           NEW i \in Instances, BootOK(inst[i]), inst'[i] = inst[i]
    PROVE  BootOK(inst[i])'
<1>0. PICK q : q = inst[i]
  OBVIOUS
<1>1. InstOK(q) /\ BootOK(q)
  BY <1>0 DEF Typed, LocalsOK
<1>2. /\ q.pc = "perm" => \A n \in All \ q.todo : PermReady(n)'
      /\ q.pc = "permCreate" => \A n \in All \ (q.todo \cup {q.name}) : PermReady(n)'
  BY <1>1, ReadyKept DEF BootOK
<1>3. /\ q.pc \in RoleSteps \cup UserSteps => PermsReady'
      /\ q.pc \in RoleSteps /\ q.name = "USER" => RoleReady("ADMIN")'
      /\ q.pc \in UserSteps => RolesReady'
  BY <1>1, ReadyKept DEF BootOK
<1>4. q.pc \in {"resolve", "link", "unlink"} => role'[q.id].name = q.name
  BY <1>1 DEF BootOK, InstOK, RolesKept
<1>5. q.pc \in {"link", "unlink"} => q.perms = Named(perm, Wanted(q.name))'
  <2>1. q.pc \in {"link", "unlink"} => q.name \in SeedRoles /\ q.perms = Named(perm, Wanted(q.name))
    BY <1>1 DEF InstOK, BootOK
  <2> QED BY <2>1, ReadyKept
<1>6. q.pc = "unlink" => q.perms \subseteq role'[q.id].perms
  <2>1. q.pc = "unlink" => /\ q.perms \subseteq role[q.id].perms
                           /\ q.id \in DOMAIN role /\ role[q.id].name \in SeedRoles
    BY <1>1 DEF InstOK, BootOK
  <2> QED BY <2>1 DEF RolesKept
<1>7. q.pc \in {"userCreate", "userRelink", "userLink"} =>
          role'[q.id].name = "ADMIN" /\ q.perms \subseteq Named(perm, All)'
  <2>1. q.pc \in {"userCreate", "userRelink", "userLink"} =>
            q.id \in DOMAIN role /\ role[q.id].name = "ADMIN" /\ q.perms \subseteq Named(perm, All)
    BY <1>1 DEF InstOK, BootOK
  <2> QED BY <2>1, ReadyKept DEF RolesKept, SeedRoles
<1>8. q.pc \in {"userRelink", "userLink", "serving"} => admin'.state = "live"
  BY <1>1 DEF BootOK
<1>9. inst'[i] = q
  BY <1>0
<1> QED BY <1>2, <1>3, <1>4, <1>5, <1>6, <1>7, <1>8, <1>9 DEF BootOK

LEMMA ServedKept ==
    ASSUME Typed, PermsKept, RolesKept, NEW r \in Requests, ServedOK(req[r]), req'[r] = req[r]
    PROVE  ServedOK(req[r])'
<1> DEFINE q == req[r]
<1>1. ReqOK(q)
  BY DEF Typed, LocalsOK
<1>2. q.pc # "idle" => PermsReady' /\ RolesReady'
  BY ReadyKept DEF ServedOK
<1>3. (q.pc = "regInsert" /\ q.id # 0) \/ Linking(q) =>
          role'[q.id].name = "USER" /\ q.perms \subseteq Named(perm, Basic)'
  <2>1. (q.pc = "regInsert" /\ q.id # 0) \/ Linking(q) =>
            q.id \in DOMAIN role /\ role[q.id].name = "USER" /\ q.perms \subseteq Named(perm, Basic)
    BY <1>1 DEF ServedOK, ReqOK, Linking
  <2> QED BY <2>1, ReadyKept DEF RolesKept, SeedRoles
<1>4. q.pc = "unlink" => role'[q.id].name \notin SeedRoles
  BY <1>1 DEF ReqOK, ServedOK, RolesKept
<1>5. req'[r] = q
  OBVIOUS
<1> HIDE DEF q
<1> QED BY <1>2, <1>3, <1>4, <1>5, Zenon DEF ServedOK

LEMMA SeededRowsKept ==
    ASSUME SeededRowsOK, PermsKept, RolesKept
    PROVE  SeededRowsOK'
<1>1. ASSUME NEW k \in DOMAIN perm', perm'[k].name \in All PROVE ~perm'[k].deleted
  BY <1>1 DEF SeededRowsOK, PermsKept
<1>2. ASSUME NEW k \in DOMAIN role', role'[k].name \in SeedRoles
      PROVE  ~role'[k].deleted /\ role'[k].perms \subseteq Named(perm, Wanted(role[k].name))'
  <2>1. CASE k \in DOMAIN role
    BY <1>2, <2>1, ReadyKept DEF SeededRowsOK, RolesKept
  <2>2. CASE k \notin DOMAIN role
    BY <2>2 DEF RolesKept
  <2> QED BY <2>1, <2>2
<1> QED BY <1>1, <1>2 DEF SeededRowsOK

LEMMA AdminSame ==
    ASSUME AdminOK, RolesKept, UNCHANGED admin, torn => torn',
           \A i \in Instances : AdminLinking(i) => torn' \/ AdminLinking(i)'
    PROVE  AdminOK'
<1> SUFFICES ASSUME admin.state = "live", ~torn'
             PROVE  \/ \E k \in DOMAIN role' : role'[k].name = "ADMIN" /\ k \in admin.roles
                    \/ \E i \in Instances : AdminLinking(i)'
  BY DEF AdminOK
<1>1. CASE \E k \in DOMAIN role : role[k].name = "ADMIN" /\ k \in admin.roles
  BY <1>1 DEF RolesKept, SeedRoles
<1>2. CASE \E i \in Instances : AdminLinking(i)
  BY <1>2
<1> QED BY <1>1, <1>2 DEF AdminOK

LEMMA SeedSame ==
    ASSUME Typed, SeedOK, PermsKept, RolesKept,
           AdminOK', admin.state = "live" => admin'.state = "live",
           \A i \in Instances : inst'[i] = inst[i] \/ BootOK(inst[i])',
           \A r \in Requests : req'[r] = req[r] \/ ServedOK(req[r])'
    PROVE  SeedOK'
<1>1. SeededRowsOK'
  BY SeededRowsKept DEF SeedOK
<1>2. ASSUME NEW i \in Instances PROVE BootOK(inst[i])'
  BY BootKept DEF SeedOK
<1>3. ASSUME NEW r \in Requests PROVE ServedOK(req[r])'
  BY ServedKept DEF SeedOK
<1> QED BY <1>1, <1>2, <1>3 DEF SeedOK

\* Nobody writes the tables.
LEMMA NothingWritten ==
    ASSUME SeedOK, UNCHANGED <<perm, role>>
    PROVE  PermsKept /\ RolesKept
BY DEF SeedOK, SeededRowsOK, PermsKept, RolesKept

-----------------------------------------------------------------------------
(* The kinds of steps that write nothing *)

Busy(pc) == pc \in {"unlink", "userRelink", "userLink"}

LEMMA QuietInst ==
    ASSUME CatalogueInv, NEW i \in Instances, InstMoves(i), InstOK(inst[i])',
           ~Busy(inst[i].pc), ~Busy(inst'[i].pc), ~touched => BootOK(inst[i])',
           UNCHANGED <<perm, role, admin, member, req, crashes, calls, due, kept, torn, bare, touched>>
    PROVE  CatalogueInv'
<1>1. Typed'
  BY InstTyped DEF CatalogueInv, Typed, PermsOK, RolesOK, RestOK, Grown
<1>2. LinksOK'
  <2>1. \A k \in Instances : At(k, "unlink") => inst'[k] = inst[k]
    BY DEF InstMoves, Busy, At
  <2>2. \A r \in Requests : req'[r] = req[r]
    OBVIOUS
  <2> QED BY <2>1, <2>2, LinksSame DEF CatalogueInv
<1>3. AccountOK'
  BY AccountSame DEF CatalogueInv
<1>4. ASSUME ~touched PROVE SeedOK'
  <2>1. Typed /\ SeedOK /\ PermsKept /\ RolesKept
    BY <1>4, NothingWritten DEF CatalogueInv
  <2>2. AdminOK'
    BY <2>1, AdminSame DEF SeedOK, InstMoves, AdminLinking, Busy
  <2> QED BY <1>4, <2>1, <2>2, SeedSame DEF InstMoves
<1> QED BY <1>1, <1>2, <1>3, <1>4 DEF CatalogueInv

LEMMA QuietReq ==
    ASSUME CatalogueInv, NEW r \in Requests, ReqMoves(r), ReqOK(req[r])',
           ~ReqAt(r, "unlink"), ~Linking(req[r]), ~Linking(req'[r]), ~touched => ServedOK(req[r])',
           UNCHANGED <<perm, role, admin, member, inst, crashes, due, kept, torn, bare, touched>>,
           calls' \in 0..MaxCalls
    PROVE  CatalogueInv'
<1>1. Typed'
  BY ReqTyped DEF CatalogueInv, Typed, PermsOK, RolesOK, RestOK, Grown
<1>2. LinksOK'
  <2>1. \A s \in Requests : ReqAt(s, "unlink") => req'[s] = req[s]
    BY DEF ReqMoves
  <2>2. \A i \in Instances : inst'[i] = inst[i]
    OBVIOUS
  <2> QED BY <2>1, <2>2, LinksSame DEF CatalogueInv
<1>3. AccountOK'
  BY AccountSame DEF CatalogueInv, ReqMoves
<1>4. ASSUME ~touched PROVE SeedOK'
  <2>1. Typed /\ SeedOK /\ PermsKept /\ RolesKept
    BY <1>4, NothingWritten DEF CatalogueInv
  <2>2. AdminOK'
    BY <2>1, AdminSame DEF SeedOK, AdminLinking
  <2> QED BY <1>4, <2>1, <2>2, SeedSame DEF ReqMoves
<1> QED BY <1>1, <1>2, <1>3, <1>4 DEF CatalogueInv

-----------------------------------------------------------------------------
(* SeedAdmin: the steps that write nothing *)

LEMMA DownTyped ==
    /\ Down \in Instance /\ Down.pc = "down"
    /\ \A t \in SUBSET All : /\ [Down EXCEPT !.pc = "perm", !.todo = t] \in Instance
                             /\ [Down EXCEPT !.pc = "perm", !.todo = t].pc = "perm"
                             /\ [Down EXCEPT !.pc = "perm", !.todo = t].todo = t
    /\ \A pc \in BootSteps : [Down EXCEPT !.pc = pc] \in Instance /\ [Down EXCEPT !.pc = pc].pc = pc
<1>1. 0 \in 0..MaxRoles /\ "ADMIN" \in RoleNames \cup PermNames
  BY CatalogueAssumption DEF RoleNames, SeedRoles
<1>2. "down" \in BootSteps /\ "perm" \in BootSteps
  BY DEF BootSteps
<1> QED BY <1>1, <1>2 DEF Down, Instance

LEMMA InstSet ==
    ASSUME Typed, NEW i \in Instances, NEW q \in Instance, inst' = [inst EXCEPT ![i] = q]
    PROVE  InstMoves(i) /\ inst'[i] = q
BY DEF Typed, LocalsOK, InstMoves

LEMMA FatalStep ==
    ASSUME CatalogueInv, NEW i \in Instances, Fatal(i), ~Busy(inst[i].pc),
           UNCHANGED <<perm, role, admin, member, req, crashes, calls, due, kept, torn, bare, touched>>
    PROVE  CatalogueInv'
<1> DEFINE q == [Down EXCEPT !.pc = "failed"]
<1>1. q \in Instance /\ q.pc = "failed"
  BY DownTyped DEF BootSteps
<1>2. inst' = [inst EXCEPT ![i] = q]
  BY DEF Fatal
<1> HIDE DEF q
<1>3. InstMoves(i) /\ inst'[i].pc = "failed"
  <2>1. PICK p \in Instance : p = q
    BY <1>1
  <2> QED BY <1>1, <1>2, <2>1, InstSet DEF CatalogueInv
<1>4. InstOK(inst[i])' /\ BootOK(inst[i])' /\ ~Busy(inst'[i].pc)
  BY <1>3 DEF InstOK, BootOK, Busy, RoleSteps, UserSteps
<1> QED BY <1>3, <1>4, QuietInst

LEMMA BootStep ==
    ASSUME CatalogueInv, NEW i \in Instances, Boot(i)
    PROVE  CatalogueInv'
<1> DEFINE q == [Down EXCEPT !.pc = "perm", !.todo = All]
<1>1. q \in Instance /\ q.pc = "perm" /\ q.todo = All
  BY DownTyped
<1>2. inst' = [inst EXCEPT ![i] = q]
  BY DEF Boot
<1> HIDE DEF q
<1>3. InstMoves(i) /\ inst'[i].pc = "perm" /\ inst'[i].todo = All
  <2>1. PICK p \in Instance : p = q
    BY <1>1
  <2> QED BY <1>1, <1>2, <2>1, InstSet DEF CatalogueInv
<1>4. InstOK(inst[i])' /\ BootOK(inst[i])' /\ ~Busy(inst'[i].pc)
  BY <1>3 DEF InstOK, BootOK, Busy, RoleSteps, UserSteps
<1> QED BY <1>3, <1>4, QuietInst DEF Boot, Busy

\* Where the loop over permission.All goes on.
LEMMA NextNameTyped ==
    ASSUME NEW q \in Instance
    PROVE  /\ NextName(q) \in Instance
           /\ \/ NextName(q).pc = "role" /\ NextName(q).name = "ADMIN" /\ q.todo = {}
              \/ NextName(q).pc = "perm" /\ NextName(q).todo = q.todo
<1>1. "ADMIN" \in RoleNames \cup PermNames /\ "role" \in BootSteps /\ "perm" \in BootSteps
  BY DEF RoleNames, SeedRoles, BootSteps
<1> QED BY <1>1 DEF NextName, Instance

LEMMA SeedPermissionStep ==
    ASSUME CatalogueInv, NEW i \in Instances, NEW n \in All, SeedPermission(i, n)
    PROVE  CatalogueInv'
<1> DEFINE q == [inst[i] EXCEPT !.todo = @ \ {n}, !.name = n]
<1>0. inst[i] \in Instance /\ inst[i].pc = "perm" /\ Typed
  BY DEF CatalogueInv, Typed, LocalsOK, SeedPermission, At
<1>1. q \in Instance /\ q.todo = inst[i].todo \ {n} /\ q.name = n
  BY <1>0 DEF Instance, PermNames
<1>2. inst' = [inst EXCEPT ![i] =
              IF Named(perm, {n}) = {} THEN [q EXCEPT !.pc = "permCreate"] ELSE NextName(q)]
  BY DEF SeedPermission
<1>3. [q EXCEPT !.pc = "permCreate"] \in Instance
  BY <1>1 DEF Instance, BootSteps
<1>4. /\ [q EXCEPT !.pc = "permCreate"].pc = "permCreate" /\ [q EXCEPT !.pc = "permCreate"].name = n
      /\ [q EXCEPT !.pc = "permCreate"].todo = inst[i].todo \ {n}
  BY <1>1, <1>3 DEF Instance
<1> HIDE DEF q
<1>5. PICK s \in Instance : q = s
  BY <1>1
<1>6. ~touched => \A m \in All \ inst[i].todo : PermReady(m)
  BY <1>0 DEF CatalogueInv, SeedOK, BootOK
<1>7. CASE Named(perm, {n}) = {}
  <2>1. PICK p \in Instance : p = [q EXCEPT !.pc = "permCreate"]
    BY <1>3
  <2>2. InstMoves(i) /\ inst'[i].pc = "permCreate" /\ inst'[i].name = n
        /\ inst'[i].todo = inst[i].todo \ {n}
    BY <1>0, <1>2, <1>4, <1>7, <2>1, InstSet
  <2>3. InstOK(inst[i])' /\ ~Busy(inst'[i].pc)
    BY <2>2 DEF InstOK, Busy
  <2>4. ~touched => BootOK(inst[i])'
    <3>1. ~touched => \A m \in All \ inst[i].todo : PermReady(m)'
      BY <1>6 DEF PermReady, SeedPermission
    <3> QED BY <2>2, <3>1 DEF BootOK, RoleSteps, UserSteps
  <2> QED BY <1>0, <2>2, <2>3, <2>4, QuietInst DEF SeedPermission, Busy
<1>8. CASE Named(perm, {n}) # {}
  <2>1. PICK p \in Instance : p = NextName(q)
    BY <1>5, NextNameTyped
  <2>2. InstMoves(i) /\ inst'[i] = p
    BY <1>0, <1>2, <1>8, <2>1, InstSet
  <2>3. \/ p.pc = "role" /\ p.name = "ADMIN" /\ inst[i].todo \ {n} = {}
        \/ p.pc = "perm" /\ p.todo = inst[i].todo \ {n}
    BY <1>1, <1>5, <2>1, NextNameTyped
  <2>4. PermReady(n)
    BY <1>8 DEF Named, PermReady
  <2>5. InstOK(inst[i])' /\ ~Busy(inst'[i].pc)
    BY <2>2, <2>3 DEF InstOK, Busy, SeedRoles
  <2>6. ~touched => BootOK(inst[i])'
    <3>1. ~touched => \A m \in All \ (inst[i].todo \ {n}) : PermReady(m)'
      BY <1>6, <2>4 DEF PermReady, SeedPermission
    <3> QED BY <2>2, <2>3, <3>1 DEF BootOK, RoleSteps, UserSteps, PermsReady
  <2> QED BY <1>0, <2>2, <2>5, <2>6, QuietInst DEF SeedPermission, Busy
<1> QED BY <1>7, <1>8

\* An instance goes on and keeps some of its local variables.
InstGoes(i, pc, name, id, perms) ==
    /\ InstMoves(i)
    /\ inst'[i].pc = pc /\ inst'[i].name = name /\ inst'[i].id = id /\ inst'[i].perms = perms

LEMMA InstFields ==
    ASSUME Typed, NEW i \in Instances, NEW pc \in BootSteps, NEW name \in RoleNames \cup PermNames,
           NEW id \in 0..MaxRoles, NEW perms \in SUBSET PermIDs
    PROVE  /\ Goto(i, pc) => InstGoes(i, pc, inst[i].name, inst[i].id, inst[i].perms)
           /\ inst' = [inst EXCEPT ![i].pc = pc, ![i].id = id] =>
                InstGoes(i, pc, inst[i].name, id, inst[i].perms)
           /\ inst' = [inst EXCEPT ![i].pc = pc, ![i].perms = perms] =>
                InstGoes(i, pc, inst[i].name, inst[i].id, perms)
           /\ inst' = [inst EXCEPT ![i].pc = pc, ![i].id = id, ![i].perms = perms] =>
                InstGoes(i, pc, inst[i].name, id, perms)
           /\ inst' = [inst EXCEPT ![i].pc = pc, ![i].name = name, ![i].id = id, ![i].perms = perms] =>
                InstGoes(i, pc, name, id, perms)
<1>0. inst \in [Instances -> Instance] /\ inst[i] \in Instance
  BY DEF Typed, LocalsOK
<1>1. Goto(i, pc) => InstGoes(i, pc, inst[i].name, inst[i].id, inst[i].perms)
  <2> SUFFICES ASSUME inst' = [inst EXCEPT ![i] = [inst[i] EXCEPT !.pc = pc]]
               PROVE  InstGoes(i, pc, inst[i].name, inst[i].id, inst[i].perms)
    BY DEF Goto
  <2>1. PICK q \in Instance : q = [inst[i] EXCEPT !.pc = pc]
    BY <1>0 DEF Instance
  <2> QED BY <1>0, <2>1, InstSet DEF InstGoes, Instance
<1>2. ASSUME inst' = [inst EXCEPT ![i].pc = pc, ![i].id = id]
      PROVE  InstGoes(i, pc, inst[i].name, id, inst[i].perms)
  <2>1. PICK q \in Instance : q = [inst[i] EXCEPT !.pc = pc, !.id = id]
    BY <1>0 DEF Instance
  <2>2. inst' = [inst EXCEPT ![i] = q]
    BY <1>2, <2>1, <1>0
  <2> QED BY <1>0, <2>1, <2>2, InstSet DEF InstGoes, Instance
<1>3. ASSUME inst' = [inst EXCEPT ![i].pc = pc, ![i].perms = perms]
      PROVE  InstGoes(i, pc, inst[i].name, inst[i].id, perms)
  <2>1. PICK q \in Instance : q = [inst[i] EXCEPT !.pc = pc, !.perms = perms]
    BY <1>0 DEF Instance
  <2>2. inst' = [inst EXCEPT ![i] = q]
    BY <1>3, <2>1, <1>0
  <2> QED BY <1>0, <2>1, <2>2, InstSet DEF InstGoes, Instance
<1>4. ASSUME inst' = [inst EXCEPT ![i].pc = pc, ![i].id = id, ![i].perms = perms]
      PROVE  InstGoes(i, pc, inst[i].name, id, perms)
  <2>1. PICK q \in Instance : q = [inst[i] EXCEPT !.pc = pc, !.id = id, !.perms = perms]
    BY <1>0 DEF Instance
  <2>2. inst' = [inst EXCEPT ![i] = q]
    BY <1>4, <2>1, <1>0
  <2> QED BY <1>0, <2>1, <2>2, InstSet DEF InstGoes, Instance
<1>5. ASSUME inst' = [inst EXCEPT ![i].pc = pc, ![i].name = name, ![i].id = id, ![i].perms = perms]
      PROVE  InstGoes(i, pc, name, id, perms)
  <2>1. PICK q \in Instance : q = [inst[i] EXCEPT !.pc = pc, !.name = name, !.id = id, !.perms = perms]
    BY <1>0 DEF Instance
  <2>2. inst' = [inst EXCEPT ![i] = q]
    BY <1>5, <2>1, <1>0
  <2> QED BY <1>0, <2>1, <2>2, InstSet DEF InstGoes, Instance
<1> QED BY <1>1, <1>2, <1>3, <1>4, <1>5

LEMMA ensureRoleStep ==
    ASSUME CatalogueInv, NEW i \in Instances, ensureRole(i)
    PROVE  CatalogueInv'
<1>0. /\ Typed /\ inst[i].pc = "role" /\ InstOK(inst[i]) /\ inst[i] \in Instance
      /\ UNCHANGED <<perm, role, admin, member, req, crashes, calls, due, kept, torn, bare, touched>>
  BY DEF CatalogueInv, Typed, LocalsOK, ensureRole, At
<1>1. "roleCreate" \in BootSteps /\ "resolve" \in BootSteps /\ ~Busy("role") /\ ~Busy("roleCreate")
      /\ ~Busy("resolve")
  BY DEF BootSteps, Busy
<1>2. ~touched => PermsReady /\ (inst[i].name = "USER" => RoleReady("ADMIN"))
  BY <1>0 DEF CatalogueInv, SeedOK, BootOK, RoleSteps
<1>3. ~touched => PermsReady' /\ (inst[i].name = "USER" => RoleReady("ADMIN")')
  BY <1>0, <1>2 DEF PermsReady, PermReady, RoleReady, Named, Live
<1>4. inst[i].name \in SeedRoles /\ inst[i].id \in 0..MaxRoles /\ inst[i].perms \in SUBSET PermIDs
      /\ inst[i].name \in RoleNames \cup PermNames
  BY <1>0 DEF InstOK, Instance
<1>5. CASE Named(role, {inst[i].name}) = {}
  <2>1. Goto(i, "roleCreate")
    BY <1>5 DEF ensureRole
  <2>2. InstGoes(i, "roleCreate", inst[i].name, inst[i].id, inst[i].perms)
    BY <1>0, <1>1, <1>4, <2>1, InstFields
  <2>3. InstOK(inst[i])' /\ (~touched => BootOK(inst[i])')
    BY <1>3, <1>4, <2>2 DEF InstGoes, InstOK, BootOK, RoleSteps, UserSteps
  <2> QED BY <1>0, <1>1, <2>2, <2>3, QuietInst DEF InstGoes
<1>6. CASE Named(role, {inst[i].name}) # {}
  <2>1. PICK k \in Named(role, {inst[i].name}) :
            inst' = [inst EXCEPT ![i].pc = "resolve", ![i].id = k]
    BY <1>6 DEF ensureRole
  <2>2. k \in DOMAIN role /\ role[k].name = inst[i].name /\ k \in 0..MaxRoles
    BY <1>0, TablesTyped, NamedTyped
  <2>3. InstGoes(i, "resolve", inst[i].name, k, inst[i].perms)
    BY <1>0, <1>1, <1>4, <2>1, <2>2, InstFields
  <2>4. InstOK(inst[i])' /\ (~touched => BootOK(inst[i])')
    BY <1>0, <1>3, <1>4, <2>2, <2>3 DEF InstGoes, InstOK, BootOK, RoleSteps, UserSteps
  <2> QED BY <1>0, <1>1, <2>3, <2>4, QuietInst DEF InstGoes
<1> QED BY <1>5, <1>6

LEMMA ensureRoleResolveStep ==
    ASSUME CatalogueInv, NEW i \in Instances, ensureRoleResolve(i)
    PROVE  CatalogueInv'
<1>0. /\ Typed /\ inst[i].pc = "resolve" /\ InstOK(inst[i]) /\ inst[i] \in Instance
      /\ UNCHANGED <<perm, role, admin, member, req, crashes, calls, due, kept, torn, bare, touched>>
      /\ inst' = [inst EXCEPT ![i].pc = "link", ![i].perms = Named(perm, Wanted(inst[i].name))]
  BY DEF CatalogueInv, Typed, LocalsOK, ensureRoleResolve, At
<1>1. "link" \in BootSteps /\ ~Busy("resolve") /\ ~Busy("link")
  BY DEF BootSteps, Busy
<1>2. PICK ps \in SUBSET PermIDs : ps = Named(perm, Wanted(inst[i].name))
  BY <1>0, NamedTyped
<1>3. /\ inst[i].name \in SeedRoles /\ inst[i].id \in 0..MaxRoles /\ inst[i].id \in DOMAIN role
      /\ inst[i].name \in RoleNames \cup PermNames
  BY <1>0 DEF InstOK, Instance
<1>4. InstGoes(i, "link", inst[i].name, inst[i].id, ps)
  BY <1>0, <1>1, <1>2, <1>3, InstFields
<1>5. InstOK(inst[i])'
  BY <1>0, <1>3, <1>4 DEF InstGoes, InstOK
<1>6. ~touched => BootOK(inst[i])'
  <2>1. ~touched => /\ PermsReady /\ (inst[i].name = "USER" => RoleReady("ADMIN"))
                    /\ role[inst[i].id].name = inst[i].name
    BY <1>0 DEF CatalogueInv, SeedOK, BootOK, RoleSteps
  <2>2. ~touched => PermsReady' /\ (inst[i].name = "USER" => RoleReady("ADMIN")')
    BY <1>0, <2>1 DEF PermsReady, PermReady, RoleReady, Named, Live
  <2>3. inst'[i].perms = Named(perm, Wanted(inst[i].name))' /\ inst'[i].name = inst[i].name
    BY <1>0, <1>2, <1>4 DEF InstGoes, Named, Live
  <2> QED BY <1>0, <1>4, <2>1, <2>2, <2>3 DEF InstGoes, BootOK, RoleSteps, UserSteps
<1> QED BY <1>0, <1>1, <1>4, <1>5, <1>6, QuietInst DEF InstGoes

LEMMA SeedUserStep ==
    ASSUME CatalogueInv, NEW i \in Instances, SeedUser(i)
    PROVE  CatalogueInv'
<1> DEFINE pc == IF admin.state = "live" THEN "serving" ELSE "adminRole"
           q == [Down EXCEPT !.pc = pc]
<1>0. /\ Typed /\ inst[i].pc = "user" /\ inst' = [inst EXCEPT ![i] = q]
      /\ UNCHANGED <<perm, role, admin, member, req, crashes, calls, due, kept, torn, bare, touched>>
  BY DEF CatalogueInv, SeedUser, At
<1>1. pc \in BootSteps /\ ~Busy("user") /\ ~Busy(pc) /\ pc \in {"serving", "adminRole"}
      /\ (pc = "serving" => admin.state = "live")
  BY DEF BootSteps, Busy
<1> HIDE DEF pc
<1>2. q \in Instance /\ q.pc = pc
  BY <1>1, DownTyped
<1> HIDE DEF q
<1>3. PICK p \in Instance : p = q
  BY <1>2
<1>4. InstMoves(i) /\ inst'[i].pc = pc
  BY <1>0, <1>2, <1>3, InstSet
<1>5. InstOK(inst[i])'
  BY <1>1, <1>4 DEF InstOK
<1>6. ~touched => BootOK(inst[i])'
  <2>1. ~touched => PermsReady /\ RolesReady
    BY <1>0 DEF CatalogueInv, SeedOK, BootOK, UserSteps
  <2>2. ~touched => PermsReady' /\ RolesReady'
    BY <1>0, <2>1 DEF PermsReady, PermReady, RolesReady, RoleReady, Named, Live
  <2> QED BY <1>0, <1>1, <1>4, <2>2 DEF BootOK, RoleSteps, UserSteps
<1> QED BY <1>0, <1>1, <1>4, <1>5, <1>6, QuietInst

LEMMA SeedAdminRoleStep ==
    ASSUME CatalogueInv, NEW i \in Instances, SeedAdminRole(i)
    PROVE  CatalogueInv'
<1>0. /\ Typed /\ inst[i].pc = "adminRole" /\ inst[i] \in Instance
      /\ UNCHANGED <<perm, role, admin, member, req, crashes, calls, due, kept, torn, bare, touched>>
  BY DEF CatalogueInv, Typed, LocalsOK, SeedAdminRole, At
<1>1. "userCreate" \in BootSteps /\ ~Busy("adminRole") /\ ~Busy("userCreate")
  BY DEF BootSteps, Busy
<1>2. CASE Named(role, {"ADMIN"}) = {}
  BY <1>0, <1>1, <1>2, FatalStep DEF SeedAdminRole
<1>3. CASE Named(role, {"ADMIN"}) # {}
  <2>1. PICK k \in Named(role, {"ADMIN"}) :
            inst' = [inst EXCEPT ![i].pc = "userCreate", ![i].id = k, ![i].perms = Preloaded(k)]
    BY <1>3 DEF SeedAdminRole
  <2>2. k \in DOMAIN role /\ role[k].name = "ADMIN" /\ k \in 0..MaxRoles
    BY <1>0, TablesTyped, NamedTyped
  <2>3. PICK ps \in SUBSET PermIDs : ps = Preloaded(k)
    BY <1>0, PreloadedTyped
  <2>4. inst[i].name \in RoleNames \cup PermNames
    BY <1>0 DEF Instance
  <2>5. InstGoes(i, "userCreate", inst[i].name, k, ps)
    BY <1>0, <1>1, <2>1, <2>2, <2>3, <2>4, InstFields
  <2>6. InstOK(inst[i])'
    BY <1>0, <2>2, <2>5 DEF InstGoes, InstOK
  <2>7. ~touched => BootOK(inst[i])'
    <3>1. ~touched => PermsReady /\ RolesReady
      BY <1>0 DEF CatalogueInv, SeedOK, BootOK, UserSteps
    <3>2. ~touched => PermsReady' /\ RolesReady'
      BY <1>0, <3>1 DEF PermsReady, PermReady, RolesReady, RoleReady, Named, Live
    <3>3. ~touched => ps \subseteq Named(perm, All)
      <4>1. ~touched => role[k].perms \subseteq Named(perm, All)
        BY <2>2 DEF CatalogueInv, SeedOK, SeededRowsOK, SeedRoles, Wanted
      <4> QED BY <1>0, <2>3, <4>1, PreloadedTyped
    <3>4. ~touched => ps \subseteq Named(perm, All)'
      BY <1>0, <3>3 DEF Named, Live
    <3> QED BY <1>0, <2>2, <2>5, <3>2, <3>4 DEF InstGoes, BootOK, RoleSteps, UserSteps
  <2> QED BY <1>0, <1>1, <2>5, <2>6, <2>7, QuietInst DEF InstGoes
<1> QED BY <1>2, <1>3

-----------------------------------------------------------------------------
(* SeedAdmin: the steps that write a row *)

\* Nobody is in the middle of a Replace that instance i begins or ends.
LEMMA InstLeavesReplaces ==
    ASSUME NEW i \in Instances, InstMoves(i), ~At(i, "unlink"), UNCHANGED req
    PROVE  /\ \A k \in Instances : At(k, "unlink") => inst'[k] = inst[k]
           /\ \A r \in Requests : ReqAt(r, "unlink") => req'[r] = req[r]
           /\ \A r \in Requests : Linking(req'[r]) <=> Linking(req[r])
BY DEF InstMoves, At

\* While an instance still creates a permission that is not there, no instance
\* has come to the roles and no request has been let in.
LEMMA SeedPermissionCreateStep ==
    ASSUME CatalogueInv, NEW i \in Instances, SeedPermissionCreate(i)
    PROVE  CatalogueInv'
<1>0. /\ Typed /\ inst[i].pc = "permCreate" /\ inst[i] \in Instance
      /\ inst[i].name \in All /\ inst[i].name \in PermNames
      /\ UNCHANGED <<role, admin, member, req, crashes, calls, due, kept, torn, bare, touched>>
  BY DEF CatalogueInv, Typed, LocalsOK, InstOK, SeedPermissionCreate, At, PermNames
<1>1. CASE ~NameFree(perm, inst[i].name, 0)
  <2>1. Fatal(i) /\ UNCHANGED perm /\ ~Busy(inst[i].pc)
    BY <1>0, <1>1 DEF SeedPermissionCreate, Busy
  <2> QED BY <1>0, <2>1, FatalStep
<1>2. CASE NameFree(perm, inst[i].name, 0)
  <2>1. /\ PermCount < MaxPerms
        /\ perm' = Put(perm, PermCount + 1, [name |-> inst[i].name, deleted |-> FALSE])
        /\ inst' = [inst EXCEPT ![i] = NextName(inst[i])]
    BY <1>2 DEF SeedPermissionCreate
  <2>2. PICK n \in PermNames : n = inst[i].name
    BY <1>0
  <2>3. /\ PermsOK'
        /\ \A k \in DOMAIN perm : k \in DOMAIN perm' /\ perm'[k] = perm[k] /\ perm[k].name # n
        /\ \A k \in DOMAIN perm' : k \in DOMAIN perm \/ perm'[k] = [name |-> n, deleted |-> FALSE]
        /\ perm' # perm
    BY <1>0, <1>2, <2>1, <2>2, PermInserted
  <2>4. PICK p \in Instance : p = NextName(inst[i])
    BY <1>0, NextNameTyped
  <2>5. InstMoves(i) /\ inst'[i] = p
    BY <1>0, <2>1, <2>4, InstSet
  <2>6. \/ p.pc = "role" /\ p.name = "ADMIN" /\ inst[i].todo = {}
        \/ p.pc = "perm" /\ p.todo = inst[i].todo
    BY <1>0, <2>4, NextNameTyped
  <2>7. Typed'
    <3>1. InstOK(inst[i])'
      BY <2>5, <2>6 DEF InstOK, SeedRoles
    <3>2. RolesOK' /\ RestOK' /\ Grown
      BY <1>0, <2>3 DEF Typed, RolesOK, RestOK, Grown
    <3> QED BY <1>0, <2>3, <2>5, <3>1, <3>2, InstTyped
  <2>8. ~At(i, "unlink")
    BY <1>0 DEF At
  <2>9. LinksOK'
    BY <1>0, <2>5, <2>8, InstLeavesReplaces, LinksSame DEF CatalogueInv
  <2>10. AccountOK'
    BY <1>0, <2>5, <2>8, InstLeavesReplaces, AccountSame DEF CatalogueInv
  <2>11. ASSUME ~touched PROVE SeedOK'
    <3>1. SeedOK
      BY <2>11 DEF CatalogueInv
    <3>2. ~PermsReady
      BY <1>0, <2>2, <2>3 DEF PermsReady, PermReady
    <3>3. /\ \A k \in Instances : inst[k].pc \notin RoleSteps \cup UserSteps
          /\ \A r \in Requests : req[r].pc = "idle"
      BY <3>1, <3>2 DEF SeedOK, BootOK, ServedOK
    <3>4. /\ \A m : PermReady(m) => PermReady(m)'
          /\ PermReady(n)'
      <4>1. \E k \in DOMAIN perm' : perm'[k] = [name |-> n, deleted |-> FALSE]
        BY <1>0, <2>1, <2>2, Counted DEF Put
      <4>2. PermReady(n)'
        BY <4>1 DEF PermReady
      <4> QED BY <2>3, <4>2 DEF PermReady
    <3>5. SeededRowsOK'
      <4>1. \A k \in DOMAIN perm' : perm'[k].name \in All => ~perm'[k].deleted
        BY <2>3, <3>1 DEF SeedOK, SeededRowsOK
      <4>2. \A m : Named(perm, Wanted(m)) \subseteq Named(perm, Wanted(m))'
        BY <2>3 DEF Named, Live
      <4>3. \A k \in DOMAIN role : role[k].name \in SeedRoles =>
              ~role[k].deleted /\ role[k].perms \subseteq Named(perm, Wanted(role[k].name))'
        BY <1>0, <3>1, <4>2 DEF SeedOK, SeededRowsOK
      <4> QED BY <1>0, <4>1, <4>3 DEF SeededRowsOK
    <3>6. AdminOK'
      BY <1>0, <3>1, <3>3 DEF SeedOK, AdminOK, AdminLinking, UserSteps
    <3>7. ASSUME NEW k \in Instances PROVE BootOK(inst[k])'
      <4>1. CASE k = i
        <5>1. \A m \in All \ inst[i].todo : PermReady(m)'
          BY <1>0, <2>2, <3>1, <3>4 DEF SeedOK, BootOK
        <5> QED BY <2>5, <2>6, <4>1, <5>1 DEF BootOK, PermsReady, RoleSteps, UserSteps
      <4>2. CASE k # i
        <5>1. inst'[k] = inst[k] /\ inst[k].pc \notin RoleSteps \cup UserSteps
          BY <2>5, <3>3, <4>2 DEF InstMoves
        <5>2. BootOK(inst[k])
          BY <3>1 DEF SeedOK
        <5> QED BY <3>4, <5>1, <5>2 DEF BootOK, RoleSteps, UserSteps
      <4> QED BY <4>1, <4>2
    <3>8. ASSUME NEW r \in Requests PROVE ServedOK(req[r])'
      BY <1>0, <3>3 DEF ServedOK, Linking
    <3> QED BY <3>5, <3>6, <3>7, <3>8 DEF SeedOK
  <2> QED BY <1>0, <2>7, <2>9, <2>10, <2>11 DEF CatalogueInv
<1> QED BY <1>1, <1>2

LEMMA ensureRoleCreateStep ==
    ASSUME CatalogueInv, NEW i \in Instances, ensureRoleCreate(i)
    PROVE  CatalogueInv'
<1>0. /\ Typed /\ inst[i].pc = "roleCreate" /\ inst[i] \in Instance
      /\ inst[i].name \in SeedRoles /\ inst[i].name \in RoleNames
      /\ UNCHANGED <<perm, admin, member, req, crashes, calls, due, kept, torn, bare, touched>>
  BY DEF CatalogueInv, Typed, LocalsOK, InstOK, ensureRoleCreate, At, RoleNames
<1>1. CASE ~NameFree(role, inst[i].name, 0)
  <2>1. Fatal(i) /\ UNCHANGED role /\ ~Busy(inst[i].pc)
    BY <1>0, <1>1 DEF ensureRoleCreate, Busy
  <2> QED BY <1>0, <2>1, FatalStep
<1>2. CASE NameFree(role, inst[i].name, 0)
  <2>1. /\ RoleCount + 1 <= MaxRoles
        /\ role' = Put(role, RoleCount + 1,
                       [name |-> inst[i].name, deleted |-> FALSE, perms |-> {}])
        /\ inst' = [inst EXCEPT ![i].pc = "resolve", ![i].id = RoleCount + 1]
    BY <1>2 DEF ensureRoleCreate
  <2>2. PICK n \in RoleNames : n = inst[i].name
    BY <1>0
  <2>3. /\ RolesOK' /\ role' # role /\ RoleCount + 1 \in DOMAIN role'
        /\ \A k \in DOMAIN role : k \in DOMAIN role' /\ role'[k] = role[k] /\ role[k].name # n
        /\ \A k \in DOMAIN role' : k \in DOMAIN role \/ k = RoleCount + 1
        /\ role'[RoleCount + 1] = [name |-> n, deleted |-> FALSE, perms |-> {}]
    BY <1>0, <1>2, <2>1, <2>2, RoleInserted
  <2>4. RoleCount + 1 \in 0..MaxRoles
    BY <1>0, <2>1, Counted, TablesTyped
  <2>5. InstGoes(i, "resolve", n, RoleCount + 1, inst[i].perms)
    <3>1. "resolve" \in BootSteps /\ inst[i].perms \in SUBSET PermIDs
          /\ inst[i].name \in RoleNames \cup PermNames
      BY <1>0 DEF BootSteps, Instance
    <3>2. PICK m \in 0..MaxRoles : m = RoleCount + 1
      BY <2>4
    <3> QED BY <1>0, <2>1, <2>2, <3>1, <3>2, InstFields
  <2>6. Typed'
    <3>1. InstOK(inst[i])'
      BY <1>0, <2>2, <2>3, <2>5 DEF InstOK, InstGoes
    <3>2. PermsOK' /\ RestOK' /\ Grown
      BY <1>0, <2>3 DEF Typed, PermsOK, RestOK, Grown
    <3> QED BY <1>0, <2>3, <2>5, <3>1, <3>2, InstTyped DEF InstGoes
  <2>7. ~At(i, "unlink") /\ InstMoves(i)
    BY <1>0, <2>5 DEF At, InstGoes
  <2>8. LinksOK'
    <3>1. \A k \in DOMAIN role' :
              \/ role'[k].perms = {}
              \/ /\ k \in DOMAIN role /\ due'[k] = due[k] /\ kept[k] \subseteq kept'[k]
                 /\ role'[k].perms \subseteq role[k].perms \cup kept'[k]
      BY <1>0, <2>3
    <3> QED BY <1>0, <2>7, <3>1, InstLeavesReplaces, LinksSame DEF CatalogueInv
  <2>9. AccountOK'
    BY <1>0, <2>7, InstLeavesReplaces, AccountSame DEF CatalogueInv
  <2>10. ASSUME ~touched PROVE SeedOK'
    <3>1. SeedOK
      BY <2>10 DEF CatalogueInv
    <3>2. PermsKept /\ RolesKept
      <4>1. PermsKept
        BY <1>0 DEF PermsKept
      <4>2. \A k \in DOMAIN role : role[k].name \in SeedRoles =>
                 role[k].perms \subseteq Named(perm, Wanted(role[k].name))
        BY <3>1 DEF SeedOK, SeededRowsOK
      <4>3. RolesKept
        BY <2>3, <4>2 DEF RolesKept
      <4> QED BY <4>1, <4>3
    <3>3. AdminOK'
      BY <1>0, <2>7, <3>1, <3>2, <2>5, AdminSame DEF SeedOK, InstMoves, AdminLinking, InstGoes
    <3>4. BootOK(inst[i])'
      <4>1. PermsReady' /\ (n = "USER" => RoleReady("ADMIN")')
        BY <1>0, <2>2, <3>1, <3>2, ReadyKept DEF SeedOK, BootOK, RoleSteps
      <4>2. role'[RoleCount + 1].name = n
        BY <2>3
      <4> QED BY <2>5, <4>1, <4>2 DEF InstGoes, BootOK, RoleSteps, UserSteps
    <3> QED BY <1>0, <2>7, <3>1, <3>2, <3>3, <3>4, SeedSame DEF InstMoves
  <2> QED BY <1>0, <2>6, <2>8, <2>9, <2>10 DEF CatalogueInv
<1> QED BY <1>1, <1>2

-----------------------------------------------------------------------------
(* The statements that write the links of a role *)

\* The permissions of role id become ps, and nothing else of the table changes.
LinksBecome(id, ps) ==
    /\ RolesOK' /\ DOMAIN role' = DOMAIN role /\ role'[id].perms = ps
    /\ \A k \in DOMAIN role : /\ k # id => role'[k] = role[k]
                              /\ role'[k].name = role[k].name
                              /\ role'[k].deleted = role[k].deleted

LEMMA LinkWrites ==
    ASSUME Typed, NEW id \in DOMAIN role, NEW ps \in SUBSET PermIDs, InsertLinks(id, ps)
    PROVE  /\ LinksBecome(id, role[id].perms \cup ps)
           /\ due' \in [RoleIDs -> SUBSET PermIDs] /\ due'[id] = ps
           /\ \A k \in DOMAIN role : k # id => due'[k] = due[k]
<1>1. id \in RoleIDs /\ role[id].perms \in SUBSET PermIDs /\ DOMAIN role \subseteq RoleIDs
  BY TablesTyped
<1>2. PICK new \in SUBSET PermIDs : new = role[id].perms \cup ps
  BY <1>1
<1>3. role' = [role EXCEPT ![id].perms = new] /\ due' = [due EXCEPT ![id] = ps]
  BY <1>2 DEF InsertLinks
<1>4. LinksBecome(id, new)
  BY <1>3, RoleLinked DEF LinksBecome
<1>5. due \in [RoleIDs -> SUBSET PermIDs]
  BY DEF Typed, RestOK
<1> QED BY <1>1, <1>2, <1>3, <1>4, <1>5

LEMMA UnlinkWrites ==
    ASSUME Typed, NEW id \in DOMAIN role, NEW ps, DeleteOtherLinks(id, ps)
    PROVE  LinksBecome(id, role[id].perms \cap ps)
<1>1. role[id].perms \in SUBSET PermIDs
  BY TablesTyped
<1>2. PICK new \in SUBSET PermIDs : new = role[id].perms \cap ps
  BY <1>1
<1>3. role' = [role EXCEPT ![id].perms = new]
  BY <1>2 DEF DeleteOtherLinks
<1>4. LinksBecome(id, new)
  BY <1>3, RoleLinked DEF LinksBecome
<1> QED BY <1>2, <1>4

LEMMA RelinkNotes ==
    ASSUME Typed, NEW id \in DOMAIN role, NEW ps \in SUBSET PermIDs, Relink(id, ps)
    PROVE  /\ kept' \in [RoleIDs -> SUBSET PermIDs]
           /\ \A k \in DOMAIN role : kept[k] \subseteq kept'[k]
           /\ ps \subseteq role[id].perms \cup kept'[id]
<1>1. id \in RoleIDs /\ DOMAIN role \subseteq RoleIDs
  BY TablesTyped
<1>2. kept \in [RoleIDs -> SUBSET PermIDs]
  BY DEF Typed, RestOK
<1>3. PICK more \in SUBSET PermIDs : more = ps \ role[id].perms
  OBVIOUS
<1>4. kept' = [kept EXCEPT ![id] = kept[id] \cup more]
  BY <1>3 DEF Relink
<1>5. kept' \in [RoleIDs -> SUBSET PermIDs]
      /\ \A k \in RoleIDs : kept'[k] = IF k = id THEN kept[id] \cup more ELSE kept[k]
  BY <1>1, <1>2, <1>4
<1> QED BY <1>1, <1>3, <1>5

LEMMA RelinkWrites ==
    ASSUME Typed, NEW id \in DOMAIN role, NEW ps \in SUBSET PermIDs,
           role' = [role EXCEPT ![id].perms = @ \cup ps]
    PROVE  LinksBecome(id, role[id].perms \cup ps)
<1>1. PICK new \in SUBSET PermIDs : new = role[id].perms \cup ps
  BY TablesTyped
<1>2. role' = [role EXCEPT ![id].perms = new]
  BY <1>1
<1>3. LinksBecome(id, new)
  BY <1>2, RoleLinked DEF LinksBecome
<1> QED BY <1>1, <1>3

\* Who begins a Replace on role id is the last one there.
LEMMA LinkedLinks ==
    ASSUME LinksOK, NEW id, NEW new, LinksBecome(id, new), UNCHANGED kept,
           \A k \in DOMAIN role : k # id => due'[k] = due[k], Replacing(id)',
           \A i \in Instances : At(i, "unlink") => inst'[i] = inst[i],
           \A r \in Requests : ReqAt(r, "unlink") => req'[r] = req[r]
    PROVE  LinksOK'
<1> SUFFICES ASSUME NEW k \in DOMAIN role', k # id
             PROVE  role'[k].perms \subseteq due'[k] \cup kept'[k] \/ Replacing(k)'
  BY DEF LinksOK
<1>1. k \in DOMAIN role /\ role'[k] = role[k] /\ due'[k] = due[k]
  BY DEF LinksBecome
<1>2. CASE role[k].perms \subseteq due[k] \cup kept[k]
  BY <1>1, <1>2
<1>3. CASE Replacing(k)
  BY <1>1, <1>3 DEF Replacing, ReqAt, At
<1> QED BY <1>1, <1>2, <1>3 DEF LinksOK

\* Who ends a Replace on role id leaves only what it has linked.
LEMMA UnlinkedLinks ==
    ASSUME LinksOK, NEW id \in DOMAIN role, NEW ps, LinksBecome(id, role[id].perms \cap ps),
           UNCHANGED <<kept, due>>,
           \A k \in DOMAIN role : Replacing(k) => Replacing(k)' \/ (k = id /\ ps = due[k])
    PROVE  LinksOK'
<1> SUFFICES ASSUME NEW k \in DOMAIN role', ~Replacing(k)'
             PROVE  role'[k].perms \subseteq due'[k] \cup kept'[k]
  BY DEF LinksOK
<1>1. k \in DOMAIN role /\ role'[k].perms \subseteq role[k].perms
  BY DEF LinksBecome
<1>2. CASE k = id /\ ps = due[k]
  BY <1>2 DEF LinksBecome
<1>3. CASE ~Replacing(k)
  BY <1>1, <1>3 DEF LinksOK
<1> QED BY <1>1, <1>2, <1>3

\* What a stale write links again is noted.
LEMMA RelinkedLinks ==
    ASSUME LinksOK, NEW id, NEW ps, LinksBecome(id, role[id].perms \cup ps), UNCHANGED due,
           \A k \in DOMAIN role : kept[k] \subseteq kept'[k],
           ps \subseteq role[id].perms \cup kept'[id],
           \A i \in Instances : At(i, "unlink") => inst'[i] = inst[i],
           \A r \in Requests : ReqAt(r, "unlink") => req'[r] = req[r]
    PROVE  LinksOK'
<1>1. \A k \in DOMAIN role' :
          /\ k \in DOMAIN role /\ due'[k] = due[k] /\ kept[k] \subseteq kept'[k]
          /\ role'[k].perms \subseteq role[k].perms \cup kept'[k]
  BY DEF LinksBecome
<1> QED BY <1>1, LinksSame

\* A seeded role gains at most what it should have.
LEMMA LinksKeep ==
    ASSUME SeededRowsOK, UNCHANGED perm, NEW id \in DOMAIN role, NEW new, LinksBecome(id, new),
           role[id].name \in SeedRoles =>
             role[id].perms \subseteq new /\ new \subseteq Named(perm, Wanted(role[id].name))
    PROVE  PermsKept /\ RolesKept
<1>1. PermsKept
  BY DEF PermsKept
<1>2. ASSUME NEW k \in DOMAIN role, role[k].name \in SeedRoles \/ role'[k].name \in SeedRoles
      PROVE  /\ role'[k].name = role[k].name /\ role'[k].deleted = role[k].deleted
             /\ role[k].perms \subseteq role'[k].perms
             /\ role'[k].perms \subseteq Named(perm, Wanted(role[k].name))
  <2>1. role'[k].name = role[k].name /\ role'[k].deleted = role[k].deleted
        /\ role[k].name \in SeedRoles
    BY <1>2 DEF LinksBecome
  <2>2. CASE k = id
    BY <2>1, <2>2 DEF LinksBecome
  <2>3. CASE k # id
    BY <2>1, <2>3 DEF LinksBecome, SeededRowsOK
  <2> QED BY <2>1, <2>2, <2>3
<1>3. RolesKept
  BY <1>2 DEF RolesKept, LinksBecome
<1> QED BY <1>1, <1>3

LEMMA ensureRoleLinkStep ==
    ASSUME CatalogueInv, NEW i \in Instances, ensureRoleLink(i)
    PROVE  CatalogueInv'
<1>0. /\ Typed /\ inst[i].pc = "link" /\ inst[i] \in Instance /\ InstOK(inst[i])
      /\ UNCHANGED <<perm, admin, member, req, crashes, calls, kept, torn, bare, touched>>
      /\ InsertLinks(inst[i].id, inst[i].perms) /\ Goto(i, "unlink")
  BY DEF CatalogueInv, Typed, LocalsOK, ensureRoleLink, At
<1>1. PICK id \in DOMAIN role : id = inst[i].id
  BY <1>0 DEF InstOK
<1>2. PICK ps \in SUBSET PermIDs : ps = inst[i].perms
  BY <1>0 DEF Instance
<1>3. /\ LinksBecome(id, role[id].perms \cup ps)
      /\ due' \in [RoleIDs -> SUBSET PermIDs] /\ due'[id] = ps
      /\ \A k \in DOMAIN role : k # id => due'[k] = due[k]
  BY <1>0, <1>1, <1>2, LinkWrites
<1>4. InstGoes(i, "unlink", inst[i].name, id, ps)
  <2>1. "unlink" \in BootSteps /\ id \in 0..MaxRoles /\ inst[i].name \in RoleNames \cup PermNames
    BY <1>0, TablesTyped DEF BootSteps, Instance
  <2> QED BY <1>0, <1>1, <1>2, <2>1, InstFields
<1>5. Typed'
  <2>1. InstOK(inst[i])'
    BY <1>0, <1>3, <1>4 DEF InstGoes, InstOK, LinksBecome
  <2>2. PermsOK' /\ RestOK' /\ Grown
    BY <1>0, <1>3 DEF Typed, PermsOK, RestOK, Grown, LinksBecome
  <2> QED BY <1>0, <1>3, <1>4, <2>1, <2>2, InstTyped DEF InstGoes, LinksBecome
<1>6. InstMoves(i) /\ ~At(i, "unlink")
  BY <1>0, <1>4 DEF InstGoes, At
<1>7. LinksOK'
  <2>1. Replacing(id)'
    BY <1>3, <1>4 DEF Replacing, At, InstGoes
  <2>2. PICK new : new = role[id].perms \cup ps
    OBVIOUS
  <2> QED BY <1>0, <1>3, <1>6, <2>1, <2>2, InstLeavesReplaces, LinkedLinks DEF CatalogueInv
<1>8. AccountOK'
  BY <1>0, <1>6, InstLeavesReplaces, AccountSame DEF CatalogueInv
<1>9. ASSUME ~touched PROVE SeedOK'
  <2>1. SeedOK /\ BootOK(inst[i]) /\ SeededRowsOK
    BY <1>9 DEF CatalogueInv, SeedOK
  <2>2. role[id].name = inst[i].name /\ inst[i].name \in SeedRoles /\ ps = Named(perm, Wanted(inst[i].name))
    BY <1>0, <1>1, <1>2, <2>1 DEF BootOK, InstOK
  <2>3. role[id].perms \subseteq ps
    BY <2>1, <2>2 DEF SeededRowsOK
  <2>4. PICK new : new = role[id].perms \cup ps
    OBVIOUS
  <2>5. PermsKept /\ RolesKept
    BY <1>0, <1>3, <2>1, <2>2, <2>3, <2>4, LinksKeep
  <2>6. AdminOK'
    BY <1>0, <1>6, <2>1, <2>5, AdminSame DEF SeedOK, InstMoves, AdminLinking
  <2>7. BootOK(inst[i])'
    <3>1. PermsReady' /\ (inst[i].name = "USER" => RoleReady("ADMIN")')
      BY <1>0, <2>1, <2>5, ReadyKept DEF BootOK, RoleSteps
    <3>2. role'[id].name = inst[i].name /\ ps \subseteq role'[id].perms
      BY <1>3, <2>2 DEF LinksBecome
    <3>3. PICK nm \in SeedRoles : nm = inst[i].name
      BY <2>2
    <3>4. ps = Named(perm, Wanted(nm))'
      BY <2>2, <2>5, <3>3, ReadyKept
    <3>5. inst'[i].name = nm
      BY <1>4, <3>3 DEF InstGoes
    <3> QED BY <1>4, <3>1, <3>2, <3>3, <3>4, <3>5 DEF InstGoes, BootOK, RoleSteps, UserSteps
  <2> QED BY <1>0, <1>6, <2>1, <2>5, <2>6, <2>7, SeedSame DEF InstMoves
<1> QED BY <1>0, <1>5, <1>7, <1>8, <1>9 DEF CatalogueInv

LEMMA ensureRoleUnlinkStep ==
    ASSUME CatalogueInv, NEW i \in Instances, ensureRoleUnlink(i)
    PROVE  CatalogueInv'
<1> DEFINE next == IF inst[i].name = "ADMIN" THEN "role" ELSE "user"
<1>0. /\ Typed /\ inst[i].pc = "unlink" /\ inst[i] \in Instance /\ InstOK(inst[i])
      /\ UNCHANGED <<perm, admin, member, req, crashes, calls, due, kept, torn, bare, touched>>
      /\ DeleteOtherLinks(inst[i].id, inst[i].perms)
      /\ inst' = [inst EXCEPT ![i].pc = next, ![i].name = "USER", ![i].id = 0, ![i].perms = {}]
  BY DEF CatalogueInv, Typed, LocalsOK, ensureRoleUnlink, At
<1>1. PICK id \in DOMAIN role : id = inst[i].id
  BY <1>0 DEF InstOK
<1>2. PICK ps \in SUBSET PermIDs : ps = inst[i].perms
  BY <1>0 DEF Instance
<1>3. LinksBecome(id, role[id].perms \cap ps)
  BY <1>0, <1>1, <1>2, UnlinkWrites
<1>4. InstGoes(i, next, "USER", 0, {})
  <2>1. "USER" \in RoleNames \cup PermNames /\ 0 \in 0..MaxRoles /\ {} \in SUBSET PermIDs
    BY TablesTyped, <1>0 DEF RoleNames, SeedRoles
  <2>2. PICK pc \in BootSteps : pc = next
    BY DEF BootSteps
  <2> QED BY <1>0, <2>1, <2>2, InstFields
<1>5. next \in {"role", "user"}
  OBVIOUS
<1>6. Typed'
  <2>1. InstOK(inst[i])'
    BY <1>4, <1>5 DEF InstGoes, InstOK, SeedRoles
  <2>2. PermsOK' /\ RestOK' /\ Grown
    BY <1>0, <1>3 DEF Typed, PermsOK, RestOK, Grown, LinksBecome
  <2> QED BY <1>0, <1>3, <1>4, <2>1, <2>2, InstTyped DEF InstGoes, LinksBecome
<1>7. LinksOK'
  <2>1. ASSUME NEW k \in DOMAIN role, Replacing(k)
        PROVE  Replacing(k)' \/ (k = id /\ ps = due[k])
    <3>1. CASE \E r \in Requests : ReqAt(r, "unlink") /\ req[r].id = k /\ req[r].perms = due[k]
      BY <1>0, <3>1 DEF Replacing, ReqAt
    <3>2. CASE \E j \in Instances : At(j, "unlink") /\ inst[j].id = k /\ inst[j].perms = due[k]
      <4>1. PICK j \in Instances : At(j, "unlink") /\ inst[j].id = k /\ inst[j].perms = due[k]
        BY <3>2
      <4>2. CASE j = i
        BY <1>1, <1>2, <4>1, <4>2
      <4>3. CASE j # i
        BY <1>0, <1>4, <4>1, <4>3 DEF Replacing, At, InstGoes, InstMoves
      <4> QED BY <4>2, <4>3
    <3> QED BY <2>1, <3>1, <3>2 DEF Replacing
  <2> QED BY <1>0, <1>3, <2>1, UnlinkedLinks DEF CatalogueInv
<1>8. AccountOK'
  BY <1>0, AccountSame DEF CatalogueInv
<1>9. ASSUME ~touched PROVE SeedOK'
  <2>1. SeedOK /\ BootOK(inst[i]) /\ SeededRowsOK
    BY <1>9 DEF CatalogueInv, SeedOK
  <2>2. /\ role[id].name = inst[i].name /\ inst[i].name \in SeedRoles
        /\ ps = Named(perm, Wanted(inst[i].name)) /\ ps \subseteq role[id].perms
    BY <1>0, <1>1, <1>2, <2>1 DEF BootOK, InstOK
  <2>3. role[id].perms = ps /\ role[id].perms \cap ps = ps
    BY <2>1, <2>2 DEF SeededRowsOK
  <2>4. PermsKept /\ RolesKept
    BY <1>0, <1>3, <2>1, <2>2, <2>3, LinksKeep
  <2>5. AdminOK'
    BY <1>0, <1>4, <2>1, <2>4, AdminSame DEF SeedOK, InstMoves, AdminLinking, InstGoes
  <2>6. BootOK(inst[i])'
    <3>1. PermsReady'
      BY <1>0, <2>1, <2>4, ReadyKept DEF BootOK, RoleSteps
    <3>2. inst[i].name = "ADMIN" => RoleReady("ADMIN")'
      <4>1. inst[i].name = "ADMIN" => RoleReady("ADMIN")
        BY <2>2, <2>3 DEF RoleReady
      <4> QED BY <2>4, <4>1, ReadyKept
    <3>3. inst[i].name # "ADMIN" => RolesReady'
      <4>1. inst[i].name # "ADMIN" => inst[i].name = "USER"
        BY <2>2 DEF SeedRoles
      <4>2. inst[i].name = "USER" => RoleReady("USER")
        BY <2>2, <2>3 DEF RoleReady
      <4>3. inst[i].name = "USER" => RoleReady("ADMIN")
        BY <1>0, <2>1 DEF BootOK, RoleSteps
      <4>4. inst[i].name # "ADMIN" => RolesReady
        BY <4>1, <4>2, <4>3 DEF RolesReady
      <4> QED BY <2>4, <4>4, ReadyKept
    <3>4. next = "role" => inst[i].name = "ADMIN"
      OBVIOUS
    <3>5. next = "user" => inst[i].name # "ADMIN"
      OBVIOUS
    <3> HIDE DEF next
    <3> QED BY <1>4, <1>5, <3>1, <3>2, <3>3, <3>4, <3>5 DEF InstGoes, BootOK, RoleSteps, UserSteps
  <2> QED BY <1>0, <1>4, <2>1, <2>4, <2>5, <2>6, SeedSame DEF InstMoves, InstGoes
<1> QED BY <1>0, <1>6, <1>7, <1>8, <1>9 DEF CatalogueInv

LEMMA SeedUserCreateStep ==
    ASSUME CatalogueInv, NEW i \in Instances, SeedUserCreate(i)
    PROVE  CatalogueInv'
<1>0. /\ Typed /\ inst[i].pc = "userCreate" /\ inst[i] \in Instance /\ InstOK(inst[i])
      /\ UNCHANGED <<perm, role, member, req, crashes, calls, due, kept, torn, bare, touched>>
  BY DEF CatalogueInv, Typed, LocalsOK, SeedUserCreate, At
<1>1. CASE admin.state # "absent"
  <2>1. Fatal(i) /\ UNCHANGED admin /\ ~Busy(inst[i].pc)
    BY <1>0, <1>1 DEF SeedUserCreate, Busy
  <2> QED BY <1>0, <2>1, FatalStep
<1>2. CASE admin.state = "absent"
  <2>1. admin' = [admin EXCEPT !.state = "live"] /\ Goto(i, "userRelink")
    BY <1>2 DEF SeedUserCreate
  <2>2. admin' \in UserRow /\ admin'.state = "live"
    BY <1>0, <2>1 DEF Typed, RestOK, UserRow
  <2>3. InstGoes(i, "userRelink", inst[i].name, inst[i].id, inst[i].perms)
    <3>1. /\ "userRelink" \in BootSteps /\ inst[i].id \in 0..MaxRoles
          /\ inst[i].name \in RoleNames \cup PermNames /\ inst[i].perms \in SUBSET PermIDs
      BY <1>0 DEF BootSteps, Instance
    <3> QED BY <1>0, <2>1, <3>1, InstFields
  <2>4. Typed'
    <3>1. InstOK(inst[i])'
      BY <1>0, <2>3 DEF InstGoes, InstOK
    <3>2. PermsOK' /\ RolesOK' /\ RestOK' /\ Grown
      BY <1>0, <2>2 DEF Typed, PermsOK, RolesOK, RestOK, Grown
    <3> QED BY <1>0, <2>3, <3>1, <3>2, InstTyped DEF InstGoes
  <2>5. InstMoves(i) /\ ~At(i, "unlink")
    BY <1>0, <2>3 DEF InstGoes, At
  <2>6. LinksOK'
    BY <1>0, <2>5, InstLeavesReplaces, LinksSame DEF CatalogueInv
  <2>7. AccountOK'
    BY <1>0, <2>5, InstLeavesReplaces, AccountSame DEF CatalogueInv
  <2>8. ASSUME ~touched PROVE SeedOK'
    <3>1. SeedOK /\ BootOK(inst[i])
      BY <2>8 DEF CatalogueInv, SeedOK
    <3>2. PermsKept /\ RolesKept
      BY <1>0, <3>1, NothingWritten
    <3>3. AdminOK'
      BY <2>2, <2>3 DEF AdminOK, AdminLinking, InstGoes
    <3>4. BootOK(inst[i])'
      <4>1. /\ PermsReady' /\ RolesReady' /\ Named(perm, All)' = Named(perm, All)
        BY <1>0, <3>1, <3>2, ReadyKept DEF BootOK, UserSteps
      <4>2. role'[inst[i].id].name = "ADMIN" /\ inst[i].perms \subseteq Named(perm, All)
        BY <1>0, <3>1 DEF BootOK
      <4> QED BY <2>2, <2>3, <4>1, <4>2 DEF InstGoes, BootOK, RoleSteps, UserSteps
    <3> QED BY <1>0, <2>2, <2>5, <3>1, <3>2, <3>3, <3>4, SeedSame DEF InstMoves
  <2> QED BY <1>0, <2>4, <2>6, <2>7, <2>8 DEF CatalogueInv
<1> QED BY <1>1, <1>2

LEMMA SeedUserRelinkStep ==
    ASSUME CatalogueInv, NEW i \in Instances, SeedUserRelink(i)
    PROVE  CatalogueInv'
<1>0. /\ Typed /\ inst[i].pc = "userRelink" /\ inst[i] \in Instance /\ InstOK(inst[i])
      /\ UNCHANGED <<perm, admin, member, req, crashes, calls, due, torn, bare, touched>>
      /\ role' = [role EXCEPT ![inst[i].id].perms = @ \cup inst[i].perms]
      /\ Relink(inst[i].id, inst[i].perms) /\ Goto(i, "userLink")
  BY DEF CatalogueInv, Typed, LocalsOK, SeedUserRelink, At
<1>1. PICK id \in DOMAIN role : id = inst[i].id
  BY <1>0 DEF InstOK
<1>2. PICK ps \in SUBSET PermIDs : ps = inst[i].perms
  BY <1>0 DEF Instance
<1>3. /\ LinksBecome(id, role[id].perms \cup ps)
      /\ kept' \in [RoleIDs -> SUBSET PermIDs]
      /\ \A k \in DOMAIN role : kept[k] \subseteq kept'[k]
      /\ ps \subseteq role[id].perms \cup kept'[id]
  <2>1. role' = [role EXCEPT ![id].perms = @ \cup ps] /\ Relink(id, ps)
    BY <1>0, <1>1, <1>2
  <2> QED BY <1>0, <2>1, RelinkWrites, RelinkNotes
<1>4. InstGoes(i, "userLink", inst[i].name, id, ps)
  <2>1. "userLink" \in BootSteps /\ id \in 0..MaxRoles /\ inst[i].name \in RoleNames \cup PermNames
    BY <1>0, TablesTyped DEF BootSteps, Instance
  <2> QED BY <1>0, <1>1, <1>2, <2>1, InstFields
<1>5. Typed'
  <2>1. InstOK(inst[i])'
    BY <1>0, <1>3, <1>4 DEF InstGoes, InstOK, LinksBecome
  <2>2. PermsOK' /\ RestOK' /\ Grown
    BY <1>0, <1>3 DEF Typed, PermsOK, RestOK, Grown, LinksBecome
  <2> QED BY <1>0, <1>3, <1>4, <2>1, <2>2, InstTyped DEF InstGoes, LinksBecome
<1>6. InstMoves(i) /\ ~At(i, "unlink")
  BY <1>0, <1>4 DEF InstGoes, At
<1>7. LinksOK'
  BY <1>0, <1>3, <1>6, InstLeavesReplaces, RelinkedLinks DEF CatalogueInv
<1>8. AccountOK'
  BY <1>0, <1>6, InstLeavesReplaces, AccountSame DEF CatalogueInv
<1>9. ASSUME ~touched PROVE SeedOK'
  <2>1. SeedOK /\ BootOK(inst[i]) /\ SeededRowsOK
    BY <1>9 DEF CatalogueInv, SeedOK
  <2>2. role[id].name = "ADMIN" /\ ps \subseteq Named(perm, All) /\ Wanted("ADMIN") = All
    BY <1>0, <1>1, <1>2, <2>1 DEF BootOK, Wanted
  <2>3. PICK new : new = role[id].perms \cup ps
    OBVIOUS
  <2>4. role[id].perms \subseteq new /\ new \subseteq Named(perm, Wanted(role[id].name))
    BY <2>1, <2>2, <2>3 DEF SeededRowsOK, SeedRoles
  <2>5. PermsKept /\ RolesKept
    BY <1>0, <1>3, <2>1, <2>3, <2>4, LinksKeep
  <2>6. AdminOK'
    BY <1>0, <1>4, <2>1, <2>5, AdminSame DEF SeedOK, InstMoves, AdminLinking, InstGoes
  <2>7. BootOK(inst[i])'
    <3>1. PermsReady' /\ RolesReady' /\ Named(perm, All)' = Named(perm, All) /\ admin.state = "live"
      BY <1>0, <2>1, <2>5, ReadyKept DEF BootOK, UserSteps
    <3>2. role'[id].name = "ADMIN"
      BY <1>3, <2>2 DEF LinksBecome
    <3> QED BY <1>0, <1>4, <2>2, <3>1, <3>2 DEF InstGoes, BootOK, RoleSteps, UserSteps
  <2> QED BY <1>0, <1>6, <2>1, <2>5, <2>6, <2>7, SeedSame DEF InstMoves
<1> QED BY <1>0, <1>5, <1>7, <1>8, <1>9 DEF CatalogueInv

LEMMA SeedUserLinkStep ==
    ASSUME CatalogueInv, NEW i \in Instances, SeedUserLink(i)
    PROVE  CatalogueInv'
<1> DEFINE q == [Down EXCEPT !.pc = "serving"]
<1>0. /\ Typed /\ inst[i].pc = "userLink" /\ inst[i] \in Instance /\ InstOK(inst[i])
      /\ UNCHANGED <<perm, role, member, req, crashes, calls, due, kept, torn, bare, touched>>
      /\ admin' = [admin EXCEPT !.roles = @ \cup {inst[i].id}]
      /\ inst' = [inst EXCEPT ![i] = q]
  BY DEF CatalogueInv, Typed, LocalsOK, SeedUserLink, At
<1>1. q \in Instance /\ q.pc = "serving"
  BY DownTyped DEF BootSteps
<1> HIDE DEF q
<1>2. PICK p \in Instance : p = q
  BY <1>1
<1>3. InstMoves(i) /\ inst'[i].pc = "serving"
  BY <1>0, <1>1, <1>2, InstSet
<1>4. PICK id \in DOMAIN role : id = inst[i].id
  BY <1>0 DEF InstOK
<1>5. admin' \in UserRow /\ admin'.state = admin.state /\ id \in admin'.roles
  <2>1. id \in RoleIDs
    BY <1>0, TablesTyped
  <2> QED BY <1>0, <1>4, <2>1 DEF Typed, RestOK, UserRow
<1>6. Typed'
  <2>1. InstOK(inst[i])'
    BY <1>3 DEF InstOK
  <2>2. PermsOK' /\ RolesOK' /\ RestOK' /\ Grown
    BY <1>0, <1>5 DEF Typed, PermsOK, RolesOK, RestOK, Grown
  <2> QED BY <1>0, <1>3, <2>1, <2>2, InstTyped
<1>7. ~At(i, "unlink")
  BY <1>0 DEF At
<1>8. LinksOK'
  BY <1>0, <1>3, <1>7, InstLeavesReplaces, LinksSame DEF CatalogueInv
<1>9. AccountOK'
  BY <1>0, <1>3, <1>7, InstLeavesReplaces, AccountSame DEF CatalogueInv
<1>10. ASSUME ~touched PROVE SeedOK'
  <2>1. SeedOK /\ BootOK(inst[i])
    BY <1>10 DEF CatalogueInv, SeedOK
  <2>2. PermsKept /\ RolesKept
    BY <1>0, <2>1, NothingWritten
  <2>3. role[id].name = "ADMIN" /\ admin.state = "live"
    BY <1>0, <1>4, <2>1 DEF BootOK
  <2>4. AdminOK'
    BY <1>0, <1>5, <2>3 DEF AdminOK
  <2>5. PermsReady' /\ RolesReady'
    BY <1>0, <2>1, <2>2, ReadyKept DEF BootOK, UserSteps
  <2>6. BootOK(inst[i])'
    BY <1>3, <1>5, <2>3, <2>5 DEF BootOK, RoleSteps, UserSteps
  <2> QED BY <1>0, <1>3, <1>5, <2>1, <2>2, <2>4, <2>6, SeedSame DEF InstMoves
<1> QED BY <1>0, <1>6, <1>8, <1>9, <1>10 DEF CatalogueInv

\* What nobody will remove any more is noted.
LEMMA LeftBehindTyped ==
    ASSUME Typed, NEW id, NEW pc, pc = "unlink" => id \in DOMAIN role
    PROVE  /\ LeftBehind(pc, id) \in [RoleIDs -> SUBSET PermIDs]
           /\ \A k \in RoleIDs : kept[k] \subseteq LeftBehind(pc, id)[k]
           /\ pc = "unlink" => role[id].perms \subseteq LeftBehind(pc, id)[id]
<1>1. kept \in [RoleIDs -> SUBSET PermIDs]
  BY DEF Typed, RestOK
<1>2. CASE pc # "unlink"
  BY <1>1, <1>2 DEF LeftBehind
<1>3. CASE pc = "unlink"
  <2>1. id \in RoleIDs
    BY <1>3, TablesTyped
  <2>2. PICK more \in SUBSET PermIDs : more = role[id].perms
    BY <1>3, TablesTyped
  <2>3. LeftBehind(pc, id) = [kept EXCEPT ![id] = kept[id] \cup more]
    BY <1>3, <2>2 DEF LeftBehind
  <2> QED BY <1>1, <2>1, <2>2, <2>3
<1> QED BY <1>2, <1>3

LEMMA CrashStep ==
    ASSUME CatalogueInv, NEW i \in Instances, Crash(i)
    PROVE  CatalogueInv'
<1>0. /\ Typed /\ inst[i] \in Instance /\ InstOK(inst[i]) /\ crashes < MaxCrashes /\ crashes' = crashes + 1
      /\ inst' = [inst EXCEPT ![i] = Down] /\ kept' = LeftBehind(inst[i].pc, inst[i].id)
      /\ torn' = (torn \/ inst[i].pc \in {"userRelink", "userLink"})
      /\ UNCHANGED <<perm, role, admin, member, req, calls, due, bare, touched>>
  BY DEF CatalogueInv, Typed, LocalsOK, Crash
<1>1. InstMoves(i) /\ inst'[i].pc = "down"
  <2>1. PICK q \in Instance : q = Down /\ q.pc = "down"
    BY DownTyped
  <2>2. inst' = [inst EXCEPT ![i] = q]
    BY <1>0, <2>1
  <2> QED BY <1>0, <2>1, <2>2, InstSet
<1>2. /\ kept' \in [RoleIDs -> SUBSET PermIDs]
      /\ \A k \in DOMAIN role : kept[k] \subseteq kept'[k]
      /\ At(i, "unlink") => role[inst[i].id].perms \subseteq kept'[inst[i].id]
  <2>1. PICK pc, id : pc = inst[i].pc /\ id = inst[i].id
    OBVIOUS
  <2>2. pc = "unlink" => id \in DOMAIN role
    BY <1>0, <2>1 DEF InstOK
  <2>3. kept' = LeftBehind(pc, id) /\ DOMAIN role \subseteq RoleIDs
    BY <1>0, <2>1, TablesTyped
  <2> QED BY <1>0, <2>1, <2>2, <2>3, LeftBehindTyped DEF At
<1>3. Typed'
  <2>1. InstOK(inst[i])'
    BY <1>1 DEF InstOK
  <2>2. crashes' \in 0..MaxCrashes
    BY <1>0, CatalogueAssumption DEF Typed, RestOK
  <2>3. torn' \in BOOLEAN
    BY <1>0 DEF Typed, RestOK
  <2>4. PermsOK' /\ RolesOK' /\ RestOK' /\ Grown
    BY <1>0, <1>2, <2>2, <2>3 DEF Typed, PermsOK, RolesOK, RestOK, Grown
  <2> QED BY <1>0, <1>1, <2>1, <2>4, InstTyped
<1>4. LinksOK'
  <2> SUFFICES ASSUME NEW k \in DOMAIN role, ~Replacing(k)'
               PROVE  role[k].perms \subseteq due[k] \cup kept'[k]
    BY <1>0 DEF LinksOK
  <2>1. CASE role[k].perms \subseteq due[k] \cup kept[k]
    BY <1>2, <2>1
  <2>2. CASE Replacing(k)
    <3>1. CASE \E r \in Requests : ReqAt(r, "unlink") /\ req[r].id = k /\ req[r].perms = due[k]
      BY <1>0, <3>1 DEF Replacing, ReqAt
    <3>2. CASE \E j \in Instances : At(j, "unlink") /\ inst[j].id = k /\ inst[j].perms = due[k]
      <4>1. PICK j \in Instances : At(j, "unlink") /\ inst[j].id = k /\ inst[j].perms = due[k]
        BY <3>2
      <4>2. CASE j = i
        BY <1>2, <4>1, <4>2
      <4>3. CASE j # i
        BY <1>0, <1>1, <4>1, <4>3 DEF Replacing, At, InstMoves
      <4> QED BY <4>2, <4>3
    <3> QED BY <2>2, <3>1, <3>2 DEF Replacing
  <2> QED BY <2>1, <2>2 DEF CatalogueInv, LinksOK
<1>5. AccountOK'
  BY <1>0, AccountSame DEF CatalogueInv
<1>6. ASSUME ~touched PROVE SeedOK'
  <2>1. SeedOK
    BY <1>6 DEF CatalogueInv
  <2>2. PermsKept /\ RolesKept
    BY <1>0, <2>1, NothingWritten
  <2>3. \A j \in Instances : AdminLinking(j) => torn' \/ AdminLinking(j)'
    BY <1>0, <1>1 DEF AdminLinking, InstMoves
  <2>4. torn => torn'
    BY <1>0
  <2>5. AdminOK'
    BY <1>0, <2>1, <2>2, <2>3, <2>4, AdminSame DEF SeedOK
  <2>6. BootOK(inst[i])'
    BY <1>1 DEF BootOK, RoleSteps, UserSteps
  <2> QED BY <1>0, <1>1, <2>1, <2>2, <2>5, <2>6, SeedSame DEF InstMoves
<1> QED BY <1>0, <1>3, <1>4, <1>5, <1>6 DEF CatalogueInv

-----------------------------------------------------------------------------
(* The endpoints: the first statement *)

LEMMA ReqSet ==
    ASSUME Typed, NEW r \in Requests, NEW q \in Request, Proceed(r, q)
    PROVE  ReqMoves(r) /\ req'[r] = q
BY DEF Typed, LocalsOK, ReqMoves, Proceed

LEMMA IdleTyped ==
    /\ Idle \in Request /\ Idle.pc = "idle" /\ Idle.id = 0
    /\ 0 \in 0..(MaxPerms + MaxRoles) /\ "ADMIN" \in RoleNames \cup PermNames
<1>1. 0 \in 0..(MaxPerms + MaxRoles) /\ "ADMIN" \in RoleNames \cup PermNames
  BY CatalogueAssumption DEF RoleNames, SeedRoles
<1> QED BY <1>1 DEF Idle, Request, ReqSteps

LEMMA FinishSet ==
    ASSUME Typed, NEW r \in Requests, Finish(r)
    PROVE  ReqMoves(r) /\ req'[r] = Idle /\ req'[r].pc = "idle"
BY IdleTyped, ReqSet DEF Finish, Proceed

\* An endpoint is served by an instance that has seeded the tables.
LEMMA ArriveStep ==
    ASSUME CatalogueInv, NEW r \in Requests, NEW e, Serves(r, e),
           NEW q \in Request, Proceed(r, q), ReqOK(q),
           q.pc \notin {"unlink", "regInsert", "regRelink", "regLink"},
           UNCHANGED <<perm, role, admin, member, inst, crashes, due, kept, torn, bare, touched>>
    PROVE  CatalogueInv'
<1>1. Typed /\ req[r].pc = "idle" /\ calls < MaxCalls /\ calls' = calls + 1
  BY DEF CatalogueInv, Serves
<1>2. PICK i \in Instances : inst[i].pc = "serving"
  BY DEF Serves, At
<1>3. calls' \in 0..MaxCalls
  BY <1>1, CatalogueAssumption DEF Typed, RestOK
<1>4. ReqMoves(r) /\ req'[r] = q
  BY <1>1, ReqSet
<1>5. ReqOK(req[r])'
  BY <1>4 DEF ReqOK
<1>6. ~touched => ServedOK(req[r])'
  <2>1. ~touched => PermsReady /\ RolesReady
    BY <1>2 DEF CatalogueInv, SeedOK, BootOK, UserSteps
  <2>2. ~touched => PermsReady' /\ RolesReady'
    BY <2>1 DEF PermsReady, PermReady, RolesReady, RoleReady, Named, Live
  <2> QED BY <1>4, <2>2 DEF ServedOK, Linking
<1>7. ~ReqAt(r, "unlink") /\ ~Linking(req[r]) /\ ~Linking(req'[r])
  BY <1>1, <1>4 DEF ReqAt, Linking
<1> QED BY <1>3, <1>4, <1>5, <1>6, <1>7, QuietReq

LEMMA ArriveOK ==
    ASSUME CatalogueInv, NEW r \in Requests, Arrive(r)
    PROVE  CatalogueInv'
<1>0. Typed
  BY DEF CatalogueInv
<1>1. ASSUME NEW n \in RoleNames, CreateRole(r, n) PROVE CatalogueInv'
  <2> DEFINE p == [Idle EXCEPT !.pc = "roleInsert", !.name = n]
  <2>0. p \in Request /\ p.pc = "roleInsert" /\ p.name = n
    BY IdleTyped DEF Idle, Request, ReqSteps
  <2> HIDE DEF p
  <2>1. PICK q \in Request : q = p /\ q.pc = "roleInsert" /\ q.name = n
    BY <2>0
  <2>2. ReqOK(q)
    BY <2>1 DEF ReqOK
  <2> QED BY <1>1, <2>1, <2>2, ArriveStep DEF CreateRole, p
<1>2. ASSUME NEW id \in RoleIDs, NEW n \in RoleNames, UpdateRole(r, id, n) PROVE CatalogueInv'
  <2>1. id \in DOMAIN role /\ id \in 0..(MaxPerms + MaxRoles)
    BY <1>0, <1>2, TablesTyped DEF UpdateRole, Live
  <2>2. PICK ps \in SUBSET PermIDs : ps = Preloaded(id)
    BY <1>0, PreloadedTyped
  <2> DEFINE p == [Idle EXCEPT !.pc = "roleSave", !.id = id, !.name = n, !.perms = ps]
  <2>0. p \in Request /\ p.pc = "roleSave" /\ p.id = id /\ p.name = n
    BY <2>1, IdleTyped DEF Idle, Request, ReqSteps
  <2> HIDE DEF p
  <2>3. PICK q \in Request : q = p /\ q.pc = "roleSave" /\ q.id = id /\ q.name = n
    BY <2>0
  <2>4. ReqOK(q)
    BY <2>1, <2>3 DEF ReqOK
  <2> QED BY <1>2, <2>2, <2>3, <2>4, ArriveStep DEF UpdateRole, p
<1>3. ASSUME NEW id \in RoleIDs, DeleteRole(r, id) PROVE CatalogueInv'
  <2>1. id \in DOMAIN role /\ id \in 0..(MaxPerms + MaxRoles)
    BY <1>0, <1>3, TablesTyped DEF DeleteRole, Live
  <2> DEFINE p == [Idle EXCEPT !.pc = "roleDelete", !.id = id]
  <2>0. p \in Request /\ p.pc = "roleDelete" /\ p.id = id
    BY <2>1, IdleTyped DEF Idle, Request, ReqSteps
  <2> HIDE DEF p
  <2>2. PICK q \in Request : q = p /\ q.pc = "roleDelete" /\ q.id = id
    BY <2>0
  <2>3. ReqOK(q)
    BY <2>1, <2>2 DEF ReqOK
  <2> QED BY <1>3, <2>2, <2>3, ArriveStep DEF DeleteRole, p
<1>4. ASSUME NEW id \in RoleIDs, NEW ns \in SUBSET All, AssignPermissions(r, id, ns)
      PROVE  CatalogueInv'
  <2>1. id \in DOMAIN role /\ id \in 0..(MaxPerms + MaxRoles) /\ ns \in SUBSET PermNames
    BY <1>0, <1>4, TablesTyped DEF AssignPermissions, Live, PermNames
  <2> DEFINE p == [Idle EXCEPT !.pc = "assignResolve", !.id = id, !.names = ns]
  <2>0. p \in Request /\ p.pc = "assignResolve" /\ p.id = id
    BY <2>1, IdleTyped DEF Idle, Request, ReqSteps
  <2> HIDE DEF p
  <2>2. PICK q \in Request : q = p /\ q.pc = "assignResolve" /\ q.id = id
    BY <2>0
  <2>3. ReqOK(q)
    BY <2>1, <2>2 DEF ReqOK
  <2> QED BY <1>4, <2>2, <2>3, ArriveStep DEF AssignPermissions, p
<1>5. ASSUME NEW n \in PermNames, CreatePermission(r, n) PROVE CatalogueInv'
  <2> DEFINE p == [Idle EXCEPT !.pc = "permInsert", !.name = n]
  <2>0. p \in Request /\ p.pc = "permInsert" /\ p.name = n
    BY IdleTyped DEF Idle, Request, ReqSteps
  <2> HIDE DEF p
  <2>1. PICK q \in Request : q = p /\ q.pc = "permInsert" /\ q.name = n
    BY <2>0
  <2>2. ReqOK(q)
    BY <2>1 DEF ReqOK
  <2> QED BY <1>5, <2>1, <2>2, ArriveStep DEF CreatePermission, p
<1>6. ASSUME NEW id \in PermIDs, NEW n \in PermNames, UpdatePermission(r, id, n)
      PROVE  CatalogueInv'
  <2>1. id \in DOMAIN perm /\ id \in 0..(MaxPerms + MaxRoles)
    BY <1>0, <1>6, TablesTyped DEF UpdatePermission, Live
  <2> DEFINE p == [Idle EXCEPT !.pc = "permSave", !.id = id, !.name = n]
  <2>0. p \in Request /\ p.pc = "permSave" /\ p.id = id /\ p.name = n
    BY <2>1, IdleTyped DEF Idle, Request, ReqSteps
  <2> HIDE DEF p
  <2>2. PICK q \in Request : q = p /\ q.pc = "permSave" /\ q.id = id /\ q.name = n
    BY <2>0
  <2>3. ReqOK(q)
    BY <2>1, <2>2 DEF ReqOK
  <2> QED BY <1>6, <2>2, <2>3, ArriveStep DEF UpdatePermission, p
<1>7. ASSUME NEW id \in PermIDs, DeletePermission(r, id) PROVE CatalogueInv'
  <2>1. id \in DOMAIN perm /\ id \in 0..(MaxPerms + MaxRoles)
    BY <1>0, <1>7, TablesTyped DEF DeletePermission, Live
  <2> DEFINE p == [Idle EXCEPT !.pc = "permDelete", !.id = id]
  <2>0. p \in Request /\ p.pc = "permDelete" /\ p.id = id
    BY <2>1, IdleTyped DEF Idle, Request, ReqSteps
  <2> HIDE DEF p
  <2>2. PICK q \in Request : q = p /\ q.pc = "permDelete" /\ q.id = id
    BY <2>0
  <2>3. ReqOK(q)
    BY <2>1, <2>2 DEF ReqOK
  <2> QED BY <1>7, <2>2, <2>3, ArriveStep DEF DeletePermission, p
<1>8. ASSUME Register(r) PROVE CatalogueInv'
  <2> DEFINE p == [Idle EXCEPT !.pc = "regRole"]
  <2>0. p \in Request /\ p.pc = "regRole" /\ p.id = 0
    BY IdleTyped DEF Idle, Request, ReqSteps
  <2> HIDE DEF p
  <2>1. PICK q \in Request : q = p /\ q.pc = "regRole" /\ q.id = 0
    BY <2>0
  <2>2. ReqOK(q)
    BY <2>1 DEF ReqOK
  <2> QED BY <1>8, <2>1, <2>2, ArriveStep DEF Register, p
<1> QED BY <1>1, <1>2, <1>3, <1>4, <1>5, <1>6, <1>7, <1>8 DEF Arrive

-----------------------------------------------------------------------------
(* The endpoints: the statements that write a row *)

LEMMA ReqLeavesReplaces ==
    ASSUME NEW r \in Requests, ReqMoves(r), ~ReqAt(r, "unlink"), UNCHANGED inst
    PROVE  /\ \A i \in Instances : At(i, "unlink") => inst'[i] = inst[i]
           /\ \A s \in Requests : ReqAt(s, "unlink") => req'[s] = req[s]
BY DEF ReqMoves

LEMMA ReqLeavesAccount ==
    ASSUME AccountOK, NEW r \in Requests, ReqMoves(r), UNCHANGED <<member, bare>>,
           Linking(req'[r]) <=> Linking(req[r])
    PROVE  AccountOK'
BY AccountSame DEF ReqMoves

LEMMA ReqLeavesSeed ==
    ASSUME Typed, SeedOK, PermsKept, RolesKept, UNCHANGED <<admin, inst, torn>>,
           NEW r \in Requests, ReqMoves(r), ServedOK(req[r])'
    PROVE  SeedOK'
<1>1. AdminOK'
  BY AdminSame DEF SeedOK, AdminLinking
<1> QED BY <1>1, SeedSame DEF ReqMoves

\* A request that ends, and what it has written.
LEMMA FinishStep ==
    ASSUME CatalogueInv, NEW r \in Requests, Finish(r), ~Linking(req[r]),
           PermsOK', RolesOK', RestOK', Grown, LinksOK',
           UNCHANGED <<admin, member, inst, torn, bare>>,
           ~touched' => ~touched /\ PermsKept /\ RolesKept
    PROVE  CatalogueInv'
<1>1. Typed /\ ReqMoves(r) /\ req'[r].pc = "idle"
  BY FinishSet DEF CatalogueInv
<1>2. ReqOK(req[r])' /\ ServedOK(req[r])' /\ ~Linking(req'[r])
  BY <1>1 DEF ReqOK, ServedOK, Linking
<1>3. Typed'
  BY <1>1, <1>2, ReqTyped
<1>4. AccountOK'
  BY <1>1, <1>2, ReqLeavesAccount DEF CatalogueInv
<1>5. ~touched' => SeedOK'
  BY <1>1, <1>2, ReqLeavesSeed DEF CatalogueInv
<1> QED BY <1>3, <1>4, <1>5 DEF CatalogueInv

LEMMA RoleInsertStep ==
    ASSUME CatalogueInv, NEW r \in Requests, RoleInsert(r)
    PROVE  CatalogueInv'
<1>0. /\ Typed /\ req[r].pc = "roleInsert" /\ ReqOK(req[r]) /\ Finish(r)
      /\ touched' = (touched \/ (req[r].name \in SeedRoles /\ role' # role))
      /\ UNCHANGED <<perm, admin, member, inst, crashes, calls, due, kept, torn, bare>>
  BY DEF CatalogueInv, Typed, LocalsOK, RoleInsert, ReqAt
<1>1. ReqMoves(r) /\ ~ReqAt(r, "unlink") /\ ~Linking(req[r])
  BY <1>0, FinishSet DEF ReqAt, Linking
<1>2. touched' \in BOOLEAN /\ (~touched' => ~touched)
  BY <1>0 DEF Typed, RestOK
<1>3. PermsOK' /\ RestOK' /\ PermsKept
  BY <1>0, <1>2 DEF Typed, PermsOK, RestOK, PermsKept
<1>4. CASE ~NameFree(role, req[r].name, 0)
  <2>1. UNCHANGED role
    BY <1>4 DEF RoleInsert
  <2>2. RolesOK' /\ Grown
    BY <1>0, <2>1 DEF Typed, RolesOK, Grown
  <2>3. LinksOK'
    BY <1>0, <1>1, <2>1, ReqLeavesReplaces, LinksSame DEF CatalogueInv
  <2>4. ~touched' => RolesKept
    BY <1>0, <1>2, <2>1, NothingWritten DEF CatalogueInv
  <2> QED BY <1>0, <1>1, <1>2, <1>3, <2>2, <2>3, <2>4, FinishStep
<1>5. CASE NameFree(role, req[r].name, 0)
  <2>1. /\ RoleCount + 1 <= MaxRoles
        /\ role' = Put(role, RoleCount + 1, [name |-> req[r].name, deleted |-> FALSE, perms |-> {}])
    BY <1>5 DEF RoleInsert
  <2>2. PICK n \in RoleNames : n = req[r].name
    BY <1>0 DEF ReqOK
  <2>3. /\ RolesOK' /\ role' # role
        /\ \A k \in DOMAIN role : k \in DOMAIN role' /\ role'[k] = role[k] /\ role[k].name # n
        /\ \A k \in DOMAIN role' : k \in DOMAIN role \/ k = RoleCount + 1
        /\ role'[RoleCount + 1] = [name |-> n, deleted |-> FALSE, perms |-> {}]
    BY <1>0, <1>5, <2>1, <2>2, RoleInserted
  <2>4. Grown
    BY <1>0, <2>3 DEF Grown
  <2>5. LinksOK'
    <3>1. \A k \in DOMAIN role' :
              \/ role'[k].perms = {}
              \/ /\ k \in DOMAIN role /\ due'[k] = due[k] /\ kept[k] \subseteq kept'[k]
                 /\ role'[k].perms \subseteq role[k].perms \cup kept'[k]
      BY <1>0, <2>3
    <3> QED BY <1>0, <1>1, <3>1, ReqLeavesReplaces, LinksSame DEF CatalogueInv
  <2>6. ~touched' => RolesKept
    <3>1. ~touched' => \A k \in DOMAIN role : role[k].name \in SeedRoles =>
                           role[k].perms \subseteq Named(perm, Wanted(role[k].name))
      BY <1>2 DEF CatalogueInv, SeedOK, SeededRowsOK
    <3> QED BY <2>3, <3>1 DEF RolesKept
  <2> QED BY <1>0, <1>1, <1>2, <1>3, <2>3, <2>4, <2>5, <2>6, FinishStep
<1> QED BY <1>4, <1>5

\* Only a row whose name is not seeded is saved under a name that is not taken,
\* as long as the seeded rows are untouched.
LEMMA RoleSaveStep ==
    ASSUME CatalogueInv, NEW r \in Requests, RoleSave(r)
    PROVE  CatalogueInv'
<1>0. /\ Typed /\ req[r].pc = "roleSave" /\ req[r] \in Request /\ ReqOK(req[r]) /\ Finish(r)
      /\ touched' = (touched \/ role[req[r].id].name \in SeedRoles)
      /\ UNCHANGED <<perm, admin, member, inst, crashes, calls, due, torn, bare>>
  BY DEF CatalogueInv, Typed, LocalsOK, RoleSave, ReqAt
<1>1. ReqMoves(r) /\ ~ReqAt(r, "unlink") /\ ~Linking(req[r])
  BY <1>0, FinishSet DEF ReqAt, Linking
<1>2. touched' \in BOOLEAN /\ (~touched' => ~touched)
  BY <1>0 DEF Typed, RestOK
<1>3. PermsOK' /\ PermsKept
  BY <1>0 DEF Typed, PermsOK, PermsKept
<1>4. CASE ~NameFree(role, req[r].name, req[r].id)
  <2>1. UNCHANGED <<role, kept>>
    BY <1>4 DEF RoleSave
  <2>2. RolesOK' /\ Grown /\ RestOK'
    BY <1>0, <1>2, <2>1 DEF Typed, RolesOK, Grown, RestOK
  <2>3. LinksOK'
    BY <1>0, <1>1, <2>1, ReqLeavesReplaces, LinksSame DEF CatalogueInv
  <2>4. ~touched' => RolesKept
    BY <1>0, <1>2, <2>1, NothingWritten DEF CatalogueInv
  <2> QED BY <1>0, <1>1, <1>2, <1>3, <2>2, <2>3, <2>4, FinishStep
<1>5. CASE NameFree(role, req[r].name, req[r].id)
  <2>1. PICK id \in DOMAIN role : id = req[r].id
    BY <1>0 DEF ReqOK
  <2>2. PICK ps \in SUBSET PermIDs : ps = req[r].perms
    BY <1>0 DEF Request
  <2>3. PICK n \in RoleNames : n = req[r].name
    BY <1>0 DEF ReqOK
  <2> DEFINE row == [name |-> n, deleted |-> FALSE, perms |-> role[id].perms \cup ps]
  <2>4. role' = [role EXCEPT ![id] = row] /\ Relink(id, ps) /\ NameFree(role, n, id)
    BY <1>5, <2>1, <2>2, <2>3 DEF RoleSave
  <2>5. row \in RoleRow /\ row.name = n /\ row.perms = role[id].perms \cup ps
    BY <1>0, TablesTyped DEF RoleRow
  <2> HIDE DEF row
  <2>6. /\ RolesOK' /\ DOMAIN role' = DOMAIN role /\ role'[id] = row
        /\ \A k \in DOMAIN role : k # id => role'[k] = role[k]
    <3>1. PICK p \in RoleRow : p = row
      BY <2>5
    <3> QED BY <1>0, <2>4, <2>5, <3>1, RoleWritten
  <2>7. /\ kept' \in [RoleIDs -> SUBSET PermIDs]
        /\ \A k \in DOMAIN role : kept[k] \subseteq kept'[k]
        /\ ps \subseteq role[id].perms \cup kept'[id]
    BY <1>0, <2>4, RelinkNotes
  <2>8. RestOK' /\ Grown
    BY <1>0, <1>2, <2>6, <2>7 DEF Typed, RestOK, Grown
  <2>9. LinksOK'
    <3>1. \A k \in DOMAIN role' :
              /\ k \in DOMAIN role /\ due'[k] = due[k] /\ kept[k] \subseteq kept'[k]
              /\ role'[k].perms \subseteq role[k].perms \cup kept'[k]
      BY <1>0, <2>5, <2>6, <2>7
    <3> QED BY <1>0, <1>1, <3>1, ReqLeavesReplaces, LinksSame DEF CatalogueInv
  <2>10. ASSUME ~touched' PROVE RolesKept
    <3>1. SeedOK /\ role[id].name \notin SeedRoles
      BY <1>0, <1>2, <2>1, <2>10 DEF CatalogueInv
    <3>2. RolesReady
      BY <1>0, <3>1 DEF SeedOK, ServedOK
    <3>3. \A m \in SeedRoles : \E k \in DOMAIN role : role[k].name = m
      BY <3>2 DEF RolesReady, RoleReady, SeedRoles
    <3>4. n \notin SeedRoles
      BY <2>4, <3>1, <3>3 DEF NameFree
    <3>5. \A k \in DOMAIN role : role[k].name \in SeedRoles =>
              role[k].perms \subseteq Named(perm, Wanted(role[k].name))
      BY <3>1 DEF SeedOK, SeededRowsOK
    <3> QED BY <2>5, <2>6, <3>1, <3>4, <3>5 DEF RolesKept
  <2> QED BY <1>0, <1>1, <1>2, <1>3, <2>6, <2>8, <2>9, <2>10, FinishStep
<1> QED BY <1>4, <1>5

LEMMA RoleDeleteStep ==
    ASSUME CatalogueInv, NEW r \in Requests, RoleDelete(r)
    PROVE  CatalogueInv'
<1>0. /\ Typed /\ req[r].pc = "roleDelete" /\ ReqOK(req[r]) /\ Finish(r)
      /\ role' = [role EXCEPT ![req[r].id].deleted = TRUE]
      /\ touched' = (touched \/ role[req[r].id].name \in SeedRoles)
      /\ UNCHANGED <<perm, admin, member, inst, crashes, calls, due, kept, torn, bare>>
  BY DEF CatalogueInv, Typed, LocalsOK, RoleDelete, ReqAt
<1>1. ReqMoves(r) /\ ~ReqAt(r, "unlink") /\ ~Linking(req[r])
  BY <1>0, FinishSet DEF ReqAt, Linking
<1>2. touched' \in BOOLEAN /\ (~touched' => ~touched)
  BY <1>0 DEF Typed, RestOK
<1>3. PICK id \in DOMAIN role : id = req[r].id
  BY <1>0 DEF ReqOK
<1>4. /\ RolesOK' /\ DOMAIN role' = DOMAIN role
      /\ \A k \in DOMAIN role : /\ k # id => role'[k] = role[k]
                                /\ role'[k].name = role[k].name
                                /\ role'[k].perms = role[k].perms
  BY <1>0, <1>3, RoleDeleted
<1>5. PermsOK' /\ PermsKept /\ RestOK' /\ Grown
  BY <1>0, <1>2, <1>4 DEF Typed, PermsOK, PermsKept, RestOK, Grown
<1>6. LinksOK'
  <2>1. \A k \in DOMAIN role' :
            /\ k \in DOMAIN role /\ due'[k] = due[k] /\ kept[k] \subseteq kept'[k]
            /\ role'[k].perms \subseteq role[k].perms \cup kept'[k]
    BY <1>0, <1>4
  <2> QED BY <1>0, <1>1, <2>1, ReqLeavesReplaces, LinksSame DEF CatalogueInv
<1>7. ASSUME ~touched' PROVE RolesKept
  <2>1. SeedOK /\ role[id].name \notin SeedRoles
    BY <1>0, <1>2, <1>3, <1>7 DEF CatalogueInv
  <2>2. \A k \in DOMAIN role : role[k].name \in SeedRoles =>
            role[k].perms \subseteq Named(perm, Wanted(role[k].name))
    BY <2>1 DEF SeedOK, SeededRowsOK
  <2> QED BY <1>4, <2>1, <2>2 DEF RolesKept
<1> QED BY <1>0, <1>1, <1>2, <1>4, <1>5, <1>6, <1>7, FinishStep

LEMMA AssignResolveStep ==
    ASSUME CatalogueInv, NEW r \in Requests, AssignResolve(r)
    PROVE  CatalogueInv'
<1> DEFINE found == Named(perm, req[r].names)
           p == [req[r] EXCEPT !.pc = "link", !.perms = found]
<1>0. /\ Typed /\ req[r].pc = "assignResolve" /\ req[r] \in Request /\ ReqOK(req[r])
      /\ Proceed(r, p) \/ Finish(r)
      /\ UNCHANGED <<perm, role, admin, member, inst, crashes, calls, due, kept, torn, bare, touched>>
  BY DEF CatalogueInv, Typed, LocalsOK, AssignResolve, ReqAt
<1>1. PICK ps \in SUBSET PermIDs : ps = found
  BY <1>0, NamedTyped
<1>2. p \in Request /\ p.pc = "link" /\ p.id = req[r].id
  BY <1>0, <1>1 DEF Request, ReqSteps
<1> HIDE DEF p, found
<1>3. PICK q \in Request : q = p
  BY <1>2
<1>4. ReqMoves(r) /\ (req'[r] = q \/ req'[r].pc = "idle")
  BY <1>0, <1>3, ReqSet, FinishSet
<1>5. ReqOK(req[r])' /\ ~Linking(req'[r])
  BY <1>0, <1>2, <1>3, <1>4 DEF ReqOK, Linking
<1>6. ~touched => ServedOK(req[r])'
  <2>1. ~touched => PermsReady /\ RolesReady
    BY <1>0 DEF CatalogueInv, SeedOK, ServedOK
  <2>2. ~touched => PermsReady' /\ RolesReady'
    BY <1>0, <2>1 DEF PermsReady, PermReady, RolesReady, RoleReady, Named, Live
  <2> QED BY <1>2, <1>3, <1>4, <2>2 DEF ServedOK, Linking
<1>7. ~ReqAt(r, "unlink") /\ ~Linking(req[r]) /\ calls' \in 0..MaxCalls
  BY <1>0 DEF ReqAt, Linking, Typed, RestOK
<1> QED BY <1>0, <1>4, <1>5, <1>6, <1>7, QuietReq

LEMMA AssignLinkStep ==
    ASSUME CatalogueInv, NEW r \in Requests, AssignLink(r)
    PROVE  CatalogueInv'
<1> DEFINE p == [req[r] EXCEPT !.pc = "unlink"]
<1>0. /\ Typed /\ req[r].pc = "link" /\ req[r] \in Request /\ ReqOK(req[r])
      /\ Proceed(r, p) /\ InsertLinks(req[r].id, req[r].perms)
      /\ touched' = (touched \/ role[req[r].id].name \in SeedRoles)
      /\ UNCHANGED <<perm, admin, member, inst, crashes, calls, kept, torn, bare>>
  BY DEF CatalogueInv, Typed, LocalsOK, AssignLink, ReqAt
<1>1. p \in Request /\ p.pc = "unlink" /\ p.id = req[r].id /\ p.perms = req[r].perms
  BY <1>0 DEF Request, ReqSteps
<1> HIDE DEF p
<1>2. PICK q \in Request : q = p
  BY <1>1
<1>3. ReqMoves(r) /\ req'[r] = q
  BY <1>0, <1>2, ReqSet
<1>4. PICK id \in DOMAIN role : id = req[r].id
  BY <1>0 DEF ReqOK
<1>5. PICK ps \in SUBSET PermIDs : ps = req[r].perms
  BY <1>0 DEF Request
<1>6. /\ LinksBecome(id, role[id].perms \cup ps)
      /\ due' \in [RoleIDs -> SUBSET PermIDs] /\ due'[id] = ps
      /\ \A k \in DOMAIN role : k # id => due'[k] = due[k]
  BY <1>0, <1>4, <1>5, LinkWrites
<1>7. touched' \in BOOLEAN /\ (~touched' => ~touched)
  BY <1>0 DEF Typed, RestOK
<1>8. Typed'
  <2>1. ReqOK(req[r])'
    BY <1>1, <1>2, <1>3, <1>4, <1>6 DEF ReqOK, LinksBecome
  <2>2. PermsOK' /\ RestOK' /\ Grown
    BY <1>0, <1>6, <1>7 DEF Typed, PermsOK, RestOK, Grown, LinksBecome
  <2> QED BY <1>0, <1>3, <1>6, <2>1, <2>2, ReqTyped DEF LinksBecome
<1>9. ~ReqAt(r, "unlink") /\ ~Linking(req[r]) /\ ~Linking(req'[r])
  BY <1>0, <1>1, <1>2, <1>3 DEF ReqAt, Linking
<1>10. LinksOK'
  <2>1. Replacing(id)'
    BY <1>1, <1>2, <1>3, <1>4, <1>5, <1>6 DEF Replacing, ReqAt
  <2>2. PICK new : new = role[id].perms \cup ps
    OBVIOUS
  <2> QED BY <1>0, <1>3, <1>6, <1>9, <2>1, <2>2, ReqLeavesReplaces, LinkedLinks DEF CatalogueInv
<1>11. AccountOK'
  BY <1>0, <1>3, <1>9, ReqLeavesAccount DEF CatalogueInv
<1>12. ASSUME ~touched' PROVE SeedOK'
  <2>1. SeedOK /\ role[id].name \notin SeedRoles
    BY <1>0, <1>4, <1>7, <1>12 DEF CatalogueInv
  <2>2. PICK new : new = role[id].perms \cup ps
    OBVIOUS
  <2>3. PermsKept /\ RolesKept
    BY <1>0, <1>6, <2>1, <2>2, LinksKeep DEF SeedOK
  <2>4. ServedOK(req[r])'
    <3>1. PermsReady' /\ RolesReady'
      BY <1>0, <2>1, <2>3, ReadyKept DEF SeedOK, ServedOK
    <3>2. role'[id].name \notin SeedRoles
      BY <1>6, <2>1 DEF LinksBecome
    <3> QED BY <1>1, <1>2, <1>3, <1>4, <3>1, <3>2 DEF ServedOK, Linking
  <2> QED BY <1>0, <1>3, <2>1, <2>3, <2>4, ReqLeavesSeed
<1> QED BY <1>8, <1>10, <1>11, <1>12 DEF CatalogueInv

LEMMA AssignUnlinkStep ==
    ASSUME CatalogueInv, NEW r \in Requests, AssignUnlink(r)
    PROVE  CatalogueInv'
<1>0. /\ Typed /\ req[r].pc = "unlink" /\ req[r] \in Request /\ ReqOK(req[r]) /\ Finish(r)
      /\ DeleteOtherLinks(req[r].id, req[r].perms)
      /\ UNCHANGED <<perm, admin, member, inst, crashes, calls, due, kept, torn, bare, touched>>
  BY DEF CatalogueInv, Typed, LocalsOK, AssignUnlink, ReqAt
<1>1. PICK id \in DOMAIN role : id = req[r].id
  BY <1>0 DEF ReqOK
<1>2. PICK ps : ps = req[r].perms
  OBVIOUS
<1>3. LinksBecome(id, role[id].perms \cap ps)
  BY <1>0, <1>1, <1>2, UnlinkWrites
<1>4. ReqMoves(r) /\ req'[r].pc = "idle" /\ ~Linking(req[r])
  BY <1>0, FinishSet DEF Linking
<1>5. RolesOK' /\ PermsOK' /\ RestOK' /\ Grown
  BY <1>0, <1>3 DEF Typed, PermsOK, RestOK, Grown, LinksBecome
<1>6. LinksOK'
  <2>1. ASSUME NEW k \in DOMAIN role, Replacing(k)
        PROVE  Replacing(k)' \/ (k = id /\ ps = due[k])
    <3>1. CASE \E i \in Instances : At(i, "unlink") /\ inst[i].id = k /\ inst[i].perms = due[k]
      BY <1>0, <3>1 DEF Replacing, At
    <3>2. CASE \E s \in Requests : ReqAt(s, "unlink") /\ req[s].id = k /\ req[s].perms = due[k]
      <4>1. PICK s \in Requests : ReqAt(s, "unlink") /\ req[s].id = k /\ req[s].perms = due[k]
        BY <3>2
      <4>2. CASE s = r
        BY <1>1, <1>2, <4>1, <4>2
      <4>3. CASE s # r
        BY <1>0, <1>4, <4>1, <4>3 DEF Replacing, ReqAt, ReqMoves
      <4> QED BY <4>2, <4>3
    <3> QED BY <2>1, <3>1, <3>2 DEF Replacing
  <2> QED BY <1>0, <1>3, <2>1, UnlinkedLinks DEF CatalogueInv
<1>7. ASSUME ~touched' PROVE PermsKept /\ RolesKept
  <2>1. SeedOK
    BY <1>0, <1>7 DEF CatalogueInv
  <2>2. role[id].name \notin SeedRoles
    BY <1>0, <1>1, <2>1 DEF SeedOK, ServedOK
  <2>3. PICK new : new = role[id].perms \cap ps
    OBVIOUS
  <2> QED BY <1>0, <1>3, <2>1, <2>2, <2>3, LinksKeep DEF SeedOK
<1> QED BY <1>0, <1>4, <1>5, <1>6, <1>7, FinishStep

\* A statement of a request that writes permissions.
LEMMA PermStep ==
    ASSUME CatalogueInv, NEW r \in Requests, Finish(r),
           req[r].pc \in {"permInsert", "permSave", "permDelete"},
           PermsOK', DOMAIN perm \subseteq DOMAIN perm', touched' \in BOOLEAN,
           ~touched' => ~touched /\ PermsKept,
           UNCHANGED <<role, admin, member, inst, crashes, calls, due, kept, torn, bare>>
    PROVE  CatalogueInv'
<1>1. Typed /\ ReqMoves(r) /\ ~ReqAt(r, "unlink") /\ ~Linking(req[r])
  BY FinishSet DEF CatalogueInv, ReqAt, Linking
<1>2. RolesOK' /\ RestOK' /\ Grown
  BY <1>1 DEF Typed, RolesOK, RestOK, Grown
<1>3. LinksOK'
  BY <1>1, ReqLeavesReplaces, LinksSame DEF CatalogueInv
<1>4. ASSUME ~touched' PROVE RolesKept
  BY <1>4 DEF CatalogueInv, SeedOK, SeededRowsOK, RolesKept
<1> QED BY <1>1, <1>2, <1>3, <1>4, FinishStep

LEMMA PermInsertStep ==
    ASSUME CatalogueInv, NEW r \in Requests, PermInsert(r)
    PROVE  CatalogueInv'
<1>0. /\ Typed /\ req[r].pc = "permInsert" /\ ReqOK(req[r]) /\ Finish(r)
      /\ touched' = (touched \/ (req[r].name \in All /\ perm' # perm))
      /\ UNCHANGED <<role, admin, member, inst, crashes, calls, due, kept, torn, bare>>
  BY DEF CatalogueInv, Typed, LocalsOK, PermInsert, ReqAt
<1>1. touched' \in BOOLEAN /\ (~touched' => ~touched)
  BY <1>0 DEF Typed, RestOK
<1>2. CASE ~NameFree(perm, req[r].name, 0)
  <2>1. UNCHANGED perm
    BY <1>2 DEF PermInsert
  <2>2. PermsOK' /\ DOMAIN perm \subseteq DOMAIN perm' /\ PermsKept
    BY <1>0, <2>1 DEF Typed, PermsOK, PermsKept
  <2> QED BY <1>0, <1>1, <2>2, PermStep
<1>3. CASE NameFree(perm, req[r].name, 0)
  <2>1. /\ PermCount < MaxPerms
        /\ perm' = Put(perm, PermCount + 1, [name |-> req[r].name, deleted |-> FALSE])
    BY <1>3 DEF PermInsert
  <2>2. PICK n \in PermNames : n = req[r].name
    BY <1>0 DEF ReqOK
  <2>3. /\ PermsOK' /\ perm' # perm
        /\ \A k \in DOMAIN perm : k \in DOMAIN perm' /\ perm'[k] = perm[k] /\ perm[k].name # n
        /\ \A k \in DOMAIN perm' : k \in DOMAIN perm \/ perm'[k] = [name |-> n, deleted |-> FALSE]
    BY <1>0, <1>3, <2>1, <2>2, PermInserted
  <2>4. DOMAIN perm \subseteq DOMAIN perm'
    BY <2>3
  <2>5. ~touched' => n \notin All
    BY <1>0, <2>2, <2>3
  <2>6. ~touched' => PermsKept
    BY <2>3, <2>5 DEF PermsKept
  <2> QED BY <1>0, <1>1, <2>3, <2>4, <2>6, PermStep
<1> QED BY <1>2, <1>3

LEMMA PermSaveStep ==
    ASSUME CatalogueInv, NEW r \in Requests, PermSave(r)
    PROVE  CatalogueInv'
<1>0. /\ Typed /\ req[r].pc = "permSave" /\ ReqOK(req[r]) /\ Finish(r)
      /\ touched' = (touched \/ perm[req[r].id].name \in All)
      /\ UNCHANGED <<role, admin, member, inst, crashes, calls, due, kept, torn, bare>>
  BY DEF CatalogueInv, Typed, LocalsOK, PermSave, ReqAt
<1>1. touched' \in BOOLEAN /\ (~touched' => ~touched)
  BY <1>0 DEF Typed, RestOK
<1>2. CASE ~NameFree(perm, req[r].name, req[r].id)
  <2>1. UNCHANGED perm
    BY <1>2 DEF PermSave
  <2>2. PermsOK' /\ DOMAIN perm \subseteq DOMAIN perm' /\ PermsKept
    BY <1>0, <2>1 DEF Typed, PermsOK, PermsKept
  <2> QED BY <1>0, <1>1, <2>2, PermStep
<1>3. CASE NameFree(perm, req[r].name, req[r].id)
  <2>1. PICK id \in DOMAIN perm : id = req[r].id
    BY <1>0 DEF ReqOK
  <2>2. PICK n \in PermNames : n = req[r].name
    BY <1>0 DEF ReqOK
  <2>3. perm' = [perm EXCEPT ![id] = [name |-> n, deleted |-> FALSE]] /\ NameFree(perm, n, id)
    BY <1>3, <2>1, <2>2 DEF PermSave
  <2>4. /\ PermsOK' /\ DOMAIN perm' = DOMAIN perm
        /\ \A k \in DOMAIN perm : k # id => perm'[k] = perm[k] /\ perm[k].name # n
        /\ perm'[id].name = n
    BY <1>0, <2>3, PermSaved
  <2>5. ASSUME ~touched' PROVE PermsKept
    <3>1. SeedOK /\ perm[id].name \notin All
      BY <1>0, <1>1, <2>1, <2>5 DEF CatalogueInv
    <3>2. PermsReady
      BY <1>0, <3>1 DEF SeedOK, ServedOK
    <3>3. n \notin All
      BY <2>4, <3>1, <3>2 DEF PermsReady, PermReady
    <3> QED BY <2>4, <3>1, <3>3 DEF PermsKept
  <2> QED BY <1>0, <1>1, <2>4, <2>5, PermStep
<1> QED BY <1>2, <1>3

LEMMA PermDeleteStep ==
    ASSUME CatalogueInv, NEW r \in Requests, PermDelete(r)
    PROVE  CatalogueInv'
<1>0. /\ Typed /\ req[r].pc = "permDelete" /\ ReqOK(req[r]) /\ Finish(r)
      /\ perm' = [perm EXCEPT ![req[r].id].deleted = TRUE]
      /\ touched' = (touched \/ perm[req[r].id].name \in All)
      /\ UNCHANGED <<role, admin, member, inst, crashes, calls, due, kept, torn, bare>>
  BY DEF CatalogueInv, Typed, LocalsOK, PermDelete, ReqAt
<1>1. touched' \in BOOLEAN /\ (~touched' => ~touched)
  BY <1>0 DEF Typed, RestOK
<1>2. PICK id \in DOMAIN perm : id = req[r].id
  BY <1>0 DEF ReqOK
<1>3. /\ PermsOK' /\ DOMAIN perm' = DOMAIN perm
      /\ \A k \in DOMAIN perm : k # id => perm'[k] = perm[k]
      /\ perm'[id].name = perm[id].name
  BY <1>0, <1>2, PermDeleted
<1>4. ~touched' => perm[id].name \notin All
  BY <1>0, <1>2
<1>5. ~touched' => PermsKept
  BY <1>3, <1>4 DEF PermsKept
<1> QED BY <1>0, <1>1, <1>3, <1>5, PermStep

-----------------------------------------------------------------------------
(* Registration *)

LEMMA RegisterRoleStep ==
    ASSUME CatalogueInv, NEW r \in Requests, RegisterRole(r)
    PROVE  CatalogueInv'
<1>0. /\ Typed /\ req[r].pc = "regRole" /\ req[r] \in Request /\ ReqOK(req[r])
      /\ UNCHANGED <<perm, role, admin, member, inst, crashes, calls, due, kept, torn, bare, touched>>
  BY DEF CatalogueInv, Typed, LocalsOK, RegisterRole, ReqAt
<1>1. ~ReqAt(r, "unlink") /\ ~Linking(req[r]) /\ calls' \in 0..MaxCalls
  BY <1>0 DEF ReqAt, Linking, Typed, RestOK
<1>2. ~touched => PermsReady' /\ RolesReady'
  <2>1. ~touched => PermsReady /\ RolesReady
    BY <1>0 DEF CatalogueInv, SeedOK, ServedOK
  <2> QED BY <1>0, <2>1 DEF PermsReady, PermReady, RolesReady, RoleReady, Named, Live
<1>3. CASE Named(role, {"USER"}) = {}
  <2> DEFINE p == [req[r] EXCEPT !.pc = "regInsert"]
  <2>1. Proceed(r, p)
    BY <1>3 DEF RegisterRole
  <2>2. p \in Request /\ p.pc = "regInsert" /\ p.id = 0
    BY <1>0 DEF Request, ReqSteps, ReqOK
  <2> HIDE DEF p
  <2>3. PICK q \in Request : q = p
    BY <2>2
  <2>4. ReqMoves(r) /\ req'[r] = q
    BY <1>0, <2>1, <2>3, ReqSet
  <2>5. ReqOK(req[r])' /\ ~Linking(req'[r]) /\ (~touched => ServedOK(req[r])')
    BY <1>2, <2>2, <2>3, <2>4 DEF ReqOK, ServedOK, Linking
  <2> QED BY <1>0, <1>1, <2>4, <2>5, QuietReq
<1>4. CASE Named(role, {"USER"}) # {}
  <2>1. PICK k \in Named(role, {"USER"}) :
            Proceed(r, [req[r] EXCEPT !.pc = "regInsert", !.id = k, !.perms = Preloaded(k)])
    BY <1>4 DEF RegisterRole
  <2>2. /\ k \in DOMAIN role /\ role[k].name = "USER" /\ k \in 0..(MaxPerms + MaxRoles)
    BY <1>0, TablesTyped, NamedTyped
  <2>3. PICK ps \in SUBSET PermIDs : ps = Preloaded(k)
    BY <1>0, PreloadedTyped
  <2> DEFINE p == [req[r] EXCEPT !.pc = "regInsert", !.id = k, !.perms = ps]
  <2>4. Proceed(r, p)
    BY <2>1, <2>3
  <2>5. p \in Request /\ p.pc = "regInsert" /\ p.id = k /\ p.perms = ps
    BY <1>0, <2>2 DEF Request, ReqSteps
  <2> HIDE DEF p
  <2>6. PICK q \in Request : q = p
    BY <2>5
  <2>7. ReqMoves(r) /\ req'[r] = q
    BY <1>0, <2>4, <2>6, ReqSet
  <2>8. ReqOK(req[r])' /\ ~Linking(req'[r])
    BY <1>0, <2>2, <2>5, <2>6, <2>7 DEF ReqOK, Linking
  <2>9. ~touched => ServedOK(req[r])'
    <3>1. ~touched => role[k].perms \subseteq Named(perm, Basic)
      BY <2>2 DEF CatalogueInv, SeedOK, SeededRowsOK, SeedRoles, Wanted
    <3>2. ~touched => ps \subseteq Named(perm, Basic)
      BY <1>0, <2>3, <3>1, PreloadedTyped
    <3>3. ~touched => ps \subseteq Named(perm, Basic)'
      BY <1>0, <3>2 DEF Named, Live
    <3> QED BY <1>0, <1>2, <2>2, <2>5, <2>6, <2>7, <3>3 DEF ServedOK, Linking
  <2> QED BY <1>0, <1>1, <2>7, <2>8, <2>9, QuietReq
<1> QED BY <1>3, <1>4

\* The name is taken by the first of the requests that come this far.
LEMMA RegisterInsertStep ==
    ASSUME CatalogueInv, NEW r \in Requests, RegisterInsert(r)
    PROVE  CatalogueInv'
<1>0. /\ Typed /\ req[r].pc = "regInsert" /\ req[r] \in Request /\ ReqOK(req[r])
      /\ UNCHANGED <<perm, role, admin, inst, crashes, calls, due, kept, torn, touched>>
  BY DEF CatalogueInv, Typed, LocalsOK, RegisterInsert, ReqAt
<1>1. ~ReqAt(r, "unlink") /\ ~Linking(req[r])
  BY <1>0 DEF ReqAt, Linking
<1>2. PermsOK' /\ RolesOK' /\ Grown /\ (~touched => PermsKept /\ RolesKept)
  BY <1>0, NothingWritten DEF CatalogueInv, Typed, PermsOK, RolesOK, Grown
<1>3. ReqMoves(r) => LinksOK'
  <2> SUFFICES ASSUME ReqMoves(r) PROVE LinksOK'
    OBVIOUS
  <2> QED BY <1>0, <1>1, ReqLeavesReplaces, LinksSame DEF CatalogueInv
<1>4. CASE member.state # "absent"
  <2>1. Finish(r) /\ UNCHANGED <<member, bare>>
    BY <1>4 DEF RegisterInsert
  <2>2. RestOK' /\ ReqMoves(r)
    BY <1>0, <2>1, FinishSet DEF Typed, RestOK
  <2> QED BY <1>0, <1>1, <1>2, <1>3, <2>1, <2>2, FinishStep
<1>5. CASE member.state = "absent"
  <2> DEFINE p == [req[r] EXCEPT !.pc = "regRelink"]
  <2>1. /\ member' = [member EXCEPT !.state = "live"] /\ bare' = (bare \/ req[r].id = 0)
        /\ IF req[r].id = 0 THEN Finish(r) ELSE Proceed(r, p)
    BY <1>5 DEF RegisterInsert
  <2>2. p \in Request /\ p.pc = "regRelink" /\ p.id = req[r].id /\ p.perms = req[r].perms
    BY <1>0 DEF Request, ReqSteps
  <2> HIDE DEF p
  <2>3. PICK q \in Request : q = p
    BY <2>2
  <2>4. /\ ReqMoves(r)
        /\ \/ req[r].id = 0 /\ req'[r].pc = "idle"
           \/ req[r].id # 0 /\ req'[r] = q
    BY <1>0, <2>1, <2>3, FinishSet, ReqSet
  <2>5. member' \in UserRow /\ member'.state = "live" /\ member'.roles = member.roles
    BY <1>0, <2>1 DEF Typed, RestOK, UserRow
  <2>6. /\ member'.roles = {} /\ \A s \in Requests : ~Linking(req[s])
    BY <1>5, <2>5 DEF CatalogueInv, AccountOK
  <2>7. Typed'
    <3>1. ReqOK(req[r])'
      BY <1>0, <2>2, <2>3, <2>4 DEF ReqOK
    <3>2. RestOK'
      BY <1>0, <2>1, <2>5 DEF Typed, RestOK
    <3> QED BY <1>0, <1>2, <2>4, <3>1, <3>2, ReqTyped
  <2>8. AccountOK'
    <3>1. \A s \in Requests : Linking(req'[s]) => s = r
      BY <2>4, <2>6 DEF ReqMoves
    <3>2. bare' \/ Linking(req'[r])
      BY <2>1, <2>2, <2>3, <2>4 DEF Linking
    <3> QED BY <2>5, <2>6, <3>1, <3>2 DEF AccountOK
  <2>9. ASSUME ~touched PROVE SeedOK'
    <3>1. SeedOK /\ ServedOK(req[r]) /\ PermsKept /\ RolesKept
      BY <1>2, <2>9 DEF CatalogueInv, SeedOK
    <3>2. PermsReady' /\ RolesReady' /\ Named(perm, Basic)' = Named(perm, Basic)
      BY <1>0, <3>1, ReadyKept DEF ServedOK
    <3>3. req[r].id # 0 => role[req[r].id].name = "USER" /\ req[r].perms \subseteq Named(perm, Basic)
      BY <1>0, <3>1 DEF ServedOK
    <3>4. ServedOK(req[r])'
      BY <1>0, <2>2, <2>3, <2>4, <3>2, <3>3 DEF ServedOK, Linking
    <3> QED BY <1>0, <2>4, <3>1, <3>4, ReqLeavesSeed
  <2> QED BY <1>0, <1>3, <2>4, <2>7, <2>8, <2>9 DEF CatalogueInv
<1> QED BY <1>4, <1>5

LEMMA RegisterRelinkStep ==
    ASSUME CatalogueInv, NEW r \in Requests, RegisterRelink(r)
    PROVE  CatalogueInv'
<1> DEFINE p == [req[r] EXCEPT !.pc = "regLink"]
<1>0. /\ Typed /\ req[r].pc = "regRelink" /\ req[r] \in Request /\ ReqOK(req[r])
      /\ UNCHANGED <<perm, admin, member, inst, crashes, calls, due, torn, bare, touched>>
      /\ role' = [role EXCEPT ![req[r].id].perms = @ \cup req[r].perms]
      /\ Relink(req[r].id, req[r].perms) /\ Proceed(r, p)
  BY DEF CatalogueInv, Typed, LocalsOK, RegisterRelink, ReqAt
<1>1. p \in Request /\ p.pc = "regLink" /\ p.id = req[r].id /\ p.perms = req[r].perms
  BY <1>0 DEF Request, ReqSteps
<1> HIDE DEF p
<1>2. PICK q \in Request : q = p
  BY <1>1
<1>3. ReqMoves(r) /\ req'[r] = q
  BY <1>0, <1>2, ReqSet
<1>4. PICK id \in DOMAIN role : id = req[r].id
  BY <1>0 DEF ReqOK
<1>5. PICK ps \in SUBSET PermIDs : ps = req[r].perms
  BY <1>0 DEF Request
<1>6. /\ LinksBecome(id, role[id].perms \cup ps)
      /\ kept' \in [RoleIDs -> SUBSET PermIDs]
      /\ \A k \in DOMAIN role : kept[k] \subseteq kept'[k]
      /\ ps \subseteq role[id].perms \cup kept'[id]
  <2>1. role' = [role EXCEPT ![id].perms = @ \cup ps] /\ Relink(id, ps)
    BY <1>0, <1>4, <1>5
  <2> QED BY <1>0, <2>1, RelinkWrites, RelinkNotes
<1>7. Typed'
  <2>1. ReqOK(req[r])'
    BY <1>1, <1>2, <1>3, <1>4, <1>6 DEF ReqOK, LinksBecome
  <2>2. PermsOK' /\ RestOK' /\ Grown
    BY <1>0, <1>6 DEF Typed, PermsOK, RestOK, Grown, LinksBecome
  <2> QED BY <1>0, <1>3, <1>6, <2>1, <2>2, ReqTyped DEF LinksBecome
<1>8. ~ReqAt(r, "unlink") /\ Linking(req[r]) /\ Linking(req'[r])
  BY <1>0, <1>1, <1>2, <1>3 DEF ReqAt, Linking
<1>9. LinksOK'
  BY <1>0, <1>3, <1>6, <1>8, ReqLeavesReplaces, RelinkedLinks DEF CatalogueInv
<1>10. AccountOK'
  BY <1>0, <1>3, <1>8, ReqLeavesAccount DEF CatalogueInv
<1>11. ASSUME ~touched PROVE SeedOK'
  <2>1. SeedOK /\ ServedOK(req[r]) /\ SeededRowsOK
    BY <1>11 DEF CatalogueInv, SeedOK
  <2>2. role[id].name = "USER" /\ ps \subseteq Named(perm, Basic) /\ Wanted("USER") = Basic
    BY <1>4, <1>5, <1>8, <2>1 DEF ServedOK, Wanted
  <2>3. PICK new : new = role[id].perms \cup ps
    OBVIOUS
  <2>4. role[id].perms \subseteq new /\ new \subseteq Named(perm, Wanted(role[id].name))
    BY <2>1, <2>2, <2>3 DEF SeededRowsOK, SeedRoles
  <2>5. PermsKept /\ RolesKept
    BY <1>0, <1>6, <2>1, <2>3, <2>4, LinksKeep
  <2>6. ServedOK(req[r])'
    <3>1. PermsReady' /\ RolesReady' /\ Named(perm, Basic)' = Named(perm, Basic)
      BY <1>0, <2>1, <2>5, ReadyKept DEF ServedOK
    <3>2. role'[id].name = "USER"
      BY <1>6, <2>2 DEF LinksBecome
    <3> QED BY <1>1, <1>2, <1>3, <1>4, <1>5, <2>2, <3>1, <3>2 DEF ServedOK
  <2> QED BY <1>0, <1>3, <2>1, <2>5, <2>6, ReqLeavesSeed
<1> QED BY <1>0, <1>7, <1>9, <1>10, <1>11 DEF CatalogueInv

\* The request that made the account is the only one that gives it a role.
LEMMA RegisterLinkStep ==
    ASSUME CatalogueInv, NEW r \in Requests, RegisterLink(r)
    PROVE  CatalogueInv'
<1>0. /\ Typed /\ req[r].pc = "regLink" /\ ReqOK(req[r]) /\ Finish(r)
      /\ member' = [member EXCEPT !.roles = @ \cup {req[r].id}]
      /\ UNCHANGED <<perm, role, admin, inst, crashes, calls, due, kept, torn, bare, touched>>
  BY DEF CatalogueInv, Typed, LocalsOK, RegisterLink, ReqAt
<1>1. ReqMoves(r) /\ req'[r].pc = "idle" /\ ~ReqAt(r, "unlink") /\ Linking(req[r])
  BY <1>0, FinishSet DEF ReqAt, Linking
<1>2. PICK id \in RoleIDs : id = req[r].id
  BY <1>0, TablesTyped DEF ReqOK
<1>3. member.roles = {} /\ member.state # "absent"
  BY <1>1 DEF CatalogueInv, AccountOK
<1>4. member' \in UserRow /\ member'.roles = {id} /\ member'.state = member.state
  BY <1>0, <1>2, <1>3 DEF Typed, RestOK, UserRow
<1>5. PermsOK' /\ RolesOK' /\ RestOK' /\ Grown
  BY <1>0, <1>4 DEF Typed, PermsOK, RolesOK, RestOK, Grown
<1>6. ReqOK(req[r])' /\ ServedOK(req[r])' /\ ~Linking(req'[r])
  BY <1>1 DEF ReqOK, ServedOK, Linking
<1>7. Typed'
  BY <1>0, <1>1, <1>5, <1>6, ReqTyped
<1>8. LinksOK'
  BY <1>0, <1>1, ReqLeavesReplaces, LinksSame DEF CatalogueInv
<1>9. AccountOK'
  <2>1. \A s \in Requests : ~Linking(req'[s])
    BY <1>1, <1>6 DEF CatalogueInv, AccountOK, ReqMoves
  <2> QED BY <1>3, <1>4, <2>1 DEF AccountOK
<1>10. ASSUME ~touched PROVE SeedOK'
  <2>1. SeedOK /\ PermsKept /\ RolesKept
    BY <1>0, <1>10, NothingWritten DEF CatalogueInv
  <2> QED BY <1>0, <1>1, <1>6, <2>1, ReqLeavesSeed
<1> QED BY <1>0, <1>7, <1>8, <1>9, <1>10 DEF CatalogueInv

-----------------------------------------------------------------------------
(* A request is lost, and the administrator is deleted *)

LEMMA AbortStep ==
    ASSUME CatalogueInv, NEW r \in Requests, Abort(r)
    PROVE  CatalogueInv'
<1>0. /\ Typed /\ ReqOK(req[r]) /\ Finish(r) /\ kept' = LeftBehind(req[r].pc, req[r].id)
      /\ bare' = (bare \/ req[r].pc \in {"regRelink", "regLink"})
      /\ UNCHANGED <<perm, role, admin, member, inst, crashes, calls, due, torn, touched>>
  BY DEF CatalogueInv, Typed, LocalsOK, Abort
<1>1. ReqMoves(r) /\ req'[r].pc = "idle"
  BY <1>0, FinishSet
<1>2. /\ kept' \in [RoleIDs -> SUBSET PermIDs]
      /\ \A k \in DOMAIN role : kept[k] \subseteq kept'[k]
      /\ ReqAt(r, "unlink") => role[req[r].id].perms \subseteq kept'[req[r].id]
  <2>1. PICK pc, id : pc = req[r].pc /\ id = req[r].id
    OBVIOUS
  <2>2. pc = "unlink" => id \in DOMAIN role
    BY <1>0, <2>1 DEF ReqOK
  <2>3. kept' = LeftBehind(pc, id) /\ DOMAIN role \subseteq RoleIDs
    BY <1>0, <2>1, TablesTyped
  <2> QED BY <1>0, <2>1, <2>2, <2>3, LeftBehindTyped DEF ReqAt
<1>3. ReqOK(req[r])' /\ ServedOK(req[r])' /\ ~Linking(req'[r])
  BY <1>1 DEF ReqOK, ServedOK, Linking
<1>4. Typed'
  <2>1. bare' \in BOOLEAN
    BY <1>0 DEF Typed, RestOK
  <2>2. PermsOK' /\ RolesOK' /\ RestOK' /\ Grown
    BY <1>0, <1>2, <2>1 DEF Typed, PermsOK, RolesOK, RestOK, Grown
  <2> QED BY <1>0, <1>1, <1>3, <2>2, ReqTyped
<1>5. LinksOK'
  <2> SUFFICES ASSUME NEW k \in DOMAIN role, ~Replacing(k)'
               PROVE  role[k].perms \subseteq due[k] \cup kept'[k]
    BY <1>0 DEF LinksOK
  <2>1. CASE role[k].perms \subseteq due[k] \cup kept[k]
    BY <1>2, <2>1
  <2>2. CASE Replacing(k)
    <3>1. CASE \E i \in Instances : At(i, "unlink") /\ inst[i].id = k /\ inst[i].perms = due[k]
      BY <1>0, <3>1 DEF Replacing, At
    <3>2. CASE \E s \in Requests : ReqAt(s, "unlink") /\ req[s].id = k /\ req[s].perms = due[k]
      <4>1. PICK s \in Requests : ReqAt(s, "unlink") /\ req[s].id = k /\ req[s].perms = due[k]
        BY <3>2
      <4>2. CASE s = r
        BY <1>2, <4>1, <4>2
      <4>3. CASE s # r
        BY <1>0, <1>1, <4>1, <4>3 DEF Replacing, ReqAt, ReqMoves
      <4> QED BY <4>2, <4>3
    <3> QED BY <2>2, <3>1, <3>2 DEF Replacing
  <2> QED BY <2>1, <2>2 DEF CatalogueInv, LinksOK
<1>6. AccountOK'
  <2>1. AccountOK
    BY DEF CatalogueInv
  <2>2. \A s \in Requests : Linking(req'[s]) <=> s # r /\ Linking(req[s])
    BY <1>1, <1>3 DEF ReqMoves
  <2>3. ~bare' => ~bare /\ ~Linking(req[r])
    BY <1>0 DEF Linking
  <2> QED BY <1>0, <2>1, <2>2, <2>3 DEF AccountOK
<1>7. ASSUME ~touched PROVE SeedOK'
  <2>1. SeedOK /\ PermsKept /\ RolesKept
    BY <1>0, <1>7, NothingWritten DEF CatalogueInv
  <2> QED BY <1>0, <1>1, <1>3, <2>1, ReqLeavesSeed
<1> QED BY <1>0, <1>4, <1>5, <1>6, <1>7 DEF CatalogueInv

LEMMA DeleteAdminStep ==
    ASSUME CatalogueInv, DeleteAdmin
    PROVE  CatalogueInv'
<1>0. /\ Typed /\ calls < MaxCalls /\ calls' = calls + 1 /\ touched' = TRUE
      /\ admin' = [admin EXCEPT !.state = "deleted"]
      /\ UNCHANGED <<perm, role, member, inst, req, crashes, due, kept, torn, bare>>
  BY DEF CatalogueInv, DeleteAdmin
<1>1. Typed'
  <2>1. calls' \in 0..MaxCalls
    BY <1>0, CatalogueAssumption DEF Typed, RestOK
  <2>2. admin' \in UserRow
    BY <1>0 DEF Typed, RestOK, UserRow
  <2>3. RestOK'
    BY <1>0, <2>1, <2>2 DEF Typed, RestOK
  <2> QED BY <1>0, <2>3 DEF Typed, PermsOK, RolesOK, LocalsOK, InstOK, ReqOK
<1>2. LinksOK'
  BY <1>0 DEF CatalogueInv, LinksOK, Replacing, At, ReqAt
<1>3. AccountOK'
  BY <1>0, AccountSame DEF CatalogueInv
<1> QED BY <1>0, <1>1, <1>2, <1>3 DEF CatalogueInv

-----------------------------------------------------------------------------
(* The theorems *)

LEMMA InitInv == ASSUME Init PROVE CatalogueInv
<1>1. PermsOK /\ RolesOK
  <2>1. 0 \in 0..MaxPerms /\ 0 \in 0..MaxRoles /\ 1..0 = {}
    BY CatalogueAssumption
  <2>2. DOMAIN perm = {} /\ DOMAIN role = {}
    BY DEF Init
  <2> QED BY <2>1, <2>2 DEF PermsOK, RolesOK
<1>2. RestOK
  <2>1. 0 \in 0..MaxCrashes /\ 0 \in 0..MaxCalls
    BY CatalogueAssumption
  <2> QED BY <2>1 DEF Init, RestOK, UserRow
<1>3. \A i \in Instances : inst[i] = Down
  BY DEF Init
<1>4. \A r \in Requests : req[r] = Idle
  BY DEF Init
<1>5. LocalsOK
  <2>1. InstOK(Down)
    BY DownTyped DEF InstOK
  <2>2. ReqOK(Idle)
    BY IdleTyped DEF ReqOK
  <2> QED BY <1>3, <1>4, <2>1, <2>2, DownTyped, IdleTyped DEF Init, LocalsOK
<1>6. LinksOK
  BY DEF Init, LinksOK
<1>7. AccountOK
  <2>1. \A r \in Requests : ~Linking(req[r])
    BY <1>4, IdleTyped DEF Linking
  <2>2. member.state = "absent" /\ member.roles = {}
    BY DEF Init
  <2> QED BY <2>1, <2>2 DEF AccountOK
<1>8. SeedOK
  <2>1. SeededRowsOK /\ AdminOK
    BY DEF Init, SeededRowsOK, AdminOK
  <2>2. BootOK(Down)
    BY DownTyped DEF BootOK, RoleSteps, UserSteps
  <2>3. ServedOK(Idle)
    BY IdleTyped DEF ServedOK, Linking
  <2> QED BY <1>3, <1>4, <2>1, <2>2, <2>3 DEF SeedOK
<1> QED BY <1>1, <1>2, <1>5, <1>6, <1>7, <1>8 DEF CatalogueInv, Typed

LEMMA NextInv == ASSUME CatalogueInv, [Next]_vars PROVE CatalogueInv'
<1>1. ASSUME NEW i \in Instances, SeedStep(i) PROVE CatalogueInv'
  BY <1>1, BootStep, SeedPermissionStep, SeedPermissionCreateStep, ensureRoleStep,
     ensureRoleCreateStep, ensureRoleResolveStep, ensureRoleLinkStep, ensureRoleUnlinkStep,
     SeedUserStep, SeedAdminRoleStep, SeedUserCreateStep, SeedUserRelinkStep, SeedUserLinkStep
     DEF SeedStep
<1>2. ASSUME NEW i \in Instances, Crash(i) PROVE CatalogueInv'
  BY <1>2, CrashStep
<1>3. ASSUME NEW r \in Requests, Arrive(r) PROVE CatalogueInv'
  BY <1>3, ArriveOK
<1>4. ASSUME NEW r \in Requests, Statement(r) PROVE CatalogueInv'
  BY <1>4, RoleInsertStep, RoleSaveStep, RoleDeleteStep, AssignResolveStep, AssignLinkStep,
     AssignUnlinkStep, PermInsertStep, PermSaveStep, PermDeleteStep, RegisterRoleStep,
     RegisterInsertStep, RegisterRelinkStep, RegisterLinkStep, AbortStep DEF Statement
<1>5. CASE DeleteAdmin
  BY <1>5, DeleteAdminStep
<1>6. CASE UNCHANGED vars
  <2>1. UNCHANGED <<perm, role, admin, member, inst, req, crashes, calls, due, kept, torn, bare, touched>>
    BY <1>6 DEF vars
  <2>2. Typed'
    BY <2>1 DEF CatalogueInv, Typed, PermsOK, RolesOK, RestOK, LocalsOK, InstOK, ReqOK
  <2>3. LinksOK' /\ AccountOK'
    BY <2>1 DEF CatalogueInv, LinksOK, Replacing, At, ReqAt, AccountOK
  <2>4. ASSUME ~touched PROVE SeedOK'
    <3>1. SeedOK /\ PermsKept /\ RolesKept
      BY <2>1, <2>4, NothingWritten DEF CatalogueInv
    <3>2. AdminOK'
      BY <2>1, <3>1 DEF SeedOK, AdminOK, AdminLinking
    <3> QED BY <2>1, <3>1, <3>2, SeedSame DEF CatalogueInv
  <2> QED BY <2>1, <2>2, <2>3, <2>4 DEF CatalogueInv
<1> QED BY <1>1, <1>2, <1>3, <1>4, <1>5, <1>6 DEF Next

LEMMA Invariance == Spec => []CatalogueInv
<1>1. Init => CatalogueInv
  BY InitInv
<1>2. CatalogueInv /\ [Next]_vars => CatalogueInv'
  BY NextInv
<1> QED BY <1>1, <1>2, PTL DEF Spec

\* Whatever the boots and the endpoints write, and however stale the row that a
\* Save writes back is, the tables keep their shape and no two rows of a table
\* ever have one name.
THEOREM CatalogueTypeCorrect == Spec => []TypeOK
<1>1. CatalogueInv => TypeOK
  BY TypeParts DEF CatalogueInv
<1> QED BY Invariance, <1>1, PTL

\* A permission that the last AssignPermissions, or the last boot, left out of a
\* role is gone from it once no Replace of that role is under way, but for what
\* a lost request or a stale write has linked again.
THEOREM RevocationsStand == Spec => []RevokedPermissionsStayRevoked
<1>1. CatalogueInv => RevokedPermissionsStayRevoked
  BY DEF CatalogueInv, LinksOK, Replacing, RevokedPermissionsStayRevoked
<1> QED BY Invariance, <1>1, PTL

\* Of any number of registrations of one name one makes the account and gives it
\* one role, unless the role was missing or that request was lost half-way.
THEOREM AccountsHaveRoles == Spec => []AccountsHaveTheirRole
<1>1. ASSUME CatalogueInv PROVE AccountsHaveTheirRole
  <2>1. AccountOK
    BY <1>1 DEF CatalogueInv
  <2>2. Cardinality(member.roles) <= 1
    <3>1. CASE member.roles = {}
      BY <3>1, FS_EmptySet
    <3>2. ASSUME NEW k \in RoleIDs, member.roles = {k} PROVE Cardinality(member.roles) = 1
      BY <3>2, FS_Singleton
    <3>3. Cardinality(member.roles) \in {0, 1}
      BY <2>1, <3>1, <3>2, FS_EmptySet DEF AccountOK
    <3> QED BY <3>3
  <2> QED BY <2>1, <2>2 DEF AccountOK, Linking, AccountsHaveTheirRole
<1> QED BY Invariance, <1>1, PTL

\* However many instances boot from one database, die and boot again, none of
\* them serves before every permission, both roles with just their permissions,
\* and the administrator are in place, as long as administrators have left the
\* seeded rows alone and no boot died between the administrator and its role.
THEOREM ServingIsSeeded == Spec => []ServesSeeded
<1>1. ASSUME CatalogueInv, NEW i \in Instances, At(i, "serving"), ~touched, ~torn,
             ~ \E j \in Instances : AdminLinking(j)
      PROVE  Seeded
  <2>1. Typed /\ SeedOK /\ SeededRowsOK /\ AdminOK /\ BootOK(inst[i])
    BY <1>1 DEF CatalogueInv, SeedOK
  <2>2. PermsReady /\ RolesReady /\ admin.state = "live"
    BY <1>1, <2>1 DEF BootOK, At, UserSteps
  <2>3. ASSUME NEW n \in All PROVE \E p \in Named(perm, All) : perm[p].name = n
    <3>1. PICK p \in DOMAIN perm : perm[p].name = n
      BY <2>2 DEF PermsReady, PermReady
    <3> QED BY <2>1, <3>1 DEF SeededRowsOK, Named, Live
  <2>4. \A S : \A p \in Named(perm, S) : perm[p].name \in S
    BY DEF Named
  <2>5. {perm[p].name : p \in Named(perm, All)} = All
    BY <2>3, <2>4
  <2>6. ASSUME NEW n \in SeedRoles
        PROVE  \E k \in Named(role, {n}) :
                  /\ {perm[p].name : p \in Preloaded(k)} = Wanted(n)
                  /\ n = "ADMIN" => admin.state = "live" /\ k \in admin.roles
    <3>1. PICK k \in DOMAIN role : role[k].name = n /\ role[k].perms = Named(perm, Wanted(n))
      BY <2>2 DEF RolesReady, RoleReady, SeedRoles
    <3>2. k \in Named(role, {n})
      BY <2>1, <3>1 DEF SeededRowsOK, Named, Live
    <3>3. Preloaded(k) = Named(perm, Wanted(n))
      BY <3>1 DEF Preloaded, Named
    <3>4. \A m \in Wanted(n) : \E p \in Preloaded(k) : perm[p].name = m
      <4>1. ASSUME NEW m \in Wanted(n) PROVE \E p \in Named(perm, Wanted(n)) : perm[p].name = m
        <5>1. m \in All
          BY WantedIsSeeded
        <5>2. PICK p \in Named(perm, All) : perm[p].name = m
          BY <2>3, <5>1
        <5> QED BY <5>2 DEF Named
      <4> QED BY <3>3, <4>1
    <3>5. {perm[p].name : p \in Preloaded(k)} = Wanted(n)
      BY <2>4, <3>3, <3>4
    <3>6. n = "ADMIN" => k \in admin.roles
      <4>1. PICK j \in DOMAIN role : role[j].name = "ADMIN" /\ j \in admin.roles
        BY <1>1, <2>1, <2>2 DEF AdminOK
      <4>2. n = "ADMIN" => j = k
        BY <2>1, <3>1, <4>1 DEF Typed, RolesOK
      <4> QED BY <4>1, <4>2
    <3> QED BY <2>2, <3>2, <3>5, <3>6
  <2> QED BY <2>5, <2>6 DEF Seeded
<1>2. CatalogueInv => ServesSeeded
  BY <1>1 DEF ServesSeeded, AdminLinking
<1> QED BY Invariance, <1>2, PTL
=============================================================================
