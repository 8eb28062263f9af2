---------------------------- MODULE AuthSessions ----------------------------
(***************************************************************************)
(* The sign-in lifecycle: the handlers of internal/modules/auth and        *)
(* internal/modules/user that read or write the users and user_sessions    *)
(* tables, and the JWT middleware in front of them.                        *)
(*                                                                         *)
(* Requests run concurrently (one goroutine each) and the program opens no *)
(* transaction, so the unit of interleaving is one SQL statement: an       *)
(* action contains one statement that other requests can see, and req[r]   *)
(* is what the handler keeps in local variables between two statements.    *)
(* Two of gorm's calls are several statements and one action here: Save,   *)
(* which writes the row and then the links to its preloaded roles          *)
(* (SaveUser), and Association.Replace, an INSERT and a DELETE of links    *)
(* (ReplaceRoles).  Each invariant looks at the row or at the roles, not   *)
(* at both, and of Replace only the DELETE takes authority away; Catalogue *)
(* takes it apart.                                                         *)
(* Abort is the loss of a request between two statements                   *)
(* (its context is cancelled when the client disconnects, a statement      *)
(* fails, or the process dies).                                            *)
(*                                                                         *)
(* A user's authorities are abstracted to one bit, admin: the union of the *)
(* USER_*, SESSION_* and impersonation permissions of its roles.  Password *)
(* checks and e-mail uniqueness checks that fail end a request without     *)
(* any effect and are not represented.                                     *)
(***************************************************************************)
EXTENDS SessionStore

CONSTANTS
    Requests,       \* request goroutines that may be in flight together
    Admins,         \* users that hold the administration permissions at boot
    AccessTTL,      \* JWT_ACCESS_TTL, in ticks
    Workload,       \* the endpoints that clients call
    Faults,         \* TRUE: a request may be lost between two statements
    MaxVersion      \* bound: token_version saturates here

ASSUME AuthAssumption ==
    /\ Users # {}
    /\ Admins \subseteq Users
    /\ AccessTTL \in Nat \ {0}
    /\ Workload \subseteq {"login", "refresh", "logout", "logout-all", "revoke-mine",
                           "revoke-any", "impersonate", "activate", "deactivate", "update",
                           "delete", "force-logout", "roles"}
    /\ Faults \in BOOLEAN
    /\ MaxVersion \in Nat

VARIABLES
    user,           \* the users rows
    req,            \* the local variables of each request
    grants,         \* the token pairs signed so far that Parse still accepts
    escaped         \* history: sessions that outlive the revocation they were due

authVars == <<user, req, grants, escaped>>
vars == <<sess, lastID, now, user, req, grants, escaped>>

User == [enabled : BOOLEAN, deleted : BOOLEAN, admin : BOOLEAN, version : Nat]

\* An access token and a refresh token signed together.  version is the
\* user's token_version at that moment; the claims do not carry it.
Grant == [userID : Users, sid : Nat, admin : BOOLEAN, iat : Nat, version : Nat]

Ops == {"none", "login", "impersonate", "refresh", "revoke", "logoutAll",
        "update", "deactivate", "delete", "forceLogout", "roles"}

Steps == {"idle", "read", "issue", "refreshRead", "refreshIssue", "ownerCheck",
          "revoke", "save", "delete", "replaceRoles", "sweep", "bump"}

Request == [pc : Steps, op : Ops, userID : Users, sid : Nat, val : BOOLEAN, snap : User]

FreshUser(u) == [enabled |-> TRUE, deleted |-> FALSE, admin |-> u \in Admins, version |-> 0]

\* What a slot holds when no request occupies it.
Idle == LET u == CHOOSE u \in Users : TRUE
        IN [pc |-> "idle", op |-> "none", userID |-> u, sid |-> 0,
            val |-> FALSE, snap |-> FreshUser(u)]

Finish(r) == req' = [req EXCEPT ![r] = Idle]

\* The row read earlier and the argument are not used again after this step.
Goto(r, pc) ==
    req' = [req EXCEPT ![r] = [Idle EXCEPT !.pc = pc, !.op = req[r].op,
                                           !.userID = req[r].userID, !.sid = req[r].sid]]
StepOf(r, pc) == req[r].pc = pc

\* The account may not be signed in: soft-deleted or deactivated.
Gone(u) == user[u].deleted \/ ~user[u].enabled

-----------------------------------------------------------------------------
(* Tokens *)

\* Parse succeeds on the access token and the session row is still good.
AccessAccepted(g) == now < g.iat + AccessTTL /\ Validate(g.sid, g.userID)

RefreshAccepted(g) == now < g.iat + RefreshTTL /\ Validate(g.sid, g.userID)

\* IssueAccess and IssueRefresh for the user row the request has read.
Sign(u, sid, snap) ==
    grants' = grants \cup {[userID |-> u, sid |-> sid, admin |-> snap.admin,
                            iat |-> now, version |-> user[u].version]}

\* Time passes; pairs whose two tokens have expired are dropped.
ClockTick ==
    /\ Tick
    /\ grants' = {g \in grants : now' < g.iat + RefreshTTL \/ now' < g.iat + AccessTTL}
    /\ UNCHANGED <<user, req, escaped>>

-----------------------------------------------------------------------------
(* Requests that need no principal *)

\* Login: the row is read and checked; what it says is used one statement later.
Login(r, u) ==
    /\ "login" \in Workload
    /\ StepOf(r, "idle")
    /\ ~Gone(u)
    /\ req' = [req EXCEPT ![r] = [Idle EXCEPT !.pc = "issue", !.op = "login",
                                              !.userID = u, !.snap = user[u]]]
    /\ UNCHANGED <<sess, lastID, now, user, grants, escaped>>

IssueOnStaleRow(r) ==
    LET u == req[r].userID
    IN Gone(u) \/ (req[r].snap.admin /\ ~user[u].admin)

\* issueTokens: the session row is inserted, then the pair is signed for it.
IssueTokens(r) ==
    /\ StepOf(r, "issue")
    /\ Create(req[r].userID, now + RefreshTTL)
    /\ Sign(req[r].userID, lastID + 1, req[r].snap)
    /\ escaped' = IF IssueOnStaleRow(r) THEN escaped \cup {lastID + 1} ELSE escaped
    /\ Finish(r)
    /\ UNCHANGED user

\* Refresh, up to and including the session check.
Refresh(r, g) ==
    /\ "refresh" \in Workload
    /\ StepOf(r, "idle")
    /\ RefreshAccepted(g)
    /\ req' = [req EXCEPT ![r] = [Idle EXCEPT !.pc = "refreshRead", !.op = "refresh",
                                              !.userID = g.userID, !.sid = g.sid]]
    /\ UNCHANGED <<sess, lastID, now, user, grants, escaped>>

RefreshReadUser(r) ==
    /\ StepOf(r, "refreshRead")
    /\ IF Gone(req[r].userID)
       THEN Finish(r)
       ELSE req' = [req EXCEPT ![r].pc = "refreshIssue",
                               ![r].snap = user[req[r].userID]]
    /\ UNCHANGED <<sess, lastID, now, user, grants, escaped>>

RefreshSlidesExpiry(r) ==
    /\ StepOf(r, "refreshIssue")
    /\ Sign(req[r].userID, req[r].sid, req[r].snap)
    /\ sess' = [i \in DOMAIN sess |->
                    IF i = req[r].sid THEN [sess[i] EXCEPT !.expiresAt = now + RefreshTTL]
                    ELSE sess[i]]
    /\ Finish(r)
    /\ UNCHANGED <<lastID, now, user, escaped>>

\* The new pair carries the session id of the old one; the row keeps its expiry
\* and the old pair stays valid.
RefreshIssue(r) ==
    /\ StepOf(r, "refreshIssue")
    /\ Sign(req[r].userID, req[r].sid, req[r].snap)
    /\ Finish(r)
    /\ UNCHANGED <<sess, lastID, now, user, escaped>>

-----------------------------------------------------------------------------
(* Requests behind JWTAuth *)

\* JWTAuth has accepted g: the request enters its handler with the principal
\* of the claims.  The users row is not consulted.
JWTAuth(r, g, pc, op, u, sid, val) ==
    /\ StepOf(r, "idle")
    /\ AccessAccepted(g)
    /\ req' = [req EXCEPT ![r] = [Idle EXCEPT !.pc = pc, !.op = op, !.userID = u,
                                              !.sid = sid, !.val = val]]
    /\ UNCHANGED <<sess, lastID, now, user, grants, escaped>>

Logout(r, g) ==
    "logout" \in Workload /\ JWTAuth(r, g, "revoke", "revoke", g.userID, g.sid, FALSE)

LogoutAll(r, g) ==
    "logout-all" \in Workload /\ JWTAuth(r, g, "sweep", "logoutAll", g.userID, 0, FALSE)

RevokeMySession(r, g, i) ==
    "revoke-mine" \in Workload /\ JWTAuth(r, g, "ownerCheck", "revoke", g.userID, i, FALSE)

\* The admin handlers: HasPermission looks at the claims only.
AdminRequest(r, g, endpoint, op, u, val) ==
    endpoint \in Workload /\ g.admin /\ JWTAuth(r, g, "read", op, u, 0, val)

RevokeSessionAsAdmin(r, g, i) ==
    "revoke-any" \in Workload /\ g.admin
    /\ JWTAuth(r, g, "revoke", "revoke", g.userID, i, FALSE)

Impersonate(r, g, u) ==
    u # g.userID /\ AdminRequest(r, g, "impersonate", "impersonate", u, FALSE)

\* UpdateRequest.Enabled == nil saves the value that was read, so it behaves as
\* one of the two explicit values.
Update(r, g, u, val) == AdminRequest(r, g, "update", "update", u, val)

\* Activate is an Update to TRUE: it saves the row and revokes nothing.
Activate(r, g, u) == AdminRequest(r, g, "activate", "update", u, TRUE)

Deactivate(r, g, u) ==
    u # g.userID /\ AdminRequest(r, g, "deactivate", "deactivate", u, FALSE)

Delete(r, g, u) == AdminRequest(r, g, "delete", "delete", u, FALSE)

ForceLogout(r, g, u) == AdminRequest(r, g, "force-logout", "forceLogout", u, FALSE)

\* val: the new roles carry the administration permissions.
AssignRoles(r, g, u, val) == AdminRequest(r, g, "roles", "roles", u, val)

-----------------------------------------------------------------------------
(* Statements of those handlers *)

AfterRead(op) ==
    CASE op = "impersonate"              -> "issue"
      [] op \in {"update", "deactivate"} -> "save"
      [] op = "delete"                   -> "delete"
      [] op = "forceLogout"              -> "sweep"
      [] op = "roles"                    -> "replaceRoles"

\* users.GetByID: a soft-deleted row is not found; Impersonate also refuses a
\* deactivated target.
GetByID(r) ==
    LET q == req[r]
        refused == user[q.userID].deleted
                   \/ (q.op = "impersonate" /\ ~user[q.userID].enabled)
    IN /\ StepOf(r, "read")
       /\ IF refused
          THEN Finish(r)
          ELSE req' = [req EXCEPT ![r].pc = AfterRead(q.op), ![r].snap = user[q.userID]]
       /\ UNCHANGED <<sess, lastID, now, user, grants, escaped>>

\* gorm Save of the row that was read: every column is written back.  When the
\* row has been soft-deleted meanwhile the UPDATE matches nothing and Save falls
\* through to an upsert, which clears deleted_at and, for a false Enabled,
\* inserts the column default TRUE.  The preloaded roles are re-linked.
Save(row, snap, enabled) ==
    [enabled |-> enabled \/ row.deleted, deleted |-> FALSE,
     admin |-> row.admin \/ snap.admin, version |-> snap.version]

SaveWithoutSweep(r) ==
    LET q == req[r]
        saved == Save(user[q.userID], q.snap, q.val)
    IN /\ StepOf(r, "save")
       /\ user' = [user EXCEPT ![q.userID] = saved]
       /\ Finish(r)
       /\ UNCHANGED <<sess, lastID, now, grants, escaped>>

\* Deactivate always goes on to revoke; Update does when the row it read was
\* enabled and the row it wrote is not.
SaveUser(r) ==
    LET q == req[r]
        saved == Save(user[q.userID], q.snap, q.val)
        sweeps == q.op = "deactivate" \/ (q.snap.enabled /\ ~saved.enabled)
        cutOff == ~Gone(q.userID) /\ ~saved.enabled
    IN /\ StepOf(r, "save")
       /\ user' = [user EXCEPT ![q.userID] = saved]
       /\ IF sweeps THEN Goto(r, "sweep") ELSE Finish(r)
       /\ escaped' = IF cutOff /\ ~sweeps THEN escaped \cup ActiveOf(q.userID) ELSE escaped
       /\ UNCHANGED <<sess, lastID, now, grants>>

DeleteUser(r) ==
    /\ StepOf(r, "delete")
    /\ user' = [user EXCEPT ![req[r].userID].deleted = TRUE]
    /\ Goto(r, "sweep")
    /\ UNCHANGED <<sess, lastID, now, grants, escaped>>

ReplaceRolesOnly(r) ==
    /\ StepOf(r, "replaceRoles")
    /\ user' = [user EXCEPT ![req[r].userID].admin = req[r].val]
    /\ Goto(r, "bump")
    /\ UNCHANGED <<sess, lastID, now, grants, escaped>>

ReplaceRoles(r) ==
    /\ StepOf(r, "replaceRoles")
    /\ user' = [user EXCEPT ![req[r].userID].admin = req[r].val]
    /\ Goto(r, "sweep")
    /\ UNCHANGED <<sess, lastID, now, grants, escaped>>

\* RevokeAllForUser; Delete and LogoutAll end here, the others bump.
SweepSessions(r) ==
    /\ StepOf(r, "sweep")
    /\ RevokeAllForUser(req[r].userID)
    /\ IF req[r].op \in {"delete", "logoutAll"} THEN Finish(r) ELSE Goto(r, "bump")
    /\ UNCHANGED <<user, grants, escaped>>

\* IncrementTokenVersion skips soft-deleted rows.
BumpTokenVersion(r) ==
    LET row == user[req[r].userID]
        counts == ~row.deleted /\ row.version < MaxVersion
    IN
    /\ StepOf(r, "bump")
    /\ user' = [user EXCEPT ![req[r].userID].version =
                    IF counts THEN row.version + 1 ELSE row.version]
    /\ Finish(r)
    /\ UNCHANGED <<sess, lastID, now, grants, escaped>>

\* RevokeMySession answers 404 for a session that is absent or not the caller's.
OwnerCheck(r) ==
    LET q == req[r]
    IN /\ StepOf(r, "ownerCheck")
       /\ IF q.sid \in DOMAIN sess /\ sess[q.sid].userID = q.userID
          THEN Goto(r, "revoke") ELSE Finish(r)
       /\ UNCHANGED <<sess, lastID, now, user, grants, escaped>>

RevokeSession(r) ==
    /\ StepOf(r, "revoke")
    /\ Revoke(req[r].sid)
    /\ Finish(r)
    /\ UNCHANGED <<user, grants, escaped>>

SweepingOps == {"update", "deactivate", "delete", "roles"}

\* The request is lost.  A lost revocation sweep is not retried by anyone.
Abort(r) ==
    /\ Faults
    /\ ~StepOf(r, "idle")
    /\ escaped' = IF StepOf(r, "sweep") /\ req[r].op \in SweepingOps
                  THEN escaped \cup ActiveOf(req[r].userID) ELSE escaped
    /\ Finish(r)
    /\ UNCHANGED <<sess, lastID, now, user, grants>>

\* The session-cleanup job of the scheduler.
SessionCleanup == CleanupExpired /\ UNCHANGED authVars

-----------------------------------------------------------------------------
Init ==
    /\ SessionInit
    /\ user = [u \in Users |-> FreshUser(u)]
    /\ req = [r \in Requests |-> Idle]
    /\ grants = {}
    /\ escaped = {}

Arrive(r) ==
    \/ \E u \in Users : Login(r, u)
    \/ \E g \in grants :
        \/ Refresh(r, g)
        \/ Logout(r, g)
        \/ LogoutAll(r, g)
        \/ \E i \in 1..lastID : RevokeMySession(r, g, i) \/ RevokeSessionAsAdmin(r, g, i)
        \/ \E u \in Users :
            \/ Impersonate(r, g, u)
            \/ Activate(r, g, u)
            \/ Deactivate(r, g, u)
            \/ Delete(r, g, u)
            \/ ForceLogout(r, g, u)
            \/ \E val \in BOOLEAN : Update(r, g, u, val) \/ AssignRoles(r, g, u, val)

Proceed(r) ==
    \/ IssueTokens(r)
    \/ RefreshReadUser(r)
    \/ RefreshIssue(r)
    \/ GetByID(r)
    \/ SaveUser(r)
    \/ DeleteUser(r)
    \/ ReplaceRoles(r)
    \/ SweepSessions(r)
    \/ BumpTokenVersion(r)
    \/ OwnerCheck(r)
    \/ RevokeSession(r)
    \/ Abort(r)

Next ==
    \/ \E r \in Requests : Arrive(r) \/ Proceed(r)
    \/ SessionCleanup
    \/ ClockTick

Spec == Init /\ [][Next]_vars

\* The scheduler runs the session-cleanup job for as long as the process is up.
FairSpec == Spec /\ WF_vars(SessionCleanup)

-----------------------------------------------------------------------------
\* The rows, the pairs and every request's local variables are well formed.
TypeOK ==
    /\ SessionTypeOK
    /\ user \in [Users -> User]
    /\ req \in [Requests -> Request]
    /\ grants \subseteq Grant
    /\ escaped \subseteq 1..lastID

\* A handler has changed u's row and has yet to revoke u's sessions.
SweepDue(u) ==
    \E r \in Requests : StepOf(r, "sweep") /\ req[r].userID = u /\ req[r].op \in SweepingOps

\* The sid claim of every signed token names a session of the token's own
\* user for as long as that row exists, through purges and later inserts.
TokensNameOwnSession ==
    \A g \in grants :
        /\ g.sid \in 1..lastID
        /\ g.sid \in DOMAIN sess => sess[g.sid].userID = g.userID

\* Deactivating or deleting an account signs it out: once no handler still has
\* the revocation to do, a usable session of an account that may not sign in is
\* one that was issued from a row read before the change, that was cut off by a
\* stale Save which revokes nothing, or whose revocation was lost.  Refresh,
\* activation, role changes and the purge job open no further way.
GoneMeansSignedOut ==
    \A u \in Users : Gone(u) => SweepDue(u) \/ ActiveOf(u) \subseteq escaped

\* Taking the administration roles away takes them out of every usable token:
\* the only session that may still carry them is one issued from the old row
\* or whose revocation was lost.  A Refresh racing with AssignRoles may sign
\* the old authorities, but only for a session that is revoked.
RolesTrackTokens ==
    \A g \in grants :
        g.admin /\ ~user[g.userID].admin /\ Active(g.sid) =>
            SweepDue(g.userID) \/ g.sid \in escaped
=============================================================================
