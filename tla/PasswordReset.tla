--------------------------- MODULE PasswordReset ---------------------------
(***************************************************************************)
(* The password-reset flow of internal/modules/auth on top of the session  *)
(* table: ForgotPassword issues a token by mail, ResetPassword trades it   *)
(* for a new password and signs every device out.  Login and the user      *)
(* module's full-row saves run beside it, because they read and write the  *)
(* same users row.                                                         *)
(*                                                                         *)
(* As in AuthSessions an action contains one SQL statement that others can *)
(* see, and req[r] is what the handler remembers between two of them.      *)
(* Passwords are numbers: every reset asks for a new one.  A token that    *)
(* was issued may reach its user at any time and any number of times.      *)
(* The token_version column, which nothing here reads, is left to          *)
(* AuthSessions, and so is the purge of session rows that are dead anyway. *)
(***************************************************************************)
EXTENDS SessionStore

CONSTANTS
    Requests,       \* request goroutines that may be in flight together
    ResetTTL,       \* PASSWORD_RESET_TTL, in ticks
    Workload,       \* the endpoints that clients call
    Faults,         \* TRUE: a request may be lost between two statements
    MaxTokens,      \* bound: reset tokens ever issued
    MaxResets       \* bound: reset requests that pass the token check

ASSUME ResetAssumption ==
    /\ Users # {}
    /\ ResetTTL \in Nat
    /\ Workload \subseteq {"login", "update", "activate", "deactivate", "delete"}
    /\ Faults \in BOOLEAN
    /\ MaxTokens \in Nat
    /\ MaxResets \in Nat

VARIABLES
    user,           \* the users rows
    token,          \* password_reset_tokens, a function on the ids in the table
    lastToken,      \* the last token id handed out
    lastPassword,   \* the last password anybody has asked for
    req,            \* the local variables of each request
    born,           \* history: the password with which a session was opened
    uses,           \* history: how often a token has set a password
    escaped         \* history: sessions that outlive the sign-out they were due

resetVars == <<user, token, lastToken, lastPassword, req, born, uses, escaped>>
vars == <<sess, lastID, now, user, token, lastToken, lastPassword, req, born, uses, escaped>>

User == [password : Nat, enabled : BOOLEAN, deleted : BOOLEAN]
Token == [userID : Users, expiresAt : Nat, consumed : BOOLEAN]
Steps == {"idle", "createToken", "readUser", "saveUser", "consume", "bump", "sweep",
          "issue", "adminSave", "delete"}
Ops == {"none", "reset", "update", "activate", "deactivate", "delete"}
Request == [pc : Steps, op : Ops, userID : Users, id : Nat, row : Token, password : Nat,
            snap : User]

\* What a slot holds when no request occupies it.
Idle == LET u == CHOOSE u \in Users : TRUE
        IN [pc |-> "idle", op |-> "none", userID |-> u, id |-> 0,
            row |-> [userID |-> u, expiresAt |-> 0, consumed |-> FALSE],
            password |-> 0, snap |-> [password |-> 0, enabled |-> FALSE, deleted |-> FALSE]]

Finish(r) == req' = [req EXCEPT ![r] = Idle]
StepOf(r, pc) == req[r].pc = pc

\* The lookup by name or e-mail finds no row that may sign in.
Gone(u) == user[u].deleted \/ ~user[u].enabled

\* gorm Save of a row read earlier: every column is written back.  When the row
\* has been soft-deleted meanwhile the upsert that follows revives it, and a
\* false Enabled becomes the column default TRUE.
Save(row, snap) == [snap EXCEPT !.enabled = snap.enabled \/ row.deleted, !.deleted = FALSE]

-----------------------------------------------------------------------------
(* ForgotPassword *)

\* An unknown or deactivated account gets the same answer and no token.
ForgotPassword(r, u) ==
    /\ StepOf(r, "idle")
    /\ ~Gone(u)
    /\ req' = [req EXCEPT ![r] = [Idle EXCEPT !.pc = "createToken", !.userID = u]]
    /\ UNCHANGED <<sess, lastID, now, user, token, lastToken, lastPassword, born, uses, escaped>>

\* The row is inserted and the mail is queued or sent.
CreateToken(r) ==
    LET row == [userID |-> req[r].userID, expiresAt |-> now + ResetTTL, consumed |-> FALSE]
        t == lastToken + 1
    IN /\ StepOf(r, "createToken")
       /\ lastToken < MaxTokens
       /\ lastToken' = t
       /\ token' = [i \in DOMAIN token \cup {t} |-> IF i = t THEN row ELSE token[i]]
       /\ Finish(r)
       /\ UNCHANGED <<sess, lastID, now, user, lastPassword, born, uses, escaped>>

-----------------------------------------------------------------------------
(* ResetPassword *)

\* The row exists, is not consumed and has not expired.
Accepted(t) ==
    /\ t \in DOMAIN token
    /\ ~token[t].consumed
    /\ now <= token[t].expiresAt

\* The token row is read and checked; it is written back three statements later.
ResetPassword(r, t) ==
    /\ StepOf(r, "idle")
    /\ Accepted(t)
    /\ lastPassword < MaxResets
    /\ lastPassword' = lastPassword + 1
    /\ req' = [req EXCEPT ![r] = [Idle EXCEPT !.pc = "readUser", !.op = "reset",
                                              !.userID = token[t].userID, !.id = t,
                                              !.row = token[t],
                                              !.password = lastPassword + 1]]
    /\ UNCHANGED <<sess, lastID, now, user, token, lastToken, born, uses, escaped>>

\* users.GetByID finds no deleted account; Enabled is not looked at.
ReadUser(r) ==
    /\ StepOf(r, "readUser")
    /\ IF user[req[r].userID].deleted
       THEN Finish(r)
       ELSE req' = [req EXCEPT ![r].pc = "saveUser", ![r].snap = user[req[r].userID]]
    /\ UNCHANGED <<sess, lastID, now, user, token, lastToken, lastPassword, born, uses, escaped>>

\* users.Update: every column of the row that was read, with the new password.
SaveUser(r) ==
    LET q == req[r]
    IN /\ StepOf(r, "saveUser")
       /\ user' = [user EXCEPT ![q.userID] =
              Save(user[q.userID], [q.snap EXCEPT !.password = q.password])]
       /\ uses' = [uses EXCEPT ![q.id] = uses[q.id] + 1]
       /\ req' = [req EXCEPT ![r].pc = "consume"]
       /\ UNCHANGED <<sess, lastID, now, token, lastToken, lastPassword, born, escaped>>

WriteRowBack(r) ==
    LET q == req[r]
    IN /\ StepOf(r, "consume")
       /\ token' = [i \in DOMAIN token \cup {q.id} |-> IF i = q.id THEN q.row ELSE token[i]]
       /\ req' = [req EXCEPT ![r].pc = "bump"]
       /\ UNCHANGED <<sess, lastID, now, user, lastToken, lastPassword, born, uses, escaped>>

\* Save of the token row: an upsert, so that a row purged meanwhile comes back.
ConsumeToken(r) ==
    LET q == req[r]
    IN /\ StepOf(r, "consume")
       /\ token' = [i \in DOMAIN token \cup {q.id} |->
              IF i = q.id THEN [q.row EXCEPT !.consumed = TRUE] ELSE token[i]]
       /\ req' = [req EXCEPT ![r].pc = "bump"]
       /\ UNCHANGED <<sess, lastID, now, user, lastToken, lastPassword, born, uses, escaped>>

\* IncrementTokenVersion, one more statement before the sign-out.
BumpTokenVersion(r) ==
    /\ StepOf(r, "bump")
    /\ req' = [req EXCEPT ![r].pc = "sweep"]
    /\ UNCHANGED <<sess, lastID, now, user, token, lastToken, lastPassword, born, uses, escaped>>

SweepNothing(r) ==
    /\ StepOf(r, "sweep")
    /\ Finish(r)
    /\ UNCHANGED <<sess, lastID, now, user, token, lastToken, lastPassword, born, uses, escaped>>

\* RevokeAllForUser.
SweepSessions(r) ==
    /\ StepOf(r, "sweep")
    /\ RevokeAllForUser(req[r].userID)
    /\ Finish(r)
    /\ UNCHANGED <<user, token, lastToken, lastPassword, born, uses, escaped>>

\* CleanupExpiredResetTokens, a job of the scheduler.
CleanupExpiredResetTokens ==
    /\ token' = [i \in {i \in DOMAIN token : now < token[i].expiresAt /\ ~token[i].consumed}
                     |-> token[i]]
    /\ UNCHANGED <<sess, lastID, now, user, lastToken, lastPassword, req, born, uses, escaped>>

-----------------------------------------------------------------------------
(* The handlers that share the users row *)

\* Login: the typed password is compared with the row that is read here.
Login(r, u) ==
    /\ "login" \in Workload
    /\ StepOf(r, "idle")
    /\ ~Gone(u)
    /\ req' = [req EXCEPT ![r] = [Idle EXCEPT !.pc = "issue", !.userID = u, !.snap = user[u]]]
    /\ UNCHANGED <<sess, lastID, now, user, token, lastToken, lastPassword, born, uses, escaped>>

IssueTokens(r) ==
    LET q == req[r]
    IN /\ StepOf(r, "issue")
       /\ Create(q.userID, now + RefreshTTL)
       /\ born' = [i \in 1..lastID' |-> IF i = lastID' THEN q.snap.password ELSE born[i]]
       /\ escaped' = IF q.snap.password # user[q.userID].password
                     THEN escaped \cup {lastID'} ELSE escaped
       /\ Finish(r)
       /\ UNCHANGED <<user, token, lastToken, lastPassword, uses>>

\* The user module reads the row (a deleted one is not found) and writes it one
\* statement later.
AdminRead(r, u, op, pc) ==
    /\ op \in Workload
    /\ StepOf(r, "idle")
    /\ ~user[u].deleted
    /\ req' = [req EXCEPT ![r] = [Idle EXCEPT !.pc = pc, !.op = op, !.userID = u,
                                              !.snap = user[u]]]
    /\ UNCHANGED <<sess, lastID, now, user, token, lastToken, lastPassword, born, uses, escaped>>

Update(r, u) == AdminRead(r, u, "update", "adminSave")

Activate(r, u) == AdminRead(r, u, "activate", "adminSave")

Deactivate(r, u) == AdminRead(r, u, "deactivate", "adminSave")

Delete(r, u) == AdminRead(r, u, "delete", "delete")

\* Update of the profile leaves Enabled as it was read, Activate sets it, and
\* Deactivate clears it and goes on to revoke.  An Update that is sent a value for
\* Enabled does what one of the three does.
AdminSave(r) ==
    LET q == req[r]
        enabled == q.op = "activate" \/ (q.op = "update" /\ q.snap.enabled)
        saved == [q.snap EXCEPT !.enabled = enabled]
    IN /\ StepOf(r, "adminSave")
       /\ user' = [user EXCEPT ![q.userID] = Save(user[q.userID], saved)]
       /\ escaped' = IF q.snap.password # user[q.userID].password
                     THEN escaped \cup ActiveOf(q.userID) ELSE escaped
       /\ IF q.op = "deactivate" THEN req' = [req EXCEPT ![r].pc = "sweep"] ELSE Finish(r)
       /\ UNCHANGED <<sess, lastID, now, token, lastToken, lastPassword, born, uses>>

DeleteUser(r) ==
    /\ StepOf(r, "delete")
    /\ user' = [user EXCEPT ![req[r].userID].deleted = TRUE]
    /\ req' = [req EXCEPT ![r].pc = "sweep"]
    /\ UNCHANGED <<sess, lastID, now, token, lastToken, lastPassword, born, uses, escaped>>

\* The request is lost between two statements.
Abort(r) ==
    /\ Faults
    /\ ~StepOf(r, "idle")
    /\ escaped' = IF req[r].op = "reset" /\ req[r].pc \in {"consume", "bump", "sweep"}
                  THEN escaped \cup ActiveOf(req[r].userID) ELSE escaped
    /\ Finish(r)
    /\ UNCHANGED <<sess, lastID, now, user, token, lastToken, lastPassword, born, uses>>

ClockTick == Tick /\ UNCHANGED resetVars

-----------------------------------------------------------------------------
Init ==
    /\ SessionInit
    /\ user = [u \in Users |-> [password |-> 0, enabled |-> TRUE, deleted |-> FALSE]]
    /\ token = [i \in {} |-> 0]
    /\ lastToken = 0
    /\ lastPassword = 0
    /\ req = [r \in Requests |-> Idle]
    /\ born = [i \in {} |-> 0]
    /\ uses = [t \in 1..MaxTokens |-> 0]
    /\ escaped = {}

Next ==
    \/ \E r \in Requests :
        \/ \E u \in Users :
            \/ ForgotPassword(r, u) \/ Login(r, u)
            \/ Update(r, u) \/ Activate(r, u) \/ Deactivate(r, u) \/ Delete(r, u)
        \/ \E t \in 1..lastToken : ResetPassword(r, t)
        \/ CreateToken(r) \/ ReadUser(r) \/ SaveUser(r) \/ ConsumeToken(r)
        \/ BumpTokenVersion(r) \/ SweepSessions(r)
        \/ IssueTokens(r) \/ AdminSave(r) \/ DeleteUser(r) \/ Abort(r)
    \/ CleanupExpiredResetTokens
    \/ ClockTick

Spec == Init /\ [][Next]_vars

-----------------------------------------------------------------------------
\* Every variable has its type, and the ids on file have been handed out.
TypeOK ==
    /\ SessionTypeOK
    /\ user \in [Users -> User]
    /\ lastToken \in 0..MaxTokens
    /\ DOMAIN token \subseteq 1..lastToken
    /\ \A t \in DOMAIN token : token[t] \in Token
    /\ token = [t \in DOMAIN token |-> token[t]]
    /\ lastPassword \in Nat
    /\ req \in [Requests -> Request]
    /\ born \in [1..lastID -> Nat]
    /\ uses \in [1..MaxTokens -> Nat]
    /\ escaped \subseteq 1..lastID

\* A reset has changed u's password and has yet to sign u's devices out.
SignOutDue(u) ==
    \E r \in Requests :
        req[r].op = "reset" /\ req[r].pc \in {"consume", "bump", "sweep"} /\ req[r].userID = u

\* Whoever knew only the old password is signed out by a reset: a usable
\* session was opened with the password the account has now, or its sign-out
\* is still to come, or it was opened from a row read before the reset, kept by
\* a stale save of the row, or its sign-out was lost.  Concurrent resets of the
\* same account open no further way.
ResetSignsOut ==
    \A i \in DOMAIN sess :
        LET u == sess[i].userID
        IN Active(i) /\ born[i] # user[u].password => SignOutDue(u) \/ i \in escaped

\* A reset token that is refused at some instant (consumed, expired or purged)
\* is refused for ever, though ConsumeToken can put a purged row back.
DeadTokensStayDead ==
    [][\A t \in 1..lastToken : ~Accepted(t) => ~Accepted(t)']_vars

\* password_reset_model.go: a token "is single-use".
TokenIsSingleUse == \A t \in 1..MaxTokens : uses[t] <= 1
=============================================================================
