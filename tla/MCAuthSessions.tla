--------------------------- MODULE MCAuthSessions ---------------------------
(* AuthSessions for TLC: the request slots are interchangeable, and TLC     *)
(* does not go on from states in which two kinds of change to the users     *)
(* rows, of accounts and of roles, are mixed.                               *)
EXTENDS AuthSessions, TLC

Slots == Permutations(Requests)

AccountsAsCreated ==
    \A u \in Users : user[u].enabled = FreshUser(u).enabled /\ ~user[u].deleted
RolesAsCreated ==
    /\ \A u \in Users : user[u].admin = FreshUser(u).admin
    /\ \A g \in grants : g.admin = FreshUser(g.userID).admin

InFlight(ops) == \E r \in Requests : req[r].op \in ops

OneKindOfChange ==
    \/ AccountsAsCreated /\ ~InFlight({"update", "deactivate", "delete"})
    \/ RolesAsCreated /\ ~InFlight({"impersonate", "roles"})
=============================================================================
