---------------------------- MODULE MailDelivery ----------------------------
(***************************************************************************)
(* What a user may expect of the mails of the auth module: a mail that has *)
(* been accepted is never forgotten.  It goes out, or it is put aside where *)
(* an operator finds it, or mail is switched off.                          *)
(***************************************************************************)
CONSTANT Mails

VARIABLES
    status,     \* where each mail stands
    enabled,    \* the mail service is switched on
    staffed     \* somebody works on the mails that are owed

vars == <<status, enabled, staffed>>

Init ==
    /\ status = [m \in Mails |-> "none"]
    /\ enabled \in BOOLEAN
    /\ staffed \in BOOLEAN

Move(m, from, to) ==
    /\ status[m] \in from
    /\ status' = [status EXCEPT ![m] = to]
    /\ UNCHANGED <<enabled, staffed>>

Accept(m) == Move(m, {"none"}, "owed")

\* A mail that was put aside may still go out late.
Send(m) == enabled /\ Move(m, {"none", "owed", "aside"}, "sent")
PutAside(m) == Move(m, {"none", "owed"}, "aside")
Skip(m) == ~enabled /\ Move(m, {"none", "owed"}, "skipped")

Settle(m) == staffed /\ status[m] = "owed" /\ (Send(m) \/ PutAside(m) \/ Skip(m))

Next == \E m \in Mails : Accept(m) \/ Send(m) \/ PutAside(m) \/ Skip(m)

\* What may happen, and what has to.
Safety == Init /\ [][Next]_vars

Spec == Safety /\ \A m \in Mails : WF_vars(Settle(m))
=============================================================================
