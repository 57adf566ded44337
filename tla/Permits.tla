------------------------------ MODULE Permits ------------------------------
(***************************************************************************)
(* What authentication promises, with sessions, cookies, reset tokens      *)
(* and the two steps of every handler left out.                            *)
(*                                                                         *)
(* A request is let in once, on behalf of an active account, and from      *)
(* then on holds a permit of that account, by which it writes.  There      *)
(* are two kinds.  The one in "held" is spent by the first writing and     *)
(* is withdrawn by a ban, a new password or the deletion of the account.   *)
(* The one in "sure" only the deletion withdraws: a turn gets it with      *)
(* its first writing, for the reply, and a deletion of a document has it   *)
(* from the start.  A revocation withdraws all that it withdraws in one    *)
(* step, a new password or a deletion also every reset link, and neither   *)
(* a permit nor a link comes back.                                         *)
(***************************************************************************)

CONSTANTS Users, Requests, Links, Passwords, Nobody

VARIABLES
    account,    \* each account: "none", "active", "banned" or "gone"
    pw,         \* its password
    held,       \* the requests that hold a permit of it that can be withdrawn
    sure,       \* those with a permit that lasts as long as the account
    kind,       \* what each request does: it writes "once", a "turn" or a "deletion"
    asked,      \* the requests that were let in or turned away
    wrote,      \* those that wrote
    valid,      \* the reset links of each account that can be used
    issued      \* those that were ever issued

vars == <<account, pw, held, sure, kind, asked, wrote, valid, issued>>

Exists(u) == account[u] \in {"active", "banned"}

Init ==
    /\ account = [u \in Users |-> "none"]
    /\ pw = [u \in Users |-> Nobody]
    /\ held = [u \in Users |-> {}] /\ sure = [u \in Users |-> {}]
    /\ kind = [q \in Requests |-> "none"] /\ asked = {} /\ wrote = {}
    /\ valid = [u \in Users |-> {}] /\ issued = [u \in Users |-> {}]

-----------------------------------------------------------------------------
\* Somebody registers.
Open(u, p) ==
    /\ account[u] = "none"
    /\ account' = [account EXCEPT ![u] = "active"]
    /\ pw' = [pw EXCEPT ![u] = p]
    /\ UNCHANGED <<held, sure, kind, asked, wrote, valid, issued>>

\* A request is let in.
Enter(u, q, k) ==
    /\ account[u] = "active" /\ q \notin asked
    /\ held' = [held EXCEPT ![u] = IF k = "deletion" THEN @ ELSE @ \cup {q}]
    /\ sure' = [sure EXCEPT ![u] = IF k = "deletion" THEN @ \cup {q} ELSE @]
    /\ kind' = [kind EXCEPT ![q] = k]
    /\ asked' = asked \cup {q}
    /\ UNCHANGED <<account, pw, wrote, valid, issued>>

\* It writes for the first time.
Begin(u, q) ==
    /\ q \in held[u]
    /\ held' = [held EXCEPT ![u] = @ \ {q}]
    /\ sure' = [sure EXCEPT ![u] = IF kind[q] = "turn" THEN @ \cup {q} ELSE @]
    /\ wrote' = wrote \cup {q}
    /\ UNCHANGED <<account, pw, kind, asked, valid, issued>>

\* It writes what nothing but the deletion of the account could stop.
Finish(u, q) ==
    /\ q \in sure[u]
    /\ sure' = [sure EXCEPT ![u] = @ \ {q}]
    /\ wrote' = wrote \cup {q}
    /\ UNCHANGED <<account, pw, held, kind, asked, valid, issued>>

\* It ends without writing.
Stop(u, q) ==
    /\ q \in sure[u]
    /\ sure' = [sure EXCEPT ![u] = @ \ {q}]
    /\ UNCHANGED <<account, pw, held, kind, asked, wrote, valid, issued>>

\* A session ends: those that hold a permit by it, Q, lose it, and D are turned
\* away.
Drop(u, Q, D) ==
    /\ Q \subseteq held[u] /\ D \cap asked = {}
    /\ held' = [held EXCEPT ![u] = @ \ Q]
    /\ asked' = asked \cup D
    /\ UNCHANGED <<account, pw, sure, kind, wrote, valid, issued>>

\* A link is mailed, unless the account has been deleted meanwhile.
Issue(u, k) ==
    /\ \A other \in Users : k \notin issued[other]
    /\ issued' = [issued EXCEPT ![u] = @ \cup {k}]
    /\ valid' = [valid EXCEPT ![u] = IF Exists(u) THEN @ \cup {k} ELSE @]
    /\ UNCHANGED <<account, pw, held, sure, kind, asked, wrote>>

\* It is not used in time.
Lapse(u, k) ==
    /\ k \in valid[u]
    /\ valid' = [valid EXCEPT ![u] = @ \ {k}]
    /\ UNCHANGED <<account, pw, held, sure, kind, asked, wrote, issued>>

\* Whoever was mailed link k sets a new password.
Renew(u, k, p) ==
    /\ Exists(u) /\ k \in issued[u]
    /\ pw' = [pw EXCEPT ![u] = p]
    /\ held' = [held EXCEPT ![u] = {}]
    /\ valid' = [valid EXCEPT ![u] = {}]
    /\ UNCHANGED <<account, sure, kind, asked, wrote, issued>>

Ban(u) ==
    /\ Exists(u)
    /\ account' = [account EXCEPT ![u] = "banned"]
    /\ held' = [held EXCEPT ![u] = {}]
    /\ UNCHANGED <<pw, sure, kind, asked, wrote, valid, issued>>

Reinstate(u) ==
    /\ Exists(u)
    /\ account' = [account EXCEPT ![u] = "active"]
    /\ UNCHANGED <<pw, held, sure, kind, asked, wrote, valid, issued>>

Delete(u) ==
    /\ Exists(u)
    /\ account' = [account EXCEPT ![u] = "gone"]
    /\ held' = [held EXCEPT ![u] = {}]
    /\ sure' = [sure EXCEPT ![u] = {}]
    /\ valid' = [valid EXCEPT ![u] = {}]
    /\ UNCHANGED <<pw, kind, asked, wrote, issued>>

AccountStep(u) ==
    \/ \E p \in Passwords : Open(u, p)
    \/ Ban(u) \/ Reinstate(u) \/ Delete(u)

RequestStep(u) ==
    \/ \E Q, D \in SUBSET Requests : Drop(u, Q, D)
    \/ \E q \in Requests :
          \/ \E k \in {"once", "turn", "deletion"} : Enter(u, q, k)
          \/ Begin(u, q) \/ Finish(u, q) \/ Stop(u, q)

LinkStep(u) ==
    \E k \in Links : Issue(u, k) \/ Lapse(u, k) \/ (\E p \in Passwords : Renew(u, k, p))

Next == \E u \in Users : RequestStep(u) \/ LinkStep(u) \/ AccountStep(u)

Spec == Init /\ [][Next]_vars
=============================================================================
