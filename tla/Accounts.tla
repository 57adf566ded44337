------------------------------ MODULE Accounts ------------------------------
(***************************************************************************)
(* Accounts, login sessions and reset links: api/routers/auth.py,          *)
(* auth/deps.py and admin_set_user_status.                                 *)
(*                                                                         *)
(* Every request runs in a transaction of its own.  It reads a snapshot,   *)
(* does slow work (argon2, the handler itself) and commits against the     *)
(* rows as they are then: that is two steps, and other requests commit in  *)
(* between.  The version of a password is the registration or the reset    *)
(* that set it.                                                            *)
(***************************************************************************)
EXTENDS Naturals

CONSTANTS
    Users,      \* e-mail addresses; each is registered successfully once
    Logins,     \* register and login requests; each inserts one session
    Links,      \* password_reset_tokens, one per forgot_password request
    Resets,     \* reset_password requests
    Requests,   \* requests that need a session
    Changes,    \* admin_set_user_status requests
    Nobody      \* no user, session, link or password

ASSUME AccountsAssumption ==
    /\ Logins \cap Resets = {}
    /\ Nobody \notin Users \cup Logins \cup Links \cup Resets

VARIABLES
    account,    \* the users row: is_active, "none" before it, "gone" after
    pw,         \* password_hash, as the request that set it
    sess,       \* sessions rows, named after the request that inserted them
    expired,    \* those whose expires_at has passed
    login,      \* each login or register request: place, user, password verified
    link,       \* each reset link: place, user, password at its insertion (history)
    old,        \* links whose expires_at has passed
    reset,      \* each reset request: place, link
    req,        \* each other request: place, kind, session, password then (history)
    change      \* each status request: place, user, status seen, status wanted

vars == <<account, pw, sess, expired, login, link, old, reset, req, change>>

Exists(u) == account[u] \in {"active", "banned"}

Init ==
    /\ account = [u \in Users |-> "none"]
    /\ pw = [u \in Users |-> Nobody]
    /\ sess = {} /\ expired = {} /\ old = {}
    /\ login = [s \in Logins |-> [pc |-> "no", user |-> Nobody, pw |-> Nobody]]
    /\ link = [k \in Links |-> [pc |-> "no", user |-> Nobody, pw |-> Nobody]]
    /\ reset = [r \in Resets |-> [pc |-> "no", link |-> Nobody]]
    /\ req = [q \in Requests |-> [pc |-> "no", kind |-> "none", sess |-> Nobody, pw |-> Nobody]]
    /\ change = [c \in Changes |->
                    [pc |-> "no", user |-> Nobody, seen |-> "none", want |-> "none"]]

SessionsOf(u) == {s \in sess : login[s].user = u}

EndSessions(S) == sess' = sess \ S /\ expired' = expired \ S

-----------------------------------------------------------------------------
\* register looks the address up, then hashes the password.
Register(s, u) ==
    /\ login[s].pc = "no"
    /\ account[u] = "none"
    /\ login' = [login EXCEPT ![s] = [pc |-> "registering", user |-> u, pw |-> s]]
    /\ UNCHANGED <<account, pw, sess, expired, link, old, reset, req, change>>

\* Account and session in one commit, which the unique address refuses to the
\* later of two registrations.
RegisterCommit(s) ==
    /\ login[s].pc = "registering"
    /\ LET u == login[s].user
       IN IF account[u] = "none"
          THEN /\ account' = [account EXCEPT ![u] = "active"]
               /\ pw' = [pw EXCEPT ![u] = s]
               /\ sess' = sess \cup {s}
               /\ login' = [login EXCEPT ![s].pc = "answered"]
          ELSE /\ login' = [login EXCEPT ![s].pc = "refused"]
               /\ UNCHANGED <<account, pw, sess>>
    /\ UNCHANGED <<expired, link, old, reset, req, change>>

\* login reads the row, then verifies the password it holds.
Login(s, u) ==
    /\ login[s].pc = "no"
    /\ account[u] = "active"
    /\ login' = [login EXCEPT ![s] = [pc |-> "verified", user |-> u, pw |-> pw[u]]]
    /\ UNCHANGED <<account, pw, sess, expired, link, old, reset, req, change>>

\* Mutant of LoginCommit: a sessions row without its foreign key.
LoginCommitUnchecked(s) ==
    /\ login[s].pc = "verified"
    /\ sess' = sess \cup {s}
    /\ login' = [login EXCEPT ![s].pc = "answered"]
    /\ UNCHANGED <<account, pw, expired, link, old, reset, req, change>>

\* Mutant of LoginCommit: the session starts before is_active is asked.
LoginCommitEarly(s) ==
    /\ login[s].pc = "verified"
    /\ IF Exists(login[s].user)
       THEN /\ sess' = sess \cup {s}
            /\ login' = [login EXCEPT ![s].pc =
                            IF account[login[s].user] = "active" THEN "answered" ELSE "refused"]
       ELSE UNCHANGED sess /\ login' = [login EXCEPT ![s].pc = "refused"]
    /\ UNCHANGED <<account, pw, expired, link, old, reset, req, change>>

\* _start_session.  The foreign key wants the account; nothing reads its
\* password or is_active again.
LoginCommit(s) ==
    /\ login[s].pc = "verified"
    /\ IF Exists(login[s].user)
       THEN sess' = sess \cup {s} /\ login' = [login EXCEPT ![s].pc = "answered"]
       ELSE UNCHANGED sess /\ login' = [login EXCEPT ![s].pc = "refused"]
    /\ UNCHANGED <<account, pw, expired, link, old, reset, req, change>>

Logout(s) ==
    /\ login[s].pc = "answered" /\ s \in sess
    /\ EndSessions({s})
    /\ UNCHANGED <<account, pw, login, link, old, reset, req, change>>

\* SESSION_TTL_HOURS pass.
Expire(s) ==
    /\ s \in sess \ expired
    /\ expired' = expired \cup {s}
    /\ UNCHANGED <<account, pw, sess, login, link, old, reset, req, change>>

-----------------------------------------------------------------------------
\* Most handlers commit once.  A streamed turn commits its question and later
\* its reply; the deletion of a document is tried up to three times.
Kinds == {"once", "turn", "deletion"}

\* get_current_user: session and account in one snapshot.
Authenticate(q, s, kind) ==
    /\ req[q].pc = "no"
    /\ login[s].pc = "answered" /\ s \in sess \ expired
    /\ account[login[s].user] = "active"
    /\ req' = [req EXCEPT ![q] = [pc |-> "running", kind |-> kind, sess |-> s,
                                  pw |-> pw[login[s].user]]]
    /\ UNCHANGED <<account, pw, sess, expired, login, link, old, reset, change>>

\* It removes an expired session and answers 401.
DropExpired(q, s) ==
    /\ req[q].pc = "no"
    /\ login[s].pc = "answered" /\ s \in expired
    /\ req' = [req EXCEPT ![q] = [pc |-> "refused", kind |-> "none", sess |-> s, pw |-> Nobody]]
    /\ EndSessions({s})
    /\ UNCHANGED <<account, pw, login, link, old, reset, change>>

\* Where a request stands once it has written first.
Written(q) == IF req[q].kind = "turn" THEN "halfway" ELSE "wrote"

\* Where it stands when it gets no further.
Stopped(q) == IF req[q].pc = "halfway" THEN "cut" ELSE "refused"

\* Mutant of Commit: a commit that does not write to its session.
CommitUnchecked(q) ==
    /\ req[q].pc = "running"
    /\ req' = [req EXCEPT ![q].pc = Written(q)]
    /\ UNCHANGED <<account, pw, sess, expired, login, link, old, reset, change>>

\* The first flush of the handler also writes last_used_at.  That row is gone
\* when the session was revoked, and the commit raises StaleDataError.
Commit(q) ==
    /\ req[q].pc = "running"
    /\ req' = [req EXCEPT ![q].pc = IF req[q].sess \in sess THEN Written(q) ELSE Stopped(q)]
    /\ UNCHANGED <<account, pw, sess, expired, login, link, old, reset, change>>

\* delete_document waits for a lock in vain.  The rollback also forgets the
\* new last_used_at; the bulk delete comes before the flush, so that the wait
\* may come before a missing session is noticed.
LockWait(q) ==
    /\ req[q].kind = "deletion" /\ req[q].pc = "running"
    /\ req' = [req EXCEPT ![q].pc = "retrying"]
    /\ UNCHANGED <<account, pw, sess, expired, login, link, old, reset, change>>

\* The reply of a turn, or a further attempt to delete.  The session is not
\* written again: only a conversation or a document that went with its account
\* stops it.  The commits of a turn before its last change nothing here.
CommitAgain(q) ==
    /\ req[q].pc \in {"halfway", "retrying"}
    /\ req' = [req EXCEPT ![q].pc =
                   IF Exists(login[req[q].sess].user) THEN "wrote" ELSE Stopped(q)]
    /\ UNCHANGED <<account, pw, sess, expired, login, link, old, reset, change>>

\* Its conversation or document was deleted, or it was the last attempt.
GiveUp(q) ==
    /\ req[q].pc \in {"halfway", "retrying"}
    /\ req' = [req EXCEPT ![q].pc = Stopped(q)]
    /\ UNCHANGED <<account, pw, sess, expired, login, link, old, reset, change>>

-----------------------------------------------------------------------------
\* forgot_password finds an active account.
Forgot(k, u) ==
    /\ link[k].pc = "no"
    /\ account[u] = "active"
    /\ link' = [link EXCEPT ![k] = [pc |-> "asked", user |-> u, pw |-> Nobody]]
    /\ UNCHANGED <<account, pw, sess, expired, login, old, reset, req, change>>

\* It inserts the link and mails it; the foreign key wants the account.
ForgotCommit(k) ==
    /\ link[k].pc = "asked"
    /\ LET u == link[k].user
       IN link' = [link EXCEPT ![k] = [pc |-> IF Exists(u) THEN "open" ELSE "gone",
                                       user |-> u, pw |-> pw[u]]]
    /\ UNCHANGED <<account, pw, sess, expired, login, old, reset, req, change>>

\* RESET_TOKEN_TTL_MINUTES pass.
LinkAges(k) ==
    /\ link[k].pc = "open" /\ k \notin old
    /\ old' = old \cup {k}
    /\ UNCHANGED <<account, pw, sess, expired, login, link, reset, req, change>>

\* reset_password finds an unused, fresh link of an active account.
Reset(r, k) ==
    /\ reset[r].pc = "no"
    /\ link[k].pc = "open" /\ k \notin old
    /\ account[link[k].user] = "active"
    /\ reset' = [reset EXCEPT ![r] = [pc |-> "checked", link |-> k]]
    /\ UNCHANGED <<account, pw, sess, expired, login, link, old, req, change>>

\* Mutant of Voided: only the link of the request is spent.
VoidedOne(k, u) == [link EXCEPT ![k].pc = "used"]

\* used_at of link k and of every other outstanding link of account u.
Voided(k, u) ==
    [j \in Links |->
        IF j = k \/ (link[j].user = u /\ link[j].pc = "open")
        THEN [link[j] EXCEPT !.pc = "used"] ELSE link[j]]

\* After argon2: the new password, and every session and open link ends.  The
\* row of the link is written by its id, whether or not it was used meanwhile.
ResetCommit(r) ==
    /\ reset[r].pc = "checked"
    /\ LET k == reset[r].link
           u == link[k].user
       IN IF Exists(u)
          THEN /\ pw' = [pw EXCEPT ![u] = r]
               /\ EndSessions(SessionsOf(u))
               /\ link' = Voided(k, u)
               /\ reset' = [reset EXCEPT ![r].pc = "done"]
          ELSE /\ reset' = [reset EXCEPT ![r].pc = "refused"]
               /\ UNCHANGED <<pw, sess, expired, link>>
    /\ UNCHANGED <<account, login, old, req, change>>

-----------------------------------------------------------------------------
\* admin_set_user_status loads the account.
Status(c, u, want) ==
    /\ change[c].pc = "no"
    /\ Exists(u)
    /\ change' = [change EXCEPT ![c] =
                     [pc |-> "loaded", user |-> u, seen |-> account[u], want |-> want]]
    /\ UNCHANGED <<account, pw, sess, expired, login, link, old, reset, req>>

\* Mutant of StatusCommit: a ban that leaves the sessions to is_active.
StatusCommitOnly(c) ==
    /\ change[c].pc = "loaded"
    /\ LET u == change[c].user
           differs == change[c].want # change[c].seen
       IN IF differs /\ ~Exists(u)
          THEN change' = [change EXCEPT ![c].pc = "refused"] /\ UNCHANGED account
          ELSE /\ change' = [change EXCEPT ![c].pc = "done"]
               /\ account' = [account EXCEPT ![u] = IF differs THEN change[c].want ELSE @]
    /\ UNCHANGED <<pw, sess, expired, login, link, old, reset, req>>

\* A ban ends the sessions.  is_active is written only if it differs from the
\* value loaded, and that write raises when the account is gone.
StatusCommit(c) ==
    /\ change[c].pc = "loaded"
    /\ LET u == change[c].user
           differs == change[c].want # change[c].seen
       IN IF differs /\ ~Exists(u)
          THEN /\ change' = [change EXCEPT ![c].pc = "refused"]
               /\ UNCHANGED <<account, sess, expired>>
          ELSE /\ change' = [change EXCEPT ![c].pc = "done"]
               /\ account' = [account EXCEPT ![u] = IF differs THEN change[c].want ELSE @]
               /\ EndSessions(IF change[c].want = "banned" THEN SessionsOf(u) ELSE {})
    /\ UNCHANGED <<pw, login, link, old, reset, req>>

\* The row transaction of admin_delete_user: links, sessions and account.
Delete(u) ==
    /\ Exists(u)
    /\ account' = [account EXCEPT ![u] = "gone"]
    /\ EndSessions(SessionsOf(u))
    /\ link' = [k \in Links |->
                   IF link[k].user = u /\ link[k].pc \in {"open", "used"}
                   THEN [link[k] EXCEPT !.pc = "gone"] ELSE link[k]]
    /\ UNCHANGED <<pw, login, old, reset, req, change>>

-----------------------------------------------------------------------------
LoginStep(s) ==
    \/ \E u \in Users : Register(s, u) \/ Login(s, u)
    \/ RegisterCommit(s) \/ LoginCommit(s) \/ Logout(s) \/ Expire(s)

RequestStep(q) ==
    \/ \E s \in Logins : DropExpired(q, s) \/ (\E kind \in Kinds : Authenticate(q, s, kind))
    \/ Commit(q) \/ LockWait(q) \/ CommitAgain(q) \/ GiveUp(q)

LinkStep(k) == (\E u \in Users : Forgot(k, u)) \/ ForgotCommit(k) \/ LinkAges(k)

ResetStep(r) == (\E k \in Links : Reset(r, k)) \/ ResetCommit(r)

StatusStep(c) ==
    \/ \E u \in Users, want \in {"active", "banned"} : Status(c, u, want)
    \/ StatusCommit(c)

Next ==
    \/ \E s \in Logins : LoginStep(s)
    \/ \E q \in Requests : RequestStep(q)
    \/ \E k \in Links : LinkStep(k)
    \/ \E r \in Resets : ResetStep(r)
    \/ \E c \in Changes : StatusStep(c)
    \/ \E u \in Users : Delete(u)

Spec == Init /\ [][Next]_vars

-----------------------------------------------------------------------------
Passwords == Logins \cup Resets \cup {Nobody}

\* Every variable stays in the range the code and the schema give it, only rows
\* that exist are old, and only a login that succeeded leaves a session row.
TypeOK ==
    /\ account \in [Users -> {"none", "active", "banned", "gone"}]
    /\ pw \in [Users -> Passwords]
    /\ sess \subseteq Logins
    /\ expired \subseteq sess
    /\ \A s \in sess : login[s].pc = "answered"
    /\ login \in [Logins -> [pc : {"no"}, user : {Nobody}, pw : {Nobody}]
                       \cup [pc : {"registering", "verified", "answered", "refused"},
                             user : Users, pw : Passwords]]
    /\ link \in [Links -> [pc : {"no"}, user : {Nobody}, pw : {Nobody}]
                     \cup [pc : {"asked", "open", "used", "gone"},
                           user : Users, pw : Passwords]]
    /\ old \subseteq Links
    /\ reset \in [Resets -> [pc : {"no"}, link : {Nobody}]
                       \cup [pc : {"checked", "done", "refused"}, link : Links]]
    /\ \A r \in Resets : reset[r].pc # "no" =>
          link[reset[r].link].pc \in {"open", "used", "gone"}
    /\ req \in [Requests ->
           [pc : {"no"}, kind : {"none"}, sess : {Nobody}, pw : {Nobody}]
             \cup [pc : {"refused"}, kind : {"none"}, sess : Logins, pw : {Nobody}]
             \cup [pc : {"running", "wrote", "refused"}, kind : Kinds, sess : Logins, pw : Passwords]
             \cup [pc : {"halfway", "cut"}, kind : {"turn"}, sess : Logins, pw : Passwords]
             \cup [pc : {"retrying"}, kind : {"deletion"}, sess : Logins, pw : Passwords]]
    /\ change \in [Changes -> [pc : {"no"}, user : {Nobody}, seen : {"none"}, want : {"none"}]
                         \cup [pc : {"loaded", "done", "refused"}, user : Users,
                               seen : {"active", "banned"}, want : {"active", "banned"}]]

\* No session outlives its account: a login that verified the password before
\* the account was deleted does not leave a session of nobody.
SessionHasAccount == \A s \in sess : Exists(login[s].user)

\* An open link was issued under the current password: a reset ends every link
\* mailed before it, those of other requests too, and those under way come
\* later than it.
OpenLinkIsCurrent ==
    \A k \in Links : link[k].pc = "open" => link[k].pw = pw[link[k].user]

Writes(q) == req'[q].pc # req[q].pc /\ req'[q].pc \in {"halfway", "wrote"}

\* A request that was let in before a ban, a reset or the deletion of its
\* account begins no writing after it.  What goes on writing, the reply of a turn
\* or a deletion tried again, writes nothing for an account that is gone.
RevokedBeginsNothing ==
    [][\A q \in Requests : Writes(q) =>
          LET u == login[req[q].sess].user
          IN /\ Exists(u)
             /\ req[q].pc = "running" => account[u] = "active" /\ pw[u] = req[q].pw]_vars

-----------------------------------------------------------------------------
(* What all of this promises.  A request holds a permit of the account for *)
(* as long as the row of its session is there; once it no longer needs that *)
(* row, it holds one for as long as the account is there.                  *)

Of(q, u) == req[q].pc # "no" /\ login[req[q].sess].user = u

MayBegin(u) ==
    {q \in Requests : /\ req[q].pc = "running" /\ req[q].kind # "deletion"
                      /\ req[q].sess \in sess /\ Of(q, u)}
MayFinish(u) ==
    {q \in Requests : /\ Exists(u) /\ Of(q, u)
                      /\ \/ req[q].pc \in {"halfway", "retrying"}
                         \/ req[q].pc = "running" /\ req[q].kind = "deletion"}
Usable(u) == {k \in Links \ old : link[k].pc = "open" /\ link[k].user = u}
Issued(u) == {k \in Links : link[k].pc \in {"open", "used", "gone"} /\ link[k].user = u}

Access == INSTANCE Permits WITH
    held   <- [u \in Users |-> MayBegin(u)],
    sure   <- [u \in Users |-> MayFinish(u)],
    kind   <- [q \in Requests |-> req[q].kind],
    asked  <- {q \in Requests : req[q].pc # "no"},
    wrote  <- {q \in Requests : req[q].pc \in {"halfway", "cut", "wrote"}},
    valid  <- [u \in Users |-> Usable(u)],
    issued <- [u \in Users |-> Issued(u)]

\* However the two steps of logins, requests, resets, bans and deletions
\* interleave, each takes effect at one instant: a revocation withdraws every
\* permit that it can withdraw in one step, and neither permits nor links come
\* back.
ImplementsPermits == Access!Spec

-----------------------------------------------------------------------------
\* What README.md says of a reset link: it is for a single use.
LinkWorksOnce ==
    \A r, q \in Resets :
        r # q /\ reset[r].pc = "done" /\ reset[q].pc = "done" => reset[r].link # reset[q].link

\* What one would expect of a revocation: no request that was let in before it
\* writes anything after it, the second half of a turn included.
RevokedWritesNothing ==
    [][\A q \in Requests : Writes(q) =>
          LET u == login[req[q].sess].user
          IN account[u] = "active" /\ pw[u] = req[q].pw]_vars

\* What README.md says of a reset: no session opened with an earlier password
\* is left.
SessionHasPassword == \A s \in sess : login[s].pw = pw[login[s].user]
=============================================================================
