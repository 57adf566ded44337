------------------------------- MODULE SignIn -------------------------------
(***************************************************************************)
(* Who is signed in, as the tabs of one browser see it: AuthProvider       *)
(* (context/AuthContext.tsx), the guards of components/Routes.tsx, the     *)
(* forms of pages/Login, Register, ForgotPassword and ResetPassword, the   *)
(* log-out of components/Layout and pages/Profile, and the request         *)
(* interceptor of lib/api.ts.  The tabs share the cookies.                 *)
(*                                                                         *)
(* Whether the server accepts a form is the subject of Accounts; here it   *)
(* may or may not.  A session and a CSRF token are named by the request    *)
(* that obtains them; the max-age of the CSRF cookie is left out.  All     *)
(* protected pages are one place, "app", and the public home page is none. *)
(***************************************************************************)
CONSTANTS
    Tabs, NoTab,
    Accounts, NoUser,
    Requests, NoRequest,    \* a bound: forms submitted and log-outs
    Faults                  \* what may go wrong in this instance

FaultKinds ==
    {"network",     \* a request does not reach the server
     "lost"}        \* the answer to a request is lost

ASSUME SignInAssumption ==
    NoTab \notin Tabs /\ NoUser \notin Accounts /\ NoRequest \notin Requests
        /\ Faults \subseteq FaultKinds

VARIABLES
    sessions,   \* rows of sessions
    cookie,     \* the session cookie
    csrf,       \* the CSRF cookie
    user,       \* user of each tab
    loading,    \* loading of each tab
    me,         \* me[t]: GET /auth/me of a fresh page
    where,      \* the page of each tab
    submitting, \* the request whose isSubmitting the form on screen observes
    req,        \* req[r]: a form submitted or a log-out
    behind      \* history: tabs that were not told of a change of the session

cookies == <<cookie, csrf>>
vars == <<sessions, cookies, user, loading, me, where, submitting, req, behind>>

\* The two forms that open a session, and the other two.
Entries == {"login", "register"}
Forms == Entries \cup {"forgot", "reset"}
\* The pages of a guest; "sent" is /forgot-password once its form is answered.
GuestPlaces == Forms \cup {"sent"}
Places == GuestPlaces \cup {"app"}
NotSent == [at |-> "none", kind |-> "login", tab |-> NoTab, account |-> NoUser,
            token |-> NoRequest, valid |-> FALSE]
\* What is answered is forgotten, but for the account of its session.
Forgotten(r) == [NotSent EXCEPT !.at = "over", !.account = req[r].account]
Idle == [at |-> "idle", token |-> NoRequest, answer |-> NoUser]

\* get_current_user
Owner(token) == IF token \in sessions THEN req[token].account ELSE NoUser

\* Where ProtectedRoute and GuestRoute lead once they know the user.
Guarded(place, u) ==
    IF place = "app" /\ u = NoUser THEN "login"
    ELSE IF place \in GuestPlaces /\ u # NoUser THEN "app"
    ELSE place

\* Mutant of Usable: the guards do not wait for the session check.
UsableAtOnce(t, places) == where[t] \in places

\* The guards show a spinner while the session is being checked.
Usable(t, places) == where[t] \in places /\ ~loading[t]

Init ==
    /\ sessions = {} /\ cookie = NoRequest /\ csrf = NoRequest
    /\ user = [t \in Tabs |-> NoUser]
    /\ loading = [t \in Tabs |-> TRUE]
    /\ me = [t \in Tabs |-> [Idle EXCEPT !.at = "sent"]]
    /\ where = [t \in Tabs |-> "app"]
    /\ submitting = [t \in Tabs |-> NoRequest]
    /\ req = [r \in Requests |-> NotSent]
    /\ behind = {}
-----------------------------------------------------------------------------
(* The session check of a fresh page. *)

\* A tab is loaded again, at any address.  Its requests are no longer awaited.
Reload(t, place) ==
    /\ user' = [user EXCEPT ![t] = NoUser]
    /\ loading' = [loading EXCEPT ![t] = TRUE]
    /\ me' = [me EXCEPT ![t] = [Idle EXCEPT !.at = "sent", !.token = cookie]]
    /\ where' = [where EXCEPT ![t] = place]
    /\ submitting' = [submitting EXCEPT ![t] = NoRequest]
    /\ req' = [r \in Requests |->
                  IF req[r].tab # t THEN req[r]
                  ELSE IF req[r].at = "sent" THEN [req[r] EXCEPT !.tab = NoTab]
                  ELSE Forgotten(r)]
    /\ UNCHANGED <<sessions, cookies, behind>>

\* What it reads holds every change, if the cookie is still the one it carries.
MeServed(t) ==
    /\ me[t].at = "sent"
    /\ me' = [me EXCEPT ![t].at = "served", ![t].answer = Owner(me[t].token)]
    /\ behind' = IF me[t].token = cookie THEN behind \ {t} ELSE behind
    /\ UNCHANGED <<sessions, cookies, user, loading, where, submitting, req>>

Checked(t, u) ==
    /\ user' = [user EXCEPT ![t] = u]
    /\ loading' = [loading EXCEPT ![t] = FALSE]
    /\ where' = [where EXCEPT ![t] = Guarded(@, u)]
    /\ me' = [me EXCEPT ![t] = Idle]
    /\ UNCHANGED <<sessions, cookies, submitting, req>>

\* The account, or 401.
MeAnswers(t) ==
    /\ me[t].at = "served"
    /\ Checked(t, me[t].answer)
    /\ UNCHANGED behind

\* Mutant of MeFails: only an answer ends the loading.
MeFailsUnnoticed(t) ==
    /\ "network" \in Faults
    /\ me[t].at # "idle"
    /\ me' = [me EXCEPT ![t] = Idle]
    /\ behind' = behind \cup {t}
    /\ UNCHANGED <<sessions, cookies, user, loading, where, submitting, req>>

\* Any other failure counts as not signed in.
MeFails(t) ==
    /\ "network" \in Faults
    /\ me[t].at # "idle"
    /\ Checked(t, NoUser)
    /\ behind' = behind \cup {t}
-----------------------------------------------------------------------------
(* Moving about and sending. *)

\* A link or the address bar of the running page; a form that is left is gone.
GoTo(t, place) ==
    /\ place # where[t]
    /\ where' = [where EXCEPT ![t] = IF loading[t] THEN place ELSE Guarded(place, user[t])]
    /\ submitting' = [submitting EXCEPT ![t] = NoRequest]
    /\ UNCHANGED <<sessions, cookies, user, loading, me, req, behind>>

\* The interceptor: the token of the cookie, or a new one first.
Send(r, kind, t, a) ==
    /\ req[r].at = "none"
    /\ req' = [req EXCEPT ![r] =
                  [at |-> IF csrf = NoRequest THEN "token" ELSE "sent", kind |-> kind,
                   tab |-> t, account |-> a, token |-> cookie, valid |-> TRUE]]

\* handleSubmit; the button is disabled while isSubmitting.
Submit(r, t, form, a) ==
    /\ Usable(t, {form})
    /\ submitting[t] = NoRequest
    /\ Send(r, form, t, a)
    /\ submitting' = [submitting EXCEPT ![t] = r]
    /\ UNCHANGED <<sessions, cookies, user, loading, me, where, behind>>

SubmitLogin(r, t) == \E a \in Accounts : Submit(r, t, "login", a)
SubmitRegister(r, t) == \E a \in Accounts : Submit(r, t, "register", a)
\* The link in the mail says whose password it is; without it there is no form.
SubmitReset(r, t) == \E a \in Accounts : Submit(r, t, "reset", a)
\* Whether there is such an account makes no difference here.
SubmitForgot(r, t) == Submit(r, t, "forgot", NoUser)

\* The menu item and the button of the profile are never disabled.
ClickLogout(r, t) ==
    /\ Usable(t, {"app"})
    /\ Send(r, "logout", t, NoUser)
    /\ UNCHANGED <<sessions, cookies, user, loading, me, where, submitting, behind>>

\* The answer to GET /auth/csrf sets the cookie, whatever it was.
TokenArrives(r) ==
    /\ req[r].at = "token"
    /\ req' = [req EXCEPT ![r].at = "issued"]
    /\ csrf' = r
    /\ UNCHANGED <<sessions, cookie, user, loading, me, where, submitting, behind>>

\* Another answer may have set the cookie meanwhile.
TokenUsed(r) ==
    /\ req[r].at = "issued"
    /\ req' = [req EXCEPT ![r].at = "sent", ![r].token = cookie, ![r].valid = (csrf = r)]
    /\ UNCHANGED <<sessions, cookies, user, loading, me, where, submitting, behind>>
-----------------------------------------------------------------------------
(* The server. *)

To(r, place) ==
    req' = [req EXCEPT ![r] = IF @.tab = NoTab THEN Forgotten(r) ELSE [@ EXCEPT !.at = place]]

OfAccount(a) == {s \in sessions : req[s].account = a}

\* The handlers of auth.py, by their effect on the sessions.
Served(r) ==
    /\ req[r].at = "sent" /\ req[r].valid
    /\ To(r, "done")
    /\ sessions' = CASE req[r].kind \in Entries -> sessions \cup {r}
                     [] req[r].kind = "reset" -> sessions \ OfAccount(req[r].account)
                     [] req[r].kind = "logout" -> sessions \ {req[r].token}
                     [] OTHER -> sessions
    /\ behind' = CASE req[r].kind = "reset" -> Tabs
                   [] req[r].kind = "logout" -> behind \cup (Tabs \ {req[r].tab})
                   [] OTHER -> behind
    /\ UNCHANGED <<cookies, user, loading, me, where, submitting>>

\* validate_csrf refuses, or a form is refused.
Refused(r) ==
    /\ req[r].at = "sent"
    /\ ~req[r].valid \/ req[r].kind # "logout"
    /\ To(r, "failed")
    /\ UNCHANGED <<sessions, cookies, user, loading, me, where, submitting, behind>>

\* A ban, a deletion, a reset elsewhere, or time.
SessionEnds(s) ==
    /\ s \in sessions
    /\ sessions' = sessions \ {s}
    /\ behind' = Tabs
    /\ UNCHANGED <<cookies, user, loading, me, where, submitting, req>>

Fails(r) ==
    /\ req[r].tab # NoTab
    /\ \/ "network" \in Faults /\ req[r].at \in {"token", "sent"}
       \/ "lost" \in Faults /\ req[r].at = "done"
    /\ To(r, "failed")
    /\ UNCHANGED <<sessions, cookies, user, loading, me, where, submitting, behind>>
-----------------------------------------------------------------------------
(* The answers. *)

Over(r) == req' = [req EXCEPT ![r] = Forgotten(r)]

\* A form stays on screen, and no longer waits for r, if the page stays the same.
Becomes(r, u, place) ==
    LET t == req[r].tab
        to == Guarded(place, u)
    IN /\ user' = [user EXCEPT ![t] = u]
       /\ where' = [where EXCEPT ![t] = to]
       /\ submitting' = [submitting EXCEPT ![t] =
                            IF to = where[t] /\ @ # r THEN @ ELSE NoRequest]

\* Mutant of SignedIn: the answer to a form that was left is not looked at.
SignedInIfAwaited(r) ==
    /\ req[r].at = "done" /\ req[r].kind \in Entries
    /\ cookie' = r
    /\ LET t == req[r].tab
       IN /\ IF submitting[t] = r THEN Becomes(r, req[r].account, "app")
             ELSE UNCHANGED <<user, where, submitting>>
          /\ behind' = Tabs \ (IF r \in sessions THEN {t} ELSE {})
    /\ Over(r)
    /\ UNCHANGED <<sessions, csrf, loading, me>>

\* setUser and the navigate of the form, wherever the user is now.  The other
\* tabs share the new cookie and are not told.
SignedIn(r) ==
    /\ req[r].at = "done" /\ req[r].kind \in Entries
    /\ cookie' = r
    /\ LET t == req[r].tab
       IN /\ Becomes(r, req[r].account, "app")
          /\ behind' = Tabs \ (IF r \in sessions THEN {t} ELSE {})
    /\ Over(r)
    /\ UNCHANGED <<sessions, csrf, loading, me>>

\* setSent, if the form is still there.
ForgotDone(r) ==
    /\ req[r].at = "done" /\ req[r].kind = "forgot"
    /\ LET t == req[r].tab
       IN /\ where' = [where EXCEPT ![t] = IF submitting[t] = r THEN "sent" ELSE @]
          /\ submitting' = [submitting EXCEPT ![t] = IF @ = r THEN NoRequest ELSE @]
    /\ Over(r)
    /\ UNCHANGED <<sessions, cookies, user, loading, me, behind>>

ResetDone(r) ==
    /\ req[r].at = "done" /\ req[r].kind = "reset"
    /\ Becomes(r, user[req[r].tab], "login")
    /\ Over(r)
    /\ UNCHANGED <<sessions, cookies, loading, me, behind>>

\* The answer does not clear the cookie: logout returns a response of its own.
\* An answer that comes after a later sign-in ends that in the page alone.
SignedOut(r) ==
    /\ req[r].at = "done" /\ req[r].kind = "logout"
    /\ Becomes(r, NoUser, where[req[r].tab])
    /\ behind' = IF req[r].token = cookie THEN behind ELSE behind \cup {req[r].tab}
    /\ Over(r)
    /\ UNCHANGED <<sessions, cookies, loading, me>>

\* finally: the page forgets the user, the session may live on.
LogoutFails(r) ==
    /\ req[r].at = "failed" /\ req[r].kind = "logout"
    /\ Becomes(r, NoUser, where[req[r].tab])
    /\ behind' = behind \cup {req[r].tab}
    /\ Over(r)
    /\ UNCHANGED <<sessions, cookies, loading, me>>

\* A toast, and the form may be submitted again.
FormFails(r) ==
    /\ req[r].at = "failed" /\ req[r].kind # "logout"
    /\ Over(r)
    /\ submitting' = [t \in Tabs |-> IF submitting[t] = r THEN NoRequest ELSE submitting[t]]
    /\ UNCHANGED <<sessions, cookies, user, where, loading, me, behind>>
-----------------------------------------------------------------------------
Next ==
    \/ \E t \in Tabs :
          \/ MeServed(t) \/ MeAnswers(t) \/ MeFails(t)
          \/ \E place \in Places \ {"sent"} : Reload(t, place) \/ GoTo(t, place)
          \/ \E r \in Requests :
                \/ SubmitLogin(r, t) \/ SubmitRegister(r, t) \/ SubmitReset(r, t)
                \/ SubmitForgot(r, t) \/ ClickLogout(r, t)
    \/ \E r \in Requests :
          \/ TokenArrives(r) \/ TokenUsed(r) \/ Served(r) \/ Refused(r) \/ Fails(r)
          \/ SignedIn(r) \/ ForgotDone(r) \/ ResetDone(r) \/ SignedOut(r)
          \/ LogoutFails(r) \/ FormFails(r) \/ SessionEnds(r)

Spec == Init /\ [][Next]_vars
-----------------------------------------------------------------------------
InFlight == {"token", "issued", "sent", "done", "failed"}

\* No page of the app is on screen without a user, and no form with one.
GuardsHold ==
    \A t \in Tabs : ~loading[t] => (where[t] \in GuestPlaces <=> user[t] = NoUser)

\* A form waits for a request of its own that has yet to be answered, and the
\* spinner for the session check (AuthContext.tsx 30); a page that still checks
\* its session has no user and nothing else on its way.
FormsWait ==
    \A t \in Tabs :
        /\ submitting[t] # NoRequest =>
              /\ req[submitting[t]].at \in InFlight /\ req[submitting[t]].tab = t
              /\ where[t] \in Forms /\ ~loading[t]
        /\ loading[t] <=> me[t].at # "idle"
        /\ loading[t] =>
              /\ user[t] = NoUser
              /\ \A r \in Requests : req[r].tab = t => req[r].at \notin InFlight

\* A tab that is loaded again leaves no request behind but one on the server.
AnswersAreAwaited ==
    \A r \in Requests : req[r].tab = NoTab => req[r].at \in {"none", "sent", "over"}

\* Ranges of the variables, and the states of the pages that belong together.
TypeOK ==
    /\ GuardsHold /\ FormsWait /\ AnswersAreAwaited
    /\ sessions \subseteq Requests
    /\ cookie \in Requests \cup {NoRequest} /\ csrf \in Requests \cup {NoRequest}
    /\ user \in [Tabs -> Accounts \cup {NoUser}]
    /\ loading \in [Tabs -> BOOLEAN]
    /\ me \in [Tabs -> [at : {"idle", "sent", "served"}, token : Requests \cup {NoRequest},
                        answer : Accounts \cup {NoUser}]]
    /\ where \in [Tabs -> Places]
    /\ submitting \in [Tabs -> Requests \cup {NoRequest}]
    /\ req \in [Requests -> [at : InFlight \cup {"none", "over"}, kind : Forms \cup {"logout"},
                             tab : Tabs \cup {NoTab}, account : Accounts \cup {NoUser},
                             token : Requests \cup {NoRequest}, valid : BOOLEAN]]
    /\ behind \subseteq Tabs

Quiet(t) ==
    ~loading[t] /\ \A r \in Requests : req[r].tab = t => req[r].at \notin InFlight

\* A tab that waits for nothing shows the user the server would name, however
\* session checks, reloads, sign-ins, log-outs and the other tabs overlap, unless
\* another tab or the server changed the session, or its log-out failed or was
\* answered after a later sign-in.
QuietUserIsTrue ==
    \A t \in Tabs \ behind : Quiet(t) => user[t] = Owner(cookie)

\* What a tab sends is never sent as another account than the one it shows, not
\* even while sign-ins overlap in it.
RequestsAreOfUser ==
    \A t \in Tabs \ behind : user[t] # NoUser => Owner(cookie) \in {user[t], NoUser}
=============================================================================
